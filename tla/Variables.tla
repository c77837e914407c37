------------------------------ MODULE Variables ------------------------------
(***************************************************************************)
(* What the IDE sees of the script's variables (xdebug_var.c, and the      *)
(* property and context commands of xdebug_handler_dbgp.c).  A value is    *)
(* written out with its children, a page of them and some levels deep,     *)
(* each under a full name; the IDE sends a full name to see more of it, and *)
(* a parser follows it from the variables of the frame asked for.           *)
(*                                                                          *)
(* A full name is a sequence of steps.  The key of a step is the sequence  *)
(* of the parts that the parser sees in it: it has one, unless the key is  *)
(* empty or holds what the format does not escape.  g is the record of the  *)
(* globals that Debugger declares; g.ini.heap holds the script's values.    *)
(***************************************************************************)
EXTENDS Integers, Sequences, SequencesExt, FiniteSetsExt, Functions

\* A value: what it is in the heap, and the frame it was found in.
Zval(id, of) == [id |-> id, of |-> IF id \in {"undef", "null"} THEN 0 ELSE of]
Undef == Zval("undef", 0)
Null  == Zval("null", 0)
Crash == Zval("crash", 0)

Kind(g, v)    == IF v.id \in DOMAIN g.ini.heap THEN g.ini.heap[v.id].kind ELSE "scalar"
ClassOf(g, v) == IF Kind(g, v) = "object" THEN g.ini.heap[v.id].class ELSE "none"

\* xdebug_var_export_options of a new session, and the tables that names are
\* looked up in.
Options  == [max_children |-> 32, max_depth |-> 1, page |-> 0]
Inactive == [data |-> 0, globals |-> FALSE, this |-> 0, fse |-> 0]

\* The last answer, and the pages seen of values; both are history.
NoAnswer == [context |-> 0, depth |-> 0, nr |-> 0, own |-> TRUE, nodes |-> {}]

-----------------------------------------------------------------------------
(* Frames *)

FrameOf(g, nr) == {i \in DOMAIN g.stack : g.stack[i].nr = nr}

\* Superglobals, and what the main script's variables are to all others.
GlobalVariables(g) == g.ini.superglobals @@ g.ini.locals["{main}"]

\* Which frame the engine executes.  A user function that has returned is
\* gone, and its caller is current again, when its return breakpoint is reached.
Returning(g) == Len(g.todo) > 1 /\ g.todo[2].do = "leave" /\ ~Last(g.stack).internal
Current(g)   == IF Returning(g) THEN Last(g.stack).execute_data ELSE Last(g.stack).nr

\* Mutant of ActiveData: the frame that executes, whatever the depth.
ActiveDataCurrent(g, depth) == Current(g)

\* The execute_data for the frame at a depth: the one that the frame it called
\* has noted as its caller's.
ActiveData(g, depth) ==
    IF depth = 0 THEN Current(g) ELSE g.stack[Len(g.stack) - depth + 1].execute_data

\* What property_get, property_value and property_set set before they look.
Look(g, depth, context) ==
    IF context = 1 THEN [g.active EXCEPT !.globals = TRUE]
    ELSE LET i == Len(g.stack) - depth
         IN  [data |-> ActiveData(g, depth), globals |-> g.stack[i].fn = "{main}",
              this |-> g.stack[i].nr, fse |-> g.stack[i].nr]

\* fetch_zval_from_symbol_table, XF_ST_ROOT: a compiled variable, $this, or what
\* the symbol table has.
Root(g, name) ==
    LET a   == g.active
        fns == {g.stack[i].fn : i \in FrameOf(g, a.data)}
        own == {fn \in fns : name \in DOMAIN g.ini.locals[fn]}
    IN  IF own # {} THEN Zval(g.ini.locals[CHOOSE fn \in own : TRUE][name], a.data)
        ELSE IF name = "this"
        THEN LET objects == {g.ini.this[g.stack[i].fn] : i \in FrameOf(g, a.this)} \ {"null"}
             IN  IF objects = {} THEN Null ELSE Zval(CHOOSE o \in objects : TRUE, a.this)
        ELSE IF a.globals /\ name \in DOMAIN GlobalVariables(g) THEN Zval(GlobalVariables(g)[name], 1)
        ELSE Undef

-----------------------------------------------------------------------------
(* Following a full name *)

\* The first of the items with a property, or undef.
FirstOf(items, Is(_)) ==
    LET found == {i \in DOMAIN items : Is(items[i])}
    IN  IF found = {} THEN "undef" ELSE items[Min(found)].val

ItemsOf(g, v) == IF Kind(g, v) = "scalar" THEN <<>> ELSE g.ini.heap[v.id].items

\* xdebug_stripcslashes of what php_addslashes made: it takes the digits after
\* a NUL for a part of the character's number.
Stripped(key) == IF Len(key) > 1 THEN <<"other">> ELSE key

\* XF_ST_ARRAY_INDEX_ASSOC and XF_ST_ARRAY_INDEX_NUM
Index(g, v, step) ==
    Zval(FirstOf(ItemsOf(g, v),
                 LAMBDA item : item.key = Stripped(step.key) /\ item.modifier = "public"), v.of)

\* XF_ST_STATIC_PROPERTY and XF_ST_STATIC_ROOT; the class between the stars is
\* skipped.
StaticOf(g, ce, step) ==
    IF ce = "none" THEN Undef
    ELSE Zval(FirstOf(g.ini.statics[ce], LAMBDA item : item.key = step.key), 0)

\* XF_ST_OBJ_PROPERTY.  What is private to a class is found with the class
\* between stars, or from the object's own class.  The test for the storage of
\* an SplObjectStorage compares no more than the name has, and no more than the
\* name of the class has, which is empty for what is no object.
Property(g, v, step, ccn) ==
    LET name == step.key[1]
        mine(item) == /\ item.key = step.key
                      /\ IF step.class # "" THEN item.modifier = "private" /\ item.owner = step.class
                         ELSE item.modifier = "private" => item.owner = ccn
        id == FirstOf(ItemsOf(g, v), mine)
    IN  IF id = "undef" /\ ccn = "none" /\ step.class = "" /\ name \in g.ini.storage
        THEN Crash ELSE Zval(id, v.of)

\* The steps as the parser sees them: a dash in the name of a property starts
\* the next.
Split(step) ==
    IF step.sep = "->" THEN [i \in DOMAIN step.key |-> [step EXCEPT !.key = <<step.key[i]>>]]
    ELSE <<step>>

\* The class that ZEND_FETCH_CLASS_SELF finds: that of the function that executes,
\* whichever frame was asked for.
ExecutedScope(g) ==
    LET scopes == {i \in DOMAIN g.stack :
                      /\ \A j \in FrameOf(g, Current(g)) : i <= j
                      /\ ~g.stack[i].internal \/ g.ini.class[g.stack[i].fn] # "none"}
    IN  IF scopes = {} \/ Current(g) = 0 THEN "none" ELSE g.ini.class[g.stack[Max(scopes)].fn]

\* A name that starts with ::, in a frame of a class.
StaticRoot(g, step) ==
    LET classes == {g.ini.class[g.stack[i].fn] : i \in FrameOf(g, g.active.fse)} \ {"none"}
    IN  IF classes = {} THEN Undef
        ELSE IF ExecutedScope(g) = "none" THEN Crash
        ELSE StaticOf(g, ExecutedScope(g), step)

\* xdebug_get_php_symbol.  ccn and ce, the class of the object so far, are set
\* where a step ends, and forgotten there but for one case: what is no object
\* leaves the ce of an earlier one to a static property.
Symbol(g, fullname) ==
    LET steps == FlattenSeq([i \in DOMAIN fullname |-> Split(fullname[i])])
        first == steps[1]
        start == IF first.sep = "::"
                 THEN [val |-> StaticRoot(g, first), ccn |-> ExecutedScope(g),
                       ce |-> ExecutedScope(g)]
                 ELSE [val |-> Root(g, first.key[1]), ccn |-> "none", ce |-> "none"]
        follow(s, step, keyword) ==
            LET own == ClassOf(g, s.val)
                ccn == IF keyword THEN own ELSE s.ccn
            IN  CASE step.sep = "[" ->
                        LET val == Index(g, s.val, step)
                            of  == ClassOf(g, val)
                        IN  [val |-> val, ccn |-> of,
                             ce |-> IF of # "none" THEN of ELSE IF keyword THEN "none" ELSE s.ce]
                  [] step.sep = "->" ->
                        LET ce == IF keyword THEN own ELSE s.ce
                        IN  [val |-> Property(g, s.val, step, ccn), ccn |-> ccn, ce |-> ce]
                  [] step.sep = "::" ->
                        LET ce == IF keyword /\ own # "none" THEN own ELSE s.ce
                        IN  [val |-> StaticOf(g, ce, step), ccn |-> ccn, ce |-> ce]
    IN  FoldLeftDomain(LAMBDA s, i :
                          IF i = 1 \/ s.val = Crash THEN s
                          ELSE follow(s, steps[i], steps[i - 1].sep # "["),
                       start, steps).val

-----------------------------------------------------------------------------
(* Writing a value out *)

\* The children of a value, in the order they are counted: of an object, its
\* static properties come first.
Children(g, v) ==
    IF Kind(g, v) = "object"
    THEN [i \in DOMAIN g.ini.statics[ClassOf(g, v)] |->
             [item |-> g.ini.statics[ClassOf(g, v)][i], sep |-> "::"]] \o
         [i \in DOMAIN ItemsOf(g, v) |-> [item |-> ItemsOf(g, v)[i], sep |-> "->"]]
    ELSE [i \in DOMAIN ItemsOf(g, v) |-> [item |-> ItemsOf(g, v)[i], sep |-> "["]]

\* What an object's property without a name is called: the address of its
\* parent's name is printed as a string.
Garbage == <<[sep |-> "$", key |-> <<"garbage">>, class |-> ""]>>

\* A property, as an object or method of a class names it: private ones of
\* other classes with their class between stars.
Step(sep, item, class) ==
    [sep |-> sep, key |-> item.key,
     class |-> IF sep # "[" /\ item.modifier = "private" /\ item.owner # class
               THEN item.owner ELSE ""]

FullName(g, v, name, child) ==
    IF child.sep # "[" /\ child.item.key = <<>> THEN Garbage
    ELSE Append(name, Step(child.sep, child.item, ClassOf(g, v)))

\* Mutant of Shown: the last element of a page is also the first of the next.
ShownOneMore(o, level, n) ==
    {i \in 1..n : LET start == IF level = 0 THEN o.max_children * o.page ELSE 0
                  IN  i - 1 >= start /\ i - 1 <= start + o.max_children}

\* The children shown of n: a page of them at the level of the value asked for,
\* below it the first.
Shown(o, level, n) ==
    {i \in 1..n : LET start == IF level = 0 THEN o.max_children * o.page ELSE 0
                  IN  i - 1 >= start /\ i - 1 < start + o.max_children}

\* What xdebug_var_export_xml_node is called for: a value, its full name, and the
\* arrays that are being written.
Entry(v, name, busy) == [val |-> v, name |-> name, busy |-> busy]

\* An array is not entered again while it is written; an object is.
ShownChildren(g, e, level) ==
    IF e.val.id \in e.busy THEN {} ELSE Shown(g.options, level, Len(Children(g, e.val)))

\* The node of the i-th child.
ChildNode(g, e, level, i) ==
    LET child == Children(g, e.val)[i]
    IN  [fullname |-> FullName(g, e.val, e.name, child), level |-> level, at |-> i,
         val |-> Zval(child.item.val, IF child.sep = "::" THEN 0 ELSE e.val.of)]

ChildEntry(g, e, level, i) ==
    Entry(ChildNode(g, e, level, i).val, ChildNode(g, e, level, i).fullname,
          IF Kind(g, e.val) = "array" THEN e.busy \cup {e.val.id} ELSE e.busy)

\* xdebug_var_export_xml_node: what it adds below the node of a value, from a
\* level on; entered is what it is called for at the levels below.
Below(g, v, name, level) ==
    LET top == {Entry(v, name, {})}
        entered[l \in Nat] ==
            UNION {{ChildEntry(g, e, l - 1, i) : i \in ShownChildren(g, e, l - 1)} :
                      e \in IF l <= level + 1 THEN top ELSE entered[l - 1]}
        nodes(l) == UNION {{ChildNode(g, e, l, i) : i \in ShownChildren(g, e, l)} :
                              e \in IF l = level THEN top ELSE entered[l]}
    IN  UNION {nodes(l) : l \in level..(g.options.max_depth - 1)}

\* xdebug_get_zval_value_xml_node_ex
ValueNode(g, v, name) ==
    {[fullname |-> name, level |-> -1, at |-> 0, val |-> v]} \cup Below(g, v, name, 0)

-----------------------------------------------------------------------------
(* Commands *)

\* DBGP_FUNC(feature_set)
FeatureSet(g, f) ==
    LET o == [g.options EXCEPT ![f.feature] = f.value]
    IN  [g EXCEPT !.options = IF f.feature = "max_depth" THEN [o EXCEPT !.page = 0] ELSE o]

\* Whether an execute_data is of a frame that is still in progress, above the
\* frames that the engine has dropped.
Gone(g, nr, base) == nr # 0 /\ \A i \in FrameOf(g, nr) : i <= base

\* What looking up a name may give in a state h: when the frame it looks in has
\* gone, it reads what is left of it.
Looked(h, name, base) ==
    IF \/ name[1].sep = "$" /\ Gone(h, h.active.data, base)
       \/ name[1].key = <<"this">> /\ Gone(h, h.active.this, base)
    THEN {[h EXCEPT !.crashed = TRUE],
          [h EXCEPT !.active.data = IF Gone(h, @, base) THEN 0 ELSE @,
                    !.active.this = IF Gone(h, @, base) THEN 0 ELSE @]}
    ELSE {h}

\* The start of DBGP_FUNC(property_get), (property_value) and (property_set) for
\* a query q; with no levels there is no page to set.
Prepared(g, q) ==
    LET h == [g EXCEPT !.active = Look(g, q.depth, q.context), !.options.page = q.page,
                       !.answer = NoAnswer]
    IN  IF g.options.max_depth = 0 THEN {h, [h EXCEPT !.crashed = TRUE]} ELSE {h}

HasFrame(g, q) == q.context = 1 \/ q.depth < Len(g.stack)

\* An answer to the query q about the names in the state h.
AnswerTo(h, q, nodes) ==
    [h EXCEPT !.answer = [context |-> q.context, depth |-> q.depth, nodes |-> nodes,
                          nr  |-> IF q.context = 1 THEN 1 ELSE h.stack[Len(h.stack) - q.depth].nr,
                          own |-> ~(q.context = 0 /\ q.depth = 0 /\ Returning(h))]]

\* DBGP_FUNC(property_get), which shows a value and a page of it.
PropertyGet(g, q, base) ==
    IF ~HasFrame(g, q) THEN {[g EXCEPT !.answer = NoAnswer]}
    ELSE {LET v == Symbol(h, q.name)
              nodes == ValueNode(h, v, q.name)
          IN  IF h.crashed \/ v = Undef THEN h
              ELSE IF v = Crash THEN [h EXCEPT !.crashed = TRUE]
              ELSE [AnswerTo(h, q, nodes) EXCEPT !.seen = @ \cup
                       {[name |-> q.name, depth |-> q.depth, context |-> q.context,
                         page |-> q.page, val |-> v, of |-> Len(Children(h, v)),
                         at |-> {n.at : n \in {m \in nodes : m.level = 0}}]}] :
             h \in UNION {Looked(k, q.name, base) : k \in Prepared(g, q)}}

\* DBGP_FUNC(property_value): the same without the value's own node, and a level
\* further down, where there are no pages.
PropertyValue(g, q, base) ==
    IF ~HasFrame(g, q) THEN {[g EXCEPT !.answer = NoAnswer]}
    ELSE {LET v == Symbol(h, q.name)
          IN  IF h.crashed \/ v = Undef THEN h
              ELSE IF v = Crash THEN [h EXCEPT !.crashed = TRUE]
              ELSE AnswerTo(h, q, Below(h, v, q.name, 1)) :
             h \in UNION {Looked(k, q.name, base) : k \in Prepared(g, q)}}

\* DBGP_FUNC(property_set) with a type: it converts the new value, and leaves
\* the variable as it is.
PropertySet(g, q, base) ==
    IF ~HasFrame(g, q) THEN {[g EXCEPT !.answer = NoAnswer]}
    ELSE {[h EXCEPT !.crashed = @ \/ Symbol(h, q.name) = Crash] :
             h \in UNION {Looked(k, q.name, base) : k \in Prepared(g, q)}}

Variable(n) == <<[sep |-> "$", key |-> <<n>>, class |-> ""]>>

\* attach_context_vars: the superglobals; or the variables of a frame, if they
\* were noted when it began, with $this if there is one, and for a static method
\* the static properties of its class.
ContextNodes(h, q) ==
    LET frame == h.stack[Len(h.stack) - q.depth]
        class == h.ini.class[frame.fn]
        named(n) == LET v == Root(h, n)
                    IN  IF n = "this" /\ v = Null THEN {}
                        ELSE ValueNode(h, v, Variable(n))
    IN  IF q.context = 1 THEN UNION {named(n) : n \in DOMAIN h.ini.superglobals}
        ELSE UNION {named(n) : n \in IF frame.declared
                                     THEN DOMAIN h.ini.locals[frame.fn] \cup {"this"} ELSE {}}
             \cup UNION {LET item == h.ini.statics[class][i]
                         IN  ValueNode(h, Zval(item.val, 0), <<Step("::", item, class)>>) :
                            i \in IF frame.fn \in h.ini.static THEN DOMAIN h.ini.statics[class]
                                  ELSE {}}

\* DBGP_FUNC(context_get), which forgets afterwards what it looked in.
ContextGet(g, q, base) ==
    IF ~HasFrame(g, q) THEN {[g EXCEPT !.options.page = 0, !.answer = NoAnswer]}
    ELSE {IF h.crashed THEN h
          ELSE [AnswerTo(h, q, ContextNodes(h, q)) EXCEPT
                   !.active = [@ EXCEPT !.data = 0, !.globals = FALSE,
                                        !.this = IF q.context = 1 THEN @ ELSE 0]] :
             h \in Looked([g EXCEPT !.options.page = 0, !.answer = NoAnswer,
                              !.active = IF q.context = 1
                                         THEN [g.active EXCEPT !.globals = TRUE, !.data = 0]
                                         ELSE [Look(g, q.depth, 0) EXCEPT !.fse = g.active.fse]],
                          Variable(IF q.context = 1 THEN "GLOBALS" ELSE "this"), base)}
=============================================================================
