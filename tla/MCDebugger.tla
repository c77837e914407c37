------------------------------ MODULE MCDebugger ------------------------------
(* Scripts and the IDEs that debug them: each has the commands, breakpoints  *)
(* and events of one part of the protocol, and the bounds for it.            *)
EXTENDS Debugger

Functions == {"{main}", "f", "C::m", "D::m", "array_map", "strlen", "xdebug_break"}

Plain == [mode |-> "req", addresses |-> 1, functions |-> {"f"}, lines |-> {1},
          classes |-> {}, errors |-> {},
          commands |-> {"run", "status"}, options |-> {}, updates |-> {},
          features |-> {}, queries |-> {}, pages |-> {0},
          locals |-> [fn \in Functions |-> << >>], static |-> {},
          this |-> [fn \in Functions |-> "null"], class |-> [fn \in Functions |-> "none"],
          superglobals |-> << >>, statics |-> << >>, heap |-> << >>, storage |-> {},
          MaxStatements |-> 3, MaxCalls |-> 4, MaxCommands |-> 3]

Stop(type, at) == [type |-> type, at |-> at, temporary |-> FALSE, hit_value |-> 0,
                   hit_condition |-> "none", condition |-> FALSE]

Stepper == [Plain EXCEPT !.addresses = 2, !.MaxCommands = 4,
                         !.functions = {"f", "array_map"},
                         !.commands = {"step_into", "step_over", "step_out", "run"}]

Leaver == [Plain EXCEPT !.MaxStatements = 2, !.MaxCalls = 3, !.MaxCommands = 4,
                        !.errors = {"Fatal error"},
                        !.options = {Stop("call", "f")},
                        !.commands = {"step_into", "run", "stop", "detach", "interrupt",
                                      "status", "breakpoint_set"}]

Liner == [Plain EXCEPT !.MaxCommands = 4, !.functions = {}, !.lines = {1, 2},
                       !.options = {Stop("line", 1),
                                    [Stop("line", 2) EXCEPT !.temporary = TRUE],
                                    [Stop("line", 2) EXCEPT !.hit_value = 2,
                                        !.hit_condition = "%", !.condition = TRUE]},
                       !.updates = {[field |-> "lineno", value |-> 2],
                                    [field |-> "disabled", value |-> TRUE],
                                    [field |-> "disabled", value |-> FALSE]},
                       !.commands = {"run", "breakpoint_set", "breakpoint_remove",
                                     "breakpoint_update", "breakpoint_get",
                                     "breakpoint_list"}]

Caller == [Plain EXCEPT !.MaxStatements = 2, !.functions = {"f", "C::m", "strlen"},
                        !.options = {[Stop("call", "f") EXCEPT !.temporary = TRUE],
                                     [Stop("call", "C::m") EXCEPT !.hit_value = 2,
                                                                 !.hit_condition = ">="],
                                     Stop("return", "f"), Stop("return", "strlen")},
                        !.updates = {[field |-> "disabled", value |-> FALSE]},
                        !.commands = {"run", "step_out", "breakpoint_set", "breakpoint_remove",
                                     "breakpoint_update"}]

Waiter == [Plain EXCEPT !.MaxCalls = 3, !.mode = "jit", !.functions = {"f", "xdebug_break"},
                        !.classes = {"Exception"}, !.errors = {"Warning", "Fatal error"},
                        !.options = {[Stop("exception", "*") EXCEPT !.temporary = TRUE],
                                     [Stop("exception", "Warning") EXCEPT !.hit_value = 1,
                                                                        !.hit_condition = "=="]},
                        !.commands = {"run", "breakpoint_set", "detach", "stop"}]

Item(key, val) == [key |-> key, owner |-> "", modifier |-> "public", val |-> val]
Private(key, owner, val) == [Item(key, val) EXCEPT !.owner = owner, !.modifier = "private"]

Query(name, depth) == [name |-> Variable(name), depth |-> depth, context |-> 0, page |-> 0]
Static(depth) == [Query("s", depth) EXCEPT !.name[1].sep = "::"]
Super(name)   == [Query(name, 0) EXCEPT !.context = 1]

Viewer == [Plain EXCEPT !.MaxStatements = 2, !.MaxCalls = 3, !.MaxCommands = 4,
    !.functions = {"f", "C::m", "array_map"},
    !.commands = {"step_into", "property_get", "context_get", "breakpoint_set"},
    !.options = {Stop("return", "f")},
    !.queries = {Query("a", 0), Query("a", 1), Query("a", 2), Static(0), Static(1), Super("GLOBALS")},
    !.locals = [@ EXCEPT !["{main}"] = [a |-> "int", b |-> "undef"], !["f"] = [a |-> "int"]],
    !.class = [@ EXCEPT !["C::m"] = "C"], !.static = {"C::m"},
    !.superglobals = [GLOBALS |-> "globals"],
    !.statics = [C |-> <<Item(<<"s">>, "int")>>],
    !.heap = [globals |-> [kind |-> "array", items |-> <<Item(<<"a">>, "int")>>]]]

Pager == [Plain EXCEPT !.MaxStatements = 1, !.MaxCalls = 2, !.MaxCommands = 5,
    !.functions = {"D::m"},
    !.commands = {"step_into", "feature_set", "property_get", "property_value", "property_set"},
    !.features = {[feature |-> "max_children", value |-> 2], [feature |-> "max_depth", value |-> 2],
                  [feature |-> "max_depth", value |-> 0]},
    !.queries = {Query("a", 0), Query("this", 0)}, !.pages = 0..1,
    !.locals = [@ EXCEPT !["{main}"] = [a |-> "a"]],
    !.class = [@ EXCEPT !["D::m"] = "D"], !.this = [@ EXCEPT !["D::m"] = "o"],
    !.statics = [D |-> <<Item(<<"s">>, "int"), Private(<<"t">>, "C", "int")>>],
    !.heap = [a |-> [kind |-> "array", items |-> <<Item(<<"k">>, "list"), Item(<<"nul", "1">>, "int"),
                                                   Item(<<"me">>, "a")>>],
              list |-> [kind |-> "array", items |-> <<Item(<<"0">>, "int"), Item(<<"1">>, "o")>>],
              o |-> [kind |-> "object", class |-> "D",
                     items |-> <<Private(<<"p">>, "D", "int"), Private(<<"p">>, "C", "list"),
                                 Item(<<"a", "b">>, "int"), Item(<<>>, "int")>>]]]

MCApps == {Stepper, Leaver, Liner, Caller, Waiter, Viewer, Pager}
=============================================================================
