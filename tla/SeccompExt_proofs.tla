------------------------- MODULE SeccompExt_proofs -------------------------
(***************************************************************************)
(* What SeccompExt guarantees for every application, profile, pool size    *)
(* and setting.                                                            *)
(***************************************************************************)
EXTENDS SeccompExt, TLAPS

\* What every living process satisfies between two steps.
Undecided(w) ==
    /\ ~ seccomp_loaded[w]
    /\ hooked[w]
    /\ kernel[w] = NoFilter
    /\ pc[w] # "call"

Confined(w) ==
    /\ seccomp_loaded[w]
    /\ first[w] \in File
    /\ kernel[w] # NoFilter
    /\ kernel[w] = Allow(filters, RelativePath[first[w]])

LeftOpen(w) ==
    /\ seccomp_loaded[w]
    /\ first[w] \in File
    /\ kernel[w] = NoFilter
    /\ ~ ini.enable \/ rc[w] = "failed" \/ RelativePath[first[w]] = TooShort

\* What the code of the loaded files can make an internal function do.
NeedsOfFiles(S) == UNION {UNION {Needs[fn] : fn \in Code[g]} : g \in S}

ProcessInv ==
    \A w \in Worker : pc[w] # "none" =>
        /\ master = "up"
        /\ served[w] < MaxRequests
        /\ Undecided(w) \/ Confined(w) \/ LeftOpen(w)
        /\ pc[w] \in {"script", "call"} => request[w] \in Entry
        /\ pc[w] = "call" => pending[w] \subseteq NeedsOfFiles(loadedFiles[w])

IInv == TypeOK /\ ProcessInv

-----------------------------------------------------------------------------
\* A profile line only ever yields system call numbers.
LEMMA RowType == ASSUME NEW line PROVE Row(line) \subseteq Syscall
BY SeccompAssumption DEF Row, Atoi

LEMMA TablesType ==
    ASSUME NEW text, NEW t \in Tables(text), NEW k \in DOMAIN t
    PROVE  t[k] \subseteq Syscall
BY RowType DEF Tables

\* Allow yields an allowlist the kernel can hold.
LEMMA AllowType ==
    ASSUME TypeOK, NEW k
    PROVE  Allow(filters, k) \subseteq Syscall /\ Allow(filters, k) # NoFilter
BY SeccompAssumption DEF Allow, TypeOK

LEMMA ScriptPathType ==
    ASSUME TypeOK, NEW w \in Worker, NEW f \in File, request[w] \in Entry
    PROVE  ScriptPath(w, f) \in File
BY WebAppAssumption DEF ScriptPath

-----------------------------------------------------------------------------
LEMMA InitIInv == Init => IInv
BY SeccompAssumption DEF Init, IInv, TypeOK, ProcessInv

LEMMA CopyFilterIInv == IInv /\ CopyFilter => IInv'
BY DEF CopyFilter, IInv, TypeOK, ProcessInv, Undecided, Confined, LeftOpen,
       NeedsOfFiles, extVars, fpmVars

LEMMA StartMasterIInv == IInv /\ StartMaster => IInv'
<1> SUFFICES ASSUME IInv, StartMaster PROVE IInv'
    OBVIOUS
<1>1. \A k \in DOMAIN filters' : filters'[k] \subseteq Syscall
    BY TablesType DEF StartMaster, IInv, TypeOK
<1>2. TypeOK'
    BY <1>1 DEF StartMaster, IInv, TypeOK, extVars, fpmVars
<1>3. \A w \in Worker : pc'[w] = "none"
    BY DEF StartMaster, IInv, TypeOK, ProcessInv, fpmVars
<1> QED BY <1>2, <1>3 DEF IInv, ProcessInv

LEMMA StopAllIInv == IInv /\ StopAll => IInv'
BY DEF StopAll, IInv, TypeOK, ProcessInv, extVars

LEMMA ForkIInv == ASSUME NEW v \in Worker PROVE IInv /\ Fork(v) => IInv'
<1> SUFFICES ASSUME IInv, Fork(v) PROVE IInv'
    OBVIOUS
<1>1. TypeOK'
    BY SeccompAssumption DEF Fork, IInv, TypeOK, masterVars
<1>2. ASSUME NEW w \in Worker, pc'[w] # "none"
      PROVE  /\ master' = "up"
             /\ served'[w] < MaxRequests
             /\ Undecided(w)' \/ Confined(w)' \/ LeftOpen(w)'
             /\ pc'[w] \in {"script", "call"} => request'[w] \in Entry
             /\ pc'[w] = "call" =>
                    pending'[w] \subseteq NeedsOfFiles(loadedFiles'[w])
  <2>1. CASE w = v
    BY <2>1, SeccompAssumption DEF Fork, IInv, TypeOK, masterVars, Undecided
  <2>2. CASE w # v
    BY <1>2, <2>2 DEF Fork, IInv, TypeOK, ProcessInv, masterVars, Undecided,
       Confined, LeftOpen
  <2> QED BY <2>1, <2>2
<1> QED BY <1>1, <1>2 DEF IInv, ProcessInv

\* The steps that neither start nor decide: what the extension holds for
\* the process stays as it was.
LEMMA AcceptIInv ==
    ASSUME NEW v \in Worker, NEW s \in Entry
    PROVE  IInv /\ Accept(v, s) => IInv'
BY WebAppAssumption
   DEF Accept, IInv, TypeOK, ProcessInv, Undecided, Confined, LeftOpen,
       NeedsOfFiles, masterVars, extVars

LEMMA IncludeIInv ==
    ASSUME NEW v \in Worker, NEW f \in File
    PROVE  IInv /\ Include(v, f) => IInv'
BY DEF Include, IInv, TypeOK, ProcessInv, Undecided, Confined, LeftOpen,
       NeedsOfFiles, masterVars, extVars

LEMMA EndRequestIInv ==
    ASSUME NEW v \in Worker PROVE IInv /\ EndRequest(v) => IInv'
BY SeccompAssumption
   DEF EndRequest, IInv, TypeOK, ProcessInv, Undecided, Confined, LeftOpen,
       NeedsOfFiles, masterVars, extVars

LEMMA SystemCallIInv ==
    ASSUME NEW v \in Worker PROVE IInv /\ SystemCall(v) => IInv'
BY DEF SystemCall, IInv, TypeOK, ProcessInv, Undecided, Confined, LeftOpen,
       NeedsOfFiles, masterVars, extVars

LEMMA ReturnFromCallIInv ==
    ASSUME NEW v \in Worker PROVE IInv /\ ReturnFromCall(v) => IInv'
BY DEF ReturnFromCall, IInv, TypeOK, ProcessInv, Undecided, Confined, LeftOpen,
       NeedsOfFiles, masterVars, extVars

LEMMA KilledIInv ==
    ASSUME NEW v \in Worker
    PROVE  IInv /\ (KilledInCall(v) \/ KilledInEngine(v)) => IInv'
BY DEF KilledInCall, KilledInEngine, IInv, TypeOK, ProcessInv, Undecided,
       Confined, LeftOpen, NeedsOfFiles, masterVars, extVars

-----------------------------------------------------------------------------
(***************************************************************************)
(* The hook.  On every path the flag is set before the body starts and     *)
(* what the process decides matches what the kernel then enforces.         *)
(***************************************************************************)
LEMMA InternalCallIInv ==
    ASSUME NEW v \in Worker, NEW f \in File, NEW fn \in Function
    PROVE  IInv /\ InternalCall(v, f, fn) => IInv'
<1> SUFFICES ASSUME IInv, InternalCall(v, f, fn) PROVE IInv'
    OBVIOUS
<1> DEFINE path == ScriptPath(v, f)
<1>1. EntersBody(v, f, fn)
    BY DEF InternalCall, LoadSkipped, LoadProfile, LoadFails, RetireHook,
           DirectCall, DecidesFilter
<1>2. path \in File
    BY <1>1, ScriptPathType DEF EntersBody, IInv, ProcessInv
<1>3. Needs[fn] \subseteq NeedsOfFiles(loadedFiles[v])
    BY <1>1 DEF EntersBody, NeedsOfFiles
<1>4. Needs[fn] \subseteq Syscall
    BY WebAppAssumption
<1>5. /\ Allow(filters, RelativePath[path]) \subseteq Syscall
      /\ Allow(filters, RelativePath[path]) # NoFilter
    BY AllowType DEF IInv
<1> HIDE DEF path
<1>6. TypeOK'
  <2>1. CASE LoadSkipped(v, f, fn)
    BY <2>1, <1>2, <1>4 DEF LoadSkipped, DecidesFilter, EntersBody, IInv,
       TypeOK, masterVars, path
  <2>2. CASE LoadProfile(v, f, fn)
    BY <2>2, <1>2, <1>4, <1>5 DEF LoadProfile, DecidesFilter, EntersBody,
       IInv, TypeOK, masterVars, path
  <2>3. CASE LoadFails(v, f, fn)
    BY <2>3, <1>2, <1>4 DEF LoadFails, DecidesFilter, EntersBody, IInv,
       TypeOK, masterVars, path
  <2>4. CASE RetireHook(v, f, fn) \/ DirectCall(v, f, fn)
    BY <2>4, <1>4 DEF RetireHook, DirectCall, EntersBody, IInv, TypeOK,
       masterVars, extVars
  <2> QED BY <2>1, <2>2, <2>3, <2>4 DEF InternalCall
<1>7. ASSUME NEW w \in Worker, pc'[w] # "none"
      PROVE  /\ master' = "up"
             /\ served'[w] < MaxRequests
             /\ Undecided(w)' \/ Confined(w)' \/ LeftOpen(w)'
             /\ pc'[w] \in {"script", "call"} => request'[w] \in Entry
             /\ pc'[w] = "call" =>
                    pending'[w] \subseteq NeedsOfFiles(loadedFiles'[w])
  <2>1. /\ master' = "up"
        /\ served'[w] < MaxRequests
        /\ pc'[w] \in {"script", "call"} => request'[w] \in Entry
        /\ pc'[w] = "call" =>
               pending'[w] \subseteq NeedsOfFiles(loadedFiles'[w])
    BY <1>1, <1>3, <1>7 DEF EntersBody, IInv, TypeOK, ProcessInv, masterVars
  <2>2. CASE w # v
    <3>1. /\ seccomp_loaded'[w] = seccomp_loaded[w]
          /\ hooked'[w] = hooked[w]
          /\ kernel'[w] = kernel[w]
          /\ rc'[w] = rc[w]
          /\ first'[w] = first[w]
      BY <2>2 DEF InternalCall, LoadSkipped, LoadProfile, LoadFails,
         RetireHook, DirectCall, DecidesFilter, extVars, IInv, TypeOK
    <3>2. pc'[w] = pc[w] /\ filters' = filters /\ ini' = ini
      BY <2>2, <1>1 DEF EntersBody, masterVars, IInv, TypeOK
    <3>3. Undecided(w) \/ Confined(w) \/ LeftOpen(w)
      BY <1>7, <3>2 DEF IInv, ProcessInv
    <3> QED BY <2>1, <3>1, <3>2, <3>3 DEF Undecided, Confined, LeftOpen
  <2>3. CASE w = v
    <3>1. pc[v] # "none" /\ filters' = filters /\ ini' = ini
      BY <1>1 DEF EntersBody, masterVars
    <3>2. Undecided(v) \/ Confined(v) \/ LeftOpen(v)
      BY <3>1 DEF IInv, ProcessInv
    <3>3. CASE LoadProfile(v, f, fn)
      <4>1. Confined(v)'
        BY <3>1, <3>3, <1>2, <1>5 DEF LoadProfile, DecidesFilter, Confined,
           path, IInv, TypeOK
      <4> QED BY <4>1, <2>1, <2>3
    <3>4. CASE LoadSkipped(v, f, fn) \/ LoadFails(v, f, fn)
      <4>1. kernel[v] = NoFilter
        BY <3>2, <3>4 DEF LoadSkipped, LoadFails, DecidesFilter, Undecided,
           Confined, LeftOpen
      <4>2. LeftOpen(v)'
        BY <3>1, <3>4, <1>2, <4>1 DEF LoadSkipped, LoadFails, DecidesFilter,
           LeftOpen, path, IInv, TypeOK
      <4> QED BY <4>2, <2>1, <2>3
    <3>5. CASE RetireHook(v, f, fn) \/ DirectCall(v, f, fn)
      <4>1. Confined(v) \/ LeftOpen(v)
        BY <3>2, <3>5 DEF RetireHook, DirectCall, Undecided
      <4>2. Confined(v)' \/ LeftOpen(v)'
        BY <3>1, <3>5, <4>1 DEF RetireHook, DirectCall, Confined, LeftOpen,
           extVars
      <4> QED BY <4>2, <2>1, <2>3
    <3> QED BY <3>3, <3>4, <3>5 DEF InternalCall
  <2> QED BY <2>2, <2>3
<1> QED BY <1>6, <1>7 DEF IInv, ProcessInv

LEMMA StutterIInv == IInv /\ UNCHANGED vars => IInv'
BY DEF vars, masterVars, extVars, fpmVars, IInv, TypeOK, ProcessInv,
       Undecided, Confined, LeftOpen, NeedsOfFiles

LEMMA NextIInv == IInv /\ [Next]_vars => IInv'
<1> SUFFICES ASSUME IInv, [Next]_vars PROVE IInv'
    OBVIOUS
<1>1. ASSUME NEW w \in Worker, WorkerNext(w) PROVE IInv'
    BY <1>1, ForkIInv, AcceptIInv, IncludeIInv, InternalCallIInv,
       SystemCallIInv, ReturnFromCallIInv, EndRequestIInv, KilledIInv
       DEF WorkerNext
<1> QED BY <1>1, CopyFilterIInv, StartMasterIInv, StopAllIInv, StutterIInv
        DEF Next

\* The inductive invariant holds in every reachable state.
THEOREM Invariance == Spec => []IInv
BY InitIInv, NextIInv, PTL DEF Spec

\* Every variable of the extension and of the pool keeps its type.
THEOREM TypeCorrect == Spec => []TypeOK
BY Invariance, PTL DEF IInv

-----------------------------------------------------------------------------
\* The filter of a process is the base list plus the profile of the file its
\* first internal call looked up.
THEOREM FilterOfDecidingFile == Spec => []ConfinedByDecidingFile
<1>1. IInv => ConfinedByDecidingFile
    BY DEF IInv, ProcessInv, Undecided, Confined, LeftOpen,
           ConfinedByDecidingFile
<1> QED BY <1>1, Invariance, PTL

\* No internal function body runs unfiltered but for the three reasons.
THEOREM UnconfinedOnlyForAReason == Spec => []UnconfinedCallExplained
<1>1. IInv => UnconfinedCallExplained
    BY DEF IInv, ProcessInv, Undecided, Confined, LeftOpen,
           UnconfinedCallExplained
<1> QED BY <1>1, Invariance, PTL

-----------------------------------------------------------------------------
\* What a process that is in its first request knows of its script: it has
\* loaded it, and if a filter has been decided on, then in this request, so
\* that a script that mentions $_SERVER is the file that was looked up.
FirstRequest(w) ==
    pc[w] # "none" /\ served[w] = 0 =>
        /\ pc[w] = "idle" => ~ seccomp_loaded[w]
        /\ pc[w] \in {"script", "call"} =>
              /\ request[w] \in loadedFiles[w]
              /\ seccomp_loaded[w] /\ request[w] \in UsesServer => first[w] = request[w]

FirstRequestInv == \A w \in Worker : FirstRequest(w)

LEMMA WorkerFirstRequest ==
    ASSUME IInv, FirstRequestInv, NEW v \in Worker, WorkerNext(v), NEW w \in Worker
    PROVE  FirstRequest(w)'
<1> USE DEF IInv, TypeOK, FirstRequestInv, FirstRequest
<1>1. CASE Fork(v)
    BY <1>1 DEF Fork
<1>2. ASSUME NEW s \in Entry, Accept(v, s)
      PROVE  FirstRequest(w)'
    BY <1>2 DEF Accept, extVars
<1>3. ASSUME NEW f \in File, Include(v, f)
      PROVE  FirstRequest(w)'
    BY <1>3 DEF Include, extVars
<1>4. ASSUME NEW f \in File, NEW fn \in Function, InternalCall(v, f, fn)
      PROVE  FirstRequest(w)'
  <2>1. EntersBody(v, f, fn)
      BY <1>4 DEF InternalCall, LoadSkipped, LoadProfile, LoadFails, RetireHook,
                  DirectCall, DecidesFilter
  <2>2. \/ UNCHANGED <<seccomp_loaded, first>>
        \/ /\ seccomp_loaded' = [seccomp_loaded EXCEPT ![v] = TRUE]
           /\ first' = [first EXCEPT ![v] = ScriptPath(v, f)]
      BY <1>4 DEF InternalCall, LoadSkipped, LoadProfile, LoadFails, RetireHook,
                  DirectCall, DecidesFilter, extVars
  <2>3. pc[v] = "script" /\ served[v] = 0 /\ request[v] \in UsesServer
            => ScriptPath(v, f) = request[v]
      BY DEF ScriptPath
  <2> QED BY <2>1, <2>2, <2>3 DEF EntersBody
<1>5. CASE EndRequest(v)
    BY <1>5, SeccompAssumption DEF EndRequest, extVars
<1>6. CASE SystemCall(v) \/ ReturnFromCall(v) \/ KilledInCall(v) \/ KilledInEngine(v)
    BY <1>6 DEF SystemCall, ReturnFromCall, KilledInCall, KilledInEngine, extVars
<1> QED BY <1>1, <1>2, <1>3, <1>4, <1>5, <1>6 DEF WorkerNext

LEMMA NextFirstRequest == IInv /\ FirstRequestInv /\ [Next]_vars => FirstRequestInv'
<1> SUFFICES ASSUME IInv, FirstRequestInv, [Next]_vars, NEW w \in Worker
             PROVE  FirstRequest(w)'
    BY DEF FirstRequestInv
<1>1. CASE CopyFilter \/ StartMaster \/ StopAll \/ UNCHANGED vars
    BY <1>1 DEF CopyFilter, StartMaster, StopAll, vars, extVars, fpmVars,
                FirstRequestInv, FirstRequest
<1> QED BY <1>1, WorkerFirstRequest DEF Next

\* In its first request a process has the filter of that request's script, if
\* any, where the script mentions $_SERVER.
THEOREM FirstRequestOwnFilter == Spec => []OwnFilterOfServerScripts
<1>1. Init => FirstRequestInv
    BY DEF Init, FirstRequestInv, FirstRequest
<1>2. IInv /\ FirstRequestInv => OwnFilterOfServerScripts
    BY DEF IInv, ProcessInv, Undecided, Confined, LeftOpen, FirstRequestInv,
           FirstRequest, OwnFilterOfServerScripts
<1> QED BY <1>1, <1>2, Invariance, NextFirstRequest, PTL DEF Spec

\* Only the path that finds the flag unset writes the filter of a process
\* that lives before and after the step.
LEMMA StepKeepsDecision ==
    ASSUME IInv, [Next]_vars, NEW w \in Worker,
           seccomp_loaded[w], pc[w] # "none", pc'[w] # "none"
    PROVE  kernel'[w] = kernel[w] /\ first'[w] = first[w]
<1>1. CASE CopyFilter \/ StartMaster \/ StopAll \/ UNCHANGED vars
    BY <1>1 DEF CopyFilter, StartMaster, StopAll, vars, extVars
<1>2. ASSUME NEW v \in Worker, WorkerNext(v)
      PROVE  kernel'[w] = kernel[w] /\ first'[w] = first[w]
  <2>1. CASE Fork(v)
    BY <2>1 DEF Fork, IInv, TypeOK
  <2>2. ASSUME NEW f \in File, NEW fn \in Function, InternalCall(v, f, fn)
        PROVE  kernel'[w] = kernel[w] /\ first'[w] = first[w]
    BY <2>2 DEF InternalCall, LoadSkipped, LoadProfile, LoadFails,
       DecidesFilter, RetireHook, DirectCall, extVars, IInv, TypeOK
  <2>3. CASE UNCHANGED extVars
    BY <2>3 DEF extVars
  <2> QED BY <1>2, <2>1, <2>2, <2>3 DEF WorkerNext, Accept, Include,
          SystemCall, ReturnFromCall, EndRequest, KilledInCall, KilledInEngine
<1> QED BY <1>1, <1>2 DEF Next

\* A decided process keeps its decision until it dies.
THEOREM DecisionStands == Spec => DecisionIsFinal
<1>1. IInv /\ [Next]_vars =>
        [\A w \in Worker :
            seccomp_loaded[w] /\ pc[w] # "none" /\ pc'[w] # "none"
                => kernel'[w] = kernel[w] /\ first'[w] = first[w]]_vars
    BY StepKeepsDecision
<1> QED BY <1>1, Invariance, PTL DEF Spec, DecisionIsFinal

\* A profile that covers the deciding file's closure kills no request that
\* stays inside that closure.
THEOREM SoundProfileSpares == Spec => KilledOnlyOutsideReach
<1> DEFINE Spared(w) ==
        pc[w] = "call" /\ pc'[w] = "none" /\ master' = "up"
            => \/ ~ Covers(filters, first[w])
               \/ ~ (loadedFiles[w] \subseteq Reach(first[w]))
<1>1. ASSUME IInv, Next, NEW w \in Worker PROVE Spared(w)
  <2> SUFFICES ASSUME pc[w] = "call", pc'[w] = "none", master' = "up",
                      Covers(filters, first[w]),
                      loadedFiles[w] \subseteq Reach(first[w])
               PROVE  FALSE
    OBVIOUS
  <2>1. KilledInCall(w)
    <3>1. ~ (CopyFilter \/ StartMaster \/ StopAll)
      BY DEF CopyFilter, StartMaster, StopAll, fpmVars, IInv, ProcessInv
    <3>2. ASSUME NEW v \in Worker, WorkerNext(v), v # w PROVE FALSE
      <4>1. pc'[w] = pc[w]
        BY <1>1, <3>2 DEF WorkerNext, Fork, Accept, Include, SystemCall,
           InternalCall, LoadSkipped, LoadProfile, LoadFails, DecidesFilter,
           RetireHook, DirectCall, EntersBody, ReturnFromCall, EndRequest,
           KilledInCall, KilledInEngine, IInv, TypeOK
      <4> QED BY <4>1
    <3>3. WorkerNext(w)
      BY <1>1, <3>1, <3>2 DEF Next
    <3>4. ASSUME NEW f \in File, NEW fn \in Function
          PROVE  ~ InternalCall(w, f, fn)
      BY DEF InternalCall, LoadSkipped, LoadProfile, LoadFails, RetireHook,
             DirectCall, DecidesFilter, EntersBody
    <3>5. ~ (Fork(w) \/ EndRequest(w) \/ KilledInEngine(w))
      BY DEF Fork, EndRequest, KilledInEngine
    <3>6. ~ (ReturnFromCall(w) \/ SystemCall(w))
      BY <1>1 DEF ReturnFromCall, SystemCall, IInv, TypeOK
    <3>7. /\ \A s \in Entry : ~ Accept(w, s)
          /\ \A f \in File : ~ Include(w, f)
      BY DEF Accept, Include
    <3> QED BY <3>3, <3>4, <3>5, <3>6, <3>7 DEF WorkerNext
  <2>2. PICK n \in pending[w] : ~ Permits(w, {n})
    BY <2>1 DEF KilledInCall
  <2>3. /\ kernel[w] = Allow(filters, RelativePath[first[w]])
        /\ n \notin kernel[w]
    BY <1>1, <2>2 DEF Permits, IInv, ProcessInv, Undecided, Confined, LeftOpen
  <2>4. n \in NeedsOfFiles(loadedFiles[w])
    BY <1>1, <2>2 DEF IInv, ProcessInv
  <2>5. n \in NeedsOfScript(first[w])
    BY <2>4 DEF NeedsOfFiles, NeedsOfScript
  <2> QED BY <2>3, <2>5 DEF Covers
<1>2. IInv /\ [Next]_vars => [\A w \in Worker : Spared(w)]_vars
    BY <1>1
<1> QED BY <1>2, Invariance, PTL DEF Spec, KilledOnlyOutsideReach

-----------------------------------------------------------------------------
(***************************************************************************)
(* The extension implements Confinement.  StartMaster and StopAll map to   *)
(* NewPolicy, a load to Confine, every way a worker ends to Die, and the   *)
(* rest to a stutter.                                                      *)
(***************************************************************************)
policyBar == {Allow(filters, RelativePath[f]) : f \in File}
jailBar == [w \in Worker |-> IF pc[w] = "none" THEN None ELSE kernel[w]]

LEMMA PolicyType == TypeOK => policyBar \in SUBSET SUBSET Syscall
BY AllowType DEF policyBar

\* A step in which one worker's process leaves or changes its filter and the
\* others stay as they are.
LEMMA OneJail ==
    ASSUME TypeOK, NEW v \in Worker, NEW x,
           \A w \in Worker \ {v} : pc'[w] = pc[w] /\ kernel'[w] = kernel[w],
           x = IF pc'[v] = "none" THEN None ELSE kernel'[v]
    PROVE  jailBar' = [jailBar EXCEPT ![v] = x]
BY DEF jailBar

LEMMA RefinesInit == Init => Sandbox!Init
<1> SUFFICES ASSUME Init PROVE Sandbox!Init
    OBVIOUS
<1>1. TypeOK
    BY InitIInv DEF IInv
<1> QED BY <1>1, PolicyType DEF Init, Sandbox!Init, policyBar

LEMMA RefinesWorker ==
    ASSUME IInv, NEW v \in Worker, WorkerNext(v)
    PROVE  Sandbox!Next \/ UNCHANGED Sandbox!vars
<1>1. UNCHANGED policyBar
    BY DEF WorkerNext, Fork, Accept, Include, SystemCall, InternalCall,
       LoadSkipped, LoadProfile, LoadFails, DecidesFilter, RetireHook,
       DirectCall, EntersBody, ReturnFromCall, EndRequest, KilledInCall,
       KilledInEngine, masterVars, policyBar
<1>2. \A w \in Worker \ {v} : pc'[w] = pc[w] /\ kernel'[w] = kernel[w]
    BY DEF WorkerNext, Fork, Accept, Include, SystemCall, InternalCall,
       LoadSkipped, LoadProfile, LoadFails, DecidesFilter, RetireHook,
       DirectCall, EntersBody, ReturnFromCall, EndRequest, KilledInCall,
       KilledInEngine, extVars, IInv, TypeOK
<1>3. CASE pc[v] = "none"
  <2>1. Fork(v)
    BY <1>3 DEF WorkerNext, Accept, Include, SystemCall, InternalCall,
       LoadSkipped, LoadProfile, LoadFails, DecidesFilter, RetireHook,
       DirectCall, EntersBody, ReturnFromCall, EndRequest, KilledInCall,
       KilledInEngine
  <2>2. pc'[v] = "idle" /\ kernel'[v] = NoFilter
    BY <2>1 DEF Fork, IInv, TypeOK
  <2>3. jailBar[v] = None /\ jailBar' = [jailBar EXCEPT ![v] = NoFilter]
    BY <1>2, <1>3, <2>2, OneJail DEF jailBar, IInv
  <2> QED BY <1>1, <2>3 DEF Sandbox!Next, Sandbox!Spawn, policyBar, jailBar
<1>4. CASE pc[v] # "none" /\ pc'[v] = "none"
  <2>1. jailBar[v] # None \/ jailBar' = jailBar
    BY <1>2, <1>4 DEF jailBar
  <2>2. jailBar' = [jailBar EXCEPT ![v] = None]
    BY <1>2, <1>4, OneJail DEF IInv
  <2> QED BY <1>1, <2>1, <2>2
          DEF Sandbox!Next, Sandbox!Die, Sandbox!vars, policyBar, jailBar
<1>5. CASE pc[v] # "none" /\ pc'[v] # "none" /\ kernel'[v] = kernel[v]
  <2>1. jailBar' = jailBar
    BY <1>2, <1>5 DEF jailBar
  <2> QED BY <1>1, <2>1 DEF Sandbox!vars, policyBar, jailBar
<1>6. CASE pc[v] # "none" /\ pc'[v] # "none" /\ kernel'[v] # kernel[v]
  <2>1. ~ Fork(v)
    BY <1>6 DEF Fork
  <2>2. PICK f \in File, fn \in Function : InternalCall(v, f, fn)
    BY <1>6, <2>1 DEF WorkerNext, Accept, Include, SystemCall,
       ReturnFromCall, EndRequest, KilledInCall, KilledInEngine, extVars
  <2>3. LoadProfile(v, f, fn)
    BY <1>6, <2>2 DEF InternalCall, LoadSkipped, LoadFails, RetireHook,
       DirectCall, extVars
  <2>4. ~ seccomp_loaded[v] /\ request[v] \in Entry
    BY <1>6, <2>3 DEF LoadProfile, DecidesFilter, EntersBody, IInv, ProcessInv
  <2>5. kernel[v] = NoFilter
    BY <1>6, <2>4 DEF IInv, ProcessInv, Undecided, Confined, LeftOpen
  <2>6. ScriptPath(v, f) \in File
    BY <2>4, ScriptPathType DEF IInv
  <2>7. kernel'[v] = Allow(filters, RelativePath[ScriptPath(v, f)])
    BY <2>3 DEF LoadProfile, IInv, TypeOK
  <2>8. kernel'[v] \in policyBar
    BY <2>6, <2>7 DEF policyBar
  <2>9. jailBar[v] = NoFilter /\ jailBar' = [jailBar EXCEPT ![v] = kernel'[v]]
    BY <1>2, <1>6, <2>5, OneJail DEF jailBar, IInv
  <2> QED BY <1>1, <2>8, <2>9
          DEF Sandbox!Next, Sandbox!Confine, policyBar, jailBar
<1> QED BY <1>3, <1>4, <1>5, <1>6

LEMMA RefinesNext ==
    IInv /\ [Next]_vars => Sandbox!Next \/ UNCHANGED Sandbox!vars
<1> SUFFICES ASSUME IInv, [Next]_vars
             PROVE  Sandbox!Next \/ UNCHANGED Sandbox!vars
    OBVIOUS
<1>1. CASE CopyFilter \/ UNCHANGED vars
    BY <1>1 DEF CopyFilter, vars, masterVars, extVars, fpmVars, Sandbox!vars,
       Allow
<1>2. CASE StartMaster \/ StopAll
  <2>1. policyBar' \in SUBSET SUBSET Syscall
    <3>1. TypeOK'
      BY NextIInv DEF IInv
    <3>2. \A f \in File : Allow(filters', RelativePath[f]) \subseteq Syscall
      BY <3>1, SeccompAssumption DEF Allow, TypeOK
    <3> QED BY <3>2 DEF policyBar
  <2>2. \A w \in Worker : pc'[w] = "none"
    BY <1>2 DEF StartMaster, StopAll, fpmVars, IInv, TypeOK, ProcessInv
  <2>3. jailBar' = [w \in Worker |-> None]
    BY <2>2 DEF jailBar
  <2> QED BY <2>1, <2>3 DEF Sandbox!Next, Sandbox!NewPolicy, policyBar, jailBar
<1>3. CASE \E w \in Worker : WorkerNext(w)
    BY <1>3, RefinesWorker
<1> QED BY <1>1, <1>2, <1>3 DEF Next

\* Every behaviour of the extension is one the abstract sandbox allows.
THEOREM Refinement == Spec => ImplementsConfinement
<1>1. IInv /\ [Next]_vars => [Sandbox!Next]_(Sandbox!vars)
    BY RefinesNext
<1>2. Spec => Sandbox!Init /\ [][Sandbox!Next]_(Sandbox!vars)
    BY <1>1, RefinesInit, Invariance, PTL DEF Spec
<1> QED BY <1>2 DEF ImplementsConfinement, Sandbox!Spec
=============================================================================
