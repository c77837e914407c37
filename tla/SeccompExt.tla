----------------------------- MODULE SeccompExt -----------------------------
(***************************************************************************)
(* The stage-3 PHP extension (src/stage3/extension/seccomp.c) inside a     *)
(* pool of PHP-FPM workers.  The FPM master runs MINIT and reads the       *)
(* profile; each worker is a fork of it, serves requests one after the     *)
(* other, and reaches the extension through zend_execute_internal, the     *)
(* engine's hook around every internal function.  FPM, the PHP engine,     *)
(* libseccomp and the kernel are outside src/ and appear only as the       *)
(* extension uses them.                                                    *)
(***************************************************************************)
EXTENDS WebApp, Sequences, FiniteSets

CONSTANTS
    Worker,         \* the slots of the FPM pool
    MaxRequests,    \* requests a worker serves before FPM recycles it
    FpmSyscalls,    \* what load_seccomp_profile always allows: 100 80 38 273 48
    EngineSyscalls, \* what a worker needs to take a request from its socket
    RelativePath,   \* RelativePath[f]: f minus the first strlen(app_base) bytes
    TooShort,       \* ... or TooShort, when f is shorter than app_base
    Profiles,       \* the contents the file at profile_path can have
    NoFile,         \* no readable file there
    Inis,           \* php.ini settings: [enable, profile_path]
    NoFilter,       \* the process has no kernel filter
    None

ASSUME SeccompAssumption ==
    /\ MaxRequests \in Nat \ {0}
    /\ FpmSyscalls \subseteq Syscall
    /\ EngineSyscalls \subseteq Syscall
    /\ 0 \in Syscall
    /\ Inis \subseteq [enable : BOOLEAN, profile_path : BOOLEAN]
    /\ \A S \in SUBSET Syscall : NoFilter # S
    /\ NoFile \notin Profiles
    /\ None \notin File

VARIABLES
    disk,           \* the file at seccomp.profile_path
    master,         \* the FPM master: "down", "failed" or "up"
    ini,            \* the settings the master started with
    filters,        \* the profile table MINIT built; workers inherit it
    pc,             \* pc[w]: "none", "idle", "script" or "call"
    seccomp_loaded, \* the extension's flag, one per process
    hooked,         \* zend_execute_internal is seccomp_execute_internal
    kernel,         \* the filter the kernel holds for the process
    request,        \* the script of the request being served
    loadedFiles,    \* the files that request has loaded
    pending,        \* system calls the running internal function still makes
    served,         \* requests the process has finished
    rc,             \* what load_seccomp_profile returned (the hook drops it)
    first           \* the file whose path that call looked up

masterVars == <<disk, master, ini, filters>>
extVars    == <<seccomp_loaded, hooked, kernel, rc, first>>
fpmVars    == <<pc, request, loadedFiles, pending, served>>
vars       == <<masterVars, extVars, fpmVars>>

(***************************************************************************)
(* The profile: one line per script, "path n1 n2 ...".  A line is the      *)
(* sequence of its space-separated tokens; the first names the script.     *)
(***************************************************************************)
Atoi(token) == IF token \in Syscall THEN token ELSE 0

\* create_seccomp_filter: every token after the name becomes a number.
Row(line) == {Atoi(line[i]) : i \in 2..Len(line)}

\* A line without a delimiter is skipped.
Lines(text) == {l \in {text[i] : i \in DOMAIN text} : Len(l) >= 2}

\* HASH_ADD_STR keeps every line, HASH_FIND_STR returns one of those that
\* share a name.
Tables(text) ==
    {t \in [{l[1] : l \in Lines(text)} -> {Row(l) : l \in Lines(text)}] :
        \A k \in DOMAIN t : \E l \in Lines(text) : l[1] = k /\ t[k] = Row(l)}

\* The allowlist load_seccomp_profile gives the kernel for script name k.
\* MINIT's rule for exit has the filter's default action and allows nothing.
Allow(table, k) ==
    FpmSyscalls \cup (IF k \in DOMAIN table THEN table[k] ELSE {})

Permits(w, calls) == kernel[w] # NoFilter => calls \subseteq kernel[w]

TypeOK ==
    /\ disk \in Profiles \cup {NoFile}
    /\ master \in {"down", "failed", "up"}
    /\ ini \in Inis
    /\ \A k \in DOMAIN filters : filters[k] \subseteq Syscall
    /\ pc \in [Worker -> {"none", "idle", "script", "call"}]
    /\ seccomp_loaded \in [Worker -> BOOLEAN]
    /\ hooked \in [Worker -> BOOLEAN]
    /\ kernel \in [Worker -> {NoFilter} \cup SUBSET Syscall]
    /\ request \in [Worker -> Entry \cup {None}]
    /\ loadedFiles \in [Worker -> SUBSET File]
    /\ pending \in [Worker -> SUBSET Syscall]
    /\ served \in [Worker -> 0..MaxRequests]
    /\ rc \in [Worker -> {"none", "short", "disabled", "failed", "loaded"}]
    /\ first \in [Worker -> File \cup {None}]

Init ==
    /\ disk \in Profiles \cup {NoFile}
    /\ master = "down"
    /\ ini \in Inis
    /\ filters = [k \in {} |-> {}]
    /\ pc = [w \in Worker |-> "none"]
    /\ seccomp_loaded = [w \in Worker |-> FALSE]
    /\ hooked = [w \in Worker |-> TRUE]
    /\ kernel = [w \in Worker |-> NoFilter]
    /\ request = [w \in Worker |-> None]
    /\ loadedFiles = [w \in Worker |-> {}]
    /\ pending = [w \in Worker |-> {}]
    /\ served = [w \in Worker |-> 0]
    /\ rc = [w \in Worker |-> "none"]
    /\ first = [w \in Worker |-> None]

-----------------------------------------------------------------------------
(***************************************************************************)
(* The server: run_stage3.sh copies the profile, kills php-fpm, and starts *)
(* it again; FPM forks workers and hands them requests.                    *)
(***************************************************************************)

\* Mutant of CopyFilter: the running master takes the new profile over.
CopyFilterRereads ==
    /\ \E text \in Profiles : disk' = text
    /\ filters' \in Tables(disk')
    /\ UNCHANGED <<master, ini, extVars, fpmVars>>

\* run_stage3.sh copies the stage-2 output; a running master does not notice.
CopyFilter ==
    /\ \E text \in Profiles : disk' = text
    /\ UNCHANGED <<master, ini, filters, extVars, fpmVars>>

\* php-fpm starts: MINIT.  INI_STR returns a pointer to "0" or "1", never
\* NULL, so the early return for a disabled extension is never taken and
\* the profile is opened whatever seccomp.enable says.
StartMaster ==
    /\ master = "down"
    /\ ini' \in Inis
    /\ \/ /\ ~ ini'.profile_path \/ disk = NoFile
          /\ master' = "failed"
          /\ UNCHANGED filters
       \/ /\ ini'.profile_path /\ disk # NoFile
          /\ master' = "up"
          /\ filters' \in Tables(disk)
    /\ UNCHANGED <<disk, extVars, fpmVars>>

\* pkill -9 php-fpm, or the exit of a master whose module did not start.
StopAll ==
    /\ master # "down"
    /\ master' = "down"
    /\ pc' = [w \in Worker |-> "none"]
    /\ UNCHANGED <<disk, ini, filters, extVars>>
    /\ UNCHANGED <<request, loadedFiles, pending, served>>

\* A fork copies the master's image, in which no internal function has run.
Fork(w) ==
    /\ master = "up"
    /\ pc[w] = "none"
    /\ pc' = [pc EXCEPT ![w] = "idle"]
    /\ seccomp_loaded' = [seccomp_loaded EXCEPT ![w] = FALSE]
    /\ hooked' = [hooked EXCEPT ![w] = TRUE]
    /\ kernel' = [kernel EXCEPT ![w] = NoFilter]
    /\ request' = [request EXCEPT ![w] = None]
    /\ loadedFiles' = [loadedFiles EXCEPT ![w] = {}]
    /\ pending' = [pending EXCEPT ![w] = {}]
    /\ served' = [served EXCEPT ![w] = 0]
    /\ rc' = [rc EXCEPT ![w] = "none"]
    /\ first' = [first EXCEPT ![w] = None]
    /\ UNCHANGED masterVars

\* A request arrives; the engine compiles its script.
Accept(w, script) ==
    /\ pc[w] = "idle"
    /\ Permits(w, EngineSyscalls)
    /\ pc' = [pc EXCEPT ![w] = "script"]
    /\ request' = [request EXCEPT ![w] = script]
    /\ loadedFiles' = [loadedFiles EXCEPT ![w] = {script}]
    /\ UNCHANGED <<masterVars, extVars, pending, served>>

\* include/require are opcodes, not internal functions: no hook.
Include(w, f) ==
    /\ pc[w] = "script"
    /\ \E g \in loadedFiles[w] : f \in Includes[g] \ loadedFiles[w]
    /\ loadedFiles' = [loadedFiles EXCEPT ![w] = @ \cup {f}]
    /\ UNCHANGED <<masterVars, extVars, pc, request, pending, served>>

\* The request ends; FPM recycles a worker that has served its share.
EndRequest(w) ==
    /\ pc[w] = "script"
    /\ served' = [served EXCEPT ![w] = @ + 1]
    /\ pc' = [pc EXCEPT ![w] =
                IF served[w] + 1 = MaxRequests THEN "none" ELSE "idle"]
    /\ UNCHANGED <<masterVars, extVars, request, loadedFiles, pending>>

-----------------------------------------------------------------------------
(***************************************************************************)
(* seccomp_execute_internal, one action per path through it and through    *)
(* load_seccomp_profile.  The body of the internal function runs after it, *)
(* one system call per step.                                               *)
(***************************************************************************)

\* Mutant of ScriptPath: SCRIPT_FILENAME is ignored.
ScriptPathExecuted(w, f) == f

\* SCRIPT_FILENAME when PHP has built $_SERVER, which it does once a loaded
\* file mentions it; otherwise the file whose code is running.
ScriptPath(w, f) ==
    IF loadedFiles[w] \cap UsesServer # {} THEN request[w] ELSE f

\* Code of a loaded file f calls the internal function fn.
EntersBody(w, f, fn) ==
    /\ pc[w] = "script"
    /\ f \in loadedFiles[w]
    /\ fn \in Code[f]
    /\ pc' = [pc EXCEPT ![w] = "call"]
    /\ pending' = [pending EXCEPT ![w] = Needs[fn]]
    /\ UNCHANGED <<masterVars, request, loadedFiles, served>>

\* Mutant of DecidesFilter: the flag is not tested.
DecidesFilterAgain(w, f, fn) ==
    /\ hooked[w]
    /\ EntersBody(w, f, fn)
    /\ seccomp_loaded' = [seccomp_loaded EXCEPT ![w] = TRUE]
    /\ first' = [first EXCEPT ![w] = ScriptPath(w, f)]
    /\ UNCHANGED hooked

\* The first internal call of the process: the flag is set whatever comes of
\* the load, and the hook stays for one more call.
DecidesFilter(w, f, fn) ==
    /\ hooked[w]
    /\ ~ seccomp_loaded[w]
    /\ EntersBody(w, f, fn)
    /\ seccomp_loaded' = [seccomp_loaded EXCEPT ![w] = TRUE]
    /\ first' = [first EXCEPT ![w] = ScriptPath(w, f)]
    /\ UNCHANGED hooked

LoadSkipped(w, f, fn) ==
    /\ DecidesFilter(w, f, fn)
    /\ LET short == RelativePath[ScriptPath(w, f)] = TooShort
       IN  /\ short \/ ~ ini.enable
           /\ rc' = [rc EXCEPT ![w] = IF short THEN "short" ELSE "disabled"]
    /\ UNCHANGED kernel

\* Mutant of LoadProfile: the profile of the executing file, not of the
\* script, is looked up.
LoadProfileOfExecuted(w, f, fn) ==
    /\ DecidesFilter(w, f, fn)
    /\ ini.enable
    /\ RelativePath[f] # TooShort
    /\ kernel' = [kernel EXCEPT ![w] = Allow(filters, RelativePath[f])]
    /\ rc' = [rc EXCEPT ![w] = "loaded"]

LoadProfile(w, f, fn) ==
    /\ DecidesFilter(w, f, fn)
    /\ ini.enable
    /\ LET k == RelativePath[ScriptPath(w, f)]
       IN  /\ k # TooShort
           /\ kernel' = [kernel EXCEPT ![w] = Allow(filters, k)]
    /\ rc' = [rc EXCEPT ![w] = "loaded"]

\* seccomp_load reports an error: no filter, and nobody looks at the result.
LoadFails(w, f, fn) ==
    /\ DecidesFilter(w, f, fn)
    /\ ini.enable
    /\ RelativePath[ScriptPath(w, f)] # TooShort
    /\ rc' = [rc EXCEPT ![w] = "failed"]
    /\ UNCHANGED kernel

\* Mutant of RetireHook: the hook goes before the flag is set.
RetireHookEarly(w, f, fn) ==
    /\ hooked[w]
    /\ EntersBody(w, f, fn)
    /\ hooked' = [hooked EXCEPT ![w] = FALSE]
    /\ UNCHANGED <<seccomp_loaded, kernel, rc, first>>

\* The second internal call takes the hook out of the engine.
RetireHook(w, f, fn) ==
    /\ hooked[w]
    /\ seccomp_loaded[w]
    /\ EntersBody(w, f, fn)
    /\ hooked' = [hooked EXCEPT ![w] = FALSE]
    /\ UNCHANGED <<seccomp_loaded, kernel, rc, first>>

\* Every later call goes to execute_internal directly.
DirectCall(w, f, fn) ==
    /\ ~ hooked[w]
    /\ EntersBody(w, f, fn)
    /\ UNCHANGED extVars

InternalCall(w, f, fn) ==
    \/ LoadSkipped(w, f, fn)
    \/ LoadProfile(w, f, fn)
    \/ LoadFails(w, f, fn)
    \/ RetireHook(w, f, fn)
    \/ DirectCall(w, f, fn)

SystemCall(w) ==
    /\ pc[w] = "call"
    /\ \E n \in pending[w] :
          /\ Permits(w, {n})
          /\ pending' = [pending EXCEPT ![w] = @ \ {n}]
    /\ UNCHANGED <<masterVars, extVars, pc, request, loadedFiles, served>>

ReturnFromCall(w) ==
    /\ pc[w] = "call"
    /\ pending[w] = {}
    /\ pc' = [pc EXCEPT ![w] = "script"]
    /\ UNCHANGED <<masterVars, extVars, request, loadedFiles, pending, served>>

\* SCMP_ACT_KILL: a system call outside the filter ends the process.
KilledInCall(w) ==
    /\ pc[w] = "call"
    /\ \E n \in pending[w] : ~ Permits(w, {n})
    /\ pc' = [pc EXCEPT ![w] = "none"]
    /\ UNCHANGED <<masterVars, extVars, request, loadedFiles, pending, served>>

KilledInEngine(w) ==
    /\ pc[w] = "idle"
    /\ ~ Permits(w, EngineSyscalls)
    /\ pc' = [pc EXCEPT ![w] = "none"]
    /\ UNCHANGED <<masterVars, extVars, request, loadedFiles, pending, served>>

WorkerNext(w) ==
    \/ Fork(w)
    \/ \E s \in Entry : Accept(w, s)
    \/ \E f \in File : Include(w, f)
    \/ \E f \in File, fn \in Function : InternalCall(w, f, fn)
    \/ SystemCall(w) \/ ReturnFromCall(w) \/ EndRequest(w)
    \/ KilledInCall(w) \/ KilledInEngine(w)

Next ==
    \/ CopyFilter \/ StartMaster \/ StopAll
    \/ \E w \in Worker : WorkerNext(w)

Spec == Init /\ [][Next]_vars
-----------------------------------------------------------------------------
(***************************************************************************)
(* Properties                                                              *)
(***************************************************************************)

\* A confined process is confined by the FPM base list and the profile of
\* the one file whose path its first internal call looked up, whatever it
\* has served since (load_seccomp_profile, lines 219-259).
ConfinedByDecidingFile ==
    \A w \in Worker : pc[w] # "none" /\ kernel[w] # NoFilter
        => /\ first[w] \in File
           /\ kernel[w] = Allow(filters, RelativePath[first[w]])

\* The body of an internal function runs without a filter only for one of
\* three reasons, each fixed at the first call of the process: enforcement
\* is off, the deciding path was shorter than app_base, or seccomp_load
\* failed.  In particular no path through the hook (lines 261-274) reaches
\* the body of the first call before the load.
UnconfinedCallExplained ==
    \A w \in Worker : pc[w] = "call" /\ kernel[w] = NoFilter
        => \/ ~ ini.enable
           \/ rc[w] = "failed"
           \/ first[w] \in File /\ RelativePath[first[w]] = TooShort

\* Once the flag is set the decision stands until the process dies: no later
\* request of that worker, for whatever script, gains, loses or changes a
\* filter (lines 80, 263-268).
DecisionIsFinal ==
    [][\A w \in Worker :
          seccomp_loaded[w] /\ pc[w] # "none" /\ pc'[w] # "none"
              => kernel'[w] = kernel[w] /\ first'[w] = first[w]]_vars

\* The profile covers every system call that the files f can load may make.
Covers(table, f) == NeedsOfScript(f) \subseteq Allow(table, RelativePath[f])

\* A worker is killed inside an internal function only if the profile it
\* decided on does not cover that file, or the request has loaded a file
\* the deciding file cannot reach: a sound profile never stops the script
\* it was made for.
KilledOnlyOutsideReach ==
    [][\A w \in Worker :
          pc[w] = "call" /\ pc'[w] = "none" /\ master' = "up"
              => \/ ~ Covers(filters, first[w])
                 \/ ~ (loadedFiles[w] \subseteq Reach(first[w]))]_vars

\* Each request runs under the filter of its own script, if under any.
OwnFilter ==
    \A w \in Worker : pc[w] = "call" /\ kernel[w] # NoFilter
        => kernel[w] = Allow(filters, RelativePath[request[w]])

\* The first request of a process runs under the filter of its own script,
\* if under any, where that script mentions $_SERVER, whichever file makes
\* the first call (lines 219-232).
OwnFilterOfServerScripts ==
    \A w \in Worker :
        pc[w] = "call" /\ kernel[w] # NoFilter /\ served[w] = 0 /\ request[w] \in UsesServer
            => kernel[w] = Allow(filters, RelativePath[request[w]])

\* The system call exit stays available to a confined process.
EssentialsAllowed(exit) ==
    \A w \in Worker : kernel[w] # NoFilter => exit \in kernel[w]

\* The extension implements Confinement: policy is what the table permits,
\* jail what the kernel enforces.
Sandbox == INSTANCE Confinement WITH
    Gone <- None,
    Open <- NoFilter,
    policy <- {Allow(filters, RelativePath[f]) : f \in File},
    jail <- [w \in Worker |-> IF pc[w] = "none" THEN None ELSE kernel[w]]

ImplementsConfinement == Sandbox!Spec
=============================================================================
