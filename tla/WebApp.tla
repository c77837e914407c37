------------------------------- MODULE WebApp -------------------------------
(***************************************************************************)
(* The PHP application that Saphire analyses and confines, and the        *)
(* interpreter that runs it, as far as the code under src/ depends on     *)
(* them: which files include which, which internal functions the code of  *)
(* a file calls, and which system calls an internal function makes.       *)
(***************************************************************************)
EXTENDS Naturals

CONSTANTS
    File,           \* absolute paths of the PHP files on the server
    Entry,          \* the files a request can name (SCRIPT_FILENAME)
    Includes,       \* Includes[f]: the files that code in f may include
    UsesServer,     \* the files whose code mentions $_SERVER
    Function,       \* PHP's internal functions
    Code,           \* Code[f]: the internal functions that code in f calls
    Syscall,        \* system call numbers
    Needs           \* Needs[fn]: the system calls fn makes when it runs

ASSUME WebAppAssumption ==
    /\ Entry \subseteq File
    /\ UsesServer \subseteq File
    /\ Includes \in [File -> SUBSET File]
    /\ Code \in [File -> SUBSET Function]
    /\ Needs \in [Function -> SUBSET Syscall]

\* The files a request for f may load: the least set that holds f and is
\* closed under Includes.
Reach(f) ==
    {g \in File : \A S \in SUBSET File :
        (f \in S /\ \A h \in S : Includes[h] \subseteq S) => g \in S}

\* Every system call that running any file of Reach(f) can make.
NeedsOfScript(f) ==
    UNION {UNION {Needs[fn] : fn \in Code[g]} : g \in Reach(f)}
=============================================================================
