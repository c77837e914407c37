---------------------------- MODULE MCSeccompExt ----------------------------
(***************************************************************************)
(* A small server for SeccompExt: two scripts that share a library, one    *)
(* file outside the application, and two generations of the profile.       *)
(***************************************************************************)
EXTENDS SeccompExt

CONSTANTS
    w1, w2, index, admin, lib, tool,
    printf, fopen, fread,
    kIndex, kAdmin, kLib

MCWorker1 == {w1}
MCWorker2 == {w1, w2}
MCFile == {index, admin, lib, tool}
MCEntry == {index, admin, tool}
MCIncludes == [f \in File |-> IF f \in {index, admin} THEN {lib} ELSE {}]
MCFunction == {printf, fopen, fread}
\* exit is 60 and no function needs it; 100 stands for the FPM base list
MCSyscall == {0, 1, 2, 60, 100}
MCCode == [f \in File |->
    CASE f = index -> {printf}
      [] f = admin -> {fread}
      [] f = lib   -> {fopen}
      [] f = tool  -> {printf}]
MCNeeds == [fn \in Function |->
    CASE fn = printf -> {1} [] fn = fopen -> {2} [] fn = fread -> {0}]
MCFpmSyscalls == {100}
MCEngineSyscalls == {0, 100}
MCRelativePath == [f \in File |->
    CASE f = index -> kIndex
      [] f = admin -> kAdmin
      [] f = lib   -> kLib
      [] f = tool  -> TooShort]

\* What build-filters prints for this application, and an older file with a
\* line for a script that no longer calls anything, a line cut short at the
\* name, and a name that appears twice.
CurrentProfile == << <<kIndex, 0, 1, 2>>, <<kAdmin, 0, 2>>, <<kLib, 0, 2>> >>
OldProfile     == << <<kIndex, 1>>, <<kLib>>, <<kAdmin, 0>>, <<kAdmin, kLib, 1>> >>
MCProfiles     == {CurrentProfile, OldProfile}
MCCurrentOnly  == {CurrentProfile}

AllFiles == {index, admin, lib, tool}
OnlyIndex == {index}

\* php.ini as run_stage3.sh starts the server, on and off, and as the
\* extension's README has it, without profile_path.
MCInis == [enable : BOOLEAN, profile_path : BOOLEAN]
MCEnabled == {[enable |-> TRUE, profile_path |-> TRUE]}

\* MINIT's rule for exit is introduced by the comment "Add the essentials".
ExitAllowed == EssentialsAllowed(60)
=============================================================================
