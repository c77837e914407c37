---------------------------- MODULE Confinement ----------------------------
(***************************************************************************)
(* What the stage-3 extension promises, whatever its hook, its flag and   *)
(* its profile table do: a PHP worker process starts unconfined, is put   *)
(* under one allowlist of the current policy at most once, and keeps that *)
(* allowlist until it dies.  The policy is replaced only while no worker  *)
(* lives.                                                                 *)
(***************************************************************************)
CONSTANTS
    Worker,         \* the slots of the FPM pool
    Syscall,        \* system call numbers
    Gone,           \* no process occupies the slot
    Open            \* the process runs without a filter

VARIABLES
    policy,         \* the allowlists a process may be put under
    jail            \* jail[w]: Gone, Open, or the allowlist of the process

vars == <<policy, jail>>

Init == /\ policy \in SUBSET SUBSET Syscall
        /\ jail = [w \in Worker |-> Gone]

NewPolicy == /\ policy' \in SUBSET SUBSET Syscall
             /\ jail' = [w \in Worker |-> Gone]

Spawn(w) == /\ jail[w] = Gone
            /\ jail' = [jail EXCEPT ![w] = Open]
            /\ UNCHANGED policy

Confine(w) == /\ jail[w] = Open
              /\ \E allow \in policy : jail' = [jail EXCEPT ![w] = allow]
              /\ UNCHANGED policy

Die(w) == /\ jail[w] # Gone
          /\ jail' = [jail EXCEPT ![w] = Gone]
          /\ UNCHANGED policy

Next == \/ NewPolicy
        \/ \E w \in Worker : Spawn(w) \/ Confine(w) \/ Die(w)

Spec == Init /\ [][Next]_vars
=============================================================================
