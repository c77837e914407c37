---------------------------- MODULE MCSyscallDb ----------------------------
(* Two functions, two system calls and one that no header registers. *)
EXTENDS SyscallDb

CONSTANTS fread, printf, read, write, gone

MCFunction == {fread, printf}
MCName == {read, write, gone}
L(fn, words) == [fn |-> fn, words |-> words]
\* a mapping as mergemappings writes it, one with "*" and an empty line, and
\* one that names a function twice and an unregistered system call
MCFunctionFiles == {
    <<L(fread, {read}), L(printf, {write})>>,
    <<L(printf, {Star}), L(fread, {})>>,
    <<L(fread, {read, write}), L(fread, {gone, write})>>}
MCHeaders == {{read}, {read, write}}
=============================================================================
