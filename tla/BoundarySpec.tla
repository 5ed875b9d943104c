---------------------------- MODULE BoundarySpec ----------------------------
(***************************************************************************)
(* What found_in promises: of a binary, at once, the calls of the module   *)
(* under test that leave the process.                                      *)
(***************************************************************************)
EXTENDS Binary

CONSTANT Binaries   \* what may be asked about

VARIABLES
  binary,   \* the binary asked about
  answer    \* the symbols found, in a set by themselves once they are

vars == <<binary, answer>>

Init == binary \in Binaries /\ answer = {}

Answer ==
  /\ answer = {}
  /\ answer' = {Boundary(binary)}
  /\ UNCHANGED binary

Spec == Init /\ [][Answer]_vars
=============================================================================
