------------------------------ MODULE MCLaunch ------------------------------
(* Two pools, and a crossing of each sort: a read and a write of different
   sizes, a read that is refused, a file made, and a call that does nothing
   to the SD. *)
EXTENDS Launch

MCCall == {[kind |-> "read",  bytes |-> 2, ranged |-> TRUE,  noted |-> FALSE],
           [kind |-> "write", bytes |-> 1, ranged |-> TRUE,  noted |-> TRUE],
           [kind |-> "read",  bytes |-> 0, ranged |-> FALSE, noted |-> FALSE],
           [kind |-> "other", bytes |-> 0, ranged |-> FALSE, noted |-> TRUE],
           [kind |-> "other", bytes |-> 0, ranged |-> FALSE, noted |-> FALSE]}
=============================================================================
