-------------------------------- MODULE Tally --------------------------------
(***************************************************************************)
(* What a loop makes of a sequence or a set: a sum, and the entries that   *)
(* pass a test, each as the function of how far the loop has come.         *)
(***************************************************************************)
EXTENDS Integers, Sequences

\* The sum of a sequence of numbers up to each of them, from 0 of none,
Running(s) ==
  LET t[i \in 0..Len(s)] == IF i = 0 THEN 0 ELSE t[i - 1] + s[i]
  IN  t

\* and sum() of them all.
Total(s) == Running(s)[Len(s)]

\* The entries of s that are in S, in their order.
Kept(s, S) ==
  LET k[i \in 0..Len(s)] ==
        IF i = 0 THEN <<>>
        ELSE IF s[i] \in S THEN Append(k[i - 1], s[i]) ELSE k[i - 1]
  IN  k[Len(s)]

\* sum() of the values f has on a finite set.
TotalOver(f, S) ==
  LET t[T \in SUBSET S] ==
        IF T = {} THEN 0
        ELSE LET x == CHOOSE x \in T : TRUE IN f[x] + t[T \ {x}]
  IN  t[S]
=============================================================================
