------------------------------- MODULE Binary -------------------------------
(***************************************************************************)
(* What boundaries.py reads of a guest: the symbol table's functions, the  *)
(* words of the code, and which function a word belongs to.  A word is     *)
(* what its masks make of it.  On top of those facts, which calls of the   *)
(* module under test leave the process.                                    *)
(***************************************************************************)
EXTENDS Integers

CONSTANTS
  Fn,          \* the symbols of functions
  NameOrder,   \* the order of their names
  Module,      \* those under module_prefix
  Service,     \* those in a service namespace
  Hooked,      \* those with real behaviour already
  Addr,        \* the addresses of the code's words
  Nobody       \* what owner answers where no function is

ASSUME FnAssumption ==
  /\ NameOrder \in [Fn -> Nat]
  /\ \A f, g \in Fn : NameOrder[f] = NameOrder[g] => f = g
  /\ Module \subseteq Fn
  /\ Service \subseteq Fn
  /\ Hooked \subseteq Fn
  /\ Nobody \notin Fn

ASSUME AddrAssumption == Addr \subseteq Int

Word == [op : {"bl", "b", "svc", "blr", "other"}, to : Int]

BinaryType == [start : [Fn -> Int], size : [Fn -> Nat], code : [Addr -> Word]]

-----------------------------------------------------------------------------
(* _function_ranges *)

\* sorted(): by address, and by name where two symbols share one.
Before(b, f, g) ==
  \/ b.start[f] < b.start[g]
  \/ b.start[f] = b.start[g] /\ NameOrder[f] < NameOrder[g]

Follows(b, f, g) == Before(b, f, g) /\ \A h \in Fn : Before(b, f, h) => h = g \/ Before(b, g, h)

\* Where nm says a symbol ends, or where the next one starts if it says
\* nothing.
End(b, f) ==
  IF b.size[f] > 0 THEN b.start[f] + b.size[f]
  ELSE IF \E g \in Fn : Follows(b, f, g)
  THEN b.start[CHOOSE g \in Fn : Follows(b, f, g)]
  ELSE b.start[f]

\* A symbol of no extent is not a function.
HasRange(b, f) == End(b, f) > b.start[f]

-----------------------------------------------------------------------------
(* owner: the last function that starts at or below the address, if it goes *)
(* that far.                                                               *)

Owner(b, a) ==
  LET started == {f \in Fn : b.start[f] <= a /\ HasRange(b, f)}
      Owns(f) == a < End(b, f) /\ \A g \in started \ {f} : Before(b, g, f)
  IN  IF \E f \in started : Owns(f) THEN CHOOSE f \in started : Owns(f) ELSE Nobody

-----------------------------------------------------------------------------
(* What the code says, word by word *)

IsBranch(w) == w.op \in {"bl", "b"}

\* A branch from one function into another, of either sort.
CallsFrom(b, a) ==
  LET caller == Owner(b, a)
      callee == Owner(b, b.code[a].to)
  IN  IF IsBranch(b.code[a]) /\ caller # Nobody /\ callee # Nobody /\ caller # callee
      THEN {<<caller, callee>>} ELSE {}

Calls(b) == UNION {CallsFrom(b, a) : a \in Addr}

Holding(b, op) == {f \in Fn : \E a \in Addr : b.code[a].op = op /\ Owner(b, a) = f}

-----------------------------------------------------------------------------
(* What leaves the process *)

Closed(S, seed, calls) == seed \subseteq S /\ \A e \in calls : e[2] \in S => e[1] \in S

\* The functions whose call subtree holds one of the seed: the least set that
\* has the seed and every caller of its members.
Leading(seed, calls) == {f \in Fn : \A S \in SUBSET Fn : Closed(S, seed, calls) => f \in S}

LeadsOut(b) == Leading(Holding(b, "svc"), Calls(b))

\* The services the module calls that would leave: by a syscall somewhere
\* below them, or by a dispatch of their own.
Boundary(b) ==
  {g \in Fn : /\ \E f \in Module : <<f, g>> \in Calls(b)
              /\ g \notin Module \cup Hooked
              /\ g \in Service
              /\ g \in LeadsOut(b) \cup Holding(b, "blr")}

=============================================================================
