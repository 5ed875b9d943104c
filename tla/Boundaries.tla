----------------------------- MODULE Boundaries -----------------------------
(***************************************************************************)
(* found_in of boundaries.py: one pass over the code for syscalls, indirect *)
(* dispatches and calls (_scan), a walk of the calls backwards from the    *)
(* syscalls (_reaches_svc), and the selection of what is to be stubbed.    *)
(* BoundarySpec is what it promises.                                       *)
(***************************************************************************)
EXTENDS Binary

CONSTANT Binaries   \* what may be asked about

ASSUME BinariesAssumption == Binaries \subseteq BinaryType

VARIABLES
  binary,    \* the guest's code and symbols
  pc,        \* "scan", "walk" or "found"
  left,      \* the words the scan has not come to
  has_svc,
  has_blr,
  edges,
  reaches,
  work,      \* the list _reaches_svc pops from, each function on it at most once
  answer     \* the symbols found, in a set by themselves once they are

scanVars == <<has_svc, has_blr, edges>>
vars == <<binary, pc, left, scanVars, reaches, work, answer>>

Init ==
  /\ binary \in Binaries
  /\ pc = "scan"
  /\ left = Addr
  /\ has_svc = {}
  /\ has_blr = {}
  /\ edges = {}
  /\ reaches = {}
  /\ work = {}
  /\ answer = {}

-----------------------------------------------------------------------------
(* _scan *)

\* One word, in the order of the addresses.
ScanWord(a) ==
  /\ pc = "scan" /\ a \in left
  /\ \A other \in left : a <= other
  /\ left' = left \ {a}
  /\ edges' = edges \cup CallsFrom(binary, a)
  /\ has_svc' = has_svc \cup ({Owner(binary, a)} \cap IF binary.code[a].op = "svc" THEN Fn ELSE {})
  /\ has_blr' = has_blr \cup ({Owner(binary, a)} \cap IF binary.code[a].op = "blr" THEN Fn ELSE {})
  /\ UNCHANGED <<binary, pc, reaches, work, answer>>

-----------------------------------------------------------------------------
(* _reaches_svc *)

BeginWalk ==
  /\ pc = "scan" /\ left = {}
  /\ pc' = "walk"
  /\ reaches' = has_svc
  /\ work' = has_svc
  /\ UNCHANGED <<binary, left, scanVars, answer>>

Callers(fn) == {f \in Fn : <<f, fn>> \in edges}

\* Mutation: a caller is put on the list whether it was reached before or not.
PopAgain(fn) ==
  /\ pc = "walk" /\ fn \in work
  /\ reaches' = reaches \cup Callers(fn)
  /\ work' = (work \ {fn}) \cup Callers(fn)
  /\ UNCHANGED <<binary, pc, left, scanVars, answer>>

\* Mutation: what is reached only through a function off the list is missed.
PopFirstCallers(fn) ==
  /\ pc = "walk" /\ fn \in work
  /\ reaches' = reaches \cup Callers(fn)
  /\ work' = work \ {fn}
  /\ UNCHANGED <<binary, pc, left, scanVars, answer>>

\* Which one is popped depends on the order sets are listed in.
Pop(fn) ==
  /\ pc = "walk" /\ fn \in work
  /\ reaches' = reaches \cup Callers(fn)
  /\ work' = (work \ {fn}) \cup (Callers(fn) \ reaches)
  /\ UNCHANGED <<binary, pc, left, scanVars, answer>>

-----------------------------------------------------------------------------
(* found_in *)

\* Mutation: a service that only dispatches is left running.
SelectedBySyscall ==
  {g \in Fn : /\ \E f \in Module : <<f, g>> \in edges
              /\ g \notin Module /\ g \notin Hooked
              /\ g \in Service
              /\ g \in reaches}

Selected ==
  {g \in Fn : /\ \E f \in Module : <<f, g>> \in edges
              /\ g \notin Module /\ g \notin Hooked
              /\ g \in Service
              /\ g \in reaches \/ g \in has_blr}

Find ==
  /\ pc = "walk" /\ work = {}
  /\ pc' = "found"
  /\ answer' = {Selected}
  /\ UNCHANGED <<binary, left, scanVars, reaches, work>>

-----------------------------------------------------------------------------

Next ==
  \/ \E a \in Addr : ScanWord(a)
  \/ BeginWalk
  \/ \E fn \in Fn : Pop(fn)
  \/ Find

\* A function of the harness that nothing interrupts.
Spec == Init /\ [][Next]_vars /\ WF_vars(Next)

-----------------------------------------------------------------------------
(* What must hold *)

TypeOK ==
  /\ binary \in BinaryType
  /\ pc \in {"scan", "walk", "found"}
  /\ left \subseteq Addr
  /\ has_svc \subseteq Fn
  /\ has_blr \subseteq Fn
  /\ edges \subseteq Fn \X Fn
  /\ reaches \subseteq Fn
  /\ work \subseteq Fn
  /\ answer \in SUBSET SUBSET Fn

\* Nothing is reached that does not lead to a syscall, and what the walk has
\* not come to yet hangs on a function still on its list: so when the list is
\* empty, exactly the functions that lead out are reached, whichever were
\* popped first and whatever cycles the calls form.
WalkIsExact ==
  LET out   == LeadsOut(binary)
      calls == Calls(binary)
  IN  pc # "scan" =>
        /\ work \subseteq reaches
        /\ reaches \subseteq out
        /\ \A e \in calls : e[2] \in reaches \ work => e[1] \in reaches
        /\ work = {} => reaches = out

\* What is found is what is promised, in one step as far as anyone can see.
Promise == INSTANCE BoundarySpec WITH
  Fn <- Fn, NameOrder <- NameOrder, Module <- Module, Service <- Service,
  Hooked <- Hooked, Addr <- Addr, Nobody <- Nobody, Binaries <- Binaries,
  binary <- binary, answer <- answer
Implements == Promise!Spec

\* The walk of a call graph that may be cyclic ends.
Finds == <>(pc = "found")
=============================================================================
