-------------------------- MODULE Boundaries_proofs --------------------------
(***************************************************************************)
(* Of every binary: the scan and the walk find what BoundarySpec promises. *)
(* The argument is one inductive invariant.  While words are left, what    *)
(* the scan holds is what the words before say; from there on, what is     *)
(* reached leads out, and the callers of whatever is off the list are      *)
(* reached.  With the list empty the reached set is therefore closed, and  *)
(* contained in the least closed set, and so is that set.                  *)
(***************************************************************************)
EXTENDS Boundaries, TLAPS

-----------------------------------------------------------------------------
(* What the pass has read: the words of S. *)

HoldingIn(b, op, S) == {f \in Fn : \E a \in S : b.code[a].op = op /\ Owner(b, a) = f}
CallsIn(b, S) == UNION {CallsFrom(b, a) : a \in S}

\* An owner is a function or nobody.
LEMMA OwnerType ==
  ASSUME NEW b, NEW a
  PROVE  Owner(b, a) \in Fn \cup {Nobody}
  BY DEF Owner

\* What a branch adds to the edges is a pair of functions.
LEMMA CallsFromType ==
  ASSUME NEW b, NEW a
  PROVE  CallsFrom(b, a) \subseteq Fn \X Fn
<1>1. Owner(b, a) \in Fn \cup {Nobody} BY OwnerType
<1>2. Owner(b, b.code[a].to) \in Fn \cup {Nobody} BY OwnerType
<1>3. QED BY <1>1, <1>2, FnAssumption DEF CallsFrom

-----------------------------------------------------------------------------
(* The least closed set *)

\* What leads to the seed is in every closed set.
LEMMA LeadingIsLeast ==
  ASSUME NEW seed, NEW calls, NEW S \in SUBSET Fn, Closed(S, seed, calls)
  PROVE  Leading(seed, calls) \subseteq S
  BY DEF Leading

\* The seed leads to itself.
LEMMA SeedLeads ==
  ASSUME NEW seed \in SUBSET Fn, NEW calls
  PROVE  seed \subseteq Leading(seed, calls)
  BY DEF Leading, Closed

\* Who calls what leads to the seed leads to it.
LEMMA CallerLeads ==
  ASSUME NEW seed, NEW calls \in SUBSET (Fn \X Fn),
         NEW f \in Fn, NEW g \in Leading(seed, calls), <<f, g>> \in calls
  PROVE  f \in Leading(seed, calls)
<1>1. SUFFICES ASSUME NEW S \in SUBSET Fn, Closed(S, seed, calls) PROVE f \in S
      BY DEF Leading
<1>2. g \in S BY <1>1 DEF Leading
<1>3. QED BY <1>1, <1>2 DEF Closed

-----------------------------------------------------------------------------
(* The invariant *)

Types ==
  /\ binary \in Binaries
  /\ pc \in {"scan", "walk", "found"}
  /\ left \subseteq Addr
  /\ has_svc \subseteq Fn
  /\ has_blr \subseteq Fn
  /\ edges \subseteq Fn \X Fn
  /\ reaches \subseteq Fn
  /\ work \subseteq Fn
  /\ answer \in SUBSET SUBSET Fn

Scanned ==
  /\ has_svc = HoldingIn(binary, "svc", Addr \ left)
  /\ has_blr = HoldingIn(binary, "blr", Addr \ left)
  /\ edges = CallsIn(binary, Addr \ left)
  /\ pc = "scan" => reaches = {} /\ work = {}
  /\ pc # "scan" => left = {}

Walked ==
  pc # "scan" =>
    /\ has_svc \subseteq reaches
    /\ work \subseteq reaches
    /\ reaches \subseteq Leading(has_svc, edges)
    /\ \A f \in Fn, g \in reaches \ work : <<f, g>> \in edges => f \in reaches

Answered ==
  /\ pc # "found" => answer = {}
  /\ pc = "found" => work = {} /\ answer = {Boundary(binary)}

IInv == Types /\ Scanned /\ Walked /\ Answered

\* The pass over, what it holds is what the whole code says.
LEMMA ScannedAll ==
  ASSUME IInv, pc # "scan"
  PROVE  /\ has_svc = Holding(binary, "svc")
         /\ has_blr = Holding(binary, "blr")
         /\ edges = Calls(binary)
  BY DEF IInv, Scanned, Holding, HoldingIn, Calls, CallsIn

\* With the list empty the walk has found the least closed set.
LEMMA WalkedAll ==
  ASSUME IInv, pc # "scan", work = {}
  PROVE  reaches = Leading(has_svc, edges)
<1>1. Closed(reaches, has_svc, edges)
  <2>1. ASSUME NEW e \in edges, e[2] \in reaches PROVE e[1] \in reaches
    <3>1. PICK f \in Fn, g \in Fn : e = <<f, g>> BY <2>1 DEF IInv, Types
    <3>2. g \in reaches \ work BY <2>1, <3>1
    <3>3. QED BY <2>1, <3>1, <3>2 DEF IInv, Walked
  <2>2. QED BY <2>1 DEF IInv, Walked, Closed
<1>2. Leading(has_svc, edges) \subseteq reaches BY <1>1, LeadingIsLeast DEF IInv, Types
<1>3. QED BY <1>2 DEF IInv, Walked

\* What is selected then is the boundary.
LEMMA SelectedIsBoundary ==
  ASSUME IInv, pc # "scan", work = {}
  PROVE  Selected = Boundary(binary)
<1>1. reaches = LeadsOut(binary) BY ScannedAll, WalkedAll DEF LeadsOut
<1>2. QED BY <1>1, ScannedAll DEF Selected, Boundary

-----------------------------------------------------------------------------
(* Its preservation *)

LEMMA InitIInv == Init => IInv
<1> SUFFICES ASSUME Init PROVE IInv OBVIOUS
<1>1. Types BY DEF Init, Types
<1>2. Scanned BY DEF Init, Scanned, HoldingIn, CallsIn
<1>3. Walked /\ Answered BY DEF Init, Walked, Answered
<1>4. QED BY <1>1, <1>2, <1>3 DEF IInv

\* One word more.
LEMMA ScanKeeps ==
  ASSUME IInv, NEW a \in Addr, ScanWord(a)
  PROVE  IInv'
<1> DEFINE S == Addr \ left
<1>1. binary' = binary /\ pc = "scan" /\ pc' = "scan" /\ left' = left \ {a} /\ a \in left
      /\ reaches' = reaches /\ work' = work /\ answer' = answer
  BY DEF ScanWord
<1>2. Addr \ left' = S \cup {a} BY <1>1 DEF IInv, Types
<1>3. Owner(binary, a) \in Fn \cup {Nobody} BY OwnerType
<1>4. has_svc' = HoldingIn(binary, "svc", S \cup {a})
  <2>1. has_svc' = has_svc \cup ({Owner(binary, a)} \cap IF binary.code[a].op = "svc" THEN Fn ELSE {})
    BY DEF ScanWord
  <2>2. has_svc = HoldingIn(binary, "svc", S) BY DEF IInv, Scanned
  <2>3. QED BY <2>1, <2>2, <1>3 DEF HoldingIn
<1>5. has_blr' = HoldingIn(binary, "blr", S \cup {a})
  <2>1. has_blr' = has_blr \cup ({Owner(binary, a)} \cap IF binary.code[a].op = "blr" THEN Fn ELSE {})
    BY DEF ScanWord
  <2>2. has_blr = HoldingIn(binary, "blr", S) BY DEF IInv, Scanned
  <2>3. QED BY <2>1, <2>2, <1>3 DEF HoldingIn
<1>6. edges' = CallsIn(binary, S \cup {a})
  <2>1. edges' = edges \cup CallsFrom(binary, a) BY DEF ScanWord
  <2>2. edges = CallsIn(binary, S) BY DEF IInv, Scanned
  <2>3. QED BY <2>1, <2>2 DEF CallsIn
<1>7. Types'
  <2>1. has_svc' \subseteq Fn /\ has_blr' \subseteq Fn BY <1>4, <1>5 DEF HoldingIn
  <2>2. edges' \subseteq Fn \X Fn
    BY CallsFromType DEF ScanWord, IInv, Types
  <2>3. QED BY <1>1, <2>1, <2>2 DEF IInv, Types
<1>8. Scanned'
  BY <1>1, <1>2, <1>4, <1>5, <1>6 DEF IInv, Scanned
<1>9. Walked' /\ Answered' BY <1>1 DEF IInv, Walked, Answered
<1>10. QED BY <1>7, <1>8, <1>9 DEF IInv

\* The walk begins with the functions that hold a syscall.
LEMMA BeginWalkKeeps ==
  ASSUME IInv, BeginWalk
  PROVE  IInv'
<1>1. Types' BY DEF IInv, Types, BeginWalk, scanVars
<1>2. Scanned' BY DEF IInv, Scanned, BeginWalk, scanVars
<1>3. has_svc \subseteq Leading(has_svc, edges) BY SeedLeads DEF IInv, Types
<1>4. Walked' BY <1>3 DEF Walked, BeginWalk, scanVars
<1>5. Answered' BY DEF IInv, Answered, BeginWalk
<1>6. QED BY <1>1, <1>2, <1>4, <1>5 DEF IInv

\* Popping one reaches its callers, and lists those not reached before.
LEMMA PopKeeps ==
  ASSUME IInv, NEW fn \in Fn, Pop(fn)
  PROVE  IInv'
<1>1. pc = "walk" /\ pc' = "walk" /\ fn \in work /\ UNCHANGED <<binary, left, scanVars, answer>>
      /\ reaches' = reaches \cup Callers(fn)
      /\ work' = (work \ {fn}) \cup (Callers(fn) \ reaches)
  BY DEF Pop
<1>2. Types' BY <1>1 DEF IInv, Types, Callers, scanVars
<1>3. Scanned' BY <1>1 DEF IInv, Scanned, scanVars
<1>4. Callers(fn) \subseteq Leading(has_svc, edges)
  BY <1>1, CallerLeads DEF IInv, Types, Walked, Callers
<1>5. ASSUME NEW f \in Fn, NEW g \in reaches' \ work', <<f, g>> \in edges PROVE f \in reaches'
  <2>1. CASE g = fn BY <1>1, <1>5, <2>1 DEF Callers
  <2>2. CASE g # fn
    <3>1. g \in reaches \ work BY <1>1, <1>5, <2>2
    <3>2. QED BY <1>1, <1>5, <3>1 DEF IInv, Walked
  <2>3. QED BY <2>1, <2>2
<1>6. Walked' BY <1>1, <1>4, <1>5 DEF IInv, Walked, scanVars
<1>7. Answered' BY <1>1 DEF IInv, Answered
<1>8. QED BY <1>2, <1>3, <1>6, <1>7 DEF IInv

\* What is found is the boundary.
LEMMA FindKeeps ==
  ASSUME IInv, Find
  PROVE  IInv'
<1>1. answer' = {Boundary(binary)} BY SelectedIsBoundary DEF Find
<1>2. Selected \subseteq Fn BY DEF Selected
<1>3. Types' BY <1>2 DEF IInv, Types, Find, scanVars
<1>4. Scanned' BY DEF IInv, Scanned, Find, scanVars
<1>5. Walked' BY DEF IInv, Walked, Find, scanVars
<1>6. Answered' BY <1>1 DEF Answered, Find
<1>7. QED BY <1>3, <1>4, <1>5, <1>6 DEF IInv

LEMMA NextIInv == IInv /\ [Next]_vars => IInv'
<1> SUFFICES ASSUME IInv, [Next]_vars PROVE IInv' OBVIOUS
<1>1. CASE \E a \in Addr : ScanWord(a) BY <1>1, ScanKeeps
<1>2. CASE BeginWalk BY <1>2, BeginWalkKeeps
<1>3. CASE \E fn \in Fn : Pop(fn) BY <1>3, PopKeeps
<1>4. CASE Find BY <1>4, FindKeeps
<1>5. CASE UNCHANGED vars
  BY <1>5 DEF IInv, Types, Scanned, Walked, Answered, vars, scanVars
<1>6. QED BY <1>1, <1>2, <1>3, <1>4, <1>5 DEF Next

\* Of every binary, at every step of the scan and the walk, the invariant.
THEOREM Invariance == Spec => []IInv
  BY InitIInv, NextIInv, PTL DEF Spec

-----------------------------------------------------------------------------

\* The scan and the walk of boundaries.py keep their types.
THEOREM TypeCorrect == Spec => []TypeOK
<1>1. IInv => TypeOK BY BinariesAssumption DEF IInv, Types, TypeOK
<1>2. QED BY <1>1, Invariance, PTL

\* _reaches_svc, of every call graph: whatever is popped first, nothing is
\* reached that does not lead to a syscall, and once the list is empty
\* everything that does is.
THEOREM WalkExact == Spec => []WalkIsExact
<1>1. IInv => WalkIsExact
  <2> SUFFICES ASSUME IInv, pc # "scan" PROVE
        /\ work \subseteq reaches
        /\ reaches \subseteq LeadsOut(binary)
        /\ \A e \in Calls(binary) : e[2] \in reaches \ work => e[1] \in reaches
        /\ work = {} => reaches = LeadsOut(binary)
    BY DEF WalkIsExact
  <2>1. LeadsOut(binary) = Leading(has_svc, edges) /\ Calls(binary) = edges
    BY ScannedAll DEF LeadsOut
  <2>2. work \subseteq reaches /\ reaches \subseteq LeadsOut(binary) BY <2>1 DEF IInv, Walked
  <2>3. ASSUME NEW e \in edges, e[2] \in reaches \ work PROVE e[1] \in reaches
    <3>1. PICK f \in Fn, g \in Fn : e = <<f, g>> BY <2>3 DEF IInv, Types
    <3>2. QED BY <2>3, <3>1 DEF IInv, Walked
  <2>4. work = {} => reaches = LeadsOut(binary) BY <2>1, WalkedAll
  <2>5. QED BY <2>1, <2>2, <2>3, <2>4
<1>2. QED BY <1>1, Invariance, PTL

\* The promise's operators are the ones of Binary.
LEMMA PromisedOwner ==
  ASSUME NEW b, NEW a
  PROVE  Promise!Owner(b, a) = Owner(b, a)
  BY DEF Promise!Owner, Promise!HasRange, Promise!End, Promise!Follows, Promise!Before,
         Owner, HasRange, End, Follows, Before

LEMMA PromisedBoundary == Promise!Boundary(binary) = Boundary(binary)
<1>1. \A a : Promise!CallsFrom(binary, a) = CallsFrom(binary, a)
  BY PromisedOwner DEF Promise!CallsFrom, Promise!IsBranch, CallsFrom, IsBranch
<1>2. Promise!Calls(binary) = Calls(binary) BY <1>1 DEF Promise!Calls, Calls
<1>3. \A op : Promise!Holding(binary, op) = Holding(binary, op)
  BY PromisedOwner DEF Promise!Holding, Holding
<1>4. Promise!LeadsOut(binary) = LeadsOut(binary)
  BY <1>2, <1>3 DEF Promise!LeadsOut, Promise!Leading, Promise!Closed, LeadsOut, Leading, Closed
<1>5. Promise!Holding(binary, "blr") = Holding(binary, "blr") BY <1>3
<1>6. QED BY <1>2, <1>4, <1>5, Zenon DEF Promise!Boundary, Boundary

\* found_in implements what it promises: the boundary of the binary, at once.
THEOREM Refinement == Spec => Implements
<1>1. Init => Promise!Init BY DEF Init, Promise!Init
<1>2. IInv /\ [Next]_vars => [Promise!Answer]_(Promise!vars)
  <2> SUFFICES ASSUME IInv, [Next]_vars
               PROVE  Promise!Answer \/ UNCHANGED <<binary, answer>>
    BY DEF Promise!vars
  <2>1. Find \/ UNCHANGED <<binary, answer>>
    \* The scan and the walk read the binary and answer nothing.
    BY DEF Next, ScanWord, BeginWalk, Pop, vars
  <2>2. Find => Promise!Answer
    <3> SUFFICES ASSUME Find PROVE Promise!Answer OBVIOUS
    <3>1. answer' = {Boundary(binary)} BY SelectedIsBoundary DEF Find
    <3>2. answer = {} /\ binary' = binary BY DEF Find, IInv, Answered
    <3>3. QED BY <3>1, <3>2, PromisedBoundary DEF Promise!Answer
  <2>3. QED BY <2>1, <2>2
<1>3. QED BY <1>1, <1>2, Invariance, PTL DEF Implements, Spec, Promise!Spec

=============================================================================
