-------------------------- MODULE HosMemory_proofs --------------------------
(***************************************************************************)
(* Type correctness of HosMemory, that blocks share no page, that what is  *)
(* stored is found and nothing else, and that what was found is found      *)
(* again, for every page size, heap and set of sizes.                      *)
(***************************************************************************)
EXTENDS HosMemory, FiniteSetTheorems, SequenceTheorems, TLAPS

-----------------------------------------------------------------------------
(* Pages *)

\* A page number counts whole pages below the address.
LEMMA PageBounds ==
  ASSUME NEW a \in Nat
  PROVE  /\ PageOf(a) \in Int
         /\ PageOf(a) * PageSize <= a
         /\ a < PageOf(a) * PageSize + PageSize
  BY HosAssumption, Z3 DEF PageOf

\* Whole pages keep the order of their numbers.
LEMMA PagesInOrder ==
  ASSUME NEW q \in Int, NEW k \in Int, k <= q
  PROVE  k * PageSize <= q * PageSize
  BY HosAssumption, Z3

\* An address before the k-th page is on a page before it; one at its start or
\* later is on it or on a later one.
LEMMA PageSides ==
  ASSUME NEW a \in Nat, NEW k \in Int
  PROVE  /\ a < k * PageSize => PageOf(a) < k
         /\ k * PageSize <= a => k <= PageOf(a)
<1> DEFINE q == PageOf(a)
<1>1. q \in Int /\ q * PageSize <= a /\ a < q * PageSize + PageSize
  BY PageBounds
<1>2. q * PageSize \in Int /\ k * PageSize \in Int /\ PageSize \in Int
  BY <1>1, HosAssumption
<1>3. ASSUME a < k * PageSize, ~(q < k) PROVE FALSE
  <2>1. k * PageSize <= q * PageSize
    BY <1>1, <1>3, PagesInOrder
  <2> QED BY <2>1, <1>1, <1>2, <1>3
<1>4. ASSUME k * PageSize <= a, ~(k <= q) PROVE FALSE
  <2>1. (q + 1) * PageSize <= k * PageSize
    BY <1>1, <1>4, PagesInOrder
  <2>2. (q + 1) * PageSize = q * PageSize + PageSize
    BY <1>1, HosAssumption, Z3
  <2> QED BY <2>1, <2>2, <1>1, <1>2, <1>4
<1> QED BY <1>1, <1>3, <1>4

\* alloc hands out whole pages, at the cursor or above.
LEMMA UpIsAPage ==
  ASSUME NEW a \in Nat
  PROVE  /\ Up(a) \in Nat
         /\ a <= Up(a)
         /\ \E k \in Nat : Up(a) = k * PageSize
<1> DEFINE k == (a + PageSize - 1) \div PageSize
<1>1. k \in Nat /\ a <= k * PageSize
  BY HosAssumption, Z3
<1>2. k * PageSize \in Nat
  BY <1>1, HosAssumption
<1> QED BY <1>1, <1>2 DEF Up

-----------------------------------------------------------------------------
(* The invariant: blocks begin on pages, one after the other, between the    *)
(* heap's base and the cursor.                                               *)

Aligned == \A i \in 1..Len(blocks) : \E k \in Nat : blocks[i].addr = k * PageSize
GivenOut ==
  \A i \in 1..Len(blocks) :
    /\ HeapBase <= blocks[i].addr
    /\ blocks[i].addr + blocks[i].size <= cursor
InOrder ==
  \A i, j \in 1..Len(blocks) : i < j => blocks[i].addr + blocks[i].size <= blocks[j].addr

IInv == TypeOK /\ Aligned /\ GivenOut /\ InOrder

LEMMA BlockTypes ==
  ASSUME TypeOK, NEW i \in 1..Len(blocks)
  PROVE  blocks[i].addr \in Nat /\ blocks[i].size \in Nat
<1>1. blocks[i] \in Block
  BY DEF TypeOK
<1>2. Size \subseteq Nat
  BY HosAssumption
<1> QED BY <1>1, <1>2 DEF Block

\* A grant keeps all of it, and its block, if it is given, is among the blocks.
LEMMA GiveKeeps ==
  ASSUME IInv, NEW size \in Size, NEW kind \in Label, Give(size, kind)
  PROVE  /\ mem' \in [Addr -> Stored \cup {Poison, FreedPoison, Zero}]
         /\ cursor' \in HeapBase .. HeapEnd
         /\ blocks' \in Seq(Block)
         /\ raised' \in BOOLEAN
         /\ {blocks[i].addr : i \in DOMAIN blocks} \subseteq {blocks'[i].addr : i \in DOMAIN blocks'}
         /\ raised' \/ raised \/ Up(cursor) \in {blocks'[i].addr : i \in DOMAIN blocks'}
         /\ Aligned' /\ GivenOut' /\ InOrder'
<1>1. CASE Up(cursor) + size > HeapEnd
  BY <1>1 DEF Give, IInv, TypeOK, Aligned, GivenOut, InOrder
<1>2. CASE ~(Up(cursor) + size > HeapEnd)
  <2> DEFINE new == [addr |-> Up(cursor), size |-> size, kind |-> kind]
  <2>1. /\ cursor' = Up(cursor) + size
        /\ blocks' = Append(blocks, new)
        /\ mem' = [a \in Addr |-> IF Up(cursor) <= a /\ a < Up(cursor) + size THEN Poison ELSE mem[a]]
        /\ raised' = raised
    BY <1>2 DEF Give
  <2>2. cursor \in Nat /\ HeapBase <= cursor /\ size \in Nat /\ HeapEnd \in Nat /\ HeapBase \in Nat
    BY HosAssumption DEF IInv, TypeOK
  <2>3. /\ Up(cursor) \in Nat /\ cursor <= Up(cursor)
        /\ \E k \in Nat : Up(cursor) = k * PageSize
    BY <2>2, UpIsAPage
  <2>4. new \in Block
    BY <2>3 DEF Block
  <2>5. blocks \in Seq(Block)
    BY DEF IInv, TypeOK
  <2>6. /\ blocks' \in Seq(Block)
        /\ Len(blocks') = Len(blocks) + 1
        /\ Len(blocks) \in Nat
        /\ \A i \in 1..Len(blocks) : blocks'[i] = blocks[i]
        /\ blocks'[Len(blocks) + 1] = new
        /\ DOMAIN blocks = 1..Len(blocks)
        /\ DOMAIN blocks' = 1..(Len(blocks) + 1)
    BY <2>1, <2>4, <2>5
  <2>7. mem' \in [Addr -> Stored \cup {Poison, FreedPoison, Zero}]
    <3> HIDE DEF new
    <3> QED BY <2>1 DEF IInv, TypeOK
  <2>8. cursor' \in HeapBase .. HeapEnd
    BY <2>1, <2>2, <2>3, <1>2 DEF IInv, TypeOK
  <2>9. {blocks[i].addr : i \in DOMAIN blocks} \subseteq {blocks'[i].addr : i \in DOMAIN blocks'}
    <3> HIDE DEF new
    <3> QED BY <2>6
  <2>10. Up(cursor) \in {blocks'[i].addr : i \in DOMAIN blocks'}
    BY <2>6
  <2>11. Aligned'
    <3> SUFFICES ASSUME NEW i \in 1..(Len(blocks) + 1)
                 PROVE  \E k \in Nat : blocks'[i].addr = k * PageSize
      BY <2>6 DEF Aligned
    <3>1. CASE i \in 1..Len(blocks)
      BY <3>1, <2>6 DEF IInv, Aligned
    <3>2. CASE i = Len(blocks) + 1
      BY <3>2, <2>3, <2>6
    <3> QED BY <3>1, <3>2, <2>6
  <2>12. \A i \in 1..Len(blocks) :
           /\ blocks[i].addr \in Nat /\ blocks[i].size \in Nat
           /\ HeapBase <= blocks[i].addr
           /\ blocks[i].addr + blocks[i].size <= cursor
    BY BlockTypes DEF IInv, GivenOut
  <2>13. GivenOut'
    <3> SUFFICES ASSUME NEW i \in 1..(Len(blocks) + 1)
                 PROVE  /\ HeapBase <= blocks'[i].addr
                        /\ blocks'[i].addr + blocks'[i].size <= cursor'
      BY <2>6 DEF GivenOut
    <3>1. CASE i \in 1..Len(blocks)
      BY <3>1, <2>1, <2>2, <2>3, <2>6, <2>12
    <3>2. CASE i = Len(blocks) + 1
      BY <3>2, <2>1, <2>2, <2>3, <2>6
    <3> QED BY <3>1, <3>2, <2>6
  <2>14. InOrder'
    <3> SUFFICES ASSUME NEW i \in 1..(Len(blocks) + 1), NEW j \in 1..(Len(blocks) + 1), i < j
                 PROVE  blocks'[i].addr + blocks'[i].size <= blocks'[j].addr
      BY <2>6 DEF InOrder
    <3>1. i \in 1..Len(blocks)
      BY <2>6
    <3>2. CASE j \in 1..Len(blocks)
      BY <3>1, <3>2, <2>6 DEF IInv, InOrder
    <3>3. CASE j = Len(blocks) + 1
      BY <3>1, <3>3, <2>2, <2>3, <2>6, <2>12
    <3> QED BY <3>2, <3>3, <2>6
  <2>15. raised' \in BOOLEAN
    BY <2>1 DEF IInv, TypeOK
  <2> QED BY <2>6, <2>7, <2>8, <2>9, <2>10, <2>11, <2>13, <2>14, <2>15
<1> QED BY <1>1, <1>2

LEMMA InitInvariant == Init => IInv
<1> SUFFICES ASSUME Init PROVE IInv
  OBVIOUS
<1>1. blocks = <<>> /\ Len(blocks) = 0 /\ blocks \in Seq(Block)
  BY DEF Init
<1>2. Aligned /\ GivenOut /\ InOrder
  BY <1>1 DEF Aligned, GivenOut, InOrder
<1>3. TypeOK
  <2>1. HeapBase \in HeapBase .. HeapEnd /\ 0 \in 0..MaxStores
    BY HosAssumption
  <2> QED BY <1>1, <2>1 DEF Init, TypeOK
<1> QED BY <1>2, <1>3 DEF IInv

\* The kinds handed out are among the labels.
LEMMA KindsAreLabels == Borrowed \subseteq Label /\ Applet \in Label
<1>1. DOMAIN Kinds = 1..4
  BY DEF Kinds
<1>2. Label = {Kinds[i] : i \in 1..4}
  BY <1>1 DEF Label, ToSet
<1> QED BY <1>2 DEF Borrowed, Applet

LEMMA NextInvariant == IInv /\ [Next]_vars => IInv'
<1> SUFFICES ASSUME IInv, [Next]_vars PROVE IInv'
  OBVIOUS
<1> USE DEF IInv
<1>k. Borrowed \subseteq Label /\ Applet \in Label
  BY KindsAreLabels
<1>1. ASSUME NEW size \in Size, NEW kind \in Borrowed, Allocate(size, kind)
      PROVE  IInv'
  <2>1. Give(size, kind) /\ UNCHANGED <<shared, live, stores, wrote, freed>>
    BY <1>1 DEF Allocate
  <2> QED BY <2>1, <1>k, GiveKeeps DEF TypeOK
<1>2. ASSUME NEW size \in Size, CreateShared(size)
      PROVE  IInv'
  <2>1. /\ ~raised
        /\ Give(size, Applet)
        /\ shared' = IF raised' THEN shared ELSE Up(cursor)
        /\ live' = (live \/ ~raised')
        /\ UNCHANGED <<stores, wrote, freed>>
    BY <1>2 DEF CreateShared
  <2>2. /\ mem' \in [Addr -> Stored \cup {Poison, FreedPoison, Zero}]
        /\ cursor' \in HeapBase .. HeapEnd
        /\ blocks' \in Seq(Block)
        /\ raised' \in BOOLEAN
        /\ {blocks[i].addr : i \in DOMAIN blocks} \subseteq {blocks'[i].addr : i \in DOMAIN blocks'}
        /\ raised' \/ Up(cursor) \in {blocks'[i].addr : i \in DOMAIN blocks'}
        /\ Aligned' /\ GivenOut' /\ InOrder'
    BY <2>1, <1>k, GiveKeeps
  <2>3. shared' \in {0} \cup {blocks'[i].addr : i \in DOMAIN blocks'}
    BY <2>1, <2>2 DEF TypeOK
  <2>4. live' \in BOOLEAN
    BY <2>1
  <2> QED BY <2>1, <2>2, <2>3, <2>4 DEF TypeOK
<1>3. ASSUME DestroyShared PROVE IInv'
  BY <1>3 DEF DestroyShared, memVars, TypeOK, Aligned, GivenOut, InOrder
<1>4. ASSUME NEW a \in Addr, NEW v \in Stored, Stores(a, v) PROVE IInv'
  <2>1. /\ stores < MaxStores /\ stores' = stores + 1
        /\ mem' = [mem EXCEPT ![a] = v]
        /\ wrote' = {w \in wrote : w[1] # a} \cup {<<a, v>>}
        /\ UNCHANGED <<freed, osVars>>
    BY <1>4 DEF Stores
  <2>2. mem' \in [Addr -> Stored \cup {Poison, FreedPoison, Zero}]
    BY <2>1 DEF TypeOK
  <2>3. wrote' \subseteq Addr \X Stored
    BY <2>1 DEF TypeOK
  <2>4. stores' \in 0..MaxStores
    BY <2>1, HosAssumption DEF TypeOK
  <2> QED BY <2>1, <2>2, <2>3, <2>4 DEF osVars, TypeOK, Aligned, GivenOut, InOrder
<1>5. ASSUME NEW a \in Addr, NEW n \in Size, Frees(a, n) PROVE IInv'
  <2>1. /\ stores < MaxStores /\ stores' = stores + 1
        /\ \E i \in DOMAIN Regions : a .. (a + n - 1) \subseteq BytesOf(Regions[i])
        /\ mem' = [b \in Addr |-> IF b \in a .. (a + n - 1) THEN FreedPoison ELSE mem[b]]
        /\ freed' = freed \cup (a .. (a + n - 1))
        /\ UNCHANGED <<wrote, osVars>>
    BY <1>5 DEF Frees
  <2>2. mem' \in [Addr -> Stored \cup {Poison, FreedPoison, Zero}]
    BY <2>1 DEF TypeOK
  <2>3. stores' \in 0..MaxStores
    BY <2>1, HosAssumption DEF TypeOK
  <2>4. freed' \subseteq Addr
    <3>1. PICK i \in DOMAIN Regions : a .. (a + n - 1) \subseteq BytesOf(Regions[i])
      BY <2>1
    <3>2. BytesOf(Regions[i]) \subseteq Addr
      <4>1. blocks \in Seq(Block) /\ Len(blocks) \in Nat /\ i \in 1..(Len(blocks) + 1)
        BY <3>1 DEF Regions, TypeOK
      <4>2. CASE i \in 1..Len(blocks)
        <5>1. /\ Regions[i].addr = blocks[i].addr
              /\ Regions[i].size = blocks[i].size
          BY <4>1, <4>2 DEF Regions
        <5>2. /\ blocks[i].addr \in Nat /\ blocks[i].size \in Nat
              /\ HeapBase <= blocks[i].addr
              /\ blocks[i].addr + blocks[i].size <= cursor
          BY <4>2, BlockTypes DEF GivenOut
        <5>3. cursor \in HeapBase .. HeapEnd /\ HeapBase \in Nat /\ HeapEnd \in Nat
          BY HosAssumption DEF TypeOK
        <5> QED BY <5>1, <5>2, <5>3 DEF BytesOf, Addr
      <4>3. CASE i = Len(blocks) + 1
        <5>1. /\ Regions[i].addr = Buffer.addr
              /\ Regions[i].size = Buffer.size
          BY <4>1, <4>3 DEF Regions
        <5> QED BY <5>1 DEF BytesOf, Addr, BufferBytes
      <4> QED BY <4>1, <4>2, <4>3
    <3> QED BY <2>1, <3>1, <3>2 DEF TypeOK
  <2> QED BY <2>1, <2>2, <2>3, <2>4 DEF osVars, TypeOK, Aligned, GivenOut, InOrder
<1>6. ASSUME UNCHANGED vars PROVE IInv'
  BY <1>6 DEF vars, memVars, osVars, TypeOK, Aligned, GivenOut, InOrder
<1> QED BY <1>1, <1>2, <1>3, <1>4, <1>5, <1>6 DEF Next

\* Blocks of sizes and kinds in any order: aligned, below the cursor, apart.
THEOREM Invariance == Spec => []IInv
  BY InitInvariant, NextInvariant, PTL DEF Spec

\* Type correctness of the memory, for every heap.
THEOREM TypeCorrect == Spec => []TypeOK
<1>1. IInv => TypeOK
  BY DEF IInv
<1> QED BY <1>1, Invariance, PTL

-----------------------------------------------------------------------------

LEMMA InOrderIsApart == IInv => RegionsApart
<1> SUFFICES ASSUME IInv, NEW i \in 1..Len(blocks), NEW j \in 1..Len(blocks), i < j,
                    NEW a \in BytesOf(blocks[i]), NEW b \in BytesOf(blocks[j])
             PROVE  PageOf(a) # PageOf(b)
  BY DEF RegionsApart
<1>1. /\ blocks[i].addr \in Nat /\ blocks[i].size \in Nat
      /\ blocks[j].addr \in Nat /\ blocks[j].size \in Nat
  BY BlockTypes DEF IInv
<1>2. PICK k \in Nat : blocks[j].addr = k * PageSize
  BY DEF IInv, Aligned
<1>3. a \in Nat /\ b \in Nat /\ a < k * PageSize /\ k * PageSize <= b
  <2>1. blocks[i].addr + blocks[i].size <= blocks[j].addr
    BY DEF IInv, InOrder
  <2>2. a \in Nat /\ b \in Nat /\ a < blocks[j].addr /\ blocks[j].addr <= b
    <3>1. /\ a \in blocks[i].addr .. (blocks[i].addr + blocks[i].size - 1)
          /\ b \in blocks[j].addr .. (blocks[j].addr + blocks[j].size - 1)
      BY DEF BytesOf
    <3>2. a \in Nat /\ a < blocks[i].addr + blocks[i].size
      BY <1>1, <3>1
    <3>3. b \in Nat /\ blocks[j].addr <= b
      BY <1>1, <3>1
    <3> QED BY <1>1, <2>1, <3>2, <3>3
  <2> QED BY <2>2, <1>2
<1>4. PageOf(a) < k /\ k <= PageOf(b)
  BY <1>3, PageSides
<1>5. PageOf(a) \in Int /\ PageOf(b) \in Int
  BY <1>3, PageBounds
<1> QED BY <1>4, <1>5

\* No page of the guest is in two blocks, so what is stored into one is never
\* counted in another: for every page size and every order of grants.
THEOREM BlocksApart == Spec => []RegionsApart
  BY Invariance, InOrderIsApart, PTL

-----------------------------------------------------------------------------
(* What the memory holds *)

\* The addresses something was stored to or freed at.
Disturbed == freed \cup {w[1] : w \in wrote}

\* What was last stored is there until it is freed; what was neither stored to
\* nor freed is as it was given; and only what was given is stored to.
Held == \A w \in wrote : w[1] \notin freed => mem[w[1]] = w[2]
Fresh ==
  \A i \in 1..(Len(blocks) + 1) : \A a \in BytesOf(Regions[i]) \ Disturbed :
    mem[a] = Regions[i].fresh
Within ==
  \A a \in Disturbed : a \in BufferBytes \/ (HeapBase <= a /\ a < cursor)

HIInv == IInv /\ Held /\ Fresh /\ Within

\* The i-th region is the i-th block, the one after the blocks the buffer.
LEMMA RegionIs ==
  ASSUME TypeOK
  PROVE  /\ Len(blocks) \in Nat /\ DOMAIN Regions = 1..(Len(blocks) + 1)
         /\ \A i \in 1..Len(blocks) :
              Regions[i] = [addr |-> blocks[i].addr, size |-> blocks[i].size,
                            label |-> blocks[i].kind, fresh |-> Poison]
         /\ Regions[Len(blocks) + 1] = [addr |-> Buffer.addr, size |-> Buffer.size,
                                        label |-> Kinds[4], fresh |-> Zero]
<1> PICK n \in Nat : n = Len(blocks)
  BY DEF TypeOK
<1>1. Regions = [i \in 1..(n + 1) |->
                   IF i <= n
                   THEN [addr |-> blocks[i].addr, size |-> blocks[i].size,
                         label |-> blocks[i].kind, fresh |-> Poison]
                   ELSE [addr |-> Buffer.addr, size |-> Buffer.size,
                         label |-> Kinds[4], fresh |-> Zero]]
  BY DEF Regions
<1>2. \A i \in 1..n : i \in 1..(n + 1) /\ i <= n
  OBVIOUS
<1>3. n + 1 \in 1..(n + 1) /\ ~(n + 1 <= n)
  OBVIOUS
<1> QED BY <1>1, <1>2, <1>3

\* The bytes of a block lie on the heap, below the cursor.
LEMMA BlockBytes ==
  ASSUME IInv, NEW i \in 1..Len(blocks), NEW a \in BytesOf(Regions[i])
  PROVE  a \in Nat /\ HeapBase <= a /\ a < cursor /\ a \notin BufferBytes
<1>1. Regions[i].addr = blocks[i].addr /\ Regions[i].size = blocks[i].size
  <2>1. TypeOK
    BY DEF IInv
  <2>2. Regions[i] = [addr |-> blocks[i].addr, size |-> blocks[i].size,
                      label |-> blocks[i].kind, fresh |-> Poison]
    BY ONLY <2>1, RegionIs, i \in 1..Len(blocks)
  <2> QED BY <2>2
<1>2. /\ blocks[i].addr \in Nat /\ blocks[i].size \in Nat
      /\ HeapBase <= blocks[i].addr /\ blocks[i].addr + blocks[i].size <= cursor
  BY BlockTypes DEF IInv, GivenOut
<1>3. cursor \in Nat /\ cursor <= HeapEnd /\ HeapBase \in Nat /\ HeapEnd \in Nat
  BY HosAssumption DEF IInv, TypeOK
<1>4. a \in Nat /\ HeapBase <= a /\ a < cursor
  BY <1>1, <1>2, <1>3 DEF BytesOf
<1>5. a \in HeapBase .. (HeapEnd - 1)
  BY <1>3, <1>4
<1> QED BY <1>4, <1>5, HosAssumption

\* The region after the blocks is the buffer.
LEMMA BufferIs ==
  ASSUME TypeOK
  PROVE  BytesOf(Regions[Len(blocks) + 1]) = BufferBytes
<1>1. Regions[Len(blocks) + 1].addr = Buffer.addr /\ Regions[Len(blocks) + 1].size = Buffer.size
  BY RegionIs
<1> QED BY <1>1 DEF BytesOf, BufferBytes

\* The bytes of a region lie where Within says.
LEMMA RegionBytes ==
  ASSUME IInv, NEW i \in 1..(Len(blocks) + 1), NEW a \in BytesOf(Regions[i])
  PROVE  a \in Addr /\ (a \in BufferBytes \/ (HeapBase <= a /\ a < cursor))
<1>1. Len(blocks) \in Nat /\ cursor <= HeapEnd /\ cursor \in Nat /\ HeapEnd \in Nat /\ HeapBase \in Nat
  BY HosAssumption DEF IInv, TypeOK
<1>2. CASE i \in 1..Len(blocks)
  <2>1. a \in Nat /\ HeapBase <= a /\ a < cursor
    BY <1>2, BlockBytes
  <2>2. a \in HeapBase .. (HeapEnd - 1)
    BY <1>1, <2>1
  <2> QED BY <2>1, <2>2 DEF Addr
<1>3. CASE i = Len(blocks) + 1
  <2>1. a \in BufferBytes
    BY <1>3, BufferIs DEF IInv
  <2> QED BY <2>1 DEF Addr
<1> QED BY <1>1, <1>2, <1>3

\* A grant changes the block it hands out and no other region.
LEMMA GrantIs ==
  ASSUME IInv, NEW size \in Size, NEW kind \in Label, Give(size, kind)
  PROVE  \/ UNCHANGED <<mem, blocks, cursor>>
         \/ /\ cursor \in Nat /\ Up(cursor) \in Nat /\ cursor <= Up(cursor) /\ size \in Nat
            /\ cursor' = Up(cursor) + size
            /\ blocks' = Append(blocks, [addr |-> Up(cursor), size |-> size, kind |-> kind])
            /\ mem' = [a \in Addr |-> IF Up(cursor) <= a /\ a < Up(cursor) + size THEN Poison ELSE mem[a]]
            /\ Up(cursor) + size <= HeapEnd
<1>1. cursor \in Nat /\ size \in Nat /\ HeapEnd \in Nat
  BY HosAssumption DEF IInv, TypeOK
<1>2. Up(cursor) \in Nat /\ cursor <= Up(cursor)
  BY <1>1, UpIsAPage
<1> QED BY <1>1, <1>2 DEF Give

\* What was given before keeps its bytes and its place.
LEMMA GrantKeepsOthers ==
  ASSUME IInv, IInv', NEW size \in Size, NEW kind \in Label, Give(size, kind)
  PROVE  /\ Len(blocks) <= Len(blocks')
         /\ \A i \in 1..Len(blocks) : Regions'[i] = Regions[i]
         /\ Regions'[Len(blocks') + 1] = Regions[Len(blocks) + 1]
         /\ cursor <= cursor'
         /\ \A a \in Addr : a \in BufferBytes \/ a < cursor => mem'[a] = mem[a]
         /\ \A i \in (Len(blocks) + 1)..Len(blocks') :
              Regions'[i].fresh = Poison /\ \A a \in BytesOf(Regions'[i]) : mem'[a] = Poison
<1>1. Len(blocks) \in Nat /\ Len(blocks') \in Nat /\ cursor \in Nat /\ blocks \in Seq(Block)
  BY HosAssumption DEF IInv, TypeOK
<1>2. CASE UNCHANGED <<mem, blocks, cursor>>
  <2>1. UNCHANGED Regions
    BY <1>2 DEF Regions
  <2>2. \A i \in (Len(blocks) + 1)..Len(blocks') : FALSE
    BY <1>1, <1>2
  <2> QED BY <1>1, <1>2, <2>1, <2>2
<1>3. CASE /\ cursor \in Nat /\ Up(cursor) \in Nat /\ cursor <= Up(cursor) /\ size \in Nat
           /\ cursor' = Up(cursor) + size
           /\ blocks' = Append(blocks, [addr |-> Up(cursor), size |-> size, kind |-> kind])
           /\ mem' = [a \in Addr |-> IF Up(cursor) <= a /\ a < Up(cursor) + size THEN Poison ELSE mem[a]]
           /\ Up(cursor) + size <= HeapEnd
  <2> PICK new : new = [addr |-> Up(cursor), size |-> size, kind |-> kind]
    OBVIOUS
  <2> PICK n \in Nat : n = Len(blocks)
    BY <1>1
  <2> PICK up \in Nat : up = Up(cursor)
    BY <1>3
  <2>1. new \in Block
    BY <1>3 DEF Block
  <2>2. /\ Len(blocks') = n + 1 /\ blocks'[n + 1] = new
        /\ \A i \in 1..n : blocks'[i] = blocks[i]
    BY <1>1, <1>3, <2>1
  <2>3. \A i \in 1..n : Regions'[i] = Regions[i]
    <3> SUFFICES ASSUME NEW i \in 1..n PROVE Regions'[i] = Regions[i]
      OBVIOUS
    <3>1. i \in 1..(n + 1) /\ i \in 1..(n + 1 + 1) /\ i <= n /\ i <= n + 1
      OBVIOUS
    <3> QED BY <2>2, <3>1 DEF Regions
  <2>4. /\ Regions'[n + 1] = [addr |-> new.addr, size |-> new.size, label |-> new.kind, fresh |-> Poison]
        /\ Regions'[n + 2] = Regions[n + 1]
    <3>1. /\ n + 1 \in 1..(n + 1 + 1) /\ n + 1 <= n + 1 /\ n + 2 \in 1..(n + 1 + 1) /\ ~(n + 2 <= n + 1)
          /\ n + 1 \in 1..(n + 1) /\ ~(n + 1 <= n)
      OBVIOUS
    <3> QED BY <2>2, <3>1 DEF Regions
  <2>5. \A a \in Addr : a \in BufferBytes \/ a < cursor => mem'[a] = mem[a]
    <3> SUFFICES ASSUME NEW a \in Addr, a \in BufferBytes \/ a < cursor, up <= a, a < up + size
                 PROVE  FALSE
      BY <1>3
    <3>1. ~(a < cursor)
      BY <1>3, HosAssumption DEF Addr, BufferBytes
    <3>2. HeapBase <= cursor /\ HeapBase \in Nat /\ HeapEnd \in Nat
      BY HosAssumption DEF IInv, TypeOK
    <3>3. a \in BufferBytes /\ a \in Nat
      BY <3>1, HosAssumption DEF BufferBytes
    <3>4. a \in HeapBase .. (HeapEnd - 1)
      BY <1>3, <3>2, <3>3
    <3> QED BY <3>3, <3>4, HosAssumption
  <2>6. \A a \in BytesOf(Regions'[n + 1]) : mem'[a] = Poison
    <3> SUFFICES ASSUME NEW a \in BytesOf(Regions'[n + 1]) PROVE mem'[a] = Poison
      OBVIOUS
    <3>1. Regions'[n + 1].addr = up /\ Regions'[n + 1].size = size
      BY <2>4
    <3>2. a \in up .. (up + size - 1)
      BY <3>1 DEF BytesOf
    <3>3. HeapBase <= cursor /\ HeapBase \in Nat /\ HeapEnd \in Nat
      BY HosAssumption DEF IInv, TypeOK
    <3>4. a \in HeapBase .. (HeapEnd - 1) /\ up <= a /\ a < up + size
      BY <1>3, <3>2, <3>3
    <3> QED BY <1>3, <3>4 DEF Addr
  <2>7. \A i \in (n + 1)..(n + 1) : i = n + 1
    OBVIOUS
  <2>8. n <= n + 1 /\ cursor <= cursor' /\ n + 1 + 1 = n + 2
    BY <1>3
  <2> QED BY <2>2, <2>3, <2>4, <2>5, <2>6, <2>7, <2>8
<1> QED BY <1>2, <1>3, GrantIs

\* Nothing given, stored or freed.
LEMMA SameMemory ==
  ASSUME Held, Fresh, Within, UNCHANGED <<mem, wrote, freed, blocks, cursor>>
  PROVE  Held' /\ Fresh' /\ Within'
  BY DEF Held, Fresh, Within, Disturbed, Regions

\* What is given is fresh, and nothing else is given again.
LEMMA GrantKeepsMemory ==
  ASSUME HIInv, IInv', NEW size \in Size, NEW kind \in Label, Give(size, kind), UNCHANGED <<wrote, freed>>
  PROVE  Held' /\ Fresh' /\ Within'
<1>1. /\ Len(blocks) <= Len(blocks')
      /\ \A i \in 1..Len(blocks) : Regions'[i] = Regions[i]
      /\ Regions'[Len(blocks') + 1] = Regions[Len(blocks) + 1]
      /\ cursor <= cursor'
      /\ \A a \in Addr : a \in BufferBytes \/ a < cursor => mem'[a] = mem[a]
      /\ \A i \in (Len(blocks) + 1)..Len(blocks') :
           Regions'[i].fresh = Poison /\ \A a \in BytesOf(Regions'[i]) : mem'[a] = Poison
  BY GrantKeepsOthers DEF HIInv
<1>2. /\ Len(blocks) \in Nat /\ Len(blocks') \in Nat /\ cursor \in Nat /\ cursor' \in Nat /\ HeapBase \in Nat
      /\ cursor <= HeapEnd /\ HeapEnd \in Nat
  BY HosAssumption DEF HIInv, IInv, TypeOK
<1>3. \A a \in Disturbed : a \in Addr /\ (a \in BufferBytes \/ a < cursor)
  <2> SUFFICES ASSUME NEW a \in Disturbed PROVE a \in Addr
    BY DEF HIInv, Within
  <2> QED BY DEF HIInv, IInv, TypeOK, Disturbed
<1>4. Held'
  <2> SUFFICES ASSUME NEW w \in wrote, w[1] \notin freed PROVE mem'[w[1]] = w[2]
    BY DEF Held
  <2>1. w[1] \in Disturbed
    BY DEF Disturbed
  <2> QED BY <1>1, <1>3, <2>1 DEF HIInv, Held
<1>5. Fresh'
  <2> SUFFICES ASSUME NEW i \in 1..(Len(blocks') + 1), NEW a \in BytesOf(Regions'[i]) \ Disturbed
               PROVE  mem'[a] = Regions'[i].fresh
    BY DEF Fresh, Disturbed, BytesOf
  <2> PICK k \in 1..(Len(blocks) + 1) :
        Regions'[i] = Regions[k] \/ i \in (Len(blocks) + 1)..Len(blocks')
    <3>1. CASE i \in 1..Len(blocks)
      BY <3>1, <1>1, <1>2
    <3>2. CASE i = Len(blocks') + 1
      BY <3>2, <1>1, <1>2
    <3>3. CASE i \in (Len(blocks) + 1)..Len(blocks')
      BY <3>3, <1>2
    <3> QED BY <3>1, <3>2, <3>3, <1>2
  <2>1. CASE i \in (Len(blocks) + 1)..Len(blocks')
    BY <2>1, <1>1
  <2>2. CASE Regions'[i] = Regions[k]
    <3>1. a \in BytesOf(Regions[k]) \ Disturbed
      BY <2>2
    <3>2. mem[a] = Regions[k].fresh
      BY <3>1 DEF HIInv, Fresh
    <3>3. a \in Addr /\ (a \in BufferBytes \/ a < cursor)
      BY <3>1, RegionBytes DEF HIInv
    <3> QED BY <3>2, <3>3, <2>2, <1>1
  <2> QED BY <2>1, <2>2
<1>6. Within'
  <2> SUFFICES ASSUME NEW a \in Disturbed, HeapBase <= a, a < cursor, a \notin BufferBytes
               PROVE  a < cursor'
    BY DEF HIInv, Within, Disturbed
  <2>1. a \in HeapBase .. (HeapEnd - 1)
    BY <1>3, HosAssumption DEF Addr
  <2>2. a \in Nat
    BY <2>1, <1>2
  <2> QED BY <2>2, <1>1, <1>2
<1> QED BY <1>4, <1>5, <1>6

\* What is stored is there.
LEMMA StoreKeepsMemory ==
  ASSUME HIInv, IInv', NEW a \in Addr, NEW v \in Stored, Stores(a, v)
  PROVE  Held' /\ Fresh' /\ Within'
<1>1. /\ mem' = [mem EXCEPT ![a] = v]
      /\ wrote' = {w \in wrote : w[1] # a} \cup {<<a, v>>}
      /\ UNCHANGED <<freed, cursor, blocks>>
      /\ mem \in [Addr -> Stored \cup {Poison, FreedPoison, Zero}]
      /\ wrote \subseteq Addr \X Stored
  BY DEF Stores, osVars, HIInv, IInv, TypeOK
<1>2. \A w \in wrote' : w = <<a, v>> \/ (w \in wrote /\ w[1] # a /\ w[1] \in Addr)
  BY <1>1
<1>3. mem'[a] = v /\ \A b \in Addr : b # a => mem'[b] = mem[b]
  BY <1>1
<1>4. Held'
  <2> SUFFICES ASSUME NEW w \in wrote', w[1] \notin freed PROVE mem'[w[1]] = w[2]
    BY <1>1 DEF Held
  <2> QED BY <1>2, <1>3 DEF HIInv, Held
<1>5. Disturbed' = Disturbed \cup {a}
  <2>1. \A w \in wrote : w[1] = a \/ w \in wrote'
    BY <1>1
  <2>2. {w[1] : w \in wrote'} = {w[1] : w \in wrote} \cup {a}
    <3>1. <<a, v>> \in wrote' /\ <<a, v>>[1] = a
      BY <1>1
    <3>2. {w[1] : w \in wrote'} \subseteq {w[1] : w \in wrote} \cup {a}
      BY <1>2
    <3>3. {w[1] : w \in wrote} \cup {a} \subseteq {w[1] : w \in wrote'}
      BY <2>1, <3>1
    <3> QED BY <3>2, <3>3
  <2> QED BY <2>2, <1>1 DEF Disturbed
<1>6. UNCHANGED Regions
  BY <1>1 DEF Regions
<1>7. Fresh'
  <2> SUFFICES ASSUME NEW i \in 1..(Len(blocks) + 1), NEW b \in BytesOf(Regions[i]) \ (Disturbed \cup {a})
               PROVE  mem'[b] = Regions[i].fresh
    BY <1>1, <1>5, <1>6 DEF Fresh, BytesOf
  <2>1. b \in Addr /\ b # a
    BY RegionBytes DEF HIInv
  <2> QED BY <2>1, <1>3 DEF HIInv, Fresh
<1>8. Within'
  <2>1. PICK i \in DOMAIN Regions : a \in BytesOf(Regions[i])
    BY DEF Stores
  <2>2. i \in 1..(Len(blocks) + 1)
    BY <2>1, RegionIs DEF HIInv, IInv
  <2>3. a \in BufferBytes \/ (HeapBase <= a /\ a < cursor)
    BY <2>1, <2>2, RegionBytes DEF HIInv
  <2> QED BY <2>3, <1>1, <1>5 DEF HIInv, Within
<1> QED BY <1>4, <1>7, <1>8

\* What is freed is disturbed, and what was stored there forgotten.
LEMMA FreeKeepsMemory ==
  ASSUME HIInv, IInv', NEW a \in Addr, NEW n \in Size, Frees(a, n)
  PROVE  Held' /\ Fresh' /\ Within'
<1> PICK gone : gone = a .. (a + n - 1)
  OBVIOUS
<1>1. /\ mem' = [b \in Addr |-> IF b \in gone THEN FreedPoison ELSE mem[b]]
      /\ freed' = freed \cup gone
      /\ UNCHANGED <<wrote, cursor, blocks>>
      /\ wrote \subseteq Addr \X Stored
  BY DEF Frees, osVars, HIInv, IInv, TypeOK
<1>2. \A b \in Addr \ gone : mem'[b] = mem[b]
  BY <1>1
<1>3. Held'
  <2> SUFFICES ASSUME NEW w \in wrote, w[1] \notin freed, w[1] \notin gone PROVE mem'[w[1]] = w[2]
    BY <1>1 DEF Held
  <2>1. w[1] \in Addr
    BY <1>1
  <2> QED BY <2>1, <1>2 DEF HIInv, Held
<1>4. Disturbed' = Disturbed \cup gone
  BY <1>1 DEF Disturbed
<1>5. UNCHANGED Regions
  BY <1>1 DEF Regions
<1>6. Fresh'
  <2> SUFFICES ASSUME NEW i \in 1..(Len(blocks) + 1), NEW b \in BytesOf(Regions[i]) \ (Disturbed \cup gone)
               PROVE  mem'[b] = Regions[i].fresh
    BY <1>1, <1>4, <1>5 DEF Fresh, BytesOf
  <2>1. b \in Addr /\ b \notin gone
    BY RegionBytes DEF HIInv
  <2> QED BY <2>1, <1>2 DEF HIInv, Fresh
<1>7. Within'
  <2>1. PICK i \in DOMAIN Regions : gone \subseteq BytesOf(Regions[i])
    BY DEF Frees
  <2>2. i \in 1..(Len(blocks) + 1)
    BY <2>1, RegionIs DEF HIInv, IInv
  <2>3. \A b \in gone : b \in BufferBytes \/ (HeapBase <= b /\ b < cursor)
    BY <2>1, <2>2, RegionBytes DEF HIInv
  <2> QED BY <2>3, <1>1, <1>4 DEF HIInv, Within
<1> QED BY <1>3, <1>6, <1>7

\* Every step keeps what the memory holds,
LEMMA MemoryKeeps ==
  ASSUME HIInv, [Next]_vars, IInv'
  PROVE  HIInv'
<1>1. ASSUME NEW size \in Size, NEW kind \in Borrowed, Allocate(size, kind)
      PROVE  HIInv'
  BY <1>1, KindsAreLabels, GrantKeepsMemory DEF Allocate, HIInv
<1>2. ASSUME NEW size \in Size, CreateShared(size)
      PROVE  HIInv'
  BY <1>2, KindsAreLabels, GrantKeepsMemory DEF CreateShared, HIInv
<1>3. CASE DestroyShared
  BY <1>3, SameMemory DEF DestroyShared, memVars, HIInv
<1>4. ASSUME NEW a \in Addr, NEW v \in Stored, Stores(a, v) PROVE HIInv'
  BY <1>4, StoreKeepsMemory DEF HIInv
<1>5. ASSUME NEW a \in Addr, NEW n \in Size, Frees(a, n) PROVE HIInv'
  BY <1>5, FreeKeepsMemory DEF HIInv
<1>6. CASE UNCHANGED vars
  BY <1>6, SameMemory DEF vars, memVars, osVars, HIInv
<1> QED BY <1>1, <1>2, <1>3, <1>4, <1>5, <1>6 DEF Next

\* which at first is zeros.
LEMMA InitMemory == Init /\ IInv => HIInv
<1> SUFFICES ASSUME Init, IInv PROVE HIInv
  OBVIOUS
<1>1. mem = [a \in Addr |-> Zero] /\ wrote = {} /\ freed = {} /\ blocks = <<>> /\ Len(blocks) = 0
  BY DEF Init
<1>2. Disturbed = {}
  BY <1>1 DEF Disturbed
<1>3. Held /\ Within
  BY <1>1, <1>2 DEF Held, Within
<1>4. Fresh
  <2> SUFFICES ASSUME NEW i \in 1..1, NEW a \in BytesOf(Regions[i]) PROVE mem[a] = Regions[i].fresh
    BY <1>1 DEF Fresh
  <2>1. i = Len(blocks) + 1 /\ i \in 1..(Len(blocks) + 1)
    BY <1>1
  <2>2. Regions[i].fresh = Zero
    BY <2>1, RegionIs DEF IInv
  <2>3. a \in Addr
    BY <2>1, RegionBytes
  <2> QED BY <1>1, <2>2, <2>3
<1> QED BY <1>3, <1>4 DEF HIInv

-----------------------------------------------------------------------------
(* What is found of it *)

PoolRegions(label) == {i \in 1..(Len(blocks) + 1) : Regions[i].label = label}
PoolGiven(label) == UNION {{i} \X BytesOf(Regions[i]) : i \in PoolRegions(label)}
PoolTouched(label) == UNION {{i} \X TouchedIn(Regions[i]) : i \in PoolRegions(label)}

\* A row of the answer counts the bytes of its pool.
LEMMA RowIs ==
  ASSUME TypeOK, NEW label \in Label
  PROVE  /\ touched_by_region[label].size = Cardinality(PoolGiven(label))
         /\ touched_by_region[label].touched = Cardinality(PoolTouched(label))
<1>1. DOMAIN Regions = 1..(Len(blocks) + 1)
  BY RegionIs
<1> QED BY <1>1 DEF touched_by_region, PoolRegions, PoolGiven, PoolTouched

\* A page of a region is of its bytes, and so is what is touched.
LEMMA TouchedIsGiven ==
  ASSUME NEW r
  PROVE  /\ \A page \in PagesOf(r) : page \subseteq BytesOf(r)
         /\ TouchedIn(r) \subseteq BytesOf(r)
  BY DEF PagesOf, TouchedIn, TouchedPages

\* There are finitely many bytes to be given.
LEMMA FiniteGiven ==
  ASSUME IInv, NEW label
  PROVE  /\ IsFiniteSet(PoolGiven(label)) /\ Cardinality(PoolGiven(label)) \in Nat
         /\ PoolTouched(label) \subseteq PoolGiven(label)
<1> PICK n \in Nat : n = Len(blocks)
  BY DEF IInv, TypeOK
<1>1. IsFiniteSet(Addr)
  <2>1. /\ Buffer.addr \in Int /\ Buffer.addr + Buffer.size - 1 \in Int
        /\ HeapBase \in Int /\ HeapEnd - 1 \in Int
    BY HosAssumption
  <2>2. IsFiniteSet(BufferBytes)
    BY <2>1, FS_Interval DEF BufferBytes
  <2>3. IsFiniteSet(HeapBase .. (HeapEnd - 1))
    BY <2>1, FS_Interval
  <2> QED BY <2>2, <2>3, FS_Union DEF Addr
<1>2. IsFiniteSet((1..(n + 1)) \X Addr)
  <2>1. IsFiniteSet(1..(n + 1))
    BY FS_Interval
  <2> QED BY <2>1, <1>1, FS_Product
<1>3. PoolGiven(label) \subseteq (1..(n + 1)) \X Addr
  <2> SUFFICES ASSUME NEW i \in PoolRegions(label), NEW a \in BytesOf(Regions[i])
               PROVE  <<i, a>> \in (1..(n + 1)) \X Addr
    BY DEF PoolGiven
  <2>1. i \in 1..(Len(blocks) + 1)
    BY DEF PoolRegions
  <2> QED BY <2>1, RegionBytes
<1>4. IsFiniteSet(PoolGiven(label))
  BY <1>2, <1>3, FS_Subset
<1>5. PoolTouched(label) \subseteq PoolGiven(label)
  BY TouchedIsGiven DEF PoolGiven, PoolTouched
<1> QED BY <1>4, <1>5, FS_CardinalityType

\* Nor after a step.
FinitePool(label) == IsFiniteSet(PoolGiven(label)) /\ PoolTouched(label) \subseteq PoolGiven(label)

LEMMA FiniteGivenThen ==
  ASSUME NEW label
  PROVE  IInv' => FinitePool(label)'
<1>1. IInv => FinitePool(label)
  BY FiniteGiven DEF FinitePool
<1> QED BY <1>1, PTL

\* What the memory holds is what is found of it.
LEMMA FoundIs == HIInv => StoresAreFound
<1> SUFFICES ASSUME HIInv PROVE StoresAreFound
  OBVIOUS
<1>1. \A label \in Label : touched_by_region[label].touched <= touched_by_region[label].size
  <2> SUFFICES ASSUME NEW label \in Label
               PROVE  touched_by_region[label].touched <= touched_by_region[label].size
    OBVIOUS
  <2>1. Cardinality(PoolTouched(label)) <= Cardinality(PoolGiven(label))
    BY FiniteGiven, FS_Subset DEF HIInv
  <2> QED BY <2>1, RowIs DEF HIInv, IInv
<1>2. ASSUME NEW i \in DOMAIN Regions, NEW page \in PagesOf(Regions[i]),
             NEW w \in wrote, w[1] \in page \ freed, w[2] # Regions[i].fresh
      PROVE  page \in TouchedPages(Regions[i])
  BY <1>2 DEF HIInv, Held, TouchedPages
<1>3. ASSUME NEW i \in DOMAIN Regions, NEW page \in TouchedPages(Regions[i])
      PROVE  page \cap (freed \cup {w[1] : w \in wrote}) # {}
  <2>1. PICK a \in page : mem[a] # Regions[i].fresh
    BY DEF TouchedPages
  <2>2. i \in 1..(Len(blocks) + 1)
    BY RegionIs DEF HIInv, IInv
  <2>3. a \in BytesOf(Regions[i])
    BY TouchedIsGiven DEF TouchedPages
  <2>4. a \in Disturbed
    BY <2>1, <2>2, <2>3 DEF HIInv, Fresh
  <2> QED BY <2>4 DEF Disturbed
<1> QED BY <1>1, <1>2, <1>3 DEF StoresAreFound

-----------------------------------------------------------------------------
(* A high-water mark *)

\* A block stays where it is, and no byte of it becomes as it was given.
LEMMA BlockStays ==
  ASSUME Poison \notin Stored, HIInv, HIInv', [Next]_vars, NEW i \in 1..Len(blocks)
  PROVE  /\ i \in 1..Len(blocks') /\ Regions'[i] = Regions[i]
         /\ \A a \in BytesOf(Regions[i]) : mem[a] # Poison => mem'[a] # Poison
<1> DEFINE Stays == /\ i \in 1..Len(blocks') /\ Regions'[i] = Regions[i]
                    /\ \A a \in BytesOf(Regions[i]) : mem[a] # Poison => mem'[a] # Poison
<1>1. Len(blocks) \in Nat /\ Len(blocks') \in Nat /\ i \in 1..(Len(blocks) + 1)
  BY DEF HIInv, IInv, TypeOK
<1>2. \A a \in BytesOf(Regions[i]) : a \in Addr /\ a < cursor
  BY <1>1, BlockBytes, RegionBytes DEF HIInv
<1>3. ASSUME NEW size \in Size, NEW kind \in Label, Give(size, kind) PROVE Stays
  <2>1. /\ Len(blocks) <= Len(blocks') /\ Regions'[i] = Regions[i]
        /\ \A a \in Addr : a \in BufferBytes \/ a < cursor => mem'[a] = mem[a]
    BY <1>3, GrantKeepsOthers DEF HIInv
  <2> QED BY <1>1, <1>2, <2>1
<1>4. ASSUME UNCHANGED blocks, \A a \in Addr : mem[a] # Poison => mem'[a] # Poison PROVE Stays
  <2>1. UNCHANGED Regions
    BY <1>4 DEF Regions
  <2> QED BY <1>2, <1>4, <2>1
<1> HIDE DEF Stays
<1>5. ASSUME NEW size \in Size, NEW kind \in Borrowed, Allocate(size, kind) PROVE Stays
  BY <1>3, <1>5, KindsAreLabels DEF Allocate
<1>6. ASSUME NEW size \in Size, CreateShared(size) PROVE Stays
  BY <1>3, <1>6, KindsAreLabels DEF CreateShared
<1>7. ASSUME DestroyShared \/ UNCHANGED vars PROVE Stays
  BY <1>4, <1>7 DEF DestroyShared, vars, memVars, osVars
<1>8. ASSUME NEW a \in Addr, NEW v \in Stored, Stores(a, v) PROVE Stays
  <2>1. mem' = [mem EXCEPT ![a] = v] /\ UNCHANGED blocks /\ v # Poison
    BY <1>8 DEF Stores, osVars
  <2>2. mem \in [Addr -> Stored \cup {Poison, FreedPoison, Zero}]
    BY DEF HIInv, IInv, TypeOK
  <2> QED BY <1>4, <2>1, <2>2
<1>9. ASSUME NEW a \in Addr, NEW n \in Size, Frees(a, n) PROVE Stays
  <2>1. mem' = [b \in Addr |-> IF b \in a .. (a + n - 1) THEN FreedPoison ELSE mem[b]] /\ UNCHANGED blocks
    BY <1>9 DEF Frees, osVars
  <2> QED BY <1>4, <2>1, HosAssumption
<1>10. Stays
  BY <1>5, <1>6, <1>7, <1>8, <1>9 DEF Next
<1> QED BY <1>10 DEF Stays

\* The touched bytes of a pool of blocks are touched after a step.
LEMMA MarkRises ==
  ASSUME Poison \notin Stored, HIInv, HIInv', [Next]_vars, NEW label \in Borrowed \cup {Applet}
  PROVE  touched_by_region'[label].touched >= touched_by_region[label].touched
<1>1. label \in Label
  BY KindsAreLabels
<1>2. PoolTouched(label) \subseteq PoolTouched(label)'
  <2> SUFFICES ASSUME NEW i \in PoolRegions(label), NEW a \in TouchedIn(Regions[i])
               PROVE  <<i, a>> \in PoolTouched(label)'
    BY DEF PoolTouched
  <2>1. /\ Len(blocks) \in Nat /\ Len(blocks') \in Nat
        /\ i \in 1..(Len(blocks) + 1) /\ Regions[i].label = label
    BY DEF PoolRegions, HIInv, IInv, TypeOK
  <2>2. i \in 1..Len(blocks)
    <3>1. label # Kinds[4]
      BY DEF Borrowed, Applet, Kinds
    <3>2. Regions[Len(blocks) + 1].label = Kinds[4]
      BY RegionIs DEF HIInv, IInv
    <3>3. i # Len(blocks) + 1
      BY <2>1, <3>1, <3>2
    <3> QED BY <2>1, <3>3
  <2>3. /\ i \in 1..Len(blocks') /\ Regions'[i] = Regions[i]
        /\ \A b \in BytesOf(Regions[i]) : mem[b] # Poison => mem'[b] # Poison
    BY <2>2, BlockStays
  <2>4. Regions[i].fresh = Poison
    <3>1. TypeOK
      BY DEF HIInv, IInv
    <3>2. Regions[i] = [addr |-> blocks[i].addr, size |-> blocks[i].size,
                        label |-> blocks[i].kind, fresh |-> Poison]
      BY ONLY <3>1, <2>2, RegionIs
    <3> QED BY <3>2
  <2>5. PICK page \in PagesOf(Regions[i]) : a \in page /\ \E b \in page : mem[b] # Poison
    BY <2>4 DEF TouchedIn, TouchedPages
  <2>6. \E b \in page : mem'[b] # Poison
    BY <2>3, <2>5, TouchedIsGiven
  <2>7. a \in TouchedIn(Regions[i])'
    BY <2>3, <2>4, <2>5, <2>6 DEF TouchedIn, TouchedPages, PagesOf, BytesOf
  <2>8. i \in PoolRegions(label)'
    BY <2>1, <2>3 DEF PoolRegions
  <2> QED BY <2>7, <2>8 DEF PoolTouched
<1>3. /\ touched_by_region[label].touched = Cardinality(PoolTouched(label))
      /\ touched_by_region'[label].touched = Cardinality(PoolTouched(label)')
  <2>1. touched_by_region[label].touched = Cardinality(PoolTouched(label))
    BY <1>1, RowIs DEF HIInv, IInv
  <2>2. DOMAIN Regions' = 1..(Len(blocks') + 1)
    BY DEF Regions
  <2>3. touched_by_region'[label].touched = Cardinality(PoolTouched(label)')
    BY <1>1, <2>2 DEF touched_by_region, PoolTouched, PoolRegions
  <2> QED BY <2>1, <2>3
<1>4. IsFiniteSet(PoolTouched(label)')
  <2>1. IInv'
    BY DEF HIInv
  <2>2. IsFiniteSet(PoolGiven(label)') /\ PoolTouched(label)' \subseteq PoolGiven(label)'
    BY <2>1, FiniteGivenThen DEF FinitePool
  <2> QED BY <2>2, FS_Subset
<1>5. /\ Cardinality(PoolTouched(label)) <= Cardinality(PoolTouched(label)')
      /\ Cardinality(PoolTouched(label)') \in Nat /\ Cardinality(PoolTouched(label)) \in Nat
  BY <1>2, <1>4, FS_Subset, FS_CardinalityType
<1> QED BY <1>3, <1>5

-----------------------------------------------------------------------------

\* What the memory holds is what was given, stored or freed, at every moment.
THEOREM MemoryInvariance == Spec => []HIInv
<1>1. Init => HIInv
  BY InitInvariant, InitMemory
<1>2. HIInv /\ [Next]_vars => HIInv'
  BY NextInvariant, MemoryKeeps DEF HIInv
<1> QED BY <1>1, <1>2, PTL DEF Spec

\* touched_by_region finds what was stored, and nothing that was not, and no
\* pool touched more than it was given: for every page size and every order of
\* grants, stores and releases.
THEOREM StoresFound == Spec => []StoresAreFound
  BY MemoryInvariance, FoundIs, PTL

\* A pool of borrowed pages is never found touched less than it was, if the
\* build stores nothing that looks as it was given.
THEOREM HighWater == Poison \notin Stored => (Spec => TouchedNeverShrinks)
<1> SUFFICES ASSUME Poison \notin Stored PROVE Spec => TouchedNeverShrinks
  OBVIOUS
<1>1. HIInv /\ HIInv' /\ [Next]_vars =>
        [\A label \in Borrowed \cup {Applet} :
           touched_by_region'[label].touched >= touched_by_region[label].touched]_vars
  BY MarkRises
<1> QED BY <1>1, MemoryInvariance, PTL DEF Spec, TouchedNeverShrinks
=============================================================================
