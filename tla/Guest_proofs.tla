---------------------------- MODULE Guest_proofs ----------------------------
(***************************************************************************)
(* What holds of every guest: that bytes are found where they first are,   *)
(* that strings are read whole, that a call ends as it went, that a row of *)
(* the heap table, once granted, is what is found again, and that a read   *)
(* of the produced romfs gives the bytes it was asked for.                 *)
(***************************************************************************)
EXTENDS Guest, WellFoundedInduction, SequenceTheorems, TLAPS

Below == {p \in Nat \X Nat : p[1] < p[2]}

LEMMA BelowWellFounded == IsWellFoundedOn(Below, Nat)
  BY NatLessThanWellFounded DEF OpToRel, Below

\* A set of naturals has a least one.
LEMMA LeastNatural ==
  ASSUME NEW T \in SUBSET Nat, T # {}
  PROVE  \E x \in T : \A y \in T : x <= y
<1>1. PICK x \in T : \A y \in T : <<y, x>> \notin Below
  BY BelowWellFounded, WFMin
<1>2. ASSUME NEW y \in T, ~(x <= y) PROVE FALSE
  <2>1. <<y, x>> \in Nat \X Nat /\ <<y, x>>[1] < <<y, x>>[2]
    BY <1>2
  <2> QED BY <2>1, <1>1, <1>2 DEF Below
<1> QED BY <1>1, <1>2

-----------------------------------------------------------------------------
(* find_bytes *)

ScanType ==
  scan \in [state : {"idle", "looking", "found", "absent"}, needle : Seq(Byte), at : Nat]

\* Nothing was found before where the scan reads next; a needle it looks for
\* is one a chunk can hold.
ScanIInv ==
  /\ ScanType
  /\ scan.state # "idle" => scan.needle \in Needle
  /\ scan.state = "looking" =>
       Lo <= scan.at /\ \A a \in Lo..(scan.at - 1) : ~IsAt(scan.needle, a)
  /\ FindsFirst

\* The first of some hits is one of them and comes before the others.
LEMMA FirstIsFirst ==
  ASSUME NEW hits \in SUBSET Nat, hits # {}
  PROVE  First(hits) \in hits /\ \A b \in hits : First(hits) <= b
  BY LeastNatural DEF First

LEMMA BeginFindKeeps ==
  ASSUME NEW needle \in Needle, BeginFind(needle)
  PROVE  ScanIInv'
<1>1. scan' = [state |-> "looking", needle |-> needle, at |-> Lo]
  BY DEF BeginFind
<1>2. needle \in Seq(Byte) /\ Lo \in Nat
  BY MemoryAssumption DEF Needle
<1> QED BY <1>1, <1>2 DEF ScanIInv, ScanType, FindsFirst

\* A turn of the loop: the chunk's hits are all there are up to where the next
\* chunk begins.
LEMMA FindChunkKeeps ==
  ASSUME ScanIInv, FindChunk
  PROVE  ScanIInv'
<1> PICK w : w = scan.needle
  OBVIOUS
<1> DEFINE n == Smaller(ScanChunk, Hi - scan.at)
           hits == Hits(w, scan.at, n)
<1>1. /\ scan.state = "looking" /\ scan.at \in Nat /\ Lo <= scan.at
      /\ w \in Seq(Byte) /\ Len(w) \in 1..ScanChunk
      /\ \A a \in Lo..(scan.at - 1) : ~IsAt(w, a)
  BY DEF ScanIInv, ScanType, FindChunk, Needle
<1>2. Lo \in Nat /\ Hi \in Nat /\ ScanChunk \in Nat \ {0}
  BY MemoryAssumption
<1>3. UNCHANGED image
  BY DEF FindChunk
<1>4. \A a : IsAt(w, a)' <=> IsAt(w, a)
  BY <1>3 DEF IsAt
<1>5. n \in Int /\ n <= ScanChunk /\ n <= Hi - scan.at /\ (n = ScanChunk \/ n = Hi - scan.at)
  BY <1>1, <1>2 DEF Smaller
<1>6. CASE scan.at >= Hi \/ IsTooShort(n)
  <2>1. scan' = [scan EXCEPT !.state = "absent"]
    BY <1>6 DEF FindChunk
  <2>2. \A a \in Addr : ~IsAt(w, a)
    <3> SUFFICES ASSUME NEW a \in Addr, IsAt(w, a)
                 PROVE  FALSE
      OBVIOUS
    <3>0. Lo <= a /\ a + Len(w) <= Hi /\ a \in Int
      BY <1>2 DEF Addr, IsAt
    <3>1. Hi - scan.at >= Len(w)
      <4>1. ~(a \in Lo..(scan.at - 1))
        BY <1>1
      <4>2. scan.at <= a
        BY <4>1, <3>0, <1>1, <1>2
      <4> QED BY <4>2, <3>0, <1>1, <1>2
    <3>2. ~(scan.at >= Hi)
      BY <1>1, <1>2, <3>1
    <3>3. n < Len(w)
      BY <1>6, <3>2 DEF IsTooShort
    <3> QED BY <3>1, <3>3, <1>1, <1>2, <1>5
  <2>3. scan'.state = "absent" /\ scan'.needle = w /\ ScanType'
    BY <2>1, <1>1 DEF ScanIInv, ScanType
  <2> QED BY <2>2, <2>3, <1>1, <1>2, <1>4 DEF ScanIInv, FindsFirst, Needle, Addr
<1>7. CASE ~(scan.at >= Hi \/ IsTooShort(n)) /\ hits # {}
  <2>1. scan' = [scan EXCEPT !.state = "found", !.at = First(hits)]
    BY <1>7 DEF FindChunk
  <2>2. hits \in SUBSET Nat
    BY <1>1, <1>5 DEF Hits
  <2>3. First(hits) \in hits /\ \A b \in hits : First(hits) <= b
    BY <2>2, <1>7, FirstIsFirst
  <2>4. First(hits) \in Nat /\ scan.at <= First(hits)
        /\ First(hits) <= scan.at + n - Len(w) /\ IsAt(w, First(hits))
    BY <2>2, <2>3, <1>1, <1>5 DEF Hits
  <2>5. \A a \in Lo..(First(hits) - 1) : ~IsAt(w, a)
    <3> SUFFICES ASSUME NEW a \in Lo..(First(hits) - 1), IsAt(w, a), scan.at <= a
                 PROVE  FALSE
      BY <1>1, <1>2, <2>4
    <3>1. a \in scan.at..(scan.at + n - Len(w)) /\ a < First(hits)
      BY <2>4, <1>1, <1>2, <1>5
    <3>2. a \in hits
      BY <3>1 DEF Hits
    <3> QED BY <3>1, <3>2, <2>3, <2>4, <1>1
  <2>6. scan'.state = "found" /\ scan'.needle = w /\ scan'.at = First(hits) /\ ScanType'
    BY <2>1, <2>4, <1>1 DEF ScanIInv, ScanType
  <2> HIDE DEF hits
  <2>7. FindsFirst'
    BY <2>4, <2>5, <2>6, <1>2, <1>4 DEF FindsFirst
  <2>8. w \in Needle
    BY <1>1 DEF Needle
  <2> QED BY ONLY <2>6, <2>7, <2>8 DEF ScanIInv
<1>8. CASE ~(scan.at >= Hi \/ IsTooShort(n)) /\ hits = {}
  <2>1. PICK next : next = scan.at + (n - (Len(w) - 1))
    OBVIOUS
  <2>2. scan' = [scan EXCEPT !.at = next]
    BY <1>8, <2>1 DEF FindChunk, Advance
  <2>3. Len(w) <= n
    BY <1>8, <1>5, <1>1 DEF IsTooShort
  <2>4. next \in Nat /\ next > scan.at
    BY <2>1, <2>3, <1>1, <1>5
  <2>5. \A a \in Lo..(next - 1) : ~IsAt(w, a)
    <3> SUFFICES ASSUME NEW a \in Lo..(next - 1), IsAt(w, a), scan.at <= a
                 PROVE  FALSE
      BY <1>1, <1>2, <2>4
    <3>1. a \in scan.at..(scan.at + n - Len(w))
      <4> HIDE DEF n, hits
      <4>1. a \in Int /\ a <= next - 1
        BY ONLY a \in Lo..(next - 1), <1>2, <2>4
      <4>2. Len(w) \in Int
        BY ONLY <1>1
      <4> QED BY ONLY <4>1, <4>2, <2>1, <1>1, <1>5, scan.at <= a
    <3> QED BY <3>1, <1>8 DEF Hits
  <2>6. scan'.state = "looking" /\ scan'.needle = w /\ ScanType' /\ scan'.at = next
    BY <2>2, <2>4, <1>1 DEF ScanIInv, ScanType
  <2>7. FindsFirst' /\ w \in Needle
    BY <2>6, <1>1 DEF FindsFirst, Needle
  <2>8. Lo <= scan'.at
    BY ONLY <1>1, <1>2, <2>4, <2>6
  <2>9. \A a \in Lo..(scan'.at - 1) : ~IsAt(scan.needle, a)'
    <3>1. \A a \in Lo..(next - 1) : ~IsAt(w, a)'
      BY ONLY <2>5, <1>4
    <3> QED BY ONLY <3>1, <2>6 DEF IsAt
  <2> QED BY ONLY <2>6, <2>7, <2>8, <2>9 DEF ScanIInv
<1> QED BY <1>6, <1>7, <1>8

\* The scan's part is about the scan and the image only.
LEMMA SameScan ==
  ASSUME ScanIInv, UNCHANGED <<image, scan>>
  PROVE  ScanIInv'
  BY DEF ScanIInv, ScanType, FindsFirst, IsAt, Needle

-----------------------------------------------------------------------------
(* read_cstr *)

NameType ==
  name \in [state : {"idle", "reading", "read"}, addr : Nat, out : Seq(Byte),
            chunk : Nat \ {0}]

\* What was read is what is there, and none of it is an end.
NameIInv ==
  /\ NameType
  /\ Lo <= name.addr
  /\ name.state # "idle" =>
       /\ Len(name.out) <= NameMax
       /\ \A k \in 1..Len(name.out) :
            ~EndsAt(k - 1) /\ name.out[k] = image[name.addr + k - 1]
  /\ StringIsWhole

\* A run of bytes has a first NUL, or none.
LEMMA UpToNulStops ==
  ASSUME NEW from \in Nat, NEW n \in Nat
  PROVE  LET k == UpToNul(from, n)
         IN /\ k \in 0..n
            /\ k = n \/ image[from + k] = Nul
            /\ \A j \in 0..(k - 1) : image[from + j] # Nul
<1> DEFINE stops == {k \in 0..n : k = n \/ image[from + k] = Nul}
<1>1. n \in stops /\ stops \in SUBSET Nat
  OBVIOUS
<1>2. PICK k \in stops : \A j \in stops : k <= j
  BY <1>1, LeastNatural
<1>3. \A j \in 0..(k - 1) : image[from + j] # Nul
  BY <1>1, <1>2
<1>4. k \in 0..n /\ (k = n \/ image[from + k] = Nul)
  BY <1>2
<1> QED BY <1>3, <1>4 DEF UpToNul

LEMMA BeginNameKeeps ==
  ASSUME NEW addr \in Nat, Lo <= addr, BeginName(addr)
  PROVE  NameIInv'
<1>1. name' = [state |-> "reading", addr |-> addr, out |-> <<>>, chunk |-> NameChunk]
  BY DEF BeginName
<1>2. name'.state = "reading" /\ name'.addr = addr /\ name'.out = <<>> /\ Len(name'.out) = 0
  BY <1>1
<1> QED BY <1>1, <1>2, MemoryAssumption DEF NameIInv, NameType, StringIsWhole

LEMMA SameName ==
  ASSUME NameIInv, UNCHANGED <<image, name>>
  PROVE  NameIInv'
  BY DEF NameIInv, NameType, StringIsWhole, EndsAt, IsMapped

\* A string no longer read has nothing to be true of.
LEMMA NoNameKeeps ==
  ASSUME name' = NoName
  PROVE  NameIInv'
<1>1. name'.state = "idle" /\ name'.addr = Lo /\ name'.out = <<>> /\ name'.chunk = NameChunk
  BY DEF NoName
<1> QED BY <1>1, MemoryAssumption DEF NameIInv, NameType, StringIsWhole, NoName

\* Every byte of a run that is mapped is.
LEMMA WithinMapped ==
  ASSUME NEW from \in Nat, NEW n \in Nat, IsMapped(from, n), NEW i \in 1..n
  PROVE  IsMapped(from + (i - 1), 1) /\ from + i - 1 \in Addr
  BY MemoryAssumption DEF IsMapped, Addr

\* A run of bytes put behind another.
LEMMA PutBehind ==
  ASSUME NEW out \in Seq(Byte), NEW more \in Seq(Byte),
         NEW whole, whole = out \o more
  PROVE  /\ whole \in Seq(Byte) /\ Len(whole) = Len(out) + Len(more)
         /\ \A j \in 1..Len(out) : whole[j] = out[j]
         /\ \A j \in 1..Len(more) : whole[Len(out) + j] = more[j]
<1>1. /\ out \o more \in Seq(Byte) /\ Len(out \o more) = Len(out) + Len(more)
      /\ \A i \in 1..(Len(out) + Len(more)) :
           (out \o more)[i] = IF i <= Len(out) THEN out[i] ELSE more[i - Len(out)]
  BY ConcatProperties
<1>2. Len(out) \in Nat /\ Len(more) \in Nat
  BY LenProperties
<1>3. ASSUME NEW j \in 1..Len(more) PROVE (out \o more)[Len(out) + j] = more[j]
  <2>1. /\ Len(out) + j \in 1..(Len(out) + Len(more)) /\ ~(Len(out) + j <= Len(out))
        /\ (Len(out) + j) - Len(out) = j
    BY <1>2
  <2> QED BY <2>1, <1>1
<1> QED BY <1>1, <1>2, <1>3

\* A piece is read: its bytes up to a NUL are none of them ends, as the piece
\* is mapped and the most asked for not reached.
LEMMA AfterPieceKeeps ==
  ASSUME NameIInv, name.state = "reading", UNCHANGED image,
         NEW from, from = name.addr + Len(name.out),
         NEW want \in Nat \ {0}, want <= NameMax - Len(name.out),
         IsMapped(from, want), image \in [Addr -> Byte],
         name' = AfterPiece(from, want)
  PROVE  NameIInv'
<1> PICK out, addr, more, k :
      /\ out = name.out /\ addr = name.addr /\ k = UpToNul(from, want)
      /\ more = Bytes(from, k)
  OBVIOUS
<1>1. out \in Seq(Byte) /\ addr \in Nat /\ Lo <= addr /\ from = addr + Len(out) /\ from \in Nat
  BY DEF NameIInv, NameType
<1>2. Lo \in Nat /\ Hi \in Nat /\ NameMax \in Nat
  BY MemoryAssumption
<1>3. k \in 0..want /\ (k = want \/ image[from + k] = Nul)
      /\ \A j \in 0..(k - 1) : image[from + j] # Nul
  BY <1>1, UpToNulStops
<1>4. more \in Seq(Byte) /\ Len(more) = k /\ \A j \in 1..k : more[j] = image[from + j - 1]
  <2>1. \A j \in 1..k : image[from + j - 1] \in Byte
    BY <1>1, <1>3, WithinMapped
  <2>2. k \in Nat /\ more = [j \in 1..k |-> image[from + j - 1]]
    BY <1>3 DEF Bytes
  <2>3. more \in [1..k -> Byte]
    BY <2>1, <2>2
  <2> QED BY <2>2, <2>3
<1>5. PICK whole : whole = out \o more
  OBVIOUS
<1>6. /\ whole \in Seq(Byte) /\ Len(whole) = Len(out) + k
      /\ \A j \in 1..Len(out) : whole[j] = out[j]
      /\ \A j \in 1..k : whole[Len(out) + j] = more[j]
  <2>1. out \in Seq(Byte) /\ more \in Seq(Byte) /\ whole = out \o more /\ Len(more) = k
    BY <1>1, <1>4, <1>5
  <2>2. /\ whole \in Seq(Byte) /\ Len(whole) = Len(out) + Len(more)
        /\ \A j \in 1..Len(out) : whole[j] = out[j]
        /\ \A j \in 1..Len(more) : whole[Len(out) + j] = more[j]
    <3>1. out \in Seq(Byte) /\ more \in Seq(Byte) /\ whole = out \o more
      BY <2>1
    <3> QED BY ONLY <3>1, PutBehind
  <2> QED BY <2>1, <2>2, Zenon
<1>7. /\ name'.addr = addr /\ name'.out = whole /\ name'.chunk = name.chunk
      /\ name'.state = IF k < want THEN "read" ELSE "reading"
      /\ NameType'
  BY <1>5, <1>6 DEF AfterPiece, NameIInv, NameType
<1>8. \A j \in 1..Len(out) :
        ~EndsAt(j - 1) /\ out[j] = image[addr + j - 1]
  BY DEF NameIInv
<1>9. \A j \in 1..Len(whole) :
        /\ j - 1 # NameMax /\ IsMapped(addr + (j - 1), 1)
        /\ image[addr + (j - 1)] # Nul /\ whole[j] = image[addr + (j - 1)]
  <2> SUFFICES ASSUME NEW j \in 1..Len(whole)
               PROVE  /\ j - 1 # NameMax /\ IsMapped(addr + (j - 1), 1)
                      /\ image[addr + (j - 1)] # Nul /\ whole[j] = image[addr + (j - 1)]
    OBVIOUS
  <2>1. CASE j \in 1..Len(out)
    <3>1. addr + (j - 1) = addr + j - 1
      BY <1>1
    <3>2. whole[j] = out[j] /\ ~EndsAt(j - 1) /\ out[j] = image[addr + j - 1]
      BY ONLY <2>1, <1>6, <1>8
    <3> QED BY <3>1, <3>2 DEF EndsAt
  <2>2. CASE j \notin 1..Len(out)
    <3> PICK i : i = j - Len(out)
      OBVIOUS
    <3>1. i \in 1..k /\ i - 1 \in 0..(k - 1) /\ j = Len(out) + i
      BY <2>2, <1>1, <1>3, <1>6
    <3>2. addr + (j - 1) = from + i - 1 /\ addr + (j - 1) = from + (i - 1)
      BY <3>1, <1>1
    <3>3. image[addr + (j - 1)] # Nul
      BY <3>1, <3>2, <1>3
    <3>5. whole[j] = image[addr + (j - 1)]
      <4>1. whole[Len(out) + i] = more[i] /\ more[i] = image[from + i - 1]
        BY <3>1, <1>4, <1>6
      <4> QED BY <4>1, <3>1, <3>2
    <3>6. i \in 1..want
      BY <3>1, <1>3
    <3>7. IsMapped(addr + (j - 1), 1)
      BY <3>2, <3>6, <1>1, WithinMapped
    <3>8. j - 1 # NameMax
      BY <3>1, <3>6, <1>1, <1>2
    <3> QED BY <3>3, <3>5, <3>7, <3>8
  <2> QED BY <2>1, <2>2
<1>10. \A j \in 1..Len(whole) :
        ~EndsAt(j - 1)' /\ whole[j] = image'[addr + j - 1]
  <2> SUFFICES ASSUME NEW j \in 1..Len(whole)
               PROVE  ~EndsAt(j - 1)' /\ whole[j] = image'[addr + j - 1]
    OBVIOUS
  <2>1. addr + (j - 1) = addr + j - 1
    BY <1>1
  <2> QED BY <2>1, <1>7, <1>9 DEF EndsAt, IsMapped
<1>11. k < want => EndsAt(Len(whole))'
  BY <1>1, <1>3, <1>6, <1>7 DEF EndsAt
<1>12. Len(whole) <= NameMax
  BY <1>1, <1>2, <1>3, <1>6
<1> QED
  BY <1>1, <1>7, <1>10, <1>11, <1>12 DEF NameIInv, StringIsWhole

LEMMA ReadPieceKeeps ==
  ASSUME NameIInv, image \in [Addr -> Byte], ReadPiece
  PROVE  NameIInv'
<1> PICK n, from, want :
      /\ n = Len(name.out) /\ from = name.addr + n
      /\ want = Smaller(name.chunk, NameMax - n)
  OBVIOUS
<1>1. /\ name.state = "reading" /\ UNCHANGED image
      /\ name.out \in Seq(Byte) /\ name.addr \in Nat /\ name.chunk \in Nat \ {0}
      /\ n \in Nat /\ n <= NameMax /\ NameMax \in Nat /\ Lo \in Nat /\ Lo <= name.addr
  BY MemoryAssumption DEF ReadPiece, NameIInv, NameType
<1>2. CASE n >= NameMax
  <2>1. name' = [name EXCEPT !.state = "read"]
    BY <1>2 DEF ReadPiece
  <2>2. EndsAt(n)
    BY <1>1, <1>2 DEF EndsAt
  <2> QED BY <2>1, <2>2, <1>1 DEF NameIInv, NameType, StringIsWhole, EndsAt, IsMapped
<1>3. CASE n < NameMax /\ ~IsMapped(from, want)
  <2>1. want \in Nat \ {0} /\ want <= NameMax - n
    BY <1>1, <1>3 DEF Smaller
  <2>2. name' = AfterUnmapped(want)
    BY <1>1, <1>3 DEF ReadPiece
  <2>3. CASE want = 1
    <3>1. name' = [name EXCEPT !.state = "read"]
      BY <2>2, <2>3 DEF AfterUnmapped
    <3>2. EndsAt(n)
      BY <1>3, <2>3 DEF EndsAt
    <3> QED BY <3>1, <3>2, <1>1 DEF NameIInv, NameType, StringIsWhole, EndsAt, IsMapped
  <2>4. CASE want # 1
    <3>1. PICK c \in Nat \ {0} : name' = [name EXCEPT !.chunk = c]
      <4>1. PICK c : c = IF want \div 4 = 0 THEN 1 ELSE want \div 4
        OBVIOUS
      <4>2. c \in Nat \ {0}
        BY <4>1, <2>1
      <4>3. name' = [name EXCEPT !.chunk = c]
        BY <4>1, <2>2, <2>4 DEF AfterUnmapped
      <4> QED BY <4>2, <4>3
    <3> QED BY <3>1, <1>1 DEF NameIInv, NameType, StringIsWhole, EndsAt, IsMapped
  <2> QED BY <2>3, <2>4
<1>4. CASE n < NameMax /\ IsMapped(from, want)
  <2>1. want \in Nat \ {0} /\ want <= NameMax - n
    BY <1>1, <1>4 DEF Smaller
  <2>2. name' = AfterPiece(from, want)
    BY <1>1, <1>4 DEF ReadPiece
  <2> QED BY <2>1, <2>2, <1>1, <1>4, AfterPieceKeeps
<1> QED BY <1>1, <1>2, <1>3, <1>4

-----------------------------------------------------------------------------
(* The invariant *)

\* A search is made while nothing was called yet, for one of the two ids; a
\* string is read in a hook.
WhoReads ==
  /\ image \in [Addr -> Byte]
  /\ scan.state # "idle" => at = "outside" /\ calls = 0 /\ scan.needle \in {Program, Probe}
  /\ name.state # "idle" => at = "hook"
  /\ calls \in Nat

\* While the build runs nothing went wrong, and nothing is left of an earlier
\* call; what stopped it is what call() raises.
CallIInv ==
  /\ at \in {"outside", "guest", "hook", "stopped"}
  /\ at \in {"guest", "hook"} =>
       wrong = None /\ pending = None /\ raised = None /\ fault = FALSE
  /\ at = "stopped" => wrong # None /\ CameTo = wrong
  /\ EndsAsItWent

\* The program's row: its first.
RowAt(p) == IsAt(Program, p) /\ \A a \in Lo..(p - 1) : ~IsAt(Program, a)
Row(p) == [app |-> image[p + Len(Program)], sys |-> image[p + Len(Program) + 1]]
Nowhere(needle) == \A a \in Addr : ~IsAt(needle, a)

GrantType ==
  grant \in [asked : Grant \cup {None}, answers : Seq([app : Byte, sys : Byte] \cup {None})]

\* A row has its room, and every answer given is what a search would now find.
GrantIInv ==
  /\ GrantType
  /\ scan.state # "idle" => grant.asked \in Grant
  /\ scan.state # "idle" /\ scan.needle = Probe => Nowhere(Program)
  /\ \A p \in Addr : RowAt(p) => IsMapped(p, RowSize)
  /\ Nowhere(Program) => \A p \in Addr : IsAt(Probe, p) => IsMapped(p, RowSize)
  /\ \A i \in DOMAIN grant.answers :
       \/ grant.answers[i] = None /\ Nowhere(Program) /\ Nowhere(Probe)
       \/ \E p \in Addr : RowAt(p) /\ grant.answers[i] = Row(p)

Invariant == WhoReads /\ ScanIInv /\ NameIInv /\ CallIInv /\ GrantIInv

\* Neither part is about anything but these.
LEMMA SameWho ==
  ASSUME WhoReads, UNCHANGED <<image, scan, name, at, calls>>
  PROVE  WhoReads'
  BY DEF WhoReads

LEMMA SameCall ==
  ASSUME CallIInv, UNCHANGED callVars
  PROVE  CallIInv'
  BY DEF CallIInv, callVars, CameTo, EndsAsItWent

LEMMA SameGrant ==
  ASSUME GrantIInv, UNCHANGED <<image, scan, grant>>
  PROVE  GrantIInv'
  BY DEF GrantIInv, GrantType, RowAt, Row, Nowhere, IsAt, IsMapped

LEMMA IdsAreNeedles ==
  Program \in Needle /\ Probe \in Needle /\ Len(Program) = Len(Probe)
  BY TableAssumption

LEMMA InitInvariant == Init => Invariant
<1> SUFFICES ASSUME Init PROVE Invariant
  OBVIOUS
<1>1. WhoReads
  BY TableAssumption DEF Init, WhoReads, NoScan, NoName
<1>2. ScanIInv
  BY MemoryAssumption DEF Init, NoScan, ScanIInv, ScanType, FindsFirst
<1>3. NameIInv
  <2>1. name.state = "idle" /\ name.addr = Lo /\ name.out = <<>> /\ name.chunk = NameChunk
    BY DEF Init, NoName
  <2> QED BY <2>1, MemoryAssumption DEF Init, NoName, NameIInv, NameType, StringIsWhole
<1>4. CallIInv
  BY DEF Init, CallIInv, EndsAsItWent
<1>5. GrantIInv
  <2>1. grant.asked = None /\ grant.answers = <<>> /\ GrantType /\ scan.state = "idle"
    BY DEF Init, NoGrant, NoScan, GrantType
  <2>2. \A a \in Addr : IsAt(Program, a) \/ IsAt(Probe, a) => IsMapped(a, RowSize)
    BY DEF Init
  <2> QED BY <2>1, <2>2 DEF GrantIInv, RowAt
<1> QED BY <1>1, <1>2, <1>3, <1>4, <1>5 DEF Invariant

-----------------------------------------------------------------------------
(* Steps about memory *)

\* A turn of the search leaves what it searches for.
LEMMA SearchKeepsGrant ==
  ASSUME GrantIInv, UNCHANGED <<image, grant>>, scan'.needle = scan.needle,
         scan.state # "idle"
  PROVE  GrantIInv'
<1>1. Nowhere(Program)' <=> Nowhere(Program)
  BY DEF Nowhere, IsAt
<1>2. Nowhere(Probe)' <=> Nowhere(Probe)
  BY DEF Nowhere, IsAt
<1>3. \A p : (RowAt(p)' <=> RowAt(p)) /\ (IsAt(Probe, p)' <=> IsAt(Probe, p)) /\ Row(p)' = Row(p)
  BY DEF RowAt, IsAt, Row
<1>4. GrantType'
  BY DEF GrantIInv, GrantType
<1> QED BY <1>1, <1>2, <1>3, <1>4 DEF GrantIInv

LEMMA MemoryKeeps ==
  ASSUME Invariant, Memory
  PROVE  Invariant'
<1>1. UNCHANGED callVars /\ UNCHANGED grant
  BY DEF Memory
<1>2. CallIInv'
  BY <1>1, SameCall DEF Invariant
<1>3. CASE FindChunk
  <2>1. ScanIInv' /\ NameIInv'
    BY <1>3, FindChunkKeeps, SameName DEF Invariant, FindChunk
  <2>2. scan.state = "looking" /\ scan'.needle = scan.needle
    BY <1>3 DEF FindChunk, Invariant, ScanIInv, ScanType
  <2>3. WhoReads'
    BY <2>2, <1>1, <1>3 DEF Invariant, WhoReads, FindChunk, callVars
  <2>4. GrantIInv'
    BY <2>2, <1>1, <1>3, SearchKeepsGrant DEF Invariant, FindChunk
  <2> QED BY <1>2, <2>1, <2>3, <2>4 DEF Invariant
<1>4. CASE ReadPiece
  <2>1. ScanIInv' /\ NameIInv' /\ GrantIInv'
    BY <1>1, <1>4, ReadPieceKeeps, SameScan, SameGrant DEF Invariant, ReadPiece, WhoReads
  <2>2. name.state = "reading"
    BY <1>4 DEF ReadPiece
  <2>3. WhoReads'
    BY <2>2, <1>1, <1>4 DEF Invariant, WhoReads, ReadPiece, callVars
  <2> QED BY <1>2, <2>1, <2>3 DEF Invariant
<1> QED BY <1>3, <1>4 DEF Memory

-----------------------------------------------------------------------------
(* A row of the heap table *)

LEMMA AskGrantKeeps ==
  ASSUME Invariant, AskGrant
  PROVE  Invariant'
<1>1. PICK asked \in Grant : BeginGrant(asked)
  BY DEF AskGrant
<1>2. /\ scan.state = "idle" /\ at = "outside" /\ calls = 0
      /\ UNCHANGED <<image, name, callVars>>
  BY DEF AskGrant, Between
<1>3. BeginFind(Program) /\ grant' = [grant EXCEPT !.asked = asked]
  BY <1>1 DEF BeginGrant
<1>4. scan'.needle = Program /\ scan'.state = "looking"
  BY <1>3 DEF BeginFind
<1>5. ScanIInv' /\ NameIInv' /\ CallIInv'
  BY <1>2, <1>3, IdsAreNeedles, BeginFindKeeps, SameName, SameCall DEF Invariant
<1>6. WhoReads'
  BY <1>2, <1>4 DEF Invariant, WhoReads, callVars
<1>7. GrantIInv'
  <2>1. Nowhere(Program)' <=> Nowhere(Program)
    BY <1>2 DEF Nowhere, IsAt
  <2>2. Nowhere(Probe)' <=> Nowhere(Probe)
    BY <1>2 DEF Nowhere, IsAt
  <2>3. \A p : (RowAt(p)' <=> RowAt(p)) /\ (IsAt(Probe, p)' <=> IsAt(Probe, p)) /\ Row(p)' = Row(p)
    BY <1>2 DEF RowAt, IsAt, Row
  <2>4. GrantType' /\ grant'.asked = asked /\ grant'.answers = grant.answers
    BY <1>3 DEF Invariant, GrantIInv, GrantType
  <2>5. Program # Probe
    BY TableAssumption
  <2> QED BY <1>4, <2>1, <2>2, <2>3, <2>4, <2>5 DEF Invariant, GrantIInv
<1> QED BY <1>5, <1>6, <1>7 DEF Invariant

\* None found: the stock row is looked for, and the program's is nowhere.
LEMMA NoOwnRowKeeps ==
  ASSUME Invariant, NoOwnRow
  PROVE  Invariant'
<1>1. /\ scan.state = "absent" /\ scan.needle = Program
      /\ BeginFind(Probe) /\ UNCHANGED <<image, name, callVars, grant>>
  BY DEF NoOwnRow
<1>2. Nowhere(Program)
  BY <1>1 DEF Invariant, ScanIInv, FindsFirst, Nowhere
<1>3. scan'.needle = Probe /\ scan'.state = "looking"
  BY <1>1 DEF BeginFind
<1>4. ScanIInv' /\ NameIInv' /\ CallIInv'
  BY <1>1, IdsAreNeedles, BeginFindKeeps, SameName, SameCall DEF Invariant
<1>5. WhoReads'
  BY <1>1, <1>3 DEF Invariant, WhoReads, callVars
<1>6. GrantIInv'
  <2>1. Nowhere(Program)'
    BY <1>1, <1>2 DEF Nowhere, IsAt
  <2>2. Nowhere(Probe)' <=> Nowhere(Probe)
    BY <1>1 DEF Nowhere, IsAt
  <2>3. \A p : (RowAt(p)' <=> RowAt(p)) /\ (IsAt(Probe, p)' <=> IsAt(Probe, p)) /\ Row(p)' = Row(p)
    BY <1>1 DEF RowAt, IsAt, Row
  <2>4. GrantType'
    BY <1>1 DEF Invariant, GrantIInv, GrantType
  <2> QED BY <1>1, <1>2, <2>1, <2>2, <2>3, <2>4 DEF Invariant, GrantIInv
<1> QED BY <1>4, <1>5, <1>6 DEF Invariant

\* A search ends, whatever the image is then: no string is being read.
LEMMA SearchEnds ==
  ASSUME Invariant, scan' = NoScan, scan.state # "idle", image' \in [Addr -> Byte],
         UNCHANGED <<name, callVars>>
  PROVE  WhoReads' /\ ScanIInv' /\ NameIInv' /\ CallIInv'
<1>1. ScanIInv'
  BY MemoryAssumption DEF NoScan, ScanIInv, ScanType, FindsFirst
<1>2. name.state = "idle" /\ WhoReads'
  BY DEF Invariant, WhoReads, NoScan, callVars
<1>3. NameIInv'
  BY <1>2 DEF Invariant, NameIInv, NameType, StringIsWhole
<1> QED BY <1>1, <1>2, <1>3, SameCall DEF Invariant

\* What is appended to the answers is the last of them.
LEMMA AnswerIsAppended ==
  ASSUME Invariant, NEW answer \in [app : Byte, sys : Byte] \cup {None}, AnswerGrant(answer)
  PROVE  /\ GrantType' /\ scan' = NoScan
         /\ \A i \in DOMAIN grant'.answers :
              \/ i \in DOMAIN grant.answers /\ grant'.answers[i] = grant.answers[i]
              \/ grant'.answers[i] = answer
<1> DEFINE A == [app : Byte, sys : Byte] \cup {None}
<1> PICK old : old = grant.answers
  OBVIOUS
<1>1. grant' = [asked |-> None, answers |-> Append(old, answer)] /\ scan' = NoScan
  BY DEF AnswerGrant
<1>2. old \in Seq(A)
  BY DEF Invariant, GrantIInv, GrantType
<1>3. /\ Append(old, answer) \in Seq(A) /\ Len(Append(old, answer)) = Len(old) + 1
      /\ \A i \in 1..Len(old) : Append(old, answer)[i] = old[i]
      /\ Append(old, answer)[Len(old) + 1] = answer
  BY <1>2, AppendProperties
<1>4. \A i \in 1..(Len(old) + 1) : i \in 1..Len(old) \/ i = Len(old) + 1
  BY <1>2
<1>5. DOMAIN Append(old, answer) = 1..(Len(old) + 1) /\ DOMAIN old = 1..Len(old)
  BY <1>2, <1>3, LenProperties
<1> HIDE DEF A
<1>6. GrantType'
  BY <1>1, <1>3 DEF GrantType, A
<1> QED BY <1>1, <1>3, <1>4, <1>5, <1>6

\* Answers that agree with the image as it was agree with it still.
LEMMA RowsKeepGrant ==
  ASSUME GrantIInv, UNCHANGED image, GrantType', scan'.state = "idle",
         \A i \in DOMAIN grant'.answers :
           \/ grant'.answers[i] = None /\ Nowhere(Program) /\ Nowhere(Probe)
           \/ \E q \in Addr : RowAt(q) /\ grant'.answers[i] = Row(q)
  PROVE  GrantIInv'
<1>1. ASSUME NEW i \in DOMAIN grant'.answers
      PROVE  \/ grant'.answers[i] = None /\ Nowhere(Program)' /\ Nowhere(Probe)'
             \/ \E q \in Addr : RowAt(q)' /\ grant'.answers[i] = Row(q)'
  BY <1>1 DEF RowAt, Row, Nowhere, IsAt
<1>2. /\ \A p \in Addr : RowAt(p)' => IsMapped(p, RowSize)
      /\ Nowhere(Program)' => \A p \in Addr : IsAt(Probe, p)' => IsMapped(p, RowSize)
  BY DEF GrantIInv, RowAt, Nowhere, IsAt
<1> QED BY <1>1, <1>2 DEF GrantIInv, IsMapped

\* The answer is the program's row, as found.
LEMMA OwnRowKeeps ==
  ASSUME Invariant, OwnRow
  PROVE  Invariant'
<1> PICK p : p = scan.at
  OBVIOUS
<1>1. /\ scan.state = "found" /\ scan.needle = Program
      /\ AnswerGrant(Row(p)) /\ UNCHANGED <<image, name, callVars>>
  BY DEF OwnRow, Row
<1>2. p \in Nat /\ RowAt(p)
  BY <1>1 DEF Invariant, ScanIInv, ScanType, FindsFirst, RowAt
<1>3. Len(Program) \in Nat /\ Len(Program) >= 1 /\ Lo \in Nat /\ Hi \in Nat
  BY IdsAreNeedles, MemoryAssumption DEF Needle
<1>4. p \in Addr
  BY <1>2, <1>3 DEF RowAt, IsAt, Addr
<1>5. IsMapped(p, RowSize)
  BY <1>2, <1>4 DEF Invariant, GrantIInv
<1>6. p + Len(Program) \in Addr /\ p + Len(Program) + 1 \in Addr
  BY <1>2, <1>3, <1>5 DEF IsMapped, RowSize, Addr
<1>7. Row(p) \in [app : Byte, sys : Byte]
  BY <1>6 DEF Row, Invariant, WhoReads
<1>8. image' \in [Addr -> Byte]
  BY <1>1 DEF Invariant, WhoReads
<1>9. WhoReads' /\ ScanIInv' /\ NameIInv' /\ CallIInv'
  BY <1>1, <1>8, SearchEnds DEF AnswerGrant
<1>10. GrantIInv'
  <2>1. /\ GrantType' /\ scan' = NoScan
        /\ \A i \in DOMAIN grant'.answers :
             \/ i \in DOMAIN grant.answers /\ grant'.answers[i] = grant.answers[i]
             \/ grant'.answers[i] = Row(p)
    BY <1>1, <1>7, AnswerIsAppended
  <2>2. scan'.state = "idle"
    BY <2>1 DEF NoScan
  <2>3. \A i \in DOMAIN grant'.answers :
          \/ grant'.answers[i] = None /\ Nowhere(Program) /\ Nowhere(Probe)
          \/ \E q \in Addr : RowAt(q) /\ grant'.answers[i] = Row(q)
    BY <1>2, <1>4, <2>1 DEF Invariant, GrantIInv
  <2> QED BY <1>1, <2>1, <2>2, <2>3, RowsKeepGrant DEF Invariant
<1> QED BY <1>9, <1>10 DEF Invariant

\* There is none, and no table to put one in.
LEMMA NoTableKeeps ==
  ASSUME Invariant, NoTable
  PROVE  Invariant'
<1>1. /\ scan.state = "absent" /\ scan.needle = Probe
      /\ AnswerGrant(None) /\ UNCHANGED <<image, name, callVars>>
  BY DEF NoTable
<1>2. Nowhere(Program) /\ Nowhere(Probe)
  BY <1>1 DEF Invariant, ScanIInv, FindsFirst, Nowhere, GrantIInv
<1>3. WhoReads' /\ ScanIInv' /\ NameIInv' /\ CallIInv'
  BY <1>1, SearchEnds DEF AnswerGrant, Invariant, WhoReads
<1>4. GrantIInv'
  <2>1. /\ GrantType' /\ scan' = NoScan
        /\ \A i \in DOMAIN grant'.answers :
             \/ i \in DOMAIN grant.answers /\ grant'.answers[i] = grant.answers[i]
             \/ grant'.answers[i] = None
    BY <1>1, AnswerIsAppended
  <2>2. scan'.state = "idle"
    BY <2>1 DEF NoScan
  <2>3. \A i \in DOMAIN grant'.answers :
          \/ grant'.answers[i] = None /\ Nowhere(Program) /\ Nowhere(Probe)
          \/ \E q \in Addr : RowAt(q) /\ grant'.answers[i] = Row(q)
    BY <1>2, <2>1 DEF Invariant, GrantIInv
  <2> QED BY <1>1, <2>1, <2>2, <2>3, RowsKeepGrant DEF Invariant
<1> QED BY <1>3, <1>4 DEF Invariant

\* The program's id put where nothing of it was is found there and not before:
\* not over bytes that stay, and not across its own beginning.
LEMMA PutIsFirst ==
  ASSUME Nowhere(Program), NEW p \in Nat, Lo <= p, p + Len(Program) <= Hi,
         NEW new, \A a \in Lo..(p - 1) : new[a] = image[a],
         \A k \in 1..Len(Program) : new[p + k - 1] = Program[k],
         NEW a \in Lo..(p - 1),
         \A k \in 1..Len(Program) : new[a + k - 1] = Program[k]
  PROVE  FALSE
<1> PICK n : n = Len(Program)
  OBVIOUS
<1>1. n \in Nat /\ n >= 1 /\ Lo \in Nat /\ Hi \in Nat /\ a \in Nat /\ Lo <= a /\ a < p
  BY IdsAreNeedles, MemoryAssumption DEF Needle
<1>2. CASE a + n <= p
  <2>1. \A k \in 1..n : image[a + k - 1] = Program[k]
    <3> SUFFICES ASSUME NEW k \in 1..n PROVE image[a + k - 1] = Program[k]
      OBVIOUS
    <3>1. a + k - 1 \in Lo..(p - 1)
      BY <1>1, <1>2
    <3> QED BY <3>1
  <2>2. a \in Addr /\ IsAt(Program, a)
    BY <2>1, <1>1, <1>2 DEF Addr, IsAt
  <2> QED BY <2>2 DEF Nowhere
<1>3. CASE ~(a + n <= p)
  <2> PICK k : k = a + n - p
    OBVIOUS
  <2>1. k \in 1..(n - 1)
    BY <1>1, <1>3
  <2>2. PICK j \in 1..k : Program[j] # Program[n - k + j]
    BY <2>1, TableAssumption
  <2>3. j \in 1..n /\ n - k + j \in 1..n /\ a + (n - k + j) - 1 = p + j - 1
    BY <2>1, <1>1
  <2>4. new[p + j - 1] = Program[j] /\ new[a + (n - k + j) - 1] = Program[n - k + j]
    BY <2>3
  <2> QED BY <2>2, <2>3, <2>4
<1> QED BY <1>2, <1>3

\* A row is written over the stock one: it is the program's own from now on,
\* and nothing was answered before.
LEMMA StockRowKeeps ==
  ASSUME Invariant, StockRow
  PROVE  Invariant'
<1> PICK p, n, asked, new :
      p = scan.at /\ n = Len(Program) /\ asked = grant.asked /\ new = image'
  OBVIOUS
<1>1. /\ scan.state = "found" /\ scan.needle = Probe
      /\ AnswerGrant(asked) /\ UNCHANGED <<name, callVars>>
  BY DEF StockRow
<1>2. /\ asked \in Grant /\ asked \in [app : Byte, sys : Byte] /\ asked # None
      /\ asked.app \in Byte /\ asked.sys \in Byte
  BY <1>1, TableAssumption, NoneAssumption DEF Invariant, GrantIInv
<1>3. n \in Nat /\ n >= 1 /\ Lo \in Nat /\ Hi \in Nat
  BY IdsAreNeedles, MemoryAssumption DEF Needle
<1>4. Nowhere(Program) /\ p \in Nat /\ IsAt(Probe, p)
  BY <1>1 DEF Invariant, GrantIInv, ScanIInv, ScanType, FindsFirst
<1>5. p \in Addr
  BY <1>3, <1>4, IdsAreNeedles DEF IsAt, Addr
<1>6. Lo <= p /\ p + n + 2 <= Hi
  BY <1>4, <1>5, <1>3 DEF Invariant, GrantIInv, IsMapped, RowSize
<1>7. new = [a \in Addr |->
        IF a \in p..(p + n - 1) THEN Program[a - p + 1]
        ELSE IF a = p + n THEN asked.app
        ELSE IF a = p + n + 1 THEN asked.sys
        ELSE image[a]]
  BY DEF StockRow
<1>8. \A k \in 1..n : new[p + k - 1] = Program[k]
  <2> SUFFICES ASSUME NEW k \in 1..n PROVE new[p + k - 1] = Program[k]
    OBVIOUS
  <2>1. p + k - 1 \in Addr /\ p + k - 1 \in p..(p + n - 1) /\ (p + k - 1) - p + 1 = k
    BY <1>3, <1>4, <1>6 DEF Addr
  <2> QED BY <2>1, <1>7
<1>9. new[p + n] = asked.app /\ new[p + n + 1] = asked.sys
  <2>1. /\ p + n \in Addr /\ p + n + 1 \in Addr /\ p + n + 1 # p + n
        /\ p + n \notin p..(p + n - 1) /\ p + n + 1 \notin p..(p + n - 1)
    BY <1>3, <1>4, <1>6 DEF Addr
  <2> QED BY <2>1, <1>7
<1>10. \A a \in Lo..(p - 1) : new[a] = image[a]
  <2> SUFFICES ASSUME NEW a \in Lo..(p - 1) PROVE new[a] = image[a]
    OBVIOUS
  <2>1. a \in Addr /\ a \notin p..(p + n - 1) /\ a # p + n /\ a # p + n + 1
    BY <1>3, <1>4, <1>6 DEF Addr
  <2> QED BY <2>1, <1>7
<1>11. new \in [Addr -> Byte]
  <2>1. ASSUME NEW a \in Addr, a \in p..(p + n - 1) PROVE Program[a - p + 1] \in Byte
    <3>1. a - p + 1 \in 1..Len(Program) /\ Program \in Seq(Byte)
      BY <2>1, <1>3, <1>4, IdsAreNeedles DEF Needle
    <3> QED BY <3>1, ElementOfSeq
  <2>2. \A a \in Addr : image[a] \in Byte
    BY DEF Invariant, WhoReads
  <2> QED BY <2>1, <2>2, <1>2, <1>7
<1>12. WhoReads' /\ ScanIInv' /\ NameIInv' /\ CallIInv'
  BY <1>1, <1>11, SearchEnds DEF AnswerGrant
<1>13. ASSUME NEW a \in Lo..(p - 1), \A k \in 1..n : new[a + k - 1] = Program[k]
       PROVE  FALSE
  <2>1. Nowhere(Program) /\ p \in Nat
    BY ONLY <1>4
  <2>2. Lo <= p /\ p + Len(Program) <= Hi
    <3>1. n = Len(Program) /\ n \in Nat /\ Hi \in Int
      BY <1>3
    <3> QED BY ONLY <2>1, <3>1, <1>6
  <2>3. \A b \in Lo..(p - 1) : new[b] = image[b]
    BY ONLY <1>10
  <2>4. \A k \in 1..Len(Program) : new[p + k - 1] = Program[k] /\ new[a + k - 1] = Program[k]
    BY <1>8, <1>13
  <2> QED BY ONLY <2>1, <2>2, <2>3, <2>4, <1>13, PutIsFirst
<1>14. RowAt(p)'
  <2>1. IsAt(Program, p)'
    BY <1>3, <1>4, <1>6, <1>8 DEF IsAt
  <2>2. \A a \in Lo..(p - 1) : ~IsAt(Program, a)'
    BY <1>13 DEF IsAt
  <2> QED BY <2>1, <2>2 DEF RowAt
<1>15. \A q \in Addr : RowAt(q)' => q = p
  <2> SUFFICES ASSUME NEW q \in Addr, RowAt(q)' PROVE q = p
    OBVIOUS
  <2>1. q \in Int /\ Lo <= q
    BY <1>3 DEF Addr
  <2>2. ~(q < p)
    BY <1>14, <2>1, <1>3, <1>4 DEF RowAt
  <2>3. ~(p < q)
    BY <1>14, <2>1, <1>3, <1>4, <1>6 DEF RowAt
  <2> QED BY <2>1, <2>2, <2>3, <1>4
<1>16. \A i \in DOMAIN grant.answers : FALSE
  BY <1>4, <1>5 DEF Invariant, GrantIInv, Nowhere, RowAt
<1>17. /\ GrantType' /\ scan'.state = "idle"
       /\ \A i \in DOMAIN grant'.answers : grant'.answers[i] = asked
  <2>1. /\ GrantType' /\ scan' = NoScan
        /\ \A i \in DOMAIN grant'.answers :
             \/ i \in DOMAIN grant.answers /\ grant'.answers[i] = grant.answers[i]
             \/ grant'.answers[i] = asked
    BY <1>1, <1>2, AnswerIsAppended
  <2> QED BY <2>1, <1>16 DEF NoScan
<1>18. Row(p)' = asked
  BY <1>2, <1>9 DEF Row
<1>19. GrantIInv'
  <2>1. \A q \in Addr : RowAt(q)' => IsMapped(q, RowSize)'
    BY <1>3, <1>4, <1>6, <1>15 DEF IsMapped, RowSize
  <2>2. ~Nowhere(Program)'
    BY <1>5, <1>14 DEF Nowhere, RowAt
  <2>3. \A i \in DOMAIN grant'.answers :
          RowAt(p)' /\ grant'.answers[i] = Row(p)'
    BY <1>14, <1>17, <1>18
  <2> QED BY <1>5, <1>17, <2>1, <2>2, <2>3 DEF GrantIInv
<1> QED BY <1>12, <1>19 DEF Invariant

-----------------------------------------------------------------------------
(* Calls *)

\* What says nothing of a search or a row leaves both as they were.
LEMMA NoSearch ==
  ASSUME Invariant, UNCHANGED <<image, scan, grant>>, scan.state = "idle" \/ UNCHANGED <<at, calls>>,
         calls' \in Nat, name'.state # "idle" => at' = "hook"
  PROVE  WhoReads' /\ ScanIInv' /\ GrantIInv'
  BY SameScan, SameGrant DEF Invariant, WhoReads

\* The build only runs with no search on.
LEMMA NotSearching ==
  ASSUME Invariant, at # "outside"
  PROVE  scan.state = "idle"
  BY DEF Invariant, WhoReads

LEMMA EnterKeeps ==
  ASSUME Invariant, Between, Enter, UNCHANGED <<memoryVars, grant>>
  PROVE  Invariant'
<1>1. at = "outside" /\ scan.state = "idle" /\ at' = "guest" /\ calls \in Nat /\ calls' = calls + 1
  BY DEF Between, Enter, Invariant, WhoReads
<1>2. UNCHANGED <<image, scan, name>>
  BY DEF memoryVars
<1>3. name.state = "idle"
  BY <1>1 DEF Invariant, WhoReads
<1>4. WhoReads' /\ ScanIInv' /\ GrantIInv'
  BY <1>1, <1>2, <1>3, NoSearch
<1>5. NameIInv'
  BY <1>2, SameName DEF Invariant
<1>6. CallIInv'
  BY <1>1 DEF Enter, CallIInv, EndsAsItWent
<1> QED BY <1>4, <1>5, <1>6 DEF Invariant

\* A step that no exception and no search is part of.
LEMMA QuietKeeps ==
  ASSUME Invariant, UNCHANGED <<memoryVars, callVars, grant>>
  PROVE  Invariant'
<1>1. UNCHANGED <<image, scan, name, at, calls>>
  BY DEF memoryVars, callVars
<1> QED BY <1>1, SameWho, SameScan, SameName, SameCall, SameGrant DEF Invariant

\* What goes wrong in a callback while nothing had: kept one way or the other,
\* it is what the call comes to.
LEMMA GoingWrongKeeps ==
  ASSUME Invariant, at \in {"guest", "hook"}, NEW e \in Wrongs, Fail(e) \/ Raise(e),
         UNCHANGED <<image, scan, grant>>, name' = name \/ name' = NoName,
         at = "guest" \/ name' = NoName
  PROVE  Invariant'
<1>1. wrong = None /\ pending = None /\ raised = None /\ fault = FALSE /\ calls \in Nat
  BY DEF Invariant, CallIInv, WhoReads
<1>2. at' = "stopped" /\ wrong' = e /\ UNCHANGED <<calls, fault, outcome>>
  BY DEF Fail, Raise, GoesWrong
<1>3. e # None
  BY NoneAssumption
<1>4. CameTo' = e
  BY <1>1, <1>2, <1>3 DEF Fail, Raise, CameTo
<1>5. CallIInv'
  BY <1>2, <1>3, <1>4 DEF CallIInv, EndsAsItWent
<1>6. name'.state = "idle"
  BY DEF NoName, Invariant, WhoReads
<1>7. WhoReads' /\ ScanIInv' /\ GrantIInv'
  BY <1>1, <1>2, <1>6, NotSearching, NoSearch
<1>8. NameIInv'
  BY SameName, NoNameKeeps DEF Invariant
<1> QED BY <1>5, <1>7, <1>8 DEF Invariant

\* A store: written and nothing noticed, an abort noticed because the address
\* is watched, or a fault that may be one.
LEMMA StoreKeeps ==
  ASSUME Invariant, Store
  PROVE  Invariant'
<1>1. at = "guest" /\ UNCHANGED <<image, scan, name, grant>> /\ UNCHANGED memoryVars
  BY DEF Store, memoryVars
<1>2. PICK addr \in StoredAt, isMagic \in BOOLEAN :
        IF addr \in Addr \ Protected THEN StoreWritten(addr, isMagic) ELSE Fault(addr, isMagic)
  BY DEF Store
<1>3. CASE addr \in Addr \ Protected /\ ~(isMagic /\ addr = layout.magic)
  <2>1. UNCHANGED callVars
    BY <1>2, <1>3 DEF StoreWritten
  <2> QED BY <1>1, <2>1, QuietKeeps
<1>4. CASE addr \in Addr \ Protected /\ isMagic /\ addr = layout.magic
  <2>1. Fail("GuestAbort")
    BY <1>2, <1>4 DEF StoreWritten, Watched
  <2> QED BY <1>1, <2>1, GoingWrongKeeps DEF Wrongs
<1>5. CASE addr \notin Addr \ Protected
  <2>1. wrong = None /\ pending = None /\ raised = None /\ calls \in Nat /\ name.state = "idle"
    BY <1>1 DEF Invariant, CallIInv, WhoReads
  <2>2. Fault(addr, isMagic)
    BY <1>2, <1>5
  <2>3. at' = "stopped" /\ fault' = TRUE /\ UNCHANGED <<calls, outcome>>
    BY <2>2 DEF Fault
  <2>4. wrong' # None /\ CameTo' = wrong'
    BY <2>1, <2>2, NoneAssumption DEF Fault, CameTo, Wrongs
  <2>5. CallIInv'
    BY <2>3, <2>4 DEF CallIInv, EndsAsItWent
  <2>6. WhoReads' /\ ScanIInv' /\ GrantIInv'
    BY <1>1, <2>1, <2>3, NotSearching, NoSearch
  <2> QED BY <1>1, <2>5, <2>6, SameName DEF Invariant
<1> QED BY <1>3, <1>4, <1>5

\* A call that leaves: stopped, it comes to what went wrong; not, to an answer.
LEMMA LeaveKeeps ==
  ASSUME Invariant, Leave
  PROVE  Invariant'
<1>1. /\ at \in {"stopped", "guest"} /\ at' = "outside" /\ outcome' = CameTo
      /\ UNCHANGED <<wrong, calls>> /\ UNCHANGED <<image, scan, name, grant>>
  BY DEF Leave, memoryVars
<1>2. CameTo = IF wrong = None THEN Answered ELSE wrong
  BY <1>1 DEF Invariant, CallIInv, CameTo
<1>3. CallIInv'
  BY <1>1, <1>2 DEF CallIInv, EndsAsItWent
<1>4. name.state = "idle" /\ scan.state = "idle" /\ calls \in Nat
  BY <1>1, NotSearching DEF Invariant, WhoReads
<1>5. WhoReads' /\ ScanIInv' /\ GrantIInv'
  BY <1>1, <1>4, NoSearch
<1> QED BY <1>1, <1>3, <1>5, SameName DEF Invariant

\* A hook reads its string, and answers.
LEMMA HookKeeps ==
  ASSUME Invariant, EnterHook \/ HookAnswers
  PROVE  Invariant'
<1>1. /\ at \in {"guest", "hook"} /\ at' \in {"guest", "hook"}
      /\ UNCHANGED <<image, scan, grant>>
      /\ UNCHANGED <<fault, raised, pending, outcome, wrong, calls>>
  BY DEF EnterHook, HookAnswers
<1>2. scan.state = "idle" /\ calls \in Nat
  BY <1>1, NotSearching DEF Invariant, WhoReads
<1>3. CallIInv'
  BY <1>1 DEF Invariant, CallIInv, EndsAsItWent
<1>4. CASE EnterHook
  <2>1. PICK addr \in Lo..Hi : BeginName(addr)
    BY <1>4 DEF EnterHook
  <2>2. addr \in Nat /\ Lo <= addr
    BY MemoryAssumption
  <2>3. NameIInv'
    BY <2>1, <2>2, BeginNameKeeps
  <2>4. at' = "hook"
    BY <1>4 DEF EnterHook
  <2> QED BY <1>1, <1>2, <1>3, <2>3, <2>4, NoSearch DEF Invariant
<1>5. CASE HookAnswers
  <2>1. name' = NoName /\ name'.state = "idle"
    BY <1>5 DEF HookAnswers, NoName
  <2> QED BY <1>1, <1>2, <1>3, <2>1, NoNameKeeps, NoSearch DEF Invariant
<1> QED BY <1>4, <1>5

\* The buffer is had, or the heap has run out: no call is made.
LEMMA BeginReadKeeps ==
  ASSUME Invariant, BeginRead
  PROVE  Invariant'
<1>1. /\ at = "outside" /\ scan.state = "idle"
      /\ UNCHANGED <<image, scan, name, at, fault, raised, pending, wrong, calls, grant>>
      /\ outcome' = outcome \/ outcome' = "MemoryError"
  BY DEF BeginRead, MayCall, Between, memoryVars
<1>2. CallIInv'
  BY <1>1 DEF Invariant, CallIInv, EndsAsItWent, CameTo
<1> QED BY <1>1, <1>2, SameWho, SameScan, SameName, SameGrant DEF Invariant

-----------------------------------------------------------------------------
(* Every step *)

\* Another chunk of a read is asked of the build.
LEMMA ReadOnKeeps ==
  ASSUME Invariant, ReadOn
  PROVE  Invariant'
<1>1. UNCHANGED <<memoryVars, grant>> /\ Between
  BY DEF ReadOn
<1>2. Enter \/ UNCHANGED callVars
  BY DEF ReadOn
<1> QED BY <1>1, <1>2, EnterKeeps, QuietKeeps

LEMMA NextInvariant == Invariant /\ [Next]_vars => Invariant'
<1> SUFFICES ASSUME Invariant, [Next]_vars PROVE Invariant'
  OBVIOUS
<1>1. CASE Call
  BY <1>1, EnterKeeps DEF Call, MayCall
<1>2. CASE HookRaises
  <2>1. at = "hook" /\ name' = NoName /\ UNCHANGED <<image, scan, grant>>
    BY <1>2 DEF HookRaises
  <2>2. PICK e \in {"GuestAbort", "hook's own"} : Fail(e)
    BY <1>2 DEF HookRaises
  <2> QED BY <2>1, <2>2, GoingWrongKeeps DEF Wrongs
<1>3. CASE WatchRaises
  BY <1>3, GoingWrongKeeps DEF WatchRaises, Wrongs, memoryVars
<1>4. CASE Break
  BY <1>4, GoingWrongKeeps DEF Break, Wrongs, memoryVars
<1>5. CASE UnknownInterrupt
  BY <1>5, GoingWrongKeeps DEF UnknownInterrupt, Wrongs, memoryVars
<1>6. CASE StorageRead \/ ReadTaken
  BY <1>6, QuietKeeps DEF StorageRead, ReadTaken
<1>7. CASE UNCHANGED vars
  BY <1>7, QuietKeeps DEF vars
<1> QED BY <1>1, <1>2, <1>3, <1>4, <1>5, <1>6, <1>7, MemoryKeeps, AskGrantKeeps,
           OwnRowKeeps, NoOwnRowKeeps, StockRowKeeps, NoTableKeeps, HookKeeps,
           StoreKeeps, LeaveKeeps, BeginReadKeeps, ReadOnKeeps DEF Next

-----------------------------------------------------------------------------
(* Theorems *)

\* Who reads memory, what a search and a string hold, how a call stands and
\* what the rows say is so in every state.
THEOREM Invariance == Spec => []Invariant
<1>1. Init => Invariant
  BY InitInvariant
<1>2. Invariant /\ [Next]_vars => Invariant'
  BY NextInvariant
<1> QED BY <1>1, <1>2, PTL DEF Spec

\* find_bytes answers the first place the bytes are at, or that there is none,
\* for any mapping, chunk and needle (guest.py:338-361).
THEOREM BytesFoundFirst == Spec => []FindsFirst
<1>1. Invariant => FindsFirst
  BY DEF Invariant, ScanIInv
<1> QED BY <1>1, Invariance, PTL

\* read_cstr answers a string whole, wherever a chunk or a mapping ends
\* (guest.py:621-642).
THEOREM StringsWhole == Spec => []StringIsWhole
<1>1. Invariant => StringIsWhole
  BY DEF Invariant, NameIInv
<1> QED BY <1>1, Invariance, PTL

\* A call raises the first thing that went wrong in it, and else answers, for
\* any code and any magic address (guest.py:571-601).
THEOREM CallsEndAsTheyWent == Spec => []EndsAsItWent
<1>1. Invariant => EndsAsItWent
  BY DEF Invariant, CallIInv
<1> QED BY <1>1, Invariance, PTL

\* grant_dynamic_heap answers every time what it answered first, for any image
\* and any grants (bench.py:204-238).
THEOREM GrantsAgree == Spec => []AskedTwiceAnswersTheSame
<1>1. ASSUME Invariant PROVE AskedTwiceAnswersTheSame
  <2> SUFFICES ASSUME NEW i \in DOMAIN grant.answers, NEW j \in DOMAIN grant.answers
               PROVE  grant.answers[i] = grant.answers[j]
    BY DEF AskedTwiceAnswersTheSame
  <2>1. CASE Nowhere(Program)
    <3>1. \A p \in Addr : ~RowAt(p)
      BY <2>1 DEF Nowhere, RowAt
    <3> QED BY <1>1, <3>1 DEF Invariant, GrantIInv
  <2>2. CASE ~Nowhere(Program)
    <3>1. PICK p \in Addr : RowAt(p) /\ grant.answers[i] = Row(p)
      BY <1>1, <2>2 DEF Invariant, GrantIInv
    <3>2. PICK q \in Addr : RowAt(q) /\ grant.answers[j] = Row(q)
      BY <1>1, <2>2 DEF Invariant, GrantIInv
    <3>3. p = q
      BY <3>1, <3>2, MemoryAssumption DEF RowAt, Addr
    <3> QED BY <3>1, <3>2, <3>3
  <2> QED BY <2>1, <2>2
<1>2. Invariant => AskedTwiceAnswersTheSame
  BY <1>1
<1> QED BY <1>2, Invariance, PTL

-----------------------------------------------------------------------------
(* Words of the partition *)

\* A number is so many words and what is over,
LEMMA DivMod ==
  ASSUME NEW a \in Nat, NEW w \in Nat \ {0}
  PROVE  /\ a \div w \in Nat /\ a % w \in 0..(w - 1)
         /\ a = w * (a \div w) + (a % w)
  OBVIOUS

\* in one way only,
LEMMA OneRemainder ==
  ASSUME NEW w \in Nat \ {0}, NEW p \in Nat, NEW q \in Nat,
         NEW r \in 0..(w - 1), NEW s \in 0..(w - 1),
         w * p + r = w * q + s
  PROVE  r = s /\ p = q
<1>1. \A x, y \in Nat : x < y => w * x + w <= w * y
  <2> SUFFICES ASSUME NEW x \in Nat, NEW y \in Nat, x < y
               PROVE  w * x + w <= w * y
    OBVIOUS
  <2>1. PICK d \in Nat : y = x + 1 + d
    <3>1. y - x - 1 \in Nat /\ y = x + 1 + (y - x - 1)
      OBVIOUS
    <3> QED BY <3>1
  <2>2. w * y = w * x + w + w * d
    BY <2>1
  <2>3. w * d >= 0
    OBVIOUS
  <2> QED BY <2>2, <2>3
<1>2. ~(p < q)
  <2>1. p < q => w * p + w <= w * q
    BY <1>1
  <2> QED BY <2>1
<1>3. ~(q < p)
  <2>1. q < p => w * q + w <= w * p
    BY <1>1
  <2> QED BY <2>1
<1>4. p = q
  BY <1>2, <1>3
<1> QED BY <1>4

\* and so many words more leave the same over.
LEMMA WordOf ==
  ASSUME NEW w \in Nat \ {0}, NEW q \in Nat, NEW d \in Nat
  PROVE  /\ (w * q + d) % w = d % w
         /\ (w * q + d) - ((w * q + d) % w) = w * q + w * (d \div w)
<1> PICK o \in Nat : o = w * q + d
  <2>1. w * q \in Nat
    OBVIOUS
  <2> QED BY <2>1
<1>1. o = w * (o \div w) + (o % w) /\ o \div w \in Nat /\ o % w \in 0..(w - 1)
  BY DivMod
<1>2. d = w * (d \div w) + (d % w) /\ d \div w \in Nat /\ d % w \in 0..(w - 1)
  BY DivMod
<1> PICK p \in Nat : p = d \div w
  BY <1>2
<1>3. w * (q + p) = w * q + w * p
  OBVIOUS
<1>4. w * (o \div w) + (o % w) = w * (q + p) + (d % w)
  <2>1. d = w * p + (d % w)
    BY <1>2
  <2>2. d % w \in Int /\ w * q \in Int /\ w * p \in Int
    BY <1>2
  <2>3. o = w * q + (w * p + (d % w))
    BY ONLY <2>1, o = w * q + d
  <2>4. o = (w * q + w * p) + (d % w)
    BY ONLY <2>2, <2>3
  <2> QED BY ONLY <2>4, <1>1, <1>3
<1>5. o % w = d % w /\ o \div w = q + p
  <2>1. q + p \in Nat
    BY ONLY q \in Nat, p \in Nat
  <2> PICK a \in Nat : a = o \div w
    BY <1>1
  <2> PICK b \in 0..(w - 1) : b = o % w
    BY <1>1
  <2> PICK c \in 0..(w - 1) : c = d % w
    BY <1>2
  <2> PICK e \in Nat : e = q + p
    BY <2>1
  <2>2. w * a + b = w * e + c
    BY ONLY <1>4, a = o \div w, b = o % w, c = d % w, e = q + p
  <2>3. a = e /\ b = c
    BY ONLY <2>2, OneRemainder, w \in Nat \ {0}, a \in Nat, e \in Nat, b \in 0..(w - 1), c \in 0..(w - 1)
  <2> QED BY ONLY <2>3, a = o \div w, b = o % w, c = d % w, e = q + p
<1> QED BY <1>1, <1>2, <1>3, <1>5

\* n entries of a sequence, from the one after its b-th.
LEMMA PartOf ==
  ASSUME NEW V, NEW s \in Seq(V), NEW b \in Nat, NEW n \in Nat, b + n <= Len(s)
  PROVE  /\ SubSeq(s, b + 1, b + n) \in Seq(V) /\ Len(SubSeq(s, b + 1, b + n)) = n
         /\ \A i \in 1..n : SubSeq(s, b + 1, b + n)[i] = s[b + i]
<1>1. \A i \in (b + 1)..(b + n) : s[i] \in V
  OBVIOUS
<1> PICK sub : sub = SubSeq(s, b + 1, b + n)
  OBVIOUS
<1>2. /\ sub \in Seq(V) /\ Len(sub) = IF b + 1 <= b + n THEN (b + n) - (b + 1) + 1 ELSE 0
      /\ \A i \in 1..((b + n) - (b + 1) + 1) : sub[i] = s[(b + 1) + i - 1]
  <2>1. b + 1 \in Int /\ b + n \in Int
    OBVIOUS
  <2> QED BY ONLY <1>1, <2>1, sub = SubSeq(s, b + 1, b + n), SubSeqProperties
<1>3. (b + n) - (b + 1) + 1 = n
  OBVIOUS
<1>4. \A i \in 1..n : (b + 1) + i - 1 = b + i
  OBVIOUS
<1>5. Len(sub) = n
  BY ONLY <1>2, b \in Nat, n \in Nat
<1>6. \A i \in 1..n : sub[i] = s[b + i]
  BY ONLY <1>2, <1>3, <1>4
<1> QED BY <1>2, <1>5, <1>6

\* Whole words from the one first is at, which state their own offsets, are the
\* bytes of the partition from there.
LEMMA ContentIs ==
  ASSUME NEW offset \in Nat, NEW size \in Nat, HeaderSize <= offset, offset + size <= TablesAt
  PROVE  Content(offset, size) = [i \in 1..size |-> ImageByte(offset + i - 1)]
<1> PICK w \in Nat \ {0} : w = Word
  BY ReadAssumption
<1> PICK q \in Nat : q = offset \div w
  BY DivMod
<1> PICK r \in Nat : r = offset % w /\ offset = w * q + r
  <2>1. offset % w \in 0..(w - 1) /\ offset = w * q + (offset % w)
    BY DivMod
  <2>2. offset % w \in Nat
    BY ONLY <2>1, w \in Nat
  <2> QED BY <2>1, <2>2
<1> PICK first \in Nat : first = w * q
  <2>1. w * q \in Nat
    OBVIOUS
  <2> QED BY <2>1
<1>1. offset - r = first /\ offset = first + r
  OBVIOUS
<1> PICK words \in Nat : words = (offset + size - first + w - 1) \div w /\ w * words >= r + size
  <2> PICK x \in Nat : x = offset + size - first + w - 1
    BY <1>1
  <2>1. x = w * (x \div w) + (x % w) /\ x \div w \in Nat /\ x % w \in 0..(w - 1)
    BY DivMod
  <2>2. x = r + size + w - 1
    BY <1>1
  <2>3. w * (x \div w) \in Int
    BY <2>1
  <2>4. w * (x \div w) >= r + size
    BY ONLY <2>1, <2>2, <2>3, r \in Nat, size \in Nat, w \in Nat
  <2> QED BY <2>1, <2>4
<1> PICK n \in Nat : n = w * words
  <2>1. w * words \in Nat
    OBVIOUS
  <2> QED BY <2>1
<1> DEFINE At(i) == <<"word", first + w * ((i - 1) \div w), (i - 1) % w>>
<1> PICK raw : raw = [i \in 1..n |-> At(i)]
  OBVIOUS
<1>2. Content(offset, size) = SubSeq(raw, r + 1, r + size)
  <2>1. offset - (offset % w) = first
    BY <1>1
  <2>2. offset - first + 1 = r + 1 /\ offset - first + size = r + size
    BY ONLY <1>1, r \in Nat, first \in Nat, size \in Nat, offset \in Nat
  <2>3. Content(offset, size) = SubSeq([i \in 1..n |-> At(i)], offset - first + 1, offset - first + size)
    BY <2>1 DEF Content
  <2> QED BY <2>2, <2>3
<1>3. \A i \in 1..size : At(r + i) = ImageByte(offset + i - 1)
  <2> SUFFICES ASSUME NEW i \in 1..size
               PROVE  At(r + i) = ImageByte(offset + i - 1)
    OBVIOUS
  <2> PICK d \in Nat : d = r + i - 1
    OBVIOUS
  <2> PICK o \in Nat : o = offset + i - 1
    OBVIOUS
  <2>1. o = w * q + d
    <3> PICK m \in Nat : m = w * q
      BY first = w * q
    <3>1. offset = m + r
      BY m = w * q
    <3>2. o = m + d
      BY ONLY <3>1, o = offset + i - 1, d = r + i - 1, m \in Nat, r \in Nat, i \in 1..size
    <3> QED BY ONLY <3>2, m = w * q
  <2>2. o % w = d % w /\ o - (o % w) = w * q + w * (d \div w)
    BY ONLY <2>1, WordOf, w \in Nat \ {0}, q \in Nat, d \in Nat
  <2>3. HeaderSize <= o /\ o < TablesAt
    <3>1. HeaderSize \in Nat /\ TablesAt \in Nat
      BY ReadAssumption
    <3> QED
      BY ONLY <3>1, HeaderSize <= offset, offset + size <= TablesAt, o = offset + i - 1,
              i \in 1..size, offset \in Nat, size \in Nat
  <2>4. ImageByte(o) = <<"word", o - (o % w), o % w>>
    <3>1. HeaderSize \in Nat /\ TablesAt \in Nat
      BY ReadAssumption
    <3>2. ~(o < HeaderSize) /\ ~(o >= TablesAt)
      BY ONLY <2>3, <3>1, o \in Nat
    <3> QED BY <3>2 DEF ImageByte
  <2>5. At(r + i) = <<"word", first + w * (d \div w), d % w>>
    BY ONLY r + i - 1 = d
  <2> QED BY <2>2, <2>4, <2>5
<1>4. SubSeq(raw, r + 1, r + size) = [i \in 1..size |-> At(r + i)]
  <2> DEFINE V == {At(i) : i \in 1..n}
  <2>1. \A i \in 1..n : At(i) \in V
    OBVIOUS
  <2>2. r + size <= n
    OBVIOUS
  <2> HIDE DEF At, V
  <2>3. raw \in Seq(V) /\ Len(raw) = n /\ \A i \in 1..n : raw[i] = At(i)
    BY ONLY <2>1, n \in Nat, raw = [i \in 1..n |-> At(i)]
  <2> PICK sub : sub = SubSeq(raw, r + 1, r + size)
    OBVIOUS
  <2>4. sub \in Seq(V) /\ Len(sub) = size /\ \A i \in 1..size : sub[i] = raw[r + i]
    BY ONLY <2>2, <2>3, r \in Nat, size \in Nat, sub = SubSeq(raw, r + 1, r + size), PartOf
  <2>5. \A i \in 1..size : r + i \in 1..n
    BY ONLY <2>2, r \in Nat, size \in Nat, n \in Nat
  <2>6. \A i \in 1..size : sub[i] = At(r + i)
    BY ONLY <2>3, <2>4, <2>5
  <2>7. sub = [i \in 1..size |-> At(r + i)]
    BY ONLY <2>4, <2>6
  <2> QED BY <2>7
<1>5. [i \in 1..size |-> At(r + i)] = [i \in 1..size |-> ImageByte(offset + i - 1)]
  <2> HIDE DEF At
  <2> QED BY <1>3
<1> QED BY <1>2, <1>4, <1>5

-----------------------------------------------------------------------------
(* The image *)

\* The n bytes of the game's image from o.
Run(o, n) == [i \in 1..n |-> ImageByte(o + i - 1)]

ByteSet == {ImageByte(o) : o \in Nat} \cup {None}

\* A run has the bytes it says, and as many.
LEMMA RunType ==
  ASSUME NEW o \in Nat, NEW n \in Nat
  PROVE  /\ Run(o, n) \in Seq(ByteSet) /\ Len(Run(o, n)) = n
         /\ \A i \in 1..n : Run(o, n)[i] = ImageByte(o + i - 1)
<1>1. \A i \in 1..n : ImageByte(o + i - 1) \in ByteSet
  <2>1. \A i \in 1..n : o + i - 1 \in Nat
    OBVIOUS
  <2> QED BY <2>1 DEF ByteSet
<1> PICK run : run = Run(o, n)
  OBVIOUS
<1>2. run = [i \in 1..n |-> ImageByte(o + i - 1)]
  BY DEF Run
<1> QED BY <1>1, <1>2

\* A run and the one that follows it are a run.
LEMMA RunsJoin ==
  ASSUME NEW o \in Nat, NEW n \in Nat, NEW m \in Nat
  PROVE  Run(o, n) \o Run(o + n, m) = Run(o, n + m)
<1> PICK one : one = Run(o, n)
  OBVIOUS
<1> PICK two : two = Run(o + n, m)
  OBVIOUS
<1> PICK all : all = Run(o, n + m)
  OBVIOUS
<1>1. one \in Seq(ByteSet) /\ Len(one) = n /\ \A i \in 1..n : one[i] = ImageByte(o + i - 1)
  BY RunType
<1>2. two \in Seq(ByteSet) /\ Len(two) = m /\ \A i \in 1..m : two[i] = ImageByte(o + n + i - 1)
  BY o + n \in Nat, RunType
<1>3. all \in Seq(ByteSet) /\ Len(all) = n + m /\ \A i \in 1..(n + m) : all[i] = ImageByte(o + i - 1)
  BY n + m \in Nat, RunType
<1>4. /\ one \o two \in Seq(ByteSet) /\ Len(one \o two) = n + m
      /\ \A i \in 1..(n + m) : (one \o two)[i] = IF i <= n THEN one[i] ELSE two[i - n]
  BY ONLY <1>1, <1>2, ConcatProperties
<1>5. \A i \in 1..(n + m) : (one \o two)[i] = all[i]
  <2> SUFFICES ASSUME NEW i \in 1..(n + m) PROVE (one \o two)[i] = all[i]
    OBVIOUS
  <2>1. CASE i <= n
    <3>1. i \in 1..n
      BY <2>1
    <3>2. one[i] = all[i]
      BY <3>1, <1>1, <1>3
    <3> QED BY ONLY <2>1, <3>2, <1>4, i \in 1..(n + m)
  <2>2. CASE ~(i <= n)
    <3>1. i - n \in 1..m /\ o + n + (i - n) - 1 = o + i - 1
      BY <2>2
    <3>2. two[i - n] = ImageByte(o + n + (i - n) - 1)
      BY ONLY <3>1, <1>2
    <3>3. two[i - n] = all[i]
      BY ONLY <3>1, <3>2, <1>3, i \in 1..(n + m)
    <3> QED BY ONLY <2>2, <3>3, <1>4, i \in 1..(n + m)
  <2> QED BY <2>1, <2>2
<1>6. one \o two = all
  <2> PICK both : both = one \o two
    OBVIOUS
  <2>1. both \in Seq(ByteSet) /\ Len(both) = n + m /\ \A i \in 1..(n + m) : both[i] = all[i]
    BY <1>4, <1>5
  <2>2. Len(both) = Len(all) /\ \A i \in 1..Len(both) : both[i] = all[i]
    BY ONLY <2>1, <1>3
  <2>3. both = all
    BY ONLY <2>1, <2>2, <1>3, SeqEqual
  <2> QED BY <2>3
<1> QED BY <1>6

\* A turn of the image's loop gives the bytes from its offset, all that are
\* asked for or as many as its part has left.
LEMMA PieceIs ==
  ASSUME NEW o \in Nat, NEW size \in Nat \ {0}, o + size <= ImageSize
  PROVE  \E n \in 1..size :
           /\ Piece(o, size) = Run(o, n)
           /\ n = size \/ (o < HeaderSize /\ o + n = HeaderSize) \/ (o < TablesAt /\ o + n = TablesAt)
<1>1. /\ HeaderSize \in Nat /\ TablesAt \in Nat /\ ImageSize \in Nat
      /\ HeaderSize <= TablesAt /\ TablesAt < ImageSize
  BY ReadAssumption
<1>2. CASE o < HeaderSize
  <2> PICK n : n = Smaller(size, HeaderSize - o)
    OBVIOUS
  <2>1. n \in 1..size /\ (n = size \/ o + n = HeaderSize) /\ o + n <= HeaderSize
    BY <1>1, <1>2 DEF Smaller
  <2>2. Piece(o, size) = [i \in 1..n |-> <<"header", o + i - 1>>]
    BY <1>2 DEF Piece, Own
  <2>3. \A i \in 1..n : ImageByte(o + i - 1) = <<"header", o + i - 1>>
    <3> SUFFICES ASSUME NEW i \in 1..n PROVE o + i - 1 < HeaderSize
      BY DEF ImageByte
    <3> QED BY <1>1, <2>1
  <2>4. Piece(o, size) = Run(o, n)
    BY <2>2, <2>3 DEF Run
  <2> QED BY <2>1, <2>4, <1>2
<1>3. CASE o >= TablesAt
  <2>1. Smaller(size, ImageSize - o) = size
    BY <1>1 DEF Smaller
  <2>2. Piece(o, size) = [i \in 1..size |-> <<"tables", o - TablesAt + i - 1>>]
    <3>1. ~(o < HeaderSize)
      BY <1>1, <1>3
    <3> QED BY <1>3, <2>1, <3>1 DEF Piece, Own
  <2>3. \A i \in 1..size : ImageByte(o + i - 1) = <<"tables", o - TablesAt + i - 1>>
    <3> SUFFICES ASSUME NEW i \in 1..size
                 PROVE  ImageByte(o + i - 1) = <<"tables", o - TablesAt + i - 1>>
      OBVIOUS
    <3> PICK b \in Nat : b = o + i - 1
      OBVIOUS
    <3>1. ~(b < HeaderSize) /\ b >= TablesAt /\ b - TablesAt = o - TablesAt + i - 1
      BY <1>1, <1>3
    <3>2. ImageByte(b) = <<"tables", b - TablesAt>>
      BY <3>1 DEF ImageByte
    <3> QED BY ONLY <3>1, <3>2, b = o + i - 1
  <2>4. Piece(o, size) = Run(o, size)
    BY <2>2, <2>3 DEF Run
  <2> QED BY <2>4
<1>4. CASE ~(o < HeaderSize) /\ ~(o >= TablesAt)
  <2> PICK n : n = Smaller(size, TablesAt - o)
    OBVIOUS
  <2>1. n \in 1..size /\ (n = size \/ o + n = TablesAt) /\ o + n <= TablesAt
    BY <1>1, <1>4 DEF Smaller
  <2>2. Piece(o, size) = Content(o, n)
    BY <1>4 DEF Piece
  <2>3. n \in Nat /\ HeaderSize <= o /\ o < TablesAt
    BY <2>1, <1>1, <1>4
  <2>4. Content(o, n) = Run(o, n)
    BY <2>1, <2>3, ContentIs DEF Run
  <2> QED BY <2>1, <2>2, <2>3, <2>4
<1> QED BY <1>2, <1>3, <1>4

\* Three turns are enough for any read.
LEMMA ImageReadIs ==
  ASSUME NEW o \in Nat, NEW size \in Nat \ {0}, o + size <= ImageSize
  PROVE  ImageRead(o, size) = Run(o, size)
<1> PICK H \in Nat : H = HeaderSize
  BY ReadAssumption
<1> PICK T \in Nat : T = TablesAt
  BY ReadAssumption
<1> PICK E \in Nat : E = ImageSize
  BY ReadAssumption
<1>1. H <= T /\ T < E /\ o + size <= E
  BY ReadAssumption
<1> PICK n \in 1..size : /\ Piece(o, size) = Run(o, n)
                         /\ n = size \/ (o < H /\ o + n = H) \/ (o < T /\ o + n = T)
  BY PieceIs
<1> PICK one : one = Piece(o, size)
  OBVIOUS
<1>2. one = Run(o, n) /\ Len(one) = n /\ n \in Nat
  BY RunType
<1> PICK two : two = IF n < size /\ o + n < E THEN one \o Piece(o + n, size - n) ELSE one
  OBVIOUS
<1>3. ImageRead(o, size) = IF Len(two) < size /\ o + Len(two) < E
                           THEN two \o Piece(o + Len(two), size - Len(two)) ELSE two
  BY <1>2 DEF ImageRead
<1>4. CASE n = size
  <2>1. two = Run(o, size) /\ Len(two) = size
    BY <1>2, <1>4
  <2> QED BY ONLY <1>3, <2>1, size \in Nat
<1>5. CASE n < size
  <2> PICK p \in Nat : p = o + n
    BY <1>2
  <2> PICK left \in Nat \ {0} : left = size - n
    BY <1>5
  <2>1. p + left <= E /\ p < E
    BY <1>1
  <2> PICK m \in 1..left : /\ Piece(p, left) = Run(p, m)
                           /\ m = left \/ (p < H /\ p + m = H) \/ (p < T /\ p + m = T)
    BY <2>1, PieceIs
  <2>2. two = Run(o, n) \o Run(p, m)
    BY <1>2, <1>5, <2>1
  <2>3. m \in Nat /\ n + m \in Nat
    BY ONLY <1>2, m \in 1..left, left \in Nat \ {0}
  <2>4. two = Run(o, n + m) /\ Len(two) = n + m
    <3>1. Run(o, n) \o Run(o + n, m) = Run(o, n + m)
      <4>1. n \in Nat /\ m \in Nat
        BY <1>2, <2>3
      <4> QED BY ONLY <4>1, o \in Nat, RunsJoin
    <3>2. Len(Run(o, n + m)) = n + m
      BY ONLY <2>3, o \in Nat, RunType
    <3> QED BY ONLY <3>1, <3>2, <2>2, p = o + n
  <2>5. CASE m = left
    <3>1. n + m = size
      BY <2>5
    <3> QED BY ONLY <1>3, <2>4, <3>1, size \in Nat
  <2>6. CASE m # left
    <3> PICK q \in Nat : q = o + (n + m)
      BY <2>3
    <3> PICK last \in Nat \ {0} : last = size - (n + m)
      BY <2>6, <2>3
    <3>1. q = T /\ q + last <= E /\ q < E
      BY <2>6, <1>1, <1>5
    <3>2. Piece(q, last) = Run(q, last)
      <4> PICK k \in 1..last : /\ Piece(q, last) = Run(q, k)
                               /\ k = last \/ (q < H /\ q + k = H) \/ (q < T /\ q + k = T)
        BY ONLY <3>1, PieceIs, q \in Nat, last \in Nat \ {0}, H = HeaderSize, T = TablesAt, E = ImageSize
      <4>1. k = last
        BY <3>1, <1>1
      <4> QED BY <4>1
    <3>3. ImageRead(o, size) = Run(o, n + m) \o Run(o + (n + m), last)
      <4>1. n + m < size
        BY <2>3, last = size - (n + m)
      <4> QED BY ONLY <1>3, <2>4, <3>1, <3>2, <4>1, q = o + (n + m), last = size - (n + m)
    <3>4. Run(o, n + m) \o Run(o + (n + m), last) = Run(o, n + m + last)
      BY ONLY <2>3, o \in Nat, last \in Nat \ {0}, RunsJoin
    <3>5. n + m + last = size
      BY ONLY <2>3, last = size - (n + m), size \in Nat \ {0}
    <3> QED BY ONLY <3>3, <3>4, <3>5
  <2> QED BY <2>5, <2>6
<1> QED BY <1>4, <1>5

-----------------------------------------------------------------------------
(* ProducedRomfs.read *)

ReadType ==
  reading \in [state : {"idle", "fetched", "calling", "read"}, offset : Nat, size : Nat,
               out : Seq(ByteSet), n : Nat, filled : Nat, buf : Seq(ByteSet)]

\* What goes wrong is one of these.
WrongIInv == wrong \in Wrongs \cup {None}

\* What was taken, and what of the call under way was filled, is the image's;
\* a call asks for no more than the buffer holds, nor than is still wanted.
ReadIInv ==
  /\ ReadType
  /\ reading.state \in {"fetched", "calling"} =>
       /\ reading.size > 0 /\ reading.offset + reading.size <= ImageSize
       /\ Len(reading.buf) = Smaller(reading.size, ReadChunk)
       /\ reading.out = Run(reading.offset, Len(reading.out))
       /\ reading.filled <= reading.n /\ reading.n <= Len(reading.buf)
       /\ Len(reading.out) + reading.n <= reading.size
       /\ \A i \in 1..reading.filled :
            reading.buf[i] = ImageByte(reading.offset + Len(reading.out) + i - 1)
       /\ reading.state = "fetched" => reading.filled = reading.n
  /\ reading.state = "read" => reading.out = Run(reading.offset, reading.size)

\* The read is not about anything else.
LEMMA SameRead ==
  ASSUME ReadIInv, UNCHANGED reading
  PROVE  ReadIInv'
  BY DEF ReadIInv, ReadType

\* No read is under way.
LEMMA NoReadIs == NoRead \in [state : {"idle", "fetched", "calling", "read"}, offset : Nat,
                              size : Nat, out : Seq(ByteSet), n : Nat, filled : Nat, buf : Seq(ByteSet)]
<1>1. <<>> \in Seq(ByteSet)
  OBVIOUS
<1> QED BY <1>1 DEF NoRead

\* There is none after it was taken, or given up.
LEMMA NoReadKeeps ==
  ASSUME reading' = NoRead
  PROVE  ReadIInv'
<1>1. NoRead.state = "idle"
  BY DEF NoRead
<1> QED BY <1>1, NoReadIs DEF ReadIInv, ReadType

\* A read begins with nothing taken and nothing fetched.
LEMMA BeginReadOf ==
  ASSUME ReadIInv, BeginRead
  PROVE  ReadIInv'
<1> PICK r \in ReadAsked :
      \/ reading' = [NoRead EXCEPT !.state = "read"] /\ r.size = 0
      \/ UNCHANGED reading
      \/ /\ r.size # 0
         /\ reading' = [NoRead EXCEPT !.state = "fetched", !.offset = r.offset, !.size = r.size,
                          !.buf = [i \in 1..Smaller(r.size, ReadChunk) |-> None]]
  BY DEF BeginRead
<1>1. r.offset \in Nat /\ r.size \in Nat /\ r.offset + r.size <= ImageSize /\ ReadChunk \in Nat \ {0}
  BY ReadAssumption
<1>2. CASE reading' = [NoRead EXCEPT !.state = "read"]
  <2>1. ReadType'
    BY <1>2, NoReadIs DEF ReadType
  <2>2. reading'.state = "read" /\ reading'.out = <<>> /\ reading'.size = 0 /\ reading'.offset = 0
    BY <1>2 DEF NoRead
  <2>3. Run(0, 0) = <<>>
    BY DEF Run
  <2> QED BY <2>1, <2>2, <2>3 DEF ReadIInv
<1>3. CASE UNCHANGED reading
  BY <1>3, SameRead
<1>4. CASE /\ r.size # 0
           /\ reading' = [NoRead EXCEPT !.state = "fetched", !.offset = r.offset, !.size = r.size,
                            !.buf = [i \in 1..Smaller(r.size, ReadChunk) |-> None]]
  <2> PICK want \in Nat : want = Smaller(r.size, ReadChunk)
    BY <1>1 DEF Smaller
  <2> PICK buf : buf = [i \in 1..want |-> None]
    OBVIOUS
  <2>1. buf \in Seq(ByteSet) /\ Len(buf) = want
    <3>1. None \in ByteSet
      BY DEF ByteSet
    <3> QED BY <3>1
  <2>2. reading' = [state |-> "fetched", offset |-> r.offset, size |-> r.size, out |-> <<>>,
                    n |-> 0, filled |-> 0, buf |-> buf]
    BY <1>4 DEF NoRead
  <2>3. ReadType'
    <3>1. <<>> \in Seq(ByteSet)
      OBVIOUS
    <3> QED BY <2>1, <2>2, <3>1, <1>1 DEF ReadType
  <2>4. Run(r.offset, 0) = <<>> /\ Len(<<>>) = 0
    BY DEF Run
  <2>5. r.size > 0
    BY <1>1, <1>4
  <2> QED BY <2>1, <2>2, <2>3, <2>4, <2>5, <1>1 DEF ReadIInv
<1> QED BY <1>2, <1>3, <1>4

\* What a call fetched is the image's from where the read has come to.
LEMMA TakenIs ==
  ASSUME ReadIInv, reading.state = "fetched"
  PROVE  /\ Taken = Run(reading.offset, Len(reading.out) + reading.n)
         /\ Taken \in Seq(ByteSet) /\ Len(Taken) = Len(reading.out) + reading.n
<1> PICK o \in Nat : o = reading.offset
  BY DEF ReadIInv, ReadType
<1> PICK k \in Nat : k = Len(reading.out)
  BY DEF ReadIInv, ReadType
<1> PICK n \in Nat : n = reading.n
  BY DEF ReadIInv, ReadType
<1> PICK buf \in Seq(ByteSet) : buf = reading.buf
  BY DEF ReadIInv, ReadType
<1>1. /\ n <= Len(buf) /\ reading.out = Run(o, k)
      /\ \A i \in 1..n : buf[i] = ImageByte(o + k + i - 1)
  BY DEF ReadIInv, ReadType
<1> PICK sub : sub = SubSeq(buf, 1, n)
  OBVIOUS
<1>2. sub \in Seq(ByteSet) /\ Len(sub) = n /\ \A i \in 1..n : sub[i] = buf[i]
  <2>1. 0 + n <= Len(buf) /\ 0 + 1 = 1 /\ 0 + n = n /\ \A i \in 1..n : 0 + i = i
    BY <1>1
  <2>2. 0 \in Nat
    OBVIOUS
  <2>3. /\ SubSeq(buf, 0 + 1, 0 + n) \in Seq(ByteSet) /\ Len(SubSeq(buf, 0 + 1, 0 + n)) = n
        /\ \A i \in 1..n : SubSeq(buf, 0 + 1, 0 + n)[i] = buf[0 + i]
    BY ONLY <2>1, <2>2, n \in Nat, buf \in Seq(ByteSet), PartOf
  <2>4. sub = SubSeq(buf, 0 + 1, 0 + n)
    BY ONLY <2>1, sub = SubSeq(buf, 1, n)
  <2> QED BY ONLY <2>1, <2>3, <2>4
<1>3. o + k \in Nat /\ k + n \in Nat
  OBVIOUS
<1>4. sub = Run(o + k, n)
  <2> PICK run : run = Run(o + k, n)
    OBVIOUS
  <2>1. run \in Seq(ByteSet) /\ Len(run) = n /\ \A i \in 1..n : run[i] = ImageByte(o + k + i - 1)
    BY ONLY <1>3, run = Run(o + k, n), n \in Nat, RunType
  <2>2. Len(sub) = Len(run) /\ \A i \in 1..Len(sub) : sub[i] = run[i]
    BY ONLY <2>1, <1>1, <1>2
  <2>3. sub = run
    BY ONLY <2>1, <2>2, <1>2, SeqEqual
  <2> QED BY <2>3
<1>5. Taken = Run(o, k) \o Run(o + k, n)
  BY <1>1, <1>4 DEF Taken
<1>6. Taken = Run(o, k + n)
  BY ONLY <1>5, o \in Nat, k \in Nat, n \in Nat, RunsJoin
<1>7. Run(o, k + n) \in Seq(ByteSet) /\ Len(Run(o, k + n)) = k + n
  BY ONLY <1>3, o \in Nat, RunType
<1> QED BY <1>6, <1>7

\* Round the loop: what was fetched is taken, and no more asked than is wanted.
LEMMA ReadOnOf ==
  ASSUME ReadIInv, ReadOn
  PROVE  ReadIInv'
<1> PICK k : k = Len(reading.out) + reading.n
  OBVIOUS
<1>1. /\ reading.state = "fetched" /\ reading.size \in Nat /\ reading.offset \in Nat /\ k \in Nat
      /\ k <= reading.size /\ reading.size > 0 /\ reading.offset + reading.size <= ImageSize
      /\ Len(reading.buf) = Smaller(reading.size, ReadChunk) /\ ReadType
  BY DEF ReadIInv, ReadType, ReadOn
<1> PICK taken : taken = Taken
  OBVIOUS
<1>2. taken = Run(reading.offset, k) /\ taken \in Seq(ByteSet) /\ Len(taken) = k
  BY <1>1, TakenIs
<1>3. CASE k < reading.size
  <2> PICK n : n = Smaller(ReadChunk, reading.size - k)
    OBVIOUS
  <2>1. n \in Nat /\ n <= Smaller(reading.size, ReadChunk) /\ k + n <= reading.size
    BY <1>1, <1>3, ReadAssumption DEF Smaller
  <2>2. reading' = [reading EXCEPT !.state = "calling", !.out = taken, !.filled = 0, !.n = n]
    BY <1>2, <1>3 DEF ReadOn
  <2>3. /\ reading'.state = "calling" /\ reading'.out = taken /\ reading'.filled = 0 /\ reading'.n = n
        /\ reading'.size = reading.size /\ reading'.offset = reading.offset /\ reading'.buf = reading.buf
        /\ ReadType'
    BY <2>1, <2>2, <1>1, <1>2 DEF ReadType
  <2>4. /\ 0 <= n /\ n <= Len(reading.buf) /\ Len(taken) + n <= reading.size
        /\ taken = Run(reading.offset, Len(taken))
    BY <2>1, <1>1, <1>2
  <2> QED BY <2>3, <2>4, <1>1 DEF ReadIInv
<1>4. CASE ~(k < reading.size)
  <2>1. k = reading.size
    BY <1>1, <1>4
  <2>2. reading' = [reading EXCEPT !.state = "read", !.out = taken]
    BY <1>2, <1>4 DEF ReadOn
  <2>3. /\ reading'.state = "read" /\ reading'.out = taken
        /\ reading'.size = reading.size /\ reading'.offset = reading.offset
        /\ ReadType'
    BY <2>2, <1>1, <1>2 DEF ReadType
  <2> QED BY <2>1, <2>3, <1>2 DEF ReadIInv
<1> QED BY <1>3, <1>4

\* A piece the build fetches goes behind what it fetched in this call.
LEMMA StorageReadOf ==
  ASSUME ReadIInv, StorageRead
  PROVE  ReadIInv'
<1> PICK o \in Nat : o = reading.offset + Len(reading.out)
  BY DEF ReadIInv, ReadType
<1> PICK f \in Nat : f = reading.filled
  BY DEF ReadIInv, ReadType
<1> PICK buf \in Seq(ByteSet) : buf = reading.buf
  BY DEF ReadIInv, ReadType
<1>1. /\ reading.state = "calling" /\ reading.n \in Nat /\ reading.n <= Len(buf) /\ f <= reading.n
      /\ o + reading.n <= ImageSize /\ ReadType
      /\ \A i \in 1..f : buf[i] = ImageByte(o + i - 1)
  <2>1. reading.state = "calling"
    BY DEF StorageRead
  <2>2. /\ Len(reading.out) + reading.n <= reading.size /\ reading.offset + reading.size <= ImageSize
        /\ {reading.offset, reading.size, reading.n, Len(reading.out), ImageSize} \subseteq Nat
    BY <2>1, ReadAssumption DEF ReadIInv, ReadType
  <2>3. o + reading.n <= ImageSize
    BY <2>2
  <2> QED BY <2>1, <2>2, <2>3 DEF ReadIInv, ReadType
<1> PICK size \in 1..(reading.n - f) :
      LET chunk == ImageRead(reading.offset + Len(reading.out) + reading.filled, size)
      IN reading' = [reading EXCEPT
           !.buf = [i \in DOMAIN @ |->
                      IF i - reading.filled \in DOMAIN chunk THEN chunk[i - reading.filled] ELSE @[i]],
           !.filled = @ + size]
  BY DEF StorageRead
<1> PICK chunk : chunk = ImageRead(o + f, size)
  OBVIOUS
<1>2. chunk \in Seq(ByteSet) /\ Len(chunk) = size /\ \A i \in 1..size : chunk[i] = ImageByte(o + f + i - 1)
  <2>1. o + f \in Nat /\ size \in Nat \ {0} /\ size \in Nat /\ o + f + size <= ImageSize
    <3>1. o + reading.n <= ImageSize /\ reading.n \in Nat /\ ImageSize \in Nat
      BY <1>1, ReadAssumption
    <3> QED BY ONLY <3>1, o \in Nat, f \in Nat, size \in 1..(reading.n - f)
  <2>2. chunk = Run(o + f, size)
    BY ONLY <2>1, chunk = ImageRead(o + f, size), ImageReadIs
  <2> QED BY ONLY <2>1, <2>2, RunType
<1> PICK next : next = [i \in DOMAIN buf |-> IF i - f \in DOMAIN chunk THEN chunk[i - f] ELSE buf[i]]
  OBVIOUS
<1>3. reading' = [reading EXCEPT !.buf = next, !.filled = f + size]
  BY DEF ReadType
<1>4. size \in Nat /\ f + size \in Nat /\ f + size <= reading.n
  BY <1>1
<1>5. DOMAIN buf = 1..Len(buf) /\ Len(buf) \in Nat /\ DOMAIN chunk = 1..size
  BY <1>2
<1>6. next \in Seq(ByteSet) /\ Len(next) = Len(buf)
  <2>1. \A i \in 1..Len(buf) : (IF i - f \in 1..size THEN chunk[i - f] ELSE buf[i]) \in ByteSet
    BY <1>2, <1>5
  <2> QED BY ONLY <2>1, <1>5, next = [i \in DOMAIN buf |-> IF i - f \in DOMAIN chunk THEN chunk[i - f] ELSE buf[i]]
<1>7. \A i \in 1..(f + size) : next[i] = ImageByte(o + i - 1)
  <2> SUFFICES ASSUME NEW i \in 1..(f + size) PROVE next[i] = ImageByte(o + i - 1)
    OBVIOUS
  <2>1. i \in 1..Len(buf)
    BY <1>1, <1>4, <1>5
  <2>2. next[i] = IF i - f \in 1..size THEN chunk[i - f] ELSE buf[i]
    BY ONLY <2>1, <1>5, next = [j \in DOMAIN buf |-> IF j - f \in DOMAIN chunk THEN chunk[j - f] ELSE buf[j]]
  <2>3. CASE i <= f
    <3>1. i \in 1..f /\ ~(i - f \in 1..size)
      BY <2>3
    <3> QED BY ONLY <3>1, <2>2, <1>1
  <2>4. CASE ~(i <= f)
    <3>1. i - f \in 1..size /\ o + f + (i - f) - 1 = o + i - 1
      BY <2>4, <1>4
    <3> QED BY ONLY <3>1, <2>2, <1>2
  <2> QED BY <2>3, <2>4
<1>8. /\ reading'.state = "calling" /\ reading'.out = reading.out /\ reading'.n = reading.n
      /\ reading'.size = reading.size /\ reading'.offset = reading.offset
      /\ reading'.buf = next /\ reading'.filled = f + size /\ ReadType'
  BY <1>1, <1>3, <1>4, <1>6 DEF ReadType
<1>9. \A i \in 1..reading'.filled :
        reading'.buf[i] = ImageByte(reading'.offset + Len(reading'.out) + i - 1)
  BY ONLY <1>7, <1>8, o = reading.offset + Len(reading.out)
<1>10. /\ reading'.filled <= reading'.n /\ reading'.n <= Len(reading'.buf)
       /\ Len(reading'.buf) = Len(reading.buf)
  BY ONLY <1>1, <1>4, <1>6, <1>8, buf = reading.buf
<1>11. /\ reading.size > 0 /\ reading.offset + reading.size <= ImageSize
       /\ Len(reading.buf) = Smaller(reading.size, ReadChunk)
       /\ reading.out = Run(reading.offset, Len(reading.out))
       /\ Len(reading.out) + reading.n <= reading.size
  BY <1>1 DEF ReadIInv
<1> QED BY ONLY <1>8, <1>9, <1>10, <1>11 DEF ReadIInv

\* A call that answers filled what it was asked for; one that went wrong ends
\* the read.
LEMMA LeaveOf ==
  ASSUME Invariant, WrongIInv, ReadIInv, Leave
  PROVE  ReadIInv'
<1>1. CASE reading.state # "calling"
  BY <1>1, SameRead DEF Leave, AfterCall
<1>2. CASE reading.state = "calling" /\ CameTo # Answered
  BY <1>2, NoReadKeeps DEF Leave, AfterCall
<1>3. CASE reading.state = "calling" /\ CameTo = Answered
  <2>1. at # "stopped"
    <3>1. at = "stopped" => wrong # None /\ CameTo = wrong
      BY DEF Invariant, CallIInv
    <3> QED BY <3>1, <1>3 DEF WrongIInv, Wrongs, Answered
  <2>2. reading.filled = reading.n
    BY <2>1, <1>3 DEF Leave
  <2>3. reading' = [reading EXCEPT !.state = "fetched"]
    BY <1>3 DEF Leave, AfterCall
  <2>4. /\ reading'.state = "fetched" /\ reading'.out = reading.out /\ reading'.n = reading.n
        /\ reading'.size = reading.size /\ reading'.offset = reading.offset
        /\ reading'.buf = reading.buf /\ reading'.filled = reading.filled /\ ReadType'
    BY <2>3 DEF ReadIInv, ReadType
  <2> QED BY <2>2, <2>4, <1>3 DEF ReadIInv
<1> QED BY <1>1, <1>2, <1>3

\* Nothing else ever goes wrong,
LEMMA WrongKeeps ==
  ASSUME WrongIInv, [Next]_vars
  PROVE  WrongIInv'
<1>1. CASE HookRaises
  <2>1. PICK e \in {"GuestAbort", "hook's own"} : wrong' = e
    BY <1>1 DEF HookRaises, Fail, GoesWrong
  <2> QED BY <2>1 DEF WrongIInv, Wrongs
<1>2. CASE WatchRaises \/ Break \/ UnknownInterrupt
  BY <1>2 DEF WatchRaises, Break, UnknownInterrupt, Raise, GoesWrong, WrongIInv, Wrongs
<1>3. CASE Store
  <2>1. wrong' = wrong \/ wrong' \in {"GuestAbort", "UcError"}
    BY <1>3 DEF Store, StoreWritten, Fault, Fail, GoesWrong, callVars
  <2> QED BY <2>1 DEF WrongIInv, Wrongs
<1>4. CASE Call \/ ReadOn
  <2>1. wrong' = None \/ wrong' = wrong
    BY <1>4 DEF Call, ReadOn, Enter, callVars
  <2> QED BY <2>1 DEF WrongIInv
<1>5. CASE UNCHANGED wrong
  BY <1>5 DEF WrongIInv
<1>6. ASSUME AskGrant \/ OwnRow \/ NoOwnRow \/ StockRow \/ NoTable \/ Memory PROVE UNCHANGED wrong
  BY <1>6 DEF AskGrant, OwnRow, NoOwnRow, StockRow, NoTable, Memory, callVars
<1>7. ASSUME EnterHook \/ HookAnswers \/ Leave \/ BeginRead \/ StorageRead \/ ReadTaken \/ UNCHANGED vars
      PROVE  UNCHANGED wrong
  BY <1>7 DEF EnterHook, HookAnswers, Leave, BeginRead, StorageRead, ReadTaken, callVars, vars
<1> QED BY <1>1, <1>2, <1>3, <1>4, <1>5, <1>6, <1>7 DEF Next

\* and every step keeps a read what it is.
LEMMA ReadKeeps ==
  ASSUME Invariant, WrongIInv, ReadIInv, [Next]_vars
  PROVE  ReadIInv'
<1>1. CASE ReadTaken
  BY <1>1, NoReadKeeps DEF ReadTaken
<1>2. ASSUME AskGrant \/ OwnRow \/ NoOwnRow \/ StockRow \/ NoTable \/ Memory PROVE UNCHANGED reading
  BY <1>2 DEF AskGrant, OwnRow, NoOwnRow, StockRow, NoTable, Memory
<1>3. ASSUME Call \/ EnterHook \/ HookAnswers \/ HookRaises \/ WatchRaises PROVE UNCHANGED reading
  BY <1>3 DEF Call, EnterHook, HookAnswers, HookRaises, WatchRaises
<1>4. ASSUME Store \/ Break \/ UnknownInterrupt \/ UNCHANGED vars PROVE UNCHANGED reading
  BY <1>4 DEF Store, Break, UnknownInterrupt, vars
<1> QED BY <1>1, <1>2, <1>3, <1>4, SameRead, BeginReadOf, ReadOnOf, StorageReadOf, LeaveOf DEF Next

\* ProducedRomfs.read hands over the bytes at the offsets it was asked for and
\* as many, for any part sizes, words, chunks and pieces (bench.py:259-275,
\* romfs_pack.py:92-109).
THEOREM ReadsGiveTheBytes == Spec => []BytesAreWhereAsked
<1>1. Init => WrongIInv /\ ReadIInv
  <2>1. NoRead.state = "idle"
    BY DEF NoRead
  <2> QED BY <2>1, NoReadIs DEF Init, WrongIInv, ReadIInv, ReadType
<1>2. Invariant /\ WrongIInv /\ ReadIInv /\ [Next]_vars => WrongIInv' /\ ReadIInv'
  BY WrongKeeps, ReadKeeps
<1>3. ReadIInv => BytesAreWhereAsked
  BY DEF ReadIInv, Run, BytesAreWhereAsked
<1> QED BY <1>1, <1>2, <1>3, Invariance, PTL DEF Spec
=============================================================================
