---------------------------- MODULE GuestMemory ----------------------------
(***************************************************************************)
(* What is looked for in the guest's memory, and how: a run of bytes in    *)
(* the loaded image, a chunk at a time, and a string, in pieces that grow  *)
(* shorter when one would reach past what is mapped.                       *)
(***************************************************************************)
EXTENDS Integers, Sequences

CONSTANTS
  Lo, Hi,      \* load_lo and load_hi: the image is mapped from Lo to below Hi
  Byte, Nul,   \* what a byte can be, and the one that ends a string
  ScanChunk,   \* SCAN_CHUNK
  NameMax,     \* read_cstr's maxlen
  NameChunk    \* and its chunk

ASSUME MemoryAssumption ==
  /\ Lo \in Nat /\ Hi \in Nat /\ Lo <= Hi
  /\ Nul \in Byte
  /\ ScanChunk \in Nat \ {0}
  /\ NameMax \in Nat /\ NameChunk \in Nat \ {0}

VARIABLES
  image,  \* what the image holds
  scan,   \* find_bytes: the needle, where it reads next, and what it answers
  name    \* read_cstr: where from, what was read, the chunk now tried

memoryVars == <<image, scan, name>>

Addr == Lo..(Hi - 1)
IsMapped(from, n) == from \in Nat /\ Lo <= from /\ from + n <= Hi

\* Needles a chunk can hold.
Needle == {w \in Seq(Byte) : Len(w) \in 1..ScanChunk}

NoScan == [state |-> "idle", needle |-> <<>>, at |-> Lo]
NoName == [state |-> "idle", addr |-> Lo, out |-> <<>>, chunk |-> NameChunk]

Smaller(a, b) == IF a <= b THEN a ELSE b

-----------------------------------------------------------------------------
(* find_bytes *)

IsAt(needle, a) ==
  /\ Lo <= a /\ a + Len(needle) <= Hi
  /\ \A k \in 1..Len(needle) : image[a + k - 1] = needle[k]

\* Where the needle is within the n bytes from at.
Hits(needle, at, n) == {a \in at..(at + n - Len(needle)) : IsAt(needle, a)}

First(hits) == CHOOSE a \in hits : \A b \in hits : a <= b

BeginFind(needle) == scan' = [state |-> "looking", needle |-> needle, at |-> Lo]

\* Mutation: chunks that overlap by a byte less.
AdvanceShort(n) == n - (Len(scan.needle) - 2)

Advance(n) == n - (Len(scan.needle) - 1)

\* Mutation: what is left is read however short it is.
IsTooShortNever(n) == FALSE

IsTooShort(n) == n < Len(scan.needle)

FindChunk ==
  LET n == Smaller(ScanChunk, Hi - scan.at)
      hits == Hits(scan.needle, scan.at, n)
  IN /\ scan.state = "looking"
     /\ scan' = IF scan.at >= Hi \/ IsTooShort(n)
                THEN [scan EXCEPT !.state = "absent"]
                ELSE IF hits # {}
                THEN [scan EXCEPT !.state = "found", !.at = First(hits)]
                ELSE [scan EXCEPT !.at = @ + Advance(n)]
     /\ UNCHANGED <<image, name>>

-----------------------------------------------------------------------------
(* read_cstr *)

BeginName(addr) ==
  name' = [state |-> "reading", addr |-> addr, out |-> <<>>, chunk |-> NameChunk]

\* The first NUL of a run of bytes, or how far the run goes.
UpToNul(from, n) ==
  CHOOSE k \in 0..n :
    /\ k = n \/ image[from + k] = Nul
    /\ \A j \in 0..(k - 1) : image[from + j] # Nul

Bytes(from, n) == [k \in 1..n |-> image[from + k - 1]]

\* Mutation: a piece that cannot be read is the end of the string.
AfterUnmappedAtOnce(want) == [name EXCEPT !.state = "read"]

AfterUnmapped(want) ==
  IF want = 1 THEN [name EXCEPT !.state = "read"]
  ELSE [name EXCEPT !.chunk = IF want \div 4 = 0 THEN 1 ELSE want \div 4]

AfterPiece(from, want) ==
  LET k == UpToNul(from, want)
  IN [name EXCEPT !.out = @ \o Bytes(from, k),
                  !.state = IF k < want THEN "read" ELSE @]

ReadPiece ==
  LET from == name.addr + Len(name.out)
      want == Smaller(name.chunk, NameMax - Len(name.out))
  IN /\ name.state = "reading"
     /\ name' = IF Len(name.out) >= NameMax THEN [name EXCEPT !.state = "read"]
                ELSE IF ~IsMapped(from, want) THEN AfterUnmapped(want)
                ELSE AfterPiece(from, want)
     /\ UNCHANGED <<image, scan>>

-----------------------------------------------------------------------------
(* Properties *)

\* What find_bytes answers is the first place the needle is at, and None only
\* when it is nowhere, chunk boundaries and a short remainder notwithstanding
\* (guest.py:334-336).
FindsFirst ==
  /\ scan.state = "found" =>
       /\ IsAt(scan.needle, scan.at)
       /\ \A a \in Lo..(scan.at - 1) : ~IsAt(scan.needle, a)
  /\ scan.state = "absent" => \A a \in Addr : ~IsAt(scan.needle, a)

\* A string ends before its NUL, where memory does or at the most asked for.
EndsAt(n) ==
  \/ n = NameMax
  \/ ~IsMapped(name.addr + n, 1)
  \/ image[name.addr + n] = Nul

\* read_cstr gives every byte up to the first end there is and none past it,
\* whichever pieces it took (guest.py:630-641).
StringIsWhole ==
  name.state = "read" =>
    /\ EndsAt(Len(name.out))
    /\ \A k \in 1..Len(name.out) :
         /\ ~EndsAt(k - 1)
         /\ name.out[k] = image[name.addr + k - 1]

\* Both loops end: the step of one is never nothing, the other shortens or
\* reads (guest.py:351-354, 634-637).
ReadsEnd ==
  /\ scan.state = "looking" ~> scan.state # "looking"
  /\ name.state = "reading" ~> name.state # "reading"
=============================================================================
