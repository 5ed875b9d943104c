----------------------------- MODULE RomfsModel -----------------------------
(***************************************************************************)
(* The generated game of romfs_model.py: where file i lies, what it weighs *)
(* with and without an update, and what a mod's files are.  Everything is  *)
(* a function of the index.  A name is a tuple whose first member says     *)
(* what it is the name of: the words it is made of are left out, what      *)
(* keeps it apart from other names is not.                                 *)
(***************************************************************************)
EXTENDS Integers, Sequences, FiniteSetsExt, SequencesExt, Tally

CONSTANTS
  Listed,            \* the directories measured: [dir |-> names, share |-> Nat], in order
  DirRank,           \* directory -> its place in the order of paths as strings
  ParentShare,       \* _PARENT_SHARE, of a directory a listed path passes through
  Bands,             \* _TAIL_BANDS: <<files in such a directory, how many of them>>
  TailShare,         \* _TAIL_SHARE, files in a million that go to the tail
  ReparentPer1000,   \* _REPARENT_PER_1000
  ChainLower, ChainUpper,   \* tail directories that share a chain, per level
  AddedFrom          \* _ADDED_FROM

ASSUME TailShareAssumption == TailShare \in Nat /\ 0 < TailShare /\ TailShare <= 1000000
ASSUME ReparentAssumption == ReparentPer1000 \in Nat /\ ReparentPer1000 <= 337

ASSUME TablesAssumption ==
  /\ \A i \in DOMAIN Listed : Listed[i].share > 0
  /\ Bands \in Seq((Nat \ {0}) \X (Nat \ {0})) /\ Bands # <<>>
  /\ ChainLower > 0 /\ ChainUpper > 0
  /\ AddedFrom \in Nat

-----------------------------------------------------------------------------
(* What the tables come to *)

\* Sums of the first k, of which a number's place is found by bisection:
\* bisect_right is how many of the sums it has reached.
Cumulative(numbers) == LET upTo == Running(numbers) IN [k \in DOMAIN numbers |-> upTo[k]]
BisectRight(sums, x) == Cardinality({k \in DOMAIN sums : sums[k] <= x})

\* Every directory a listed path passes through that is not listed itself.
ImpliedParents ==
  LET listed == {Listed[i].dir : i \in DOMAIN Listed}
      above == UNION {{SubSeq(d, 1, k) : k \in 1..(Len(d) - 1)} : d \in listed}
  IN SetToSortSeq(above \ listed, LAMBDA d, e : DirRank[d] < DirRank[e])

\* A tenth of those keep only their subdirectories.
GivenFiles ==
  LET parents == ImpliedParents
      kept == SelectSeq([k \in DOMAIN parents |-> k], LAMBDA k : ((k - 1) * 37) % 100 >= 10)
  IN [k \in DOMAIN kept |-> [dir |-> parents[kept[k]], share |-> ParentShare]]

Named == Listed \o GivenFiles
NamedShares == [i \in DOMAIN Named |-> Named[i].share]
NamedCum == Cumulative(NamedShares)
BigShare == Total(NamedShares)

\* The sizes of the tail's directories, stepped through by a stride so that any
\* prefix of the cycle holds the mix the whole of it does.
InBands ==
  LET laid[b \in 0..Len(Bands)] ==
        IF b = 0 THEN <<>> ELSE laid[b - 1] \o [k \in 1..Bands[b][2] |-> Bands[b][1]]
  IN laid[Len(Bands)]
TailDirs == Len(InBands)
TailSizes == [k \in 1..TailDirs |-> InBands[(((k - 1) * 1597) % TailDirs) + 1]]
TailCum == Cumulative(TailSizes)
TailFiles == Total(TailSizes)

-----------------------------------------------------------------------------
(* Where a file sits *)

\* How many words names are made of: len(_SYN_WORDS).
SynWords == 32

Leaf(nth) == <<"leaf", nth>>

\* A level's name is a word and a number, each with a period of its own.
TailChain(nth) ==
  LET upper == nth \div ChainUpper
      lower == nth \div ChainLower
  IN << <<"upper", upper % SynWords, upper % 100>>, <<"lower", lower % SynWords, lower % 1000>>,
        Leaf(nth) >>

\* Hangs under the directory before it rather than under its own chain.
Reparented(nth) == nth # 0 /\ (nth * 337) % 1000 < ReparentPer1000

TailDir(nth) ==
  IF Reparented(nth) THEN Append(TailChain(nth - 1), Leaf(nth)) ELSE TailChain(nth)

\* How many of the first i files after the root's have gone to the tail.
TailCount(i) == (i * TailShare) \div 1000000

\* Mutation: whether a file goes to the tail is settled by a stride of its own.
InTailApart(i) == i > 0 /\ (i * 618033) % 1000000 < TailShare

InTail(i) == i > 0 /\ TailCount(i) # TailCount(i - 1)

\* Which tail directory a file of the tail goes to.
TailNth(i) ==
  LET t == TailCount(i) - 1
  IN (t \div TailFiles) * TailDirs + BisectRight(TailCum, t % TailFiles)

\* And which named directory any other does.
NamedDir(i) ==
  LET slot == (((i * 618033) % 1000000) * BigShare) \div 1000000
  IN Named[BisectRight(NamedCum, slot) + 1].dir

FileName(i) == <<"file", i>>

DirOf(i) ==
  IF i = 0 THEN <<>> ELSE IF InTail(i) THEN TailDir(TailNth(i)) ELSE NamedDir(i)

FilePathOf(i) == [dir |-> DirOf(i), name |-> FileName(i)]

-----------------------------------------------------------------------------
(* What a file weighs *)

SizeCurve == <<7, 77, 133, 189, 250, 318, 401, 502, 650, 911, 1315, 2036, 3633, 7113,
               11768, 17946, 25915, 41451, 86432, 202311>>
SizeTop == <<233682, 308671, 472658, 717908>>
SizeHuge == <<<<500, 980000>>, <<300, 1700000>>, <<130, 3300000>>, <<50, 6400000>>,
              <<17, 20400000>>, <<2, 75000000>>, <<1, 196000000>>>>

\* The bits of a version below the release say which romfs, not which release.
VersionStep == 2 ^ 26
Release(version) == version \div VersionStep

ShippedSize(i) ==
  LET slot == (i * 97) % 100
      rank == ((i \div 100) * 241) % 1000
      bands == Cumulative([b \in DOMAIN SizeHuge |-> SizeHuge[b][1]])
  IN IF slot < 95
     THEN LET lo == SizeCurve[(slot \div 5) + 1]
              hi == SizeCurve[(slot \div 5) + 2]
          IN lo + ((hi - lo) * (slot % 5)) \div 5
     ELSE IF slot < 99 THEN SizeTop[slot - 94]
     ELSE SizeHuge[BisectRight(bands, rank) + 1][2]

\* The files an update rewrites, at the head of every stretch.
Rewritten(i) == i % 512 < 2

\* Mutation: one file at the head of a stretch, which is the one a mod of one
\* file overrides.
SizeOfOneRewrite(i, version) ==
  IF Release(version) = 0 \/ i % 512 >= 1 THEN ShippedSize(i)
  ELSE ShippedSize(i) + 64 + (Release(version) % 64)

Size(i, version) ==
  IF Release(version) = 0 \/ ~Rewritten(i) THEN ShippedSize(i)
  ELSE ShippedSize(i) + 64 + (Release(version) % 64)

ModSize(i) == 256 + ((i * 5651) % 65536)
AddedSize(j) == 4096 + ((j * 7919) % 262144)

AddedPath(j) == FilePathOf(AddedFrom + j)
=============================================================================
