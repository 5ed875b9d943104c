-------------------------- MODULE FsServices_proofs --------------------------
(***************************************************************************)
(* That handles keep their meaning: an id names one thing, a file handle   *)
(* finds its file until a call removes it, a listing is the one that was   *)
(* taken, a read is what the file has, and bytes counted as crossed were   *)
(* there to cross.                                                         *)
(***************************************************************************)
EXTENDS FsServices, FiniteSetTheorems, TLAPS

-----------------------------------------------------------------------------
(* What the operators of SdTree return *)

LEMMA NodeTypes ==
  /\ Absent \in Node
  /\ Dir \in Node
  /\ \A data \in Seq(Byte), size \in Nat : File(data, size) \in Node
  /\ \A data \in Seq(Byte) : Whole(data) \in Node
<1>1. <<>> \in Seq(Byte) OBVIOUS
<1>2. \A data \in Seq(Byte) : Len(data) \in Nat OBVIOUS
<1>3. QED BY <1>1, <1>2 DEF Absent, Dir, File, Whole, Node

LEMMA NodeParts ==
  ASSUME NEW n \in Node
  PROVE  n.kind \in {"absent", "dir", "file"} /\ n.data \in Seq(Byte) /\ n.size \in Nat
  BY DEF Node

LEMMA ZerosType ==
  ASSUME NEW n \in Nat
  PROVE  Zeros(n) \in Seq(Byte)
  BY ByteAssumption DEF Zeros

LEMMA BufferType ==
  ASSUME NEW buf \in Buffer
  PROVE  buf \in Seq(Byte)
<1>1. PICK n \in Size : buf \in [1..n -> Byte] BY DEF Buffer
<1>2. n \in Nat BY TreeAssumption DEF Size
<1>3. QED BY <1>1, <1>2

\* What is written is bytes, as many as it takes.
LEMMA OverwriteType ==
  ASSUME NEW data \in Seq(Byte), NEW off \in Nat, NEW buf \in Seq(Byte)
  PROVE  Overwrite(data, off, buf) \in Seq(Byte)
<1> DEFINE end == off + Len(buf)
           n == IF Len(data) < end THEN end ELSE Len(data)
<1>1. n \in Nat OBVIOUS
<1>2. ASSUME NEW i \in 1..n
      PROVE  (IF off < i /\ i <= end THEN buf[i - off]
              ELSE IF i <= Len(data) THEN data[i] ELSE Zero) \in Byte
  <2>1. CASE off < i /\ i <= end
    <3>1. i - off \in 1..Len(buf) BY <2>1
    <3>2. QED BY <2>1, <3>1
  <2>2. CASE ~(off < i /\ i <= end) BY <2>2, ByteAssumption
  <2>3. QED BY <2>1, <2>2
<1>3. QED BY <1>1, <1>2 DEF Overwrite

LEMMA ResizeType ==
  ASSUME NEW data \in Seq(Byte), NEW n \in Nat
  PROVE  Resize(data, n) \in Seq(Byte) /\ Len(Resize(data, n)) = n
<1>1. \A i \in 1..n : (IF i <= Len(data) THEN data[i] ELSE Zero) \in Byte
  BY ByteAssumption
<1>2. QED BY <1>1 DEF Resize

\* Room is made, of bytes.
LEMMA ExtendType ==
  ASSUME NEW data \in Seq(Byte), NEW end \in Nat
  PROVE  Extend(data, end) \in Seq(Byte)
<1> DEFINE n == IF Len(data) < end THEN end ELSE Len(data)
<1>1. n \in Nat
  OBVIOUS
<1>2. \A i \in 1..n : (IF i <= Len(data) THEN data[i] ELSE Zero) \in Byte
  BY ByteAssumption
<1> QED BY <1>1, <1>2 DEF Extend

\* Where a spelling is on the SD.
LEMMA SplitType ==
  ASSUME NEW s \in Spelling
  PROVE  Split(s) \in Path
  BY SpellingAssumption

LEMMA PlaceType ==
  ASSUME NEW t \in [Path -> Node], NEW p \in Path, NEW node \in Node
  PROVE  Place(t, p, node) \in [Path -> Node]
  BY NodeTypes DEF Place

LEMMA UnlinkType ==
  ASSUME NEW t \in [Path -> Node], NEW p \in Path
  PROVE  Unlink(t, p) \in [Path -> Node]
  BY NodeTypes DEF Unlink

LEMMA EnsureDirType ==
  ASSUME NEW t \in [Path -> Node], NEW p \in Path
  PROVE  EnsureDir(t, p) \in [Path -> Node]
  BY NodeTypes DEF EnsureDir

-----------------------------------------------------------------------------
(* Listings *)

\* A list of whatever it lists.
IsList(s) == \E S : s \in Seq(S)

LEMMA FunctionIsList ==
  ASSUME NEW n \in Nat, NEW S, NEW s \in [1..n -> S]
  PROVE  IsList(s)
<1>1. s \in Seq(S)
  OBVIOUS
<1> QED BY <1>1 DEF IsList

LEMMA EntriesAreAList ==
  ASSUME NEW p \in Path, NEW kinds
  PROVE  IsList(Entries(p, kinds))
<1> DEFINE here == {q \in Path : Above(q) = Above(p) \cup {p} /\ tree[q].kind \in kinds}
           n    == Cardinality(here)
           e    == Entries(p, kinds)
<1>1. n \in Nat
  BY LabelAssumption, FS_Subset, FS_CardinalityType
<1>2. \E f : e = [i \in 1..n |-> f[i]]
  <2>1. e = [i \in 1..n |-> CHOOSE q \in here :
                 Cardinality({r \in here : Rank[r] < Rank[q]}) = i - 1]
    BY DEF Entries
  <2>2. e = [i \in 1..n |-> e[i]]
    BY <2>1
  <2> QED BY <2>2
<1> HIDE DEF e
<1>3. DOMAIN e = 1..n /\ e = [i \in 1..n |-> e[i]]
  BY <1>2
<1>4. e \in [1..n -> {e[i] : i \in 1..n}]
  BY <1>3
<1>5. IsList(e)
  BY <1>1, <1>4, FunctionIsList
<1> QED BY <1>5 DEF e

\* A prefix of a list, and the chunk after it, are the longer prefix.
LEMMA PrefixGrows ==
  ASSUME NEW s, IsList(s), NEW m \in 0..Len(s), NEW k \in m..Len(s)
  PROVE  /\ SubSeq(s, 1, m) \o SubSeq(s, m + 1, k) = SubSeq(s, 1, k)
         /\ Len(SubSeq(s, m + 1, k)) = k - m
         /\ Len(SubSeq(s, 1, m)) = m
         /\ Len(SubSeq(s, 1, k)) = k
  BY DEF IsList

-----------------------------------------------------------------------------
(* The tree, under handles *)

\* No file holds more bytes than its size says, unless its last write was cut
\* short.
Fits(t, cut) ==
  /\ t \in [Path -> Node]
  /\ cut \subseteq Path
  /\ \A p \in Path \ cut : IsFile(t, p) => Len(t[p].data) <= t[p].size

\* A file put somewhere takes with it only what was below that place.
LEMMA PlaceFits ==
  ASSUME NEW t, NEW cut, Fits(t, cut), NEW p \in Path, CanPlace(t, p),
         NEW node \in Node, node.kind = "file", Len(node.data) <= node.size
  PROVE  /\ Fits(Place(t, p, node), cut \ {p})
         /\ \A q \in Path : IsFile(t, q) /\ p \notin Above(q) => IsFile(Place(t, p, node), q)
<1> DEFINE u == Place(t, p, node)
<1>1. u \in [Path -> Node]
  BY PlaceType DEF Fits
<1>2. \A q \in Path : u[q] = IF q = p THEN node
                             ELSE IF q \in Above(p) /\ ~Found(t, q) THEN Dir
                             ELSE IF p \in Above(q) THEN Absent
                             ELSE t[q]
  BY DEF Place
<1>3. \A q \in Path : IsFile(u, q) => q = p \/ u[q] = t[q]
  BY <1>2 DEF IsFile, Dir, Absent
<1>4. Fits(u, cut \ {p})
  BY <1>1, <1>2, <1>3 DEF Fits, IsFile
<1>5. \A q \in Path : IsFile(t, q) /\ p \notin Above(q) => IsFile(u, q)
  BY <1>2 DEF CanPlace, IsFile, Found
<1> QED BY <1>4, <1>5

LEMMA UnlinkFits ==
  ASSUME NEW t, NEW cut, Fits(t, cut), NEW p \in Path
  PROVE  /\ Fits(Unlink(t, p), cut)
         /\ \A q \in Path : IsFile(t, q) /\ p \notin Above(q) \cup {q} => IsFile(Unlink(t, p), q)
<1> DEFINE u == Unlink(t, p)
<1>1. u \in [Path -> Node]
  BY UnlinkType DEF Fits
<1>2. \A q \in Path : u[q] = IF q = p \/ p \in Above(q) THEN Absent ELSE t[q]
  BY DEF Unlink
<1>3. \A q \in Path : IsFile(u, q) => u[q] = t[q]
  BY <1>2 DEF IsFile, Absent
<1>4. Fits(u, cut)
  BY <1>1, <1>3 DEF Fits, IsFile
<1> QED BY <1>2, <1>4 DEF IsFile

LEMMA EnsureDirFits ==
  ASSUME NEW t, NEW cut, Fits(t, cut), NEW p \in Path
  PROVE  /\ Fits(EnsureDir(t, p), cut)
         /\ \A q \in Path : IsFile(t, q) => IsFile(EnsureDir(t, p), q)
<1> DEFINE u == EnsureDir(t, p)
<1>1. u \in [Path -> Node]
  BY EnsureDirType DEF Fits
<1>2. \A q \in Path : u[q] = IF q \in Above(p) \cup {p} /\ ~Found(t, q) THEN Dir ELSE t[q]
  BY DEF EnsureDir
<1>3. \A q \in Path : IsFile(u, q) <=> IsFile(t, q)
  BY <1>2 DEF IsFile, Found, Dir
<1>4. \A q \in Path : IsFile(u, q) => u[q] = t[q]
  BY <1>2 DEF IsFile, Dir
<1>5. Fits(u, cut)
  BY <1>1, <1>3, <1>4 DEF Fits
<1> QED BY <1>3, <1>5

\* A file's bytes are replaced by as many as its size says, or it is cut short.
LEMMA RewriteFits ==
  ASSUME NEW t, NEW cut, Fits(t, cut), NEW p \in Path, NEW node \in Node, node.kind = "file",
         NEW cut2, \/ cut2 = cut \ {p} /\ Len(node.data) <= node.size
                   \/ cut2 = cut \cup {p}
  PROVE  /\ Fits([t EXCEPT ![p] = node], cut2)
         /\ \A q \in Path : IsFile(t, q) => IsFile([t EXCEPT ![p] = node], q)
<1> DEFINE u == [t EXCEPT ![p] = node]
<1>1. \A q \in Path : u[q] = IF q = p THEN node ELSE t[q]
  BY DEF Fits
<1>2. u \in [Path -> Node]
  BY DEF Fits
<1>3. Fits(u, cut2)
  BY <1>1, <1>2 DEF Fits, IsFile
<1>4. \A q \in Path : IsFile(t, q) => IsFile(u, q)
  BY <1>1 DEF IsFile
<1> QED BY <1>3, <1>4

\* What a read hands over of a file that fits is what there is from there on.
LEMMA ReadCountIsExact ==
  ASSUME NEW node \in Node, Len(node.data) <= node.size, NEW off \in Nat, NEW n \in Nat
  PROVE  ReadCount(node, off, n) =
           LET left == IF off < node.size THEN node.size - off ELSE 0
           IN  IF n < left THEN n ELSE left
<1>1. Len(node.data) \in Nat /\ node.size \in Nat
  BY NodeParts
<1> QED BY <1>1 DEF ReadCount

-----------------------------------------------------------------------------
(* The inductive invariant *)

SdIInv == Fits(tree, torn) /\ written \subseteq Spelling /\ placed \subseteq Path

\* Ids are given out one after the other, each to one table.
IdIInv ==
  /\ nextId \in 1..(MaxHandles + 1)
  /\ DOMAIN files \cup DOMAIN dirs \cup dbs = 1..(nextId - 1)
  /\ DOMAIN files \cap DOMAIN dirs = {}
  /\ DOMAIN files \cap dbs = {}
  /\ DOMAIN dirs \cap dbs = {}

FileIInv ==
  /\ \A h \in DOMAIN files : files[h] \in [path : Spelling, mode : OpenMode]
  /\ gone \subseteq DOMAIN files
  /\ LiveHandleFindsItsFile

\* A listing is a list, of which the cursor says how much was handed over.
ListingIInv(dir, handed) ==
  /\ dir = [path |-> dir.path, kinds |-> dir.kinds, entries |-> dir.entries, cursor |-> dir.cursor]
  /\ dir.path \in Path
  /\ IsList(dir.entries)
  /\ dir.cursor \in 0..Len(dir.entries)
  /\ handed = SubSeq(dir.entries, 1, dir.cursor)

DirIInv ==
  /\ DOMAIN given = DOMAIN dirs
  /\ \A h \in DOMAIN dirs : ListingIInv(dirs[h], given[h])

IInv == SdIInv /\ IdIInv /\ FileIInv /\ DirIInv /\ stage \in Stage /\ raised \in BOOLEAN

LEMMA InitIInv == Init => IInv
<1> SUFFICES ASSUME Init PROVE IInv
  OBVIOUS
<1>1. SdIInv
  BY NodeTypes DEF Init, SdIInv, Fits, Empty, IsFile, Absent
<1>2. IdIInv
  BY FsAssumption DEF Init, IdIInv
<1>3. FileIInv /\ DirIInv /\ stage \in Stage
  BY DEF Init, FileIInv, LiveHandleFindsItsFile, DirIInv, Stage
<1> QED BY <1>1, <1>2, <1>3 DEF IInv, Init

\* What a new handle does to the ids.
LEMMA NewIdIsFresh ==
  ASSUME IdIInv, NEW id \in Id, NewId(id)
  PROVE  /\ id \notin DOMAIN files \cup DOMAIN dirs \cup dbs
         /\ nextId' = nextId + 1
         /\ nextId' \in 1..(MaxHandles + 1)
         /\ 1..(nextId' - 1) = 1..(nextId - 1) \cup {id}
  BY FsAssumption DEF IdIInv, NewId, Id

\* A step that leaves the tables alone and no file lost but to gone.
LEMMA TablesKept ==
  ASSUME IInv, SdIInv', stage' \in Stage, UNCHANGED <<handleVars, given>>, raised' \in BOOLEAN,
         gone \subseteq gone', gone' \subseteq DOMAIN files,
         \A h \in DOMAIN files \ gone' : IsFile(tree', Split(files[h].path))
  PROVE  IInv'
<1>1. IdIInv' /\ DirIInv'
  BY DEF IInv, IdIInv, DirIInv, handleVars
<1>2. FileIInv'
  BY DEF IInv, FileIInv, LiveHandleFindsItsFile, handleVars, Split
<1> QED BY <1>1, <1>2 DEF IInv

\* A step that leaves the SD and the tables alone.
LEMMA SdKept ==
  ASSUME IInv, stage' \in Stage, UNCHANGED <<sdVars, handleVars, gone, given>>, raised' \in BOOLEAN
  PROVE  IInv'
<1>1. SdIInv'
  BY DEF IInv, SdIInv, sdVars, Fits, IsFile
<1>2. gone \subseteq gone' /\ gone' \subseteq DOMAIN files
  BY DEF IInv, FileIInv
<1>3. \A h \in DOMAIN files \ gone' : IsFile(tree', Split(files[h].path))
  BY DEF IInv, FileIInv, LiveHandleFindsItsFile, sdVars
<1> QED BY <1>1, <1>2, <1>3, TablesKept

\* What is put at p takes the files below it with it.
LEMMA PlacingKeeps ==
  ASSUME IInv, NEW p \in Path, NEW node \in Node, node.kind = "file", Len(node.data) <= node.size,
         CanPlace(tree, p), tree' = Place(tree, p, node), torn' = torn \ {p},
         written' \subseteq Spelling, placed' \subseteq Path,
         gone' = gone \cup Below(p), raised' \in BOOLEAN,
         stage' \in Stage, UNCHANGED <<handleVars, given>>
  PROVE  IInv'
<1>1. /\ Fits(Place(tree, p, node), torn \ {p})
      /\ \A q \in Path : IsFile(tree, q) /\ p \notin Above(q) => IsFile(Place(tree, p, node), q)
  BY PlaceFits DEF IInv, SdIInv
<1>2. SdIInv'
  BY <1>1 DEF SdIInv
<1>3. \A h \in DOMAIN files : Split(files[h].path) \in Path
  BY SplitType DEF IInv, FileIInv
<1>4. \A h \in DOMAIN files \ gone' : IsFile(tree', Split(files[h].path))
  BY <1>1, <1>3 DEF IInv, FileIInv, LiveHandleFindsItsFile, Below
<1>5. gone \subseteq gone' /\ gone' \subseteq DOMAIN files
  BY DEF IInv, FileIInv, Below
<1> QED BY <1>2, <1>4, <1>5, TablesKept

-----------------------------------------------------------------------------
(* Each call keeps it *)

LEMMA SizesAreNumbers ==
  /\ Size \subseteq Nat
  /\ TargetPath \subseteq Spelling
  /\ \A buf \in Buffer : buf \in Seq(Byte)
  BY TreeAssumption, BufferType DEF Size

\* The harness's own steps: a mod put over what the constructor's calls opened
\* leaves every other handle its file.
LEMMA HarnessKeeps ==
  ASSUME IInv
  PROVE  /\ Install \/ BeginLaunch \/ BeginPhases => IInv'
         /\ \A p \in ModPath, size \in Size : ModIsPut(p, size) => IInv'
<1>1. ASSUME Install \/ BeginLaunch \/ BeginPhases PROVE IInv'
  <2>1. UNCHANGED <<sdVars, handleVars, raised, gone, given>>
    BY <1>1 DEF Install, BeginLaunch, BeginPhases
  <2>2. stage' \in Stage /\ raised' \in BOOLEAN
    BY <1>1, <2>1 DEF Install, BeginLaunch, BeginPhases, Stage, IInv
  <2> QED BY <2>1, <2>2, SdKept
<1>2. ASSUME NEW p \in ModPath, NEW size \in Size, ModIsPut(p, size) PROVE IInv'
  <2> DEFINE node == File(<<>>, size)
  <2>1. p \in Path /\ size \in Nat /\ <<>> \in Seq(Byte)
    BY TreeAssumption, SizesAreNumbers
  <2>2. node \in Node /\ node.kind = "file" /\ Len(node.data) <= node.size
    <3>1. node \in Node
      BY <2>1, NodeTypes
    <3>2. Len(<<>>) <= size
      BY <2>1
    <3> QED BY <3>1, <3>2 DEF File
  <2>3. UNCHANGED <<stage, handleVars, given>> /\ stage' \in Stage
    BY <1>2 DEF ModIsPut, IInv
  <2>4. CASE CanPlace(tree, p)
    <3>1. /\ tree' = Place(tree, p, node) /\ torn' = torn \ {p}
          /\ written' = written /\ placed' = placed \cup {p}
          /\ gone' = gone \cup Below(p) /\ raised' = raised
      BY <1>2, <2>4 DEF ModIsPut, PutMod
    <3> HIDE DEF node
    <3>2. written' \subseteq Spelling /\ placed' \subseteq Path /\ raised' \in BOOLEAN
      BY <2>1, <3>1 DEF IInv, SdIInv
    <3> QED BY <2>1, <2>2, <2>3, <2>4, <3>1, <3>2, PlacingKeeps
  <2>5. CASE ~CanPlace(tree, p)
    <3>1. raised' = TRUE /\ UNCHANGED <<sdVars, gone>>
      BY <1>2, <2>5 DEF ModIsPut
    <3> QED BY <2>3, <3>1, SdKept
  <2> QED BY <2>4, <2>5
<1> QED BY <1>1, <1>2

LEMMA OpenFileKeeps ==
  ASSUME IInv, NEW s \in Spelling, NEW mode \in OpenMode, OpenFile(s, mode)
  PROVE  IInv'
<1>1. UNCHANGED <<sdVars, stage, dirs, dbs, raised, gone, given>> /\ stage' \in Stage /\ raised' \in BOOLEAN
  BY DEF OpenFile, IInv
<1>2. CASE ~IsFile(tree, Split(s))
  <2>1. UNCHANGED <<nextId, files>>
    BY <1>2 DEF OpenFile
  <2> QED BY <1>1, <2>1, SdKept DEF handleVars
<1>3. CASE IsFile(tree, Split(s))
  <2> DEFINE entry == [path |-> s, mode |-> mode]
  <2>1. PICK id \in Id : NewId(id) /\ files' = With(files, id, entry)
    BY <1>3 DEF OpenFile
  <2>2. entry \in [path : Spelling, mode : OpenMode] /\ entry.path = s
    OBVIOUS
  <2> HIDE DEF entry
  <2>3. /\ id \notin DOMAIN files \cup DOMAIN dirs \cup dbs
        /\ nextId' \in 1..(MaxHandles + 1)
        /\ 1..(nextId' - 1) = 1..(nextId - 1) \cup {id}
    BY <2>1, NewIdIsFresh DEF IInv
  <2>4. /\ DOMAIN files' = DOMAIN files \cup {id}
        /\ files'[id] = entry
        /\ \A h \in DOMAIN files : files'[h] = files[h]
    BY <2>1, <2>3 DEF With
  <2>5. IdIInv'
    BY <1>1, <2>3, <2>4 DEF IInv, IdIInv
  <2>6. FileIInv'
    <3>1. tree' = tree /\ gone' = gone
      BY <1>1 DEF sdVars
    <3>2. ASSUME NEW h \in DOMAIN files'
          PROVE  /\ files'[h] \in [path : Spelling, mode : OpenMode]
                 /\ h \notin gone => IsFile(tree, Split(files'[h].path))
      <4>1. CASE h = id
        BY <1>3, <2>2, <2>4, <4>1
      <4>2. CASE h \in DOMAIN files
        BY <2>4, <4>2 DEF IInv, FileIInv, LiveHandleFindsItsFile
      <4> QED BY <2>4, <4>1, <4>2
    <3>3. gone' \subseteq DOMAIN files'
      BY <2>4, <3>1 DEF IInv, FileIInv
    <3> QED BY <3>1, <3>2, <3>3 DEF FileIInv, LiveHandleFindsItsFile, Split
  <2>7. SdIInv' /\ DirIInv'
    BY <1>1 DEF IInv, SdIInv, sdVars, DirIInv, Fits, IsFile
  <2> QED BY <1>1, <2>5, <2>6, <2>7 DEF IInv
<1> QED BY <1>2, <1>3

LEMMA OpenDatabaseKeeps ==
  ASSUME IInv, OpenDatabase
  PROVE  IInv'
<1>1. UNCHANGED <<sdVars, stage, files, dirs, raised, gone, given>> /\ stage' \in Stage /\ raised' \in BOOLEAN
  BY DEF OpenDatabase, IInv
<1>2. PICK id \in Id : NewId(id) /\ dbs' = dbs \cup {id}
  BY DEF OpenDatabase
<1>3. /\ id \notin DOMAIN files \cup DOMAIN dirs \cup dbs
      /\ nextId' \in 1..(MaxHandles + 1)
      /\ 1..(nextId' - 1) = 1..(nextId - 1) \cup {id}
  BY <1>2, NewIdIsFresh DEF IInv
<1>4. IdIInv'
  BY <1>1, <1>2, <1>3 DEF IInv, IdIInv
<1>5. SdIInv' /\ FileIInv' /\ DirIInv'
  BY <1>1 DEF IInv, SdIInv, sdVars, Fits, IsFile, FileIInv, LiveHandleFindsItsFile, DirIInv, Split
<1> QED BY <1>1, <1>4, <1>5 DEF IInv

LEMMA OpenDirectoryKeeps ==
  ASSUME IInv, NEW s \in Spelling, NEW kinds \in EntryKinds, OpenDirectory(s, kinds)
  PROVE  IInv'
<1> DEFINE p == Split(s)
<1>0. p \in Path
  BY SplitType
<1>1. UNCHANGED <<sdVars, stage, files, dbs, raised, gone>> /\ stage' \in Stage /\ raised' \in BOOLEAN
  BY DEF OpenDirectory, IInv
<1>2. CASE ~IsDir(tree, p)
  <2>1. UNCHANGED <<nextId, dirs, given>>
    BY <1>2 DEF OpenDirectory
  <2> QED BY <1>1, <2>1, SdKept DEF handleVars
<1>3. CASE IsDir(tree, p)
  <2> DEFINE entry == [path |-> p, kinds |-> kinds, entries |-> Entries(p, kinds), cursor |-> 0]
  <2>1. PICK id \in Id : NewId(id) /\ dirs' = With(dirs, id, entry) /\ given' = With(given, id, <<>>)
    BY <1>3 DEF OpenDirectory
  <2>2. ListingIInv(entry, <<>>)
    <3>1. /\ IsList(entry.entries) /\ entry.cursor = 0 /\ entry.path \in Path
          /\ entry = [path |-> entry.path, kinds |-> entry.kinds,
                      entries |-> entry.entries, cursor |-> entry.cursor]
      BY <1>0, EntriesAreAList
    <3> HIDE DEF entry
    <3>2. Len(entry.entries) \in Nat /\ SubSeq(entry.entries, 1, 0) = <<>>
      BY <3>1 DEF IsList
    <3> QED BY <3>1, <3>2 DEF ListingIInv
  <2> HIDE DEF entry
  <2>3. /\ id \notin DOMAIN files \cup DOMAIN dirs \cup dbs
        /\ nextId' \in 1..(MaxHandles + 1)
        /\ 1..(nextId' - 1) = 1..(nextId - 1) \cup {id}
    BY <2>1, NewIdIsFresh DEF IInv
  <2>4. /\ DOMAIN dirs' = DOMAIN dirs \cup {id}
        /\ dirs'[id] = entry
        /\ \A h \in DOMAIN dirs : dirs'[h] = dirs[h]
    BY <2>1, <2>3 DEF With
  <2>5. /\ DOMAIN given' = DOMAIN given \cup {id}
        /\ given'[id] = <<>>
        /\ \A h \in DOMAIN given : given'[h] = given[h]
    BY <2>1, <2>3 DEF With, IInv, DirIInv
  <2>6. IdIInv'
    BY <1>1, <2>3, <2>4 DEF IInv, IdIInv
  <2>7. DirIInv'
    <3> SUFFICES ASSUME NEW h \in DOMAIN dirs' PROVE ListingIInv(dirs'[h], given'[h])
      BY <2>4, <2>5 DEF IInv, DirIInv
    <3>1. CASE h = id
      BY <3>1, <2>2, <2>4, <2>5
    <3>2. CASE h \in DOMAIN dirs
      BY <3>2, <2>4, <2>5 DEF IInv, DirIInv
    <3> QED BY <3>1, <3>2, <2>4
  <2>8. SdIInv' /\ FileIInv'
    BY <1>1 DEF IInv, SdIInv, sdVars, Fits, IsFile, FileIInv, LiveHandleFindsItsFile, Split
  <2> QED BY <1>1, <2>6, <2>7, <2>8 DEF IInv
<1> QED BY <1>2, <1>3

LEMMA FsCreateFileKeeps ==
  ASSUME IInv, NEW s \in Spelling, NEW size \in Size, FsCreateFile(s, size)
  PROVE  IInv'
<1> DEFINE p == Split(s)
<1>1. p \in Path
  BY SplitType
<1>2. UNCHANGED <<handleVars, given>> /\ stage' \in Stage
  BY DEF FsCreateFile, IInv
<1>3. CASE CanPlace(tree, p)
  <2> DEFINE node == Whole(Zeros(size))
  <2>1. /\ tree' = Place(tree, p, node) /\ written' = written \cup {s}
        /\ placed' = placed \ {p} /\ torn' = torn \ {p}
        /\ gone' = gone \cup Below(p)
        /\ raised' = raised
    BY <1>3 DEF FsCreateFile, CreateFile, IsNowWhole
  <2>2. node \in Node /\ node.kind = "file" /\ Len(node.data) <= node.size
    <3>1. Zeros(size) \in Seq(Byte) /\ Len(Zeros(size)) \in Nat
      BY ZerosType, SizesAreNumbers
    <3> QED BY <3>1, NodeTypes DEF Whole, File
  <2> HIDE DEF node
  <2>3. written' \subseteq Spelling /\ placed' \subseteq Path /\ raised' \in BOOLEAN
    BY <2>1 DEF IInv, SdIInv
  <2> QED BY <1>1, <1>2, <1>3, <2>1, <2>2, <2>3, PlacingKeeps
<1>4. CASE ~CanPlace(tree, p)
  <2>1. raised' = TRUE /\ UNCHANGED <<sdVars, gone>>
    BY <1>4 DEF FsCreateFile
  <2> QED BY <1>2, <2>1, SdKept
<1> QED BY <1>3, <1>4

LEMMA FsDeleteFileKeeps ==
  ASSUME IInv, NEW s \in Spelling, FsDeleteFile(s)
  PROVE  IInv'
<1> DEFINE p == Split(s)
<1>1. p \in Path
  BY SplitType
<1>2. UNCHANGED <<handleVars, raised, given>> /\ stage' \in Stage /\ raised' \in BOOLEAN
  BY DEF FsDeleteFile, IInv
<1>3. CASE Found(tree, p)
  <2>1. /\ tree' = Unlink(tree, p) /\ UNCHANGED <<written, placed, torn>>
        /\ gone' = gone \cup Below(p) \cup {h \in DOMAIN files : Split(files[h].path) = p}
    BY <1>3 DEF FsDeleteFile, DeleteFile
  <2>2. /\ Fits(Unlink(tree, p), torn)
        /\ \A q \in Path : IsFile(tree, q) /\ p \notin Above(q) \cup {q} => IsFile(Unlink(tree, p), q)
    BY <1>1, UnlinkFits DEF IInv, SdIInv
  <2>3. SdIInv'
    BY <2>1, <2>2 DEF IInv, SdIInv
  <2>4. \A h \in DOMAIN files : Split(files[h].path) \in Path
    BY SplitType DEF IInv, FileIInv
  <2>5. \A h \in DOMAIN files \ gone' : IsFile(tree', Split(files[h].path))
    BY <2>1, <2>2, <2>4 DEF IInv, FileIInv, LiveHandleFindsItsFile, Below
  <2>6. gone \subseteq gone' /\ gone' \subseteq DOMAIN files
    BY <2>1 DEF IInv, FileIInv, Below
  <2> QED BY <1>2, <2>3, <2>5, <2>6, TablesKept
<1>4. CASE ~Found(tree, p)
  <2>1. UNCHANGED <<sdVars, gone>>
    BY <1>4 DEF FsDeleteFile
  <2> QED BY <1>2, <2>1, SdKept
<1> QED BY <1>3, <1>4

LEMMA FsCreateDirectoryKeeps ==
  ASSUME IInv, NEW s \in Spelling, FsCreateDirectory(s)
  PROVE  IInv'
<1> DEFINE p == Split(s)
<1>1. p \in Path
  BY SplitType
<1>2. UNCHANGED <<handleVars, gone, given>> /\ stage' \in Stage
  BY DEF FsCreateDirectory, IInv
<1>3. CASE ~Found(tree, p) /\ CanPlace(tree, p)
  <2>1. tree' = EnsureDir(tree, p) /\ UNCHANGED <<written, placed, torn>> /\ raised' = raised
    BY <1>3 DEF FsCreateDirectory, CreateDirectory
  <2>2. /\ Fits(EnsureDir(tree, p), torn)
        /\ \A q \in Path : IsFile(tree, q) => IsFile(EnsureDir(tree, p), q)
    BY <1>1, EnsureDirFits DEF IInv, SdIInv
  <2>3. SdIInv'
    BY <2>1, <2>2 DEF IInv, SdIInv
  <2>4. \A h \in DOMAIN files : Split(files[h].path) \in Path
    BY SplitType DEF IInv, FileIInv
  <2>5. \A h \in DOMAIN files \ gone' : IsFile(tree', Split(files[h].path))
    BY <1>2, <2>1, <2>2, <2>4 DEF IInv, FileIInv, LiveHandleFindsItsFile
  <2>6. gone \subseteq gone' /\ gone' \subseteq DOMAIN files /\ raised' \in BOOLEAN
    BY <1>2, <2>1 DEF IInv, FileIInv
  <2> QED BY <1>2, <2>3, <2>5, <2>6, TablesKept
<1>4. CASE Found(tree, p) \/ ~CanPlace(tree, p)
  <2>1. raised' \in {raised, TRUE} /\ UNCHANGED sdVars
    BY <1>4 DEF FsCreateDirectory
  <2>2. raised' \in BOOLEAN
    BY <2>1 DEF IInv
  <2> QED BY <1>2, <2>1, <2>2, SdKept
<1> QED BY <1>3, <1>4

LEMMA DirReadKeeps ==
  ASSUME IInv, NEW h \in Id, NEW n \in 0..MaxEntries, DirRead(h, n)
  PROVE  IInv'
<1>1. /\ h \in DOMAIN dirs /\ h \in DOMAIN given
      /\ UNCHANGED <<sdVars, stage, nextId, files, dbs, raised, gone>>
  BY DEF DirRead, IInv, DirIInv
<1>2. ListingIInv(dirs[h], given[h])
  BY <1>1 DEF IInv, DirIInv
<1> DEFINE all == dirs[h].entries
           m   == dirs[h].cursor
           k   == IF m + n < Len(all) THEN m + n ELSE Len(all)
<1>3. IsList(all) /\ m \in 0..Len(all) /\ k \in m..Len(all) /\ given[h] = SubSeq(all, 1, m)
  <2>1. IsList(all) /\ m \in 0..Len(all) /\ given[h] = SubSeq(all, 1, m)
    BY <1>2 DEF ListingIInv
  <2>2. Len(all) \in Nat /\ n \in Nat
    BY <2>1, FsAssumption DEF IsList
  <2> QED BY <2>1, <2>2
<1>4. Chunk(h, n) = SubSeq(all, m + 1, k)
  BY DEF Chunk
<1>5. given[h] \o Chunk(h, n) = SubSeq(all, 1, k) /\ m + Len(Chunk(h, n)) = k
  <2> HIDE DEF all, m, k
  <2>1. /\ SubSeq(all, 1, m) \o SubSeq(all, m + 1, k) = SubSeq(all, 1, k)
        /\ Len(SubSeq(all, m + 1, k)) = k - m
    BY ONLY <1>3, PrefixGrows
  <2>2. m \in Int /\ k \in Int
    BY ONLY <1>3
  <2> QED BY <2>1, <2>2, <1>3, <1>4
<1>6. /\ dirs' = [dirs EXCEPT ![h].cursor = k]
      /\ given' = [given EXCEPT ![h] = SubSeq(all, 1, k)]
  BY <1>1, <1>5 DEF DirRead
<1> HIDE DEF k
<1>7. /\ DOMAIN dirs' = DOMAIN dirs /\ DOMAIN given' = DOMAIN given
      /\ \A g \in DOMAIN dirs \ {h} : dirs'[g] = dirs[g] /\ given'[g] = given[g]
  BY <1>1, <1>6 DEF IInv, DirIInv
<1>8. ListingIInv(dirs'[h], given'[h])
  <2>1. given'[h] = SubSeq(all, 1, k) /\ dirs'[h] = [dirs[h] EXCEPT !.cursor = k]
    BY <1>1, <1>6
  <2>2. dirs[h] = [path |-> dirs[h].path, kinds |-> dirs[h].kinds, entries |-> all, cursor |-> m]
    BY <1>2 DEF ListingIInv
  <2>3. dirs'[h] = [path |-> dirs[h].path, kinds |-> dirs[h].kinds, entries |-> all, cursor |-> k]
    BY <2>1, <2>2
  <2> QED BY <1>2, <1>3, <2>1, <2>3 DEF ListingIInv
<1>9. DirIInv'
  BY <1>7, <1>8 DEF IInv, DirIInv
<1>10. SdIInv' /\ IdIInv' /\ FileIInv' /\ stage' \in Stage /\ raised' \in BOOLEAN
  BY <1>1, <1>7 DEF IInv, SdIInv, sdVars, Fits, IsFile, IdIInv, FileIInv, LiveHandleFindsItsFile, Split
<1> QED BY <1>1, <1>9, <1>10 DEF IInv

\* The calls through a file handle change no table, and no file but to rewrite
\* the handle's own.
LEMMA FileCallKeeps ==
  ASSUME IInv, NEW h \in DOMAIN files, NEW node \in Node, node.kind = "file",
         tree' = [tree EXCEPT ![Split(files[h].path)] = node],
         \/ torn' = torn \ {Split(files[h].path)} /\ Len(node.data) <= node.size
         \/ torn' = torn \cup {Split(files[h].path)},
         written' \in {written, written \cup {files[h].path}}, placed' \subseteq placed,
         UNCHANGED <<stage, handleVars, raised, gone, given>>
  PROVE  IInv'
<1> DEFINE p == Split(files[h].path)
           t == [tree EXCEPT ![p] = node]
<1>1. files[h].path \in Spelling /\ \A g \in DOMAIN files : Split(files[g].path) \in Path
  BY SplitType DEF IInv, FileIInv
<1>2. /\ gone \subseteq gone' /\ gone' \subseteq DOMAIN files
      /\ stage' \in Stage /\ raised' \in BOOLEAN
  BY DEF IInv, FileIInv
<1>3. Fits(tree, torn) /\ p \in Path
  BY <1>1 DEF IInv, SdIInv
<1>4. PICK cut : cut = torn'
  OBVIOUS
<1>5. Fits(t, cut) /\ \A q \in Path : IsFile(tree, q) => IsFile(t, q)
  BY <1>3, <1>4, RewriteFits
<1>6. SdIInv'
  BY <1>1, <1>4, <1>5 DEF IInv, SdIInv
<1>7. \A g \in DOMAIN files \ gone' : IsFile(tree', Split(files[g].path))
  BY <1>1, <1>5 DEF IInv, FileIInv, LiveHandleFindsItsFile
<1> QED BY <1>2, <1>6, <1>7, TablesKept

LEMMA UnknownKeeps ==
  ASSUME IInv, NEW h, NEW table, Unknown(h, table)
  PROVE  IInv'
<1>1. UNCHANGED <<sdVars, handleVars, gone, given>> /\ stage' \in Stage /\ raised' \in BOOLEAN
  BY DEF Unknown, IInv
<1> QED BY <1>1, SdKept

LEMMA FileWriteKeeps ==
  ASSUME IInv, NEW h \in Id, NEW off \in Size, NEW buf \in Buffer, FileWrite(h, off, buf)
  PROVE  IInv'
<1> DEFINE s == files[h].path
           p == Split(s)
<1>1. h \in DOMAIN files /\ UNCHANGED <<stage, handleVars, gone, given>>
  BY DEF FileWrite
<1>2. s \in Spelling /\ p \in Path /\ tree \in [Path -> Node]
  BY <1>1, SplitType DEF IInv, FileIInv, SdIInv, Fits
<1>3. off \in Nat /\ buf \in Seq(Byte) /\ tree[p].data \in Seq(Byte) /\ tree[p].size \in Nat
  BY <1>2, SizesAreNumbers, NodeParts
<1>4. CASE ~Refuses(h, "write") /\ IsFile(tree, p) /\ WriteFile(s, off, buf) /\ raised' = raised
  <2> DEFINE data == Overwrite(tree[p].data, off, buf)
             node == Whole(data)
  <2>1. data \in Seq(Byte)
    BY <1>3, OverwriteType
  <2>2. node \in Node /\ node.kind = "file" /\ Len(node.data) <= node.size
    <3> HIDE DEF data
    <3> QED BY <2>1, NodeTypes DEF Whole, File
  <2>3. /\ tree' = [tree EXCEPT ![p] = node] /\ written' = written \cup {s}
        /\ placed' \subseteq placed /\ torn' = torn \ {p}
    BY <1>2, <1>4 DEF WriteFile, IsNowWhole
  <2> HIDE DEF node
  <2> QED BY <1>1, <1>4, <2>2, <2>3, FileCallKeeps
<1>5. CASE ~Refuses(h, "write") /\ IsFile(tree, p) /\ WriteIsCut(s, off + Len(buf)) /\ raised' = raised
  <2> DEFINE end  == off + Len(buf)
             node == File(Extend(tree[p].data, end), tree[p].size)
  <2>1. end \in Nat
    BY <1>3
  <2>2. node \in Node /\ node.kind = "file"
    <3> HIDE DEF end
    <3> QED BY <1>3, <2>1, ExtendType, NodeTypes DEF File
  <2>3. /\ tree' = [tree EXCEPT ![p] = node] /\ written' = written \cup {s}
        /\ placed' \subseteq placed /\ torn' = torn \cup {p}
    BY <1>2, <1>5 DEF WriteIsCut
  <2> HIDE DEF node
  <2> QED BY <1>1, <1>5, <2>2, <2>3, FileCallKeeps
<1>6. CASE ~Refuses(h, "write") /\ ~IsFile(tree, p)
  <2>1. raised' = TRUE /\ written' = written \cup {s} /\ UNCHANGED <<tree, placed, torn>>
    BY <1>6 DEF FileWrite
  <2>2. SdIInv'
    BY <1>2, <2>1 DEF IInv, SdIInv
  <2>3. gone \subseteq gone' /\ gone' \subseteq DOMAIN files /\ stage' \in Stage /\ raised' \in BOOLEAN
    BY <1>1, <2>1 DEF IInv, FileIInv
  <2>4. \A g \in DOMAIN files \ gone' : IsFile(tree', Split(files[g].path))
    BY <1>1, <2>1 DEF IInv, FileIInv, LiveHandleFindsItsFile
  <2> QED BY <1>1, <2>2, <2>3, <2>4, TablesKept
<1>7. CASE Refuses(h, "write")
  <2>1. UNCHANGED sdVars /\ raised' \in BOOLEAN /\ stage' \in Stage
    BY <1>1, <1>7 DEF FileWrite, IInv
  <2> QED BY <1>1, <2>1, SdKept
<1> QED BY <1>4, <1>5, <1>6, <1>7 DEF FileWrite

LEMMA FileHooksKeep ==
  ASSUME IInv, NEW h \in Id
  PROVE  /\ \A off, n \in Size : FileRead(h, off, n) => IInv'
         /\ \A size \in Size : FileSetSize(h, size) => IInv'
         /\ FileGetSize(h) => IInv'
         /\ FileClose(h) => IInv'
<1>1. stage \in Stage /\ raised \in BOOLEAN
  BY DEF IInv
<1>2. ASSUME NEW off \in Size, NEW n \in Size, FileRead(h, off, n) PROVE IInv'
  <2>1. UNCHANGED <<sdVars, stage, handleVars, gone, given>> /\ raised' \in {raised, TRUE}
    BY <1>2 DEF FileRead, Raises
  <2> QED BY <1>1, <2>1, SdKept
<1>3. ASSUME FileGetSize(h) PROVE IInv'
  <2>1. UNCHANGED <<sdVars, stage, handleVars, gone, given>> /\ raised' \in {raised, TRUE}
    BY <1>3 DEF FileGetSize, Raises
  <2> QED BY <1>1, <2>1, SdKept
<1>4. ASSUME FileClose(h) PROVE IInv'
  <2>1. UNCHANGED <<sdVars, stage, handleVars, raised, gone, given>>
    BY <1>4 DEF FileClose
  <2> QED BY <1>1, <2>1, SdKept
<1>5. ASSUME NEW size \in Size, FileSetSize(h, size) PROVE IInv'
  <2> DEFINE p    == Split(files[h].path)
             data == Resize(tree[p].data, size)
             node == File(data, size)
  <2>1. h \in DOMAIN files /\ UNCHANGED <<stage, handleVars, gone, given>>
    BY <1>5 DEF FileSetSize
  <2>2. p \in Path /\ tree \in [Path -> Node]
    BY <2>1, SplitType DEF IInv, FileIInv, SdIInv, Fits
  <2>3. data \in Seq(Byte) /\ Len(data) = size /\ size \in Nat
    BY <2>2, NodeParts, ResizeType, SizesAreNumbers
  <2>4. node \in Node /\ node.kind = "file" /\ Len(node.data) <= node.size
    <3> HIDE DEF data
    <3> QED BY <2>3, NodeTypes DEF File
  <2>5. CASE IsFile(tree, p)
    <3>1. /\ tree' = [tree EXCEPT ![p] = node] /\ raised' = raised
          /\ written' = written /\ placed' = placed /\ torn' = torn \ {p}
      BY <1>5, <2>2, <2>5 DEF FileSetSize, SetFileSize
    <3> HIDE DEF node
    <3> QED BY <2>1, <2>4, <3>1, FileCallKeeps
  <2>6. CASE ~IsFile(tree, p)
    <3>1. UNCHANGED sdVars /\ raised' = TRUE
      BY <1>5, <2>6 DEF FileSetSize, Raises
    <3> QED BY <1>1, <2>1, <3>1, SdKept
  <2> QED BY <2>5, <2>6
<1> QED BY <1>2, <1>3, <1>4, <1>5

LEMMA NextIInv == IInv /\ [Next]_vars => IInv'
<1> SUFFICES ASSUME IInv, [Next]_vars PROVE IInv'
  OBVIOUS
<1>1. CASE UNCHANGED vars
  <2>1. UNCHANGED <<sdVars, handleVars, gone, given>> /\ stage' \in Stage /\ raised' \in BOOLEAN
    BY <1>1 DEF vars, IInv
  <2> QED BY <2>1, SdKept
<1>2. CASE \/ Install \/ BeginLaunch \/ BeginPhases
           \/ \E p \in ModPath, size \in Size : ModIsPut(p, size)
  BY <1>2, HarnessKeeps
<1>3. CASE OpenDatabase
  BY <1>3, OpenDatabaseKeeps
<1>4. CASE PathCall
  <2>1. PICK s \in Spelling :
          \/ \E mode \in OpenMode : OpenFile(s, mode)
          \/ \E size \in Size : FsCreateFile(s, size)
          \/ FsDeleteFile(s)
          \/ FsCreateDirectory(s)
          \/ \E kinds \in EntryKinds : OpenDirectory(s, kinds)
    BY <1>4, SizesAreNumbers DEF PathCall
  <2> QED BY <2>1, OpenFileKeeps, FsCreateFileKeeps, FsDeleteFileKeeps, FsCreateDirectoryKeeps,
             OpenDirectoryKeeps
<1>5. CASE HandleCall
  <2>1. PICK h \in Id :
          \/ \E n \in 0..MaxEntries : DirRead(h, n)
          \/ DirIsUnknown(h) \/ FileIsUnknown(h)
          \/ \E off, n \in Size : FileRead(h, off, n)
          \/ \E off \in Size, buf \in Buffer : FileWrite(h, off, buf)
          \/ \E size \in Size : FileSetSize(h, size)
          \/ FileGetSize(h)
          \/ FileClose(h)
    BY <1>5 DEF HandleCall
  <2>2. CASE DirIsUnknown(h) \/ FileIsUnknown(h)
    BY <2>2, UnknownKeeps DEF DirIsUnknown, FileIsUnknown
  <2> QED BY <2>1, <2>2, DirReadKeeps, FileWriteKeeps, FileHooksKeep
<1>6. CASE PlainCall \/ \E off \in 0..BaseSize, n \in 0..BaseSize : StorageRead(off, n)
  <2>1. UNCHANGED <<sdVars, stage, handleVars, raised, gone, given>>
    BY <1>6 DEF PlainCall, StorageRead
  <2>2. stage' \in Stage /\ raised' \in BOOLEAN
    BY <2>1 DEF IInv
  <2> QED BY <2>1, <2>2, SdKept
<1> QED BY <1>1, <1>2, <1>3, <1>4, <1>5, <1>6 DEF Next

\* The invariant holds in every run: whatever order the build calls in.
THEOREM Invariance == Spec => []IInv
<1> QED BY InitIInv, NextIInv, PTL DEF Spec

-----------------------------------------------------------------------------
(* What it says *)

\* The hooks' tables and the tree hold what they are meant to.
THEOREM TypeCorrect == Spec => []TypeOK
<1>1. IInv => TypeOK
  <2> SUFFICES ASSUME IInv PROVE TypeOK
    OBVIOUS
  <2>1. 1..(nextId - 1) \subseteq Id
    BY FsAssumption DEF IInv, IdIInv, Id
  <2>2. \A h \in DOMAIN dirs : dirs[h].path \in Path /\ dirs[h].cursor \in 0..Len(dirs[h].entries)
    BY DEF IInv, DirIInv, ListingIInv
  <2> QED BY <2>1, <2>2 DEF IInv, SdIInv, Fits, IdIInv, FileIInv, DirIInv, TypeOK
<1> QED BY Invariance, <1>1, PTL

\* A call through a file handle finds the file until a call, or a mod put over
\* it, removed it.
THEOREM HandlesFindTheirFiles == Spec => []LiveHandleFindsItsFile
<1>1. IInv => LiveHandleFindsItsFile
  BY DEF IInv, FileIInv
<1> QED BY Invariance, <1>1, PTL

LEMMA ApartAddUp ==
  ASSUME NEW S, NEW T, IsFiniteSet(S), IsFiniteSet(T), S \cap T = {}
  PROVE  /\ IsFiniteSet(S \cup T)
         /\ Cardinality(S \cup T) = Cardinality(S) + Cardinality(T)
<1>1. /\ IsFiniteSet(S \cup T)
      /\ Cardinality(S \cup T) = Cardinality(S) + Cardinality(T) - Cardinality(S \cap T)
  BY FS_Union
<1>2. Cardinality(S \cap T) = 0
  BY FS_EmptySet
<1>3. Cardinality(S) \in Nat /\ Cardinality(T) \in Nat
  BY FS_CardinalityType
<1> QED BY <1>1, <1>2, <1>3

\* An id names a file, a listing or a database, and no two of them.
THEOREM IdsNameOneThing == Spec => []IdsNeverShared
<1>1. IInv => IdsNeverShared
  <2> SUFFICES ASSUME IInv PROVE IdsNeverShared
    OBVIOUS
  <2>1. /\ nextId \in Nat \ {0}
        /\ DOMAIN files \cup DOMAIN dirs \cup dbs = 1..(nextId - 1)
        /\ DOMAIN files \cap DOMAIN dirs = {}
        /\ DOMAIN files \cap dbs = {}
        /\ DOMAIN dirs \cap dbs = {}
    BY DEF IInv, IdIInv
  <2>2. IsFiniteSet(1..(nextId - 1)) /\ Cardinality(1..(nextId - 1)) = nextId - 1
    BY <2>1, FS_Interval
  <2>3. IsFiniteSet(DOMAIN files) /\ IsFiniteSet(DOMAIN dirs) /\ IsFiniteSet(dbs)
    BY <2>1, <2>2, FS_Subset
  <2>4. /\ IsFiniteSet(DOMAIN files \cup DOMAIN dirs)
        /\ Cardinality(DOMAIN files \cup DOMAIN dirs) = Cardinality(DOMAIN files) + Cardinality(DOMAIN dirs)
    BY <2>1, <2>3, ApartAddUp
  <2>5. (DOMAIN files \cup DOMAIN dirs) \cap dbs = {}
    BY <2>1
  <2>6. Cardinality((DOMAIN files \cup DOMAIN dirs) \cup dbs)
          = Cardinality(DOMAIN files \cup DOMAIN dirs) + Cardinality(dbs)
    BY <2>3, <2>4, <2>5, ApartAddUp
  <2> QED BY <2>1, <2>2, <2>4, <2>6 DEF IdsNeverShared
<1> QED BY Invariance, <1>1, PTL

\* A listing hands over what the directory held when it was opened.
THEOREM ListingsAreSnapshots == Spec => []ListingIsASnapshot
<1>1. IInv => ListingIsASnapshot
  <2> SUFFICES ASSUME IInv, NEW h \in DOMAIN dirs
               PROVE  /\ dirs[h].cursor = Len(given[h])
                      /\ Len(given[h]) <= Len(dirs[h].entries)
                      /\ given[h] = SubSeq(dirs[h].entries, 1, Len(given[h]))
    BY DEF ListingIsASnapshot
  <2>1. ListingIInv(dirs[h], given[h])
    BY DEF IInv, DirIInv
  <2>2. PICK s, m, g : s = dirs[h].entries /\ m = dirs[h].cursor /\ g = given[h]
    OBVIOUS
  <2>3. IsList(s) /\ m \in 0..Len(s) /\ g = SubSeq(s, 1, m)
    BY <2>1, <2>2 DEF ListingIInv
  <2>4. Len(s) \in Nat
    BY <2>3 DEF IsList
  <2>5. Len(SubSeq(s, 1, m)) = m
    BY <2>3, <2>4, PrefixGrows
  <2> QED BY <2>2, <2>3, <2>5
<1> QED BY Invariance, <1>1, PTL

\* A read hands over what a file of its size has, held or invented, unless a
\* write into it was cut short.
THEOREM ReadsAreExact == Spec => []ReadIsWhatTheFileHas
<1>1. IInv => ReadIsWhatTheFileHas
  <2> SUFFICES ASSUME IInv, NEW p \in Path \ torn, NEW off \in 0..MaxSize + 1, NEW n \in 0..MaxSize + 1,
                      IsFile(tree, p)
               PROVE  LET left == IF off < tree[p].size THEN tree[p].size - off ELSE 0
                      IN  ReadCount(tree[p], off, n) = IF n < left THEN n ELSE left
    BY DEF ReadIsWhatTheFileHas
  <2>1. tree[p] \in Node /\ Len(tree[p].data) <= tree[p].size
    BY DEF IInv, SdIInv, Fits
  <2>2. off \in Nat /\ n \in Nat
    BY TreeAssumption
  <2> QED BY <2>1, <2>2, ReadCountIsExact
<1> QED BY Invariance, <1>1, PTL

LEMMA ReadIsInside ==
  ASSUME IInv, NEW h \in DOMAIN files, NEW off \in Size, NEW n \in Size,
         NEW p, p = Split(files[h].path), IsFile(tree, p), p \notin torn,
         NEW c, c = ReadCount(tree[p], off, n), c > 0
  PROVE  off + c <= tree[p].size
<1>1. p \in Path /\ off \in Nat /\ n \in Nat
  BY SizesAreNumbers, SplitType DEF IInv, FileIInv
<1>2. tree[p] \in Node /\ Len(tree[p].data) <= tree[p].size
  BY <1>1 DEF IInv, SdIInv, Fits
<1>3. PICK node, size : node = tree[p] /\ size = node.size
  OBVIOUS
<1>4. c = LET left == IF off < size THEN size - off ELSE 0
          IN  IF n < left THEN n ELSE left
  BY <1>1, <1>2, <1>3, ReadCountIsExact
<1>5. size \in Nat
  BY <1>2, <1>3, NodeParts
<1>6. off + c <= size
  BY ONLY <1>1, <1>4, <1>5, c > 0
<1> QED BY <1>3, <1>6

LEMMA WriteIsInside ==
  ASSUME IInv, NEW s \in Spelling, NEW off \in Size, NEW buf \in Buffer, WriteFile(s, off, buf)
  PROVE  /\ IsFile(tree', Split(s))
         /\ off + Len(buf) <= tree'[Split(s)].size
         /\ s \in written'
<1> DEFINE p    == Split(s)
           data == Overwrite(tree[p].data, off, buf)
<1>1. p \in Path /\ off \in Nat /\ buf \in Seq(Byte) /\ Len(buf) \in Nat
  BY SizesAreNumbers, SplitType
<1>2. tree \in [Path -> Node] /\ tree[p].data \in Seq(Byte)
  BY <1>1, NodeParts DEF IInv, SdIInv, Fits
<1>3. off + Len(buf) <= Len(data)
  <2> DEFINE n == IF Len(tree[p].data) < off + Len(buf) THEN off + Len(buf) ELSE Len(tree[p].data)
  <2>1. n \in Nat /\ off + Len(buf) <= n
    BY <1>1, <1>2
  <2>2. DOMAIN data = 1..n
    BY DEF Overwrite
  <2>3. data \in Seq(Byte)
    BY <1>1, <1>2, OverwriteType
  <2>4. Len(data) = n
    <3> HIDE DEF data, n
    <3> QED BY <2>1, <2>2, <2>3
  <2> QED BY <2>1, <2>4
<1>4. tree' = [tree EXCEPT ![p] = Whole(data)] /\ written' = written \cup {s}
  BY <1>1, <1>2 DEF WriteFile
<1> HIDE DEF data
<1>5. tree'[p].kind = "file" /\ tree'[p].size = Len(data)
  BY <1>1, <1>2, <1>4 DEF Whole, File
<1> QED BY <1>3, <1>4, <1>5 DEF IsFile

\* Bytes counted as crossed are inside a file that is there, and those written
\* are in one that flush will come to.
THEOREM CrossedBytesAreThere == Spec => CrossedBytesExist
<1> DEFINE Exist == Answers /\ crossing'.moved > 0 /\ crossing'.target \in Spelling =>
                      LET p == Split(crossing'.target)
                      IN  /\ IsFile(tree', p)
                          /\ p \notin torn' => crossing'.offset + crossing'.moved <= tree'[p].size
                          /\ crossing'.written => crossing'.target \in written'
<1>1. ASSUME crossing' = Counted \/ \E p : crossing' = Touch(p) PROVE Exist
  <2>1. crossing'.moved = 0
    BY <1>1 DEF Counted, Touch
  <2> QED BY <2>1
<1>2. ASSUME NEW s, NEW off, NEW n, NEW write \in BOOLEAN, crossing' = Moved(s, off, n, write)
      PROVE  /\ crossing'.target = s /\ crossing'.offset = off /\ crossing'.moved = n
             /\ crossing'.written = write
  BY <1>2 DEF Moved, Counted
<1>3. IInv /\ [Next]_vars => [Exist]_<<crossing, tree, written>>
  <2> SUFFICES ASSUME IInv, [Next]_vars PROVE [Exist]_<<crossing, tree, written>>
    OBVIOUS
  <2>1. CASE UNCHANGED vars
    BY <2>1 DEF vars, sdVars
  <2>2. CASE Install \/ BeginLaunch \/ BeginPhases \/ OpenDatabase
    BY <2>2 DEF Install, BeginLaunch, BeginPhases, OpenDatabase, sdVars
  <2>3. CASE \E p \in ModPath, size \in Size : ModIsPut(p, size)
    <3>1. ~Answers
      BY <2>3 DEF ModIsPut, Answers
    <3> QED BY <3>1
  <2> HIDE DEF Exist
  <2>4. CASE PathCall
    <3>1. PICK s \in TargetPath :
            \/ \E mode \in OpenMode : OpenFile(s, mode)
            \/ \E size \in Size : FsCreateFile(s, size)
            \/ FsDeleteFile(s)
            \/ FsCreateDirectory(s)
            \/ \E kinds \in EntryKinds : OpenDirectory(s, kinds)
      BY <2>4 DEF PathCall
    <3> QED BY <1>1, <3>1 DEF OpenFile, FsCreateFile, FsDeleteFile, FsCreateDirectory, OpenDirectory
  <2>5. CASE HandleCall
    <3>1. PICK h \in Id :
            \/ \E n \in 0..MaxEntries : DirRead(h, n)
            \/ DirIsUnknown(h) \/ FileIsUnknown(h)
            \/ \E off, n \in Size : FileRead(h, off, n)
            \/ \E off \in Size, buf \in Buffer : FileWrite(h, off, buf)
            \/ \E size \in Size : FileSetSize(h, size)
            \/ FileGetSize(h)
            \/ FileClose(h)
      BY <2>5 DEF HandleCall
    <3>2. ASSUME NEW off \in Size, NEW n \in Size, FileRead(h, off, n) PROVE Exist
      <4> DEFINE p == Split(files[h].path)
                 c == ReadCount(tree[p], off, n)
      <4>1. CASE crossing' = Counted
        BY <1>1, <4>1
      <4>2. CASE crossing' # Counted
        <5>1. /\ h \in DOMAIN files /\ IsFile(tree, p) /\ UNCHANGED sdVars
              /\ crossing' = Moved(files[h].path, off, c, FALSE)
          BY <3>2, <4>2 DEF FileRead, Raises
        <5>2. tree' = tree /\ torn' = torn
          BY <5>1 DEF sdVars
        <5>3. c > 0 /\ p \notin torn => off + c <= tree[p].size
          BY <5>1, ReadIsInside
        <5> HIDE DEF c
        <5>4. /\ crossing'.target = files[h].path /\ crossing'.offset = off
              /\ crossing'.moved = c /\ crossing'.written = FALSE
          BY <1>2, <5>1
        <5> QED BY <5>1, <5>2, <5>3, <5>4 DEF Exist, IsFile
      <4> QED BY <4>1, <4>2
    <3>3. ASSUME NEW off \in Size, NEW buf \in Buffer, FileWrite(h, off, buf) PROVE Exist
      <4>1. CASE crossing' = Counted
        BY <1>1, <4>1
      <4>2. CASE crossing' # Counted
        <5>1. /\ h \in DOMAIN files /\ WriteFile(files[h].path, off, buf)
              /\ crossing' = Moved(files[h].path, off, Len(buf), TRUE)
          BY <3>3, <4>2 DEF FileWrite
        <5>2. files[h].path \in Spelling
          BY <5>1 DEF IInv, FileIInv
        <5>3. /\ IsFile(tree', Split(files[h].path))
              /\ off + Len(buf) <= tree'[Split(files[h].path)].size
              /\ files[h].path \in written'
          BY <5>1, <5>2, WriteIsInside
        <5>4. /\ crossing'.target = files[h].path /\ crossing'.offset = off
              /\ crossing'.moved = Len(buf)
          BY <1>2, <5>1
        <5> QED BY <5>3, <5>4 DEF Exist
      <4> QED BY <4>1, <4>2
    <3> QED BY <1>1, <3>1, <3>2, <3>3
        DEF DirRead, DirIsUnknown, FileIsUnknown, Unknown, FileSetSize, FileGetSize, FileClose, Raises
  <2>6. CASE PlainCall
    BY <1>1, <2>6 DEF PlainCall
  <2>7. CASE \E off \in 0..BaseSize, n \in 0..BaseSize : StorageRead(off, n)
    <3>1. crossing'.target = BaseRomfs
      BY <2>7 DEF StorageRead, Moved
    <3> QED BY <3>1, LabelAssumption DEF Exist
  <2> QED BY <2>1, <2>2, <2>3, <2>4, <2>5, <2>6, <2>7 DEF Next
<1> QED BY Invariance, <1>3, PTL DEF Spec, CrossedBytesExist

=============================================================================
