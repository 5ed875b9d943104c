--------------------------- MODULE SdMirror_proofs ---------------------------
(***************************************************************************)
(* Of any paths, mirrors, mods and bounds: the safety properties of        *)
(* SdMirror.  They are all read off one inductive invariant, which says of *)
(* each stage of a run what the mirror is: what the run found until the    *)
(* flush begins, then that plus the files already taken, in their order,   *)
(* with the open one the only one that may be torn.                        *)
(*                                                                         *)
(* First what they rest on: what the operators of SdTree return, and that  *)
(* each of them leaves every node in directories down from the root.  The  *)
(* mirror is such a tree too, so the proofs rest on these twice.           *)
(***************************************************************************)
EXTENDS SdMirror, TLAPS

-----------------------------------------------------------------------------
(* Paths *)

\* A path is a sequence of names.
LEMMA PathIsSeq ==
  ASSUME NEW p \in Path
  PROVE  p \in Seq(Name) /\ Len(p) \in Nat /\ \A i \in 1..Len(p) : p[i] \in Name
<1> DEFINE Named == Name \ {""}
<1>1. p \in Seq(Named) BY PathAssumption
<1>2. Named \subseteq Name OBVIOUS
<1> HIDE DEF Named
<1>3. Len(p) \in Nat /\ p \in [1..Len(p) -> Named] BY <1>1
<1>4. p \in [1..Len(p) -> Name] BY <1>2, <1>3
<1>5. QED BY <1>3, <1>4

LEMMA AboveDef ==
  ASSUME NEW p \in Path
  PROVE  Above(p) = {q \in Path : Len(q) < Len(p) /\ \A i \in 1..Len(q) : q[i] = p[i]}
  BY DEF Above, Ancestors

LEMMA AboveIsPath ==
  ASSUME NEW p \in Path
  PROVE  Above(p) \subseteq Path /\ p \notin Above(p)
  BY AboveDef, PathIsSeq

LEMMA AboveTransitive ==
  ASSUME NEW p \in Path, NEW q \in Above(p), NEW r \in Above(q)
  PROVE  r \in Above(p)
<1>1. q \in Path BY AboveIsPath
<1>2. r \in Path BY <1>1, AboveIsPath
<1>3. Len(p) \in Nat /\ Len(q) \in Nat /\ Len(r) \in Nat BY <1>1, <1>2, PathIsSeq
<1>4. Len(q) < Len(p) /\ \A i \in 1..Len(q) : q[i] = p[i] BY AboveDef
<1>5. Len(r) < Len(q) /\ \A i \in 1..Len(r) : r[i] = q[i] BY <1>1, AboveDef
<1>6. \A i \in 1..Len(r) : r[i] = p[i] BY <1>3, <1>4, <1>5
<1>7. QED BY <1>2, <1>3, <1>4, <1>5, <1>6, AboveDef

\* Where a spelling is on the SD, and where flush puts it.
LEMMA SpellingTypes ==
  ASSUME NEW s \in Spelling
  PROVE  /\ Split(s) \in Path
         /\ Lands(s) \in Path \cup {Root, Outside}
         /\ Rank[s] \in Nat
         /\ s # <<>>
  BY SpellingAssumption, PathAssumption

\* No two spellings come at once in their order.
LEMMA RankTellsApart ==
  ASSUME NEW r \in Spelling, NEW s \in Spelling, Rank[r] <= Rank[s], Rank[s] <= Rank[r]
  PROVE  r = s
<1>1. Rank[r] \in Nat /\ Rank[s] \in Nat BY SpellingTypes
<1>2. Rank[r] = Rank[s] BY <1>1
<1>3. QED BY <1>2, PathAssumption

-----------------------------------------------------------------------------
(* Types *)

LEMMA NodeTypes ==
  /\ Absent \in Node
  /\ Dir \in Node
  /\ \A data \in Seq(Byte), size \in Nat : File(data, size) \in Node
  /\ \A data \in Seq(Byte) : Whole(data) \in Node
<1>1. <<>> \in Seq(Byte) OBVIOUS
<1>2. \A data \in Seq(Byte) : Len(data) \in Nat OBVIOUS
<1>3. QED BY <1>1, <1>2 DEF Absent, Dir, File, Whole, Node

LEMMA NodeParts ==
  ASSUME NEW n \in Node
  PROVE  n.kind \in {"absent", "dir", "file"} /\ n.data \in Seq(Byte) /\ n.size \in Nat
  BY DEF Node

LEMMA ZerosType ==
  ASSUME NEW n \in Nat
  PROVE  Zeros(n) \in Seq(Byte)
  BY ByteAssumption DEF Zeros

LEMMA BufferType ==
  ASSUME NEW buf \in Buffer
  PROVE  buf \in Seq(Byte)
<1>1. PICK n \in Size : buf \in [1..n -> Byte] BY DEF Buffer
<1>2. n \in Nat BY TreeAssumption DEF Size
<1>3. QED BY <1>1, <1>2

\* What is written is bytes, as many as it takes.
LEMMA OverwriteType ==
  ASSUME NEW data \in Seq(Byte), NEW off \in Nat, NEW buf \in Seq(Byte)
  PROVE  Overwrite(data, off, buf) \in Seq(Byte)
<1> DEFINE end == off + Len(buf)
           n == IF Len(data) < end THEN end ELSE Len(data)
<1>1. n \in Nat OBVIOUS
<1>2. ASSUME NEW i \in 1..n
      PROVE  (IF off < i /\ i <= end THEN buf[i - off]
              ELSE IF i <= Len(data) THEN data[i] ELSE Zero) \in Byte
  <2>1. CASE off < i /\ i <= end
    <3>1. i - off \in 1..Len(buf) BY <2>1
    <3>2. QED BY <2>1, <3>1
  <2>2. CASE ~(off < i /\ i <= end) BY <2>2, ByteAssumption
  <2>3. QED BY <2>1, <2>2
<1>3. QED BY <1>1, <1>2 DEF Overwrite

LEMMA ResizeType ==
  ASSUME NEW data \in Seq(Byte), NEW n \in Nat
  PROVE  Resize(data, n) \in Seq(Byte) /\ Len(Resize(data, n)) = n
<1>1. \A i \in 1..n : (IF i <= Len(data) THEN data[i] ELSE Zero) \in Byte
  BY ByteAssumption
<1>2. QED BY <1>1 DEF Resize

\* Room is made and nothing lost.
LEMMA ExtendType ==
  ASSUME NEW data \in Seq(Byte), NEW end \in Nat
  PROVE  Extend(data, end) \in Seq(Byte) /\ Len(data) <= Len(Extend(data, end))
<1> DEFINE n == IF Len(data) < end THEN end ELSE Len(data)
<1>1. n \in Nat /\ Len(data) <= n OBVIOUS
<1>2. \A i \in 1..n : (IF i <= Len(data) THEN data[i] ELSE Zero) \in Byte
  BY ByteAssumption
<1>3. QED BY <1>1, <1>2 DEF Extend

LEMMA PlaceType ==
  ASSUME NEW t \in [Path -> Node], NEW p \in Path, NEW node \in Node
  PROVE  Place(t, p, node) \in [Path -> Node]
  BY NodeTypes DEF Place

LEMMA UnlinkType ==
  ASSUME NEW t \in [Path -> Node], NEW p \in Path
  PROVE  Unlink(t, p) \in [Path -> Node]
  BY NodeTypes DEF Unlink

LEMMA EnsureDirType ==
  ASSUME NEW t \in [Path -> Node], NEW p \in Path
  PROVE  EnsureDir(t, p) \in [Path -> Node]
  BY NodeTypes DEF EnsureDir

LEMMA LoadedType ==
  ASSUME NEW m \in [Path -> Node], NEW kept \in Loads(m)
  PROVE  LoadedOf(m, kept) \in [Path -> Node]
<1>1. kept \subseteq Path BY DEF Loads, TakenFiles
<1>2. \A h \in Path : Whole(m[h].data) \in Node BY NodeTypes, NodeParts
<1>3. \A p \in Path : (\E h \in kept : Guest(h) = p) =>
        Whole(m[CHOOSE h \in kept : Guest(h) = p].data) \in Node
  BY <1>1, <1>2
<1>4. QED BY <1>3, NodeTypes DEF LoadedOf

LEMMA EmptyButSettingsType ==
  ASSUME NEW m \in [Path -> Node]
  PROVE  EmptyButSettings(m) \in [Path -> Node]
  BY NodeTypes DEF EmptyButSettings

-----------------------------------------------------------------------------
(* Rooted trees *)

LEMMA RootedPlace ==
  ASSUME NEW t \in [Path -> Node], RootedTree(t), NEW p \in Path, NEW node \in Node, CanPlace(t, p)
  PROVE  RootedTree(Place(t, p, node))
<1> DEFINE u == Place(t, p, node)
<1>1. \A q \in Path : u[q] = IF q = p THEN node
                             ELSE IF q \in Above(p) /\ ~Found(t, q) THEN Dir
                             ELSE IF p \in Above(q) THEN Absent
                             ELSE t[q]
  BY DEF Place
<1>2. ASSUME NEW q \in Above(p) PROVE IsDir(u, q)
  <2>1. q \in Path /\ q # p BY AboveIsPath
  <2>2. p \notin Above(q) BY <2>1, AboveTransitive, AboveIsPath
  <2>3. CASE Found(t, q)
    <3>1. u[q] = t[q] BY <1>1, <2>1, <2>2, <2>3
    <3>2. ~IsFile(t, q) BY DEF CanPlace
    <3>3. QED BY <2>1, <2>3, <3>1, <3>2, NodeParts DEF Found, IsFile, IsDir
  <2>4. CASE ~Found(t, q) BY <1>1, <2>1, <2>4 DEF IsDir, Dir
  <2>5. QED BY <2>3, <2>4
<1>3. ASSUME NEW x \in Path, Found(u, x), NEW y \in Above(x) PROVE IsDir(u, y)
  <2>1. y \in Path /\ y # x BY AboveIsPath
  <2>2. CASE x = p BY <1>2, <2>2
  <2>3. CASE x \in Above(p) BY <1>2, <2>3, AboveTransitive
  <2>4. CASE x # p /\ x \notin Above(p)
    <3>1. p \notin Above(x) /\ u[x] = t[x] BY <1>1, <1>3, <2>4 DEF Found, Absent
    <3>2. IsDir(t, y) BY <1>3, <3>1 DEF RootedTree, Found
    <3>3. Found(t, y) BY <3>2 DEF IsDir, Found
    <3>4. y # p BY <3>1
    <3>5. p \notin Above(y) BY <3>1, AboveTransitive
    <3>6. u[y] = t[y] BY <1>1, <2>1, <3>3, <3>4, <3>5
    <3>7. QED BY <3>2, <3>6 DEF IsDir
  <2>5. QED BY <2>2, <2>3, <2>4
<1>4. QED BY <1>3 DEF RootedTree

LEMMA RootedUnlink ==
  ASSUME NEW t \in [Path -> Node], RootedTree(t), NEW p \in Path
  PROVE  RootedTree(Unlink(t, p))
<1> DEFINE u == Unlink(t, p)
<1>1. \A q \in Path : u[q] = IF q = p \/ p \in Above(q) THEN Absent ELSE t[q]
  BY DEF Unlink
<1>2. ASSUME NEW x \in Path, Found(u, x), NEW y \in Above(x) PROVE IsDir(u, y)
  <2>1. y \in Path BY AboveIsPath
  <2>2. x # p /\ p \notin Above(x) /\ u[x] = t[x] BY <1>1, <1>2 DEF Found, Absent
  <2>3. IsDir(t, y) BY <1>2, <2>2 DEF RootedTree, Found
  <2>4. y # p BY <2>2
  <2>5. p \notin Above(y) BY <2>2, AboveTransitive
  <2>6. QED BY <1>1, <2>1, <2>3, <2>4, <2>5 DEF IsDir
<1>3. QED BY <1>2 DEF RootedTree

LEMMA RootedEnsureDir ==
  ASSUME NEW t \in [Path -> Node], RootedTree(t), NEW p \in Path, CanPlace(t, p)
  PROVE  RootedTree(EnsureDir(t, p))
<1> DEFINE u == EnsureDir(t, p)
<1>1. \A q \in Path : u[q] = IF q \in Above(p) \cup {p} /\ ~Found(t, q) THEN Dir ELSE t[q]
  BY DEF EnsureDir
<1>2. ASSUME NEW q \in Above(p) PROVE IsDir(u, q)
  <2>1. q \in Path BY AboveIsPath
  <2>2. CASE Found(t, q)
    <3>1. ~IsFile(t, q) BY DEF CanPlace
    <3>2. QED BY <1>1, <2>1, <2>2, <3>1, NodeParts DEF Found, IsFile, IsDir
  <2>3. CASE ~Found(t, q) BY <1>1, <2>1, <2>3 DEF IsDir, Dir
  <2>4. QED BY <2>2, <2>3
<1>3. ASSUME NEW x \in Path, Found(u, x), NEW y \in Above(x) PROVE IsDir(u, y)
  <2>1. y \in Path BY AboveIsPath
  <2>2. CASE x \in Above(p) \cup {p} BY <1>2, <2>2, AboveTransitive
  <2>3. CASE x \notin Above(p) \cup {p}
    <3>1. Found(t, x) BY <1>1, <1>3, <2>3 DEF Found
    <3>2. IsDir(t, y) BY <1>3, <3>1 DEF RootedTree
    <3>3. QED BY <1>1, <2>1, <3>2 DEF IsDir, Found
  <2>4. QED BY <2>2, <2>3
<1>4. QED BY <1>3 DEF RootedTree

\* A file's bytes change and nothing else does.
LEMMA RootedRewrite ==
  ASSUME NEW t \in [Path -> Node], RootedTree(t), NEW p \in Path, IsFile(t, p),
         NEW node \in Node, node.kind = "file"
  PROVE  RootedTree([t EXCEPT ![p] = node])
<1> DEFINE u == [t EXCEPT ![p] = node]
<1>1. \A q \in Path : u[q].kind = t[q].kind BY DEF IsFile
<1>2. \A q \in Path : Above(q) \subseteq Path BY AboveIsPath
<1>3. QED BY <1>1, <1>2 DEF RootedTree, Found, IsDir

\* What a run reads off a mirror it can hold: of the files it takes none is
\* taken as lying below another.
LEMMA RootedLoaded ==
  ASSUME NEW m \in [Path -> Node], NEW kept \in Loads(m)
  PROVE  RootedTree(LoadedOf(m, kept))
<1> DEFINE u == LoadedOf(m, kept)
           Is(p) == \E h \in kept : Guest(h) = p
           On(p) == \E h \in kept : p \in Above(Guest(h))
<1>1. /\ \A p \in Path : ~Is(p) => u[p] = IF On(p) THEN Dir ELSE Absent
  BY DEF LoadedOf
<1>2. kept \subseteq Path BY DEF Loads, TakenFiles
<1>3. \A h \in kept : Guest(h) \in Path BY <1>2, SpellingAssumption
<1>4. ASSUME NEW h \in kept, NEW y \in Above(Guest(h)) PROVE IsDir(u, y)
  <2>1. y \in Path BY <1>3, AboveIsPath
  <2>2. ASSUME NEW g \in kept, Guest(g) = y PROVE FALSE
    <3>1. Covers(g, h) BY <2>2 DEF Covers
    <3>2. g = h BY <3>1 DEF Loads
    <3>3. QED BY <1>3, <2>2, <3>2, AboveIsPath
  <2>3. ~Is(y) /\ On(y) BY <2>2
  <2>4. QED BY <1>1, <2>1, <2>3 DEF IsDir, Dir
<1>5. ASSUME NEW x \in Path, Found(u, x), NEW y \in Above(x) PROVE IsDir(u, y)
  <2>1. CASE Is(x) BY <1>4, <2>1
  <2>2. CASE ~Is(x)
    <3>1. PICK h \in kept : x \in Above(Guest(h)) BY <1>1, <1>5, <2>2 DEF Found, Absent
    <3>2. y \in Above(Guest(h)) BY <1>3, <3>1, AboveTransitive
    <3>3. QED BY <1>4, <3>2
  <2>3. QED BY <2>1, <2>2
<1>6. QED BY <1>5 DEF RootedTree

\* What a fresh SD keeps of a mirror is the settings file, where it was.
LEMMA RootedEmptyButSettings ==
  ASSUME NEW m \in [Path -> Node], RootedTree(m)
  PROVE  RootedTree(EmptyButSettings(m))
<1> DEFINE u == EmptyButSettings(m)
<1>1. \A p \in Path : u[p] = IF IsFile(m, SettingsIni) /\ p \in Above(SettingsIni) \cup {SettingsIni}
                             THEN m[p] ELSE Absent
  BY DEF EmptyButSettings
<1>2. SettingsIni \in Path BY SettingsAssumption
<1>3. ASSUME NEW x \in Path, Found(u, x), NEW y \in Above(x) PROVE IsDir(u, y)
  <2>1. y \in Path BY AboveIsPath
  <2>2. IsFile(m, SettingsIni) /\ x \in Above(SettingsIni) \cup {SettingsIni}
    BY <1>1, <1>3 DEF Found, Absent
  <2>3. y \in Above(SettingsIni) BY <1>2, <1>3, <2>2, AboveTransitive
  <2>4. IsDir(m, y) BY <1>2, <2>2, <2>3 DEF RootedTree, IsFile, Found
  <2>5. QED BY <1>1, <2>1, <2>2, <2>3, <2>4 DEF IsDir
<1>4. QED BY <1>3 DEF RootedTree

-----------------------------------------------------------------------------
(* What every call keeps of the SD *)

TreeTypes ==
  /\ tree \in [Path -> Node]
  /\ written \subseteq Spelling
  /\ placed \subseteq Path
  /\ torn \subseteq Path

\* A node holds no less than its size says, and no more unless it is torn.
Fits(node, isTorn) ==
  node.size <= Len(node.data) /\ (~isTorn => node.size = Len(node.data))

\* Every file but the mods the launch put holds all of its bytes.
OwnFits == \A p \in Path \ placed : IsFile(tree, p) => Fits(tree[p], p \in torn)

\* A mod file is this run's or the build's.
FreshMods ==
  \A p \in Path : IsFile(tree, p) /\ IsModInput(p) => p \in placed \cup {Split(s) : s \in written}

TreeInv == TreeTypes /\ RootedTree(tree) /\ OwnFits /\ FreshMods

LEMMA WholeFits ==
  ASSUME NEW data \in Seq(Byte), NEW isTorn \in BOOLEAN
  PROVE  Whole(data).kind = "file" /\ Whole(data).data = data /\ Fits(Whole(data), isTorn)
<1>1. Whole(data).kind = "file" /\ Whole(data).data = data /\ Whole(data).size = Len(data)
  BY DEF Whole, File
<1>2. Len(data) \in Nat OBVIOUS
<1>3. QED BY <1>1, <1>2 DEF Fits

LEMMA PutModKeeps ==
  ASSUME TreeInv, NEW p \in Path, NEW size \in Nat, PutMod(p, size)
  PROVE  TreeInv'
<1> DEFINE node == File(<<>>, size)
<1>1. <<>> \in Seq(Byte) OBVIOUS
<1>2. node \in Node BY <1>1, NodeTypes
<1>3. /\ tree' = Place(tree, p, node) /\ CanPlace(tree, p)
      /\ placed' = placed \cup {p} /\ torn' = torn \ {p} /\ written' = written
  BY DEF PutMod
<1> HIDE DEF node
<1>4. TreeTypes' BY <1>2, <1>3, PlaceType DEF TreeInv, TreeTypes
<1>5. RootedTree(tree)' BY <1>2, <1>3, RootedPlace DEF TreeInv, TreeTypes
<1>6. \A q \in Path \ {p} : IsFile(tree', q) => tree'[q] = tree[q]
  BY <1>3 DEF Place, IsFile, Dir, Absent
<1>7. OwnFits' BY <1>3, <1>6 DEF TreeInv, OwnFits, IsFile
<1>8. FreshMods' BY <1>3, <1>6 DEF TreeInv, FreshMods, IsFile
<1>9. QED BY <1>4, <1>5, <1>7, <1>8 DEF TreeInv

LEMMA CreateFileKeeps ==
  ASSUME TreeInv, NEW s \in Spelling, NEW size \in Nat, CreateFile(s, size)
  PROVE  TreeInv'
<1> DEFINE p == Split(s)
           node == Whole(Zeros(size))
<1>1. p \in Path BY SpellingTypes
<1>2. Zeros(size) \in Seq(Byte) /\ node \in Node BY ZerosType, NodeTypes
<1>3. Fits(node, FALSE) BY <1>2, WholeFits
<1>4. /\ tree' = Place(tree, p, node) /\ CanPlace(tree, p)
      /\ written' = written \cup {s} /\ placed' = placed \ {p} /\ torn' = torn \ {p}
  BY DEF CreateFile, IsNowWhole
<1> HIDE DEF node
<1>5. TreeTypes' BY <1>1, <1>2, <1>4, PlaceType DEF TreeInv, TreeTypes
<1>6. RootedTree(tree)' BY <1>1, <1>2, <1>4, RootedPlace DEF TreeInv, TreeTypes
<1>7. \A q \in Path \ {p} : IsFile(tree', q) => tree'[q] = tree[q]
  BY <1>4 DEF Place, IsFile, Dir, Absent
<1>8. tree'[p] = node BY <1>1, <1>4 DEF Place
<1>9. OwnFits'
  <2>1. ASSUME NEW q \in Path, q \notin placed', IsFile(tree', q)
        PROVE  Fits(tree'[q], q \in torn')
    <3>1. CASE q = p BY <1>3, <1>4, <1>8, <3>1 DEF Fits
    <3>2. CASE q # p
      <4>1. tree'[q] = tree[q] /\ IsFile(tree, q) BY <1>7, <2>1, <3>2 DEF IsFile
      <4>2. q \notin placed /\ (q \in torn' <=> q \in torn) BY <1>4, <2>1, <3>2
      <4>3. QED BY <4>1, <4>2 DEF TreeInv, OwnFits, Fits
    <3>3. QED BY <3>1, <3>2
  <2>2. QED BY <2>1 DEF OwnFits
<1>10. FreshMods' BY <1>4, <1>7 DEF TreeInv, FreshMods, IsFile
<1>11. QED BY <1>5, <1>6, <1>9, <1>10 DEF TreeInv

\* A file's bytes are replaced, and it is no mod of the launch's any more unless
\* it stays one.
LEMMA RewriteKeeps ==
  ASSUME TreeInv, NEW s \in Spelling, IsFile(tree, Split(s)),
         NEW node \in Node, node.kind = "file", NEW isTorn \in BOOLEAN,
         Split(s) \notin placed => Fits(node, isTorn),
         placed' # placed => Fits(node, isTorn),
         tree' = [tree EXCEPT ![Split(s)] = node],
         \/ written' = written /\ placed' = placed
         \/ written' = written \cup {s} /\ placed' \in {placed, placed \ {Split(s)}},
         torn' = IF isTorn THEN torn \cup {Split(s)} ELSE torn \ {Split(s)}
  PROVE  TreeInv'
<1> DEFINE p == Split(s)
<1>1. p \in Path BY SpellingTypes
<1>2. TreeTypes' BY <1>1 DEF TreeInv, TreeTypes
<1>3. RootedTree(tree)'
  <2>1. tree \in [Path -> Node] /\ RootedTree(tree) BY DEF TreeInv, TreeTypes
  <2>2. RootedTree([tree EXCEPT ![p] = node]) BY <1>1, <2>1, RootedRewrite
  <2>3. QED BY <2>2
<1>4. \A q \in Path : tree'[q] = IF q = p THEN node ELSE tree[q] BY DEF TreeInv, TreeTypes
<1>5. OwnFits'
  <2>1. ASSUME NEW q \in Path, q \notin placed', IsFile(tree', q)
        PROVE  Fits(tree'[q], q \in torn')
    <3>1. CASE q = p
      <4>1. Fits(node, isTorn) BY <2>1, <3>1
      <4>2. (q \in torn') = isTorn BY <3>1
      <4>3. QED BY <1>4, <3>1, <4>1, <4>2
    <3>2. CASE q # p
      <4>1. tree'[q] = tree[q] /\ IsFile(tree, q) BY <1>4, <2>1, <3>2 DEF IsFile
      <4>2. q \notin placed /\ (q \in torn' <=> q \in torn) BY <2>1, <3>2
      <4>3. QED BY <4>1, <4>2 DEF TreeInv, OwnFits, Fits
    <3>3. QED BY <3>1, <3>2
  <2>2. QED BY <2>1 DEF OwnFits
<1>6. FreshMods'
  <2>1. ASSUME NEW q \in Path, IsFile(tree', q), IsModInput(q)
        PROVE  q \in placed' \cup {Split(r) : r \in written'}
    <3>1. IsFile(tree, q) BY <1>4, <2>1 DEF IsFile
    <3>2. q \in placed \cup {Split(r) : r \in written} BY <2>1, <3>1 DEF TreeInv, FreshMods
    <3>3. QED BY <3>2
  <2>2. QED BY <2>1 DEF FreshMods
<1>7. QED BY <1>2, <1>3, <1>5, <1>6 DEF TreeInv

LEMMA WriteFileKeeps ==
  ASSUME TreeInv, NEW s \in Spelling, NEW off \in Nat, NEW buf \in Buffer, WriteFile(s, off, buf)
  PROVE  TreeInv'
<1> DEFINE data == Overwrite(tree[Split(s)].data, off, buf)
           node == Whole(data)
<1>1. data \in Seq(Byte)
  BY SpellingTypes, OverwriteType, BufferType, NodeParts DEF TreeInv, TreeTypes
<1>2. node \in Node /\ node.kind = "file" /\ Fits(node, FALSE) BY <1>1, NodeTypes, WholeFits
<1>3. /\ IsFile(tree, Split(s)) /\ tree' = [tree EXCEPT ![Split(s)] = node]
      /\ written' = written \cup {s} /\ placed' = placed \ {Split(s)} /\ torn' = torn \ {Split(s)}
  BY DEF WriteFile, IsNowWhole, TreeInv, TreeTypes
<1> HIDE DEF node
<1>4. QED BY <1>2, <1>3, RewriteKeeps

\* A write that is cut short leaves more room than the file's size says.
LEMMA WriteIsCutKeeps ==
  ASSUME TreeInv, NEW s \in Spelling, NEW end \in Nat, WriteIsCut(s, end)
  PROVE  TreeInv'
<1> DEFINE old == tree[Split(s)]
           data == Extend(old.data, end)
           node == File(data, old.size)
<1>1. old.data \in Seq(Byte) /\ old.size \in Nat /\ Split(s) \in Path
  BY SpellingTypes, NodeParts DEF TreeInv, TreeTypes
<1>2. data \in Seq(Byte) /\ Len(old.data) <= Len(data) BY <1>1, ExtendType
<1>3. node \in Node BY <1>1, <1>2, NodeTypes
<1>4. node.kind = "file" /\ node.size = old.size /\ node.data = data BY DEF File
<1>5. /\ IsFile(tree, Split(s)) /\ tree' = [tree EXCEPT ![Split(s)] = node]
      /\ written' = written \cup {s} /\ placed' = placed /\ torn' = torn \cup {Split(s)}
  BY DEF WriteIsCut, TreeInv, TreeTypes
<1>6. Split(s) \notin placed => Fits(node, TRUE)
  <2>1. ASSUME Split(s) \notin placed PROVE old.size <= Len(old.data)
    BY <1>1, <1>5, <2>1 DEF TreeInv, OwnFits, Fits
  <2>2. Len(old.data) \in Nat /\ Len(data) \in Nat BY <1>1, <1>2
  <2>3. QED BY <1>1, <1>2, <1>4, <2>1, <2>2 DEF Fits
<1> HIDE DEF node
<1>7. QED BY <1>3, <1>4, <1>5, <1>6, RewriteKeeps

LEMMA SetFileSizeKeeps ==
  ASSUME TreeInv, NEW s \in Spelling, NEW size \in Nat, SetFileSize(s, size)
  PROVE  TreeInv'
<1> DEFINE data == Resize(tree[Split(s)].data, size)
           node == Whole(data)
<1>1. data \in Seq(Byte) /\ Len(data) = size
  BY SpellingTypes, ResizeType, NodeParts DEF TreeInv, TreeTypes
<1>2. node \in Node /\ node.kind = "file" /\ Fits(node, FALSE) BY <1>1, NodeTypes, WholeFits
<1>3. File(data, size) = node BY <1>1 DEF Whole
<1>4. /\ IsFile(tree, Split(s)) /\ tree' = [tree EXCEPT ![Split(s)] = File(data, size)]
      /\ written' = written /\ placed' = placed /\ torn' = torn \ {Split(s)}
  BY DEF SetFileSize, TreeInv, TreeTypes
<1> HIDE DEF node, data
<1>5. QED BY <1>2, <1>3, <1>4, RewriteKeeps

\* Files go, and directories come: the files that are left are what they were.
LEMMA LeavingFilesKeeps ==
  ASSUME TreeInv, tree' \in [Path -> Node], RootedTree(tree'), UNCHANGED <<written, placed, torn>>,
         \A q \in Path : IsFile(tree', q) => tree'[q] = tree[q]
  PROVE  TreeInv'
<1>1. TreeTypes' BY DEF TreeInv, TreeTypes
<1>2. RootedTree(tree)' BY DEF RootedTree, Found, IsDir
<1>3. OwnFits' BY DEF TreeInv, OwnFits, IsFile
<1>4. FreshMods' BY DEF TreeInv, FreshMods, IsFile
<1>5. QED BY <1>1, <1>2, <1>3, <1>4 DEF TreeInv

LEMMA DeleteFileKeeps ==
  ASSUME TreeInv, NEW s \in Spelling, DeleteFile(s)
  PROVE  TreeInv'
<1>1. Split(s) \in Path BY SpellingTypes
<1>2. tree' = Unlink(tree, Split(s)) /\ UNCHANGED <<written, placed, torn>> BY DEF DeleteFile
<1>3. tree' \in [Path -> Node] BY <1>1, <1>2, UnlinkType DEF TreeInv, TreeTypes
<1>4. RootedTree(tree') BY <1>1, <1>2, RootedUnlink DEF TreeInv, TreeTypes
<1>5. \A q \in Path : IsFile(tree', q) => tree'[q] = tree[q]
  BY <1>2 DEF Unlink, IsFile, Absent
<1>6. QED BY <1>2, <1>3, <1>4, <1>5, LeavingFilesKeeps

LEMMA CreateDirectoryKeeps ==
  ASSUME TreeInv, NEW s \in Spelling, CreateDirectory(s)
  PROVE  TreeInv'
<1>1. Split(s) \in Path BY SpellingTypes
<1>2. /\ tree' = EnsureDir(tree, Split(s)) /\ CanPlace(tree, Split(s))
      /\ UNCHANGED <<written, placed, torn>>
  BY DEF CreateDirectory
<1>3. tree' \in [Path -> Node] BY <1>1, <1>2, EnsureDirType DEF TreeInv, TreeTypes
<1>4. RootedTree(tree') BY <1>1, <1>2, RootedEnsureDir DEF TreeInv, TreeTypes
<1>5. \A q \in Path : IsFile(tree', q) => tree'[q] = tree[q]
  BY <1>2 DEF EnsureDir, IsFile, Dir
<1>6. QED BY <1>2, <1>3, <1>4, <1>5, LeavingFilesKeeps

\* No call of the build leaves the SD without what the invariant says.
LEMMA TargetStepKeeps ==
  ASSUME TreeInv, TargetStep
  PROVE  TreeInv'
<1>1. TargetPath \subseteq Spelling /\ Size \subseteq Nat BY TreeAssumption DEF Size
<1>2. PICK s \in Spelling :
        \/ \E size \in Nat : CreateFile(s, size) \/ SetFileSize(s, size)
        \/ \E off \in Nat, buf \in Buffer : WriteFile(s, off, buf)
        \/ DeleteFile(s)
        \/ CreateDirectory(s)
  BY <1>1 DEF TargetStep
<1>3. CASE \E size \in Nat : CreateFile(s, size) \/ SetFileSize(s, size)
  BY <1>3, CreateFileKeeps, SetFileSizeKeeps
<1>4. CASE \E off \in Nat, buf \in Buffer : WriteFile(s, off, buf) BY <1>4, WriteFileKeeps
<1>5. CASE DeleteFile(s) BY <1>5, DeleteFileKeeps
<1>6. CASE CreateDirectory(s) BY <1>6, CreateDirectoryKeeps
<1>7. QED BY <1>2, <1>3, <1>4, <1>5, <1>6

LEMMA CutStepKeeps ==
  ASSUME TreeInv, CutStep
  PROVE  TreeInv'
<1>1. TargetPath \subseteq Spelling /\ Size \subseteq Nat BY TreeAssumption DEF Size
<1>2. PICK s \in Spelling, end \in Nat : WriteIsCut(s, end) BY <1>1 DEF CutStep
<1>3. QED BY <1>2, WriteIsCutKeeps

-----------------------------------------------------------------------------
(* The invariant *)

MirrorTypes ==
  /\ stage \in Stage
  /\ calls \in 0..MaxCalls
  /\ attached \in BOOLEAN
  /\ mirror \in [Path -> Node]
  /\ pending \subseteq Spelling
  /\ opened \in Spelling \cup {NoFile}
  /\ before \in [Path -> Node]

\* Where the process is and what it holds.
Staged ==
  /\ stage \in {"loaded", "launched", "running"} => mirror = before
  /\ stage # "flushing" => pending = {} /\ opened = NoFile
  /\ stage = "flushing" => attached /\ pending \subseteq WrittenFiles(tree, written)
  /\ opened # NoFile => /\ IsNext(opened) /\ ~StaysBehind(opened)
                        /\ Lands(opened) \in Path
                        /\ IsFile(mirror, Lands(opened))

\* The files flush has come to the end of.
Taken == WrittenFiles(tree, written) \ pending

\* None that was taken since s lands where it does, and none is on its way there.
StillThere(s) ==
  /\ \A r \in Taken : ~StaysBehind(r) /\ Lands(r) = Lands(s) => Rank[r] <= Rank[s]
  /\ opened # NoFile => Lands(opened) # Lands(s)

\* They come before those it has not come to, and the last to land anywhere is
\* there.
FlushedSoFar ==
  stage \in {"flushing", "done"} /\ attached =>
    /\ \A s \in Taken, q \in pending : Rank[s] <= Rank[q]
    /\ \A s \in Taken :
         ~StaysBehind(s) /\ StillThere(s) =>
           Lands(s) \in Path /\ mirror[Lands(s)] = Whole(tree[Split(s)].data)

\* As in AtMostOneTorn.
IsTorn(h) ==
  /\ IsFile(mirror, h)
  /\ mirror[h] # before[h]
  /\ \A s \in WrittenFiles(tree, written) : Lands(s) = h => mirror[h].data # tree[Split(s)].data

OnlyOpenedTorn ==
  /\ stage # "off" => \A h \in Path : IsTorn(h) => opened # NoFile /\ h = Lands(opened)
  /\ stage = "off" => \A g, h \in Path : IsTorn(g) /\ IsTorn(h) => g = h

MirrorInv ==
  /\ MirrorTypes
  /\ RootedTree(mirror)
  /\ Staged
  /\ FlushedSoFar
  /\ OnlyOpenedTorn
  /\ MirrorChangesOnlyByFlush

IInv == TreeInv /\ MirrorInv

-----------------------------------------------------------------------------
(* Facts about flush *)

LEMMA NoFileIsNoSpelling == NoFile \notin Spelling
  BY SpellingAssumption DEF NoFile

\* Where a file can be opened is a path of the mirror.
LEMMA OpensOnPath ==
  ASSUME NEW s \in Spelling, ~StaysBehind(s), CanOpen(Lands(s))
  PROVE  /\ Lands(s) \in Path /\ CanPlace(mirror, Lands(s)) /\ ~IsDir(mirror, Lands(s))
         /\ ~IsModInput(s)
  BY SpellingTypes DEF StaysBehind, CanOpen

\* Opening a file on the mirror changes no other file there.
LEMMA OpeningKeepsFiles ==
  ASSUME NEW m \in [Path -> Node], RootedTree(m), NEW h \in Path, NEW node \in Node,
         CanPlace(m, h), ~IsDir(m, h), NEW g \in Path, g # h
  PROVE  /\ IsFile(Place(m, h, node), g) <=> IsFile(m, g)
         /\ IsFile(m, g) => Place(m, h, node)[g] = m[g]
<1> DEFINE u == Place(m, h, node)
<1>1. u[g] = IF g \in Above(h) /\ ~Found(m, g) THEN Dir
             ELSE IF h \in Above(g) THEN Absent
             ELSE m[g]
  BY DEF Place
<1>2. IsFile(m, g) => h \notin Above(g)
  BY DEF RootedTree, IsFile, Found
<1>3. IsFile(m, g) => Found(m, g) BY DEF IsFile, Found
<1>4. IsFile(m, g) => u[g] = m[g] BY <1>1, <1>2, <1>3
<1>5. IsFile(u, g) => u[g] = m[g] BY <1>1 DEF IsFile, Dir, Absent
<1>6. QED BY <1>4, <1>5 DEF IsFile

-----------------------------------------------------------------------------
(* The initial states, and the starts of runs *)

LEMMA InitIInv == Init => IInv
<1> SUFFICES ASSUME Init PROVE IInv OBVIOUS
<1>1. tree = Empty /\ Empty \in [Path -> Node] /\ \A p \in Path : ~Found(tree, p) /\ ~IsFile(tree, p)
  BY NodeTypes DEF Init, Empty, Absent, Found, IsFile
<1>2. TreeInv
  BY <1>1 DEF Init, TreeInv, TreeTypes, RootedTree, OwnFits, FreshMods
<1>3. MirrorTypes /\ RootedTree(mirror)
  <2>1. mirror \in [Path -> Node] /\ RootedTree(mirror) BY MirrorAssumption DEF Init
  <2>2. calls \in 0..MaxCalls BY MirrorAssumption DEF Init
  <2>3. QED BY <2>1, <2>2 DEF Init, MirrorTypes, Stage
<1>4. Staged /\ FlushedSoFar BY DEF Init, Staged, FlushedSoFar
<1>5. OnlyOpenedTorn /\ MirrorChangesOnlyByFlush
  BY DEF Init, OnlyOpenedTorn, IsTorn, MirrorChangesOnlyByFlush
<1>6. QED BY <1>2, <1>3, <1>4, <1>5 DEF IInv, MirrorInv

\* A run starts on what is left of the mirror, with what it reads off it.
LEMMA StartKeeps ==
  ASSUME IInv, NEW found \in [Path -> Node], RootedTree(found), NEW isAttached \in BOOLEAN,
         NEW sd \in [Path -> Node], RootedTree(sd),
         \A p \in Path : IsFile(sd, p) => ~IsModInput(p) /\ Fits(sd[p], FALSE),
         StartOn(found, isAttached, sd)
  PROVE  IInv'
<1>1. /\ mirror' = found /\ before' = found /\ tree' = sd
      /\ written' = {} /\ placed' = {} /\ torn' = {} /\ stage' = "loaded"
      /\ calls' = 0 /\ attached' = isAttached /\ pending' = {} /\ opened' = NoFile
  BY DEF StartOn, IInv, MirrorInv, Staged
<1>2. TreeTypes' BY <1>1 DEF TreeTypes
<1>3. RootedTree(tree)' /\ RootedTree(mirror)' BY <1>1 DEF RootedTree, Found, IsDir
<1>4. OwnFits' BY <1>1 DEF OwnFits, IsFile, Fits
<1>5. FreshMods' BY <1>1 DEF FreshMods, IsFile
<1>6. TreeInv' BY <1>2, <1>3, <1>4, <1>5 DEF TreeInv
<1>7. MirrorTypes' BY <1>1, MirrorAssumption DEF MirrorTypes, Stage
<1>8. Staged' /\ FlushedSoFar' BY <1>1 DEF Staged, FlushedSoFar
<1>9. OnlyOpenedTorn' /\ MirrorChangesOnlyByFlush'
  BY <1>1 DEF OnlyOpenedTorn, IsTorn, MirrorChangesOnlyByFlush
<1>10. QED BY <1>3, <1>6, <1>7, <1>8, <1>9 DEF IInv, MirrorInv

\* What is left of a mirror is one.
LEMMA FoundIsMirror ==
  ASSUME IInv, NEW fresh \in BOOLEAN
  PROVE  AsFound(mirror, fresh) \in [Path -> Node] /\ RootedTree(AsFound(mirror, fresh))
<1>1. mirror \in [Path -> Node] /\ RootedTree(mirror) BY DEF IInv, MirrorInv, MirrorTypes
<1>2. QED BY <1>1, EmptyButSettingsType, RootedEmptyButSettings DEF AsFound

\* What is taken off a mirror is no mod, and whole.
LEMMA LoadedFits ==
  ASSUME NEW m \in [Path -> Node], NEW kept \in Loads(m), NEW p \in Path,
         IsFile(LoadedOf(m, kept), p)
  PROVE  ~IsModInput(p) /\ Fits(LoadedOf(m, kept)[p], FALSE)
<1> DEFINE h == CHOOSE g \in kept : Guest(g) = p
<1>1. \E g \in kept : Guest(g) = p BY DEF LoadedOf, IsFile, Dir, Absent
<1>2. h \in kept /\ Guest(h) = p BY <1>1
<1>3. h \in Path /\ ~IsModInput(Guest(h)) BY <1>2 DEF Loads, TakenFiles
<1>4. LoadedOf(m, kept)[p] = Whole(m[h].data) BY <1>1 DEF LoadedOf
<1>5. m[h].data \in Seq(Byte) BY <1>3, NodeParts
<1> HIDE DEF h
<1>6. QED BY <1>2, <1>3, <1>4, <1>5, WholeFits

LEMMA StartsKeep ==
  ASSUME IInv, StartInMemory \/ \E fresh \in BOOLEAN : StartWithMirror(fresh)
  PROVE  IInv'
<1>1. mirror \in [Path -> Node] /\ RootedTree(mirror) BY DEF IInv, MirrorInv, MirrorTypes
<1>2. CASE StartInMemory
  <2>1. Empty \in [Path -> Node] /\ RootedTree(Empty) /\ \A p \in Path : ~IsFile(Empty, p)
    BY NodeTypes DEF Empty, Absent, Found, IsFile, RootedTree
  <2>2. QED BY <1>1, <1>2, <2>1, StartKeeps DEF StartInMemory
<1>3. CASE \E fresh \in BOOLEAN : StartWithMirror(fresh)
  <2>1. PICK fresh \in BOOLEAN : StartWithMirror(fresh) BY <1>3
  <2> DEFINE found == AsFound(mirror, fresh)
  <2>2. PICK kept \in Loads(found) : StartOn(found, TRUE, LoadedOf(found, kept))
    BY <2>1 DEF StartWithMirror
  <2>3. found \in [Path -> Node] /\ RootedTree(found) BY FoundIsMirror
  <2> HIDE DEF found
  <2>4. LoadedOf(found, kept) \in [Path -> Node] /\ RootedTree(LoadedOf(found, kept))
    BY <2>3, LoadedType, RootedLoaded
  <2>5. \A p \in Path : IsFile(LoadedOf(found, kept), p) =>
          ~IsModInput(p) /\ Fits(LoadedOf(found, kept)[p], FALSE)
    BY <2>3, LoadedFits
  <2>6. QED BY <2>2, <2>3, <2>4, <2>5, StartKeeps
<1>4. QED BY <1>2, <1>3

\* A load that raises leaves the mirror as it was found, with no run on it.
LEMMA StartRaisesKeeps ==
  ASSUME IInv, NEW fresh \in BOOLEAN, StartRaises(fresh)
  PROVE  IInv'
<1>1. /\ mirror' = AsFound(mirror, fresh) /\ before' = mirror' /\ stage' = "off"
      /\ pending = {} /\ opened = NoFile
      /\ UNCHANGED <<sdVars, calls, attached, pending, opened>>
  BY DEF StartRaises, IInv, MirrorInv, Staged
<1>2. UNCHANGED <<tree, written, placed, torn>> BY <1>1 DEF sdVars
<1>3. mirror' \in [Path -> Node] /\ RootedTree(mirror') BY <1>1, FoundIsMirror
<1>4. TreeInv'
  BY <1>2 DEF IInv, TreeInv, TreeTypes, RootedTree, OwnFits, Fits, FreshMods, Found, IsFile, IsDir
<1>5. MirrorTypes' BY <1>1, <1>3 DEF IInv, MirrorInv, MirrorTypes, Stage
<1>6. RootedTree(mirror)' BY <1>3 DEF RootedTree, Found, IsDir
<1>7. Staged' /\ FlushedSoFar' BY <1>1 DEF Staged, FlushedSoFar
<1>8. OnlyOpenedTorn' /\ MirrorChangesOnlyByFlush'
  BY <1>1 DEF OnlyOpenedTorn, IsTorn, MirrorChangesOnlyByFlush
<1>9. QED BY <1>4, <1>5, <1>6, <1>7, <1>8 DEF IInv, MirrorInv

-----------------------------------------------------------------------------
(* The launch: the mirror is what the run found. *)

LEMMA MirrorKeptInLaunch ==
  ASSUME IInv, stage \in {"loaded", "launched", "running"},
         stage' \in {"loaded", "launched", "running"},
         calls' \in 0..MaxCalls, UNCHANGED <<attached, mirror, pending, opened, before>>
  PROVE  MirrorInv'
<1>1. mirror = before /\ pending = {} /\ opened = NoFile BY DEF IInv, MirrorInv, Staged
<1>2. MirrorTypes' BY DEF IInv, MirrorInv, MirrorTypes, Stage
<1>3. Staged' /\ FlushedSoFar' BY <1>1 DEF Staged, FlushedSoFar
<1>4. OnlyOpenedTorn' /\ MirrorChangesOnlyByFlush'
  BY <1>1 DEF OnlyOpenedTorn, IsTorn, MirrorChangesOnlyByFlush
<1>5. RootedTree(mirror)' BY DEF IInv, MirrorInv, RootedTree, Found, IsDir
<1>6. QED BY <1>2, <1>3, <1>4, <1>5 DEF MirrorInv

LEMMA LaunchKeeps ==
  ASSUME IInv, Launch
  PROVE  IInv'
<1>1. UNCHANGED <<tree, written, placed, torn>> BY DEF Launch, sdVars
<1>2. TreeInv'
  BY <1>1 DEF IInv, TreeInv, TreeTypes, RootedTree, OwnFits, Fits, FreshMods, Found, IsFile, IsDir
<1>3. calls' \in 0..MaxCalls BY DEF Launch, IInv, MirrorInv, MirrorTypes
<1>4. MirrorInv' BY <1>3, MirrorKeptInLaunch DEF Launch
<1>5. QED BY <1>2, <1>4 DEF IInv

LEMMA LaunchPutsModKeeps ==
  ASSUME IInv, NEW p \in ModPath, NEW size \in Size, LaunchPutsMod(p, size)
  PROVE  IInv'
<1>1. stage = "launched" /\ PutMod(p, size) /\ UNCHANGED mirrorVars BY DEF LaunchPutsMod
<1>2. p \in Path /\ size \in Nat BY TreeAssumption DEF Size
<1>3. TreeInv' BY <1>1, <1>2, PutModKeeps DEF IInv
<1>4. MirrorInv'
  BY <1>1, MirrorKeptInLaunch DEF mirrorVars, IInv, MirrorInv, MirrorTypes
<1>5. QED BY <1>3, <1>4 DEF IInv

LEMMA BuildKeeps ==
  ASSUME IInv, BuildRuns
  PROVE  IInv'
<1>1. TreeInv' BY TargetStepKeeps, CutStepKeeps DEF BuildRuns, IInv
<1>2. calls + 1 \in 0..MaxCalls
  BY MirrorAssumption DEF BuildRuns, IInv, MirrorInv, MirrorTypes
<1>3. stage' \in {"loaded", "launched", "running"} BY DEF BuildRuns
<1>4. MirrorInv' BY <1>2, <1>3, MirrorKeptInLaunch DEF BuildRuns
<1>5. QED BY <1>1, <1>4 DEF IInv

-----------------------------------------------------------------------------
(* The end of a run: what a flush has done when it begins, at each file, and
   when it breaks off. *)

\* While no file is open nothing on the mirror is torn, in any stage that has
\* one.
LEMMA NothingTorn ==
  ASSUME IInv, stage # "off", opened = NoFile
  PROVE  \A h \in Path : ~IsTorn(h)
  BY DEF IInv, MirrorInv, OnlyOpenedTorn

\* A step that leaves the SD and the mirror alone.
LEMMA SameTorn ==
  ASSUME UNCHANGED <<sdVars, mirror, before>>
  PROVE  /\ \A h : IsTorn(h)' <=> IsTorn(h)
         /\ TreeInv => TreeInv'
         /\ attached' = attached /\ MirrorChangesOnlyByFlush => MirrorChangesOnlyByFlush'
<1>1. UNCHANGED <<tree, written, placed, torn, mirror, before>>
  BY DEF sdVars
<1>2. \A h : IsTorn(h)' <=> IsTorn(h) BY <1>1 DEF IsTorn, WrittenFiles, IsFile
<1>3. TreeInv => TreeInv'
  BY <1>1 DEF TreeInv, TreeTypes, RootedTree, OwnFits, Fits, FreshMods, Found, IsFile, IsDir
<1>4. attached' = attached /\ MirrorChangesOnlyByFlush => MirrorChangesOnlyByFlush'
  BY <1>1 DEF MirrorChangesOnlyByFlush
<1>5. QED BY <1>2, <1>3, <1>4

LEMMA TakeResultKeeps ==
  ASSUME IInv, TakeResult
  PROVE  IInv'
<1> DEFINE files == WrittenFiles(tree, written)
<1>1. stage \in {"launched", "running"} /\ opened = NoFile /\ pending = {} /\ mirror = before
  BY DEF TakeResult, IInv, MirrorInv, Staged
<1>2. UNCHANGED <<sdVars, mirror, before>> /\ calls' = calls /\ attached' = attached /\ opened' = opened
  BY DEF TakeResult
<1>3. tree' = tree /\ written' = written BY <1>2 DEF sdVars
<1>4. TreeInv' /\ MirrorChangesOnlyByFlush' /\ \A h : IsTorn(h)' <=> IsTorn(h)
  BY <1>2, SameTorn DEF IInv, MirrorInv
<1>5. files \subseteq Spelling BY DEF IInv, TreeInv, TreeTypes, WrittenFiles
<1>6. \/ attached /\ files # {} /\ stage' = "flushing" /\ pending' = files
      \/ (~attached \/ files = {}) /\ stage' = "done" /\ pending' = pending
  BY DEF TakeResult
<1>7. MirrorTypes' BY <1>2, <1>5, <1>6 DEF IInv, MirrorInv, MirrorTypes, Stage
<1>8. Staged' BY <1>1, <1>2, <1>3, <1>6 DEF Staged
<1>9. FlushedSoFar'
  <2>1. ASSUME stage' \in {"flushing", "done"}, attached' PROVE Taken' = {}
    BY <1>2, <1>3, <1>6, <2>1 DEF Taken, WrittenFiles, IsFile
  <2>2. QED BY <2>1 DEF FlushedSoFar
<1>10. OnlyOpenedTorn' BY <1>1, <1>4, <1>6, NothingTorn DEF OnlyOpenedTorn
<1>11. RootedTree(mirror)' BY <1>2 DEF IInv, MirrorInv
<1>12. QED BY <1>4, <1>7, <1>8, <1>9, <1>10, <1>11 DEF IInv, MirrorInv

LEMMA FlushSkipsKeeps ==
  ASSUME IInv, NEW s \in Spelling, FlushSkips(s)
  PROVE  IInv'
<1>1. /\ stage = "flushing" /\ opened = NoFile /\ IsNext(s) /\ StaysBehind(s)
      /\ pending' = pending \ {s}
      /\ stage' = IF pending' = {} THEN "done" ELSE stage
      /\ UNCHANGED <<sdVars, mirror, before>> /\ calls' = calls /\ attached' = attached /\ opened' = opened
  BY DEF FlushSkips
<1>2. tree' = tree /\ written' = written BY <1>1 DEF sdVars
<1>3. TreeInv' /\ MirrorChangesOnlyByFlush' /\ \A h : IsTorn(h)' <=> IsTorn(h)
  BY <1>1, SameTorn DEF IInv, MirrorInv
<1>4. MirrorTypes' BY <1>1 DEF IInv, MirrorInv, MirrorTypes, Stage
<1>5. Staged' BY <1>1, <1>2 DEF IInv, MirrorInv, Staged, WrittenFiles, IsFile
<1>6. Taken' = Taken \cup {s}
  BY <1>1, <1>2 DEF Taken, WrittenFiles, IsFile, IsNext, IInv, MirrorInv, Staged
<1>7. FlushedSoFar'
  <2>1. attached /\ \A q \in Taken, r \in pending : Rank[q] <= Rank[r]
    BY <1>1 DEF IInv, MirrorInv, Staged, FlushedSoFar
  <2>2. \A q \in Taken \cup {s}, r \in pending' : Rank[q] <= Rank[r]
    BY <1>1, <2>1 DEF IsNext
  <2>3. ASSUME NEW q \in Taken \cup {s}, ~StaysBehind(q), StillThere(q)'
        PROVE  Lands(q) \in Path /\ mirror[Lands(q)] = Whole(tree[Split(q)].data)
    <3>1. q \in Taken BY <1>1, <2>3
    <3>2. StillThere(q) BY <1>1, <1>6, <2>3 DEF StillThere, StaysBehind
    <3>3. QED BY <1>1, <2>1, <2>3, <3>1, <3>2 DEF IInv, MirrorInv, FlushedSoFar
  <2>4. \A q : StaysBehind(q)' <=> StaysBehind(q) BY DEF StaysBehind
  <2>5. mirror' = mirror BY <1>1
  <2>6. QED BY <1>2, <1>6, <2>2, <2>3, <2>4, <2>5 DEF FlushedSoFar
<1>8. OnlyOpenedTorn' BY <1>1, <1>3, NothingTorn DEF OnlyOpenedTorn
<1>9. RootedTree(mirror)' BY <1>1 DEF IInv, MirrorInv
<1>10. QED BY <1>3, <1>4, <1>5, <1>7, <1>8, <1>9 DEF IInv, MirrorInv

LEMMA FlushOpensKeeps ==
  ASSUME IInv, NEW s \in Spelling, FlushOpens(s)
  PROVE  IInv'
<1> DEFINE h == Lands(s)
           node == Whole(<<>>)
<1>1. /\ stage = "flushing" /\ opened = NoFile /\ IsNext(s) /\ ~StaysBehind(s)
      /\ CanOpen(h)
      /\ mirror' = Place(mirror, h, node)
      /\ opened' = s
      /\ UNCHANGED sdVars /\ stage' = stage /\ calls' = calls /\ attached' = attached
      /\ pending' = pending /\ before' = before
  BY DEF FlushOpens
<1>2. UNCHANGED <<tree, written, placed, torn>> BY <1>1 DEF sdVars
<1>3. /\ h \in Path /\ CanPlace(mirror, h) /\ ~IsDir(mirror, h) /\ ~IsModInput(s)
      /\ node \in Node /\ mirror \in [Path -> Node] /\ RootedTree(mirror)
  <2>1. <<>> \in Seq(Byte) OBVIOUS
  <2>2. node \in Node BY <2>1, NodeTypes
  <2>3. QED BY <1>1, <2>2, OpensOnPath DEF IInv, MirrorInv, MirrorTypes
<1>4. TreeInv'
  BY <1>2 DEF IInv, TreeInv, TreeTypes, RootedTree, OwnFits, Fits, FreshMods, Found, IsFile, IsDir
<1>5. mirror' \in [Path -> Node] /\ RootedTree(mirror)'
  BY <1>1, <1>3, PlaceType, RootedPlace
<1>6. MirrorTypes' BY <1>1, <1>5 DEF IInv, MirrorInv, MirrorTypes
<1>7. s \in written /\ IsFile(tree, Split(s)) /\ attached
  BY <1>1 DEF IInv, MirrorInv, Staged, WrittenFiles, IsNext
<1>8. mirror'[h] = node /\ IsFile(mirror', h) BY <1>1, <1>3 DEF Place, IsFile, Whole, File
<1>9. ASSUME NEW g \in Path, g # h
      PROVE  /\ IsFile(mirror', g) <=> IsFile(mirror, g)
             /\ IsFile(mirror, g) => mirror'[g] = mirror[g]
  BY <1>1, <1>3, <1>9, OpeningKeepsFiles
<1> HIDE DEF node
<1>10. Staged'
  <2>1. \A q : StaysBehind(q)' <=> StaysBehind(q) BY DEF StaysBehind
  <2>2. IsNext(s)' BY <1>1 DEF IsNext
  <2>3. opened' # NoFile /\ opened' = s BY <1>1, NoFileIsNoSpelling
  <2>4. pending' \subseteq WrittenFiles(tree, written)'
    BY <1>1, <1>2 DEF IInv, MirrorInv, Staged, WrittenFiles, IsFile
  <2>5. Lands(s)' = h /\ h \in Path /\ IsFile(mirror', h) BY <1>3, <1>8 DEF Lands
  <2>6. Lands(opened)' = h BY <2>3, <2>5 DEF Lands
  <2>7. StaysBehind(opened)' = StaysBehind(s) /\ IsNext(opened)'
    BY <1>1, <2>2, <2>3 DEF StaysBehind, IsNext
  <2>8. QED BY <1>1, <1>3, <1>7, <1>8, <2>4, <2>6, <2>7 DEF Staged, IsFile
<1>11. FlushedSoFar'
  <2>1. Taken' = Taken /\ Taken \subseteq Spelling
    BY <1>1, <1>2 DEF Taken, WrittenFiles, IsFile, IInv, TreeInv, TreeTypes
  <2>2. ASSUME NEW q \in Taken, ~StaysBehind(q), StillThere(q)'
        PROVE  Lands(q) \in Path /\ mirror'[Lands(q)] = Whole(tree[Split(q)].data)
    <3>1. opened' # NoFile /\ opened' = s BY <1>1, NoFileIsNoSpelling
    <3>2. Lands(q) # h BY <2>2, <3>1 DEF StillThere, Lands
    <3>3. StillThere(q) BY <1>1, <2>1, <2>2 DEF StillThere, StaysBehind, Lands
    <3>4. Lands(q) \in Path /\ mirror[Lands(q)] = Whole(tree[Split(q)].data)
      BY <1>1, <1>7, <2>2, <3>3 DEF IInv, MirrorInv, FlushedSoFar
    <3>5. IsFile(mirror, Lands(q)) BY <3>4 DEF IsFile, Whole, File
    <3>6. QED BY <1>9, <3>2, <3>4, <3>5
  <2>3. \A q \in Taken, r \in pending : Rank[q] <= Rank[r]
    BY <1>1, <1>7 DEF IInv, MirrorInv, FlushedSoFar
  <2>4. \A q : StaysBehind(q)' <=> StaysBehind(q) BY DEF StaysBehind
  <2>5. QED BY <1>1, <1>2, <2>1, <2>2, <2>3, <2>4 DEF FlushedSoFar
<1>12. OnlyOpenedTorn'
  <2>1. ASSUME NEW g \in Path, g # h PROVE ~IsTorn(g)'
    <3>1. ~IsTorn(g) BY <1>1, NothingTorn
    <3>2. WrittenFiles(tree, written)' = WrittenFiles(tree, written)
      BY <1>2 DEF WrittenFiles, IsFile
    <3>3. QED BY <1>1, <1>2, <1>9, <2>1, <3>1, <3>2 DEF IsTorn
  <2>2. QED BY <1>1, <2>1, NoFileIsNoSpelling DEF OnlyOpenedTorn, Lands
<1>13. MirrorChangesOnlyByFlush'
  <2>1. ASSUME NEW g \in Path, g # h, IsFile(mirror', g), mirror'[g] # before[g]
        PROVE  attached /\ \E q \in written : Lands(q) = g /\ ~IsModInput(q)
    BY <1>9, <2>1 DEF IInv, MirrorInv, MirrorChangesOnlyByFlush
  <2>2. QED BY <1>1, <1>2, <1>3, <1>7, <2>1 DEF MirrorChangesOnlyByFlush
<1>14. QED BY <1>4, <1>5, <1>6, <1>10, <1>11, <1>12, <1>13 DEF IInv, MirrorInv

\* What a file that is being written may come to hold is bytes of the mirror's.
LEMMA WritingKeepsTrees ==
  ASSUME IInv, opened # NoFile, NEW data \in Seq(Byte),
         mirror' = [mirror EXCEPT ![Lands(opened)] = Whole(data)]
  PROVE  /\ opened \in Spelling /\ Lands(opened) \in Path
         /\ mirror' \in [Path -> Node]
         /\ RootedTree(mirror)'
         /\ mirror'[Lands(opened)] = Whole(data)
         /\ \A g \in Path : g # Lands(opened) => mirror'[g] = mirror[g]
<1>1. opened \in Spelling BY DEF IInv, MirrorInv, MirrorTypes
<1>2. /\ mirror \in [Path -> Node] /\ RootedTree(mirror)
      /\ Lands(opened) \in Path /\ IsFile(mirror, Lands(opened))
  BY DEF IInv, MirrorInv, MirrorTypes, Staged
<1>3. Whole(data) \in Node /\ Whole(data).kind = "file" BY NodeTypes DEF Whole, File
<1>4. RootedTree(mirror') BY <1>2, <1>3, RootedRewrite
<1>5. RootedTree(mirror)' BY <1>4 DEF RootedTree, Found, IsDir
<1>6. QED BY <1>1, <1>2, <1>3, <1>5

\* Only where some written file lands has anything changed.
LEMMA WritingChangesOneFile ==
  ASSUME IInv, opened # NoFile, NEW data \in Seq(Byte),
         mirror' = [mirror EXCEPT ![Lands(opened)] = Whole(data)],
         UNCHANGED <<sdVars, before, attached>>
  PROVE  MirrorChangesOnlyByFlush'
<1>1. opened \in Spelling /\ \A g \in Path : g # Lands(opened) => mirror'[g] = mirror[g]
  BY WritingKeepsTrees
<1>2. IsNext(opened) /\ ~StaysBehind(opened) /\ stage = "flushing"
  BY DEF IInv, MirrorInv, Staged
<1>3. opened \in written /\ attached
  BY <1>2 DEF IInv, MirrorInv, Staged, IsNext, WrittenFiles
<1>4. ~IsModInput(opened) BY <1>2 DEF StaysBehind
<1>5. written' = written BY DEF sdVars
<1>6. ASSUME NEW g \in Path, IsFile(mirror', g), mirror'[g] # before[g]
      PROVE  attached /\ \E q \in written : Lands(q) = g /\ ~IsModInput(q)
  <2>1. CASE g = Lands(opened) BY <1>3, <1>4, <2>1
  <2>2. CASE g # Lands(opened)
    BY <1>1, <1>6, <2>2 DEF IInv, MirrorInv, MirrorChangesOnlyByFlush, IsFile
  <2>3. QED BY <2>1, <2>2
<1>7. QED BY <1>5, <1>6 DEF MirrorChangesOnlyByFlush

LEMMA FlushWritesKeeps ==
  ASSUME IInv, NEW s \in Spelling, FlushWrites(s)
  PROVE  IInv'
<1> DEFINE h == Lands(s)
           data == tree[Split(s)].data
<1>1. /\ stage = "flushing" /\ opened = s
      /\ mirror' = [mirror EXCEPT ![h] = Whole(data)]
      /\ opened' = NoFile /\ pending' = pending \ {s}
      /\ stage' = IF pending' = {} THEN "done" ELSE stage
      /\ UNCHANGED sdVars /\ calls' = calls /\ attached' = attached /\ before' = before
  BY DEF FlushWrites
<1>2. UNCHANGED <<tree, written, placed, torn>> BY <1>1 DEF sdVars
<1>3. opened # NoFile BY <1>1, NoFileIsNoSpelling
<1>4. data \in Seq(Byte) BY SpellingTypes, NodeParts DEF IInv, TreeInv, TreeTypes
<1> HIDE DEF data
<1>5. /\ h \in Path /\ mirror' \in [Path -> Node] /\ RootedTree(mirror)'
      /\ mirror'[h] = Whole(data)
      /\ \A g \in Path : g # h => mirror'[g] = mirror[g]
  BY <1>1, <1>3, <1>4, WritingKeepsTrees
<1>6. IsNext(s) /\ ~StaysBehind(s) /\ attached /\ pending \subseteq WrittenFiles(tree, written)
  BY <1>1, <1>3 DEF IInv, MirrorInv, Staged
<1>7. s \in written /\ IsFile(tree, Split(s)) BY <1>6 DEF IsNext, WrittenFiles
<1>8. TreeInv'
  BY <1>2 DEF IInv, TreeInv, TreeTypes, RootedTree, OwnFits, Fits, FreshMods, Found, IsFile, IsDir
<1>9. MirrorTypes' BY <1>1, <1>5 DEF IInv, MirrorInv, MirrorTypes, Stage
<1>10. Staged' BY <1>1, <1>2, <1>6 DEF Staged, WrittenFiles, IsFile
<1>11. FlushedSoFar'
  <2>1. Taken' = Taken \cup {s} /\ Taken \subseteq Spelling /\ s \notin Taken
    BY <1>1, <1>2, <1>6 DEF Taken, WrittenFiles, IsFile, IsNext, IInv, TreeInv, TreeTypes
  <2>2. \A q \in Taken : Rank[q] <= Rank[s]
    BY <1>1, <1>6 DEF IInv, MirrorInv, FlushedSoFar, IsNext
  <2>3. ASSUME NEW q \in Taken, ~StaysBehind(q), StillThere(q)'
        PROVE  Lands(q) \in Path /\ mirror'[Lands(q)] = Whole(tree[Split(q)].data)
    <3>1. \A r \in Taken \cup {s} : ~StaysBehind(r) /\ Lands(r) = Lands(q) => Rank[r] <= Rank[q]
      BY <2>1, <2>3 DEF StillThere, StaysBehind, Lands
    <3>2. Lands(q) # h BY <1>6, <2>1, <2>2, <3>1, RankTellsApart
    <3>3. StillThere(q) BY <1>1, <3>1, <3>2 DEF StillThere
    <3>4. Lands(q) \in Path /\ mirror[Lands(q)] = Whole(tree[Split(q)].data)
      BY <1>1, <1>6, <2>3, <3>3 DEF IInv, MirrorInv, FlushedSoFar
    <3>5. QED BY <1>5, <3>2, <3>4
  <2>4. \A q \in Taken \cup {s}, r \in pending' : Rank[q] <= Rank[r]
    BY <1>1, <1>6 DEF IInv, MirrorInv, FlushedSoFar, IsNext
  <2>5. h \in Path /\ mirror'[h] = Whole(tree[Split(s)].data) BY <1>5 DEF data
  <2>6. \A q : StaysBehind(q)' <=> StaysBehind(q) BY DEF StaysBehind
  <2>7. QED BY <1>1, <1>2, <2>1, <2>3, <2>4, <2>5, <2>6 DEF FlushedSoFar
<1>12. OnlyOpenedTorn'
  <2>1. WrittenFiles(tree, written)' = WrittenFiles(tree, written)
        /\ s \in WrittenFiles(tree, written)
    BY <1>2, <1>7 DEF WrittenFiles, IsFile
  <2>2. ASSUME NEW g \in Path PROVE ~IsTorn(g)'
    <3>1. CASE g = h
      <4>1. mirror'[h].data = tree[Split(s)].data BY <1>5 DEF Whole, File, data
      <4>2. QED BY <1>2, <2>1, <3>1, <4>1 DEF IsTorn
    <3>2. CASE g # h
      <4>1. ~IsTorn(g) BY <1>1, <1>3, <3>2 DEF IInv, MirrorInv, OnlyOpenedTorn
      <4>2. QED BY <1>1, <1>2, <1>5, <2>1, <3>2, <4>1 DEF IsTorn, IsFile
    <3>3. QED BY <3>1, <3>2
  <2>3. QED BY <2>2 DEF OnlyOpenedTorn
<1>13. MirrorChangesOnlyByFlush' BY <1>1, <1>3, <1>4, WritingChangesOneFile
<1>14. QED BY <1>5, <1>8, <1>9, <1>10, <1>11, <1>12, <1>13 DEF IInv, MirrorInv

\* A run that ends with no file open leaves nothing torn.
LEMMA EndsClosedKeeps ==
  ASSUME IInv, stage # "off", opened = NoFile, stage' = "off", pending' = {},
         UNCHANGED <<sdVars, calls, attached, mirror, opened, before>>
  PROVE  IInv'
<1>1. TreeInv' /\ MirrorChangesOnlyByFlush' /\ \A h : IsTorn(h)' <=> IsTorn(h)
  BY SameTorn DEF IInv, MirrorInv
<1>2. MirrorTypes' BY DEF IInv, MirrorInv, MirrorTypes, Stage
<1>3. Staged' /\ FlushedSoFar' BY DEF Staged, FlushedSoFar
<1>4. OnlyOpenedTorn' BY <1>1, NothingTorn DEF OnlyOpenedTorn
<1>5. RootedTree(mirror)' BY DEF IInv, MirrorInv
<1>6. QED BY <1>1, <1>2, <1>3, <1>4, <1>5 DEF IInv, MirrorInv

LEMMA KilledWhileWritingKeeps ==
  ASSUME IInv, KilledWhileWriting
  PROVE  IInv'
<1> DEFINE h == Lands(opened)
           all == tree[Split(opened)].data
<1>1. PICK n \in 0..Len(all) : mirror' = [mirror EXCEPT ![h] = Whole(SubSeq(all, 1, n))]
  BY DEF KilledWhileWriting
<1> DEFINE data == SubSeq(all, 1, n)
<1>2. /\ stage = "flushing" /\ opened # NoFile
      /\ stage' = "off" /\ pending' = {} /\ opened' = NoFile
      /\ UNCHANGED sdVars /\ calls' = calls /\ attached' = attached /\ before' = before
  BY DEF KilledWhileWriting
<1>3. UNCHANGED <<tree, written, placed, torn>> BY <1>2 DEF sdVars
<1>4. data \in Seq(Byte)
  <2>1. opened \in Spelling BY <1>2 DEF IInv, MirrorInv, MirrorTypes
  <2>2. all \in Seq(Byte) BY <2>1, SpellingTypes, NodeParts DEF IInv, TreeInv, TreeTypes
  <2> HIDE DEF all
  <2>3. QED BY <2>2
<1> HIDE DEF all
<1>5. /\ h \in Path /\ mirror' \in [Path -> Node] /\ RootedTree(mirror)'
      /\ \A g \in Path : g # h => mirror'[g] = mirror[g]
  BY <1>1, <1>2, <1>4, WritingKeepsTrees
<1>6. TreeInv'
  BY <1>3 DEF IInv, TreeInv, TreeTypes, RootedTree, OwnFits, Fits, FreshMods, Found, IsFile, IsDir
<1>7. MirrorTypes' BY <1>2, <1>5 DEF IInv, MirrorInv, MirrorTypes, Stage
<1>8. Staged' /\ FlushedSoFar' BY <1>2 DEF Staged, FlushedSoFar
<1>9. OnlyOpenedTorn'
  <2>1. WrittenFiles(tree, written)' = WrittenFiles(tree, written)
    BY <1>3 DEF WrittenFiles, IsFile
  <2>2. ASSUME NEW g \in Path, g # h PROVE ~IsTorn(g)'
    <3>1. ~IsTorn(g) BY <1>2, <2>2 DEF IInv, MirrorInv, OnlyOpenedTorn
    <3>2. QED BY <1>2, <1>3, <1>5, <2>1, <2>2, <3>1 DEF IsTorn, IsFile
  <2>3. QED BY <1>2, <2>2 DEF OnlyOpenedTorn
<1>10. MirrorChangesOnlyByFlush' BY <1>1, <1>2, <1>4, WritingChangesOneFile
<1>11. QED BY <1>5, <1>6, <1>7, <1>8, <1>9, <1>10 DEF IInv, MirrorInv

-----------------------------------------------------------------------------
(* The theorems *)

LEMMA NextIInv == IInv /\ [Next]_vars => IInv'
<1> SUFFICES ASSUME IInv, [Next]_vars PROVE IInv' OBVIOUS
<1>1. CASE StartInMemory \/ \E fresh \in BOOLEAN : StartWithMirror(fresh)
  BY <1>1, StartsKeep
<1>2. CASE Launch \/ \E p \in ModPath, size \in Size : LaunchPutsMod(p, size)
  BY <1>2, LaunchKeeps, LaunchPutsModKeeps
<1>3. CASE BuildRuns BY <1>3, BuildKeeps
<1>4. CASE TakeResult BY <1>4, TakeResultKeeps
<1>5. CASE Flush
  <2>1. PICK s \in Spelling : FlushSkips(s) \/ FlushOpens(s) \/ FlushWrites(s) \/ FlushRaises(s)
    BY <1>5 DEF Flush
  <2>2. CASE FlushRaises(s) BY <2>2, EndsClosedKeeps DEF FlushRaises
  <2>3. QED BY <2>1, <2>2, FlushSkipsKeeps, FlushOpensKeeps, FlushWritesKeeps
<1>6. CASE EndsUnflushed BY <1>6, EndsClosedKeeps DEF EndsUnflushed
<1>7. CASE KilledWhileWriting BY <1>7, KilledWhileWritingKeeps
<1>8. CASE UNCHANGED vars
  <2>1. UNCHANGED <<sdVars, mirror, before>> /\ stage' = stage /\ calls' = calls
        /\ attached' = attached /\ pending' = pending /\ opened' = opened
    BY <1>8 DEF vars, mirrorVars
  <2>2. tree' = tree /\ written' = written BY <2>1 DEF sdVars
  <2>3. TreeInv' /\ MirrorChangesOnlyByFlush' /\ \A h : IsTorn(h)' <=> IsTorn(h)
    BY <2>1, SameTorn DEF IInv, MirrorInv
  <2>4. MirrorTypes' /\ RootedTree(mirror)' BY <2>1 DEF IInv, MirrorInv, MirrorTypes
  <2>5. Staged'
    BY <2>1, <2>2 DEF IInv, MirrorInv, Staged, WrittenFiles, IsFile, IsNext, StaysBehind
  <2>6. FlushedSoFar'
    BY <2>1, <2>2 DEF IInv, MirrorInv, FlushedSoFar, StillThere, Taken, WrittenFiles, IsFile, StaysBehind
  <2>7. OnlyOpenedTorn' BY <2>1, <2>3 DEF IInv, MirrorInv, OnlyOpenedTorn
  <2>8. QED BY <2>3, <2>4, <2>5, <2>6, <2>7 DEF IInv, MirrorInv
<1>9. CASE \E fresh \in BOOLEAN : StartRaises(fresh) BY <1>9, StartRaisesKeeps
<1>10. QED BY <1>1, <1>2, <1>3, <1>4, <1>5, <1>6, <1>7, <1>8, <1>9 DEF Next

\* The inductive invariant holds of every run of runs.
THEOREM Invariance == Spec => []IInv
<1>1. Init => IInv BY InitIInv
<1>2. IInv /\ [Next]_vars => IInv' BY NextIInv
<1>3. QED BY <1>1, <1>2, PTL DEF Spec

\* The type invariant.
THEOREM TypeCorrect == Spec => []TypeOK
<1>1. IInv => TypeOK BY DEF IInv, TreeInv, TreeTypes, MirrorInv, MirrorTypes, TypeOK
<1>2. QED BY <1>1, Invariance, PTL

\* The SD and the host directory are trees, whatever was created, deleted,
\* replaced, flushed in part or emptied: what _place, remove, flush and
\* _empty_but_settings make of any tree is one.
THEOREM RootedAlways == Spec => []Rooted
<1>1. IInv => Rooted BY DEF IInv, TreeInv, MirrorInv, Rooted
<1>2. QED BY <1>1, Invariance, PTL

\* Every file flush comes to, but where the launch put a mod over one of the
\* constructor's, holds all of its bytes, and no fewer if a write was cut short.
THEOREM WrittenIsWhole == Spec => []WrittenWhole
<1>1. ASSUME IInv, NEW s \in WrittenFiles(tree, written), Split(s) \notin placed
      PROVE  Fits(tree[Split(s)], Split(s) \in torn)
  <2>1. s \in Spelling /\ IsFile(tree, Split(s)) BY <1>1 DEF IInv, TreeInv, TreeTypes, WrittenFiles
  <2>2. Split(s) \in Path BY <2>1, SpellingTypes
  <2>3. QED BY <1>1, <2>1, <2>2 DEF IInv, TreeInv, OwnFits
<1>2. IInv => WrittenWhole BY <1>1 DEF WrittenWhole, Fits
<1>3. QED BY <1>2, Invariance, PTL

\* No mod outlives its run.
THEOREM ModsAreFresh == Spec => []NoStaleMod
<1>1. IInv => NoStaleMod BY DEF IInv, TreeInv, FreshMods, NoStaleMod
<1>2. QED BY <1>1, Invariance, PTL

\* What the build wrote is there for the next run, wherever backslashes, ".."
\* and the case of a program id took it.
THEOREM FlushIsRead == Spec => []FlushedIsFound
<1>1. ASSUME IInv, stage = "done", attached, NEW s \in WrittenFiles(tree, written),
             ~StaysBehind(s), LastToLand(s), Split(s) \notin placed \cup torn,
             ~IsModInput(Guest(Lands(s))), Unrivalled(Lands(s)), NEW kept \in Loads(mirror)
      PROVE  LoadedOf(mirror, kept)[Guest(Lands(s))] = tree[Split(s)]
  <2> DEFINE h == Lands(s)
             node == tree[Split(s)]
  <2>1. s \in Spelling /\ IsFile(tree, Split(s)) BY <1>1 DEF IInv, TreeInv, TreeTypes, WrittenFiles
  <2>2. Split(s) \in Path /\ node \in Node
    BY <2>1, SpellingTypes, <1>1 DEF IInv, TreeInv, TreeTypes
  <2>3. node.size = Len(node.data) BY <1>1, <2>1, <2>2 DEF IInv, TreeInv, OwnFits, Fits
  <2>4. node = Whole(node.data) BY <2>1, <2>2, <2>3 DEF Node, IsFile, Whole, File
  <2>5. pending = {} /\ opened = NoFile BY <1>1 DEF IInv, MirrorInv, Staged
  <2>6. s \in Taken /\ StillThere(s) BY <1>1, <2>5 DEF Taken, StillThere, LastToLand
  <2>7. h \in Path /\ mirror[h] = Whole(node.data)
    BY <1>1, <2>6 DEF IInv, MirrorInv, FlushedSoFar
  <2>8. h \in TakenFiles(mirror) BY <1>1, <2>7 DEF TakenFiles, IsFile, Whole, File
  <2>9. kept \subseteq TakenFiles(mirror) /\ \E k \in kept : Covers(k, h)
    BY <2>8 DEF Loads
  <2>10. \A g \in TakenFiles(mirror) : Covers(g, h) \/ Covers(h, g) => g = h
    BY <1>1 DEF Unrivalled
  <2>11. h \in kept /\ \A g \in kept : Guest(g) = Guest(h) => g = h
    BY <2>9, <2>10 DEF Covers
  <2>12. Guest(h) \in Path BY <2>7, SpellingAssumption
  <2>13. (CHOOSE g \in kept : Guest(g) = Guest(h)) = h BY <2>11
  <2>14. LoadedOf(mirror, kept)[Guest(h)] = Whole(mirror[h].data)
    BY <2>11, <2>12, <2>13 DEF LoadedOf
  <2>15. Whole(mirror[h].data) = Whole(node.data) BY <2>7 DEF Whole, File
  <2>16. QED BY <2>4, <2>14, <2>15
<1>2. IInv => FlushedIsFound BY <1>1 DEF FlushedIsFound
<1>3. QED BY <1>2, Invariance, PTL

\* A run touches no file on the host it did not write, and none when its SD is
\* in memory.
THEOREM OnlyFlushChanges == Spec => []MirrorChangesOnlyByFlush
<1>1. IInv => MirrorChangesOnlyByFlush BY DEF IInv, MirrorInv
<1>2. QED BY <1>1, Invariance, PTL

\* However a run ends, one file at most is left torn.
THEOREM OneTornAtMost == Spec => []AtMostOneTorn
<1>1. IInv => \A g, h \in Path : IsTorn(g) /\ IsTorn(h) => g = h
  BY DEF IInv, MirrorInv, OnlyOpenedTorn
<1>2. IInv => AtMostOneTorn BY <1>1 DEF AtMostOneTorn, IsTorn
<1>3. QED BY <1>2, Invariance, PTL

\* Starting a run, with a fresh SD or not, leaves a settings file as it is,
\* whether the start succeeds or raises.
LEMMA StartKeepsSettings ==
  ASSUME IInv, IsFile(mirror, SettingsIni),
         \/ StartInMemory
         \/ \E fresh \in BOOLEAN : StartWithMirror(fresh) \/ StartRaises(fresh)
  PROVE  mirror'[SettingsIni] = mirror[SettingsIni]
<1>1. SettingsIni \in Path BY SettingsAssumption
<1>2. CASE StartInMemory BY <1>2 DEF StartInMemory, StartOn
<1>3. CASE \E fresh \in BOOLEAN : StartWithMirror(fresh) \/ StartRaises(fresh)
  <2>1. PICK fresh \in BOOLEAN : mirror' = AsFound(mirror, fresh)
    BY <1>3 DEF StartWithMirror, StartOn, StartRaises
  <2>2. EmptyButSettings(mirror)[SettingsIni] = mirror[SettingsIni]
    BY <1>1 DEF EmptyButSettings
  <2>3. QED BY <2>1, <2>2 DEF AsFound
<1>4. QED BY <1>2, <1>3

\* A flush that changes the settings file is writing what lands there.
LEMMA FlushKeepsSettings ==
  ASSUME IInv, IsFile(mirror, SettingsIni), mirror'[SettingsIni] # mirror[SettingsIni],
         Flush \/ KilledWhileWriting
  PROVE  stage = "flushing" /\ \E s \in written : Lands(s) = SettingsIni
<1> DEFINE Written == \E s \in written : Lands(s) = SettingsIni
<1>1. SettingsIni \in Path BY SettingsAssumption
<1>2. mirror \in [Path -> Node] /\ RootedTree(mirror) BY DEF IInv, MirrorInv, MirrorTypes
<1>3. stage = "flushing"
  BY DEF Flush, FlushSkips, FlushOpens, FlushWrites, FlushRaises, KilledWhileWriting
<1>4. ASSUME NEW s \in Spelling, IsNext(s), Lands(s) = SettingsIni PROVE Written
  BY <1>3, <1>4 DEF IInv, MirrorInv, Staged, IsNext, WrittenFiles
<1>5. ASSUME NEW s \in Spelling, FlushOpens(s) PROVE Written
  <2>1. /\ ~StaysBehind(s) /\ CanOpen(Lands(s)) /\ IsNext(s)
        /\ mirror' = Place(mirror, Lands(s), Whole(<<>>))
    BY <1>5 DEF FlushOpens
  <2>2. /\ Lands(s) \in Path /\ CanPlace(mirror, Lands(s)) /\ ~IsDir(mirror, Lands(s))
    BY <2>1, OpensOnPath
  <2>3. <<>> \in Seq(Byte) OBVIOUS
  <2>4. Whole(<<>>) \in Node BY <2>3, NodeTypes
  <2>5. Lands(s) = SettingsIni BY <1>1, <1>2, <2>1, <2>2, <2>4, OpeningKeepsFiles
  <2>6. QED BY <1>4, <2>1, <2>5
<1>6. ASSUME NEW s \in Spelling, opened = s, Lands(s) = SettingsIni PROVE Written
  <2>1. IsNext(s) BY <1>6, NoFileIsNoSpelling DEF IInv, MirrorInv, Staged
  <2>2. QED BY <1>4, <1>6, <2>1
<1>7. ASSUME NEW s \in Spelling, FlushWrites(s) PROVE Written
  <2>1. Lands(s) = SettingsIni BY <1>1, <1>2, <1>7 DEF FlushWrites
  <2>2. QED BY <1>6, <1>7, <2>1 DEF FlushWrites
<1>8. ASSUME KilledWhileWriting PROVE Written
  <2>1. opened \in Spelling BY <1>8 DEF KilledWhileWriting, IInv, MirrorInv, MirrorTypes
  <2>2. Lands(opened) = SettingsIni BY <1>1, <1>2, <1>8 DEF KilledWhileWriting
  <2>3. QED BY <1>6, <2>1, <2>2
<1>9. ASSUME NEW s \in Spelling, FlushSkips(s) \/ FlushRaises(s) PROVE FALSE
  BY <1>9 DEF FlushSkips, FlushRaises
<1>10. QED BY <1>3, <1>5, <1>7, <1>8, <1>9 DEF Flush

\* However runs start and end, the settings file is theirs to keep.
THEOREM SettingsAreKept == Spec => SettingsSurvive
<1> DEFINE Keeps == IsFile(mirror, SettingsIni) /\ mirror'[SettingsIni] # mirror[SettingsIni]
                      => stage = "flushing" /\ \E s \in written : Lands(s) = SettingsIni
<1>1. ASSUME IInv, Next, IsFile(mirror, SettingsIni), mirror'[SettingsIni] # mirror[SettingsIni]
      PROVE  stage = "flushing" /\ \E s \in written : Lands(s) = SettingsIni
  <2>1. CASE \/ StartInMemory
             \/ \E fresh \in BOOLEAN : StartWithMirror(fresh) \/ StartRaises(fresh)
    BY <1>1, <2>1, StartKeepsSettings
  <2>2. CASE Flush \/ KilledWhileWriting BY <1>1, <2>2, FlushKeepsSettings
  <2>3. CASE Launch \/ \E p \in ModPath, size \in Size : LaunchPutsMod(p, size)
    BY <1>1, <2>3 DEF Launch, LaunchPutsMod, mirrorVars
  <2>4. CASE BuildRuns BY <1>1, <2>4 DEF BuildRuns
  <2>5. CASE TakeResult BY <1>1, <2>5 DEF TakeResult
  <2>6. CASE EndsUnflushed BY <1>1, <2>6 DEF EndsUnflushed
  <2>7. QED BY <1>1, <2>1, <2>2, <2>3, <2>4, <2>5, <2>6 DEF Next
<1>2. IInv /\ [Next]_vars => [Keeps]_vars BY <1>1
<1>3. QED BY <1>2, Invariance, PTL DEF SettingsSurvive, Spec

=============================================================================
