----------------------------- MODULE RomfsCheck -----------------------------
(***************************************************************************)
(* The checker of a produced romfs, over images that builds produce.  The  *)
(* image starts as the packed one of a tree, with the mod's files in it or *)
(* not; a fault is a link, a bucket, an extent or a file's source the      *)
(* build got wrong.  The checker lists the image along its links, a        *)
(* directory a step, checks the arithmetic, walks it again through the     *)
(* hash tables, and reads the files' bytes.                                *)
(*                                                                         *)
(* A link the build got wrong may name another entry, or none: Beyond has  *)
(* no room for one, Askew is off the alignment, and Within lies inside an  *)
(* entry, aligned as one is.  The last two read as a record of whatever is *)
(* there, so what comes of following them is left open.                    *)
(*                                                                         *)
(* source says where the run of bytes at an offset of the partition comes  *)
(* from: what kind of file, and which run of it.                           *)
(***************************************************************************)
EXTENDS RomfsPack

CONSTANTS
  ModLoose,      \* the paths the mod delivers as files
  ModBin,        \* and those it delivers packed
  Beyond, Askew, Within,   \* links that are no entry of their table
  Faults         \* the kinds of fault builds make

FalseLink == {Beyond, Askew, Within}

ASSUME LinkAssumption ==
  /\ FalseLink \cap (Nat \cup {Empty}) = {}
  /\ Beyond # Askew /\ Beyond # Within /\ Askew # Within

VARIABLES
  image,     \* the produced romfs: header, tables and buckets
  source,    \* offset of the partition -> whose bytes lie there
  fault,     \* the fault it has, "none" if none
  at,        \* what is under way: "building", "built", a check, or a verdict
  stack,     \* the directories a walk has yet to look at
  listed,    \* _listing: the files met, with the entry each was met at
  walked     \* _check_hash_tables: the entries its walk has met

imageVars == <<image, source, fault>>
vars == <<treeVars, imageVars, at, stack, listed, walked>>

Nothing == [dirs |-> <<>>, files |-> <<>>, dirHash |-> <<>>, fileHash |-> <<>>]
NoneWalked == [dirs |-> {1}, files |-> {}]

Init ==
  /\ TreeInit
  /\ image = Nothing
  /\ source = <<>>
  /\ fault = "none"
  /\ at = "building"
  /\ stack = <<>>
  /\ listed = <<>>
  /\ walked = NoneWalked

-----------------------------------------------------------------------------
(* Chains *)

\* The entries a chain of links goes through, and what it ends on: Empty, a link
\* that is no entry, or "returns" when it comes back to one of its own.
Chain(links, first) ==
  LET go[n \in 0..Cardinality(DOMAIN links)] ==
        IF n = 0 THEN first
        ELSE IF go[n - 1] \in DOMAIN links THEN links[go[n - 1]] ELSE go[n - 1]
      out == {n \in DOMAIN go : go[n] \notin DOMAIN links}
  IN IF out = {} THEN [end |-> "returns", entries |-> <<>>]
     ELSE [end |-> go[Min(out)], entries |-> [n \in 1..Min(out) |-> go[n - 1]]]

Field(table, field) == [e \in DOMAIN table |-> table[e][field]]

-----------------------------------------------------------------------------
(* What a build produces *)

Add(f) ==
  /\ at = "building"
  /\ AddFile(f)
  /\ UNCHANGED <<imageVars, at, stack, listed, walked>>

Origin(path) ==
  [from |-> IF path \in ModLoose THEN "loose" ELSE IF path \in ModBin THEN "bin" ELSE "base",
   run  |-> path]

Build ==
  /\ at = "building"
  /\ files # <<>>
  /\ at' = "built"
  /\ image' = Packed
  /\ source' = LET placed == InPathOrder
                   offset == ContentOffset(placed)
                   long == {i \in DOMAIN placed : placed[i].size > 0}
                   fileAt(o) == CHOOSE i \in long : offset[i] = o
               IN [o \in {offset[i] : i \in long} |-> Origin(placed[fileAt(o)].path)]
  /\ UNCHANGED <<treeVars, fault, stack, listed, walked>>

Links(table) == DOMAIN table \cup {Empty} \cup FalseLink

\* Some directory has itself below it.
LeadsBack(i) ==
  LET below(d) == ToSet(Chain(Field(i.dirs, "sibling"), i.dirs[d].child).entries)
      after[n \in 0..Len(i.dirs)] ==
        IF n = 0 THEN {1} ELSE UNION {below(d) : d \in after[n - 1]}
  IN after[Len(i.dirs)] # {}

Has(kind) ==
  /\ at = "built" /\ fault = "none"
  /\ kind \in Faults
  /\ fault' = kind
  /\ UNCHANGED <<treeVars, at, stack, listed, walked>>

LinkIsWrong(table, of, field, link) ==
  /\ at = "built"
  /\ image' = [image EXCEPT ![table][of][field] = link]
  /\ Has(IF LeadsBack(image') THEN "looped" ELSE field)
  /\ UNCHANGED source

BucketIsWrong(table, b, link) ==
  /\ Has(table)
  /\ image' = [image EXCEPT ![table][b] = link]
  /\ UNCHANGED source

ExtentIsWrong(f, offset) ==
  /\ Has("offset")
  /\ image' = [image EXCEPT !.files[f].offset = offset]
  /\ UNCHANGED source

SourceIsWrong(offset, origin) ==
  /\ Has("source")
  /\ source' = [source EXCEPT ![offset] = origin]
  /\ UNCHANGED image

FilesOf(d) == Chain(Field(image.files, "sibling"), image.dirs[d].file)
ChildrenOf(d) == Chain(Field(image.dirs, "sibling"), image.dirs[d].child)

Verdict(v) == at' = v /\ stack' = <<>> /\ UNCHANGED <<listed, walked>>

Checks(check, from) == at' = check /\ stack' = from

-----------------------------------------------------------------------------
(* _listing *)

BeginListing ==
  /\ at = "built"
  /\ Checks("listing", <<[dir |-> 1, path |-> Root]>>)
  /\ UNCHANGED <<treeVars, imageVars, listed, walked>>

Top == stack[Len(stack)]

Entry(f, path) ==
  [path |-> Append(path, image.files[f].name), entry |-> f,
   offset |-> image.files[f].offset, size |-> image.files[f].size]

Lists(fs) == listed' = listed \o [i \in DOMAIN fs |-> Entry(fs[i], Top.path)]

\* What the chains of a directory end on.
Ends(d) == {FilesOf(d).end, ChildrenOf(d).end}

\* A chain that comes back is refused, and one that leaves its table raises
\* where the entry is read.  A record that is none is listed as one, unless
\* what it links to is refused or raises in turn.
ListDirectory ==
  /\ at = "listing" /\ stack # <<>>
  /\ LET fs == FilesOf(Top.dir).entries
         ds == ChildrenOf(Top.dir).entries
         ends == Ends(Top.dir)
         false == ends \cap {Askew, Within} # {}
     IN \/ /\ ends \cap {"returns", Beyond} = {}
           /\ Lists(fs)
           /\ stack' = Front(stack) \o [i \in DOMAIN ds |->
                [dir |-> ds[i], path |-> Append(Top.path, image.dirs[ds[i]].name)]]
           /\ UNCHANGED <<at, walked>>
        \/ ("returns" \in ends \/ false) /\ Verdict("refused")
        \/ (Beyond \in ends \/ false) /\ Verdict("raised")
  /\ UNCHANGED <<treeVars, imageVars>>

-----------------------------------------------------------------------------
(* _check_structure *)

Listed == ToSet(listed)

\* In offset order, none that has bytes runs into the next.
ExtentsApart ==
  \A i, j \in DOMAIN listed :
    i # j /\ listed[i].size > 0 /\ listed[j].size > 0 =>
      \/ listed[i].offset + listed[i].size <= listed[j].offset
      \/ listed[j].offset + listed[j].size <= listed[i].offset

\* Every link of every entry is aligned and has room for an entry: which is not
\* to be one, or the right one.
LinksFit ==
  LET unfit == {Beyond, Askew}
  IN /\ \A d \in DOMAIN image.dirs :
          unfit \cap {image.dirs[d].parent, image.dirs[d].sibling, image.dirs[d].child,
                     image.dirs[d].file} = {}
     /\ \A f \in DOMAIN image.files :
          unfit \cap {image.files[f].parent, image.files[f].sibling} = {}

PathsAreListedOnce == \A i, j \in DOMAIN listed : i # j => listed[i].path # listed[j].path

\* A record that is none may have been listed with anything.
CheckStructure ==
  /\ at = "listing" /\ stack = <<>>
  /\ LET sound == ExtentsApart /\ LinksFit /\ PathsAreListedOnce
         false == \E d \in DOMAIN image.dirs : Within \in Ends(d)
     IN \/ /\ sound
           /\ Checks("hash tables", <<[dir |-> 1, parent |-> 1]>>)
           /\ UNCHANGED <<listed, walked>>
        \/ (~sound \/ false) /\ Verdict("refused")
  /\ UNCHANGED <<treeVars, imageVars>>

-----------------------------------------------------------------------------
(* _check_hash_tables *)

Buckets(heads) == Cardinality(DOMAIN heads)

\* find: an entry looked for on the chain of the bucket its name puts it in.
\* From a link that is no entry a chain may lead anywhere.
Find(table, heads, entry, parent) ==
  LET first == heads[Bucket(parent, table[entry].name, Buckets(heads))]
      links == Field(table, "hash")
      on[n \in 0..Cardinality(DOMAIN table)] ==
        IF n = 0 THEN first
        ELSE IF on[n - 1] \in DOMAIN table THEN links[on[n - 1]] ELSE on[n - 1]
  IN IF \E n \in DOMAIN on : on[n] = entry THEN "found"
     ELSE IF Chain(links, first).end \in FalseLink THEN "open" ELSE "lost"

\* Mutation: only the files are looked for in their buckets.
FindsOfFiles(d, parent, fs) == {Find(image.files, image.fileHash, f, d) : f \in fs}

\* The root has no name and is in no bucket.
FindsOf(d, parent, fs) ==
  {Find(image.files, image.fileHash, f, d) : f \in fs}
    \cup (IF d = 1 THEN {} ELSE {Find(image.dirs, image.dirHash, d, parent)})

\* The walk along the links once more, each entry looked for by name: a record
\* that is none is in no bucket.  A directory reached twice is refused.
HashDirectory ==
  /\ at = "hash tables" /\ stack # <<>>
  /\ LET d == Top.dir
         fs == ToSet(FilesOf(d).entries)
         ds == ChildrenOf(d).entries
         finds == FindsOf(d, Top.parent, fs)
         wrong == \/ "lost" \in finds
                  \/ ToSet(ds) \cap walked.dirs # {}
                  \/ Ends(d) # {Empty}
     IN \/ /\ ~wrong
           /\ walked' = [dirs |-> walked.dirs \cup ToSet(ds), files |-> walked.files \cup fs]
           /\ stack' = Front(stack) \o [i \in DOMAIN ds |-> [dir |-> ds[i], parent |-> d]]
           /\ UNCHANGED <<at, listed>>
        \/ (wrong \/ "open" \in finds) /\ Verdict("refused")
        \/ "open" \in finds /\ Verdict("raised")
  /\ UNCHANGED <<treeVars, imageVars>>

\* Mutation: a bucket's chain has to end, and may reach anything.
ChainsEnd(table, heads, met) ==
  \A b \in DOMAIN heads : Chain(Field(table, "hash"), heads[b]).end = Empty

\* And backwards: what a bucket's chain reaches is in the tree, and each ends.
NothingElse(table, heads, met) ==
  \A b \in DOMAIN heads :
    LET chain == Chain(Field(table, "hash"), heads[b])
    IN chain.end = Empty /\ ToSet(chain.entries) \subseteq met

CheckBuckets ==
  /\ at = "hash tables" /\ stack = <<>>
  /\ IF /\ NothingElse(image.dirs, image.dirHash, walked.dirs)
        /\ NothingElse(image.files, image.fileHash, walked.files)
     THEN Checks("contents", <<>>) /\ UNCHANGED <<listed, walked>>
     ELSE Verdict("refused")
  /\ UNCHANGED <<treeVars, imageVars>>

-----------------------------------------------------------------------------
(* _check_contents, of images small enough that the sample is every file,     *)
(* and of files long enough that their bytes say where they are from: a file  *)
(* below a word is read back and held against nothing.                        *)

Delivered == ModLoose \cup ModBin
Read(e) == source[e.offset]

\* What one file's bytes are held against.
BytesBelong(e) ==
  IF e.path \in ModLoose THEN Read(e) = [from |-> "loose", run |-> e.path]
  ELSE /\ Read(e).from # "loose"
       /\ e.path \in ModBin => Read(e).from = "bin"

ContentsBelong ==
  LET read == {f \in Listed : f.size > 0}
  IN /\ \A e \in read : BytesBelong(e)
     /\ \A e, f \in {g \in read : g.path \notin ModLoose} : e # f => Read(e) # Read(f)

CheckContents ==
  /\ at = "contents"
  /\ IF /\ Delivered \subseteq {e.path : e \in Listed}
        /\ ContentsBelong
     THEN Verdict("accepted")
     ELSE Verdict("refused")
  /\ UNCHANGED <<treeVars, imageVars>>

-----------------------------------------------------------------------------

Faulty ==
  \/ \E d \in DOMAIN image.dirs, link \in Links(image.dirs), field \in {"sibling", "child", "hash", "parent"} :
       LinkIsWrong("dirs", d, field, link)
  \/ \E d \in DOMAIN image.dirs, link \in Links(image.files) : LinkIsWrong("dirs", d, "file", link)
  \/ \E f \in DOMAIN image.files, link \in Links(image.files), field \in {"sibling", "hash"} :
       LinkIsWrong("files", f, field, link)
  \/ \E f \in DOMAIN image.files, link \in Links(image.dirs) : LinkIsWrong("files", f, "parent", link)
  \/ \E b \in DOMAIN image.dirHash, link \in Links(image.dirs) : BucketIsWrong("dirHash", b, link)
  \/ \E b \in DOMAIN image.fileHash, link \in Links(image.files) : BucketIsWrong("fileHash", b, link)
  \/ \E f \in DOMAIN image.files, offset \in DOMAIN source : ExtentIsWrong(f, offset)
  \/ \E offset, other \in DOMAIN source : SourceIsWrong(offset, source[other])

Next ==
  \/ \E f \in Addable : Add(f)
  \/ Build
  \/ Faulty
  \/ BeginListing
  \/ ListDirectory
  \/ CheckStructure
  \/ HashDirectory
  \/ CheckBuckets
  \/ CheckContents

Spec == Init /\ [][Next]_vars

-----------------------------------------------------------------------------
(* Properties *)

Added == ToSet(files)

\* What was added is what is there: the listing of an image nobody spoiled is
\* its tree, every file once and on its own bytes, each on a boundary and in
\* path order; and the checker takes it if the mod's files are in it.
PackedIsTheTree ==
  fault = "none" =>
    /\ at = "hash tables" =>
         /\ {[path |-> e.path, size |-> e.size] : e \in Listed} = Added
         /\ Len(listed) = Len(files)
         /\ \A e, f \in Listed :
              /\ e.offset % DataAlign = 0
              /\ PathRank[e.path] < PathRank[f.path] => e.offset + e.size <= f.offset
    /\ at \in {"refused", "raised"} => ~(Delivered \subseteq {f.path : f \in Added})

\* What a game does with a path: from the root, each component by hashing the
\* entry it is in and its name, and taking the first entry of the chain that
\* has both.
LookUp(table, heads, parent, name) ==
  LET chain == Chain(Field(table, "hash"), heads[Bucket(parent, name, Buckets(heads))]).entries
      is(n) == table[chain[n]].parent = parent /\ table[chain[n]].name = name
  IN IF \E n \in DOMAIN chain : is(n) THEN chain[Min({n \in DOMAIN chain : is(n)})] ELSE Empty

Opened(path) ==
  LET dir[n \in 0..(Len(path) - 1)] ==
        IF n = 0 \/ dir[n - 1] = Empty THEN IF n = 0 THEN 1 ELSE Empty
        ELSE LookUp(image.dirs, image.dirHash, dir[n - 1], path[n])
      d == dir[Len(path) - 1]
  IN IF d = Empty THEN Empty ELSE LookUp(image.files, image.fileHash, d, Name(path))

\* Every entry names the directory it is listed in as its parent.  A game asks
\* that of the entries of a chain, and the checker of none.
ParentsRight ==
  \A d \in DOMAIN image.dirs :
    /\ \A c \in ToSet(ChildrenOf(d).entries) : image.dirs[c].parent = d
    /\ \A f \in ToSet(FilesOf(d).entries) : image.files[f].parent = d

\* An image the checker accepts, and whose parents are right, is one a game can
\* use: every file of the listing opens by its path, and opens as the entry
\* that was listed.
AcceptedOpens ==
  at = "accepted" /\ ParentsRight => \A e \in Listed : Opened(e.path) = e.entry

\* And it is the image of the tree it was built from, though the checker never
\* sees that tree: no one wrong link, bucket, extent or run of bytes is
\* accepted that hides a file of the tree from a listing, or keeps it from
\* opening by its path with its own bytes, be they the game's or the mod's.
\* Two files of the game that change places are two runs wrong, and no fault
\* of this module.
AcceptedServesTheTree ==
  at = "accepted" /\ ParentsRight =>
    /\ {[path |-> e.path, size |-> e.size] : e \in Listed} = Added
    /\ \A f \in Added : f.size > 0 =>
         LET e == Opened(f.path)
         IN e # Empty /\ source[image.files[e].offset] = Origin(f.path)

\* romfs_check.py:247-250: "a bound says a walk is too long to be honest, a
\* visited set says which entry it came back to. Either stops the walk".
NoWalkGoesDeeperThanTheTables ==
  at = "listing" => \A i \in DOMAIN stack : Len(stack[i].path) < Len(image.dirs)
=============================================================================
