----------------------------- MODULE RomfsPack -----------------------------
(***************************************************************************)
(* A romfs image, as the builder of romfs_pack.py makes it from a tree of  *)
(* files.  An entry is named by its place in its table, 1 being the root:  *)
(* the byte offset the format has in its stead is the sum of the sizes of  *)
(* the entries before it, and serves as a name only.  A link is such a     *)
(* name, or Empty.                                                         *)
(***************************************************************************)
EXTENDS Integers, Sequences, FiniteSetsExt, SequencesExt

CONSTANTS
  Addable,       \* the files there are to add: path, a sequence of names, and size
  PathRank,      \* path -> its place in the order of the paths as strings
  NameRank,      \* name -> its place in the order of names
  Hash,          \* <<parent entry, name>> -> path_hash
  DataAlign,     \* FILE_DATA_ALIGN
  Empty,         \* EMPTY
  MaxFiles       \* bound on the files added

ASSUME RomfsAssumption ==
  /\ \A f \in Addable : f.path \in DOMAIN PathRank /\ f.size \in Nat
  /\ DataAlign \in Nat \ {0}
  /\ Empty \notin Nat
  /\ MaxFiles \in Nat

VARIABLES
  dirs,      \* the directories, in the order they were made
  files      \* the files, in the order they were added

treeVars == <<dirs, files>>

Root == <<>>
Parent(path) == Front(path)
Name(path) == Last(path)

TreeInit ==
  /\ dirs = <<Root>>
  /\ files = <<>>

-----------------------------------------------------------------------------
(* add_file_sparse *)

\* The directories above a path that are not there yet, from the top.
NewAbove(path) ==
  SelectSeq([k \in 1..(Len(path) - 1) |-> SubSeq(path, 1, k)], LAMBDA d : d \notin ToSet(dirs))

\* Refused by raising: a file is there, or a directory.  The directories above
\* it have been made by then, whatever files have their names.
Taken(path) == \/ \E i \in DOMAIN files : files[i].path = path
               \/ path \in ToSet(dirs)

\* Mutation: nothing is asked of the name.
AddFileAnyway(f) ==
  /\ Len(files) < MaxFiles
  /\ dirs' = dirs \o NewAbove(f.path)
  /\ files' = Append(files, f)

AddFile(f) ==
  /\ Len(files) < MaxFiles
  /\ dirs' = dirs \o NewAbove(f.path)
  /\ files' = IF Taken(f.path) THEN files ELSE Append(files, f)

-----------------------------------------------------------------------------
(* pack: the orders things are laid out in *)

In(d, path) == path # Root /\ Parent(path) = d

\* Breadth first from the root, each directory's in the order they were made.
DirOrder ==
  LET deepest == Max({Len(d) : d \in ToSet(dirs)})
      below(d) == SelectSeq(dirs, LAMBDA e : In(d, e))
      level[k \in 0..deepest] ==
        IF k = 0 THEN <<Root>>
        ELSE FlattenSeq([i \in DOMAIN level[k - 1] |-> below(level[k - 1][i])])
  IN FlattenSeq([k \in 1..(deepest + 1) |-> level[k - 1]])

\* The flat arrays: a directory's files together, in the order added.
FileOrder(dirOrder) ==
  FlattenSeq([i \in DOMAIN dirOrder |-> SelectSeq(files, LAMBDA f : In(dirOrder[i], f.path))])

InPathOrder == SortSeq(files, LAMBDA f, g : PathRank[f.path] <= PathRank[g.path])

\* Contents back to back, each on DataAlign.
ContentOffset(placed) ==
  LET up(n) == ((n + DataAlign - 1) \div DataAlign) * DataAlign
      start[k \in DOMAIN placed] ==
        IF k = 1 THEN 0 ELSE up(start[k - 1] + placed[k - 1].size)
  IN start

\* The place of each path in its table.
DirEntries(dirOrder) == [d \in ToSet(dirOrder) |-> CHOOSE i \in DOMAIN dirOrder : dirOrder[i] = d]
FileEntries(placed) ==
  [p \in {placed[i].path : i \in DOMAIN placed} |-> CHOOSE i \in DOMAIN placed : placed[i].path = p]

\* Of some paths of one directory, the first by name; and of those by name
\* after a path, the first.
FirstOf(paths) ==
  IF paths = {} THEN Empty
  ELSE CHOOSE p \in paths : \A q \in paths : NameRank[Name(p)] <= NameRank[Name(q)]
After(path, paths) ==
  FirstOf({p \in paths : NameRank[Name(p)] > NameRank[Name(path)]})

SubDirs(d) == {e \in ToSet(dirs) : In(d, e)}
FilesIn(d) == {p \in {files[i].path : i \in DOMAIN files} : In(d, p)}
Link(entry, path) == IF path = Empty THEN Empty ELSE entry[path]

-----------------------------------------------------------------------------
(* pack: the tables *)

\* hash_table_size: 3 at least, odd below 19, and from there on the first
\* number the sieve lets through.
HashTableSize(n) ==
  IF n < 3 THEN 3
  ELSE IF n < 19 THEN IF n % 2 = 1 THEN n ELSE n + 1
  ELSE CHOOSE m \in n..(2 * n) :
         LET passes(k) == \A p \in {2, 3, 5, 7, 11, 13, 17} : k % p # 0
         IN passes(m) /\ \A k \in n..(m - 1) : ~passes(k)

Bucket(parent, name, buckets) == Hash[<<parent, name>>] % buckets

\* Heads and links of a hash table whose entries were put in at the head, in
\* this order: an entry's bucket is where its parent and name put it.
HashTable(order, bucketOf, buckets) ==
  LET put(h, e) == [heads |-> [h.heads EXCEPT ![bucketOf[e]] = e],
                    links |-> [h.links EXCEPT ![e] = h.heads[bucketOf[e]]]]
  IN FoldLeft(put, [heads |-> [b \in 0..(buckets - 1) |-> Empty],
                    links |-> [e \in DOMAIN bucketOf |-> Empty]], order)

\* Directories are put in from their parents, parents in entry order; the
\* root is in no bucket.
DirHash(dirOrder, entry) ==
  LET n == HashTableSize(Len(dirOrder))
      bucketOf == [i \in DOMAIN dirOrder |->
                     IF i = 1 THEN 0 ELSE Bucket(entry[Parent(dirOrder[i])], Name(dirOrder[i]), n)]
  IN HashTable(Tail([i \in DOMAIN dirOrder |-> i]), bucketOf, n)

FileHash(fileOrder, placed, dirEntry, fileEntry) ==
  LET n == HashTableSize(Len(placed))
      bucketOf == [i \in DOMAIN placed |->
                     Bucket(dirEntry[Parent(placed[i].path)], Name(placed[i].path), n)]
  IN HashTable([i \in DOMAIN fileOrder |-> fileEntry[fileOrder[i].path]], bucketOf, n)

\* The image pack makes.  What the bytes at an offset are is the content's.
Packed ==
  LET order == DirOrder
      placed == InPathOrder
      offset == ContentOffset(placed)
      dir == DirEntries(order)
      file == FileEntries(placed)
      dirHash == DirHash(order, dir)
      fileHash == FileHash(FileOrder(order), placed, dir, file)
      DirAt(d) ==
        [name    |-> IF d = Root THEN Empty ELSE Name(d),
         parent  |-> IF d = Root THEN Empty ELSE dir[Parent(d)],
         sibling |-> IF d = Root THEN Empty ELSE Link(dir, After(d, SubDirs(Parent(d)))),
         child   |-> Link(dir, FirstOf(SubDirs(d))),
         file    |-> Link(file, FirstOf(FilesIn(d))),
         hash    |-> IF d = Root THEN 1 ELSE dirHash.links[dir[d]]]
      FileAt(i) ==
        [name    |-> Name(placed[i].path),
         parent  |-> dir[Parent(placed[i].path)],
         sibling |-> Link(file, After(placed[i].path, FilesIn(Parent(placed[i].path)))),
         offset  |-> offset[i],
         size    |-> placed[i].size,
         hash    |-> fileHash.links[i]]
  IN [dirs     |-> [i \in DOMAIN order |-> DirAt(order[i])],
      files    |-> [i \in DOMAIN placed |-> FileAt(i)],
      dirHash  |-> dirHash.heads,
      fileHash |-> fileHash.heads]
=============================================================================
