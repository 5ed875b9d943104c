------------------------------- MODULE SdTree -------------------------------
(***************************************************************************)
(* The SD during one launch, as the calls of the build change it: the tree *)
(* and the set of spellings noted as written.  One action per call that    *)
(* can change either, of the path as the call spells it.  Handles,         *)
(* directory listings and the counting of calls are not here: FsServices   *)
(* puts them around these actions.  SdMirror surrounds them with the host  *)
(* directory the SD is read from and written back to.                      *)
(***************************************************************************)
EXTENDS FakeSD

CONSTANTS
  TargetPath,   \* the spellings the build names paths by in its calls
  ModPath,      \* the mod files a launch puts on the SD
  MaxSize       \* bound on the size of a file

ASSUME TreeAssumption ==
  /\ TargetPath \subseteq Spelling
  /\ ModPath \subseteq Path
  /\ \A p \in ModPath : IsModInput(p)
  /\ MaxSize \in Nat

VARIABLES
  tree,      \* FakeSD._root
  written,   \* FakeSD._written
  placed,    \* history: the mod files that are as the launch put them
  torn       \* history: the files whose last write found no bytes to write

sdVars == <<tree, written, placed, torn>>

Size == 0..MaxSize

\* What a write hands over: up to MaxSize bytes.
Buffer == UNION {[1..n -> Byte] : n \in Size}

-----------------------------------------------------------------------------
(* The harness: put_file_sparse for a loose mod file, put_file_virtual for *)
(* a packed one, which launch hands no head.  Either is a size, and every  *)
(* byte of it is produced when it is read.                                 *)

PutMod(p, size) ==
  /\ CanPlace(tree, p)
  /\ tree' = Place(tree, p, File(<<>>, size))
  /\ placed' = placed \cup {p}
  /\ torn' = torn \ {p}
  /\ UNCHANGED written

-----------------------------------------------------------------------------
(* The build *)

\* The file at p is the build's own and holds all of its bytes.
IsNowWhole(p) == placed' = placed \ {p} /\ torn' = torn \ {p}

\* fsFsCreateFile: put_file, whatever was there, and note_written.
CreateFile(s, size) ==
  LET p == Split(s)
  IN  /\ CanPlace(tree, p)
      /\ tree' = Place(tree, p, Whole(Zeros(size)))
      /\ written' = written \cup {s}
      /\ IsNowWhole(p)

\* Mutation: a write that grows the node's size but never brings it back to the bytes
\* the node holds.
WriteFileGrowing(s, off, buf) ==
  LET p == Split(s)
  IN  /\ IsFile(tree, p)
      /\ LET data == Overwrite(tree[p].data, off, buf)
             size == IF Len(data) > tree[p].size THEN Len(data) ELSE tree[p].size
         IN  tree' = [tree EXCEPT ![p] = File(data, size)]
      /\ written' = written \cup {s}
      /\ IsNowWhole(p)

\* fsFileWrite: note_written, the bytes, and a size that is what is now held.
WriteFile(s, off, buf) ==
  LET p == Split(s)
  IN  /\ IsFile(tree, p)
      /\ tree' = [tree EXCEPT ![p] = Whole(Overwrite(@.data, off, buf))]
      /\ written' = written \cup {s}
      /\ IsNowWhole(p)

\* fsFileWrite from a buffer the emulator refuses: it raises with the write
\* noted and room made for it, and the size is the one before.
WriteIsCut(s, end) ==
  LET p == Split(s)
  IN  /\ IsFile(tree, p)
      /\ tree' = [tree EXCEPT ![p] = File(Extend(@.data, end), @.size)]
      /\ written' = written \cup {s}
      /\ torn' = torn \cup {p}
      /\ UNCHANGED placed

\* fsFileSetSize: the bytes and the size, and no note that it was written.
SetFileSize(s, size) ==
  LET p == Split(s)
  IN  /\ IsFile(tree, p)
      /\ tree' = [tree EXCEPT ![p] = File(Resize(@.data, size), size)]
      /\ torn' = torn \ {p}
      /\ UNCHANGED <<written, placed>>

\* fsFsDeleteFile: anything that is found goes, a directory included.
DeleteFile(s) ==
  /\ Found(tree, Split(s))
  /\ tree' = Unlink(tree, Split(s))
  /\ UNCHANGED <<written, placed, torn>>

\* fsFsCreateDirectory.
CreateDirectory(s) ==
  /\ ~Found(tree, Split(s))
  /\ CanPlace(tree, Split(s))
  /\ tree' = EnsureDir(tree, Split(s))
  /\ UNCHANGED <<written, placed, torn>>

TargetStep ==
  \E s \in TargetPath :
    \/ \E size \in Size : CreateFile(s, size) \/ SetFileSize(s, size)
    \/ \E off \in Size, buf \in Buffer :
         off + Len(buf) <= MaxSize /\ WriteFile(s, off, buf)
    \/ DeleteFile(s)
    \/ CreateDirectory(s)

CutStep == \E s \in TargetPath, end \in Size : WriteIsCut(s, end)

-----------------------------------------------------------------------------
(* What the calls keep true of any tree they are let loose on. *)

\* Everything on the SD is in directories all the way down from the root: no
\* sequence of creations, deletions and replacements leaves a node below a
\* file or below nothing.  What makes it true is _place and remove, which
\* work on the parent's entry only.
RootedTree(t) ==
  \A p \in Path : Found(t, p) => \A q \in Above(p) : IsDir(t, q)

\* fsFileRead hands over what a file of that size has from there on, whether
\* held or invented: all that was asked for, or what is left before the end,
\* or nothing past it.  It needs every call to keep a node from holding more
\* bytes than its size says, which all do but a write that was cut short.
ReadIsWhatTheFileHas ==
  \A p \in Path \ torn, off \in 0..MaxSize + 1, n \in 0..MaxSize + 1 :
    IsFile(tree, p) =>
      LET left == IF off < tree[p].size THEN tree[p].size - off ELSE 0
      IN  ReadCount(tree[p], off, n) = IF n < left THEN n ELSE left

=============================================================================
