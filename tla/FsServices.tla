----------------------------- MODULE FsServices -----------------------------
(***************************************************************************)
(* The fs calls fake_services.py answers, one action per hook, over the    *)
(* tree of SdTree: handles, open modes, directory listings, and what Stats *)
(* is told of each call.  A handle holds the path it was opened on and not *)
(* the node, so every call through one looks its path up again; ids come   *)
(* from one counter shared with ncm's databases and are never given back.  *)
(* The build is called twice over: by Harness's constructor, and by launch *)
(* once the mod is on the SD.                                              *)
(*                                                                         *)
(* A hook that raises on its own account (a handle nobody was given, a     *)
(* file that is not there) is the last one to answer.  One the emulator    *)
(* refuses an address ends the call it was in and no more, and whatever it *)
(* had done by then stays done: the build is asked once more for what the  *)
(* result needs.  All but fsFileWrite come to their addresses last, so     *)
(* that what they leave is what they leave when they answer.               *)
(***************************************************************************)
EXTENDS SdTree, FiniteSets

CONSTANTS
  MaxHandles,    \* bound on the handles opened in a launch
  MaxEntries,    \* bound on the entries one fsDirRead asks for
  BaseSize,      \* size of the base game's romfs image
  OpenMode,      \* the modes the build opens files in: sets of "read", "write"
  EntryKinds     \* the kinds it lists directories for: sets of "dir", "file"

ASSUME FsAssumption ==
  /\ MaxHandles \in Nat
  /\ MaxEntries \in Nat
  /\ BaseSize \in Nat
  /\ \A mode \in OpenMode : mode \subseteq {"read", "write"}
  /\ \A kinds \in EntryKinds : kinds \subseteq {"dir", "file"}

VARIABLES
  stage,       \* where the harness is: see Stage
  nextId,      \* _Handles._next
  files,       \* _Handles.files: id -> path and mode
  dirs,        \* _Handles.dirs: id -> entries and cursor
  dbs,         \* _OPENED_FOR: the ids of ncm databases
  raised,      \* a hook raised
  crossing,    \* what Stats was told of the last call
  gone,        \* history: file handles whose file was removed under them
  given        \* history: what has been read out through each directory handle

handleVars == <<nextId, files, dirs, dbs>>
vars == <<sdVars, stage, handleVars, raised, crossing, gone, given>>

\* Before install, in the constructor, while launch puts the mod, and in its
\* phases.
Stage == {"new", "installed", "launching", "launched"}

Id == 1..MaxHandles
Nowhere == <<>>

-----------------------------------------------------------------------------
(* Stats: fs_call, at_path and crossed.  A call that names no file and     *)
(* moves no byte is only counted.                                          *)

Counted == [touched |-> Nowhere, target |-> Nowhere, offset |-> 0, moved |-> 0, written |-> FALSE]

Touch(s) == [Counted EXCEPT !.touched = s]

Moved(s, off, n, write) ==
  [Counted EXCEPT !.target = s, !.offset = off, !.moved = n, !.written = write]

BaseRomfs == <<"<base romfs>">>

\* The label of the base romfs is no path, and a directory lists finitely many.
ASSUME LabelAssumption ==
  /\ BaseRomfs \notin Spelling
  /\ IsFiniteSet(Path)

-----------------------------------------------------------------------------

Init ==
  /\ tree = Empty
  /\ written = {}
  /\ placed = {}
  /\ torn = {}
  /\ stage = "new"
  /\ nextId = 1
  /\ files = <<>>
  /\ dirs = <<>>
  /\ dbs = {}
  /\ raised = FALSE
  /\ crossing = Counted
  /\ gone = {}
  /\ given = <<>>

\* Mutation: a second install answers with a handle table of its own.
InstallAgain ==
  /\ stage' = IF stage = "new" THEN "installed" ELSE stage
  /\ nextId' = 1
  /\ UNCHANGED <<sdVars, files, dirs, dbs, raised, crossing, gone, given>>

\* install: a guest that has its services keeps the ones it has.
Install ==
  /\ stage' = IF stage = "new" THEN "installed" ELSE stage
  /\ UNCHANGED <<sdVars, handleVars, raised, crossing, gone, given>>

\* launch begins: the base game's romfs is there to be read, and the mod is put
\* on the SD.
BeginLaunch ==
  /\ stage = "installed" /\ ~raised
  /\ stage' = "launching"
  /\ UNCHANGED <<sdVars, handleVars, raised, crossing, gone, given>>

\* The file handles whose file lies below p.
Below(p) == {h \in DOMAIN files : p \in Above(Split(files[h].path))}

\* A mod file takes the place of what the constructor's calls left there.
ModIsPut(p, size) ==
  /\ stage = "launching" /\ ~raised
  /\ IF CanPlace(tree, p)
     THEN PutMod(p, size) /\ gone' = gone \cup Below(p) /\ UNCHANGED raised
     ELSE raised' = TRUE /\ UNCHANGED <<sdVars, gone>>
  /\ UNCHANGED <<stage, handleVars, crossing, given>>

BeginPhases ==
  /\ stage = "launching" /\ ~raised
  /\ stage' = "launched"
  /\ UNCHANGED <<sdVars, handleVars, raised, crossing, gone, given>>

\* The constructor calls the build, and so do the phases of the launch; a hook
\* that raised was the last to answer.
Answers == stage \in {"installed", "launched"} /\ ~raised

\* A table with one handle more.
With(table, id, entry) ==
  [h \in DOMAIN table \cup {id} |-> IF h = id THEN entry ELSE table[h]]

\* new_id
NewId(id) == id \in Id /\ id = nextId /\ nextId' = nextId + 1

\* ncmOpenContentMetaDatabase takes its id from the same table.
OpenDatabase ==
  /\ Answers
  /\ \E id \in Id : NewId(id) /\ dbs' = dbs \cup {id}
  /\ UNCHANGED <<sdVars, stage, files, dirs, raised, crossing, gone, given>>

-----------------------------------------------------------------------------
(* Calls that name a path *)

\* Mutation: what is there is not asked whether it is a file.
OpenFileOfAnyKind(s, mode) ==
  /\ Answers
  /\ crossing' = Touch(s)
  /\ IF Found(tree, Split(s))
     THEN \E id \in Id :
            NewId(id) /\ files' = With(files, id, [path |-> s, mode |-> mode])
     ELSE UNCHANGED <<nextId, files>>
  /\ UNCHANGED <<sdVars, stage, dirs, dbs, raised, gone, given>>

OpenFile(s, mode) ==
  /\ Answers
  /\ crossing' = Touch(s)
  /\ IF IsFile(tree, Split(s))
     THEN \E id \in Id :
            NewId(id) /\ files' = With(files, id, [path |-> s, mode |-> mode])
     ELSE UNCHANGED <<nextId, files>>
  /\ UNCHANGED <<sdVars, stage, dirs, dbs, raised, gone, given>>

FsCreateFile(s, size) ==
  /\ Answers
  /\ IF CanPlace(tree, Split(s))
     THEN /\ CreateFile(s, size)
          /\ crossing' = Touch(s)
          /\ gone' = gone \cup Below(Split(s))
          /\ UNCHANGED raised
     ELSE /\ raised' = TRUE
          /\ crossing' = Counted
          /\ UNCHANGED <<sdVars, gone>>
  /\ UNCHANGED <<stage, handleVars, given>>

FsDeleteFile(s) ==
  /\ Answers
  /\ crossing' = Touch(s)
  /\ IF Found(tree, Split(s))
     THEN /\ DeleteFile(s)
          /\ gone' = gone \cup Below(Split(s))
                          \cup {h \in DOMAIN files : Split(files[h].path) = Split(s)}
     ELSE UNCHANGED <<sdVars, gone>>
  /\ UNCHANGED <<stage, handleVars, raised, given>>

FsCreateDirectory(s) ==
  /\ Answers
  /\ crossing' = Counted
  /\ IF Found(tree, Split(s))
     THEN UNCHANGED <<sdVars, raised>>
     ELSE IF CanPlace(tree, Split(s))
     THEN CreateDirectory(s) /\ UNCHANGED raised
     ELSE raised' = TRUE /\ UNCHANGED sdVars
  /\ UNCHANGED <<stage, handleVars, gone, given>>

-----------------------------------------------------------------------------
(* Directory listings *)

\* What is directly in p and of a kind asked for, in the order of its name.
Entries(p, kinds) ==
  LET here == {q \in Path : Above(q) = Above(p) \cup {p} /\ tree[q].kind \in kinds}
      Before(q) == {r \in here : Rank[r] < Rank[q]}
  IN  [i \in 1..Cardinality(here) |-> CHOOSE q \in here : Cardinality(Before(q)) = i - 1]

OpenDirectory(s, kinds) ==
  LET p == Split(s)
  IN  /\ Answers
      /\ crossing' = Counted
      /\ IF IsDir(tree, p)
         THEN \E id \in Id :
                /\ NewId(id)
                /\ dirs' = With(dirs, id, [path |-> p, kinds |-> kinds,
                                           entries |-> Entries(p, kinds), cursor |-> 0])
                /\ given' = With(given, id, <<>>)
         ELSE UNCHANGED <<nextId, dirs, given>>
      /\ UNCHANGED <<sdVars, stage, files, dbs, raised, gone>>

\* Mutation: the directory is listed again for every read of it.
ChunkOfLiveListing(h, n) ==
  LET now == Entries(dirs[h].path, dirs[h].kinds)
  IN  SubSeq(now, dirs[h].cursor + 1,
             IF dirs[h].cursor + n < Len(now) THEN dirs[h].cursor + n ELSE Len(now))

\* entries[cursor: cursor + max_entries]
Chunk(h, n) ==
  LET all == dirs[h].entries
  IN  SubSeq(all, dirs[h].cursor + 1,
             IF dirs[h].cursor + n < Len(all) THEN dirs[h].cursor + n ELSE Len(all))

\* A KeyError: no such handle in the table.
Unknown(h, table) ==
  /\ h \notin DOMAIN table
  /\ raised' = TRUE
  /\ crossing' = Counted
  /\ UNCHANGED <<sdVars, stage, handleVars, gone, given>>

DirRead(h, n) ==
  /\ Answers
  /\ h \in DOMAIN dirs
  /\ crossing' = Counted
  /\ dirs' = [dirs EXCEPT ![h].cursor = @ + Len(Chunk(h, n))]
  /\ given' = [given EXCEPT ![h] = @ \o Chunk(h, n)]
  /\ UNCHANGED <<sdVars, stage, nextId, files, dbs, raised, gone>>

\* fsDirRead and fsDirGetEntryCount, which has nothing else to raise.
DirIsUnknown(h) == Answers /\ Unknown(h, dirs)

-----------------------------------------------------------------------------
(* Calls through a file handle *)

\* fsFileRead, fsFileWrite, fsFileSetSize and fsFileGetSize.
FileIsUnknown(h) == Answers /\ Unknown(h, files)

\* Refused before anything is looked up.
Refuses(h, direction) == direction \notin files[h].mode

\* The hook reads the node's bytes, and there is no such node.
Raises == raised' = TRUE /\ crossing' = Counted /\ UNCHANGED sdVars

FileRead(h, off, n) ==
  /\ Answers
  /\ h \in DOMAIN files
  /\ LET s == files[h].path
         p == Split(s)
     IN  IF Refuses(h, "read")
         THEN crossing' = Counted /\ UNCHANGED <<sdVars, raised>>
         ELSE IF IsFile(tree, p)
         THEN /\ crossing' = Moved(s, off, ReadCount(tree[p], off, n), FALSE)
              /\ UNCHANGED <<sdVars, raised>>
         ELSE Raises
  /\ UNCHANGED <<stage, handleVars, gone, given>>

\* Mutation: the path is not noted as written.
FileWriteUnnoted(h, off, buf) ==
  /\ Answers
  /\ h \in DOMAIN files
  /\ LET s == files[h].path
         size == IF off + Len(buf) > tree[Split(s)].size THEN off + Len(buf) ELSE tree[Split(s)].size
     IN  IF Refuses(h, "write")
         THEN crossing' = Counted /\ UNCHANGED <<sdVars, raised>>
         ELSE IF IsFile(tree, Split(s))
         THEN /\ SetFileSize(s, size)
              /\ crossing' = Moved(s, off, Len(buf), TRUE)
              /\ UNCHANGED raised
         ELSE Raises
  /\ UNCHANGED <<stage, handleVars, gone, given>>

\* note_written comes before the bytes, so a path whose file is gone is noted
\* by the call that raises, and one whose bytes cannot be read is noted, has
\* grown, and is not counted.
FileWrite(h, off, buf) ==
  /\ Answers
  /\ h \in DOMAIN files
  /\ LET s == files[h].path
     IN  IF Refuses(h, "write")
         THEN crossing' = Counted /\ UNCHANGED <<sdVars, raised>>
         ELSE IF IsFile(tree, Split(s))
         THEN /\ \/ WriteFile(s, off, buf) /\ crossing' = Moved(s, off, Len(buf), TRUE)
                 \/ WriteIsCut(s, off + Len(buf)) /\ crossing' = Counted
              /\ UNCHANGED raised
         ELSE /\ raised' = TRUE
              /\ crossing' = Counted
              /\ written' = written \cup {s}
              /\ UNCHANGED <<tree, placed, torn>>
  /\ UNCHANGED <<stage, handleVars, gone, given>>

\* Through a handle of any mode.
FileSetSize(h, size) ==
  /\ Answers
  /\ h \in DOMAIN files
  /\ IF IsFile(tree, Split(files[h].path))
     THEN /\ SetFileSize(files[h].path, size)
          /\ crossing' = Counted
          /\ UNCHANGED raised
     ELSE Raises
  /\ UNCHANGED <<stage, handleVars, gone, given>>

\* A directory put in the file's place has a size; nothing has none.
FileGetSize(h) ==
  /\ Answers
  /\ h \in DOMAIN files
  /\ IF Found(tree, Split(files[h].path))
     THEN crossing' = Counted /\ UNCHANGED <<sdVars, raised>>
     ELSE Raises
  /\ UNCHANGED <<stage, handleVars, gone, given>>

\* The handle is named and kept: a call through it still finds its entry.
FileClose(h) ==
  /\ Answers
  /\ crossing' = IF h \in DOMAIN files THEN Touch(files[h].path)
                 ELSE Counted
  /\ UNCHANGED <<sdVars, stage, handleVars, raised, gone, given>>

\* There is no image before the launch.
StorageRead(off, n) ==
  LET size == IF stage = "launched" THEN BaseSize ELSE 0
  IN  /\ Answers
      /\ crossing' = Moved(BaseRomfs, off,
                           IF off >= size THEN 0
                           ELSE IF n < size - off THEN n ELSE size - off, FALSE)
      /\ UNCHANGED <<sdVars, stage, handleVars, raised, gone, given>>

\* The calls that answer out of what is known and change nothing here: closing
\* what is not a file, flushing, sizes, the access log.
PlainCall ==
  /\ Answers
  /\ crossing' = Counted
  /\ UNCHANGED <<sdVars, stage, handleVars, raised, gone, given>>

-----------------------------------------------------------------------------

PathCall ==
  \E s \in TargetPath :
    \/ \E mode \in OpenMode : OpenFile(s, mode)
    \/ \E size \in Size : FsCreateFile(s, size)
    \/ FsDeleteFile(s)
    \/ FsCreateDirectory(s)
    \/ \E kinds \in EntryKinds : OpenDirectory(s, kinds)

HandleCall ==
  \E h \in Id :
    \/ \E n \in 0..MaxEntries : DirRead(h, n)
    \/ DirIsUnknown(h)
    \/ FileIsUnknown(h)
    \/ \E off, n \in Size : FileRead(h, off, n)
    \/ \E off \in Size, buf \in Buffer : off + Len(buf) <= MaxSize /\ FileWrite(h, off, buf)
    \/ \E size \in Size : FileSetSize(h, size)
    \/ FileGetSize(h)
    \/ FileClose(h)

Next ==
  \/ Install
  \/ BeginLaunch
  \/ \E p \in ModPath, size \in Size : ModIsPut(p, size)
  \/ BeginPhases
  \/ OpenDatabase
  \/ PathCall
  \/ HandleCall
  \/ \E off \in 0..BaseSize, n \in 0..BaseSize : StorageRead(off, n)
  \/ PlainCall

Spec == Init /\ [][Next]_vars

-----------------------------------------------------------------------------
(* What must hold *)

TypeOK ==
  /\ tree \in [Path -> Node]
  /\ written \subseteq Spelling
  /\ placed \subseteq Path
  /\ torn \subseteq Path
  /\ stage \in Stage
  /\ nextId \in 1..MaxHandles + 1
  /\ DOMAIN files \cup DOMAIN dirs \cup dbs \subseteq Id
  /\ \A h \in DOMAIN files : files[h] \in [path : Spelling, mode : OpenMode]
  /\ \A h \in DOMAIN dirs : dirs[h].path \in Path /\ dirs[h].cursor \in 0..Len(dirs[h].entries)
  /\ raised \in BOOLEAN
  /\ gone \subseteq DOMAIN files
  /\ DOMAIN given = DOMAIN dirs

\* A file handle leads to a file for as long as no call, and no mod put over
\* what the constructor's calls had opened, removed what it was opened on, or
\* a directory above it: nothing else the build or the harness can do to the
\* SD makes a call through the handle raise.
LiveHandleFindsItsFile ==
  \A h \in DOMAIN files \ gone : IsFile(tree, Split(files[h].path))

\* No id the build holds means two things: a file, a directory listing and an
\* ncm database are told apart by their ids alone, however often install was
\* asked for.
IdsNeverShared ==
  /\ DOMAIN files \cap DOMAIN dirs = {}
  /\ DOMAIN files \cap dbs = {}
  /\ DOMAIN dirs \cap dbs = {}
  /\ Cardinality(DOMAIN files) + Cardinality(DOMAIN dirs) + Cardinality(dbs) = nextId - 1

\* What is read out through a directory handle is what the directory held when
\* it was opened, each entry once and in order, whatever is made or removed
\* meanwhile.
ListingIsASnapshot ==
  \A h \in DOMAIN dirs :
    /\ dirs[h].cursor = Len(given[h])
    /\ Len(given[h]) <= Len(dirs[h].entries)
    /\ given[h] = SubSeq(dirs[h].entries, 1, Len(given[h]))

\* Bytes counted as having crossed were there to cross: a write's are in the
\* file, in a path flush will write out, and a read's lie inside the file --
\* unless a write into it was cut short, and it holds more than its size.
CrossedBytesExist ==
  [][Answers /\ crossing'.moved > 0 /\ crossing'.target \in Spelling =>
       LET p == Split(crossing'.target)
       IN  /\ IsFile(tree', p)
           /\ p \notin torn' => crossing'.offset + crossing'.moved <= tree'[p].size
           /\ crossing'.written => crossing'.target \in written']_<<crossing, tree, written>>

=============================================================================
