------------------------------- MODULE MetaDb -------------------------------
(***************************************************************************)
(* What the system reports installed: ncm's database of titles as a run    *)
(* fills it, and the questions a build asks of it.  Every id a console     *)
(* works out is worked out by the builder; the answers come out of the     *)
(* store alone.                                                            *)
(*                                                                         *)
(* A build asks for two things.  Which version to launch: the game's       *)
(* latest key, the id its update goes to, the update's latest key.  And    *)
(* what an application has: a list, a page at a time.                      *)
(***************************************************************************)
EXTENDS Integers, Sequences, FiniteSetsExt, SequencesExt

CONSTANTS
  ProgramId,       \* the ids a run is given
  Level, Mark,     \* the releases, and what rides below one
  DlcIndex,        \* the add-on content numbers
  Storage,         \* the storages a database is opened for
  BuiltInUser,     \* BUILT_IN_USER, the one content is installed to
  FamilySize, PatchIdOffset, AddOnContentIdOffset,
  UpdateStep,
  PageSize,        \* the keys a build has room for in one answer
  None,
  MaxInstalls, MaxOpen   \* bounds

InvalidApplicationId == 0

ASSUME MetaAssumption ==
  /\ ProgramId \subseteq Nat \ {0}   \* InvalidApplicationId is nobody's
  /\ Level \cup Mark \cup DlcIndex \subseteq Nat
  /\ UpdateStep \in Nat /\ FamilySize \in Nat
  /\ PatchIdOffset \in Nat \ {0} /\ AddOnContentIdOffset \in Nat
  /\ PatchIdOffset < AddOnContentIdOffset /\ AddOnContentIdOffset < FamilySize
  /\ \A i \in DlcIndex : i > 0 /\ AddOnContentIdOffset + i < FamilySize
  /\ \A m \in Mark : m < UpdateStep
  /\ BuiltInUser \in Storage
  /\ PageSize \in Nat \ {0}
  /\ None \notin Int

VARIABLES
  entries,   \* _entries, in the order keys were first put in
  opened,    \* _OPENED_FOR: the storage of each handle
  told,      \* what the build was told while it worked out a version
  reading    \* the list it is reading, page by page

vars == <<entries, opened, told, reading>>

NothingTold == [stage |-> "none"]
NoReading == [app |-> None]

Init ==
  /\ entries = <<>>
  /\ opened = <<>>
  /\ told = NothingTold
  /\ reading = NoReading

-----------------------------------------------------------------------------
(* FakeDbBuilder *)

Installing == opened = <<>>

\* Mutation: any id is taken for a game's.
AnyIsGameId(id) == TRUE

IsGameId(id) == id % FamilySize = 0

\* FakeMetaExtendedHeader.from_key: whose a title is, and where its update goes.
HeaderOf(key, application) ==
  CASE key.type = "app" -> [application |-> key.id, patch |-> key.id + PatchIdOffset]
    [] key.type = "patch" -> [application |-> key.id - PatchIdOffset, patch |-> 0]
    [] OTHER -> [application |-> application, patch |-> 0]

\* A key already there keeps its place.
Set(key, header) ==
  LET e == [key |-> key, header |-> header]
      here == {i \in DOMAIN entries : entries[i].key = key}
  IN entries' = IF here = {} THEN Append(entries, e)
                ELSE [i \in DOMAIN entries |-> IF i \in here THEN e ELSE entries[i]]

Put(id, version, type, application) ==
  LET key == [id |-> id, version |-> version, type |-> type, install |-> "full"]
  IN /\ Installing /\ Len(entries) < MaxInstalls
     /\ Set(key, HeaderOf(key, application))
     /\ UNCHANGED <<opened, told, reading>>

AddGame(id, level, mark) ==
  /\ IsGameId(id)
  /\ Put(id, level * UpdateStep + mark, "app", InvalidApplicationId)

AddUpdate(id, level) ==
  /\ IsGameId(id)
  /\ Put(id + PatchIdOffset, level * UpdateStep, "patch", InvalidApplicationId)

AddDlc(application, index, level) ==
  /\ IsGameId(application)
  /\ Put(application + AddOnContentIdOffset + index, level * UpdateStep, "add-on", application)

-----------------------------------------------------------------------------
(* FakeContentMetaDatabase *)

Keys == {entries[i].key : i \in DOMAIN entries}

get_latest(id) ==
  LET here == {k \in Keys : k.id = id /\ k.install = "full"}
  IN IF here = {} THEN None ELSE CHOOSE k \in here : \A other \in here : other.version <= k.version

\* Read back from what installing wrote, of the first entry that fits.
get_patch_id(id, type) ==
  LET fits == {i \in DOMAIN entries : entries[i].key.id = id /\ entries[i].key.type = type}
  IN IF type = "patch" \/ fits = {} THEN None ELSE entries[Min(fits)].header.patch

\* Mutation: the higher of the two is launched, whichever it is of.
LaunchVersionOfTheHigher(id) ==
  LET game == get_latest(id)
      update == get_latest(get_patch_id(id, "app"))
  IN IF game = None THEN None
     ELSE IF update = None \/ update.version < game.version THEN game.version ELSE update.version

launch_version(id) ==
  LET game == get_latest(id)
      patch == get_patch_id(id, "app")
      update == IF patch = None THEN None ELSE get_latest(patch)
  IN IF game = None THEN None ELSE IF update = None THEN game.version ELSE update.version

Admits(e, type, application, from, install) ==
  /\ type \in {"any", e.key.type}
  /\ from <= e.key.id
  /\ install \in {"any", e.key.install}
  /\ \/ application = InvalidApplicationId
     \/ e.header.application \in {InvalidApplicationId, application}

\* Mutation: as the store has them.
ListUnordered(type, application, from, install) ==
  LET admitted == {i \in DOMAIN entries : Admits(entries[i], type, application, from, install)}
      before(i) == {j \in admitted : j < i}
      nth(n) == CHOOSE i \in admitted : Cardinality(before(i)) = n - 1
  IN [n \in 1..Cardinality(admitted) |-> entries[nth(n)].key]

\* By id, and those of one id as the store has them.
list_content_meta(type, application, from, install) ==
  LET admitted == {i \in DOMAIN entries : Admits(entries[i], type, application, from, install)}
      before(i) == {j \in admitted : \/ entries[j].key.id < entries[i].key.id
                                     \/ entries[j].key.id = entries[i].key.id /\ j < i}
      nth(n) == CHOOSE i \in admitted : Cardinality(before(i)) = n - 1
  IN [n \in 1..Cardinality(admitted) |-> entries[nth(n)].key]

-----------------------------------------------------------------------------
(* The ncm hooks *)

Open(storage) ==
  /\ Len(opened) < MaxOpen
  /\ opened' = Append(opened, storage)
  /\ UNCHANGED <<entries, told, reading>>

\* A handle nobody was given, and one opened for another storage, hold nothing.
HoldsContent(db) == db \in DOMAIN opened /\ opened[db] = BuiltInUser

GetLatest(db, id) == IF HoldsContent(db) THEN get_latest(id) ELSE None

AskGame(db, id) ==
  /\ told' = LET key == GetLatest(db, id)
             IN [stage |-> IF key = None THEN "not found" ELSE "game",
                 db |-> db, id |-> id, key |-> key]
  /\ UNCHANGED <<entries, opened, reading>>

\* GetPatchContentMetaId looks at the key and not at what the database was
\* opened for.
AskPatchId ==
  /\ told.stage = "game"
  /\ told' = [stage |-> "patch id", db |-> told.db, id |-> told.id, key |-> told.key,
              patch |-> get_patch_id(told.key.id, told.key.type)]
  /\ UNCHANGED <<entries, opened, reading>>

AskUpdate ==
  /\ told.stage = "patch id"
  /\ told' = LET update == GetLatest(told.db, told.patch)
             IN [stage |-> "version", db |-> told.db, id |-> told.id, key |-> told.key,
                 patch |-> told.patch,
                 version |-> IF update = None THEN told.key.version ELSE update.version]
  /\ UNCHANGED <<entries, opened, reading>>

-----------------------------------------------------------------------------
(* A list, read a page at a time *)

BeginList(db, application) ==
  /\ HoldsContent(db)
  /\ reading' = [app |-> application, db |-> db, from |-> 0, seen |-> {}, more |-> TRUE]
  /\ UNCHANGED <<entries, opened, told>>

\* The total against what was written says whether to ask again, which is from
\* past the last id seen.
ReadPage ==
  /\ reading # NoReading /\ reading.more
  /\ LET keys == list_content_meta("any", reading.app, reading.from, "full")
         page == SubSeq(keys, 1, Min({Len(keys), PageSize}))
     IN reading' = [reading EXCEPT
          !.seen = @ \cup ToSet(page),
          !.more = Len(page) < Len(keys),
          !.from = IF page = <<>> THEN @ ELSE Last(page).id + 1]
  /\ UNCHANGED <<entries, opened, told>>

Install ==
  \/ \E id \in ProgramId, level \in Level, mark \in Mark : AddGame(id, level, mark)
  \/ \E id \in ProgramId, level \in Level : AddUpdate(id, level)
  \/ \E id \in ProgramId, index \in DlcIndex, level \in Level : AddDlc(id, index, level)

Answer ==
  \/ \E storage \in Storage : Open(storage)
  \/ \E db \in 1..MaxOpen, id \in ProgramId : AskGame(db, id)
  \/ AskPatchId
  \/ AskUpdate
  \/ \E db \in DOMAIN opened, application \in ProgramId : BeginList(db, application)
  \/ ReadPage

Next == Install \/ Answer

Spec == Init /\ [][Next]_vars

-----------------------------------------------------------------------------
(* Properties *)

\* The version a build works out, of three questions, is the one the run
\* reports and labels its figures with (bench.py:447-450, 597-603).
ToldIsReported ==
  told.stage = "version" => told.version = launch_version(told.id)

\* A list of an application read to its end has met every id installed in that
\* game's family and none of another's, though ids of several versions are cut
\* by pages: fake_meta.py:226.
PagesReachTheFamily ==
  reading # NoReading /\ ~reading.more /\ reading.app % FamilySize = 0 =>
    {k.id : k \in reading.seen} =
      {k.id : k \in {l \in Keys : l.id \in reading.app .. (reading.app + FamilySize - 1)}}
=============================================================================
