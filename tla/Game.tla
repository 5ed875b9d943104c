-------------------------------- MODULE Game --------------------------------
(***************************************************************************)
(* What a run gives a build: a title installed, with an update over it or  *)
(* not, the game generated at the version that launches, and a mod of it   *)
(* in two deliveries.  Composes MetaDb, which answers for what is          *)
(* installed, with RomfsModel, which says what the game holds: run.py      *)
(* settles what was asked for, Harness.__init__ installs it and then asks  *)
(* the database which version to generate.                                 *)
(***************************************************************************)
EXTENDS MetaDb, RomfsModel

CONSTANTS
  Asked,         \* what command lines ask for: [base, loose, packed, patched]
  UpdateLevel    \* DEFAULT_UPDATE_LEVEL

ASSUME GameAssumption ==
  /\ UpdateStep = VersionStep
  /\ UpdateLevel \in Nat
  /\ LET Carries == [overridden : Nat, added : Nat]
     IN Asked \subseteq [base : (1..AddedFrom) \cap Mark, loose : Carries, packed : Carries,
                        patched : BOOLEAN]

VARIABLE modded   \* FakeModdedGame, with the program it is of

gameVars == <<vars, modded>>

GameInit == Init /\ modded = None

-----------------------------------------------------------------------------
(* run.py: what is a mod, and when an update is dropped *)

Overridden(asked) == asked.loose.overridden + asked.packed.overridden
Carried(asked) == Overridden(asked) + asked.loose.added + asked.packed.added

\* check_mods, and again FakeModdedGame.__init__.
IsAMod(asked) == Overridden(asked) <= asked.base /\ Carried(asked) > 0

\* A mod that overrides every file hides every file an update rewrote.
Patched(asked) == asked.patched /\ Overridden(asked) # asked.base

-----------------------------------------------------------------------------
(* FakeMod: the files one delivery carries, from two places of one sequence *)

Delivery(overridden, added, firstOverride, firstAdded) ==
  [overridden |-> {firstOverride + n : n \in 0..(overridden - 1)},
   added      |-> {firstAdded + n : n \in 0..(added - 1)}]

\* Mutation: both deliveries start at the head of the sequence.
DeliveriesOverlapping(asked) ==
  [loose  |-> Delivery(asked.loose.overridden, asked.loose.added, 0, 0),
   packed |-> Delivery(asked.packed.overridden, asked.packed.added, 0, 0)]

Deliveries(asked) ==
  [loose  |-> Delivery(asked.loose.overridden, asked.loose.added, 0, 0),
   packed |-> Delivery(asked.packed.overridden, asked.packed.added,
                       asked.loose.overridden, asked.loose.added)]

FilesOfDelivery(d) ==
  {[path |-> FilePathOf(i), size |-> ModSize(i)] : i \in d.overridden}
    \cup {[path |-> AddedPath(j), size |-> AddedSize(j)] : j \in d.added}

-----------------------------------------------------------------------------
(* Harness.__init__ *)

Versions(id) == {k.version : k \in {l \in Keys : l.id = id}}

\* The title is installed marked with the base, and the update if one was asked
\* for; the game is generated at the version that launches.  What else is
\* installed is other titles.
Make(id, asked) ==
  /\ Installing /\ modded = None
  /\ IsAMod(asked)
  /\ Versions(id) = {asked.base}
  /\ Versions(id + PatchIdOffset) = IF Patched(asked) THEN {UpdateLevel * UpdateStep} ELSE {}
  /\ modded' = [id |-> id, asked |-> asked, base |-> asked.base,
                version |-> launch_version(id),
                loose |-> Deliveries(asked).loose, packed |-> Deliveries(asked).packed]
  /\ UNCHANGED vars

\* Nothing is installed once the game is made, and nothing answers before.
GameNext ==
  \/ modded = None /\ Install /\ UNCHANGED modded
  \/ \E id \in ProgramId, asked \in Asked : Make(id, asked)
  \/ modded # None /\ Answer /\ UNCHANGED modded

GameSpec == GameInit /\ [][GameNext]_gameVars

-----------------------------------------------------------------------------
(* The trees *)

GameFiles == 0..(modded.base - 1)
AllOverridden == modded.loose.overridden \cup modded.packed.overridden

\* Romfs size of a game's file once the mod is over it.
Produced(i, version) == IF i \in AllOverridden THEN ModSize(i) ELSE Size(i, version)

\* The game as the build is served it has just been made; it never changes.
JustMade == modded # None /\ opened = <<>> /\ told = NothingTold

-----------------------------------------------------------------------------
(* Properties *)

\* A directory a file count puts on the map is one files are in, for every
\* tail directory and for the one a moved directory hangs under, and each
\* tail directory is full before the next is begun (romfs_model.py:443-446,
\* 353-356): what the membership of the tail, its counter, the bands and the
\* stride that moves directories say has to agree.
TailIsLaidInOrder ==
  JustMade =>
    LET files == {i \in GameFiles : InTail(i)}
        nths == {TailNth(i) : i \in files}
        held(nth) == Cardinality({i \in files : TailNth(i) = nth})
        dirs == {DirOf(i) : i \in GameFiles}
    IN /\ \A nth \in nths :
            /\ \A before \in 0..(nth - 1) :
                 before \in nths /\ held(before) = TailSizes[(before % TailDirs) + 1]
            /\ held(nth) <= TailSizes[(nth % TailDirs) + 1]
       /\ \A i \in files : Front(DirOf(i)) # <<>> /\ Last(Front(DirOf(i)))[1] = "leaf" => Front(DirOf(i)) \in dirs

\* The two deliveries carry what was asked for between them and no path twice:
\* what they override the game holds, what they add it does not
\* (fake_romfs.py:77-87, 141-143).
DeliveriesAddUp ==
  JustMade =>
    LET loose == {f.path : f \in FilesOfDelivery(modded.loose)}
        packed == {f.path : f \in FilesOfDelivery(modded.packed)}
        game == {FilePathOf(i) : i \in GameFiles}
    IN /\ Cardinality(loose \cup packed) = Carried(modded.asked)
       /\ Cardinality((loose \cup packed) \cap game) = Overridden(modded.asked)

\* An update the build was told of changes the romfs it produces from the one
\* the shipped game would give, unless the mod hides the head of the tree,
\* which takes two files (romfs_model.py:519-529, run.py:336-341).
UpdateShows ==
  /\ modded # None /\ told.stage = "version" /\ told.id = modded.id
  /\ Release(told.version) > 0
  /\ Overridden(modded.asked) < 2
  => \E i \in GameFiles : Produced(i, modded.version) # Produced(i, modded.base)

=============================================================================
