------------------------------ MODULE SdMirror ------------------------------
(***************************************************************************)
(* The SD across runs.  A process reads the mirror into memory (FakeSD's   *)
(* constructor), calls the build for the first times (the rest of          *)
(* Harness's constructor), puts the mod on the SD and calls the build      *)
(* again (Harness.launch), and at the end of the run writes back what the  *)
(* build wrote (Harness.result, write_sd, flush), one file after another.  *)
(* It may also end before that: run_one reports a module failure or a bug  *)
(* without asking for a result, what the constructor raises is not caught  *)
(* at all, and a process can be killed anywhere, with a file open for      *)
(* writing.                                                                *)
(***************************************************************************)
EXTENDS SdTree

CONSTANTS
  InitialMirror,   \* what the directory may hold before the first run
  MaxCalls         \* bound on the calls of one run that change the SD

ASSUME MirrorAssumption ==
  /\ MaxCalls \in Nat
  /\ \A m \in InitialMirror : m \in [Path -> Node] /\ RootedTree(m)

VARIABLES
  stage,      \* where the process is
  calls,      \* how many calls of this run have changed the SD
  attached,   \* whether it was given a directory: FakeSD._mirror
  mirror,     \* that directory, on the host's disk
  pending,    \* what flush has not come to yet
  opened,     \* the file flush has open, if any, as it was spelled
  before      \* history: the mirror as the run found it, once emptied

mirrorVars == <<stage, calls, attached, mirror, pending, opened, before>>
vars == <<sdVars, mirrorVars>>

NoFile == <<>>

Stage == {"off", "loaded", "launched", "running", "flushing", "done"}

Init ==
  /\ mirror \in InitialMirror
  /\ before = mirror
  /\ stage = "off"
  /\ calls = 0
  /\ attached = FALSE
  /\ tree = Empty
  /\ written = {}
  /\ placed = {}
  /\ torn = {}
  /\ pending = {}
  /\ opened = NoFile

-----------------------------------------------------------------------------
(* FakeSD.__init__ *)

\* What is left of the directory before it is read.
AsFound(m, fresh) == IF fresh THEN EmptyButSettings(m) ELSE m

StartOn(found, isAttached, sd) ==
  /\ stage \in {"off", "done"}
  /\ attached' = isAttached
  /\ mirror' = found
  /\ before' = found
  /\ tree' = sd
  /\ written' = {}
  /\ placed' = {}
  /\ torn' = {}
  /\ stage' = "loaded"
  /\ calls' = 0
  /\ UNCHANGED <<pending, opened>>

StartInMemory == StartOn(mirror, FALSE, Empty)

StartWithMirror(fresh) ==
  LET found == AsFound(mirror, fresh)
  IN  \E kept \in Loads(found) : StartOn(found, TRUE, LoadedOf(found, kept))

\* put_file raises: a host file is taken as lying below another.
StartRaises(fresh) ==
  /\ stage \in {"off", "done"}
  /\ Clash(AsFound(mirror, fresh))
  /\ mirror' = AsFound(mirror, fresh)
  /\ before' = mirror'
  /\ stage' = "off"
  /\ UNCHANGED <<sdVars, calls, attached, pending, opened>>

-----------------------------------------------------------------------------
(* The constructor's calls, and the launch *)

Launch ==
  /\ stage = "loaded"
  /\ stage' = "launched"
  /\ UNCHANGED <<sdVars, calls, attached, mirror, pending, opened, before>>

LaunchPutsMod(p, size) ==
  /\ stage = "launched"
  /\ PutMod(p, size)
  /\ UNCHANGED mirrorVars

\* A call that is cut short while the constructor makes it ends the process.
BuildRuns ==
  /\ stage \in {"loaded", "launched", "running"}
  /\ calls < MaxCalls
  /\ TargetStep \/ (stage # "loaded" /\ CutStep)
  /\ stage' = IF stage = "loaded" THEN stage ELSE "running"
  /\ calls' = calls + 1
  /\ UNCHANGED <<attached, mirror, pending, opened, before>>

-----------------------------------------------------------------------------
(* flush *)

\* Harness.result, through write_sd: an SD held only in memory, or one nothing
\* was written to, is left as it is.
TakeResult ==
  LET files == WrittenFiles(tree, written)
  IN  /\ stage \in {"launched", "running"}
      /\ IF attached /\ files # {}
         THEN stage' = "flushing" /\ pending' = files
         ELSE stage' = "done" /\ UNCHANGED pending
      /\ UNCHANGED <<sdVars, calls, attached, mirror, opened, before>>

\* Mutation: the files are taken in the other order.
IsNextReversed(s) == s \in pending /\ \A r \in pending : Rank[s] >= Rank[r]

\* sorted(): the next file is the least of those left.
IsNext(s) == s \in pending /\ \A r \in pending : Rank[s] <= Rank[r]

\* Mutation: a flush that writes a mod out with the rest.
StaysBehindOutsideOnly(s) == Lands(s) = Outside

\* A mod stays behind, as it is spelled, and so does what would land outside
\* the mirror.
StaysBehind(s) == IsModInput(s) \/ Lands(s) = Outside

\* Mutation: a file that stays behind is looked at again.
FlushSkipsAgain(s) ==
  /\ stage = "flushing" /\ opened = NoFile /\ IsNext(s)
  /\ StaysBehind(s)
  /\ UNCHANGED vars

FlushSkips(s) ==
  /\ stage = "flushing" /\ opened = NoFile /\ IsNext(s)
  /\ StaysBehind(s)
  /\ pending' = pending \ {s}
  /\ stage' = IF pending' = {} THEN "done" ELSE stage
  /\ UNCHANGED <<sdVars, calls, attached, mirror, opened, before>>

\* makedirs finds no file on the way, and open finds no directory: neither one
\* that is there nor the mirror itself.
CanOpen(h) == h # Root /\ CanPlace(mirror, h) /\ ~IsDir(mirror, h)

\* makedirs, and open(dest, "wb"), which truncates what was there.
FlushOpens(s) ==
  /\ stage = "flushing" /\ opened = NoFile /\ IsNext(s)
  /\ ~StaysBehind(s)
  /\ CanOpen(Lands(s))
  /\ mirror' = Place(mirror, Lands(s), Whole(<<>>))
  /\ opened' = s
  /\ UNCHANGED <<sdVars, stage, calls, attached, pending, before>>

\* Mutation: the bytes of every file go out together, once all are open.
FlushWritesLate(s) ==
  /\ stage = "flushing" /\ opened = s
  /\ opened' = NoFile
  /\ pending' = pending \ {s}
  /\ mirror' = IF pending' # {} THEN mirror
               ELSE [h \in Path |->
                       LET from == {r \in WrittenFiles(tree, written) : Lands(r) = h}
                       IN  IF from # {} /\ IsFile(mirror, h)
                           THEN Whole(tree[Split(CHOOSE r \in from : TRUE)].data)
                           ELSE mirror[h]]
  /\ stage' = IF pending' = {} THEN "done" ELSE stage
  /\ UNCHANGED <<sdVars, calls, attached, before>>

\* The bytes the node holds, and the file is closed.
FlushWrites(s) ==
  /\ stage = "flushing" /\ opened = s
  /\ mirror' = [mirror EXCEPT ![Lands(s)] = Whole(tree[Split(s)].data)]
  /\ opened' = NoFile
  /\ pending' = pending \ {s}
  /\ stage' = IF pending' = {} THEN "done" ELSE stage
  /\ UNCHANGED <<sdVars, calls, attached, before>>

\* What the mirror holds has another shape: makedirs or open raises, and the
\* files that were to come are not written.
FlushRaises(s) ==
  /\ stage = "flushing" /\ opened = NoFile /\ IsNext(s)
  /\ ~StaysBehind(s)
  /\ ~CanOpen(Lands(s))
  /\ stage' = "off"
  /\ pending' = {}
  /\ UNCHANGED <<sdVars, calls, attached, mirror, opened, before>>

Flush == \E s \in Spelling : FlushSkips(s) \/ FlushOpens(s) \/ FlushWrites(s) \/ FlushRaises(s)

-----------------------------------------------------------------------------
(* The ends of a run that reach no flush, or no end of one *)

\* A module failure or a bug (run_one), which asks for no result, whatever the
\* constructor raises, or a kill.
EndsUnflushed ==
  /\ stage \in {"loaded", "launched", "running", "flushing"}
  /\ opened = NoFile
  /\ stage' = "off"
  /\ pending' = {}
  /\ UNCHANGED <<sdVars, calls, attached, mirror, opened, before>>

\* A kill with a file open: any first part of its bytes may have reached it.
KilledWhileWriting ==
  /\ stage = "flushing" /\ opened # NoFile
  /\ LET data == tree[Split(opened)].data
     IN  \E n \in 0..Len(data) :
           mirror' = [mirror EXCEPT ![Lands(opened)] = Whole(SubSeq(data, 1, n))]
  /\ stage' = "off"
  /\ pending' = {}
  /\ opened' = NoFile
  /\ UNCHANGED <<sdVars, calls, attached, before>>

-----------------------------------------------------------------------------

Next ==
  \/ StartInMemory
  \/ \E fresh \in BOOLEAN : StartWithMirror(fresh) \/ StartRaises(fresh)
  \/ Launch
  \/ \E p \in ModPath, size \in Size : LaunchPutsMod(p, size)
  \/ BuildRuns
  \/ TakeResult
  \/ Flush
  \/ EndsUnflushed
  \/ KilledWhileWriting

\* Only a flush under way is sure to go on: nothing waits for a run to start,
\* and a build may call for ever.
Spec == Init /\ [][Next]_vars /\ WF_vars(Flush)

-----------------------------------------------------------------------------
(* What must hold *)

TypeOK ==
  /\ tree \in [Path -> Node]
  /\ written \subseteq Spelling
  /\ placed \subseteq Path
  /\ torn \subseteq Path
  /\ stage \in Stage
  /\ calls \in 0..MaxCalls
  /\ attached \in BOOLEAN
  /\ mirror \in [Path -> Node]
  /\ pending \subseteq Spelling
  /\ opened \in Spelling \cup {NoFile}
  /\ before \in [Path -> Node]

\* No sequence of runs leaves a node, in memory or on the host's disk, below
\* a file or below nothing: creations, deletions, replacements of a directory
\* by a file, fresh SDs, flushes cut short.
Rooted == RootedTree(tree) /\ RootedTree(mirror)

\* What flush writes of a file is all of it.  It takes the bytes a node holds,
\* which for a mod file are fewer than its size, so this needs every call
\* that notes a path as written to leave its node holding all of it, and every
\* later one to keep it so; only what the constructor's calls made where the
\* launch then put a mod is not what flush will find there.  A write cut short
\* leaves room for bytes that never came, and nothing less.
WrittenWhole ==
  \A s \in WrittenFiles(tree, written) :
    LET node == tree[Split(s)]
    IN  Split(s) \notin placed => /\ node.size <= Len(node.data)
                                  /\ Split(s) \notin torn => node.size = Len(node.data)

\* A mod on the SD is the one this run was given, or one the build made
\* itself: never an older run's, nor one left in the directory.
NoStaleMod ==
  \A p \in Path : IsFile(tree, p) /\ IsModInput(p) => p \in placed \cup {Split(s) : s \in written}

\* ams keeps its settings: whatever runs start, fresh or not, and however
\* they end, a settings file changes only as a flush writes what the build
\* wrote to it.
SettingsSurvive ==
  [][IsFile(mirror, SettingsIni) /\ mirror'[SettingsIni] # mirror[SettingsIni]
       => stage = "flushing" /\ \E s \in written : Lands(s) = SettingsIni]_vars

\* Nothing else on the mirror is taken as the same path, or as one above or
\* below it.
Unrivalled(h) ==
  \A g \in TakenFiles(mirror) : Covers(g, h) \/ Covers(h, g) => g = h

\* Of the files that land where s does, the one that is written last.
LastToLand(s) ==
  \A r \in WrittenFiles(tree, written) :
    ~StaysBehind(r) /\ Lands(r) = Lands(s) => Rank[r] <= Rank[s]

\* A flush that ran to its end left on the mirror, for the next run to find,
\* every file the build wrote and still had: where it lands, as far as no
\* other file lands or is taken there, and as it was, unless its bytes are a
\* mod's or never came.  A spelling without backslashes and dots, with its
\* program id in lower case, is taken as what it was.
FlushedIsFound ==
  stage = "done" /\ attached =>
    \A s \in WrittenFiles(tree, written) :
      LET h == Lands(s)
      IN  /\ ~StaysBehind(s) /\ LastToLand(s)
          /\ Split(s) \notin placed \cup torn
          /\ ~IsModInput(Guest(h)) /\ Unrivalled(h)
          => \A kept \in Loads(mirror) : LoadedOf(mirror, kept)[Guest(h)] = tree[Split(s)]

\* Between two starts the mirror's files change only where this run wrote
\* something it did not spell as a mod; an SD held in memory changes nothing.
MirrorChangesOnlyByFlush ==
  \A h \in Path :
    IsFile(mirror, h) /\ mirror[h] # before[h] =>
      attached /\ \E s \in written : Lands(s) = h /\ ~IsModInput(s)

\* However a run ends, at most one file on the mirror is neither what the run
\* found there nor what the SD held.
AtMostOneTorn ==
  LET Torn(h) == /\ IsFile(mirror, h)
                 /\ mirror[h] # before[h]
                 /\ \A s \in WrittenFiles(tree, written) :
                      Lands(s) = h => mirror[h].data # tree[Split(s)].data
  IN  \A g, h \in Path : Torn(g) /\ Torn(h) => g = h

\* A flush that has begun is over at some time, with the process gone or done.
FlushEnds == stage = "flushing" ~> stage # "flushing"

\* fake_sd.py:251: "Deleted files never appear, which is what the SD would look
\* like afterwards."
DeletedFilesNeverAppear ==
  stage = "done" /\ attached =>
    \A kept \in Loads(mirror), p \in Path :
      IsFile(LoadedOf(mirror, kept), p) => IsFile(tree, p)

=============================================================================
