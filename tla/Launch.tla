------------------------------- MODULE Launch -------------------------------
(***************************************************************************)
(* One run of run_one: the harness is made, the launch drives the build    *)
(* through three phases, the romfs it built is read back through the       *)
(* build's own read path, and the result is taken, which may enter the     *)
(* build once more for the header, and flushes the SD.  The counters of    *)
(* Stats only ever grow, whoever has the build running; what a phase or a  *)
(* fetch is charged is the difference between two looks at them.           *)
(*                                                                         *)
(* running says on whose behalf the build runs, if it runs.  log keeps,    *)
(* for the properties, who made each crossing.                             *)
(***************************************************************************)
EXTENDS Integers, Sequences, FiniteSets, Tally

CONSTANTS
  Call,            \* what a crossing can be: a kind, its bytes, whether crossed
                   \* is told of a range, and note_written of a path
  Pool,            \* the regions touched_by_region reports
  MaxPages,        \* bound on what a region has touched
  MaxTouches,      \* bound on how often that changes in one run
  MaxCrossings     \* bound on the crossings of one run

ASSUME LaunchAssumption ==
  /\ \A c \in Call : /\ c.kind \in {"read", "write", "other"}
                     /\ c.bytes \in Nat
                     /\ c.ranged \in BOOLEAN
                     /\ c.noted \in BOOLEAN
                     /\ c.bytes > 0 => c.ranged /\ c.kind # "other"
  /\ IsFiniteSet(Pool)
  /\ MaxPages \in Nat
  /\ MaxTouches \in Nat
  /\ MaxCrossings \in Nat

VARIABLES
  at,         \* where run_one is
  running,    \* on whose behalf the build is running
  stats,      \* fake_services.Stats
  mark,       \* the counters as the phase or the fetch under way found them
  used,       \* pool -> pages touched, off the guest's memory
  touches,    \* how often that has changed
  phases,     \* Harness.phases
  reached,    \* launch's impl is not empty
  layered,    \* Harness.layered is set
  fetches,    \* read_back's fetches
  reads,      \* how many of read_back's reads are done
  header,     \* Harness._header
  dirty,      \* the build wrote to the SD since it was last flushed
  result,     \* the Result, once taken
  outcome,    \* how the run went
  log         \* history: every crossing with its maker

\* What the build changes as it runs, and what the harness keeps of the run.
buildVars == <<stats, used, touches, dirty, log>>
harnessVars == <<phases, reached, layered, fetches, reads, header>>
vars == <<at, running, mark, buildVars, harnessVars, result, outcome>>

Kind == {"read", "write", "other"}
Phases == <<"configure_heap", "get_layered", "initialize">>
Reads == <<"romfs header", "file table", "directory table", "contents">>
Idle == "nobody"

None == [taken |-> FALSE]

NoCrossing == [total |-> 0, moved |-> 0, written |-> 0, calls |-> [k \in Kind |-> 0], ranges |-> <<>>]

Init ==
  /\ at = "making"
  /\ running = "setup"
  /\ stats = NoCrossing
  /\ mark = NoCrossing
  /\ used = [p \in Pool |-> 0]
  /\ touches = 0
  /\ phases = <<>>
  /\ reached = FALSE
  /\ layered = FALSE
  /\ fetches = <<>>
  /\ reads = 0
  /\ header = "unknown"
  /\ dirty = FALSE
  /\ result = None
  /\ outcome = "none"
  /\ log = <<>>

-----------------------------------------------------------------------------
(* The build, whoever entered it *)

\* fs_call counts the call, and crossed its bytes and where they went.
Counting(s, c) ==
  [total   |-> s.total + 1,
   moved   |-> s.moved + c.bytes,
   written |-> IF c.kind = "write" THEN s.written + c.bytes ELSE s.written,
   calls   |-> [s.calls EXCEPT ![c.kind] = @ + 1],
   ranges  |-> IF c.ranged THEN Append(s.ranges, c) ELSE s.ranges]

Crosses(c) ==
  /\ running # Idle
  /\ Len(log) < MaxCrossings
  /\ stats' = Counting(stats, c)
  /\ log' = Append(log, [by |-> running, call |-> c])
  /\ dirty' = (dirty \/ c.noted)
  /\ UNCHANGED <<at, running, mark, used, touches, result, outcome, harnessVars>>

TouchesMemory(p, pages) ==
  /\ running # Idle
  /\ used[p] # pages
  /\ touches < MaxTouches
  /\ used' = [used EXCEPT ![p] = pages]
  /\ touches' = touches + 1
  /\ UNCHANGED <<at, running, stats, mark, dirty, result, outcome, log,
                 harnessVars>>

\* The hook on BeginInitialize, put in place by launch.
BeginInitialize ==
  /\ at = "launching" /\ running # Idle
  /\ reached' = TRUE
  /\ UNCHANGED <<at, running, mark, phases, layered, fetches, reads,
                 header, result, outcome, buildVars>>

-----------------------------------------------------------------------------
(* Making the harness: its constructor enters the build for the service    *)
(* clients and the SD, in no phase.                                        *)

HarnessIsMade ==
  /\ at = "making"
  /\ at' = "launching"
  /\ running' = Idle
  /\ UNCHANGED <<mark, result, outcome, buildVars, harnessVars>>

-----------------------------------------------------------------------------
(* Harness.phase *)

BeginPhase ==
  /\ at = "launching" /\ running = Idle
  /\ Len(phases) < Len(Phases)
  /\ Len(phases) = 2 => reached
  /\ running' = Phases[Len(phases) + 1]
  /\ mark' = stats
  /\ UNCHANGED <<at, result, outcome, buildVars, harnessVars>>

Read(now, then) == (now.moved - then.moved) - (now.written - then.written)

Touched(regions) == TotalOver(regions, Pool)

\* Mutation: the ranges are not cut at where the phase began.
PhaseWithEveryRange(name, now, then, regions) ==
  [name    |-> name,
   total   |-> now.total - then.total,
   read    |-> Read(now, then),
   written |-> now.written - then.written,
   calls   |-> [k \in Kind |-> now.calls[k] - then.calls[k]],
   regions |-> regions,
   touched |-> Touched(regions),
   ranges  |-> now.ranges]

\* What a phase is charged, by the counters around it.
PhaseRecord(name, now, then, regions) ==
  [name    |-> name,
   total   |-> now.total - then.total,
   read    |-> Read(now, then),
   written |-> now.written - then.written,
   calls   |-> [k \in Kind |-> now.calls[k] - then.calls[k]],
   regions |-> regions,
   touched |-> Touched(regions),
   ranges  |-> SubSeq(now.ranges, Len(then.ranges) + 1, Len(now.ranges))]

\* The last phase over, launch keeps what the build initialized.
EndPhase ==
  /\ at = "launching" /\ running # Idle
  /\ phases' = Append(phases, PhaseRecord(running, stats, mark, used))
  /\ running' = Idle
  /\ IF Len(phases') = Len(Phases)
     THEN at' = "launched" /\ layered' = TRUE
     ELSE UNCHANGED <<at, layered>>
  /\ mark' = NoCrossing
  /\ UNCHANGED <<reached, fetches, reads, header, result, outcome, buildVars>>

-----------------------------------------------------------------------------
(* read_back *)

BeginRead ==
  /\ at = "launched" /\ running = Idle
  /\ running' = Reads[reads + 1]
  /\ mark' = stats
  /\ UNCHANGED <<at, result, outcome, buildVars, harnessVars>>

\* Mutation: what the build wrote while it served the fetch counts as read.
FetchOfAllMoved(name, now, then) ==
  [name |-> name, moved |-> now.moved - then.moved, calls |-> now.total - then.total]

FetchRecord(name, now, then) ==
  [name |-> name, moved |-> Read(now, then), calls |-> now.total - then.total]

EndRead ==
  /\ at = "launched" /\ running # Idle
  /\ fetches' = IF running \in {"file table", "directory table"}
                THEN Append(fetches, FetchRecord(running, stats, mark)) ELSE fetches
  /\ reads' = reads + 1
  /\ running' = Idle
  /\ at' = IF reads' = Len(Reads) THEN "resulting" ELSE at
  /\ outcome' = IF reads' = Len(Reads) THEN "finished" ELSE outcome
  /\ mark' = NoCrossing
  /\ UNCHANGED <<phases, reached, layered, header, result, buildVars>>

\* ROMFS_FAILURES: the answer is that the romfs is corrupt.
RomfsIsCorrupt ==
  /\ at = "launched"
  /\ reads > 0 \/ running # Idle
  /\ at' = "resulting"
  /\ running' = Idle
  /\ outcome' = "corrupt"
  /\ mark' = NoCrossing
  /\ UNCHANGED <<result, buildVars, harnessVars>>

-----------------------------------------------------------------------------
(* Harness.result *)

Peak ==
  LET touched == {0} \cup {phases[i].touched : i \in DOMAIN phases}
  IN  CHOOSE most \in touched : \A t \in touched : t <= most

Totals ==
  [total   |-> Total([i \in DOMAIN phases |-> phases[i].total]),
   read    |-> Total([i \in DOMAIN phases |-> phases[i].read]),
   written |-> Total([i \in DOMAIN phases |-> phases[i].written]),
   calls   |-> [k \in Kind |-> Total([i \in DOMAIN phases |-> phases[i].calls[k]])],
   peak    |-> Peak]

\* Mutation: the regions as they are when the report is written.
MemoryUsedNow == used

\* memory_used: the regions of the first phase that peaked.
MemoryUsed ==
  IF phases = <<>> THEN used
  ELSE LET i == CHOOSE i \in DOMAIN phases :
                  /\ phases[i].touched = Peak
                  /\ \A j \in 1..(i - 1) : phases[j].touched < Peak
       IN  phases[i].regions

\* by_what_for asks for regions where a kind that carries bytes was called,
\* and by_region for the header, which is read the first time only.
AsksForHeader ==
  /\ phases # <<>>
  /\ Totals.calls["read"] + Totals.calls["write"] > 0
  /\ header = "unknown"

ReadsHeader ==
  /\ at = "resulting" /\ running = Idle
  /\ AsksForHeader
  /\ layered
  /\ running' = "produced header"
  /\ UNCHANGED <<at, mark, result, outcome, buildVars, harnessVars>>

\* Read, or one of the failures that mean there is none.
HeaderIsRead ==
  /\ at = "resulting" /\ running # Idle
  /\ running' = Idle
  /\ header' \in {"known", "none"}
  /\ UNCHANGED <<at, mark, phases, reached, layered, fetches, reads,
                 result, outcome, buildVars>>

\* Nothing was initialized, and ProducedRomfs asks for what was.
HeaderOfNothing ==
  /\ at = "resulting" /\ running = Idle
  /\ AsksForHeader
  /\ ~layered
  /\ at' = "over"
  /\ UNCHANGED <<running, mark, result, outcome, buildVars, harnessVars>>

Result ==
  [taken   |-> TRUE,
   totals  |-> Totals,
   pools   |-> MemoryUsed,
   fetched |-> IF Len(fetches) = 2 THEN fetches ELSE <<>>]

\* Mutation: only a launch that finished leaves the SD flushed.
TakeResultUnflushed ==
  /\ at = "resulting" /\ running = Idle
  /\ ~AsksForHeader
  /\ result' = Result
  /\ dirty' = (dirty /\ outcome # "finished")
  /\ at' = "over"
  /\ UNCHANGED <<running, stats, mark, used, touches, outcome, log, harnessVars>>

\* The figures, and write_sd.
TakeResult ==
  /\ at = "resulting" /\ running = Idle
  /\ ~AsksForHeader
  /\ result' = Result
  /\ dirty' = FALSE
  /\ at' = "over"
  /\ UNCHANGED <<running, stats, mark, used, touches, outcome, log, harnessVars>>

-----------------------------------------------------------------------------
(* Failures *)

\* GUEST_FAILURES in the launch: an answer, and a result is taken.
LaunchFails ==
  /\ at = "launching" /\ running # Idle
  /\ at' = "resulting"
  /\ running' = Idle
  /\ outcome' = "failed"
  /\ mark' = NoCrossing
  /\ UNCHANGED <<result, buildVars, harnessVars>>

\* A refusal of a module, in the launch or outside it: a message, no result.
ModuleRefuses ==
  /\ at \in {"making", "launching", "launched"}
  /\ at' = "over"
  /\ running' = Idle
  /\ outcome' = "refused"
  /\ mark' = NoCrossing
  /\ UNCHANGED <<result, buildVars, harnessVars>>

\* A bug, reported with its frames in the launch and unhandled outside it --
\* where a failure of the guest is unhandled too -- or a flush the host's disk
\* refuses.
SomethingRaises ==
  /\ at # "over"
  /\ at' = "over"
  /\ running' = Idle
  /\ outcome' = "raised"
  /\ mark' = NoCrossing
  /\ UNCHANGED <<result, buildVars, harnessVars>>

\* No storage to initialize.
NothingToInitialize ==
  /\ at = "launching" /\ running = Idle
  /\ Len(phases) = 2 /\ ~reached
  /\ at' = "over"
  /\ outcome' = "raised"
  /\ UNCHANGED <<running, mark, result, buildVars, harnessVars>>

-----------------------------------------------------------------------------

Over == at = "over" /\ UNCHANGED vars

Next ==
  \/ \E c \in Call : Crosses(c)
  \/ \E p \in Pool, pages \in 0..MaxPages : TouchesMemory(p, pages)
  \/ BeginInitialize
  \/ HarnessIsMade
  \/ BeginPhase
  \/ EndPhase
  \/ BeginRead
  \/ EndRead
  \/ RomfsIsCorrupt
  \/ ReadsHeader
  \/ HeaderIsRead
  \/ HeaderOfNothing
  \/ TakeResult
  \/ LaunchFails
  \/ ModuleRefuses
  \/ SomethingRaises
  \/ NothingToInitialize
  \/ Over

Spec == Init /\ [][Next]_vars

-----------------------------------------------------------------------------
(* What must hold *)

\* The calls who made, in order.
CallsIn(crossings, who) ==
  LET mine == Kept(crossings, [by : {who}, call : Call])
  IN  [i \in DOMAIN mine |-> mine[i].call]

CallsBy(who) == CallsIn(log, who)

Bytes(calls, kind) ==
  Total([i \in DOMAIN calls |-> IF calls[i].kind = kind THEN calls[i].bytes ELSE 0])

\* What a phase is charged with is these calls.
IsChargedWith(phase, calls) ==
  /\ phase.total = Len(calls)
  /\ phase.read = Bytes(calls, "read")
  /\ phase.written = Bytes(calls, "write")
  /\ \A k \in Kind : phase.calls[k] = Len(Kept(calls, {c \in Call : c.kind = k}))
  /\ phase.ranges = Kept(calls, {c \in Call : c.ranged})

\* A phase is charged every crossing the build made while it ran and no other:
\* none of the constructor's, of a neighbouring phase, of the verifier that
\* reads the romfs back, nor of the read of its header.  And what reading a
\* table back is said to have moved is what that one read of it moved, however
\* the tables before it were served.
EachIsChargedItsOwn ==
  /\ \A i \in DOMAIN phases : IsChargedWith(phases[i], CallsBy(phases[i].name))
  /\ \A i \in DOMAIN fetches :
       LET mine == CallsBy(fetches[i].name)
       IN  fetches[i].moved = Bytes(mine, "read") /\ fetches[i].calls = Len(mine)

\* What a result breaks down adds up: the bytes by region, taken from the ranges
\* the phases kept, to the totals the same report states; and the rows of
\* memory to the total beneath them, though the read-back goes on touching
\* memory after the phase that peaked.
ReportAddsUp ==
  result.taken =>
    LET InRanges(kind) == Total([i \in DOMAIN phases |-> Bytes(phases[i].ranges, kind)])
    IN  /\ InRanges("read") = result.totals.read
        /\ InRanges("write") = result.totals.written
        /\ phases # <<>> => Touched(result.pools) = result.totals.peak

\* A run that gave a result has left on the SD everything the build wrote, in
\* the launch, in the read-back and in the read of the header alike.
ResultIsOnTheSD == result.taken => ~dirty

\* bench.py:82: "A launch that failed fills what it can -- the pools it touched
\* and what reached the SD -- and leaves the rest None."
\* A build that fails its launch gets a result, unless a bug comes between.
FailedLaunchHasAResult == at = "over" /\ outcome = "failed" => result.taken

=============================================================================
