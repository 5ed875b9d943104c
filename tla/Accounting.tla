----------------------------- MODULE Accounting -----------------------------
(***************************************************************************)
(* What a launch cost, charged to what it was spent on.  The phases record *)
(* calls, the ranges their bytes crossed and the files the other calls     *)
(* named; a report then charges each range to the regions it landed in,    *)
(* one range after the other, the reads first and then the writes.         *)
(*                                                                         *)
(* book is what by_region accumulates, one row a name: what landed there,  *)
(* how much of it was ground already covered, and the merged spans that    *)
(* say so.                                                                 *)
(***************************************************************************)
EXTENDS Integers, Sequences, FiniteSetsExt, SequencesExt, Tally

CONSTANTS
  Crossing,      \* the byte-moving calls: the call and the range it records
  HandleCall,    \* calls that name a file: the call and the path
  BareCall,      \* entry points that are counted with no range and no file
  Layout,        \* target -> regions, a sequence of [name, first, last]
  NameOf,        \* target -> the last component of its path
  Elsewhere,     \* ELSEWHERE
  MaxCalls,      \* bound on the calls of a run
  MaxPhases      \* bound on its phases

ByteCalls == {"fsStorageRead", "fsFileRead", "fsFileWrite"}

FSGroups ==
  [reads   |-> {"fsStorageRead", "fsFileRead"},
   writes  |-> {"fsFileWrite"},
   handles |-> {"fsOpenSdCardFileSystem", "fsFsOpenFile", "fsFileClose",
                "fsFsClose", "fsStorageClose"},
   walks   |-> {"fsFsOpenDirectory", "fsDirRead", "fsDirGetEntryCount",
                "fsDirClose"},
   upkeep  |-> {"fsFsCreateFile", "fsFileSetSize", "fsFileFlush",
                "fsFsDeleteFile", "fsFsCreateDirectory", "fsFileGetSize",
                "fsStorageGetSize"}]

Target == DOMAIN Layout
EntryPoint == {c.call : c \in Crossing \cup HandleCall} \cup BareCall
Name == {NameOf[t] : t \in Target} \cup {Elsewhere}
          \cup UNION {{Layout[t][i].name : i \in DOMAIN Layout[t]} : t \in Target}

Crossed == [target : Target, offset : Nat, size : Nat, written : BOOLEAN]
Region == [name : Name, first : Nat, last : Nat]

\* A layout's regions are the parts of one image: none overlaps another.
ASSUME AccountingAssumption ==
  /\ IsFiniteSet(Crossing) /\ IsFiniteSet(HandleCall) /\ IsFiniteSet(BareCall)
  /\ IsFiniteSet(Target)
  /\ \A c \in Crossing : /\ c.call \in ByteCalls
                         /\ c.range \in Crossed
                         /\ c.range.written = (c.call = "fsFileWrite")
  /\ \A c \in HandleCall : c.call \in FSGroups.handles \cup FSGroups.upkeep
  /\ \A t \in Target :
       /\ Layout[t] \in Seq(Region)
       /\ \A i, j \in DOMAIN Layout[t] :
            /\ Layout[t][i].first < Layout[t][i].last
            /\ i < j => Layout[t][i].last <= Layout[t][j].first

VARIABLES
  at,        \* "launching", or the half being charged, or "charged"
  phases,    \* Harness.phases, of each what the accounting reads
  next,      \* how many ranges by_region's loop has looked at
  book       \* name -> the row it has come to, and the spans covered

vars == <<at, phases, next, book>>

Halves == <<"reads", "writes">>

Phase == [fs_calls |-> 0, calls |-> [c \in EntryPoint |-> 0], ranges |-> <<>>, touches |-> <<>>]

NoRow == [calls |-> 0, bytes |-> 0, again |-> 0, smallest |-> 0, largest |-> 0, spans |-> <<>>]

Init ==
  /\ at = "launching"
  /\ phases = <<Phase>>
  /\ next = 0
  /\ book = [n \in Name |-> NoRow]

-----------------------------------------------------------------------------
(* The launch *)

\* A call is counted in the phase it is made in, by fs_call.
Counted(p, call) ==
  [p EXCEPT !.fs_calls = @ + 1, !.calls[call] = @ + 1]

\* Totals.fs_calls
TotalCalls == TotalOver([i \in DOMAIN phases |-> phases[i].fs_calls], DOMAIN phases)

Records(phase) ==
  /\ at = "launching"
  /\ TotalCalls < MaxCalls
  /\ phases' = [phases EXCEPT ![Len(phases)] = phase]
  /\ UNCHANGED <<at, next, book>>

MovesBytes(c) ==
  Records([Counted(Last(phases), c.call) EXCEPT !.ranges = Append(@, c.range)])

NamesAFile(c) ==
  Records([Counted(Last(phases), c.call) EXCEPT !.touches = Append(@, c)])

\* Calls that name nothing, and any call that is refused.
OnlyCrosses(call) == Records(Counted(Last(phases), call))

NextPhase ==
  /\ at = "launching"
  /\ Len(phases) < MaxPhases
  /\ phases' = Append(phases, Phase)
  /\ UNCHANGED <<at, next, book>>

LaunchEnds ==
  /\ at = "launching"
  /\ at' = Halves[1]
  /\ UNCHANGED <<phases, next, book>>

-----------------------------------------------------------------------------
(* The run's own figures, off its phases *)

crossings == FlattenSeq([i \in DOMAIN phases |-> phases[i].ranges])

\* The touches of the phases, each by its phase and its place in it.
handle_calls == UNION {{<<i, j>> : j \in DOMAIN phases[i].touches} : i \in DOMAIN phases}
Touch(t) == phases[t[1]].touches[t[2]]

\* Totals.calls
CallsOf(c) == TotalOver([i \in DOMAIN phases |-> phases[i].calls[c]], DOMAIN phases)

\* A kind's entry points; what no kind names is other.
Members(kind) ==
  IF kind = "other" THEN EntryPoint \ UNION {FSGroups[g] : g \in DOMAIN FSGroups}
                    ELSE FSGroups[kind] \cap EntryPoint

\* Those of them that something called, a kind nothing called being left out.
Called(kind) == {c \in Members(kind) : CallsOf(c) > 0}
Kinds == {kind \in DOMAIN FSGroups \cup {"other"} : Called(kind) # {}}

\* Kind -> its entry points and what each was called.
by_kind == [kind \in Kinds |-> [c \in Called(kind) |-> CallsOf(c)]]

\* Mutation: every call that named a file is put on a line, whatever its kind.
FileLinesOfEveryCall(entries) ==
  LET on(path) == {t \in handle_calls : Touch(t).path = path}
  IN [files |-> [path \in {Touch(t).path : t \in handle_calls} |-> Cardinality(on(path))],
      loose |-> entries]

\* The calls among entries that named a file.
Placed(entries) == {t \in handle_calls : Touch(t).call \in DOMAIN entries}

\* _file_lines: a line a file, and one for what is left of each entry point.
FileLines(entries) ==
  LET on(path) == {t \in Placed(entries) : Touch(t).path = path}
      counted(c) == Cardinality({t \in Placed(entries) : Touch(t).call = c})
  IN [files |-> [path \in {Touch(t).path : t \in Placed(entries)} |-> Cardinality(on(path))],
      loose |-> [c \in {e \in DOMAIN entries : entries[e] > counted(e)}
                   |-> entries[c] - counted(c)]]

-----------------------------------------------------------------------------
(* by_region: its loop, over the ranges of one half *)

\* Mutation: a span is kept beside those it meets, unmerged.
CoverUnmerged(spans, start, end) == Append(spans, <<start, end>>)

Before(a, b) == a[1] < b[1] \/ (a[1] = b[1] /\ a[2] <= b[2])

\* sorted(spans + [span]), of spans that are in order.
SortedWith(spans, span) ==
  InsertAt(spans, 1 + Cardinality({i \in DOMAIN spans : Before(spans[i], span)}), span)

\* A span goes into the last one it meets, or after it.
Joined(merged, span) ==
  IF merged # <<>> /\ span[1] <= merged[Len(merged)][2]
  THEN [merged EXCEPT ![Len(merged)] = <<@[1], Max({@[2], span[2]})>>]
  ELSE Append(merged, span)

\* _cover: the spans with <<start, end>> among them, sorted, those that meet
\* merged into one.
Cover(spans, start, end) ==
  LET sorted == SortedWith(spans, <<start, end>>)
      merged[i \in 0..Len(sorted)] == IF i = 0 THEN <<>> ELSE Joined(merged[i - 1], sorted[i])
  IN  merged[Len(sorted)]

\* How much of start..end was in a span already, and in all of them.
Shared(span, start, end) == Max({0, Min({end, span[2]}) - Max({start, span[1]})})
Overlap(spans, start, end) ==
  TotalOver([i \in DOMAIN spans |-> Shared(spans[i], start, end)], DOMAIN spans)

\* A range is charged to each region it meets, or to its file.
Meets(r, g) == r.offset < g.last /\ r.offset + r.size > g.first

RegionsHit(r) ==
  LET hit == Kept(Layout[r.target], {g \in ToSet(Layout[r.target]) : Meets(r, g)})
  IN IF hit # <<>> THEN hit
     ELSE <<[name |-> NameOf[r.target], first |-> r.offset, last |-> r.offset + r.size]>>

Landing(r, g) == [start |-> Max({r.offset, g.first}),
                  end   |-> Min({r.offset + r.size, g.last})]

WithCall(row, bytes) ==
  [row EXCEPT !.calls = @ + 1,
              !.bytes = @ + bytes,
              !.largest = Max({@, bytes}),
              !.smallest = IF row.calls = 0 THEN bytes ELSE Min({@, bytes})]

WithLanding(row, on) ==
  [WithCall(row, on.end - on.start) EXCEPT
     !.again = @ + Overlap(row.spans, on.start, on.end),
     !.spans = Cover(row.spans, on.start, on.end)]

\* The rows and what they account for of r, after one more region it meets,
LandedOn(before, r, g) ==
  LET on == Landing(r, g)
  IN [book |-> [before.book EXCEPT ![g.name] = WithLanding(@, on)],
      accounted |-> before.accounted + (on.end - on.start)]

\* and after all of them.
Landed(b, r) ==
  LET hits == RegionsHit(r)
      landed[i \in 0..Len(hits)] ==
        IF i = 0 THEN [book |-> b, accounted |-> 0] ELSE LandedOn(landed[i - 1], r, hits[i])
  IN  landed[Len(hits)]

\* Mutation: what no region accounts for is dropped.
ChargedToRegions(b, r) == Landed(b, r).book

\* What the regions did not account for is named ELSEWHERE, and never again.
Charged(b, r) ==
  LET landed == Landed(b, r)
  IN IF landed.accounted < r.size
     THEN [landed.book EXCEPT ![Elsewhere] = WithCall(@, r.size - landed.accounted)]
     ELSE landed.book

Charging == at \in {Halves[1], Halves[2]}

LooksAtRange ==
  /\ Charging
  /\ next < Len(crossings)
  /\ next' = next + 1
  /\ book' = IF crossings[next'].written = (at = "writes")
             THEN Charged(book, crossings[next']) ELSE book
  /\ UNCHANGED <<at, phases>>

HalfIsCharged ==
  /\ Charging
  /\ next = Len(crossings)
  /\ at' = IF at = Halves[1] THEN Halves[2] ELSE "charged"
  /\ next' = 0
  /\ book' = [n \in Name |-> NoRow]
  /\ UNCHANGED phases

Next ==
  \/ \E c \in Crossing : MovesBytes(c)
  \/ \E c \in HandleCall : NamesAFile(c)
  \/ \E call \in EntryPoint : OnlyCrosses(call)
  \/ NextPhase
  \/ LaunchEnds
  \/ LooksAtRange
  \/ HalfIsCharged

Spec == Init /\ [][Next]_vars

-----------------------------------------------------------------------------
(* Properties *)

Row == [calls : Nat, bytes : Nat, again : Nat, smallest : Nat, largest : Nat,
        spans : Seq(Nat \X Nat)]

PhaseRecord == [fs_calls : Nat, calls : [EntryPoint -> Nat], ranges : Seq(Crossed),
                touches : Seq(HandleCall)]

\* The type of each variable.
TypeOK ==
  /\ at \in {"launching", Halves[1], Halves[2], "charged"}
  /\ phases \in Seq(PhaseRecord)
  /\ next \in 0..Len(crossings)
  /\ book \in [Name -> Row]

\* The ranges of the half that have been looked at.
Seen == {k \in 1..next : crossings[k].written = (at = "writes")}

\* No byte goes uncharged and none is charged twice: the rows add up to the
\* bytes of the ranges looked at, wherever in a layout they begin and end.
EveryByteIsCharged ==
  TotalOver([n \in Name |-> book[n].bytes], Name)
    = TotalOver([k \in Seen |-> crossings[k].size], Seen)

\* The bytes a range puts on a name: what region's, or the whole file.
Within(r, g) == (r.offset .. (r.offset + r.size - 1)) \cap (g.first .. (g.last - 1))
OnName(r, n) == UNION {Within(r, g) : g \in {h \in ToSet(RegionsHit(r)) : h.name = n}}

\* The bytes on a name of the ranges looked at, each with the file it is of.
Ground(n) == UNION {{crossings[k].target} \X OnName(crossings[k], n) : k \in Seen}

\* The names of one file and of its regions.
NamesOf(t) == {NameOf[t]} \cup {Layout[t][i].name : i \in DOMAIN Layout[t]}

\* n names one file's bytes only.
NamesOneFile(n) == \A t, u \in Target : n \in NamesOf(t) /\ n \in NamesOf(u) => t = u

\* A row's "again" is what its calls moved past the first time each byte of
\* it was moved, in whatever order and overlap the calls came: the merged
\* spans forget nothing and remember no ground that was not covered.
AgainIsGroundCoveredBefore ==
  \A n \in Name \ {Elsewhere} : NamesOneFile(n) =>
    book[n].bytes - book[n].again = Cardinality(Ground(n))

\* A call is in exactly one kind and counted there as often as it was made:
\* the kinds add up to what crossed, and no call goes missing, named or not.
\* The lines under the handles, the files and the one for what names none,
\* are the same calls as that kind.
EveryCallIsOnOneLine ==
  /\ \A c \in EntryPoint : CallsOf(c) > 0 =>
       Cardinality({kind \in DOMAIN by_kind : c \in DOMAIN by_kind[kind]}) = 1
  /\ TotalOver([kind \in Kinds |-> TotalOver(by_kind[kind], DOMAIN by_kind[kind])], Kinds)
       = TotalCalls
  /\ "handles" \in DOMAIN by_kind =>
       LET entries == by_kind["handles"]
           lines == FileLines(entries)
       IN TotalOver(lines.files, DOMAIN lines.files) + TotalOver(lines.loose, DOMAIN lines.loose)
          = TotalOver(entries, DOMAIN entries)
=============================================================================
