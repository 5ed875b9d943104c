------------------------------- MODULE Guest -------------------------------
(***************************************************************************)
(* The emulated build.  A call runs until the build returns, or until      *)
(* something stops it: a hook that raised, an abort, a system call nobody  *)
(* provides, a fault.  Each is noticed in a callback the emulator makes,   *)
(* and has to come out of call() as what it was.                           *)
(*                                                                         *)
(* Around the calls: the heap table is found and written before any is     *)
(* made, hooks read the strings they are handed, and the produced romfs is *)
(* read through the build, which reads the game's through a hook.          *)
(*                                                                         *)
(* The emulator is external: what it calls back for, that a stop takes     *)
(* effect before the build does anything else, that what a callback raises *)
(* past the hooks stops it too and is raised by emu_start, and that it     *)
(* raises UcError for an access it cannot make whatever else was raised.   *)
(*                                                                         *)
(* wrong is history: the first thing that went wrong in the last call.     *)
(***************************************************************************)
EXTENDS GuestMemory

CONSTANTS
  Layout,       \* [code, magic]: code sections [addr, size], and the magic address
  Page,         \* PAGE
  HeapSize,     \* how much the bump heap holds
  Program,      \* the program id, as it is packed
  Probe,        \* _TABLE_PROBE_ID, as it is packed
  Grant,        \* [app, sys] a caller asks for
  Image,        \* images a build can be loaded as
  Word,         \* bytes of a word, which states its own offset
  HeaderSize, TablesAt, ImageSize,  \* the game's romfs: header, partition, tables
  ReadAsked,    \* [offset, size] the produced romfs is read at
  ReadChunk,    \* ProducedRomfs.read's chunk
  MaxAsks,      \* how often a row is asked for, before the first call
  MaxCalls,     \* bound on the calls
  None

\* A row of the heap table: an id and two numbers, one byte each here.
RowSize == Len(Program) + 2

\* An id found is a row's: it has room, and it is no end of itself, so that
\* one id put over another is not found to begin before it.
ASSUME TableAssumption ==
  /\ {Program, Probe} \subseteq Needle /\ Len(Program) = Len(Probe)
  /\ Program # Probe
  /\ Image \subseteq [Addr -> Byte]
  /\ Grant \subseteq [app : Byte, sys : Byte]
  /\ \A k \in 1..(Len(Program) - 1) :
       \E j \in 1..k : Program[j] # Program[Len(Program) - k + j]
ASSUME ReadAssumption ==
  /\ Word \in Nat \ {0} /\ ReadChunk \in Nat \ {0} /\ HeapSize \in Nat
  /\ {HeaderSize, TablesAt, ImageSize} \subseteq Nat
  /\ 0 < HeaderSize /\ HeaderSize <= TablesAt /\ TablesAt < ImageSize
  /\ \A r \in ReadAsked : r.offset \in Nat /\ r.size \in Nat /\ r.offset + r.size <= ImageSize

Wrongs == {"GuestAbort", "hook's own", "watch's own", "RuntimeError", "UcError"}

ASSUME NoneAssumption ==
  /\ None \notin Wrongs \cup {"answered", "MemoryError"}
  /\ None \notin [app : Byte, sys : Byte]

VARIABLES
  layout,   \* where the code is and where the magic address fell
  at,       \* who runs: "outside", "guest", "hook", or "stopped"
  fault,    \* the emulator could not make an access
  raised,   \* what emu_start will raise of what a callback did
  pending,  \* Guest._pending_exc
  outcome,  \* what the last call came to
  wrong,
  calls,    \* how many were made
  cursor,   \* Guest._heap_cursor, from the heap's base
  grant,    \* grant_dynamic_heap: what it was asked, and its answers
  reading   \* ProducedRomfs.read

callVars == <<layout, at, fault, raised, pending, outcome, wrong, calls>>
vars == <<memoryVars, callVars, cursor, grant, reading>>

Answered == "answered"
NoRead == [state |-> "idle", offset |-> 0, size |-> 0, out |-> <<>>, n |-> 0,
           filled |-> 0, buf |-> <<>>]
NoGrant == [asked |-> None, answers |-> <<>>]

Init ==
  /\ image \in Image
  /\ \A a \in Addr : IsAt(Program, a) \/ IsAt(Probe, a) => IsMapped(a, RowSize)
  /\ scan = NoScan /\ name = NoName
  /\ layout \in Layout
  /\ at = "outside" /\ fault = FALSE /\ raised = None /\ pending = None
  /\ outcome = Answered /\ wrong = None
  /\ calls = 0 /\ cursor = 0
  /\ grant = NoGrant /\ reading = NoRead

-----------------------------------------------------------------------------
(* What of the image can be written *)

Up(a) == ((a + Page - 1) \div Page) * Page
Down(a) == (a \div Page) * Page

\* Whole pages of a code section are mapped without write permission.
Protected == UNION {Up(c.addr)..(Down(c.addr + c.size) - 1) : c \in layout.code}

\* Mutation: the whole of a code section is taken for protected.
WatchedOutsideCode ==
  layout.magic \in Addr
  /\ layout.magic \notin UNION {c.addr..(c.addr + c.size - 1) : c \in layout.code}

\* Stores to the magic address are watched where they would not fault.
Watched == layout.magic \in Addr /\ layout.magic \notin Protected

-----------------------------------------------------------------------------
(* A row in the module's heap table *)

\* Mutation: the row is looked for by the probe alone.
BeginWithTheProbe(asked) ==
  /\ grant' = [grant EXCEPT !.asked = asked]
  /\ BeginFind(Probe)

BeginGrant(asked) ==
  /\ grant' = [grant EXCEPT !.asked = asked]
  /\ BeginFind(Program)

\* One thread: nothing is begun inside a call or a search.
Between == at = "outside" /\ scan.state = "idle"

AskGrant ==
  /\ Between /\ calls = 0 /\ Len(grant.answers) < MaxAsks
  /\ \E asked \in Grant : BeginGrant(asked)
  /\ UNCHANGED <<image, name, callVars, cursor, reading>>

AnswerGrant(answer) ==
  /\ grant' = [asked |-> None, answers |-> Append(grant.answers, answer)]
  /\ scan' = NoScan

\* The program's own row: what it says is the answer.
OwnRow ==
  /\ scan.state = "found" /\ scan.needle = Program
  /\ AnswerGrant([app |-> image[scan.at + Len(Program)],
                  sys |-> image[scan.at + Len(Program) + 1]])
  /\ UNCHANGED <<image, name, callVars, cursor, reading>>

\* None: the stock table's row, which is looked for next.
NoOwnRow ==
  /\ scan.state = "absent" /\ scan.needle = Program
  /\ BeginFind(Probe)
  /\ UNCHANGED <<image, name, callVars, cursor, grant, reading>>

StockRow ==
  /\ scan.state = "found" /\ scan.needle = Probe
  /\ image' = [a \in Addr |->
       IF a \in scan.at..(scan.at + Len(Program) - 1) THEN Program[a - scan.at + 1]
       ELSE IF a = scan.at + Len(Program) THEN grant.asked.app
       ELSE IF a = scan.at + Len(Program) + 1 THEN grant.asked.sys
       ELSE image[a]]
  /\ AnswerGrant(grant.asked)
  /\ UNCHANGED <<name, callVars, cursor, reading>>

NoTable ==
  /\ scan.state = "absent" /\ scan.needle = Probe
  /\ AnswerGrant(None)
  /\ UNCHANGED <<image, name, callVars, cursor, reading>>

-----------------------------------------------------------------------------
(* Calls *)

\* call, up to the emulator's start.
Enter ==
  /\ at' = "guest" /\ calls' = calls + 1
  /\ fault' = FALSE /\ raised' = None /\ wrong' = None
  /\ pending' = None
  /\ UNCHANGED <<layout, outcome>>

MayCall == Between /\ calls < MaxCalls /\ Len(grant.answers) = MaxAsks

\* A phase's call.
Call ==
  /\ MayCall /\ reading.state = "idle"
  /\ Enter
  /\ UNCHANGED <<memoryVars, cursor, grant, reading>>

\* A callback goes wrong: e is what went wrong, and how it is kept is h's.
GoesWrong(e) ==
  /\ wrong' = e /\ at' = "stopped"
  /\ UNCHANGED <<layout, calls, outcome>>

\* Guest.fail, and what a hook's trampoline catches.
Fail(e) == pending' = e /\ GoesWrong(e) /\ UNCHANGED <<fault, raised>>

\* A callback the trampoline is not around: the binding keeps what it raised.
Raise(e) == raised' = e /\ GoesWrong(e) /\ UNCHANGED <<fault, pending>>

\* The build reaches a hooked function, whose hook reads a string first.
EnterHook ==
  /\ at = "guest" /\ reading.state # "calling"
  /\ at' = "hook"
  /\ \E addr \in Lo..Hi : BeginName(addr)
  /\ UNCHANGED <<image, scan, layout, fault, raised, pending, outcome, wrong, calls,
                 cursor, grant, reading>>

\* ret, or for a hook that only looks, the body after it.
HookAnswers ==
  /\ at = "hook" /\ name.state = "read"
  /\ at' = "guest" /\ name' = NoName
  /\ UNCHANGED <<image, scan, layout, fault, raised, pending, outcome, wrong, calls,
                 cursor, grant, reading>>

\* A hook on one of the abort symbols raises; any other may fail itself.
HookRaises ==
  /\ at = "hook" /\ name.state = "read"
  /\ \E e \in {"GuestAbort", "hook's own"} : Fail(e)
  /\ name' = NoName
  /\ UNCHANGED <<image, scan, cursor, grant, reading>>

\* What looks on at an address raises.
WatchRaises ==
  /\ at = "guest" /\ Raise("watch's own")
  /\ UNCHANGED <<memoryVars, cursor, grant, reading>>

\* An access that cannot be made: an abort's, which stores the magic value to
\* the magic address, is recognised, and the emulator raises either way.
Fault(addr, isMagic) ==
  /\ IF isMagic /\ addr = layout.magic
     THEN wrong' = "GuestAbort" /\ pending' = "GuestAbort"
     ELSE wrong' = "UcError" /\ UNCHANGED pending
  /\ at' = "stopped" /\ fault' = TRUE
  /\ UNCHANGED <<layout, raised, outcome, calls>>

\* A store that can be made is seen only where it is watched.
StoreWritten(addr, isMagic) ==
  IF ~(isMagic /\ addr = layout.magic) THEN UNCHANGED callVars
  ELSE IF Watched THEN Fail("GuestAbort")
  ELSE wrong' = "GuestAbort" /\ UNCHANGED <<layout, at, fault, raised, pending, outcome, calls>>

\* The magic address, a byte of code and one that is mapped nowhere.
StoredAt == {layout.magic, Hi + 1} \cup {c.addr : c \in layout.code}

Store ==
  /\ at = "guest"
  /\ \E addr \in StoredAt, isMagic \in BOOLEAN :
       IF addr \in Addr \ Protected THEN StoreWritten(addr, isMagic)
       ELSE Fault(addr, isMagic)
  /\ UNCHANGED <<memoryVars, cursor, grant, reading>>

\* svcBreak stops the run and raises.
Break ==
  /\ at = "guest" /\ Raise("GuestAbort")
  /\ UNCHANGED <<memoryVars, cursor, grant, reading>>

\* A system call nothing provides, and a CPU exception that is none.
UnknownInterrupt ==
  /\ at = "guest" /\ Raise("RuntimeError")
  /\ UNCHANGED <<memoryVars, cursor, grant, reading>>

\* What call raises, or that it answers.
CameTo ==
  IF fault /\ pending = None THEN "UcError"
  ELSE IF ~fault /\ raised # None THEN raised
  ELSE IF pending # None THEN pending ELSE Answered

\* A read that goes wrong is not gone on with.
AfterCall ==
  reading' = IF reading.state # "calling" THEN reading
             ELSE IF CameTo # Answered THEN NoRead
             ELSE [reading EXCEPT !.state = "fetched"]

\* The emulator is left: stopped, or by the build returning to the sentinel.
Leave ==
  /\ \/ at = "stopped"
     \/ at = "guest" /\ (reading.state = "calling" => reading.filled = reading.n)
  /\ at' = "outside" /\ outcome' = CameTo
  /\ AfterCall
  /\ UNCHANGED <<memoryVars, layout, fault, raised, pending, wrong, calls, cursor, grant>>

-----------------------------------------------------------------------------
(* Reading the produced romfs through the build *)

\* content_at, from whole words and cut to what was asked.
Content(offset, size) ==
  LET first == offset - (offset % Word)
      words == (offset + size - first + Word - 1) \div Word
      raw == [i \in 1..(Word * words) |->
                <<"word", first + Word * ((i - 1) \div Word), (i - 1) % Word>>]
  IN SubSeq(raw, offset - first + 1, offset - first + size)

Own(part, from, n) == [i \in 1..n |-> <<part, from + i - 1>>]

\* One turn of PackedFakeRomfs.read's loop.
Piece(offset, size) ==
  IF offset < HeaderSize THEN Own("header", offset, Smaller(size, HeaderSize - offset))
  ELSE IF offset >= TablesAt
  THEN Own("tables", offset - TablesAt, Smaller(size, ImageSize - offset))
  ELSE Content(offset, Smaller(size, TablesAt - offset))

\* And the loop: at most three pieces, as each ends where a part does.
ImageRead(offset, size) ==
  LET one == Piece(offset, size)
      two == IF Len(one) < size /\ offset + Len(one) < ImageSize
             THEN one \o Piece(offset + Len(one), size - Len(one)) ELSE one
  IN IF Len(two) < size /\ offset + Len(two) < ImageSize
     THEN two \o Piece(offset + Len(two), size - Len(two)) ELSE two

\* The buffer, out of the bump heap, at a multiple of 16.
Align16(a) == ((a + 15) \div 16) * 16

BeginRead ==
  /\ MayCall /\ reading.state = "idle"
  /\ \E r \in ReadAsked :
       LET want == Smaller(r.size, ReadChunk)
       IN IF r.size = 0 THEN reading' = [NoRead EXCEPT !.state = "read"] /\ UNCHANGED <<cursor, outcome>>
          ELSE IF Align16(cursor) + want > HeapSize
          THEN outcome' = "MemoryError" /\ UNCHANGED <<cursor, reading>>
          ELSE /\ cursor' = Align16(cursor) + want
               /\ reading' = [NoRead EXCEPT !.state = "fetched", !.offset = r.offset,
                                !.size = r.size, !.buf = [i \in 1..want |-> None]]
               /\ UNCHANGED outcome
  /\ UNCHANGED <<memoryVars, layout, at, fault, raised, pending, wrong, calls, grant>>

\* Mutation: the whole buffer is taken, the last time too.
TakenWhole == reading.out \o reading.buf

\* What a call fetched is added to what was.
Taken == reading.out \o SubSeq(reading.buf, 1, reading.n)

\* Round the loop: another chunk is asked of the build, or the read is done.
ReadOn ==
  /\ reading.state = "fetched" /\ Between
  /\ IF Len(Taken) < reading.size
     THEN /\ calls < MaxCalls /\ Enter
          /\ reading' = [reading EXCEPT !.state = "calling", !.out = Taken, !.filled = 0,
                           !.n = Smaller(ReadChunk, reading.size - Len(Taken))]
     ELSE /\ reading' = [reading EXCEPT !.state = "read", !.out = Taken]
          /\ UNCHANGED callVars
  /\ UNCHANGED <<memoryVars, cursor, grant>>

\* fsStorageRead: the build fetches what it needs of the game, in whatever
\* pieces it likes.
StorageRead ==
  /\ at = "guest" /\ reading.state = "calling"
  /\ \E size \in 1..(reading.n - reading.filled) :
       LET offset == reading.offset + Len(reading.out) + reading.filled
           chunk == ImageRead(offset, size)
       IN reading' = [reading EXCEPT
            !.buf = [i \in DOMAIN @ |->
                       IF i - reading.filled \in DOMAIN chunk THEN chunk[i - reading.filled] ELSE @[i]],
            !.filled = @ + size]
  /\ UNCHANGED <<memoryVars, callVars, cursor, grant>>

ReadTaken ==
  /\ reading.state = "read"
  /\ reading' = NoRead
  /\ UNCHANGED <<memoryVars, callVars, cursor, grant>>

-----------------------------------------------------------------------------

Memory == (FindChunk \/ ReadPiece) /\ UNCHANGED <<callVars, cursor, grant, reading>>

Next ==
  \/ Memory
  \/ AskGrant \/ OwnRow \/ NoOwnRow \/ StockRow \/ NoTable
  \/ Call \/ EnterHook \/ HookAnswers \/ HookRaises \/ WatchRaises
  \/ Store \/ Break \/ UnknownInterrupt \/ Leave
  \/ BeginRead \/ ReadOn \/ StorageRead \/ ReadTaken

\* The loops of find_bytes and read_cstr run to their ends; the build may stop
\* calling, and never return.
Spec == Init /\ [][Next]_vars /\ WF_vars(Memory)

-----------------------------------------------------------------------------
(* Properties *)

\* A call comes out as the first thing that went wrong in it, or answers when
\* nothing did: never as what an earlier call left, never as the fault an
\* abort was noticed by, and an abort's store is noticed whether the magic
\* address can be written, cannot, or is not mapped (guest.py:588-600,
\* blackbox.py:110-116).
EndsAsItWent ==
  at = "outside" /\ calls > 0 /\ outcome # "MemoryError" =>
    outcome = IF wrong = None THEN Answered ELSE wrong

\* Asked twice for a row, grant_dynamic_heap answers the same, whatever it is
\* asked for the second time (bench.py:216-220).
AskedTwiceAnswersTheSame ==
  \A i, j \in DOMAIN grant.answers : grant.answers[i] = grant.answers[j]

\* What a byte of the game's image is: the partition's are of words that each
\* state their own offset.
ImageByte(o) ==
  IF o < HeaderSize THEN <<"header", o>>
  ELSE IF o >= TablesAt THEN <<"tables", o - TablesAt>>
  ELSE <<"word", o - (o % Word), o % Word>>

\* A read of the produced romfs gives as many bytes as were asked for, each the
\* one at its offset, whatever chunks the read, whatever pieces the build and
\* whatever parts the image cut it into (bench.py:259-275,
\* romfs_pack.py:92-109, romfs_model.py:625-634).
BytesAreWhereAsked ==
  reading.state = "read" =>
    reading.out = [i \in 1..reading.size |-> ImageByte(reading.offset + i - 1)]
=============================================================================
