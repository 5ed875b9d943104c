----------------------------- MODULE HosMemory -----------------------------
(***************************************************************************)
(* The memory a build is given, and how much of it is found touched.  The  *)
(* kernel's calls hand out pages of the guest's bump heap, poisoned; a     *)
(* static buffer of the module's own starts zeroed.  What the build has    *)
(* used is read off the pages: a page that no longer holds what it was     *)
(* given with.                                                             *)
(*                                                                         *)
(* wrote and freed are history: the bytes the build stored to, and those   *)
(* the watch on FreeTracked wrote over.                                    *)
(***************************************************************************)
EXTENDS Integers, Sequences, FiniteSets, SequencesExt

CONSTANTS
  PageSize,      \* _PAGE
  HeapBase,      \* where guest.alloc hands out from
  HeapEnd,       \* and where it ends
  Buffer,        \* g_malloc_buffer: [addr, size], in the image
  Size,          \* the sizes the build asks for
  Stored,        \* the bytes the build stores
  Poison,        \* _POISON, 0xCD
  FreedPoison,   \* what freed memory is overwritten with, 0xCC
  Zero,          \* what a page is mapped with
  MaxStores      \* bound on the build's stores and releases

Kinds == <<"Borrowed from applet pool", "Borrowed from app pool",
           "Borrowed from sys pool", "Static buffer (.bss)">>
Applet == Kinds[1]
Borrowed == {Kinds[2], Kinds[3]}
Label == ToSet(Kinds)

BufferBytes == Buffer.addr .. (Buffer.addr + Buffer.size - 1)
Addr == BufferBytes \cup HeapBase .. (HeapEnd - 1)

ASSUME HosAssumption ==
  /\ PageSize \in Nat \ {0}
  /\ HeapBase \in Nat /\ HeapEnd \in Nat /\ 0 < HeapBase /\ HeapBase <= HeapEnd
  /\ Buffer.addr \in Nat \ {0} /\ Buffer.size \in Nat
  /\ BufferBytes \cap (HeapBase .. (HeapEnd - 1)) = {}
  /\ Size \subseteq Nat
  /\ MaxStores \in Nat
  /\ Poison # Zero /\ FreedPoison \notin {Poison, Zero}

VARIABLES
  mem,       \* the guest's memory
  cursor,    \* Guest._heap_cursor
  blocks,    \* HOSMemory._blocks: what was asked for, as it was
  shared,    \* _shared_memory: its address, or 0
  live,      \* _shared_memory_live
  raised,    \* the bump heap is exhausted, and the run over
  stores,    \* how often the build stored or released
  wrote,     \* history: addresses the build stored to, with what last
  freed      \* history: addresses overwritten when freed

memVars == <<mem, stores, wrote, freed>>
osVars == <<cursor, blocks, shared, live, raised>>
vars == <<memVars, osVars>>

Init ==
  /\ mem = [a \in Addr |-> Zero]
  /\ cursor = HeapBase
  /\ blocks = <<>>
  /\ shared = 0
  /\ live = FALSE
  /\ raised = FALSE
  /\ stores = 0
  /\ wrote = {}
  /\ freed = {}

-----------------------------------------------------------------------------
(* Giving memory *)

\* Mutation: the heap is handed out to the byte.
UpUnaligned(a) == a

\* The address alloc(align=0x1000) gives, at or above a.
Up(a) == ((a + PageSize - 1) \div PageSize) * PageSize

\* _give: pages off the heap, every byte asked for poisoned.
Give(size, kind) ==
  IF Up(cursor) + size > HeapEnd
  THEN raised' = TRUE /\ UNCHANGED <<mem, cursor, blocks>>
  ELSE /\ cursor' = Up(cursor) + size
       /\ blocks' = Append(blocks, [addr |-> Up(cursor), size |-> size, kind |-> kind])
       /\ mem' = [a \in Addr |-> IF Up(cursor) <= a /\ a < Up(cursor) + size THEN Poison ELSE mem[a]]
       /\ UNCHANGED raised

\* AllocateUnsafeMemory and AllocateMemoryBlock; giving back does nothing.
Allocate(size, kind) ==
  /\ ~raised
  /\ Give(size, kind)
  /\ UNCHANGED <<shared, live, stores, wrote, freed>>

\* memletCreateAppletSharedMemory: one at a time is remembered, the last.
CreateShared(size) ==
  /\ ~raised
  /\ Give(size, Applet)
  /\ shared' = IF raised' THEN shared ELSE Up(cursor)
  /\ live' = (live \/ ~raised')
  /\ UNCHANGED <<stores, wrote, freed>>

DestroyShared ==
  /\ ~raised /\ live
  /\ live' = FALSE
  /\ UNCHANGED <<memVars, cursor, blocks, shared, raised>>

\* What MapSharedMemory and GetSharedMemoryHandle answer.
Mapped == shared
HasHandle == live

-----------------------------------------------------------------------------
(* What the build does with it *)

BytesOf(r) == r.addr .. (r.addr + r.size - 1)

Regions == [i \in 1..(Len(blocks) + 1) |->
              IF i <= Len(blocks)
              THEN [addr |-> blocks[i].addr, size |-> blocks[i].size,
                    label |-> blocks[i].kind, fresh |-> Poison]
              ELSE [addr |-> Buffer.addr, size |-> Buffer.size,
                    label |-> Kinds[4], fresh |-> Zero]]

Stores(a, v) ==
  /\ ~raised
  /\ stores < MaxStores
  /\ stores' = stores + 1
  /\ \E i \in DOMAIN Regions : a \in BytesOf(Regions[i])
  /\ mem' = [mem EXCEPT ![a] = v]
  /\ wrote' = {w \in wrote : w[1] # a} \cup {<<a, v>>}
  /\ UNCHANGED <<freed, osVars>>

\* Mutation: freed memory is overwritten with what it was given with.
FreesAsGiven(a, n) ==
  /\ ~raised
  /\ stores < MaxStores
  /\ n > 0
  /\ stores' = stores + 1
  /\ \E i \in DOMAIN Regions : a .. (a + n - 1) \subseteq BytesOf(Regions[i])
  /\ mem' = [b \in Addr |-> IF b \in a .. (a + n - 1) THEN Poison ELSE mem[b]]
  /\ freed' = freed \cup (a .. (a + n - 1))
  /\ UNCHANGED <<wrote, osVars>>

\* FreeTracked: the watch overwrites what is freed.  Which ranges of a region
\* the build's allocator carved and gives back is its own affair.
Frees(a, n) ==
  /\ ~raised
  /\ stores < MaxStores
  /\ n > 0
  /\ stores' = stores + 1
  /\ \E i \in DOMAIN Regions : a .. (a + n - 1) \subseteq BytesOf(Regions[i])
  /\ mem' = [b \in Addr |-> IF b \in a .. (a + n - 1) THEN FreedPoison ELSE mem[b]]
  /\ freed' = freed \cup (a .. (a + n - 1))
  /\ UNCHANGED <<wrote, osVars>>

-----------------------------------------------------------------------------
(* touched_by_region *)

\* The pages of a region, from its start; the last may end short.
PagesOf(r) ==
  {BytesOf(r) \cap (r.addr + k * PageSize .. r.addr + (k + 1) * PageSize - 1) :
     k \in 0 .. ((r.size + PageSize - 1) \div PageSize - 1)}

TouchedPages(r) == {page \in PagesOf(r) : \E a \in page : mem[a] # r.fresh}

\* Mutation: a page that ends short counts as a whole one.
TouchedInWhole(r) ==
  {r.addr + k : k \in {n \in 0..(r.size + PageSize - 1) :
     \E a \in UNION TouchedPages(r) : (a - r.addr) \div PageSize = n \div PageSize}}

\* The bytes a region counts: all of a page of which one is touched.
TouchedIn(r) == UNION TouchedPages(r)

\* A row per pool, in the order they are tried, however many blocks it was
\* handed out in and if none.  The i-th region counts for itself.
touched_by_region ==
  [label \in Label |->
     LET of == {i \in DOMAIN Regions : Regions[i].label = label}
     IN [size    |-> Cardinality(UNION {{i} \X BytesOf(Regions[i]) : i \in of}),
         touched |-> Cardinality(UNION {{i} \X TouchedIn(Regions[i]) : i \in of})]]

-----------------------------------------------------------------------------

Next ==
  \/ \E size \in Size, kind \in Borrowed : Allocate(size, kind)
  \/ \E size \in Size : CreateShared(size)
  \/ DestroyShared
  \/ \E a \in Addr, v \in Stored : Stores(a, v)
  \/ \E a \in Addr, n \in Size : Frees(a, n)

Spec == Init /\ [][Next]_vars

-----------------------------------------------------------------------------
(* Properties *)

Block == [addr : Nat, size : Size, kind : Label]

TypeOK ==
  /\ mem \in [Addr -> Stored \cup {Poison, FreedPoison, Zero}]
  /\ cursor \in HeapBase .. HeapEnd
  /\ blocks \in Seq(Block)
  /\ shared \in {0} \cup {blocks[i].addr : i \in DOMAIN blocks}
  /\ live \in BOOLEAN /\ raised \in BOOLEAN
  /\ stores \in 0..MaxStores
  /\ wrote \subseteq Addr \X Stored
  /\ freed \subseteq Addr

\* No two regions the measurement looks at have a byte of one page of the
\* guest in common, so a store into one is never counted in another, whatever
\* sizes were asked for in whatever order.
PageOf(a) == a \div PageSize
RegionsApart ==
  \A i, j \in 1..Len(blocks) : i < j =>
    {PageOf(a) : a \in BytesOf(blocks[i])} \cap {PageOf(a) : a \in BytesOf(blocks[j])} = {}

\* No pool is found to have touched more than it was given, whatever sizes
\* its blocks have, and a store of anything but what the page was given with
\* is found, be it zeros: a page counts if one of its bytes was last stored so
\* and not freed since, and only if one was stored to or freed.
StoresAreFound ==
  /\ \A label \in Label : touched_by_region[label].touched <= touched_by_region[label].size
  /\ \A i \in DOMAIN Regions : \A page \in PagesOf(Regions[i]) :
       LET fresh == Regions[i].fresh
       IN /\ (\E w \in wrote : w[1] \in page \ freed /\ w[2] # fresh)
               => page \in TouchedPages(Regions[i])
          /\ page \in TouchedPages(Regions[i])
               => page \cap (freed \cup {w[1] : w \in wrote}) # {}

\* A figure by nature a high-water mark, for what was borrowed: no store of a
\* build that stores no poison, no release and no further grant makes a pool
\* of borrowed pages touched less.
TouchedNeverShrinks ==
  [][\A label \in Borrowed \cup {Applet} :
       touched_by_region'[label].touched >= touched_by_region[label].touched]_vars
=============================================================================
