# A verification of Ozonde

Ozonde runs one function family of an `ams.mitm` build -- the part of
Atmosphere that serves a modded game its romfs -- inside an emulator, and
reports what a launch costs: the calls that cross to the file system, the bytes
they move, the memory they touch. It is one sequential Python process. What is
concurrent about it is control: the emulated build enters Python hooks in an
order only the build decides, any hook can end the launch, and an SD directory
outlives the process and is read by the next one.

The modules beside this file model that program, `MC*.tla` and `*.cfg` let TLC
check them on small instances, and `*_proofs.tla` hold theorems TLAPS checks for
every value of the constants. Paths below are relative to `src/`.

## 1. The system

| Part | State it keeps | Operations | Talks to |
|---|---|---|---|
| `modules/fake_sd.py`, the SD | a tree of nodes, the set of paths the build wrote, the host directory it mirrors | load, put a mod, create, write, resize, delete, flush | hooks, `Harness` |
| `modules/fake_services.py`, fs | handle table (ids, paths, modes, listings), `Stats` | one hook per libnx call | the SD, `Stats` |
| same, ncm and settings | which id belongs to which storage; the settings store | one hook per call | `fake_meta`, the handle table |
| same, stubs | how often each stub fired | refuse a call | `boundaries` |
| `modules/boundaries.py` | none between calls | find the functions that leave the process | the ELF's symbols and text |
| `modules/bench.py`, `Harness` | phases, fetches, the header, the SD, the guest | constructor, `launch`, `phase`, `read_back`, `result`, `write_sd` | everything |
| `run.py` | none | parse the command line, `run_one`, `main` | `Harness`, `report` |
| `modules/guest.py`, the emulator | registers, memory, hooks, a pending exception, a bump heap | `call`, `hook`, `watch`, `alloc`, `find_bytes` | Unicorn |
| `modules/blackbox.py` | assertions and debug output | recognise an abort, answer a debug svc | the guest |
| `modules/hos_memory.py` | the blocks it gave out, the applet's shared memory | give memory, measure what was touched | the guest |
| `modules/accounting.py` | none | totals, breakdowns by kind, by region, by pool | phases |
| `modules/alloc_types.py` | a tally per kind of allocation | count on an allocation | the guest |
| `modules/fake_meta.py` | installed content, its versions | set, look up, launch version | ncm hooks |
| `modules/fake_romfs.py`, `romfs_model.py` | a generated tree of paths and sizes | add, list, overlay a mod | `romfs_pack` |
| `modules/romfs_pack.py`, `romfs_format.py` | an image's tables | pack, read | `Harness` |
| `modules/romfs_check.py` | a reader's tables | verify structure, hash tables, contents | `Harness` |
| `modules/report.py`, `progress.py` | none | print | `run.py` |

How they interact: `run_one` makes a `Harness`, whose constructor reads the SD
directory into memory, installs the hooks, stubs what `boundaries` finds and
calls the build for the first times, to start its services and its allocator;
what it then does to the SD is on it already. `launch` puts the mod on the SD
and enters the build three times, each inside a `phase` that snapshots `Stats` around it; while
the build runs, its calls arrive at hooks that change the SD and `Stats`.
`read_back` then reads the produced romfs through the build again, and `result`
sums the phases, may read the header through the build once more, and flushes
the SD.

What is hard about it:

* **The SD across runs.** A flush is a loop over files, any of which may raise;
  a run may end before it, or in the middle of a file; a mod must not travel
  through the directory in either direction; two guest paths can share one host
  file, and a path is read three ways: by the tree, by the test for a mod, and by
  the host once its backslashes are slashes and its dots and links are followed.
* **The build before the mod.** The constructor calls the build with the hooks in
  place, so that it may have made, opened or written what the mod then replaces.
* **Handles that outlive what they name.** A handle keeps a path, and every call
  through it looks the path up again, after calls that may have removed it.
* **Who is charged.** The build runs on behalf of the constructor, of a phase, of
  the verifier and of the report, and counters only ever grow.
* **The ends of a run.** A guest failure, a refusal, a bug and a corrupt romfs
  each leave `run_one` by a different way, with different things done.
* **A fixpoint over a cyclic call graph**, which decides what is stubbed.
* **Three places an error of a call can be**: what a hook left pending, what a
  callback raised, and the fault the emulator raises of itself.
* **Edges**: a needle across two chunks, a string that ends before unmapped
  memory, a read cut by two sides at once, a code section that ends in a page.
* **Formulas that have to agree**: where the generator puts a file is settled by a
  counter, a stride and a bisection, whose results nothing compares.

What makes each part correct is in section 3, part by part; what could go wrong
in the code, at which line and which property would catch it, is in
`PROJECT.json` under `hazards`.

## 2. The modules

| Module | Models | Extends |
|---|---|---|
| `FakeSD` | the SD as a value: paths, nodes, the operators its methods are | |
| `SdTree` | the SD during a launch: one action per call that changes it | `FakeSD` |
| `SdMirror` | the SD across runs: start, launch, flush, the ends that reach no flush | `SdTree` |
| `FsServices` | the fs hooks: handles, modes, listings, what `Stats` is told | `SdTree` |
| `Tally` | what a loop makes of a sequence or a set: sums, selections | |
| `Launch` | `run_one` and the `Harness`: phases, read-back, result, failures | `Tally` |
| `Binary` | what a symbol table and the words of a text say | |
| `BoundarySpec` | abstract: what `found_in` promises, in one step | `Binary` |
| `Boundaries` | `found_in`: the scan, the backward walk, the selection | `Binary` |
| `Accounting` | what the figures are worked out from, and how: kinds, names, regions, files | `Tally` |
| `HosMemory` | memory given out, the stores and frees of a build, and the measurement | |
| `RomfsPack` | the tree files are added to, and the image packed from it | |
| `RomfsCheck` | images builds produce, and the checker over them | `RomfsPack` |
| `MetaDb` | the content database, its builder, the ncm calls | |
| `RomfsModel` | the generated game: where file *i* lies and what it weighs | `Tally` |
| `Game` | a title installed, the game generated for it, a mod over it | `MetaDb`, `RomfsModel` |
| `GuestMemory` | `find_bytes` and `read_cstr`, a chunk at a time | |
| `Guest` | `call`, hooks, faults; the heap table; reads of the produced romfs | `GuestMemory` |
| `SdMirror_proofs`, `FsServices_proofs`, `Launch_proofs`, `Boundaries_proofs`, `Accounting_proofs`, `HosMemory_proofs`, `Guest_proofs`, `Game_proofs` | theorems | the module each is named for |

**`FakeSD`, `SdTree`.** A path is the sequence of names `_split` makes of it, and
the tree is a function from every path to a node (`absent`, `dir`, `file`); a
file's size is apart from the bytes it holds, as in `Node`. `Place`,
`EnsureDir`, `Unlink` are `_place`, `ensure_dir`, `remove`. A call hands over a
spelling, which is cut at its slashes and still has the empty names between two of
them: `Split` drops those, `IsModInput` counts them, as `_is_mod_input` does, and
`_written` keeps the spelling. The host directory is a tree of the same kind,
keyed by where a file lies on the host. `Lands` says where flush writes a spelling:
program ids in upper case, each name cut at its backslashes, and then followed name
by name, above the root or past a link that leads out of the directory to
`Outside`. `Guest` says as what `_load` takes a host file. The bytes a sparse
node invents are not modelled, how many it hands over is (`ReadCount`).
A write whose buffer the emulator refuses has been noted and has made its room by
then (`WriteIsCut`). Of the history, `placed` has the mod files that are as the
launch put them, and `torn` those a write was cut short in.

**`SdMirror`.** `stage` is where the process is. A start is `FakeSD.__init__` (with or
without a directory, fresh or not): of the host files that are taken as one path, or
as one below another, `os.walk` settles which is left, so every order is allowed
(`Loads`), and one that would be put below a file raises (`StartRaises`). The build is
called by the constructor ("loaded"), in between the launch puts the mod
("launched"), and it is called again ("running"). A flush is one action per file and
per outcome -- skipped, opened (truncated), written, raised -- in the order `sorted()`
gives, so that a kill or an error between any two of them is a behaviour. `before` is
history: what the run found.

**`FsServices`.** One action per hook; the guards are the hooks' early returns.
Hooks answer the constructor's calls and the phases' (`Answers`), and in between the
launch puts the mod (`ModIsPut`), over what the build may have open. A hook
that raises of its own -- a handle in no table (`FileIsUnknown`, `DirIsUnknown`), a file
that is gone -- sets `raised`, after which nothing answers: `tramp` stops the
emulator and `run_one` reports a bug. One the emulator refuses an address ends its
call and no more; only `fsFileWrite` has changed something else by then than what it
changes when it answers. A listing puts at each place the entry that
has so many before it, which is what `sorted` gives. `gone` and `given` are history.

**`Launch`.** `running` says on whose behalf the build runs, if it does. While it
runs it may cross the boundary, touch memory and reach `BeginInitialize`, in any
order; everything else is a step of the harness. A crossing is a kind, a number
of bytes, whether it went through `Stats.crossed` and whether it noted a path as
written. The three phases are in the order `launch` has them. `log` is history:
every crossing with its maker.

**`Boundaries`.** A word of the text is what its masks make of it: `bl`, `b`
(with the address it lands on), `svc`, `blr` (which stands for `br` too), or
another. `owner` is `Owner`, and the symbols' ends are `End`. The walk pops from
its list in any order: which one a `list` built from a `set` gives is the
interpreter's affair.

**`Accounting`.** A call is a kind, a target if it names one, an offset and a
size; what `Stats` keeps of it in `fs_call`, `at_path` and `crossed` is what the
functions of `accounting.py` are then given, phase by phase. They are pure, and
are operators here; the one part with a state, `by_region` going over the calls
of each half in order and remembering what it covered, is a step per call. The
spans covered are merged as `_cover` does it: the new one put in its place among
those sorted already, then one after the other into the last it meets.

**`HosMemory`.** A page is a few bytes, a byte is one of four: untouched (0xCD),
poisoned on release (0xCC), zero, or stored. Grants come in any order and size,
the build stores anywhere in its own memory and frees any part of it, and the
measurement is a function of the bytes, as in `touched_by_region`. `wrote` and
`freed` are history.

**`RomfsPack`, `RomfsCheck`.** An entry is named by its place in its table rather
than by its byte offset; names and paths have ranks for their orders, and the
hash is a constant, so that the instance can make names collide. What `pack`
makes is one operator, built from the orders it lays things out in. The checker
takes a step per directory in the two walks and one for each of the other
checks. A build is the packed image with any one link, bucket, extent or source
wrong, or none. A wrong link names another entry, or no
entry: one with no room for it in the table (`Beyond`), off the alignment
(`Askew`), or aligned but inside an entry (`Within`). The checks of the links
(`LinksFit`) refuse the first two and let the last through, as the code does; what
reading a record there gives is left open, so that a walk past one may be refused,
raise, or go on.

**`MetaDb`.** Ids are small and keep the code's distances; a key is its four
fields. The builder is the only one that installs, before anything is asked. A
build asks for a version as a launch does, in three calls, and reads lists in
pages.

**`RomfsModel`, `Game`.** The generator is a function of an index, and is
translated as one; a name is a tuple that keeps apart what the code's words keep
apart. `Game` composes it with `MetaDb` as `run.py` and `Harness.__init__` do:
`Make` is one step that asks the database for the version that launches and fixes
what both deliveries of the mod carry, after which the ncm calls answer and
nothing is installed any more.

**`GuestMemory`, `Guest`.** The image is a function from addresses to bytes.
`find_bytes` is a step per chunk and `read_cstr` one per piece, the pieces growing
shorter when one would cross the end of the mapping. A call is `Enter`, the build,
and `Leave`; what can go wrong goes wrong in a callback, each of which is an
action, and `CameTo` is what `call` makes of `pending`, `raised` and `fault`.
`grant_dynamic_heap` is the search for the program's row, then for the probe's,
which it overwrites. `ProducedRomfs.read` enters the build for every chunk, and the
build fetches pieces of any length through `fsStorageRead`, which
`PackedFakeRomfs.read` cuts between header, partition and tables. The emulator is
external: that a stop takes effect before the build does anything else, what it
calls back for, and that it raises `UcError` for an access it cannot make. `wrong`
is history: the first thing that went wrong in the last call.

## 3. What is checked

Run a configuration with `tlc -config X.cfg M`.

| Run | Config | States | Shows |
|---|---|---|---|
| `sd_mirror` | `MCSdMirror.cfg` | 172k | the SD across any number of runs, however they end and however paths are spelled |
| `sd_deleted` | `MCSdDeleted.cfg` | violation | a file the build deletes is back on the SD at the next run |
| `fs_services` | `MCFsServices.cfg` | 242k | handles, listings and byte counts under any order of calls |
| `launch` | `MCLaunch.cfg` | 1.2M | who is charged for what, and what a result holds |
| `launch_unreported` | `MCLaunchUnreported.cfg` | violation | a failed launch that moved bytes has no result |
| `boundaries` | `MCBoundaries.cfg` | 24k | the walk finds what is promised, whatever it pops first |
| `accounting` | `MCAccounting.cfg` | 109k | every byte on one row, every call on one line |
| `hos_memory` | `MCHosMemory.cfg` | 45k | what was stored to is found, where it was |
| `romfs` | `MCRomfsCheck.cfg` | 659k | a packed image is its tree, and so is any the checker accepts, which also opens |
| `romfs_walk` | `MCRomfsWalk.cfg` | violation | a directory below itself is listed for ever |
| `game` | `MCGame.cfg` | 1.6M | what a build is told of versions, and that the game generated and the mod over it agree with it |
| `guest` | `MCGuest.cfg` | 1.7M | every image of six bytes: what is found, read and granted, and what a call ends with |

The properties, by run:

* `sd_mirror`: both trees stay trees (`Rooted`); every file flush comes to holds
  all of its bytes (`WrittenWhole`), though mod files do not: unless the mod came
  to lie over what the constructor's calls had made, or a write was cut short; a mod
  on the SD is this run's or the build's (`NoStaleMod`); what the build wrote is what
  the next run loads, where it landed (`FlushedIsFound`); a run changes only what it
  wrote, and did not spell as a mod (`MirrorChangesOnlyByFlush`); one file at most is
  torn, however a run ends (`AtMostOneTorn`); the settings file changes only as a
  flush writes it (`SettingsSurvive`); a flush ends (`FlushEnds`).
* `fs_services`: a handle finds its file unless a call, or the mod put over it,
  removed it (`LiveHandleFindsItsFile`); no id means two things (`IdsNeverShared`); a
  listing is a snapshot (`ListingIsASnapshot`); a read hands over what a file of that
  size has (`ReadIsWhatTheFileHas`); what is counted as crossed was there to cross, and
  what was written is noted (`CrossedBytesExist`). The last two leave out a file a write
  was cut short in, which holds more than its size.
* `launch`: a phase and a fetch are charged their own crossings and nobody else's
  (`EachIsChargedItsOwn`), the rows of a result add up to its totals and its pools
  to its peak (`ReportAddsUp`), and a result means a flushed SD
  (`ResultIsOnTheSD`).
* `boundaries`: the walk is exact at every step (`WalkIsExact`), the search
  implements the one-step promise (`Implements`), and it ends (`Finds`).
* `accounting`: in either half every byte of every call is on one row
  (`EveryByteIsCharged`), the bytes told apart as covered again are those some
  earlier call of that name covered (`AgainIsGroundCoveredBefore`), and every call
  is in one kind and on one file's line of it (`EveryCallIsOnOneLine`).
* `hos_memory`: blocks share no page and lie in the heap (`RegionsApart`), a
  page stored to counts in its own region (`StoresAreFound`), and no store or
  release makes less of it (`TouchedNeverShrinks`).
* `romfs`: the listing of a packed image is the tree that was added, in path
  order and on boundaries, and the checker takes it (`PackedIsTheTree`); what the
  checker accepts, with its parents right (`ParentsRight`), opens by path, entry for
  entry (`AcceptedOpens`), and is the tree it was built from, which the checker never
  sees: no file missing, added or with other bytes, the game's and the mod's alike
  (`AcceptedServesTheTree`). Two things it does not say, for the
  code does not do them (see below): that a wrong parent, which is among the faults, is
  refused; and that two runs that change places, which is more than one fault, are.
* `game`: the version a build works out is the one the run reports
  (`ToldIsReported`); pages reach every id of a game's family and none of
  another's (`PagesReachTheFamily`); every directory a file count puts on the map
  holds files, and a tail directory is full before the next is begun
  (`TailIsLaidInOrder`); two deliveries carry what was asked for and no path twice
  (`DeliveriesAddUp`); an update that launches changes the romfs produced, unless
  the mod hides the files it rewrote (`UpdateShows`); it says so of mods that override fewer
  than two of the game's files, as two may be all that was rewritten of a small game.
* `guest`: bytes are found, and where they first are (`FindsFirst`); a string is
  read up to its end, however it lies to chunks and to unmapped memory
  (`StringIsWhole`); both loops end (`ReadsEnd`); a call comes out as the first
  thing that went wrong in it, never as what an earlier one left
  (`EndsAsItWent`); a row asked for twice is answered the same
  (`AskedTwiceAnswersTheSame`); a read of the produced romfs has every byte where
  it was asked for (`BytesAreWhereAsked`).

That variables keep their types is an invariant of `sd_mirror`'s run and proved of
`SdMirror`, `FsServices`, `Boundaries`, `HosMemory` and `Accounting`.

The three violations are disagreements between the code and what it says of
itself; `PROJECT.json` quotes the lines under `findings`:

* a file a build deletes is on the mirror still, and back at the next run
  (`fake_sd.py:251`);
* a launch that failed after it moved bytes has no result (`bench.py:82`);
* a directory below itself is listed for ever (`romfs_check.py:263`).

Others were met while modelling and have no run:

* `fake_sd.py:194-196` says "A mod is generated fresh every run and must never
  travel through the mirror in either direction". A mod file whose path has two
  slashes meeting travels to it: the tree drops the empty name (95), and the test for
  a mod counts it (206). `MCSdMirror` has such a spelling, and
  `MirrorChangesOnlyByFlush` allows for it. On the way in nothing is missed, as a host
  path has no empty names (`NoStaleMod`).
* `romfs_pack.py:40-41` says "a directory holds one of each name, whether a file or a
  directory wears it", and 126-132 refuse the one that comes second; but a file may
  get a directory of its name beside it, as nothing looks at the files on the way
  down (123-124). `MCRomfsCheck` has such trees (`d/d`, then `d/d/b`), and
  `PackedIsTheTree` holds of them all the same: the packer keeps the two apart by
  their tables.
* `romfs_check.py:17` has "the entry links -- parent, sibling, child, file" first
  among the things checked. An entry's parent may be any aligned link with room for an
  entry (386-391), and the hash tables are walked with the directory an entry was come
  to from, not with the field. A game compares the field and does not open the file,
  which is why `AcceptedOpens` and `AcceptedServesTheTree` ask for `ParentsRight`.
* `romfs_check.py:562-563` says of two files that swap their runs that "only having
  both in the sample catches it". Two of the game's files that have each other's bytes
  read from different places, and only equal ones are refused (706-709).
* `bench.py:728` says of `write_sd` "Written on a failed launch as much as a
  finished one"; a launch that ends as a module's refusal or as a bug
  (`run.py:401-411`) asks for no result and so writes nothing. `Launch` has both
  ends.
* `boundaries.py:9` speaks of a call subtree that "reaches an `svc` or dispatches
  indirectly"; a dispatch counts in the service itself only.
* `fake_services.py:312` says a database "is opened for a storage and answers
  only for that one"; `GetPatchContentMetaId` answers for any.
* `hos_memory.py` poisons what is freed with another byte (0xCC) than the one
  untouched memory is told by (0xCD), so a block nobody stored to counts as touched
  once it is freed, against `hos_memory.py:114-116`.
* `fake_romfs.py:76-77` says of an override that it has a size the game's file does
  not; for file 58 both are 334.
* `accounting.py` charges files it has no layout of by the last name of their
  path, so two of one name share a row, and what was new of one may count as
  covered of the other: `AgainIsGroundCoveredBefore` is said of the names that are
  one file's (`NamesOneFile`).

**Bounds, and why they are enough.** `MCSdMirror` has fifteen spellings chosen so
that every relation the code distinguishes occurs: above and below, mod and not,
settings, two cases of one program id, two slashes meeting, a backslash that lands
on the settings file, a path that lands on the mirror itself and a link out of it.
Seven of them are what the build calls with, twice in a run (`MaxCalls`): enough for
one call before the mod is put and one after it, for a file made a directory or the
reverse, and for one call for each of two files that land on one another. The first
run finds one of two host directories filled by hand; any run may be without one.
`sd_deleted` has plain paths and three calls. A byte has one value and a file at
most one, which tells held from not held and empty from full. The number of runs is
not bounded. `MCFsServices` has a mod of two files and two handles (`MaxHandles`), of
which two may be on one path, and directory reads of at most one entry (`MaxEntries`),
so that a listing takes several; the build's calls name one of the two files and the
directory they are in. `MCLaunch` has one crossing of each sort that the
accounting tells apart, two of them in a run (`MaxCrossings`), two pools and
two changes of memory (`MaxTouches`): enough to place one before, one in and one
after a phase. `MCBoundaries` enumerates programs of five words over four
symbols, with sizes given, missing and aliased; cyclic call graphs are among
them, and one of the services is hooked already, so that its being passed over is
part of what is checked.

`MCAccounting` has a file with a layout, one without and the header's
regions, with ranges of no bytes, at edges, past the end and over two regions.
`MCHosMemory` has pages of a few bytes and sizes that end within one. `MCRomfsCheck`
has five places for a file, of which one is also another's directory, in two
directories of the root that may be made in either order; hashes that collide, and
files of none and of some bytes. Trees are of up to four files (`MaxFiles`), in every
order, with a fault in one place at a time, of every kind but the one that lists for
ever, which has its own run. Names and sizes of entries are not spoiled. The contents
are checked of files long enough to say where they are from: the code holds those
below a word against nothing.

`MCGame` has two games, an id that is none and four installs (`MaxInstalls`), which
are enough for two versions of one id around a page of one key beside the title's
own, and one open database (`MaxOpen`) of the right storage or the wrong one. Its
generator's tables are small ones: four files of five go to the tail, whose
directories hold one file or two, so that nine files reach a moved directory, the
one after it and the second time round the cycle; the shares that decide which
directory is moved, the sizes and the rewritten stretches are the code's own.
`MCGuest` has every image of six bytes of three values that leaves a row its room,
a chunk of three (`ScanChunk`), ids of two bytes so that one lies across a chunk's
end, a row asked for twice (`MaxAsks`), which the code does before any call, and two
calls (`MaxCalls`), of which the second may find what the first left. The romfs is
ten bytes with every part cut by some read, and a read takes two chunks
(`ReadChunk`).

**Fairness.** `Guest` assumes weak fairness of `Memory` only, the loops of
`find_bytes` and `read_cstr`, which wait for nothing. `SdMirror` assumes weak fairness of `Flush` only: a loop of the
harness that nothing waits for. `Boundaries` assumes it of `Next`: `found_in` is
one function call. The build is under no fairness at all: it may run for ever,
so nothing that waits for it is promised to end.

**Deadlock** is checked except where the program really stops: an fs hook that
raised ends the launch; `found_in` returns; accounting is over with its last
call; a build's memory is bounded; a verdict on an image is the last word; a build may stop asking; and the
guest's calls and heap are bounded.

## 4. What is proved

TLAPS, for every set of paths, mods, mirrors, bounds, binaries and images that meets
the named assumptions.

* `SdMirror_proofs`: `Rooted`, `WrittenWhole`, `NoStaleMod`, `FlushedIsFound`,
  `MirrorChangesOnlyByFlush`, `AtMostOneTorn`, `SettingsSurvive` and the type
  invariant, for every set of spellings and whatever they land on. None is inductive.
  `IInv` says of each stage what the mirror is: what the run found until the flush
  begins; from then on, that plus the files flush has left behind (`Taken`), which come
  before those pending in `sorted()` order, with the open one the only one that may be
  torn. The order matters: a file flush took keeps its bytes until another lands where
  it did (`StillThere`), and the last one to land is there when it ends. Of the SD it
  says that every file but a mod's is as long as its size says, and longer at most if a
  write into it was cut short (`OwnFits`), whatever the constructor's calls did before
  the mod was put. That the tree stays a tree rests on lemmas about
  `Place`, `Unlink`, `EnsureDir`, `LoadedOf` and `EmptyButSettings` (the module's first
  part), used for the SD and for the directory alike.
* `FsServices_proofs`: everything the `fs_services` run checks --
  `LiveHandleFindsItsFile`, `IdsNeverShared`, `ListingIsASnapshot`,
  `ReadIsWhatTheFileHas`, `CrossedBytesExist` -- and the type invariant, with the build
  called before the mod is put and after. Three things
  make the invariant inductive: no file but a torn one holds more bytes than its size
  (`Fits`), without which a read could hand over what is not there; the ids of the three
  tables are the numbers below the next one (`IdIInv`), from which a new id is
  fresh; and a listing's cursor is the length of what it handed over (`ListingIInv`),
  so that a chunk goes on where the last ended (`PrefixGrows`). That a handle still
  finds its file rests on what each tree operator takes with it (`PlaceFits`,
  `UnlinkFits`, `EnsureDirFits`, `RewriteFits`), the mod's placing among them.
* `Launch_proofs`: `EachIsChargedItsOwn`, `ReportAddsUp` and `ResultIsOnTheSD`, for
  every set of crossings and pools. The code subtracts two readings of counters that
  only grow; the property speaks of the calls somebody made. What joins them
  (`IInv`) is that the counters are at every moment what the whole log comes to, that
  the reading taken at a phase's begin is what the log came to then, and that since
  then nobody else's call was logged: the log's calls of a phase that runs are the
  log from its mark on. Sums are functions of how far a loop has come (`Tally`), and
  that they grow by what is appended (`TotalAppend`, `KeptAppend`, `BytesAppend`),
  and over a set by what is taken out of it (`TotalOverIs`), are lemmas.
  `ReportAddsUp` needs, beside the sums of the three phases, that no phase is
  recorded twice (`NoPhaseTwice`) and that the peak's pools are those of the first
  phase that has it (`FirstHighest`).
* `Boundaries_proofs`: `WalkIsExact` and `Implements`. The invariant is that the
  scan holds exactly what the words before its position say and that the callers
  of whatever is reached and off the list are reached; an empty list then makes
  the reached set closed, and the set of functions that lead to an `svc` is the
  least closed one.
* `Accounting_proofs`: `EveryByteIsCharged`, `AgainIsGroundCoveredBefore`,
  `EveryCallIsOnOneLine` and the type invariant, for every layout, set of calls and
  number of phases. The second property is of the spans and is not inductive: the
  invariant (`IInv`, by `Ledger`) says that a row's spans are in order and apart,
  that they cover the ground of the ranges looked at and nothing else, and that
  what the row tells as new is as many bytes as they cover (`Tells`). A merge keeps that
  because what was left of a new span covers no more than the spans did before it
  (`CoverIs`, `OverlapIs`), which is an induction on how far the merge has come, and
  because the regions a range meets follow each other, so that no more is accounted for
  than the range has (`LandedIs`). Of the calls it says that the entry points add up to what
  crossed and that no entry point named more files than it was called (`Agree`), which
  gives the line for what names no file. Sums over sets split and join as sets do
  (`SumSplit`, `SumUnion`, `SumOfParts`), and a set is as many as its parts
  (`CardinalityOfParts`). The recursive functions of the module, loops over a list each, are
  shown to be what they are written as (`LoopExists`).
* `HosMemory_proofs`: `RegionsApart`, `StoresAreFound`, `TouchedNeverShrinks` and the
  type invariant, for every page size, heap and set of sizes. `RegionsApart` speaks of
  pages and is not inductive: the invariant is that every block begins on a page,
  inside the heap and below the cursor, and that blocks come one after the other;
  that bytes so divided share no page is arithmetic of whole pages (`PageSides`).
  What is found touched needs of the bytes (`HIInv`) that one neither stored to nor
  released is as it was given, and one stored to holds what was stored. A pool's
  touched pages are counted as a set of pages, each tagged with its block, so that
  no sum is involved. `TouchedNeverShrinks` is proved under the hypothesis that the
  build does not store the byte untouched memory is told by (`Poison`): with it the
  property is false, and the code says so of its measure.
* `Guest_proofs`: `FindsFirst`, `StringIsWhole`, `EndsAsItWent`,
  `AskedTwiceAnswersTheSame` and `BytesAreWhereAsked`. A search has ruled out every
  place before its position (`ScanIInv`), which a step of a chunk less the overlap
  keeps; a string's pieces hold no end of it (`NameIInv`). Of a call: while the build
  runs nothing is pending, raised or faulted, and what stopped it is what `CameTo`
  makes of the three (`CallIInv`). Of the heap table: every answer given is what a
  search would find now (`GrantIInv`). Writing an id over the probe keeps that because
  the id is not found to begin before where it is put (`PutIsFirst`), which needs that
  no proper end of it is a beginning of it. Of a read: what has been handed over is
  the romfs from the read's offset on, as far as it goes, and the pieces of a chunk
  that were fetched are the chunk's beginning (`ReadIInv`); that a piece cut between the header,
  the partition and the tables is the romfs there (`ImageReadIs`) rests on the parts
  lying one after the other and on words being found where division says (`WordOf`).
* `Game_proofs`: `ToldIsReported`, `PagesReachTheFamily`, `DeliveriesAddUp`,
  `UpdateShows` and `TailIsLaidInOrder`. The invariant (`GInv`) has four parts. Every entry is of a game, a
  fixed distance above it and less than a family (`EntriesAreOfGames`), from which an
  id is of one game and one type (`OneFamily`, `OneTypeOfAnId`): without it the id in
  the second answer could be another game's, and an add-on asked for as a game would
  be given an update. What has been told is what would be told now (`ToldSoFar`), as
  nothing is installed once a database is open. Of a list, the ids met are those of
  the family below where the next page begins (`ReadSoFar`): a page that stops inside
  a run of versions of one id has met the id, and all it left out lies at it or above,
  since a list is in the order of ids (`ListIs`, by ranks: `EachRankIsOne`). And the
  game made is what was asked for (`MadeAsAsked`), so an update that launches was
  installed, the mod then leaves one file of the game, and one of the first two files
  differs. That the tail is laid in order follows from the tables alone: the tail's
  counter rises by one or stands still, so its files and the places below its last
  value pair off (`PlacesAreTaken`); the places a directory is found for by division
  and bisection are a run as long as its size, which begins where the one before ends
  (`BlockOf`, `BlocksFollow`); and a stride of 337 in 1000 moves no two neighbours
  while at most 337 in 1000 move (`NoTwoMove`).

The assumptions: a path's prefixes are paths, `sorted()` is a total order, no call
names the root, where a spelling lands and what a host file is taken as are among the
paths, the settings file is one of them, the directories runs begin with are trees; symbols have distinct names and addresses are integers;
the heap's base is not past its end, and the poisons differ; the base romfs's label
is no path and the paths of a run are finitely many; a program id is no end of
itself, and wherever one is found there is room for a row; no program id is zero,
the distances of updates and add-ons are within a family and apart, a game's mark
is below one release, and a command line asks for a game smaller than where added
files are numbered from; the tail has bands, none of them empty, a share of at least
one file in a million, and at most 337 of 1000 of its directories are moved (the code
moves 180).
Of the accounting: layouts, calls and targets are finitely many, and the regions of a
layout follow one another and none is empty, which they are cut from one header for.
TLC evaluates each on every run.

Only model-checked:

* the liveness properties (`FlushEnds`, `Finds`, `ReadsEnd`): TLAPS proves no liveness
  under fairness;
* everything of `RomfsPack` and `RomfsCheck` (`PackedIsTheTree`, `AcceptedOpens`,
  `AcceptedServesTheTree`): what the packer lays out is a fold over sorted sequences,
  and a statement about it for every tree is an induction over data.

## 5. The plan

Done:

1. `FakeSD`, `SdTree`, `SdMirror` and their proofs: what a run leaves behind is
   what the next one measures, so an error here spoils every later run.
2. `FsServices`: the order of calls is the build's.
3. `Launch`: the figures the tool exists to report.
4. `Boundaries` against `BoundarySpec`, with the refinement proved.
5. `HosMemory`, `Accounting`: what memory and crossings are reported as.
6. `RomfsPack`, `RomfsCheck`, `MetaDb`: what a build is given and what is asked
   of what it made.
7. `Guest` and `GuestMemory`: how a call ends, and what is read of the guest's
   memory; `PackedFakeRomfs.read` and `ProducedRomfs.read`, cut by chunks, by pieces
   and by the parts of an image.
8. `RomfsModel` and `Game`: the generated game, its composition with the database it
   takes its version from, and the mod over it.
9. Proofs of `FsServices`, `GuestMemory`, `Guest`, `Launch`, `HosMemory`, `Game` and
   `Accounting`.

Left:

10. An abstract specification of the fs service (files by name, handles to them)
    that `FsServices` implements, and of the report (sums of a log) for `Launch`.
11. `RomfsModel` under `RomfsPack`: the generated tree packed, so that the sizes and
    directories of one are the entries of the other.
12. What `RomfsPack` lays out, by an induction over the tree it is given.

## 6. What is not modelled, and why

`report.py` and `progress.py` print and hold no state. `settings_from_ini` and
`parse_setting_value` are parsers whose subject is text, and so is the command line
but for the rules a mod and an update meet, which are in `Game`. `alloc_types.py` is
a counter per kind and a parser of debug information. A service stub is a counter
and a constant answer. Of `guest.py`, loading a binary, relocating it, its symbols
and registers are not modelled: nothing there depends on an order. Of `blackbox.py`,
what assertions and log calls record is not. The ARM64 decoding in `boundaries.py` is
taken as done: a word is its kind and target. The emulator is external. The bytes of
sparse files and the words of generated names are data no property tells apart.

Of the SD: a call that names the root itself, which `_place` and `remove` answer with
an `IndexError`; links inside the host directory that lead elsewhere inside it; and a
path that goes up past the directory and comes back into it by its own name. What
`os.walk` hands over first is the disk's affair, and every order is allowed.
`PROJECT.json` says part by part.
