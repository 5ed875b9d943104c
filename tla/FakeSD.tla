------------------------------- MODULE FakeSD -------------------------------
(***************************************************************************)
(* The SD of fake_sd.py as a value: a tree of nodes keyed by path, and the *)
(* operators its methods are.  A path is the sequence of names _split      *)
(* makes of a spelling, so "above" is "a proper prefix of".  The tree is a *)
(* total function on Path: a path nobody made is Absent.  A file node      *)
(* carries its size apart from the bytes it holds, as Node does; what lies *)
(* past the bytes held is invented by the node when it is read.            *)
(*                                                                         *)
(* A spelling is what a call hands over, cut at its slashes: the empty     *)
(* names _split drops are still in it, because _is_mod_input looks at      *)
(* them.  (The slashes it begins and ends with make no difference to       *)
(* anybody and are gone.)  The host mirror is a tree of the same kind,     *)
(* keyed by where on the host a file lies, and a spelling has a place of   *)
(* its own there: Lands says where flush writes it, Guest says as what     *)
(* _load takes a host file.                                                *)
(***************************************************************************)
EXTENDS Integers, Sequences, SequencesExt

CONSTANTS
  Name,         \* names of files and directories
  Path,         \* the paths there are, on the SD and on the host, without the root
  Spelling,     \* how a run spells paths: with "" where two slashes meet
  Rank,         \* the order sorted() puts paths and spellings in
  Upper,        \* a name as host_path spells it: program ids upper-cased
  Lower,        \* a name as _guest_path spells it: program ids lower-cased
  Pieces,       \* what a name falls into once its backslashes are slashes
  Escaping,     \* links on the host that lead out of the mirror
  SettingsIni,  \* SETTINGS_INI
  Byte,         \* what a byte of a file can be
  Zero          \* the byte a file is extended with

-----------------------------------------------------------------------------
(* Paths *)

\* The directories a path lies in, nearest and farthest alike.
Ancestors ==
  [p \in Path |-> {q \in Path : Len(q) < Len(p) /\ \A i \in 1..Len(q) : q[i] = p[i]}]
Above(p) == Ancestors[p]

\* _split drops the empty names.
Splits == [s \in Spelling |-> SelectSeq(s, LAMBDA n : n # "")]
Split(s) == Splits[s]

\* The shape Atmosphere gives a mod, whatever the program id is called.  Asked
\* of a spelling as of a path: strip and split keep the empty names between.
IsModInput(parts) ==
  /\ Len(parts) > 3
  /\ parts[1] = "atmosphere"
  /\ parts[2] = "contents"
  /\ parts[4] \in {"romfs", "romfs.bin"}

\* _guest_path: what a host file is taken as.
Guest(h) == [i \in 1..Len(h) |-> Lower[h[i]]]

Root    == <<>>
Outside == <<"">>    \* no path has an empty name

\* One component of a host path, as realpath takes it: above the root and past
\* a link that leads out there is nothing of the mirror any more.
Enter(at, n) ==
  IF at = Outside \/ n \in {"", "."} THEN at
  ELSE IF n = ".." THEN IF at = Root THEN Outside ELSE Front(at)
  ELSE IF Append(at, n) \in Escaping THEN Outside ELSE Append(at, n)

\* host_path, the backslashes it leaves, and realpath, in that order: where on
\* the host flush writes a spelling.
Landings ==
  [s \in Spelling |-> FoldLeft(Enter, Root, FlattenSeq([i \in DOMAIN s |-> Pieces[Upper[s[i]]]]))]
Lands(s) == Landings[s]

ASSUME PathAssumption ==
  /\ Path \subseteq Seq(Name \ {""}) \ {<<>>}
  /\ \A p \in Path : \A n \in 1..(Len(p) - 1) : SubSeq(p, 1, n) \in Path
  /\ Rank \in [Path \cup Spelling -> Nat]
  /\ \A p, q \in Path \cup Spelling : Rank[p] = Rank[q] => p = q
  /\ Escaping \subseteq Path

\* The paths a run meets are closed under what is done to them.
ASSUME SpellingAssumption ==
  /\ <<>> \notin Spelling
  /\ \A s \in Spelling : Split(s) \in Path /\ Lands(s) \in Path \cup {Root, Outside}
  /\ \A h \in Path : Guest(h) \in Path

ASSUME SettingsAssumption == SettingsIni \in Path

ASSUME ByteAssumption == Zero \in Byte

-----------------------------------------------------------------------------
(* Nodes *)

Node == [kind : {"absent", "dir", "file"}, data : Seq(Byte), size : Nat]

Absent == [kind |-> "absent", data |-> <<>>, size |-> 0]
Dir    == [kind |-> "dir",    data |-> <<>>, size |-> 0]

\* put_file_sparse and put_file_virtual give a size of their own; put_file
\* holds every byte of the file.
File(data, size) == [kind |-> "file", data |-> data, size |-> size]
Whole(data)      == File(data, Len(data))

IsFile(t, p) == t[p].kind = "file"
IsDir(t, p)  == t[p].kind = "dir"
Found(t, p)  == t[p].kind # "absent"

Empty == [p \in Path |-> Absent]

-----------------------------------------------------------------------------
(* The tree *)

\* Mutation: nothing looks at what is on the way.
CanPlaceAnywhere(t, p) == TRUE

\* ensure_dir walks down through the directories on the way: a file there has
\* no children and the walk raises.
CanPlace(t, p) == \A q \in Above(p) : ~IsFile(t, q)

\* ensure_dir: setdefault leaves what is there and makes what is missing.
EnsureDir(t, p) ==
  [q \in Path |-> IF q \in Above(p) \cup {p} /\ ~Found(t, q) THEN Dir ELSE t[q]]

\* _place: the parent's entry is assigned, so a directory that was there goes
\* with everything under it.
Place(t, p, node) ==
  [q \in Path |->
     IF q = p THEN node
     ELSE IF q \in Above(p) /\ ~Found(t, q) THEN Dir
     ELSE IF p \in Above(q) THEN Absent
     ELSE t[q]]

\* remove pops the parent's entry, a file or a whole directory.
Unlink(t, p) == [q \in Path |-> IF q = p \/ p \in Above(q) THEN Absent ELSE t[q]]

-----------------------------------------------------------------------------
(* Bytes *)

\* Mutation: a file is made of whatever was there.
ZerosUnwritten(n) == [i \in 1..n |-> 204]

Zeros(n) == [i \in 1..n |-> Zero]

\* fsFileWrite: extended with zeros to the end of what is written, even when
\* nothing is, and then overwritten.
Overwrite(data, off, buf) ==
  LET end == off + Len(buf)
  IN  [i \in 1..(IF Len(data) < end THEN end ELSE Len(data)) |->
         IF off < i /\ i <= end THEN buf[i - off]
         ELSE IF i <= Len(data) THEN data[i]
         ELSE Zero]

\* Room made for a write whose bytes never came.
Extend(data, end) ==
  [i \in 1..(IF Len(data) < end THEN end ELSE Len(data)) |->
     IF i <= Len(data) THEN data[i] ELSE Zero]

\* fsFileSetSize: cut, or extended with zeros.
Resize(data, n) == [i \in 1..n |-> IF i <= Len(data) THEN data[i] ELSE Zero]

\* Mutation: what is invented does not stop at the end of the file.
ReadCountUnbounded(node, off, n) ==
  LET held == IF off >= Len(node.data) THEN 0
              ELSE IF off + n < Len(node.data) THEN n
              ELSE Len(node.data) - off
  IN  IF held < n /\ node.size > off + held THEN n ELSE held

\* How many bytes fsFileRead hands over: those held from offset on, and past
\* them as many invented ones as the size has room for.
ReadCount(node, off, n) ==
  LET held == IF off >= Len(node.data) THEN 0
              ELSE IF off + n < Len(node.data) THEN n
              ELSE Len(node.data) - off
      room == node.size - off
  IN  IF held < n /\ node.size > off + held
      THEN IF n < room THEN n ELSE room
      ELSE held

-----------------------------------------------------------------------------
(* The mirror *)

\* written_files: what the target wrote and is still a file, to be taken in
\* the order of the spellings.
WrittenFiles(t, written) == {s \in written : IsFile(t, Split(s))}

\* Mutation: a load that takes the mods too.
TakenWithMods(m) == {h \in Path : IsFile(m, h)}

\* _load takes every file on the mirror but the mods.
TakenFiles(m) == {h \in Path : IsFile(m, h) /\ ~IsModInput(Guest(h))}

\* What the one is taken as takes the place of what the other is.
Covers(g, h) == Guest(g) = Guest(h) \/ Guest(g) \in Above(Guest(h))

\* A file cannot be taken as lying below another.
Clash(m) == \E g, h \in TakenFiles(m) : Guest(g) \in Above(Guest(h))

\* The host files that are left on the SD once all are taken: os.walk hands
\* them over in an order of the disk's, and of those that cover one another
\* the last one stays.
Loads(m) ==
  {kept \in SUBSET TakenFiles(m) :
     /\ \A g, h \in kept : Covers(g, h) => g = h
     /\ \A h \in TakenFiles(m) : \E k \in kept : Covers(k, h)}

\* _load: the SD with those files on it, and the directories they need.
LoadedOf(m, kept) ==
  [p \in Path |->
     IF \E h \in kept : Guest(h) = p THEN Whole(m[CHOOSE h \in kept : Guest(h) = p].data)
     ELSE IF \E h \in kept : p \in Above(Guest(h)) THEN Dir
     ELSE Absent]

\* Mutation: a fresh SD keeps nothing.
EmptyAltogether(mirror) == Empty

\* _empty_but_settings: bottom up, so that a directory left empty goes too.
EmptyButSettings(mirror) ==
  [p \in Path |->
     IF IsFile(mirror, SettingsIni) /\ p \in Above(SettingsIni) \cup {SettingsIni}
     THEN mirror[p] ELSE Absent]

=============================================================================
