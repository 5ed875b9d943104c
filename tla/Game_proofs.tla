---------------------------- MODULE Game_proofs ----------------------------
(***************************************************************************)
(* That a build which asks what is installed is told what the run reports, *)
(* that it reaches a whole family page by page, that two deliveries add up *)
(* to the mod asked for, that an update shows and that the tail of a game  *)
(* is laid down in order, for every set of titles, of command lines, every *)
(* size of an answer and every table of the game.                          *)
(***************************************************************************)
EXTENDS Game, WellFoundedInduction, FiniteSetTheorems, SequenceTheorems, TLAPS

-----------------------------------------------------------------------------
(* Numbers and finite orders *)

Below == {p \in Nat \X Nat : p[1] < p[2]}

\* The order of the naturals has no endless descent.
LEMMA BelowWellFounded == IsWellFoundedOn(Below, Nat)
  BY NatLessThanWellFounded DEF OpToRel, Below

\* Some naturals have a least one.
LEMMA LeastNatural ==
  ASSUME NEW T \in SUBSET Nat, T # {}
  PROVE  \E x \in T : \A y \in T : x <= y
<1>1. PICK x \in T : \A y \in T : <<y, x>> \notin Below
  BY BelowWellFounded, WFMin
<1>2. ASSUME NEW y \in T, ~(x <= y) PROVE FALSE
  <2>1. <<y, x>> \in Nat \X Nat /\ <<y, x>>[1] < <<y, x>>[2]
    BY <1>2
  <2> QED BY <2>1, <1>1, <1>2 DEF Below
<1> QED BY <1>1, <1>2

\* Some things of a finite set have one of the highest number.
LEMMA HighestOf ==
  ASSUME NEW S, IsFiniteSet(S), S # {}, NEW v, \A x \in S : v[x] \in Nat
  PROVE  \E x \in S : \A y \in S : v[y] <= v[x]
<1> DEFINE Above(x) == {y \in S : v[y] > v[x]}
           C == {Cardinality(Above(x)) : x \in S}
<1>1. \A x \in S : IsFiniteSet(Above(x)) /\ Cardinality(Above(x)) \in Nat
  <2> SUFFICES ASSUME NEW x \in S
               PROVE  IsFiniteSet(Above(x)) /\ Cardinality(Above(x)) \in Nat
    OBVIOUS
  <2>1. Above(x) \in SUBSET S
    OBVIOUS
  <2> HIDE DEF Above
  <2> QED BY <2>1, FS_Subset, FS_CardinalityType
<1>2. C \in SUBSET Nat /\ C # {}
  BY <1>1
<1>3. PICK c \in C : \A d \in C : c <= d
  <2> HIDE DEF C
  <2> QED BY ONLY <1>2, LeastNatural
<1>4. PICK x \in S : c = Cardinality(Above(x))
  BY <1>3
<1>5. ASSUME NEW y \in S, ~(v[y] <= v[x]) PROVE FALSE
  <2>1. y \in Above(x) /\ y \notin Above(y) /\ Above(y) \in SUBSET Above(x)
    BY <1>5
  <2>2. Above(y) # Above(x)
    BY <2>1
  <2>3. c <= Cardinality(Above(y))
    BY <1>3
  <2>4. /\ IsFiniteSet(Above(x)) /\ Cardinality(Above(x)) \in Nat
        /\ Cardinality(Above(y)) \in Nat
    BY <1>1
  <2> HIDE DEF Above, C
  <2>5. /\ Cardinality(Above(y)) <= Cardinality(Above(x))
        /\ Cardinality(Above(x)) = Cardinality(Above(y)) => Above(x) = Above(y)
    BY ONLY <2>1, <2>4, FS_Subset
  <2> QED BY <2>2, <2>3, <2>4, <2>5, <1>4
<1> QED BY <1>5

\* R puts the things of S one after the other.
Orders(R, S) ==
  /\ \A x \in S : <<x, x>> \notin R
  /\ \A x, y, z \in S : <<x, y>> \in R /\ <<y, z>> \in R => <<x, z>> \in R
  /\ \A x, y \in S : x = y \/ <<x, y>> \in R \/ <<y, x>> \in R

Before(R, S, x) == {y \in S : <<y, x>> \in R}

\* Of what comes before a thing there is less than of what comes before a later
\* one.
LEMMA RankGrows ==
  ASSUME NEW S, IsFiniteSet(S), NEW R, Orders(R, S), NEW x \in S, NEW y \in S,
         <<x, y>> \in R
  PROVE  Cardinality(Before(R, S, x)) < Cardinality(Before(R, S, y))
<1>1. /\ Before(R, S, x) \in SUBSET Before(R, S, y)
      /\ x \in Before(R, S, y) /\ x \notin Before(R, S, x)
      /\ Before(R, S, y) \in SUBSET S
  BY DEF Before, Orders
<1>2. IsFiniteSet(Before(R, S, y)) /\ Cardinality(Before(R, S, y)) \in Nat
  BY <1>1, FS_Subset, FS_CardinalityType
<1>3. /\ IsFiniteSet(Before(R, S, x)) /\ Cardinality(Before(R, S, x)) \in Nat
      /\ Cardinality(Before(R, S, x)) <= Cardinality(Before(R, S, y))
      /\ Cardinality(Before(R, S, y)) = Cardinality(Before(R, S, x))
           => Before(R, S, y) = Before(R, S, x)
  BY <1>1, <1>2, FS_Subset, FS_CardinalityType
<1> QED BY <1>1, <1>2, <1>3

\* A rank is below the number of things,
LEMMA RankType ==
  ASSUME NEW S, IsFiniteSet(S), NEW R, Orders(R, S), NEW x \in S
  PROVE  Cardinality(Before(R, S, x)) \in 0..(Cardinality(S) - 1)
<1>1. Before(R, S, x) \in SUBSET S /\ x \notin Before(R, S, x)
  BY DEF Before, Orders
<1>2. Cardinality(S) \in Nat /\ Cardinality(Before(R, S, x)) \in Nat
  BY <1>1, FS_Subset, FS_CardinalityType
<1>3. /\ Cardinality(Before(R, S, x)) <= Cardinality(S)
      /\ Cardinality(S) = Cardinality(Before(R, S, x)) => S = Before(R, S, x)
  BY <1>1, FS_Subset
<1> QED BY <1>1, <1>2, <1>3

\* and each number below it is the rank of one.
LEMMA EachRankIsOne ==
  ASSUME NEW S, IsFiniteSet(S), NEW R, Orders(R, S), NEW n \in 1..Cardinality(S)
  PROVE  \E x \in S : Cardinality(Before(R, S, x)) = n - 1
<1> DEFINE rank == [x \in S |-> Cardinality(Before(R, S, x))]
           T == 0..(Cardinality(S) - 1)
<1>1. Cardinality(S) \in Nat
  BY FS_CardinalityType
<1>2. rank \in [S -> T]
  BY RankType
<1>3. ASSUME NEW x \in S, NEW y \in S, x # y PROVE rank[x] # rank[y]
  <2>1. <<x, y>> \in R \/ <<y, x>> \in R
    BY <1>3 DEF Orders
  <2>2. CASE <<x, y>> \in R
    <3>1. Cardinality(Before(R, S, x)) < Cardinality(Before(R, S, y))
      BY <2>2, RankGrows
    <3>2. Cardinality(Before(R, S, x)) \in Int
      BY RankType
    <3> QED BY <3>1, <3>2
  <2>3. CASE <<y, x>> \in R
    <3>1. Cardinality(Before(R, S, y)) < Cardinality(Before(R, S, x))
      BY <2>3, RankGrows
    <3>2. Cardinality(Before(R, S, x)) \in Int
      BY RankType
    <3> QED BY <3>1, <3>2
  <2> QED BY <2>1, <2>2, <2>3
<1>4. rank \in Injection(S, T)
  <2> HIDE DEF rank
  <2> QED BY <1>2, <1>3 DEF Injection, IsInjective
<1>5. IsFiniteSet(T) /\ Cardinality(T) = Cardinality(S)
  <2>1. 0 \in Int /\ Cardinality(S) - 1 \in Int
    BY <1>1
  <2>2. /\ IsFiniteSet(T)
        /\ Cardinality(T) = IF 0 > Cardinality(S) - 1 THEN 0 ELSE (Cardinality(S) - 1) - 0 + 1
    BY <2>1, FS_Interval
  <2>3. CASE 0 > Cardinality(S) - 1
    BY <1>1, <2>2, <2>3
  <2>4. CASE ~(0 > Cardinality(S) - 1)
    BY <1>1, <2>2, <2>4
  <2> QED BY <2>3, <2>4
<1>6. rank \in Surjection(S, T)
  <2> HIDE DEF rank, T
  <2> QED BY <1>4, <1>5, FS_Injection
<1>7. n - 1 \in T
  BY <1>1
<1>8. PICK x \in S : rank[x] = n - 1
  <2> HIDE DEF rank, T
  <2> QED BY <1>6, <1>7 DEF Surjection
<1> QED BY <1>8

\* A multiple and less than one more is so in one way only.
LEMMA OneRemainder ==
  ASSUME NEW w \in Nat \ {0}, NEW p \in Nat, NEW q \in Nat,
         NEW r \in 0..(w - 1), NEW s \in 0..(w - 1),
         w * p + r = w * q + s
  PROVE  r = s /\ p = q
<1>1. \A x, y \in Nat : x < y => w * x + w <= w * y
  <2> SUFFICES ASSUME NEW x \in Nat, NEW y \in Nat, x < y
               PROVE  w * x + w <= w * y
    OBVIOUS
  <2>1. PICK d \in Nat : y = x + 1 + d
    <3>1. y - x - 1 \in Nat /\ y = x + 1 + (y - x - 1)
      OBVIOUS
    <3> QED BY <3>1
  <2>2. w * y = w * x + w + w * d
    BY <2>1
  <2>3. w * d >= 0
    OBVIOUS
  <2> QED BY <2>2, <2>3
<1>2. ~(p < q)
  <2>1. p < q => w * p + w <= w * q
    BY <1>1
  <2> QED BY <2>1
<1>3. ~(q < p)
  <2>1. q < p => w * q + w <= w * p
    BY <1>1
  <2> QED BY <2>1
<1>4. p = q
  BY <1>2, <1>3
<1> QED BY <1>4

-----------------------------------------------------------------------------
(* The invariant *)

Games == {id \in ProgramId : IsGameId(id)}

Key == [id : Nat, version : Nat, type : {"app", "patch", "add-on"}, install : {"full"}]
Entry == [key : Key, header : [application : Nat, patch : Nat]]

\* An entry installed for a game: where its id lies and whom its header names.
OfGame(e, game) ==
  /\ e.header.application = game
  /\ \/ /\ e.key.type = "app" /\ e.key.id = game
        /\ e.header.patch = game + PatchIdOffset
     \/ e.key.type = "patch" /\ e.key.id = game + PatchIdOffset /\ e.header.patch = 0
     \/ /\ e.key.type = "add-on" /\ e.header.patch = 0
        /\ \E i \in DlcIndex : e.key.id = game + AddOnContentIdOffset + i

EntriesAreOfGames ==
  /\ entries \in Seq(Entry)
  /\ \A i \in DOMAIN entries : \E game \in Games : OfGame(entries[i], game)

\* What a build has been told so far, against what is installed now.
ToldSoFar ==
  /\ told.stage \in {"game", "patch id", "version"} =>
       /\ HoldsContent(told.db)
       /\ told.key # None /\ told.key = get_latest(told.id)
  /\ told.stage \in {"patch id", "version"} =>
       told.patch = get_patch_id(told.id, told.key.type)
  /\ ToldIsReported

Family(app) == app .. (app + FamilySize - 1)

\* The ids of a family that lie below where the next page begins have been met,
\* and all of them once there is no next page.
ReadSoFar ==
  reading # NoReading =>
    /\ opened # <<>>
    /\ reading \in [app : ProgramId, db : Nat, from : Nat, seen : SUBSET Key, more : BOOLEAN]
    /\ reading.app % FamilySize = 0 =>
         {k.id : k \in reading.seen} =
           {k.id : k \in {l \in Keys : /\ l.id \in Family(reading.app)
                                       /\ reading.more => l.id < reading.from}}

\* What the run made of the command line, against what is installed now.
MadeAsAsked ==
  modded # None =>
    /\ modded.asked \in Asked /\ modded.base = modded.asked.base
    /\ IsAMod(modded.asked)
    /\ modded.version = launch_version(modded.id)
    /\ Versions(modded.id) = {modded.base}
    /\ Versions(modded.id + PatchIdOffset) =
         IF Patched(modded.asked) THEN {UpdateLevel * UpdateStep} ELSE {}
    /\ modded.loose = Deliveries(modded.asked).loose
    /\ modded.packed = Deliveries(modded.asked).packed

GInv ==
  /\ EntriesAreOfGames
  /\ opened \in Seq(Storage)
  /\ ToldSoFar
  /\ ReadSoFar
  /\ MadeAsAsked

-----------------------------------------------------------------------------
(* What is installed *)

LEMMA FamilySizeType ==
  FamilySize \in Nat \ {0} /\ PatchIdOffset \in Nat \ {0} /\ PatchIdOffset < FamilySize
  BY MetaAssumption

\* A game is above zero and so many whole families above it.
LEMMA GameIs ==
  ASSUME NEW game \in Nat, IsGameId(game)
  PROVE  game \div FamilySize \in Nat /\ game = FamilySize * (game \div FamilySize) + 0
<1>1. FamilySize \in Nat \ {0}
  BY FamilySizeType
<1>2. /\ game \div FamilySize \in Nat
      /\ game = FamilySize * (game \div FamilySize) + (game % FamilySize)
  BY <1>1
<1> QED BY <1>1, <1>2 DEF IsGameId

\* Two games and two distances within a family: the same id, the same of both.
LEMMA OneFamily ==
  ASSUME NEW g \in Nat, IsGameId(g), NEW h \in Nat, IsGameId(h),
         NEW r \in 0..(FamilySize - 1), NEW s \in 0..(FamilySize - 1),
         g + r = h + s
  PROVE  g = h /\ r = s
<1> DEFINE p == g \div FamilySize
           q == h \div FamilySize
<1>1. p \in Nat /\ q \in Nat /\ g = FamilySize * p /\ h = FamilySize * q
  <2>1. p \in Nat /\ q \in Nat /\ g = FamilySize * p + 0 /\ h = FamilySize * q + 0
    BY GameIs
  <2> HIDE DEF p, q
  <2>2. FamilySize * p \in Nat /\ FamilySize * q \in Nat
    BY <2>1, FamilySizeType
  <2> QED BY <2>1, <2>2
<1> HIDE DEF p, q
<1>2. FamilySize \in Nat \ {0} /\ FamilySize * p + r = FamilySize * q + s
  BY <1>1, FamilySizeType
<1>3. r = s /\ p = q
  BY ONLY <1>1, <1>2, r \in 0..(FamilySize - 1), s \in 0..(FamilySize - 1), OneRemainder
<1> QED BY <1>1, <1>3

\* How far above its game an entry of each type is.
LEMMA EntryIs ==
  ASSUME NEW e \in Entry, NEW game \in Games, OfGame(e, game)
  PROVE  /\ game \in ProgramId /\ game \in Nat \ {0} /\ IsGameId(game)
         /\ e.header.application = game
         /\ \E r \in 0..(FamilySize - 1) :
              /\ e.key.id = game + r
              /\ e.key.type = "app" <=> r = 0
              /\ e.key.type = "patch" <=> r = PatchIdOffset
              /\ e.header.patch = IF r = 0 THEN game + PatchIdOffset ELSE 0
<1>1. game \in ProgramId /\ game \in Nat \ {0} /\ IsGameId(game)
  BY MetaAssumption DEF Games
<1>2. e.header.application = game
  BY DEF OfGame
<1> DEFINE Far(r) == /\ e.key.id = game + r
                     /\ e.key.type = "app" <=> r = 0
                     /\ e.key.type = "patch" <=> r = PatchIdOffset
                     /\ e.header.patch = IF r = 0 THEN game + PatchIdOffset ELSE 0
<1>3. \E r \in 0..(FamilySize - 1) : Far(r)
  <2>1. CASE e.key.type = "app"
    <3>1. 0 \in 0..(FamilySize - 1) /\ 0 # PatchIdOffset
      BY FamilySizeType
    <3>2. e.key.id = game /\ e.header.patch = game + PatchIdOffset
      BY <2>1 DEF OfGame
    <3>3. Far(0)
      BY <1>1, <3>1, <3>2, <2>1
    <3> QED BY <3>1, <3>3
  <2>2. CASE e.key.type = "patch"
    <3>1. PatchIdOffset \in 0..(FamilySize - 1) /\ 0 # PatchIdOffset
      BY FamilySizeType
    <3>2. e.key.id = game + PatchIdOffset /\ e.header.patch = 0
      BY <2>2 DEF OfGame
    <3>3. Far(PatchIdOffset)
      BY <1>1, <3>1, <3>2, <2>2
    <3> QED BY <3>1, <3>3
  <2>3. CASE e.key.type = "add-on"
    <3>1. PICK i \in DlcIndex : e.key.id = game + AddOnContentIdOffset + i
      BY <2>3 DEF OfGame
    <3>2. e.header.patch = 0
      BY <2>3 DEF OfGame
    <3>3. i \in Nat /\ i > 0 /\ AddOnContentIdOffset + i < FamilySize
      BY MetaAssumption
    <3>4. /\ AddOnContentIdOffset \in Nat /\ PatchIdOffset \in Nat \ {0}
          /\ PatchIdOffset < AddOnContentIdOffset /\ FamilySize \in Nat
      BY MetaAssumption
    <3> DEFINE r == AddOnContentIdOffset + i
    <3>5. r \in 0..(FamilySize - 1) /\ r # 0 /\ r # PatchIdOffset
      BY <3>3, <3>4
    <3>6. e.key.id = game + r
      BY <1>1, <3>1, <3>3, <3>4
    <3> HIDE DEF r
    <3>7. Far(r)
      BY <3>2, <3>5, <3>6, <2>3
    <3> QED BY <3>5, <3>7
  <2>4. e.key.type \in {"app", "patch", "add-on"}
    BY DEF Entry, Key
  <2> QED BY <2>1, <2>2, <2>3, <2>4
<1> QED BY <1>1, <1>2, <1>3

\* An entry, and the game it is of.
LEMMA EntryAt ==
  ASSUME EntriesAreOfGames, NEW i \in DOMAIN entries
  PROVE  /\ entries[i] \in Entry
         /\ \E game \in Games : OfGame(entries[i], game)
<1>1. entries \in Seq(Entry)
  BY DEF EntriesAreOfGames
<1>2. entries[i] \in Entry
  BY <1>1, ElementOfSeq
<1> QED BY <1>2 DEF EntriesAreOfGames

LEMMA FiniteEntries ==
  ASSUME EntriesAreOfGames
  PROVE  /\ Len(entries) \in Nat /\ DOMAIN entries = 1..Len(entries)
         /\ IsFiniteSet(DOMAIN entries)
<1>1. Len(entries) \in Nat /\ DOMAIN entries = 1..Len(entries)
  BY DEF EntriesAreOfGames
<1>2. IsFiniteSet(1..Len(entries))
  BY <1>1, FS_Interval
<1> QED BY <1>1, <1>2

\* The latest key of an id is a key of that id, when there is one at all.
LEMMA LatestIs ==
  ASSUME EntriesAreOfGames, NEW id, get_latest(id) # None
  PROVE  /\ \E i \in DOMAIN entries : entries[i].key = get_latest(id)
         /\ get_latest(id).id = id
<1> DEFINE here == {k \in Keys : k.id = id /\ k.install = "full"}
           S == {i \in DOMAIN entries : entries[i].key \in here}
           v == [i \in DOMAIN entries |-> entries[i].key.version]
<1>1. here # {} /\ get_latest(id) = CHOOSE k \in here : \A other \in here : other.version <= k.version
  BY DEF get_latest
<1>2. S # {} /\ S \in SUBSET DOMAIN entries
  BY <1>1 DEF Keys
<1>3. IsFiniteSet(S)
  BY <1>2, FiniteEntries, FS_Subset
<1>4. \A i \in S : v[i] \in Nat
  BY EntryAt DEF Entry, Key
<1>5. PICK i \in S : \A j \in S : v[j] <= v[i]
  <2> HIDE DEF S, v
  <2> QED BY ONLY <1>2, <1>3, <1>4, HighestOf
<1>6. entries[i].key \in here /\ \A other \in here : other.version <= entries[i].key.version
  <2>1. ASSUME NEW other \in here PROVE other.version <= entries[i].key.version
    <3>1. PICK j \in DOMAIN entries : entries[j].key = other
      BY DEF Keys
    <3> QED BY <3>1, <1>5
  <2> QED BY <2>1
<1>7. get_latest(id) \in here
  <2> HIDE DEF here
  <2> QED BY <1>1, <1>6
<1> QED BY <1>7 DEF Keys

\* Nothing is installed at no id and at the id that means nobody.
LEMMA NoLatest ==
  ASSUME EntriesAreOfGames, NEW id, id \notin Nat \ {0}
  PROVE  get_latest(id) = None
<1> SUFFICES ASSUME get_latest(id) # None PROVE FALSE
  OBVIOUS
<1>1. PICK i \in DOMAIN entries : entries[i].key = get_latest(id)
  BY LatestIs
<1>2. get_latest(id).id = id
  BY LatestIs
<1>3. PICK game \in Games : OfGame(entries[i], game)
  BY EntryAt
<1>4. entries[i] \in Entry
  BY EntryAt
<1>5. game \in Nat \ {0} /\ \E r \in 0..(FamilySize - 1) : entries[i].key.id = game + r
  BY <1>3, <1>4, EntryIs
<1>6. FamilySize \in Nat
  BY FamilySizeType
<1> QED BY <1>1, <1>2, <1>5, <1>6

-----------------------------------------------------------------------------
(* A version, of three questions *)

\* The answer to the second question is read of an entry of that id and type.
LEMMA PatchIdIs ==
  ASSUME EntriesAreOfGames, NEW id, NEW type, get_patch_id(id, type) # None
  PROVE  \E i \in DOMAIN entries : /\ entries[i].key.id = id /\ entries[i].key.type = type
                                   /\ get_patch_id(id, type) = entries[i].header.patch
<1> DEFINE fits == {i \in DOMAIN entries : entries[i].key.id = id /\ entries[i].key.type = type}
<1>1. fits # {} /\ get_patch_id(id, type) = entries[Min(fits)].header.patch
  BY DEF get_patch_id
<1>2. fits \in SUBSET Nat
  BY FiniteEntries
<1>3. Min(fits) \in fits
  <2> HIDE DEF fits
  <2>1. \E x \in fits : \A y \in fits : x =< y
    BY <1>1, <1>2, LeastNatural
  <2> QED BY <2>1 DEF Min
<1> QED BY <1>1, <1>3

\* An id is a game's, an update's or an add-on content's and no two of these.
LEMMA OneTypeOfAnId ==
  ASSUME EntriesAreOfGames, NEW i \in DOMAIN entries, NEW j \in DOMAIN entries,
         entries[i].key.id = entries[j].key.id
  PROVE  entries[i].key.type = "app" <=> entries[j].key.type = "app"
<1>1. PICK g \in Games : OfGame(entries[i], g)
  BY EntryAt
<1>2. PICK h \in Games : OfGame(entries[j], h)
  BY EntryAt
<1>3. entries[i] \in Entry /\ entries[j] \in Entry
  BY EntryAt
<1>4. /\ g \in Nat \ {0} /\ IsGameId(g)
      /\ \E r \in 0..(FamilySize - 1) : /\ entries[i].key.id = g + r
                                        /\ entries[i].key.type = "app" <=> r = 0
  BY <1>1, <1>3, EntryIs
<1>5. /\ h \in Nat \ {0} /\ IsGameId(h)
      /\ \E r \in 0..(FamilySize - 1) : /\ entries[j].key.id = h + r
                                        /\ entries[j].key.type = "app" <=> r = 0
  BY <1>2, <1>3, EntryIs
<1>6. PICK r \in 0..(FamilySize - 1) : /\ entries[i].key.id = g + r
                                       /\ entries[i].key.type = "app" <=> r = 0
  BY <1>4
<1>7. PICK s \in 0..(FamilySize - 1) : /\ entries[j].key.id = h + s
                                       /\ entries[j].key.type = "app" <=> s = 0
  BY <1>5
<1>8. g + r = h + s
  BY <1>6, <1>7
<1>9. r = s
  BY ONLY <1>4, <1>5, <1>8, r \in 0..(FamilySize - 1), s \in 0..(FamilySize - 1), OneFamily
<1> QED BY <1>6, <1>7, <1>9

\* The version the run derives in one, of the answers a build is given in three.
LEMMA VersionIs ==
  ASSUME EntriesAreOfGames, NEW id, get_latest(id) # None
  PROVE  LET key == get_latest(id)
             update == get_latest(get_patch_id(key.id, key.type))
         IN launch_version(id) = IF update = None THEN key.version ELSE update.version
<1> DEFINE key == get_latest(id)
           p == get_patch_id(id, key.type)
           q == get_patch_id(id, "app")
<1>1. key.id = id
  BY LatestIs
<1>2. PICK i \in DOMAIN entries : entries[i].key = key
  BY LatestIs
<1>3. launch_version(id) =
        LET update == IF q = None THEN None ELSE get_latest(q)
        IN IF update = None THEN key.version ELSE update.version
  BY DEF launch_version
<1>4. get_latest(None) = None /\ get_latest(0) = None
  BY NoLatest, MetaAssumption
<1>5. CASE key.type = "app"
  <2>1. p = q
    BY <1>5
  <2>2. (IF q = None THEN None ELSE get_latest(q)) = get_latest(p)
    BY <2>1, <1>4
  <2> QED BY <2>2, <1>1, <1>3
<1>6. CASE key.type # "app"
  <2>1. q = None
    <3> SUFFICES ASSUME q # None PROVE FALSE
      OBVIOUS
    <3>1. PICK j \in DOMAIN entries : entries[j].key.id = id /\ entries[j].key.type = "app"
      BY PatchIdIs
    <3>2. entries[i].key.id = entries[j].key.id
      BY <1>1, <1>2, <3>1
    <3> QED BY <3>1, <3>2, <1>2, <1>6, OneTypeOfAnId
  <2>2. get_latest(p) = None
    <3>1. CASE p = None
      BY <3>1, <1>4
    <3>2. CASE p # None
      <4>1. PICK j \in DOMAIN entries : /\ entries[j].key.type = key.type
                                        /\ p = entries[j].header.patch
        BY <3>2, PatchIdIs
      <4>2. entries[j] \in Entry
        BY EntryAt
      <4>3. PICK g \in Games : OfGame(entries[j], g)
        BY EntryAt
      <4>4. \E r \in 0..(FamilySize - 1) :
              /\ entries[j].key.type = "app" <=> r = 0
              /\ entries[j].header.patch = IF r = 0 THEN g + PatchIdOffset ELSE 0
        BY <4>2, <4>3, EntryIs
      <4>5. p = 0
        BY <4>1, <4>4, <1>6
      <4> QED BY <4>5, <1>4
    <3> QED BY <3>1, <3>2
  <2>3. launch_version(id) = key.version
    BY <2>1, <1>3
  <2> QED BY <2>2, <2>3, <1>1
<1> QED BY <1>5, <1>6

-----------------------------------------------------------------------------
(* The steps *)

\* What is read of what is installed, while nothing is.
LEMMA SameEntries ==
  ASSUME entries' = entries
  PROVE  /\ EntriesAreOfGames => EntriesAreOfGames'
         /\ Keys' = Keys
         /\ \A id : get_latest(id)' = get_latest(id)
         /\ \A id, type : get_patch_id(id, type)' = get_patch_id(id, type)
         /\ \A id : launch_version(id)' = launch_version(id)
         /\ \A id : Versions(id)' = Versions(id)
<1>1. Keys' = Keys
  BY DEF Keys
<1>2. \A id : get_latest(id)' = get_latest(id)
  BY <1>1 DEF get_latest
<1>3. \A id, type : get_patch_id(id, type)' = get_patch_id(id, type)
  BY DEF get_patch_id
<1>4. \A id : launch_version(id)' = launch_version(id)
  BY <1>2, <1>3 DEF launch_version
<1>5. \A id : Versions(id)' = Versions(id)
  BY <1>1 DEF Versions
<1>6. EntriesAreOfGames => EntriesAreOfGames'
  BY DEF EntriesAreOfGames
<1> QED BY <1>1, <1>2, <1>3, <1>4, <1>5, <1>6

\* Nothing has been asked of what is being installed.
LEMMA NothingAskedYet ==
  ASSUME Installing, ToldSoFar, ReadSoFar
  PROVE  /\ told.stage \notin {"game", "patch id", "version"}
         /\ reading = NoReading
<1>1. ASSUME told.stage \in {"game", "patch id", "version"} PROVE FALSE
  <2>1. told.db \in DOMAIN opened
    BY <1>1 DEF ToldSoFar, HoldsContent
  <2>2. opened = <<>>
    BY DEF Installing
  <2>3. DOMAIN opened = {}
    BY <2>2
  <2> QED BY <2>1, <2>3
<1>2. reading = NoReading
  BY DEF Installing, ReadSoFar
<1> QED BY <1>1, <1>2

\* A title put in is an entry of its game, and takes the place it had.
LEMMA SetKeeps ==
  ASSUME EntriesAreOfGames, NEW key \in Key, NEW header \in [application : Nat, patch : Nat],
         NEW game \in Games, OfGame([key |-> key, header |-> header], game),
         Set(key, header)
  PROVE  EntriesAreOfGames'
<1> DEFINE e == [key |-> key, header |-> header]
           here == {i \in DOMAIN entries : entries[i].key = key}
<1>1. e \in Entry /\ OfGame(e, game)
  BY DEF Entry
<1>2. entries' = IF here = {} THEN Append(entries, e)
                 ELSE [i \in DOMAIN entries |-> IF i \in here THEN e ELSE entries[i]]
  BY DEF Set
<1>3. /\ entries \in Seq(Entry) /\ Len(entries) \in Nat /\ DOMAIN entries = 1..Len(entries)
      /\ \A i \in DOMAIN entries : entries[i] \in Entry
      /\ \A i \in DOMAIN entries : \E g \in Games : OfGame(entries[i], g)
  BY EntryAt, FiniteEntries DEF EntriesAreOfGames
<1> HIDE DEF e, here
<1>4. CASE here = {}
  <2>1. entries' = Append(entries, e)
    BY <1>2, <1>4
  <2>2. /\ entries' \in Seq(Entry) /\ Len(entries') = Len(entries) + 1
        /\ DOMAIN entries' = 1..(Len(entries) + 1)
    BY ONLY <1>1, <1>3, <2>1, AppendProperties
  <2>3. \A i \in 1..(Len(entries) + 1) :
          entries'[i] = IF i <= Len(entries) THEN entries[i] ELSE e
    BY ONLY <1>1, <1>3, <2>1, AppendProperties
  <2>4. ASSUME NEW i \in DOMAIN entries' PROVE \E g \in Games : OfGame(entries'[i], g)
    <3>1. CASE i <= Len(entries)
      <4>1. i \in DOMAIN entries /\ entries'[i] = entries[i]
        BY <2>2, <2>3, <2>4, <3>1, <1>3
      <4> QED BY <4>1, <1>3
    <3>2. CASE ~(i <= Len(entries))
      <4>1. entries'[i] = e
        BY <2>2, <2>3, <2>4, <3>2
      <4> QED BY <4>1, <1>1
    <3> QED BY <3>1, <3>2
  <2> QED BY <2>2, <2>4 DEF EntriesAreOfGames
<1>5. CASE here # {}
  <2>1. entries' = [i \in 1..Len(entries) |-> IF i \in here THEN e ELSE entries[i]]
    BY <1>2, <1>3, <1>5
  <2>2. entries' \in [1..Len(entries) -> Entry]
    BY <2>1, <1>1, <1>3
  <2>3. entries' \in Seq(Entry)
    BY <2>2, <1>3, SeqDef
  <2>4. \A i \in DOMAIN entries' : \E g \in Games : OfGame(entries'[i], g)
    BY <2>1, <1>1, <1>3
  <2> QED BY <2>3, <2>4 DEF EntriesAreOfGames
<1> QED BY <1>4, <1>5

LEMMA PutKeeps ==
  ASSUME EntriesAreOfGames, NEW game \in Games, NEW id \in Nat, NEW version \in Nat,
         NEW type \in {"app", "patch", "add-on"}, NEW application \in {0, game},
         \/ type = "app" /\ id = game
         \/ type = "patch" /\ id = game + PatchIdOffset
         \/ /\ type = "add-on" /\ application = game
            /\ \E i \in DlcIndex : id = game + AddOnContentIdOffset + i,
         Put(id, version, type, application)
  PROVE  /\ EntriesAreOfGames' /\ Installing
         /\ UNCHANGED <<opened, told, reading>>
<1> DEFINE key == [id |-> id, version |-> version, type |-> type, install |-> "full"]
           header == HeaderOf(key, application)
<1>1. Installing /\ UNCHANGED <<opened, told, reading>> /\ Set(key, header)
  BY DEF Put
<1>2. key \in Key
  BY DEF Key
<1>3. game \in Nat /\ PatchIdOffset \in Nat
  BY MetaAssumption DEF Games
<1>4. /\ header \in [application : Nat, patch : Nat]
      /\ OfGame([key |-> key, header |-> header], game)
  <2>1. CASE type = "app"
    <3>1. header = [application |-> game, patch |-> game + PatchIdOffset]
      BY <2>1 DEF HeaderOf
    <3> QED BY <3>1, <1>3, <2>1 DEF OfGame
  <2>2. CASE type = "patch"
    <3>1. id = game + PatchIdOffset /\ header = [application |-> id - PatchIdOffset, patch |-> 0]
      BY <2>2 DEF HeaderOf
    <3>2. id - PatchIdOffset = game
      BY <3>1, <1>3
    <3> QED BY <3>1, <3>2, <1>3, <2>2 DEF OfGame
  <2>3. CASE type = "add-on"
    <3>1. header = [application |-> game, patch |-> 0]
      BY <2>3 DEF HeaderOf
    <3> QED BY <3>1, <1>3, <2>3 DEF OfGame
  <2> QED BY <2>1, <2>2, <2>3
<1> HIDE DEF key, header
<1> QED BY <1>1, <1>2, <1>4, SetKeeps

LEMMA InstallKeeps ==
  ASSUME EntriesAreOfGames, Install
  PROVE  /\ EntriesAreOfGames' /\ Installing
         /\ UNCHANGED <<opened, told, reading>>
<1>0. /\ UpdateStep \in Nat /\ Level \subseteq Nat /\ Mark \subseteq Nat /\ DlcIndex \subseteq Nat
      /\ PatchIdOffset \in Nat /\ AddOnContentIdOffset \in Nat /\ ProgramId \subseteq Nat
  BY MetaAssumption
<1>1. ASSUME NEW id \in ProgramId, NEW level \in Level, NEW mark \in Mark, AddGame(id, level, mark)
      PROVE  EntriesAreOfGames' /\ Installing /\ UNCHANGED <<opened, told, reading>>
  <2>1. id \in Games /\ id \in Nat /\ level * UpdateStep + mark \in Nat
    BY <1>0, <1>1 DEF AddGame, Games
  <2>2. Put(id, level * UpdateStep + mark, "app", 0)
    BY <1>1 DEF AddGame, InvalidApplicationId
  <2> QED BY <2>1, <2>2, PutKeeps
<1>2. ASSUME NEW id \in ProgramId, NEW level \in Level, AddUpdate(id, level)
      PROVE  EntriesAreOfGames' /\ Installing /\ UNCHANGED <<opened, told, reading>>
  <2>1. id \in Games /\ id + PatchIdOffset \in Nat /\ level * UpdateStep \in Nat
    BY <1>0, <1>2 DEF AddUpdate, Games
  <2>2. Put(id + PatchIdOffset, level * UpdateStep, "patch", 0)
    BY <1>2 DEF AddUpdate, InvalidApplicationId
  <2> QED BY <2>1, <2>2, PutKeeps
<1>3. ASSUME NEW id \in ProgramId, NEW index \in DlcIndex, NEW level \in Level,
             AddDlc(id, index, level)
      PROVE  EntriesAreOfGames' /\ Installing /\ UNCHANGED <<opened, told, reading>>
  <2>1. /\ id \in Games /\ id + AddOnContentIdOffset + index \in Nat
        /\ level * UpdateStep \in Nat
    BY <1>0, <1>3 DEF AddDlc, Games
  <2>2. Put(id + AddOnContentIdOffset + index, level * UpdateStep, "add-on", id)
    BY <1>3 DEF AddDlc
  <2> QED BY <2>1, <2>2, PutKeeps
<1> QED BY <1>1, <1>2, <1>3 DEF Install

-----------------------------------------------------------------------------
(* A list, and a page of it *)

\* A list holds the keys its filters admit, each where its id and then its place
\* in the store put it.
LEMMA ListIs ==
  ASSUME EntriesAreOfGames, NEW type, NEW application, NEW from, NEW install
  PROVE  LET keys == list_content_meta(type, application, from, install)
             admitted == {i \in DOMAIN entries :
                            Admits(entries[i], type, application, from, install)}
         IN /\ keys \in Seq(Key)
            /\ \A i \in admitted : \E n \in 1..Len(keys) : keys[n] = entries[i].key
            /\ \A n \in 1..Len(keys) : \E i \in admitted : keys[n] = entries[i].key
            /\ \A m, n \in 1..Len(keys) : m <= n => keys[m].id <= keys[n].id
<1> DEFINE admitted == {i \in DOMAIN entries :
                          Admits(entries[i], type, application, from, install)}
           R == {p \in admitted \X admitted :
                   \/ entries[p[1]].key.id < entries[p[2]].key.id
                   \/ entries[p[1]].key.id = entries[p[2]].key.id /\ p[1] < p[2]}
           nth(n) == CHOOSE i \in admitted : Cardinality(Before(R, admitted, i)) = n - 1
           keys == [n \in 1..Cardinality(admitted) |-> entries[nth(n)].key]
<1>1. keys = list_content_meta(type, application, from, install)
  <2> DEFINE before(i) == {j \in admitted :
                             \/ entries[j].key.id < entries[i].key.id
                             \/ entries[j].key.id = entries[i].key.id /\ j < i}
             first(n) == CHOOSE i \in admitted : Cardinality(before(i)) = n - 1
  <2>1. \A i \in admitted : before(i) = Before(R, admitted, i)
    BY DEF Before
  <2>2. \A n : first(n) = nth(n)
    <3> HIDE DEF before, R, admitted
    <3> QED BY <2>1
  <2>3. [n \in 1..Cardinality(admitted) |-> entries[first(n)].key] = keys
    <3> HIDE DEF first, nth, admitted
    <3> QED BY <2>2
  <2> QED BY <2>3 DEF list_content_meta
<1>2. /\ IsFiniteSet(admitted) /\ Cardinality(admitted) \in Nat
      /\ \A i \in admitted : i \in Nat /\ entries[i].key \in Key /\ entries[i].key.id \in Nat
  <2>1. admitted \in SUBSET DOMAIN entries /\ IsFiniteSet(DOMAIN entries)
        /\ DOMAIN entries \subseteq Nat
    BY FiniteEntries
  <2>2. \A i \in DOMAIN entries : entries[i].key \in Key /\ entries[i].key.id \in Nat
    BY EntryAt DEF Entry, Key
  <2> HIDE DEF admitted
  <2> QED BY <2>1, <2>2, FS_Subset, FS_CardinalityType
<1>3. Orders(R, admitted)
  <2> HIDE DEF admitted
  <2> QED BY <1>2 DEF Orders
<1>4. ASSUME NEW n \in 1..Cardinality(admitted)
      PROVE  nth(n) \in admitted /\ Cardinality(Before(R, admitted, nth(n))) = n - 1
  <2> HIDE DEF R, admitted
  <2>1. \E i \in admitted : Cardinality(Before(R, admitted, i)) = n - 1
    BY <1>2, <1>3, EachRankIsOne
  <2> QED BY <2>1
<1>5. \A x, y \in admitted : <<x, y>> \in R =>
        Cardinality(Before(R, admitted, x)) < Cardinality(Before(R, admitted, y))
  <2> HIDE DEF R, admitted
  <2> QED BY <1>2, <1>3, RankGrows
<1>6. \A x \in admitted :
        Cardinality(Before(R, admitted, x)) \in 0..(Cardinality(admitted) - 1)
  <2> HIDE DEF R, admitted
  <2> QED BY <1>2, <1>3, RankType
<1>7. ASSUME NEW i \in admitted
      PROVE  \E n \in 1..Cardinality(admitted) : nth(n) = i
  <2> DEFINE n == Cardinality(Before(R, admitted, i)) + 1
  <2>1. n \in 1..Cardinality(admitted) /\ n - 1 = Cardinality(Before(R, admitted, i))
    BY <1>2, <1>6
  <2>2. nth(n) \in admitted /\ Cardinality(Before(R, admitted, nth(n))) = n - 1
    <3> HIDE DEF n, nth, R, admitted
    <3> QED BY <1>4, <2>1
  <2>3. nth(n) = i \/ <<nth(n), i>> \in R \/ <<i, nth(n)>> \in R
    <3> HIDE DEF n, nth, R, admitted
    <3> QED BY <1>3, <2>2 DEF Orders
  <2> HIDE DEF n, nth, R, admitted
  <2>4. nth(n) = i
    BY <2>1, <2>2, <2>3, <1>5, <1>6
  <2> QED BY <2>1, <2>4
<1>8. Len(keys) = Cardinality(admitted) /\ keys \in Seq(Key)
  <2>1. keys \in [1..Cardinality(admitted) -> Key]
    <3> HIDE DEF nth, R, admitted
    <3> QED BY <1>2, <1>4
  <2> HIDE DEF keys, admitted
  <2> QED BY <1>2, <2>1, SeqDef, LenProperties
<1>9. ASSUME NEW m \in 1..Cardinality(admitted), NEW n \in 1..Cardinality(admitted), m <= n
      PROVE  entries[nth(m)].key.id <= entries[nth(n)].key.id
  <2> DEFINE x == nth(m)
             y == nth(n)
  <2>1. /\ x \in admitted /\ Cardinality(Before(R, admitted, x)) = m - 1
        /\ y \in admitted /\ Cardinality(Before(R, admitted, y)) = n - 1
    <3> HIDE DEF nth, R, admitted
    <3> QED BY <1>4
  <2> HIDE DEF x, y
  <2>2. entries[x].key.id \in Nat /\ entries[y].key.id \in Nat
    <3> HIDE DEF admitted
    <3> QED BY <2>1, <1>2
  <2>3. <<y, x>> \notin R
    <3> HIDE DEF R, admitted
    <3> QED BY <2>1, <1>5, <1>9
  <2>4. entries[y].key.id < entries[x].key.id => <<y, x>> \in R
    <3> HIDE DEF admitted
    <3> QED BY <2>1
  <2>5. entries[x].key.id <= entries[y].key.id
    BY <2>2, <2>3, <2>4
  <2> QED BY <2>5 DEF x, y
<1>10. \A n \in 1..Cardinality(admitted) : keys[n] = entries[nth(n)].key
  OBVIOUS
<1> DEFINE Is(k) == /\ k \in Seq(Key)
                    /\ \A i \in admitted : \E n \in 1..Len(k) : k[n] = entries[i].key
                    /\ \A n \in 1..Len(k) : \E i \in admitted : k[n] = entries[i].key
                    /\ \A m, n \in 1..Len(k) : m <= n => k[m].id <= k[n].id
<1>11. Is(keys)
  <2> HIDE DEF keys, nth, R, admitted
  <2>1. \A i \in admitted : \E n \in 1..Len(keys) : keys[n] = entries[i].key
    BY <1>7, <1>8, <1>10
  <2>2. \A n \in 1..Len(keys) : \E i \in admitted : keys[n] = entries[i].key
    BY <1>4, <1>8, <1>10
  <2>3. \A m, n \in 1..Len(keys) : m <= n => keys[m].id <= keys[n].id
    BY <1>8, <1>9, <1>10
  <2> QED BY <1>8, <2>1, <2>2, <2>3
<1>12. Is(list_content_meta(type, application, from, install))
  <2> HIDE DEF Is, keys
  <2> QED BY <1>1, <1>11
<1> QED BY <1>12

\* What a list of an application admits is its family, from there on.
LEMMA AdmitsFamily ==
  ASSUME EntriesAreOfGames, NEW i \in DOMAIN entries, NEW app \in ProgramId,
         app % FamilySize = 0, NEW from \in Nat
  PROVE  Admits(entries[i], "any", app, from, "full")
           <=> entries[i].key.id \in Family(app) /\ from <= entries[i].key.id
<1>1. PICK g \in Games : OfGame(entries[i], g)
  BY EntryAt
<1>2. entries[i] \in Entry
  BY EntryAt
<1>3. /\ g \in Nat \ {0} /\ IsGameId(g) /\ entries[i].header.application = g
      /\ \E r \in 0..(FamilySize - 1) : entries[i].key.id = g + r
  BY <1>1, <1>2, EntryIs
<1>4. PICK r \in 0..(FamilySize - 1) : entries[i].key.id = g + r
  BY <1>3
<1>5. app \in Nat \ {0} /\ IsGameId(app) /\ FamilySize \in Nat \ {0}
  BY MetaAssumption DEF IsGameId
<1>6. Admits(entries[i], "any", app, from, "full") <=> from <= entries[i].key.id /\ g = app
  <2>1. entries[i].key.install = "full"
    BY <1>2 DEF Entry, Key
  <2> QED BY <2>1, <1>3, <1>5 DEF Admits, InvalidApplicationId
<1>7. g = app => entries[i].key.id \in Family(app)
  BY <1>3, <1>4, <1>5 DEF Family
<1>8. ASSUME entries[i].key.id \in Family(app) PROVE g = app
  <2> DEFINE s == entries[i].key.id - app
  <2>1. s \in 0..(FamilySize - 1) /\ g + r = app + s
    BY <1>3, <1>4, <1>5, <1>8 DEF Family
  <2> HIDE DEF s
  <2> QED BY ONLY <2>1, <1>3, <1>5, r \in 0..(FamilySize - 1), OneFamily
<1> QED BY <1>6, <1>7, <1>8

\* A page less than the whole list ends inside a run of versions of one id: that
\* id has been met, and what is left out lies at it or above.
LEMMA PageKeeps ==
  ASSUME EntriesAreOfGames, ReadSoFar, opened \in Seq(Storage), ReadPage
  PROVE  ReadSoFar'
<1> DEFINE app == reading.app
           from == reading.from
           keys == list_content_meta("any", app, from, "full")
           c == Min({Len(keys), PageSize})
           page == SubSeq(keys, 1, c)
<1>1. /\ reading # NoReading /\ reading.more /\ opened # <<>>
      /\ reading \in [app : ProgramId, db : Nat, from : Nat, seen : SUBSET Key, more : BOOLEAN]
      /\ app % FamilySize = 0 =>
           {k.id : k \in reading.seen} =
             {k.id : k \in {l \in Keys : /\ l.id \in Family(app)
                                         /\ reading.more => l.id < from}}
  BY DEF ReadPage, ReadSoFar
<1>2. /\ reading' = [reading EXCEPT
           !.seen = @ \cup ToSet(page),
           !.more = Len(page) < Len(keys),
           !.from = IF page = <<>> THEN @ ELSE Last(page).id + 1]
      /\ entries' = entries /\ opened' = opened
  BY DEF ReadPage, vars
<1>3. /\ keys \in Seq(Key)
      /\ \A i \in DOMAIN entries : Admits(entries[i], "any", app, from, "full") =>
           \E n \in 1..Len(keys) : keys[n] = entries[i].key
      /\ \A n \in 1..Len(keys) : \E i \in DOMAIN entries :
           Admits(entries[i], "any", app, from, "full") /\ keys[n] = entries[i].key
      /\ \A m, n \in 1..Len(keys) : m <= n => keys[m].id <= keys[n].id
  <2> DEFINE admitted == {i \in DOMAIN entries : Admits(entries[i], "any", app, from, "full")}
  <2>1. /\ keys \in Seq(Key)
        /\ \A i \in admitted : \E n \in 1..Len(keys) : keys[n] = entries[i].key
        /\ \A n \in 1..Len(keys) : \E i \in admitted : keys[n] = entries[i].key
        /\ \A m, n \in 1..Len(keys) : m <= n => keys[m].id <= keys[n].id
    <3> HIDE DEF app, from
    <3> QED BY ListIs
  <2> HIDE DEF keys, app, from
  <2> QED BY <2>1
<1>4. Len(keys) \in Nat /\ PageSize \in Nat \ {0}
  <2> HIDE DEF keys
  <2> QED BY <1>3, MetaAssumption
<1>5. /\ c \in 0..Len(keys)
      /\ c < Len(keys) => c \in 1..Len(keys)
  <2> HIDE DEF keys
  <2>1. c \in {Len(keys), PageSize} /\ \A y \in {Len(keys), PageSize} : c <= y
    <3>1. \E x \in {Len(keys), PageSize} : \A y \in {Len(keys), PageSize} : x =< y
      <4>1. CASE Len(keys) <= PageSize
        BY <4>1, <1>4
      <4>2. CASE ~(Len(keys) <= PageSize)
        BY <4>2, <1>4
      <4> QED BY <4>1, <4>2
    <3> QED BY <3>1 DEF Min
  <2> HIDE DEF c
  <2> QED BY <2>1, <1>4
<1> HIDE DEF c, keys
<1>6. /\ page \in Seq(Key) /\ Len(page) = c /\ DOMAIN page = 1..c
      /\ \A n \in 1..c : page[n] = keys[n]
  BY <1>3, <1>4, <1>5, SubSeqProperties
<1>7. ToSet(page) = {keys[n] : n \in 1..c}
  <2> HIDE DEF page
  <2> QED BY <1>6 DEF ToSet
<1>8. ASSUME c < Len(keys) PROVE page # <<>> /\ Last(page) = keys[c]
  <2>1. c \in 1..Len(keys) /\ c \in 1..c
    BY <1>5, <1>8
  <2> HIDE DEF page
  <2>2. page # <<>>
    BY <1>6, <2>1
  <2> QED BY <2>1, <2>2, <1>6 DEF Last
<1> HIDE DEF page
<1>9. \A n \in 1..Len(keys) : keys[n] \in Key /\ keys[n].id \in Nat
  <2>1. \A n \in 1..Len(keys) : keys[n] \in Key
    BY <1>3, ElementOfSeq
  <2> QED BY <2>1 DEF Key
<1>10. /\ reading' \in [app : ProgramId, db : Nat, from : Nat, seen : SUBSET Key, more : BOOLEAN]
       /\ reading'.app = app /\ reading'.seen = reading.seen \cup {keys[n] : n \in 1..c}
       /\ reading'.more = (c < Len(keys))
       /\ c < Len(keys) => reading'.from = keys[c].id + 1
  <2>1. {keys[n] : n \in 1..c} \subseteq Key
    BY <1>5, <1>9, <1>4
  <2>2. (IF page = <<>> THEN from ELSE Last(page).id + 1) \in Nat
    <3>1. ASSUME page # <<>> PROVE Last(page).id + 1 \in Nat
      <4>1. c \in 1..Len(keys)
        <5>1. c # 0
          BY <1>6, <3>1, EmptySeq
        <5> QED BY <5>1, <1>4, <1>5
      <4>2. Last(page) = keys[c]
        BY <1>6, <3>1, <4>1, <1>4 DEF Last
      <4> QED BY <4>1, <4>2, <1>9
    <3>2. from \in Nat
      BY <1>1
    <3> QED BY <3>1, <3>2
  <2>3. c < Len(keys) => (IF page = <<>> THEN from ELSE Last(page).id + 1) = keys[c].id + 1
    BY <1>8
  <2>4. (Len(page) < Len(keys)) = (c < Len(keys)) /\ (c < Len(keys)) \in BOOLEAN
    BY <1>6
  <2>5. reading' = [reading EXCEPT !.seen = @ \cup {keys[n] : n \in 1..c},
                                   !.more = (c < Len(keys)),
                                   !.from = IF page = <<>> THEN @ ELSE Last(page).id + 1]
    BY <1>2, <1>7, <2>4
  <2> DEFINE next == IF page = <<>> THEN from ELSE Last(page).id + 1
             got == {keys[n] : n \in 1..c}
  <2>6. reading' = [reading EXCEPT !.seen = @ \cup got, !.more = (c < Len(keys)), !.from = next]
    BY <2>5
  <2> HIDE DEF next, got
  <2>7. got \subseteq Key /\ next \in Nat /\ (c < Len(keys) => next = keys[c].id + 1)
    BY <2>1, <2>2, <2>3 DEF next, got
  <2>8. /\ reading' \in [app : ProgramId, db : Nat, from : Nat, seen : SUBSET Key, more : BOOLEAN]
        /\ reading'.app = app /\ reading'.seen = reading.seen \cup got
        /\ reading'.more = (c < Len(keys)) /\ reading'.from = next
    BY ONLY <1>1, <2>4, <2>6, <2>7
  <2> QED BY <2>7, <2>8 DEF got
<1>11. ASSUME app % FamilySize = 0
       PROVE  {k.id : k \in reading'.seen} =
                {k.id : k \in {l \in Keys : /\ l.id \in Family(app)
                                            /\ reading'.more => l.id < reading'.from}}
  <2> DEFINE L == {k.id : k \in reading'.seen}
             R == {k.id : k \in {l \in Keys : /\ l.id \in Family(app)
                                              /\ reading'.more => l.id < reading'.from}}
             O == {k.id : k \in {l \in Keys : /\ l.id \in Family(app) /\ l.id < from}}
  <2>1. {k.id : k \in reading.seen} = O
    BY <1>1, <1>11
  <2>2. \A i \in DOMAIN entries : Admits(entries[i], "any", app, from, "full")
           <=> entries[i].key.id \in Family(app) /\ from <= entries[i].key.id
    <3>1. app \in ProgramId /\ from \in Nat
      BY <1>1
    <3> HIDE DEF app, from
    <3> QED BY <3>1, <1>11, AdmitsFamily
  <2>3. \A i \in DOMAIN entries : entries[i].key \in Keys /\ entries[i].key.id \in Nat
    BY EntryAt DEF Keys, Entry, Key
  <2>4. \A k \in Keys : \E i \in DOMAIN entries : entries[i].key = k
    BY DEF Keys
  <2>5. from \in Nat
    BY <1>1
  <2> HIDE DEF app, from
  <2>6. ASSUME NEW n \in 1..Len(keys)
        PROVE  keys[n] \in Keys /\ keys[n].id \in Family(app) /\ from <= keys[n].id
    BY <1>3, <2>2, <2>3
  <2>7. ASSUME NEW k \in reading'.seen PROVE k.id \in R
    <3>1. CASE k \in reading.seen
      <4>1. k.id \in O
        BY <2>1, <3>1
      <4>2. PICK l \in Keys : l.id = k.id /\ l.id \in Family(app) /\ l.id < from
        BY <4>1
      <4>3. reading'.more => l.id < reading'.from
        <5>1. SUFFICES ASSUME c < Len(keys) PROVE l.id < keys[c].id + 1
          BY <1>10
        <5>2. c \in 1..Len(keys)
          BY <5>1, <1>5
        <5>3. from <= keys[c].id /\ keys[c].id \in Nat /\ l.id \in Nat
          BY <5>2, <2>6, <1>9, <2>3, <2>4
        <5> QED BY <5>3, <4>2, <2>5
      <4> QED BY <4>2, <4>3
    <3>2. CASE k \notin reading.seen
      <4>1. PICK n \in 1..c : k = keys[n]
        BY <3>2, <1>10, <2>7
      <4>2. n \in 1..Len(keys)
        BY <1>4, <1>5
      <4>3. k \in Keys /\ k.id \in Family(app)
        BY <4>1, <4>2, <2>6
      <4>4. reading'.more => k.id < reading'.from
        <5>1. SUFFICES ASSUME c < Len(keys) PROVE k.id < keys[c].id + 1
          BY <1>10
        <5>2. c \in 1..Len(keys) /\ n <= c
          BY <5>1, <1>5, <4>1
        <5>3. keys[n].id <= keys[c].id /\ keys[c].id \in Nat /\ keys[n].id \in Nat
          BY <5>2, <4>2, <1>3, <1>9
        <5> QED BY <5>3, <4>1
      <4> QED BY <4>3, <4>4
    <3> QED BY <3>1, <3>2
  <2>8. ASSUME NEW l \in Keys, l.id \in Family(app), reading'.more => l.id < reading'.from
        PROVE  l.id \in L
    <3>1. PICK i \in DOMAIN entries : entries[i].key = l
      BY <2>4
    <3>2. l.id \in Nat
      BY <3>1, <2>3
    <3>3. CASE l.id < from
      <4>1. l.id \in O
        BY <3>3, <2>8
      <4>2. PICK k \in reading.seen : k.id = l.id
        BY <4>1, <2>1
      <4> QED BY <4>2, <1>10
    <3>4. CASE ~(l.id < from)
      <4>1. Admits(entries[i], "any", app, from, "full")
        BY <3>1, <3>2, <3>4, <2>2, <2>5, <2>8
      <4>2. PICK n \in 1..Len(keys) : keys[n] = l
        BY <4>1, <3>1, <1>3
      <4>3. CASE n <= c
        <5>1. n \in 1..c
          BY <4>3, <1>5, <1>4
        <5>2. l \in reading'.seen
          BY <5>1, <4>2, <1>10
        <5> QED BY <5>2
      <4>4. CASE ~(n <= c)
        <5>1. c < Len(keys) /\ c <= n
          BY <4>4, <1>4, <1>5
        <5>2. c \in 1..Len(keys) /\ c \in 1..c
          BY <5>1, <1>5
        <5>3. keys[c].id <= keys[n].id /\ keys[c].id \in Nat /\ keys[n].id < keys[c].id + 1
          BY <5>1, <5>2, <1>3, <1>9, <1>10, <2>8, <4>2
        <5>4. keys[c].id = l.id
          BY <5>3, <4>2, <3>2
        <5>5. keys[c] \in reading'.seen
          BY <5>2, <1>10
        <5> QED BY <5>4, <5>5
      <4> QED BY <4>3, <4>4
    <3> QED BY <3>3, <3>4
  <2>9. \A x \in L : x \in R
    <3> HIDE DEF R
    <3> QED BY <2>7
  <2>10. \A x \in R : x \in L
    <3> HIDE DEF L
    <3> QED BY <2>8
  <2>11. L = R
    <3> HIDE DEF L, R
    <3>1. L \subseteq R /\ R \subseteq L
      BY <2>9, <2>10
    <3> QED BY <3>1
  <2> QED BY <2>11
<1>12. Keys' = Keys
  BY <1>2, SameEntries
<1> QED BY <1>1, <1>2, <1>10, <1>11, <1>12 DEF ReadSoFar

-----------------------------------------------------------------------------
(* The invariance *)

LEMMA InitKeeps == GameInit => GInv
<1> SUFFICES ASSUME GameInit PROVE GInv
  OBVIOUS
<1>1. /\ entries = <<>> /\ opened = <<>> /\ told.stage = "none" /\ reading = NoReading
      /\ modded = None
  BY DEF GameInit, Init, NothingTold
<1>2. EntriesAreOfGames
  BY <1>1 DEF EntriesAreOfGames
<1>3. ToldSoFar
  BY <1>1 DEF ToldSoFar, ToldIsReported
<1>4. ReadSoFar /\ MadeAsAsked /\ opened \in Seq(Storage)
  BY <1>1 DEF ReadSoFar, MadeAsAsked
<1> QED BY <1>2, <1>3, <1>4 DEF GInv

\* What has been told stays so while nothing is installed and handles are only
\* added to.
LEMMA ToldStays ==
  ASSUME ToldSoFar, entries' = entries, told' = told,
         \A db : HoldsContent(db) => HoldsContent(db)'
  PROVE  ToldSoFar'
<1>1. /\ \A id : get_latest(id)' = get_latest(id)
      /\ \A id, type : get_patch_id(id, type)' = get_patch_id(id, type)
      /\ \A id : launch_version(id)' = launch_version(id)
  BY SameEntries
<1> QED BY <1>1 DEF ToldSoFar, ToldIsReported

LEMMA ReadStays ==
  ASSUME ReadSoFar, entries' = entries, reading' = reading, opened # <<>> => opened' # <<>>
  PROVE  ReadSoFar'
<1>1. Keys' = Keys
  BY SameEntries
<1> QED BY <1>1 DEF ReadSoFar

LEMMA MadeStays ==
  ASSUME MadeAsAsked, entries' = entries, modded' = modded
  PROVE  MadeAsAsked'
<1>1. /\ \A id : launch_version(id)' = launch_version(id)
      /\ \A id : Versions(id)' = Versions(id)
  BY SameEntries
<1> QED BY <1>1 DEF MadeAsAsked

LEMMA OpenKeeps ==
  ASSUME GInv, NEW storage \in Storage, Open(storage), modded' = modded
  PROVE  GInv'
<1>1. /\ opened' = Append(opened, storage) /\ opened \in Seq(Storage)
      /\ entries' = entries /\ told' = told /\ reading' = reading
  BY DEF Open, GInv
<1>2. /\ opened' \in Seq(Storage) /\ opened' # <<>>
      /\ \A db \in DOMAIN opened : db \in DOMAIN opened' /\ opened'[db] = opened[db]
  BY <1>1
<1>3. \A db : HoldsContent(db) => HoldsContent(db)'
  BY <1>2 DEF HoldsContent
<1> QED BY <1>1, <1>2, <1>3, SameEntries, ToldStays, ReadStays, MadeStays DEF GInv

LEMMA AskGameKeeps ==
  ASSUME GInv, NEW db, NEW id, AskGame(db, id), modded' = modded
  PROVE  GInv'
<1>1. /\ entries' = entries /\ opened' = opened /\ reading' = reading
      /\ told' = [stage |-> IF GetLatest(db, id) = None THEN "not found" ELSE "game",
                  db |-> db, id |-> id, key |-> GetLatest(db, id)]
  BY DEF AskGame
<1>2. told'.stage \in {"game", "not found"} /\ told'.db = db /\ told'.id = id
      /\ told'.key = GetLatest(db, id)
  BY <1>1
<1>3. told'.stage = "game" => /\ HoldsContent(db)' /\ told'.key # None
                              /\ told'.key = get_latest(id)'
  <2> SUFFICES ASSUME told'.stage = "game"
               PROVE  HoldsContent(db)' /\ told'.key # None /\ told'.key = get_latest(id)'
    OBVIOUS
  <2>1. GetLatest(db, id) # None
    BY <1>1
  <2>2. HoldsContent(db) /\ GetLatest(db, id) = get_latest(id)
    BY <2>1 DEF GetLatest
  <2>3. HoldsContent(db)' /\ get_latest(id)' = get_latest(id)
    BY <2>2, <1>1, SameEntries DEF HoldsContent
  <2> QED BY <1>2, <2>1, <2>2, <2>3
<1>4. ToldSoFar'
  BY <1>2, <1>3 DEF ToldSoFar, ToldIsReported
<1> QED BY <1>1, <1>4, SameEntries, ReadStays, MadeStays DEF GInv

LEMMA AskPatchIdKeeps ==
  ASSUME GInv, AskPatchId, modded' = modded
  PROVE  GInv'
<1>1. /\ entries' = entries /\ opened' = opened /\ reading' = reading
      /\ told.stage = "game"
      /\ told' = [stage |-> "patch id", db |-> told.db, id |-> told.id, key |-> told.key,
                  patch |-> get_patch_id(told.key.id, told.key.type)]
  BY DEF AskPatchId
<1>2. EntriesAreOfGames /\ HoldsContent(told.db) /\ told.key # None /\ told.key = get_latest(told.id)
  BY <1>1 DEF GInv, ToldSoFar
<1>3. told.key.id = told.id
  BY <1>2, LatestIs
<1>4. /\ told'.stage = "patch id" /\ told'.db = told.db /\ told'.id = told.id
      /\ told'.key = told.key /\ told'.patch = get_patch_id(told.id, told.key.type)
  BY <1>1, <1>3
<1>5. /\ get_latest(told.id)' = get_latest(told'.id)
      /\ \A id, type : get_patch_id(id, type)' = get_patch_id(id, type)
      /\ \A id : get_latest(id)' = get_latest(id)
      /\ HoldsContent(told.db)' = HoldsContent(told'.db)
  BY <1>1, <1>4, SameEntries DEF HoldsContent
<1>6. \A db : HoldsContent(db)' = HoldsContent(db)
  BY <1>1 DEF HoldsContent
<1>7. ToldSoFar'
  BY <1>2, <1>4, <1>5, <1>6 DEF ToldSoFar, ToldIsReported
<1> QED BY <1>1, <1>7, SameEntries, ReadStays, MadeStays DEF GInv

\* The third answer makes it the version the run derives.
LEMMA AskUpdateKeeps ==
  ASSUME GInv, AskUpdate, modded' = modded
  PROVE  GInv'
<1> DEFINE update == GetLatest(told.db, told.patch)
           version == IF update = None THEN told.key.version ELSE update.version
<1>1. /\ entries' = entries /\ opened' = opened /\ reading' = reading
      /\ told.stage = "patch id"
      /\ told' = [stage |-> "version", db |-> told.db, id |-> told.id, key |-> told.key,
                  patch |-> told.patch, version |-> version]
  BY DEF AskUpdate
<1>2. /\ EntriesAreOfGames /\ HoldsContent(told.db)
      /\ told.key # None /\ told.key = get_latest(told.id)
      /\ told.patch = get_patch_id(told.id, told.key.type)
  BY <1>1 DEF GInv, ToldSoFar
<1>3. told.key.id = told.id
  BY <1>2, LatestIs
<1>4. update = get_latest(told.patch)
  BY <1>2 DEF GetLatest
<1>5. launch_version(told.id) = version
  BY <1>2, <1>3, <1>4, VersionIs
<1> HIDE DEF version
<1>6. /\ told'.stage = "version" /\ told'.db = told.db /\ told'.id = told.id
      /\ told'.key = told.key /\ told'.patch = told.patch /\ told'.version = version
  BY <1>1
<1>7. /\ \A id, type : get_patch_id(id, type)' = get_patch_id(id, type)
      /\ \A id : get_latest(id)' = get_latest(id)
      /\ \A id : launch_version(id)' = launch_version(id)
      /\ \A db : HoldsContent(db)' = HoldsContent(db)
  BY <1>1, SameEntries DEF HoldsContent
<1>8. ToldSoFar'
  BY <1>2, <1>5, <1>6, <1>7 DEF ToldSoFar, ToldIsReported
<1> QED BY <1>1, <1>8, SameEntries, ReadStays, MadeStays DEF GInv

LEMMA BeginListKeeps ==
  ASSUME GInv, NEW db \in DOMAIN opened, NEW application \in ProgramId,
         BeginList(db, application), modded' = modded
  PROVE  GInv'
<1>1. /\ entries' = entries /\ opened' = opened /\ told' = told
      /\ reading' = [app |-> application, db |-> db, from |-> 0, seen |-> {}, more |-> TRUE]
  BY DEF BeginList
<1>2. opened \in Seq(Storage) /\ EntriesAreOfGames
  BY DEF GInv
<1>3. db \in Nat /\ opened # <<>>
  BY <1>2
<1>4. \A k \in Keys : k.id \in Nat
  BY <1>2, EntryAt DEF Keys, Entry, Key
<1>5. /\ reading' \in [app : ProgramId, db : Nat, from : Nat, seen : SUBSET Key, more : BOOLEAN]
      /\ reading'.seen = {} /\ reading'.from = 0 /\ reading'.more = TRUE
  BY <1>1, <1>3
<1>6. {k.id : k \in reading'.seen} =
        {k.id : k \in {l \in Keys : /\ l.id \in Family(reading'.app)
                                    /\ reading'.more => l.id < reading'.from}}
  <2>1. \A l \in Keys : ~(l.id < 0)
    BY <1>4
  <2> QED BY <2>1, <1>5
<1>7. Keys' = Keys
  BY <1>1, SameEntries
<1>8. ReadSoFar'
  BY <1>1, <1>3, <1>5, <1>6, <1>7 DEF ReadSoFar
<1>9. \A d : HoldsContent(d) => HoldsContent(d)'
  BY <1>1 DEF HoldsContent
<1> QED BY <1>1, <1>8, <1>9, SameEntries, ToldStays, MadeStays DEF GInv

LEMMA ReadPageKeeps ==
  ASSUME GInv, ReadPage, modded' = modded
  PROVE  GInv'
<1>1. entries' = entries /\ opened' = opened /\ told' = told
  BY DEF ReadPage
<1>2. \A d : HoldsContent(d) => HoldsContent(d)'
  BY <1>1 DEF HoldsContent
<1>3. ReadSoFar'
  BY PageKeeps DEF GInv
<1> QED BY <1>1, <1>2, <1>3, SameEntries, ToldStays, MadeStays DEF GInv

LEMMA MakeKeeps ==
  ASSUME GInv, NEW id \in ProgramId, NEW asked \in Asked, Make(id, asked)
  PROVE  GInv'
<1>1. /\ entries' = entries /\ opened' = opened /\ told' = told /\ reading' = reading
      /\ IsAMod(asked)
      /\ Versions(id) = {asked.base}
      /\ Versions(id + PatchIdOffset) = IF Patched(asked) THEN {UpdateLevel * UpdateStep} ELSE {}
      /\ modded' = [id |-> id, asked |-> asked, base |-> asked.base,
                    version |-> launch_version(id),
                    loose |-> Deliveries(asked).loose, packed |-> Deliveries(asked).packed]
  BY DEF Make, vars
<1>2. /\ modded'.id = id /\ modded'.asked = asked /\ modded'.base = asked.base
      /\ modded'.version = launch_version(id)
      /\ modded'.loose = Deliveries(asked).loose /\ modded'.packed = Deliveries(asked).packed
  BY <1>1
<1>3. /\ \A i : launch_version(i)' = launch_version(i)
      /\ \A i : Versions(i)' = Versions(i)
  BY <1>1, SameEntries
<1>4. MadeAsAsked'
  BY <1>1, <1>2, <1>3 DEF MadeAsAsked
<1>5. \A d : HoldsContent(d) => HoldsContent(d)'
  BY <1>1 DEF HoldsContent
<1> QED BY <1>1, <1>4, <1>5, SameEntries, ToldStays, ReadStays DEF GInv

\* What is installed changes before anything is asked or made.
LEMMA InstallStepKeeps ==
  ASSUME GInv, modded = None, Install, modded' = modded
  PROVE  GInv'
<1>1. /\ EntriesAreOfGames' /\ Installing /\ opened' = opened /\ told' = told
      /\ reading' = reading
  BY InstallKeeps DEF GInv
<1>2. told.stage \notin {"game", "patch id", "version"} /\ reading = NoReading
  BY <1>1, NothingAskedYet DEF GInv
<1>3. ToldSoFar'
  BY <1>1, <1>2 DEF ToldSoFar, ToldIsReported
<1>4. ReadSoFar' /\ MadeAsAsked'
  BY <1>1, <1>2 DEF ReadSoFar, MadeAsAsked
<1> QED BY <1>1, <1>3, <1>4 DEF GInv

LEMMA StepKeeps == GInv /\ [GameNext]_gameVars => GInv'
<1> SUFFICES ASSUME GInv, [GameNext]_gameVars PROVE GInv'
  OBVIOUS
<1>1. CASE UNCHANGED gameVars
  <2>1. /\ entries' = entries /\ opened' = opened /\ told' = told /\ reading' = reading
        /\ modded' = modded
    BY <1>1 DEF gameVars, vars
  <2>2. \A d : HoldsContent(d) => HoldsContent(d)'
    BY <2>1 DEF HoldsContent
  <2> QED BY <2>1, <2>2, SameEntries, ToldStays, ReadStays, MadeStays DEF GInv
<1>2. CASE modded = None /\ Install /\ UNCHANGED modded
  BY <1>2, InstallStepKeeps
<1>3. ASSUME NEW id \in ProgramId, NEW asked \in Asked, Make(id, asked) PROVE GInv'
  BY <1>3, MakeKeeps
<1>4. CASE modded # None /\ Answer /\ UNCHANGED modded
  <2>1. ASSUME NEW storage \in Storage, Open(storage) PROVE GInv'
    BY <1>4, <2>1, OpenKeeps
  <2>2. ASSUME NEW db \in 1..MaxOpen, NEW id \in ProgramId, AskGame(db, id) PROVE GInv'
    BY <1>4, <2>2, AskGameKeeps
  <2>3. CASE AskPatchId
    BY <1>4, <2>3, AskPatchIdKeeps
  <2>4. CASE AskUpdate
    BY <1>4, <2>4, AskUpdateKeeps
  <2>5. ASSUME NEW db \in DOMAIN opened, NEW application \in ProgramId,
               BeginList(db, application)
        PROVE  GInv'
    BY <1>4, <2>5, BeginListKeeps
  <2>6. CASE ReadPage
    BY <1>4, <2>6, ReadPageKeeps
  <2> QED BY <1>4, <2>1, <2>2, <2>3, <2>4, <2>5, <2>6 DEF Answer
<1> QED BY <1>1, <1>2, <1>3, <1>4 DEF GameNext

\* What is installed lies where its games' families are, and what has been
\* told, read and made agrees with it, in every state: fake_meta.py:174-281,
\* bench.py:428-450.
THEOREM Invariance == GameSpec => []GInv
<1> QED BY InitKeeps, StepKeeps, PTL DEF GameSpec

\* The version worked out of three answers is the one the run reports, for
\* every console and every handle: bench.py:447-450.
THEOREM ToldHolds == GameSpec => []ToldIsReported
<1>1. GInv => ToldIsReported
  BY DEF GInv, ToldSoFar
<1> QED BY <1>1, Invariance, PTL

\* A list read to its end has met its game's family and nobody else's, for
\* every size of an answer: fake_meta.py:226.
THEOREM PagesHold == GameSpec => []PagesReachTheFamily
<1>1. GInv => PagesReachTheFamily
  BY DEF GInv, ReadSoFar, PagesReachTheFamily, Family
<1> QED BY <1>1, Invariance, PTL

-----------------------------------------------------------------------------
(* What was asked for, and the trees *)

\* What a command line asks for is counted in naturals, and is a mod of the game.
LEMMA AskedIs ==
  ASSUME NEW asked \in Asked, IsAMod(asked)
  PROVE  /\ asked.base \in Nat /\ asked.base <= AddedFrom /\ AddedFrom \in Nat
         /\ asked.base \in Mark /\ asked.base < UpdateStep
         /\ asked.loose.overridden \in Nat /\ asked.loose.added \in Nat
         /\ asked.packed.overridden \in Nat /\ asked.packed.added \in Nat
         /\ Overridden(asked) \in Nat /\ Overridden(asked) <= asked.base
<1>1. /\ asked.base \in 1..AddedFrom /\ asked.base \in Mark
      /\ asked.loose \in [overridden : Nat, added : Nat]
      /\ asked.packed \in [overridden : Nat, added : Nat]
  BY GameAssumption
<1>2. AddedFrom \in Nat
  BY TablesAssumption
<1>3. asked.base < UpdateStep
  BY <1>1, MetaAssumption
<1>4. Overridden(asked) <= asked.base
  BY DEF IsAMod
<1> QED BY <1>1, <1>2, <1>3, <1>4 DEF Overridden

\* Between them the deliveries override the first files of the game, and add from
\* the first of those it does not have.
LEMMA DeliveriesAre ==
  ASSUME MadeAsAsked, modded # None
  PROVE  LET asked == modded.asked
         IN /\ modded.loose.overridden \cup modded.packed.overridden = 0..(Overridden(asked) - 1)
            /\ modded.loose.added \cup modded.packed.added
                 = 0..(asked.loose.added + asked.packed.added - 1)
<1> DEFINE asked == modded.asked
           a == asked.loose.overridden
           b == asked.packed.overridden
           c == asked.loose.added
           d == asked.packed.added
<1>1. asked \in Asked /\ IsAMod(asked)
  BY DEF MadeAsAsked
<1>2. a \in Nat /\ b \in Nat /\ c \in Nat /\ d \in Nat /\ Overridden(asked) = a + b
  BY <1>1, AskedIs DEF Overridden
<1>3. /\ modded.loose.overridden = {0 + n : n \in 0..(a - 1)}
      /\ modded.loose.added = {0 + n : n \in 0..(c - 1)}
      /\ modded.packed.overridden = {a + n : n \in 0..(b - 1)}
      /\ modded.packed.added = {c + n : n \in 0..(d - 1)}
  BY DEF MadeAsAsked, Deliveries, Delivery
<1> HIDE DEF a, b, c, d
<1>4. ASSUME NEW x \in Nat, NEW y \in Nat
      PROVE  {0 + n : n \in 0..(x - 1)} \cup {x + n : n \in 0..(y - 1)} = 0..(x + y - 1)
  <2>1. ASSUME NEW m \in 0..(x + y - 1)
        PROVE  m \in {0 + n : n \in 0..(x - 1)} \cup {x + n : n \in 0..(y - 1)}
    <3>1. CASE m < x
      <4>1. m \in 0..(x - 1) /\ m = 0 + m
        BY <3>1
      <4> QED BY <4>1
    <3>2. CASE ~(m < x)
      <4>1. m - x \in 0..(y - 1) /\ m = x + (m - x)
        BY <3>2
      <4> QED BY <4>1
    <3> QED BY <3>1, <3>2
  <2>2. \A n \in 0..(x - 1) : 0 + n \in 0..(x + y - 1)
    OBVIOUS
  <2>3. \A n \in 0..(y - 1) : x + n \in 0..(x + y - 1)
    OBVIOUS
  <2> QED BY <2>1, <2>2, <2>3
<1>5. modded.loose.overridden \cup modded.packed.overridden = 0..(a + b - 1)
  BY <1>2, <1>3, <1>4
<1>6. modded.loose.added \cup modded.packed.added = 0..(c + d - 1)
  BY <1>2, <1>3, <1>4
<1> QED BY <1>2, <1>5, <1>6 DEF a, b, c, d

\* A path says which file it is of,
LEMMA PathIsOne == \A i, j : FilePathOf(i) = FilePathOf(j) => i = j
<1> SUFFICES ASSUME NEW i, NEW j, FilePathOf(i) = FilePathOf(j) PROVE i = j
  OBVIOUS
<1>1. FilePathOf(i).name = FilePathOf(j).name
  OBVIOUS
<1>2. FileName(i) = FileName(j)
  BY <1>1 DEF FilePathOf
<1>3. FileName(i)[2] = FileName(j)[2]
  BY <1>2
<1> QED BY <1>3 DEF FileName

\* so there are as many paths as files.
LEMMA PathsOf ==
  ASSUME NEW I, IsFiniteSet(I)
  PROVE  Cardinality({FilePathOf(i) : i \in I}) = Cardinality(I)
<1> DEFINE T == {FilePathOf(i) : i \in I}
           f == [i \in I |-> FilePathOf(i)]
<1>1. \A i, j : FilePathOf(i) = FilePathOf(j) => i = j
  BY PathIsOne
<1>2. f \in Bijection(I, T)
  BY <1>1 DEF Bijection, Injection, Surjection, IsInjective
<1>3. ExistsBijection(I, T)
  <2> HIDE DEF f, T
  <2> QED BY <1>2 DEF ExistsBijection
<1> HIDE DEF T
<1>4. Cardinality(T) = Cardinality(I)
  BY <1>3, FS_Bijection
<1> QED BY <1>4 DEF T

\* So many numbers from one on, and as many as they are.
LEMMA SoMany ==
  ASSUME NEW x \in Nat, NEW n \in Nat
  PROVE  IsFiniteSet(x..(x + n - 1)) /\ Cardinality(x..(x + n - 1)) = n
<1>1. /\ x \in Int /\ x + n - 1 \in Int
  OBVIOUS
<1>2. /\ IsFiniteSet(x..(x + n - 1))
      /\ Cardinality(x..(x + n - 1)) = IF x > x + n - 1 THEN 0 ELSE (x + n - 1) - x + 1
  BY <1>1, FS_Interval
<1>3. CASE n = 0
  BY <1>2, <1>3
<1>4. CASE n # 0
  <2>1. ~(x > x + n - 1) /\ (x + n - 1) - x + 1 = n
    BY <1>4
  <2> QED BY <1>2, <2>1
<1> QED BY <1>3, <1>4

\* The paths a delivery carries.
LEMMA PathsOfDelivery ==
  ASSUME NEW d
  PROVE  {f.path : f \in FilesOfDelivery(d)}
           = {FilePathOf(i) : i \in d.overridden} \cup {FilePathOf(AddedFrom + j) : j \in d.added}
<1> DEFINE A == {[path |-> FilePathOf(i), size |-> ModSize(i)] : i \in d.overridden}
           B == {[path |-> AddedPath(j), size |-> AddedSize(j)] : j \in d.added}
           P == {FilePathOf(i) : i \in d.overridden}
           Q == {FilePathOf(AddedFrom + j) : j \in d.added}
<1>1. FilesOfDelivery(d) = A \cup B
  BY DEF FilesOfDelivery
<1>2. {f.path : f \in A} = P
  <2>1. \A i : [path |-> FilePathOf(i), size |-> ModSize(i)].path = FilePathOf(i)
    OBVIOUS
  <2> QED BY <2>1
<1>3. {f.path : f \in B} = Q
  <2>1. \A j : [path |-> AddedPath(j), size |-> AddedSize(j)].path = FilePathOf(AddedFrom + j)
    BY DEF AddedPath
  <2> QED BY <2>1
<1> HIDE DEF A, B, P, Q
<1>4. {f.path : f \in A \cup B} = {f.path : f \in A} \cup {f.path : f \in B}
  OBVIOUS
<1>5. {f.path : f \in FilesOfDelivery(d)} = P \cup Q
  BY <1>1, <1>2, <1>3, <1>4
<1> QED BY <1>5 DEF P, Q

LEMMA AddsUp == GInv => DeliveriesAddUp
<1> SUFFICES ASSUME GInv, modded # None
             PROVE  LET loose == {f.path : f \in FilesOfDelivery(modded.loose)}
                        packed == {f.path : f \in FilesOfDelivery(modded.packed)}
                        game == {FilePathOf(i) : i \in GameFiles}
                    IN /\ Cardinality(loose \cup packed) = Carried(modded.asked)
                       /\ Cardinality((loose \cup packed) \cap game) = Overridden(modded.asked)
  BY DEF DeliveriesAddUp, JustMade
<1> DEFINE asked == modded.asked
           o == Overridden(asked)
           a == asked.loose.added + asked.packed.added
           I == 0..(o - 1)
           J == AddedFrom..(AddedFrom + a - 1)
           carried == {f.path : f \in FilesOfDelivery(modded.loose)}
                        \cup {f.path : f \in FilesOfDelivery(modded.packed)}
           game == {FilePathOf(i) : i \in GameFiles}
<1>1. MadeAsAsked /\ asked \in Asked /\ IsAMod(asked) /\ modded.base = asked.base
  BY DEF GInv, MadeAsAsked
<1>2. /\ o \in Nat /\ a \in Nat /\ o <= modded.base /\ modded.base <= AddedFrom
      /\ modded.base \in Nat /\ AddedFrom \in Nat
  BY <1>1, AskedIs
<1>3. /\ modded.loose.overridden \cup modded.packed.overridden = I
      /\ modded.loose.added \cup modded.packed.added = 0..(a - 1)
  <2>1. /\ modded.loose.overridden \cup modded.packed.overridden = 0..(Overridden(modded.asked) - 1)
        /\ modded.loose.added \cup modded.packed.added
             = 0..(modded.asked.loose.added + modded.asked.packed.added - 1)
    BY ONLY <1>1, modded # None, DeliveriesAre
  <2>2. I = 0..(Overridden(modded.asked) - 1)
    OBVIOUS
  <2>3. a = modded.asked.loose.added + modded.asked.packed.added
    OBVIOUS
  <2> HIDE DEF I, a
  <2>4. modded.loose.overridden \cup modded.packed.overridden = I
    BY ONLY <2>1, <2>2
  <2> DEFINE added == modded.loose.added \cup modded.packed.added
  <2> HIDE DEF added
  <2>5. added = 0..(modded.asked.loose.added + modded.asked.packed.added - 1)
    BY ONLY <2>1 DEF added
  <2>6. added = 0..(a - 1)
    <3>1. modded.asked.loose.added \in Nat /\ modded.asked.packed.added \in Nat
      BY <1>1, AskedIs
    <3> QED BY ONLY <2>3, <2>5, <3>1
  <2> QED BY <2>4, <2>6 DEF added
<1>4. Carried(asked) = o + a
  BY <1>1, AskedIs DEF Carried
<1> HIDE DEF o, a, asked
<1>5. carried = {FilePathOf(i) : i \in I \cup J}
  <2>1. \A d : {f.path : f \in FilesOfDelivery(d)}
                 = {FilePathOf(i) : i \in d.overridden}
                     \cup {FilePathOf(AddedFrom + j) : j \in d.added}
    BY PathsOfDelivery
  <2>2. carried = {FilePathOf(i) : i \in modded.loose.overridden \cup modded.packed.overridden}
                    \cup {FilePathOf(AddedFrom + j) : j \in modded.loose.added \cup modded.packed.added}
    <3>1. /\ {f.path : f \in FilesOfDelivery(modded.loose)}
               = {FilePathOf(i) : i \in modded.loose.overridden}
                   \cup {FilePathOf(AddedFrom + j) : j \in modded.loose.added}
          /\ {f.path : f \in FilesOfDelivery(modded.packed)}
               = {FilePathOf(i) : i \in modded.packed.overridden}
                   \cup {FilePathOf(AddedFrom + j) : j \in modded.packed.added}
      BY <2>1
    <3> QED BY ONLY <3>1
  <2>3. carried = {FilePathOf(i) : i \in I} \cup {FilePathOf(AddedFrom + j) : j \in 0..(a - 1)}
    BY <1>3, <2>2
  <2>4. {FilePathOf(AddedFrom + j) : j \in 0..(a - 1)} = {FilePathOf(i) : i \in J}
    <3>1. \A j \in 0..(a - 1) : AddedFrom + j \in J
      BY <1>2
    <3>2. \A i \in J : i - AddedFrom \in 0..(a - 1) /\ i = AddedFrom + (i - AddedFrom)
      BY <1>2
    <3> HIDE DEF J
    <3> QED BY <3>1, <3>2
  <2> HIDE DEF carried, I, J
  <2> QED BY <2>3, <2>4
<1>6. /\ IsFiniteSet(I) /\ Cardinality(I) = o
      /\ IsFiniteSet(J) /\ Cardinality(J) = a
  BY <1>2, SoMany
<1>7. I \cap J = {}
  BY <1>2
<1>8. IsFiniteSet(I \cup J) /\ Cardinality(I \cup J) = o + a
  <2>1. Cardinality(I \cap J) = 0
    BY <1>7, FS_EmptySet
  <2> HIDE DEF I, J
  <2>2. /\ IsFiniteSet(I \cup J)
        /\ Cardinality(I \cup J) = Cardinality(I) + Cardinality(J) - Cardinality(I \cap J)
    BY <1>6, FS_Union
  <2> QED BY <2>1, <2>2, <1>6, <1>2
<1>9. Cardinality(carried) = Carried(asked)
  <2> HIDE DEF carried, I, J
  <2> QED BY <1>4, <1>5, <1>8, PathsOf
<1>10. carried \cap game = {FilePathOf(i) : i \in I}
  <2>1. \A i, j : FilePathOf(i) = FilePathOf(j) => i = j
    BY PathIsOne
  <2>2. \A i \in I : i \in GameFiles
    BY <1>2 DEF GameFiles
  <2>3. \A i \in J : i \notin GameFiles
    BY <1>2 DEF GameFiles
  <2>4. game = {FilePathOf(i) : i \in GameFiles}
    OBVIOUS
  <2> HIDE DEF carried, game, I, J
  <2> QED BY <1>5, <2>1, <2>2, <2>3, <2>4
<1>11. Cardinality(carried \cap game) = o
  <2> HIDE DEF carried, game, I, J
  <2> QED BY <1>6, <1>10, PathsOf
<1> QED BY <1>9, <1>11 DEF asked, o

\* What two deliveries carry is what was asked for, no path twice, for every
\* mod that is one: fake_romfs.py:141-168.
THEOREM DeliveriesHold == GameSpec => []DeliveriesAddUp
<1> QED BY AddsUp, Invariance, PTL

-----------------------------------------------------------------------------
(* An update that shows *)

\* The two files that may be at the head have a size, with or without an update.
LEMMA HeadSizes == ShippedSize(0) \in Int /\ ShippedSize(1) \in Int
<1>1. ShippedSize(0) \in Int
  <2>1. (0 * 97) % 100 = 0 /\ 0 \div 5 = 0 /\ 0 % 5 = 0
    OBVIOUS
  <2>2. SizeCurve[1] \in Int /\ SizeCurve[2] \in Int
    BY DEF SizeCurve
  <2>3. ShippedSize(0) = SizeCurve[1] + ((SizeCurve[2] - SizeCurve[1]) * 0) \div 5
    BY <2>1 DEF ShippedSize
  <2> QED BY <2>2, <2>3
<1>2. ShippedSize(1) \in Int
  <2>1. (1 * 97) % 100 = 97
    OBVIOUS
  <2>2. ShippedSize(1) = SizeTop[3]
    BY <2>1 DEF ShippedSize
  <2> QED BY <2>2 DEF SizeTop
<1> QED BY <1>1, <1>2

\* A version an entry has is one of its id's.
LEMMA VersionOfAnId ==
  ASSUME EntriesAreOfGames, NEW id, get_latest(id) # None
  PROVE  get_latest(id).version \in Versions(id) /\ get_latest(id).version \in Nat
<1>1. PICK i \in DOMAIN entries : entries[i].key = get_latest(id)
  BY LatestIs
<1>2. get_latest(id).id = id
  BY LatestIs
<1>3. get_latest(id) \in Keys /\ get_latest(id).version \in Nat
  BY <1>1, EntryAt DEF Keys, Entry, Key
<1> QED BY <1>2, <1>3 DEF Versions

\* A game without an update launches at its own version.
LEMMA LaunchesBase ==
  ASSUME EntriesAreOfGames, NEW id, get_latest(id) # None, NEW base,
         Versions(id) = {base}
  PROVE  /\ launch_version(id) \in Nat
         /\ Versions(id + PatchIdOffset) = {} => launch_version(id) = base
<1> DEFINE q == get_patch_id(id, "app")
           update == IF q = None THEN None ELSE get_latest(q)
<1>1. launch_version(id) = IF update = None THEN get_latest(id).version ELSE update.version
  BY DEF launch_version
<1>2. get_latest(id).version = base /\ get_latest(id).version \in Nat
  BY VersionOfAnId
<1>3. ASSUME update # None
      PROVE  update = get_latest(q) /\ q # None /\ update.version \in Nat
  <2>1. update = get_latest(q) /\ q # None /\ get_latest(q) # None
    BY <1>3
  <2> HIDE DEF update, q
  <2> QED BY <2>1, VersionOfAnId
<1>4. ASSUME update # None, Versions(id + PatchIdOffset) = {} PROVE FALSE
  <2>1. update = get_latest(q) /\ q # None
    BY <1>3, <1>4
  <2>2. PICK i \in DOMAIN entries : /\ entries[i].key.id = id /\ entries[i].key.type = "app"
                                    /\ q = entries[i].header.patch
    BY <2>1, PatchIdIs
  <2>3. PICK g \in Games : OfGame(entries[i], g)
    BY EntryAt
  <2>4. g = id /\ q = id + PatchIdOffset
    BY <2>2, <2>3 DEF OfGame
  <2>5. get_latest(id + PatchIdOffset) # None
    BY <1>4, <2>1, <2>4
  <2> HIDE DEF update, q
  <2> QED BY <1>4, <2>5, VersionOfAnId
<1> HIDE DEF update, q
<1> QED BY <1>1, <1>2, <1>3, <1>4

LEMMA Shows == GInv => UpdateShows
<1> SUFFICES ASSUME GInv, modded # None, told.stage = "version", told.id = modded.id,
                    Release(told.version) > 0, Overridden(modded.asked) < 2
             PROVE  \E i \in GameFiles :
                      Produced(i, modded.version) # Produced(i, modded.base)
  BY DEF UpdateShows
<1> DEFINE asked == modded.asked
           id == modded.id
           o == Overridden(asked)
<1>1. /\ EntriesAreOfGames /\ MadeAsAsked
      /\ told.version = launch_version(id) /\ get_latest(id) # None
  BY DEF GInv, ToldSoFar, ToldIsReported
<1>2. /\ asked \in Asked /\ IsAMod(asked) /\ modded.base = asked.base
      /\ modded.version = launch_version(id)
      /\ Versions(id) = {modded.base}
      /\ Patched(asked) \/ Versions(id + PatchIdOffset) = {}
  BY <1>1 DEF MadeAsAsked
<1>3. /\ o \in Nat /\ o <= modded.base /\ modded.base \in Nat /\ modded.base < VersionStep
      /\ o \in {0, 1} /\ VersionStep \in Nat \ {0}
  <2>1. /\ o \in Nat /\ o <= asked.base /\ asked.base \in Nat /\ asked.base < UpdateStep
    BY <1>2, AskedIs
  <2>2. UpdateStep = VersionStep /\ UpdateStep \in Nat
    BY GameAssumption, MetaAssumption
  <2>3. o < 2
    OBVIOUS
  <2> HIDE DEF o
  <2> QED BY <1>2, <2>1, <2>2, <2>3
<1>4. /\ modded.version \in Nat
      /\ Versions(id + PatchIdOffset) = {} => modded.version = modded.base
  BY <1>1, <1>2, LaunchesBase
<1>5. Release(modded.base) = 0
  BY <1>3 DEF Release
<1>6. Release(modded.version) > 0 /\ Release(modded.version) \in Nat
  <2>1. Release(modded.version) > 0
    BY <1>1, <1>2
  <2>2. Release(modded.version) \in Nat
    BY <1>3, <1>4 DEF Release
  <2> QED BY <2>1, <2>2
<1>7. o < modded.base
  <2>1. Patched(asked)
    <3>1. ASSUME Versions(id + PatchIdOffset) = {} PROVE FALSE
      BY <3>1, <1>4, <1>5, <1>6
    <3> QED BY <3>1, <1>2
  <2>2. o # asked.base
    BY <2>1 DEF Patched
  <2> QED BY <2>2, <1>2, <1>3
<1>8. o \in GameFiles /\ o \notin AllOverridden
  <2>1. AllOverridden = 0..(o - 1)
    BY <1>1, DeliveriesAre DEF AllOverridden
  <2> HIDE DEF o
  <2> QED BY <2>1, <1>3, <1>7 DEF GameFiles
<1>9. Rewritten(o) /\ ShippedSize(o) \in Int
  <2> HIDE DEF o
  <2>1. CASE o = 0
    BY <2>1, HeadSizes DEF Rewritten
  <2>2. CASE o = 1
    BY <2>2, HeadSizes DEF Rewritten
  <2> QED BY <1>3, <2>1, <2>2
<1>10. Size(o, modded.base) = ShippedSize(o)
  BY <1>5 DEF Size
<1>11. Size(o, modded.version) = ShippedSize(o) + 64 + (Release(modded.version) % 64)
  BY <1>6, <1>9 DEF Size
<1>12. Size(o, modded.version) # Size(o, modded.base)
  <2>1. Release(modded.version) % 64 \in 0..63
    BY <1>6
  <2> QED BY <2>1, <1>9, <1>10, <1>11
<1>13. Produced(o, modded.version) # Produced(o, modded.base)
  BY <1>8, <1>12 DEF Produced
<1> QED BY <1>8, <1>13

\* A build told of an update produces another romfs than without it, for every
\* mod that leaves the head of the game its own: romfs_model.py:519-529.
THEOREM UpdateHolds == GameSpec => []UpdateShows
<1> QED BY Shows, Invariance, PTL

-----------------------------------------------------------------------------
(* Loops and running sums *)

\* What holds of 0 and, with a number, of the next, holds of every number.
LEMMA InductionTo ==
  ASSUME NEW n \in Nat, NEW T \in SUBSET Nat, 0 \in T,
         \A i \in 1..n : i - 1 \in T => i \in T
  PROVE  0..n \subseteq T
<1> SUFFICES ASSUME (0..n) \ T # {} PROVE FALSE
  OBVIOUS
<1>1. PICK x \in (0..n) \ T : \A y \in (0..n) \ T : x <= y
  <2>1. (0..n) \ T \in SUBSET Nat
    OBVIOUS
  <2> QED BY <2>1, LeastNatural
<1>2. x # 0 /\ x \in 1..n /\ x - 1 \in 0..n
  BY <1>1
<1>3. x - 1 \in T
  BY <1>1, <1>2
<1> QED BY <1>1, <1>2, <1>3

\* What a loop of n turns holds after each, from a and by g.
Loops(n, A, a, g) ==
  {f \in [0..n -> A] : f[0] = a /\ \A i \in 1..n : f[i] = g[<<i, f[i - 1]>>]}

\* A loop that passes its turns on is a function of the turn.
LEMMA LoopExists ==
  ASSUME NEW n \in Nat, NEW A, NEW a \in A, NEW g \in [(1..n) \X A -> A]
  PROVE  \E f : f \in Loops(n, A, a, g)
<1> DEFINE Runs(m) == \E f \in [0..m -> A] : f[0] = a /\ \A i \in 1..m : f[i] = g[<<i, f[i - 1]>>]
           T == {m \in 0..n : Runs(m)}
<1>1. 0 \in T
  <2>1. Runs(0)
    <3> DEFINE h == [i \in 0..0 |-> a]
    <3>1. h \in [0..0 -> A] /\ h[0] = a
      OBVIOUS
    <3>2. \A i \in 1..0 : h[i] = g[<<i, h[i - 1]>>]
      OBVIOUS
    <3> HIDE DEF h
    <3> QED BY <3>1, <3>2
  <2> QED BY <2>1
<1>2. ASSUME NEW m \in 1..n, m - 1 \in T PROVE m \in T
  <2>1. PICK f \in [0..(m-1) -> A] : f[0] = a /\ \A i \in 1..(m-1) : f[i] = g[<<i, f[i - 1]>>]
    BY <1>2
  <2> DEFINE h == [i \in 0..m |-> IF i = m THEN g[<<m, f[m-1]>>] ELSE f[i]]
  <2>2. g[<<m, f[m-1]>>] \in A
    <3>1. <<m, f[m-1]>> \in (1..n) \X A
      BY <1>2, <2>1
    <3> QED BY <3>1
  <2>3. h \in [0..m -> A]
    BY <1>2, <2>1, <2>2
  <2>4. h[0] = a
    BY <1>2, <2>1
  <2>5. ASSUME NEW i \in 1..m PROVE h[i] = g[<<i, h[i - 1]>>]
    <3>1. h[i-1] = f[i-1]
      BY <1>2, <2>5
    <3>2. CASE i = m
      BY <3>1, <3>2, <1>2
    <3>3. CASE i # m
      <4>1. i \in 1..(m-1) /\ h[i] = f[i]
        BY <3>3, <1>2, <2>5
      <4> QED BY <4>1, <3>1, <2>1
    <3> QED BY <3>2, <3>3
  <2>6. Runs(m)
    <3> HIDE DEF h
    <3> QED BY <2>3, <2>4, <2>5
  <2> QED BY <2>6
<1>3. T \in SUBSET Nat
  OBVIOUS
<1>4. n \in T
  <2> HIDE DEF T
  <2>1. 0..n \subseteq T
    BY <1>1, <1>2, <1>3, InductionTo
  <2> QED BY <2>1
<1> QED BY <1>4 DEF Loops

\* A running sum is what it is meant to be: each turn adds an entry.
LEMMA RunningSum ==
  ASSUME NEW s \in Seq(Int)
  PROVE  /\ Total(s) = Running(s)[Len(s)]
         /\ Running(s) \in [0..Len(s) -> Int]
         /\ Running(s)[0] = 0
         /\ \A i \in 1..Len(s) : Running(s)[i] = Running(s)[i - 1] + s[i]
<1> PICK n \in Nat : n = Len(s)
  OBVIOUS
<1> DEFINE g == [p \in (1..n) \X Int |-> p[2] + s[p[1]]]
<1>1. g \in [(1..n) \X Int -> Int]
  OBVIOUS
<1>2. PICK f \in [0..n -> Int] : f[0] = 0 /\ \A i \in 1..n : f[i] = g[<<i, f[i - 1]>>]
  <2> HIDE DEF g
  <2> PICK A : A = Int
    OBVIOUS
  <2>1. 0 \in A /\ g \in [(1..n) \X A -> A]
    BY <1>1
  <2>2. PICK f : f \in Loops(n, A, 0, g)
    BY ONLY <2>1, n \in Nat, LoopExists
  <2> QED BY ONLY <2>2, A = Int DEF Loops
<1>3. ASSUME NEW i \in 1..n PROVE f[i] = f[i - 1] + s[i]
  <2>1. <<i, f[i-1]>> \in (1..n) \X Int
    <3>1. i - 1 \in 0..n
      BY <1>3
    <3>2. f[i - 1] \in Int
      BY <3>1
    <3> QED BY <3>2
  <2> QED BY <2>1, <1>2
<1>4. f = [i \in 0..n |-> IF i = 0 THEN 0 ELSE f[i - 1] + s[i]]
  BY <1>2, <1>3
<1> HIDE DEF g
<1>5. Running(s) = [i \in 0..n |-> IF i = 0 THEN 0 ELSE Running(s)[i - 1] + s[i]]
  BY ONLY <1>4, n = Len(s) DEF Running
<1>6. Total(s) = Running(s)[n]
  BY n = Len(s) DEF Total
<1> PICK r : r = Running(s)
  OBVIOUS
<1>7. r[0] = 0 /\ \A i \in 1..n : r[i] = r[i - 1] + s[i]
  BY ONLY <1>5, r = Running(s), n \in Nat
<1>8. \A i \in 0..n : r[i] = f[i]
  <2> DEFINE T == {i \in 0..n : r[i] = f[i]}
  <2>1. 0 \in T /\ T \in SUBSET Nat
    BY <1>2, <1>7
  <2>2. ASSUME NEW i \in 1..n, i - 1 \in T PROVE i \in T
    BY <2>2, <1>3, <1>7
  <2>3. 0..n \subseteq T
    <3> HIDE DEF T
    <3> QED BY ONLY <2>1, <2>2, n \in Nat, InductionTo
  <2> QED BY <2>3
<1>9. r = [i \in 0..n |-> r[i]]
  BY ONLY <1>5, r = Running(s)
<1>10. r \in [0..n -> Int]
  BY <1>8, <1>9, <1>2
<1> QED BY <1>6, <1>7, <1>10

\* Sums of numbers that are not 0 grow with each, from 0 of none.
LEMMA SumsGrow ==
  ASSUME NEW s \in Seq(Nat \ {0}), NEW c, c = Running(s)
  PROVE  /\ c \in [0..Len(s) -> Nat] /\ c[0] = 0
         /\ \A i \in 1..Len(s) : c[i] = c[i - 1] + s[i]
         /\ \A j \in 0..Len(s) : \A i \in 0..j : c[i] <= c[j]
<1> PICK n \in Nat : n = Len(s)
  OBVIOUS
<1>1. s \in Seq(Int) /\ \A i \in 1..n : s[i] \in Nat \ {0}
  OBVIOUS
<1>2. c \in [0..n -> Int] /\ c[0] = 0 /\ \A i \in 1..n : c[i] = c[i - 1] + s[i]
  BY ONLY <1>1, n = Len(s), c = Running(s), RunningSum
<1> DEFINE T == {j \in 0..n : c[j] \in Nat /\ \A i \in 0..j : c[i] <= c[j]}
<1>3. 0 \in T /\ T \in SUBSET Nat
  BY ONLY <1>2, n \in Nat
<1>4. ASSUME NEW j \in 1..n, j - 1 \in T PROVE j \in T
  <2>1. c[j - 1] \in Nat /\ \A i \in 0..(j - 1) : c[i] <= c[j - 1]
    BY ONLY <1>4
  <2>2. c[j] = c[j - 1] + s[j] /\ s[j] \in Nat
    BY ONLY <1>1, <1>2, j \in 1..n
  <2>3. \A i \in 0..j : i \in 0..(j - 1) \/ i = j
    BY ONLY n \in Nat, j \in 1..n
  <2>4. \A i \in 0..(j - 1) : c[i] \in Int
    BY ONLY <1>2, n \in Nat, j \in 1..n
  <2>5. c[j] \in Nat
    BY ONLY <2>1, <2>2
  <2>6. ASSUME NEW i \in 0..j PROVE c[i] <= c[j]
    <3>1. CASE i \in 0..(j - 1)
      BY ONLY <3>1, <2>1, <2>2, <2>4
    <3>2. CASE i = j
      BY ONLY <3>2, <2>5
    <3> QED BY ONLY <3>1, <3>2, <2>3, i \in 0..j
  <2>7. j \in 0..n
    BY ONLY j \in 1..n
  <2> QED BY ONLY <2>5, <2>6, <2>7
<1>5. 0..n \subseteq T
  <2> HIDE DEF T
  <2> QED BY ONLY <1>3, <1>4, n \in Nat, InductionTo
<1>6. \A j \in 0..n : c[j] \in Nat /\ \A i \in 0..j : c[i] <= c[j]
  BY ONLY <1>5
<1>7. c \in [0..n -> Nat]
  BY ONLY <1>2, <1>6
<1> QED BY ONLY <1>2, <1>6, <1>7, n = Len(s)

\* A bisection finds the only number whose sums a place lies between.
LEMMA BisectIs ==
  ASSUME NEW s \in Seq(Nat \ {0}), NEW c, c = Running(s), NEW x \in Nat, x < c[Len(s)]
  PROVE  \E m \in 0..(Len(s) - 1) : /\ BisectRight(Cumulative(s), x) = m
                                    /\ c[m] <= x /\ x < c[m + 1]
<1> PICK n \in Nat : n = Len(s)
  OBVIOUS
<1> DEFINE above == {k \in 0..n : c[k] > x}
<1>1. c \in [0..n -> Nat] /\ c[0] = 0 /\ \A j \in 0..n : \A i \in 0..j : c[i] <= c[j]
  BY ONLY SumsGrow, s \in Seq(Nat \ {0}), c = Running(s), n = Len(s)
<1>2. n \in above /\ above \in SUBSET Nat
  BY ONLY <1>1, n \in Nat, n = Len(s), x < c[Len(s)]
<1> PICK k \in above : \A j \in above : k <= j
  <2> HIDE DEF above
  <2> QED BY ONLY <1>2, LeastNatural
<1> PICK m \in Int : m = k - 1
  OBVIOUS
<1>3. k \in 0..n /\ c[k] > x /\ k # 0
  BY ONLY <1>1, k \in above, x \in Nat
<1>4. m \in 0..(n - 1) /\ m + 1 = k /\ m \in 0..n
  BY ONLY <1>3, m = k - 1, n \in Nat
<1>5. c[m] <= x
  <2>1. m \notin above
    <3>1. ~(k <= m)
      BY ONLY <1>4
    <3> HIDE DEF above
    <3> QED BY ONLY <3>1, \A j \in above : k <= j
  <2> QED BY ONLY <2>1, <1>1, <1>4, x \in Nat
<1>6. {j \in 1..n : c[j] <= x} = 1..m
  <2>1. ASSUME NEW j \in 1..n, c[j] <= x PROVE j \in 1..m
    <3>1. ~(k <= j)
      <4>1. k <= j => c[k] <= c[j]
        BY ONLY <1>1, <1>3, j \in 1..n, n \in Nat
      <4>2. c[k] \in Nat /\ c[j] \in Nat
        BY ONLY <1>1, <1>3, j \in 1..n, n \in Nat
      <4> QED BY ONLY <4>1, <4>2, <1>3, <2>1, x \in Nat
    <3> QED BY ONLY <3>1, <1>3, <1>4, j \in 1..n
  <2>2. ASSUME NEW j \in 1..m PROVE j \in 1..n /\ c[j] <= x
    <3>1. j \in 1..n /\ j \in 0..m /\ j \in 0..n
      BY ONLY <1>4, j \in 1..m, n \in Nat
    <3>2. c[j] <= c[m] /\ c[j] \in Nat /\ c[m] \in Nat
      BY ONLY <3>1, <1>1, <1>4
    <3> QED BY ONLY <3>1, <3>2, <1>5, x \in Nat
  <2> QED BY ONLY <2>1, <2>2
<1>7. BisectRight(Cumulative(s), x) = m
  <2>1. DOMAIN s = 1..n
    BY ONLY n = Len(s), s \in Seq(Nat \ {0})
  <2>2. Cumulative(s) = [j \in 1..n |-> c[j]]
    BY ONLY <2>1, c = Running(s) DEF Cumulative
  <2>3. {j \in DOMAIN Cumulative(s) : Cumulative(s)[j] <= x} = {j \in 1..n : c[j] <= x}
    BY ONLY <2>2
  <2>4. Cardinality(1..m) = m
    <3>1. 1 \in Int /\ m \in Int
      BY ONLY <1>4
    <3>2. Cardinality(1..m) = IF 1 > m THEN 0 ELSE m - 1 + 1
      BY ONLY <3>1, FS_Interval
    <3>3. m \in Nat
      BY ONLY <1>4
    <3> QED BY ONLY <3>2, <3>3
  <2> QED BY ONLY <2>3, <2>4, <1>6 DEF BisectRight
<1> QED BY ONLY <1>3, <1>4, <1>5, <1>7, n = Len(s)

-----------------------------------------------------------------------------
(* The tail: a directory and the files it is for *)

\* What the bands lay down is some sizes, none of them 0.
LEMMA InBandsType == InBands \in Seq(Nat \ {0}) /\ InBands # <<>>
<1> PICK n \in Nat \ {0} : n = Len(Bands)
  BY TablesAssumption
<1> PICK A : A = Seq(Nat \ {0})
  OBVIOUS
<1> DEFINE Band(b) == [k \in 1..Bands[b][2] |-> Bands[b][1]]
           g == [p \in (1..n) \X A |-> p[2] \o Band(p[1])]
<1>1. \A b \in 1..n : Band(b) \in A /\ Len(Band(b)) > 0
  <2> SUFFICES ASSUME NEW b \in 1..n PROVE Band(b) \in A /\ Len(Band(b)) > 0
    OBVIOUS
  <2>1. Bands[b] \in (Nat \ {0}) \X (Nat \ {0})
    BY TablesAssumption
  <2> PICK size \in Nat \ {0} : size = Bands[b][1]
    BY <2>1
  <2> PICK many \in Nat \ {0} : many = Bands[b][2]
    BY <2>1
  <2> PICK band : band = [k \in 1..many |-> size]
    OBVIOUS
  <2>2. band \in Seq(Nat \ {0}) /\ Len(band) = many
    BY ONLY band = [k \in 1..many |-> size], many \in Nat \ {0}, size \in Nat \ {0}
  <2>3. Band(b) = band
    BY ONLY band = [k \in 1..many |-> size], many = Bands[b][2], size = Bands[b][1]
  <2> HIDE DEF Band
  <2> QED BY ONLY <2>2, <2>3, A = Seq(Nat \ {0}), many \in Nat \ {0}
<1>2. <<>> \in A /\ \A l \in A : \A m \in A : l \o m \in A /\ Len(l \o m) = Len(l) + Len(m)
  BY ONLY A = Seq(Nat \ {0})
<1>3. g \in [(1..n) \X A -> A]
  <2>1. \A p \in (1..n) \X A : p[2] \o Band(p[1]) \in A
    <3> HIDE DEF Band
    <3> QED BY ONLY <1>1, <1>2
  <2> HIDE DEF Band
  <2> QED BY ONLY <2>1
<1>4. PICK f \in [0..n -> A] : f[0] = <<>> /\ \A b \in 1..n : f[b] = g[<<b, f[b - 1]>>]
  <2> HIDE DEF g
  <2>1. PICK f : f \in Loops(n, A, <<>>, g)
    BY ONLY <1>2, <1>3, n \in Nat \ {0}, LoopExists
  <2> QED BY ONLY <2>1 DEF Loops
<1>5. \A b \in 1..n : f[b] = f[b - 1] \o Band(b)
  <2> SUFFICES ASSUME NEW b \in 1..n PROVE f[b] = f[b - 1] \o Band(b)
    OBVIOUS
  <2>1. b - 1 \in 0..n
    OBVIOUS
  <2>2. <<b, f[b - 1]>> \in (1..n) \X A
    BY ONLY <2>1, b \in 1..n, f \in [0..n -> A]
  <2> HIDE DEF Band
  <2> QED BY ONLY <2>2, <1>4, b \in 1..n
<1> DEFINE Laid(t) == t = [b \in 0..n |-> IF b = 0 THEN <<>> ELSE t[b - 1] \o Band(b)]
<1>6. Laid(f)
  <2> HIDE DEF Band
  <2> QED BY ONLY <1>4, <1>5
<1> PICK laid : laid = CHOOSE t : Laid(t)
  OBVIOUS
<1>7. Laid(laid)
  <2> HIDE DEF Laid
  <2> QED BY ONLY <1>6, laid = CHOOSE t : Laid(t)
<1>8. InBands = laid[n]
  BY ONLY n = Len(Bands), laid = CHOOSE t : Laid(t) DEF InBands
<1>9. laid[0] = <<>> /\ \A b \in 1..n : laid[b] = laid[b - 1] \o Band(b)
  <2> HIDE DEF Band
  <2>1. \A b \in 0..n : laid[b] = IF b = 0 THEN <<>> ELSE laid[b - 1] \o Band(b)
    BY ONLY <1>7
  <2>2. 0 \in 0..n /\ \A b \in 1..n : b \in 0..n /\ b # 0
    BY ONLY n \in Nat \ {0}
  <2>3. laid[0] = <<>>
    BY ONLY <2>1, <2>2
  <2>4. ASSUME NEW b \in 1..n PROVE laid[b] = laid[b - 1] \o Band(b)
    BY ONLY <2>1, <2>2, b \in 1..n
  <2> QED BY ONLY <2>3, <2>4
<1> DEFINE T == {b \in 0..n : laid[b] \in A /\ (b # 0 => Len(laid[b]) > 0)}
<1>10. 0 \in T /\ T \in SUBSET Nat
  BY ONLY <1>2, <1>9, n \in Nat \ {0}
<1>11. ASSUME NEW b \in 1..n, b - 1 \in T PROVE b \in T
  <2> HIDE DEF Band
  <2>1. laid[b - 1] \in A /\ laid[b] = laid[b - 1] \o Band(b)
    BY ONLY <1>11, <1>9
  <2>2. laid[b] \in A /\ Len(laid[b]) = Len(laid[b - 1]) + Len(Band(b))
    BY ONLY <2>1, <1>1, <1>2, b \in 1..n
  <2>3. Len(laid[b - 1]) \in Nat /\ Len(Band(b)) \in Nat
    BY ONLY <2>1, <1>1, b \in 1..n, A = Seq(Nat \ {0})
  <2>4. Len(laid[b]) > 0
    BY ONLY <2>2, <2>3, <1>1, b \in 1..n
  <2> QED BY ONLY <2>2, <2>4, b \in 1..n
<1>12. n \in T
  <2>1. 0..n \subseteq T
    <3> HIDE DEF T
    <3> QED BY ONLY <1>10, <1>11, n \in Nat \ {0}, InductionTo
  <2> HIDE DEF T
  <2> QED BY ONLY <2>1, n \in Nat \ {0}
<1> QED BY ONLY <1>8, <1>12, A = Seq(Nat \ {0}), n \in Nat \ {0}

\* So are the sizes of a cycle of the tail, as many.
LEMMA TailSizesType ==
  /\ TailDirs \in Nat \ {0} /\ TailSizes \in Seq(Nat \ {0}) /\ Len(TailSizes) = TailDirs
<1> PICK bands \in Seq(Nat \ {0}) : bands = InBands /\ Len(bands) > 0
  BY InBandsType
<1> PICK n \in Nat \ {0} : n = Len(bands)
  OBVIOUS
<1>1. TailDirs = n
  BY DEF TailDirs
<1>2. \A k \in 1..n : ((k - 1) * 1597) % n \in 0..(n - 1)
  <2> SUFFICES ASSUME NEW k \in 1..n PROVE ((k - 1) * 1597) % n \in 0..(n - 1)
    OBVIOUS
  <2>1. (k - 1) * 1597 \in Int
    OBVIOUS
  <2> PICK a \in Int : a = (k - 1) * 1597
    BY <2>1
  <2>2. a % n \in 0..(n - 1)
    BY ONLY a \in Int, n \in Nat \ {0}
  <2> QED BY ONLY <2>2, a = (k - 1) * 1597
<1>3. \A k \in 1..n : bands[(((k - 1) * 1597) % n) + 1] \in Nat \ {0}
  <2>1. \A j \in 0..(n - 1) : bands[j + 1] \in Nat \ {0}
    BY ONLY bands \in Seq(Nat \ {0}), n = Len(bands)
  <2> QED BY ONLY <1>2, <2>1
<1> PICK sizes : sizes = [k \in 1..n |-> bands[(((k - 1) * 1597) % n) + 1]]
  OBVIOUS
<1>4. sizes = TailSizes
  BY <1>1 DEF TailSizes
<1>5. sizes \in Seq(Nat \ {0}) /\ Len(sizes) = n
  BY ONLY <1>3, n \in Nat \ {0}, sizes = [k \in 1..n |-> bands[(((k - 1) * 1597) % n) + 1]]
<1> QED BY ONLY <1>1, <1>4, <1>5, n \in Nat \ {0}

\* Division with a remainder.
LEMMA DivMod ==
  ASSUME NEW a \in Nat, NEW w \in Nat \ {0}
  PROVE  /\ a \div w \in Nat /\ a % w \in 0..(w - 1)
         /\ a = w * (a \div w) + (a % w)
  OBVIOUS

\* and the only one.
LEMMA DivisionIs ==
  ASSUME NEW w \in Nat \ {0}, NEW q \in Nat, NEW r \in 0..(w - 1), NEW a, a = w * q + r
  PROVE  a \in Nat /\ a \div w = q /\ a % w = r
<1>1. a \in Nat
  <2>1. w * q \in Nat
    BY ONLY w \in Nat \ {0}, q \in Nat
  <2> QED BY ONLY <2>1, a = w * q + r, r \in 0..(w - 1), w \in Nat \ {0}
<1> PICK p \in Nat : p = a \div w
  BY <1>1, DivMod
<1> PICK s \in 0..(w - 1) : s = a % w
  BY <1>1, DivMod
<1>2. w * p + s = w * q + r
  <2>1. a = w * p + s
    BY ONLY <1>1, p = a \div w, s = a % w, w \in Nat \ {0}, DivMod
  <2> QED BY ONLY <2>1, a = w * q + r
<1>3. s = r /\ p = q
  BY ONLY <1>2, OneRemainder, w \in Nat \ {0}, p \in Nat, q \in Nat, r \in 0..(w - 1), s \in 0..(w - 1)
<1> QED BY ONLY <1>1, <1>3, p = a \div w, s = a % w

UpToTail == Running(TailSizes)

\* A cycle of the tail: how many directories and files, and how many files are
\* for the first so many.
LEMMA CycleIs ==
  /\ TailDirs \in Nat \ {0} /\ TailFiles \in Nat \ {0}
  /\ UpToTail \in [0..TailDirs -> Nat]
  /\ UpToTail[0] = 0 /\ UpToTail[TailDirs] = TailFiles
  /\ \A m \in 1..TailDirs : /\ TailSizes[m] \in Nat \ {0}
                            /\ UpToTail[m] = UpToTail[m - 1] + TailSizes[m]
  /\ \A j \in 0..TailDirs : \A i \in 0..j : UpToTail[i] <= UpToTail[j]
<1> PICK n \in Nat \ {0} : n = TailDirs
  BY TailSizesType
<1> PICK s \in Seq(Nat \ {0}) : s = TailSizes /\ Len(s) = n
  BY TailSizesType
<1> PICK c : c = Running(s)
  OBVIOUS
<1>1. /\ c \in [0..n -> Nat] /\ c[0] = 0
      /\ \A i \in 1..n : c[i] = c[i - 1] + s[i]
      /\ \A j \in 0..n : \A i \in 0..j : c[i] <= c[j]
  BY ONLY SumsGrow, s \in Seq(Nat \ {0}), Len(s) = n, c = Running(s)
<1>2. \A i \in 1..n : s[i] \in Nat \ {0}
  BY ONLY s \in Seq(Nat \ {0}), Len(s) = n
<1>3. c[n] \in Nat \ {0}
  <2>1. n \in 1..n /\ n \in 0..n /\ n - 1 \in 0..n
    BY ONLY n \in Nat \ {0}
  <2>2. c[n - 1] \in Nat /\ s[n] \in Nat \ {0} /\ c[n] = c[n - 1] + s[n]
    BY ONLY <1>1, <1>2, <2>1
  <2> QED BY ONLY <2>2
<1>4. TailFiles = c[n] /\ UpToTail = c
  BY DEF TailFiles, Total, UpToTail
<1> QED BY ONLY <1>1, <1>2, <1>3, <1>4, n \in Nat \ {0}, n = TailDirs, s = TailSizes

\* The place in the tail a directory's first file has, and the next directory's.
BlockStart(nth) == TailFiles * (nth \div TailDirs) + UpToTail[nth % TailDirs]
BlockEnd(nth) == TailFiles * (nth \div TailDirs) + UpToTail[(nth % TailDirs) + 1]

\* The directory of a place in the tail.
NthOf(t) == (t \div TailFiles) * TailDirs + BisectRight(TailCum, t % TailFiles)

\* A place is of the directory whose first and last it lies between, and of no other.
LEMMA BlockOf ==
  ASSUME NEW t \in Nat, NEW nth \in Nat
  PROVE  /\ NthOf(t) \in Nat
         /\ NthOf(t) = nth <=> BlockStart(nth) <= t /\ t < BlockEnd(nth)
<1> PICK n \in Nat \ {0}, f \in Nat \ {0} : n = TailDirs /\ f = TailFiles
  BY CycleIs
<1> PICK c \in [0..n -> Nat] : c = UpToTail
  BY CycleIs
<1>1. c[n] = f /\ \A j \in 0..n : \A i \in 0..j : c[i] <= c[j]
  BY CycleIs
<1>2. ASSUME NEW x \in 0..(f - 1)
      PROVE  \E m \in 0..(n - 1) : BisectRight(TailCum, x) = m /\ c[m] <= x /\ x < c[m + 1]
  <2> PICK s \in Seq(Nat \ {0}) : s = TailSizes /\ Len(s) = n
    BY TailSizesType
  <2>1. c = Running(s)
    BY ONLY c = UpToTail, s = TailSizes DEF UpToTail
  <2>2. x \in Nat /\ x < c[Len(s)]
    BY ONLY <1>1, x \in 0..(f - 1), Len(s) = n, f \in Nat \ {0}
  <2>3. \E m \in 0..(Len(s) - 1) : BisectRight(Cumulative(s), x) = m /\ c[m] <= x /\ x < c[m + 1]
    BY ONLY <2>1, <2>2, s \in Seq(Nat \ {0}), BisectIs
  <2> QED BY ONLY <2>3, Len(s) = n, s = TailSizes DEF TailCum
<1> PICK p \in Nat, x \in 0..(f - 1) : p = t \div f /\ x = t % f /\ t = f * p + x
  BY ONLY t \in Nat, f \in Nat \ {0}, DivMod
<1> PICK m \in 0..(n - 1) : BisectRight(TailCum, x) = m /\ c[m] <= x /\ x < c[m + 1]
  BY <1>2
<1>3. NthOf(t) = n * p + m
  <2>1. NthOf(t) = p * n + m
    BY ONLY p = t \div f, x = t % f, BisectRight(TailCum, x) = m, n = TailDirs, f = TailFiles DEF NthOf
  <2>2. p * n = n * p
    BY ONLY p \in Nat, n \in Nat \ {0}
  <2> QED BY ONLY <2>1, <2>2
<1>4. NthOf(t) \in Nat /\ NthOf(t) \div n = p /\ NthOf(t) % n = m
  BY ONLY <1>3, DivisionIs, n \in Nat \ {0}, p \in Nat, m \in 0..(n - 1)
<1> PICK q \in Nat, k \in 0..(n - 1) : q = nth \div n /\ k = nth % n /\ nth = n * q + k
  BY ONLY nth \in Nat, n \in Nat \ {0}, DivMod
<1>5. BlockStart(nth) = f * q + c[k] /\ BlockEnd(nth) = f * q + c[k + 1]
  BY ONLY q = nth \div n, k = nth % n, n = TailDirs, f = TailFiles, c = UpToTail DEF BlockStart, BlockEnd
<1>6. /\ f * p \in Nat /\ f * q \in Nat
      /\ c[k] \in Nat /\ c[k + 1] \in Nat /\ c[k + 1] <= f /\ c[k] <= c[k + 1]
      /\ c[m] \in Nat /\ c[m + 1] \in Nat
  <2>1. {k, k + 1, m, m + 1, n} \subseteq 0..n /\ k + 1 \in 0..n /\ k \in 0..(k + 1) /\ k + 1 \in 0..n /\ n \in 0..n
    BY ONLY n \in Nat \ {0}, k \in 0..(n - 1), m \in 0..(n - 1)
  <2>2. f * p \in Nat /\ f * q \in Nat
    BY ONLY f \in Nat \ {0}, p \in Nat, q \in Nat
  <2> QED BY ONLY <2>1, <2>2, <1>1, c \in [0..n -> Nat]
<1>7. ASSUME NthOf(t) = nth PROVE BlockStart(nth) <= t /\ t < BlockEnd(nth)
  <2>1. p = q /\ m = k
    BY ONLY <1>4, <1>7, q = nth \div n, k = nth % n
  <2>2. f * q <= t /\ t = f * q + x /\ c[k] <= x /\ x < c[k + 1]
    BY ONLY <2>1, <1>6, t = f * p + x, c[m] <= x, x < c[m + 1], x \in 0..(f - 1), f \in Nat \ {0}
  <2> QED BY ONLY <2>2, <1>5, <1>6, x \in 0..(f - 1), f \in Nat \ {0}
<1>8. ASSUME BlockStart(nth) <= t, t < BlockEnd(nth) PROVE NthOf(t) = nth
  <2> PICK y \in Int : y = t - f * q
    BY <1>6
  <2>1. t = f * q + y /\ c[k] <= y /\ y < c[k + 1] /\ y \in 0..(f - 1)
    BY ONLY <1>5, <1>6, <1>8, y = t - f * q, y \in Int, t \in Nat, f \in Nat \ {0}
  <2>2. t \div f = q /\ t % f = y
    BY ONLY <2>1, DivisionIs, f \in Nat \ {0}, q \in Nat
  <2>3. p = q /\ x = y
    BY ONLY <2>2, p = t \div f, x = t % f
  <2>4. ~(m < k)
    <3>1. m < k => c[m + 1] <= c[k]
      <4>1. m < k => m + 1 \in 0..k /\ k \in 0..n
        BY ONLY m \in 0..(n - 1), k \in 0..(n - 1), n \in Nat \ {0}
      <4> QED BY ONLY <4>1, <1>1
    <3> QED BY ONLY <3>1, <2>1, <2>3, <1>6, x < c[m + 1], x \in 0..(f - 1), f \in Nat \ {0}
  <2>5. ~(k < m)
    <3>1. k < m => c[k + 1] <= c[m]
      <4>1. k < m => k + 1 \in 0..m /\ m \in 0..n
        BY ONLY m \in 0..(n - 1), k \in 0..(n - 1), n \in Nat \ {0}
      <4> QED BY ONLY <4>1, <1>1
    <3> QED BY ONLY <3>1, <2>1, <2>3, <1>6, c[m] <= x, x \in 0..(f - 1), f \in Nat \ {0}
  <2>6. m = k
    BY ONLY <2>4, <2>5, m \in 0..(n - 1), k \in 0..(n - 1), n \in Nat \ {0}
  <2> QED BY ONLY <2>3, <2>6, <1>3, nth = n * q + k
<1> QED BY <1>4, <1>7, <1>8

\* A directory's places are as many as its size, and come after those of the
\* directories before it.
LEMMA BlocksFollow ==
  ASSUME NEW nth \in Nat
  PROVE  /\ BlockStart(nth) \in Nat /\ TailSizes[(nth % TailDirs) + 1] \in Nat \ {0}
         /\ BlockEnd(nth) = BlockStart(nth) + TailSizes[(nth % TailDirs) + 1]
         /\ \A before \in 0..(nth - 1) : BlockEnd(before) <= BlockStart(nth)
<1> PICK n \in Nat \ {0}, f \in Nat \ {0} : n = TailDirs /\ f = TailFiles
  BY CycleIs
<1> PICK c \in [0..n -> Nat] : c = UpToTail
  BY CycleIs
<1>1. /\ c[n] = f /\ \A j \in 0..n : \A i \in 0..j : c[i] <= c[j]
      /\ \A m \in 1..n : TailSizes[m] \in Nat \ {0} /\ c[m] = c[m - 1] + TailSizes[m]
  BY CycleIs
<1> PICK q \in Nat, k \in 0..(n - 1) : q = nth \div n /\ k = nth % n /\ nth = n * q + k
  BY ONLY nth \in Nat, n \in Nat \ {0}, DivMod
<1>2. BlockStart(nth) = f * q + c[k] /\ BlockEnd(nth) = f * q + c[k + 1]
  BY ONLY q = nth \div n, k = nth % n, n = TailDirs, f = TailFiles, c = UpToTail DEF BlockStart, BlockEnd
<1>3. f * q \in Nat /\ c[k] \in Nat /\ c[k + 1] = c[k] + TailSizes[k + 1] /\ TailSizes[k + 1] \in Nat \ {0}
  <2>1. k \in 0..n /\ k + 1 \in 1..n /\ (k + 1) - 1 = k
    BY ONLY k \in 0..(n - 1), n \in Nat \ {0}
  <2>2. f * q \in Nat
    BY ONLY f \in Nat \ {0}, q \in Nat
  <2> QED BY ONLY <2>1, <2>2, <1>1, c \in [0..n -> Nat]
<1>4. ASSUME NEW before \in 0..(nth - 1) PROVE BlockEnd(before) <= BlockStart(nth)
  <2>1. before \in Nat /\ before < nth
    BY ONLY before \in 0..(nth - 1), nth \in Nat
  <2> PICK p \in Nat, m \in 0..(n - 1) : p = before \div n /\ m = before % n /\ before = n * p + m
    <3> PICK b \in Nat : b = before
      BY ONLY <2>1
    <3>1. b \div n \in Nat /\ b % n \in 0..(n - 1) /\ b = n * (b \div n) + (b % n)
      BY ONLY b \in Nat, n \in Nat \ {0}, DivMod
    <3> QED BY ONLY <3>1, b = before
  <2>2. BlockEnd(before) = f * p + c[m + 1]
    BY ONLY p = before \div n, m = before % n, n = TailDirs, f = TailFiles, c = UpToTail DEF BlockEnd
  <2>3. m + 1 \in 0..n /\ n \in 0..n /\ c[m + 1] \in Nat /\ c[m + 1] <= f /\ f * p \in Nat
    <3>1. m + 1 \in 0..n /\ n \in 0..n
      BY ONLY m \in 0..(n - 1), n \in Nat \ {0}
    <3>2. f * p \in Nat
      BY ONLY f \in Nat \ {0}, p \in Nat
    <3> QED BY ONLY <3>1, <3>2, <1>1, c \in [0..n -> Nat]
  <2>4. ~(q < p)
    <3>1. q < p => n * q + n <= n * p
      <4>1. ASSUME q < p PROVE n * q + n <= n * p
        <5> PICK d \in Nat : d = p - q - 1
          BY <4>1
        <5>1. p = q + 1 + d
          BY ONLY d = p - q - 1, p \in Nat, q \in Nat
        <5>2. n * p = n * q + n + n * d /\ n * d >= 0 /\ n * q \in Int /\ n * d \in Int
          BY ONLY <5>1, n \in Nat \ {0}, q \in Nat, d \in Nat
        <5> QED BY ONLY <5>2, n \in Nat \ {0}
      <4> QED BY ONLY <4>1
    <3>2. n * q \in Int /\ n * p \in Int
      BY ONLY n \in Nat \ {0}, p \in Nat, q \in Nat
    <3> QED BY ONLY <3>1, <3>2, <2>1, nth = n * q + k, before = n * p + m, k \in 0..(n - 1),
                   m \in 0..(n - 1), n \in Nat \ {0}
  <2>5. CASE p = q
    <3>1. m < k
      <4>1. n * q \in Int
        BY ONLY n \in Nat \ {0}, q \in Nat
      <4>2. n * q + m < n * q + k
        BY ONLY <2>1, <2>5, nth = n * q + k, before = n * p + m
      <4> QED BY ONLY <4>1, <4>2, m \in 0..(n - 1), k \in 0..(n - 1), n \in Nat \ {0}
    <3>2. m + 1 \in 0..k /\ k \in 0..n
      BY ONLY <3>1, m \in 0..(n - 1), k \in 0..(n - 1), n \in Nat \ {0}
    <3>3. c[m + 1] <= c[k]
      BY ONLY <3>2, <1>1
    <3> QED BY ONLY <3>3, <2>2, <2>3, <2>5, <1>2, <1>3
  <2>6. CASE p < q
    <3> PICK d \in Nat : d = q - p - 1
      BY <2>6
    <3>1. q = p + 1 + d
      BY ONLY d = q - p - 1, p \in Nat, q \in Nat
    <3>2. f * q = f * p + f + f * d /\ f * d >= 0 /\ f * d \in Int
      BY ONLY <3>1, f \in Nat \ {0}, p \in Nat, d \in Nat
    <3>3. f * p + c[m + 1] <= f * q
      BY ONLY <3>2, <2>3, f \in Nat \ {0}
    <3>4. f * q <= f * q + c[k]
      BY ONLY <1>3
    <3>5. f * p + c[m + 1] \in Int /\ f * q \in Int /\ f * q + c[k] \in Int
      BY ONLY <2>3, <1>3
    <3>6. f * p + c[m + 1] <= f * q + c[k]
      BY ONLY <3>3, <3>4, <3>5
    <3> QED BY ONLY <3>6, <2>2, <1>2
  <2> QED BY ONLY <2>4, <2>5, <2>6, p \in Nat, q \in Nat
<1>5. BlockStart(nth) \in Nat /\ BlockEnd(nth) = BlockStart(nth) + TailSizes[k + 1]
  BY ONLY <1>2, <1>3
<1>6. (nth % TailDirs) + 1 = k + 1
  BY ONLY k = nth % n, n = TailDirs
<1> QED BY ONLY <1>3, <1>4, <1>5, <1>6

-----------------------------------------------------------------------------
(* The tail: the files that go to it *)

\* The files of which TailShare go to the tail.
Million == 1000000

LEMMA CountIs == \A i : TailCount(i) = (i * TailShare) \div Million
  BY ONLY SMT DEF TailCount, Million

\* The tail's counter starts at 0 and a file advances it by one or not at all.
LEMMA CountStep ==
  /\ TailCount(0) = 0
  /\ \A i \in Nat \ {0} : /\ TailCount(i - 1) \in Nat
                          /\ TailCount(i) = TailCount(i - 1) \/ TailCount(i) = TailCount(i - 1) + 1
<1> PICK share \in Nat : share = TailShare /\ share <= Million
  <2>1. TailShare \in Nat /\ TailShare <= Million
    BY ONLY TailShareAssumption, SMT DEF Million
  <2> QED BY ONLY <2>1
<1>0. Million \in Nat \ {0}
  BY ONLY SMT DEF Million
<1>1. TailCount(0) = 0
  <2>1. 0 * share = 0
    BY ONLY share \in Nat
  <2>2. 0 \div Million = 0
    BY ONLY <1>0
  <2> QED BY ONLY <2>1, <2>2, share = TailShare, CountIs
<1>2. ASSUME NEW i \in Nat \ {0}
      PROVE  /\ TailCount(i - 1) \in Nat
             /\ TailCount(i) = TailCount(i - 1) \/ TailCount(i) = TailCount(i - 1) + 1
  <2> PICK j \in Nat : j = i - 1
    OBVIOUS
  <2> PICK a \in Nat : a = j * share
    <3>1. j * share \in Nat
      BY ONLY j \in Nat, share \in Nat
    <3> QED BY ONLY <3>1
  <2>1. i * share = a + share
    <3>1. i = j + 1
      BY ONLY j = i - 1, i \in Nat \ {0}
    <3>2. (j + 1) * share = j * share + share
      BY ONLY j \in Nat, share \in Nat
    <3> QED BY ONLY <3>1, <3>2, a = j * share
  <2>2. a \div Million \in Nat
        /\ (\/ (a + share) \div Million = a \div Million
            \/ (a + share) \div Million = a \div Million + 1)
    BY ONLY a \in Nat, share \in Nat, share <= Million, SMT DEF Million
  <2>3. TailCount(j) = a \div Million /\ TailCount(i) = (a + share) \div Million
    BY ONLY <2>1, a = j * share, share = TailShare, CountIs
  <2> QED BY ONLY <2>2, <2>3, j = i - 1
<1> QED BY ONLY <1>1, <1>2

\* So it never falls.
LEMMA CountGrows ==
  ASSUME NEW j \in Nat
  PROVE  TailCount(j) \in Nat /\ \A i \in 0..j : TailCount(i) <= TailCount(j)
<1> DEFINE T == {k \in Nat : TailCount(k) \in Nat /\ \A i \in 0..k : TailCount(i) <= TailCount(k)}
<1>1. \A i \in 0..0 : i = 0
  OBVIOUS
<1>2. 0 \in T
  <2>1. TailCount(0) = 0
    BY CountStep
  <2>2. \A i \in 0..0 : TailCount(i) <= TailCount(0)
    BY ONLY <1>1, <2>1
  <2> QED BY ONLY <2>1, <2>2
<1>3. ASSUME NEW k \in 1..j, k - 1 \in T PROVE k \in T
  <2> PICK l \in Nat : l = k - 1
    OBVIOUS
  <2>1. TailCount(l) \in Nat /\ \A i \in 0..l : TailCount(i) <= TailCount(l)
    BY ONLY <1>3, l = k - 1
  <2>2. TailCount(k) = TailCount(l) \/ TailCount(k) = TailCount(l) + 1
    <3>1. k \in Nat \ {0}
      BY ONLY k \in 1..j
    <3> QED BY ONLY <3>1, CountStep, l = k - 1
  <2>3. TailCount(k) \in Nat /\ TailCount(l) <= TailCount(k)
    BY ONLY <2>1, <2>2
  <2>4. \A i \in 0..l : TailCount(i) \in Nat
    <3>1. \A i \in 0..l : i \in Nat
      OBVIOUS
    <3>2. \A i \in Nat : TailCount(i) \in Nat
      <4>1. \A i \in Nat : i + 1 \in Nat \ {0} /\ (i + 1) - 1 = i
        OBVIOUS
      <4> QED BY ONLY <4>1, CountStep
    <3> QED BY ONLY <3>1, <3>2
  <2>5. \A i \in 0..k : TailCount(i) <= TailCount(k)
    <3> SUFFICES ASSUME NEW i \in 0..k PROVE TailCount(i) <= TailCount(k)
      OBVIOUS
    <3>1. i \in 0..l \/ i = k
      BY ONLY i \in 0..k, k \in 1..j, l = k - 1, j \in Nat
    <3>2. CASE i \in 0..l
      BY ONLY <3>2, <2>1, <2>3, <2>4
    <3>3. CASE i = k
      BY ONLY <3>3, <2>3
    <3> QED BY ONLY <3>1, <3>2, <3>3
  <2>6. k \in Nat
    BY ONLY k \in 1..j
  <2> QED BY ONLY <2>3, <2>5, <2>6
<1>4. j \in T
  <2>1. T \in SUBSET Nat
    OBVIOUS
  <2>2. 0..j \subseteq T
    <3> HIDE DEF T
    <3> QED BY ONLY <1>2, <1>3, <2>1, j \in Nat, InductionTo
  <2> HIDE DEF T
  <2> QED BY ONLY <2>2, j \in Nat
<1> QED BY ONLY <1>4

\* The place in the tail of a file that goes there.
Place(i) == TailCount(i) - 1

\* The files of a game that go to the tail.
TailOf(size) == {i \in 0..(size - 1) : InTail(i)}

\* Each goes to a place of its own, and no place up to the last is left out.
LEMMA PlacesAreTaken ==
  ASSUME NEW size \in Nat \ {0}, NEW last, last = TailCount(size - 1)
  PROVE  /\ last \in Nat
         /\ \A i \in TailOf(size) : i \in Nat \ {0} /\ Place(i) \in 0..(last - 1)
         /\ \A i, j \in TailOf(size) : Place(i) = Place(j) => i = j
         /\ \A t \in 0..(last - 1) : \E i \in TailOf(size) : Place(i) = t
<1> PICK top \in Nat : top = size - 1
  OBVIOUS
<1>0. \A i \in Nat : TailCount(i) \in Nat
  BY ONLY CountGrows
<1>1. last \in Nat /\ last = TailCount(top)
  BY ONLY <1>0, last = TailCount(size - 1), top = size - 1, top \in Nat
<1>2. ASSUME NEW i \in TailOf(size)
      PROVE  /\ i \in Nat \ {0} /\ i \in 0..top /\ TailCount(i) = TailCount(i - 1) + 1
             /\ TailCount(i - 1) \in Nat
  <2>1. i \in 0..top /\ i \in Nat \ {0} /\ TailCount(i) # TailCount(i - 1)
    BY ONLY i \in TailOf(size), top = size - 1, top \in Nat DEF TailOf, InTail
  <2> QED BY ONLY <2>1, CountStep
<1>3. ASSUME NEW i \in TailOf(size) PROVE Place(i) \in 0..(last - 1)
  <2>1. TailCount(i) <= last
    BY ONLY <1>1, <1>2, CountGrows, top \in Nat
  <2>2. TailCount(i) \in Nat \ {0}
    BY ONLY <1>2
  <2> QED BY ONLY <2>1, <2>2, <1>1 DEF Place
<1>4. ASSUME NEW i \in TailOf(size), NEW j \in TailOf(size), Place(i) = Place(j), i < j PROVE FALSE
  <2>1. i \in 0..(j - 1) /\ j - 1 \in Nat
    BY ONLY <1>2, <1>4
  <2> PICK k \in Nat : k = j - 1
    BY ONLY <2>1
  <2>2. TailCount(i) <= TailCount(k)
    BY ONLY <2>1, CountGrows, k \in Nat, k = j - 1
  <2>3. TailCount(j) = TailCount(k) + 1 /\ TailCount(k) \in Nat /\ TailCount(i) \in Nat
    BY ONLY <1>0, <1>2, k = j - 1
  <2> QED BY ONLY <2>2, <2>3, Place(i) = Place(j) DEF Place
<1>5. ASSUME NEW i \in TailOf(size), NEW j \in TailOf(size), Place(i) = Place(j) PROVE i = j
  <2>1. ~(i < j) /\ ~(j < i)
    BY ONLY <1>4, <1>5
  <2>2. i \in Nat /\ j \in Nat
    BY ONLY <1>2
  <2> QED BY ONLY <2>1, <2>2
<1>6. ASSUME NEW t \in 0..(last - 1) PROVE \E i \in TailOf(size) : Place(i) = t
  <2> DEFINE beyond == {i \in 0..top : TailCount(i) > t}
  <2>1. top \in beyond /\ beyond \in SUBSET Nat
    BY ONLY <1>1, top \in Nat, t \in 0..(last - 1)
  <2> PICK i \in beyond : \A j \in beyond : i <= j
    <3> HIDE DEF beyond
    <3> QED BY ONLY <2>1, LeastNatural
  <2>2. i \in 0..top /\ TailCount(i) > t /\ i # 0
    <3>1. i \in 0..top /\ TailCount(i) > t
      OBVIOUS
    <3>2. ~(0 > t)
      BY ONLY t \in 0..(last - 1)
    <3> QED BY ONLY <3>1, <3>2, CountStep
  <2> PICK k \in 0..top : k = i - 1
    BY ONLY <2>2, top \in Nat
  <2>3. ~(TailCount(k) > t)
    <3>1. k \notin beyond
      <4>1. ~(i <= k)
        BY ONLY <2>2, k = i - 1
      <4> HIDE DEF beyond
      <4> QED BY ONLY <4>1, \A j \in beyond : i <= j
    <3> QED BY ONLY <3>1, k \in 0..top
  <2>4. i \in Nat \ {0} /\ k \in Nat
    BY ONLY <2>2, k \in 0..top
  <2>5. TailCount(i) = TailCount(k) + 1 /\ TailCount(k) \in Nat /\ TailCount(i) = t + 1
    <3>1. TailCount(k) \in Nat /\ (TailCount(i) = TailCount(k) \/ TailCount(i) = TailCount(k) + 1)
      BY ONLY <2>4, CountStep, k = i - 1
    <3> QED BY ONLY <3>1, <2>2, <2>3, t \in 0..(last - 1), <1>1
  <2>6. i \in TailOf(size)
    <3>1. TailCount(i) # TailCount(i - 1)
      BY ONLY <2>5, k = i - 1
    <3> QED BY ONLY <3>1, <2>2, <2>4, top = size - 1 DEF TailOf, InTail
  <2>7. Place(i) = t
    BY ONLY <2>5, t \in 0..(last - 1), <1>1 DEF Place
  <2> QED BY ONLY <2>6, <2>7
<1> QED BY ONLY <1>1, <1>2, <1>3, <1>5, <1>6

\* The files of a directory of the tail.
HeldBy(size, nth) == {i \in TailOf(size) : TailNth(i) = nth}

\* A directory holds no more than its size, and that many once the tail has
\* passed it.
LEMMA HeldIs ==
  ASSUME NEW size \in Nat \ {0}, NEW nth \in Nat, NEW room, room = TailSizes[(nth % TailDirs) + 1]
  PROVE  /\ Cardinality(HeldBy(size, nth)) <= room
         /\ BlockEnd(nth) <= TailCount(size - 1) =>
              Cardinality(HeldBy(size, nth)) = room /\ HeldBy(size, nth) # {}
<1> PICK last : last = TailCount(size - 1)
  OBVIOUS
<1>1. /\ last \in Nat
      /\ \A i \in TailOf(size) : i \in Nat \ {0} /\ Place(i) \in 0..(last - 1)
      /\ \A i, j \in TailOf(size) : Place(i) = Place(j) => i = j
      /\ \A t \in 0..(last - 1) : \E i \in TailOf(size) : Place(i) = t
  BY ONLY PlacesAreTaken, size \in Nat \ {0}, last = TailCount(size - 1)
<1> PICK x \in Nat : x = BlockStart(nth)
  BY BlocksFollow
<1>2. room \in Nat \ {0} /\ BlockEnd(nth) = x + room
  BY ONLY BlocksFollow, nth \in Nat, room = TailSizes[(nth % TailDirs) + 1], x = BlockStart(nth)
<1> PICK S : S = HeldBy(size, nth)
  OBVIOUS
<1> PICK T : T = x..(x + room - 1)
  OBVIOUS
<1>3. IsFiniteSet(T) /\ Cardinality(T) = room
  <2>1. room \in Nat
    BY ONLY <1>2
  <2> QED BY ONLY <2>1, SoMany, x \in Nat, T = x..(x + room - 1)
<1>4. \A i \in TailOf(size) : i \in S <=> Place(i) \in T
  <2> SUFFICES ASSUME NEW i \in TailOf(size) PROVE i \in S <=> Place(i) \in T
    OBVIOUS
  <2> PICK t \in Nat : t = Place(i)
    BY ONLY <1>1
  <2>1. TailNth(i) = NthOf(t)
    BY ONLY t = Place(i) DEF TailNth, NthOf, Place
  <2>2. NthOf(t) = nth <=> x <= t /\ t < x + room
    BY ONLY BlockOf, <1>2, t \in Nat, nth \in Nat, x = BlockStart(nth)
  <2>3. t \in T <=> x <= t /\ t < x + room
    BY ONLY T = x..(x + room - 1), x \in Nat, t \in Nat, <1>2
  <2>4. i \in S <=> TailNth(i) = nth
    BY ONLY S = HeldBy(size, nth), i \in TailOf(size) DEF HeldBy
  <2> QED BY ONLY <2>1, <2>2, <2>3, <2>4, t = Place(i)
<1>5. S \in SUBSET TailOf(size)
  BY ONLY S = HeldBy(size, nth) DEF HeldBy
<1> PICK f : f = [i \in S |-> Place(i)]
  OBVIOUS
<1>6. f \in Injection(S, T)
  <2>1. f \in [S -> T]
    BY ONLY <1>4, <1>5, f = [i \in S |-> Place(i)]
  <2>2. \A i, j \in S : f[i] = f[j] => i = j
    BY ONLY <1>1, <1>5, f = [i \in S |-> Place(i)]
  <2>3. DOMAIN f = S
    BY ONLY <2>1
  <2> QED BY ONLY <2>1, <2>2, <2>3 DEF Injection, IsInjective
<1>7. Cardinality(S) <= room
  BY ONLY <1>3, <1>6, FS_Injection
<1>8. ASSUME BlockEnd(nth) <= last PROVE Cardinality(S) = room /\ S # {}
  <2>1. \A t \in T : \E i \in S : f[i] = t
    <3> SUFFICES ASSUME NEW t \in T PROVE \E i \in S : f[i] = t
      OBVIOUS
    <3>1. t \in 0..(last - 1)
      BY ONLY t \in T, T = x..(x + room - 1), x \in Nat, <1>1, <1>2, <1>8
    <3> PICK i \in TailOf(size) : Place(i) = t
      BY ONLY <1>1, <3>1
    <3>2. i \in S
      BY ONLY <1>4, i \in TailOf(size), Place(i) = t, t \in T
    <3> QED BY ONLY <3>2, Place(i) = t, f = [j \in S |-> Place(j)]
  <2>2. f \in Surjection(S, T)
    BY ONLY <2>1, <1>6 DEF Surjection, Injection
  <2>3. Cardinality(S) = room
    BY ONLY <1>3, <1>6, <2>2, FS_Injection
  <2>4. x \in T
    BY ONLY x \in Nat, T = x..(x + room - 1), <1>2
  <2> QED BY ONLY <2>1, <2>3, <2>4
<1> QED BY ONLY <1>7, <1>8, S = HeldBy(size, nth), last = TailCount(size - 1)

\* The directories of the tail, in the order of its files.
NthsOf(size) == {TailNth(i) : i \in TailOf(size)}

\* A directory files are in comes after ones that hold as many as they may.
LEMMA BeforeAreFull ==
  ASSUME NEW size \in Nat \ {0}, NEW nth \in NthsOf(size)
  PROVE  /\ nth \in Nat
         /\ Cardinality(HeldBy(size, nth)) <= TailSizes[(nth % TailDirs) + 1]
         /\ \A before \in 0..(nth - 1) :
              /\ before \in NthsOf(size)
              /\ Cardinality(HeldBy(size, before)) = TailSizes[(before % TailDirs) + 1]
<1> PICK i \in TailOf(size) : nth = TailNth(i)
  BY DEF NthsOf
<1> PICK last \in Nat : last = TailCount(size - 1)
  BY PlacesAreTaken
<1> PICK t \in 0..(last - 1) : t = Place(i)
  BY ONLY PlacesAreTaken, size \in Nat \ {0}, i \in TailOf(size), last = TailCount(size - 1)
<1>1. t \in Nat /\ t < last
  BY ONLY t \in 0..(last - 1), last \in Nat
<1>2. nth = NthOf(t)
  BY ONLY nth = TailNth(i), t = Place(i) DEF TailNth, NthOf, Place
<1>3. nth \in Nat /\ BlockStart(nth) <= t
  <2>1. NthOf(t) \in Nat
    <3>1. 0 \in Nat
      OBVIOUS
    <3> QED BY ONLY <1>1, <3>1, BlockOf
  <2>2. nth \in Nat
    BY ONLY <1>2, <2>1
  <2> QED BY ONLY <1>1, <1>2, <2>2, BlockOf
<1>4. ASSUME NEW before \in 0..(nth - 1)
      PROVE  /\ before \in NthsOf(size)
             /\ Cardinality(HeldBy(size, before)) = TailSizes[(before % TailDirs) + 1]
  <2> PICK b \in Nat : b = before
    BY ONLY before \in 0..(nth - 1), <1>3
  <2>1. BlockEnd(b) <= BlockStart(nth) /\ BlockStart(nth) \in Nat
    BY ONLY BlocksFollow, <1>3, before \in 0..(nth - 1), b = before
  <2>2. BlockEnd(b) \in Nat
    <3>1. /\ BlockStart(b) \in Nat /\ TailSizes[(b % TailDirs) + 1] \in Nat \ {0}
          /\ BlockEnd(b) = BlockStart(b) + TailSizes[(b % TailDirs) + 1]
      BY ONLY BlocksFollow, b \in Nat
    <3> QED BY ONLY <3>1
  <2>3. BlockEnd(b) <= TailCount(size - 1)
    BY ONLY <2>1, <2>2, <1>1, <1>3, last = TailCount(size - 1), last \in Nat
  <2>4. Cardinality(HeldBy(size, b)) = TailSizes[(b % TailDirs) + 1] /\ HeldBy(size, b) # {}
    BY ONLY <2>3, HeldIs, size \in Nat \ {0}, b \in Nat
  <2>5. b \in NthsOf(size)
    BY ONLY <2>4 DEF HeldBy, NthsOf
  <2> QED BY ONLY <2>4, <2>5, b = before
<1>5. Cardinality(HeldBy(size, nth)) <= TailSizes[(nth % TailDirs) + 1]
  BY ONLY <1>3, HeldIs, size \in Nat \ {0}
<1> QED BY ONLY <1>3, <1>4, <1>5

\* Of two directories one after the other only one is moved.
LEMMA NoTwoMove ==
  ASSUME NEW nth \in Nat \ {0}, Reparented(nth)
  PROVE  ~Reparented(nth - 1)
<1> PICK b \in Nat : b = (nth - 1) * 337
  OBVIOUS
<1>1. nth * 337 = b + 337
  BY ONLY b = (nth - 1) * 337, nth \in Nat \ {0}, SMT
<1> PICK some \in Nat : some = ReparentPer1000 /\ some <= 337
  <2>1. ReparentPer1000 \in Nat /\ ReparentPer1000 <= 337
    BY ONLY ReparentAssumption
  <2> QED BY ONLY <2>1
<1>2. (b + 337) % 1000 < some
  BY ONLY <1>1, Reparented(nth), some = ReparentPer1000 DEF Reparented
<1>3. ~(b % 1000 < some)
  BY ONLY <1>2, b \in Nat, some \in Nat, some <= 337, SMT
<1> QED BY ONLY <1>3, b = (nth - 1) * 337, some = ReparentPer1000 DEF Reparented

\* What lies above the last of some names.
LEMMA FrontIs ==
  ASSUME NEW A, NEW s \in Seq(A), NEW x \in A
  PROVE  Front(Append(s, x)) = s
<1> PICK n \in Nat : n = Len(s)
  OBVIOUS
<1> PICK u : u = Append(s, x)
  OBVIOUS
<1>1. u \in Seq(A) /\ Len(u) = n + 1 /\ \A i \in 1..n : u[i] = s[i]
  BY ONLY u = Append(s, x), n = Len(s), s \in Seq(A), x \in A
<1> PICK v : v = SubSeq(u, 1, n)
  OBVIOUS
<1>2. v \in Seq(A) /\ Len(v) = n /\ \A i \in 1..n : v[i] = u[i]
  <2>1. 1 \in 1..(n + 2) /\ n \in 0..(n + 1)
    BY ONLY n \in Nat
  <2>2. \A i \in 1..n : 1 + i - 1 = i
    OBVIOUS
  <2> QED BY ONLY <1>1, v = SubSeq(u, 1, n), n \in Nat
<1>3. v = s
  BY ONLY <1>1, <1>2, n = Len(s), s \in Seq(A)
<1>4. Front(u) = v
  <2>1. Len(u) - 1 = n
    BY ONLY <1>1, n \in Nat
  <2> QED BY ONLY <2>1, v = SubSeq(u, 1, n) DEF Front
<1> QED BY ONLY <1>3, <1>4, u = Append(s, x)

LEMMA FrontOfThree ==
  ASSUME NEW x, NEW y, NEW z
  PROVE  Front(<<x, y, z>>) = <<x, y>>
<1> PICK A : x \in A /\ y \in A /\ z \in A
  <2> PICK B : B = {x, y, z}
    OBVIOUS
  <2>1. x \in B /\ y \in B /\ z \in B
    BY ONLY B = {x, y, z}
  <2> QED BY ONLY <2>1
<1> PICK t : t = <<x, y, z>>
  OBVIOUS
<1> PICK s : s = <<x, y>>
  OBVIOUS
<1>1. t \in Seq(A) /\ Len(t) = 3 /\ t[1] = x /\ t[2] = y /\ t[3] = z
  BY ONLY t = <<x, y, z>>, x \in A, y \in A, z \in A
<1>2. s \in Seq(A) /\ Len(s) = 2 /\ s[1] = x /\ s[2] = y
  BY ONLY s = <<x, y>>, x \in A, y \in A
<1> PICK u : u = SubSeq(t, 1, 2)
  OBVIOUS
<1>3. u \in Seq(A) /\ Len(u) = 2 /\ u[1] = x /\ u[2] = y
  BY ONLY <1>1, u = SubSeq(t, 1, 2)
<1>4. \A i \in 1..2 : i = 1 \/ i = 2
  OBVIOUS
<1>5. u = s
  <2>1. \A i \in 1..2 : u[i] = s[i]
    BY ONLY <1>2, <1>3, <1>4
  <2> QED BY ONLY <2>1, <1>2, <1>3
<1>6. Front(t) = u
  <2>1. Len(t) - 1 = 2
    BY ONLY <1>1
  <2> QED BY ONLY <2>1, u = SubSeq(t, 1, 2) DEF Front
<1> QED BY ONLY <1>5, <1>6, t = <<x, y, z>>, s = <<x, y>>

\* A directory of the tail that lies under another of the tail lies under one that
\* files are in.
LEMMA MovedHang ==
  ASSUME NEW size \in Nat \ {0}, NEW i \in TailOf(size),
         Last(Front(DirOf(i)))[1] = "leaf"
  PROVE  Front(DirOf(i)) \in {DirOf(j) : j \in 0..(size - 1)}
<1>1. \A j \in TailOf(size) : j \in 0..(size - 1) /\ DirOf(j) = TailDir(TailNth(j))
  <2>1. \A j \in TailOf(size) : j \in 0..(size - 1) /\ InTail(j) /\ j # 0
    BY DEF TailOf, InTail
  <2> QED BY ONLY <2>1 DEF DirOf
<1> PICK nth \in NthsOf(size) : nth = TailNth(i)
  BY DEF NthsOf
<1>2. DirOf(i) = TailDir(nth)
  BY ONLY <1>1, i \in TailOf(size), nth = TailNth(i)
<1>3. \A m : \E x, y, z : TailChain(m) = <<x, y, z>> /\ y[1] = "lower"
  <2> SUFFICES ASSUME NEW m
               PROVE  \E x, y, z : TailChain(m) = <<x, y, z>> /\ y[1] = "lower"
    OBVIOUS
  <2> PICK x, z : x = <<"upper", (m \div ChainUpper) % SynWords, (m \div ChainUpper) % 100>> /\ z = Leaf(m)
    OBVIOUS
  <2> PICK y : y = <<"lower", (m \div ChainLower) % SynWords, (m \div ChainLower) % 1000>>
    OBVIOUS
  <2>1. TailChain(m) = <<x, y, z>>
    BY DEF TailChain
  <2>2. y[1] = "lower"
    OBVIOUS
  <2> QED BY ONLY <2>1, <2>2
<1>4. Reparented(nth)
  <2> SUFFICES ASSUME ~Reparented(nth) PROVE FALSE
    OBVIOUS
  <2>1. DirOf(i) = TailChain(nth)
    BY ONLY <1>2, ~Reparented(nth) DEF TailDir
  <2> PICK x, y, z : TailChain(nth) = <<x, y, z>> /\ y[1] = "lower"
    BY ONLY <1>3
  <2>0. Front(DirOf(i)) = <<x, y>>
    BY ONLY <2>1, FrontOfThree, TailChain(nth) = <<x, y, z>>
  <2>2. Last(<<x, y>>) = y
    BY ONLY DEF Last
  <2>3. y[1] = "leaf"
    BY ONLY <2>2, <2>0, Last(Front(DirOf(i)))[1] = "leaf"
  <2> QED BY ONLY <2>3, y[1] = "lower"
<1>5. Front(DirOf(i)) = TailChain(nth - 1)
  <2>1. DirOf(i) = Append(TailChain(nth - 1), Leaf(nth))
    BY ONLY <1>2, <1>4 DEF TailDir
  <2> PICK x, y, z : TailChain(nth - 1) = <<x, y, z>>
    BY ONLY <1>3
  <2>2. \A w : Front(Append(<<x, y, z>>, w)) = <<x, y, z>>
    <3> SUFFICES ASSUME NEW w PROVE Front(Append(<<x, y, z>>, w)) = <<x, y, z>>
      OBVIOUS
    <3> PICK A : A = {x, y, z, w}
      OBVIOUS
    <3>1. <<x, y, z>> \in Seq(A) /\ w \in A
      BY ONLY A = {x, y, z, w}
    <3> QED BY ONLY <3>1, FrontIs
  <2> QED BY ONLY <2>1, <2>2, TailChain(nth - 1) = <<x, y, z>>
<1>6. nth \in Nat \ {0} /\ nth - 1 \in NthsOf(size)
  <2>1. nth # 0
    BY ONLY <1>4 DEF Reparented
  <2>2. nth \in Nat /\ \A before \in 0..(nth - 1) : before \in NthsOf(size)
    BY ONLY BeforeAreFull, size \in Nat \ {0}, nth \in NthsOf(size)
  <2>3. nth - 1 \in 0..(nth - 1)
    BY ONLY <2>1, <2>2
  <2> QED BY ONLY <2>1, <2>2, <2>3
<1> PICK j \in TailOf(size) : TailNth(j) = nth - 1
  BY <1>6 DEF NthsOf
<1>7. ~Reparented(nth - 1)
  BY ONLY <1>4, <1>6, NoTwoMove
<1>8. DirOf(j) = TailChain(nth - 1) /\ j \in 0..(size - 1)
  BY ONLY <1>1, <1>7, j \in TailOf(size), TailNth(j) = nth - 1 DEF TailDir
<1> QED BY ONLY <1>5, <1>8

LEMMA LaidInOrder == GInv => TailIsLaidInOrder
<1> SUFFICES ASSUME GInv, modded # None
             PROVE  LET files == {i \in GameFiles : InTail(i)}
                        nths == {TailNth(i) : i \in files}
                        held(nth) == Cardinality({i \in files : TailNth(i) = nth})
                        dirs == {DirOf(i) : i \in GameFiles}
                    IN /\ \A nth \in nths :
                            /\ \A before \in 0..(nth - 1) :
                                 before \in nths /\ held(before) = TailSizes[(before % TailDirs) + 1]
                            /\ held(nth) <= TailSizes[(nth % TailDirs) + 1]
                       /\ \A i \in files :
                            Front(DirOf(i)) # <<>> /\ Last(Front(DirOf(i)))[1] = "leaf"
                              => Front(DirOf(i)) \in dirs
  BY DEF TailIsLaidInOrder, JustMade
<1> PICK size \in Nat \ {0} : size = modded.base
  <2>1. modded.asked \in Asked /\ modded.base = modded.asked.base
    BY DEF GInv, MadeAsAsked
  <2>2. modded.asked.base \in 1..AddedFrom /\ AddedFrom \in Nat
    BY <2>1, GameAssumption, TablesAssumption
  <2> QED BY <2>1, <2>2
<1>1. GameFiles = 0..(size - 1)
  BY ONLY size = modded.base DEF GameFiles
<1>2. {i \in GameFiles : InTail(i)} = TailOf(size)
  BY ONLY <1>1 DEF TailOf
<1>3. \A nth : {i \in TailOf(size) : TailNth(i) = nth} = HeldBy(size, nth)
  BY ONLY DEF HeldBy
<1>4. {TailNth(i) : i \in TailOf(size)} = NthsOf(size)
  BY ONLY DEF NthsOf
<1>5. \A nth \in NthsOf(size) :
        /\ \A before \in 0..(nth - 1) :
             /\ before \in NthsOf(size)
             /\ Cardinality(HeldBy(size, before)) = TailSizes[(before % TailDirs) + 1]
        /\ Cardinality(HeldBy(size, nth)) <= TailSizes[(nth % TailDirs) + 1]
  BY ONLY BeforeAreFull, size \in Nat \ {0}
<1>6. \A i \in TailOf(size) :
        Front(DirOf(i)) # <<>> /\ Last(Front(DirOf(i)))[1] = "leaf"
          => Front(DirOf(i)) \in {DirOf(j) : j \in 0..(size - 1)}
  BY ONLY MovedHang, size \in Nat \ {0}
<1> QED BY ONLY <1>1, <1>2, <1>3, <1>4, <1>5, <1>6

\* For tables of every size and every share of the tail, the tail is laid down
\* in order and a moved directory hangs under one that files are in
\* (romfs_model.py:443-446, 353-356).
THEOREM TailHolds == GameSpec => []TailIsLaidInOrder
  BY LaidInOrder, Invariance, PTL
=============================================================================
