---------------------------- MODULE MCRomfsCheck ----------------------------
(* Files in a directory b and in and below a directory d, which may be made
   before b: one of them, in d, has the name of the directory another of them
   is in.  One may be of no length, one is the mod's own and one it delivers
   packed; names collide in their buckets. *)
EXTENDS RomfsCheck

MCOrder == <<<<"a">>, <<"b", "a">>, <<"d", "a">>, <<"d", "d">>, <<"d", "d", "b">>, <<"d", "e">>>>
MCPathRank == [p \in ToSet(MCOrder) |-> CHOOSE i \in DOMAIN MCOrder : MCOrder[i] = p]

MCNames == <<"a", "b", "d", "e">>
MCNameRank == [n \in ToSet(MCNames) |-> CHOOSE i \in DOMAIN MCNames : MCNames[i] = n]
MCHash == [k \in (1..5) \X ToSet(MCNames) |-> k[1] + MCNameRank[k[2]]]

MCAddable == [path : {<<"b", "a">>}, size : {0, 3}]
               \cup [path : {<<"d", "a">>, <<"d", "e">>, <<"d", "d", "b">>, <<"d", "d">>}, size : {3}]

MCModLoose == {<<"d", "a">>}
MCModBin == {<<"d", "d", "b">>}
=============================================================================
