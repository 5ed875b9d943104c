---------------------------- MODULE MCFsServices ----------------------------
(* The romfs directory of one title, with the two files of a mod delivered
   loose.  The build's calls name the directory and one of the two, which it
   may have made a file or a directory of before the mod came, and the
   listing of the directory has the other beside it. *)
EXTENDS FsServices

Romfs == <<"atmosphere", "contents", "0100id", "romfs">>
Mod   == Romfs \o <<"a">>
Other == Romfs \o <<"b">>
Ini   == <<"atmosphere", "config", "system_settings.ini">>

MCName == {"atmosphere", "contents", "0100id", "romfs", "a", "b", "config", "system_settings.ini"}
MCUnchanged == [n \in MCName |-> n]
MCPieces == [n \in MCName |-> <<n>>]

MCOrder == <<<<"atmosphere">>, <<"atmosphere", "config">>, Ini, <<"atmosphere", "contents">>,
             <<"atmosphere", "contents", "0100id">>, Romfs, Mod, Other>>
MCPath == {MCOrder[i] : i \in DOMAIN MCOrder}
MCRank == [p \in MCPath |-> CHOOSE i \in DOMAIN MCOrder : MCOrder[i] = p]

MCModPath == {Mod, Other}
MCTargetPath == {Romfs, Mod}
MCEntryKinds == {{"dir", "file"}}
MCOpenMode == {{"read"}, {"write"}}
=============================================================================
