----------------------------- MODULE MCSdMirror -----------------------------
(* An SD of fifteen paths: the directories Atmosphere keeps its contents and
   configuration in, one mod file and one file of the build's own, the
   settings file, each with what it is called on the host where that differs,
   and one link out of the mirror.  The build spells the mod with two slashes
   as well, and the settings file with a backslash, and goes through ".." to
   the mirror itself.  The host directory was filled by hand, with its program
   id in lower case: once with a file of the build's own below the id, and once
   with a file in its place. *)
EXTENDS SdMirror

Contents == <<"atmosphere", "contents">>
Title    == Contents \o <<"0100id">>
Own      == Title \o <<"metadata">>
Romfs    == Title \o <<"romfs.bin">>
TitleUp  == Contents \o <<"0100ID">>
OwnUp    == TitleUp \o <<"metadata">>
RomfsUp  == TitleUp \o <<"romfs.bin">>
Config   == <<"atmosphere", "config">>
Ini      == Config \o <<"system_settings.ini">>

RomfsTwice == Contents \o <<"", "0100id", "romfs.bin">>
BackConfig == <<"atmosphere\\config">>
BackIni    == BackConfig \o <<"system_settings.ini">>
AtRoot     == <<"atmosphere", "..">>
Link       == <<"link">>

MCName == {"", "..", "link", "atmosphere", "contents", "0100id", "0100ID", "romfs.bin",
           "metadata", "config", "system_settings.ini", "atmosphere\\config"}
MCUpper == [n \in MCName |-> IF n = "0100id" THEN "0100ID" ELSE n]
MCLower == [n \in MCName |-> IF n = "0100ID" THEN "0100id" ELSE n]
MCPieces == [n \in MCName |-> IF n = "atmosphere\\config" THEN <<"atmosphere", "config">> ELSE <<n>>]

MCOrder == <<<<"atmosphere">>, AtRoot, Config, Ini, Contents, RomfsTwice, TitleUp, OwnUp, RomfsUp,
             Title, Own, Romfs, BackConfig, BackIni, Link>>
MCSpelling == {MCOrder[i] : i \in DOMAIN MCOrder}
MCPath == MCSpelling \ {RomfsTwice}
MCPlainPath == MCPath \ {AtRoot, BackConfig, BackIni, Link}
MCPlainRank == [p \in MCPlainPath |-> CHOOSE i \in DOMAIN MCOrder : MCOrder[i] = p]
MCRank == [p \in MCSpelling |-> CHOOSE i \in DOMAIN MCOrder : MCOrder[i] = p]

MCEscaping == {Link}
MCModPath == {Romfs}
MCTargetPath == {Title, Own, Romfs}
MCOddPath == {Title, Romfs, RomfsTwice, Ini, BackIni, AtRoot, Link}

Settled == Place(Place(Empty, Ini, Whole(<<0>>)), Romfs, Whole(<<0>>))
MCInitialMirror == {Place(Settled, Own, Whole(<<0>>)), Place(Settled, Title, Whole(<<0>>))}
=============================================================================
