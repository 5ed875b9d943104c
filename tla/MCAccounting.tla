---------------------------- MODULE MCAccounting ----------------------------
(* The base romfs with two regions that touch and one past a gap, a packed
   mod with one region, and a file no layout is known of; one entry point of
   each kind, and one no kind names. *)
EXTENDS Accounting

MCLayout ==
  [base |-> <<[name |-> "base header", first |-> 0, last |-> 1],
              [name |-> "base file data", first |-> 2, last |-> 4],
              [name |-> "base dir hash", first |-> 4, last |-> 5]>>,
   bin  |-> <<[name |-> "romfs.bin header", first |-> 0, last |-> 2]>>,
   metadata |-> <<>>]

MCNameOf == [base |-> "<base romfs>", bin |-> "romfs.bin", metadata |-> "romfs_metadata.bin"]

Ranges(call, target, spans) ==
  {[call |-> call,
    range |-> [target |-> target, offset |-> s[1], size |-> s[2],
               written |-> call = "fsFileWrite"]] : s \in spans}

MCCrossing ==
  Ranges("fsStorageRead", "base", {<<0, 3>>, <<2, 2>>, <<3, 2>>, <<0, 0>>})
    \cup Ranges("fsFileRead", "bin", {<<1, 2>>})
    \cup Ranges("fsFileWrite", "metadata", {<<0, 2>>, <<1, 2>>, <<3, 1>>})

MCHandleCall ==
  {[call |-> "fsFsOpenFile", path |-> "romfs_metadata.bin"],
   [call |-> "fsFileClose", path |-> "romfs_metadata.bin"],
   [call |-> "fsFsCreateFile", path |-> "romfs_metadata.bin"]}

MCBareCall == {"fsFsClose", "fsGetGlobalAccessLogMode"}
=============================================================================
