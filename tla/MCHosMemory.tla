---------------------------- MODULE MCHosMemory ----------------------------
(* Pages of two bytes, requests that end in the middle of one, and a static
   buffer that begins off a page and ends short; the build stores zeros and
   one other byte. *)
EXTENDS HosMemory

MCBuffer == [addr |-> 1, size |-> 3]
=============================================================================
