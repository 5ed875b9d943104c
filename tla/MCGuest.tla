------------------------------ MODULE MCGuest ------------------------------
(* An image of six bytes, in every way that leaves a row's room, with code
   that ends inside a page; ids of two bytes, so that one lies across the end
   of a chunk of three. *)
EXTENDS Guest

MCImage == [Addr -> Byte]
MCProgram == <<1, 2>>
MCProbe == <<2, 2>>
MCGrant == {[app |-> 1, sys |-> 0], [app |-> 2, sys |-> 2]}
Code == {[addr |-> 1, size |-> 4]}
MCLayout == {[code |-> Code, magic |-> m] : m \in {1, 3, Hi + 1}}
MCReadAsked == {[offset |-> 2, size |-> 8], [offset |-> 5, size |-> 4]}
=============================================================================
