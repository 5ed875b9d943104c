---------------------------- MODULE MCBoundaries ----------------------------
(* Five words.  The module's function has two, which call or jump; the words
   after them, a service's and a helper's, do anything.  The tables differ in
   who says a size: all; all, with two names for the last word and a word of
   padding before it; all but the service, which then reaches to the next
   symbol and has two, so that it and what it calls can lead to each other and
   to a syscall.  One of the services has real behaviour already. *)
EXTENDS Boundaries, TLC

MCFn == {"ams::mitm::Run", "ams::pm::Ask", "svcCall", "ams::sm::Get"}
MCNameOrder == [f \in MCFn |-> CASE f = "ams::mitm::Run" -> 1
                                 [] f = "ams::pm::Ask" -> 2
                                 [] f = "ams::sm::Get" -> 3
                                 [] OTHER -> 4]
MCModule == {"ams::mitm::Run"}
MCService == {"ams::pm::Ask", "ams::sm::Get"}
MCHooked == {"ams::sm::Get"}
MCAddr == 0..4

Table(ask, get, call, askSize) ==
  [start |-> [f \in MCFn |-> CASE f = "ams::mitm::Run" -> 0
                               [] f = "ams::pm::Ask" -> ask
                               [] f = "ams::sm::Get" -> get
                               [] OTHER -> call],
   size  |-> [f \in MCFn |-> CASE f = "ams::mitm::Run" -> 2
                               [] f = "ams::pm::Ask" -> askSize
                               [] OTHER -> 1]]

MCTables == {Table(2, 3, 4, 1), Table(2, 4, 4, 1), Table(2, 4, 4, 0)}

W(op) == [op |-> op, to |-> 0]
To(op, a) == [op |-> op, to |-> a]

First  == {To("bl", 2), To("b", 3)}
Second == {To("b", 4), To("bl", 0)}
Rest   == {W("svc"), W("blr"), W("other"), To("bl", 2), To("b", 3), To("bl", 4)}

MCBinaries ==
  {[start |-> t.start, size |-> t.size,
    code |-> 0 :> v @@ 1 :> w @@ 2 :> x @@ 3 :> y @@ 4 :> z] :
     t \in MCTables, v \in First, w \in Second, x \in Rest, y \in Rest, z \in Rest}
=============================================================================
