------------------------------- MODULE MCGame -------------------------------
(* A tail that takes four files of five, of directories of one file and one
   of two, so that nine files reach a moved directory, the one after it and
   the second time round the bands.  Two titles, of a base of one file and of
   nine; what is asked of them covers an update dropped, hidden and shown. *)
EXTENDS Game

D(name) == <<"dir", name>>
MCListed == <<[dir |-> <<D("UI"), D("Tex"), D("Icon")>>, share |-> 4],
              [dir |-> <<D("Model")>>, share |-> 3],
              [dir |-> <<D("UI"), D("Map")>>, share |-> 1]>>
MCDirRank == << <<D("UI")>>, <<D("UI"), D("Tex")>> >>
MCRankOf == [d \in {MCDirRank[i] : i \in 1..2} |-> CHOOSE i \in 1..2 : MCDirRank[i] = d]
MCBands == <<<<1, 2>>, <<2, 1>>>>

Of(overridden, added) == [overridden |-> overridden, added |-> added]
MCAsked == {
  [base |-> 1, loose |-> Of(1, 0), packed |-> Of(0, 0), patched |-> TRUE],
  [base |-> 1, loose |-> Of(0, 1), packed |-> Of(0, 0), patched |-> TRUE],
  [base |-> 9, loose |-> Of(1, 0), packed |-> Of(0, 2), patched |-> TRUE],
  [base |-> 9, loose |-> Of(2, 1), packed |-> Of(1, 1), patched |-> FALSE]}

=============================================================================
