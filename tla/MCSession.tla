------------------------------ MODULE MCSession -----------------------------
(* Session with settings whose second version adds a root and whose third drops
   it again; from the first to the third only the exclusions change. What a torn
   file holds is the first root. The last session, of settings 0, left a status
   that a power failure cut off between its two locations. *)
EXTENDS Session

MCRootsOf == [v \in {0, 1, 2, 3, Torn} |-> CASE v = 0 -> <<"/x", "/y">>
                                              [] v = 2 -> <<"/a", "/b">>
                                              [] OTHER -> <<"/a">>]

Whole == SerializeStatus([state |-> "Idle", filesIndexed |-> Roots(0), locations |-> RootsOf[0]])
MCOldStatus == {[lines |-> SubSeq(Whole.lines, 1, 6), cut |-> FALSE]}
=============================================================================
