--------------------------- MODULE MCLiveMonitor ---------------------------
(* LiveMonitor on a root with room for two directories with a file each, and  *)
(* a third with a file below the second, of which one and its file are there. *)
EXTENDS LiveMonitor

d  == <<"d">>
e  == <<"e">>
df == <<"d", "f">>
ef == <<"e", "f">>
ed == <<"e", "d">>

Files == {df, ef, <<"e", "d", "f">>}
Dirs  == {d, e, ed}

StartPopulated == {e, ef}
=============================================================================
