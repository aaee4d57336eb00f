--------------------------- MODULE MCIndexService ---------------------------
(* IndexService on two roots with a file each, and the bounds of its runs. *)
EXTENDS IndexService, TLC

CONSTANTS r1, r2, p1, p2

MCRootOf == (p1 :> r1) @@ (p2 :> r2)

Bounded(requests, refusals, batches, saves, reloads, elevations, closes) ==
    ("request" :> requests) @@ ("refuse" :> refusals) @@ ("batch" :> batches) @@
    ("save" :> saves) @@ ("reload" :> reloads) @@ ("elevate" :> elevations) @@
    ("close" :> closes)

\* Requests that supersede one another and a change whose Save fails, with a
\* helper that takes over, saves and leaves; a file operation against scans, and
\* a window that closes.
LimitRequests == Bounded(4, 1, 0, 1, 2, 1, 0)
LimitClose    == Bounded(2, 0, 1, 0, 0, 0, 1)

\* Bound: requests, changes whose Save fails and elevations, taken together.
FourInAll == used["request"] + used["refuse"] + used["elevate"] <= 4

\* Swapping the two roots together with their files changes nothing.
Swap == {r1 :> r2 @@ r2 :> r1 @@ p1 :> p2 @@ p2 :> p1}
=============================================================================
