-------------------------------- MODULE Scan --------------------------------
(***************************************************************************)
(* What a scan promises to the code that asks for it                       *)
(* (IFileSystemScanner::Scan): it reports entries of the file system one   *)
(* by one, none twice and none out of scope, and returns when it was       *)
(* cancelled or has reported every one in scope that is still there.       *)
(***************************************************************************)
EXTENDS Naturals

CONSTANTS
    Entries,   \* paths
    InScope    \* those the options of the scan ask for

VARIABLES
    files,      \* the paths that exist
    emitted,    \* how often onEntry was called for each path
    cancelled,  \* *cancelToken
    finished    \* Scan has returned

vars == <<files, emitted, cancelled, finished>>

Emit(p) ==
    /\ ~finished
    /\ p \in InScope /\ emitted[p] = 0
    /\ emitted' = [emitted EXCEPT ![p] = 1]
    /\ UNCHANGED <<files, cancelled, finished>>

Finish ==
    /\ ~finished
    /\ cancelled \/ \A p \in files \cap InScope : emitted[p] = 1
    /\ finished' = TRUE
    /\ UNCHANGED <<files, emitted, cancelled>>

\* The caller cancels, and other programs remove files, at any time.
Cancel ==
    /\ cancelled' = TRUE
    /\ UNCHANGED <<files, emitted, finished>>

Vanish(p) ==
    /\ files' = files \ {p}
    /\ UNCHANGED <<emitted, cancelled, finished>>

Init ==
    /\ files \subseteq Entries /\ emitted = [p \in Entries |-> 0]
    /\ cancelled = FALSE /\ finished = FALSE

Next == Finish \/ Cancel \/ \E p \in Entries : Emit(p) \/ Vanish(p)

Spec == Init /\ [][Next]_vars

Returns == <>finished
=============================================================================
