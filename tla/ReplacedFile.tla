---------------------------- MODULE ReplacedFile ----------------------------
(***************************************************************************)
(* What the index file promises to those who save and load it              *)
(* (IndexSerializer::WriteFileAtomically, ReplaceFileForRootWrite): a      *)
(* reader finds one whole version, a save puts another in its place in one *)
(* step, and once it has returned true no power failure brings back what   *)
(* was there before.                                                       *)
(***************************************************************************)
CONSTANTS
    Writers,
    Versions, NoVersion   \* what may be in the file, and that there is none

VARIABLES
    file,      \* the version there, or NoVersion
    survivors, \* the versions of which a power failure may leave one
    phase,     \* each writer: "idle", "saving" or "replaced"
    ok         \* what its last save returned

vars == <<file, survivors, phase, ok>>

Begin(w) ==
    /\ phase[w] = "idle"
    /\ phase' = [phase EXCEPT ![w] = "saving"]
    /\ UNCHANGED <<file, survivors, ok>>

Replace(w) ==
    /\ phase[w] = "saving"
    /\ phase' = [phase EXCEPT ![w] = "replaced"]
    /\ file' \in Versions
    /\ survivors' = survivors \cup {file'}
    /\ UNCHANGED ok

Succeed(w) ==
    /\ phase[w] = "replaced"
    /\ phase' = [phase EXCEPT ![w] = "idle"]
    /\ ok' = [ok EXCEPT ![w] = TRUE]
    /\ survivors' = {file}
    /\ UNCHANGED file

\* It fails, or its process is killed, whether or not it has replaced the file.
Fail(w) ==
    /\ phase[w] # "idle"
    /\ phase' = [phase EXCEPT ![w] = "idle"]
    /\ ok' = [ok EXCEPT ![w] = FALSE]
    /\ UNCHANGED <<file, survivors>>

PowerFailure ==
    /\ file' \in survivors /\ survivors' = {file'}
    /\ phase' = [w \in Writers |-> "idle"]
    /\ ok' = [w \in Writers |-> FALSE]

Init ==
    /\ file \in Versions \cup {NoVersion} /\ survivors = {file}
    /\ phase = [w \in Writers |-> "idle"] /\ ok = [w \in Writers |-> FALSE]

Next ==
    \/ PowerFailure
    \/ \E w \in Writers : Begin(w) \/ Replace(w) \/ Succeed(w) \/ Fail(w)

Spec == Init /\ [][Next]_vars
=============================================================================
