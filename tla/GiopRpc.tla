------------------------------ MODULE GiopRpc ------------------------------
(***************************************************************************)
(* What a mel* operation of m70_giop.h promises its caller, one call at a  *)
(* time: the call ends with the verdict of the device on this very         *)
(* request, or it ends with the loss of the connection, after which        *)
(* nothing is asked over it until the application connects again.          *)
(***************************************************************************)
VARIABLES
    phase,      \* "idle" or "busy": is a call in progress
    up,         \* the connection is usable
    verdict,    \* the device's answer to the latest request, "none" before it
    result      \* what the last call returned

Verdicts == {"ok", "error"}
Results  == Verdicts \union {"lost"}

vars == <<phase, up, verdict, result>>

Init == phase = "idle" /\ up = FALSE /\ verdict = "none" /\ result \in Results

Connect ==
    /\ phase = "idle" /\ ~up
    /\ up' = TRUE /\ verdict' = "none"
    /\ UNCHANGED <<phase, result>>

Disconnect ==
    /\ phase = "idle" /\ up
    /\ up' = FALSE
    /\ UNCHANGED <<phase, verdict, result>>

Request ==
    /\ phase = "idle" /\ up
    /\ phase' = "busy" /\ verdict' = "none"
    /\ UNCHANGED <<up, result>>

\* The device may still answer a request whose call was lost.
Answer ==
    /\ phase = "busy" \/ ~up
    /\ verdict = "none"
    /\ verdict' \in Verdicts
    /\ UNCHANGED <<phase, up, result>>

Lose ==
    /\ phase = "busy" /\ up
    /\ up' = FALSE
    /\ UNCHANGED <<phase, verdict, result>>

Return ==
    /\ phase = "busy"
    /\ up => verdict # "none"
    /\ phase' = "idle"
    /\ result' = IF up THEN verdict ELSE "lost"
    /\ UNCHANGED <<up, verdict>>

\* A call on a connection that is not usable, or with an argument that is
\* not, fails without asking anything.
Refuse ==
    /\ phase = "idle"
    /\ result' \in {"error"} \union (IF up THEN {} ELSE {"lost"})
    /\ UNCHANGED <<phase, up, verdict>>

Next == Connect \/ Disconnect \/ Request \/ Answer \/ Lose \/ Return \/ Refuse

Spec == Init /\ [][Next]_vars
=============================================================================
