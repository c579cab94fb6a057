---------------------------- MODULE AtLeastOnce -----------------------------
(***************************************************************************)
(* What one SDK call means for the server: its operation may take effect   *)
(* as often as the call may send it, and even after the call has failed;   *)
(* it has taken effect at least once when the call succeeds, and nothing   *)
(* is sent once the call has returned.                                     *)
(***************************************************************************)
EXTENDS Naturals

VARIABLES
    limit,    \* most requests the call may send
    sent,     \* requests sent
    applied,  \* requests that took effect
    outcome   \* "pending", "ok" or "failed"

vars == <<limit, sent, applied, outcome>>

Init ==
    /\ limit \in Nat \ {0}
    /\ sent = 0
    /\ applied = 0
    /\ outcome = "pending"

Send ==
    /\ outcome = "pending"
    /\ sent < limit
    /\ sent' = sent + 1
    /\ UNCHANGED <<limit, applied, outcome>>

Apply ==
    /\ applied < sent
    /\ applied' = applied + 1
    /\ UNCHANGED <<limit, sent, outcome>>

Succeed ==
    /\ outcome = "pending"
    /\ applied > 0
    /\ outcome' = "ok"
    /\ UNCHANGED <<limit, sent, applied>>

Fail ==
    /\ outcome = "pending"
    /\ outcome' = "failed"
    /\ UNCHANGED <<limit, sent, applied>>

Next == Send \/ Apply \/ Succeed \/ Fail

Safety == Init /\ [][Next]_vars

Spec == Safety /\ WF_vars(Succeed \/ Fail)
=============================================================================
