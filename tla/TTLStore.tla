------------------------------ MODULE TTLStore ------------------------------
(***************************************************************************)
(* What the query cache promises its callers, without the map, the list or *)
(* the capacity of queryCache (cache.go): a Get answers either "nothing"   *)
(* or the value of the latest Set of that key since the last Purge, and    *)
(* the value only while it is at most TTL old.                             *)
(***************************************************************************)
EXTENDS Naturals

CONSTANTS Keys, Values, TTL, MaxTime, None

VARIABLES
    now,     \* the clock
    latest,  \* key -> value and time of its latest Set, or None
    answer   \* what the latest Get returned, and for which key

vars == <<now, latest, answer>>

Init ==
    /\ now = 0
    /\ latest = [k \in Keys |-> None]
    /\ answer = None

Set(k, v) ==
    /\ latest' = [latest EXCEPT ![k] = [value |-> v, at |-> now]]
    /\ UNCHANGED <<now, answer>>

\* Mutant of Alive: a value does not age.
AliveForever(k) == latest[k] # None

Alive(k) == latest[k] # None /\ now <= latest[k].at + TTL

GetValue(k) ==
    /\ Alive(k)
    /\ answer' = [key |-> k, value |-> latest[k].value]
    /\ UNCHANGED <<now, latest>>

GetNothing(k) ==
    /\ answer' = [key |-> k, value |-> None]
    /\ UNCHANGED <<now, latest>>

Purge ==
    /\ latest' = [k \in Keys |-> None]
    /\ UNCHANGED <<now, answer>>

Tick ==
    /\ now < MaxTime
    /\ now' = now + 1
    /\ UNCHANGED <<latest, answer>>

Next ==
    \/ \E k \in Keys, v \in Values : Set(k, v)
    \/ \E k \in Keys : GetValue(k) \/ GetNothing(k)
    \/ Purge
    \/ Tick

Spec == Init /\ [][Next]_vars
=============================================================================
