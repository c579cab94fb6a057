---------------------------- MODULE Singleflight ----------------------------
(***************************************************************************)
(* sfGroup (singleflight.go): concurrent Do calls with one key share one   *)
(* run of fn, and the outcome stays "sticky" for a window after it was     *)
(* stored.                                                                 *)
(*                                                                         *)
(* A member of Calls is one invocation of Do, so a goroutine that calls Do *)
(* again is another member; a run of fn is named after the call that leads *)
(* it.  The group of golang.org/x/sync is external: `flight' is its map,   *)
(* Join, Lead and Finish are what its Do does around fn.                   *)
(*                                                                         *)
(* Do takes s.mu only for the sticky check and for the store, so the clock *)
(* and every other call may move between any two of its steps.             *)
(***************************************************************************)
EXTENDS Naturals

CONSTANTS
    Calls,      \* invocations of Do
    Keys,       \* non-empty fingerprints
    Window,     \* the sticky window, in ticks (newSFGroup: > 0)
    MaxTime,    \* bound of the clock
    None        \* absent map entry, and the empty key

ASSUME WindowAssumption == Window \in Nat \ {0} /\ MaxTime \in Nat
ASSUME NoneAssumption   == None \notin Calls /\ None \notin Keys

VARIABLES
    now,        \* time.Now(), in ticks
    pending,    \* s.pending: key -> stored run and its expiry
    flight,     \* s.g.m: key -> the call leading the open flight
    forgetting, \* the key of a Forget that is between its two steps
    pc,         \* where each call is
    key,        \* the key each call was made with
    run,        \* the run each call waits for, or whose (value, err) it returned
    entered,    \* history: when each call made its sticky check
    closed,     \* history: when each leading call's flight was closed
    forgotten   \* history: runs whose flight a Forget removed from the group

groupVars == <<pending, flight, forgetting>>
callVars  == <<pc, key, run>>
histVars  == <<entered, closed, forgotten>>
vars      == <<now, groupVars, callVars, histVars>>

Flying == {"running", "storing", "finishing"}

Stages == {"idle", "direct", "missed", "waiting", "done"} \cup Flying

Pending == [run : Calls, expiry : Nat]

TypeOK ==
    /\ now \in Nat
    /\ pending \in [Keys -> Pending \cup {None}]
    /\ flight \in [Keys -> Calls \cup {None}]
    /\ forgetting \in Keys \cup {None}
    /\ pc \in [Calls -> Stages]
    /\ key \in [Calls -> Keys \cup {None}]
    /\ run \in [Calls -> Calls \cup {None}]
    /\ entered \in [Calls -> Nat]
    /\ closed \in [Calls -> Nat]
    /\ forgotten \subseteq Calls

Init ==
    /\ now = 0
    /\ pending = [k \in Keys |-> None]
    /\ flight = [k \in Keys |-> None]
    /\ forgetting = None
    /\ pc = [c \in Calls |-> "idle"]
    /\ key = [c \in Calls |-> None]
    /\ run = [c \in Calls |-> None]
    /\ entered = [c \in Calls |-> 0]
    /\ closed = [c \in Calls |-> 0]
    /\ forgotten = {}

Goto(c, stage) == pc' = [pc EXCEPT ![c] = stage]

(***************************************************************************)
(* The sticky check.                                                       *)
(***************************************************************************)

\* Mutant of Sticky: the last instant of the window counted as inside it.
StickyInclusive(k) == pending[k] # None /\ now <= pending[k].expiry

Sticky(k) == pending[k] # None /\ now < pending[k].expiry

Enter(c, k) ==
    /\ pc[c] = "idle"
    /\ key' = [key EXCEPT ![c] = k]
    /\ entered' = [entered EXCEPT ![c] = now]

StickyHit(c, k) ==
    /\ Enter(c, k)
    /\ Sticky(k)
    /\ run' = [run EXCEPT ![c] = pending[k].run]
    /\ Goto(c, "done")
    /\ UNCHANGED <<now, groupVars, closed, forgotten>>

\* An expired entry is deleted under the same lock.
StickyMiss(c, k) ==
    /\ Enter(c, k)
    /\ ~ Sticky(k)
    /\ pending' = [pending EXCEPT ![k] = None]
    /\ Goto(c, "missed")
    /\ UNCHANGED <<now, flight, forgetting, run, closed, forgotten>>

\* A call without a key runs fn for itself alone.
Bypass(c) ==
    /\ Enter(c, None)
    /\ run' = [run EXCEPT ![c] = c]
    /\ Goto(c, "direct")
    /\ UNCHANGED <<now, groupVars, closed, forgotten>>

(***************************************************************************)
(* s.g.Do: join the open flight of the key, or lead a new one.             *)
(***************************************************************************)

Join(c) ==
    /\ pc[c] = "missed"
    /\ flight[key[c]] # None
    /\ run' = [run EXCEPT ![c] = flight[key[c]]]
    /\ Goto(c, "waiting")
    /\ UNCHANGED <<now, groupVars, key, histVars>>

Lead(c) ==
    /\ pc[c] = "missed"
    /\ flight[key[c]] = None
    /\ flight' = [flight EXCEPT ![key[c]] = c]
    /\ run' = [run EXCEPT ![c] = c]
    /\ Goto(c, "running")
    /\ UNCHANGED <<now, pending, forgetting, key, histVars>>

\* fn returns its value or error, to the closure inside g.Do or straight to a
\* bypassing caller.  Do treats the two alike, so the outcome is not modelled.
FnReturns(c) ==
    /\ pc[c] \in {"running", "direct"}
    /\ Goto(c, IF pc[c] = "running" THEN "storing" ELSE "done")
    /\ UNCHANGED <<now, groupVars, key, run, histVars>>

\* Mutants of Entry: the expiry is not set, or is counted from the time that
\* was read for the sticky check.
EntryNoExpiry(c) == [run |-> c, expiry |-> None]

EntryFromEntering(c) == [run |-> c, expiry |-> entered[c] + Window]

Entry(c) == [run |-> c, expiry |-> now + Window]

\* Errors are stored like values.
Store(c) ==
    /\ pc[c] = "storing"
    /\ pending' = [pending EXCEPT ![key[c]] = Entry(c)]
    /\ Goto(c, "finishing")
    /\ UNCHANGED <<now, flight, forgetting, key, run, histVars>>

\* Mutant of Wake: who joined the flight stays asleep.
WakeLeader(c) == Goto(c, "done")

Wake(c) ==
    pc' = [d \in Calls |->
              IF d = c \/ (pc[d] = "waiting" /\ run[d] = c)
              THEN "done" ELSE pc[d]]

\* Mutants of Left: the key's flight goes, whichever it is, or none does.
LeftNone(c) == None

LeftAll(c) == flight[key[c]]

\* The flight that c's key has once c's own is closed.
Left(c) == IF flight[key[c]] = c THEN None ELSE flight[key[c]]

\* The flight leaves the group's map, if it is still the one there, and all
\* who joined it get its outcome.
Finish(c) ==
    /\ pc[c] = "finishing"
    /\ flight' = [flight EXCEPT ![key[c]] = Left(c)]
    /\ Wake(c)
    /\ closed' = [closed EXCEPT ![c] = now]
    /\ UNCHANGED <<now, pending, forgetting, key, run, entered, forgotten>>

(***************************************************************************)
(* Forget: the group first, then the sticky entry.  Nothing in the         *)
(* repository calls it yet.                                                *)
(***************************************************************************)

ForgetFlight(k) ==
    /\ forgetting = None
    /\ forgetting' = k
    /\ flight' = [flight EXCEPT ![k] = None]
    /\ forgotten' = IF flight[k] = None THEN forgotten
                    ELSE forgotten \cup {flight[k]}
    /\ UNCHANGED <<now, pending, callVars, entered, closed>>

ForgetSticky ==
    /\ forgetting # None
    /\ pending' = [pending EXCEPT ![forgetting] = None]
    /\ forgetting' = None
    /\ UNCHANGED <<now, flight, callVars, histVars>>

Tick ==
    /\ now < MaxTime
    /\ now' = now + 1
    /\ UNCHANGED <<groupVars, callVars, histVars>>

Progress(c) ==
    \/ Join(c)
    \/ Lead(c)
    \/ FnReturns(c)
    \/ Store(c)
    \/ Finish(c)

Next ==
    \/ \E c \in Calls, k \in Keys : StickyHit(c, k) \/ StickyMiss(c, k)
    \/ \E c \in Calls : Bypass(c) \/ Progress(c)
    \/ \E k \in Keys : ForgetFlight(k)
    \/ ForgetSticky
    \/ Tick

\* A call that has passed its sticky check is a runnable goroutine, and fn
\* returns (module Request shows that c.do does).
Fairness == \A c \in Calls : WF_vars(Progress(c))

Spec == Init /\ [][Next]_vars /\ Fairness

-----------------------------------------------------------------------------
(***************************************************************************)
(* Properties.                                                             *)
(***************************************************************************)

\* Do "calls fn at most once per outstanding key": two runs of fn for one key
\* are open together only when a Forget separated them.
OneFlightPerKey ==
    \A c, d \in Calls :
        (c # d /\ pc[c] \in Flying /\ pc[d] \in Flying /\ key[c] = key[d])
            => (c \in forgotten \/ d \in forgotten)

\* A call that joined a flight waits for a run that is still open and that was
\* made with its own key: a Forget or a newer flight of the key never strands
\* it or hands it another key's outcome.
NoLostWaiter ==
    \A c \in Calls :
        pc[c] = "waiting" =>
            run[c] \in {d \in Calls : pc[d] \in Flying /\ key[d] = key[c]}

\* What Do returns is the outcome of a run for the caller's own key that had
\* ended, and whose flight was closed less than Window before the caller
\* arrived, or not closed at that time.  It bounds the age of every shared
\* result however the scheduler delays the store or the close of the flight.
ResultsFresh ==
    \A c \in Calls :
        pc[c] = "done" =>
            LET r == run[c] IN
            /\ r \in Calls
            /\ key[r] = key[c]
            /\ pc[r] \in {"storing", "finishing", "done"}
            /\ (key[c] # None /\ pc[r] = "done") =>
                    entered[c] < closed[r] + Window

\* A stored result of the key is inside its window.
Live(k) == pending[k] # None /\ now < pending[k].expiry

\* fn starts while a sticky result of the key is live only for a call whose
\* sticky check came before that result was stored.  This is as much of "within
\* the sticky window the result is returned without calling fn" as Do keeps.
RerunsAreRaces ==
    [][\A c \in Calls :
          (Lead(c) /\ Live(key[c])) =>
              entered[c] + Window <= pending[key[c]].expiry]_vars

\* Every call of Do that passes its sticky check returns, if fn returns.
EveryCallReturns == \A c \in Calls : pc[c] # "idle" ~> pc[c] = "done"
=============================================================================
