------------------------- MODULE SingleflightProofs -------------------------
(***************************************************************************)
(* Proofs about Singleflight, for any calls, keys, window and clock bound. *)
(***************************************************************************)
EXTENDS Singleflight, TLAPS

(***************************************************************************)
(* The inductive invariant, in named parts.                                *)
(***************************************************************************)

\* What the program counter says of a call's own fields.
CallState ==
    \A c \in Calls :
        /\ pc[c] \in Flying => run[c] = c /\ key[c] \in Keys
        /\ pc[c] \in {"missed", "waiting"} => key[c] \in Keys
        /\ pc[c] = "direct" => run[c] = c /\ key[c] = None

\* The group's map holds only open flights, under their own key.
FlightsOpen ==
    \A k \in Keys :
        flight[k] # None =>
            /\ flight[k] \in Calls
            /\ pc[flight[k]] \in Flying
            /\ key[flight[k]] = k

\* An open flight is in the map unless a Forget took it out.
OpenFlightsKept ==
    \A c \in Calls :
        pc[c] \in Flying => c \in forgotten \/ flight[key[c]] = c

\* A stored result is of a run of its key, and expires Window after a moment
\* at which the run's flight was still open.
StoredRuns ==
    \A k \in Keys :
        pending[k] # None =>
            /\ key[pending[k].run] = k
            /\ pc[pending[k].run] \in {"finishing", "done"}
            /\ pending[k].expiry <= now + Window
            /\ pc[pending[k].run] = "done" =>
                  pending[k].expiry <= closed[pending[k].run] + Window

\* No sticky check lies in the future.
EnteredBefore == \A c \in Calls : entered[c] <= now

\* A result found stored after a missed sticky check was stored after it.
StoredAfterMiss ==
    \A c \in Calls :
        pc[c] = "missed" /\ pending[key[c]] # None =>
            entered[c] + Window <= pending[key[c]].expiry

IInv ==
    /\ TypeOK
    /\ CallState
    /\ FlightsOpen
    /\ OpenFlightsKept
    /\ NoLostWaiter
    /\ StoredRuns
    /\ EnteredBefore
    /\ StoredAfterMiss
    /\ ResultsFresh

-----------------------------------------------------------------------------

LEMMA InitIInv == Init => IInv
  <1> SUFFICES ASSUME Init PROVE IInv
    OBVIOUS
  <1> USE WindowAssumption, NoneAssumption DEF Init
  <1>1. TypeOK
    BY DEF TypeOK, Stages, Flying
  <1>2. CallState /\ FlightsOpen /\ OpenFlightsKept /\ NoLostWaiter
    BY DEF CallState, FlightsOpen, OpenFlightsKept, NoLostWaiter, Flying
  <1>3. StoredRuns /\ EnteredBefore /\ StoredAfterMiss /\ ResultsFresh
    BY DEF StoredRuns, EnteredBefore, StoredAfterMiss, ResultsFresh
  <1> QED
    BY <1>1, <1>2, <1>3 DEF IInv

LEMMA StepIInv == IInv /\ [Next]_vars => IInv'
  <1> SUFFICES ASSUME IInv, [Next]_vars PROVE IInv'
    OBVIOUS
  <1> USE WindowAssumption, NoneAssumption
        DEF IInv, Stages, Flying, Pending, groupVars, callVars, histVars
  <1>1. ASSUME NEW c \in Calls, NEW k \in Keys, StickyHit(c, k) PROVE IInv'
    <2> USE <1>1 DEF StickyHit, Enter, Goto, Sticky
    <2>1. TypeOK'
      BY DEF TypeOK
    <2>2. CallState'
      BY DEF TypeOK, CallState
    <2>3. FlightsOpen'
      BY DEF TypeOK, CallState, FlightsOpen, OpenFlightsKept
    <2>4. OpenFlightsKept'
      BY DEF TypeOK, CallState, FlightsOpen, OpenFlightsKept
    <2>5. NoLostWaiter'
      BY DEF TypeOK, CallState, FlightsOpen, NoLostWaiter
    <2>6. StoredRuns'
      BY DEF TypeOK, CallState, StoredRuns
    <2>7. EnteredBefore'
      BY DEF TypeOK, EnteredBefore
    <2>8. StoredAfterMiss'
      BY DEF TypeOK, CallState, EnteredBefore, StoredAfterMiss
    <2>9. ResultsFresh'
      BY DEF TypeOK, CallState, FlightsOpen, NoLostWaiter, StoredRuns, EnteredBefore, ResultsFresh
    <2> QED
      BY <2>1, <2>2, <2>3, <2>4, <2>5, <2>6, <2>7, <2>8, <2>9
  <1>2. ASSUME NEW c \in Calls, NEW k \in Keys, StickyMiss(c, k) PROVE IInv'
    <2> USE <1>2 DEF StickyMiss, Enter, Goto, Sticky
    <2>1. TypeOK'
      BY DEF TypeOK
    <2>2. CallState'
      BY DEF TypeOK, CallState
    <2>3. FlightsOpen'
      BY DEF TypeOK, CallState, FlightsOpen, OpenFlightsKept
    <2>4. OpenFlightsKept'
      BY DEF TypeOK, CallState, FlightsOpen, OpenFlightsKept
    <2>5. NoLostWaiter'
      BY DEF TypeOK, CallState, FlightsOpen, NoLostWaiter
    <2>6. StoredRuns'
      BY DEF TypeOK, CallState, StoredRuns
    <2>7. EnteredBefore'
      BY DEF TypeOK, EnteredBefore
    <2>8. StoredAfterMiss'
      BY DEF TypeOK, CallState, EnteredBefore, StoredAfterMiss
    <2>9. ResultsFresh'
      BY DEF TypeOK, CallState, FlightsOpen, NoLostWaiter, StoredRuns, EnteredBefore, ResultsFresh
    <2> QED
      BY <2>1, <2>2, <2>3, <2>4, <2>5, <2>6, <2>7, <2>8, <2>9
  <1>3. ASSUME NEW c \in Calls, Bypass(c) PROVE IInv'
    <2> USE <1>3 DEF Bypass, Enter, Goto
    <2>1. TypeOK'
      BY DEF TypeOK
    <2>2. CallState'
      BY DEF TypeOK, CallState
    <2>3. FlightsOpen'
      BY DEF TypeOK, CallState, FlightsOpen, OpenFlightsKept
    <2>4. OpenFlightsKept'
      BY DEF TypeOK, CallState, FlightsOpen, OpenFlightsKept
    <2>5. NoLostWaiter'
      BY DEF TypeOK, CallState, FlightsOpen, NoLostWaiter
    <2>6. StoredRuns'
      BY DEF TypeOK, CallState, StoredRuns
    <2>7. EnteredBefore'
      BY DEF TypeOK, EnteredBefore
    <2>8. StoredAfterMiss'
      BY DEF TypeOK, CallState, EnteredBefore, StoredAfterMiss
    <2>9. ResultsFresh'
      BY DEF TypeOK, CallState, FlightsOpen, NoLostWaiter, StoredRuns, EnteredBefore, ResultsFresh
    <2> QED
      BY <2>1, <2>2, <2>3, <2>4, <2>5, <2>6, <2>7, <2>8, <2>9
  <1>4. ASSUME NEW c \in Calls, Join(c) PROVE IInv'
    <2> USE <1>4 DEF Join, Goto
    <2>1. TypeOK'
      BY DEF TypeOK, CallState
    <2>2. CallState'
      BY DEF TypeOK, CallState
    <2>3. FlightsOpen'
      BY DEF TypeOK, CallState, FlightsOpen, OpenFlightsKept
    <2>4. OpenFlightsKept'
      BY DEF TypeOK, CallState, FlightsOpen, OpenFlightsKept
    <2>5. NoLostWaiter'
      BY DEF TypeOK, CallState, FlightsOpen, NoLostWaiter
    <2>6. StoredRuns'
      BY DEF TypeOK, CallState, StoredRuns
    <2>7. EnteredBefore'
      BY DEF TypeOK, EnteredBefore
    <2>8. StoredAfterMiss'
      BY DEF TypeOK, CallState, EnteredBefore, StoredAfterMiss
    <2>9. ResultsFresh'
      BY DEF TypeOK, CallState, FlightsOpen, NoLostWaiter, StoredRuns, EnteredBefore, ResultsFresh
    <2> QED
      BY <2>1, <2>2, <2>3, <2>4, <2>5, <2>6, <2>7, <2>8, <2>9
  <1>5. ASSUME NEW c \in Calls, Lead(c) PROVE IInv'
    <2> USE <1>5 DEF Lead, Goto
    <2>1. TypeOK'
      BY DEF TypeOK
    <2>2. CallState'
      BY DEF TypeOK, CallState
    <2>3. FlightsOpen'
      BY DEF TypeOK, CallState, FlightsOpen, OpenFlightsKept
    <2>4. OpenFlightsKept'
      BY DEF TypeOK, CallState, FlightsOpen, OpenFlightsKept
    <2>5. NoLostWaiter'
      BY DEF TypeOK, CallState, FlightsOpen, NoLostWaiter
    <2>6. StoredRuns'
      BY DEF TypeOK, CallState, StoredRuns
    <2>7. EnteredBefore'
      BY DEF TypeOK, EnteredBefore
    <2>8. StoredAfterMiss'
      BY DEF TypeOK, CallState, EnteredBefore, StoredAfterMiss
    <2>9. ResultsFresh'
      BY DEF TypeOK, CallState, FlightsOpen, NoLostWaiter, StoredRuns, EnteredBefore, ResultsFresh
    <2> QED
      BY <2>1, <2>2, <2>3, <2>4, <2>5, <2>6, <2>7, <2>8, <2>9
  <1>6. ASSUME NEW c \in Calls, FnReturns(c) PROVE IInv'
    <2> USE <1>6 DEF FnReturns, Goto
    <2>1. TypeOK'
      BY DEF TypeOK
    <2>2. CallState'
      BY DEF TypeOK, CallState
    <2>3. FlightsOpen'
      BY DEF TypeOK, CallState, FlightsOpen, OpenFlightsKept
    <2>4. OpenFlightsKept'
      BY DEF TypeOK, CallState, FlightsOpen, OpenFlightsKept
    <2>5. NoLostWaiter'
      BY DEF TypeOK, CallState, FlightsOpen, NoLostWaiter
    <2>6. StoredRuns'
      BY DEF TypeOK, CallState, StoredRuns
    <2>7. EnteredBefore'
      BY DEF TypeOK, EnteredBefore
    <2>8. StoredAfterMiss'
      BY DEF TypeOK, CallState, EnteredBefore, StoredAfterMiss
    <2>9. ResultsFresh'
      BY DEF TypeOK, CallState, FlightsOpen, NoLostWaiter, StoredRuns, EnteredBefore, ResultsFresh
    <2> QED
      BY <2>1, <2>2, <2>3, <2>4, <2>5, <2>6, <2>7, <2>8, <2>9
  <1>7. ASSUME NEW c \in Calls, Store(c) PROVE IInv'
    <2> USE <1>7 DEF Store, Entry, Goto
    <2>1. TypeOK'
      BY DEF TypeOK, CallState
    <2>2. CallState'
      BY DEF TypeOK, CallState
    <2>3. FlightsOpen'
      BY DEF TypeOK, CallState, FlightsOpen, OpenFlightsKept
    <2>4. OpenFlightsKept'
      BY DEF TypeOK, CallState, FlightsOpen, OpenFlightsKept
    <2>5. NoLostWaiter'
      BY DEF TypeOK, CallState, FlightsOpen, NoLostWaiter
    <2>6. StoredRuns'
      BY DEF TypeOK, CallState, StoredRuns
    <2>7. EnteredBefore'
      BY DEF TypeOK, EnteredBefore
    <2>8. StoredAfterMiss'
      BY DEF TypeOK, CallState, EnteredBefore, StoredAfterMiss
    <2>9. ResultsFresh'
      BY DEF TypeOK, CallState, FlightsOpen, NoLostWaiter, StoredRuns, EnteredBefore, ResultsFresh
    <2> QED
      BY <2>1, <2>2, <2>3, <2>4, <2>5, <2>6, <2>7, <2>8, <2>9
  <1>8. ASSUME NEW c \in Calls, Finish(c) PROVE IInv'
    <2> USE <1>8 DEF Finish, Left, Wake
    <2>1. TypeOK'
      BY DEF TypeOK
    <2>2. CallState'
      BY DEF TypeOK, CallState
    <2>3. FlightsOpen'
      BY DEF TypeOK, CallState, FlightsOpen, OpenFlightsKept
    <2>4. OpenFlightsKept'
      BY DEF TypeOK, CallState, FlightsOpen, OpenFlightsKept
    <2>5. NoLostWaiter'
      BY DEF TypeOK, CallState, FlightsOpen, NoLostWaiter
    <2>6. StoredRuns'
      BY DEF TypeOK, CallState, StoredRuns
    <2>7. EnteredBefore'
      BY DEF TypeOK, EnteredBefore
    <2>8. StoredAfterMiss'
      BY DEF TypeOK, CallState, EnteredBefore, StoredAfterMiss
    <2>9. ResultsFresh'
      BY DEF TypeOK, CallState, FlightsOpen, NoLostWaiter, StoredRuns, EnteredBefore, ResultsFresh
    <2> QED
      BY <2>1, <2>2, <2>3, <2>4, <2>5, <2>6, <2>7, <2>8, <2>9
  <1>9. ASSUME NEW k \in Keys, ForgetFlight(k) PROVE IInv'
    <2> USE <1>9 DEF ForgetFlight
    <2>1. TypeOK'
      BY DEF TypeOK
    <2>2. CallState'
      BY DEF TypeOK, CallState
    <2>3. FlightsOpen'
      BY DEF TypeOK, CallState, FlightsOpen, OpenFlightsKept
    <2>4. OpenFlightsKept'
      BY DEF TypeOK, CallState, FlightsOpen, OpenFlightsKept
    <2>5. NoLostWaiter'
      BY DEF TypeOK, CallState, FlightsOpen, NoLostWaiter
    <2>6. StoredRuns'
      BY DEF TypeOK, CallState, StoredRuns
    <2>7. EnteredBefore'
      BY DEF TypeOK, EnteredBefore
    <2>8. StoredAfterMiss'
      BY DEF TypeOK, CallState, EnteredBefore, StoredAfterMiss
    <2>9. ResultsFresh'
      BY DEF TypeOK, CallState, FlightsOpen, NoLostWaiter, StoredRuns, EnteredBefore, ResultsFresh
    <2> QED
      BY <2>1, <2>2, <2>3, <2>4, <2>5, <2>6, <2>7, <2>8, <2>9
  <1>10. CASE ForgetSticky
    <2> USE <1>10 DEF ForgetSticky
    <2>1. TypeOK'
      BY DEF TypeOK
    <2>2. CallState'
      BY DEF TypeOK, CallState
    <2>3. FlightsOpen'
      BY DEF TypeOK, CallState, FlightsOpen, OpenFlightsKept
    <2>4. OpenFlightsKept'
      BY DEF TypeOK, CallState, FlightsOpen, OpenFlightsKept
    <2>5. NoLostWaiter'
      BY DEF TypeOK, CallState, FlightsOpen, NoLostWaiter
    <2>6. StoredRuns'
      BY DEF TypeOK, CallState, StoredRuns
    <2>7. EnteredBefore'
      BY DEF TypeOK, EnteredBefore
    <2>8. StoredAfterMiss'
      BY DEF TypeOK, CallState, EnteredBefore, StoredAfterMiss
    <2>9. ResultsFresh'
      BY DEF TypeOK, CallState, FlightsOpen, NoLostWaiter, StoredRuns, EnteredBefore, ResultsFresh
    <2> QED
      BY <2>1, <2>2, <2>3, <2>4, <2>5, <2>6, <2>7, <2>8, <2>9
  <1>11. CASE Tick
    <2> USE <1>11 DEF Tick
    <2>1. TypeOK'
      BY DEF TypeOK
    <2>2. CallState'
      BY DEF TypeOK, CallState
    <2>3. FlightsOpen'
      BY DEF TypeOK, CallState, FlightsOpen, OpenFlightsKept
    <2>4. OpenFlightsKept'
      BY DEF TypeOK, CallState, FlightsOpen, OpenFlightsKept
    <2>5. NoLostWaiter'
      BY DEF TypeOK, CallState, FlightsOpen, NoLostWaiter
    <2>6. StoredRuns'
      BY DEF TypeOK, CallState, StoredRuns
    <2>7. EnteredBefore'
      BY DEF TypeOK, EnteredBefore
    <2>8. StoredAfterMiss'
      BY DEF TypeOK, CallState, EnteredBefore, StoredAfterMiss
    <2>9. ResultsFresh'
      BY DEF TypeOK, CallState, FlightsOpen, NoLostWaiter, StoredRuns, EnteredBefore, ResultsFresh
    <2> QED
      BY <2>1, <2>2, <2>3, <2>4, <2>5, <2>6, <2>7, <2>8, <2>9
  <1>12. CASE UNCHANGED vars
    BY <1>12 DEF vars, TypeOK, CallState, FlightsOpen, OpenFlightsKept, NoLostWaiter, StoredRuns, EnteredBefore, StoredAfterMiss, ResultsFresh
  <1> QED
    BY <1>1, <1>2, <1>3, <1>4, <1>5, <1>6, <1>7, <1>8, <1>9, <1>10, <1>11, <1>12 DEF Next, Progress

LEMMA Invariance == Spec => []IInv
  <1> QED
    BY InitIInv, StepIInv, PTL DEF Spec

-----------------------------------------------------------------------------

\* Every variable keeps its type.
THEOREM TypeCorrect == Spec => []TypeOK
  <1>1. IInv => TypeOK
    BY DEF IInv
  <1> QED
    BY <1>1, Invariance, PTL

\* Do runs fn at most once at a time per key, Forget aside: both runs would have
\* to be the one flight the group's map holds for the key.
THEOREM OneFlight == Spec => []OneFlightPerKey
  <1>1. IInv => OneFlightPerKey
    BY DEF IInv, OpenFlightsKept, OneFlightPerKey
  <1> QED
    BY <1>1, Invariance, PTL

\* Whoever waits, waits for an open run of its own key, even when a Forget or a
\* newer flight replaced the map entry meanwhile.
THEOREM NoWaiterLost == Spec => []NoLostWaiter
  <1>1. IInv => NoLostWaiter
    BY DEF IInv
  <1> QED
    BY <1>1, Invariance, PTL

\* Do returns only outcomes of its own key, and none older than the window
\* allows.
THEOREM Freshness == Spec => []ResultsFresh
  <1>1. IInv => ResultsFresh
    BY DEF IInv
  <1> QED
    BY <1>1, Invariance, PTL

\* fn starts inside a sticky window only for a call that checked before the
\* result was stored.
THEOREM Reruns == Spec => RerunsAreRaces
  <1>1. ASSUME IInv, NEW c \in Calls, Lead(c), Live(key[c])
        PROVE  entered[c] + Window <= pending[key[c]].expiry
    BY <1>1 DEF IInv, StoredAfterMiss, Lead, Live
  <1>2. IInv /\ [Next]_vars =>
           [\A c \in Calls :
               (Lead(c) /\ Live(key[c])) =>
                   entered[c] + Window <= pending[key[c]].expiry]_vars
    BY <1>1
  <1> QED
    BY <1>2, Invariance, PTL DEF Spec, RerunsAreRaces
=============================================================================
