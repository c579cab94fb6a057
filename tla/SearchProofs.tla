---------------------------- MODULE SearchProofs ----------------------------
(***************************************************************************)
(* Proofs about Search, for any calls, fingerprints, TTL, window and       *)
(* bounds.  What the group does by itself is taken from its own proofs.    *)
(***************************************************************************)
EXTENDS Search, TLAPS

Proved == INSTANCE SingleflightProofs

(***************************************************************************)
(* The inductive invariant, in named parts.                                *)
(***************************************************************************)

\* Where a call is in runSearch says where it is in the group, and the group
\* has it under its own fingerprint.
Linked ==
    \A c \in Calls :
        /\ stage[c] \in {"idle", "cache"} => pc[c] = "idle"
        /\ stage[c] = "group" => pc[c] \notin {"idle", "done"}
        /\ stage[c] = "returned" => pc[c] \in {"idle", "done"}
        /\ pc[c] # "idle" => key[c] = IF sfOn THEN want[c] ELSE None
        /\ want[c] = None => seen[c] = None

\* A run has an outcome from the moment exec returned, and what the group
\* stores is of such a run.
Ended ==
    /\ \A c \in Calls :
          /\ pc[c] \in {"storing", "finishing"} => outcome[c] # None
          /\ outcome[c] # None => pc[c] \in {"storing", "finishing", "done"}
    /\ \A k \in Keys : pending[k] # None => outcome[pending[k].run] # None

\* The cache holds responses, each for its fingerprint and from the moment
\* exec returned it.
Filled ==
    \A k \in Keys :
        latest[k] # None =>
            LET r == latest[k].value IN
            /\ want[r] = k
            /\ outcome[r] = "response"
            /\ latest[k].at = filled[r]
            /\ seen[r] # None
            /\ cacheOn

\* Nothing is forgotten here; a request is served once exec runs; and that of a
\* run under way was not served before the one whose response the cache holds
\* for the fingerprint.
Ahead ==
    /\ forgotten = {}
    /\ \A c \in Calls :
          seen[c] # None =>
              /\ seen[c] <= now
              /\ pc[c] \notin {"idle", "missed", "waiting"}
    /\ \A c \in Calls :
          LET k == key[c] IN
          (pc[c] = "running" /\ seen[c] # None /\ latest[k] # None) =>
              seen[latest[k].value] <= seen[c]

IInv ==
    /\ TypeOK
    /\ Proved!IInv
    /\ Linked
    /\ Ended
    /\ Filled
    /\ Ahead
    /\ OwnAnswer
    /\ AnswersFresh

-----------------------------------------------------------------------------
(***************************************************************************)
(* The group: a step of runSearch is a step of Do or leaves the group      *)
(* alone, so that the invariant proved of the group holds here too.        *)
(***************************************************************************)

LEMMA GroupInit == Init => Proved!IInv
  <1>1. Init => Proved!Init
    BY DEF Init, Group!Init, Proved!Init
  <1> QED
    BY <1>1, Proved!InitIInv, SearchAssumption
       DEF Proved!WindowAssumption, Proved!NoneAssumption

LEMMA GroupSteps ==
  ASSUME NEW c \in Calls
  PROVE  /\ \A k \in Keys : Group!StickyHit(c, k) => Proved!Next
         /\ \A k \in Keys : Group!StickyMiss(c, k) => Proved!Next
         /\ Group!Bypass(c) => Proved!Next
         /\ Group!Join(c) \/ Group!Lead(c) \/ Group!Store(c) => Proved!Next
         /\ Group!FnReturns(c) => Proved!Next
         /\ Group!Finish(c) => Proved!Next
         /\ Group!Tick => Proved!Next
  <1> USE DEF Group!Goto, Proved!Goto, Group!groupVars, Proved!groupVars,
              Group!callVars, Proved!callVars, Group!histVars, Proved!histVars
  <1>1. ASSUME NEW k \in Keys
        PROVE  /\ Group!StickyHit(c, k) => Proved!StickyHit(c, k)
               /\ Group!StickyMiss(c, k) => Proved!StickyMiss(c, k)
    BY DEF Group!StickyHit, Proved!StickyHit, Group!StickyMiss,
           Proved!StickyMiss, Group!Enter, Proved!Enter, Group!Sticky,
           Proved!Sticky
  <1>2. Group!Bypass(c) => Proved!Bypass(c)
    BY DEF Group!Bypass, Proved!Bypass, Group!Enter, Proved!Enter
  <1>3. /\ Group!Join(c) => Proved!Join(c)
        /\ Group!Lead(c) => Proved!Lead(c)
        /\ Group!FnReturns(c) => Proved!FnReturns(c)
    BY DEF Group!Join, Proved!Join, Group!Lead, Proved!Lead, Group!FnReturns,
           Proved!FnReturns
  <1>4. Group!Store(c) => Proved!Store(c)
    BY DEF Group!Store, Proved!Store, Group!Entry, Proved!Entry
  <1>5. Group!Finish(c) => Proved!Finish(c)
    BY DEF Group!Finish, Proved!Finish, Group!Left, Proved!Left, Group!Wake,
           Proved!Wake
  <1>6. Group!Tick => Proved!Tick
    BY DEF Group!Tick, Proved!Tick
  <1> QED
    BY <1>1, <1>2, <1>3, <1>4, <1>5, <1>6 DEF Proved!Next, Proved!Progress

\* What the proofs below use of the group's invariant.
GroupState ==
    /\ Group!TypeOK
    /\ \A c \in Calls :
          /\ pc[c] \in {"running", "storing", "finishing"} =>
                /\ run[c] = c
                /\ key[c] \in Keys
                /\ c \in forgotten \/ flight[key[c]] = c
          /\ pc[c] \in {"missed", "waiting"} => key[c] \in Keys
          /\ pc[c] = "direct" => key[c] = None
          /\ pc[c] = "waiting" =>
                /\ run[c] \in Calls
                /\ pc[run[c]] \in {"running", "storing", "finishing"}
                /\ key[run[c]] = key[c]
          /\ entered[c] <= now
    /\ \A k \in Keys :
          pending[k] # None =>
              /\ pending[k].run \in Calls
              /\ pending[k].expiry \in Nat
              /\ key[pending[k].run] = k
              /\ pc[pending[k].run] \in {"finishing", "done"}
              /\ pc[pending[k].run] = "done" =>
                    pending[k].expiry <= closed[pending[k].run] + Window

LEMMA GroupFacts == Proved!IInv => GroupState
  <1> SUFFICES ASSUME Proved!IInv PROVE GroupState
    OBVIOUS
  <1> USE DEF Proved!IInv, Proved!Flying
  <1>1. Group!TypeOK
    BY DEF Proved!TypeOK, Group!TypeOK, Proved!Pending, Group!Pending,
           Proved!Stages, Group!Stages, Group!Flying
  <1>2. ASSUME NEW c \in Calls
        PROVE  /\ pc[c] \in {"running", "storing", "finishing"} =>
                     /\ run[c] = c
                     /\ key[c] \in Keys
                     /\ c \in forgotten \/ flight[key[c]] = c
               /\ pc[c] \in {"missed", "waiting"} => key[c] \in Keys
               /\ pc[c] = "direct" => key[c] = None
    BY DEF Proved!CallState, Proved!OpenFlightsKept
  <1>3. ASSUME NEW c \in Calls
        PROVE  /\ pc[c] = "waiting" =>
                     /\ run[c] \in Calls
                     /\ pc[run[c]] \in {"running", "storing", "finishing"}
                     /\ key[run[c]] = key[c]
               /\ entered[c] <= now
    BY DEF Proved!NoLostWaiter, Proved!EnteredBefore
  <1>4. ASSUME NEW k \in Keys, pending[k] # None
        PROVE  /\ pending[k].run \in Calls
               /\ pending[k].expiry \in Nat
               /\ key[pending[k].run] = k
               /\ pc[pending[k].run] \in {"finishing", "done"}
               /\ pc[pending[k].run] = "done" =>
                     pending[k].expiry <= closed[pending[k].run] + Window
    BY <1>4 DEF Proved!TypeOK, Proved!Pending, Proved!StoredRuns
  <1> QED
    BY <1>1, <1>2, <1>3, <1>4 DEF GroupState

LEMMA GroupStep == TypeOK /\ [Next]_vars => [Proved!Next]_(Proved!vars)
  <1> SUFFICES ASSUME TypeOK, [Next]_vars PROVE [Proved!Next]_(Proved!vars)
    OBVIOUS
  <1>u. UNCHANGED <<now, groupVars>> => UNCHANGED Proved!vars
    BY DEF groupVars, Proved!vars, Proved!groupVars, Proved!callVars,
           Proved!histVars
  <1>1. ASSUME NEW c \in Calls, NEW k \in Keys \cup {None},
               CacheHit(c, k) \/ CacheMiss(c, k)
        PROVE  UNCHANGED <<now, groupVars>>
    BY <1>1 DEF CacheHit, CacheMiss, Cache!GetValue, Cache!GetNothing
  <1>2. ASSUME NEW c \in Calls, Served(c) PROVE UNCHANGED <<now, groupVars>>
    BY <1>2 DEF Served
  <1>3. ASSUME UNCHANGED vars PROVE UNCHANGED <<now, groupVars>>
    BY <1>3 DEF vars
  <1>4. ASSUME NEW c \in Calls, Progress(c) PROVE Proved!Next
    <2>1. ASSUME Grouped(c) PROVE want[c] \in Keys
      BY <2>1 DEF Grouped, TypeOK
    <2>2. CASE StickyHit(c)
      BY <2>1, <2>2, GroupSteps DEF StickyHit, Grouped, Fingerprints
    <2>3. CASE EnterGroup(c)
      BY <2>1, <2>3, GroupSteps DEF EnterGroup
    <2>4. CASE InGroup(c)
      BY <2>4, GroupSteps DEF InGroup
    <2>5. CASE ExecResponds(c) \/ ExecFails(c)
      BY <2>5, GroupSteps DEF ExecResponds, ExecFails, ExecReturns
    <2>6. CASE Finish(c)
      BY <2>6, GroupSteps DEF Finish
    <2> QED
      BY <1>4, <2>2, <2>3, <2>4, <2>5, <2>6 DEF Progress
  <1>5. ASSUME Tick PROVE Proved!Next
    BY <1>5 DEF Tick, Group!Tick, Proved!Tick, Proved!Next, Group!groupVars,
           Proved!groupVars, Group!callVars, Proved!callVars, Group!histVars,
           Proved!histVars
  <1> QED
    BY <1>u, <1>1, <1>2, <1>3, <1>4, <1>5 DEF Next

LEMMA GroupKept == Proved!IInv /\ TypeOK /\ [Next]_vars => Proved!IInv'
  BY GroupStep, Proved!StepIInv, SearchAssumption
     DEF Proved!WindowAssumption, Proved!NoneAssumption

-----------------------------------------------------------------------------
(***************************************************************************)
(* Each step keeps the rest of the invariant.                              *)
(***************************************************************************)

LEMMA InitIInv == Init => IInv
  <1> SUFFICES ASSUME Init PROVE IInv
    OBVIOUS
  <1>1. Proved!IInv
    BY GroupInit
  <1>2. TypeOK
    BY <1>1, GroupFacts, SearchAssumption
       DEF Init, TypeOK, GroupState, Cache!Init
  <1>3. Linked /\ Ended /\ Filled /\ Ahead
    BY DEF Init, Cache!Init, Group!Init, Linked, Ended, Filled, Ahead
  <1>4. OwnAnswer /\ AnswersFresh
    BY DEF Init, Cache!Init, OwnAnswer, AnswersFresh
  <1> QED
    BY <1>1, <1>2, <1>3, <1>4 DEF IInv

LEMMA StepIInv == IInv /\ [Next]_vars => IInv'
  <1> SUFFICES ASSUME IInv, [Next]_vars PROVE IInv'
    OBVIOUS
  <1>g. GroupState /\ Proved!IInv' /\ GroupState'
    <2>1. Proved!IInv'
      BY GroupKept DEF IInv
    <2>2. GroupState
      BY GroupFacts DEF IInv
    <2>3. GroupState'
      BY <2>1, GroupFacts, PTL
    <2> QED
      BY <2>1, <2>2, <2>3
  <1>t. TypeOK /\ Group!TypeOK'
    BY <1>g DEF IInv, GroupState
  <1>i. Linked /\ Ended /\ Filled /\ Ahead /\ OwnAnswer /\ AnswersFresh
    BY DEF IInv
  <1> USE SearchAssumption
      DEF cacheVars, groupVars, configVars, callVars, execVars, Goto,
          ReturnFrom, Group!Goto, Group!Enter, Group!groupVars,
          Group!callVars, Group!histVars
  <1>1. ASSUME NEW c \in Calls, NEW k \in Keys, CacheHit(c, k) PROVE IInv'
    <2> USE <1>t, <1>1 DEF CacheHit, Begin, Cached, Cache!GetValue,
        Cache!Alive, TypeOK, Group!TypeOK
    <2>1. TypeOK'
      OBVIOUS
    <2>2. Linked'
      BY <1>i DEF Linked
    <2>3. Ended'
      BY <1>i DEF Ended
    <2>4. Filled'
      BY <1>g, <1>i DEF GroupState, Linked, Ended, Filled
    <2>5. Ahead'
      BY <1>i DEF Ahead
    <2>6. OwnAnswer'
      BY <1>i DEF Linked, Ended, OwnAnswer
    <2>7. AnswersFresh'
      BY <1>i DEF Filled, AnswersFresh
    <2> QED
      BY <1>g, <2>1, <2>2, <2>3, <2>4, <2>5, <2>6, <2>7
         DEF IInv
  <1>2. ASSUME NEW c \in Calls, NEW k \in Keys \cup {None}, CacheMiss(c, k)
        PROVE  IInv'
    <2> USE <1>t, <1>2 DEF CacheMiss, Begin, Cache!GetNothing, TypeOK,
        Group!TypeOK
    <2>1. TypeOK'
      OBVIOUS
    <2>2. Linked'
      BY <1>i DEF Linked, Ahead
    <2>3. Ended'
      BY <1>i DEF Ended
    <2>4. Filled'
      BY <1>g, <1>i DEF GroupState, Linked, Ended, Filled
    <2>5. Ahead'
      BY <1>i DEF Ahead
    <2>6. OwnAnswer'
      BY <1>i DEF Linked, Ended, OwnAnswer
    <2>7. AnswersFresh'
      BY <1>i DEF AnswersFresh
    <2> QED
      BY <1>g, <2>1, <2>2, <2>3, <2>4, <2>5, <2>6, <2>7
         DEF IInv
  <1>3. ASSUME NEW c \in Calls, Served(c) PROVE IInv'
    <2> USE <1>t, <1>3 DEF Served, TypeOK, Group!TypeOK
    <2>1. TypeOK'
      OBVIOUS
    <2>2. Linked'
      BY <1>i DEF Linked
    <2>3. Ended'
      BY <1>i DEF Ended
    <2>4. Filled'
      BY <1>i DEF Filled
    <2>5. Ahead'
      BY <1>g, <1>i DEF GroupState, Linked, Filled, Ahead
    <2>6. OwnAnswer'
      BY <1>i DEF OwnAnswer
    <2>7. AnswersFresh'
      BY <1>i DEF AnswersFresh
    <2> QED
      BY <1>g, <2>1, <2>2, <2>3, <2>4, <2>5, <2>6, <2>7
         DEF IInv
  <1>4. ASSUME NEW c \in Calls, StickyHit(c) PROVE IInv'
    <2> USE <1>t, <1>4 DEF StickyHit, Grouped, Fingerprints, Group!StickyHit,
        Group!Sticky, TypeOK, Group!TypeOK
    <2>1. TypeOK'
      OBVIOUS
    <2>2. Linked'
      BY <1>i DEF Linked
    <2>3. Ended'
      BY <1>i DEF Ended
    <2>4. Filled'
      BY <1>i DEF Filled
    <2>5. Ahead'
      BY <1>i DEF Ahead
    <2>6. OwnAnswer'
      BY <1>g, <1>i DEF GroupState, Linked, Ended, OwnAnswer
    <2>7. AnswersFresh'
      BY <1>g, <1>i DEF GroupState, Linked, AnswersFresh
    <2> QED
      BY <1>g, <2>1, <2>2, <2>3, <2>4, <2>5, <2>6, <2>7
         DEF IInv
  <1>5. ASSUME NEW c \in Calls, EnterGroup(c), Grouped(c)
        PROVE  IInv'
    <2>0. Group!StickyMiss(c, want[c])
      BY <1>5 DEF EnterGroup
    <2> USE <1>t, <1>5, <2>0 DEF EnterGroup, Grouped, Group!StickyMiss, TypeOK,
        Group!TypeOK
    <2>1. TypeOK'
      OBVIOUS
    <2>2. Linked'
      BY <1>g, <1>i DEF GroupState, Linked
    <2>3. Ended'
      BY <1>i DEF Ended
    <2>4. Filled'
      BY <1>i DEF Filled
    <2>5. Ahead'
      BY <1>i DEF Ahead
    <2>6. OwnAnswer'
      BY <1>i DEF OwnAnswer
    <2>7. AnswersFresh'
      BY <1>i DEF AnswersFresh
    <2> QED
      BY <1>g, <2>1, <2>2, <2>3, <2>4, <2>5, <2>6, <2>7
         DEF IInv
  <1>6. ASSUME NEW c \in Calls, EnterGroup(c), ~ Grouped(c) PROVE IInv'
    <2> USE <1>t, <1>6 DEF EnterGroup, Grouped, Group!Bypass, TypeOK,
        Group!TypeOK
    <2>1. TypeOK'
      OBVIOUS
    <2>2. Linked'
      BY <1>g, <1>i DEF GroupState, Linked
    <2>3. Ended'
      BY <1>i DEF Ended
    <2>4. Filled'
      BY <1>i DEF Filled
    <2>5. Ahead'
      BY <1>i DEF Ahead
    <2>6. OwnAnswer'
      BY <1>i DEF OwnAnswer
    <2>7. AnswersFresh'
      <3>1. /\ pc[c] = "idle" /\ pc'[c] = "direct" /\ stage'[c] = "group"
            /\ \A d \in Calls : d # c =>
                  /\ stage'[d] = stage[d] /\ pc'[d] = pc[d]
                  /\ entered'[d] = entered[d]
        OBVIOUS
      <3>2. UNCHANGED <<source, cacheOn, sfOn, outcome, began, filled, closed>>
        OBVIOUS
      <3> SUFFICES ASSUME NEW d \in Calls, stage'[d] = "returned",
                          source'[d] # d
                   PROVE  LET r == source'[d] IN
                          \/ /\ cacheOn' /\ outcome'[r] = "response"
                             /\ began'[d] <= filled'[r] + TTL
                          \/ sfOn' /\ pc'[r] = "finishing"
                          \/ /\ sfOn' /\ pc'[r] = "done"
                             /\ entered'[d] < closed'[r] + Window
        BY DEF AnswersFresh
      <3>3. d # c /\ stage[d] = "returned" /\ source[d] # d
        BY <3>1, <3>2
      <3>4. source[d] \in Calls
        BY <1>i, <3>3 DEF OwnAnswer
      <3>5. LET r == source[d] IN
            \/ cacheOn /\ outcome[r] = "response" /\ began[d] <= filled[r] + TTL
            \/ sfOn /\ pc[r] = "finishing"
            \/ sfOn /\ pc[r] = "done" /\ entered[d] < closed[r] + Window
        BY <1>i, <3>3 DEF AnswersFresh
      <3>6. pc'[source[d]] = pc[source[d]] \/ source[d] = c
        BY <3>1, <3>4
      <3> QED
        BY <3>1, <3>2, <3>3, <3>5, <3>6
    <2> QED
      BY <1>g, <2>1, <2>2, <2>3, <2>4, <2>5, <2>6, <2>7
         DEF IInv
  <1>7. ASSUME NEW c \in Calls, InGroup(c), Group!Join(c) PROVE IInv'
    <2> USE <1>t, <1>7 DEF InGroup, Group!Join, TypeOK, Group!TypeOK
    <2>1. TypeOK'
      OBVIOUS
    <2>2. Linked'
      BY <1>i DEF Linked
    <2>3. Ended'
      BY <1>i DEF Ended
    <2>4. Filled'
      BY <1>i DEF Filled
    <2>5. Ahead'
      BY <1>i DEF Ahead
    <2>6. OwnAnswer'
      BY <1>i DEF OwnAnswer
    <2>7. AnswersFresh'
      BY <1>i DEF AnswersFresh
    <2> QED
      BY <1>g, <2>1, <2>2, <2>3, <2>4, <2>5, <2>6, <2>7
         DEF IInv
  <1>8. ASSUME NEW c \in Calls, InGroup(c), Group!Lead(c) PROVE IInv'
    <2> USE <1>t, <1>8 DEF InGroup, Group!Lead, TypeOK, Group!TypeOK
    <2>1. TypeOK'
      OBVIOUS
    <2>2. Linked'
      BY <1>i DEF Linked
    <2>3. Ended'
      BY <1>i DEF Ended
    <2>4. Filled'
      BY <1>i DEF Filled
    <2>5. Ahead'
      BY <1>i DEF Ahead
    <2>6. OwnAnswer'
      BY <1>i DEF OwnAnswer
    <2>7. AnswersFresh'
      BY <1>i DEF AnswersFresh
    <2> QED
      BY <1>g, <2>1, <2>2, <2>3, <2>4, <2>5, <2>6, <2>7
         DEF IInv
  <1>9. ASSUME NEW c \in Calls, InGroup(c), Group!Store(c) PROVE IInv'
    <2> USE <1>t, <1>9 DEF InGroup, Group!Store, Group!Entry, TypeOK,
        Group!TypeOK
    <2>1. TypeOK'
      OBVIOUS
    <2>2. Linked'
      BY <1>i DEF Linked
    <2>3. Ended'
      BY <1>i DEF Ended
    <2>4. Filled'
      BY <1>i DEF Filled
    <2>5. Ahead'
      BY <1>i DEF Ahead
    <2>6. OwnAnswer'
      BY <1>i DEF OwnAnswer
    <2>7. AnswersFresh'
      BY <1>i DEF AnswersFresh
    <2> QED
      BY <1>g, <2>1, <2>2, <2>3, <2>4, <2>5, <2>6, <2>7
         DEF IInv
  <1>10. ASSUME NEW c \in Calls, ExecResponds(c) PROVE IInv'
    <2> USE <1>t, <1>10 DEF ExecResponds, ExecReturns, Group!FnReturns,
        Cache!Set, TypeOK, Group!TypeOK
    <2>1. TypeOK'
      OBVIOUS
    <2>2. Linked'
      BY <1>i DEF Linked
    <2>3. Ended'
      BY <1>i DEF Ended
    <2>4. Filled'
      BY <1>i DEF Filled
    <2>5. Ahead'
      BY <1>g, <1>i DEF GroupState, Linked, Ahead
    <2>6. OwnAnswer'
      BY <1>i DEF OwnAnswer
    <2>7. AnswersFresh'
      BY <1>i DEF Ended, OwnAnswer, AnswersFresh
    <2> QED
      BY <1>g, <2>1, <2>2, <2>3, <2>4, <2>5, <2>6, <2>7
         DEF IInv
  <1>11. ASSUME NEW c \in Calls, ExecFails(c) PROVE IInv'
    <2> USE <1>t, <1>11 DEF ExecFails, ExecReturns, Group!FnReturns, TypeOK,
        Group!TypeOK
    <2>1. TypeOK'
      OBVIOUS
    <2>2. Linked'
      BY <1>i DEF Linked
    <2>3. Ended'
      BY <1>i DEF Ended
    <2>4. Filled'
      BY <1>i DEF Ended, Filled
    <2>5. Ahead'
      BY <1>i DEF Ahead
    <2>6. OwnAnswer'
      BY <1>i DEF Ended, OwnAnswer
    <2>7. AnswersFresh'
      BY <1>i DEF Ended, OwnAnswer, AnswersFresh
    <2> QED
      BY <1>g, <2>1, <2>2, <2>3, <2>4, <2>5, <2>6, <2>7
         DEF IInv
  <1>12. ASSUME NEW c \in Calls, Finish(c) PROVE IInv'
    <2> USE <1>t, <1>12 DEF Finish, Group!Finish, Group!Wake, TypeOK,
        Group!TypeOK
    <2>1. TypeOK'
      OBVIOUS
    <2>2. Linked'
      BY <1>i DEF Linked
    <2>3. Ended'
      BY <1>i DEF Ended
    <2>4. Filled'
      BY <1>i DEF Filled
    <2>5. Ahead'
      BY <1>i DEF Ahead
    <2>6. OwnAnswer'
      BY <1>g, <1>i DEF GroupState, Linked, Ended, OwnAnswer
    <2>7. AnswersFresh'
      BY <1>g, <1>i DEF GroupState, Linked, OwnAnswer, AnswersFresh
    <2> QED
      BY <1>g, <2>1, <2>2, <2>3, <2>4, <2>5, <2>6, <2>7
         DEF IInv
  <1>13. ASSUME Tick PROVE IInv'
    <2> USE <1>t, <1>13 DEF Tick, Group!Tick, TypeOK, Group!TypeOK
    <2>1. TypeOK'
      OBVIOUS
    <2>2. Linked'
      BY <1>i DEF Linked
    <2>3. Ended'
      BY <1>i DEF Ended
    <2>4. Filled'
      BY <1>i DEF Filled
    <2>5. Ahead'
      BY <1>i DEF Ahead
    <2>6. OwnAnswer'
      BY <1>i DEF OwnAnswer
    <2>7. AnswersFresh'
      BY <1>i DEF AnswersFresh
    <2> QED
      BY <1>g, <2>1, <2>2, <2>3, <2>4, <2>5, <2>6, <2>7
         DEF IInv
  <1>14. ASSUME UNCHANGED vars PROVE IInv'
    <2> USE <1>t, <1>14 DEF vars, TypeOK, Group!TypeOK
    <2>1. TypeOK'
      OBVIOUS
    <2>2. Linked'
      BY <1>i DEF Linked
    <2>3. Ended'
      BY <1>i DEF Ended
    <2>4. Filled'
      BY <1>i DEF Filled
    <2>5. Ahead'
      BY <1>i DEF Ahead
    <2>6. OwnAnswer'
      BY <1>i DEF OwnAnswer
    <2>7. AnswersFresh'
      BY <1>i DEF AnswersFresh
    <2> QED
      BY <1>g, <2>1, <2>2, <2>3, <2>4, <2>5, <2>6, <2>7
         DEF IInv
  <1> QED
    BY <1>1, <1>2, <1>3, <1>4, <1>5, <1>6, <1>7, <1>8, <1>9, <1>10, <1>11,
       <1>12, <1>13, <1>14
       DEF Next, Progress, EnterGroup, InGroup

LEMMA Invariance == Spec => []IInv
  BY InitIInv, StepIInv, PTL DEF Spec

-----------------------------------------------------------------------------
(***************************************************************************)
(* The theorems.                                                           *)
(***************************************************************************)

\* Every variable of runSearch, of the cache and of the group keeps its type.
THEOREM TypeCorrect == Spec => []TypeOK
  <1>1. IInv => TypeOK
    BY DEF IInv
  <1> QED
    BY Invariance, <1>1, PTL

\* Neither layer mixes fingerprints up: a Search returns what a run for its own
\* fingerprint ended with, and only responses get into the cache.
THEOREM OwnAnswers == Spec => []OwnAnswer
  <1>1. IInv => OwnAnswer
    BY DEF IInv
  <1> QED
    BY Invariance, <1>1, PTL

\* The ages the two layers allow do not add up, whatever the interleaving, the
\* TTL and the window.
THEOREM Freshness == Spec => []AnswersFresh
  <1>1. IInv => AnswersFresh
    BY DEF IInv
  <1> QED
    BY Invariance, <1>1, PTL

\* One exec, and so one HTTP call, is under way for a fingerprint, and whoever
\* waits in the group waits for the exec of its own.
RunsShared ==
    /\ \A c, d \in Calls :
          (pc[c] \in Group!Flying /\ pc[d] \in Group!Flying /\ want[c] = want[d])
              => c = d
    /\ \A c \in Calls :
          pc[c] = "waiting" =>
              run[c] \in {d \in Calls : pc[d] \in Group!Flying /\ want[d] = want[c]}

\* runSearch never calls Forget, so that the exception the group makes of one
\* (OneFlightPerKey) does not exist for a Search (search.go:45).
THEOREM OneRunPerQuery == Spec => []RunsShared
  <1>1. IInv => RunsShared
    <2> SUFFICES ASSUME IInv PROVE RunsShared
      OBVIOUS
    <2>1. GroupState /\ Linked /\ forgotten = {}
      BY GroupFacts DEF IInv, Ahead
    <2>2. \A c \in Calls :
             pc[c] \in Group!Flying \cup {"waiting"} => key[c] = want[c]
      <3> TAKE c \in Calls
      <3> HAVE pc[c] \in Group!Flying \cup {"waiting"}
      <3>1. key[c] \in Keys /\ pc[c] # "idle"
        BY <2>1 DEF GroupState, Group!Flying
      <3>2. key[c] = IF sfOn THEN want[c] ELSE None
        BY <2>1, <3>1 DEF Linked
      <3> QED
        BY <3>1, <3>2, SearchAssumption
    <2>3. \A c \in Calls : pc[c] \in Group!Flying => flight[key[c]] = c
      BY <2>1 DEF GroupState, Group!Flying
    <2>4. \A c \in Calls :
             pc[c] = "waiting" =>
                 /\ run[c] \in Calls /\ pc[run[c]] \in Group!Flying
                 /\ key[run[c]] = key[c]
      BY <2>1 DEF GroupState, Group!Flying
    <2> QED
      BY <2>2, <2>3, <2>4 DEF RunsShared
  <1> QED
    BY Invariance, <1>1, PTL

\* With the group on, only ExecResponds changes what the cache holds, it does
\* so for the one run of the key that is under way, and that run's request
\* was served after the one whose response it replaces.
LEMMA ForwardStep ==
  ASSUME IInv, [Next]_vars, sfOn, NEW k \in Keys,
         latest[k] # None, latest'[k] # None
  PROVE  seen[latest[k].value] <= seen[latest'[k].value]
  <1> USE DEF IInv, TypeOK, cacheVars, configVars, callVars, execVars, vars
  <1>g. GroupState
    BY GroupFacts
  <1>1. seen[latest[k].value] \in Nat /\ latest[k].value \in Calls
    BY SearchAssumption DEF Filled
  <1>2. CASE UNCHANGED latest
    BY <1>1, <1>2
  <1>3. ASSUME NEW c \in Calls, Served(c) PROVE UNCHANGED latest
    BY <1>3 DEF Served
  <1>4. ASSUME NEW c \in Calls, ExecResponds(c)
        PROVE  seen[latest[k].value] <= seen[latest'[k].value]
    <2> USE <1>4 DEF ExecResponds, ExecReturns, Group!FnReturns
    <2>1. CASE UNCHANGED latest
      BY <1>1, <2>1
    <2>2. CASE latest' = [latest EXCEPT ![want[c]] = [value |-> c, at |-> now]]
      <3>1. CASE want[c] # k
        BY <1>1, <2>2, <3>1
      <3>2. CASE want[c] = k
        <4>1. latest'[k].value = c
          BY <2>2, <3>2
        <4>2. pc[c] = "running" /\ key[c] = k
          BY <1>g, <3>2, SearchAssumption DEF Linked, GroupState
        <4>3. seen[latest[k].value] <= seen[c]
          BY <4>2 DEF Ahead
        <4> QED
          BY <4>1, <4>3
      <3> QED
        BY <3>1, <3>2
    <2> QED
      BY <2>1, <2>2 DEF Cache!Set
  <1>5. ASSUME NEW c \in Calls, Progress(c), ~ ExecResponds(c)
        PROVE  UNCHANGED latest
    BY <1>5 DEF Progress, StickyHit, EnterGroup, InGroup, ExecFails,
                ExecReturns, Finish
  <1>6. ASSUME NEW c \in Calls, NEW j \in Keys \cup {None},
               CacheHit(c, j) \/ CacheMiss(c, j)
        PROVE  UNCHANGED latest
    BY <1>6 DEF CacheHit, CacheMiss, Cache!GetValue, Cache!GetNothing
  <1>7. ASSUME Tick PROVE UNCHANGED latest
    BY <1>7 DEF Tick
  <1> QED
    BY <1>2, <1>3, <1>4, <1>5, <1>6, <1>7 DEF Next

\* The cache never goes back to older content while the group is on.
THEOREM CacheForward == Spec => CacheMovesForward
  <1>1. IInv /\ [Next]_vars =>
          [sfOn => \A k \in Keys :
             (latest[k] # None /\ latest'[k] # None) =>
                 seen[latest[k].value] <= seen[latest'[k].value]]_vars
    <2> SUFFICES ASSUME IInv, [Next]_vars, sfOn, NEW k \in Keys,
                        latest[k] # None, latest'[k] # None
                 PROVE  seen[latest[k].value] <= seen[latest'[k].value]
      OBVIOUS
    <2> QED
      BY ForwardStep
  <1> QED
    BY Invariance, <1>1, PTL DEF Spec, CacheMovesForward

\* runSearch uses the group and the cache only as they are specified: each of
\* its behaviours is one of Singleflight and one of TTLStore, so that what is
\* proved of them holds of a search.
THEOREM Composition ==
  Spec => /\ Proved!Init /\ [][Proved!Next]_(Proved!vars)
          /\ Cache!Init /\ [][Cache!Next]_(Cache!vars)
  <1>1. Init => Proved!Init /\ Cache!Init
    BY DEF Init, Group!Init, Proved!Init
  <1>2. IInv /\ [Next]_vars => [Proved!Next]_(Proved!vars)
    BY GroupStep DEF IInv
  <1>3. IInv /\ [Next]_vars => [Cache!Next]_(Cache!vars)
    <2> SUFFICES ASSUME IInv, [Next]_vars PROVE [Cache!Next]_(Cache!vars)
      OBVIOUS
    <2> USE DEF Cache!vars, cacheVars
    <2>1. /\ \A c \in Calls, k \in Keys :
                CacheHit(c, k) => [Cache!Next]_(Cache!vars)
          /\ \A c \in Calls, k \in Keys \cup {None} :
                CacheMiss(c, k) => [Cache!Next]_(Cache!vars)
      BY DEF CacheHit, CacheMiss, Cache!Next
    <2>2. ASSUME NEW c \in Calls, ExecResponds(c)
          PROVE  [Cache!Next]_(Cache!vars)
      <3>1. want[c] \in Keys
        BY <2>2 DEF IInv, Linked, TypeOK, ExecResponds
      <3> QED
        BY <2>2, <3>1 DEF ExecResponds, ExecReturns, Group!FnReturns, Cache!Set,
                          Cache!Next
    <2>3. ASSUME NEW c \in Calls,
                 Served(c) \/ StickyHit(c) \/ EnterGroup(c) \/ InGroup(c)
          PROVE  UNCHANGED Cache!vars
      BY <2>3 DEF Served, StickyHit, EnterGroup, InGroup, Group!StickyHit,
                  Group!StickyMiss, Group!Bypass, Group!Join, Group!Lead,
                  Group!Store
    <2>4. ASSUME NEW c \in Calls, ExecFails(c) \/ Finish(c)
          PROVE  UNCHANGED Cache!vars
      BY <2>4 DEF ExecFails, ExecReturns, Finish, Group!FnReturns,
                  Group!Finish
    <2>5. ASSUME Tick PROVE Cache!Next
      BY <2>5 DEF Tick, Group!Tick, Cache!Tick, Cache!Next
    <2>6. ASSUME UNCHANGED vars PROVE UNCHANGED Cache!vars
      BY <2>6 DEF vars
    <2> QED
      BY <2>1, <2>2, <2>3, <2>4, <2>5, <2>6 DEF Next, Progress
  <1> QED
    BY Invariance, <1>1, <1>2, <1>3, PTL DEF Spec
=============================================================================
