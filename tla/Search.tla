------------------------------- MODULE Search -------------------------------
(***************************************************************************)
(* Client.runSearch (search.go): the query cache and the singleflight      *)
(* group around one HTTP call.                                             *)
(*                                                                         *)
(* The group is Singleflight itself; the cache is TTLStore, the abstract   *)
(* store that QueryCache implements for every capacity, so an eviction or  *)
(* an expiry is a GetNothing.  c.do is module Request: here it ends with   *)
(* the response the server computed, or with an error.                     *)
(*                                                                         *)
(* A *SearchResponse is named after the run of exec that made it.  The     *)
(* nil group, which runSearch goes around, is Singleflight's Bypass.       *)
(***************************************************************************)
EXTENDS Naturals

CONSTANTS
    Calls,       \* invocations of Search
    Keys,        \* request fingerprints
    TTL,         \* of the cache, in ticks
    Window,      \* of the group, in ticks
    MaxTime,     \* bound of the clock
    None         \* nothing

ASSUME SearchAssumption ==
    /\ TTL \in Nat /\ Window \in Nat \ {0}
    /\ MaxTime \in Nat
    /\ None \notin Calls \cup Keys \cup {"response", "error"}

VARIABLES
    now, latest, answer,             \* the cache
    pending, flight, forgetting,     \* the group
    pc, key, run, entered, closed, forgotten,
    cacheOn,    \* WithQueryCache was given
    sfOn,       \* WithSingleflight was given
    stage,      \* of runSearch: "idle", "cache", "group" or "returned"
    want,       \* the fingerprint of each call: None if it has none
    began,      \* history: when each call looked into the cache
    seen,       \* when the server computed the response to each run's request
    outcome,    \* what each run of exec returned: "response" or "error"
    filled,     \* history: when it did
    source      \* the run whose outcome each call returned

cacheVars  == <<latest, answer>>
groupVars  == <<pending, flight, forgetting, pc, key, run, entered, closed,
                forgotten>>
configVars == <<cacheOn, sfOn>>
callVars   == <<stage, want, began, source>>
execVars   == <<seen, outcome, filled>>
vars       == <<now, cacheVars, groupVars, configVars, callVars,
                execVars>>

Cache == INSTANCE TTLStore WITH Values <- Calls
Group == INSTANCE Singleflight

TypeOK ==
    /\ Group!TypeOK
    /\ latest \in [Keys -> [value : Calls, at : Nat] \cup {None}]
    /\ cacheOn \in BOOLEAN /\ sfOn \in BOOLEAN
    /\ stage \in [Calls -> {"idle", "cache", "group", "returned"}]
    /\ want \in [Calls -> Keys \cup {None}]
    /\ began \in [Calls -> Nat]
    /\ seen \in [Calls -> Nat \cup {None}]
    /\ outcome \in [Calls -> {"response", "error", None}]
    /\ filled \in [Calls -> Nat]
    /\ source \in [Calls -> Calls \cup {None}]

Init ==
    /\ Cache!Init
    /\ Group!Init
    /\ cacheOn \in BOOLEAN
    /\ sfOn \in BOOLEAN
    /\ stage = [c \in Calls |-> "idle"]
    /\ want = [c \in Calls |-> None]
    /\ began = [c \in Calls |-> 0]
    /\ seen = [c \in Calls |-> None]
    /\ outcome = [c \in Calls |-> None]
    /\ filled = [c \in Calls |-> 0]
    /\ source = [c \in Calls |-> None]

Goto(c, s) == stage' = [stage EXCEPT ![c] = s]

ReturnFrom(c, r) ==
    /\ source' = [source EXCEPT ![c] = r]
    /\ Goto(c, "returned")

-----------------------------------------------------------------------------
(***************************************************************************)
(* The cache is asked first.  A request that does not marshal has no       *)
(* fingerprint: it goes around both layers, and c.do fails to send it.     *)
(***************************************************************************)

Begin(c, k) ==
    /\ stage[c] = "idle"
    /\ want' = [want EXCEPT ![c] = k]
    /\ began' = [began EXCEPT ![c] = now]

\* Mutant of Cached: the entry is returned for its value.
CachedEntry(k) == latest[k]

Cached(k) == latest[k].value

CacheHit(c, k) ==
    /\ Begin(c, k)
    /\ cacheOn
    /\ Cache!GetValue(k)
    /\ ReturnFrom(c, Cached(k))
    /\ UNCHANGED <<groupVars, configVars, execVars>>

CacheMiss(c, k) ==
    /\ Begin(c, k)
    /\ IF cacheOn /\ k # None THEN Cache!GetNothing(k)
                               ELSE UNCHANGED <<now, cacheVars>>
    /\ Goto(c, "cache")
    /\ UNCHANGED <<groupVars, configVars, execVars, source>>

-----------------------------------------------------------------------------
(***************************************************************************)
(* The group, and exec under it.                                           *)
(***************************************************************************)

\* Mutant of Fingerprints: the group's keys leave the query out.
FingerprintsOfAll(c) == Keys

Fingerprints(c) == {want[c]}

\* Mutant of Grouped: the group is gone around though there is one.
GroupedNever(c) == FALSE

Grouped(c) == stage[c] = "cache" /\ sfOn /\ want[c] # None

StickyHit(c) ==
    /\ Grouped(c)
    /\ \E k \in Fingerprints(c) :
          Group!StickyHit(c, k) /\ ReturnFrom(c, pending[k].run)
    /\ UNCHANGED <<cacheVars, configVars, want, began, execVars>>

EnterGroup(c) ==
    /\ stage[c] = "cache"
    /\ IF Grouped(c) THEN Group!StickyMiss(c, want[c]) ELSE Group!Bypass(c)
    /\ Goto(c, "group")
    /\ UNCHANGED <<cacheVars, configVars, want, began, source,
                   execVars>>

InGroup(c) ==
    /\ Group!Join(c) \/ Group!Lead(c) \/ Group!Store(c)
    /\ UNCHANGED <<cacheVars, configVars, callVars, execVars>>

\* The server computes the response to the run's request.  How old an answer's
\* content is counts from here.
Served(c) ==
    /\ pc[c] \in {"running", "direct"} /\ want[c] # None
    /\ seen[c] = None
    /\ seen' = [seen EXCEPT ![c] = now]
    /\ UNCHANGED <<now, cacheVars, groupVars, configVars, callVars,
                   outcome, filled>>

\* exec returns what c.do gave it; without the group it goes to the caller.
ExecReturns(c, o) ==
    /\ Group!FnReturns(c)
    /\ outcome' = [outcome EXCEPT ![c] = o]
    /\ filled' = [filled EXCEPT ![c] = now]
    /\ IF pc[c] = "direct" THEN ReturnFrom(c, c)
                           ELSE UNCHANGED <<stage, source>>
    /\ UNCHANGED <<configVars, want, began, seen>>

\* A response is cached by the run that got it, before anyone returns it.
ExecResponds(c) ==
    /\ seen[c] # None
    /\ ExecReturns(c, "response")
    /\ IF cacheOn THEN Cache!Set(want[c], c) ELSE UNCHANGED cacheVars

\* c.do failed: of all its reasons one is that the leading caller's context
\* ended.  Nothing is cached.
ExecFails(c) ==
    /\ ExecReturns(c, "error")
    /\ UNCHANGED cacheVars

\* The flight is closed: its leader and all who joined it return.
Finish(c) ==
    /\ Group!Finish(c)
    /\ LET D == {d \in Calls : pc[d] # "done" /\ pc'[d] = "done"} IN
       /\ source' = [d \in Calls |-> IF d \in D THEN run[d] ELSE source[d]]
       /\ stage' = [d \in Calls |-> IF d \in D THEN "returned" ELSE stage[d]]
    /\ UNCHANGED <<cacheVars, configVars, want, began, execVars>>

Tick ==
    /\ Group!Tick
    /\ UNCHANGED <<cacheVars, configVars, callVars, execVars>>

Progress(c) ==
    \/ StickyHit(c)
    \/ EnterGroup(c)
    \/ InGroup(c)
    \/ ExecResponds(c)
    \/ ExecFails(c)
    \/ Finish(c)

Next ==
    \/ \E c \in Calls, k \in Keys : CacheHit(c, k)
    \/ \E c \in Calls, k \in Keys \cup {None} : CacheMiss(c, k)
    \/ \E c \in Calls : Served(c) \/ Progress(c)
    \/ Tick

\* A call in runSearch is a runnable goroutine, and c.do returns (Request).
Spec == Init /\ [][Next]_vars /\ \A c \in Calls : WF_vars(Progress(c))

-----------------------------------------------------------------------------
(***************************************************************************)
(* Properties.                                                             *)
(***************************************************************************)

\* Search returns what a run for the caller's own fingerprint ended with, and the
\* cache holds what such runs ended with if it was a response: neither layer
\* mixes fingerprints up, and an error is handed on by the group alone.
OwnAnswer ==
    /\ \A c \in Calls :
          stage[c] = "returned" =>
              /\ source[c] \in Calls
              /\ want[source[c]] = want[c]
              /\ outcome[source[c]] # None
    /\ \A k \in Keys :
          latest[k] # None =>
              /\ want[latest[k].value] = k
              /\ outcome[latest[k].value] = "response"

\* The two layers do not add up: whatever the interleaving, an answer was got at
\* most TTL before the call began, or its flight was not closed Window before
\* the call came to the group.
AnswersFresh ==
    \A c \in Calls :
        (stage[c] = "returned" /\ source[c] # c) =>
            LET r == source[c] IN
            \/ cacheOn /\ outcome[r] = "response" /\ began[c] <= filled[r] + TTL
            \/ sfOn /\ pc[r] = "finishing"
            \/ sfOn /\ pc[r] = "done" /\ entered[c] < closed[r] + Window

\* With the group on, what the cache holds for a key never goes back to a
\* response the server computed earlier: runs of one key follow each other, so
\* no slow response is cached over a newer one.  (Without the group nothing
\* prevents it.)
CacheMovesForward ==
    [][sfOn => \A k \in Keys :
          (latest[k] # None /\ latest'[k] # None) =>
              seen[latest[k].value] <= seen[latest'[k].value]]_vars

\* Every Search returns.
EverySearchReturns == \A c \in Calls : stage[c] = "cache" ~> stage[c] = "returned"

\* options.go:126-128, "keep the singleflight key live for that duration after a
\* hit (so downstream callers within the window observe the cached response)":
\* what a sticky key hands out is a response.
StickyResponses ==
    [][\A c \in Calls :
          StickyHit(c) => outcome[pending[want[c]].run] = "response"]_vars
=============================================================================
