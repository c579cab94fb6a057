----------------------------- MODULE Quickstart -----------------------------
(***************************************************************************)
(* The quickstart program (examples/quickstart/main.go), which is how the  *)
(* package is meant to be used: build a client, fill an index, search it,  *)
(* let the server change the embedding model, poll the job it queued, and  *)
(* search again.                                                           *)
(*                                                                         *)
(* Time passes in calls, which their context ends at the latest, and while *)
(* main sleeps, which does not look at the context.  Each method is one    *)
(* step, at the moment its last request is served (module Operations), and *)
(* a search goes through the query cache (module Search; the sticky window *)
(* is a fraction of a tick, and the cache answers before it).              *)
(***************************************************************************)
EXTENDS Integers, Sequences

CONSTANTS
    OptionLists,     \* options of main, and of programs that go the same way
    TTL,             \* of the query cache, where it is on
    ContextTimeout,  \* of the one context of main
    JobDeadline,     \* how long main polls
    PollInterval,    \* how long it sleeps between polls
    MaxTime,         \* bound of the clock
    None             \* nothing

ASSUME QuickstartAssumption ==
    /\ TTL \in Nat /\ ContextTimeout \in Nat /\ MaxTime \in Nat
    /\ JobDeadline \in Nat /\ JobDeadline >= ContextTimeout
    /\ PollInterval \in Nat \ {0}

ASSUME NoneAssumption ==
    /\ None \notin {"ok", "failed", "timed out"}
    /\ None \notin [value : {"old", "new"}, at : Nat]

VARIABLES
    options, applied, cfg, client,  \* NewClient
    now, latest, answer,            \* the query cache
    pc,        \* the call main is in, or "sleeping" or "done"
    deadline,  \* when main stops polling
    wake,      \* when its sleep is over
    outcome,   \* how it ended: None, "ok", "failed" or "timed out"
    shown,     \* the search results it printed: whose they are, and when
    model,     \* the embedding model of the index
    jobs       \* the jobs the server has queued

clientVars == <<options, applied, cfg, client>>
cacheVars  == <<latest, answer>>
mainVars   == <<pc, deadline, wake, outcome, shown>>
serverVars == <<model, jobs>>
vars       == <<clientVars, now, cacheVars, mainVars, serverVars>>

Models == {"old", "new"}

\* main's query, under its fingerprint.
Query == "query"

Making == INSTANCE Construction
Cache == INSTANCE TTLStore WITH Keys <- {Query}, Values <- Models

\* The calls before the first search.
Setup == <<"Health", "CreateTenant", "CreateIndex", "UpsertResource",
           "AddDocuments", "Search">>

Searches == {"Search", "SearchAgain"}

Calls == {Setup[i] : i \in DOMAIN Setup}
            \cup {"SwitchEmbeddingModel", "GetJob", "SearchAgain"}

\* Search results, by the model that found them.
Printed == [model : Models, at : Nat]

JobStatus == {"queued", "running", "completed", "failed"}

TypeOK ==
    /\ pc \in Calls \cup {"NewClient", "sleeping", "done"}
    /\ now \in 0 .. MaxTime
    /\ latest \in [{Query} -> [value : Models, at : 0 .. MaxTime] \cup {None}]
    /\ deadline \in Nat /\ wake \in Nat
    /\ outcome \in {"ok", "failed", "timed out", None}
    /\ (outcome # None) <=> (pc = "done")
    /\ shown \in Seq(Printed) /\ Len(shown) <= 2
    /\ model \in Models
    /\ jobs \in Seq(JobStatus) /\ Len(jobs) <= 2

Init ==
    /\ Making!Init
    /\ Cache!Init
    /\ pc = "NewClient"
    /\ deadline = 0
    /\ wake = 0
    /\ outcome = None
    /\ shown = <<>>
    /\ model = "old"
    /\ jobs = <<>>

-----------------------------------------------------------------------------
(***************************************************************************)
(* main.                                                                   *)
(***************************************************************************)

Goto(place) == pc' = place /\ UNCHANGED <<deadline, wake, outcome, shown>>

\* Mutant of End: main prints the error and goes on.
EndPrinting(how) ==
    /\ outcome' = how
    /\ UNCHANGED <<pc, deadline, wake, shown>>

End(how) ==
    /\ pc' = "done"
    /\ outcome' = how
    /\ UNCHANGED <<deadline, wake, shown>>

NewClient ==
    /\ pc = "NewClient"
    /\ \/ Making!Next /\ UNCHANGED mainVars
       \/ /\ client # None
          /\ IF client.ok THEN Goto(Setup[1]) ELSE End("failed")
          /\ UNCHANGED clientVars
    /\ UNCHANGED <<now, cacheVars, serverVars>>

\* Mutant of CtxOver: the calls are given context.Background().
CtxNever == FALSE

CtxOver == now >= ContextTimeout

\* main is in a search that the query cache answers: at once, without a look at
\* the context and without a request.
Hit == pc \in Searches /\ client.cache /\ Cache!Alive(Query)

\* The call got its answer, for which it needs a host to send to.
Answered(call) == pc = call /\ ~ CtxOver /\ client.baseURL.text # ""

SetUp ==
    /\ \E i \in 1 .. Len(Setup) - 1 : Answered(Setup[i]) /\ Goto(Setup[i + 1])
    /\ UNCHANGED <<clientVars, now, cacheVars, serverVars>>

\* The upsert may be missing on the server, which main prints and goes on.
UpsertFails ==
    /\ pc = "UpsertResource"
    /\ Goto("AddDocuments")
    /\ UNCHANGED <<clientVars, now, cacheVars, serverVars>>

\* Mutant of CallFails: main polls on after a failed GetJob.
CallFailsPollsOn ==
    /\ pc \in Calls \ {"UpsertResource"} /\ ~ Hit
    /\ IF pc = "GetJob" THEN UNCHANGED mainVars ELSE End("failed")
    /\ UNCHANGED <<clientVars, now, cacheVars, serverVars>>

\* Every other failure, the end of the context among them, is fatal.
CallFails ==
    /\ pc \in Calls \ {"UpsertResource"} /\ ~ Hit
    /\ End("failed")
    /\ UNCHANGED <<clientVars, now, cacheVars, serverVars>>

\* A search printed what `by' found; the first is followed by the change of the
\* model if main is told a backend.
Show(by) ==
    /\ shown' = Append(shown, [model |-> by, at |-> now])
    /\ \/ pc = "Search" /\ pc' = "SwitchEmbeddingModel" /\ UNCHANGED outcome
       \/ pc' = "done" /\ outcome' = "ok"
    /\ UNCHANGED <<deadline, wake>>

SearchCached ==
    /\ Hit
    /\ Cache!GetValue(Query)
    /\ Show(latest[Query].value)
    /\ UNCHANGED <<clientVars, serverVars>>

SearchServed ==
    /\ Answered("Search") \/ Answered("SearchAgain")
    /\ ~ Hit
    /\ Show(model)
    /\ IF client.cache THEN Cache!Set(Query, model)
       ELSE UNCHANGED <<now, cacheVars>>
    /\ UNCHANGED <<clientVars, serverVars>>

\* A retried call may have queued another job before its own.
Switch ==
    /\ Answered("SwitchEmbeddingModel")
    /\ \E n \in 1 .. 2 : jobs' = [i \in 1 .. n |-> "queued"]
    /\ pc' = "GetJob"
    /\ deadline' = now + JobDeadline
    /\ UNCHANGED <<clientVars, now, cacheVars, model, wake, outcome, shown>>

\* The job that main was told.
Mine == Len(jobs)

\* Mutant of JobIsOver: the loop breaks for a failed job too.
JobIsOverAnyhow ==
    /\ Answered("GetJob")
    /\ jobs[Mine] \in {"completed", "failed"}
    /\ Goto("SearchAgain")
    /\ UNCHANGED <<clientVars, now, cacheVars, serverVars>>

JobIsOver ==
    /\ Answered("GetJob")
    /\ jobs[Mine] \in {"completed", "failed"}
    /\ IF jobs[Mine] = "completed" THEN Goto("SearchAgain") ELSE End("failed")
    /\ UNCHANGED <<clientVars, now, cacheVars, serverVars>>

JobGoesOn ==
    /\ Answered("GetJob")
    /\ jobs[Mine] \in {"queued", "running"}
    /\ IF now > deadline THEN End("timed out")
       ELSE /\ pc' = "sleeping"
            /\ wake' = now + PollInterval
            /\ UNCHANGED <<deadline, outcome, shown>>
    /\ UNCHANGED <<clientVars, now, cacheVars, serverVars>>

Wake ==
    /\ pc = "sleeping"
    /\ now >= wake
    /\ Goto("GetJob")
    /\ UNCHANGED <<clientVars, now, cacheVars, serverVars>>

Main ==
    \/ NewClient \/ SetUp \/ UpsertFails \/ CallFails \/ SearchCached
    \/ SearchServed \/ Switch \/ JobIsOver \/ JobGoesOn \/ Wake

-----------------------------------------------------------------------------
(***************************************************************************)
(* The server and the clock.                                               *)
(***************************************************************************)

JobRuns(j) ==
    /\ jobs[j] = "queued"
    /\ jobs' = [jobs EXCEPT ![j] = "running"]
    /\ UNCHANGED <<clientVars, now, cacheVars, mainVars, model>>

JobEnds(j) ==
    /\ jobs[j] = "running"
    /\ \/ jobs' = [jobs EXCEPT ![j] = "completed"] /\ model' = "new"
       \/ jobs' = [jobs EXCEPT ![j] = "failed"] /\ UNCHANGED model
    /\ UNCHANGED <<clientVars, now, cacheVars, mainVars>>

\* What main does between two calls takes no time, and a call at most until its
\* context ends; a sleep takes its time whatever the context does.
Tick ==
    /\ \/ pc \in Calls /\ ~ CtxOver /\ ~ Hit
       \/ pc = "sleeping" /\ now < wake
    /\ Cache!Tick
    /\ UNCHANGED <<clientVars, mainVars, serverVars>>

Next == Main \/ Tick \/ \E j \in DOMAIN jobs : JobRuns(j) \/ JobEnds(j)

\* main is never blocked for good; the server owes it nothing.
Spec == Init /\ [][Next]_vars /\ WF_vars(Main) /\ WF_vars(Tick)

-----------------------------------------------------------------------------
(***************************************************************************)
(* Properties.                                                             *)
(***************************************************************************)

\* The client is the one main's options ask for (Construction).
ClientAsAsked == Making!ClientAsAsked

\* The second search sends a request, and shows what the new model finds, unless
\* the results of the first are still in the cache, which are then shown again:
\* nothing but their age decides, so with the options of main (a TTL of 30 s)
\* the "re-search" (main.go:1-2) repeats the first whenever the job is done that
\* soon, and never shows the old results later than that.
SearchesAgain ==
    Len(shown) = 2 =>
        shown[2].model = IF client.cache /\ shown[2].at <= shown[1].at + TTL
                         THEN shown[1].model ELSE "new"

\* main outlives its context by less than one sleep between polls, and only to
\* fail in the poll after it (main.go:130, 145); so it never comes to the deadline
\* of five minutes it polls for (main.go:40, 128).
ContextRules ==
    /\ now < ContextTimeout + PollInterval
    /\ now > ContextTimeout => pc \in {"sleeping", "GetJob"} \/ outcome = "failed"
    /\ outcome # "timed out"

\* main ends, whether or not the job ever does.
MainEnds == <>(pc = "done")
=============================================================================
