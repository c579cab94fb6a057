-------------------------- MODULE QuickstartProofs --------------------------
(***************************************************************************)
(* Proofs about Quickstart, for any options, any TTL and any deadline that *)
(* is not before the end of the context.                                   *)
(***************************************************************************)
EXTENDS Quickstart, TLAPS

(***************************************************************************)
(* The inductive invariant, in named parts.                                *)
(***************************************************************************)

Before == {"NewClient"} \cup {Setup[i] : i \in DOMAIN Setup}

Between == {"SwitchEmbeddingModel", "GetJob", "sleeping", "SearchAgain"}

\* The clock, and what main waits for, pass the end of the context by less than
\* one sleep, and the clock only while main sleeps or with a poll that fails.
Timely ==
    /\ now \in Nat /\ now < ContextTimeout + PollInterval
    /\ now > ContextTimeout => pc \in {"sleeping", "GetJob"} \/ outcome = "failed"
    /\ pc = "sleeping" => wake \in Nat /\ wake < ContextTimeout + PollInterval
    /\ pc \in {"GetJob", "sleeping"} => deadline \in Nat /\ deadline >= ContextTimeout
    /\ outcome # "timed out"
    /\ outcome = "failed" => pc = "done"

\* How many searches were shown where, and that the cache holds nothing before
\* the first and that one's results after it.
Shown ==
    /\ Query \in DOMAIN latest
    /\ model \in Models
    /\ shown \in Seq(Printed)
    /\ pc \in Before => Len(shown) = 0 /\ latest[Query] = None
    /\ pc \in Between =>
          /\ Len(shown) = 1
          /\ client.cache => latest[Query] = [value |-> shown[1].model,
                                             at    |-> shown[1].at]
    /\ Len(shown) = 2 => pc = "done"

\* A completed job has put the new model into use, where it stays.
Swapped ==
    /\ DOMAIN jobs \subseteq Nat
    /\ \A j \in DOMAIN jobs : jobs[j] = "completed" => model = "new"
    /\ pc = "SearchAgain" => model = "new"
    /\ pc \in {"GetJob", "sleeping"} => Mine \in DOMAIN jobs

IInv == Timely /\ Shown /\ Swapped /\ SearchesAgain

LEMMA Limits ==
  /\ ContextTimeout \in Nat /\ PollInterval \in Nat /\ PollInterval > 0
  /\ \A n \in Nat : n + JobDeadline \in Nat /\ n + JobDeadline >= ContextTimeout
  <1>1. ContextTimeout \in Nat /\ JobDeadline \in Nat
        /\ JobDeadline >= ContextTimeout /\ PollInterval \in Nat \ {0}
    BY QuickstartAssumption
  <1> QED
    BY <1>1

\* A poll that is answered within the context finds the deadline ahead, and its
\* sleep ends less than a sleep after the context.
LEMMA InTime ==
  ASSUME NEW c \in Nat, NEW n \in Nat, NEW d \in Nat, NEW i \in Nat,
         d >= c, ~ (n >= c)
  PROVE  ~ (n > d) /\ ~ (n > c) /\ n + i \in Nat /\ n + i < c + i
  OBVIOUS

LEMMA SetupCalls ==
  /\ DOMAIN Setup = 1 .. 6
  /\ Before = {"NewClient", "Health", "CreateTenant", "CreateIndex",
               "UpsertResource", "AddDocuments", "Search"}
  /\ Calls = {"Health", "CreateTenant", "CreateIndex", "UpsertResource",
              "AddDocuments", "Search", "SwitchEmbeddingModel", "GetJob",
              "SearchAgain"}
  <1>1. DOMAIN Setup = 1 .. 6
    BY DEF Setup
  <1>2. {Setup[i] : i \in 1 .. 6} =
           {"Health", "CreateTenant", "CreateIndex", "UpsertResource",
            "AddDocuments", "Search"}
    BY DEF Setup
  <1> QED
    BY <1>1, <1>2 DEF Before, Calls

LEMMA SetupGoesOn ==
  ASSUME SetUp
  PROVE  pc \in Before /\ pc' \in Before
  <1>1. Len(Setup) = 6
    BY DEF Setup
  <1>2. \A i \in 1 .. Len(Setup) - 1 : i \in DOMAIN Setup /\ i + 1 \in DOMAIN Setup
    BY <1>1, SetupCalls
  <1> QED
    BY <1>2 DEF SetUp, Answered, Goto, Before

LEMMA InitHolds ==
  ASSUME Init
  PROVE  IInv
  <1>1. /\ pc = "NewClient" /\ now = 0 /\ outcome = None /\ shown = <<>>
        /\ jobs = <<>> /\ model = "old" /\ latest = [k \in {Query} |-> None]
    BY DEF Init, Cache!Init
  <1>2. pc \in Before /\ pc \notin Between /\ pc \notin {"GetJob", "sleeping"}
    BY <1>1 DEF Before, Between
  <1>3. Timely
    <2>1. outcome \notin {"failed", "timed out"}
      BY <1>1, NoneAssumption
    <2>2. now \in Nat /\ now < ContextTimeout + PollInterval
          /\ ~ (now > ContextTimeout)
      BY <1>1, Limits
    <2> QED
      BY <1>2, <2>1, <2>2 DEF Timely
  <1>4. Shown
    BY <1>1, <1>2 DEF Shown, Models
  <1>5. Swapped
    BY <1>1 DEF Swapped
  <1>6. SearchesAgain
    BY <1>1 DEF SearchesAgain
  <1> QED
    BY <1>3, <1>4, <1>5, <1>6 DEF IInv

\* main goes on, or ends, and nothing is shown.
LEMMA GoingOnKeeps ==
  ASSUME IInv, UNCHANGED <<shown, jobs, model, now, latest>>,
         pc' = "done" \/ (pc \in Before /\ pc' \in Before)
            \/ (pc \in Between /\ pc' \in Between),
         pc' = "SearchAgain" => model = "new",
         pc' \in {"GetJob", "sleeping"} =>
            pc \in {"GetJob", "sleeping"} /\ UNCHANGED deadline,
         pc' = "sleeping" =>
            wake' \in Nat /\ wake' < ContextTimeout + PollInterval,
         outcome' # "timed out",
         outcome' = "failed" => pc' = "done",
         now > ContextTimeout =>
            pc' \in {"sleeping", "GetJob"} \/ outcome' = "failed",
         pc \in Before \/ client' = client,
         Len(shown) # 2
  PROVE  IInv'
  <1>1. "GetJob" \notin Before /\ "sleeping" \notin Before
        /\ "done" \notin Before /\ "done" \notin Between
        /\ Before \cap Between = {}
    BY SetupCalls DEF Between
  <1>2. Timely'
    BY <1>1 DEF IInv, Timely
  <1>3. Shown'
    <2>1. pc' \in Before => pc \in Before
      BY <1>1
    <2>2. pc' \in Between => pc \in Between /\ client' = client
      BY <1>1
    <2> QED
      BY <2>1, <2>2 DEF IInv, Shown
  <1>4. Swapped'
    BY <1>1 DEF IInv, Swapped, Mine
  <1>5. SearchesAgain'
    BY DEF SearchesAgain
  <1> QED
    BY <1>2, <1>3, <1>4, <1>5 DEF IInv

\* main shows results: the first are those of the model in use, which the cache
\* then holds if there is one; the second are decided by the age of the first.
LEMMA ShowKeeps ==
  ASSUME IInv, pc \in Searches, NEW r \in Models, Show(r),
         UNCHANGED <<clientVars, now, serverVars>>,
         ~ (now > ContextTimeout),
         Query \in DOMAIN latest',
         pc = "Search" /\ client.cache =>
            latest'[Query] = [value |-> r, at |-> now],
         pc = "SearchAgain" =>
            r = IF client.cache /\ now <= shown[1].at + TTL
                THEN shown[1].model ELSE "new"
  PROVE  IInv'
  <1> DEFINE new == [model |-> r, at |-> now]
  <1>1. /\ shown' = Append(shown, new) /\ UNCHANGED <<deadline, wake, jobs, model>>
        /\ client' = client
        /\ \/ pc = "Search" /\ pc' = "SwitchEmbeddingModel" /\ outcome' = outcome
           \/ pc' = "done" /\ outcome' = "ok"
    BY DEF Show, clientVars, serverVars
  <1>2. pc = "Search" \/ pc = "SearchAgain"
    BY DEF Searches
  <1>3. /\ "Search" \in Before /\ "SearchAgain" \in Between
        /\ "SwitchEmbeddingModel" \in Between \ Before
        /\ "done" \notin Before \cup Between
    BY SetupCalls DEF Between
  <1>4. shown \in Seq(Printed) /\ Len(shown) = IF pc = "Search" THEN 0 ELSE 1
    BY <1>2, <1>3 DEF IInv, Shown
  <1>n. new \in Printed /\ new.model = r /\ new.at = now
    BY DEF IInv, Timely, Printed
  <1>5. /\ shown' \in Seq(Printed)
        /\ Len(shown') = Len(shown) + 1
        /\ shown'[Len(shown) + 1] = new
        /\ pc = "SearchAgain" => shown'[1] = shown[1]
    <2> HIDE DEF new
    <2> QED
      BY <1>1, <1>2, <1>4, <1>n
  <1>6. Timely'
    BY <1>1 DEF IInv, Timely
  <1>7. Shown'
    <2>1. CASE pc' = "SwitchEmbeddingModel"
      <3>1. pc = "Search" /\ Len(shown') = 1 /\ shown'[1] = new
        BY <1>1, <1>2, <1>4, <1>5, <2>1
      <3> QED
        BY <1>1, <1>3, <1>5, <1>n, <2>1, <3>1 DEF IInv, Shown
    <2>2. CASE pc' = "done"
      BY <1>1, <1>3, <1>5, <2>2 DEF IInv, Shown
    <2> QED
      BY <1>1, <2>1, <2>2
  <1>8. Swapped'
    BY <1>1 DEF IInv, Swapped, Mine
  <1>9. SearchesAgain'
    <2>1. SUFFICES ASSUME Len(shown') = 2
                   PROVE  shown'[2].model =
                             IF client'.cache /\ shown'[2].at <= shown'[1].at + TTL
                             THEN shown'[1].model ELSE "new"
      BY DEF SearchesAgain
    <2>2. pc = "SearchAgain" /\ Len(shown) = 1
      BY <1>2, <1>4, <1>5, <2>1
    <2>3. shown'[2] = new /\ shown'[1] = shown[1]
      BY <1>5, <2>2
    <2> QED
      BY <1>1, <1>n, <2>2, <2>3
  <1> QED
    BY <1>6, <1>7, <1>8, <1>9 DEF IInv

LEMMA MainKeeps ==
  ASSUME IInv, Main
  PROVE  IInv'
  <1>s. /\ Before \cap Between = {} /\ "done" \notin Before \cup Between
        /\ "GetJob" \in Between /\ "SwitchEmbeddingModel" \in Between
        /\ "sleeping" \in Between /\ "SearchAgain" \in Between
        /\ "NewClient" \in Before /\ "Health" \in Before /\ "Search" \in Before
        /\ "UpsertResource" \in Before /\ "AddDocuments" \in Before
        /\ Calls \subseteq Before \cup Between
        /\ \A p \in Before : p \notin {"GetJob", "sleeping", "SearchAgain"}
    BY SetupCalls DEF Between
  \* Where main neither sleeps nor polls, its time is not yet over.
  <1>u. pc \notin {"sleeping", "GetJob", "done"} => ~ (now > ContextTimeout)
    BY DEF IInv, Timely
  <1>t. pc \in Before \cup Between => Len(shown) # 2
    BY DEF IInv, Shown
  <1>1. CASE NewClient
    <2>1. /\ UNCHANGED <<shown, jobs, model, now, latest>> /\ pc = "NewClient"
          /\ \/ UNCHANGED <<pc, outcome>>
             \/ pc' = Setup[1] /\ UNCHANGED outcome
             \/ pc' = "done" /\ outcome' = "failed"
      BY <1>1 DEF NewClient, Goto, End, mainVars, serverVars, cacheVars
    <2>2. Setup[1] = "Health"
      BY DEF Setup
    <2>3. outcome' # "timed out" /\ (outcome' = "failed" => pc' = "done")
      <3>1. outcome \notin {"failed", "timed out"}
        BY <2>1 DEF IInv, Timely
      <3> QED
        BY <2>1, <3>1
    <2>4. ~ (now > ContextTimeout)
      BY <1>u, <2>1
    <2> QED
      BY <1>s, <1>t, <2>1, <2>2, <2>3, <2>4, GoingOnKeeps
  <1>2. CASE SetUp
    <2>1. UNCHANGED <<shown, jobs, model, now, latest, outcome>>
      BY <1>2 DEF SetUp, Goto, serverVars, cacheVars
    <2>2. pc \in Before /\ pc' \in Before
      BY <1>2, SetupGoesOn
    <2>3. outcome \notin {"failed", "timed out"} /\ ~ (now > ContextTimeout)
      BY <1>u, <1>s, <2>2 DEF IInv, Timely
    <2> QED
      BY <1>s, <1>t, <2>1, <2>2, <2>3, GoingOnKeeps
  <1>3. CASE UpsertFails
    <2>1. UNCHANGED <<shown, jobs, model, now, latest, outcome>>
          /\ pc = "UpsertResource" /\ pc' = "AddDocuments"
      BY <1>3 DEF UpsertFails, Goto, serverVars, cacheVars
    <2>2. outcome \notin {"failed", "timed out"} /\ ~ (now > ContextTimeout)
      BY <1>u, <2>1 DEF IInv, Timely
    <2> QED
      BY <1>s, <1>t, <2>1, <2>2, GoingOnKeeps
  <1>4. CASE CallFails
    <2>1. /\ UNCHANGED <<shown, jobs, model, now, latest>> /\ pc \in Calls
          /\ pc' = "done" /\ outcome' = "failed" /\ client' = client
      BY <1>4 DEF CallFails, End, serverVars, cacheVars, clientVars
    <2> QED
      BY <1>s, <1>t, <2>1, GoingOnKeeps
  <1>c. ASSUME pc = "SearchAgain"
        PROVE  /\ model = "new"
               /\ client.cache => latest[Query] = [value |-> shown[1].model,
                                                  at    |-> shown[1].at]
    BY <1>c, <1>s DEF IInv, Shown, Swapped
  <1>5. CASE SearchCached
    <2>1. /\ pc \in Searches /\ client.cache /\ Show(latest[Query].value)
          /\ UNCHANGED <<clientVars, now, serverVars>> /\ latest' = latest
          /\ latest[Query] # None /\ now <= latest[Query].at + TTL
      BY <1>5 DEF SearchCached, Hit, Cache!GetValue, Cache!Alive
    <2>2. pc = "SearchAgain"
      BY <1>s, <2>1 DEF Searches, IInv, Shown
    <2>3. /\ latest[Query].value = shown[1].model
          /\ now <= shown[1].at + TTL
      BY <1>c, <2>1, <2>2
    <2>4. shown[1].model \in Models
      <3>1. shown \in Seq(Printed) /\ Len(shown) = 1
        BY <1>s, <2>2 DEF IInv, Shown
      <3>2. shown[1] \in Printed
        BY <3>1
      <3> QED
        BY <3>2 DEF Printed
    <2>5. ~ (now > ContextTimeout)
      BY <1>u, <2>2
    <2>6. Query \in DOMAIN latest'
      BY <2>1 DEF IInv, Shown
    <2> QED
      BY <2>1, <2>2, <2>3, <2>4, <2>5, <2>6, ShowKeeps
  <1>6. CASE SearchServed
    <2>1. /\ pc \in Searches /\ Show(model) /\ ~ Hit
          /\ UNCHANGED <<clientVars, serverVars>>
          /\ IF client.cache THEN Cache!Set(Query, model)
             ELSE UNCHANGED <<now, cacheVars>>
      BY <1>6 DEF SearchServed, Answered, Searches
    <2>2. /\ now' = now /\ model \in Models /\ Query \in DOMAIN latest
          /\ ~ (now > ContextTimeout)
      BY <1>u, <2>1 DEF IInv, Shown, Cache!Set, Searches
    <2>3. /\ Query \in DOMAIN latest'
          /\ client.cache => latest'[Query] = [value |-> model, at |-> now]
      BY <2>1, <2>2 DEF cacheVars, Cache!Set
    <2>4. UNCHANGED <<clientVars, now, serverVars>>
      BY <2>1, <2>2
    <2>5. ASSUME pc = "SearchAgain"
          PROVE  model = IF client.cache /\ now <= shown[1].at + TTL
                         THEN shown[1].model ELSE "new"
      <3>1. client.cache => latest[Query] # None
        <4>1. shown \in Seq(Printed) /\ Len(shown) = 1
          BY <1>s, <2>5 DEF IInv, Shown
        <4>2. shown[1] \in Printed
          BY <4>1
        <4>3. [value |-> shown[1].model, at |-> shown[1].at]
                 \in [value : {"old", "new"}, at : Nat]
          BY <4>2 DEF Printed, Models
        <4> QED
          BY <1>c, <2>5, <4>3, NoneAssumption
      <3>2. client.cache => ~ (now <= latest[Query].at + TTL)
        BY <2>1, <3>1 DEF Hit, Cache!Alive
      <3>3. client.cache => latest[Query].at = shown[1].at
        BY <1>c, <2>5
      <3> QED
        BY <1>c, <2>5, <3>2, <3>3
    <2> QED
      BY <2>1, <2>2, <2>3, <2>4, <2>5, ShowKeeps
  <1>7. CASE Switch
    <2>1. /\ pc = "SwitchEmbeddingModel" /\ pc' = "GetJob"
          /\ now < ContextTimeout \/ ~ (now >= ContextTimeout)
          /\ deadline' = now + JobDeadline
          /\ UNCHANGED <<client, now, latest, model, outcome, shown>>
      BY <1>7 DEF Switch, Answered, CtxOver, clientVars, cacheVars
    <2>2. PICK n \in 1 .. 2 : jobs' = [i \in 1 .. n |-> "queued"]
      BY <1>7 DEF Switch
    <2>n. /\ Len(jobs') = n /\ DOMAIN jobs' = 1 .. n
          /\ \A j \in DOMAIN jobs' : jobs'[j] # "completed"
      BY <2>2
    <2>3. Timely'
      <3>1. /\ now \in Nat /\ now < ContextTimeout + PollInterval
            /\ outcome \notin {"failed", "timed out"} /\ ~ (now > ContextTimeout)
        BY <1>u, <2>1 DEF IInv, Timely
      <3>2. deadline' \in Nat /\ deadline' >= ContextTimeout
        BY <2>1, <3>1, Limits
      <3> QED
        BY <2>1, <3>1, <3>2 DEF Timely
    <2>4. Shown'
      BY <1>s, <2>1 DEF IInv, Shown
    <2>5. Swapped'
      BY <2>1, <2>n DEF IInv, Swapped, Mine
    <2>6. SearchesAgain'
      BY <1>s, <1>t, <2>1 DEF SearchesAgain
    <2> QED
      BY <2>3, <2>4, <2>5, <2>6 DEF IInv
  <1>8. CASE JobIsOver
    <2>1. /\ UNCHANGED <<shown, jobs, model, now, latest>> /\ pc = "GetJob"
          /\ \/ pc' = "done" /\ outcome' = "failed"
             \/ pc' = "SearchAgain" /\ jobs[Mine] = "completed" /\ outcome' = outcome
          /\ client' = client /\ ~ (now >= ContextTimeout)
      BY <1>8 DEF JobIsOver, Answered, CtxOver, Goto, End, serverVars, cacheVars,
                  clientVars
    <2>2. /\ pc' = "SearchAgain" => model = "new"
          /\ outcome \notin {"failed", "timed out"} /\ now \in Nat
      BY <2>1 DEF IInv, Swapped, Timely
    <2>3. ~ (now > ContextTimeout)
      <3>1. now \in Nat /\ ContextTimeout \in Nat /\ ~ (now >= ContextTimeout)
        BY <2>1, <2>2, Limits
      <3> QED
        BY <3>1
    <2> QED
      BY <1>s, <1>t, <2>1, <2>2, <2>3, GoingOnKeeps
  <1>9. CASE JobGoesOn
    <2>1. /\ UNCHANGED <<shown, jobs, model, now, latest, client>> /\ pc = "GetJob"
          /\ ~ (now >= ContextTimeout)
          /\ \/ now > deadline
             \/ /\ pc' = "sleeping" /\ wake' = now + PollInterval
                /\ UNCHANGED <<deadline, outcome>>
      BY <1>9 DEF JobGoesOn, Answered, CtxOver, End, serverVars, cacheVars, clientVars
    <2>2. /\ now \in Nat /\ deadline \in Nat /\ deadline >= ContextTimeout
          /\ outcome \notin {"failed", "timed out"}
      BY <2>1 DEF IInv, Timely
    <2>3. /\ ~ (now > deadline) /\ ~ (now > ContextTimeout)
          /\ now + PollInterval \in Nat
          /\ now + PollInterval < ContextTimeout + PollInterval
      BY <2>1, <2>2, Limits, InTime
    <2>4. /\ pc' = "sleeping" /\ wake' = now + PollInterval
          /\ UNCHANGED <<deadline, outcome>>
      BY <2>1, <2>3
    <2> QED
      BY <1>s, <1>t, <2>1, <2>2, <2>3, <2>4, GoingOnKeeps
  <1>10. CASE Wake
    <2>1. /\ UNCHANGED <<shown, jobs, model, now, latest, outcome, deadline, client>>
          /\ pc = "sleeping" /\ pc' = "GetJob"
      BY <1>10 DEF Wake, Goto, serverVars, cacheVars, clientVars
    <2>2. outcome \notin {"failed", "timed out"}
      BY <2>1 DEF IInv, Timely
    <2> QED
      BY <1>s, <1>t, <2>1, <2>2, GoingOnKeeps
  <1> QED
    BY <1>1, <1>2, <1>3, <1>4, <1>5, <1>6, <1>7, <1>8, <1>9, <1>10 DEF Main

\* The clock ticks only where main waits: in a call within its context, or
\* asleep until a moment less than a sleep after it.
LEMMA TickKeeps ==
  ASSUME IInv, Tick
  PROVE  IInv'
  <1>1. /\ now' = now + 1 /\ UNCHANGED <<client, latest>>
        /\ UNCHANGED <<pc, deadline, wake, outcome, shown, model, jobs>>
        /\ \/ pc \in Calls /\ ~ (now >= ContextTimeout)
           \/ pc = "sleeping" /\ now < wake
    BY DEF Tick, Cache!Tick, CtxOver, clientVars, mainVars, serverVars
  <1>0. /\ now \in Nat
        /\ pc = "sleeping" =>
              wake \in Nat /\ wake < ContextTimeout + PollInterval
    BY DEF IInv, Timely
  <1>2. now + 1 \in Nat
    BY <1>0
  <1>3. /\ now + 1 < ContextTimeout + PollInterval
        /\ pc = "sleeping" \/ ~ (now + 1 > ContextTimeout)
    <2>1. CASE pc \in Calls /\ ~ (now >= ContextTimeout)
      <3>1. ~ (now + 1 > ContextTimeout) /\ now + 1 < ContextTimeout + PollInterval
        BY <1>0, <2>1, Limits
      <3> QED
        BY <3>1
    <2>2. CASE pc = "sleeping" /\ now < wake
      <3>1. wake \in Nat /\ wake < ContextTimeout + PollInterval /\ now < wake
        BY <1>0, <2>2
      <3>2. now + 1 < ContextTimeout + PollInterval
        BY <1>0, <3>1, Limits
      <3> QED
        BY <2>2, <3>2
    <2> QED
      BY <1>1, <2>1, <2>2
  <1>4. Timely'
    BY <1>1, <1>2, <1>3 DEF IInv, Timely
  <1>5. Shown'
    BY <1>1 DEF IInv, Shown
  <1>6. Swapped'
    BY <1>1 DEF IInv, Swapped, Mine
  <1>7. Len(shown) # 2
    <2>1. "done" \notin Calls
      BY SetupCalls
    <2> QED
      BY <1>1, <2>1 DEF IInv, Shown
  <1>8. SearchesAgain'
    BY <1>1, <1>7 DEF SearchesAgain
  <1> QED
    BY <1>4, <1>5, <1>6, <1>8 DEF IInv

LEMMA JobKeeps ==
  ASSUME IInv, NEW j \in DOMAIN jobs, JobRuns(j) \/ JobEnds(j)
  PROVE  IInv'
  <1>1. /\ UNCHANGED <<client, now, latest>>
        /\ UNCHANGED <<pc, deadline, wake, outcome, shown>>
    BY DEF JobRuns, JobEnds, clientVars, cacheVars, mainVars
  <1>2. \/ jobs' = [jobs EXCEPT ![j] = "running"] /\ model' = model
        \/ jobs' = [jobs EXCEPT ![j] = "completed"] /\ model' = "new"
        \/ jobs' = [jobs EXCEPT ![j] = "failed"] /\ model' = model
    BY DEF JobRuns, JobEnds
  <1>3. DOMAIN jobs' = DOMAIN jobs
    BY <1>2
  <1>4. Len(jobs') = Len(jobs)
    BY <1>2
  <1>5. Timely'
    BY <1>1 DEF IInv, Timely
  <1>6. Shown'
    BY <1>1, <1>2 DEF IInv, Shown, Models
  <1>7. Swapped'
    <2>1. \A i \in DOMAIN jobs' : jobs'[i] = "completed" => model' = "new"
      BY <1>2, <1>3 DEF IInv, Swapped
    <2>2. pc' = "SearchAgain" => model' = "new"
      BY <1>1, <1>2 DEF IInv, Swapped
    <2> QED
      BY <1>1, <1>3, <1>4, <2>1, <2>2 DEF IInv, Swapped, Mine
  <1>8. SearchesAgain'
    BY <1>1 DEF IInv, SearchesAgain
  <1> QED
    BY <1>5, <1>6, <1>7, <1>8 DEF IInv

LEMMA StepKeeps ==
  ASSUME IInv, [Next]_vars
  PROVE  IInv'
  <1>1. CASE Main
    BY <1>1, MainKeeps
  <1>2. CASE Tick
    BY <1>2, TickKeeps
  <1>3. ASSUME NEW j \in DOMAIN jobs, JobRuns(j) \/ JobEnds(j)
        PROVE  IInv'
    BY <1>3, JobKeeps
  <1>4. CASE UNCHANGED vars
    <2>1. UNCHANGED <<client, now, latest, pc, deadline, wake, outcome, shown,
                      model, jobs>>
      BY <1>4 DEF vars, clientVars, cacheVars, mainVars, serverVars
    <2> QED
      BY <2>1 DEF IInv, Timely, Shown, Swapped, SearchesAgain, Mine
  <1> QED
    BY <1>1, <1>2, <1>3, <1>4 DEF Next

LEMMA Inductive == Spec => []IInv
  <1>1. Init => IInv
    BY InitHolds
  <1>2. IInv /\ [Next]_vars => IInv'
    BY StepKeeps
  <1> QED
    BY <1>1, <1>2, PTL DEF Spec

\* Whatever the timeout of main's context, the period it polls for, if this is
\* not the shorter one, and its sleep between polls: main outlives its context by
\* less than one such sleep, and then only to fail; it never times out.
THEOREM TheContextRules == Spec => []ContextRules
  <1>1. IInv => ContextRules
    BY DEF IInv, Timely, ContextRules
  <1> QED
    BY <1>1, Inductive, PTL

\* Whatever the options and the TTL: with a cache, a second search within the TTL
\* of the first repeats what that one showed; any other shows what the new model
\* finds.
THEOREM SecondSearch == Spec => []SearchesAgain
  <1>1. IInv => SearchesAgain
    BY DEF IInv
  <1> QED
    BY <1>1, Inductive, PTL

-----------------------------------------------------------------------------
(***************************************************************************)
(* Types.  TypeOK is inductive on top of IInv, which says how long shown   *)
(* is where a search is about to be shown.                                 *)
(***************************************************************************)

Places == Calls \cup {"NewClient", "sleeping", "done"}

Entries == [value : Models, at : 0 .. MaxTime] \cup {None}

\* main is at a place of its own, and done exactly when it ended somehow.
Placed ==
    /\ pc \in Places
    /\ outcome \in {"ok", "failed", "timed out", None}
    /\ (outcome # None) <=> (pc = "done")
    /\ deadline \in Nat /\ wake \in Nat

\* The clock, the cache and what was shown.
Stored ==
    /\ now \in 0 .. MaxTime
    /\ latest \in [{Query} -> Entries]
    /\ shown \in Seq(Printed) /\ Len(shown) <= 2

\* The server.
Served ==
    /\ model \in Models
    /\ jobs \in Seq(JobStatus) /\ Len(jobs) <= 2

LEMMA TypeParts == TypeOK <=> Placed /\ Stored /\ Served
  BY DEF TypeOK, Placed, Stored, Served, Places, Entries

LEMMA TypePartsNext ==
  ASSUME Placed', Stored', Served'
  PROVE  TypeOK'
  BY DEF TypeOK, Placed, Stored, Served, Places, Entries

LEMMA TypeInit ==
  ASSUME Init
  PROVE  TypeOK
  <1>1. /\ pc = "NewClient" /\ now = 0 /\ outcome = None /\ shown = <<>>
        /\ jobs = <<>> /\ model = "old" /\ latest = [k \in {Query} |-> None]
        /\ deadline = 0 /\ wake = 0
    BY DEF Init, Cache!Init
  <1>2. Placed
    BY <1>1 DEF Placed, Places
  <1>3. Stored
    BY <1>1, QuickstartAssumption DEF Stored, Entries
  <1>4. Served
    BY <1>1 DEF Served, Models
  <1> QED
    BY <1>2, <1>3, <1>4, TypeParts

\* main goes to another call, or to sleep, or ends: the place and the outcome
\* change together.
LEMMA PlacedKept ==
  ASSUME Placed, pc # "done",
         \/ pc' \in Places \ {"done"} /\ outcome' = outcome
         \/ pc' = "done" /\ outcome' \in {"ok", "failed", "timed out"},
         deadline' \in Nat, wake' \in Nat
  PROVE  Placed'
  <1>1. outcome = None
    BY DEF Placed
  <1>2. CASE pc' \in Places \ {"done"} /\ outcome' = outcome
    BY <1>1, <1>2 DEF Placed
  <1>3. CASE pc' = "done" /\ outcome' \in {"ok", "failed", "timed out"}
    <2>1. pc' \in Places
      BY <1>3 DEF Places
    <2>2. outcome' # None
      BY <1>3, NoneAssumption
    <2> QED
      BY <1>3, <2>1, <2>2 DEF Placed
  <1> QED
    BY <1>2, <1>3

\* A search is shown only where fewer than two were.
LEMMA ShowTyped ==
  ASSUME Placed, Stored, IInv, pc \in Searches, NEW r \in Models, Show(r)
  PROVE  Placed' /\ shown' \in Seq(Printed) /\ Len(shown') <= 2
  <1> DEFINE new == [model |-> r, at |-> now]
  <1>1. /\ shown' = Append(shown, new) /\ UNCHANGED <<deadline, wake>>
        /\ \/ pc' = "SwitchEmbeddingModel" /\ outcome' = outcome
           \/ pc' = "done" /\ outcome' = "ok"
    BY DEF Show
  <1>2. /\ "Search" \in Before /\ "SearchAgain" \in Between
        /\ "SwitchEmbeddingModel" \in Places \ {"done"} /\ pc # "done"
    BY SetupCalls DEF Between, Places, Searches
  <1>3. Placed'
    <2>1. deadline' \in Nat /\ wake' \in Nat
      BY <1>1 DEF Placed
    <2> QED
      BY <1>1, <1>2, <2>1, PlacedKept
  <1>4. shown \in Seq(Printed) /\ Len(shown) \in {0, 1}
    BY <1>2 DEF IInv, Shown, Searches
  <1>n. new \in Printed
    BY DEF IInv, Timely, Printed
  <1>5. Append(shown, new) \in Seq(Printed) /\ Len(Append(shown, new)) = Len(shown) + 1
    <2> HIDE DEF new
    <2> QED
      BY <1>4, <1>n
  <1> QED
    BY <1>1, <1>3, <1>4, <1>5

LEMMA MainTyped ==
  ASSUME TypeOK, IInv, Main
  PROVE  TypeOK'
  <1>p. Placed /\ Stored /\ Served
    BY TypeParts
  <1>s. /\ Calls \subseteq Places \ {"done"}
        /\ {"Health", "AddDocuments", "UpsertResource", "SwitchEmbeddingModel",
            "GetJob", "SearchAgain"} \subseteq Calls
        /\ Before \subseteq Places \ {"done"}
        /\ {"sleeping", "NewClient"} \subseteq Places \ {"done"}
    BY SetupCalls DEF Places
  <1>n. /\ deadline \in Nat /\ wake \in Nat /\ now \in Nat
        /\ now + PollInterval \in Nat /\ now + JobDeadline \in Nat
    <2>1. deadline \in Nat /\ wake \in Nat
      BY <1>p DEF Placed
    <2>2. now \in 0 .. MaxTime /\ MaxTime \in Nat /\ JobDeadline \in Nat
          /\ PollInterval \in Nat
      BY <1>p, QuickstartAssumption DEF Stored
    <2>3. now \in Nat /\ now + PollInterval \in Nat /\ now + JobDeadline \in Nat
      BY <2>2
    <2> QED
      BY <2>1, <2>3
  \* What most steps of main do: only the place and the outcome move.
  <1>m. ASSUME UNCHANGED <<now, cacheVars, serverVars, shown>>, Placed'
        PROVE  TypeOK'
    <2>1. Stored' /\ Served'
      BY <1>p, <1>m DEF Stored, Served, cacheVars, serverVars
    <2> QED
      BY <1>m, <2>1, TypePartsNext
  <1>1. CASE NewClient
    <2>1. CASE UNCHANGED mainVars
      BY <1>1, <1>p, <1>m, <2>1 DEF NewClient, mainVars, Placed
    <2>2. CASE Goto(Setup[1]) \/ End("failed")
      <3>1. Setup[1] \in Places \ {"done"}
        BY <1>s DEF Setup
      <3>2. Placed'
        BY <1>1, <1>p, <1>s, <1>n, <2>2, <3>1, PlacedKept
           DEF NewClient, Goto, End
      <3> QED
        BY <1>1, <1>m, <2>2, <3>2 DEF NewClient, Goto, End
    <2> QED
      BY <1>1, <2>1, <2>2 DEF NewClient
  <1>2. CASE SetUp
    <2>1. pc \in Before /\ pc' \in Before
      BY <1>2, SetupGoesOn
    <2>2. UNCHANGED <<deadline, wake, outcome, shown>>
      BY <1>2 DEF SetUp, Goto
    <2>3. Placed'
      BY <1>p, <1>s, <1>n, <2>1, <2>2, PlacedKept
    <2> QED
      BY <1>2, <1>m, <2>2, <2>3 DEF SetUp
  <1>3. CASE UpsertFails
    <2>1. Placed'
      BY <1>3, <1>p, <1>s, <1>n, PlacedKept DEF UpsertFails, Goto
    <2> QED
      BY <1>3, <1>m, <2>1 DEF UpsertFails, Goto
  <1>4. CASE CallFails
    <2>1. Placed'
      BY <1>4, <1>p, <1>s, <1>n, PlacedKept DEF CallFails, End
    <2> QED
      BY <1>4, <1>m, <2>1 DEF CallFails, End
  <1>5. CASE SearchCached
    <2>1. /\ pc \in Searches /\ Show(latest[Query].value)
          /\ UNCHANGED <<now, latest, serverVars>> /\ latest[Query] # None
      BY <1>5 DEF SearchCached, Hit, Cache!GetValue, Cache!Alive
    <2>2. latest[Query].value \in Models
      BY <1>p, <2>1 DEF Stored, Entries
    <2>3. Placed' /\ shown' \in Seq(Printed) /\ Len(shown') <= 2
      BY <1>p, <2>1, <2>2, ShowTyped
    <2>4. Stored' /\ Served'
      BY <1>p, <2>1, <2>3 DEF Stored, Served, serverVars
    <2> QED
      BY <2>3, <2>4, TypePartsNext
  <1>6. CASE SearchServed
    <2>1. /\ pc \in Searches /\ Show(model) /\ UNCHANGED serverVars
          /\ \/ Cache!Set(Query, model)
             \/ UNCHANGED <<now, cacheVars>>
      BY <1>6 DEF SearchServed, Answered, Searches
    <2>2. Placed' /\ shown' \in Seq(Printed) /\ Len(shown') <= 2
      BY <1>p, <2>1, ShowTyped DEF Served
    <2>3. now' = now /\ latest' \in [{Query} -> Entries]
      <3>1. [value |-> model, at |-> now] \in Entries
        BY <1>p DEF Stored, Served, Entries
      <3> QED
        BY <1>p, <2>1, <3>1 DEF Stored, cacheVars, Cache!Set
    <2>4. Stored' /\ Served'
      BY <1>p, <2>1, <2>2, <2>3 DEF Stored, Served, serverVars
    <2> QED
      BY <2>2, <2>4, TypePartsNext
  <1>7. CASE Switch
    <2>1. PICK n \in 1 .. 2 : jobs' = [i \in 1 .. n |-> "queued"]
      BY <1>7 DEF Switch
    <2>2. jobs' \in Seq(JobStatus) /\ Len(jobs') <= 2
      BY <2>1 DEF JobStatus
    <2>3. /\ pc = "SwitchEmbeddingModel" /\ pc' = "GetJob"
          /\ deadline' = now + JobDeadline
          /\ UNCHANGED <<now, latest, model, wake, outcome, shown>>
      BY <1>7 DEF Switch, Answered, cacheVars
    <2>4. Placed'
      BY <1>p, <1>s, <1>n, <2>3, PlacedKept
    <2>5. Stored' /\ Served'
      BY <1>p, <2>2, <2>3 DEF Stored, Served
    <2> QED
      BY <2>4, <2>5, TypePartsNext
  <1>8. CASE JobIsOver
    <2>1. Placed'
      BY <1>8, <1>p, <1>s, <1>n, PlacedKept DEF JobIsOver, Answered, Goto, End
    <2> QED
      BY <1>8, <1>m, <2>1 DEF JobIsOver, Goto, End
  <1>9. CASE JobGoesOn
    <2>1. Placed'
      BY <1>9, <1>p, <1>s, <1>n, PlacedKept DEF JobGoesOn, Answered, End
    <2> QED
      BY <1>9, <1>m, <2>1 DEF JobGoesOn, End
  <1>10. CASE Wake
    <2>1. Placed'
      BY <1>10, <1>p, <1>s, <1>n, PlacedKept DEF Wake, Goto
    <2> QED
      BY <1>10, <1>m, <2>1 DEF Wake, Goto
  <1> QED
    BY <1>1, <1>2, <1>3, <1>4, <1>5, <1>6, <1>7, <1>8, <1>9, <1>10 DEF Main

LEMMA JobTyped ==
  ASSUME TypeOK, NEW j \in DOMAIN jobs, JobRuns(j) \/ JobEnds(j)
  PROVE  TypeOK'
  <1>1. UNCHANGED <<now, latest, pc, deadline, wake, outcome, shown>>
    BY DEF JobRuns, JobEnds, cacheVars, mainVars
  <1>2. /\ model' \in Models
        /\ \E s \in JobStatus : jobs' = [jobs EXCEPT ![j] = s]
    BY DEF JobRuns, JobEnds, JobStatus, TypeOK, Models
  <1>3. jobs' \in Seq(JobStatus) /\ Len(jobs') = Len(jobs)
    <2>1. jobs \in Seq(JobStatus)
      BY DEF TypeOK
    <2> QED
      BY <1>2, <2>1
  <1>4. Placed' /\ Stored' /\ Served'
    BY <1>1, <1>2, <1>3, TypeParts DEF TypeOK, Placed, Stored, Served
  <1> QED
    BY <1>4, TypePartsNext

LEMMA StepTyped ==
  ASSUME TypeOK, IInv, [Next]_vars
  PROVE  TypeOK'
  <1>1. CASE Main
    BY <1>1, MainTyped
  <1>2. CASE Tick
    <2>1. now < MaxTime /\ now' = now + 1
      BY <1>2 DEF Tick, Cache!Tick
    <2>2. UNCHANGED <<latest, pc, deadline, wake, outcome, shown, model, jobs>>
      BY <1>2 DEF Tick, Cache!Tick, mainVars, serverVars
    <2>3. now' \in 0 .. MaxTime
      <3>1. now \in 0 .. MaxTime /\ MaxTime \in Nat
        BY QuickstartAssumption DEF TypeOK
      <3> QED
        BY <2>1, <3>1
    <2> QED
      BY <2>2, <2>3 DEF TypeOK
  <1>3. ASSUME NEW j \in DOMAIN jobs, JobRuns(j) \/ JobEnds(j)
        PROVE  TypeOK'
    BY <1>3, JobTyped
  <1>4. CASE UNCHANGED vars
    BY <1>4 DEF TypeOK, vars, cacheVars, mainVars, serverVars
  <1> QED
    BY <1>1, <1>2, <1>3, <1>4 DEF Next

\* Every variable keeps its type, whatever the options and the deadlines; in
\* particular main is done exactly when it ended in one way, and it never shows
\* a third search.
THEOREM TypeCorrect == Spec => []TypeOK
  <1>1. Init => TypeOK
    BY TypeInit
  <1>2. TypeOK /\ IInv /\ [Next]_vars => TypeOK'
    BY StepTyped
  <1> QED
    BY <1>1, <1>2, Inductive, PTL DEF Spec

-----------------------------------------------------------------------------
(***************************************************************************)
(* The client: the invariant of Construction holds of the whole program,   *)
(* since nothing else in it touches the client.                            *)
(***************************************************************************)

Made == INSTANCE ConstructionProofs

LEMMA MakingSteps ==
  ASSUME [Next]_vars
  PROVE  [Made!Next]_Made!vars
  <1>1. Making!Next => Made!Next
    <2>1. \A option : Making!Refused(option) = Made!Refused(option)
      BY DEF Making!Refused, Made!Refused, Making!Sets, Made!Sets,
             Making!EmptyURL, Made!EmptyURL
    <2>2. Making!Pending = Made!Pending /\ Making!Option = Made!Option
      BY DEF Making!Pending, Made!Pending, Making!Option, Made!Option
    <2>3. Making!Apply => Made!Apply
      BY <2>1, <2>2
         DEF Making!Apply, Made!Apply, Making!Fields, Made!Fields,
             Making!Defaults, Made!Defaults, Making!Merged, Made!Merged,
             Making!Sets, Made!Sets, Making!EmptyURL, Made!EmptyURL
    <2>4. Making!Refuse => Made!Refuse
      BY <2>1, <2>2
         DEF Making!Refuse, Made!Refuse, Making!Nothing, Made!Nothing
    <2>5. Making!Build => Made!Build
      BY DEF Making!Build, Made!Build, Making!Nothing, Made!Nothing,
             Making!Built, Made!Built, Making!EmptyURL, Made!EmptyURL,
             Making!Unparsable, Made!Unparsable
    <2> QED
      BY <2>3, <2>4, <2>5 DEF Making!Next, Made!Next
  <1>2. Main => Making!Next \/ UNCHANGED clientVars
    BY DEF Main, NewClient, SetUp, UpsertFails, CallFails, SearchCached,
           SearchServed, Switch, JobIsOver, JobGoesOn, Wake
  <1>3. UNCHANGED clientVars => UNCHANGED Made!vars
    BY DEF clientVars, Made!vars
  <1>4. Tick \/ UNCHANGED vars => UNCHANGED clientVars
    BY DEF Tick, vars
  <1>5. (\E j \in DOMAIN jobs : JobRuns(j) \/ JobEnds(j)) => UNCHANGED clientVars
    BY DEF JobRuns, JobEnds
  <1> QED
    BY <1>1, <1>2, <1>3, <1>4, <1>5 DEF Next

\* Whatever options the program is written with, as long as its URLs are URLs:
\* the client it goes on with is the one they ask for.
THEOREM TheClientAsAsked ==
  ASSUME \A l \in OptionLists : Made!WellFormed(l)
  PROVE  Spec => []ClientAsAsked
  <1>1. Init => Made!IInv
    <2>1. Init => Made!Init
      BY DEF Init, Making!Init, Made!Init, Making!Defaults, Made!Defaults,
             Making!EmptyURL, Made!EmptyURL
    <2> QED
      BY <2>1, Made!InitHolds
  <1>2. Made!IInv /\ [Next]_vars => Made!IInv'
    BY MakingSteps, Made!StepKeeps
  <1>3. Made!IInv => ClientAsAsked
    <2>1. Made!IInv => Made!ClientAsAsked
      BY Made!IInvSuffices
    <2> QED
      BY <2>1
         DEF ClientAsAsked, Making!ClientAsAsked, Made!ClientAsAsked,
             Making!Refused, Made!Refused, Making!Asked, Made!Asked,
             Making!Sets, Made!Sets, Making!Fields, Made!Fields,
             Making!Defaults, Made!Defaults, Making!Built, Made!Built,
             Making!EmptyURL, Made!EmptyURL, Making!Unparsable,
             Made!Unparsable
  <1> QED
    BY <1>1, <1>2, <1>3, PTL DEF Spec
=============================================================================
