----------------------------- MODULE Operations -----------------------------
(***************************************************************************)
(* The endpoint methods (indexes.go, documents.go, tenants.go, apikey.go,  *)
(* settings.go, jobs.go, cluster.go, health.go and the rest of search.go): *)
(* callers that share one Client, or one server, each make one call.       *)
(*                                                                         *)
(* A method is one c.do, and what tells methods apart is what the server   *)
(* does with their request.  c.do is here what module Request shows it to  *)
(* be, an at-least-once delivery: requests are sent one after the other,   *)
(* and each of them may be served late, when the method has gone on to     *)
(* another one or has returned, or never.                                  *)
(*                                                                         *)
(* The server is external.  What it does is what the methods' comments say *)
(* of it, for one named resource (a tenant, an index, a document under its *)
(* external ID), the things it names itself (keys, chunks, jobs) and the   *)
(* compaction of one index.                                                *)
(***************************************************************************)
EXTENDS Errors, FiniteSets

CONSTANTS
    Callers,    \* calls of methods
    Methods,    \* the methods called
    Attempts,   \* most requests of a call
    RetryOn,    \* the sentinels the policy's hook says "retry" to
    None        \* nothing

(***************************************************************************)
(* The methods, and what each asks of the server.                          *)
(***************************************************************************)

\* CreateTenant is given an ID; without one it inserts.
TenantMethods ==
    [CreateTenant |-> "ensure", GetTenant |-> "read", ListTenants |-> "read",
     DeleteTenant |-> "remove"]

KeyMethods ==
    [CreateAPIKey |-> "insert", RevokeAPIKey |-> "remove",
     ListAPIKeys |-> "read"]

IndexMethods ==
    [CreateIndex |-> "insert", GetIndex |-> "read", ListIndexes |-> "read",
     UpdateIndex |-> "amend", DeleteIndex |-> "remove",
     GetIndexStatus |-> "read", GetLiveStats |-> "read"]

\* What FlushIndex makes durable was there to be read before.
UpkeepMethods ==
    [CompactIndex |-> "compact", FlushIndex |-> "read",
     RebuildGraph |-> "rebuild", ClearIndex |-> "sweep"]

UpsertMethods == [UpsertResource |-> "replace"]

\* CleanupOrphans without dryRun.
SweepMethods ==
    [CleanupOrphans |-> "sweep", RunIndexGC |-> "sweep",
     RunAdminGC |-> "sweep"]

\* AddDocuments of documents with Upsert replaces instead.
DocumentMethods ==
    [AddDocuments |-> "insert", ImportDocuments |-> "insert",
     GetPendingStatus |-> "read", ProcessPending |-> "sweep",
     ClearPending |-> "sweep", GetDocument |-> "read",
     DeleteDocument |-> "delete", BulkDeleteDocuments |-> "delete",
     BulkDeleteByExternalIDs |-> "delete"]

ChunkMethods == [GetChunk |-> "read", DeleteChunks |-> "delete"]

SettingsMethods ==
    [GetLLMSettings |-> "read", UpdateLLMSettings |-> "amend",
     DeleteLLMSettings |-> "remove"]

OrgMethods ==
    [MultiSearch |-> "read", SyncDocuments |-> "insert",
     ListUserIndexes |-> "read", ListSharedIndexes |-> "read"]

JobMethods == [SwitchEmbeddingModel |-> "insert", GetJob |-> "read"]

ClusterMethods ==
    [GetClusterNodes |-> "read", GetClusterShards |-> "read",
     GetClusterHealth |-> "read"]

HealthMethods == [Health |-> "read", Ready |-> "read"]

Tables ==
    {TenantMethods, KeyMethods, IndexMethods, UpkeepMethods, UpsertMethods,
     SweepMethods, DocumentMethods, ChunkMethods, SettingsMethods, OrgMethods,
     JobMethods, ClusterMethods, HealthMethods}

AllMethods == UNION {DOMAIN t : t \in Tables}

Does(m) == LET t == CHOOSE t \in Tables : m \in DOMAIN t IN t[m]

\* Methods that pass noRetry.
Probes == {"Health", "Ready", "GetClusterHealth"}

\* Mutant of MostTries: the first attempt is not counted.
MostRetries(m) == IF m \in Probes THEN 1 ELSE Attempts + 1

MostTries(m) == IF m \in Probes THEN 1 ELSE Attempts

VARIABLES
    method,     \* the method each caller calls
    pc,         \* "idle", "ready" to send, "waiting" or "returned"
    tries,      \* requests each call has sent
    answer,     \* the response to its current request, once it is here
    result,     \* what it returned
    network,    \* requests neither served nor lost
    named,      \* the call the named resource's content is from, or None
    made,       \* things the server made and named, after their requests
    compacting, \* whether a compaction runs
    done,       \* history: requests of each call that were carried out
    removed,    \* history: how many things they removed
    witnessed,  \* history: what was true of the server during each call
    before      \* history: the calls that had returned when each was made

callVars   == <<method, pc, tries, answer, result>>
serverVars == <<named, made, compacting>>
histVars   == <<done, removed, witnessed, before>>
vars       == <<callVars, network, serverVars, histVars>>

Requests == Callers \X (1 .. Attempts)

\* A response and what its body says: the thing made or the things removed.
Response == [status : 200 .. 599, code : Codes, got : Nat]

Result == [is : SUBSET (Sentinels \cup {CtxError}), code : Codes, got : Nat]

ASSUME OperationsAssumption ==
    /\ Methods \subseteq AllMethods
    /\ Attempts \in Nat \ {0}
    /\ RetryOn \subseteq Sentinels
    /\ None \notin Callers \cup Methods \cup Response \cup Result

Facts == {"present", "absent", "compacting"}

TypeOK ==
    /\ method \in [Callers -> Methods \cup {None}]
    /\ pc \in [Callers -> {"idle", "ready", "waiting", "returned"}]
    /\ tries \in [Callers -> 0 .. Attempts]
    /\ answer \in [Callers -> Response \cup {None}]
    /\ result \in [Callers -> Result \cup {None}]
    /\ network \subseteq Requests
    /\ named \in Callers \cup {None}
    /\ made \subseteq Requests
    /\ compacting \in BOOLEAN
    /\ done \in [Callers -> Nat]
    /\ removed \in [Callers -> Nat]
    /\ witnessed \in [Callers -> SUBSET Facts]
    /\ before \in [Callers -> SUBSET Callers]

Init ==
    /\ method = [c \in Callers |-> None]
    /\ pc = [c \in Callers |-> "idle"]
    /\ tries = [c \in Callers |-> 0]
    /\ answer = [c \in Callers |-> None]
    /\ result = [c \in Callers |-> None]
    /\ network = {}
    /\ named = None
    /\ made = {}
    /\ compacting = FALSE
    /\ done = [c \in Callers |-> 0]
    /\ removed = [c \in Callers |-> 0]
    /\ witnessed = [c \in Callers |-> {}]
    /\ before = [c \in Callers |-> {}]

-----------------------------------------------------------------------------
(***************************************************************************)
(* A call.                                                                 *)
(***************************************************************************)

Goto(c, stage) == pc' = [pc EXCEPT ![c] = stage]

\* What can be seen of the server.
Seen(n, k) ==
    {IF n = None THEN "absent" ELSE "present"}
        \cup (IF k THEN {"compacting"} ELSE {})

Call(c, m) ==
    /\ pc[c] = "idle"
    /\ Goto(c, "ready")
    /\ method' = [method EXCEPT ![c] = m]
    /\ witnessed' = [witnessed EXCEPT ![c] = Seen(named, compacting)]
    /\ before' = [before EXCEPT ![c] = {d \in Callers : pc[d] = "returned"}]
    /\ UNCHANGED <<tries, answer, result, network, serverVars, done, removed>>

Send(c) ==
    /\ pc[c] = "ready"
    /\ Goto(c, "waiting")
    /\ tries' = [tries EXCEPT ![c] = @ + 1]
    /\ network' = network \cup {<<c, tries[c] + 1>>}
    /\ UNCHANGED <<method, answer, result, serverVars, histVars>>

Return(c, is, code, got) ==
    /\ Goto(c, "returned")
    /\ result' = [result EXCEPT ![c] = [is |-> is, code |-> code, got |-> got]]

\* Mutant of GiveUp: the loop ends without its lastErr.
GiveUpSilently(c, is, code) == Return(c, {}, code, 0)

GiveUp(c, is, code) == Return(c, is, code, 0)

\* The attempt failed with an error of class err that matches `is'.
Settle(c, err, is, code) ==
    /\ IF ShouldRetry(RetryOn, err) /\ tries[c] < MostTries(method[c])
       THEN Goto(c, "ready") /\ UNCHANGED result
       ELSE GiveUp(c, is, code)
    /\ answer' = [answer EXCEPT ![c] = None]
    /\ UNCHANGED <<method, tries, network, serverVars, histVars>>

\* No response comes, or one that cannot be read, or a 5xx: of what the request
\* did nothing is known.
NoAnswer(c) ==
    /\ pc[c] = "waiting"
    /\ \E err \in {NetError, DecodeError} : Settle(c, err, {err.is}, "other")

\* Mutant of Joined: only the server's own code is taken for it.
JoinedByCode(m, r) ==
    {SentinelFor(r.status, r.code)}
        \cup (IF r.status = 409 /\ r.code = "compact_in_progress"
              THEN {"CompactInProgress"} ELSE {})

\* The sentinels the error matches: CompactIndex joins its own to a 409's.
Joined(m, r) ==
    {SentinelFor(r.status, r.code)}
        \cup (IF m = "CompactIndex" /\ r.status = 409
              THEN {"CompactInProgress"} ELSE {})

Rejected(c) ==
    /\ pc[c] = "waiting"
    /\ answer[c] # None
    /\ answer[c].status >= 400
    /\ LET r == answer[c] IN
       Settle(c, Plain(SentinelFor(r.status, r.code)), Joined(method[c], r),
              r.code)

\* Mutant of Decoded: the method passes no `out'.
DecodedNothing(r) == 0

Decoded(r) == r.got

Accepted(c) ==
    /\ pc[c] = "waiting"
    /\ answer[c] # None
    /\ answer[c].status < 400
    /\ Return(c, {}, answer[c].code, Decoded(answer[c]))
    /\ answer' = [answer EXCEPT ![c] = None]
    /\ UNCHANGED <<method, tries, network, serverVars, histVars>>

\* The caller's context ends during a backoff.
Interrupted(c) ==
    /\ pc[c] = "ready"
    /\ tries[c] > 0
    /\ Return(c, {CtxError}, "other", 0)
    /\ UNCHANGED <<method, tries, answer, network, serverVars, histVars>>

-----------------------------------------------------------------------------
(***************************************************************************)
(* The network and the server.                                             *)
(***************************************************************************)

Ok(got) == [status |-> 200, code |-> "other", got |-> got]

Refusal(status, code) == [status |-> status, code |-> code, got |-> 0]

\* The request <<c, a>> leaves the network and is answered with r, which the
\* call still gets if it waits for it.
Respond(c, a, r) ==
    /\ network' = network \ {<<c, a>>}
    /\ answer' = IF pc[c] = "waiting" /\ tries[c] = a
                 THEN [answer EXCEPT ![c] = r] ELSE answer
    /\ done' = IF r.status < 400 THEN [done EXCEPT ![c] = @ + 1] ELSE done
    /\ UNCHANGED <<method, pc, tries, result, before>>

\* The calls under way witness what has become of the server.
Witness(n, k) ==
    witnessed' = [d \in Callers |->
                     IF pc[d] \in {"ready", "waiting"}
                     THEN witnessed[d] \cup Seen(n, k) ELSE witnessed[d]]

Lose(c, a) ==
    /\ network' = network \ {<<c, a>>}
    /\ UNCHANGED <<callVars, serverVars, histVars>>

\* Overloaded, still building the index, or not authorised: nothing is done.
Refuse(c, a) ==
    /\ \E r \in {Refusal(503, "index_building"), Refusal(401, "other")} :
          Respond(c, a, r)
    /\ UNCHANGED <<serverVars, removed, witnessed>>

Read(c, a) ==
    /\ Does(method[c]) = "read"
    /\ Respond(c, a, Ok(0))
    /\ UNCHANGED <<serverVars, removed, witnessed>>

Insert(c, a) ==
    /\ Does(method[c]) = "insert"
    /\ made' = made \cup {<<c, a>>}
    /\ Respond(c, a, Ok(a))
    /\ UNCHANGED <<named, compacting, removed, witnessed>>

\* Everything of the kind goes: the index's documents, what has expired.
Sweep(c, a) ==
    /\ Does(method[c]) = "sweep"
    /\ made' = {}
    /\ removed' = [removed EXCEPT ![c] = @ + Cardinality(made)]
    /\ Respond(c, a, Ok(Cardinality(made)))
    /\ UNCHANGED <<named, compacting, witnessed>>

\* The IDs a caller can give: of what earlier calls made and told of.
Given(c) ==
    {<<d, result[d].got>> :
        d \in {d \in before[c] : Does(method[d]) = "insert" /\ result[d].is = {}}}

\* What was given goes, as far as it is there; some routes answer 404 where
\* none of it is.
Delete(c, a) ==
    LET gone == made \cap Given(c) IN
    /\ Does(method[c]) = "delete"
    /\ made' = made \ gone
    /\ removed' = [removed EXCEPT ![c] = @ + Cardinality(gone)]
    /\ \/ Respond(c, a, Ok(Cardinality(gone)))
       \/ gone = {} /\ Respond(c, a, Refusal(404, "other"))
    /\ UNCHANGED <<named, compacting, witnessed>>

\* An existing tenant with that ID is returned as it is.
Ensure(c, a) ==
    /\ Does(method[c]) = "ensure"
    /\ named' = IF named = None THEN c ELSE named
    /\ Respond(c, a, Ok(0))
    /\ Witness(named', compacting)
    /\ UNCHANGED <<made, compacting, removed>>

Replace(c, a) ==
    /\ Does(method[c]) = "replace"
    /\ named' = c
    /\ Respond(c, a, Ok(0))
    /\ Witness(named', compacting)
    /\ UNCHANGED <<made, compacting, removed>>

Amend(c, a) ==
    /\ Does(method[c]) = "amend"
    /\ named' = IF named = None THEN None ELSE c
    /\ Respond(c, a, IF named = None THEN Refusal(404, "other") ELSE Ok(0))
    /\ Witness(named', compacting)
    /\ UNCHANGED <<made, compacting, removed>>

\* Some routes answer 404 where there is nothing to remove, some may not.
Remove(c, a) ==
    /\ Does(method[c]) = "remove"
    /\ named' = None
    /\ \/ Respond(c, a, Ok(0))
       \/ named = None /\ Respond(c, a, Refusal(404, "other"))
    /\ Witness(named', compacting)
    /\ UNCHANGED <<made, compacting, removed>>

\* The server has had two codes for its 409.
InProgress(c, a) ==
    /\ Does(method[c]) \in {"compact", "rebuild"}
    /\ compacting
    /\ \E code \in {"other", "compact_in_progress"} :
          Respond(c, a, Refusal(409, code))
    /\ UNCHANGED <<serverVars, removed, witnessed>>

\* The 200 only says that the compaction has started.
Compact(c, a) ==
    /\ Does(method[c]) = "compact"
    /\ ~ compacting
    /\ compacting' = TRUE
    /\ Respond(c, a, Ok(0))
    /\ Witness(named, compacting')
    /\ UNCHANGED <<named, made, removed>>

Rebuild(c, a) ==
    /\ Does(method[c]) = "rebuild"
    /\ ~ compacting
    /\ Respond(c, a, Ok(0))
    /\ UNCHANGED <<serverVars, removed, witnessed>>

CompactionEnds ==
    /\ compacting
    /\ compacting' = FALSE
    /\ Witness(named, compacting')
    /\ UNCHANGED <<callVars, network, named, made, done, removed, before>>

Serve(c, a) ==
    \/ Refuse(c, a) \/ Read(c, a) \/ Insert(c, a) \/ Sweep(c, a) \/ Delete(c, a)
    \/ Ensure(c, a) \/ Replace(c, a) \/ Amend(c, a) \/ Remove(c, a)
    \/ InProgress(c, a) \/ Compact(c, a) \/ Rebuild(c, a)

ClientStep(c) ==
    \/ Send(c) \/ NoAnswer(c) \/ Rejected(c) \/ Accepted(c) \/ Interrupted(c)

Next ==
    \/ \E c \in Callers : ClientStep(c) \/ \E m \in Methods : Call(c, m)
    \/ \E c \in Callers, a \in 1 .. Attempts :
          <<c, a>> \in network /\ (Lose(c, a) \/ Serve(c, a))
    \/ CompactionEnds

\* That every call returns is shown in module Request.
Spec == Init /\ [][Next]_vars

-----------------------------------------------------------------------------
(***************************************************************************)
(* Properties.                                                             *)
(***************************************************************************)

Returned(c, kinds) == pc[c] = "returned" /\ Does(method[c]) \in kinds

Succeeded(c) == result[c].is = {}

Matches(c, sentinel) == sentinel \in result[c].is

\* Every answer was true at some moment of the call, though other callers and
\* the call's own lost requests change the same server: where a delete succeeds
\* or ends in ErrNotFound the resource was absent, where a create, upsert or
\* update succeeds it was there, and where a method ends in a conflict a
\* compaction ran.
AnswersTrue ==
    \A c \in Callers :
        /\ Returned(c, {"remove"}) /\ (Succeeded(c) \/ Matches(c, "NotFound"))
              => "absent" \in witnessed[c]
        /\ Returned(c, {"amend"}) /\ Matches(c, "NotFound")
              => "absent" \in witnessed[c]
        /\ Returned(c, {"ensure", "replace", "amend"}) /\ Succeeded(c)
              => "present" \in witnessed[c]
        /\ Returned(c, {"compact"}) /\ Succeeded(c)
              => "compacting" \in witnessed[c]
        /\ (pc[c] = "returned" /\ (Matches(c, "Conflict")
                                    \/ Matches(c, "CompactInProgress")))
              => "compacting" \in witnessed[c]

\* Errors that leave open what the request did.
InDoubt == {"Network", "Server", CtxError}

\* The outcome the method returned came with a response to its only request.
Settled(c) ==
    /\ pc[c] = "returned"
    /\ tries[c] = 1
    /\ result[c].is \cap InDoubt = {}

\* A call that was settled by its first request is over for the server too: a
\* later call that replaced the content is not undone by it.  (Retried calls,
\* and calls whose error leaves their effect in doubt, can undo it.)
WritesStay ==
    \A c, d \in Callers :
        (/\ c \in before[d] /\ Settled(c)
         /\ Returned(d, {"replace"}) /\ Succeeded(d))
            => named # c

\* A settled call had exactly one effect if it succeeded and none if it failed,
\* then and ever after: only a retried call, or one whose error leaves its effect
\* in doubt, leaves things behind that nobody has heard of (for CreateAPIKey a
\* key whose plaintext is lost, apikey.go:16-18).  And what a successful call
\* returns is what its last request made.
OrphansAreRetries ==
    \A c \in Callers :
        /\ Settled(c) => done[c] = IF Succeeded(c) THEN 1 ELSE 0
        /\ Returned(c, {"insert"}) /\ Succeeded(c)
              => done[c] >= 1 /\ result[c].got = tries[c]

\* The count a sweep or a delete of given IDs reports never exceeds what the call
\* removed, and is all of it unless it was retried (indexes.go:194, "calling
\* twice in a row returns 0 the second time": then what a lost answer counted is
\* missing).
CountsHonest ==
    \A c \in Callers :
        Returned(c, {"sweep", "delete"}) /\ Succeeded(c) =>
            /\ result[c].got <= removed[c]
            /\ tries[c] = 1 => result[c].got = removed[c]

\* CompactIndex refused for a running compaction matches ErrCompactInProgress
\* whatever code the server used (indexes.go:97-104); no other method's error
\* gains a sentinel.  With the code compact_in_progress neither CompactIndex
\* (indexes.go:90-91) nor RebuildGraph (indexes.go:127-128) gets ErrConflict: it
\* is said of them, and not said here.
ConflictsNamed ==
    \A c \in Callers : pc[c] = "returned" =>
        /\ method[c] = "CompactIndex" /\ Matches(c, "Conflict")
              => Matches(c, "CompactInProgress")
        /\ Matches(c, "CompactInProgress")
              => \/ result[c].code = "compact_in_progress"
                 \/ method[c] = "CompactIndex" /\ Matches(c, "Conflict")

\* Each call is an at-least-once delivery of its request.
Delivery(c) == INSTANCE AtLeastOnce
    WITH limit   <- Attempts,
         sent    <- tries[c],
         applied <- done[c],
         outcome <- IF pc[c] # "returned" THEN "pending"
                    ELSE IF Succeeded(c) THEN "ok" ELSE "failed"

ImplementAtLeastOnce ==
    /\ \A c \in Callers : Delivery(c)!Init
    /\ [][\A c \in Callers :
              Delivery(c)!Next \/ UNCHANGED Delivery(c)!vars]_vars
=============================================================================
