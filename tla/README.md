# Verification of graphann-client-go

TLA+ models of the GraphANN Go client, the TLC runs that check them on small
instances, and TLAPS proofs of what holds for every instance.  The models are
written from the Go source; `PROJECT.json` says which lines each definition
stands for.

## The system

The package is an HTTP SDK.  A `Client` is shared by any number of goroutines;
every endpoint method is one call of `Client.do`, and `Search` puts two optional
layers before it.

    Search --> queryCache --> sfGroup --> do --> attemptOnce --> http.Client --> server
    ListJobs, ListDocuments --> Iter --> do
    other endpoints ------------------> do
    NewClient(options) decides which of the layers exist; examples/quickstart uses them all

| Component | State | Operations | Used by |
|---|---|---|---|
| singleflight group, `singleflight.go` | sticky outcomes per key with an expiry, under `mu`; the open flights of `golang.org/x/sync/singleflight` | `Do`, `Forget` | `runSearch` |
| query cache, `cache.go` | map to list elements, list in order of use, both under `mu` | `Get`, `Set`, `Purge`, `Len` | `runSearch` |
| search path, `search.go` | none of its own; the fingerprint ties the two layers together | `runSearch` | callers |
| request pipeline, `client.go`, `retry.go` | per call: attempt, last error, timer, context; shared: the jitter source under `rngMu` | `do`, `attemptOnce`, `backoff`, `sleepCtx`, `observe` | every endpoint |
| error classification, `errors.go`, `client.go`, `retry.go` | none | `sentinelFor`, `decodeAPIError`, `shouldRetry` | `attemptOnce`, callers |
| pagination, `pagination.go` | cursor, first, finished, buffer, error of one `Iter` | `Next`, `NextPage`, `SetCursor`, `All` | `ListJobs`, `ListDocuments` |
| construction, `client.go`, `options.go` | the configuration, built option by option and fixed afterwards | `NewClient`, options, `Close` | callers |
| endpoint methods, `indexes.go`, `documents.go`, `tenants.go`, `apikey.go`, `settings.go`, `jobs.go`, `cluster.go`, `health.go`, rest of `search.go` | none; what they ask for is state of the server | one `do` each; `CompactIndex` also changes the error | callers |
| quickstart example, `examples/quickstart/main.go` | one context, one deadline, the job it polls | `main` | users |
| transport, `client.go` | connections (library) | `newHardenedHTTPClient` | `attemptOnce` |
| wire types, package documentation | none | none | all |

What is hard about it:

- `sfGroup.Do` holds its mutex for the sticky check and for the store, but not in
  between: clock, other calls and `Forget` move between any two of its steps.
- cache and sticky window are two copies of an answer with clocks of their own,
  filled by whichever run of `exec` comes first, however long ago the server
  computed its response.
- a request may be lost, served late or served twice; retries, timeouts, the
  backoff timer and the caller's context race.
- map and list of the cache are kept together by hand.
- `Next` and `NextPage` share one iterator, but only `Next` has a buffer.
- every method is retried, those too that are not idempotent: a request of which
  nothing was heard may have been carried out, and may be carried out after the
  method returned, between or after the requests of other callers.
- the cache answers without the server, so that a program that changes the server
  by one method may not see the change by another.

What makes each part correct: one run per key, no stranded waiter, bounded age of
shared results, re-runs only by races (group); map and list agree, capacity,
recency, nothing stale (cache); own answers, no cached error, no older answer
over a newer one (search); at-least-once delivery, giving up neither early nor
late, the server's hint respected, one observation per request (pipeline); each
item once, in order, with an honest end (pagination); the last option decides, and
none mix (construction); what an answer still says of a shared server, and what a
call leaves behind (endpoint methods); an end, soon after that of its context, and
results that are the new model's unless the cache still has the first ones
(quickstart).

## Modules

`Singleflight` is `sfGroup` with the external group.  A member of `Calls` is one
invocation of `Do`; `pc` is where it is: after the sticky check ("missed"), waiting
for another call's flight, or leading one ("running" `fn`, "storing" the outcome,
"finishing" the flight).  `StickyHit`/`StickyMiss` are the first critical section,
`Store` the second, `Join`, `Lead`, `Finish` what `s.g.Do` does around them,
`ForgetFlight` and `ForgetSticky` the two steps of `Forget`, `Bypass` a call
without group or key.  An outcome is named after the call that led its run.
Nothing in the repository calls `Forget`; it is modelled because it is there, and
`Search`, which never takes its steps, has what holds without it.

`QueryCache` is `queryCache`: `entries` is the map, `order` the list, front first.
Each method holds the mutex throughout and is one step, split by its branches
(`GetHit`, `GetExpired`, `GetAbsent`, `SetPresent`, `SetWithRoom`, `SetEvicting`).
`TTLStore` is what it promises: a `Get` returns nothing, or the value of the latest
`Set` of that key, at most `TTL` old.  `QueryCache` implements it with
`latest <- lastSet`.

`Errors` has the sentinels, `SentinelFor`, and the retry classification.
`Request` is one call of `do` with everything at its other end.  `Start` to
`SleepInterrupted` are the client's steps, one for each way out of `attemptOnce`
and of the loop; `Settle` is what the loop does with a failed attempt.  `policy` is the
client's `RetryPolicy`, of which `RetryOn` is the set of sentinels the hook says true
to, or `NoRetry`, which the probes ask for; `badArgs` is what building the request
fails with, a configuration error or what `wrapNet` makes of a refusal by
`http.NewRequestWithContext`.  `network`
holds the attempts whose request the server has not served; `Serve` may come after
the attempt was given up, and `LoseRequest` instead of it.  `Delays` is `backoff`
with the width of a `Duration` (`MaxDuration`).  `AtLeastOnce` is what a call
means to the server: up to `limit` requests, each of which may take effect, even
after a failure was returned; success only after an effect.  `Request` implements
it.

`Search` composes `Singleflight` and `TTLStore` (which `QueryCache` implements for
every capacity, so an eviction is a `GetNothing`) into `runSearch`, on one clock.
`cacheOn` and `sfOn` are the options; `c.do` is reduced to what `Request` shows of
it: it ends, with a response the server computed at some moment (`seen`), or an
error.  A request that does not marshal has no fingerprint (`want` is `None`): it goes
around both layers, and `exec` fails.

`Pagination` is `Iter` with a listing behind it.  The server looks at up to
`PageSize` rows for a page, of which any may match, so pages may be empty before
the end of the listing, and at the end it may or may not know that it is the end.

`Operations` is every other endpoint method.  A method is one `c.do`, and what
tells methods apart is what the server does with their request: `Does` sorts the 47
of them into ten kinds (read, insert, sweep, delete, ensure, replace, amend, remove,
compact, rebuild) and sets the probes apart, which are not retried, from what their
comments say of the server, which is external.  A sweep takes everything of its kind,
a delete what it is given: things that earlier calls made and told of (`Given`).
`RetryOn` is the hook of the client's policy.  Callers send one request after the other
(`Send`, `NoAnswer`, `Rejected`, `Accepted`, `Interrupted`); each request is served
or lost at any later moment (`Serve`, `Lose`), also after its call returned.
`Joined` is the part of `CompactIndex` after its `do`.  Each call by itself
implements `AtLeastOnce`.

`Construction` is `NewClient`: an option is the part of the configuration it sets,
`Apply` and `Refuse` are the loop over them, `Build` is the rest.

`Quickstart` is `main` of the example, composed of `Construction` (its client),
`TTLStore` (the cache of that client), one step per method, at the moment its last
request is served, and a job on the server.  Time passes in calls, which the context
ends at the latest, and in the sleep of `PollInterval` between polls, which does not
look at the context (`main.go:145`) and may begin at any moment of it.  A search the
cache answers (`Hit`) takes no time and does not look at the context either.  `shown`
is what was printed: by which model the results were found, and when.

    Quickstart --> Construction          Search --> Singleflight
        \--------> TTLStore <-- QueryCache   \---> TTLStore
    Operations --> AtLeastOnce <-- Request      (both over Errors)

`MCSingleflight`, `MCQueryCache`, `MCRequest`, `MCSearch`, `MCOperations`,
`MCQuickstart` give the constants for TLC (`MCOperations` asserts that its eleven
methods stand for all); the eight modules named `...Proofs` hold the theorems, each about the
module it is named after.
An operator whose comment begins with "Mutant of" is that definition with a
plausible bug: each checked property fails with one of them in place of the
original.

## What TLC checks

| Run | Instance | Shows |
|---|---|---|
| `singleflight` | 3 calls, 1 key or none, window 2, clock to 2 | `OneFlightPerKey`, `NoLostWaiter`, `ResultsFresh`, `RerunsAreRaces`, `EveryCallReturns` |
| `querycache` | 3 keys, 2 values, capacity 2, TTL 2, clock to 5, symmetry | `ListMatchesMap`, `Capacity`, `RetainsRecent`, `ImplementsTTLStore` |
| `request` | 4 policies and the probes': 4 attempts, backoff 1 capped at 3, jitter 50 %, a hook; 3 without delay; 2 without cap, jitter 100 %; a maximum of 0.  8 responses | `GivesUpLast`, `ObservedOnce`, `RetryAfterHonoured`, `EveryCallReturns`, `ImplementsAtLeastOnce` |
| `search` | 2 calls, 2 keys or none, TTL and window 1, clock to 2 | `OwnAnswer`, `AnswersFresh`, `CacheMovesForward`, `EverySearchReturns` |
| `pagination` | 5 rows, any of them matching, pages up to 3 | `HandedOutOnce`, `NothingLost`, `CleanEnd`, `InOrder`, `DrainEnds` |
| `operations` | 2 callers with any of 11 methods each, 2 attempts, a hook, symmetry | `AnswersTrue`, `WritesStay`, `OrphansAreRetries`, `CountsHonest`, `ConflictsNamed`, `ImplementAtLeastOnce` |
| `quickstart` | the options of `main` with and without a key and 73 other lists; sleep 2, TTL 4, context 9, deadline 18 | `ClientAsAsked`, `SearchesAgain`, `ContextRules`, `MainEnds` |

The passing runs also check the type invariant of their module.  Four comments of
the source do not hold of the code, and one run shows a bug:

| Run | Shows |
|---|---|
| `search_sticky` | the sticky window replays errors, the leader's own cancellation among them (`options.go:126-128` speaks of responses) |
| `request_overflow` | `InitialBackoff` doubled often enough leaves the range of `Duration` before it is capped; on amd64 the result is negative and gets past the cap: with jitter it wraps to a delay of centuries (`retry.go:19`, `74`).  With the defaults it takes 39 attempts |
| `request_hook` | a transient error that `RetryOn` says false to is retried all the same (`retry.go:24-25`: "Return true to retry, false to abort"; `retry.go:47`) |
| `pagination_setcursor` | after `SetCursor("")` nothing is fetched (`pagination.go:98-102`) |
| `pagination_end` | `Next` takes a page without items for the end even when its cursor leads to more (`pagination.go:35-36` and `17-18`; `61`) |

Some properties are what remains true where a comment says more than the code does:

- `RerunsAreRaces`: a call that made its sticky check before a store leads a new run
  of `fn` inside the window; `singleflight.go:45-46` has no such exception
  (`singleflight.go:67-69` is where it happens).
- `SearchesAgain`: the example's "re-search" (`main.go:1-2`) shows what the new model
  finds, unless the first results are still in the cache: if the job is done within
  the 30 s of its TTL, `main` sends no request and prints the old ones again.  Their age
  alone decides.
- `ContextRules`: the five minutes that `main` polls (`main.go:128`) are never
  reached under its context of one (`main.go:40`).  Since `time.Sleep` ignores the
  context, `main` outlives it, but by less than one sleep, and only to fail in the
  next poll.
- `ConflictsNamed`: `CompactIndex` says a refusal matches `ErrConflict` and
  `ErrCompactInProgress` (`indexes.go:90-91`, `CHANGELOG.md:81-83`), and `RebuildGraph`
  that it is `ErrConflict` (`indexes.go:127-128`); if the server sends the code
  `compact_in_progress` both match only `ErrCompactInProgress`.  The property is silent
  on `ErrConflict`.
- `OrphansAreRetries`, `CountsHonest`: after a retry a key, an index or a job may be
  there of which nobody heard, and a second sweep's "0 the second time"
  (`indexes.go:194`) may be the only answer of the first.
- `GivesUpLast`: what is to be retried is what the hook says true to, and the
  transient classes where there is no hook (`HookAborts` has the rest).  What is
  retried is wider than the 429 and 503 of `doc.go`: every 5xx but 501, network errors
  and undecodable bodies.  Who cancels during a delay of zero (`retry.go:104`) gets a
  network error after the last attempt; `EveryCallReturns` has that case.

Seen in the example without a run: the comment at `main.go:7` says the tenant of
`GRAPHANN_TENANT_ID` is created when absent; `main` always creates a new one.

`CleanEnd` leaves out three cases in which the end is reported with items left.  Two
are the runs above; the third is a `NextPage` that reads the last page while items of
`Next` are buffered, which makes these unreachable, and of which no comment speaks.

### Bounds

- Calls: in `singleflight` three are needed for a leader, a waiter and a call that
  replaces a forgotten flight or arrives in the window.  One key is enough there,
  since keys meet nowhere in `Do` (the proofs are for any number); the window is 2
  because with 1 no re-run inside it is possible.  In `search`, where keys may be mixed
  up, there are two of them, and two calls: one to fill a layer and one to be served
  from it.
- Time: the clock passes the end of window and TTL in each run that speaks of ages.
  A tick is any interval of real time.
- `MaxEntries` 2 with 3 keys makes every third insertion evict.
- Four attempts reach the first, a middle and the last one, and the cap; the other
  policies are those at the edges of the retry loop: a maximum of 0, no delay (for
  which `sleepCtx` does not look at the context), no cap.  The responses are one for
  each way an attempt ends.  `request_overflow` scales the range of `Duration` down to
  4 bits with five attempts; the arithmetic is that of `backoff` at 64 bits.
- Two callers of two attempts give a request that is served late, between or after
  another caller's, and a retry; a third caller would repeat the second.  Nothing
  in `Operations` bounds counters: each call has at most two requests.
- `quickstart` keeps the order of the program's times (sleep 5 s, TTL 30 s, context
  60 s, deadline 5 min) and not their ratio.  A sleep has an inner tick and the context
  is no multiple of it, so that a sleep can begin before the end of the context and end
  after it; two sleeps fit into the TTL, so that the job may be done within it or
  later.  The clock goes beyond every moment `main` could reach (`MaxTime` 30 > 9 + 18),
  so that nothing but the context keeps it from its deadline.  Lists of two options
  around the eight of interest give overrides, refusals before and after, nil options.
- Five rows and pages of three give short, full, empty and final pages.

`CHECK_DEADLOCK FALSE` stands where the system stops: calls end and the clock is
bounded.  Runs with liveness use no symmetry.

### Fairness

`Singleflight` and `Search`: weak fairness of each call's own steps, since each is
a runnable goroutine and `do` returns, which `Request` shows.  Starting a call, `Forget`
and the clock are not fair.  `Request`: weak fairness of the
client's steps and of the timer; nothing is assumed of server, network or context,
because the timeouts of `newHardenedHTTPClient` end every wait (with a caller's own
`http.Client` they need not, and `EveryCallReturns` is not claimed).  `Pagination`:
the caller goes on calling `Next`, as `All` does.  `Quickstart`: weak fairness of
`main`, whose every call has a result, if only the end of its context, and of the
clock, which is enabled only while `main` is in a call or asleep; nothing of the
server, so the job may hang for ever.  `Operations` states none.

## What is proved

The proofs assume only what the modules assume of their constants: positive window,
TTL and capacity (the constructors return nil otherwise), a positive page size, a
`None` and an empty cursor that are nothing else, policies and replies that are
such, methods that exist, and for `Quickstart` a job deadline not shorter than the
context and a sleep that takes time.  Three
theorems have a hypothesis of their own, named below.  No bound of a run is assumed.

Every safety and action property of a passing run is proved.

- `SingleflightProofs`: `TypeCorrect`, `OneFlight`, `NoWaiterLost`, `Freshness`,
  `Reruns`.  The properties are not inductive.  That no waiter is lost and that
  runs of a key follow each other needs `FlightsOpen` (the group's map holds only
  open flights, under their own key) and `OpenFlightsKept` (an open flight is in the
  map unless a `Forget` took it out).  The age of results needs `StoredRuns` (a sticky
  entry is of a run of its key and expires at most the window after that run's
  flight was closed); `Reruns` needs `StoredAfterMiss` (an entry found after a
  missed check was stored after it).
- `QueryCacheProofs`: `TypeCorrect`, `Consistent`, `Bounded`, `Retention`,
  `Refinement`.  Lemmas
  about removing, prepending and dropping the last element of an injective sequence
  carry the list; the invariant adds that an entry is the latest `Set` and expires
  `TTL` after it, which gives the refinement of `TTLStore`.  `Retention` adds `RInv`: the
  list is in the order of last use (`ListByAge`), and a key's age counts exactly the
  distinct keys used after it (`Ranks`).  A key that leaves a full list from its end
  then has `MaxEntries` members before it, all of them distinct and used later
  (`DistinctMembers`, `EvictedIsOld`).
- `RequestProofs`: `TypeCorrect`, `HookOnce`, `NoEarlyFailure`, `HintHonoured`,
  `CapHolds`, `Refinement`.  The invariant relates requests in the network and effects to the
  requests sent, a successful response to an effect, and the timer to what is left
  of the server's hint.  `CapHolds` is the other side of `request_overflow`: MaxBackoff
  and its jitter bound every delay if no doubling within the attempts leaves the range
  of `Duration` (its hypothesis `InRange`, which the defaults meet).  `Refinement` is the safety part of `ImplementsAtLeastOnce`.
- `OperationsProofs`: `TypeCorrect`, `AnswersAreTrue`, `SettledWritesStay`,
  `OrphansAreOfRetries`, `CountsAreHonest`, `ConflictsAreNamed`, `Refinement`.  The
  invariant has five parts.  `Shape` ties a call's place, its requests and its answer
  together (a settled call has nothing under way); `Counted` bounds what was carried
  out and what still may be by what was sent; `Witnessed` says that a call under way
  has seen what is true now and what its answer says, from which `AnswersTrue`
  follows when it returns; `Ordered` keeps content from going back; `Told` relates
  the numbers in an answer to what was made or removed.  Lemmas say once what each
  client step and a response keep, whatever the server did.  `Refinement` proves
  that each call implements `AtLeastOnce`; `OthersStutter` is its other half, that a
  step of one call is a stuttering step of the rest.
- `SearchProofs`: `TypeCorrect`, `OwnAnswers`, `Freshness`, `CacheForward`,
  `OneRunPerQuery`, `Composition`.  The group's part is the invariant of
  `SingleflightProofs`, used through `INSTANCE`: `GroupStep` shows that a step of
  `runSearch` is a step of `Do` or leaves the group alone, so `Proved!IInv` holds of the
  composition.  To it come `Linked` (where a call is in `runSearch` says where it is in
  the group, under its own fingerprint), `Ended` (what is stored and handed out is of a
  run whose `exec` returned), `Filled` (a cache entry is a response of its fingerprint,
  dated when `exec` returned it) and `Ahead` (the request of the run under way was not
  served before that of the response the cache holds), without which an older answer
  could follow a newer one.
  `OneRunPerQuery` has the group's `OneFlightPerKey` without its exception, since
  `runSearch` never calls `Forget`.
- `PaginationProofs`: `TypeCorrect`, `EachOnce`, `NothingIsLost`, `EndIsClean`,
  `OrderKept`.  `CursorAtFetched` says that the cursor is the last row fetched or one of
  the two empty ones, `BufferWaits` that the buffer is in order and holds nothing that
  was handed out, `Finished` when the iterator may be finished, `Untouched` what holds
  before the first call.  `PageRows` is what a page contains: it exists because the
  matching rows of an interval can be put in order (`Enumerable`, by taking the least
  of them first).
- `ConstructionProofs`: `AsAsked`, for lists whose URLs are URLs (`WellFormed`).  `Prefix` says the configuration is what the
  options applied so far ask for and none was refused, `Outcome` what that makes of
  the client.
- `QuickstartProofs`: `TypeCorrect`, `TheClientAsAsked` (under `WellFormed` too),
  `SecondSearch`, `TheContextRules`.  `Timely`
  bounds the clock and the wake-up by the context and one sleep and the deadline from
  below, and says where `main` is after the context; `Shown` relates what the cache
  holds to what was printed, by which model and when; `Swapped` says that `main`
  searches again only with the new model in place.  The client's part is the invariant
  of `ConstructionProofs`,
  used through `INSTANCE`: a step of `main` is a step of `NewClient` or leaves the client
  alone.

Only model-checked: liveness under fairness, which is out of the prover's reach
(`EveryCallReturns` twice, `EverySearchReturns`, `DrainEnds`, `MainEnds`, and the
progress of `ImplementsAtLeastOnce`).  The provers know no induction schema that can
be instantiated with a property; where the proofs need one, `Pagination`'s over rows,
it is a least counterexample (`WFMin`).

## What is not modelled

- the wire types, the paths and bodies of the endpoint methods and the fields of
  their results: data.  `ListJobs` drops `ListJobsRequest.Cursor` (`jobs.go:36`), which
  is such a field;
- TLS, dialling and connection reuse: library code, of which `Request` has the
  timeouts; `Close`: drops idle connections;
- a panic in `fn`; the goroutines of `x/sync` (its `Do` starts none);
- the contexts of calls that join a flight, which nothing looks at (`search.go:45`):
  a follower waits as long as its leader;
- aliasing of a shared `*SearchResponse` by callers (`search.go:29`);
- `json.Unmarshal` into the same `out` on every attempt (`client.go:295`): it checks the
  syntax before it writes, so only a body of wrong types leaves something there;
- the overflow of a Retry-After in seconds beyond 292 years (`client.go:335`);
- concurrent use of one `Iter`, which has no lock;
- `getenv`, `envInt`, `truncate` and the printing of the example;
- the text of errors, logging, the values of jitter.

## Plan

Done: all components that have behaviour, and the proofs of every safety and action
property the passing runs check.

Left, all of it proofs: more of what is built on others, such as the results of
`RequestProofs` for the calls of `Operations`, and shorter proofs of the step lemmas
of `SearchProofs`.
