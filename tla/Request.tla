------------------------------ MODULE Request -------------------------------
(***************************************************************************)
(* One call of c.do (client.go): the retry loop, the HTTP attempt, the     *)
(* backoff sleep and the caller's context, together with the network and   *)
(* the server at their other end.  Calls share no mutable state but the    *)
(* jitter source, so one call is the whole system.                         *)
(*                                                                         *)
(* The transport and the server are external: a request that was sent may  *)
(* be served late, after its attempt was given up, or never.  Time is      *)
(* counted where it matters, while the loop sleeps.                        *)
(***************************************************************************)
EXTENDS Errors

CONSTANTS
    Policies,     \* the retry policies a client may have
    MaxDuration,  \* greatest time.Duration, in ticks
    Replies,      \* the responses the server may give
    None          \* nothing

\* RetryPolicy: delays in ticks, the fraction clamped and in hundredths, and of
\* the hook the sentinels it says "retry" to ({} where there is no hook).
Policy ==
    [MaxAttempts : Int, InitialBackoff : Int, MaxBackoff : Int,
     JitterPercent : 0 .. 100, RetryOn : SUBSET Sentinels]

ASSUME RequestAssumption ==
    /\ Policies \subseteq Policy
    /\ MaxDuration \in Nat
    /\ Replies \subseteq Reply
    /\ None \notin Reply \cup Error \cup {NoError}

VARIABLES
    policy,    \* the client's retry policy, or that of a probe
    badArgs,   \* what building its request fails with, if it does
    decodes,   \* whether it passes an `out'
    ctx,       \* its context: "nil", "live" or "over" (cancelled, expired)
    pc,        \* where the loop is
    attempt,   \* the loop variable, from 0
    lastErr,   \* the error of the latest attempt
    wait,      \* what is left of the backoff timer
    network,   \* attempts whose request the server has not served
    reply,     \* the response to the current attempt, once it is here
    result,    \* what the call returned
    applied,   \* requests that took effect on the server
    sent,      \* history: requests sent
    dialed,    \* history: uses of httpClient.Do
    observed,  \* history: calls of the metrics hook
    elapsed    \* history: time since the latest attempt failed

argVars  == <<policy, badArgs, decodes>>
loopVars == <<pc, attempt, lastErr, result>>
netVars  == <<network, applied>>
histVars == <<sent, dialed, observed, elapsed>>
vars     == <<argVars, ctx, loopVars, wait, netVars, reply, histVars>>

\* The health probes set opts.noRetry, which replaces the policy.
NoRetry ==
    [MaxAttempts |-> 1, InitialBackoff |-> 0, MaxBackoff |-> 0,
     JitterPercent |-> 0, RetryOn |-> {}]

\* At least one.
maxAttempts == IF policy.MaxAttempts < 1 THEN 1 ELSE policy.MaxAttempts

\* A URL that does not parse or a body that does not marshal; or what
\* http.NewRequestWithContext does not take, which passes as a network error.
BuildErrors == {Plain("Config"), NetError}

Stages == {"idle", "building", "inflight", "backoff", "sleeping", "done"}

TypeOK ==
    /\ policy \in Policies \cup {NoRetry}
    /\ badArgs \in BuildErrors \cup {None}
    /\ decodes \in BOOLEAN
    /\ ctx \in {"nil", "live", "over"}
    /\ pc \in Stages
    /\ attempt \in 0 .. maxAttempts - 1
    /\ lastErr \in Error \cup {None}
    /\ wait \in Int
    /\ network \subseteq 0 .. attempt
    /\ reply \in Reply \cup {None}
    /\ result \in Error \cup {None, NoError}
    /\ sent \in 0 .. maxAttempts
    /\ applied \in 0 .. maxAttempts
    /\ dialed \in 0 .. maxAttempts
    /\ observed \in 0 .. maxAttempts
    /\ elapsed \in Nat

Init ==
    /\ policy \in Policies \cup {NoRetry}
    /\ badArgs \in BuildErrors \cup {None}
    /\ decodes \in BOOLEAN
    /\ ctx \in {"nil", "live"}
    /\ pc = "idle"
    /\ attempt = 0
    /\ lastErr = None
    /\ wait = 0
    /\ network = {}
    /\ reply = None
    /\ result = None
    /\ applied = 0
    /\ sent = 0
    /\ dialed = 0
    /\ observed = 0
    /\ elapsed = 0

-----------------------------------------------------------------------------
(***************************************************************************)
(* How an attempt ends.                                                    *)
(***************************************************************************)

Return(r) == pc' = "done" /\ result' = r

\* Mutants of AttemptLeft: one attempt too many, and one too few.
AttemptLeftLate == attempt < maxAttempts

AttemptLeftEarly == attempt + 2 < maxAttempts

AttemptLeft == attempt + 1 < maxAttempts

\* attemptOnce returned err: retry it, or give up with it.
Settle(err) ==
    /\ lastErr' = err
    /\ elapsed' = 0
    /\ IF ShouldRetry(policy.RetryOn, err) /\ AttemptLeft
       THEN pc' = "backoff" /\ attempt' = attempt + 1 /\ UNCHANGED result
       ELSE Return(err) /\ UNCHANGED attempt

\* Mutant of Observe: the hook is not called.
ObserveNothing == UNCHANGED observed

Observe == observed' = observed + 1

\* A request that was sent comes to nothing but err.
FailWith(err) ==
    /\ Observe
    /\ Settle(err)
    /\ reply' = None
    /\ UNCHANGED <<argVars, ctx, wait, netVars, sent, dialed>>

\* Mutant of Failure: only a 5xx counts.
FailureOfServer(r) == r.status >= 500

Failure(r) == r.status >= 400

Answered == pc = "inflight" /\ reply # None

\* Mutant of WaitEnds: no timeout, so a response that never comes is awaited
\* for as long as the context lives.
WaitEndsWithContext == ctx = "over"

\* The wait for a response may end at any time: with the context, with a
\* timeout of the http.Client or with the connection.
WaitEnds == TRUE

-----------------------------------------------------------------------------
(***************************************************************************)
(* The loop.                                                               *)
(***************************************************************************)

Start ==
    /\ pc = "idle"
    /\ IF ctx = "nil" THEN Return(Plain("Config"))
                      ELSE pc' = "building" /\ UNCHANGED result
    /\ UNCHANGED <<argVars, ctx, attempt, lastErr, wait, netVars, reply,
                   histVars>>

\* Nothing is sent and nothing observed.
Unsendable ==
    /\ pc = "building"
    /\ badArgs # None
    /\ Settle(badArgs)
    /\ UNCHANGED <<argVars, ctx, wait, netVars, reply, sent, dialed, observed>>

Send ==
    /\ pc = "building"
    /\ badArgs = None
    /\ ctx = "live"
    /\ pc' = "inflight"
    /\ network' = network \cup {attempt}
    /\ sent' = sent + 1
    /\ dialed' = dialed + 1
    /\ UNCHANGED <<argVars, ctx, attempt, lastErr, result, wait, applied,
                   reply, observed, elapsed>>

\* The transport refuses a request whose context is over, or finds no server.
Refused ==
    /\ pc = "building"
    /\ badArgs = None
    /\ dialed' = dialed + 1
    /\ Observe
    /\ Settle(NetError)
    /\ UNCHANGED <<argVars, ctx, wait, netVars, reply, sent>>

NoResponse ==
    /\ pc = "inflight"
    /\ reply = None
    /\ WaitEnds
    /\ FailWith(NetError)

\* The response is here, but its body is no gzip or cannot be read to its end,
\* for one of the same reasons.
Broken == Answered /\ FailWith(NetError)

Rejected ==
    /\ Answered
    /\ Failure(reply) /\ reply.body # "broken"
    /\ FailWith(ApiError(reply))

Undecodable ==
    /\ Answered
    /\ ~ Failure(reply) /\ reply.body = "garbled" /\ decodes
    /\ FailWith(DecodeError)

Accepted ==
    /\ Answered
    /\ ~ Failure(reply)
    /\ reply.body = "good" \/ (reply.body = "garbled" /\ ~ decodes)
    /\ Observe
    /\ Return(NoError)
    /\ reply' = None
    /\ UNCHANGED <<argVars, ctx, attempt, lastErr, wait, netVars, sent, dialed,
                   elapsed>>

\* Out of its range, the conversion of a float64 to a Duration is left to the
\* processor: the smallest Duration (amd64) or the greatest (arm64).
Converted(x) ==
    IF x <= MaxDuration THEN {x} ELSE {MaxDuration, - MaxDuration - 1}

\* The sum of Durations wraps around.
Wrapped(x) ==
    ((x + MaxDuration + 1) % (2 * MaxDuration + 2)) - MaxDuration - 1

Jitters(d) ==
    IF d >= 0 THEN 0 .. (d * policy.JitterPercent) \div 100
              ELSE - ((- d * policy.JitterPercent) \div 100) .. 0

\* Mutant of Hinted: the error's hint is not found (retryAfterFromError).
HintedNever(retryAfter) == FALSE

Hinted(retryAfter) == retryAfter > 0

\* RetryPolicy.backoff before the attempt n+1: the server's hint, or the base
\* doubled n times and capped, with the jitter on top.
Delays(n, retryAfter) ==
    LET most      == policy.MaxBackoff
        Capped(d) == IF most > 0 /\ d > most THEN most ELSE d
        grown     == {Capped(d) : d \in Converted(policy.InitialBackoff * 2 ^ n)}
    IN  IF Hinted(retryAfter) THEN {retryAfter}
        ELSE IF policy.InitialBackoff <= 0 THEN {0}
        ELSE UNION {{Wrapped(d + j) : j \in Jitters(d)} : d \in grown}

\* No delay means no look at the context either (sleepCtx).
Backoff ==
    /\ pc = "backoff"
    /\ \E d \in Delays(attempt - 1, lastErr.retryAfter) :
          /\ wait' = d
          /\ pc' = IF d <= 0 THEN "building" ELSE "sleeping"
    /\ UNCHANGED <<argVars, ctx, attempt, lastErr, result, netVars, reply,
                   histVars>>

TimerFires ==
    /\ pc = "sleeping"
    /\ wait = 0
    /\ pc' = "building"
    /\ UNCHANGED <<argVars, ctx, attempt, lastErr, result, wait, netVars,
                   reply, histVars>>

\* Also when the timer is ready too: select then picks either.
SleepInterrupted ==
    /\ pc = "sleeping"
    /\ ctx = "over"
    /\ Return(Plain(CtxError))
    /\ UNCHANGED <<argVars, ctx, attempt, lastErr, wait, netVars, reply,
                   histVars>>

-----------------------------------------------------------------------------
(***************************************************************************)
(* The caller's context, the clock, the network and the server.            *)
(***************************************************************************)

ContextEnds ==
    /\ ctx = "live"
    /\ ctx' = "over"
    /\ UNCHANGED <<argVars, loopVars, wait, netVars, reply, histVars>>

Tick ==
    /\ pc = "sleeping"
    /\ wait > 0
    /\ wait' = wait - 1
    /\ elapsed' = elapsed + 1
    /\ UNCHANGED <<argVars, ctx, loopVars, netVars, reply, sent, dialed,
                   observed>>

\* A success is an effect; a 4xx is none; after a 5xx there is no telling.
Effects(r) ==
    IF r.status < 400 THEN {1} ELSE IF r.status < 500 THEN {0} ELSE {0, 1}

Serve(a, r) ==
    /\ a \in network
    /\ network' = network \ {a}
    /\ \E e \in Effects(r) : applied' = applied + e
    /\ reply' = IF pc = "inflight" /\ a = attempt THEN r ELSE reply
    /\ UNCHANGED <<argVars, ctx, loopVars, wait, histVars>>

LoseRequest(a) ==
    /\ a \in network
    /\ network' = network \ {a}
    /\ UNCHANGED <<argVars, ctx, loopVars, wait, applied, reply, histVars>>

ClientStep ==
    \/ Start \/ Unsendable \/ Send \/ Refused
    \/ NoResponse \/ Broken \/ Rejected \/ Undecodable \/ Accepted
    \/ Backoff \/ TimerFires \/ SleepInterrupted

Next ==
    \/ ClientStep
    \/ ContextEnds
    \/ Tick
    \/ \E a \in network : LoseRequest(a) \/ \E r \in Replies : Serve(a, r)

\* The goroutine runs, timers advance, and the timeouts of the SDK's own
\* http.Client make NoResponse possible for as long as one is awaited.
Spec == Init /\ [][Next]_vars /\ WF_vars(ClientStep) /\ WF_vars(Tick)

-----------------------------------------------------------------------------
(***************************************************************************)
(* Properties.                                                             *)
(***************************************************************************)

\* When the server answered with a Retry-After, no request goes out before that
\* much time has passed since its answer, whatever the policy's own backoff.
RetryAfterHonoured ==
    [][(Send \/ Refused) /\ attempt > 0 => elapsed >= lastErr.retryAfter]_vars

\* "Retries on ErrRateLimited, ErrServer, ErrIndexNotReady, and ErrNetwork"
\* (retry.go:29-31).
TransientErrors == {"RateLimited", "Server", "IndexNotReady", "Network"}

\* The errors that are to be retried: these, or what the hook says true to; a
\* transient error it says false to is left open (HookAborts).
ToRetry == IF policy.RetryOn = {} THEN TransientErrors ELSE policy.RetryOn

\* do gives up on an error that is to be retried only when the attempts are used
\* up or the context is over, and retries no error that is neither transient nor
\* the hook's; it returns the error of its latest attempt, or the context's.
GivesUpLast ==
    /\ (pc = "done" /\ result # NoError /\ ctx # "nil") =>
          \/ ctx = "over" /\ result = Plain(CtxError)
          \/ /\ result = lastErr
             /\ lastErr.is \in ToRetry => attempt + 1 = maxAttempts
    /\ pc = "backoff" => lastErr.is \in TransientErrors \cup policy.RetryOn

\* "Return true to retry, false to abort" (retry.go:24-25): where there is a
\* hook, only what it says true to is retried.
HookAborts ==
    [][(Backoff /\ policy.RetryOn # {}) => lastErr.is \in policy.RetryOn]_vars

\* retry.go:19, "MaxBackoff caps the per-attempt delay after exponential growth":
\* where there is a cap and no hint, no delay exceeds it and its jitter.
BackoffCapped ==
    [][(Backoff /\ policy.MaxBackoff > 0 /\ lastErr.retryAfter = 0) =>
          wait' <= policy.MaxBackoff
                      + (policy.MaxBackoff * policy.JitterPercent) \div 100]_vars

\* The metrics hook is "invoked once per outbound request" (options.go:12):
\* once for each use of httpClient.Do that has ended, whichever way.
ObservedOnce == dialed = observed + (IF pc = "inflight" THEN 1 ELSE 0)

\* Every call returns, whatever the server and the network do.
EveryCallReturns == pc = "building" ~> pc = "done"

\* The call is an at-least-once delivery with at most MaxAttempts requests:
\* success means at least one effect, and nothing is sent after the return.
Delivery == INSTANCE AtLeastOnce
    WITH limit   <- maxAttempts,
         outcome <- IF pc # "done" THEN "pending"
                    ELSE IF result = NoError THEN "ok" ELSE "failed"

ImplementsAtLeastOnce == Delivery!Spec
=============================================================================
