--------------------------- MODULE RequestProofs ----------------------------
(***************************************************************************)
(* Proofs about Request, for any retry policy and any set of responses.    *)
(***************************************************************************)
EXTENDS Request, FiniteSetTheorems, TLAPS

(***************************************************************************)
(* The inductive invariant, in named parts.                                *)
(***************************************************************************)

\* Where the loop may be with which context, error and result.
LoopState ==
    /\ pc \in {"building", "inflight", "backoff", "sleeping"} =>
          ctx # "nil" /\ result = None
    /\ pc = "idle" => result = None /\ attempt = 0
    /\ pc \in {"backoff", "sleeping"} => attempt > 0
    /\ attempt > 0 => lastErr \in Error
    /\ pc = "done" => result # None

\* Each attempt uses httpClient.Do once at most, and only after the loop came
\* to it.
Counted ==
    /\ sent <= dialed
    /\ dialed <= attempt + (IF pc \in {"inflight", "done"} THEN 1 ELSE 0)

\* What took effect and what still may were both sent.
EffectsSent ==
    /\ IsFiniteSet(network)
    /\ applied + Cardinality(network) <= sent

\* A response is here only while it is awaited, and a successful one is proof
\* of an effect.
ReplyState ==
    /\ reply # None => pc = "inflight"
    /\ reply # None /\ reply.status < 400 => applied > 0

\* The timer covers what is left of the server's hint.
HintCovered ==
    /\ pc = "sleeping" => wait >= 0 /\ elapsed + wait >= lastErr.retryAfter
    /\ pc = "building" /\ attempt > 0 => elapsed >= lastErr.retryAfter

IInv ==
    /\ TypeOK
    /\ LoopState
    /\ Counted
    /\ ObservedOnce
    /\ EffectsSent
    /\ ReplyState
    /\ HintCovered
    /\ GivesUpLast

-----------------------------------------------------------------------------
(***************************************************************************)
(* Lemmas about the errors.                                                *)
(***************************************************************************)

LEMMA PlainIsError ==
  ASSUME NEW s \in Sentinels \cup {CtxError}
  PROVE  Plain(s) \in Error /\ Plain(s) # NoError /\ Plain(s).retryAfter = 0
  <1>1. s # "nil"
    BY DEF Sentinels, CtxError
  <1> QED
    BY <1>1 DEF Plain, Error, NoError

LEMMA SentinelForType ==
  ASSUME NEW status \in Int, NEW code
  PROVE  SentinelFor(status, code) \in Sentinels
  BY DEF SentinelFor, Sentinels

\* Every way an attempt fails gives an error, never nil.
LEMMA AttemptErrors ==
  /\ NetError \in Error
  /\ DecodeError \in Error
  /\ Plain("Config") \in Error
  /\ \A r \in Reply : ApiError(r) \in Error
  <1>1. NetError \in Error /\ DecodeError \in Error /\ Plain("Config") \in Error
    BY PlainIsError DEF NetError, DecodeError, Sentinels
  <1>2. ASSUME NEW r \in Reply PROVE ApiError(r) \in Error
    BY <1>2, SentinelForType DEF ApiError, Error, Reply
  <1> QED
    BY <1>1, <1>2

LEMMA NilIsNoError == NoError \notin Error
  BY DEF NoError, Plain, Error, Sentinels, CtxError

LEMMA PolicyType ==
  ASSUME policy \in Policies \cup {NoRetry}
  PROVE  /\ policy.MaxAttempts \in Int /\ policy.InitialBackoff \in Int
         /\ policy.MaxBackoff \in Int /\ policy.JitterPercent \in 0 .. 100
         /\ maxAttempts \in Nat /\ maxAttempts >= 1
  <1>1. NoRetry \in Policy
    BY DEF NoRetry, Policy
  <1>2. policy \in Policy
    BY <1>1, RequestAssumption
  <1> QED
    BY <1>2 DEF Policy, maxAttempts

LEMMA BuildErrorType ==
  ASSUME badArgs \in BuildErrors \cup {None}, badArgs # None
  PROVE  badArgs \in Error
  BY AttemptErrors DEF BuildErrors

\* What backoff returns: the hint where there is one, and some integer at least.
LEMMA DelaysAreInts ==
  ASSUME policy \in Policies \cup {NoRetry},
         NEW n \in Nat, NEW hint \in Nat, NEW d \in Delays(n, hint)
  PROVE  d \in Int /\ (hint > 0 => d = hint)
  <1> DEFINE Capped(x) == IF policy.MaxBackoff > 0 /\ x > policy.MaxBackoff
                          THEN policy.MaxBackoff ELSE x
             grown     == {Capped(x) : x \in Converted(policy.InitialBackoff * 2 ^ n)}
  <1>1. CASE hint > 0 \/ policy.InitialBackoff <= 0
    BY <1>1 DEF Delays, Hinted
  <1>2. CASE ~ (hint > 0 \/ policy.InitialBackoff <= 0)
    <2>1. PICK x \in grown : d \in {Wrapped(x + j) : j \in Jitters(x)}
      BY <1>2 DEF Delays, Hinted
    <2>2. PICK j \in Jitters(x) : d = Wrapped(x + j)
      BY <2>1
    <2>3. x \in Int
      BY PolicyType, RequestAssumption DEF Converted
    <2>4. j \in Int
      BY <2>3, PolicyType DEF Jitters
    <2> QED
      BY <1>2, <2>2, <2>3, <2>4, RequestAssumption DEF Wrapped
  <1> QED
    BY <1>1, <1>2

-----------------------------------------------------------------------------
(***************************************************************************)
(* The invariant is inductive.                                             *)
(***************************************************************************)

LEMMA InitIInv == Init => IInv
  <1> SUFFICES ASSUME Init PROVE IInv
    OBVIOUS
  <1> USE DEF Init
  <1>1. maxAttempts \in Nat /\ maxAttempts >= 1
    BY PolicyType
  <1>2. TypeOK
    BY <1>1 DEF TypeOK, Stages
  <1>3. EffectsSent
    BY FS_EmptySet DEF EffectsSent
  <1> QED
    BY <1>2, <1>3
       DEF IInv, LoopState, Counted, ObservedOnce, ReplyState, HintCovered,
           GivesUpLast

\* A call keeps its policy.
LEMMA PolicyKept ==
  ASSUME [Next]_vars
  PROVE  policy' = policy /\ maxAttempts' = maxAttempts /\ ToRetry' = ToRetry
  <1>1. UNCHANGED argVars
    BY DEF Next, ClientStep, Start, Unsendable, Send, Refused, NoResponse,
           Broken, Rejected, Undecodable, Accepted, FailWith, Backoff,
           TimerFires, SleepInterrupted, ContextEnds, Tick, Serve,
           LoseRequest, vars
  <1> QED
    BY <1>1 DEF argVars, maxAttempts, ToRetry

\* What Settle does to the loop, whichever attempt it ends.
LEMMA SettleStep ==
  ASSUME TypeOK, LoopState, pc \in {"building", "inflight"},
         NEW err \in Error, Settle(err), UNCHANGED <<argVars, ctx>>
  PROVE  /\ pc' \in {"backoff", "done"}
         /\ attempt' = IF pc' = "backoff" THEN attempt + 1 ELSE attempt
         /\ attempt' \in 0 .. maxAttempts - 1
         /\ lastErr' = err
         /\ result' \in Error \cup {None, NoError}
         /\ elapsed' = 0
         /\ LoopState'
         /\ GivesUpLast'
  <1>1. maxAttempts \in Nat /\ maxAttempts >= 1 /\ maxAttempts' = maxAttempts
        /\ policy' = policy
    BY PolicyType DEF TypeOK, argVars, maxAttempts
  <1>2. err # None
    BY RequestAssumption
  <1>3. ctx # "nil" /\ result = None
    BY DEF LoopState
  <1>r. /\ err.is \in ToRetry => ShouldRetry(policy.RetryOn, err)
        /\ ShouldRetry(policy.RetryOn, err) =>
              err.is \in TransientErrors \cup policy.RetryOn
    BY DEF ToRetry, TransientErrors, ShouldRetry, Transient
  <1>4. CASE ShouldRetry(policy.RetryOn, err) /\ attempt + 1 < maxAttempts
    <2>1. /\ pc' = "backoff" /\ attempt' = attempt + 1 /\ result' = result
          /\ lastErr' = err /\ elapsed' = 0
      BY <1>4 DEF Settle, AttemptLeft
    <2>2. LoopState'
      BY <1>3, <2>1 DEF LoopState, TypeOK
    <2>3. GivesUpLast'
      BY <1>1, <1>4, <1>r, <2>1 DEF GivesUpLast
    <2> QED
      BY <1>1, <1>3, <1>4, <2>1, <2>2, <2>3 DEF TypeOK
  <1>5. CASE ~ (ShouldRetry(policy.RetryOn, err) /\ attempt + 1 < maxAttempts)
    <2>1. pc' = "done" /\ result' = err /\ attempt' = attempt /\ lastErr' = err
      BY <1>5 DEF Settle, AttemptLeft, Return
    <2>2. err.is \in ToRetry => attempt + 1 = maxAttempts
      BY <1>1, <1>5, <1>r DEF TypeOK
    <2>3. LoopState' /\ GivesUpLast'
      <3>1. ToRetry' = ToRetry
        BY <1>1 DEF ToRetry
      <3> QED
        BY <1>1, <2>1, <2>2, <1>2, <1>3, <3>1 DEF LoopState, GivesUpLast, argVars
    <2> QED
      BY <2>1, <2>3, <1>5 DEF Settle, AttemptLeft, TypeOK
  <1> QED
    BY <1>4, <1>5

\* A failed attempt keeps the invariant, given the error and the counters.
LEMMA FailedAttempt ==
  ASSUME IInv, NEW err \in Error, Settle(err), reply' = None,
         UNCHANGED <<argVars, ctx, wait, netVars, sent>>,
         \/ /\ pc = "building"
            /\ \/ UNCHANGED <<dialed, observed>>
               \/ dialed' = dialed + 1 /\ Observe
         \/ pc = "inflight" /\ UNCHANGED dialed /\ Observe
  PROVE  IInv'
  <1>1. /\ pc' \in {"backoff", "done"}
        /\ attempt' = IF pc' = "backoff" THEN attempt + 1 ELSE attempt
        /\ attempt' \in 0 .. maxAttempts - 1
        /\ lastErr' = err
        /\ result' \in Error \cup {None, NoError}
        /\ elapsed' = 0
        /\ LoopState'
        /\ GivesUpLast'
    BY SettleStep DEF IInv
  <1>2. maxAttempts \in Nat /\ maxAttempts >= 1 /\ maxAttempts' = maxAttempts
    BY PolicyType DEF IInv, TypeOK, argVars, maxAttempts
  <1>3. Counted' /\ ObservedOnce'
    BY <1>1 DEF IInv, TypeOK, Counted, ObservedOnce, Observe
  <1>4. network \subseteq 0 .. attempt'
    BY <1>1 DEF IInv, TypeOK
  <1>n. dialed' \in 0 .. maxAttempts /\ observed' \in 0 .. maxAttempts
    <2>1. dialed' <= maxAttempts /\ dialed' = observed'
      BY <1>1, <1>2, <1>3 DEF IInv, TypeOK, Counted, ObservedOnce, Observe
    <2>2. dialed' \in Nat /\ observed' \in Nat
      BY <1>2 DEF IInv, TypeOK, Observe
    <2> QED
      BY <2>1, <2>2, <1>2
  <1>5. TypeOK'
    BY <1>1, <1>2, <1>4, <1>n DEF IInv, TypeOK, Stages, argVars, netVars
  <1>6. EffectsSent' /\ ReplyState' /\ HintCovered'
    BY <1>1 DEF IInv, EffectsSent, ReplyState, HintCovered, netVars
  <1> QED
    BY <1>1, <1>3, <1>5, <1>6 DEF IInv

LEMMA StepIInv == IInv /\ [Next]_vars => IInv'
  <1> SUFFICES ASSUME IInv, [Next]_vars PROVE IInv'
    OBVIOUS
  <1>t. /\ maxAttempts \in Nat
        /\ maxAttempts >= 1
        /\ maxAttempts' = maxAttempts /\ policy' = policy /\ ToRetry' = ToRetry
        /\ TypeOK
        /\ LoopState
        /\ Counted
        /\ ObservedOnce
        /\ EffectsSent
        /\ ReplyState
        /\ HintCovered
        /\ GivesUpLast
    BY PolicyType, PolicyKept DEF IInv, TypeOK
  <1>b. pc = "building" => reply = None
    BY <1>t DEF ReplyState
  <1> USE DEF argVars, loopVars, netVars, histVars
  <1>1. CASE Start
    <2>1. Plain("Config") \in Error /\ Plain("Config") # None
      BY AttemptErrors, RequestAssumption
    <2>2. attempt = 0 /\ result = None
      BY <1>1, <1>t DEF Start, LoopState
    <2>3. TypeOK' /\ LoopState' /\ Counted' /\ ObservedOnce'
      BY <1>1, <1>t, <2>1, <2>2
         DEF Start, Return, TypeOK, Stages, LoopState, Counted, ObservedOnce
    <2>4. EffectsSent' /\ ReplyState' /\ HintCovered' /\ GivesUpLast'
      BY <1>1, <1>t, <2>2
         DEF Start, Return, EffectsSent, ReplyState, HintCovered, GivesUpLast,
             LoopState
    <2> QED
      BY <2>3, <2>4 DEF IInv
  <1>2. CASE Unsendable
    <2>1. badArgs \in Error
      BY <1>2, <1>t, BuildErrorType DEF Unsendable, TypeOK
    <2> QED
      BY <1>2, <1>b, <2>1, FailedAttempt DEF Unsendable
  <1>3. CASE Send
    <2>1. TypeOK'
      BY <1>3, <1>t DEF Send, TypeOK, Stages, Counted
    <2>2. EffectsSent'
      <3>1. /\ IsFiniteSet(network')
            /\ Cardinality(network') <= Cardinality(network) + 1
        <4>1. network' = network \cup {attempt} /\ IsFiniteSet(network)
          BY <1>3, <1>t DEF Send, EffectsSent
        <4>2. Cardinality(network) \in Nat
          BY <4>1, FS_CardinalityType
        <4> QED
          BY <4>1, <4>2, FS_AddElement
      <3>2. Cardinality(network') \in Nat /\ Cardinality(network) \in Nat
        BY <3>1, <1>t, FS_CardinalityType DEF EffectsSent
      <3> QED
        BY <1>3, <1>t, <3>1, <3>2 DEF Send, EffectsSent, TypeOK
    <2>3. LoopState' /\ Counted' /\ ObservedOnce'
      BY <1>3, <1>t DEF Send, LoopState, Counted, ObservedOnce, TypeOK
    <2>4. ReplyState' /\ HintCovered' /\ GivesUpLast'
      BY <1>3, <1>t DEF Send, ReplyState, HintCovered, GivesUpLast
    <2> QED
      BY <2>1, <2>2, <2>3, <2>4 DEF IInv
  <1>4. CASE Refused
    BY <1>4, <1>b, AttemptErrors, FailedAttempt DEF Refused
  <1>5. CASE NoResponse \/ Broken
    BY <1>5, AttemptErrors, FailedAttempt
       DEF NoResponse, Broken, Answered, FailWith
  <1>6. CASE Rejected
    <2>1. ApiError(reply) \in Error
      BY <1>6, <1>t, AttemptErrors DEF Rejected, Answered, TypeOK
    <2> QED
      BY <1>6, <2>1, FailedAttempt DEF Rejected, Answered, FailWith
  <1>7. CASE Undecodable
    BY <1>7, AttemptErrors, FailedAttempt DEF Undecodable, Answered, FailWith
  <1>8. CASE Accepted
    <2>1. NoError # None
      BY RequestAssumption
    <2>2. observed + 1 = dialed
      BY <1>8, <1>t DEF Accepted, Answered, Failure, ObservedOnce, TypeOK
    <2>3. TypeOK' /\ ObservedOnce'
      BY <1>8, <1>t, <2>2
         DEF Accepted, Answered, Failure, Return, Observe, TypeOK, Stages, ObservedOnce
    <2>4. LoopState' /\ Counted' /\ EffectsSent'
      BY <1>8, <1>t, <2>1
         DEF Accepted, Answered, Failure, Return, LoopState, Counted, EffectsSent
    <2>5. ReplyState' /\ HintCovered' /\ GivesUpLast'
      BY <1>8, <1>t
         DEF Accepted, Answered, Failure, Return, ReplyState, HintCovered, GivesUpLast
    <2> QED
      BY <2>3, <2>4, <2>5 DEF IInv
  <1>9. CASE Backoff
    <2>1. attempt > 0 /\ lastErr \in Error
      BY <1>9, <1>t DEF Backoff, LoopState
    <2>2. PICK d \in Delays(attempt - 1, lastErr.retryAfter) :
             /\ wait' = d
             /\ pc' = IF d <= 0 THEN "building" ELSE "sleeping"
      BY <1>9 DEF Backoff
    <2>3. lastErr.retryAfter \in Nat
      BY <2>1 DEF Error
    <2>4. d \in Int /\ (lastErr.retryAfter > 0 => d = lastErr.retryAfter)
      <3>1. attempt - 1 \in Nat
        BY <1>t, <2>1 DEF TypeOK
      <3> QED
        BY <1>t, <2>2, <2>3, <3>1, DelaysAreInts DEF TypeOK
    <2>5. HintCovered'
      BY <1>9, <1>t, <2>2, <2>3, <2>4 DEF Backoff, HintCovered, TypeOK
    <2>6. TypeOK' /\ LoopState'
      BY <1>9, <1>t, <2>2, <2>4 DEF Backoff, TypeOK, Stages, LoopState
    <2>7. Counted' /\ ObservedOnce' /\ EffectsSent'
      BY <1>9, <1>t, <2>2
         DEF Backoff, Counted, ObservedOnce, EffectsSent, TypeOK
    <2>8. ReplyState' /\ GivesUpLast'
      BY <1>9, <1>t, <2>2 DEF Backoff, ReplyState, GivesUpLast
    <2> QED
      BY <2>5, <2>6, <2>7, <2>8 DEF IInv
  <1>10. CASE TimerFires
    <2>1. TypeOK' /\ LoopState' /\ Counted' /\ ObservedOnce'
      BY <1>10, <1>t
         DEF TimerFires, TypeOK, Stages, LoopState, Counted, ObservedOnce
    <2>2. EffectsSent' /\ ReplyState' /\ GivesUpLast'
      BY <1>10, <1>t DEF TimerFires, EffectsSent, ReplyState, GivesUpLast
    <2>3. HintCovered'
      BY <1>10, <1>t DEF TimerFires, HintCovered, TypeOK
    <2> QED
      BY <2>1, <2>2, <2>3 DEF IInv
  <1>11. CASE SleepInterrupted
    <2>1. Plain(CtxError) \in Error /\ Plain(CtxError) # None
      BY PlainIsError, RequestAssumption
    <2>2. TypeOK' /\ LoopState' /\ Counted' /\ ObservedOnce'
      BY <1>11, <1>t, <2>1
         DEF SleepInterrupted, Return, TypeOK, Stages, LoopState, Counted,
             ObservedOnce
    <2>3. EffectsSent' /\ ReplyState' /\ HintCovered' /\ GivesUpLast'
      BY <1>11, <1>t
         DEF SleepInterrupted, Return, EffectsSent, ReplyState, HintCovered,
             GivesUpLast
    <2> QED
      BY <2>2, <2>3 DEF IInv
  <1>12. CASE ContextEnds
    BY <1>12, <1>t
       DEF ContextEnds, IInv, TypeOK, LoopState, Counted, ObservedOnce,
           EffectsSent, ReplyState, HintCovered, GivesUpLast
  <1>13. CASE Tick
    <2>1. TypeOK' /\ HintCovered'
      BY <1>13, <1>t DEF Tick, TypeOK, HintCovered
    <2>2. LoopState' /\ Counted' /\ ObservedOnce' /\ EffectsSent'
      BY <1>13, <1>t DEF Tick, LoopState, Counted, ObservedOnce, EffectsSent
    <2>3. ReplyState' /\ GivesUpLast'
      BY <1>13, <1>t DEF Tick, ReplyState, GivesUpLast
    <2> QED
      BY <2>1, <2>2, <2>3 DEF IInv
  <1>14. ASSUME NEW a \in network, NEW r \in Replies, Serve(a, r)
         PROVE  IInv'
    <2>1. PICK e \in Effects(r) : applied' = applied + e
      BY <1>14 DEF Serve
    <2>2. e \in {0, 1} /\ (r.status < 400 => e = 1)
      BY <2>1 DEF Effects
    <2>3. /\ IsFiniteSet(network')
          /\ Cardinality(network') = Cardinality(network) - 1
      BY <1>14, <1>t, FS_RemoveElement DEF Serve, EffectsSent
    <2>4. Cardinality(network) \in Nat /\ Cardinality(network') \in Nat
      BY <2>3, <1>t, FS_CardinalityType DEF EffectsSent
    <2>5. EffectsSent' /\ applied' \in 0 .. maxAttempts
      BY <1>14, <1>t, <2>1, <2>2, <2>3, <2>4 DEF Serve, EffectsSent, TypeOK
    <2>6. r \in Reply /\ r # None
      BY RequestAssumption
    <2>7. TypeOK'
      BY <1>14, <1>t, <2>5, <2>6 DEF Serve, TypeOK
    <2>8. ReplyState'
      BY <1>14, <1>t, <2>1, <2>2 DEF Serve, ReplyState, TypeOK
    <2>9. LoopState' /\ Counted' /\ ObservedOnce' /\ HintCovered'
          /\ GivesUpLast'
      BY <1>14, <1>t
         DEF Serve, LoopState, Counted, ObservedOnce, HintCovered, GivesUpLast
    <2> QED
      BY <2>5, <2>7, <2>8, <2>9 DEF IInv
  <1>15. ASSUME NEW a \in network, LoseRequest(a) PROVE IInv'
    <2>1. /\ IsFiniteSet(network')
          /\ Cardinality(network') = Cardinality(network) - 1
      BY <1>15, <1>t, FS_RemoveElement DEF LoseRequest, EffectsSent
    <2>2. Cardinality(network) \in Nat /\ Cardinality(network') \in Nat
      BY <2>1, <1>t, FS_CardinalityType DEF EffectsSent
    <2>3. EffectsSent' /\ TypeOK'
      BY <1>15, <1>t, <2>1, <2>2 DEF LoseRequest, EffectsSent, TypeOK
    <2>4. LoopState' /\ Counted' /\ ObservedOnce' /\ HintCovered'
          /\ ReplyState' /\ GivesUpLast'
      BY <1>15, <1>t
         DEF LoseRequest, LoopState, Counted, ObservedOnce, HintCovered,
             ReplyState, GivesUpLast
    <2> QED
      BY <2>3, <2>4 DEF IInv
  <1>16. CASE UNCHANGED vars
    BY <1>16, <1>t
       DEF vars, IInv, TypeOK, LoopState, Counted, ObservedOnce, EffectsSent,
           ReplyState, HintCovered, GivesUpLast
  <1> QED
    BY <1>1, <1>2, <1>3, <1>4, <1>5, <1>6, <1>7, <1>8, <1>9, <1>10, <1>11,
       <1>12, <1>13, <1>14, <1>15, <1>16
       DEF Next, ClientStep

LEMMA Invariance == Spec => []IInv
  <1> QED
    BY InitIInv, StepIInv, PTL DEF Spec

\* Every variable keeps its type; in particular the counts of requests, of
\* effects and of hook calls stay within the attempts.
THEOREM TypeCorrect == Spec => []TypeOK
  <1>1. IInv => TypeOK
    BY DEF IInv
  <1> QED
    BY <1>1, Invariance, PTL

\* The hook is called once for each use of httpClient.Do that has ended.
THEOREM HookOnce == Spec => []ObservedOnce
  <1>1. IInv => ObservedOnce
    BY DEF IInv
  <1> QED
    BY <1>1, Invariance, PTL

\* do does not give up early on what it should retry, retries nothing else, and
\* returns the latest attempt's error or the context's.
THEOREM NoEarlyFailure == Spec => []GivesUpLast
  <1>1. IInv => GivesUpLast
    BY DEF IInv
  <1> QED
    BY <1>1, Invariance, PTL

\* Every retry waits out the Retry-After of the answer before it.
THEOREM HintHonoured == Spec => RetryAfterHonoured
  <1>1. IInv /\ [Next]_vars =>
           [(Send \/ Refused) /\ attempt > 0 =>
               elapsed >= lastErr.retryAfter]_vars
    BY DEF IInv, HintCovered, Send, Refused
  <1> QED
    BY <1>1, Invariance, PTL DEF Spec, RetryAfterHonoured

-----------------------------------------------------------------------------
(***************************************************************************)
(* The cap on the backoff holds as long as no Duration overflows.          *)
(***************************************************************************)

\* No doubling that the policy's attempts come to, and no cap with its jitter,
\* leaves the range of time.Duration.
InRange(p) ==
    /\ p.InitialBackoff > 0 =>
          \A n \in Nat : n + 2 <= p.MaxAttempts =>
                            p.InitialBackoff * 2 ^ n \in 0 .. MaxDuration
    /\ p.MaxBackoff + (p.MaxBackoff * p.JitterPercent) \div 100 <= MaxDuration

\* In its range, a sum of Durations is the sum.
LEMMA WrappedInRange ==
  ASSUME NEW x \in 0 .. MaxDuration
  PROVE  Wrapped(x) = x
  <1> DEFINE y == x + MaxDuration + 1
             m == 2 * MaxDuration + 2
  <1>1. y \in Int /\ m \in Nat \ {0} /\ 0 <= y /\ y < m
    BY RequestAssumption
  <1>2. y % m = y
    <2> HIDE DEF y, m
    <2> QED
      BY <1>1
  <1> QED
    BY <1>2, RequestAssumption DEF Wrapped

\* A shorter delay has no longer jitter.
LEMMA JitterGrows ==
  ASSUME NEW d \in Nat, NEW cap \in Nat, d <= cap, NEW p \in Nat
  PROVE  (d * p) \div 100 <= (cap * p) \div 100
  <1>1. d * p <= cap * p /\ d * p \in Nat /\ cap * p \in Nat
    OBVIOUS
  <1>2. \A a, b \in Nat : a <= b => a \div 100 <= b \div 100
    OBVIOUS
  <1> QED
    BY <1>1, <1>2

LEMMA DelaysCapped ==
  ASSUME policy \in Policies \cup {NoRetry}, InRange(policy),
         policy.MaxBackoff > 0, NEW n \in Nat, n + 2 <= policy.MaxAttempts,
         NEW d \in Delays(n, 0)
  PROVE  d <= policy.MaxBackoff + (policy.MaxBackoff * policy.JitterPercent) \div 100
  <1> DEFINE Capped(x) == IF policy.MaxBackoff > 0 /\ x > policy.MaxBackoff
                          THEN policy.MaxBackoff ELSE x
             base      == policy.InitialBackoff * 2 ^ n
             most      == (policy.MaxBackoff * policy.JitterPercent) \div 100
             grown     == {Capped(x) : x \in Converted(base)}
  <1>a. policy.MaxBackoff \in Nat /\ policy.JitterPercent \in Nat /\ MaxDuration \in Nat
    BY PolicyType, RequestAssumption
  <1>b. policy.MaxBackoff * policy.JitterPercent \in Nat
    BY <1>a
  <1>c. most \in Nat
    BY <1>b
  <1>1. CASE policy.InitialBackoff <= 0
    <2>1. d = 0
      BY <1>1 DEF Delays, Hinted
    <2> QED
      BY <2>1, <1>a, <1>c
  <1>2. CASE policy.InitialBackoff > 0
    <2>1. base \in 0 .. MaxDuration
      BY <1>2 DEF InRange
    <2>2. PICK x \in grown : d \in {Wrapped(x + j) : j \in Jitters(x)}
      BY <1>2, PolicyType DEF Delays, Hinted
    <2>3. x = Capped(base)
      <3> HIDE DEF base
      <3> QED
        BY <2>1, <2>2 DEF Converted
    <2>4. x \in Nat /\ x <= policy.MaxBackoff
      <3> HIDE DEF base
      <3> QED
        BY <1>a, <2>1, <2>3
    <2>5. PICK j \in Jitters(x) : d = Wrapped(x + j)
      BY <2>2
    <2>6. j \in 0 .. (x * policy.JitterPercent) \div 100
      BY <2>4, <2>5 DEF Jitters
    <2>7. (x * policy.JitterPercent) \div 100 <= most
      BY <1>a, <2>4, JitterGrows
    <2>8. x * policy.JitterPercent \in Nat
      BY <1>a, <2>4
    <2>9. (x * policy.JitterPercent) \div 100 \in Nat
      BY <2>8
    <2>10. x + j \in Nat /\ x + j <= policy.MaxBackoff + most
      <3> HIDE DEF most
      <3> DEFINE own == (x * policy.JitterPercent) \div 100
      <3>1. own \in Nat /\ own <= most /\ j \in 0 .. own
        BY <2>6, <2>7, <2>9
      <3> HIDE DEF own
      <3> QED
        BY <1>a, <1>c, <2>4, <3>1
    <2>11. policy.MaxBackoff + most <= MaxDuration
      BY DEF InRange
    <2>12. Wrapped(x + j) = x + j
      <3> HIDE DEF most
      <3>1. x + j \in 0 .. MaxDuration
        BY <1>a, <1>c, <2>10, <2>11
      <3> QED
        BY <3>1, WrappedInRange
    <2> QED
      BY <2>5, <2>10, <2>12
  <1> QED
    BY <1>1, <1>2, PolicyType

\* "policy.MaxBackoff caps the per-attempt delay after exponential growth"
\* (retry.go:19) where the doubled backoff of every policy stays in the range of
\* time.Duration; BackoffCapped is violated only beyond it.
THEOREM CapHolds ==
  ASSUME \A p \in Policies : InRange(p)
  PROVE  Spec => BackoffCapped
  <1>1. ASSUME IInv, Backoff, policy.MaxBackoff > 0, lastErr.retryAfter = 0
        PROVE  wait' <= policy.MaxBackoff + (policy.MaxBackoff * policy.JitterPercent) \div 100
    <2>1. attempt - 1 \in Nat /\ attempt - 1 + 2 <= policy.MaxAttempts
      <3>1. attempt > 0 /\ attempt \in 0 .. maxAttempts - 1
        BY <1>1 DEF IInv, LoopState, TypeOK, Backoff
      <3>2. policy.MaxAttempts \in Int
        BY <1>1, PolicyType DEF IInv, TypeOK
      <3> QED
        BY <3>1, <3>2 DEF maxAttempts
    <2>2. wait' \in Delays(attempt - 1, 0)
      BY <1>1 DEF Backoff
    <2>3. policy \in Policies
      BY <1>1 DEF IInv, TypeOK, NoRetry
    <2> QED
      BY <1>1, <2>1, <2>2, <2>3, DelaysCapped
  <1>2. IInv /\ [Next]_vars =>
           [(Backoff /\ policy.MaxBackoff > 0 /\ lastErr.retryAfter = 0) =>
               wait' <= policy.MaxBackoff
                           + (policy.MaxBackoff * policy.JitterPercent) \div 100]_vars
    BY <1>1
  <1> QED
    BY <1>2, Invariance, PTL DEF Spec, BackoffCapped

-----------------------------------------------------------------------------
(***************************************************************************)
(* Refinement, its safety part: the call is an at-least-once delivery.     *)
(***************************************************************************)

LEMMA InitRefines == Init => Delivery!Init
  BY PolicyType DEF Init, Delivery!Init

LEMMA SettleFails ==
  ASSUME IInv, pc \in {"building", "inflight"}, NEW err \in Error, Settle(err),
         UNCHANGED <<maxAttempts, sent, applied>>
  PROVE  [Delivery!Fail]_(Delivery!vars)
  <1>1. err # NoError
    BY NilIsNoError
  <1> QED
    BY <1>1 DEF Settle, Return, Delivery!Fail, Delivery!vars

LEMMA StepRefines == IInv /\ [Next]_vars => [Delivery!Next]_(Delivery!vars)
  <1> SUFFICES ASSUME IInv, [Next]_vars
               PROVE  [Delivery!Next]_(Delivery!vars)
    OBVIOUS
  <1> USE DEF argVars, loopVars, netVars, histVars
  <1>t. TypeOK /\ Counted /\ EffectsSent /\ ReplyState
    BY DEF IInv
  <1>k. maxAttempts' = maxAttempts
    BY PolicyKept
  <1>1. CASE Start
    <2>1. Plain("Config") # NoError
      BY PlainIsError DEF Sentinels
    <2> QED
      BY <1>1, <1>k, <2>1
         DEF Start, Return, Delivery!Fail, Delivery!Next, Delivery!vars
  <1>2. CASE Unsendable
    <2>1. badArgs \in Error
      BY <1>2, <1>t, BuildErrorType DEF Unsendable, TypeOK
    <2> QED
      BY <1>2, <1>k, <2>1, SettleFails DEF Unsendable, Delivery!Next
  <1>3. CASE Send
    <2>1. sent < maxAttempts
      BY <1>3, <1>t, PolicyType DEF Send, TypeOK, Counted
    <2> QED
      BY <1>3, <1>k, <2>1 DEF Send, Delivery!Send, Delivery!Next
  <1>4. CASE Refused
    BY <1>k, <1>4, AttemptErrors, SettleFails DEF Refused, Delivery!Next
  <1>5. CASE NoResponse \/ Broken
    BY <1>k, <1>5, AttemptErrors, SettleFails
       DEF NoResponse, Broken, Answered, FailWith, Delivery!Next
  <1>6. CASE Rejected
    <2>1. ApiError(reply) \in Error
      BY <1>6, <1>t, AttemptErrors DEF Rejected, Answered, TypeOK
    <2> QED
      BY <1>k, <1>6, <2>1, SettleFails
         DEF Rejected, Answered, FailWith, Delivery!Next
  <1>7. CASE Undecodable
    BY <1>k, <1>7, AttemptErrors, SettleFails
       DEF Undecodable, Answered, FailWith, Delivery!Next
  <1>8. CASE Accepted
    <2>1. reply \in Reply /\ reply # None /\ ~ (reply.status >= 400)
      BY <1>8, <1>t DEF Accepted, Answered, Failure, TypeOK
    <2>2. reply.status < 400
      BY <2>1 DEF Reply
    <2> QED
      BY <1>8, <1>k, <1>t, <2>1, <2>2
         DEF Accepted, Answered, Return, ReplyState, Delivery!Succeed,
             Delivery!Next
  <1>9. CASE Backoff \/ TimerFires
    BY <1>9, <1>k DEF Backoff, TimerFires, Delivery!vars
  <1>10. CASE SleepInterrupted
    <2>1. Plain(CtxError) # NoError
      BY PlainIsError
    <2> QED
      BY <1>10, <1>k, <2>1
         DEF SleepInterrupted, Return, Delivery!Fail, Delivery!Next
  <1>11. CASE ContextEnds \/ Tick
    BY <1>11, <1>k DEF ContextEnds, Tick, Delivery!vars
  <1>12. ASSUME NEW a \in network, NEW r \in Replies, Serve(a, r)
         PROVE  [Delivery!Next]_(Delivery!vars)
    <2>1. PICK e \in {0, 1} : applied' = applied + e
      BY <1>12 DEF Serve, Effects
    <2>2. UNCHANGED <<maxAttempts, sent, pc, result>>
      BY <1>12, <1>k DEF Serve
    <2>3. applied < sent
      <3>1. Cardinality(network) \in Nat /\ Cardinality(network) # 0
        BY <1>t, FS_EmptySet, FS_CardinalityType DEF EffectsSent
      <3> QED
        BY <3>1, <1>t DEF EffectsSent, TypeOK
    <2>4. CASE e = 1
      BY <2>1, <2>2, <2>3, <2>4 DEF Delivery!Apply, Delivery!Next
    <2>5. CASE e = 0
      BY <2>1, <2>2, <2>5, <1>t DEF Delivery!vars, TypeOK
    <2> QED
      BY <2>1, <2>4, <2>5
  <1>13. ASSUME NEW a \in network, LoseRequest(a)
         PROVE  UNCHANGED Delivery!vars
    BY <1>13, <1>k DEF LoseRequest, Delivery!vars
  <1>14. CASE UNCHANGED vars
    BY <1>14, <1>k DEF vars, Delivery!vars
  <1> QED
    BY <1>1, <1>2, <1>3, <1>4, <1>5, <1>6, <1>7, <1>8, <1>9, <1>10, <1>11,
       <1>12, <1>13, <1>14
       DEF Next, ClientStep

\* Whatever the policy, the server and the network, c.do sends at most
\* MaxAttempts requests and none after it returned, and its success means that
\* the operation took effect.
THEOREM Refinement == Spec => Delivery!Safety
  <1> QED
    BY InitRefines, StepRefines, Invariance, PTL
       DEF Spec, Delivery!Safety
=============================================================================
