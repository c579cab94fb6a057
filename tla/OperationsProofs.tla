-------------------------- MODULE OperationsProofs --------------------------
(***************************************************************************)
(* Proofs about Operations, for any callers, methods and attempts.         *)
(***************************************************************************)
EXTENDS Operations, FiniteSetTheorems, TLAPS

(***************************************************************************)
(* The inductive invariant, in named parts.                                *)
(***************************************************************************)

\* Where a call may be, with how many requests sent.
CallState ==
    \A c \in Callers :
        /\ pc[c] = "idle" => tries[c] = 0
        /\ pc[c] # "idle" => method[c] \in Methods
        /\ pc[c] = "ready" => tries[c] < Attempts
        /\ pc[c] \in {"waiting", "returned"} => tries[c] > 0
        /\ (pc[c] = "returned") <=> (result[c] # None)

\* A response is here only while its request is awaited, and was served.
ResponseState ==
    /\ \A c \in Callers, a \in 1 .. Attempts : <<c, a>> \in network => a <= tries[c]
    /\ \A c \in Callers :
          answer[c] # None => pc[c] = "waiting" /\ <<c, tries[c]>> \notin network

\* What the first request of a call has come to.
FirstRequest ==
    \A c \in Callers :
        /\ tries[c] = 0 => done[c] = 0
        /\ tries[c] = 1 /\ <<c, 1>> \in network => done[c] = 0
        /\ answer[c] # None /\ answer[c].status < 400 => done[c] >= 1
        /\ answer[c] # None /\ tries[c] = 1
              => done[c] = IF answer[c].status < 400 THEN 1 ELSE 0

\* A settled call has nothing under way, and has done what it says.
SettledOver ==
    \A c \in Callers :
        Settled(c) =>
            /\ \A a \in 1 .. Attempts : <<c, a>> \notin network
            /\ done[c] = IF Succeeded(c) THEN 1 ELSE 0

SuccessIsDone ==
    \A c \in Callers : pc[c] = "returned" /\ Succeeded(c) => done[c] >= 1

CallTypes ==
    /\ method \in [Callers -> Methods \cup {None}]
    /\ pc \in [Callers -> {"idle", "ready", "waiting", "returned"}]
    /\ tries \in [Callers -> 0 .. Attempts]
    /\ answer \in [Callers -> Response \cup {None}]
    /\ result \in [Callers -> Result \cup {None}]
    /\ network \subseteq Requests
    /\ done \in [Callers -> Nat]

\* The part that the server's data does not enter.
Shape ==
    /\ CallTypes
    /\ CallState
    /\ ResponseState
    /\ FirstRequest
    /\ SettledOver
    /\ SuccessIsDone

\* Requests carried out and requests under way were all sent.
Counted ==
    /\ IsFiniteSet(network)
    /\ \A c \in Callers :
          done[c] + Cardinality({a \in 1 .. Attempts : <<c, a>> \in network})
              <= tries[c]

\* A call under way has witnessed what is true now, and what its answer says.
Witnessed ==
    \A c \in Callers :
        /\ pc[c] \in {"ready", "waiting"} =>
              Seen(named, compacting) \subseteq witnessed[c]
        /\ answer[c] # None =>
              /\ answer[c].status < 400 =>
                    /\ Does(method[c]) = "remove" => "absent" \in witnessed[c]
                    /\ Does(method[c]) \in {"ensure", "replace", "amend"} =>
                          "present" \in witnessed[c]
                    /\ Does(method[c]) = "compact" =>
                          "compacting" \in witnessed[c]
              /\ answer[c].status \in {200, 401, 404, 409, 503}
              /\ answer[c].status = 404 => Does(method[c]) = "delete" \/ "absent" \in witnessed[c]
              /\ answer[c].status = 409 => "compacting" \in witnessed[c]

\* Once d has replaced the content it is not that of a call settled before d.
Ordered ==
    /\ \A c, d \in Callers :
          c \in before[d] => pc[c] = "returned" /\ pc[d] # "idle"
    /\ \A c, d \in Callers :
          (/\ c \in before[d] /\ Settled(c)
           /\ Does(method[d]) = "replace" /\ done[d] >= 1)
              => named # c

\* What an answer says was made or removed.
Told ==
    /\ IsFiniteSet(made)
    /\ \A c \in Callers :
          /\ tries[c] = 0 => removed[c] = 0
          /\ tries[c] = 1 /\ <<c, 1>> \in network => removed[c] = 0
          /\ answer[c] # None /\ answer[c].status < 400 =>
                /\ Does(method[c]) = "insert" => answer[c].got = tries[c]
                /\ Does(method[c]) \in {"sweep", "delete"} =>
                      /\ answer[c].got <= removed[c]
                      /\ tries[c] = 1 => answer[c].got = removed[c]

IInv ==
    /\ TypeOK
    /\ Shape
    /\ Counted
    /\ Witnessed
    /\ Ordered
    /\ Told
    /\ AnswersTrue
    /\ OrphansAreRetries
    /\ CountsHonest

-----------------------------------------------------------------------------
(***************************************************************************)
(* The server: what all its ways to serve a request have in common.        *)
(***************************************************************************)

Served(c, a, r) ==
    /\ Respond(c, a, r)
    /\ r \in Response
    /\ r.status \in {200, 401, 404, 409, 503}
    /\ named' \in {named, None, c}
    /\ made' \subseteq made \cup {<<c, a>>}
    /\ compacting' \in BOOLEAN
    /\ witnessed' \in [Callers -> SUBSET Facts]
    /\ \A d \in Callers :
          /\ witnessed[d] \subseteq witnessed'[d]
          /\ pc[d] \in {"ready", "waiting"} =>
                Seen(named', compacting') \subseteq witnessed'[d]
    /\ removed' \in [Callers -> Nat]
    /\ \A d \in Callers :
          /\ removed[d] <= removed'[d]
          /\ d # c => removed'[d] = removed[d]
    /\ r.status = 404 => Does(method[c]) = "delete" \/ named = None
    /\ r.status = 409 => "compacting" \in Seen(named, compacting)
    /\ r.status < 400 =>
          /\ Does(method[c]) = "remove" => named' = None
          /\ Does(method[c]) \in {"ensure", "amend"} => named' # None
          /\ Does(method[c]) = "replace" => named' = c
          /\ Does(method[c]) = "compact" =>
                "compacting" \in Seen(named', compacting')
          /\ Does(method[c]) = "insert" => r.got = a
          /\ Does(method[c]) \in {"sweep", "delete"} => removed'[c] = removed[c] + r.got

LEMMA OkType ==
  ASSUME NEW got \in Nat
  PROVE  Ok(got) \in Response /\ Ok(got).status = 200 /\ Ok(got).got = got
  BY DEF Ok, Response, Codes

LEMMA RefusalType ==
  ASSUME NEW status \in {401, 404, 409, 503}, NEW code \in Codes
  PROVE  Refusal(status, code) \in Response /\ Refusal(status, code).status = status
  BY DEF Refusal, Response

LEMMA SeenType ==
  ASSUME NEW n, NEW k
  PROVE  Seen(n, k) \subseteq Facts
  BY DEF Seen, Facts

LEMMA ServeIsServed ==
  ASSUME TypeOK, Witnessed, Told, NEW c \in Callers, NEW a \in 1 .. Attempts,
         <<c, a>> \in network, Serve(c, a)
  PROVE  \E r : Served(c, a, r)
  <1> USE OperationsAssumption
  <1>0. Cardinality(made) \in Nat
    BY FS_CardinalityType DEF Told
  <1>a. ASSUME UNCHANGED <<removed, witnessed>>, UNCHANGED <<named, compacting>>
        PROVE  /\ witnessed' \in [Callers -> SUBSET Facts]
               /\ \A d \in Callers :
                     /\ witnessed[d] \subseteq witnessed'[d]
                     /\ pc[d] \in {"ready", "waiting"} =>
                           Seen(named', compacting') \subseteq witnessed'[d]
               /\ removed' \in [Callers -> Nat]
               /\ \A d \in Callers : removed'[d] = removed[d]
               /\ \A d \in Callers : removed[d] <= removed'[d]
               /\ compacting' \in BOOLEAN
    BY <1>a DEF TypeOK, Witnessed
  <1>b. ASSUME NEW n, NEW k, Witness(n, k), n = named', k = compacting'
        PROVE  /\ witnessed' \in [Callers -> SUBSET Facts]
               /\ \A d \in Callers :
                     /\ witnessed[d] \subseteq witnessed'[d]
                     /\ pc[d] \in {"ready", "waiting"} =>
                           Seen(named', compacting') \subseteq witnessed'[d]
    BY <1>b, SeenType DEF TypeOK, Witness
  <1>c. ASSUME UNCHANGED removed
        PROVE  /\ removed' \in [Callers -> Nat]
               /\ \A d \in Callers : removed[d] <= removed'[d]
               /\ \A d \in Callers : removed'[d] = removed[d]
    BY <1>c DEF TypeOK
  <1>d. Ok(0) \in Response /\ Ok(0).status = 200
    BY OkType
  <1>1. CASE Refuse(c, a)
    <2>1. PICK r \in {Refusal(503, "index_building"), Refusal(401, "other")} :
             Respond(c, a, r)
      BY <1>1 DEF Refuse
    <2>2. "index_building" \in Codes /\ "other" \in Codes
      BY DEF Codes
    <2>3. r \in Response /\ r.status \in {401, 503}
      BY <2>2, RefusalType
    <2>4. Served(c, a, r)
      BY <1>1, <1>a, <2>1, <2>3 DEF Refuse, Served, serverVars
    <2> QED
      BY <2>4
  <1>2. CASE Read(c, a)
    <2>1. Served(c, a, Ok(0))
      BY <1>2, <1>a, <1>d DEF Read, Served, serverVars
    <2> QED
      BY <2>1
  <1>3. CASE Insert(c, a)
    <2>1. Ok(a) \in Response /\ Ok(a).status = 200 /\ Ok(a).got = a
      BY OkType
    <2>2. Served(c, a, Ok(a))
      BY <1>3, <1>a, <2>1 DEF Insert, Served
    <2> QED
      BY <2>2
  <1>4. CASE Sweep(c, a)
    <2>1. /\ removed' \in [Callers -> Nat]
          /\ removed'[c] = removed[c] + Cardinality(made)
          /\ \A d \in Callers : d # c => removed'[d] = removed[d]
          /\ \A d \in Callers : removed[d] <= removed'[d]
      BY <1>0, <1>4 DEF Sweep, TypeOK
    <2>2. /\ witnessed' \in [Callers -> SUBSET Facts]
          /\ \A d \in Callers :
                /\ witnessed[d] \subseteq witnessed'[d]
                /\ pc[d] \in {"ready", "waiting"} =>
                      Seen(named', compacting') \subseteq witnessed'[d]
          /\ compacting' \in BOOLEAN
      BY <1>4 DEF Sweep, TypeOK, Witnessed
    <2>3. /\ Ok(Cardinality(made)) \in Response
          /\ Ok(Cardinality(made)).status = 200
          /\ Ok(Cardinality(made)).got = Cardinality(made)
      BY <1>0, OkType
    <2>4. Served(c, a, Ok(Cardinality(made)))
      BY <1>4, <2>1, <2>2, <2>3 DEF Sweep, Served
    <2> QED
      BY <2>4
  <1>12. CASE Delete(c, a)
    <2> DEFINE gone == made \cap Given(c)
    <2>1. Cardinality(gone) \in Nat
      <3>1. IsFiniteSet(gone)
        BY FS_Intersection DEF Told
      <3> QED
        BY <3>1, FS_CardinalityType
    <2>2. PICK r \in {Ok(Cardinality(gone)), Refusal(404, "other")} :
             /\ Respond(c, a, r)
             /\ r = Ok(Cardinality(gone)) \/ gone = {}
      BY <1>12 DEF Delete
    <2>3. /\ removed' = [removed EXCEPT ![c] = @ + Cardinality(gone)]
          /\ made' = made \ gone
          /\ UNCHANGED <<named, compacting, witnessed>>
          /\ Does(method[c]) = "delete"
      BY <1>12 DEF Delete
    <2> HIDE DEF gone
    <2>4. /\ removed' \in [Callers -> Nat]
          /\ removed'[c] = removed[c] + Cardinality(gone)
          /\ \A d \in Callers : d # c => removed'[d] = removed[d]
          /\ \A d \in Callers : removed[d] <= removed'[d]
      BY <2>1, <2>3 DEF TypeOK
    <2>5. /\ witnessed' \in [Callers -> SUBSET Facts]
          /\ \A d \in Callers :
                /\ witnessed[d] \subseteq witnessed'[d]
                /\ pc[d] \in {"ready", "waiting"} =>
                      Seen(named', compacting') \subseteq witnessed'[d]
          /\ compacting' \in BOOLEAN
      BY <2>3 DEF TypeOK, Witnessed
    <2>6. "other" \in Codes
      BY DEF Codes
    <2>7. /\ r \in Response /\ r.status \in {200, 404}
          /\ r.status < 400 => r.got = Cardinality(gone)
      BY <2>1, <2>2, <2>6, OkType, RefusalType
    <2>8. Served(c, a, r)
      BY <2>2, <2>3, <2>4, <2>5, <2>7 DEF Served
    <2> QED
      BY <2>8
  <1>5. CASE Ensure(c, a)
    <2>1. Served(c, a, Ok(0))
      BY <1>5, <1>b, <1>c, <1>d DEF Ensure, Served, TypeOK
    <2> QED
      BY <2>1
  <1>6. CASE Replace(c, a)
    <2>1. Served(c, a, Ok(0))
      BY <1>6, <1>b, <1>c, <1>d DEF Replace, Served, TypeOK
    <2> QED
      BY <2>1
  <1>7. CASE Amend(c, a)
    <2> DEFINE r == IF named = None THEN Refusal(404, "other") ELSE Ok(0)
    <2>1. "other" \in Codes
      BY DEF Codes
    <2>2. /\ r \in Response /\ r.status \in {200, 404}
          /\ r.status = 404 <=> named = None
      BY <1>d, <2>1, RefusalType
    <2>3. Respond(c, a, r)
      BY <1>7 DEF Amend
    <2> HIDE DEF r
    <2>4. Served(c, a, r)
      BY <1>7, <1>b, <1>c, <2>2, <2>3 DEF Amend, Served, TypeOK
    <2> QED
      BY <2>4
  <1>8. CASE Remove(c, a)
    <2>1. PICK r \in {Ok(0), Refusal(404, "other")} :
             Respond(c, a, r) /\ (r = Ok(0) \/ named = None)
      BY <1>8 DEF Remove
    <2>2. "other" \in Codes
      BY DEF Codes
    <2>3. r \in Response /\ r.status \in {200, 404} /\ (r.status = 404 => named = None)
      BY <1>d, <2>1, <2>2, RefusalType
    <2>4. Served(c, a, r)
      BY <1>8, <1>b, <1>c, <2>1, <2>3 DEF Remove, Served, TypeOK
    <2> QED
      BY <2>4
  <1>9. CASE InProgress(c, a)
    <2>1. PICK code \in {"other", "compact_in_progress"} :
             Respond(c, a, Refusal(409, code))
      BY <1>9 DEF InProgress
    <2>2. code \in Codes
      BY DEF Codes
    <2>3. Refusal(409, code) \in Response /\ Refusal(409, code).status = 409
      BY <2>2, RefusalType
    <2>4. "compacting" \in Seen(named, compacting)
      BY <1>9 DEF InProgress, Seen
    <2> DEFINE r == Refusal(409, code)
    <2>5. Respond(c, a, r) /\ r \in Response /\ r.status = 409
      BY <2>1, <2>3
    <2> HIDE DEF r
    <2>6. UNCHANGED <<named, made, compacting, removed, witnessed>>
      BY <1>9 DEF InProgress, serverVars
    <2>7. /\ witnessed' \in [Callers -> SUBSET Facts]
          /\ \A d \in Callers :
                /\ witnessed[d] \subseteq witnessed'[d]
                /\ pc[d] \in {"ready", "waiting"} =>
                      Seen(named', compacting') \subseteq witnessed'[d]
          /\ compacting' \in BOOLEAN
      BY <1>a, <2>6
    <2>8. removed' \in [Callers -> Nat] /\ (\A d \in Callers :
             removed[d] <= removed'[d] /\ removed'[d] = removed[d])
      BY <1>a, <2>6
    <2>9. Served(c, a, r)
      BY <2>4, <2>5, <2>6, <2>7, <2>8 DEF Served
    <2> QED
      BY <2>9
  <1>10. CASE Compact(c, a)
    <2>1. /\ Respond(c, a, Ok(0))
          /\ Does(method[c]) = "compact"
          /\ UNCHANGED <<named, made, removed>>
      BY <1>10 DEF Compact
    <2>5. compacting' = TRUE /\ Witness(named', compacting')
      BY <1>10 DEF Compact
    <2>2. /\ witnessed' \in [Callers -> SUBSET Facts]
          /\ \A d \in Callers :
                /\ witnessed[d] \subseteq witnessed'[d]
                /\ pc[d] \in {"ready", "waiting"} =>
                      Seen(named', compacting') \subseteq witnessed'[d]
      BY <1>b, <2>5
    <2>3. compacting' \in BOOLEAN /\ "compacting" \in Seen(named', compacting')
      BY <2>5 DEF Seen
    <2>4. Served(c, a, Ok(0))
      BY <1>c, <1>d, <2>1, <2>2, <2>3 DEF Served
    <2> QED
      BY <2>4
  <1>11. CASE Rebuild(c, a)
    <2>1. Served(c, a, Ok(0))
      BY <1>11, <1>a, <1>d DEF Rebuild, Served, serverVars
    <2> QED
      BY <2>1
  <1> QED
    BY <1>1, <1>2, <1>3, <1>4, <1>5, <1>6, <1>7, <1>8, <1>9, <1>10, <1>11, <1>12
    DEF Serve

LEMMA RespondKeepsShape ==
  ASSUME Shape, NEW c \in Callers, NEW a \in 1 .. Attempts,
         <<c, a>> \in network, NEW r \in Response, Respond(c, a, r)
  PROVE  Shape'
  <1> USE OperationsAssumption
  <1>0. /\ UNCHANGED <<method, pc, tries, result>>
        /\ network' = network \ {<<c, a>>}
        /\ answer' = IF pc[c] = "waiting" /\ tries[c] = a
                     THEN [answer EXCEPT ![c] = r] ELSE answer
        /\ done' = IF r.status < 400 THEN [done EXCEPT ![c] = @ + 1] ELSE done
        /\ r.status \in 200 .. 599
    BY DEF Respond, Response
  <1>1. CallTypes'
    BY <1>0 DEF Shape, CallTypes
  <1>2. CallState'
    BY <1>0 DEF Shape, CallState
  <1>3. ResponseState'
    BY <1>0 DEF Shape, CallTypes, ResponseState
  <1>4. FirstRequest'
    <2> SUFFICES ASSUME NEW d \in Callers
                 PROVE  /\ tries[d] = 0 => done'[d] = 0
                        /\ tries[d] = 1 /\ <<d, 1>> \in network' => done'[d] = 0
                        /\ answer'[d] # None /\ answer'[d].status < 400
                              => done'[d] >= 1
                        /\ answer'[d] # None /\ tries[d] = 1
                              => done'[d] = IF answer'[d].status < 400 THEN 1 ELSE 0
      BY <1>0 DEF FirstRequest
    <2>1. CASE d # c
      BY <1>0, <2>1 DEF Shape, CallTypes, FirstRequest
    <2>2. CASE d = c
      <3>1. a <= tries[c] /\ tries[c] \in Nat /\ done[c] \in Nat
        BY DEF Shape, ResponseState, CallTypes
      <3>2. answer[c] # None => a # tries[c]
        BY DEF Shape, ResponseState
      <3>3. tries[c] = 1 => a = 1 /\ done[c] = 0
        BY <3>1 DEF Shape, FirstRequest
      <3>4. r # None
        OBVIOUS
      <3>5. done'[c] = IF r.status < 400 THEN done[c] + 1 ELSE done[c]
        BY <1>0 DEF Shape, CallTypes
      <3>6. answer'[c] = IF pc[c] = "waiting" /\ tries[c] = a THEN r ELSE answer[c]
        BY <1>0 DEF Shape, CallTypes
      <3>7. tries[c] = 1 => answer[c] = None /\ <<c, 1>> \notin network'
        BY <1>0, <3>2, <3>3
      <3>8. answer[c] # None /\ answer[c].status < 400 => done[c] >= 1
        BY DEF Shape, FirstRequest
      <3> QED
        BY <1>0, <2>2, <3>1, <3>3, <3>4, <3>5, <3>6, <3>7, <3>8
    <2> QED
      BY <2>1, <2>2
  <1>5. SettledOver'
    <2> SUFFICES ASSUME NEW d \in Callers, Settled(d)
                 PROVE  /\ \A b \in 1 .. Attempts : <<d, b>> \notin network'
                        /\ done'[d] = IF Succeeded(d) THEN 1 ELSE 0
      BY <1>0 DEF SettledOver, Settled, Succeeded
    <2>1. /\ \A b \in 1 .. Attempts : <<d, b>> \notin network
          /\ done[d] = IF Succeeded(d) THEN 1 ELSE 0
      BY DEF Shape, SettledOver
    <2>2. d # c
      BY <2>1
    <2> QED
      BY <1>0, <2>1, <2>2 DEF Shape, CallTypes
  <1>6. SuccessIsDone'
    BY <1>0 DEF Shape, CallTypes, SuccessIsDone, Succeeded
  <1> QED
    BY <1>1, <1>2, <1>3, <1>4, <1>5, <1>6 DEF Shape

LEMMA RespondKeepsCounted ==
  ASSUME Shape, Counted, NEW c \in Callers, NEW a \in 1 .. Attempts,
         <<c, a>> \in network, NEW r \in Response, Respond(c, a, r)
  PROVE  Counted'
  <1> DEFINE Open(d)  == {b \in 1 .. Attempts : <<d, b>> \in network}
             Open1(d) == {b \in 1 .. Attempts : <<d, b>> \in network'}
  <1>0. /\ tries' = tries /\ network' = network \ {<<c, a>>}
        /\ done' = IF r.status < 400 THEN [done EXCEPT ![c] = @ + 1] ELSE done
    BY DEF Respond
  <1>1. IsFiniteSet(network')
    BY <1>0, FS_RemoveElement DEF Counted
  <1>2. ASSUME NEW d \in Callers
        PROVE  done'[d] + Cardinality(Open1(d)) <= tries[d]
    <2>1. IsFiniteSet(Open(d)) /\ Cardinality(Open(d)) \in Nat
      <3>1. IsFiniteSet(1 .. Attempts)
        BY OperationsAssumption, FS_Interval
      <3>2. Open(d) \subseteq 1 .. Attempts
        OBVIOUS
      <3> HIDE DEF Open
      <3> QED
        BY <3>1, <3>2, FS_Subset, FS_CardinalityType
    <2>2. done[d] + Cardinality(Open(d)) <= tries[d] /\ done[d] \in Nat
          /\ tries[d] \in Nat
      BY DEF Counted, Shape, CallTypes
    <2>3. CASE d # c
      <3>1. Open1(d) = Open(d)
        BY <1>0, <2>3
      <3>2. done'[d] = done[d]
        BY <1>0, <2>3 DEF Shape, CallTypes
      <3> QED
        BY <2>2, <3>1, <3>2
    <2>4. CASE d = c
      <3>1. Open1(d) = Open(d) \ {a} /\ a \in Open(d)
        BY <1>0, <2>4
      <3>2. Cardinality(Open1(d)) = Cardinality(Open(d)) - 1
        BY <2>1, <3>1, FS_RemoveElement
      <3>3. done'[d] <= done[d] + 1 /\ done'[d] \in Nat
        BY <1>0, <2>2, <2>4 DEF Shape, CallTypes
      <3> HIDE DEF Open, Open1
      <3> QED
        BY <2>1, <2>2, <3>2, <3>3
    <2> QED
      BY <2>3, <2>4
  <1> QED
    BY <1>0, <1>1, <1>2 DEF Counted

\* However a request is served, the invariant is kept.
LEMMA ServedKeeps ==
  ASSUME IInv, NEW c \in Callers, NEW a \in 1 .. Attempts,
         <<c, a>> \in network, NEW r, Served(c, a, r)
  PROVE  IInv'
  <1> USE OperationsAssumption
  <1>0. /\ UNCHANGED <<method, pc, tries, result, before>>
        /\ network' = network \ {<<c, a>>}
        /\ answer' = IF pc[c] = "waiting" /\ tries[c] = a
                     THEN [answer EXCEPT ![c] = r] ELSE answer
        /\ done' = IF r.status < 400 THEN [done EXCEPT ![c] = @ + 1] ELSE done
        /\ r.status \in 200 .. 599
        /\ Respond(c, a, r) /\ r \in Response
    BY DEF Served, Respond, Response
  <1>1. Shape'
    BY <1>0, RespondKeepsShape DEF IInv
  <1>2. Counted'
    BY <1>0, RespondKeepsCounted DEF IInv
  <1>3. TypeOK'
    <2>1. named' \in Callers \cup {None} /\ made' \subseteq Requests
          /\ before' \in [Callers -> SUBSET Callers]
      BY <1>0 DEF IInv, TypeOK, Served, Requests
    <2>2. /\ compacting' \in BOOLEAN
          /\ removed' \in [Callers -> Nat]
          /\ witnessed' \in [Callers -> SUBSET Facts]
      BY DEF Served
    <2> QED
      BY <1>1, <2>1, <2>2 DEF Shape, CallTypes, TypeOK
  <1>a. \A d \in Callers : answer'[d] = IF d = c /\ pc[c] = "waiting" /\ tries[c] = a
                                        THEN r ELSE answer[d]
    BY <1>0 DEF IInv, TypeOK
  <1>4. Witnessed'
    <2> SUFFICES ASSUME NEW d \in Callers
                 PROVE  /\ pc[d] \in {"ready", "waiting"} =>
                              Seen(named', compacting') \subseteq witnessed'[d]
                        /\ answer'[d] # None =>
                           /\ answer'[d].status < 400 =>
                              /\ Does(method[d]) = "remove" => "absent" \in witnessed'[d]
                              /\ Does(method[d]) \in {"ensure", "replace", "amend"} =>
                                    "present" \in witnessed'[d]
                              /\ Does(method[d]) = "compact" =>
                                    "compacting" \in witnessed'[d]
                           /\ answer'[d].status \in {200, 401, 404, 409, 503}
                           /\ answer'[d].status = 404 => Does(method[d]) = "delete" \/ "absent" \in witnessed'[d]
                           /\ answer'[d].status = 409 => "compacting" \in witnessed'[d]
      BY <1>0 DEF Witnessed
    <2>1. /\ witnessed[d] \subseteq witnessed'[d]
          /\ pc[d] \in {"ready", "waiting"} =>
                Seen(named', compacting') \subseteq witnessed'[d]
      BY DEF Served
    <2>2. CASE answer'[d] = answer[d]
      BY <2>1, <2>2 DEF IInv, Witnessed
    <2>3. CASE d = c /\ pc[c] = "waiting" /\ answer'[d] = r
      <3>1. /\ Seen(named', compacting') \subseteq witnessed'[c]
            /\ Seen(named, compacting) \subseteq witnessed'[c]
        BY <2>1, <2>3 DEF IInv, Witnessed
      <3>2. /\ named = None => "absent" \in Seen(named, compacting)
            /\ named' = None => "absent" \in Seen(named', compacting')
            /\ named' # None => "present" \in Seen(named', compacting')
        BY DEF Seen
      <3>3. Does(method[c]) = "replace" /\ r.status < 400 => named' # None
        BY DEF Served
      <3> QED
        BY <2>1, <2>3, <3>1, <3>2, <3>3 DEF Served
    <2> QED
      BY <1>a, <2>2, <2>3
  <1>5. Ordered'
    <2>1. \A e, d \in Callers : e \in before[d] => pc[e] = "returned" /\ pc[d] # "idle"
      BY DEF IInv, Ordered
    <2> SUFFICES ASSUME NEW e \in Callers, NEW d \in Callers,
                        e \in before[d], Settled(e),
                        Does(method[d]) = "replace", done'[d] >= 1
                 PROVE  named' # e
      BY <1>0, <2>1 DEF Ordered, Settled
    <2>2. e # c
      BY DEF IInv, Shape, SettledOver
    <2>3. CASE done[d] >= 1
      <3>1. named # e
        BY <2>3 DEF IInv, Ordered
      <3> QED
        BY <2>2, <3>1 DEF Served
    <2>4. CASE ~ (done[d] >= 1)
      <3>1. d = c /\ r.status < 400
        BY <1>0, <2>4 DEF IInv, TypeOK
      <3>2. named' = c
        BY <3>1 DEF Served
      <3> QED
        BY <2>2, <3>2
    <2> QED
      BY <2>3, <2>4
  <1>6. Told'
    <2>1. IsFiniteSet(made')
      <3>1. IsFiniteSet(made \cup {<<c, a>>})
        BY FS_AddElement DEF IInv, Told
      <3> QED
        BY <3>1, FS_Subset DEF Served
    <2> SUFFICES ASSUME NEW d \in Callers
                 PROVE  /\ tries[d] = 0 => removed'[d] = 0
                        /\ tries[d] = 1 /\ <<d, 1>> \in network' => removed'[d] = 0
                        /\ answer'[d] # None /\ answer'[d].status < 400 =>
                              /\ Does(method[d]) = "insert" => answer'[d].got = tries[d]
                              /\ Does(method[d]) \in {"sweep", "delete"} =>
                                    /\ answer'[d].got <= removed'[d]
                                    /\ tries[d] = 1 => answer'[d].got = removed'[d]
      BY <1>0, <2>1 DEF Told
    <2>2. CASE d # c
      <3>1. removed'[d] = removed[d] /\ answer'[d] = answer[d]
        BY <1>a, <2>2 DEF Served
      <3> QED
        BY <1>0, <3>1 DEF IInv, Told
    <2>3. CASE d = c
      <3>1. /\ a <= tries[c] /\ tries[c] \in Nat
            /\ answer[c] # None => a # tries[c]
        BY DEF IInv, Shape, CallTypes, ResponseState
      <3>2. tries[c] = 1 => a = 1 /\ removed[c] = 0 /\ answer[c] = None
        BY <3>1 DEF IInv, Told
      <3>3. removed[c] \in Nat /\ removed'[c] \in Nat /\ removed[c] <= removed'[c]
        BY DEF IInv, TypeOK, Served
      <3>4. tries[c] = 1 => <<c, 1>> \notin network'
        BY <1>0, <3>2
      <3>5. CASE answer'[c] = answer[c]
        <4>1. answer[c] # None /\ answer[c].status < 400 =>
                 /\ answer[c] \in Response
                 /\ Does(method[c]) = "insert" => answer[c].got = tries[c]
                 /\ Does(method[c]) \in {"sweep", "delete"} => answer[c].got <= removed[c]
          BY DEF IInv, TypeOK, Told
        <4>2. answer[c] \in Response => answer[c].got \in Nat
          BY DEF Response
        <4>3. ~ (tries[c] = 1 /\ answer'[c] # None)
          BY <3>2, <3>5
        <4> QED
          BY <2>3, <3>1, <3>3, <3>4, <3>5, <4>1, <4>2, <4>3
      <3>6. CASE answer'[c] = r /\ tries[c] = a
        <4>1. r.got \in Nat
          BY <1>0 DEF Response
        <4>2. r.status < 400 =>
                 /\ Does(method[c]) = "insert" => r.got = a
                 /\ Does(method[c]) \in {"sweep", "delete"} => removed'[c] = removed[c] + r.got
          BY DEF Served
        <4> QED
          BY <2>3, <3>1, <3>2, <3>3, <3>4, <3>6, <4>1, <4>2
      <3> QED
        BY <1>a, <3>5, <3>6
    <2> QED
      BY <2>2, <2>3
  <1>7. AnswersTrue'
    <2>1. \A d \in Callers : witnessed[d] \subseteq witnessed'[d]
      BY DEF Served
    <2> QED
      BY <1>0, <2>1 DEF IInv, AnswersTrue, Returned, Succeeded, Matches
  <1>8. OrphansAreRetries'
    <2>1. SettledOver' /\ SuccessIsDone'
      BY <1>1 DEF Shape
    <2>2. \A d \in Callers :
             Returned(d, {"insert"}) /\ Succeeded(d) => result[d].got = tries[d]
      BY DEF IInv, OrphansAreRetries
    <2> QED
      BY <1>0, <2>1, <2>2
      DEF OrphansAreRetries, SettledOver, SuccessIsDone, Settled, Returned, Succeeded
  <1>9. CountsHonest'
    <2> SUFFICES ASSUME NEW d \in Callers, Returned(d, {"sweep", "delete"}), Succeeded(d)
                 PROVE  /\ result[d].got <= removed'[d]
                        /\ tries[d] = 1 => result[d].got = removed'[d]
      BY <1>0 DEF CountsHonest, Returned, Succeeded
    <2>1. /\ result[d].got <= removed[d]
          /\ tries[d] = 1 => result[d].got = removed[d]
      BY DEF IInv, CountsHonest
    <2>2. result[d].got \in Nat /\ removed[d] \in Nat /\ removed'[d] \in Nat
          /\ removed[d] <= removed'[d]
      <3>1. result[d] \in Result
        BY DEF IInv, TypeOK, Shape, CallState, Returned
      <3> QED
        BY <3>1 DEF IInv, TypeOK, Served, Result
    <2>3. tries[d] = 1 => d # c
      BY DEF IInv, Shape, SettledOver, Settled, Succeeded, Returned
    <2>4. d # c => removed'[d] = removed[d]
      BY DEF Served
    <2> QED
      BY <2>1, <2>2, <2>3, <2>4
  <1> QED
    BY <1>1, <1>2, <1>3, <1>4, <1>5, <1>6, <1>7, <1>8, <1>9 DEF IInv

-----------------------------------------------------------------------------
(***************************************************************************)
(* The calls.                                                              *)
(***************************************************************************)

LEMMA MostTriesBound ==
  ASSUME NEW m
  PROVE  MostTries(m) \in Nat /\ MostTries(m) <= Attempts
  BY OperationsAssumption DEF MostTries

LEMMA SentinelTells ==
  ASSUME NEW status \in Int, NEW code
  PROVE  LET s == SentinelFor(status, code)
         IN  /\ s \in Sentinels \ {"Network"}
             /\ s = "NotFound" => status = 404
             /\ s \in {"Conflict", "CompactInProgress"} => status = 409
  BY DEF SentinelFor, Sentinels

\* What the sentinels of a rejected request tell of its status.
LEMMA JoinedTells ==
  ASSUME NEW m, NEW r \in Response, r.status \in {401, 404, 409, 503}
  PROVE  /\ Joined(m, r) \subseteq Sentinels
         /\ Joined(m, r) # {}
         /\ "NotFound" \in Joined(m, r) => r.status = 404
         /\ "Conflict" \in Joined(m, r) => r.status = 409
         /\ "CompactInProgress" \in Joined(m, r) => r.status = 409
  <1>1. /\ SentinelFor(r.status, r.code) \in Sentinels \ {"Network"}
        /\ SentinelFor(r.status, r.code) = "NotFound" => r.status = 404
        /\ SentinelFor(r.status, r.code) \in {"Conflict", "CompactInProgress"}
              => r.status = 409
    BY SentinelTells DEF Response
  <1> QED
    BY <1>1 DEF Joined, Sentinels, CtxError

LEMMA FirstRequestStays ==
  ASSUME FirstRequest, UNCHANGED <<tries, done, network>>,
         \A d \in Callers : answer'[d] # None => answer'[d] = answer[d]
  PROVE  FirstRequest'
  <1> SUFFICES ASSUME NEW d \in Callers
               PROVE  /\ tries[d] = 0 => done[d] = 0
                      /\ tries[d] = 1 /\ <<d, 1>> \in network => done[d] = 0
                      /\ answer'[d] # None /\ answer'[d].status < 400
                            => done[d] >= 1
                      /\ answer'[d] # None /\ tries[d] = 1
                            => done[d] = IF answer'[d].status < 400 THEN 1 ELSE 0
    BY DEF FirstRequest
  <1> QED
    BY DEF FirstRequest

\* The steps of calls that change nothing but where the call is.
LEMMA ReturnKeeps ==
  ASSUME IInv, NEW c \in Callers, pc[c] \in {"ready", "waiting"}, tries[c] > 0,
         NEW q \in Result,
         pc' = [pc EXCEPT ![c] = "returned"],
         result' = [result EXCEPT ![c] = q],
         answer' = [answer EXCEPT ![c] = None],
         UNCHANGED <<method, tries, network, serverVars, histVars>>,
         q.is = {} => answer[c] # None /\ q.got = answer[c].got,
         q.is \cap InDoubt = {} =>
            answer[c] # None /\ (q.is = {} <=> answer[c].status < 400),
         "NotFound" \in q.is => Does(method[c]) = "delete" \/ "absent" \in witnessed[c],
         "Conflict" \in q.is => "compacting" \in witnessed[c],
         "CompactInProgress" \in q.is => "compacting" \in witnessed[c]
  PROVE  IInv'
  <1> USE OperationsAssumption
  <1>0. /\ UNCHANGED <<method, tries, network, named, made, compacting>>
        /\ UNCHANGED <<done, removed, witnessed, before>>
    BY DEF serverVars, histVars
  <1>a. q # None
    OBVIOUS
  <1>b. \A d \in Callers :
           /\ pc'[d] = IF d = c THEN "returned" ELSE pc[d]
           /\ result'[d] = IF d = c THEN q ELSE result[d]
           /\ answer'[d] = IF d = c THEN None ELSE answer[d]
    BY DEF IInv, TypeOK
  <1>c. q.is = {} => answer[c] # None /\ answer[c].status < 400
    OBVIOUS
  <1>1. TypeOK'
    BY <1>0 DEF IInv, TypeOK
  <1>2. CallTypes' /\ CallState' /\ ResponseState' /\ FirstRequest'
    <2>1. CallTypes'
      BY <1>1 DEF TypeOK, CallTypes
    <2>2. CallState'
      BY <1>0, <1>a, <1>b DEF IInv, Shape, CallState
    <2>3. ResponseState'
      BY <1>0, <1>b DEF IInv, Shape, ResponseState
    <2>4. FirstRequest'
      <3>1. FirstRequest
        BY DEF IInv, Shape
      <3>2. \A d \in Callers : answer'[d] # None => answer'[d] = answer[d]
        BY <1>b
      <3> QED
        BY <1>0, <3>1, <3>2, FirstRequestStays
    <2> QED
      BY <2>1, <2>2, <2>3, <2>4
  <1>3. SettledOver'
    <2> SUFFICES ASSUME NEW d \in Callers, Settled(d)'
                 PROVE  /\ \A a \in 1 .. Attempts : <<d, a>> \notin network
                        /\ done[d] = IF result'[d].is = {} THEN 1 ELSE 0
      BY <1>0 DEF SettledOver, Succeeded
    <2>1. CASE d # c
      <3>1. Settled(d)
        BY <1>0, <1>b, <2>1 DEF Settled
      <3> QED
        BY <1>b, <2>1, <3>1 DEF IInv, Shape, SettledOver, Succeeded
    <2>2. CASE d = c
      <3>1. tries[c] = 1 /\ q.is \cap InDoubt = {}
        BY <1>0, <1>b, <2>2 DEF Settled
      <3>2. answer[c] # None /\ (q.is = {} <=> answer[c].status < 400)
        BY <3>1
      <3>3. <<c, 1>> \notin network
        BY <3>1, <3>2 DEF IInv, Shape, ResponseState
      <3>4. \A a \in 1 .. Attempts : <<c, a>> \in network => a <= 1
        BY <3>1 DEF IInv, Shape, ResponseState
      <3>5. \A a \in 1 .. Attempts : a <= 1 => a = 1
        OBVIOUS
      <3>6. done[c] = IF answer[c].status < 400 THEN 1 ELSE 0
        BY <3>1, <3>2 DEF IInv, Shape, FirstRequest
      <3>7. \A a \in 1 .. Attempts : <<c, a>> \notin network
        BY <3>3, <3>4, <3>5
      <3>8. done[c] = IF q.is = {} THEN 1 ELSE 0
        BY <3>2, <3>6
      <3>9. result'[c].is = q.is
        BY <1>b
      <3> QED
        BY <2>2, <3>7, <3>8, <3>9
    <2> QED
      BY <2>1, <2>2
  <1>4. SuccessIsDone'
    <2> SUFFICES ASSUME NEW d \in Callers, pc'[d] = "returned", result'[d].is = {}
                 PROVE  done[d] >= 1
      BY <1>0 DEF SuccessIsDone, Succeeded
    <2>1. SuccessIsDone /\ FirstRequest
      BY DEF IInv, Shape
    <2>2. CASE d = c
      BY <1>b, <1>c, <2>1, <2>2 DEF FirstRequest
    <2>3. CASE d # c
      BY <1>b, <2>1, <2>3 DEF SuccessIsDone, Succeeded
    <2> QED
      BY <2>2, <2>3
  <1>5. Shape'
    BY <1>2, <1>3, <1>4 DEF Shape
  <1>6. Counted' /\ Witnessed' /\ Told'
    <2>1. Counted'
      BY <1>0 DEF IInv, Counted
    <2>2. Witnessed'
      BY <1>0, <1>b DEF IInv, Witnessed
    <2>3. Told'
      BY <1>0, <1>b DEF IInv, Told
    <2> QED
      BY <2>1, <2>2, <2>3
  <1>7. Ordered'
    <2>1. \A e, d \in Callers :
             e \in before[d] => pc[e] = "returned" /\ pc[d] # "idle"
      BY DEF IInv, Ordered
    <2>2. \A e, d \in Callers :
             e \in before'[d] => pc'[e] = "returned" /\ pc'[d] # "idle"
      BY <1>0, <1>b, <2>1
    <2>3. \A e, d \in Callers : e \in before[d] => e # c
      BY <2>1
    <2>4. \A e, d \in Callers : e \in before[d] /\ Settled(e)' => Settled(e)
      BY <1>0, <1>b, <2>3 DEF Settled
    <2> QED
      BY <1>0, <2>2, <2>4 DEF IInv, Ordered
  <1>8. AnswersTrue'
    <2> SUFFICES ASSUME NEW d \in Callers
                 PROVE  /\ Returned(d, {"remove"})'
                              /\ (Succeeded(d)' \/ Matches(d, "NotFound")')
                              => "absent" \in witnessed[d]
                        /\ Returned(d, {"amend"})' /\ Matches(d, "NotFound")'
                              => "absent" \in witnessed[d]
                        /\ Returned(d, {"ensure", "replace", "amend"})'
                              /\ Succeeded(d)' => "present" \in witnessed[d]
                        /\ Returned(d, {"compact"})' /\ Succeeded(d)'
                              => "compacting" \in witnessed[d]
                        /\ (pc'[d] = "returned"
                              /\ (Matches(d, "Conflict")'
                                   \/ Matches(d, "CompactInProgress")'))
                              => "compacting" \in witnessed[d]
      BY <1>0 DEF AnswersTrue
    <2>1. CASE d # c
      BY <1>0, <1>b, <2>1
         DEF IInv, AnswersTrue, Returned, Succeeded, Matches
    <2>2. CASE d = c
      BY <1>0, <1>b, <1>c, <2>2
         DEF IInv, Witnessed, Returned, Succeeded, Matches
    <2> QED
      BY <2>1, <2>2
  <1>9. OrphansAreRetries'
    <2>1. ASSUME NEW d \in Callers, Returned(d, {"insert"})', Succeeded(d)'
          PROVE  done[d] >= 1 /\ result'[d].got = tries[d]
      <3>1. done[d] >= 1
        BY <1>0, <1>4, <2>1 DEF SuccessIsDone, Returned
      <3>2. result'[d].got = tries[d]
        <4>1. Does(method[d]) = "insert" /\ result'[d].is = {}
              /\ pc'[d] = "returned"
          BY <1>0, <2>1 DEF Returned, Succeeded
        <4>2. CASE d = c
          <5>1. Told
            BY DEF IInv
          <5> QED
            BY <1>b, <1>c, <4>1, <4>2, <5>1 DEF Told
        <4>3. CASE d # c
          BY <1>b, <4>1, <4>3
             DEF IInv, OrphansAreRetries, Returned, Succeeded
        <4> QED
          BY <4>2, <4>3
      <3> QED
        BY <3>1, <3>2
    <2> QED
      BY <1>0, <1>3, <2>1 DEF OrphansAreRetries, SettledOver
  <1>10. CountsHonest'
    <2> SUFFICES ASSUME NEW d \in Callers, Returned(d, {"sweep", "delete"})', Succeeded(d)'
                 PROVE  /\ result'[d].got <= removed[d]
                        /\ tries[d] = 1 => result'[d].got = removed[d]
      BY <1>0 DEF CountsHonest
    <2>1. CASE d # c
      <3>1. Returned(d, {"sweep", "delete"}) /\ Succeeded(d) /\ result'[d] = result[d]
        BY <1>0, <1>b, <2>1 DEF Returned, Succeeded
      <3> QED
        BY <3>1 DEF IInv, CountsHonest
    <2>2. CASE d = c
      <3>1. result'[c].got = answer[c].got
        BY <1>b, <2>2 DEF Succeeded
      <3>2. answer[c] # None /\ answer[c].status < 400
        BY <1>b, <1>c, <2>2 DEF Succeeded
      <3>3. Does(method[c]) \in {"sweep", "delete"}
        BY <1>0, <2>2 DEF Returned
      <3> QED
        BY <2>2, <3>1, <3>2, <3>3 DEF IInv, Told
    <2> QED
      BY <2>1, <2>2
  <1> QED
    BY <1>1, <1>5, <1>6, <1>7, <1>8, <1>9, <1>10 DEF IInv

LEMMA RetryKeeps ==
  ASSUME IInv, NEW c \in Callers, pc[c] = "waiting", tries[c] < Attempts,
         pc' = [pc EXCEPT ![c] = "ready"],
         answer' = [answer EXCEPT ![c] = None],
         UNCHANGED <<method, tries, result, network, serverVars, histVars>>
  PROVE  IInv'
  <1> USE OperationsAssumption
  <1>0. /\ UNCHANGED <<method, tries, result, network, named, made, compacting>>
        /\ UNCHANGED <<done, removed, witnessed, before>>
    BY DEF serverVars, histVars
  <1>b. \A d \in Callers :
           /\ pc'[d] = IF d = c THEN "ready" ELSE pc[d]
           /\ answer'[d] = IF d = c THEN None ELSE answer[d]
    BY DEF IInv, TypeOK
  <1>c. \A d \in Callers : pc'[d] = "returned" <=> pc[d] = "returned"
    BY <1>b
  <1>1. TypeOK'
    BY <1>0 DEF IInv, TypeOK
  <1>2. Shape'
    <2>1. CallTypes'
      BY <1>1 DEF TypeOK, CallTypes
    <2>2. CallState'
      BY <1>0, <1>b, <1>c DEF IInv, Shape, CallState
    <2>3. ResponseState' /\ FirstRequest'
      BY <1>0, <1>b DEF IInv, Shape, ResponseState, FirstRequest
    <2>4. SettledOver' /\ SuccessIsDone'
      BY <1>0, <1>c
         DEF IInv, Shape, SettledOver, SuccessIsDone, Settled, Succeeded
    <2> QED
      BY <2>1, <2>2, <2>3, <2>4 DEF Shape
  <1>3. Counted' /\ Told'
    BY <1>0, <1>b DEF IInv, Counted, Told
  <1>4. Witnessed'
    BY <1>0, <1>b DEF IInv, Witnessed
  <1>5. Ordered'
    BY <1>0, <1>b, <1>c DEF IInv, Ordered, Settled
  <1>6. AnswersTrue' /\ OrphansAreRetries' /\ CountsHonest'
    BY <1>0, <1>c
       DEF IInv, AnswersTrue, OrphansAreRetries, CountsHonest, Settled,
           Returned, Succeeded, Matches
  <1> QED
    BY <1>1, <1>2, <1>3, <1>4, <1>5, <1>6 DEF IInv

LEMMA SettleKeeps ==
  ASSUME IInv, NEW c \in Callers, pc[c] = "waiting", NEW err,
         NEW is \in SUBSET (Sentinels \cup {CtxError}), NEW code \in Codes,
         Settle(c, err, is, code), is # {},
         is \cap InDoubt = {} =>
            answer[c] # None /\ answer[c].status >= 400,
         "NotFound" \in is => Does(method[c]) = "delete" \/ "absent" \in witnessed[c],
         "Conflict" \in is => "compacting" \in witnessed[c],
         "CompactInProgress" \in is => "compacting" \in witnessed[c]
  PROVE  IInv'
  <1>1. tries[c] > 0 /\ tries[c] \in Nat /\ Attempts \in Nat
    BY OperationsAssumption DEF IInv, Shape, CallState, CallTypes
  <1>2. CASE ShouldRetry(RetryOn, err) /\ tries[c] < MostTries(method[c])
    <2>1. tries[c] < Attempts
      BY <1>1, <1>2, MostTriesBound
    <2>2. /\ pc' = [pc EXCEPT ![c] = "ready"]
          /\ answer' = [answer EXCEPT ![c] = None]
          /\ UNCHANGED <<method, tries, result, network, serverVars, histVars>>
      BY <1>2 DEF Settle, Goto
    <2> QED
      BY <2>1, <2>2, RetryKeeps
  <1>3. CASE ~ (ShouldRetry(RetryOn, err) /\ tries[c] < MostTries(method[c]))
    <2> DEFINE q == [is |-> is, code |-> code, got |-> 0]
    <2>1. q \in Result /\ q.is = is
      BY DEF Result
    <2>2. /\ pc' = [pc EXCEPT ![c] = "returned"]
          /\ result' = [result EXCEPT ![c] = q]
          /\ answer' = [answer EXCEPT ![c] = None]
          /\ UNCHANGED <<method, tries, network, serverVars, histVars>>
      BY <1>3 DEF Settle, GiveUp, Return, Goto
    <2>3. answer[c] # None => answer[c].status \in Int
      <3>1. answer[c] # None => answer[c] \in Response
        BY DEF IInv, TypeOK
      <3>2. \A r \in Response : r.status \in Int
        BY DEF Response
      <3> QED
        BY <3>1, <3>2
    <2> HIDE DEF q
    <2>4. /\ q.is # {}
          /\ q.is \cap InDoubt = {} =>
                answer[c] # None /\ (q.is = {} <=> answer[c].status < 400)
          /\ "NotFound" \in q.is => Does(method[c]) = "delete" \/ "absent" \in witnessed[c]
          /\ "Conflict" \in q.is => "compacting" \in witnessed[c]
          /\ "CompactInProgress" \in q.is => "compacting" \in witnessed[c]
      BY <2>1, <2>3
    <2>5. pc[c] \in {"ready", "waiting"} /\ q \in Result
      BY <2>1
    <2> QED
      BY <1>1, <2>2, <2>4, <2>5, ReturnKeeps
  <1> QED
    BY <1>2, <1>3

LEMMA CallKeeps ==
  ASSUME IInv, NEW c \in Callers, NEW m \in Methods, Call(c, m)
  PROVE  IInv'
  <1> USE OperationsAssumption
  <1>0. /\ UNCHANGED <<tries, answer, result, network, named, made, compacting>>
        /\ UNCHANGED <<done, removed>>
        /\ pc[c] = "idle" /\ tries[c] = 0 /\ answer[c] = None
        /\ done[c] = 0 /\ result[c] = None
    BY DEF Call, serverVars, IInv, Shape, CallState, ResponseState, FirstRequest
  <1>b. \A d \in Callers :
           /\ pc'[d] = IF d = c THEN "ready" ELSE pc[d]
           /\ method'[d] = IF d = c THEN m ELSE method[d]
           /\ witnessed'[d] = IF d = c THEN Seen(named, compacting) ELSE witnessed[d]
           /\ before'[d] = IF d = c THEN {e \in Callers : pc[e] = "returned"}
                           ELSE before[d]
    BY DEF IInv, TypeOK, Call, Goto
  <1>c. \A d \in Callers :
           pc'[d] = "returned" <=> d # c /\ pc[d] = "returned"
    BY <1>0, <1>b
  <1>1. TypeOK'
    <2>1. Seen(named, compacting) \in SUBSET Facts
      BY SeenType
    <2> QED
      BY <1>0, <2>1 DEF IInv, TypeOK, Call, Goto
  <1>2. Shape'
    <2>1. CallTypes'
      BY <1>1 DEF TypeOK, CallTypes
    <2>2. CallState'
      <3>1. CallState
        BY DEF IInv, Shape
      <3>2. Attempts > 0
        OBVIOUS
      <3>3. \A d \in Callers : d # c =>
               pc'[d] = pc[d] /\ method'[d] = method[d]
        BY <1>b
      <3>4. pc'[c] = "ready" /\ method'[c] = m
        BY <1>b
      <3> QED
        BY <1>0, <3>1, <3>2, <3>3, <3>4 DEF CallState
    <2>3. ResponseState' /\ FirstRequest'
      BY <1>0, <1>b DEF IInv, Shape, ResponseState, FirstRequest
    <2>4. SettledOver' /\ SuccessIsDone'
      BY <1>0, <1>c
         DEF IInv, Shape, SettledOver, SuccessIsDone, Settled, Succeeded
    <2> QED
      BY <2>1, <2>2, <2>3, <2>4 DEF Shape
  <1>3. Counted' /\ Told'
    BY <1>0, <1>b DEF IInv, Counted, Told
  <1>4. Witnessed'
    <2>1. Witnessed
      BY DEF IInv
    <2>2. \A d \in Callers : d # c =>
             /\ pc'[d] = pc[d] /\ method'[d] = method[d]
             /\ witnessed'[d] = witnessed[d]
      BY <1>b
    <2>3. answer'[c] = None /\ Seen(named', compacting') \subseteq witnessed'[c]
      BY <1>0, <1>b
    <2> QED
      BY <1>0, <2>1, <2>2, <2>3 DEF Witnessed
  <1>5. Ordered'
    <2>1. \A e, d \in Callers :
             e \in before[d] => pc[e] = "returned" /\ pc[d] # "idle"
      BY DEF IInv, Ordered
    <2>2. \A e, d \in Callers :
             e \in before'[d] => pc'[e] = "returned" /\ pc'[d] # "idle"
      <3> SUFFICES ASSUME NEW e \in Callers, NEW d \in Callers, e \in before'[d]
                   PROVE  pc'[e] = "returned" /\ pc'[d] # "idle"
        OBVIOUS
      <3>1. CASE d = c
        <4>1. pc[e] = "returned" /\ pc'[d] = "ready"
          BY <1>b, <3>1
        <4> QED
          BY <1>0, <1>b, <4>1
      <3>2. CASE d # c
        <4>1. pc[e] = "returned" /\ pc[d] # "idle"
          BY <1>b, <2>1, <3>2
        <4> QED
          BY <1>0, <1>b, <3>2, <4>1
      <3> QED
        BY <3>1, <3>2
    <2>3. ASSUME NEW e \in Callers, NEW d \in Callers, e \in before'[d],
                 Settled(e)', Does(method'[d]) = "replace", done[d] >= 1
          PROVE  named # e
      <3>1. d # c
        BY <1>0, <2>3
      <3>2. e \in before[d] /\ Does(method[d]) = "replace"
        BY <1>b, <2>3, <3>1
      <3>3. Settled(e)
        BY <1>0, <1>c, <2>3 DEF Settled
      <3> QED
        BY <2>3, <3>2, <3>3 DEF IInv, Ordered
    <2> QED
      BY <1>0, <2>2, <2>3 DEF Ordered
  <1>6. AnswersTrue' /\ OrphansAreRetries' /\ CountsHonest'
    BY <1>0, <1>b, <1>c
       DEF IInv, AnswersTrue, OrphansAreRetries, CountsHonest, Settled,
           Returned, Succeeded, Matches
  <1> QED
    BY <1>1, <1>2, <1>3, <1>4, <1>5, <1>6 DEF IInv

LEMMA SendKeeps ==
  ASSUME IInv, NEW c \in Callers, Send(c)
  PROVE  IInv'
  <1> USE OperationsAssumption
  <1> DEFINE a == tries[c] + 1
  <1>0. /\ UNCHANGED <<method, answer, result, named, made, compacting>>
        /\ UNCHANGED <<done, removed, witnessed, before>>
        /\ network' = network \cup {<<c, a>>}
        /\ pc[c] = "ready" /\ answer[c] = None
    BY DEF Send, serverVars, histVars, IInv, Shape, ResponseState
  <1>a. tries[c] \in Nat /\ tries[c] < Attempts /\ a \in 1 .. Attempts
    BY <1>0 DEF IInv, Shape, CallTypes, CallState
  <1>b. \A d \in Callers :
           /\ pc'[d] = IF d = c THEN "waiting" ELSE pc[d]
           /\ tries'[d] = IF d = c THEN a ELSE tries[d]
    BY DEF IInv, TypeOK, Send, Goto
  <1>c. \A d \in Callers :
           pc'[d] = "returned" <=> d # c /\ pc[d] = "returned"
    BY <1>0, <1>b
  <1>d. \A d \in Callers, b \in 1 .. Attempts :
           <<d, b>> \in network' <=> <<d, b>> \in network \/ (d = c /\ b = a)
    BY <1>0
  <1>e. \A b \in 1 .. Attempts : <<c, b>> \in network => b <= tries[c]
    BY DEF IInv, Shape, ResponseState
  <1>1. TypeOK'
    <2>1. network' \subseteq Requests
      BY <1>0, <1>a DEF IInv, TypeOK, Requests
    <2>2. tries' \in [Callers -> 0 .. Attempts]
      BY <1>a DEF IInv, TypeOK, Send
    <2>3. pc' \in [Callers -> {"idle", "ready", "waiting", "returned"}]
      BY DEF IInv, TypeOK, Send, Goto
    <2> QED
      BY <1>0, <2>1, <2>2, <2>3 DEF IInv, TypeOK
  <1>2. Shape'
    <2>1. CallTypes'
      BY <1>1 DEF TypeOK, CallTypes
    <2>2. CallState'
      <3>1. CallState
        BY DEF IInv, Shape
      <3>2. method[c] \in Methods /\ result[c] = None
        BY <1>0, <3>1 DEF CallState
      <3>3. \A d \in Callers : d # c => pc'[d] = pc[d] /\ tries'[d] = tries[d]
        BY <1>b
      <3>4. pc'[c] = "waiting" /\ tries'[c] > 0
        BY <1>a, <1>b
      <3> QED
        BY <1>0, <3>1, <3>2, <3>3, <3>4 DEF CallState
    <2>3. ResponseState'
      <3>1. ASSUME NEW d \in Callers, NEW b \in 1 .. Attempts, <<d, b>> \in network'
            PROVE  b <= tries'[d]
        BY <1>a, <1>b, <1>d, <1>e, <3>1 DEF IInv, Shape, ResponseState
      <3>2. ASSUME NEW d \in Callers, answer'[d] # None
            PROVE  pc'[d] = "waiting" /\ <<d, tries'[d]>> \notin network'
        <4>1. d # c /\ answer[d] # None
          BY <1>0, <3>2
        <4> QED
          BY <1>0, <1>b, <4>1 DEF IInv, Shape, ResponseState
      <3> QED
        BY <3>1, <3>2 DEF ResponseState
    <2>4. FirstRequest'
      <3>1. FirstRequest
        BY DEF IInv, Shape
      <3>2. \A d \in Callers : d # c =>
               tries'[d] = tries[d] /\ (<<d, 1>> \in network' => <<d, 1>> \in network)
        BY <1>b, <1>d
      <3>3. tries'[c] # 0 /\ (tries'[c] = 1 => tries[c] = 0)
        BY <1>a, <1>b
      <3>4. UNCHANGED <<answer, done>> /\ answer[c] = None
        BY <1>0, <1>b
      <3> SUFFICES ASSUME NEW d \in Callers
                   PROVE  /\ tries'[d] = 0 => done'[d] = 0
                          /\ tries'[d] = 1 /\ <<d, 1>> \in network' => done'[d] = 0
                          /\ answer'[d] # None /\ answer'[d].status < 400
                                => done'[d] >= 1
                          /\ answer'[d] # None /\ tries'[d] = 1
                                => done'[d] = IF answer'[d].status < 400
                                              THEN 1 ELSE 0
        BY DEF FirstRequest
      <3>5. CASE d = c
        BY <3>1, <3>3, <3>4, <3>5 DEF FirstRequest
      <3>6. CASE d # c
        BY <3>1, <3>2, <3>4, <3>6 DEF FirstRequest
      <3> QED
        BY <3>5, <3>6
    <2>5. SettledOver' /\ SuccessIsDone'
      <3>1. \A d \in Callers : Settled(d)' => d # c /\ Settled(d)
        BY <1>0, <1>b, <1>c DEF Settled
      <3>2. SettledOver'
        BY <1>0, <1>d, <3>1 DEF IInv, Shape, SettledOver, Succeeded
      <3>3. SuccessIsDone'
        BY <1>0, <1>c DEF IInv, Shape, SuccessIsDone, Succeeded
      <3> QED
        BY <3>2, <3>3
    <2> QED
      BY <2>1, <2>2, <2>3, <2>4, <2>5 DEF Shape
  <1>3. Counted'
    <2> DEFINE Open(d)  == {b \in 1 .. Attempts : <<d, b>> \in network}
               Open1(d) == {b \in 1 .. Attempts : <<d, b>> \in network'}
    <2>1. IsFiniteSet(network')
      BY <1>0, FS_AddElement DEF IInv, Counted
    <2>2. ASSUME NEW d \in Callers
          PROVE  done[d] + Cardinality(Open1(d)) <= tries'[d]
      <3>1. done[d] + Cardinality(Open(d)) <= tries[d] /\ done[d] \in Nat
            /\ tries[d] \in Nat
        BY DEF IInv, Counted, TypeOK
      <3>2. IsFiniteSet(Open(d)) /\ Cardinality(Open(d)) \in Nat
        <4>1. IsFiniteSet(1 .. Attempts)
          BY FS_Interval
        <4>2. Open(d) \subseteq 1 .. Attempts
          OBVIOUS
        <4> HIDE DEF Open
        <4> QED
          BY <4>1, <4>2, FS_Subset, FS_CardinalityType
      <3>3. CASE d # c
        <4>1. Open1(d) = Open(d)
          BY <1>d, <3>3
        <4> QED
          BY <1>b, <3>1, <3>3, <4>1
      <3>4. CASE d = c
        <4>1. Open1(d) = Open(d) \cup {a} /\ a \notin Open(d)
          BY <1>a, <1>d, <1>e, <3>4
        <4>2. tries'[d] = tries[d] + 1
          BY <1>b, <3>4
        <4> HIDE DEF Open, Open1, a
        <4>3. Cardinality(Open1(d)) = Cardinality(Open(d)) + 1
          BY <3>2, <4>1, FS_AddElement
        <4> QED
          BY <3>1, <3>2, <4>2, <4>3
      <3> QED
        BY <3>3, <3>4
    <2> QED
      BY <1>0, <2>1, <2>2 DEF Counted
  <1>4. Witnessed'
    <2>1. \A d \in Callers :
             pc'[d] \in {"ready", "waiting"} <=> pc[d] \in {"ready", "waiting"}
      BY <1>0, <1>b
    <2> QED
      BY <1>0, <2>1 DEF IInv, Witnessed
  <1>5. Told'
    <2>1. Told
      BY DEF IInv
    <2>2. \A d \in Callers : d # c =>
             tries'[d] = tries[d] /\ (<<d, 1>> \in network' => <<d, 1>> \in network)
      BY <1>b, <1>d
    <2>3. tries'[c] # 0 /\ (tries'[c] = 1 => tries[c] = 0)
      BY <1>a, <1>b
    <2> QED
      BY <1>0, <2>1, <2>2, <2>3 DEF Told
  <1>6. Ordered'
    <2>1. \A e, d \in Callers :
             e \in before[d] => pc[e] = "returned" /\ pc[d] # "idle"
      BY DEF IInv, Ordered
    <2>2. \A e, d \in Callers :
             e \in before'[d] => pc'[e] = "returned" /\ pc'[d] # "idle"
      BY <1>0, <1>b, <2>1
    <2>3. \A e \in Callers : Settled(e)' => Settled(e)
      BY <1>0, <1>b, <1>c DEF Settled
    <2> QED
      BY <1>0, <2>2, <2>3 DEF IInv, Ordered
  <1>7. AnswersTrue' /\ OrphansAreRetries' /\ CountsHonest'
    <2>1. \A d \in Callers : pc'[d] = "returned" =>
             pc[d] = "returned" /\ tries'[d] = tries[d]
      BY <1>b, <1>c
    <2> QED
      BY <1>0, <2>1
         DEF IInv, AnswersTrue, OrphansAreRetries, CountsHonest, Settled,
             Returned, Succeeded, Matches
  <1> QED
    BY <1>1, <1>2, <1>3, <1>4, <1>5, <1>6, <1>7 DEF IInv

-----------------------------------------------------------------------------
(***************************************************************************)
(* Every step.                                                             *)
(***************************************************************************)

LEMMA LoseKeeps ==
  ASSUME IInv, NEW c \in Callers, NEW a \in 1 .. Attempts, Lose(c, a)
  PROVE  IInv'
  <1>0. /\ UNCHANGED <<method, pc, tries, answer, result>>
        /\ UNCHANGED <<named, made, compacting, done, removed, witnessed, before>>
        /\ network' = network \ {<<c, a>>}
    BY DEF Lose, callVars, serverVars, histVars
  <1>1. TypeOK' /\ Witnessed' /\ Ordered'
    BY <1>0 DEF IInv, TypeOK, Witnessed, Ordered, Settled
  <1>2. Shape'
    <2>1. CallTypes' /\ CallState' /\ SuccessIsDone'
      BY <1>0, <1>1
         DEF IInv, Shape, TypeOK, CallTypes, CallState, SuccessIsDone, Succeeded
    <2>2. ResponseState' /\ FirstRequest'
      BY <1>0 DEF IInv, Shape, ResponseState, FirstRequest
    <2>3. SettledOver'
      BY <1>0 DEF IInv, Shape, SettledOver, Settled, Succeeded
    <2> QED
      BY <2>1, <2>2, <2>3 DEF Shape
  <1>3. Counted'
    <2> DEFINE Open(d)  == {b \in 1 .. Attempts : <<d, b>> \in network}
               Open1(d) == {b \in 1 .. Attempts : <<d, b>> \in network'}
    <2>1. IsFiniteSet(network')
      BY <1>0, FS_RemoveElement DEF IInv, Counted
    <2>2. ASSUME NEW d \in Callers
          PROVE  done[d] + Cardinality(Open1(d)) <= tries[d]
      <3>1. done[d] + Cardinality(Open(d)) <= tries[d] /\ done[d] \in Nat
            /\ tries[d] \in Nat
        BY DEF IInv, Counted, TypeOK
      <3>2. IsFiniteSet(Open(d))
        <4>1. IsFiniteSet(1 .. Attempts)
          BY FS_Interval, OperationsAssumption
        <4>2. Open(d) \subseteq 1 .. Attempts
          OBVIOUS
        <4> HIDE DEF Open
        <4> QED
          BY <4>1, <4>2, FS_Subset
      <3>3. Open1(d) \subseteq Open(d)
        BY <1>0
      <3> HIDE DEF Open, Open1
      <3>4. /\ Cardinality(Open1(d)) <= Cardinality(Open(d))
            /\ Cardinality(Open1(d)) \in Nat /\ Cardinality(Open(d)) \in Nat
        BY <3>2, <3>3, FS_Subset, FS_CardinalityType
      <3> QED
        BY <3>1, <3>4
    <2> QED
      BY <1>0, <2>1, <2>2 DEF Counted
  <1>4. Told'
    BY <1>0 DEF IInv, Told
  <1>5. AnswersTrue' /\ OrphansAreRetries' /\ CountsHonest'
    BY <1>0
       DEF IInv, AnswersTrue, OrphansAreRetries, CountsHonest, Settled,
           Returned, Succeeded, Matches
  <1> QED
    BY <1>1, <1>2, <1>3, <1>4, <1>5 DEF IInv

LEMMA CompactionEndsKeeps ==
  ASSUME IInv, CompactionEnds
  PROVE  IInv'
  <1>0. /\ UNCHANGED <<method, pc, tries, answer, result, network>>
        /\ UNCHANGED <<named, made, done, removed, before>>
        /\ Witness(named', compacting') /\ compacting' \in BOOLEAN
    BY DEF CompactionEnds, callVars
  <1>1. /\ witnessed' \in [Callers -> SUBSET Facts]
        /\ \A d \in Callers :
              /\ witnessed[d] \subseteq witnessed'[d]
              /\ pc[d] \in {"ready", "waiting"} =>
                    Seen(named', compacting') \subseteq witnessed'[d]
    BY <1>0, SeenType DEF IInv, TypeOK, Witness
  <1>2. TypeOK' /\ Told' /\ Ordered'
    BY <1>0, <1>1 DEF IInv, TypeOK, Told, Ordered, Settled
  <1>3. Shape'
    BY <1>0
       DEF IInv, Shape, CallTypes, CallState, ResponseState, FirstRequest,
           SettledOver, SuccessIsDone, Settled, Succeeded
  <1>4. Counted'
    BY <1>0 DEF IInv, Counted
  <1>5. Witnessed'
    BY <1>0, <1>1 DEF IInv, Witnessed
  <1>6. AnswersTrue'
    BY <1>0, <1>1 DEF IInv, AnswersTrue, Returned, Succeeded, Matches
  <1>7. OrphansAreRetries' /\ CountsHonest'
    BY <1>0
       DEF IInv, OrphansAreRetries, CountsHonest, Settled, Returned, Succeeded
  <1> QED
    BY <1>2, <1>3, <1>4, <1>5, <1>6, <1>7 DEF IInv

LEMMA StutterKeeps ==
  ASSUME IInv, UNCHANGED vars
  PROVE  IInv'
  <1>0. /\ UNCHANGED <<method, pc, tries, answer, result, network>>
        /\ UNCHANGED <<named, made, compacting, done, removed, witnessed, before>>
    BY DEF vars, callVars, serverVars, histVars
  <1>1. TypeOK' /\ Counted' /\ Witnessed' /\ Told'
    BY <1>0 DEF IInv, TypeOK, Counted, Witnessed, Told
  <1>2. Shape'
    BY <1>0
       DEF IInv, Shape, CallTypes, CallState, ResponseState, FirstRequest,
           SettledOver, SuccessIsDone, Settled, Succeeded
  <1>3. Ordered' /\ AnswersTrue' /\ OrphansAreRetries' /\ CountsHonest'
    BY <1>0
       DEF IInv, Ordered, AnswersTrue, OrphansAreRetries, CountsHonest,
           Settled, Returned, Succeeded, Matches
  <1> QED
    BY <1>1, <1>2, <1>3 DEF IInv

LEMMA ClientKeeps ==
  ASSUME IInv, NEW c \in Callers, ClientStep(c)
  PROVE  IInv'
  <1>t. /\ answer[c] # None => answer[c] \in Response
        /\ answer[c] # None => answer[c].status \in {200, 401, 404, 409, 503}
        /\ answer[c] # None /\ answer[c].status = 404 => Does(method[c]) = "delete" \/ "absent" \in witnessed[c]
        /\ answer[c] # None /\ answer[c].status = 409 => "compacting" \in witnessed[c]
        /\ "other" \in Codes
    BY DEF IInv, TypeOK, Witnessed, Codes
  <1>u. pc[c] = "waiting" => tries[c] > 0
    BY DEF IInv, Shape, CallState
  <1>1. CASE Send(c)
    BY <1>1, SendKeeps
  <1>2. CASE NoAnswer(c)
    <2>1. PICK err \in {NetError, DecodeError} :
             Settle(c, err, {err.is}, "other")
      BY <1>2 DEF NoAnswer
    <2>2. pc[c] = "waiting"
      BY <1>2 DEF NoAnswer
    <2> DEFINE is == {err.is}
    <2>a. err.is \in {"Network", "Server"}
      BY DEF NetError, DecodeError, Plain
    <2>3. is \in SUBSET (Sentinels \cup {CtxError})
      BY <2>a DEF Sentinels
    <2>4. /\ is # {} /\ "NotFound" \notin is
          /\ "Conflict" \notin is
          /\ "CompactInProgress" \notin is
          /\ is \cap InDoubt # {}
      BY <2>a DEF InDoubt
    <2>5. Settle(c, err, is, "other")
      BY <2>1
    <2> HIDE DEF is
    <2> QED
      BY <1>t, <2>2, <2>3, <2>4, <2>5, SettleKeeps
  <1>3. CASE Rejected(c)
    <2> DEFINE r == answer[c]
               j == Joined(method[c], r)
               e == Plain(SentinelFor(r.status, r.code))
    <2>1. pc[c] = "waiting" /\ r # None /\ r.status >= 400
      BY <1>3 DEF Rejected
    <2>2. Settle(c, e, j, r.code)
      BY <1>3 DEF Rejected
    <2>3. r \in Response /\ r.status \in {401, 404, 409, 503}
      BY <1>t, <2>1
    <2>4. r.code \in Codes
      BY <2>3 DEF Response
    <2>5. /\ j \subseteq Sentinels
          /\ j # {}
          /\ "NotFound" \in j => r.status = 404
          /\ "Conflict" \in j => r.status = 409
          /\ "CompactInProgress" \in j => r.status = 409
      BY <2>3, JoinedTells
    <2> HIDE DEF j, e
    <2>6. /\ "NotFound" \in j => Does(method[c]) = "delete" \/ "absent" \in witnessed[c]
          /\ "Conflict" \in j => "compacting" \in witnessed[c]
          /\ "CompactInProgress" \in j => "compacting" \in witnessed[c]
      BY <1>t, <2>1, <2>5
    <2>7. j \in SUBSET (Sentinels \cup {CtxError})
      BY <2>5
    <2> QED
      BY <2>1, <2>2, <2>4, <2>5, <2>6, <2>7, SettleKeeps
  <1>4. CASE Accepted(c)
    <2> DEFINE q == [is |-> {}, code |-> answer[c].code, got |-> answer[c].got]
    <2>1. pc[c] = "waiting" /\ answer[c] # None /\ answer[c].status < 400
      BY <1>4 DEF Accepted
    <2>2. q \in Result /\ q.is = {} /\ q.got = answer[c].got
      BY <1>t, <2>1 DEF Response, Result
    <2>3. /\ pc' = [pc EXCEPT ![c] = "returned"]
          /\ result' = [result EXCEPT ![c] = q]
          /\ answer' = [answer EXCEPT ![c] = None]
          /\ UNCHANGED <<method, tries, network, serverVars, histVars>>
      BY <1>4 DEF Accepted, Decoded, Return, Goto
    <2> HIDE DEF q
    <2>4. /\ "NotFound" \notin q.is /\ "Conflict" \notin q.is
          /\ "CompactInProgress" \notin q.is
          /\ pc[c] \in {"ready", "waiting"}
      BY <2>1, <2>2
    <2> QED
      BY <1>u, <2>1, <2>2, <2>3, <2>4, ReturnKeeps
  <1>5. CASE Interrupted(c)
    <2> DEFINE q == [is |-> {CtxError}, code |-> "other", got |-> 0]
    <2>1. pc[c] = "ready" /\ tries[c] > 0
      BY <1>5 DEF Interrupted
    <2>2. q \in Result /\ q.is = {CtxError}
      BY <1>t DEF Result
    <2>3. answer[c] = None
      BY <2>1 DEF IInv, Shape, ResponseState
    <2>4. answer' = [answer EXCEPT ![c] = None]
      BY <1>5, <2>3 DEF Interrupted, IInv, TypeOK
    <2>5. /\ pc' = [pc EXCEPT ![c] = "returned"]
          /\ result' = [result EXCEPT ![c] = q]
          /\ UNCHANGED <<method, tries, network, serverVars, histVars>>
      BY <1>5 DEF Interrupted, Return, Goto
    <2> HIDE DEF q
    <2>6. /\ "NotFound" \notin q.is /\ "Conflict" \notin q.is
          /\ "CompactInProgress" \notin q.is
          /\ q.is # {} /\ q.is \cap InDoubt # {}
          /\ pc[c] \in {"ready", "waiting"}
      BY <2>1, <2>2 DEF CtxError, InDoubt
    <2> QED
      BY <2>1, <2>2, <2>4, <2>5, <2>6, ReturnKeeps
  <1> QED
    BY <1>1, <1>2, <1>3, <1>4, <1>5 DEF ClientStep

LEMMA InitHolds == Init => IInv
  <1> SUFFICES ASSUME Init PROVE IInv
    OBVIOUS
  <1> USE OperationsAssumption
  <1>1. TypeOK /\ Shape
    <2>1. TypeOK
      <3>1. /\ method \in [Callers -> Methods \cup {None}]
            /\ pc \in [Callers -> {"idle", "ready", "waiting", "returned"}]
            /\ tries \in [Callers -> 0 .. Attempts]
            /\ answer \in [Callers -> Response \cup {None}]
            /\ result \in [Callers -> Result \cup {None}]
        BY DEF Init
      <3>2. /\ network \subseteq Requests
            /\ named \in Callers \cup {None}
            /\ made \subseteq Requests
        BY DEF Init
      <3>3. compacting \in BOOLEAN
        BY DEF Init
      <3>4. /\ done \in [Callers -> Nat]
            /\ removed \in [Callers -> Nat]
            /\ witnessed \in [Callers -> SUBSET Facts]
            /\ before \in [Callers -> SUBSET Callers]
        BY DEF Init
      <3> QED
        BY <3>1, <3>2, <3>3, <3>4 DEF TypeOK
    <2>2. CallTypes
      BY <2>1 DEF TypeOK, CallTypes
    <2>3. CallState /\ ResponseState /\ FirstRequest
      BY DEF Init, CallState, ResponseState, FirstRequest
    <2>4. SettledOver /\ SuccessIsDone
      BY DEF Init, SettledOver, SuccessIsDone, Settled
    <2> QED
      BY <2>1, <2>2, <2>3, <2>4 DEF Shape
  <1>2. Counted
    <2>1. IsFiniteSet({}) /\ Cardinality({}) = 0
      BY FS_EmptySet
    <2>2. \A c \in Callers : {a \in 1 .. Attempts : <<c, a>> \in network} = {}
      BY DEF Init
    <2> QED
      BY <2>1, <2>2 DEF Init, Counted
  <1>3. Told
    BY FS_EmptySet DEF Init, Told
  <1>4. Witnessed /\ Ordered /\ AnswersTrue /\ OrphansAreRetries /\ CountsHonest
    BY DEF Init, Witnessed, Ordered, AnswersTrue, OrphansAreRetries,
           CountsHonest, Settled, Returned
  <1> QED
    BY <1>1, <1>2, <1>3, <1>4 DEF IInv

LEMMA StepKeeps == IInv /\ [Next]_vars => IInv'
  <1> SUFFICES ASSUME IInv, [Next]_vars PROVE IInv'
    OBVIOUS
  <1>1. CASE UNCHANGED vars
    BY <1>1, StutterKeeps
  <1>2. ASSUME NEW c \in Callers, ClientStep(c) PROVE IInv'
    BY <1>2, ClientKeeps
  <1>3. ASSUME NEW c \in Callers, NEW m \in Methods, Call(c, m) PROVE IInv'
    BY <1>3, CallKeeps
  <1>4. ASSUME NEW c \in Callers, NEW a \in 1 .. Attempts, Lose(c, a) PROVE IInv'
    BY <1>4, LoseKeeps
  <1>5. ASSUME NEW c \in Callers, NEW a \in 1 .. Attempts,
               <<c, a>> \in network, Serve(c, a)
        PROVE  IInv'
    <2>1. \E r : Served(c, a, r)
      BY <1>5, ServeIsServed DEF IInv
    <2> QED
      BY <1>5, <2>1, ServedKeeps
  <1>6. CASE CompactionEnds
    BY <1>6, CompactionEndsKeeps
  <1> QED
    BY <1>1, <1>2, <1>3, <1>4, <1>5, <1>6 DEF Next

LEMMA Invariance == Spec => []IInv
  BY InitHolds, StepKeeps, PTL DEF Spec

-----------------------------------------------------------------------------
(***************************************************************************)
(* The theorems.                                                           *)
(***************************************************************************)

\* Whatever the methods called, the variables keep their types.
THEOREM TypeCorrect == Spec => []TypeOK
  <1>1. IInv => TypeOK
    BY DEF IInv
  <1> QED
    BY <1>1, Invariance, PTL

\* Every answer of a method (documents.go, indexes.go, tenants.go and the
\* others) was true at some moment of its call, for any number of callers that
\* change the same resource and any number of retries.
THEOREM AnswersAreTrue == Spec => []AnswersTrue
  <1>1. IInv => AnswersTrue
    BY DEF IInv
  <1> QED
    BY <1>1, Invariance, PTL

\* A call settled by its first request never undoes a later upsert
\* (UpsertResource, indexes.go:155).
THEOREM SettledWritesStay == Spec => []WritesStay
  <1>1. IInv => WritesStay
    BY DEF IInv, Ordered, Shape, SuccessIsDone, WritesStay, Returned
  <1> QED
    BY <1>1, Invariance, PTL

\* Only a call that was retried or failed in the network leaves behind what
\* nobody has heard of; a settled one had one effect or none
\* (CreateAPIKey, apikey.go:20).
THEOREM OrphansAreOfRetries == Spec => []OrphansAreRetries
  <1>1. IInv => OrphansAreRetries
    BY DEF IInv
  <1> QED
    BY <1>1, Invariance, PTL

\* The count of a sweep or a delete never exceeds what the call removed, and is
\* all of it where the call was not retried (CleanupOrphans, indexes.go:194).
THEOREM CountsAreHonest == Spec => []CountsHonest
  <1>1. IInv => CountsHonest
    BY DEF IInv
  <1> QED
    BY <1>1, Invariance, PTL

\* The sentinels of a 409, by the method and by the code.
LEMMA JoinedNames ==
  ASSUME NEW m, NEW r \in Response
  PROVE  /\ m = "CompactIndex" /\ "Conflict" \in Joined(m, r)
               => "CompactInProgress" \in Joined(m, r)
         /\ "CompactInProgress" \in Joined(m, r)
               => \/ r.code = "compact_in_progress"
                  \/ m = "CompactIndex" /\ "Conflict" \in Joined(m, r)
  <1>1. ASSUME NEW status \in Int, NEW code
        PROVE  LET s == SentinelFor(status, code)
               IN  /\ s = "Conflict" => status = 409
                   /\ s = "CompactInProgress" => code = "compact_in_progress"
                   /\ status = 409 /\ code # "compact_in_progress"
                         => s = "Conflict"
    BY DEF SentinelFor
  <1>2. r.status \in Int
    BY DEF Response
  <1> QED
    BY <1>1, <1>2 DEF Joined

LEMMA NamesKept ==
  ASSUME IInv, ConflictsNamed, [Next]_vars
  PROVE  ConflictsNamed'
  <1>t. /\ method \in [Callers -> Methods \cup {None}]
        /\ pc \in [Callers -> {"idle", "ready", "waiting", "returned"}]
        /\ result \in [Callers -> Result \cup {None}]
    BY DEF IInv, TypeOK
  <1> DEFINE Named(m, is, code) ==
                /\ m = "CompactIndex" /\ "Conflict" \in is
                      => "CompactInProgress" \in is
                /\ "CompactInProgress" \in is
                      => \/ code = "compact_in_progress"
                         \/ m = "CompactIndex" /\ "Conflict" \in is
  <1>1. \A c \in Callers : pc[c] = "returned" =>
           Named(method[c], result[c].is, result[c].code)
    BY DEF ConflictsNamed, Matches
  <1>2. SUFFICES ASSUME NEW d \in Callers, pc'[d] = "returned"
                 PROVE  Named(method'[d], result'[d].is, result'[d].code)
    BY DEF ConflictsNamed, Matches
  <1> HIDE DEF Named
  <1>3. ASSUME UNCHANGED <<method[d], pc[d], result[d]>>
        PROVE  Named(method'[d], result'[d].is, result'[d].code)
    BY <1>1, <1>2, <1>3
  <1>4. ASSUME NEW c \in Callers, NEW is, NEW code, NEW got,
               Return(c, is, code, got), UNCHANGED method,
               Named(method[c], is, code)
        PROVE  Named(method'[d], result'[d].is, result'[d].code)
    <2>1. CASE d = c
      BY <1>t, <1>4, <2>1 DEF Return
    <2>2. CASE d # c
      BY <1>t, <1>3, <1>4, <2>2 DEF Return, Goto
    <2> QED
      BY <2>1, <2>2
  <1>5. ASSUME NEW c \in Callers, NEW err, NEW is, NEW code,
               Settle(c, err, is, code), Named(method[c], is, code)
        PROVE  Named(method'[d], result'[d].is, result'[d].code)
    <2>1. CASE Goto(c, "ready") /\ UNCHANGED result
      BY <1>t, <1>2, <1>3, <1>5, <2>1 DEF Settle, Goto
    <2>2. CASE Return(c, is, code, 0)
      BY <1>4, <1>5, <2>2 DEF Settle
    <2> QED
      BY <1>5, <2>1, <2>2 DEF Settle, GiveUp
  <1>6. ASSUME NEW c \in Callers, ClientStep(c)
        PROVE  Named(method'[d], result'[d].is, result'[d].code)
    <2>1. CASE Send(c)
      BY <1>t, <1>2, <1>3, <2>1 DEF Send, Goto
    <2>2. CASE NoAnswer(c)
      <3>1. PICK err \in {NetError, DecodeError} :
               Settle(c, err, {err.is}, "other")
        BY <2>2 DEF NoAnswer
      <3>2. Named(method[c], {err.is}, "other")
        BY DEF Named, NetError, DecodeError, Plain
      <3> QED
        BY <1>5, <3>1, <3>2
    <2>3. CASE Rejected(c)
      <3>1. answer[c] \in Response
        BY <2>3 DEF Rejected, IInv, TypeOK
      <3>2. Named(method[c], Joined(method[c], answer[c]), answer[c].code)
        BY <3>1, JoinedNames DEF Named
      <3> QED
        BY <1>5, <2>3, <3>2 DEF Rejected
    <2>4. CASE Accepted(c)
      <3>1. Named(method[c], {}, answer[c].code)
        BY DEF Named
      <3> QED
        BY <1>4, <2>4, <3>1 DEF Accepted
    <2>5. CASE Interrupted(c)
      <3>1. Named(method[c], {CtxError}, "other")
        BY DEF Named, CtxError
      <3> QED
        BY <1>4, <2>5, <3>1 DEF Interrupted
    <2> QED
      BY <1>6, <2>1, <2>2, <2>3, <2>4, <2>5 DEF ClientStep
  <1>7. ASSUME NEW c \in Callers, NEW m \in Methods, Call(c, m)
        PROVE  Named(method'[d], result'[d].is, result'[d].code)
    BY <1>t, <1>2, <1>3, <1>7 DEF Call, Goto
  <1>8. ASSUME NEW c \in Callers, NEW a \in 1 .. Attempts,
               <<c, a>> \in network, Serve(c, a)
        PROVE  UNCHANGED <<method, pc, result>>
    BY <1>8, ServeIsServed DEF IInv, Served, Respond
  <1>9. ASSUME NEW c \in Callers, NEW a \in 1 .. Attempts, Lose(c, a)
        PROVE  UNCHANGED <<method, pc, result>>
    BY <1>9 DEF Lose, callVars
  <1>10. CompactionEnds \/ UNCHANGED vars => UNCHANGED <<method, pc, result>>
    BY DEF CompactionEnds, vars, callVars
  <1> QED
    BY <1>3, <1>6, <1>7, <1>8, <1>9, <1>10 DEF Next

\* A conflict is named for what it is by CompactIndex alone (indexes.go:97).
THEOREM ConflictsAreNamed == Spec => []ConflictsNamed
  <1>1. Init => ConflictsNamed
    BY DEF Init, ConflictsNamed
  <1> QED
    BY <1>1, NamesKept, Invariance, PTL DEF Spec

LEMMA DeliveryStarts == Init => \A c \in Callers : Delivery(c)!Init
  BY OperationsAssumption DEF Init, Delivery!Init

\* What a step does to a call other than the one it is of: nothing.
LEMMA OthersStutter ==
  ASSUME IInv, NEW c \in Callers, NEW d \in Callers, d # c,
         \/ ClientStep(c)
         \/ \E m \in Methods : Call(c, m)
         \/ \E a \in 1 .. Attempts : \E r : Respond(c, a, r)
  PROVE  UNCHANGED <<tries[d], done[d], pc[d], result[d]>>
  <1>t. /\ tries \in [Callers -> 0 .. Attempts]
        /\ pc \in [Callers -> {"idle", "ready", "waiting", "returned"}]
        /\ result \in [Callers -> Result \cup {None}]
        /\ done \in [Callers -> Nat]
    BY DEF IInv, TypeOK
  <1>1. CASE \E m \in Methods : Call(c, m)
    BY <1>t, <1>1 DEF Call, Goto
  <1>2. CASE \E a \in 1 .. Attempts : \E r : Respond(c, a, r)
    BY <1>t, <1>2 DEF Respond
  <1>3. CASE Send(c)
    BY <1>t, <1>3 DEF Send, Goto, histVars
  <1>4. ASSUME NEW err, NEW is, NEW code, Settle(c, err, is, code)
        PROVE  UNCHANGED <<tries[d], done[d], pc[d], result[d]>>
    BY <1>t, <1>4 DEF Settle, GiveUp, Return, Goto, histVars
  <1>5. CASE NoAnswer(c) \/ Rejected(c)
    BY <1>4, <1>5 DEF NoAnswer, Rejected
  <1>6. CASE Accepted(c) \/ Interrupted(c)
    BY <1>t, <1>6 DEF Accepted, Decoded, Interrupted, Return, Goto, histVars
  <1> QED
    BY <1>1, <1>2, <1>3, <1>5, <1>6 DEF ClientStep

\* What a step of a call is to its delivery.
LEMMA ClientDelivers ==
  ASSUME IInv, NEW c \in Callers, ClientStep(c)
  PROVE  Delivery(c)!Next \/ UNCHANGED Delivery(c)!vars
  <1>t. /\ tries \in [Callers -> 0 .. Attempts]
        /\ pc \in [Callers -> {"idle", "ready", "waiting", "returned"}]
        /\ result \in [Callers -> Result \cup {None}]
        /\ done \in [Callers -> Nat]
    BY DEF IInv, TypeOK
  <1>1. CASE Send(c)
    <2>1. /\ pc[c] = "ready" /\ pc'[c] = "waiting"
          /\ tries'[c] = tries[c] + 1 /\ done' = done
      BY <1>t, <1>1 DEF Send, Goto, histVars
    <2>2. tries[c] < Attempts
      BY <2>1 DEF IInv, Shape, CallState
    <2> QED
      BY <2>1, <2>2 DEF Delivery!Next, Delivery!Send
  <1>2. ASSUME NEW err, NEW is, NEW code, is # {}, pc[c] = "waiting",
               Settle(c, err, is, code)
        PROVE  Delivery(c)!Next \/ UNCHANGED Delivery(c)!vars
    <2>1. done' = done /\ tries' = tries
      BY <1>2 DEF Settle, histVars
    <2>2. CASE pc'[c] = "ready"
      BY <1>2, <2>1, <2>2 DEF Delivery!vars
    <2>3. CASE pc'[c] = "returned" /\ result'[c].is = is
      BY <1>2, <2>1, <2>3 DEF Delivery!Next, Delivery!Fail, Succeeded
    <2>4. \/ pc'[c] = "ready"
          \/ pc'[c] = "returned" /\ result'[c].is = is
      BY <1>t, <1>2 DEF Settle, GiveUp, Return, Goto
    <2> QED
      BY <2>2, <2>3, <2>4
  <1>3. CASE NoAnswer(c)
    BY <1>2, <1>3 DEF NoAnswer
  <1>4. CASE Rejected(c)
    <2>1. Joined(method[c], answer[c]) # {}
      BY DEF Joined
    <2> QED
      BY <1>2, <1>4, <2>1 DEF Rejected
  <1>5. CASE Accepted(c)
    <2>1. /\ pc[c] = "waiting" /\ pc'[c] = "returned" /\ result'[c].is = {}
          /\ done' = done /\ tries' = tries
      BY <1>t, <1>5 DEF Accepted, Decoded, Return, Goto, histVars
    <2>2. done[c] > 0
      <3>1. answer[c] # None /\ answer[c].status < 400
        BY <1>5 DEF Accepted
      <3>2. done[c] >= 1 /\ done[c] \in Nat
        BY <1>t, <3>1 DEF IInv, Shape, FirstRequest
      <3> QED
        BY <3>2
    <2> QED
      BY <2>1, <2>2 DEF Delivery!Next, Delivery!Succeed, Succeeded
  <1>6. CASE Interrupted(c)
    <2>1. /\ pc[c] = "ready" /\ pc'[c] = "returned" /\ result'[c].is # {}
          /\ done' = done /\ tries' = tries
      BY <1>t, <1>6 DEF Interrupted, Return, Goto, histVars
    <2> QED
      BY <2>1 DEF Delivery!Next, Delivery!Fail, Succeeded
  <1> QED
    BY <1>1, <1>3, <1>4, <1>5, <1>6 DEF ClientStep

LEMMA ServedDelivers ==
  ASSUME IInv, NEW c \in Callers, NEW a \in 1 .. Attempts,
         <<c, a>> \in network, NEW r, Respond(c, a, r)
  PROVE  Delivery(c)!Next \/ UNCHANGED Delivery(c)!vars
  <1> DEFINE Open == {b \in 1 .. Attempts : <<c, b>> \in network}
  <1>1. /\ UNCHANGED <<tries, pc, result>>
        /\ done'[c] = IF r.status < 400 THEN done[c] + 1 ELSE done[c]
    BY DEF Respond, IInv, TypeOK
  <1>2. done[c] < tries[c]
    <2>1. done[c] + Cardinality(Open) <= tries[c] /\ done[c] \in Nat
          /\ tries[c] \in Nat
      BY DEF IInv, Counted, TypeOK
    <2>2. IsFiniteSet(Open)
      <3>1. IsFiniteSet(1 .. Attempts)
        BY FS_Interval, OperationsAssumption
      <3>2. Open \subseteq 1 .. Attempts
        OBVIOUS
      <3> HIDE DEF Open
      <3> QED
        BY <3>1, <3>2, FS_Subset
    <2>3. Open # {}
      OBVIOUS
    <2> HIDE DEF Open
    <2>4. Cardinality(Open) \in Nat /\ Cardinality(Open) # 0
      BY <2>2, <2>3, FS_EmptySet, FS_CardinalityType
    <2> QED
      BY <2>1, <2>4
  <1>3. CASE done'[c] = done[c] + 1
    BY <1>1, <1>2, <1>3 DEF Delivery!Next, Delivery!Apply, Succeeded
  <1>4. CASE done'[c] = done[c]
    BY <1>1, <1>4 DEF Delivery!vars, Succeeded
  <1> QED
    BY <1>1, <1>3, <1>4

LEMMA OthersDeliver ==
  ASSUME NEW d \in Callers, UNCHANGED <<tries[d], done[d], pc[d], result[d]>>
  PROVE  UNCHANGED Delivery(d)!vars
  BY DEF Delivery!vars, Succeeded

LEMMA StepDelivers ==
  ASSUME IInv, Next, NEW d \in Callers
  PROVE  Delivery(d)!Next \/ UNCHANGED Delivery(d)!vars
  <1>1. ASSUME NEW c \in Callers, ClientStep(c)
        PROVE  Delivery(d)!Next \/ UNCHANGED Delivery(d)!vars
    BY <1>1, ClientDelivers, OthersStutter, OthersDeliver
  <1>2. ASSUME NEW c \in Callers, NEW m \in Methods, Call(c, m)
        PROVE  UNCHANGED Delivery(d)!vars
    <2>1. CASE d # c
      BY <1>2, <2>1, OthersStutter, OthersDeliver
    <2>2. CASE d = c
      <3>1. pc[c] = "idle" /\ pc'[c] = "ready" /\ UNCHANGED <<tries, done>>
        BY <1>2 DEF Call, Goto, IInv, TypeOK
      <3> QED
        BY <2>2, <3>1 DEF Delivery!vars
    <2> QED
      BY <2>1, <2>2
  <1>3. ASSUME NEW c \in Callers, NEW a \in 1 .. Attempts,
               <<c, a>> \in network, Serve(c, a)
        PROVE  Delivery(d)!Next \/ UNCHANGED Delivery(d)!vars
    <2>1. PICK r : Respond(c, a, r)
      BY <1>3, ServeIsServed DEF IInv, Served
    <2>2. CASE d = c
      BY <1>3, <2>1, <2>2, ServedDelivers
    <2>3. CASE d # c
      BY <2>1, <2>3, OthersStutter, OthersDeliver
    <2> QED
      BY <2>2, <2>3
  <1>4. ASSUME UNCHANGED <<tries, done, pc, result>>
        PROVE  UNCHANGED Delivery(d)!vars
    BY <1>4, OthersDeliver
  <1>5. ASSUME NEW c \in Callers, NEW a \in 1 .. Attempts, Lose(c, a)
        PROVE  UNCHANGED <<tries, done, pc, result>>
    BY <1>5 DEF Lose, callVars, histVars
  <1>6. CASE CompactionEnds
    BY <1>4, <1>6 DEF CompactionEnds, callVars
  <1> QED
    BY <1>1, <1>2, <1>3, <1>4, <1>5, <1>6 DEF Next

\* Each call implements AtLeastOnce: its request takes effect at most as often
\* as it was sent, and at least once where the call succeeds.
THEOREM Refinement == Spec => ImplementAtLeastOnce
  <1>1. IInv /\ [Next]_vars =>
           [\A c \in Callers :
               Delivery(c)!Next \/ UNCHANGED Delivery(c)!vars]_vars
    BY StepDelivers
  <1> QED
    BY <1>1, DeliveryStarts, Invariance, PTL DEF Spec, ImplementAtLeastOnce
=============================================================================
