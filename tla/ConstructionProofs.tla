------------------------- MODULE ConstructionProofs -------------------------
(***************************************************************************)
(* Proofs about Construction, for any lists of options.                    *)
(***************************************************************************)
EXTENDS Construction, TLAPS

IsURL(u) == \E t : \E n \in Nat : u = [text |-> t, slashes |-> n]

\* A list of options, where base URLs are URLs.
WellFormed(l) ==
    /\ Len(l) \in Nat
    /\ \A i \in 1 .. Len(l) :
          Sets(l[i], "baseURL") => IsURL(l[i]["baseURL"])

\* The configuration is what the options applied so far ask for, and none of
\* them was refused.
Prefix ==
    /\ WellFormed(options)
    /\ applied \in 0 .. Len(options)
    /\ \A f \in Fields : Asked(f, applied, cfg[f])
    /\ \A i \in 1 .. applied : ~ Refused(options[i])

\* What the options say of NewClient's outcome, once it is there.
Outcome ==
    client # None =>
        \/ /\ client = Nothing
           /\ \E i \in 1 .. Len(options) : Refused(options[i])
        \/ /\ applied = Len(options)
           /\ client = IF cfg["baseURL"] = EmptyURL
                          \/ cfg["baseURL"].text = Unparsable
                       THEN Nothing ELSE Built(cfg)

IInv == Prefix /\ Outcome

\* One more option: it decides the fields it sets and leaves the others.
LEMMA AskedGrows ==
  ASSUME NEW n \in Nat, NEW f \in Fields, NEW v, Asked(f, n, v)
  PROVE  Asked(f, n + 1,
               IF Sets(options[n + 1], f) THEN options[n + 1][f] ELSE v)
  <1>1. CASE Sets(options[n + 1], f)
    <2>1. n + 1 \in 1 .. n + 1 /\ \A j \in (n + 1) + 1 .. n + 1 : FALSE
      OBVIOUS
    <2> QED
      BY <1>1, <2>1 DEF Asked
  <1>2. CASE ~ Sets(options[n + 1], f)
    <2>1. CASE v = Defaults[f] /\ \A i \in 1 .. n : ~ Sets(options[i], f)
      <3>1. \A i \in 1 .. n + 1 : ~ Sets(options[i], f)
        BY <1>2, <2>1
      <3> QED
        BY <1>2, <2>1, <3>1 DEF Asked
    <2>2. ASSUME NEW i \in 1 .. n, Sets(options[i], f), v = options[i][f],
                 \A j \in i + 1 .. n : ~ Sets(options[j], f)
          PROVE  Asked(f, n + 1, v)
      <3>1. i \in 1 .. n + 1
        OBVIOUS
      <3>2. \A j \in i + 1 .. n + 1 : ~ Sets(options[j], f)
        BY <1>2, <2>2
      <3> QED
        BY <2>2, <3>1, <3>2 DEF Asked
    <2> QED
      BY <1>2, <2>1, <2>2 DEF Asked
  <1> QED
    BY <1>1, <1>2

LEMMA InitHolds ==
  ASSUME \A l \in OptionLists : WellFormed(l), Init
  PROVE  IInv
  <1>1. WellFormed(options) /\ applied = 0 /\ cfg = Defaults /\ client = None
    BY DEF Init
  <1>2. \A i \in 1 .. 0 : FALSE
    OBVIOUS
  <1>3. \A f \in Fields : Asked(f, 0, Defaults[f])
    BY <1>2 DEF Asked
  <1> QED
    BY <1>1, <1>2, <1>3 DEF IInv, Prefix, Outcome, WellFormed

LEMMA StepKeeps ==
  ASSUME IInv, [Next]_vars
  PROVE  IInv'
  <1> USE DEF IInv, WellFormed
  <1>1. CASE Apply
    <2>1. /\ client = None /\ client' = None /\ options' = options
          /\ applied' = applied + 1 /\ applied < Len(options)
          /\ ~ Refused(options[applied + 1])
          /\ \A f \in Fields :
                cfg'[f] = IF Sets(options[applied + 1], f)
                          THEN options[applied + 1][f] ELSE cfg[f]
      BY <1>1 DEF Apply, Merged, Pending, Option
    <2>2. \A f \in Fields : Asked(f, applied + 1, cfg'[f])
      <3> SUFFICES ASSUME NEW f \in Fields PROVE Asked(f, applied + 1, cfg'[f])
        OBVIOUS
      <3>1. applied \in Nat /\ Asked(f, applied, cfg[f])
        BY DEF Prefix
      <3>2. Asked(f, applied + 1, IF Sets(options[applied + 1], f)
                                  THEN options[applied + 1][f] ELSE cfg[f])
        BY <3>1, AskedGrows
      <3> QED
        BY <2>1, <3>2
    <2>3. \A f \in Fields : Asked(f, applied, cfg[f])'
      BY <2>1, <2>2 DEF Asked
    <2>4. \A i \in 1 .. applied + 1 : ~ Refused(options[i])
      BY <2>1 DEF Prefix
    <2> QED
      BY <2>1, <2>3, <2>4 DEF Prefix, Outcome
  <1>2. CASE Refuse
    <2>1. /\ client' = Nothing /\ UNCHANGED <<options, applied, cfg>>
          /\ applied + 1 \in 1 .. Len(options) /\ Refused(options[applied + 1])
      BY <1>2 DEF Refuse, Pending, Option, Prefix
    <2> QED
      BY <2>1 DEF Prefix, Outcome, Asked
  <1>3. CASE Build
    <2>1. /\ UNCHANGED <<options, applied, cfg>> /\ applied = Len(options)
          /\ client' = IF cfg["baseURL"] = EmptyURL
                          \/ cfg["baseURL"].text = Unparsable
                       THEN Nothing ELSE Built(cfg)
      BY <1>3 DEF Build
    <2> QED
      BY <2>1 DEF Prefix, Outcome, Asked
  <1>4. CASE UNCHANGED vars
    BY <1>4 DEF vars, Prefix, Outcome, Asked
  <1> QED
    BY <1>1, <1>2, <1>3, <1>4 DEF Next

LEMMA IInvSuffices ==
  ASSUME IInv
  PROVE  ClientAsAsked
  <1> SUFFICES ASSUME client # None PROVE ClientAsAsked
    BY DEF ClientAsAsked
  <1>0. "baseURL" \in Fields
    BY DEF Fields, Defaults
  <1>1. CASE client = Nothing /\ \E i \in 1 .. Len(options) : Refused(options[i])
    BY <1>1 DEF ClientAsAsked, Nothing
  <1>2. CASE /\ applied = Len(options) /\ client = Nothing
             /\ cfg["baseURL"] = EmptyURL \/ cfg["baseURL"].text = Unparsable
    BY <1>0, <1>2 DEF IInv, Prefix, ClientAsAsked, Nothing
  <1>3. CASE /\ applied = Len(options) /\ client = Built(cfg)
             /\ cfg["baseURL"] # EmptyURL
    <2>1. client.ok /\ client.baseURL = [cfg["baseURL"] EXCEPT !.slashes = 0]
      BY <1>3 DEF Built
    <2>2. IsURL(cfg["baseURL"])
      <3>1. Asked("baseURL", Len(options), cfg["baseURL"])
        BY <1>0, <1>3 DEF IInv, Prefix
      <3>2. IsURL(Defaults["baseURL"])
        <4>1. IsURL(EmptyURL)
          BY DEF EmptyURL, IsURL
        <4>2. Defaults.baseURL = EmptyURL
          BY DEF Defaults
        <4> QED
          BY <4>1, <4>2
      <3> QED
        BY <3>1, <3>2 DEF Asked, IInv, Prefix, WellFormed
    <2>3. client.baseURL = EmptyURL => cfg["baseURL"].slashes > 0
      <3>1. PICK t, n : n \in Nat /\ cfg["baseURL"] = [text |-> t, slashes |-> n]
        BY <2>2 DEF IsURL
      <3>2. n = 0 => client.baseURL = cfg["baseURL"]
        BY <2>1, <3>1
      <3> QED
        BY <1>3, <3>1, <3>2
    <2> QED
      BY <1>3, <2>1, <2>3 DEF IInv, Prefix, ClientAsAsked
  <1> QED
    BY <1>1, <1>2, <1>3 DEF IInv, Outcome

\* Whatever the options, their order and their number: NewClient gives a client
\* exactly if none is refused and the last base URL can be used, and each field
\* of its configuration has what the last option that sets it says.
THEOREM AsAsked ==
  ASSUME \A l \in OptionLists : WellFormed(l)
  PROVE  Spec => []ClientAsAsked
  <1>1. Init => IInv
    BY InitHolds
  <1>2. IInv /\ [Next]_vars => IInv'
    BY StepKeeps
  <1>3. IInv => ClientAsAsked
    BY IInvSuffices
  <1> QED
    BY <1>1, <1>2, <1>3, PTL DEF Spec
=============================================================================
