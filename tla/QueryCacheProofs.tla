-------------------------- MODULE QueryCacheProofs --------------------------
(***************************************************************************)
(* Proofs about QueryCache, for any keys, values, capacity and TTL.        *)
(***************************************************************************)
EXTENDS QueryCache, FiniteSetTheorems, SequenceTheorems, TLAPS

(***************************************************************************)
(* What the three list operations do to a sequence, element by element.    *)
(***************************************************************************)

LEMMA ConsElements ==
  ASSUME NEW S, NEW s \in Seq(S), NEW e \in S
  PROVE  /\ Cons(e, s) \in Seq(S)
         /\ Len(Cons(e, s)) = Len(s) + 1
         /\ \A j \in 1 .. Len(s) + 1 :
               Cons(e, s)[j] = IF j = 1 THEN e ELSE s[j - 1]
  BY DEF Cons

LEMMA RemoveAtElements ==
  ASSUME NEW S, NEW s \in Seq(S), NEW i \in 1 .. Len(s)
  PROVE  /\ RemoveAt(s, i) \in Seq(S)
         /\ Len(RemoveAt(s, i)) = Len(s) - 1
         /\ \A j \in 1 .. Len(s) - 1 :
               RemoveAt(s, i)[j] = IF j < i THEN s[j] ELSE s[j + 1]
  <1> DEFINE before == SubSeq(s, 1, i - 1)
             after  == SubSeq(s, i + 1, Len(s))
  <1>1. \A j \in 1 .. Len(s) : s[j] \in S
    BY ElementOfSeq
  <1>2. /\ before \in Seq(S)
        /\ Len(before) = i - 1
        /\ \A j \in 1 .. i - 1 : before[j] = s[j]
    BY <1>1, SubSeqProperties, 1 \in Int, i - 1 \in Int
  <1>3. /\ after \in Seq(S)
        /\ Len(after) = Len(s) - i
        /\ \A j \in 1 .. Len(s) - i : after[j] = s[j + i]
    <2>1. /\ i + 1 \in Int
          /\ Len(s) \in Int
          /\ \A j \in i + 1 .. Len(s) : s[j] \in S
      BY <1>1
    <2>2. /\ after \in Seq(S)
          /\ Len(after) = IF i + 1 <= Len(s) THEN Len(s) - (i + 1) + 1 ELSE 0
          /\ \A j \in 1 .. Len(s) - (i + 1) + 1 : after[j] = s[(i + 1) + j - 1]
      BY <2>1, SubSeqProperties
    <2> QED
      BY <2>2
  <1> HIDE DEF before, after
  <1>4. /\ before \o after \in Seq(S)
        /\ Len(before \o after) = Len(before) + Len(after)
        /\ \A j \in 1 .. Len(before) + Len(after) :
              (before \o after)[j] = IF j <= Len(before) THEN before[j]
                                     ELSE after[j - Len(before)]
    BY <1>2, <1>3, ConcatProperties
  <1>5. RemoveAt(s, i) = before \o after
    BY DEF RemoveAt, before, after
  <1>6. Len(before) + Len(after) = Len(s) - 1
    BY <1>2, <1>3
  <1>7. ASSUME NEW j \in 1 .. Len(s) - 1
        PROVE  (before \o after)[j] = IF j < i THEN s[j] ELSE s[j + 1]
    <2>1. CASE j < i
      BY <2>1, <1>2, <1>4, <1>6
    <2>2. CASE ~ (j < i)
      <3>1. (before \o after)[j] = after[j - (i - 1)]
        BY <2>2, <1>2, <1>4, <1>6
      <3>2. j - (i - 1) \in 1 .. Len(s) - i
        BY <2>2
      <3>3. after[j - (i - 1)] = s[(j - (i - 1)) + i]
        BY <3>2, <1>3
      <3> QED
        BY <2>2, <3>1, <3>3
    <2> QED
      BY <2>1, <2>2
  <1> QED
    BY <1>4, <1>5, <1>6, <1>7

LEMMA FrontElements ==
  ASSUME NEW S, NEW s \in Seq(S), s # <<>>
  PROVE  /\ Front(s) \in Seq(S)
         /\ Len(Front(s)) = Len(s) - 1
         /\ \A j \in 1 .. Len(s) - 1 : Front(s)[j] = s[j]
  <1>n. Len(s) \in Nat /\ Len(s) # 0
    BY EmptySeq
  <1>1. /\ Len(s) \in Nat \ {0}
        /\ \A j \in 1 .. Len(s) - 1 : s[j] \in S
    BY EmptySeq, ElementOfSeq
  <1>2. 1 \in Int /\ Len(s) - 1 \in Int
    BY <1>1
  <1>3. /\ SubSeq(s, 1, Len(s) - 1) \in Seq(S)
        /\ Len(SubSeq(s, 1, Len(s) - 1)) =
              IF 1 <= Len(s) - 1 THEN (Len(s) - 1) - 1 + 1 ELSE 0
        /\ \A j \in 1 .. (Len(s) - 1) - 1 + 1 :
              SubSeq(s, 1, Len(s) - 1)[j] = s[1 + j - 1]
    BY <1>1, <1>2, SubSeqProperties
  <1> DEFINE front == SubSeq(s, 1, Len(s) - 1)
  <1> HIDE DEF front
  <1>4. front \in Seq(S) /\ Len(front) = Len(s) - 1
    <2>1. CASE Len(s) = 1
      BY <2>1, <1>3 DEF front
    <2>2. CASE Len(s) # 1
      <3>1. 1 <= Len(s) - 1
        <4>1. \A n \in Nat : n # 0 /\ n # 1 => 1 <= n - 1
          OBVIOUS
        <4> QED
          BY <4>1, <2>2, <1>n
      <3>2. (Len(s) - 1) - 1 + 1 = Len(s) - 1
        BY <1>n
      <3> QED
        BY <3>1, <3>2, <1>3 DEF front
    <2> QED
      BY <2>1, <2>2
  <1>5. \A j \in 1 .. Len(s) - 1 : front[j] = s[j]
    BY <1>1, <1>3 DEF front
  <1> QED
    BY <1>4, <1>5 DEF Front, front

(***************************************************************************)
(* The same operations on a list without duplicates.                       *)
(***************************************************************************)

LEMMA Elements ==
  ASSUME NEW S, NEW s \in Seq(S)
  PROVE  /\ Len(s) \in Nat
         /\ \A x : x \in ToSet(s) <=> \E j \in 1 .. Len(s) : s[j] = x
         /\ IsInjective(s) <=>
               \A a, b \in 1 .. Len(s) : s[a] = s[b] => a = b
  <1>1. Len(s) \in Nat /\ DOMAIN s = 1 .. Len(s)
    OBVIOUS
  <1> QED
    BY <1>1 DEF ToSet, IsInjective

\* list.MoveToFront keeps the elements.
LEMMA MoveToFrontKeeps ==
  ASSUME NEW S, NEW s \in Seq(S), IsInjective(s), NEW i \in 1 .. Len(s)
  PROVE  LET t == Cons(s[i], RemoveAt(s, i)) IN
         /\ t \in Seq(S)
         /\ Len(t) = Len(s)
         /\ IsInjective(t)
         /\ ToSet(t) = ToSet(s)
  <1> DEFINE r == RemoveAt(s, i)
             t == Cons(s[i], r)
  <1>1. /\ r \in Seq(S)
        /\ Len(r) = Len(s) - 1
        /\ \A j \in 1 .. Len(s) - 1 : r[j] = IF j < i THEN s[j] ELSE s[j + 1]
    BY RemoveAtElements
  <1>2. s[i] \in S
    BY ElementOfSeq
  <1> HIDE DEF r
  <1>3. /\ t \in Seq(S)
        /\ Len(t) = Len(r) + 1
        /\ \A j \in 1 .. Len(r) + 1 : t[j] = IF j = 1 THEN s[i] ELSE r[j - 1]
    <2>1. r \in Seq(S)
      BY <1>1
    <2>2. ASSUME NEW q \in Seq(S), NEW e \in S
          PROVE  /\ Cons(e, q) \in Seq(S)
                 /\ Len(Cons(e, q)) = Len(q) + 1
                 /\ \A j \in 1 .. Len(q) + 1 :
                       Cons(e, q)[j] = IF j = 1 THEN e ELSE q[j - 1]
      BY ConsElements
    <2> QED
      BY <2>1, <2>2, <1>2
  <1> HIDE DEF t
  <1>4. Len(t) = Len(s)
    BY <1>1, <1>3
  <1>5. \A j \in 1 .. Len(s) :
           t[j] = IF j = 1 THEN s[i] ELSE IF j <= i THEN s[j - 1] ELSE s[j]
    BY <1>1, <1>3
  <1>s. /\ Len(s) \in Nat
        /\ \A x : x \in ToSet(s) <=> \E j \in 1 .. Len(s) : s[j] = x
        /\ \A a, b \in 1 .. Len(s) : s[a] = s[b] => a = b
    BY Elements
  <1>t. /\ \A x : x \in ToSet(t) <=> \E j \in 1 .. Len(s) : t[j] = x
        /\ IsInjective(t) <=>
              \A a, b \in 1 .. Len(s) : t[a] = t[b] => a = b
    <2>1. t \in Seq(S)
      BY <1>3
    <2> QED
      BY <2>1, <1>4, Elements
  <1>6. IsInjective(t)
    <2>1. ASSUME NEW a \in 1 .. Len(s), NEW b \in 1 .. Len(s), t[a] = t[b]
          PROVE  a = b
      <3> DEFINE from(j) == IF j = 1 THEN i ELSE IF j <= i THEN j - 1 ELSE j
      <3>1. \A j \in 1 .. Len(s) : from(j) \in 1 .. Len(s) /\ t[j] = s[from(j)]
        BY <1>5, <1>s
      <3>2. from(a) = from(b)
        BY <2>1, <3>1, <1>s
      <3> QED
        BY <3>2
    <2> QED
      BY <2>1, <1>t
  <1>7. \A j \in 1 .. Len(s) : t[j] \in ToSet(s)
    BY <1>5, <1>s
  <1>8. ASSUME NEW j \in 1 .. Len(s)
        PROVE  \E h \in 1 .. Len(s) : t[h] = s[j]
    <2>1. CASE j = i
      BY <2>1, <1>5
    <2>2. CASE j < i
      <3>1. j + 1 \in 1 .. Len(s) /\ t[j + 1] = s[j]
        BY <2>2, <1>5
      <3> QED
        BY <3>1
    <2>3. CASE j > i
      BY <2>3, <1>5
    <2> QED
      BY <2>1, <2>2, <2>3
  <1>9. ToSet(t) = ToSet(s)
    <2>1. \A x \in ToSet(t) : x \in ToSet(s)
      BY <1>7, <1>t
    <2>2. \A x \in ToSet(s) : x \in ToSet(t)
      BY <1>8, <1>s, <1>t
    <2> QED
      BY <2>1, <2>2
  <1> QED
    BY <1>3, <1>4, <1>6, <1>9 DEF t, r

\* list.Remove takes out one key and no other.
LEMMA RemoveTakesOne ==
  ASSUME NEW S, NEW s \in Seq(S), IsInjective(s), NEW i \in 1 .. Len(s)
  PROVE  /\ RemoveAt(s, i) \in Seq(S)
         /\ Len(RemoveAt(s, i)) = Len(s) - 1
         /\ IsInjective(RemoveAt(s, i))
         /\ ToSet(RemoveAt(s, i)) = ToSet(s) \ {s[i]}
  <1> DEFINE r == RemoveAt(s, i)
  <1>1. /\ r \in Seq(S)
        /\ Len(r) = Len(s) - 1
        /\ \A j \in 1 .. Len(s) - 1 : r[j] = IF j < i THEN s[j] ELSE s[j + 1]
    BY RemoveAtElements
  <1> HIDE DEF r
  <1>s. /\ Len(s) \in Nat
        /\ \A x : x \in ToSet(s) <=> \E j \in 1 .. Len(s) : s[j] = x
        /\ \A a, b \in 1 .. Len(s) : s[a] = s[b] => a = b
    BY Elements
  <1>r. /\ \A x : x \in ToSet(r) <=> \E j \in 1 .. Len(s) - 1 : r[j] = x
        /\ IsInjective(r) <=>
              \A a, b \in 1 .. Len(s) - 1 : r[a] = r[b] => a = b
    BY <1>1, Elements
  <1>2. IsInjective(r)
    BY <1>1, <1>s, <1>r
  <1>3. \A j \in 1 .. Len(s) - 1 : r[j] \in ToSet(s) \ {s[i]}
    BY <1>1, <1>s
  <1>4. ASSUME NEW j \in 1 .. Len(s), s[j] # s[i]
        PROVE  \E h \in 1 .. Len(s) - 1 : r[h] = s[j]
    <2>1. CASE j < i
      BY <2>1, <1>1
    <2>2. CASE j > i
      <3>1. j - 1 \in 1 .. Len(s) - 1 /\ r[j - 1] = s[j]
        BY <2>2, <1>1
      <3> QED
        BY <3>1
    <2> QED
      BY <2>1, <2>2, <1>4
  <1>5. ToSet(r) = ToSet(s) \ {s[i]}
    BY <1>3, <1>4, <1>s, <1>r
  <1> QED
    BY <1>1, <1>2, <1>5 DEF r

\* list.PushFront of a new key adds that key.
LEMMA PushFrontAddsOne ==
  ASSUME NEW S, NEW s \in Seq(S), IsInjective(s), NEW e \in S, e \notin ToSet(s)
  PROVE  /\ Cons(e, s) \in Seq(S)
         /\ Len(Cons(e, s)) = Len(s) + 1
         /\ IsInjective(Cons(e, s))
         /\ ToSet(Cons(e, s)) = ToSet(s) \cup {e}
  <1> DEFINE t == Cons(e, s)
  <1>1. /\ t \in Seq(S)
        /\ Len(t) = Len(s) + 1
        /\ \A j \in 1 .. Len(s) + 1 : t[j] = IF j = 1 THEN e ELSE s[j - 1]
    BY ConsElements
  <1> HIDE DEF t
  <1>s. /\ Len(s) \in Nat
        /\ \A x : x \in ToSet(s) <=> \E j \in 1 .. Len(s) : s[j] = x
        /\ \A a, b \in 1 .. Len(s) : s[a] = s[b] => a = b
    BY Elements
  <1>t. /\ \A x : x \in ToSet(t) <=> \E j \in 1 .. Len(s) + 1 : t[j] = x
        /\ IsInjective(t) <=>
              \A a, b \in 1 .. Len(s) + 1 : t[a] = t[b] => a = b
    BY <1>1, Elements
  <1>2. \A j \in 1 .. Len(s) : s[j] # e
    BY <1>s
  <1>3. IsInjective(t)
    <2>1. ASSUME NEW a \in 1 .. Len(s) + 1, NEW b \in 1 .. Len(s) + 1,
                 t[a] = t[b]
          PROVE  a = b
      <3>1. CASE a = 1 \/ b = 1
        BY <3>1, <2>1, <1>1, <1>2, <1>s
      <3>2. CASE a # 1 /\ b # 1
        <4>1. a - 1 \in 1 .. Len(s) /\ b - 1 \in 1 .. Len(s)
          BY <3>2, <1>s
        <4>2. s[a - 1] = s[b - 1]
          BY <3>2, <2>1, <1>1
        <4>3. a - 1 = b - 1
          BY <4>1, <4>2, <1>s
        <4> QED
          BY <4>3
      <3> QED
        BY <3>1, <3>2
    <2> QED
      BY <2>1, <1>t
  <1>4. \A j \in 1 .. Len(s) + 1 : t[j] \in ToSet(s) \cup {e}
    BY <1>1, <1>s
  <1>5. t[1] = e
    BY <1>1, <1>s
  <1>6. ASSUME NEW j \in 1 .. Len(s)
        PROVE  \E h \in 1 .. Len(s) + 1 : t[h] = s[j]
    <2>1. j + 1 \in 1 .. Len(s) + 1 /\ t[j + 1] = s[j]
      BY <1>1
    <2> QED
      BY <2>1
  <1>7. ToSet(t) = ToSet(s) \cup {e}
    BY <1>4, <1>5, <1>6, <1>s, <1>t
  <1> QED
    BY <1>1, <1>3, <1>7 DEF t

\* Removing list.Back takes out the last key and no other.
LEMMA FrontTakesLast ==
  ASSUME NEW S, NEW s \in Seq(S), IsInjective(s), s # <<>>
  PROVE  /\ Front(s) \in Seq(S)
         /\ Len(Front(s)) = Len(s) - 1
         /\ IsInjective(Front(s))
         /\ ToSet(Front(s)) = ToSet(s) \ {Last(s)}
         /\ Last(s) \in ToSet(s)
  <1> DEFINE f == Front(s)
  <1>1. /\ f \in Seq(S)
        /\ Len(f) = Len(s) - 1
        /\ \A j \in 1 .. Len(s) - 1 : f[j] = s[j]
    BY FrontElements
  <1>2. Len(s) \in Nat \ {0}
    BY EmptySeq
  <1> HIDE DEF f
  <1>3. IsInjective(f)
    BY <1>1, <1>2 DEF IsInjective
  <1>4. \A j \in 1 .. Len(s) - 1 : f[j] \in ToSet(s) \ {Last(s)}
    BY <1>1, <1>2 DEF IsInjective, ToSet, Last
  <1>5. \A j \in 1 .. Len(s) : s[j] # Last(s) => j \in 1 .. Len(s) - 1
    BY <1>2 DEF Last
  <1>6. ToSet(f) = ToSet(s) \ {Last(s)}
    BY <1>1, <1>2, <1>4, <1>5 DEF ToSet
  <1>7. Last(s) \in ToSet(s)
    BY <1>2 DEF Last, ToSet
  <1> QED
    BY <1>1, <1>3, <1>6, <1>7 DEF f

-----------------------------------------------------------------------------
(***************************************************************************)
(* The inductive invariant: the entries are the latest Sets, each with the *)
(* expiry that Set gave it.                                                *)
(***************************************************************************)

Mirrors ==
    \A k \in Keys :
        entries[k] # None =>
            /\ lastSet[k] # None
            /\ entries[k] = [value  |-> lastSet[k].value,
                             expiry |-> lastSet[k].at + TTL]

IInv == TypeOK /\ ListMatchesMap /\ Capacity /\ Mirrors

LEMMA InitIInv == Init => IInv
  <1> SUFFICES ASSUME Init PROVE IInv
    OBVIOUS
  <1> USE CacheAssumption DEF Init
  <1>1. order \in Seq(Keys) /\ Len(order) = 0 /\ DOMAIN order = {}
    OBVIOUS
  <1>2. TypeOK
    BY <1>1 DEF TypeOK
  <1>3. ListMatchesMap
    BY <1>1 DEF ListMatchesMap, IsInjective, ToSet
  <1> QED
    BY <1>1, <1>2, <1>3 DEF IInv, Capacity, Mirrors

\* What a step must show, the list apart.
LEMMA UseType == ASSUME TypeOK, NEW k \in Keys, Use(k) PROVE age' \in [Keys -> Nat]
  BY DEF TypeOK, Use

LEMMA StepIInv == IInv /\ [Next]_vars => IInv'
  <1> SUFFICES ASSUME IInv, [Next]_vars PROVE IInv'
    OBVIOUS
  <1> USE CacheAssumption
  <1>t. /\ TypeOK
        /\ order \in Seq(Keys)
        /\ IsInjective(order)
        /\ \A k \in Keys : entries[k] # None <=> k \in ToSet(order)
        /\ Len(order) \in Nat
        /\ Len(order) <= MaxEntries
        /\ Mirrors
    BY DEF IInv, TypeOK, ListMatchesMap, Capacity
  <1>1. ASSUME NEW k \in Keys, GetHit(k) PROVE IInv'
    <2>1. PICK i \in DOMAIN order :
             order[i] = k /\ order' = Cons(k, RemoveAt(order, i))
      BY <1>1 DEF GetHit, MoveToFront
    <2>2. i \in 1 .. Len(order)
      BY <2>1, <1>t
    <2>3. /\ order' \in Seq(Keys)
          /\ Len(order') = Len(order)
          /\ IsInjective(order')
          /\ ToSet(order') = ToSet(order)
      BY <2>1, <2>2, <1>t, MoveToFrontKeeps
    <2>4. UNCHANGED <<now, entries, lastSet>> /\ age' \in [Keys -> Nat]
      BY <1>1, <1>t, UseType DEF GetHit
    <2>5. answer' \in [key : Keys, value : Values]
      BY <1>1, <1>t DEF GetHit, TypeOK, Entry
    <2>6. TypeOK'
      BY <1>t, <2>3, <2>4, <2>5 DEF TypeOK, Entry
    <2>7. ListMatchesMap' /\ Capacity' /\ Mirrors'
      BY <1>t, <2>3, <2>4 DEF ListMatchesMap, Capacity, Mirrors
    <2> QED
      BY <2>6, <2>7 DEF IInv
  <1>2. ASSUME NEW k \in Keys, GetExpired(k) PROVE IInv'
    <2>1. PICK i \in DOMAIN order :
             order[i] = k /\ order' = RemoveAt(order, i)
      BY <1>2 DEF GetExpired, Unlink
    <2>2. i \in 1 .. Len(order)
      BY <2>1, <1>t
    <2>3. /\ order' \in Seq(Keys)
          /\ Len(order') = Len(order) - 1
          /\ IsInjective(order')
          /\ ToSet(order') = ToSet(order) \ {k}
      BY <2>1, <2>2, <1>t, RemoveTakesOne
    <2>4. /\ entries' = [entries EXCEPT ![k] = None]
          /\ UNCHANGED <<now, lastSet, age>>
          /\ answer' = [key |-> k, value |-> None]
      BY <1>2 DEF GetExpired
    <2>5. TypeOK'
      BY <1>t, <2>3, <2>4 DEF TypeOK
    <2>6. ListMatchesMap' /\ Capacity'
      BY <1>t, <2>3, <2>4 DEF ListMatchesMap, Capacity, TypeOK
    <2>7. Mirrors'
      BY <1>t, <2>4 DEF Mirrors, TypeOK
    <2> QED
      BY <2>5, <2>6, <2>7 DEF IInv
  <1>3. ASSUME NEW k \in Keys, GetAbsent(k) PROVE IInv'
    BY <1>3, <1>t DEF GetAbsent, IInv, TypeOK, Entry, ListMatchesMap, Capacity,
                      Mirrors
  \* The three forms of Set differ in the list only.
  <1>s. ASSUME NEW k \in Keys, NEW v \in Values, Recorded(k, v),
               order' \in Seq(Keys), IsInjective(order'),
               Len(order') <= MaxEntries,
               NEW kept \in SUBSET Keys,
               entries' = [j \in Keys |-> IF j = k THEN NewEntry(v)
                                          ELSE IF j \in kept THEN entries[j]
                                          ELSE None],
               ToSet(order') = (ToSet(order) \cap kept) \cup {k}
        PROVE  IInv'
    <2>1. NewEntry(v) \in Entry /\ NewEntry(v) # None
      BY <1>t DEF NewEntry, Entry, TypeOK
    <2>2. age' \in [Keys -> Nat]
      BY <1>s, <1>t, UseType DEF Recorded
    <2>3. /\ lastSet' = [lastSet EXCEPT ![k] = [value |-> v, at |-> now]]
          /\ UNCHANGED <<now, answer>>
      BY <1>s DEF Recorded
    <2>4. TypeOK'
      BY <1>s, <1>t, <2>1, <2>2, <2>3 DEF TypeOK, Setting
    <2>5. ListMatchesMap'
      BY <1>s, <1>t, <2>1 DEF ListMatchesMap
    <2>6. Capacity'
      BY <1>s DEF Capacity
    <2>7. Mirrors'
      BY <1>s, <1>t, <2>1, <2>3 DEF Mirrors, NewEntry, TypeOK, Setting
    <2> QED
      BY <2>4, <2>5, <2>6, <2>7 DEF IInv
  <1>4. ASSUME NEW k \in Keys, NEW v \in Values, SetPresent(k, v) PROVE IInv'
    <2>1. PICK i \in DOMAIN order :
             order[i] = k /\ order' = Cons(k, RemoveAt(order, i))
      BY <1>4 DEF SetPresent, MoveToFront
    <2>2. i \in 1 .. Len(order)
      BY <2>1, <1>t
    <2>3. /\ order' \in Seq(Keys)
          /\ Len(order') = Len(order)
          /\ IsInjective(order')
          /\ ToSet(order') = ToSet(order)
      BY <2>1, <2>2, <1>t, MoveToFrontKeeps
    <2>4. ToSet(order') = (ToSet(order) \cap Keys) \cup {k}
      <3>1. k \in ToSet(order)
        BY <1>4, <1>t DEF SetPresent
      <3>2. ToSet(order) \subseteq Keys
        BY <1>t DEF ToSet
      <3> QED
        BY <3>1, <3>2, <2>3
    <2>5. entries' = [j \in Keys |-> IF j = k THEN NewEntry(v)
                                     ELSE IF j \in Keys THEN entries[j]
                                     ELSE None]
      BY <1>4, <1>t DEF SetPresent, TypeOK
    <2>6. Recorded(k, v) /\ Len(order') <= MaxEntries
      BY <1>4, <1>t, <2>3 DEF SetPresent
    <2> QED
      BY <2>3, <2>4, <2>5, <2>6, <1>s
  <1>5. ASSUME NEW k \in Keys, NEW v \in Values, SetWithRoom(k, v) PROVE IInv'
    <2>1. k \notin ToSet(order) /\ order' = Cons(k, order)
      BY <1>5, <1>t DEF SetWithRoom, Full
    <2>2. /\ order' \in Seq(Keys)
          /\ Len(order') = Len(order) + 1
          /\ IsInjective(order')
          /\ ToSet(order') = ToSet(order) \cup {k}
      BY <2>1, <1>t, PushFrontAddsOne
    <2>3. ToSet(order') = (ToSet(order) \cap Keys) \cup {k}
      BY <2>2, <1>t DEF ToSet
    <2>4. entries' = [j \in Keys |-> IF j = k THEN NewEntry(v)
                                     ELSE IF j \in Keys THEN entries[j]
                                     ELSE None]
      BY <1>5, <1>t DEF SetWithRoom, TypeOK
    <2>5. Recorded(k, v) /\ Len(order') <= MaxEntries
      BY <1>5, <1>t, <2>2 DEF SetWithRoom, Full
    <2> QED
      BY <2>2, <2>3, <2>4, <2>5, <1>s
  <1>6. ASSUME NEW k \in Keys, NEW v \in Values, SetEvicting(k, v) PROVE IInv'
    <2> DEFINE kept == Keys \ {Last(order)}
    <2>1. k \notin ToSet(order) /\ order' = Cons(k, Front(order))
      BY <1>6, <1>t DEF SetEvicting, Full
    <2>2. order # <<>>
      <3>1. Len(order) # 0
        BY <1>6, <1>t DEF SetEvicting, Full
      <3> QED
        BY <3>1
    <2>3. /\ Front(order) \in Seq(Keys)
          /\ Len(Front(order)) = Len(order) - 1
          /\ IsInjective(Front(order))
          /\ ToSet(Front(order)) = ToSet(order) \ {Last(order)}
          /\ Last(order) \in ToSet(order)
      BY <2>2, <1>t, FrontTakesLast
    <2>4. k \notin ToSet(Front(order))
      BY <2>1, <2>3
    <2>5. /\ order' \in Seq(Keys)
          /\ Len(order') = Len(Front(order)) + 1
          /\ IsInjective(order')
          /\ ToSet(order') = ToSet(Front(order)) \cup {k}
      BY <2>1, <2>3, <2>4, PushFrontAddsOne
    <2>6. ToSet(order) \subseteq Keys
      BY <1>t DEF ToSet
    <2>7. ToSet(order') = (ToSet(order) \cap kept) \cup {k}
      BY <2>3, <2>5, <2>6
    <2>8. entries' = [j \in Keys |-> IF j = k THEN NewEntry(v)
                                     ELSE IF j \in kept THEN entries[j]
                                     ELSE None]
      BY <1>6, <1>t, <2>3, <2>6 DEF SetEvicting, TypeOK
    <2>9. Recorded(k, v) /\ Len(order') <= MaxEntries
      BY <1>6, <1>t, <2>3, <2>5 DEF SetEvicting, Full
    <2> QED
      BY <2>5, <2>7, <2>8, <2>9, <1>s
  <1>7. CASE Purge
    <2>1. order' \in Seq(Keys) /\ Len(order') = 0 /\ DOMAIN order' = {}
      BY <1>7 DEF Purge
    <2>2. TypeOK'
      BY <1>7, <1>t, <2>1 DEF Purge, TypeOK
    <2>3. ListMatchesMap'
      BY <1>7, <2>1 DEF Purge, ListMatchesMap, IsInjective, ToSet
    <2> QED
      BY <1>7, <2>1, <2>2, <2>3 DEF Purge, IInv, Capacity, Mirrors
  <1>8. CASE Tick
    BY <1>8, <1>t DEF Tick, IInv, TypeOK, ListMatchesMap, Capacity, Mirrors
  <1>9. CASE UNCHANGED vars
    BY <1>9, <1>t DEF vars, IInv, TypeOK, ListMatchesMap, Capacity, Mirrors
  <1> QED
    BY <1>1, <1>2, <1>3, <1>4, <1>5, <1>6, <1>7, <1>8, <1>9 DEF Next

LEMMA Invariance == Spec => []IInv
  <1> QED
    BY InitIInv, StepIInv, PTL DEF Spec

\* Every variable keeps its type.
THEOREM TypeCorrect == Spec => []TypeOK
  <1>1. IInv => TypeOK
    BY DEF IInv
  <1> QED
    BY <1>1, Invariance, PTL

\* Map and list always hold the same keys, and each key once.
THEOREM Consistent == Spec => []ListMatchesMap
  <1>1. IInv => ListMatchesMap
    BY DEF IInv
  <1> QED
    BY <1>1, Invariance, PTL

\* The cache never holds more entries than configured.
THEOREM Bounded == Spec => []Capacity
  <1>1. IInv => Capacity
    BY DEF IInv
  <1> QED
    BY <1>1, Invariance, PTL

-----------------------------------------------------------------------------
(***************************************************************************)
(* Refinement: Get is a GetValue or a GetNothing of TTLStore, every Set a  *)
(* Set, whatever it evicts.                                                *)
(***************************************************************************)

LEMMA InitRefines == Init => Store!Init
  BY DEF Init, Store!Init

LEMMA StepRefines == IInv /\ [Next]_vars => [Store!Next]_(Store!vars)
  <1> SUFFICES ASSUME IInv, [Next]_vars PROVE [Store!Next]_(Store!vars)
    OBVIOUS
  <1> USE CacheAssumption
  <1>t. TypeOK /\ Mirrors
    BY DEF IInv
  <1>1. ASSUME NEW k \in Keys, GetHit(k) PROVE Store!GetValue(k)
    BY <1>1, <1>t
       DEF GetHit, Expired, Store!GetValue, Store!Alive, Mirrors, TypeOK, Setting
  <1>2. ASSUME NEW k \in Keys, GetExpired(k) \/ GetAbsent(k)
        PROVE  Store!GetNothing(k)
    BY <1>2 DEF GetExpired, GetAbsent, Store!GetNothing
  <1>3. ASSUME NEW k \in Keys, NEW v \in Values,
               SetPresent(k, v) \/ SetWithRoom(k, v) \/ SetEvicting(k, v)
        PROVE  Store!Set(k, v)
    BY <1>3 DEF SetPresent, SetWithRoom, SetEvicting, Recorded, Store!Set
  <1>4. CASE Purge
    BY <1>4 DEF Purge, Store!Purge, Store!Next
  <1>5. CASE Tick
    BY <1>5 DEF Tick, Store!Tick, Store!Next
  <1>6. CASE UNCHANGED vars
    BY <1>6 DEF vars, Store!vars
  <1> QED
    BY <1>1, <1>2, <1>3, <1>4, <1>5, <1>6 DEF Next, Store!Next

\* queryCache implements TTLStore for every capacity, TTL and history.
THEOREM Refinement == Spec => ImplementsTTLStore
  <1> QED
    BY InitRefines, StepRefines, Invariance, PTL
       DEF Spec, Store!Spec, ImplementsTTLStore

-----------------------------------------------------------------------------
(***************************************************************************)
(* Retention.  An age below MaxEntries is the rank of its key: it counts   *)
(* the keys of smaller age.  The list is in the order of the ages, so the  *)
(* last of MaxEntries keys is one that MaxEntries - 1 others were used     *)
(* after, and the key being set is one more.                               *)
(***************************************************************************)

Below(k) == {j \in Keys : age[j] < age[k]}

Ranks ==
    /\ \A k \in Keys : age[k] <= MaxEntries
    /\ \A x, y \in Keys : x # y /\ age[x] = age[y] => age[x] = MaxEntries
    /\ \A k \in Keys :
          age[k] < MaxEntries =>
              IsFiniteSet(Below(k)) /\ Cardinality(Below(k)) = age[k]

ListByAge ==
    \A i, j \in 1 .. Len(order) :
        i < j => \/ age[order[i]] < age[order[j]]
                 \/ age[order[j]] = MaxEntries

RInv == IInv /\ Ranks /\ ListByAge /\ RetainsRecent

\* A use of k, key by key.
LEMMA UsedAges ==
  ASSUME TypeOK, Ranks, NEW k \in Keys, Use(k)
  PROVE  /\ age' \in [Keys -> Nat]
         /\ age'[k] = 0
         /\ \A j \in Keys :
               /\ j # k /\ age[j] < age[k] => age'[j] = age[j] + 1
               /\ j # k /\ age[k] <= age[j] => age'[j] = age[j]
               /\ j # k => age[j] <= age'[j] /\ 0 < age'[j]
  <1>1. age \in [Keys -> Nat]
    BY DEF TypeOK
  <1>2. age' \in [Keys -> Nat] /\ age'[k] = 0
    BY <1>1 DEF Use
  <1>3. ASSUME NEW j \in Keys, j # k
        PROVE  /\ age[j] < age[k] => age'[j] = age[j] + 1
               /\ age[k] <= age[j] => age'[j] = age[j]
    BY <1>1, <1>3 DEF Use
  <1>4. ASSUME NEW j \in Keys, j # k PROVE age[j] <= age'[j] /\ 0 < age'[j]
    <2>1. /\ age[j] \in Nat /\ age[k] \in Nat
          /\ age[j] = age[k] => age[k] > 0
      BY <1>1, <1>4, CacheAssumption DEF Ranks
    <2> QED
      BY <1>3, <1>4, <2>1
  <1> QED
    BY <1>2, <1>3, <1>4

LEMMA RanksAfterUse ==
  ASSUME TypeOK, Ranks, NEW k \in Keys, Use(k)
  PROVE  Ranks'
  <1> USE CacheAssumption
  <1>1. /\ age \in [Keys -> Nat] /\ age' \in [Keys -> Nat] /\ age'[k] = 0
        /\ \A j \in Keys :
              /\ j # k /\ age[j] < age[k] => age'[j] = age[j] + 1
              /\ j # k /\ age[k] <= age[j] => age'[j] = age[j]
              /\ j # k => age[j] <= age'[j] /\ 0 < age'[j]
    BY UsedAges DEF TypeOK
  <1>2. /\ \A j \in Keys : age[j] <= MaxEntries
        /\ \A x, y \in Keys : x # y /\ age[x] = age[y] => age[x] = MaxEntries
    BY DEF Ranks
  <1>3. ASSUME NEW j \in Keys PROVE age'[j] <= MaxEntries
    <2>1. age[j] \in Nat /\ age[k] \in Nat /\ age[k] <= MaxEntries
      BY <1>1, <1>2
    <2> QED
      BY <1>1, <1>2, <2>1
  <1>4. ASSUME NEW x \in Keys, NEW y \in Keys, x # y, age'[x] = age'[y]
        PROVE  age'[x] = MaxEntries
    <2>1. /\ age[x] \in Nat /\ age[y] \in Nat /\ age[k] \in Nat
          /\ age[k] <= MaxEntries
      BY <1>1, <1>2
    <2>2. x # k /\ y # k
      BY <1>1, <1>4
    <2>3. CASE age[x] < age[k]
      BY <1>1, <1>2, <1>4, <2>1, <2>2, <2>3
    <2>4. CASE age[k] <= age[x]
      BY <1>1, <1>2, <1>4, <2>1, <2>2, <2>4
    <2> QED
      BY <2>1, <2>3, <2>4
  <1>5. ASSUME NEW y \in Keys, age'[y] < MaxEntries
        PROVE  IsFiniteSet(Below(y)') /\ Cardinality(Below(y)') = age'[y]
    <2>1. CASE y = k
      <3>1. Below(y)' = {}
        BY <1>1, <2>1 DEF Below
      <3> QED
        BY <1>1, <2>1, <3>1, FS_EmptySet
    <2>2. ASSUME y # k
          PROVE  /\ age[y] \in Nat /\ age[k] \in Nat /\ age[y] < MaxEntries
                 /\ IsFiniteSet(Below(y)) /\ Cardinality(Below(y)) = age[y]
      <3>1. age[y] \in Nat /\ age[k] \in Nat /\ age'[y] \in Nat
            /\ age[y] <= age'[y]
        BY <1>1, <2>2
      <3>2. age[y] < MaxEntries
        BY <1>5, <3>1
      <3> QED
        BY <3>1, <3>2 DEF Ranks
    <2>3. CASE y # k /\ age[y] < age[k]
      <3>1. ASSUME NEW x \in Keys
            PROVE  age'[x] < age'[y] <=> x = k \/ age[x] < age[y]
        <4>1. /\ age[x] \in Nat /\ age[y] \in Nat /\ age[k] \in Nat
              /\ age'[y] = age[y] + 1
          BY <1>1, <2>3
        <4>2. CASE x = k
          BY <1>1, <4>1, <4>2
        <4>3. CASE x # k /\ age[x] < age[k]
          BY <1>1, <4>1, <4>3
        <4>4. CASE x # k /\ age[k] <= age[x]
          <5>1. age'[x] = age[x]
            BY <1>1, <4>4
          <5> QED
            BY <2>3, <4>1, <4>4, <5>1
        <4> QED
          BY <4>1, <4>2, <4>3, <4>4
      <3>2. Below(y)' = Below(y) \cup {k}
        BY <3>1 DEF Below
      <3>3. k \notin Below(y)
        BY <2>2, <2>3 DEF Below
      <3> QED
        BY <1>1, <2>2, <2>3, <3>2, <3>3, FS_AddElement
    <2>4. CASE y # k /\ age[k] <= age[y]
      <3>1. age[k] < age[y]
        BY <1>2, <2>2, <2>4
      <3>2. ASSUME NEW x \in Keys
            PROVE  age'[x] < age'[y] <=> age[x] < age[y]
        <4>1. /\ age[x] \in Nat /\ age[y] \in Nat /\ age[k] \in Nat
              /\ age'[y] = age[y]
          BY <1>1, <2>4
        <4>2. CASE x = k
          BY <1>1, <3>1, <4>1, <4>2
        <4>3. CASE x # k /\ age[x] < age[k]
          BY <1>1, <3>1, <4>1, <4>3
        <4>4. CASE x # k /\ age[k] <= age[x]
          BY <1>1, <4>1, <4>4
        <4> QED
          BY <4>1, <4>2, <4>3, <4>4
      <3>3. Below(y)' = Below(y)
        BY <3>2 DEF Below
      <3> QED
        BY <1>1, <2>2, <2>4, <3>3
    <2> QED
      BY <2>2, <2>3, <2>4, <2>1
  <1> QED
    BY <1>3, <1>4, <1>5 DEF Ranks

\* t has elements of s in the order they have there.
Subsequence(t, s) ==
    \A i, j \in 1 .. Len(t) :
        i < j => \E g, h \in 1 .. Len(s) :
                     g < h /\ t[i] = s[g] /\ t[j] = s[h]

LEMMA RemoveAtSubsequence ==
  ASSUME NEW S, NEW s \in Seq(S), NEW i \in 1 .. Len(s)
  PROVE  Subsequence(RemoveAt(s, i), s)
  <1> DEFINE r == RemoveAt(s, i)
  <1>1. /\ Len(s) \in Nat /\ Len(r) = Len(s) - 1
        /\ \A j \in 1 .. Len(s) - 1 : r[j] = IF j < i THEN s[j] ELSE s[j + 1]
    BY RemoveAtElements
  <1> HIDE DEF r
  <1>2. ASSUME NEW a \in 1 .. Len(r), NEW b \in 1 .. Len(r), a < b
        PROVE  \E g, h \in 1 .. Len(s) : g < h /\ r[a] = s[g] /\ r[b] = s[h]
    <2> DEFINE from(j) == IF j < i THEN j ELSE j + 1
    <2>1. from(a) \in 1 .. Len(s) /\ from(b) \in 1 .. Len(s) /\ from(a) < from(b)
      BY <1>1, <1>2
    <2>2. r[a] = s[from(a)] /\ r[b] = s[from(b)]
      BY <1>1
    <2> HIDE DEF from
    <2> QED
      BY <2>1, <2>2
  <1> QED
    BY <1>2 DEF Subsequence, r

LEMMA FrontSubsequence ==
  ASSUME NEW S, NEW s \in Seq(S), s # <<>>
  PROVE  Subsequence(Front(s), s)
  <1> DEFINE f == Front(s)
  <1>1. /\ Len(s) \in Nat /\ Len(f) = Len(s) - 1
        /\ \A j \in 1 .. Len(s) - 1 : f[j] = s[j]
    BY FrontElements
  <1> HIDE DEF f
  <1>2. ASSUME NEW a \in 1 .. Len(f), NEW b \in 1 .. Len(f), a < b
        PROVE  \E g, h \in 1 .. Len(s) : g < h /\ f[a] = s[g] /\ f[b] = s[h]
    BY <1>1, <1>2
  <1> QED
    BY <1>2 DEF Subsequence, f

\* The key used goes to the front, and what it passes keeps its order.
LEMMA ListAfterUse ==
  ASSUME IInv, Ranks, ListByAge, NEW k \in Keys, Use(k),
         NEW rest \in Seq(Keys), Subsequence(rest, order), k \notin ToSet(rest),
         order' = Cons(k, rest)
  PROVE  ListByAge'
  <1>1. /\ age \in [Keys -> Nat] /\ age' \in [Keys -> Nat] /\ age'[k] = 0
        /\ \A j \in Keys :
              /\ j # k /\ age[j] < age[k] => age'[j] = age[j] + 1
              /\ j # k /\ age[k] <= age[j] => age'[j] = age[j]
              /\ j # k => age[j] <= age'[j] /\ 0 < age'[j]
    BY UsedAges DEF IInv, TypeOK
  <1>2. /\ \A j \in Keys : age[j] <= MaxEntries
        /\ \A x, y \in Keys : x # y /\ age[x] = age[y] => age[x] = MaxEntries
    BY DEF Ranks
  <1>3. /\ Len(rest) \in Nat
        /\ Len(order') = Len(rest) + 1
        /\ \A j \in 1 .. Len(rest) + 1 :
              order'[j] = IF j = 1 THEN k ELSE rest[j - 1]
    <2>1. /\ Cons(k, rest) \in Seq(Keys)
          /\ Len(Cons(k, rest)) = Len(rest) + 1
          /\ \A j \in 1 .. Len(rest) + 1 :
                Cons(k, rest)[j] = IF j = 1 THEN k ELSE rest[j - 1]
      BY ONLY rest \in Seq(Keys), k \in Keys, ConsElements
    <2> QED
      BY <2>1, LenProperties
  <1>4. \A j \in 1 .. Len(rest) : rest[j] \in Keys /\ rest[j] # k
    BY ElementOfSeq, Elements
  <1>5. ASSUME NEW x \in Keys, NEW y \in Keys, x # k, y # k,
               age[x] < age[y] \/ age[y] = MaxEntries
        PROVE  age'[x] < age'[y] \/ age'[y] = MaxEntries
    <2>1. /\ age[x] \in Nat /\ age[y] \in Nat /\ age[k] \in Nat
          /\ age[k] <= MaxEntries /\ age[x] <= MaxEntries
          /\ MaxEntries \in Nat
      BY <1>1, <1>2, CacheAssumption
    <2>2. CASE age[y] = MaxEntries
      BY <1>1, <1>5, <2>1, <2>2
    <2>3. CASE age[x] < age[y] /\ age[y] < age[k]
      <3>1. age[x] < age[k]
        BY <2>1, <2>3
      <3>2. age'[x] = age[x] + 1 /\ age'[y] = age[y] + 1
        BY <1>1, <1>5, <2>3, <3>1
      <3> QED
        BY <2>1, <2>3, <3>2
    <2>4. CASE age[x] < age[y] /\ age[k] <= age[y] /\ age[y] # MaxEntries
      <3>1. age[k] < age[y]
        BY <1>2, <1>5, <2>1, <2>4
      <3> QED
        BY <1>1, <1>5, <2>1, <2>4, <3>1
    <2> QED
      BY <1>5, <2>1, <2>2, <2>3, <2>4
  <1>6. ASSUME NEW i \in 1 .. Len(rest) + 1, NEW j \in 1 .. Len(rest) + 1, i < j
        PROVE  age'[order'[i]] < age'[order'[j]] \/ age'[order'[j]] = MaxEntries
    <2>1. /\ order'[j] = rest[j - 1] /\ j - 1 \in 1 .. Len(rest)
          /\ order'[j] \in Keys /\ order'[j] # k
      BY <1>3, <1>4, <1>6
    <2>2. CASE i = 1
      BY <1>1, <1>3, <2>1, <2>2
    <2>3. CASE i # 1
      <3>1. /\ order'[i] = rest[i - 1] /\ i - 1 \in 1 .. Len(rest)
            /\ order'[i] \in Keys /\ order'[i] # k
        BY <1>3, <1>4, <2>3
      <3>2. PICK g \in 1 .. Len(order), h \in 1 .. Len(order) :
               g < h /\ rest[i - 1] = order[g] /\ rest[j - 1] = order[h]
        <4>1. i - 1 < j - 1
          BY <1>6
        <4> QED
          BY <2>1, <3>1, <4>1 DEF Subsequence
      <3>3. \/ age[order'[i]] < age[order'[j]]
            \/ age[order'[j]] = MaxEntries
        BY <2>1, <3>1, <3>2 DEF ListByAge
      <3> QED
        BY <1>5, <2>1, <3>1, <3>3
    <2> QED
      BY <2>2, <2>3
  <1> QED
    BY <1>3, <1>6 DEF ListByAge

\* Distinct members of a finite set are no more than it has.
LEMMA DistinctMembers ==
  ASSUME NEW T, IsFiniteSet(T), NEW n \in Nat, NEW f \in [1 .. n -> T],
         \A i, j \in 1 .. n : f[i] = f[j] => i = j
  PROVE  n <= Cardinality(T)
  <1>1. Cardinality(T) \in Nat
    BY FS_CardinalityType
  <1>2. IsFiniteSet(1 .. n) /\ Cardinality(1 .. n) = n
    BY FS_Interval
  <1>3. ASSUME Cardinality(T) < n PROVE FALSE
    <2>1. \E x, y \in 1 .. n : x # y /\ f[x] = f[y]
      BY <1>2, <1>3, FS_PigeonHole
    <2> QED
      BY <2>1
  <1> QED
    BY <1>1, <1>3

\* The key that a full list gives up was not among the MaxEntries latest.
LEMMA EvictedIsOld ==
  ASSUME IInv, Ranks, ListByAge, NEW k \in Keys, Use(k), k \notin ToSet(order),
         Len(order) >= MaxEntries
  PROVE  /\ order # <<>> /\ Last(order) \in Keys
         /\ ~ (age'[Last(order)] < MaxEntries)
  <1> USE CacheAssumption
  <1> DEFINE M == MaxEntries
             L == Last(order)
  <1>1. /\ age \in [Keys -> Nat] /\ age' \in [Keys -> Nat]
        /\ \A j \in Keys :
              /\ j # k /\ age[j] < age[k] => age'[j] = age[j] + 1
              /\ j # k => age[j] <= age'[j]
    BY UsedAges DEF IInv, TypeOK
  <1>2. /\ order \in Seq(Keys) /\ Len(order) = M
        /\ \A x : x \in ToSet(order) <=> \E j \in 1 .. Len(order) : order[j] = x
        /\ \A a, b \in 1 .. Len(order) : order[a] = order[b] => a = b
    BY Elements DEF IInv, TypeOK, ListMatchesMap, Capacity
  <1>3. /\ order # <<>> /\ L = order[M] /\ M \in 1 .. M
        /\ \A j \in 1 .. M : order[j] \in Keys /\ order[j] # k
    BY <1>2, ElementOfSeq DEF Last
  <1>4. L \in Keys /\ L # k
    BY <1>3
  <1> HIDE DEF M, L
  <1>m. M \in Nat \ {0} /\ M = MaxEntries
    BY DEF M
  <1>5. SUFFICES ASSUME age'[L] < M PROVE FALSE
    BY <1>3, <1>4 DEF L, M
  <1>6. /\ age[L] \in Nat /\ age[k] \in Nat /\ age[L] < M
        /\ IsFiniteSet(Below(L)) /\ Cardinality(Below(L)) = age[L]
    <2>1. age[L] \in Nat /\ age[k] \in Nat /\ age'[L] \in Nat /\ age[L] <= age'[L]
      BY <1>1, <1>4
    <2>2. age[L] < M
      BY <1>5, <1>m, <2>1
    <2> QED
      BY <1>4, <1>m, <2>1, <2>2 DEF Ranks
  <1>7. \A j \in 1 .. M - 1 : order[j] \in Below(L)
    <2>1. ASSUME NEW j \in 1 .. M - 1 PROVE order[j] \in Below(L)
      <3>1. j \in 1 .. M /\ j < M /\ age[order[M]] # MaxEntries
        BY <1>3, <1>6, <1>m
      <3>2. age[order[j]] < age[order[M]]
        BY <1>2, <1>3, <3>1 DEF ListByAge
      <3> QED
        BY <1>3, <3>1, <3>2 DEF Below
    <2> QED
      BY <2>1
  <1>8. CASE age[k] < age[L]
    <2> DEFINE f == [j \in 1 .. M |-> IF j < M THEN order[j] ELSE k]
    <2>1. k \in Below(L)
      BY <1>8 DEF Below
    <2>2. f \in [1 .. M -> Below(L)]
      BY <1>7, <1>m, <2>1
    <2>3. \A i, j \in 1 .. M : f[i] = f[j] => i = j
      BY <1>2, <1>3, <1>m
    <2> HIDE DEF f
    <2>4. M <= Cardinality(Below(L))
      BY <1>6, <1>m, <2>2, <2>3, DistinctMembers
    <2> QED
      BY <1>6, <1>m, <2>4
  <1>9. CASE ~ (age[k] < age[L])
    <2>1. age[L] < age[k]
      BY <1>4, <1>6, <1>9, <1>m DEF Ranks
    <2>2. age'[L] = age[L] + 1
      BY <1>1, <1>4, <2>1
    <2> DEFINE n == M - 1
               f == [j \in 1 .. n |-> order[j]]
    <2>3. n \in Nat /\ f \in [1 .. n -> Below(L)]
      BY <1>7, <1>m
    <2>4. \A i, j \in 1 .. n : f[i] = f[j] => i = j
      BY <1>2, <1>m
    <2> HIDE DEF f
    <2>5. n <= Cardinality(Below(L))
      BY <1>6, <2>3, <2>4, DistinctMembers
    <2> QED
      BY <1>5, <1>6, <1>m, <2>2, <2>5
  <1> QED
    BY <1>8, <1>9

LEMMA InitRInv == Init => RInv
  <1> SUFFICES ASSUME Init PROVE RInv
    OBVIOUS
  <1>1. \A k \in Keys : age[k] = MaxEntries /\ lastSet[k] = None
    BY DEF Init
  <1>2. Len(order) = 0
    BY DEF Init
  <1>3. Ranks
    BY <1>1, CacheAssumption DEF Ranks
  <1>4. ListByAge /\ RetainsRecent
    BY <1>1, <1>2 DEF ListByAge, RetainsRecent
  <1> QED
    BY <1>3, <1>4, InitIInv DEF RInv

\* After a use of k the keys used recently are k and some that were before.
LEMMA RecentAfterUse ==
  ASSUME TypeOK, Ranks, NEW k \in Keys, Use(k),
         NEW j \in Keys, j # k, age'[j] < MaxEntries
  PROVE  age[j] < MaxEntries
  <1>1. /\ age[j] \in Nat /\ age'[j] \in Nat /\ age[j] <= age'[j]
    BY UsedAges DEF TypeOK
  <1> QED
    BY <1>1, CacheAssumption

LEMMA StepRInv == RInv /\ [Next]_vars => RInv'
  <1> SUFFICES ASSUME RInv, [Next]_vars PROVE RInv'
    OBVIOUS
  <1> USE CacheAssumption
  <1>i. IInv /\ Ranks /\ ListByAge /\ RetainsRecent /\ IInv'
    BY StepIInv DEF RInv
  <1>t. /\ TypeOK /\ TypeOK' /\ Mirrors
        /\ order \in Seq(Keys) /\ IsInjective(order)
        /\ \A x : x \in ToSet(order) <=> \E j \in 1 .. Len(order) : order[j] = x
        /\ \A k \in Keys : entries[k] # None <=> k \in ToSet(order)
    BY <1>i, Elements DEF IInv, TypeOK, ListMatchesMap
  \* MoveToFront is a use that keeps the list's keys.
  <1>f. ASSUME NEW k \in Keys, Use(k), MoveToFront(k) PROVE Ranks' /\ ListByAge'
    <2>1. PICK i \in 1 .. Len(order) :
             order[i] = k /\ order' = Cons(k, RemoveAt(order, i))
      BY <1>f, <1>t DEF MoveToFront
    <2> DEFINE rest == RemoveAt(order, i)
    <2>2. rest \in Seq(Keys) /\ k \notin ToSet(rest) /\ Subsequence(rest, order)
      BY <1>t, <2>1, RemoveTakesOne, RemoveAtSubsequence
    <2> HIDE DEF rest
    <2>3. order' = Cons(k, rest)
      BY <2>1 DEF rest
    <2> QED
      BY <1>f, <1>i, <1>t, <2>2, <2>3, RanksAfterUse, ListAfterUse
  <1>1. ASSUME NEW k \in Keys, GetHit(k) PROVE RInv'
    <2>1. Use(k) /\ MoveToFront(k) /\ entries[k] # None
          /\ UNCHANGED <<now, entries, lastSet>>
      BY <1>1 DEF GetHit
    <2>2. RetainsRecent'
      BY <1>i, <1>t, <2>1, RecentAfterUse DEF RetainsRecent
    <2> QED
      BY <1>f, <1>i, <2>1, <2>2 DEF RInv
  <1>2. ASSUME NEW k \in Keys, GetExpired(k) PROVE RInv'
    <2>1. /\ entries[k] # None /\ Expired(k) /\ Unlink(k)
          /\ entries' = [entries EXCEPT ![k] = None]
          /\ UNCHANGED <<now, lastSet, age>>
      BY <1>2 DEF GetExpired
    <2>2. Ranks'
      BY <1>i, <2>1 DEF Ranks, Below
    <2>3. ListByAge'
      <3>1. PICK i \in 1 .. Len(order) : order' = RemoveAt(order, i)
        BY <1>t, <2>1 DEF Unlink
      <3>2. Subsequence(order', order)
        BY <1>t, <3>1, RemoveAtSubsequence
      <3>3. ASSUME NEW a \in 1 .. Len(order'), NEW b \in 1 .. Len(order'),
                   a < b
            PROVE  \/ age[order'[a]] < age[order'[b]]
                   \/ age[order'[b]] = MaxEntries
        <4>1. PICK g \in 1 .. Len(order), h \in 1 .. Len(order) :
                 g < h /\ order'[a] = order[g] /\ order'[b] = order[h]
          BY <3>2, <3>3 DEF Subsequence
        <4> QED
          BY <1>i, <4>1 DEF ListByAge
      <3> QED
        BY <2>1, <3>3 DEF ListByAge
    <2>4. RetainsRecent'
      <3>1. lastSet[k] \in Setting /\ ~ (now <= lastSet[k].at + TTL)
        BY <1>t, <2>1 DEF Mirrors, Expired, TypeOK, Setting
      <3> QED
        BY <1>i, <1>t, <2>1, <3>1 DEF RetainsRecent, TypeOK
    <2> QED
      BY <1>i, <2>2, <2>3, <2>4 DEF RInv
  <1>3. ASSUME NEW k \in Keys, GetAbsent(k) PROVE RInv'
    BY <1>3, <1>i DEF GetAbsent, RInv, Ranks, Below, ListByAge, RetainsRecent
  \* A Set keeps what it does not evict, and that is not recent.
  <1>s. ASSUME NEW k \in Keys, NEW v \in Values, Recorded(k, v),
               entries'[k] = NewEntry(v),
               \A j \in Keys : j # k /\ entries'[j] # entries[j] =>
                                  ~ (age'[j] < MaxEntries)
        PROVE  RetainsRecent'
    <2>1. NewEntry(v) # None
      BY <1>t DEF NewEntry, Entry, TypeOK
    <2>2. /\ UNCHANGED now /\ Use(k)
          /\ \A j \in Keys : j # k => lastSet'[j] = lastSet[j]
      BY <1>s, <1>t DEF Recorded, TypeOK
    <2>3. \A j \in Keys : j # k /\ age'[j] < MaxEntries => age[j] < MaxEntries
      BY <1>i, <1>t, <2>2, RecentAfterUse
    <2> QED
      BY <1>i, <1>s, <2>1, <2>2, <2>3 DEF RetainsRecent
  <1>4. ASSUME NEW k \in Keys, NEW v \in Values, SetPresent(k, v) PROVE RInv'
    <2>1. /\ MoveToFront(k) /\ Recorded(k, v) /\ Use(k)
          /\ entries' = [entries EXCEPT ![k] = NewEntry(v)]
      BY <1>4 DEF SetPresent, Recorded
    <2>2. RetainsRecent'
      BY <1>s, <1>t, <2>1 DEF TypeOK
    <2> QED
      BY <1>f, <1>i, <2>1, <2>2 DEF RInv
  <1>5. ASSUME NEW k \in Keys, NEW v \in Values, SetWithRoom(k, v) PROVE RInv'
    <2>1. /\ order' = Cons(k, order) /\ Recorded(k, v) /\ Use(k)
          /\ entries' = [entries EXCEPT ![k] = NewEntry(v)]
          /\ k \notin ToSet(order)
      BY <1>5, <1>t DEF SetWithRoom, Recorded
    <2>2. RetainsRecent'
      BY <1>s, <1>t, <2>1 DEF TypeOK
    <2>3. Subsequence(order, order)
      BY DEF Subsequence
    <2>4. Ranks' /\ ListByAge'
      BY <1>i, <1>t, <2>1, <2>3, RanksAfterUse, ListAfterUse
    <2> QED
      BY <1>i, <2>2, <2>4 DEF RInv
  <1>6. ASSUME NEW k \in Keys, NEW v \in Values, SetEvicting(k, v) PROVE RInv'
    <2>1. /\ order' = Cons(k, Front(order)) /\ Recorded(k, v) /\ Use(k)
          /\ entries' = [entries EXCEPT ![Last(order)] = None,
                                        ![k] = NewEntry(v)]
          /\ k \notin ToSet(order) /\ Len(order) >= MaxEntries
      BY <1>6, <1>t DEF SetEvicting, Recorded, Full
    <2>2. /\ order # <<>> /\ Last(order) \in Keys
          /\ ~ (age'[Last(order)] < MaxEntries)
      BY <1>i, <2>1, EvictedIsOld
    <2>3. RetainsRecent'
      BY <1>s, <1>t, <2>1, <2>2 DEF TypeOK
    <2> DEFINE rest == Front(order)
    <2>4. rest \in Seq(Keys) /\ Subsequence(rest, order) /\ k \notin ToSet(rest)
      BY <1>t, <2>1, <2>2, FrontTakesLast, FrontSubsequence
    <2> HIDE DEF rest
    <2>5. order' = Cons(k, rest)
      BY <2>1 DEF rest
    <2>6. Ranks' /\ ListByAge'
      BY <1>i, <1>t, <2>1, <2>4, <2>5, RanksAfterUse, ListAfterUse
    <2> QED
      BY <1>i, <2>3, <2>6 DEF RInv
  <1>7. CASE Purge
    <2>1. /\ Len(order') = 0 /\ UNCHANGED age
          /\ lastSet' = [k \in Keys |-> None]
      BY <1>7 DEF Purge
    <2>2. Ranks'
      BY <1>i, <2>1 DEF Ranks, Below
    <2>3. ListByAge' /\ RetainsRecent'
      BY <2>1 DEF ListByAge, RetainsRecent
    <2> QED
      BY <1>i, <2>2, <2>3 DEF RInv
  <1>8. CASE Tick
    <2>1. now' = now + 1 /\ UNCHANGED <<entries, order, lastSet, age>>
      BY <1>8 DEF Tick
    <2>2. Ranks' /\ ListByAge'
      BY <1>i, <2>1 DEF Ranks, Below, ListByAge
    <2>3. RetainsRecent'
      BY <1>i, <1>t, <2>1 DEF RetainsRecent, TypeOK, Setting
    <2> QED
      BY <1>i, <2>2, <2>3 DEF RInv
  <1>9. CASE UNCHANGED vars
    BY <1>9, <1>i DEF vars, RInv, Ranks, Below, ListByAge, RetainsRecent
  <1> QED
    BY <1>1, <1>2, <1>3, <1>4, <1>5, <1>6, <1>7, <1>8, <1>9 DEF Next

\* No sequence of hits, overwrites, expiries and evictions loses a key that
\* fewer than MaxEntries others were used after.
THEOREM Retention == Spec => []RetainsRecent
  <1>1. RInv => RetainsRecent
    BY DEF RInv
  <1> QED
    BY InitRInv, StepRInv, <1>1, PTL DEF Spec
=============================================================================
