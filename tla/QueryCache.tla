----------------------------- MODULE QueryCache -----------------------------
(***************************************************************************)
(* queryCache (cache.go): a map from fingerprints to list elements and a   *)
(* list in order of use.  Every method runs under c.mu, so each is one     *)
(* step; a nil cache and a nil value do nothing and are not steps.         *)
(*                                                                         *)
(* The map is the function `entries', the list the sequence `order', its   *)
(* front first.  A *list.Element is the position i of its key in `order'.  *)
(***************************************************************************)
EXTENDS SequencesExt

CONSTANTS
    Keys,        \* fingerprints
    Values,      \* search responses
    MaxEntries,  \* c.max (newQueryCache: > 0)
    TTL,         \* c.ttl, in ticks (newQueryCache: > 0)
    MaxTime,     \* bound of the clock
    None         \* absent map entry, or the nil a Get returns

Entry   == [value : Values, expiry : Nat]   \* cacheEntry
Setting == [value : Values, at : Nat]       \* a Set, as the history keeps it

ASSUME CacheAssumption ==
    /\ MaxEntries \in Nat \ {0}
    /\ TTL \in Nat \ {0}
    /\ MaxTime \in Nat
    /\ None \notin Values \cup Entry \cup Setting

VARIABLES
    now,      \* time.Now(), in ticks
    entries,  \* c.entries: key -> value and expiry
    order,    \* c.order: keys, most recently used first
    answer,   \* what the latest Get returned, and for which key
    lastSet,  \* history: value and time of each key's latest Set since a Purge
    age       \* history: distinct other keys used since each key's last use

vars == <<now, entries, order, answer, lastSet, age>>

TypeOK ==
    /\ now \in Nat
    /\ entries \in [Keys -> Entry \cup {None}]
    /\ order \in Seq(Keys)
    /\ answer \in [key : Keys, value : Values \cup {None}] \cup {None}
    /\ lastSet \in [Keys -> Setting \cup {None}]
    /\ age \in [Keys -> Nat]

Init ==
    /\ now = 0
    /\ entries = [k \in Keys |-> None]
    /\ order = <<>>
    /\ answer = None
    /\ lastSet = [k \in Keys |-> None]
    /\ age = [k \in Keys |-> MaxEntries]

\* A use of k: every key used more recently than k has one more key after it.
Use(k) ==
    age' = [j \in Keys |-> CASE j = k           -> 0
                             [] age[j] < age[k] -> age[j] + 1
                             [] OTHER           -> age[j]]

\* Mutant of Expired: nothing ever is.
ExpiredNever(k) == FALSE

Expired(k) == now > entries[k].expiry

\* Mutant of MoveToFront: the list is left as it is.
MoveNowhere(k) == UNCHANGED order

MoveToFront(k) ==
    \E i \in DOMAIN order :
        order[i] = k /\ order' = Cons(k, RemoveAt(order, i))

\* Mutant of Unlink: the element stays in the list.
UnlinkNothing(k) == UNCHANGED order

Unlink(k) ==
    \E i \in DOMAIN order : order[i] = k /\ order' = RemoveAt(order, i)

\* Mutant of Full: one entry too many.
FullLater == Len(order) > MaxEntries

Full == Len(order) >= MaxEntries

-----------------------------------------------------------------------------
(***************************************************************************)
(* Get.                                                                    *)
(***************************************************************************)

GetHit(k) ==
    /\ entries[k] # None
    /\ ~ Expired(k)
    /\ MoveToFront(k)
    /\ answer' = [key |-> k, value |-> entries[k].value]
    /\ Use(k)
    /\ UNCHANGED <<now, entries, lastSet>>

GetExpired(k) ==
    /\ entries[k] # None
    /\ Expired(k)
    /\ Unlink(k)
    /\ entries' = [entries EXCEPT ![k] = None]
    /\ answer' = [key |-> k, value |-> None]
    /\ UNCHANGED <<now, lastSet, age>>

GetAbsent(k) ==
    /\ entries[k] = None
    /\ answer' = [key |-> k, value |-> None]
    /\ UNCHANGED <<now, entries, order, lastSet, age>>

(***************************************************************************)
(* Set.                                                                    *)
(***************************************************************************)

\* Mutant of NewEntry: the TTL is counted backwards.
NewEntryBackwards(v) == [value |-> v, expiry |-> now - TTL]

NewEntry(v) == [value |-> v, expiry |-> now + TTL]

Recorded(k, v) ==
    /\ lastSet' = [lastSet EXCEPT ![k] = [value |-> v, at |-> now]]
    /\ Use(k)
    /\ UNCHANGED <<now, answer>>

SetPresent(k, v) ==
    /\ entries[k] # None
    /\ entries' = [entries EXCEPT ![k] = NewEntry(v)]
    /\ MoveToFront(k)
    /\ Recorded(k, v)

SetWithRoom(k, v) ==
    /\ entries[k] = None
    /\ ~ Full
    /\ entries' = [entries EXCEPT ![k] = NewEntry(v)]
    /\ order' = Cons(k, order)
    /\ Recorded(k, v)

SetEvicting(k, v) ==
    /\ entries[k] = None
    /\ Full
    /\ entries' = [entries EXCEPT ![Last(order)] = None, ![k] = NewEntry(v)]
    /\ order' = Cons(k, Front(order))
    /\ Recorded(k, v)

Purge ==
    /\ entries' = [k \in Keys |-> None]
    /\ order' = <<>>
    /\ lastSet' = [k \in Keys |-> None]
    /\ UNCHANGED <<now, answer, age>>

Tick ==
    /\ now < MaxTime
    /\ now' = now + 1
    /\ UNCHANGED <<entries, order, answer, lastSet, age>>

Next ==
    \/ \E k \in Keys : GetHit(k) \/ GetExpired(k) \/ GetAbsent(k)
    \/ \E k \in Keys, v \in Values :
          SetPresent(k, v) \/ SetWithRoom(k, v) \/ SetEvicting(k, v)
    \/ Purge
    \/ Tick

Spec == Init /\ [][Next]_vars

-----------------------------------------------------------------------------
(***************************************************************************)
(* Properties.                                                             *)
(***************************************************************************)

\* The map and the list hold the same keys, each once: no element is left in
\* the list without a map entry (it would occupy a place for ever) nor the
\* reverse (the key could not be evicted).
ListMatchesMap ==
    /\ IsInjective(order)
    /\ \A k \in Keys : entries[k] # None <=> k \in ToSet(order)

\* The list, whose length is what Len returns, never exceeds the configured
\* maximum.
Capacity == Len(order) <= MaxEntries

\* Least-recently-used retention: a key that was set, that fewer than MaxEntries
\* other keys were used after, and whose value has not expired is still cached.
\* No sequence of hits, overwrites, expiries and evictions loses it earlier.
RetainsRecent ==
    \A k \in Keys :
        (/\ lastSet[k] # None
         /\ age[k] < MaxEntries
         /\ now <= lastSet[k].at + TTL) => entries[k] # None

\* What Get returns is what TTLStore allows: never a value other than the
\* latest Set of that very key, never past its TTL, nothing from before a Purge.
Store == INSTANCE TTLStore WITH latest <- lastSet

ImplementsTTLStore == Store!Spec
=============================================================================
