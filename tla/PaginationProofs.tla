-------------------------- MODULE PaginationProofs --------------------------
(***************************************************************************)
(* Proofs about Pagination, for any length of the listing, any page size   *)
(* and any set of matching rows.                                           *)
(***************************************************************************)
EXTENDS Pagination, FiniteSetTheorems, SequenceTheorems,
        WellFoundedInduction, TLAPS

(***************************************************************************)
(* The inductive invariant, in named parts.                                *)
(***************************************************************************)

\* Nobody has called the iterator yet.
Untouched ==
    /\ first => used = {}
    /\ used = {} =>
          /\ buf = <<>> /\ Given = {} /\ start = fetched
          /\ answer = "none" /\ ~finished /\ ~err

\* The cursor is where the fetching stands, or the empty one of either end.
CursorAtFetched ==
    /\ start <= fetched
    /\ cursor # Blank => cursor = fetched
    /\ cursor = Blank => fetched \in {0, Rows}
    /\ first => fetched = 0

\* What waits in the buffer is in order, is of Next, and was not handed out;
\* without NextPage all that was handed out came before it.
BufferWaits ==
    /\ Ascending(buf)
    /\ buf # <<>> => "Next" \in used
    /\ Given \cap Range(buf) = {}
    /\ "NextPage" \notin used =>
          \A i \in Given, j \in Range(buf) : i < j

\* The iterator says "end" only once it is finished, and it finishes at an end
\* of the listing or at an empty page; only NextPage does so over a buffer.
Finished ==
    /\ answer = "end" => finished
    /\ finished => cut \/ fetched \in {0, Rows}
    /\ finished /\ buf # <<>> => used = Methods

IInv ==
    /\ TypeOK
    /\ HandedOutOnce
    /\ NothingLost
    /\ Untouched
    /\ CursorAtFetched
    /\ BufferWaits
    /\ Finished

-----------------------------------------------------------------------------
(***************************************************************************)
(* Rows in order.                                                          *)
(***************************************************************************)

\* Every non-empty set of naturals has a least element.
LEMMA LeastRow ==
  ASSUME NEW T \in SUBSET Nat, T # {}
  PROVE  \E n \in T : \A m \in T : n <= m
  <1> DEFINE R == OpToRel(<, Nat)
  <1>1. IsWellFoundedOn(R, Nat)
    BY NatLessThanWellFounded
  <1>2. \A x, y \in Nat : x < y => <<x, y>> \in R
    BY DEF OpToRel
  <1> HIDE DEF R
  <1>3. \E n \in T : \A m \in T : <<m, n>> \notin R
    BY <1>1, WFMin
  <1>4. PICK n \in T : \A m \in T : <<m, n>> \notin R
    BY <1>3
  <1>5. ASSUME NEW m \in T PROVE n <= m
    <2>1. n \in Nat /\ m \in Nat
      OBVIOUS
    <2>2. ~ (m < n)
      BY <1>2, <1>4, <2>1, Zenon
    <2> QED
      BY <2>1, <2>2
  <1> QED
    BY <1>5

\* What Page chooses.
InOrderOf(S, rows) ==
    /\ rows \in [1 .. Cardinality(S) -> S]
    /\ Ascending(rows)
    /\ Range(rows) = S

LEMMA RowsFinite ==
  ASSUME NEW S \in SUBSET (1 .. Rows)
  PROVE  IsFiniteSet(S) /\ Cardinality(S) \in Nat
  <1>1. IsFiniteSet(1 .. Rows)
    BY RowsAssumption, FS_Interval
  <1>2. IsFiniteSet(S)
    BY <1>1, FS_Subset
  <1> QED
    BY <1>2, FS_CardinalityType

\* One row in front of an enumeration of later ones.
LEMMA RowInFront ==
  ASSUME NEW S \in SUBSET (1 .. Rows), NEW m \in S, \A x \in S : m <= x,
         NEW rest, InOrderOf(S \ {m}, rest)
  PROVE  \E rows : InOrderOf(S, rows)
  <1> DEFINE n == Cardinality(S)
             rows == [i \in 1 .. n |-> IF i = 1 THEN m ELSE rest[i - 1]]
  <1>0. \A x \in S \ {m} : m < x
    <2>1. \A x \in S : x \in Nat
      BY RowsAssumption
    <2> QED
      BY <2>1
  <1>1. n \in Nat \ {0} /\ Cardinality(S \ {m}) = n - 1
    BY RowsFinite, FS_RemoveElement, FS_CardinalityType, FS_EmptySet
  <1>2. rest \in [1 .. n - 1 -> S \ {m}] /\ Range(rest) = S \ {m}
    BY <1>1 DEF InOrderOf
  <1>3. \A i, j \in 1 .. n - 1 : i < j => rest[i] < rest[j]
    BY <1>2 DEF InOrderOf, Ascending
  <1> HIDE DEF n
  <1>4. rows \in [1 .. n -> S]
    BY <1>1, <1>2
  <1>5. ASSUME NEW i \in 1 .. n, NEW j \in 1 .. n, i < j
        PROVE  rows[i] < rows[j]
    <2>1. j - 1 \in 1 .. n - 1 /\ rest[j - 1] \in S \ {m}
      BY <1>1, <1>2, <1>5
    <2>2. m < rest[j - 1]
      BY <1>0, <2>1
    <2>3. CASE i = 1
      BY <1>5, <2>2, <2>3
    <2>4. CASE i # 1
      BY <1>1, <1>3, <1>5, <2>1, <2>4
    <2> QED
      BY <2>3, <2>4
  <1>6. Range(rows) = S
    <2>1. ASSUME NEW x \in S PROVE x \in Range(rows)
      <3>1. CASE x = m
        BY <1>1, <3>1 DEF Range
      <3>2. CASE x # m
        <4>1. PICK i \in 1 .. n - 1 : rest[i] = x
          BY <1>2, <3>2 DEF Range
        <4>2. i + 1 \in 1 .. n /\ i + 1 # 1 /\ (i + 1) - 1 = i
          BY <1>1, <4>1
        <4> QED
          BY <4>1, <4>2 DEF Range
      <3> QED
        BY <3>1, <3>2
    <2> QED
      BY <1>4, <2>1 DEF Range
  <1>7. InOrderOf(S, rows)
    BY <1>4, <1>5, <1>6 DEF InOrderOf, Ascending, n
  <1> QED
    BY <1>7

\* Every set of rows can be listed in order: the smallest that could not would
\* be a row in front of a smaller one.
LEMMA Enumerable ==
  ASSUME NEW S \in SUBSET (1 .. Rows)
  PROVE  \E rows : InOrderOf(S, rows)
  <1> DEFINE Bad(Q) == ~ \E rows : InOrderOf(Q, rows)
             T == {n \in Nat :
                      \E Q \in SUBSET (1 .. Rows) : Cardinality(Q) = n /\ Bad(Q)}
  <1>1. SUFFICES ASSUME Bad(S) PROVE FALSE
    OBVIOUS
  <1>2. T # {}
    BY <1>1, RowsFinite
  <1>3. PICK n \in T : \A m \in T : n <= m
    BY <1>2, LeastRow
  <1>4. PICK Q \in SUBSET (1 .. Rows) : Cardinality(Q) = n /\ Bad(Q)
    BY <1>3
  <1>5. Q # {}
    <2>1. InOrderOf({}, <<>>)
      BY FS_EmptySet DEF InOrderOf, Ascending, Range
    <2> QED
      BY <1>4, <2>1
  <1>6. PICK m \in Q : \A x \in Q : m <= x
    <2>1. Q \in SUBSET Nat
      BY RowsAssumption
    <2> QED
      BY <1>5, <2>1, LeastRow
  <1>7. Q \ {m} \in SUBSET (1 .. Rows) /\ Cardinality(Q \ {m}) = n - 1
    BY <1>4, RowsFinite, FS_RemoveElement
  <1>8. n - 1 \notin T /\ n - 1 \in Nat
    BY <1>3, <1>7, RowsFinite
  <1>9. ~ Bad(Q \ {m})
    BY <1>7, <1>8
  <1> QED
    BY <1>4, <1>6, <1>9, RowInFront

\* A page has the matching rows of its range, in order.
LEMMA PageRows ==
  ASSUME TypeOK, NEW p \in 0 .. Rows, NEW q \in 0 .. Rows
  PROVE  /\ Page(p, q) \in Seq(1 .. Rows)
         /\ Ascending(Page(p, q))
         /\ Range(Page(p, q)) = matches \cap (p + 1 .. q)
  <1> DEFINE hits == matches \cap (p + 1 .. q)
  <1>1. hits \in SUBSET (1 .. Rows)
    BY DEF TypeOK
  <1>2. \E rows \in [1 .. Cardinality(hits) -> hits] :
           Ascending(rows) /\ Range(rows) = hits
    BY <1>1, Enumerable DEF InOrderOf
  <1>3. /\ Page(p, q) \in [1 .. Cardinality(hits) -> hits]
        /\ Ascending(Page(p, q)) /\ Range(Page(p, q)) = hits
    BY <1>2 DEF Page
  <1>4. Cardinality(hits) \in Nat
    BY <1>1, RowsFinite
  <1>5. Page(p, q) \in Seq(1 .. Rows)
    <2> DEFINE n == Cardinality(hits)
               rows == Page(p, q)
    <2>1. n \in Nat /\ rows \in [1 .. n -> hits]
      BY <1>3, <1>4
    <2>2. rows \in [1 .. n -> 1 .. Rows]
      BY <1>1, <2>1
    <2> HIDE DEF n, rows
    <2>3. rows \in Seq(1 .. Rows)
      BY <2>1, <2>2, SeqDef
    <2> QED
      BY <2>3 DEF rows
  <1> QED
    BY <1>1, <1>3, <1>5

LEMMA EmptyRows == Range(<<>>) = {} /\ Ascending(<<>>)
  BY DEF Range, Ascending

\* What Next returns of a buffer comes before all that it keeps.
LEMMA SplitRows ==
  ASSUME NEW S \in SUBSET Nat, NEW s \in Seq(S), s # <<>>, Ascending(s)
  PROVE  /\ Head(s) \in S
         /\ Tail(s) \in Seq(S)
         /\ Ascending(Tail(s))
         /\ Range(s) = {Head(s)} \cup Range(Tail(s))
         /\ Head(s) \notin Range(Tail(s))
         /\ \A j \in Range(Tail(s)) : Head(s) < j
         /\ Range(<<Head(s)>>) = {Head(s)}
  <1>1. /\ Len(s) \in Nat \ {0} /\ DOMAIN s = 1 .. Len(s)
        /\ Head(s) = s[1] /\ \A i \in 1 .. Len(s) : s[i] \in S
    <2>1. Len(s) # 0
      BY EmptySeq
    <2> QED
      BY <2>1, LenProperties
  <1>2. /\ Tail(s) \in Seq(S)
        /\ DOMAIN Tail(s) = 1 .. Len(s) - 1
        /\ \A i \in 1 .. Len(s) - 1 : Tail(s)[i] = s[i + 1]
    OBVIOUS
  <1>3. \A i, j \in 1 .. Len(s) : i < j => s[i] < s[j]
    BY <1>1 DEF Ascending
  <1>4. Ascending(Tail(s))
    BY <1>1, <1>2, <1>3 DEF Ascending
  <1>5. Range(s) = {Head(s)} \cup Range(Tail(s))
    <2>1. ASSUME NEW i \in 1 .. Len(s)
          PROVE  s[i] \in {Head(s)} \cup Range(Tail(s))
      <3>1. CASE i = 1
        BY <1>1, <3>1
      <3>2. CASE i # 1
        <4>1. i - 1 \in 1 .. Len(s) - 1 /\ (i - 1) + 1 = i
          BY <1>1, <3>2
        <4> QED
          BY <1>2, <4>1 DEF Range
      <3> QED
        BY <3>1, <3>2
    <2>2. ASSUME NEW i \in 1 .. Len(s) - 1 PROVE Tail(s)[i] \in Range(s)
      BY <1>1, <1>2 DEF Range
    <2>3. Head(s) \in Range(s)
      BY <1>1 DEF Range
    <2> QED
      BY <1>1, <1>2, <2>1, <2>2, <2>3 DEF Range
  <1>6. \A j \in Range(Tail(s)) : Head(s) < j
    BY <1>1, <1>2, <1>3 DEF Range
  <1>7. Head(s) \notin Range(Tail(s))
    <2>1. Head(s) \in Nat
      <3>1. Head(s) \in S
        BY <1>1
      <3> QED
        BY <3>1
    <2>2. ~ (Head(s) < Head(s))
      BY <2>1
    <2> QED
      BY <1>6, <2>2, Zenon
  <1>8. Range(<<Head(s)>>) = {Head(s)}
    BY DEF Range
  <1> QED
    BY <1>1, <1>2, <1>4, <1>5, <1>6, <1>7, <1>8

\* Handing out rows that nobody was given yet.
LEMMA HandedOut ==
  ASSUME TypeOK, HandedOutOnce, NEW items, HandOut(items),
         Range(items) \subseteq 1 .. Rows, Given \cap Range(items) = {}
  PROVE  /\ times' \in [1 .. Rows -> 0 .. 2]
         /\ HandedOutOnce'
         /\ Given' = Given \cup Range(items)
         /\ \A i \in 1 .. Rows :
               times[i] = 0 /\ times'[i] > 0 => i \in Range(items)
  BY DEF TypeOK, HandedOutOnce, HandOut, Given

-----------------------------------------------------------------------------
(***************************************************************************)
(* The invariant is inductive.                                             *)
(***************************************************************************)

\* A fetch asks from where the fetching stands; the cursor it leaves there
\* is empty only at the end of the listing.
LEMMA PageTurned ==
  ASSUME IInv, NEW m \in Methods, NEW q \in 0 .. Rows, NEW k \in Cursors,
         Fetch(m, q, k)
  PROVE  /\ Position(cursor) = fetched
         /\ fetched <= q
         /\ k # Blank => k = q
         /\ k = Blank => q = Rows
         /\ Page(fetched, q) \in Seq(1 .. Rows)
         /\ Ascending(Page(fetched, q))
         /\ Range(Page(fetched, q)) = matches \cap (fetched + 1 .. q)
  <1>1. Position(cursor) = fetched
    BY DEF IInv, CursorAtFetched, TypeOK, Fetch, CanFetch, Position
  <1>2. fetched \in 0 .. Rows /\ q \in PageEnds(cursor)
    BY DEF IInv, TypeOK, Fetch
  <1>3. fetched <= q
    BY <1>1, <1>2 DEF PageEnds
  <1>4. (k # Blank => k = q) /\ (k = Blank => q = Rows)
    BY <1>1, <1>2, RowsAssumption, BlankAssumption
       DEF Fetch, NextCursors, PageEnds
  <1> QED
    BY <1>1, <1>2, <1>3, <1>4, PageRows DEF IInv

\* Rows that are fetched now come after all that were.
LEMMA RowsAreNew ==
  ASSUME IInv, NEW q \in 0 .. Rows, fetched <= q
  PROVE  /\ Given \subseteq 1 .. fetched
         /\ Range(buf) \subseteq 1 .. fetched
         /\ (matches \cap (start + 1 .. fetched))
               \cup (matches \cap (fetched + 1 .. q))
            = matches \cap (start + 1 .. q)
  BY DEF IInv, NothingLost, TypeOK, CursorAtFetched

LEMMA InitIInv == Init => IInv
  <1> SUFFICES ASSUME Init PROVE IInv
    OBVIOUS
  <1> USE RowsAssumption DEF Init
  <1>1. TypeOK
    <2>1. buf \in Seq(1 .. Rows)
      BY EmptySeq
    <2>2. times \in [1 .. Rows -> 0 .. 2]
      OBVIOUS
    <2>3. first \in BOOLEAN /\ finished \in BOOLEAN /\ err \in BOOLEAN
          /\ cut \in BOOLEAN
      BY Zenon
    <2>4. start \in 0 .. Rows /\ fetched \in 0 .. Rows
      OBVIOUS
    <2> QED
      BY <2>1, <2>2, <2>3, <2>4 DEF TypeOK, Cursors
  <1>2. Given = {} /\ Range(buf) = {} /\ Ascending(buf)
    BY EmptyRows DEF Given
  <1>3. HandedOutOnce /\ NothingLost
    BY <1>2 DEF HandedOutOnce, NothingLost
  <1>4. Untouched /\ CursorAtFetched /\ BufferWaits /\ Finished
    BY <1>2 DEF Untouched, CursorAtFetched, BufferWaits, Finished
  <1> QED
    BY <1>1, <1>3, <1>4 DEF IInv

LEMMA StepIInv == IInv /\ [Next]_vars => IInv'
  <1> SUFFICES ASSUME IInv, [Next]_vars PROVE IInv'
    OBVIOUS
  <1> USE RowsAssumption, BlankAssumption DEF IInv, Methods
  <1>1. ASSUME NEW k \in Cursors, SetCursor(k) PROVE IInv'
    <2> USE <1>1 DEF SetCursor, NoLongerFirst
    <2>1. Position(k) \in 0 .. Rows
      BY DEF Position, Cursors
    <2>2. TypeOK'
      BY <2>1 DEF TypeOK
    <2>3. Given' = {} /\ buf' = <<>>
      BY DEF Given, Untouched
    <2>4. HandedOutOnce' /\ Untouched' /\ Finished'
      BY <2>3 DEF HandedOutOnce, Untouched, Finished
    <2>5. NothingLost'
      <3>1. matches' \cap (start' + 1 .. fetched') = {}
        BY <2>1
      <3> QED
        BY <2>3, <3>1, EmptyRows DEF NothingLost
    <2>6. CursorAtFetched'
      BY <2>1 DEF CursorAtFetched, Position, Cursors
    <2>7. BufferWaits'
      BY <2>3, EmptyRows DEF BufferWaits
    <2> QED
      BY <2>2, <2>4, <2>5, <2>6, <2>7
  <1>2. ASSUME NEW m \in Methods, AfterTheEnd(m) PROVE IInv'
    <2> USE <1>2 DEF AfterTheEnd, Call, iterVars
    <2>1. TypeOK'
      BY DEF TypeOK
    <2>2. Given' = Given
      BY DEF Given
    <2>3. HandedOutOnce' /\ NothingLost' /\ CursorAtFetched'
      BY <2>2 DEF HandedOutOnce, NothingLost, CursorAtFetched
    <2>4. Untouched' /\ BufferWaits'
      BY <2>2 DEF Untouched, BufferWaits
    <2>5. Finished'
      BY DEF TypeOK, Finished
    <2> QED
      BY <2>1, <2>3, <2>4, <2>5
  <1>3. ASSUME NextBuffered PROVE IInv'
    <2> USE <1>3 DEF NextBuffered, ReturnFirst, Split, Call
    <2>1. buf \in Seq(1 .. Rows) /\ buf # <<>> /\ 1 .. Rows \in SUBSET Nat
      BY DEF TypeOK
    <2>2. /\ Head(buf) \in 1 .. Rows
          /\ Tail(buf) \in Seq(1 .. Rows) /\ Ascending(Tail(buf))
          /\ Range(buf) = {Head(buf)} \cup Range(Tail(buf))
          /\ Head(buf) \notin Range(Tail(buf))
          /\ \A j \in Range(Tail(buf)) : Head(buf) < j
          /\ Range(<<Head(buf)>>) = {Head(buf)}
      BY <2>1, SplitRows DEF BufferWaits
    <2>3. /\ times' \in [1 .. Rows -> 0 .. 2] /\ HandedOutOnce'
          /\ Given' = Given \cup {Head(buf)}
      <3>1. HandOut(<<Head(buf)>>) /\ Given \cap {Head(buf)} = {}
        BY <2>2 DEF BufferWaits
      <3> QED
        BY <2>2, <3>1, HandedOut
    <2>4. TypeOK'
      BY <2>2, <2>3 DEF TypeOK
    <2>5. NothingLost'
      BY <2>2, <2>3 DEF NothingLost
    <2>6. Untouched' /\ CursorAtFetched' /\ Finished'
      BY <2>1 DEF Untouched, CursorAtFetched, Finished, TypeOK
    <2>7. BufferWaits'
      <3>1. Given' \cap Range(buf') = {}
        BY <2>2, <2>3 DEF BufferWaits
      <3> QED
        BY <2>2, <2>3, <3>1 DEF BufferWaits
    <2> QED
      BY <2>3, <2>4, <2>5, <2>6, <2>7
  <1>4. ASSUME NEW m \in Methods, Exhausted(m) PROVE IInv'
    <2> USE <1>4 DEF Exhausted, Call
    <2>1. TypeOK'
      BY DEF TypeOK
    <2>2. Given' = Given
      BY DEF Given
    <2>3. HandedOutOnce' /\ NothingLost' /\ CursorAtFetched'
      BY <2>2 DEF HandedOutOnce, NothingLost, CursorAtFetched
    <2>4. Untouched' /\ BufferWaits'
      BY <2>2 DEF Untouched, BufferWaits, CanFetch
    <2>5. Finished'
      BY DEF TypeOK, Finished, CursorAtFetched, BufferWaits, CanFetch, Ready
    <2> QED
      BY <2>1, <2>3, <2>4, <2>5
  <1>5. ASSUME NEW m \in Methods, FetchFails(m) PROVE IInv'
    <2> USE <1>5 DEF FetchFails, Call, NoLongerFirst
    <2>1. TypeOK'
      BY DEF TypeOK
    <2>2. Given' = Given
      BY DEF Given
    <2>3. HandedOutOnce' /\ NothingLost' /\ CursorAtFetched'
      BY <2>2 DEF HandedOutOnce, NothingLost, CursorAtFetched
    <2>4. Untouched' /\ BufferWaits' /\ Finished'
      BY <2>2 DEF Untouched, BufferWaits, Finished, Ready
    <2> QED
      BY <2>1, <2>3, <2>4
  <1>6. ASSUME NEW q \in 0 .. Rows, NEW k \in Cursors, NextFetches(q, k)
        PROVE  IInv'
    <2> USE <1>6 DEF NextFetches, Fetch, ReturnFirst, Split, Call,
                     NoLongerFirst, Ready
    <2> DEFINE items == Page(fetched, q)
    <2>0. /\ fetched <= q
          /\ (k # Blank => k = q) /\ (k = Blank => q = Rows)
          /\ items \in Seq(1 .. Rows) /\ Ascending(items)
          /\ Range(items) = matches \cap (fetched + 1 .. q)
          /\ Page(Position(cursor), q) = items
      BY PageTurned
    <2> HIDE DEF items
    <2>1. items # <<>> /\ buf = <<>> /\ buf' = Tail(items)
          /\ HandOut(<<Head(items)>>) /\ 1 .. Rows \in SUBSET Nat
      BY <2>0
    <2>2. /\ Head(items) \in 1 .. Rows
          /\ Tail(items) \in Seq(1 .. Rows) /\ Ascending(Tail(items))
          /\ Range(items) = {Head(items)} \cup Range(Tail(items))
          /\ Head(items) \notin Range(Tail(items))
          /\ \A j \in Range(Tail(items)) : Head(items) < j
          /\ Range(<<Head(items)>>) = {Head(items)}
      BY <2>0, <2>1, SplitRows
    <2>3. /\ Given \subseteq 1 .. fetched
          /\ Given = matches \cap (start + 1 .. fetched)
          /\ Given \cup Range(items) = matches \cap (start + 1 .. q)
      BY <2>0, <2>1, RowsAreNew, EmptyRows DEF NothingLost
    <2>4. \A i \in Given : i \notin Range(items)
                            /\ \A j \in Range(items) : i < j
      BY <2>0, <2>3 DEF TypeOK
    <2>5. /\ times' \in [1 .. Rows -> 0 .. 2] /\ HandedOutOnce'
          /\ Given' = Given \cup {Head(items)}
      <3>1. Given \cap {Head(items)} = {}
        BY <2>2, <2>4
      <3> QED
        BY <2>1, <2>2, <3>1, HandedOut
    <2>6. TypeOK'
      BY <2>1, <2>2, <2>5 DEF TypeOK
    <2>7. NothingLost'
      BY <2>1, <2>2, <2>3, <2>5 DEF NothingLost
    <2>8. Untouched' /\ CursorAtFetched' /\ Finished'
      BY <2>0 DEF Untouched, CursorAtFetched, Finished, TypeOK
    <2>9. BufferWaits'
      <3>1. Given' \cap Range(buf') = {}
        BY <2>1, <2>2, <2>4, <2>5
      <3> QED
        BY <2>1, <2>2, <2>4, <2>5, <3>1 DEF BufferWaits
    <2> QED
      BY <2>5, <2>6, <2>7, <2>8, <2>9
  <1>7. ASSUME NEW q \in 0 .. Rows, NEW k \in Cursors, NextFetchesNothing(q, k)
        PROVE  IInv'
    <2> USE <1>7 DEF NextFetchesNothing, Fetch, Call, NoLongerFirst, Ready
    <2>0. /\ fetched <= q
          /\ (k # Blank => k = q) /\ (k = Blank => q = Rows)
          /\ {} = matches \cap (fetched + 1 .. q)
      BY PageTurned, EmptyRows
    <2>1. TypeOK'
      BY EmptySeq DEF TypeOK
    <2>2. Given' = Given
      BY DEF Given
    <2>3. HandedOutOnce'
      BY DEF HandedOutOnce
    <2>4. NothingLost'
      BY <2>0, <2>2, RowsAreNew DEF NothingLost
    <2>5. Untouched' /\ CursorAtFetched' /\ Finished'
      BY <2>0 DEF Untouched, CursorAtFetched, Finished, TypeOK
    <2>6. BufferWaits'
      BY EmptyRows DEF BufferWaits
    <2> QED
      BY <2>1, <2>3, <2>4, <2>5, <2>6
  <1>8. ASSUME NEW q \in 0 .. Rows, NEW k \in Cursors, PageFetches(q, k)
        PROVE  IInv'
    <2> USE <1>8 DEF PageFetches, Fetch, Call, NoLongerFirst, Ready
    <2> DEFINE items == Page(fetched, q)
    <2>0. /\ fetched <= q
          /\ (k # Blank => k = q) /\ (k = Blank => q = Rows)
          /\ Range(items) = matches \cap (fetched + 1 .. q)
          /\ Page(Position(cursor), q) = items
      BY PageTurned
    <2> HIDE DEF items
    <2>1. /\ Given \subseteq 1 .. fetched /\ Range(buf) \subseteq 1 .. fetched
          /\ Given \cup Range(buf) \cup Range(items)
             = matches \cap (start + 1 .. q)
      BY <2>0, RowsAreNew DEF NothingLost
    <2>2. \A i \in 1 .. fetched : i \notin Range(items)
      BY <2>0 DEF TypeOK
    <2>3. /\ times' \in [1 .. Rows -> 0 .. 2] /\ HandedOutOnce'
          /\ Given' = Given \cup Range(items)
      <3>1. Range(items) \subseteq 1 .. Rows /\ Given \cap Range(items) = {}
        BY <2>0, <2>1, <2>2 DEF TypeOK
      <3> QED
        BY <2>0, <3>1, HandedOut
    <2>4. TypeOK'
      BY <2>3 DEF TypeOK
    <2>5. NothingLost'
      BY <2>1, <2>3 DEF NothingLost
    <2>6. Untouched' /\ CursorAtFetched'
      BY <2>0 DEF Untouched, CursorAtFetched, TypeOK
    <2>7. BufferWaits' /\ Finished'
      BY <2>0, <2>1, <2>2, <2>3 DEF BufferWaits, Finished, TypeOK
    <2> QED
      BY <2>3, <2>4, <2>5, <2>6, <2>7
  <1>9. ASSUME UNCHANGED vars PROVE IInv'
    BY <1>9 DEF vars, iterVars, history, TypeOK, HandedOutOnce, NothingLost,
                Untouched, CursorAtFetched, BufferWaits, Finished, Given
  <1> QED
    BY <1>1, <1>2, <1>3, <1>4, <1>5, <1>6, <1>7, <1>8, <1>9 DEF Next

LEMMA Invariance == Spec => []IInv
  BY InitIInv, StepIInv, PTL DEF Spec

-----------------------------------------------------------------------------
(***************************************************************************)
(* The theorems.                                                           *)
(***************************************************************************)

\* The fields of the iterator keep their types, and a first call starts at
\* the beginning.
THEOREM TypeCorrect == Spec => []TypeOK
  <1>1. IInv => TypeOK
    BY DEF IInv
  <1> QED
    BY Invariance, <1>1, PTL

\* However Next, NextPage and failures are mixed, no row comes twice.
THEOREM EachOnce == Spec => []HandedOutOnce
  <1>1. IInv => HandedOutOnce
    BY DEF IInv
  <1> QED
    BY Invariance, <1>1, PTL

\* And none is lost between what was handed out and what waits.
THEOREM NothingIsLost == Spec => []NothingLost
  <1>1. IInv => NothingLost
    BY DEF IInv
  <1> QED
    BY Invariance, <1>1, PTL

\* "end" is the end of the listing, in all but the three named cases.
THEOREM EndIsClean == Spec => []CleanEnd
  <1>1. IInv => CleanEnd
    <2> SUFFICES ASSUME IInv, answer = "end", ~ cut, fetched # 0
                 PROVE  \/ Given = matches \cap (start + 1 .. Rows)
                        \/ used = Methods /\ buf # <<>>
      BY DEF CleanEnd
    <2>1. finished /\ fetched = Rows
      BY DEF IInv, Finished
    <2>2. CASE buf = <<>>
      BY <2>1, <2>2, EmptyRows DEF IInv, NothingLost
    <2>3. CASE buf # <<>>
      BY <2>1, <2>3 DEF IInv, Finished
    <2> QED
      BY <2>2, <2>3
  <1> QED
    BY Invariance, <1>1, PTL

\* A caller of one method has no use of the other behind it.
LEMMA OneMethod ==
  ASSUME used' = used \cup {"Next"}, Cardinality(used') = 1, TypeOK
  PROVE  "NextPage" \notin used
  <1>1. IsFiniteSet(used')
    <2>1. IsFiniteSet({"Next"}) /\ IsFiniteSet({"NextPage"})
      BY FS_Singleton
    <2>2. IsFiniteSet({"Next"} \cup {"NextPage"})
      BY <2>1, FS_Union
    <2>3. used' \in SUBSET ({"Next"} \cup {"NextPage"})
      BY DEF TypeOK, Methods
    <2> QED
      BY <2>2, <2>3, FS_Subset
  <1>2. PICK m : used' = {m}
    BY <1>1, FS_Singleton
  <1> QED
    BY <1>2

\* With one method, what is handed out comes after all that was.
LEMMA InOrderStep ==
  ASSUME IInv, [Next]_vars, Cardinality(used') = 1,
         NEW i \in Given, NEW j \in 1 .. Rows, times[j] = 0, times'[j] > 0
  PROVE  i < j
  <1> USE DEF IInv
  <1>1. ASSUME UNCHANGED times PROVE FALSE
    BY <1>1, RowsAssumption DEF TypeOK
  <1>2. ASSUME NextBuffered PROVE i < j
    <2> USE <1>2 DEF NextBuffered, ReturnFirst, Split
    <2>1. "NextPage" \notin used
      BY OneMethod DEF Call
    <2>2. /\ Range(buf) = {Head(buf)} \cup Range(Tail(buf))
          /\ Range(<<Head(buf)>>) = {Head(buf)}
      <3>1. buf \in Seq(1 .. Rows) /\ buf # <<>> /\ 1 .. Rows \in SUBSET Nat
        BY DEF TypeOK
      <3> QED
        BY <3>1, SplitRows DEF BufferWaits
    <2>3. j = Head(buf)
      BY <2>2 DEF HandOut
    <2> QED
      BY <2>1, <2>2, <2>3 DEF BufferWaits
  <1>3. ASSUME NEW m \in Methods, NEW q \in 0 .. Rows, NEW k \in Cursors,
               Fetch(m, q, k), j \in Range(Page(Position(cursor), q))
        PROVE  i < j
    <2>1. j \in fetched + 1 .. q /\ fetched <= q
      BY <1>3, PageTurned
    <2>2. i \in 1 .. fetched
      BY <2>1, RowsAreNew
    <2> QED
      BY <2>1, <2>2 DEF TypeOK
  <1>4. ASSUME NEW q \in 0 .. Rows, NEW k \in Cursors, NextFetches(q, k)
        PROVE  i < j
    <2> DEFINE items == Page(fetched, q)
    <2>1. /\ items \in Seq(1 .. Rows) /\ Ascending(items)
          /\ Page(Position(cursor), q) = items /\ Fetch("Next", q, k)
      BY <1>4, PageTurned DEF NextFetches, Methods
    <2> HIDE DEF items
    <2>2. items # <<>> /\ HandOut(<<Head(items)>>)
      BY <1>4, <2>1 DEF NextFetches, ReturnFirst, Split
    <2>3. /\ Range(items) = {Head(items)} \cup Range(Tail(items))
          /\ Range(<<Head(items)>>) = {Head(items)}
      <3>1. 1 .. Rows \in SUBSET Nat
        OBVIOUS
      <3> QED
        BY <2>1, <2>2, <3>1, SplitRows
    <2>4. j = Head(items)
      BY <2>2, <2>3 DEF HandOut
    <2> QED
      BY <1>3, <2>1, <2>3, <2>4 DEF Methods
  <1>5. ASSUME NEW q \in 0 .. Rows, NEW k \in Cursors, PageFetches(q, k)
        PROVE  i < j
    <2>1. j \in Range(Page(Position(cursor), q))
      BY <1>5 DEF PageFetches, HandOut
    <2> QED
      BY <1>3, <1>5, <2>1 DEF PageFetches, Methods
  <1>6. ASSUME NEW k \in Cursors, SetCursor(k) PROVE UNCHANGED times
    BY <1>6 DEF SetCursor
  <1>7. ASSUME NEW m \in Methods,
               AfterTheEnd(m) \/ Exhausted(m) \/ FetchFails(m)
        PROVE  UNCHANGED times
    BY <1>7 DEF AfterTheEnd, Exhausted, FetchFails
  <1>8. ASSUME NEW q \in 0 .. Rows, NEW k \in Cursors,
               NextFetchesNothing(q, k)
        PROVE  UNCHANGED times
    BY <1>8 DEF NextFetchesNothing
  <1>9. UNCHANGED vars => UNCHANGED times
    BY DEF vars, history
  <1> QED
    BY <1>1, <1>2, <1>4, <1>5, <1>6, <1>7, <1>8, <1>9 DEF Next

\* With one method, rows come in the order of the listing.
THEOREM OrderKept == Spec => InOrder
  <1> DEFINE Orderly ==
               \A i, j \in 1 .. Rows :
                  (times[i] > 0 /\ times[j] = 0 /\ times'[j] > 0) => i < j
  <1>1. IInv /\ [Next]_vars => [Cardinality(used') = 1 => Orderly]_vars
    BY InOrderStep DEF Given
  <1> QED
    BY Invariance, <1>1, PTL DEF Spec, InOrder
=============================================================================
