----------------------------- MODULE Pagination -----------------------------
(***************************************************************************)
(* Iter (pagination.go), the cursor over a paginated listing, with the     *)
(* fetch function of ListJobs and ListDocuments and the server behind it.  *)
(*                                                                         *)
(* The server holds the rows 1 .. Rows, of which those in "matches" pass   *)
(* the request's filter.  A cursor is the last row a page looked at; Blank *)
(* is the empty string, which stands for the start in a request and for    *)
(* the end in a reply.  An Iter is used by one goroutine: each call is one *)
(* step.                                                                   *)
(***************************************************************************)
EXTENDS Naturals, SequencesExt

CONSTANTS
    Rows,      \* length of the listing
    PageSize,  \* most rows the server looks at for one page
    Blank      \* the empty cursor

ASSUME RowsAssumption == Rows \in Nat
ASSUME PageSizeAssumption == PageSize \in Nat \ {0}
ASSUME BlankAssumption == Blank \notin 1 .. Rows

VARIABLES
    matches,                       \* the server's listing
    cursor, first, finished, err,  \* the fields of Iter
    buf,       \* it.buf from it.bufN on: what Next has not handed out yet
    answer,    \* what the last call returned
    used,      \* history: which of Next and NextPage the caller has called
    start,     \* history: the row the iteration began after
    fetched,   \* history: the last row a page has looked at
    times,     \* history: how often each row was handed out (2: more than once)
    cut        \* history: Next met an empty page

iterVars == <<cursor, first, finished, err, buf>>
history  == <<used, start, fetched, times, cut>>
vars     == <<matches, iterVars, answer, history>>

Cursors == 1 .. Rows \cup {Blank}
Methods == {"Next", "NextPage"}

TypeOK ==
    /\ matches \subseteq 1 .. Rows
    /\ cursor \in Cursors
    /\ first \in BOOLEAN /\ finished \in BOOLEAN /\ err \in BOOLEAN
    /\ buf \in Seq(1 .. Rows)
    /\ answer \in {"none", "item", "page", "end", "error"}
    /\ used \subseteq Methods
    /\ start \in 0 .. Rows
    /\ fetched \in 0 .. Rows
    /\ times \in [1 .. Rows -> 0 .. 2]
    /\ cut \in BOOLEAN
    /\ first => cursor = Blank /\ fetched = 0

Init ==
    /\ matches \in SUBSET (1 .. Rows)
    /\ cursor = Blank /\ first = TRUE /\ finished = FALSE /\ err = FALSE
    /\ buf = <<>>
    /\ answer = "none"
    /\ used = {} /\ start = 0 /\ fetched = 0 /\ cut = FALSE
    /\ times = [i \in 1 .. Rows |-> 0]

-----------------------------------------------------------------------------
(***************************************************************************)
(* The server.                                                             *)
(***************************************************************************)

Position(k) == IF k = Blank THEN 0 ELSE k

\* Where the page asked for with cursor k may end.
PageEnds(k) ==
    {q \in 0 .. Rows : Position(k) <= q /\ q <= Position(k) + PageSize
                       /\ (q = Position(k) => q = Rows)}

\* The cursor that goes with the page after p, up to q.  At the end of the
\* listing the server may know it, or find out when it is asked again.
NextCursors(p, q) == IF q < Rows THEN {q} ELSE {Blank} \cup ({q} \ {p})

Ascending(rows) ==
    \A i, j \in DOMAIN rows : i < j => rows[i] < rows[j]

\* The matching rows after p, up to q, in the order of the listing.
Page(p, q) ==
    LET hits == matches \cap (p + 1 .. q) IN
    CHOOSE rows \in [1 .. Cardinality(hits) -> hits] :
        Ascending(rows) /\ Range(rows) = hits

-----------------------------------------------------------------------------
(***************************************************************************)
(* The iterator.                                                           *)
(***************************************************************************)

HandOut(items) ==
    times' = [i \in 1 .. Rows |->
                 IF i \in Range(items) /\ times[i] < 2 THEN times[i] + 1
                                                       ELSE times[i]]

Call(m) == used' = used \cup {m}

\* Mutant of NoLongerFirst: it.first is left as it is.
NoLongerFirstForgotten == UNCHANGED first

NoLongerFirst == first' = FALSE

\* SetCursor, which is for an iterator nobody has called yet.
SetCursor(k) ==
    /\ used = {}
    /\ cursor' = k
    /\ NoLongerFirst
    /\ start' = Position(k)
    /\ fetched' = Position(k)
    /\ UNCHANGED <<matches, finished, err, buf, answer, used, times, cut>>

\* Both methods, once the iterator has failed or finished.
AfterTheEnd(m) ==
    /\ err \/ finished
    /\ Call(m)
    /\ answer' = IF err THEN "error" ELSE "end"
    /\ UNCHANGED <<matches, iterVars, start, fetched, times, cut>>

\* Next serves from its buffer before it asks for more; NextPage does not.
Ready(m) == ~err /\ ~finished /\ (m = "Next" => buf = <<>>)

\* Mutants of Split: bufN is not moved on, is moved on by two, or the page is
\* read from its end.
SplitAgain(items) == [item |-> Head(items), rest |-> items]

SplitSkipping(items) ==
    [item |-> Head(items),
     rest |-> IF Len(items) > 1 THEN Tail(Tail(items)) ELSE <<>>]

SplitFromEnd(items) == [item |-> Last(items), rest |-> Front(items)]

Split(items) == [item |-> Head(items), rest |-> Tail(items)]

\* Next returns the first of the items and buffers the rest.
ReturnFirst(items) ==
    /\ items # <<>>
    /\ HandOut(<<Split(items).item>>)
    /\ buf' = Split(items).rest
    /\ answer' = "item"

NextBuffered ==
    /\ ~err /\ ~finished
    /\ Call("Next")
    /\ ReturnFirst(buf)
    /\ UNCHANGED <<matches, cursor, first, finished, err, start, fetched, cut>>

\* Mutants of CanFetch: the empty cursor of a last page is sent, as the first
\* request's was, or the cursor of a page is not used.
CanFetchAlways == TRUE

CanFetchFirst == first

CanFetch == first \/ cursor # Blank

Exhausted(m) ==
    /\ Ready(m) /\ ~CanFetch
    /\ Call(m)
    /\ finished' = TRUE
    /\ answer' = "end"
    /\ UNCHANGED <<matches, cursor, first, err, buf, start, fetched, times, cut>>

FetchFails(m) ==
    /\ Ready(m) /\ CanFetch
    /\ Call(m)
    /\ NoLongerFirst
    /\ err' = TRUE
    /\ answer' = "error"
    /\ UNCHANGED <<matches, cursor, finished, buf, start, fetched, times, cut>>

\* A page up to row q arrives, with the cursor k of the next one.
Fetch(m, q, k) ==
    /\ Ready(m) /\ CanFetch
    /\ Call(m)
    /\ q \in PageEnds(cursor) /\ k \in NextCursors(Position(cursor), q)
    /\ NoLongerFirst
    /\ cursor' = k
    /\ fetched' = q
    /\ UNCHANGED <<matches, err, start>>

NextFetches(q, k) ==
    /\ Fetch("Next", q, k)
    /\ ReturnFirst(Page(Position(cursor), q))
    /\ UNCHANGED <<finished, cut>>

\* A page without items ends Next, whatever its cursor.
NextFetchesNothing(q, k) ==
    /\ Page(Position(cursor), q) = <<>>
    /\ Fetch("Next", q, k)
    /\ buf' = <<>>
    /\ finished' = TRUE
    /\ cut' = TRUE
    /\ answer' = "end"
    /\ UNCHANGED times

\* NextPage hands out the page; an empty next cursor finishes the iterator.
PageFetches(q, k) ==
    /\ Fetch("NextPage", q, k)
    /\ HandOut(Page(Position(cursor), q))
    /\ finished' = (k = Blank)
    /\ answer' = "page"
    /\ UNCHANGED <<buf, cut>>

\* A call of Next.
CallNext ==
    \/ NextBuffered
    \/ AfterTheEnd("Next")
    \/ Exhausted("Next")
    \/ FetchFails("Next")
    \/ \E q \in 0 .. Rows, k \in Cursors :
          NextFetches(q, k) \/ NextFetchesNothing(q, k)

Next ==
    \/ \E k \in Cursors : SetCursor(k)
    \/ NextBuffered
    \/ \E m \in Methods : AfterTheEnd(m) \/ Exhausted(m) \/ FetchFails(m)
    \/ \E q \in 0 .. Rows, k \in Cursors :
          NextFetches(q, k) \/ NextFetchesNothing(q, k) \/ PageFetches(q, k)

\* The caller goes on calling Next, as All does until it is false.
Spec == Init /\ [][Next]_vars /\ WF_vars(CallNext)

-----------------------------------------------------------------------------
(***************************************************************************)
(* Properties.                                                             *)
(***************************************************************************)

Given == {i \in 1 .. Rows : times[i] > 0}

\* However Next and NextPage are mixed, no item is handed out twice.
HandedOutOnce == \A i \in 1 .. Rows : times[i] <= 1

\* However they are mixed, every matching row of every page so far was handed
\* out or waits in the buffer, and no row that was not on one.
NothingLost == Given \cup Range(buf) = matches \cap (start + 1 .. fetched)

\* A caller who stays with one of the two methods gets the items in order.
InOrder ==
    [][Cardinality(used') = 1 =>
          \A i, j \in 1 .. Rows :
              (times[i] > 0 /\ times[j] = 0 /\ times'[j] > 0) => i < j]_vars

\* The caller is told of the end only when every item was handed out, but for
\* three cases: Next met an empty page, the cursor had been set to the empty
\* one, or NextPage found the end while items of Next were buffered.
CleanEnd ==
    answer = "end" =>
        \/ Given = matches \cap (start + 1 .. Rows)
        \/ cut
        \/ fetched = 0
        \/ used = Methods /\ buf # <<>>

\* Draining ends.
DrainEnds == <>(answer \in {"end", "error"})

\* pagination.go:98-102, SetCursor "positions the iterator at a specific
\* server-supplied cursor [...] The next NextPage / Next call fetches starting
\* from this position": the call after SetCursor is not answered unasked.
SetCursorFetches ==
    [][(used = {} /\ used' # {}) => answer' # "end" \/ cut']_vars

\* pagination.go:35-36, Next "returns false when the stream is exhausted or an
\* error occurred": a caller of Next alone, on an iterator that has fetched, is
\* told of the end only when the listing has no more items.
EndsWhenExhausted ==
    (answer = "end" /\ used = {"Next"} /\ fetched # 0) =>
        Given = matches \cap (start + 1 .. Rows)
=============================================================================
