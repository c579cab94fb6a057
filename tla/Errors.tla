------------------------------- MODULE Errors -------------------------------
(***************************************************************************)
(* The error classes of the package (errors.go), how a response becomes    *)
(* one (client.go) and which of them c.do retries (retry.go).              *)
(*                                                                         *)
(* An error is a record: `is' is the sentinel errors.Is finds in it ("none"*)
(* for a 4xx without one), `retryAfter' the hint an APIError carries.      *)
(***************************************************************************)
EXTENDS Integers

Sentinels ==
    {"Unauthorized", "Forbidden", "NotFound", "Conflict", "CompactInProgress",
     "PayloadTooLarge", "RateLimited", "IndexNotReady", "Server", "Network",
     "BadRequest", "Validation", "NotImplemented", "Config", "none"}

Codes ==
    {"validation_error", "compact_in_progress", "index_not_ready",
     "index_building", "other"}

\* A response.  Its body may break off or be bad gzip ("broken"), or arrive
\* whole and not decode ("garbled"; a body cut at the 50 MiB limit is one).
Reply ==
    [status : 200 .. 599, code : Codes, retryAfter : Nat,
     body : {"good", "garbled", "broken"}]

\* context.Canceled or DeadlineExceeded, which sleepCtx returns unwrapped.
CtxError == "context"

Error == [is : Sentinels \cup {CtxError}, retryAfter : Nat]

SentinelFor(status, code) ==
    CASE status = 400 /\ code = "validation_error"    -> "Validation"
      [] status = 400 /\ code # "validation_error"    -> "BadRequest"
      [] status = 401                                 -> "Unauthorized"
      [] status = 403                                 -> "Forbidden"
      [] status = 404                                 -> "NotFound"
      [] status = 409 /\ code = "compact_in_progress" -> "CompactInProgress"
      [] status = 409 /\ code # "compact_in_progress" -> "Conflict"
      [] status = 413                                 -> "PayloadTooLarge"
      [] status = 429                                 -> "RateLimited"
      [] status = 501                                 -> "NotImplemented"
      [] status = 503 /\ code \in {"index_not_ready", "index_building"}
                                                      -> "IndexNotReady"
      [] status = 503 /\ code \notin {"index_not_ready", "index_building"}
                                                      -> "Server"
      [] status >= 500 /\ status \notin {501, 503}    -> "Server"
      [] OTHER                                        -> "none"

Plain(sentinel) == [is |-> sentinel, retryAfter |-> 0]

\* The error of a response with status >= 400; an undecodable envelope has no
\* code, and the Retry-After header counts whatever the status.
ApiError(r) ==
    [is |-> SentinelFor(r.status, IF r.body = "good" THEN r.code ELSE "other"),
     retryAfter |-> r.retryAfter]

\* The nil error.
NoError == Plain("nil")

\* wrapNet and the undecodable 2xx.
NetError    == Plain("Network")
DecodeError == Plain("Server")

Transient == {"RateLimited", "Server", "IndexNotReady", "Network"}

\* The hook is represented by the sentinels it returns true for.
ShouldRetry(RetryOn, err) == err.is \in RetryOn \/ err.is \in Transient
=============================================================================
