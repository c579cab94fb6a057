----------------------------- MODULE MCRequest ------------------------------
(***************************************************************************)
(* A small instance of Request for TLC: one response for each way an       *)
(* attempt can end.                                                        *)
(***************************************************************************)
EXTENDS Request

Answer(status, code, retryAfter, body) ==
    [status |-> status, code |-> code, retryAfter |-> retryAfter,
     body |-> body]

MCReplies ==
    {Answer(200, "other", 0, "good"),
     Answer(200, "other", 0, "garbled"),
     Answer(404, "other", 0, "good"),
     Answer(409, "compact_in_progress", 0, "good"),
     Answer(429, "other", 4, "garbled"),
     Answer(503, "index_building", 0, "good"),
     Answer(503, "index_building", 1, "garbled"),
     Answer(502, "other", 0, "broken")}

MCRetryPolicy(attempts, initial, max, jitter, hook) ==
    [MaxAttempts |-> attempts, InitialBackoff |-> initial, MaxBackoff |-> max,
     JitterPercent |-> jitter, RetryOn |-> hook]

\* With a hook and without, without delay, without cap, and without retries.
MCPolicies ==
    {MCRetryPolicy(4, 1, 3, 50, {"CompactInProgress"}),
     MCRetryPolicy(3, 0, 0, 0, {}),
     MCRetryPolicy(2, 1, 0, 100, {}),
     MCRetryPolicy(0, 1, 3, 50, {})}

\* Enough attempts to leave the range of the scaled-down Duration.
MCManyAttempts == {MCRetryPolicy(5, 1, 3, 50, {})}
=============================================================================
