---------------------------- MODULE MCQuickstart ----------------------------
(***************************************************************************)
(* Quickstart for TLC: the options of main, with and without an API key,   *)
(* and lists of up to two others, valid or not.                            *)
(***************************************************************************)
EXTENDS Quickstart, SequencesExt

\* The options, apart from the lists that are made of them here.
Given == INSTANCE Construction WITH OptionLists <- {}

URL(text, slashes) == [text |-> text, slashes |-> slashes]

Host == URL("host", 0)

MainOptions ==
    <<Given!WithBaseURL(Host), Given!WithRetryPolicy([MaxAttempts |-> 3]),
      Given!WithSingleflight(1), Given!WithQueryCache(64, TTL)>>

Others ==
    {None, Given!WithBaseURL(URL("host", 1)), Given!WithBaseURL(URL("", 1)),
     Given!WithBaseURL(URL("", 0)),
     Given!WithBaseURL(URL(Given!Unparsable, 0)),
     Given!WithQueryCache(1, TTL), Given!WithQueryCache(1, -1),
     Given!WithHTTPClient("custom")}

MCOptionLists ==
    {MainOptions, Append(MainOptions, Given!WithAPIKey("tenant", "key"))}
        \cup BoundedSeq(Others, 2)
=============================================================================
