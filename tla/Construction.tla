---------------------------- MODULE Construction ----------------------------
(***************************************************************************)
(* NewClient and its options (client.go, options.go): the options are      *)
(* applied to a configuration one after the other, the configuration is    *)
(* checked, and the client is built from it.                               *)
(*                                                                         *)
(* An option is the part of the configuration it sets.  A URL is a record  *)
(* of its text without trailing slashes and how many of them follow.       *)
(***************************************************************************)
EXTENDS Integers, Sequences

CONSTANTS
    OptionLists,  \* the lists of options that NewClient is called with
    None          \* nil, or nothing yet

(***************************************************************************)
(* The options.                                                            *)
(***************************************************************************)

WithBaseURL(url)           == [baseURL |-> url]
WithAPIKey(tenant, k)      == [tenantID |-> tenant, apiKey |-> k]
WithHTTPClient(hc)         == [httpClient |-> hc]
WithTLSConfig(t)           == [tlsConfig |-> t]
WithRetryPolicy(p)         == [retry |-> p]
WithUserAgent(ua)          == [userAgent |-> ua]
WithLogger(h)              == [logger |-> h]
WithSingleflight(window)   == [singleflightWindow |-> window]
WithQueryCache(n, ttl)     == [cacheMaxEntries |-> n, cacheTTL |-> ttl]
WithMetricsHook(h)         == [metrics |-> h]

EmptyURL == [text |-> "", slashes |-> 0]

\* What url.Parse does not take.
Unparsable == "unparsable"

Defaults ==
    [baseURL |-> EmptyURL, tenantID |-> "", apiKey |-> "", httpClient |-> None,
     tlsConfig |-> None, retry |-> [MaxAttempts |-> 3], userAgent |-> "default",
     logger |-> None, singleflightWindow |-> 0, cacheMaxEntries |-> 0,
     cacheTTL |-> 0, metrics |-> None]

Fields == DOMAIN Defaults

Sets(option, f) == option # None /\ f \in DOMAIN option

\* The option returns an error.
Refused(option) ==
    \/ Sets(option, "baseURL") /\ option["baseURL"] = EmptyURL
    \/ Sets(option, "httpClient") /\ option["httpClient"] = None
    \/ \E f \in {"singleflightWindow", "cacheMaxEntries", "cacheTTL"} :
          Sets(option, f) /\ option[f] < 0

VARIABLES
    options,  \* the list
    applied,  \* how many of them were applied
    cfg,      \* the configuration so far
    client    \* None, or whether there is a client and what it is made of

vars == <<options, applied, cfg, client>>

Nothing == [ok |-> FALSE]

\* The parts of a client that its configuration decides.
Built(conf) ==
    [ok         |-> TRUE,
     baseURL    |-> [conf["baseURL"] EXCEPT !.slashes = 0],
     httpClient |-> IF conf["httpClient"] = None
                    THEN <<"hardened", conf["tlsConfig"]>>
                    ELSE conf["httpClient"],
     cache      |-> conf["cacheMaxEntries"] > 0 /\ conf["cacheTTL"] > 0,
     sf         |-> conf["singleflightWindow"] > 0,
     attempts   |-> IF conf["retry"].MaxAttempts < 1 THEN 1
                    ELSE conf["retry"].MaxAttempts]

Init ==
    /\ options \in OptionLists
    /\ applied = 0
    /\ cfg = Defaults
    /\ client = None

Option == options[applied + 1]

Pending == client = None /\ applied < Len(options)

\* Mutant of Merged: an option starts from the defaults.
MergedAlone(f) == IF Sets(Option, f) THEN Option[f] ELSE Defaults[f]

\* A nil option sets nothing.
Merged(f) == IF Sets(Option, f) THEN Option[f] ELSE cfg[f]

Apply ==
    /\ Pending
    /\ ~ Refused(Option)
    /\ applied' = applied + 1
    /\ cfg' = [f \in Fields |-> Merged(f)]
    /\ UNCHANGED <<options, client>>

Refuse ==
    /\ Pending
    /\ Refused(Option)
    /\ client' = Nothing
    /\ UNCHANGED <<options, applied, cfg>>

Build ==
    /\ client = None
    /\ applied = Len(options)
    /\ client' = IF cfg["baseURL"] = EmptyURL \/ cfg["baseURL"].text = Unparsable
                 THEN Nothing ELSE Built(cfg)
    /\ UNCHANGED <<options, applied, cfg>>

Next == Apply \/ Refuse \/ Build

Spec == Init /\ [][Next]_vars

-----------------------------------------------------------------------------
(***************************************************************************)
(* Properties.                                                             *)
(***************************************************************************)

\* The value that the first n options give a field.
Asked(f, n, v) ==
    \/ v = Defaults[f] /\ \A i \in 1 .. n : ~ Sets(options[i], f)
    \/ \E i \in 1 .. n :
          /\ Sets(options[i], f)
          /\ v = options[i][f]
          /\ \A j \in i + 1 .. n : ~ Sets(options[j], f)

\* NewClient gives a client exactly if no option is refused and the last base
\* URL is there and can be parsed, and then every field has what the last option
\* that sets it says, whatever else stands between, before and after: two
\* options never mix, and an invalid one is not made good by a valid one after
\* it.  That the trimmed base URL is not empty holds but for one made of slashes
\* alone, which is trimmed after it was checked (client.go:78-84).
ClientAsAsked ==
    client # None =>
        /\ client.ok =>
              /\ \A i \in 1 .. Len(options) : ~ Refused(options[i])
              /\ \A f \in Fields : Asked(f, Len(options), cfg[f])
              /\ client = Built(cfg)
              /\ client.baseURL = EmptyURL => cfg["baseURL"].slashes > 0
        /\ ~ client.ok =>
              \/ \E i \in 1 .. Len(options) : Refused(options[i])
              \/ Asked("baseURL", Len(options), EmptyURL)
              \/ \E u \in {cfg["baseURL"]} :
                    u.text = Unparsable /\ Asked("baseURL", Len(options), u)
=============================================================================
