---------------------------- MODULE MCOperations ----------------------------
(***************************************************************************)
(* A small instance of Operations for TLC: one method for each thing a     *)
(* method can ask of the server, with and without retries.                 *)
(***************************************************************************)
EXTENDS Operations, TLC

CONSTANTS c1, c2

MCCallers == {c1, c2}

MCMethods ==
    {"CreateTenant", "DeleteTenant", "CreateAPIKey", "UpdateIndex",
     "UpsertResource", "ClearIndex", "BulkDeleteDocuments", "CompactIndex",
     "RebuildGraph", "GetIndex", "Health"}

MCRetryOn == {"CompactInProgress"}

ASSUME EveryMethodRepresented ==
    \A m \in AllMethods : \E n \in MCMethods :
        Does(n) = Does(m) /\ MostTries(n) = MostTries(m)

MCSymmetry == Permutations(MCCallers)
=============================================================================
