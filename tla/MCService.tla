------------------------------ MODULE MCService ------------------------------
(* Instances of Service for TLC. *)
EXTENDS Service, TLC

CONSTANTS upload, query, health

MCEndpoint ==
    [r \in Requests |-> CASE r = upload -> "/ingest/file"
                          [] r = query  -> "/query"
                          [] r = health -> "/health"]
=============================================================================
