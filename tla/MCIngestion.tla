---------------------------- MODULE MCIngestion ----------------------------
(***************************************************************************)
(* The requests and configurations of a TLC instance of Ingestion: two     *)
(* callers, a batch with a bad event, and configurations of which the      *)
(* validator refuses two.                                                  *)
(***************************************************************************)
EXTENDS Ingestion

Base == [role |-> "all", environment |-> "production", auth |-> TRUE, bypass |-> FALSE,
         secret |-> "strong", limiter |-> "auto", redis |-> "tls", bus |-> "kafka", shadow |-> TRUE,
         index |-> "redis", circuit |-> "redis", graph |-> "neo4j"]

Development == [Base EXCEPT !.environment = "development", !.bus = "memory", !.redis = "none",
                            !.index = "memory", !.circuit = "local", !.graph = "memory",
                            !.secret = "none", !.bypass = TRUE]

MCConfigs ==
    {Base, Development,
     [Base EXCEPT !.role = "gateway"],
     [Base EXCEPT !.auth = FALSE],
     [Base EXCEPT !.limiter = "memory"]}

Ask(sub, token, events) ==
    [sub |-> sub, token |-> token, tenant |-> "ours", forwarded |-> "none", trusted |-> FALSE,
     client |-> "ip", declared |-> 1, bytes |-> 1, batch |-> TRUE, events |-> events]

MCRequests ==
    {Ask("alice", "valid", <<"good">>), Ask("alice", "valid", <<"good", "good">>),
     Ask("alice", "valid", <<"good", "schema">>),
     [Ask("bob", "none", <<"good">>) EXCEPT !.batch = FALSE, !.forwarded = "bob", !.trusted = TRUE],
     Ask("bob", "none", <<"construct">>),
     [Ask("bob", "valid", <<"good">>) EXCEPT !.tenant = "theirs"],
     [Ask("bob", "none", <<"good">>) EXCEPT !.bytes = 2],
     [Ask("bob", "valid", <<"good">>) EXCEPT !.declared = 0, !.bytes = 3],
     Ask("alice", "valid", <<"good", "good", "good">>)}

\* The requests of a behaviour about the limiters, again and again.
Callers == {Ask("alice", "valid", <<"good">>), [Ask("bob", "none", <<"good">>) EXCEPT !.bytes = 2]}
=============================================================================
