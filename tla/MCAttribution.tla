--------------------------- MODULE MCAttribution ---------------------------
(***************************************************************************)
(* A TLC instance of Attribution: one workload known by two ids, two teams *)
(* of which one owns a similarly named repository, one person.  A          *)
(* behaviour is about structure (who moves, what is deployed) or about     *)
(* serving (results, policies and labels); both share the graph.          *)
(* Nothing of the structure reads through `backend', and with Neo4j it has *)
(* every step that it has with the in-memory store.                        *)
(***************************************************************************)
EXTENDS Attribution

CONSTANT StructureEvents   \* bound on events in behaviours about structure

MCIds == {"arn", "resource:arn", "team:a", "team:b", "person:p", "deploy:1", "repo:r"}

MCInferredType ==
    [n \in MCIds |-> CASE n \in {"team:a", "team:b"} -> "team"
                       [] n = "person:p" -> "person"
                       [] n = "deploy:1" -> "deployment"
                       [] n = "repo:r" -> "repository"
                       [] OTHER -> "resource"]

MCCandidates == [w \in {"arn"} |-> <<"arn", "resource:arn">>]
MCSimilar == {<<"arn", "repo:r">>}
MCSeeds == <<<<"resource:arn", "team:a", "attributed_to">>, <<"team:a", "repo:r", "owns_code">>,
             <<"person:p", "team:a", "member_of">>>>
MCNoSeeds == <<>>
MCJobs == {[id |-> "deploy:1", target |-> "resource:arn", deployer |-> "person:p"],
           [id |-> "deploy:1", target |-> NoTeam, deployer |-> "person:p"],
           [id |-> "deploy:1", target |-> "resource:arn", deployer |-> NoTeam]}
MCPolicies ==
    {[id |-> "x", scope |-> "global", team |-> NoTeam, enabled |-> TRUE],
     [id |-> "x", scope |-> "global", team |-> NoTeam, enabled |-> FALSE],
     [id |-> "y", scope |-> "global", team |-> "team:a", enabled |-> TRUE],
     [id |-> "z", scope |-> "team:a", team |-> NoTeam, enabled |-> TRUE]}
MCKeys ==
    {<<"team:a", "repo:r", "owns_code">>, <<"resource:arn", "team:a", "attributed_to">>,
     <<"person:p", "team:a", "member_of">>,
     <<"resource:arn", "team:b", "attributed_to">>, <<"arn", "team:b", "attributed_to">>,
     <<"person:p", "team:b", "member_of">>, <<"deploy:1", "resource:arn", "triggers">>,
     <<"person:p", "deploy:1", "deployed_by">>}
MCSeedOwner == [w \in {"arn"} |-> "team:a"]

VARIABLE focus

MCInit ==
    /\ Init
    /\ focus \in {"structure", "serving"}
    /\ focus = "structure" => backend = "neo4j"

MCNext ==
    /\ focus' = focus
    /\ \/ SharedNext
       \/ focus = "structure" /\ StructureNext
       \/ focus = "serving" /\ ServingNext
    /\ focus = "structure" => events' <= StructureEvents

MCSpec == MCInit /\ [][MCNext]_<<vars, focus>>
=============================================================================
