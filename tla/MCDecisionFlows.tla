-------------------------- MODULE MCDecisionFlows --------------------------
(* Two requests over one stored flow and those they make.  The process starts with
   all services or without Neo4j; an outage of Neo4j or Redis, while it starts or later,
   and a restart follow. *)
EXTENDS DecisionFlows

CONSTANTS r1, r2

MCRequests == {r1, r2}
MCAtFirst == {Services, Services \ {"neo4j"}}
MCAtRisk == {"neo4j", "redis"}
=============================================================================
