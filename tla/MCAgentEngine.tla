--------------------------- MODULE MCAgentEngine ---------------------------
(* Constants for checking AgentEngine: the registered agents, and one workflow
   with what they lack (an action, a cycle of edges without a human node, an llm
   node that pauses). *)
EXTENDS AgentEngine, AgentRegistry

Poller ==
    [nodes |-> <<Node("plan", "llm"), Node("act", "action"),
                 Node("again", "condition"), Node("stop", "end")>>,
     edges |-> <<Edge("plan", "act"), Edge("act", "again"),
                 When("true", "again", "plan"), Edge("again", "stop")>>,
     human_in_the_loop |-> TRUE, max_iterations |-> 2]

MCRegistry ==
    [general |-> [GeneralAssistant EXCEPT !.max_iterations = 2],
     explorer |-> OntologyExplorer,
     action |-> [ActionAgent EXCEPT !.max_iterations = 2],
     branching |-> ConditionBranchingDemo,
     loop |-> LoopDemo,
     poller |-> Poller]

MCAgents == DOMAIN MCRegistry
MCNodes == DefaultNodes \cup {"plan", "act", "again", "stop"}

By(agents, ops) == [op : ops, agent : agents, session : {"s1"}]

(* One client opens the session, another carries on with it, a third interrupts *)
MCCalls ==
    [r1 |-> By({"general", "action", "branching", "poller"}, {"run"})
            \cup By({"explorer", "loop"}, {"stream"}),
     r2 |-> By({"loop", "poller"}, {"resume"}) \cup By({"general"}, {"rerun"}),
     r3 |-> By({"loop"}, {"interrupt"})]
=============================================================================
