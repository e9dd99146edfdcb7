--------------------------- MODULE AgentRegistry ---------------------------
(***************************************************************************)
(* The agent definitions AgentRegistry.create_default_agents registers: no *)
(* other code registers any.  Prompts, models and texts are left out.      *)
(***************************************************************************)
EXTENDS Naturals, Sequences

Node(id, type) == [id |-> id, type |-> type, builtins |-> FALSE]
Edge(from, to) == [source |-> from, target |-> to, condition |-> "none"]
When(passed, from, to) == [source |-> from, target |-> to, condition |-> passed]

GeneralAssistant ==
    [nodes |-> <<>>, edges |-> <<>>,
     human_in_the_loop |-> FALSE, max_iterations |-> 5]

OntologyExplorer ==
    [nodes |-> <<Node("search", "search"), Node("summarize", "llm"), Node("end", "end")>>,
     edges |-> <<Edge("search", "summarize"), Edge("summarize", "end")>>,
     human_in_the_loop |-> FALSE, max_iterations |-> 5]

ActionAgent ==
    [nodes |-> <<>>, edges |-> <<>>,
     human_in_the_loop |-> TRUE, max_iterations |-> 8]

(* The condition is len(user_input) > 10 *)
ConditionBranchingDemo ==
    [nodes |-> <<[id |-> "check_length", type |-> "condition", builtins |-> TRUE],
                 Node("short", "llm"), Node("long", "llm"), Node("end", "end")>>,
     edges |-> <<When("true", "check_length", "long"),
                 When("false", "check_length", "short"),
                 Edge("short", "end"), Edge("long", "end")>>,
     human_in_the_loop |-> FALSE, max_iterations |-> 10]

(* The condition is user_input.lower().strip() != 'stop' *)
LoopDemo ==
    [nodes |-> <<Node("ask", "llm"), Node("human", "human"),
                 Node("check_stop", "condition"), Node("end", "end")>>,
     edges |-> <<Edge("ask", "human"), Edge("human", "check_stop"),
                 When("true", "check_stop", "ask"),
                 When("false", "check_stop", "end")>>,
     human_in_the_loop |-> FALSE, max_iterations |-> 10]

DefaultAgents ==
    {GeneralAssistant, OntologyExplorer, ActionAgent, ConditionBranchingDemo, LoopDemo}

DefaultNodes ==
    UNION {{a.nodes[i].id : i \in DOMAIN a.nodes} : a \in DefaultAgents}
=============================================================================
