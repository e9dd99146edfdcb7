-------------------------- MODULE TopologicalOrder --------------------------
(* topological_order of the Workshop runtime (services/workshop_runtime_helpers.py):
   a depth-first search over the graph a user drew.  Every id, of a node or only
   named by an edge, gets a colour; the recursion of visit() is the stack of its
   frames.  A call is one step, so is a return.  The order is the ids by
   descending post number; nothing else happens while the search is under way,
   but its steps are what its correctness is proved over.

   A node without an id takes no part.  A graph so deep that Python's recursion
   ends before it does is not in Graphs. *)
EXTENDS Naturals, Sequences, FiniteSets

CONSTANTS
    Ids,     \* of nodes, and whatever the edges name besides
    Types,   \* of nodes
    Graphs   \* that a user may save

Node == [id : Ids, type : Types]
Edge == [source : Ids, target : Ids]
Graph == [nodes : Seq(Node), edges : Seq(Edge)]

ASSUME GraphAssumption == IsFiniteSet(Ids) /\ Graphs \subseteq Graph

VARIABLES
    graph,    \* the nodes and edges given
    color,    \* "white", "gray" or "black"
    stack,    \* the calls of visit that have not returned, with their next edge
    post,     \* post-order numbers of the black ids
    counter,  \* the next of them
    at,       \* position in the two loops over the nodes, one after the other
    cyclic    \* has_cycle

orderVars == <<graph, color, stack, post, counter, at, cyclic>>

Colors == {"white", "gray", "black"}
Frame == [node : Ids, next : Nat]

OrderInit ==
    /\ graph \in Graphs
    /\ color = [n \in Ids |-> "white"]
    /\ stack = <<>>
    /\ post = [n \in Ids |-> 0]
    /\ counter = 0
    /\ at = 1
    /\ cyclic = FALSE

NodeCount == Len(graph.nodes)
NodeIds == {graph.nodes[i].id : i \in 1..NodeCount}
Edges == 1..Len(graph.edges)
Source(i) == graph.edges[i].source
Target(i) == graph.edges[i].target

-----------------------------------------------------------------------------
(* visit(n), called when the frames are those given: a white id is entered, a
   gray one closes a cycle, a black one is left alone *)
Visit(n, frames) ==
    /\ color' = IF color[n] = "white" THEN [color EXCEPT ![n] = "gray"] ELSE color
    /\ stack' = IF color[n] = "white" THEN Append(frames, [node |-> n, next |-> 1])
                ELSE frames
    /\ cyclic' = (cyclic \/ color[n] = "gray")
    /\ UNCHANGED <<graph, post, counter>>

HasIncoming(n) == \E i \in Edges : Target(i) = n

(* The node the two loops are at, and whether they visit it: the first loop the
   nodes without an incoming edge, the second those still white *)
Current == graph.nodes[IF at <= NodeCount THEN at ELSE at - NodeCount].id

Visited ==
    IF at <= NodeCount THEN ~HasIncoming(Current) ELSE color[Current] = "white"

Looping == stack = <<>> /\ at <= 2 * NodeCount

Start ==
    /\ Looping
    /\ Visited
    /\ Visit(Current, <<>>)
    /\ at' = at + 1

Skip ==
    /\ Looping
    /\ ~Visited
    /\ at' = at + 1
    /\ UNCHANGED <<graph, color, stack, post, counter, cyclic>>

Top == stack[Len(stack)]

(* The edges the innermost call has still to look at *)
Ahead == {i \in Edges : i >= Top.next /\ Source(i) = Top.node}

(* Mutant of Follow: the frame stays at its edge *)
FollowAgain ==
    /\ stack # <<>>
    /\ \E i \in Ahead :
          /\ \A j \in Ahead : i <= j
          /\ Visit(Target(i), stack)
    /\ UNCHANGED at

Follow ==
    /\ stack # <<>>
    /\ \E i \in Ahead :
          /\ \A j \in Ahead : i <= j
          /\ Visit(Target(i), [stack EXCEPT ![Len(stack)].next = i + 1])
    /\ UNCHANGED at

(* Mutant of Leave: the id is not coloured black *)
LeaveGray ==
    /\ stack # <<>>
    /\ Ahead = {}
    /\ post' = [post EXCEPT ![Top.node] = counter]
    /\ counter' = counter + 1
    /\ stack' = SubSeq(stack, 1, Len(stack) - 1)
    /\ UNCHANGED <<graph, color, at, cyclic>>

Leave ==
    /\ stack # <<>>
    /\ Ahead = {}
    /\ color' = [color EXCEPT ![Top.node] = "black"]
    /\ post' = [post EXCEPT ![Top.node] = counter]
    /\ counter' = counter + 1
    /\ stack' = SubSeq(stack, 1, Len(stack) - 1)
    /\ UNCHANGED <<graph, at, cyclic>>

OrderNext == Start \/ Skip \/ Follow \/ Leave

Ordered == stack = <<>> /\ at > 2 * NodeCount

-----------------------------------------------------------------------------
(* Properties *)

OrderTypeOK ==
    /\ graph \in Graphs
    /\ color \in [Ids -> Colors]
    /\ stack \in Seq(Frame)
    /\ post \in [Ids -> Nat]
    /\ counter \in Nat
    /\ at \in 1..(2 * NodeCount + 1)
    /\ cyclic \in BOOLEAN

(* Numbers for the ids that fall along every edge: a graph with a cycle has none *)
Heights ==
    {h \in [Ids -> 0..Cardinality(Ids)] : \A i \in Edges : h[Source(i)] > h[Target(i)]}

(* A graph is refused for a cycle only when it has one: two paths to one node, or
   an edge given twice, are no cycle. *)
CycleIsReal == cyclic => Heights = {}

(* Where no cycle was met, post numbers fall along every edge out of a black id,
   so that the descending order has each source before its targets. *)
EdgesDescend ==
    ~cyclic =>
        \A i \in Edges :
            color[Source(i)] = "black" =>
                color[Target(i)] = "black" /\ post[Target(i)] < post[Source(i)]
=============================================================================
