----------------------------- MODULE OntologyDag -----------------------------
(* OntologyDAG (services/ontology_dag.py): the dependencies between definitions,
   kept in both directions, and the four searches over them.  An edge goes from a
   definition to one that depends on it.

   An iteration over a Python set takes its members in any order.  Every search is
   a machine that looks at one node, or one edge, in a step; nothing else happens
   while it runs, but its steps are what is checked against the definitions of a
   cycle, an order and a closure at the end of this module. *)
EXTENDS Integers, Sequences, FiniteSets

CONSTANTS
    Ids,     \* of definitions
    NoId     \* where no definition is asked about

ASSUME DagAssumption == IsFiniteSet(Ids) /\ NoId \notin Ids

VARIABLES
    nodes,          \* _nodes
    dependents,     \* _dependents
    dependencies,   \* _dependencies
    job,            \* "none", or what is asked and whether it was answered
    about,          \* the node that get_impact_set or get_dependency_chain is given
    color,          \* find_cycle: "white", "gray" or "black"
    left,           \* find_cycle: what the loop of each call has still to look at
    stack,          \* find_cycle: the calls of dfs that have not returned
    degree,         \* topological_sort: in_degree
    queue,          \* the deque of the other three
    visited,        \* get_impact_set and get_dependency_chain
    list,           \* sorted_nodes, or chain
    answer          \* what the last job returned

graph == <<nodes, dependents, dependencies>>
search == <<about, color, left, stack, degree, queue, visited, list>>
dagVars == <<graph, job, search, answer>>

Jobs == {"none", "cycle", "sort", "sort_cycle", "impact", "chain", "done"}
Colors == {"white", "gray", "black"}
NoAnswer == [job |-> "none", about |-> NoId, list |-> <<>>]

White == [n \in Ids |-> "white"]
Nothing == [n \in Ids |-> {}]
Zero == [n \in Ids |-> 0]

Init ==
    /\ nodes = {}
    /\ dependents = Nothing /\ dependencies = Nothing
    /\ job = "none" /\ about = NoId
    /\ color = White /\ left = Nothing /\ stack = <<>>
    /\ degree = Zero /\ queue = <<>> /\ visited = {} /\ list = <<>>
    /\ answer = NoAnswer
-----------------------------------------------------------------------------
(* The operations that change the graph *)
AddNode(n) ==
    /\ nodes' = nodes \cup {n}
    /\ UNCHANGED <<dependents, dependencies>>

AddEdge(from, to) ==
    /\ nodes' = nodes \cup {from, to}
    /\ dependents' = [dependents EXCEPT ![from] = @ \cup {to}]
    /\ dependencies' = [dependencies EXCEPT ![to] = @ \cup {from}]

RemoveEdge(from, to) ==
    /\ dependents' = [dependents EXCEPT ![from] = @ \ {to}]
    /\ dependencies' = [dependencies EXCEPT ![to] = @ \ {from}]
    /\ UNCHANGED nodes

(* Mutant of RemoveNode: only the edges that lead to the node go *)
RemoveNodeHalf(n) ==
    /\ nodes' = nodes \ {n}
    /\ dependents' = [m \in Ids |-> IF m = n THEN {} ELSE dependents[m] \ {n}]
    /\ dependencies' = [dependencies EXCEPT ![n] = {}]

RemoveNode(n) ==
    /\ nodes' = nodes \ {n}
    /\ dependents' = [m \in Ids |-> IF m = n THEN {}
                                    ELSE IF m \in dependencies[n] THEN dependents[m] \ {n}
                                    ELSE dependents[m]]
    /\ dependencies' = [m \in Ids |-> IF m = n THEN {}
                                      ELSE IF m \in dependents[n] THEN dependencies[m] \ {n}
                                      ELSE dependencies[m]]

Edit ==
    /\ job = "none"
    /\ \/ \E n \in Ids : AddNode(n) \/ RemoveNode(n)
       \/ \E m, n \in Ids : AddEdge(m, n) \/ RemoveEdge(m, n)
    /\ UNCHANGED <<job, search, answer>>

(* A job ends with an answer, and what it worked with is gone *)
Return(what, result) ==
    /\ job' = "done"
    /\ answer' = [job |-> what, about |-> about, list |-> result]
    /\ about' = NoId
    /\ color' = White /\ left' = Nothing /\ stack' = <<>>
    /\ degree' = Zero /\ queue' = <<>> /\ visited' = {} /\ list' = <<>>
    /\ UNCHANGED graph

Forget ==
    /\ job = "done"
    /\ job' = "none"
    /\ answer' = NoAnswer
    /\ UNCHANGED <<graph, search>>

(* The members of a set in some order *)
Orders(S) == {f \in [1..Cardinality(S) -> S] : \A i, j \in DOMAIN f : f[i] = f[j] => i = j}
-----------------------------------------------------------------------------
(* find_cycle.  topological_sort calls it too when it could not take every node *)
Searching == job \in {"cycle", "sort_cycle"}

FindCycle ==
    /\ job = "none"
    /\ job' = "cycle"
    /\ UNCHANGED <<graph, search, answer>>

(* dfs(n) is called *)
Enter(n) ==
    /\ color' = [color EXCEPT ![n] = "gray"]
    /\ stack' = Append(stack, n)
    /\ left' = [left EXCEPT ![n] = dependents[n]]

Root ==
    /\ Searching
    /\ stack = <<>>
    /\ \E n \in nodes : color[n] = "white" /\ Enter(n)
    /\ UNCHANGED <<graph, job, about, degree, queue, visited, list, answer>>

Top == stack[Len(stack)]

(* The search comes back to a node whose call has not returned *)
Closes(d) == color[d] = "gray"

(* From there along the parents to the node at hand, and back; the parents of a
   node that is not under way would end at the root *)
Path(d) ==
    LET before == {i \in 1..Len(stack) : \A j \in i..Len(stack) : stack[j] # d}
        from == IF before = {} THEN Len(stack) + 1
                ELSE CHOOSE i \in before : \A j \in before : i <= j
    IN  <<d>> \o SubSeq(stack, from, Len(stack)) \o <<d>>

Found ==
    /\ Searching
    /\ stack # <<>>
    /\ \E d \in left[Top] :
        /\ Closes(d)
        /\ Return(job, Path(d))

Descend ==
    /\ Searching
    /\ stack # <<>>
    /\ \E d \in left[Top] :
        /\ color[d] = "white"
        /\ color' = [color EXCEPT ![d] = "gray"]
        /\ stack' = Append(stack, d)
        /\ left' = [left EXCEPT ![Top] = @ \ {d}, ![d] = dependents[d]]
    /\ UNCHANGED <<graph, job, about, degree, queue, visited, list, answer>>

Pass ==
    /\ Searching
    /\ stack # <<>>
    /\ \E d \in left[Top] :
        /\ color[d] = "black"
        /\ ~Closes(d)
        /\ left' = [left EXCEPT ![Top] = @ \ {d}]
    /\ UNCHANGED <<graph, job, about, color, stack, degree, queue, visited, list, answer>>

Leave ==
    /\ Searching
    /\ stack # <<>>
    /\ left[Top] = {}
    /\ color' = [color EXCEPT ![Top] = "black"]
    /\ stack' = SubSeq(stack, 1, Len(stack) - 1)
    /\ UNCHANGED <<graph, job, about, left, degree, queue, visited, list, answer>>

(* No cycle; the caller of topological_sort would get no order and no cycle *)
NotFound ==
    /\ Searching
    /\ stack = <<>>
    /\ \A n \in nodes : color[n] = "black"
    /\ Return(job, <<>>)
-----------------------------------------------------------------------------
(* topological_sort *)
InDegree(n) == Cardinality({m \in nodes : n \in dependents[m]})

Sort ==
    /\ job = "none"
    /\ job' = "sort"
    /\ degree' = [n \in Ids |-> InDegree(n)]
    /\ \E first \in Orders({n \in nodes : InDegree(n) = 0}) : queue' = first
    /\ UNCHANGED <<graph, about, color, left, stack, visited, list, answer>>

(* Mutant of Freed: a dependent may follow as soon as one dependency has *)
FreedEarly(n) == {d \in dependents[n] : degree[d] >= 1}

(* The dependents for which n was the last they waited for *)
Freed(n) == {d \in dependents[n] : degree[d] = 1}

Take ==
    /\ job = "sort"
    /\ queue # <<>>
    /\ LET n == Head(queue) IN
        /\ list' = Append(list, n)
        /\ degree' = [d \in Ids |-> IF d \in dependents[n] THEN degree[d] - 1 ELSE degree[d]]
        /\ \E next \in Orders(Freed(n)) : queue' = Tail(queue) \o next
    /\ UNCHANGED <<graph, job, about, color, left, stack, visited, answer>>

Sorted ==
    /\ job = "sort"
    /\ queue = <<>>
    /\ Len(list) = Cardinality(nodes)
    /\ Return("sort", list)

SortFails ==
    /\ job = "sort"
    /\ queue = <<>>
    /\ Len(list) # Cardinality(nodes)
    /\ job' = "sort_cycle"
    /\ degree' = [n \in Ids |-> 0]
    /\ list' = <<>>
    /\ UNCHANGED <<graph, about, color, left, stack, queue, visited, answer>>
-----------------------------------------------------------------------------
(* get_impact_set: what is compiled again when a definition changes *)
GetImpact(n) ==
    /\ job = "none"
    /\ job' = "impact"
    /\ about' = n
    /\ queue' = <<n>>
    /\ visited' = {n}
    /\ UNCHANGED <<graph, color, left, stack, degree, list, answer>>

Spread ==
    /\ job = "impact"
    /\ queue # <<>>
    /\ LET new == dependents[Head(queue)] \ visited IN
        /\ visited' = visited \cup new
        /\ \E next \in Orders(new) : queue' = Tail(queue) \o next /\ list' = list \o next
    /\ UNCHANGED <<graph, job, about, color, left, stack, degree, answer>>

(* get_dependency_chain: a node is visited when it leaves the queue, which may
   hold it more than once *)
GetChain(n) ==
    /\ job = "none"
    /\ job' = "chain"
    /\ about' = n
    /\ queue' = <<n>>
    /\ UNCHANGED <<graph, color, left, stack, degree, visited, list, answer>>

Climb ==
    /\ job = "chain"
    /\ queue # <<>>
    /\ LET n == Head(queue) IN
        IF n \in visited
        THEN queue' = Tail(queue) /\ UNCHANGED <<visited, list>>
        ELSE /\ visited' = visited \cup {n}
             /\ list' = IF n = about THEN list ELSE Append(list, n)
             /\ \E next \in Orders(dependencies[n] \ visited') : queue' = Tail(queue) \o next
    /\ UNCHANGED <<graph, job, about, color, left, stack, degree, answer>>

(* Mutant of Closed: the chain is returned as it was found *)
ClosedForward ==
    /\ job \in {"impact", "chain"}
    /\ queue = <<>>
    /\ Return(job, list)

(* The chain is returned in reverse *)
Closed ==
    /\ job \in {"impact", "chain"}
    /\ queue = <<>>
    /\ Return(job, IF job = "impact" THEN list
                   ELSE [i \in 1..Len(list) |-> list[Len(list) + 1 - i]])
-----------------------------------------------------------------------------
Ask ==
    \/ FindCycle
    \/ Sort
    \/ \E n \in Ids : GetImpact(n) \/ GetChain(n)

SearchStep ==
    \/ Root \/ Found \/ Descend \/ Pass \/ Leave \/ NotFound
    \/ Take \/ Sorted \/ SortFails
    \/ Spread \/ Climb \/ Closed

Next == Edit \/ Ask \/ SearchStep \/ Forget

Spec == Init /\ [][Next]_dagVars
-----------------------------------------------------------------------------
(* Every variable has its type. *)
TypeOK ==
    /\ nodes \subseteq Ids
    /\ dependents \in [Ids -> SUBSET Ids]
    /\ dependencies \in [Ids -> SUBSET Ids]
    /\ job \in Jobs
    /\ about \in Ids \cup {NoId}
    /\ color \in [Ids -> Colors]
    /\ left \in [Ids -> SUBSET Ids]
    /\ stack \in Seq(Ids)
    /\ degree \in [Ids -> Int]
    /\ queue \in Seq(Ids)
    /\ visited \subseteq Ids
    /\ list \in Seq(Ids)

(* The two directions say the same whatever was added and removed in whatever
   order, loops included, and no edge outlives a node: the searches index their
   tables with what the edges name, and raise for a node that is not there. *)
Mirrored ==
    \A m, n \in Ids :
        /\ n \in dependents[m] <=> m \in dependencies[n]
        /\ n \in dependents[m] => m \in nodes /\ n \in nodes

(* There is a way of one edge or more from m to n *)
Reaches(m, n) ==
    \A S \in SUBSET Ids :
        dependents[m] \subseteq S /\ (\A s \in S : dependents[s] \subseteq S) => n \in S

Distinct(seq) == \A i, j \in DOMAIN seq : seq[i] = seq[j] => i = j

CycleAnswer == answer.job \in {"cycle", "sort_cycle"}

(* What is told as a cycle goes round once along edges *)
CycleReal ==
    CycleAnswer /\ answer.list # <<>> =>
        LET path == answer.list IN
        /\ Len(path) > 1 /\ path[1] = path[Len(path)]
        /\ \A i \in 1..(Len(path) - 1) : path[i + 1] \in dependents[path[i]]
        /\ Distinct(Tail(path))

(* When none is told, no node is on one *)
NoCycleMissed ==
    CycleAnswer /\ answer.list = <<>> => \A n \in nodes : ~Reaches(n, n)

(* A cycle is told exactly when there is one, and the path told goes round it once
   along edges; topological_sort gives every node once and after all it depends on,
   or such a path, and never neither. *)
CyclesTold ==
    /\ CycleReal /\ NoCycleMissed
    /\ answer.job = "sort_cycle" => answer.list # <<>>
    /\ answer.job = "sort" =>
        /\ Len(answer.list) = Cardinality(nodes) /\ Distinct(answer.list)
        /\ \A i, j \in DOMAIN answer.list :
                answer.list[j] \in dependents[answer.list[i]] => i < j

(* The impact set is all that depends on the node and the chain all it depends on,
   once each and without the node, on a cycle too.  Of what needs a member of the
   chain, something follows it there, or the node itself needs it (but not all
   that needs it follows: the chain is no topological order). *)
ClosureRight ==
    LET members == {answer.list[i] : i \in DOMAIN answer.list} IN
    /\ answer.job = "impact" =>
        members = {n \in Ids \ {answer.about} : Reaches(answer.about, n)}
    /\ answer.job = "chain" =>
        /\ members = {n \in Ids \ {answer.about} : Reaches(n, answer.about)}
        /\ Distinct(answer.list)
        /\ \A i \in DOMAIN answer.list :
            \/ answer.about \in dependents[answer.list[i]]
            \/ \E j \in DOMAIN answer.list : i < j /\ answer.list[j] \in dependents[answer.list[i]]
=============================================================================
