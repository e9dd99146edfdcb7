-------------------------- MODULE OntologyDagProofs --------------------------
(* Proofs about OntologyDAG, for any finite set of definitions and any sequence of
   operations, and about the requests of OntologyChecks that build and search it,
   for any tables and any changes of them meanwhile. *)
EXTENDS OntologyChecks, SequenceTheorems, FiniteSetTheorems, TLAPS

(* The part of the type invariant that is about the graph *)
GraphOK ==
    /\ nodes \subseteq Ids
    /\ dependents \in [Ids -> SUBSET Ids]
    /\ dependencies \in [Ids -> SUBSET Ids]

GraphInv == GraphOK /\ Mirrored

LEMMA EdgeAdded ==
    ASSUME GraphInv, NEW from \in Ids, NEW to \in Ids, AddEdge(from, to)
    PROVE  GraphInv'
<1>1. GraphOK'
  BY DEF GraphInv, GraphOK, AddEdge
<1>2. ASSUME NEW m \in Ids, NEW n \in Ids
      PROVE  /\ n \in dependents'[m] <=> m \in dependencies'[n]
             /\ n \in dependents'[m] => m \in nodes' /\ n \in nodes'
  <2>1. n \in dependents'[m] <=> n \in dependents[m] \/ (m = from /\ n = to)
    BY DEF GraphInv, GraphOK, AddEdge
  <2>2. m \in dependencies'[n] <=> m \in dependencies[n] \/ (m = from /\ n = to)
    BY DEF GraphInv, GraphOK, AddEdge
  <2>3. QED
    BY <2>1, <2>2 DEF GraphInv, Mirrored, AddEdge
<1>3. QED
  BY <1>1, <1>2 DEF GraphInv, Mirrored

LEMMA EdgeRemoved ==
    ASSUME GraphInv, NEW from \in Ids, NEW to \in Ids, RemoveEdge(from, to)
    PROVE  GraphInv'
<1>1. GraphOK'
  BY DEF GraphInv, GraphOK, RemoveEdge
<1>2. ASSUME NEW m \in Ids, NEW n \in Ids
      PROVE  /\ n \in dependents'[m] <=> m \in dependencies'[n]
             /\ n \in dependents'[m] => m \in nodes' /\ n \in nodes'
  <2>1. n \in dependents'[m] <=> n \in dependents[m] /\ ~(m = from /\ n = to)
    BY DEF GraphInv, GraphOK, RemoveEdge
  <2>2. m \in dependencies'[n] <=> m \in dependencies[n] /\ ~(m = from /\ n = to)
    BY DEF GraphInv, GraphOK, RemoveEdge
  <2>3. QED
    BY <2>1, <2>2 DEF GraphInv, Mirrored, RemoveEdge
<1>3. QED
  BY <1>1, <1>2 DEF GraphInv, Mirrored

(* Both loops of remove_node together take away every edge of the node: each loop
   walks the table that the other one changes, and the two agree beforehand *)
LEMMA NodeRemoved ==
    ASSUME GraphInv, NEW k \in Ids, RemoveNode(k)
    PROVE  GraphInv'
<1>1. GraphOK'
  BY DEF GraphInv, GraphOK, RemoveNode
<1>2. ASSUME NEW m \in Ids, NEW n \in Ids
      PROVE  /\ n \in dependents'[m] <=> m \in dependencies'[n]
             /\ n \in dependents'[m] => m \in nodes' /\ n \in nodes'
  <2>1. n \in dependents'[m] <=> n \in dependents[m] /\ m # k /\ n # k
    BY DEF GraphInv, GraphOK, Mirrored, RemoveNode
  <2>2. m \in dependencies'[n] <=> m \in dependencies[n] /\ m # k /\ n # k
    BY DEF GraphInv, GraphOK, Mirrored, RemoveNode
  <2>3. QED
    BY <2>1, <2>2 DEF GraphInv, Mirrored, RemoveNode
<1>3. QED
  BY <1>1, <1>2 DEF GraphInv, Mirrored

LEMMA NodeAdded ==
    ASSUME GraphInv, NEW n \in Ids, AddNode(n)
    PROVE  GraphInv'
BY DEF GraphInv, GraphOK, Mirrored, AddNode

(* Whatever is not an edit leaves the graph alone *)
LEMMA OnlyEdits ==
    ASSUME [Next]_dagVars
    PROVE  Edit \/ UNCHANGED graph
<1>1. CASE Ask
  BY <1>1 DEF Ask, FindCycle, Sort, GetImpact, GetChain, graph
<1>2. CASE SearchStep
  BY <1>2 DEF SearchStep, Root, Found, Descend, Pass, Leave, NotFound, Take, Sorted,
       SortFails, Spread, Climb, Closed, Return, graph
<1>3. CASE Forget \/ UNCHANGED dagVars
  BY <1>3 DEF Forget, dagVars, graph
<1>4. QED
  BY <1>1, <1>2, <1>3 DEF Next

(* The two directions of the graph agree and every end of an edge is a node,
   whatever was added and removed: no search meets a node it has no entry for. *)
THEOREM GraphMirrored == Spec => []Mirrored
<1>1. Init => GraphInv
  BY DEF Init, GraphInv, GraphOK, Mirrored, Nothing
<1>2. GraphInv /\ [Next]_dagVars => GraphInv'
  <2> SUFFICES ASSUME GraphInv, [Next]_dagVars
               PROVE  GraphInv'
    OBVIOUS
  <2>1. CASE Edit
    BY <2>1, EdgeAdded, EdgeRemoved, NodeAdded, NodeRemoved DEF Edit
  <2>2. CASE UNCHANGED graph
    BY <2>2 DEF GraphInv, GraphOK, Mirrored, graph
  <2>3. QED
    BY <2>1, <2>2, OnlyEdits
<1>3. GraphInv => Mirrored
  BY DEF GraphInv
<1>4. QED
  BY <1>1, <1>2, <1>3, PTL DEF Spec

-----------------------------------------------------------------------------
(* The depth-first search *)

SearchTypes ==
    /\ job \in Jobs
    /\ color \in [Ids -> Colors]
    /\ left \in [Ids -> SUBSET Ids]
    /\ stack \in Seq(Ids)

(* Between two searches there is nothing left of one, and no answer but of the
   last *)
Resting ==
    /\ ~Searching => stack = <<>> /\ color = White
    /\ job # "done" => answer = NoAnswer

(* The calls under way are on different nodes, the gray ones, each called from the
   one before it *)
Calls ==
    /\ \A i, j \in 1..Len(stack) : stack[i] = stack[j] => i = j
    /\ \A n \in Ids : color[n] = "gray" <=> \E i \in 1..Len(stack) : stack[i] = n
    /\ \A i \in 1..(Len(stack) - 1) : stack[i + 1] \in dependents[stack[i]]
    /\ \A i \in 1..Len(stack) : left[stack[i]] \subseteq dependents[stack[i]]

(* What a call has looked at is black, but for the node it has just called *)
LookedAt ==
    \A i \in 1..Len(stack) : \A d \in dependents[stack[i]] :
        d \in left[stack[i]] \/ color[d] = "black" \/ (i < Len(stack) /\ stack[i + 1] = d)

(* Nothing black leads out of what is black, nor back to itself *)
BlackClosed == \A b \in Ids : color[b] = "black" => \A d \in dependents[b] : color[d] = "black"
BlackAcyclic == \A b \in Ids : color[b] = "black" => ~Reaches(b, b)

SearchInv ==
    /\ GraphInv
    /\ SearchTypes /\ Resting
    /\ Calls /\ LookedAt /\ BlackClosed /\ BlackAcyclic
    /\ CycleReal /\ NoCycleMissed

(* Where no call is under way and no node black, the search parts hold *)
LEMMA Fresh ==
    ASSUME stack = <<>>, color = White
    PROVE  Calls /\ LookedAt /\ BlackClosed /\ BlackAcyclic
BY DEF Calls, LookedAt, BlackClosed, BlackAcyclic, White

LEMMA FreshNext ==
    ASSUME stack' = <<>>, color' = White
    PROVE  Calls' /\ LookedAt' /\ BlackClosed' /\ BlackAcyclic'
BY DEF Calls, LookedAt, BlackClosed, BlackAcyclic, White

(* Every answer leaves a state at rest *)
LEMMA Returned ==
    ASSUME SearchInv, NEW what, NEW result, Return(what, result)
    PROVE  /\ GraphInv' /\ SearchTypes' /\ Resting'
           /\ Calls' /\ LookedAt' /\ BlackClosed' /\ BlackAcyclic'
           /\ dependents' = dependents /\ nodes' = nodes
           /\ answer'.job = what /\ answer'.list = result
<1>1. GraphInv' /\ dependents' = dependents /\ nodes' = nodes
  BY DEF Return, SearchInv, GraphInv, GraphOK, Mirrored, graph
<1>2. SearchTypes'
  BY DEF Return, SearchTypes, Jobs, White, Colors, Nothing
<1>3. Resting'
  BY DEF Return, Resting, Searching
<1>4. Calls' /\ LookedAt' /\ BlackClosed' /\ BlackAcyclic'
  BY FreshNext DEF Return
<1>5. QED
  BY <1>1, <1>2, <1>3, <1>4 DEF Return

(* The least number of a set *)
LEMMA Least ==
    ASSUME NEW S \in SUBSET Int, NEW k \in S, \A i \in S : k <= i
    PROVE  (CHOOSE i \in S : \A j \in S : i <= j) = k
<1>1. \A i \in S : (\A j \in S : i <= j) => i = k
  OBVIOUS
<1>2. QED
  BY <1>1

(* One element, then a sequence, then the element again *)
LEMMA Front ==
    ASSUME NEW S, NEW d \in S, NEW m \in Seq(S)
    PROVE  /\ <<d>> \o m \in Seq(S) /\ Len(<<d>> \o m) = Len(m) + 1
           /\ (<<d>> \o m)[1] = d
           /\ \A i \in 1..Len(m) : (<<d>> \o m)[i + 1] = m[i]
OBVIOUS

LEMMA Back ==
    ASSUME NEW S, NEW d \in S, NEW m \in Seq(S)
    PROVE  /\ m \o <<d>> \in Seq(S) /\ Len(m \o <<d>>) = Len(m) + 1
           /\ (m \o <<d>>)[Len(m) + 1] = d
           /\ \A i \in 1..Len(m) : (m \o <<d>>)[i] = m[i]
OBVIOUS

LEMMA Around ==
    ASSUME NEW S, NEW d \in S, NEW m \in Seq(S), NEW path, path = <<d>> \o m \o <<d>>
    PROVE  /\ path \in Seq(S) /\ Len(path) = Len(m) + 2
           /\ path[1] = d /\ path[Len(m) + 2] = d
           /\ \A i \in 1..Len(m) : path[i + 1] = m[i]
<1> DEFINE front == <<d>> \o m
<1>1. /\ front \in Seq(S) /\ Len(front) = Len(m) + 1 /\ front[1] = d
      /\ \A i \in 1..Len(m) : front[i + 1] = m[i]
  BY Front
<1>2. path = front \o <<d>> /\ Len(m) \in Nat
  OBVIOUS
<1> HIDE DEF front
<1>3. /\ path \in Seq(S) /\ Len(path) = Len(front) + 1
      /\ path[Len(front) + 1] = d
      /\ \A i \in 1..Len(front) : path[i] = front[i]
  BY <1>1, <1>2, Back
<1>4. QED
  BY <1>1, <1>2, <1>3

(* The path begins behind the last place of d among the calls *)
LEMMA PathFrom ==
    ASSUME SearchTypes, Calls, NEW p \in 1..Len(stack)
    PROVE  Path(stack[p]) =
              <<stack[p]>> \o SubSeq(stack, p + 1, Len(stack)) \o <<stack[p]>>
<1> DEFINE d == stack[p]
           before == {i \in 1..Len(stack) : \A j \in i..Len(stack) : stack[j] # d}
<1>0. Len(stack) \in Nat
  BY DEF SearchTypes
<1>1. ASSUME NEW i \in 1..Len(stack)
      PROVE  i \in before <=> i > p
  BY <1>0 DEF Calls
<1>2. CASE p = Len(stack)
  <2>1. before = {}
    BY <1>0, <1>1, <1>2
  <2>2. QED
    BY <2>1, <1>2 DEF Path
<1>3. CASE p < Len(stack)
  <2>1. p + 1 \in before /\ before # {}
    BY <1>0, <1>1, <1>3
  <2>2. \A i \in before : p + 1 <= i
    BY <1>0, <1>1
  <2> HIDE DEF before
  <2>3. before \subseteq Int
    BY DEF before
  <2>4. (CHOOSE i \in before : \A j \in before : i <= j) = p + 1
    BY <2>1, <2>2, <2>3, Least
  <2>5. QED
    BY <2>1, <2>4 DEF Path, before
<1>4. QED
  BY <1>0, <1>2, <1>3

(* The nodes of a path that is told: d, what was called after it, and d again *)
LEMMA PathNodes ==
    ASSUME SearchTypes, Calls, NEW p \in 1..Len(stack)
    PROVE  LET path == Path(stack[p])
               count == Len(stack) - p
           IN
           /\ count \in Nat
           /\ path \in Seq(Ids) /\ Len(path) = count + 2
           /\ \A i \in 1..(count + 1) : path[i] = stack[p + (i - 1)]
           /\ path[count + 2] = stack[p]
<1> DEFINE path == Path(stack[p])
           count == Len(stack) - p
           middle == SubSeq(stack, p + 1, Len(stack))
<1>0. Len(stack) \in Nat /\ count \in Nat /\ p \in Int /\ count = Len(stack) - p
  BY DEF SearchTypes
<1>1. \A i \in 1..Len(stack) : stack[i] \in Ids
  BY ElementOfSeq DEF SearchTypes
<1>2. /\ middle \in Seq(Ids) /\ Len(middle) = count
      /\ \A i \in 1..count : middle[i] = stack[p + i]
  <2>1. \A i \in (p + 1)..Len(stack) : stack[i] \in Ids
    BY <1>0, <1>1
  <2>2. /\ middle \in Seq(Ids)
        /\ Len(middle) = IF p + 1 <= Len(stack) THEN Len(stack) - (p + 1) + 1 ELSE 0
        /\ \A i \in 1..(Len(stack) - (p + 1) + 1) : middle[i] = stack[(p + 1) + i - 1]
    BY <1>0, <2>1, SubSeqProperties
  <2> HIDE DEF middle
  <2>3. \A i \in 1..count : (p + 1) + i - 1 = p + i
    BY <1>0
  <2>4. QED
    BY <1>0, <2>2, <2>3
<1>3. path = <<stack[p]>> \o middle \o <<stack[p]>>
  BY PathFrom
<1> HIDE DEF middle, path, count
<1>4. /\ path \in Seq(Ids) /\ Len(path) = Len(middle) + 2
      /\ path[1] = stack[p] /\ path[Len(middle) + 2] = stack[p]
      /\ \A i \in 1..Len(middle) : path[i + 1] = middle[i]
  <2>1. stack[p] \in Ids /\ middle \in Seq(Ids)
    BY <1>1, <1>2
  <2>2. QED
    BY <1>3, <2>1, Around
<1>5. ASSUME NEW i \in 1..(count + 1)
      PROVE  path[i] = stack[p + (i - 1)]
  <2>1. CASE i = 1
    BY <1>0, <1>4, <2>1
  <2>2. CASE i # 1
    <3>1. i - 1 \in 1..count /\ (i - 1) + 1 = i
      BY <1>0, <2>2
    <3>2. path[(i - 1) + 1] = middle[i - 1]
      BY <1>2, <1>4, <3>1
    <3>3. QED
      BY <1>2, <3>1, <3>2
  <2>3. QED
    BY <2>1, <2>2
<1>6. QED
  BY <1>0, <1>2, <1>4, <1>5 DEF path, count

(* A path that is told is a cycle *)
LEMMA PathIsCycle ==
    ASSUME GraphInv, SearchTypes, Calls, stack # <<>>, NEW d \in left[Top], color[d] = "gray",
           NEW path, path = Path(d)
    PROVE  /\ Len(path) > 1 /\ path[1] = path[Len(path)]
           /\ \A i \in 1..(Len(path) - 1) : path[i + 1] \in dependents[path[i]]
           /\ Distinct(Tail(path))
<1>0. Len(stack) \in Nat /\ Len(stack) > 0 /\ Top = stack[Len(stack)] /\ Top \in Ids
  BY EmptySeq DEF SearchTypes, Top
<1>1. d \in dependents[Top] /\ d \in Ids
  BY <1>0 DEF Calls, GraphInv, GraphOK
<1>2. PICK p \in 1..Len(stack) : stack[p] = d
  BY <1>1 DEF Calls
<1> DEFINE count == Len(stack) - p
<1>c. count = Len(stack) - p
  OBVIOUS
<1> HIDE DEF count
<1>3. /\ count \in Nat /\ count = Len(stack) - p
      /\ path \in Seq(Ids) /\ Len(path) = count + 2
      /\ \A i \in 1..(count + 1) : path[i] = stack[p + (i - 1)]
      /\ path[count + 2] = d
  <2>1. path = Path(stack[p])
    BY <1>2
  <2>2. QED
    BY <1>2, <2>1, PathNodes DEF count
<1>4. path[1] = d
  <2>1. 1 \in 1..(count + 1) /\ p + (1 - 1) = p
    BY <1>3
  <2>2. QED
    BY <1>2, <1>3, <2>1
<1>5. ASSUME NEW i \in 1..(count + 1)
      PROVE  path[i + 1] \in dependents[path[i]]
  <2>1. CASE i = count + 1
    <3>1. p + (i - 1) = Len(stack) /\ i + 1 = count + 2
      BY <1>0, <1>3, <2>1
    <3>2. QED
      BY <1>0, <1>1, <1>3, <3>1
  <2>2. CASE i # count + 1
    <3>0. \A c, l \in Nat : \A k \in 1..l, j \in 1..(c + 1) : c = l - k /\ j # c + 1 =>
            /\ j + 1 \in 1..(c + 1) /\ (j + 1) - 1 = j
            /\ k + (j - 1) \in 1..(l - 1) /\ (k + (j - 1)) + 1 = k + j
      OBVIOUS
    <3>1. /\ i + 1 \in 1..(count + 1) /\ (i + 1) - 1 = i
          /\ p + (i - 1) \in 1..(Len(stack) - 1) /\ (p + (i - 1)) + 1 = p + i
      BY <1>0, <1>3, <2>2, <3>0
    <3>2. path[i] = stack[p + (i - 1)] /\ path[i + 1] = stack[p + i]
      BY <1>3, <3>1
    <3>3. stack[(p + (i - 1)) + 1] \in dependents[stack[p + (i - 1)]]
      BY <3>1 DEF Calls
    <3>4. QED
      BY <3>1, <3>2, <3>3
  <2>3. QED
    BY <2>1, <2>2
<1>6. ASSUME NEW i \in 2..(count + 2), NEW j \in 2..(count + 2), path[i] = path[j]
      PROVE  i = j
  <2> DEFINE At(k) == IF k = count + 2 THEN p ELSE p + (k - 1)
  <2>1. ASSUME NEW k \in 2..(count + 2)
        PROVE  At(k) \in 1..Len(stack) /\ path[k] = stack[At(k)]
    <3>1. CASE k = count + 2
      BY <1>2, <1>3, <3>1
    <3>2. CASE k # count + 2
      <4>1. k \in 1..(count + 1) /\ p + (k - 1) \in 1..Len(stack)
        BY <1>0, <1>3, <3>2, SMTT(30)
      <4>2. QED
        BY <1>3, <3>2, <4>1
    <3>3. QED
      BY <3>1, <3>2
  <2>2. At(i) = At(j)
    <3> HIDE DEF At
    <3>1. QED
      BY <1>6, <2>1 DEF Calls
  <2>3. QED
    BY <1>3, <2>2
<1>7. Distinct(Tail(path))
  <2>1. DOMAIN Tail(path) = 1..(count + 1) /\ \A i \in 1..(count + 1) : Tail(path)[i] = path[i + 1]
    BY <1>3
  <2>2. ASSUME NEW i \in 1..(count + 1), NEW j \in 1..(count + 1), Tail(path)[i] = Tail(path)[j]
        PROVE  i = j
    <3>1. i + 1 \in 2..(count + 2) /\ j + 1 \in 2..(count + 2) /\ path[i + 1] = path[j + 1]
      BY <1>3, <2>1, <2>2
    <3>2. i + 1 = j + 1
      BY <1>6, <3>1
    <3>3. QED
      BY <3>2
  <2>3. QED
    BY <2>1, <2>2 DEF Distinct
<1>8. QED
  BY <1>3, <1>4, <1>5, <1>7

(* What holds of the graph and of the answer alone stays while both do *)
LEMMA Kept ==
    ASSUME SearchInv, UNCHANGED <<graph, answer>>
    PROVE  GraphInv' /\ CycleReal' /\ NoCycleMissed'
BY DEF SearchInv, GraphInv, GraphOK, Mirrored, CycleReal, NoCycleMissed, CycleAnswer, Reaches, graph

(* The other jobs leave the depth-first search at rest *)
LEMMA Aside ==
    ASSUME SearchInv, ~Searching, job # "done", job' \in Jobs \ {"done"},
           UNCHANGED <<graph, color, left, stack, answer>>
    PROVE  SearchInv'
<1>1. stack = <<>> /\ color = White /\ answer = NoAnswer
  BY DEF SearchInv, Resting
<1>2. GraphInv' /\ CycleReal' /\ NoCycleMissed'
  BY Kept
<1>3. SearchTypes' /\ Resting'
  BY <1>1 DEF SearchInv, SearchTypes, Resting
<1>4. QED
  BY <1>1, <1>2, <1>3, FreshNext DEF SearchInv

(* A state at rest whose last answer is of no cycle search *)
LEMMA NoAnswerLeft ==
    ASSUME SearchInv, ~Searching, GraphInv', SearchTypes', Resting',
           UNCHANGED <<stack, color>>, answer'.job \notin {"cycle", "sort_cycle"}
    PROVE  SearchInv'
<1>1. stack = <<>> /\ color = White
  BY DEF SearchInv, Resting
<1>2. QED
  BY <1>1, FreshNext DEF SearchInv, CycleReal, NoCycleMissed, CycleAnswer

LEMMA EditKeeps ==
    ASSUME SearchInv, Edit
    PROVE  SearchInv'
<1>1. ~Searching /\ answer = NoAnswer
  BY DEF SearchInv, Resting, Edit, Searching
<1>2. GraphInv'
  BY EdgeAdded, EdgeRemoved, NodeAdded, NodeRemoved DEF Edit, SearchInv
<1>3. SearchTypes' /\ Resting' /\ UNCHANGED <<stack, color, answer>>
  BY DEF Edit, SearchInv, SearchTypes, Resting, Searching, search
<1>4. QED
  BY <1>1, <1>2, <1>3, NoAnswerLeft DEF NoAnswer

LEMMA ForgetKeeps ==
    ASSUME SearchInv, Forget
    PROVE  SearchInv'
<1>1. ~Searching
  BY DEF Forget, Searching
<1>2. GraphInv' /\ SearchTypes' /\ Resting' /\ UNCHANGED <<stack, color>>
  BY DEF Forget, SearchInv, GraphInv, GraphOK, Mirrored, SearchTypes, Jobs, Resting, Searching,
         search, graph
<1>3. QED
  BY <1>1, <1>2, NoAnswerLeft DEF Forget, NoAnswer

(* A call of dfs on a root: nothing was under way *)
LEMMA RootKeeps ==
    ASSUME SearchInv, Root
    PROVE  SearchInv'
<1>1. PICK n \in nodes : color[n] = "white" /\ Enter(n)
  BY DEF Root
<1>2. n \in Ids /\ stack = <<>> /\ stack' = <<n>>
  BY <1>1 DEF Root, Enter, SearchInv, GraphInv, GraphOK
<1>3. color' = [color EXCEPT ![n] = "gray"] /\ left' = [left EXCEPT ![n] = dependents[n]]
  BY <1>1 DEF Enter
<1>4. GraphInv' /\ CycleReal' /\ NoCycleMissed'
  BY Kept DEF Root, graph
<1>5. SearchTypes' /\ Resting'
  BY <1>2, <1>3 DEF SearchInv, SearchTypes, Resting, Root, Searching, Colors, GraphInv, GraphOK
<1>6. Len(stack') = 1 /\ stack'[1] = n /\ dependents' = dependents
  BY <1>2 DEF Root, graph
<1>7. \A m \in Ids : color[m] # "gray"
  BY <1>2 DEF SearchInv, Calls
<1>8. Calls'
  BY <1>2, <1>3, <1>6, <1>7 DEF SearchInv, Calls, SearchTypes
<1>9. LookedAt'
  BY <1>2, <1>3, <1>6 DEF SearchInv, LookedAt, SearchTypes
<1>10. BlackClosed' /\ BlackAcyclic'
  <2>1. \A m \in Ids : color'[m] = "black" => color[m] = "black"
    BY <1>2, <1>3 DEF SearchInv, SearchTypes
  <2>2. \A m \in Ids : color[m] = "black" => color'[m] = "black"
    BY <1>1, <1>2, <1>3 DEF SearchInv, SearchTypes
  <2>3. QED
    BY <1>6, <2>1, <2>2 DEF SearchInv, BlackClosed, BlackAcyclic, Reaches, GraphInv, GraphOK
<1>11. QED
  BY <1>4, <1>5, <1>8, <1>9, <1>10 DEF SearchInv

(* The call at hand, as the next three steps see it *)
LEMMA AtTop ==
    ASSUME SearchInv, stack # <<>>
    PROVE  /\ Len(stack) \in Nat /\ Len(stack) > 0 /\ Top = stack[Len(stack)]
           /\ Top \in Ids /\ color[Top] = "gray"
           /\ left[Top] \subseteq dependents[Top]
           /\ \A i \in 1..Len(stack) : stack[i] \in Ids /\ color[stack[i]] = "gray"
<1>1. Len(stack) \in Nat /\ Len(stack) > 0 /\ Top = stack[Len(stack)]
  BY EmptySeq DEF SearchInv, SearchTypes, Top
<1>2. \A i \in 1..Len(stack) : stack[i] \in Ids
  BY ElementOfSeq DEF SearchInv, SearchTypes
<1>3. QED
  BY <1>1, <1>2 DEF SearchInv, Calls

LEMMA DescendKeeps ==
    ASSUME SearchInv, Descend
    PROVE  SearchInv'
<1> DEFINE top == Top
           depth == Len(stack)
<1>1. /\ depth \in Nat /\ depth > 0 /\ top = stack[depth] /\ top \in Ids /\ color[top] = "gray"
      /\ left[top] \subseteq dependents[top]
      /\ \A i \in 1..depth : stack[i] \in Ids /\ color[stack[i]] = "gray"
  BY AtTop DEF Descend
<1>2. PICK d \in left[top] : /\ color[d] = "white"
                             /\ color' = [color EXCEPT ![d] = "gray"]
                             /\ stack' = Append(stack, d)
                             /\ left' = [left EXCEPT ![top] = @ \ {d}, ![d] = dependents[d]]
  BY DEF Descend
<1>3. d \in Ids /\ d # top /\ d \in dependents[top]
  BY <1>1, <1>2 DEF SearchInv, GraphInv, GraphOK
<1>4. GraphInv' /\ CycleReal' /\ NoCycleMissed' /\ dependents' = dependents
  BY Kept DEF Descend, graph
<1> HIDE DEF top, depth
<1>5. SearchTypes' /\ Resting'
  <2>1. color' \in [Ids -> Colors]
    BY <1>2, <1>3 DEF SearchInv, SearchTypes, Colors
  <2>2. left' \in [Ids -> SUBSET Ids]
    BY <1>1, <1>2, <1>3 DEF SearchInv, SearchTypes, GraphInv, GraphOK
  <2>3. stack' \in Seq(Ids)
    BY <1>2, <1>3 DEF SearchInv, SearchTypes
  <2>4. QED
    BY <2>1, <2>2, <2>3 DEF SearchInv, SearchTypes, Resting, Descend, Searching
<1>6. /\ Len(stack') = depth + 1 /\ stack'[depth + 1] = d
      /\ \A i \in 1..depth : stack'[i] = stack[i]
  BY <1>1, <1>2, <1>3 DEF SearchInv, SearchTypes, depth
<1>7. /\ \A m \in Ids : color'[m] = IF m = d THEN "gray" ELSE color[m]
      /\ \A m \in Ids : left'[m] = IF m = d THEN dependents[d]
                                   ELSE IF m = top THEN left[top] \ {d} ELSE left[m]
  BY <1>1, <1>2, <1>3 DEF SearchInv, SearchTypes
<1>8. \A i \in 1..depth : stack[i] # d
  BY <1>1, <1>2
<1>9. Calls'
  <2>1. ASSUME NEW i \in 1..Len(stack'), NEW j \in 1..Len(stack'), stack'[i] = stack'[j]
        PROVE  i = j
    BY <1>1, <1>6, <1>8, <2>1 DEF SearchInv, Calls, depth
  <2>2. ASSUME NEW m \in Ids
        PROVE  color'[m] = "gray" <=> \E i \in 1..Len(stack') : stack'[i] = m
    <3>1. color[m] = "gray" <=> \E i \in 1..depth : stack[i] = m
      BY DEF SearchInv, Calls, depth
    <3>2. depth + 1 \in 1..Len(stack') /\ \A i \in 1..depth : i \in 1..Len(stack')
      BY <1>1, <1>6
    <3>3. \A i \in 1..Len(stack') : i \in 1..depth \/ i = depth + 1
      BY <1>1, <1>6
    <3>4. QED
      BY <1>6, <1>7, <3>1, <3>2, <3>3
  <2>3. ASSUME NEW i \in 1..(Len(stack') - 1)
        PROVE  stack'[i + 1] \in dependents'[stack'[i]]
    <3>1. CASE i = depth
      BY <1>1, <1>3, <1>4, <1>6, <3>1
    <3>2. CASE i < depth
      <4>1. i \in 1..(depth - 1) /\ i \in 1..depth /\ i + 1 \in 1..depth
        BY <1>1, <1>6, <3>2
      <4>2. stack[i + 1] \in dependents[stack[i]]
        BY <4>1 DEF SearchInv, Calls, depth
      <4>3. QED
        BY <1>4, <1>6, <4>1, <4>2
    <3>3. QED
      BY <1>1, <1>6, <3>1, <3>2
  <2>4. ASSUME NEW i \in 1..Len(stack')
        PROVE  left'[stack'[i]] \subseteq dependents'[stack'[i]]
    <3>1. CASE i = depth + 1
      BY <1>3, <1>4, <1>6, <1>7, <3>1
    <3>2. CASE i \in 1..depth
      <4>1. left[stack[i]] \subseteq dependents[stack[i]]
        BY <3>2 DEF SearchInv, Calls, depth
      <4>2. QED
        BY <1>1, <1>4, <1>6, <1>7, <1>8, <3>2, <4>1
    <3>3. QED
      BY <1>1, <1>6, <3>1, <3>2
  <2>5. QED
    BY <2>1, <2>2, <2>3, <2>4 DEF Calls
<1>10. LookedAt'
  <2> SUFFICES ASSUME NEW i \in 1..Len(stack'), NEW x \in dependents'[stack'[i]]
               PROVE  \/ x \in left'[stack'[i]] \/ color'[x] = "black"
                      \/ i < Len(stack') /\ stack'[i + 1] = x
    BY DEF LookedAt
  <2>1. CASE i = depth + 1
    BY <1>3, <1>4, <1>6, <1>7, <2>1
  <2>2. CASE i \in 1..depth
    <3>1. x \in dependents[stack[i]] /\ x \in Ids
      BY <1>1, <1>4, <1>6, <2>2 DEF SearchInv, GraphInv, GraphOK
    <3>2. \/ x \in left[stack[i]] \/ color[x] = "black"
          \/ i < depth /\ stack[i + 1] = x
      BY <2>2, <3>1 DEF SearchInv, LookedAt, depth
    <3>3. CASE color[x] = "black"
      BY <1>2, <1>7, <3>1, <3>3
    <3>4. CASE i < depth /\ stack[i + 1] = x
      <4>1. i + 1 \in 1..depth /\ i < Len(stack')
        BY <1>1, <1>6, <2>2, <3>4
      <4>2. QED
        BY <1>6, <3>4, <4>1
    <3>5. CASE x \in left[stack[i]]
      <4>1. CASE i = depth
        BY <1>1, <1>3, <1>6, <1>7, <3>5, <4>1
      <4>2. CASE i # depth
        <5>1. stack[i] # top /\ stack[i] # d
          BY <1>1, <1>8, <2>2, <4>2 DEF SearchInv, Calls, depth
        <5>2. QED
          BY <1>1, <1>6, <1>7, <2>2, <3>5, <5>1
      <4>3. QED
        BY <4>1, <4>2
    <3>6. QED
      BY <3>2, <3>3, <3>4, <3>5
  <2>3. QED
    BY <1>1, <1>6, <2>1, <2>2
<1>11. BlackClosed' /\ BlackAcyclic'
  <2>1. \A m \in Ids : color'[m] = "black" <=> color[m] = "black"
    BY <1>2, <1>7
  <2>2. QED
    BY <1>4, <2>1 DEF SearchInv, BlackClosed, BlackAcyclic, Reaches, GraphInv, GraphOK
<1>12. QED
  BY <1>4, <1>5, <1>9, <1>10, <1>11 DEF SearchInv

(* A node that is done is passed over *)
LEMMA PassKeeps ==
    ASSUME SearchInv, Pass
    PROVE  SearchInv'
<1> DEFINE top == Top
           depth == Len(stack)
<1>1. /\ depth \in Nat /\ depth > 0 /\ top = stack[depth] /\ top \in Ids
      /\ left[top] \subseteq dependents[top]
      /\ \A i \in 1..depth : stack[i] \in Ids
  BY AtTop DEF Pass
<1>2. PICK d \in left[top] : color[d] = "black" /\ left' = [left EXCEPT ![top] = @ \ {d}]
  BY DEF Pass
<1>3. UNCHANGED <<stack, color>> /\ dependents' = dependents
  BY DEF Pass, graph
<1>4. GraphInv' /\ CycleReal' /\ NoCycleMissed'
  BY Kept DEF Pass, graph
<1> HIDE DEF top, depth
<1>5. SearchTypes' /\ Resting'
  BY <1>1, <1>2, <1>3 DEF SearchInv, SearchTypes, Resting, Pass, Searching
<1>6. \A m \in Ids : left'[m] = IF m = top THEN left[top] \ {d} ELSE left[m]
  BY <1>1, <1>2 DEF SearchInv, SearchTypes
<1>7. Calls'
  <2>1. \A i \in 1..depth : left'[stack[i]] \subseteq dependents[stack[i]]
    BY <1>1, <1>6, ZenonT(60) DEF SearchInv, Calls, depth
  <2>2. QED
    BY <1>3, <2>1 DEF SearchInv, Calls, depth
<1>8. LookedAt'
  <2> SUFFICES ASSUME NEW i \in 1..depth, NEW x \in dependents[stack[i]]
               PROVE  \/ x \in left'[stack[i]] \/ color[x] = "black"
                      \/ i < depth /\ stack[i + 1] = x
    BY <1>3 DEF LookedAt, depth
  <2>1. \/ x \in left[stack[i]] \/ color[x] = "black"
        \/ i < depth /\ stack[i + 1] = x
    BY DEF SearchInv, LookedAt, depth
  <2>2. QED
    BY <1>1, <1>2, <1>6, <2>1
<1>9. BlackClosed' /\ BlackAcyclic'
  BY <1>3 DEF SearchInv, BlackClosed, BlackAcyclic, Reaches
<1>10. QED
  BY <1>4, <1>5, <1>7, <1>8, <1>9 DEF SearchInv

(* A call returns: all it leads to is black, so no way leads back to it *)
LEMMA LeaveKeeps ==
    ASSUME SearchInv, Leave
    PROVE  SearchInv'
<1> DEFINE top == Top
           depth == Len(stack)
<1>1. /\ depth \in Nat /\ depth > 0 /\ top = stack[depth] /\ top \in Ids /\ color[top] = "gray"
      /\ left[top] \subseteq dependents[top]
      /\ \A i \in 1..depth : stack[i] \in Ids /\ color[stack[i]] = "gray"
  BY AtTop DEF Leave
<1>2. /\ left[top] = {} /\ color' = [color EXCEPT ![top] = "black"]
      /\ stack' = SubSeq(stack, 1, depth - 1) /\ left' = left /\ dependents' = dependents
  BY DEF Leave, graph
<1>3. GraphInv' /\ CycleReal' /\ NoCycleMissed'
  BY Kept DEF Leave, graph
<1> HIDE DEF top, depth
<1>4. stack' \in Seq(Ids) /\ Len(stack') = depth - 1 /\ \A i \in 1..(depth - 1) : stack'[i] = stack[i]
  <2>1. \A i \in 1..(depth - 1) : stack[i] \in Ids
    BY <1>1
  <2>2. 1 \in Int /\ depth - 1 \in Int
    BY <1>1
  <2>3. /\ SubSeq(stack, 1, depth - 1) \in Seq(Ids)
        /\ Len(SubSeq(stack, 1, depth - 1)) = IF 1 <= depth - 1 THEN (depth - 1) - 1 + 1 ELSE 0
        /\ \A i \in 1..((depth - 1) - 1 + 1) : SubSeq(stack, 1, depth - 1)[i] = stack[1 + i - 1]
    BY <2>1, <2>2, SubSeqProperties DEF SearchInv, SearchTypes
  <2>4. QED
    BY <1>1, <1>2, <2>3
<1>5. \A m \in Ids : color'[m] = IF m = top THEN "black" ELSE color[m]
  BY <1>1, <1>2 DEF SearchInv, SearchTypes
<1>6. \A x \in dependents[top] : x \in Ids /\ color[x] = "black" /\ color'[x] = "black" /\ x # top
  <2> SUFFICES ASSUME NEW x \in dependents[top]
               PROVE  x \in Ids /\ color[x] = "black" /\ color'[x] = "black" /\ x # top
    OBVIOUS
  <2>1. x \in Ids
    BY <1>1 DEF SearchInv, GraphInv, GraphOK
  <2>2. color[x] = "black"
    <3>1. depth \in 1..depth /\ ~(depth < depth)
      BY <1>1
    <3>2. x \in left[stack[depth]] \/ color[x] = "black"
      BY <1>1, <3>1 DEF SearchInv, LookedAt, depth
    <3>3. QED
      BY <1>1, <1>2, <3>2
  <2>3. QED
    BY <1>1, <1>5, <2>1, <2>2
<1>7. SearchTypes' /\ Resting'
  <2>1. color' \in [Ids -> Colors]
    BY <1>1, <1>2 DEF SearchInv, SearchTypes, Colors
  <2>2. QED
    BY <1>2, <1>4, <2>1 DEF SearchInv, SearchTypes, Resting, Leave, Searching
<1>8. \A i \in 1..(depth - 1) : i \in 1..depth /\ stack[i] # top
  BY <1>1 DEF SearchInv, Calls, depth
<1>9. Calls'
  <2>1. ASSUME NEW i \in 1..Len(stack'), NEW j \in 1..Len(stack'), stack'[i] = stack'[j]
        PROVE  i = j
    BY <1>4, <1>8, <2>1 DEF SearchInv, Calls, depth
  <2>2. ASSUME NEW m \in Ids
        PROVE  color'[m] = "gray" <=> \E i \in 1..Len(stack') : stack'[i] = m
    <3>1. color[m] = "gray" <=> \E i \in 1..depth : stack[i] = m
      BY DEF SearchInv, Calls, depth
    <3>2. \A i \in 1..depth : i \in 1..(depth - 1) \/ i = depth
      BY <1>1
    <3>3. QED
      BY <1>1, <1>4, <1>5, <1>8, <3>1, <3>2
  <2>3. ASSUME NEW i \in 1..(Len(stack') - 1)
        PROVE  stack'[i + 1] \in dependents'[stack'[i]]
    <3>1. i \in 1..(depth - 1) /\ i + 1 \in 1..(depth - 1)
      BY <1>1, <1>4
    <3>2. stack[i + 1] \in dependents[stack[i]]
      BY <3>1 DEF SearchInv, Calls, depth
    <3>3. QED
      BY <1>2, <1>4, <3>1, <3>2
  <2>4. ASSUME NEW i \in 1..Len(stack')
        PROVE  left'[stack'[i]] \subseteq dependents'[stack'[i]]
    BY <1>2, <1>4, <1>8 DEF SearchInv, Calls, depth
  <2>5. QED
    BY <2>1, <2>2, <2>3, <2>4 DEF Calls
<1>10. LookedAt'
  <2> SUFFICES ASSUME NEW i \in 1..Len(stack'), NEW x \in dependents'[stack'[i]]
               PROVE  \/ x \in left'[stack'[i]] \/ color'[x] = "black"
                      \/ i < Len(stack') /\ stack'[i + 1] = x
    BY DEF LookedAt
  <2>1. i \in 1..(depth - 1) /\ i \in 1..depth /\ stack'[i] = stack[i]
    BY <1>4, <1>8
  <2>2. x \in dependents[stack[i]] /\ x \in Ids
    BY <1>1, <1>2, <2>1 DEF SearchInv, GraphInv, GraphOK
  <2>3. \/ x \in left[stack[i]] \/ color[x] = "black"
        \/ i < depth /\ stack[i + 1] = x
    BY <2>1, <2>2 DEF SearchInv, LookedAt, depth
  <2>4. CASE i < depth /\ stack[i + 1] = x
    <3>1. CASE i + 1 = depth
      BY <1>1, <1>5, <2>4, <3>1
    <3>2. CASE i + 1 # depth
      <4>1. i + 1 \in 1..(depth - 1) /\ i < depth - 1
        BY <1>1, <2>1, <3>2
      <4>2. QED
        BY <1>4, <2>4, <4>1
    <3>3. QED
      BY <3>1, <3>2
  <2>5. CASE x \in left[stack[i]] \/ color[x] = "black"
    BY <1>2, <1>5, <2>1, <2>2, <2>5
  <2>6. QED
    BY <2>3, <2>4, <2>5
<1>11. BlackClosed'
  BY <1>2, <1>5, <1>6 DEF SearchInv, BlackClosed, GraphInv, GraphOK
<1>12. BlackAcyclic'
  <2>1. ~Reaches(top, top)
    <3> DEFINE S == {m \in Ids : color[m] = "black"}
    <3>1. S \in SUBSET Ids /\ dependents[top] \subseteq S /\ top \notin S
      BY <1>1, <1>6
    <3>2. \A s \in S : dependents[s] \subseteq S
      BY DEF SearchInv, BlackClosed, GraphInv, GraphOK
    <3>3. QED
      BY <3>1, <3>2 DEF Reaches
  <2>2. \A b \in Ids : Reaches(b, b)' <=> Reaches(b, b)
    BY <1>2 DEF Reaches
  <2>3. QED
    BY <1>5, <2>1, <2>2 DEF SearchInv, BlackAcyclic
<1>13. QED
  BY <1>3, <1>7, <1>9, <1>10, <1>11, <1>12 DEF SearchInv

(* The search finds a way back to a call that has not returned *)
LEMMA FoundKeeps ==
    ASSUME SearchInv, Found
    PROVE  SearchInv'
<1>1. PICK d \in left[Top] : Closes(d) /\ Return(job, Path(d))
  BY DEF Found
<1>2. /\ GraphInv' /\ SearchTypes' /\ Resting'
      /\ Calls' /\ LookedAt' /\ BlackClosed' /\ BlackAcyclic'
      /\ dependents' = dependents /\ answer'.list = Path(d)
  BY <1>1, Returned
<1> DEFINE path == Path(d)
<1>3. /\ Len(path) > 1 /\ path[1] = path[Len(path)]
      /\ \A i \in 1..(Len(path) - 1) : path[i + 1] \in dependents[path[i]]
      /\ Distinct(Tail(path))
  BY <1>1, PathIsCycle DEF SearchInv, Found, Closes
<1> HIDE DEF path
<1>4. answer'.list = path
  BY <1>2 DEF path
<1>5. CycleReal'
  BY <1>2, <1>3, <1>4 DEF CycleReal, Distinct
<1>6. answer'.list # <<>>
  BY <1>3, <1>4
<1>7. NoCycleMissed'
  BY <1>6 DEF NoCycleMissed
<1>8. QED
  BY <1>2, <1>5, <1>7 DEF SearchInv

(* Every node is black: none is on a cycle *)
LEMMA NotFoundKeeps ==
    ASSUME SearchInv, NotFound
    PROVE  SearchInv'
<1>1. /\ GraphInv' /\ SearchTypes' /\ Resting'
      /\ Calls' /\ LookedAt' /\ BlackClosed' /\ BlackAcyclic'
      /\ dependents' = dependents /\ nodes' = nodes /\ answer'.list = <<>>
  BY Returned DEF NotFound
<1>2. CycleReal'
  BY <1>1 DEF CycleReal
<1>3. NoCycleMissed'
  <2>1. \A n \in nodes : n \in Ids /\ color[n] = "black"
    BY DEF NotFound, SearchInv, GraphInv, GraphOK
  <2>2. \A n \in nodes : ~Reaches(n, n)
    BY <2>1 DEF SearchInv, BlackAcyclic
  <2>3. QED
    BY <1>1, <2>2 DEF NoCycleMissed, Reaches
<1>4. QED
  BY <1>1, <1>2, <1>3 DEF SearchInv

(* An answer of another job *)
LEMMA OtherAnswerKeeps ==
    ASSUME SearchInv, ~Searching, NEW what \in Jobs \ {"cycle", "sort_cycle"}, NEW result,
           Return(what, result)
    PROVE  SearchInv'
<1>1. /\ GraphInv' /\ SearchTypes' /\ Resting'
      /\ Calls' /\ LookedAt' /\ BlackClosed' /\ BlackAcyclic'
      /\ answer'.job = what
  BY Returned
<1>2. QED
  BY <1>1 DEF SearchInv, CycleReal, NoCycleMissed, CycleAnswer

LEMMA SearchBegins == Init => SearchInv
<1>1. Init => GraphInv
  BY DEF Init, GraphInv, GraphOK, Mirrored, Nothing
<1>2. Init => SearchTypes /\ Resting
  BY DEF Init, SearchTypes, Resting, Jobs, Colors, White, Nothing
<1>3. Init => CycleReal /\ NoCycleMissed
  BY DEF Init, CycleReal, NoCycleMissed, CycleAnswer, NoAnswer
<1>4. QED
  BY <1>1, <1>2, <1>3, Fresh DEF SearchInv, Init

LEMMA SearchKept == SearchInv /\ [Next]_dagVars => SearchInv'
<1> SUFFICES ASSUME SearchInv, [Next]_dagVars
             PROVE  SearchInv'
  OBVIOUS
<1>1. CASE Ask
  BY <1>1, Aside DEF Ask, FindCycle, Sort, GetImpact, GetChain, Searching, search, Jobs
<1>2. CASE Take \/ SortFails \/ Spread \/ Climb
  BY <1>2, Aside DEF Take, SortFails, Spread, Climb, Searching, Jobs
<1>3. CASE Sorted
  BY <1>3, OtherAnswerKeeps DEF Sorted, Searching, Jobs
<1>4. CASE Closed
  BY <1>4, OtherAnswerKeeps DEF Closed, Searching, Jobs
<1>5. CASE UNCHANGED dagVars
  BY <1>5, Kept DEF dagVars, graph, search, SearchInv, SearchTypes, Resting, Searching, Calls,
     LookedAt, BlackClosed, BlackAcyclic, Reaches
<1>6. QED
  BY <1>1, <1>2, <1>3, <1>4, <1>5, EditKeeps, ForgetKeeps, RootKeeps, DescendKeeps, PassKeeps,
     LeaveKeeps, FoundKeeps, NotFoundKeeps DEF Next, SearchStep
-----------------------------------------------------------------------------
(* topological_sort *)

(* Where each of some nodes depends on one of them, one of them is on a cycle: the
   ancestors of nodes are finite sets, of which one is least *)
LEMMA NoFirst ==
    ASSUME GraphInv, NEW R \in SUBSET nodes, R # {},
           \A n \in R : \E m \in R : n \in dependents[m]
    PROVE  \E n \in nodes : Reaches(n, n)
<1> DEFINE Above(n) == {m \in Ids : Reaches(m, n)}
           T == {Above(n) : n \in R}
           L == StrictSubsetOrdering(Ids)
<1>1. R \subseteq Ids /\ nodes \subseteq Ids
  BY DEF GraphInv, GraphOK
<1>2. IsWellFoundedOn(L, SUBSET Ids)
  BY FS_StrictSubsetOrderingWellFounded, FS_FiniteSubsetsOfFinite, DagAssumption
<1>3. T \subseteq SUBSET Ids /\ T # {}
  OBVIOUS
<1>4. PICK x \in T : \A y \in T : <<y, x>> \notin L
  <2> HIDE DEF T, L
  <2> QED
    BY <1>2, <1>3, WFMin
<1>5. PICK n \in R : x = Above(n)
  BY <1>4
<1>6. PICK m \in R : n \in dependents[m]
  OBVIOUS
<1>7. ASSUME NEW k \in Ids, Reaches(k, m)
      PROVE  Reaches(k, n)
  BY <1>6, <1>7 DEF Reaches
<1>8. Reaches(m, n)
  BY <1>6 DEF Reaches
<1>9. Above(m) \subseteq x /\ m \in x
  BY <1>1, <1>5, <1>7, <1>8
<1>10. Above(m) = x
  <2>1. <<Above(m), x>> \notin L
    BY <1>4
  <2>2. QED
    BY <2>1, <1>9, <1>3, <1>4 DEF StrictSubsetOrdering
<1>11. QED
  BY <1>9, <1>10

(* Each member of a set once, in some order *)
LEMMA OrdersOnto ==
    ASSUME NEW S \in SUBSET Ids, NEW f \in Orders(S)
    PROVE  /\ f \in Seq(S) /\ f \in Seq(Ids)
           /\ \A x : x \in S <=> \E i \in 1..Len(f) : f[i] = x
           /\ \A i, j \in 1..Len(f) : f[i] = f[j] => i = j
<1> DEFINE n == Cardinality(S)
<1>1. IsFiniteSet(S) /\ n \in Nat
  BY FS_Subset, FS_CardinalityType, DagAssumption
<1>2. f \in [1..n -> S] /\ \A i, j \in 1..n : f[i] = f[j] => i = j
  BY DEF Orders
<1>3. f \in Injection(1..n, S)
  BY <1>2 DEF Injection, IsInjective
<1>4. Cardinality(1..n) = n
  BY <1>1, FS_Interval
<1> HIDE DEF n
<1>5. f \in Surjection(1..n, S)
  BY <1>1, <1>3, <1>4, FS_Injection DEF n
<1>6. \A x \in S : \E i \in 1..n : f[i] = x
  BY <1>5 DEF Surjection
<1>7. f \in Seq(S) /\ Len(f) = n /\ f \in Seq(Ids)
  BY <1>1, <1>2
<1>8. QED
  BY <1>2, <1>6, <1>7

(* The head leaves the queue and others join it *)
LEMMA QueueMoves ==
    ASSUME NEW q \in Seq(Ids), q # <<>>, NEW next \in Seq(Ids), NEW r, r = Tail(q) \o next
    PROVE  /\ r \in Seq(Ids) /\ Head(q) = q[1] /\ q[1] \in Ids /\ Len(q) > 0
           /\ Len(r) = (Len(q) - 1) + Len(next)
           /\ \A i \in 1..(Len(q) - 1) : r[i] = q[i + 1]
           /\ \A i \in 1..Len(next) : r[(Len(q) - 1) + i] = next[i]
<1> DEFINE t == Tail(q)
<1>1. /\ t \in Seq(Ids) /\ Len(t) = Len(q) - 1 /\ Len(q) > 0
      /\ \A i \in 1..(Len(q) - 1) : t[i] = q[i + 1]
      /\ Head(q) = q[1] /\ q[1] \in Ids
  BY HeadTailProperties
<1> HIDE DEF t
<1>2. /\ r \in Seq(Ids) /\ Len(r) = Len(t) + Len(next)
      /\ \A i \in 1..(Len(t) + Len(next)) :
            r[i] = IF i <= Len(t) THEN t[i] ELSE next[i - Len(t)]
  BY <1>1, ConcatProperties DEF t
<1>3. Len(next) \in Nat /\ Len(q) \in Nat
  OBVIOUS
<1>4. QED
  BY <1>1, <1>2, <1>3

(* The set of what a sequence holds *)
Members(seq) == {seq[i] : i \in 1..Len(seq)}

LEMMA QueueMembers ==
    ASSUME NEW q \in Seq(Ids), q # <<>>, NEW next \in Seq(Ids), NEW r, r = Tail(q) \o next
    PROVE  /\ Members(r) = {q[i] : i \in 2..Len(q)} \cup Members(next)
           /\ Members(q) = {Head(q)} \cup {q[i] : i \in 2..Len(q)}
<1>1. /\ r \in Seq(Ids) /\ Head(q) = q[1] /\ q[1] \in Ids /\ Len(q) > 0
      /\ Len(r) = (Len(q) - 1) + Len(next)
      /\ \A i \in 1..(Len(q) - 1) : r[i] = q[i + 1]
      /\ \A i \in 1..Len(next) : r[(Len(q) - 1) + i] = next[i]
  BY QueueMoves
<1>2. Len(q) \in Nat /\ Len(next) \in Nat
  OBVIOUS
<1>3. Members(q) = {Head(q)} \cup {q[i] : i \in 2..Len(q)}
  BY <1>1, <1>2 DEF Members
<1>4. ASSUME NEW x \in Members(r)
      PROVE  x \in {q[i] : i \in 2..Len(q)} \cup Members(next)
  <2>1. PICK i \in 1..Len(r) : x = r[i]
    BY DEF Members
  <2>2. CASE i <= Len(q) - 1
    BY <1>1, <1>2, <2>1, <2>2
  <2>3. CASE i > Len(q) - 1
    <3>1. i - (Len(q) - 1) \in 1..Len(next)
      BY <1>1, <1>2, <2>3
    <3>2. r[(Len(q) - 1) + (i - (Len(q) - 1))] = next[i - (Len(q) - 1)]
      BY <1>1, <3>1
    <3>3. (Len(q) - 1) + (i - (Len(q) - 1)) = i
      BY <1>2
    <3>4. QED
      BY <2>1, <3>1, <3>2, <3>3 DEF Members
  <2>4. QED
    BY <1>1, <1>2, <2>2, <2>3
<1>5. ASSUME NEW j \in 2..Len(q)
      PROVE  q[j] \in Members(r)
  <2>1. j - 1 \in 1..(Len(q) - 1) /\ (j - 1) + 1 = j /\ j - 1 \in 1..Len(r)
    BY <1>1, <1>2
  <2>2. r[j - 1] = q[j]
    BY <1>1, <2>1
  <2>3. QED
    BY <2>1, <2>2 DEF Members
<1>6. ASSUME NEW j \in 1..Len(next)
      PROVE  next[j] \in Members(r)
  <2>1. (Len(q) - 1) + j \in 1..Len(r)
    BY <1>1, <1>2
  <2>2. r[(Len(q) - 1) + j] = next[j]
    BY <1>1
  <2>3. QED
    BY <2>1, <2>2 DEF Members
<1>7. {q[i] : i \in 2..Len(q)} \cup Members(next) \subseteq Members(r)
  <2>1. \A x \in Members(next) : x \in Members(r)
    <3>1. \A x \in Members(next) : \E j \in 1..Len(next) : x = next[j]
      BY DEF Members
    <3>2. QED
      BY <1>6, <3>1
  <2>2. \A x \in {q[i] : i \in 2..Len(q)} : x \in Members(r)
    BY <1>5
  <2>3. QED
    BY <2>1, <2>2
<1>8. QED
  BY <1>3, <1>4, <1>7

Once(seq) == \A i, j \in 1..Len(seq) : seq[i] = seq[j] => i = j

(* The dependencies of n that have not been taken yet *)
Waits(n) == {m \in nodes \ Members(list) : n \in dependents[m]}

(* While topological_sort runs: in_degree counts what a node waits for, the queue
   holds what waits for nothing, and the list is in order *)
Sorting ==
    /\ list \in Seq(Ids) /\ queue \in Seq(Ids) /\ degree \in [Ids -> Int]
    /\ Members(list) \subseteq nodes /\ Members(queue) \subseteq nodes
    /\ \A n \in Members(list) : n \notin Members(queue)
    /\ Once(list) /\ Once(queue)
    /\ Cardinality(Members(list)) = Len(list)
    /\ \A n \in nodes : degree[n] = Cardinality(Waits(n))
    /\ \A n \in nodes : degree[n] = 0 <=> n \in Members(list) \cup Members(queue)
    /\ \A i, j \in 1..Len(list) : list[j] \in dependents[list[i]] => i < j

LEMMA FiniteNodes ==
    ASSUME GraphInv
    PROVE  /\ IsFiniteSet(nodes) /\ Cardinality(nodes) \in Nat
           /\ \A S \in SUBSET nodes :
                /\ IsFiniteSet(S) /\ Cardinality(S) \in Nat
                /\ Cardinality(S) = 0 <=> S = {}
<1>1. nodes \subseteq Ids
  BY DEF GraphInv, GraphOK
<1>2. IsFiniteSet(nodes)
  BY <1>1, FS_Subset, DagAssumption
<1>3. \A S \in SUBSET nodes : IsFiniteSet(S)
  BY <1>2, FS_Subset
<1>4. QED
  BY <1>2, <1>3, FS_CardinalityType, FS_EmptySet

LEMMA NoMembers == Members(<<>>) = {} /\ Once(<<>>)
BY DEF Members, Once

LEMMA SortBegins ==
    ASSUME GraphInv, list = <<>>, Sort
    PROVE  Sorting'
<1> DEFINE first == {n \in nodes : InDegree(n) = 0}
<1>1. list' = <<>> /\ nodes' = nodes /\ dependents' = dependents
  BY DEF Sort, graph
<1>2. first \subseteq Ids /\ nodes \subseteq Ids
  BY DEF GraphInv, GraphOK
<1>3. queue' \in Orders(first)
  BY DEF Sort
<1> HIDE DEF first
<1>4. queue' \in Seq(Ids) /\ Once(queue') /\ \A x : x \in first <=> x \in Members(queue')
  <2>1. /\ queue' \in Seq(Ids)
        /\ \A x : x \in first <=> \E i \in 1..Len(queue') : queue'[i] = x
        /\ \A i, j \in 1..Len(queue') : queue'[i] = queue'[j] => i = j
    BY <1>2, <1>3, OrdersOnto
  <2>2. \A x : x \in Members(queue') <=> \E i \in 1..Len(queue') : queue'[i] = x
    BY DEF Members
  <2>3. QED
    BY <2>1, <2>2 DEF Once
<1>5. \A n \in Ids : InDegree(n) \in Nat
  BY FiniteNodes DEF InDegree
<1>6. degree' = [n \in Ids |-> InDegree(n)]
  BY DEF Sort
<1>7. ASSUME NEW n \in nodes
      PROVE  degree'[n] = Cardinality(Waits(n)')
  <2>1. Waits(n)' = {m \in nodes : n \in dependents[m]}
    BY <1>1, NoMembers DEF Waits, Members
  <2>2. QED
    BY <1>2, <1>6, <2>1 DEF InDegree
<1>8. \A n \in nodes : degree'[n] = 0 <=> n \in Members(queue')
  BY <1>2, <1>4, <1>6 DEF first
<1>9. Members(list') = {} /\ Once(list') /\ Len(list') = 0 /\ Cardinality(Members(list')) = 0
  BY <1>1, NoMembers, FS_EmptySet
<1>10. Members(queue') \subseteq nodes
  BY <1>4 DEF first
<1>11. degree' \in [Ids -> Int]
  BY <1>5, <1>6
<1>12. QED
  BY <1>1, <1>4, <1>7, <1>8, <1>9, <1>10, <1>11 DEF Sorting, Members

(* The head of the queue is taken *)
LEMMA TakeSorts ==
    ASSUME GraphInv, Sorting, Take
    PROVE  Sorting'
<1> DEFINE n == Head(queue)
<1>0. list \in Seq(Ids) /\ queue \in Seq(Ids) /\ queue # <<>> /\ degree \in [Ids -> Int]
  BY DEF Sorting, Take
<1>1. nodes' = nodes /\ dependents' = dependents /\ nodes \subseteq Ids /\ dependents \in [Ids -> SUBSET Ids]
  BY DEF Take, graph, GraphInv, GraphOK
<1>2. list' = Append(list, n)
  BY DEF Take
<1>3. degree' = [d \in Ids |-> IF d \in dependents[n] THEN degree[d] - 1 ELSE degree[d]]
  BY DEF Take
<1>4. PICK next \in Orders(Freed(n)) : queue' = Tail(queue) \o next
  BY DEF Take
<1>5. n \in Members(queue) /\ n \in nodes /\ n \in Ids /\ n \notin Members(list) /\ degree[n] = 0
  <2>1. n \in Members(queue)
    BY <1>0, HeadTailProperties DEF Members
  <2>2. QED
    BY <1>1, <2>1 DEF Sorting
<1>6. /\ next \in Seq(Ids) /\ Once(next)
      /\ \A x : x \in Freed(n) <=> x \in Members(next)
  <2>1. Freed(n) \subseteq Ids
    BY <1>1, <1>5 DEF Freed
  <2>2. /\ next \in Seq(Ids)
        /\ \A x : x \in Freed(n) <=> \E i \in 1..Len(next) : next[i] = x
        /\ \A i, j \in 1..Len(next) : next[i] = next[j] => i = j
    BY <1>4, <2>1, OrdersOnto
  <2>3. \A x : x \in Members(next) <=> \E i \in 1..Len(next) : next[i] = x
    BY DEF Members
  <2>4. QED
    BY <2>2, <2>3 DEF Once
<1> HIDE DEF n
<1>7. /\ list' \in Seq(Ids) /\ Len(list') = Len(list) + 1 /\ Len(list) \in Nat
      /\ list'[Len(list) + 1] = n
      /\ \A i \in 1..Len(list) : list'[i] = list[i]
  BY <1>0, <1>2, <1>5
<1>8. Members(list') = Members(list) \cup {n}
  <2>1. ASSUME NEW x \in Members(list')
        PROVE  x \in Members(list) \cup {n}
    <3>1. PICK i \in 1..Len(list') : x = list'[i]
      BY DEF Members
    <3>2. QED
      BY <1>7, <3>1 DEF Members
  <2>2. n \in Members(list')
    BY <1>7 DEF Members
  <2>3. ASSUME NEW i \in 1..Len(list)
        PROVE  list[i] \in Members(list')
    BY <1>7 DEF Members
  <2>4. \A x \in Members(list) : x \in Members(list')
    <3>1. \A x \in Members(list) : \E i \in 1..Len(list) : x = list[i]
      BY DEF Members
    <3>2. QED
      BY <2>3, <3>1
  <2>5. QED
    BY <2>1, <2>2, <2>4
<1>9. /\ queue' \in Seq(Ids)
      /\ Members(queue) = {n} \cup {queue[i] : i \in 2..Len(queue)}
      /\ Members(queue') = {queue[i] : i \in 2..Len(queue)} \cup Members(next)
  BY <1>0, <1>4, <1>6, QueueMoves, QueueMembers DEF n
<1>10. /\ n = queue[1] /\ Len(queue) > 0 /\ Len(queue) \in Nat /\ Len(next) \in Nat
       /\ Len(queue') = (Len(queue) - 1) + Len(next)
       /\ \A i \in 1..(Len(queue) - 1) : queue'[i] = queue[i + 1]
       /\ \A i \in 1..Len(next) : queue'[(Len(queue) - 1) + i] = next[i]
  BY <1>0, <1>4, <1>6, QueueMoves DEF n
<1>11. \A i \in 2..Len(queue) : queue[i] # n /\ queue[i] \in Members(queue)
  <2>1. \A i, j \in 1..Len(queue) : queue[i] = queue[j] => i = j
    BY DEF Sorting, Once
  <2>2. \A i \in 2..Len(queue) : i \in 1..Len(queue) /\ i # 1 /\ 1 \in 1..Len(queue)
    BY <1>10
  <2>3. \A i \in 2..Len(queue) : queue[i] # n
    BY <1>10, <2>1, <2>2
  <2>4. QED
    BY <2>2, <2>3 DEF Members
(* What waits *)
<1>12. ASSUME NEW d \in nodes
       PROVE  /\ Waits(d)' = Waits(d) \ {n}
              /\ n \in Waits(d) <=> d \in dependents[n]
              /\ IsFiniteSet(Waits(d)) /\ Cardinality(Waits(d)) \in Nat
              /\ degree'[d] = Cardinality(Waits(d)')
  <2>1. Waits(d)' = Waits(d) \ {n}
    BY <1>1, <1>8 DEF Waits, Members
  <2>2. n \in Waits(d) <=> d \in dependents[n]
    BY <1>5 DEF Waits
  <2>3. IsFiniteSet(Waits(d)) /\ Cardinality(Waits(d)) \in Nat
    BY FiniteNodes DEF Waits
  <2>4. Cardinality(Waits(d) \ {n}) =
           IF n \in Waits(d) THEN Cardinality(Waits(d)) - 1 ELSE Cardinality(Waits(d))
    BY <2>3, FS_RemoveElement
  <2>5. degree[d] = Cardinality(Waits(d))
    BY DEF Sorting
  <2>6. degree'[d] = IF d \in dependents[n] THEN degree[d] - 1 ELSE degree[d]
    BY <1>1, <1>3
  <2>7. QED
    BY <2>1, <2>2, <2>3, <2>4, <2>5, <2>6
<1>13. ASSUME NEW d \in nodes, d \in dependents[n]
       PROVE  degree[d] # 0
  <2>1. n \in Waits(d) /\ degree[d] = Cardinality(Waits(d))
    BY <1>12, <1>13 DEF Sorting
  <2>2. Waits(d) \in SUBSET nodes
    BY DEF Waits
  <2>3. QED
    BY <2>1, <2>2, FiniteNodes
<1>14. \A d \in Members(next) : d \in nodes /\ d \in dependents[n] /\ degree[d] = 1
  <2>1. \A d \in dependents[n] : d \in nodes
    BY <1>1, <1>5 DEF GraphInv, Mirrored
  <2>2. QED
    BY <1>6, <2>1 DEF Freed
<1>15. \A d \in nodes : degree[d] = 0 <=> d \in Members(list) \cup Members(queue)
  BY DEF Sorting
<1>16. ASSUME NEW d \in nodes
       PROVE  degree'[d] = 0 <=> d \in Members(list') \cup Members(queue')
  <2>1. degree'[d] = IF d \in dependents[n] THEN degree[d] - 1 ELSE degree[d]
    BY <1>1, <1>3
  <2>2. d \in Members(list') \cup Members(queue')
           <=> d \in Members(list) \cup Members(queue) \/ d \in Members(next)
    BY <1>8, <1>9
  <2>3. CASE d \in dependents[n]
    <3>1. degree[d] # 0 /\ d \notin Members(list) \cup Members(queue)
      BY <1>13, <1>15, <2>3
    <3>2. degree[d] \in Int
      BY <1>0, <1>1
    <3>3. degree'[d] = 0 <=> degree[d] = 1
      BY <2>1, <2>3, <3>2
    <3>4. degree[d] = 1 <=> d \in Members(next)
      BY <1>6, <2>3 DEF Freed
    <3>5. QED
      BY <2>2, <3>1, <3>3, <3>4
  <2>4. CASE d \notin dependents[n]
    <3>1. d \notin Members(next) /\ degree'[d] = degree[d]
      BY <1>14, <2>1, <2>4
    <3>2. QED
      BY <1>15, <2>2, <3>1
  <2>5. QED
    BY <2>3, <2>4
(* The sequences *)
<1>17. Members(list') \subseteq nodes /\ Members(queue') \subseteq nodes
  <2>1. Members(list) \subseteq nodes /\ Members(queue) \subseteq nodes
    BY DEF Sorting
  <2>2. QED
    BY <1>5, <1>8, <1>9, <1>14, <2>1
<1>18. \A x \in Members(list') : x \notin Members(queue')
  <2>1. \A x \in Members(list) : x \notin Members(queue) /\ x \in nodes
    BY DEF Sorting
  <2>2. \A x \in Members(list) : x \notin Members(next)
    BY <1>14, <1>15, <2>1
  <2>3. n \notin Members(next)
    BY <1>5, <1>14
  <2>4. n \notin {queue[i] : i \in 2..Len(queue)}
    BY <1>11
  <2>5. QED
    BY <1>8, <1>9, <2>1, <2>2, <2>3, <2>4
<1>19. Once(list')
  <2> SUFFICES ASSUME NEW i \in 1..Len(list'), NEW j \in 1..Len(list'), list'[i] = list'[j]
               PROVE  i = j
    BY DEF Once
  <2>1. \A k \in 1..Len(list) : list[k] # n
    BY <1>5 DEF Members
  <2>2. \A k, l \in 1..Len(list) : list[k] = list[l] => k = l
    BY DEF Sorting, Once
  <2>3. CASE i \in 1..Len(list) /\ j \in 1..Len(list)
    BY <1>7, <2>2, <2>3
  <2>4. CASE i = Len(list) + 1 /\ j \in 1..Len(list)
    BY <1>7, <2>1, <2>4
  <2>5. CASE i \in 1..Len(list) /\ j = Len(list) + 1
    BY <1>7, <2>1, <2>5
  <2>6. QED
    BY <1>7, <2>3, <2>4, <2>5
<1>20. Once(queue')
  <2> SUFFICES ASSUME NEW i \in 1..Len(queue'), NEW j \in 1..Len(queue'), queue'[i] = queue'[j]
               PROVE  i = j
    BY DEF Once
  <2> DEFINE k == Len(queue) - 1
  <2>0. k \in Nat /\ Len(queue') = k + Len(next)
    BY <1>10
  <2>1. \A a \in 1..k : queue'[a] = queue[a + 1] /\ a + 1 \in 2..Len(queue)
    BY <1>10
  <2>2. \A a \in (k + 1)..(k + Len(next)) : queue'[a] = next[a - k] /\ a - k \in 1..Len(next)
    <3> SUFFICES ASSUME NEW a \in (k + 1)..(k + Len(next))
                 PROVE  queue'[a] = next[a - k] /\ a - k \in 1..Len(next)
      OBVIOUS
    <3>1. a - k \in 1..Len(next) /\ (Len(queue) - 1) + (a - k) = a
      BY <1>10
    <3>2. queue'[(Len(queue) - 1) + (a - k)] = next[a - k]
      BY <1>10, <3>1
    <3>3. QED
      BY <3>1, <3>2
  <2>3. \A a \in 2..Len(queue), b \in 1..Len(next) : queue[a] # next[b]
    <3>1. \A a \in 2..Len(queue) : degree[queue[a]] = 0
      BY <1>11, <1>15 DEF Sorting
    <3>2. \A b \in 1..Len(next) : degree[next[b]] = 1
      BY <1>14 DEF Members
    <3>3. QED
      BY <3>1, <3>2
  <2>4. \A a, b \in 1..Len(queue) : queue[a] = queue[b] => a = b
    BY DEF Sorting, Once
  <2>5. \A a, b \in 1..Len(next) : next[a] = next[b] => a = b
    BY <1>6 DEF Once
  <2> HIDE DEF k
  <2>6. i \in 1..k \/ i \in (k + 1)..(k + Len(next))
    BY <2>0, <1>10
  <2>7. j \in 1..k \/ j \in (k + 1)..(k + Len(next))
    BY <2>0, <1>10
  <2>8. CASE i \in 1..k /\ j \in 1..k
    <3>1. queue[i + 1] = queue[j + 1] /\ i + 1 \in 1..Len(queue) /\ j + 1 \in 1..Len(queue)
      BY <2>1, <2>8, <1>10
    <3>2. i + 1 = j + 1
      BY <2>4, <3>1
    <3>3. QED
      BY <2>0, <3>2
  <2>9. CASE i \in (k + 1)..(k + Len(next)) /\ j \in (k + 1)..(k + Len(next))
    <3>1. i - k = j - k
      BY <2>2, <2>5, <2>9
    <3>2. QED
      BY <2>0, <3>1
  <2>10. CASE i \in 1..k /\ j \in (k + 1)..(k + Len(next))
    BY <2>1, <2>2, <2>3, <2>10
  <2>11. CASE j \in 1..k /\ i \in (k + 1)..(k + Len(next))
    BY <2>1, <2>2, <2>3, <2>11
  <2>12. QED
    BY <2>6, <2>7, <2>8, <2>9, <2>10, <2>11
<1>21. Cardinality(Members(list')) = Len(list')
  <2>1. Members(list) \in SUBSET nodes /\ Cardinality(Members(list)) = Len(list)
    BY DEF Sorting
  <2>2. IsFiniteSet(Members(list))
    BY <2>1, FiniteNodes
  <2>3. Cardinality(Members(list) \cup {n}) = Cardinality(Members(list)) + 1
    BY <1>5, <2>2, FS_AddElement
  <2>4. QED
    BY <1>7, <1>8, <2>1, <2>3
(* The order: n waited for nothing any more, and nothing taken waited for n *)
<1>22. \A i, j \in 1..Len(list') : list'[j] \in dependents'[list'[i]] => i < j
  <2> SUFFICES ASSUME NEW i \in 1..Len(list'), NEW j \in 1..Len(list'),
                      list'[j] \in dependents[list'[i]]
               PROVE  i < j
    BY <1>1
  <2>1. \A d \in Members(list) \cup {n} : n \notin Waits(d)
    <3>1. \A d \in Members(list) \cup {n} : d \in nodes /\ degree[d] = 0
      BY <1>5, <1>15 DEF Sorting
    <3>2. \A d \in Members(list) \cup {n} : d \notin dependents[n]
      BY <1>13, <3>1
    <3>3. QED
      BY <1>12, <3>1, <3>2
  <2>2. \A d \in Members(list) \cup {n} : d \notin dependents[n]
    <3>1. \A d \in Members(list) \cup {n} : d \in nodes
      BY <1>5 DEF Sorting
    <3>2. QED
      BY <1>12, <2>1, <3>1
  <2>3. CASE i = Len(list) + 1
    <3>1. list'[i] = n /\ list'[j] \in Members(list) \cup {n}
      BY <1>7, <1>8, <2>3 DEF Members
    <3>2. QED
      BY <2>2, <3>1
  <2>4. CASE i \in 1..Len(list) /\ j = Len(list) + 1
    BY <1>7, <2>4
  <2>5. CASE i \in 1..Len(list) /\ j \in 1..Len(list)
    BY <1>7, <2>5 DEF Sorting
  <2>6. QED
    BY <1>7, <2>3, <2>4, <2>5
<1>23. degree' \in [Ids -> Int]
  BY <1>0, <1>3
<1>24. \A d \in nodes' : degree'[d] = Cardinality(Waits(d)')
  BY <1>1, <1>12
<1>25. QED
  BY <1>1, <1>7, <1>9, <1>16, <1>17, <1>18, <1>19, <1>20, <1>21, <1>22, <1>23, <1>24
  DEF Sorting, Members

(* The list belongs to a job *)
Cleared == job \notin {"sort", "impact", "chain"} => list = <<>>

(* topological_sort looks for a cycle only where there is one *)
Stuck == job = "sort_cycle" => \E n \in nodes : Reaches(n, n)

(* What topological_sort returns, when it returns an order and when it does not *)
SortTold ==
    /\ answer.job = "sort_cycle" => answer.list # <<>>
    /\ answer.job = "sort" =>
        /\ Len(answer.list) = Cardinality(nodes) /\ Distinct(answer.list)
        /\ \A i, j \in DOMAIN answer.list :
                answer.list[j] \in dependents[answer.list[i]] => i < j

TellInv == Cleared /\ Stuck /\ (job = "sort" => Sorting) /\ SortTold

(* A step that changes neither graph nor answer *)
LEMMA TellKept ==
    ASSUME SortTold, UNCHANGED <<graph, answer>>
    PROVE  SortTold'
BY DEF SortTold, Distinct, graph

(* Where the queue runs empty early, every node that is left waits for another *)
LEMMA FailureIsStuck ==
    ASSUME SearchInv, TellInv, SortFails
    PROVE  TellInv'
<1> DEFINE R == nodes \ Members(list)
<1>1. GraphInv /\ Sorting /\ queue = <<>> /\ Len(list) # Cardinality(nodes)
  BY DEF SearchInv, TellInv, SortFails
<1>2. Members(list) \subseteq nodes /\ Cardinality(Members(list)) = Len(list)
  BY <1>1 DEF Sorting
<1>3. R # {}
  BY <1>1, <1>2
<1>4. ASSUME NEW n \in R
      PROVE  \E m \in R : n \in dependents[m]
  <2>1. n \in nodes /\ n \notin Members(list) \cup Members(queue)
    BY <1>1, NoMembers
  <2>2. Cardinality(Waits(n)) # 0
    BY <1>1, <2>1 DEF Sorting
  <2>3. Waits(n) # {}
    BY <2>2, FS_EmptySet
  <2>4. QED
    BY <2>3 DEF Waits
<1>5. \E n \in nodes : Reaches(n, n)
  <2>1. R \in SUBSET nodes
    OBVIOUS
  <2> HIDE DEF R
  <2>2. QED
    BY <1>1, <1>3, <1>4, <2>1, NoFirst
<1>6. Stuck'
  BY <1>5 DEF Stuck, Reaches, SortFails, graph
<1>7. SortTold'
  BY TellKept DEF TellInv, SortFails
<1>8. QED
  BY <1>6, <1>7 DEF TellInv, Cleared, SortFails

LEMMA SortedTells ==
    ASSUME SearchInv, TellInv, Sorted
    PROVE  TellInv'
<1>1. /\ Sorting /\ Len(list) = Cardinality(nodes) /\ Return("sort", list)
  BY DEF TellInv, Sorted
<1>2. answer'.job = "sort" /\ answer'.list = list /\ nodes' = nodes /\ dependents' = dependents
  BY <1>1 DEF Return, graph
<1>3. DOMAIN list = 1..Len(list)
  BY <1>1 DEF Sorting
<1>4. SortTold'
  BY <1>1, <1>2, <1>3 DEF SortTold, Sorting, Once, Distinct
<1>5. QED
  BY <1>1, <1>4 DEF TellInv, Cleared, Stuck, Return

(* A cycle search ends: one that topological_sort began ends with a path *)
LEMMA FoundTells ==
    ASSUME SearchInv, TellInv, Found
    PROVE  TellInv'
<1>1. PICK d \in left[Top] : Closes(d) /\ Return(job, Path(d))
  BY DEF Found
<1>2. answer'.job = job /\ answer'.list = Path(d) /\ job # "sort"
  BY <1>1 DEF Return, Found, Searching
<1>3. Len(Path(d)) > 1
  BY <1>1, PathIsCycle DEF SearchInv, Found, Closes
<1>4. Path(d) # <<>>
  BY <1>3
<1>5. SortTold'
  BY <1>2, <1>4 DEF SortTold
<1>6. QED
  BY <1>1, <1>5 DEF TellInv, Cleared, Stuck, Return

LEMMA NotFoundTells ==
    ASSUME SearchInv, TellInv, NotFound
    PROVE  TellInv'
<1>1. Return(job, <<>>) /\ job \in {"cycle", "sort_cycle"}
  BY DEF NotFound, Searching
<1>2. job # "sort_cycle"
  <2>1. \A n \in nodes : n \in Ids /\ color[n] = "black"
    BY DEF NotFound, SearchInv, GraphInv, GraphOK
  <2>2. \A n \in nodes : ~Reaches(n, n)
    BY <2>1 DEF SearchInv, BlackAcyclic
  <2>3. QED
    BY <2>2 DEF TellInv, Stuck
<1>3. answer'.job = "cycle"
  BY <1>1, <1>2 DEF Return
<1>4. SortTold'
  BY <1>3 DEF SortTold
<1>5. QED
  BY <1>1, <1>4 DEF TellInv, Cleared, Stuck, Return

LEMMA TellBegins == Init => TellInv
BY DEF Init, TellInv, Cleared, Stuck, SortTold, NoAnswer

LEMMA TellStep == SearchInv /\ TellInv /\ [Next]_dagVars => TellInv'
<1> SUFFICES ASSUME SearchInv, TellInv, [Next]_dagVars
             PROVE  TellInv'
  OBVIOUS
<1>1. CASE Edit \/ Forget
  <2>1. answer' = NoAnswer /\ job' = "none" /\ list' = list /\ job \in {"none", "done"}
    BY <1>1 DEF Edit, Forget, SearchInv, Resting, search
  <2>2. QED
    BY <2>1 DEF TellInv, Cleared, Stuck, SortTold, NoAnswer
<1>2. CASE Sort
  <2>1. GraphInv /\ list = <<>>
    BY <1>2 DEF SearchInv, TellInv, Cleared, Sort
  <2>2. Sorting' /\ SortTold' /\ job' = "sort"
    BY <1>2, <2>1, SortBegins, TellKept DEF TellInv, Sort
  <2>3. QED
    BY <2>2 DEF TellInv, Cleared, Stuck
<1>3. CASE FindCycle \/ (\E n \in Ids : GetImpact(n) \/ GetChain(n))
  <2>1. /\ UNCHANGED <<graph, answer, list>> /\ job = "none"
        /\ job' \in {"cycle", "impact", "chain"}
    BY <1>3 DEF FindCycle, GetImpact, GetChain, search
  <2>2. QED
    BY <2>1, TellKept DEF TellInv, Cleared, Stuck
<1>4. CASE Take
  <2>1. Sorting' /\ SortTold' /\ job' = "sort"
    BY <1>4, TakeSorts, TellKept DEF TellInv, SearchInv, Take
  <2>2. QED
    BY <2>1 DEF TellInv, Cleared, Stuck
<1>5. CASE Root \/ Descend \/ Pass \/ Leave
  <2>1. UNCHANGED <<graph, answer, list, job>> /\ job # "sort"
    BY <1>5 DEF Root, Descend, Pass, Leave, Searching
  <2>2. Stuck'
    BY <2>1 DEF TellInv, Stuck, Reaches, graph
  <2>3. QED
    BY <2>1, <2>2, TellKept DEF TellInv, Cleared
<1>6. CASE Spread \/ Climb
  <2>1. UNCHANGED <<graph, answer, job>> /\ job \in {"impact", "chain"}
    BY <1>6 DEF Spread, Climb
  <2>2. QED
    BY <2>1, TellKept DEF TellInv, Cleared, Stuck
<1>7. CASE Closed
  <2>1. job' = "done" /\ list' = <<>> /\ answer'.job \in {"impact", "chain"}
    BY <1>7 DEF Closed, Return
  <2>2. QED
    BY <2>1 DEF TellInv, Cleared, Stuck, SortTold
<1>8. CASE UNCHANGED dagVars
  <2>1. UNCHANGED <<nodes, dependents, degree, queue, list, job>> /\ UNCHANGED <<graph, answer>>
    BY <1>8 DEF dagVars, graph, search
  <2>2. Sorting => Sorting'
    <3>1. Members(list)' = Members(list) /\ Members(queue)' = Members(queue)
      BY <2>1 DEF Members
    <3>2. \A n : Waits(n)' = Waits(n)
      BY <2>1, <3>1 DEF Waits
    <3>3. Once(list)' = Once(list) /\ Once(queue)' = Once(queue)
      BY <2>1 DEF Once
    <3>4. QED
      BY <2>1, <3>1, <3>2, <3>3 DEF Sorting
  <2>3. Stuck'
    BY <2>1 DEF TellInv, Stuck, Reaches
  <2>4. QED
    BY <2>1, <2>2, <2>3, TellKept DEF TellInv, Cleared
<1>9. QED
  BY <1>1, <1>2, <1>3, <1>4, <1>5, <1>6, <1>7, <1>8, FailureIsStuck, SortedTells, FoundTells,
     NotFoundTells DEF Next, Ask, SearchStep

(* A cycle is told exactly when there is one, and the path told goes round it once;
   topological_sort returns every node once, each after all it depends on, or else
   a cycle, and never neither. *)
THEOREM CyclesAreTold == Spec => []CyclesTold
<1>1. SearchInv /\ TellInv => CyclesTold
  BY DEF SearchInv, TellInv, SortTold, CyclesTold
<1>2. QED
  BY <1>1, SearchBegins, SearchKept, TellBegins, TellStep, PTL DEF Spec
-----------------------------------------------------------------------------
(* get_impact_set and get_dependency_chain *)

LEMMA Joined ==
    ASSUME NEW a \in Seq(Ids), NEW b \in Seq(Ids), NEW r, r = a \o b
    PROVE  /\ r \in Seq(Ids)
           /\ \A x : x \in Members(r) <=> x \in Members(a) \/ x \in Members(b)
<1>0. Len(a) \in Nat /\ Len(b) \in Nat
  OBVIOUS
<1>1. /\ r \in Seq(Ids) /\ Len(r) = Len(a) + Len(b)
      /\ \A i \in 1..(Len(a) + Len(b)) : r[i] = IF i <= Len(a) THEN a[i] ELSE b[i - Len(a)]
  BY ConcatProperties
<1>2. ASSUME NEW i \in 1..Len(r)
      PROVE  r[i] \in Members(a) \/ r[i] \in Members(b)
  <2>1. CASE i <= Len(a)
    BY <1>0, <1>1, <2>1 DEF Members
  <2>2. CASE i > Len(a)
    <3>1. i - Len(a) \in 1..Len(b) /\ r[i] = b[i - Len(a)]
      BY <1>0, <1>1, <2>2
    <3>2. QED
      BY <3>1 DEF Members
  <2>3. QED
    BY <1>0, <2>1, <2>2
<1>3. ASSUME NEW i \in 1..Len(a)
      PROVE  a[i] \in Members(r)
  BY <1>0, <1>1 DEF Members
<1>4. ASSUME NEW i \in 1..Len(b)
      PROVE  b[i] \in Members(r)
  <2>1. Len(a) + i \in 1..Len(r) /\ r[Len(a) + i] = b[i]
    BY <1>0, <1>1
  <2>2. QED
    BY <2>1 DEF Members
<1>5. \A q, x : x \in Members(q) <=> \E i \in 1..Len(q) : x = q[i]
  BY DEF Members
<1>6. ASSUME NEW x, x \in Members(r)
      PROVE  x \in Members(a) \/ x \in Members(b)
  <2>1. PICK i \in 1..Len(r) : x = r[i]
    BY <1>6 DEF Members
  <2>2. QED
    BY <1>2, <2>1
<1>7. \A x : x \in Members(a) => x \in Members(r)
  BY <1>3, <1>5
<1>8. \A x : x \in Members(b) => x \in Members(r)
  BY <1>4, <1>5
<1>9. QED
  BY <1>1, <1>6, <1>7, <1>8

(* The queue after a step, as a set *)
LEMMA QueueNext ==
    ASSUME queue \in Seq(Ids), queue # <<>>, NEW S \in SUBSET Ids, NEW next \in Orders(S),
           queue' = Tail(queue) \o next
    PROVE  /\ queue' \in Seq(Ids) /\ next \in Seq(Ids)
           /\ Head(queue) \in Ids /\ Head(queue) \in Members(queue)
           /\ \A x : x \in Members(next) <=> x \in S
           /\ \A x \in S : x \in Members(queue')
           /\ \A x \in Members(queue) : x = Head(queue) \/ x \in Members(queue')
           /\ \A x \in Members(queue') : x \in Members(queue) \/ x \in S
<1>1. next \in Seq(Ids) /\ \A x : x \in Members(next) <=> x \in S
  <2>1. next \in Seq(Ids) /\ \A x : x \in S <=> \E i \in 1..Len(next) : next[i] = x
    BY OrdersOnto
  <2>2. \A x : x \in Members(next) <=> \E i \in 1..Len(next) : next[i] = x
    BY DEF Members
  <2>3. QED
    BY <2>1, <2>2
<1>2. /\ Members(queue') = {queue[i] : i \in 2..Len(queue)} \cup Members(next)
      /\ Members(queue) = {Head(queue)} \cup {queue[i] : i \in 2..Len(queue)}
  BY <1>1, QueueMembers
<1>3. queue' \in Seq(Ids) /\ Head(queue) \in Ids
  BY <1>1, QueueMoves
<1>4. QED
  BY <1>1, <1>2, <1>3

(* While get_impact_set runs: what is found depends on the node, and what depends
   on something found that is not in the queue any more is found *)
Spreading ==
    /\ about \in Ids /\ list \in Seq(Ids) /\ queue \in Seq(Ids) /\ visited \subseteq Ids
    /\ \A n \in Ids : n \in visited <=> n = about \/ n \in Members(list)
    /\ about \notin Members(list)
    /\ Members(queue) \subseteq visited
    /\ \A n \in visited : n \in Members(queue) \/ dependents[n] \subseteq visited
    /\ \A n \in Members(list) : Reaches(about, n)

LEMMA SpreadGoesOn ==
    ASSUME GraphInv, Spreading, Spread
    PROVE  Spreading'
<1> DEFINE h == Head(queue)
           new == dependents[h] \ visited
<1>1. PICK next \in Orders(new) : queue' = Tail(queue) \o next /\ list' = list \o next
  BY DEF Spread
<1>2. queue \in Seq(Ids) /\ queue # <<>> /\ h \in Ids /\ h \in Members(queue)
  BY HeadTailProperties DEF Spreading, Spread, Members
<1>3. new \in SUBSET Ids
  BY <1>2 DEF GraphInv, GraphOK
<1>4. UNCHANGED <<dependents, about>> /\ visited' = visited \cup new
  BY DEF Spread, graph
<1>5. /\ queue' \in Seq(Ids) /\ next \in Seq(Ids)
      /\ \A x : x \in Members(next) <=> x \in new
      /\ \A x \in new : x \in Members(queue')
      /\ \A x \in Members(queue) : x = h \/ x \in Members(queue')
      /\ \A x \in Members(queue') : x \in Members(queue) \/ x \in new
  BY <1>1, <1>2, <1>3, QueueNext
<1>6. list' \in Seq(Ids) /\ \A x : x \in Members(list') <=> x \in Members(list) \/ x \in new
  <2>1. list \in Seq(Ids)
    BY DEF Spreading
  <2>2. list' \in Seq(Ids) /\ \A x : x \in Members(list') <=> x \in Members(list) \/ x \in Members(next)
    BY <1>1, <1>5, <2>1, Joined
  <2>3. QED
    BY <1>5, <2>2
<1>7. h \in visited
  BY <1>2 DEF Spreading
<1>8. Members(list)' = Members(list') /\ Members(queue)' = Members(queue')
  BY DEF Members
<1>9. ASSUME NEW n \in new
      PROVE  Reaches(about, n)
  <2>1. h = about \/ Reaches(about, h)
    BY <1>2, <1>7 DEF Spreading
  <2>2. n \in dependents[h]
    OBVIOUS
  <2> HIDE DEF h, new
  <2>3. CASE h = about
    BY <2>2, <2>3 DEF Reaches
  <2>4. CASE Reaches(about, h)
    BY <2>2, <2>4 DEF Reaches
  <2>5. QED
    BY <2>1, <2>3, <2>4
<1>10. dependents[h] \subseteq visited'
  BY <1>4
<1> HIDE DEF h
<1>11. \A n \in visited' : n \in Members(queue') \/ dependents[n] \subseteq visited'
  <2>1. \A n \in visited : n \in Members(queue) \/ dependents[n] \subseteq visited
    BY DEF Spreading
  <2>2. QED
    BY <1>4, <1>5, <1>10, <2>1
<1>12. \A n : Reaches(about, n)' <=> Reaches(about, n)
  BY <1>4 DEF Reaches
<1>13. about \in visited /\ about \notin new
  BY DEF Spreading
<1> HIDE DEF new
<1>14. QED
  BY <1>3, <1>4, <1>5, <1>6, <1>8, <1>9, <1>11, <1>12, <1>13 DEF Spreading

LEMMA SpreadEnds ==
    ASSUME GraphInv, Spreading, queue = <<>>
    PROVE  \A n \in Ids : n \in Members(list) <=> n # about /\ Reaches(about, n)
<1>1. \A n \in visited : dependents[n] \subseteq visited
  BY NoMembers DEF Spreading
<1>2. visited \in SUBSET Ids /\ about \in visited
  BY DEF Spreading
<1>3. \A n : Reaches(about, n) => n \in visited
  BY <1>1, <1>2 DEF Reaches
<1>4. QED
  BY <1>3 DEF Spreading

(* While get_dependency_chain runs: what is found or queued is the node or needs
   it, and through something that is found already; what something found needs is
   found or queued *)
Climbing ==
    /\ about \in Ids /\ list \in Seq(Ids) /\ queue \in Seq(Ids) /\ visited \subseteq Ids
    /\ \A n \in Ids : n \in Members(list) <=> n \in visited /\ n # about
    /\ about \in visited \/ about \in Members(queue)
    /\ \A n \in visited : \A d \in dependencies[n] : d \in visited \/ d \in Members(queue)
    /\ Once(list)
    /\ \A n \in Members(queue) : n = about \/ Reaches(n, about)
    /\ \A n \in Members(list) : Reaches(n, about)
    /\ \A n \in Members(queue) :
          n = about \/ about \in dependents[n] \/ \E m \in Members(list) : m \in dependents[n]
    /\ \A i \in 1..Len(list) :
          \/ about \in dependents[list[i]]
          \/ \E j \in 1..Len(list) : j < i /\ list[j] \in dependents[list[i]]

LEMMA Appended ==
    ASSUME NEW a \in Seq(Ids), NEW n \in Ids, NEW r, r = Append(a, n)
    PROVE  /\ r \in Seq(Ids) /\ Len(r) = Len(a) + 1 /\ Len(a) \in Nat /\ r[Len(a) + 1] = n
           /\ \A i \in 1..Len(a) : r[i] = a[i]
           /\ \A x : x \in Members(r) <=> x \in Members(a) \/ x = n
<1>1. /\ r \in Seq(Ids) /\ Len(r) = Len(a) + 1 /\ Len(a) \in Nat /\ r[Len(a) + 1] = n
      /\ \A i \in 1..Len(a) : r[i] = a[i]
  OBVIOUS
<1>2. ASSUME NEW x, x \in Members(r)
      PROVE  x \in Members(a) \/ x = n
  <2>1. PICK i \in 1..Len(r) : x = r[i]
    BY <1>2 DEF Members
  <2>2. i \in 1..Len(a) \/ i = Len(a) + 1
    BY <1>1
  <2>3. QED
    BY <1>1, <2>1, <2>2 DEF Members
<1>3. ASSUME NEW x, x \in Members(a)
      PROVE  x \in Members(r)
  <2>1. PICK i \in 1..Len(a) : x = a[i]
    BY <1>3 DEF Members
  <2>2. i \in 1..Len(r) /\ r[i] = x
    BY <1>1, <2>1
  <2>3. QED
    BY <2>2 DEF Members
<1>4. n \in Members(r)
  <2>1. Len(a) + 1 \in 1..Len(r)
    BY <1>1
  <2>2. QED
    BY <1>1, <2>1 DEF Members
<1>5. QED
  BY <1>1, <1>2, <1>3, <1>4

(* A node that was visited already leaves the queue *)
LEMMA QueueDrops ==
    ASSUME NEW q \in Seq(Ids), q # <<>>, NEW r, r = Tail(q)
    PROVE  /\ r \in Seq(Ids) /\ Head(q) \in Ids /\ Head(q) \in Members(q)
           /\ \A x \in Members(q) : x = Head(q) \/ x \in Members(r)
           /\ \A x \in Members(r) : x \in Members(q)
<1>1. /\ r \in Seq(Ids) /\ Len(r) = Len(q) - 1 /\ Len(q) > 0 /\ Len(q) \in Nat
      /\ \A i \in 1..(Len(q) - 1) : r[i] = q[i + 1]
      /\ Head(q) = q[1] /\ q[1] \in Ids
  BY HeadTailProperties
<1>2. 1 \in 1..Len(q)
  BY <1>1
<1>3. ASSUME NEW x, x \in Members(q), x # Head(q)
      PROVE  x \in Members(r)
  <2>1. PICK i \in 1..Len(q) : x = q[i]
    BY <1>3 DEF Members
  <2>2. i - 1 \in 1..Len(r) /\ r[i - 1] = q[(i - 1) + 1]
    BY <1>1, <1>3, <2>1
  <2>3. (i - 1) + 1 = i
    OBVIOUS
  <2>4. QED
    BY <2>1, <2>2, <2>3 DEF Members
<1>4. ASSUME NEW x, x \in Members(r)
      PROVE  x \in Members(q)
  <2>1. PICK i \in 1..Len(r) : x = r[i]
    BY <1>4 DEF Members
  <2>2. i + 1 \in 1..Len(q) /\ x = q[i + 1]
    BY <1>1, <2>1
  <2>3. QED
    BY <2>2 DEF Members
<1>5. QED
  BY <1>1, <1>2, <1>3, <1>4 DEF Members

(* A way goes on before its first edge *)
LEMMA OneBefore ==
    ASSUME GraphOK, NEW x \in Ids, NEW m \in Ids, m \in dependents[x]
    PROVE  /\ Reaches(x, m)
           /\ \A n : Reaches(m, n) => Reaches(x, n)
BY DEF Reaches, GraphOK

LEMMA ClimbPasses ==
    ASSUME GraphInv, Climbing, Climb, Head(queue) \in visited
    PROVE  Climbing'
<1>1. queue' = Tail(queue) /\ UNCHANGED <<graph, about, visited, list>> /\ queue # <<>>
  BY DEF Climb
<1>2. queue \in Seq(Ids)
  BY DEF Climbing
<1>3. /\ queue' \in Seq(Ids)
      /\ \A x \in Members(queue) : x = Head(queue) \/ x \in Members(queue')
      /\ \A x \in Members(queue') : x \in Members(queue)
  BY <1>1, <1>2, QueueDrops
<1>4. Members(queue)' = Members(queue') /\ Members(list)' = Members(list) /\ Once(list)' = Once(list)
  BY <1>1 DEF Members, Once
<1>5. \A n : Reaches(n, about)' <=> Reaches(n, about)
  BY <1>1 DEF Reaches, graph
<1>6. dependents' = dependents /\ dependencies' = dependencies
  BY <1>1 DEF graph
<1>7. about' \in visited' \/ about' \in Members(queue)'
  BY <1>1, <1>3, <1>4 DEF Climbing
<1>8. \A n \in visited' : \A d \in dependencies'[n] : d \in visited' \/ d \in Members(queue)'
  BY <1>1, <1>3, <1>4, <1>6 DEF Climbing
<1>9. QED
  BY <1>1, <1>3, <1>4, <1>5, <1>6, <1>7, <1>8 DEF Climbing

LEMMA ClimbTakes ==
    ASSUME GraphInv, Climbing, Climb, Head(queue) \notin visited
    PROVE  Climbing'
<1> DEFINE h == Head(queue)
           above == dependencies[h] \ visited'
<1>0. queue \in Seq(Ids) /\ list \in Seq(Ids) /\ queue # <<>> /\ about \in Ids /\ visited \subseteq Ids
  BY DEF Climbing, Climb
<1>1. /\ visited' = visited \cup {h} /\ UNCHANGED <<dependents, dependencies, about>>
      /\ list' = IF h = about THEN list ELSE Append(list, h)
  BY DEF Climb, graph
<1>2. PICK next \in Orders(above) : queue' = Tail(queue) \o next
  BY DEF Climb
<1>3. h \in Ids /\ h \in Members(queue) /\ dependents \in [Ids -> SUBSET Ids]
  BY <1>0, HeadTailProperties DEF Members, GraphInv, GraphOK
<1>4. above \in SUBSET Ids
  BY <1>3 DEF GraphInv, GraphOK
<1>5. /\ queue' \in Seq(Ids)
      /\ \A x \in above : x \in Members(queue')
      /\ \A x \in Members(queue) : x = h \/ x \in Members(queue')
      /\ \A x \in Members(queue') : x \in Members(queue) \/ x \in above
  BY <1>0, <1>2, <1>4, QueueNext
<1>6. \A x \in above : x \in Ids /\ h \in dependents[x]
  BY <1>3, <1>4 DEF GraphInv, Mirrored
<1>7. \A d \in dependencies[h] : d \in visited' \/ d \in Members(queue')
  BY <1>5
<1>8. h \notin visited
  OBVIOUS
<1> HIDE DEF h, above
<1>9. h = about \/ Reaches(h, about)
  BY <1>3 DEF Climbing
<1>10. /\ list' \in Seq(Ids)
       /\ \A x : x \in Members(list') <=> x \in Members(list) \/ (x = h /\ h # about)
  <2>1. CASE h = about
    BY <1>0, <1>1, <2>1
  <2>2. CASE h # about
    BY <1>0, <1>1, <1>3, <2>2, Appended, ZenonT(60)
  <2>3. QED
    BY <2>1, <2>2
<1>11. \A n \in Ids : n \in Members(list) <=> n \in visited /\ n # about
  BY DEF Climbing
<1>12. \A n \in Ids : n \in Members(list') <=> n \in visited' /\ n # about
  BY <1>1, <1>10, <1>11
<1>13. about \in visited' \/ about \in Members(queue')
  BY <1>1, <1>5 DEF Climbing
<1>14. \A n \in visited' : \A d \in dependencies[n] : d \in visited' \/ d \in Members(queue')
  <2>1. \A n \in visited : \A d \in dependencies[n] : d \in visited \/ d \in Members(queue)
    BY DEF Climbing
  <2>2. QED
    BY <1>1, <1>5, <1>7, <2>1
<1>15. Once(list')
  <2>1. CASE h = about
    BY <1>1, <2>1 DEF Climbing
  <2>2. CASE h # about
    <3>1. /\ Len(list') = Len(list) + 1 /\ Len(list) \in Nat /\ list'[Len(list) + 1] = h
          /\ \A i \in 1..Len(list) : list'[i] = list[i]
      BY <1>0, <1>1, <1>3, <2>2, Appended
    <3>2. \A i \in 1..Len(list) : list[i] # h
      BY <1>3, <1>8, <1>11 DEF Members
    <3>3. \A i, j \in 1..Len(list) : list[i] = list[j] => i = j
      BY DEF Climbing, Once
    <3>4. \A i \in 1..Len(list') : i \in 1..Len(list) \/ i = Len(list) + 1
      BY <3>1
    <3>5. QED
      BY <3>1, <3>2, <3>3, <3>4 DEF Once
  <2>3. QED
    BY <2>1, <2>2
<1>16. \A n \in above : Reaches(n, about)
  BY <1>3, <1>6, <1>9, OneBefore DEF GraphInv
<1>17. \A n \in Members(queue') : n = about \/ Reaches(n, about)
  BY <1>5, <1>16 DEF Climbing
<1>18. \A n \in Members(list') : Reaches(n, about)
  BY <1>9, <1>10 DEF Climbing
<1>19. ASSUME NEW n \in Members(queue')
       PROVE  n = about \/ about \in dependents[n] \/ \E m \in Members(list') : m \in dependents[n]
  <2>1. CASE n \in Members(queue)
    <3>1. n = about \/ about \in dependents[n] \/ \E m \in Members(list) : m \in dependents[n]
      BY <2>1 DEF Climbing
    <3>2. QED
      BY <1>10, <3>1
  <2>2. CASE n \in above
    BY <1>6, <1>10, <2>2
  <2>3. QED
    BY <1>5, <2>1, <2>2
<1>20. ASSUME NEW i \in 1..Len(list')
       PROVE  \/ about \in dependents[list'[i]]
              \/ \E j \in 1..Len(list') : j < i /\ list'[j] \in dependents[list'[i]]
  <2>0. \A k \in 1..Len(list) :
          \/ about \in dependents[list[k]]
          \/ \E j \in 1..Len(list) : j < k /\ list[j] \in dependents[list[k]]
    BY DEF Climbing
  <2>1. CASE h = about
    BY <1>1, <2>0, <2>1
  <2>2. CASE h # about
    <3>1. /\ Len(list') = Len(list) + 1 /\ Len(list) \in Nat /\ list'[Len(list) + 1] = h
          /\ \A k \in 1..Len(list) : list'[k] = list[k]
      BY <1>0, <1>1, <1>3, <2>2, Appended
    <3>2. \A k \in 1..Len(list) : k \in 1..Len(list')
      BY <3>1
    <3>3. CASE i \in 1..Len(list)
      BY <2>0, <3>1, <3>2, <3>3
    <3>4. CASE i = Len(list) + 1
      <4>1. about \in dependents[h] \/ \E m \in Members(list) : m \in dependents[h]
        BY <1>3, <2>2 DEF Climbing
      <4>2. ASSUME NEW m \in Members(list), m \in dependents[h]
            PROVE  \E j \in 1..Len(list') : j < i /\ list'[j] \in dependents[list'[i]]
        <5>1. PICK j \in 1..Len(list) : m = list[j]
          BY DEF Members
        <5>2. j < i /\ list'[j] \in dependents[list'[i]]
          BY <3>1, <3>4, <4>2, <5>1
        <5>3. QED
          BY <3>2, <5>2
      <4>3. QED
        BY <3>1, <3>4, <4>1, <4>2
    <3>5. QED
      BY <3>1, <3>3, <3>4
  <2>3. QED
    BY <2>1, <2>2
<1>21. Members(list)' = Members(list') /\ Members(queue)' = Members(queue') /\ Once(list)' = Once(list')
  BY DEF Members, Once
<1>22. \A n : Reaches(n, about)' <=> Reaches(n, about)
  BY <1>1 DEF Reaches
<1>23. visited' \subseteq Ids
  BY <1>0, <1>1, <1>3
<1>24. QED
  BY <1>0, <1>1, <1>5, <1>10, <1>12, <1>13, <1>14, <1>15, <1>17, <1>18, <1>19, <1>20, <1>21, <1>22,
     <1>23 DEF Climbing

LEMMA ClimbGoesOn ==
    ASSUME GraphInv, Climbing, Climb
    PROVE  Climbing'
BY ClimbPasses, ClimbTakes

LEMMA ClimbEnds ==
    ASSUME GraphInv, Climbing, queue = <<>>
    PROVE  \A n \in Ids : n \in Members(list) <=> n # about /\ Reaches(n, about)
<1> DEFINE S == Ids \ visited
<1>1. about \in visited /\ visited \subseteq Ids
  BY NoMembers DEF Climbing
<1>2. \A n \in visited : \A d \in dependencies[n] : d \in visited
  BY NoMembers DEF Climbing
<1>3. \A n \in S : dependents[n] \subseteq S
  BY <1>1, <1>2 DEF GraphInv, GraphOK, Mirrored
<1>4. ASSUME NEW n \in S
      PROVE  ~Reaches(n, about)
  <2>1. S \in SUBSET Ids /\ about \notin S /\ dependents[n] \subseteq S
    BY <1>1, <1>3
  <2> HIDE DEF S
  <2>2. QED
    BY <1>3, <2>1 DEF Reaches
<1>5. QED
  BY <1>4 DEF Climbing

(* A sequence the other way round *)
LEMMA Reversed ==
    ASSUME NEW a \in Seq(Ids), NEW r, r = [i \in 1..Len(a) |-> a[Len(a) + 1 - i]]
    PROVE  /\ DOMAIN r = 1..Len(a)
           /\ \A i \in 1..Len(a) : Len(a) + 1 - i \in 1..Len(a) /\ r[i] = a[Len(a) + 1 - i]
           /\ {r[i] : i \in DOMAIN r} = Members(a)
<1>1. /\ DOMAIN r = 1..Len(a)
      /\ \A i \in 1..Len(a) : Len(a) + 1 - i \in 1..Len(a) /\ r[i] = a[Len(a) + 1 - i]
  OBVIOUS
<1>2. ASSUME NEW i \in 1..Len(a)
      PROVE  a[i] \in {r[k] : k \in DOMAIN r}
  <2>1. Len(a) + 1 - i \in 1..Len(a) /\ Len(a) + 1 - (Len(a) + 1 - i) = i
    OBVIOUS
  <2>2. r[Len(a) + 1 - i] = a[i]
    BY <1>1, <2>1
  <2>3. QED
    BY <1>1, <2>1, <2>2
<1>3. \A i \in DOMAIN r : r[i] \in Members(a)
  BY <1>1 DEF Members
<1>4. \A x \in Members(a) : x \in {r[k] : k \in DOMAIN r}
  BY <1>2 DEF Members
<1>5. QED
  BY <1>1, <1>3, <1>4

WalkInv ==
    /\ job \notin {"impact", "chain"} => visited = {}
    /\ job = "impact" => Spreading
    /\ job = "chain" => Climbing
    /\ ClosureRight

LEMMA ClosureKept ==
    ASSUME ClosureRight, UNCHANGED <<graph, answer>>
    PROVE  ClosureRight'
<1>1. dependents' = dependents /\ answer' = answer
  BY DEF graph
<1>2. \A m, n : Reaches(m, n)' <=> Reaches(m, n)
  BY <1>1 DEF Reaches
<1>3. QED
  BY <1>1, <1>2 DEF ClosureRight, Distinct

LEMMA OneMember ==
    ASSUME NEW n
    PROVE  \A x : x \in Members(<<n>>) <=> x = n
BY DEF Members

LEMMA ImpactBegins ==
    ASSUME SearchInv, TellInv, WalkInv, NEW n \in Ids, GetImpact(n)
    PROVE  WalkInv'
<1>1. /\ list' = <<>> /\ queue' = <<n>> /\ visited' = {n} /\ about' = n /\ job' = "impact"
      /\ UNCHANGED <<graph, answer>>
  BY DEF GetImpact, TellInv, Cleared
<1>2. Members(list)' = {} /\ \A x : x \in Members(queue)' <=> x = n
  BY <1>1, NoMembers, OneMember DEF Members
<1>3. <<n>> \in Seq(Ids) /\ <<>> \in Seq(Ids)
  OBVIOUS
<1>4. Spreading'
  BY <1>1, <1>2, <1>3 DEF Spreading
<1>5. QED
  BY <1>1, <1>4, ClosureKept DEF WalkInv

LEMMA ChainBegins ==
    ASSUME SearchInv, TellInv, WalkInv, NEW n \in Ids, GetChain(n)
    PROVE  WalkInv'
<1>1. /\ list' = <<>> /\ queue' = <<n>> /\ visited' = {} /\ about' = n /\ job' = "chain"
      /\ UNCHANGED <<graph, answer>>
  BY DEF GetChain, TellInv, Cleared, WalkInv
<1>2. /\ Members(list)' = {} /\ \A x : x \in Members(queue)' <=> x = n
      /\ Once(list)' /\ Len(list') = 0
  BY <1>1, NoMembers, OneMember DEF Members, Once
<1>3. <<n>> \in Seq(Ids) /\ <<>> \in Seq(Ids)
  OBVIOUS
<1>4. Climbing'
  BY <1>1, <1>2, <1>3 DEF Climbing
<1>5. QED
  BY <1>1, <1>4, ClosureKept DEF WalkInv

LEMMA ClosedTells ==
    ASSUME SearchInv, WalkInv, Closed
    PROVE  WalkInv'
<1> DEFINE back == [i \in 1..Len(list) |-> list[Len(list) + 1 - i]]
<1>0. GraphInv /\ queue = <<>> /\ job \in {"impact", "chain"}
  BY DEF SearchInv, Closed
<1>1. /\ job' = "done" /\ visited' = {} /\ dependents' = dependents
      /\ answer'.job = job /\ answer'.about = about
      /\ answer'.list = IF job = "impact" THEN list ELSE back
  BY DEF Closed, Return, graph
<1>2. \A m, n : Reaches(m, n)' <=> Reaches(m, n)
  BY <1>1 DEF Reaches
<1> HIDE DEF back
<1>3. CASE job = "impact"
  <2>1. Spreading
    BY <1>3 DEF WalkInv
  <2>2. list \in Seq(Ids) /\ Members(list) \subseteq Ids
    BY <2>1, ElementOfSeq DEF Spreading, Members
  <2>3. \A n \in Ids : n \in Members(list) <=> n # about /\ Reaches(about, n)
    BY <1>0, <2>1, SpreadEnds
  <2>4. Members(list) = {n \in Ids \ {about} : Reaches(about, n)}
    BY <2>2, <2>3
  <2>5. {list[i] : i \in DOMAIN list} = Members(list)
    BY <2>2 DEF Members
  <2>6. answer'.job = "impact" /\ answer'.list = list
    BY <1>1, <1>3
  <2>7. ClosureRight'
    BY <1>1, <1>2, <2>4, <2>5, <2>6 DEF ClosureRight
  <2>8. QED
    BY <1>1, <2>7 DEF WalkInv
<1>4. CASE job = "chain"
  <2>1. Climbing
    BY <1>4 DEF WalkInv
  <2>2. list \in Seq(Ids) /\ Members(list) \subseteq Ids /\ Len(list) \in Nat
    BY <2>1, ElementOfSeq DEF Climbing, Members
  <2>3. \A n \in Ids : n \in Members(list) <=> n # about /\ Reaches(n, about)
    BY <1>0, <2>1, ClimbEnds
  <2>4. Members(list) = {n \in Ids \ {about} : Reaches(n, about)}
    BY <2>2, <2>3
  <2>5. /\ DOMAIN back = 1..Len(list)
        /\ \A i \in 1..Len(list) : Len(list) + 1 - i \in 1..Len(list) /\ back[i] = list[Len(list) + 1 - i]
        /\ {back[i] : i \in DOMAIN back} = Members(list)
    BY <2>2, Reversed DEF back
  <2>6. Distinct(back)
    <3>1. \A i, j \in 1..Len(list) : list[i] = list[j] => i = j
      BY <2>1 DEF Climbing, Once
    <3>2. ASSUME NEW i \in 1..Len(list), NEW j \in 1..Len(list), back[i] = back[j]
          PROVE  i = j
      <4>1. Len(list) + 1 - i = Len(list) + 1 - j
        BY <2>5, <3>1, <3>2
      <4>2. QED
        BY <2>2, <4>1
    <3>3. QED
      BY <2>5, <3>2 DEF Distinct
  <2>7. ASSUME NEW i \in DOMAIN back
        PROVE  \/ about \in dependents[back[i]]
               \/ \E j \in DOMAIN back : i < j /\ back[j] \in dependents[back[i]]
    <3>1. i \in 1..Len(list) /\ Len(list) + 1 - i \in 1..Len(list) /\ back[i] = list[Len(list) + 1 - i]
      BY <2>5
    <3>2. \/ about \in dependents[back[i]]
          \/ \E k \in 1..Len(list) : k < Len(list) + 1 - i /\ list[k] \in dependents[back[i]]
      BY <2>1, <3>1 DEF Climbing
    <3>3. ASSUME NEW k \in 1..Len(list), k < Len(list) + 1 - i, list[k] \in dependents[back[i]]
          PROVE  \E j \in DOMAIN back : i < j /\ back[j] \in dependents[back[i]]
      <4>1. /\ Len(list) + 1 - k \in 1..Len(list) /\ i < Len(list) + 1 - k
            /\ Len(list) + 1 - (Len(list) + 1 - k) = k
        BY <2>2, <3>1, <3>3
      <4>2. back[Len(list) + 1 - k] = list[k]
        BY <2>5, <4>1
      <4>3. QED
        BY <2>5, <3>3, <4>1, <4>2
    <3>4. QED
      BY <3>2, <3>3
  <2>8. answer'.job = "chain" /\ answer'.list = back
    BY <1>1, <1>4
  <2>9. ClosureRight'
    BY <1>1, <1>2, <2>4, <2>5, <2>6, <2>7, <2>8 DEF ClosureRight, Distinct
  <2>10. QED
    BY <1>1, <2>9 DEF WalkInv
<1>5. QED
  BY <1>0, <1>3, <1>4

LEMMA WalkStep == SearchInv /\ TellInv /\ WalkInv /\ [Next]_dagVars => WalkInv'
<1> SUFFICES ASSUME SearchInv, TellInv, WalkInv, [Next]_dagVars
             PROVE  WalkInv'
  OBVIOUS
<1>1. CASE Edit \/ Forget
  <2>1. answer' = NoAnswer /\ job' = "none" /\ visited' = visited /\ job \in {"none", "done"}
    BY <1>1 DEF Edit, Forget, SearchInv, Resting, search
  <2>2. QED
    BY <2>1 DEF WalkInv, ClosureRight, NoAnswer
<1>2. CASE FindCycle \/ Sort \/ Root \/ Descend \/ Pass \/ Leave \/ Take \/ SortFails
  <2>1. /\ UNCHANGED <<graph, answer, visited>> /\ job \notin {"impact", "chain"}
        /\ job' \notin {"impact", "chain"}
    BY <1>2 DEF FindCycle, Sort, Root, Descend, Pass, Leave, Take, SortFails, Searching, search
  <2>2. QED
    BY <2>1, ClosureKept DEF WalkInv
<1>3. CASE Found \/ NotFound \/ Sorted
  <2>1. job' = "done" /\ visited' = {} /\ answer'.job \in {"cycle", "sort_cycle", "sort"}
    BY <1>3 DEF Found, NotFound, Sorted, Return, Searching
  <2>2. QED
    BY <2>1 DEF WalkInv, ClosureRight
<1>4. CASE Spread
  <2>1. UNCHANGED <<graph, answer, job>> /\ job = "impact"
    BY <1>4 DEF Spread
  <2>2. Spreading'
    BY <1>4, <2>1, SpreadGoesOn DEF SearchInv, WalkInv
  <2>3. QED
    BY <2>1, <2>2, ClosureKept DEF WalkInv
<1>5. CASE Climb
  <2>1. UNCHANGED <<graph, answer, job>> /\ job = "chain"
    BY <1>5 DEF Climb
  <2>2. Climbing'
    BY <1>5, <2>1, ClimbGoesOn DEF SearchInv, WalkInv
  <2>3. QED
    BY <2>1, <2>2, ClosureKept DEF WalkInv
<1>6. CASE UNCHANGED dagVars
  <2>1. /\ UNCHANGED <<nodes, dependents, dependencies, about, queue, visited, list, job>>
        /\ UNCHANGED <<graph, answer>>
    BY <1>6 DEF dagVars, graph, search
  <2>2. Members(list)' = Members(list) /\ Members(queue)' = Members(queue) /\ Once(list)' = Once(list)
    BY <2>1 DEF Members, Once
  <2>3. \A m, n : Reaches(m, n)' <=> Reaches(m, n)
    BY <2>1 DEF Reaches
  <2>4. Spreading => Spreading'
    BY <2>1, <2>2, <2>3 DEF Spreading
  <2>5. Climbing => Climbing'
    BY <2>1, <2>2, <2>3 DEF Climbing
  <2>6. QED
    BY <2>1, <2>4, <2>5, ClosureKept DEF WalkInv
<1>7. QED
  BY <1>1, <1>2, <1>3, <1>4, <1>5, <1>6, ImpactBegins, ChainBegins, ClosedTells
  DEF Next, Ask, SearchStep

(* The impact set of a node is what depends on it, and its dependency chain what it
   depends on, directly or through others, without the node itself and on cycles
   too; the chain has every node once, and before the node or another member that
   needs it. *)
THEOREM ClosuresAreRight == Spec => []ClosureRight
<1>1. Init => WalkInv
  BY DEF Init, WalkInv, ClosureRight, NoAnswer
<1>2. WalkInv => ClosureRight
  BY DEF WalkInv
<1>3. QED
  BY <1>1, <1>2, SearchBegins, SearchKept, TellBegins, TellStep, WalkStep, PTL DEF Spec
-----------------------------------------------------------------------------
(* The requests that check the definitions as a whole.  DagInv, what holds of the
   graph and its searches, is kept by the steps of OntologyChecks too: each is a
   step of OntologyDag, leaves the graph alone, or builds it anew while no search
   is under way. *)

DagInv == SearchInv /\ TellInv

LEMMA DagKept == DagInv /\ [Next]_dagVars => DagInv'
BY SearchKept, TellStep DEF DagInv

ChecksTypes ==
    /\ tables \in Tables /\ got \in Tables
    /\ changes \in Nat
    /\ request \in Requests \cup {NoRequest}
    /\ pc \in {"idle", "interface", "types", "links", "interfaces", "search", "done"}

(* Who is at work, and for whom *)
Phases ==
    /\ pc \notin {"search", "done"} => job = "none"
    /\ pc = "search" =>
        /\ request.kind \in {"cycle", "order"}
        /\ job \in {"none", "cycle", "sort", "sort_cycle", "done"}
        /\ job = "done" => answer.job \in {"cycle", "sort", "sort_cycle"}
    /\ pc = "interfaces" => request.kind \in {"cycle", "order", "validate"}
    /\ pc = "interface" => request.kind = "interface" /\ request.id \in InterfaceIds
    /\ pc \in {"types", "links"} /\ request.kind = "interface" =>
        /\ request.id \in InterfaceIds
        /\ request.id \in Rows(got.interfaces)
    /\ pc \notin {"idle", "done"} => request \in Requests
    /\ pc # "done" => report = Silent

(* The graph that is searched is that of the tables as they were read *)
GraphBuilt ==
    pc = "search" => \A m, n \in Ids : n \in dependents[m] <=> Depends(got, n, m)

(* What is told as a cycle is made of definitions, and an order is told where
   nothing is on a cycle *)
Answered ==
    /\ CycleAnswer => answer.list \in Seq(Ids)
    /\ answer.job = "sort" => \A n \in nodes : ~Reaches(n, n)

ReadAs(part, before, now) == part = before \/ part = now

(* As long as one definition changed at most, only one of the tables is not what it
   was, and what was read of a table is what it was or what it is *)
ReadOfAMoment ==
    /\ changes = 0 => tables = earlier
    /\ changes <= 1 =>
        /\ \/ tables.types = earlier.types /\ tables.links = earlier.links
           \/ tables.types = earlier.types /\ tables.interfaces = earlier.interfaces
           \/ tables.links = earlier.links /\ tables.interfaces = earlier.interfaces
        /\ request.kind \in {"cycle", "order", "validate"} =>
            /\ pc \in {"links", "interfaces", "search", "done"} =>
                ReadAs(got.types, earlier.types, tables.types)
            /\ pc \in {"interfaces", "search", "done"} =>
                ReadAs(got.links, earlier.links, tables.links)
            /\ pc \in {"search", "done"} =>
                ReadAs(got.interfaces, earlier.interfaces, tables.interfaces)

(* What the last validator reported is what it has read *)
ReportOfRead ==
    report.kind = "interface" /\ report.outcome = "ok" =>
        /\ request.id \in Rows(got.interfaces)
        /\ report.errors = Failing(got, request.id)

ChecksInv ==
    /\ DagInv /\ ChecksTypes /\ Phases /\ GraphBuilt /\ Answered
    /\ ReadOfAMoment /\ ReportOfRead /\ ReportOfAMoment
-----------------------------------------------------------------------------
(* Where nothing is on a cycle, and where something is *)

(* An order with every node in it, each before what depends on it, leaves no cycle *)
LEMMA OrderedAcyclic ==
    ASSUME GraphInv, Sorting, Len(list) = Cardinality(nodes)
    PROVE  \A n \in nodes : ~Reaches(n, n)
<1>1. Members(list) = nodes
  <2>1. Members(list) \subseteq nodes /\ Cardinality(Members(list)) = Cardinality(nodes)
    BY DEF Sorting
  <2>2. QED
    BY <2>1, FiniteNodes, FS_Subset
<1>2. \A d, n \in Ids : d \in dependents[n] => d \in nodes
  BY DEF GraphInv, Mirrored
<1>3. ASSUME NEW n \in nodes, Reaches(n, n)
      PROVE  FALSE
  <2>1. PICK k \in 1..Len(list) : list[k] = n
    BY <1>1 DEF Members
  <2> DEFINE After == {list[i] : i \in {j \in 1..Len(list) : k < j}}
  <2>2. After \subseteq Ids
    BY <1>1 DEF Members, GraphInv, GraphOK
  <2>3. ASSUME NEW i \in 1..Len(list), NEW d \in dependents[list[i]], k <= i
        PROVE  d \in After
    <3>1. list[i] \in nodes /\ nodes \subseteq Ids
      BY <1>1 DEF Members, GraphInv, GraphOK
    <3>2. d \in Ids
      BY <3>1 DEF GraphInv, GraphOK
    <3>3. d \in Members(list)
      BY <1>1, <1>2, <3>1, <3>2
    <3>4. PICK j \in 1..Len(list) : list[j] = d
      BY <3>3 DEF Members
    <3>5. i < j
      BY <3>4 DEF Sorting
    <3>6. k < j
      BY <2>3, <3>5
    <3>7. QED
      BY <3>4, <3>6
  <2>4. dependents[n] \subseteq After
    BY <2>1, <2>3
  <2>5. \A s \in After : dependents[s] \subseteq After
    <3>1. \A s \in After : \E i \in 1..Len(list) : k < i /\ list[i] = s
      OBVIOUS
    <3> HIDE DEF After
    <3>2. QED
      BY <2>3, <3>1
  <2>6. n \in After
    <3> HIDE DEF After
    <3> QED BY <1>3, <2>2, <2>4, <2>5 DEF Reaches
  <2>7. PICK i \in 1..Len(list) : k < i /\ list[i] = n
    BY <2>6
  <2>8. i = k
    BY <2>1, <2>7 DEF Sorting, Once
  <2>9. QED
    BY <2>7, <2>8
<1>4. QED
  BY <1>3

LEMMA FoundAnswers ==
    ASSUME DagInv, Found
    PROVE  Answered'
<1>0. GraphInv /\ SearchTypes /\ Calls
  BY DEF DagInv, SearchInv
<1>1. PICK d \in left[Top] : Closes(d) /\ Return(job, Path(d))
  BY DEF Found
<1>2. Len(stack) \in Nat /\ Len(stack) > 0 /\ Top = stack[Len(stack)] /\ Top \in Ids
  BY <1>0, EmptySeq DEF SearchTypes, Top, Found
<1>3. d \in Ids
  BY <1>0, <1>2 DEF SearchTypes
<1>4. PICK p \in 1..Len(stack) : stack[p] = d
  BY <1>0, <1>1, <1>3 DEF Calls, Closes
<1>5. Path(d) \in Seq(Ids)
  BY <1>0, <1>4, PathNodes
<1>6. answer'.list = Path(d) /\ answer'.job = job
  BY <1>1 DEF Return
<1>7. job # "sort"
  BY DEF Found, Searching
<1>8. QED
  BY <1>5, <1>6, <1>7 DEF Answered, CycleAnswer

LEMMA SortedAnswers ==
    ASSUME DagInv, Sorted
    PROVE  Answered'
<1>1. GraphInv /\ Sorting /\ Len(list) = Cardinality(nodes) /\ Return("sort", list)
  BY DEF DagInv, SearchInv, TellInv, Sorted
<1>2. \A n \in nodes : ~Reaches(n, n)
  BY <1>1, OrderedAcyclic
<1>3. answer'.job = "sort" /\ nodes' = nodes /\ dependents' = dependents
  BY <1>1 DEF Return, graph
<1>4. QED
  BY <1>2, <1>3 DEF Answered, CycleAnswer, Reaches

LEMMA OthersAnswer ==
    ASSUME DagInv, Closed \/ NotFound
    PROVE  Answered'
<1>1. CASE Closed
  <2>1. answer'.job \in {"impact", "chain"}
    BY <1>1 DEF Closed, Return
  <2>2. QED
    BY <2>1 DEF Answered, CycleAnswer
<1>2. CASE NotFound
  <2>1. answer'.job \in {"cycle", "sort_cycle"} /\ answer'.list = <<>>
    BY <1>2 DEF NotFound, Searching, Return
  <2>2. <<>> \in Seq(Ids)
    OBVIOUS
  <2>3. QED
    BY <2>1, <2>2 DEF Answered
<1>3. QED
  BY <1>1, <1>2

LEMMA AnsweredKept ==
    ASSUME Answered, UNCHANGED <<graph, answer>>
    PROVE  Answered'
BY DEF Answered, CycleAnswer, Reaches, graph

LEMMA AnsweredStep ==
    ASSUME DagInv, Answered, Ask \/ SearchStep
    PROVE  Answered'
<1>1. CASE Ask
  <2>1. UNCHANGED <<graph, answer>>
    BY <1>1 DEF Ask, FindCycle, Sort, GetImpact, GetChain
  <2>2. QED
    BY <2>1, AnsweredKept
<1>2. CASE Root \/ Descend \/ Pass \/ Leave \/ Take \/ SortFails \/ Spread \/ Climb
  <2>1. UNCHANGED <<graph, answer>>
    BY <1>2 DEF Root, Descend, Pass, Leave, Take, SortFails, Spread, Climb
  <2>2. QED
    BY <2>1, AnsweredKept
<1>3. QED
  BY <1>1, <1>2, FoundAnswers, SortedAnswers, OthersAnswer DEF SearchStep
-----------------------------------------------------------------------------
(* The tables *)

LEMMA NoTablesType == NoTables \in Tables
BY DEF NoTables, Tables

LEMMA TablesParts ==
    ASSUME NEW t \in Tables
    PROVE  /\ t.types \in [TypeIds -> TypeRow \cup {NoRow}]
           /\ t.links \in [LinkIds -> LinkRow \cup {NoRow}]
           /\ t.interfaces \in [InterfaceIds -> InterfaceRow \cup {NoRow}]
BY DEF Tables

(* What is stored is of its kind, and its rows name what they may *)
LEMMA RowsOf ==
    ASSUME NEW t \in Tables
    PROVE  /\ Rows(t.types) \subseteq TypeIds
           /\ Rows(t.links) \subseteq LinkIds
           /\ Rows(t.interfaces) \subseteq InterfaceIds
           /\ \A x \in Rows(t.types) : t.types[x] \in TypeRow
           /\ \A x \in Rows(t.links) : t.links[x] \in LinkRow
           /\ \A x \in Rows(t.interfaces) : t.interfaces[x] \in InterfaceRow
BY TablesParts DEF Rows

LEMMA PartsPut ==
    ASSUME NEW t \in Tables, NEW u \in Tables
    PROVE  /\ [t EXCEPT !.types = u.types] \in Tables
           /\ [t EXCEPT !.links = u.links] \in Tables
           /\ [t EXCEPT !.interfaces = u.interfaces] \in Tables
BY DEF Tables

LEMMA ChangedTables ==
    ASSUME tables \in Tables, Change
    PROVE  /\ tables' \in Tables
           /\ \/ tables'.links = tables.links /\ tables'.interfaces = tables.interfaces
              \/ tables'.types = tables.types /\ tables'.interfaces = tables.interfaces
              \/ tables'.types = tables.types /\ tables'.links = tables.links
<1>1. CASE \E x \in TypeIds, row \in TypeRows : tables' = [tables EXCEPT !.types[x] = row]
  BY <1>1, ChecksAssumption DEF Tables
<1>2. CASE \E x \in LinkIds, row \in LinkRows : tables' = [tables EXCEPT !.links[x] = row]
  BY <1>2, ChecksAssumption DEF Tables
<1>3. CASE \E x \in InterfaceIds, row \in InterfaceRows :
              tables' = [tables EXCEPT !.interfaces[x] = row]
  BY <1>3, ChecksAssumption DEF Tables
<1>4. QED
  BY <1>1, <1>2, <1>3 DEF Change

(* A definition depends on what it names *)
LEMMA DependsOn ==
    ASSUME NEW t \in Tables, NEW n, NEW m, Depends(t, n, m)
    PROVE  /\ \/ n \in TypeIds
              \/ n \in LinkIds /\ m \in TypeIds
           /\ n \in Ids /\ m \in Ids
<1>1. CASE n \in Rows(t.types) /\ m \in t.types[n].implements
  <2>1. n \in TypeIds /\ t.types[n] \in TypeRow
    BY <1>1, RowsOf
  <2>2. m \in Ids
    BY <1>1, <2>1 DEF TypeRow
  <2>3. QED
    BY <2>1, <2>2, ChecksAssumption
<1>2. CASE n \in Rows(t.links) /\ m \in {t.links[n].source, t.links[n].target}
  <2>1. n \in LinkIds /\ t.links[n] \in LinkRow
    BY <1>2, RowsOf
  <2>2. m \in TypeIds
    BY <1>2, <2>1 DEF LinkRow
  <2>3. QED
    BY <2>1, <2>2, ChecksAssumption
<1>3. QED
  BY <1>1, <1>2 DEF Depends

LEMMA BuiltFromDepends ==
    ASSUME NEW t \in Tables, NEW n, NEW m
    PROVE  m \in BuiltFrom(t, n) <=> Depends(t, n, m)
<1>1. n \in Rows(t.types) => n \notin Rows(t.links)
  BY RowsOf, ChecksAssumption
<1>2. QED
  BY <1>1 DEF BuiltFrom, Depends

LEMMA Builds ==
    ASSUME NEW t \in Tables, Build(t)
    PROVE  /\ GraphInv'
           /\ \A m, n \in Ids : n \in dependents'[m] <=> Depends(t, n, m)
<1>1. ASSUME NEW n \in Ids
      PROVE  BuiltFrom(t, n) \subseteq Ids
  BY BuiltFromDepends, DependsOn
<1>2. dependencies' \in [Ids -> SUBSET Ids] /\ dependents' \in [Ids -> SUBSET Ids]
  BY <1>1 DEF Build
<1>3. \A m, n \in Ids : n \in dependents'[m] <=> m \in BuiltFrom(t, n)
  BY DEF Build
<1>4. \A m, n \in Ids : m \in dependencies'[n] <=> m \in BuiltFrom(t, n)
  BY DEF Build
<1> DEFINE stored == Rows(t.types) \cup Rows(t.links) \cup Rows(t.interfaces)
           ends == UNION {BuiltFrom(t, n) : n \in Ids}
<1>5. nodes' = stored \cup ends
  BY DEF Build
<1>6. stored \subseteq Ids
  BY RowsOf, ChecksAssumption
<1>7. ends \subseteq Ids
  BY <1>1
<1>8. ASSUME NEW m \in Ids, NEW n \in Ids, m \in BuiltFrom(t, n)
      PROVE  m \in nodes' /\ n \in nodes'
  <2>1. n \in stored
    BY <1>8 DEF BuiltFrom
  <2>2. m \in ends
    BY <1>8
  <2>3. QED
    BY <1>5, <2>1, <2>2
<1>9. nodes' \subseteq Ids
  BY <1>5, <1>6, <1>7
<1>10. GraphInv'
  BY <1>2, <1>3, <1>4, <1>8, <1>9 DEF GraphInv, GraphOK, Mirrored
<1>11. QED
  BY <1>3, <1>10, BuiltFromDepends
-----------------------------------------------------------------------------
(* The steps *)

LEMMA TypesStep ==
    ASSUME ChecksTypes, [ChecksNext]_vars
    PROVE  ChecksTypes'
<1>1. CASE Change
  <2>1. tables' \in Tables
    BY <1>1, ChangedTables DEF ChecksTypes
  <2>2. QED
    BY <1>1, <2>1 DEF ChecksTypes, Change
<1>2. CASE Open
  BY <1>2 DEF ChecksTypes, Open
<1>3. CASE ReadTypes
  BY <1>3, PartsPut DEF ChecksTypes, ReadTypes
<1>4. CASE ReadLinks
  BY <1>4, PartsPut DEF ChecksTypes, ReadLinks
<1>5. CASE ReadForGraph
  BY <1>5, PartsPut DEF ChecksTypes, ReadForGraph
<1>6. CASE StartSearch \/ GoOn
  BY <1>6 DEF ChecksTypes, StartSearch, GoOn, checkVars
<1>7. CASE TellGraph
  BY <1>7 DEF ChecksTypes, TellGraph, Answer
<1>8. CASE ReadForValidator
  BY <1>8, PartsPut DEF ChecksTypes, ReadForValidator, Answer
<1>9. CASE ReadInterface
  BY <1>9, PartsPut DEF ChecksTypes, ReadInterface, Answer
<1>10. CASE ReadForInterface
  BY <1>10, PartsPut DEF ChecksTypes, ReadForInterface, Answer
<1>11. CASE UNCHANGED vars
  BY <1>11 DEF ChecksTypes, vars, checkVars
<1>12. QED
  BY <1>1, <1>2, <1>3, <1>4, <1>5, <1>6, <1>7, <1>8, <1>9, <1>10, <1>11 DEF ChecksNext

(* What a step does to the graph and its searches *)
LEMMA DagSteps ==
    ASSUME [ChecksNext]_vars
    PROVE  UNCHANGED dagVars \/ ReadForGraph \/ StartSearch \/ GoOn
BY DEF ChecksNext, Change, Open, ReadTypes, ReadLinks, TellGraph, ReadForValidator,
       ReadInterface, ReadForInterface, vars

(* The graph is built anew while nothing searches it *)
LEMMA BuildKeeps ==
    ASSUME DagInv, ChecksTypes, Phases, Answered, ReadForGraph
    PROVE  DagInv' /\ GraphBuilt' /\ Answered'
<1>1. job = "none" /\ UNCHANGED <<job, search, answer>> /\ got' \in Tables
  BY PartsPut DEF Phases, ReadForGraph, ChecksTypes
<1>2. answer = NoAnswer /\ ~Searching
  BY <1>1 DEF DagInv, SearchInv, Resting, Searching
<1>3. /\ GraphInv'
      /\ \A m, n \in Ids : n \in dependents'[m] <=> Depends(got', n, m)
  BY <1>1, Builds DEF ReadForGraph
<1>4. GraphBuilt'
  BY <1>3 DEF GraphBuilt
<1>5. SearchTypes' /\ Resting' /\ UNCHANGED <<stack, color, list>> /\ answer' = NoAnswer
  BY <1>1, <1>2 DEF DagInv, SearchInv, SearchTypes, Resting, Searching, search
<1>6. SearchInv'
  BY <1>2, <1>3, <1>5, NoAnswerLeft DEF DagInv, NoAnswer
<1>7. TellInv'
  BY <1>1, <1>5 DEF DagInv, TellInv, Cleared, Stuck, SortTold, NoAnswer
<1>8. Answered'
  BY <1>5 DEF Answered, CycleAnswer, NoAnswer
<1>9. QED
  BY <1>4, <1>6, <1>7, <1>8 DEF DagInv

LEMMA SearchLeavesGraph ==
    ASSUME Ask \/ SearchStep
    PROVE  UNCHANGED graph
<1>1. CASE Ask
  BY <1>1 DEF Ask, FindCycle, Sort, GetImpact, GetChain
<1>2. CASE SearchStep
  BY <1>2 DEF SearchStep, Root, Found, Descend, Pass, Leave, NotFound, Take, Sorted,
       SortFails, Spread, Climb, Closed, Return
<1>3. QED
  BY <1>1, <1>2

LEMMA SearchGoesOn ==
    ASSUME DagInv, GraphBuilt, Answered, StartSearch \/ GoOn
    PROVE  DagInv' /\ GraphBuilt' /\ Answered'
<1>1. Ask \/ SearchStep
  BY DEF StartSearch, GoOn, Ask
<1>2. DagInv'
  BY <1>1, DagKept DEF Next
<1>3. GraphBuilt'
  <2>1. UNCHANGED <<dependents, got, pc>>
    BY <1>1, SearchLeavesGraph DEF StartSearch, GoOn, checkVars, graph
  <2>2. QED
    BY <2>1 DEF GraphBuilt, Depends
<1>4. QED
  BY <1>1, <1>2, <1>3, AnsweredStep

LEMMA DagStep ==
    ASSUME DagInv, ChecksTypes, Phases, GraphBuilt, Answered, [ChecksNext]_vars
    PROVE  DagInv' /\ GraphBuilt' /\ Answered'
<1>1. CASE UNCHANGED dagVars /\ ~ReadForGraph
  <2>1. DagInv'
    BY <1>1, DagKept
  <2>2. Answered'
    BY <1>1, AnsweredKept DEF dagVars
  <2>3. pc' = "search" => pc = "search" /\ got' = got
    <3>1. CASE UNCHANGED vars
      BY <3>1 DEF vars, checkVars
    <3>2. CASE ChecksNext
      <4>1. CASE StartSearch \/ GoOn
        BY <4>1 DEF StartSearch, GoOn, checkVars
      <4>2. CASE ~StartSearch /\ ~GoOn
        BY <1>1, <3>2, <4>2 DEF ChecksNext, Change, Open, ReadTypes, ReadLinks, TellGraph, Answer,
             ReadForValidator, ReadInterface, ReadForInterface
      <4>3. QED
        BY <4>1, <4>2
    <3>3. QED
      BY <3>1, <3>2
  <2>4. GraphBuilt'
    BY <1>1, <2>3 DEF GraphBuilt, dagVars, graph, Depends
  <2>5. QED
    BY <2>1, <2>2, <2>4
<1>2. QED
  BY <1>1, BuildKeeps, SearchGoesOn, DagSteps

LEMMA SearchPhases ==
    ASSUME Phases, StartSearch \/ GoOn
    PROVE  Phases'
<1>1. /\ pc = "search" /\ UNCHANGED <<pc, request, report, got>>
      /\ request.kind \in {"cycle", "order"}
      /\ job \in {"none", "cycle", "sort", "sort_cycle", "done"}
      /\ job = "done" => answer.job \in {"cycle", "sort", "sort_cycle"}
      /\ request \in Requests /\ report = Silent
  BY DEF Phases, StartSearch, GoOn, checkVars
<1>2. /\ job' \in {"none", "cycle", "sort", "sort_cycle", "done"}
      /\ job' = "done" => answer'.job \in {"cycle", "sort", "sort_cycle"}
  <2>1. CASE StartSearch
    BY <2>1 DEF StartSearch, FindCycle, Sort
  <2>2. CASE GoOn
    <3>1. CASE Root \/ Descend \/ Pass \/ Leave \/ Take \/ Spread \/ Climb
      BY <1>1, <3>1 DEF Root, Descend, Pass, Leave, Take, Spread, Climb
    <3>2. CASE Found
      BY <1>1, <3>2 DEF Found, Return, Searching
    <3>3. CASE NotFound
      BY <1>1, <3>3 DEF NotFound, Return, Searching
    <3>4. CASE Sorted \/ SortFails \/ Closed
      BY <1>1, <3>4 DEF Sorted, SortFails, Closed, Return, Searching
    <3>5. QED
      BY <2>2, <3>1, <3>2, <3>3, <3>4 DEF GoOn, SearchStep
  <2>3. QED
    BY <2>1, <2>2
<1>3. QED
  BY <1>1, <1>2 DEF Phases

LEMMA PhasesStep ==
    ASSUME ChecksTypes, Phases, [ChecksNext]_vars
    PROVE  Phases'
<1>1. CASE Change
  BY <1>1 DEF Phases, Change, dagVars
<1>2. CASE Open
  <2>1. pc = "idle" /\ job' = "none" /\ report' = report /\ report = Silent
    BY <1>2 DEF Phases, Open, dagVars
  <2>2. CASE request'.kind = "interface"
    <3>1. request' \in Requests /\ request'.id \in InterfaceIds /\ pc' = "interface"
      BY <1>2, <2>2 DEF Open, Requests
    <3>2. QED
      BY <2>1, <2>2, <3>1 DEF Phases
  <2>3. CASE request'.kind # "interface"
    <3>1. request' \in Requests /\ pc' = "types"
      BY <1>2, <2>3 DEF Open
    <3>2. QED
      BY <2>1, <2>3, <3>1 DEF Phases
  <2>4. QED
    BY <2>2, <2>3
<1>3. CASE ReadTypes
  <2>1. /\ pc = "types" /\ pc' = "links" /\ job' = job /\ UNCHANGED <<request, report>>
        /\ got'.interfaces = got.interfaces
    BY <1>3 DEF ReadTypes, dagVars, ChecksTypes, Tables
  <2>2. QED
    BY <2>1 DEF Phases
<1>4. CASE ReadLinks
  <2>1. /\ pc = "links" /\ pc' = "interfaces" /\ job' = job /\ UNCHANGED <<request, report>>
        /\ request.kind # "interface" /\ request \in Requests
    BY <1>4 DEF ReadLinks, dagVars, Phases
  <2>2. request.kind \in {"cycle", "order", "validate"}
    BY <2>1 DEF Requests
  <2>3. QED
    BY <2>1, <2>2 DEF Phases
<1>5. CASE ReadForGraph
  BY <1>5 DEF Phases, ReadForGraph
<1>6. CASE StartSearch \/ GoOn
  BY <1>6, SearchPhases
<1>7. CASE TellGraph \/ ReadForValidator \/ ReadForInterface
  BY <1>7 DEF TellGraph, ReadForValidator, ReadForInterface, Answer, Phases
<1>8. CASE ReadInterface
  <2>1. /\ pc = "interface" /\ job' = job /\ request' = request
        /\ got'.interfaces = tables.interfaces
        /\ request \in Requests /\ request.kind = "interface" /\ request.id \in InterfaceIds
    BY <1>8 DEF ReadInterface, dagVars, ChecksTypes, Tables, Phases
  <2>2. CASE request.id \in Rows(tables.interfaces)
    <3>1. pc' = "types" /\ report' = report
      BY <1>8, <2>2 DEF ReadInterface
    <3>2. QED
      BY <2>1, <2>2, <3>1 DEF Phases
  <2>3. CASE request.id \notin Rows(tables.interfaces)
    <3>1. pc' = "done"
      BY <1>8, <2>3 DEF ReadInterface, Answer
    <3>2. QED
      BY <3>1 DEF Phases
  <2>4. QED
    BY <2>2, <2>3
<1>9. CASE UNCHANGED vars
  BY <1>9 DEF Phases, vars, checkVars, dagVars
<1>10. QED
  BY <1>1, <1>2, <1>3, <1>4, <1>5, <1>6, <1>7, <1>8, <1>9 DEF ChecksNext

(* The tables a request reads, while others change them *)
LEMMA MomentStep ==
    ASSUME ChecksTypes, Phases, ReadOfAMoment, [ChecksNext]_vars
    PROVE  ReadOfAMoment'
<1>1. CASE Change
  <2>1. /\ UNCHANGED <<got, pc, request, earlier>> /\ changes' = changes + 1
        /\ changes \in Nat
    BY <1>1 DEF Change, ChecksTypes
  <2>2. CASE changes = 0
    <3>1. tables = earlier
      BY <2>2 DEF ReadOfAMoment
    <3>2. \/ tables'.links = tables.links /\ tables'.interfaces = tables.interfaces
          \/ tables'.types = tables.types /\ tables'.interfaces = tables.interfaces
          \/ tables'.types = tables.types /\ tables'.links = tables.links
      BY <1>1, ChangedTables DEF ChecksTypes
    <3>3. QED
      BY <2>1, <2>2, <3>1, <3>2 DEF ReadOfAMoment, ReadAs
  <2>3. CASE changes # 0
    BY <2>1, <2>3 DEF ReadOfAMoment
  <2>4. QED
    BY <2>2, <2>3
<1>2. CASE Open
  BY <1>2 DEF Open, ReadOfAMoment
<1>3. CASE ReadTypes
  <2>1. /\ pc' = "links" /\ got'.types = tables.types
        /\ UNCHANGED <<tables, earlier, changes, request>>
    BY <1>3 DEF ReadTypes, ChecksTypes, Tables
  <2>2. QED
    BY <2>1 DEF ReadOfAMoment, ReadAs
<1>4. CASE ReadLinks
  <2>1. /\ pc = "links" /\ pc' = "interfaces"
        /\ got'.types = got.types /\ got'.links = tables.links
        /\ UNCHANGED <<tables, earlier, changes, request>>
    BY <1>4 DEF ReadLinks, ChecksTypes, Tables
  <2>2. QED
    BY <2>1 DEF ReadOfAMoment, ReadAs
<1>5. CASE ReadForGraph \/ ReadForValidator
  <2>1. /\ pc = "interfaces" /\ pc' \in {"search", "done"}
        /\ got'.types = got.types /\ got'.links = got.links
        /\ got'.interfaces = tables.interfaces
        /\ UNCHANGED <<tables, earlier, changes, request>>
    BY <1>5 DEF ReadForGraph, ReadForValidator, Answer, ChecksTypes, Tables
  <2>2. QED
    BY <2>1 DEF ReadOfAMoment, ReadAs
<1>6. CASE StartSearch \/ GoOn
  BY <1>6 DEF StartSearch, GoOn, checkVars, ReadOfAMoment
<1>7. CASE TellGraph
  <2>1. pc = "search" /\ UNCHANGED <<got, tables, earlier, changes, request>>
    BY <1>7 DEF TellGraph
  <2>2. QED
    BY <2>1 DEF ReadOfAMoment
<1>8. CASE ReadInterface \/ ReadForInterface
  <2>1. /\ request.kind = "interface" /\ UNCHANGED <<tables, earlier, changes, request>>
    BY <1>8 DEF ReadInterface, ReadForInterface, Phases
  <2>2. QED
    BY <2>1 DEF ReadOfAMoment
<1>9. CASE UNCHANGED vars
  BY <1>9 DEF ReadOfAMoment, vars, checkVars
<1>10. QED
  BY <1>1, <1>2, <1>3, <1>4, <1>5, <1>6, <1>7, <1>8, <1>9 DEF ChecksNext
-----------------------------------------------------------------------------
(* What is told of a cycle is so of the tables as they were read *)

(* The steps of a path that is told are what the definitions say *)
LEMMA PathOfDefinitions ==
    ASSUME DagInv, GraphBuilt, Answered, pc = "search", CycleAnswer, answer.list # <<>>,
           NEW path, path = answer.list
    PROVE  /\ path \in Seq(Ids) /\ Len(path) \in Nat /\ Len(path) > 1
           /\ path[1] = path[Len(path)]
           /\ \A i \in 1..(Len(path) - 1) : Depends(got, path[i + 1], path[i])
<1>1. path \in Seq(Ids) /\ Len(path) \in Nat
  BY DEF Answered
<1>2. /\ Len(path) > 1 /\ path[1] = path[Len(path)]
      /\ \A i \in 1..(Len(path) - 1) : path[i + 1] \in dependents[path[i]]
  BY DEF DagInv, SearchInv, CycleReal
<1>3. ASSUME NEW i \in 1..(Len(path) - 1)
      PROVE  Depends(got, path[i + 1], path[i])
  <2>1. i \in 1..Len(path) /\ i + 1 \in 1..Len(path)
    BY <1>1
  <2>2. path[i] \in Ids /\ path[i + 1] \in Ids
    BY <1>1, <2>1, ElementOfSeq
  <2>3. QED
    BY <1>2, <2>2 DEF GraphBuilt
<1>4. QED
  BY <1>1, <1>2, <1>3

LEMMA ToldIsCyclic ==
    ASSUME DagInv, GraphBuilt, Answered, pc = "search", CycleAnswer, answer.list # <<>>
    PROVE  Cyclic(got)
<1> DEFINE path == answer.list
           S == {path[i] : i \in 1..Len(path)}
<1>1. /\ path \in Seq(Ids) /\ Len(path) \in Nat /\ Len(path) > 1
      /\ path[1] = path[Len(path)]
      /\ \A i \in 1..(Len(path) - 1) : Depends(got, path[i + 1], path[i])
  BY PathOfDefinitions
<1> HIDE DEF path
<1>2. S \in SUBSET Ids /\ S # {}
  <2>1. \A i \in 1..Len(path) : path[i] \in Ids
    BY <1>1, ElementOfSeq
  <2>2. 1 \in 1..Len(path)
    BY <1>1
  <2>3. QED
    BY <2>1, <2>2
<1>3. ASSUME NEW i \in 1..Len(path)
      PROVE  \E j \in 1..Len(path) : Depends(got, path[i], path[j])
  <2>1. CASE i = 1
    <3>1. Len(path) - 1 \in 1..(Len(path) - 1) /\ (Len(path) - 1) + 1 = Len(path)
      BY <1>1
    <3>2. Depends(got, path[Len(path)], path[Len(path) - 1])
      BY <1>1, <3>1
    <3>3. Len(path) - 1 \in 1..Len(path)
      BY <1>1
    <3>4. QED
      BY <1>1, <2>1, <3>2, <3>3
  <2>2. CASE i # 1
    <3>1. i - 1 \in 1..(Len(path) - 1) /\ (i - 1) + 1 = i /\ i - 1 \in 1..Len(path)
      BY <1>1, <2>2
    <3>2. QED
      BY <1>1, <3>1
  <2>3. QED
    BY <2>1, <2>2
<1>4. \A n \in S : \E m \in S : Depends(got, n, m)
  <2>1. ASSUME NEW n \in S
        PROVE  \E m \in S : Depends(got, n, m)
    <3>1. PICK i \in 1..Len(path) : n = path[i]
      OBVIOUS
    <3>2. PICK j \in 1..Len(path) : Depends(got, path[i], path[j])
      BY <1>3
    <3>3. QED
      BY <3>1, <3>2
  <2>2. QED
    BY <2>1
<1> HIDE DEF S
<1>5. QED
  BY <1>2, <1>4 DEF Cyclic

LEMMA CyclicIsReached ==
    ASSUME DagInv, GraphBuilt, pc = "search", Cyclic(got)
    PROVE  \E n \in nodes : Reaches(n, n)
<1>1. PICK S \in SUBSET Ids : S # {} /\ \A n \in S : \E m \in S : Depends(got, n, m)
  BY DEF Cyclic
<1>2. \A n \in S : \E m \in S : n \in dependents[m]
  BY <1>1 DEF GraphBuilt
<1>3. S \in SUBSET nodes
  BY <1>2 DEF DagInv, SearchInv, GraphInv, Mirrored
<1>4. GraphInv
  BY DEF DagInv, SearchInv
<1>5. QED
  BY <1>1, <1>2, <1>3, <1>4, NoFirst

LEMMA ToldWhenCyclic ==
    ASSUME DagInv, Phases, GraphBuilt, Answered, pc = "search", job = "done"
    PROVE  answer.job # "sort" /\ answer.list # <<>> <=> Cyclic(got)
<1>1. answer.job \in {"cycle", "sort", "sort_cycle"}
  BY DEF Phases
<1>2. CASE answer.job = "sort"
  <2>1. ~Cyclic(got)
    BY <1>2, CyclicIsReached DEF Answered
  <2>2. QED
    BY <1>2, <2>1
<1>3. CASE answer.job # "sort" /\ answer.list = <<>>
  <2>1. CycleAnswer
    BY <1>1, <1>3 DEF CycleAnswer
  <2>2. ~Cyclic(got)
    BY <1>3, <2>1, CyclicIsReached DEF DagInv, SearchInv, NoCycleMissed
  <2>3. QED
    BY <1>3, <2>2
<1>4. CASE answer.job # "sort" /\ answer.list # <<>>
  <2>1. CycleAnswer
    BY <1>1, <1>4 DEF CycleAnswer
  <2>2. QED
    BY <1>4, <2>1, ToldIsCyclic
<1>5. QED
  BY <1>2, <1>3, <1>4

(* What is wrong with some tables depends on nothing else *)
LEMMA SameTables ==
    ASSUME NEW t, NEW u, t.types = u.types, t.links = u.links
    PROVE  /\ Cyclic(t) = Cyclic(u)
           /\ t.interfaces = u.interfaces => Invalid(t) = Invalid(u)
<1>1. \A n, m : Depends(t, n, m) = Depends(u, n, m)
  BY DEF Depends
<1>2. Cyclic(t) = Cyclic(u)
  BY <1>1 DEF Cyclic
<1>3. t.interfaces = u.interfaces => Invalid(t) = Invalid(u)
  BY DEF Invalid
<1>4. QED
  BY <1>2, <1>3

(* Where one table at most has changed, what was read is what was or what is *)
LEMMA AtAMoment ==
    ASSUME NEW t, NEW before, NEW now,
           \/ now.types = before.types /\ now.links = before.links
           \/ now.types = before.types /\ now.interfaces = before.interfaces
           \/ now.links = before.links /\ now.interfaces = before.interfaces,
           ReadAs(t.types, before.types, now.types), ReadAs(t.links, before.links, now.links)
    PROVE  /\ Cyclic(t) = Cyclic(before) \/ Cyclic(t) = Cyclic(now)
           /\ ReadAs(t.interfaces, before.interfaces, now.interfaces) =>
                \/ Invalid(t) = Invalid(before)
                \/ Invalid(t) = Invalid(now)
<1>1. \/ t.types = before.types /\ t.links = before.links
      \/ t.types = now.types /\ t.links = now.links
  BY DEF ReadAs
<1>2. ReadAs(t.interfaces, before.interfaces, now.interfaces) =>
        \/ /\ t.types = before.types /\ t.links = before.links
           /\ t.interfaces = before.interfaces
        \/ /\ t.types = now.types /\ t.links = now.links
           /\ t.interfaces = now.interfaces
  BY DEF ReadAs
<1>3. QED
  BY <1>1, <1>2, SameTables

LEMMA InvalidHasErrors ==
    ASSUME NEW t
    PROVE  StaticErrors(t) # {} <=> Invalid(t)
<1>1. ObjectTypeErrors(t) # {} <=> \E x \in Rows(t.types) : t.types[x].flawed
  BY DEF ObjectTypeErrors
<1>2. LinkTypeErrors(t) # {} <=> \E x \in Rows(t.links) : t.links[x].flawed
  BY DEF LinkTypeErrors
<1>3. MissingProperties(t) # {} <=>
        \E x \in Rows(t.types) : \E i \in Rows(t.interfaces) \cap t.types[x].implements :
            \E p \in t.interfaces[i].named : p \notin t.types[x].properties
  BY DEF MissingProperties, Demanded
<1>4. QED
  BY <1>1, <1>2, <1>3 DEF StaticErrors, Invalid

(* The reports *)
LEMMA GraphReported ==
    ASSUME ChecksInv, TellGraph
    PROVE  ReportOfRead' /\ ReportOfAMoment'
<1>1. /\ pc = "search" /\ job = "done" /\ request.kind \in {"cycle", "order"}
      /\ UNCHANGED <<tables, got, earlier, changes, request>>
      /\ report'.kind = request.kind
      /\ report'.errors # {} <=> answer.job # "sort" /\ answer.list # <<>>
  BY DEF ChecksInv, Phases, TellGraph, Answer
<1>2. ReportOfRead'
  BY <1>1 DEF ReportOfRead
<1>3. report'.errors # {} <=> Cyclic(got)
  BY <1>1, ToldWhenCyclic DEF ChecksInv
<1>4. ASSUME changes <= 1
      PROVE  \/ (report'.errors # {}) = Cyclic(earlier)
             \/ (report'.errors # {}) = Cyclic(tables)
  <2>1. Cyclic(got) = Cyclic(earlier) \/ Cyclic(got) = Cyclic(tables)
    BY <1>1, <1>4, AtAMoment DEF ChecksInv, ReadOfAMoment
  <2>2. Cyclic(got) \in BOOLEAN /\ Cyclic(earlier) \in BOOLEAN /\ Cyclic(tables) \in BOOLEAN
    BY DEF Cyclic
  <2>3. QED
    BY <1>3, <2>1, <2>2
<1>5. Cyclic(earlier)' = Cyclic(earlier) /\ Cyclic(tables)' = Cyclic(tables)
  BY <1>1
<1>6. ReportOfAMoment'
  BY <1>1, <1>4, <1>5 DEF ReportOfAMoment
<1>7. QED
  BY <1>2, <1>6

LEMMA ValidatorReported ==
    ASSUME ChecksInv, ReadOfAMoment', ReadForValidator
    PROVE  ReportOfRead' /\ ReportOfAMoment'
<1>1. /\ pc' = "done" /\ request.kind = "validate"
      /\ UNCHANGED <<tables, earlier, changes, request>>
      /\ report'.kind = "validate" /\ report'.errors = StaticErrors(got')
  BY DEF ReadForValidator, Answer
<1>2. ReportOfRead'
  BY <1>1 DEF ReportOfRead
<1>3. report'.errors # {} <=> Invalid(got')
  BY <1>1, InvalidHasErrors
<1>4. ASSUME changes <= 1
      PROVE  \/ (report'.errors # {}) = Invalid(earlier)
             \/ (report'.errors # {}) = Invalid(tables)
  <2>1. /\ \/ tables.types = earlier.types /\ tables.links = earlier.links
           \/ tables.types = earlier.types /\ tables.interfaces = earlier.interfaces
           \/ tables.links = earlier.links /\ tables.interfaces = earlier.interfaces
        /\ ReadAs(got'.types, earlier.types, tables.types)
        /\ ReadAs(got'.links, earlier.links, tables.links)
        /\ ReadAs(got'.interfaces, earlier.interfaces, tables.interfaces)
    BY <1>1, <1>4 DEF ReadOfAMoment
  <2>2. Invalid(got') = Invalid(earlier) \/ Invalid(got') = Invalid(tables)
    BY <2>1, AtAMoment
  <2>3. Invalid(got') \in BOOLEAN /\ Invalid(earlier) \in BOOLEAN /\ Invalid(tables) \in BOOLEAN
    BY DEF Invalid
  <2>4. QED
    BY <1>3, <2>2, <2>3
<1>5. Invalid(earlier)' = Invalid(earlier) /\ Invalid(tables)' = Invalid(tables)
  BY <1>1
<1>6. QED
  BY <1>1, <1>2, <1>4, <1>5 DEF ReportOfAMoment

LEMMA InterfaceReported ==
    ASSUME ChecksInv, ReadForInterface
    PROVE  ReportOfRead' /\ ReportOfAMoment'
<1> DEFINE i == request.id
<1>1. /\ pc = "links" /\ request.kind = "interface" /\ request' = request
      /\ got'.types = got.types /\ got'.interfaces = got.interfaces
      /\ i \in Rows(got.interfaces)
  BY DEF ReadForInterface, ChecksInv, ChecksTypes, Tables, Phases
<1>2. Failing(got', i) = Failing(got, i)
  BY <1>1 DEF Failing, Implementing
<1>3. report'.kind = "interface"
      /\ (report'.outcome = "ok" => report'.errors = Failing(got, i))
  BY <1>1 DEF ReadForInterface, Answer
<1>4. ReportOfRead'
  BY <1>1, <1>2, <1>3 DEF ReportOfRead
<1>5. QED
  BY <1>3, <1>4 DEF ReportOfAMoment

LEMMA ReportStep ==
    ASSUME ChecksInv, ReadOfAMoment', [ChecksNext]_vars
    PROVE  ReportOfRead' /\ ReportOfAMoment'
<1>1. CASE Change \/ Open \/ ReadTypes \/ ReadLinks \/ ReadForGraph \/ StartSearch \/ GoOn
  <2>1. pc # "done" /\ report' = report
    BY <1>1 DEF Change, Open, ReadTypes, ReadLinks, ReadForGraph, StartSearch, GoOn, checkVars
  <2>2. report' = Silent
    BY <2>1 DEF ChecksInv, Phases
  <2>3. QED
    BY <2>2 DEF ReportOfRead, ReportOfAMoment, Silent
<1>2. CASE ReadInterface
  <2>1. report' = Silent \/ (report'.kind = "interface" /\ report'.outcome = "not_found")
    BY <1>2 DEF ReadInterface, Answer, ChecksInv, Phases
  <2>2. QED
    BY <2>1 DEF ReportOfRead, ReportOfAMoment, Silent
<1>3. CASE UNCHANGED vars
  <2>1. UNCHANGED <<report, got, request, tables, earlier, changes>>
    BY <1>3 DEF vars, checkVars
  <2>2. ReportOfRead'
    BY <2>1 DEF ChecksInv, ReportOfRead, Failing, Implementing
  <2>3. Cyclic(earlier)' = Cyclic(earlier) /\ Cyclic(tables)' = Cyclic(tables)
    BY <2>1
  <2>4. Invalid(earlier)' = Invalid(earlier) /\ Invalid(tables)' = Invalid(tables)
    BY <2>1
  <2>5. QED
    BY <2>1, <2>2, <2>3, <2>4 DEF ChecksInv, ReportOfAMoment
<1>4. QED
  BY <1>1, <1>2, <1>3, GraphReported, ValidatorReported, InterfaceReported DEF ChecksNext

LEMMA ChecksBegin == ChecksInit => ChecksInv
<1> SUFFICES ASSUME ChecksInit
             PROVE  ChecksInv
  OBVIOUS
<1>1. DagInv
  BY SearchBegins, TellBegins DEF ChecksInit, DagInv
<1>2. ChecksTypes /\ Phases
  BY NoTablesType, ChecksAssumption DEF ChecksInit, Init, ChecksTypes, Phases
<1>3. GraphBuilt /\ Answered
  BY DEF ChecksInit, Init, GraphBuilt, Answered, CycleAnswer, NoAnswer
<1>4. ReadOfAMoment /\ ReportOfRead /\ ReportOfAMoment
  BY DEF ChecksInit, ReadOfAMoment, ReportOfRead, ReportOfAMoment, NoRequest, Silent
<1>5. QED
  BY <1>1, <1>2, <1>3, <1>4 DEF ChecksInv

LEMMA ChecksStep == ChecksInv /\ [ChecksNext]_vars => ChecksInv'
<1> SUFFICES ASSUME ChecksInv, [ChecksNext]_vars
             PROVE  ChecksInv'
  OBVIOUS
<1>1. DagInv' /\ GraphBuilt' /\ Answered' /\ ChecksTypes' /\ Phases' /\ ReadOfAMoment'
  BY DagStep, TypesStep, PhasesStep, MomentStep DEF ChecksInv
<1>2. ReportOfRead' /\ ReportOfAMoment'
  BY <1>1, ReportStep
<1>3. QED
  BY <1>1, <1>2 DEF ChecksInv

LEMMA ChecksCorrect == ChecksSpec => []ChecksInv
BY ChecksBegin, ChecksStep, PTL DEF ChecksSpec

(* What GET /dag/cycle, the compile order and POST /compile/validate report of
   tables that they read one after the other was so before the request or is so
   after it, as long as one definition at most was committed meanwhile: there is a
   cycle when one is told, and an error when one is. *)
THEOREM ReportsAreOfAMoment == ChecksSpec => []ReportOfAMoment
BY ChecksCorrect, PTL DEF ChecksInv

(* A cycle that is told leads along what the definitions say and through an object
   type that claims to implement an object type or a link type: the ends of a link
   type are object types, and interfaces depend on nothing. *)
THEOREM CyclesAreMisuse == ChecksSpec => []CycleIsMisuse
<1>1. ASSUME ChecksInv
      PROVE  CycleIsMisuse
  <2> SUFFICES ASSUME pc = "search", CycleAnswer, answer.list # <<>>
               PROVE  LET path == answer.list IN
                      /\ \A i \in 1..(Len(path) - 1) : Depends(got, path[i + 1], path[i])
                      /\ \E i \in 2..Len(path) :
                          path[i] \in TypeIds /\ path[i - 1] \in TypeIds \cup LinkIds
    BY DEF CycleIsMisuse, CycleAnswer
  <2> DEFINE path == answer.list
  <2>1. /\ Len(path) \in Nat /\ Len(path) > 1
        /\ path[1] = path[Len(path)]
        /\ \A i \in 1..(Len(path) - 1) : Depends(got, path[i + 1], path[i])
    BY <1>1, PathOfDefinitions DEF ChecksInv
  <2> HIDE DEF path
  <2>2. ASSUME NEW i \in 1..(Len(path) - 1)
        PROVE  \/ path[i + 1] \in TypeIds
               \/ path[i + 1] \in LinkIds /\ path[i] \in TypeIds
    <3>1. Depends(got, path[i + 1], path[i]) /\ got \in Tables
      BY <1>1, <2>1 DEF ChecksInv, ChecksTypes
    <3>2. QED
      BY <3>1, DependsOn
  <2>3. \A i \in 2..Len(path) : path[i] \in TypeIds \cup LinkIds
    <3>1. ASSUME NEW i \in 2..Len(path)
          PROVE  path[i] \in TypeIds \cup LinkIds
      <4>1. i - 1 \in 1..(Len(path) - 1) /\ (i - 1) + 1 = i
        BY <2>1
      <4>2. QED
        BY <2>2, <4>1
    <3>2. QED
      BY <3>1
  <2>4. path[1] \in TypeIds \cup LinkIds
    BY <2>1, <2>3
  <2>5. CASE path[2] \in TypeIds
    <3>1. 2 \in 2..Len(path) /\ 2 - 1 = 1
      BY <2>1
    <3>2. QED
      BY <2>1, <2>4, <2>5, <3>1 DEF path
  <2>6. CASE path[2] \notin TypeIds
    <3>1. 1 \in 1..(Len(path) - 1) /\ 1 + 1 = 2
      BY <2>1
    <3>2. path[2] \in LinkIds /\ path[1] \in TypeIds
      BY <2>2, <2>6, <3>1
    <3>3. Len(path) # 2
      BY <2>1, <2>6, <3>2
    <3>4. /\ Len(path) \in 2..Len(path) /\ Len(path) - 1 \in 2..Len(path)
      <4>1. \A n \in Nat : n > 1 /\ n # 2 => n \in 2..n /\ n - 1 \in 2..n
        OBVIOUS
      <4>2. Len(path) \in Nat /\ Len(path) > 1
        BY <2>1
      <4>3. QED
        BY <3>3, <4>1, <4>2
    <3>5. path[Len(path)] \in TypeIds /\ path[Len(path) - 1] \in TypeIds \cup LinkIds
      BY <2>1, <2>3, <3>2, <3>4
    <3>6. QED
      BY <2>1, <3>4, <3>5 DEF path
  <2>7. QED
    BY <2>5, <2>6
<1>2. QED
  BY <1>1, ChecksCorrect, PTL

(* The two validators agree on what they both look at: a type that fails an
   interface for its properties is one that POST /compile/validate reports for the
   same tables, and one that passes has all that is required and no link to
   prove. *)
THEOREM ValidatorsAgree == ChecksSpec => []ChecksAgree
<1>1. ASSUME ChecksInv
      PROVE  ChecksAgree
  <2> SUFFICES ASSUME report.kind = "interface", report.outcome = "ok",
                      NEW x \in Rows(got.types)
               PROVE  IF <<"fails", x>> \in report.errors
                      THEN \/ got.interfaces[request.id].link
                           \/ <<"missing_property", x>> \in StaticErrors(got)
                      ELSE /\ got.types[x].status = "active"
                           /\ request.id \in got.types[x].implements
                           => /\ got.interfaces[request.id].required \subseteq
                                    got.types[x].properties
                              /\ ~got.interfaces[request.id].link
    BY DEF ChecksAgree
  <2> DEFINE i == request.id
             interface == got.interfaces[i]
  <2>1. i \in Rows(got.interfaces) /\ report.errors = Failing(got, i)
    BY <1>1 DEF ChecksInv, ReportOfRead
  <2>2. interface.required \subseteq interface.named
    BY <1>1, <2>1, RowsOf DEF ChecksInv, ChecksTypes, InterfaceRow
  <2>3. <<"fails", x>> \in report.errors <=>
            /\ got.types[x].status = "active" /\ i \in got.types[x].implements
            /\ \/ ~(interface.required \subseteq got.types[x].properties)
               \/ interface.link
    BY <2>1 DEF Failing, Implementing
  <2>4. ASSUME <<"fails", x>> \in report.errors, ~interface.link
        PROVE  <<"missing_property", x>> \in StaticErrors(got)
    <3>1. i \in got.types[x].implements /\ ~(interface.named \subseteq got.types[x].properties)
      BY <2>2, <2>3, <2>4
    <3>2. <<"missing_property", x>> \in MissingProperties(got)
      BY <2>1, <3>1 DEF MissingProperties, Demanded
    <3>3. QED
      BY <3>2 DEF StaticErrors
  <2>5. QED
    BY <2>3, <2>4
<1>2. QED
  BY <1>1, ChecksCorrect, PTL
=============================================================================
