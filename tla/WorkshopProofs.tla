--------------------------- MODULE WorkshopProofs ---------------------------
(* Theorems about Workshop, for graphs of any size and shape, and about the small
   interpreters beside it, for expressions of any size and shape.

   The first part is about the sort alone (OrderInv): it is stated for a step of
   OrderNext, and for one that leaves the sort's variables alone.  The second
   part is about the run that walks the order found (Inv), the third about what a
   Filter node keeps (FilterInv).  The fourth compares the evaluator of rules with
   Python, node by node (AllAgree), the fifth is about what joining the lines of a
   policy does (LinesHold), and the last about the calls of both (JobInv). *)
EXTENDS Workshop, RuleExpressions, FiniteSetTheorems, SequenceTheorems, TLAPS

-----------------------------------------------------------------------------
(* The inductive invariant of the sort *)

Depth == 1..Len(stack)

(* The calls under way are those of the gray ids, one each *)
FramesDistinct == \A j, k \in Depth : stack[j].node = stack[k].node => j = k

GrayOnStack == \A n \in Ids : color[n] = "gray" <=> \E k \in Depth : stack[k].node = n

(* A frame has dealt with the edges before its next one: they lead to ids that are
   finished, or entered by a later call *)
EdgesPassed ==
    \A k \in Depth : \A i \in Edges :
        Source(i) = stack[k].node /\ i < stack[k].next =>
            \/ cyclic
            \/ color[Target(i)] = "black"
            \/ \E j \in Depth : k < j /\ stack[j].node = Target(i)

PostsBelow == \A n \in Ids : color[n] = "black" => post[n] < counter

PostsDiffer ==
    \A m, n \in Ids :
        color[m] = "black" /\ color[n] = "black" /\ post[m] = post[n] => m = n

(* Along the stack any heights fall, for each call was made along an edge *)
HeightsFall ==
    \A h \in Heights : \A j, k \in Depth :
        j < k => h[stack[k].node] < h[stack[j].node]

(* What the second loop has passed is not white *)
NodesVisited ==
    \A i \in 1..NodeCount : NodeCount + i < at => color[graph.nodes[i].id] # "white"

OrderInv ==
    /\ OrderTypeOK
    /\ FramesDistinct
    /\ GrayOnStack
    /\ EdgesPassed
    /\ PostsBelow
    /\ PostsDiffer
    /\ EdgesDescend
    /\ HeightsFall
    /\ CycleIsReal
    /\ NodesVisited

-----------------------------------------------------------------------------
(* The sort *)

LEMMA GraphTypes ==
    ASSUME OrderTypeOK
    PROVE  /\ NodeCount \in Nat
           /\ Len(graph.edges) \in Nat
           /\ \A i \in 1..NodeCount : graph.nodes[i].id \in Ids
           /\ \A i \in Edges : Source(i) \in Ids /\ Target(i) \in Ids
           /\ \A h \in Heights : \A n \in Ids : h[n] \in Nat
<1>1. graph.nodes \in Seq(Node) /\ graph.edges \in Seq(Edge)
  BY GraphAssumption DEF OrderTypeOK, Graph
<1>2. Cardinality(Ids) \in Nat
  BY GraphAssumption, FS_CardinalityType
<1>3. /\ NodeCount \in Nat
      /\ \A i \in 1..NodeCount : graph.nodes[i] \in Node
  BY <1>1 DEF NodeCount
<1>4. /\ Len(graph.edges) \in Nat
      /\ \A i \in Edges : graph.edges[i] \in Edge
  BY <1>1 DEF Edges
<1>5. \A i \in Edges : Source(i) \in Ids /\ Target(i) \in Ids
  BY <1>4 DEF Edge, Source, Target
<1>6. \A h \in Heights : \A n \in Ids : h[n] \in Nat
  BY <1>2 DEF Heights
<1> QED
  BY <1>3, <1>4, <1>5, <1>6 DEF Node

LEMMA OrderStart == OrderInit => OrderInv
<1> SUFFICES ASSUME OrderInit
             PROVE  OrderInv
  OBVIOUS
<1>1. NodeCount \in Nat
  BY GraphAssumption DEF OrderInit, Graph, NodeCount
<1>2. OrderTypeOK
  <2>1. 1 \in 1..(2 * NodeCount + 1)
    BY <1>1
  <2>2. stack \in Seq(Frame)
    BY DEF OrderInit
  <2> QED
    BY <2>1, <2>2 DEF OrderInit, OrderTypeOK, Colors
<1>3. Depth = {} /\ \A n \in Ids : color[n] = "white"
  BY DEF OrderInit, Depth
<1>4. NodesVisited
  BY <1>1 DEF OrderInit, NodesVisited
<1> QED
  BY <1>2, <1>3, <1>4, GraphTypes
  DEF OrderInit, OrderInv, FramesDistinct, GrayOnStack, EdgesPassed, PostsBelow, PostsDiffer,
      EdgesDescend, HeightsFall, CycleIsReal

(* The current node of the loops is a node, and so is the id of a frame *)
LEMMA CurrentIsNode ==
    ASSUME OrderTypeOK, at <= 2 * NodeCount
    PROVE  Current \in Ids
<1>1. NodeCount \in Nat /\ at \in 1..(2 * NodeCount)
  BY GraphTypes DEF OrderTypeOK
<1>2. (IF at <= NodeCount THEN at ELSE at - NodeCount) \in 1..NodeCount
  BY <1>1
<1> QED
  BY <1>2, GraphTypes DEF Current

(* What visit(n) does to the invariant.  The frames it is called with are those of
   the stack, but for the next edge of the last, which leads to n. *)
LEMMA VisitStep ==
    ASSUME OrderInv, NEW n \in Ids, NEW frames \in Seq(Frame), Visit(n, frames),
           Len(frames) = Len(stack),
           \A k \in Depth : frames[k].node = stack[k].node,
           \A k \in Depth : \A i \in Edges :
               Source(i) = stack[k].node /\ i < frames[k].next
                   => i < stack[k].next \/ Target(i) = n,
           \A h \in Heights : \A k \in Depth : h[n] < h[stack[k].node],
           at' \in 1..(2 * NodeCount + 1),
           \A i \in 1..NodeCount : NodeCount + i < at' =>
               NodeCount + i < at \/ graph.nodes[i].id = n
    PROVE  OrderInv'
<1> USE DEF OrderInv
<1>1. /\ graph' = graph /\ post' = post /\ counter' = counter
      /\ cyclic' = (cyclic \/ color[n] = "gray")
      /\ cyclic' \in BOOLEAN
      /\ color[n] # "gray" => cyclic' = cyclic
  <2>1. cyclic \in BOOLEAN
    BY DEF OrderTypeOK
  <2> QED
    BY <2>1 DEF Visit
<1>2. /\ Len(stack) \in Nat /\ Depth = 1..Len(stack)
      /\ \A k \in Depth : stack[k] \in Frame
      /\ \A k \in Depth : frames[k] \in Frame
      /\ stack \in Seq(Frame)
  BY DEF OrderTypeOK, Depth
<1>3. color \in [Ids -> Colors]
  BY DEF OrderTypeOK
<1>4. CycleIsReal'
  <2>1. Heights' = Heights
    BY <1>1 DEF Heights, Edges, Source, Target
  <2>2. ASSUME color[n] = "gray" PROVE Heights = {}
    <3>1. PICK k \in Depth : stack[k].node = n
      BY <2>2 DEF GrayOnStack
    <3>2. \A h \in Heights : h[n] < h[n] /\ h[n] \in Nat
      BY <3>1, GraphTypes
    <3> QED
      BY <3>2
  <2> QED
    BY <1>1, <2>1, <2>2 DEF CycleIsReal
<1>a. CASE color[n] = "white"
  <2> DEFINE new == [node |-> n, next |-> 1]
  <2>1. /\ color' = [color EXCEPT ![n] = "gray"]
        /\ stack' = Append(frames, new)
        /\ cyclic' = cyclic
    BY <1>1, <1>a DEF Visit
  <2>2. new \in Frame /\ new.node = n /\ new.next = 1
    BY DEF Frame
  <2> HIDE DEF new
  <2>3. /\ Len(stack') = Len(stack) + 1
        /\ \A k \in Depth : stack'[k] = frames[k] /\ stack'[k].node = stack[k].node
        /\ stack'[Len(stack) + 1] = new
        /\ stack' \in Seq(Frame)
    BY <2>1, <2>2, <1>2 DEF Depth
  <2>4. Depth' = Depth \cup {Len(stack) + 1} /\ Len(stack) + 1 \notin Depth
    BY <2>3, <1>2 DEF Depth
  <2>5. \A m \in Ids : color'[m] = IF m = n THEN "gray" ELSE color[m]
    BY <2>1, <1>3
  <2>6. \A k \in Depth : stack[k].node # n
    BY <1>a DEF GrayOnStack
  <2>7. OrderTypeOK'
    BY <1>1, <1>3, <2>1, <2>3 DEF OrderTypeOK, NodeCount, Colors
  <2>8. FramesDistinct'
    BY <2>2, <2>3, <2>4, <2>6 DEF FramesDistinct
  <2>9. GrayOnStack'
    BY <2>2, <2>3, <2>4, <2>5, <2>6 DEF GrayOnStack
  <2>10. EdgesPassed'
    <3> SUFFICES ASSUME NEW k \in Depth', NEW i \in Edges',
                        Source(i)' = stack'[k].node, i < stack'[k].next
                 PROVE  \/ cyclic'
                        \/ color'[Target(i)'] = "black"
                        \/ \E j \in Depth' : k < j /\ stack'[j].node = Target(i)'
      BY DEF EdgesPassed
    <3>0. cyclic' = cyclic /\ color \in [Ids -> Colors]
      BY <2>1, <1>3
    <3>1. i \in Edges /\ Source(i)' = Source(i) /\ Target(i)' = Target(i) /\ Target(i) \in Ids
      BY <1>1, GraphTypes DEF Edges, Source, Target
    <3>2. k \in Depth
      BY <2>2, <2>3, <2>4, <3>1, GraphTypes DEF Edges
    <3>3. i < frames[k].next /\ Source(i) = stack[k].node
      BY <2>3, <3>1, <3>2
    <3>4. CASE Target(i) = n
      BY <3>1, <3>2, <3>4, <2>2, <2>3, <2>4, <1>2 DEF Depth
    <3>5. CASE Target(i) # n /\ i < stack[k].next
      BY <3>0, <3>1, <3>2, <3>3, <3>5, <2>3, <2>4, <2>5, <2>6, <1>a DEF EdgesPassed
    <3> QED
      BY <3>2, <3>3, <3>4, <3>5, <3>1
  <2>11. PostsBelow' /\ PostsDiffer'
    BY <1>1, <2>5 DEF PostsBelow, PostsDiffer
  <2>12. EdgesDescend'
    <3>1. \A m \in Ids : color[m] = "black" <=> color'[m] = "black"
      BY <1>a, <2>5
    <3> QED
      BY <1>1, <2>1, <3>1, GraphTypes DEF EdgesDescend, Edges, Source, Target
  <2>13. HeightsFall'
    <3> SUFFICES ASSUME NEW h \in Heights, NEW j \in Depth', NEW k \in Depth', j < k
                 PROVE  h[stack'[k].node] < h[stack'[j].node]
      BY <1>1 DEF HeightsFall, Heights, Edges, Source, Target
    <3>1. j \in Depth
      BY <2>4, <1>2 DEF Depth
    <3> QED
      BY <3>1, <2>2, <2>3, <2>4 DEF HeightsFall
  <2>14. NodesVisited'
    BY <1>1, <2>5, GraphTypes DEF NodesVisited, NodeCount
  <2> QED
    BY <1>4, <2>7, <2>8, <2>9, <2>10, <2>11, <2>12, <2>13, <2>14
<1>b. CASE color[n] # "white"
  <2>1. color' = color /\ stack' = frames /\ Depth' = Depth
    BY <1>b, <1>2 DEF Visit, Depth
  <2>2. OrderTypeOK'
    BY <1>1, <1>3, <2>1 DEF OrderTypeOK, NodeCount
  <2>3. FramesDistinct' /\ GrayOnStack'
    BY <2>1 DEF FramesDistinct, GrayOnStack
  <2>4. EdgesPassed'
    <3>1. color[n] = "black" \/ cyclic'
      BY <1>1, <1>b, <1>3 DEF Colors
    <3>2. cyclic => cyclic'
      BY <1>1
    <3>3. /\ Edges' = Edges
          /\ \A i \in Edges : Source(i)' = Source(i) /\ Target(i)' = Target(i)
      BY <1>1 DEF Edges, Source, Target
    <3> QED
      BY <2>1, <3>1, <3>2, <3>3 DEF EdgesPassed
  <2>5. PostsBelow' /\ PostsDiffer'
    BY <1>1, <2>1 DEF PostsBelow, PostsDiffer
  <2>6. EdgesDescend'
    BY <1>1, <2>1 DEF EdgesDescend, Edges, Source, Target
  <2>7. HeightsFall'
    BY <1>1, <2>1 DEF HeightsFall, Heights, Edges, Source, Target
  <2>8. NodesVisited'
    BY <1>1, <1>b, <2>1 DEF NodesVisited, NodeCount
  <2> QED
    BY <1>4, <2>2, <2>3, <2>4, <2>5, <2>6, <2>7, <2>8
<1> QED
  BY <1>a, <1>b

LEMMA StartStep == OrderInv /\ Start => OrderInv'
<1> SUFFICES ASSUME OrderInv, Start
             PROVE  OrderInv'
  OBVIOUS
<1>1. OrderTypeOK /\ stack = <<>> /\ at <= 2 * NodeCount /\ Visit(Current, <<>>) /\ at' = at + 1
  BY DEF OrderInv, Start, Looping
<1>2. NodeCount \in Nat /\ at \in 1..(2 * NodeCount)
  BY <1>1, GraphTypes DEF OrderTypeOK
<1>3. Current \in Ids
  BY <1>1, CurrentIsNode
<1>4. Depth = {} /\ <<>> \in Seq(Frame) /\ Len(<<>>) = Len(stack)
  BY <1>1 DEF Depth
<1>5. \A i \in 1..NodeCount : NodeCount + i < at' =>
          NodeCount + i < at \/ graph.nodes[i].id = Current
  <2> SUFFICES ASSUME NEW i \in 1..NodeCount, NodeCount + i = at
               PROVE  graph.nodes[i].id = Current
    BY <1>1, <1>2
  <2> QED
    BY <1>2 DEF Current
<1>6. at' \in 1..(2 * NodeCount + 1)
  BY <1>1, <1>2
<1> QED
  BY <1>1, <1>3, <1>4, <1>5, <1>6, VisitStep

LEMMA SkipStep == OrderInv /\ Skip => OrderInv'
<1> SUFFICES ASSUME OrderInv, Skip
             PROVE  OrderInv'
  OBVIOUS
<1> USE DEF OrderInv
<1>1. /\ OrderTypeOK /\ stack = <<>> /\ at <= 2 * NodeCount /\ ~Visited /\ at' = at + 1
      /\ UNCHANGED <<graph, color, stack, post, counter, cyclic>>
  BY DEF Skip, Looping
<1>2. NodeCount \in Nat /\ at \in 1..(2 * NodeCount)
  BY <1>1, GraphTypes DEF OrderTypeOK
<1>3. OrderTypeOK'
  <2>1. at' \in 1..(2 * NodeCount + 1)
    BY <1>1, <1>2
  <2> QED
    BY <1>1, <2>1 DEF OrderTypeOK, NodeCount
<1>4. NodesVisited'
  <2> SUFFICES ASSUME NEW i \in 1..NodeCount, NodeCount + i < at + 1
               PROVE  color[graph.nodes[i].id] # "white"
    BY <1>1 DEF NodesVisited, NodeCount
  <2>1. CASE NodeCount + i < at
    BY <2>1 DEF NodesVisited
  <2>2. CASE NodeCount + i = at
    BY <1>1, <1>2, <2>2 DEF Visited, Current
  <2> QED
    BY <1>2, <2>1, <2>2
<1>5. FramesDistinct' /\ GrayOnStack' /\ PostsBelow' /\ PostsDiffer'
  BY <1>1 DEF FramesDistinct, GrayOnStack, PostsBelow, PostsDiffer, Depth
<1>6. EdgesPassed' /\ EdgesDescend'
  BY <1>1 DEF EdgesPassed, EdgesDescend, Depth, Edges, Source, Target
<1>7. HeightsFall' /\ CycleIsReal'
  BY <1>1 DEF HeightsFall, CycleIsReal, Heights, Depth, Edges, Source, Target
<1> QED
  BY <1>3, <1>4, <1>5, <1>6, <1>7

LEMMA FollowStep == OrderInv /\ Follow => OrderInv'
<1> SUFFICES ASSUME OrderInv, Follow
             PROVE  OrderInv'
  OBVIOUS
<1> DEFINE d == Len(stack)
<1>1. OrderTypeOK /\ HeightsFall /\ NodesVisited
  BY DEF OrderInv
<1>2. /\ stack \in Seq(Frame) /\ d \in Nat /\ Depth = 1..d /\ d \in Depth
      /\ stack[d] = Top /\ Top \in Frame
  BY <1>1 DEF OrderTypeOK, Depth, Follow, Top
<1>3. PICK i \in Ahead : /\ \A j \in Ahead : i <= j
                         /\ Visit(Target(i), [stack EXCEPT ![d].next = i + 1])
  BY DEF Follow
<1>4. i \in Edges /\ i >= Top.next /\ Source(i) = Top.node /\ Target(i) \in Ids
  BY <1>1, <1>3, GraphTypes DEF Ahead
<1>5. Edges \subseteq Nat
  BY <1>1, GraphTypes DEF Edges
<1> DEFINE moved == [node |-> Top.node, next |-> i + 1]
           frames == [stack EXCEPT ![d].next = i + 1]
<1>6. /\ frames = [stack EXCEPT ![d] = moved]
      /\ moved \in Frame /\ moved.node = Top.node /\ moved.next = i + 1
  <2>1. stack[d] = [node |-> Top.node, next |-> Top.next]
    BY <1>2 DEF Frame
  <2>2. [stack[d] EXCEPT !.next = i + 1] = moved
    BY <2>1
  <2>3. moved \in Frame
    BY <1>2, <1>4, <1>5 DEF Frame
  <2> QED
    BY <2>2, <2>3
<1> HIDE DEF moved
<1>7. /\ frames \in Seq(Frame) /\ Len(frames) = Len(stack)
      /\ \A k \in Depth : frames[k] = IF k = d THEN moved ELSE stack[k]
  BY <1>2, <1>6
<1> HIDE DEF frames
<1>8. \A k \in Depth : frames[k].node = stack[k].node
  BY <1>2, <1>6, <1>7
<1>9. \A k \in Depth : \A j \in Edges :
          Source(j) = stack[k].node /\ j < frames[k].next
              => j < stack[k].next \/ Target(j) = Target(i)
  <2> SUFFICES ASSUME NEW j \in Edges, Source(j) = Top.node, j < i + 1, ~(j < Top.next)
               PROVE  j = i
    BY <1>2, <1>6, <1>7
  <2>1. Top.next \in Nat
    BY <1>2 DEF Frame
  <2>2. j \in Ahead
    BY <1>5, <2>1 DEF Ahead
  <2> QED
    BY <1>3, <1>4, <1>5, <2>2
<1>10. \A h \in Heights : \A k \in Depth : h[Target(i)] < h[stack[k].node]
  <2> SUFFICES ASSUME NEW h \in Heights, NEW k \in Depth
               PROVE  h[Target(i)] < h[stack[k].node]
    OBVIOUS
  <2>1. h[Source(i)] > h[Target(i)]
    BY <1>4 DEF Heights
  <2>2. stack[k].node \in Ids /\ \A n \in Ids : h[n] \in Nat
    <3>1. stack[k] \in Frame
      BY <1>2
    <3>2. \A n \in Ids : h[n] \in Nat
      BY <1>1, GraphTypes
    <3> QED
      BY <3>1, <3>2 DEF Frame
  <2>3. CASE k = d
    BY <1>2, <1>4, <2>1, <2>2, <2>3
  <2>4. CASE k < d
    <3>1. h[stack[d].node] < h[stack[k].node]
      BY <1>1, <1>2, <2>4 DEF HeightsFall
    <3> QED
      BY <1>2, <1>4, <2>1, <2>2, <3>1, GraphTypes, <1>1 DEF Frame
  <2> QED
    BY <1>2, <2>3, <2>4
<1>11. at' = at /\ at' \in 1..(2 * NodeCount + 1)
  BY <1>1 DEF Follow, OrderTypeOK
<1>12. Visit(Target(i), frames)
  BY <1>3 DEF frames
<1> QED
  BY <1>4, <1>7, <1>8, <1>9, <1>10, <1>11, <1>12, VisitStep

LEMMA LeaveStep == OrderInv /\ Leave => OrderInv'
<1> SUFFICES ASSUME OrderInv, Leave
             PROVE  OrderInv'
  OBVIOUS
<1> DEFINE d == Len(stack)
           done == Top.node
<1>1. /\ OrderTypeOK /\ FramesDistinct /\ GrayOnStack /\ EdgesPassed /\ PostsBelow
      /\ PostsDiffer /\ EdgesDescend /\ HeightsFall /\ CycleIsReal /\ NodesVisited
  BY DEF OrderInv
<1>2. /\ stack \in Seq(Frame) /\ d \in Nat /\ Depth = 1..d /\ d \in Depth
      /\ stack[d].node = done /\ done \in Ids /\ Top.next \in Nat
  <2>1. stack \in Seq(Frame) /\ stack # <<>>
    BY <1>1 DEF OrderTypeOK, Leave
  <2>2. d \in Nat /\ d \in 1..d /\ stack[d] \in Frame
    BY <2>1
  <2> QED
    BY <2>1, <2>2 DEF Depth, Top, Frame
<1>3. /\ color' = [color EXCEPT ![done] = "black"]
      /\ post' = [post EXCEPT ![done] = counter]
      /\ counter' = counter + 1
      /\ stack' = SubSeq(stack, 1, d - 1)
      /\ UNCHANGED <<graph, at, cyclic>>
      /\ Ahead = {}
  BY DEF Leave
<1>4. color \in [Ids -> Colors] /\ post \in [Ids -> Nat] /\ counter \in Nat
  BY <1>1 DEF OrderTypeOK
<1>5. /\ stack' \in Seq(Frame) /\ Len(stack') = d - 1
      /\ Depth' = Depth \ {d}
      /\ \A k \in Depth' : stack'[k] = stack[k]
  <2>1. stack' \in Seq(Frame) /\ Len(stack') = d - 1 /\ \A k \in 1..(d - 1) : stack'[k] = stack[k]
    <3>1. d >= 1 /\ \A k \in 1..(d - 1) : stack[k] \in Frame
      BY <1>2
    <3>2. /\ SubSeq(stack, 1, d - 1) \in Seq(Frame)
          /\ Len(SubSeq(stack, 1, d - 1)) = d - 1
          /\ \A k \in 1..(d - 1) : SubSeq(stack, 1, d - 1)[k] = stack[k]
      <4>1. /\ SubSeq(stack, 1, d - 1) \in Seq(Frame)
            /\ Len(SubSeq(stack, 1, d - 1)) = IF 1 <= d - 1 THEN (d - 1) - 1 + 1 ELSE 0
            /\ \A k \in 1..((d - 1) - 1 + 1) : SubSeq(stack, 1, d - 1)[k] = stack[1 + k - 1]
        <5>1. 1 \in Int /\ d - 1 \in Int
          BY <1>2
        <5> HIDE DEF d
        <5> QED
          BY <3>1, <5>1, SubSeqProperties
      <4> HIDE DEF d
      <4> QED
        BY <1>2, <3>1, <4>1
    <3> QED
      BY <1>3, <3>2
  <2> QED
    BY <2>1, <1>2 DEF Depth
<1>6. /\ \A m \in Ids : color'[m] = IF m = done THEN "black" ELSE color[m]
      /\ \A m \in Ids : post'[m] = IF m = done THEN counter ELSE post[m]
  BY <1>2, <1>3, <1>4
<1>7. color[done] = "gray"
  BY <1>1, <1>2 DEF GrayOnStack
<1>8. /\ Edges' = Edges
      /\ \A i \in Edges : /\ Source(i)' = Source(i) /\ Target(i)' = Target(i)
                           /\ Source(i) \in Ids /\ Target(i) \in Ids /\ i \in Nat
  BY <1>1, <1>3, GraphTypes DEF Edges, Source, Target
<1> HIDE DEF done, d
<1>9. OrderTypeOK'
  BY <1>1, <1>3, <1>4, <1>5, <1>2 DEF OrderTypeOK, Colors, NodeCount
<1>10. FramesDistinct'
  BY <1>1, <1>5 DEF FramesDistinct
<1>11. GrayOnStack'
  BY <1>1, <1>2, <1>5, <1>6, SMTT(30) DEF GrayOnStack, FramesDistinct
(* The finished call has passed all edges out of its id: with no later call, they
   lead to black ids *)
<1>12. \A i \in Edges : Source(i) = done => cyclic \/ color[Target(i)] = "black"
  <2> SUFFICES ASSUME NEW i \in Edges, Source(i) = done
               PROVE  cyclic \/ color[Target(i)] = "black"
    OBVIOUS
  <2>1. i < Top.next
    BY <1>2, <1>3, <1>8 DEF Ahead, done
  <2>2. i < stack[d].next
    BY <2>1 DEF Top, d
  <2> QED
    BY <1>1, <1>2, <2>2 DEF EdgesPassed
<1>13. EdgesPassed'
  <2> SUFFICES ASSUME NEW k \in Depth', NEW i \in Edges,
                      Source(i) = stack[k].node, i < stack[k].next
               PROVE  \/ cyclic
                      \/ color'[Target(i)] = "black"
                      \/ \E j \in Depth' : k < j /\ stack'[j].node = Target(i)
    <3>1. \A k \in Depth' : \A i \in Edges :
              Source(i)' = stack'[k].node /\ i < stack'[k].next
                  <=> Source(i) = stack[k].node /\ i < stack[k].next
      BY <1>5, <1>8
    <3>2. cyclic' = cyclic
      BY <1>3
    <3> QED
      BY <3>1, <3>2, <1>8 DEF EdgesPassed
  <2>1. \/ cyclic
        \/ color[Target(i)] = "black"
        \/ \E j \in Depth : k < j /\ stack[j].node = Target(i)
    BY <1>1, <1>5 DEF EdgesPassed
  <2> QED
    BY <2>1, <1>2, <1>5, <1>6, <1>8
<1>14. PostsBelow' /\ PostsDiffer'
  BY <1>1, <1>2, <1>3, <1>4, <1>6, <1>7 DEF PostsBelow, PostsDiffer
<1>15. EdgesDescend'
  <2> SUFFICES ASSUME ~cyclic, NEW i \in Edges, color'[Source(i)] = "black"
               PROVE  color'[Target(i)] = "black" /\ post'[Target(i)] < post'[Source(i)]
    BY <1>3, <1>8 DEF EdgesDescend
  <2>1. CASE Source(i) = done
    BY <2>1, <1>1, <1>6, <1>7, <1>8, <1>12 DEF PostsBelow
  <2>2. CASE Source(i) # done
    BY <2>2, <1>1, <1>6, <1>7, <1>8 DEF EdgesDescend
  <2> QED
    BY <2>1, <2>2
<1>16. Heights' = Heights
  BY <1>3 DEF Heights, Edges, Source, Target
<1>17. HeightsFall' /\ CycleIsReal'
  BY <1>1, <1>3, <1>5, <1>16, ZenonT(60) DEF HeightsFall, CycleIsReal
<1>18. NodesVisited'
  <2>1. \A m \in Ids : color[m] # "white" => color'[m] # "white"
    BY <1>6
  <2>2. \A i \in 1..NodeCount : graph.nodes[i].id \in Ids
    BY <1>1, GraphTypes
  <2> QED
    BY <1>1, <1>3, <2>1, <2>2 DEF NodesVisited, NodeCount
<1> QED
  BY <1>9, <1>10, <1>11, <1>13, <1>14, <1>15, <1>17, <1>18 DEF OrderInv

LEMMA OrderStep == OrderInv /\ [OrderNext]_orderVars => OrderInv'
<1>1. ASSUME OrderInv, UNCHANGED orderVars PROVE OrderInv'
  <2>1. OrderTypeOK' /\ NodesVisited'
    BY <1>1 DEF orderVars, OrderInv, OrderTypeOK, NodesVisited, NodeCount
  <2>2. FramesDistinct' /\ GrayOnStack' /\ PostsBelow' /\ PostsDiffer'
    BY <1>1 DEF orderVars, OrderInv, FramesDistinct, GrayOnStack, PostsBelow, PostsDiffer, Depth
  <2>3. EdgesPassed' /\ EdgesDescend'
    BY <1>1 DEF orderVars, OrderInv, EdgesPassed, EdgesDescend, Depth, Edges, Source, Target
  <2>4. HeightsFall' /\ CycleIsReal'
    BY <1>1 DEF orderVars, OrderInv, HeightsFall, CycleIsReal, Heights, Depth, Edges, Source, Target
  <2> QED
    BY <2>1, <2>2, <2>3, <2>4 DEF OrderInv
<1> QED
  BY <1>1, StartStep, SkipStep, FollowStep, LeaveStep DEF OrderNext

-----------------------------------------------------------------------------
(* The inductive invariant of the run *)

NotStarted == results = [n \in Ids |-> "none"]

(* The walk is where turn says it is *)
Progress ==
    /\ Ordered
    /\ cyclic => turn = 0
    /\ \A n \in Ids \ NodeIds : results[n] = "none"
    /\ \A n \in NodeIds :
          IF cyclic THEN results[n] = "error"
          ELSE results[n] # "none" /\ (HasRun(n) <=> turn <= post[n])

WalkInv ==
    /\ pc \in {"load", "create", "order"} => NotStarted /\ turn = 0
    /\ pc = "walk" => Progress
    /\ pc = "done" => NotStarted \/ Progress

(* A stored run is the finished one *)
StoredInv ==
    /\ pc # "done" => execution = NoExecution /\ reply = "none"
    /\ execution # NoExecution =>
          Progress /\ turn = 0 /\ execution = [status |-> Verdict, results |-> results]
    /\ reply \in RunStatus => reply = Verdict
    /\ reply \in RunStatus /\ app => execution # NoExecution

Inv == OrderInv /\ TypeOK /\ WalkInv /\ StoredInv

-----------------------------------------------------------------------------
(* The run *)

(* When the sort is over, the nodes are black *)
LEMMA NodesBlack ==
    ASSUME OrderInv, Ordered
    PROVE  \A n \in NodeIds : n \in Ids /\ color[n] = "black"
<1> SUFFICES ASSUME NEW i \in 1..NodeCount
             PROVE  graph.nodes[i].id \in Ids /\ color[graph.nodes[i].id] = "black"
  BY DEF NodeIds
<1>1. OrderTypeOK /\ GrayOnStack /\ NodesVisited
  BY DEF OrderInv
<1>2. NodeCount \in Nat /\ at \in Nat /\ graph.nodes[i].id \in Ids
  BY <1>1, GraphTypes DEF OrderTypeOK
<1>3. color[graph.nodes[i].id] # "white"
  BY <1>1, <1>2 DEF NodesVisited, Ordered
<1>4. color[graph.nodes[i].id] # "gray"
  BY <1>1, <1>2 DEF GrayOnStack, Ordered, Depth
<1> QED
  BY <1>1, <1>2, <1>3, <1>4 DEF OrderTypeOK, Colors

LEMMA InitInv == Init => Inv
<1> SUFFICES ASSUME Init
             PROVE  Inv
  OBVIOUS
<1>1. OrderInv
  BY OrderStart DEF Init
<1>2. OrderTypeOK /\ counter = 0
  BY <1>1 DEF OrderInv, Init, OrderInit
<1>3. TypeOK
  BY <1>2, WorkshopAssumption DEF Init, TypeOK, NodeStatus
<1>4. WalkInv /\ StoredInv
  BY DEF Init, WalkInv, StoredInv, NotStarted, RunStatus
<1> QED
  BY <1>1, <1>3, <1>4 DEF Inv

(* Steps that leave the sort and the walk as they are *)
LEMMA WalkKept ==
    ASSUME UNCHANGED <<orderVars, results, turn>>
    PROVE  /\ Progress' = Progress /\ NotStarted' = NotStarted /\ Verdict' = Verdict
  BY DEF orderVars, Progress, NotStarted, Verdict, Ordered, NodeIds, NodeCount, HasRun, Some

(* A node that is due runs: the walk is one further *)
LEMMA DispatchStep ==
    ASSUME Inv, NEW n \in NodeIds, Due(n), NEW status \in {"done", "error"},
           NEW output \in {"absent", "empty", "some"}, Dispatched(n, status, output),
           session' \in {"clean", "broken"}, faults' = faults
    PROVE  Inv'
<1>1. /\ OrderInv /\ TypeOK /\ WalkInv /\ StoredInv /\ OrderTypeOK /\ PostsDiffer
  BY DEF Inv, OrderInv
<1>2. /\ pc = "walk" /\ turn > 0 /\ color[n] = "black" /\ post[n] = turn - 1 /\ Progress
      /\ execution = NoExecution /\ reply = "none"
  BY <1>1 DEF Due, WalkInv, StoredInv
<1>3. /\ results' = [results EXCEPT ![n] = status]
      /\ items' = [items EXCEPT ![n] = output]
      /\ turn' = turn - 1
      /\ UNCHANGED <<orderVars, pc, app, execution, reply, faults>>
  BY DEF Dispatched
<1>4. turn \in Nat /\ turn <= counter /\ counter \in Nat /\ post \in [Ids -> Nat]
  BY <1>1 DEF TypeOK, OrderTypeOK
<1>5. \A m \in NodeIds : m \in Ids /\ color[m] = "black"
  BY <1>1, <1>2, NodesBlack DEF Progress
<1>6. OrderInv'
  BY <1>1, <1>3, OrderStep
<1>7. TypeOK'
  <2>1. turn' \in 0..counter' /\ counter' = counter
    BY <1>2, <1>3, <1>4 DEF orderVars
  <2> QED
    BY <1>1, <1>3, <1>6, <2>1 DEF TypeOK, NodeStatus, OrderInv
<1>8. results \in [Ids -> NodeStatus]
  BY <1>1 DEF TypeOK
<1>9. \A m \in Ids : results'[m] = IF m = n THEN status ELSE results[m]
  BY <1>3, <1>8
<1>10. Progress'
  <2>1. /\ NodeIds' = NodeIds /\ Ordered' = Ordered /\ cyclic' = cyclic /\ post' = post
    BY <1>3 DEF orderVars, NodeIds, NodeCount, Ordered
  <2>2. \A m \in Ids \ NodeIds : results'[m] = "none"
    BY <1>2, <1>9 DEF Progress
  <2>3. ~cyclic
    BY <1>2 DEF Progress
  <2>4. ASSUME NEW m \in NodeIds
        PROVE  results'[m] # "none" /\ (HasRun(m)' <=> turn' <= post[m])
    <3>1. m \in Ids /\ post[m] \in Nat /\ (m # n => post[m] # turn - 1)
      BY <1>1, <1>2, <1>4, <1>5 DEF PostsDiffer
    <3>2. results[m] # "none" /\ (HasRun(m) <=> turn <= post[m])
      BY <1>2, <2>3 DEF Progress
    <3> QED
      BY <1>2, <1>3, <1>4, <1>9, <3>1, <3>2 DEF HasRun
  <2> QED
    BY <1>2, <2>1, <2>2, <2>3, <2>4 DEF Progress
<1>11. WalkInv' /\ StoredInv'
  BY <1>2, <1>3, <1>10 DEF WalkInv, StoredInv, RunStatus
<1> QED
  BY <1>6, <1>7, <1>11 DEF Inv

LEMMA NodeStep == Inv /\ RunNode => Inv'
<1> SUFFICES ASSUME Inv, NEW n \in Ids,
                    \/ TableNode(n) \/ LinkNode(n) \/ FilterNode(n) \/ ChartNode(n)
                    \/ ActionNode(n) \/ UnknownNode(n) \/ NoNode(n)
             PROVE  Inv'
  BY DEF RunNode
<1>1. session \in {"clean", "broken"}
  BY DEF Inv, TypeOK
<1>2. CASE TableNode(n) \/ LinkNode(n)
  BY <1>1, <1>2, DispatchStep DEF TableNode, LinkNode, Listed, Dispatched
<1>3. CASE FilterNode(n)
  BY <1>1, <1>3, DispatchStep DEF FilterNode, Dispatched
<1>4. CASE ChartNode(n)
  BY <1>1, <1>4, DispatchStep DEF ChartNode, Dispatched
<1>5. CASE ActionNode(n)
  BY <1>1, <1>5, DispatchStep DEF ActionNode, Dispatched
<1>6. CASE UnknownNode(n)
  BY <1>1, <1>6, DispatchStep DEF UnknownNode, Dispatched
<1>7. CASE NoNode(n)
  <2>1. /\ OrderInv /\ TypeOK /\ WalkInv /\ StoredInv /\ OrderTypeOK /\ PostsDiffer
    BY DEF Inv, OrderInv
  <2>2. /\ pc = "walk" /\ turn > 0 /\ color[n] = "black" /\ post[n] = turn - 1 /\ Progress
        /\ execution = NoExecution /\ reply = "none" /\ n \notin NodeIds
    BY <1>7, <2>1 DEF NoNode, Due, WalkInv, StoredInv
  <2>3. /\ turn' = turn - 1
        /\ UNCHANGED <<orderVars, pc, app, results, items, session, execution, reply, faults>>
    BY <1>7 DEF NoNode
  <2>4. OrderInv'
    BY <2>1, <2>3, OrderStep
  <2>5. turn \in Nat /\ turn <= counter /\ counter \in Nat /\ post \in [Ids -> Nat]
    BY <2>1 DEF TypeOK, OrderTypeOK
  <2>6. TypeOK'
    <3>1. turn' \in 0..counter' /\ counter' = counter
      BY <2>2, <2>3, <2>5 DEF orderVars
    <3> QED
      BY <2>1, <2>3, <2>4, <3>1 DEF TypeOK, OrderInv
  <2>7. ~cyclic
    BY <2>2 DEF Progress
  <2>8. \A m \in NodeIds : (turn <= post[m]) <=> (turn' <= post[m])
    <3> SUFFICES ASSUME NEW m \in NodeIds
                 PROVE  (turn <= post[m]) <=> (turn' <= post[m])
      OBVIOUS
    <3>1. m \in Ids /\ color[m] = "black" /\ m # n
      BY <2>1, <2>2, NodesBlack DEF Progress
    <3>2. post[m] # turn - 1 /\ post[m] \in Nat
      BY <2>1, <2>2, <2>5, <3>1 DEF PostsDiffer
    <3> QED
      BY <2>3, <2>5, <3>2
  <2>9. Progress'
    BY <2>2, <2>3, <2>7, <2>8 DEF Progress, orderVars, Ordered, NodeIds, NodeCount, HasRun
  <2>10. WalkInv' /\ StoredInv'
    BY <2>2, <2>3, <2>9 DEF WalkInv, StoredInv, RunStatus
  <2> QED
    BY <2>4, <2>6, <2>10 DEF Inv
<1> QED
  BY <1>2, <1>3, <1>4, <1>5, <1>6, <1>7

LEMMA PrepareStep == Inv /\ Prepare => Inv'
<1> SUFFICES ASSUME Inv, Prepare
             PROVE  Inv'
  OBVIOUS
<1>1. /\ OrderInv /\ TypeOK /\ WalkInv /\ StoredInv /\ OrderTypeOK /\ PostsBelow
  BY DEF Inv, OrderInv
<1>2. /\ pc = "order" /\ Ordered /\ pc' = "walk"
      /\ results' = [n \in Ids |-> IF n \notin NodeIds THEN "none"
                                   ELSE IF cyclic THEN "error" ELSE "pending"]
      /\ turn' = IF cyclic THEN 0 ELSE counter
      /\ UNCHANGED <<orderVars, app, items, session, execution, reply, faults>>
  BY DEF Prepare
<1>3. OrderInv'
  BY <1>1, <1>2, OrderStep
<1>4. counter \in Nat /\ post \in [Ids -> Nat] /\ counter' = counter
  BY <1>1, <1>2 DEF OrderTypeOK, orderVars
<1>5. TypeOK'
  <2>1. turn' \in 0..counter'
    BY <1>2, <1>4
  <2>2. results' \in [Ids -> NodeStatus]
    BY <1>2 DEF NodeStatus
  <2> QED
    BY <1>1, <1>2, <1>3, <2>1, <2>2 DEF TypeOK, OrderInv
<1>6. Progress'
  <2>1. /\ NodeIds' = NodeIds /\ Ordered' /\ cyclic' = cyclic /\ post' = post
    BY <1>2 DEF orderVars, NodeIds, NodeCount, Ordered
  <2>2. \A n \in NodeIds : n \in Ids /\ ~(counter <= post[n])
    BY <1>1, <1>2, <1>4, NodesBlack DEF PostsBelow
  <2>3. /\ \A n \in Ids \ NodeIds : results'[n] = "none"
        /\ \A n \in NodeIds : results'[n] = IF cyclic THEN "error" ELSE "pending"
    BY <1>2, <2>2
  <2> QED
    BY <1>2, <2>1, <2>2, <2>3 DEF Progress, HasRun
<1>7. WalkInv' /\ StoredInv'
  BY <1>1, <1>2, <1>6 DEF WalkInv, StoredInv, RunStatus
<1> QED
  BY <1>3, <1>5, <1>7 DEF Inv

LEMMA SearchStep == Inv /\ Search => Inv'
<1> SUFFICES ASSUME Inv, Search
             PROVE  Inv'
  OBVIOUS
<1>1. OrderInv /\ TypeOK /\ WalkInv /\ StoredInv /\ pc = "order" /\ OrderNext /\ UNCHANGED runVars
  BY DEF Inv, Search
<1>2. OrderInv'
  BY <1>1, OrderStep
<1>3. TypeOK'
  <2>1. turn = 0 /\ turn' = turn /\ counter' \in Nat
    BY <1>1, <1>2 DEF WalkInv, runVars, OrderInv, OrderTypeOK
  <2>2. turn' \in 0..counter'
    BY <2>1
  <2> QED
    BY <1>1, <1>2, <2>2 DEF TypeOK, OrderInv, runVars
<1>4. WalkInv' /\ StoredInv'
  BY <1>1 DEF WalkInv, StoredInv, runVars, NotStarted, RunStatus
<1> QED
  BY <1>2, <1>3, <1>4 DEF Inv

(* The end of the run: stored, and told *)
LEMMA CommitStep == Inv /\ (Commit \/ CommitFails) => Inv'
<1> SUFFICES ASSUME Inv, Commit \/ CommitFails
             PROVE  Inv'
  OBVIOUS
<1> DEFINE row == [status |-> Verdict, results |-> results]
<1>1. OrderInv /\ TypeOK /\ WalkInv /\ StoredInv
  BY DEF Inv
<1>2. /\ pc = "walk" /\ turn = 0 /\ pc' = "done"
      /\ UNCHANGED <<orderVars, app, results, items, turn>>
      /\ session' \in {"clean", "broken"}
      /\ faults' \in 0..MaxFaults
      /\ \/ execution' = row /\ reply' = Verdict
         \/ execution' \in {row, execution} /\ reply' = "500"
  <2>1. CASE Commit
    BY <1>1, <2>1 DEF Commit, Closing, End, TypeOK
  <2>2. CASE CommitFails
    BY <1>1, <2>2, WorkshopAssumption DEF CommitFails, Fault, Closing, End, TypeOK
  <2> QED
    BY <2>1, <2>2
<1>3. OrderInv'
  BY <1>1, <1>2, OrderStep
<1>4. Verdict \in RunStatus /\ row \in Execution
  BY <1>1 DEF Verdict, RunStatus, Execution, TypeOK
<1>5. TypeOK'
  <2>1. turn' \in 0..counter'
    BY <1>1, <1>2 DEF TypeOK, orderVars
  <2> QED
    BY <1>1, <1>2, <1>3, <1>4, <2>1 DEF TypeOK, OrderInv
<1>6. Progress /\ Progress' /\ Verdict' = Verdict
  BY <1>1, <1>2, WalkKept DEF WalkInv
<1>7. row # NoExecution
  <2>1. row.status # NoExecution.status
    BY <1>4 DEF NoExecution, RunStatus
  <2> QED
    BY <2>1
<1>8. WalkInv'
  BY <1>2, <1>6 DEF WalkInv
<1>9. StoredInv'
  BY <1>1, <1>2, <1>4, <1>6, <1>7 DEF StoredInv, RunStatus
<1> QED
  BY <1>3, <1>5, <1>8, <1>9 DEF Inv

(* The other steps leave the sort and the walk alone *)
LEMMA OtherStep ==
    Inv /\ (Load \/ Create \/ Delete \/ Disconnect \/ Restart \/ UNCHANGED vars) => Inv'
<1> SUFFICES ASSUME Inv, Load \/ Create \/ Delete \/ Disconnect \/ Restart \/ UNCHANGED vars
             PROVE  Inv'
  OBVIOUS
<1>1. OrderInv /\ TypeOK /\ WalkInv /\ StoredInv
  BY DEF Inv
<1>2. UNCHANGED <<orderVars, results, items, turn>>
  BY DEF Load, Create, Delete, Disconnect, Restart, vars, runVars
<1>3. OrderInv' /\ Progress' = Progress /\ NotStarted' = NotStarted /\ Verdict' = Verdict
  BY <1>1, <1>2, OrderStep, WalkKept
<1>4. CASE Load
  <2>1. TypeOK'
    BY <1>1, <1>2, <1>3, <1>4 DEF Load, End, TypeOK, OrderInv, orderVars
  <2>2. WalkInv' /\ StoredInv'
    BY <1>1, <1>2, <1>3, <1>4 DEF Load, End, WalkInv, StoredInv, RunStatus
  <2> QED
    BY <1>3, <2>1, <2>2 DEF Inv
<1>5. CASE Create
  <2>1. TypeOK'
    BY <1>1, <1>2, <1>3, <1>5 DEF Create, End, TypeOK, OrderInv, orderVars
  <2>2. WalkInv' /\ StoredInv'
    BY <1>1, <1>2, <1>3, <1>5 DEF Create, End, WalkInv, StoredInv, RunStatus
  <2> QED
    BY <1>3, <2>1, <2>2 DEF Inv
<1>6. CASE Delete
  <2>1. TypeOK'
    BY <1>1, <1>2, <1>3, <1>6 DEF Delete, TypeOK, OrderInv, orderVars
  <2>2. WalkInv' /\ StoredInv'
    BY <1>1, <1>2, <1>3, <1>6 DEF Delete, WalkInv, StoredInv
  <2> QED
    BY <1>3, <2>1, <2>2 DEF Inv
<1>7. CASE Disconnect
  <2>1. TypeOK'
    BY <1>1, <1>2, <1>3, <1>7, WorkshopAssumption DEF Disconnect, Fault, TypeOK, OrderInv, orderVars
  <2>2. WalkInv' /\ StoredInv'
    BY <1>1, <1>2, <1>3, <1>7 DEF Disconnect, WalkInv, StoredInv
  <2> QED
    BY <1>3, <2>1, <2>2 DEF Inv
<1>8. CASE Restart
  <2>1. TypeOK'
    BY <1>1, <1>2, <1>3, <1>8, WorkshopAssumption
    DEF Restart, Fault, End, TypeOK, OrderInv, orderVars
  <2>2. WalkInv'
    BY <1>1, <1>2, <1>3, <1>8 DEF Restart, End, WalkInv, TypeOK
  <2>3. StoredInv'
    BY <1>1, <1>2, <1>3, <1>8 DEF Restart, End, StoredInv, RunStatus
  <2> QED
    BY <1>3, <2>1, <2>2, <2>3 DEF Inv
<1>9. CASE UNCHANGED vars
  <2>1. TypeOK'
    BY <1>1, <1>2, <1>3, <1>9 DEF vars, runVars, TypeOK, OrderInv, orderVars
  <2>2. WalkInv' /\ StoredInv'
    BY <1>1, <1>2, <1>3, <1>9 DEF vars, runVars, WalkInv, StoredInv
  <2> QED
    BY <1>3, <2>1, <2>2 DEF Inv
<1> QED
  BY <1>4, <1>5, <1>6, <1>7, <1>8, <1>9

LEMMA Invariance == Spec => []Inv
<1>1. Inv /\ [Next]_vars => Inv'
  BY NodeStep, PrepareStep, SearchStep, CommitStep, OtherStep DEF Next, Run
<1> QED
  BY InitInv, <1>1, PTL DEF Spec

-----------------------------------------------------------------------------
(* What follows *)

(* Type correctness, of a sort and a run of any length *)
THEOREM TypeCorrect == Spec => []TypeOK
  BY Invariance, PTL DEF Inv

(* topological_order reports no cycle that is not there *)
THEOREM CyclesReal == Spec => []CycleIsReal
<1>1. Inv => CycleIsReal
  BY DEF Inv, OrderInv
<1> QED
  BY <1>1, Invariance, PTL

(* ... and misses none: what it does not call cyclic it has numbered such that each
   edge goes to a lower number *)
THEOREM OrderDescends == Spec => []EdgesDescend
<1>1. Inv => EdgesDescend
  BY DEF Inv, OrderInv
<1> QED
  BY <1>1, Invariance, PTL

(* No node runs before one whose output it may read *)
THEOREM RunsUpstreamFirst == Spec => []UpstreamFirst
<1>1. Inv => UpstreamFirst
  <2> SUFFICES ASSUME Inv, NEW i \in Edges, Source(i) \in NodeIds, HasRun(Target(i))
               PROVE  HasRun(Source(i))
    BY DEF UpstreamFirst
  <2>1. OrderInv /\ TypeOK /\ OrderTypeOK /\ EdgesDescend /\ WalkInv
    BY DEF Inv, OrderInv
  <2>2. Source(i) \in Ids /\ Target(i) \in Ids
    BY <2>1, GraphTypes
  <2>3. Progress
    BY <2>1, <2>2 DEF WalkInv, NotStarted, HasRun, TypeOK
  <2>4. Target(i) \in NodeIds
    BY <2>2, <2>3 DEF Progress, HasRun
  <2>5. CASE cyclic
    BY <2>3, <2>5 DEF Progress, HasRun
  <2>6. CASE ~cyclic
    <3>1. color[Source(i)] = "black"
      BY <2>1, <2>3, NodesBlack DEF Progress
    <3>2. post[Target(i)] < post[Source(i)]
      BY <2>1, <2>6, <3>1 DEF EdgesDescend
    <3>3. turn <= post[Target(i)]
      BY <2>3, <2>4, <2>6 DEF Progress
    <3>4. turn \in Nat /\ post[Target(i)] \in Nat /\ post[Source(i)] \in Nat
      BY <2>1, <2>2 DEF TypeOK, OrderTypeOK
    <3>5. turn <= post[Source(i)]
      BY <3>2, <3>3, <3>4
    <3> QED
      BY <2>3, <2>6, <3>5 DEF Progress
  <2> QED
    BY <2>5, <2>6
<1> QED
  BY <1>1, Invariance, PTL

(* The stored status is the one the results say *)
THEOREM StatusIsTold == Spec => []StatusTold
<1>1. Inv => StatusTold
  <2> SUFFICES ASSUME Inv, execution # NoExecution
               PROVE  LET Has(status) == \E n \in NodeIds : execution.results[n] = status
                          All(status) == \A n \in NodeIds : execution.results[n] = status
                      IN  /\ execution.status = "completed" => All("done")
                          /\ execution.status = "partial"
                                => ~Has("pending") /\ Has("error") /\ Has("done")
                          /\ execution.status = "failed" => All("error")
    BY DEF StatusTold
  <2>1. /\ OrderInv /\ OrderTypeOK /\ TypeOK /\ Progress /\ turn = 0
        /\ execution.status = Verdict /\ execution.results = results
    BY DEF Inv, StoredInv, OrderInv
  <2>2. \A n \in NodeIds : n \in Ids /\ results[n] \in {"done", "error"}
    <3> SUFFICES ASSUME NEW n \in NodeIds
                 PROVE  n \in Ids /\ results[n] \in {"done", "error"}
      OBVIOUS
    <3>1. n \in Ids /\ post[n] \in Nat
      BY <2>1, NodesBlack DEF Progress, OrderTypeOK
    <3> QED
      BY <2>1, <3>1 DEF Progress, HasRun
  <2>3. \A n \in Ids : results[n] \in {"done", "error"} => n \in NodeIds
    BY <2>1 DEF Progress
  <2>4. cyclic => \A n \in NodeIds : results[n] = "error"
    BY <2>1 DEF Progress
  <2> QED
    BY <2>1, <2>2, <2>3, <2>4 DEF Verdict, Some
<1> QED
  BY <1>1, Invariance, PTL

(* The run a client was told of is stored, unless the app has been deleted *)
THEOREM AnswersAreStored == Spec => []AnswerIsStored
<1>1. Inv => AnswerIsStored
  BY DEF Inv, StoredInv, AnswerIsStored
<1> QED
  BY <1>1, Invariance, PTL
-----------------------------------------------------------------------------
(* The Filter node (module Filters): what its operators have answered so far. *)
Answer(i) == Bool(eval_filter(job.call.item, Operators[i], job.call.value))

Flags == {Bool(TRUE), Bool(FALSE)}

FilterInv ==
    /\ \E j \in FilterJobs : job = [kind |-> "filters", call |-> j]
    /\ seen \in Seq(Flags)
    /\ Len(seen) <= 9
    /\ \A i \in 1..Len(seen) : seen[i] = Answer(i)

LEMMA FilterInvInit == FilterInit => FilterInv
BY DEF FilterInit, FilterInv

LEMMA FilterInvNext == FilterInv /\ [ApplyFilter]_filterVars => FilterInv'
<1> SUFFICES ASSUME FilterInv, [ApplyFilter]_filterVars
             PROVE  FilterInv'
  OBVIOUS
<1>1. CASE UNCHANGED filterVars
  BY <1>1 DEF FilterInv, filterVars, Answer
<1>2. CASE ApplyFilter
  <2> DEFINE v == Answer(Len(seen) + 1)
  <2>1. seen' = Append(seen, v) /\ Len(seen) + 1 \in 1..9 /\ UNCHANGED job
    BY <1>2 DEF ApplyFilter, Next1, Operators, Answer
  <2>2. v \in Flags
    BY DEF Answer, Bool, Flags
  <2> HIDE DEF v
  <2>3. /\ seen' \in Seq(Flags) /\ Len(seen') = Len(seen) + 1
        /\ \A i \in 1..Len(seen) : seen'[i] = seen[i]
        /\ seen'[Len(seen) + 1] = v
    BY <2>1, <2>2, AppendProperties DEF FilterInv
  <2>4. Len(seen) \in Nat
    BY DEF FilterInv
  <2>5. ASSUME NEW i \in 1..Len(seen')
        PROVE  seen'[i] = Answer(i)'
    <3>1. Answer(i)' = Answer(i)
      BY <2>1 DEF Answer
    <3>2. CASE i \in 1..Len(seen)
      BY <2>3, <3>1, <3>2 DEF FilterInv
    <3>3. CASE i = Len(seen) + 1
      BY <2>3, <3>1, <3>3 DEF v
    <3>4. QED
      BY <2>3, <2>4, <3>2, <3>3
  <2>6. Len(seen') <= 9
    BY <2>1, <2>3, <2>4
  <2>7. QED
    BY <2>1, <2>3, <2>5, <2>6 DEF FilterInv
<1>3. QED
  BY <1>1, <1>2

(* What is compared: a flag, a number, a text, nothing, or nan. *)
Read == ({"bool", "int", "str"} \X Int) \cup {None, NaN}

(* Reading leaves no written form. *)
LEMMA ReadSo ==
    ASSUME NEW v \in Comparand
    PROVE  coerce_compare(v) \in Read
BY DEF Comparand, Written, Read, coerce_compare, Num, Bool, NaN, Str, None

(* One value is equal to, below or above another it can be ordered with. *)
LEMMA Trichotomy ==
    ASSUME NEW a \in Read, NEW b \in Read, Comparable(a, b), NaN \notin {a, b}
    PROVE  /\ Equal(a, b) <=> a[2] = b[2]
           /\ Below(a, b) <=> a[2] < b[2]
           /\ Below(b, a) <=> b[2] < a[2]
           /\ a[2] \in Int /\ b[2] \in Int
<1>1. ASSUME NEW v \in Read, v # NaN, v[1] \in {"bool", "int", "str"}
      PROVE  v[2] \in Int
  BY <1>1 DEF Read, None
<1>2. a # NaN /\ b # NaN
  OBVIOUS
<1>3. \/ a[1] = "str" /\ b[1] = "str"
      \/ a[1] \in {"bool", "int"} /\ b[1] \in {"bool", "int"}
  BY <1>2 DEF Comparable, Number
<1>4. a[2] \in Int /\ b[2] \in Int
  BY <1>1, <1>2, <1>3
<1>5. /\ Equal(a, b) <=> a[2] = b[2]
      /\ Equal(b, a) <=> a[2] = b[2]
  BY <1>2, <1>3 DEF Equal, Number
<1>6. /\ Below(a, b) <=> a[2] < b[2]
      /\ Below(b, a) <=> b[2] < a[2]
  BY <1>2 DEF Below
<1>7. QED
  BY <1>4, <1>5, <1>6

(* With every operator asked, what each kept follows from how the two compare. *)
LEMMA FiltersSplit == FilterInv => FiltersPartition
<1> SUFFICES ASSUME FilterInv, Len(seen) = 9
             PROVE  FiltersPartition
  BY DEF FiltersPartition, Operators
<1> DEFINE Keeps(op) == seen[CHOOSE i \in DOMAIN Operators : Operators[i] = op] = Bool(TRUE)
           h == coerce_compare(job.call.item)
           n == coerce_compare(job.call.value)
           Eval(op) == eval_filter(job.call.item, op, job.call.value)
<1>1. h \in Read /\ n \in Read
  <2>1. job.call.item \in Comparand /\ job.call.value \in Comparand
    BY FilterAssumption DEF FilterInv
  <2>2. QED
    BY <2>1, ReadSo
<1>2. ASSUME NEW i \in 1..9
      PROVE  Keeps(Operators[i]) <=> Eval(Operators[i])
  <2>1. DOMAIN Operators = 1..9
    BY DEF Operators
  <2>2. \A k \in 1..9 : Operators[k] = Operators[i] => k = i
    BY DEF Operators
  <2>3. (CHOOSE k \in DOMAIN Operators : Operators[k] = Operators[i]) = i
    BY <2>1, <2>2
  <2>4. seen[i] = Bool(Eval(Operators[i]))
    BY DEF FilterInv, Answer
  <2>5. Keeps(Operators[i]) <=> seen[i] = Bool(TRUE)
    BY <2>3
  <2> HIDE DEF Keeps, Eval
  <2>6. Bool(Eval(Operators[i])) = Bool(TRUE) <=> Eval(Operators[i])
    BY DEF Bool
  <2>7. QED
    BY <2>4, <2>5, <2>6
<1>3. /\ Operators[1] = "==" /\ Operators[2] = "!=" /\ Operators[3] = ">"
      /\ Operators[4] = ">=" /\ Operators[5] = "<" /\ Operators[6] = "<="
  BY DEF Operators
<1>4. /\ Keeps("==") <=> Eval("==")
      /\ Keeps("!=") <=> Eval("!=")
      /\ Keeps(">") <=> Eval(">")
      /\ Keeps(">=") <=> Eval(">=")
      /\ Keeps("<") <=> Eval("<")
      /\ Keeps("<=") <=> Eval("<=")
  <2> HIDE DEF Keeps, Eval
  <2>1. QED
    BY <1>2, <1>3
<1>5. /\ Eval("==") <=> Equal(h, n)
      /\ Eval("!=") <=> ~Equal(h, n)
      /\ Eval("<") <=> Comparable(h, n) /\ Below(h, n)
      /\ Eval(">") <=> Comparable(n, h) /\ Below(n, h)
      /\ Eval("<=") <=> Comparable(h, n) /\ (Equal(h, n) \/ Below(h, n))
      /\ Eval(">=") <=> Comparable(h, n) /\ (Equal(h, n) \/ Below(n, h))
  BY DEF eval_filter, Reads
<1>6. Comparable(h, n) <=> Comparable(n, h)
  BY DEF Comparable
<1>7. FiltersPartition <=>
        /\ Keeps("==") # Keeps("!=")
        /\ IF Comparable(h, n) /\ NaN \notin {h, n}
           THEN /\ Keeps("<") # Keeps(">=")
                /\ Keeps(">") # Keeps("<=")
                /\ Keeps("<=") = (Keeps("<") \/ Keeps("=="))
           ELSE \A op \in {"<", "<=", ">", ">="} : ~Keeps(op)
  BY DEF FiltersPartition, FilterInv, Operators
<1> HIDE DEF Keeps, Eval, h, n
<1>8. CASE Comparable(h, n) /\ NaN \notin {h, n}
  <2>1. /\ Equal(h, n) <=> h[2] = n[2]
        /\ Below(h, n) <=> h[2] < n[2]
        /\ Below(n, h) <=> n[2] < h[2]
        /\ h[2] \in Int /\ n[2] \in Int
    BY <1>1, <1>8, Trichotomy
  <2>2. /\ Equal(h, n) => ~Below(h, n) /\ ~Below(n, h)
        /\ Below(h, n) => ~Below(n, h)
        /\ Equal(h, n) \/ Below(h, n) \/ Below(n, h)
    BY <2>1
  <2>3. /\ Keeps("==") <=> Equal(h, n)
        /\ Keeps("!=") <=> ~Equal(h, n)
        /\ Keeps("<") <=> Below(h, n)
        /\ Keeps(">") <=> Below(n, h)
        /\ Keeps("<=") <=> Equal(h, n) \/ Below(h, n)
        /\ Keeps(">=") <=> Equal(h, n) \/ Below(n, h)
    BY <1>4, <1>5, <1>6, <1>8
  <2>4. /\ Keeps("==") # Keeps("!=")
        /\ Keeps("<") # Keeps(">=")
        /\ Keeps(">") # Keeps("<=")
        /\ Keeps("<=") = (Keeps("<") \/ Keeps("=="))
    BY <2>2, <2>3 DEF Keeps
  <2>5. QED
    BY <1>7, <1>8, <2>4
<1>9. CASE ~(Comparable(h, n) /\ NaN \notin {h, n})
  <2>1. ~(Comparable(h, n) /\ (Equal(h, n) \/ Below(h, n) \/ Below(n, h)))
    BY <1>9 DEF Equal, Below
  <2>2. ~Keeps("<") /\ ~Keeps("<=") /\ ~Keeps(">") /\ ~Keeps(">=")
    BY <1>4, <1>5, <1>6, <2>1
  <2>3. Keeps("==") # Keeps("!=")
    BY <1>4, <1>5 DEF Keeps
  <2>4. \A op \in {"<", "<=", ">", ">="} : ~Keeps(op)
    BY <2>2
  <2>5. QED
    BY <1>7, <1>9, <2>3, <2>4
<1>10. QED
  BY <1>8, <1>9

(* For any values: == and != keep an item in exactly one of them, < and >= in one
   unless the two cannot be ordered, and then no order keeps it (eval_filter). *)
THEOREM FiltersSplitItems == FilterSpec => []FiltersPartition
BY FilterInvInit, FilterInvNext, FiltersSplit, PTL DEF FilterSpec

-----------------------------------------------------------------------------
(* Some numbers have a least. *)
LEMMA LeastNumber ==
    ASSUME NEW S \in SUBSET Nat, S # {}
    PROVE  \E n \in S : \A m \in S : n <= m
<1> DEFINE R == {p \in Nat \X Nat : p[1] < p[2]}
<1>1. R = OpToRel(<, Nat)
  BY DEF OpToRel
<1>2. IsWellFoundedOn(R, Nat)
  BY <1>1, NatLessThanWellFounded
<1>3. PICK n \in S : \A m \in S : <<m, n>> \notin R
  <2> HIDE DEF R
  <2> QED
    BY <1>2, WFMin
<1>4. \A m \in S : ~(m < n)
  BY <1>3
<1>5. QED
  BY <1>4

-----------------------------------------------------------------------------
(* What a function of the nodes gives for the parts of one *)
PartValues(f, n) == [k \in DOMAIN n.kids |-> f[n.kids[k]]]

(* The recursive function Values is what its definition says, for a part comes before
   the node it is a part of: there is a function with that equation on the first n
   nodes for every n, or there would be a least n without one. *)
LEMMA ValuesDefined ==
    ASSUME NEW e, Tree(e), NEW who, NEW scope
    PROVE  LET V == Values(who, e, scope)
           IN  V = [i \in 1..Len(e) |-> NodeValue(who, e[i], PartValues(V, e[i]), scope)]
<1> DEFINE Def(f, i) == NodeValue(who, e[i], PartValues(f, e[i]), scope)
           Good(n) == \E f : f = [i \in 1..n |-> Def(f, i)]
           Bad == {n \in 0..Len(e) : ~Good(n)}
<1>1. Len(e) \in Nat /\ DOMAIN e = 1..Len(e)
  BY DEF Tree, Numbered
<1>2. ASSUME NEW i \in 1..Len(e), NEW f, NEW g, \A j \in 1..(i - 1) : f[j] = g[j]
      PROVE  Def(f, i) = Def(g, i)
  <2>1. \A k \in DOMAIN e[i].kids : f[e[i].kids[k]] = g[e[i].kids[k]]
    BY <1>1, <1>2 DEF Tree
  <2>2. PartValues(f, e[i]) = PartValues(g, e[i])
    BY <2>1 DEF PartValues
  <2>3. QED
    BY <2>2
<1>3. Good(0)
  <2> HIDE DEF Def
  <2>1. [i \in 1..0 |-> 0] = [i \in 1..0 |-> Def([j \in 1..0 |-> 0], i)]
    OBVIOUS
  <2>2. QED
    BY <2>1
<1>4. ASSUME NEW n \in 1..Len(e), Good(n - 1)
      PROVE  Good(n)
  <2>1. PICK f : f = [i \in 1..(n - 1) |-> Def(f, i)]
    BY <1>4
  <2> DEFINE g == [i \in 1..n |-> IF i < n THEN f[i] ELSE Def(f, n)]
  <2> HIDE DEF Def
  <2>2. \A j \in 1..(n - 1) : g[j] = f[j]
    BY <1>1
  <2>3. \A i \in 1..n : Def(g, i) = Def(f, i)
    <3>1. ASSUME NEW i \in 1..n
          PROVE  Def(g, i) = Def(f, i)
      <4>1. i \in 1..Len(e) /\ \A j \in 1..(i - 1) : g[j] = f[j]
        BY <1>1, <2>2
      <4> HIDE DEF g
      <4>2. QED
        BY <4>1, <1>2
    <3>2. QED
      BY <3>1
  <2>4. \A i \in 1..n : g[i] = Def(f, i)
    <3>1. ASSUME NEW i \in 1..n
          PROVE  g[i] = Def(f, i)
      <4>1. CASE i < n
        <5>1. i \in 1..(n - 1)
          BY <1>1, <4>1
        <5>2. f[i] = Def(f, i)
          BY <2>1, <5>1
        <5>3. QED
          BY <2>2, <5>1, <5>2
      <4>2. CASE ~(i < n)
        BY <1>1, <4>2
      <4>3. QED
        BY <4>1, <4>2
    <3>2. QED
      BY <3>1
  <2>5. g = [i \in 1..n |-> Def(g, i)]
    BY <2>3, <2>4
  <2>6. QED
    BY <2>5
<1>5. Bad = {}
  <2> SUFFICES ASSUME Bad # {}
               PROVE  FALSE
    OBVIOUS
  <2> HIDE DEF Good
  <2>1. Bad \subseteq Nat
    BY <1>1
  <2>2. PICK n \in Bad : \A m \in Bad : n <= m
    <3> HIDE DEF Bad
    <3> QED
      BY <2>1, LeastNumber
  <2>3. n \in 1..Len(e)
    BY <1>1, <1>3, <2>2
  <2>4. n - 1 \notin Bad
    BY <1>1, <2>2, <2>3
  <2>5. Good(n - 1)
    BY <1>1, <2>3, <2>4
  <2>6. QED
    BY <1>4, <2>2, <2>3, <2>5
<1>6. Good(Len(e))
  BY <1>1, <1>5
<1>7. Values(who, e, scope) = CHOOSE f : f = [i \in 1..Len(e) |-> Def(f, i)]
  BY <1>1 DEF Values, PartValues
<1>8. QED
  <2> HIDE DEF Def
  <2>1. LET V == CHOOSE f : f = [i \in 1..Len(e) |-> Def(f, i)]
        IN  V = [i \in 1..Len(e) |-> Def(V, i)]
    BY <1>6
  <2>2. Values(who, e, scope) = [i \in 1..Len(e) |-> Def(Values(who, e, scope), i)]
    BY <1>7, <2>1
  <2>3. QED
    BY <2>2 DEF Def

-----------------------------------------------------------------------------
(* A node is among its parts, and so are the parts of its parts. *)
LEMMA PartsNest ==
    ASSUME NEW e, NEW i \in DOMAIN e
    PROVE  /\ i \in Parts(e, i)
           /\ \A j \in Parts(e, i) : Parts(e, j) \subseteq Parts(e, i)
           /\ \A j \in Parts(e, i) : \A k \in DOMAIN e[j].kids :
                e[j].kids[k] \in DOMAIN e => e[j].kids[k] \in Parts(e, i)
<1> DEFINE Closed(S) == \A x \in S : \A k \in DOMAIN e[x].kids : e[x].kids[k] \in S
<1>1. i \in Parts(e, i)
  BY DEF Parts
<1>2. ASSUME NEW j \in Parts(e, i), NEW S \in SUBSET DOMAIN e, i \in S, Closed(S)
      PROVE  j \in S /\ Parts(e, j) \subseteq S
  <2>1. j \in S
    BY <1>2 DEF Parts
  <2>2. QED
    BY <1>2, <2>1 DEF Parts
<1>3. ASSUME NEW j \in Parts(e, i)
      PROVE  Parts(e, j) \subseteq Parts(e, i)
  <2>1. ASSUME NEW m \in Parts(e, j), NEW S \in SUBSET DOMAIN e, i \in S, Closed(S)
        PROVE  m \in S
    BY <1>2, <2>1
  <2>2. QED
    BY <2>1 DEF Parts
<1>4. ASSUME NEW j \in Parts(e, i), NEW k \in DOMAIN e[j].kids, e[j].kids[k] \in DOMAIN e
      PROVE  e[j].kids[k] \in Parts(e, i)
  <2>1. ASSUME NEW S \in SUBSET DOMAIN e, i \in S, Closed(S)
        PROVE  e[j].kids[k] \in S
    BY <1>2, <2>1
  <2>2. QED
    BY <1>4, <2>1 DEF Parts
<1>5. QED
  BY <1>1, <1>3, <1>4

-----------------------------------------------------------------------------
(* Comparisons and joins *)

LEMMA ListOf ==
    ASSUME NEW S, NEW n \in Nat, NEW f \in [1..n -> S]
    PROVE  f \in Seq(S) /\ Len(f) = n
<1>1. f \in Seq(S)
  BY SeqDef
<1>2. Len(f) \in Nat /\ 1..Len(f) = 1..n
  BY <1>1, LenProperties
<1>3. QED
  BY <1>1, <1>2

LEMMA FirstOf ==
    ASSUME NEW S \in SUBSET Nat, S # {}
    PROVE  First(S) \in S /\ \A j \in S : First(S) <= j
BY LeastNumber DEF First

(* What a comparison answers *)
Verdicts == {Bool(TRUE), Bool(FALSE), Raises}

LEMMA BoolOf == /\ \A b \in BOOLEAN : Bool(b) \in {Bool(TRUE), Bool(FALSE)}
                /\ Truth(Bool(TRUE)) /\ ~Truth(Bool(FALSE))
                /\ ~Raised(Bool(TRUE)) /\ ~Raised(Bool(FALSE)) /\ Raised(Raises)
BY DEF Bool, Truth, Raised, Raises

LEMMA PairVerdict ==
    ASSUME NEW who, NEW op, NEW a, NEW b
    PROVE  Pair(who, op, a, b) \in Verdicts
<1>1. Bool(Equal(a, b)) \in Verdicts /\ Bool(~Equal(a, b)) \in Verdicts
  BY DEF Bool, Verdicts
<1>2. /\ \A c, d : Bool(Below(c, d) \/ (op = "<=" /\ Equal(c, d))) \in Verdicts
      /\ Bool(Holding(b, a)) \in Verdicts
      /\ Bool(Within(a, b)) \in Verdicts
      /\ Bool(FALSE) \in Verdicts /\ Raises \in Verdicts
  BY DEF Bool, Verdicts
<1>3. \A p : InOrder(op, p) \in Verdicts
  BY <1>2 DEF InOrder
<1>4. Compared(who, op, a, b) \in Verdicts
  BY <1>1, <1>2, <1>3 DEF Compared
<1>5. QED
  BY <1>2, <1>4 DEF Pair

(* The pairs of a comparison *)
Pairs(ops, vs) == [i \in DOMAIN ops |-> Pair("rules", ops[i], vs[i], vs[i + 1])]

(* A comparison is the "and" of its pairs: Chain stops where that is decided. *)
LEMMA ChainIsAnd ==
    ASSUME NEW ops, Numbered(ops), Len(ops) > 0, NEW vs
    PROVE  Chain("rules", ops, vs) = Deciding("and", Pairs(ops, vs))
<1> DEFINE ps == Pairs(ops, vs)
           stops == {i \in DOMAIN ops : Raised(ps[i]) \/ ~Truth(ps[i])}
<1>1. DOMAIN ps = DOMAIN ops /\ \A i \in DOMAIN ops : ps[i] = Pair("rules", ops[i], vs[i], vs[i + 1])
  BY DEF Pairs
<1>2. Chain("rules", ops, vs) = IF stops = {} THEN Bool(TRUE) ELSE ps[First(stops)]
  <2>1. Chain("rules", ops, vs) = UntilFalse(ps)
    BY DEF Chain, Pairs
  <2>2. stops = {i \in DOMAIN ps : Raised(ps[i]) \/ ~Truth(ps[i])}
    BY <1>1
  <2> HIDE DEF ps
  <2>3. QED
    BY <2>1, <2>2 DEF UntilFalse
<1>3. {i \in DOMAIN ps : Raised(ps[i]) \/ Truth(ps[i]) = ("and" = "or")} = stops
  BY <1>1 DEF Truth
<1>4. Deciding("and", ps) = IF stops = {} THEN ps[Len(ps)] ELSE ps[First(stops)]
  BY <1>3 DEF Deciding
<1>5. ASSUME stops = {}
      PROVE  ps[Len(ps)] = Bool(TRUE)
  <2>1. ps \in Seq(Verdicts) /\ Len(ps) = Len(ops) /\ Len(ops) \in DOMAIN ops
    <3>1. ps \in [1..Len(ops) -> Verdicts] /\ Len(ops) \in Nat
      BY PairVerdict DEF Numbered, Pairs
    <3> HIDE DEF ps
    <3>2. QED
      BY <3>1, ListOf DEF Numbered
  <2>2. ~Raised(ps[Len(ps)]) /\ Truth(ps[Len(ps)]) /\ ps[Len(ps)] \in Verdicts
    BY <1>1, <1>5, <2>1
  <2>3. QED
    BY <2>2, BoolOf DEF Verdicts
<1>6. Chain("rules", ops, vs) = Deciding("and", ps)
  <2>1. CASE stops = {}
    <3>1. Chain("rules", ops, vs) = Bool(TRUE) /\ Deciding("and", ps) = ps[Len(ps)]
      BY <1>2, <1>4, <2>1
    <3>2. QED
      BY <1>5, <2>1, <3>1
  <2>2. CASE stops # {}
    BY <1>2, <1>4, <2>2
  <2>3. QED
    BY <2>1, <2>2
<1>7. QED
  BY <1>6

(* The operand that decides is found among those before it, and where none of
   these fails it does not matter what the operands after it are. *)
LEMMA DecidingSame ==
    ASSUME NEW op, NEW xs, NEW ys, NEW len \in Nat, len > 0,
           DOMAIN xs = 1..len, DOMAIN ys = 1..len, Len(xs) = len, Len(ys) = len,
           \A i \in 1..len : Raised(xs[i]) \/ ys[i] = xs[i],
           ~Raised(Deciding(op, xs))
    PROVE  Deciding(op, ys) = Deciding(op, xs)
<1> DEFINE At(vs) == {i \in DOMAIN vs : Raised(vs[i]) \/ Truth(vs[i]) = (op = "or")}
<1>1. At(xs) \in SUBSET Nat /\ At(ys) \in SUBSET Nat
  OBVIOUS
<1>2. /\ Deciding(op, xs) = IF At(xs) = {} THEN xs[len] ELSE xs[First(At(xs))]
      /\ Deciding(op, ys) = IF At(ys) = {} THEN ys[len] ELSE ys[First(At(ys))]
  BY DEF Deciding
<1>3. CASE At(xs) = {}
  <2>1. \A i \in 1..len : ys[i] = xs[i]
    BY <1>3
  <2>2. At(ys) = {}
    BY <1>3, <2>1
  <2> HIDE DEF At
  <2>3. QED
    BY <1>2, <1>3, <2>1, <2>2
<1>4. CASE At(xs) # {}
  <2> DEFINE d == First(At(xs))
  <2>1. d \in At(xs) /\ \A j \in At(xs) : d <= j
    <3> HIDE DEF At
    <3>1. QED
      BY <1>1, <1>4, FirstOf
  <2>2. Deciding(op, xs) = xs[d]
    <3> HIDE DEF At
    <3>1. QED
      BY <1>2, <1>4
  <2> HIDE DEF d
  <2>3. d \in 1..len /\ ys[d] = xs[d]
    BY <2>1, <2>2
  <2>4. d \in At(ys)
    BY <2>1, <2>3
  <2>5. ASSUME NEW j \in 1..len, j < d
        PROVE  j \notin At(ys)
    <3>1. j \notin At(xs)
      BY <2>1, <2>3, <2>5
    <3>2. ys[j] = xs[j]
      BY <3>1
    <3>3. QED
      BY <3>1, <3>2
  <2>6. First(At(ys)) = d
    <3>1. First(At(ys)) \in At(ys) /\ \A j \in At(ys) : First(At(ys)) <= j
      <4> HIDE DEF At
      <4>1. QED
        BY <1>1, <2>4, FirstOf
    <3>2. First(At(ys)) \in 1..len
      BY <3>1
    <3> HIDE DEF At
    <3>3. QED
      BY <2>3, <2>4, <2>5, <3>1, <3>2
  <2>7. Deciding(op, ys) = ys[d]
    <3> HIDE DEF At
    <3>1. QED
      BY <1>2, <2>4, <2>6
  <2>8. QED
    BY <2>2, <2>3, <2>7
<1>5. QED
  BY <1>3, <1>4

(* Where operands are as true as others, so is what decides. *)
LEMMA DecidingAlike ==
    ASSUME NEW op, NEW xs, NEW ys, NEW len \in Nat, len > 0,
           DOMAIN xs = 1..len, DOMAIN ys = 1..len, Len(xs) = len, Len(ys) = len,
           \A i \in 1..len : /\ ~Raised(xs[i]) /\ ~Raised(ys[i])
                             /\ Truth(ys[i]) = Truth(xs[i])
    PROVE  /\ ~Raised(Deciding(op, ys))
           /\ Truth(Deciding(op, ys)) = Truth(Deciding(op, xs))
<1> DEFINE At(vs) == {i \in DOMAIN vs : Raised(vs[i]) \/ Truth(vs[i]) = (op = "or")}
<1>1. At(ys) = At(xs) /\ At(xs) \in SUBSET (1..len)
  OBVIOUS
<1>2. /\ Deciding(op, xs) = IF At(xs) = {} THEN xs[len] ELSE xs[First(At(xs))]
      /\ Deciding(op, ys) = IF At(ys) = {} THEN ys[len] ELSE ys[First(At(ys))]
  BY DEF Deciding
<1> HIDE DEF At
<1>3. CASE At(xs) = {}
  <2>1. Deciding(op, xs) = xs[len] /\ Deciding(op, ys) = ys[len] /\ len \in 1..len
    BY <1>1, <1>2, <1>3
  <2>2. QED
    BY <2>1
<1>4. CASE At(xs) # {}
  <2>1. First(At(xs)) \in 1..len
    BY <1>1, <1>4, FirstOf
  <2>2. Deciding(op, xs) = xs[First(At(xs))] /\ Deciding(op, ys) = ys[First(At(xs))]
    BY <1>1, <1>2, <1>4
  <2>3. QED
    BY <2>1, <2>2
<1>5. QED
  BY <1>3, <1>4

-----------------------------------------------------------------------------
(* One node: what the visitor and Python make of what they made of its parts *)

(* The values of the parts *)
PartsOf(vs, n) == vs = [k \in DOMAIN n.kids |-> vs[k]]

LEMMA PairsListed ==
    ASSUME NEW ops, Numbered(ops), NEW vs
    PROVE  /\ DOMAIN Pairs(ops, vs) = 1..Len(ops) /\ Len(Pairs(ops, vs)) = Len(ops)
           /\ \A i \in 1..Len(ops) : Pairs(ops, vs)[i] = Pair("rules", ops[i], vs[i], vs[i + 1])
<1>1. Pairs(ops, vs) \in [1..Len(ops) -> Verdicts] /\ Len(ops) \in Nat
  BY PairVerdict DEF Numbered, Pairs
<1>2. \A i \in 1..Len(ops) : Pairs(ops, vs)[i] = Pair("rules", ops[i], vs[i], vs[i + 1])
  BY DEF Numbered, Pairs
<1>3. QED
  BY <1>1, <1>2, ListOf

(* A pair that does not fail has operands that do not *)
LEMMA PairSame ==
    ASSUME NEW op, NEW a, NEW b, NEW c, NEW d,
           Raised(a) \/ c = a, Raised(b) \/ d = b
    PROVE  Raised(Pair("rules", op, a, b)) \/ Pair("rules", op, c, d) = Pair("rules", op, a, b)
BY BoolOf DEF Pair

(* Nothing fails or differs but where a part fails in the visitor *)
LEMMA ExactNode ==
    ASSUME NEW n, Shaped(n), ~Long(n), NEW scope, NEW vs, NEW ps, PartsOf(vs, n), PartsOf(ps, n),
           \A k \in DOMAIN n.kids : Raised(vs[k]) \/ ps[k] = vs[k],
           ~Raised(VisitNode(n, vs, scope))
    PROVE  Python(n, ps, scope) = VisitNode(n, vs, scope)
<1>1. DOMAIN n.kids = 1..Len(n.kids) /\ Len(n.kids) \in Nat
  BY DEF Shaped, Numbered
<1>2. CASE n.node = "Compare"
  <2> DEFINE len == Len(n.ops)
             xs == Pairs(n.ops, vs)
             ys == Pairs(n.ops, ps)
  <2>1. Numbered(n.ops) /\ len \in Nat /\ len > 0 /\ Len(n.kids) = len + 1
    BY <1>2 DEF Shaped, Numbered
  <2>2. VisitNode(n, vs, scope) = Deciding("and", xs)
    BY <1>2, <2>1, ChainIsAnd DEF VisitNode
  <2>3. Python(n, ps, scope) = Deciding("and", ys)
    BY <1>2 DEF Python, Pairs
  <2>4. /\ DOMAIN xs = 1..len /\ Len(xs) = len
        /\ DOMAIN ys = 1..len /\ Len(ys) = len
    BY <2>1, PairsListed
  <2>5. ASSUME NEW i \in 1..len
        PROVE  Raised(xs[i]) \/ ys[i] = xs[i]
    <3>1. i \in DOMAIN n.kids /\ i + 1 \in DOMAIN n.kids
      BY <1>1, <2>1
    <3>2. /\ xs[i] = Pair("rules", n.ops[i], vs[i], vs[i + 1])
          /\ ys[i] = Pair("rules", n.ops[i], ps[i], ps[i + 1])
      BY <2>1, PairsListed
    <3>3. QED
      BY <3>1, <3>2, PairSame
  <2> HIDE DEF xs, ys, len
  <2>6. QED
    BY <2>1, <2>2, <2>3, <2>4, <2>5, DecidingSame
<1>3. CASE n.node = "IfExp"
  <2>1. 1 \in DOMAIN n.kids /\ 2 \in DOMAIN n.kids /\ 3 \in DOMAIN n.kids
    <3>1. Len(n.kids) = 3
      BY <1>3 DEF Shaped
    <3>2. QED
      BY <1>1, <3>1
  <2>2. /\ VisitNode(n, vs, scope) =
             IF Raised(vs[1]) THEN Raises ELSE IF Truth(vs[1]) THEN vs[2] ELSE vs[3]
        /\ Python(n, ps, scope) =
             IF Raised(ps[1]) THEN Raises ELSE IF Truth(ps[1]) THEN ps[2] ELSE ps[3]
    <3>1. \A xs : VisitNode(n, xs, scope) =
                   IF Raised(xs[1]) THEN Raises ELSE IF Truth(xs[1]) THEN xs[2] ELSE xs[3]
      BY <1>3 DEF VisitNode
    <3>2. Python(n, ps, scope) = VisitNode(n, ps, scope)
      BY <1>3 DEF Python
    <3>3. QED
      BY <3>1, <3>2
  <2>3. ~Raised(vs[1])
    BY <2>2, BoolOf
  <2>4. ps[1] = vs[1]
    BY <2>1, <2>3
  <2>5. Raised(vs[2]) \/ ps[2] = vs[2]
    BY <2>1
  <2>6. Raised(vs[3]) \/ ps[3] = vs[3]
    BY <2>1
  <2>7. QED
    BY <2>2, <2>3, <2>4, <2>5, <2>6
<1>4. CASE n.node \in {"Constant", "Name"}
  BY <1>4 DEF VisitNode, Python
<1>5. CASE n.node \notin {"Compare", "IfExp", "Constant", "Name"}
  <2>1. ~AnyRaised(vs) /\ n.node \notin {"Not", "Call"}
    BY <1>5, BoolOf DEF VisitNode
  <2>2. ps = vs
    <3>1. \A k \in DOMAIN n.kids : ~Raised(vs[k])
      BY <2>1 DEF AnyRaised, PartsOf
    <3>2. QED
      BY <3>1 DEF PartsOf
  <2>3. CASE n.node = "BoolOp"
    <3>1. Len(n.kids) = 2
      <4>1. Len(n.kids) > 1 /\ ~(Len(n.kids) > 2)
        BY <2>3 DEF Shaped, Long
      <4>2. ASSUME NEW m \in Nat, m > 1, ~(m > 2)
            PROVE  m = 2
        BY <4>2
      <4>3. QED
        BY <1>1, <4>1, <4>2
    <3>2. Len(vs) = 2
      <4>0. DOMAIN n.kids = 1..2
        BY <1>1, <3>1
      <4>1. vs = [k \in 1..2 |-> vs[k]]
        BY <4>0 DEF PartsOf
      <4>2. vs \in [1..2 -> {vs[1], vs[2]}]
        BY <4>1
      <4>3. QED
        BY <4>2, ListOf
    <3>3. QED
      BY <2>1, <2>2, <2>3, <3>2 DEF VisitNode, Python
  <2>4. CASE n.node # "BoolOp"
    BY <1>5, <2>1, <2>2, <2>4 DEF Python
  <2>5. QED
    BY <2>3, <2>4
<1>6. QED
  BY <1>2, <1>3, <1>4, <1>5

(* The kinds whose value tells more of a part than its truth *)
Exacting == {"Compare", "BinOp", "USub", "Item", "List"}

LEMMA ConditionalNode ==
    ASSUME NEW n, Shaped(n), n.node = "IfExp", NEW scope
    PROVE  /\ {1, 2, 3} \subseteq DOMAIN n.kids
           /\ \A vs : /\ VisitNode(n, vs, scope) = Python(n, vs, scope)
                      /\ Raised(vs[1]) => VisitNode(n, vs, scope) = Raises
                      /\ ~Raised(vs[1]) /\ Truth(vs[1]) => VisitNode(n, vs, scope) = vs[2]
                      /\ ~Raised(vs[1]) /\ ~Truth(vs[1]) => VisitNode(n, vs, scope) = vs[3]
<1>1. Len(n.kids) = 3 /\ DOMAIN n.kids = 1..Len(n.kids)
  BY DEF Shaped, Numbered
<1>2. {1, 2, 3} \subseteq DOMAIN n.kids
  BY <1>1
<1>3. \A vs : VisitNode(n, vs, scope) =
               IF Raised(vs[1]) THEN Raises ELSE IF Truth(vs[1]) THEN vs[2] ELSE vs[3]
  BY DEF VisitNode
<1>4. \A vs : VisitNode(n, vs, scope) = Python(n, vs, scope)
  BY DEF Python
<1>5. QED
  BY <1>2, <1>3, <1>4

LEMMA JoinNode ==
    ASSUME NEW n, Shaped(n), n.node = "BoolOp", NEW scope, NEW vs, PartsOf(vs, n)
    PROVE  /\ Len(n.kids) \in Nat /\ Len(n.kids) > 0
           /\ DOMAIN vs = 1..Len(n.kids) /\ DOMAIN n.kids = 1..Len(n.kids)
           /\ Len(vs) = Len(n.kids)
           /\ Python(n, vs, scope) = Deciding(n.op, vs)
           /\ AnyRaised(vs) => VisitNode(n, vs, scope) = Raises
           /\ ~AnyRaised(vs) =>
                VisitNode(n, vs, scope) \in {Deciding(n.op, vs), Bool(Truth(Deciding(n.op, vs)))}
<1>1. /\ Len(n.kids) \in Nat /\ Len(n.kids) > 1 /\ DOMAIN n.kids = 1..Len(n.kids)
  BY DEF Shaped, Numbered
<1>2. vs \in [1..Len(n.kids) -> {vs[k] : k \in 1..Len(n.kids)}]
  <2>1. vs = [k \in 1..Len(n.kids) |-> vs[k]]
    BY <1>1 DEF PartsOf
  <2>2. QED
    BY <2>1
<1>3. DOMAIN vs = 1..Len(n.kids) /\ Len(vs) = Len(n.kids)
  BY <1>1, <1>2, ListOf
<1>4. Python(n, vs, scope) = Deciding(n.op, vs)
  BY DEF Python
<1>5. AnyRaised(vs) => VisitNode(n, vs, scope) = Raises
  BY DEF VisitNode
<1>6. ~AnyRaised(vs) =>
        VisitNode(n, vs, scope) \in {Deciding(n.op, vs), Bool(Truth(Deciding(n.op, vs)))}
  BY DEF VisitNode
<1>7. 0 < Len(n.kids)
  BY <1>1
<1>8. QED
  BY <1>1, <1>3, <1>4, <1>5, <1>6, <1>7

(* A value is as true as its flag. *)
LEMMA FlagOf == \A v : Truth(Bool(Truth(v))) = Truth(v) /\ ~Raised(Bool(Truth(v)))
<1>1. ASSUME NEW v
      PROVE  Truth(Bool(Truth(v))) = Truth(v) /\ ~Raised(Bool(Truth(v)))
  <2>1. Truth(v) \in BOOLEAN
    BY DEF Truth
  <2>2. CASE Truth(v) = TRUE
    <3>1. Bool(Truth(v)) = Bool(TRUE)
      BY <2>2
    <3>2. QED
      BY <2>2, <3>1, BoolOf
  <2>3. CASE Truth(v) = FALSE
    <3>1. Bool(Truth(v)) = Bool(FALSE)
      BY <2>3
    <3>2. Truth(Bool(FALSE)) = FALSE
      BY DEF Truth, Bool
    <3>3. QED
      BY <2>3, <3>1, <3>2, BoolOf
  <2>4. QED
    BY <2>1, <2>2, <2>3
<1>2. QED
  BY <1>1

(* Nothing fails or is otherwise true but where a part fails in the visitor *)
LEMMA AlikeNode ==
    ASSUME NEW n, Shaped(n), n.node \notin Exacting,
           NEW scope, NEW vs, NEW ps, PartsOf(vs, n), PartsOf(ps, n),
           \A k \in DOMAIN n.kids : ~Raised(vs[k]) => ~Raised(ps[k]) /\ Truth(ps[k]) = Truth(vs[k]),
           ~Raised(VisitNode(n, vs, scope))
    PROVE  /\ ~Raised(Python(n, ps, scope))
           /\ Truth(Python(n, ps, scope)) = Truth(VisitNode(n, vs, scope))
<1>1. CASE n.node = "IfExp"
  <2>1. {1, 2, 3} \subseteq DOMAIN n.kids
    BY <1>1, ConditionalNode
  <2>2. ~Raised(vs[1])
    BY <1>1, ConditionalNode, BoolOf
  <2>3. ~Raised(ps[1]) /\ Truth(ps[1]) = Truth(vs[1])
    BY <2>1, <2>2
  <2>4. CASE Truth(vs[1])
    <3>1. VisitNode(n, vs, scope) = vs[2] /\ Python(n, ps, scope) = ps[2]
      BY <1>1, <2>2, <2>3, <2>4, ConditionalNode
    <3>2. QED
      BY <2>1, <3>1
  <2>5. CASE ~Truth(vs[1])
    <3>1. VisitNode(n, vs, scope) = vs[3] /\ Python(n, ps, scope) = ps[3]
      BY <1>1, <2>2, <2>3, <2>5, ConditionalNode
    <3>2. QED
      BY <2>1, <3>1
  <2>6. QED
    BY <2>4, <2>5
<1>2. CASE n.node \in {"Constant", "Name"}
  BY <1>2 DEF VisitNode, Python
<1>3. CASE n.node = "BoolOp"
  <2>1. ~AnyRaised(vs)
    BY <1>3, JoinNode, BoolOf
  <2>2. /\ Len(n.kids) \in Nat /\ Len(n.kids) > 0
        /\ DOMAIN vs = 1..Len(n.kids) /\ Len(vs) = Len(n.kids)
        /\ DOMAIN ps = 1..Len(n.kids) /\ Len(ps) = Len(n.kids)
        /\ DOMAIN n.kids = 1..Len(n.kids)
    BY <1>3, JoinNode
  <2>3. \A k \in 1..Len(n.kids) : ~Raised(vs[k]) /\ ~Raised(ps[k]) /\ Truth(ps[k]) = Truth(vs[k])
    BY <2>1, <2>2 DEF AnyRaised
  <2>4. /\ ~Raised(Deciding(n.op, ps))
        /\ Truth(Deciding(n.op, ps)) = Truth(Deciding(n.op, vs))
    BY <2>2, <2>3, DecidingAlike
  <2>5. /\ Python(n, ps, scope) = Deciding(n.op, ps)
        /\ VisitNode(n, vs, scope) \in {Deciding(n.op, vs), Bool(Truth(Deciding(n.op, vs)))}
    BY <1>3, <2>1, JoinNode
  <2>6. QED
    BY <2>4, <2>5, FlagOf
<1>4. CASE n.node \in {"Not", "Call"}
  <2>1. VisitNode(n, vs, scope) = Raises
    BY <1>4 DEF VisitNode
  <2>2. QED
    BY <2>1, BoolOf
<1>5. QED
  BY <1>1, <1>2, <1>3, <1>4 DEF Shaped, Kinds, Exacting

(* Where the visitor fails Python does: on what a part fails on in both, or where
   it would not have reached a part *)
LEMMA FailingNode ==
    ASSUME NEW n, Shaped(n), n.node \notin {"Not", "Call"},
           NEW scope, NEW vs, NEW ps, PartsOf(vs, n), PartsOf(ps, n),
           \A k \in DOMAIN n.kids : Raised(vs[k]) => Raised(ps[k]),
           \A k \in DOMAIN n.kids : ~Raised(vs[k]) => Truth(ps[k]) = Truth(vs[k]),
           n.node \in Exacting => \A k \in DOMAIN n.kids : Raised(vs[k]) \/ ps[k] = vs[k],
           n.node = "BoolOp" => \A k \in DOMAIN n.kids : ~Raised(ps[k]),
           Raised(VisitNode(n, vs, scope))
    PROVE  Raised(Python(n, ps, scope))
<1>1. CASE n.node = "IfExp"
  <2>1. {1, 2, 3} \subseteq DOMAIN n.kids
    BY <1>1, ConditionalNode
  <2>2. CASE Raised(ps[1])
    BY <1>1, <2>2, ConditionalNode, BoolOf
  <2>3. CASE ~Raised(ps[1])
    <3>1. ~Raised(vs[1]) /\ Truth(ps[1]) = Truth(vs[1])
      BY <2>1, <2>3
    <3>2. CASE Truth(vs[1])
      <4>1. VisitNode(n, vs, scope) = vs[2] /\ Python(n, ps, scope) = ps[2]
        BY <1>1, <2>3, <3>1, <3>2, ConditionalNode
      <4>2. QED
        BY <2>1, <4>1
    <3>3. CASE ~Truth(vs[1])
      <4>1. VisitNode(n, vs, scope) = vs[3] /\ Python(n, ps, scope) = ps[3]
        BY <1>1, <2>3, <3>1, <3>3, ConditionalNode
      <4>2. QED
        BY <2>1, <4>1
    <3>4. QED
      BY <3>2, <3>3
  <2>4. QED
    BY <2>2, <2>3
<1>2. CASE n.node \in {"Constant", "Name"}
  BY <1>2 DEF VisitNode, Python
<1>3. CASE n.node = "BoolOp"
  <2>1. ~AnyRaised(vs)
    BY <1>3, JoinNode DEF AnyRaised
  <2>2. Raised(Deciding(n.op, vs))
    BY <1>3, <2>1, JoinNode, FlagOf
  <2>3. \A k \in 1..Len(n.kids) : ~Raised(vs[k])
    BY <1>3, <2>1, JoinNode DEF AnyRaised
  <2>4. ~Raised(Deciding(n.op, vs))
    BY <1>3, <2>3, JoinNode, DecidingAlike
  <2>5. QED
    BY <2>2, <2>4
<1>4. CASE n.node = "Compare"
  <2>1. /\ Numbered(n.ops) /\ Len(n.ops) \in Nat /\ Len(n.ops) > 0
        /\ Len(n.kids) = Len(n.ops) + 1 /\ DOMAIN n.kids = 1..Len(n.kids)
    BY <1>4 DEF Shaped, Numbered
  <2>2. ASSUME NEW i \in DOMAIN n.ops
        PROVE  Pair("rules", n.ops[i], vs[i], vs[i + 1]) = Pair("rules", n.ops[i], ps[i], ps[i + 1])
    <3>1. i \in DOMAIN n.kids /\ i + 1 \in DOMAIN n.kids
      BY <2>1 DEF Numbered
    <3>2. /\ Raised(vs[i]) => Raised(ps[i])
          /\ Raised(vs[i + 1]) => Raised(ps[i + 1])
          /\ Raised(vs[i]) \/ ps[i] = vs[i]
          /\ Raised(vs[i + 1]) \/ ps[i + 1] = vs[i + 1]
      BY <1>4, <3>1 DEF Exacting
    <3>3. QED
      BY <3>2 DEF Pair
  <2>3. Pairs(n.ops, vs) = Pairs(n.ops, ps)
    BY <2>2 DEF Pairs
  <2>4. VisitNode(n, vs, scope) = Deciding("and", Pairs(n.ops, vs))
    BY <1>4, <2>1, ChainIsAnd DEF VisitNode
  <2>5. Python(n, ps, scope) = Deciding("and", Pairs(n.ops, ps))
    BY <1>4 DEF Python, Pairs
  <2>6. QED
    BY <2>3, <2>4, <2>5
<1>5. CASE n.node \in Exacting \ {"Compare"}
  <2>1. Python(n, ps, scope) = VisitNode(n, ps, scope)
    BY <1>5 DEF Python, Exacting
  <2>2. CASE AnyRaised(vs)
    <3>1. AnyRaised(ps)
      BY <2>2 DEF AnyRaised, PartsOf
    <3>2. VisitNode(n, ps, scope) = Raises
      BY <1>5, <3>1 DEF VisitNode, Exacting
    <3>3. QED
      BY <2>1, <3>2, BoolOf
  <2>3. CASE ~AnyRaised(vs)
    <3>1. \A k \in DOMAIN n.kids : ps[k] = vs[k]
      BY <1>5, <2>3 DEF AnyRaised, PartsOf
    <3>2. ps = vs
      BY <3>1 DEF PartsOf
    <3>3. QED
      BY <2>1, <3>2
  <2>4. QED
    BY <2>2, <2>3
<1>6. QED
  BY <1>1, <1>2, <1>3, <1>4, <1>5 DEF Shaped, Kinds, Exacting

-----------------------------------------------------------------------------
(* The nodes of an expression, one after the other *)

HasLong(e, i) == \E y \in Parts(e, i) : Long(e[y])

(* What the visitor and Python say of a node, as far as joins of three operands
   and operands that Python would not have reached allow *)
Agree(e, scope, i) ==
    LET v == Values("rules", e, scope)[i]
        p == Values("python", e, scope)[i]
    IN  /\ ~Raised(v) /\ ~HasLong(e, i) => p = v
        /\ ~Raised(v) /\ ~LongWithin(e, i) => ~Raised(p) /\ Truth(p) = Truth(v)
        /\ Raised(v) /\ Strict(e, i, scope) /\ ~LongWithin(e, i) => Raised(p)

LEMMA NodesOf ==
    ASSUME NEW e, Tree(e), NEW scope, NEW i \in 1..Len(e)
    PROVE  LET V == Values("rules", e, scope)
               P == Values("python", e, scope)
           IN  /\ V[i] = VisitNode(e[i], PartValues(V, e[i]), scope)
               /\ P[i] = Python(e[i], PartValues(P, e[i]), scope)
<1> DEFINE V == Values("rules", e, scope)
           P == Values("python", e, scope)
<1>1. V = [j \in 1..Len(e) |-> NodeValue("rules", e[j], PartValues(V, e[j]), scope)]
  BY ValuesDefined
<1>2. P = [j \in 1..Len(e) |-> NodeValue("python", e[j], PartValues(P, e[j]), scope)]
  BY ValuesDefined
<1>3. \A n, vs : /\ NodeValue("rules", n, vs, scope) = VisitNode(n, vs, scope)
                /\ NodeValue("python", n, vs, scope) = Python(n, vs, scope)
  BY DEF NodeValue
<1> HIDE DEF V, P
<1>4. V[i] = VisitNode(e[i], PartValues(V, e[i]), scope)
  <2>1. V[i] = NodeValue("rules", e[i], PartValues(V, e[i]), scope)
    BY <1>1
  <2>2. QED
    BY <1>3, <2>1
<1>5. P[i] = Python(e[i], PartValues(P, e[i]), scope)
  <2>1. P[i] = NodeValue("python", e[i], PartValues(P, e[i]), scope)
    BY <1>2
  <2>2. QED
    BY <1>3, <2>1
<1>6. QED
  BY <1>4, <1>5 DEF V, P

(* What is said of a node can be said of its parts. *)
LEMMA PartsInherit ==
    ASSUME NEW e, Tree(e), NEW scope, NEW i \in 1..Len(e), NEW k \in DOMAIN e[i].kids
    PROVE  LET j == e[i].kids[k]
           IN  /\ j \in 1..(i - 1) /\ j \in 1..Len(e)
               /\ HasLong(e, j) => HasLong(e, i)
               /\ LongWithin(e, j) => LongWithin(e, i)
               /\ Strict(e, i, scope) => Strict(e, j, scope)
<1> DEFINE j == e[i].kids[k]
<1>1. DOMAIN e = 1..Len(e) /\ Len(e) \in Nat /\ j \in 1..(i - 1)
  BY DEF Tree, Numbered
<1>2. j \in DOMAIN e /\ j \in 1..Len(e)
  BY <1>1
<1>3. i \in Parts(e, i) /\ j \in Parts(e, i)
  BY <1>1, <1>2, PartsNest
<1>4. Parts(e, j) \subseteq Parts(e, i)
  BY <1>1, <1>3, PartsNest
<1>5. HasLong(e, j) => HasLong(e, i)
  BY <1>4 DEF HasLong
<1>6. LongWithin(e, j) => LongWithin(e, i)
  BY <1>4 DEF LongWithin
<1>7. Strict(e, i, scope) => Strict(e, j, scope)
  BY <1>4 DEF Strict
<1>8. QED
  BY <1>1, <1>2, <1>5, <1>6, <1>7

LEMMA AgreeNode ==
    ASSUME NEW e, Tree(e), NEW scope, NEW i \in 1..Len(e),
           \A j \in 1..(i - 1) : Agree(e, scope, j)
    PROVE  Agree(e, scope, i)
<1> DEFINE V == Values("rules", e, scope)
           P == Values("python", e, scope)
           n == e[i]
           vs == PartValues(V, n)
           ps == PartValues(P, n)
<1>1. Shaped(n) /\ i \in DOMAIN e
  BY DEF Tree, Numbered
<1>2. V[i] = VisitNode(n, vs, scope) /\ P[i] = Python(n, ps, scope)
  BY NodesOf
<1>3. PartsOf(vs, n) /\ PartsOf(ps, n)
  BY DEF PartsOf, PartValues
<1>4. \A k \in DOMAIN n.kids : vs[k] = V[n.kids[k]] /\ ps[k] = P[n.kids[k]]
  BY DEF PartValues
<1>5. i \in Parts(e, i)
  BY <1>1, PartsNest
<1>6. ASSUME NEW k \in DOMAIN n.kids
      PROVE  /\ ~Raised(vs[k]) /\ ~HasLong(e, i) => ps[k] = vs[k]
             /\ ~Raised(vs[k]) /\ ~LongWithin(e, i) => ~Raised(ps[k]) /\ Truth(ps[k]) = Truth(vs[k])
             /\ Raised(vs[k]) /\ Strict(e, i, scope) /\ ~LongWithin(e, i) => Raised(ps[k])
  <2> DEFINE j == n.kids[k]
  <2>1. Agree(e, scope, j)
    BY PartsInherit
  <2>2. /\ HasLong(e, j) => HasLong(e, i)
        /\ LongWithin(e, j) => LongWithin(e, i)
        /\ Strict(e, i, scope) => Strict(e, j, scope)
    BY PartsInherit
  <2>3. vs[k] = V[j] /\ ps[k] = P[j]
    BY <1>4
  <2>4. /\ ~Raised(V[j]) /\ ~HasLong(e, j) => P[j] = V[j]
        /\ ~Raised(V[j]) /\ ~LongWithin(e, j) => ~Raised(P[j]) /\ Truth(P[j]) = Truth(V[j])
        /\ Raised(V[j]) /\ Strict(e, j, scope) /\ ~LongWithin(e, j) => Raised(P[j])
    BY <2>1 DEF Agree
  <2> HIDE DEF j, vs, ps, V, P
  <2>5. QED
    BY <2>2, <2>3, <2>4
<1>7. n.node \in Exacting /\ ~LongWithin(e, i) => ~HasLong(e, i)
  BY <1>5 DEF LongWithin, HasLong, Exacting
<1>8. ~HasLong(e, i) => ~Long(n)
  BY <1>5 DEF HasLong
<1>9. Strict(e, i, scope) =>
        /\ n.node \notin {"Not", "Call"}
        /\ n.node = "BoolOp" => \A k \in DOMAIN n.kids : ~Raised(ps[k])
  BY <1>4, <1>5 DEF Strict
<1> HIDE DEF V, P, vs, ps, n
<1>10. ASSUME ~Raised(V[i]), ~HasLong(e, i)
       PROVE  P[i] = V[i]
  BY <1>1, <1>2, <1>3, <1>6, <1>8, <1>10, ExactNode
<1>11. ASSUME ~Raised(V[i]), ~LongWithin(e, i)
       PROVE  ~Raised(P[i]) /\ Truth(P[i]) = Truth(V[i])
  <2>1. CASE n.node \in Exacting
    BY <1>7, <1>10, <1>11, <2>1
  <2>2. CASE n.node \notin Exacting
    BY <1>1, <1>2, <1>3, <1>6, <1>11, <2>2, AlikeNode
  <2>3. QED
    BY <2>1, <2>2
<1>12. ASSUME Raised(V[i]), Strict(e, i, scope), ~LongWithin(e, i)
       PROVE  Raised(P[i])
  <2>1. n.node \in Exacting => \A k \in DOMAIN n.kids : Raised(vs[k]) \/ ps[k] = vs[k]
    BY <1>6, <1>7, <1>12
  <2>2. \A k \in DOMAIN n.kids : Raised(vs[k]) => Raised(ps[k])
    BY <1>6, <1>12
  <2>3. \A k \in DOMAIN n.kids : ~Raised(vs[k]) => Truth(ps[k]) = Truth(vs[k])
    BY <1>6, <1>12
  <2>4. n.node \notin {"Not", "Call"}
    BY <1>9, <1>12
  <2>5. n.node = "BoolOp" => \A k \in DOMAIN n.kids : ~Raised(ps[k])
    BY <1>9, <1>12
  <2>6. Raised(VisitNode(n, vs, scope))
    BY <1>2, <1>12
  <2>7. Raised(Python(n, ps, scope))
    BY <1>1, <1>3, <2>1, <2>2, <2>3, <2>4, <2>5, <2>6, FailingNode
  <2>8. QED
    BY <1>2, <2>7
<1>13. QED
  BY <1>10, <1>11, <1>12 DEF Agree, V, P

LEMMA AllAgree ==
    ASSUME NEW e, Tree(e), NEW scope
    PROVE  \A i \in 1..Len(e) : Agree(e, scope, i)
<1> DEFINE Bad == {i \in 1..Len(e) : ~Agree(e, scope, i)}
<1>1. Len(e) \in Nat
  BY DEF Tree, Numbered
<1>2. SUFFICES ASSUME Bad # {}
               PROVE  FALSE
  OBVIOUS
<1>3. PICK i \in Bad : \A j \in Bad : i <= j
  <2>1. Bad \subseteq Nat
    BY <1>1
  <2> HIDE DEF Bad
  <2>2. QED
    BY <1>2, <2>1, LeastNumber
<1>4. \A j \in 1..(i - 1) : j \in 1..Len(e) /\ j \notin Bad
  BY <1>1, <1>3
<1>5. \A j \in 1..(i - 1) : Agree(e, scope, j)
  BY <1>4
<1>6. QED
  BY <1>3, <1>5, AgreeNode

-----------------------------------------------------------------------------
(* The lines of a policy, none of which is empty: the value of an operand, whether all
   operands have one, and whether a line on its own is true *)
Lined(lines) == /\ Numbered(lines) /\ Len(lines) > 0
                /\ \A l \in DOMAIN lines : Numbered(lines[l]) /\ Len(lines[l]) > 0

Operand(lines, scope, l, d) == Value("policies", lines[l][d], scope)
AllSound(lines, scope) ==
    \A l \in DOMAIN lines : \A d \in DOMAIN lines[l] : ~Raised(Operand(lines, scope, l, d))
LineHolds(lines, scope, l) == \E d \in DOMAIN lines[l] : Truth(Operand(lines, scope, l, d))

LEMMA PlacesAre ==
    ASSUME NEW lines
    PROVE  /\ \A l \in DOMAIN lines : \A d \in DOMAIN lines[l] : <<l, d>> \in Places(lines)
           /\ \A p \in Places(lines) : /\ p = <<p[1], p[2]>>
                                       /\ p[1] \in DOMAIN lines /\ p[2] \in DOMAIN lines[p[1]]
BY DEF Places

(* A term of the joined lines: the operand it begins with, and then first operands
   of later lines *)
LEMMA TermIs ==
    ASSUME NEW lines, NEW s \in Places(lines), NEW p \in Term(lines, s)
    PROVE  /\ p \in Places(lines)
           /\ p = s \/ (s[2] = Len(lines[s[1]]) /\ s[1] < p[1] /\ p[2] = 1)
BY DEF Term

(* All is evaluated, and what is true of the operands decides. *)
LEMMA JoinedIs ==
    ASSUME NEW lines, NEW scope
    PROVE  /\ ~AllSound(lines, scope) => Joined(lines, scope) = Raises
           /\ AllSound(lines, scope) =>
                Joined(lines, scope) =
                  Bool(\E s \in Places(lines) :
                         /\ Begins(s)
                         /\ \A p \in Term(lines, s) : Truth(Operand(lines, scope, p[1], p[2])))
<1> DEFINE val == [p \in Places(lines) |-> Value("policies", lines[p[1]][p[2]], scope)]
           OneTerm == \E s \in Places(lines) : Begins(s) /\ \A p \in Term(lines, s) : Truth(val[p])
           True == \E s \in Places(lines) :
                     /\ Begins(s)
                     /\ \A p \in Term(lines, s) : Truth(Operand(lines, scope, p[1], p[2]))
<1>1. /\ DOMAIN val = Places(lines)
      /\ \A p \in Places(lines) : val[p] = Operand(lines, scope, p[1], p[2])
  BY DEF Operand
<1>2. Joined(lines, scope) = IF AnyRaised(val) THEN Raises ELSE Bool(OneTerm)
  BY DEF Joined
<1> HIDE DEF val
<1>3. AnyRaised(val) <=> ~AllSound(lines, scope)
  <2>1. ASSUME NEW p \in DOMAIN val, Raised(val[p])
        PROVE  ~AllSound(lines, scope)
    BY <1>1, <2>1, PlacesAre DEF AllSound
  <2>2. ASSUME NEW l \in DOMAIN lines, NEW d \in DOMAIN lines[l], Raised(Operand(lines, scope, l, d))
        PROVE  AnyRaised(val)
    <3>1. <<l, d>> \in DOMAIN val
      BY <1>1, PlacesAre
    <3>2. val[<<l, d>>] = Operand(lines, scope, l, d)
      BY <1>1, <3>1
    <3>3. QED
      BY <2>2, <3>1, <3>2 DEF AnyRaised
  <2>3. QED
    BY <2>1, <2>2 DEF AnyRaised, AllSound
<1>4. OneTerm <=> True
  <2>1. \A s \in Places(lines) : \A p \in Term(lines, s) : val[p] = Operand(lines, scope, p[1], p[2])
    BY <1>1, TermIs
  <2>2. QED
    BY <2>1
<1>5. Bool(OneTerm) = Bool(True)
  BY <1>4 DEF Bool
<1> HIDE DEF OneTerm
<1>6. /\ ~AllSound(lines, scope) => Joined(lines, scope) = Raises
      /\ AllSound(lines, scope) => Joined(lines, scope) = Bool(True)
  BY <1>2, <1>3, <1>5
<1>7. QED
  BY <1>6

LEMMA JoinedVerdict ==
    ASSUME NEW lines, NEW scope
    PROVE  Joined(lines, scope) \in Verdicts
BY JoinedIs, BoolOf DEF Verdicts

(* Lines that each hold make the whole true, wherever the join puts its terms: take the
   last line with a true operand that begins a term.  The true operands of the lines
   after it are their first. *)
LEMMA LinesHold ==
    ASSUME NEW lines, Lined(lines), NEW scope,
           \A l \in DOMAIN lines : LineHolds(lines, scope, l)
    PROVE  \E s \in Places(lines) :
             /\ Begins(s)
             /\ \A p \in Term(lines, s) : Truth(Operand(lines, scope, p[1], p[2]))
<1> DEFINE len == Len(lines)
           True(l, d) == Truth(Operand(lines, scope, l, d))
           Opens(l) == \E d \in DOMAIN lines[l] : True(l, d) /\ Begins(<<l, d>>)
           Back == {m \in 0..(len - 1) : Opens(len - m)}
<1>1. len \in Nat /\ len > 0 /\ DOMAIN lines = 1..len
  BY DEF Lined, Numbered
<1>2. \A l \in DOMAIN lines : Len(lines[l]) \in Nat /\ DOMAIN lines[l] = 1..Len(lines[l])
  BY DEF Lined, Numbered
<1>3. \A l \in DOMAIN lines : \E d \in DOMAIN lines[l] : True(l, d)
  BY DEF LineHolds
<1> HIDE DEF True
<1>4. Opens(1)
  <2>0. 1 \in DOMAIN lines
    BY <1>1
  <2>1. PICK d \in DOMAIN lines[1] : True(1, d)
    BY <1>3, <2>0
  <2>2. d \in 1..Len(lines[1])
    BY <1>2, <2>0
  <2>3. d > 1 \/ d = 1
    BY <1>2, <2>0, <2>2
  <2>4. Begins(<<1, d>>)
    BY <2>3 DEF Begins
  <2>5. QED
    BY <2>1, <2>4
<1>5. len - 1 \in Back
  <2>1. len - 1 \in 0..(len - 1) /\ len - (len - 1) = 1
    BY <1>1
  <2> HIDE DEF Opens, len
  <2>2. QED
    BY <1>4, <2>1
<1>6. PICK m \in Back : \A k \in Back : m <= k
  <2>1. Back \subseteq Nat
    BY <1>1
  <2> HIDE DEF Back
  <2>2. QED
    BY <1>5, <2>1, LeastNumber
<1>7. /\ len - m \in DOMAIN lines /\ Opens(len - m)
      /\ \A l \in DOMAIN lines : l > len - m => ~Opens(l)
  <2>1. len - m \in DOMAIN lines /\ Opens(len - m)
    BY <1>1, <1>6
  <2>2. ASSUME NEW l \in DOMAIN lines, l > len - m
        PROVE  ~Opens(l)
    <3>1. len - l \in 0..(len - 1) /\ len - (len - l) = l /\ ~(m <= len - l)
      BY <1>1, <1>6, <2>2
    <3>2. len - l \notin Back
      BY <1>6, <3>1
    <3> HIDE DEF Opens
    <3>3. QED
      BY <3>1, <3>2
  <2>3. QED
    BY <2>1, <2>2
<1> DEFINE first == len - m
<1> HIDE DEF first, len
<1>8. PICK d \in DOMAIN lines[first] : True(first, d) /\ Begins(<<first, d>>)
  BY <1>7 DEF first
<1> DEFINE s == <<first, d>>
<1>9. s \in Places(lines) /\ s[1] = first /\ s[2] = d /\ first \in DOMAIN lines
  BY <1>7, PlacesAre DEF first
<1>10. ASSUME NEW p \in Term(lines, s)
       PROVE  True(p[1], p[2])
  <2>1. p \in Places(lines) /\ (p = s \/ (first < p[1] /\ p[2] = 1))
    BY <1>9, TermIs
  <2>2. CASE p = s
    BY <1>8, <1>9, <2>2
  <2>3. CASE first < p[1] /\ p[2] = 1
    <3>1. p[1] \in DOMAIN lines
      BY <2>1, PlacesAre
    <3>2. PICK c \in DOMAIN lines[p[1]] : True(p[1], c)
      BY <1>3, <3>1
    <3>3. p[1] \in Nat /\ first \in Nat
      BY <1>1, <1>9, <3>1
    <3>4. ~Opens(p[1])
      <4>1. p[1] > first
        BY <2>3, <3>3
      <4> HIDE DEF Opens
      <4>2. QED
        BY <1>7, <3>1, <4>1 DEF first
    <3>5. ~Begins(<<p[1], c>>)
      BY <3>2, <3>4
    <3>6. ~(c > 1) /\ c \in 1..Len(lines[p[1]]) /\ Len(lines[p[1]]) \in Nat
      BY <1>2, <3>1, <3>5 DEF Begins
    <3>7. c = 1
      BY <3>6
    <3>8. QED
      BY <2>3, <3>2, <3>7
  <2>4. QED
    BY <2>1, <2>2, <2>3
<1>11. Begins(s)
  BY <1>8
<1>12. QED
  BY <1>9, <1>10, <1>11 DEF True

(* What denies is evaluated without an error, and has a line that is false. *)
LEMMA DeniedByLine ==
    ASSUME NEW lines, Lined(lines), NEW scope, Denies(Joined(lines, scope))
    PROVE  /\ AllSound(lines, scope)
           /\ \E l \in DOMAIN lines : ~LineHolds(lines, scope, l)
<1>1. ~Raised(Joined(lines, scope)) /\ ~Truth(Joined(lines, scope))
  BY DEF Denies
<1>2. AllSound(lines, scope)
  BY <1>1, JoinedIs, BoolOf
<1>3. ASSUME \A l \in DOMAIN lines : LineHolds(lines, scope, l)
      PROVE  FALSE
  <2> DEFINE True == \E s \in Places(lines) :
                       /\ Begins(s)
                       /\ \A p \in Term(lines, s) : Truth(Operand(lines, scope, p[1], p[2]))
  <2>1. True
    BY <1>3, LinesHold
  <2>2. Joined(lines, scope) = Bool(True)
    BY <1>2, JoinedIs
  <2> HIDE DEF True
  <2>3. Joined(lines, scope) = Bool(TRUE)
    BY <2>1, <2>2 DEF Bool
  <2>4. QED
    BY <1>1, <2>3, BoolOf
<1>4. QED
  BY <1>2, <1>3

(* Without an "or", one false line is enough. *)
LEMMA FalseLineDenies ==
    ASSUME NEW lines, Lined(lines), \A l \in DOMAIN lines : Len(lines[l]) = 1,
           NEW scope, AllSound(lines, scope),
           NEW k \in DOMAIN lines, ~LineHolds(lines, scope, k)
    PROVE  Denies(Joined(lines, scope))
<1> DEFINE True == \E s \in Places(lines) :
                     /\ Begins(s)
                     /\ \A p \in Term(lines, s) : Truth(Operand(lines, scope, p[1], p[2]))
<1>1. DOMAIN lines = 1..Len(lines) /\ Len(lines) \in Nat
  BY DEF Lined, Numbered
<1>2. \A l \in DOMAIN lines : DOMAIN lines[l] = 1..1
  BY DEF Lined, Numbered
<1>3. ASSUME NEW s \in Places(lines), Begins(s)
      PROVE  <<k, 1>> \in Term(lines, s)
  <2>1. s[1] \in DOMAIN lines /\ s[2] \in DOMAIN lines[s[1]]
    BY PlacesAre
  <2>2. s[2] = 1
    BY <1>2, <2>1
  <2>3. s = <<1, 1>>
    BY <1>3, <2>2 DEF Begins
  <2>4. <<k, 1>> \in Places(lines)
    <3>1. 1 \in DOMAIN lines[k]
      BY <1>2
    <3>2. QED
      BY <3>1, PlacesAre
  <2>5. s[1] = 1 /\ s[2] = Len(lines[s[1]])
    BY <2>1, <2>2, <2>3
  <2>6. CASE k = 1
    BY <2>3, <2>4, <2>6 DEF Term
  <2>7. CASE k # 1
    <3>1. s[1] < k
      BY <1>1, <2>5, <2>7
    <3>2. \A l \in (s[1] + 1)..(k - 1) : Len(lines[l]) = 1
      <4>1. \A l \in (s[1] + 1)..(k - 1) : l \in DOMAIN lines
        BY <1>1, <2>5
      <4>2. QED
        BY <4>1
    <3> DEFINE p == <<k, 1>>
    <3>3. p[1] = k /\ p[2] = 1
      OBVIOUS
    <3> HIDE DEF p
    <3>4. p \in Term(lines, s)
      BY <2>4, <2>5, <3>1, <3>2, <3>3 DEF Term, p
    <3>5. QED
      BY <3>4 DEF p
  <2>8. QED
    BY <2>6, <2>7
<1>4. ~Truth(Operand(lines, scope, k, 1))
  BY <1>2 DEF LineHolds
<1>5. ~True
  <2>1. ASSUME NEW s \in Places(lines), Begins(s),
               \A p \in Term(lines, s) : Truth(Operand(lines, scope, p[1], p[2]))
        PROVE  FALSE
    <3>1. Truth(Operand(lines, scope, <<k, 1>>[1], <<k, 1>>[2]))
      BY <1>3, <2>1
    <3>2. QED
      BY <1>4, <3>1
  <2>2. QED
    BY <2>1
<1>6. Joined(lines, scope) = Bool(True)
  BY JoinedIs
<1> HIDE DEF True
<1>7. Joined(lines, scope) = Bool(FALSE)
  BY <1>5, <1>6 DEF Bool
<1>8. QED
  BY <1>7, BoolOf DEF Denies

-----------------------------------------------------------------------------
(* The calls: what has been evaluated so far, and what follows from it *)
RuleOf(i) == RuleValue(job.call.rules[i], job.call.scope)

(* The rules are not asked, or the first has been, when there is one. *)
RulesInv ==
    /\ \E j \in RuleJobs : job = [kind |-> "rules", call |-> j]
    /\ seen = <<>> \/ (Len(job.call.rules) > 0 /\ seen = <<RuleOf(1)>>)

PoliciesAsked == Parsed(job.call.bundle)

(* The operands of the lines that are parsed *)
Kept(bundle) == [r \in DOMAIN bundle |-> [l \in Reached(bundle[r]) |-> bundle[r][l].operands]]

(* What is parsed of a policy are its first lines: at least one. *)
LEMMA ReachedIs ==
    ASSUME NEW lines, Numbered(lines), Len(lines) > 0
    PROVE  \E n \in Nat : n > 0 /\ Reached(lines) = 1..n /\ n <= Len(lines)
<1> DEFINE len == Len(lines)
           Ends == {m \in 1..len : lines[m].comment}
<1>1. len \in Nat /\ len > 0 /\ DOMAIN lines = 1..len
  BY DEF Numbered
<1>2. Reached(lines) = {l \in 1..len : \A m \in 1..(l - 1) : ~lines[m].comment}
  BY <1>1 DEF Reached
<1>3. CASE Ends = {}
  <2>1. \A l \in 1..len : \A m \in 1..(l - 1) : m \in 1..len
    BY <1>1
  <2>2. Reached(lines) = 1..len
    BY <1>2, <1>3, <2>1
  <2>3. len <= len
    BY <1>1
  <2>4. QED
    BY <1>1, <2>2, <2>3
<1>4. CASE Ends # {}
  <2>1. Ends \subseteq Nat
    BY <1>1
  <2>2. PICK n \in Ends : \A m \in Ends : n <= m
    <3> HIDE DEF Ends
    <3>1. QED
      BY <1>4, <2>1, LeastNumber
  <2>3. n \in 1..len /\ n \in Nat /\ n > 0 /\ n <= len /\ lines[n].comment
    BY <1>1, <2>2
  <2>4. ASSUME NEW l \in 1..len
        PROVE  l \in Reached(lines) <=> l <= n
    <3>1. ASSUME l \in Reached(lines)
          PROVE  l <= n
      <4>1. ~(n \in 1..(l - 1))
        BY <1>2, <2>3, <3>1
      <4>2. QED
        BY <1>1, <2>3, <4>1
    <3>2. ASSUME l <= n
          PROVE  l \in Reached(lines)
      <4>1. \A m \in 1..(l - 1) : m \in 1..len /\ ~(n <= m)
        BY <1>1, <2>3, <3>2
      <4>2. \A m \in 1..(l - 1) : m \notin Ends
        BY <2>2, <4>1
      <4>3. \A m \in 1..(l - 1) : ~lines[m].comment
        BY <4>1, <4>2
      <4>4. QED
        BY <1>2, <4>3
    <3>3. QED
      BY <3>1, <3>2
  <2>5. Reached(lines) = 1..n
    <3>1. \A l \in 1..n : l \in 1..len /\ l <= n
      BY <1>1, <2>3
    <3>2. \A l \in Reached(lines) : l \in 1..len
      BY <1>2
    <3>3. \A l \in 1..len : l <= n => l \in 1..n
      BY <1>1, <2>3
    <3>4. QED
      BY <2>4, <3>1, <3>2, <3>3
  <2>6. QED
    BY <2>3, <2>5
<1>5. QED
  BY <1>3, <1>4

LEMMA KeptIs ==
    ASSUME NEW j \in PolicyJobs
    PROVE  LET kept == Kept(j.bundle)
           IN  /\ Numbered(kept) /\ DOMAIN kept = DOMAIN j.bundle /\ Len(kept) = Len(j.bundle)
               /\ \A r \in DOMAIN kept : /\ Numbered(kept[r]) /\ Len(kept[r]) > 0
                                         /\ DOMAIN kept[r] = Reached(j.bundle[r])
                                         /\ \A l \in DOMAIN kept[r] :
                                              /\ kept[r][l] = j.bundle[r][l].operands
                                              /\ Numbered(kept[r][l])
<1> DEFINE bundle == j.bundle
           kept == Kept(bundle)
<1>1. /\ Numbered(bundle)
      /\ \A r \in DOMAIN bundle : /\ Numbered(bundle[r]) /\ Len(bundle[r]) > 0
                                  /\ \A l \in DOMAIN bundle[r] : Numbered(bundle[r][l].operands)
  BY RuleAssumption
<1> HIDE DEF bundle
<1>2. Numbered(kept) /\ DOMAIN kept = DOMAIN bundle /\ Len(kept) = Len(bundle)
  <2>1. Len(bundle) \in Nat /\ DOMAIN bundle = 1..Len(bundle)
    BY <1>1 DEF Numbered
  <2>2. DOMAIN kept = 1..Len(bundle) /\ kept \in [1..Len(bundle) -> {kept[r] : r \in 1..Len(bundle)}]
    BY <2>1 DEF Kept
  <2> HIDE DEF kept
  <2>3. Len(kept) = Len(bundle)
    BY <2>1, <2>2, ListOf
  <2>4. QED
    BY <2>1, <2>2, <2>3 DEF Numbered
<1>3. ASSUME NEW r \in DOMAIN kept
      PROVE  /\ Numbered(kept[r]) /\ Len(kept[r]) > 0
             /\ DOMAIN kept[r] = Reached(bundle[r])
             /\ \A l \in DOMAIN kept[r] : kept[r][l] = bundle[r][l].operands /\ Numbered(kept[r][l])
  <2>1. r \in DOMAIN bundle /\ kept[r] = [l \in Reached(bundle[r]) |-> bundle[r][l].operands]
    BY <1>2 DEF Kept
  <2>2. PICK n \in Nat : n > 0 /\ Reached(bundle[r]) = 1..n
    BY <1>1, <2>1, ReachedIs
  <2>3. DOMAIN kept[r] = 1..n /\ kept[r] \in [1..n -> {kept[r][l] : l \in 1..n}]
    BY <2>1, <2>2
  <2> HIDE DEF kept
  <2>4. Len(kept[r]) = n
    BY <2>3, ListOf
  <2>5. \A l \in Reached(bundle[r]) : l \in DOMAIN bundle[r]
    BY DEF Reached
  <2>6. QED
    BY <1>1, <2>1, <2>2, <2>3, <2>4, <2>5 DEF Numbered
<1>4. QED
  BY <1>2, <1>3 DEF bundle

(* A bundle is parsed whole or not at all: every line of it has an operand then. *)
LEMMA ParsedIs ==
    ASSUME NEW j \in PolicyJobs
    PROVE  /\ Numbered(Parsed(j.bundle))
           /\ Parsed(j.bundle) # <<>> => /\ Parsed(j.bundle) = Kept(j.bundle)
                                         /\ \A r \in DOMAIN j.bundle : Lined(Kept(j.bundle)[r])
           /\ (\A r \in DOMAIN Kept(j.bundle) :
                 \A l \in DOMAIN Kept(j.bundle)[r] : Len(Kept(j.bundle)[r][l]) # 0) =>
                Parsed(j.bundle) = Kept(j.bundle)
<1> DEFINE kept == Kept(j.bundle)
<1>1. /\ Numbered(kept) /\ DOMAIN kept = DOMAIN j.bundle
      /\ \A r \in DOMAIN kept : /\ Numbered(kept[r]) /\ Len(kept[r]) > 0
                                /\ \A l \in DOMAIN kept[r] : Numbered(kept[r][l])
  BY KeptIs
<1>2. Parsed(j.bundle) = IF \E r \in DOMAIN kept : \E l \in DOMAIN kept[r] : Len(kept[r][l]) = 0
                           THEN <<>> ELSE kept
  BY DEF Parsed, Kept
<1> HIDE DEF kept
<1>3. Numbered(Parsed(j.bundle))
  BY <1>1, <1>2 DEF Numbered
<1>4. ASSUME Parsed(j.bundle) # <<>>
      PROVE  /\ Parsed(j.bundle) = kept
             /\ \A r \in DOMAIN j.bundle : Lined(kept[r])
  <2>1. /\ Parsed(j.bundle) = kept
        /\ \A r \in DOMAIN kept : \A l \in DOMAIN kept[r] : ~(Len(kept[r][l]) = 0)
    BY <1>2, <1>4
  <2>2. ASSUME NEW r \in DOMAIN kept, NEW l \in DOMAIN kept[r]
        PROVE  Len(kept[r][l]) > 0
    <3>1. Len(kept[r][l]) \in Nat
      BY <1>1 DEF Numbered
    <3>2. QED
      BY <2>1, <3>1
  <2>3. QED
    BY <1>1, <2>1, <2>2 DEF Lined
<1>5. (\A r \in DOMAIN kept : \A l \in DOMAIN kept[r] : Len(kept[r][l]) # 0) => Parsed(j.bundle) = kept
  BY <1>2
<1>6. QED
  BY <1>3, <1>4, <1>5 DEF kept

(* The verdict is that of the first policy that denied, which ends the call. *)
PoliciesInv ==
    /\ \E j \in PolicyJobs : job = [kind |-> "policies", call |-> j]
    /\ seen \in Seq(Verdicts)
    /\ Len(seen) <= Len(PoliciesAsked)
    /\ \A i \in 1..Len(seen) : seen[i] = Joined(PoliciesAsked[i], job.call.scope)
    /\ \A i \in 1..(Len(seen) - 1) : ~Denies(seen[i])
    /\ \/ /\ verdict = Untold
          /\ Len(seen) > 0 => ~Denies(seen[Len(seen)])
       \/ /\ verdict = <<"allow", 0>>
          /\ Len(seen) = Len(PoliciesAsked)
          /\ Len(seen) > 0 => ~Denies(seen[Len(seen)])
       \/ /\ verdict = <<"denied", Len(seen)>>
          /\ Len(seen) > 0 /\ Denies(seen[Len(seen)])

LEMMA KindsOfJobs ==
    /\ RulesInv => job.kind = "rules" /\ job.call \in RuleJobs
    /\ PoliciesInv => job.kind = "policies" /\ job.call \in PolicyJobs
BY DEF RulesInv, PoliciesInv

LEMMA RulesKept == RulesInv /\ [RuleNext]_ruleVars => RulesInv'
<1> SUFFICES ASSUME RulesInv, [RuleNext]_ruleVars
             PROVE  RulesInv'
  OBVIOUS
<1>1. job.kind = "rules"
  BY KindsOfJobs
<1>2. CASE UNCHANGED <<job, seen>>
  BY <1>2 DEF RulesInv, RuleOf
<1>3. CASE ValidateRule
  <2>1. seen' = <<RuleOf(1)>> /\ UNCHANGED job /\ Len(job.call.rules) > 0
    BY <1>3 DEF ValidateRule, RuleOf
  <2>2. RuleOf(1)' = RuleOf(1)
    BY <2>1 DEF RuleOf
  <2>3. QED
    BY <2>1, <2>2 DEF RulesInv
<1>4. CASE ~ValidateRule /\ RuleNext
  BY <1>1, <1>2, <1>4 DEF RuleNext, NoRules, EvaluatePolicy, PolicyAllows, FilterItem, ApplyFilter
<1>5. QED
  BY <1>2, <1>3, <1>4 DEF ruleVars, filterVars

(* One policy of a call more *)
LEMMA PoliciesKept == PoliciesInv /\ [RuleNext]_ruleVars => PoliciesInv'
<1> SUFFICES ASSUME PoliciesInv, [RuleNext]_ruleVars
             PROVE  PoliciesInv'
  OBVIOUS
<1> DEFINE V(i) == Joined(PoliciesAsked[i], job.call.scope)
<1>1. job.kind = "policies" /\ Len(seen) \in Nat
  BY KindsOfJobs DEF PoliciesInv
<1>2. CASE UNCHANGED <<job, seen, verdict>>
  BY <1>2 DEF PoliciesInv, PoliciesAsked
<1>3. CASE EvaluatePolicy
  <2> DEFINE v == V(Len(seen) + 1)
  <2>1. /\ seen' = Append(seen, v) /\ UNCHANGED job /\ Len(seen) + 1 \in DOMAIN PoliciesAsked
        /\ verdict = Untold
        /\ verdict' = IF Denies(v) THEN <<"denied", Len(seen) + 1>> ELSE Untold
    BY <1>3 DEF EvaluatePolicy, Next1, PoliciesAsked
  <2>2. v \in Verdicts /\ seen \in Seq(Verdicts)
    BY JoinedVerdict DEF PoliciesInv
  <2>3. PoliciesAsked' = PoliciesAsked /\ \A i : V(i)' = V(i)
    BY <2>1 DEF PoliciesAsked
  <2>4. \A i \in 1..Len(seen) : seen[i] = V(i)
    BY DEF PoliciesInv
  <2>5. (\E j \in PolicyJobs : job = [kind |-> "policies", call |-> j])'
    BY <2>1 DEF PoliciesInv
  <2>6. /\ \A i \in 1..(Len(seen) - 1) : ~Denies(seen[i])
        /\ Len(seen) > 0 => ~Denies(seen[Len(seen)])
    BY <2>1 DEF PoliciesInv, Untold
  <2> HIDE DEF v
  <2>7. /\ seen' \in Seq(Verdicts) /\ Len(seen') = Len(seen) + 1
        /\ \A i \in 1..Len(seen) : seen'[i] = seen[i]
        /\ seen'[Len(seen) + 1] = v
    BY <2>1, <2>2, AppendProperties
  <2>8. \A i \in 1..Len(seen') : seen'[i] = V(i)
    <3>1. v = V(Len(seen) + 1)
      BY DEF v
    <3> HIDE DEF V
    <3>2. QED
      BY <1>1, <2>4, <2>7, <3>1
  <2>9. \A i \in 1..(Len(seen') - 1) : ~Denies(seen'[i])
    <3>1. \A i \in 1..Len(seen) : ~Denies(seen[i])
      BY <1>1, <2>6
    <3>2. Len(seen') - 1 = Len(seen)
      BY <1>1, <2>7
    <3>3. QED
      BY <2>7, <3>1, <3>2
  <2>10. Len(seen') <= Len(PoliciesAsked)
    <3>1. Numbered(PoliciesAsked)
      BY KindsOfJobs, ParsedIs DEF PoliciesAsked
    <3>2. Len(PoliciesAsked) \in Nat /\ Len(seen) + 1 \in 1..Len(PoliciesAsked)
      BY <2>1, <3>1 DEF Numbered
    <3>3. QED
      BY <1>1, <2>7, <3>2
  <2>11. Len(seen') > 0 /\ seen'[Len(seen')] = v
    BY <1>1, <2>7
  <2>12. CASE Denies(v)
    <3>1. verdict' = <<"denied", Len(seen')>> /\ Denies(seen'[Len(seen')])
      BY <2>1, <2>7, <2>11, <2>12
    <3>2. QED
      BY <2>3, <2>5, <2>7, <2>8, <2>9, <2>10, <2>11, <3>1 DEF PoliciesInv
  <2>13. CASE ~Denies(v)
    <3>1. verdict' = Untold' /\ ~Denies(seen'[Len(seen')])
      BY <2>1, <2>11, <2>13 DEF Untold
    <3>2. QED
      BY <2>3, <2>5, <2>7, <2>8, <2>9, <2>10, <3>1 DEF PoliciesInv
  <2>14. QED
    BY <2>12, <2>13
<1>4. CASE PolicyAllows
  <2>1. /\ UNCHANGED <<job, seen>> /\ PoliciesAsked' = PoliciesAsked
        /\ verdict = Untold /\ verdict' = <<"allow", 0>> /\ Len(seen) = Len(PoliciesAsked)
    BY <1>4 DEF PolicyAllows, PoliciesAsked
  <2>2. Len(seen) > 0 => ~Denies(seen[Len(seen)])
    BY <2>1 DEF PoliciesInv, Untold
  <2>3. QED
    BY <2>1, <2>2 DEF PoliciesInv
<1>5. CASE ~EvaluatePolicy /\ ~PolicyAllows /\ RuleNext
  BY <1>1, <1>5 DEF RuleNext, NoRules, ValidateRule, FilterItem, ApplyFilter
<1>6. QED
  BY <1>2, <1>3, <1>4, <1>5 DEF ruleVars, filterVars

(* A rule's value is that of its root. *)
LEMMA RulesSaid == RulesInv => RuleAsPython
<1> SUFFICES ASSUME RulesInv
             PROVE  RuleAsPython
  OBVIOUS
<1>1. job.call \in RuleJobs /\ Numbered(job.call.rules)
  BY KindsOfJobs, RuleAssumption
<1>2. \A i \in DOMAIN seen : i = 1 /\ Len(job.call.rules) > 0 /\ seen[i] = RuleOf(1)
  BY DEF RulesInv
<1>3. ASSUME NEW i \in DOMAIN seen, job.call.rules[i].rule_type = "expression"
      PROVE  LET e  == job.call.rules[i].policy
                 scope == job.call.scope
                 py == Value("python", e, scope)
             IN  /\ ~Raised(seen[i]) /\ ~LongWithin(e, Len(e)) =>
                      ~Raised(py) /\ Truth(py) = Truth(seen[i])
                 /\ Raised(seen[i]) /\ Strict(e, Len(e), scope) /\ ~LongWithin(e, Len(e)) => Raised(py)
  <2> DEFINE e     == job.call.rules[i].policy
             scope == job.call.scope
  <2>1. i \in DOMAIN job.call.rules
    BY <1>1, <1>2 DEF Numbered
  <2>2. Tree(e)
    BY <1>1, <1>3, <2>1, RuleAssumption
  <2>3. seen[i] = Value("rules", e, scope)
    BY <1>2, <1>3 DEF RuleOf, RuleValue
  <2> HIDE DEF e, scope
  <2>4. Len(e) \in 1..Len(e)
    <3>1. Len(e) \in Nat /\ Len(e) > 0
      BY <2>2 DEF Tree, Numbered
    <3>2. QED
      BY <3>1
  <2>5. Agree(e, scope, Len(e))
    BY <2>2, <2>4, AllAgree
  <2>6. /\ ~Raised(seen[i]) /\ ~LongWithin(e, Len(e)) =>
             ~Raised(Value("python", e, scope)) /\ Truth(Value("python", e, scope)) = Truth(seen[i])
        /\ Raised(seen[i]) /\ Strict(e, Len(e), scope) /\ ~LongWithin(e, Len(e)) =>
             Raised(Value("python", e, scope))
    BY <2>3, <2>5 DEF Agree, Value
  <2>7. QED
    BY <2>6 DEF e, scope
<1>4. QED
  BY <1>3 DEF RuleAsPython

(* The first policy that denies is the first false one, where a false line denies. *)
LEMMA PoliciesSaid == PoliciesInv => PolicyByLines
<1> SUFFICES ASSUME PoliciesInv, verdict # Untold
             PROVE  PolicyByLines
  BY DEF PolicyByLines
<1> DEFINE bundle == job.call.bundle
           kept == Kept(bundle)
           scope == job.call.scope
           Operands(r, l) == DOMAIN bundle[r][l].operands
           Of(r, l, d) == Value("policies", bundle[r][l].operands[d], scope)
           Sound(r) == \A l \in Reached(bundle[r]) : \A d \in Operands(r, l) : ~Raised(Of(r, l, d))
           Holds(r, l) == \E d \in Operands(r, l) : Truth(Of(r, l, d))
           False(r) == Sound(r) /\ \E l \in Reached(bundle[r]) : ~Holds(r, l)
           Plain(r) == \A l \in Reached(bundle[r]) : Len(bundle[r][l].operands) = 1
           n == Len(seen)
<1>1. job.call \in PolicyJobs /\ Numbered(kept) /\ DOMAIN kept = DOMAIN bundle
  BY KindsOfJobs, KeptIs
<1>2. \A r \in DOMAIN bundle :
        /\ Numbered(kept[r]) /\ Len(kept[r]) > 0 /\ DOMAIN kept[r] = Reached(bundle[r])
        /\ \A l \in Reached(bundle[r]) : kept[r][l] = bundle[r][l].operands /\ Numbered(kept[r][l])
  BY <1>1, KeptIs
<1>3. n \in Nat /\ DOMAIN seen = 1..n /\ n <= Len(PoliciesAsked)
  BY DEF PoliciesInv
<1>4. DOMAIN bundle = 1..Len(kept) /\ Len(kept) \in Nat
  BY <1>1 DEF Numbered
<1>5. \A i \in 1..n : seen[i] = Joined(PoliciesAsked[i], scope)
  BY DEF PoliciesInv
<1>6. \A i \in 1..(n - 1) : ~Denies(seen[i])
  BY DEF PoliciesInv
<1>7. \/ verdict = <<"allow", 0>> /\ n = Len(PoliciesAsked) /\ (n > 0 => ~Denies(seen[n]))
      \/ verdict = <<"denied", n>> /\ n > 0 /\ Denies(seen[n])
  BY DEF PoliciesInv
\* A bundle of which a policy was evaluated is one in which every line parses.
<1>8. ASSUME PoliciesAsked # <<>>
      PROVE  PoliciesAsked = kept /\ \A r \in DOMAIN bundle : Lined(kept[r])
  BY <1>1, <1>8, ParsedIs DEF PoliciesAsked
<1> HIDE DEF kept
<1>9. ASSUME NEW r \in DOMAIN bundle
       PROVE  /\ False(r) <=> /\ AllSound(kept[r], scope)
                              /\ \E l \in DOMAIN kept[r] : ~LineHolds(kept[r], scope, l)
              /\ Plain(r) <=> \A l \in DOMAIN kept[r] : Len(kept[r][l]) = 1
  <2>1. \A l \in Reached(bundle[r]) : \A d : Operand(kept[r], scope, l, d) = Of(r, l, d)
    BY <1>2 DEF Operand
  <2>2. AllSound(kept[r], scope) <=> Sound(r)
    BY <1>2, <2>1 DEF AllSound
  <2>3. \A l \in Reached(bundle[r]) : LineHolds(kept[r], scope, l) <=> Holds(r, l)
    BY <1>2, <2>1 DEF LineHolds
  <2>4. Plain(r) <=> \A l \in DOMAIN kept[r] : Len(kept[r][l]) = 1
    BY <1>2
  <2> HIDE DEF Sound, Holds
  <2>5. QED
    BY <1>2, <2>2, <2>3, <2>4
<1> HIDE DEF False, Plain
<1>10. ASSUME verdict[1] = "denied"
      PROVE  n \in DOMAIN bundle /\ verdict = <<"denied", n>> /\ False(n) /\ PoliciesAsked = kept
  <2>1. verdict = <<"denied", n>> /\ n > 0 /\ Denies(seen[n])
    BY <1>7, <1>10
  <2>2. PoliciesAsked # <<>>
    BY <1>3, <2>1
  <2>3. PoliciesAsked = kept /\ \A r \in DOMAIN bundle : Lined(kept[r])
    BY <1>8, <2>2
  <2>4. n \in DOMAIN bundle
    BY <1>3, <1>4, <2>1, <2>3
  <2>5. Denies(Joined(kept[n], scope))
    BY <1>3, <1>5, <2>1, <2>3
  <2>6. False(n)
    BY <1>9, <2>3, <2>4, <2>5, DeniedByLine
  <2>7. QED
    BY <2>1, <2>3, <2>4, <2>6
<1>11. ASSUME \A r \in DOMAIN bundle : Plain(r)
       PROVE  /\ PoliciesAsked = kept
              /\ \A i \in 1..n : Denies(seen[i]) <=> False(i)
  <2>1. \A r \in DOMAIN kept : \A l \in DOMAIN kept[r] : Len(kept[r][l]) = 1
    BY <1>1, <1>11, <1>9
  <2>2. PoliciesAsked = kept /\ \A r \in DOMAIN bundle : Lined(kept[r])
    <3>1. \A r \in DOMAIN kept : \A l \in DOMAIN kept[r] : Len(kept[r][l]) > 0 /\ Len(kept[r][l]) # 0
      BY <2>1
    <3>2. PoliciesAsked = kept
      BY <1>1, <3>1, ParsedIs DEF PoliciesAsked, kept
    <3>3. ASSUME NEW r \in DOMAIN bundle
          PROVE  Lined(kept[r])
      <4>1. /\ Numbered(kept[r]) /\ Len(kept[r]) > 0
            /\ \A l \in DOMAIN kept[r] : Numbered(kept[r][l]) /\ Len(kept[r][l]) > 0
        BY <1>1, <1>2, <3>1
      <4>2. QED
        BY <4>1 DEF Lined
    <3>4. QED
      BY <3>2, <3>3
  <2>3. ASSUME NEW i \in 1..n
        PROVE  Denies(seen[i]) <=> False(i)
    <3>1. i \in DOMAIN bundle
      BY <1>3, <1>4, <2>2
    <3>2. seen[i] = Joined(kept[i], scope) /\ Lined(kept[i])
      BY <1>5, <2>2, <3>1
    <3>3. Denies(seen[i]) => False(i)
      BY <1>9, <3>1, <3>2, DeniedByLine
    <3>4. False(i) => Denies(seen[i])
      BY <1>1, <1>9, <2>1, <3>1, <3>2, FalseLineDenies
    <3>5. QED
      BY <3>3, <3>4
  <2>4. QED
    BY <2>2, <2>3
<1> HIDE DEF n
<1>12. ASSUME \A r \in DOMAIN bundle : Plain(r)
       PROVE  verdict = IF \E r \in DOMAIN bundle : False(r)
                        THEN <<"denied", CHOOSE r \in DOMAIN bundle :
                                           False(r) /\ \A s \in 1..(r - 1) : ~False(s)>>
                        ELSE <<"allow", 0>>
  <2>1. PoliciesAsked = kept /\ \A i \in 1..n : Denies(seen[i]) <=> False(i)
    BY <1>11, <1>12
  <2>2. \A i \in 1..(n - 1) : ~False(i)
    BY <1>3, <1>6, <2>1
  <2>3. CASE verdict[1] = "denied"
    <3>1. n \in DOMAIN bundle /\ verdict = <<"denied", n>> /\ False(n)
      BY <1>10, <2>3
    <3>2. ASSUME NEW r \in DOMAIN bundle, False(r), \A s \in 1..(r - 1) : ~False(s)
          PROVE  r = n
      <4>1. ~(r < n)
        BY <1>3, <1>4, <2>2, <3>2
      <4>2. ~(n < r)
        BY <1>3, <1>4, <3>1, <3>2
      <4>3. QED
        BY <1>3, <1>4, <4>1, <4>2
    <3>3. n = CHOOSE r \in DOMAIN bundle : False(r) /\ \A s \in 1..(r - 1) : ~False(s)
      BY <2>2, <3>1, <3>2
    <3>4. QED
      BY <3>1, <3>3
  <2>4. CASE verdict[1] # "denied"
    <3>1. verdict = <<"allow", 0>> /\ n = Len(kept) /\ (n > 0 => ~Denies(seen[n]))
      BY <1>7, <2>1, <2>4
    <3>2. ASSUME NEW r \in DOMAIN bundle
          PROVE  ~False(r)
      <4>1. r \in 1..n
        BY <1>4, <3>1
      <4>2. CASE r = n
        BY <1>3, <2>1, <3>1, <4>1, <4>2
      <4>3. CASE r # n
        BY <1>3, <2>2, <4>1, <4>3
      <4>4. QED
        BY <4>2, <4>3
    <3>3. QED
      BY <3>1, <3>2
  <2>5. QED
    BY <2>3, <2>4
<1>13. QED
  <2>1. verdict[1] = "denied" => False(verdict[2])
    <3>1. verdict[1] = "denied" => verdict[2] = n /\ False(n)
      BY <1>10
    <3>2. QED
      BY <3>1
  <2> USE DEF False, Plain
  <2>2. QED
    BY <1>12, <2>1, Zenon DEF PolicyByLines

-----------------------------------------------------------------------------
(* Every job is of one of the three kinds, and no step makes it another. *)
JobInv == FilterInv \/ RulesInv \/ PoliciesInv

LEMMA JobStart == RuleInit => JobInv
<1> SUFFICES ASSUME RuleInit
             PROVE  JobInv
  OBVIOUS
<1>1. CASE FilterInit
  BY <1>1, FilterInvInit DEF JobInv
<1>2. CASE seen = <<>> /\ \E j \in RuleJobs : job = [kind |-> "rules", call |-> j]
  BY <1>2 DEF RulesInv, JobInv
<1>3. CASE seen = <<>> /\ \E j \in PolicyJobs : job = [kind |-> "policies", call |-> j]
  <2>1. Len(PoliciesAsked) \in Nat
    BY <1>3, ParsedIs DEF PoliciesAsked, Numbered
  <2>2. PoliciesInv
    BY <1>3, <2>1 DEF PoliciesInv, RuleInit
  <2>3. QED
    BY <2>2 DEF JobInv
<1>4. QED
  BY <1>1, <1>2, <1>3 DEF RuleInit

LEMMA FilterKept == FilterInv /\ [RuleNext]_ruleVars => FilterInv'
<1> SUFFICES ASSUME FilterInv, [RuleNext]_ruleVars
             PROVE  FilterInv'
  OBVIOUS
<1>1. job.kind = "filters"
  BY DEF FilterInv
<1>2. ApplyFilter \/ UNCHANGED filterVars
  BY <1>1 DEF RuleNext, ValidateRule, NoRules, EvaluatePolicy, PolicyAllows, FilterItem, ruleVars
<1>3. QED
  BY <1>2, FilterInvNext

LEMMA JobKept == JobInv /\ [RuleNext]_ruleVars => JobInv'
BY FilterKept, RulesKept, PoliciesKept DEF JobInv

LEMMA JobSaid == JobInv => RuleAsPython /\ PolicyByLines /\ FiltersPartition
<1>1. RulesInv => PolicyByLines /\ FiltersPartition
  BY KindsOfJobs DEF PolicyByLines, FiltersPartition
<1>2. PoliciesInv => RuleAsPython /\ FiltersPartition
  BY KindsOfJobs DEF RuleAsPython, FiltersPartition
<1>3. FilterInv => job.kind = "filters"
  BY DEF FilterInv
<1>4. FilterInv => RuleAsPython /\ PolicyByLines
  BY <1>3 DEF RuleAsPython, PolicyByLines
<1>5. QED
  BY <1>1, <1>2, <1>4, RulesSaid, PoliciesSaid, FiltersSplit DEF JobInv

LEMMA JobInvariance == RuleSpec => []JobInv
BY JobStart, JobKept, PTL DEF RuleSpec

(* For rules of any length, shape and scope: where SafeExprEvaluator gives a value
   Python gives one as true, unless a comparison reads a join of three operands; and
   where it fails Python fails, on a rule that uses no "not" and no call and whose
   operands can all be evaluated (_visit, _validate_rules). *)
THEOREM RulesAsPython == RuleSpec => []RuleAsPython
BY JobInvariance, JobSaid, PTL

(* For bundles of any number of policies, lines and operands, of the lines up to the
   first comment: a policy denies only when all its operands can be evaluated and one
   of its lines is false; without an "or" the first such policy is what is reported
   (OPAClient.evaluate). *)
THEOREM PoliciesByLines == RuleSpec => []PolicyByLines
BY JobInvariance, JobSaid, PTL

(* What FiltersSplitItems says of filters alone, among the other jobs. *)
THEOREM FiltersSplitJobs == RuleSpec => []FiltersPartition
BY JobInvariance, JobSaid, PTL
=============================================================================
