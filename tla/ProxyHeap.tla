------------------------------ MODULE ProxyHeap ------------------------------
(***************************************************************************)
(* The priority queue of the load-balance proxy: a binary heap of pairs    *)
(* (priority, server), kept by Python's heapq, from which an entry in the  *)
(* middle is removed by rebuilding the list without it.                    *)
(***************************************************************************)
EXTENDS Integers, Sequences, FiniteSets

Entry(priority, server) == [priority |-> priority, server |-> server]

\* Tuples are compared from the left; servers are numbered.
Less(x, y) ==
    \/ x.priority < y.priority
    \/ x.priority = y.priority /\ x.server < y.server

-------------------------------------------------------------------------------
(* heapq (external), with positions from 1 *)

Parent(pos) == pos \div 2

AncestorsOrSelf(pos) ==
    LET up[i \in 0 .. pos] == IF i = 0 THEN {} ELSE {i} \cup up[Parent(i)]
    IN  up[pos]

\* _siftdown(): the item at pos moves up past every greater ancestor.
SiftDown(heap, pos) ==
    LET item == heap[pos]
        place[i \in 1 .. pos] ==
            IF i > 1 /\ Less(item, heap[Parent(i)]) THEN place[Parent(i)] ELSE i
        moved == {i \in AncestorsOrSelf(pos) : i > place[pos]}
    IN  [i \in DOMAIN heap |->
            IF i = place[pos] THEN item ELSE IF i \in moved THEN heap[Parent(i)] ELSE heap[i]]

SmallerChild(heap, pos) ==
    IF 2 * pos + 1 \in DOMAIN heap /\ ~ Less(heap[2 * pos], heap[2 * pos + 1])
    THEN 2 * pos + 1 ELSE 2 * pos

\* _siftup(0): the smaller children move up along the path to a leaf, where the
\* item is put and moves up again.
SiftUp(heap) ==
    LET height == Len(heap)
        leaf[k \in 0 .. height] ==   \* the path after k levels
            IF k = 0 THEN 1
            ELSE LET pos == leaf[k - 1]
                 IN  IF 2 * pos \in DOMAIN heap THEN SmallerChild(heap, pos) ELSE pos
        path == AncestorsOrSelf(leaf[height])
        shifted == [i \in DOMAIN heap |->
                       IF i = leaf[height] THEN heap[1]
                       ELSE IF i \in path THEN heap[SmallerChild(heap, i)] ELSE heap[i]]
    IN  SiftDown(shifted, leaf[height])

HeapPush(heap, entry) == SiftDown(Append(heap, entry), Len(heap) + 1)

\* The heap that heappop() leaves; what it returns is heap[1].
HeapPop(heap) ==
    LET rest == SubSeq(heap, 1, Len(heap) - 1)
    IN  IF rest = <<>> THEN rest ELSE SiftUp([rest EXCEPT ![1] = heap[Len(heap)]])

-------------------------------------------------------------------------------
(* The proxy *)

\* mutant: the old entry stays
UpdatePriorityKeepsOld(heap, server, priority) == HeapPush(heap, Entry(priority, server))

\* The list without the entries of a server, in the same order.
Without(heap, server) ==
    LET kept[i \in 0 .. Len(heap)] ==
            IF i = 0 THEN <<>>
            ELSE IF heap[i].server = server THEN kept[i - 1] ELSE Append(kept[i - 1], heap[i])
    IN  kept[Len(heap)]

\* _update_prefiller_priority(), _update_decoder_priority(): the list without the
\* old entry is not made a heap again.
UpdatePriority(heap, server, priority) ==
    HeapPush(Without(heap, server), Entry(priority, server))

Chosen(heap) == heap[1].server

InitialHeap(n) == [i \in 1 .. n |-> Entry(0, i)]

-------------------------------------------------------------------------------
(* What selection relies on *)

\* The heap has one entry per server, with the priority of the server.
HeapMirrors(heap, priority) ==
    /\ Len(heap) = Cardinality(DOMAIN priority)
    /\ {heap[i] : i \in DOMAIN heap} = {Entry(priority[s], s) : s \in DOMAIN priority}

===============================================================================
