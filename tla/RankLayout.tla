----------------------------- MODULE RankLayout -----------------------------
(***************************************************************************)
(* Which ranks share a secondary communication group                       *)
(* (src/dynamicPD/vllm/vllm/distributed/parallel_state.py and              *)
(* src/dynamicPD/vllm_ascend/vllm_ascend/distributed/parallel_state.py).   *)
(*                                                                         *)
(* The code arranges the ranks in a tensor of one axis per kind of         *)
(* parallelism, transposes two axes, reshapes to rows and takes each row   *)
(* for a group.  The definitions here do the same; the reference below     *)
(* them says what a group of each kind is, by the coordinates of a rank.   *)
(***************************************************************************)
EXTENDS Integers, Sequences, FiniteSets, SequencesExt, FiniteSetsExt

\* The axes of all_ranks: external data parallelism, then as they are named.
EXT == 1
DP  == 2
PP  == 3
PCP == 4
TP  == 5

-------------------------------------------------------------------------------
(* Tensors: the sizes of the axes and the elements in row-major order. *)

Product(sizes) == FoldLeft(LAMBDA acc, size : acc * size, 1, sizes)

Stride(dims, axis) == Product(SubSeq(dims, axis + 1, Len(dims)))

\* The coordinate of the k-th element, from 0, along an axis.
Coordinate(dims, k, axis) == (k \div Stride(dims, axis)) % dims[axis]

\* torch.arange(n).reshape(dims)
Arange(dims) == [dims |-> dims, flat |-> [k \in 1 .. Product(dims) |-> k - 1]]

\* tensor.transpose(a, b)
Transpose(t, a, b) ==
    LET swap(axis) == IF axis = a THEN b ELSE IF axis = b THEN a ELSE axis
        dims == [axis \in DOMAIN t.dims |-> t.dims[swap(axis)]]
        from(k) == MapThenSumSet(
            LAMBDA axis : Coordinate(dims, k, axis) * Stride(t.dims, swap(axis)), DOMAIN dims)
    IN  [dims |-> dims, flat |-> [k \in DOMAIN t.flat |-> t.flat[from(k - 1) + 1]]]

\* tensor.reshape(-1, size).unbind(0)
Rows(t, size) ==
    [row \in 1 .. Len(t.flat) \div size |->
        [i \in 1 .. size |-> t.flat[(row - 1) * size + i]]]

-------------------------------------------------------------------------------
(* vLLM's groups, _initialize_offload_model_parallel_groups.  A configuration c *)
(* has the sizes of the axes in c.dims and c.elastic for enable_elastic_ep.     *)

AllRanks(c) == Arange(c.dims)

\* mutant: elastic EP counts the ranks of all engines
LocalRanksOfAll(c) == AllRanks(c)

\* local_all_ranks: with elastic EP the groups within a data-parallel engine
\* count their ranks from 0.
LocalRanks(c) == IF c.elastic THEN Arange(<<1, 1, c.dims[PP], c.dims[PCP], c.dims[TP]>>)
                 ELSE AllRanks(c)

\* mutant: the expert-parallel rows are cut without the transposition
VllmRowsNoTranspose(c, name) ==
    CASE name = "TP"  -> Rows(LocalRanks(c), c.dims[TP])
      [] name = "DCP" -> Rows(LocalRanks(c), c.dcp)
      [] name = "PCP" -> Rows(Transpose(LocalRanks(c), PCP, TP), c.dims[PCP])
      [] name = "PP"  -> Rows(Transpose(LocalRanks(c), PP, TP), c.dims[PP])
      [] name = "DP"  -> Rows(Transpose(AllRanks(c), DP, TP), c.dims[DP])
      [] name \in {"EP", "EPLB"} -> Rows(AllRanks(c), c.dims[DP] * c.dims[PCP] * c.dims[TP])

VllmRows(c, name) ==
    CASE name = "TP"  -> Rows(LocalRanks(c), c.dims[TP])
      [] name = "DCP" -> Rows(LocalRanks(c), c.dcp)
      [] name = "PCP" -> Rows(Transpose(LocalRanks(c), PCP, TP), c.dims[PCP])
      [] name = "PP"  -> Rows(Transpose(LocalRanks(c), PP, TP), c.dims[PP])
      [] name = "DP"  -> Rows(Transpose(AllRanks(c), DP, TP), c.dims[DP])
      [] name \in {"EP", "EPLB"} ->
             Rows(Transpose(AllRanks(c), DP, PP), c.dims[DP] * c.dims[PCP] * c.dims[TP])

-------------------------------------------------------------------------------
(* vLLM-Ascend's groups, init_ascend_model_parallel *)

\* The order in which the prefill tensor-parallel ranks are told apart: by head
\* replica first when there are several.
PTpOrder(c) ==
    IF c.num_head_replica <= 1 THEN AllRanks(c)
    ELSE Transpose([dims |-> <<c.dims[EXT] * c.dims[DP] * c.dims[PP] * c.dims[PCP],
                               c.dims[TP] \div c.num_head_replica, c.num_head_replica>>,
                    flat |-> AllRanks(c).flat], 2, 3)

\* pd_tp_ratio, or alltoall_group_size
PTpSize(c) ==
    LET remote_tp_size == c.dims[TP] \div c.pd_tp_ratio
    IN  IF c.num_head_replica <= 1 THEN c.pd_tp_ratio
        ELSE (c.dims[TP] \div c.num_head_replica) \div remote_tp_size

\* mutant: neighbouring ranks are chunked
FineGrainedRowsOfNeighbours(c, size) == Rows(AllRanks(c), size)

\* create_or_get_group: chunks of the data-parallel axis of rank_grid, which has
\* its axes in the order pipeline, data, tensor
FineGrainedRows(c, size) ==
    LET dp == c.dims[DP]
        tp == c.dims[TP]
        chunks == dp \div size
    IN  [g \in 1 .. c.dims[PP] * chunks * tp |->
            LET pp_idx == (g - 1) \div (chunks * tp)
                chunk  == ((g - 1) \div tp) % chunks
                tp_idx == (g - 1) % tp
            IN  [i \in 1 .. size |-> (pp_idx * dp + chunk * size + i - 1) * tp + tp_idx]]

\* global_rank: g counts the tensor-parallel groups, i and j the rows and columns
FlashComm2Rank(c, g, i, j) == g * c.dims[TP] + i + j * (c.dims[TP] \div c.flashcomm2)

\* flashcomm2_otp_group_ranks and odp_group_ranks: rows and columns of each group
FlashComm2OtpRows(c) ==
    LET rows == c.dims[TP] \div c.flashcomm2
    IN  [n \in 1 .. c.dims[DP] * c.dims[PP] * rows |->
            [j \in 1 .. c.flashcomm2 |->
                FlashComm2Rank(c, (n - 1) \div rows, (n - 1) % rows, j - 1)]]

\* mutant: the columns are strided as the rows are
FlashComm2OdpRowsStrided(c) ==
    LET rows == c.dims[TP] \div c.flashcomm2
        group(n) == ((n - 1) \div c.flashcomm2) * c.dims[TP] + ((n - 1) % c.flashcomm2)
    IN  [n \in 1 .. c.dims[DP] * c.dims[PP] * c.flashcomm2 |->
            [i \in 1 .. rows |-> group(n) + (i - 1) * c.flashcomm2]]

FlashComm2OdpRows(c) ==
    LET rows == c.dims[TP] \div c.flashcomm2
    IN  [n \in 1 .. c.dims[DP] * c.dims[PP] * c.flashcomm2 |->
            [i \in 1 .. rows |->
                FlashComm2Rank(c, (n - 1) \div c.flashcomm2, i - 1, (n - 1) % c.flashcomm2)]]

-------------------------------------------------------------------------------
(* The reference: what the groups are meant to be. *)

\* The ranks that differ from rank r along the given axes at most.
Along(dims, axes, r) ==
    {s \in 0 .. Product(dims) - 1 :
        \A axis \in DOMAIN dims \ axes : Coordinate(dims, s, axis) = Coordinate(dims, r, axis)}

Classes(dims, axes) == {Along(dims, axes, r) : r \in 0 .. Product(dims) - 1}

\* The rows hold each rank of a world of so many ranks exactly once.
EachRankOnce(rows, size) ==
    /\ UNION {ToSet(rows[g]) : g \in DOMAIN rows} = 0 .. size - 1
    /\ MapThenSumSet(LAMBDA g : Len(rows[g]), DOMAIN rows) = size

\* The rows are the given classes, the ranks of each in ascending order.
AreClasses(rows, classes) ==
    /\ {ToSet(rows[g]) : g \in DOMAIN rows} = classes
    /\ \A g \in DOMAIN rows : IsSorted(rows[g], <=)

===============================================================================
