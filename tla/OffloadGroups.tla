---------------------------- MODULE OffloadGroups ----------------------------
(***************************************************************************)
(* The secondary communication groups of one process                       *)
(* (src/dynamicPD/vllm/vllm/distributed/parallel_state.py:33-299, 460-488, *)
(* src/dynamicPD/vllm_ascend/vllm_ascend/distributed/parallel_state.py:    *)
(* 84-372): created after the original ones, kept in module variables,     *)
(* some of them under several names, destroyed before the original ones.   *)
(***************************************************************************)
EXTENDS RankLayout

CONSTANTS
    Configs,    \* the configurations to start with
    MaxInits    \* bound: how often the groups are initialised

VARIABLES
    config,         \* the parallel, vLLM-Ascend and model configuration
    vllm_up,        \* vLLM's own groups are initialised
    ascend_up,      \* vLLM-Ascend's own groups are initialised
    vllm_slots,     \* _OFFLOAD_* of vLLM's parallel_state; _SECONDARY_* is the same
    ascend_slots,   \* _OFFLOAD_* of vLLM-Ascend's
    alive,          \* the groups created and not destroyed
    inits           \* how often the groups were initialised

slotVars == <<vllm_slots, ascend_slots, alive>>
vars == <<config, vllm_up, ascend_up, slotVars, inits>>

\* _OFFLOAD_GROUPS
VllmSlots == {"TP", "DCP", "PCP", "PP", "DP", "EP", "EPLB"}
\* The sizes of c.finegrained, in the order in which the groups are made.
FineGrained == <<"OTP", "LMTP", "EMBED_TP", "MLP_TP">>
AscendSlots == {"P_TP", "MC2", "DYNAMIC_EPLB", "FC3_QUANT_X", "FLASHCOMM2_OTP", "FLASHCOMM2_ODP"}
               \cup ToSet(FineGrained)

\* The sizes fit: torch refuses to reshape the ranks otherwise, and the creation of
\* a group refuses a process whose rank is in no row.  With several head replicas
\* the code leaves external replicas out of its view of the ranks, so there are none.
ASSUME ConfigsAssumption ==
    \A c \in Configs :
        /\ c.dims \in [1 .. 5 -> Nat \ {0}]
        /\ c.dcp \in Nat \ {0} /\ c.dims[TP] % c.dcp = 0
        /\ c.pd_head_producer =>
              /\ c.pd_tp_ratio \in Nat \ {0} /\ c.dims[TP] % c.pd_tp_ratio = 0
              /\ c.num_head_replica \in Nat
              /\ c.num_head_replica > 1 =>
                    /\ c.dims[EXT] = 1
                    /\ c.dims[TP] % c.num_head_replica = 0
                    /\ PTpSize(c) > 0
                    /\ (c.dims[TP] \div c.num_head_replica) % PTpSize(c) = 0
        /\ \A name \in ToSet(FineGrained) :
              /\ c.finegrained[name] \in Nat
              /\ c.finegrained[name] > 0 =>
                    /\ c.dims[EXT] = 1 /\ c.dims[PCP] = 1
                    /\ c.dims[DP] % c.finegrained[name] = 0
        /\ c.flashcomm2 \in Nat
        /\ c.flashcomm2 > 1 =>
              c.dims[EXT] = 1 /\ c.dims[PCP] = 1 /\ c.dims[TP] % c.flashcomm2 = 0

\* A group has the name it was created under; NoGroup stands for None.
Group(name) == [name |-> name, init |-> inits]
NoGroup == [name |-> "None", init |-> 0]

Init ==
    /\ config \in Configs
    /\ vllm_up = FALSE
    /\ ascend_up = FALSE
    /\ vllm_slots = [slot \in VllmSlots |-> NoGroup]
    /\ ascend_slots = [slot \in AscendSlots |-> NoGroup]
    /\ alive = {}
    /\ inits = 1

-------------------------------------------------------------------------------
(* vLLM *)

\* The kinds of groups _initialize_offload_model_parallel_groups creates.
VllmKinds ==
    {"TP", "DCP", "PCP", "PP", "DP"}
    \cup {kind \in {"EP"} : config.is_moe}
    \cup {kind \in {"EPLB"} : config.is_moe /\ config.enable_eplb}

\* initialize_model_parallel.  External: the original one refuses to run twice,
\* and a process that starts again has torn everything down.
InitializeModelParallel ==
    /\ ~vllm_up /\ ~ascend_up /\ inits <= MaxInits
    /\ vllm_up' = TRUE
    /\ IF vllm_slots["TP"] # NoGroup THEN UNCHANGED <<vllm_slots, alive>>
       ELSE /\ vllm_slots' = [slot \in VllmSlots |->
                                IF slot \in VllmKinds THEN Group(slot) ELSE vllm_slots[slot]]
            /\ alive' = alive \cup {Group(kind) : kind \in VllmKinds}
    /\ UNCHANGED <<config, ascend_up, ascend_slots, inits>>

\* What is alive when the groups of some slots have been destroyed.  External:
\* destroy() of a group that is destroyed does nothing.
WithoutGroups(groups) == alive \ groups

\* destroy_model_parallel: the secondary groups, then the original ones.
DestroyModelParallel ==
    /\ vllm_up
    /\ alive' = WithoutGroups({vllm_slots[slot] : slot \in VllmSlots})
    /\ vllm_slots' = [slot \in VllmSlots |-> NoGroup]
    /\ vllm_up' = FALSE
    /\ inits' = IF ascend_up THEN inits ELSE inits + 1
    /\ UNCHANGED <<config, ascend_up, ascend_slots>>

-------------------------------------------------------------------------------
(* vLLM-Ascend *)

\* create_or_get_group: names with the same size share the group of the first.
FirstOfSize(name) ==
    FineGrained[Min({i \in DOMAIN FineGrained :
                        config.finegrained[FineGrained[i]] = config.finegrained[name]})]

\* What init_ascend_model_parallel puts into a slot.
AscendGroup(slot) ==
    CASE slot = "P_TP" -> IF config.pd_head_producer THEN Group(slot) ELSE NoGroup
      [] slot = "MC2" -> Group(slot)
      [] slot = "DYNAMIC_EPLB" -> IF config.dynamic_eplb THEN Group(slot) ELSE NoGroup
      [] slot = "FC3_QUANT_X" -> IF config.multistream_overlap_gate THEN Group(slot) ELSE NoGroup
      [] slot \in ToSet(FineGrained) ->
             IF config.finegrained[slot] > 0 THEN Group(FirstOfSize(slot)) ELSE NoGroup
      [] slot = "FLASHCOMM2_OTP" -> IF config.flashcomm2 > 1 THEN Group(slot) ELSE NoGroup
      [] slot = "FLASHCOMM2_ODP" ->
             IF config.flashcomm2 > 1 THEN Group(slot)
             ELSE IF config.flashcomm2 = 1 THEN vllm_slots["TP"] ELSE NoGroup

\* init_ascend_model_parallel.  External: elastic EP has no vLLM-Ascend groups.
InitAscendModelParallel ==
    /\ vllm_up /\ ~config.elastic
    /\ ascend_up' = TRUE
    /\ IF ascend_up \/ ascend_slots["MC2"] # NoGroup THEN UNCHANGED <<ascend_slots, alive>>
       ELSE /\ ascend_slots' = [slot \in AscendSlots |-> AscendGroup(slot)]
            /\ alive' = alive \cup ({AscendGroup(slot) : slot \in AscendSlots} \ {NoGroup})
    /\ UNCHANGED <<config, vllm_up, vllm_slots, inits>>

\* mutant: the groups of flashcomm2 are destroyed whatever its size
DestroyedSlotsAll == AscendSlots

\* mutant: with flashcomm2 switched on its groups are left alone whatever its size
DestroyedSlotsFew ==
    IF config.flashcomm2 > 0 THEN AscendSlots \ {"FLASHCOMM2_OTP", "FLASHCOMM2_ODP"}
    ELSE AscendSlots

\* The slots whose groups destroy_ascend_model_parallel destroys: with a
\* flashcomm2 size of 1 the group of FLASHCOMM2_ODP is vLLM's.
DestroyedSlots ==
    IF config.flashcomm2 = 1 THEN AscendSlots \ {"FLASHCOMM2_OTP", "FLASHCOMM2_ODP"}
    ELSE AscendSlots

\* destroy_ascend_model_parallel
DestroyAscendModelParallel ==
    /\ ascend_up
    /\ alive' = WithoutGroups({ascend_slots[slot] : slot \in DestroyedSlots})
    /\ ascend_slots' = [slot \in AscendSlots |-> NoGroup]
    /\ ascend_up' = FALSE
    /\ inits' = IF vllm_up THEN inits ELSE inits + 1
    /\ UNCHANGED <<config, vllm_up, vllm_slots>>

Next ==
    \/ InitializeModelParallel \/ DestroyModelParallel
    \/ InitAscendModelParallel \/ DestroyAscendModelParallel

Spec == Init /\ [][Next]_vars

-------------------------------------------------------------------------------
(* Properties *)

\* A getter never returns a destroyed group: the groups in vLLM's slots are alive,
\* and those in vLLM-Ascend's as long as vLLM's are not torn down, in whatever
\* order the two are.  Code: FLASHCOMM2_ODP, which may be vLLM's TP group, and the
\* fine-grained names, which may share a group.
SlotsAlive ==
    /\ \A slot \in VllmSlots : vllm_slots[slot] \in alive \cup {NoGroup}
    /\ vllm_up => \A slot \in AscendSlots : ascend_slots[slot] \in alive \cup {NoGroup}

\* Every group is destroyed once both tear-downs have run, although names share
\* groups and an initialisation may be repeated.
NothingLeaks ==
    ~vllm_up /\ ~ascend_up =>
        /\ alive = {}
        /\ \A slot \in VllmSlots : vllm_slots[slot] = NoGroup
        /\ \A slot \in AscendSlots : ascend_slots[slot] = NoGroup

\* The rows a group is created with.
RowsOf(name) ==
    CASE name \in VllmSlots -> VllmRows(config, name)
      [] name \in {"MC2", "DYNAMIC_EPLB", "FC3_QUANT_X"} -> VllmRows(config, "EP")
      [] name = "P_TP" -> Rows(PTpOrder(config), PTpSize(config))
      [] name \in ToSet(FineGrained) -> FineGrainedRows(config, config.finegrained[name])
      [] name = "FLASHCOMM2_OTP" -> FlashComm2OtpRows(config)
      [] name = "FLASHCOMM2_ODP" -> FlashComm2OdpRows(config)

AliveNames == {group.name : group \in alive}

\* With elastic EP the groups of one engine count its own ranks only.
DimsOf(name) ==
    IF config.elastic /\ name \in {"TP", "DCP", "PCP", "PP"}
    THEN [config.dims EXCEPT ![EXT] = 1, ![DP] = 1] ELSE config.dims

\* Every rank finds itself in exactly one row of every group that is created;
\* creating a group with a rank left out fails on that rank and hangs the others.
EveryRankInOneRow ==
    \A name \in AliveNames : EachRankOnce(RowsOf(name), Product(DimsOf(name)))

\* The axes along which the ranks of a group differ.
AxesOf(name) ==
    CASE name = "TP" -> {TP} [] name = "PCP" -> {PCP} [] name = "PP" -> {PP} [] name = "DP" -> {DP}
      [] OTHER -> {DP, PCP, TP}

\* The groups of each kind are the ranks that differ along its axes only, in
\* ascending order, so that a rank has the same peers in both lanes; those of
\* the decode context, of flashcomm2 and of the prefill heads lie within one
\* tensor-parallel group.
GroupsFollowLayout ==
    \A name \in AliveNames :
        /\ name \in (VllmSlots \ {"DCP"}) \cup {"MC2", "DYNAMIC_EPLB", "FC3_QUANT_X"} =>
              AreClasses(RowsOf(name), Classes(DimsOf(name), AxesOf(name)))
        /\ name \in {"DCP", "P_TP", "FLASHCOMM2_OTP", "FLASHCOMM2_ODP"} =>
              \A g \in DOMAIN RowsOf(name) :
                  ToSet(RowsOf(name)[g]) \subseteq Along(DimsOf(name), {TP}, RowsOf(name)[g][1])

\* The two groups of flashcomm2 are rows and columns of a grid: within a tensor-
\* parallel group a row and a column share exactly one rank.
FlashComm2Grid ==
    "FLASHCOMM2_OTP" \in AliveNames =>
        \A g \in DOMAIN FlashComm2OtpRows(config), h \in DOMAIN FlashComm2OdpRows(config) :
            LET row    == ToSet(FlashComm2OtpRows(config)[g])
                column == ToSet(FlashComm2OdpRows(config)[h])
            IN  Cardinality(row \cap column) =
                    IF row \subseteq Along(config.dims, {TP}, Min(column)) THEN 1 ELSE 0

\* A fine-grained group joins the data-parallel replicas of a rank exactly when
\* there is one pipeline stage: rank_grid has its axes in another order than
\* all_ranks, and with several stages its groups join stages.
FineGrainedJoinsReplicas ==
    \A name \in AliveNames \cap ToSet(FineGrained) :
        config.finegrained[name] > 1 =>
            ((\A g \in DOMAIN RowsOf(name) :
                ToSet(RowsOf(name)[g]) \subseteq Along(config.dims, {DP}, RowsOf(name)[g][1]))
             <=> config.dims[PP] = 1)

===============================================================================
