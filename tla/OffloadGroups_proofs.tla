------------------------ MODULE OffloadGroups_proofs ------------------------
(***************************************************************************)
(* Proofs about OffloadGroups, for every configuration and any number of   *)
(* initialisations: a getter never returns a destroyed group, nothing is   *)
(* left alive when both tear-downs have run; and the layouts: each rank is *)
(* in one row of every group, the rows are those that the parallelism      *)
(* asks for, a row and a column of flashcomm2 cross once, and which fine-  *)
(* grained rows are replicas.                                              *)
(*                                                                         *)
(* The argument: every group that is alive is in a slot whose tear-down    *)
(* destroys it, and no group of vLLM is in such a slot of vLLM-Ascend. It  *)
(* was asked for by the configuration, so that its sizes fit; and then a   *)
(* rank and its coordinates determine one another, a transposition swaps   *)
(* two coordinates, and the rows are the ranks that agree on the others.   *)
(***************************************************************************)
EXTENDS OffloadGroups, FiniteSetTheorems, SequenceTheorems, WellFoundedInduction,
        TLAPS

\* The groups in the slots of vLLM, and those of vLLM-Ascend that its tear-down destroys.
VllmGroups   == {vllm_slots[slot] : slot \in VllmSlots}

AscendGroups == {ascend_slots[slot] : slot \in DestroyedSlots}

\* A slot is empty or holds a group created under one of some names.
Holds(group, names) == group = NoGroup \/ group.name \in names

\* The slots of each package hold groups created under its own names, but for
\* flashcomm2 of size 1.
SlotsInv ==
    /\ DOMAIN vllm_slots = VllmSlots /\ DOMAIN ascend_slots = AscendSlots
    /\ \A slot \in VllmSlots : Holds(vllm_slots[slot], VllmSlots)
    /\ \A slot \in DestroyedSlots : Holds(ascend_slots[slot], AscendSlots)

\* Every group that is alive is destroyed by one of the tear-downs.
AliveInv == alive \subseteq (VllmGroups \cup AscendGroups) \ {NoGroup}

\* A package that is not initialised has no groups.
UpInv ==
    /\ ~vllm_up => \A slot \in VllmSlots : vllm_slots[slot] = NoGroup
    /\ ~ascend_up => \A slot \in AscendSlots : ascend_slots[slot] = NoGroup

IInv == SlotsInv /\ AliveInv /\ UpInv /\ SlotsAlive

-------------------------------------------------------------------------------
(* Names *)

\* The two packages create groups under different names.
LEMMA NamesDiffer ==
    /\ VllmSlots \cap AscendSlots = {}
    /\ "None" \notin VllmSlots /\ "None" \notin AscendSlots
  <1>1. ToSet(FineGrained) = {"OTP", "LMTP", "EMBED_TP", "MLP_TP"}
    BY DEF ToSet, FineGrained
  <1> QED
    BY <1>1 DEF VllmSlots, AscendSlots

\* A fine-grained name shares the group of a fine-grained name of its size.
LEMMA FirstOfSizeName ==
    ASSUME NEW name \in ToSet(FineGrained)
    PROVE  /\ FirstOfSize(name) \in ToSet(FineGrained)
           /\ config.finegrained[FirstOfSize(name)] = config.finegrained[name]
  <1> DEFINE same == {i \in DOMAIN FineGrained :
                        config.finegrained[FineGrained[i]] = config.finegrained[name]}
  <1>1. DOMAIN FineGrained = 1 .. 4 /\ ToSet(FineGrained) = {FineGrained[i] : i \in 1 .. 4}
    BY DEF ToSet, FineGrained
  <1>2. PICK i \in 1 .. 4 : name = FineGrained[i]
    BY <1>1
  <1>3. i \in same
    BY <1>1, <1>2
  <1>4. \E x \in same : \A y \in same : x <= y
    <2>1. same \subseteq 1 .. 4
      BY <1>1
    <2>2. CASE 1 \in same
      BY <2>1, <2>2
    <2>3. CASE 1 \notin same /\ 2 \in same
      BY <2>1, <2>3
    <2>4. CASE 1 \notin same /\ 2 \notin same /\ 3 \in same
      BY <2>1, <2>4
    <2>5. CASE 1 \notin same /\ 2 \notin same /\ 3 \notin same
      BY <2>1, <2>5, <1>3
    <2> QED
      BY <2>2, <2>3, <2>4, <2>5
  <1>5. Min(same) \in same
    BY <1>4 DEF Min
  <1> QED
    BY <1>1, <1>5 DEF FirstOfSize

\* What init_ascend_model_parallel puts into a slot that its tear-down destroys.
LEMMA AscendGroupName ==
    ASSUME NEW slot \in DestroyedSlots
    PROVE  Holds(AscendGroup(slot), AscendSlots)
  <1>1. slot \in AscendSlots /\ ToSet(FineGrained) \subseteq AscendSlots
    BY DEF DestroyedSlots, AscendSlots
  <1>2. \A name : Group(name).name = name
    BY DEF Group
  <1>3. slot = "FLASHCOMM2_ODP" => config.flashcomm2 # 1
    BY DEF DestroyedSlots
  <1>4. CASE slot \in ToSet(FineGrained)
    BY <1>1, <1>2, <1>4, FirstOfSizeName DEF AscendGroup, Holds, FineGrained, ToSet
  <1>5. CASE slot \notin ToSet(FineGrained)
    BY <1>1, <1>2, <1>3, <1>5 DEF AscendGroup, Holds, AscendSlots
  <1> QED
    BY <1>4, <1>5

\* Only no group at all is in slots of both that are destroyed.
LEMMA GroupsDisjoint ==
    ASSUME SlotsInv
    PROVE  VllmGroups \cap AscendGroups \subseteq {NoGroup}
  BY NamesDiffer DEF SlotsInv, Holds, VllmGroups, AscendGroups

-------------------------------------------------------------------------------
(* The steps *)

\* Where nothing is initialised, nothing is alive.
LEMMA InitIInv == Init => IInv
  BY DEF Init, IInv, SlotsInv, AliveInv, UpInv, SlotsAlive, Holds, DestroyedSlots

\* vLLM's groups are created in empty slots.
LEMMA InitializeModelParallelIInv ==
    ASSUME IInv, InitializeModelParallel
    PROVE  IInv'
  <1>1. VllmKinds \subseteq VllmSlots /\ "TP" \in VllmSlots
    BY DEF VllmKinds, VllmSlots
  <1>2. \A slot \in VllmSlots : vllm_slots[slot] = NoGroup
    BY DEF IInv, UpInv, InitializeModelParallel
  <1>3. /\ vllm_slots' = [slot \in VllmSlots |->
                            IF slot \in VllmKinds THEN Group(slot) ELSE vllm_slots[slot]]
        /\ alive' = alive \cup {Group(kind) : kind \in VllmKinds}
        /\ UNCHANGED <<config, ascend_up, ascend_slots>> /\ vllm_up' = TRUE /\ ~ascend_up
    BY <1>1, <1>2 DEF InitializeModelParallel
  <1>4. \A name : Group(name).name = name
    BY DEF Group
  <1>5. \A name \in VllmSlots : Group(name) # NoGroup
    BY <1>4, NamesDiffer DEF NoGroup
  <1>6. DestroyedSlots' = DestroyedSlots /\ AscendGroups' = AscendGroups
    BY <1>3 DEF DestroyedSlots, AscendGroups
  <1>7. SlotsInv'
    BY <1>1, <1>2, <1>3, <1>4, <1>6 DEF IInv, SlotsInv, Holds
  <1>8. AliveInv'
    <2>1. alive \subseteq AscendGroups \ {NoGroup}
      BY <1>2 DEF IInv, AliveInv, VllmGroups
    <2>2. \A kind \in VllmKinds : Group(kind) \in VllmGroups' \ {NoGroup}
      BY <1>1, <1>3, <1>5 DEF VllmGroups
    <2> QED
      BY <1>3, <1>6, <2>1, <2>2 DEF AliveInv
  <1>9. UpInv'
    BY <1>3 DEF IInv, UpInv
  <1>10. SlotsAlive'
    BY <1>1, <1>2, <1>3 DEF IInv, UpInv, SlotsAlive
  <1> QED
    BY <1>7, <1>8, <1>9, <1>10 DEF IInv

\* vLLM's tear-down empties its slots and destroys what was in them.
LEMMA DestroyModelParallelIInv ==
    ASSUME IInv, DestroyModelParallel
    PROVE  IInv'
  <1>1. /\ alive' = alive \ VllmGroups
        /\ vllm_slots' = [slot \in VllmSlots |-> NoGroup]
        /\ vllm_up' = FALSE
        /\ UNCHANGED <<config, ascend_up, ascend_slots>>
    BY DEF DestroyModelParallel, WithoutGroups, VllmGroups
  <1>2. DestroyedSlots' = DestroyedSlots /\ AscendGroups' = AscendGroups
    BY <1>1 DEF DestroyedSlots, AscendGroups
  <1>3. SlotsInv'
    BY <1>1, <1>2 DEF IInv, SlotsInv, Holds
  <1>4. AliveInv'
    BY <1>1, <1>2 DEF IInv, AliveInv
  <1>5. UpInv'
    BY <1>1 DEF IInv, UpInv
  <1>6. SlotsAlive'
    BY <1>1 DEF SlotsAlive
  <1> QED
    BY <1>3, <1>4, <1>5, <1>6 DEF IInv

\* vLLM-Ascend's groups are created in empty slots, or shared.
LEMMA InitAscendModelParallelIInv ==
    ASSUME IInv, InitAscendModelParallel
    PROVE  IInv'
  <1>1. UNCHANGED <<config, vllm_up, vllm_slots>> /\ vllm_up /\ ascend_up' = TRUE
    BY DEF InitAscendModelParallel
  <1>2. DestroyedSlots' = DestroyedSlots /\ VllmGroups' = VllmGroups /\ DestroyedSlots \subseteq AscendSlots
    BY <1>1 DEF DestroyedSlots, VllmGroups
  <1>3. CASE UNCHANGED <<ascend_slots, alive>>
    <2>1. AscendGroups' = AscendGroups
      BY <1>2, <1>3 DEF AscendGroups
    <2> QED
      BY <1>1, <1>2, <1>3, <2>1 DEF IInv, SlotsInv, AliveInv, UpInv, SlotsAlive
  <1>4. CASE /\ ~ascend_up
             /\ ascend_slots' = [slot \in AscendSlots |-> AscendGroup(slot)]
             /\ alive' = alive \cup ({AscendGroup(slot) : slot \in AscendSlots} \ {NoGroup})
    <2>1. SlotsInv'
      BY <1>1, <1>2, <1>4, AscendGroupName DEF IInv, SlotsInv
    <2>2. AliveInv'
      <3>1. alive \subseteq VllmGroups \ {NoGroup}
        BY <1>2, <1>4 DEF IInv, AliveInv, UpInv, AscendGroups
      <3>2. ASSUME NEW slot \in AscendSlots, AscendGroup(slot) # NoGroup
            PROVE  AscendGroup(slot) \in VllmGroups \cup AscendGroups'
        <4>1. CASE slot \in DestroyedSlots
          BY <1>2, <1>4, <4>1 DEF AscendGroups
        <4>2. CASE slot \notin DestroyedSlots
          <5>1. config.flashcomm2 = 1 /\ slot \in {"FLASHCOMM2_OTP", "FLASHCOMM2_ODP"}
            BY <4>2 DEF DestroyedSlots
          <5>2. slot \notin ToSet(FineGrained)
            BY <5>1 DEF ToSet, FineGrained
          <5>3. AscendGroup(slot) = vllm_slots["TP"]
            BY <3>2, <5>1, <5>2 DEF AscendGroup
          <5> QED
            BY <5>3 DEF VllmGroups, VllmSlots
        <4> QED
          BY <4>1, <4>2
      <3> QED
        BY <1>2, <1>4, <3>1, <3>2 DEF AliveInv
    <2>3. UpInv'
      BY <1>1 DEF IInv, UpInv
    <2>4. SlotsAlive'
      BY <1>1, <1>4 DEF IInv, SlotsAlive
    <2> QED
      BY <2>1, <2>2, <2>3, <2>4 DEF IInv
  <1> QED
    BY <1>3, <1>4 DEF InitAscendModelParallel

\* vLLM-Ascend's tear-down leaves vLLM's group in FLASHCOMM2_ODP alone.
LEMMA DestroyAscendModelParallelIInv ==
    ASSUME IInv, DestroyAscendModelParallel
    PROVE  IInv'
  <1>1. /\ alive' = alive \ AscendGroups
        /\ ascend_slots' = [slot \in AscendSlots |-> NoGroup]
        /\ ascend_up' = FALSE
        /\ UNCHANGED <<config, vllm_up, vllm_slots>>
    BY DEF DestroyAscendModelParallel, WithoutGroups, AscendGroups
  <1>2. DestroyedSlots' = DestroyedSlots /\ VllmGroups' = VllmGroups /\ DestroyedSlots \subseteq AscendSlots
    BY <1>1 DEF DestroyedSlots, VllmGroups
  <1>3. SlotsInv'
    BY <1>1, <1>2 DEF IInv, SlotsInv, Holds
  <1>4. AliveInv'
    BY <1>1, <1>2 DEF IInv, AliveInv
  <1>5. UpInv'
    BY <1>1 DEF IInv, UpInv
  <1>6. SlotsAlive'
    <2>1. \A slot \in VllmSlots : vllm_slots[slot] \in VllmGroups
      BY DEF VllmGroups
    <2>2. \A slot \in VllmSlots : vllm_slots[slot] \in alive' \cup {NoGroup}
      BY <1>1, <2>1, GroupsDisjoint DEF IInv, SlotsAlive
    <2> QED
      BY <1>1, <2>2 DEF SlotsAlive
  <1> QED
    BY <1>3, <1>4, <1>5, <1>6 DEF IInv

\* The groups of a process are in its slots, through any number of initialisations
\* and tear-downs in any order.  Code: both packages' parallel_state.
THEOREM Invariance == Spec => []IInv
  <1>1. IInv /\ [Next]_vars => IInv'
    <2>1. CASE UNCHANGED vars
      BY <2>1 DEF vars, slotVars, IInv, SlotsInv, AliveInv, UpInv, SlotsAlive, VllmGroups,
         AscendGroups, DestroyedSlots
    <2> QED
      BY <2>1, InitializeModelParallelIInv, DestroyModelParallelIInv,
         InitAscendModelParallelIInv, DestroyAscendModelParallelIInv DEF Next
  <1> QED
    BY <1>1, InitIInv, PTL DEF Spec

\* No getter returns a destroyed group.  Code: get_tp_group and its like, which read
\* the slots that the two tear-downs clear.
THEOREM GettersReturnLive == Spec => []SlotsAlive
  <1>1. IInv => SlotsAlive
    BY DEF IInv
  <1> QED
    BY <1>1, Invariance, PTL

\* Both tear-downs leave nothing behind.  Code: destroy_model_parallel and
\* destroy_ascend_model_parallel, which skip the group the two packages share.
THEOREM TearDownIsComplete == Spec => []NothingLeaks
  <1>1. IInv => NothingLeaks
    <2> SUFFICES ASSUME IInv, ~vllm_up, ~ascend_up
                 PROVE  NothingLeaks
      BY DEF NothingLeaks
    <2>1. /\ \A slot \in VllmSlots : vllm_slots[slot] = NoGroup
          /\ \A slot \in AscendSlots : ascend_slots[slot] = NoGroup
      BY DEF IInv, UpInv
    <2>2. DestroyedSlots \subseteq AscendSlots
      BY DEF DestroyedSlots
    <2>3. VllmGroups \cup AscendGroups \subseteq {NoGroup}
      BY <2>1, <2>2 DEF VllmGroups, AscendGroups
    <2> QED
      BY <2>1, <2>3 DEF IInv, AliveInv, NothingLeaks
  <1> QED
    BY <1>1, Invariance, PTL

-------------------------------------------------------------------------------
(* Which groups there are *)

\* The names a group may have.
MayExist(name) ==
    /\ name \in VllmSlots \cup AscendSlots
    /\ name = "P_TP" => config.pd_head_producer
    /\ name \in ToSet(FineGrained) => config.finegrained[name] > 0
    /\ name \in {"FLASHCOMM2_OTP", "FLASHCOMM2_ODP"} => config.flashcomm2 > 1

\* Every group that is alive was asked for by the configuration.
CreatedInv ==
    /\ config \in Configs
    /\ \A group \in alive : MayExist(group.name)

\* vLLM creates its groups under any configuration.
LEMMA VllmNamesExist ==
    ASSUME NEW name \in VllmSlots
    PROVE  MayExist(name)
  <1>1. ToSet(FineGrained) = {"OTP", "LMTP", "EMBED_TP", "MLP_TP"}
    BY DEF ToSet, FineGrained
  <1> QED
    BY <1>1 DEF MayExist, VllmSlots

\* vLLM-Ascend creates a group where its configuration asks for it.
LEMMA AscendNamesExist ==
    ASSUME SlotsInv, NEW slot \in AscendSlots, AscendGroup(slot) # NoGroup
    PROVE  MayExist(AscendGroup(slot).name)
  <1>1. ToSet(FineGrained) = {"OTP", "LMTP", "EMBED_TP", "MLP_TP"}
    BY DEF ToSet, FineGrained
  <1>2. \A name : Group(name).name = name
    BY DEF Group
  <1>3. CASE slot \in ToSet(FineGrained)
    <2>1. AscendGroup(slot) = Group(FirstOfSize(slot)) /\ config.finegrained[slot] > 0
      BY <1>1, <1>3 DEF AscendGroup
    <2>2. AscendGroup(slot).name = FirstOfSize(slot)
      BY <1>2, <2>1
    <2>3. config.finegrained[FirstOfSize(slot)] > 0 /\ FirstOfSize(slot) \in ToSet(FineGrained)
      BY <1>3, <2>1, FirstOfSizeName
    <2> QED
      BY <1>1, <2>2, <2>3 DEF MayExist, AscendSlots
  <1>4. CASE slot = "FLASHCOMM2_ODP"
    <2>1. CASE config.flashcomm2 > 1
      <3>1. AscendGroup(slot) = Group(slot)
        BY <1>1, <1>4, <2>1 DEF AscendGroup
      <3> QED
        BY <1>1, <1>2, <1>4, <2>1, <3>1 DEF MayExist, AscendSlots
    <2>2. CASE ~(config.flashcomm2 > 1)
      <3>1. AscendGroup(slot) = vllm_slots["TP"]
        BY <1>1, <1>4, <2>2 DEF AscendGroup
      <3>2. AscendGroup(slot).name \in VllmSlots
        BY <3>1 DEF SlotsInv, Holds, VllmSlots
      <3> QED
        BY <3>2, VllmNamesExist
    <2> QED
      BY <2>1, <2>2
  <1>5. CASE slot \notin ToSet(FineGrained) /\ slot # "FLASHCOMM2_ODP"
    <2>1. /\ AscendGroup(slot) = Group(slot)
          /\ slot = "P_TP" => config.pd_head_producer
          /\ slot = "FLASHCOMM2_OTP" => config.flashcomm2 > 1
      BY <1>1, <1>5 DEF AscendGroup, AscendSlots
    <2> QED
      BY <1>1, <1>2, <1>5, <2>1 DEF MayExist
  <1> QED
    BY <1>3, <1>4, <1>5

\* Code: the conditions under which the two packages create their groups.
THEOREM CreatedAsConfigured == Spec => []CreatedInv
  <1>1. Init => CreatedInv
    BY DEF Init, CreatedInv
  <1>2. IInv /\ CreatedInv /\ [Next]_vars => CreatedInv'
    <2> SUFFICES ASSUME IInv, CreatedInv, [Next]_vars
                 PROVE  CreatedInv'
      OBVIOUS
    <2>1. config' = config
      BY DEF Next, vars, InitializeModelParallel, DestroyModelParallel, InitAscendModelParallel,
         DestroyAscendModelParallel
    <2>2. \A name : MayExist(name) => MayExist(name)'
      BY <2>1 DEF MayExist
    <2>3. SUFFICES \A group \in alive' : group \in alive \/ MayExist(group.name)
      BY <2>1, <2>2 DEF CreatedInv
    <2>4. CASE UNCHANGED vars
      BY <2>4 DEF vars, slotVars
    <2>5. CASE InitializeModelParallel
      <3>1. \A kind \in VllmKinds : kind \in VllmSlots /\ Group(kind).name = kind
        BY DEF VllmKinds, VllmSlots, Group
      <3> QED
        BY <2>5, <3>1, VllmNamesExist DEF InitializeModelParallel
    <2>6. CASE DestroyModelParallel \/ DestroyAscendModelParallel
      BY <2>6 DEF DestroyModelParallel, DestroyAscendModelParallel, WithoutGroups
    <2>7. CASE InitAscendModelParallel
      BY <2>7, AscendNamesExist DEF IInv, InitAscendModelParallel
    <2> QED
      BY <2>4, <2>5, <2>6, <2>7 DEF Next
  <1> QED
    BY <1>1, <1>2, Invariance, PTL DEF Spec

-------------------------------------------------------------------------------
(* Quotients and remainders *)

\* Quotient and remainder are what multiplies out.
LEMMA DivIs ==
    ASSUME NEW q \in Nat, NEW r \in Nat, NEW d \in Nat \ {0}, r < d
    PROVE  (q * d + r) \div d = q /\ (q * d + r) % d = r
  <1>1. (q * d + r) \div d = q
    OBVIOUS
  <1>2. (q * d + r) % d = r
    OBVIOUS
  <1> QED
    BY <1>1, <1>2

\* What a quotient and a remainder are.
LEMMA DivMod ==
    ASSUME NEW x \in Nat, NEW d \in Nat \ {0}
    PROVE  /\ x \div d \in Nat /\ x % d \in Nat /\ x % d < d
           /\ x = (x \div d) * d + (x % d)
  OBVIOUS

\* Dividing by a product is dividing twice.
LEMMA DivDiv ==
    ASSUME NEW x \in Nat, NEW m \in Nat \ {0}, NEW n \in Nat \ {0}
    PROVE  m * n \in Nat \ {0} /\ x \div (m * n) = (x \div m) \div n
  <1>1. m * n \in Nat \ {0}
    OBVIOUS
  <1> DEFINE y == x \div m
             a == x % m
             q == y \div n
             b == y % n
  <1>2. y \in Nat /\ a \in Nat /\ a < m /\ x = y * m + a
    BY DivMod
  <1>3. q \in Nat /\ b \in Nat /\ b < n /\ y = q * n + b
    BY <1>2, DivMod
  <1> HIDE DEF y, a, q, b
  <1>4. x = q * (m * n) + (b * m + a)
    BY <1>2, <1>3
  <1>5. b * m + a \in Nat /\ b * m + a < m * n
    BY <1>2, <1>3
  <1>6. x \div (m * n) = q
    BY <1>1, <1>3, <1>4, <1>5, DivIs
  <1> QED
    BY <1>1, <1>6 DEF q, y

\* A quotient is below the number of multiples.
LEMMA DivLess ==
    ASSUME NEW x \in Nat, NEW m \in Nat, NEW n \in Nat \ {0}, x < m * n
    PROVE  x \div n \in Nat /\ x \div n < m
  <1> DEFINE q == x \div n
             r == x % n
  <1>1. q \in Nat /\ r \in Nat /\ r < n /\ x = q * n + r
    BY DivMod
  <1> HIDE DEF q, r
  <1>2. ASSUME q >= m PROVE FALSE
    <2>1. q * n >= m * n
      BY <1>1, <1>2
    <2> QED
      BY <1>1, <2>1
  <1> QED
    BY <1>1, <1>2 DEF q

\* The function over the sets of axes that Product folds with.
IsProduct(f, sizes) ==
    f = [s \in SUBSET DOMAIN sizes |->
            IF s = {} THEN 1 ELSE LET x == Max(s) IN f[s \ {x}] * sizes[x]]

\* Product in terms of that function.
LEMMA ProductIsFold ==
    ASSUME NEW sizes
    PROVE  Product(sizes) = (CHOOSE f : IsProduct(f, sizes))[DOMAIN sizes]
  BY DEF Product, FoldLeft, MapThenFoldSet, IsProduct

\* The last number of a set up to it.
LEMMA MaxIs ==
    ASSUME NEW n \in Nat, NEW s \in SUBSET (1 .. n), n \in s
    PROVE  Max(s) = n
  <1>1. \A y \in s : n >= y
    OBVIOUS
  <1> DEFINE m == Max(s)
  <1>2. m \in s /\ \A y \in s : m >= y
    BY <1>1, Zenon DEF Max
  <1> HIDE DEF m
  <1>3. m \in 1 .. n /\ m >= n
    BY <1>2
  <1>4. m = n
    BY <1>3
  <1> QED
    BY <1>4 DEF m

\* A set of axes has a last one.
LEMMA MaxIn ==
    ASSUME NEW s \in SUBSET (1 .. 5), s # {}
    PROVE  Max(s) \in s /\ \A y \in s : Max(s) >= y
  <1>1. \E x \in s : \A y \in s : x >= y
    <2>1. CASE 5 \in s
      BY <2>1
    <2>2. CASE 5 \notin s /\ 4 \in s
      BY <2>2
    <2>3. CASE 5 \notin s /\ 4 \notin s /\ 3 \in s
      BY <2>3
    <2>4. CASE 5 \notin s /\ 4 \notin s /\ 3 \notin s /\ 2 \in s
      BY <2>4
    <2>5. CASE 5 \notin s /\ 4 \notin s /\ 3 \notin s /\ 2 \notin s
      <3>1. \A x \in s : x = 1
        <4> SUFFICES ASSUME NEW x \in s PROVE x = 1
          OBVIOUS
        <4>1. x \in 1 .. 5 /\ x # 2 /\ x # 3 /\ x # 4 /\ x # 5
          BY <2>5
        <4> QED
          BY <4>1
      <3>2. 1 \in s
        BY <3>1
      <3> QED
        BY <3>1, <3>2
    <2> QED
      BY <2>1, <2>2, <2>3, <2>4, <2>5
  <1> QED
    BY <1>1, Zenon DEF Max

\* The product of up to five sizes, factor by factor.
LEMMA ProductSteps ==
    ASSUME NEW n \in 0 .. 5, NEW sizes \in [1 .. n -> Nat]
    PROVE  \E v : /\ v[0] = 1 /\ v[n] = Product(sizes)
                  /\ \A k \in 1 .. n : v[k] = v[k - 1] * sizes[k]
  <1> DEFINE P1(s) == IF 1 \in s THEN sizes[1] ELSE 1
             P2(s) == IF 2 \in s THEN P1(s) * sizes[2] ELSE P1(s)
             P3(s) == IF 3 \in s THEN P2(s) * sizes[3] ELSE P2(s)
             P4(s) == IF 4 \in s THEN P3(s) * sizes[4] ELSE P3(s)
             P5(s) == IF 5 \in s THEN P4(s) * sizes[5] ELSE P4(s)
             g == [s \in SUBSET (1 .. n) |-> P5(s)]
             body(s) == IF s = {} THEN 1 ELSE LET x == Max(s) IN g[s \ {x}] * sizes[x]
  <1>1. ASSUME NEW s \in SUBSET (1 .. n)
        PROVE  g[s] = body(s)
    <2>1. CASE s = {}
      BY <2>1
    <2>2. CASE s # {}
      <3> DEFINE m == Max(s)
                 t == s \ {m}
      <3>1. m \in s /\ \A y \in s : m >= y
        <4>1. s \in SUBSET (1 .. 5)
          OBVIOUS
        <4> QED
          BY <2>2, <4>1, MaxIn
      <3>2. body(s) = g[t] * sizes[m]
        BY <2>2
      <3> HIDE DEF m, body
      <3>3. t \in SUBSET (1 .. n) /\ m \in 1 .. n /\ sizes[m] \in Nat
        BY <3>1
      <3>4. g[s] = P5(s) /\ g[t] = P5(t)
        BY <3>3
      <3>5. \A i \in 1 .. 5 : i # m => (i \in t <=> i \in s)
        OBVIOUS
      <3>6. m \notin t /\ m \in 1 .. 5
        BY <3>3
      <3> HIDE DEF g, t
      <3>7. P5(s) = P5(t) * sizes[m]
        <4>1. CASE m = 1
          <5>1. 2 \notin s /\ 3 \notin s /\ 4 \notin s /\ 5 \notin s
            BY <3>1, <4>1
          <5>2. (2 \in t <=> 2 \in s) /\ (3 \in t <=> 3 \in s) /\ (4 \in t <=> 4 \in s) /\ (5 \in t <=> 5 \in s)
            BY <3>5, <4>1, <5>1
          <5> QED
            BY <3>1, <3>3, <3>6, <4>1, <5>1, <5>2
        <4>2. CASE m = 2
          <5>1. 3 \notin s /\ 4 \notin s /\ 5 \notin s
            BY <3>1, <4>2
          <5>2. (1 \in t <=> 1 \in s) /\ (3 \in t <=> 3 \in s) /\ (4 \in t <=> 4 \in s) /\ (5 \in t <=> 5 \in s)
            BY <3>5, <4>2, <5>1
          <5> QED
            BY <3>1, <3>3, <3>6, <4>2, <5>1, <5>2
        <4>3. CASE m = 3
          <5>1. 4 \notin s /\ 5 \notin s
            BY <3>1, <4>3
          <5>2. (1 \in t <=> 1 \in s) /\ (2 \in t <=> 2 \in s) /\ (4 \in t <=> 4 \in s) /\ (5 \in t <=> 5 \in s)
            BY <3>5, <4>3, <5>1
          <5> QED
            BY <3>1, <3>3, <3>6, <4>3, <5>1, <5>2
        <4>4. CASE m = 4
          <5>1. 5 \notin s
            BY <3>1, <4>4
          <5>2. (1 \in t <=> 1 \in s) /\ (2 \in t <=> 2 \in s) /\ (3 \in t <=> 3 \in s) /\ (5 \in t <=> 5 \in s)
            BY <3>5, <4>4, <5>1
          <5> QED
            BY <3>1, <3>3, <3>6, <4>4, <5>1, <5>2
        <4>5. CASE m = 5
          <5>1. 5 \in s
            BY <3>1, <4>5
          <5>2. (1 \in t <=> 1 \in s) /\ (2 \in t <=> 2 \in s) /\ (3 \in t <=> 3 \in s) /\ (4 \in t <=> 4 \in s)
            BY <3>5, <4>5, <5>1
          <5> QED
            BY <3>1, <3>3, <3>6, <4>5, <5>1, <5>2
        <4> QED
          BY <3>6, <4>1, <4>2, <4>3, <4>4, <4>5
      <3> QED
        BY <3>2, <3>4, <3>7
    <2> QED
      BY <2>1, <2>2
  <1>2. DOMAIN sizes = 1 .. n /\ n \in Nat
    OBVIOUS
  <1>3. IsProduct(g, sizes)
    <2>1. g = [s \in SUBSET (1 .. n) |-> g[s]]
      OBVIOUS
    <2>2. g = [s \in SUBSET (1 .. n) |-> body(s)]
      <3> HIDE DEF g, body
      <3> QED
        BY <1>1, <2>1
    <2> QED
      BY <1>2, <2>2 DEF IsProduct
  <1> DEFINE f == CHOOSE f1 : IsProduct(f1, sizes)
  <1>4. IsProduct(f, sizes)
    BY <1>3, Zenon
  <1>5. Product(sizes) = f[1 .. n]
    BY <1>2, ProductIsFold
  <1> HIDE DEF f, g
  <1> DEFINE v == [k \in 0 .. n |-> f[1 .. k]]
  <1>6. v[0] = 1
    <2>1. 1 .. 0 = {} /\ 0 \in 0 .. n /\ {} \in SUBSET DOMAIN sizes
      OBVIOUS
    <2>2. f[{}] = 1
      BY <1>4, <2>1 DEF IsProduct
    <2> QED
      BY <2>1, <2>2
  <1>7. v[n] = Product(sizes)
    BY <1>5
  <1>8. ASSUME NEW k \in 1 .. n
        PROVE  v[k] = v[k - 1] * sizes[k]
    <2>1. k \in Nat /\ 1 .. k \in SUBSET (1 .. n) /\ k \in 1 .. k
      OBVIOUS
    <2>2. (1 .. k) \ {k} = 1 .. (k - 1)
      <3>1. \A i : i \in (1 .. k) \ {k} <=> i \in 1 .. (k - 1)
        OBVIOUS
      <3> QED
        BY <3>1
    <2>3. Max(1 .. k) = k /\ 1 .. k # {}
      BY <2>1, MaxIs
    <2>4. f[1 .. k] = f[1 .. (k - 1)] * sizes[k]
      BY <1>2, <1>4, <2>1, <2>2, <2>3 DEF IsProduct
    <2>5. v[k] = f[1 .. k] /\ v[k - 1] = f[1 .. (k - 1)]
      OBVIOUS
    <2> QED
      BY <2>4, <2>5
  <1> HIDE DEF v
  <1> QED
    BY <1>6, <1>7, <1>8

\* The product of up to five sizes.
LEMMA ProductsAre ==
    ASSUME NEW n \in 0 .. 5, NEW sizes \in [1 .. n -> Nat]
    PROVE  Product(sizes) =
              CASE n = 0 -> 1
                [] n = 1 -> sizes[1]
                [] n = 2 -> sizes[1] * sizes[2]
                [] n = 3 -> sizes[1] * sizes[2] * sizes[3]
                [] n = 4 -> sizes[1] * sizes[2] * sizes[3] * sizes[4]
                [] n = 5 -> sizes[1] * sizes[2] * sizes[3] * sizes[4] * sizes[5]
  <1>1. PICK v : /\ v[0] = 1 /\ v[n] = Product(sizes)
                 /\ \A k \in 1 .. n : v[k] = v[k - 1] * sizes[k]
    BY ProductSteps
  <1>2. \A k \in 1 .. n : sizes[k] \in Nat
    OBVIOUS
  <1>3. CASE n = 0
    BY <1>1, <1>3
  <1>4. ASSUME n >= 1
        PROVE  v[1] = sizes[1]
    <2>1. v[1] = v[0] * sizes[1] /\ sizes[1] \in Nat
      BY <1>1, <1>2, <1>4
    <2> QED
      BY <1>1, <2>1
  <1>5. ASSUME n >= 2
        PROVE  v[2] = sizes[1] * sizes[2]
    BY <1>1, <1>4, <1>5
  <1>6. ASSUME n >= 3
        PROVE  v[3] = sizes[1] * sizes[2] * sizes[3]
    <2>1. v[3] = v[2] * sizes[3]
      BY <1>1, <1>6
    <2> QED
      BY <1>5, <1>6, <2>1
  <1>7. ASSUME n >= 4
        PROVE  v[4] = sizes[1] * sizes[2] * sizes[3] * sizes[4]
    <2>1. v[4] = v[3] * sizes[4]
      BY <1>1, <1>7
    <2> QED
      BY <1>6, <1>7, <2>1
  <1>8. ASSUME n >= 5
        PROVE  v[5] = sizes[1] * sizes[2] * sizes[3] * sizes[4] * sizes[5]
    <2>1. v[5] = v[4] * sizes[5]
      BY <1>1, <1>8
    <2> QED
      BY <1>7, <1>8, <2>1
  <1>9. n = 0 \/ n = 1 \/ n = 2 \/ n = 3 \/ n = 4 \/ n = 5
    OBVIOUS
  <1> QED
    BY <1>1, <1>3, <1>4, <1>5, <1>6, <1>7, <1>8, <1>9

\* The sizes of the axes.
Dims == [1 .. 5 -> Nat \ {0}]

\* A step along an axis skips the product of the sizes behind it.
LEMMA StridesAre ==
    ASSUME NEW dims \in Dims
    PROVE  /\ Stride(dims, 5) = 1
           /\ Stride(dims, 4) = dims[5]
           /\ Stride(dims, 3) = dims[4] * dims[5]
           /\ Stride(dims, 2) = dims[3] * dims[4] * dims[5]
           /\ Stride(dims, 1) = dims[2] * dims[3] * dims[4] * dims[5]
           /\ Product(dims) = dims[1] * dims[2] * dims[3] * dims[4] * dims[5]
  <1>1. dims \in [1 .. 5 -> Nat]
    BY DEF Dims
  <1>2. DOMAIN dims = 1 .. 5 /\ Len(dims) = 5 /\ dims \in Seq(Nat)
    <2>1. \E n \in Nat : dims \in [1 .. n -> Nat]
      BY <1>1
    <2>2. dims \in Seq(Nat)
      BY <2>1
    <2>3. DOMAIN dims = 1 .. Len(dims) /\ Len(dims) \in Nat
      BY <2>2
    <2> QED
      BY <1>1, <2>2, <2>3
  <1> DEFINE rest(axis) == SubSeq(dims, axis + 1, 5)
  <1>3. ASSUME NEW axis \in 1 .. 5
        PROVE  /\ rest(axis) \in [1 .. 5 - axis -> Nat]
               /\ \A i \in 1 .. 5 - axis : rest(axis)[i] = dims[axis + i]
               /\ Stride(dims, axis) = Product(rest(axis))
               /\ 5 - axis \in 0 .. 5
    <2>1. Stride(dims, axis) = Product(rest(axis))
      BY <1>2 DEF Stride
    <2>2. rest(axis) = [i \in 1 .. 5 - axis |-> dims[axis + i]]
      BY <1>1, <1>2
    <2>3. \A i \in 1 .. 5 - axis : axis + i \in 1 .. 5
      OBVIOUS
    <2> HIDE DEF rest
    <2> QED
      BY <1>1, <2>1, <2>2, <2>3
  <1> HIDE DEF rest
  <1>4. Stride(dims, 5) = 1
    <2>1. Product(rest(5)) = 1
      BY <1>3, ProductsAre
    <2> QED
      BY <1>3, <2>1
  <1>5. Stride(dims, 4) = dims[5]
    <2>1. Product(rest(4)) = rest(4)[1] /\ rest(4)[1] = dims[5]
      BY <1>3, ProductsAre
    <2> QED
      BY <1>3, <2>1
  <1>6. Stride(dims, 3) = dims[4] * dims[5]
    <2>1. Product(rest(3)) = rest(3)[1] * rest(3)[2] /\ rest(3)[1] = dims[4] /\ rest(3)[2] = dims[5]
      BY <1>3, ProductsAre
    <2> QED
      BY <1>3, <2>1
  <1>7. Stride(dims, 2) = dims[3] * dims[4] * dims[5]
    <2>1. /\ Product(rest(2)) = rest(2)[1] * rest(2)[2] * rest(2)[3]
          /\ rest(2)[1] = dims[3] /\ rest(2)[2] = dims[4] /\ rest(2)[3] = dims[5]
      BY <1>3, ProductsAre
    <2> QED
      BY <1>3, <2>1
  <1>8. Stride(dims, 1) = dims[2] * dims[3] * dims[4] * dims[5]
    <2>1. /\ Product(rest(1)) = rest(1)[1] * rest(1)[2] * rest(1)[3] * rest(1)[4]
          /\ rest(1)[1] = dims[2] /\ rest(1)[2] = dims[3] /\ rest(1)[3] = dims[4]
          /\ rest(1)[4] = dims[5]
      BY <1>3, ProductsAre
    <2> QED
      BY <1>3, <2>1
  <1>9. Product(dims) = dims[1] * dims[2] * dims[3] * dims[4] * dims[5]
    BY <1>1, ProductsAre
  <1> QED
    BY <1>4, <1>5, <1>6, <1>7, <1>8, <1>9

-------------------------------------------------------------------------------
(* A rank and its coordinates *)

\* The rank at given coordinates.
At(dims, x) ==
    (((x[1] * dims[2] + x[2]) * dims[3] + x[3]) * dims[4] + x[4]) * dims[5] + x[5]

\* The coordinates of a rank.
Coordinates(dims, s) == [axis \in 1 .. 5 |-> Coordinate(dims, s, axis)]

\* The coordinates a rank can have, and the ranks of the world.
Places(dims) == {x \in [1 .. 5 -> Nat] : \A axis \in 1 .. 5 : x[axis] < dims[axis]}

Ranks(dims) == 0 .. Product(dims) - 1

\* A digit put behind a number stays below the product of the sizes.
LEMMA PlaceBound ==
    ASSUME NEW m \in Nat, NEW n \in Nat \ {0}, NEW size \in Nat, NEW r \in Nat, m < size, r < n
    PROVE  m * n + r \in Nat /\ m * n + r < size * n
  <1>1. (m + 1) * n <= size * n
    OBVIOUS
  <1>2. (m + 1) * n = m * n + n
    OBVIOUS
  <1>3. m * n \in Nat /\ size * n \in Nat
    OBVIOUS
  <1> QED
    BY <1>1, <1>2, <1>3

\* The last digit of a number and what is before it.
LEMMA Digit ==
    ASSUME NEW x \in Nat, NEW m \in Nat, NEW n \in Nat \ {0}, x < m * n
    PROVE  /\ x \div n \in Nat /\ x % n \in Nat /\ x % n < n
           /\ x = (x \div n) * n + (x % n)
           /\ x \div n < m
  <1>1. x \div n < m
    BY DivLess
  <1> QED
    BY <1>1, DivMod

\* A digit put behind a number.
Fits(m, n, size, r) ==
    /\ m \in Nat /\ n \in Nat \ {0} /\ size \in Nat /\ r \in Nat
    /\ m < size /\ r < n

Appended(m, n, size, r) ==
    /\ m * n + r \in Nat /\ m * n + r < size * n
    /\ (m * n + r) \div n = m /\ (m * n + r) % n = r

\* It can be taken off again.
LEMMA DigitAppended ==
    ASSUME NEW m, NEW n, NEW size, NEW r, Fits(m, n, size, r)
    PROVE  Appended(m, n, size, r)
  <1>1. m * n + r \in Nat /\ m * n + r < size * n
    BY PlaceBound DEF Fits
  <1> QED
    BY <1>1, DivIs DEF Fits, Appended

\* A number below the divisor is its own remainder.
LEMMA SmallRest ==
    ASSUME NEW r \in Nat, NEW n \in Nat \ {0}, r < n
    PROVE  r % n = r
  OBVIOUS

\* DivDiv as a predicate, for the prover that does not instantiate a product.
Nested(x, m, n) == m * n \in Nat \ {0} /\ x \div (m * n) = (x \div m) \div n

\* A quotient of a quotient.
LEMMA Twice ==
    ASSUME NEW x \in Nat, NEW m, m \in Nat \ {0}, NEW n, n \in Nat \ {0}
    PROVE  Nested(x, m, n)
  BY DivDiv DEF Nested

\* The sizes, their product and the strides are positive.
LEMMA ProductPositive ==
    ASSUME NEW dims \in Dims
    PROVE  /\ \A axis \in 1 .. 5 : dims[axis] \in Nat \ {0}
           /\ Product(dims) \in Nat \ {0}
           /\ \A axis \in 1 .. 5 : Stride(dims, axis) \in Nat \ {0}
  <1>1. \A axis \in 1 .. 5 : dims[axis] \in Nat \ {0}
    BY DEF Dims
  <1>2. \A a, b \in Nat \ {0} : a * b \in Nat \ {0}
    OBVIOUS
  <1>3. dims[4] * dims[5] \in Nat \ {0} /\ dims[3] * dims[4] \in Nat \ {0}
        /\ dims[2] * dims[3] \in Nat \ {0} /\ dims[1] * dims[2] \in Nat \ {0}
    BY <1>1, <1>2
  <1>4. dims[3] * dims[4] * dims[5] \in Nat \ {0} /\ dims[2] * dims[3] * dims[4] \in Nat \ {0}
        /\ dims[1] * dims[2] * dims[3] \in Nat \ {0}
    BY <1>1, <1>2, <1>3
  <1>5. dims[2] * dims[3] * dims[4] * dims[5] \in Nat \ {0}
        /\ dims[1] * dims[2] * dims[3] * dims[4] \in Nat \ {0}
    BY <1>1, <1>2, <1>4
  <1>6. dims[1] * dims[2] * dims[3] * dims[4] * dims[5] \in Nat \ {0}
    BY <1>1, <1>2, <1>5
  <1>7. Product(dims) \in Nat \ {0}
    BY <1>6, StridesAre
  <1>8. /\ Stride(dims, 1) \in Nat \ {0} /\ Stride(dims, 2) \in Nat \ {0}
        /\ Stride(dims, 3) \in Nat \ {0} /\ Stride(dims, 4) \in Nat \ {0}
        /\ Stride(dims, 5) \in Nat \ {0}
    BY <1>1, <1>3, <1>4, <1>5, StridesAre
  <1>9. \A axis \in 1 .. 5 : axis = 1 \/ axis = 2 \/ axis = 3 \/ axis = 4 \/ axis = 5
    OBVIOUS
  <1> QED
    BY <1>1, <1>7, <1>8, <1>9

\* The coordinates come one after the other, from the last axis on.
LEMMA CoordinatesAre ==
    ASSUME NEW dims \in Dims, NEW s \in Nat
    PROVE  /\ Coordinate(dims, s, 5) = s % dims[5]
           /\ Coordinate(dims, s, 4) = (s \div dims[5]) % dims[4]
           /\ Coordinate(dims, s, 3) = ((s \div dims[5]) \div dims[4]) % dims[3]
           /\ Coordinate(dims, s, 2) = (((s \div dims[5]) \div dims[4]) \div dims[3]) % dims[2]
           /\ Coordinate(dims, s, 1) =
                 ((((s \div dims[5]) \div dims[4]) \div dims[3]) \div dims[2]) % dims[1]
  <1> DEFINE e == dims[1]
             d == dims[2]
             p == dims[3]
             c == dims[4]
             t == dims[5]
  <1>1. e \in Nat \ {0} /\ d \in Nat \ {0} /\ p \in Nat \ {0} /\ c \in Nat \ {0} /\ t \in Nat \ {0}
    BY ProductPositive
  <1>2. /\ Stride(dims, 5) = 1 /\ Stride(dims, 4) = t /\ Stride(dims, 3) = c * t
        /\ Stride(dims, 2) = p * c * t /\ Stride(dims, 1) = d * p * c * t
    BY StridesAre
  <1> HIDE DEF e, d, p, c, t
  <1>3. s \div 1 = s
    OBVIOUS
  <1>4. c * t = t * c /\ p * c * t = (t * c) * p /\ d * p * c * t = ((t * c) * p) * d
    BY <1>1
  <1>5. t * c \in Nat \ {0} /\ s \div (t * c) = (s \div t) \div c
    <2>1. Nested(s, t, c)
      BY <1>1, Twice, Zenon
    <2> QED
      BY <2>1, Zenon DEF Nested
  <1>6. (t * c) * p \in Nat \ {0} /\ s \div ((t * c) * p) = (s \div (t * c)) \div p
    <2>1. Nested(s, t * c, p)
      BY <1>1, <1>5, Twice, Zenon
    <2> QED
      BY <2>1, Zenon DEF Nested
  <1>7. s \div (((t * c) * p) * d) = (s \div ((t * c) * p)) \div d
    <2>1. Nested(s, (t * c) * p, d)
      BY <1>1, <1>6, Twice, Zenon
    <2> QED
      BY <2>1, Zenon DEF Nested
  <1>8. Coordinate(dims, s, 5) = s % t
    BY <1>2, <1>3 DEF Coordinate, t
  <1>9. Coordinate(dims, s, 4) = (s \div t) % c
    BY <1>2 DEF Coordinate, c
  <1>10. Coordinate(dims, s, 3) = ((s \div t) \div c) % p
    <2>1. Coordinate(dims, s, 3) = (s \div (t * c)) % p
      BY <1>2, <1>4, Zenon DEF Coordinate, p
    <2> QED
      BY <1>5, <2>1
  <1>11. Coordinate(dims, s, 2) = (((s \div t) \div c) \div p) % d
    <2>1. Coordinate(dims, s, 2) = (s \div ((t * c) * p)) % d
      BY <1>2, <1>4, Zenon DEF Coordinate, d
    <2> QED
      BY <1>5, <1>6, <2>1, Zenon
  <1>12. Coordinate(dims, s, 1) = ((((s \div t) \div c) \div p) \div d) % e
    <2>1. Coordinate(dims, s, 1) = (s \div (((t * c) * p) * d)) % e
      BY <1>2, <1>4, Zenon DEF Coordinate, e
    <2> QED
      BY <1>5, <1>6, <1>7, <2>1, Zenon
  <1> QED
    BY <1>8, <1>9, <1>10, <1>11, <1>12 DEF e, d, p, c, t

\* The coordinates of a rank lead back to it.
LEMMA AtCoordinates ==
    ASSUME NEW dims \in Dims, NEW s \in Ranks(dims)
    PROVE  Coordinates(dims, s) \in Places(dims) /\ At(dims, Coordinates(dims, s)) = s
  <1> DEFINE e == dims[1]
             d == dims[2]
             p == dims[3]
             c == dims[4]
             t == dims[5]
             m4 == s \div t
             m3 == m4 \div c
             m2 == m3 \div p
             m1 == m2 \div d
             x == Coordinates(dims, s)
  <1>1. e \in Nat \ {0} /\ d \in Nat \ {0} /\ p \in Nat \ {0} /\ c \in Nat \ {0} /\ t \in Nat \ {0}
    BY ProductPositive
  <1>2. s \in Nat /\ s < e * d * p * c * t
    BY StridesAre, ProductPositive DEF Ranks
  <1>3. x[1] = m1 % e /\ x[2] = m2 % d /\ x[3] = m3 % p /\ x[4] = m4 % c /\ x[5] = s % t
    BY <1>2, CoordinatesAre DEF Coordinates
  <1>4. x = [axis \in 1 .. 5 |-> x[axis]]
    BY DEF Coordinates
  <1>5. At(dims, x) = (((x[1] * d + x[2]) * p + x[3]) * c + x[4]) * t + x[5]
    BY DEF At
  <1>6. Coordinates(dims, s) \in Places(dims) <=>
           \A axis \in 1 .. 5 : x[axis] \in Nat /\ x[axis] < dims[axis]
    BY <1>4 DEF Places
  <1> HIDE DEF x
  <1>7. /\ e \in Nat /\ e * d \in Nat /\ (e * d) * p \in Nat /\ ((e * d) * p) * c \in Nat
        /\ e * d * p * c * t = (((e * d) * p) * c) * t
    BY <1>1
  <1> HIDE DEF e, d, p, c, t
  <1>8. m4 \in Nat /\ s % t \in Nat /\ s % t < t /\ s = m4 * t + (s % t) /\ m4 < ((e * d) * p) * c
    BY <1>1, <1>2, <1>7, Digit, Zenon
  <1> HIDE DEF m4
  <1>9. m3 \in Nat /\ m4 % c \in Nat /\ m4 % c < c /\ m4 = m3 * c + (m4 % c) /\ m3 < (e * d) * p
    BY <1>1, <1>7, <1>8, Digit, Zenon
  <1> HIDE DEF m3
  <1>10. m2 \in Nat /\ m3 % p \in Nat /\ m3 % p < p /\ m3 = m2 * p + (m3 % p) /\ m2 < e * d
    BY <1>1, <1>7, <1>9, Digit, Zenon
  <1> HIDE DEF m2
  <1>11. m1 \in Nat /\ m2 % d \in Nat /\ m2 % d < d /\ m2 = m1 * d + (m2 % d) /\ m1 < e
    BY <1>1, <1>7, <1>10, Digit, Zenon
  <1> HIDE DEF m1
  <1>12. m1 % e = m1
    BY <1>1, <1>11, SmallRest, Zenon
  <1>13. m2 = x[1] * d + x[2] /\ m3 = m2 * p + x[3] /\ m4 = m3 * c + x[4] /\ s = m4 * t + x[5]
    BY <1>3, <1>8, <1>9, <1>10, <1>11, <1>12, Zenon
  <1>14. At(dims, x) = s
    BY <1>5, <1>13, Zenon
  <1>15. \A axis \in 1 .. 5 : x[axis] \in Nat /\ x[axis] < dims[axis]
    <2>1. x[1] \in Nat /\ x[2] \in Nat /\ x[3] \in Nat /\ x[4] \in Nat /\ x[5] \in Nat
      BY <1>3, <1>8, <1>9, <1>10, <1>11, <1>12, Zenon
    <2>2. x[1] < e /\ x[2] < d /\ x[3] < p /\ x[4] < c /\ x[5] < t
      BY <1>3, <1>8, <1>9, <1>10, <1>11, <1>12, Zenon
    <2>3. \A axis \in 1 .. 5 : axis = 1 \/ axis = 2 \/ axis = 3 \/ axis = 4 \/ axis = 5
      OBVIOUS
    <2> QED
      BY <2>1, <2>2, <2>3 DEF e, d, p, c, t
  <1> QED
    BY <1>6, <1>14, <1>15 DEF x

\* Every place is that of one rank.
LEMMA AtPlace ==
    ASSUME NEW dims \in Dims, NEW x \in Places(dims)
    PROVE  At(dims, x) \in Ranks(dims) /\ Coordinates(dims, At(dims, x)) = x
  <1> DEFINE e == dims[1]
             d == dims[2]
             p == dims[3]
             c == dims[4]
             t == dims[5]
             m2 == x[1] * d + x[2]
             m3 == m2 * p + x[3]
             m4 == m3 * c + x[4]
             s == m4 * t + x[5]
  <1>1. e \in Nat \ {0} /\ d \in Nat \ {0} /\ p \in Nat \ {0} /\ c \in Nat \ {0} /\ t \in Nat \ {0}
    BY ProductPositive
  <1>2. /\ x[1] \in Nat /\ x[2] \in Nat /\ x[3] \in Nat /\ x[4] \in Nat /\ x[5] \in Nat
        /\ x[1] < e /\ x[2] < d /\ x[3] < p /\ x[4] < c /\ x[5] < t
    BY DEF Places
  <1>3. At(dims, x) = s /\ x = [axis \in 1 .. 5 |-> x[axis]]
    BY DEF At, Places
  <1> HIDE DEF e, d, p, c, t
  <1>4. /\ e \in Nat /\ e * d \in Nat /\ (e * d) * p \in Nat /\ ((e * d) * p) * c \in Nat
    BY <1>1
  <1>5. m2 \in Nat /\ m2 \div d = x[1] /\ m2 % d = x[2] /\ m2 < e * d
    <2>1. Fits(x[1], d, e, x[2])
      BY <1>1, <1>2, <1>4, Zenon DEF Fits
    <2>2. Appended(x[1], d, e, x[2])
      BY <2>1, DigitAppended, Zenon
    <2> QED
      BY <2>2, Zenon DEF Appended
  <1> HIDE DEF m2
  <1>6. m3 \in Nat /\ m3 \div p = m2 /\ m3 % p = x[3] /\ m3 < (e * d) * p
    <2>1. Fits(m2, p, e * d, x[3])
      BY <1>1, <1>2, <1>4, <1>5, Zenon DEF Fits
    <2>2. Appended(m2, p, e * d, x[3])
      BY <2>1, DigitAppended, Zenon
    <2> QED
      BY <2>2, Zenon DEF Appended
  <1> HIDE DEF m3
  <1>7. m4 \in Nat /\ m4 \div c = m3 /\ m4 % c = x[4] /\ m4 < ((e * d) * p) * c
    <2>1. Fits(m3, c, (e * d) * p, x[4])
      BY <1>1, <1>2, <1>4, <1>6, Zenon DEF Fits
    <2>2. Appended(m3, c, (e * d) * p, x[4])
      BY <2>1, DigitAppended, Zenon
    <2> QED
      BY <2>2, Zenon DEF Appended
  <1> HIDE DEF m4
  <1>8. s \in Nat /\ s \div t = m4 /\ s % t = x[5] /\ s < (((e * d) * p) * c) * t
    <2>1. Fits(m4, t, ((e * d) * p) * c, x[5])
      BY <1>1, <1>2, <1>4, <1>7, Zenon DEF Fits
    <2>2. Appended(m4, t, ((e * d) * p) * c, x[5])
      BY <2>1, DigitAppended, Zenon
    <2> QED
      BY <2>2, Zenon DEF Appended
  <1> HIDE DEF s
  <1>9. s \in Ranks(dims)
    <2>1. Product(dims) = (((e * d) * p) * c) * t
      BY StridesAre DEF e, d, p, c, t
    <2>2. s < Product(dims) /\ Product(dims) \in Nat
      BY <1>8, <2>1, ProductPositive, Zenon
    <2> QED
      BY <1>8, <2>2 DEF Ranks
  <1>10. x[1] % e = x[1]
    BY <1>1, <1>2, SmallRest, Zenon
  <1>11. /\ Coordinate(dims, s, 5) = x[5] /\ Coordinate(dims, s, 4) = x[4]
         /\ Coordinate(dims, s, 3) = x[3] /\ Coordinate(dims, s, 2) = x[2]
         /\ Coordinate(dims, s, 1) = x[1]
    <2>1. /\ Coordinate(dims, s, 5) = s % t
          /\ Coordinate(dims, s, 4) = (s \div t) % c
          /\ Coordinate(dims, s, 3) = ((s \div t) \div c) % p
          /\ Coordinate(dims, s, 2) = (((s \div t) \div c) \div p) % d
          /\ Coordinate(dims, s, 1) = ((((s \div t) \div c) \div p) \div d) % e
      BY <1>8, CoordinatesAre, Zenon DEF e, d, p, c, t
    <2> QED
      BY <1>5, <1>6, <1>7, <1>8, <1>10, <2>1, Zenon
  <1>12. \A axis \in 1 .. 5 : axis = 1 \/ axis = 2 \/ axis = 3 \/ axis = 4 \/ axis = 5
    OBVIOUS
  <1>13. \A axis \in 1 .. 5 : Coordinate(dims, s, axis) = x[axis]
    BY <1>11, <1>12
  <1>14. Coordinates(dims, s) = x
    BY <1>3, <1>13 DEF Coordinates
  <1> QED
    BY <1>3, <1>9, <1>14

\* The ranks of a tensor-parallel group are neighbours.
LEMMA AlongTP ==
    ASSUME NEW dims \in Dims, NEW r \in Ranks(dims), NEW s \in Ranks(dims)
    PROVE  s \in Along(dims, {TP}, r) <=> s \div dims[TP] = r \div dims[TP]
  <1> DEFINE t == dims[5]
  <1>1. DOMAIN dims = 1 .. 5 /\ t \in Nat \ {0} /\ r \in Nat /\ s \in Nat
    BY ProductPositive DEF Dims, Ranks
  <1>2. s \in Along(dims, {TP}, r) <=>
           \A axis \in (1 .. 5) \ {5} : Coordinate(dims, s, axis) = Coordinate(dims, r, axis)
    BY <1>1 DEF Along, Ranks, TP
  <1>3. ASSUME s \div t = r \div t
        PROVE  s \in Along(dims, {TP}, r)
    <2>1. /\ Coordinate(dims, s, 4) = Coordinate(dims, r, 4)
          /\ Coordinate(dims, s, 3) = Coordinate(dims, r, 3)
          /\ Coordinate(dims, s, 2) = Coordinate(dims, r, 2)
          /\ Coordinate(dims, s, 1) = Coordinate(dims, r, 1)
      <3>1. ASSUME NEW q \in Nat
            PROVE  /\ Coordinate(dims, q, 4) = (q \div t) % dims[4]
                   /\ Coordinate(dims, q, 3) = ((q \div t) \div dims[4]) % dims[3]
                   /\ Coordinate(dims, q, 2) = (((q \div t) \div dims[4]) \div dims[3]) % dims[2]
                   /\ Coordinate(dims, q, 1) =
                         ((((q \div t) \div dims[4]) \div dims[3]) \div dims[2]) % dims[1]
        BY CoordinatesAre, Zenon
      <3> HIDE DEF t
      <3> QED
        BY <1>1, <1>3, <3>1, Zenon
    <2>2. \A axis \in (1 .. 5) \ {5} : axis = 1 \/ axis = 2 \/ axis = 3 \/ axis = 4
      OBVIOUS
    <2> QED
      BY <1>2, <2>1, <2>2, Zenon
  <1>4. ASSUME s \in Along(dims, {TP}, r)
        PROVE  s \div t = r \div t
    <2> DEFINE x == Coordinates(dims, s)
               y == Coordinates(dims, r)
               tp(z) == ((z[1] * dims[2] + z[2]) * dims[3] + z[3]) * dims[4] + z[4]
    <2>1. x[1] = y[1] /\ x[2] = y[2] /\ x[3] = y[3] /\ x[4] = y[4]
      BY <1>2, <1>4 DEF Coordinates
    <2>2. /\ x \in Places(dims) /\ At(dims, x) = s
          /\ y \in Places(dims) /\ At(dims, y) = r
      BY AtCoordinates
    <2>3. \A z \in Places(dims) : tp(z) \in Nat /\ z[5] \in Nat /\ z[5] < t /\ At(dims, z) = tp(z) * t + z[5]
      <3> SUFFICES ASSUME NEW z \in Places(dims)
                   PROVE  tp(z) \in Nat /\ z[5] \in Nat /\ z[5] < t /\ At(dims, z) = tp(z) * t + z[5]
        OBVIOUS
      <3>1. /\ z[1] \in Nat /\ z[2] \in Nat /\ z[3] \in Nat /\ z[4] \in Nat /\ z[5] \in Nat
            /\ z[5] < dims[5]
        BY DEF Places
      <3>2. dims[2] \in Nat /\ dims[3] \in Nat /\ dims[4] \in Nat
        BY ProductPositive
      <3> QED
        BY <3>1, <3>2 DEF At
    <2>4. tp(x) = tp(y)
      BY <2>1
    <2> HIDE DEF tp, x, y, t
    <2>5. \A z \in Places(dims) : (tp(z) * t + z[5]) \div t = tp(z)
      BY <1>1, <2>3, DivIs
    <2> QED
      BY <2>2, <2>3, <2>4, <2>5 DEF t
  <1> QED
    BY <1>3, <1>4 DEF TP

-------------------------------------------------------------------------------
(* The grids of flashcomm2 *)

\* The sizes of a grid.
IsGrid(c, rows) ==
    /\ c.dims \in Dims /\ c.dims[EXT] = 1 /\ c.dims[PCP] = 1
    /\ c.flashcomm2 \in Nat \ {0}
    /\ rows = c.dims[TP] \div c.flashcomm2

\* Nothing but the rank itself is at its place in the grids.
LEMMA GridRank ==
    ASSUME NEW c, NEW rows, IsGrid(c, rows),
           NEW g \in Nat, g < c.dims[DP] * c.dims[PP],
           NEW i \in Nat, i < rows, NEW j \in Nat, j < c.flashcomm2
    PROVE  LET x == FlashComm2Rank(c, g, i, j)
           IN  /\ x \in Ranks(c.dims)
               /\ x \div c.dims[TP] = g
               /\ (x % c.dims[TP]) \div rows = j /\ (x % c.dims[TP]) % rows = i
  <1> DEFINE t == c.dims[TP]
             f == c.flashcomm2
             dp == c.dims[DP] * c.dims[PP]
             y == j * rows + i
             x == FlashComm2Rank(c, g, i, j)
  <1>1. /\ t \in Nat \ {0} /\ f \in Nat \ {0} /\ rows \in Nat /\ dp \in Nat /\ rows * f <= t
        /\ rows = t \div f
    <2>1. t \in Nat \ {0} /\ f \in Nat \ {0} /\ rows = t \div f /\ dp \in Nat
      BY ProductPositive DEF IsGrid, TP, DP, PP
    <2> HIDE DEF t, f, dp
    <2>2. rows \in Nat /\ t % f \in Nat /\ t = rows * f + (t % f)
      BY <2>1, DivMod, Zenon
    <2>3. rows * f <= t
      BY <2>1, <2>2
    <2> QED
      BY <2>1, <2>2, <2>3
  <1>2. Product(c.dims) = dp * t
    <2>1. Product(c.dims) = 1 * c.dims[2] * c.dims[3] * 1 * c.dims[5]
      BY StridesAre DEF IsGrid, EXT, PCP
    <2>2. c.dims[2] \in Nat /\ c.dims[3] \in Nat /\ c.dims[5] \in Nat
      BY ProductPositive DEF IsGrid
    <2> QED
      BY <2>1, <2>2 DEF DP, PP, TP
  <1>3. x = g * t + (i + j * rows)
    <2>1. x = g * t + i + j * (t \div f)
      BY DEF FlashComm2Rank
    <2> HIDE DEF t, f, dp, x
    <2>2. g * t \in Nat /\ j * rows \in Nat
      BY <1>1
    <2> QED
      BY <1>1, <2>1, <2>2
  <1> HIDE DEF t, f, dp, x, y
  <1>4. y \in Nat /\ y < f * rows /\ y \div rows = j /\ y % rows = i
    <2>1. Fits(j, rows, f, i)
      BY <1>1 DEF Fits, f
    <2>2. Appended(j, rows, f, i)
      BY <2>1, DigitAppended
    <2> QED
      BY <2>2 DEF Appended, y
  <1>5. i + j * rows = y
    BY <1>1 DEF y
  <1>6. y < t
    <2>1. f * rows = rows * f
      BY <1>1
    <2> QED
      BY <1>1, <1>4, <2>1
  <1>7. x = g * t + y
    BY <1>3, <1>5
  <1>8. x \in Nat /\ x < dp * t /\ x \div t = g /\ x % t = y
    <2>1. Fits(g, t, dp, y)
      BY <1>1, <1>4, <1>6 DEF Fits, dp
    <2>2. Appended(g, t, dp, y)
      BY <2>1, DigitAppended
    <2> QED
      BY <1>7, <2>2 DEF Appended
  <1>9. x \in Ranks(c.dims)
    <2>1. dp * t \in Nat
      BY <1>1
    <2> QED
      BY <1>2, <1>8, <2>1 DEF Ranks
  <1> QED
    BY <1>4, <1>8, <1>9 DEF x, t

\* A row of FLASHCOMM2_OTP is a row of a grid.
LEMMA OtpRow ==
    ASSUME NEW c, NEW rows, IsGrid(c, rows), NEW n \in DOMAIN FlashComm2OtpRows(c)
    PROVE  \E g \in Nat, i \in Nat :
              /\ g < c.dims[DP] * c.dims[PP] /\ i < rows
              /\ ToSet(FlashComm2OtpRows(c)[n]) =
                    {FlashComm2Rank(c, g, i, j) : j \in 0 .. c.flashcomm2 - 1}
              /\ Len(FlashComm2OtpRows(c)[n]) = c.flashcomm2
  <1> DEFINE dp == c.dims[DP] * c.dims[PP]
             g == (n - 1) \div rows
             i == (n - 1) % rows
             f == c.flashcomm2
             row == FlashComm2OtpRows(c)[n]
  <1>1. n \in 1 .. dp * rows /\ row = [j \in 1 .. f |-> FlashComm2Rank(c, g, i, j - 1)]
    BY DEF FlashComm2OtpRows, IsGrid
  <1>2. dp \in Nat /\ rows \in Nat /\ f \in Nat
    <2>1. c.dims[TP] \in Nat \ {0} /\ c.flashcomm2 \in Nat \ {0} /\ dp \in Nat /\ rows = c.dims[TP] \div f
      BY ProductPositive DEF IsGrid, TP, DP, PP
    <2> QED
      BY <2>1, DivMod, Zenon
  <1> HIDE DEF dp, row, f
  <1>3. n - 1 \in Nat /\ n - 1 < dp * rows /\ rows \in Nat \ {0}
    <2>1. dp * rows \in Nat /\ n \in Nat /\ n <= dp * rows /\ n >= 1
      BY <1>1, <1>2
    <2>2. rows # 0
      BY <1>2, <2>1
    <2> QED
      BY <1>2, <2>1, <2>2
  <1>4. g \in Nat /\ i \in Nat /\ i < rows /\ g < dp
    BY <1>2, <1>3, Digit, Zenon
  <1> HIDE DEF g, i
  <1>5. ToSet(row) = {FlashComm2Rank(c, g, i, j) : j \in 0 .. f - 1}
    <2>1. ToSet(row) = {FlashComm2Rank(c, g, i, j - 1) : j \in 1 .. f}
      BY <1>1 DEF ToSet
    <2>2. \A j \in 1 .. f : j - 1 \in 0 .. f - 1
      BY <1>2
    <2>3. \A j \in 0 .. f - 1 : j + 1 \in 1 .. f /\ (j + 1) - 1 = j
      BY <1>2
    <2> QED
      BY <2>1, <2>2, <2>3
  <1>6. Len(row) = f
    BY <1>1, <1>2
  <1> QED
    BY <1>4, <1>5, <1>6 DEF dp, f, row

\* A row of FLASHCOMM2_ODP is a column of a grid.
LEMMA OdpRow ==
    ASSUME NEW c, NEW rows, IsGrid(c, rows), rows # 0, NEW n \in DOMAIN FlashComm2OdpRows(c)
    PROVE  \E g \in Nat, j \in Nat :
              /\ g < c.dims[DP] * c.dims[PP] /\ j < c.flashcomm2
              /\ ToSet(FlashComm2OdpRows(c)[n]) =
                    {FlashComm2Rank(c, g, i, j) : i \in 0 .. rows - 1}
              /\ Len(FlashComm2OdpRows(c)[n]) = rows
  <1> DEFINE dp == c.dims[DP] * c.dims[PP]
             f == c.flashcomm2
             g == (n - 1) \div f
             j == (n - 1) % f
             row == FlashComm2OdpRows(c)[n]
  <1>1. n \in 1 .. dp * f /\ row = [i \in 1 .. rows |-> FlashComm2Rank(c, g, i - 1, j)]
    BY DEF FlashComm2OdpRows, IsGrid
  <1>2. dp \in Nat /\ rows \in Nat /\ f \in Nat \ {0}
    <2>1. c.dims[TP] \in Nat \ {0} /\ f \in Nat \ {0} /\ dp \in Nat /\ rows = c.dims[TP] \div f
      BY ProductPositive DEF IsGrid, TP, DP, PP
    <2> QED
      BY <2>1, DivMod, Zenon
  <1> HIDE DEF dp, row, f
  <1>3. n - 1 \in Nat /\ n - 1 < dp * f
    <2>1. dp * f \in Nat /\ n \in Nat /\ n <= dp * f /\ n >= 1
      BY <1>1, <1>2
    <2> QED
      BY <1>2, <2>1
  <1>4. g \in Nat /\ j \in Nat /\ j < f /\ g < dp
    BY <1>2, <1>3, Digit, Zenon
  <1> HIDE DEF g, j
  <1>5. ToSet(row) = {FlashComm2Rank(c, g, i, j) : i \in 0 .. rows - 1}
    <2>1. ToSet(row) = {FlashComm2Rank(c, g, i - 1, j) : i \in 1 .. rows}
      BY <1>1 DEF ToSet
    <2>2. \A i \in 1 .. rows : i - 1 \in 0 .. rows - 1
      BY <1>2
    <2>3. \A i \in 0 .. rows - 1 : i + 1 \in 1 .. rows /\ (i + 1) - 1 = i
      BY <1>2
    <2> QED
      BY <2>1, <2>2, <2>3
  <1>6. Len(row) = rows
    BY <1>1, <1>2
  <1> QED
    BY <1>4, <1>5, <1>6 DEF dp, f, row

\* A row and a column of a grid cross once.
LEMMA Crossing ==
    ASSUME NEW c, NEW rows, IsGrid(c, rows), rows # 0,
           NEW n \in DOMAIN FlashComm2OtpRows(c), NEW h \in DOMAIN FlashComm2OdpRows(c)
    PROVE  LET row    == ToSet(FlashComm2OtpRows(c)[n])
               column == ToSet(FlashComm2OdpRows(c)[h])
           IN  Cardinality(row \cap column) =
                   IF row \subseteq Along(c.dims, {TP}, Min(column)) THEN 1 ELSE 0
  <1> DEFINE f == c.flashcomm2
             dp == c.dims[DP] * c.dims[PP]
             t == c.dims[TP]
             GridAt(g, i, j) == FlashComm2Rank(c, g, i, j)
             row == ToSet(FlashComm2OtpRows(c)[n])
             column == ToSet(FlashComm2OdpRows(c)[h])
  <1>1. PICK g \in Nat, i \in Nat :
           g < dp /\ i < rows /\ row = {GridAt(g, i, j) : j \in 0 .. f - 1}
    BY OtpRow
  <1>2. PICK k \in Nat, m \in Nat :
           k < dp /\ m < f /\ column = {GridAt(k, l, m) : l \in 0 .. rows - 1}
    BY OdpRow
  <1>3. rows \in Nat /\ f \in Nat \ {0} /\ t \in Nat \ {0}
    <2>1. t \in Nat \ {0} /\ f \in Nat \ {0} /\ rows = t \div f
      BY ProductPositive DEF IsGrid, TP
    <2> QED
      BY <2>1, DivMod, Zenon
  <1>4. ASSUME NEW a \in Nat, a < dp, NEW b \in Nat, b < rows, NEW d \in Nat, d < f
        PROVE  /\ GridAt(a, b, d) \in Ranks(c.dims)
               /\ GridAt(a, b, d) \div t = a
               /\ (GridAt(a, b, d) % t) \div rows = d /\ (GridAt(a, b, d) % t) % rows = b
    BY <1>4, GridRank
  <1>5. \A x \in row : x \in Ranks(c.dims) /\ x \div t = g /\ (x % t) % rows = i
    <2> SUFFICES ASSUME NEW j \in 0 .. f - 1
                 PROVE  LET x == GridAt(g, i, j)
                        IN  x \in Ranks(c.dims) /\ x \div t = g /\ (x % t) % rows = i
      BY <1>1
    <2>1. j \in Nat /\ j < f
      BY <1>3
    <2> QED
      BY <1>1, <1>4, <2>1
  <1>6. \A x \in column : x \in Ranks(c.dims) /\ x \div t = k /\ (x % t) \div rows = m
    <2> SUFFICES ASSUME NEW l \in 0 .. rows - 1
                 PROVE  LET x == GridAt(k, l, m)
                        IN  x \in Ranks(c.dims) /\ x \div t = k /\ (x % t) \div rows = m
      BY <1>2
    <2>1. l \in Nat /\ l < rows
      BY <1>3
    <2> QED
      BY <1>2, <1>4, <2>1
  <1>7. Min(column) \in column
    <2>1. GridAt(k, 0, m) \in column
      BY <1>2, <1>3
    <2>2. \A l \in 0 .. rows - 1 : GridAt(k, 0, m) <= GridAt(k, l, m)
      <3> SUFFICES ASSUME NEW l \in 0 .. rows - 1
                   PROVE  GridAt(k, 0, m) <= GridAt(k, l, m)
        OBVIOUS
      <3>1. \A b : GridAt(k, b, m) = k * t + b + m * rows
        BY DEF FlashComm2Rank, IsGrid
      <3>2. k * t \in Nat /\ m * rows \in Nat
        BY <1>2, <1>3
      <3> HIDE DEF GridAt, t, f
      <3> QED
        BY <1>3, <3>1, <3>2
    <2>3. \E x \in column : \A y \in column : x <= y
      <3> HIDE DEF GridAt
      <3> QED
        BY <1>2, <2>1, <2>2
    <2> QED
      BY <2>3, Zenon DEF Min
  <1>8. GridAt(g, i, 0) \in row
    BY <1>1, <1>3
  <1>9. row \subseteq Along(c.dims, {TP}, Min(column)) <=> g = k
    <2>1. Min(column) \in Ranks(c.dims) /\ Min(column) \div t = k
      BY <1>6, <1>7
    <2>2. c.dims \in Dims
      BY DEF IsGrid
    <2>3. \A x \in row : x \in Along(c.dims, {TP}, Min(column)) <=> g = k
      <3> HIDE DEF row, column, GridAt
      <3> QED
        BY <1>5, <2>1, <2>2, AlongTP
    <2> HIDE DEF row, column
    <2> QED
      BY <1>8, <2>3
  <1>10. ASSUME g # k
         PROVE  Cardinality(row \cap column) = 0
    <2>1. row \cap column = {}
      BY <1>5, <1>6, <1>10
    <2> QED
      BY <2>1, FS_EmptySet
  <1>11. ASSUME g = k
         PROVE  Cardinality(row \cap column) = 1
    <2> DEFINE x == GridAt(g, i, m)
    <2>1. x \in row /\ x \in column
      <3>1. m \in 0 .. f - 1 /\ i \in 0 .. rows - 1
        BY <1>1, <1>2, <1>3
      <3> HIDE DEF GridAt
      <3> QED
        BY <1>1, <1>2, <1>11, <3>1
    <2>2. ASSUME NEW y \in row, y \in column
          PROVE  y = x
      <3>1. PICK j \in 0 .. f - 1 : y = GridAt(g, i, j)
        BY <1>1
      <3>2. j \in Nat /\ j < f
        BY <1>3
      <3>3. (y % t) \div rows = j
        BY <1>1, <1>4, <3>1, <3>2
      <3>4. (y % t) \div rows = m
        BY <1>6, <2>2
      <3> QED
        BY <3>1, <3>3, <3>4
    <2> HIDE DEF x, row, column
    <2>3. row \cap column = {x}
      BY <2>1, <2>2
    <2> QED
      BY <2>3, FS_Singleton
  <1> HIDE DEF row, column
  <1> QED
    BY <1>9, <1>10, <1>11 DEF row, column

\* Whatever the sizes, a row and a column of the grids share one rank within a tensor-
\* parallel group and none across.  Code: the two lists of groups that
\* init_ascend_model_parallel fills in one loop.
THEOREM RowsAndColumnsCrossOnce == Spec => []FlashComm2Grid
  <1>1. CreatedInv => FlashComm2Grid
    <2> SUFFICES ASSUME CreatedInv, "FLASHCOMM2_OTP" \in AliveNames,
                        NEW g \in DOMAIN FlashComm2OtpRows(config),
                        NEW h \in DOMAIN FlashComm2OdpRows(config)
                 PROVE  LET row    == ToSet(FlashComm2OtpRows(config)[g])
                            column == ToSet(FlashComm2OdpRows(config)[h])
                        IN  Cardinality(row \cap column) =
                                IF row \subseteq Along(config.dims, {TP}, Min(column)) THEN 1 ELSE 0
      BY DEF FlashComm2Grid
    <2> DEFINE rows == config.dims[TP] \div config.flashcomm2
    <2>1. config.flashcomm2 > 1 /\ config \in Configs
      BY DEF CreatedInv, AliveNames, MayExist
    <2>2. IsGrid(config, rows)
      BY <2>1, ConfigsAssumption DEF IsGrid, Dims
    <2>3. rows # 0
      <3> SUFFICES ASSUME rows = 0 PROVE FALSE
        OBVIOUS
      <3>1. DOMAIN FlashComm2OtpRows(config) = 1 .. config.dims[DP] * config.dims[PP] * rows
        BY DEF FlashComm2OtpRows
      <3>2. config.dims[DP] \in Nat /\ config.dims[PP] \in Nat
        BY <2>2, ProductPositive DEF IsGrid, DP, PP
      <3>3. config.dims[DP] * config.dims[PP] * rows = 0
        BY <3>2
      <3> HIDE DEF rows
      <3> QED
        BY <3>1, <3>3
    <2> HIDE DEF rows
    <2> QED
      BY <2>2, <2>3, Crossing
  <1> QED
    BY <1>1, CreatedAsConfigured, PTL

-------------------------------------------------------------------------------
(* The fine-grained groups *)

\* The sizes of a fine-grained group fit.
IsFine(c, size) ==
    /\ c.dims \in Dims /\ c.dims[EXT] = 1 /\ c.dims[PCP] = 1
    /\ size \in Nat \ {0} /\ c.dims[DP] % size = 0

\* A size that divides another one.
LEMMA Divisor ==
    ASSUME NEW n \in Nat \ {0}, NEW size \in Nat \ {0}, n % size = 0
    PROVE  n \div size \in Nat \ {0} /\ n = (n \div size) * size
  <1>1. n \div size \in Nat /\ n = (n \div size) * size + (n % size)
    BY DivMod, Zenon
  <1> DEFINE q == n \div size
  <1> HIDE DEF q
  <1>2. q \in Nat /\ n = q * size
    BY <1>1 DEF q
  <1>3. q # 0
    BY <1>2
  <1> QED
    BY <1>2, <1>3 DEF q

\* The world of a configuration without external replicas and context ranks.
LEMMA FlatWorld ==
    ASSUME NEW dims \in Dims, dims[EXT] = 1, dims[PCP] = 1
    PROVE  Product(dims) = dims[DP] * dims[PP] * dims[TP]
  <1>1. Product(dims) = 1 * dims[2] * dims[3] * 1 * dims[5]
    BY StridesAre DEF EXT, PCP
  <1>2. dims[2] \in Nat /\ dims[3] \in Nat /\ dims[5] \in Nat
    BY ProductPositive
  <1> QED
    BY <1>1, <1>2 DEF DP, PP, TP

\* What a fine-grained row holds: so many ranks, one tensor-parallel size apart.
LEMMA FineRow ==
    ASSUME NEW c, NEW size, IsFine(c, size), NEW n \in DOMAIN FineGrainedRows(c, size)
    PROVE  \E pp \in Nat, chunk \in Nat, tp \in Nat :
              /\ pp < c.dims[PP] /\ chunk < c.dims[DP] \div size /\ tp < c.dims[TP]
              /\ FineGrainedRows(c, size)[n] =
                    [i \in 1 .. size |->
                        (pp * c.dims[DP] + chunk * size + i - 1) * c.dims[TP] + tp]
              /\ n - 1 = (pp * (c.dims[DP] \div size) + chunk) * c.dims[TP] + tp
  <1> DEFINE d == c.dims[DP]
             p == c.dims[PP]
             t == c.dims[TP]
             chunks == d \div size
             pp == (n - 1) \div (chunks * t)
             chunk == ((n - 1) \div t) % chunks
             tp == (n - 1) % t
  <1>1. /\ d \in Nat \ {0} /\ p \in Nat \ {0} /\ t \in Nat \ {0} /\ size \in Nat \ {0}
        /\ d % size = 0
    BY ProductPositive DEF IsFine, DP, PP, TP
  <1>2. /\ n \in 1 .. p * chunks * t
        /\ FineGrainedRows(c, size)[n] =
              [i \in 1 .. size |-> (pp * d + chunk * size + i - 1) * t + tp]
    BY DEF FineGrainedRows
  <1> HIDE DEF d, p, t
  <1>3. chunks \in Nat \ {0} /\ d = chunks * size
    BY <1>1, Divisor
  <1> HIDE DEF chunks
  <1>4. n - 1 \in Nat /\ n - 1 < (p * chunks) * t /\ p * chunks \in Nat
    <2>1. p * chunks \in Nat /\ p * chunks * t \in Nat
      BY <1>1, <1>3
    <2> QED
      BY <1>2, <2>1
  <1>5. /\ (n - 1) \div t \in Nat /\ tp \in Nat /\ tp < t
        /\ n - 1 = ((n - 1) \div t) * t + tp /\ (n - 1) \div t < p * chunks
    BY <1>1, <1>4, Digit, Zenon
  <1>6. pp = ((n - 1) \div t) \div chunks
    <2>1. Nested(n - 1, t, chunks)
      BY <1>1, <1>3, <1>4, Twice, Zenon
    <2>2. chunks * t = t * chunks
      BY <1>1, <1>3
    <2> QED
      BY <2>1, <2>2, Zenon DEF Nested
  <1> DEFINE q == (n - 1) \div t
  <1>7. pp = q \div chunks /\ chunk = q % chunks
    BY <1>6
  <1> HIDE DEF q, pp, chunk, tp
  <1>8. pp \in Nat /\ chunk \in Nat /\ chunk < chunks /\ q = pp * chunks + chunk /\ pp < p
    <2>1. q \in Nat /\ q < p * chunks
      BY <1>5 DEF q
    <2>2. /\ q \div chunks \in Nat /\ q % chunks \in Nat /\ q % chunks < chunks
          /\ q = (q \div chunks) * chunks + (q % chunks) /\ q \div chunks < p
      BY <1>1, <1>3, <2>1, Digit, Zenon
    <2> QED
      BY <1>7, <2>2, Zenon
  <1>9. n - 1 = (pp * chunks + chunk) * t + tp
    BY <1>5, <1>8, Zenon DEF q
  <1> QED
    BY <1>2, <1>5, <1>8, <1>9 DEF d, p, t, chunks

\* A rank of the row, from 0.
LEMMA FineRank ==
    ASSUME NEW c, NEW size, IsFine(c, size),
           NEW pp \in Nat, pp < c.dims[PP], NEW chunk \in Nat, chunk < c.dims[DP] \div size,
           NEW tp \in Nat, tp < c.dims[TP], NEW i \in Nat, i < size
    PROVE  LET x == (pp * c.dims[DP] + chunk * size + i) * c.dims[TP] + tp
           IN  /\ x \in Ranks(c.dims)
               /\ x % c.dims[TP] = tp
               /\ x \div c.dims[TP] = pp * c.dims[DP] + chunk * size + i
               /\ chunk * size + i < c.dims[DP]
  <1> DEFINE d == c.dims[DP]
             p == c.dims[PP]
             t == c.dims[TP]
             chunks == d \div size
             y == chunk * size + i
             q == pp * d + y
             x == q * t + tp
  <1>1. /\ d \in Nat \ {0} /\ p \in Nat \ {0} /\ t \in Nat \ {0} /\ size \in Nat \ {0}
        /\ d % size = 0 /\ Product(c.dims) = d * p * t
    BY ProductPositive, FlatWorld DEF IsFine, DP, PP, TP
  <1> HIDE DEF d, p, t
  <1>2. chunks \in Nat \ {0} /\ d = chunks * size
    BY <1>1, Divisor
  <1>3. y \in Nat /\ y < d
    <2>1. Fits(chunk, size, chunks, i)
      BY <1>1, <1>2 DEF Fits, d
    <2> HIDE DEF chunks
    <2>2. Appended(chunk, size, chunks, i)
      BY <2>1, DigitAppended
    <2> QED
      BY <1>2, <2>2 DEF Appended
  <1> HIDE DEF chunks, y
  <1>4. q \in Nat /\ q < p * d
    <2>1. Fits(pp, d, p, y)
      BY <1>1, <1>3 DEF Fits, p
    <2>2. Appended(pp, d, p, y)
      BY <2>1, DigitAppended
    <2> QED
      BY <2>2 DEF Appended
  <1>5. q = pp * d + chunk * size + i
    <2>1. pp * d \in Nat /\ chunk * size \in Nat
      BY <1>1
    <2> QED
      BY <2>1 DEF y
  <1> HIDE DEF q
  <1>6. x \in Nat /\ x < (p * d) * t /\ x \div t = q /\ x % t = tp
    <2>1. Fits(q, t, p * d, tp)
      BY <1>1, <1>4 DEF Fits, t
    <2>2. Appended(q, t, p * d, tp)
      BY <2>1, DigitAppended
    <2> QED
      BY <2>2 DEF Appended
  <1>7. (p * d) * t = d * p * t /\ (p * d) * t \in Nat
    BY <1>1
  <1> HIDE DEF x
  <1>8. x \in Ranks(c.dims)
    BY <1>1, <1>6, <1>7 DEF Ranks
  <1> QED
    BY <1>3, <1>5, <1>6, <1>8 DEF x, y, d, t

\* Every fine-grained row is along the data-parallel axis, where there is one stage.
LEMMA FineJoins ==
    ASSUME NEW c, NEW size, IsFine(c, size), size > 1
    PROVE  (\A g \in DOMAIN FineGrainedRows(c, size) :
               ToSet(FineGrainedRows(c, size)[g])
                  \subseteq Along(c.dims, {DP}, FineGrainedRows(c, size)[g][1]))
           <=> c.dims[PP] = 1
  <1> DEFINE d == c.dims[DP]
             p == c.dims[PP]
             t == c.dims[TP]
             rows == FineGrainedRows(c, size)
  <1>1. /\ d \in Nat \ {0} /\ p \in Nat \ {0} /\ t \in Nat \ {0} /\ size \in Nat \ {0}
        /\ d % size = 0 /\ c.dims \in Dims /\ c.dims[1] = 1 /\ c.dims[4] = 1
    BY ProductPositive DEF IsFine, DP, PP, TP, EXT, PCP
  <1>2. DOMAIN c.dims = 1 .. 5 /\ \A axis \in (1 .. 5) \ {2} : axis = 1 \/ axis = 3 \/ axis = 4 \/ axis = 5
    BY <1>1 DEF Dims
  <1>3. \A s, r : s \in Along(c.dims, {DP}, r) <=>
           /\ s \in Ranks(c.dims)
           /\ Coordinate(c.dims, s, 1) = Coordinate(c.dims, r, 1)
           /\ Coordinate(c.dims, s, 3) = Coordinate(c.dims, r, 3)
           /\ Coordinate(c.dims, s, 4) = Coordinate(c.dims, r, 4)
           /\ Coordinate(c.dims, s, 5) = Coordinate(c.dims, r, 5)
    BY <1>2 DEF Along, Ranks, DP
  <1>4. \A s \in Nat : /\ Coordinate(c.dims, s, 1) = 0 /\ Coordinate(c.dims, s, 4) = 0
                       /\ Coordinate(c.dims, s, 5) = s % t
                       /\ Coordinate(c.dims, s, 3) = (s \div t) % p
    <2> SUFFICES ASSUME NEW s \in Nat
                 PROVE  /\ Coordinate(c.dims, s, 1) = 0 /\ Coordinate(c.dims, s, 4) = 0
                        /\ Coordinate(c.dims, s, 5) = s % t
                        /\ Coordinate(c.dims, s, 3) = (s \div t) % p
      OBVIOUS
    <2>1. \A k \in Nat : k % 1 = 0 /\ k \div 1 = k
      OBVIOUS
    <2>2. /\ Coordinate(c.dims, s, 5) = s % t
          /\ Coordinate(c.dims, s, 4) = (s \div t) % 1
          /\ Coordinate(c.dims, s, 3) = ((s \div t) \div 1) % p
          /\ Coordinate(c.dims, s, 1) =
                ((((s \div t) \div 1) \div p) \div d) % 1
      BY <1>1, CoordinatesAre, Zenon DEF t, p, d, TP, PP, DP
    <2>3. s \div t \in Nat /\ (s \div t) \div p \in Nat /\ ((s \div t) \div p) \div d \in Nat
      BY <1>1, DivMod, Zenon
    <2> HIDE DEF t, p, d
    <2> QED
      BY <2>1, <2>2, <2>3
  <1> HIDE DEF d, p, t, rows
  <1>5. ASSUME p = 1, NEW g \in DOMAIN rows
        PROVE  ToSet(rows[g]) \subseteq Along(c.dims, {DP}, rows[g][1])
    <2>1. PICK pp \in Nat, chunk \in Nat, tp \in Nat :
             /\ pp < p /\ chunk < d \div size /\ tp < t
             /\ rows[g] = [i \in 1 .. size |-> (pp * d + chunk * size + i - 1) * t + tp]
      BY <1>5, FineRow DEF p, d, t, rows
    <2>2. ASSUME NEW i \in 1 .. size
          PROVE  rows[g][i] \in Ranks(c.dims) /\ rows[g][i] % t = tp
      <3>1. i - 1 \in Nat /\ i - 1 < size
        BY <1>1
      <3>2. (pp * d + chunk * size + (i - 1)) * t + tp \in Ranks(c.dims)
            /\ ((pp * d + chunk * size + (i - 1)) * t + tp) % t = tp
        BY <2>1, <3>1, FineRank DEF p, d, t
      <3>3. rows[g][i] = (pp * d + chunk * size + (i - 1)) * t + tp
        <4>1. pp * d \in Nat /\ chunk * size \in Nat
          BY <1>1
        <4>2. pp * d + chunk * size + i - 1 = pp * d + chunk * size + (i - 1)
          BY <4>1
        <4>3. rows[g][i] = (pp * d + chunk * size + i - 1) * t + tp
          BY <2>1
        <4> QED
          BY <4>2, <4>3
      <3> QED
        BY <3>2, <3>3
    <2>3. \A s \in Ranks(c.dims) : s \in Nat /\ s \div t \in Nat
      BY <1>1, DivMod DEF Ranks
    <2>4. \A k \in Nat : k % p = 0
      BY <1>5
    <2>5. 1 \in 1 .. size
      BY <1>1
    <2>6. ToSet(rows[g]) = {rows[g][i] : i \in 1 .. size}
      BY <2>1 DEF ToSet
    <2> SUFFICES ASSUME NEW i \in 1 .. size
                 PROVE  rows[g][i] \in Along(c.dims, {DP}, rows[g][1])
      BY <2>6
    <2>7. /\ rows[g][i] \in Ranks(c.dims) /\ rows[g][i] % t = tp
          /\ rows[g][1] \in Ranks(c.dims) /\ rows[g][1] % t = tp
      BY <2>2, <2>5
    <2> DEFINE s == rows[g][i]
               q == rows[g][1]
    <2>8. s \in Ranks(c.dims) /\ s % t = tp /\ s \in Nat /\ s \div t \in Nat
      BY <2>3, <2>7, Zenon
    <2>9. q % t = tp /\ q \in Nat /\ q \div t \in Nat
      BY <2>3, <2>7, Zenon
    <2> HIDE DEF s, q
    <2>10. /\ Coordinate(c.dims, s, 1) = 0 /\ Coordinate(c.dims, s, 4) = 0
           /\ Coordinate(c.dims, s, 5) = tp /\ Coordinate(c.dims, s, 3) = 0
      BY <1>4, <2>4, <2>8, Zenon
    <2>11. /\ Coordinate(c.dims, q, 1) = 0 /\ Coordinate(c.dims, q, 4) = 0
           /\ Coordinate(c.dims, q, 5) = tp /\ Coordinate(c.dims, q, 3) = 0
      BY <1>4, <2>4, <2>9, Zenon
    <2>12. s \in Along(c.dims, {DP}, q)
      BY <1>3, <2>8, <2>10, <2>11, Zenon
    <2> QED
      BY <2>12 DEF s, q
  <1>6. ASSUME p # 1
        PROVE  /\ 1 \in DOMAIN rows
               /\ ~(ToSet(rows[1]) \subseteq Along(c.dims, {DP}, rows[1][1]))
    <2> DEFINE chunks == d \div size
    <2>1. chunks \in Nat \ {0}
      BY <1>1, Divisor
    <2>2. DOMAIN rows = 1 .. p * chunks * t
      BY DEF FineGrainedRows, rows, p, d, t
    <2> HIDE DEF chunks
    <2>3. p * chunks * t \in Nat \ {0}
      <3>1. p * chunks \in Nat \ {0}
        BY <1>1, <2>1
      <3> QED
        BY <1>1, <3>1
    <2>4. 1 \in DOMAIN rows
      BY <2>2, <2>3
    <2>5. rows[1] = [i \in 1 .. size |-> (0 * d + 0 * size + i - 1) * t + 0]
      <3>1. chunks * t \in Nat \ {0}
        BY <1>1, <2>1
      <3>2. \A k \in Nat \ {0} : 0 \div k = 0 /\ 0 % k = 0
        OBVIOUS
      <3>3. (1 - 1) \div (chunks * t) = 0 /\ ((1 - 1) \div t) % chunks = 0 /\ (1 - 1) % t = 0
        BY <1>1, <2>1, <3>1, <3>2
      <3>4. rows[1] = [i \in 1 .. size |->
                          (((1 - 1) \div (chunks * t)) * d + (((1 - 1) \div t) % chunks) * size + i - 1) * t
                          + ((1 - 1) % t)]
        BY <2>4 DEF FineGrainedRows, rows, p, d, t, chunks
      <3> QED
        BY <3>3, <3>4
    <2>6. rows[1][1] = 0 /\ rows[1][2] = t /\ 2 \in DOMAIN rows[1]
      <3>1. 1 \in 1 .. size /\ 2 \in 1 .. size
        BY <1>1
      <3>2. rows[1][1] = (0 * d + 0 * size + 1 - 1) * t + 0
        BY <2>5, <3>1
      <3>3. rows[1][2] = (0 * d + 0 * size + 2 - 1) * t + 0
        BY <2>5, <3>1
      <3>4. 0 * d + 0 * size + 1 - 1 = 0 /\ 0 * d + 0 * size + 2 - 1 = 1
        BY <1>1
      <3>5. 0 * t + 0 = 0 /\ 1 * t + 0 = t
        BY <1>1
      <3>6. 2 \in DOMAIN rows[1]
        BY <2>5, <3>1
      <3> QED
        BY <3>2, <3>3, <3>4, <3>5, <3>6, Zenon
    <2>7. t \in ToSet(rows[1])
      BY <2>6 DEF ToSet
    <2>8. (0 \div t) % p = 0 /\ (t \div t) % p = 1
      <3>1. 0 \div t = 0 /\ t \div t = 1
        BY <1>1
      <3>2. 0 % p = 0 /\ 1 % p = 1
        BY <1>1, <1>6
      <3> QED
        BY <3>1, <3>2
    <2>9. ~(t \in Along(c.dims, {DP}, 0))
      <3>1. Coordinate(c.dims, t, 3) = (t \div t) % p /\ Coordinate(c.dims, 0, 3) = (0 \div t) % p
        <4>1. t \in Nat /\ 0 \in Nat
          BY <1>1
        <4> QED
          BY <1>4, <4>1, Zenon
      <3>2. Coordinate(c.dims, t, 3) # Coordinate(c.dims, 0, 3)
        BY <2>8, <3>1
      <3> QED
        BY <1>3, <3>2, Zenon
    <2> QED
      BY <2>4, <2>6, <2>7, <2>9
  <1> QED
    BY <1>5, <1>6 DEF rows, p

\* Code: create_or_get_group, whose rank_grid has its axes in another order than the
\* ranks of the other groups.
THEOREM FineGrainedRowsJoinReplicas == Spec => []FineGrainedJoinsReplicas
  <1>1. CreatedInv => FineGrainedJoinsReplicas
    <2> SUFFICES ASSUME CreatedInv, NEW name \in AliveNames \cap ToSet(FineGrained),
                        config.finegrained[name] > 1
                 PROVE  (\A g \in DOMAIN RowsOf(name) :
                            ToSet(RowsOf(name)[g]) \subseteq Along(config.dims, {DP}, RowsOf(name)[g][1]))
                        <=> config.dims[PP] = 1
      BY DEF FineGrainedJoinsReplicas
    <2>1. RowsOf(name) = FineGrainedRows(config, config.finegrained[name])
      <3>1. ToSet(FineGrained) = {"OTP", "LMTP", "EMBED_TP", "MLP_TP"}
        BY DEF ToSet, FineGrained
      <3> QED
        BY <3>1 DEF RowsOf, VllmSlots
    <2>2. config \in Configs
      BY DEF CreatedInv
    <2>3. IsFine(config, config.finegrained[name])
      BY <2>2, ConfigsAssumption DEF IsFine, Dims
    <2> QED
      BY <2>1, <2>3, FineJoins
  <1> QED
    BY <1>1, CreatedAsConfigured, PTL

-------------------------------------------------------------------------------
(* Sums *)

\* A set of subsets of a finite set has a member that contains no other one.
LEMMA MinimalSubset ==
    ASSUME NEW S, IsFiniteSet(S), NEW B \in SUBSET SUBSET S, B # {}
    PROVE  \E T \in B : \A U \in SUBSET T : U # T => U \notin B
  <1>1. FiniteSubsetsOf(S) = SUBSET S
    BY FS_FiniteSubsetsOfFinite
  <1>2. IsWellFoundedOn(StrictSubsetOrdering(S), SUBSET S)
    BY <1>1, FS_StrictSubsetOrderingWellFounded
  <1>3. PICK T \in B : \A U \in B : ~(<<U, T>> \in StrictSubsetOrdering(S))
    BY <1>2, WFMin, Zenon
  <1>4. ASSUME NEW U \in SUBSET T, U # T
        PROVE  U \notin B
    BY <1>3, <1>4 DEF StrictSubsetOrdering
  <1> QED
    BY <1>4

\* The element a sum takes out first.
First(s) == CHOOSE x \in s : TRUE

\* f says how the sums over the subsets of S follow from each other.
Sums(f, h, S) ==
    /\ DOMAIN f = SUBSET S /\ f[{}] = 0
    /\ \A s \in SUBSET S : s # {} => f[s] = h[First(s)] + f[s \ {First(s)}]

\* Then it is the only one that does.
LEMMA SumsUnique ==
    ASSUME NEW S, IsFiniteSet(S), NEW h, NEW f, NEW g, Sums(f, h, S), Sums(g, h, S)
    PROVE  f[S] = g[S]
  <1> DEFINE B == {t \in SUBSET S : f[t] # g[t]}
  <1>1. SUFFICES ASSUME B # {} PROVE FALSE
    BY DEF Sums
  <1>2. B \in SUBSET SUBSET S
    OBVIOUS
  <1>3. PICK t \in B : \A u \in SUBSET t : u # t => u \notin B
    <2> HIDE DEF B
    <2> QED
      BY <1>1, <1>2, MinimalSubset
  <1>4. t # {} /\ t \in SUBSET S /\ f[t] # g[t]
    BY DEF Sums
  <1>5. First(t) \in t
    BY <1>4 DEF First
  <1>6. f[t \ {First(t)}] = g[t \ {First(t)}]
    BY <1>3, <1>5
  <1> HIDE DEF B
  <1>7. f[t] = h[First(t)] + f[t \ {First(t)}]
    BY <1>4, Zenon DEF Sums
  <1>8. g[t] = h[First(t)] + g[t \ {First(t)}]
    BY <1>4, Zenon DEF Sums
  <1> QED
    BY <1>4, <1>6, <1>7, <1>8

\* The function that the sum of the community modules takes for the lengths of rows.
IsLengths(f, rows) ==
    f = [s \in SUBSET DOMAIN rows |->
            IF s = {} THEN 0
            ELSE LET x == CHOOSE x \in s : TRUE IN Len(rows[x]) + f[s \ {x}]]

\* The sum of the lengths in terms of that function.
LEMMA LengthsIs ==
    ASSUME NEW rows
    PROVE  MapThenSumSet(LAMBDA g : Len(rows[g]), DOMAIN rows)
              = (CHOOSE f : IsLengths(f, rows))[DOMAIN rows]
  BY DEF MapThenSumSet, MapThenFoldSet, IsLengths

\* Rows of one length.
LEMMA SumOfLengths ==
    ASSUME NEW n \in Nat, NEW size \in Nat, NEW rows, DOMAIN rows = 1 .. n,
           \A g \in 1 .. n : Len(rows[g]) = size
    PROVE  MapThenSumSet(LAMBDA g : Len(rows[g]), DOMAIN rows) = n * size
  <1> DEFINE S == 1 .. n
             h == [g \in S |-> size]
             k == [s \in SUBSET S |-> Cardinality(s) * size]
             body(s) == IF s = {} THEN 0
                        ELSE LET x == CHOOSE x \in s : TRUE IN Len(rows[x]) + k[s \ {x}]
  <1>1. IsFiniteSet(S) /\ Cardinality(S) = n
    BY FS_Interval
  <1>2. ASSUME NEW s \in SUBSET S, s # {}
        PROVE  /\ First(s) \in S /\ k[s] = size + k[s \ {First(s)}]
    <2>1. First(s) \in s
      BY <1>2 DEF First
    <2>2. IsFiniteSet(s) /\ IsFiniteSet(s \ {First(s)})
      BY <1>1, FS_Subset
    <2> DEFINE a == Cardinality(s)
               b == Cardinality(s \ {First(s)})
    <2>3. a \in Nat /\ b \in Nat /\ b = a - 1
      BY <2>1, <2>2, FS_RemoveElement, FS_CardinalityType
    <2>4. k[s] = a * size /\ k[s \ {First(s)}] = b * size
      OBVIOUS
    <2> HIDE DEF a, b, k
    <2>5. a = b + 1 /\ (b + 1) * size = b * size + size
      BY <2>3
    <2>6. b * size \in Nat
      BY <2>3
    <2>7. k[s] = size + k[s \ {First(s)}]
      BY <2>4, <2>5, <2>6
    <2> QED
      BY <2>1, <2>7
  <1>3. k[{}] = 0
    <2>1. Cardinality({}) = 0
      BY FS_EmptySet
    <2> QED
      BY <2>1
  <1>4. ASSUME NEW s \in SUBSET S
        PROVE  k[s] = body(s)
    <2>1. CASE s = {}
      BY <1>3, <2>1
    <2>2. CASE s # {}
      <3>1. body(s) = Len(rows[First(s)]) + k[s \ {First(s)}]
        BY <2>2, Zenon DEF First
      <3> HIDE DEF body, k
      <3> QED
        BY <1>2, <2>2, <3>1
    <2> QED
      BY <2>1, <2>2
  <1>5. IsLengths(k, rows)
    <2>1. k = [s \in SUBSET S |-> k[s]]
      OBVIOUS
    <2>2. k = [s \in SUBSET S |-> body(s)]
      <3> HIDE DEF k, body
      <3> QED
        BY <1>4, <2>1
    <2> QED
      BY <2>2 DEF IsLengths
  <1> DEFINE f == CHOOSE f1 : IsLengths(f1, rows)
  <1>6. IsLengths(f, rows)
    BY <1>5, Zenon
  <1>7. Sums(k, h, S)
    <2>1. DOMAIN k = SUBSET S
      OBVIOUS
    <2>2. \A s \in SUBSET S : s # {} => k[s] = h[First(s)] + k[s \ {First(s)}]
      <3> HIDE DEF k
      <3> QED
        BY <1>2
    <2> HIDE DEF k
    <2> QED
      BY <1>3, <2>1, <2>2 DEF Sums
  <1>8. Sums(f, h, S)
    <2>1. DOMAIN f = SUBSET S /\ f[{}] = 0
      BY <1>6, Zenon DEF IsLengths
    <2>2. \A s \in SUBSET S : s # {} => f[s] = Len(rows[First(s)]) + f[s \ {First(s)}]
      BY <1>6, Zenon DEF IsLengths, First
    <2>3. \A s \in SUBSET S : s # {} => h[First(s)] = Len(rows[First(s)])
      BY <1>2
    <2> HIDE DEF f, h
    <2> QED
      BY <2>1, <2>2, <2>3 DEF Sums
  <1>9. f[S] = k[S]
    <2> HIDE DEF f, k, h
    <2> QED
      BY <1>1, <1>7, <1>8, SumsUnique
  <1>10. k[S] = n * size
    BY <1>1
  <1>11. MapThenSumSet(LAMBDA g : Len(rows[g]), DOMAIN rows) = f[S]
    BY LengthsIs, Zenon
  <1> HIDE DEF f, k
  <1> QED
    BY <1>9, <1>10, <1>11

-------------------------------------------------------------------------------
(* Transpositions *)

\* The axis that an axis changes places with.
Swap(a, b, axis) == IF axis = a THEN b ELSE IF axis = b THEN a ELSE axis

\* The sizes of the axes after a transposition.
Swapped(old, a, b) == [axis \in DOMAIN old |-> old[Swap(a, b, axis)]]

\* The function that the sum takes for the place an element comes from.
IsOffset(f, old, a, b, k) ==
    f = [s \in SUBSET DOMAIN Swapped(old, a, b) |->
            IF s = {} THEN 0
            ELSE LET x == CHOOSE x \in s : TRUE
                 IN  Coordinate(Swapped(old, a, b), k, x) * Stride(old, Swap(a, b, x)) + f[s \ {x}]]

Offset(old, a, b, k) == (CHOOSE f : IsOffset(f, old, a, b, k))[DOMAIN Swapped(old, a, b)]

\* What Transpose makes, in terms of those.
IsTransposed(new, t, a, b) ==
    /\ new.dims = Swapped(t.dims, a, b)
    /\ new.flat = [k \in DOMAIN t.flat |-> t.flat[Offset(t.dims, a, b, k - 1) + 1]]

\* Transpose makes just that.
LEMMA TransposeIs ==
    ASSUME NEW t, NEW a, NEW b
    PROVE  IsTransposed(Transpose(t, a, b), t, a, b)
  BY DEF Transpose, MapThenSumSet, MapThenFoldSet, Swapped, Swap, Offset, IsOffset, IsTransposed

\* A sum over at most five axes.
Term(h, s, i) == IF i \in s THEN h[i] ELSE 0

SumOf(h, s) == Term(h, s, 1) + Term(h, s, 2) + Term(h, s, 3) + Term(h, s, 4) + Term(h, s, 5)

\* Each of five numbers taken out of their sum.
OneOut(a, b, c, d, e) ==
    /\ a + b + c + d + e = a + (0 + b + c + d + e)
    /\ a + b + c + d + e = b + (a + 0 + c + d + e)
    /\ a + b + c + d + e = c + (a + b + 0 + d + e)
    /\ a + b + c + d + e = d + (a + b + c + 0 + e)
    /\ a + b + c + d + e = e + (a + b + c + d + 0)

\* Taking one of five numbers out of their sum.
LEMMA OneOfFive ==
    ASSUME NEW a \in Nat, NEW b \in Nat, NEW c \in Nat, NEW d \in Nat, NEW e \in Nat
    PROVE  OneOut(a, b, c, d, e)
  BY DEF OneOut

\* The sums over the sets of axes.
LEMMA SumOfAxes ==
    ASSUME NEW n \in 0 .. 5, NEW h \in [1 .. n -> Nat]
    PROVE  Sums([s \in SUBSET (1 .. n) |-> SumOf(h, s)], h, 1 .. n)
  <1> DEFINE g == [s \in SUBSET (1 .. n) |-> SumOf(h, s)]
  <1>1. g[{}] = 0
    <2>1. SumOf(h, {}) = 0
      BY DEF SumOf, Term
    <2> QED
      BY <2>1
  <1>2. ASSUME NEW s \in SUBSET (1 .. n), s # {}
        PROVE  g[s] = h[First(s)] + g[s \ {First(s)}]
    <2> DEFINE x == First(s)
               t == s \ {x}
    <2>1. x \in s
      BY <1>2 DEF First
    <2> HIDE DEF x
    <2>2. g[s] = SumOf(h, s) /\ g[t] = SumOf(h, t)
      OBVIOUS
    <2>3. \A i \in 1 .. 5 : Term(h, s, i) \in Nat /\ Term(h, t, i) \in Nat
      BY DEF Term
    <2>4. \A i \in 1 .. 5 : i # x => Term(h, t, i) = Term(h, s, i)
      BY DEF Term
    <2>5. Term(h, s, x) = h[x] /\ Term(h, t, x) = 0 /\ x \in 1 .. 5
      BY <2>1 DEF Term
    <2> HIDE DEF g, t
    <2>6. SumOf(h, s) = h[x] + SumOf(h, t)
      <3> DEFINE a(i) == Term(h, s, i)
                 b(i) == Term(h, t, i)
      <3>6. /\ SumOf(h, s) = a(1) + a(2) + a(3) + a(4) + a(5)
            /\ SumOf(h, t) = b(1) + b(2) + b(3) + b(4) + b(5)
        BY DEF SumOf
      <3>7. \A i \in 1 .. 5 : a(i) \in Nat /\ (i # x => b(i) = a(i))
        BY <2>3, <2>4
      <3>8. a(x) = h[x] /\ b(x) = 0 /\ x \in 1 .. 5
        BY <2>5
      <3> HIDE DEF a, b
      <3>9. a(1) \in Nat /\ a(2) \in Nat /\ a(3) \in Nat /\ a(4) \in Nat /\ a(5) \in Nat
        BY <3>7
      <3>10. OneOut(a(1), a(2), a(3), a(4), a(5))
        BY <3>9, OneOfFive, Zenon
      <3>1. CASE x = 1
        <4>1. b(2) = a(2) /\ b(3) = a(3) /\ b(4) = a(4) /\ b(5) = a(5)
          BY <3>7, <3>1
        <4>2. a(1) = h[x] /\ b(1) = 0
          BY <3>8, <3>1
        <4> QED
          BY <3>6, <3>10, <4>1, <4>2, Zenon DEF OneOut
      <3>2. CASE x = 2
        <4>1. b(1) = a(1) /\ b(3) = a(3) /\ b(4) = a(4) /\ b(5) = a(5)
          BY <3>7, <3>2
        <4>2. a(2) = h[x] /\ b(2) = 0
          BY <3>8, <3>2
        <4> QED
          BY <3>6, <3>10, <4>1, <4>2, Zenon DEF OneOut
      <3>3. CASE x = 3
        <4>1. b(1) = a(1) /\ b(2) = a(2) /\ b(4) = a(4) /\ b(5) = a(5)
          BY <3>7, <3>3
        <4>2. a(3) = h[x] /\ b(3) = 0
          BY <3>8, <3>3
        <4> QED
          BY <3>6, <3>10, <4>1, <4>2, Zenon DEF OneOut
      <3>4. CASE x = 4
        <4>1. b(1) = a(1) /\ b(2) = a(2) /\ b(3) = a(3) /\ b(5) = a(5)
          BY <3>7, <3>4
        <4>2. a(4) = h[x] /\ b(4) = 0
          BY <3>8, <3>4
        <4> QED
          BY <3>6, <3>10, <4>1, <4>2, Zenon DEF OneOut
      <3>5. CASE x = 5
        <4>1. b(1) = a(1) /\ b(2) = a(2) /\ b(3) = a(3) /\ b(4) = a(4)
          BY <3>7, <3>5
        <4>2. a(5) = h[x] /\ b(5) = 0
          BY <3>8, <3>5
        <4> QED
          BY <3>6, <3>10, <4>1, <4>2, Zenon DEF OneOut
      <3> QED
        BY <3>1, <3>2, <3>3, <3>4, <3>5, <3>8
    <2> QED
      BY <2>2, <2>6 DEF t, x
  <1>3. DOMAIN g = SUBSET (1 .. n)
    OBVIOUS
  <1> HIDE DEF g
  <1>4. Sums(g, h, 1 .. n)
    BY <1>1, <1>2, <1>3 DEF Sums
  <1> QED
    BY <1>4 DEF g

\* Where an element comes from, as a sum over the axes.
LEMMA OffsetIs ==
    ASSUME NEW n \in 0 .. 5, NEW old, DOMAIN old = 1 .. n, NEW a, NEW b, NEW k,
           NEW h \in [1 .. n -> Nat],
           \A i \in 1 .. n : h[i] = Coordinate(Swapped(old, a, b), k, i) * Stride(old, Swap(a, b, i))
    PROVE  Offset(old, a, b, k) = SumOf(h, 1 .. n)
  <1> DEFINE S == 1 .. n
             new == Swapped(old, a, b)
             g == [s \in SUBSET S |-> SumOf(h, s)]
             body(s) == IF s = {} THEN 0
                        ELSE LET x == CHOOSE x \in s : TRUE
                             IN  Coordinate(new, k, x) * Stride(old, Swap(a, b, x)) + g[s \ {x}]
             f == CHOOSE f1 : IsOffset(f1, old, a, b, k)
  <1>1. IsFiniteSet(S) /\ DOMAIN new = S
    BY FS_Interval DEF Swapped
  <1>2. Sums(g, h, S)
    BY SumOfAxes
  <1>3. \A s \in SUBSET S : s # {} =>
           h[First(s)] = Coordinate(new, k, First(s)) * Stride(old, Swap(a, b, First(s)))
    <2>1. \A s \in SUBSET S : s # {} => First(s) \in S
      BY DEF First
    <2> HIDE DEF S, new
    <2> QED
      BY <2>1 DEF S, new
  <1>4. ASSUME NEW s \in SUBSET S
        PROVE  g[s] = body(s)
    <2> HIDE DEF g, new
    <2>1. CASE s = {}
      BY <1>2, <2>1 DEF Sums
    <2>2. CASE s # {}
      <3>1. body(s) = Coordinate(new, k, First(s)) * Stride(old, Swap(a, b, First(s))) + g[s \ {First(s)}]
        BY <2>2, Zenon DEF First
      <3>2. g[s] = h[First(s)] + g[s \ {First(s)}]
        BY <1>2, <2>2, Zenon DEF Sums
      <3> HIDE DEF body
      <3> QED
        BY <1>3, <2>2, <3>1, <3>2, Zenon
    <2> QED
      BY <2>1, <2>2
  <1>5. IsOffset(g, old, a, b, k)
    <2>1. g = [s \in SUBSET S |-> g[s]]
      OBVIOUS
    <2>2. g = [s \in SUBSET S |-> body(s)]
      <3> HIDE DEF g, body
      <3> QED
        BY <1>4, <2>1
    <2>3. g = [s \in SUBSET DOMAIN new |-> body(s)]
      <3> HIDE DEF g, body
      <3> QED
        BY <1>1, <2>2
    <2> QED
      BY <2>3 DEF IsOffset
  <1>6. IsOffset(f, old, a, b, k)
    BY <1>5, Zenon
  <1>7. Sums(f, h, S)
    <2>1. DOMAIN f = SUBSET S /\ f[{}] = 0
      <3>1. DOMAIN f = SUBSET DOMAIN new /\ f[{}] = 0
        BY <1>6, Zenon DEF IsOffset
      <3> QED
        BY <1>1, <3>1
    <2>2. \A s \in SUBSET DOMAIN new : s # {} =>
             f[s] = Coordinate(new, k, First(s)) * Stride(old, Swap(a, b, First(s))) + f[s \ {First(s)}]
      BY <1>6, Zenon DEF IsOffset, First
    <2> HIDE DEF f, new
    <2> QED
      BY <1>1, <1>3, <2>1, <2>2, Zenon DEF Sums
  <1>8. f[S] = g[S]
    <2> HIDE DEF f, g
    <2> QED
      BY <1>1, <1>2, <1>7, SumsUnique
  <1>9. g[S] = SumOf(h, S)
    OBVIOUS
  <1>10. Offset(old, a, b, k) = f[S]
    BY <1>1 DEF Offset
  <1> HIDE DEF f, g
  <1> QED
    BY <1>8, <1>9, <1>10

\* The axes that the code transposes, of five.
Pairs == {<<2, 3>>, <<2, 5>>, <<3, 5>>, <<4, 5>>}

\* The coordinates of an element before the transposition.
Swapping(y, a, b) == [axis \in 1 .. 5 |-> y[Swap(a, b, axis)]]

\* A transposition puts a place of the new tensor where one of the old was, and back.
LEMMA SwappingPlaces ==
    ASSUME NEW dims \in Dims, NEW a \in 1 .. 5, NEW b \in 1 .. 5
    PROVE  /\ Swapped(dims, a, b) \in Dims
           /\ \A y \in Places(Swapped(dims, a, b)) : Swapping(y, a, b) \in Places(dims)
           /\ \A y \in Places(dims) : /\ Swapping(y, a, b) \in Places(Swapped(dims, a, b))
                                      /\ Swapping(Swapping(y, a, b), a, b) = y
  <1>1. \A axis \in 1 .. 5 : /\ Swap(a, b, axis) \in 1 .. 5
                             /\ Swap(a, b, Swap(a, b, axis)) = axis
    BY DEF Swap
  <1>2. DOMAIN dims = 1 .. 5 /\ \A axis \in 1 .. 5 : dims[axis] \in Nat \ {0}
    BY DEF Dims
  <1>3. Swapped(dims, a, b) = [axis \in 1 .. 5 |-> dims[Swap(a, b, axis)]]
    BY <1>2 DEF Swapped
  <1>4. Swapped(dims, a, b) \in Dims
    BY <1>1, <1>2, <1>3 DEF Dims
  <1>5. ASSUME NEW y \in Places(Swapped(dims, a, b))
        PROVE  Swapping(y, a, b) \in Places(dims)
    <2>1. \A axis \in 1 .. 5 : y[axis] \in Nat /\ y[axis] < dims[Swap(a, b, axis)]
      BY <1>3 DEF Places
    <2>2. \A axis \in 1 .. 5 : y[Swap(a, b, axis)] \in Nat /\ y[Swap(a, b, axis)] < dims[axis]
      BY <1>1, <2>1, Zenon
    <2> QED
      BY <2>2 DEF Places, Swapping
  <1>6. ASSUME NEW y \in Places(dims)
        PROVE  /\ Swapping(y, a, b) \in Places(Swapped(dims, a, b))
               /\ Swapping(Swapping(y, a, b), a, b) = y
    <2>1. y = [axis \in 1 .. 5 |-> y[axis]] /\ \A axis \in 1 .. 5 : y[axis] \in Nat /\ y[axis] < dims[axis]
      BY DEF Places
    <2>2. \A axis \in 1 .. 5 : y[Swap(a, b, axis)] \in Nat
                               /\ y[Swap(a, b, axis)] < dims[Swap(a, b, axis)]
      BY <1>1, <2>1, Zenon
    <2>3. Swapping(y, a, b) \in Places(Swapped(dims, a, b))
      BY <1>3, <2>2 DEF Places, Swapping
    <2>4. \A axis \in 1 .. 5 : Swapping(Swapping(y, a, b), a, b)[axis] = y[axis]
      BY <1>1 DEF Swapping
    <2>5. Swapping(Swapping(y, a, b), a, b) = y
      <3>1. Swapping(Swapping(y, a, b), a, b) =
               [axis \in 1 .. 5 |-> Swapping(Swapping(y, a, b), a, b)[axis]]
        BY DEF Swapping
      <3> QED
        BY <2>1, <2>4, <3>1
    <2> QED
      BY <2>3, <2>5
  <1> QED
    BY <1>4, <1>5, <1>6

\* The rank at some coordinates is what they are worth at the strides.
LEMMA AtStrides ==
    ASSUME NEW dims \in Dims, NEW x \in [1 .. 5 -> Nat]
    PROVE  At(dims, x) = x[1] * Stride(dims, 1) + x[2] * Stride(dims, 2) + x[3] * Stride(dims, 3)
                         + x[4] * Stride(dims, 4) + x[5] * Stride(dims, 5)
  <1> DEFINE d == dims[2]
             p == dims[3]
             c == dims[4]
             t == dims[5]
  <1>1. d \in Nat /\ p \in Nat /\ c \in Nat /\ t \in Nat
    BY ProductPositive
  <1>2. x[1] \in Nat /\ x[2] \in Nat /\ x[3] \in Nat /\ x[4] \in Nat /\ x[5] \in Nat
    OBVIOUS
  <1>3. /\ Stride(dims, 5) = 1 /\ Stride(dims, 4) = t /\ Stride(dims, 3) = c * t
        /\ Stride(dims, 2) = p * c * t /\ Stride(dims, 1) = d * p * c * t
    BY StridesAre
  <1>4. At(dims, x) = (((x[1] * d + x[2]) * p + x[3]) * c + x[4]) * t + x[5]
    BY DEF At
  <1> HIDE DEF d, p, c, t
  <1> DEFINE x1 == x[1]
             x2 == x[2]
             x3 == x[3]
             x4 == x[4]
             x5 == x[5]
  <1>5. (((x1 * d + x2) * p + x3) * c + x4) * t + x5 =
          x1 * (d * p * c * t) + x2 * (p * c * t) + x3 * (c * t) + x4 * t + x5 * 1
    <2>1. x1 \in Nat /\ x2 \in Nat /\ x3 \in Nat /\ x4 \in Nat /\ x5 \in Nat
      BY <1>2
    <2> HIDE DEF x1, x2, x3, x4, x5
    <2> QED
      BY <1>1, <2>1
  <1> QED
    BY <1>3, <1>4, <1>5

\* Where an element of a transposed arrangement of five axes comes from.
LEMMA OffsetAt ==
    ASSUME NEW dims \in Dims, NEW a \in 1 .. 5, NEW b \in 1 .. 5, NEW k \in Ranks(Swapped(dims, a, b)),
           <<a, b>> \in Pairs
    PROVE  Offset(dims, a, b, k) = At(dims, Swapping(Coordinates(Swapped(dims, a, b), k), a, b))
  <1> DEFINE new == Swapped(dims, a, b)
             y == Coordinates(new, k)
             x == Swapping(y, a, b)
             h == [i \in 1 .. 5 |-> y[i] * Stride(dims, Swap(a, b, i))]
  <1>1. new \in Dims
    BY SwappingPlaces
  <1>2. y \in Places(new)
    BY <1>1, AtCoordinates
  <1>3. x \in Places(dims)
    BY <1>2, SwappingPlaces
  <1>4. x \in [1 .. 5 -> Nat] /\ y \in [1 .. 5 -> Nat]
    BY <1>2, <1>3 DEF Places
  <1>5. \A i \in 1 .. 5 : Swap(a, b, i) \in 1 .. 5 /\ Stride(dims, i) \in Nat
    BY ProductPositive DEF Swap
  <1>6. \A i \in 1 .. 5 : h[i] = Coordinate(new, k, i) * Stride(dims, Swap(a, b, i))
    BY DEF Coordinates
  <1>7. h \in [1 .. 5 -> Nat]
    <2> HIDE DEF y
    <2>1. \A i \in 1 .. 5 : y[i] \in Nat /\ Stride(dims, Swap(a, b, i)) \in Nat
      BY <1>4, <1>5
    <2>2. \A m, n \in Nat : m * n \in Nat
      OBVIOUS
    <2> QED
      BY <2>1, <2>2
  <1>8. DOMAIN dims = 1 .. 5 /\ 5 \in 0 .. 5
    BY DEF Dims
  <1>9. Offset(dims, a, b, k) = SumOf(h, 1 .. 5)
    <2> HIDE DEF h
    <2> QED
      BY <1>6, <1>7, <1>8, OffsetIs DEF new
  <1>10. SumOf(h, 1 .. 5) = h[1] + h[2] + h[3] + h[4] + h[5]
    BY DEF SumOf, Term
  <1>11. At(dims, x) = x[1] * Stride(dims, 1) + x[2] * Stride(dims, 2) + x[3] * Stride(dims, 3)
                       + x[4] * Stride(dims, 4) + x[5] * Stride(dims, 5)
    BY <1>4, AtStrides
  <1>12. \A i \in 1 .. 5 : h[i] = y[i] * Stride(dims, Swap(a, b, i)) /\ x[i] = y[Swap(a, b, i)]
    BY DEF Swapping
  <1>13. h[1] \in Nat /\ h[2] \in Nat /\ h[3] \in Nat /\ h[4] \in Nat /\ h[5] \in Nat
    BY <1>7
  <1> DEFINE v(i) == x[i] * Stride(dims, i)
  <1>14. \A i \in 1 .. 5 : h[i] = v(Swap(a, b, i))
    <2>1. \A i \in 1 .. 5 : Swap(a, b, Swap(a, b, i)) = i
      BY DEF Swap
    <2> HIDE DEF h, x, y
    <2> QED
      BY <1>5, <1>12, <2>1
  <1> HIDE DEF h, x, y, v
  <1>15. h[1] + h[2] + h[3] + h[4] + h[5] = v(1) + v(2) + v(3) + v(4) + v(5)
    <2>1. CASE a = 2 /\ b = 3
      <3>1. h[1] = v(1) /\ h[2] = v(3) /\ h[3] = v(2) /\ h[4] = v(4) /\ h[5] = v(5)
        BY <1>14, <2>1 DEF Swap
      <3> QED
        BY <1>13, <3>1
    <2>2. CASE a = 2 /\ b = 5
      <3>1. h[1] = v(1) /\ h[2] = v(5) /\ h[3] = v(3) /\ h[4] = v(4) /\ h[5] = v(2)
        BY <1>14, <2>2 DEF Swap
      <3> QED
        BY <1>13, <3>1
    <2>3. CASE a = 3 /\ b = 5
      <3>1. h[1] = v(1) /\ h[2] = v(2) /\ h[3] = v(5) /\ h[4] = v(4) /\ h[5] = v(3)
        BY <1>14, <2>3 DEF Swap
      <3> QED
        BY <1>13, <3>1
    <2>4. CASE a = 4 /\ b = 5
      <3>1. h[1] = v(1) /\ h[2] = v(2) /\ h[3] = v(3) /\ h[4] = v(5) /\ h[5] = v(4)
        BY <1>14, <2>4 DEF Swap
      <3> QED
        BY <1>13, <3>1
    <2> QED
      BY <2>1, <2>2, <2>3, <2>4 DEF Pairs
  <1> QED
    BY <1>9, <1>10, <1>11, <1>15 DEF v, x, y, new

\* The transposed sizes have the same product.
LEMMA SwappedProduct ==
    ASSUME NEW dims \in Dims, NEW a, NEW b, <<a, b>> \in Pairs
    PROVE  Product(Swapped(dims, a, b)) = Product(dims)
  <1>1. a \in 1 .. 5 /\ b \in 1 .. 5
    BY DEF Pairs
  <1> DEFINE new == Swapped(dims, a, b)
  <1>2. new \in Dims /\ \A i \in 1 .. 5 : new[i] = dims[Swap(a, b, i)]
    BY <1>1, SwappingPlaces DEF Swapped, Dims
  <1>3. /\ Product(new) = new[1] * new[2] * new[3] * new[4] * new[5]
        /\ Product(dims) = dims[1] * dims[2] * dims[3] * dims[4] * dims[5]
    BY <1>2, StridesAre
  <1>4. dims[1] \in Nat /\ dims[2] \in Nat /\ dims[3] \in Nat /\ dims[4] \in Nat /\ dims[5] \in Nat
    BY ProductPositive
  <1> HIDE DEF new
  <1>5. CASE a = 2 /\ b = 3
    <2>1. new[1] = dims[1] /\ new[2] = dims[3] /\ new[3] = dims[2] /\ new[4] = dims[4] /\ new[5] = dims[5]
      BY <1>2, <1>5 DEF Swap
    <2> QED
      BY <1>3, <1>4, <2>1 DEF new
  <1>6. CASE a = 2 /\ b = 5
    <2>1. new[1] = dims[1] /\ new[2] = dims[5] /\ new[3] = dims[3] /\ new[4] = dims[4] /\ new[5] = dims[2]
      BY <1>2, <1>6 DEF Swap
    <2> QED
      BY <1>3, <1>4, <2>1 DEF new
  <1>7. CASE a = 3 /\ b = 5
    <2>1. new[1] = dims[1] /\ new[2] = dims[2] /\ new[3] = dims[5] /\ new[4] = dims[4] /\ new[5] = dims[3]
      BY <1>2, <1>7 DEF Swap
    <2> QED
      BY <1>3, <1>4, <2>1 DEF new
  <1>8. CASE a = 4 /\ b = 5
    <2>1. new[1] = dims[1] /\ new[2] = dims[2] /\ new[3] = dims[3] /\ new[4] = dims[5] /\ new[5] = dims[4]
      BY <1>2, <1>8 DEF Swap
    <2> QED
      BY <1>3, <1>4, <2>1 DEF new
  <1> QED
    BY <1>5, <1>6, <1>7, <1>8 DEF Pairs

\* A transposition permutes the ranks.
LEMMA OffsetsCover ==
    ASSUME NEW dims \in Dims, NEW a, NEW b, <<a, b>> \in Pairs
    PROVE  {Offset(dims, a, b, k) : k \in Ranks(dims)} = Ranks(dims)
  <1>1. a \in 1 .. 5 /\ b \in 1 .. 5
    BY DEF Pairs
  <1> DEFINE new == Swapped(dims, a, b)
  <1>2. new \in Dims /\ Ranks(new) = Ranks(dims)
    BY <1>1, SwappingPlaces, SwappedProduct DEF Ranks
  <1>3. ASSUME NEW k \in Ranks(dims)
        PROVE  /\ Offset(dims, a, b, k) = At(dims, Swapping(Coordinates(new, k), a, b))
               /\ Offset(dims, a, b, k) \in Ranks(dims)
    <2>1. Offset(dims, a, b, k) = At(dims, Swapping(Coordinates(new, k), a, b))
      BY <1>1, <1>2, OffsetAt
    <2>2. Coordinates(new, k) \in Places(new)
      BY <1>2, AtCoordinates
    <2>3. Swapping(Coordinates(new, k), a, b) \in Places(dims)
      BY <1>1, <2>2, SwappingPlaces
    <2> QED
      BY <2>1, <2>3, AtPlace
  <1>4. ASSUME NEW s \in Ranks(dims)
        PROVE  \E k \in Ranks(dims) : Offset(dims, a, b, k) = s
    <2> DEFINE x == Coordinates(dims, s)
               y == Swapping(x, a, b)
               k == At(new, y)
    <2>1. x \in Places(dims) /\ At(dims, x) = s
      BY AtCoordinates
    <2>2. y \in Places(new) /\ Swapping(y, a, b) = x
      BY <1>1, <2>1, SwappingPlaces
    <2>3. k \in Ranks(new) /\ Coordinates(new, k) = y
      BY <1>2, <2>2, AtPlace
    <2> HIDE DEF k, y, x, new
    <2>4. k \in Ranks(dims) /\ Offset(dims, a, b, k) = s
      BY <1>2, <1>3, <2>1, <2>2, <2>3
    <2> QED
      BY <2>4
  <1> QED
    BY <1>3, <1>4

-------------------------------------------------------------------------------
(* Rows *)

\* A tensor that holds each rank of a world of so many once.
IsWorld(t, n) ==
    /\ t.flat \in [1 .. n -> Nat]
    /\ {t.flat[k] : k \in 1 .. n} = 0 .. n - 1

\* Cut into rows of one size, it has each rank in one row.
LEMMA RowsCover ==
    ASSUME NEW t, NEW q \in Nat, NEW size \in Nat \ {0}, IsWorld(t, q * size)
    PROVE  EachRankOnce(Rows(t, size), q * size)
  <1> DEFINE n == q * size
             rows == Rows(t, size)
  <1>1. n \in Nat /\ n \div size = q
    <2>1. n \in Nat /\ n = q * size + 0
      OBVIOUS
    <2>2. (q * size + 0) \div size = q
      BY DivIs
    <2> QED
      BY <2>1, <2>2
  <1>2. Len(t.flat) = n /\ \A k \in 1 .. n : t.flat[k] \in Nat
    <2> HIDE DEF n
    <2>1. t.flat \in [1 .. n -> Nat]
      BY DEF IsWorld, n
    <2>2. t.flat \in Seq(Nat)
      BY <1>1, <2>1
    <2> QED
      BY <1>1, <2>1, <2>2
  <1>3. rows = [g \in 1 .. q |-> [i \in 1 .. size |-> t.flat[(g - 1) * size + i]]]
    <2> HIDE DEF n
    <2> QED
      BY <1>1, <1>2 DEF Rows
  <1>4. {t.flat[k] : k \in 1 .. n} = 0 .. n - 1
    BY DEF IsWorld
  <1> HIDE DEF rows
  <1>5. ASSUME NEW g \in 1 .. q, NEW i \in 1 .. size
        PROVE  (g - 1) * size + i \in 1 .. n
    <2>1. g - 1 \in Nat /\ i - 1 \in Nat /\ g - 1 < q /\ i - 1 < size
      OBVIOUS
    <2>2. Fits(g - 1, size, q, i - 1)
      BY <2>1 DEF Fits
    <2>3. Appended(g - 1, size, q, i - 1)
      BY <2>2, DigitAppended
    <2> DEFINE m == (g - 1) * size
    <2>4. m + (i - 1) \in Nat /\ m + (i - 1) < n
      BY <2>3 DEF Appended
    <2>5. m \in Nat
      BY <2>1
    <2> HIDE DEF m, n
    <2>6. m + i \in 1 .. n
      BY <1>1, <2>4, <2>5
    <2> QED
      BY <2>6 DEF m
  <1>6. ASSUME NEW k \in 1 .. n
        PROVE  \E g \in 1 .. q, i \in 1 .. size : (g - 1) * size + i = k
    <2>1. k - 1 \in Nat /\ k - 1 < q * size
      BY <1>1
    <2> DEFINE m == (k - 1) \div size
               r == (k - 1) % size
    <2>2. m \in Nat /\ r \in Nat /\ r < size /\ k - 1 = m * size + r /\ m < q
      BY <2>1, Digit, Zenon
    <2> HIDE DEF m, r
    <2>3. m + 1 \in 1 .. q /\ r + 1 \in 1 .. size /\ (m + 1) - 1 = m
      BY <2>2
    <2>4. m * size + (r + 1) = k
      <3>1. m * size \in Nat /\ k \in Int
        BY <2>2
      <3> QED
        BY <2>2, <3>1
    <2> QED
      BY <2>3, <2>4
  <1> HIDE DEF n
  <1>7. DOMAIN rows = 1 .. q /\ \A g \in 1 .. q : Len(rows[g]) = size
    BY <1>3
  <1>8. \A g \in 1 .. q : ToSet(rows[g]) = {t.flat[(g - 1) * size + i] : i \in 1 .. size}
    BY <1>3 DEF ToSet
  <1>9. UNION {ToSet(rows[g]) : g \in DOMAIN rows} = 0 .. n - 1
    <2>1. ASSUME NEW g \in 1 .. q
          PROVE  ToSet(rows[g]) \subseteq 0 .. n - 1
      <3>1. \A i \in 1 .. size : t.flat[(g - 1) * size + i] \in 0 .. n - 1
        BY <1>4, <1>5, Zenon
      <3>2. ToSet(rows[g]) = {t.flat[(g - 1) * size + i] : i \in 1 .. size}
        BY <1>8
      <3> QED
        BY <3>1, <3>2, Zenon
    <2>2. ASSUME NEW s \in 0 .. n - 1
          PROVE  \E g \in 1 .. q : s \in ToSet(rows[g])
      <3>1. PICK k \in 1 .. n : s = t.flat[k]
        BY <1>4
      <3>2. PICK g \in 1 .. q, i \in 1 .. size : (g - 1) * size + i = k
        BY <1>6
      <3>3. s \in ToSet(rows[g])
        BY <1>8, <3>1, <3>2
      <3> QED
        BY <3>3
    <2> QED
      BY <1>7, <2>1, <2>2
  <1>10. MapThenSumSet(LAMBDA g : Len(rows[g]), DOMAIN rows) = q * size
    BY <1>7, SumOfLengths
  <1> QED
    BY <1>9, <1>10 DEF EachRankOnce, rows, n

\* The ranks as they are numbered.
LEMMA ArangeWorld ==
    ASSUME NEW dims, Product(dims) \in Nat
    PROVE  IsWorld(Arange(dims), Product(dims))
  <1> DEFINE n == Product(dims)
  <1>1. Arange(dims).flat = [k \in 1 .. n |-> k - 1]
    BY DEF Arange
  <1> HIDE DEF n
  <1>2. n \in Nat
    BY DEF n
  <1>3. [k \in 1 .. n |-> k - 1] \in [1 .. n -> Nat]
    BY <1>2
  <1>4. \A s \in 0 .. n - 1 : s + 1 \in 1 .. n /\ s = (s + 1) - 1
    BY <1>2
  <1>5. {Arange(dims).flat[k] : k \in 1 .. n} = 0 .. n - 1
    <2>1. \A k \in 1 .. n : Arange(dims).flat[k] = k - 1 /\ k - 1 \in 0 .. n - 1
      BY <1>1, <1>2
    <2> QED
      BY <1>4, <2>1
  <1> QED
    BY <1>1, <1>3, <1>5 DEF IsWorld, n

\* A transposition of the ranks whose offsets cover them.
LEMMA TransposedWorld ==
    ASSUME NEW t, NEW n \in Nat, NEW a, NEW b,
           t.flat = [k \in 1 .. n |-> k - 1],
           {Offset(t.dims, a, b, k) : k \in 0 .. n - 1} = 0 .. n - 1
    PROVE  IsWorld(Transpose(t, a, b), n)
  <1> DEFINE off(k) == Offset(t.dims, a, b, k)
             flat == Transpose(t, a, b).flat
  <1>1. flat = [k \in 1 .. n |-> t.flat[off(k - 1) + 1]]
    <2>1. flat = [k \in DOMAIN t.flat |-> t.flat[Offset(t.dims, a, b, k - 1) + 1]]
      <3>1. IsTransposed(Transpose(t, a, b), t, a, b)
        BY TransposeIs
      <3> QED
        BY <3>1 DEF IsTransposed
    <2>2. DOMAIN t.flat = 1 .. n
      OBVIOUS
    <2> QED
      BY <2>1, <2>2, Zenon
  <1>2. {off(k) : k \in 0 .. n - 1} = 0 .. n - 1
    OBVIOUS
  <1> HIDE DEF off, flat
  <1>3. ASSUME NEW k \in 1 .. n
        PROVE  flat[k] = off(k - 1) /\ off(k - 1) \in 0 .. n - 1
    <2>1. k - 1 \in 0 .. n - 1
      OBVIOUS
    <2>2. off(k - 1) \in 0 .. n - 1
      BY <1>2, <2>1
    <2>3. off(k - 1) + 1 \in 1 .. n /\ (off(k - 1) + 1) - 1 = off(k - 1)
      BY <2>2
    <2> QED
      BY <1>1, <2>2, <2>3
  <1>4. ASSUME NEW s \in 0 .. n - 1
        PROVE  \E k \in 1 .. n : flat[k] = s
    <2>1. PICK k \in 0 .. n - 1 : off(k) = s
      BY <1>2
    <2>2. k + 1 \in 1 .. n /\ (k + 1) - 1 = k
      OBVIOUS
    <2> QED
      BY <1>3, <2>1, <2>2
  <1>5. flat \in [1 .. n -> Nat]
    <2>1. \A k \in 1 .. n : flat[k] \in Nat
      BY <1>3
    <2>2. flat = [k \in 1 .. n |-> flat[k]]
      BY <1>1
    <2> QED
      BY <2>1, <2>2
  <1>6. {flat[k] : k \in 1 .. n} = 0 .. n - 1
    <2>1. \A k \in 1 .. n : flat[k] \in 0 .. n - 1
      BY <1>3
    <2> QED
      BY <1>4, <2>1
  <1> QED
    BY <1>5, <1>6 DEF IsWorld, flat

\* Two axes transposed, the ranks are still each there once.
LEMMA TransposeWorld ==
    ASSUME NEW dims \in Dims, NEW a, NEW b, <<a, b>> \in Pairs
    PROVE  IsWorld(Transpose(Arange(dims), a, b), Product(dims))
  <1>1. Product(dims) \in Nat
    BY ProductPositive
  <1>2. /\ Arange(dims).dims = dims
        /\ Arange(dims).flat = [k \in 1 .. Product(dims) |-> k - 1]
    BY DEF Arange
  <1>3. {Offset(dims, a, b, k) : k \in 0 .. Product(dims) - 1} = 0 .. Product(dims) - 1
    BY OffsetsCover DEF Ranks
  <1> DEFINE n == Product(dims)
             t == Arange(dims)
  <1>4. /\ n \in Nat /\ t.flat = [k \in 1 .. n |-> k - 1]
        /\ {Offset(t.dims, a, b, k) : k \in 0 .. n - 1} = 0 .. n - 1
    BY <1>1, <1>2, <1>3
  <1> HIDE DEF n, t
  <1>5. IsWorld(Transpose(t, a, b), n)
    BY <1>4, TransposedWorld
  <1> QED
    BY <1>5 DEF n, t

-------------------------------------------------------------------------------
(* The order of the prefill heads *)

\* The sizes of three axes, and the same among five.
Dims3 == [1 .. 3 -> Nat \ {0}]

Padded(dims) == [axis \in 1 .. 5 |-> IF axis <= 2 THEN 1 ELSE dims[axis - 2]]

\* A step along one of three axes, and what is at a place, is that among five.
LEMMA PaddedStrides ==
    ASSUME NEW dims \in Dims3
    PROVE  /\ Padded(dims) \in Dims /\ Product(Padded(dims)) = Product(dims)
           /\ \A axis \in 1 .. 3 : /\ Stride(Padded(dims), axis + 2) = Stride(dims, axis)
                                   /\ Padded(dims)[axis + 2] = dims[axis]
  <1>1. dims \in [1 .. 3 -> Nat] /\ \A axis \in 1 .. 3 : dims[axis] \in Nat \ {0}
    BY DEF Dims3
  <1>2. /\ Padded(dims)[1] = 1 /\ Padded(dims)[2] = 1 /\ Padded(dims)[3] = dims[1]
        /\ Padded(dims)[4] = dims[2] /\ Padded(dims)[5] = dims[3]
    BY DEF Padded
  <1>3. Padded(dims) \in Dims
    <2>1. \A axis \in 1 .. 5 : axis <= 2 \/ axis - 2 \in 1 .. 3
      OBVIOUS
    <2>2. \A axis \in 1 .. 5 : (IF axis <= 2 THEN 1 ELSE dims[axis - 2]) \in Nat \ {0}
      BY <1>1, <2>1
    <2> QED
      BY <2>2 DEF Padded, Dims
  <1>4. Product(dims) = dims[1] * dims[2] * dims[3]
    BY <1>1, ProductsAre
  <1>5. DOMAIN dims = 1 .. 3 /\ Len(dims) = 3 /\ dims \in Seq(Nat)
    <2>1. \E n \in Nat : dims \in [1 .. n -> Nat]
      BY <1>1
    <2>2. dims \in Seq(Nat)
      BY <2>1
    <2>3. DOMAIN dims = 1 .. Len(dims) /\ Len(dims) \in Nat
      BY <2>2
    <2> QED
      BY <1>1, <2>2, <2>3
  <1> DEFINE rest(axis) == SubSeq(dims, axis + 1, 3)
  <1>6. ASSUME NEW axis \in 1 .. 3
        PROVE  /\ rest(axis) \in [1 .. 3 - axis -> Nat]
               /\ \A i \in 1 .. 3 - axis : rest(axis)[i] = dims[axis + i]
               /\ Stride(dims, axis) = Product(rest(axis))
               /\ 3 - axis \in 0 .. 5
    <2>1. Stride(dims, axis) = Product(rest(axis))
      BY <1>5 DEF Stride
    <2>2. rest(axis) = [i \in 1 .. 3 - axis |-> dims[axis + i]]
      BY <1>1, <1>5
    <2>3. \A i \in 1 .. 3 - axis : axis + i \in 1 .. 3
      OBVIOUS
    <2> HIDE DEF rest
    <2> QED
      BY <1>1, <2>1, <2>2, <2>3
  <1> HIDE DEF rest
  <1>7. Stride(dims, 3) = 1
    <2>1. Product(rest(3)) = 1
      BY <1>6, ProductsAre
    <2> QED
      BY <1>6, <2>1
  <1>8. Stride(dims, 2) = dims[3]
    <2>1. Product(rest(2)) = rest(2)[1] /\ rest(2)[1] = dims[3]
      BY <1>6, ProductsAre
    <2> QED
      BY <1>6, <2>1
  <1>9. Stride(dims, 1) = dims[2] * dims[3]
    <2>1. Product(rest(1)) = rest(1)[1] * rest(1)[2] /\ rest(1)[1] = dims[2] /\ rest(1)[2] = dims[3]
      BY <1>6, ProductsAre
    <2> QED
      BY <1>6, <2>1
  <1>10. /\ Stride(Padded(dims), 5) = 1 /\ Stride(Padded(dims), 4) = dims[3]
         /\ Stride(Padded(dims), 3) = dims[2] * dims[3]
         /\ Product(Padded(dims)) = 1 * 1 * dims[1] * dims[2] * dims[3]
    BY <1>2, <1>3, StridesAre
  <1>11. 1 * 1 * dims[1] * dims[2] * dims[3] = dims[1] * dims[2] * dims[3]
    BY <1>1
  <1>12. \A axis \in 1 .. 3 : axis = 1 \/ axis = 2 \/ axis = 3
    OBVIOUS
  <1> QED
    BY <1>2, <1>3, <1>4, <1>7, <1>8, <1>9, <1>10, <1>11, <1>12

\* The transposition of the last two of three axes is that of the last two of five.
LEMMA PaddedOffset ==
    ASSUME NEW dims \in Dims3, NEW k \in Nat
    PROVE  Offset(dims, 2, 3, k) = Offset(Padded(dims), 4, 5, k)
  <1> DEFINE new == Swapped(dims, 2, 3)
             wide == Swapped(Padded(dims), 4, 5)
             h == [i \in 1 .. 3 |-> Coordinate(new, k, i) * Stride(dims, Swap(2, 3, i))]
             w == [i \in 1 .. 5 |-> Coordinate(wide, k, i) * Stride(Padded(dims), Swap(4, 5, i))]
  <1>1. \A axis \in 1 .. 3 : dims[axis] \in Nat \ {0}
    BY DEF Dims3
  <1>2. DOMAIN dims = 1 .. 3 /\ DOMAIN Padded(dims) = 1 .. 5
    BY DEF Dims3, Padded
  <1>3. new \in Dims3 /\ wide = Padded(new)
    <2>1. /\ new = [axis \in 1 .. 3 |-> dims[Swap(2, 3, axis)]]
          /\ wide = [axis \in 1 .. 5 |-> Padded(dims)[Swap(4, 5, axis)]]
      BY <1>2 DEF Swapped
    <2>2. \A axis \in 1 .. 3 : Swap(2, 3, axis) \in 1 .. 3
      BY DEF Swap
    <2>3. new \in Dims3
      BY <1>1, <2>1, <2>2 DEF Dims3
    <2>4. /\ new[1] = dims[1] /\ new[2] = dims[3] /\ new[3] = dims[2]
      BY <2>1 DEF Swap
    <2>5. /\ wide[1] = 1 /\ wide[2] = 1 /\ wide[3] = dims[1] /\ wide[4] = dims[3] /\ wide[5] = dims[2]
      BY <2>1 DEF Swap, Padded
    <2>6. /\ Padded(new)[1] = 1 /\ Padded(new)[2] = 1 /\ Padded(new)[3] = new[1]
          /\ Padded(new)[4] = new[2] /\ Padded(new)[5] = new[3]
          /\ Padded(new) = [axis \in 1 .. 5 |-> Padded(new)[axis]]
      BY DEF Padded
    <2>7. wide = [axis \in 1 .. 5 |-> wide[axis]]
      BY <2>1
    <2>8. \A axis \in 1 .. 5 : axis = 1 \/ axis = 2 \/ axis = 3 \/ axis = 4 \/ axis = 5
      OBVIOUS
    <2> HIDE DEF new, wide
    <2>9. \A axis \in 1 .. 5 : wide[axis] = Padded(new)[axis]
      BY <2>4, <2>5, <2>6, <2>8
    <2> QED
      BY <2>3, <2>6, <2>7, <2>9
  <1>4. \A i \in 1 .. 3 : /\ Stride(wide, i + 2) = Stride(new, i) /\ wide[i + 2] = new[i]
                          /\ Stride(Padded(dims), i + 2) = Stride(dims, i)
    <2> HIDE DEF new, wide
    <2> QED
      BY <1>3, PaddedStrides
  <1>5. wide \in Dims /\ Padded(dims) \in Dims /\ wide[1] = 1 /\ wide[2] = 1
    <2> HIDE DEF new, wide
    <2>1. wide \in Dims /\ Padded(dims) \in Dims
      BY <1>3, PaddedStrides
    <2> QED
      BY <1>3, <2>1 DEF Padded
  <1> HIDE DEF new, wide
  <1>6. \A i \in 1 .. 5 : /\ Stride(wide, i) \in Nat \ {0} /\ wide[i] \in Nat \ {0}
                          /\ Stride(Padded(dims), i) \in Nat \ {0}
    BY <1>5, ProductPositive
  <1>7. \A i \in 1 .. 5 : Coordinate(wide, k, i) \in Nat
    <2> SUFFICES ASSUME NEW i \in 1 .. 5 PROVE Coordinate(wide, k, i) \in Nat
      OBVIOUS
    <2>1. k \div Stride(wide, i) \in Nat
      BY <1>6, DivMod
    <2> QED
      BY <1>6, <2>1, DivMod DEF Coordinate
  <1>8. \A m, n \in Nat : m * n \in Nat
    OBVIOUS
  <1>9. w \in [1 .. 5 -> Nat]
    <2>1. \A i \in 1 .. 5 : Swap(4, 5, i) \in 1 .. 5
      BY DEF Swap
    <2> QED
      BY <1>6, <1>7, <1>8, <2>1
  <1>10. \A i \in 1 .. 3 : h[i] = w[i + 2]
    <2>1. \A i \in 1 .. 3 : Coordinate(new, k, i) = Coordinate(wide, k, i + 2)
      BY <1>4 DEF Coordinate
    <2>2. \A i \in 1 .. 3 : Swap(2, 3, i) \in 1 .. 3 /\ Swap(4, 5, i + 2) = Swap(2, 3, i) + 2 /\ i + 2 \in 1 .. 5
      BY DEF Swap
    <2> QED
      BY <1>4, <2>1, <2>2
  <1>11. h \in [1 .. 3 -> Nat]
    <2>1. \A i \in 1 .. 3 : i + 2 \in 1 .. 5
      OBVIOUS
    <2>2. \A i \in 1 .. 3 : h[i] \in Nat
      BY <1>9, <1>10, <2>1
    <2>3. h = [i \in 1 .. 3 |-> h[i]]
      OBVIOUS
    <2> HIDE DEF h
    <2> QED
      BY <2>2, <2>3
  <1>12. w[1] = 0 /\ w[2] = 0
    <2>1. Coordinate(wide, k, 1) = 0 /\ Coordinate(wide, k, 2) = 0
      <3>1. \A m \in Nat : m % 1 = 0
        OBVIOUS
      <3>2. k \div Stride(wide, 1) \in Nat /\ k \div Stride(wide, 2) \in Nat
        BY <1>6, DivMod
      <3> QED
        BY <1>5, <3>1, <3>2 DEF Coordinate
    <2>2. \A m \in Nat : 0 * m = 0
      OBVIOUS
    <2>3. Stride(Padded(dims), Swap(4, 5, 1)) \in Nat /\ Stride(Padded(dims), Swap(4, 5, 2)) \in Nat
      BY <1>6 DEF Swap
    <2>4. /\ w[1] = Coordinate(wide, k, 1) * Stride(Padded(dims), Swap(4, 5, 1))
          /\ w[2] = Coordinate(wide, k, 2) * Stride(Padded(dims), Swap(4, 5, 2))
      OBVIOUS
    <2> HIDE DEF w
    <2> QED
      BY <2>1, <2>2, <2>3, <2>4
  <1>13. Offset(dims, 2, 3, k) = SumOf(h, 1 .. 3)
    <2>1. 3 \in 0 .. 5 /\ \A i \in 1 .. 3 :
             h[i] = Coordinate(Swapped(dims, 2, 3), k, i) * Stride(dims, Swap(2, 3, i))
      BY DEF new
    <2> HIDE DEF h
    <2> QED
      BY <1>2, <1>11, <2>1, OffsetIs
  <1>14. Offset(Padded(dims), 4, 5, k) = SumOf(w, 1 .. 5)
    <2>1. 5 \in 0 .. 5 /\ \A i \in 1 .. 5 :
             w[i] = Coordinate(Swapped(Padded(dims), 4, 5), k, i) * Stride(Padded(dims), Swap(4, 5, i))
      BY DEF wide
    <2> HIDE DEF w
    <2> QED
      BY <1>2, <1>9, <2>1, OffsetIs
  <1> HIDE DEF h, w
  <1>15. SumOf(h, 1 .. 3) = h[1] + h[2] + h[3] /\ h[1] = w[3] /\ h[2] = w[4] /\ h[3] = w[5]
    <2>1. SumOf(h, 1 .. 3) = h[1] + h[2] + h[3] + 0 + 0
      BY DEF SumOf, Term
    <2>2. h[1] \in Nat /\ h[2] \in Nat /\ h[3] \in Nat
      BY <1>11
    <2>3. h[1] = w[1 + 2] /\ h[2] = w[2 + 2] /\ h[3] = w[3 + 2]
      BY <1>10
    <2> QED
      BY <2>1, <2>2, <2>3
  <1>16. SumOf(w, 1 .. 5) = w[1] + w[2] + w[3] + w[4] + w[5]
    BY DEF SumOf, Term
  <1>17. w[3] \in Nat /\ w[4] \in Nat /\ w[5] \in Nat
    BY <1>9
  <1> QED
    BY <1>12, <1>13, <1>14, <1>15, <1>16, <1>17

\* Told apart by head replica, the ranks are still each there once.
LEMMA HeadWorld ==
    ASSUME NEW dims \in Dims3, NEW flat, flat = [k \in 1 .. Product(dims) |-> k - 1]
    PROVE  IsWorld(Transpose([dims |-> dims, flat |-> flat], 2, 3), Product(dims))
  <1> DEFINE n == Product(dims)
             t == [dims |-> dims, flat |-> flat]
             wide == Padded(dims)
  <1>1. wide \in Dims /\ Product(wide) = n /\ n \in Nat
    <2>1. wide \in Dims /\ Product(wide) = n
      BY PaddedStrides
    <2> QED
      BY <2>1, ProductPositive
  <1>2. {Offset(wide, 4, 5, k) : k \in 0 .. n - 1} = 0 .. n - 1
    <2> HIDE DEF wide, n
    <2> QED
      BY <1>1, OffsetsCover DEF Ranks, Pairs
  <1>3. \A k \in 0 .. n - 1 : Offset(t.dims, 2, 3, k) = Offset(wide, 4, 5, k)
    <2>1. \A k \in 0 .. n - 1 : k \in Nat
      BY <1>1
    <2> QED
      BY <2>1, PaddedOffset
  <1>4. t.flat = [k \in 1 .. n |-> k - 1]
    OBVIOUS
  <1> HIDE DEF n, t, wide
  <1>5. {Offset(t.dims, 2, 3, k) : k \in 0 .. n - 1} = 0 .. n - 1
    BY <1>2, <1>3
  <1>6. IsWorld(Transpose(t, 2, 3), n)
    BY <1>1, <1>4, <1>5, TransposedWorld
  <1> QED
    BY <1>6 DEF n, t

-------------------------------------------------------------------------------
(* Every rank in one row *)

\* The product of the sizes is a multiple of each, and of those of a stage.
LEMMA Multiples ==
    ASSUME NEW dims \in Dims
    PROVE  /\ Product(dims) = (dims[EXT] * dims[DP] * dims[PP] * dims[PCP]) * dims[TP]
           /\ Product(dims) = (dims[EXT] * dims[DP] * dims[PP] * dims[TP]) * dims[PCP]
           /\ Product(dims) = (dims[EXT] * dims[DP] * dims[PCP] * dims[TP]) * dims[PP]
           /\ Product(dims) = (dims[EXT] * dims[PP] * dims[PCP] * dims[TP]) * dims[DP]
           /\ Product(dims) = (dims[EXT] * dims[PP]) * (dims[DP] * dims[PCP] * dims[TP])
           /\ dims[EXT] * dims[DP] * dims[PP] * dims[PCP] \in Nat \ {0}
           /\ dims[EXT] * dims[DP] * dims[PP] * dims[TP] \in Nat
           /\ dims[EXT] * dims[DP] * dims[PCP] * dims[TP] \in Nat
           /\ dims[EXT] * dims[PP] * dims[PCP] * dims[TP] \in Nat
           /\ dims[EXT] * dims[PP] \in Nat
           /\ dims[DP] * dims[PCP] * dims[TP] \in Nat \ {0}
  <1> DEFINE e == dims[1]
             d == dims[2]
             p == dims[3]
             c == dims[4]
             t == dims[5]
  <1>1. e \in Nat \ {0} /\ d \in Nat \ {0} /\ p \in Nat \ {0} /\ c \in Nat \ {0} /\ t \in Nat \ {0}
    BY ProductPositive
  <1>2. Product(dims) = e * d * p * c * t
    BY StridesAre
  <1> HIDE DEF e, d, p, c, t
  <1>3. \A m, n \in Nat \ {0} : m * n \in Nat \ {0}
    OBVIOUS
  <1>4. e * d \in Nat \ {0} /\ e * p \in Nat \ {0} /\ d * c \in Nat \ {0}
    BY <1>1, <1>3
  <1>5. e * d * p \in Nat \ {0} /\ e * d * c \in Nat \ {0} /\ e * p * c \in Nat \ {0} /\ d * c * t \in Nat \ {0}
    BY <1>1, <1>3, <1>4
  <1>6. /\ e * d * p * c \in Nat \ {0} /\ e * d * p * t \in Nat \ {0}
        /\ e * d * c * t \in Nat \ {0} /\ e * p * c * t \in Nat \ {0}
    BY <1>1, <1>3, <1>5
  <1>7. /\ e * d * p * c * t = (e * d * p * t) * c
        /\ e * d * p * c * t = (e * d * c * t) * p
        /\ e * d * p * c * t = (e * p * c * t) * d
        /\ e * d * p * c * t = (e * p) * (d * c * t)
    BY <1>1
  <1> QED
    BY <1>2, <1>4, <1>5, <1>6, <1>7 DEF e, d, p, c, t, EXT, DP, PP, PCP, TP

\* A size that divides a factor divides the product.
Multiple(q, n, size) == q * (n \div size) \in Nat /\ q * n = (q * (n \div size)) * size

\* The quotient of the factor makes that of the product.
LEMMA DividesProduct ==
    ASSUME NEW q \in Nat, NEW n \in Nat \ {0}, NEW size \in Nat \ {0}, n % size = 0
    PROVE  Multiple(q, n, size)
  <1> DEFINE k == n \div size
  <1>1. k \in Nat /\ n = k * size
    BY Divisor
  <1> HIDE DEF k
  <1>2. q * k \in Nat /\ q * (k * size) = (q * k) * size
    BY <1>1
  <1> QED
    BY <1>1, <1>2 DEF k, Multiple

\* Rows of one size, so many that they hold the world, and each rank in one.
LEMMA CoverIs ==
    ASSUME NEW rows, NEW q \in Nat, NEW size \in Nat, NEW n, n = q * size,
           DOMAIN rows = 1 .. q, \A g \in 1 .. q : Len(rows[g]) = size,
           \A g \in 1 .. q : ToSet(rows[g]) \subseteq 0 .. n - 1,
           \A s \in 0 .. n - 1 : \E g \in 1 .. q : s \in ToSet(rows[g])
    PROVE  EachRankOnce(rows, n)
  <1>1. MapThenSumSet(LAMBDA g : Len(rows[g]), DOMAIN rows) = q * size
    BY SumOfLengths
  <1>2. UNION {ToSet(rows[g]) : g \in DOMAIN rows} = 0 .. n - 1
    OBVIOUS
  <1> QED
    BY <1>1, <1>2 DEF EachRankOnce

\* Every rank is in one fine-grained row.
LEMMA FineCover ==
    ASSUME NEW c, NEW size, IsFine(c, size)
    PROVE  EachRankOnce(FineGrainedRows(c, size), Product(c.dims))
  <1> DEFINE d == c.dims[DP]
             p == c.dims[PP]
             t == c.dims[TP]
             chunks == d \div size
             rows == FineGrainedRows(c, size)
             q == p * chunks * t
             world == Product(c.dims)
  <1>1. /\ d \in Nat \ {0} /\ p \in Nat \ {0} /\ t \in Nat \ {0} /\ size \in Nat \ {0}
        /\ d % size = 0 /\ world = d * p * t
    BY ProductPositive, FlatWorld DEF IsFine, DP, PP, TP
  <1>2. DOMAIN rows = 1 .. q
    BY DEF FineGrainedRows
  <1>3. ASSUME NEW n \in 1 .. q
        PROVE  rows[n] = [i \in 1 .. size |->
                  (((n - 1) \div (chunks * t)) * d + (((n - 1) \div t) % chunks) * size + i - 1) * t
                  + ((n - 1) % t)]
    BY DEF FineGrainedRows
  <1>4. ASSUME NEW n \in 1 .. q
        PROVE  \E pp \in Nat, chunk \in Nat, tp \in Nat :
                  /\ pp < p /\ chunk < chunks /\ tp < t
                  /\ rows[n] = [i \in 1 .. size |-> (pp * d + chunk * size + i - 1) * t + tp]
    <2>1. n \in DOMAIN rows
      BY <1>2
    <2> QED
      BY <2>1, FineRow
  <1>5. ASSUME NEW pp \in Nat, pp < p, NEW chunk \in Nat, chunk < chunks,
               NEW tp \in Nat, tp < t, NEW i \in Nat, i < size
        PROVE  (pp * d + chunk * size + i) * t + tp \in 0 .. world - 1
    BY <1>5, FineRank DEF Ranks
  <1> HIDE DEF d, p, t, rows, world
  <1>6. chunks \in Nat \ {0} /\ d = chunks * size
    BY <1>1, Divisor
  <1> HIDE DEF chunks
  <1>7. q \in Nat /\ world = q * size
    <2>1. p * chunks \in Nat
      BY <1>1, <1>6
    <2>2. q \in Nat
      BY <1>1, <2>1
    <2>3. (chunks * size) * p * t = (p * chunks * t) * size
      BY <1>1, <1>6
    <2> QED
      BY <1>1, <1>6, <2>2, <2>3
  <1>8. ASSUME NEW n \in 1 .. q
        PROVE  Len(rows[n]) = size /\ ToSet(rows[n]) \subseteq 0 .. world - 1
    <2>1. PICK pp \in Nat, chunk \in Nat, tp \in Nat :
             /\ pp < p /\ chunk < chunks /\ tp < t
             /\ rows[n] = [i \in 1 .. size |-> (pp * d + chunk * size + i - 1) * t + tp]
      BY <1>4
    <2>2. ASSUME NEW i \in 1 .. size
          PROVE  rows[n][i] \in 0 .. world - 1
      <3>1. i - 1 \in Nat /\ i - 1 < size
        BY <1>1
      <3>2. (pp * d + chunk * size + (i - 1)) * t + tp \in 0 .. world - 1
        BY <1>5, <2>1, <3>1
      <3>3. pp * d \in Nat /\ chunk * size \in Nat
        BY <1>1
      <3>4. pp * d + chunk * size + i - 1 = pp * d + chunk * size + (i - 1)
        BY <3>3
      <3>5. rows[n][i] = (pp * d + chunk * size + i - 1) * t + tp
        BY <2>1
      <3> QED
        BY <3>2, <3>4, <3>5
    <2>3. Len(rows[n]) = size /\ ToSet(rows[n]) = {rows[n][i] : i \in 1 .. size}
      <3> DEFINE F(i) == (pp * d + chunk * size + i - 1) * t + tp
                 row == rows[n]
      <3>1. row = [i \in 1 .. size |-> F(i)]
        BY <2>1
      <3> HIDE DEF F, row
      <3>2. Len(row) = size /\ DOMAIN row = 1 .. size
        BY <1>1, <3>1
      <3> QED
        BY <3>2 DEF ToSet, row
    <2> QED
      BY <2>2, <2>3
  <1>9. ASSUME NEW s \in 0 .. world - 1
        PROVE  \E n \in 1 .. q : s \in ToSet(rows[n])
    <2> DEFINE s1 == s \div t
               tp == s % t
               pp == s1 \div d
               y == s1 % d
               chunk == y \div size
               i == y % size
               m == pp * chunks + chunk
               k == m * t + tp
    <2>1. s \in Nat /\ s < (p * d) * t /\ p * d \in Nat
      <3>1. d * p * t = (p * d) * t /\ (p * d) * t \in Nat /\ p * d \in Nat
        BY <1>1
      <3> QED
        BY <1>1, <3>1
    <2>2. s1 \in Nat /\ tp \in Nat /\ tp < t /\ s = s1 * t + tp /\ s1 < p * d
      BY <1>1, <2>1, Digit, Zenon
    <2> HIDE DEF s1, tp
    <2>3. pp \in Nat /\ y \in Nat /\ y < d /\ s1 = pp * d + y /\ pp < p
      BY <1>1, <2>1, <2>2, Digit, Zenon
    <2> HIDE DEF pp, y
    <2>4. chunk \in Nat /\ i \in Nat /\ i < size /\ y = chunk * size + i /\ chunk < chunks
      BY <1>1, <1>6, <2>3, Digit, Zenon
    <2> HIDE DEF chunk, i
    <2>5. m \in Nat /\ m < p * chunks /\ m \div chunks = pp /\ m % chunks = chunk
      <3>1. Fits(pp, chunks, p, chunk)
        BY <1>1, <1>6, <2>3, <2>4 DEF Fits
      <3>2. Appended(pp, chunks, p, chunk)
        BY <3>1, DigitAppended
      <3> QED
        BY <3>2 DEF Appended
    <2> HIDE DEF m
    <2>6. k \in Nat /\ k < q /\ k \div t = m /\ k % t = tp
      <3>1. p * chunks \in Nat
        BY <1>1, <1>6
      <3>2. Fits(m, t, p * chunks, tp)
        BY <1>1, <2>2, <2>5, <3>1 DEF Fits
      <3>3. Appended(m, t, p * chunks, tp)
        BY <3>2, DigitAppended
      <3> QED
        BY <3>3 DEF Appended
    <2> HIDE DEF k
    <2>7. k \div (chunks * t) = pp
      <3>1. Nested(k, t, chunks)
        BY <1>1, <1>6, <2>6, Twice, Zenon
      <3>2. chunks * t = t * chunks
        BY <1>1, <1>6
      <3> QED
        BY <2>5, <2>6, <3>1, <3>2 DEF Nested
    <2>8. k + 1 \in 1 .. q /\ (k + 1) - 1 = k
      <3> HIDE DEF q
      <3> QED
        BY <1>7, <2>6
    <2>9. rows[k + 1] = [l \in 1 .. size |-> (pp * d + chunk * size + l - 1) * t + tp]
      <3>1. rows[k + 1] = [l \in 1 .. size |->
               ((k \div (chunks * t)) * d + ((k \div t) % chunks) * size + l - 1) * t + (k % t)]
        BY <1>3, <2>8
      <3> QED
        BY <2>5, <2>6, <2>7, <3>1
    <2>10. i + 1 \in 1 .. size /\ rows[k + 1][i + 1] = s
      <3>1. i + 1 \in 1 .. size
        BY <1>1, <2>4
      <3>2. rows[k + 1][i + 1] = (pp * d + chunk * size + (i + 1) - 1) * t + tp
        BY <2>9, <3>1
      <3>3. pp * d \in Nat /\ chunk * size \in Nat
        BY <1>1, <2>3, <2>4
      <3>4. pp * d + chunk * size + (i + 1) - 1 = s1
        BY <2>3, <2>4, <3>3
      <3> QED
        BY <2>2, <3>1, <3>2, <3>4
    <2>11. s \in ToSet(rows[k + 1])
      BY <2>9, <2>10 DEF ToSet
    <2> QED
      BY <2>8, <2>11
  <1> HIDE DEF q
  <1>10. EachRankOnce(rows, world)
    BY <1>1, <1>2, <1>7, <1>8, <1>9, CoverIs
  <1> QED
    BY <1>10 DEF rows, world

\* Where the rows of the grids divide the tensor-parallel size, all ranks are in them.
LEMMA GridCover ==
    ASSUME NEW c, NEW rows, IsGrid(c, rows), c.dims[TP] = rows * c.flashcomm2
    PROVE  /\ EachRankOnce(FlashComm2OtpRows(c), Product(c.dims))
           /\ EachRankOnce(FlashComm2OdpRows(c), Product(c.dims))
  <1> DEFINE f == c.flashcomm2
             dp == c.dims[DP] * c.dims[PP]
             t == c.dims[TP]
             world == Product(c.dims)
             otp == FlashComm2OtpRows(c)
             odp == FlashComm2OdpRows(c)
  <1>1. dp \in Nat /\ t \in Nat \ {0} /\ f \in Nat \ {0} /\ world = dp * t /\ t = rows * f
    <2>1. c.dims[DP] \in Nat /\ c.dims[PP] \in Nat /\ t \in Nat \ {0}
      <3>1. \A axis \in 1 .. 5 : c.dims[axis] \in Nat \ {0}
        BY ProductPositive, Zenon DEF IsGrid
      <3>2. DP \in 1 .. 5 /\ PP \in 1 .. 5 /\ TP \in 1 .. 5
        BY DEF DP, PP, TP
      <3>3. \A m \in Nat \ {0} : m \in Nat
        OBVIOUS
      <3> QED
        BY <3>1, <3>2, <3>3, Zenon
    <2>2. world = dp * t
      BY FlatWorld DEF IsGrid
    <2>3. f \in Nat \ {0} /\ t = rows * f
      BY DEF IsGrid
    <2> QED
      BY <2>1, <2>2, <2>3
  <1>2. rows \in Nat \ {0}
    <2>1. rows = t \div f
      BY DEF IsGrid
    <2> HIDE DEF t, f
    <2>2. rows \in Nat
      BY <1>1, <2>1, DivMod, Zenon
    <2>3. rows # 0
      BY <1>1
    <2> QED
      BY <2>2, <2>3
  <1>3. /\ DOMAIN otp = 1 .. dp * rows /\ DOMAIN odp = 1 .. dp * f
        /\ \A n \in 1 .. dp * rows : otp[n] = [j \in 1 .. f |->
              FlashComm2Rank(c, (n - 1) \div rows, (n - 1) % rows, j - 1)]
        /\ \A n \in 1 .. dp * f : odp[n] = [i \in 1 .. rows |->
              FlashComm2Rank(c, (n - 1) \div f, i - 1, (n - 1) % f)]
    BY DEF FlashComm2OtpRows, FlashComm2OdpRows, IsGrid
  <1>4. ASSUME NEW g \in Nat, g < dp, NEW i \in Nat, i < rows, NEW j \in Nat, j < f
        PROVE  FlashComm2Rank(c, g, i, j) \in 0 .. world - 1
    BY <1>4, GridRank DEF Ranks
  <1>5. ASSUME NEW n \in 1 .. dp * rows
        PROVE  Len(otp[n]) = f /\ ToSet(otp[n]) \subseteq 0 .. world - 1
    <2>1. PICK g \in Nat, i \in Nat :
             /\ g < dp /\ i < rows
             /\ ToSet(otp[n]) = {FlashComm2Rank(c, g, i, j) : j \in 0 .. f - 1}
             /\ Len(otp[n]) = f
      <3>1. n \in DOMAIN otp
        BY <1>3
      <3> QED
        BY <3>1, OtpRow
    <2>2. \A j \in 0 .. f - 1 : j \in Nat /\ j < f
      BY <1>1
    <2> HIDE DEF world, f, dp, otp
    <2>3. \A j \in 0 .. f - 1 : FlashComm2Rank(c, g, i, j) \in 0 .. world - 1
      BY <1>4, <2>1, <2>2
    <2> QED
      BY <2>1, <2>3
  <1>6. ASSUME NEW n \in 1 .. dp * f
        PROVE  Len(odp[n]) = rows /\ ToSet(odp[n]) \subseteq 0 .. world - 1
    <2>1. PICK g \in Nat, j \in Nat :
             /\ g < dp /\ j < f
             /\ ToSet(odp[n]) = {FlashComm2Rank(c, g, i, j) : i \in 0 .. rows - 1}
             /\ Len(odp[n]) = rows
      <3>1. n \in DOMAIN odp
        BY <1>3
      <3> QED
        BY <1>2, <3>1, OdpRow
    <2>2. \A i \in 0 .. rows - 1 : i \in Nat /\ i < rows
      BY <1>2
    <2> HIDE DEF world, f, dp, odp
    <2>3. \A i \in 0 .. rows - 1 : FlashComm2Rank(c, g, i, j) \in 0 .. world - 1
      BY <1>4, <2>1, <2>2
    <2> QED
      BY <2>1, <2>3
  <1>7. \A g, i, j : FlashComm2Rank(c, g, i, j) = g * t + i + j * (t \div f)
    BY DEF FlashComm2Rank
  <1>8. rows = t \div f
    BY DEF IsGrid
  <1> HIDE DEF f, dp, t, world, otp, odp
  <1>9. ASSUME NEW s \in 0 .. world - 1
        PROVE  \E g \in Nat, i \in Nat, j \in Nat :
                  /\ g < dp /\ i < rows /\ j < f
                  /\ s = FlashComm2Rank(c, g, i, j)
    <2> DEFINE g == s \div t
               y == s % t
               j == y \div rows
               i == y % rows
    <2>1. s \in Nat /\ s < dp * t
      <3>1. dp * t \in Nat
        BY <1>1
      <3> QED
        BY <1>1, <3>1
    <2>2. g \in Nat /\ y \in Nat /\ y < t /\ s = g * t + y /\ g < dp
      <3>1. dp \in Nat /\ t \in Nat \ {0}
        BY <1>1
      <3> QED
        BY <2>1, <3>1, Digit, Zenon
    <2> HIDE DEF g, y
    <2>3. y < f * rows
      <3>1. f * rows = t
        BY <1>1, <1>2
      <3> QED
        BY <2>2, <3>1
    <2>4. j \in Nat /\ i \in Nat /\ i < rows /\ y = j * rows + i /\ j < f
      BY <1>1, <1>2, <2>2, <2>3, Digit, Zenon
    <2> HIDE DEF i, j
    <2>5. s = g * t + i + j * rows
      <3>1. g * t \in Nat /\ j * rows \in Nat
        BY <1>1, <1>2, <2>2, <2>4
      <3> QED
        BY <2>2, <2>4, <3>1
    <2>6. s = FlashComm2Rank(c, g, i, j)
      BY <1>7, <1>8, <2>5
    <2> QED
      BY <2>2, <2>4, <2>6
  <1>10. ASSUME NEW s \in 0 .. world - 1
         PROVE  \E n \in 1 .. dp * rows : s \in ToSet(otp[n])
    <2>1. PICK g \in Nat, i \in Nat, j \in Nat :
             g < dp /\ i < rows /\ j < f /\ s = FlashComm2Rank(c, g, i, j)
      BY <1>9
    <2> DEFINE k == g * rows + i
    <2>2. k \in Nat /\ k < dp * rows /\ k \div rows = g /\ k % rows = i
      <3>1. Fits(g, rows, dp, i)
        BY <1>1, <1>2, <2>1 DEF Fits
      <3>2. Appended(g, rows, dp, i)
        BY <3>1, DigitAppended
      <3> QED
        BY <3>2 DEF Appended
    <2> HIDE DEF k
    <2>3. k + 1 \in 1 .. dp * rows /\ (k + 1) - 1 = k
      <3>1. dp * rows \in Nat
        BY <1>1, <1>2
      <3> QED
        BY <2>2, <3>1
    <2>4. otp[k + 1] = [l \in 1 .. f |-> FlashComm2Rank(c, g, i, l - 1)]
      BY <1>3, <2>2, <2>3
    <2>5. j + 1 \in 1 .. f /\ (j + 1) - 1 = j
      BY <1>1, <2>1
    <2>6. s \in ToSet(otp[k + 1])
      BY <2>1, <2>4, <2>5 DEF ToSet
    <2> QED
      BY <2>3, <2>6
  <1>11. ASSUME NEW s \in 0 .. world - 1
         PROVE  \E n \in 1 .. dp * f : s \in ToSet(odp[n])
    <2>1. PICK g \in Nat, i \in Nat, j \in Nat :
             g < dp /\ i < rows /\ j < f /\ s = FlashComm2Rank(c, g, i, j)
      BY <1>9
    <2> DEFINE k == g * f + j
    <2>2. k \in Nat /\ k < dp * f /\ k \div f = g /\ k % f = j
      <3>1. Fits(g, f, dp, j)
        BY <1>1, <2>1 DEF Fits
      <3>2. Appended(g, f, dp, j)
        BY <3>1, DigitAppended
      <3> QED
        BY <3>2 DEF Appended
    <2> HIDE DEF k
    <2>3. k + 1 \in 1 .. dp * f /\ (k + 1) - 1 = k
      <3>1. dp * f \in Nat
        BY <1>1
      <3> QED
        BY <2>2, <3>1
    <2>4. odp[k + 1] = [l \in 1 .. rows |-> FlashComm2Rank(c, g, l - 1, j)]
      BY <1>3, <2>2, <2>3
    <2>5. i + 1 \in 1 .. rows /\ (i + 1) - 1 = i
      BY <1>2, <2>1
    <2>6. s \in ToSet(odp[k + 1])
      BY <2>1, <2>4, <2>5 DEF ToSet
    <2> QED
      BY <2>3, <2>6
  <1>12. /\ dp * rows \in Nat /\ dp * f \in Nat
         /\ world = (dp * rows) * f /\ world = (dp * f) * rows
    BY <1>1, <1>2
  <1>13. EachRankOnce(otp, world)
    <2> DEFINE q == dp * rows
    <2>1. q \in Nat /\ world = q * f /\ f \in Nat
      BY <1>1, <1>12
    <2>2. /\ DOMAIN otp = 1 .. q /\ \A g \in 1 .. q : Len(otp[g]) = f
          /\ \A g \in 1 .. q : ToSet(otp[g]) \subseteq 0 .. world - 1
          /\ \A s \in 0 .. world - 1 : \E g \in 1 .. q : s \in ToSet(otp[g])
      BY <1>3, <1>5, <1>10
    <2> HIDE DEF q
    <2> QED
      BY <2>1, <2>2, CoverIs
  <1>14. EachRankOnce(odp, world)
    <2> DEFINE q == dp * f
    <2>1. q \in Nat /\ world = q * rows /\ rows \in Nat
      BY <1>2, <1>12
    <2>2. /\ DOMAIN odp = 1 .. q /\ \A g \in 1 .. q : Len(odp[g]) = rows
          /\ \A g \in 1 .. q : ToSet(odp[g]) \subseteq 0 .. world - 1
          /\ \A s \in 0 .. world - 1 : \E g \in 1 .. q : s \in ToSet(odp[g])
      BY <1>3, <1>6, <1>11
    <2> HIDE DEF q
    <2> QED
      BY <2>1, <2>2, CoverIs
  <1> QED
    BY <1>13, <1>14 DEF otp, odp, world

\* The sizes a process counts its own ranks in.
LEMMA LocalWorld ==
    ASSUME config \in Configs, NEW name \in {"TP", "DCP", "PCP", "PP"}
    PROVE  /\ LocalRanks(config) = Arange(DimsOf(name)) /\ DimsOf(name) \in Dims
           /\ DimsOf(name)[TP] = config.dims[TP] /\ DimsOf(name)[PCP] = config.dims[PCP]
           /\ DimsOf(name)[PP] = config.dims[PP]
  <1>1. config.dims \in Dims
    BY ConfigsAssumption DEF Dims
  <1>2. CASE ~config.elastic
    <2>1. LocalRanks(config) = Arange(config.dims) /\ DimsOf(name) = config.dims
      BY <1>2 DEF LocalRanks, AllRanks, DimsOf
    <2> QED
      BY <1>1, <2>1
  <1>3. CASE config.elastic
    <2> DEFINE local == <<1, 1, config.dims[PP], config.dims[PCP], config.dims[TP]>>
               dims == DimsOf(name)
    <2>1. dims = [config.dims EXCEPT ![1] = 1, ![2] = 1]
      BY <1>3 DEF DimsOf, EXT, DP
    <2>2. /\ dims \in Dims /\ dims[1] = 1 /\ dims[2] = 1 /\ dims[3] = config.dims[3]
          /\ dims[4] = config.dims[4] /\ dims[5] = config.dims[5]
      BY <1>1, <2>1 DEF Dims
    <2>3. /\ local = [axis \in 1 .. 5 |-> local[axis]]
          /\ local[1] = 1 /\ local[2] = 1 /\ local[3] = config.dims[3]
          /\ local[4] = config.dims[4] /\ local[5] = config.dims[5]
      BY DEF PP, PCP, TP
    <2>4. dims = [axis \in 1 .. 5 |-> dims[axis]]
      BY <2>2 DEF Dims
    <2>5. \A axis \in 1 .. 5 : axis = 1 \/ axis = 2 \/ axis = 3 \/ axis = 4 \/ axis = 5
      OBVIOUS
    <2>6. LocalRanks(config) = Arange(local)
      BY <1>3 DEF LocalRanks
    <2> HIDE DEF local, dims
    <2>7. \A axis \in 1 .. 5 : local[axis] = dims[axis]
      BY <2>2, <2>3, <2>5
    <2>8. local = dims
      BY <2>3, <2>4, <2>7
    <2> QED
      BY <2>2, <2>6, <2>8 DEF dims, PP, PCP, TP
  <1> QED
    BY <1>2, <1>3

\* The rows of vLLM's groups.
LEMMA VllmCover ==
    ASSUME config \in Configs, NEW name \in VllmSlots
    PROVE  EachRankOnce(VllmRows(config, name), Product(DimsOf(name)))
  <1> DEFINE dims == DimsOf(name)
             world == Product(dims)
  <1>1. /\ config.dims \in Dims
        /\ config.dcp \in Nat \ {0} /\ config.dims[TP] % config.dcp = 0
    BY ConfigsAssumption DEF Dims
  <1>2. dims \in Dims
    <2>1. CASE name \in {"TP", "DCP", "PCP", "PP"}
      BY <2>1, LocalWorld
    <2>2. CASE name \notin {"TP", "DCP", "PCP", "PP"}
      BY <1>1, <2>2 DEF DimsOf
    <2> QED
      BY <2>1, <2>2
  <1>3. /\ world \in Nat /\ IsWorld(Arange(dims), world)
        /\ \A pair \in Pairs : IsWorld(Transpose(Arange(dims), pair[1], pair[2]), world)
    <2> HIDE DEF dims
    <2>1. world \in Nat
      BY <1>2, ProductPositive
    <2>2. IsWorld(Arange(dims), world)
      BY <2>1, ArangeWorld
    <2>3. ASSUME NEW pair \in Pairs
          PROVE  IsWorld(Transpose(Arange(dims), pair[1], pair[2]), world)
      <3>1. pair = <<pair[1], pair[2]>>
        BY DEF Pairs
      <3>2. <<pair[1], pair[2]>> \in Pairs
        BY <3>1
      <3> QED
        BY <1>2, <3>2, TransposeWorld
    <2> QED
      BY <2>1, <2>2, <2>3
  <1>4. \A axis \in 1 .. 5 : dims[axis] \in Nat \ {0}
    <2> HIDE DEF dims
    <2> QED
      BY <1>2, ProductPositive
  <1> HIDE DEF dims, world
  <1>5. CASE name = "TP"
    <2>1. VllmRows(config, name) = Rows(Arange(dims), dims[TP])
      BY <1>5, LocalWorld DEF VllmRows, dims
    <2> DEFINE q == dims[EXT] * dims[DP] * dims[PP] * dims[PCP]
    <2>2. q \in Nat /\ world = q * dims[TP]
      BY <1>2, Multiples DEF world
    <2> HIDE DEF q
    <2>3. dims[TP] \in Nat \ {0}
      BY <1>4 DEF TP
    <2> QED
      BY <1>3, <2>1, <2>2, <2>3, RowsCover DEF dims, world
  <1>6. CASE name = "DCP"
    <2>1. VllmRows(config, name) = Rows(Arange(dims), config.dcp) /\ dims[TP] = config.dims[TP]
      BY <1>6, LocalWorld DEF VllmRows, dims
    <2> DEFINE r == dims[EXT] * dims[DP] * dims[PP] * dims[PCP]
               q == r * (dims[TP] \div config.dcp)
    <2>2. r \in Nat /\ world = r * dims[TP] /\ dims[TP] \in Nat \ {0}
      BY <1>2, <1>4, Multiples DEF world, TP
    <2> HIDE DEF r
    <2>3. q \in Nat /\ world = q * config.dcp
      <3> DEFINE n == dims[TP]
                 size == config.dcp
      <3>1. n \in Nat \ {0} /\ size \in Nat \ {0} /\ n % size = 0
        BY <1>1, <2>1, <2>2
      <3> HIDE DEF n, size
      <3>2. r * (n \div size) \in Nat /\ r * n = (r * (n \div size)) * size
        <4>1. Multiple(r, n, size)
          BY <2>2, <3>1, DividesProduct, Zenon
        <4> QED
          BY <4>1, Zenon DEF Multiple
      <3> QED
        BY <2>2, <3>2 DEF n, size
    <2> HIDE DEF q
    <2> QED
      BY <1>1, <1>3, <2>1, <2>3, RowsCover DEF dims, world
  <1>7. CASE name = "PCP"
    <2>1. VllmRows(config, name) = Rows(Transpose(Arange(dims), PCP, TP), dims[PCP])
      BY <1>7, LocalWorld DEF VllmRows, AllRanks, DimsOf, dims
    <2> DEFINE q == dims[EXT] * dims[DP] * dims[PP] * dims[TP]
    <2>2. q \in Nat /\ world = q * dims[PCP]
      BY <1>2, Multiples DEF world
    <2>3. dims[PCP] \in Nat \ {0}
      BY <1>4 DEF PCP
    <2>4. <<PCP, TP>> \in Pairs
      BY DEF Pairs, DP, PP, PCP, TP
    <2> HIDE DEF q
    <2>5. IsWorld(Transpose(Arange(dims), PCP, TP), world)
      <3>1. <<PCP, TP>>[1] = PCP /\ <<PCP, TP>>[2] = TP
        OBVIOUS
      <3> QED
        BY <1>3, <2>4, <3>1, Zenon
    <2> QED
      BY <2>1, <2>2, <2>3, <2>5, RowsCover DEF dims, world
  <1>8. CASE name = "PP"
    <2>1. VllmRows(config, name) = Rows(Transpose(Arange(dims), PP, TP), dims[PP])
      BY <1>8, LocalWorld DEF VllmRows, AllRanks, DimsOf, dims
    <2> DEFINE q == dims[EXT] * dims[DP] * dims[PCP] * dims[TP]
    <2>2. q \in Nat /\ world = q * dims[PP]
      BY <1>2, Multiples DEF world
    <2>3. dims[PP] \in Nat \ {0}
      BY <1>4 DEF PP
    <2>4. <<PP, TP>> \in Pairs
      BY DEF Pairs, DP, PP, PCP, TP
    <2> HIDE DEF q
    <2>5. IsWorld(Transpose(Arange(dims), PP, TP), world)
      <3>1. <<PP, TP>>[1] = PP /\ <<PP, TP>>[2] = TP
        OBVIOUS
      <3> QED
        BY <1>3, <2>4, <3>1, Zenon
    <2> QED
      BY <2>1, <2>2, <2>3, <2>5, RowsCover DEF dims, world
  <1>9. CASE name = "DP"
    <2>1. VllmRows(config, name) = Rows(Transpose(Arange(dims), DP, TP), dims[DP])
      BY <1>9, LocalWorld DEF VllmRows, AllRanks, DimsOf, dims
    <2> DEFINE q == dims[EXT] * dims[PP] * dims[PCP] * dims[TP]
    <2>2. q \in Nat /\ world = q * dims[DP]
      BY <1>2, Multiples DEF world
    <2>3. dims[DP] \in Nat \ {0}
      BY <1>4 DEF DP
    <2>4. <<DP, TP>> \in Pairs
      BY DEF Pairs, DP, PP, PCP, TP
    <2> HIDE DEF q
    <2>5. IsWorld(Transpose(Arange(dims), DP, TP), world)
      <3>1. <<DP, TP>>[1] = DP /\ <<DP, TP>>[2] = TP
        OBVIOUS
      <3> QED
        BY <1>3, <2>4, <3>1, Zenon
    <2> QED
      BY <2>1, <2>2, <2>3, <2>5, RowsCover DEF dims, world
  <1>10. CASE name \in {"EP", "EPLB"}
    <2>1. VllmRows(config, name) = Rows(Transpose(Arange(dims), DP, PP), dims[DP] * dims[PCP] * dims[TP])
      BY <1>10, LocalWorld DEF VllmRows, AllRanks, DimsOf, dims
    <2> DEFINE q == dims[EXT] * dims[PP]
    <2>2. q \in Nat /\ world = q * (dims[DP] * dims[PCP] * dims[TP])
      BY <1>2, Multiples DEF world
    <2>3. dims[DP] * dims[PCP] * dims[TP] \in Nat \ {0}
      BY <1>2, Multiples
    <2>4. <<DP, PP>> \in Pairs
      BY DEF Pairs, DP, PP, PCP, TP
    <2> HIDE DEF q
    <2>5. IsWorld(Transpose(Arange(dims), DP, PP), world)
      <3>1. <<DP, PP>>[1] = DP /\ <<DP, PP>>[2] = PP
        OBVIOUS
      <3> QED
        BY <1>3, <2>4, <3>1, Zenon
    <2> QED
      BY <2>1, <2>2, <2>3, <2>5, RowsCover DEF dims, world
  <1> QED
    BY <1>5, <1>6, <1>7, <1>8, <1>9, <1>10 DEF VllmSlots

\* The rows of the prefill tensor-parallel groups.
LEMMA HeadCover ==
    ASSUME NEW c \in Configs, c.pd_head_producer
    PROVE  EachRankOnce(Rows(PTpOrder(c), PTpSize(c)), Product(c.dims))
  <1> DEFINE r == c.dims[EXT] * c.dims[DP] * c.dims[PP] * c.dims[PCP]
             t == c.dims[TP]
             h == c.num_head_replica
             size == PTpSize(c)
             world == Product(c.dims)
  <1>1. /\ c.dims \in Dims
        /\ c.pd_tp_ratio \in Nat \ {0} /\ t % c.pd_tp_ratio = 0
        /\ h \in Nat
        /\ h > 1 => t % h = 0 /\ size > 0 /\ (t \div h) % size = 0
    BY ConfigsAssumption DEF Dims
  <1>2. /\ r \in Nat \ {0} /\ world = r * t /\ world \in Nat /\ t \in Nat \ {0}
    <2>1. r \in Nat \ {0} /\ world = r * t
      BY <1>1, Multiples
    <2>2. world \in Nat
      BY <1>1, ProductPositive
    <2>3. t \in Nat \ {0}
      <3> HIDE DEF t
      <3> QED
        BY <1>1, ProductPositive DEF t, TP
    <2> QED
      BY <2>1, <2>2, <2>3
  <1>3. CASE h <= 1
    <2>1. PTpOrder(c) = Arange(c.dims) /\ size = c.pd_tp_ratio
      BY <1>3 DEF PTpOrder, PTpSize, AllRanks
    <2> DEFINE q == r * (t \div size)
    <2> HIDE DEF r, t, h, size, world
    <2>2. size \in Nat \ {0} /\ t % size = 0
      BY <1>1, <2>1
    <2>3. q \in Nat /\ r * t = q * size
      <3>1. r \in Nat /\ t \in Nat \ {0}
        BY <1>2
      <3>2. Multiple(r, t, size)
        BY <2>2, <3>1, DividesProduct, Zenon
      <3> QED
        BY <3>2, Zenon DEF Multiple
    <2> HIDE DEF q
    <2>4. IsWorld(PTpOrder(c), q * size)
      BY <1>2, <2>1, <2>3, ArangeWorld DEF world
    <2>5. EachRankOnce(Rows(PTpOrder(c), size), q * size)
      BY <2>2, <2>3, <2>4, RowsCover
    <2> QED
      BY <1>2, <2>3, <2>5 DEF world, size
  <1>4. CASE ~(h <= 1)
    <2> DEFINE w == t \div h
               dims == <<r, w, h>>
               flat == AllRanks(c).flat
    <2>1. PTpOrder(c) = Transpose([dims |-> dims, flat |-> flat], 2, 3)
      BY <1>4 DEF PTpOrder
    <2>2. flat = [k \in 1 .. world |-> k - 1]
      BY DEF AllRanks, Arange
    <2>3. size = w \div (t \div c.pd_tp_ratio)
      BY <1>4 DEF PTpSize
    <2> HIDE DEF r, t, h, size, world, flat
    <2>4. h \in Nat \ {0} /\ h > 1 /\ t % h = 0 /\ size > 0 /\ w % size = 0
      BY <1>1, <1>4
    <2>5. w \in Nat \ {0} /\ t = w * h
      BY <1>2, <2>4, Divisor
    <2>6. size \in Nat \ {0}
      <3>1. t \div c.pd_tp_ratio \in Nat \ {0}
        BY <1>1, <1>2, Divisor
      <3> HIDE DEF w
      <3>2. w \div (t \div c.pd_tp_ratio) \in Nat
        BY <2>5, <3>1, DivMod
      <3> QED
        BY <2>3, <2>4, <3>2
    <2> HIDE DEF w
    <2>7. dims \in Dims3 /\ Product(dims) = world
      <3>1. dims \in Dims3
        <4>1. dims[1] = r /\ dims[2] = w /\ dims[3] = h /\ dims = [axis \in 1 .. 3 |-> dims[axis]]
          OBVIOUS
        <4>2. \A axis \in 1 .. 3 : axis = 1 \/ axis = 2 \/ axis = 3
          OBVIOUS
        <4> HIDE DEF dims
        <4>3. \A axis \in 1 .. 3 : dims[axis] \in Nat \ {0}
          BY <1>2, <2>4, <2>5, <4>1, <4>2
        <4> QED
          BY <4>1, <4>3 DEF Dims3
      <3>2. Product(dims) = r * w * h
        <4>1. dims[1] = r /\ dims[2] = w /\ dims[3] = h
          OBVIOUS
        <4> HIDE DEF dims
        <4>2. dims \in [1 .. 3 -> Nat] /\ 3 \in 0 .. 5
          BY <3>1 DEF Dims3
        <4>3. Product(dims) = dims[1] * dims[2] * dims[3]
          BY <4>2, ProductsAre
        <4> QED
          BY <4>1, <4>3
      <3>3. r * w * h = r * (w * h)
        BY <1>2, <2>4, <2>5
      <3> QED
        BY <1>2, <2>5, <3>1, <3>2, <3>3
    <2>8. IsWorld(PTpOrder(c), world)
      <3> HIDE DEF dims
      <3> QED
        BY <2>1, <2>2, <2>7, HeadWorld
    <2> DEFINE m == r * h
               q == m * (w \div size)
    <2>9. m \in Nat /\ world = m * w
      <3>1. m \in Nat /\ r * (w * h) = m * w
        BY <1>2, <2>4, <2>5
      <3> QED
        BY <1>2, <2>5, <3>1
    <2> HIDE DEF m
    <2>10. q \in Nat /\ m * w = q * size
      <3>1. Multiple(m, w, size)
        BY <2>4, <2>5, <2>6, <2>9, DividesProduct, Zenon
      <3> QED
        BY <3>1, Zenon DEF Multiple
    <2> HIDE DEF q
    <2>11. EachRankOnce(Rows(PTpOrder(c), size), q * size)
      BY <2>6, <2>8, <2>9, <2>10, RowsCover
    <2> QED
      BY <2>9, <2>10, <2>11 DEF world, size
  <1> QED
    BY <1>3, <1>4

\* Code: the lists of ranks the groups are created from.
THEOREM RanksInOneRow == Spec => []EveryRankInOneRow
  <1>1. CreatedInv => EveryRankInOneRow
    <2> SUFFICES ASSUME CreatedInv, NEW name, MayExist(name)
                 PROVE  EachRankOnce(RowsOf(name), Product(DimsOf(name)))
      BY DEF CreatedInv, EveryRankInOneRow, AliveNames
    <2>1. config \in Configs
      BY DEF CreatedInv
    <2>2. ToSet(FineGrained) = {"OTP", "LMTP", "EMBED_TP", "MLP_TP"}
      BY DEF ToSet, FineGrained
    <2>3. CASE name \in VllmSlots
      <3>1. RowsOf(name) = VllmRows(config, name)
        BY <2>2, <2>3 DEF RowsOf, VllmSlots
      <3> QED
        BY <2>1, <2>3, <3>1, VllmCover
    <2>4. CASE name \in {"MC2", "DYNAMIC_EPLB", "FC3_QUANT_X"}
      <3>1. RowsOf(name) = VllmRows(config, "EP") /\ DimsOf(name) = config.dims /\ DimsOf("EP") = config.dims
        BY <2>2, <2>4 DEF RowsOf, VllmSlots, DimsOf
      <3>2. "EP" \in VllmSlots
        BY DEF VllmSlots
      <3> QED
        BY <2>1, <3>1, <3>2, VllmCover
    <2>5. CASE name = "P_TP"
      <3>1. RowsOf(name) = Rows(PTpOrder(config), PTpSize(config)) /\ DimsOf(name) = config.dims
        BY <2>2, <2>5 DEF RowsOf, VllmSlots, DimsOf
      <3>2. config.pd_head_producer
        BY <2>5 DEF MayExist
      <3> QED
        BY <2>1, <3>1, <3>2, HeadCover
    <2>6. CASE name \in ToSet(FineGrained)
      <3>1. RowsOf(name) = FineGrainedRows(config, config.finegrained[name]) /\ DimsOf(name) = config.dims
        BY <2>2, <2>6 DEF RowsOf, VllmSlots, DimsOf
      <3>2. config.finegrained[name] > 0
        BY <2>6 DEF MayExist
      <3>3. IsFine(config, config.finegrained[name])
        BY <2>1, <2>6, <3>2, ConfigsAssumption DEF IsFine, Dims
      <3> QED
        BY <3>1, <3>3, FineCover
    <2>7. CASE name \in {"FLASHCOMM2_OTP", "FLASHCOMM2_ODP"}
      <3> DEFINE rows == config.dims[TP] \div config.flashcomm2
      <3>1. config.flashcomm2 > 1
        BY <2>7 DEF MayExist
      <3>2. /\ config.dims \in Dims /\ config.dims[EXT] = 1 /\ config.dims[PCP] = 1
            /\ config.flashcomm2 \in Nat \ {0} /\ config.dims[TP] % config.flashcomm2 = 0
        BY <2>1, <3>1, ConfigsAssumption DEF Dims
      <3>3. IsGrid(config, rows)
        BY <3>2 DEF IsGrid
      <3>4. config.dims[TP] = rows * config.flashcomm2
        <4>1. config.dims[TP] \in Nat \ {0}
          BY <3>2, ProductPositive DEF TP
        <4> QED
          BY <3>2, <4>1, Divisor
      <3> HIDE DEF rows
      <3>5. /\ EachRankOnce(FlashComm2OtpRows(config), Product(config.dims))
            /\ EachRankOnce(FlashComm2OdpRows(config), Product(config.dims))
        BY <3>3, <3>4, GridCover
      <3>6. /\ DimsOf(name) = config.dims
            /\ name = "FLASHCOMM2_OTP" => RowsOf(name) = FlashComm2OtpRows(config)
            /\ name = "FLASHCOMM2_ODP" => RowsOf(name) = FlashComm2OdpRows(config)
        BY <2>2, <2>7 DEF RowsOf, VllmSlots, DimsOf
      <3> QED
        BY <2>7, <3>5, <3>6
    <2> QED
      BY <2>2, <2>3, <2>4, <2>5, <2>6, <2>7 DEF MayExist, AscendSlots
  <1> QED
    BY <1>1, CreatedAsConfigured, PTL

-------------------------------------------------------------------------------
(* Groups and axes *)

\* The tensor t holds the ranks with the axes a and b transposed.
Arranged(t, dims, a, b) ==
    /\ t.flat \in [1 .. Product(dims) -> Ranks(dims)]
    /\ \A k \in Ranks(dims), axis \in 1 .. 5 :
          Coordinate(dims, t.flat[k + 1], axis)
             = Coordinate(Swapped(dims, a, b), k, Swap(a, b, axis))
    /\ \A s \in Ranks(dims) : \E k \in Ranks(dims) : t.flat[k + 1] = s

\* The ranks as they are numbered: no axes change places.
LEMMA ArangeArranged ==
    ASSUME NEW dims \in Dims
    PROVE  Arranged(Arange(dims), dims, 5, 5) /\ Swapped(dims, 5, 5) = dims
  <1> DEFINE n == Product(dims)
             flat == Arange(dims).flat
  <1>1. n \in Nat /\ flat = [k \in 1 .. n |-> k - 1] /\ Ranks(dims) = 0 .. n - 1
    <2>1. n \in Nat
      BY ProductPositive
    <2> QED
      BY <2>1 DEF Arange, Ranks
  <1>2. Swapped(dims, 5, 5) = dims /\ \A axis : Swap(5, 5, axis) = axis
    <2>1. \A axis : Swap(5, 5, axis) = axis
      BY DEF Swap
    <2>2. dims = [axis \in DOMAIN dims |-> dims[axis]]
      BY DEF Dims
    <2> QED
      BY <2>1, <2>2 DEF Swapped
  <1> HIDE DEF n, flat
  <1>3. ASSUME NEW k \in Ranks(dims)
        PROVE  flat[k + 1] = k /\ k + 1 \in 1 .. n
    BY <1>1
  <1>4. flat \in [1 .. n -> Ranks(dims)]
    BY <1>1
  <1> QED
    BY <1>2, <1>3, <1>4 DEF Arranged, n, flat

\* A transposition puts each rank where the coordinates along the two axes have changed
\* places.
LEMMA OffsetCoordinates ==
    ASSUME NEW dims \in Dims, NEW a, NEW b, <<a, b>> \in Pairs, NEW k \in Ranks(dims)
    PROVE  /\ Offset(dims, a, b, k) \in Ranks(dims)
           /\ \A axis \in 1 .. 5 : Coordinate(dims, Offset(dims, a, b, k), axis)
                                      = Coordinate(Swapped(dims, a, b), k, Swap(a, b, axis))
  <1> DEFINE new == Swapped(dims, a, b)
             off == Offset(dims, a, b, k)
  <1>1. a \in 1 .. 5 /\ b \in 1 .. 5
    BY DEF Pairs
  <1>2. new \in Dims /\ Ranks(new) = Ranks(dims)
    BY <1>1, SwappingPlaces, SwappedProduct DEF Ranks
  <1>3. off \in Ranks(dims)
    BY OffsetsCover
  <1>4. ASSUME NEW axis \in 1 .. 5
        PROVE  Coordinate(dims, off, axis) = Coordinate(new, k, Swap(a, b, axis))
    <2> DEFINE y == Coordinates(new, k)
               x == Swapping(y, a, b)
    <2>1. off = At(dims, x)
      BY <1>1, <1>2, OffsetAt
    <2>2. y \in Places(new)
      BY <1>2, AtCoordinates
    <2>3. x \in Places(dims)
      BY <1>1, <2>2, SwappingPlaces
    <2>4. Coordinates(dims, off) = x
      <3> HIDE DEF x
      <3> QED
        BY <2>1, <2>3, AtPlace
    <2>5. Swap(a, b, axis) \in 1 .. 5
      BY <1>1 DEF Swap
    <2>6. Coordinates(dims, off)[axis] = Coordinate(dims, off, axis)
      BY DEF Coordinates
    <2>7. x[axis] = Coordinate(new, k, Swap(a, b, axis))
      BY <2>5 DEF Swapping, Coordinates
    <2> QED
      BY <2>4, <2>6, <2>7
  <1> QED
    BY <1>3, <1>4

\* So the transposed tensor is arranged.
LEMMA TransposeArranged ==
    ASSUME NEW dims \in Dims, NEW a, NEW b, <<a, b>> \in Pairs
    PROVE  Arranged(Transpose(Arange(dims), a, b), dims, a, b)
  <1> DEFINE n == Product(dims)
             new == Swapped(dims, a, b)
             off(k) == Offset(dims, a, b, k)
             flat == Transpose(Arange(dims), a, b).flat
  <1>1. a \in 1 .. 5 /\ b \in 1 .. 5
    BY DEF Pairs
  <1>2. n \in Nat /\ Ranks(dims) = 0 .. n - 1 /\ new \in Dims /\ Ranks(new) = Ranks(dims)
    BY <1>1, ProductPositive, SwappingPlaces, SwappedProduct DEF Ranks
  <1>3. flat = [k \in 1 .. n |-> Arange(dims).flat[off(k - 1) + 1]]
    <2>1. IsTransposed(Transpose(Arange(dims), a, b), Arange(dims), a, b)
      BY TransposeIs
    <2>2. DOMAIN Arange(dims).flat = 1 .. n /\ Arange(dims).dims = dims
      BY DEF Arange
    <2> QED
      BY <2>1, <2>2 DEF IsTransposed
  <1>4. \A k \in 1 .. n : Arange(dims).flat[k] = k - 1
    BY DEF Arange
  <1>5. {off(k) : k \in Ranks(dims)} = Ranks(dims)
    BY OffsetsCover
  <1>6. ASSUME NEW k \in Ranks(dims), NEW axis \in 1 .. 5
        PROVE  Coordinate(dims, off(k), axis) = Coordinate(new, k, Swap(a, b, axis))
    BY OffsetCoordinates
  <1> HIDE DEF n, new, off, flat
  <1>7. ASSUME NEW k \in 1 .. n
        PROVE  flat[k] = off(k - 1) /\ off(k - 1) \in Ranks(dims)
    <2>1. k - 1 \in Ranks(dims)
      BY <1>2
    <2>2. off(k - 1) \in Ranks(dims)
      BY <1>5, <2>1
    <2>3. off(k - 1) + 1 \in 1 .. n /\ (off(k - 1) + 1) - 1 = off(k - 1)
      BY <1>2, <2>2
    <2> QED
      BY <1>3, <1>4, <2>2, <2>3
  <1>8. ASSUME NEW k \in Ranks(dims)
        PROVE  flat[k + 1] = off(k)
    <2>1. k + 1 \in 1 .. n /\ (k + 1) - 1 = k
      BY <1>2
    <2> QED
      BY <1>7, <2>1
  <1>9. flat \in [1 .. n -> Ranks(dims)]
    <2>1. flat = [k \in 1 .. n |-> flat[k]]
      BY <1>3
    <2>2. \A k \in 1 .. n : flat[k] \in Ranks(dims)
      BY <1>7
    <2> QED
      BY <2>1, <2>2
  <1>10. \A s \in Ranks(dims) : \E k \in Ranks(dims) : flat[k + 1] = s
    BY <1>5, <1>8
  <1>11. \A k \in Ranks(dims), axis \in 1 .. 5 :
            Coordinate(dims, flat[k + 1], axis) = Coordinate(new, k, Swap(a, b, axis))
    BY <1>6, <1>8
  <1> QED
    BY <1>9, <1>10, <1>11 DEF Arranged, n, new, flat

\* The elements of a row are those with one quotient by its size.
AreRows(rows, flat, q, size) ==
    /\ DOMAIN rows = 1 .. q
    /\ \A g \in 1 .. q :
          /\ rows[g] = [i \in 1 .. size |-> flat[(g - 1) * size + i]]
          /\ ToSet(rows[g]) = {flat[k + 1] : k \in {l \in 0 .. q * size - 1 : l \div size = g - 1}}
          /\ \A i \in 1 .. size : /\ (g - 1) * size + i - 1 \in 0 .. q * size - 1
                                  /\ ((g - 1) * size + i - 1) \div size = g - 1

\* Rows cut from a tensor of q times that size are such rows.
LEMMA RowHolds ==
    ASSUME NEW t, NEW q \in Nat, NEW size \in Nat \ {0}, NEW S,
           t.flat \in [1 .. q * size -> S]
    PROVE  AreRows(Rows(t, size), t.flat, q, size)
  <1> DEFINE n == q * size
             rows == Rows(t, size)
  <1>1. n \in Nat /\ n \div size = q
    <2>1. n \in Nat /\ n = q * size + 0
      OBVIOUS
    <2>2. (q * size + 0) \div size = q
      BY DivIs
    <2> QED
      BY <2>1, <2>2
  <1>2. Len(t.flat) = n
    <2> HIDE DEF n
    <2>1. t.flat \in [1 .. n -> S]
      BY DEF n
    <2>2. t.flat \in Seq(S)
      <3> DEFINE f == t.flat
      <3>1. \E m \in Nat : f \in [1 .. m -> S]
        BY <1>1, <2>1
      <3> HIDE DEF f
      <3>2. f \in Seq(S)
        BY <3>1
      <3> QED
        BY <3>2 DEF f
    <2> QED
      BY <1>1, <2>1, <2>2
  <1>3. rows = [g \in 1 .. q |-> [i \in 1 .. size |-> t.flat[(g - 1) * size + i]]]
    <2> HIDE DEF n
    <2> QED
      BY <1>1, <1>2 DEF Rows
  <1> HIDE DEF rows
  <1>4. ASSUME NEW g \in 1 .. q, NEW i \in 1 .. size
        PROVE  /\ (g - 1) * size + i - 1 \in 0 .. n - 1
               /\ ((g - 1) * size + i - 1) \div size = g - 1
               /\ ((g - 1) * size + i - 1) + 1 = (g - 1) * size + i
    <2>1. g - 1 \in Nat /\ i - 1 \in Nat /\ g - 1 < q /\ i - 1 < size
      OBVIOUS
    <2>2. Fits(g - 1, size, q, i - 1)
      BY <2>1 DEF Fits
    <2>3. Appended(g - 1, size, q, i - 1)
      BY <2>2, DigitAppended
    <2> DEFINE m == (g - 1) * size
    <2>4. m + (i - 1) \in Nat /\ m + (i - 1) < n /\ (m + (i - 1)) \div size = g - 1
      BY <2>3 DEF Appended
    <2>5. m \in Nat
      BY <2>1
    <2> HIDE DEF m, n
    <2>6. m + i - 1 = m + (i - 1) /\ (m + i - 1) + 1 = m + i
      BY <2>5
    <2>7. m + i - 1 \in 0 .. n - 1
      BY <1>1, <2>4, <2>6
    <2> QED
      BY <2>4, <2>6, <2>7 DEF m
  <1>5. ASSUME NEW g \in 1 .. q, NEW k \in 0 .. n - 1, k \div size = g - 1
        PROVE  \E i \in 1 .. size : (g - 1) * size + i = k + 1
    <2>1. k \in Nat /\ k < q * size
      BY <1>1
    <2> DEFINE r == k % size
               m == (g - 1) * size
    <2>2. r \in Nat /\ r < size /\ k = (k \div size) * size + r
      BY <2>1, Digit, Zenon
    <2>3. k = m + r /\ m \in Nat
      BY <1>5, <2>2
    <2> HIDE DEF r, m
    <2>4. r + 1 \in 1 .. size /\ m + (r + 1) = k + 1
      BY <2>2, <2>3
    <2> QED
      BY <2>4 DEF m
  <1> HIDE DEF n
  <1>6. ASSUME NEW g \in 1 .. q
        PROVE  ToSet(rows[g]) = {t.flat[k + 1] : k \in {l \in 0 .. n - 1 : l \div size = g - 1}}
    <2>1. ToSet(rows[g]) = {t.flat[(g - 1) * size + i] : i \in 1 .. size}
      BY <1>3 DEF ToSet
    <2>2. ASSUME NEW i \in 1 .. size
          PROVE  \E k \in {l \in 0 .. n - 1 : l \div size = g - 1} : k + 1 = (g - 1) * size + i
      BY <1>4
    <2>3. \A s \in ToSet(rows[g]) :
             s \in {t.flat[k + 1] : k \in {l \in 0 .. n - 1 : l \div size = g - 1}}
      <3> SUFFICES ASSUME NEW i \in 1 .. size
                   PROVE  t.flat[(g - 1) * size + i]
                             \in {t.flat[k + 1] : k \in {l \in 0 .. n - 1 : l \div size = g - 1}}
        BY <2>1
      <3>1. PICK k \in {l \in 0 .. n - 1 : l \div size = g - 1} : k + 1 = (g - 1) * size + i
        BY <2>2
      <3> QED
        BY <3>1
    <2>4. ASSUME NEW k \in {l \in 0 .. n - 1 : l \div size = g - 1}
          PROVE  t.flat[k + 1] \in ToSet(rows[g])
      <3>1. PICK i \in 1 .. size : (g - 1) * size + i = k + 1
        BY <1>5
      <3> QED
        BY <2>1, <3>1
    <2> QED
      BY <2>3, <2>4
  <1>7. DOMAIN rows = 1 .. q
    BY <1>3
  <1>8. \A g \in 1 .. q : rows[g] = [i \in 1 .. size |-> t.flat[(g - 1) * size + i]]
    BY <1>3
  <1> QED
    BY <1>4, <1>6, <1>7, <1>8 DEF n, rows, AreRows

\* The last axes of a transposed arrangement are what a row is cut from; they were
\* others before.
CutAlong(dims, a, b, last, axes, size) ==
    /\ axes = {Swap(a, b, axis) : axis \in last}
    /\ \A k, l \in Ranks(dims) :
          l \in Along(Swapped(dims, a, b), last, k) <=> l \div size = k \div size

\* The sets of ranks in the rows.
GroupsOf(rows) == {ToSet(rows[g]) : g \in DOMAIN rows}

\* Rows whose elements agree on all but some axes of the transposed arrangement are
\* the classes of the ranks along the axes those were.
LEMMA ClassRows ==
    ASSUME NEW dims \in Dims, NEW a \in 1 .. 5, NEW b \in 1 .. 5, NEW t, Arranged(t, dims, a, b),
           NEW q \in Nat, NEW size \in Nat \ {0}, Product(dims) = q * size,
           Product(Swapped(dims, a, b)) = Product(dims),
           NEW last \in SUBSET (1 .. 5), NEW axes, CutAlong(dims, a, b, last, axes, size)
    PROVE  GroupsOf(Rows(t, size)) = Classes(dims, axes)
  <1> DEFINE n == Product(dims)
             new == Swapped(dims, a, b)
             rows == Rows(t, size)
             flat == t.flat
  <1>1. n \in Nat /\ Ranks(dims) = 0 .. n - 1 /\ n = q * size
    BY ProductPositive DEF Ranks
  <1>2. DOMAIN dims = 1 .. 5 /\ DOMAIN new = 1 .. 5
    BY DEF Dims, Swapped
  <1>3. \A axis \in 1 .. 5 : Swap(a, b, axis) \in 1 .. 5 /\ Swap(a, b, Swap(a, b, axis)) = axis
    BY DEF Swap
  <1>4. /\ flat \in [1 .. n -> Ranks(dims)]
        /\ \A k \in Ranks(dims), axis \in 1 .. 5 :
              Coordinate(dims, flat[k + 1], axis) = Coordinate(new, k, Swap(a, b, axis))
        /\ \A s \in Ranks(dims) : \E k \in Ranks(dims) : flat[k + 1] = s
    BY DEF Arranged
  <1>5. \A s, r : s \in Along(dims, axes, r) <=>
           s \in Ranks(dims) /\ \A axis \in (1 .. 5) \ axes : Coordinate(dims, s, axis) = Coordinate(dims, r, axis)
    BY <1>2 DEF Along, Ranks
  <1>6. \A l, k : l \in Along(new, last, k) <=>
           l \in Ranks(dims) /\ \A axis \in (1 .. 5) \ last : Coordinate(new, l, axis) = Coordinate(new, k, axis)
    BY <1>2 DEF Along, Ranks
  <1>7. \A k, l \in Ranks(dims) : l \in Along(new, last, k) <=> l \div size = k \div size
    BY DEF CutAlong
  <1>8. /\ DOMAIN rows = 1 .. q
        /\ \A g \in 1 .. q : /\ ToSet(rows[g]) = {flat[k + 1] : k \in {l \in 0 .. n - 1 : l \div size = g - 1}}
                             /\ \A i \in 1 .. size :
                                   /\ (g - 1) * size + i - 1 \in 0 .. n - 1
                                   /\ ((g - 1) * size + i - 1) \div size = g - 1
    <2>1. flat \in [1 .. q * size -> Ranks(dims)]
      BY <1>1, <1>4
    <2>2. AreRows(rows, flat, q, size)
      BY <2>1, RowHolds
    <2> HIDE DEF n, rows, flat
    <2>3. q * size = n
      BY <1>1
    <2> QED
      BY <2>2, <2>3 DEF AreRows
  <1> HIDE DEF n, new, rows, flat
  <1>9. ASSUME NEW axis \in 1 .. 5
        PROVE  axis \notin axes <=> Swap(a, b, axis) \notin last
    <2>1. axes = {Swap(a, b, i) : i \in last}
      BY DEF CutAlong
    <2> QED
      BY <1>3, <2>1
  <1>10. ASSUME NEW k \in Ranks(dims), NEW l \in Ranks(dims)
         PROVE  flat[l + 1] \in Along(dims, axes, flat[k + 1]) <=> l \div size = k \div size
    <2>1. flat[l + 1] \in Ranks(dims)
      <3>1. l + 1 \in 1 .. n
        BY <1>1
      <3> QED
        BY <1>4, <3>1
    <2>2. ASSUME flat[l + 1] \in Along(dims, axes, flat[k + 1]), NEW axis \in (1 .. 5) \ last
          PROVE  Coordinate(new, l, axis) = Coordinate(new, k, axis)
      <3> DEFINE old == Swap(a, b, axis)
      <3>1. old \in 1 .. 5 /\ Swap(a, b, old) = axis
        BY <1>3
      <3> HIDE DEF old
      <3>2. old \in (1 .. 5) \ axes
        BY <1>9, <3>1
      <3>3. Coordinate(dims, flat[l + 1], old) = Coordinate(dims, flat[k + 1], old)
        BY <1>5, <2>2, <3>2
      <3> QED
        BY <1>4, <3>1, <3>3
    <2>3. ASSUME l \in Along(new, last, k), NEW axis \in (1 .. 5) \ axes
          PROVE  Coordinate(dims, flat[l + 1], axis) = Coordinate(dims, flat[k + 1], axis)
      <3>1. Swap(a, b, axis) \in (1 .. 5) \ last
        BY <1>3, <1>9
      <3>2. Coordinate(new, l, Swap(a, b, axis)) = Coordinate(new, k, Swap(a, b, axis))
        BY <1>6, <2>3, <3>1
      <3> QED
        BY <1>4, <3>2
    <2> QED
      BY <1>5, <1>6, <1>7, <2>1, <2>2, <2>3
  <1>11. ASSUME NEW g \in 1 .. q, NEW k \in Ranks(dims), k \div size = g - 1
         PROVE  ToSet(rows[g]) = Along(dims, axes, flat[k + 1])
    <2>1. ASSUME NEW l \in Ranks(dims), l \div size = g - 1
          PROVE  flat[l + 1] \in Along(dims, axes, flat[k + 1])
      BY <1>10, <1>11, <2>1
    <2>2. ASSUME NEW s \in Along(dims, axes, flat[k + 1])
          PROVE  \E l \in Ranks(dims) : l \div size = g - 1 /\ s = flat[l + 1]
      <3>1. PICK l \in Ranks(dims) : flat[l + 1] = s
        BY <1>4, <1>5, <2>2
      <3>2. l \div size = g - 1
        BY <1>10, <1>11, <3>1
      <3> QED
        BY <3>1, <3>2
    <2>3. ToSet(rows[g]) = {flat[l + 1] : l \in {m \in Ranks(dims) : m \div size = g - 1}}
      BY <1>1, <1>8
    <2> QED
      BY <2>1, <2>2, <2>3
  <1>12. ASSUME NEW g \in 1 .. q
         PROVE  ToSet(rows[g]) \in Classes(dims, axes)
    <2> DEFINE k == (g - 1) * size + 1 - 1
    <2>1. k \in Ranks(dims) /\ k \div size = g - 1
      <3>1. 1 \in 1 .. size
        OBVIOUS
      <3> QED
        BY <1>1, <1>8, <3>1
    <2> HIDE DEF k
    <2>2. ToSet(rows[g]) = Along(dims, axes, flat[k + 1])
      BY <1>11, <2>1
    <2>3. flat[k + 1] \in Ranks(dims)
      <3>1. k + 1 \in 1 .. n
        BY <1>1, <2>1
      <3> QED
        BY <1>4, <3>1
    <2> QED
      BY <1>1, <2>2, <2>3 DEF Classes, n
  <1>13. ASSUME NEW r \in Ranks(dims)
         PROVE  \E g \in 1 .. q : ToSet(rows[g]) = Along(dims, axes, r)
    <2>1. PICK k \in Ranks(dims) : flat[k + 1] = r
      BY <1>4
    <2> DEFINE m == k \div size
    <2>2. m \in Nat /\ m < q
      <3>1. k \in Nat /\ k < q * size
        BY <1>1
      <3> QED
        BY <3>1, DivLess, Zenon
    <2> HIDE DEF m
    <2>3. m + 1 \in 1 .. q /\ (m + 1) - 1 = m
      BY <2>2
    <2>4. ToSet(rows[m + 1]) = Along(dims, axes, r)
      BY <1>11, <2>1, <2>3 DEF m
    <2> QED
      BY <2>3, <2>4
  <1>14. Classes(dims, axes) = {Along(dims, axes, r) : r \in Ranks(dims)}
    BY DEF Classes, Ranks
  <1>15. {ToSet(rows[g]) : g \in DOMAIN rows} = Classes(dims, axes)
    <2>1. \A g \in DOMAIN rows : ToSet(rows[g]) \in Classes(dims, axes)
      BY <1>8, <1>12
    <2>2. \A r \in Ranks(dims) : \E g \in DOMAIN rows : ToSet(rows[g]) = Along(dims, axes, r)
      BY <1>8, <1>13
    <2> QED
      BY <1>14, <2>1, <2>2
  <1> QED
    BY <1>15 DEF rows, GroupsOf

\* The ranks of all but the first two axes are neighbours.
LEMMA AlongStage ==
    ASSUME NEW dims \in Dims, NEW r \in Ranks(dims), NEW s \in Ranks(dims)
    PROVE  s \in Along(dims, {3, 4, 5}, r)
              <=> s \div (dims[3] * dims[4] * dims[5]) = r \div (dims[3] * dims[4] * dims[5])
  <1> DEFINE e == dims[1]
             d == dims[2]
             p == dims[3]
             c == dims[4]
             t == dims[5]
             stage(k) == ((k \div t) \div c) \div p
  <1>1. e \in Nat \ {0} /\ d \in Nat \ {0} /\ p \in Nat \ {0} /\ c \in Nat \ {0} /\ t \in Nat \ {0}
    BY ProductPositive
  <1>2. s \in Along(dims, {3, 4, 5}, r) <=>
           Coordinate(dims, s, 1) = Coordinate(dims, r, 1) /\ Coordinate(dims, s, 2) = Coordinate(dims, r, 2)
    <2>1. DOMAIN dims = 1 .. 5
      BY DEF Dims
    <2>2. s \in Along(dims, {3, 4, 5}, r) <=>
             \A axis \in (1 .. 5) \ {3, 4, 5} : Coordinate(dims, s, axis) = Coordinate(dims, r, axis)
      BY <2>1 DEF Along, Ranks
    <2>3. (1 .. 5) \ {3, 4, 5} = {1, 2}
      OBVIOUS
    <2> QED
      BY <2>2, <2>3
  <1>3. Product(dims) = e * d * p * c * t
    BY StridesAre
  <1>4. \A k \in Nat : /\ Coordinate(dims, k, 2) = stage(k) % d
                       /\ Coordinate(dims, k, 1) = (stage(k) \div d) % e
    <2> SUFFICES ASSUME NEW k \in Nat
                 PROVE  /\ Coordinate(dims, k, 2) = stage(k) % d
                        /\ Coordinate(dims, k, 1) = (stage(k) \div d) % e
      OBVIOUS
    <2> QED
      BY CoordinatesAre, Zenon
  <1>5. r \in Nat /\ s \in Nat /\ r < Product(dims) /\ s < Product(dims)
    BY ProductPositive DEF Ranks
  <1> HIDE DEF e, d, p, c, t
  <1>6. ASSUME NEW k \in Nat, k < Product(dims)
        PROVE  /\ k \div (p * c * t) = stage(k) /\ stage(k) \in Nat
               /\ stage(k) = (stage(k) \div d) * d + (stage(k) % d)
               /\ (stage(k) \div d) % e = stage(k) \div d
    <2> DEFINE m4 == k \div t
               m3 == m4 \div c
               m2 == m3 \div p
    <2>1. t * c \in Nat \ {0} /\ (t * c) * p = p * c * t
      BY <1>1
    <2>2. k \div (t * c) = m3
      <3>1. Nested(k, t, c)
        BY <1>1, Twice, Zenon
      <3> QED
        BY <3>1, Zenon DEF Nested
    <2>3. k \div ((t * c) * p) = m2
      <3>1. Nested(k, t * c, p)
        BY <1>1, <2>1, Twice, Zenon
      <3> QED
        BY <2>2, <3>1, Zenon DEF Nested
    <2>4. /\ e * d \in Nat /\ (e * d) * p \in Nat /\ ((e * d) * p) * c \in Nat
          /\ e * d * p * c * t = (((e * d) * p) * c) * t
      BY <1>1
    <2>5. k < (((e * d) * p) * c) * t
      BY <1>3, <1>6, <2>4, Zenon
    <2>6. m4 \in Nat /\ m4 < ((e * d) * p) * c
      BY <1>1, <2>4, <2>5, DivLess, Zenon
    <2> HIDE DEF m4
    <2>7. m3 \in Nat /\ m3 < (e * d) * p
      BY <1>1, <2>4, <2>6, DivLess, Zenon
    <2> HIDE DEF m3
    <2>8. m2 \in Nat /\ m2 < e * d
      BY <1>1, <2>4, <2>7, DivLess, Zenon
    <2>9. m2 = stage(k)
      BY DEF m2, m3, m4
    <2> HIDE DEF m2, stage
    <2>10. /\ m2 \div d \in Nat /\ m2 = (m2 \div d) * d + (m2 % d) /\ m2 \div d < e
      <3>1. e \in Nat
        BY <1>1
      <3> QED
        BY <1>1, <2>8, <3>1, Digit, Zenon
    <2>11. (m2 \div d) % e = m2 \div d
      BY <1>1, <2>10, SmallRest, Zenon
    <2> QED
      BY <2>1, <2>3, <2>8, <2>9, <2>10, <2>11
  <1> HIDE DEF stage
  <1>7. s \div (p * c * t) = r \div (p * c * t) <=> stage(s) = stage(r)
    BY <1>5, <1>6
  <1>8. stage(s) = stage(r) =>
           Coordinate(dims, s, 1) = Coordinate(dims, r, 1) /\ Coordinate(dims, s, 2) = Coordinate(dims, r, 2)
    BY <1>4, <1>5
  <1>9. ASSUME Coordinate(dims, s, 1) = Coordinate(dims, r, 1), Coordinate(dims, s, 2) = Coordinate(dims, r, 2)
        PROVE  stage(s) = stage(r)
    <2>1. stage(s) \div d = stage(r) \div d /\ stage(s) % d = stage(r) % d
      BY <1>4, <1>5, <1>6, <1>9
    <2>2. /\ stage(s) = (stage(s) \div d) * d + (stage(s) % d)
          /\ stage(r) = (stage(r) \div d) * d + (stage(r) % d)
      BY <1>5, <1>6
    <2> QED
      BY <2>1, <2>2, Zenon
  <1> QED
    BY <1>2, <1>7, <1>8, <1>9 DEF p, c, t

-------------------------------------------------------------------------------
(* Ascending rows *)

\* A rank with no smaller coordinate is no smaller.
LEMMA AtMonotone ==
    ASSUME NEW dims \in Dims, NEW x \in Places(dims), NEW y \in Places(dims),
           \A axis \in 1 .. 5 : x[axis] <= y[axis]
    PROVE  At(dims, x) <= At(dims, y)
  <1>1. \A m, n, size, a, b \in Nat : m <= n /\ a <= b => m * size + a <= n * size + b /\ m * size + a \in Nat
    <2> SUFFICES ASSUME NEW m \in Nat, NEW n \in Nat, NEW size \in Nat, NEW a \in Nat, NEW b \in Nat,
                        m <= n, a <= b
                 PROVE  m * size + a <= n * size + b /\ m * size + a \in Nat
      OBVIOUS
    <2>1. m * size <= n * size /\ m * size \in Nat /\ n * size \in Nat
      OBVIOUS
    <2> QED
      BY <2>1
  <1>2. \A axis \in 1 .. 5 : x[axis] \in Nat /\ y[axis] \in Nat /\ dims[axis] \in Nat
    BY ProductPositive DEF Places
  <1>3. \A n \in Nat : n <= n
    OBVIOUS
  <1> DEFINE x2 == x[1] * dims[2] + x[2]
             y2 == y[1] * dims[2] + y[2]
             x3 == x2 * dims[3] + x[3]
             y3 == y2 * dims[3] + y[3]
             x4 == x3 * dims[4] + x[4]
             y4 == y3 * dims[4] + y[4]
  <1>4. 1 \in 1 .. 5 /\ 2 \in 1 .. 5 /\ 3 \in 1 .. 5 /\ 4 \in 1 .. 5 /\ 5 \in 1 .. 5
    OBVIOUS
  <1>5. At(dims, x) = x4 * dims[5] + x[5] /\ At(dims, y) = y4 * dims[5] + y[5]
    BY DEF At
  <1>6. x2 <= y2 /\ x2 \in Nat /\ y2 \in Nat
    <2>1. x2 <= y2 /\ x2 \in Nat
      BY <1>1, <1>2, <1>4, Zenon
    <2>2. y2 \in Nat
      BY <1>1, <1>2, <1>3, <1>4, Zenon
    <2> QED
      BY <2>1, <2>2
  <1> HIDE DEF x2, y2
  <1>7. x3 <= y3 /\ x3 \in Nat /\ y3 \in Nat
    <2>1. x3 <= y3 /\ x3 \in Nat
      BY <1>1, <1>2, <1>4, <1>6, Zenon
    <2>2. y3 \in Nat
      BY <1>1, <1>2, <1>3, <1>4, <1>6, Zenon
    <2> QED
      BY <2>1, <2>2
  <1> HIDE DEF x3, y3
  <1>8. x4 <= y4 /\ x4 \in Nat /\ y4 \in Nat
    <2>1. x4 <= y4 /\ x4 \in Nat
      BY <1>1, <1>2, <1>4, <1>7, Zenon
    <2>2. y4 \in Nat
      BY <1>1, <1>2, <1>3, <1>4, <1>7, Zenon
    <2> QED
      BY <2>1, <2>2
  <1> HIDE DEF x4, y4
  <1>9. x4 * dims[5] + x[5] <= y4 * dims[5] + y[5]
    BY <1>1, <1>2, <1>4, <1>8, Zenon
  <1> QED
    BY <1>5, <1>9

\* Where each row of a tensor is ascending.
Ascending(t, n, size) ==
    \A k, l \in 0 .. n - 1 :
       k <= l /\ k \div size = l \div size => t.flat[k + 1] <= t.flat[l + 1]

\* Rows cut from an ascending tensor are sorted.
LEMMA SortedRows ==
    ASSUME NEW t, NEW q \in Nat, NEW size \in Nat \ {0}, NEW S, AreRows(Rows(t, size), t.flat, q, size),
           Ascending(t, q * size, size)
    PROVE  \A g \in DOMAIN Rows(t, size) : IsSorted(Rows(t, size)[g], <=)
  <1> DEFINE rows == Rows(t, size)
             n == q * size
  <1> SUFFICES ASSUME NEW g \in DOMAIN rows PROVE IsSorted(rows[g], <=)
    OBVIOUS
  <1>1. /\ rows[g] = [i \in 1 .. size |-> t.flat[(g - 1) * size + i]]
        /\ \A i \in 1 .. size : /\ (g - 1) * size + i - 1 \in 0 .. n - 1
                                /\ ((g - 1) * size + i - 1) \div size = g - 1
        /\ g \in Nat
    <2> HIDE DEF rows, n
    <2>1. AreRows(rows, t.flat, q, size)
      BY DEF rows
    <2>2. DOMAIN rows = 1 .. q
      BY <2>1 DEF AreRows
    <2>3. g \in 1 .. q /\ g \in Nat
      BY <2>2
    <2> QED
      BY <2>1, <2>3, Zenon DEF AreRows, n
  <1> HIDE DEF rows
  <1>2. ASSUME NEW i \in 1 .. size, NEW j \in 1 .. size, i < j
        PROVE  rows[g][i] <= rows[g][j]
    <2> DEFINE m == (g - 1) * size
               k == m + i - 1
               l == m + j - 1
    <2>1. m \in Int
      BY <1>1
    <2>8. k \in 0 .. n - 1 /\ k \div size = g - 1 /\ l \in 0 .. n - 1 /\ l \div size = g - 1
      BY <1>1, Zenon
    <2>2. rows[g][i] = t.flat[m + i] /\ rows[g][j] = t.flat[m + j]
      BY <1>1
    <2> HIDE DEF m, n
    <2>3. k <= l /\ k + 1 = m + i /\ l + 1 = m + j
      BY <1>2, <2>1
    <2>4. Ascending(t, n, size)
      BY DEF n
    <2> HIDE DEF k, l
    <2>5. t.flat[k + 1] <= t.flat[l + 1]
      BY <2>8, <2>3, <2>4 DEF Ascending
    <2> QED
      BY <2>2, <2>3, <2>5
  <1>3. Len(rows[g]) = size
    BY <1>1
  <1> QED
    BY <1>2, <1>3 DEF IsSorted

\* Cut along the last axis, a transposed arrangement has ascending rows.
LEMMA AxisAscending ==
    ASSUME NEW dims \in Dims, NEW a \in 1 .. 5, NEW t, Arranged(t, dims, a, 5),
           Product(Swapped(dims, a, 5)) = Product(dims)
    PROVE  /\ Swapped(dims, a, 5) \in Dims /\ Swapped(dims, a, 5)[TP] = dims[a]
           /\ Ascending(t, Product(dims), dims[a])
  <1> DEFINE new == Swapped(dims, a, 5)
             n == Product(dims)
             size == dims[a]
  <1>1. new \in Dims /\ new[5] = size /\ size \in Nat \ {0}
    <2>1. new \in Dims
      BY SwappingPlaces
    <2>2. DOMAIN dims = 1 .. 5 /\ Swap(a, 5, 5) = a
      BY DEF Dims, Swap
    <2>3. new[5] = size
      BY <2>2 DEF Swapped
    <2>4. size \in Nat \ {0}
      BY DEF Dims
    <2> QED
      BY <2>1, <2>3, <2>4
  <1>2. Ranks(new) = Ranks(dims) /\ Ranks(dims) = 0 .. n - 1 /\ n \in Nat
    BY ProductPositive DEF Ranks
  <1> HIDE DEF new, size, n
  <1> SUFFICES ASSUME NEW k \in Ranks(dims), NEW l \in Ranks(dims), k <= l, k \div size = l \div size
               PROVE  t.flat[k + 1] <= t.flat[l + 1]
    BY <1>1, <1>2 DEF Ascending, new, size, n, TP
  <1> DEFINE r == t.flat[k + 1]
             s == t.flat[l + 1]
             x == Coordinates(dims, r)
             y == Coordinates(dims, s)
  <1>3. r \in Ranks(dims) /\ s \in Ranks(dims)
    <2>1. k + 1 \in 1 .. n /\ l + 1 \in 1 .. n
      BY <1>2
    <2> QED
      BY <2>1 DEF Arranged, n
  <1>4. \A axis \in (1 .. 5) \ {5} : Coordinate(new, l, axis) = Coordinate(new, k, axis)
    <2>1. l \in Along(new, {TP}, k)
      BY <1>1, <1>2, AlongTP DEF TP
    <2>2. DOMAIN new = 1 .. 5
      BY <1>1 DEF Dims
    <2> QED
      BY <2>1, <2>2 DEF Along, TP
  <1>5. Coordinate(new, k, 5) <= Coordinate(new, l, 5)
    <2>1. k \in Nat /\ l \in Nat
      BY <1>2
    <2>2. Coordinate(new, k, 5) = k % size /\ Coordinate(new, l, 5) = l % size
      BY <1>1, <2>1, CoordinatesAre, Zenon
    <2>3. /\ k = (k \div size) * size + (k % size) /\ l = (l \div size) * size + (l % size)
          /\ k % size \in Nat /\ l % size \in Nat /\ k \div size \in Nat
      BY <1>1, <2>1, DivMod, Zenon
    <2> DEFINE m == (k \div size) * size
               b == k % size
               c == l % size
    <2>4. k = m + b /\ l = m + c /\ m \in Nat /\ b \in Nat /\ c \in Nat
      <3>1. \A u, v \in Nat : u * v \in Nat
        OBVIOUS
      <3>2. m \in Nat
        BY <1>1, <2>3, <3>1
      <3> QED
        BY <2>3, <3>2, Zenon
    <2> HIDE DEF m, b, c
    <2>5. b <= c
      BY <2>4
    <2> QED
      BY <2>2, <2>5 DEF b, c
  <1>6. \A axis \in 1 .. 5 : x[axis] <= y[axis]
    <2> SUFFICES ASSUME NEW axis \in 1 .. 5 PROVE x[axis] <= y[axis]
      OBVIOUS
    <2>1. x[axis] = Coordinate(new, k, Swap(a, 5, axis)) /\ y[axis] = Coordinate(new, l, Swap(a, 5, axis))
      BY DEF Coordinates, Arranged, new
    <2>2. Swap(a, 5, axis) \in 1 .. 5
      BY DEF Swap
    <2>3. x[axis] \in Nat /\ y[axis] \in Nat
      <3>1. x \in Places(dims) /\ y \in Places(dims)
        BY <1>3, AtCoordinates
      <3> HIDE DEF x, y
      <3> QED
        BY <3>1 DEF Places
    <2> HIDE DEF x, y
    <2>4. CASE Swap(a, 5, axis) = 5
      BY <1>5, <2>1, <2>4
    <2>5. CASE Swap(a, 5, axis) # 5
      <3>1. x[axis] = y[axis]
        BY <1>4, <2>1, <2>2, <2>5
      <3> QED
        BY <2>3, <3>1
    <2> QED
      BY <2>4, <2>5
  <1>7. /\ x \in Places(dims) /\ At(dims, x) = r
        /\ y \in Places(dims) /\ At(dims, y) = s
    BY <1>3, AtCoordinates
  <1> HIDE DEF x, y, r, s
  <1>8. r <= s
    BY <1>6, <1>7, AtMonotone
  <1> QED
    BY <1>8 DEF r, s

\* Ascending rows that are cut along some axes are the classes along them.
LEMMA CutGroups ==
    ASSUME NEW dims \in Dims, NEW a \in 1 .. 5, NEW b \in 1 .. 5, NEW t, Arranged(t, dims, a, b),
           NEW q \in Nat, NEW size \in Nat \ {0}, Product(dims) = q * size,
           Product(Swapped(dims, a, b)) = Product(dims),
           NEW last \in SUBSET (1 .. 5), NEW axes, CutAlong(dims, a, b, last, axes, size),
           Ascending(t, Product(dims), size)
    PROVE  AreClasses(Rows(t, size), Classes(dims, axes))
  <1>1. GroupsOf(Rows(t, size)) = Classes(dims, axes)
    BY ClassRows
  <1>2. AreRows(Rows(t, size), t.flat, q, size)
    <2>1. t.flat \in [1 .. q * size -> Ranks(dims)]
      BY DEF Arranged
    <2> QED
      BY <2>1, RowHolds
  <1>3. \A g \in DOMAIN Rows(t, size) : IsSorted(Rows(t, size)[g], <=)
    BY <1>2, SortedRows
  <1> QED
    BY <1>1, <1>3 DEF AreClasses, GroupsOf

\* Cut along one axis, the rows are the groups along it.
LEMMA AxisGroups ==
    ASSUME NEW dims \in Dims, NEW a \in 1 .. 5, NEW t, Arranged(t, dims, a, 5),
           Product(Swapped(dims, a, 5)) = Product(dims),
           NEW q \in Nat, NEW size, size = dims[a], Product(dims) = q * size,
           NEW axes, axes = {a}
    PROVE  AreClasses(Rows(t, size), Classes(dims, axes))
  <1> DEFINE new == Swapped(dims, a, 5)
  <1>1. new \in Dims /\ new[TP] = size /\ Ascending(t, Product(dims), size) /\ size \in Nat \ {0}
    <2>1. size \in Nat \ {0}
      BY DEF Dims
    <2> QED
      BY <2>1, AxisAscending
  <1>2. \A k, l \in Ranks(dims) : l \in Along(new, {5}, k) <=> l \div size = k \div size
    <2>1. Ranks(new) = Ranks(dims)
      BY DEF Ranks
    <2> HIDE DEF new
    <2> QED
      BY <1>1, <2>1, AlongTP DEF TP
  <1> DEFINE last == {5}
  <1>3. last \in SUBSET (1 .. 5) /\ 5 \in 1 .. 5
    OBVIOUS
  <1>4. CutAlong(dims, a, 5, last, axes, size)
    <2>1. {a} = {Swap(a, 5, axis) : axis \in {5}}
      BY DEF Swap
    <2> QED
      BY <1>2, <2>1 DEF CutAlong
  <1> HIDE DEF last
  <1> QED
    BY <1>1, <1>3, <1>4, CutGroups

\* Numbers of a last digit below n compare as their leading parts do, then as the digits.
Precedes(m, i, u, j, n) == m * n + i < u * n + j

\* A smaller leading part makes a smaller number.
LEMMA LeadingDigits ==
    ASSUME NEW m \in Nat, NEW u \in Nat, NEW n \in Nat \ {0}, NEW i \in Nat, NEW j \in Nat, i < n, m < u
    PROVE  Precedes(m, i, u, j, n)
  <1>1. m * n + i < u * n /\ m * n + i \in Nat
    BY PlaceBound
  <1>2. u * n \in Nat
    OBVIOUS
  <1> DEFINE v == u * n
             w == m * n + i
  <1>3. w < v /\ v \in Nat /\ w \in Nat
    BY <1>1, <1>2
  <1> HIDE DEF v, w
  <1>4. w < v + j
    BY <1>3
  <1> QED
    BY <1>4 DEF v, w, Precedes

\* With the stages behind the replicas, the ranks of a stage ascend as they did.
LEMMA StageAscending ==
    ASSUME NEW dims \in Dims, NEW t, Arranged(t, dims, 2, 3),
           Product(Swapped(dims, 2, 3)) = Product(dims)
    PROVE  /\ Swapped(dims, 2, 3) \in Dims
           /\ Swapped(dims, 2, 3)[3] * Swapped(dims, 2, 3)[4] * Swapped(dims, 2, 3)[5]
                 = dims[2] * dims[4] * dims[5]
           /\ Ascending(t, Product(dims), dims[2] * dims[4] * dims[5])
  <1> DEFINE new == Swapped(dims, 2, 3)
             n == Product(dims)
             size == dims[2] * dims[4] * dims[5]
             d == dims[2]
             p == dims[3]
             c == dims[4]
             tp == dims[5]
             ct == c * tp
  <1>1. /\ new \in Dims /\ new[3] * new[4] * new[5] = size
        /\ new[2] = p /\ new[3] = d /\ new[4] = c /\ new[5] = tp
    <2>1. new \in Dims
      BY SwappingPlaces
    <2>2. DOMAIN dims = 1 .. 5
      BY DEF Dims
    <2>3. new[2] = p /\ new[3] = d /\ new[4] = c /\ new[5] = tp
      BY <2>2 DEF Swapped, Swap
    <2> QED
      BY <2>1, <2>3
  <1>2. Ranks(new) = Ranks(dims) /\ Ranks(dims) = 0 .. n - 1 /\ n \in Nat
    BY ProductPositive DEF Ranks
  <1>3. d \in Nat \ {0} /\ p \in Nat \ {0} /\ c \in Nat \ {0} /\ tp \in Nat \ {0}
    BY ProductPositive
  <1>4. ct \in Nat \ {0}
    BY <1>3
  <1> HIDE DEF new, size, n
  <1> SUFFICES ASSUME NEW k \in Ranks(dims), NEW l \in Ranks(dims), k <= l, k \div size = l \div size
               PROVE  t.flat[k + 1] <= t.flat[l + 1]
    BY <1>1, <1>2 DEF Ascending, new, size, n
  <1> DEFINE lead(z) == (z[1] * p + z[2]) * d
             tail(z) == z[4] * tp + z[5]
             place(z) == (z[1] * d + z[3]) * p + z[2]
  <1>5. ASSUME NEW j \in Ranks(dims)
        PROVE  LET z == Coordinates(new, j)
               IN  /\ z[1] \in Nat /\ z[2] \in Nat /\ z[3] \in Nat /\ z[2] < p
                   /\ lead(z) \in Nat /\ tail(z) \in Nat /\ tail(z) < ct /\ place(z) \in Nat
                   /\ j = (lead(z) + z[3]) * ct + tail(z)
                   /\ t.flat[j + 1] = place(z) * ct + tail(z)
    <2> DEFINE z == Coordinates(new, j)
               r == t.flat[j + 1]
               x == Coordinates(dims, r)
    <2>1. z \in Places(new) /\ At(new, z) = j
      BY <1>1, <1>2, AtCoordinates
    <2>2. r \in Ranks(dims)
      <3>1. j + 1 \in 1 .. n
        BY <1>2
      <3> QED
        BY <3>1 DEF Arranged, n
    <2>3. At(dims, x) = r
      BY <2>2, AtCoordinates
    <2>4. x[1] = z[1] /\ x[2] = z[3] /\ x[3] = z[2] /\ x[4] = z[4] /\ x[5] = z[5]
      <3>1. \A axis \in 1 .. 5 : Swap(2, 3, axis) \in 1 .. 5 /\ x[axis] = z[Swap(2, 3, axis)]
        <4>1. \A axis \in 1 .. 5 : Swap(2, 3, axis) \in 1 .. 5
          BY DEF Swap
        <4> QED
          BY <4>1 DEF Coordinates, Arranged, new
      <3> HIDE DEF x, z
      <3> QED
        BY <3>1 DEF Swap
    <2> HIDE DEF x, z
    <2>5. /\ \A axis \in 1 .. 5 : z[axis] \in Nat
          /\ z[2] < p /\ z[3] < d /\ z[4] < c /\ z[5] < tp
      BY <1>1, <2>1 DEF Places
    <2>6. At(new, z) = (((z[1] * p + z[2]) * d + z[3]) * c + z[4]) * tp + z[5]
      BY <1>1, Zenon DEF At
    <2>7. At(dims, x) = (((z[1] * d + z[3]) * p + z[2]) * c + z[4]) * tp + z[5]
      BY <2>4, Zenon DEF At
    <2> DEFINE z1 == z[1]
               z2 == z[2]
               z3 == z[3]
               z4 == z[4]
               z5 == z[5]
    <2>8. /\ z1 \in Nat /\ z2 \in Nat /\ z3 \in Nat /\ z4 \in Nat /\ z5 \in Nat
          /\ z4 < c /\ z5 < tp
      BY <2>5
    <2> HIDE DEF z1, z2, z3, z4, z5, d, p, c, tp
    <2>9. /\ (z1 * p + z2) * d \in Nat /\ (z1 * d + z3) * p + z2 \in Nat /\ z4 * tp + z5 \in Nat
      BY <1>3, <2>8
    <2>10. z4 * tp + z5 < c * tp
      BY <1>3, <2>8, PlaceBound
    <2> DEFINE g == (z1 * p + z2) * d
               f == (z1 * d + z3) * p + z2
    <2>11. \A u \in Nat : (u * c + z4) * tp + z5 = u * (c * tp) + (z4 * tp + z5)
      BY <1>3, <2>8
    <2>12. g + z3 \in Nat /\ f \in Nat
      BY <2>8, <2>9
    <2>13. /\ ((g + z3) * c + z4) * tp + z5 = (g + z3) * (c * tp) + (z4 * tp + z5)
           /\ (f * c + z4) * tp + z5 = f * (c * tp) + (z4 * tp + z5)
      <3> HIDE DEF g, f
      <3> QED
        BY <2>11, <2>12, Zenon
    <2>14. j = (lead(z) + z[3]) * ct + tail(z)
      BY <2>1, <2>6, <2>13, Zenon DEF z1, z2, z3, z4, z5
    <2>15. r = place(z) * ct + tail(z)
      BY <2>3, <2>7, <2>13, Zenon DEF z1, z2, z3, z4, z5
    <2> QED
      BY <2>5, <2>9, <2>10, <2>14, <2>15 DEF z, z1, z2, z3, z4, z5
  <1>6. \A axis \in {1, 2} : Coordinate(new, l, axis) = Coordinate(new, k, axis)
    <2>1. l \in Along(new, {3, 4, 5}, k)
      BY <1>1, <1>2, AlongStage
    <2>2. DOMAIN new = 1 .. 5
      BY <1>1 DEF Dims
    <2> QED
      BY <2>1, <2>2 DEF Along
  <1> DEFINE y == Coordinates(new, k)
             z == Coordinates(new, l)
  <1>7. y[1] = z[1] /\ y[2] = z[2]
    BY <1>6 DEF Coordinates
  <1>10. lead(y) = lead(z)
    BY <1>7
  <1>12. y[3] = z[3] => place(y) = place(z)
    BY <1>7
  <1>16. place(y) = (y[1] * d + y[3]) * p + y[2] /\ place(z) = (z[1] * d + z[3]) * p + z[2]
    OBVIOUS
  <1> HIDE DEF lead, tail, place, ct, d, p
  <1>8. /\ y[1] \in Nat /\ y[2] \in Nat /\ y[2] < p /\ y[3] \in Nat /\ lead(y) \in Nat /\ tail(y) \in Nat /\ tail(y) < ct /\ place(y) \in Nat
        /\ k = (lead(y) + y[3]) * ct + tail(y) /\ t.flat[k + 1] = place(y) * ct + tail(y)
    BY <1>5
  <1>9. /\ z[1] \in Nat /\ z[2] \in Nat /\ z[3] \in Nat /\ lead(z) \in Nat /\ tail(z) \in Nat /\ tail(z) < ct /\ place(z) \in Nat
        /\ l = (lead(z) + z[3]) * ct + tail(z) /\ t.flat[l + 1] = place(z) * ct + tail(z)
    BY <1>5
  <1>11. y[3] < z[3] => place(y) < place(z)
    <2> SUFFICES ASSUME y[3] < z[3] PROVE place(y) < place(z)
      OBVIOUS
    <2>1. y[1] \in Nat /\ y[2] \in Nat /\ z[2] \in Nat /\ y[2] < p
      BY <1>8, <1>9
    <2> HIDE DEF y, z
    <2> DEFINE u == y[1] * d
    <2>2. u \in Nat
      BY <1>3, <2>1
    <2> HIDE DEF u
    <2>3. u + y[3] \in Nat /\ u + z[3] \in Nat /\ u + y[3] < u + z[3]
      BY <1>8, <1>9, <2>2
    <2>4. Precedes(u + y[3], y[2], u + z[3], z[2], p)
      BY <1>3, <2>1, <2>3, LeadingDigits
    <2> QED
      BY <1>7, <1>16, <2>4 DEF Precedes, u
  <1> HIDE DEF y, z
  <1>13. CASE y[3] < z[3]
    <2>1. Precedes(place(y), tail(y), place(z), tail(z), ct)
      BY <1>4, <1>8, <1>9, <1>11, <1>13, LeadingDigits
    <2>2. place(y) * ct + tail(y) < place(z) * ct + tail(z)
      BY <2>1 DEF Precedes
    <2> DEFINE a == place(y) * ct + tail(y)
               b == place(z) * ct + tail(z)
    <2>3. a \in Nat /\ b \in Nat
      BY <1>4, <1>8, <1>9
    <2>4. a < b
      BY <2>2
    <2> HIDE DEF a, b
    <2>5. a <= b
      BY <2>3, <2>4
    <2> QED
      BY <1>8, <1>9, <2>5 DEF a, b
  <1>14. CASE y[3] = z[3]
    <2> DEFINE a == (lead(y) + y[3]) * ct
               b == place(y) * ct
    <2>1. a \in Nat /\ b \in Nat
      BY <1>4, <1>8
    <2>2. k = a + tail(y) /\ l = a + tail(z)
      BY <1>8, <1>9, <1>10, <1>14
    <2>3. t.flat[k + 1] = b + tail(y) /\ t.flat[l + 1] = b + tail(z)
      BY <1>8, <1>9, <1>12, <1>14
    <2> HIDE DEF a, b
    <2>4. tail(y) <= tail(z)
      BY <1>8, <1>9, <2>1, <2>2
    <2> QED
      BY <1>8, <1>9, <2>1, <2>3, <2>4
  <1>15. CASE z[3] < y[3]
    <2>1. lead(z) + z[3] \in Nat /\ lead(y) + y[3] \in Nat /\ lead(z) + z[3] < lead(y) + y[3]
      BY <1>8, <1>9, <1>10, <1>15
    <2>2. Precedes(lead(z) + z[3], tail(z), lead(y) + y[3], tail(y), ct)
      BY <1>4, <1>8, <1>9, <2>1, LeadingDigits
    <2>3. l < k
      BY <1>8, <1>9, <2>2 DEF Precedes
    <2> QED
      BY <1>2, <2>3
  <1> QED
    BY <1>8, <1>9, <1>13, <1>14, <1>15

\* Cut behind the stages, the rows are the groups of a stage.
LEMMA StageGroups ==
    ASSUME NEW dims \in Dims, NEW t, Arranged(t, dims, 2, 3),
           Product(Swapped(dims, 2, 3)) = Product(dims),
           NEW q \in Nat, NEW size, size = dims[2] * dims[4] * dims[5], Product(dims) = q * size,
           NEW axes, axes = {2, 4, 5}
    PROVE  AreClasses(Rows(t, size), Classes(dims, axes))
  <1> DEFINE new == Swapped(dims, 2, 3)
  <1>1. new \in Dims /\ new[3] * new[4] * new[5] = size /\ Ascending(t, Product(dims), size) /\ size \in Nat \ {0}
    <2>1. size \in Nat \ {0}
      <3>1. dims[2] \in Nat \ {0} /\ dims[4] \in Nat \ {0} /\ dims[5] \in Nat \ {0}
        BY ProductPositive
      <3> QED
        BY <3>1
    <2> QED
      BY <2>1, StageAscending
  <1>2. \A k, l \in Ranks(dims) : l \in Along(new, {3, 4, 5}, k) <=> l \div size = k \div size
    <2>1. Ranks(new) = Ranks(dims)
      BY DEF Ranks
    <2> HIDE DEF new
    <2> QED
      BY <1>1, <2>1, AlongStage
  <1> DEFINE last == {3, 4, 5}
             a == 2
             b == 3
  <1>3. last \in SUBSET (1 .. 5) /\ a \in 1 .. 5 /\ b \in 1 .. 5
    OBVIOUS
  <1>4. CutAlong(dims, a, b, last, axes, size)
    <2>1. {2, 4, 5} = {Swap(2, 3, axis) : axis \in {3, 4, 5}}
      BY DEF Swap
    <2> QED
      BY <1>2, <2>1 DEF CutAlong
  <1>5. Arranged(t, dims, a, b) /\ Product(Swapped(dims, a, b)) = Product(dims)
    OBVIOUS
  <1> HIDE DEF last, a, b
  <1> QED
    BY <1>1, <1>3, <1>4, <1>5, CutGroups

-------------------------------------------------------------------------------
(* Groups within a tensor-parallel group *)

\* The ranks of a row are in the tensor-parallel group of the first.
RowsWithin(dims, rows) ==
    \A g \in DOMAIN rows : ToSet(rows[g]) \subseteq Along(dims, {TP}, rows[g][1])

\* Rows of a size that divides that of the tensor-parallel groups, cut from ranks that
\* stay in their own, do not reach beyond one.
LEMMA WithinRows ==
    ASSUME NEW dims \in Dims, NEW t, NEW q \in Nat, NEW size \in Nat \ {0}, NEW m \in Nat \ {0},
           dims[TP] = size * m, Product(dims) = q * size,
           t.flat \in [1 .. q * size -> Ranks(dims)],
           \A k \in Ranks(dims) : t.flat[k + 1] \div dims[TP] = k \div dims[TP]
    PROVE  RowsWithin(dims, Rows(t, size))
  <1> DEFINE rows == Rows(t, size)
             flat == t.flat
             n == q * size
             tp == dims[TP]
  <1>1. AreRows(rows, flat, q, size)
    BY RowHolds
  <1>2. Ranks(dims) = 0 .. n - 1
    BY DEF Ranks
  <1>3. \A k \in Ranks(dims) : k \div tp = (k \div size) \div m /\ k + 1 \in 1 .. n
    <2> SUFFICES ASSUME NEW k \in Ranks(dims) PROVE k \div tp = (k \div size) \div m /\ k + 1 \in 1 .. n
      OBVIOUS
    <2>4. n \in Nat
      OBVIOUS
    <2> HIDE DEF n, tp
    <2>1. k \in Nat /\ k + 1 \in 1 .. n
      BY <1>2, <2>4
    <2>2. Nested(k, size, m)
      BY <2>1, Twice, Zenon
    <2>3. k \div (size * m) = (k \div size) \div m
      BY <2>2, Zenon DEF Nested
    <2> QED
      BY <2>1, <2>3 DEF tp
  <1>4. /\ flat \in [1 .. n -> Ranks(dims)]
        /\ \A k \in Ranks(dims) : flat[k + 1] \div tp = k \div tp
    OBVIOUS
  <1> SUFFICES ASSUME NEW g \in DOMAIN rows, NEW s \in ToSet(rows[g])
               PROVE  s \in Along(dims, {TP}, rows[g][1])
    BY DEF RowsWithin
  <1> HIDE DEF rows, flat, n, tp
  <1>5. g \in 1 .. q
    BY <1>1 DEF AreRows
  <1> DEFINE first == (g - 1) * size
  <1>6. /\ rows[g] = [i \in 1 .. size |-> flat[(g - 1) * size + i]]
        /\ ToSet(rows[g]) = {flat[k + 1] : k \in {l \in 0 .. n - 1 : l \div size = g - 1}}
        /\ \A i \in 1 .. size : /\ (g - 1) * size + i - 1 \in 0 .. n - 1
                                /\ ((g - 1) * size + i - 1) \div size = g - 1
    BY <1>1, <1>5, Zenon DEF AreRows, n
  <1>7. 1 \in 1 .. size /\ first \in Int
    BY <1>5
  <1>8. rows[g][1] = flat[first + 1] /\ first + 1 - 1 \in 0 .. n - 1 /\ (first + 1 - 1) \div size = g - 1
    BY <1>6, <1>7
  <1> HIDE DEF first
  <1>9. first \in Ranks(dims) /\ first \div size = g - 1
    <2>1. first + 1 - 1 = first
      BY <1>7
    <2> QED
      BY <1>2, <1>8, <2>1
  <1>10. PICK k \in Ranks(dims) : k \div size = g - 1 /\ s = flat[k + 1]
    BY <1>2, <1>6
  <1>11. s \div tp = rows[g][1] \div tp
    <2>1. k \div tp = first \div tp
      BY <1>3, <1>9, <1>10
    <2> QED
      BY <1>4, <1>8, <1>9, <1>10, <2>1
  <1>12. s \in Ranks(dims) /\ rows[g][1] \in Ranks(dims)
    BY <1>3, <1>4, <1>8, <1>9, <1>10
  <1> QED
    BY <1>11, <1>12, AlongTP DEF tp

\* The tensor holds ranks of a world of n, each where one of its own group of neighbours was.
Stays(t, n, size) ==
    /\ t.flat \in [1 .. n -> 0 .. n - 1]
    /\ \A k \in 0 .. n - 1 : t.flat[k + 1] \div size = k \div size

\* Told apart by head replica, the ranks stay in their tensor-parallel groups.
LEMMA HeadsStay ==
    ASSUME NEW r \in Nat \ {0}, NEW w \in Nat \ {0}, NEW h \in Nat \ {0}, NEW n, n = r * (w * h),
           NEW dims \in Dims3, dims[1] = r, dims[2] = w, dims[3] = h, Product(dims) = n,
           NEW flat, flat = [k \in 1 .. n |-> k - 1]
    PROVE  Stays(Transpose([dims |-> dims, flat |-> flat], 2, 3), n, w * h)
  <1> DEFINE old == [dims |-> dims, flat |-> flat]
             t == Transpose(old, 2, 3)
             wide == Padded(dims)
             new == Swapped(wide, 4, 5)
             off(k) == Offset(wide, 4, 5, k)
  <1>1. wide \in Dims /\ Product(wide) = n /\ <<4, 5>> \in Pairs
    BY PaddedStrides DEF Pairs
  <1>2. n \in Nat /\ Ranks(wide) = 0 .. n - 1 /\ new \in Dims /\ Ranks(new) = Ranks(wide)
    <2> HIDE DEF wide
    <2>1. n \in Nat
      BY <1>1, ProductPositive
    <2> QED
      BY <1>1, <2>1, SwappingPlaces, SwappedProduct DEF Ranks
  <1>3. /\ wide[3] = r /\ wide[4] = w /\ wide[5] = h
        /\ new[3] = r /\ new[4] = h /\ new[5] = w
    <2>1. wide[3] = r /\ wide[4] = w /\ wide[5] = h /\ DOMAIN wide = 1 .. 5
      BY DEF Padded
    <2> HIDE DEF wide
    <2> QED
      BY <2>1 DEF Swapped, Swap
  <1>4. t.flat = [k \in 1 .. n |-> old.flat[Offset(dims, 2, 3, k - 1) + 1]]
    <2>1. IsTransposed(t, old, 2, 3)
      BY TransposeIs
    <2>2. DOMAIN old.flat = 1 .. n /\ old.dims = dims
      OBVIOUS
    <2> HIDE DEF old, t
    <2> QED
      BY <2>1, <2>2 DEF IsTransposed
  <1>5. \A k \in 1 .. n : old.flat[k] = k - 1
    OBVIOUS
  <1>6. \A k \in 0 .. n - 1 : Offset(dims, 2, 3, k) = off(k)
    <2>1. \A k \in 0 .. n - 1 : k \in Nat
      BY <1>2
    <2> QED
      BY <2>1, PaddedOffset
  <1> HIDE DEF old, t, wide, new
  <1>7. ASSUME NEW k \in 0 .. n - 1
        PROVE  off(k) \in 0 .. n - 1 /\ off(k) \div (w * h) = k \div (w * h)
    <2> DEFINE s == off(k)
    <2>1. s \in Ranks(wide) /\ Coordinate(wide, s, 3) = Coordinate(new, k, 3)
      <3>1. /\ s \in Ranks(wide)
            /\ \A axis \in 1 .. 5 : Coordinate(wide, s, axis) = Coordinate(new, k, Swap(4, 5, axis))
        BY <1>1, <1>2, OffsetCoordinates DEF new
      <3>2. Swap(4, 5, 3) = 3 /\ 3 \in 1 .. 5
        BY DEF Swap
      <3> QED
        BY <3>1, <3>2
    <2>2. s \in Nat /\ k \in Nat /\ s < n /\ k < n
      BY <1>2, <2>1
    <2> HIDE DEF s
    <2>3. Coordinate(wide, s, 3) = ((s \div h) \div w) % r
      BY <1>1, <1>3, <2>2, CoordinatesAre, Zenon
    <2>4. Coordinate(new, k, 3) = ((k \div w) \div h) % r
      BY <1>2, <1>3, <2>2, CoordinatesAre, Zenon
    <2>5. s \div (w * h) = (s \div h) \div w
      <3>1. Nested(s, h, w)
        BY <2>2, Twice, Zenon
      <3>2. s \div (h * w) = (s \div h) \div w
        BY <3>1, Zenon DEF Nested
      <3>3. h * w = w * h
        OBVIOUS
      <3> QED
        BY <3>2, <3>3
    <2>6. k \div (w * h) = (k \div w) \div h
      <3>1. Nested(k, w, h)
        BY <2>2, Twice, Zenon
      <3> QED
        BY <3>1, Zenon DEF Nested
    <2> DEFINE m == w * h
    <2>7. m \in Nat \ {0} /\ n = r * m
      OBVIOUS
    <2>8. (s \div m) % r = (k \div m) % r
      BY <2>1, <2>3, <2>4, <2>5, <2>6
    <2> HIDE DEF m
    <2>9. s \div m \in Nat /\ s \div m < r /\ k \div m \in Nat /\ k \div m < r
      <3>1. s < r * m /\ k < r * m /\ r \in Nat
        BY <2>2, <2>7
      <3> QED
        BY <2>2, <2>7, <3>1, DivLess, Zenon
    <2>10. (s \div m) % r = s \div m /\ (k \div m) % r = k \div m
      BY <2>9, SmallRest, Zenon
    <2> QED
      BY <1>2, <2>1, <2>8, <2>10 DEF m, s
  <1> HIDE DEF off
  <1>11. \A j \in 0 .. n - 1 : j + 1 \in 1 .. n /\ (j + 1) - 1 = j
    BY <1>2
  <1>12. \A k \in 1 .. n : k - 1 \in 0 .. n - 1 /\ (k - 1) + 1 = k
    BY <1>2
  <1>8. ASSUME NEW k \in 0 .. n - 1
        PROVE  t.flat[k + 1] = off(k)
    <2>1. k + 1 \in 1 .. n /\ (k + 1) - 1 = k
      BY <1>11
    <2>2. off(k) + 1 \in 1 .. n /\ (off(k) + 1) - 1 = off(k)
      BY <1>7, <1>11, Zenon
    <2>3. t.flat[k + 1] = old.flat[off(k) + 1]
      BY <1>4, <1>6, <2>1
    <2> QED
      BY <1>5, <2>2, <2>3
  <1>9. t.flat \in [1 .. n -> 0 .. n - 1]
    <2>1. ASSUME NEW k \in 1 .. n PROVE t.flat[k] \in 0 .. n - 1
      <3>1. t.flat[(k - 1) + 1] = off(k - 1) /\ off(k - 1) \in 0 .. n - 1
        BY <1>7, <1>8, <1>12, Zenon
      <3>2. (k - 1) + 1 = k
        BY <1>12, Zenon
      <3> QED
        BY <3>1, <3>2, Zenon
    <2>2. \A k \in 1 .. n : t.flat[k] \in 0 .. n - 1
      BY <2>1
    <2>3. t.flat = [k \in 1 .. n |-> t.flat[k]]
      BY <1>4
    <2> QED
      BY <2>2, <2>3
  <1>10. \A k \in 0 .. n - 1 : t.flat[k + 1] \div (w * h) = k \div (w * h)
    BY <1>7, <1>8
  <1> QED
    BY <1>9, <1>10 DEF t, old, Stays

\* The rows and the columns of a grid lie within the tensor-parallel group it is made of.
LEMMA GridWithin ==
    ASSUME NEW c, NEW rows, IsGrid(c, rows), rows # 0
    PROVE  RowsWithin(c.dims, FlashComm2OtpRows(c)) /\ RowsWithin(c.dims, FlashComm2OdpRows(c))
  <1>1. c.dims \in Dims /\ rows \in Nat \ {0} /\ c.flashcomm2 \in Nat \ {0}
    <2>1. c.dims[TP] \in Nat \ {0} /\ c.flashcomm2 \in Nat \ {0} /\ rows = c.dims[TP] \div c.flashcomm2
      BY ProductPositive DEF IsGrid, TP
    <2>2. rows \in Nat
      BY <2>1, DivMod, Zenon
    <2> QED
      BY <2>1, <2>2 DEF IsGrid
  <1>2. ASSUME NEW r, NEW s, r \in Ranks(c.dims), s \in Ranks(c.dims), s \div c.dims[TP] = r \div c.dims[TP]
        PROVE  s \in Along(c.dims, {TP}, r)
    BY <1>1, <1>2, AlongTP
  <1>3. ASSUME NEW n \in DOMAIN FlashComm2OtpRows(c)
        PROVE  ToSet(FlashComm2OtpRows(c)[n]) \subseteq Along(c.dims, {TP}, FlashComm2OtpRows(c)[n][1])
    <2> DEFINE row == FlashComm2OtpRows(c)[n]
    <2>1. PICK g \in Nat, i \in Nat :
             /\ g < c.dims[DP] * c.dims[PP] /\ i < rows
             /\ ToSet(row) = {FlashComm2Rank(c, g, i, j) : j \in 0 .. c.flashcomm2 - 1}
             /\ Len(row) = c.flashcomm2
      BY OtpRow
    <2>2. row[1] \in ToSet(row)
      <3>1. row = [j \in 1 .. c.flashcomm2 |-> row[j]]
        BY DEF FlashComm2OtpRows
      <3>2. 1 \in DOMAIN row
        BY <1>1, <3>1
      <3> QED
        BY <3>2 DEF ToSet
    <2> HIDE DEF row
    <2>3. ASSUME NEW s \in ToSet(row)
          PROVE  s \in Ranks(c.dims) /\ s \div c.dims[TP] = g
      <3>1. PICK j \in 0 .. c.flashcomm2 - 1 : s = FlashComm2Rank(c, g, i, j)
        BY <2>1
      <3>2. j \in Nat /\ j < c.flashcomm2
        BY <1>1
      <3> QED
        BY <2>1, <3>1, <3>2, GridRank
    <2> QED
      BY <1>2, <2>2, <2>3 DEF row
  <1>4. ASSUME NEW n \in DOMAIN FlashComm2OdpRows(c)
        PROVE  ToSet(FlashComm2OdpRows(c)[n]) \subseteq Along(c.dims, {TP}, FlashComm2OdpRows(c)[n][1])
    <2> DEFINE row == FlashComm2OdpRows(c)[n]
    <2>1. PICK g \in Nat, j \in Nat :
             /\ g < c.dims[DP] * c.dims[PP] /\ j < c.flashcomm2
             /\ ToSet(row) = {FlashComm2Rank(c, g, i, j) : i \in 0 .. rows - 1}
             /\ Len(row) = rows
      BY OdpRow
    <2>2. row[1] \in ToSet(row)
      <3>1. row = [i \in 1 .. rows |-> row[i]]
        BY DEF FlashComm2OdpRows, IsGrid
      <3>2. 1 \in DOMAIN row
        BY <1>1, <3>1
      <3> QED
        BY <3>2 DEF ToSet
    <2> HIDE DEF row
    <2>3. ASSUME NEW s \in ToSet(row)
          PROVE  s \in Ranks(c.dims) /\ s \div c.dims[TP] = g
      <3>1. PICK i \in 0 .. rows - 1 : s = FlashComm2Rank(c, g, i, j)
        BY <2>1
      <3>2. i \in Nat /\ i < rows
        BY <1>1
      <3> QED
        BY <2>1, <3>1, <3>2, GridRank
    <2> QED
      BY <1>2, <2>2, <2>3 DEF row
  <1> QED
    BY <1>3, <1>4 DEF RowsWithin

\* The decode-context groups lie within a tensor-parallel group.
LEMMA DecodeWithin ==
    ASSUME config \in Configs
    PROVE  RowsWithin(DimsOf("DCP"), VllmRows(config, "DCP"))
  <1> DEFINE dims == DimsOf("DCP")
             t == Arange(dims)
             size == config.dcp
             r == dims[EXT] * dims[DP] * dims[PP] * dims[PCP]
             tp == dims[TP]
             m == tp \div size
             q == r * m
  <1>1. dims \in Dims /\ VllmRows(config, "DCP") = Rows(t, size) /\ tp = config.dims[TP]
    BY LocalWorld DEF VllmRows
  <1>2. size \in Nat \ {0} /\ tp % size = 0
    BY <1>1, ConfigsAssumption
  <1> HIDE DEF dims, size
  <1>3. r \in Nat /\ Product(dims) = r * tp /\ tp \in Nat \ {0}
    BY <1>1, Multiples, ProductPositive DEF TP
  <1> HIDE DEF r, tp
  <1>4. q \in Nat /\ Product(dims) = q * size
    <2>1. Multiple(r, tp, size)
      BY <1>2, <1>3, DividesProduct, Zenon
    <2> QED
      BY <1>3, <2>1, Zenon DEF Multiple
  <1>5. m \in Nat \ {0} /\ tp = size * m
    <2>1. m \in Nat \ {0} /\ tp = m * size
      BY <1>2, <1>3, Divisor
    <2> HIDE DEF m
    <2> QED
      BY <1>2, <2>1
  <1> HIDE DEF q, m
  <1>6. /\ t.flat \in [1 .. q * size -> Ranks(dims)]
        /\ \A k \in Ranks(dims) : t.flat[k + 1] = k
    <2> DEFINE n == Product(dims)
    <2>1. t.flat = [k \in 1 .. n |-> k - 1] /\ n \in Nat /\ Ranks(dims) = 0 .. n - 1
      BY <1>1, ProductPositive DEF Arange, Ranks
    <2>2. n = q * size
      BY <1>4
    <2> HIDE DEF t, n
    <2>3. t.flat \in [1 .. n -> Ranks(dims)] /\ \A k \in Ranks(dims) : t.flat[k + 1] = k
      BY <2>1
    <2> QED
      BY <2>2, <2>3
  <1>7. \A k \in Ranks(dims) : t.flat[k + 1] \div dims[TP] = k \div dims[TP]
    BY <1>6
  <1>8. dims[TP] = size * m
    BY <1>5 DEF tp
  <1> HIDE DEF t
  <1>9. RowsWithin(dims, Rows(t, size))
    BY <1>1, <1>2, <1>4, <1>5, <1>6, <1>7, <1>8, WithinRows
  <1> QED
    BY <1>1, <1>9 DEF dims, t

\* The prefill tensor-parallel groups lie within a tensor-parallel group.
LEMMA HeadsWithin ==
    ASSUME NEW c \in Configs, c.pd_head_producer
    PROVE  RowsWithin(c.dims, Rows(PTpOrder(c), PTpSize(c)))
  <1> DEFINE dims == c.dims
             t == PTpOrder(c)
             r == dims[EXT] * dims[DP] * dims[PP] * dims[PCP]
             tp == dims[TP]
             h == c.num_head_replica
             size == PTpSize(c)
             m == tp \div size
             q == r * m
             n == Product(dims)
  <1>1. /\ dims \in Dims
        /\ c.pd_tp_ratio \in Nat \ {0} /\ tp % c.pd_tp_ratio = 0
        /\ h \in Nat
        /\ h > 1 => tp % h = 0 /\ size > 0 /\ (tp \div h) % size = 0
    BY ConfigsAssumption DEF Dims
  <1>2. r \in Nat \ {0} /\ n = r * tp /\ tp \in Nat \ {0} /\ n \in Nat /\ Ranks(dims) = 0 .. n - 1
    BY <1>1, Multiples, ProductPositive DEF TP, Ranks
  <1> DEFINE fits == /\ size \in Nat \ {0} /\ tp % size = 0
                     /\ t.flat \in [1 .. n -> Ranks(dims)]
                     /\ \A k \in Ranks(dims) : t.flat[k + 1] \div tp = k \div tp
  <1>3. ASSUME h <= 1 PROVE fits
    <2>1. t = Arange(dims) /\ size = c.pd_tp_ratio
      BY <1>3 DEF PTpOrder, PTpSize, AllRanks
    <2>2. t.flat = [k \in 1 .. n |-> k - 1]
      BY <2>1 DEF Arange
    <2>3. size \in Nat \ {0} /\ tp % size = 0
      BY <1>1, <2>1
    <2> HIDE DEF r, tp, h, size, n, t, m, q
    <2>4. t.flat \in [1 .. n -> Ranks(dims)] /\ \A k \in Ranks(dims) : t.flat[k + 1] = k
      BY <1>2, <2>2
    <2>5. \A k \in Ranks(dims) : t.flat[k + 1] \div tp = k \div tp
      BY <2>4
    <2>6. fits
      BY <2>3, <2>4, <2>5
    <2> QED
      BY <2>6
  <1>4. ASSUME ~(h <= 1) PROVE fits
    <2> DEFINE w == tp \div h
               three == <<r, w, h>>
               flat == AllRanks(c).flat
    <2>1. t = Transpose([dims |-> three, flat |-> flat], 2, 3)
      BY <1>4 DEF PTpOrder
    <2>2. flat = [k \in 1 .. n |-> k - 1]
      BY DEF AllRanks, Arange
    <2>3. size = w \div (tp \div c.pd_tp_ratio)
      BY <1>4 DEF PTpSize
    <2> HIDE DEF r, tp, h, size, n, t, flat, m, q, fits
    <2>4. h \in Nat \ {0} /\ h > 1 /\ tp % h = 0 /\ size > 0 /\ w % size = 0
      BY <1>1, <1>4
    <2>5. w \in Nat \ {0} /\ tp = w * h
      BY <1>2, <2>4, Divisor
    <2>6. size \in Nat \ {0}
      <3>1. tp \div c.pd_tp_ratio \in Nat \ {0}
        BY <1>1, <1>2, Divisor
      <3> HIDE DEF w
      <3>2. w \div (tp \div c.pd_tp_ratio) \in Nat
        BY <2>5, <3>1, DivMod
      <3> QED
        BY <2>3, <2>4, <3>2
    <2> HIDE DEF w
    <2>7. tp % size = 0
      <3> DEFINE v == w \div size
      <3>1. v \in Nat /\ w = v * size
        BY <2>4, <2>5, <2>6, Divisor
      <3> HIDE DEF v
      <3>2. v * h \in Nat /\ tp = (v * h) * size + 0
        BY <2>4, <2>5, <2>6, <3>1
      <3> DEFINE u == v * h
      <3> HIDE DEF u
      <3>3. (u * size + 0) % size = 0
        BY <2>6, <3>2, DivIs DEF u
      <3> QED
        BY <3>2, <3>3 DEF u
    <2>8. three \in Dims3 /\ Product(three) = n /\ three[1] = r /\ three[2] = w /\ three[3] = h
      <3>1. three[1] = r /\ three[2] = w /\ three[3] = h /\ three = [axis \in 1 .. 3 |-> three[axis]]
        OBVIOUS
      <3> HIDE DEF three
      <3>2. three \in Dims3
        <4>1. \A axis \in 1 .. 3 : axis = 1 \/ axis = 2 \/ axis = 3
          OBVIOUS
        <4>2. \A axis \in 1 .. 3 : three[axis] \in Nat \ {0}
          BY <1>2, <2>4, <2>5, <3>1, <4>1
        <4> QED
          BY <3>1, <4>2 DEF Dims3
      <3>3. Product(three) = three[1] * three[2] * three[3]
        <4>1. three \in [1 .. 3 -> Nat] /\ 3 \in 0 .. 5
          BY <3>2 DEF Dims3
        <4> QED
          BY <4>1, ProductsAre
      <3>4. r * w * h = r * (w * h)
        BY <1>2, <2>4, <2>5
      <3> QED
        BY <1>2, <2>5, <3>1, <3>2, <3>3, <3>4
    <2> HIDE DEF three
    <2>9. n = r * (w * h)
      BY <1>2, <2>5
    <2>10. Stays(t, n, w * h)
      BY <1>2, <2>1, <2>2, <2>4, <2>5, <2>8, <2>9, HeadsStay
    <2>11. Stays(t, n, tp)
      BY <2>5, <2>10
    <2> QED
      BY <1>2, <2>6, <2>7, <2>11 DEF fits, Stays
  <1>5. fits
    BY <1>3, <1>4
  <1> HIDE DEF dims, t, r, tp, h, size, n
  <1>6. /\ size \in Nat \ {0} /\ tp % size = 0
        /\ t.flat \in [1 .. n -> Ranks(dims)]
        /\ \A k \in Ranks(dims) : t.flat[k + 1] \div tp = k \div tp
    BY <1>5
  <1> HIDE DEF fits
  <1>7. q \in Nat /\ n = q * size
    <2>1. Multiple(r, tp, size)
      BY <1>2, <1>6, DividesProduct, Zenon
    <2> QED
      BY <1>2, <2>1, Zenon DEF Multiple
  <1>8. m \in Nat \ {0} /\ tp = size * m
    <2>1. m \in Nat \ {0} /\ tp = m * size
      BY <1>2, <1>6, Divisor
    <2> HIDE DEF m
    <2> QED
      BY <1>6, <2>1
  <1> HIDE DEF q, m
  <1>9. RowsWithin(dims, Rows(t, size))
    <2>1. dims[TP] = size * m /\ Product(dims) = q * size
      BY <1>7, <1>8 DEF tp, n
    <2>2. t.flat \in [1 .. q * size -> Ranks(dims)]
      BY <1>6, <1>7
    <2>3. \A k \in Ranks(dims) : t.flat[k + 1] \div dims[TP] = k \div dims[TP]
      BY <1>6 DEF tp
    <2> QED
      BY <1>1, <1>6, <1>7, <1>8, <2>1, <2>2, <2>3, WithinRows
  <1> QED
    BY <1>9 DEF dims, t, size

-------------------------------------------------------------------------------
(* The layout is followed *)

\* The groups of vLLM but those of the decode context.
LEMMA VllmLayout ==
    ASSUME config \in Configs, NEW name \in VllmSlots \ {"DCP"}
    PROVE  AreClasses(VllmRows(config, name), Classes(DimsOf(name), AxesOf(name)))
  <1> DEFINE dims == DimsOf(name)
  <1>1. dims \in Dims
    <2>1. CASE name \in {"TP", "DCP", "PCP", "PP"}
      BY <2>1, LocalWorld
    <2>2. CASE name \notin {"TP", "DCP", "PCP", "PP"}
      BY <2>2, ConfigsAssumption DEF DimsOf, Dims
    <2> QED
      BY <2>1, <2>2
  <1> HIDE DEF dims
  <1>2. CASE name = "TP"
    <2>1. VllmRows(config, name) = Rows(Arange(dims), dims[TP])
      BY <1>2, LocalWorld DEF VllmRows, dims
    <2> DEFINE q == dims[EXT] * dims[DP] * dims[PP] * dims[PCP]
               size == dims[TP]
               axes == {TP}
               t == Arange(dims)
    <2>2. q \in Nat /\ Product(dims) = q * size
      BY <1>1, Multiples
    <2>3. AxesOf(name) = axes
      BY <1>2 DEF AxesOf
    <2>4. Arranged(t, dims, TP, 5) /\ Product(Swapped(dims, TP, 5)) = Product(dims) /\ TP \in 1 .. 5
      BY <1>1, ArangeArranged DEF TP
    <2> HIDE DEF q, t
    <2>5. AreClasses(Rows(t, size), Classes(dims, axes))
      BY <1>1, <2>2, <2>4, AxisGroups
    <2> QED
      BY <2>1, <2>3, <2>5 DEF t, dims
  <1>3. CASE name = "PCP"
    <2>1. VllmRows(config, name) = Rows(Transpose(Arange(dims), PCP, TP), dims[PCP])
      BY <1>3, LocalWorld DEF VllmRows, AllRanks, DimsOf, dims
    <2> DEFINE q == dims[EXT] * dims[DP] * dims[PP] * dims[TP]
               size == dims[PCP]
               axes == {PCP}
               t == Transpose(Arange(dims), PCP, TP)
    <2>2. q \in Nat /\ Product(dims) = q * size
      BY <1>1, Multiples
    <2>3. AxesOf(name) = axes
      BY <1>3 DEF AxesOf
    <2>4. Arranged(t, dims, PCP, 5) /\ Product(Swapped(dims, PCP, 5)) = Product(dims) /\ PCP \in 1 .. 5
      BY <1>1, TransposeArranged, SwappedProduct DEF Pairs, PCP, TP
    <2> HIDE DEF q, t
    <2>5. AreClasses(Rows(t, size), Classes(dims, axes))
      BY <1>1, <2>2, <2>4, AxisGroups
    <2> QED
      BY <2>1, <2>3, <2>5 DEF t, dims
  <1>4. CASE name = "PP"
    <2>1. VllmRows(config, name) = Rows(Transpose(Arange(dims), PP, TP), dims[PP])
      BY <1>4, LocalWorld DEF VllmRows, AllRanks, DimsOf, dims
    <2> DEFINE q == dims[EXT] * dims[DP] * dims[PCP] * dims[TP]
               size == dims[PP]
               axes == {PP}
               t == Transpose(Arange(dims), PP, TP)
    <2>2. q \in Nat /\ Product(dims) = q * size
      BY <1>1, Multiples
    <2>3. AxesOf(name) = axes
      BY <1>4 DEF AxesOf
    <2>4. Arranged(t, dims, PP, 5) /\ Product(Swapped(dims, PP, 5)) = Product(dims) /\ PP \in 1 .. 5
      BY <1>1, TransposeArranged, SwappedProduct DEF Pairs, PP, TP
    <2> HIDE DEF q, t
    <2>5. AreClasses(Rows(t, size), Classes(dims, axes))
      BY <1>1, <2>2, <2>4, AxisGroups
    <2> QED
      BY <2>1, <2>3, <2>5 DEF t, dims
  <1>5. CASE name = "DP"
    <2>1. VllmRows(config, name) = Rows(Transpose(Arange(dims), DP, TP), dims[DP])
      BY <1>5, LocalWorld DEF VllmRows, AllRanks, DimsOf, dims
    <2> DEFINE q == dims[EXT] * dims[PP] * dims[PCP] * dims[TP]
               size == dims[DP]
               axes == {DP}
               t == Transpose(Arange(dims), DP, TP)
    <2>2. q \in Nat /\ Product(dims) = q * size
      BY <1>1, Multiples
    <2>3. AxesOf(name) = axes
      BY <1>5 DEF AxesOf
    <2>4. Arranged(t, dims, DP, 5) /\ Product(Swapped(dims, DP, 5)) = Product(dims) /\ DP \in 1 .. 5
      BY <1>1, TransposeArranged, SwappedProduct DEF Pairs, DP, TP
    <2> HIDE DEF q, t
    <2>5. AreClasses(Rows(t, size), Classes(dims, axes))
      BY <1>1, <2>2, <2>4, AxisGroups
    <2> QED
      BY <2>1, <2>3, <2>5 DEF t, dims
  <1>6. CASE name \in {"EP", "EPLB"}
    <2>1. VllmRows(config, name) = Rows(Transpose(Arange(dims), DP, PP), dims[DP] * dims[PCP] * dims[TP])
      BY <1>6, LocalWorld DEF VllmRows, AllRanks, DimsOf, dims
    <2> DEFINE q == dims[EXT] * dims[PP]
               size == dims[DP] * dims[PCP] * dims[TP]
               axes == {DP, PCP, TP}
               t == Transpose(Arange(dims), DP, PP)
    <2>2. q \in Nat /\ Product(dims) = q * size
      BY <1>1, Multiples
    <2>3. AxesOf(name) = axes
      BY <1>6 DEF AxesOf
    <2>4. Arranged(t, dims, 2, 3) /\ Product(Swapped(dims, 2, 3)) = Product(dims)
      BY <1>1, TransposeArranged, SwappedProduct DEF Pairs, DP, PP
    <2>5. size = dims[2] * dims[4] * dims[5] /\ axes = {2, 4, 5}
      BY DEF DP, PCP, TP
    <2> HIDE DEF q, t, size, axes
    <2>6. AreClasses(Rows(t, size), Classes(dims, axes))
      BY <1>1, <2>2, <2>4, <2>5, StageGroups
    <2> QED
      BY <2>1, <2>3, <2>6 DEF t, dims, size
  <1> QED
    BY <1>2, <1>3, <1>4, <1>5, <1>6 DEF VllmSlots

\* Code: the transpositions and chunks the groups are created from, and what collectives
\* over them are used for.
THEOREM LayoutIsFollowed == Spec => []GroupsFollowLayout
  <1>1. CreatedInv => GroupsFollowLayout
    <2> SUFFICES ASSUME CreatedInv, NEW name, MayExist(name)
                 PROVE  /\ name \in (VllmSlots \ {"DCP"}) \cup {"MC2", "DYNAMIC_EPLB", "FC3_QUANT_X"} =>
                              AreClasses(RowsOf(name), Classes(DimsOf(name), AxesOf(name)))
                        /\ name \in {"DCP", "P_TP", "FLASHCOMM2_OTP", "FLASHCOMM2_ODP"} =>
                              RowsWithin(DimsOf(name), RowsOf(name))
      BY DEF CreatedInv, GroupsFollowLayout, AliveNames, RowsWithin
    <2>1. config \in Configs
      BY DEF CreatedInv
    <2>2. ToSet(FineGrained) = {"OTP", "LMTP", "EMBED_TP", "MLP_TP"}
      BY DEF ToSet, FineGrained
    <2>3. CASE name \in VllmSlots \ {"DCP"}
      <3>1. RowsOf(name) = VllmRows(config, name)
        BY <2>2, <2>3 DEF RowsOf, VllmSlots
      <3>2. name \notin {"DCP", "P_TP", "FLASHCOMM2_OTP", "FLASHCOMM2_ODP"}
        BY <2>3 DEF VllmSlots
      <3> QED
        BY <2>1, <2>3, <3>1, <3>2, VllmLayout
    <2>4. CASE name \in {"MC2", "DYNAMIC_EPLB", "FC3_QUANT_X"}
      <3>1. /\ RowsOf(name) = VllmRows(config, "EP")
            /\ DimsOf(name) = config.dims /\ DimsOf("EP") = config.dims
            /\ AxesOf(name) = AxesOf("EP")
        BY <2>2, <2>4 DEF RowsOf, VllmSlots, DimsOf, AxesOf
      <3>2. "EP" \in VllmSlots \ {"DCP"}
        BY DEF VllmSlots
      <3> QED
        BY <2>1, <2>4, <3>1, <3>2, VllmLayout
    <2>5. CASE name = "DCP"
      <3>1. RowsOf(name) = VllmRows(config, "DCP")
        BY <2>2, <2>5 DEF RowsOf, VllmSlots
      <3> QED
        BY <2>1, <2>5, <3>1, DecodeWithin
    <2>6. CASE name = "P_TP"
      <3>1. RowsOf(name) = Rows(PTpOrder(config), PTpSize(config)) /\ DimsOf(name) = config.dims
        BY <2>2, <2>6 DEF RowsOf, VllmSlots, DimsOf
      <3>2. config.pd_head_producer
        BY <2>6 DEF MayExist
      <3> QED
        BY <2>1, <2>6, <3>1, <3>2, HeadsWithin DEF VllmSlots
    <2>7. CASE name \in {"FLASHCOMM2_OTP", "FLASHCOMM2_ODP"}
      <3> DEFINE rows == config.dims[TP] \div config.flashcomm2
      <3>1. config.flashcomm2 > 1
        BY <2>7 DEF MayExist
      <3>2. /\ config.dims \in Dims /\ config.dims[EXT] = 1 /\ config.dims[PCP] = 1
            /\ config.flashcomm2 \in Nat \ {0} /\ config.dims[TP] % config.flashcomm2 = 0
        BY <2>1, <3>1, ConfigsAssumption DEF Dims
      <3>3. IsGrid(config, rows)
        BY <3>2 DEF IsGrid
      <3>4. rows # 0
        <4>1. config.dims[TP] \in Nat \ {0}
          BY <3>2, ProductPositive DEF TP
        <4> QED
          BY <3>2, <4>1, Divisor
      <3> HIDE DEF rows
      <3>5. /\ RowsWithin(config.dims, FlashComm2OtpRows(config))
            /\ RowsWithin(config.dims, FlashComm2OdpRows(config))
        BY <3>3, <3>4, GridWithin
      <3>6. /\ DimsOf(name) = config.dims
            /\ name = "FLASHCOMM2_OTP" => RowsOf(name) = FlashComm2OtpRows(config)
            /\ name = "FLASHCOMM2_ODP" => RowsOf(name) = FlashComm2OdpRows(config)
        BY <2>2, <2>7 DEF RowsOf, VllmSlots, DimsOf
      <3> QED
        BY <2>7, <3>5, <3>6 DEF VllmSlots
    <2> QED
      BY <2>3, <2>4, <2>5, <2>6, <2>7
  <1> QED
    BY <1>1, CreatedAsConfigured, PTL

===============================================================================
