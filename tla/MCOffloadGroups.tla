--------------------------- MODULE MCOffloadGroups ---------------------------
(***************************************************************************)
(* Arrangements of up to 16 ranks: external replicas, replicas, stages,    *)
(* context and tensor ranks with the plain groups; the prefill heads; the  *)
(* grids of flashcomm2 and the fine-grained groups on the shapes           *)
(* vLLM-Ascend allows them on; every combination of options on one shape.  *)
(***************************************************************************)
EXTENDS OffloadGroups

NoFineGrained == [name \in ToSet(FineGrained) |-> 0]

Plain == [dims : {<<1, 1, 1, 1, 1>>}, dcp : {1}, elastic : {FALSE}, is_moe : {TRUE},
          enable_eplb : {TRUE}, pd_head_producer : {FALSE}, pd_tp_ratio : {1},
          num_head_replica : {1}, dynamic_eplb : {FALSE}, multistream_overlap_gate : {FALSE},
          finegrained : {NoFineGrained}, flashcomm2 : {0}]

Divides(a, b) == b % a = 0

Shapes == {<<e, d, p, c, t>> : e, d, p, c \in {1, 2}, t \in {1, 2}} \cup {<<1, 2, 2, 1, 4>>, <<2, 1, 1, 2, 4>>}

Layouts == {[plain EXCEPT !.dims = dims, !.dcp = dcp, !.elastic = elastic] :
              plain \in Plain, dims \in Shapes, dcp \in {1, 2}, elastic \in BOOLEAN}

HeadShapes == {<<1, 1, 1, 1, 8>>, <<1, 2, 1, 1, 4>>, <<1, 1, 2, 2, 4>>}

HeadLayouts == {[plain EXCEPT !.dims = dims, !.pd_head_producer = TRUE,
                              !.pd_tp_ratio = ratio, !.num_head_replica = replica] :
                  plain \in Plain, dims \in HeadShapes,
                  ratio \in {1, 2, 4}, replica \in {0, 1, 2, 4}}

GridShapes == {<<1, d, p, 1, t>> : d, p \in {1, 2}, t \in {2, 4}} \cup {<<1, 4, 2, 1, 2>>}

Grids == {[plain EXCEPT !.dims = dims, !.flashcomm2 = flash,
                        !.finegrained = [NoFineGrained EXCEPT !["OTP"] = otp]] :
            plain \in Plain, dims \in GridShapes, flash \in {0, 2, 4}, otp \in {0, 1, 2, 4}}

Options == {[plain EXCEPT !.dims = <<1, 2, 1, 1, 2>>, !.is_moe = moe, !.enable_eplb = eplb,
                          !.dynamic_eplb = eplb, !.multistream_overlap_gate = moe,
                          !.flashcomm2 = flash,
                          !.finegrained = [OTP |-> otp, LMTP |-> lm, EMBED_TP |-> emb, MLP_TP |-> lm]] :
              plain \in Plain, moe, eplb \in BOOLEAN,
              flash \in {0, 1, 2}, otp, lm, emb \in {0, 1, 2}}

MCConfigs ==
    {c \in Layouts : Divides(c.dcp, c.dims[TP]) /\ (c.elastic => c.dims[EXT] = 1)}
    \cup {c \in HeadLayouts :
            /\ Divides(c.pd_tp_ratio, c.dims[TP])
            /\ c.num_head_replica > 1 => Divides(c.num_head_replica, c.pd_tp_ratio)}
    \cup {c \in Grids : /\ c.flashcomm2 > 0 => Divides(c.flashcomm2, c.dims[TP])
                        /\ c.finegrained["OTP"] > 0 => Divides(c.finegrained["OTP"], c.dims[DP])}
    \cup Options

===============================================================================
