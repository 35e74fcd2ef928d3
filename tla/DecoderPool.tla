------------------------------ MODULE DecoderPool ------------------------------
(***************************************************************************)
(* The decoders of the load-balance proxy: the tokens it counts for each   *)
(* of them and the heap it chooses the next one from.                      *)
(***************************************************************************)
EXTENDS ProxyHeap

CONSTANTS
    Requests,                 \* request ids
    NumDecoders,
    DecodeScore               \* per request, from its length

ASSUME PoolAssumption ==
    /\ NumDecoders \in Nat \ {0}
    /\ DecodeScore \in [Requests -> Nat \ {0}]

Decoders == 1 .. NumDecoders

VARIABLES
    active_tokens,            \* per decoder
    decoder_heap

decodeVars == <<active_tokens, decoder_heap>>

PoolInit ==
    /\ active_tokens = [d \in Decoders |-> 0]
    /\ decoder_heap = InitialHeap(NumDecoders)

\* select_decoder()
SelectDecoder(d, r) ==
    /\ d = Chosen(decoder_heap)
    /\ active_tokens' = [active_tokens EXCEPT ![d] = @ + DecodeScore[r]]
    /\ decoder_heap' = UpdatePriority(HeapPop(decoder_heap), d, active_tokens[d] + DecodeScore[r])

\* release_decoder()
ReleaseDecoder(d, r) ==
    /\ active_tokens' = [active_tokens EXCEPT ![d] = @ - DecodeScore[r]]
    /\ decoder_heap' = UpdatePriority(decoder_heap, d, active_tokens[d] - DecodeScore[r])

-------------------------------------------------------------------------------
(* Properties *)

\* The comment at 156: a lower score means a higher priority, so that the decoder
\* selected next is one with the least tokens.
LeastLoadedIsNext ==
    \A d \in Decoders : active_tokens[Chosen(decoder_heap)] <= active_tokens[d]

===============================================================================
