----------------------------- MODULE MCDecoderPool -----------------------------
(* Requests of four lengths come and go; each has a decoder while it is there. *)
EXTENDS DecoderPool, TLC

CONSTANTS a, b, c, d

VARIABLE decoder_of           \* 0 for a request that is not there

MCDecodeScore == (a :> 1) @@ (b :> 2) @@ (c :> 3) @@ (d :> 4)

PoolSpec ==
    /\ PoolInit /\ decoder_of = [r \in Requests |-> 0]
    /\ [][\E r \in Requests, s \in Decoders :
            \/ /\ decoder_of[r] = 0
               /\ SelectDecoder(s, r)
               /\ decoder_of' = [decoder_of EXCEPT ![r] = s]
            \/ /\ decoder_of[r] = s
               /\ ReleaseDecoder(s, r)
               /\ decoder_of' = [decoder_of EXCEPT ![r] = 0]]_<<decodeVars, decoder_of>>

===============================================================================
