--------------------------- MODULE LoadBalanceProxy ---------------------------
(***************************************************************************)
(* The proxy in front of the prefill and decode servers: one asyncio       *)
(* process, in which everything between two awaits is one step.            *)
(*                                                                         *)
(* A request is dispatched to a prefiller and a decoder at once.  Its      *)
(* stream then asks the prefiller for the first token, hands the result to *)
(* the decoder and passes the chunks of the decoder on.  The proxy counts  *)
(* the load it has given to each server and takes it back as the stream    *)
(* goes on; servers are chosen by these counts.                            *)
(***************************************************************************)
EXTENDS DecoderPool, FiniteSetsExt, Functions

CONSTANTS
    NumPrefillers,
    PrefillScore,             \* per request, from its length
    MaxRetries

ASSUME ProxyAssumption ==
    /\ {NumPrefillers, MaxRetries} \subseteq Nat \ {0}
    /\ PrefillScore \in [Requests -> Nat \ {0}]

Prefillers == 1 .. NumPrefillers

VARIABLES
    prefill_tokens, active_kv_cache, aborted_requests, prefiller_heap,   \* per prefiller
    stage,                    \* where the handler of a request is
    instance,                 \* the servers it was given
    attempt,                  \* of the request to the decoder
    first_chunk_sent,         \* of stream_service_response_with_retry
    released_kv,              \* the flag of generate_stream
    kv_released,              \* history: how often its KV load was taken back
    resent                    \* history: requests sent to a decoder again after a chunk

prefillVars == <<prefill_tokens, active_kv_cache, prefiller_heap>>
streamVars  == <<attempt, first_chunk_sent, released_kv>>
vars == <<prefillVars, decodeVars, streamVars, aborted_requests, stage, instance, kv_released, resent>>

Stages == {"new", "dispatched", "prefill", "decode", "streaming", "ended", "cancelled"}

Init ==
    /\ prefill_tokens = [p \in Prefillers |-> 0]
    /\ active_kv_cache = [p \in Prefillers |-> 0]
    /\ aborted_requests = [p \in Prefillers |-> {}]
    /\ prefiller_heap = InitialHeap(NumPrefillers)
    /\ PoolInit
    /\ stage = [r \in Requests |-> "new"]
    /\ instance = [r \in Requests |-> [prefiller |-> 1, decoder |-> 1]]
    /\ attempt = [r \in Requests |-> 0]
    /\ first_chunk_sent = [r \in Requests |-> FALSE]
    /\ released_kv = [r \in Requests |-> FALSE]
    /\ kv_released = [r \in Requests |-> 0]
    /\ resent = {}

MovesTo(r, next) == stage' = [stage EXCEPT ![r] = next]

-------------------------------------------------------------------------------
(* The counts *)

\* active_tokens + 0.3 * active_kv_cache, ten times
PrefillPriority(tokens, kv) == 10 * tokens + 3 * kv

\* select_prefiller() and, without an await in between, release_prefiller().
SelectAndReleasePrefiller(p, score) ==
    LET kv       == active_kv_cache[p] + score
        selected == UpdatePriority(HeapPop(prefiller_heap), p,
                                   PrefillPriority(prefill_tokens[p] + score, kv))
    IN  /\ p = Chosen(prefiller_heap)
        /\ active_kv_cache' = [active_kv_cache EXCEPT ![p] = kv]
        /\ prefiller_heap' = UpdatePriority(selected, p, PrefillPriority(prefill_tokens[p], kv))
        /\ UNCHANGED prefill_tokens

\* mutant: the guard looks at the amount and is off by one
KvAfterReleaseGuarded(kv, score) == IF kv > score THEN kv - score ELSE kv

\* The KV load of a prefiller after a release; the guard does not look at the amount.
KvAfterRelease(kv, score) == IF kv > 0 THEN kv - score ELSE kv

\* release_prefiller_kv(), n times
ReleaseKv(r, n) ==
    LET p     == instance[r].prefiller
        once  == KvAfterRelease(active_kv_cache[p], PrefillScore[r])
        kv    == IF n = 1 THEN once ELSE KvAfterRelease(once, PrefillScore[r])
        first == UpdatePriority(prefiller_heap, p, PrefillPriority(prefill_tokens[p], once))
    IN  /\ active_kv_cache' = [active_kv_cache EXCEPT ![p] = kv]
        /\ prefiller_heap' =
              IF n = 1 THEN first
              ELSE UpdatePriority(first, p, PrefillPriority(prefill_tokens[p], kv))
        /\ kv_released' = [kv_released EXCEPT ![r] = @ + n]
        /\ UNCHANGED prefill_tokens

-------------------------------------------------------------------------------
(* The handler and its stream *)

\* _handle_completions(), from the body of the request to the response object.
Dispatch(r) ==
    /\ stage[r] = "new"
    /\ \E p \in Prefillers, d \in Decoders :
        /\ SelectAndReleasePrefiller(p, PrefillScore[r])
        /\ SelectDecoder(d, r)
        /\ instance' = [instance EXCEPT ![r] = [prefiller |-> p, decoder |-> d]]
    /\ MovesTo(r, "dispatched")
    /\ UNCHANGED <<aborted_requests, streamVars, kv_released, resent>>

\* generate_stream() starts: the prefiller is told of all requests aborted so far.
AskPrefiller(r) ==
    /\ stage[r] = "dispatched"
    /\ aborted_requests' = [aborted_requests EXCEPT ![instance[r].prefiller] = {}]
    /\ MovesTo(r, "prefill")
    /\ UNCHANGED <<prefillVars, decodeVars, streamVars, instance, kv_released, resent>>

PrefillerAnswers(r) ==
    /\ stage[r] = "prefill"
    /\ attempt' = [attempt EXCEPT ![r] = 1]
    /\ MovesTo(r, "decode")
    /\ UNCHANGED <<prefillVars, decodeVars, aborted_requests, first_chunk_sent, released_kv,
                   instance, kv_released, resent>>

\* The exception handler of generate_stream() and what follows it, after n - 1
\* releases of the KV load in the same step.
Fails(r, n) ==
    /\ aborted_requests' = [aborted_requests EXCEPT ![instance[r].prefiller] = @ \cup {r}]
    /\ ReleaseKv(r, n)
    /\ ReleaseDecoder(instance[r].decoder, r)
    /\ MovesTo(r, "ended")
    /\ UNCHANGED <<instance, resent>>

PrefillerFails(r) ==
    /\ stage[r] = "prefill"
    /\ Fails(r, 1)
    /\ UNCHANGED streamVars

\* The decoder begins to answer an attempt.
DecoderAnswers(r) ==
    /\ stage[r] = "decode"
    /\ first_chunk_sent' = [first_chunk_sent EXCEPT ![r] = FALSE]
    /\ MovesTo(r, "streaming")
    /\ UNCHANGED <<prefillVars, decodeVars, aborted_requests, attempt, released_kv,
                   instance, kv_released, resent>>

\* A chunk is passed on; the first one releases the KV load.
Chunk(r) ==
    /\ stage[r] = "streaming"
    /\ first_chunk_sent' = [first_chunk_sent EXCEPT ![r] = TRUE]
    /\ released_kv' = [released_kv EXCEPT ![r] = TRUE]
    /\ IF released_kv[r] THEN UNCHANGED <<prefillVars, kv_released>> ELSE ReleaseKv(r, 1)
    /\ UNCHANGED <<decodeVars, aborted_requests, attempt, stage, instance, resent>>

\* A chunk that cannot be worked on: a recomputed one, as _handle_select_instance()
\* is called without the request id, or one without the usage it must have.
ChunkFails(r) ==
    /\ stage[r] = "streaming"
    /\ first_chunk_sent' = [first_chunk_sent EXCEPT ![r] = TRUE]
    /\ released_kv' = [released_kv EXCEPT ![r] = TRUE]
    /\ Fails(r, IF released_kv[r] THEN 1 ELSE 2)
    /\ UNCHANGED attempt

\* mutant: the tokens of the decoder are kept
EndsSilently(r) == MovesTo(r, "ended") /\ UNCHANGED decodeVars

\* The stream is over.
Ends(r) == MovesTo(r, "ended") /\ ReleaseDecoder(instance[r].decoder, r)

DecoderIsDone(r) ==
    /\ stage[r] = "streaming"
    /\ Ends(r)
    /\ UNCHANGED <<prefillVars, aborted_requests, streamVars, instance, kv_released, resent>>

\* mutant: one attempt too many
LastAttemptLate(r) == attempt[r] > MaxRetries

LastAttempt(r) == attempt[r] = MaxRetries

\* stream_service_response_with_retry(): the next attempt, or the end.
TriesAgain(r) ==
    \/ /\ ~ LastAttempt(r)
       /\ attempt' = [attempt EXCEPT ![r] = @ + 1]
       /\ resent' = IF released_kv[r] THEN resent \cup {r} ELSE resent
       /\ MovesTo(r, "decode")
       /\ UNCHANGED <<prefillVars, decodeVars, aborted_requests, instance, kv_released>>
    \/ /\ LastAttempt(r)
       /\ Fails(r, 1)
       /\ UNCHANGED attempt

\* An error of httpx, before or after the first chunk.
HttpError(r) ==
    /\ stage[r] \in {"decode", "streaming"}
    /\ TriesAgain(r)
    /\ UNCHANGED <<first_chunk_sent, released_kv>>

\* Any other error: after the first chunk the stream just ends.  The flag may be
\* that of an earlier attempt.
OtherError(r) ==
    /\ stage[r] \in {"decode", "streaming"}
    /\ \/ /\ first_chunk_sent[r]
          /\ Ends(r)
          /\ UNCHANGED <<prefillVars, aborted_requests, attempt, instance, kv_released, resent>>
       \/ /\ ~ first_chunk_sent[r]
          /\ TriesAgain(r)
    /\ UNCHANGED <<first_chunk_sent, released_kv>>

\* The client goes away: the stream is cancelled, which is no Exception.
ClientDisconnects(r) ==
    /\ stage[r] \in {"dispatched", "prefill", "decode", "streaming"}
    /\ MovesTo(r, "cancelled")
    /\ UNCHANGED <<prefillVars, decodeVars, aborted_requests, streamVars, instance, kv_released, resent>>

Next ==
    \E r \in Requests :
        \/ Dispatch(r) \/ AskPrefiller(r) \/ PrefillerAnswers(r) \/ PrefillerFails(r)
        \/ DecoderAnswers(r)
        \/ Chunk(r) \/ ChunkFails(r) \/ DecoderIsDone(r)
        \/ HttpError(r) \/ OtherError(r) \/ ClientDisconnects(r)

Spec == Init /\ [][Next]_vars

-------------------------------------------------------------------------------
(* Properties *)

\* The counts and the stages of the requests are what they should be; only the KV
\* load of a prefiller may be negative.  Code: the attributes of ServerState.
TypeOK ==
    /\ prefill_tokens \in [Prefillers -> Nat]
    /\ active_kv_cache \in [Prefillers -> Int]
    /\ aborted_requests \in [Prefillers -> SUBSET Requests]
    /\ active_tokens \in [Decoders -> Nat]
    /\ stage \in [Requests -> Stages]
    /\ instance \in [Requests -> [prefiller : Prefillers, decoder : Decoders]]
    /\ attempt \in [Requests -> 0 .. MaxRetries]
    /\ {first_chunk_sent, released_kv} \subseteq [Requests -> BOOLEAN]
    /\ kv_released \in [Requests -> 0 .. 2]
    /\ resent \subseteq Requests

Dispatched == {r \in Requests : stage[r] # "new"}

ScoreSum(score, reqs) == FoldFunctionOnSet(+, 0, score, reqs)

\* The tokens counted for a decoder are those of the requests it was given that
\* have not ended: through retries, errors and recomputation every request gives
\* its tokens back once.  A cancelled request keeps them for ever.
\* Code: select_decoder in the handler, release_decoder at the end of the stream.
DecoderTokensExact ==
    \A d \in Decoders :
        active_tokens[d] = ScoreSum(DecodeScore,
            {r \in Dispatched : instance[r].decoder = d /\ stage[r] # "ended"})

\* The KV load counted for a prefiller is that of the requests it was given that
\* have not released theirs, until one of them fails after its first chunk.
\* Code: release_prefiller_kv with the first chunk and again in the handler.
KvExactUntilReleasedTwice ==
    \A p \in Prefillers :
        LET mine == {r \in Dispatched : instance[r].prefiller = p}
        IN  (\A r \in mine : kv_released[r] <= 1) =>
                active_kv_cache[p] = ScoreSum(PrefillScore, {r \in mine : kv_released[r] = 0})

\* The heaps have one entry per server, with the counts as they are.
\* Code: every change of a count is followed by an update of the priority.
HeapsMirrorCounts ==
    /\ HeapMirrors(decoder_heap, active_tokens)
    /\ HeapMirrors(prefiller_heap,
           [p \in Prefillers |-> PrefillPriority(prefill_tokens[p], active_kv_cache[p])])

\* The comment at 461: if any chunk has been sent, do not retry.
NoRetryAfterChunk == resent = {}

===============================================================================
