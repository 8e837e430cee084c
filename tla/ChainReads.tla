----------------------------- MODULE ChainReads -----------------------------
(***************************************************************************)
(* What the live client makes of a chain it reads through several          *)
(* validators (chain/real.rs): calls that fail over in order, the paged    *)
(* walk over the open orders and who may answer them (chain/orders.rs,     *)
(* mempool.rs), the pending proofs of the transaction pool and whose       *)
(* signature is believed (chain/pool.rs, extrinsic.rs), and its caches.    *)
(*                                                                         *)
(* A block is its number. Every answer pinned to a block is the same from  *)
(* each validator that has the block; one that lacks it fails the call.    *)
(* Options are sets of at most one element. An absent filter of a bid      *)
(* admits nobody, as an empty one does.                                    *)
(***************************************************************************)
EXTENDS Naturals, Sequences, FiniteSets, SequencesExt

CONSTANTS
  Chains,     \* [heads, keys, orders, solver]: best block per validator, state per block
  PageSizes,  \* sizes ORDER_PAGE_SIZE may take
  Outages,    \* [Calls -> sets of validators that answer]
  MaxBlock,   \* u32::MAX, scaled down
  Me,         \* the coordinator's account
  SolverTypes,
  Runtimes,   \* the runtime contexts of the chain, oldest first
  PoolEntries,\* what the pool may hold
  Hashes      \* topology hashes

Calls == {"head", "keys", "more", "header", "storage", "solver"}

AtMostOneOf(S) == \A x, y \in S : x = y

\* What the chain stores of an order; a layout this client does not know decodes to nothing.
IsOrder(o) ==
  /\ o.decodes \in BOOLEAN
  /\ {o.created_at, o.deadline_blocks, o.block_wait} \subseteq Nat
  /\ o.first_solution_at \subseteq Nat /\ AtMostOneOf(o.first_solution_at)
  /\ o.mode.kind \in {"Open", "Bid"}

\* A block holds each key once, and at most one order under a key.
IsState(keys, orders) ==
  /\ keys \in Seq([order : BOOLEAN, id : DOMAIN orders])
  /\ \A i, k \in DOMAIN keys : keys[i].order /\ keys[k].order /\ keys[i].id = keys[k].id => i = k
  /\ \A id \in DOMAIN orders : AtMostOneOf(orders[id]) /\ \A o \in orders[id] : IsOrder(o)

\* Every validator is at a block below u32::MAX whose state the chain has.
IsChain(C) ==
  /\ DOMAIN C.heads \subseteq Nat
  /\ \A v \in DOMAIN C.heads :
       /\ C.heads[v] \in 0 .. MaxBlock - 1
       /\ C.heads[v] \in DOMAIN C.keys \intersect DOMAIN C.orders
       /\ IsState(C.keys[C.heads[v]], C.orders[C.heads[v]])

ASSUME ChainReadsAssumption ==
  /\ PageSizes \subseteq Nat \ {0} /\ MaxBlock \in Nat
  /\ \A C \in Chains : IsChain(C) /\ Outages \subseteq [Calls -> SUBSET DOMAIN C.heads]

\* A runtime upgrade changes the spec version.
ASSUME RuntimesAssumption ==
  /\ Runtimes \in Seq(ToSet(Runtimes))
  /\ \A i, k \in DOMAIN Runtimes :
       Runtimes[i].spec_version = Runtimes[k].spec_version => Runtimes[i] = Runtimes[k]

BLOCK_TIME_ESTIMATE_MS == 6000

Failed == [failed |-> TRUE]
Ok(value) == [ok |-> value]
-----------------------------------------------------------------------------
(***************************************************************************)
(* Calls and pinned reads                                                  *)
(***************************************************************************)

\* the first validator in order that answers
rpc_call(answers) ==
  LET ok == {v \in DOMAIN answers : answers[v] # Failed} IN
  IF ok = {} THEN Failed ELSE answers[Min(ok)]

best_block(C, up) ==
  rpc_call([v \in DOMAIN C.heads |-> IF v \in up["head"] THEN Ok(C.heads[v]) ELSE Failed])

\* a read at the validator's own best block instead of the one the walk began at
UnpinnedRead(C, up, call, b, map) ==
  rpc_call([v \in DOMAIN C.heads |-> IF v \in up[call] THEN Ok(map[C.heads[v]]) ELSE Failed])

\* read_storage and the other calls that name block b; `map` holds one value per block
read_storage(C, up, call, b, map) ==
  rpc_call([v \in DOMAIN C.heads |->
              IF v \in up[call] /\ b <= C.heads[v] THEN Ok(map[b]) ELSE Failed])

\* The type the account registered as; a type once read is kept.
registered_solver_type(C, up, b, cached) ==
  IF cached # {} THEN Ok(cached) ELSE read_storage(C, up, "solver", b, C.solver)
-----------------------------------------------------------------------------
(***************************************************************************)
(* Mempool orders                                                          *)
(***************************************************************************)

\* state_getKeysPaged: at most `size` keys, after the start key
KeysPaged(keys, size, start) == SubSeq(keys, start + 1, Min({start + size, Len(keys)}))

\* The walk resumes at a page's last key, and a page that is not full ends it.
order_keys(C, up, b, size) ==
  LET keys == C.keys[b]
      walk[start \in 0 .. Len(keys)] ==
        LET got == read_storage(C, up, IF start = 0 THEN "keys" ELSE "more", b,
                                [n \in DOMAIN C.keys |-> KeysPaged(keys, size, start)])
            rest == walk[start + size]
        IN  IF got = Failed THEN Failed
            ELSE IF Len(got.ok) < size THEN got
            ELSE IF rest = Failed THEN Failed ELSE Ok(got.ok \o rest.ok)
  IN  walk[0]

\* a key of another length under the map's prefix is no order
order_id_from_key(key) == IF key.order THEN {key.id} ELSE {}

SaturatingAdd(a, b) == Min({a + b, MaxBlock})

order_deadline_ms(order, head, now_ms) ==
  LET hard == SaturatingAdd(order.created_at, order.deadline_blocks)
      expiry == Min({hard} \union
                    {SaturatingAdd(first, order.block_wait) : first \in order.first_solution_at})
  IN  IF expiry > head THEN {now_ms + (expiry - head) * BLOCK_TIME_ESTIMATE_MS} ELSE {}

is_eligible_for(mode, account, solver_type) ==
  \/ mode.kind = "Open"
  \/ mode.kind = "Bid" /\ (account \in mode.miners \/ solver_type \in mode.miner_types)

\* One order of the walk: taken with its deadline, left out, or the end of the read.
Visit(C, up, b, cached, id, now_ms) ==
  LET stored == read_storage(C, up, "storage", b, [n \in DOMAIN C.orders |-> C.orders[n][id]])
      order == CHOOSE o \in stored.ok : TRUE
      deadline == order_deadline_ms(order, b, now_ms)
      solver == registered_solver_type(C, up, b, cached)
  IN  IF stored = Failed THEN Failed
      ELSE IF stored.ok = {} THEN Ok({})
      ELSE IF ~order.decodes THEN Failed
      ELSE IF order.status # "Opened" \/ deadline = {} THEN Ok({})
      ELSE IF order.mode.kind = "Bid" /\ solver = Failed THEN Failed
      ELSE Ok({[order_id |-> id, deadline_ms |-> d] : d \in
                 {d \in deadline : \/ order.mode.kind = "Open"
                                   \/ \E t \in solver.ok : is_eligible_for(order.mode, Me, t)}})

fetch_mempool_orders(C, up, size, cached, now_ms) ==
  LET head == best_block(C, up) IN
  IF head = Failed THEN Failed ELSE
  LET keys == order_keys(C, up, head.ok, size)
      header == read_storage(C, up, "header", head.ok, [n \in DOMAIN C.keys |-> n])
  IN  IF Failed \in {keys, header} THEN Failed ELSE
  LET seen == [i \in DOMAIN keys.ok |->
                 LET ids == order_id_from_key(keys.ok[i]) IN
                 IF ids = {} THEN Ok({})
                 ELSE Visit(C, up, header.ok, cached, CHOOSE id \in ids : TRUE, now_ms)]
  IN  IF \E i \in DOMAIN seen : seen[i] = Failed THEN Failed
      ELSE Ok(FlattenSeq([i \in DOMAIN seen |-> SetToSeq(seen[i].ok)]))
-----------------------------------------------------------------------------
(***************************************************************************)
(* Pending proofs                                                          *)
(***************************************************************************)

encode_additional(ctx) ==
  <<ctx.spec_version, ctx.transaction_version, ctx.genesis_hash, ctx.genesis_hash>>

\* era, nonce, tip and metadata-hash mode, as the coordinator emits them
encode_extra(nonce) == [era |-> "immortal", nonce |-> nonce, mode |-> "disabled"]

\* The signed bytes are their own hash.
signing_payload(call, extra, additional) == <<call, extra, additional>>

build_hybrid_signed_extrinsic(key, call, nonce, ctx) ==
  [framed |-> TRUE, version |-> "signed_v4", address |-> "Id", account |-> key, public |-> key,
   signed |-> signing_payload(call, encode_extra(nonce), encode_additional(ctx)),
   extra |-> encode_extra(nonce), call |-> call, rest |-> FALSE]

read_signed_extensions(extra) ==
  IF extra.era = "immortal" /\ extra.mode \in {"disabled", "enabled"} THEN {extra.mode} ELSE {}

signature_holds(e, mode, ctx) ==
  /\ e.public = e.account
  /\ \/ mode = "enabled"
     \/ e.signed = signing_payload(e.call, e.extra, encode_additional(ctx))

decode_pending_proof(e, ctx) ==
  {[account |-> e.account, proof |-> e.call.proof] : mode \in
     {m \in read_signed_extensions(e.extra) :
        /\ e.framed /\ e.version = "signed_v4" /\ e.address = "Id"
        /\ e.call.name = "submit_proof" /\ ~e.rest
        /\ signature_holds(e, m, ctx)}}

\* The cached context, while it has the spec version of the last snapshot.
runtime_tx_context(cached, snapshot_spec, fetched) ==
  IF \E c \in cached : c.spec_version \in snapshot_spec
  THEN CHOOSE c \in cached : TRUE ELSE fetched

fetch_pending_proofs(entries, cached, snapshot_spec, fetched) ==
  LET ctx == runtime_tx_context(cached, snapshot_spec, fetched) IN
  FlattenSeq([i \in DOMAIN entries |-> SetToSeq(decode_pending_proof(entries[i], ctx))])
-----------------------------------------------------------------------------
(***************************************************************************)
(* The topology cache: one slot, keyed by hash                             *)
(***************************************************************************)

Meta(hash) == [registered_under |-> hash]

\* QuantumPowApi_topology_meta
quantum_pow_call_by_hash(registered, hash) == IF hash \in registered THEN {Meta(hash)} ELSE {}

topology_meta(cache, registered, hash) ==
  LET cached == {c.meta : c \in {c \in cache : c.hash = hash}}
      read == quantum_pow_call_by_hash(registered, hash)
  IN  IF cached # {} THEN [meta |-> cached, cache |-> cache]
      ELSE [meta |-> read,
            cache |-> IF read = {} THEN cache ELSE {[hash |-> hash, meta |-> m] : m \in read}]

\* the operator's choice, else the chain's default
snapshot_topology_hash(chosen, default_topology) == IF chosen # {} THEN chosen ELSE default_topology

\* The snapshots of successive polls; the cache is carried from one to the next.
Polls(polls) ==
  LET after[n \in 0 .. Len(polls)] ==
        IF n = 0 THEN [meta |-> {}, cache |-> {}]
        ELSE LET before == after[n - 1].cache
                 wanted == snapshot_topology_hash(polls[n].chosen, polls[n].default) IN
             IF wanted = {} THEN [meta |-> {}, cache |-> before]
             ELSE topology_meta(before, polls[n].registered, CHOOSE h \in wanted : TRUE)
  IN  [n \in DOMAIN polls |-> after[n].meta]

\* a default that is not registered is an error
fetch_default_topology(cache, registered, default_topology) ==
  IF default_topology = {} THEN Ok({})
  ELSE LET meta == topology_meta(cache, registered, CHOOSE h \in default_topology : TRUE).meta IN
       IF meta = {} THEN Failed ELSE Ok(meta)
-----------------------------------------------------------------------------
(***************************************************************************)
(* Properties                                                              *)
(***************************************************************************)

\* The chain takes a solution to this order in a block after b.
Answerable(order, b, solver) ==
  /\ order.status = "Opened"
  /\ b < order.created_at + order.deadline_blocks
  /\ \A first \in order.first_solution_at : b < first + order.block_wait
  /\ \/ order.mode.kind = "Open"
     \/ solver # {} /\ Me \in order.mode.miners
     \/ solver \intersect order.mode.miner_types # {}

(***************************************************************************)
(* However many pages the walk takes and whichever validators fail in the  *)
(* middle of it, the orders it returns are those one block holds that the  *)
(* account may still answer at that block, each once, in key order; or the *)
(* read fails as a whole. It fails only for a call nobody answered or an   *)
(* order it cannot decode.                                                 *)
(***************************************************************************)
ReadFaithful(C, up, size, cached) ==
  LET read == fetch_mempool_orders(C, up, size, cached, 0)
      b == best_block(C, up).ok
      solver == IF cached # {} THEN cached ELSE C.solver[b]
      ids == {k.id : k \in {k \in ToSet(C.keys[b]) : k.order}}
      stored == {id \in ids : C.orders[b][id] # {}}
      place(id) == CHOOSE i \in DOMAIN C.keys[b] : C.keys[b][i].id = id /\ C.keys[b][i].order
  IN  IF read = Failed
      THEN \/ up["head"] = {}
           \/ \E call \in Calls \ {"head"} : \A v \in up[call] : C.heads[v] < b
           \/ \E id \in stored : \E o \in C.orders[b][id] : ~o.decodes
      ELSE /\ {read.ok[i].order_id : i \in DOMAIN read.ok} =
                {id \in stored : \E o \in C.orders[b][id] : Answerable(o, b, solver)}
           /\ \A i, k \in DOMAIN read.ok :
                i < k => place(read.ok[i].order_id) < place(read.ok[k].order_id)
           /\ \A i \in DOMAIN read.ok : read.ok[i].deadline_ms > 0

OrdersFaithful ==
  \A C \in Chains, up \in Outages, size \in PageSizes,
     cached \in {{}} \union {{t} : t \in SolverTypes} : ReadFaithful(C, up, size, cached)

(***************************************************************************)
(* Once the feeder has polled under the current runtime, a pending proof   *)
(* is believed just when it is a well-formed submit_proof of the account   *)
(* its key derives, signed under that runtime unless it commits to a       *)
(* metadata hash: a proof of the runtime before an upgrade is not, and     *)
(* every proof this client signs is.                                       *)
(***************************************************************************)
PendingFaithful ==
  \A now \in DOMAIN Runtimes : \A cached \in {{}} \union {{Runtimes[n]} : n \in 1 .. now} :
    \A spec \in {{}, {Runtimes[now].spec_version}}, e \in PoolEntries :
      LET believed == fetch_pending_proofs(<<e>>, cached, spec, Runtimes[now])
          mine == build_hybrid_signed_extrinsic(Me, e.call, 0, Runtimes[now])
      IN  /\ believed # <<>> =>
               /\ e.call.name = "submit_proof" /\ believed[1].account = e.public
               /\ e.extra.mode = "disabled" => e.signed[3] = encode_additional(Runtimes[now])
                                               /\ e.signed[1] = e.call
          /\ e.call.name = "submit_proof" =>
               fetch_pending_proofs(<<mine>>, cached, spec, Runtimes[now]) # <<>>

(***************************************************************************)
(* A round never mines on another round's graph: whatever hashes were      *)
(* polled before, registered late or chosen over the default, a snapshot   *)
(* carries the topology registered under its own hash, and a hash that was *)
(* absent once is looked for again.                                        *)
(***************************************************************************)
TopologyFaithful ==
  \A hashes \in [1 .. 3 -> Hashes], chosen \in [1 .. 3 -> BOOLEAN], from \in [Hashes -> 1 .. 4] :
    LET registered(n) == {h \in Hashes : from[h] <= n}
        polls == [n \in 1 .. 3 |->
                    [chosen |-> IF chosen[n] THEN {hashes[n]} ELSE {},
                     default |-> IF chosen[n] THEN Hashes \ {hashes[n]} ELSE {hashes[n]},
                     registered |-> registered(n)]]
    IN  \A n \in 1 .. 3 :
          /\ Polls(polls)[n] = {Meta(h) : h \in {hashes[n]} \intersect registered(n)}
          /\ (fetch_default_topology({}, registered(n), {hashes[n]}) = Failed)
               <=> hashes[n] \notin registered(n)

\* What the client reads is what the chain holds.
ReadsFaithful == OrdersFaithful /\ PendingFaithful /\ TopologyFaithful
=============================================================================
