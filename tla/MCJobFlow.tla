------------------------------ MODULE MCJobFlow ------------------------------
(***************************************************************************)
(* Two miners, one order, two envelopes: one takes everything and leases,  *)
(* one takes only plain samples, and under the graph "wide" no orders.     *)
(***************************************************************************)
EXTENDS Intake

MCFits == [e \in Envelopes |->
             [t \in Topologies |->
                IF e = "full" THEN Classes
                ELSE IF t = "base" THEN {"sample", "order"} ELSE {"sample"}]]

\* two validators at the blocks 2 and 3 of one chain
MCHeads == {<<3, 3>>, <<2, 3>>, <<3, 2>>}

Order(created, deadline, first, wait, mode) ==
  [decodes |-> TRUE, status |-> "Opened", created_at |-> created, deadline_blocks |-> deadline,
   first_solution_at |-> first, block_wait |-> wait, mode |-> mode]
Open == [kind |-> "Open"]
Bid(miners, types) == [kind |-> "Bid", miners |-> miners, miner_types |-> types]

\* open for long, expiring at 3, cut short to 3 by a first solution, past u32, for
\* this account, for GPUs, for nobody, closed, and of an unknown layout
MCOrders ==
  {Order(1, 4, {}, 0, Open), Order(0, 3, {}, 0, Open), Order(0, 5, {1}, 2, Open),
   Order(2, 5, {1}, 9, Open), Order(1, 4, {}, 0, Bid({"me"}, {})),
   Order(1, 4, {}, 0, Bid({}, {"Gpu"})), Order(1, 4, {}, 0, Bid({}, {})),
   [Order(1, 4, {}, 0, Open) EXCEPT !.status = "Closed"],
   [Order(1, 4, {}, 0, Open) EXCEPT !.decodes = FALSE]}

MCKeys == <<[order |-> TRUE, id |-> 2], [order |-> FALSE, id |-> 1], [order |-> TRUE, id |-> 3],
            [order |-> TRUE, id |-> 1]>>

\* order 1 is removed or proposed between the blocks, order 2 does not change
MCChains ==
  {[heads |-> heads, keys |-> (2 :> MCKeys) @@ (3 :> MCKeys),
    orders |-> (2 :> <<{}, {o}, {p}>>) @@ (3 :> <<{p}, {o}, {}>>),
    solver |-> (2 :> {}) @@ (3 :> {"Cpu"})] :
   heads \in MCHeads, o, p \in MCOrders}

\* everyone answers, one call is answered by some, or the head by one and the rest by the other
MCOutages ==
  LET all == [c \in Calls |-> {1, 2}] IN
  {all} \union {[all EXCEPT ![c] = s] : c \in Calls, s \in SUBSET {1, 2}}
        \union {[c \in Calls |-> IF c = "head" THEN {v} ELSE {3 - v}] : v \in {1, 2}}

MCRuntimes ==
  <<[spec_version |-> 1, transaction_version |-> 1, genesis_hash |-> "quip"],
    [spec_version |-> 2, transaction_version |-> 1, genesis_hash |-> "quip"]>>

\* what this client signs under each runtime, with any one part changed
MCPoolEntries ==
  LET call == [name |-> "submit_proof", proof |-> 1]
      ours == {build_hybrid_signed_extrinsic(k, call, 0, MCRuntimes[n]) :
                 k \in {"me", "rival"}, n \in DOMAIN MCRuntimes}
  IN  UNION {{e, [e EXCEPT !.framed = FALSE], [e EXCEPT !.version = "unsigned"],
              [e EXCEPT !.address = "Index"], [e EXCEPT !.account = "me"],
              [e EXCEPT !.extra.era = "mortal"], [e EXCEPT !.extra.mode = "enabled"],
              [e EXCEPT !.extra.mode = "unknown"], [e EXCEPT !.call.name = "other"],
              [e EXCEPT !.call.proof = 2], [e EXCEPT !.rest = TRUE]} : e \in ours}
=============================================================================
