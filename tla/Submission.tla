----------------------------- MODULE Submission ------------------------------
(***************************************************************************)
(* How the chain client submits a signed call and decides what became of   *)
(* it (chain/real.rs, chain/watch.rs, chain/submit.rs): read the account's *)
(* nonce, sign, submit to the first validator, watch the status stream to  *)
(* the block that includes the extrinsic, and read back at that block the  *)
(* storage entry the call should have written. Sessions and the feeder     *)
(* make calls at the same time with one signing account.                   *)
(*                                                                         *)
(* The chain is external and modelled from the calls made to it: a pool    *)
(* that may forget an extrinsic at one node and keep it at another, blocks *)
(* that may be retracted, and a rival miner. Blocks without an extrinsic   *)
(* of ours change nothing here and are left out.                           *)
(***************************************************************************)
EXTENDS Naturals, Sequences, FiniteSets, SequencesExt

CONSTANTS
  Calls,      \* calls of submit_signed_call
  Mixes,      \* assignments of kinds to calls
  MaxForks    \* bound: blocks retracted

\* Each "solution" answers an order of its own.
\* "entry" stands for the calls confirmed by the presence of an entry: register_miner,
\* register_solver, set_descriptor and participate.
Kinds == {"proof", "solution", "entry"}

ASSUME SubmissionConstants ==
  /\ IsFiniteSet(Calls)
  /\ Mixes \subseteq [Calls -> Kinds]
  /\ MaxForks \in Nat

VARIABLES
  \* the client, per call
  kind,     \* which call it is
  stage,    \* "idle", "signed", "watching", "confirming" or "done"
  nonce,    \* account nonce it was signed with
  at,       \* block named by its InBlock or Finalized status: {} or one
  verdict,  \* what the caller is told, "none" before
  \* the chain
  blocks,   \* best chain
  retracted,  \* blocks no longer on it: still readable by hash
  pool,     \* extrinsics some node may still include
  dropped   \* extrinsics the first validator's pool gave up

chainVars == <<blocks, retracted, pool, dropped>>
vars == <<kind, stage, nonce, at, verdict, chainVars>>

\* What a block does: our extrinsics in it, those whose dispatch succeeded, who holds
\* its qblock, and whether the entry is stored at its end.
Block == [txs : Seq(Calls), ok : SUBSET Calls, winner : {"none", "us", "rival"},
          stored : BOOLEAN, fork : Nat]

Included(c) == \E i \in DOMAIN blocks : Contains(blocks[i].txs, c)

\* Every extrinsic on the best chain spent one nonce.
account_nonce == Cardinality({c \in Calls : Included(c)})

Stored == blocks # <<>> /\ Last(blocks).stored

\* The first nonce that neither the chain nor the pool uses.
NextIndex ==
  CHOOSE n \in account_nonce .. account_nonce + Cardinality(pool) :
    /\ \A c \in pool : nonce[c] # n
    /\ \A k \in account_nonce .. n - 1 : \E c \in pool : nonce[c] = k
-----------------------------------------------------------------------------
(***************************************************************************)
(* What the caller is told: submit_proof, submit_solution and the calls    *)
(* that file an entry                                                      *)
(***************************************************************************)

\* Invalid: refused by the pool. The node's message names no pallet error, so
\* classify_receipt takes it as fatal and classify_registration and its like as
\* an error.
OnInvalid(c) == IF kind[c] = "entry" THEN "Err" ELSE "StopFatal"

DroppedIsFatal(c) == OnInvalid(c)

\* Dropped before inclusion.
OnDropped(c) == IF kind[c] = "entry" THEN "Err" ELSE "Retry"

WinOfAnybody(c, b) ==
  IF kind[c] = "proof" THEN b.winner # "none"
  ELSE IF kind[c] = "solution" THEN c \in b.ok ELSE b.stored

\* confirmation_present at the inclusion block: the qblock is ours; the solution
\* carries this block's number; the entry is there.
confirmation_present(c, b) ==
  IF kind[c] = "proof" THEN b.winner = "us"
  ELSE IF kind[c] = "solution" THEN c \in b.ok ELSE b.stored

\* Included, and the write is absent. Only a proof can have lost a race, and the
\* client has to read the winner once more to know (`read`).
OnDispatchFailed(c, b, read) ==
  IF kind[c] = "proof" /\ read /\ b.winner = "rival" THEN "StopRoundStale"
  ELSE OnInvalid(c)

\* confirm_in_block, when its reads succeed: classify_state_outcome.
Outcome(c, b, read) ==
  IF ~Contains(b.txs, c) THEN OnDropped(c)
  ELSE IF confirmation_present(c, b) THEN "Success"
  ELSE OnDispatchFailed(c, b, read)
-----------------------------------------------------------------------------
Init ==
  /\ kind \in Mixes
  /\ stage = [c \in Calls |-> "idle"]
  /\ nonce = [c \in Calls |-> 0]
  /\ at = [c \in Calls |-> {}]
  /\ verdict = [c \in Calls |-> "none"]
  /\ blocks = <<>> /\ retracted = {} /\ pool = {} /\ dropped = {}

(***************************************************************************)
(* The client                                                              *)
(***************************************************************************)

Return(c, v) ==
  /\ stage' = [stage EXCEPT ![c] = "done"]
  /\ verdict' = [verdict EXCEPT ![c] = v]

\* ensure_miner_registered and ensure_solver_registered read the entry at the head
\* first; file_descriptor and declare_participation do not.
AlreadyStored(c) ==
  /\ stage[c] = "idle"
  /\ kind[c] = "entry" /\ Stored
  /\ Return(c, "Success")
  /\ UNCHANGED <<kind, nonce, at, chainVars>>

\* signed_extension_context: system_accountNextIndex, answered by the first
\* validator that responds. Another one may not have seen the pool's extrinsics.
ReadNonce(c) ==
  /\ stage[c] = "idle"
  /\ stage' = [stage EXCEPT ![c] = "signed"]
  /\ \E n \in account_nonce .. NextIndex : nonce' = [nonce EXCEPT ![c] = n]
  /\ UNCHANGED <<kind, at, verdict, chainVars>>

\* Whether the pool takes the extrinsic: its nonce is not spent and no pending
\* extrinsic of the account has it.
Acceptable(c) ==
  /\ nonce[c] >= account_nonce
  /\ \A d \in pool \ dropped : nonce[d] # nonce[c]

\* author_submitAndWatchExtrinsic on the first validator: taken, or refused with
\* a JSON-RPC error.
Submit(c) ==
  /\ stage[c] = "signed"
  /\ \/ /\ Acceptable(c)
        /\ pool' = pool \union {c}
        /\ stage' = [stage EXCEPT ![c] = "watching"]
        /\ UNCHANGED verdict
     \/ /\ ~Acceptable(c)
        /\ Return(c, OnInvalid(c))
        /\ UNCHANGED pool
  /\ UNCHANGED <<kind, nonce, at, blocks, retracted, dropped>>

\* A missing key, snapshot or salt, a read that fails, or a transport error of the
\* submit, before or after the node took the extrinsic.
SubmitFails(c) ==
  /\ stage[c] \in {"idle", "signed"}
  /\ Return(c, "Err")
  /\ \/ UNCHANGED pool
     \/ stage[c] = "signed" /\ Acceptable(c) /\ pool' = pool \union {c}
  /\ UNCHANGED <<kind, nonce, at, blocks, retracted, dropped>>

\* The status stream names the block that includes the extrinsic. Best blocks
\* count, and the block may be off the best chain when the status is read.
InBlock(c) ==
  /\ stage[c] = "watching"
  /\ \E b \in ToSet(blocks) \union retracted :
       Contains(b.txs, c) /\ at' = [at EXCEPT ![c] = {b}]
  /\ stage' = [stage EXCEPT ![c] = "confirming"]
  /\ UNCHANGED <<kind, nonce, verdict, chainVars>>

WaitsThrough(c) == FALSE

\* The pool's last word on an extrinsic that was not included, an object in the
\* status stream: dropped, usurped, retracted or timed out.
GivenUp(c) == c \in dropped

\* Invalid: its nonce was spent by another extrinsic.
Overtaken(c) == c \notin pool /\ ~Included(c) /\ nonce[c] < account_nonce

Terminal(c) ==
  /\ stage[c] = "watching"
  /\ \/ GivenUp(c) /\ Return(c, OnDropped(c))
     \/ Overtaken(c) /\ Return(c, OnInvalid(c))
  /\ UNCHANGED <<kind, nonce, at, chainVars>>

\* The stream ends or fails, or a read that follows does. Ready, Broadcast, Future
\* and unknown statuses change nothing; "dropped" and "invalid" sent as bare strings
\* are unknown, and the end of the stream follows them.
StreamFails(c) ==
  /\ stage[c] \in {"watching", "confirming"}
  /\ Return(c, "Err")
  /\ UNCHANGED <<kind, nonce, at, chainVars>>

confirm_in_block(c, read) ==
  /\ stage[c] = "confirming"
  /\ \E b \in at[c] : Return(c, Outcome(c, b, read))
  /\ UNCHANGED <<kind, nonce, at, chainVars>>

(***************************************************************************)
(* The chain                                                               *)
(***************************************************************************)

\* Our extrinsics a block may hold: consecutive nonces from the account's.
Executable ==
  {s \in UNION {[1 .. n -> pool] : n \in 0 .. Cardinality(pool)} :
     \A i \in DOMAIN s : nonce[s[i]] = account_nonce + i - 1}

\* Position of our first proof in s that the pallet does not refuse: {} or one.
FirstProof(s, refused) ==
  LET proofs == {i \in DOMAIN s : kind[s[i]] = "proof" /\ s[i] \notin refused}
  IN  {i \in proofs : \A k \in proofs : i <= k}

\* A block: our extrinsics `s`, those the pallets have `refused` (gates, a root that
\* moved, an order that closed), and the rival's winning proof ahead of ours if
\* `rival`. Of several proofs the first one wins.
MakeBlock(s, refused, rival) ==
  /\ s # <<>>
  /\ LET won    == IF rival THEN {} ELSE {s[i] : i \in FirstProof(s, refused)}
         others == {c \in ToSet(s) \ refused : kind[c] # "proof"}
         filed  == {c \in others : kind[c] = "entry"}
     IN  blocks' = Append(blocks,
           [txs |-> s, ok |-> won \union others,
            winner |-> IF rival THEN "rival" ELSE IF won # {} THEN "us" ELSE "none",
            stored |-> Stored \/ filed # {}, fork |-> Cardinality(retracted)])
  /\ pool' = pool \ ToSet(s)
  /\ UNCHANGED <<kind, stage, nonce, at, verdict, retracted, dropped>>

\* A reorganisation: the best block's extrinsics are pending again.
Retract ==
  /\ blocks # <<>>
  /\ Cardinality(retracted) < MaxForks
  /\ blocks' = Front(blocks)
  /\ retracted' = retracted \union {Last(blocks)}
  /\ pool' = pool \union ToSet(Last(blocks).txs)
  /\ UNCHANGED <<kind, stage, nonce, at, verdict, dropped>>

\* The first validator's pool gives an extrinsic up; others may keep it.
PoolDrops(c) ==
  /\ c \in pool
  /\ c \notin dropped
  /\ dropped' = dropped \union {c}
  /\ \/ UNCHANGED pool
     \/ pool' = pool \ {c}
  /\ UNCHANGED <<kind, stage, nonce, at, verdict, blocks, retracted>>

\* A pending extrinsic whose nonce is spent is removed.
PoolExpires(c) ==
  /\ c \in pool /\ nonce[c] < account_nonce
  /\ pool' = pool \ {c}
  /\ UNCHANGED <<kind, stage, nonce, at, verdict, blocks, retracted, dropped>>
-----------------------------------------------------------------------------
ClientStep(c) ==
  \/ AlreadyStored(c) \/ ReadNonce(c)
  \/ Submit(c) \/ SubmitFails(c)
  \/ InBlock(c) \/ Terminal(c) \/ StreamFails(c)
  \/ \E read \in BOOLEAN : confirm_in_block(c, read)

\* A block that holds c.
Includes(c) ==
  \E s \in Executable : \E refused \in SUBSET ToSet(s), rival \in BOOLEAN :
    Contains(s, c) /\ MakeBlock(s, refused, rival)

ChainStep ==
  \/ \E s \in Executable : \E refused \in SUBSET ToSet(s), rival \in BOOLEAN :
       MakeBlock(s, refused, rival)
  \/ Retract
  \/ \E c \in pool : PoolDrops(c) \/ PoolExpires(c)

Next == ChainStep \/ \E c \in Calls : ClientStep(c)

Spec == Init /\ [][Next]_vars

(***************************************************************************)
(* The client's tasks run and its reads return, block makers include what  *)
(* they can execute, and a node reports what it did with an extrinsic.     *)
(***************************************************************************)
Fairness ==
  \A c \in Calls :
    /\ WF_vars(InBlock(c)) /\ WF_vars(Terminal(c))
    /\ WF_vars(\E read \in BOOLEAN : confirm_in_block(c, read))
    /\ WF_vars(Includes(c)) /\ WF_vars(PoolExpires(c))

FairSpec == Spec /\ Fairness
-----------------------------------------------------------------------------
(***************************************************************************)
(* Properties                                                              *)
(***************************************************************************)

\* The state has its shape: no nonce is spent twice, and a call that files an
\* entry is told success or an error, never a verdict on a proof.
TypeOK ==
  /\ kind \in Mixes
  /\ stage \in [Calls -> {"idle", "signed", "watching", "confirming", "done"}]
  /\ nonce \in [Calls -> Nat]
  /\ blocks \in Seq(Block) /\ retracted \subseteq Block
  /\ \A c \in Calls : Cardinality(at[c]) <= 1 /\ at[c] \subseteq Block
  /\ pool \subseteq Calls /\ dropped \subseteq Calls
  /\ \A c, d \in Calls : Included(c) /\ Included(d) /\ c # d => nonce[c] # nonce[d]
  /\ \A c \in Calls :
       verdict[c] \in IF kind[c] = "entry" THEN {"none", "Success", "Err"}
                     ELSE {"none", "Success", "Retry", "StopRoundStale", "StopFatal", "Err"}

\* The block a call was judged at is still on the best chain.
JudgedHere(c) == at[c] # {} /\ at[c] \subseteq ToSet(blocks)

\* The state keeps its shape, and a success is ours: unless its block was retracted, the chain holds what the
\* caller was told, a qblock won by one of our proofs, this very solution, or
\* the entry. A rival's win in the same block is not claimed (proof_win_at).
SuccessIsOurs ==
  /\ TypeOK
  /\ \A c \in Calls : verdict[c] = "Success" /\ JudgedHere(c) =>
       CASE kind[c] = "proof"    -> \E b \in at[c] : \E d \in b.ok : kind[d] = "proof"
         [] kind[c] = "solution" -> \E b \in at[c] : c \in b.ok
         [] kind[c] = "entry"    -> Stored

\* A win is never disowned: a call told to stop for good (StopRoundStale or
\* StopFatal) did not succeed and never will, whichever node still held its
\* extrinsic, unless it was judged at a block that was retracted.
NoWinDisowned ==
  \A c \in Calls :
    verdict[c] \in {"StopRoundStale", "StopFatal"} /\ (at[c] # {} => JudgedHere(c)) =>
      \A i \in DOMAIN blocks : c \notin blocks[i].ok

\* A nonce before the call's is neither spent nor pending.
Gap(c) == \E n \in account_nonce .. nonce[c] - 1 : \A d \in pool : nonce[d] # n

\* A call that is watched returns, unless a nonce before its own is missing:
\* the status stream has no timeout, so an extrinsic in the future queue is
\* waited for as long as the gap lasts.
CallReturns == \A c \in Calls : stage[c] = "watching" ~> (stage[c] = "done" \/ Gap(c))
=============================================================================
