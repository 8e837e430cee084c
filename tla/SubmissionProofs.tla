-------------------------- MODULE SubmissionProofs ---------------------------
(***************************************************************************)
(* What a caller is told about a call it submitted (Submission), for any   *)
(* number of calls of any kinds and any number of reorganisations.         *)
(***************************************************************************)
EXTENDS Submission, FiniteSetTheorems, SequenceTheorems, FunctionTheorems, TLAPS

Verdicts == {"none", "Success", "Retry", "StopRoundStale", "StopFatal", "Err"}

Stops == {"StopRoundStale", "StopFatal"}

Typed ==
  /\ kind \in Mixes
  /\ stage \in [Calls -> {"idle", "signed", "watching", "confirming", "done"}]
  /\ nonce \in [Calls -> Nat]
  /\ blocks \in Seq(Block)
  /\ retracted \subseteq Block /\ IsFiniteSet(retracted)
  /\ at \in [Calls -> SUBSET Block]
  /\ \A c \in Calls : at[c] = {} \/ \E b \in Block : at[c] = {b}
  /\ pool \subseteq Calls /\ dropped \subseteq Calls
  /\ verdict \in [Calls -> Verdicts]
  /\ \A c \in Calls : kind[c] = "entry" => verdict[c] \in {"none", "Success", "Err"}

\* The calls in the first i blocks of a chain B.
SpentBy(B, i) == {c \in Calls : \E j \in 1 .. i : Contains(B[j].txs, c)}

\* Every block of B spends the nonces that follow those of the blocks below it.
Stacked(B, N) ==
  \A i \in 1 .. Len(B) :
    /\ \A k \in 1 .. Len(B[i].txs) :
         N[B[i].txs[k]] = Cardinality(SpentBy(B, i - 1)) + k - 1
    /\ Cardinality(SpentBy(B, i)) = Cardinality(SpentBy(B, i - 1)) + Len(B[i].txs)

\* A call that has not been submitted is nowhere on the chain, and only a call
\* that returned has a verdict.
Unsent ==
  \A c \in Calls :
    /\ stage[c] \in {"idle", "signed"} => c \notin pool /\ ~Included(c)
    /\ stage[c] \in {"idle", "signed", "watching"} => at[c] = {}
    /\ stage[c] # "done" => verdict[c] = "none"
    /\ \A b \in at[c] : Contains(b.txs, c)

\* What a block says of itself is what its extrinsics did.
WellMade(b) ==
  /\ b.ok \subseteq ToSet(b.txs)
  /\ b.winner = "us" <=> \E d \in b.ok : kind[d] = "proof"

\* An entry, once filed, is there at every later block.
StoredStays(B) == \A i, j \in 1 .. Len(B) : i <= j /\ B[i].stored => B[j].stored

\* A verdict is what the block it was judged at shows; a stop without a block
\* is for an extrinsic that nobody holds.
Told ==
  \A c \in Calls :
    /\ verdict[c] = "Success" => \A b \in at[c] : confirmation_present(c, b)
    /\ verdict[c] \in Stops => \A b \in at[c] : ~confirmation_present(c, b)
    /\ verdict[c] \in Stops /\ at[c] = {} => c \notin pool /\ ~Included(c)

IInv ==
  /\ Typed
  /\ Stacked(blocks, nonce)
  /\ Unsent
  /\ \A i \in 1 .. Len(blocks) : WellMade(blocks[i])
  /\ StoredStays(blocks)
  /\ Told
-----------------------------------------------------------------------------
(***************************************************************************)
(* Nonces on a chain of blocks                                             *)
(***************************************************************************)

\* The calls of a prefix are finitely many, and a longer prefix has them all.
LEMMA SpentCount ==
  ASSUME NEW B, NEW i \in Nat, NEW j \in Nat, i <= j
  PROVE  /\ IsFiniteSet(SpentBy(B, i))
         /\ Cardinality(SpentBy(B, i)) \in Nat
         /\ Cardinality(SpentBy(B, i)) <= Cardinality(SpentBy(B, j))
<1>1. SpentBy(B, i) \subseteq SpentBy(B, j) /\ SpentBy(B, j) \subseteq Calls
  BY DEF SpentBy
<1>2. IsFiniteSet(SpentBy(B, j)) /\ IsFiniteSet(SpentBy(B, i))
  BY <1>1, SubmissionConstants, FS_Subset
<1>3. Cardinality(SpentBy(B, i)) <= Cardinality(SpentBy(B, j))
  BY <1>1, <1>2, FS_Subset
<1> QED
  BY <1>2, <1>3, FS_CardinalityType

\* The k-th extrinsic of block i spends a nonce below those of the next block.
LEMMA NonceRange ==
  ASSUME NEW B \in Seq(Block), NEW N, Stacked(B, N),
         NEW i \in 1 .. Len(B), NEW k \in 1 .. Len(B[i].txs)
  PROVE  /\ N[B[i].txs[k]] \in Nat
         /\ Cardinality(SpentBy(B, i - 1)) <= N[B[i].txs[k]]
         /\ N[B[i].txs[k]] < Cardinality(SpentBy(B, i))
<1>1. B[i].txs \in Seq(Calls)
  <2>1. B[i] \in Block
    BY ElementOfSeq
  <2> QED
    BY <2>1 DEF Block
<1>2. Len(B[i].txs) \in Nat /\ k \in Nat /\ 1 <= k /\ k <= Len(B[i].txs)
  BY <1>1
<1>3. /\ N[B[i].txs[k]] = Cardinality(SpentBy(B, i - 1)) + k - 1
      /\ Cardinality(SpentBy(B, i)) = Cardinality(SpentBy(B, i - 1)) + Len(B[i].txs)
  BY DEF Stacked
<1>4. Cardinality(SpentBy(B, i - 1)) \in Nat
  <2>1. i - 1 \in Nat
    OBVIOUS
  <2> QED
    BY <2>1, SpentCount
<1> QED
  BY <1>2, <1>3, <1>4

\* No two positions of a chain spend the same nonce.
LEMMA OnePosition ==
  ASSUME NEW B \in Seq(Block), NEW N, Stacked(B, N),
         NEW i \in 1 .. Len(B), NEW k \in 1 .. Len(B[i].txs),
         NEW j \in 1 .. Len(B), NEW l \in 1 .. Len(B[j].txs),
         N[B[i].txs[k]] = N[B[j].txs[l]]
  PROVE  i = j /\ k = l
<1> DEFINE a == N[B[i].txs[k]]
<1> DEFINE b == N[B[j].txs[l]]
<1>1. /\ a \in Nat /\ Cardinality(SpentBy(B, i - 1)) <= a /\ a < Cardinality(SpentBy(B, i))
      /\ b \in Nat /\ Cardinality(SpentBy(B, j - 1)) <= b /\ b < Cardinality(SpentBy(B, j))
  BY NonceRange
<1>2. i \in Nat /\ j \in Nat /\ i - 1 \in Nat /\ j - 1 \in Nat
  OBVIOUS
<1>3. /\ Cardinality(SpentBy(B, i)) \in Nat /\ Cardinality(SpentBy(B, j)) \in Nat
      /\ Cardinality(SpentBy(B, i - 1)) \in Nat /\ Cardinality(SpentBy(B, j - 1)) \in Nat
  BY <1>2, SpentCount
<1>4. a = b
  OBVIOUS
<1>5. ~(i < j)
  <2> SUFFICES ASSUME i < j PROVE FALSE
    OBVIOUS
  <2>1. Cardinality(SpentBy(B, i)) <= Cardinality(SpentBy(B, j - 1))
    BY <1>2, SpentCount
  <2> HIDE DEF a, b
  <2> QED
    BY <1>1, <1>3, <1>4, <2>1
<1>6. ~(j < i)
  <2> SUFFICES ASSUME j < i PROVE FALSE
    OBVIOUS
  <2>1. Cardinality(SpentBy(B, j)) <= Cardinality(SpentBy(B, i - 1))
    BY <1>2, SpentCount
  <2> HIDE DEF a, b
  <2> QED
    BY <1>1, <1>3, <1>4, <2>1
<1>7. i = j
  BY <1>5, <1>6
<1>8. k = l
  <2>1. /\ a = Cardinality(SpentBy(B, i - 1)) + k - 1
        /\ b = Cardinality(SpentBy(B, i - 1)) + l - 1
    BY <1>7 DEF Stacked
  <2>2. k \in Int /\ l \in Int
    OBVIOUS
  <2> HIDE DEF a, b
  <2> QED
    BY <2>1, <2>2, <1>3, <1>4
<1> QED
  BY <1>7, <1>8

\* A sequence without repetition has as many elements as positions.
LEMMA CountSequence ==
  ASSUME NEW s \in Seq(Calls), \A k, l \in 1 .. Len(s) : s[k] = s[l] => k = l
  PROVE  IsFiniteSet(ToSet(s)) /\ Cardinality(ToSet(s)) = Len(s)
<1>1. Len(s) \in Nat /\ DOMAIN s = 1 .. Len(s) /\ s \in [1 .. Len(s) -> ToSet(s)]
  BY DEF ToSet
<1>2. s \in Bijection(1 .. Len(s), ToSet(s))
  BY <1>1 DEF Bijection, Injection, Surjection, IsInjective, ToSet
<1>3. ExistsBijection(1 .. Len(s), ToSet(s))
  BY <1>2 DEF ExistsBijection
<1>4. IsFiniteSet(1 .. Len(s)) /\ Cardinality(1 .. Len(s)) = Len(s)
  BY <1>1, FS_Interval
<1> QED
  BY <1>3, <1>4, FS_Bijection

\* A block on top, of extrinsics with the next nonces in order, keeps the nonces
\* stacked.
LEMMA StackedAppend ==
  ASSUME NEW B \in Seq(Block), NEW N, Stacked(B, N),
         NEW b \in Block,
         \A k \in 1 .. Len(b.txs) : N[b.txs[k]] = Cardinality(SpentBy(B, Len(B))) + k - 1
  PROVE  Stacked(Append(B, b), N)
<1> DEFINE A == Append(B, b)
<1> DEFINE n == Len(B)
<1>1. /\ A \in Seq(Block) /\ Len(A) = n + 1 /\ n \in Nat
      /\ \A i \in 1 .. n : A[i] = B[i]
      /\ A[n + 1] = b
  OBVIOUS
<1>2. b.txs \in Seq(Calls) /\ Len(b.txs) \in Nat
  BY DEF Block
<1>3. \A i \in 0 .. n : SpentBy(A, i) = SpentBy(B, i)
  BY <1>1 DEF SpentBy
<1>4. SpentBy(A, n + 1) = SpentBy(B, n) \cup ToSet(b.txs)
  <2>1. \A c \in Calls : c \in ToSet(b.txs) <=> Contains(b.txs, c)
    BY <1>2 DEF ToSet, Contains
  <2>2. ToSet(b.txs) \subseteq Calls
    BY <1>2 DEF ToSet
  <2>3. \A c \in Calls : c \in SpentBy(A, n + 1) <=> c \in SpentBy(A, n) \/ Contains(b.txs, c)
    BY <1>1 DEF SpentBy
  <2>4. SpentBy(A, n + 1) \subseteq Calls /\ SpentBy(A, n) \subseteq Calls
    BY DEF SpentBy
  <2>5. SpentBy(A, n) = SpentBy(B, n)
    BY <1>1, <1>3
  <2> HIDE DEF A, n
  <2> QED
    BY <2>1, <2>2, <2>3, <2>4, <2>5
<1>5. Cardinality(SpentBy(B, n)) \in Nat /\ IsFiniteSet(SpentBy(B, n))
  BY <1>1, SpentCount
<1>6. \A k, l \in 1 .. Len(b.txs) : b.txs[k] = b.txs[l] => k = l
  <2> SUFFICES ASSUME NEW k \in 1 .. Len(b.txs), NEW l \in 1 .. Len(b.txs), b.txs[k] = b.txs[l]
               PROVE  k = l
    OBVIOUS
  <2>1. /\ N[b.txs[k]] = Cardinality(SpentBy(B, n)) + k - 1
        /\ N[b.txs[k]] = Cardinality(SpentBy(B, n)) + l - 1
    OBVIOUS
  <2>2. k \in Int /\ l \in Int
    OBVIOUS
  <2> QED
    BY <1>5, <2>1, <2>2
<1>7. IsFiniteSet(ToSet(b.txs)) /\ Cardinality(ToSet(b.txs)) = Len(b.txs)
  BY <1>2, <1>6, CountSequence
<1>8. SpentBy(B, n) \cap ToSet(b.txs) = {}
  <2> SUFFICES ASSUME NEW k \in 1 .. Len(b.txs), b.txs[k] \in SpentBy(B, n) PROVE FALSE
    BY <1>2 DEF ToSet
  <2>1. PICK i \in 1 .. n : Contains(B[i].txs, b.txs[k])
    BY DEF SpentBy
  <2>2. PICK l \in 1 .. Len(B[i].txs) : B[i].txs[l] = b.txs[k]
    BY <2>1 DEF Contains
  <2>3. N[b.txs[k]] \in Nat /\ N[b.txs[k]] < Cardinality(SpentBy(B, i))
    BY <2>2, NonceRange
  <2>4. /\ Cardinality(SpentBy(B, i)) <= Cardinality(SpentBy(B, n))
        /\ Cardinality(SpentBy(B, i)) \in Nat
    BY <1>1, SpentCount
  <2>5. N[b.txs[k]] = Cardinality(SpentBy(B, n)) + k - 1 /\ k \in Nat /\ k >= 1
    OBVIOUS
  <2> QED
    BY <1>5, <2>3, <2>4, <2>5
<1>9. Cardinality(SpentBy(A, n + 1)) = Cardinality(SpentBy(B, n)) + Len(b.txs)
  <2>1. Cardinality(SpentBy(B, n) \cup ToSet(b.txs)) =
          Cardinality(SpentBy(B, n)) + Cardinality(ToSet(b.txs)) - Cardinality({})
    BY <1>5, <1>7, <1>8, FS_Union
  <2>2. Cardinality({}) = 0
    BY FS_EmptySet
  <2>3. Cardinality(SpentBy(A, n + 1)) = Cardinality(SpentBy(B, n)) + Len(b.txs) - 0
    BY <1>4, <1>7, <2>1, <2>2
  <2> HIDE DEF A, n
  <2> QED
    BY <1>2, <1>5, <2>3
<1>10. ASSUME NEW i \in 1 .. n + 1
       PROVE  /\ \A k \in 1 .. Len(A[i].txs) :
                   N[A[i].txs[k]] = Cardinality(SpentBy(A, i - 1)) + k - 1
              /\ Cardinality(SpentBy(A, i)) = Cardinality(SpentBy(A, i - 1)) + Len(A[i].txs)
  <2>1. CASE i \in 1 .. n
    <3>1. A[i] = B[i] /\ SpentBy(A, i) = SpentBy(B, i) /\ SpentBy(A, i - 1) = SpentBy(B, i - 1)
      BY <1>1, <1>3, <2>1
    <3>2. /\ \A k \in 1 .. Len(B[i].txs) :
               N[B[i].txs[k]] = Cardinality(SpentBy(B, i - 1)) + k - 1
          /\ Cardinality(SpentBy(B, i)) = Cardinality(SpentBy(B, i - 1)) + Len(B[i].txs)
      BY <2>1 DEF Stacked
    <3> QED
      BY <3>1, <3>2
  <2>2. CASE i = n + 1
    <3>1. A[i] = b /\ SpentBy(A, i - 1) = SpentBy(B, n) /\ i - 1 = n
      BY <1>1, <1>3, <2>2
    <3> HIDE DEF A
    <3> QED
      BY <1>9, <2>2, <3>1
  <2> QED
    BY <1>1, <2>1, <2>2
<1> QED
  BY <1>1, <1>10 DEF Stacked

\* Without the block on top the nonces are still stacked.
LEMMA StackedFront ==
  ASSUME NEW B \in Seq(Block), NEW N, Stacked(B, N), B # <<>>
  PROVE  /\ Front(B) \in Seq(Block) /\ Len(Front(B)) = Len(B) - 1
         /\ \A i \in 1 .. Len(B) - 1 : Front(B)[i] = B[i]
         /\ Stacked(Front(B), N)
<1> DEFINE F == Front(B)
<1>1. Len(B) \in Nat \ {0} /\ \A i \in 1 .. Len(B) : B[i] \in Block
  BY EmptySeq
<1>2. /\ F \in Seq(Block) /\ Len(F) = Len(B) - 1
      /\ \A i \in 1 .. Len(B) - 1 : F[i] = B[i]
  <2> DEFINE m == Len(B) - 1
  <2>1. m \in Nat /\ \A i \in 1 .. m : B[i] \in Block
    BY <1>1
  <2>2. F = SubSeq(B, 1, m)
    BY DEF Front
  <2> HIDE DEF m, F
  <2>3. /\ F \in Seq(Block)
        /\ Len(F) = IF 1 <= m THEN m - 1 + 1 ELSE 0
        /\ \A i \in 1 .. m - 1 + 1 : F[i] = B[1 + i - 1]
    BY <2>1, <2>2, SubSeqProperties
  <2>4. Len(F) = m /\ m - 1 + 1 = m /\ \A i \in 1 .. m : 1 + i - 1 = i
    BY <2>1, <2>3
  <2>5. \A i \in 1 .. m : F[i] = B[i]
    BY <2>3, <2>4
  <2> QED
    BY <2>3, <2>4, <2>5 DEF m
<1>3. \A i \in 0 .. Len(B) - 1 : SpentBy(F, i) = SpentBy(B, i)
  BY <1>1, <1>2 DEF SpentBy
<1>4. ASSUME NEW i \in 1 .. Len(F)
      PROVE  /\ \A k \in 1 .. Len(F[i].txs) :
                  N[F[i].txs[k]] = Cardinality(SpentBy(F, i - 1)) + k - 1
             /\ Cardinality(SpentBy(F, i)) = Cardinality(SpentBy(F, i - 1)) + Len(F[i].txs)
  <2>1. i \in 1 .. Len(B) /\ i \in 1 .. Len(B) - 1 /\ i - 1 \in 0 .. Len(B) - 1
    BY <1>1, <1>2
  <2>2. F[i] = B[i] /\ SpentBy(F, i) = SpentBy(B, i) /\ SpentBy(F, i - 1) = SpentBy(B, i - 1)
    BY <1>2, <1>3, <2>1
  <2>3. /\ \A k \in 1 .. Len(B[i].txs) :
             N[B[i].txs[k]] = Cardinality(SpentBy(B, i - 1)) + k - 1
        /\ Cardinality(SpentBy(B, i)) = Cardinality(SpentBy(B, i - 1)) + Len(B[i].txs)
    BY <2>1 DEF Stacked
  <2> QED
    BY <2>2, <2>3
<1> QED
  BY <1>2, <1>4 DEF Stacked
-----------------------------------------------------------------------------
(***************************************************************************)
(* The client's steps                                                      *)
(***************************************************************************)

\* A call that returns: the verdict fits the block it was judged at, and a stop
\* without a block is for an extrinsic nobody holds.
LEMMA Returning ==
  ASSUME IInv, NEW c \in Calls, NEW v \in Verdicts, stage[c] # "done",
         Return(c, v), UNCHANGED <<kind, nonce, at, blocks, retracted, dropped>>,
         pool' = pool \/ (v = "Err" /\ pool' = pool \cup {c}),
         kind[c] = "entry" => v \in {"none", "Success", "Err"},
         v = "Success" => \A b \in at[c] : confirmation_present(c, b),
         v \in Stops => \A b \in at[c] : ~confirmation_present(c, b),
         v \in Stops /\ at[c] = {} => c \notin pool /\ ~Included(c)
  PROVE  IInv'
<1>1. /\ stage' = [stage EXCEPT ![c] = "done"] /\ verdict' = [verdict EXCEPT ![c] = v]
      /\ pool' \subseteq pool \cup {c} /\ pool \subseteq pool' /\ v \in Stops => pool' = pool
  BY DEF Return, Stops
<1>2. Typed'
  BY <1>1 DEF IInv, Typed
<1>3. \A d \in Calls : d # c => stage'[d] = stage[d] /\ verdict'[d] = verdict[d]
  BY <1>1 DEF IInv, Typed
<1>4. stage'[c] = "done" /\ verdict'[c] = v
  BY <1>1 DEF IInv, Typed
<1>5. Unsent'
  BY <1>1, <1>3, <1>4 DEF IInv, Unsent, Included
<1>6. Told'
  BY <1>1, <1>3, <1>4 DEF IInv, Told, Included, confirmation_present
<1>7. Stacked(blocks, nonce)' /\ StoredStays(blocks)'
  BY DEF IInv
<1>8. \A i \in 1 .. Len(blocks') : WellMade(blocks[i])'
  BY DEF IInv, WellMade
<1> QED
  BY <1>2, <1>5, <1>6, <1>7, <1>8 DEF IInv

\* Every way a call can return.
LEMMA ReturnHolds ==
  ASSUME IInv, NEW c \in Calls,
         \/ AlreadyStored(c) \/ SubmitFails(c) \/ Terminal(c) \/ StreamFails(c)
         \/ Submit(c) /\ ~Acceptable(c)
         \/ \E read \in BOOLEAN : confirm_in_block(c, read)
  PROVE  IInv'
<1>1. at[c] = {} => \A b \in at[c] : confirmation_present(c, b) /\ ~confirmation_present(c, b)
  OBVIOUS
<1>2. CASE AlreadyStored(c)
  <2>1. at[c] = {} /\ Return(c, "Success")
    BY <1>2 DEF AlreadyStored, IInv, Unsent
  <2> QED
    BY <1>2, <2>1, Returning DEF AlreadyStored, chainVars, Verdicts, Stops
<1>3. CASE SubmitFails(c)
  <2>1. at[c] = {} /\ Return(c, "Err") /\ stage[c] # "done"
    BY <1>3 DEF SubmitFails, IInv, Unsent
  <2> QED
    BY <1>3, <2>1, Returning DEF SubmitFails, Verdicts, Stops
<1>4. CASE StreamFails(c)
  <2>1. Return(c, "Err") /\ stage[c] # "done"
    BY <1>4 DEF StreamFails
  <2> QED
    BY <1>4, <2>1, Returning DEF StreamFails, chainVars, Verdicts, Stops
<1>5. CASE Terminal(c)
  <2>1. at[c] = {} /\ stage[c] # "done" /\ UNCHANGED <<kind, nonce, at, chainVars>>
    BY <1>5 DEF Terminal, IInv, Unsent
  <2>2. CASE GivenUp(c) /\ Return(c, OnDropped(c))
    <3>1. OnDropped(c) \in {"Err", "Retry"} /\ (kind[c] = "entry" => OnDropped(c) = "Err")
      BY DEF OnDropped
    <3> QED
      BY <2>1, <2>2, <3>1, Returning DEF chainVars, Verdicts, Stops
  <2>3. CASE Overtaken(c) /\ Return(c, OnInvalid(c))
    <3>1. OnInvalid(c) \in {"Err", "StopFatal"} /\ (kind[c] = "entry" => OnInvalid(c) = "Err")
      BY DEF OnInvalid
    <3>2. c \notin pool /\ ~Included(c)
      BY <2>3 DEF Overtaken
    <3> QED
      BY <2>1, <2>3, <3>1, <3>2, Returning DEF chainVars, Verdicts, Stops
  <2> QED
    BY <1>5, <2>2, <2>3 DEF Terminal
<1>6. CASE Submit(c) /\ ~Acceptable(c)
  <2>1. /\ at[c] = {} /\ stage[c] # "done" /\ c \notin pool /\ ~Included(c)
        /\ Return(c, OnInvalid(c)) /\ UNCHANGED <<kind, nonce, at, chainVars>>
    BY <1>6 DEF Submit, IInv, Unsent, chainVars
  <2>2. OnInvalid(c) \in {"Err", "StopFatal"} /\ (kind[c] = "entry" => OnInvalid(c) = "Err")
    BY DEF OnInvalid
  <2> QED
    BY <2>1, <2>2, Returning DEF chainVars, Verdicts, Stops
<1>7. ASSUME NEW read \in BOOLEAN, confirm_in_block(c, read)
      PROVE  IInv'
  <2>1. PICK b \in at[c] : Return(c, Outcome(c, b, read))
    BY <1>7 DEF confirm_in_block
  <2>2. at[c] = {b} /\ Contains(b.txs, c) /\ stage[c] # "done"
    BY <1>7, <2>1 DEF confirm_in_block, IInv, Typed, Unsent
  <2> DEFINE v == Outcome(c, b, read)
  <2>3. /\ v \in {"Success", "StopRoundStale", "StopFatal", "Err"}
        /\ v = "Success" <=> confirmation_present(c, b)
        /\ kind[c] = "entry" => v \in {"Success", "Err"}
    BY <2>2 DEF Outcome, OnDispatchFailed, OnInvalid
  <2> HIDE DEF v
  <2>4. v \in Verdicts /\ Return(c, v)
    BY <2>1, <2>3 DEF v, Verdicts
  <2>5. v = "Success" => \A x \in at[c] : confirmation_present(c, x)
    BY <2>2, <2>3
  <2>6. v \in Stops => \A x \in at[c] : ~confirmation_present(c, x)
    BY <2>2, <2>3 DEF Stops
  <2> QED
    BY <1>7, <2>2, <2>3, <2>4, <2>5, <2>6, Returning DEF confirm_in_block, chainVars
<1> QED
  BY <1>2, <1>3, <1>4, <1>5, <1>6, <1>7

\* A call that is signed, taken by the pool or named by a block.
LEMMA AdvanceHolds ==
  ASSUME IInv, NEW c \in Calls,
         ReadNonce(c) \/ (Submit(c) /\ Acceptable(c)) \/ InBlock(c)
  PROVE  IInv'
<1>1. CASE ReadNonce(c)
  <2>1. /\ stage[c] = "idle" /\ stage' = [stage EXCEPT ![c] = "signed"]
        /\ UNCHANGED <<kind, at, verdict, blocks, retracted, pool, dropped>>
    BY <1>1 DEF ReadNonce, chainVars
  <2>2. PICK n \in account_nonce .. NextIndex : nonce' = [nonce EXCEPT ![c] = n]
    BY <1>1 DEF ReadNonce
  <2>3. n \in Nat
    <3>1. account_nonce \in Nat
      <4>1. IsFiniteSet({d \in Calls : Included(d)})
        BY SubmissionConstants, FS_Subset
      <4> QED
        BY <4>1, FS_CardinalityType DEF account_nonce
    <3>2. n \in Int /\ account_nonce <= n
      OBVIOUS
    <3> QED
      BY <3>1, <3>2
  <2>4. Typed'
    BY <2>1, <2>2, <2>3 DEF IInv, Typed
  <2>5. \A d \in Calls : d # c => nonce'[d] = nonce[d] /\ stage'[d] = stage[d]
    BY <2>1, <2>2 DEF IInv, Typed
  <2>6. stage'[c] = "signed"
    BY <2>1 DEF IInv, Typed
  <2>7. Unsent'
    BY <2>1, <2>5, <2>6 DEF IInv, Unsent, Included
  <2>8. Stacked(blocks, nonce)'
    <3>1. ~Included(c)
      BY <2>1 DEF IInv, Unsent
    <3>2. \A i \in 1 .. Len(blocks) : \A k \in 1 .. Len(blocks[i].txs) :
            blocks[i].txs[k] \in Calls \ {c}
      <4> SUFFICES ASSUME NEW i \in 1 .. Len(blocks), NEW k \in 1 .. Len(blocks[i].txs)
                   PROVE  blocks[i].txs[k] \in Calls \ {c}
        OBVIOUS
      <4>1. blocks[i] \in Block /\ i \in DOMAIN blocks
        BY DEF IInv, Typed
      <4>2. blocks[i].txs \in Seq(Calls)
        BY <4>1 DEF Block
      <4> QED
        BY <4>1, <4>2, <3>1 DEF Included, Contains
    <3> QED
      BY <2>1, <2>5, <3>2 DEF IInv, Stacked
  <2>9. Told' /\ StoredStays(blocks)'
    BY <2>1 DEF IInv, Told, Included, confirmation_present
  <2>10. \A i \in 1 .. Len(blocks') : WellMade(blocks[i])'
    BY <2>1 DEF IInv, WellMade
  <2> QED
    BY <2>4, <2>7, <2>8, <2>9, <2>10 DEF IInv
<1>2. CASE Submit(c) /\ Acceptable(c)
  <2>1. /\ stage[c] = "signed" /\ stage' = [stage EXCEPT ![c] = "watching"]
        /\ pool' = pool \cup {c}
        /\ UNCHANGED <<kind, nonce, at, verdict, blocks, retracted, dropped>>
    BY <1>2 DEF Submit
  <2>2. Typed'
    BY <2>1 DEF IInv, Typed
  <2>3. \A d \in Calls : stage'[d] = IF d = c THEN "watching" ELSE stage[d]
    BY <2>1 DEF IInv, Typed
  <2>4. at[c] = {} /\ verdict[c] = "none"
    BY <2>1 DEF IInv, Unsent
  <2>5. Unsent'
    BY <2>1, <2>3, <2>4 DEF IInv, Unsent, Included
  <2>6. Told'
    BY <2>1, <2>4 DEF IInv, Told, Included, confirmation_present, Stops
  <2>7. Stacked(blocks, nonce)' /\ StoredStays(blocks)'
    BY <2>1 DEF IInv
  <2>8. \A i \in 1 .. Len(blocks') : WellMade(blocks[i])'
    BY <2>1 DEF IInv, WellMade
  <2> QED
    BY <2>2, <2>5, <2>6, <2>7, <2>8 DEF IInv
<1>3. CASE InBlock(c)
  <2>1. PICK b \in ToSet(blocks) \union retracted :
          Contains(b.txs, c) /\ at' = [at EXCEPT ![c] = {b}]
    BY <1>3 DEF InBlock
  <2>2. /\ stage[c] = "watching" /\ stage' = [stage EXCEPT ![c] = "confirming"]
        /\ UNCHANGED <<kind, nonce, verdict, blocks, retracted, pool, dropped>>
    BY <1>3 DEF InBlock, chainVars
  <2>3. b \in Block
    BY DEF IInv, Typed, ToSet
  <2>4. Typed'
    BY <2>1, <2>2, <2>3 DEF IInv, Typed
  <2>5. \A d \in Calls : /\ stage'[d] = IF d = c THEN "confirming" ELSE stage[d]
                         /\ at'[d] = IF d = c THEN {b} ELSE at[d]
    BY <2>1, <2>2 DEF IInv, Typed
  <2>6. verdict[c] = "none"
    BY <2>2 DEF IInv, Unsent
  <2>7. Unsent'
    BY <2>1, <2>2, <2>5, <2>6 DEF IInv, Unsent, Included
  <2>8. Told'
    BY <2>2, <2>5, <2>6 DEF IInv, Told, Included, confirmation_present, Stops
  <2>9. Stacked(blocks, nonce)' /\ StoredStays(blocks)'
    BY <2>2 DEF IInv
  <2>10. \A i \in 1 .. Len(blocks') : WellMade(blocks[i])'
    BY <2>2 DEF IInv, WellMade
  <2> QED
    BY <2>4, <2>7, <2>8, <2>9, <2>10 DEF IInv
<1> QED
  BY <1>1, <1>2, <1>3
-----------------------------------------------------------------------------
(***************************************************************************)
(* The chain's steps                                                       *)
(***************************************************************************)

\* A call is on the chain when one of the first Len(blocks) blocks holds it.
LEMMA Spent ==
  ASSUME IInv
  PROVE  /\ account_nonce = Cardinality(SpentBy(blocks, Len(blocks)))
         /\ \A c \in Calls : Included(c) <=> \E i \in 1 .. Len(blocks) : Contains(blocks[i].txs, c)
<1>1. DOMAIN blocks = 1 .. Len(blocks)
  BY DEF IInv, Typed
<1>2. \A c \in Calls : Included(c) <=> \E i \in 1 .. Len(blocks) : Contains(blocks[i].txs, c)
  BY <1>1 DEF Included
<1>3. {c \in Calls : Included(c)} = SpentBy(blocks, Len(blocks))
  BY <1>2 DEF SpentBy
<1> QED
  BY <1>2, <1>3 DEF account_nonce

\* The extrinsics a block may hold are a sequence of pending ones.
LEMMA ExecutableShape ==
  ASSUME IInv, NEW s \in Executable
  PROVE  /\ s \in Seq(pool) /\ s \in Seq(Calls) /\ DOMAIN s = 1 .. Len(s)
         /\ ToSet(s) \subseteq pool
         /\ \A k \in 1 .. Len(s) : nonce[s[k]] = account_nonce + k - 1
<1>1. PICK n \in 0 .. Cardinality(pool) : s \in [1 .. n -> pool]
  BY DEF Executable
<1>2. IsFiniteSet(pool)
  BY SubmissionConstants, FS_Subset DEF IInv, Typed
<1>3. n \in Nat
  BY <1>1, <1>2, FS_CardinalityType
<1>4. s \in Seq(pool)
  BY <1>1, <1>3
<1>5. s \in Seq(Calls)
  BY <1>4, SeqMonotonic DEF IInv, Typed
<1>6. \A k \in DOMAIN s : nonce[s[k]] = account_nonce + k - 1
  BY DEF Executable
<1>7. DOMAIN s = 1 .. Len(s)
  BY <1>4
<1>8. ToSet(s) \subseteq pool
  BY <1>4 DEF ToSet
<1> QED
  BY <1>4, <1>5, <1>6, <1>7, <1>8

\* A block of pending extrinsics: who was not pending is not in it, it spends the
\* next nonces in order, and what it says of itself is true.
LEMMA MakeBlockHolds ==
  ASSUME IInv, NEW s \in Executable, NEW refused, NEW rival \in BOOLEAN,
         MakeBlock(s, refused, rival)
  PROVE  IInv'
<1> DEFINE won    == IF rival THEN {} ELSE {s[i] : i \in FirstProof(s, refused)}
<1> DEFINE others == {c \in ToSet(s) \ refused : kind[c] # "proof"}
<1> DEFINE filed  == {c \in others : kind[c] = "entry"}
<1> DEFINE b == [txs |-> s, ok |-> won \union others,
                 winner |-> IF rival THEN "rival" ELSE IF won # {} THEN "us" ELSE "none",
                 stored |-> Stored \/ filed # {}, fork |-> Cardinality(retracted)]
<1>1. /\ blocks' = Append(blocks, b)
      /\ pool' = pool \ ToSet(s)
      /\ UNCHANGED <<kind, stage, nonce, at, verdict, retracted, dropped>>
  BY DEF MakeBlock
<1>2. /\ s \in Seq(pool) /\ s \in Seq(Calls) /\ DOMAIN s = 1 .. Len(s)
      /\ ToSet(s) \subseteq pool
      /\ \A k \in 1 .. Len(s) : nonce[s[k]] = account_nonce + k - 1
  BY ExecutableShape
<1>3. won \subseteq ToSet(s) /\ others \subseteq ToSet(s) /\ ToSet(s) \subseteq Calls
  <2>1. won \subseteq ToSet(s)
    BY DEF ToSet, FirstProof
  <2>2. ToSet(s) \subseteq Calls
    BY <1>2 DEF IInv, Typed
  <2> QED
    BY <2>1, <2>2
<1>4. /\ \A c \in won : kind[c] = "proof"
      /\ rival => won = {}
      /\ \A c \in others : kind[c] # "proof"
  BY DEF FirstProof
<1>5. Stored \in BOOLEAN
  <2>1. blocks # <<>> => Last(blocks) \in Block
    BY EmptySeq DEF IInv, Typed, Last
  <2> QED
    BY <2>1 DEF Stored, Block
<1>6. Cardinality(retracted) \in Nat
  BY FS_CardinalityType DEF IInv, Typed
<1>7. /\ b.txs = s /\ b.ok = won \union others
      /\ b.winner = IF rival THEN "rival" ELSE IF won # {} THEN "us" ELSE "none"
      /\ b.stored = (Stored \/ filed # {})
  OBVIOUS
<1>8. b \in Block
  <2>1. (Stored \/ filed # {}) \in BOOLEAN
    OBVIOUS
  <2>2. (IF rival THEN "rival" ELSE IF won # {} THEN "us" ELSE "none") \in {"none", "us", "rival"}
    OBVIOUS
  <2>3. won \union others \in SUBSET Calls
    BY <1>3
  <2> HIDE DEF won, others, filed
  <2> QED
    BY <1>2, <1>6, <2>1, <2>2, <2>3 DEF Block
<1>9. WellMade(b)
  <2> HIDE DEF won, others, filed, b
  <2>1. b.ok \subseteq ToSet(b.txs)
    BY <1>3, <1>7
  <2>2. (b.winner = "us") <=> (~rival /\ won # {})
    BY <1>7
  <2>3. (\E d \in b.ok : kind[d] = "proof") <=> won # {}
    BY <1>4, <1>7
  <2> QED
    BY <1>4, <2>1, <2>2, <2>3 DEF WellMade
<1> DEFINE n == Len(blocks)
<1> HIDE DEF won, others, filed, b
<1>10. /\ blocks \in Seq(Block) /\ n \in Nat
       /\ blocks' \in Seq(Block) /\ Len(blocks') = n + 1
       /\ \A i \in 1 .. n : blocks'[i] = blocks[i]
       /\ blocks'[n + 1] = b
  BY <1>1, <1>8 DEF IInv, Typed
<1>11. \A c \in Calls : Included(c)' <=> Included(c) \/ c \in ToSet(s)
  <2>1. \A c \in Calls : c \in ToSet(s) <=> Contains(b.txs, c)
    BY <1>2, <1>7 DEF ToSet, Contains
  <2>2. \A c \in Calls : Included(c) <=> \E i \in 1 .. n : Contains(blocks[i].txs, c)
    BY Spent
  <2>3. \A c \in Calls : Included(c)' <=> \E i \in 1 .. n + 1 : Contains(blocks'[i].txs, c)
    <3>1. DOMAIN blocks' = 1 .. n + 1
      BY <1>10
    <3> QED
      BY <3>1 DEF Included
  <2> HIDE DEF n
  <2>4. \A i : i \in 1 .. n + 1 <=> i \in 1 .. n \/ i = n + 1
    BY <1>10
  <2>5. \A c \in Calls : (\E i \in 1 .. n + 1 : Contains(blocks'[i].txs, c)) <=>
                         ((\E i \in 1 .. n : Contains(blocks[i].txs, c)) \/ Contains(b.txs, c))
    BY <1>10, <2>4 DEF Contains
  <2> QED
    BY <2>1, <2>2, <2>3, <2>5
<1>12. Typed'
  BY <1>1, <1>10 DEF IInv, Typed
<1>13. Unsent'
  BY <1>1, <1>2, <1>11 DEF IInv, Unsent
<1>14. Told'
  BY <1>1, <1>2, <1>11 DEF IInv, Told, confirmation_present
<1>15. Stacked(blocks, nonce)'
  <2>1. \A k \in 1 .. Len(b.txs) : nonce[b.txs[k]] = Cardinality(SpentBy(blocks, Len(blocks))) + k - 1
    BY <1>2, <1>7, Spent
  <2>2. Stacked(Append(blocks, b), nonce)
    BY <1>8, <1>10, <2>1, StackedAppend DEF IInv
  <2> QED
    BY <1>1, <2>2
<1>16. \A i \in 1 .. Len(blocks') : WellMade(blocks[i])'
  <2>1. \A i \in 1 .. n : WellMade(blocks[i])
    BY DEF IInv
  <2> HIDE DEF n
  <2>2. \A i \in 1 .. n + 1 : i \in 1 .. n \/ i = n + 1
    BY <1>10
  <2> QED
    BY <1>1, <1>9, <1>10, <2>1, <2>2 DEF WellMade
<1>17. StoredStays(blocks)'
  <2> SUFFICES ASSUME NEW i \in 1 .. n + 1, NEW j \in 1 .. n + 1, i <= j, blocks'[i].stored
               PROVE  blocks'[j].stored
    BY <1>10 DEF StoredStays
  <2>1. CASE j \in 1 .. n
    BY <1>10, <2>1 DEF IInv, StoredStays
  <2>2. CASE i = n + 1
    BY <1>10, <2>2
  <2>3. CASE j = n + 1 /\ i \in 1 .. n
    <3>1. blocks[i].stored
      BY <1>10, <2>3
    <3>2. n \in 1 .. n /\ i <= n
      BY <1>10, <2>3
    <3>3. blocks[n].stored
      BY <3>1, <3>2, <2>3 DEF IInv, StoredStays
    <3>4. Stored
      BY <1>10, <3>2, <3>3 DEF Stored, Last
    <3> QED
      BY <1>7, <1>10, <2>3, <3>4
  <2> QED
    BY <1>10, <2>1, <2>2, <2>3
<1> QED
  BY <1>12, <1>13, <1>14, <1>15, <1>16, <1>17 DEF IInv

\* A reorganisation: what was in the block on top is pending again.
LEMMA RetractHolds ==
  ASSUME IInv, Retract
  PROVE  IInv'
<1> DEFINE n == Len(blocks)
<1>1. /\ blocks # <<>> /\ blocks' = Front(blocks)
      /\ retracted' = retracted \union {Last(blocks)}
      /\ pool' = pool \union ToSet(Last(blocks).txs)
      /\ UNCHANGED <<kind, stage, nonce, at, verdict, dropped>>
  BY DEF Retract
<1>2. /\ blocks' \in Seq(Block) /\ Len(blocks') = n - 1
      /\ \A i \in 1 .. n - 1 : blocks'[i] = blocks[i]
      /\ Stacked(blocks', nonce)
  BY <1>1, StackedFront DEF IInv, Typed
<1>3. n \in Nat \ {0} /\ Last(blocks) = blocks[n] /\ blocks[n] \in Block
  BY <1>1, EmptySeq DEF IInv, Typed, Last
<1>4. blocks[n].txs \in Seq(Calls)
  BY <1>3 DEF Block
<1>5. ToSet(blocks[n].txs) \subseteq Calls
  BY <1>4 DEF ToSet
<1> HIDE DEF n
<1>6. \A c \in Calls : Included(c)' => Included(c)
  <2>1. DOMAIN blocks' = 1 .. n - 1
    BY <1>2
  <2>2. DOMAIN blocks = 1 .. n
    BY DEF IInv, Typed, n
  <2> QED
    BY <1>2, <1>3, <2>1, <2>2 DEF Included
<1>7. \A c \in Calls : c \in ToSet(blocks[n].txs) => Included(c)
  <2>1. n \in DOMAIN blocks
    BY <1>3 DEF IInv, Typed, n
  <2> QED
    BY <1>4, <2>1 DEF Included, Contains, ToSet
<1>8. Typed'
  <2>1. IsFiniteSet(retracted') /\ retracted' \subseteq Block
    BY <1>1, <1>3, FS_AddElement DEF IInv, Typed
  <2>2. pool' \subseteq Calls
    BY <1>1, <1>3, <1>5 DEF IInv, Typed
  <2> QED
    BY <1>1, <1>2, <2>1, <2>2 DEF IInv, Typed
<1>9. Unsent'
  BY <1>1, <1>3, <1>6, <1>7 DEF IInv, Unsent
<1>10. Told'
  BY <1>1, <1>3, <1>6, <1>7 DEF IInv, Told, confirmation_present
<1>11. Stacked(blocks, nonce)'
  BY <1>1, <1>2
<1>12. \A i \in 1 .. Len(blocks') : i \in 1 .. Len(blocks) /\ blocks'[i] = blocks[i]
  BY <1>2, <1>3 DEF n
<1>13. \A i \in 1 .. Len(blocks') : WellMade(blocks[i])'
  BY <1>1, <1>12 DEF IInv, WellMade
<1>14. StoredStays(blocks)'
  BY <1>12 DEF IInv, StoredStays
<1> QED
  BY <1>8, <1>9, <1>10, <1>11, <1>13, <1>14 DEF IInv

\* The pool lets go of an extrinsic.
LEMMA PoolHolds ==
  ASSUME IInv, NEW c \in pool, PoolDrops(c) \/ PoolExpires(c)
  PROVE  IInv'
<1>1. /\ pool' \subseteq pool /\ dropped' \subseteq dropped \cup {c}
      /\ UNCHANGED <<kind, stage, nonce, at, verdict, blocks, retracted>>
  BY DEF PoolDrops, PoolExpires
<1>2. Typed'
  BY <1>1 DEF IInv, Typed
<1>3. Unsent'
  BY <1>1 DEF IInv, Unsent, Included
<1>4. Told'
  BY <1>1 DEF IInv, Told, Included, confirmation_present
<1>5. Stacked(blocks, nonce)' /\ StoredStays(blocks)'
  BY <1>1 DEF IInv
<1>6. \A i \in 1 .. Len(blocks') : WellMade(blocks[i])'
  BY <1>1 DEF IInv, WellMade
<1> QED
  BY <1>2, <1>3, <1>4, <1>5, <1>6 DEF IInv
-----------------------------------------------------------------------------
(***************************************************************************)
(* The theorems                                                            *)
(***************************************************************************)

\* The inductive invariant: no nonce is spent twice, a block says what it did,
\* and a verdict is what its block shows.
THEOREM Invariance == Spec => []IInv
<1>1. Init => IInv
  <2> SUFFICES ASSUME Init PROVE IInv
    OBVIOUS
  <2>1. Typed
    BY FS_EmptySet DEF Init, Typed, Verdicts
  <2>2. \A c \in Calls : ~Included(c)
    BY DEF Init, Included
  <2>3. Unsent /\ Told
    BY <2>2 DEF Init, Unsent, Told, Stops
  <2>4. Stacked(blocks, nonce) /\ StoredStays(blocks) /\ Len(blocks) = 0
    BY DEF Init, Stacked, StoredStays
  <2> QED
    BY <2>1, <2>3, <2>4 DEF IInv
<1>2. IInv /\ [Next]_vars => IInv'
  <2> SUFFICES ASSUME IInv, [Next]_vars PROVE IInv'
    OBVIOUS
  <2>1. CASE ChainStep
    BY <2>1, MakeBlockHolds, RetractHolds, PoolHolds DEF ChainStep
  <2>2. ASSUME NEW c \in Calls, ClientStep(c) PROVE IInv'
    BY <2>2, ReturnHolds, AdvanceHolds DEF ClientStep, Submit
  <2>3. CASE UNCHANGED vars
    <3>1. Typed' /\ Unsent' /\ Told'
      BY <2>3 DEF vars, chainVars, IInv, Typed, Unsent, Told, Included, confirmation_present
    <3>2. Stacked(blocks, nonce)' /\ StoredStays(blocks)'
      BY <2>3 DEF vars, chainVars, IInv
    <3>3. \A i \in 1 .. Len(blocks') : WellMade(blocks[i])'
      BY <2>3 DEF vars, chainVars, IInv, WellMade
    <3> QED
      BY <3>1, <3>2, <3>3 DEF IInv
  <2> QED
    BY <2>1, <2>2, <2>3 DEF Next
<1> QED
  BY <1>1, <1>2, PTL DEF Spec

\* A call is in one place of the chain at most.
LEMMA OnePlace ==
  ASSUME IInv, NEW c \in Calls, NEW i \in 1 .. Len(blocks), NEW j \in 1 .. Len(blocks),
         Contains(blocks[i].txs, c), Contains(blocks[j].txs, c)
  PROVE  i = j
<1>1. PICK k \in 1 .. Len(blocks[i].txs) : blocks[i].txs[k] = c
  BY DEF Contains
<1>2. PICK l \in 1 .. Len(blocks[j].txs) : blocks[j].txs[l] = c
  BY DEF Contains
<1> QED
  BY <1>1, <1>2, OnePosition DEF IInv, Typed

\* The invariant contains the type invariant: in particular no nonce is spent
\* twice.
LEMMA TypeFromIInv == IInv => TypeOK
<1> SUFFICES ASSUME IInv PROVE TypeOK
  OBVIOUS
<1>1. \A c \in Calls : Cardinality(at[c]) <= 1 /\ at[c] \subseteq Block
  <2> SUFFICES ASSUME NEW c \in Calls
               PROVE  Cardinality(at[c]) <= 1 /\ at[c] \subseteq Block
    OBVIOUS
  <2>1. at[c] \subseteq Block /\ (at[c] = {} \/ \E b : at[c] = {b})
    BY DEF IInv, Typed
  <2>2. Cardinality(at[c]) = 0 \/ Cardinality(at[c]) = 1
    BY <2>1, FS_EmptySet, FS_Singleton
  <2> QED
    BY <2>1, <2>2
<1>2. \A c, d \in Calls : Included(c) /\ Included(d) /\ c # d => nonce[c] # nonce[d]
  <2> SUFFICES ASSUME NEW c \in Calls, NEW d \in Calls, Included(c), Included(d),
                      nonce[c] = nonce[d]
               PROVE  c = d
    OBVIOUS
  <2>1. PICK i \in 1 .. Len(blocks) : Contains(blocks[i].txs, c)
    BY Spent
  <2>2. PICK j \in 1 .. Len(blocks) : Contains(blocks[j].txs, d)
    BY Spent
  <2>3. PICK k \in 1 .. Len(blocks[i].txs) : blocks[i].txs[k] = c
    BY <2>1 DEF Contains
  <2>4. PICK l \in 1 .. Len(blocks[j].txs) : blocks[j].txs[l] = d
    BY <2>2 DEF Contains
  <2>5. i = j /\ k = l
    BY <2>3, <2>4, OnePosition DEF IInv, Typed
  <2> QED
    BY <2>3, <2>4, <2>5
<1> QED
  BY <1>1, <1>2 DEF IInv, Typed, TypeOK, Verdicts

\* A success is what the chain holds, for every mix of concurrent calls and every
\* reorganisation that left the judged block on the chain.
THEOREM SuccessHolds == Spec => []SuccessIsOurs
<1>1. IInv => SuccessIsOurs
  <2> SUFFICES ASSUME IInv PROVE SuccessIsOurs
    OBVIOUS
  <2>1. ASSUME NEW c \in Calls, verdict[c] = "Success", JudgedHere(c)
        PROVE  CASE kind[c] = "proof"    -> \E b \in at[c] : \E d \in b.ok : kind[d] = "proof"
                 [] kind[c] = "solution" -> \E b \in at[c] : c \in b.ok
                 [] kind[c] = "entry"    -> Stored
    <3>1. PICK b \in at[c] : b \in ToSet(blocks)
      BY <2>1 DEF JudgedHere
    <3>2. PICK i \in 1 .. Len(blocks) : b = blocks[i]
      BY <3>1 DEF ToSet, IInv, Typed
    <3>3. confirmation_present(c, b) /\ WellMade(b)
      BY <2>1, <3>1, <3>2 DEF IInv, Told
    <3>4. kind[c] \in {"proof", "solution", "entry"}
      BY SubmissionConstants DEF IInv, Typed, Kinds
    <3>5. CASE kind[c] = "proof"
      BY <3>1, <3>3, <3>5 DEF confirmation_present, WellMade
    <3>6. CASE kind[c] = "solution"
      BY <3>1, <3>3, <3>6 DEF confirmation_present
    <3>7. CASE kind[c] = "entry"
      <4>1. blocks[i].stored
        BY <3>2, <3>3, <3>7 DEF confirmation_present
      <4>2. Len(blocks) \in 1 .. Len(blocks) /\ i <= Len(blocks) /\ blocks # <<>>
        BY DEF IInv, Typed
      <4>3. blocks[Len(blocks)].stored
        BY <4>1, <4>2 DEF IInv, StoredStays
      <4> QED
        BY <3>7, <4>2, <4>3 DEF Stored, Last
    <3> QED
      BY <3>4, <3>5, <3>6, <3>7
  <2> QED
    BY <2>1, TypeFromIInv DEF SuccessIsOurs
<1> QED
  BY <1>1, Invariance, PTL

\* A call told to stop for good did not succeed and never will, unless it was
\* judged at a block that was retracted.
THEOREM WinsAreOwned == Spec => []NoWinDisowned
<1>1. IInv => NoWinDisowned
  <2> SUFFICES ASSUME IInv, NEW c \in Calls, verdict[c] \in Stops,
                      at[c] # {} => JudgedHere(c),
                      NEW i \in DOMAIN blocks, c \in blocks[i].ok
               PROVE  FALSE
    BY DEF NoWinDisowned, Stops
  <2>1. i \in 1 .. Len(blocks) /\ WellMade(blocks[i]) /\ blocks[i] \in Block
    BY DEF IInv, Typed
  <2>2. Contains(blocks[i].txs, c)
    BY <2>1 DEF WellMade, ToSet, Contains, Block
  <2>3. Included(c)
    BY <2>2 DEF Included
  <2>4. at[c] # {}
    BY <2>3 DEF IInv, Told
  <2>5. PICK b \in at[c] : b \in ToSet(blocks)
    BY <2>4 DEF JudgedHere
  <2>6. PICK j \in 1 .. Len(blocks) : b = blocks[j]
    BY <2>5 DEF ToSet, IInv, Typed
  <2>7. ~confirmation_present(c, b) /\ Contains(b.txs, c)
    BY <2>5 DEF IInv, Told, Unsent
  <2>8. i = j
    BY <2>1, <2>2, <2>6, <2>7, OnePlace
  <2>9. c \in b.ok /\ WellMade(b)
    BY <2>1, <2>6, <2>8
  <2>10. kind[c] \in {"proof", "solution", "entry"}
    BY SubmissionConstants DEF IInv, Typed, Kinds
  <2>11. kind[c] # "entry"
    BY DEF IInv, Typed, Stops
  <2> QED
    BY <2>7, <2>9, <2>10, <2>11 DEF confirmation_present, WellMade
<1> QED
  BY <1>1, Invariance, PTL
=============================================================================
