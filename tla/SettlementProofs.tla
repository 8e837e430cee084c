-------------------------- MODULE SettlementProofs ---------------------------
(***************************************************************************)
(* What becomes of a proof (Settlement) for any sessions, results, decay   *)
(* rules, stash size and attempt bound.                                    *)
(***************************************************************************)
EXTENDS Projection, FiniteSetTheorems, SequenceTheorems, WellFoundedInduction, TLAPS

Settling == [result : Outcome, step : {"submitting", "recording"}, offer : BOOLEAN]

\* A session settles at most one result, the feeder submits at most one
\* candidate.
AtMostOne(S) == \A x, y \in S : x = y

Shape ==
  /\ settling \in [Sessions -> SUBSET Settling]
  /\ \A s \in Sessions : AtMostOne(settling[s])
  /\ AtMostOne(submitting)
  /\ reported \subseteq Ids /\ finished \subseteq reported
  /\ \E n \in 0 .. MaxElapsed : target = Ceiling[n]

\* An id is reported once, so a result is in one place at a time: with one
\* session, in one entry of the stash, or finished.
OnePlace ==
  /\ \A s \in Sessions : \A p \in settling[s] :
       /\ p.result.id \in reported \ finished
       /\ \A i \in DOMAIN stash : stash[i].id # p.result.id
       /\ \A c \in submitting : c.id # p.result.id
       /\ \A t \in Sessions : \A q \in settling[t] : q.result.id = p.result.id => s = t
  /\ \A i \in DOMAIN stash : stash[i].id \in reported
  /\ \A i, k \in DOMAIN stash : stash[i].id = stash[k].id => i = k

\* What is still to be submitted is not finished, and what is not finished has
\* attempts left.
Unfinished ==
  /\ \A i \in DOMAIN stash : ~stash[i].submitted => stash[i].id \notin finished
  /\ \A c \in submitting : c.id \in reported \ finished
  /\ \A id \in Ids : id \notin finished => ledger[id] < MaxAttempts

\* The chain's ceiling admitted this energy at some block of the round.
Admitted(e) == \E n \in 0 .. MaxElapsed : e < Ceiling[n]

\* A winner owed to the stash: its session still holds it for the stash, or
\* has handed it over. Between two rounds nothing is owed.
Owing ==
  /\ \A r \in owed : r.id \in reported /\ Admitted(r.energy)
  /\ \A r \in owed : \A i \in DOMAIN stash :
       stash[i].id = r.id => stash[i].energy = r.energy
  /\ \A r \in owed : \A s \in Sessions : \A p \in settling[s] :
       p.result.id = r.id => p.result = r /\ p.step = "recording" /\ p.offer
  /\ \A s \in Sessions : \A p \in settling[s] :
       /\ p.result.generation <= generation
       /\ ~mining => p.result.generation < generation
       /\ p.step = "submitting" => Admitted(p.result.energy)
  /\ ~mining => owed = {}

IInv ==
  /\ TypeOK
  /\ Shape
  /\ OnePlace
  /\ Unfinished
  /\ Owing
  /\ WinnersKept
-----------------------------------------------------------------------------
(***************************************************************************)
(* WinStash::insert                                                        *)
(***************************************************************************)

\* In a ranked stash the candidates that are at least as good as e come first.
LEMMA SplitPoint ==
  ASSUME NEW st \in Seq(Candidate), NEW e \in Energies,
         \A i, k \in DOMAIN st : i < k => st[i].energy <= st[k].energy
  PROVE  \E b \in 0 .. Len(st) :
           /\ Cardinality({i \in DOMAIN st : st[i].energy <= e}) = b
           /\ \A i \in 1 .. b : st[i].energy <= e
           /\ \A i \in b + 1 .. Len(st) : e < st[i].energy
<1> DEFINE S == {k \in 1 .. Len(st) + 1 : k <= Len(st) => e < st[k].energy}
           R == {p \in Nat \X Nat : p[1] < p[2]}
<1>1. Len(st) \in Nat /\ DOMAIN st = 1 .. Len(st)
  BY LenProperties
<1>2. \A i \in 1 .. Len(st) : st[i] \in Candidate
  BY ElementOfSeq
<1>3. e \in Int /\ \A i \in 1 .. Len(st) : st[i].energy \in Int
  BY <1>2, SettlementConstants DEF Candidate
<1>4. IsWellFoundedOn(R, Nat)
  BY NatLessThanWellFounded DEF OpToRel
<1>5. S \subseteq Nat /\ Len(st) + 1 \in S
  BY <1>1
<1>6. PICK k \in S : \A x \in S : ~(<<x, k>> \in R)
  BY <1>4, <1>5, WFMin
<1>7. k \in 1 .. Len(st) + 1 /\ (k <= Len(st) => e < st[k].energy)
  OBVIOUS
<1>8. \A i \in 1 .. k - 1 : st[i].energy <= e
  <2> SUFFICES ASSUME NEW i \in 1 .. k - 1 PROVE st[i].energy <= e
    OBVIOUS
  <2>1. i \in Nat /\ k \in Nat /\ i < k /\ i \in 1 .. Len(st)
    BY <1>1, <1>7
  <2>2. i \notin S
    BY <1>6, <2>1
  <2>3. ~(e < st[i].energy)
    BY <1>1, <2>1, <2>2
  <2>4. QED
    BY <1>3, <2>1, <2>3
<1>9. \A i \in k .. Len(st) : e < st[i].energy
  <2> SUFFICES ASSUME NEW i \in k .. Len(st) PROVE e < st[i].energy
    OBVIOUS
  <2>1. k \in 1 .. Len(st) /\ i \in 1 .. Len(st)
    BY <1>1, <1>7
  <2>2. st[k].energy <= st[i].energy
    <3>1. CASE i = k
      BY <3>1, <2>1, <1>3
    <3>2. CASE k < i
      BY <3>2, <2>1, <1>1
    <3>3. QED
      BY <3>1, <3>2, <2>1
  <2>3. QED
    BY <1>3, <1>7, <2>1, <2>2
<1>10. {i \in DOMAIN st : st[i].energy <= e} = 1 .. k - 1
  <2>1. \A i \in 1 .. Len(st) : st[i].energy <= e <=> i \in 1 .. k - 1
    <3> SUFFICES ASSUME NEW i \in 1 .. Len(st) PROVE st[i].energy <= e <=> i \in 1 .. k - 1
      OBVIOUS
    <3>1. CASE i < k
      BY <3>1, <1>7, <1>8
    <3>2. CASE i >= k
      <4>1. i \in k .. Len(st) /\ i \notin 1 .. k - 1
        BY <3>2, <1>7
      <4>2. QED
        BY <4>1, <1>9, <1>3
    <3>3. QED
      BY <3>1, <3>2, <1>7
  <2>2. 1 .. k - 1 \subseteq 1 .. Len(st)
    BY <1>1, <1>7
  <2>3. QED
    BY <1>1, <2>1, <2>2
<1>11. Cardinality(1 .. k - 1) = k - 1
  <2>1. 1 \in Int /\ k - 1 \in Int
    BY <1>7
  <2>2. Cardinality(1 .. k - 1) = IF 1 > k - 1 THEN 0 ELSE (k - 1) - 1 + 1
    BY <2>1, FS_Interval
  <2>3. QED
    BY <2>2, <1>7
<1>12. k - 1 \in 0 .. Len(st) /\ (k - 1) + 1 = k
  BY <1>1, <1>7
<1>13. QED
  BY <1>8, <1>9, <1>10, <1>11, <1>12

\* Inserting puts the candidate behind those at least as good as it and in
\* front of the others, and cuts the end off at K (WinStash::insert).
LEMMA InsertShape ==
  ASSUME TypeOK, NEW c \in Candidate
  PROVE  \E b \in 0 .. Len(stash) :
           /\ InsertCandidate(c) \in Seq(Candidate)
           /\ Len(InsertCandidate(c)) = IF Len(stash) < K THEN Len(stash) + 1 ELSE K
           /\ \A i \in 1 .. Len(InsertCandidate(c)) :
                InsertCandidate(c)[i] = IF i <= b THEN stash[i]
                                        ELSE IF i = b + 1 THEN c ELSE stash[i - 1]
           /\ \A i \in 1 .. b : stash[i].energy <= c.energy
           /\ \A i \in b + 1 .. Len(stash) : c.energy < stash[i].energy
<1> DEFINE st == stash
           before == {i \in DOMAIN st : st[i].energy <= c.energy}
           longer == InsertAt(st, Cardinality(before) + 1, c)
           n == Len(st)
<1>1. /\ st \in Seq(Candidate) /\ Len(st) <= K
      /\ \A i, k \in DOMAIN st : i < k => st[i].energy <= st[k].energy
  BY DEF TypeOK
<1>2. c.energy \in Energies /\ K \in Nat \ {0}
  BY SettlementConstants DEF Candidate
<1>3. InsertCandidate(c) = SubSeq(longer, 1, IF Len(longer) < K THEN Len(longer) ELSE K)
  BY DEF InsertCandidate
<1> HIDE DEF st
<1>4. PICK b \in 0 .. Len(st) :
        /\ Cardinality(before) = b
        /\ \A i \in 1 .. b : st[i].energy <= c.energy
        /\ \A i \in b + 1 .. Len(st) : c.energy < st[i].energy
  BY <1>1, <1>2, SplitPoint
<1>5. n \in Nat /\ \A i \in 1 .. n : st[i] \in Candidate
  BY <1>1, LenProperties, ElementOfSeq
<1> DEFINE head == SubSeq(st, 1, b)  tail == SubSeq(st, b + 1, n)
<1>6. longer = head \o <<c>> \o tail
  <2>1. (b + 1) - 1 = b
    BY <1>5
  <2>2. QED
    BY <1>4, <2>1 DEF InsertAt
<1>7. /\ head \in Seq(Candidate) /\ Len(head) = b
      /\ \A i \in 1 .. b : head[i] = st[i]
  <2>1. b \in Int /\ 1 \in Int /\ (\A i \in 1 .. b : st[i] \in Candidate)
    BY <1>5
  <2>2. /\ SubSeq(st, 1, b) \in Seq(Candidate)
        /\ Len(SubSeq(st, 1, b)) = IF 1 <= b THEN b - 1 + 1 ELSE 0
        /\ \A i \in 1 .. b - 1 + 1 : SubSeq(st, 1, b)[i] = st[1 + i - 1]
    BY <2>1, SubSeqProperties
  <2> HIDE DEF n
  <2>3. Len(head) = b
    BY <2>2
  <2>4. QED
    BY <2>2, <2>3
<1>8. /\ tail \in Seq(Candidate) /\ Len(tail) = n - b
      /\ \A i \in 1 .. n - b : tail[i] = st[b + i]
  <2>1. b + 1 \in Int /\ n \in Int /\ (\A i \in b + 1 .. n : st[i] \in Candidate)
    BY <1>5
  <2>2. /\ SubSeq(st, b + 1, n) \in Seq(Candidate)
        /\ Len(SubSeq(st, b + 1, n)) = IF b + 1 <= n THEN n - (b + 1) + 1 ELSE 0
        /\ \A i \in 1 .. n - (b + 1) + 1 : SubSeq(st, b + 1, n)[i] = st[(b + 1) + i - 1]
    BY <2>1, SubSeqProperties
  <2>3. b \in 0 .. n
    OBVIOUS
  <2> HIDE DEF n
  <2>4. Len(tail) = n - b
    BY <2>2, <2>3, <1>5
  <2>5. n - (b + 1) + 1 = n - b /\ \A i \in 1 .. n - b : (b + 1) + i - 1 = b + i
    BY <2>3, <1>5
  <2>6. QED
    BY <2>2, <2>4, <2>5
<1> HIDE DEF head, tail
<1>9. /\ longer \in Seq(Candidate) /\ Len(longer) = n + 1
      /\ \A i \in 1 .. n + 1 : longer[i] = IF i <= b THEN st[i]
                                           ELSE IF i = b + 1 THEN c ELSE st[i - 1]
  <2> DEFINE hc == head \o <<c>>
  <2>1. b \in 0 .. n /\ b \in Nat
    BY <1>5
  <2> HIDE DEF n
  <2>2. /\ <<c>> \in Seq(Candidate) /\ Len(<<c>>) = 1 /\ <<c>>[1] = c
    OBVIOUS
  <2>3. /\ hc \in Seq(Candidate) /\ Len(hc) = b + 1
        /\ \A i \in 1 .. b + 1 : hc[i] = IF i <= b THEN head[i] ELSE <<c>>[i - b]
    BY <2>2, <1>7, ConcatProperties
  <2>4. \A i \in 1 .. b + 1 : hc[i] = IF i <= b THEN st[i] ELSE c
    BY <2>1, <2>2, <2>3, <1>7
  <2> HIDE DEF hc
  <2>5. /\ hc \o tail \in Seq(Candidate) /\ Len(hc \o tail) = (b + 1) + (n - b)
        /\ \A i \in 1 .. (b + 1) + (n - b) :
             (hc \o tail)[i] = IF i <= b + 1 THEN hc[i] ELSE tail[i - (b + 1)]
    <3>1. /\ hc \o tail \in Seq(Candidate) /\ Len(hc \o tail) = Len(hc) + Len(tail)
          /\ \A i \in 1 .. Len(hc) + Len(tail) :
               (hc \o tail)[i] = IF i <= Len(hc) THEN hc[i] ELSE tail[i - Len(hc)]
      BY <2>3, <1>8, ConcatProperties
    <3>2. Len(hc) = b + 1 /\ Len(tail) = n - b
      BY <2>3, <1>8
    <3>3. QED
      BY <3>1, <3>2
  <2>6. (b + 1) + (n - b) = n + 1
    BY <2>1, <1>5
  <2>7. \A i \in b + 2 .. n + 1 : tail[i - (b + 1)] = st[i - 1]
    <3> SUFFICES ASSUME NEW i \in b + 2 .. n + 1 PROVE tail[i - (b + 1)] = st[i - 1]
      OBVIOUS
    <3>1. i - (b + 1) \in 1 .. n - b /\ b + (i - (b + 1)) = i - 1
      BY <2>1, <1>5
    <3>2. QED
      BY <3>1, <1>8
  <2>8. longer = hc \o tail
    BY <1>6 DEF hc
  <2> HIDE DEF longer
  <2>9. \A i \in 1 .. n + 1 : longer[i] = IF i <= b THEN st[i]
                                          ELSE IF i = b + 1 THEN c ELSE st[i - 1]
    <3> SUFFICES ASSUME NEW i \in 1 .. n + 1
                 PROVE  longer[i] = IF i <= b THEN st[i] ELSE IF i = b + 1 THEN c ELSE st[i - 1]
      OBVIOUS
    <3>1. CASE i <= b + 1
      BY <3>1, <2>1, <2>4, <2>5, <2>6, <2>8
    <3>2. CASE i > b + 1
      BY <3>2, <2>1, <2>5, <2>6, <2>7, <2>8
    <3>3. QED
      BY <3>1, <3>2, <2>1
  <2>10. QED
    BY <2>5, <2>6, <2>8, <2>9
<1> HIDE DEF longer
<1> DEFINE cut == IF n + 1 < K THEN n + 1 ELSE K
<1>10. cut \in 1 .. n + 1 /\ cut = IF n < K THEN n + 1 ELSE K
  BY <1>1, <1>2, <1>5
<1>11. /\ SubSeq(longer, 1, cut) \in Seq(Candidate)
       /\ Len(SubSeq(longer, 1, cut)) = cut
       /\ \A i \in 1 .. cut : SubSeq(longer, 1, cut)[i] = longer[i]
  <2>1. cut \in Int /\ cut >= 1 /\ cut <= n + 1
    BY <1>10, <1>5
  <2> HIDE DEF cut, n
  <2>2. 1 \in Int /\ \A i \in 1 .. cut : longer[i] \in Candidate
    BY <2>1, <1>5, <1>9, ElementOfSeq
  <2>3. /\ SubSeq(longer, 1, cut) \in Seq(Candidate)
        /\ Len(SubSeq(longer, 1, cut)) = IF 1 <= cut THEN cut - 1 + 1 ELSE 0
        /\ \A i \in 1 .. cut - 1 + 1 : SubSeq(longer, 1, cut)[i] = longer[1 + i - 1]
    BY <2>1, <2>2, SubSeqProperties
  <2>4. cut - 1 + 1 = cut /\ \A i \in 1 .. cut : 1 + i - 1 = i
    BY <2>1
  <2>5. QED
    BY <2>1, <2>3, <2>4
<1>12. InsertCandidate(c) = SubSeq(longer, 1, cut)
  BY <1>3, <1>9
<1> HIDE DEF cut
<1>13. \A i \in 1 .. cut : i \in 1 .. n + 1
  BY <1>10, <1>5
<1> DEFINE r == InsertCandidate(c)
<1>14. /\ r \in Seq(Candidate) /\ Len(r) = IF n < K THEN n + 1 ELSE K
       /\ \A i \in 1 .. Len(r) : r[i] = IF i <= b THEN st[i]
                                        ELSE IF i = b + 1 THEN c ELSE st[i - 1]
  BY <1>9, <1>10, <1>11, <1>12, <1>13
<1> HIDE DEF r
<1>15. QED
  BY <1>4, <1>14 DEF st, r

\* One candidate has no place for what K at least as good ones hold.
NoRoomFor(st, e) == Len(st) = K /\ \A i \in DOMAIN st : st[i].energy <= e

\* What an insertion does to the stash: it stays ranked and bounded, it gains
\* nothing but the candidate, no id twice, and what it does not hold afterwards
\* has lost its place to K candidates at least as good.
LEMMA Inserting ==
  ASSUME TypeOK, NEW c \in Candidate,
         \A i \in DOMAIN stash : stash[i].id # c.id,
         \A i, k \in DOMAIN stash : stash[i].id = stash[k].id => i = k
  PROVE  LET st == InsertCandidate(c)
         IN  /\ st \in Seq(Candidate) /\ Len(st) <= K
             /\ \A i, k \in DOMAIN st : i < k => st[i].energy <= st[k].energy
             /\ \A i \in DOMAIN st : st[i] = c \/ \E k \in DOMAIN stash : st[i] = stash[k]
             /\ \A i, k \in DOMAIN st : st[i].id = st[k].id => i = k
             /\ (\E i \in DOMAIN st : st[i] = c) \/ NoRoomFor(st, c.energy)
             /\ \A x \in DOMAIN stash :
                  (\E i \in DOMAIN st : st[i] = stash[x]) \/ NoRoomFor(st, stash[x].energy)
             /\ \A e \in Energies : NoRoomFor(stash, e) => NoRoomFor(st, e)
<1> DEFINE st == InsertCandidate(c)
           n == Len(stash)
<1>1. PICK b \in 0 .. Len(stash) :
        /\ st \in Seq(Candidate)
        /\ Len(st) = IF Len(stash) < K THEN Len(stash) + 1 ELSE K
        /\ \A i \in 1 .. Len(st) :
             st[i] = IF i <= b THEN stash[i] ELSE IF i = b + 1 THEN c ELSE stash[i - 1]
        /\ \A i \in 1 .. b : stash[i].energy <= c.energy
        /\ \A i \in b + 1 .. Len(stash) : c.energy < stash[i].energy
  BY InsertShape
<1>2. /\ DOMAIN stash = 1 .. n
      /\ \A i \in 1 .. n : stash[i] \in Candidate
  BY LenProperties, ElementOfSeq DEF TypeOK
<1>len. n \in Nat /\ n <= K /\ K \in Nat /\ K > 0
  BY LenProperties, SettlementConstants DEF TypeOK
<1>3. c.energy \in Int /\ \A i \in 1 .. n : stash[i].energy \in Int
  BY <1>2, SettlementConstants DEF Candidate
<1>4. /\ b \in Nat /\ b <= n /\ Len(st) \in Nat
      /\ Len(st) <= K /\ Len(st) <= n + 1 /\ n <= Len(st)
      /\ Len(st) = n + 1 \/ (Len(st) = K /\ n = K)
  <2>1. Len(st) = IF n < K THEN n + 1 ELSE K
    BY <1>1
  <2>2. b \in 0 .. n
    OBVIOUS
  <2> HIDE DEF n, st
  <2>3. QED
    BY <1>len, <2>1, <2>2
<1>dom. DOMAIN st = 1 .. Len(st)
  BY <1>1, LenProperties
<1>5. \A i, k \in 1 .. n : i < k => stash[i].energy <= stash[k].energy
  BY <1>2 DEF TypeOK
<1> HIDE DEF st, n
<1>6. /\ \A i \in 1 .. Len(st) : i <= b => st[i] = stash[i] /\ i \in 1 .. n
      /\ b + 1 <= Len(st) => st[b + 1] = c
      /\ \A i \in 1 .. Len(st) : i > b + 1 => st[i] = stash[i - 1] /\ i - 1 \in b + 1 .. n
  BY <1>1, <1>len, <1>4
<1>7. \A i \in 1 .. b : stash[i].energy <= c.energy
  BY <1>1
<1>8. \A i \in b + 1 .. n : c.energy < stash[i].energy
  BY <1>1 DEF n
<1>9. \A i \in DOMAIN st : st[i] = c \/ \E k \in DOMAIN stash : st[i] = stash[k]
  <2> SUFFICES ASSUME NEW i \in 1 .. Len(st)
               PROVE  st[i] = c \/ \E k \in DOMAIN stash : st[i] = stash[k]
    BY <1>dom
  <2>1. CASE i <= b
    BY <2>1, <1>2, <1>6
  <2>2. CASE i = b + 1
    BY <2>2, <1>4, <1>6
  <2>3. CASE i > b + 1
    <3>1. i - 1 \in 1 .. n
      BY <2>3, <1>4, <1>len
    <3>2. QED
      BY <2>3, <3>1, <1>2, <1>6
  <2>4. QED
    BY <2>1, <2>2, <2>3, <1>4
<1>10. \A i, k \in DOMAIN st : i < k => st[i].energy <= st[k].energy
  <2> SUFFICES ASSUME NEW i \in 1 .. Len(st), NEW k \in 1 .. Len(st), i < k
               PROVE  st[i].energy <= st[k].energy
    BY <1>dom
  <2>1. CASE k <= b
    BY <2>1, <1>4, <1>5, <1>6
  <2>2. CASE k = b + 1
    BY <2>2, <1>4, <1>6, <1>7
  <2>3. CASE k > b + 1 /\ i <= b
    <3>1. i \in 1 .. n /\ k - 1 \in 1 .. n /\ i < k - 1
      BY <2>3, <1>4, <1>len
    <3>2. QED
      BY <2>3, <3>1, <1>5, <1>6
  <2>4. CASE k > b + 1 /\ i = b + 1
    <3>1. st[i] = c /\ st[k] = stash[k - 1] /\ k - 1 \in b + 1 .. n /\ k - 1 \in 1 .. n
      BY <2>4, <1>4, <1>6
    <3>2. QED
      BY <3>1, <1>3, <1>8
  <2>5. CASE k > b + 1 /\ i > b + 1
    <3>1. i - 1 \in 1 .. n /\ k - 1 \in 1 .. n /\ i - 1 < k - 1
      BY <2>5, <1>4, <1>len
    <3>2. QED
      BY <2>5, <3>1, <1>5, <1>6
  <2>6. QED
    BY <2>1, <2>2, <2>3, <2>4, <2>5, <1>4
<1>11. \A i, k \in DOMAIN st : st[i].id = st[k].id => i = k
  <2> DEFINE src(i) == IF i <= b THEN i ELSE i - 1
  <2>1. \A i \in 1 .. Len(st) : i # b + 1 => st[i] = stash[src(i)] /\ src(i) \in DOMAIN stash
    <3> SUFFICES ASSUME NEW i \in 1 .. Len(st), i # b + 1
                 PROVE  st[i] = stash[src(i)] /\ src(i) \in DOMAIN stash
      OBVIOUS
    <3>1. CASE i <= b
      BY <3>1, <1>2, <1>6
    <3>2. CASE i > b + 1
      <4>1. i - 1 \in 1 .. n
        BY <3>2, <1>4, <1>len
      <4>2. QED
        BY <3>2, <4>1, <1>4, <1>2, <1>6
    <3>3. QED
      BY <3>1, <3>2, <1>4
  <2>2. \A i \in 1 .. Len(st) : i # b + 1 => st[i].id # c.id
    BY <2>1
  <2>3. \A i, k \in 1 .. Len(st) : i # b + 1 /\ k # b + 1 /\ st[i].id = st[k].id => src(i) = src(k)
    BY <2>1
  <2>4. \A i, k \in 1 .. Len(st) : i # b + 1 /\ k # b + 1 /\ src(i) = src(k) => i = k
    BY <1>4
  <2>5. \A i \in 1 .. Len(st) : i = b + 1 => st[i].id = c.id
    BY <1>6
  <2> HIDE DEF src
  <2>6. QED
    BY <1>dom, <2>2, <2>3, <2>4, <2>5
<1>12. \A i, k \in 1 .. Len(st) : i <= k => st[i].energy <= st[k].energy
  <2>1. \A i \in 1 .. Len(st) : st[i].energy \in Int
    BY <1>9, <1>dom, <1>2, <1>3
  <2>2. QED
    BY <2>1, <1>10, <1>dom
<1>13. (\E i \in DOMAIN st : st[i] = c) \/ NoRoomFor(st, c.energy)
  <2>1. CASE b + 1 <= Len(st)
    <3>1. b + 1 \in DOMAIN st /\ st[b + 1] = c
      BY <2>1, <1>4, <1>6, <1>dom
    <3>2. QED
      BY <3>1
  <2>2. CASE ~(b + 1 <= Len(st))
    <3>1. Len(st) = K /\ b = n /\ n = K
      BY <2>2, <1>4, <1>len
    <3>2. \A i \in 1 .. Len(st) : st[i].energy <= c.energy
      BY <3>1, <1>6, <1>7
    <3>3. QED
      BY <3>1, <3>2, <1>dom DEF NoRoomFor
  <2>3. QED
    BY <2>1, <2>2
<1>14. ASSUME NEW x \in DOMAIN stash
       PROVE  (\E i \in DOMAIN st : st[i] = stash[x]) \/ NoRoomFor(st, stash[x].energy)
  <2>pos. x \in 1 .. n
    BY <1>2
  <2>1. CASE x <= b
    <3>1. x \in 1 .. Len(st)
      BY <2>1, <1>len, <2>pos, <1>4
    <3>2. st[x] = stash[x]
      BY <2>1, <3>1, <1>6
    <3>3. QED
      BY <3>1, <3>2, <1>dom
  <2>2. CASE x > b /\ x + 1 <= Len(st)
    <3>1. x + 1 \in 1 .. Len(st) /\ x + 1 > b + 1 /\ (x + 1) - 1 = x
      BY <2>2, <1>len, <2>pos, <1>4
    <3>2. st[x + 1] = stash[x]
      BY <3>1, <1>6
    <3>3. QED
      BY <3>1, <3>2, <1>dom
  <2>3. CASE x > b /\ ~(x + 1 <= Len(st))
    <3>1. x = n /\ n = K /\ Len(st) = K /\ b < K
      BY <2>3, <1>len, <2>pos, <1>4
    <3>2. st[K].energy <= stash[x].energy
      <4>1. CASE K = b + 1
        <5>1. st[K] = c /\ x \in b + 1 .. n
          BY <4>1, <3>1, <1>2, <1>4, <1>6
        <5>2. QED
          BY <5>1, <1>3, <1>8, <1>2
      <4>2. CASE K > b + 1
        <5>1. K \in 1 .. Len(st) /\ st[K] = stash[K - 1] /\ K - 1 \in 1 .. n /\ K - 1 < x /\ x \in 1 .. n
          BY <4>2, <3>1, <1>2, <1>4, <1>6
        <5>2. QED
          BY <5>1, <1>5
      <4>3. QED
        BY <4>1, <4>2, <3>1, <1>2, <1>4
    <3>3. \A i \in 1 .. Len(st) : st[i].energy <= st[K].energy
      BY <3>1, <1>12, <1>2
    <3>4. \A i \in 1 .. Len(st) : st[i].energy \in Int
      BY <1>9, <1>dom, <1>2, <1>3
    <3>5. \A i \in 1 .. Len(st) : st[i].energy <= stash[x].energy
      BY <3>1, <3>2, <3>3, <3>4, <1>2, <1>3
    <3>6. QED
      BY <3>1, <3>5, <1>dom DEF NoRoomFor
  <2>4. QED
    BY <2>1, <2>2, <2>3, <2>pos, <1>4
<1>15. ASSUME NEW e \in Energies, NoRoomFor(stash, e) PROVE NoRoomFor(st, e)
  <2>0. n = K /\ \A i \in 1 .. n : stash[i].energy <= e
    BY <1>15, <1>2 DEF NoRoomFor, n
  <2>1. n = K /\ Len(st) = K /\ \A i \in 1 .. n : stash[i].energy <= e
    BY <2>0, <1>len, <1>4
  <2>2. e \in Int
    BY SettlementConstants
  <2>3. ASSUME NEW i \in 1 .. Len(st) PROVE st[i].energy <= e
    <3>1. CASE i <= b
      BY <3>1, <2>1, <1>6
    <3>2. CASE i = b + 1
      <4>1. st[i] = c /\ i \in b + 1 .. n /\ i \in 1 .. n
        BY <3>2, <2>1, <1>4, <1>6
      <4>2. QED
        BY <4>1, <2>1, <2>2, <1>3, <1>8
    <3>3. CASE i > b + 1
      <4>1. st[i] = stash[i - 1] /\ i - 1 \in 1 .. n
        BY <3>3, <1>4, <1>6
      <4>2. QED
        BY <4>1, <2>1
    <3>4. QED
      BY <3>1, <3>2, <3>3, <1>4
  <2>4. QED
    BY <2>1, <2>3, <1>dom DEF NoRoomFor
<1>16. QED
  BY <1>1, <1>4, <1>9, <1>10, <1>11, <1>13, <1>14, <1>15 DEF st
-----------------------------------------------------------------------------
(***************************************************************************)
(* The inductive invariant                                                 *)
(***************************************************************************)

\* A set whose elements are all equal has at most one.
LEMMA AtMostOneCardinality ==
  ASSUME NEW S, AtMostOne(S)
  PROVE  Cardinality(S) <= 1
<1>1. CASE S = {}
  BY <1>1, FS_EmptySet
<1>2. CASE S # {}
  <2>1. PICK x \in S : TRUE
    BY <1>2
  <2>2. S = {x}
    BY <2>1 DEF AtMostOne
  <2>3. Cardinality({x}) = 1
    BY FS_Singleton
  <2>4. QED
    BY <2>2, <2>3
<1>3. QED
  BY <1>1, <1>2

\* Nothing is reported, stashed or owed at the start.
LEMMA InitHolds ==
  ASSUME Init
  PROVE  IInv
<1>1. 0 \in 0 .. MaxElapsed /\ 0 \in 0 .. MaxGeneration /\ 0 \in 0 .. MaxAttempts
      /\ 0 < MaxAttempts /\ 0 <= K /\ Ceiling[0] \in Int
  BY SettlementConstants
<1>2. Cardinality({}) <= 1 /\ <<>> \in Seq(Candidate) /\ Len(<<>>) = 0 /\ DOMAIN <<>> = {}
  BY FS_EmptySet, EmptySeq
<1>3. TypeOK
  BY <1>1, <1>2 DEF Init, TypeOK
<1>4. Shape
  BY <1>1 DEF Init, Shape, AtMostOne
<1>5. OnePlace /\ Unfinished /\ Owing /\ WinnersKept
  BY <1>1, <1>2 DEF Init, OnePlace, Unfinished, Owing, WinnersKept
<1>6. QED
  BY <1>3, <1>4, <1>5 DEF IInv

\* A session starts to settle a result nobody reported before.
LEMMA BeginSettleHolds ==
  ASSUME IInv, NEW s \in Sessions, NEW id \in Ids, NEW e \in Energies, NEW reach \in Energies,
         BeginSettle(s, id, e, reach)
  PROVE  IInv'
<1> DEFINE result == [id |-> id, energy |-> e, reach |-> reach, generation |-> generation]
           accepted == reach < target
           step == IF accepted /\ Beats(e, current_best_milli) THEN "submitting" ELSE "recording"
           new == [result |-> result, step |-> step, offer |-> ~accepted]
<1>1. /\ settling' = [settling EXCEPT ![s] = {new}]
      /\ settling[s] = {} /\ id \notin reported /\ e <= reach /\ mining
      /\ reported' = reported \union {id}
      /\ UNCHANGED <<roundVars, current_best_milli, stash, submitting, ledger, best_from,
                     finished, owed>>
  BY DEF BeginSettle
<1>2. /\ settling \in [Sessions -> SUBSET Settling]
      /\ reported \subseteq Ids /\ finished \subseteq reported
  BY DEF IInv, Shape
<1>3. generation \in Nat /\ result \in Outcome
  BY SettlementConstants DEF IInv, TypeOK, Outcome
<1>4. new \in Settling /\ new.result = result /\ new.step = step
  BY <1>3 DEF Settling
<1>5. step = "submitting" => Admitted(e)
  <2>1. PICK n \in 0 .. MaxElapsed : target = Ceiling[n]
    BY DEF IInv, Shape
  <2>2. Ceiling[n] \in Int /\ e \in Int /\ reach \in Int
    BY SettlementConstants
  <2>3. QED
    BY <1>1, <2>1, <2>2 DEF Admitted
<1> HIDE DEF new, result, step
<1>6. /\ settling' \in [Sessions -> SUBSET Settling]
      /\ settling'[s] = {new}
      /\ \A t \in Sessions : t # s => settling'[t] = settling[t]
  BY <1>1, <1>2, <1>4
<1>7. result.id = id /\ result.energy = e /\ result.generation = generation
  BY DEF result
<1>8. \A t \in Sessions : AtMostOne(settling'[t])
  BY <1>6 DEF IInv, Shape, AtMostOne
<1>9. TypeOK'
  <2>1. \A t \in Sessions : Cardinality(settling'[t]) <= 1
    BY <1>8, AtMostOneCardinality
  <2>2. QED
    BY <2>1, <1>1 DEF IInv, TypeOK, roundVars
<1>10. Shape'
  BY <1>1, <1>2, <1>6, <1>8 DEF IInv, Shape, roundVars, AtMostOne
<1>11. OnePlace'
  <2>1. \A t \in Sessions : \A p \in settling[t] : p.result.id \in reported
    BY DEF IInv, OnePlace
  <2>2. \A i \in DOMAIN stash : stash[i].id \in reported
    BY DEF IInv, OnePlace
  <2>3. \A c \in submitting : c.id \in reported
    BY DEF IInv, Unfinished
  <2>4. QED
    BY <1>1, <1>2, <1>4, <1>6, <1>7, <2>1, <2>2, <2>3 DEF IInv, OnePlace
<1>12. Unfinished'
  BY <1>1 DEF IInv, Unfinished
<1>13. Owing'
  <2>1. \A r \in owed : r.id # id
    BY <1>1 DEF IInv, Owing
  <2>2. UNCHANGED <<owed, stash, mining, generation>>
    BY <1>1 DEF roundVars
  <2>3. \A t \in Sessions : \A p \in settling'[t] :
          /\ p.result.generation <= generation
          /\ ~mining => p.result.generation < generation
          /\ p.step = "submitting" => Admitted(p.result.energy)
    BY <1>1, <1>3, <1>4, <1>5, <1>6, <1>7 DEF IInv, Owing
  <2>4. \A r \in owed : \A t \in Sessions : \A p \in settling'[t] :
          p.result.id = r.id => p.result = r /\ p.step = "recording" /\ p.offer
    BY <1>4, <1>6, <1>7, <2>1 DEF IInv, Owing
  <2>5. QED
    BY <1>1, <2>2, <2>3, <2>4 DEF IInv, Owing, Admitted
<1>14. WinnersKept'
  <2>1. ASSUME NEW r, Kept(r) PROVE Kept(r)'
    BY <2>1, <1>1, <1>6 DEF Kept
  <2>2. QED
    BY <1>1, <2>1 DEF IInv, WinnersKept, roundVars
<1>15. QED
  BY <1>9, <1>10, <1>11, <1>12, <1>13, <1>14 DEF IInv

\* The answer to a session's submit: a winner the chain did not take for good
\* becomes owed, and its session is about to offer it.
LEMMA SubmitAnsweredHolds ==
  ASSUME IInv, NEW s \in Sessions, NEW answer \in Answers, SubmitAnswered(s, answer)
  PROVE  IInv'
<1>1. PICK p \in settling[s] :
        /\ p.step = "submitting"
        /\ settling' = [settling EXCEPT
             ![s] = {[p EXCEPT !.step = "recording", !.offer = answer \in {"Retry", "Err"}]}]
        /\ current_best_milli' = IF answer = "Success" THEN {p.result.energy}
                                                       ELSE current_best_milli
        /\ owed' = IF answer \in {"Retry", "Err"} /\ p.result.generation = generation
                   THEN owed \union {p.result} ELSE owed
        /\ UNCHANGED <<roundVars, stash, submitting, ledger, reported, finished>>
  BY DEF SubmitAnswered
<1> DEFINE new == [p EXCEPT !.step = "recording", !.offer = answer \in {"Retry", "Err"}]
<1>2. settling \in [Sessions -> SUBSET Settling] /\ p \in Settling
  BY DEF IInv, Shape
<1>3. /\ new \in Settling /\ new.result = p.result /\ new.step = "recording"
      /\ new.offer = (answer \in {"Retry", "Err"})
  <2> DEFINE keep == answer \in {"Retry", "Err"}
  <2>1. keep \in BOOLEAN /\ new = [p EXCEPT !.step = "recording", !.offer = keep]
    OBVIOUS
  <2> HIDE DEF keep, new
  <2>2. new \in Settling /\ new.result = p.result /\ new.step = "recording" /\ new.offer = keep
    BY <1>2, <2>1 DEF Settling
  <2>3. QED
    BY <2>2 DEF keep
<1>4. p.result \in Outcome
  BY <1>2 DEF Settling
<1>5. settling[s] = {p}
  BY DEF IInv, Shape, AtMostOne
<1>6. settling' = [settling EXCEPT ![s] = {new}]
  BY <1>1
<1> HIDE DEF new
<1>7. /\ settling' \in [Sessions -> SUBSET Settling]
      /\ settling'[s] = {new}
      /\ \A t \in Sessions : t # s => settling'[t] = settling[t]
  BY <1>2, <1>3, <1>6
<1>8. \A t \in Sessions : AtMostOne(settling'[t])
  BY <1>7 DEF IInv, Shape, AtMostOne
<1>9. \A t \in Sessions : \A q \in settling'[t] : \E o \in settling[t] : o.result = q.result
  BY <1>3, <1>5, <1>7
<1>10. \A t \in Sessions : \A q \in settling[t] : \E o \in settling'[t] : o.result = q.result
  BY <1>3, <1>5, <1>7
<1>11. TypeOK'
  <2>1. \A t \in Sessions : Cardinality(settling'[t]) <= 1
    BY <1>8, AtMostOneCardinality
  <2>2. current_best_milli' \in {{}} \union {{e} : e \in Energies}
    BY <1>1, <1>4 DEF IInv, TypeOK, Outcome
  <2>3. owed' \subseteq Outcome
    BY <1>1, <1>4 DEF IInv, TypeOK
  <2>4. QED
    BY <2>1, <2>2, <2>3, <1>1 DEF IInv, TypeOK, roundVars
<1>12. Shape'
  BY <1>1, <1>7, <1>8 DEF IInv, Shape, roundVars, AtMostOne
<1>13. OnePlace'
  BY <1>1, <1>9 DEF IInv, OnePlace
<1>14. Unfinished'
  BY <1>1 DEF IInv, Unfinished
<1>15. Owing'
  <2>1. UNCHANGED <<stash, mining, generation, reported>>
    BY <1>1 DEF roundVars
  <2>2. Admitted(p.result.energy) /\ p.result.id \in reported
    BY <1>1 DEF IInv, Owing, OnePlace
  <2>3. \A r \in owed' : r \in owed \/ (r = p.result /\ new.offer /\ p.result.generation = generation)
    BY <1>1, <1>3
  <2>4. \A r \in owed : p.result.id # r.id
    BY <1>1 DEF IInv, Owing
  <2>5. \A i \in DOMAIN stash : stash[i].id # p.result.id
    BY DEF IInv, OnePlace
  <2>6. \A t \in Sessions : \A q \in settling[t] : q.result.id = p.result.id => t = s
    BY DEF IInv, OnePlace
  <2>7. \A r \in owed' : r.id \in reported /\ Admitted(r.energy)
    BY <2>2, <2>3 DEF IInv, Owing
  <2>8. \A r \in owed' : \A i \in DOMAIN stash : stash[i].id = r.id => stash[i].energy = r.energy
    BY <2>3, <2>5 DEF IInv, Owing
  <2>9. ASSUME NEW r \in owed', NEW t \in Sessions, NEW q \in settling'[t], q.result.id = r.id
        PROVE  q.result = r /\ q.step = "recording" /\ q.offer
    <3>1. CASE t # s
      <4>1. q \in settling[t] /\ r # p.result
        BY <3>1, <2>9, <1>7, <2>6
      <4>2. QED
        BY <4>1, <2>3, <2>9 DEF IInv, Owing
    <3>2. CASE t = s
      <4>1. q = new /\ q.result = p.result
        BY <3>2, <1>3, <1>7
      <4>2. r = p.result /\ new.offer
        BY <4>1, <2>3, <2>4, <2>9
      <4>3. QED
        BY <4>1, <4>2, <1>3
    <3>3. QED
      BY <3>1, <3>2
  <2>10. ASSUME NEW t \in Sessions, NEW q \in settling'[t]
         PROVE  /\ q.result.generation <= generation
                /\ ~mining => q.result.generation < generation
                /\ q.step = "submitting" => Admitted(q.result.energy)
    <3>1. CASE t # s
      BY <3>1, <1>7 DEF IInv, Owing
    <3>2. CASE t = s
      <4>1. q = new
        BY <3>2, <1>7
      <4>2. QED
        BY <4>1, <1>3 DEF IInv, Owing
    <3>3. QED
      BY <3>1, <3>2
  <2>11. ~mining => owed' = {}
    <3> SUFFICES ASSUME ~mining PROVE owed' = {}
      OBVIOUS
    <3>1. p.result.generation < generation /\ owed = {}
      BY DEF IInv, Owing
    <3>2. p.result.generation \in Nat /\ generation \in Nat
      BY <1>4, SettlementConstants DEF Outcome, IInv, TypeOK
    <3>3. QED
      BY <3>1, <3>2, <1>1
  <2>12. QED
    BY <2>1, <2>7, <2>8, <2>9, <2>10, <2>11 DEF Owing, Admitted
<1>16. WinnersKept'
  <2>1. ASSUME NEW r, Kept(r) PROVE Kept(r)'
    BY <2>1, <1>1, <1>10 DEF Kept
  <2>2. Kept(p.result)'
    BY <1>3, <1>7 DEF Kept
  <2>3. QED
    BY <1>1, <2>1, <2>2 DEF IInv, WinnersKept, roundVars
<1>17. QED
  BY <1>11, <1>12, <1>13, <1>14, <1>15, <1>16 DEF IInv

\* The session records the attempt. A result it offers takes its place in the
\* stash, or K candidates at least as good have it.
LEMMA RecordAttemptHolds ==
  ASSUME IInv, NEW s \in Sessions, RecordAttempt(s)
  PROVE  IInv'
<1>1. PICK p \in settling[s] :
        /\ p.step = "recording"
        /\ settling' = [settling EXCEPT ![s] = {}]
        /\ stash' = IF p.offer
                    THEN Inserted([id |-> p.result.id, energy |-> p.result.energy,
                                   reach |-> p.result.reach, generation |-> p.result.generation,
                                   submitted |-> FALSE])
                    ELSE stash
        /\ UNCHANGED <<roundVars, current_best_milli, submitting, ledger, reported,
                       best_from, finished, owed>>
  BY DEF RecordAttempt
<1> DEFINE c == [id |-> p.result.id, energy |-> p.result.energy, reach |-> p.result.reach,
                 generation |-> p.result.generation, submitted |-> FALSE]
<1>2. /\ settling \in [Sessions -> SUBSET Settling] /\ p \in Settling
      /\ p.result \in Outcome /\ c \in Candidate
  BY DEF IInv, Shape, Settling, Outcome, Candidate
<1>3. c.id = p.result.id /\ c.energy = p.result.energy /\ c.submitted = FALSE
  OBVIOUS
<1>4. stash' = stash \/ (p.offer /\ stash' = InsertCandidate(c))
  BY <1>1 DEF Inserted
<1>5. viability_block(c.energy) <= MaxElapsed /\ p.offer => stash' = InsertCandidate(c)
  BY <1>1 DEF Inserted
<1> HIDE DEF c
<1>6. /\ settling'[s] = {} /\ \A t \in Sessions : t # s => settling'[t] = settling[t]
      /\ settling' \in [Sessions -> SUBSET Settling] /\ settling[s] = {p}
  BY <1>1, <1>2 DEF IInv, Shape, AtMostOne
<1>7. \A t \in Sessions : settling'[t] \subseteq settling[t]
  BY <1>6
<1>8. /\ \A i \in DOMAIN stash : stash[i].id # c.id
      /\ \A i, k \in DOMAIN stash : stash[i].id = stash[k].id => i = k
  BY <1>3 DEF IInv, OnePlace
<1>9. stash' = InsertCandidate(c) =>
        /\ stash' \in Seq(Candidate) /\ Len(stash') <= K
        /\ \A i, k \in DOMAIN stash' : i < k => stash'[i].energy <= stash'[k].energy
        /\ \A i \in DOMAIN stash' : stash'[i] = c \/ \E k \in DOMAIN stash : stash'[i] = stash[k]
        /\ \A i, k \in DOMAIN stash' : stash'[i].id = stash'[k].id => i = k
        /\ (\E i \in DOMAIN stash' : stash'[i] = c) \/ NoRoomFor(stash', c.energy)
        /\ \A x \in DOMAIN stash :
             (\E i \in DOMAIN stash' : stash'[i] = stash[x]) \/ NoRoomFor(stash', stash[x].energy)
        /\ \A e \in Energies : NoRoomFor(stash, e) => NoRoomFor(stash', e)
  BY <1>2, <1>8, Inserting DEF IInv
<1>10. \A i \in DOMAIN stash' :
         (p.offer /\ stash'[i] = c) \/ \E k \in DOMAIN stash : stash'[i] = stash[k]
  BY <1>4, <1>9
<1>11. TypeOK'
  <2>1. \A t \in Sessions : Cardinality(settling'[t]) <= 1
    <3>1. \A t \in Sessions : AtMostOne(settling'[t])
      BY <1>7 DEF IInv, Shape, AtMostOne
    <3>2. QED
      BY <3>1, AtMostOneCardinality
  <2>2. /\ stash' \in Seq(Candidate) /\ Len(stash') <= K
        /\ \A i, k \in DOMAIN stash' : i < k => stash'[i].energy <= stash'[k].energy
    BY <1>4, <1>9 DEF IInv, TypeOK
  <2>3. QED
    BY <2>1, <2>2, <1>1 DEF IInv, TypeOK, roundVars
<1>12. Shape'
  BY <1>1, <1>6, <1>7 DEF IInv, Shape, roundVars, AtMostOne
<1>13. OnePlace'
  <2>1. \A t \in Sessions : \A q \in settling'[t] : q \in settling[t] /\ q.result.id # c.id
    BY <1>3, <1>6 DEF IInv, OnePlace
  <2>2. \A i, k \in DOMAIN stash' : stash'[i].id = stash'[k].id => i = k
    BY <1>4, <1>8, <1>9
  <2>3. c.id \in reported
    BY <1>3 DEF IInv, OnePlace
  <2>4. \A i \in DOMAIN stash' : stash'[i].id \in reported
    BY <1>10, <2>3 DEF IInv, OnePlace
  <2>5. \A t \in Sessions : \A q \in settling'[t] : \A i \in DOMAIN stash' : stash'[i].id # q.result.id
    BY <1>10, <2>1 DEF IInv, OnePlace
  <2>6. ASSUME NEW t \in Sessions, NEW q \in settling'[t]
        PROVE  /\ q.result.id \in reported \ finished
               /\ \A x \in submitting : x.id # q.result.id
               /\ \A u \in Sessions : \A o \in settling'[u] : o.result.id = q.result.id => t = u
    BY <1>7, <2>1 DEF IInv, OnePlace
  <2>7. UNCHANGED <<reported, finished, submitting>>
    BY <1>1
  <2>8. QED
    BY <2>2, <2>4, <2>5, <2>6, <2>7 DEF OnePlace
<1>14. Unfinished'
  <2>1. c.id \notin finished
    BY <1>3 DEF IInv, OnePlace
  <2>2. \A i \in DOMAIN stash' : ~stash'[i].submitted => stash'[i].id \notin finished
    BY <1>10, <2>1 DEF IInv, Unfinished
  <2>3. QED
    BY <1>1, <2>2 DEF IInv, Unfinished
<1>15. Owing'
  <2>1. UNCHANGED <<owed, mining, generation, reported>>
    BY <1>1 DEF roundVars
  <2>2. \A r \in owed : r.id = c.id => r.energy = c.energy
    BY <1>3 DEF IInv, Owing
  <2>3. \A r \in owed : \A i \in DOMAIN stash' : stash'[i].id = r.id => stash'[i].energy = r.energy
    BY <1>10, <2>2 DEF IInv, Owing
  <2>4. QED
    BY <1>7, <2>1, <2>3 DEF IInv, Owing, Admitted
<1>16. WinnersKept'
  <2> SUFFICES ASSUME model # "none", NEW r \in owed PROVE Kept(r)'
    BY <1>1 DEF WinnersKept, roundVars
  <2>1. Kept(r) /\ r \in Outcome
    BY DEF IInv, WinnersKept, TypeOK
  <2>2. CASE \E t \in Sessions : \E q \in settling[t] : q.result = r /\ t # s
    BY <2>2, <1>6 DEF Kept
  <2>3. CASE p.result = r
    <3>1. p.offer /\ Admitted(r.energy)
      BY <2>3 DEF IInv, Owing
    <3>2. Clearing[model][r.energy] <= MaxElapsed
      <4>1. r.energy \in Energies /\ model \in Rules
        BY <2>1 DEF Outcome, IInv, TypeOK
      <4>2. QED
        BY <3>1, <4>1, ProjectionCovers DEF Admitted
    <3>3. stash' = InsertCandidate(c)
      BY <3>1, <3>2, <2>3, <1>3, <1>5 DEF viability_block
    <3>4. (\E i \in DOMAIN stash' : stash'[i] = c) \/ NoRoomFor(stash', c.energy)
      BY <3>3, <1>9
    <3>5. QED
      BY <3>4, <2>3, <1>3 DEF Kept, NoRoomFor
  <2>4. CASE \E x \in DOMAIN stash : stash[x].id = r.id
    <3>1. PICK x \in DOMAIN stash : stash[x].id = r.id
      BY <2>4
    <3>2. stash[x].energy = r.energy
      BY <3>1 DEF IInv, Owing
    <3>3. (\E i \in DOMAIN stash' : stash'[i] = stash[x]) \/ NoRoomFor(stash', stash[x].energy)
      BY <1>4, <1>9
    <3>4. QED
      BY <3>1, <3>2, <3>3 DEF Kept, NoRoomFor
  <2>5. CASE NoRoomFor(stash, r.energy)
    <3>1. r.energy \in Energies
      BY <2>1 DEF Outcome
    <3>2. NoRoomFor(stash', r.energy)
      BY <2>5, <3>1, <1>4, <1>9
    <3>3. QED
      BY <3>2 DEF Kept, NoRoomFor
  <2>6. QED
    BY <2>1, <2>2, <2>3, <2>4, <2>5, <1>6 DEF Kept, NoRoomFor
<1>17. QED
  BY <1>11, <1>12, <1>13, <1>14, <1>15, <1>16 DEF IInv

\* A new round forgets the stash and what was owed; results of the old round
\* are still being settled.
LEMMA StopMiningHolds ==
  ASSUME IInv, StopMining
  PROVE  IInv'
<1>1. DOMAIN <<>> = {} /\ <<>> \in Seq(Candidate) /\ Len(<<>>) = 0 /\ K \in Nat
  BY EmptySeq, SettlementConstants
<1>2. generation \in Nat /\ generation' = generation + 1 /\ generation' \in 0 .. MaxGeneration
  BY SettlementConstants DEF StopMining, IInv, TypeOK
<1>3. TypeOK'
  <2>1. /\ stash' \in Seq(Candidate) /\ Len(stash') <= K
        /\ \A i, k \in DOMAIN stash' : i < k => stash'[i].energy <= stash'[k].energy
    BY <1>1 DEF StopMining
  <2>2. QED
    BY <1>2, <2>1 DEF StopMining, IInv, TypeOK
<1>4. Shape'
  BY DEF StopMining, IInv, Shape, AtMostOne
<1>5. OnePlace' /\ Unfinished'
  BY <1>1 DEF StopMining, IInv, OnePlace, Unfinished
<1>6. Owing'
  <2>1. \A s \in Sessions : \A p \in settling[s] : p.result.generation \in Nat
    BY DEF IInv, Shape, Settling, Outcome
  <2>2. ASSUME NEW s \in Sessions, NEW p \in settling[s]
        PROVE  p.result.generation < generation' /\ p.result.generation <= generation'
    <3>1. p.result.generation <= generation
      BY DEF IInv, Owing
    <3>2. QED
      BY <3>1, <2>1, <1>2
  <2>3. \A s \in Sessions : \A p \in settling[s] :
          p.step = "submitting" => Admitted(p.result.energy)
    BY DEF IInv, Owing
  <2>4. QED
    BY <1>1, <2>2, <2>3 DEF StopMining, Owing, Admitted
<1>7. WinnersKept'
  BY DEF StopMining, WinnersKept
<1>8. QED
  BY <1>3, <1>4, <1>5, <1>6, <1>7 DEF IInv

\* A reseed arms an empty stash; nothing is owed when it does.
LEMMA ReseedHolds ==
  ASSUME IInv, NEW rule \in Rules \union {"none"}, NEW newRoot \in BOOLEAN, Reseed(rule, newRoot)
  PROVE  IInv'
<1>1. DOMAIN <<>> = {} /\ <<>> \in Seq(Candidate) /\ Len(<<>>) = 0 /\ K \in Nat
  BY EmptySeq, SettlementConstants
<1>2. elapsed' \in 0 .. MaxElapsed /\ target' = Ceiling[elapsed'] /\ Ceiling[elapsed'] \in Int
  BY SettlementConstants DEF Reseed, IInv, TypeOK
<1>3. /\ ledger' \in [Ids -> 0 .. MaxAttempts]
      /\ \A id \in Ids : id \notin finished => ledger'[id] < MaxAttempts
  BY SettlementConstants DEF Reseed, IInv, TypeOK, Unfinished
<1>4. TypeOK'
  BY <1>1, <1>2, <1>3 DEF Reseed, IInv, TypeOK
<1>5. Shape'
  BY <1>2 DEF Reseed, IInv, Shape, AtMostOne
<1>6. OnePlace' /\ Unfinished'
  BY <1>1, <1>3 DEF Reseed, IInv, OnePlace, Unfinished
<1>7. owed' = {}
  BY DEF Reseed, IInv, Owing
<1>8. Owing'
  BY <1>1, <1>7 DEF Reseed, IInv, Owing, Admitted
<1>9. WinnersKept'
  BY <1>7 DEF WinnersKept
<1>10. QED
  BY <1>4, <1>5, <1>6, <1>8, <1>9 DEF IInv

\* The feeder picks one unsubmitted candidate of the stash or none.
LEMMA PollHolds ==
  ASSUME IInv, NEW blocks \in 0 .. 1, NEW ahead \in 0 .. 1, NEW rule \in Rules,
         Poll(blocks, ahead, rule)
  PROVE  IInv'
<1>1. /\ elapsed' \in 0 .. MaxElapsed /\ target' = Ceiling[elapsed'] /\ Ceiling[elapsed'] \in Int
      /\ UNCHANGED <<generation, mining, current_best_milli, stash, settling, ledger, reported,
                     best_from, finished, owed>>
  BY SettlementConstants DEF Poll, IInv, TypeOK
<1>2. DOMAIN stash \subseteq Nat /\ \A i \in DOMAIN stash : stash[i] \in Candidate
  BY LenProperties, ElementOfSeq DEF IInv, TypeOK
<1>3. \A c \in submitting' : \E i \in DOMAIN stash :
        /\ c = stash[i] /\ ~stash[i].submitted
        /\ \A d \in submitting' : \E k \in DOMAIN stash : d = stash[k] /\ i <= k /\ k <= i
  BY <1>2 DEF Poll, due_improving, due_at
<1>4. AtMostOne(submitting')
  <2> SUFFICES ASSUME NEW c \in submitting', NEW d \in submitting' PROVE c = d
    BY DEF AtMostOne
  <2>1. PICK i \in DOMAIN stash :
          /\ c = stash[i]
          /\ \A x \in submitting' : \E k \in DOMAIN stash : x = stash[k] /\ i <= k /\ k <= i
    BY <1>3
  <2>2. PICK k \in DOMAIN stash : d = stash[k] /\ i <= k /\ k <= i
    BY <2>1
  <2>3. i = k
    BY <2>2, <1>2
  <2>4. QED
    BY <2>1, <2>2, <2>3
<1>5. TypeOK'
  <2>1. submitting' \subseteq Candidate
    BY <1>2, <1>3
  <2>2. Cardinality(submitting') <= 1
    BY <1>4, AtMostOneCardinality
  <2>3. model' \in Rules \union {"none"}
    BY DEF Poll, IInv, TypeOK
  <2>4. QED
    BY <2>1, <2>2, <2>3, <1>1 DEF IInv, TypeOK
<1>6. Shape'
  BY <1>1, <1>4 DEF IInv, Shape, AtMostOne
<1>7. OnePlace'
  BY <1>1, <1>3 DEF IInv, OnePlace
<1>8. Unfinished'
  BY <1>1, <1>3 DEF IInv, Unfinished, OnePlace
<1>9. Owing'
  BY <1>1 DEF IInv, Owing, Admitted
<1>10. WinnersKept'
  <2>1. model' # "none" => model # "none"
    BY DEF Poll
  <2>2. ASSUME NEW r, Kept(r) PROVE Kept(r)'
    BY <2>2, <1>1 DEF Kept
  <2>3. QED
    BY <1>1, <2>1, <2>2 DEF IInv, WinnersKept
<1>11. QED
  BY <1>5, <1>6, <1>7, <1>8, <1>9, <1>10 DEF IInv

\* Marking changes nothing but the mark, and reaches the candidate with this
\* id if the stash still has it (mark_submitted).
LEMMA Marking ==
  ASSUME TypeOK, NEW id,
         \A i, k \in DOMAIN stash : stash[i].id = stash[k].id => i = k
  PROVE  /\ Marked(id) \in Seq(Candidate) /\ Len(Marked(id)) = Len(stash)
         /\ DOMAIN Marked(id) = DOMAIN stash
         /\ \A i \in DOMAIN stash : /\ Marked(id)[i].id = stash[i].id
                                    /\ Marked(id)[i].energy = stash[i].energy
                                    /\ stash[i].submitted => Marked(id)[i].submitted
                                    /\ stash[i].id = id => Marked(id)[i].submitted
<1>1. /\ stash \in Seq(Candidate) /\ DOMAIN stash = 1 .. Len(stash) /\ Len(stash) \in Nat
      /\ \A i \in DOMAIN stash : stash[i] \in Candidate
  BY LenProperties, ElementOfSeq DEF TypeOK
<1>2. ASSUME NEW i \in DOMAIN stash
      PROVE  /\ Marked(id)[i] \in Candidate
             /\ Marked(id)[i].id = stash[i].id
             /\ Marked(id)[i].energy = stash[i].energy
             /\ stash[i].submitted => Marked(id)[i].submitted
             /\ stash[i].id = id => Marked(id)[i].submitted
  <2>1. stash[i].id = id => \A k \in 1 .. i - 1 : stash[k].id # id
    <3> SUFFICES ASSUME stash[i].id = id, NEW k \in 1 .. i - 1 PROVE stash[k].id # id
      OBVIOUS
    <3>1. k \in DOMAIN stash /\ k # i
      BY <1>1
    <3>2. QED
      BY <3>1
  <2>2. Marked(id)[i] = IF stash[i].id = id THEN [stash[i] EXCEPT !.submitted = TRUE] ELSE stash[i]
    BY <2>1 DEF Marked
  <2>3. QED
    BY <2>2, <1>1 DEF Candidate
<1>3. DOMAIN Marked(id) = 1 .. Len(stash)
  BY <1>1 DEF Marked
<1>4. Marked(id) \in [1 .. Len(stash) -> Candidate]
  BY <1>1, <1>2 DEF Marked
<1>5. Marked(id) \in Seq(Candidate)
  BY <1>1, <1>4, SeqDef
<1>6. Len(Marked(id)) = Len(stash)
  BY <1>1, <1>3, <1>5, LenProperties
<1>7. QED
  BY <1>1, <1>2, <1>3, <1>5, <1>6

\* The answer to the feeder's submit: what it is done with is marked and never
\* picked again, the rest has attempts left.
LEMMA WinTimeAnsweredHolds ==
  ASSUME IInv, NEW answer \in Answers, WinTimeAnswered(answer)
  PROVE  IInv'
<1>1. PICK c \in submitting :
    /\ submitting' = {}
    /\ LET done == \/ answer \in {"Success", "StopRoundStale", "StopFatal"}
                   \/ answer = "Retry" /\ Exhausted(c.id)
       IN  /\ stash' = IF done THEN Marked(c.id) ELSE stash
           /\ finished' = IF done THEN finished \union {c.id} ELSE finished
    /\ ledger' = CASE answer = "Success" -> [ledger EXCEPT ![c.id] = 0]
                   [] answer = "Retry"   -> [ledger EXCEPT ![c.id] = @ + 1]
                   [] OTHER              -> ledger
    /\ current_best_milli' = IF answer = "Success" THEN {c.energy} ELSE current_best_milli
    /\ UNCHANGED <<roundVars, settling, reported, owed>>
  BY DEF WinTimeAnswered
<1>2. /\ c \in Candidate /\ c.id \in Ids /\ c.energy \in Energies
      /\ c.id \in reported /\ c.id \notin finished
  BY DEF IInv, TypeOK, Unfinished, Candidate
<1>3. /\ Marked(c.id) \in Seq(Candidate) /\ Len(Marked(c.id)) = Len(stash)
      /\ DOMAIN Marked(c.id) = DOMAIN stash
      /\ \A i \in DOMAIN stash : /\ Marked(c.id)[i].id = stash[i].id
                                 /\ Marked(c.id)[i].energy = stash[i].energy
                                 /\ stash[i].submitted => Marked(c.id)[i].submitted
                                 /\ stash[i].id = c.id => Marked(c.id)[i].submitted
  BY Marking DEF IInv, OnePlace
<1>4. /\ stash' \in Seq(Candidate) /\ Len(stash') = Len(stash)
      /\ DOMAIN stash' = DOMAIN stash
      /\ \A i \in DOMAIN stash : /\ stash'[i].id = stash[i].id
                                 /\ stash'[i].energy = stash[i].energy
  BY <1>1, <1>3 DEF IInv, TypeOK
<1>5. ledger[c.id] \in Nat /\ ledger[c.id] < MaxAttempts
  BY <1>2, SettlementConstants DEF IInv, TypeOK, Unfinished
<1>6. /\ ledger' \in [Ids -> 0 .. MaxAttempts]
      /\ \A id \in Ids : id # c.id => ledger'[id] = ledger[id]
  <2>1. ledger \in [Ids -> 0 .. MaxAttempts] /\ MaxAttempts \in Nat
    BY SettlementConstants DEF IInv, TypeOK
  <2>2. \/ ledger' = [ledger EXCEPT ![c.id] = 0]
        \/ ledger' = [ledger EXCEPT ![c.id] = ledger[c.id] + 1]
        \/ ledger' = ledger
    BY <1>1
  <2>3. QED
    BY <2>1, <2>2, <1>2, <1>5
<1>7. finished' = finished \/ finished' = finished \union {c.id}
  BY <1>1
<1>8. finished' = finished => ledger'[c.id] < MaxAttempts
  <2> SUFFICES ASSUME finished' = finished PROVE ledger'[c.id] < MaxAttempts
    OBVIOUS
  <2>1. answer \notin {"Success", "StopRoundStale", "StopFatal"}
    BY <1>1, <1>2
  <2>2. CASE answer = "Err"
    BY <2>2, <1>1, <1>5
  <2>3. CASE answer = "Retry"
    <3>1. ~Exhausted(c.id)
      BY <2>3, <1>1, <1>2
    <3>2. ledger'[c.id] = ledger[c.id] + 1
      BY <2>3, <1>1, <1>2 DEF IInv, TypeOK
    <3>3. QED
      BY <3>1, <3>2, <1>5, SettlementConstants DEF Exhausted
  <2>4. QED
    BY <2>1, <2>2, <2>3 DEF Answers
<1>9. TypeOK'
  <2>1. submitting' \subseteq Candidate /\ Cardinality(submitting') <= 1
    BY <1>1, FS_EmptySet
  <2>2. current_best_milli' \in {{}} \union {{e} : e \in Energies}
    BY <1>1, <1>2 DEF IInv, TypeOK
  <2>3. /\ Len(stash') <= K
        /\ \A i, k \in DOMAIN stash' : i < k => stash'[i].energy <= stash'[k].energy
    BY <1>4 DEF IInv, TypeOK
  <2>4. QED
    BY <1>1, <1>4, <1>6, <2>1, <2>2, <2>3 DEF IInv, TypeOK, roundVars
<1>10. Shape'
  BY <1>1, <1>2, <1>7 DEF IInv, Shape, AtMostOne, roundVars
<1>11. OnePlace'
  <2>1. \A s \in Sessions : \A p \in settling[s] : p.result.id \in reported \ finished'
    BY <1>7 DEF IInv, OnePlace
  <2>2. QED
    BY <1>1, <1>4, <2>1 DEF IInv, OnePlace
<1>12. Unfinished'
  <2>1. \A id \in Ids : id \notin finished' => ledger'[id] < MaxAttempts
    BY <1>6, <1>7, <1>8 DEF IInv, Unfinished
  <2>2. CASE finished' = finished
    <3>1. stash' = stash
      BY <2>2, <1>1, <1>2
    <3>2. QED
      BY <2>1, <2>2, <3>1, <1>1 DEF IInv, Unfinished
  <2>3. CASE finished' = finished \union {c.id}
    <3>1. stash' = Marked(c.id)
      BY <2>3, <1>1, <1>2
    <3>2. \A i \in DOMAIN stash' : ~stash'[i].submitted => stash'[i].id \notin finished'
      BY <2>3, <3>1, <1>3 DEF IInv, Unfinished
    <3>3. QED
      BY <2>1, <3>2, <1>1 DEF Unfinished
  <2>4. QED
    BY <2>2, <2>3, <1>7
<1>13. Owing'
  BY <1>1, <1>4 DEF IInv, Owing, Admitted, roundVars
<1>14. WinnersKept'
  <2>1. ASSUME NEW r, Kept(r) PROVE Kept(r)'
    BY <2>1, <1>1, <1>4 DEF Kept
  <2>2. QED
    BY <1>1, <2>1 DEF IInv, WinnersKept, roundVars
<1>15. QED
  BY <1>9, <1>10, <1>11, <1>12, <1>13, <1>14 DEF IInv

\* Every step keeps the invariant.
LEMMA NextHolds ==
  ASSUME IInv, [Next]_vars
  PROVE  IInv'
<1>1. CASE UNCHANGED vars
  BY <1>1 DEF vars, roundVars, IInv, TypeOK, Shape, AtMostOne, OnePlace, Unfinished, Owing,
     Admitted, WinnersKept, Kept
<1>2. QED
  BY <1>1, BeginSettleHolds, SubmitAnsweredHolds, RecordAttemptHolds, StopMiningHolds,
     ReseedHolds, PollHolds, WinTimeAnsweredHolds DEF Next

\* The inductive invariant holds in every state, for any sessions, results,
\* rules, stash size and attempt bound.
THEOREM Invariance == Spec => []IInv
  BY InitHolds, NextHolds, PTL DEF Spec

\* A proof the win-time driver is done with is never submitted again.
THEOREM DoneStaysDone == Spec => []FinishedNotResubmitted
<1>1. IInv => FinishedNotResubmitted
  BY DEF IInv, Unfinished, FinishedNotResubmitted
<1>2. QED
  BY <1>1, Invariance, PTL

\* A winner whose submit failed transiently is kept until the round ends.
THEOREM NoWinnerLost == Spec => []WinnersKept
<1>1. IInv => WinnersKept
  BY DEF IInv
<1>2. QED
  BY <1>1, Invariance, PTL
-----------------------------------------------------------------------------
(***************************************************************************)
(* Difficulty decay: each rule has a closed form, an amount that grows     *)
(* with the blocks and is capped by the room up to the easy bound. From it *)
(* the thresholds never tighten, and on monotone thresholds the binary     *)
(* search is exact. What a recursive function computes is shown by naming  *)
(* a function that satisfies its equation, then by the least argument at   *)
(* which any such function could differ.                                   *)
(***************************************************************************)

\* A non-empty set of naturals has a least element: induction, for provers
\* that cannot instantiate a predicate.
LEMMA LeastNat ==
  ASSUME NEW T, T \subseteq Nat, T # {}
  PROVE  \E x \in T : \A y \in T : x <= y
<1> DEFINE R == {p \in Nat \X Nat : p[1] < p[2]}
<1>1. IsWellFoundedOn(R, Nat)
  BY NatLessThanWellFounded DEF OpToRel
<1>2. PICK x \in T : \A y \in T : ~(<<y, x>> \in R)
  BY <1>1, WFMin
<1>3. \A y \in T : x \in Nat /\ y \in Nat
  OBVIOUS
<1>4. \A y \in T : ~(y < x)
  BY <1>2, <1>3
<1>5. QED
  BY <1>3, <1>4

\* The lesser of two integers.
LEMMA MinTwo ==
  ASSUME NEW a \in Int, NEW b \in Int
  PROVE  Min({a, b}) = IF a <= b THEN a ELSE b
BY DEF Min

\* The greater of two integers.
LEMMA MaxTwo ==
  ASSUME NEW a \in Int, NEW b \in Int
  PROVE  Max({a, b}) = IF a >= b THEN a ELSE b
BY DEF Max

\* Integer division by a positive divisor.
LEMMA Division ==
  ASSUME NEW a \in Int, NEW d \in Nat, d > 0
  PROVE  /\ a \div d \in Int
         /\ d * (a \div d) <= a
         /\ a < d * (a \div d) + d
OBVIOUS

\* A positive factor cancels from a comparison of integers.
LEMMA CancelProduct ==
  ASSUME NEW x \in Int, NEW y \in Int, NEW d \in Nat, d > 0, d * x < d * y + d
  PROVE  x <= y
OBVIOUS

\* Rounded is within half a divisor of the quotient.
LEMMA Rounding ==
  ASSUME NEW a \in Int, NEW y \in Nat, y > 0
  PROVE  /\ Rounded(a, y) \in Int
         /\ 2 * y * Rounded(a, y) <= 2 * a + y
         /\ 2 * a + y < 2 * y * Rounded(a, y) + 2 * y
  BY Division DEF Rounded

Capped(amount, room) == IF amount <= room THEN amount ELSE room
Room(base, curve) == curve.max_milli - base
Linear(base, curve) == InLinearRegime(Room(base, curve), CombinedRate)
Eases(base, curve) == ~Degenerate(curve) /\ Room(base, curve) > 0

\* In the linear regime a step of the stepwise rule is the minimum step, capped
\* by the room that is left.
LEMMA EaseStep ==
  ASSUME NEW current \in Int, NEW curve \in Curve, Linear(current, curve), Eases(current, curve)
  PROVE  ease_step(current, curve) = current + Capped(1000, Room(current, curve))
<1> DEFINE room == curve.max_milli - current
<1>1. room \in Int /\ room > 0 /\ room * 49375 <= 1000000000
  BY DEF Curve, Linear, Eases, Room, InLinearRegime, CombinedRate, MIN_ENERGY_DELTA_MILLI,
         DECAY_RATE_MILLI, OVERDUE_EASE_RATE_MILLI
<1>2. Rounded(room * 25, 1000) \in Int /\ Rounded(room * 25, 1000) <= 1000
  <2> DEFINE share == room * 25
  <2>1. share \in Int /\ share <= 600000
    BY <1>1
  <2> HIDE DEF share
  <2>2. /\ Rounded(share, 1000) \in Int
        /\ 2 * 1000 * Rounded(share, 1000) <= 2 * share + 1000
    BY <2>1, Rounding
  <2>3. Rounded(share, 1000) \in Int /\ Rounded(share, 1000) <= 1000
    BY <2>1, <2>2
  <2>4. QED
    BY <2>3 DEF share
<1>3. geometric_floored(room) = 1000
  BY <1>2, MaxTwo DEF geometric_floored, DECAY_RATE_MILLI, MIN_ENERGY_DELTA_MILLI
<1>4. Min({geometric_floored(room), room}) = Capped(1000, room)
  BY <1>1, <1>3, MinTwo DEF Capped
<1>5. QED
  BY <1>1, <1>4 DEF ease_step, Eases, Room

\* What steps of the stepwise rule add up to.
Stepped(base, n, curve) ==
  IF Eases(base, curve) THEN base + Capped(1000 * n, Room(base, curve)) ELSE base

\* One more step of the closed form is one ease_step.
LEMMA SteppedNext ==
  ASSUME NEW base \in Int, NEW curve \in Curve, Linear(base, curve), NEW n \in Nat
  PROVE  /\ Stepped(base, n, curve) \in Int
         /\ Stepped(base, 0, curve) = base
         /\ ease_step(Stepped(base, n, curve), curve) = Stepped(base, n + 1, curve)
<1> DEFINE room == curve.max_milli - base
           now == Stepped(base, n, curve)
<1>1. room \in Int /\ curve.max_milli \in Int /\ curve.min_milli \in Int
  BY DEF Curve
<1>2. room * 49375 <= 1000000000
  BY DEF Curve, Linear, Eases, Room, InLinearRegime, CombinedRate, MIN_ENERGY_DELTA_MILLI,
         DECAY_RATE_MILLI, OVERDUE_EASE_RATE_MILLI
<1>3. now \in Int /\ Stepped(base, 0, curve) = base
  BY <1>1 DEF Stepped, Capped, Room, Eases
<1>4. CASE ~Eases(base, curve)
  <2>1. now = base /\ Stepped(base, n + 1, curve) = base
    BY <1>4 DEF Stepped
  <2>2. Degenerate(curve) \/ room <= 0
    BY <1>1, <1>4 DEF Eases, Room
  <2>3. ease_step(base, curve) = base
    BY <2>2 DEF ease_step
  <2>4. QED
    BY <1>3, <2>1, <2>3
<1>5. CASE Eases(base, curve)
  <2>1. now = base + Capped(1000 * n, room) /\ Stepped(base, n + 1, curve) = base + Capped(1000 * (n + 1), room)
    BY <1>5 DEF Stepped, Room
  <2>2. room > 0
    BY <1>5 DEF Eases, Room
  <2>3. CASE 1000 * n < room
    <3>1. now = base + 1000 * n
      BY <1>1, <2>1, <2>3 DEF Capped
    <3>2. Room(now, curve) = room - 1000 * n /\ Room(now, curve) > 0 /\ Room(now, curve) \in Int
      BY <1>1, <3>1, <2>3 DEF Room
    <3>3. Eases(now, curve)
      BY <1>5, <3>2 DEF Eases
    <3>4. Linear(now, curve)
      BY <1>1, <1>2, <3>2 DEF Linear, InLinearRegime, CombinedRate, MIN_ENERGY_DELTA_MILLI,
         DECAY_RATE_MILLI, OVERDUE_EASE_RATE_MILLI
    <3>5. ease_step(now, curve) = now + Capped(1000, room - 1000 * n)
      BY <1>3, <3>2, <3>3, <3>4, EaseStep
    <3>6. now + Capped(1000, room - 1000 * n) = base + Capped(1000 * (n + 1), room)
      BY <1>1, <3>1 DEF Capped
    <3>7. QED
      BY <1>3, <2>1, <3>5, <3>6
  <2>4. CASE ~(1000 * n < room)
    <3>1. now = base + room /\ Capped(1000 * (n + 1), room) = room
      BY <1>1, <2>1, <2>4 DEF Capped
    <3>2. curve.max_milli - now <= 0
      BY <1>1, <3>1
    <3>3. ease_step(now, curve) = now
      BY <3>2 DEF ease_step
    <3>4. QED
      BY <1>3, <2>1, <3>1, <3>3
  <2>5. QED
    BY <2>3, <2>4
<1>6. QED
  BY <1>4, <1>5

\* The recursion of ease_stepwise computes the closed form.
LEMMA Stepwise ==
  ASSUME NEW base \in Int, NEW curve \in Curve, Linear(base, curve), NEW steps \in Nat
  PROVE  ease_stepwise(base, steps, curve) = Stepped(base, steps, curve)
<1> DEFINE Step(f) == [n \in 0 .. steps |-> IF n = 0 THEN base ELSE ease_step(f[n - 1], curve)]
           After == CHOOSE f : f = Step(f)
           sums == [n \in 0 .. steps |-> Stepped(base, n, curve)]
<1>1. ease_stepwise(base, steps, curve) = After[steps]
  BY DEF ease_stepwise
<1>2. sums = Step(sums)
  <2>1. ASSUME NEW n \in 0 .. steps
        PROVE  Stepped(base, n, curve) = IF n = 0 THEN base ELSE ease_step(sums[n - 1], curve)
    <3>1. CASE n = 0
      BY <3>1, SteppedNext
    <3>2. CASE n # 0
      <4>1. n - 1 \in 0 .. steps /\ n - 1 \in Nat /\ (n - 1) + 1 = n
        BY <3>2
      <4>2. sums[n - 1] = Stepped(base, n - 1, curve)
        BY <4>1
      <4>3. ease_step(Stepped(base, n - 1, curve), curve) = Stepped(base, (n - 1) + 1, curve)
        BY <4>1, SteppedNext
      <4>4. QED
        BY <3>2, <4>1, <4>2, <4>3
    <3>3. QED
      BY <3>1, <3>2
  <2>2. QED
    BY <2>1
<1>3. After = Step(After)
  BY <1>2
<1>4. \A n \in 0 .. steps : After[n] = IF n = 0 THEN base ELSE ease_step(After[n - 1], curve)
  <2> HIDE DEF After
  <2>1. QED
    BY <1>3
<1>5. \A n \in 0 .. steps : After[n] = Stepped(base, n, curve)
  <2> HIDE DEF After
  <2> DEFINE Wrong == {n \in 0 .. steps : After[n] # Stepped(base, n, curve)}
  <2>1. SUFFICES ASSUME Wrong # {} PROVE FALSE
    OBVIOUS
  <2>2. PICK n \in Wrong : \A k \in Wrong : n <= k
    <3>1. Wrong \subseteq Nat
      OBVIOUS
    <3> HIDE DEF Wrong
    <3>2. QED
      BY <2>1, <3>1, LeastNat
  <2>3. CASE n = 0
    BY <1>4, <2>3, SteppedNext
  <2>4. CASE n # 0
    <3>1. n - 1 \in 0 .. steps /\ n - 1 \in Nat /\ (n - 1) + 1 = n /\ n \in 0 .. steps /\ ~(n <= n - 1)
      BY <2>4
    <3>2. After[n - 1] = Stepped(base, n - 1, curve)
      BY <2>2, <3>1
    <3>3. After[n] = ease_step(Stepped(base, n - 1, curve), curve)
      BY <1>4, <2>4, <3>1, <3>2
    <3>4. After[n] = Stepped(base, (n - 1) + 1, curve)
      BY <3>1, <3>3, SteppedNext
    <3>5. QED
      BY <3>1, <3>4
  <2>5. QED
    BY <2>3, <2>4
<1>6. QED
  BY <1>1, <1>5

\* What `blocks` blocks add under the per-block rules.
Accrued(blocks, L) == Rounded(blocks * MIN_ENERGY_DELTA_MILLI, L)

\* Accrued is within half a milli of the exact share.
LEMMA AccruedBounds ==
  ASSUME NEW b \in Nat, NEW L \in Nat, L > 0
  PROVE  /\ Accrued(b, L) \in Int
         /\ (2 * L) * Accrued(b, L) <= 2000 * b + L
         /\ 2000 * b + L < (2 * L) * Accrued(b, L) + 2 * L
<1> DEFINE a == b * 1000
<1>1. a \in Int /\ 2 * a = 2000 * b
  OBVIOUS
<1> HIDE DEF a
<1>2. /\ Rounded(a, L) \in Int
      /\ 2 * L * Rounded(a, L) <= 2 * a + L
      /\ 2 * a + L < 2 * L * Rounded(a, L) + 2 * L
  BY <1>1, Rounding
<1>3. Accrued(b, L) = Rounded(a, L)
  BY DEF Accrued, a, MIN_ENERGY_DELTA_MILLI
<1>4. QED
  BY <1>1, <1>2, <1>3

\* More blocks ease no less.
LEMMA AccruedMonotone ==
  ASSUME NEW a \in Nat, NEW b \in Nat, a <= b, NEW L \in Nat, L > 0
  PROVE  Accrued(a, L) <= Accrued(b, L)
<1> DEFINE x == Accrued(a, L)
           y == Accrued(b, L)
           d == 2 * L
<1>a. x \in Int /\ d * x <= 2000 * a + L
  BY AccruedBounds
<1>b. y \in Int /\ 2000 * b + L < d * y + d
  BY AccruedBounds
<1>1. /\ x \in Int /\ y \in Int /\ d \in Nat /\ d > 0
      /\ d * x <= 2000 * a + L
      /\ 2000 * b + L < d * y + d
  BY <1>a, <1>b
<1> HIDE DEF x, y, d
<1>2. d * x \in Int /\ d * y \in Int
  BY <1>1
<1>3. d * x < d * y + d
  BY <1>1, <1>2
<1>4. x <= y
  BY <1>1, <1>3, CancelProduct
<1>5. QED
  BY <1>4 DEF x, y

\* A whole number of epochs eases a whole number of minimum steps.
LEMMA AccruedWhole ==
  ASSUME NEW q \in Nat, NEW L \in Nat, L > 0, NEW b \in Nat, b = q * L
  PROVE  Accrued(b, L) = 1000 * q
<1> DEFINE x == Accrued(b, L)
           y == 1000 * q
           d == 2 * L
<1>1. /\ x \in Int /\ d * x <= 2000 * b + L /\ 2000 * b + L < d * x + d
  BY AccruedBounds
<1>2. /\ y \in Int /\ d \in Nat /\ d > 0 /\ d * y = 2000 * b /\ L < d
  OBVIOUS
<1> HIDE DEF x, y, d
<1>3. d * x \in Int /\ d * y \in Int
  BY <1>1, <1>2
<1>4. d * x < d * y + d /\ d * y < d * x + d
  BY <1>1, <1>2, <1>3
<1>5. x <= y /\ y <= x
  BY <1>1, <1>2, <1>4, CancelProduct
<1>6. QED
  BY <1>1, <1>2, <1>5 DEF x, y

\* Rounding the two phases apart loses nothing against whole epochs.
LEMMA AccruedTwice ==
  ASSUME NEW a \in Nat, NEW b \in Nat, NEW q \in Nat, NEW L \in Nat, L > 0, q * L <= a + b
  PROVE  1000 * q <= Accrued(a, L) + Accrued(b, L)
<1> DEFINE u == Accrued(a, L)
           v == Accrued(b, L)
           x == 1000 * q
           y == u + v
           d == 2 * L
<1>a. u \in Int /\ 2000 * a + L < d * u + d
  BY AccruedBounds
<1>b. v \in Int /\ 2000 * b + L < d * v + d
  BY AccruedBounds
<1>1. /\ u \in Int /\ 2000 * a + L < d * u + d
      /\ v \in Int /\ 2000 * b + L < d * v + d
  BY <1>a, <1>b
<1>2. d * x <= 2000 * (a + b) /\ d \in Nat /\ d > 0 /\ x \in Int
  OBVIOUS
<1> HIDE DEF u, v, x, d
<1>3. d * u \in Int /\ d * v \in Int /\ d * x \in Int /\ d * (u + v) = d * u + d * v
  BY <1>1, <1>2
<1>4. d * x < d * y + d
  BY <1>1, <1>2, <1>3 DEF d
<1>5. x <= y
  BY <1>1, <1>2, <1>4, CancelProduct
<1>6. QED
  BY <1>5 DEF x, u, v

\* Blocks of a round inside the target, and past it.
InTarget(n) == IF n <= TARGET_PROOF_BLOCKS THEN n ELSE TARGET_PROOF_BLOCKS
Overdue(n) == IF n <= TARGET_PROOF_BLOCKS THEN 0 ELSE n - TARGET_PROOF_BLOCKS

\* What n blocks of a round ease under a rule, were there no easy bound.
Amount(rule, n, L) ==
  CASE rule = "stepwise" -> 1000 * (n \div L)
    [] rule = "continuous" -> Accrued(InTarget(n), L) + Accrued(Overdue(n), L)
    [] OTHER -> Accrued(Overdue(n), L)


\* The rules compared, before the easy bound: nothing at the start of a round,
\* the per-block rule never behind the others, and equal to the stepwise one at
\* every whole epoch inside the target.
LEMMA AmountFacts ==
  ASSUME NEW L \in Nat, L > 0, NEW n \in Nat
  PROVE  /\ \A r \in Algorithms : Amount(r, n, L) \in Nat
         /\ \A r \in Algorithms : Amount(r, 0, L) = 0
         /\ Amount("stepwise", n, L) <= Amount("continuous", n, L)
         /\ Amount("gated", n, L) <= Amount("continuous", n, L)
         /\ n <= TARGET_PROOF_BLOCKS /\ n % L = 0
              => Amount("continuous", n, L) = Amount("stepwise", n, L)
<1> DEFINE q == n \div L
           t == Accrued(InTarget(n), L)
           o == Accrued(Overdue(n), L)
<1>1. InTarget(n) \in Nat /\ Overdue(n) \in Nat /\ InTarget(n) + Overdue(n) = n
  BY DEF InTarget, Overdue, TARGET_PROOF_BLOCKS
<1>2. Accrued(0, L) = 0
  BY AccruedWhole
<1>3. t \in Nat
  <2>1. t \in Int
    BY <1>1, AccruedBounds
  <2>2. Accrued(0, L) <= t
    BY <1>1, AccruedMonotone
  <2>3. QED
    BY <1>2, <2>1, <2>2
<1>4. o \in Nat
  <2>1. o \in Int
    BY <1>1, AccruedBounds
  <2>2. Accrued(0, L) <= o
    BY <1>1, AccruedMonotone
  <2>3. QED
    BY <1>2, <2>1, <2>2
<1>5. q \in Nat /\ q * L <= n /\ 0 \div L = 0
  <2>1. q \in Int /\ L * q <= n /\ n < L * q + L
    BY Division
  <2>2. 0 \div L = 0
    OBVIOUS
  <2>3. q >= 0
    OBVIOUS
  <2> HIDE DEF q
  <2>4. QED
    BY <2>1, <2>2, <2>3
<1>6. /\ Amount("stepwise", n, L) = 1000 * q
      /\ Amount("continuous", n, L) = t + o
      /\ Amount("gated", n, L) = o
      /\ Amount("stepwise", 0, L) = 1000 * (0 \div L)
      /\ Amount("continuous", 0, L) = Accrued(InTarget(0), L) + Accrued(Overdue(0), L)
      /\ Amount("gated", 0, L) = Accrued(Overdue(0), L)
  BY DEF Amount
<1>7. InTarget(0) = 0 /\ Overdue(0) = 0
  BY DEF InTarget, Overdue, TARGET_PROOF_BLOCKS
<1>8. 1000 * q <= t + o
  <2> HIDE DEF q
  <2>1. QED
    BY <1>1, <1>5, AccruedTwice
<1>9. ASSUME n <= TARGET_PROOF_BLOCKS, n % L = 0
      PROVE  t + o = 1000 * q
  <2>1. InTarget(n) = n /\ Overdue(n) = 0
    BY <1>9 DEF InTarget, Overdue
  <2>2. n = q * L
    BY <1>9
  <2>3. q \in Nat
    BY <1>5
  <2> HIDE DEF q
  <2>4. t = 1000 * q
    BY <2>1, <2>2, <2>3, AccruedWhole
  <2>5. QED
    BY <1>2, <2>1, <2>3, <2>4
<1> HIDE DEF q, t, o
<1>10. QED
  BY <1>2, <1>3, <1>4, <1>5, <1>6, <1>7, <1>8, <1>9 DEF Algorithms

\* No rule takes back what it eased.
LEMMA AmountMonotone ==
  ASSUME NEW L \in Nat, L > 0, NEW n \in Nat, NEW k \in Nat, n <= k, NEW r \in Algorithms
  PROVE  Amount(r, n, L) <= Amount(r, k, L)
<1>1. /\ InTarget(n) \in Nat /\ Overdue(n) \in Nat /\ InTarget(k) \in Nat /\ Overdue(k) \in Nat
      /\ InTarget(n) <= InTarget(k) /\ Overdue(n) <= Overdue(k)
  BY DEF InTarget, Overdue, TARGET_PROOF_BLOCKS
<1>2. Accrued(InTarget(n), L) <= Accrued(InTarget(k), L)
  BY <1>1, AccruedMonotone
<1>3. Accrued(Overdue(n), L) <= Accrued(Overdue(k), L)
  BY <1>1, AccruedMonotone
<1>4. n \div L \in Int /\ k \div L \in Int /\ n \div L <= k \div L
  <2> DEFINE x == n \div L
             y == k \div L
  <2>1. x \in Int /\ L * x <= n
    BY Division
  <2>2. y \in Int /\ k < L * y + L
    BY Division
  <2> HIDE DEF x, y
  <2>3. L * x \in Int /\ L * y \in Int
    BY <2>1, <2>2
  <2>4. L * x < L * y + L
    BY <2>1, <2>2, <2>3
  <2>5. x <= y
    BY <2>1, <2>2, <2>4, CancelProduct
  <2>6. QED
    BY <2>1, <2>2, <2>5 DEF x, y
<1>5. Accrued(InTarget(n), L) \in Int /\ Accrued(Overdue(n), L) \in Int
  BY <1>1, AccruedBounds
<1>6. Accrued(InTarget(k), L) \in Int /\ Accrued(Overdue(k), L) \in Int
  BY <1>1, AccruedBounds
<1>7. CASE r = "stepwise"
  <2>1. Amount(r, n, L) = 1000 * (n \div L) /\ Amount(r, k, L) = 1000 * (k \div L)
    BY <1>7 DEF Amount
  <2>2. QED
    BY <2>1, <1>4
<1>8. CASE r = "continuous"
  BY <1>2, <1>3, <1>5, <1>6, <1>8 DEF Amount
<1>9. CASE r = "gated"
  BY <1>2, <1>3, <1>5, <1>6, <1>9 DEF Amount
<1>10. QED
  BY <1>7, <1>8, <1>9 DEF Algorithms


\* No blocks ease nothing.
LEMMA AccruedNone ==
  ASSUME NEW L \in Nat, L > 0
  PROVE  Accrued(0, L) = 0
BY AccruedWhole

\* ease_room is the accrued amount, capped by the room.
LEMMA EaseRoom ==
  ASSUME NEW room \in Nat, NEW b \in Nat, NEW L \in Nat, L > 0
  PROVE  ease_room(room, b, L) = Capped(Accrued(b, L), room) /\ Accrued(b, L) \in Nat
<1>1. Accrued(b, L) \in Int /\ Accrued(0, L) = 0
  BY AccruedBounds, AccruedNone
<1>2. Accrued(0, L) <= Accrued(b, L)
  BY AccruedMonotone
<1>3. Accrued(b, L) \in Nat
  BY <1>1, <1>2
<1>4. CASE room = 0
  BY <1>3, <1>4 DEF ease_room, Capped
<1>5. CASE b = 0
  BY <1>1, <1>5 DEF ease_room, Capped
<1>6. CASE room # 0 /\ b # 0
  <2>1. ease_room(room, b, L) = Min({Accrued(b, L), room})
    BY <1>6 DEF ease_room, Accrued
  <2>2. QED
    BY <1>3, <2>1, MinTwo DEF Capped
<1>7. QED
  BY <1>3, <1>4, <1>5, <1>6

\* The threshold n blocks into the round: the amount, capped by the easy bound.
LEMMA Threshold ==
  ASSUME NEW m \in DecayModel, Linear(m.base, m.curve), NEW n \in Nat
  PROVE  threshold_at(m, n) =
           IF m.curve.known /\ m.epoch_length # 0 /\ Eases(m.base, m.curve)
           THEN m.base + Capped(Amount(m.algorithm, n, m.epoch_length), Room(m.base, m.curve))
           ELSE m.base
<1> DEFINE L == m.epoch_length
           room == Room(m.base, m.curve)
           first == Accrued(InTarget(n), L)
           second == Accrued(Overdue(n), L)
<1>1. m.base \in Int /\ m.curve \in Curve /\ L \in Nat /\ m.algorithm \in Algorithms /\ room \in Int
      /\ m.curve.max_milli \in Int /\ m.curve.min_milli \in Int
  BY DEF DecayModel, Curve, Room
<1>2. CASE ~m.curve.known \/ L = 0
  <2>1. threshold_at(m, n) = m.base
    BY <1>2 DEF threshold_at
  <2>2. QED
    BY <1>2, <2>1
<1>3. CASE m.curve.known /\ L # 0
  <2>1. /\ m.algorithm = "stepwise" => threshold_at(m, n) = ease_stepwise(m.base, n \div L, m.curve)
        /\ m.algorithm = "continuous" => threshold_at(m, n) = ease_continuous(m.base, n, L, m.curve)
        /\ m.algorithm = "gated" => threshold_at(m, n) = ease_gated(m.base, n, L, m.curve)
    BY <1>3 DEF threshold_at
  <2>2. /\ m.algorithm = "stepwise" => Amount(m.algorithm, n, L) = 1000 * (n \div L)
        /\ m.algorithm = "continuous" => Amount(m.algorithm, n, L) = first + second
        /\ m.algorithm = "gated" => Amount(m.algorithm, n, L) = second
    BY DEF Amount
  <2>3. L > 0
    BY <1>1, <1>3
  <2>4. InTarget(n) \in Nat /\ Overdue(n) \in Nat /\ InTarget(n) + Overdue(n) = n
    BY DEF InTarget, Overdue, TARGET_PROOF_BLOCKS
  <2>5. CASE m.algorithm = "stepwise"
    <3>1. n \div L \in Nat
      BY <1>1, <2>3
    <3>2. ease_stepwise(m.base, n \div L, m.curve) = Stepped(m.base, n \div L, m.curve)
      BY <1>1, <3>1, Stepwise
    <3>3. QED
      BY <1>3, <2>1, <2>2, <2>5, <3>2 DEF Stepped
  <2>6. CASE m.algorithm = "continuous"
    <3>1. CASE ~Eases(m.base, m.curve)
      <4>1. Degenerate(m.curve) \/ m.curve.max_milli - m.base <= 0
        BY <1>1, <3>1 DEF Eases, Room
      <4>2. ease_continuous(m.base, n, L, m.curve) = m.base
        BY <4>1 DEF ease_continuous
      <4>3. QED
        BY <2>1, <2>6, <3>1, <4>2
    <3>2. CASE Eases(m.base, m.curve)
      <4>1. room \in Nat /\ room > 0
        BY <1>1, <3>2 DEF Eases
      <4> DEFINE a == Capped(first, room)
                 b == ease_room(room - a, Overdue(n), L)
      <4>2. ease_room(room, InTarget(n), L) = a /\ first \in Nat
        BY <1>1, <2>3, <2>4, <4>1, EaseRoom
      <4>3. a \in Nat /\ room - a \in Nat
        BY <4>1, <4>2 DEF Capped
      <4>4. b = Capped(second, room - a) /\ second \in Nat
        <5> HIDE DEF a
        <5>1. QED
          BY <1>1, <2>3, <2>4, <4>3, EaseRoom
      <4>5. Min({n, TARGET_PROOF_BLOCKS}) = InTarget(n)
        BY MinTwo DEF InTarget, TARGET_PROOF_BLOCKS
      <4>6. n - InTarget(n) = Overdue(n)
        BY <2>4
      <4>7. n # 0 => ease_continuous(m.base, n, L, m.curve) = m.base + Min({a + b, room})
        <5>1. ~Degenerate(m.curve) /\ ~(room <= 0) /\ L # 0
          BY <1>1, <2>3, <3>2, <4>1 DEF Eases
        <5>2. m.curve.max_milli - m.base = room
          BY DEF Room
        <5> HIDE DEF room, a
        <5>3. QED
          BY <4>2, <4>5, <4>6, <5>1, <5>2 DEF ease_continuous
      <4>8. n # 0 => Min({a + b, room}) = Capped(first + second, room)
        <5>1. a + b \in Int
          BY <4>1, <4>3, <4>4 DEF Capped
        <5>2. Min({a + b, room}) = Capped(a + b, room)
          BY <4>1, <5>1, MinTwo DEF Capped
        <5>3. Capped(a + b, room) = Capped(first + second, room)
          BY <4>1, <4>2, <4>4 DEF Capped
        <5>4. QED
          BY <5>2, <5>3
      <4>9. CASE n = 0
        <5>1. ease_continuous(m.base, n, L, m.curve) = m.base
          BY <4>9 DEF ease_continuous
        <5>2. Amount(m.algorithm, n, L) = 0
          BY <1>1, <2>3, <4>9, AmountFacts
        <5>3. QED
          BY <1>1, <2>1, <2>6, <4>1, <5>1, <5>2 DEF Capped
      <4>10. QED
        BY <1>3, <2>1, <2>2, <2>6, <3>2, <4>7, <4>8, <4>9
    <3>3. QED
      BY <3>1, <3>2
  <2>7. CASE m.algorithm = "gated"
    <3>1. Max({n - TARGET_PROOF_BLOCKS, 0}) = Overdue(n)
      BY MaxTwo DEF Overdue, TARGET_PROOF_BLOCKS
    <3>2. CASE Degenerate(m.curve)
      BY <2>1, <2>7, <3>2 DEF ease_gated, Eases
    <3>3. CASE ~Degenerate(m.curve) /\ room <= 0
      <4>1. ease_room(m.curve.max_milli - m.base, Overdue(n), L) = 0
        BY <3>3 DEF ease_room, Room
      <4>2. ease_gated(m.base, n, L, m.curve) = m.base
        BY <1>1, <3>1, <4>1 DEF ease_gated
      <4>3. ~Eases(m.base, m.curve)
        BY <1>1, <3>3 DEF Eases
      <4>4. QED
        BY <2>1, <2>7, <4>2, <4>3
    <3>4. CASE Eases(m.base, m.curve)
      <4>1. room \in Nat /\ room > 0
        BY <1>1, <3>4 DEF Eases
      <4>2. ease_room(room, Overdue(n), L) = Capped(second, room) /\ second \in Nat
        BY <1>1, <2>3, <2>4, <4>1, EaseRoom
      <4>3. CASE Overdue(n) = 0
        <5>1. second = 0
          BY <1>1, <2>3, <4>3, AccruedNone
        <5>2. ease_gated(m.base, n, L, m.curve) = m.base
          BY <3>1, <4>3 DEF ease_gated
        <5>3. QED
          BY <1>1, <2>1, <2>2, <2>7, <4>1, <5>1, <5>2 DEF Capped
      <4>4. CASE Overdue(n) # 0
        <5>1. ease_gated(m.base, n, L, m.curve) = m.base + ease_room(room, Overdue(n), L)
          BY <1>3, <3>1, <3>4, <4>4 DEF ease_gated, Eases, Room
        <5>2. QED
          BY <1>3, <2>1, <2>2, <2>7, <3>4, <4>2, <5>1
      <4>5. QED
        BY <4>3, <4>4
    <3>5. QED
      BY <1>1, <3>2, <3>3, <3>4 DEF Eases
  <2>8. QED
    BY <1>1, <2>5, <2>6, <2>7 DEF Algorithms
<1>4. QED
  BY <1>2, <1>3

\* A threshold lies between the base and the easy bound, and never tightens as
\* blocks pass.
LEMMA ThresholdFacts ==
  ASSUME NEW m \in DecayModel, Linear(m.base, m.curve), NEW n \in Nat, NEW k \in Nat, n <= k
  PROVE  /\ threshold_at(m, n) \in Int
         /\ m.base <= threshold_at(m, n)
         /\ threshold_at(m, n) <= Max({m.base, m.curve.max_milli})
         /\ threshold_at(m, n) <= threshold_at(m, k)
<1> DEFINE L == m.epoch_length
           room == Room(m.base, m.curve)
           active == m.curve.known /\ L # 0 /\ Eases(m.base, m.curve)
           x == Amount(m.algorithm, n, L)
           y == Amount(m.algorithm, k, L)
<1>1. m.base \in Int /\ m.curve.max_milli \in Int /\ L \in Nat /\ m.algorithm \in Algorithms
  BY DEF DecayModel, Curve
<1>2. /\ threshold_at(m, n) = IF active THEN m.base + Capped(x, room) ELSE m.base
      /\ threshold_at(m, k) = IF active THEN m.base + Capped(y, room) ELSE m.base
  BY Threshold
<1>3. Max({m.base, m.curve.max_milli}) = IF m.base >= m.curve.max_milli THEN m.base ELSE m.curve.max_milli
  BY <1>1, MaxTwo
<1>4. CASE ~active
  BY <1>1, <1>2, <1>3, <1>4
<1>5. CASE active
  <2>1. L > 0 /\ room = m.curve.max_milli - m.base /\ room > 0
    BY <1>1, <1>5 DEF Eases, Room
  <2>2. x \in Nat /\ y \in Nat
    BY <1>1, <2>1, AmountFacts
  <2>3. x <= y
    BY <1>1, <2>1, AmountMonotone
  <2> HIDE DEF x, y, room
  <2>4. QED
    BY <1>1, <1>2, <1>3, <1>5, <2>1, <2>2, <2>3 DEF Capped
<1>6. QED
  BY <1>4, <1>5

\* The rules compared at one block of a round.
LEMMA RulesAgree ==
  ASSUME NEW m \in DecayModel, Linear(m.base, m.curve), NEW n \in Nat
  PROVE  LET under(rule) == threshold_at([m EXCEPT !.algorithm = rule], n) IN
         /\ n <= TARGET_PROOF_BLOCKS /\ m.epoch_length # 0 /\ n % m.epoch_length = 0
              => under("continuous") = under("stepwise")
         /\ under("stepwise") <= under("continuous")
         /\ under("gated") <= under("continuous")
<1> DEFINE L == m.epoch_length
           room == Room(m.base, m.curve)
           active == m.curve.known /\ L # 0 /\ Eases(m.base, m.curve)
           under(rule) == threshold_at([m EXCEPT !.algorithm = rule], n)
           s == Amount("stepwise", n, L)
           c == Amount("continuous", n, L)
           g == Amount("gated", n, L)
<1>1. m.base \in Int /\ m.curve.max_milli \in Int /\ L \in Nat
  BY DEF DecayModel, Curve
<1>2. ASSUME NEW rule \in Algorithms
      PROVE  under(rule) = IF active THEN m.base + Capped(Amount(rule, n, L), room) ELSE m.base
  <2> DEFINE w == [m EXCEPT !.algorithm = rule]
  <2>1. w \in DecayModel /\ w.base = m.base /\ w.curve = m.curve /\ w.epoch_length = L /\ w.algorithm = rule
    BY DEF DecayModel
  <2> HIDE DEF w
  <2>2. threshold_at(w, n) = IF active THEN m.base + Capped(Amount(rule, n, L), room) ELSE m.base
    BY <2>1, Threshold
  <2>3. QED
    BY <2>2 DEF w
<1>3. /\ under("stepwise") = IF active THEN m.base + Capped(s, room) ELSE m.base
      /\ under("continuous") = IF active THEN m.base + Capped(c, room) ELSE m.base
      /\ under("gated") = IF active THEN m.base + Capped(g, room) ELSE m.base
  BY <1>2 DEF Algorithms
<1>4. CASE ~active
  BY <1>1, <1>3, <1>4
<1>5. CASE active
  <2>1. L > 0 /\ room = m.curve.max_milli - m.base /\ room > 0
    BY <1>1, <1>5 DEF Eases, Room
  <2>2. /\ s \in Nat /\ c \in Nat /\ g \in Nat /\ s <= c /\ g <= c
        /\ n <= TARGET_PROOF_BLOCKS /\ n % L = 0 => c = s
    BY <1>1, <2>1, AmountFacts DEF Algorithms
  <2> HIDE DEF s, c, g, room, under
  <2>3. /\ n <= TARGET_PROOF_BLOCKS /\ L # 0 /\ n % L = 0 => under("continuous") = under("stepwise")
        /\ under("stepwise") <= under("continuous")
        /\ under("gated") <= under("continuous")
    BY <1>1, <1>3, <1>5, <2>1, <2>2 DEF Capped
  <2>4. QED
    BY <2>3 DEF under
<1>6. QED
  BY <1>4, <1>5


\* The binary search of the win stash finds, for every energy and every
\* horizon, the first block whose threshold the energy beats strictly, and
\* Never when no block up to the horizon is beaten.
THEOREM SearchFindsFirst ==
  ASSUME NEW m \in DecayModel, Linear(m.base, m.curve), NEW e \in Int, NEW h \in Nat,
         NEW n \in 0 .. h
  PROVE  /\ first_clearing_elapsed(m, e, h) \in (0 .. h) \union {Never}
         /\ threshold_at(m, n) > e <=>
              first_clearing_elapsed(m, e, h) # Never /\ first_clearing_elapsed(m, e, h) <= n
<1> DEFINE C(k) == Clears(threshold_at(m, k), e)
           Ranges == (0 .. h) \X (0 .. h)
           Halve(f) ==
             [range \in Ranges |->
                LET lo == range[1]
                    hi == range[2]
                    mid == lo + ((hi - lo) \div 2) IN
                IF hi - lo <= 1 THEN hi
                ELSE IF Clears(threshold_at(m, mid), e) THEN f[<<lo, mid>>] ELSE f[<<mid, hi>>]]
           Search == CHOOSE f : f = Halve(f)
           found == first_clearing_elapsed(m, e, h)
<1>1. ASSUME NEW j \in Nat, NEW k \in Nat, j <= k, C(j)
      PROVE  C(k)
  <2>1. threshold_at(m, j) \in Int /\ threshold_at(m, j) <= threshold_at(m, k)
    BY <1>1, ThresholdFacts
  <2>2. threshold_at(m, k) \in Int
    <3>1. k <= k
      OBVIOUS
    <3>2. QED
      BY <3>1, ThresholdFacts
  <2>3. QED
    BY <1>1, <2>1, <2>2 DEF Clears
<1>2. C(n) <=> threshold_at(m, n) > e
  BY DEF Clears
<1>3. found = IF C(0) THEN 0 ELSE IF ~C(h) THEN Never ELSE Search[<<0, h>>]
  BY DEF first_clearing_elapsed
<1> HIDE DEF C
<1>4. CASE C(0)
  <2>1. C(n)
    BY <1>1, <1>4
  <2>2. found = 0
    BY <1>3, <1>4
  <2>3. QED
    BY <1>2, <2>1, <2>2 DEF Never
<1>5. CASE ~C(0) /\ ~C(h)
  <2>1. ~C(n)
    BY <1>1, <1>5
  <2>2. found = Never
    BY <1>3, <1>5
  <2>3. QED
    BY <1>2, <2>1, <2>2
<1>6. CASE ~C(0) /\ C(h)
  <2> DEFINE T == {k \in 0 .. h : C(k)}
  <2>1. PICK c \in T : \A k \in T : c <= k
    <3>1. T \subseteq Nat /\ h \in T
      BY <1>6
    <3> HIDE DEF T
    <3>2. QED
      BY <3>1, LeastNat
  <2>2. c \in 1 .. h /\ C(c) /\ \A k \in 0 .. h : C(k) <=> c <= k
    <3>1. c \in 0 .. h /\ C(c) /\ c # 0
      BY <1>6
    <3>2. ASSUME NEW k \in 0 .. h PROVE C(k) <=> c <= k
      BY <1>1, <2>1, <3>1
    <3>3. QED
      BY <3>1, <3>2
  <2>3. Search = Halve(Search)
    <3> DEFINE Cut(lo, hi) ==
                 IF hi <= lo THEN hi ELSE IF c <= lo THEN lo + 1 ELSE IF c <= hi THEN c ELSE hi
               cut == [range \in Ranges |-> Cut(range[1], range[2])]
    <3>1. ASSUME NEW lo \in 0 .. h, NEW hi \in 0 .. h
          PROVE  LET mid == lo + ((hi - lo) \div 2) IN
                 Cut(lo, hi) = IF hi - lo <= 1 THEN hi
                               ELSE IF C(mid) THEN cut[<<lo, mid>>] ELSE cut[<<mid, hi>>]
      <4> DEFINE mid == lo + ((hi - lo) \div 2)
      <4>1. CASE hi - lo <= 1
        BY <2>2, <4>1
      <4>2. CASE hi - lo > 1
        <5>1. mid \in 0 .. h /\ lo < mid /\ mid < hi
          BY <4>2
        <5> HIDE DEF mid
        <5>2. C(mid) <=> c <= mid
          BY <2>2, <5>1
        <5>3. cut[<<lo, mid>>] = Cut(lo, mid) /\ cut[<<mid, hi>>] = Cut(mid, hi)
          BY <5>1
        <5>4. c <= mid => Cut(lo, hi) = Cut(lo, mid)
          BY <2>2, <4>2, <5>1
        <5>5. ~(c <= mid) => Cut(lo, hi) = Cut(mid, hi)
          BY <2>2, <4>2, <5>1
        <5>6. Cut(lo, hi) = IF C(mid) THEN cut[<<lo, mid>>] ELSE cut[<<mid, hi>>]
          <6> HIDE DEF Cut, cut
          <6>1. QED
            BY <5>2, <5>3, <5>4, <5>5
        <5>7. ~(hi - lo <= 1)
          BY <4>2
        <5> HIDE DEF Cut, cut
        <5>8. QED
          BY <5>6, <5>7 DEF mid
      <4>3. QED
        BY <4>1, <4>2
    <3>2. cut = Halve(cut)
      <4> HIDE DEF Cut
      <4>1. ASSUME NEW range \in Ranges
            PROVE  cut[range] = Halve(cut)[range]
        <5>1. range = <<range[1], range[2]>> /\ range[1] \in 0 .. h /\ range[2] \in 0 .. h
          OBVIOUS
        <5>2. cut[range] = Cut(range[1], range[2])
          OBVIOUS
        <5> HIDE DEF cut
        <5>3. QED
          BY <3>1, <5>1, <5>2 DEF C
      <4>2. QED
        BY <4>1
    <3>3. QED
      BY <3>2
  <2>4. ASSUME NEW lo \in 0 .. h, NEW hi \in 0 .. h
        PROVE  LET mid == lo + ((hi - lo) \div 2) IN
               Search[<<lo, hi>>] =
                 IF hi - lo <= 1 THEN hi
                 ELSE IF C(mid) THEN Search[<<lo, mid>>] ELSE Search[<<mid, hi>>]
    <3>1. <<lo, hi>> \in Ranges
      OBVIOUS
    <3> HIDE DEF Search
    <3>2. Search[<<lo, hi>>] = Halve(Search)[<<lo, hi>>]
      BY <2>3
    <3>3. QED
      BY <3>1, <3>2 DEF C
  <2> HIDE DEF Search
  <2> DEFINE Wide(d) == \E lo, hi \in 0 .. h : /\ hi - lo = d /\ lo < c /\ c <= hi
                                               /\ Search[<<lo, hi>>] # c
             Bad == {d \in Nat : Wide(d)}
  <2>5. Bad = {}
    <3> SUFFICES ASSUME Bad # {} PROVE FALSE
      OBVIOUS
    <3>1. PICK d \in Bad : \A k \in Bad : d <= k
      <4>1. Bad \subseteq Nat
        OBVIOUS
      <4> HIDE DEF Bad
      <4>2. QED
        BY <4>1, LeastNat
    <3>2. PICK lo \in 0 .. h, hi \in 0 .. h : hi - lo = d /\ lo < c /\ c <= hi /\ Search[<<lo, hi>>] # c
      OBVIOUS
    <3> DEFINE mid == lo + ((hi - lo) \div 2)
    <3>3. CASE hi - lo <= 1
      <4>1. c = hi
        BY <2>2, <3>2, <3>3
      <4>2. Search[<<lo, hi>>] = hi
        BY <2>4, <3>3
      <4>3. QED
        BY <3>2, <4>1, <4>2
    <3>4. CASE hi - lo > 1
      <4>1. mid \in 0 .. h /\ lo < mid /\ mid < hi
        BY <3>4
      <4>2. Search[<<lo, hi>>] = IF C(mid) THEN Search[<<lo, mid>>] ELSE Search[<<mid, hi>>]
        BY <2>4, <3>4
      <4> HIDE DEF mid
      <4>3. C(mid) <=> c <= mid
        BY <2>2, <4>1
      <4>4. CASE c <= mid
        <5>1. mid - lo \in Nat /\ ~(d <= mid - lo)
          BY <3>2, <4>1
        <5>2. ~Wide(mid - lo)
          BY <3>1, <5>1
        <5>3. Search[<<lo, mid>>] = c
          BY <3>2, <4>1, <4>4, <5>2
        <5>4. QED
          BY <3>2, <4>2, <4>3, <4>4, <5>3
      <4>5. CASE ~(c <= mid)
        <5>1. hi - mid \in Nat /\ ~(d <= hi - mid)
          BY <3>2, <4>1
        <5>2. ~Wide(hi - mid)
          BY <3>1, <5>1
        <5>3. mid < c
          BY <2>2, <4>1, <4>5
        <5>4. Search[<<mid, hi>>] = c
          BY <3>2, <4>1, <5>3, <5>2
        <5>5. QED
          BY <3>2, <4>2, <4>3, <4>5, <5>4
      <4>6. QED
        BY <4>4, <4>5
    <3>5. QED
      BY <3>3, <3>4
  <2>6. Search[<<0, h>>] = c
    <3>1. ~Wide(h)
      BY <2>5
    <3>2. h - 0 = h /\ 0 < c /\ c <= h /\ 0 \in 0 .. h /\ h \in 0 .. h
      BY <2>2
    <3>3. QED
      BY <3>1, <3>2
  <2>7. found = c
    BY <1>3, <1>6, <2>6
  <2>8. QED
    BY <1>2, <2>2, <2>7 DEF Never
<1>7. QED
  BY <1>4, <1>5, <1>6

\* ProjectionExact holds of every curve in the linear regime and every horizon.
LEMMA ExactProjections == ProjectionExact
<1> SUFFICES ASSUME NEW m \in Models
             PROVE
    LET limit == [n \in 0 .. Horizon |-> threshold_at(m, n)]
        under(rule) == [n \in 0 .. Horizon |-> threshold_at([m EXCEPT !.algorithm = rule], n)]
    IN
    /\ \A n \in 0 .. Horizon : m.base <= limit[n] /\ limit[n] <= Max({m.base, m.curve.max_milli})
    /\ \A e \in Probes(m) :
         LET found == first_clearing_elapsed(m, e, Horizon) IN
         \A n \in 0 .. Horizon : limit[n] > e <=> found # Never /\ found <= n
    /\ \A n \in 0 .. Horizon :
         /\ n <= TARGET_PROOF_BLOCKS /\ m.epoch_length # 0 /\ n % m.epoch_length = 0
              => under("continuous")[n] = under("stepwise")[n]
         /\ under("stepwise")[n] <= under("continuous")[n]
         /\ under("gated")[n] <= under("continuous")[n]
  BY DEF ProjectionExact
<1>1. Horizon \in Nat /\ m \in DecayModel /\ Linear(m.base, m.curve)
  BY LinearAssumption DEF Linear, Room
<1>2. ASSUME NEW n \in 0 .. Horizon
      PROVE  /\ m.base <= threshold_at(m, n)
             /\ threshold_at(m, n) <= Max({m.base, m.curve.max_milli})
  <2>1. n \in Nat /\ n <= n
    BY <1>1
  <2>2. QED
    BY <1>1, <2>1, ThresholdFacts
<1>3. ASSUME NEW e \in Probes(m), NEW n \in 0 .. Horizon
      PROVE  threshold_at(m, n) > e <=>
               first_clearing_elapsed(m, e, Horizon) # Never /\ first_clearing_elapsed(m, e, Horizon) <= n
  <2>1. PICK k \in {0, 1, TARGET_PROOF_BLOCKS, TARGET_PROOF_BLOCKS + 1, Horizon} :
               e \in {threshold_at(m, k) - 1, threshold_at(m, k), threshold_at(m, k) + 1}
    BY DEF Probes
  <2>2. k \in Nat /\ k <= k
    BY <1>1 DEF TARGET_PROOF_BLOCKS
  <2>3. threshold_at(m, k) \in Int
    BY <1>1, <2>2, ThresholdFacts
  <2>4. e \in Int
    BY <2>1, <2>3
  <2>5. QED
    BY <1>1, <2>4, SearchFindsFirst
<1>4. ASSUME NEW n \in 0 .. Horizon
      PROVE  /\ n <= TARGET_PROOF_BLOCKS /\ m.epoch_length # 0 /\ n % m.epoch_length = 0
                  => threshold_at([m EXCEPT !.algorithm = "continuous"], n) = threshold_at([m EXCEPT !.algorithm = "stepwise"], n)
             /\ threshold_at([m EXCEPT !.algorithm = "stepwise"], n) <= threshold_at([m EXCEPT !.algorithm = "continuous"], n)
             /\ threshold_at([m EXCEPT !.algorithm = "gated"], n) <= threshold_at([m EXCEPT !.algorithm = "continuous"], n)
  <2>1. n \in Nat
    BY <1>1
  <2>2. QED
    BY <1>1, <2>1, RulesAgree
<1>5. QED
  BY <1>2, <1>3, <1>4

\* The stash projects by exact arithmetic, for every curve in the linear regime
\* and every horizon (decay.rs: first_clearing_elapsed over threshold_at).
THEOREM ProjectionsAreExact == Spec => []ProjectionSound
<1>1. ProjectionSound
  BY ExactProjections DEF ProjectionSound
<1>2. QED
  BY <1>1, PTL

\* What Settlement assumes of its projections (ProjectionCovers) holds of the
\* decay arithmetic: an energy that the chain's threshold admits n blocks into
\* the round is projected to clear by block n, under the chain's own rule and
\* under the per-block rule, whichever of the two the stash still holds.
THEOREM ProjectionNotLate ==
  ASSUME NEW m \in DecayModel, Linear(m.base, m.curve), NEW h \in Nat, NEW n \in 0 .. h,
         NEW e \in Int, e < threshold_at(m, n), NEW r \in {m.algorithm, "continuous"}
  PROVE  first_clearing_elapsed([m EXCEPT !.algorithm = r], e, h) \in 0 .. n
<1> DEFINE w == [m EXCEPT !.algorithm = r]
<1>1. /\ w \in DecayModel /\ w.base = m.base /\ w.curve = m.curve
      /\ w.algorithm = r
  BY DEF DecayModel, Algorithms
<1>2. n \in Nat /\ n <= n /\ threshold_at(m, n) \in Int
  <2>1. n \in Nat /\ n <= n
    OBVIOUS
  <2>2. QED
    BY <2>1, ThresholdFacts
<1>3. threshold_at(m, n) <= threshold_at(w, n) /\ threshold_at(w, n) \in Int
  <2>1. threshold_at(w, n) \in Int
    <3> HIDE DEF w
    <3>1. QED
      BY <1>1, <1>2, ThresholdFacts
  <2>2. CASE r = m.algorithm
    <3>1. w = m
      BY <2>2 DEF DecayModel
    <3>2. QED
      BY <1>2, <2>1, <3>1
  <2>3. CASE r = "continuous"
    <3> DEFINE under(rule) == threshold_at([m EXCEPT !.algorithm = rule], n)
    <3>1. under("stepwise") <= under("continuous") /\ under("gated") <= under("continuous")
      BY <1>2, RulesAgree
    <3>2. threshold_at(m, n) = under(m.algorithm) /\ threshold_at(w, n) = under("continuous")
      <4>1. m = [m EXCEPT !.algorithm = m.algorithm]
        BY DEF DecayModel
      <4>2. QED
        BY <2>3, <4>1
    <3>3. m.algorithm \in Algorithms
      BY DEF DecayModel
    <3> HIDE DEF under
    <3>4. QED
      BY <1>2, <2>1, <3>1, <3>2, <3>3 DEF Algorithms
  <2>4. QED
    BY <2>2, <2>3
<1>4. threshold_at(w, n) > e
  BY <1>2, <1>3
<1> HIDE DEF w
<1>5. first_clearing_elapsed(w, e, h) \in 0 .. n
  <2>1. /\ first_clearing_elapsed(w, e, h) \in (0 .. h) \union {Never}
        /\ first_clearing_elapsed(w, e, h) # Never /\ first_clearing_elapsed(w, e, h) <= n
    BY <1>1, <1>4, SearchFindsFirst
  <2>2. QED
    BY <2>1
<1>6. QED
  BY <1>5 DEF w
=============================================================================
