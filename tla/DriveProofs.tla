----------------------------- MODULE DriveProofs ------------------------------
(***************************************************************************)
(* Drive's invariant for every set of jobs, workload, labelling and every  *)
(* capacity of its channels; the proof that the harness keeps the promise  *)
(* of DriveReport; and the proofs that no slot of the pipeline leaks and   *)
(* that no job is lost.                                                    *)
(***************************************************************************)
EXTENDS DriveInput, FiniteSetTheorems, SequenceTheorems, WellFoundedInduction, TLAPS

OutTypes == {"Welcome", "Configure", "Topology", "SetTarget", "Shutdown", "Job"}
InTypes  == {"Hello", "Ready", "JobRequest", "Capabilities", "Result", "LeaseDone", "Reject", "Fatal"}
JobTypes == {"Result", "LeaseDone", "Reject"}

\* What the miner has sent or is about to send, oldest first.
Wire == toCoord \o replies

\* A message of one of the types about job j is in q.
Carries(q, types, j) == \E i \in DOMAIN q : q[i].type \in types /\ q[i].job = j

\* A message of the type is in q.
Has(q, type) == \E i \in DOMAIN q : q[i].type = type

HasRow(j) == \E i \in DOMAIN rows : rows[i].job = j

\* A Result of the job waits for its validation or is being validated.
Tasked(j) == \E t \in tasks : t.job = j /\ t.step # "checking"

\* The tables, and what the messages are about.
Typed ==
  /\ kind \in [Jobs -> AllKinds] /\ DOMAIN id = Jobs
  /\ token \in BOOLEAN
  /\ loop \in {"hello", "greeting", "reading", "closing", "ended"}
  /\ pending \in Seq([type : OutTypes, job : Nat])
  /\ registered \in BOOLEAN
  /\ staged \subseteq Jobs /\ batch \subseteq Jobs /\ inflight \subseteq Jobs /\ winners \subseteq Jobs
  /\ credits \in Nat /\ grants \in Seq(Nat)
  /\ tasks \subseteq [job : Jobs, step : {"spawned", "validating", "checking"}]
  /\ rows \in Seq([job : Jobs, rejected : BOOLEAN, passed : BOOLEAN])
  /\ toMiner \in Seq([type : OutTypes, job : Nat])
  /\ toCoord \in Seq([type : InTypes, job : Nat])
  /\ replies \in Seq([type : InTypes, job : Nat])
  /\ report \in {"none", "clean", "failed"}
  /\ miner \in {"dialing", "running", "draining", "exited"}
  /\ told \subseteq {"Topology", "SetTarget"}
  /\ {narrowed, shut, fault} \subseteq BOOLEAN

\* Two jobs with one id are the same problem and no lease.
Collisions ==
  \A j, k \in Jobs : j # k /\ id[j] = id[k] => kind[j] = kind[k] /\ kind[j] \notin Leases

\* No channel is over its capacity; before it dials the miner has sent nothing.
Fits ==
  /\ Len(toMiner) <= OutCap /\ Len(grants) <= GrantCap /\ Len(toCoord) <= InCap
  /\ miner = "dialing" => toCoord = <<>> /\ replies = <<>>

(***************************************************************************)
(* A job on its way is in one place, and has no row: the queue, the batch, *)
(* the outbound channel, the wire, a task. Once the session is over only   *)
(* its tasks go on.                                                        *)
(***************************************************************************)
OutJobs  == {j \in Jobs : Carries(toMiner, {"Job"}, j)}
WireJobs == {j \in Jobs : Carries(Wire, JobTypes, j)}
TaskJobs == {j \in Jobs : Tasked(j)}
RowJobs  == {j \in Jobs : HasRow(j)}

Places ==
  /\ staged \intersect (batch \union OutJobs \union WireJobs \union TaskJobs \union RowJobs) = {}
  /\ batch \intersect (OutJobs \union WireJobs \union TaskJobs \union RowJobs) = {}
  /\ OutJobs \intersect (WireJobs \union TaskJobs \union RowJobs) = {}
  /\ WireJobs \intersect (TaskJobs \union RowJobs) = {}
  /\ staged \intersect inflight = {}

\* The messages of the types are about jobs of the run.
Named(q, types) == \A i \in DOMAIN q : q[i].type \in types => q[i].job \in Jobs

\* A job is sent once,
SentOnce(q) ==
  \A i, k \in DOMAIN q : i < k /\ q[i].type = "Job" /\ q[k].type = "Job" => q[i].job # q[k].job

\* and answered once; a lease's winner comes before its LeaseDone.
AnsweredOnce(q) ==
  \A i, k \in DOMAIN q :
    i < k /\ q[i].type \in JobTypes /\ q[k].type \in JobTypes /\ q[i].job = q[k].job
      => q[i].type = "Result" /\ q[k].type = "LeaseDone"

JobsSent == Named(toMiner, {"Job"})

Once ==
  /\ SentOnce(toMiner)
  /\ Named(Wire, JobTypes) /\ AnsweredOnce(Wire)

\* A lease is in flight from its dispatch to its last message.
LeasesHeld ==
  \A j \in Jobs : /\ kind[j] \in Leases
                  /\ j \in batch \/ j \in OutJobs \/ j \in WireJobs
                  => j \in inflight

\* What an answer says of its job.
Truthful ==
  \A i \in DOMAIN Wire :
    LET j == Wire[i].job
    IN  /\ Wire[i].type = "Reject" => kind[j] = "bad"
        /\ Wire[i].type = "Result" => kind[j] \in {"plain", "foreign", "winner"}
        /\ Wire[i].type = "LeaseDone" =>
             /\ kind[j] \in Leases
             /\ kind[j] = "winner" =>
                  j \in winners \/ \E k \in 1 .. i - 1 : Wire[k].type = "Result" /\ Wire[k].job = j
        /\ Wire[i].type = "Fatal" => fault
        /\ Wire[i].type = "Capabilities" => narrowed

Routed == loop # "ended" => Places /\ Once /\ LeasesHeld /\ Truthful

\* The tasks: one per job, never for a lease, and a job is recorded by the
\* task that took it or by handle_fatal.
Recording ==
  /\ \A t \in tasks : kind[t.job] \notin Leases
  /\ \A t, u \in tasks : t.job = u.job /\ t.step # "checking" /\ u.step # "checking" => t = u
  /\ \A t \in tasks : t.step = "validating" => ~HasRow(t.job) /\ t.job \notin inflight
  /\ \A t \in tasks : t.step = "spawned" /\ HasRow(t.job) => loop = "ended" /\ inflight = {}
  /\ \A j \in inflight : ~HasRow(j)
  /\ \A i, k \in DOMAIN rows : rows[i].job = rows[k].job => i = k
  /\ \A j \in winners : kind[j] = "winner"

\* Both requirements are ahead of every job: the miner has them, or they are
\* in front of it in the channel, or the handshake has still to send them.
Requirements == {"Topology", "SetTarget"}

Ahead ==
  miner \in {"dialing", "running"} =>
    /\ \A i \in DOMAIN toMiner : toMiner[i].type = "Job" =>
         \A x \in Requirements : x \in told \/ \E k \in 1 .. i - 1 : toMiner[k].type = x
    /\ loop \in {"greeting", "reading", "closing"} =>
         \A x \in Requirements : x \in told \/ Has(toMiner, x) \/ Has(pending, x)

\* The greeting is sent before the first job, and a Shutdown only after the
\* last row.
Greets ==
  /\ loop \in {"hello", "greeting"} => batch = {} /\ ~Has(toMiner, "Job") /\ WireJobs = {}
  /\ loop = "hello" => pending = <<>>
  /\ loop = "reading" => pending = <<>>
  /\ loop = "greeting" => ~Has(pending, "Shutdown")
  /\ loop = "closing" => \A i \in DOMAIN pending : pending[i] = Shutdown
  /\ \A i \in DOMAIN pending : pending[i].type # "Job"
  /\ Has(pending, "Shutdown") \/ shut => Complete(rows)
  /\ report = "clean" => Complete(rows)

IInv ==
  /\ Typed
  /\ Collisions
  /\ Fits
  /\ JobsSent
  /\ Routed
  /\ Recording
  /\ Ahead
  /\ Greets
  /\ RowsTrue
-----------------------------------------------------------------------------
(***************************************************************************)
(* Messages in a channel                                                   *)
(***************************************************************************)
OutMsgs == [type : OutTypes, job : Nat]
InMsgs  == [type : InTypes, job : Nat]

\* The entries of a channel that is read from,
LEMMA TailEntries ==
  ASSUME NEW S, NEW q \in Seq(S), q # <<>>
  PROVE  /\ Tail(q) \in Seq(S) /\ Head(q) \in S /\ Head(q) = q[1]
         /\ 1 \in DOMAIN q
         /\ \A i \in DOMAIN Tail(q) : i + 1 \in DOMAIN q /\ Tail(q)[i] = q[i + 1] /\ i \in Nat
         /\ Len(Tail(q)) = Len(q) - 1 /\ Len(q) \in Nat
OBVIOUS

\* of one that is sent to,
LEMMA AppendEntries ==
  ASSUME NEW S, NEW q \in Seq(S), NEW m \in S
  PROVE  /\ Append(q, m) \in Seq(S)
         /\ Len(Append(q, m)) = Len(q) + 1 /\ Len(q) \in Nat
         /\ DOMAIN q = 1 .. Len(q)
         /\ DOMAIN Append(q, m) = 1 .. Len(q) + 1
         /\ \A i \in 1 .. Len(q) : Append(q, m)[i] = q[i]
         /\ Append(q, m)[Len(q) + 1] = m
OBVIOUS

\* and of two, one behind the other.
LEMMA ConcatEntries ==
  ASSUME NEW S, NEW q \in Seq(S), NEW r \in Seq(S)
  PROVE  /\ q \o r \in Seq(S)
         /\ Len(q) \in Nat /\ Len(r) \in Nat
         /\ DOMAIN q = 1 .. Len(q) /\ DOMAIN r = 1 .. Len(r)
         /\ DOMAIN (q \o r) = 1 .. Len(q) + Len(r)
         /\ \A i \in 1 .. Len(q) : (q \o r)[i] = q[i]
         /\ \A i \in 1 .. Len(r) : (q \o r)[Len(q) + i] = r[i]
         /\ \A i \in 1 .. Len(q) + Len(r) : i \notin 1 .. Len(q) =>
              i - Len(q) \in 1 .. Len(r) /\ (q \o r)[i] = r[i - Len(q)]
OBVIOUS

\* Reading loses nothing but the message read.
LEMMA CarriesTail ==
  ASSUME NEW S, NEW q \in Seq(S), q # <<>>, NEW types, NEW j, Carries(Tail(q), types, j)
  PROVE  Carries(q, types, j)
BY TailEntries DEF Carries

\* Nothing is carried by an empty channel,
LEMMA CarriesNone ==
  ASSUME NEW types, NEW j
  PROVE  ~Carries(<<>>, types, j)
BY DEF Carries

\* a channel that is sent to carries one message more,
LEMMA CarriesAppend ==
  ASSUME NEW S, NEW q \in Seq(S), NEW m \in S, NEW types, NEW j
  PROVE  Carries(Append(q, m), types, j) <=> Carries(q, types, j) \/ (m.type \in types /\ m.job = j)
BY AppendEntries DEF Carries

\* and two channels what either carries.
LEMMA CarriesConcat ==
  ASSUME NEW S, NEW q \in Seq(S), NEW r \in Seq(S), NEW types, NEW j
  PROVE  Carries(q \o r, types, j) <=> Carries(q, types, j) \/ Carries(r, types, j)
<1>1. ASSUME Carries(q, types, j)
      PROVE  Carries(q \o r, types, j)
  BY <1>1, ConcatEntries DEF Carries
<1>2. ASSUME Carries(r, types, j)
      PROVE  Carries(q \o r, types, j)
  <2>1. PICK i \in DOMAIN r : r[i].type \in types /\ r[i].job = j
    BY <1>2 DEF Carries
  <2>2. Len(q) + i \in DOMAIN (q \o r) /\ (q \o r)[Len(q) + i] = r[i]
    BY <2>1, ConcatEntries
  <2>3. QED
    BY <2>1, <2>2 DEF Carries
<1>3. ASSUME Carries(q \o r, types, j)
      PROVE  Carries(q, types, j) \/ Carries(r, types, j)
  <2>1. PICK i \in DOMAIN (q \o r) : (q \o r)[i].type \in types /\ (q \o r)[i].job = j
    BY <1>3 DEF Carries
  <2>2. CASE i \in 1 .. Len(q)
    BY <2>1, <2>2, ConcatEntries DEF Carries
  <2>3. CASE i \notin 1 .. Len(q)
    BY <2>1, <2>3, ConcatEntries DEF Carries
  <2>4. QED
    BY <2>2, <2>3
<1>4. QED
  BY <1>1, <1>2, <1>3

\* The harness reads the oldest message of the wire.
LEMMA WireRead ==
  ASSUME Typed, toCoord # <<>>
  PROVE  /\ Wire \in Seq(InMsgs) /\ Wire # <<>>
         /\ Head(Wire) = Head(toCoord)
         /\ Tail(toCoord) \o replies = Tail(Wire)
<1>1. toCoord \in Seq(InMsgs) /\ replies \in Seq(InMsgs)
  BY DEF Typed, InMsgs
<1> DEFINE q == toCoord
           r == replies
<1>2. q \in Seq(InMsgs) /\ r \in Seq(InMsgs) /\ q # <<>> /\ Wire = q \o r
  BY <1>1 DEF Wire
<1> HIDE DEF q, r
<1>3. q \o r \in Seq(InMsgs) /\ q \o r # <<>> /\ Head(q \o r) = Head(q) /\ Tail(q) \o r = Tail(q \o r)
  BY <1>2
<1>4. QED
  BY <1>2, <1>3 DEF q, r

\* The miner's next reply moves on the wire, and is not lost or repeated.
LEMMA WireMoves ==
  ASSUME Typed, replies # <<>>
  PROVE  Append(toCoord, Head(replies)) \o Tail(replies) = Wire
<1>1. toCoord \in Seq(InMsgs) /\ replies \in Seq(InMsgs)
  BY DEF Typed, InMsgs
<1> DEFINE q == toCoord
           r == replies
<1>2. q \in Seq(InMsgs) /\ r \in Seq(InMsgs) /\ r # <<>> /\ Wire = q \o r
  BY <1>1 DEF Wire
<1> HIDE DEF q, r
<1>3. Append(q, Head(r)) \o Tail(r) = q \o r
  BY <1>2
<1>4. QED
  BY <1>2, <1>3 DEF q, r

\* What the miner says of itself, or answers, is behind everything it said.
LEMMA WireGrows ==
  ASSUME Typed, replies = <<>>, NEW m \in InMsgs
  PROVE  /\ Wire = toCoord
         /\ Wire \in Seq(InMsgs)
         /\ Append(toCoord, m) \o replies = Append(Wire, m)
<1>1. toCoord \in Seq(InMsgs)
  BY DEF Typed, InMsgs
<1>2. Append(toCoord, m) \in Seq(InMsgs)
  BY <1>1
<1>3. toCoord \o <<>> = toCoord /\ Append(toCoord, m) \o <<>> = Append(toCoord, m)
  BY <1>1, <1>2
<1>4. QED
  BY <1>1, <1>3 DEF Wire
-----------------------------------------------------------------------------
(***************************************************************************)
(* Rows                                                                    *)
(***************************************************************************)
RowType == [job : Jobs, rejected : BOOLEAN, passed : BOOLEAN]

\* The records of the table.
LEMMA RowTypes ==
  ASSUME NEW j \in Jobs
  PROVE  /\ FailingRow(j) \in RowType /\ FailingRow(j).job = j /\ FailingRow(j).rejected
         /\ \A p \in BOOLEAN : /\ Row(j, p) \in RowType /\ Row(j, p).job = j
                               /\ ~Row(j, p).rejected /\ Row(j, p).passed = p
BY DEF FailingRow, Row, RowType

\* The row of a lease passes if a winner was counted.
LEMMA LeaseRow ==
  ASSUME NEW j \in Jobs, NEW S
  PROVE  /\ Row(j, j \in S) \in RowType /\ Row(j, j \in S).job = j /\ ~Row(j, j \in S).rejected
         /\ j \in S => Row(j, j \in S).passed = TRUE
         /\ j \notin S => Row(j, j \in S).passed = FALSE
<1>1. CASE j \in S
  <2>1. (j \in S) = TRUE
    BY <1>1
  <2>2. Row(j, j \in S) = Row(j, TRUE)
    BY <2>1 DEF Row
  <2>3. QED
    BY <1>1, <2>2, RowTypes
<1>2. CASE j \notin S
  <2>1. (j \in S) = FALSE
    BY <1>2
  <2>2. Row(j, j \in S) = Row(j, FALSE)
    BY <2>1 DEF Row
  <2>3. QED
    BY <1>2, <2>2, RowTypes
<1>3. QED
  BY <1>1, <1>2

\* SetToSeq lists a set of jobs, each of them once.
LEMMA Listed ==
  ASSUME NEW js \in SUBSET Jobs, IsFiniteSet(js)
  PROVE  /\ SetToSeq(js) \in [1 .. Cardinality(js) -> js]
         /\ \A i, k \in 1 .. Cardinality(js) : SetToSeq(js)[i] = SetToSeq(js)[k] => i = k
         /\ \A j \in js : \E i \in 1 .. Cardinality(js) : SetToSeq(js)[i] = j
         /\ Cardinality(js) \in Nat
<1> DEFINE n == Cardinality(js)
           f == SetToSeq(js)
<1>1. n \in Nat /\ ExistsBijection(1 .. n, js)
  BY FS_CardinalityType
<1>2. \E g \in [1 .. n -> js] : IsInjective(g)
  BY <1>1 DEF ExistsBijection, Bijection, Injection, IsInjective
<1>3. f \in [1 .. n -> js] /\ IsInjective(f)
  BY <1>2 DEF SetToSeq
<1> HIDE DEF f
<1>4. f \in Injection(1 .. n, js)
  BY <1>3 DEF Injection, IsInjective
<1>5. Cardinality(1 .. n) = n
  BY <1>1, FS_Interval
<1>6. f \in Surjection(1 .. n, js)
  BY <1>4, <1>5, FS_Injection
<1>7. QED
  BY <1>1, <1>3, <1>4, <1>6 DEF f, Injection, IsInjective, Surjection

\* One failing row for each of the jobs.
LEMMA FailingRowsList ==
  ASSUME NEW js \in SUBSET Jobs, IsFiniteSet(js)
  PROVE  /\ FailingRows(js) \in Seq(RowType)
         /\ \A i \in DOMAIN FailingRows(js) :
              FailingRows(js)[i].job \in js /\ FailingRows(js)[i].rejected
         /\ \A i, k \in DOMAIN FailingRows(js) :
              FailingRows(js)[i].job = FailingRows(js)[k].job => i = k
         /\ \A j \in js : \E i \in DOMAIN FailingRows(js) : FailingRows(js)[i].job = j
         /\ DOMAIN FailingRows(js) = 1 .. Cardinality(js) /\ Cardinality(js) \in Nat
<1> DEFINE n == Cardinality(js)
           f == SetToSeq(js)
<1>1. /\ f \in [1 .. n -> js] /\ n \in Nat
      /\ \A i, k \in 1 .. n : f[i] = f[k] => i = k
      /\ \A j \in js : \E i \in 1 .. n : f[i] = j
  BY Listed
<1>2. FailingRows(js) = [i \in DOMAIN f |-> FailingRow(f[i])]
  BY DEF FailingRows
<1> HIDE DEF f, n
<1>3. /\ DOMAIN FailingRows(js) = 1 .. n
      /\ \A i \in 1 .. n : FailingRows(js)[i] = FailingRow(f[i]) /\ f[i] \in Jobs
  BY <1>1, <1>2
<1>4. \A i \in 1 .. n : /\ FailingRows(js)[i] \in RowType
                        /\ FailingRows(js)[i].job = f[i] /\ FailingRows(js)[i].rejected
  BY <1>3, RowTypes
<1>5. FailingRows(js) \in [1 .. n -> RowType]
  BY <1>2, <1>3, <1>4
<1>6. QED
  BY <1>1, <1>3, <1>4, <1>5 DEF n

RowOf(q, j) == \E i \in DOMAIN q : q[i].job = j

OneEach(q) == \A i, k \in DOMAIN q : q[i].job = q[k].job => i = k

\* Rows are only added: what failing rows for a set of jobs change,
LEMMA FailingRowsAdded ==
  ASSUME NEW q \in Seq(RowType), NEW js \in SUBSET Jobs, IsFiniteSet(js)
  PROVE  LET r == q \o FailingRows(js)
         IN  /\ r \in Seq(RowType) /\ Len(q) <= Len(r)
             /\ \A j \in Jobs : RowOf(r, j) <=> RowOf(q, j) \/ j \in js
             /\ (\A j \in js : ~RowOf(q, j)) /\ OneEach(q) => OneEach(r)
             /\ \A i \in DOMAIN r : \/ i \in DOMAIN q /\ r[i] = q[i]
                                    \/ r[i].rejected /\ r[i].job \in js
             /\ \A i \in DOMAIN q : i \in DOMAIN r /\ r[i] = q[i]
<1> DEFINE f == FailingRows(js)
           r == q \o f
<1>1. /\ f \in Seq(RowType)
      /\ \A i \in DOMAIN f : f[i].job \in js /\ f[i].rejected
      /\ \A i, k \in DOMAIN f : f[i].job = f[k].job => i = k
      /\ \A j \in js : \E i \in DOMAIN f : f[i].job = j
  BY FailingRowsList
<1> HIDE DEF f
<1>2. /\ r \in Seq(RowType)
      /\ Len(q) \in Nat /\ Len(f) \in Nat
      /\ DOMAIN q = 1 .. Len(q) /\ DOMAIN f = 1 .. Len(f)
      /\ DOMAIN r = 1 .. Len(q) + Len(f) /\ Len(r) = Len(q) + Len(f)
      /\ \A i \in 1 .. Len(q) : r[i] = q[i]
      /\ \A i \in 1 .. Len(f) : r[Len(q) + i] = f[i]
      /\ \A i \in 1 .. Len(q) + Len(f) : i \notin 1 .. Len(q) =>
              i - Len(q) \in 1 .. Len(f) /\ r[i] = f[i - Len(q)]
  BY <1>1, ConcatEntries
<1> HIDE DEF r
<1>3. Len(q) <= Len(r)
  BY <1>2
<1>4. \A i \in DOMAIN q : i \in DOMAIN r /\ r[i] = q[i]
  BY <1>2
<1>5. \A i \in DOMAIN r : \/ i \in DOMAIN q /\ r[i] = q[i]
                          \/ i - Len(q) \in DOMAIN f /\ r[i] = f[i - Len(q)]
  BY <1>2
<1>6. ASSUME NEW j \in js
      PROVE  RowOf(r, j)
  <2>1. PICK i \in DOMAIN f : f[i].job = j
    BY <1>1, <1>6
  <2>2. Len(q) + i \in DOMAIN r /\ r[Len(q) + i] = f[i]
    BY <1>2
  <2>3. QED
    BY <2>1, <2>2 DEF RowOf
<1>7. ASSUME NEW j \in Jobs
      PROVE  RowOf(r, j) <=> RowOf(q, j) \/ j \in js
  BY <1>1, <1>4, <1>5, <1>6 DEF RowOf
<1>8. ASSUME \A j \in js : ~RowOf(q, j), OneEach(q)
      PROVE  OneEach(r)
  <2>1. SUFFICES ASSUME NEW i \in DOMAIN r, NEW k \in DOMAIN r, r[i].job = r[k].job
                 PROVE  i = k
    BY DEF OneEach
  <2>2. CASE i \in DOMAIN q /\ k \in DOMAIN q
    BY <1>4, <1>8, <2>1, <2>2 DEF OneEach
  <2>3. CASE i \notin DOMAIN q /\ k \notin DOMAIN q
    <3>1. i - Len(q) = k - Len(q)
      BY <1>1, <1>5, <2>1, <2>3
    <3>2. i \in Int /\ k \in Int
      BY <1>2
    <3>3. QED
      BY <1>2, <3>1, <3>2
  <2>4. CASE i \in DOMAIN q /\ k \notin DOMAIN q
    BY <1>1, <1>4, <1>5, <1>8, <2>1, <2>4 DEF RowOf
  <2>5. CASE i \notin DOMAIN q /\ k \in DOMAIN q
    BY <1>1, <1>4, <1>5, <1>8, <2>1, <2>5 DEF RowOf
  <2>6. QED
    BY <2>2, <2>3, <2>4, <2>5
<1>9. \A i \in DOMAIN r : \/ i \in DOMAIN q /\ r[i] = q[i]
                          \/ r[i].rejected /\ r[i].job \in js
  BY <1>1, <1>5
<1>10. QED
  BY <1>2, <1>3, <1>4, <1>7, <1>8, <1>9 DEF r, f

\* and what one row changes.
LEMMA RowAdded ==
  ASSUME NEW q \in Seq(RowType), NEW x \in RowType
  PROVE  LET r == Append(q, x)
         IN  /\ r \in Seq(RowType) /\ Len(q) <= Len(r)
             /\ \A j \in Jobs : RowOf(r, j) <=> RowOf(q, j) \/ j = x.job
             /\ ~RowOf(q, x.job) /\ OneEach(q) => OneEach(r)
             /\ \A i \in DOMAIN r : \/ i \in DOMAIN q /\ r[i] = q[i]
                                    \/ r[i] = x
             /\ \A i \in DOMAIN q : i \in DOMAIN r /\ r[i] = q[i]
<1> DEFINE r == Append(q, x)
           n == Len(q)
<1>1. /\ r \in Seq(RowType) /\ n \in Nat /\ Len(r) = n + 1
      /\ DOMAIN q = 1 .. n /\ DOMAIN r = 1 .. n + 1
      /\ \A i \in 1 .. n : r[i] = q[i]
      /\ r[n + 1] = x
  BY AppendEntries
<1> HIDE DEF r, n
<1>2. /\ \A i \in DOMAIN r : (i \in DOMAIN q /\ r[i] = q[i]) \/ (i = n + 1 /\ r[i] = x)
      /\ \A i \in DOMAIN q : i \in DOMAIN r /\ r[i] = q[i]
      /\ n + 1 \in DOMAIN r /\ n <= Len(r)
  BY <1>1
<1>3. \A j \in Jobs : RowOf(r, j) <=> RowOf(q, j) \/ j = x.job
  BY <1>1, <1>2 DEF RowOf
<1>4. ~RowOf(q, x.job) /\ OneEach(q) => OneEach(r)
  BY <1>2 DEF RowOf, OneEach
<1>5. QED
  BY <1>1, <1>2, <1>3, <1>4 DEF r, n
-----------------------------------------------------------------------------
(***************************************************************************)
(* The miner's answers and the harness's sends                             *)
(***************************************************************************)

\* A message without a job, and one about a job.
LEMMA MsgTypes ==
  /\ \A t \in OutTypes : Msg(t) \in OutMsgs /\ Msg(t).type = t
  /\ \A t \in InTypes : Msg(t) \in InMsgs /\ Msg(t).type = t
  /\ \A t \in OutTypes, j \in Nat : JobMsg(t, j) \in OutMsgs /\ JobMsg(t, j).type = t /\ JobMsg(t, j).job = j
  /\ \A t \in InTypes, j \in Nat : JobMsg(t, j) \in InMsgs /\ JobMsg(t, j).type = t /\ JobMsg(t, j).job = j
  /\ JobRequest \in InMsgs /\ JobRequest.type = "JobRequest"
  /\ Shutdown \in OutMsgs /\ Shutdown.type = "Shutdown"
BY DEF Msg, JobMsg, OutMsgs, InMsgs, OutTypes, InTypes, JobRequest, Shutdown

\* The four answers of the reference miner.
LEMMA AnswerForms ==
  ASSUME Typed, NEW j \in Jobs
  PROVE  \/ /\ Answer(j) = <<JobMsg("Reject", j), JobRequest>>
            /\ \/ kind[j] = "bad" \/ "Topology" \notin told \/ "SetTarget" \notin told
         \/ Answer(j) = <<JobMsg("LeaseDone", j), JobRequest>> /\ kind[j] = "lease"
         \/ /\ Answer(j) = <<JobMsg("Result", j), JobMsg("LeaseDone", j), JobRequest>>
            /\ kind[j] = "winner"
         \/ Answer(j) = <<JobMsg("Result", j), JobRequest>> /\ kind[j] \in {"plain", "foreign"}
<1>1. kind[j] \in AllKinds
  BY DEF Typed
<1>2. CASE kind[j] = "bad" \/ "Topology" \notin told \/ (kind[j] \in Leases /\ "SetTarget" \notin told)
  BY <1>2 DEF Answer, RejectAndReplace
<1>3. CASE ~(kind[j] = "bad" \/ "Topology" \notin told \/ (kind[j] \in Leases /\ "SetTarget" \notin told))
  <2>1. Answer(j) = CASE kind[j] = "lease"  -> <<JobMsg("LeaseDone", j), JobRequest>>
         [] kind[j] = "winner" -> <<JobMsg("Result", j), JobMsg("LeaseDone", j), JobRequest>>
         [] OTHER              -> <<JobMsg("Result", j), JobRequest>>
    BY <1>3 DEF Answer
  <2>2. CASE kind[j] = "lease"
    BY <2>1, <2>2
  <2>3. CASE kind[j] = "winner"
    BY <2>1, <2>3
  <2>4. CASE kind[j] \notin {"lease", "winner"}
    BY <1>1, <1>3, <2>1, <2>4 DEF AllKinds
  <2>5. QED
    BY <2>2, <2>3, <2>4
<1>4. QED
  BY <1>2, <1>3

\* Entry by entry: what an answer says, and of which job.
LEMMA AnswerEntries ==
  ASSUME DriveConstants, Typed, NEW j \in Jobs
  PROVE  /\ Answer(j) \in Seq(InMsgs)
         /\ \A i \in DOMAIN Answer(j) :
              /\ Answer(j)[i].type \in JobTypes \union {"JobRequest"}
              /\ Answer(j)[i].type \in JobTypes => Answer(j)[i].job = j
              /\ Answer(j)[i].type = "Reject" => kind[j] = "bad" \/ ~(Requirements \subseteq told)
              /\ Answer(j)[i].type = "Result" => kind[j] \in {"plain", "foreign", "winner"}
              /\ Answer(j)[i].type = "LeaseDone" =>
                   kind[j] \in Leases /\ (kind[j] = "winner" => i = 2 /\ Answer(j)[1].type = "Result")
         /\ \A i, k \in DOMAIN Answer(j) :
              i < k /\ Answer(j)[i].type \in JobTypes /\ Answer(j)[k].type \in JobTypes
                => Answer(j)[i].type = "Result" /\ Answer(j)[k].type = "LeaseDone"
<1>0. j \in Nat
  BY DEF DriveConstants
<1> DEFINE rej == JobMsg("Reject", j)
           don == JobMsg("LeaseDone", j)
           res == JobMsg("Result", j)
           jr  == JobRequest
<1>1. /\ {rej, don, res, jr} \subseteq InMsgs
      /\ rej.type = "Reject" /\ don.type = "LeaseDone" /\ res.type = "Result" /\ jr.type = "JobRequest"
      /\ rej.job = j /\ don.job = j /\ res.job = j
  BY <1>0, MsgTypes DEF InTypes
<1>2. \/ Answer(j) = <<rej, jr>> /\ (kind[j] = "bad" \/ ~(Requirements \subseteq told))
      \/ Answer(j) = <<don, jr>> /\ kind[j] = "lease"
      \/ Answer(j) = <<res, don, jr>> /\ kind[j] = "winner"
      \/ Answer(j) = <<res, jr>> /\ kind[j] \in {"plain", "foreign"}
  BY AnswerForms DEF Requirements
<1> HIDE DEF rej, don, res, jr
<1>3. CASE Answer(j) = <<rej, jr>> /\ (kind[j] = "bad" \/ ~(Requirements \subseteq told))
  BY <1>1, <1>3 DEF JobTypes
<1>4. CASE Answer(j) = <<don, jr>> /\ kind[j] = "lease"
  BY <1>1, <1>4 DEF JobTypes, Leases
<1>5. CASE Answer(j) = <<res, don, jr>> /\ kind[j] = "winner"
  BY <1>1, <1>5 DEF JobTypes, Leases
<1>6. CASE Answer(j) = <<res, jr>> /\ kind[j] \in {"plain", "foreign"}
  BY <1>1, <1>6 DEF JobTypes
<1>7. QED
  BY <1>2, <1>3, <1>4, <1>5, <1>6

\* A send reaches the channel, or nobody.
LEMMA SentForms ==
  ASSUME Typed, Fits, Room, NEW m \in OutMsgs, DriveConstants
  PROVE  /\ Sent(m) \in Seq(OutMsgs) /\ Len(Sent(m)) <= OutCap
         /\ \/ Sent(m) = Append(toMiner, m) /\ miner # "exited"
            \/ Sent(m) = toMiner /\ miner = "exited"
<1>1. toMiner \in Seq(OutMsgs) /\ Len(toMiner) <= OutCap /\ OutCap \in Nat
  BY DEF Typed, OutMsgs, Fits, DriveConstants
<1>2. QED
  BY <1>1 DEF Room, Sent

\* The entries of the greeting and of a Shutdown.
LEMMA PendingForms ==
  /\ Greeting \in Seq(OutMsgs)
  /\ \A i \in DOMAIN Greeting : Greeting[i].type \in {"Welcome", "Configure", "Topology", "SetTarget"}
  /\ \A x \in Requirements : Has(Greeting, x)
  /\ <<Shutdown>> \in Seq(OutMsgs) /\ <<Shutdown>> \o <<Shutdown>> \in Seq(OutMsgs)
  /\ <<>> \o <<Shutdown>> = <<Shutdown>>
  /\ \A q \in {<<>>, <<Shutdown>>, <<Shutdown>> \o <<Shutdown>>} :
       q \in Seq(OutMsgs) /\ \A i \in DOMAIN q : q[i] = Shutdown
<1> DEFINE w == Msg("Welcome")
           c == Msg("Configure")
           p == Msg("Topology")
           s == Msg("SetTarget")
           d == Shutdown
<1>1. {w, c, p, s, d} \subseteq OutMsgs
  BY MsgTypes DEF OutTypes
<1>2. w.type = "Welcome" /\ c.type = "Configure" /\ p.type = "Topology" /\ s.type = "SetTarget"
  BY MsgTypes DEF OutTypes
<1>3. Greeting = <<w, c, p, s>>
  BY DEF Greeting
<1> HIDE DEF w, c, p, s, d
<1>4. /\ Greeting \in Seq(OutMsgs)
      /\ \A i \in DOMAIN Greeting : Greeting[i].type \in {"Welcome", "Configure", "Topology", "SetTarget"}
  BY <1>1, <1>2, <1>3
<1>5. 3 \in DOMAIN Greeting /\ 4 \in DOMAIN Greeting /\ Greeting[3] = p /\ Greeting[4] = s
  BY <1>3
<1>6. \A x \in Requirements : Has(Greeting, x)
  BY <1>2, <1>5 DEF Requirements, Has
<1>7. /\ <<d>> \in Seq(OutMsgs) /\ <<d>> \o <<d>> \in Seq(OutMsgs)
      /\ <<>> \o <<d>> = <<d>>
      /\ \A i \in DOMAIN <<d>> : <<d>>[i] = d
      /\ \A i \in DOMAIN (<<d>> \o <<d>>) : (<<d>> \o <<d>>)[i] = d
  BY <1>1
<1>8. QED
  BY <1>4, <1>6, <1>7 DEF d

\* What the completion check leaves: the loop reads on, or has Shutdowns to send.
LEMMA GoOnForms ==
  ASSUME NEW r, NEW first \in {<<>>, <<Shutdown>>}, GoOn(r, first)
  PROVE  /\ rows' = r
         /\ loop' \in {"reading", "closing"}
         /\ pending' \in Seq(OutMsgs) /\ \A i \in DOMAIN pending' : pending'[i] = Shutdown
         /\ loop' = "reading" => pending' = <<>>
         /\ pending' # <<>> => Complete(r)
<1>1. CASE Complete(r)
  <2>1. pending' \in {<<Shutdown>>, <<Shutdown>> \o <<Shutdown>>}
    BY <1>1, PendingForms DEF GoOn
  <2>2. QED
    BY <1>1, <2>1, PendingForms DEF GoOn
<1>2. CASE ~Complete(r)
  BY <1>2 DEF GoOn
<1>3. QED
  BY <1>1, <1>2

\* The message a handler reads.
LEMMA MessageRead ==
  ASSUME Typed, Routed, NEW type \in InTypes, Next_message(type)
  PROVE  /\ loop = "reading" /\ toCoord # <<>> /\ toCoord' = Tail(toCoord)
         /\ toCoord' \in Seq(InMsgs) /\ Len(toCoord') <= Len(toCoord)
         /\ Wire \in Seq(InMsgs) /\ Wire # <<>> /\ 1 \in DOMAIN Wire
         /\ Head(toCoord) = Wire[1] /\ Wire[1].type = type
         /\ type \in JobTypes => Wire[1].job \in WireJobs
<1>1. loop = "reading" /\ toCoord # <<>> /\ toCoord' = Tail(toCoord) /\ Head(toCoord).type = type
  BY DEF Next_message
<1>2. toCoord \in Seq(InMsgs)
  BY DEF Typed, InMsgs
<1>3. toCoord' \in Seq(InMsgs) /\ Len(toCoord') <= Len(toCoord)
  BY <1>1, <1>2, TailEntries
<1>4. Wire \in Seq(InMsgs) /\ Wire # <<>> /\ Head(Wire) = Head(toCoord)
  BY <1>1, WireRead
<1>5. 1 \in DOMAIN Wire /\ Head(Wire) = Wire[1]
  BY <1>4, TailEntries
<1>6. ASSUME type \in JobTypes
      PROVE  Wire[1].job \in WireJobs
  <2>1. Wire[1].job \in Jobs
    BY <1>1, <1>4, <1>5, <1>6 DEF Routed, Once, Named
  <2>2. QED
    BY <1>1, <1>4, <1>5, <1>6, <2>1 DEF WireJobs, Carries
<1>7. QED
  BY <1>1, <1>3, <1>4, <1>5, <1>6

\* Jobs of the run, and the sets of them the tables hold, are finite.
LEMMA Finite ==
  ASSUME DriveConstants, Typed
  PROVE  /\ IsFiniteSet(staged) /\ IsFiniteSet(inflight)
         /\ \A js \in SUBSET staged : IsFiniteSet(js)
BY FS_Subset DEF DriveConstants, Typed
-----------------------------------------------------------------------------
(***************************************************************************)
(* The tables keep their types                                             *)
(***************************************************************************)

\* The session's read loop.
LEMMA TypedLoop ==
  ASSUME DriveConstants, IInv,
         Handshake \/ LoopSends \/ Greeted \/ LoopCloses \/ StreamEnds
  PROVE  Typed'
<1> USE DEF IInv
<1>1. CASE Handshake
  <2>1. toCoord' \in Seq(InMsgs)
    BY <1>1, TailEntries DEF Handshake, Typed, InMsgs
  <2>2. CASE token
    <3>1. /\ staged' = {j \in staged : Capable(j, TRUE)}
          /\ rows' = rows \o FailingRows(staged \ staged')
          /\ registered' = TRUE /\ loop' = "greeting" /\ pending' = Greeting
      BY <1>1, <2>2 DEF Handshake, Unroutable
    <3>2. staged \ staged' \in SUBSET Jobs /\ IsFiniteSet(staged \ staged')
      BY Finite DEF Typed
    <3>3. rows' \in Seq(RowType)
      BY <3>1, <3>2, FailingRowsAdded DEF Typed, RowType
    <3>4. staged' \subseteq Jobs /\ pending' \in Seq(OutMsgs)
      BY <3>1, PendingForms DEF Typed
    <3>5. QED
      BY <1>1, <2>1, <3>1, <3>3, <3>4 DEF Handshake, Typed, inputs, dispatchVars, minerVars, InMsgs,
        OutMsgs, RowType
  <2>3. CASE ~token
    BY <1>1, <2>1, <2>3 DEF Handshake, Typed, inputs, dispatchVars, minerVars, InMsgs, OutMsgs
  <2>4. QED
    BY <2>2, <2>3
<1>2. CASE LoopSends
  <2>1. pending \in Seq(OutMsgs) /\ pending # <<>> /\ Room
    BY <1>2 DEF LoopSends, Typed, OutMsgs
  <2>2. Head(pending) \in OutMsgs /\ Tail(pending) \in Seq(OutMsgs)
    BY <2>1, TailEntries
  <2>3. Sent(Head(pending)) \in Seq(OutMsgs)
    BY <2>1, <2>2, SentForms
  <2>4. shut' \in BOOLEAN
    BY <1>2 DEF LoopSends
  <2>5. QED
    BY <1>2, <2>2, <2>3, <2>4 DEF LoopSends, Typed, inputs, routerVars, dispatchVars, minerVars, OutMsgs
<1>3. CASE Greeted
  <2>1. pending' \in Seq(OutMsgs) /\ loop' \in {"closing", "reading"}
    BY <1>3, PendingForms DEF Greeted
  <2>2. QED
    BY <1>3, <2>1 DEF Greeted, Typed, inputs, routerVars, dispatchVars, minerVars, OutMsgs
<1>4. CASE LoopCloses \/ StreamEnds
  <2>1. loop' = "ended" /\ pending' = <<>> /\ grants' = <<>> /\ batch' = {}
    BY <1>4 DEF LoopCloses, StreamEnds, Ended
  <2>2. pending' \in Seq(OutMsgs) /\ grants' \in Seq(Nat)
    BY <2>1
  <2>3. QED
    BY <1>4, <2>1, <2>2 DEF LoopCloses, StreamEnds, Typed, inputs, routerVars, minerVars, OutMsgs
<1>5. QED
  BY <1>1, <1>2, <1>3, <1>4

\* handle_message.
LEMMA TypedMessage ==
  ASSUME DriveConstants, IInv,
         \/ HandleGrant("Ready", Seed) \/ HandleGrant("JobRequest", 1)
         \/ HandleCapabilities \/ HandleResult \/ HandleLeaseDone \/ HandleReject \/ HandleFatal
  PROVE  Typed'
<1> USE DEF IInv
<1>0. Seed \in Nat /\ rows \in Seq(RowType)
  BY DEF Seed, DriveConstants, Typed, RowType
<1> DEFINE j == Head(toCoord).job
<1>1. ASSUME NEW type \in {"Ready", "JobRequest"}, NEW n \in Nat, HandleGrant(type, n)
      PROVE  Typed'
  <2>1. toCoord' \in Seq(InMsgs)
    BY <1>1, MessageRead DEF HandleGrant, InTypes
  <2>2. rows' = rows /\ loop' \in {"reading", "closing"} /\ pending' \in Seq(OutMsgs)
    BY <1>1, GoOnForms DEF HandleGrant
  <2>3. grants' \in Seq(Nat)
    BY <1>1 DEF HandleGrant, Typed
  <2>4. QED
    BY <1>1, <2>1, <2>2, <2>3 DEF HandleGrant, Typed, inputs, routerVars, minerVars, InMsgs, OutMsgs
<1>2. CASE HandleCapabilities
  <2>1. toCoord' \in Seq(InMsgs)
    BY <1>2, MessageRead DEF HandleCapabilities, InTypes
  <2>2. /\ staged' = {k \in staged : Capable(k, FALSE)}
        /\ rows' = rows \o FailingRows(staged \ staged')
        /\ loop' \in {"reading", "closing"} /\ pending' \in Seq(OutMsgs)
    BY <1>2, GoOnForms DEF HandleCapabilities, Unroutable
  <2>3. staged \ staged' \in SUBSET Jobs /\ IsFiniteSet(staged \ staged')
    BY Finite DEF Typed
  <2>4. rows' \in Seq(RowType)
    BY <1>0, <2>2, <2>3, FailingRowsAdded
  <2>5. grants' \in Seq(Nat)
    BY <1>2 DEF HandleCapabilities, Typed
  <2>6. staged' \subseteq Jobs
    BY <2>2 DEF Typed
  <2>7. QED
    BY <1>2, <2>1, <2>2, <2>4, <2>5, <2>6 DEF HandleCapabilities, Typed, inputs, minerVars, InMsgs,
      OutMsgs, RowType
<1>3. CASE HandleResult
  <2>1. toCoord' \in Seq(InMsgs) /\ j \in Jobs
    BY <1>3, MessageRead DEF HandleResult, InTypes, JobTypes, WireJobs
  <2>2. rows' = rows /\ loop' \in {"reading", "closing"} /\ pending' \in Seq(OutMsgs)
    BY <1>3, GoOnForms DEF HandleResult
  <2>3. /\ tasks' = tasks \/ tasks' = tasks \union {[job |-> j, step |-> "spawned"]}
        /\ winners' = winners \/ winners' = winners \union {j}
    BY <1>3 DEF HandleResult, Counted
  <2>4. [job |-> j, step |-> "spawned"] \in [job : Jobs, step : {"spawned", "validating", "checking"}]
    BY <2>1
  <2> HIDE DEF j
  <2>5. /\ tasks' \subseteq [job : Jobs, step : {"spawned", "validating", "checking"}]
        /\ winners' \subseteq Jobs
    BY <2>1, <2>3, <2>4 DEF Typed
  <2>6. QED
    BY <1>3, <2>1, <2>2, <2>5 DEF HandleResult, Typed, inputs, routerVars, dispatchVars, minerVars, InMsgs,
      OutMsgs
<1>4. CASE HandleLeaseDone
  <2>1. toCoord' \in Seq(InMsgs) /\ j \in Jobs
    BY <1>4, MessageRead DEF HandleLeaseDone, InTypes, JobTypes, WireJobs
  <2>2. /\ rows' = rows \/ rows' = Append(rows, Row(j, j \in winners))
        /\ loop' \in {"reading", "closing"} /\ pending' \in Seq(OutMsgs)
    BY <1>4, GoOnForms DEF HandleLeaseDone
  <2>3. Row(j, j \in winners) \in RowType
    BY <2>1, LeaseRow
  <2>4. rows' \in Seq(RowType)
    <3> DEFINE x == Row(j, j \in winners)
    <3>1. x \in RowType /\ (rows' = rows \/ rows' = Append(rows, x))
      BY <2>2, <2>3
    <3> HIDE DEF x
    <3>2. QED
      BY <1>0, <3>1, RowAdded
  <2>5. inflight' \subseteq Jobs /\ winners' \subseteq Jobs
    BY <1>4 DEF HandleLeaseDone, Forget, Typed
  <2>6. QED
    BY <1>4, <2>1, <2>2, <2>4, <2>5 DEF HandleLeaseDone, Typed, inputs, routerVars, dispatchVars, minerVars,
      InMsgs, OutMsgs, RowType
<1>5. CASE HandleReject
  <2>1. toCoord' \in Seq(InMsgs) /\ j \in Jobs
    BY <1>5, MessageRead DEF HandleReject, InTypes, JobTypes, WireJobs
  <2>2. /\ rows' = Append(rows, FailingRow(j))
        /\ loop' \in {"reading", "closing"} /\ pending' \in Seq(OutMsgs)
    BY <1>5, GoOnForms DEF HandleReject
  <2>3. rows' \in Seq(RowType)
    BY <1>0, <2>1, <2>2, RowAdded, RowTypes
  <2>4. inflight' \subseteq Jobs
    BY <1>5 DEF HandleReject, Forget, Typed
  <2>5. QED
    BY <1>5, <2>1, <2>2, <2>3, <2>4 DEF HandleReject, Typed, inputs, routerVars, dispatchVars, minerVars,
      InMsgs, OutMsgs, RowType
<1>6. CASE HandleFatal
  <2>1. toCoord' \in Seq(InMsgs)
    BY <1>6, MessageRead DEF HandleFatal, InTypes
  <2>2. /\ rows' = rows \o FailingRows(inflight)
        /\ loop' = "ended" /\ pending' = <<>> /\ grants' = <<>> /\ batch' = {} /\ inflight' = {}
    BY <1>6 DEF HandleFatal, Ended
  <2>3. inflight \in SUBSET Jobs /\ IsFiniteSet(inflight)
    BY Finite DEF Typed
  <2>4. rows' \in Seq(RowType)
    BY <1>0, <2>2, <2>3, FailingRowsAdded
  <2>5. pending' \in Seq(OutMsgs) /\ grants' \in Seq(Nat)
    BY <2>2
  <2>6. QED
    BY <1>6, <2>1, <2>2, <2>4, <2>5 DEF HandleFatal, Typed, inputs, routerVars, minerVars,
      InMsgs, OutMsgs, RowType
<1>7. QED
  BY <1>0, <1>1, <1>2, <1>3, <1>4, <1>5, <1>6

\* The dispatcher and the validation tasks.
LEMMA TypedTask ==
  ASSUME DriveConstants, IInv,
         \/ Dispatch \/ DispatchSends
         \/ \E t \in tasks : \/ TaskTakes(t) \/ (\E p \in BOOLEAN : TaskRecords(t, p)) \/ TaskEnds(t)
                             \/ TaskPanics(t)
  PROVE  Typed'
<1> USE DEF IInv
<1> DEFINE TaskType == [job : Jobs, step : {"spawned", "validating", "checking"}]
<1>0. rows \in Seq(RowType) /\ tasks \subseteq TaskType /\ grants \in Seq(Nat)
  BY DEF Typed, RowType
<1>1. CASE Dispatch
  <2>1. grants # <<>> /\ grants' = Tail(grants)
    BY <1>1 DEF Dispatch
  <2>2. Head(grants) \in Nat /\ Tail(grants) \in Seq(Nat)
    BY <1>0, <2>1, TailEntries
  <2> DEFINE available == credits + Head(grants)
  <2>3. available \in Nat
    <3>1. credits \in Nat
      BY DEF Typed
    <3>2. QED
      BY <2>2, <3>1
  <2>4. PICK new \in SUBSET staged :
           /\ Popped(available, new)
           /\ credits' = available - Cardinality(new)
           /\ staged' = staged \ new /\ batch' = new
           /\ inflight' = {k \in inflight \union new :
                             \A later \in new : id[later] = id[k] => later <= k}
    BY <1>1 DEF Dispatch
  <2> HIDE DEF available
  <2>5. Cardinality(new) \in Nat /\ Cardinality(staged) \in Nat
    BY Finite, FS_CardinalityType
  <2>6. Cardinality(new) <= available
    BY <2>3, <2>4, <2>5 DEF Popped
  <2>7. credits' \in Nat
    BY <2>3, <2>4, <2>5, <2>6
  <2>8. staged' \subseteq Jobs /\ batch' \subseteq Jobs /\ inflight' \subseteq Jobs
    BY <2>4 DEF Typed
  <2>9. QED
    BY <1>1, <2>1, <2>2, <2>7, <2>8 DEF Dispatch, Typed, inputs, minerVars
<1>2. CASE DispatchSends
  <2>1. PICK j \in batch : toMiner' = Sent(JobMsg("Job", j)) /\ batch' = batch \ {j}
    BY <1>2 DEF DispatchSends
  <2>2. j \in Nat /\ JobMsg("Job", j) \in OutMsgs /\ Room
    BY <1>2, MsgTypes DEF DispatchSends, Typed, DriveConstants, OutTypes
  <2>3. toMiner' \in Seq(OutMsgs) /\ batch' \subseteq Jobs
    BY <2>1, <2>2, SentForms DEF Typed
  <2>4. QED
    BY <1>2, <2>3 DEF DispatchSends, Typed, inputs, routerVars, minerVars, OutMsgs
<1>3. ASSUME NEW t \in tasks, NEW s \in {"spawned", "validating", "checking"}
      PROVE  At(t, s) \subseteq TaskType /\ t.job \in Jobs
  BY <1>0 DEF At
<1>4. ASSUME NEW t \in tasks, TaskTakes(t)
      PROVE  Typed'
  <2>1. tasks' \subseteq TaskType /\ inflight' \subseteq Jobs
    BY <1>3, <1>4 DEF TaskTakes, Forget, Typed
  <2>2. QED
    BY <1>4, <2>1 DEF TaskTakes, Typed, inputs, routerVars, dispatchVars, minerVars
<1>5. ASSUME NEW t \in tasks, NEW p \in BOOLEAN, TaskRecords(t, p)
      PROVE  Typed'
  <2>1. tasks' \subseteq TaskType /\ t.job \in Jobs
    BY <1>3, <1>5 DEF TaskRecords
  <2>2. rows' \in Seq(RowType)
    BY <1>0, <1>5, <2>1, RowAdded, RowTypes DEF TaskRecords
  <2>3. QED
    BY <1>5, <2>1, <2>2 DEF TaskRecords, Typed, inputs, routerVars, dispatchVars, minerVars, RowType
<1>6. ASSUME NEW t \in tasks, TaskPanics(t)
      PROVE  Typed'
  <2>1. tasks' \subseteq TaskType /\ fault' \in BOOLEAN
    BY <1>3, <1>6 DEF TaskPanics
  <2>2. QED
    BY <1>6, <2>1 DEF TaskPanics, Typed, inputs, routerVars, dispatchVars, minerVars
<1>7. ASSUME NEW t \in tasks, TaskEnds(t)
      PROVE  Typed'
  <2>1. tasks' \subseteq TaskType /\ shut' \in BOOLEAN
    BY <1>0, <1>7 DEF TaskEnds
  <2>2. toMiner' \in Seq(OutMsgs)
    BY <1>7, SentForms, MsgTypes DEF TaskEnds, Typed, OutMsgs
  <2>3. QED
    BY <1>7, <2>1, <2>2 DEF TaskEnds, Typed, inputs, routerVars, dispatchVars, minerVars, OutMsgs
<1>8. QED
  BY <1>1, <1>2, <1>4, <1>5, <1>6, <1>7

\* The miner and the exit status.
LEMMA TypedMiner ==
  ASSUME DriveConstants, IInv,
         \/ Miner \/ MinerGivesUp \/ MinerNarrows \/ (\E lost \in BOOLEAN : MinerDies(lost))
         \/ Report
  PROVE  Typed'
<1> USE DEF IInv
<1>0. /\ toCoord \in Seq(InMsgs) /\ replies \in Seq(InMsgs) /\ toMiner \in Seq(OutMsgs)
      /\ <<>> \in Seq(InMsgs)
  BY DEF Typed, InMsgs, OutMsgs
<1>1. ASSUME NEW m \in InMsgs
      PROVE  Append(toCoord, m) \in Seq(InMsgs)
  BY <1>0
<1>2. /\ Msg("Hello") \in InMsgs /\ Msg("Fatal") \in InMsgs /\ Msg("Capabilities") \in InMsgs
      /\ Msg("Ready") \in InMsgs
  BY MsgTypes DEF InTypes
<1>3. CASE MinerDials
  BY <1>1, <1>2, <1>3 DEF MinerDials, Typed, inputs, routerVars, dispatchVars, InMsgs
<1>4. CASE MinerReceives
  <2>1. toMiner # <<>> /\ toMiner' = Tail(toMiner)
    BY <1>4 DEF MinerReceives
  <2>2. toMiner' \in Seq(OutMsgs) /\ 1 \in DOMAIN toMiner /\ Head(toMiner) = toMiner[1]
    BY <1>0, <2>1, TailEntries
  <2>3. miner' \in {"dialing", "running", "draining", "exited"} /\ told' \subseteq {"Topology", "SetTarget"}
    BY <1>4 DEF MinerReceives, Typed
  <2>4. replies' \in Seq(InMsgs)
    <3> DEFINE m == Head(toMiner)
    <3>1. replies' = CASE m.type = "Configure" -> <<Msg("Ready")>>
                       [] m.type = "Job"       -> Answer(m.job)
                       [] OTHER                -> <<>>
      BY <1>4 DEF MinerReceives
    <3> HIDE DEF m
    <3>2. CASE m.type = "Configure"
      BY <1>2, <3>1, <3>2
    <3>3. CASE m.type = "Job"
      <4>1. miner = "running" /\ m = toMiner[1]
        BY <1>4, <2>2 DEF MinerReceives, m
      <4>2. replies' = Answer(m.job)
        BY <3>1, <3>3
      <4>3. m.job \in Jobs
        BY <2>2, <3>3, <4>1 DEF JobsSent, Named
      <4>4. QED
        BY <4>2, <4>3, AnswerEntries
    <3>4. CASE m.type \notin {"Configure", "Job"}
      BY <1>0, <3>1, <3>4
    <3>5. QED
      BY <3>2, <3>3, <3>4
  <2>5. QED
    BY <1>4, <2>2, <2>3, <2>4 DEF MinerReceives, Typed, inputs, routerVars, dispatchVars, InMsgs, OutMsgs
<1>5. CASE MinerReplies
  <2>1. Head(replies) \in InMsgs /\ Tail(replies) \in Seq(InMsgs)
    BY <1>0, <1>5, TailEntries DEF MinerReplies
  <2>2. toCoord' \in Seq(InMsgs) /\ replies' \in Seq(InMsgs)
    BY <1>1, <1>5, <2>1 DEF MinerReplies
  <2>3. QED
    BY <1>5, <2>2 DEF MinerReplies, Typed, inputs, routerVars, dispatchVars, InMsgs
<1>6. ASSUME NEW f \in BOOLEAN, MinerRepliesInVain(f)
      PROVE  Typed'
  <2>1. replies' \in Seq(InMsgs)
    BY <1>0, <1>6, TailEntries DEF MinerRepliesInVain
  <2>2. miner' \in {"dialing", "running", "draining", "exited"}
    BY <1>6 DEF MinerRepliesInVain, Typed
  <2>3. QED
    BY <1>6, <2>1, <2>2 DEF MinerRepliesInVain, Typed, inputs, routerVars, dispatchVars, InMsgs
<1>7. CASE MinerLeaves
  BY <1>7 DEF MinerLeaves, Typed, inputs, routerVars, dispatchVars
<1>8. CASE MinerDrains
  <2>1. toMiner' \in Seq(OutMsgs)
    BY <1>0, <1>8, TailEntries DEF MinerDrains
  <2>2. QED
    BY <1>8, <2>1 DEF MinerDrains, Typed, inputs, routerVars, dispatchVars, minerVars, OutMsgs
<1>9. CASE MinerExits
  BY <1>9 DEF MinerExits, Typed, inputs, routerVars, dispatchVars
<1>10. CASE MinerGivesUp
  <2>1. toCoord' \in Seq(InMsgs) /\ fault' = TRUE /\ miner' = "draining"
    BY <1>1, <1>2, <1>10 DEF MinerGivesUp
  <2>2. QED
    BY <1>10, <2>1 DEF MinerGivesUp, Typed, inputs, routerVars, dispatchVars, InMsgs
<1>11. CASE MinerNarrows
  <2>1. toCoord' \in Seq(InMsgs) /\ narrowed' = TRUE
    BY <1>1, <1>2, <1>11 DEF MinerNarrows
  <2>2. QED
    BY <1>11, <2>1 DEF MinerNarrows, Typed, inputs, routerVars, dispatchVars, InMsgs
<1>12. ASSUME NEW lost \in BOOLEAN, MinerDies(lost)
       PROVE  Typed'
  <2>1. toCoord' \in Seq(InMsgs) /\ replies' \in Seq(InMsgs) /\ fault' = TRUE /\ miner' = "exited"
    BY <1>0, <1>12 DEF MinerDies
  <2>2. QED
    BY <1>12, <2>1 DEF MinerDies, Typed, inputs, routerVars, dispatchVars, InMsgs
<1>13. CASE Report
  <2>1. report' \in {"none", "clean", "failed"}
    BY <1>13 DEF Report
  <2>2. QED
    BY <1>13, <2>1 DEF Report, Typed, inputs, routerVars, dispatchVars, minerVars
<1>14. QED
  BY <1>3, <1>4, <1>5, <1>6, <1>7, <1>8, <1>9, <1>10, <1>11, <1>12, <1>13 DEF Miner

\* Together.
LEMMA TypedNext ==
  ASSUME DriveConstants, IInv, [Next]_vars
  PROVE  Typed'
<1>1. CASE UNCHANGED vars
  BY <1>1 DEF IInv, vars, Typed, inputs, routerVars, dispatchVars, minerVars
<1>2. QED
  BY <1>1, TypedLoop, TypedMessage, TypedTask, TypedMiner DEF Next, Harness, Trouble
-----------------------------------------------------------------------------
(***************************************************************************)
(* What a step does to the two channels                                    *)
(***************************************************************************)

\* Outbound: nothing, a message less, or one more; a job comes from the batch.
OutKept == UNCHANGED toMiner

OutRead == toMiner # <<>> /\ toMiner' = Tail(toMiner)

OutTold ==
  /\ Len(toMiner) < OutCap
  /\ \E m \in OutMsgs : m.type # "Job" /\ toMiner' = Append(toMiner, m)

OutJob ==
  /\ Len(toMiner) < OutCap
  /\ UNCHANGED <<toCoord, replies, tasks, rows, staged, inflight, loop, kind>>
  /\ \E j \in batch : /\ toMiner' = Append(toMiner, JobMsg("Job", j))
                      /\ batch' = batch \ {j}

LEMMA OutSteps ==
  ASSUME DriveConstants, IInv, [Next]_vars
  PROVE  OutKept \/ OutRead \/ OutTold \/ OutJob
<1> USE DEF IInv
<1>1. CASE LoopSends
  <2>1. pending \in Seq(OutMsgs) /\ pending # <<>> /\ Room /\ toMiner' = Sent(Head(pending))
    BY <1>1 DEF LoopSends, Typed, OutMsgs
  <2>2. Head(pending) \in OutMsgs /\ Head(pending) = pending[1] /\ 1 \in DOMAIN pending
    BY <2>1, TailEntries
  <2>3. Head(pending).type # "Job"
    BY <2>2 DEF Greets
  <2>4. QED
    BY <2>1, <2>2, <2>3 DEF Room, Sent, OutKept, OutTold
<1>2. CASE DispatchSends
  BY <1>2 DEF DispatchSends, Room, Sent, OutKept, OutJob, routerVars, minerVars, inputs
<1>3. ASSUME NEW t \in tasks, TaskEnds(t)
      PROVE  OutKept \/ OutTold
  <2>1. Shutdown \in OutMsgs /\ Shutdown.type # "Job"
    BY MsgTypes
  <2>2. QED
    BY <1>3, <2>1 DEF TaskEnds, Room, Sent, OutKept, OutTold
<1>4. CASE MinerReceives \/ MinerDrains
  BY <1>4 DEF MinerReceives, MinerDrains, OutRead
<1>5. CASE UNCHANGED toMiner
  BY <1>5 DEF OutKept
<1>6. \/ LoopSends \/ DispatchSends \/ (\E t \in tasks : TaskEnds(t)) \/ MinerReceives \/ MinerDrains
      \/ UNCHANGED toMiner
  BY DEF Next, Harness, Miner, Trouble, Report, vars, Handshake, Greeted, LoopCloses, StreamEnds,
    HandleGrant, HandleCapabilities, HandleResult, HandleLeaseDone, HandleReject, HandleFatal,
    Dispatch, TaskTakes, TaskRecords, TaskPanics, MinerDials, MinerReplies, MinerRepliesInVain,
    MinerLeaves, MinerExits, MinerGivesUp, MinerNarrows, MinerDies
<1>7. QED
  BY <1>1, <1>2, <1>3, <1>4, <1>5, <1>6

\* Inbound, with what the miner is about to send: the same, the oldest message
\* less, one more that is about no job, the answer to a job, a part of it when
\* the miner dies, or whatever, once the session is over.
WireKept == Wire' = Wire

WireTaken == Wire # <<>> /\ toCoord # <<>> /\ Wire' = Tail(Wire)

WireTold ==
  /\ \E m \in InMsgs : /\ m.type \notin JobTypes /\ Wire' = Append(Wire, m)
                       /\ m.type = "Fatal" => fault'
                       /\ m.type = "Capabilities" => narrowed'
  /\ UNCHANGED <<staged, batch, inflight, tasks, rows, winners, loop, kind>>

WireAnswer ==
  /\ miner = "running"
  /\ toMiner # <<>> /\ toMiner' = Tail(toMiner)
  /\ toMiner[1].type = "Job" /\ toMiner[1].job \in Jobs
  /\ Wire' = Wire \o Answer(toMiner[1].job)
  /\ UNCHANGED <<staged, batch, inflight, tasks, rows, winners, loop, kind>>

WireCut ==
  /\ DOMAIN Wire' \subseteq DOMAIN Wire
  /\ \A i \in DOMAIN Wire' : Wire'[i] = Wire[i]
  /\ UNCHANGED <<staged, batch, inflight, tasks, rows, winners, loop, kind>>

\* The handlers that read a message.
Reads ==
  \/ Handshake \/ HandleGrant("Ready", Seed) \/ HandleGrant("JobRequest", 1)
  \/ HandleCapabilities \/ HandleResult \/ HandleLeaseDone \/ HandleReject \/ HandleFatal

LEMMA WireSteps ==
  ASSUME DriveConstants, IInv, [Next]_vars
  PROVE  \/ WireKept /\ UNCHANGED winners
         \/ WireTaken /\ Reads
         \/ WireTold \/ WireAnswer \/ WireCut \/ loop' = "ended"
<1> USE DEF IInv
<1>0. toCoord \in Seq(InMsgs) /\ replies \in Seq(InMsgs) /\ toMiner \in Seq(OutMsgs)
  BY DEF Typed, InMsgs, OutMsgs
<1>1. ASSUME toCoord # <<>>, toCoord' = Tail(toCoord), replies' = replies
      PROVE  WireTaken
  BY <1>1, WireRead DEF Wire, WireTaken
<1>2. ASSUME UNCHANGED <<toCoord, replies, winners>>
      PROVE  WireKept /\ UNCHANGED winners
  BY <1>2 DEF Wire, WireKept
<1>3. CASE MinerReplies
  BY <1>3, WireMoves DEF MinerReplies, Wire, WireKept
<1>4. ASSUME NEW m \in InMsgs, m.type \notin JobTypes, m.type = "Fatal" => fault',
             m.type = "Capabilities" => narrowed',
             UNCHANGED <<staged, batch, inflight, tasks, rows, winners, loop, kind>>,
             replies = <<>>, toCoord' = Append(toCoord, m), replies' = replies
      PROVE  WireTold
  BY <1>4, WireGrows DEF Wire, WireTold
<1>5. CASE MinerDials
  <2>1. Msg("Hello") \in InMsgs /\ Msg("Hello").type = "Hello"
    BY MsgTypes DEF InTypes
  <2>2. replies = <<>>
    BY <1>5 DEF MinerDials, Fits
  <2>3. QED
    BY <1>4, <1>5, <2>1, <2>2 DEF MinerDials, JobTypes, routerVars, dispatchVars, inputs
<1>6. CASE MinerGivesUp
  <2>1. Msg("Fatal") \in InMsgs /\ Msg("Fatal").type = "Fatal"
    BY MsgTypes DEF InTypes
  <2>2. QED
    BY <1>4, <1>6, <2>1 DEF MinerGivesUp, JobTypes, routerVars, dispatchVars, inputs
<1>7. CASE MinerNarrows
  <2>1. Msg("Capabilities") \in InMsgs /\ Msg("Capabilities").type = "Capabilities"
    BY MsgTypes DEF InTypes
  <2>2. QED
    BY <1>4, <1>7, <2>1 DEF MinerNarrows, JobTypes, routerVars, dispatchVars, inputs
<1>8. CASE MinerReceives
  <2> DEFINE m == Head(toMiner)
  <2>1. /\ replies = <<>> /\ toCoord' = toCoord /\ toMiner # <<>> /\ toMiner' = Tail(toMiner)
        /\ miner = "running"
        /\ replies' = CASE m.type = "Configure" -> <<Msg("Ready")>>
                        [] m.type = "Job"       -> Answer(m.job)
                        [] OTHER                -> <<>>
        /\ UNCHANGED <<staged, batch, inflight, tasks, rows, winners, loop, kind>>
    BY <1>8 DEF MinerReceives, routerVars, dispatchVars, inputs
  <2>2. 1 \in DOMAIN toMiner /\ m = toMiner[1]
    BY <1>0, <2>1, TailEntries
  <2>3. Wire = toCoord
    BY <1>0, <2>1 DEF Wire
  <2> HIDE DEF m
  <2>4. CASE m.type = "Configure"
    <3>1. Msg("Ready") \in InMsgs /\ Msg("Ready").type = "Ready"
      BY MsgTypes DEF InTypes
    <3>2. replies' = <<Msg("Ready")>>
      BY <2>1, <2>4
    <3> DEFINE x == Msg("Ready")
    <3> HIDE DEF x
    <3>3. toCoord \o <<x>> = Append(toCoord, x)
      BY <1>0, <3>1 DEF x
    <3>4. Wire' = Append(Wire, x)
      BY <2>1, <2>3, <3>2, <3>3 DEF Wire, x
    <3>5. QED
      BY <2>1, <3>1, <3>4 DEF WireTold, x, JobTypes
  <2>5. CASE m.type = "Job"
    <3>1. toMiner[1].job \in Jobs
      BY <2>2, <2>5 DEF JobsSent, Named
    <3>2. replies' = Answer(m.job)
      BY <2>1, <2>5
    <3>3. Wire' = Wire \o Answer(toMiner[1].job)
      BY <2>1, <2>2, <2>3, <3>2 DEF Wire
    <3>4. QED
      BY <2>1, <2>2, <2>5, <3>1, <3>3 DEF WireAnswer
  <2>6. CASE m.type \notin {"Configure", "Job"}
    <3>1. replies' = <<>>
      BY <2>1, <2>6
    <3>2. QED
      BY <1>2, <2>1, <3>1
  <2>7. QED
    BY <2>4, <2>5, <2>6
<1>9. ASSUME NEW lost \in BOOLEAN, MinerDies(lost)
      PROVE  WireCut
  <2>1. Wire' = <<>> \/ Wire' = toCoord
    BY <1>0, <1>9 DEF MinerDies, Wire
  <2>2. /\ DOMAIN toCoord \subseteq DOMAIN (toCoord \o replies)
        /\ \A i \in DOMAIN toCoord : (toCoord \o replies)[i] = toCoord[i]
    BY <1>0, ConcatEntries
  <2>3. DOMAIN Wire' \subseteq DOMAIN Wire /\ \A i \in DOMAIN Wire' : Wire'[i] = Wire[i]
    BY <2>1, <2>2 DEF Wire
  <2>4. QED
    BY <1>9, <2>3 DEF MinerDies, WireCut, routerVars, dispatchVars, inputs
<1>10. ASSUME NEW f \in BOOLEAN, MinerRepliesInVain(f)
       PROVE  loop' = "ended"
  BY <1>10 DEF MinerRepliesInVain
<1>11. \/ toCoord # <<>> /\ toCoord' = Tail(toCoord) /\ replies' = replies /\ Reads
       \/ UNCHANGED <<toCoord, replies, winners>>
       \/ MinerReplies \/ MinerDials \/ MinerGivesUp \/ MinerNarrows \/ MinerReceives
       \/ \E lost \in BOOLEAN : MinerDies(lost)
       \/ \E f \in BOOLEAN : MinerRepliesInVain(f)
  BY DEF Next, Harness, Miner, Trouble, Report, vars, Handshake, LoopSends, Greeted, LoopCloses, StreamEnds,
    HandleGrant, HandleCapabilities, HandleResult, HandleLeaseDone, HandleReject, HandleFatal,
    Next_message, Reads, Dispatch, DispatchSends, TaskTakes, TaskRecords, TaskPanics, TaskEnds,
    MinerLeaves, MinerDrains, MinerExits, minerVars
<1>12. QED
  BY <1>1, <1>2, <1>3, <1>5, <1>6, <1>7, <1>8, <1>9, <1>10, <1>11

\* The channels keep within their capacities.
LEMMA FitsNext ==
  ASSUME DriveConstants, IInv, [Next]_vars
  PROVE  Fits'
<1> USE DEF IInv
<1>0. /\ toCoord \in Seq(InMsgs) /\ replies \in Seq(InMsgs) /\ toMiner \in Seq(OutMsgs) /\ grants \in Seq(Nat)
      /\ OutCap \in Nat \ {0} /\ InCap \in Nat \ {0} /\ GrantCap \in Nat \ {0}
      /\ Len(toMiner) <= OutCap /\ Len(grants) <= GrantCap /\ Len(toCoord) <= InCap
  BY DEF Typed, InMsgs, OutMsgs, Fits, DriveConstants
<1>1. Len(toMiner') <= OutCap
  <2>1. CASE OutKept
    BY <1>0, <2>1 DEF OutKept
  <2>2. CASE OutRead
    <3>1. Len(Tail(toMiner)) = Len(toMiner) - 1 /\ Len(toMiner) \in Nat
      BY <1>0, <2>2, TailEntries DEF OutRead
    <3>2. QED
      BY <1>0, <2>2, <3>1 DEF OutRead
  <2>3. ASSUME OutTold \/ OutJob
        PROVE  Len(toMiner') <= OutCap
    <3>1. PICK m \in OutMsgs : toMiner' = Append(toMiner, m) /\ Len(toMiner) < OutCap
      <4>1. \A j \in batch : JobMsg("Job", j) \in OutMsgs
        BY MsgTypes DEF Typed, DriveConstants, OutTypes
      <4>2. QED
        BY <2>3, <4>1 DEF OutTold, OutJob
    <3>2. Len(Append(toMiner, m)) = Len(toMiner) + 1 /\ Len(toMiner) \in Nat
      BY <1>0, AppendEntries
    <3>3. QED
      BY <1>0, <3>1, <3>2
  <2>4. QED
    BY <2>1, <2>2, <2>3, OutSteps
<1>2. Len(grants') <= GrantCap
  <2>1. ASSUME NEW n \in Nat, grants' = Append(grants, n), Len(grants) < GrantCap
        PROVE  Len(grants') <= GrantCap
    <3>1. Len(Append(grants, n)) = Len(grants) + 1 /\ Len(grants) \in Nat
      BY <1>0, AppendEntries
    <3>2. QED
      BY <1>0, <2>1, <3>1
  <2>2. ASSUME grants # <<>>, grants' = Tail(grants)
        PROVE  Len(grants') <= GrantCap
    <3>1. Len(Tail(grants)) = Len(grants) - 1 /\ Len(grants) \in Nat
      BY <1>0, <2>2, TailEntries
    <3>2. QED
      BY <1>0, <2>2, <3>1
  <2>3. CASE grants' = <<>>
    BY <1>0, <2>3
  <2>4. CASE grants' = grants
    BY <1>0, <2>4
  <2>5. Seed \in Nat
    BY DEF Seed, DriveConstants
  <2>6. \/ \E n \in Nat : grants' = Append(grants, n) /\ Len(grants) < GrantCap
        \/ grants # <<>> /\ grants' = Tail(grants)
        \/ grants' = <<>> \/ grants' = grants
    BY <2>5 DEF Next, Harness, Miner, Trouble, Report, vars, Handshake, LoopSends, Greeted, LoopCloses,
      StreamEnds, Ended, HandleGrant, HandleCapabilities, HandleResult, HandleLeaseDone, HandleReject,
      HandleFatal, Dispatch, DispatchSends, TaskTakes, TaskRecords, TaskPanics, TaskEnds,
      MinerDials, MinerReceives, MinerReplies, MinerRepliesInVain, MinerLeaves, MinerDrains, MinerExits,
      MinerGivesUp, MinerNarrows, MinerDies, dispatchVars
  <2>7. QED
    BY <2>1, <2>2, <2>3, <2>4, <2>6
<1>3. Len(toCoord') <= InCap
  <2>1. ASSUME NEW m \in InMsgs, toCoord' = Append(toCoord, m), Len(toCoord) < InCap
        PROVE  Len(toCoord') <= InCap
    <3>1. Len(Append(toCoord, m)) = Len(toCoord) + 1 /\ Len(toCoord) \in Nat
      BY <1>0, AppendEntries
    <3>2. QED
      BY <1>0, <2>1, <3>1
  <2>2. ASSUME toCoord # <<>>, toCoord' = Tail(toCoord)
        PROVE  Len(toCoord') <= InCap
    <3>1. Len(Tail(toCoord)) = Len(toCoord) - 1 /\ Len(toCoord) \in Nat
      BY <1>0, <2>2, TailEntries
    <3>2. QED
      BY <1>0, <2>2, <3>1
  <2>3. CASE toCoord' = <<>>
    BY <1>0, <2>3
  <2>4. CASE toCoord' = toCoord
    BY <1>0, <2>4
  <2>5. /\ Msg("Hello") \in InMsgs /\ Msg("Fatal") \in InMsgs /\ Msg("Capabilities") \in InMsgs
        /\ replies # <<>> => Head(replies) \in InMsgs
    BY <1>0, MsgTypes, TailEntries DEF InTypes
  <2>6. miner = "dialing" => Len(toCoord) < InCap
    BY <1>0 DEF Fits
  <2>7. \/ \E m \in InMsgs : toCoord' = Append(toCoord, m) /\ Len(toCoord) < InCap
        \/ toCoord # <<>> /\ toCoord' = Tail(toCoord)
        \/ toCoord' = <<>> \/ toCoord' = toCoord
    BY <2>5, <2>6 DEF Next, Harness, Miner, Trouble, Report, vars, Handshake, LoopSends, Greeted, LoopCloses,
      StreamEnds, HandleGrant, HandleCapabilities, HandleResult, HandleLeaseDone, HandleReject,
      HandleFatal, Next_message, Dispatch, DispatchSends, TaskTakes, TaskRecords, TaskPanics, TaskEnds,
      MinerDials, MinerReceives, MinerReplies, MinerRepliesInVain, MinerLeaves, MinerDrains, MinerExits,
      MinerGivesUp, MinerNarrows, MinerDies
  <2>8. QED
    BY <2>1, <2>2, <2>3, <2>4, <2>7
<1>4. miner' = "dialing" => toCoord' = <<>> /\ replies' = <<>>
  <2>1. SUFFICES ASSUME miner' = "dialing"
                 PROVE  toCoord' = <<>> /\ replies' = <<>>
    OBVIOUS
  <2>2. miner = "dialing" /\ (UNCHANGED <<toCoord, replies>> \/ toCoord # <<>>)
    BY <2>1 DEF Next, Harness, Miner, Trouble, Report, vars, Handshake, LoopSends, Greeted, LoopCloses,
      StreamEnds, HandleGrant, HandleCapabilities, HandleResult, HandleLeaseDone, HandleReject,
      HandleFatal, Next_message, Dispatch, DispatchSends, TaskTakes, TaskRecords, TaskPanics, TaskEnds,
      MinerDials, MinerReceives, MinerReplies, MinerRepliesInVain, MinerLeaves, MinerDrains, MinerExits,
      MinerGivesUp, MinerNarrows, MinerDies, minerVars
  <2>3. QED
    BY <2>2 DEF Fits
<1>5. QED
  BY <1>1, <1>2, <1>3, <1>4 DEF Fits

\* The workload is chosen once.
LEMMA InputsKept ==
  ASSUME [Next]_vars
  PROVE  UNCHANGED <<kind, id, token>>
BY DEF Next, Harness, Miner, Trouble, Report, vars, inputs, Handshake, LoopSends, Greeted, LoopCloses,
  StreamEnds, HandleGrant, HandleCapabilities, HandleResult, HandleLeaseDone, HandleReject,
  HandleFatal, Dispatch, DispatchSends, TaskTakes, TaskRecords, TaskPanics, TaskEnds,
  MinerDials, MinerReceives, MinerReplies, MinerRepliesInVain, MinerLeaves, MinerDrains, MinerExits,
  MinerGivesUp, MinerNarrows, MinerDies

\* Only jobs of the run are sent.
LEMMA JobsSentNext ==
  ASSUME DriveConstants, IInv, [Next]_vars
  PROVE  JobsSent'
<1> USE DEF IInv
<1>0. toMiner \in Seq(OutMsgs) /\ \A i \in DOMAIN toMiner : toMiner[i].type = "Job" => toMiner[i].job \in Jobs
  BY DEF Typed, OutMsgs, JobsSent, Named
<1>1. CASE OutKept
  BY <1>0, <1>1 DEF OutKept, JobsSent, Named
<1>2. CASE OutRead
  BY <1>0, <1>2, TailEntries DEF OutRead, JobsSent, Named
<1>3. ASSUME OutTold \/ OutJob
      PROVE  JobsSent'
  <2>1. \A j \in batch : JobMsg("Job", j) \in OutMsgs /\ JobMsg("Job", j).job \in Jobs
    BY MsgTypes DEF Typed, DriveConstants, OutTypes
  <2>2. PICK m \in OutMsgs : toMiner' = Append(toMiner, m) /\ (m.type = "Job" => m.job \in Jobs)
    BY <1>3, <2>1 DEF OutTold, OutJob
  <2>3. QED
    BY <1>0, <2>2, AppendEntries DEF JobsSent, Named
<1>4. QED
  BY <1>1, <1>2, <1>3, OutSteps
-----------------------------------------------------------------------------
(***************************************************************************)
(* Where the jobs are after a step                                         *)
(***************************************************************************)

\* Outbound.
LEMMA OutJobsNext ==
  ASSUME DriveConstants, IInv, loop # "ended"
  PROVE  /\ OutKept => OutJobs' = OutJobs /\ SentOnce(toMiner')
         /\ OutRead => /\ OutJobs' \subseteq OutJobs /\ SentOnce(toMiner')
                       /\ toMiner[1].type = "Job" => toMiner[1].job \notin OutJobs'
         /\ OutTold => OutJobs' = OutJobs /\ SentOnce(toMiner')
         /\ OutJob => /\ SentOnce(toMiner')
                      /\ \E j \in batch : batch' = batch \ {j} /\ OutJobs' = OutJobs \union {j}
<1> USE DEF IInv
<1>0. toMiner \in Seq(OutMsgs) /\ SentOnce(toMiner) /\ batch \intersect OutJobs = {} /\ batch \subseteq Jobs
  BY DEF Typed, OutMsgs, Routed, Once, Places
<1>1. ASSUME OutKept
      PROVE  OutJobs' = OutJobs /\ SentOnce(toMiner')
  BY <1>0, <1>1 DEF OutKept, OutJobs
<1>2. ASSUME OutRead
      PROVE  /\ OutJobs' \subseteq OutJobs /\ SentOnce(toMiner')
             /\ toMiner[1].type = "Job" => toMiner[1].job \notin OutJobs'
  <2> DEFINE q == toMiner
  <2>1. /\ toMiner' = Tail(q) /\ q # <<>> /\ q \in Seq(OutMsgs) /\ SentOnce(q)
    BY <1>0, <1>2 DEF OutRead
  <2>2. /\ 1 \in DOMAIN q
        /\ \A i \in DOMAIN Tail(q) : i + 1 \in DOMAIN q /\ Tail(q)[i] = q[i + 1] /\ i \in Nat
        /\ DOMAIN Tail(q) \subseteq Nat \ {0}
    BY <2>1, TailEntries
  <2>3. OutJobs' \subseteq OutJobs
    BY <2>1, CarriesTail DEF OutJobs
  <2> HIDE DEF q
  <2>4. SentOnce(Tail(q))
    BY <2>1, <2>2 DEF SentOnce
  <2>5. q[1].type = "Job" => ~Carries(Tail(q), {"Job"}, q[1].job)
    BY <2>1, <2>2 DEF SentOnce, Carries
  <2>6. QED
    BY <2>1, <2>3, <2>4, <2>5 DEF OutJobs, q
<1>3. ASSUME OutTold
      PROVE  OutJobs' = OutJobs /\ SentOnce(toMiner')
  <2>1. PICK m \in OutMsgs : m.type # "Job" /\ toMiner' = Append(toMiner, m)
    BY <1>3 DEF OutTold
  <2>2. \A j \in Jobs : Carries(toMiner', {"Job"}, j) <=> Carries(toMiner, {"Job"}, j)
    BY <1>0, <2>1, CarriesAppend
  <2>3. SentOnce(Append(toMiner, m))
    BY <1>0, <2>1, AppendEntries DEF SentOnce
  <2>4. QED
    BY <2>1, <2>2, <2>3 DEF OutJobs
<1>4. ASSUME OutJob
      PROVE  /\ SentOnce(toMiner')
             /\ \E j \in batch : batch' = batch \ {j} /\ OutJobs' = OutJobs \union {j}
  <2>1. PICK j \in batch : toMiner' = Append(toMiner, JobMsg("Job", j)) /\ batch' = batch \ {j}
    BY <1>4 DEF OutJob
  <2> DEFINE m == JobMsg("Job", j)
  <2>2. m \in OutMsgs /\ m.type = "Job" /\ m.job = j /\ j \in Jobs
    BY <1>0, MsgTypes DEF DriveConstants, OutTypes
  <2> HIDE DEF m
  <2>3. \A x \in Jobs : Carries(Append(toMiner, m), {"Job"}, x) <=> Carries(toMiner, {"Job"}, x) \/ x = j
    BY <1>0, <2>2, CarriesAppend
  <2>4. ~Carries(toMiner, {"Job"}, j)
    BY <1>0, <2>2 DEF OutJobs
  <2>5. SentOnce(Append(toMiner, m))
    BY <1>0, <2>2, <2>4, AppendEntries DEF SentOnce, Carries
  <2>6. QED
    BY <2>1, <2>2, <2>3, <2>5 DEF OutJobs, m
<1>5. QED
  BY <1>1, <1>2, <1>3, <1>4

\* What the entries of the wire have in common.
WireOK(q) == Named(q, JobTypes) /\ AnsweredOnce(q)

\* Inbound.
LEMMA WireJobsNext ==
  ASSUME DriveConstants, IInv, loop # "ended"
  PROVE  /\ WireKept => WireJobs' = WireJobs /\ WireOK(Wire')
         /\ WireTaken => /\ WireJobs' \subseteq WireJobs /\ WireOK(Wire')
                         /\ Wire[1].type \in JobTypes /\ ~(Wire[1].type = "Result" /\ kind[Wire[1].job] \in Leases)
                              => Wire[1].job \notin WireJobs'
         /\ WireTold => WireJobs' = WireJobs /\ WireOK(Wire')
         /\ WireAnswer => WireJobs' \subseteq WireJobs \union {toMiner[1].job} /\ WireOK(Wire')
         /\ WireCut => WireJobs' \subseteq WireJobs /\ WireOK(Wire')
<1> USE DEF IInv
<1> DEFINE q == Wire
<1>0. q \in Seq(InMsgs) /\ WireOK(q) /\ Truthful /\ OutJobs \intersect WireJobs = {}
  BY DEF Typed, InMsgs, Routed, Once, Places, WireOK, Wire
<1>1. ASSUME WireKept
      PROVE  WireJobs' = WireJobs /\ WireOK(Wire')
  BY <1>0, <1>1 DEF WireKept, WireJobs
<1>2. ASSUME WireTaken
      PROVE  /\ WireJobs' \subseteq WireJobs /\ WireOK(Wire')
             /\ Wire[1].type \in JobTypes /\ ~(Wire[1].type = "Result" /\ kind[Wire[1].job] \in Leases)
                              => Wire[1].job \notin WireJobs'
  <2>1. Wire' = Tail(q) /\ q # <<>> /\ q \in Seq(InMsgs) /\ WireOK(q)
    BY <1>0, <1>2 DEF WireTaken
  <2>2. /\ 1 \in DOMAIN q
        /\ \A i \in DOMAIN Tail(q) : i + 1 \in DOMAIN q /\ Tail(q)[i] = q[i + 1] /\ i \in Nat
        /\ DOMAIN Tail(q) \subseteq Nat \ {0}
    BY <2>1, TailEntries
  <2>3. WireJobs' \subseteq WireJobs
    BY <2>1, CarriesTail DEF WireJobs
  <2>4. \A i \in DOMAIN q : q[i].type = "LeaseDone" => kind[q[i].job] \in Leases
    BY <1>0 DEF Truthful
  <2> HIDE DEF q
  <2>5. WireOK(Tail(q))
    BY <2>1, <2>2 DEF WireOK, Named, AnsweredOnce
  <2>6. ASSUME q[1].type \in JobTypes, Carries(Tail(q), JobTypes, q[1].job)
        PROVE  q[1].type = "Result" /\ kind[q[1].job] \in Leases
    <3>1. PICK i \in DOMAIN Tail(q) : Tail(q)[i].type \in JobTypes /\ Tail(q)[i].job = q[1].job
      BY <2>6 DEF Carries
    <3>2. i + 1 \in DOMAIN q /\ q[i + 1].type \in JobTypes /\ q[i + 1].job = q[1].job /\ 1 < i + 1
      BY <2>2, <3>1
    <3>3. q[1].type = "Result" /\ q[i + 1].type = "LeaseDone"
      BY <2>1, <2>2, <2>6, <3>2 DEF WireOK, AnsweredOnce
    <3>4. QED
      BY <2>4, <3>2, <3>3
  <2>7. QED
    BY <2>1, <2>3, <2>5, <2>6 DEF WireJobs, q
<1>3. ASSUME WireTold
      PROVE  WireJobs' = WireJobs /\ WireOK(Wire')
  <2>1. PICK m \in InMsgs : m.type \notin JobTypes /\ Wire' = Append(q, m)
    BY <1>3 DEF WireTold
  <2>2. \A j \in Jobs : Carries(Wire', JobTypes, j) <=> Carries(Wire, JobTypes, j)
    BY <1>0, <2>1, CarriesAppend
  <2>3. q \in Seq(InMsgs) /\ WireOK(q)
    BY <1>0
  <2> HIDE DEF q
  <2>4. WireOK(Append(q, m))
    BY <2>1, <2>3, AppendEntries DEF WireOK, Named, AnsweredOnce
  <2>5. QED
    BY <2>1, <2>2, <2>4 DEF WireJobs
<1>4. ASSUME WireAnswer
      PROVE  WireJobs' \subseteq WireJobs \union {toMiner[1].job} /\ WireOK(Wire')
  <2> DEFINE j == toMiner[1].job
             r == Answer(j)
  <2>1. Wire' = q \o r /\ j \in Jobs /\ toMiner[1].type = "Job" /\ toMiner # <<>>
    BY <1>4 DEF WireAnswer
  <2>2. j \notin WireJobs
    <3>1. 1 \in DOMAIN toMiner
      BY <2>1, TailEntries DEF Typed
    <3>2. j \in OutJobs
      BY <2>1, <3>1 DEF OutJobs, Carries
    <3>3. QED
      BY <1>0, <3>2
  <2>3. /\ r \in Seq(InMsgs)
        /\ \A i \in DOMAIN r : r[i].type \in JobTypes => r[i].job = j
        /\ \A i, k \in DOMAIN r : i < k /\ r[i].type \in JobTypes /\ r[k].type \in JobTypes
                => r[i].type = "Result" /\ r[k].type = "LeaseDone"
    BY <2>1, AnswerEntries
  <2>4. \A i \in DOMAIN q : q[i].type \in JobTypes => q[i].job # j /\ q[i].job \in Jobs
    BY <1>0, <2>1, <2>2 DEF WireJobs, Carries, WireOK, Named
  <2>5. q \in Seq(InMsgs) /\ WireOK(q)
    BY <1>0
  <2>6. \A x \in Jobs : Carries(q \o r, JobTypes, x) => Carries(Wire, JobTypes, x) \/ x = j
    <3>1. \A x \in Jobs : Carries(r, JobTypes, x) => x = j
      BY <2>3 DEF Carries
    <3>2. QED
      BY <2>3, <2>5, <3>1, CarriesConcat
  <2> HIDE DEF q, r, j
  <2> DEFINE n == Len(q)
             w == q \o r
  <2>7. /\ n \in Nat /\ Len(r) \in Nat
        /\ DOMAIN q = 1 .. n /\ DOMAIN r = 1 .. Len(r) /\ DOMAIN w = 1 .. n + Len(r)
        /\ \A i \in 1 .. n : w[i] = q[i]
        /\ \A i \in 1 .. n + Len(r) : i \notin 1 .. n => i - n \in 1 .. Len(r) /\ w[i] = r[i - n]
    BY <2>3, <2>5, ConcatEntries
  <2> HIDE DEF w, n
  <2>8. Named(w, JobTypes)
    <3>1. SUFFICES ASSUME NEW i \in DOMAIN w, w[i].type \in JobTypes
                   PROVE  w[i].job \in Jobs
      BY DEF Named
    <3>2. CASE i \in 1 .. n
      BY <2>4, <2>7, <3>1, <3>2
    <3>3. CASE i \notin 1 .. n
      <4>1. i - n \in DOMAIN r /\ w[i] = r[i - n]
        BY <2>7, <3>1, <3>3
      <4>2. w[i].job = j
        BY <2>3, <3>1, <4>1
      <4>3. QED
        BY <2>1, <4>2
    <3>4. QED
      BY <3>2, <3>3
  <2>9. AnsweredOnce(w)
    <3>1. SUFFICES ASSUME NEW i \in DOMAIN w, NEW k \in DOMAIN w, i < k,
                          w[i].type \in JobTypes, w[k].type \in JobTypes, w[i].job = w[k].job
                   PROVE  w[i].type = "Result" /\ w[k].type = "LeaseDone"
      BY DEF AnsweredOnce
    <3>2. CASE i \in 1 .. n /\ k \in 1 .. n
      BY <2>5, <2>7, <3>1, <3>2 DEF WireOK, AnsweredOnce
    <3>3. CASE i \in 1 .. n /\ k \notin 1 .. n
      BY <2>3, <2>4, <2>7, <3>1, <3>3
    <3>4. CASE i \notin 1 .. n /\ k \notin 1 .. n
      <4>1. i - n \in DOMAIN r /\ k - n \in DOMAIN r /\ i - n < k - n
        BY <2>7, <3>1, <3>4
      <4>2. QED
        BY <2>3, <2>7, <3>1, <3>4, <4>1
    <3>5. CASE i \notin 1 .. n /\ k \in 1 .. n
      BY <2>7, <3>1, <3>5
    <3>6. QED
      BY <3>2, <3>3, <3>4, <3>5
  <2>10. QED
    BY <2>1, <2>6, <2>8, <2>9 DEF WireJobs, WireOK, w, q, j
<1>5. ASSUME WireCut
      PROVE  WireJobs' \subseteq WireJobs /\ WireOK(Wire')
  <2>1. DOMAIN Wire' \subseteq DOMAIN q /\ \A i \in DOMAIN Wire' : Wire'[i] = q[i]
    BY <1>5 DEF WireCut
  <2>2. WireJobs' \subseteq WireJobs
    BY <2>1 DEF WireJobs, Carries
  <2>3. WireOK(Wire')
    BY <1>0, <2>1 DEF WireOK, Named, AnsweredOnce
  <2>4. QED
    BY <2>2, <2>3
<1>6. QED
  BY <1>1, <1>2, <1>3, <1>4, <1>5

\* Jobs go out once and come back once.
LEMMA OnceNext ==
  ASSUME DriveConstants, IInv, [Next]_vars, loop # "ended", loop' # "ended"
  PROVE  Once'
<1>1. SentOnce(toMiner')
  BY OutSteps, OutJobsNext
<1>2. WireOK(Wire')
  BY WireSteps, WireJobsNext
<1>3. QED
  BY <1>1, <1>2 DEF Once, WireOK

\* A task that goes on, panics or ends is for no other job.
LEMMA TaskJobsNext ==
  ASSUME Typed, NEW t \in tasks, tasks' = tasks \ {t} \/ \E s \in {"validating", "checking"} : tasks' = At(t, s),
         t.step # "checking" \/ tasks' = tasks \ {t}
  PROVE  TaskJobs' \subseteq TaskJobs
<1>1. \A u \in tasks : u \in [job : Jobs, step : {"spawned", "validating", "checking"}]
  BY DEF Typed
<1>2. CASE tasks' = tasks \ {t}
  BY <1>2 DEF TaskJobs, Tasked
<1>3. CASE t.step # "checking" /\ \E s \in {"validating", "checking"} : tasks' = At(t, s)
  <2>1. PICK s \in {"validating", "checking"} : tasks' = At(t, s)
    BY <1>3
  <2>2. [t EXCEPT !.step = s].job = t.job
    BY <1>1
  <2>3. \A u \in tasks' : u \in tasks \/ u = [t EXCEPT !.step = s]
    BY <2>1 DEF At
  <2>4. ASSUME NEW j \in Jobs, NEW u \in tasks', u.job = j, u.step # "checking"
        PROVE  Tasked(j)
    BY <1>3, <2>2, <2>3, <2>4 DEF Tasked
  <2>5. QED
    BY <2>4 DEF TaskJobs, Tasked
<1>4. QED
  BY <1>2, <1>3

\* The harness reads from the wire, or leaves it alone.
LEMMA ReadTakes ==
  ASSUME Typed, UNCHANGED replies
  PROVE  /\ toCoord # <<>> /\ toCoord' = Tail(toCoord) => WireTaken
         /\ UNCHANGED toCoord => WireKept
BY WireRead DEF Wire, WireTaken, WireKept

\* A job that leaves one place for the next is in no other.
LEMMA PlacesNext ==
  ASSUME DriveConstants, IInv, [Next]_vars, loop # "ended", loop' # "ended"
  PROVE  Places'
<1> USE DEF IInv
<1>0. /\ Places /\ LeasesHeld /\ rows \in Seq(RowType) /\ toMiner \in Seq(OutMsgs) /\ staged \subseteq Jobs
      /\ inflight \subseteq Jobs /\ tasks \subseteq [job : Jobs, step : {"spawned", "validating", "checking"}]
  BY DEF Routed, Typed, RowType, OutMsgs
<1>1. ASSUME staged' \subseteq staged, batch' \subseteq batch, OutJobs' \subseteq OutJobs,
             WireJobs' \subseteq WireJobs, TaskJobs' \subseteq TaskJobs, RowJobs' \subseteq RowJobs,
             inflight' \subseteq inflight
      PROVE  Places'
  BY <1>0, <1>1 DEF Places
<1>2. /\ UNCHANGED tasks => TaskJobs' = TaskJobs
      /\ UNCHANGED rows => RowJobs' = RowJobs
      /\ OutKept => OutJobs' = OutJobs
      /\ WireKept => WireJobs' = WireJobs
      /\ WireTaken => WireJobs' \subseteq WireJobs
  BY OutJobsNext, WireJobsNext DEF TaskJobs, Tasked, RowJobs, HasRow
<1>3. CASE UNCHANGED <<staged, batch, inflight, tasks, rows>>
  <2>1. ~OutJob
    BY <1>3 DEF OutJob
  <2>2. OutJobs' \subseteq OutJobs
    BY <2>1, OutSteps, OutJobsNext
  <2>3. CASE WireAnswer
    <3>1. OutRead /\ toMiner # <<>> /\ toMiner[1].type = "Job" /\ toMiner[1].job \in Jobs
      BY <2>3 DEF WireAnswer, OutRead
    <3>2. 1 \in DOMAIN toMiner
      BY <1>0, <3>1, TailEntries
    <3>3. toMiner[1].job \in OutJobs /\ toMiner[1].job \notin OutJobs'
      BY <3>1, <3>2, OutJobsNext DEF OutJobs, Carries
    <3>4. WireJobs' \subseteq WireJobs \union {toMiner[1].job}
      BY <2>3, WireJobsNext
    <3>5. QED
      BY <1>0, <1>2, <1>3, <2>2, <3>3, <3>4 DEF Places
  <2>4. CASE ~WireAnswer
    <3>1. WireJobs' \subseteq WireJobs
      BY <2>4, WireSteps, WireJobsNext
    <3>2. QED
      BY <1>1, <1>2, <1>3, <2>2, <3>1
  <2>5. QED
    BY <2>3, <2>4
<1>4. CASE OutJob
  <2>1. PICK j \in batch : batch' = batch \ {j} /\ OutJobs' = OutJobs \union {j}
    BY <1>4, OutJobsNext
  <2>2. UNCHANGED <<staged, inflight, tasks, rows>> /\ WireKept
    BY <1>4 DEF OutJob, WireKept, Wire
  <2>3. QED
    BY <1>0, <1>2, <2>1, <2>2 DEF Places
<1>5. CASE DispatchSends /\ ~OutJob
  <2>1. batch' \subseteq batch /\ UNCHANGED <<staged, inflight, tasks, rows, toCoord, replies>>
    BY <1>5 DEF DispatchSends, routerVars, minerVars
  <2>2. toMiner' = toMiner
    BY <1>5 DEF DispatchSends, Room, Sent, OutJob, routerVars, minerVars, inputs
  <2>3. QED
    BY <1>1, <1>2, <2>1, <2>2 DEF OutKept, WireKept, Wire
<1>6. ASSUME staged' \subseteq staged, rows' = rows \o Unroutable(staged \ staged'),
             UNCHANGED <<batch, inflight, tasks, toMiner>>, WireTaken
      PROVE  Places'
  <2>1. staged \ staged' \in SUBSET Jobs /\ IsFiniteSet(staged \ staged')
    BY <1>0, Finite
  <2>2. \A j \in Jobs : RowOf(rows', j) <=> RowOf(rows, j) \/ j \in staged \ staged'
    BY <1>0, <1>6, <2>1, FailingRowsAdded DEF Unroutable
  <2>3. RowJobs' = RowJobs \union (staged \ staged')
    BY <1>0, <2>2 DEF RowJobs, HasRow, RowOf
  <2>4. QED
    BY <1>0, <1>2, <1>6, <2>3 DEF Places, OutKept
<1>7. CASE Handshake
  <2>1. token
    BY <1>7 DEF Handshake
  <2>2. QED
    BY <1>6, <1>7, <2>1, ReadTakes DEF Handshake, minerVars, dispatchVars
<1>8. CASE HandleCapabilities
  BY <1>6, <1>8, ReadTakes DEF HandleCapabilities, GoOn, Next_message, minerVars
<1>9. CASE HandleResult
  <2> DEFINE j == Head(toCoord).job
             lease == \E k \in Holding(j) : kind[k] \in Leases
  <2>1. /\ tasks' = IF lease THEN tasks ELSE tasks \union {[job |-> j, step |-> "spawned"]}
        /\ UNCHANGED <<staged, batch, inflight, toMiner, rows>>
    BY <1>9 DEF HandleResult, GoOn, routerVars, dispatchVars
  <2>2. WireTaken
    BY <1>9, ReadTakes DEF HandleResult, Next_message, minerVars
  <2>3. j = Wire[1].job /\ Wire[1].type = "Result" /\ j \in WireJobs
    BY <1>9, MessageRead DEF HandleResult, InTypes, JobTypes
  <2>4. CASE lease
    BY <1>1, <1>2, <2>1, <2>2, <2>4 DEF OutKept
  <2>5. CASE ~lease
    <3>1. kind[j] \notin Leases
      BY <1>0, <2>3, <2>5 DEF LeasesHeld, Holding, WireJobs
    <3>2. j \notin WireJobs'
      BY <2>2, <2>3, <3>1, WireJobsNext DEF JobTypes
    <3>3. TaskJobs' \subseteq TaskJobs \union {j}
      BY <2>1, <2>5 DEF TaskJobs, Tasked
    <3> HIDE DEF j
    <3>4. QED
      BY <1>0, <1>2, <2>1, <2>2, <2>3, <3>2, <3>3 DEF Places, OutKept
  <2>6. QED
    BY <2>4, <2>5
<1>10. ASSUME NEW type \in {"LeaseDone", "Reject"}, Next_message(type), inflight' \subseteq inflight,
              NEW x \in RowType, x.job = Head(toCoord).job, rows' = rows \/ rows' = Append(rows, x),
              UNCHANGED <<staged, batch, tasks, toMiner, replies>>
       PROVE  Places'
  <2> DEFINE j == Head(toCoord).job
  <2>1. WireTaken
    BY <1>10, ReadTakes DEF Next_message
  <2>2. j = Wire[1].job /\ Wire[1].type = type /\ j \in WireJobs
    BY <1>10, MessageRead DEF InTypes, JobTypes
  <2>3. j \notin WireJobs'
    BY <1>10, <2>1, <2>2, WireJobsNext DEF JobTypes
  <2>4. RowJobs' \subseteq RowJobs \union {j}
    <3>1. CASE rows' = rows
      BY <1>2, <3>1
    <3>2. CASE rows' = Append(rows, x)
      <4>1. \A k \in Jobs : RowOf(rows', k) <=> RowOf(rows, k) \/ k = j
        BY <1>0, <1>10, <3>2, RowAdded
      <4>2. QED
        BY <4>1 DEF RowJobs, HasRow, RowOf
    <3>3. QED
      BY <1>10, <3>1, <3>2
  <2> HIDE DEF j
  <2>5. QED
    BY <1>0, <1>2, <1>10, <2>1, <2>2, <2>3, <2>4 DEF Places, OutKept
<1>11. CASE HandleLeaseDone
  <2> DEFINE j == Head(toCoord).job
             x == Row(j, j \in winners)
  <2>1. j \in Jobs
    BY <1>11, MessageRead DEF HandleLeaseDone, InTypes, JobTypes, WireJobs
  <2>2. x \in RowType /\ x.job = j
    BY <2>1, LeaseRow
  <2>3. /\ Next_message("LeaseDone") /\ inflight' \subseteq inflight
        /\ rows' = rows \/ rows' = Append(rows, x)
        /\ UNCHANGED <<staged, batch, tasks, toMiner, replies>>
    BY <1>11 DEF HandleLeaseDone, GoOn, Forget, routerVars, dispatchVars, minerVars
  <2> HIDE DEF x
  <2>4. QED
    BY <1>10, <2>2, <2>3
<1>12. CASE HandleReject
  <2> DEFINE j == Head(toCoord).job
             x == FailingRow(j)
  <2>1. j \in Jobs
    BY <1>12, MessageRead DEF HandleReject, InTypes, JobTypes, WireJobs
  <2>2. x \in RowType /\ x.job = j
    BY <2>1, RowTypes
  <2>3. /\ Next_message("Reject") /\ inflight' \subseteq inflight
        /\ rows' = Append(rows, x)
        /\ UNCHANGED <<staged, batch, tasks, toMiner, replies>>
    BY <1>12 DEF HandleReject, GoOn, Forget, routerVars, dispatchVars, minerVars
  <2> HIDE DEF x
  <2>4. QED
    BY <1>10, <2>2, <2>3
<1>13. CASE Dispatch
  <2>1. PICK new \in SUBSET staged : staged' = staged \ new /\ batch' = new /\ batch = {}
                                     /\ inflight' \subseteq inflight \union new
    BY <1>13 DEF Dispatch
  <2>2. UNCHANGED <<tasks, rows, toMiner, toCoord, replies>>
    BY <1>13 DEF Dispatch, minerVars
  <2>3. UNCHANGED <<OutJobs, WireJobs, TaskJobs, RowJobs>>
    BY <1>2, <2>2 DEF OutKept, WireKept, Wire
  <2>4. QED
    BY <1>0, <2>1, <2>3 DEF Places
<1>14. ASSUME NEW t \in tasks, TaskTakes(t) \/ TaskPanics(t) \/ TaskEnds(t)
       PROVE  Places'
  <2>1. /\ UNCHANGED <<staged, batch, rows, toCoord, replies>> /\ inflight' \subseteq inflight
        /\ tasks' = tasks \ {t} \/ \E s \in {"validating", "checking"} : tasks' = At(t, s)
        /\ t.step # "checking" \/ tasks' = tasks \ {t}
    BY <1>14 DEF TaskTakes, TaskPanics, TaskEnds, Forget, routerVars, dispatchVars, minerVars
  <2>2. TaskJobs' \subseteq TaskJobs
    BY <2>1, TaskJobsNext
  <2>3. ~OutJob
    BY <2>1 DEF OutJob
  <2>4. OutJobs' \subseteq OutJobs
    BY <2>3, OutSteps, OutJobsNext
  <2>5. QED
    BY <1>1, <1>2, <2>1, <2>2, <2>4 DEF WireKept, Wire
<1>15. ASSUME NEW t \in tasks, NEW p \in BOOLEAN, TaskRecords(t, p)
       PROVE  Places'
  <2>1. /\ UNCHANGED <<staged, batch, inflight, toMiner, toCoord, replies>> /\ t.step = "validating"
        /\ tasks' = At(t, "checking") /\ rows' = Append(rows, Row(t.job, p))
    BY <1>15 DEF TaskRecords, routerVars, dispatchVars, minerVars
  <2>2. t.job \in Jobs /\ t.job \in TaskJobs
    BY <1>0, <2>1 DEF TaskJobs, Tasked
  <2>3. Row(t.job, p) \in RowType /\ Row(t.job, p).job = t.job
    BY <2>2, RowTypes
  <2>4. \A k \in Jobs : RowOf(rows', k) <=> RowOf(rows, k) \/ k = t.job
    BY <1>0, <2>1, <2>3, RowAdded
  <2>5. RowJobs' = RowJobs \union {t.job}
    BY <2>2, <2>4 DEF RowJobs, HasRow, RowOf
  <2>6. TaskJobs' \subseteq TaskJobs
    BY <2>1, TaskJobsNext
  <2>7. UNCHANGED <<OutJobs, WireJobs>>
    BY <1>2, <2>1 DEF OutKept, WireKept, Wire
  <2>8. QED
    BY <1>0, <2>1, <2>2, <2>5, <2>6, <2>7 DEF Places
<1>16. \/ UNCHANGED <<staged, batch, inflight, tasks, rows>>
       \/ DispatchSends \/ Handshake \/ HandleCapabilities \/ HandleResult \/ HandleLeaseDone \/ HandleReject
       \/ Dispatch
       \/ \E t \in tasks : TaskTakes(t) \/ TaskPanics(t) \/ TaskEnds(t) \/ \E p \in BOOLEAN : TaskRecords(t, p)
  BY DEF Next, Harness, Miner, Trouble, Report, vars, LoopSends, Greeted, LoopCloses, StreamEnds, Ended,
    HandleGrant, GoOn, HandleFatal, MinerDials, MinerReceives, MinerReplies, MinerRepliesInVain,
    MinerLeaves, MinerDrains, MinerExits, MinerGivesUp, MinerNarrows, MinerDies, routerVars, dispatchVars
<1>17. QED
  BY <1>3, <1>4, <1>5, <1>7, <1>8, <1>9, <1>11, <1>12, <1>13, <1>14, <1>15, <1>16

\* A lease shares its id with no other job: nothing else takes it out of flight.
LEMMA LeasesHeldNext ==
  ASSUME DriveConstants, IInv, [Next]_vars, loop # "ended", loop' # "ended"
  PROVE  LeasesHeld'
<1> USE DEF IInv
<1> DEFINE At0 == batch \union OutJobs \union WireJobs
<1>0. /\ LeasesHeld /\ Places /\ Jobs \subseteq Nat /\ UNCHANGED <<kind, id>>
      /\ \A j, k \in Jobs : id[j] = id[k] /\ kind[j] \in Leases => j = k
      /\ At0 \subseteq Jobs /\ toMiner \in Seq(OutMsgs) /\ staged \subseteq Jobs
      /\ inflight \subseteq Jobs /\ tasks \subseteq [job : Jobs, step : {"spawned", "validating", "checking"}]
  BY InputsKept DEF Routed, Typed, RowType, OutMsgs, Collisions, DriveConstants, OutJobs, WireJobs
<1>1. ASSUME At0' \subseteq At0, \A j \in At0' : kind[j] \in Leases /\ j \in inflight => j \in inflight'
      PROVE  LeasesHeld'
  BY <1>0, <1>1 DEF LeasesHeld
<1>2. /\ OutKept \/ OutRead \/ OutTold => OutJobs' \subseteq OutJobs
      /\ WireKept \/ WireTaken => WireJobs' \subseteq WireJobs
  BY OutJobsNext, WireJobsNext
<1>3. CASE OutJob
  <2>1. PICK j \in batch : batch' = batch \ {j} /\ OutJobs' = OutJobs \union {j}
    BY <1>3, OutJobsNext
  <2>2. UNCHANGED <<inflight, WireJobs>>
    BY <1>3 DEF OutJob, WireJobs, Wire
  <2>3. QED
    BY <1>1, <2>1, <2>2
<1>4. CASE UNCHANGED inflight /\ batch' \subseteq batch /\ ~OutJob
  <2>1. OutJobs' \subseteq OutJobs
    BY <1>2, <1>4, OutSteps
  <2>2. CASE WireAnswer
    <3>1. toMiner # <<>> /\ toMiner[1].type = "Job" /\ toMiner[1].job \in Jobs
      BY <2>2 DEF WireAnswer
    <3>2. 1 \in DOMAIN toMiner
      BY <1>0, <3>1, TailEntries
    <3>3. toMiner[1].job \in OutJobs
      BY <3>1, <3>2 DEF OutJobs, Carries
    <3>4. WireJobs' \subseteq WireJobs \union {toMiner[1].job}
      BY <2>2, WireJobsNext
    <3>5. QED
      BY <1>1, <1>4, <2>1, <3>3, <3>4
  <2>3. CASE ~WireAnswer
    <3>1. WireJobs' \subseteq WireJobs
      BY <2>3, WireSteps, WireJobsNext
    <3>2. QED
      BY <1>1, <1>4, <2>1, <3>1
  <2>4. QED
    BY <2>2, <2>3
<1>5. ASSUME NEW x \in Jobs, inflight' = Forget(x), x \notin At0' \/ kind[x] \notin Leases,
             At0' \subseteq At0
      PROVE  LeasesHeld'
  BY <1>0, <1>1, <1>5 DEF Forget
<1>6. ASSUME NEW type \in {"LeaseDone", "Reject"}, Next_message(type), inflight' = Forget(Head(toCoord).job),
              UNCHANGED <<batch, toMiner, replies>>
      PROVE  LeasesHeld'
  <2> DEFINE j == Head(toCoord).job
  <2>1. WireTaken
    BY <1>6, ReadTakes DEF Next_message
  <2>2. j = Wire[1].job /\ Wire[1].type = type /\ j \in WireJobs
    BY <1>6, MessageRead DEF InTypes, JobTypes
  <2>3. j \notin WireJobs'
    BY <1>6, <2>1, <2>2, WireJobsNext DEF JobTypes
  <2>4. UNCHANGED <<batch, OutJobs>> /\ WireJobs' \subseteq WireJobs
    BY <1>2, <1>6, <2>1 DEF OutJobs
  <2>5. j \notin batch /\ j \notin OutJobs /\ j \in Jobs
    BY <1>0, <2>2 DEF Places, WireJobs
  <2>6. QED
    BY <1>5, <1>6, <2>3, <2>4, <2>5
<1>7. CASE HandleLeaseDone \/ HandleReject
  BY <1>6, <1>7 DEF HandleLeaseDone, HandleReject, dispatchVars, minerVars
<1>8. CASE Dispatch
  <2>1. PICK new \in SUBSET staged :
          /\ batch' = new
          /\ inflight' = {k \in inflight \union new : \A later \in new : id[later] = id[k] => later <= k}
    BY <1>8 DEF Dispatch
  <2>2. UNCHANGED <<OutJobs, WireJobs>>
    BY <1>8 DEF Dispatch, minerVars, OutJobs, WireJobs, Wire
  <2>3. SUFFICES ASSUME NEW j \in Jobs, kind[j] \in Leases, j \in At0'
                 PROVE  j \in inflight'
    BY <1>0 DEF LeasesHeld
  <2>4. j \in inflight \union new
    BY <1>0, <2>1, <2>2, <2>3 DEF LeasesHeld
  <2>5. \A later \in new : id[later] = id[j] => later = j
    BY <1>0, <2>3
  <2>6. j <= j
    BY <1>0
  <2>7. QED
    BY <2>1, <2>4, <2>5, <2>6
<1>9. ASSUME NEW t \in tasks, TaskTakes(t)
      PROVE  LeasesHeld'
  <2>1. t.job \in Jobs /\ kind[t.job] \notin Leases /\ inflight' = Forget(t.job)
    BY <1>0, <1>9 DEF TaskTakes, Recording
  <2>2. UNCHANGED <<batch, OutJobs, WireJobs>>
    BY <1>9 DEF TaskTakes, dispatchVars, minerVars, OutJobs, WireJobs, Wire
  <2>3. QED
    BY <1>5, <2>1, <2>2
<1>10. \/ UNCHANGED inflight /\ batch' \subseteq batch
       \/ HandleLeaseDone \/ HandleReject \/ Dispatch
       \/ \E t \in tasks : TaskTakes(t)
  BY DEF Next, Harness, Miner, Trouble, Report, vars, Handshake, LoopSends, Greeted, LoopCloses, StreamEnds,
    Ended, HandleGrant, GoOn, HandleCapabilities, HandleResult, HandleFatal, DispatchSends,
    TaskRecords, TaskPanics, TaskEnds, MinerDials, MinerReceives, MinerReplies, MinerRepliesInVain,
    MinerLeaves, MinerDrains, MinerExits, MinerGivesUp, MinerNarrows, MinerDies, routerVars, dispatchVars
<1>11. QED
  BY <1>3, <1>4, <1>7, <1>8, <1>9, <1>10

\* A fault and a narrowed envelope are never taken back.
LEMMA HistoryKept ==
  ASSUME [Next]_vars
  PROVE  (fault => fault') /\ (narrowed => narrowed')
<1>1. fault' = fault \/ fault' = TRUE
  BY DEF Next, Harness, Miner, Trouble, Report, vars, Handshake, LoopSends, Greeted, LoopCloses,
    StreamEnds, HandleGrant, HandleCapabilities, HandleResult, HandleLeaseDone, HandleReject,
    HandleFatal, Dispatch, DispatchSends, TaskTakes, TaskRecords, TaskPanics, TaskEnds,
    MinerDials, MinerReceives, MinerReplies, MinerRepliesInVain, MinerLeaves, MinerDrains, MinerExits,
    MinerGivesUp, MinerNarrows, MinerDies
<1>2. narrowed' = narrowed \/ narrowed' = TRUE
  BY DEF Next, Harness, Miner, Trouble, Report, vars, Handshake, LoopSends, Greeted, LoopCloses,
    StreamEnds, HandleGrant, HandleCapabilities, HandleResult, HandleLeaseDone, HandleReject,
    HandleFatal, Dispatch, DispatchSends, TaskTakes, TaskRecords, TaskPanics, TaskEnds,
    MinerDials, MinerReceives, MinerReplies, MinerRepliesInVain, MinerLeaves, MinerDrains, MinerExits,
    MinerGivesUp, MinerNarrows, MinerDies, minerVars
<1>3. QED
  BY <1>1, <1>2

\* A message of the type is about j, before entry i.
Before(q, i, j) == \E k \in 1 .. i - 1 : q[k].type = "Result" /\ q[k].job = j

\* What one entry says.
Honest(m, kd, f, n, backed) ==
  /\ m.type = "Reject" => kd[m.job] = "bad"
  /\ m.type = "Result" => kd[m.job] \in {"plain", "foreign", "winner"}
  /\ m.type = "LeaseDone" => kd[m.job] \in Leases /\ (kd[m.job] = "winner" => backed)
  /\ m.type = "Fatal" => f
  /\ m.type = "Capabilities" => n

\* Answers are behind the requirements, and a winner ahead of its LeaseDone.
LEMMA TruthfulNext ==
  ASSUME DriveConstants, IInv, [Next]_vars, loop # "ended", loop' # "ended"
  PROVE  Truthful'
<1> USE DEF IInv
<1> DEFINE q == Wire
           Backed(i) == q[i].job \in winners \/ Before(q, i, q[i].job)
<1>0. /\ q \in Seq(InMsgs) /\ Once /\ LeasesHeld /\ UNCHANGED kind
      /\ (fault => fault') /\ (narrowed => narrowed')
      /\ toMiner \in Seq(OutMsgs)
  BY InputsKept, HistoryKept DEF Typed, InMsgs, OutMsgs, Routed, Wire
<1>1. \A i \in DOMAIN q : Honest(q[i], kind, fault, narrowed, Backed(i))
  BY DEF Routed, Truthful, Honest, Before
<1>2. Wire' \in Seq(InMsgs)
  <2>1. Typed'
    BY TypedNext
  <2>2. QED
    BY <2>1 DEF Typed, InMsgs, Wire
<1>3. SUFFICES ASSUME NEW i \in DOMAIN Wire'
               PROVE  Honest(Wire'[i], kind, fault', narrowed',
                      Wire'[i].job \in winners' \/ Before(Wire', i, Wire'[i].job))
  BY <1>0 DEF Truthful, Honest, Before
<1>4. ASSUME NEW k \in DOMAIN q, Wire'[i] = q[k],
             q[k].type = "LeaseDone" /\ kind[q[k].job] = "winner" /\ Backed(k) =>
               q[k].job \in winners' \/ Before(Wire', i, q[k].job)
      PROVE  Honest(Wire'[i], kind, fault', narrowed',
                      Wire'[i].job \in winners' \/ Before(Wire', i, Wire'[i].job))
  BY <1>0, <1>1, <1>4 DEF Honest
<1> HIDE DEF q
<1>5. CASE WireKept /\ UNCHANGED winners
  BY <1>0, <1>3, <1>4, <1>5 DEF WireKept, q
<1>6. CASE WireCut
  <2>1. UNCHANGED winners /\ i \in DOMAIN q /\ Wire'[i] = q[i]
    BY <1>3, <1>6 DEF WireCut, q
  <2>2. \A k \in 1 .. i - 1 : Wire'[k] = q[k]
    BY <1>2, <1>3, <1>6 DEF WireCut, q
  <2>3. QED
    BY <1>4, <2>1, <2>2 DEF Before
<1>7. CASE WireTold
  <2>1. PICK m \in InMsgs : /\ m.type \notin JobTypes /\ Wire' = Append(q, m)
                            /\ m.type = "Fatal" => fault'
                            /\ m.type = "Capabilities" => narrowed'
    BY <1>7 DEF WireTold, q
  <2>2. /\ Len(q) \in Nat /\ DOMAIN q = 1 .. Len(q) /\ DOMAIN Wire' = 1 .. Len(q) + 1
        /\ \A k \in 1 .. Len(q) : Wire'[k] = q[k]
        /\ Wire'[Len(q) + 1] = m
    BY <1>0, <2>1, AppendEntries
  <2>3. CASE i \in 1 .. Len(q)
    <3>1. \A k \in 1 .. i - 1 : Wire'[k] = q[k]
      BY <2>2, <2>3
    <3>2. QED
      BY <1>4, <1>7, <2>2, <2>3, <3>1 DEF Before, WireTold
  <2>4. CASE i \notin 1 .. Len(q)
    <3>1. Wire'[i] = m
      BY <1>3, <2>2, <2>4
    <3>2. QED
      BY <2>1, <3>1 DEF Honest, JobTypes
  <2>5. QED
    BY <2>3, <2>4
<1>8. CASE WireAnswer
  <2> DEFINE j == toMiner[1].job
             r == Answer(j)
  <2>1. /\ Wire' = q \o r /\ j \in Jobs /\ toMiner[1].type = "Job" /\ toMiner # <<>> /\ miner = "running"
        /\ UNCHANGED winners
    BY <1>8 DEF WireAnswer, q
  <2>2. Requirements \subseteq told
    <3>1. 1 \in DOMAIN toMiner
      BY <1>0, <2>1, TailEntries
    <3>2. \A x \in Requirements : x \in told \/ \E k \in 1 .. 1 - 1 : toMiner[k].type = x
      BY <2>1, <3>1 DEF Ahead
    <3>3. QED
      BY <3>2
  <2>3. /\ r \in Seq(InMsgs)
        /\ \A k \in DOMAIN r :
              /\ r[k].type \in JobTypes \union {"JobRequest"}
              /\ r[k].type \in JobTypes => r[k].job = j
              /\ r[k].type = "Reject" => kind[j] = "bad"
              /\ r[k].type = "Result" => kind[j] \in {"plain", "foreign", "winner"}
              /\ r[k].type = "LeaseDone" => 
                   kind[j] \in Leases /\ (kind[j] = "winner" => k = 2 /\ r[1].type = "Result")
    <3> HIDE DEF j
    <3>1. j \in Jobs
      BY <2>1
    <3>2. /\ r \in Seq(InMsgs)
          /\ \A k \in DOMAIN r :
                /\ r[k].type \in JobTypes \union {"JobRequest"}
                /\ r[k].type \in JobTypes => r[k].job = j
                /\ r[k].type = "Reject" => kind[j] = "bad" \/ ~(Requirements \subseteq told)
                /\ r[k].type = "Result" => kind[j] \in {"plain", "foreign", "winner"}
                /\ r[k].type = "LeaseDone" => 
                     kind[j] \in Leases /\ (kind[j] = "winner" => k = 2 /\ r[1].type = "Result")
      BY <3>1, AnswerEntries
    <3> HIDE DEF r
    <3>3. QED
      BY <2>2, <3>2
  <2> HIDE DEF r, j
  <2>4. /\ Len(q) \in Nat /\ Len(r) \in Nat
        /\ DOMAIN q = 1 .. Len(q) /\ DOMAIN r = 1 .. Len(r) /\ DOMAIN Wire' = 1 .. Len(q) + Len(r)
        /\ \A k \in 1 .. Len(q) : Wire'[k] = q[k]
        /\ \A k \in 1 .. Len(r) : Wire'[Len(q) + k] = r[k]
        /\ \A k \in 1 .. Len(q) + Len(r) : k \notin 1 .. Len(q) =>
              k - Len(q) \in 1 .. Len(r) /\ Wire'[k] = r[k - Len(q)]
    BY <1>0, <2>1, <2>3, ConcatEntries
  <2>5. CASE i \in 1 .. Len(q)
    <3>1. \A k \in 1 .. i - 1 : Wire'[k] = q[k]
      BY <2>4, <2>5
    <3>2. i \in DOMAIN q /\ Wire'[i] = q[i]
      BY <2>4, <2>5
    <3>3. ASSUME Backed(i) PROVE q[i].job \in winners' \/ Before(Wire', i, q[i].job)
      BY <2>1, <3>1, <3>3 DEF Before
    <3>4. QED
      BY <1>4, <3>2, <3>3
  <2>6. CASE i \notin 1 .. Len(q)
    <3> DEFINE k == i - Len(q)
    <3>1. k \in 1 .. Len(r) /\ Wire'[i] = r[k] /\ i \in 1 .. Len(q) + Len(r) /\ i = Len(q) + k
      BY <1>3, <2>4, <2>6
    <3> HIDE DEF k
    <3>2. ASSUME r[k].type = "LeaseDone", kind[j] = "winner"
          PROVE  Before(Wire', i, j)
      <4>1. k = 2 /\ r[1].type = "Result" /\ 1 \in 1 .. Len(r)
        BY <2>3, <2>4, <3>1, <3>2
      <4>2. r[1].job = j /\ Wire'[Len(q) + 1] = r[1]
        BY <2>3, <2>4, <4>1 DEF JobTypes
      <4>3. Len(q) + 1 \in 1 .. i - 1
        BY <2>4, <3>1, <4>1
      <4>4. QED
        BY <4>1, <4>2, <4>3 DEF Before
    <3>3. /\ r[k].type \in JobTypes \union {"JobRequest"}
          /\ r[k].type \in JobTypes => r[k].job = j
          /\ r[k].type = "Reject" => kind[j] = "bad"
          /\ r[k].type = "Result" => kind[j] \in {"plain", "foreign", "winner"}
          /\ r[k].type = "LeaseDone" => kind[j] \in Leases
      BY <2>3, <2>4, <3>1
    <3>4. QED
      BY <1>0, <3>1, <3>2, <3>3 DEF Honest, JobTypes
  <2>7. QED
    BY <2>5, <2>6
<1>9. ASSUME WireTaken
      PROVE  /\ 1 \in DOMAIN q /\ i + 1 \in DOMAIN q /\ Wire'[i] = q[i + 1] /\ i \in Nat
             /\ Wire' = Tail(q) /\ 1 < i + 1
             /\ Before(q, i + 1, q[i + 1].job) =>
                  (q[1].type = "Result" /\ q[1].job = q[i + 1].job) \/ Before(Wire', i, q[i + 1].job)
  <2>1. Wire' = Tail(q) /\ q # <<>>
    BY <1>9 DEF WireTaken, q
  <2>2. /\ 1 \in DOMAIN q
        /\ \A k \in DOMAIN Tail(q) : k + 1 \in DOMAIN q /\ Tail(q)[k] = q[k + 1] /\ k \in Nat
        /\ Len(Tail(q)) = Len(q) - 1 /\ Len(q) \in Nat /\ Tail(q) \in Seq(InMsgs)
    BY <1>0, <2>1, TailEntries
  <2>3. DOMAIN Tail(q) = 1 .. Len(q) - 1 /\ i \in 1 .. Len(q) - 1
    BY <1>3, <2>1, <2>2
  <2> DEFINE j == q[i + 1].job
  <2> HIDE DEF j
  <2>4. ASSUME Before(q, i + 1, j), ~(q[1].type = "Result" /\ q[1].job = j)
        PROVE  Before(Wire', i, j)
    <3>1. PICK k \in 1 .. (i + 1) - 1 : q[k].type = "Result" /\ q[k].job = j
      BY <2>4 DEF Before
    <3>2. k # 1
      BY <2>4, <3>1
    <3>3. k - 1 \in 1 .. i - 1 /\ k - 1 \in DOMAIN Tail(q) /\ (k - 1) + 1 = k
      BY <2>2, <2>3, <3>1, <3>2
    <3>4. Tail(q)[k - 1] = q[k]
      BY <2>2, <3>3
    <3>5. QED
      BY <2>1, <3>1, <3>3, <3>4 DEF Before
  <2>5. 1 < i + 1
    BY <2>3, <2>2
  <2>6. QED
    BY <1>3, <2>1, <2>2, <2>4, <2>5 DEF j
<1>10. CASE WireTaken /\ HandleResult
  <2> DEFINE j == Head(toCoord).job
             lease == \E k \in Holding(j) : kind[k] \in Leases
  <2>1. j = q[1].job /\ q[1].type = "Result" /\ j \in WireJobs
    BY <1>10, MessageRead DEF HandleResult, InTypes, JobTypes, q
  <2>2. winners' = IF lease THEN winners \union {j} ELSE winners
    BY <1>10 DEF HandleResult, Counted
  <2>3. kind[j] = "winner" => j \in winners'
    <3>1. SUFFICES ASSUME kind[j] = "winner" PROVE lease
      BY <2>2
    <3>2. j \in inflight /\ kind[j] \in Leases
      BY <1>0, <2>1, <3>1 DEF LeasesHeld, Leases, WireJobs
    <3>3. QED
      BY <3>2 DEF Holding
  <2>4. winners \subseteq winners'
    BY <2>2
  <2> HIDE DEF j
  <2>5. ASSUME q[i + 1].type = "LeaseDone", kind[q[i + 1].job] = "winner", Backed(i + 1)
        PROVE  q[i + 1].job \in winners' \/ Before(Wire', i, q[i + 1].job)
    BY <1>9, <1>10, <2>1, <2>3, <2>4, <2>5
  <2>6. QED
    BY <1>4, <1>9, <1>10, <2>5
<1>11. CASE WireTaken /\ HandleLeaseDone
  <2> DEFINE j == Head(toCoord).job
  <2>1. j = q[1].job /\ q[1].type = "LeaseDone"
    BY <1>11, MessageRead DEF HandleLeaseDone, InTypes, JobTypes, q
  <2>2. winners' = winners \ {j}
    BY <1>11 DEF HandleLeaseDone
  <2> HIDE DEF j
  <2>3. q[i + 1].type = "LeaseDone" => q[i + 1].job # j
    BY <1>0, <1>9, <1>11, <2>1 DEF Once, AnsweredOnce, JobTypes, q
  <2>4. ASSUME q[i + 1].type = "LeaseDone", kind[q[i + 1].job] = "winner", Backed(i + 1)
        PROVE  q[i + 1].job \in winners' \/ Before(Wire', i, q[i + 1].job)
    BY <1>9, <1>11, <2>1, <2>2, <2>3, <2>4
  <2>5. QED
    BY <1>4, <1>9, <1>11, <2>4
<1>12. CASE WireTaken /\ UNCHANGED winners /\ q[1].type # "Result"
  <2>1. ASSUME q[i + 1].type = "LeaseDone", kind[q[i + 1].job] = "winner", Backed(i + 1)
        PROVE  q[i + 1].job \in winners' \/ Before(Wire', i, q[i + 1].job)
    BY <1>9, <1>12, <2>1
  <2>2. QED
    BY <1>4, <1>9, <1>12, <2>1
<1>13. CASE WireTaken /\ Handshake
  <2>1. loop = "hello" /\ UNCHANGED winners
    BY <1>13 DEF Handshake
  <2>2. WireJobs = {}
    BY <2>1 DEF Greets
  <2>3. q[1].type # "Result"
    BY <1>0, <1>9, <1>13, <2>2 DEF WireJobs, Carries, Once, Named, JobTypes, q
  <2>4. QED
    BY <1>12, <1>13, <2>1, <2>3
<1>14. CASE WireTaken /\ (HandleGrant("Ready", Seed) \/ HandleGrant("JobRequest", 1) \/ HandleCapabilities \/ HandleReject)
  <2>1. UNCHANGED winners /\ \E type \in {"Ready", "JobRequest", "Capabilities", "Reject"} : Next_message(type)
    BY <1>14 DEF HandleGrant, HandleCapabilities, HandleReject
  <2>2. q[1].type # "Result"
    BY <2>1, MessageRead DEF InTypes, q
  <2>3. QED
    BY <1>12, <1>14, <2>1, <2>2
<1>15. ~HandleFatal
  BY DEF HandleFatal, Ended
<1>16. QED
  BY <1>5, <1>6, <1>7, <1>8, <1>10, <1>11, <1>13, <1>14, <1>15, WireSteps DEF Reads

\* While the session lasts, what it does with the jobs keeps to their places.
LEMMA RoutedNext ==
  ASSUME DriveConstants, IInv, [Next]_vars
  PROVE  Routed'
<1>1. loop = "ended" => loop' = "ended"
  BY DEF Next, Harness, Miner, Trouble, Report, vars, Handshake, LoopSends, Greeted, LoopCloses, StreamEnds,
    Ended, HandleGrant, Next_message, HandleCapabilities, HandleResult, HandleLeaseDone, HandleReject, HandleFatal,
    Dispatch, DispatchSends, TaskTakes, TaskRecords, TaskPanics, TaskEnds, MinerDials, MinerReceives,
    MinerReplies, MinerRepliesInVain, MinerLeaves, MinerDrains, MinerExits, MinerGivesUp, MinerNarrows, MinerDies
<1>2. QED
  BY <1>1, PlacesNext, OnceNext, LeasesHeldNext, TruthfulNext DEF Routed
-----------------------------------------------------------------------------
(***************************************************************************)
(* Outcomes                                                                *)
(***************************************************************************)

\* The jobs of S have a row now.
Adds(S) == \A j \in Jobs : RowOf(rows', j) <=> RowOf(rows, j) \/ j \in S

\* What a row says of a job, for a workload and a history.
RowTruth(x, kd, f, n) ==
  IF x.rejected
  THEN f \/ kd[x.job] \in {"bad", "foreign"} \/ (n /\ kd[x.job] \in Leases)
  ELSE kd[x.job] \in Leases => x.passed = (kd[x.job] = "winner")

\* One more row, for a job that had none.
RowStep ==
  /\ UNCHANGED <<shut, report>>
  /\ \E x \in RowType : /\ rows' = Append(rows, x) /\ ~RowOf(rows, x.job)
                        /\ RowTruth(x, kind, fault, narrowed)

\* A failing row for each of some jobs that had none.
FailStep ==
  /\ UNCHANGED <<shut, report>>
  /\ \E S \in SUBSET Jobs :
       /\ IsFiniteSet(S) /\ rows' = rows \o FailingRows(S)
       /\ \A j \in S : /\ ~RowOf(rows, j)
                       /\ fault \/ kind[j] \in {"bad", "foreign"} \/ (narrowed /\ kind[j] \in Leases)

\* LeaseDone records what was counted.
LEMMA LeaseDoneRow ==
  ASSUME DriveConstants, IInv, Next_message("LeaseDone")
  PROVE  LET j == Head(toCoord).job
             x == Row(j, j \in winners)
         IN  x \in RowType /\ x.job = j /\ ~RowOf(rows, j) /\ RowTruth(x, kind, fault, narrowed)
<1> USE DEF IInv
<1> DEFINE j == Head(toCoord).job
           x == Row(j, j \in winners)
<1>1. /\ loop = "reading" /\ 1 \in DOMAIN Wire /\ j = Wire[1].job /\ Wire[1].type = "LeaseDone"
      /\ j \in WireJobs /\ j \in Jobs
  BY MessageRead DEF InTypes, JobTypes, WireJobs
<1>2. ~RowOf(rows, j)
  BY <1>1 DEF Routed, Places, RowJobs, HasRow, RowOf
<1>3. kind[j] \in Leases /\ (kind[j] = "winner" => j \in winners)
  <2>1. kind[j] = "winner" => j \in winners \/ \E k \in 1 .. 1 - 1 : Wire[k].type = "Result" /\ Wire[k].job = j
    BY <1>1 DEF Routed, Truthful
  <2>2. QED
    BY <1>1, <2>1 DEF Routed, Truthful
<1>4. j \in winners => kind[j] = "winner"
  BY DEF Recording
<1>5. x \in RowType /\ x.job = j /\ ~x.rejected
  BY <1>1, LeaseRow
<1>6. RowTruth(x, kind, fault, narrowed)
  <2>1. CASE j \in winners
    <3>1. x.passed = TRUE /\ kind[j] = "winner"
      BY <1>1, <1>4, <2>1, LeaseRow
    <3> HIDE DEF x, j
    <3>2. QED
      BY <1>5, <3>1 DEF RowTruth
  <2>2. CASE j \notin winners
    <3>1. x.passed = FALSE /\ kind[j] # "winner"
      BY <1>1, <1>3, <2>2, LeaseRow
    <3> HIDE DEF x, j
    <3>2. QED
      BY <1>5, <3>1 DEF RowTruth
  <2>3. QED
    BY <2>1, <2>2
<1>7. QED
  BY <1>2, <1>5, <1>6

\* A Reject is about a job without a row that the miner could not serve.
LEMMA RejectRow ==
  ASSUME DriveConstants, IInv, Next_message("Reject")
  PROVE  LET j == Head(toCoord).job
         IN  /\ FailingRow(j) \in RowType /\ FailingRow(j).job = j /\ ~RowOf(rows, j)
             /\ RowTruth(FailingRow(j), kind, fault, narrowed)
<1> USE DEF IInv
<1> DEFINE j == Head(toCoord).job
<1>1. /\ loop = "reading" /\ 1 \in DOMAIN Wire /\ j = Wire[1].job /\ Wire[1].type = "Reject"
      /\ j \in WireJobs /\ j \in Jobs
  BY MessageRead DEF InTypes, JobTypes, WireJobs
<1>2. ~RowOf(rows, j)
  BY <1>1 DEF Routed, Places, RowJobs, HasRow, RowOf
<1>3. kind[j] = "bad"
  BY <1>1 DEF Routed, Truthful
<1>4. FailingRow(j) \in RowType /\ FailingRow(j).job = j /\ FailingRow(j).rejected
  BY <1>1, RowTypes
<1>5. QED
  BY <1>2, <1>3, <1>4 DEF RowTruth

\* The rows of a step.
LEMMA RowSteps ==
  ASSUME DriveConstants, IInv, [Next]_vars
  PROVE  UNCHANGED rows \/ RowStep \/ FailStep
<1> USE DEF IInv
<1>1. ASSUME loop # "ended", rows' = rows \o Unroutable(staged \ staged'), UNCHANGED <<shut, report>>,
             \A j \in staged \ staged' : kind[j] = "foreign" \/ (narrowed /\ kind[j] \in Leases)
      PROVE  FailStep
  <2> DEFINE S == staged \ staged'
  <2>1. S \in SUBSET Jobs /\ IsFiniteSet(S) /\ rows' = rows \o FailingRows(S)
    BY <1>1, Finite DEF Typed, Unroutable
  <2>2. \A j \in S : ~RowOf(rows, j)
    BY <1>1, <2>1 DEF Routed, Places, RowJobs, HasRow, RowOf
  <2> HIDE DEF S
  <2>3. QED
    BY <1>1, <2>1, <2>2 DEF FailStep, S
<1>2. CASE Handshake
  <2>1. CASE token
    <3>1. /\ staged' = {j \in staged : Capable(j, TRUE)} /\ rows' = rows \o Unroutable(staged \ staged')
          /\ loop = "hello" /\ UNCHANGED <<shut, report>>
      BY <1>2, <2>1 DEF Handshake
    <3>2. \A j \in staged \ staged' : kind[j] = "foreign"
      BY <3>1 DEF Capable
    <3>3. QED
      BY <1>1, <3>1, <3>2
  <2>2. CASE ~token
    BY <1>2, <2>2 DEF Handshake
  <2>3. QED
    BY <2>1, <2>2
<1>3. CASE HandleCapabilities
  <2>1. /\ staged' = {j \in staged : Capable(j, FALSE)} /\ rows' = rows \o Unroutable(staged \ staged')
        /\ UNCHANGED <<shut, report>> /\ Next_message("Capabilities")
    BY <1>3 DEF HandleCapabilities, GoOn
  <2>2. loop # "ended" /\ 1 \in DOMAIN Wire /\ Wire[1].type = "Capabilities"
    BY <2>1, MessageRead DEF InTypes
  <2>3. narrowed
    BY <2>2 DEF Routed, Truthful
  <2>4. \A j \in staged \ staged' : kind[j] = "foreign" \/ kind[j] \in Leases
    BY <2>1 DEF Capable
  <2>5. QED
    BY <1>1, <2>1, <2>2, <2>3, <2>4
<1>4. CASE HandleLeaseDone
  <2> DEFINE j == Head(toCoord).job
             x == Row(j, j \in winners)
  <2>1. rows' = rows \/ rows' = Append(rows, x)
    BY <1>4 DEF HandleLeaseDone, GoOn
  <2>2. x \in RowType /\ x.job = j /\ ~RowOf(rows, j) /\ RowTruth(x, kind, fault, narrowed)
    BY <1>4, LeaseDoneRow DEF HandleLeaseDone
  <2> HIDE DEF x, j
  <2>3. QED
    BY <1>4, <2>1, <2>2 DEF RowStep, HandleLeaseDone
<1>5. CASE HandleReject
  <2> DEFINE j == Head(toCoord).job
             x == FailingRow(j)
  <2>1. rows' = Append(rows, x)
    BY <1>5 DEF HandleReject, GoOn
  <2>2. x \in RowType /\ x.job = j /\ ~RowOf(rows, j) /\ RowTruth(x, kind, fault, narrowed)
    BY <1>5, RejectRow DEF HandleReject
  <2> HIDE DEF x, j
  <2>3. QED
    BY <1>5, <2>1, <2>2 DEF RowStep, HandleReject
<1>6. CASE HandleFatal
  <2>1. /\ rows' = rows \o FailingRows(inflight) /\ UNCHANGED <<shut, report>> /\ Next_message("Fatal")
    BY <1>6 DEF HandleFatal
  <2>2. loop # "ended" /\ 1 \in DOMAIN Wire /\ Wire[1].type = "Fatal"
    BY <2>1, MessageRead DEF InTypes
  <2>3. fault
    BY <2>2 DEF Routed, Truthful
  <2>4. inflight \in SUBSET Jobs /\ IsFiniteSet(inflight) /\ \A j \in inflight : ~RowOf(rows, j)
    BY Finite DEF Typed, Recording, HasRow, RowOf
  <2>5. QED
    BY <2>1, <2>3, <2>4 DEF FailStep
<1>7. ASSUME NEW t \in tasks, NEW p \in BOOLEAN, TaskRecords(t, p)
      PROVE  RowStep
  <2>1. /\ t.step = "validating" /\ rows' = Append(rows, Row(t.job, p)) /\ UNCHANGED <<shut, report>>
    BY <1>7 DEF TaskRecords
  <2>2. t.job \in Jobs /\ kind[t.job] \notin Leases /\ ~RowOf(rows, t.job)
    BY <2>1 DEF Recording, Typed, HasRow, RowOf
  <2>3. Row(t.job, p) \in RowType /\ Row(t.job, p).job = t.job /\ ~Row(t.job, p).rejected
    BY <2>2, RowTypes
  <2>4. RowTruth(Row(t.job, p), kind, fault, narrowed)
    BY <2>2, <2>3 DEF RowTruth
  <2>5. QED
    BY <2>1, <2>2, <2>3, <2>4 DEF RowStep
<1>8. \/ UNCHANGED rows \/ Handshake \/ HandleCapabilities \/ HandleLeaseDone \/ HandleReject \/ HandleFatal
      \/ \E t \in tasks, p \in BOOLEAN : TaskRecords(t, p)
  BY DEF Next, Harness, Miner, Trouble, Report, vars, LoopSends, Greeted, LoopCloses, StreamEnds,
    HandleGrant, GoOn, HandleResult, Dispatch, DispatchSends, TaskTakes, TaskPanics, TaskEnds, MinerDials,
    MinerReceives, MinerReplies, MinerRepliesInVain, MinerLeaves, MinerDrains, MinerExits, MinerGivesUp,
    MinerNarrows, MinerDies
<1>9. QED
  BY <1>2, <1>3, <1>4, <1>5, <1>6, <1>7, <1>8

\* Every row is the only one of its job, and says what happened.
LEMMA RowsNext ==
  ASSUME DriveConstants, IInv, [Next]_vars
  PROVE  /\ OneEach(rows') /\ Len(rows) <= Len(rows') /\ Len(rows) \in Nat /\ Len(rows') \in Nat
         /\ RowsTrue'
<1> USE DEF IInv
<1>0. /\ rows \in Seq(RowType) /\ OneEach(rows) /\ UNCHANGED kind
      /\ (fault => fault') /\ (narrowed => narrowed')
  BY InputsKept, HistoryKept DEF Typed, RowType, Recording, OneEach
<1>1. \A i \in DOMAIN rows : RowTruth(rows[i], kind, fault, narrowed)
  BY DEF RowsTrue, RowTruth
<1>2. ASSUME NEW x, RowTruth(x, kind, fault, narrowed)
      PROVE  RowTruth(x, kind, fault', narrowed')
  BY <1>0, <1>2 DEF RowTruth
<1>3. ASSUME \A i \in DOMAIN rows' : RowTruth(rows'[i], kind, fault', narrowed')
      PROVE  RowsTrue'
  BY <1>0, <1>3 DEF RowsTrue, RowTruth
<1>4. CASE UNCHANGED rows
  BY <1>0, <1>1, <1>2, <1>3, <1>4
<1>5. CASE RowStep
  <2>1. PICK x \in RowType : /\ rows' = Append(rows, x) /\ ~RowOf(rows, x.job)
                             /\ RowTruth(x, kind, fault, narrowed)
    BY <1>5 DEF RowStep
  <2>2. /\ rows' \in Seq(RowType) /\ Len(rows) <= Len(rows')
        /\ OneEach(rows')
        /\ \A i \in DOMAIN rows' : (i \in DOMAIN rows /\ rows'[i] = rows[i]) \/ rows'[i] = x
    BY <1>0, <2>1, RowAdded
  <2>3. \A i \in DOMAIN rows' : RowTruth(rows'[i], kind, fault', narrowed')
    BY <1>1, <1>2, <2>1, <2>2
  <2>4. Len(rows) \in Nat /\ Len(rows') \in Nat
    BY <1>0, <2>2
  <2>5. QED
    BY <1>3, <2>2, <2>3, <2>4
<1>6. CASE FailStep
  <2>1. PICK S \in SUBSET Jobs :
          /\ IsFiniteSet(S) /\ rows' = rows \o FailingRows(S)
          /\ \A j \in S : /\ ~RowOf(rows, j)
                          /\ fault \/ kind[j] \in {"bad", "foreign"} \/ (narrowed /\ kind[j] \in Leases)
    BY <1>6 DEF FailStep
  <2>2. /\ rows' \in Seq(RowType) /\ Len(rows) <= Len(rows')
        /\ OneEach(rows')
        /\ \A i \in DOMAIN rows' : \/ i \in DOMAIN rows /\ rows'[i] = rows[i]
                                   \/ rows'[i].rejected /\ rows'[i].job \in S
    BY <1>0, <2>1, FailingRowsAdded
  <2>3. \A i \in DOMAIN rows' : rows'[i].rejected /\ rows'[i].job \in S => RowTruth(rows'[i], kind, fault, narrowed)
    BY <2>1 DEF RowTruth
  <2>4. \A i \in DOMAIN rows' : RowTruth(rows'[i], kind, fault', narrowed')
    BY <1>1, <1>2, <2>2, <2>3
  <2>5. Len(rows) \in Nat /\ Len(rows') \in Nat
    BY <1>0, <2>2
  <2>6. QED
    BY <1>3, <2>2, <2>4, <2>5
<1>7. QED
  BY <1>4, <1>5, <1>6, RowSteps

\* A job has one task and one row, whichever path records it.
LEMMA RecordingNext ==
  ASSUME DriveConstants, IInv, [Next]_vars
  PROVE  Recording'
<1> USE DEF IInv
<1> DEFINE TaskType == [job : Jobs, step : {"spawned", "validating", "checking"}]
<1>0. /\ rows \in Seq(RowType) /\ UNCHANGED <<kind, id>> /\ OneEach(rows) /\ OneEach(rows')
      /\ staged \subseteq Jobs /\ inflight \subseteq Jobs /\ tasks \subseteq TaskType
  BY InputsKept, RowsNext DEF Typed, RowType, Recording, OneEach
<1>1. /\ \A t \in tasks : kind[t.job] \notin Leases
      /\ \A t, u \in tasks : t.job = u.job /\ t.step # "checking" /\ u.step # "checking" => t = u
      /\ \A t \in tasks : t.step = "validating" => ~RowOf(rows, t.job) /\ t.job \notin inflight
      /\ \A t \in tasks : t.step = "spawned" /\ RowOf(rows, t.job) => loop = "ended" /\ inflight = {}
      /\ \A j \in inflight : ~RowOf(rows, j)
      /\ \A j \in winners : kind[j] = "winner"
  BY DEF Recording, HasRow, RowOf
<1>2. ASSUME \A t \in tasks' : kind[t.job] \notin Leases,
             \A t, u \in tasks' : t.job = u.job /\ t.step # "checking" /\ u.step # "checking" => t = u,
             \A t \in tasks' : t.step = "validating" => ~RowOf(rows', t.job) /\ t.job \notin inflight',
             \A t \in tasks' : t.step = "spawned" /\ RowOf(rows', t.job) => loop' = "ended" /\ inflight' = {},
             \A j \in inflight' : ~RowOf(rows', j),
             \A j \in winners' : kind[j] = "winner"
      PROVE  Recording'
  BY <1>0, <1>2 DEF Recording, HasRow, RowOf, OneEach
<1>3. ASSUME UNCHANGED tasks, NEW S \in SUBSET Jobs, Adds(S),
             inflight' \subseteq inflight, S \intersect inflight' = {},
             \A t \in tasks : t.step # "checking" /\ t.job \in S =>
                                t.step = "spawned" /\ loop' = "ended" /\ inflight' = {},
             loop = "ended" => loop' = "ended",
             \A j \in winners' : kind[j] = "winner"
      PROVE  Recording'
  <2>1. \A j \in Jobs : RowOf(rows', j) <=> RowOf(rows, j) \/ j \in S
    BY <1>3 DEF Adds
  <2>2. \A t \in tasks : t.job \in Jobs
    BY <1>0
  <2>3. QED
    BY <1>0, <1>1, <1>2, <1>3, <2>1, <2>2
<1>4. ASSUME UNCHANGED <<tasks, rows>>, inflight' \subseteq inflight, loop = "ended" => loop' = "ended",
             \A j \in winners' : kind[j] = "winner"
      PROVE  Recording'
  BY <1>1, <1>2, <1>4
<1>5. ASSUME NEW S \in SUBSET Jobs, UNCHANGED <<tasks, winners>>, Adds(S), inflight' \subseteq inflight,
             S \intersect inflight' = {}, S \intersect TaskJobs = {}, loop # "ended"
      PROVE  Recording'
  <2>1. \A t \in tasks : t.step # "checking" => t.job \notin S
    BY <1>0, <1>5 DEF TaskJobs, Tasked
  <2>2. QED
    BY <1>1, <1>3, <1>5, <2>1
<1>6. ASSUME rows' = rows \o Unroutable(staged \ staged'), UNCHANGED <<tasks, winners, inflight>>, loop # "ended"
      PROVE  Recording'
  <2> DEFINE S == staged \ staged'
  <2>1. S \in SUBSET Jobs /\ IsFiniteSet(S)
    BY <1>0, Finite
  <2>2. Adds(S)
    BY <1>0, <1>6, <2>1, FailingRowsAdded DEF Unroutable, Adds
  <2>3. S \intersect inflight' = {} /\ S \intersect TaskJobs = {}
    BY <1>6 DEF Routed, Places
  <2> HIDE DEF S
  <2>4. QED
    BY <1>5, <1>6, <2>1, <2>2, <2>3
<1>7. CASE Handshake
  <2>1. CASE token
    BY <1>6, <1>7, <2>1 DEF Handshake
  <2>2. CASE ~token
    BY <1>1, <1>4, <1>7, <2>2 DEF Handshake
  <2>3. QED
    BY <2>1, <2>2
<1>8. CASE HandleCapabilities
  BY <1>6, <1>8 DEF HandleCapabilities, GoOn, Next_message
<1>9. ASSUME NEW x \in RowType, x.job \in WireJobs, rows' = rows \/ rows' = Append(rows, x), loop # "ended",
             inflight' = Forget(x.job), UNCHANGED tasks, winners' \subseteq winners
      PROVE  Recording'
  <2>1. inflight' \subseteq inflight /\ x.job \notin inflight' /\ x.job \in Jobs
    BY <1>9 DEF Forget, WireJobs
  <2>2. CASE rows' = rows
    BY <1>1, <1>4, <1>9, <2>1, <2>2
  <2>3. CASE rows' = Append(rows, x)
    <3>1. Adds({x.job})
      BY <1>0, <2>3, RowAdded DEF Adds
    <3>2. x.job \notin TaskJobs
      BY <1>9 DEF Routed, Places
    <3>3. \A t \in tasks : t.step # "checking" => t.job \notin {x.job}
      BY <1>0, <3>2 DEF TaskJobs, Tasked
    <3>4. {x.job} \in SUBSET Jobs /\ {x.job} \intersect inflight' = {}
      BY <2>1
    <3>5. QED
      BY <1>1, <1>3, <1>9, <2>1, <3>1, <3>3, <3>4
  <2>4. QED
    BY <1>9, <2>2, <2>3
<1>10. CASE HandleLeaseDone
  <2> DEFINE j == Head(toCoord).job
             x == Row(j, j \in winners)
  <2>1. j \in WireJobs /\ loop # "ended"
    BY <1>10, MessageRead DEF HandleLeaseDone, InTypes, JobTypes
  <2>2. x \in RowType /\ x.job = j
    BY <1>10, LeaseDoneRow DEF HandleLeaseDone
  <2>3. /\ rows' = rows \/ rows' = Append(rows, x)
        /\ inflight' = Forget(j) /\ UNCHANGED tasks /\ winners' \subseteq winners
    BY <1>10 DEF HandleLeaseDone, GoOn
  <2> HIDE DEF x, j
  <2>4. QED
    BY <1>9, <2>1, <2>2, <2>3
<1>11. CASE HandleReject
  <2> DEFINE j == Head(toCoord).job
             x == FailingRow(j)
  <2>1. j \in WireJobs /\ loop # "ended"
    BY <1>11, MessageRead DEF HandleReject, InTypes, JobTypes
  <2>2. x \in RowType /\ x.job = j
    BY <1>11, RejectRow DEF HandleReject
  <2>3. /\ rows' = Append(rows, x) /\ inflight' = Forget(j) /\ UNCHANGED <<tasks, winners>>
    BY <1>11 DEF HandleReject, GoOn
  <2> HIDE DEF x, j
  <2>4. QED
    BY <1>9, <2>1, <2>2, <2>3
<1>12. CASE HandleFatal
  <2>1. rows' = rows \o FailingRows(inflight) /\ inflight' = {} /\ loop' = "ended" /\ UNCHANGED <<tasks, winners>>
    BY <1>12 DEF HandleFatal, Ended
  <2>2. Adds(inflight)
    BY <1>0, <2>1, Finite, FailingRowsAdded DEF Adds
  <2>3. \A t \in tasks : t.step # "checking" /\ t.job \in inflight => t.step = "spawned"
    BY <1>0, <1>1
  <2>4. QED
    BY <1>0, <1>1, <1>3, <2>1, <2>2, <2>3
<1>13. CASE HandleResult
  <2> DEFINE j == Head(toCoord).job
             lease == \E k \in Holding(j) : kind[k] \in Leases
             new == [job |-> j, step |-> "spawned"]
  <2>1. /\ tasks' = IF lease THEN tasks ELSE tasks \union {new}
        /\ winners' = IF lease THEN winners \union {j} ELSE winners
        /\ UNCHANGED <<inflight, rows>>
    BY <1>13 DEF HandleResult, GoOn, Counted
  <2>2. /\ loop # "ended" /\ 1 \in DOMAIN Wire /\ j = Wire[1].job /\ Wire[1].type = "Result"
        /\ j \in WireJobs /\ j \in Jobs
    BY <1>13, MessageRead DEF HandleResult, InTypes, JobTypes, WireJobs
  <2>3. CASE lease
    <3>1. kind[j] \in Leases
      BY <1>0, <2>2, <2>3 DEF Holding, Collisions
    <3>2. kind[j] = "winner"
      BY <2>2, <3>1 DEF Routed, Truthful, Leases
    <3>3. \A k \in winners' : kind[k] = "winner"
      BY <1>1, <2>1, <2>3, <3>2
    <3>4. QED
      BY <1>4, <2>1, <2>2, <2>3, <3>3
  <2>4. CASE ~lease
    <3>1. kind[j] \notin Leases
      BY <2>2, <2>4 DEF Routed, LeasesHeld, Holding
    <3>2. j \notin TaskJobs /\ ~RowOf(rows, j)
      BY <2>2 DEF Routed, Places, RowJobs, HasRow, RowOf
    <3>3. \A t \in tasks : t.step # "checking" => t.job # j
      BY <1>0, <3>2 DEF TaskJobs, Tasked
    <3>4. tasks' = tasks \union {new} /\ new.job = j /\ new.step = "spawned" /\ winners' = winners
      BY <2>1, <2>4
    <3> HIDE DEF j, new, lease
    <3>5. loop = "ended" => loop' = "ended"
      BY <2>2
    <3>6. \A t \in tasks' : t \in tasks \/ t = new
      BY <3>4
    <3>7. \A t \in tasks' : t.step = "validating" => ~RowOf(rows', t.job) /\ t.job \notin inflight'
      BY <1>1, <2>1, <3>4, <3>6
    <3>8. \A t \in tasks' : t.step = "spawned" /\ RowOf(rows', t.job) => loop' = "ended" /\ inflight' = {}
      BY <1>1, <2>1, <2>2, <3>2, <3>4, <3>6
    <3>9. \A t, u \in tasks' : t.job = u.job /\ t.step # "checking" /\ u.step # "checking" => t = u
      BY <1>1, <3>3, <3>4, <3>6
    <3>10. \A t \in tasks' : kind[t.job] \notin Leases
      BY <1>1, <3>1, <3>4, <3>6
    <3>11. QED
      BY <1>1, <1>2, <2>1, <3>4, <3>7, <3>8, <3>9, <3>10
  <2>5. QED
    BY <2>3, <2>4
<1>14. CASE Dispatch
  <2>1. PICK new \in SUBSET staged : inflight' \subseteq inflight \union new
    BY <1>14 DEF Dispatch
  <2>2. UNCHANGED <<tasks, rows, winners, loop>> /\ loop # "ended"
    BY <1>14 DEF Dispatch
  <2>3. new \intersect TaskJobs = {} /\ new \intersect RowJobs = {} /\ new \subseteq Jobs
    BY <1>0, <2>2 DEF Routed, Places
  <2>4. \A t \in tasks : t.step # "checking" => t.job \notin new
    BY <1>0, <2>3 DEF TaskJobs, Tasked
  <2>5. \A j \in new : ~RowOf(rows, j)
    BY <2>3 DEF RowJobs, HasRow, RowOf
  <2>6. QED
    BY <1>1, <1>2, <2>1, <2>2, <2>4, <2>5
<1>15. ASSUME NEW t \in tasks, NEW s \in {"validating", "checking"}, tasks' = At(t, s),
              t.step \in {"spawned", "validating"}, inflight' \subseteq inflight, UNCHANGED <<winners, loop>>,
              NEW S \in SUBSET {t.job}, Adds(S), S \intersect inflight' = {},
              s = "validating" => ~RowOf(rows', t.job) /\ t.job \notin inflight'
       PROVE  Recording'
  <2> DEFINE new == [t EXCEPT !.step = s]
  <2>1. new.job = t.job /\ new.step = s /\ t.job \in Jobs /\ \A u \in tasks : u.job \in Jobs
    BY <1>0
  <2>2. \A u \in tasks' : (u \in tasks /\ u # t) \/ u = new
    BY <1>15 DEF At
  <2> HIDE DEF new
  <2>3. \A u \in tasks : u # t /\ u.step # "checking" => u.job # t.job
    BY <1>1, <1>15
  <2>4. \A u \in tasks : u # t /\ u.step # "checking" /\ RowOf(rows', u.job) => RowOf(rows, u.job)
    BY <1>15, <2>1, <2>3 DEF Adds
  <2>5. \A u \in tasks' : u.step = "validating" => ~RowOf(rows', u.job) /\ u.job \notin inflight'
    BY <1>1, <1>15, <2>1, <2>2, <2>4
  <2>6. \A u \in tasks' : u.step = "spawned" /\ RowOf(rows', u.job) => loop' = "ended" /\ inflight' = {}
    BY <1>1, <1>15, <2>1, <2>2, <2>4
  <2>7. \A u, v \in tasks' : u.job = v.job /\ u.step # "checking" /\ v.step # "checking" => u = v
    BY <1>1, <2>1, <2>2, <2>3
  <2>8. \A u \in tasks' : kind[u.job] \notin Leases
    BY <1>1, <2>1, <2>2
  <2>9. \A j \in inflight' : ~RowOf(rows', j)
    BY <1>0, <1>1, <1>15 DEF Adds
  <2>10. QED
    BY <1>1, <1>2, <1>15, <2>5, <2>6, <2>7, <2>8, <2>9
<1>16. UNCHANGED rows => Adds({})
  BY DEF Adds
<1>17. ASSUME NEW t \in tasks, TaskTakes(t)
       PROVE  Recording'
  <2>1. /\ t.step = "spawned" /\ inflight' = Forget(t.job) /\ UNCHANGED <<winners, loop, rows>>
        /\ tasks' = At(t, IF Holding(t.job) = {} THEN "checking" ELSE "validating")
    BY <1>17 DEF TaskTakes
  <2>2. inflight' \subseteq inflight /\ t.job \notin inflight'
    BY <2>1 DEF Forget
  <2>3. Holding(t.job) # {} => ~RowOf(rows, t.job)
    BY <1>1, <2>1 DEF Holding
  <2>4. CASE Holding(t.job) = {}
    BY <1>15, <1>16, <2>1, <2>2, <2>4
  <2>5. CASE Holding(t.job) # {}
    BY <1>15, <1>16, <2>1, <2>2, <2>3, <2>5
  <2>6. QED
    BY <2>4, <2>5
<1>18. ASSUME NEW t \in tasks, TaskPanics(t)
       PROVE  Recording'
  BY <1>15, <1>16, <1>18 DEF TaskPanics
<1>19. ASSUME NEW t \in tasks, NEW p \in BOOLEAN, TaskRecords(t, p)
       PROVE  Recording'
  <2>1. /\ t.step = "validating" /\ rows' = Append(rows, Row(t.job, p)) /\ UNCHANGED <<winners, loop, inflight>>
        /\ tasks' = At(t, "checking")
    BY <1>19 DEF TaskRecords
  <2>2. t.job \in Jobs /\ t.job \notin inflight
    BY <1>0, <1>1, <2>1
  <2>3. Row(t.job, p) \in RowType /\ Row(t.job, p).job = t.job
    BY <2>2, RowTypes
  <2>4. Adds({t.job})
    BY <1>0, <2>1, <2>3, RowAdded DEF Adds
  <2>5. {t.job} \in SUBSET {t.job} /\ {t.job} \intersect inflight' = {}
    BY <2>1, <2>2
  <2>6. QED
    BY <1>15, <2>1, <2>4, <2>5
<1>20. ASSUME NEW t \in tasks, TaskEnds(t)
       PROVE  Recording'
  <2>1. tasks' \subseteq tasks /\ UNCHANGED <<winners, loop, inflight, rows>>
    BY <1>20 DEF TaskEnds
  <2>2. QED
    BY <1>1, <1>2, <2>1
<1>21. \/ UNCHANGED <<tasks, rows, inflight, winners>> /\ (loop = "ended" => loop' = "ended")
       \/ Handshake \/ HandleCapabilities \/ HandleResult \/ HandleLeaseDone \/ HandleReject \/ HandleFatal
       \/ Dispatch
       \/ \E t \in tasks : TaskTakes(t) \/ TaskPanics(t) \/ TaskEnds(t) \/ \E p \in BOOLEAN : TaskRecords(t, p)
  BY DEF Next, Harness, Miner, Trouble, Report, vars, LoopSends, Greeted, LoopCloses, StreamEnds, Ended,
    HandleGrant, Next_message, GoOn, DispatchSends, MinerDials, MinerReceives, MinerReplies, MinerRepliesInVain,
    MinerLeaves, MinerDrains, MinerExits, MinerGivesUp, MinerNarrows, MinerDies
<1>22. QED
  BY <1>1, <1>4, <1>7, <1>8, <1>10, <1>11, <1>12, <1>13, <1>14, <1>17, <1>18, <1>19, <1>20, <1>21
-----------------------------------------------------------------------------
(***************************************************************************)
(* The greeting and the Shutdowns                                          *)
(***************************************************************************)

\* A channel with one message more has its type too, and with one less all
\* the others.
LEMMA HasNext ==
  ASSUME NEW S, NEW q \in Seq(S), NEW m \in S, NEW type
  PROVE  /\ Has(Append(q, m), type) <=> Has(q, type) \/ m.type = type
         /\ q # <<>> => (Has(q, type) <=> q[1].type = type \/ Has(Tail(q), type))
         /\ ~Has(<<>>, type)
<1>1. Has(Append(q, m), type) <=> Has(q, type) \/ m.type = type
  BY AppendEntries DEF Has
<1>2. ASSUME q # <<>>, Has(q, type), q[1].type # type
      PROVE  Has(Tail(q), type)
  <2>1. PICK i \in DOMAIN q : q[i].type = type
    BY <1>2 DEF Has
  <2>2. i # 1 /\ i \in 1 .. Len(q) /\ Len(q) \in Nat /\ Len(Tail(q)) = Len(q) - 1 /\ Tail(q) \in Seq(S)
    BY <1>2, <2>1
  <2>3. i - 1 \in DOMAIN Tail(q) /\ (i - 1) + 1 = i
    BY <2>2
  <2>4. Tail(q)[i - 1] = q[i]
    BY <1>2, <2>3, TailEntries
  <2>5. QED
    BY <2>1, <2>3, <2>4 DEF Has
<1>3. ASSUME q # <<>>, q[1].type = type \/ Has(Tail(q), type)
      PROVE  Has(q, type)
  BY <1>3, TailEntries DEF Has
<1>4. ~Has(<<>>, type)
  BY DEF Has
<1>5. QED
  BY <1>1, <1>2, <1>3, <1>4

\* Every job in q is behind both requirements.
Behind(q, known) ==
  \A i \in DOMAIN q : q[i].type = "Job" =>
     \A x \in Requirements : x \in known \/ \E k \in 1 .. i - 1 : q[k].type = x

LEMMA BehindNext ==
  ASSUME NEW S, NEW q \in Seq(S), NEW m \in S, NEW known, Behind(q, known)
  PROVE  /\ m.type # "Job" \/ (\A x \in Requirements : x \in known \/ Has(q, x)) => Behind(Append(q, m), known)
         /\ q # <<>> => \A more : known \subseteq more /\ (q[1].type \in Requirements => q[1].type \in more)
                                    => Behind(Tail(q), more)
<1>1. ASSUME m.type # "Job" \/ (\A x \in Requirements : x \in known \/ Has(q, x))
      PROVE  Behind(Append(q, m), known)
  <2> DEFINE r == Append(q, m)
  <2>1. /\ Len(q) \in Nat /\ DOMAIN q = 1 .. Len(q) /\ DOMAIN r = 1 .. Len(q) + 1
        /\ \A i \in 1 .. Len(q) : r[i] = q[i]
        /\ r[Len(q) + 1] = m
    BY AppendEntries
  <2> HIDE DEF r
  <2>2. SUFFICES ASSUME NEW i \in DOMAIN r, r[i].type = "Job", NEW x \in Requirements, x \notin known
                 PROVE  \E k \in 1 .. i - 1 : r[k].type = x
    BY DEF Behind, r
  <2>3. CASE i \in 1 .. Len(q)
    <3>1. PICK k \in 1 .. i - 1 : q[k].type = x
      BY <2>1, <2>2, <2>3 DEF Behind
    <3>2. k \in 1 .. Len(q)
      BY <2>1, <2>3
    <3>3. QED
      BY <2>1, <3>1, <3>2
  <2>4. CASE i \notin 1 .. Len(q)
    <3>1. i = Len(q) + 1 /\ i - 1 = Len(q)
      BY <2>1, <2>2, <2>4
    <3>2. PICK k \in 1 .. Len(q) : q[k].type = x
      BY <1>1, <2>1, <2>2, <3>1 DEF Has
    <3>3. QED
      BY <2>1, <3>1, <3>2
  <2>5. QED
    BY <2>3, <2>4
<1>2. ASSUME q # <<>>, NEW more, known \subseteq more, q[1].type \in Requirements => q[1].type \in more
      PROVE  Behind(Tail(q), more)
  <2>1. /\ Len(q) \in Nat /\ Len(Tail(q)) = Len(q) - 1 /\ DOMAIN Tail(q) = 1 .. Len(q) - 1
        /\ \A i \in DOMAIN Tail(q) : i + 1 \in DOMAIN q /\ Tail(q)[i] = q[i + 1] /\ i \in Nat
    BY <1>2, TailEntries
  <2>2. SUFFICES ASSUME NEW i \in DOMAIN Tail(q), Tail(q)[i].type = "Job", NEW x \in Requirements, x \notin more
                 PROVE  \E k \in 1 .. i - 1 : Tail(q)[k].type = x
    BY DEF Behind
  <2>3. i + 1 \in DOMAIN q /\ q[i + 1].type = "Job" /\ x \notin known
    BY <1>2, <2>1, <2>2
  <2>4. PICK k \in 1 .. (i + 1) - 1 : q[k].type = x
    BY <2>3 DEF Behind
  <2>5. k # 1
    BY <1>2, <2>2, <2>4
  <2>6. k - 1 \in 1 .. i - 1 /\ k - 1 \in DOMAIN Tail(q) /\ (k - 1) + 1 = k
    BY <2>1, <2>2, <2>4, <2>5
  <2>7. Tail(q)[k - 1] = q[k]
    BY <2>1, <2>6
  <2>8. QED
    BY <2>4, <2>6, <2>7
<1>3. QED
  BY <1>1, <1>2

\* No job overtakes the requirements.
LEMMA AheadNext ==
  ASSUME DriveConstants, IInv, [Next]_vars
  PROVE  Ahead'
<1> USE DEF IInv
<1> DEFINE Live == {"dialing", "running"}
           Up == {"greeting", "reading", "closing"}
           Coming(x) == x \in told \/ Has(toMiner, x) \/ Has(pending, x)
<1>0. toMiner \in Seq(OutMsgs) /\ pending \in Seq(OutMsgs)
  BY DEF Typed, OutMsgs
<1>1. /\ miner \in Live => Behind(toMiner, told)
      /\ miner \in Live /\ loop \in Up => \A x \in Requirements : Coming(x)
  BY DEF Ahead, Behind
<1>2. ASSUME miner' \in Live => Behind(toMiner', told'),
             miner' \in Live /\ loop' \in Up => \A x \in Requirements : Coming(x)'
      PROVE  Ahead'
  BY <1>2 DEF Ahead, Behind
<1>3. /\ loop \in {"hello", "reading"} => pending = <<>>
      /\ loop = "closing" => \A x \in Requirements : ~Has(pending, x)
  BY MsgTypes DEF Greets, Has, Requirements
<1>4. \A x \in Requirements : ~Has(<<>>, x)
  BY DEF Has
<1>5. miner' \in Live => miner \in Live
  BY DEF Next, Harness, Miner, Trouble, Report, vars, Handshake, LoopSends, Greeted, LoopCloses,
    StreamEnds, Ended, HandleGrant, GoOn, Next_message, HandleCapabilities, HandleResult, HandleLeaseDone,
    HandleReject, HandleFatal, Dispatch, DispatchSends, TaskTakes, TaskRecords, TaskPanics, TaskEnds,
    MinerDials, MinerReceives, MinerReplies, MinerRepliesInVain, MinerLeaves, MinerDrains, MinerExits,
    MinerGivesUp, MinerNarrows, MinerDies, minerVars
<1>6. CASE LoopSends
  <2> DEFINE m == Head(pending)
  <2>1. /\ pending # <<>> /\ Room /\ toMiner' = Sent(m) /\ pending' = Tail(pending)
        /\ UNCHANGED <<loop, told, miner>>
    BY <1>6 DEF LoopSends, minerVars
  <2>2. m \in OutMsgs /\ m = pending[1] /\ 1 \in DOMAIN pending
    BY <1>0, <2>1, TailEntries
  <2>3. m.type # "Job"
    BY <2>2 DEF Greets
  <2> HIDE DEF m
  <2>4. ASSUME miner \in Live
        PROVE  toMiner' = Append(toMiner, m)
    BY <2>1, <2>4 DEF Sent
  <2>5. miner \in Live => Behind(toMiner', told')
    BY <1>0, <1>1, <2>1, <2>2, <2>3, <2>4, BehindNext
  <2>6. ASSUME miner \in Live, NEW x \in Requirements, Coming(x)
        PROVE  Coming(x)'
    <3>1. Has(Append(toMiner, m), x) <=> Has(toMiner, x) \/ m.type = x
      BY <1>0, <2>2, HasNext
    <3>2. Has(pending, x) => pending[1].type = x \/ Has(Tail(pending), x)
      BY <1>0, <2>1, <2>2, HasNext
    <3>3. QED
      BY <2>1, <2>2, <2>4, <2>6, <3>1, <3>2
  <2>7. QED
    BY <1>1, <1>2, <2>1, <2>5, <2>6
<1>7. CASE DispatchSends
  <2>1. PICK j \in batch : toMiner' = Sent(JobMsg("Job", j))
    BY <1>7 DEF DispatchSends
  <2> DEFINE m == JobMsg("Job", j)
  <2>2. m \in OutMsgs
    BY MsgTypes DEF Typed, DriveConstants, OutTypes
  <2>3. loop \in {"reading", "closing"} /\ UNCHANGED <<loop, told, miner, pending>>
    BY <1>7 DEF DispatchSends, minerVars
  <2> HIDE DEF m
  <2>4. ASSUME miner \in Live
        PROVE  toMiner' = Append(toMiner, m)
    BY <2>1, <2>4 DEF Sent, m
  <2>5. miner \in Live => \A x \in Requirements : x \in told \/ Has(toMiner, x)
    BY <1>1, <1>3, <1>4, <2>3
  <2>6. ASSUME miner \in Live
        PROVE  Behind(toMiner', told')
    <3>1. Behind(Append(toMiner, m), told)
      BY <1>0, <1>1, <2>2, <2>5, <2>6, BehindNext
    <3>2. QED
      BY <2>3, <2>4, <2>6, <3>1
  <2>7. ASSUME miner \in Live, NEW x \in Requirements, Coming(x)
        PROVE  Coming(x)'
    <3>1. Has(toMiner, x) => Has(Append(toMiner, m), x)
      BY <1>0, <2>2, HasNext
    <3>2. QED
      BY <2>3, <2>4, <2>7, <3>1
  <2>8. QED
    BY <1>1, <1>2, <1>5, <2>3, <2>6, <2>7
<1>8. ASSUME NEW t \in tasks, TaskEnds(t)
      PROVE  Ahead'
  <2>1. /\ toMiner' = toMiner \/ toMiner' = Sent(Shutdown)
        /\ UNCHANGED <<loop, told, miner, pending>>
    BY <1>8 DEF TaskEnds, minerVars
  <2>2. Shutdown \in OutMsgs /\ Shutdown.type # "Job"
    BY MsgTypes
  <2>3. ASSUME miner \in Live
        PROVE  toMiner' = toMiner \/ toMiner' = Append(toMiner, Shutdown)
    BY <2>1, <2>3 DEF Sent
  <2>4. miner \in Live => Behind(toMiner', told')
    BY <1>0, <1>1, <2>1, <2>2, <2>3, BehindNext
  <2>5. ASSUME miner \in Live, NEW x \in Requirements, Coming(x)
        PROVE  Coming(x)'
    <3>1. Has(toMiner, x) => Has(Append(toMiner, Shutdown), x)
      BY <1>0, <2>2, HasNext
    <3>2. QED
      BY <2>1, <2>3, <2>5, <3>1
  <2>6. QED
    BY <1>1, <1>2, <2>1, <2>4, <2>5
<1>9. CASE MinerReceives
  <2>1. /\ toMiner # <<>> /\ toMiner' = Tail(toMiner) /\ UNCHANGED <<loop, pending>>
        /\ told' = IF Head(toMiner).type \in {"Topology", "SetTarget"}
                   THEN told \union {Head(toMiner).type} ELSE told
    BY <1>9 DEF MinerReceives
  <2>2. Head(toMiner) = toMiner[1] /\ Head(toMiner) \in OutMsgs
    BY <1>0, <2>1, TailEntries
  <2>3. told \subseteq told' /\ (toMiner[1].type \in Requirements => toMiner[1].type \in told')
    BY <2>1, <2>2 DEF Requirements
  <2>4. miner \in Live => Behind(toMiner', told')
    BY <1>0, <1>1, <2>1, <2>2, <2>3, BehindNext
  <2>5. ASSUME NEW x \in Requirements, Coming(x)
        PROVE  Coming(x)'
    <3>1. Has(toMiner, x) => toMiner[1].type = x \/ Has(Tail(toMiner), x)
      BY <1>0, <2>1, <2>2, HasNext
    <3>2. QED
      BY <2>1, <2>3, <2>5, <3>1
  <2>6. QED
    BY <1>1, <1>2, <1>5, <2>1, <2>4, <2>5
<1>10. ASSUME UNCHANGED <<toMiner, told>>, loop' \in Up => (loop \in Up /\ (UNCHANGED pending \/ pending = <<>>))
                                                         \/ pending' = Greeting
       PROVE  Ahead'
  <2>1. miner' \in Live => Behind(toMiner', told')
    BY <1>1, <1>5, <1>10
  <2>2. ASSUME NEW x \in Requirements, loop' \in Up, miner' \in Live
        PROVE  Coming(x)'
    BY <1>1, <1>4, <1>5, <1>10, <2>2, PendingForms
  <2>3. QED
    BY <1>2, <2>1, <2>2
<1>11. CASE MinerDrains
  BY <1>11 DEF MinerDrains, Ahead, minerVars
<1>12. CASE Reads \/ Greeted
  <2>1. /\ UNCHANGED <<toMiner, told>>
        /\ loop' \in Up => (loop \in Up /\ pending = <<>>) \/ pending' = Greeting
    BY <1>3, <1>12 DEF Reads, Handshake, HandleGrant, HandleCapabilities, HandleResult, HandleLeaseDone,
      HandleReject, HandleFatal, Ended, Greeted, Next_message, minerVars
  <2>2. QED
    BY <1>10, <2>1
<1>13. CASE LoopCloses \/ StreamEnds
  <2>1. UNCHANGED <<toMiner, told>> /\ loop' = "ended"
    BY <1>13 DEF LoopCloses, StreamEnds, Ended, minerVars
  <2>2. QED
    BY <1>10, <2>1
<1>14. CASE UNCHANGED <<toMiner, told, loop, pending>>
  BY <1>10, <1>14
<1>15. \/ LoopSends \/ DispatchSends \/ (\E t \in tasks : TaskEnds(t)) \/ MinerReceives \/ MinerDrains
       \/ Reads \/ Greeted \/ LoopCloses \/ StreamEnds
       \/ UNCHANGED <<toMiner, told, loop, pending>>
  BY DEF Reads, Next, Harness, Miner, Trouble, Report, vars, Dispatch, TaskTakes, TaskRecords, TaskPanics,
    MinerDials, MinerReplies, MinerRepliesInVain, MinerLeaves, MinerExits, MinerGivesUp, MinerNarrows, MinerDies,
    minerVars
<1>16. QED
  BY <1>6, <1>7, <1>8, <1>9, <1>11, <1>12, <1>13, <1>14, <1>15

\* What the read loop has still to send.
PendingOK(q, at) ==
  /\ at = "hello" => q = <<>>
  /\ at = "reading" => q = <<>>
  /\ at = "greeting" => ~Has(q, "Shutdown")
  /\ at = "closing" => \A i \in DOMAIN q : q[i] = Shutdown
  /\ \A i \in DOMAIN q : q[i].type # "Job"

\* A handler's own sends, or the completion check's.
LEMMA PendingNext ==
  ASSUME DriveConstants, IInv, [Next]_vars
  PROVE  /\ PendingOK(pending', loop')
         /\ Has(pending', "Shutdown") => Has(pending, "Shutdown") \/ Complete(rows')
<1> USE DEF IInv
<1>0. pending \in Seq(OutMsgs) /\ PendingOK(pending, loop)
  BY DEF Typed, OutMsgs, Greets, PendingOK
<1>1. CASE UNCHANGED <<pending, loop>>
  BY <1>0, <1>1
<1>2. CASE LoopSends
  <2>1. pending # <<>> /\ pending' = Tail(pending) /\ loop' = loop /\ loop \in {"greeting", "closing"}
    BY <1>2 DEF LoopSends
  <2>2. \A i \in DOMAIN Tail(pending) : i + 1 \in DOMAIN pending /\ Tail(pending)[i] = pending[i + 1]
    BY <1>0, <2>1, TailEntries
  <2>3. QED
    BY <1>0, <2>1, <2>2 DEF PendingOK, Has
<1>3. CASE Handshake
  <2>1. CASE token
    <3>1. pending' = Greeting /\ loop' = "greeting"
      BY <1>3, <2>1 DEF Handshake
    <3>2. \A i \in DOMAIN Greeting : Greeting[i].type \in {"Welcome", "Configure", "Topology", "SetTarget"}
      BY PendingForms
    <3>3. \A i \in DOMAIN Greeting : Greeting[i].type # "Shutdown" /\ Greeting[i].type # "Job"
      BY <3>2
    <3>4. QED
      BY <3>1, <3>3 DEF PendingOK, Has
  <2>2. CASE ~token
    BY <1>0, <1>3, <2>2 DEF Handshake, PendingOK, Has
  <2>3. QED
    BY <2>1, <2>2
<1>4. ASSUME loop' \in {"reading", "closing"}, \A i \in DOMAIN pending' : pending'[i] = Shutdown,
             loop' = "reading" => pending' = <<>>, pending' # <<>> => Complete(rows')
      PROVE  /\ PendingOK(pending', loop')
             /\ Has(pending', "Shutdown") => Has(pending, "Shutdown") \/ Complete(rows')
  <2>1. Shutdown.type # "Job"
    BY MsgTypes
  <2>2. Has(pending', "Shutdown") => pending' # <<>>
    BY DEF Has
  <2>3. QED
    BY <1>4, <2>1, <2>2 DEF PendingOK
<1>5. CASE Greeted
  <2>1. CASE Complete(rows)
    <3>1. pending' = <<Shutdown>> /\ loop' = "closing" /\ rows' = rows
      BY <1>5, <2>1 DEF Greeted
    <3>2. \A i \in DOMAIN pending' : pending'[i] = Shutdown
      BY <3>1, PendingForms
    <3>3. QED
      BY <1>4, <2>1, <3>1, <3>2
  <2>2. CASE ~Complete(rows)
    <3>1. pending' = <<>> /\ loop' = "reading"
      BY <1>5, <2>2 DEF Greeted
    <3>2. QED
      BY <1>4, <3>1
  <2>3. QED
    BY <2>1, <2>2
<1>6. ASSUME NEW r, NEW first \in {<<>>, <<Shutdown>>}, GoOn(r, first)
      PROVE  /\ PendingOK(pending', loop')
             /\ Has(pending', "Shutdown") => Has(pending, "Shutdown") \/ Complete(rows')
  BY <1>4, <1>6, GoOnForms
<1>7. CASE \/ HandleGrant("Ready", Seed) \/ HandleGrant("JobRequest", 1) \/ HandleCapabilities \/ HandleResult
           \/ HandleReject
  BY <1>6, <1>7 DEF HandleGrant, HandleCapabilities, HandleResult, HandleReject
<1>8. CASE HandleLeaseDone
  BY <1>6, <1>8 DEF HandleLeaseDone
<1>9. CASE HandleFatal \/ LoopCloses \/ StreamEnds
  <2>1. pending' = <<>> /\ loop' = "ended"
    BY <1>9 DEF HandleFatal, LoopCloses, StreamEnds, Ended
  <2>2. QED
    BY <2>1 DEF PendingOK, Has
<1>10. \/ UNCHANGED <<pending, loop>> \/ LoopSends \/ Handshake \/ Greeted
       \/ HandleGrant("Ready", Seed) \/ HandleGrant("JobRequest", 1) \/ HandleCapabilities \/ HandleResult
       \/ HandleReject \/ HandleLeaseDone \/ HandleFatal \/ LoopCloses \/ StreamEnds
  BY DEF Next, Harness, Miner, Trouble, Report, vars, Dispatch, DispatchSends, TaskTakes, TaskRecords,
    TaskPanics, TaskEnds, MinerDials, MinerReceives, MinerReplies, MinerRepliesInVain, MinerLeaves,
    MinerDrains, MinerExits, MinerGivesUp, MinerNarrows, MinerDies
<1>11. QED
  BY <1>1, <1>2, <1>3, <1>5, <1>7, <1>8, <1>9, <1>10

\* A complete run stays complete.
LEMMA CompleteKept ==
  ASSUME DriveConstants, IInv, [Next]_vars, Complete(rows)
  PROVE  Complete(rows')
<1>1. Total \in Nat /\ Len(rows) <= Len(rows') /\ Len(rows) \in Nat /\ Len(rows') \in Nat
  BY RowsNext, FS_CardinalityType DEF Total, DriveConstants
<1>2. QED
  BY <1>1 DEF Complete

\* A Shutdown is sent, and a clean exit reported, only for a complete run.
LEMMA StopsComplete ==
  ASSUME DriveConstants, IInv, [Next]_vars
  PROVE  /\ shut' # shut => Complete(rows) /\ UNCHANGED <<rows, report>> /\ shut' = TRUE
         /\ report' # report => UNCHANGED <<rows, shut>> /\ report = "none"
         /\ report' = "clean" => report = "clean" \/ Complete(rows)
<1> USE DEF IInv
<1>1. CASE LoopSends
  <2>1. pending # <<>> /\ shut' = (shut \/ Head(pending) = Shutdown) /\ UNCHANGED <<rows, report>>
    BY <1>1 DEF LoopSends
  <2>2. Head(pending) = pending[1] /\ 1 \in DOMAIN pending
    BY <2>1, TailEntries DEF Typed
  <2>3. Head(pending) = Shutdown => Complete(rows)
    BY <2>2, MsgTypes DEF Greets, Has
  <2>4. shut \in BOOLEAN
    BY DEF Typed
  <2>5. QED
    BY <2>1, <2>3, <2>4
<1>2. ASSUME NEW t \in tasks, TaskEnds(t)
      PROVE  UNCHANGED <<rows, report>> /\ (shut' # shut => Complete(rows) /\ shut' = TRUE)
  <2>1. shut \in BOOLEAN /\ shut' = (shut \/ Complete(rows)) /\ UNCHANGED <<rows, report>>
    BY <1>2 DEF Typed, TaskEnds
  <2>2. QED
    BY <2>1
<1>3. CASE Next /\ Report
  BY <1>3 DEF Next, Report
<1>4. CASE UNCHANGED <<shut, report>>
  BY <1>4
<1>5. LoopSends \/ (\E t \in tasks : TaskEnds(t)) \/ (Next /\ Report) \/ UNCHANGED <<shut, report>>
  BY DEF Next, Harness, Miner, Trouble, vars, Handshake, Greeted, LoopCloses, StreamEnds, HandleGrant,
    HandleCapabilities, HandleResult, HandleLeaseDone, HandleReject, HandleFatal, Dispatch, DispatchSends,
    TaskTakes, TaskRecords, TaskPanics, MinerDials, MinerReceives, MinerReplies, MinerRepliesInVain,
    MinerLeaves, MinerDrains, MinerExits, MinerGivesUp, MinerNarrows, MinerDies
<1>6. QED
  BY <1>1, <1>2, <1>3, <1>4, <1>5

\* Together.
LEMMA GreetsNext ==
  ASSUME DriveConstants, IInv, [Next]_vars
  PROVE  Greets'
<1> USE DEF IInv
<1>1. /\ PendingOK(pending', loop')
      /\ Has(pending', "Shutdown") => Has(pending, "Shutdown") \/ Complete(rows')
  BY PendingNext
<1>2. Has(pending', "Shutdown") \/ shut' => Complete(rows')
  BY <1>1, StopsComplete, CompleteKept DEF Greets
<1>3. report' = "clean" => Complete(rows')
  BY StopsComplete, CompleteKept DEF Greets
<1>4. ASSUME loop' \in {"hello", "greeting"}
      PROVE  batch' = {} /\ ~Has(toMiner', "Job") /\ WireJobs' = {}
  <2>1. loop \in {"hello", "greeting"} /\ UNCHANGED batch
    BY <1>4 DEF Next, Harness, Miner, Trouble, Report, vars, Handshake, LoopSends, Greeted, LoopCloses,
    StreamEnds, Ended, HandleGrant, GoOn, Next_message, HandleCapabilities, HandleResult, HandleLeaseDone,
    HandleReject, HandleFatal, Dispatch, DispatchSends, TaskTakes, TaskRecords, TaskPanics, TaskEnds,
    MinerDials, MinerReceives, MinerReplies, MinerRepliesInVain, MinerLeaves, MinerDrains, MinerExits,
    MinerGivesUp, MinerNarrows, MinerDies, dispatchVars
  <2>2. batch = {} /\ ~Has(toMiner, "Job") /\ WireJobs = {} /\ toMiner \in Seq(OutMsgs)
    BY <2>1 DEF Greets, Typed, OutMsgs
  <2>3. ~Has(toMiner', "Job")
    <3>1. CASE OutKept
      BY <2>2, <3>1 DEF OutKept
    <3>2. CASE OutRead
      BY <2>2, <3>2, TailEntries DEF OutRead, Has
    <3>3. CASE OutTold
      <4>1. PICK m \in OutMsgs : m.type # "Job" /\ toMiner' = Append(toMiner, m)
        BY <3>3 DEF OutTold
      <4>2. QED
        BY <2>2, <4>1, HasNext
    <3>4. CASE OutJob
      BY <2>2, <3>4 DEF OutJob
    <3>5. QED
      BY <3>1, <3>2, <3>3, <3>4, OutSteps
  <2>4. ~WireAnswer
    <3>1. SUFFICES ASSUME WireAnswer PROVE FALSE
      OBVIOUS
    <3>2. 1 \in DOMAIN toMiner /\ toMiner[1].type = "Job"
      BY <2>2, <3>1, TailEntries DEF WireAnswer
    <3>3. QED
      BY <2>2, <3>2 DEF Has
  <2>5. WireJobs' \subseteq WireJobs
    BY <1>4, <2>1, <2>4, WireSteps, WireJobsNext
  <2>6. QED
    BY <2>1, <2>2, <2>3, <2>5
<1>5. QED
  BY <1>1, <1>2, <1>3, <1>4 DEF Greets, PendingOK
-----------------------------------------------------------------------------
(***************************************************************************)
(* The theorems                                                            *)
(***************************************************************************)

\* A run begins with every job in the queue.
LEMMA InitIInv ==
  ASSUME DriveConstants, Init
  PROVE  IInv
<1>1. /\ <<>> \in Seq(OutMsgs) /\ <<>> \in Seq(InMsgs) /\ <<>> \in Seq(Nat) /\ <<>> \in Seq(RowType)
      /\ Len(<<>>) = 0 /\ DOMAIN <<>> = {} /\ <<>> \o <<>> = <<>>
  OBVIOUS
<1>2. Typed
  BY <1>1 DEF Init, Typed, DriveConstants, OutMsgs, InMsgs, RowType
<1>3. Collisions /\ Fits
  <2>1. OutCap \in Nat /\ InCap \in Nat /\ GrantCap \in Nat
    BY DEF DriveConstants
  <2>2. QED
    BY <1>1, <2>1 DEF Init, Collisions, Fits
<1>4. Wire = <<>> /\ toMiner = <<>> /\ rows = <<>> /\ tasks = {} /\ pending = <<>>
  BY <1>1 DEF Init, Wire
<1>5. JobsSent /\ Once /\ Truthful
  BY <1>1, <1>4 DEF JobsSent, Once, Named, SentOnce, AnsweredOnce, Truthful
<1>6. OutJobs = {} /\ WireJobs = {} /\ TaskJobs = {} /\ RowJobs = {}
  BY <1>1, <1>4 DEF OutJobs, WireJobs, TaskJobs, RowJobs, Carries, Tasked, HasRow
<1>7. Places /\ LeasesHeld
  BY <1>6 DEF Init, Places, LeasesHeld
<1>8. Recording /\ Ahead /\ RowsTrue
  BY <1>1, <1>4 DEF Init, Recording, HasRow, Ahead, RowsTrue
<1>9. Greets
  BY <1>1, <1>4, <1>6 DEF Init, Greets, Has
<1>10. QED
  BY <1>2, <1>3, <1>5, <1>7, <1>8, <1>9 DEF IInv, Routed

\* Every step keeps the invariant.
LEMMA NextIInv ==
  ASSUME DriveConstants, IInv, [Next]_vars
  PROVE  IInv'
<1>1. Collisions'
  BY InputsKept DEF IInv, Collisions
<1>2. QED
  BY <1>1, TypedNext, FitsNext, JobsSentNext, RoutedNext, RecordingNext, AheadNext, GreetsNext, RowsNext DEF IInv

\* The inductive invariant of a drive run.
THEOREM Invariance == Spec => []IInv
<1>1. Init => IInv
  BY InitIInv, DriveConstants
<1>2. IInv /\ [Next]_vars => IInv'
  BY NextIInv, DriveConstants
<1>3. QED
  BY <1>1, <1>2, PTL DEF Spec

\* However many jobs there are, whatever their kinds and ids and however small
\* the channels: a job gets at most one row, whichever of the unroutable check,
\* the validation task, LeaseDone, Reject and Fatal reaches it first.
THEOREM OneOutcomeEach == Spec => []OneRowPerJob
<1>1. IInv => OneRowPerJob
  BY DEF IInv, Typed, Fits, Recording, OneRowPerJob, TypeOK
<1>2. QED
  BY <1>1, Invariance, PTL

\* A row says what happened to its job: the handshake's order makes a Reject
\* the miner's own judgement, and a lease's winner is counted before its
\* LeaseDone is recorded.
THEOREM RowsSayWhatHappened == Spec => []RowsTrue
<1>1. IInv => RowsTrue
  BY DEF IInv
<1>2. QED
  BY <1>1, Invariance, PTL

\* As many rows as jobs, and no job twice: every job has its outcome.
LEMMA CompleteClosesAll ==
  ASSUME DriveConstants, IInv, Complete(rows), NEW j \in Jobs
  PROVE  Outcome(j) # "open"
<1> DEFINE n == Len(rows)
           f == [i \in 1 .. n |-> rows[i].job]
<1>1. /\ rows \in Seq(RowType) /\ n \in Nat /\ DOMAIN rows = 1 .. n /\ IsFiniteSet(Jobs)
      /\ n >= Cardinality(Jobs) /\ Cardinality(Jobs) \in Nat
  BY FS_CardinalityType DEF IInv, Typed, RowType, DriveConstants, Complete, Total
<1>2. \A i \in 1 .. n : rows[i].job \in Jobs
  <2>1. \A i \in 1 .. n : rows[i] \in RowType
    BY <1>1
  <2>2. QED
    BY <2>1 DEF RowType
<1>3. f \in Injection(1 .. n, Jobs)
  <2>1. \A i, k \in 1 .. n : rows[i].job = rows[k].job => i = k
    BY <1>1 DEF IInv, Recording
  <2>2. QED
    BY <1>2, <2>1 DEF Injection, IsInjective
<1> HIDE DEF n, f
<1>4. Cardinality(1 .. n) = n
  BY <1>1, FS_Interval
<1>5. n <= Cardinality(Jobs) /\ (n = Cardinality(Jobs) => f \in Surjection(1 .. n, Jobs))
  BY <1>1, <1>3, <1>4, FS_Injection
<1>6. f \in Surjection(1 .. n, Jobs)
  BY <1>1, <1>5
<1>7. PICK i \in 1 .. n : f[i] = j
  BY <1>6 DEF Surjection
<1>8. i \in DOMAIN rows /\ rows[i].job = j
  BY <1>1, <1>7 DEF f
<1>9. QED
  BY <1>8 DEF Outcome

\* The outcomes after a step that records rows for the jobs of S.
LEMMA OutcomesClose ==
  ASSUME DriveConstants, IInv, NEW S \in SUBSET Jobs, NEW rejected \in BOOLEAN,
         \A j \in S : ~RowOf(rows, j), \A j \in S : RowOf(rows', j),
         \A i \in DOMAIN rows' : \/ i \in DOMAIN rows /\ rows'[i] = rows[i]
                                 \/ rows'[i].rejected = rejected /\ rows'[i].job \in S,
         \A i \in DOMAIN rows : i \in DOMAIN rows' /\ rows'[i] = rows[i]
  PROVE  /\ \A j \in S : Outcome(j) = "open" /\ Outcome(j)' = IF rejected THEN "failed" ELSE "answered"
         /\ \A j \in Jobs \ S : Outcome(j)' = Outcome(j)
<1>1. ASSUME NEW j \in S
      PROVE  /\ Outcome(j) = "open"
             /\ Outcome(j)' = IF rejected THEN "failed" ELSE "answered"
  <2>1. Outcome(j) = "open"
    BY <1>1 DEF Outcome, RowOf
  <2>2. PICK i \in DOMAIN rows' : rows'[i].job = j
    BY <1>1 DEF RowOf
  <2>3. \A k \in DOMAIN rows' : rows'[k].job = j => rows'[k].rejected = rejected
    BY <1>1 DEF RowOf
  <2>4. QED
    BY <2>1, <2>2, <2>3 DEF Outcome
<1>2. ASSUME NEW j \in Jobs \ S
      PROVE  Outcome(j)' = Outcome(j)
  <2>1. \A k \in DOMAIN rows' : rows'[k].job = j => k \in DOMAIN rows /\ rows'[k] = rows[k]
    BY <1>2
  <2>2. (\E i \in DOMAIN rows' : rows'[i].job = j) <=> (\E i \in DOMAIN rows : rows[i].job = j)
    BY <2>1
  <2>3. (\E i \in DOMAIN rows' : rows'[i].job = j /\ ~rows'[i].rejected)
          <=> (\E i \in DOMAIN rows : rows[i].job = j /\ ~rows[i].rejected)
    BY <2>1
  <2>4. QED
    BY <2>2, <2>3 DEF Outcome
<1>3. QED
  BY <1>1, <1>2

\* A step of the run is a step of the promise, or none of its business.
LEMMA StepPromise ==
  ASSUME DriveConstants, IInv, [Next]_vars
  PROVE  [Impl!Next]_(Impl!vars)
<1> DEFINE oc == [j \in Jobs |-> Outcome(j)]
           vd == IF report = "none" THEN "running" ELSE report
<1>0. rows \in Seq(RowType) /\ report \in {"none", "clean", "failed"} /\ report' \in {"none", "clean", "failed"}
  BY TypedNext DEF IInv, Typed, RowType
<1>1. ASSUME UNCHANGED vars
      PROVE  UNCHANGED <<rows, shut, report>>
  BY <1>1 DEF vars
<1>2. ASSUME UNCHANGED rows
      PROVE  oc' = oc
  BY <1>2 DEF Outcome
<1>3. CASE UNCHANGED <<rows, shut, report>>
  BY <1>2, <1>3 DEF Impl!vars
<1>4. report = "none" \/ UNCHANGED vars
  BY DEF Next
<1>5. ASSUME NEW S \in SUBSET Jobs, NEW how \in {"answered", "failed"}, S # {}, report = "none",
             how = "answered" => \E j \in S : S = {j},
             \A j \in S : Outcome(j) = "open" /\ Outcome(j)' = how,
             \A j \in Jobs \ S : Outcome(j)' = Outcome(j),
             UNCHANGED <<shut, report>>
      PROVE  Impl!Close(S, how)
  <2>1. oc' = [j \in Jobs |-> IF j \in S THEN how ELSE oc[j]]
    BY <1>5
  <2>2. \A j \in S : oc[j] = "open"
    BY <1>5
  <2>3. vd = "running" /\ vd' = vd
    BY <1>5
  <2>4. QED
    BY <1>5, <2>1, <2>2, <2>3 DEF Impl!Close
<1>6. CASE RowStep /\ report = "none"
  <2>1. PICK x \in RowType : rows' = Append(rows, x) /\ ~RowOf(rows, x.job)
    BY <1>6 DEF RowStep
  <2> DEFINE how == IF x.rejected THEN "failed" ELSE "answered"
  <2>2. x.job \in Jobs /\ x.rejected \in BOOLEAN
    BY DEF RowType
  <2>3. /\ RowOf(rows', x.job)
        /\ \A i \in DOMAIN rows' : (i \in DOMAIN rows /\ rows'[i] = rows[i]) \/ rows'[i] = x
        /\ \A i \in DOMAIN rows : i \in DOMAIN rows' /\ rows'[i] = rows[i]
    BY <1>0, <2>1, <2>2, RowAdded
  <2>4. \A i \in DOMAIN rows' : \/ i \in DOMAIN rows /\ rows'[i] = rows[i]
                                \/ rows'[i].rejected = x.rejected /\ rows'[i].job \in {x.job}
    BY <2>3
  <2>5. {x.job} \in SUBSET Jobs /\ (\A j \in {x.job} : ~RowOf(rows, j)) /\ (\A j \in {x.job} : RowOf(rows', j))
    BY <2>1, <2>2, <2>3
  <2>6. /\ \A j \in {x.job} : Outcome(j) = "open" /\ Outcome(j)' = how
        /\ \A j \in Jobs \ {x.job} : Outcome(j)' = Outcome(j)
    <3> DEFINE S == {x.job}
               rejected == x.rejected
    <3>1. /\ S \in SUBSET Jobs /\ rejected \in BOOLEAN
          /\ (\A j \in S : ~RowOf(rows, j)) /\ (\A j \in S : RowOf(rows', j))
          /\ \A i \in DOMAIN rows' : \/ i \in DOMAIN rows /\ rows'[i] = rows[i]
                                     \/ rows'[i].rejected = rejected /\ rows'[i].job \in S
          /\ \A i \in DOMAIN rows : i \in DOMAIN rows' /\ rows'[i] = rows[i]
      BY <2>2, <2>3, <2>4, <2>5
    <3>2. how = IF rejected THEN "failed" ELSE "answered"
      OBVIOUS
    <3> HIDE DEF S, rejected, how
    <3>3. /\ \A j \in S : Outcome(j) = "open" /\ Outcome(j)' = how
          /\ \A j \in Jobs \ S : Outcome(j)' = Outcome(j)
      BY <3>1, <3>2, OutcomesClose
    <3>4. QED
      BY <3>3 DEF S
  <2>7. how \in {"answered", "failed"} /\ UNCHANGED <<shut, report>>
    BY <1>6 DEF RowStep
  <2> HIDE DEF how
  <2>8. Impl!Close({x.job}, how)
    BY <1>5, <1>6, <2>5, <2>6, <2>7
  <2>9. QED
    BY <2>5, <2>7, <2>8 DEF Impl!Next
<1>7. CASE FailStep /\ report = "none"
  <2>1. PICK S \in SUBSET Jobs : IsFiniteSet(S) /\ rows' = rows \o FailingRows(S) /\ \A j \in S : ~RowOf(rows, j)
    BY <1>7 DEF FailStep
  <2>2. UNCHANGED <<shut, report>>
    BY <1>7 DEF FailStep
  <2>3. /\ \A j \in Jobs : RowOf(rows', j) <=> RowOf(rows, j) \/ j \in S
        /\ \A i \in DOMAIN rows' : \/ i \in DOMAIN rows /\ rows'[i] = rows[i]
                                   \/ rows'[i].rejected /\ rows'[i].job \in S
        /\ \A i \in DOMAIN rows : i \in DOMAIN rows' /\ rows'[i] = rows[i]
        /\ rows' \in Seq(RowType)
    <3> DEFINE r == rows \o FailingRows(S)
    <3>1. rows \in Seq(RowType) /\ rows' = r /\ IsFiniteSet(S)
      BY <1>0, <2>1
    <3>2. /\ r \in Seq(RowType)
          /\ \A j \in Jobs : RowOf(r, j) <=> RowOf(rows, j) \/ j \in S
          /\ \A i \in DOMAIN r : \/ i \in DOMAIN rows /\ r[i] = rows[i]
                                 \/ r[i].rejected /\ r[i].job \in S
          /\ \A i \in DOMAIN rows : i \in DOMAIN r /\ r[i] = rows[i]
      BY <3>1, FailingRowsAdded
    <3> HIDE DEF r
    <3>3. QED
      BY <3>1, <3>2
  <2>4. \A i \in DOMAIN rows' : rows'[i].rejected \in BOOLEAN
    <3>1. \A i \in DOMAIN rows' : rows'[i] \in RowType
      BY <2>3
    <3>2. QED
      BY <3>1 DEF RowType
  <2>5. \A i \in DOMAIN rows' : \/ i \in DOMAIN rows /\ rows'[i] = rows[i]
                                \/ rows'[i].rejected = TRUE /\ rows'[i].job \in S
    BY <2>3, <2>4
  <2>6. /\ \A j \in S : Outcome(j) = "open" /\ Outcome(j)' = "failed"
        /\ \A j \in Jobs \ S : Outcome(j)' = Outcome(j)
    BY <2>1, <2>3, <2>5, OutcomesClose
  <2>7. CASE S = {}
    <3>1. oc' = oc
      BY <2>6, <2>7
    <3>2. QED
      BY <2>2, <3>1 DEF Impl!vars
  <2>8. CASE S # {}
    <3>1. Impl!Close(S, "failed")
      BY <1>5, <1>7, <2>2, <2>6, <2>8
    <3>2. QED
      BY <3>1 DEF Impl!Next
  <2>9. QED
    BY <2>7, <2>8
<1>8. ASSUME Complete(rows)
      PROVE  Impl!AllClosed
  BY <1>8, CompleteClosesAll DEF Impl!AllClosed
<1>9. CASE UNCHANGED rows /\ shut' # shut /\ report = "none"
  <2>1. Complete(rows) /\ report' = report /\ shut' = TRUE
    BY <1>9, StopsComplete
  <2>2. Impl!Stop
    BY <1>2, <1>8, <1>9, <2>1 DEF Impl!Stop
  <2>3. QED
    BY <2>2 DEF Impl!Next
<1>10. CASE UNCHANGED <<rows, shut>> /\ report' # report /\ report = "none"
  <2>1. report' \in {"clean", "failed"} /\ (report' = "clean" => Complete(rows))
    BY <1>0, <1>10, StopsComplete
  <2>2. Impl!Publish(report')
    BY <1>2, <1>8, <1>10, <2>1 DEF Impl!Publish
  <2>3. QED
    BY <2>1, <2>2 DEF Impl!Next
<1>11. UNCHANGED rows => \/ UNCHANGED <<rows, shut, report>>
                         \/ UNCHANGED rows /\ shut' # shut
                         \/ UNCHANGED <<rows, shut>> /\ report' # report
  OBVIOUS
<1>12. QED
  BY <1>1, <1>3, <1>4, <1>6, <1>7, <1>9, <1>10, <1>11, RowSteps

\* The harness keeps the promise of DriveReport: an outcome is never revised,
\* the miner is told to stop only once every job has one, and the process
\* exits clean only then.
THEOREM PromiseKept == Spec => Promise
<1>1. Init => Impl!Init
  BY DEF Init, Impl!Init, Outcome
<1>2. IInv /\ [Next]_vars => [Impl!Next]_(Impl!vars)
  BY StepPromise, DriveConstants
<1>3. QED
  BY <1>1, <1>2, Invariance, PTL DEF Spec, Promise, Impl!Spec
-----------------------------------------------------------------------------
(***************************************************************************)
(* Counting messages and credits                                           *)
(***************************************************************************)

\* A set and a copy of another one, side by side.
LEMMA Joined ==
  ASSUME NEW A, NEW B, NEW D, NEW f \in Bijection(B, D), IsFiniteSet(A), IsFiniteSet(B),
         A \intersect D = {}
  PROVE  /\ IsFiniteSet(A \union D)
         /\ Cardinality(A \union D) = Cardinality(A) + Cardinality(B)
         /\ Cardinality(A) \in Nat /\ Cardinality(B) \in Nat
<1>1. ExistsBijection(B, D)
  BY DEF ExistsBijection
<1>2. IsFiniteSet(D) /\ Cardinality(D) = Cardinality(B)
  BY <1>1, FS_Bijection
<1>3. Cardinality(A) \in Nat /\ Cardinality(B) \in Nat /\ Cardinality(A \intersect D) = 0
  BY FS_CardinalityType, FS_EmptySet
<1>4. /\ IsFiniteSet(A \union D)
      /\ Cardinality(A \union D) = Cardinality(A) + Cardinality(D) - Cardinality(A \intersect D)
  BY <1>2, FS_Union
<1>5. QED
  BY <1>2, <1>3, <1>4

\* The places of the messages of a type.
Spots(q, type) == {i \in DOMAIN q : q[i].type = type}

\* They are finitely many, and none exactly when no message has the type.
LEMMA CountType ==
  ASSUME NEW S, NEW q \in Seq(S), NEW type
  PROVE  /\ IsFiniteSet(Spots(q, type)) /\ Count(q, type) = Cardinality(Spots(q, type))
         /\ Count(q, type) \in Nat
         /\ Count(q, type) = 0 <=> ~Has(q, type)
<1>1. DOMAIN q = 1 .. Len(q) /\ Len(q) \in Nat
  OBVIOUS
<1>2. IsFiniteSet(Spots(q, type))
  <2>1. IsFiniteSet(1 .. Len(q))
    BY <1>1, FS_Interval
  <2>2. Spots(q, type) \subseteq 1 .. Len(q)
    BY <1>1 DEF Spots
  <2>3. QED
    BY <2>1, <2>2, FS_Subset
<1>3. Count(q, type) = Cardinality(Spots(q, type))
  BY DEF Count, Spots
<1>4. Cardinality(Spots(q, type)) \in Nat
  BY <1>2, FS_CardinalityType
<1>5. Cardinality(Spots(q, type)) = 0 <=> Spots(q, type) = {}
  BY <1>2, FS_EmptySet
<1>6. Spots(q, type) = {} <=> ~Has(q, type)
  BY DEF Spots, Has
<1>7. QED
  BY <1>2, <1>3, <1>4, <1>5, <1>6

\* Two channels hold what either holds.
LEMMA CountConcat ==
  ASSUME NEW S, NEW q \in Seq(S), NEW r \in Seq(S), NEW type
  PROVE  Count(q \o r, type) = Count(q, type) + Count(r, type)
<1> DEFINE n == Len(q)
           A == Spots(q, type)
           B == Spots(r, type)
           f == [i \in B |-> n + i]
           D == {n + i : i \in B}
<1>1. /\ q \o r \in Seq(S) /\ n \in Nat /\ Len(r) \in Nat
      /\ DOMAIN q = 1 .. n /\ DOMAIN r = 1 .. Len(r) /\ DOMAIN (q \o r) = 1 .. n + Len(r)
      /\ \A i \in 1 .. n : (q \o r)[i] = q[i]
      /\ \A i \in 1 .. Len(r) : (q \o r)[n + i] = r[i]
      /\ \A i \in 1 .. n + Len(r) : i \notin 1 .. n =>
           i - n \in 1 .. Len(r) /\ (q \o r)[i] = r[i - n]
  BY ConcatEntries
<1>2. IsFiniteSet(A) /\ IsFiniteSet(B) /\ Count(q, type) = Cardinality(A) /\ Count(r, type) = Cardinality(B)
      /\ Count(q \o r, type) = Cardinality(Spots(q \o r, type))
  BY <1>1, CountType
<1> HIDE DEF n
<1>3. A \subseteq 1 .. n /\ B \subseteq 1 .. Len(r)
  BY <1>1 DEF Spots
<1>4. f \in Bijection(B, D)
  <2>1. \A i, k \in B : n + i = n + k => i = k
    BY <1>1, <1>3
  <2>2. QED
    BY <2>1 DEF Bijection, Injection, Surjection, IsInjective
<1>5. A \intersect D = {}
  BY <1>1, <1>3
<1>6. Spots(q \o r, type) = A \union D
  <2>1. ASSUME NEW i \in Spots(q \o r, type) PROVE i \in A \union D
    <3>1. i \in 1 .. n + Len(r) /\ (q \o r)[i].type = type
      BY <1>1, <2>1 DEF Spots
    <3>2. CASE i \in 1 .. n
      BY <1>1, <3>1, <3>2 DEF Spots
    <3>3. CASE i \notin 1 .. n
      <4>1. i - n \in 1 .. Len(r) /\ (q \o r)[i] = r[i - n]
        BY <1>1, <3>1, <3>3
      <4>2. i - n \in B
        BY <1>1, <3>1, <4>1 DEF Spots
      <4>3. i \in Int /\ n \in Int
        BY <1>1, <3>1
      <4>4. i = n + (i - n)
        BY ONLY <4>3
      <4>5. QED
        BY <4>2, <4>4
    <3>4. QED
      BY <3>2, <3>3
  <2>2. ASSUME NEW i \in A PROVE i \in Spots(q \o r, type)
    BY <1>1, <2>2 DEF Spots
  <2>3. ASSUME NEW i \in B PROVE n + i \in Spots(q \o r, type)
    BY <1>1, <2>3 DEF Spots
  <2>4. QED
    BY <2>1, <2>2, <2>3
<1> HIDE DEF A, B, D, f
<1>7. Cardinality(A \union D) = Cardinality(A) + Cardinality(B)
  BY <1>2, <1>4, <1>5, Joined
<1>8. QED
  BY <1>2, <1>6, <1>7

\* One message, or none.
Is(m, type) == IF m.type = type THEN 1 ELSE 0

\* A channel of one message counts it or not.
LEMMA CountOne ==
  ASSUME NEW S, NEW m \in S, NEW type
  PROVE  Count(<<m>>, type) = Is(m, type) /\ <<m>> \in Seq(S) /\ Is(m, type) \in {0, 1}
<1> SUFFICES Count(<<m>>, type) = Is(m, type)
  BY DEF Is
<1>1. {i \in DOMAIN <<m>> : <<m>>[i].type = type} = IF m.type = type THEN {1} ELSE {}
  OBVIOUS
<1>2. CASE m.type = type
  <2>1. Count(<<m>>, type) = Cardinality({1})
    BY <1>1, <1>2 DEF Count
  <2>2. QED
    BY <1>2, <2>1, FS_Singleton DEF Is
<1>3. CASE m.type # type
  <2>1. Count(<<m>>, type) = Cardinality({})
    BY <1>1, <1>3 DEF Count
  <2>2. QED
    BY <1>3, <2>1, FS_EmptySet DEF Is
<1>4. QED
  BY <1>2, <1>3

\* A message sent is one more, a message read one less.
LEMMA CountMoves ==
  ASSUME NEW S, NEW q \in Seq(S), NEW type
  PROVE  /\ \A m \in S : Count(Append(q, m), type) = Count(q, type) + Is(m, type)
         /\ q # <<>> => Count(q, type) = Count(Tail(q), type) + Is(Head(q), type)
         /\ Count(<<>>, type) = 0
<1>1. ASSUME NEW m \in S PROVE Count(Append(q, m), type) = Count(q, type) + Is(m, type)
  <2>1. Append(q, m) = q \o <<m>>
    OBVIOUS
  <2>2. <<m>> \in Seq(S) /\ Count(<<m>>, type) = Is(m, type)
    BY CountOne
  <2>3. Count(q \o <<m>>, type) = Count(q, type) + Count(<<m>>, type)
    BY <2>2, CountConcat
  <2>4. QED
    BY <2>1, <2>2, <2>3
<1>2. ASSUME q # <<>> PROVE Count(q, type) = Count(Tail(q), type) + Is(Head(q), type)
  <2>1. Head(q) \in S /\ Tail(q) \in Seq(S) /\ q = <<Head(q)>> \o Tail(q)
    BY <1>2
  <2> DEFINE h == Head(q)
             t == Tail(q)
  <2>2. <<h>> \in Seq(S) /\ Count(<<h>>, type) = Is(h, type) /\ Is(h, type) \in {0, 1}
    BY <2>1, CountOne
  <2>3. Count(t, type) \in Nat /\ q = <<h>> \o t
    BY <2>1, CountType
  <2> HIDE DEF h, t
  <2>4. Count(<<h>> \o t, type) = Count(<<h>>, type) + Count(t, type)
    BY <2>1, <2>2, CountConcat DEF t
  <2>5. Count(q, type) = Count(t, type) + Is(h, type)
    BY <2>2, <2>3, <2>4
  <2>6. QED
    BY <2>5 DEF h, t
<1>3. Count(<<>>, type) = 0
  BY FS_EmptySet DEF Count
<1>4. QED
  BY <1>1, <1>2, <1>3

\* The credits of a queue of grants, one by one.
Coins(g) == UNION {{i} \X (1 .. g[i]) : i \in DOMAIN g}

\* They are finitely many, each named by its grant and its number in it.
LEMMA CoinsFinite ==
  ASSUME NEW g \in Seq(Nat)
  PROVE  /\ IsFiniteSet(Coins(g)) /\ Cardinality(Coins(g)) \in Nat
         /\ \A p : p \in Coins(g) <=> \E i \in DOMAIN g : \E k \in 1 .. g[i] : p = <<i, k>>
<1> DEFINE C(i) == {i} \X (1 .. g[i])
           T == {C(i) : i \in DOMAIN g}
           f == [i \in DOMAIN g |-> C(i)]
<1>1. DOMAIN g = 1 .. Len(g) /\ Len(g) \in Nat /\ \A i \in DOMAIN g : g[i] \in Nat
  OBVIOUS
<1>2. IsFiniteSet(T)
  <2>1. f \in Surjection(DOMAIN g, T)
    BY DEF Surjection
  <2>2. IsFiniteSet(DOMAIN g)
    BY <1>1, FS_Interval
  <2> HIDE DEF f, T
  <2>3. QED
    BY <2>1, <2>2, FS_Surjection
<1>3. \A i \in DOMAIN g : IsFiniteSet(C(i))
  <2> SUFFICES ASSUME NEW i \in DOMAIN g PROVE IsFiniteSet({i} \X (1 .. g[i]))
    OBVIOUS
  <2>1. IsFiniteSet({i})
    BY FS_Singleton
  <2>2. IsFiniteSet(1 .. g[i])
    BY <1>1, FS_Interval
  <2>3. QED
    BY <2>1, <2>2, FS_Product
<1>4. Coins(g) = UNION T
  BY DEF Coins
<1>5. IsFiniteSet(Coins(g))
  <2>1. \A c \in T : IsFiniteSet(c)
    BY <1>3
  <2> HIDE DEF T
  <2>2. QED
    BY <1>2, <1>4, <2>1, FS_UNION
<1>6. \A p : p \in Coins(g) <=> \E i \in DOMAIN g : \E k \in 1 .. g[i] : p = <<i, k>>
  BY DEF Coins
<1>7. QED
  BY <1>5, <1>6, FS_CardinalityType

\* A grant sent adds its credits,
LEMMA CoinsAppend ==
  ASSUME NEW g \in Seq(Nat), NEW n \in Nat
  PROVE  Cardinality(Coins(Append(g, n))) = Cardinality(Coins(g)) + n
<1> DEFINE a == Append(g, n)
           x == Len(g) + 1
           A == Coins(g)
           B == 1 .. n
           D == {<<x, k>> : k \in B}
           f == [k \in B |-> <<x, k>>]
<1>1. /\ a \in Seq(Nat) /\ Len(g) \in Nat /\ DOMAIN g = 1 .. Len(g) /\ DOMAIN a = 1 .. x
      /\ (\A i \in 1 .. Len(g) : a[i] = g[i]) /\ a[x] = n
  BY AppendEntries
<1>2. /\ \A p : p \in A <=> \E i \in DOMAIN g : \E k \in 1 .. g[i] : p = <<i, k>>
      /\ IsFiniteSet(A)
  BY CoinsFinite
<1> HIDE DEF a
<1>3. \A p : p \in Coins(a) <=> \E i \in DOMAIN a : \E k \in 1 .. a[i] : p = <<i, k>>
  BY <1>1, CoinsFinite
<1> HIDE DEF A
<1>4. IsFiniteSet(B) /\ Cardinality(B) = n
  BY FS_Interval
<1>5. f \in Bijection(B, D)
  BY DEF Bijection, Injection, Surjection, IsInjective
<1>6. A \intersect D = {}
  <2> SUFFICES ASSUME NEW p \in A, NEW k \in B, p = <<x, k>> PROVE FALSE
    OBVIOUS
  <2>1. PICK i \in DOMAIN g, l \in Nat : l \in 1 .. g[i] /\ p = <<i, l>>
    BY <1>2
  <2>2. i = x
    BY <2>1
  <2>3. QED
    BY <1>1, <2>2
<1>7. Coins(a) = A \union D
  <2>1. ASSUME NEW p \in Coins(a) PROVE p \in A \union D
    <3>1. PICK i \in DOMAIN a, k \in Nat : k \in 1 .. a[i] /\ p = <<i, k>>
      BY <1>3
    <3>2. CASE i = x
      BY <1>1, <3>1, <3>2
    <3>3. CASE i # x
      <4>1. i \in DOMAIN g /\ a[i] = g[i]
        BY <1>1, <3>1, <3>3
      <4>2. QED
        BY <1>2, <3>1, <4>1
    <3>4. QED
      BY <3>2, <3>3
  <2>2. ASSUME NEW p \in A PROVE p \in Coins(a)
    <3>1. PICK i \in DOMAIN g, k \in Nat : k \in 1 .. g[i] /\ p = <<i, k>>
      BY <1>2
    <3>2. i \in DOMAIN a /\ a[i] = g[i]
      BY <1>1
    <3>3. QED
      BY <1>3, <3>1, <3>2
  <2>3. ASSUME NEW k \in B PROVE <<x, k>> \in Coins(a)
    <3>1. x \in DOMAIN a /\ k \in 1 .. a[x]
      BY <1>1
    <3>2. QED
      BY <1>3, <3>1
  <2>4. QED
    BY <2>1, <2>2, <2>3
<1> HIDE DEF B, D, f
<1>8. Cardinality(A \union D) = Cardinality(A) + Cardinality(B)
  BY <1>2, <1>4, <1>5, <1>6, Joined
<1>9. QED
  BY <1>4, <1>7, <1>8 DEF a, A

\* and the oldest one takes its credits away.
LEMMA CoinsTail ==
  ASSUME NEW g \in Seq(Nat), g # <<>>
  PROVE  Cardinality(Coins(g)) = Head(g) + Cardinality(Coins(Tail(g)))
<1> DEFINE t == Tail(g)
           n == Head(g)
           A == {<<1, k>> : k \in 1 .. n}
           h == [k \in 1 .. n |-> <<1, k>>]
           B == Coins(t)
           D == {<<p[1] + 1, p[2]>> : p \in B}
           f == [p \in B |-> <<p[1] + 1, p[2]>>]
<1>1. /\ t \in Seq(Nat) /\ n \in Nat /\ n = g[1] /\ 1 \in DOMAIN g
      /\ DOMAIN g = 1 .. Len(g) /\ DOMAIN t = 1 .. Len(t) /\ Len(g) \in Nat /\ Len(t) = Len(g) - 1
      /\ \A i \in DOMAIN t : t[i] = g[i + 1]
  BY TailEntries
<1> HIDE DEF t, n
<1>2. /\ \A p : p \in B <=> \E i \in DOMAIN t : \E k \in 1 .. t[i] : p = <<i, k>>
      /\ IsFiniteSet(B)
  BY <1>1, CoinsFinite
<1>3. \A p : p \in Coins(g) <=> \E i \in DOMAIN g : \E k \in 1 .. g[i] : p = <<i, k>>
  BY CoinsFinite
<1>4. IsFiniteSet(A) /\ Cardinality(A) = n
  <2>1. IsFiniteSet(1 .. n) /\ Cardinality(1 .. n) = n
    BY <1>1, FS_Interval
  <2>2. h \in Bijection(1 .. n, A)
    BY DEF Bijection, Injection, Surjection, IsInjective
  <2> HIDE DEF h, A
  <2>3. ExistsBijection(1 .. n, A)
    BY <2>2 DEF ExistsBijection
  <2>4. QED
    BY <2>1, <2>3, FS_Bijection
<1> HIDE DEF B
<1>5. f \in Bijection(B, D)
  <2>1. ASSUME NEW p \in B, NEW q \in B, <<p[1] + 1, p[2]>> = <<q[1] + 1, q[2]>> PROVE p = q
    <3>1. PICK i \in DOMAIN t, k \in Nat : k \in 1 .. t[i] /\ p = <<i, k>>
      BY <1>2
    <3>2. PICK j \in DOMAIN t, l \in Nat : l \in 1 .. t[j] /\ q = <<j, l>>
      BY <1>2
    <3>3. i \in Nat /\ j \in Nat
      BY <1>1
    <3>4. i + 1 = j + 1 /\ k = l
      BY <2>1, <3>1, <3>2
    <3>5. QED
      BY <3>1, <3>2, <3>3, <3>4
  <2>2. QED
    BY <2>1 DEF Bijection, Injection, Surjection, IsInjective
<1>6. A \intersect D = {}
  <2> SUFFICES ASSUME NEW k \in 1 .. n, NEW p \in B, <<1, k>> = <<p[1] + 1, p[2]>> PROVE FALSE
    OBVIOUS
  <2>1. PICK i \in DOMAIN t, l \in Nat : l \in 1 .. t[i] /\ p = <<i, l>>
    BY <1>2
  <2>2. 1 = i + 1
    BY <2>1
  <2>3. QED
    BY <1>1, <2>2
<1>7. Coins(g) = A \union D
  <2>1. ASSUME NEW p \in Coins(g) PROVE p \in A \union D
    <3>1. PICK i \in DOMAIN g, k \in Nat : k \in 1 .. g[i] /\ p = <<i, k>>
      BY <1>3
    <3>2. CASE i = 1
      BY <1>1, <3>1, <3>2
    <3>3. CASE i # 1
      <4>1. i - 1 \in DOMAIN t /\ t[i - 1] = g[i] /\ (i - 1) + 1 = i
        BY <1>1, <3>1, <3>3
      <4>2. <<i - 1, k>> \in B
        BY <1>2, <3>1, <4>1
      <4>3. p = <<(<<i - 1, k>>)[1] + 1, (<<i - 1, k>>)[2]>>
        BY <3>1, <4>1
      <4>4. QED
        BY <4>2, <4>3
    <3>4. QED
      BY <3>2, <3>3
  <2>2. ASSUME NEW k \in 1 .. n PROVE <<1, k>> \in Coins(g)
    BY <1>1, <1>3, <2>2
  <2>3. ASSUME NEW p \in B PROVE <<p[1] + 1, p[2]>> \in Coins(g)
    <3>1. PICK i \in DOMAIN t, k \in Nat : k \in 1 .. t[i] /\ p = <<i, k>>
      BY <1>2
    <3>2. i + 1 \in DOMAIN g /\ t[i] = g[i + 1]
      BY <1>1
    <3>3. <<p[1] + 1, p[2]>> = <<i + 1, k>>
      BY <3>1
    <3>4. k \in 1 .. g[i + 1]
      BY <3>1, <3>2
    <3>5. QED
      BY <1>3, <3>2, <3>3, <3>4
  <2>4. QED
    BY <2>1, <2>2, <2>3
<1> HIDE DEF A, D, f
<1>8. Cardinality(A \union D) = Cardinality(A) + Cardinality(B)
  BY <1>2, <1>4, <1>5, <1>6, Joined
<1>9. QED
  BY <1>4, <1>7, <1>8 DEF t, n, B
-----------------------------------------------------------------------------
(***************************************************************************)
(* The slots of the pipeline                                               *)
(***************************************************************************)

\* Until the handshake nothing is granted, popped or sent, and the miner has
\* sent nothing but its Hello.
Quiet ==
  /\ miner = "dialing" => loop = "hello"
  /\ loop = "hello" => /\ credits = 0 /\ grants = <<>> /\ batch = {} /\ tasks = {}
                       /\ toMiner = <<>> /\ ~Has(Wire, "JobRequest") /\ ~Has(Wire, "Ready")

\* The slots that are a credit or a job, and those still to be seeded.
Loose ==
  credits + Cardinality(Coins(grants)) + Cardinality(batch) + Count(toMiner, "Job")
  + Count(Wire, "JobRequest")
Unseeded == Count(pending, "Configure") + Count(toMiner, "Configure") + Count(Wire, "Ready")

\* The counts are numbers, and the two kinds of slot are all there is.
LEMMA SlotTypes ==
  ASSUME DriveConstants, Typed
  PROVE  /\ credits \in Nat /\ Cardinality(Coins(grants)) \in Nat /\ Cardinality(batch) \in Nat
         /\ IsFiniteSet(batch) /\ IsFiniteSet(staged)
         /\ \A type : /\ Count(toMiner, type) \in Nat /\ Count(pending, type) \in Nat
                      /\ Count(Wire, type) \in Nat
         /\ Seed \in Nat \ {0} /\ Loose \in Nat /\ Unseeded \in Nat
         /\ Slots = Loose + Seed * Unseeded
<1>1. /\ credits \in Nat /\ grants \in Seq(Nat) /\ batch \subseteq Jobs /\ staged \subseteq Jobs
      /\ toMiner \in Seq(OutMsgs) /\ pending \in Seq(OutMsgs)
      /\ toCoord \in Seq(InMsgs) /\ replies \in Seq(InMsgs) /\ Wire \in Seq(InMsgs)
  BY DEF Typed, OutMsgs, InMsgs, Wire
<1>2. IsFiniteSet(batch) /\ IsFiniteSet(staged)
  BY <1>1, FS_Subset DEF DriveConstants
<1>3. Cardinality(batch) \in Nat
  BY <1>2, FS_CardinalityType
<1>4. Cardinality(Coins(grants)) \in Nat
  BY <1>1, CoinsFinite
<1>5. ASSUME NEW type
      PROVE  Count(toMiner, type) \in Nat /\ Count(pending, type) \in Nat /\ Count(Wire, type) \in Nat
  BY <1>1, CountType
<1>6. Count(pending \o toMiner, "Configure") = Count(pending, "Configure") + Count(toMiner, "Configure")
  BY <1>1, CountConcat
<1>7. Seed \in Nat \ {0}
  BY DEF Seed, DriveConstants
<1>8. Granted = Cardinality(Coins(grants))
  BY DEF Granted, Coins
<1>9. Loose \in Nat /\ Unseeded \in Nat
  <2>1. /\ Count(toMiner, "Job") \in Nat /\ Count(Wire, "JobRequest") \in Nat
        /\ Count(pending, "Configure") \in Nat /\ Count(toMiner, "Configure") \in Nat
        /\ Count(Wire, "Ready") \in Nat
    BY <1>5
  <2>2. credits \in Nat
    BY <1>1
  <2>3. QED
    BY ONLY <2>2, <1>3, <1>4, <2>1 DEF Loose, Unseeded
<1>10. Slots = Loose + Seed * Unseeded
  BY <1>6, <1>8 DEF Slots, Loose, Unseeded, Wire
<1>11. QED
  BY <1>1, <1>2, <1>3, <1>4, <1>5, <1>7, <1>9, <1>10

\* The same of the next state.
LEMMA SlotTypesNext ==
  ASSUME DriveConstants, Typed'
  PROVE  /\ credits' \in Nat /\ Cardinality(Coins(grants')) \in Nat /\ Cardinality(batch') \in Nat
         /\ Slots' = Loose' + Seed * Unseeded'
<1>1. /\ credits' \in Nat /\ grants' \in Seq(Nat) /\ batch' \subseteq Jobs
      /\ toMiner' \in Seq(OutMsgs) /\ pending' \in Seq(OutMsgs)
  BY DEF Typed, OutMsgs
<1>2. IsFiniteSet(batch')
  BY <1>1, FS_Subset DEF DriveConstants
<1>3. Cardinality(batch') \in Nat
  BY <1>2, FS_CardinalityType
<1>4. Cardinality(Coins(grants')) \in Nat
  BY <1>1, CoinsFinite
<1>5. Count(pending' \o toMiner', "Configure") = Count(pending', "Configure") + Count(toMiner', "Configure")
  BY <1>1, CountConcat
<1>6. Granted' = Cardinality(Coins(grants'))
  BY DEF Granted, Coins
<1>7. Slots' = Loose' + Seed * Unseeded'
  BY <1>5, <1>6 DEF Slots, Loose, Unseeded, Wire
<1>8. QED
  BY <1>1, <1>3, <1>4, <1>7

\* An answer asks for one more job, whatever became of this one,
LEMMA AnswerCounts ==
  ASSUME DriveConstants, Typed, NEW j \in Jobs
  PROVE  Count(Answer(j), "JobRequest") = 1 /\ Count(Answer(j), "Ready") = 0
<1>0. j \in Nat
  BY DEF DriveConstants
<1> DEFINE rej == JobMsg("Reject", j)
           don == JobMsg("LeaseDone", j)
           res == JobMsg("Result", j)
           jr  == JobRequest
           R(q) == {i \in DOMAIN q : q[i].type = "JobRequest"}
           N(q) == {i \in DOMAIN q : q[i].type = "Ready"}
<1>1. rej.type = "Reject" /\ don.type = "LeaseDone" /\ res.type = "Result" /\ jr.type = "JobRequest"
  BY <1>0, MsgTypes DEF InTypes
<1>2. Answer(j) \in {<<rej, jr>>, <<don, jr>>, <<res, don, jr>>, <<res, jr>>}
  BY AnswerForms
<1> HIDE DEF rej, don, res, jr
<1>3. \A q \in {<<rej, jr>>, <<don, jr>>, <<res, jr>>} : R(q) = {2} /\ N(q) = {}
  BY <1>1
<1>4. R(<<res, don, jr>>) = {3} /\ N(<<res, don, jr>>) = {}
  BY <1>1
<1>5. R(Answer(j)) \in {{2}, {3}} /\ N(Answer(j)) = {}
  BY <1>2, <1>3, <1>4
<1>6. Count(Answer(j), "JobRequest") = Cardinality(R(Answer(j))) /\ Count(Answer(j), "Ready") = Cardinality(N(Answer(j)))
  BY DEF Count
<1> HIDE DEF R, N
<1>7. Cardinality({2}) = 1 /\ Cardinality({3}) = 1 /\ Cardinality({}) = 0
  BY FS_Singleton, FS_EmptySet
<1>8. QED
  BY <1>5, <1>6, <1>7

\* and a greeting configures the miner once.
LEMMA GreetingCounts == Count(Greeting, "Configure") = 1
<1>1. {i \in DOMAIN Greeting : Greeting[i].type = "Configure"} = {2}
  BY DEF Greeting, Msg
<1>2. QED
  BY <1>1, FS_Singleton DEF Count

\* Both ends of the arithmetic: what a step moves between the counts.
LEMMA SlotMoves ==
  ASSUME DriveConstants, Typed, Typed', SlotsConserved,
         loop \in {"greeting", "reading"}, miner = "running",
         \/ Loose' = Loose /\ Unseeded' = Unseeded
         \/ Loose' = Loose + Seed /\ Unseeded = Unseeded' + 1 /\ Unseeded' \in Nat
  PROVE  Slots' = Seed
<1> DEFINE a == Loose
           b == Loose'
           x == Unseeded
           y == Unseeded'
           s == Seed
<1>1. /\ s \in Nat /\ a \in Nat /\ x \in Nat /\ Slots = a + s * x /\ Slots' = b + s * y
  BY SlotTypes, SlotTypesNext
<1>2. Slots = s
  BY DEF SlotsConserved
<1>3. (b = a /\ y = x) \/ (b = a + s /\ x = y + 1 /\ y \in Nat)
  OBVIOUS
<1> HIDE DEF a, b, x, y, s
<1>4. CASE b = a /\ y = x
  BY <1>1, <1>2, <1>4 DEF s
<1>5. CASE b = a + s /\ x = y + 1 /\ y \in Nat
  <2>1. s * (y + 1) = s * y + s /\ s * y \in Nat
    BY <1>1, <1>5
  <2>2. QED
    BY <1>1, <1>2, <1>5, <2>1 DEF s
<1>6. QED
  BY <1>3, <1>4, <1>5

\* All the counts are numbers.
LEMMA SlotNumbers ==
  ASSUME DriveConstants, Typed, Typed'
  PROVE  /\ credits \in Nat /\ Cardinality(Coins(grants)) \in Nat /\ Cardinality(batch) \in Nat
         /\ credits' \in Nat /\ Cardinality(Coins(grants')) \in Nat /\ Cardinality(batch') \in Nat
         /\ Count(toMiner, "Job") \in Nat /\ Count(toMiner, "Configure") \in Nat
         /\ Count(toMiner', "Job") \in Nat /\ Count(toMiner', "Configure") \in Nat
         /\ Count(pending, "Configure") \in Nat /\ Count(pending', "Configure") \in Nat
         /\ Count(Wire, "JobRequest") \in Nat /\ Count(Wire, "Ready") \in Nat
         /\ Count(Wire', "JobRequest") \in Nat /\ Count(Wire', "Ready") \in Nat
         /\ Seed \in Nat
<1>1. /\ toMiner' \in Seq(OutMsgs) /\ pending' \in Seq(OutMsgs)
  BY DEF Typed, OutMsgs
<1>2. Wire' \in Seq(InMsgs)
  BY DEF Typed, InMsgs, Wire
<1>3. /\ Count(toMiner', "Job") \in Nat /\ Count(toMiner', "Configure") \in Nat
      /\ Count(pending', "Configure") \in Nat
  BY <1>1, CountType
<1>4. Count(Wire', "JobRequest") \in Nat /\ Count(Wire', "Ready") \in Nat
  BY <1>2, CountType
<1>5. /\ credits \in Nat /\ Cardinality(Coins(grants)) \in Nat /\ Cardinality(batch) \in Nat /\ Seed \in Nat
      /\ \A type : /\ Count(toMiner, type) \in Nat /\ Count(pending, type) \in Nat
                   /\ Count(Wire, type) \in Nat
  BY SlotTypes
<1>6. credits' \in Nat /\ Cardinality(Coins(grants')) \in Nat /\ Cardinality(batch') \in Nat
  BY SlotTypesNext
<1>7. /\ Count(toMiner, "Job") \in Nat /\ Count(toMiner, "Configure") \in Nat /\ Count(pending, "Configure") \in Nat
      /\ Count(Wire, "JobRequest") \in Nat /\ Count(Wire, "Ready") \in Nat
  BY <1>5
<1>8. QED
  BY <1>3, <1>4, <1>5, <1>6, <1>7

\* A message read that carries no slot moves none.
LEMMA WireCounts ==
  ASSUME DriveConstants, Typed, Typed'
  PROVE  /\ WireTaken => \A type : Count(Wire, type) = Count(Wire', type) + Is(Wire[1], type)
         /\ WireKept => \A type : Count(Wire', type) = Count(Wire, type)
<1>1. Wire \in Seq(InMsgs)
  BY DEF Typed, InMsgs, Wire
<1>2. ASSUME WireTaken, NEW type PROVE Count(Wire, type) = Count(Wire', type) + Is(Wire[1], type)
  <2>1. Wire # <<>> /\ Wire' = Tail(Wire) /\ Head(Wire) = Wire[1]
    BY <1>1, <1>2, TailEntries DEF WireTaken
  <2>2. Count(Wire, type) = Count(Tail(Wire), type) + Is(Head(Wire), type)
    BY <1>1, <2>1, CountMoves
  <2>3. QED
    BY <2>1, <2>2
<1>3. QED
  BY <1>2 DEF WireKept

\* A grant that is sent turns a request, or the seed, into credits.
LEMMA SlotsGrant ==
  ASSUME DriveConstants, IInv, Typed', SlotsConserved, miner = "running",
         HandleGrant("Ready", Seed) \/ HandleGrant("JobRequest", 1)
  PROVE  Slots' = Seed
<1> USE DEF IInv
<1>1. ASSUME NEW type \in {"Ready", "JobRequest"}, NEW n \in Nat, HandleGrant(type, n)
      PROVE  /\ UNCHANGED <<credits, batch, toMiner>> /\ loop = "reading" /\ WireTaken /\ Wire[1].type = type
             /\ Cardinality(Coins(grants')) = Cardinality(Coins(grants)) + n
             /\ Count(pending, "Configure") = 0 /\ (Count(pending', "Configure") = 0)
  <2>1. /\ UNCHANGED <<credits, batch, toMiner, replies>> /\ Next_message(type) /\ grants' = Append(grants, n)
        /\ GoOn(rows, <<>>)
    BY <1>1 DEF HandleGrant, routerVars, minerVars
  <2>2. loop = "reading" /\ WireTaken /\ Wire[1].type = type
    BY <2>1, MessageRead, ReadTakes DEF InTypes
  <2>3. grants \in Seq(Nat)
    BY DEF Typed
  <2>4. pending = <<>>
    BY <2>2 DEF Greets
  <2>5. ~Has(pending', "Configure") /\ pending' \in Seq(OutMsgs)
    <3>1. pending' \in Seq(OutMsgs) /\ \A i \in DOMAIN pending' : pending'[i] = Shutdown
      BY <2>1, GoOnForms
    <3>2. QED
      BY <3>1, MsgTypes DEF Has
  <2>6. Count(pending', "Configure") = 0
    BY <2>5, CountType
  <2>7. Count(pending, "Configure") = 0
    BY <2>4, FS_EmptySet DEF Count
  <2>8. QED
    BY <2>1, <2>2, <2>3, <2>6, <2>7, CoinsAppend
<1>2. CASE HandleGrant("JobRequest", 1)
  <2>1. /\ UNCHANGED <<credits, batch, toMiner>> /\ loop = "reading" /\ WireTaken /\ Wire[1].type = "JobRequest"
        /\ Cardinality(Coins(grants')) = Cardinality(Coins(grants)) + 1
        /\ Count(pending, "Configure") = 0 /\ (Count(pending', "Configure") = 0)
    BY <1>1, <1>2
  <2>2. Count(Wire, "JobRequest") = Count(Wire', "JobRequest") + 1 /\ Count(Wire, "Ready") = Count(Wire', "Ready") + 0
    BY <2>1, WireCounts DEF Is
  <2>3. Loose' = Loose /\ Unseeded' = Unseeded
    <3>1. Count(toMiner', "Job") = Count(toMiner, "Job") /\ Count(toMiner', "Configure") = Count(toMiner, "Configure")
      BY <2>1
    <3>2. Unseeded' = Unseeded
      BY <2>1, <2>2, <3>1, SlotNumbers DEF Unseeded
    <3>3. Loose' = Loose
      BY <2>1, <2>2, <3>1, SlotNumbers DEF Loose
    <3>4. QED
      BY <3>2, <3>3
  <2>4. QED
    BY <2>1, <2>3, SlotMoves
<1>3. CASE HandleGrant("Ready", Seed)
  <2>1. /\ UNCHANGED <<credits, batch, toMiner>> /\ loop = "reading" /\ WireTaken /\ Wire[1].type = "Ready"
        /\ Cardinality(Coins(grants')) = Cardinality(Coins(grants)) + Seed
        /\ Count(pending, "Configure") = 0 /\ (Count(pending', "Configure") = 0)
    BY <1>1, <1>3, SlotTypes
  <2>2. Count(Wire, "JobRequest") = Count(Wire', "JobRequest") + 0 /\ Count(Wire, "Ready") = Count(Wire', "Ready") + 1
    BY <2>1, WireCounts DEF Is
  <2>3. Loose' = Loose + Seed /\ Unseeded = Unseeded' + 1 /\ Unseeded' \in Nat
    <3>1. Count(toMiner', "Job") = Count(toMiner, "Job") /\ Count(toMiner', "Configure") = Count(toMiner, "Configure")
      BY <2>1
    <3>2. QED
      BY <2>1, <2>2, <3>1, SlotNumbers DEF Loose, Unseeded
  <2>4. QED
    BY <2>1, <2>3, SlotMoves
<1>4. QED
  BY <1>2, <1>3

\* The other messages carry no slot; at most they wake the dispatcher.
LEMMA SlotsRead ==
  ASSUME DriveConstants, IInv, Typed', SlotsConserved, miner = "running",
         HandleCapabilities \/ HandleResult \/ HandleLeaseDone \/ HandleReject
  PROVE  Slots' = Seed
<1> USE DEF IInv
<1>1. PICK type \in {"Capabilities", "Result", "LeaseDone", "Reject"},
           r \in {rows, rows \o Unroutable(staged \ staged'), rows'},
           first \in {<<>>, <<Shutdown>>} : Next_message(type) /\ GoOn(r, first)
  BY DEF HandleCapabilities, HandleResult, HandleLeaseDone, HandleReject, GoOn
<1>2. /\ UNCHANGED <<credits, batch, toMiner, replies>>
      /\ grants' = grants \/ grants' = Append(grants, 0)
  BY DEF HandleCapabilities, HandleResult, HandleLeaseDone, HandleReject, routerVars, dispatchVars, minerVars
<1>3. loop = "reading" /\ WireTaken /\ Wire[1].type = type
  BY <1>1, <1>2, MessageRead, ReadTakes DEF InTypes
<1>4. Cardinality(Coins(grants')) = Cardinality(Coins(grants))
  <2>1. grants \in Seq(Nat)
    BY DEF Typed
  <2>2. Cardinality(Coins(Append(grants, 0))) = Cardinality(Coins(grants)) + 0
    BY <2>1, CoinsAppend
  <2>3. Cardinality(Coins(grants)) \in Nat
    BY SlotNumbers
  <2>4. CASE grants' = grants
    BY <2>4
  <2>5. CASE grants' = Append(grants, 0)
    BY ONLY <2>2, <2>3, <2>5
  <2>6. QED
    BY <1>2, <2>4, <2>5
<1>5. Count(pending', "Configure") = 0
  <2>1. pending' \in Seq(OutMsgs) /\ \A i \in DOMAIN pending' : pending'[i] = Shutdown
    BY <1>1, GoOnForms
  <2>2. ~Has(pending', "Configure")
    BY <2>1, MsgTypes DEF Has
  <2>3. QED
    BY <2>1, <2>2, CountType
<1>6. Count(pending, "Configure") = 0
  <2>1. pending = <<>>
    BY <1>3 DEF Greets
  <2>2. QED
    BY <2>1, FS_EmptySet DEF Count
<1>7. Count(Wire, "JobRequest") = Count(Wire', "JobRequest") + 0 /\ Count(Wire, "Ready") = Count(Wire', "Ready") + 0
  BY <1>3, WireCounts DEF Is
<1>8. Loose' = Loose /\ Unseeded' = Unseeded
  <2>1. Count(toMiner', "Job") = Count(toMiner, "Job") /\ Count(toMiner', "Configure") = Count(toMiner, "Configure")
    BY <1>2
  <2>2. QED
    BY <1>2, <1>4, <1>5, <1>6, <1>7, <2>1, SlotNumbers DEF Loose, Unseeded
<1>9. QED
  BY <1>3, <1>8, SlotMoves

\* The dispatcher turns credits into jobs.
LEMMA SlotsDispatch ==
  ASSUME DriveConstants, IInv, Typed', SlotsConserved, miner = "running", loop \in {"greeting", "reading"},
         Dispatch
  PROVE  Slots' = Seed
<1> DEFINE available == credits + Head(grants)
<1>1. PICK new \in SUBSET staged :
         /\ Popped(available, new)
         /\ credits' = available - Cardinality(new)
         /\ batch' = new
  BY DEF Dispatch
<1> USE DEF IInv
<1>2. batch = {} /\ grants # <<>> /\ grants' = Tail(grants) /\ UNCHANGED <<pending, toMiner, toCoord, replies>>
  BY DEF Dispatch, minerVars
<1>3. grants \in Seq(Nat) /\ Head(grants) \in Nat
  BY <1>2, TailEntries DEF Typed
<1>4. available = credits + Head(grants)
  OBVIOUS
<1> HIDE DEF available
<1>5. credits' = available - Cardinality(batch')
  BY <1>1
<1>6. Cardinality(Coins(grants)) = Head(grants) + Cardinality(Coins(grants'))
  BY <1>2, <1>3, CoinsTail
<1>7. Cardinality(batch) = 0
  BY <1>2, FS_EmptySet
<1>8. Wire' = Wire
  BY <1>2 DEF Wire
<1>9. Unseeded' = Unseeded
  BY <1>2, <1>8 DEF Unseeded
<1>10. Loose' = Loose
  <2>1. Count(toMiner', "Job") = Count(toMiner, "Job") /\ Count(Wire', "JobRequest") = Count(Wire, "JobRequest")
    BY <1>2, <1>8
  <2>2. /\ credits \in Nat /\ Cardinality(batch') \in Nat /\ Cardinality(Coins(grants')) \in Nat
        /\ Count(toMiner, "Job") \in Nat /\ Count(Wire, "JobRequest") \in Nat
    BY SlotNumbers
  <2> DEFINE c == Cardinality(batch')
             h == Head(grants)
             g == Cardinality(Coins(grants'))
  <2>3. /\ Loose = credits + (h + g) + 0 + Count(toMiner, "Job") + Count(Wire, "JobRequest")
        /\ Loose' = (available - c) + g + c + Count(toMiner, "Job") + Count(Wire, "JobRequest")
    BY <1>5, <1>6, <1>7, <2>1 DEF Loose
  <2>4. c \in Nat /\ h \in Nat /\ g \in Nat
    BY <1>3, <2>2
  <2>5. available = credits + h
    BY <1>4
  <2> HIDE DEF c, h, g
  <2>6. QED
    BY ONLY <2>2, <2>3, <2>4, <2>5
<1>11. QED
  BY <1>9, <1>10, SlotMoves

\* A job sent leaves the batch for the channel,
LEMMA SlotsJob ==
  ASSUME DriveConstants, IInv, Typed', SlotsConserved, miner = "running", loop \in {"greeting", "reading"},
         DispatchSends
  PROVE  Slots' = Seed
<1> USE DEF IInv
<1>1. PICK j \in batch : toMiner' = Sent(JobMsg("Job", j)) /\ batch' = batch \ {j}
  BY DEF DispatchSends
<1>2. UNCHANGED <<credits, grants, pending, toCoord, replies>>
  BY DEF DispatchSends, routerVars, minerVars
<1> DEFINE m == JobMsg("Job", j)
<1>3. m \in OutMsgs /\ m.type = "Job"
  <2>1. j \in Nat
    BY DEF Typed, DriveConstants
  <2>2. QED
    BY <2>1, MsgTypes DEF OutTypes
<1>4. toMiner' = Append(toMiner, m) /\ toMiner \in Seq(OutMsgs)
  BY <1>1 DEF Sent, Typed, OutMsgs
<1> HIDE DEF m
<1>5. Count(toMiner', "Job") = Count(toMiner, "Job") + 1 /\ Count(toMiner', "Configure") = Count(toMiner, "Configure") + 0
  BY <1>3, <1>4, CountMoves DEF Is
<1>6. Cardinality(batch') = Cardinality(batch) - 1
  BY <1>1, SlotTypes, FS_RemoveElement
<1>7. Wire' = Wire
  BY <1>2 DEF Wire
<1>8. Loose' = Loose /\ Unseeded' = Unseeded
  <2>1. /\ Count(Wire', "JobRequest") = Count(Wire, "JobRequest") /\ Count(Wire', "Ready") = Count(Wire, "Ready")
        /\ Cardinality(Coins(grants')) = Cardinality(Coins(grants))
        /\ Count(pending', "Configure") = Count(pending, "Configure")
    BY <1>2, <1>7
  <2>2. QED
    BY <1>2, <1>5, <1>6, <2>1, SlotNumbers DEF Loose, Unseeded
<1>9. QED
  BY <1>8, SlotMoves

\* and a message of the greeting, or a Shutdown, is no job.
LEMMA SlotsSent ==
  ASSUME DriveConstants, IInv, Typed', SlotsConserved, miner = "running", loop \in {"greeting", "reading"},
         LoopSends \/ \E t \in tasks : TaskEnds(t)
  PROVE  Slots' = Seed
<1> USE DEF IInv
<1>1. UNCHANGED <<credits, grants, batch, toCoord, replies>>
  BY DEF LoopSends, TaskEnds, routerVars, dispatchVars, minerVars
<1>2. Wire' = Wire
  BY <1>1 DEF Wire
<1>3. toMiner \in Seq(OutMsgs) /\ pending \in Seq(OutMsgs)
  BY DEF Typed, OutMsgs
<1>4. /\ Count(toMiner', "Job") = Count(toMiner, "Job")
      /\ Count(pending', "Configure") + Count(toMiner', "Configure") =
         Count(pending, "Configure") + Count(toMiner, "Configure")
  <2>1. CASE LoopSends
    <3>1. pending # <<>> /\ pending' = Tail(pending) /\ toMiner' = Append(toMiner, Head(pending))
      BY <2>1 DEF LoopSends, Sent
    <3>2. Head(pending) \in OutMsgs /\ Head(pending) = pending[1] /\ 1 \in DOMAIN pending
      BY <1>3, <3>1, TailEntries
    <3>3. Head(pending).type # "Job"
      BY <3>2 DEF Greets
    <3> DEFINE h == Head(pending)
    <3> HIDE DEF h
    <3>4. /\ Count(toMiner', "Job") = Count(toMiner, "Job") + Is(h, "Job")
          /\ Count(toMiner', "Configure") = Count(toMiner, "Configure") + Is(h, "Configure")
      BY <1>3, <3>1, <3>2, CountMoves DEF h
    <3>5. Count(pending, "Configure") = Count(pending', "Configure") + Is(h, "Configure")
      BY <1>3, <3>1, CountMoves DEF h
    <3>6. Is(h, "Job") = 0 /\ Is(h, "Configure") \in {0, 1}
      BY <3>3 DEF Is, h
    <3>7. QED
      BY <3>4, <3>5, <3>6, SlotNumbers
  <2>2. CASE \E t \in tasks : TaskEnds(t)
    <3>1. UNCHANGED pending /\ toMiner' \in {toMiner, Append(toMiner, Shutdown)}
      BY <2>2 DEF TaskEnds, Sent
    <3>2. Shutdown \in OutMsgs /\ Shutdown.type = "Shutdown"
      BY MsgTypes
    <3>3. /\ Count(Append(toMiner, Shutdown), "Job") = Count(toMiner, "Job") + 0
          /\ Count(Append(toMiner, Shutdown), "Configure") = Count(toMiner, "Configure") + 0
      BY <1>3, <3>2, CountMoves DEF Is
    <3>4. CASE toMiner' = toMiner
      BY <3>1, <3>4
    <3>5. CASE toMiner' = Append(toMiner, Shutdown)
      <4>1. /\ Count(toMiner', "Job") = Count(toMiner, "Job") + 0
            /\ Count(toMiner', "Configure") = Count(toMiner, "Configure") + 0
            /\ Count(pending', "Configure") = Count(pending, "Configure")
        BY <3>1, <3>3, <3>5
      <4>2. QED
        BY <4>1, SlotNumbers
    <3>6. QED
      BY <3>1, <3>4, <3>5
  <2>3. QED
    BY <2>1, <2>2
<1>5. Loose' = Loose /\ Unseeded' = Unseeded
  <2>1. /\ Count(Wire', "JobRequest") = Count(Wire, "JobRequest") /\ Count(Wire', "Ready") = Count(Wire, "Ready")
        /\ Cardinality(Coins(grants')) = Cardinality(Coins(grants)) /\ Cardinality(batch') = Cardinality(batch)
    BY <1>1, <1>2
  <2>2. QED
    BY <1>1, <1>4, <2>1, SlotNumbers DEF Loose, Unseeded
<1>6. QED
  BY <1>5, SlotMoves

\* The miner answers a job with one request, and Configure with Ready.
LEMMA SlotsAnswer ==
  ASSUME DriveConstants, IInv, Typed', SlotsConserved, miner = "running", loop \in {"greeting", "reading"},
         MinerReceives
  PROVE  Slots' = Seed
<1> USE DEF IInv
<1> DEFINE m == Head(toMiner)
<1>1. /\ replies = <<>> /\ toMiner # <<>> /\ toMiner' = Tail(toMiner)
      /\ UNCHANGED <<credits, grants, batch, pending, toCoord>>
      /\ m.type = "Configure" => replies' = <<Msg("Ready")>>
      /\ m.type = "Job" => replies' = Answer(m.job)
      /\ m.type \notin {"Configure", "Job"} => replies' = <<>>
  BY DEF MinerReceives, routerVars, dispatchVars
<1>2. toMiner \in Seq(OutMsgs) /\ toCoord \in Seq(InMsgs) /\ replies' \in Seq(InMsgs)
  BY DEF Typed, OutMsgs, InMsgs
<1>3. m = toMiner[1] /\ 1 \in DOMAIN toMiner
  BY <1>1, <1>2, TailEntries
<1>4. m.type = "Job" => m.job \in Jobs
  BY <1>3 DEF JobsSent, Named
<1>5. Count(toMiner, "Job") = Count(toMiner', "Job") + Is(m, "Job")
      /\ Count(toMiner, "Configure") = Count(toMiner', "Configure") + Is(m, "Configure")
  BY <1>1, <1>2, CountMoves
<1>6. Wire = toCoord /\ Wire' = toCoord \o replies'
  BY <1>1, <1>2 DEF Wire
<1>7. /\ Count(Wire', "JobRequest") = Count(Wire, "JobRequest") + Count(replies', "JobRequest")
      /\ Count(Wire', "Ready") = Count(Wire, "Ready") + Count(replies', "Ready")
  BY <1>2, <1>6, CountConcat
<1> HIDE DEF m
<1>8. Count(replies', "JobRequest") = Is(m, "Job") /\ Count(replies', "Ready") = Is(m, "Configure")
  <2>1. CASE m.type = "Job"
    BY <1>1, <1>4, <2>1, AnswerCounts DEF Is
  <2>2. CASE m.type = "Configure"
    <3>1. Msg("Ready") \in InMsgs /\ Msg("Ready").type = "Ready"
      BY MsgTypes DEF InTypes
    <3>2. Count(<<Msg("Ready")>>, "JobRequest") = 0 /\ Count(<<Msg("Ready")>>, "Ready") = 1
      BY <3>1, CountOne DEF Is
    <3>3. QED
      BY <1>1, <2>2, <3>2 DEF Is
  <2>3. CASE m.type \notin {"Configure", "Job"}
    <3>1. replies' = <<>>
      BY <1>1, <2>3
    <3>2. Count(<<>>, "JobRequest") = 0 /\ Count(<<>>, "Ready") = 0
      BY FS_EmptySet DEF Count
    <3>3. QED
      BY <2>3, <3>1, <3>2 DEF Is
  <2>4. QED
    BY <2>1, <2>2, <2>3
<1>9. Is(m, "Job") \in {0, 1} /\ Is(m, "Configure") \in {0, 1}
  BY DEF Is
<1>10. Loose' = Loose /\ Unseeded' = Unseeded
  <2>1. /\ Cardinality(Coins(grants')) = Cardinality(Coins(grants)) /\ Cardinality(batch') = Cardinality(batch)
        /\ Count(pending', "Configure") = Count(pending, "Configure") /\ credits' = credits
    BY <1>1
  <2>2. /\ Count(Wire', "JobRequest") = Count(Wire, "JobRequest") + Is(m, "Job")
        /\ Count(Wire', "Ready") = Count(Wire, "Ready") + Is(m, "Configure")
    BY <1>7, <1>8
  <2>3. QED
    BY <1>5, <1>9, <2>1, <2>2, SlotNumbers DEF Loose, Unseeded
<1>11. QED
  BY <1>10, SlotMoves

\* The handshake promises the seed: one Configure is about to be sent.
LEMMA SlotsHandshake ==
  ASSUME DriveConstants, IInv, Typed', Quiet, Handshake, loop' # "ended"
  PROVE  Slots' = Seed
<1>1. /\ loop = "hello" /\ pending' = Greeting /\ toCoord # <<>> /\ toCoord' = Tail(toCoord)
      /\ UNCHANGED <<credits, grants, batch, toMiner, replies>>
  BY DEF Handshake, dispatchVars, minerVars
<1> USE DEF IInv
<1>2. credits' = 0 /\ grants' = <<>> /\ batch' = {} /\ toMiner' = <<>> /\ ~Has(Wire, "JobRequest") /\ ~Has(Wire, "Ready")
  BY <1>1 DEF Quiet
<1>3. WireTaken /\ Wire \in Seq(InMsgs)
  BY <1>1, ReadTakes DEF Typed, InMsgs, Wire
<1>4. Count(Wire, "JobRequest") = 0 /\ Count(Wire, "Ready") = 0
  BY <1>2, <1>3, CountType
<1>5. Count(Wire', "JobRequest") = 0 /\ Count(Wire', "Ready") = 0
  <2>1. /\ Count(Wire, "JobRequest") = Count(Wire', "JobRequest") + Is(Wire[1], "JobRequest")
        /\ Count(Wire, "Ready") = Count(Wire', "Ready") + Is(Wire[1], "Ready")
    BY <1>3, WireCounts
  <2>2. Is(Wire[1], "JobRequest") \in {0, 1} /\ Is(Wire[1], "Ready") \in {0, 1}
    BY DEF Is
  <2>3. Count(Wire', "JobRequest") \in Nat /\ Count(Wire', "Ready") \in Nat
    BY SlotNumbers
  <2>4. QED
    BY <1>4, <2>1, <2>2, <2>3
<1>6. Cardinality(Coins(grants')) = 0 /\ Cardinality(batch') = 0
  <2>1. Coins(<<>>) = {}
    BY DEF Coins
  <2>2. QED
    BY <1>2, <2>1, FS_EmptySet
<1>7. Count(toMiner', "Job") = 0 /\ Count(toMiner', "Configure") = 0
  BY <1>2, FS_EmptySet DEF Count
<1>8. Count(pending', "Configure") = 1
  BY <1>1, GreetingCounts
<1>9. Loose' = 0 /\ Unseeded' = 1
  BY <1>2, <1>5, <1>6, <1>7, <1>8 DEF Loose, Unseeded
<1>10. Slots' = Loose' + Seed * Unseeded' /\ Seed \in Nat
  BY SlotTypesNext, SlotTypes
<1>11. QED
  BY <1>9, <1>10

\* Steps that leave every count alone.
LEMMA SlotsKept ==
  ASSUME DriveConstants, IInv, Typed', SlotsConserved, miner = "running", loop \in {"greeting", "reading"},
         UNCHANGED <<credits, grants, batch, toMiner, pending>>, WireKept \/ MinerNarrows
  PROVE  Slots' = Seed
<1> USE DEF IInv
<1>1. Count(Wire', "JobRequest") = Count(Wire, "JobRequest") /\ Count(Wire', "Ready") = Count(Wire, "Ready")
  <2>1. CASE WireKept
    BY <2>1 DEF WireKept
  <2>2. CASE MinerNarrows
    <3> DEFINE m == Msg("Capabilities")
    <3>1. replies = <<>> /\ toCoord' = Append(toCoord, m) /\ UNCHANGED replies
      BY <2>2 DEF MinerNarrows
    <3>2. m \in InMsgs /\ m.type = "Capabilities"
      BY MsgTypes DEF InTypes
    <3> HIDE DEF m
    <3>3. Wire' = Append(Wire, m) /\ Wire \in Seq(InMsgs)
      BY <3>1, <3>2, WireGrows DEF Wire
    <3>4. Count(Wire', "JobRequest") = Count(Wire, "JobRequest") + 0 /\ Count(Wire', "Ready") = Count(Wire, "Ready") + 0
      BY <3>2, <3>3, CountMoves DEF Is
    <3>5. QED
      BY <3>4, SlotNumbers
  <2>3. QED
    BY <2>1, <2>2
<1>2. Loose' = Loose /\ Unseeded' = Unseeded
  BY <1>1 DEF Loose, Unseeded
<1>3. QED
  BY <1>2, SlotMoves

\* What the slots rest on is kept,
LEMMA QuietNext ==
  ASSUME DriveConstants, IInv, Quiet, [Next]_vars
  PROVE  Quiet'
<1> USE DEF IInv
<1>1. miner' = "dialing" => loop' = "hello"
  <2>1. ASSUME miner' = "dialing" PROVE miner = "dialing"
    BY <2>1 DEF Next, Harness, Miner, Trouble, Report, vars, minerVars, Handshake, LoopSends, Greeted, LoopCloses,
      StreamEnds, HandleGrant, HandleCapabilities, HandleResult, HandleLeaseDone, HandleReject,
      HandleFatal, Dispatch, DispatchSends, TaskTakes, TaskRecords, TaskPanics, TaskEnds,
      MinerDials, MinerReceives, MinerReplies, MinerRepliesInVain, MinerLeaves, MinerDrains, MinerExits,
      MinerGivesUp, MinerNarrows, MinerDies
  <2>2. ASSUME miner = "dialing" PROVE loop = "hello" /\ toCoord = <<>>
    BY <2>2 DEF Quiet, Fits
  <2>3. ASSUME loop = "hello", toCoord = <<>>, miner = "dialing" PROVE loop' = "hello"
    BY <2>3 DEF Next, Harness, Miner, Trouble, Report, vars, minerVars, Handshake, LoopSends, Greeted, LoopCloses,
      StreamEnds, HandleGrant, HandleCapabilities, HandleResult, HandleLeaseDone, HandleReject,
      HandleFatal, Dispatch, DispatchSends, TaskTakes, TaskRecords, TaskPanics, TaskEnds, Next_message,
      MinerDials, MinerReceives, MinerReplies, MinerRepliesInVain, MinerLeaves, MinerDrains, MinerExits,
      MinerGivesUp, MinerNarrows, MinerDies
  <2>4. QED
    BY <2>1, <2>2, <2>3
<1>2. ASSUME loop' = "hello"
      PROVE  /\ credits' = 0 /\ grants' = <<>> /\ batch' = {} /\ tasks' = {} /\ toMiner' = <<>>
             /\ ~Has(Wire', "JobRequest") /\ ~Has(Wire', "Ready")
  <2>1. /\ loop = "hello" /\ credits = 0 /\ grants = <<>> /\ batch = {} /\ tasks = {} /\ toMiner = <<>>
        /\ ~Has(Wire, "JobRequest") /\ ~Has(Wire, "Ready")
    <3>1. loop = "hello"
      BY <1>2 DEF Next, Harness, Miner, Trouble, Report, vars, Handshake, LoopSends, Greeted, LoopCloses,
        StreamEnds, HandleGrant, HandleCapabilities, HandleResult, HandleLeaseDone, HandleReject,
        HandleFatal, Dispatch, DispatchSends, TaskTakes, TaskRecords, TaskPanics, TaskEnds, GoOn, Ended,
        MinerDials, MinerReceives, MinerReplies, MinerRepliesInVain, MinerLeaves, MinerDrains, MinerExits,
        MinerGivesUp, MinerNarrows, MinerDies
    <3>2. QED
      BY <3>1 DEF Quiet
  <2>2. /\ \/ MinerDials \/ MinerReplies \/ MinerLeaves \/ MinerExits \/ MinerGivesUp
           \/ MinerNarrows \/ (\E lost \in BOOLEAN : MinerDies(lost)) \/ Report \/ UNCHANGED vars
        /\ UNCHANGED <<credits, grants, batch, tasks, toMiner>>
    BY <1>2, <2>1 DEF Next, Harness, Miner, Trouble, Report, vars, Handshake, LoopSends, Greeted, LoopCloses,
        StreamEnds, HandleGrant, HandleCapabilities, HandleResult, HandleLeaseDone, HandleReject,
        HandleFatal, Dispatch, DispatchSends, Next_message, Ended, routerVars, dispatchVars,
        MinerDials, MinerReceives, MinerReplies, MinerRepliesInVain, MinerLeaves, MinerDrains, MinerExits,
        MinerGivesUp, MinerNarrows, MinerDies
  <2>3. Wire \in Seq(InMsgs)
    BY DEF Typed, InMsgs, Wire
  <2>4. ~Has(Wire', "JobRequest") /\ ~Has(Wire', "Ready")
    <3>1. CASE WireKept
      BY <2>1, <3>1 DEF WireKept
    <3>2. ASSUME NEW t \in {"Hello", "Fatal", "Capabilities"}, replies = <<>>, UNCHANGED replies,
                 toCoord' = Append(toCoord, Msg(t))
          PROVE  ~Has(Wire', "JobRequest") /\ ~Has(Wire', "Ready")
      <4> DEFINE m == Msg(t)
      <4>1. m \in InMsgs /\ m.type = t
        BY MsgTypes DEF InTypes
      <4> HIDE DEF m
      <4>2. Wire' = Append(Wire, m)
        BY <3>2, <4>1, WireGrows DEF Wire, m
      <4>3. QED
        BY <2>1, <2>3, <4>1, <4>2, HasNext
    <3>3. CASE \E lost \in BOOLEAN : MinerDies(lost)
      <4>1. Wire' = <<>> \/ (Wire' = toCoord)
        BY <3>3 DEF MinerDies, Wire, Typed
      <4>2. \A type : Has(toCoord, type) => Has(Wire, type)
        <5>1. /\ Len(toCoord) \in Nat /\ Len(replies) \in Nat
              /\ DOMAIN toCoord = 1 .. Len(toCoord) /\ DOMAIN Wire = 1 .. Len(toCoord) + Len(replies)
              /\ \A i \in 1 .. Len(toCoord) : Wire[i] = toCoord[i]
          BY ConcatEntries DEF Typed, Wire
        <5>2. QED
          BY <5>1 DEF Has
      <4>3. ~Has(<<>>, "JobRequest") /\ ~Has(<<>>, "Ready")
        BY DEF Has
      <4>4. QED
        BY <2>1, <4>1, <4>2, <4>3
    <3>4. CASE MinerDials
      BY <3>2, <3>4 DEF MinerDials, Fits
    <3>5. CASE MinerGivesUp
      BY <3>2, <3>5 DEF MinerGivesUp
    <3>6. CASE MinerNarrows
      BY <3>2, <3>6 DEF MinerNarrows
    <3>7. CASE MinerReplies
      <4>1. Wire' = Wire
        BY <3>7, WireMoves DEF MinerReplies, Wire
      <4>2. QED
        BY <3>1, <4>1 DEF WireKept
    <3>8. CASE MinerLeaves \/ MinerExits \/ Report \/ UNCHANGED vars
      <4>1. UNCHANGED <<toCoord, replies>>
        BY <3>8 DEF MinerLeaves, MinerExits, Report, vars, minerVars
      <4>2. QED
        BY <3>1, <4>1 DEF WireKept, Wire
    <3>9. QED
      BY <2>2, <3>3, <3>4, <3>5, <3>6, <3>7, <3>8
  <2>5. QED
    BY <2>1, <2>2, <2>4
<1>3. QED
  BY <1>1, <1>2 DEF Quiet

\* and no step leaks or invents a slot.
LEMMA SlotsNext ==
  ASSUME DriveConstants, IInv, IInv', Quiet, SlotsConserved, [Next]_vars
  PROVE  SlotsConserved'
<1> SUFFICES ASSUME loop' \in {"greeting", "reading"}, miner' = "running"
             PROVE  Slots' = Seed
  BY DEF SlotsConserved
<1>0. Typed' /\ Typed /\ (loop \in {"greeting", "reading"} => loop # "hello" /\ miner # "dialing")
  BY DEF IInv, Quiet
<1>1. CASE Handshake
  BY <1>0, <1>1, SlotsHandshake
<1>2. CASE HandleGrant("Ready", Seed) \/ HandleGrant("JobRequest", 1)
  <2>1. miner = "running"
    BY <1>2 DEF HandleGrant, minerVars
  <2>2. QED
    BY <1>0, <1>2, <2>1, SlotsGrant
<1>3. CASE HandleCapabilities \/ HandleResult \/ HandleLeaseDone \/ HandleReject
  <2>1. miner = "running"
    BY <1>3 DEF HandleCapabilities, HandleResult, HandleLeaseDone, HandleReject, minerVars
  <2>2. QED
    BY <1>0, <1>3, <2>1, SlotsRead
<1>4. CASE Dispatch
  <2>1. UNCHANGED <<loop, miner>>
    BY <1>4 DEF Dispatch, minerVars
  <2>2. QED
    BY <1>0, <1>4, <2>1, SlotsDispatch
<1>5. CASE DispatchSends
  <2>1. UNCHANGED <<loop, miner>>
    BY <1>5 DEF DispatchSends, minerVars
  <2>2. QED
    BY <1>0, <1>5, <2>1, SlotsJob
<1>6. CASE LoopSends \/ \E t \in tasks : TaskEnds(t)
  <2>1. UNCHANGED <<loop, miner>>
    BY <1>6 DEF LoopSends, TaskEnds, minerVars
  <2>2. QED
    BY <1>0, <1>6, <2>1, SlotsSent
<1>7. CASE MinerReceives
  <2>1. miner = "running" /\ UNCHANGED loop
    BY <1>7 DEF MinerReceives
  <2>2. QED
    BY <1>0, <1>7, <2>1, SlotsAnswer
<1>8. CASE Greeted
  <2>1. loop = "greeting" /\ UNCHANGED <<miner, credits, grants, batch, toMiner, toCoord, replies, pending>>
    BY <1>8 DEF Greeted, routerVars, dispatchVars, minerVars
  <2>2. QED
    BY <1>0, <2>1, SlotsKept DEF WireKept, Wire
<1>9. CASE MinerNarrows
  <2>1. UNCHANGED <<loop, miner, credits, grants, batch, toMiner, pending>>
    BY <1>9 DEF MinerNarrows, routerVars, dispatchVars
  <2>2. QED
    BY <1>0, <1>9, <2>1, SlotsKept
<1>10. CASE MinerReplies
  <2>1. UNCHANGED <<loop, miner, credits, grants, batch, toMiner, pending>>
    BY <1>10 DEF MinerReplies, routerVars, dispatchVars
  <2>2. WireKept
    BY <1>0, <1>10, WireMoves DEF MinerReplies, WireKept, Wire
  <2>3. QED
    BY <1>0, <2>1, <2>2, SlotsKept
<1>11. CASE \/ \E t \in tasks : TaskTakes(t) \/ (\E p \in BOOLEAN : TaskRecords(t, p)) \/ TaskPanics(t)
            \/ Report \/ UNCHANGED vars
  <2>1. UNCHANGED <<loop, miner, credits, grants, batch, toMiner, pending, toCoord, replies>>
    BY <1>11 DEF TaskTakes, TaskRecords, TaskPanics, Report, vars, routerVars, dispatchVars, minerVars
  <2>2. QED
    BY <1>0, <2>1, SlotsKept DEF WireKept, Wire
<1>12. CASE MinerDials
  <2>1. loop = "hello" /\ loop' = loop
    BY <1>12 DEF MinerDials, Quiet
  <2>2. QED
    BY <2>1
<1>13. CASE \/ LoopCloses \/ StreamEnds \/ HandleFatal \/ (\E f \in BOOLEAN : MinerRepliesInVain(f))
            \/ MinerLeaves \/ MinerDrains \/ MinerExits \/ MinerGivesUp \/ \E lost \in BOOLEAN : MinerDies(lost)
  BY <1>13 DEF LoopCloses, StreamEnds, HandleFatal, Ended, MinerRepliesInVain, MinerLeaves, MinerDrains,
     MinerExits, MinerGivesUp, MinerDies, minerVars
<1>14. QED
  BY <1>1, <1>2, <1>3, <1>4, <1>5, <1>6, <1>7, <1>8, <1>9, <1>10, <1>11, <1>12, <1>13
     DEF Next, Harness, Miner, Trouble

\* However small the channels and however deep the pipeline: while both ends
\* run, dispatches, answers and refunds add up to the seeded depth
\* (dispatch_jobs, reject_and_replace).
THEOREM NoSlotLeaks == Spec => []SlotsConserved
<1>1. ASSUME Init PROVE Quiet /\ SlotsConserved
  <2>1. Wire = <<>> /\ \A type : ~Has(<<>>, type)
    BY <1>1 DEF Init, Wire, Has
  <2>2. QED
    BY <1>1, <2>1 DEF Init, Quiet, SlotsConserved
<1>2. IInv /\ IInv' /\ (Quiet /\ SlotsConserved) /\ [Next]_vars => (Quiet /\ SlotsConserved)'
  BY DriveConstants, QuietNext, SlotsNext
<1>3. QED
  BY <1>1, <1>2, Invariance, PTL DEF Spec
-----------------------------------------------------------------------------
(***************************************************************************)
(* No job is lost                                                          *)
(***************************************************************************)

\* A run without a fault, over distinct ids and with the right token,
Sound == ~fault /\ Distinct /\ token

\* while both ends are up.
Live == Sound /\ loop # "ended" /\ miner \in {"dialing", "running"}

\* Credits are left over only when the queue is empty.
Spare == credits > 0 => staged = {}

\* The miner is registered before anything is sent to it, and what stops it
\* says that the run is complete.
Known ==
  /\ loop \in {"greeting", "reading", "closing"} => registered
  /\ Has(toMiner, "Shutdown") => shut
  /\ loop = "closing" => Complete(rows)

\* The miner reports a winner before the end of its lease.
Followed(q, kd) ==
  \A i \in DOMAIN q : q[i].type = "Result" /\ kd[q[i].job] = "winner" =>
    \E k \in DOMAIN q : i < k /\ q[k].type = "LeaseDone" /\ q[k].job = q[i].job

Everywhere == staged \union batch \union OutJobs \union WireJobs \union TaskJobs \union RowJobs

\* Every job is somewhere; it is in flight from its dispatch to the moment its
\* outcome is taken up.
Placed ==
  /\ Jobs \subseteq Everywhere
  /\ batch \union OutJobs \union WireJobs \subseteq inflight
  /\ \A t \in tasks : t.step = "spawned" => t.job \in inflight
  /\ Followed(Wire, kind)

\* A session ends only when every job has its row.
Finished ==
  Sound /\ (loop = "ended" \/ miner \in {"draining", "exited"}) => registered /\ Complete(rows)

Delivers == Spare /\ Known /\ (Live => Placed) /\ Finished /\ NothingLost

\* Nothing repairs a run,
LEMMA SoundBefore ==
  ASSUME DriveConstants, IInv, [Next]_vars
  PROVE  /\ Sound' => Sound
         /\ registered => registered'
         /\ loop = "ended" => loop' = "ended"
         /\ miner \in {"draining", "exited"} => miner' \in {"draining", "exited"}
<1>1. Sound' => Sound
  BY InputsKept, HistoryKept DEF Sound, Distinct
<1>2. registered => registered'
  BY DEF Next, Harness, Miner, Trouble, Report, vars, routerVars, Handshake, LoopSends, Greeted, LoopCloses,
    StreamEnds, HandleGrant, HandleCapabilities, HandleResult, HandleLeaseDone, HandleReject,
    HandleFatal, Dispatch, DispatchSends, TaskTakes, TaskRecords, TaskPanics, TaskEnds,
    MinerDials, MinerReceives, MinerReplies, MinerRepliesInVain, MinerLeaves, MinerDrains, MinerExits,
    MinerGivesUp, MinerNarrows, MinerDies
<1>3. loop = "ended" => loop' = "ended"
  BY DEF Next, Harness, Miner, Trouble, Report, vars, Handshake, LoopSends, Greeted, LoopCloses,
    StreamEnds, HandleGrant, HandleCapabilities, HandleResult, HandleLeaseDone, HandleReject,
    HandleFatal, Dispatch, DispatchSends, TaskTakes, TaskRecords, TaskPanics, TaskEnds, Next_message,
    MinerDials, MinerReceives, MinerReplies, MinerRepliesInVain, MinerLeaves, MinerDrains, MinerExits,
    MinerGivesUp, MinerNarrows, MinerDies
<1>4. miner \in {"draining", "exited"} => miner' \in {"draining", "exited"}
  BY DEF Next, Harness, Miner, Trouble, Report, vars, minerVars, Handshake, LoopSends, Greeted, LoopCloses,
    StreamEnds, HandleGrant, HandleCapabilities, HandleResult, HandleLeaseDone, HandleReject,
    HandleFatal, Dispatch, DispatchSends, TaskTakes, TaskRecords, TaskPanics, TaskEnds,
    MinerDials, MinerReceives, MinerReplies, MinerRepliesInVain, MinerLeaves, MinerDrains, MinerExits,
    MinerGivesUp, MinerNarrows, MinerDies
<1>5. QED
  BY <1>1, <1>2, <1>3, <1>4

\* and these are the steps that keep it going.
LEMMA LiveSteps ==
  ASSUME DriveConstants, IInv, [Next]_vars, Live'
  PROVE  /\ Live /\ UNCHANGED <<kind, id, token, fault>>
         /\ \/ Handshake \/ HandleCapabilities
            \/ HandleResult \/ HandleLeaseDone \/ HandleReject
            \/ Dispatch \/ DispatchSends
            \/ \E t \in tasks : TaskTakes(t) \/ (\E p \in BOOLEAN : TaskRecords(t, p)) \/ TaskEnds(t)
            \/ MinerReceives
            \/ LoopSends \/ Greeted
            \/ HandleGrant("Ready", Seed) \/ HandleGrant("JobRequest", 1)
            \/ MinerDials \/ MinerReplies \/ MinerNarrows
            \/ Report \/ UNCHANGED vars
<1>1. Sound /\ loop # "ended" /\ miner \in {"dialing", "running"} /\ UNCHANGED <<kind, id, token>>
  <2>1. miner \in {"dialing", "running", "draining", "exited"} /\ Sound'
    BY DEF IInv, Typed, Live
  <2>2. miner' \in {"dialing", "running"} /\ loop' # "ended"
    BY DEF Live
  <2>3. QED
    BY <2>1, <2>2, SoundBefore, InputsKept
<1>2. fault' = fault
  <2>1. ~fault /\ ~fault' /\ fault \in BOOLEAN
    BY <1>1 DEF Live, Sound, IInv, Typed
  <2>2. UNCHANGED fault \/ fault' = TRUE
    BY DEF Next, Harness, Miner, Trouble, Report, vars, Handshake, LoopSends, Greeted, LoopCloses,
      StreamEnds, HandleGrant, HandleCapabilities, HandleResult, HandleLeaseDone, HandleReject,
      HandleFatal, Dispatch, DispatchSends, TaskTakes, TaskRecords, TaskPanics, TaskEnds,
      MinerDials, MinerReceives, MinerReplies, MinerRepliesInVain, MinerLeaves, MinerDrains, MinerExits,
      MinerGivesUp, MinerNarrows, MinerDies
  <2>3. QED
    BY <2>1, <2>2
<1>3. ASSUME \/ LoopCloses \/ StreamEnds \/ HandleFatal \/ \E f \in BOOLEAN : MinerRepliesInVain(f)
      PROVE  FALSE
  BY <1>1, <1>3 DEF LoopCloses, StreamEnds, HandleFatal, MinerRepliesInVain, Ended, Live
<1>4. ASSUME MinerLeaves \/ MinerDrains \/ MinerExits
      PROVE  FALSE
  BY <1>1, <1>4 DEF MinerLeaves, MinerDrains, MinerExits, Live, minerVars
<1>5. ASSUME MinerGivesUp \/ (\E lost \in BOOLEAN : MinerDies(lost)) \/ \E t \in tasks : TaskPanics(t)
      PROVE  FALSE
  BY <1>1, <1>5 DEF MinerGivesUp, MinerDies, TaskPanics, Live, Sound
<1>6. QED
  BY <1>1, <1>2, <1>3, <1>4, <1>5 DEF Next, Harness, Miner, Trouble, Live

\* The dispatcher keeps a credit only when it has no job for it.
LEMMA SpareNext ==
  ASSUME DriveConstants, IInv, Spare, [Next]_vars
  PROVE  Spare'
<1>1. CASE Dispatch
  <2> DEFINE available == credits + Head(grants)
  <2>1. PICK new \in SUBSET staged :
           /\ Popped(available, new)
           /\ credits' = available - Cardinality(new)
           /\ staged' = staged \ new
    BY <1>1 DEF Dispatch
  <2>2. available \in Nat
    <3>1. credits \in Nat /\ grants \in Seq(Nat) /\ grants # <<>>
      BY <1>1 DEF IInv, Typed, Dispatch
    <3>2. Head(grants) \in Nat
      BY <3>1, TailEntries
    <3>3. QED
      BY <3>1, <3>2
  <2> HIDE DEF available
  <2>3. IsFiniteSet(staged)
    BY SlotTypes DEF IInv
  <2>4. Cardinality(new) = IF available < Cardinality(staged) THEN available ELSE Cardinality(staged)
    BY <2>1 DEF Popped
  <2>5. CASE available < Cardinality(staged)
    BY <2>1, <2>2, <2>4, <2>5 DEF Spare
  <2>6. CASE ~(available < Cardinality(staged))
    <3>1. Cardinality(new) = Cardinality(staged)
      BY <2>4, <2>6
    <3>2. new = staged
      BY <2>3, <3>1, FS_Subset
    <3>3. QED
      BY <2>1, <3>2 DEF Spare
  <2>7. QED
    BY <2>5, <2>6
<1>2. CASE ~Dispatch
  <2>1. UNCHANGED credits /\ staged' \subseteq staged
    BY <1>2 DEF Next, Harness, Miner, Trouble, Report, vars, routerVars, Handshake, LoopSends, Greeted, LoopCloses,
      StreamEnds, HandleGrant, HandleCapabilities, HandleResult, HandleLeaseDone, HandleReject,
      HandleFatal, DispatchSends, TaskTakes, TaskRecords, TaskPanics, TaskEnds,
      MinerDials, MinerReceives, MinerReplies, MinerRepliesInVain, MinerLeaves, MinerDrains, MinerExits,
      MinerGivesUp, MinerNarrows, MinerDies
  <2>2. QED
    BY <2>1 DEF Spare
<1>3. QED
  BY <1>1, <1>2

\* The channel holds a Shutdown only after one was sent.
LEMMA ShutdownSent ==
  ASSUME DriveConstants, IInv, Has(toMiner, "Shutdown") => shut, [Next]_vars
  PROVE  Has(toMiner', "Shutdown") => shut'
<1> USE DEF IInv
<1>1. toMiner \in Seq(OutMsgs) /\ pending \in Seq(OutMsgs)
  BY DEF Typed, OutMsgs
<1>2. shut => shut'
  <2>1. shut' # shut => shut' = TRUE
    BY StopsComplete
  <2>2. QED
    BY <2>1
<1>3. ASSUME NEW m \in OutMsgs, toMiner' = Append(toMiner, m), m.type = "Shutdown" => shut'
      PROVE  Has(toMiner', "Shutdown") => shut'
  <2>1. Has(Append(toMiner, m), "Shutdown") => Has(toMiner, "Shutdown") \/ m.type = "Shutdown"
    BY <1>1, AppendEntries DEF Has
  <2>2. QED
    BY <1>2, <1>3, <2>1
<1>4. ASSUME toMiner' = toMiner PROVE Has(toMiner', "Shutdown") => shut'
  BY <1>2, <1>4
<1>5. CASE LoopSends
  <2>1. loop \in {"greeting", "closing"} /\ pending # <<>> /\ toMiner' = Sent(Head(pending))
        /\ shut' = (shut \/ Head(pending) = Shutdown)
    BY <1>5 DEF LoopSends
  <2>2. Head(pending) \in OutMsgs /\ Head(pending) = pending[1] /\ 1 \in DOMAIN pending
    BY <1>1, <2>1, TailEntries
  <2>3. Head(pending).type = "Shutdown" => Head(pending) = Shutdown
    BY <2>1, <2>2 DEF Greets, Has
  <2>4. toMiner' = toMiner \/ toMiner' = Append(toMiner, Head(pending))
    BY <2>1 DEF Sent
  <2>5. QED
    BY <1>3, <1>4, <2>1, <2>2, <2>3, <2>4
<1>6. CASE \E t \in tasks : TaskEnds(t)
  <2>1. toMiner' = toMiner \/ (toMiner' = Append(toMiner, Shutdown) /\ shut')
    BY <1>6 DEF TaskEnds, Sent
  <2>2. QED
    BY <1>3, <1>4, <2>1, MsgTypes
<1>7. CASE DispatchSends
  <2>1. PICK j \in batch : toMiner' = Sent(JobMsg("Job", j))
    BY <1>7 DEF DispatchSends
  <2>2. j \in Nat
    BY DEF Typed, DriveConstants
  <2>3. JobMsg("Job", j) \in OutMsgs /\ JobMsg("Job", j).type = "Job"
    BY <2>2, MsgTypes DEF OutTypes
  <2>4. toMiner' = toMiner \/ toMiner' = Append(toMiner, JobMsg("Job", j))
    BY <2>1 DEF Sent
  <2>5. QED
    BY <1>3, <1>4, <2>3, <2>4
<1>8. CASE OutRead
  <2>1. Has(Tail(toMiner), "Shutdown") => Has(toMiner, "Shutdown")
    BY <1>1, <1>8, TailEntries DEF Has, OutRead
  <2>2. QED
    BY <1>2, <1>8, <2>1 DEF OutRead
<1>9. CASE ~LoopSends /\ ~(\E t \in tasks : TaskEnds(t)) /\ ~DispatchSends
  <2>1. UNCHANGED toMiner \/ OutRead
    BY <1>9 DEF Next, Harness, Miner, Trouble, Report, vars, Handshake, Greeted, LoopCloses, OutRead,
      StreamEnds, HandleGrant, HandleCapabilities, HandleResult, HandleLeaseDone, HandleReject,
      HandleFatal, Dispatch, TaskTakes, TaskRecords, TaskPanics,
      MinerDials, MinerReceives, MinerReplies, MinerRepliesInVain, MinerLeaves, MinerDrains, MinerExits,
      MinerGivesUp, MinerNarrows, MinerDies
  <2>2. QED
    BY <1>4, <1>8, <2>1
<1>10. QED
  BY <1>5, <1>6, <1>7, <1>9

\* A loop that closes has seen the last row.
LEMMA KnownNext ==
  ASSUME DriveConstants, IInv, Known, [Next]_vars
  PROVE  Known'
<1>1. loop' \in {"greeting", "reading", "closing"} => registered'
  <2>1. loop' \in {"greeting", "reading", "closing"} => loop \in {"greeting", "reading", "closing"} \/ registered'
    BY DEF Next, Harness, Miner, Trouble, Report, vars, routerVars, Handshake, LoopSends, Greeted, LoopCloses,
      StreamEnds, HandleGrant, HandleCapabilities, HandleResult, HandleLeaseDone, HandleReject, Next_message,
      HandleFatal, Dispatch, DispatchSends, TaskTakes, TaskRecords, TaskPanics, TaskEnds, Ended,
      MinerDials, MinerReceives, MinerReplies, MinerRepliesInVain, MinerLeaves, MinerDrains, MinerExits,
      MinerGivesUp, MinerNarrows, MinerDies
  <2>2. QED
    BY <2>1, SoundBefore DEF Known
<1>2. Has(toMiner', "Shutdown") => shut'
  BY ShutdownSent DEF Known
<1>3. loop' = "closing" => Complete(rows')
  <2>1. loop' = "closing" => loop = "closing" \/ Complete(rows')
    BY DEF Next, Harness, Miner, Trouble, Report, vars, Handshake, LoopSends, Greeted, LoopCloses,
      StreamEnds, HandleGrant, HandleCapabilities, HandleResult, HandleLeaseDone, HandleReject, GoOn,
      HandleFatal, Dispatch, DispatchSends, TaskTakes, TaskRecords, TaskPanics, TaskEnds, Ended,
      MinerDials, MinerReceives, MinerReplies, MinerRepliesInVain, MinerLeaves, MinerDrains, MinerExits,
      MinerGivesUp, MinerNarrows, MinerDies
  <2>2. QED
    BY <2>1, CompleteKept DEF Known
<1>4. QED
  BY <1>1, <1>2, <1>3 DEF Known

\* The places of n messages or rows.
LEMMA Indices ==
  ASSUME NEW n \in Nat
  PROVE  IsFiniteSet(1 .. n) /\ Cardinality(1 .. n) = n
BY FS_Interval

\* A row for every job is as many rows as jobs.
LEMMA RowsComplete ==
  ASSUME DriveConstants, Typed, Jobs \subseteq RowJobs
  PROVE  Complete(rows)
<1>1. rows \in Seq(RowType)
  BY DEF Typed, RowType
<1>2. Len(rows) \in Nat /\ DOMAIN rows = 1 .. Len(rows) /\ \A i \in DOMAIN rows : rows[i] \in RowType
  BY <1>1
<1> DEFINE D == DOMAIN rows
           f == [i \in D |-> rows[i].job]
<1>3. \A i \in D : rows[i].job \in Jobs
  BY <1>2 DEF RowType
<1>4. \A j \in Jobs : \E i \in D : f[i] = j
  BY DEF RowJobs, HasRow
<1>5. f \in Surjection(D, Jobs)
  BY <1>3, <1>4 DEF Surjection
<1>6. IsFiniteSet(1 .. Len(rows)) /\ Cardinality(1 .. Len(rows)) = Len(rows)
  BY <1>2, Indices
<1>7. IsFiniteSet(D) /\ Cardinality(D) = Len(rows)
  BY <1>2, <1>6
<1> HIDE DEF D, f
<1>8. Cardinality(Jobs) <= Cardinality(D)
  BY <1>5, <1>7, FS_Surjection
<1>9. Cardinality(Jobs) \in Nat
  BY FS_CardinalityType DEF DriveConstants
<1>10. QED
  BY <1>2, <1>7, <1>8, <1>9 DEF Complete, Total

\* When nothing is left to happen, every slot is a credit, so no job is queued
\* and none is on its way.
LEMMA QuiescentComplete ==
  ASSUME DriveConstants, IInv, Quiescent, miner = "running", replies = <<>>,
         SlotsConserved, Spare, Placed
  PROVE  Complete(rows)
<1>1. /\ loop = "reading" /\ toMiner = <<>> /\ toCoord = <<>> /\ grants = <<>> /\ batch = {} /\ tasks = {}
  BY DEF Quiescent
<1>2. pending = <<>> /\ Wire = <<>> /\ Typed
  BY <1>1 DEF IInv, Greets, Wire
<1>3. credits > 0
  <2>1. Slots = Seed /\ Slots = Loose + Seed * Unseeded /\ Seed \in Nat \ {0} /\ credits \in Nat
    BY <1>1, <1>2, SlotTypes DEF SlotsConserved
  <2>2. \A type : Count(<<>>, type) = 0
    BY FS_EmptySet DEF Count
  <2>3. Cardinality(Coins(<<>>)) = 0 /\ Cardinality({}) = 0
    <3>1. Coins(<<>>) = {}
      BY DEF Coins
    <3>2. QED
      BY <3>1, FS_EmptySet
  <2>4. Loose = credits /\ Unseeded = 0
    BY <1>1, <1>2, <2>1, <2>2, <2>3 DEF Loose, Unseeded
  <2>5. QED
    BY <2>1, <2>4
<1>4. staged = {}
  BY <1>3 DEF Spare
<1>5. OutJobs = {} /\ WireJobs = {} /\ TaskJobs = {}
  BY <1>1, <1>2, CarriesNone DEF OutJobs, WireJobs, TaskJobs, Tasked
<1>6. Jobs \subseteq RowJobs
  BY <1>1, <1>4, <1>5 DEF Placed, Everywhere
<1>7. QED
  BY <1>2, <1>6, RowsComplete

\* Neither the idle timeout nor a Shutdown cuts a run short.
LEMMA FinishedNext ==
  ASSUME DriveConstants, IInv, Quiet, SlotsConserved, Spare, Known, Live => Placed, Finished, [Next]_vars
  PROVE  Finished'
<1> SUFFICES ASSUME Sound', loop' = "ended" \/ miner' \in {"draining", "exited"}
             PROVE  registered' /\ Complete(rows')
  BY DEF Finished
<1>1. Sound
  BY SoundBefore
<1> SUFFICES registered /\ Complete(rows)
  BY SoundBefore, CompleteKept
<1>2. CASE loop = "ended" \/ miner \in {"draining", "exited"}
  BY <1>1, <1>2 DEF Finished
<1>3. CASE loop # "ended" /\ miner \notin {"draining", "exited"}
  <2>1. Live /\ Placed /\ ~fault /\ ~fault' /\ token /\ miner \in {"dialing", "running"} /\ Typed
    BY <1>1, <1>3 DEF Live, IInv, Typed, Sound
  <2>2. loop # "hello" => registered
    BY <1>3, <2>1 DEF Known, Typed
  <2>3. CASE LoopCloses
    BY <2>2, <2>3 DEF LoopCloses, Known
  <2>4. CASE MinerReceives
    <3>1. loop' = loop /\ toMiner # <<>> /\ miner' = (IF Head(toMiner).type = "Shutdown" THEN "draining" ELSE miner)
      BY <2>4 DEF MinerReceives
    <3>2. Head(toMiner).type = "Shutdown"
      BY <1>3, <3>1
    <3>3. toMiner \in Seq(OutMsgs)
      BY <2>1 DEF Typed, OutMsgs
    <3>4. Has(toMiner, "Shutdown")
      BY <3>1, <3>2, <3>3, TailEntries DEF Has
    <3>5. Complete(rows)
      BY <3>4 DEF Known, IInv, Greets
    <3>6. loop # "hello"
      BY <3>1 DEF Quiet
    <3>7. QED
      BY <2>2, <3>5, <3>6
  <2>5. CASE MinerLeaves
    <3>1. miner = "running" /\ replies = <<>> /\ Quiescent
      BY <1>3, <2>5 DEF MinerLeaves, StreamClosed
    <3>2. loop # "hello"
      BY <3>1 DEF Quiescent
    <3>3. QED
      BY <2>1, <2>2, <3>1, <3>2, QuiescentComplete
  <2>6. CASE HandleFatal
    <3>1. Next_message("Fatal") /\ "Fatal" \in InTypes
      BY <2>6 DEF HandleFatal, InTypes
    <3>2. 1 \in DOMAIN Wire /\ Wire[1].type = "Fatal"
      BY <2>1, <3>1, MessageRead DEF IInv
    <3>3. Truthful
      BY <1>3 DEF IInv, Routed
    <3>4. fault
      BY <3>2, <3>3 DEF Truthful
    <3>5. QED
      BY <2>1, <3>4
  <2>7. CASE ~LoopCloses /\ ~MinerReceives /\ ~MinerLeaves /\ ~HandleFatal
    <3>1. loop' # "ended"
      BY <1>3, <2>1, <2>7 DEF Next, Harness, Miner, Trouble, Report, vars, Handshake, LoopSends, Greeted,
        StreamEnds, HandleGrant, HandleCapabilities, HandleResult, HandleLeaseDone, HandleReject, GoOn,
        Dispatch, DispatchSends, TaskTakes, TaskRecords, TaskPanics, TaskEnds,
        MinerDials, MinerReplies, MinerRepliesInVain, MinerDrains, MinerExits,
        MinerGivesUp, MinerNarrows, MinerDies
    <3>2. miner' \notin {"draining", "exited"}
      BY <1>3, <2>1, <2>7 DEF Next, Harness, Miner, Trouble, Report, vars, minerVars, Handshake, LoopSends, Greeted,
        StreamEnds, HandleGrant, HandleCapabilities, HandleResult, HandleLeaseDone, HandleReject,
        Dispatch, DispatchSends, TaskTakes, TaskRecords, TaskPanics, TaskEnds,
        MinerDials, MinerReplies, MinerRepliesInVain, MinerDrains, MinerExits,
        MinerGivesUp, MinerNarrows, MinerDies
    <3>3. QED
      BY <3>1, <3>2
  <2>8. QED
    BY <2>3, <2>4, <2>5, <2>6, <2>7
<1>4. QED
  BY <1>2, <1>3

\* The caller reports what the session left.
LEMMA ReportNext ==
  ASSUME DriveConstants, IInv, Finished, NothingLost, [Next]_vars
  PROVE  NothingLost'
<1> SUFFICES ASSUME report' # "none", Sound' PROVE report' = "clean"
  BY DEF NothingLost, Sound
<1>1. Sound
  BY SoundBefore
<1>2. CASE Report
  BY <1>1, <1>2 DEF Report, Finished
<1>3. CASE ~Report
  <2>1. UNCHANGED report
    BY <1>3 DEF Next, Harness, Miner, Trouble, vars, Handshake, LoopSends, Greeted, LoopCloses,
      StreamEnds, HandleGrant, HandleCapabilities, HandleResult, HandleLeaseDone, HandleReject,
      HandleFatal, Dispatch, DispatchSends, TaskTakes, TaskRecords, TaskPanics, TaskEnds,
      MinerDials, MinerReceives, MinerReplies, MinerRepliesInVain, MinerLeaves, MinerDrains, MinerExits,
      MinerGivesUp, MinerNarrows, MinerDies
  <2>2. QED
    BY <1>1, <2>1 DEF NothingLost, Sound
<1>4. QED
  BY <1>2, <1>3

\* Reading takes one message, and no other.
LEMMA CarriesHead ==
  ASSUME NEW S, NEW q \in Seq(S), q # <<>>, NEW types, NEW j,
         Carries(q, types, j), ~(q[1].type \in types /\ q[1].job = j)
  PROVE  Carries(Tail(q), types, j)
<1>1. PICK i \in DOMAIN q : q[i].type \in types /\ q[i].job = j
  BY DEF Carries
<1>2. i # 1 /\ i \in 1 .. Len(q) /\ Len(q) \in Nat
  BY <1>1
<1>3. i - 1 \in DOMAIN Tail(q) /\ Tail(q)[i - 1] = q[i]
  BY <1>2
<1>4. QED
  BY <1>1, <1>3 DEF Carries

\* Jobs leave a channel by being read.
LEMMA JobsStay ==
  ASSUME DriveConstants, IInv
  PROVE  /\ OutRead => \A j \in OutJobs : j \in OutJobs' \/ (toMiner[1].type = "Job" /\ toMiner[1].job = j)
         /\ WireTaken => \A j \in WireJobs : j \in WireJobs' \/ (Wire[1].type \in JobTypes /\ Wire[1].job = j)
<1>1. toMiner \in Seq(OutMsgs) /\ Wire \in Seq(InMsgs)
  BY DEF IInv, Typed, OutMsgs, InMsgs, Wire
<1>2. ASSUME OutRead, NEW j \in OutJobs, ~(toMiner[1].type = "Job" /\ toMiner[1].job = j)
      PROVE  j \in OutJobs'
  <2>1. Carries(toMiner, {"Job"}, j) /\ toMiner # <<>> /\ toMiner' = Tail(toMiner) /\ j \in Jobs
    BY <1>2 DEF OutRead, OutJobs
  <2>2. Carries(Tail(toMiner), {"Job"}, j)
    BY <1>1, <1>2, <2>1, CarriesHead
  <2>3. QED
    BY <2>1, <2>2 DEF OutJobs
<1>3. ASSUME WireTaken, NEW j \in WireJobs, ~(Wire[1].type \in JobTypes /\ Wire[1].job = j)
      PROVE  j \in WireJobs'
  <2>1. Carries(Wire, JobTypes, j) /\ Wire # <<>> /\ Wire' = Tail(Wire) /\ j \in Jobs
    BY <1>3 DEF WireTaken, WireJobs
  <2>2. Carries(Tail(Wire), JobTypes, j)
    BY <1>1, <1>3, <2>1, CarriesHead
  <2>3. QED
    BY <2>1, <2>2 DEF WireJobs
<1>4. QED
  BY <1>2, <1>3

\* An answer says something of its job; of a winner, that its lease is over.
LEMMA AnswerSays ==
  ASSUME DriveConstants, Typed, NEW j \in Jobs
  PROVE  /\ Answer(j) \in Seq(InMsgs) /\ Carries(Answer(j), JobTypes, j)
         /\ Followed(Answer(j), kind)
<1>1. j \in Nat
  BY DEF DriveConstants
<1> DEFINE rej == JobMsg("Reject", j)
           don == JobMsg("LeaseDone", j)
           res == JobMsg("Result", j)
           jr  == JobRequest
<1>2. /\ rej.type = "Reject" /\ don.type = "LeaseDone" /\ res.type = "Result" /\ jr.type = "JobRequest"
      /\ rej.job = j /\ don.job = j /\ res.job = j
  BY <1>1, MsgTypes DEF InTypes
<1>3. \/ Answer(j) = <<rej, jr>> \/ Answer(j) = <<don, jr>>
      \/ Answer(j) = <<res, don, jr>>
      \/ Answer(j) = <<res, jr>> /\ kind[j] # "winner"
  BY AnswerForms
<1>4. Answer(j) \in Seq(InMsgs)
  BY AnswerEntries
<1> HIDE DEF rej, don, res, jr
<1>5. Carries(Answer(j), JobTypes, j)
  <2>1. 1 \in DOMAIN Answer(j) /\ Answer(j)[1] \in {rej, don, res}
    BY <1>3
  <2>2. QED
    BY <1>2, <2>1 DEF Carries, JobTypes
<1>6. Followed(Answer(j), kind)
  <2>1. CASE Answer(j) = <<rej, jr>> \/ Answer(j) = <<don, jr>>
    BY <1>2, <2>1 DEF Followed
  <2>2. CASE Answer(j) = <<res, jr>> /\ kind[j] # "winner"
    BY <1>2, <2>2 DEF Followed
  <2>3. CASE Answer(j) = <<res, don, jr>>
    <3>1. DOMAIN Answer(j) = 1 .. 3 /\ Answer(j)[1] = res /\ Answer(j)[2] = don /\ Answer(j)[3] = jr
      BY <2>3
    <3>2. ASSUME NEW i \in 1 .. 3, Answer(j)[i].type = "Result" PROVE i = 1
      BY <1>2, <3>1, <3>2
    <3>3. QED
      BY <1>2, <3>1, <3>2 DEF Followed
  <2>4. QED
    BY <1>3, <2>1, <2>2, <2>3
<1>7. QED
  BY <1>4, <1>5, <1>6

\* A winner keeps its LeaseDone behind it.
LEMMA FollowedNext ==
  ASSUME DriveConstants, IInv, Followed(Wire, kind),
         WireKept \/ WireTaken \/ WireTold \/ WireAnswer
  PROVE  Followed(Wire', kind)
<1>1. Wire \in Seq(InMsgs) /\ Typed
  BY DEF IInv, Typed, InMsgs, Wire
<1> DEFINE q == Wire
<1>2. q \in Seq(InMsgs) /\ Followed(q, kind) /\ Len(q) \in Nat /\ DOMAIN q = 1 .. Len(q)
  BY <1>1
<1>3. CASE WireKept
  BY <1>3 DEF WireKept
<1>4. CASE WireTaken
  <2>1. q # <<>> /\ Wire' = Tail(q)
    BY <1>4 DEF WireTaken
  <2> DEFINE r == Tail(q)
  <2>2. /\ DOMAIN r = 1 .. Len(q) - 1
        /\ \A i \in DOMAIN r : r[i] = q[i + 1] /\ i + 1 \in DOMAIN q /\ i \in Nat
    BY <1>2, <2>1
  <2> HIDE DEF q, r
  <2>3. ASSUME NEW i \in DOMAIN r, r[i].type = "Result", kind[r[i].job] = "winner"
        PROVE  \E k \in DOMAIN r : i < k /\ r[k].type = "LeaseDone" /\ r[k].job = r[i].job
    <3>1. PICK k \in DOMAIN q : i + 1 < k /\ q[k].type = "LeaseDone" /\ q[k].job = q[i + 1].job
      BY <1>2, <2>2, <2>3 DEF Followed
    <3>2. k \in Nat /\ k <= Len(q) /\ i \in Nat
      BY <1>2, <2>2, <3>1
    <3>3. k - 1 \in DOMAIN r /\ i < k - 1 /\ (k - 1) + 1 = k
      BY <1>2, <2>2, <3>1, <3>2
    <3>4. r[k - 1] = q[k]
      BY <2>2, <3>3
    <3>5. QED
      BY <2>2, <3>1, <3>3, <3>4
  <2>4. Followed(r, kind)
    BY <2>3 DEF Followed
  <2>5. QED
    BY <2>1, <2>4 DEF r
<1>5. ASSUME NEW a \in Seq(InMsgs), Followed(a, kind), Wire' = q \o a
      PROVE  Followed(Wire', kind)
  <2> DEFINE r == q \o a
             n == Len(q)
  <2>1. /\ n \in Nat /\ Len(a) \in Nat
        /\ DOMAIN q = 1 .. n /\ DOMAIN a = 1 .. Len(a) /\ DOMAIN r = 1 .. n + Len(a)
        /\ \A i \in 1 .. n : r[i] = q[i]
        /\ \A i \in 1 .. Len(a) : r[n + i] = a[i]
        /\ \A i \in 1 .. n + Len(a) : i \notin 1 .. n => i - n \in 1 .. Len(a) /\ r[i] = a[i - n]
    BY <1>2, ConcatEntries
  <2> HIDE DEF q, r, n
  <2>2. ASSUME NEW i \in DOMAIN r, r[i].type = "Result", kind[r[i].job] = "winner"
        PROVE  \E k \in DOMAIN r : i < k /\ r[k].type = "LeaseDone" /\ r[k].job = r[i].job
    <3>1. CASE i \in 1 .. n
      <4>1. PICK k \in DOMAIN q : i < k /\ q[k].type = "LeaseDone" /\ q[k].job = q[i].job
        BY <1>2, <2>1, <2>2, <3>1 DEF Followed
      <4>2. k \in DOMAIN r /\ r[k] = q[k] /\ r[i] = q[i]
        BY <2>1, <3>1
      <4>3. QED
        BY <4>1, <4>2
    <3>2. CASE i \notin 1 .. n
      <4>1. i - n \in DOMAIN a /\ r[i] = a[i - n]
        BY <2>1, <3>2
      <4>2. PICK k \in DOMAIN a : i - n < k /\ a[k].type = "LeaseDone" /\ a[k].job = a[i - n].job
        BY <1>5, <2>2, <4>1 DEF Followed
      <4>3. n + k \in DOMAIN r /\ r[n + k] = a[k]
        BY <2>1
      <4>4. i < n + k
        BY <2>1, <4>2
      <4>5. QED
        BY <4>1, <4>2, <4>3, <4>4
    <3>3. QED
      BY <3>1, <3>2
  <2>3. Followed(r, kind)
    BY <2>2 DEF Followed
  <2>4. QED
    BY <1>5, <2>3 DEF r
<1>6. CASE WireTold
  <2>1. PICK m \in InMsgs : m.type \notin JobTypes /\ Wire' = Append(Wire, m)
    BY <1>6 DEF WireTold
  <2>2. Wire' = q \o <<m>> /\ <<m>> \in Seq(InMsgs)
    <3>1. q \in Seq(InMsgs) /\ Wire' = Append(q, m)
      BY <1>1, <2>1
    <3> HIDE DEF q
    <3>2. Append(q, m) = q \o <<m>> /\ <<m>> \in Seq(InMsgs)
      BY <3>1
    <3>3. QED
      BY <3>1, <3>2
  <2>3. Followed(<<m>>, kind)
    BY <2>1 DEF Followed, JobTypes
  <2>4. QED
    BY <1>5, <2>2, <2>3
<1>7. CASE WireAnswer
  BY <1>1, <1>5, <1>7, AnswerSays DEF WireAnswer
<1>8. QED
  BY <1>3, <1>4, <1>6, <1>7

\* Steps that move no job.
LEMMA PlacedKept ==
  ASSUME DriveConstants, IInv, Live, Placed, UNCHANGED <<staged, batch, inflight, rows, kind>>,
         OutKept \/ OutTold, WireKept \/ WireTold \/ (WireTaken /\ Wire[1].type \notin JobTypes),
         tasks' = tasks \/ \E t \in tasks : t.step = "checking" /\ tasks' = tasks \ {t}
  PROVE  Placed'
<1>1. loop # "ended"
  BY DEF Live
<1>2. OutJobs' = OutJobs
  BY <1>1, OutJobsNext
<1>3. WireJobs' = WireJobs
  <2>1. CASE WireKept \/ WireTold
    BY <1>1, <2>1, WireJobsNext
  <2>2. CASE WireTaken /\ Wire[1].type \notin JobTypes
    <3>1. WireJobs' \subseteq WireJobs
      BY <1>1, <2>2, WireJobsNext
    <3>2. WireJobs \subseteq WireJobs'
      BY <2>2, JobsStay
    <3>3. QED
      BY <3>1, <3>2
  <2>3. QED
    BY <2>1, <2>2
<1>4. TaskJobs' = TaskJobs
  BY DEF TaskJobs, Tasked
<1>5. RowJobs' = RowJobs
  BY DEF RowJobs, HasRow
<1>6. Followed(Wire', kind')
  BY FollowedNext DEF Placed
<1>7. Jobs \subseteq Everywhere'
  BY <1>2, <1>3, <1>4, <1>5 DEF Placed, Everywhere
<1>8. (batch \union OutJobs \union WireJobs)' \subseteq inflight'
  BY <1>2, <1>3 DEF Placed
<1>9. \A t \in tasks' : t.step = "spawned" => t.job \in inflight'
  BY DEF Placed
<1>10. QED
  BY <1>6, <1>7, <1>8, <1>9 DEF Placed

\* A queue that loses jobs: each of them gets its failing row.
LEMMA PlacedUnroutable ==
  ASSUME DriveConstants, IInv, Live, Placed, UNCHANGED <<batch, inflight, tasks, toMiner, kind>>,
         staged' \subseteq staged, rows' = rows \o Unroutable(staged \ staged'),
         WireTaken, Wire[1].type \notin JobTypes
  PROVE  Placed'
<1>1. loop # "ended"
  BY DEF Live
<1>2. OutJobs' = OutJobs
  BY DEF OutJobs
<1>3. WireJobs' = WireJobs
  <2>1. WireJobs' \subseteq WireJobs
    BY <1>1, WireJobsNext
  <2>2. WireJobs \subseteq WireJobs'
    BY JobsStay
  <2>3. QED
    BY <2>1, <2>2
<1>4. TaskJobs' = TaskJobs
  BY DEF TaskJobs, Tasked
<1>5. RowJobs' = RowJobs \union (staged \ staged')
  <2> DEFINE gone == staged \ staged'
  <2>1. gone \in SUBSET Jobs /\ IsFiniteSet(gone) /\ rows \in Seq(RowType)
    BY Finite DEF IInv, Typed, RowType
  <2> HIDE DEF gone
  <2>2. \A j \in Jobs : RowOf(rows \o FailingRows(gone), j) <=> RowOf(rows, j) \/ j \in gone
    BY <2>1, FailingRowsAdded
  <2>3. rows' = rows \o FailingRows(gone)
    BY DEF gone, Unroutable
  <2>4. \A j \in Jobs : RowOf(rows', j) <=> RowOf(rows, j) \/ j \in gone
    BY <2>2, <2>3
  <2>5. QED
    BY <2>1, <2>4 DEF RowJobs, HasRow, RowOf, gone
<1>6. Followed(Wire', kind')
  BY FollowedNext DEF Placed
<1>7. Jobs \subseteq Everywhere'
  BY <1>2, <1>3, <1>4, <1>5 DEF Placed, Everywhere
<1>8. (batch \union OutJobs \union WireJobs)' \subseteq inflight'
  BY <1>2, <1>3 DEF Placed
<1>9. \A t \in tasks' : t.step = "spawned" => t.job \in inflight'
  BY DEF Placed
<1>10. QED
  BY <1>6, <1>7, <1>8, <1>9 DEF Placed

\* The dispatcher pops into its batch, and marks the jobs in flight,
LEMMA PlacedDispatch ==
  ASSUME DriveConstants, IInv, Live, Placed, Dispatch
  PROVE  Placed'
<1>1. PICK new \in SUBSET staged :
         /\ staged' = staged \ new
         /\ batch' = new
         /\ inflight' = {k \in inflight \union new : \A later \in new : id[later] = id[k] => later <= k}
  BY DEF Dispatch
<1>2. /\ batch = {} /\ UNCHANGED <<tasks, rows, toMiner, toCoord, replies, kind>>
  BY DEF Dispatch, minerVars, inputs
<1>3. inflight' = inflight \union new
  <2>1. \A j \in inflight \union new : j \in Jobs /\ j \in Nat
    BY DEF IInv, Typed, DriveConstants
  <2>2. \A k \in inflight \union new : \A later \in new : id[later] = id[k] => later = k
    BY <2>1 DEF Live, Sound, Distinct
  <2>3. \A k \in inflight \union new : k <= k
    BY <2>1
  <2>4. \A k \in inflight \union new : \A later \in new : id[later] = id[k] => later <= k
    BY <2>2, <2>3
  <2>5. QED
    BY <1>1, <2>4
<1>4. Wire' = Wire
  BY <1>2 DEF Wire
<1>5. OutJobs' = OutJobs /\ WireJobs' = WireJobs /\ TaskJobs' = TaskJobs /\ RowJobs' = RowJobs
  BY <1>2, <1>4 DEF OutJobs, WireJobs, TaskJobs, Tasked, RowJobs, HasRow
<1>6. Followed(Wire', kind')
  BY <1>2, <1>4 DEF Placed
<1>7. Jobs \subseteq Everywhere'
  BY <1>1, <1>2, <1>5 DEF Placed, Everywhere
<1>8. (batch \union OutJobs \union WireJobs)' \subseteq inflight'
  BY <1>1, <1>3, <1>5 DEF Placed
<1>9. \A t \in tasks' : t.step = "spawned" => t.job \in inflight'
  BY <1>2, <1>3 DEF Placed
<1>10. QED
  BY <1>6, <1>7, <1>8, <1>9 DEF Placed

\* and sends them in order.
LEMMA PlacedSends ==
  ASSUME DriveConstants, IInv, Live, Placed, OutJob, Wire' = Wire
  PROVE  Placed'
<1>1. loop # "ended" /\ UNCHANGED <<staged, inflight, tasks, rows, kind>>
  BY DEF Live, OutJob
<1>2. PICK j \in batch : batch' = batch \ {j} /\ OutJobs' = OutJobs \union {j}
  BY <1>1, OutJobsNext
<1>3. WireJobs' = WireJobs /\ TaskJobs' = TaskJobs /\ RowJobs' = RowJobs
  BY <1>1 DEF WireJobs, TaskJobs, Tasked, RowJobs, HasRow
<1>4. Followed(Wire', kind')
  BY <1>1 DEF Placed
<1>5. Jobs \subseteq Everywhere'
  BY <1>1, <1>2, <1>3 DEF Placed, Everywhere
<1>6. (batch \union OutJobs \union WireJobs)' \subseteq inflight'
  BY <1>1, <1>2, <1>3 DEF Placed
<1>7. \A t \in tasks' : t.step = "spawned" => t.job \in inflight'
  BY <1>1 DEF Placed
<1>8. QED
  BY <1>4, <1>5, <1>6, <1>7 DEF Placed

\* The miner's answer takes the job from one channel to the other.
LEMMA PlacedAnswer ==
  ASSUME DriveConstants, IInv, Live, Placed, WireAnswer
  PROVE  Placed'
<1>1. loop # "ended" /\ OutRead /\ UNCHANGED <<staged, batch, inflight, tasks, rows, kind>> /\ Typed
  BY DEF Live, WireAnswer, OutRead, IInv
<1> DEFINE j == toMiner[1].job
<1>2. j \in Jobs /\ toMiner[1].type = "Job" /\ Wire' = Wire \o Answer(j)
  BY DEF WireAnswer
<1>3. toMiner \in Seq(OutMsgs) /\ Wire \in Seq(InMsgs)
  BY <1>1 DEF Typed, OutMsgs, InMsgs, Wire
<1>4. j \in OutJobs
  <2>1. 1 \in DOMAIN toMiner
    BY <1>1, <1>3, TailEntries DEF OutRead
  <2>2. QED
    BY <1>2, <2>1 DEF OutJobs, Carries
<1> HIDE DEF j
<1>5. OutJobs' \subseteq OutJobs /\ OutJobs \subseteq OutJobs' \union {j}
  BY <1>1, OutJobsNext, JobsStay DEF j
<1>6. WireJobs' = WireJobs \union {j}
  <2>1. WireJobs' \subseteq WireJobs \union {j}
    BY <1>1, WireJobsNext DEF j
  <2>2. Answer(j) \in Seq(InMsgs) /\ Carries(Answer(j), JobTypes, j)
    BY <1>1, <1>2, AnswerSays
  <2>3. \A k : Carries(Wire \o Answer(j), JobTypes, k) <=> Carries(Wire, JobTypes, k) \/ Carries(Answer(j), JobTypes, k)
    BY <1>3, <2>2, CarriesConcat
  <2>4. WireJobs \union {j} \subseteq WireJobs'
    BY <1>2, <2>2, <2>3 DEF WireJobs
  <2>5. QED
    BY <2>1, <2>4
<1>7. TaskJobs' = TaskJobs /\ RowJobs' = RowJobs
  BY <1>1 DEF TaskJobs, Tasked, RowJobs, HasRow
<1>8. Followed(Wire', kind')
  BY <1>1, FollowedNext DEF Placed
<1>9. Jobs \subseteq Everywhere'
  BY <1>1, <1>5, <1>6, <1>7 DEF Placed, Everywhere
<1>10. (batch \union OutJobs \union WireJobs)' \subseteq inflight'
  BY <1>1, <1>4, <1>5, <1>6 DEF Placed
<1>11. \A t \in tasks' : t.step = "spawned" => t.job \in inflight'
  BY <1>1 DEF Placed
<1>12. QED
  BY <1>8, <1>9, <1>10, <1>11 DEF Placed

\* With one job per id, a lookup finds the job and a removal takes no other.
LEMMA OneHolder ==
  ASSUME IInv, Distinct, NEW j \in Jobs
  PROVE  Forget(j) = inflight \ {j} /\ Holding(j) = inflight \intersect {j}
<1>1. inflight \subseteq Jobs
  BY DEF IInv, Typed
<1>2. \A k \in inflight : id[k] = id[j] <=> k = j
  BY <1>1 DEF Distinct
<1>3. QED
  BY <1>2 DEF Forget, Holding

\* The job of a message on the wire.
LEMMA ReadJob ==
  ASSUME DriveConstants, IInv, Live, Placed, NEW type \in JobTypes, Next_message(type), UNCHANGED replies
  PROVE  LET j == Head(toCoord).job
         IN  /\ WireTaken /\ Wire[1].type = type /\ j = Wire[1].job /\ j \in Jobs /\ j \in inflight
             /\ j \notin staged \union batch \union OutJobs \union TaskJobs \union RowJobs
             /\ Forget(j) = inflight \ {j} /\ Holding(j) = {j}
             /\ WireJobs' \subseteq WireJobs /\ WireJobs \subseteq WireJobs' \union {j}
             /\ type # "Result" \/ kind[j] \notin Leases => j \notin WireJobs'
<1> DEFINE j == Head(toCoord).job
<1>1. type \in InTypes /\ loop # "ended" /\ Typed /\ Routed /\ Distinct
  BY DEF JobTypes, InTypes, Live, Sound, IInv
<1>2. /\ toCoord # <<>> /\ toCoord' = Tail(toCoord) /\ Head(toCoord) = Wire[1] /\ Wire[1].type = type
      /\ Wire[1].job \in WireJobs
  BY <1>1, MessageRead
<1>3. WireTaken
  BY <1>1, <1>2, ReadTakes
<1>4. j = Wire[1].job /\ j \in WireJobs /\ j \in Jobs
  BY <1>2 DEF WireJobs
<1> HIDE DEF j
<1>5. j \in inflight
  BY <1>4 DEF Placed
<1>6. j \notin staged \union batch \union OutJobs \union TaskJobs \union RowJobs
  BY <1>1, <1>4 DEF Routed, Places
<1>7. Forget(j) = inflight \ {j} /\ Holding(j) = {j}
  BY <1>1, <1>4, <1>5, OneHolder
<1>8. WireJobs' \subseteq WireJobs /\ WireJobs \subseteq WireJobs' \union {j}
  BY <1>1, <1>3, <1>4, WireJobsNext, JobsStay
<1>9. type # "Result" \/ kind[j] \notin Leases => j \notin WireJobs'
  BY <1>1, <1>2, <1>3, <1>4, WireJobsNext
<1>10. QED
  BY <1>2, <1>3, <1>4, <1>5, <1>6, <1>7, <1>8, <1>9 DEF j

\* LeaseDone and Reject end in a row.
LEMMA PlacedRow ==
  ASSUME DriveConstants, IInv, Live, Placed, HandleLeaseDone \/ HandleReject
  PROVE  Placed'
<1> DEFINE j == Head(toCoord).job
<1>1. PICK type \in {"LeaseDone", "Reject"} : Next_message(type)
  BY DEF HandleLeaseDone, HandleReject
<1>2. /\ UNCHANGED <<staged, batch, tasks, toMiner, replies, kind>> /\ inflight' = Forget(j)
  BY DEF HandleLeaseDone, HandleReject, routerVars, dispatchVars, minerVars, inputs
<1>3. /\ WireTaken /\ j \in Jobs /\ j \in inflight
      /\ j \notin staged \union batch \union OutJobs \union TaskJobs \union RowJobs
      /\ Forget(j) = inflight \ {j} /\ Holding(j) = {j}
      /\ WireJobs' \subseteq WireJobs /\ WireJobs \subseteq WireJobs' \union {j}
      /\ j \notin WireJobs'
  BY <1>1, <1>2, ReadJob DEF JobTypes
<1>4. PICK x \in RowType : x.job = j /\ rows' = Append(rows, x)
  <2>1. CASE HandleLeaseDone
    <3>1. rows' = Append(rows, Row(j, j \in winners))
      BY <1>3, <2>1 DEF HandleLeaseDone, GoOn
    <3>2. QED
      BY <1>3, <3>1, LeaseRow
  <2>2. CASE HandleReject
    <3>1. rows' = Append(rows, FailingRow(j))
      BY <2>2 DEF HandleReject, GoOn
    <3>2. QED
      BY <1>3, <3>1, RowTypes
  <2>3. QED
    BY <2>1, <2>2
<1> HIDE DEF j
<1>5. RowJobs' = RowJobs \union {j}
  <2>1. rows \in Seq(RowType)
    BY DEF IInv, Typed, RowType
  <2>2. \A k \in Jobs : RowOf(Append(rows, x), k) <=> RowOf(rows, k) \/ k = x.job
    BY <2>1, RowAdded
  <2>3. \A k \in Jobs : RowOf(rows', k) <=> RowOf(rows, k) \/ k = j
    BY <1>4, <2>2
  <2>4. RowJobs = {k \in Jobs : RowOf(rows, k)} /\ RowJobs' = {k \in Jobs : RowOf(rows', k)}
    BY DEF RowJobs, HasRow, RowOf
  <2>5. QED
    BY <1>3, <2>3, <2>4
<1>6. OutJobs' = OutJobs /\ TaskJobs' = TaskJobs
  BY <1>2 DEF OutJobs, TaskJobs, Tasked
<1>7. Followed(Wire', kind')
  BY <1>2, <1>3, FollowedNext DEF Placed
<1>8. Jobs \subseteq Everywhere'
  BY <1>2, <1>3, <1>5, <1>6 DEF Placed, Everywhere
<1>9. (batch \union OutJobs \union WireJobs)' \subseteq inflight'
  BY <1>2, <1>3, <1>6 DEF Placed
<1>10. \A t \in tasks' : t.step = "spawned" => t.job \in inflight'
  <2>1. \A t \in tasks : t.step = "spawned" => t.job \in TaskJobs
    BY DEF TaskJobs, Tasked, IInv, Typed
  <2>2. QED
    BY <1>2, <1>3, <2>1 DEF Placed
<1>11. QED
  BY <1>7, <1>8, <1>9, <1>10 DEF Placed

\* A Result goes to a task, or its lease is still to end.
LEMMA PlacedResult ==
  ASSUME DriveConstants, IInv, Live, Placed, HandleResult
  PROVE  Placed'
<1> DEFINE j == Head(toCoord).job
           u == [job |-> j, step |-> "spawned"]
<1>1. /\ Next_message("Result")
      /\ UNCHANGED <<staged, batch, inflight, rows, toMiner, replies, kind>>
      /\ tasks' = IF \E k \in Holding(j) : kind[k] \in Leases THEN tasks ELSE tasks \union {u}
  BY DEF HandleResult, GoOn, routerVars, dispatchVars, minerVars, inputs
<1>2. /\ WireTaken /\ Wire[1].type = "Result" /\ j = Wire[1].job /\ j \in Jobs /\ j \in inflight /\ Holding(j) = {j}
      /\ WireJobs' \subseteq WireJobs /\ WireJobs \subseteq WireJobs' \union {j}
  BY <1>1, ReadJob DEF JobTypes
<1>3. tasks' = IF kind[j] \in Leases THEN tasks ELSE tasks \union {u}
  BY <1>1, <1>2
<1>4. u.job = j /\ u.step = "spawned"
  OBVIOUS
<1> HIDE DEF j, u
<1>5. OutJobs' = OutJobs /\ RowJobs' = RowJobs /\ TaskJobs \subseteq TaskJobs'
  BY <1>1, <1>3 DEF OutJobs, RowJobs, HasRow, TaskJobs, Tasked
<1>6. Followed(Wire', kind')
  BY <1>1, <1>2, FollowedNext DEF Placed
<1>7. j \in WireJobs' \union TaskJobs'
  <2>1. CASE kind[j] \notin Leases
    BY <1>2, <1>3, <1>4, <2>1 DEF TaskJobs, Tasked
  <2>2. CASE kind[j] \in Leases
    <3>1. Wire \in Seq(InMsgs) /\ 1 \in DOMAIN Wire /\ Wire' = Tail(Wire)
      <4>1. Wire \in Seq(InMsgs)
        BY DEF IInv, Typed, InMsgs, Wire
      <4>2. Wire # <<>> /\ Wire' = Tail(Wire)
        BY <1>2 DEF WireTaken
      <4>3. QED
        BY <4>1, <4>2, TailEntries
    <3>2. kind[j] = "winner"
      <4>1. kind[j] \in {"plain", "foreign", "winner"}
        BY <1>2, <3>1 DEF IInv, Routed, Live, Truthful
      <4>2. QED
        BY <2>2, <4>1 DEF Leases
    <3>3. PICK k \in DOMAIN Wire : 1 < k /\ Wire[k].type = "LeaseDone" /\ Wire[k].job = j
      BY <1>2, <3>1, <3>2 DEF Placed, Followed
    <3>4. k - 1 \in DOMAIN Tail(Wire) /\ Tail(Wire)[k - 1] = Wire[k]
      BY <3>1, <3>3
    <3>5. Carries(Tail(Wire), JobTypes, j)
      BY <3>3, <3>4 DEF Carries, JobTypes
    <3>6. QED
      BY <1>2, <3>1, <3>5 DEF WireJobs
  <2>3. QED
    BY <2>1, <2>2
<1>8. Jobs \subseteq Everywhere'
  BY <1>1, <1>2, <1>5, <1>7 DEF Placed, Everywhere
<1>9. (batch \union OutJobs \union WireJobs)' \subseteq inflight'
  BY <1>1, <1>2, <1>5 DEF Placed
<1>10. \A t \in tasks' : t.step = "spawned" => t.job \in inflight'
  BY <1>1, <1>2, <1>3, <1>4 DEF Placed
<1>11. QED
  BY <1>6, <1>8, <1>9, <1>10 DEF Placed

\* A task takes its job out of flight and answers for it until it has a row.
LEMMA PlacedTask ==
  ASSUME DriveConstants, IInv, Live, Placed, NEW t \in tasks,
         TaskTakes(t) \/ \E p \in BOOLEAN : TaskRecords(t, p)
  PROVE  Placed'
<1>1. UNCHANGED <<staged, batch, toMiner, toCoord, replies, kind>>
  BY DEF TaskTakes, TaskRecords, routerVars, dispatchVars, minerVars, inputs
<1>2. Wire' = Wire
  BY <1>1 DEF Wire
<1>3. OutJobs' = OutJobs /\ WireJobs' = WireJobs
  BY <1>1, <1>2 DEF OutJobs, WireJobs
<1>4. t \in [job : Jobs, step : {"spawned", "validating", "checking"}] /\ loop # "ended" /\ Distinct
  BY DEF IInv, Typed, Live, Sound
<1>5. Followed(Wire', kind')
  BY <1>1, <1>2 DEF Placed
<1>6. t.step \in {"spawned", "validating"} /\ t.job \in TaskJobs
  BY <1>4 DEF TaskTakes, TaskRecords, TaskJobs, Tasked
<1>7. t.job \notin staged \union batch \union OutJobs \union WireJobs
  BY <1>4, <1>6 DEF IInv, Routed, Places
<1>8. \A u \in tasks : u # t /\ u.step # "checking" => u.job # t.job
  BY <1>6 DEF IInv, Recording
<1>9. CASE TaskTakes(t)
  <2> DEFINE v == [t EXCEPT !.step = "validating"]
  <2>1. /\ t.step = "spawned" /\ inflight' = Forget(t.job) /\ UNCHANGED rows
        /\ tasks' = At(t, IF Holding(t.job) = {} THEN "checking" ELSE "validating")
    BY <1>9 DEF TaskTakes
  <2>2. t.job \in inflight
    BY <2>1 DEF Placed
  <2>3. inflight' = inflight \ {t.job} /\ Holding(t.job) # {}
    BY <1>4, <2>1, <2>2, OneHolder
  <2>4. tasks' = (tasks \ {t}) \union {v} /\ v.job = t.job /\ v.step = "validating"
    BY <1>4, <2>1, <2>3 DEF At
  <2> HIDE DEF v
  <2>5. TaskJobs \subseteq TaskJobs' /\ RowJobs' = RowJobs
    <3>1. ASSUME NEW j \in TaskJobs PROVE j \in TaskJobs'
      <4>1. PICK u \in tasks : u.job = j /\ u.step # "checking"
        BY DEF TaskJobs, Tasked
      <4>2. CASE u = t
        BY <2>4, <4>1, <4>2 DEF TaskJobs, Tasked
      <4>3. CASE u # t
        BY <2>4, <4>1, <4>3 DEF TaskJobs, Tasked
      <4>4. QED
        BY <4>2, <4>3
    <3>2. QED
      BY <2>1, <3>1 DEF RowJobs, HasRow
  <2>6. Jobs \subseteq Everywhere'
    BY <1>1, <1>3, <2>5 DEF Placed, Everywhere
  <2>7. (batch \union OutJobs \union WireJobs)' \subseteq inflight'
    BY <1>1, <1>3, <1>7, <2>3 DEF Placed
  <2>8. \A u \in tasks' : u.step = "spawned" => u.job \in inflight'
    BY <1>8, <2>3, <2>4 DEF Placed
  <2>9. QED
    BY <1>5, <2>6, <2>7, <2>8 DEF Placed
<1>10. ASSUME NEW p \in BOOLEAN, TaskRecords(t, p) PROVE Placed'
  <2> DEFINE v == [t EXCEPT !.step = "checking"]
  <2>1. /\ UNCHANGED inflight /\ rows' = Append(rows, Row(t.job, p)) /\ tasks' = (tasks \ {t}) \union {v}
    BY <1>10 DEF TaskRecords, At
  <2>2. v.step = "checking"
    BY <1>4
  <2> HIDE DEF v
  <2>3. RowJobs' = RowJobs \union {t.job}
    <3> DEFINE x == Row(t.job, p)
    <3>1. rows \in Seq(RowType)
      BY DEF IInv, Typed, RowType
    <3>2. t.job \in Jobs
      BY <1>4
    <3>3. x \in RowType /\ x.job = t.job
      BY <3>2, RowTypes
    <3> HIDE DEF x
    <3>4. \A k \in Jobs : RowOf(Append(rows, x), k) <=> RowOf(rows, k) \/ k = x.job
      BY <3>1, <3>3, RowAdded
    <3>5. \A k \in Jobs : RowOf(rows', k) <=> RowOf(rows, k) \/ k = t.job
      BY <2>1, <3>3, <3>4 DEF x
    <3>6. RowJobs = {k \in Jobs : RowOf(rows, k)} /\ RowJobs' = {k \in Jobs : RowOf(rows', k)}
      BY DEF RowJobs, HasRow, RowOf
    <3>7. QED
      BY <3>2, <3>5, <3>6
  <2>4. TaskJobs \subseteq TaskJobs' \union {t.job}
    BY <2>1 DEF TaskJobs, Tasked
  <2>5. Jobs \subseteq Everywhere'
    BY <1>1, <1>3, <2>3, <2>4 DEF Placed, Everywhere
  <2>6. (batch \union OutJobs \union WireJobs)' \subseteq inflight'
    BY <1>1, <1>3, <2>1 DEF Placed
  <2>7. \A u \in tasks' : u.step = "spawned" => u.job \in inflight'
    BY <2>1, <2>2 DEF Placed
  <2>8. QED
    BY <1>5, <2>5, <2>6, <2>7 DEF Placed
<1>11. QED
  BY <1>9, <1>10

\* Every step of a sound run keeps every job somewhere.
LEMMA PlacedNext ==
  ASSUME DriveConstants, IInv, Live => Placed, [Next]_vars, Live'
  PROVE  Placed'
<1>1. Live /\ Placed /\ loop # "ended" /\ miner \in {"dialing", "running"} /\ UNCHANGED <<kind, fault>>
  BY LiveSteps DEF Live
<1>2. Typed /\ Routed /\ Fits /\ Greets /\ JobsSent
  BY DEF IInv
<1>3. toMiner \in Seq(OutMsgs) /\ pending \in Seq(OutMsgs) /\ Wire \in Seq(InMsgs)
  BY <1>2 DEF Typed, OutMsgs, InMsgs, Wire
<1>4. ASSUME NEW m \in OutMsgs, m.type # "Job", Room, toMiner' = Sent(m) PROVE OutTold
  BY <1>1, <1>4 DEF Sent, Room, OutTold
<1>5. CASE Handshake
  <2>1. /\ loop = "hello" /\ toCoord # <<>> /\ toCoord' = Tail(toCoord) /\ staged' = {j \in staged : Capable(j, TRUE)}
        /\ rows' = rows \o Unroutable(staged \ staged')
        /\ UNCHANGED <<batch, inflight, tasks, toMiner, replies>>
    BY <1>1, <1>5 DEF Handshake, dispatchVars, minerVars, Live, Sound
  <2>2. WireTaken
    BY <1>2, <2>1, ReadTakes
  <2>3. Wire[1].type \notin JobTypes
    <3>1. WireJobs = {} /\ 1 \in DOMAIN Wire /\ Named(Wire, JobTypes)
      BY <1>1, <1>2, <1>3, <2>1, <2>2, TailEntries DEF Greets, Routed, Once, WireTaken
    <3>2. QED
      BY <3>1 DEF Named, WireJobs, Carries
  <2>4. QED
    BY <1>1, <2>1, <2>2, <2>3, PlacedUnroutable
<1>6. CASE HandleCapabilities
  <2>1. /\ Next_message("Capabilities") /\ staged' = {j \in staged : Capable(j, FALSE)}
        /\ rows' = rows \o Unroutable(staged \ staged')
        /\ UNCHANGED <<batch, inflight, tasks, toMiner, replies>>
    BY <1>6 DEF HandleCapabilities, GoOn, minerVars
  <2>2. toCoord # <<>> /\ toCoord' = Tail(toCoord) /\ Wire[1].type = "Capabilities"
    BY <1>2, <2>1, MessageRead DEF InTypes
  <2>3. WireTaken /\ Wire[1].type \notin JobTypes
    BY <1>2, <2>1, <2>2, ReadTakes DEF JobTypes
  <2>4. QED
    BY <1>1, <2>1, <2>3, PlacedUnroutable
<1>7. CASE HandleResult
  BY <1>1, <1>7, PlacedResult
<1>8. CASE HandleLeaseDone \/ HandleReject
  BY <1>1, <1>8, PlacedRow
<1>9. CASE Dispatch
  BY <1>1, <1>9, PlacedDispatch
<1>10. CASE DispatchSends
  <2>1. Room /\ UNCHANGED <<toCoord, replies, tasks, rows, staged, inflight, loop>>
    BY <1>10 DEF DispatchSends, routerVars, minerVars
  <2>2. Len(toMiner) < OutCap
    BY <1>1, <2>1 DEF Room
  <2>3. \E j \in batch : toMiner' = Append(toMiner, JobMsg("Job", j)) /\ batch' = batch \ {j}
    BY <1>1, <1>10 DEF DispatchSends, Sent
  <2>4. OutJob /\ Wire' = Wire
    BY <1>1, <2>1, <2>2, <2>3 DEF OutJob, Wire
  <2>5. QED
    BY <1>1, <2>4, PlacedSends
<1>11. CASE \E t \in tasks : TaskTakes(t) \/ \E p \in BOOLEAN : TaskRecords(t, p)
  BY <1>1, <1>11, PlacedTask
<1>12. CASE \E t \in tasks : TaskEnds(t)
  <2>1. PICK t \in tasks : TaskEnds(t)
    BY <1>12
  <2>2. /\ t.step = "checking" /\ tasks' = tasks \ {t}
        /\ UNCHANGED <<staged, batch, inflight, rows, toCoord, replies>>
        /\ Complete(rows) => Room
        /\ toMiner' = IF Complete(rows) THEN Sent(Shutdown) ELSE toMiner
    BY <2>1 DEF TaskEnds, routerVars, dispatchVars, minerVars
  <2>3. OutKept \/ OutTold
    <3>1. Shutdown \in OutMsgs /\ Shutdown.type # "Job"
      BY MsgTypes
    <3>2. QED
      BY <1>4, <2>2, <3>1 DEF OutKept
  <2>4. WireKept
    BY <2>2 DEF WireKept, Wire
  <2>5. QED
    BY <1>1, <2>2, <2>3, <2>4, PlacedKept
<1>13. CASE MinerReceives
  <2> DEFINE m == Head(toMiner)
  <2>1. /\ miner = "running" /\ replies = <<>> /\ toMiner # <<>> /\ toMiner' = Tail(toMiner)
        /\ replies' = CASE m.type = "Configure" -> <<Msg("Ready")>>
                        [] m.type = "Job"       -> Answer(m.job)
                        [] OTHER                -> <<>>
        /\ UNCHANGED <<staged, batch, inflight, tasks, rows, winners, toCoord, loop>>
    BY <1>13 DEF MinerReceives, routerVars, dispatchVars
  <2>2. m = toMiner[1] /\ 1 \in DOMAIN toMiner /\ m \in OutMsgs
    BY <1>3, <2>1, TailEntries
  <2>3. Wire = toCoord /\ Wire' = toCoord \o replies'
    BY <1>2, <2>1 DEF Wire, Typed
  <2> HIDE DEF m
  <2>4. CASE m.type = "Job"
    <3>1. m.job \in Jobs /\ replies' = Answer(m.job)
      BY <1>2, <2>1, <2>2, <2>4 DEF JobsSent, Named
    <3>2. Wire' = Wire \o Answer(toMiner[1].job)
      BY <2>2, <2>3, <3>1
    <3>3. WireAnswer
      BY <1>1, <2>1, <2>2, <2>4, <3>1, <3>2 DEF WireAnswer
    <3>4. QED
      BY <1>1, <3>3, PlacedAnswer
  <2>5. CASE m.type # "Job"
    <3>1. OutJobs' = OutJobs
      <4>1. OutRead /\ toMiner[1].type # "Job"
        BY <2>1, <2>2, <2>5 DEF OutRead
      <4>2. OutJobs' \subseteq OutJobs /\ OutJobs \subseteq OutJobs'
        BY <1>1, <4>1, OutJobsNext, JobsStay
      <4>3. QED
        BY <4>2
    <3>2. WireKept \/ WireTold
      <4>1. CASE m.type = "Configure"
        <5> DEFINE r == Msg("Ready")
        <5>1. replies' = <<r>> /\ r \in InMsgs /\ r.type = "Ready"
          BY <2>1, <4>1, MsgTypes DEF InTypes
        <5> HIDE DEF r
        <5>2. Wire' = Append(Wire, r)
          <6>1. toCoord \o <<r>> = Append(toCoord, r)
            BY <1>2, <5>1 DEF Typed
          <6>2. QED
            BY <2>3, <5>1, <6>1
        <5>3. QED
          BY <1>1, <2>1, <5>1, <5>2 DEF WireTold, JobTypes
      <4>2. CASE m.type # "Configure"
        <5>1. replies' = <<>>
          BY <2>1, <2>5, <4>2
        <5>2. QED
          BY <2>1, <5>1 DEF WireKept, Wire
      <4>3. QED
        BY <4>1, <4>2
    <3>3. WireJobs' = WireJobs
      BY <1>1, <3>2, WireJobsNext
    <3>4. TaskJobs' = TaskJobs /\ RowJobs' = RowJobs
      BY <2>1 DEF TaskJobs, Tasked, RowJobs, HasRow
    <3>5. Followed(Wire', kind')
      BY <1>1, <3>2, FollowedNext DEF Placed
    <3>6. Jobs \subseteq Everywhere'
      BY <1>1, <2>1, <3>1, <3>3, <3>4 DEF Placed, Everywhere
    <3>7. (batch \union OutJobs \union WireJobs)' \subseteq inflight'
      BY <1>1, <2>1, <3>1, <3>3 DEF Placed
    <3>8. \A t \in tasks' : t.step = "spawned" => t.job \in inflight'
      BY <1>1, <2>1 DEF Placed
    <3>9. QED
      BY <3>5, <3>6, <3>7, <3>8 DEF Placed
  <2>6. QED
    BY <2>4, <2>5
<1>14. CASE LoopSends
  <2>1. /\ pending # <<>> /\ Room /\ toMiner' = Sent(Head(pending))
        /\ UNCHANGED <<staged, batch, inflight, tasks, rows, toCoord, replies>>
    BY <1>14 DEF LoopSends, routerVars, dispatchVars, minerVars
  <2>2. Head(pending) \in OutMsgs /\ Head(pending) = pending[1] /\ 1 \in DOMAIN pending
    BY <1>3, <2>1, TailEntries
  <2>3. OutTold
    BY <1>2, <1>4, <2>1, <2>2 DEF Greets
  <2>4. WireKept
    BY <2>1 DEF WireKept, Wire
  <2>5. QED
    BY <1>1, <2>1, <2>3, <2>4, PlacedKept
<1>15. CASE HandleGrant("Ready", Seed) \/ HandleGrant("JobRequest", 1)
  <2>1. PICK type \in {"Ready", "JobRequest"} : Next_message(type)
    BY <1>15 DEF HandleGrant
  <2>2. UNCHANGED <<staged, batch, inflight, tasks, rows, toMiner, replies>>
    BY <1>15 DEF HandleGrant, GoOn, routerVars, minerVars
  <2>3. toCoord # <<>> /\ toCoord' = Tail(toCoord) /\ Wire[1].type = type
    BY <1>2, <2>1, MessageRead DEF InTypes
  <2>4. WireTaken /\ Wire[1].type \notin JobTypes /\ OutKept
    BY <1>2, <2>2, <2>3, ReadTakes DEF JobTypes, OutKept
  <2>5. QED
    BY <1>1, <2>2, <2>4, PlacedKept
<1>16. CASE MinerDials \/ MinerNarrows
  <2>1. PICK type \in {"Hello", "Capabilities"} :
           toCoord' = Append(toCoord, Msg(type)) /\ (type = "Capabilities" => narrowed')
    BY <1>16 DEF MinerDials, MinerNarrows
  <2>2. /\ UNCHANGED <<staged, batch, inflight, tasks, rows, toMiner, replies, winners, loop>> /\ replies = <<>>
    BY <1>2, <1>16 DEF MinerDials, MinerNarrows, routerVars, dispatchVars, Fits
  <2> DEFINE m == Msg(type)
  <2>3. m \in InMsgs /\ m.type = type
    BY MsgTypes DEF InTypes
  <2> HIDE DEF m
  <2>4. Wire' = Append(Wire, m)
    BY <1>2, <2>1, <2>2, <2>3, WireGrows DEF Wire, m
  <2>5. WireTold /\ OutKept
    BY <1>1, <2>1, <2>2, <2>3, <2>4 DEF WireTold, OutKept, JobTypes
  <2>6. QED
    BY <1>1, <2>2, <2>5, PlacedKept
<1>17. CASE Greeted \/ MinerReplies \/ Report \/ UNCHANGED vars
  <2>1. UNCHANGED <<staged, batch, inflight, tasks, rows, toMiner>>
    BY <1>17 DEF Greeted, MinerReplies, Report, vars, routerVars, dispatchVars
  <2>2. WireKept
    <3>1. CASE MinerReplies
      BY <1>2, <3>1, WireMoves DEF MinerReplies, WireKept, Wire
    <3>2. CASE Greeted \/ Report \/ UNCHANGED vars
      <4>1. UNCHANGED <<toCoord, replies>>
        BY <3>2 DEF Greeted, Report, vars, minerVars
      <4>2. QED
        BY <4>1 DEF WireKept, Wire
    <3>3. QED
      BY <1>17, <3>1, <3>2
  <2>3. QED
    BY <1>1, <2>1, <2>2, PlacedKept DEF OutKept
<1>18. QED
  BY <1>5, <1>6, <1>7, <1>8, <1>9, <1>10, <1>11, <1>12, <1>13, <1>14, <1>15, <1>16, <1>17, LiveSteps

\* A run without a fault, over distinct ids and with the right token, reports
\* every job, however small the channels: neither the idle timeout nor a
\* Shutdown cuts the run short, and no path drops a job between the queue, the
\* miner and its row (run_drive, run_session).
THEOREM EveryJobReported == Spec => []NothingLost
<1> DEFINE Flow == Quiet /\ SlotsConserved /\ Delivers
<1>1. ASSUME Init PROVE Flow
  <2>1. Wire = <<>> /\ \A type : ~Has(<<>>, type)
    BY <1>1 DEF Init, Wire, Has
  <2>2. Quiet /\ SlotsConserved
    BY <1>1, <2>1 DEF Init, Quiet, SlotsConserved
  <2>3. Spare /\ Known /\ Finished /\ NothingLost
    BY <1>1, <2>1 DEF Init, Spare, Known, Finished, NothingLost
  <2>4. Placed
    <3>1. OutJobs = {} /\ WireJobs = {} /\ batch = {} /\ tasks = {} /\ staged = Jobs
      BY <1>1, <2>1, CarriesNone DEF Init, OutJobs, WireJobs
    <3>2. Followed(Wire, kind)
      BY <2>1 DEF Followed
    <3>3. QED
      BY <3>1, <3>2 DEF Placed, Everywhere
  <2>5. QED
    BY <2>2, <2>3, <2>4 DEF Delivers
<1>2. IInv /\ IInv' /\ Flow /\ [Next]_vars => Flow'
  <2> SUFFICES ASSUME IInv, IInv', Flow, [Next]_vars PROVE Flow'
    OBVIOUS
  <2>1. Quiet' /\ SlotsConserved'
    BY DriveConstants, QuietNext, SlotsNext
  <2>2. Spare' /\ Known' /\ NothingLost'
    BY DriveConstants, SpareNext, KnownNext, ReportNext DEF Delivers
  <2>3. Live' => Placed'
    BY DriveConstants, PlacedNext DEF Delivers
  <2>4. Finished'
    BY DriveConstants, FinishedNext DEF Delivers
  <2>5. QED
    BY <2>1, <2>2, <2>3, <2>4 DEF Delivers
<1>3. Flow => NothingLost
  BY DEF Delivers
<1>4. QED
  BY <1>1, <1>2, <1>3, Invariance, PTL DEF Spec
-----------------------------------------------------------------------------
(***************************************************************************)
(* The sources of the jobs: the leases of a range and the lines of a list. *)
(***************************************************************************)

\* A non-empty set of numbers has a least one.
LEMMA LeastNat ==
  ASSUME NEW T, T \subseteq Nat, T # {}
  PROVE  \E x \in T : \A y \in T : x <= y
<1> DEFINE R == {p \in Nat \X Nat : p[1] < p[2]}
<1>1. IsWellFoundedOn(R, Nat)
  BY NatLessThanWellFounded DEF OpToRel
<1>2. PICK x \in T : \A y \in T : ~(<<y, x>> \in R)
  BY <1>1, WFMin
<1>3. \A y \in T : x \in Nat /\ y \in Nat
  OBVIOUS
<1>4. \A y \in T : ~(y < x)
  BY <1>2, <1>3
<1>5. QED
  BY <1>3, <1>4

\* There are n numbers from 1 to n.
LEMMA UpTo ==
  ASSUME NEW n \in Nat
  PROVE  IsFiniteSet(1 .. n) /\ Cardinality(1 .. n) = n
<1>1. 1 \in Int /\ n \in Int
  OBVIOUS
<1>2. /\ IsFiniteSet(1 .. n)
      /\ Cardinality(1 .. n) = IF 1 > n THEN 0 ELSE n - 1 + 1
  BY <1>1, FS_Interval
<1>3. QED
  BY <1>2

\* A finite set of numbers can be listed in ascending order.
LEMMA AscendingExists ==
  ASSUME NEW D \in SUBSET Nat, IsFiniteSet(D)
  PROVE  \E s \in [1 .. Cardinality(D) -> D] : Ascending(s)
<1> DEFINE Orderable(E) == \E s \in [1 .. Cardinality(E) -> E] : Ascending(s)
           bad == {n \in Nat : \E E \in SUBSET Nat : IsFiniteSet(E) /\ Cardinality(E) = n /\ ~Orderable(E)}
<1>1. SUFFICES bad = {}
  <2>1. Cardinality(D) \in Nat
    BY FS_CardinalityType
  <2> HIDE DEF Orderable
  <2>2. Cardinality(D) \notin bad
    BY <1>1
  <2>3. Orderable(D)
    BY <2>1, <2>2
  <2>4. QED
    BY <2>3 DEF Orderable
<1>2. SUFFICES ASSUME bad # {} PROVE FALSE
  OBVIOUS
<1>3. PICK n \in bad : \A y \in bad : n <= y
  <2>1. bad \subseteq Nat
    OBVIOUS
  <2> HIDE DEF bad
  <2>2. QED
    BY <1>2, <2>1, LeastNat
<1>4. PICK E \in SUBSET Nat : IsFiniteSet(E) /\ Cardinality(E) = n /\ ~Orderable(E)
  <2> HIDE DEF Orderable
  <2>1. QED
    BY <1>3
<1>5. n \in Nat
  BY <1>3
<1>6. CASE n = 0
  <2>1. [i \in 1 .. 0 |-> i] \in [1 .. 0 -> E] /\ Ascending([i \in 1 .. 0 |-> i])
    BY DEF Ascending
  <2>2. QED
    BY <1>4, <1>6, <2>1
<1>7. CASE n # 0
  <2>1. E # {}
    BY <1>4, <1>7, FS_EmptySet
  <2>2. PICK x \in E : \A y \in E : x <= y
    BY <2>1, LeastNat
  <2> DEFINE G == E \ {x}
             m == n - 1
  <2>3. IsFiniteSet(G) /\ Cardinality(G) = m /\ G \in SUBSET Nat
    BY <1>4, FS_RemoveElement
  <2>4. m \in Nat /\ ~(n <= m) /\ m + 1 = n
    BY <1>5, <1>7
  <2>5. Orderable(G)
    <3> HIDE DEF Orderable, G
    <3>1. m \notin bad
      <4> HIDE DEF bad
      <4>1. QED
        BY <1>3, <2>4
    <3>2. QED
      BY <2>3, <2>4, <3>1
  <2>6. PICK t \in [1 .. m -> G] : Ascending(t)
    BY <2>3, <2>5
  <2> DEFINE s == [i \in 1 .. n |-> IF i = 1 THEN x ELSE t[i - 1]]
  <2>7. \A i \in 1 .. n : i # 1 => i - 1 \in 1 .. m
    BY <2>4
  <2>8. s \in [1 .. n -> E]
    BY <2>6, <2>7
  <2>9. \A y \in G : x < y
    BY <2>2
  <2>10. Ascending(s)
    <3> SUFFICES ASSUME NEW i \in 1 .. n, NEW k \in 1 .. n, i < k PROVE s[i] < s[k]
      BY DEF Ascending
    <3>1. k # 1 /\ s[k] = t[k - 1] /\ k - 1 \in 1 .. m
      BY <2>7
    <3>2. CASE i = 1
      <4>1. t[k - 1] \in G
        BY <2>6, <3>1
      <4>2. QED
        BY <2>9, <3>1, <3>2, <4>1
    <3>3. CASE i # 1
      <4>1. s[i] = t[i - 1] /\ i - 1 \in 1 .. m /\ i - 1 < k - 1
        BY <2>7, <3>3
      <4>2. t[i - 1] < t[k - 1]
        BY <2>6, <3>1, <4>1 DEF Ascending
      <4>3. QED
        BY <3>1, <4>1, <4>2
    <3>4. QED
      BY <3>2, <3>3
  <2>11. Orderable(E)
    <3> HIDE DEF s
    <3>1. QED
      BY <1>4, <2>8, <2>10
  <2>12. QED
    BY <1>4, <2>11
<1>8. QED
  BY <1>6, <1>7

\* That listing is the one InOrderOf chooses.
LEMMA OrderedIsListing ==
  ASSUME NEW D \in SUBSET Nat, IsFiniteSet(D)
  PROVE  InOrderOf(D) \in [1 .. Cardinality(D) -> D] /\ Ascending(InOrderOf(D))
<1>1. \E s \in [1 .. Cardinality(D) -> D] : Ascending(s)
  BY AscendingExists
<1>2. QED
  BY <1>1 DEF InOrderOf

\* An ascending listing lists every member, each once.
LEMMA ListingIsWhole ==
  ASSUME NEW D \in SUBSET Nat, IsFiniteSet(D)
  PROVE  /\ \A i, k \in 1 .. Cardinality(D) : InOrderOf(D)[i] = InOrderOf(D)[k] => i = k
         /\ \A d \in D : \E i \in 1 .. Cardinality(D) : InOrderOf(D)[i] = d
<1> DEFINE n == Cardinality(D)
           at == InOrderOf(D)
<1>1. n \in Nat
  BY FS_CardinalityType
<1>2. at \in [1 .. n -> D] /\ Ascending(at)
  BY OrderedIsListing
<1>3. IsFiniteSet(1 .. n) /\ Cardinality(1 .. n) = n
  <2> HIDE DEF n
  <2>1. QED
    BY <1>1, UpTo
<1> HIDE DEF n, at
<1>4. \A i, k \in 1 .. n : at[i] = at[k] => i = k
  <2> TAKE i, k \in 1 .. n
  <2> HAVE at[i] = at[k]
  <2>1. at[i] \in Nat
    BY <1>2
  <2>2. i < k => at[i] < at[k]
    BY <1>2 DEF Ascending
  <2>3. k < i => at[k] < at[i]
    BY <1>2 DEF Ascending
  <2>4. QED
    BY <1>1, <2>1, <2>2, <2>3
<1>5. at \in Injection(1 .. n, D)
  BY <1>2, <1>4 DEF Injection, IsInjective
<1>6. Cardinality(1 .. n) = Cardinality(D)
  BY <1>3 DEF n
<1>7. at \in Surjection(1 .. n, D)
  BY <1>5, <1>6, FS_Injection
<1>8. \A d \in D : \E i \in 1 .. n : at[i] = d
  BY <1>7 DEF Surjection
<1>9. QED
  BY <1>4, <1>8 DEF n, at

\* A lease put before leases that follow on it.
LEMMA OneLeaseMore ==
  ASSUME NEW R, NEW rest \in Seq(R), NEW l \in R, NEW from \in Nat, NEW to, NEW size \in Nat,
         l.start = from, l.count \in 1 .. AtLeastOne(size), Tiles(rest, from + l.count, to, size)
  PROVE  <<l>> \o rest \in Seq(R) /\ Tiles(<<l>> \o rest, from, to, size)
<1> DEFINE n == Len(rest)
           c == <<l>> \o rest
<1>1. n \in Nat /\ DOMAIN rest = 1 .. n
  BY LenProperties
<1>2. c \in Seq(R) /\ Len(c) = n + 1 /\ DOMAIN c = 1 .. n + 1
  BY <1>1, LenProperties, ConcatProperties
<1>3. c[1] = l
  BY <1>1
<1>4. \A i \in 1 .. n : c[i + 1] = rest[i]
  BY <1>1
<1>5. c # <<>>
  BY <1>2
<1> HIDE DEF c, n
<1>6. ASSUME NEW i \in DOMAIN c
      PROVE  /\ c[i].count \in 1 .. AtLeastOne(size)
             /\ c[i].start = IF i = 1 THEN from ELSE c[i - 1].start + c[i - 1].count
  <2>1. CASE i = 1
    BY <1>3, <2>1
  <2>2. CASE i = 2
    <3>1. 1 \in 1 .. n /\ i = 1 + 1
      BY <1>1, <1>2, <2>2
    <3>2. c[i] = rest[1]
      BY <1>4, <3>1
    <3>3. rest[1].count \in 1 .. AtLeastOne(size) /\ rest[1].start = from + l.count
      BY <1>1, <3>1 DEF Tiles
    <3>4. i - 1 = 1 /\ i # 1
      BY <2>2
    <3>5. QED
      BY <1>3, <3>2, <3>3, <3>4
  <2>3. CASE i # 1 /\ i # 2
    <3>1. i - 1 \in 1 .. n /\ (i - 1) + 1 = i /\ i - 1 # 1 /\ i - 2 \in 1 .. n /\ (i - 2) + 1 = i - 1
          /\ (i - 1) - 1 = i - 2
      BY <1>1, <1>2, <2>3
    <3>2. c[i] = rest[i - 1] /\ c[i - 1] = rest[i - 2]
      BY <1>4, <3>1
    <3>3. /\ rest[i - 1].count \in 1 .. AtLeastOne(size)
          /\ rest[i - 1].start = IF i - 1 = 1 THEN from + l.count
                                 ELSE rest[(i - 1) - 1].start + rest[(i - 1) - 1].count
      BY <1>1, <3>1 DEF Tiles
    <3>4. rest[i - 1].start = rest[i - 2].start + rest[i - 2].count
      BY <3>1, <3>3
    <3>5. QED
      BY <2>3, <3>2, <3>3, <3>4
  <2>4. QED
    BY <2>1, <2>2, <2>3
<1>7. to = c[Len(c)].start + c[Len(c)].count
  <2>1. to = IF rest = <<>> THEN from + l.count ELSE rest[n].start + rest[n].count
    BY DEF Tiles, n
  <2>2. CASE rest = <<>>
    <3>1. n = 0
      BY <2>2 DEF n
    <3>2. Len(c) = 1
      BY <1>2, <3>1
    <3>3. QED
      BY <1>3, <2>1, <2>2, <3>2
  <2>3. CASE rest # <<>>
    <3>1. n \in 1 .. n
      BY <1>1, <2>3, EmptySeq DEF n
    <3>2. c[Len(c)] = rest[n]
      BY <1>2, <1>4, <3>1
    <3>3. QED
      BY <2>1, <2>3, <3>2
  <2>4. QED
    BY <2>2, <2>3
<1>8. Tiles(c, from, to, size)
  BY <1>5, <1>6, <1>7 DEF Tiles
<1>9. QED
  BY <1>2, <1>8 DEF c

\* f[s] is one lease at s and then f at its end, up to n.
Leasing(f, n, size) ==
  /\ f[n] = <<>>
  /\ \A s \in 0 .. n - 1 :
       LET count == LeaseCount(s, n, size) IN
       f[s] = <<[id |-> LeaseId(s), start |-> s, count |-> count]>> \o f[s + count]

\* A lease takes at least one salt and ends within the range.
LEMMA LeaseEnds ==
  ASSUME NEW n \in Nat, NEW size \in Nat, NEW s \in 0 .. n - 1
  PROVE  /\ LeaseCount(s, n, size) \in 1 .. AtLeastOne(size)
         /\ s + LeaseCount(s, n, size) \in s + 1 .. n
         /\ LesserOf(s + LeaseCount(s, n, size), n) = s + LeaseCount(s, n, size)
BY DEF LeaseCount, LesserOf, AtLeastOne

\* LeaseSource follows its leases; that its recursion has a solution is shown by
\* the least length of a range without one.
LEMMA LeaseSteps ==
  ASSUME NEW n \in Nat, NEW size \in Nat
  PROVE  \E f : Leasing(f, n, size) /\ LeaseSource(n, size) = f[0]
<1> DEFINE C(s) == LeaseCount(s, n, size)
           L(s) == <<[id |-> LeaseId(s), start |-> s, count |-> C(s)]>>
           E(s) == LesserOf(s + C(s), n)
           Step(f, m) == [s \in n - m .. n |-> IF s = n THEN <<>> ELSE L(s) \o f[E(s)]]
           leases == CHOOSE f : f = Step(f, n)
           has(m) == \E f : f = Step(f, m)
           bad == {m \in 0 .. n : ~has(m)}
<1>1. LeaseSource(n, size) = leases[0]
  <2>1. n - n = 0
    OBVIOUS
  <2>2. leases = CHOOSE f : f = [s \in 0 .. n |-> IF s = n THEN <<>> ELSE L(s) \o f[E(s)]]
    BY <2>1
  <2>3. QED
    BY <2>2 DEF LeaseSource
<1>2. \A s \in 0 .. n - 1 : E(s) \in s + 1 .. n /\ E(s) = s + C(s)
  BY LeaseEnds
<1> HIDE DEF L, E, C
<1>3. has(0)
  <2> DEFINE f == [s \in n - 0 .. n |-> <<>>]
  <2>1. \A s \in n - 0 .. n : s = n
    OBVIOUS
  <2>2. f = Step(f, 0)
    BY <2>1
  <2>3. QED
    BY <2>2
<1>4. ASSUME NEW m \in 0 .. n - 1, has(m) PROVE has(m + 1)
  <2>1. PICK f : f = Step(f, m)
    BY <1>4
  <2> DEFINE t == n - (m + 1)
             g == [s \in t .. n |-> IF s = t THEN L(t) \o f[E(t)] ELSE f[s]]
  <2>2. \A s \in n - m .. n : f[s] = IF s = n THEN <<>> ELSE L(s) \o f[E(s)]
    BY <2>1
  <2>3. \A s \in t .. n : g[s] = IF s = n THEN <<>> ELSE L(s) \o g[E(s)]
    <3> TAKE s \in t .. n
    <3>1. t \in 0 .. n - 1
      OBVIOUS
    <3>2. CASE s = t
      <4>1. s # n /\ E(t) \in t .. n /\ E(t) # t
        BY <1>2, <3>1, <3>2
      <4>2. g[s] = L(t) \o f[E(t)] /\ g[E(t)] = f[E(t)]
        BY <3>2, <4>1
      <4> HIDE DEF g
      <4>3. QED
        BY <3>2, <4>1, <4>2
    <3>3. CASE s # t
      <4>1. s \in n - m .. n
        BY <3>3
      <4>2. g[s] = f[s]
        BY <3>3
      <4>3. s # n => s \in 0 .. n - 1
        BY <3>1
      <4>4. s # n => E(s) \in t .. n /\ E(s) # t
        BY <1>2, <3>1, <4>3
      <4>5. s # n => g[E(s)] = f[E(s)]
        BY <4>4
      <4> HIDE DEF g
      <4>6. QED
        BY <2>2, <4>1, <4>2, <4>5
    <3>4. QED
      BY <3>2, <3>3
  <2>4. g = [s \in t .. n |-> g[s]]
    OBVIOUS
  <2> HIDE DEF g
  <2>5. g = Step(g, m + 1)
    BY <2>3, <2>4
  <2>6. QED
    BY <2>5
<1>5. bad = {}
  <2> SUFFICES ASSUME bad # {} PROVE FALSE
    OBVIOUS
  <2> HIDE DEF has
  <2>1. bad \subseteq Nat
    OBVIOUS
  <2>2. PICK m \in bad : \A y \in bad : m <= y
    <3> HIDE DEF bad
    <3>1. QED
      BY <2>1, LeastNat
  <2>3. m \in 0 .. n /\ ~has(m)
    BY <2>2
  <2>4. m # 0
    BY <1>3, <2>3
  <2>5. m - 1 \in 0 .. n /\ m - 1 \in 0 .. n - 1 /\ m - 1 + 1 = m /\ ~(m <= m - 1)
    BY <2>3, <2>4
  <2>6. m - 1 \notin bad
    BY <2>2, <2>5
  <2>7. has(m - 1)
    BY <2>5, <2>6
  <2>8. has(m - 1 + 1)
    BY <1>4, <2>5, <2>7
  <2>9. QED
    BY <2>3, <2>5, <2>8
<1>6. has(n)
  <2> HIDE DEF has
  <2>1. QED
    BY <1>5
<1>7. leases = Step(leases, n)
  BY <1>6
<1> HIDE DEF leases
<1>8. \A s \in 0 .. n : leases[s] = IF s = n THEN <<>> ELSE L(s) \o leases[E(s)]
  <2>1. n - n = 0
    OBVIOUS
  <2>2. leases = [s \in 0 .. n |-> IF s = n THEN <<>> ELSE L(s) \o leases[E(s)]]
    BY <1>7, <2>1
  <2>3. QED
    BY <2>2
<1>9. leases[n] = <<>> /\ \A s \in 0 .. n - 1 : leases[s] = L(s) \o leases[s + C(s)]
  <2>1. n \in 0 .. n /\ \A s \in 0 .. n - 1 : s \in 0 .. n /\ s # n
    OBVIOUS
  <2>2. leases[n] = <<>>
    BY <1>8, <2>1
  <2>3. \A s \in 0 .. n - 1 : leases[s] = L(s) \o leases[E(s)]
    BY <1>8, <2>1
  <2>4. QED
    BY <1>2, <2>2, <2>3
<1>10. Leasing(leases, n, size)
  BY <1>9 DEF Leasing, L, C
<1>11. QED
  BY <1>1, <1>10

\* The leases that LeaseSource hands out for any number of salts and any lease size
\* tile the range: no salt is skipped, none is leased twice, and none past its end.
THEOREM LeasesTile ==
  ASSUME NEW n \in Nat, NEW size \in Nat
  PROVE  Tiles(LeaseSource(n, size), 0, n, size)
<1> DEFINE R == [id : {LeaseId(s) : s \in Nat}, start : Nat, count : Nat]
<1>1. PICK f : Leasing(f, n, size) /\ LeaseSource(n, size) = f[0]
  BY LeaseSteps
<1> DEFINE good(s) == f[s] \in Seq(R) /\ Tiles(f[s], s, n, size)
           bad == {m \in 0 .. n : ~good(n - m)}
<1>2. good(n)
  <2>1. f[n] = <<>>
    BY <1>1 DEF Leasing
  <2>2. QED
    BY <2>1 DEF Tiles
<1>3. ASSUME NEW s \in 0 .. n - 1, good(s + LeaseCount(s, n, size)) PROVE good(s)
  <2> DEFINE count == LeaseCount(s, n, size)
             l == [id |-> LeaseId(s), start |-> s, count |-> count]
  <2>1. f[s] = <<l>> \o f[s + count]
    BY <1>1 DEF Leasing
  <2>2. count \in 1 .. AtLeastOne(size) /\ count \in Nat
    BY LeaseEnds
  <2>3. l \in R /\ l.start = s /\ l.count = count
    BY <2>2
  <2>4. f[s + count] \in Seq(R) /\ Tiles(f[s + count], s + count, n, size)
    BY <1>3
  <2> HIDE DEF count, l, R
  <2>5. l.count \in 1 .. AtLeastOne(size) /\ Tiles(f[s + count], s + l.count, n, size) /\ s \in Nat
    BY <2>2, <2>3, <2>4
  <2>6. <<l>> \o f[s + count] \in Seq(R) /\ Tiles(<<l>> \o f[s + count], s, n, size)
    BY ONLY <2>3, <2>4, <2>5, OneLeaseMore, size \in Nat
  <2>7. QED
    BY <2>1, <2>6
<1>4. bad = {}
  <2> SUFFICES ASSUME bad # {} PROVE FALSE
    OBVIOUS
  <2> HIDE DEF good
  <2>1. bad \subseteq Nat
    OBVIOUS
  <2>2. PICK m \in bad : \A y \in bad : m <= y
    <3> HIDE DEF bad
    <3>1. QED
      BY <2>1, LeastNat
  <2>3. m \in 0 .. n /\ ~good(n - m)
    BY <2>2
  <2> DEFINE s == n - m
             e == s + LeaseCount(s, n, size)
  <2>4. m # 0
    BY <1>2, <2>3
  <2>5. s \in 0 .. n - 1
    BY <2>3, <2>4
  <2>6. e \in s + 1 .. n
    BY <2>5, LeaseEnds
  <2> HIDE DEF e
  <2>7. n - e \in 0 .. n /\ ~(m <= n - e) /\ n - (n - e) = e
    BY <2>3, <2>5, <2>6
  <2>8. n - e \notin bad
    BY <2>2, <2>7
  <2>9. good(e)
    BY <2>7, <2>8
  <2>10. good(s)
    BY <1>3, <2>5, <2>9 DEF e
  <2>11. QED
    BY <2>3, <2>10
<1>5. good(0)
  <2> HIDE DEF good
  <2>1. n \in 0 .. n /\ n - n = 0
    OBVIOUS
  <2>2. QED
    BY <1>4, <2>1
<1>6. QED
  BY <1>1, <1>5

\* An entry that build_entry_job accepts is explicit, or has a nonce.
LEMMA EntryKinds ==
  ASSUME NEW line \in Lines, NEW graph \in BOOLEAN, EntryRefused(line, graph) = "no"
  PROVE  line.explicit \/ line.nonce # "none"
<1>1. line.json /\ (line.nonce # "none") # line.explicit
  BY DEF EntryRefused
<1>2. line.explicit \in BOOLEAN
  BY DEF Lines
<1>3. QED
  BY <1>1, <1>2

\* The jobs of an accepted list, one per entry.
LEMMA ListIsWhole ==
  ASSUME NEW lines \in Seq(Lines), NEW graph \in BOOLEAN, NEW entries \in SUBSET DOMAIN lines,
         \A n \in entries : EntryRefused(lines[n], graph) = "no",
         NEW jobs, jobs = [i \in DOMAIN InOrderOf(entries) |->
                             EntryJob(lines[InOrderOf(entries)[i]], InOrderOf(entries)[i])]
  PROVE  OneJobPerEntry(lines, entries, jobs)
<1> DEFINE at == InOrderOf(entries)
           m == Cardinality(entries)
<1>1. DOMAIN lines = 1 .. Len(lines) /\ Len(lines) \in Nat /\ \A n \in DOMAIN lines : lines[n] \in Lines
  BY LenProperties, ElementOfSeq
<1>2. entries \in SUBSET Nat /\ IsFiniteSet(entries) /\ m \in Nat
  <2>1. IsFiniteSet(1 .. Len(lines))
    BY <1>1, UpTo
  <2>2. IsFiniteSet(entries)
    BY <1>1, <2>1, FS_Subset
  <2>3. QED
    BY <1>1, <2>2, FS_CardinalityType
<1>3. at \in [1 .. m -> entries]
  BY <1>2, OrderedIsListing
<1>4. /\ \A i, k \in 1 .. m : at[i] = at[k] => i = k
      /\ \A d \in entries : \E i \in 1 .. m : at[i] = d
  BY <1>2, ListingIsWhole
<1> HIDE DEF at, m
<1>5. DOMAIN jobs = 1 .. m /\ \A i \in 1 .. m : jobs[i] = EntryJob(lines[at[i]], at[i])
  BY <1>3 DEF at
<1>6. \A i \in 1 .. m : /\ jobs[i].generation = at[i]
                        /\ jobs[i].id = IF lines[at[i]].explicit THEN ExplicitId(at[i])
                                        ELSE NonceId(lines[at[i]].nonce)
  BY <1>5 DEF EntryJob
<1>7. {jobs[i].generation : i \in DOMAIN jobs} = entries
  <2>1. \A i \in DOMAIN jobs : jobs[i].generation \in entries
    BY <1>3, <1>5, <1>6
  <2>2. \A d \in entries : \E i \in DOMAIN jobs : jobs[i].generation = d
    BY <1>4, <1>5, <1>6
  <2>3. QED
    BY <2>1, <2>2
<1>8. Len(jobs) = m
  BY <1>2, <1>5
<1>9. ASSUME NEW i \in DOMAIN jobs, NEW k \in DOMAIN jobs, i # k, jobs[i].id = jobs[k].id
      PROVE  \E a, b \in entries : a # b /\ lines[a].nonce = lines[b].nonce /\ lines[a].nonce # "none"
  <2> DEFINE a == at[i]
             b == at[k]
  <2>1. a \in entries /\ b \in entries /\ a # b
    BY <1>3, <1>4, <1>5, <1>9
  <2>2. (IF lines[a].explicit THEN ExplicitId(a) ELSE NonceId(lines[a].nonce))
          = (IF lines[b].explicit THEN ExplicitId(b) ELSE NonceId(lines[b].nonce))
    BY <1>5, <1>6, <1>9
  <2> HIDE DEF a, b
  <2>3. ~lines[a].explicit /\ ~lines[b].explicit /\ lines[a].nonce = lines[b].nonce
    BY <2>1, <2>2 DEF ExplicitId, NonceId
  <2>4. lines[a] \in Lines /\ EntryRefused(lines[a], graph) = "no"
    BY <1>1, <2>1
  <2>5. lines[a].nonce # "none"
    BY <2>3, <2>4, EntryKinds
  <2>6. QED
    BY <2>1, <2>3, <2>5
<1>10. QED
  BY <1>7, <1>8, <1>9 DEF OneJobPerEntry, m

\* ListSource::parse names the first bad line, or yields one job per entry.
LEMMA ListsHold ==
  ASSUME NEW lines \in Lists, NEW graph \in BOOLEAN
  PROVE  LET built == ListSource(lines, graph)
             entries == {n \in DOMAIN lines : ~lines[n].blank}
             wrong == {n \in entries : EntryRefused(lines[n], graph) # "no"}
         IN  IF IsRefused(built)
             THEN built.refused[2] \in wrong /\ \A n \in wrong : built.refused[2] <= n
             ELSE wrong = {} /\ OneJobPerEntry(lines, entries, built.jobs)
<1> DEFINE built == ListSource(lines, graph)
           entries == {n \in DOMAIN lines : ~lines[n].blank}
           wrong == {n \in entries : EntryRefused(lines[n], graph) # "no"}
           order == InOrderOf(entries)
           jobs == [i \in DOMAIN order |-> EntryJob(lines[order[i]], order[i])]
           why == EntryRefused(lines[Min(wrong)], graph)
<1>1. built = IF wrong # {} THEN Refused(<<why, Min(wrong)>>) ELSE [jobs |-> jobs]
  BY Zenon DEF ListSource
<1>2. lines \in Seq(Lines)
  BY SourcesConstants
<1>3. entries \in SUBSET DOMAIN lines /\ wrong \subseteq entries
  OBVIOUS
<1>4. \A n \in entries : n \notin wrong => EntryRefused(lines[n], graph) = "no"
  OBVIOUS
<1>5. wrong \subseteq Nat
  BY <1>2, <1>3, LenProperties
<1> HIDE DEF built, wrong, why
<1>6. CASE wrong # {}
  <2>1. \E x \in wrong : \A y \in wrong : x <= y
    BY <1>5, <1>6, LeastNat
  <2>2. Min(wrong) \in wrong /\ \A y \in wrong : Min(wrong) <= y
    BY <2>1 DEF Min
  <2>3. built = [refused |-> <<why, Min(wrong)>>]
    BY <1>1, <1>6 DEF Refused
  <2>4. IsRefused(built) /\ built.refused[2] = Min(wrong)
    BY <2>3 DEF IsRefused
  <2>5. QED
    BY <2>2, <2>4 DEF built, wrong
<1>7. CASE wrong = {}
  <2>1. built = [jobs |-> jobs]
    BY <1>1, <1>7
  <2>2. \A n \in entries : EntryRefused(lines[n], graph) = "no"
    BY <1>4, <1>7
  <2> HIDE DEF entries
  <2>3. OneJobPerEntry(lines, entries, jobs)
    BY <1>2, <1>3, <2>2, ListIsWhole
  <2> HIDE DEF jobs
  <2>4. ~IsRefused(built) /\ built.jobs = jobs
    <3>1. DOMAIN built = {"jobs"} /\ "jobs" # "refused"
      BY <2>1
    <3>2. QED
      BY <2>1, <3>1 DEF IsRefused
  <2>5. QED
    BY <1>7, <2>3, <2>4 DEF built, wrong, entries
<1>8. QED
  BY <1>6, <1>7

\* The two sources hand out what they were given.
LEMMA JobsHold == JobsFaithful
<1>1. \A salts, lease_size \in 0 .. MaxCount : Tiles(LeaseSource(salts, lease_size), 0, salts, lease_size)
  <2>1. \A x \in 0 .. MaxCount : x \in Nat
    BY SourcesConstants
  <2>2. QED
    BY <2>1, LeasesTile
<1>2. QED
  BY <1>1, ListsHold, Zenon DEF JobsFaithful

\* What build_jobs stages is what the operator named, for every range, lease size
\* and list.
THEOREM JobsAreSound == Spec => []JobsSound
<1>1. JobsSound
  BY JobsHold DEF JobsSound
<1> QED
  BY <1>1, PTL
=============================================================================
