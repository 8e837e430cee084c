------------------------------ MODULE Sources ------------------------------
(***************************************************************************)
(* Where a drive run's graph and jobs come from: the topology a run        *)
(* resolves (chain, file, preset or none), its validation and canonical    *)
(* hash (drive/topology_spec.rs, topology.rs), and the three job sources   *)
(* (drive/random_source.rs, lease_source.rs, list_source.rs) that          *)
(* build_jobs of main.rs drains before anything is staged.                 *)
(***************************************************************************)
EXTENDS Naturals, Sequences, FiniteSets, SequencesExt, FiniteSetsExt, Listing

CONSTANTS
  Specs,     \* topology specs an operator or a chain may hold
  Lists,     \* JSONL files: sequences of lines
  MaxCount   \* bound: --count and --lease-size

\* A line is blank, broken JSON, or an entry with a nonce, explicit fields or both.
Lines == [blank : BOOLEAN, json : BOOLEAN, nonce : STRING, explicit : BOOLEAN]

ASSUME SourcesConstants == Lists \subseteq Seq(Lines) /\ MaxCount \in Nat

NoSpec == [none |-> TRUE]
Refused(why) == [refused |-> why]
IsRefused(r) == DOMAIN r = {"refused"}
DEFAULT_SPIN_SET == <<1, 2>>

Endpoints(edge) == {edge[1], edge[2]}

\* (u, v) with u <= v
Oriented(edge) == IF edge[1] <= edge[2] THEN edge ELSE <<edge[2], edge[1]>>
EdgeBefore(a, b) == a[1] < b[1] \/ (a[1] = b[1] /\ a[2] < b[2])

\* AllowedValueSpec::canonical_bytes does not depend on the order of a value set
canonical_bytes(values) == SortSeq(values, <)

\* the edges hashed as they are listed
HashAsListed(spec) ==
  <<SortSeq(spec.nodes, <), SortSeq(spec.edges, EdgeBefore),
    canonical_bytes(spec.h), canonical_bytes(spec.j), canonical_bytes(spec.spin)>>

\* The canonical form is its own hash: equal only for equal forms.
topology_hash(spec) ==
  <<SortSeq(spec.nodes, <),
    SortSeq([i \in DOMAIN spec.edges |-> Oriented(spec.edges[i])], EdgeBefore),
    canonical_bytes(spec.h), canonical_bytes(spec.j), canonical_bytes(spec.spin)>>

\* validate_spec, in the order of its checks
validate_spec(raw) ==
  IF raw.nodes = <<>> THEN Refused("EmptyNodes")
  ELSE IF raw.h = <<>> THEN Refused("EmptyAllowedH")
  ELSE IF raw.j = <<>> THEN Refused("EmptyAllowedJ")
  ELSE IF \E e \in ToSet(raw.edges) : ~(Endpoints(e) \subseteq ToSet(raw.nodes))
       THEN Refused("EdgeUnknownNode")
  ELSE [raw EXCEPT !.spin = IF @ = <<>> THEN DEFAULT_SPIN_SET ELSE @]

\* require_set_values: a range or an empty set is not drawn from
from_chain_meta(hash, meta) ==
  LET spec == validate_spec(meta) IN
  IF ~meta.sets \/ <<>> \in {meta.h, meta.j, meta.spin} THEN Refused("values")
  ELSE IF IsRefused(spec) THEN spec
  ELSE IF topology_hash(spec) = hash THEN spec ELSE Refused("hash")

\* --topology-from-chain, then a file or a named preset (`file`), then the default
\* preset for generated work; a list replays without one.
resolve_topology(args) ==
  CASE args.chain # NoSpec -> from_chain_meta(args.hash, args.chain)
    [] args.chain = NoSpec /\ args.file # NoSpec -> validate_spec(args.file)
    [] args.chain = NoSpec /\ args.file = NoSpec ->
         IF args.source = "list" THEN NoSpec ELSE validate_spec(args.preset)
-----------------------------------------------------------------------------
DrawnId(seed, n) == <<"drawn", seed, n>>   \* the nonce derived from the salt
NonceId(n)    == <<"nonce", n>>
ExplicitId(n) == <<"explicit", n>>
LeaseId(n)    == <<"lease", n>>

\* derive_pow_job: fails only on an empty value set
Drawable(spec) == spec.h # <<>> /\ spec.j # <<>>

\* one problem per index, until the count or the first that cannot be drawn
RandomSource(spec, seed, count) ==
  IF ~Drawable(spec) THEN <<>>
  ELSE [i \in 1 .. count |-> [id |-> DrawnId(seed, i - 1), generation |-> i]]

AtLeastOne(n) == IF n = 0 THEN 1 ELSE n
LesserOf(a, b) == IF a < b THEN a ELSE b

FullLease(start, salts, lease_size) == AtLeastOne(lease_size)

\* LeaseSource::next_job, the salts of the lease that begins at `start`
LeaseCount(start, salts, lease_size) == LesserOf(AtLeastOne(lease_size), salts - start)

LeaseSource(salts, lease_size) ==
  LET Leases[start \in 0 .. salts] ==
        LET count == LeaseCount(start, salts, lease_size) IN
        IF start = salts THEN <<>>
        ELSE <<[id |-> LeaseId(start), start |-> start, count |-> count]>>
               \o Leases[LesserOf(start + count, salts)]
  IN  Leases[0]

\* build_entry_job: exactly one of nonce and h_milli, and a graph for a nonce
EntryRefused(line, graph) ==
  IF ~line.json THEN "Parse"
  ELSE IF (line.nonce # "none") = line.explicit THEN "AmbiguousEntry"
  ELSE IF line.explicit THEN "no"
  ELSE IF ~graph THEN "MissingTopology"
  ELSE IF line.nonce = "bad" THEN "Parse" ELSE "no"

EntryJob(line, n) ==
  [id |-> IF line.explicit THEN ExplicitId(n) ELSE NonceId(line.nonce), generation |-> n]

\* ListSource::parse: blank lines are skipped but counted, the first bad line refuses the file
ListSource(lines, graph) ==
  LET entries == {n \in DOMAIN lines : ~lines[n].blank}
      bad == {n \in entries : EntryRefused(lines[n], graph) # "no"}
      order == InOrderOf(entries)
  IN  IF bad # {} THEN Refused(<<EntryRefused(lines[Min(bad)], graph), Min(bad)>>)
      ELSE [jobs |-> [i \in DOMAIN order |-> EntryJob(lines[order[i]], order[i])]]

build_jobs(args) ==
  LET spec == resolve_topology(args) IN
  CASE IsRefused(spec) -> spec
    [] ~IsRefused(spec) /\ args.source = "random" ->
         [jobs |-> RandomSource(spec, args.seed, args.count)]
    [] ~IsRefused(spec) /\ args.source = "lease" -> [jobs |-> LeaseSource(args.count, args.size)]
    [] OTHER -> ListSource(args.list, spec # NoSpec)
-----------------------------------------------------------------------------
SameElements(s, t) == ToSet(s) = ToSet(t) /\ Len(s) = Len(t)

\* the same graph and values, however they are listed and the edges oriented
SameGraph(a, b) ==
  /\ \A f \in {"nodes", "h", "j", "spin"} : SameElements(a[f], b[f])
  /\ SameElements([i \in DOMAIN a.edges |-> Endpoints(a.edges[i])],
                  [i \in DOMAIN b.edges |-> Endpoints(b.edges[i])])

\* the leases follow one another from one counter to the next, none over its size
Tiles(leases, from, to, lease_size) ==
  /\ \A i \in DOMAIN leases :
       /\ leases[i].count \in 1 .. AtLeastOne(lease_size)
       /\ leases[i].start = IF i = 1 THEN from ELSE leases[i - 1].start + leases[i - 1].count
  /\ to = IF leases = <<>> THEN from ELSE leases[Len(leases)].start + leases[Len(leases)].count

\* one job per entry with its line number, two with one id only where a nonce is repeated
OneJobPerEntry(lines, entries, jobs) ==
  /\ {jobs[i].generation : i \in DOMAIN jobs} = entries
  /\ Len(jobs) = Cardinality(entries)
  /\ \A i, k \in DOMAIN jobs : i # k /\ jobs[i].id = jobs[k].id
       => \E n, m \in entries : n # m /\ lines[n].nonce = lines[m].nonce /\ lines[n].nonce # "none"

(***************************************************************************)
(* A drive run stages what it was asked to: leases name the counters       *)
(* 0 .. salts - 1 once each, in order and never past the lease size; a     *)
(* list yields one job per entry, or names the first bad line.             *)
(***************************************************************************)
JobsFaithful ==
  /\ \A salts, lease_size \in 0 .. MaxCount : Tiles(LeaseSource(salts, lease_size), 0, salts, lease_size)
  /\ \A lines \in Lists, graph \in BOOLEAN :
       LET built == ListSource(lines, graph)
           entries == {n \in DOMAIN lines : ~lines[n].blank}
           wrong == {n \in entries : EntryRefused(lines[n], graph) # "no"}
       IN  IF IsRefused(built)
           THEN built.refused[2] \in wrong /\ \A n \in wrong : built.refused[2] <= n
           ELSE wrong = {} /\ OneJobPerEntry(lines, entries, built.jobs)

(***************************************************************************)
(* A graph that resolves has every endpoint among its nodes, can always be *)
(* drawn from, so that generated work is never cut short, and comes from   *)
(* the chain only under a hash that no reordering of the graph changes and *)
(* no other graph shares.                                                  *)
(***************************************************************************)
GraphsFaithful ==
  \A a, b \in Specs : ~IsRefused(validate_spec(a)) /\ ~IsRefused(validate_spec(b)) =>
    LET x == validate_spec(a)
        y == validate_spec(b) IN
    /\ Drawable(x) /\ \A e \in ToSet(x.edges) : Endpoints(e) \subseteq ToSet(x.nodes)
    /\ Len(RandomSource(x, 0, MaxCount)) = MaxCount
    /\ topology_hash(x) = topology_hash(y) <=> SameGraph(x, y)
    /\ IsRefused(from_chain_meta(topology_hash(y), a))
         <=> a.spin = <<>> \/ ~a.sets \/ ~SameGraph(x, y)
=============================================================================
