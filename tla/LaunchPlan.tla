----------------------------- MODULE LaunchPlan -----------------------------
(***************************************************************************)
(* config.toml as the coordinator reads it (config.rs): which sections     *)
(* become miners, what is refused and which refusal comes first, and the   *)
(* kind the account declares. A configuration is what the parser can tell  *)
(* apart: which sections are there, and whether they are tables.           *)
(***************************************************************************)
EXTENDS Naturals, Sequences, FiniteSets, SequencesExt, FiniteSetsExt, Listing

CONSTANTS
  CudaKeys,   \* keys that may appear under [cuda], in the table's key order
  DeviceOf    \* the number a key parses to; NotANumber when it does not

NotANumber == 1000

ASSUME LaunchPlanConstants ==
  /\ CudaKeys \in Seq(ToSet(CudaKeys)) /\ IsInjective(CudaKeys)
  /\ DeviceOf \in [ToSet(CudaKeys) -> Nat]

\* A section is absent, a plain value, a table, or a table with tables in it.
Sections == {"absent", "value", "table", "indexed"}

(***************************************************************************)
(* A configuration. Only the keys under [cuda] whose value is a table      *)
(* count; "port" says whether public_port is a number in 1 .. 65535.       *)
(***************************************************************************)
Config == [toml : BOOLEAN, miner : BOOLEAN, cpu : Sections, cuda : SUBSET ToSet(CudaKeys),
           metal : Sections, dwave : Sections, qpu : Sections, host : BOOLEAN, port : BOOLEAN,
           legacy : BOOLEAN]

Entry(backend, index) == [backend |-> backend, index |-> index]

IsTable(section) == section \in {"table", "indexed"}

LastWins(seen, device) == FALSE

\* A key that resolves to a device which an earlier key already took.
Repeats(seen, device) == device \in seen

\* The keys in table order: the devices they name, up to the first bad key.
CudaScan(keys) ==
  LET there == {i \in DOMAIN CudaKeys : CudaKeys[i] \in keys}
      device(i) == DeviceOf[CudaKeys[i]]
      seen(i) == {device(k) : k \in {k \in there : k < i}}
      bad == {i \in there : device(i) = NotANumber \/ Repeats(seen(i), device(i))}
  IN  IF bad = {} THEN [refused |-> "no", devices |-> {device(i) : i \in there}]
      ELSE [refused |-> IF device(Min(bad)) = NotANumber THEN "not_indexed" ELSE "duplicate",
            devices |-> seen(Min(bad))]

\* One miner per device, in device order.
CudaEntries(devices) ==
  LET ordered == InOrderOf(devices)
  IN  [i \in DOMAIN ordered |-> Entry("cuda", ordered[i])]

Single(section, backend) == IF IsTable(section) THEN <<Entry(backend, 0)>> ELSE <<>>

\* [dwave] before [qpu]; a dwave key that is no table still hides [qpu].
Qpu(c) == IF c.dwave # "absent" THEN c.dwave ELSE c.qpu

parse_launch(c) ==
  Single(c.cpu, "cpu") \o CudaEntries(CudaScan(c.cuda).devices)
    \o Single(c.metal, "metal") \o Single(Qpu(c), "dwave")

\* The checks in the order the parser makes them.
Refusals(c) ==
  << <<~c.toml, "bad_toml">>,
     <<~c.miner, "missing_miner">>,
     <<c.cpu = "indexed", "indexed_cpu">>,
     <<CudaScan(c.cuda).refused # "no", CudaScan(c.cuda).refused>>,
     <<c.metal = "indexed", "indexed_metal">>,
     <<parse_launch(c) = <<>>, IF c.legacy THEN "no_backends_v0_2" ELSE "no_backends">>,
     <<~c.host, "missing_public_host">>,
     <<~c.port, "missing_public_port">> >>

\* The first refusal is the one the operator sees; without one there is a plan.
parse_config(c) ==
  LET checks == Refusals(c)
      failed == {i \in DOMAIN checks : checks[i][1]}
  IN  IF failed = {} THEN [refused |-> "no", launch |-> parse_launch(c)]
      ELSE [refused |-> checks[Min(failed)][2], launch |-> <<>>]

Kind(backend) ==
  CASE backend = "cuda"  -> "Gpu"
    [] backend = "metal" -> "Metal"
    [] backend = "dwave" -> "QpuDwave"
    [] OTHER             -> "Cpu"

kind_rank(kind) ==
  CASE kind = "Cpu" -> 0 [] kind = "Gpu" -> 1 [] kind = "Metal" -> 2 [] kind = "QpuDwave" -> 7

\* The highest-ranked kind of the plan; Cpu for an empty one.
participate_kind(launch) ==
  LET kinds == {Kind(launch[i].backend) : i \in DOMAIN launch}
  IN  IF kinds = {} THEN "Cpu"
      ELSE CHOOSE k \in kinds : \A j \in kinds : kind_rank(j) <= kind_rank(k)

\* A solver registers as the hardware class of that kind; Metal counts as a GPU.
SolverType(kind) == IF kind = "Metal" THEN "Gpu" ELSE kind
-----------------------------------------------------------------------------
\* An accepted plan starts one miner per section: no [cuda.N] section is
\* dropped or shares its device with another, whatever the spelling of the
\* keys ([cuda.0] and [cuda.00] are one device), and no two miners share an id.
OneMinerPerSection ==
  \A c \in Config :
    LET r == parse_config(c)
        of(b) == {i \in DOMAIN r.launch : r.launch[i].backend = b}
    IN  r.refused = "no" =>
          /\ r.launch # <<>> /\ IsInjective(r.launch)
          /\ Cardinality(of("cuda")) = Cardinality(c.cuda)
          /\ \A b \in {"cpu", "metal"} : of(b) # {} <=> IsTable(c[b])
          /\ IsTable(c.dwave) => of("dwave") # {}
=============================================================================
