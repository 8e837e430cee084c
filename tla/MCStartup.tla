----------------------------- MODULE MCStartup -----------------------------
(***************************************************************************)
(* Two spellings of CUDA device 0, device 1 and a key that is no number.   *)
(* The operator changes between a plan with a CPU, one with a GPU and a    *)
(* broken one, and may lack a faucet or a node name that can be filed.     *)
(***************************************************************************)
EXTENDS Launch

MCCudaKeys == <<"0", "00", "1", "x">>
MCDeviceOf == [k \in {"0", "00", "1", "x"} |->
                 CASE k = "1" -> 1 [] k = "x" -> NotANumber [] OTHER -> 0]

Cpu  == [toml |-> TRUE, miner |-> TRUE, cpu |-> "table", cuda |-> {}, metal |-> "absent",
         dwave |-> "absent", qpu |-> "absent", host |-> TRUE, port |-> TRUE, legacy |-> FALSE]
Gpu  == [Cpu EXCEPT !.cuda = {"0", "1"}]
Typo == [Cpu EXCEPT !.cuda = {"x"}]

Own == [node_name |-> None, node_id |-> None, public_host |-> None, port |-> 0,
        endpoints |-> <<>>, miners |-> 1]
LongName == [Own EXCEPT !.node_name = Text(Ones(MaxBytes + 1))]

MCConfigs ==
  {[plan |-> Cpu, faucet |-> FALSE, describable |-> Describable(Own)],
   [plan |-> Gpu, faucet |-> TRUE, describable |-> Describable(LongName)],
   [plan |-> Typo, faucet |-> TRUE, describable |-> Describable(Own)]}

\* The first validator drives the API the coordinator needs, the second an older one.
MCApi == [v \in Validators |-> IF v = 1 THEN 2 ELSE 1]
-----------------------------------------------------------------------------
\* Empty, blank, padded, too long by a split character or at a space, and secrets.
MCTexts ==
  {Text(<<>>), Text(<<0, 0>>), Text(<<0, 1, 0, 0, 2, 0>>), Text(<<4, 4, 3>>),
   Text(<<1, 1, 1, 1, 1, 1, 1, 1, 0, 1>>)}
  \union {[chars |-> Ones(10), shape |-> s, run |-> n] :
            s \in {"needle", "assigned", "AKIA", "token"}, n \in {7, 8, 20}}

Gpu0(vendor, name, utilization) == [vendor |-> vendor, name |-> name, utilization |-> utilization]
Card == Gpu0(Text(<<1>>), Text(<<1>>), 200)

Host == [thread |-> "answers", macos |-> FALSE, apple |-> FALSE, os |-> Text(<<1>>),
         release |-> None, machine |-> Text(<<1>>), brand |-> None, board |-> None, arch |-> Text(<<1>>),
         logical |-> 2, cpu_dirs |-> 0, physical |-> 4, memory |-> 9, gpus |-> <<>>,
         displays |-> <<>>, python |-> <<None, None, None>>, image |-> None]

MCHosts ==
  {[Host EXCEPT ![f] = t] :
     f \in {"os", "release", "machine", "brand", "board", "arch", "image"}, t \in MCTexts}
  \union {[Host EXCEPT !.python = <<None, t, None>>] : t \in MCTexts}
  \union {[Host EXCEPT !.gpus = <<Gpu0(t, Text(<<1>>), NoNumber), Gpu0(Text(<<1>>), t, 7), Card, Card>>] :
            t \in MCTexts}
  \union {[Host EXCEPT !.macos = TRUE, !.apple = a, !.brand = t, !.displays = d] :
            a \in BOOLEAN, t \in MCTexts \union {None},
            d \in {<<>>, <<Gpu0(Text(<<1>>), Text(<<>>), NoNumber), Gpu0(Text(<<0>>), Text(<<0>>), 3)>>}}
  \union {[Host EXCEPT !.logical = n, !.memory = n, !.cpu_dirs = k, !.physical = k] :
            n \in {NoNumber, 0, 3, 10}, k \in {0, 3, 10}}
  \union {[Host EXCEPT !.thread = s] : s \in {"not_started", "late", "panicked"}}

MCOperators ==
  {[Own EXCEPT ![f] = t] : f \in {"node_name", "node_id", "public_host"}, t \in MCTexts}
  \union {[Own EXCEPT !.endpoints = <<t, Text(<<1>>), t>>, !.miners = n] :
            t \in MCTexts, n \in 0 .. 1}
=============================================================================
