------------------------------- MODULE Launch -------------------------------
(***************************************************************************)
(* Startup with the two pure parts behind it, the parser of config.toml    *)
(* and the node descriptor. They have no state: each is examined once, in  *)
(* one initial state.                                                      *)
(***************************************************************************)
EXTENDS Startup, NodeDescriptor

AtStart == /\ Init /\ synced = {} /\ balance = 0 /\ ~miners /\ topology = "none"
           /\ seed = "idle" /\ config = CHOOSE c \in Configs : TRUE

\* Every configuration that parse_config accepts starts one miner per section.
PlanSound == AtStart => OneMinerPerSection

\* Whatever the host answers, the descriptor that build_descriptor_payload files
\* can be decoded.
DescriptorSound == AtStart => DescriptorFits
=============================================================================
