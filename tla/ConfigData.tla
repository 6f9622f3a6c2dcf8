----------------------------- MODULE ConfigData -----------------------------
(***************************************************************************)
(* The persisted configuration as a function from its blocks to values,    *)
(* and the partial configurations that requests carry.                     *)
(*   src/crates/stackchan-net/src/config.rs     Config                     *)
(*   src/crates/stackchan-net/src/bare_json.rs  omitted blocks keep their  *)
(*                                              current value              *)
(***************************************************************************)
CONSTANT Values             \* what one block can hold; 0 is its default

ASSUME ValuesAssumption == 0 \in Values

Blocks  == {"wifi", "volume", "muted", "behavior"}
Configs == [Blocks -> Values]
Patches == UNION {[B -> Values] : B \in SUBSET Blocks}

DefaultConfig == [b \in Blocks |-> 0]       \* Config::default()

Apply(config, patch) ==
    [b \in Blocks |-> IF b \in DOMAIN patch THEN patch[b] ELSE config[b]]
=============================================================================
