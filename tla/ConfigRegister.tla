--------------------------- MODULE ConfigRegister ---------------------------
(***************************************************************************)
(* What STACKCHAN.RON and CONFIG_SNAPSHOT promise together: one atomic     *)
(* register of settings.  A request changes the blocks it names and no     *)
(* other, takes effect at one instant, or not at all; a power loss keeps   *)
(* the register, or completes one request that was under way.  Only while  *)
(* the register is exposed, which a request under way may make it, does a  *)
(* power loss reset it to the defaults.                                    *)
(***************************************************************************)
EXTENDS ConfigData

CONSTANTS
    Clients,        \* the tasks that serve settings requests
    NoPatch         \* a client that has none in hand

VARIABLES
    value,          \* the settings in force
    pending,        \* the patch each client is working on
    exposed         \* would a power loss reset the settings?

Init ==
    /\ value \in Configs
    /\ pending = [c \in Clients |-> NoPatch]
    /\ exposed = FALSE

Request(c) ==
    /\ pending[c] = NoPatch
    /\ \E p \in Patches : pending' = [pending EXCEPT ![c] = p]
    /\ UNCHANGED <<value, exposed>>

Expose(c) ==
    /\ pending[c] # NoPatch
    /\ exposed' = TRUE
    /\ UNCHANGED <<value, pending>>

Cover(c) ==
    /\ pending[c] # NoPatch
    /\ exposed' = FALSE
    /\ UNCHANGED <<value, pending>>

Update(c) ==
    /\ pending[c] # NoPatch
    /\ ~exposed
    /\ value' = Apply(value, pending[c])
    /\ pending' = [pending EXCEPT ![c] = NoPatch]
    /\ UNCHANGED exposed

Refuse(c) ==
    /\ pending[c] # NoPatch
    /\ pending' = [pending EXCEPT ![c] = NoPatch]
    /\ UNCHANGED <<value, exposed>>

PowerLoss ==
    /\ pending' = [c \in Clients |-> NoPatch]
    /\ IF exposed THEN value' = DefaultConfig
       ELSE \/ UNCHANGED value
            \/ \E c \in Clients :
                 pending[c] # NoPatch /\ value' = Apply(value, pending[c])
    /\ UNCHANGED exposed

Next ==
    \/ PowerLoss
    \/ \E c \in Clients : Request(c) \/ Expose(c) \/ Cover(c) \/ Update(c) \/ Refuse(c)

Spec == Init /\ [][Next]_<<value, pending, exposed>>
=============================================================================
