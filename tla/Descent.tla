-------------------------------- MODULE Descent --------------------------------
(***************************************************************************)
(* A natural number cannot fall for ever.  The proofs about timers of      *)
(* arbitrary length take this one consequence of induction as a            *)
(* hypothesis: the provers have no induction under the temporal operators. *)
(* It is true of every behaviour and every state function.                 *)
(***************************************************************************)
EXTENDS Naturals

NoEndlessDescent(left) ==
    []((/\ [](left \in Nat)
        /\ \A n \in Nat \ {0} : [](left = n => <>(left < n)))
       => <>(left = 0))
=============================================================================
