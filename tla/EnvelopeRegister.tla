-------------------------- MODULE EnvelopeRegister --------------------------
(***************************************************************************)
(* What the server promises about the envelope of a vault: a register that *)
(* is written once.  A put that finds it empty writes it, any other is a   *)
(* conflict; whoever reads it reads what was written first.                *)
(***************************************************************************)
CONSTANTS Devices, Envelopes, NoEnvelope

VARIABLES
    envelope,
    told        \* what the server told each device last

vars == <<envelope, told>>

Tell(d, what, e) == told' = [told EXCEPT ![d] = [what |-> what, envelope |-> e]]

Silent(d) == Tell(d, "nothing", NoEnvelope)

Init ==
    /\ envelope = NoEnvelope
    /\ told = [d \in Devices |-> [what |-> "nothing", envelope |-> NoEnvelope]]

Get(d) == Tell(d, "vault", envelope) /\ UNCHANGED envelope

\* heard = FALSE: the answer is lost.
Put(d, e, heard) ==
    /\ envelope' = IF envelope = NoEnvelope THEN e ELSE envelope
    /\ IF heard THEN Tell(d, IF envelope = NoEnvelope THEN "put" ELSE "conflict", envelope')
                ELSE Silent(d)

Forget(d) == Silent(d) /\ UNCHANGED envelope

Next ==
    \E d \in Devices :
        \/ Get(d) \/ Forget(d)
        \/ \E e \in Envelopes, heard \in BOOLEAN : Put(d, e, heard)

Spec == Init /\ [][Next]_vars
=============================================================================
