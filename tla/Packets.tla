------------------------------ MODULE Packets ------------------------------
(***************************************************************************)
(* The packets of one connection in both directions: Outgoing and Incoming *)
(* side by side, over one GamePacket.  They share no state.                *)
(***************************************************************************)
EXTENDS Outgoing, Incoming

vars == <<outVars, inVars>>

Init == OutInit /\ InInit

\* Bound: a behaviour has packets in one direction only, since one direction's
\* steps neither read nor change what is the other's.
Next ==
    \/ said = <<>> /\ OutNext /\ UNCHANGED inVars
    \/ sends = 0 /\ InNext /\ UNCHANGED outVars

Spec == Init /\ [][Next]_vars

-----------------------------------------------------------------------------
(* Properties. *)

\* What the client understands of the server's packets is, until one is cut or
\* too large for its size, what was sent and not lost, in order (SendPacket,
\* _Write, _WriteAt).
SendsImplementChannel == OutChannel!Spec

\* What the handlers read is what the client said, whole and in order, up to
\* the packet the connection or the process ends at (UpdateClients, _Read,
\* ReadString).
ReadsImplementChannel == InChannel!Spec

=============================================================================
