------------------------- MODULE MCDepthStateMachine -------------------------
(* The machine under an environment that supplies every combination of a    *)
(* few ids, quantities and snapshots, in any order: stale, out-of-order,    *)
(* crossing and negative events, crossed and negative snapshots, start()    *)
(* called again while another call is still waiting, restart() at any time. *)
EXTENDS DepthStateMachine

CONSTANTS MaxId, MaxBuffer

\* An update of the two bids and the two asks.
Of(b1, b2, a1, a2) ==
    [s \in Slots |-> IF s[1] = "bid" THEN <<b1, b2>>[s[2]] ELSE <<a1, a2>>[s[2]]]

MCUpdates ==
    {Of(-1, None, None, None), Of(2, None, None, None), Of(None, 1, None, None),
     Of(None, None, None, 1)}

MCEvents ==
    {[first |-> a, last |-> b, prev |-> p, since |-> None, d |-> d] :
        a \in {1, 2}, b \in 1..MaxId, p \in {None, 1}, d \in MCUpdates}
    \cup {[first |-> 0, last |-> 0, prev |-> None, since |-> None, d |-> Of(2, None, None, None)]}

MCSnapshots ==
    {[id |-> k, d |-> d] : k \in 0..1, d \in
        {Of(None, None, None, None), Of(1, None, None, 1),
         Of(None, 1, None, 1), Of(1, None, -1, None)}}

\* MachineSpec(MCEvents, MCSnapshots, MaxBuffer), spelled out for TLC.
MCSpec == MachineInit /\ [][MachineNext(MCEvents, MCSnapshots, MaxBuffer)]_machineVars
=============================================================================
