--------------------------- MODULE MCDiscoveryRun ---------------------------
(* Two URLs on one host, the second below the first, and one on another host. *)
EXTENDS DiscoveryRun, TLC

CONSTANTS ap, g1, g2, u1, u2, u3, ha, hb

MCHostOf == u1 :> ha @@ u2 :> ha @@ u3 :> hb
MCBelow == u1 :> {u1, u2} @@ u2 :> {u2} @@ u3 :> {u3}
MCGrantHosts == g1 :> {ha} @@ g2 :> {ha, hb}
MCIssuerOf == g1 :> ap @@ g2 :> ap
MCGrantFrom == g1 :> 0 @@ g2 :> 0
MCGrantUntil == g1 :> 1 @@ g2 :> 2
MCBudget == g1 :> 1 @@ g2 :> 2
MCPayloads ==
    {[url |-> u1, grant |-> g1, scoped |-> FALSE],
     [url |-> u1, grant |-> g2, scoped |-> FALSE],
     [url |-> u1, grant |-> g1, scoped |-> TRUE]}
=============================================================================
