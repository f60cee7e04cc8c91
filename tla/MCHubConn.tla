------------------------------ MODULE MCHubConn ------------------------------
(***************************************************************************)
(* HubConn for TLC: four handlers spread over two API instances.           *)
(***************************************************************************)
EXTENDS HubConn, TLC

CONSTANTS a, b, h1, h2, h3, h4

MCHandlers == {h1, h2, h3, h4}
MCHome == (h1 :> a) @@ (h2 :> a) @@ (h3 :> a) @@ (h4 :> b)
MCInstances == {a, b}
Symmetry == Permutations({h1, h2, h3})
=============================================================================
