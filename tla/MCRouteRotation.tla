-------------------------- MODULE MCRouteRotation --------------------------
(***************************************************************************)
(* Values for the constants of RouteRotation under TLC.                    *)
(***************************************************************************)
EXTENDS RouteRotation

OneGen == <<"g1">>
TwoGens == <<"g1", "g2">>
Clash3 == <<"c1", "c2", "c3">>
IP2    == <<"i1", "i2">>
=============================================================================
