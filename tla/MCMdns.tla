------------------------------- MODULE MCMdns -------------------------------
(***************************************************************************)
(* Mdns with two hostnames, one of which has two addresses.                *)
(***************************************************************************)
EXTENDS Mdns

CONSTANTS ha, hb, a1, a2, b1

MCOffers == {<<ha, 1>>, <<hb, 1>>, <<hb, 2>>}
MCAnswers == {<<ha, a1>>, <<ha, a2>>, <<hb, b1>>}
MCLocal == {hb}
=============================================================================
