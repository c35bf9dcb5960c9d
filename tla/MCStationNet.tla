---------------------------- MODULE MCStationNet ----------------------------
(***************************************************************************)
(* An instance of StationNet for TLC: two hosts, of which one is a router, *)
(* and two leases, one with a default route and one without.               *)
(***************************************************************************)
EXTENDS StationNet

CONSTANTS gateway, peer, address1, address2

MCHosts == {gateway, peer}
MCAddresses == {address1, address2}
MCLeases ==
  {[address |-> address1, server |-> gateway, router |-> gateway],
   [address |-> address2, server |-> peer, router |-> NoHost]}
MCDnsTargets == <<gateway, peer>>
=============================================================================
