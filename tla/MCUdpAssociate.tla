---------------------------- MODULE MCUdpAssociate ----------------------------
(* Instances of UdpAssociate for TLC: two client endpoints, one peer with  *)
(* an IPv4 address and one without.                                        *)
EXTENDS UdpAssociate
=============================================================================
