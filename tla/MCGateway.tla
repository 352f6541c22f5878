------------------------------- MODULE MCGateway -------------------------------
(* Instances of Gateway for TLC.                                           *)
EXTENDS Gateway

Claim(u, i, cu, ci) == [key |-> [user |-> u, ip |-> i], conns |-> [user |-> cu, ip |-> ci]]
MCNoLimits == Claim("alice", "ip1", 0, 0)

FewClaims == { MCNoLimits, Claim("alice", "ip1", 1, 0) }

Sends(k, cr, of, h) == [kind |-> k, creds |-> cr, offers |-> of, host |-> h,
                       stalls |-> FALSE, remoteStalls |-> FALSE]
MCClients == { Sends("connect", TRUE, FALSE, TRUE), Sends("connect", FALSE, FALSE, TRUE),
               Sends("plain", TRUE, FALSE, FALSE),
               [Sends("plain", TRUE, FALSE, TRUE) EXCEPT !.stalls = TRUE, !.remoteStalls = TRUE],
               Sends("socks", TRUE, TRUE, TRUE), Sends("socks", FALSE, TRUE, TRUE),
               Sends("socks", FALSE, FALSE, TRUE), Sends("udp", TRUE, TRUE, TRUE),
               Sends("badcmd", TRUE, TRUE, TRUE) }

Config(a, n, t) == [authURL |-> a, authNoUser |-> n, traffic |-> t]
MCConfigs == { Config(TRUE, FALSE, TRUE), Config(TRUE, TRUE, TRUE), Config(FALSE, FALSE, FALSE) }
OneConfig == { Config(TRUE, FALSE, TRUE) }
=============================================================================
