------------------------------ MODULE MCUpstream ------------------------------
(* Instances of Upstream for TLC: the calls and the parents of its run.    *)
EXTENDS Upstream

Task(op, scheme, creds, outgoing, host, len, port, parses) ==
  [op |-> op, scheme |-> scheme, creds |-> creds, outgoing |-> outgoing,
   host |-> host, len |-> len, port |-> port, parses |-> parses]

(* Every scheme for both calls; through SOCKS, credentials of every kind   *)
(* and targets of every form: addresses, names at and past 255 bytes, a    *)
(* port past 16 bits, a target that does not parse.                        *)
MCTasks ==
  { Task(op, s, "none", FALSE, "v4", 0, 443, TRUE) :
      op \in {"tcp", "udp"}, s \in {"", "bad", "sentinel", "other", "http", "socks5"} }
  \cup { Task(op, "socks5", c, TRUE, "v6", 0, 53, TRUE) : op \in {"tcp", "udp"}, c \in {"short", "long"} }
  \cup { Task("tcp", "socks5", "none", FALSE, "name", 255, 70000, TRUE),
         Task("tcp", "socks5", "none", FALSE, "name", 256, 80, TRUE),
         Task("tcp", "socks5", "none", FALSE, "name", 9, 80, FALSE) }

HttpReply(says200, headers) ==
  [kind |-> "http", says200 |-> says200, headers |-> headers, hello |-> 0, method |-> 0, auth |-> 0,
   ver |-> 0, rep |-> 0, atyp |-> 0, len |-> 0, bnd |-> "address"]
SocksReply(method, auth, ver, rep, atyp, len, bnd) ==
  [kind |-> "socks5", says200 |-> FALSE, headers |-> 0, hello |-> 5, method |-> method, auth |-> auth,
   ver |-> ver, rep |-> rep, atyp |-> atyp, len |-> len, bnd |-> bnd]

(* Refusals at every stage, every form of bound address, and the lengths   *)
(* around the buffer's.                                                    *)
MCReplies ==
  { [HttpReply(FALSE, 0) EXCEPT !.kind = "none"] }
  \cup { HttpReply(TRUE, 0), HttpReply(TRUE, 1), HttpReply(FALSE, 1) }
  \cup { SocksReply(m, 0, 5, 0, 1, 0, "address") : m \in {0, 1, 2, 255} }
  \cup { SocksReply(2, 1, 5, 0, 1, 0, "address"), SocksReply(0, 0, 5, 2, 1, 0, "address"),
         SocksReply(0, 0, 4, 0, 1, 0, "wildcard"), SocksReply(0, 0, 5, 0, 9, 0, "address"),
         SocksReply(0, 0, 5, 0, 4, 0, "loopback"), SocksReply(2, 0, 5, 0, 3, 1, "name"),
         SocksReply(0, 0, 5, 0, 3, 9, "wildcard"), SocksReply(0, 0, 5, 0, 3, 254, "name"),
         SocksReply(0, 0, 5, 0, 3, 255, "name"),
         [SocksReply(0, 0, 5, 0, 1, 0, "address") EXCEPT !.hello = 4] }
=============================================================================
