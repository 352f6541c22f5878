---------------------------- MODULE MCLimitManager ----------------------------
(* Instances of LimitManager for TLC: keys, and the requests of each run.  *)
EXTENDS LimitManager, TLC

Request(u, i, cu, ci, qu, qi) ==
  [key |-> [user |-> u, ip |-> i],
   conns |-> [user |-> cu, ip |-> ci],
   qps |-> [user |-> qu, ip |-> qi]]

MCKeys == {"alice", "bob", "ip1"}

(* Two users behind one IP, whose limit differs from one answer to the     *)
(* next.  Three handlers meet every refusal: by the user, and by the IP    *)
(* with and without a slot of the user to give back; one limit is          *)
(* negative, which is unlimited, as 0 is.                                  *)
MCRequests == { Request("alice", "ip1", 2, 2, 0, 0), Request("bob", "ip1", -1, 1, 1, -1) }

(* QPS limits on the user and on the IP.                                   *)
QPSRequests == { Request("alice", "ip1", 0, 0, 1, 2), Request("bob", "ip1", 0, 0, 0, 2) }

(* Handlers are interchangeable; used where nothing is a liveness property.*)
Symmetry == Permutations(Conns)
=============================================================================
