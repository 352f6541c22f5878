------------------------------- MODULE ConnLimit -------------------------------
(***************************************************************************)
(* What the concurrent-connection limits promise (README, "userconns /     *)
(* ipconns: Max concurrent connections"): an attempt is admitted exactly   *)
(* when its user and its IP both have room under the limits its own        *)
(* authorization answer carries, and a refusal leaves nothing behind.      *)
(* There are no counters here: room is judged from who is really inside.   *)
(***************************************************************************)
EXTENDS Integers, FiniteSets

CONSTANTS Conns,    \* connection handlers
          Claims    \* what an attempt may be: key and limit per dimension

VARIABLES phase,    \* phase[c] \in {"out", "in", "full"}
          claim     \* claim[c]: the claim c made last

vars == <<phase, claim>>

Dims == {"user", "ip"}

(* The connections inside that key k is charged for.                       *)
Holders(k) == {c \in Conns : /\ phase[c] = "in"
                             /\ \E d \in Dims : /\ claim[c].key[d] = k
                                                /\ claim[c].conns[d] > 0}

(* A limit that is not positive means unlimited.                           *)
HasRoom(q) == \A d \in Dims :
                q.conns[d] > 0 => Cardinality(Holders(q.key[d])) < q.conns[d]

Move(c, to) == phase' = [phase EXCEPT ![c] = to]

Init == /\ phase = [c \in Conns |-> "out"]
        /\ claim \in [Conns -> Claims]

(* A connection that is outside states who it is and what limits it.       *)
Present(c) == /\ phase[c] = "out"
              /\ \E q \in Claims : claim' = [claim EXCEPT ![c] = q]
              /\ UNCHANGED phase

Admit(c) == phase[c] = "out" /\ HasRoom(claim[c]) /\ Move(c, "in") /\ UNCHANGED claim

Refuse(c) == phase[c] = "out" /\ ~HasRoom(claim[c]) /\ Move(c, "full") /\ UNCHANGED claim

Leave(c) == phase[c] \in {"in", "full"} /\ Move(c, "out") /\ UNCHANGED claim

Next == \E c \in Conns : Present(c) \/ Admit(c) \/ Refuse(c) \/ Leave(c)

Spec == Init /\ [][Next]_vars
=============================================================================
