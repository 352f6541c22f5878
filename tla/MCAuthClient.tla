----------------------------- MODULE MCAuthClient -----------------------------
(* Instances of AuthClient for TLC.                                        *)
EXTENDS AuthClient, TLC

Response(code, up, reject, deny) ==
  [code |-> code, upstream |-> up, reject |-> reject, deny |-> deny]

(* Allow; refuse by sentinel with and without headers; refuse by status.   *)
MCResponses == { Response(200, "proxy", 0, "none"), Response(200, "sentinel", 429, "none"),
                 Response(204, "sentinel", 500, "auth"), Response(403, "none", 407, "none") }

Symmetry == Permutations(Callers)
=============================================================================
