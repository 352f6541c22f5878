------------------------------ MODULE AuthClient ------------------------------
(***************************************************************************)
(* authapi.Client: handlers ask an external service whether a connection   *)
(* may pass, through a cache of successes and a cache of refusals that are *)
(* each locked only for a lookup or a store.  The cache key is the whole   *)
(* request, so keys do not interact and one key is modelled; callers with  *)
(* the same key are datagrams of one UDP session, or clients that reuse a  *)
(* port.  The service changes its mind at any time.                        *)
(***************************************************************************)
EXTENDS Integers

CONSTANTS Callers,      \* goroutines in Authorize
          Responses,    \* what the service may answer
          TTL, FailTTL, \* --auth-cache and --auth-fail-cache, 0 = no cache
          Timeout,      \* of the HTTP client
          MaxTime       \* bound on the clock

Statuses == {407, 429, 503}

ASSUME AuthAssumption ==
  /\ TTL \in Nat /\ FailTTL \in Nat /\ Timeout \in Nat /\ MaxTime \in Nat
  /\ Responses \subseteq
       [code : Nat, upstream : {"none", "proxy", "sentinel"},  \* "ERR", "deny", "blocked", ...
        reject : Nat, deny : {"none", "auth", "limit"}]        \* X-Joyproxy-Reject-Status, -Deny

VARIABLES clock, service,       \* time; what the service answers now
          success, fail,        \* the caches
          pc, sent, got,        \* per caller: step; when it asked; the response
          result,               \* what Authorize returned
          lastOK, lastNo        \* history: when the service last would have allowed, refused

callers == <<pc, sent, got, result>>
caches == <<success, fail>>
world == <<clock, service, lastOK, lastNo>>
vars == <<world, caches, callers>>

----------------------------------------------------------------------------
(* How a response is read.                                                 *)
UpstreamMeansAuthDeny(u) == u = "sentinel"

RejectStatusMutant(r) == r.reject  \* unchecked
RejectStatus(r) == CASE r.reject \in Statuses -> r.reject
                     [] r.reject \notin Statuses /\ r.deny = "auth" -> 407
                     [] r.reject \notin Statuses /\ r.deny # "auth" -> 503

Allowed == [ok |-> TRUE, status |-> 0]
Refused(s) == [ok |-> FALSE, status |-> s]
Verdict(r) == CASE r.code \notin {200, 204} -> Refused(503)
                [] r.code \in {200, 204} /\ UpstreamMeansAuthDeny(r.upstream) -> Refused(RejectStatus(r))
                [] r.code \in {200, 204} /\ ~UpstreamMeansAuthDeny(r.upstream) -> Allowed

----------------------------------------------------------------------------
None == [until |-> 0, res |-> Allowed]
NoResponse == [code |-> 0, upstream |-> "none", reject |-> 0, deny |-> "none"]
Never == -(TTL + FailTTL + Timeout + MaxTime + 1)

Init ==
  /\ clock = 0 /\ service \in Responses
  /\ lastOK = (IF Verdict(service).ok THEN 0 ELSE Never)
  /\ lastNo = (IF Verdict(service).ok THEN Never ELSE 0)
  /\ success = None /\ fail = None
  /\ pc = [c \in Callers |-> "idle"] /\ sent = [c \in Callers |-> 0]
  /\ got = [c \in Callers |-> NoResponse]
  /\ result = [c \in Callers |-> Allowed]

Step(c, from, to) == pc[c] = from /\ pc' = [pc EXCEPT ![c] = to]
Return(c, from, res) == Step(c, from, "done") /\ result' = [result EXCEPT ![c] = res]

HitMutant(ttl, entry) == ttl > 0 /\ entry # None  \* never expires
Hit(ttl, entry) == ttl > 0 /\ clock < entry.until

(* Under the lock: a fresh success goes before a fresh refusal.            *)
Lookup(c) ==
  /\ \/ Hit(TTL, success) /\ Return(c, "idle", success.res)
     \/ ~Hit(TTL, success) /\ Hit(FailTTL, fail) /\ Return(c, "idle", fail.res)
     \/ ~Hit(TTL, success) /\ ~Hit(FailTTL, fail) /\ Step(c, "idle", "miss") /\ UNCHANGED result
  /\ UNCHANGED <<world, caches, sent, got>>

Ask(c) ==
  /\ Step(c, "miss", "asked") /\ sent' = [sent EXCEPT ![c] = clock]
  /\ UNCHANGED <<world, caches, got, result>>

(* The service decides; its answer is on the way.                          *)
Answer(c) ==
  /\ Step(c, "asked", "answered") /\ got' = [got EXCEPT ![c] = service]
  /\ UNCHANGED <<world, caches, sent, result>>

Entry(ttl, res) == [until |-> clock + ttl, res |-> res]

(* Under the lock again: the verdict is stored if its kind is cached.      *)
Store(c) ==
  LET v == Verdict(got[c])
  IN /\ Return(c, "answered", v)
     /\ success' = IF v.ok /\ TTL > 0 THEN Entry(TTL, v) ELSE success
     /\ fail' = IF ~v.ok /\ FailTTL > 0 THEN Entry(FailTTL, v) ELSE fail
     /\ UNCHANGED <<world, sent, got>>

(* Refused, reset or timed out: an error, treated as a refusal by handlers *)
(* and never cached.                                                       *)
Fail(c) ==
  /\ pc[c] \in {"asked", "answered"} /\ pc' = [pc EXCEPT ![c] = "error"]
  /\ UNCHANGED <<world, caches, sent, got, result>>

(* The call's locals die with it.                                          *)
Reset(c) ==
  /\ pc[c] \in {"done", "error"} /\ pc' = [pc EXCEPT ![c] = "idle"]
  /\ sent' = [sent EXCEPT ![c] = 0] /\ got' = [got EXCEPT ![c] = NoResponse]
  /\ result' = [result EXCEPT ![c] = Allowed]
  /\ UNCHANGED <<world, caches>>

(* The service's mind and the clock; the HTTP timeout fires in time.       *)
Observe(r, t) ==
  /\ service' = r /\ clock' = t
  /\ lastOK' = IF Verdict(r).ok THEN t ELSE lastOK
  /\ lastNo' = IF Verdict(r).ok THEN lastNo ELSE t

ChangeMind == (\E r \in Responses : Observe(r, clock)) /\ UNCHANGED <<caches, callers>>

Waiting(c) == pc[c] \in {"asked", "answered"}
Tick ==
  /\ clock < MaxTime
  /\ \A c \in Callers : Waiting(c) => clock < sent[c] + Timeout
  /\ Observe(service, clock + 1) /\ UNCHANGED <<caches, callers>>

Authorize(c) == Lookup(c) \/ Ask(c) \/ Answer(c) \/ Store(c) \/ Fail(c)
Next == (\E c \in Callers : Authorize(c) \/ Reset(c)) \/ ChangeMind \/ Tick

Spec == Init /\ [][Next]_vars

----------------------------------------------------------------------------
Results == {Allowed} \cup {Refused(s) : s \in Statuses}

(* Every refusal carries one of the three statuses a client may be shown,  *)
(* every success none, whatever headers the service sends; a success is    *)
(* cached only among successes and a refusal only among refusals.          *)
TypeOK ==
  /\ clock \in 0 .. MaxTime /\ service \in Responses
  /\ lastOK \in Never .. clock /\ lastNo \in Never .. clock
  /\ success \in [until : Nat, res : {Allowed}]
  /\ fail = None \/ fail \in [until : Nat, res : Results \ {Allowed}]
  /\ pc \in [Callers -> {"idle", "miss", "asked", "answered", "done", "error"}]
  /\ sent \in [Callers -> 0 .. clock] /\ got \in [Callers -> Responses \cup {NoResponse}]
  /\ result \in [Callers -> Results]

(* Nobody is let in by a decision the service has long taken back: when    *)
(* Authorize says yes, the service would have said yes no longer ago than  *)
(* the cache's lifetime plus one HTTP timeout, though callers race, answers*)
(* arrive late and a newer refusal may already be cached; and likewise a   *)
(* no is never older than the refusal cache and one timeout.               *)
Fresh ==
  [][\A c \in Callers : pc[c] # "done" /\ pc'[c] = "done" =>
       IF result'[c].ok THEN clock - lastOK <= TTL + Timeout
                        ELSE clock - lastNo <= FailTTL + Timeout]_vars
=============================================================================
