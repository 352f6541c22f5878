--------------------------- MODULE AuthClientProofs ---------------------------
(* Freshness of AuthClient's verdicts, for every lifetime, timeout, set of *)
(* responses and number of callers.                                        *)
EXTENDS AuthClient, TLAPS

(* What the history variables know of the service, the caches and the      *)
(* responses in flight.                                                    *)
ServiceSeen == IF Verdict(service).ok THEN lastOK = clock ELSE lastNo = clock
CachesDated == /\ success.until > 0 => success.until - TTL - Timeout <= lastOK
               /\ fail.until > 0 => fail.until - FailTTL - Timeout <= lastNo
CallDated(c) ==
  /\ Waiting(c) => clock <= sent[c] + Timeout
  /\ pc[c] = "answered" =>
       /\ got[c] \in Responses
       /\ sent[c] <= IF Verdict(got[c]).ok THEN lastOK ELSE lastNo

IInv == TypeOK /\ ServiceSeen /\ CachesDated /\ \A c \in Callers : CallDated(c)

LEMMA VerdictType ==
  \A r : Verdict(r) \in Results /\ (Verdict(r).ok => Verdict(r) = Allowed)
         /\ (~Verdict(r).ok => Verdict(r) \in Results \ {Allowed})
<1> TAKE r
<1>1. RejectStatus(r) \in Statuses /\ 503 \in Statuses  BY DEF RejectStatus, Statuses
<1>2. /\ Allowed.ok
      /\ \A s : ~Refused(s).ok /\ Refused(s) # Allowed
      /\ \A s \in Statuses : Refused(s) \in Results
      /\ Allowed \in Results
  BY DEF Refused, Allowed, Results
<1>3. Verdict(r) = Allowed \/ \E s \in Statuses : Verdict(r) = Refused(s)
  BY <1>1 DEF Verdict
<1> QED BY <1>2, <1>3

LEMMA Constants ==
  /\ TTL \in Nat /\ FailTTL \in Nat /\ Timeout \in Nat /\ MaxTime \in Nat
  /\ Never \in Int /\ Never < 0
BY AuthAssumption DEF Never

LEMMA InductiveInit == Init => IInv
<1> SUFFICES ASSUME Init PROVE IInv  OBVIOUS
<1>1. TypeOK
  BY Constants, AuthAssumption DEF Init, TypeOK, None, NoResponse, Allowed, Results
<1> QED BY <1>1, Constants DEF Init, IInv, ServiceSeen, CachesDated, CallDated, Waiting, None

(* A step that leaves the service and the clock alone keeps ServiceSeen.   *)
LEMMA InductiveStep == IInv /\ [Next]_vars => IInv'
<1> SUFFICES ASSUME IInv, [Next]_vars PROVE IInv'  OBVIOUS
<1> USE Constants
<1>1. /\ TypeOK /\ ServiceSeen /\ CachesDated /\ \A c \in Callers : CallDated(c)
      /\ clock \in Nat /\ lastOK \in Int /\ lastNo \in Int /\ lastOK <= clock /\ lastNo <= clock
      /\ \A c \in Callers : sent[c] \in Nat /\ sent[c] <= clock
  BY DEF IInv, TypeOK
<1>2. ASSUME NEW c \in Callers, Lookup(c) PROVE IInv'
  <2>1. \E to \in {"done", "miss"} : Step(c, "idle", to)  BY <1>2 DEF Lookup, Return
  <2>2. result' \in [Callers -> Results]
    <3>1. success.res \in Results /\ fail.res \in Results
      BY <1>1 DEF TypeOK, None, Results
    <3> QED BY <1>1, <1>2, <3>1 DEF Lookup, Return, TypeOK
  <2>3. UNCHANGED <<world, caches, sent, got>>  BY <1>2 DEF Lookup
  <2> QED BY <1>1, <2>1, <2>2, <2>3
          DEF IInv, TypeOK, ServiceSeen, CachesDated, CallDated, Waiting, Step, world, caches
<1>3. ASSUME NEW c \in Callers, Ask(c) PROVE IInv'
  BY <1>1, <1>3 DEF Ask, IInv, TypeOK, ServiceSeen, CachesDated, CallDated, Waiting, Step,
                    world, caches
<1>4. ASSUME NEW c \in Callers, Answer(c) PROVE IInv'
  BY <1>1, <1>4 DEF Answer, IInv, TypeOK, ServiceSeen, CachesDated, CallDated, Waiting, Step,
                    world, caches
<1>5. ASSUME NEW c \in Callers, Store(c) PROVE IInv'
  <2> DEFINE v == Verdict(got[c])
  <2>1. /\ v \in Results
        /\ v.ok => v = Allowed
        /\ ~v.ok => v \in Results \ {Allowed}
    BY VerdictType
  <2>2. /\ UNCHANGED <<world, sent, got>>
        /\ pc[c] = "answered" /\ pc' = [pc EXCEPT ![c] = "done"]
        /\ result' = [result EXCEPT ![c] = v]
        /\ success' = IF v.ok /\ TTL > 0 THEN Entry(TTL, v) ELSE success
        /\ fail' = IF ~v.ok /\ FailTTL > 0 THEN Entry(FailTTL, v) ELSE fail
    BY <1>5 DEF Store, Return, Step
  <2>3. clock <= sent[c] + Timeout /\ sent[c] <= IF v.ok THEN lastOK ELSE lastNo
    BY <1>1, <2>2 DEF CallDated, Waiting
  <2> HIDE DEF v
  <2>4. TypeOK'
    <3>1. success' \in [until : Nat, res : {Allowed}]
      BY <1>1, <2>1, <2>2 DEF TypeOK, Entry
    <3>2. fail' = None \/ fail' \in [until : Nat, res : Results \ {Allowed}]
      BY <1>1, <2>1, <2>2 DEF TypeOK, Entry
    <3> QED BY <1>1, <2>1, <2>2, <3>1, <3>2 DEF TypeOK, world
  <2>5. CachesDated'  BY <1>1, <2>2, <2>3 DEF CachesDated, Entry, world
  <2>6. ServiceSeen' /\ \A x \in Callers : CallDated(x)'
    BY <1>1, <2>2 DEF ServiceSeen, CallDated, Waiting, world, TypeOK
  <2> QED BY <2>4, <2>5, <2>6 DEF IInv
<1>6. ASSUME NEW c \in Callers, Fail(c) PROVE IInv'
  BY <1>1, <1>6 DEF Fail, IInv, TypeOK, ServiceSeen, CachesDated, CallDated, Waiting,
                    world, caches
<1>7. ASSUME NEW c \in Callers, Reset(c) PROVE IInv'
  BY <1>1, <1>7 DEF Reset, IInv, TypeOK, ServiceSeen, CachesDated, CallDated, Waiting,
                    world, caches, Results
<1>8. ASSUME NEW r \in Responses, NEW t \in {clock, clock + 1}, Observe(r, t), t <= MaxTime,
             UNCHANGED <<caches, callers>>,
             t = clock \/ \A c \in Callers : Waiting(c) => clock < sent[c] + Timeout
      PROVE  IInv'
  <2>1. /\ service' = r /\ clock' = t
        /\ lastOK' = IF Verdict(r).ok THEN t ELSE lastOK
        /\ lastNo' = IF Verdict(r).ok THEN lastNo ELSE t
    BY <1>8 DEF Observe
  <2>2. lastOK <= lastOK' /\ lastNo <= lastNo' /\ lastOK' \in Int /\ lastNo' \in Int
    BY <1>1, <2>1
  <2>3. TypeOK'  BY <1>1, <1>8, <2>1 DEF TypeOK, caches, callers
  <2>4. ServiceSeen'  BY <2>1 DEF ServiceSeen
  <2>5. CachesDated'
    <3>1. success.until \in Nat /\ fail.until \in Nat  BY <1>1 DEF TypeOK, None
    <3> QED BY <1>1, <1>8, <2>2, <3>1 DEF CachesDated, caches
  <2>6. ASSUME NEW c \in Callers PROVE CallDated(c)'
    <3>1. CallDated(c) /\ UNCHANGED <<pc, sent, got>>  BY <1>1, <1>8 DEF callers
    <3>2. Waiting(c) => clock' <= sent[c] + Timeout
      BY <1>1, <1>8, <2>1, <3>1 DEF CallDated
    <3> QED BY <1>1, <2>2, <3>1, <3>2 DEF CallDated, Waiting
  <2> QED BY <2>3, <2>4, <2>5, <2>6 DEF IInv
<1>9. CASE ChangeMind  BY <1>1, <1>8, <1>9 DEF ChangeMind, TypeOK
<1>10. CASE Tick  BY <1>1, <1>8, <1>10 DEF Tick, TypeOK
<1>11. CASE UNCHANGED vars
  BY <1>1, <1>11 DEF vars, world, caches, callers, IInv, TypeOK, ServiceSeen, CachesDated,
                     CallDated, Waiting
<1> QED BY <1>2, <1>3, <1>4, <1>5, <1>6, <1>7, <1>9, <1>10, <1>11 DEF Next, Authorize

(* The state has its type; in particular every refusal that leaves         *)
(* Authorize carries one of the three statuses a client may be shown.      *)
THEOREM VerdictsAreTyped == Spec => []TypeOK
<1>1. IInv => TypeOK  BY DEF IInv
<1> QED BY <1>1, InductiveInit, InductiveStep, PTL DEF Spec

LEMMA FreshStep ==
  ASSUME IInv, [Next]_vars, NEW c \in Callers, pc[c] # "done", pc'[c] = "done"
  PROVE  IF result'[c].ok THEN clock - lastOK <= TTL + Timeout
                          ELSE clock - lastNo <= FailTTL + Timeout
<1> USE Constants
<1>1. /\ TypeOK /\ CachesDated /\ CallDated(c)
      /\ clock \in Nat /\ lastOK \in Int /\ lastNo \in Int /\ sent[c] \in Nat
      /\ success.until \in Nat /\ fail.until \in Nat
  BY DEF IInv, TypeOK, None
<1>2. \/ Lookup(c) \/ Store(c)
  <2>1. ASSUME NEW x \in Callers, Authorize(x) \/ Reset(x), ~(Lookup(c) \/ Store(c)) PROVE FALSE
    BY <1>1, <2>1 DEF Authorize, Lookup, Ask, Answer, Store, Fail, Reset, Return, Step, TypeOK
  <2>2. ~(ChangeMind \/ Tick \/ UNCHANGED vars)
    BY DEF ChangeMind, Tick, vars, callers
  <2> QED BY <2>1, <2>2 DEF Next
<1>3. CASE Lookup(c)
  <2>1. \/ Hit(TTL, success) /\ result'[c] = success.res
        \/ Hit(FailTTL, fail) /\ result'[c] = fail.res
    BY <1>1, <1>3 DEF Lookup, Return, Step, TypeOK
  <2>2. CASE Hit(TTL, success) /\ result'[c] = success.res
    <3>1. result'[c].ok  BY <1>1, <2>2 DEF TypeOK, Allowed
    <3> QED BY <1>1, <2>2, <3>1 DEF Hit, CachesDated
  <2>3. CASE Hit(FailTTL, fail) /\ result'[c] = fail.res
    <3>1. fail.until > 0  BY <1>1, <2>3 DEF Hit
    <3>2. ~result'[c].ok
      BY <1>1, <2>3, <3>1 DEF TypeOK, None, Results, Refused, Allowed
    <3> QED BY <1>1, <2>3, <3>1, <3>2 DEF Hit, CachesDated
  <2> QED BY <2>1, <2>2, <2>3
<1>4. CASE Store(c)
  <2>1. pc[c] = "answered" /\ result'[c] = Verdict(got[c])
    BY <1>1, <1>4 DEF Store, Return, Step, TypeOK
  <2>2. clock <= sent[c] + Timeout /\ sent[c] <= IF Verdict(got[c]).ok THEN lastOK ELSE lastNo
    BY <1>1, <2>1 DEF CallDated, Waiting
  <2> QED BY <1>1, <2>1, <2>2
<1> QED BY <1>2, <1>3, <1>4

(* Authorize never lets a client in on a decision taken back longer ago    *)
(* than the success cache's lifetime plus one HTTP timeout, nor keeps one  *)
(* out longer than the refusal cache's lifetime plus one timeout.          *)
THEOREM VerdictsAreFresh == Spec => Fresh
<1>1. IInv /\ [Next]_vars =>
        [\A c \in Callers : pc[c] # "done" /\ pc'[c] = "done" =>
           IF result'[c].ok THEN clock - lastOK <= TTL + Timeout
                            ELSE clock - lastNo <= FailTTL + Timeout]_vars
  BY FreshStep
<1> QED BY <1>1, InductiveInit, InductiveStep, PTL DEF Spec, Fresh
=============================================================================
