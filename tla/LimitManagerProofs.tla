-------------------------- MODULE LimitManagerProofs --------------------------
(* Theorems about LimitManager, for every number of handlers, every set of *)
(* requests and every clock.                                               *)
EXTENDS LimitManager, FiniteSetTheorems, TLAPS

(* A clock reading lies in a second of the model.                          *)
LEMMA SecondType == \A t \in 0 .. MaxTime : Second(t) \in Seconds
<1> USE LimitAssumption DEF Second, Seconds
<1>1. ASSUME NEW t \in Nat, NEW m \in Nat, NEW h \in Nat \ {0}, t <= m
      PROVE  t \div h \in 0 .. (m \div h)
  BY <1>1, Z3
<1> QED BY <1>1

LEMMA RequestType ==
  ASSUME NEW q \in Requests
  PROVE  /\ q.key \in [Dims -> Keys] /\ q.conns \in [Dims -> Int] /\ q.qps \in [Dims -> Int]
         /\ q.key["user"] # q.key["ip"] /\ "user" \in Dims /\ "ip" \in Dims
BY LimitAssumption DEF Dims

LEMMA TypeInit == Init => TypeOK
<1> SUFFICES ASSUME Init PROVE TypeOK  OBVIOUS
<1>1. 0 \in Seconds  BY SecondType, LimitAssumption DEF Second, Seconds
<1> QED BY <1>1, LimitAssumption DEF Init, TypeOK, PCs

(* A step that sends a handler to a known label and leaves its requests and *)
(* the clock alone keeps the types of both; its clock may be read.         *)
LEMMA LabelsType == \A d \in Dims : LockAt[d] \in PCs /\ AfterQPS[d] \in PCs
BY DEF Dims, LockAt, AfterQPS, PCs

LEMMA GotoType ==
  ASSUME TypeOK, NEW c \in Conns, NEW l \in PCs, Goto(c, l)
  PROVE  pc' \in [Conns -> PCs]
BY DEF TypeOK, Goto

LEMMA ReadClockType ==
  ASSUME TypeOK, NEW c \in Conns, ReadClock(c)
  PROVE  clk' \in [Conns -> 0 .. now]
BY LimitAssumption DEF TypeOK, ReadClock

LEMMA DropClockType ==
  ASSUME TypeOK, NEW c \in Conns, DropClock(c)
  PROVE  clk' \in [Conns -> 0 .. now]
BY LimitAssumption DEF TypeOK, DropClock

(* What TryAcquire and Release do to the table keeps it a table of counters. *)
LEMMA ChargeType ==
  ASSUME NEW table \in [Keys -> Nat], NEW q \in Requests, NEW d \in Dims
  PROVE  Charge(table, q, d) \in [Keys -> Nat] /\ Refund(table, q, d) \in [Keys -> Nat]
<1>1. q.key[d] \in Keys /\ q.conns[d] \in Int  BY RequestType
<1> QED BY <1>1 DEF Charge, Refund

LEMMA RollbackUndoes ==
  ASSUME NEW table \in [Keys -> Nat], NEW q \in Requests
  PROVE  Rollback(Charge(table, q, "user"), q) = table
<1>1. q.key["user"] \in Keys /\ q.conns["user"] \in Int  BY RequestType
<1> QED BY <1>1 DEF Charge, Rollback

LEMMA TypeStep == TypeOK /\ [Next]_vars => TypeOK'
<1> SUFFICES ASSUME TypeOK, [Next]_vars PROVE TypeOK'  OBVIOUS
<1> USE LimitAssumption
<1>1. CASE Tick
  BY <1>1 DEF Tick, TypeOK, qpsVars
<1>2. ASSUME NEW c \in Conns, Arrive(c) PROVE TypeOK'
  BY <1>2 DEF Arrive, TypeOK, At, Goto, PCs, rateVars, qpsVars
<1>3. ASSUME NEW c \in Conns, AllowNewConn(c) PROVE TypeOK'
  <2>1. CASE RateClock(c)
    <3>1. pc' \in [Conns -> PCs]  BY <2>1, GotoType DEF RateClock, PCs
    <3>2. clk' \in [Conns -> 0 .. now]  BY <2>1, ReadClockType DEF RateClock, TypeOK
    <3> QED BY <2>1, <3>1, <3>2 DEF RateClock, TypeOK, rateVars, qpsVars
  <2>2. CASE RateElapsed(c)
    <3>1. pc' \in [Conns -> PCs]  BY <2>2, GotoType DEF RateElapsed, PCs
    <3>2. clk' \in [Conns -> 0 .. now]  BY <2>2, DropClockType DEF RateElapsed, TypeOK
    <3> QED BY <2>2, <3>1, <3>2 DEF RateElapsed, TypeOK, rateVars, qpsVars
  <2>3. CASE RateZero(c)
    BY <2>3 DEF RateZero, TypeOK, At, Goto, PCs, rateVars, qpsVars
  <2>4. CASE RateStart(c)
    <3>1. clk' \in [Conns -> 0 .. now]  BY <2>4, DropClockType DEF RateStart
    <3> QED BY <2>4, <3>1 DEF RateStart, TypeOK, At, Goto, PCs, rateVars, qpsVars
  <2>5. CASE RateLoad(c)
    BY <2>5 DEF RateLoad, TypeOK, At, Goto, PCs, rateVars, qpsVars
  <2>6. CASE RateAdd(c)
    BY <2>6 DEF RateAdd, TypeOK, At, Goto, PCs, rateVars, qpsVars
  <2> QED BY <1>3, <2>1, <2>2, <2>3, <2>4, <2>5, <2>6 DEF AllowNewConn
<1>4. ASSUME NEW c \in Conns, NEW d \in Dims, QPSClock(c, d) PROVE TypeOK'
  <2>1. pc' \in [Conns -> PCs]  BY <1>4, GotoType, LabelsType DEF QPSClock
  <2>2. clk' \in [Conns -> 0 .. now]  BY <1>4, ReadClockType DEF QPSClock, TypeOK
  <2> QED BY <1>4, <2>1, <2>2 DEF QPSClock, TypeOK, rateVars, qpsVars
<1>5. ASSUME NEW c \in Conns, NEW d \in Dims, QPSLocked(c, d) PROVE TypeOK'
  <2>1. PICK k \in Keys, sec \in Seconds :
          /\ k = req[c].key[d] /\ sec = Second(clk[c])
    <3>1. req[c].key[d] \in Keys  BY RequestType DEF TypeOK
    <3>2. clk[c] \in 0 .. MaxTime  BY DEF TypeOK
    <3> QED BY <3>1, <3>2, SecondType
  <2>2. PICK w \in [sec : Seconds \cup {-1}, n : Nat] : w = Current(window[k], sec)
    BY DEF TypeOK, Current
  <2>3. \/ window' = [window EXCEPT ![k] = w] /\ grants' = grants
        \/ /\ window' = [window EXCEPT ![k] = [sec |-> sec, n |-> w.n + 1]]
           /\ grants' = [grants EXCEPT ![k][sec] = @ + 1]
    BY <1>5, <2>1, <2>2 DEF QPSLocked
  <2>4. window' \in [Keys -> [sec : Seconds \cup {-1}, n : Nat]]
    <3>1. window \in [Keys -> [sec : Seconds \cup {-1}, n : Nat]]  BY DEF TypeOK
    <3>2. w.n + 1 \in Nat  OBVIOUS
    <3> QED BY <2>3, <3>1, <3>2
  <2>5. grants' \in [Keys -> [Seconds -> Nat]]
    <3>1. [grants[k] EXCEPT ![sec] = @ + 1] \in [Seconds -> Nat]  BY DEF TypeOK
    <3> QED BY <2>3, <3>1 DEF TypeOK
  <2>6. pc' \in [Conns -> PCs]
    <3>1. Goto(c, "refused") \/ Goto(c, AfterQPS[d])  BY <1>5 DEF QPSLocked
    <3>2. "refused" \in PCs  BY DEF PCs
    <3> QED BY <3>1, <3>2, GotoType, LabelsType
  <2>7. clk' \in [Conns -> 0 .. now]  BY <1>5, DropClockType DEF QPSLocked
  <2>8. straddles' \in [Keys -> Nat]
    <3>1. PICK n \in {0, 1} : straddles' = [straddles EXCEPT ![k] = @ + n]
      BY <1>5, <2>1 DEF QPSLocked
    <3> QED BY <3>1 DEF TypeOK
  <2> QED BY <1>5, <2>4, <2>5, <2>6, <2>7, <2>8 DEF QPSLocked, TypeOK, rateVars
<1>6. ASSUME NEW c \in Conns, AcquireConns(c) PROVE TypeOK'
  <2> DEFINE q == req[c]
  <2>1. q \in Requests /\ conns \in [Keys -> Nat]  BY DEF TypeOK
  <2>2. conns' \in [Keys -> Nat]
    <3>1. Charge(conns, q, "user") \in [Keys -> Nat]
      BY <2>1, ChargeType DEF Dims
    <3>2. Charge(Charge(conns, q, "user"), q, "ip") \in [Keys -> Nat]
      BY <2>1, <3>1, ChargeType DEF Dims
    <3>3. Rollback(Charge(conns, q, "user"), q) = conns  BY <2>1, RollbackUndoes
    <3> QED BY <1>6, <2>1, <3>2, <3>3 DEF AcquireConns
  <2>3. pc' \in [Conns -> PCs]
    BY <1>6 DEF AcquireConns, TypeOK, Goto, PCs
  <2> QED BY <1>6, <2>2, <2>3 DEF AcquireConns, TypeOK, rateVars, qpsVars
<1>7. ASSUME NEW c \in Conns, Release(c) PROVE TypeOK'
  <2>1. req[c] \in Requests /\ conns \in [Keys -> Nat]  BY DEF TypeOK
  <2>2. Refund(conns, req[c], "user") \in [Keys -> Nat]  BY <2>1, ChargeType DEF Dims
  <2>3. conns' \in [Keys -> Nat]  BY <1>7, <2>1, <2>2, ChargeType DEF Release, Dims
  <2> QED BY <1>7, <2>3 DEF Release, TypeOK, Goto, PCs, rateVars, qpsVars
<1>8. ASSUME NEW c \in Conns, GiveUp(c) PROVE TypeOK'
  BY <1>8 DEF GiveUp, TypeOK, Goto, PCs, rateVars, qpsVars
<1>9. CASE UNCHANGED vars
  BY <1>9 DEF vars, TypeOK, rateVars, qpsVars
<1> QED BY <1>1, <1>2, <1>3, <1>4, <1>5, <1>6, <1>7, <1>8, <1>9 DEF Next, TryAcquire

(* Every state has its type: no counter of the manager goes negative, and  *)
(* a handler's clock reading is never ahead of the clock.                  *)
THEOREM TypeCorrect == Spec => []TypeOK
<1> QED BY TypeInit, TypeStep, PTL DEF Spec

----------------------------------------------------------------------------
(* Who holds a slot changes only when a handler is admitted or releases.   *)
Quiet == \A x \in Conns : /\ pc'[x] = "held" <=> pc[x] = "held"
                          /\ pc[x] = "held" => req'[x] = req[x]

Admitted(c) ==
  /\ pc[c] = "conns" /\ ~AtLimit(req[c], "user") /\ ~AtLimit(req[c], "ip")
  /\ pc' = [pc EXCEPT ![c] = "held"] /\ req' = req
  /\ conns' = Charge(Charge(conns, req[c], "user"), req[c], "ip")

LEMMA StepKinds ==
  ASSUME TypeOK, [Next]_vars
  PROVE  \/ Quiet /\ conns' = conns
         \/ \E c \in Conns : Admitted(c)
         \/ \E c \in Conns : Release(c)
<1> USE DEF Quiet, TypeOK, At, Goto
<1>1. CASE Tick  BY <1>1 DEF Tick
<1>2. ASSUME NEW c \in Conns, Arrive(c) PROVE Quiet /\ conns' = conns
  BY <1>2 DEF Arrive
<1>3. ASSUME NEW c \in Conns, AllowNewConn(c) PROVE Quiet /\ conns' = conns
  BY <1>3 DEF AllowNewConn, RateClock, RateElapsed, RateZero, RateStart, RateLoad, RateAdd
<1>4. ASSUME NEW c \in Conns, NEW d \in Dims, QPSClock(c, d) \/ QPSLocked(c, d)
      PROVE  Quiet /\ conns' = conns
  <2>1. At(c, QPSAt[d]) \/ At(c, LockAt[d])  BY <1>4 DEF QPSClock, QPSLocked
  <2>2. \E l \in {LockAt[d], AfterQPS[d], "refused"} : Goto(c, l)
    BY <1>4 DEF QPSClock, QPSLocked
  <2>3. req' = req /\ conns' = conns  BY <1>4 DEF QPSClock, QPSLocked
  <2> QED BY <2>1, <2>2, <2>3 DEF Dims, QPSAt, LockAt, AfterQPS
<1>5. ASSUME NEW c \in Conns, AcquireConns(c)
      PROVE  (Quiet /\ conns' = conns) \/ Admitted(c)
  <2>1. Rollback(Charge(conns, req[c], "user"), req[c]) = conns  BY RollbackUndoes
  <2> QED BY <1>5, <2>1 DEF AcquireConns, Admitted
<1>6. ASSUME NEW c \in Conns, GiveUp(c) PROVE Quiet /\ conns' = conns
  BY <1>6 DEF GiveUp
<1>7. CASE UNCHANGED vars  BY <1>7 DEF vars
<1> QED BY <1>1, <1>2, <1>3, <1>4, <1>5, <1>6, <1>7 DEF Next, TryAcquire

LEMMA HoldersFinite == \A k \in Keys : IsFiniteSet(Holders(k))
BY LimitAssumption, FS_Subset DEF Holders

LEMMA AdmittedHolders ==
  ASSUME TypeOK, NEW c \in Conns, Admitted(c), NEW k \in Keys
  PROVE  /\ Holders(k)' = IF ChargedFor(req[c], k) THEN Holders(k) \cup {c} ELSE Holders(k)
         /\ c \notin Holders(k)
         /\ conns'[k] = conns[k] + (IF ChargedFor(req[c], k) THEN 1 ELSE 0)
<1>1. /\ Holders(k)' = IF ChargedFor(req[c], k) THEN Holders(k) \cup {c} ELSE Holders(k)
      /\ c \notin Holders(k)
  BY DEF Admitted, Holders, TypeOK
<1>2. conns'[k] = conns[k] + (IF ChargedFor(req[c], k) THEN 1 ELSE 0)
  <2>1. req[c] \in Requests /\ conns \in [Keys -> Nat]  BY DEF TypeOK
  <2> DEFINE q == req[c]
  <2>2. /\ q.key["user"] \in Keys /\ q.key["ip"] \in Keys /\ q.key["user"] # q.key["ip"]
        /\ q.conns["user"] \in Int /\ q.conns["ip"] \in Int
    BY <2>1, RequestType
  <2>3. conns' = Charge(Charge(conns, q, "user"), q, "ip")  BY DEF Admitted
  <2> HIDE DEF q
  <2>4. conns'[k] = conns[k] + (IF ChargedFor(q, k) THEN 1 ELSE 0)
    BY <2>1, <2>2, <2>3 DEF Charge, ChargedFor, Dims
  <2> QED BY <2>4 DEF q
<1> QED BY <1>1, <1>2

LEMMA ReleaseHolders ==
  ASSUME TypeOK, CountsExact, NEW c \in Conns, Release(c), NEW k \in Keys
  PROVE  /\ Holders(k)' = IF ChargedFor(req[c], k) THEN Holders(k) \ {c} ELSE Holders(k)
         /\ ChargedFor(req[c], k) => c \in Holders(k)
         /\ conns'[k] = conns[k] - (IF ChargedFor(req[c], k) THEN 1 ELSE 0)
<1>1. /\ Holders(k)' = IF ChargedFor(req[c], k) THEN Holders(k) \ {c} ELSE Holders(k)
      /\ ChargedFor(req[c], k) => c \in Holders(k)
  BY DEF Release, At, Goto, Holders, TypeOK
<1>2. conns'[k] = conns[k] - (IF ChargedFor(req[c], k) THEN 1 ELSE 0)
  <2> DEFINE q == req[c]
  <2>1. req[c] \in Requests /\ conns \in [Keys -> Nat]  BY DEF TypeOK
  <2>2. /\ q.key["user"] \in Keys /\ q.key["ip"] \in Keys /\ q.key["user"] # q.key["ip"]
        /\ q.conns["user"] \in Int /\ q.conns["ip"] \in Int
    BY <2>1, RequestType
  <2>3. ASSUME NEW j \in Keys, ChargedFor(q, j) PROVE conns[j] > 0
    <3>1. c \in Holders(j)  BY <2>3 DEF Holders, Release, At
    <3>2. IsFiniteSet(Holders(j))  BY HoldersFinite
    <3>3. Cardinality(Holders(j)) # 0  BY <3>1, <3>2, FS_EmptySet
    <3> QED BY <2>1, <3>3 DEF CountsExact
  <2>4. conns' = Refund(Refund(conns, q, "user"), q, "ip")  BY DEF Release
  <2> HIDE DEF q
  <2>5. \A d \in Dims : q.conns[d] > 0 => conns[q.key[d]] > 0
    BY <2>2, <2>3 DEF ChargedFor, Dims
  <2>6. conns'[k] = conns[k] - (IF ChargedFor(q, k) THEN 1 ELSE 0)
    BY <2>1, <2>2, <2>4, <2>5 DEF Refund, ChargedFor, Dims
  <2> QED BY <2>6 DEF q
<1> QED BY <1>1, <1>2

LEMMA CountsInit == Init => CountsExact
<1> SUFFICES ASSUME Init, NEW k \in Keys PROVE conns[k] = Cardinality(Holders(k))
  BY DEF CountsExact
<1>1. Holders(k) = {}  BY DEF Init, Holders
<1> QED BY <1>1, FS_EmptySet DEF Init

LEMMA CountsStep == TypeOK /\ CountsExact /\ [Next]_vars => CountsExact'
<1> SUFFICES ASSUME TypeOK, CountsExact, [Next]_vars, NEW k \in Keys
             PROVE  conns'[k] = Cardinality(Holders(k)')
  BY DEF CountsExact
<1>1. conns[k] = Cardinality(Holders(k)) /\ IsFiniteSet(Holders(k))
  BY HoldersFinite DEF CountsExact
<1>2. CASE Quiet /\ conns' = conns
  <2>1. Holders(k)' = Holders(k)  BY <1>2 DEF Quiet, Holders
  <2> QED BY <1>1, <1>2, <2>1
<1>3. ASSUME NEW c \in Conns, Admitted(c) PROVE conns'[k] = Cardinality(Holders(k)')
  <2>1. Cardinality(Holders(k) \cup {c}) = Cardinality(Holders(k)) + 1
    BY <1>1, <1>3, AdmittedHolders, FS_AddElement
  <2>2. conns[k] \in Nat  BY DEF TypeOK
  <2>3. CASE ChargedFor(req[c], k)
    <3>1. Holders(k)' = Holders(k) \cup {c} /\ conns'[k] = conns[k] + 1
      BY <1>3, <2>3, AdmittedHolders
    <3> QED BY <1>1, <2>1, <3>1
  <2>4. CASE ~ChargedFor(req[c], k)
    <3>1. Holders(k)' = Holders(k) /\ conns'[k] = conns[k] + 0
      BY <1>3, <2>4, AdmittedHolders
    <3> QED BY <1>1, <2>2, <3>1
  <2> QED BY <2>3, <2>4
<1>4. ASSUME NEW c \in Conns, Release(c) PROVE conns'[k] = Cardinality(Holders(k)')
  <2>1. c \in Holders(k) => Cardinality(Holders(k) \ {c}) = Cardinality(Holders(k)) - 1
    BY <1>1, FS_RemoveElement
  <2>2. conns[k] \in Nat  BY DEF TypeOK
  <2>3. CASE ChargedFor(req[c], k)
    <3>1. Holders(k)' = Holders(k) \ {c} /\ c \in Holders(k) /\ conns'[k] = conns[k] - 1
      BY <1>4, <2>3, ReleaseHolders
    <3> QED BY <1>1, <2>1, <3>1
  <2>4. CASE ~ChargedFor(req[c], k)
    <3>1. Holders(k)' = Holders(k) /\ conns'[k] = conns[k] - 0
      BY <1>4, <2>4, ReleaseHolders
    <3> QED BY <1>1, <2>2, <3>1
  <2> QED BY <2>3, <2>4
<1> QED BY <1>2, <1>3, <1>4, StepKinds

(* userConns and ipConns always hold the number of open sessions they      *)
(* stand for: TryAcquire's roll-back and the deferred Release lose no slot *)
(* and free none twice, however sessions overlap and limits change.        *)
THEOREM CountsAreExact == Spec => []CountsExact
<1>1. Init => TypeOK /\ CountsExact  BY TypeInit, CountsInit
<1>2. TypeOK /\ CountsExact /\ [Next]_vars => TypeOK' /\ CountsExact'
  BY TypeStep, CountsStep
<1> QED BY <1>1, <1>2, PTL DEF Spec

----------------------------------------------------------------------------
(* Sessions admitted for a key under a limit of at most m are among its    *)
(* holders.                                                                *)
LEMMA HoldersUpToFinite ==
  ASSUME NEW k \in Keys, NEW d \in Dims, NEW m \in Int
  PROVE  /\ HoldersUpTo(k, d, m) \subseteq Holders(k)
         /\ IsFiniteSet(HoldersUpTo(k, d, m))
         /\ Cardinality(HoldersUpTo(k, d, m)) \in Nat
         /\ Cardinality(HoldersUpTo(k, d, m)) <= Cardinality(Holders(k))
<1>1. HoldersUpTo(k, d, m) \subseteq Holders(k)
  BY DEF HoldersUpTo, Holders, ChargedFor
<1> QED BY <1>1, HoldersFinite, FS_Subset, FS_CardinalityType

LEMMA LimitsStep ==
  TypeOK /\ CountsExact /\ LimitsRespected /\ [Next]_vars => LimitsRespected'
<1> SUFFICES ASSUME TypeOK, CountsExact, LimitsRespected, [Next]_vars,
                    NEW q \in Requests, NEW d \in Dims, q.conns[d] > 0
             PROVE  Cardinality(HoldersUpTo(q.key[d], d, q.conns[d])') <= q.conns[d]
  BY DEF LimitsRespected
<1>1. PICK k \in Keys, m \in Nat : k = q.key[d] /\ m = q.conns[d]
  BY RequestType
<1> SUFFICES Cardinality(HoldersUpTo(k, d, m)') <= m  BY <1>1
<1> DEFINE S == HoldersUpTo(k, d, m)
<1>2. /\ S \subseteq Holders(k) /\ IsFiniteSet(S) /\ Cardinality(S) \in Nat
      /\ Cardinality(S) <= Cardinality(Holders(k)) /\ Cardinality(S) <= m
  BY <1>1, HoldersUpToFinite DEF LimitsRespected
<1>3. CASE Quiet /\ conns' = conns
  <2>1. S' = S  BY <1>3 DEF Quiet, HoldersUpTo
  <2> QED BY <1>2, <2>1
<1>4. ASSUME NEW c \in Conns, Admitted(c) PROVE Cardinality(S') <= m
  <2>1. \/ S' = S
        \/ S' = S \cup {c} /\ req[c].key[d] = k /\ req[c].conns[d] \in 1 .. m
    <3>1. pc' = [pc EXCEPT ![c] = "held"] /\ req' = req /\ pc \in [Conns -> PCs]
      BY <1>4 DEF Admitted, TypeOK
    <3> DEFINE Counts(x) == req[x].key[d] = k /\ req[x].conns[d] \in 1 .. m
    <3>2. S' = {x \in Conns : (x = c \/ pc[x] = "held") /\ Counts(x)}
      BY <3>1 DEF HoldersUpTo
    <3>3. S = {x \in Conns : pc[x] = "held" /\ Counts(x)}  BY DEF HoldersUpTo
    <3>4. CASE Counts(c)
      <4>1. S' = S \cup {c}  BY <3>2, <3>3, <3>4
      <4> QED BY <3>4, <4>1
    <3>5. CASE ~Counts(c)
      <4> HIDE DEF Counts
      <4>1. {x \in Conns : (x = c \/ pc[x] = "held") /\ Counts(x)}
            = {x \in Conns : pc[x] = "held" /\ Counts(x)}
        BY <3>5
      <4> QED BY <3>2, <3>3, <4>1
    <3> QED BY <3>4, <3>5
  <2>2. CASE S' = S  BY <1>2, <2>2
  <2>3. CASE S' = S \cup {c} /\ req[c].key[d] = k /\ req[c].conns[d] \in 1 .. m
    <3>1. conns[k] < req[c].conns[d]
      <4>1. ~AtLimit(req[c], d)  BY <1>4 DEF Admitted, Dims
      <4> QED BY <2>3, <4>1 DEF AtLimit, TypeOK
    <3>2. Cardinality(S) + 1 <= m
      <4>1. req[c].conns[d] <= m /\ req[c].conns[d] \in Int  BY <2>3
      <4>2. conns[k] = Cardinality(Holders(k)) /\ conns[k] \in Nat
        BY DEF CountsExact, TypeOK
      <4> HIDE DEF S
      <4> QED BY <1>2, <3>1, <4>1, <4>2
    <3>3. c \notin S  BY <1>4 DEF Admitted, HoldersUpTo
    <3> QED BY <1>2, <2>3, <3>2, <3>3, FS_AddElement
  <2> QED BY <2>1, <2>2, <2>3
<1>5. ASSUME NEW c \in Conns, Release(c) PROVE Cardinality(S') <= m
  <2>1. S' \subseteq S  BY <1>5 DEF Release, At, Goto, HoldersUpTo, TypeOK
  <2> HIDE DEF S
  <2> QED BY <1>2, <2>1, FS_Subset, FS_CardinalityType
<1> QED BY <1>3, <1>4, <1>5, StepKinds

(* No key ever has more open sessions than the limits they were admitted   *)
(* under: for any limit in use, those admitted under it or a lower one     *)
(* number at most that limit, whatever answers the service gives meanwhile.*)
THEOREM LimitsAreRespected == Spec => []LimitsRespected
<1>1. Init => TypeOK /\ CountsExact /\ LimitsRespected
  <2> SUFFICES ASSUME Init, NEW q \in Requests, NEW d \in Dims, q.conns[d] > 0
               PROVE  Cardinality(HoldersUpTo(q.key[d], d, q.conns[d])) <= q.conns[d]
    BY TypeInit, CountsInit DEF LimitsRespected
  <2>1. HoldersUpTo(q.key[d], d, q.conns[d]) = {}  BY DEF Init, HoldersUpTo
  <2>2. q.conns[d] \in Int  BY RequestType
  <2> QED BY <2>1, <2>2, FS_EmptySet
<1>2. /\ TypeOK /\ CountsExact /\ LimitsRespected /\ [Next]_vars
      => TypeOK' /\ CountsExact' /\ LimitsRespected'
  BY TypeStep, CountsStep, LimitsStep
<1> QED BY <1>1, <1>2, PTL DEF Spec

----------------------------------------------------------------------------
----------------------------------------------------------------------------
(* The refinement.  PhaseOf reads a handler's phase off its label.         *)
PhaseOf(l) == CASE l = "held" -> "in" [] l = "full" -> "full" [] OTHER -> "out"

LEMMA PhaseMap ==
  /\ Phase = [c \in Conns |-> PhaseOf(pc[c])]
  /\ Phase' = [c \in Conns |-> PhaseOf(pc'[c])]
  /\ PhaseOf("held") = "in" /\ PhaseOf("full") = "full"
  /\ \A l : l \notin {"held", "full"} => PhaseOf(l) = "out"
BY DEF Phase, PhaseOf

LEMMA PromiseCardinality == \A S : Promise!Cardinality(S) = Cardinality(S)
BY DEF Promise!Cardinality, Cardinality

LEMMA PromiseHolders == \A k : Promise!Holders(k) = Holders(k)
BY PhaseMap DEF Promise!Holders, Promise!Dims, Holders, ChargedFor, Dims

LEMMA PromiseRoom ==
  ASSUME TypeOK, CountsExact, NEW c \in Conns
  PROVE  Promise!HasRoom(req[c]) <=> ~AtLimit(req[c], "user") /\ ~AtLimit(req[c], "ip")
<1>1. ASSUME NEW d \in Dims
      PROVE  AtLimit(req[c], d) <=>
               /\ req[c].conns[d] > 0
               /\ ~(Cardinality(Promise!Holders(req[c].key[d])) < req[c].conns[d])
  <2>1. PICK k \in Keys, n \in Int : k = req[c].key[d] /\ n = req[c].conns[d]
    BY RequestType DEF TypeOK
  <2>2. conns[k] \in Nat /\ conns[k] = Cardinality(Promise!Holders(k))
    BY PromiseHolders DEF CountsExact, TypeOK
  <2>3. AtLimit(req[c], d) <=> n > 0 /\ conns[k] >= n  BY <2>1 DEF AtLimit
  <2> QED BY <2>1, <2>2, <2>3
<1> DEFINE Room(d) == req[c].conns[d] > 0 =>
                        Cardinality(Promise!Holders(req[c].key[d])) < req[c].conns[d]
<1>2. Promise!HasRoom(req[c]) <=> \A d \in Dims : Room(d)
  BY PromiseCardinality DEF Promise!HasRoom, Promise!Dims, Dims
<1>3. \A d \in Dims : Room(d) <=> ~AtLimit(req[c], d)
  BY <1>1
<1> HIDE DEF Room
<1> QED BY <1>2, <1>3 DEF Dims

LEMMA PromiseMove ==
  ASSUME TypeOK, NEW c \in Conns, NEW l, Goto(c, l)
  PROVE  Phase' = [Phase EXCEPT ![c] = PhaseOf(l)]
BY PhaseMap DEF TypeOK, Goto

LEMMA PromiseStep ==
  ASSUME TypeOK, CountsExact, [Next]_vars
  PROVE  [Promise!Next]_Promise!vars
<1> USE DEF Promise!Next, Promise!vars, At
<1>1. ASSUME NEW c \in Conns, NEW l, Goto(c, l), PhaseOf(l) = "out",
             pc[c] \notin {"held", "full"}
      PROVE  Phase' = Phase
  <2>1. Phase[c] = "out"  BY <1>1, PhaseMap
  <2>2. Phase' = [Phase EXCEPT ![c] = "out"]  BY <1>1, PromiseMove
  <2> QED BY <2>1, <2>2 DEF Phase
<1>2. CASE Tick \/ UNCHANGED vars  BY <1>2 DEF Tick, vars, Phase
<1>3. ASSUME NEW c \in Conns, Arrive(c) PROVE [Promise!Next]_Promise!vars
  <2>1. Phase' = Phase  BY <1>1, <1>3, PhaseMap DEF Arrive
  <2> QED BY <1>3, <2>1, PhaseMap DEF Arrive, Promise!Present
<1>4. ASSUME NEW c \in Conns, AllowNewConn(c) PROVE Phase' = Phase /\ req' = req
  BY <1>1, <1>4, PhaseMap
     DEF AllowNewConn, RateClock, RateElapsed, RateZero, RateStart, RateLoad, RateAdd
<1>5. ASSUME NEW c \in Conns, NEW d \in Dims, QPSClock(c, d) \/ QPSLocked(c, d)
      PROVE  Phase' = Phase /\ req' = req
  <2>1. At(c, QPSAt[d]) \/ At(c, LockAt[d])  BY <1>5 DEF QPSClock, QPSLocked
  <2>2. PICK l \in {LockAt[d], AfterQPS[d], "refused"} : Goto(c, l)
    BY <1>5 DEF QPSClock, QPSLocked
  <2>3. l \notin {"held", "full"} /\ pc[c] \notin {"held", "full"}
    BY <2>1 DEF Dims, QPSAt, LockAt, AfterQPS
  <2>4. req' = req  BY <1>5 DEF QPSClock, QPSLocked
  <2> QED BY <1>1, <2>2, <2>3, <2>4, PhaseMap
<1>6. ASSUME NEW c \in Conns, AcquireConns(c) PROVE [Promise!Next]_Promise!vars
  <2>1. Phase[c] = "out" /\ req' = req  BY <1>6, PhaseMap DEF AcquireConns
  <2>2. CASE Goto(c, "held") /\ ~AtLimit(req[c], "user") /\ ~AtLimit(req[c], "ip")
    <3>1. Phase' = [Phase EXCEPT ![c] = "in"]  BY <2>2, PromiseMove, PhaseMap
    <3>2. Promise!HasRoom(req[c])  BY <2>2, PromiseRoom
    <3> QED BY <2>1, <3>1, <3>2 DEF Promise!Admit, Promise!Move
  <2>3. CASE Goto(c, "full") /\ (AtLimit(req[c], "user") \/ AtLimit(req[c], "ip"))
    <3>1. Phase' = [Phase EXCEPT ![c] = "full"]  BY <2>3, PromiseMove, PhaseMap
    <3>2. ~Promise!HasRoom(req[c])  BY <2>3, PromiseRoom
    <3> QED BY <2>1, <3>1, <3>2 DEF Promise!Refuse, Promise!Move
  <2> QED BY <1>6, <2>2, <2>3 DEF AcquireConns
<1>7. ASSUME NEW c \in Conns, Release(c) \/ (GiveUp(c) /\ At(c, "full"))
      PROVE  [Promise!Next]_Promise!vars
  <2>1. Goto(c, "idle") /\ req' = req /\ Phase[c] \in {"in", "full"}
    BY <1>7, PhaseMap DEF Release, GiveUp
  <2>2. PhaseOf("idle") = "out"  BY PhaseMap
  <2>3. Phase' = [Phase EXCEPT ![c] = "out"]  BY <2>1, <2>2, PromiseMove
  <2> QED BY <2>1, <2>3 DEF Promise!Leave, Promise!Move
<1>8. ASSUME NEW c \in Conns, GiveUp(c), At(c, "refused")
      PROVE  Phase' = Phase /\ req' = req
  BY <1>1, <1>8, PhaseMap DEF GiveUp
<1>9. ASSUME NEW c \in Conns, GiveUp(c) PROVE At(c, "refused") \/ At(c, "full")
  BY <1>9 DEF GiveUp
<1> QED BY <1>2, <1>3, <1>4, <1>5, <1>6, <1>7, <1>8, <1>9 DEF Next, TryAcquire

(* The manager's counters keep the promise of ConnLimit: a handler is      *)
(* admitted exactly when both its keys have room, and a refusal or an end  *)
(* of session changes nothing but that handler's own phase.                *)
THEOREM ManagerKeepsPromise == Spec => ImplementsPromise
<1>1. Init => Promise!Init
  BY PhaseMap DEF Init, Promise!Init
<1>2. TypeOK /\ CountsExact /\ [Next]_vars => [Promise!Next]_Promise!vars
  BY PromiseStep
<1> QED BY <1>1, <1>2, TypeCorrect, CountsAreExact, PTL DEF Spec, ImplementsPromise, Promise!Spec

----------------------------------------------------------------------------
(* AllowNewConn.  The counter and the handlers past its check exceed the   *)
(* rate by less than the number of handlers: each is past it once at most. *)
Adders == {c \in Conns : At(c, "add")}
CountBounded == secondCount + Cardinality(Adders) <= MaxConnsRate - 1 + Cardinality(Conns)

(* What has been admitted in this second is what the bursts before each    *)
(* reset may hold, and what the counter holds since the last one.          *)
AdmissionsCounted ==
  admitted <= (MaxConnsRate - 1 + Cardinality(Conns)) * resets + secondCount

(* How often a second can still be reset: a handler that read the clock in *)
(* an earlier second may reset it once, and by writing its old reading to  *)
(* secondStart open it for others; while it is open, each of those that    *)
(* have not found it so may reset it once.                                 *)
Now == Second(now)
LateAt(x) == pc[x] \in {"elapsed", "zero", "start"} /\ Second(clk[x]) < Now
Late == {x \in Conns : LateAt(x)}
Pending == {x \in Conns : pc[x] = "zero" \/ (LateAt(x) /\ pc[x] = "elapsed")}
Resetting == {x \in Conns : pc[x] \in {"zero", "start"} /\ ~LateAt(x)}
Opened == Second(secondStart) < Now

(* Twice that number, from the sizes of these sets; N handlers in all.     *)
Ahead(N, late, pending, resetting, isOpen) ==
  2 * pending + 2 * (late * N) - late * late + late
    + (IF isOpen THEN 2 * (N - late - resetting) ELSE 0)
ResetsBounded ==
  2 * resets + Ahead(Cardinality(Conns), Cardinality(Late), Cardinality(Pending),
                     Cardinality(Resetting), Opened)
    <= Cardinality(Conns) * (Cardinality(Conns) + 3)

LEMMA SubsetSizes ==
  ASSUME NEW S, S \subseteq Conns
  PROVE  /\ IsFiniteSet(S) /\ Cardinality(S) \in Nat /\ Cardinality(S) <= Cardinality(Conns)
         /\ Cardinality(Conns) \in Nat
         /\ S = {} => Cardinality(S) = 0
         /\ \A x \in Conns \ S : Cardinality(S \cup {x}) = Cardinality(S) + 1
         /\ \A x \in S : Cardinality(S \ {x}) = Cardinality(S) - 1 /\ Cardinality(S) >= 1
<1>1. IsFiniteSet(Conns) /\ IsFiniteSet(S) /\ Cardinality(S) <= Cardinality(Conns)
  BY LimitAssumption, FS_Subset
<1>2. Cardinality(S) \in Nat /\ Cardinality(Conns) \in Nat  BY <1>1, FS_CardinalityType
<1>3. S = {} => Cardinality(S) = 0  BY FS_EmptySet
<1>4. ASSUME NEW x \in Conns \ S PROVE Cardinality(S \cup {x}) = Cardinality(S) + 1
  BY <1>1, <1>4, FS_AddElement
<1>5. ASSUME NEW x \in S PROVE Cardinality(S \ {x}) = Cardinality(S) - 1 /\ Cardinality(S) >= 1
  <2>1. Cardinality(S \ {x}) = Cardinality(S) - 1  BY <1>1, FS_RemoveElement
  <2>2. Cardinality(S \ {x}) \in Nat  BY <1>1, FS_Subset, FS_CardinalityType
  <2> QED BY <1>2, <2>1, <2>2
<1> QED BY <1>1, <1>2, <1>3, <1>4, <1>5

LEMMA CountInit == Init /\ MaxConnsRate > 0 => CountBounded
<1> SUFFICES ASSUME Init, MaxConnsRate > 0 PROVE CountBounded  OBVIOUS
<1>1. Adders = {} /\ secondCount = 0  BY DEF Init, Adders, At
<1>2. Cardinality(Adders) = 0 /\ Cardinality(Conns) \in Nat  BY <1>1, SubsetSizes
<1> QED BY <1>1, <1>2, LimitAssumption DEF CountBounded

(* The steps of AllowNewConn that touch its counter; all others leave its  *)
(* variables and its history alone but for a turn of the second.           *)
LEMMA RateSteps ==
  ASSUME TypeOK, [Next]_vars
  PROVE  \/ \E c \in Conns : RateZero(c) \/ RateLoad(c) \/ RateAdd(c)
         \/ /\ Adders' = Adders /\ secondCount' = secondCount
            /\ \/ admitted' = admitted /\ resets' = resets
               \/ admitted' = 0 /\ resets' = 0
<1> USE DEF Adders, At, Goto, TypeOK
<1>1. CASE Tick \/ UNCHANGED vars  BY <1>1 DEF Tick, vars, rateVars
<1>2. ASSUME NEW c \in Conns, \/ Arrive(c) \/ AcquireConns(c) \/ Release(c) \/ GiveUp(c)
                              \/ RateClock(c) \/ RateElapsed(c) \/ RateStart(c)
      PROVE  Adders' = Adders /\ UNCHANGED <<secondCount, admitted, resets>>
  BY <1>2 DEF Arrive, AcquireConns, Release, GiveUp, RateClock, RateElapsed, RateStart, rateVars
<1>3. ASSUME NEW c \in Conns, NEW d \in Dims, QPSClock(c, d) \/ QPSLocked(c, d)
      PROVE  Adders' = Adders /\ UNCHANGED <<secondCount, admitted, resets>>
  <2>1. At(c, QPSAt[d]) \/ At(c, LockAt[d])  BY <1>3 DEF QPSClock, QPSLocked
  <2>2. \E l \in {LockAt[d], AfterQPS[d], "refused"} : Goto(c, l)
    BY <1>3 DEF QPSClock, QPSLocked
  <2> QED BY <1>3, <2>1, <2>2 DEF QPSClock, QPSLocked, rateVars, Dims, QPSAt, LockAt, AfterQPS
<1> QED BY <1>1, <1>2, <1>3 DEF Next, AllowNewConn, TryAcquire

LEMMA CountStep ==
  TypeOK /\ CountBounded /\ MaxConnsRate > 0 /\ [Next]_vars => CountBounded'
<1> SUFFICES ASSUME TypeOK, CountBounded, MaxConnsRate > 0, [Next]_vars PROVE CountBounded'
  OBVIOUS
<1> DEFINE Cap == MaxConnsRate - 1 + Cardinality(Conns)
<1>1. /\ secondCount \in Nat /\ MaxConnsRate \in Nat /\ Cardinality(Conns) \in Nat
      /\ secondCount + Cardinality(Adders) <= Cap
  BY LimitAssumption, SubsetSizes DEF TypeOK, CountBounded
<1>2. /\ Cardinality(Adders) \in Nat /\ Cardinality(Adders') \in Nat
      /\ Cardinality(Adders') <= Cardinality(Conns)
  <2>1. Adders \subseteq Conns /\ Adders' \subseteq Conns  BY DEF Adders
  <2> QED BY <2>1, SubsetSizes
<1> SUFFICES secondCount' + Cardinality(Adders') <= Cap  BY DEF CountBounded
<1>3. CASE Adders' = Adders /\ secondCount' \in {0, secondCount}
  BY <1>1, <1>2, <1>3
<1>4. ASSUME NEW c \in Conns, RateZero(c) PROVE Adders' = Adders /\ secondCount' = 0
  BY <1>4 DEF RateZero, Adders, At, Goto, TypeOK
<1>5. ASSUME NEW c \in Conns, RateLoad(c) PROVE secondCount' + Cardinality(Adders') <= Cap
  <2>1. CASE secondCount >= MaxConnsRate
    <3>1. Adders' = Adders  BY <1>5, <2>1 DEF RateLoad, At, Goto, Adders, TypeOK
    <3> QED BY <1>3, <1>5, <3>1 DEF RateLoad, rateVars
  <2>2. CASE secondCount < MaxConnsRate
    BY <1>1, <1>2, <1>5, <2>2 DEF RateLoad, rateVars
  <2> QED BY <1>1, <2>1, <2>2
<1>6. ASSUME NEW c \in Conns, RateAdd(c) PROVE secondCount' + Cardinality(Adders') <= Cap
  <2>1. Adders' = Adders \ {c} /\ c \in Adders
    BY <1>6 DEF RateAdd, At, Goto, Adders, TypeOK
  <2>2. Cardinality(Adders') = Cardinality(Adders) - 1
    BY <2>1, SubsetSizes DEF Adders
  <2> QED BY <1>1, <1>2, <1>6, <2>2 DEF RateAdd
<1> QED BY <1>3, <1>4, <1>5, <1>6, RateSteps

LEMMA AdmissionsStep ==
  TypeOK /\ CountBounded /\ MaxConnsRate > 0 /\ AdmissionsCounted /\ [Next]_vars
    => AdmissionsCounted'
<1> SUFFICES ASSUME TypeOK, CountBounded, MaxConnsRate > 0, AdmissionsCounted, [Next]_vars
             PROVE  AdmissionsCounted'
  OBVIOUS
<1>1. PICK cap \in Nat : cap = MaxConnsRate - 1 + Cardinality(Conns)
  BY LimitAssumption, SubsetSizes
<1>2. /\ secondCount \in Nat /\ admitted \in Nat /\ resets \in Nat /\ secondCount <= cap
      /\ admitted <= cap * resets + secondCount
  <2>1. Cardinality(Adders) \in Nat  BY SubsetSizes DEF Adders
  <2> QED BY <1>1, <2>1 DEF TypeOK, CountBounded, AdmissionsCounted
<1> SUFFICES admitted' <= cap * resets' + secondCount'  BY <1>1 DEF AdmissionsCounted
<1>3. ASSUME NEW c \in Conns, RateZero(c) PROVE admitted' <= cap * resets' + secondCount'
  <2>1. admitted' = admitted /\ resets' = resets + 1 /\ secondCount' = 0
    BY <1>3 DEF RateZero
  <2>2. cap * (resets + 1) = cap * resets + cap  BY <1>2
  <2>3. cap * resets \in Nat  BY <1>2
  <2> HIDE DEF CountBounded
  <2> QED BY <1>2, <2>1, <2>2, <2>3
<1>4. ASSUME NEW c \in Conns, RateLoad(c) PROVE admitted' <= cap * resets' + secondCount'
  BY <1>2, <1>4 DEF RateLoad, rateVars
<1>5. ASSUME NEW c \in Conns, RateAdd(c) PROVE admitted' <= cap * resets' + secondCount'
  <2>1. admitted' = admitted + 1 /\ resets' = resets /\ secondCount' = secondCount + 1
    BY <1>5 DEF RateAdd
  <2>2. cap * resets \in Nat  BY <1>2
  <2> QED BY <1>2, <2>1, <2>2
<1>6. CASE /\ secondCount' = secondCount
           /\ \/ admitted' = admitted /\ resets' = resets
              \/ admitted' = 0 /\ resets' = 0
  BY <1>2, <1>6
<1> QED BY <1>3, <1>4, <1>5, <1>6, RateSteps

(* Of the clock: the second never falls, and two readings at least a       *)
(* second apart lie in different ones.                                     *)
LEMMA SecondOrder ==
  \A t, u \in Nat : /\ Second(t) \in Nat /\ (t <= u => Second(t) <= Second(u))
                    /\ (u - t >= Hz => Second(t) < Second(u))
<1> USE LimitAssumption DEF Second
<1>1. ASSUME NEW t \in Nat, NEW u \in Nat, NEW h \in Nat \ {0}
      PROVE  /\ t \div h \in Nat /\ (t <= u => (t \div h) <= (u \div h))
             /\ (u - t >= h => (t \div h) < (u \div h))
  BY Z3
<1> QED BY <1>1

LEMMA TwoParts ==
  ASSUME NEW S, NEW T, S \subseteq Conns, T \subseteq Conns, S \cap T = {}
  PROVE  Cardinality(S) + Cardinality(T) <= Cardinality(Conns)
<1>1. IsFiniteSet(S) /\ IsFiniteSet(T)  BY SubsetSizes
<1>2. Cardinality(S \cup T) = Cardinality(S) + Cardinality(T)
  <2>1. Cardinality(S \cap T) = 0  BY FS_EmptySet
  <2>2. Cardinality(S) \in Nat /\ Cardinality(T) \in Nat  BY SubsetSizes
  <2>3. Cardinality(S \cup T) = Cardinality(S) + Cardinality(T) - Cardinality(S \cap T)
    BY <1>1, FS_Union
  <2> QED BY <2>1, <2>2, <2>3
<1>3. S \cup T \subseteq Conns  OBVIOUS
<1> QED BY <1>2, <1>3, SubsetSizes

(* What a step does to those sets.                                         *)
Unmoved == Late' = Late /\ Pending' = Pending /\ Resetting' = Resetting /\ Opened' = Opened
Turned == resets' = 0 /\ Pending' \subseteq Late' /\ Resetting' = {}
LateGivesUp(x) ==
  /\ x \in Late \cap Pending /\ Late' = Late \ {x} /\ Pending' = Pending \ {x}
  /\ Resetting' = Resetting /\ Opened' = Opened /\ resets' = resets
FindsItOpen(x) ==
  /\ Opened /\ Opened' /\ x \in Conns \ (Late \cup Pending \cup Resetting) /\ Late' = Late
  /\ Pending' = Pending \cup {x} /\ Resetting' = Resetting \cup {x} /\ resets' = resets
Resets(x) ==
  /\ x \in Pending /\ Pending' = Pending \ {x} /\ resets' = resets + 1
  /\ Late' = Late /\ Resetting' = Resetting /\ Opened' = Opened
Reopens(x) ==
  /\ x \in Late /\ Late' = Late \ {x} /\ Pending' = Pending /\ Resetting' = Resetting
  /\ resets' = resets
Closes(x) ==
  /\ x \in Resetting /\ Resetting' = Resetting \ {x} /\ Late' = Late /\ Pending' = Pending
  /\ resets' = resets /\ ~Opened'

LEMMA ResetKinds ==
  ASSUME TypeOK, [Next]_vars
  PROVE  \/ Unmoved /\ resets' = resets
         \/ Turned
         \/ \E x \in Conns : \/ LateGivesUp(x) \/ FindsItOpen(x) \/ Resets(x)
                             \/ Reopens(x) \/ Closes(x)
<1> USE DEF Late, Pending, Resetting, Opened, LateAt, Now
<1>1. CASE UNCHANGED vars
  BY <1>1 DEF vars, rateVars, Unmoved
<1>2. CASE Tick
  <2>1. now' = now + 1 /\ UNCHANGED <<pc, clk, secondStart>> /\ now \in Nat
    BY <1>2, LimitAssumption DEF Tick, TypeOK
  <2>2. CASE Second(now + 1) = Second(now)
    BY <1>2, <2>1, <2>2 DEF Tick, Unmoved
  <2>3. CASE Second(now + 1) # Second(now)
    <3>1. \A x \in Conns : Second(clk[x]) < Second(now + 1)
      <4>1. ASSUME NEW x \in Conns PROVE Second(clk[x]) < Second(now + 1)
        <5>1. clk[x] \in Nat /\ clk[x] <= now  BY <2>1 DEF TypeOK
        <5>2. /\ Second(clk[x]) \in Nat /\ Second(now) \in Nat /\ Second(now + 1) \in Nat
              /\ Second(clk[x]) <= Second(now) /\ Second(now) <= Second(now + 1)
          BY <2>1, <5>1, SecondOrder
        <5> QED BY <2>3, <5>2
      <4> QED BY <4>1
    <3>2. resets' = 0  BY <1>2, <2>3 DEF Tick
    <3> QED BY <2>1, <3>1, <3>2 DEF Turned
  <2> QED BY <2>2, <2>3
<1>3. ASSUME NEW c \in Conns, NEW l,
             pc \in [Conns -> PCs], pc' = [pc EXCEPT ![c] = l],
             pc[c] \notin {"elapsed", "zero", "start"}, l \notin {"zero", "start"},
             l = "elapsed" => clk'[c] = now,
             \A x \in Conns : x # c => clk'[x] = clk[x],
             now' = now, secondStart' = secondStart
      PROVE  Unmoved
  <2>1. now \in Nat /\ Second(now) \in Nat  BY LimitAssumption, SecondOrder DEF TypeOK
  <2>2. \A x \in Conns : x # c => pc'[x] = pc[x] /\ clk'[x] = clk[x]  BY <1>3
  <2>3. pc'[c] = l  BY <1>3
  <2>4. ~LateAt(c) /\ ~LateAt(c)'  BY <1>3, <2>1, <2>3
  <2>5. \A x \in Conns : LateAt(x)' <=> LateAt(x)  BY <1>3, <2>2, <2>4
  <2>6. Opened' = Opened  BY <1>3
  <2>7. \A x \in Conns : /\ pc'[x] = "zero" <=> pc[x] = "zero"
                         /\ pc'[x] = "start" <=> pc[x] = "start"
    BY <1>3, <2>2, <2>3
  <2>8. \A x \in Conns : /\ LateAt(x) => pc'[x] = pc[x]
    BY <2>2, <2>4
  <2> HIDE DEF LateAt
  <2>9. Late' = Late /\ Resetting' = Resetting  BY <2>5, <2>7
  <2>10. Pending' = Pending  BY <2>5, <2>7, <2>8
  <2> QED BY <2>6, <2>9, <2>10 DEF Unmoved
<1>4. ASSUME NEW c \in Conns, Arrive(c) \/ RateLoad(c) \/ RateAdd(c) \/ AcquireConns(c)
                              \/ Release(c) \/ GiveUp(c)
      PROVE  Unmoved /\ resets' = resets
  <2>1. PICK l \in {"rate", "refused", "add", "userQPS", "full", "held", "idle"} : Goto(c, l)
    BY <1>4 DEF Arrive, RateLoad, RateAdd, AcquireConns, Release, GiveUp
  <2>2. pc[c] \in {"idle", "load", "add", "conns", "held", "refused", "full"}
    BY <1>4 DEF Arrive, RateLoad, RateAdd, AcquireConns, Release, GiveUp, At
  <2>3. UNCHANGED <<now, clk, secondStart, resets>>
    BY <1>4 DEF Arrive, RateLoad, RateAdd, AcquireConns, Release, GiveUp, rateVars
  <2>4. pc \in [Conns -> PCs] /\ pc' = [pc EXCEPT ![c] = l]  BY <2>1 DEF TypeOK, Goto
  <2> QED BY <1>3, <2>2, <2>3, <2>4
<1>5. ASSUME NEW c \in Conns, RateClock(c)
      PROVE  Unmoved /\ resets' = resets
  <2>1. PICK l \in {"userQPS", "elapsed"} : Goto(c, l) /\ (l = "elapsed" => ReadClock(c))
    BY <1>5 DEF RateClock
  <2>2. /\ pc[c] = "rate" /\ UNCHANGED <<now, secondStart, resets>>
        /\ ReadClock(c) \/ clk' = clk
    BY <1>5 DEF RateClock, At, rateVars
  <2>3. /\ \A x \in Conns : x # c => clk'[x] = clk[x]
        /\ l = "elapsed" => clk'[c] = now
    BY <2>1, <2>2 DEF ReadClock, TypeOK
  <2>4. pc \in [Conns -> PCs] /\ pc' = [pc EXCEPT ![c] = l]  BY <2>1 DEF TypeOK, Goto
  <2> QED BY <1>3, <2>2, <2>3, <2>4
<1>6. ASSUME NEW c \in Conns, NEW d \in Dims, QPSClock(c, d) \/ QPSLocked(c, d)
      PROVE  Unmoved /\ resets' = resets
  <2>1. At(c, QPSAt[d]) \/ At(c, LockAt[d])  BY <1>6 DEF QPSClock, QPSLocked
  <2>2. PICK l \in {LockAt[d], AfterQPS[d], "refused"} : Goto(c, l)
    BY <1>6 DEF QPSClock, QPSLocked
  <2>3. /\ UNCHANGED <<now, secondStart, resets>>
        /\ ReadClock(c) \/ DropClock(c) \/ clk' = clk
    BY <1>6 DEF QPSClock, QPSLocked, rateVars
  <2>4. \A x \in Conns : x # c => clk'[x] = clk[x]
    BY <2>3 DEF ReadClock, DropClock, TypeOK
  <2>5. pc \in [Conns -> PCs] /\ pc' = [pc EXCEPT ![c] = l]  BY <2>2 DEF TypeOK, Goto
  <2>6. /\ pc[c] \notin {"elapsed", "zero", "start"}
        /\ l \notin {"elapsed", "zero", "start"}
    BY <2>1, <2>2 DEF At, Dims, QPSAt, LockAt, AfterQPS
  <2> QED BY <1>3, <2>3, <2>4, <2>5, <2>6
<1>7. ASSUME NEW c \in Conns, RateElapsed(c)
      PROVE  \/ Unmoved /\ resets' = resets
             \/ LateGivesUp(c) \/ FindsItOpen(c)
  <2>1. /\ pc \in [Conns -> PCs] /\ clk \in [Conns -> 0 .. now] /\ pc[c] = "elapsed"
        /\ UNCHANGED <<now, secondStart, resets>> /\ now \in Nat /\ secondStart \in Nat
        /\ clk[c] \in Nat /\ clk[c] <= now
    BY <1>7, LimitAssumption DEF RateElapsed, At, TypeOK, rateVars
  <2>2. CASE clk[c] - secondStart >= Hz
    <3>1. pc' = [pc EXCEPT ![c] = "zero"] /\ clk' = clk
      BY <1>7, <2>2 DEF RateElapsed, Goto
    <3>2. /\ Second(secondStart) < Second(clk[c]) /\ Second(clk[c]) <= Second(now)
          /\ Second(secondStart) \in Nat /\ Second(clk[c]) \in Nat /\ Second(now) \in Nat
      BY <2>1, <2>2, SecondOrder
    <3>3. Opened /\ Opened'  BY <2>1, <3>2
    <3>4. CASE LateAt(c)
      BY <2>1, <3>1, <3>4 DEF Unmoved
    <3>5. CASE ~LateAt(c)
      BY <2>1, <3>1, <3>3, <3>5 DEF FindsItOpen
    <3> QED BY <3>4, <3>5
  <2>3. CASE ~(clk[c] - secondStart >= Hz)
    <3>1. pc' = [pc EXCEPT ![c] = "load"] /\ \A x \in Conns : x # c => clk'[x] = clk[x]
      BY <1>7, <2>1, <2>3 DEF RateElapsed, Goto, DropClock
    <3>2. Opened' = Opened  BY <2>1
    <3>3. CASE LateAt(c)
      BY <2>1, <3>1, <3>2, <3>3 DEF LateGivesUp
    <3>4. CASE ~LateAt(c)
      BY <2>1, <3>1, <3>2, <3>4 DEF Unmoved
    <3> QED BY <3>3, <3>4
  <2> QED BY <2>2, <2>3
<1>8. ASSUME NEW c \in Conns, RateZero(c) PROVE Resets(c)
  BY <1>8 DEF RateZero, At, Goto, TypeOK, Resets
<1>9. ASSUME NEW c \in Conns, RateStart(c) PROVE Reopens(c) \/ Closes(c)
  <2>1. /\ pc \in [Conns -> PCs] /\ pc[c] = "start" /\ pc' = [pc EXCEPT ![c] = "load"]
        /\ UNCHANGED <<now, resets>> /\ secondStart' = clk[c]
        /\ \A x \in Conns : x # c => clk'[x] = clk[x]
    BY <1>9 DEF RateStart, At, Goto, TypeOK, DropClock
  <2>2. CASE LateAt(c)
    BY <2>1, <2>2 DEF Reopens
  <2>3. CASE ~LateAt(c)
    BY <2>1, <2>3 DEF Closes
  <2> QED BY <2>2, <2>3
<1> QED BY <1>1, <1>2, <1>4, <1>5, <1>6, <1>7, <1>8, <1>9 DEF Next, AllowNewConn, TryAcquire

LEMMA ResetsStep == TypeOK /\ ResetsBounded /\ [Next]_vars => ResetsBounded'
<1> SUFFICES ASSUME TypeOK, ResetsBounded, [Next]_vars PROVE ResetsBounded'  OBVIOUS
<1>1. PICK n \in Nat : n = Cardinality(Conns)  BY SubsetSizes
<1>2. PICK l \in Nat, p \in Nat, i \in Nat :
        l = Cardinality(Late) /\ p = Cardinality(Pending) /\ i = Cardinality(Resetting)
  BY SubsetSizes DEF Late, Pending, Resetting
<1>3. PICK l1 \in Nat, p1 \in Nat, i1 \in Nat :
        l1 = Cardinality(Late') /\ p1 = Cardinality(Pending') /\ i1 = Cardinality(Resetting')
  <2>1. Late' \subseteq Conns /\ Pending' \subseteq Conns /\ Resetting' \subseteq Conns
    BY DEF Late, Pending, Resetting
  <2> QED BY <2>1, SubsetSizes
<1>4. Opened \in BOOLEAN /\ Opened' \in BOOLEAN  BY DEF Opened
<1>5. l + i <= n /\ l <= n /\ l1 <= n
  <2>1. Late \cap Resetting = {} /\ Late' \subseteq Conns  BY DEF Late, Resetting
  <2> QED BY <1>1, <1>2, <1>3, <2>1, TwoParts, SubsetSizes DEF Late, Resetting
<1>6. resets \in Nat /\ 2 * resets + Ahead(n, l, p, i, Opened) <= n * (n + 3)
  BY <1>1, <1>2 DEF TypeOK, ResetsBounded
<1> SUFFICES 2 * resets' + Ahead(n, l1, p1, i1, Opened') <= n * (n + 3)
  BY <1>1, <1>3 DEF ResetsBounded
<1>7. ASSUME NEW S, S \subseteq Conns, NEW x \in Conns
      PROVE  /\ x \notin S => Cardinality(S \cup {x}) = Cardinality(S) + 1
             /\ x \in S => Cardinality(S \ {x}) = Cardinality(S) - 1 /\ Cardinality(S) >= 1
  BY <1>7, SubsetSizes
<1>8. Late \subseteq Conns /\ Pending \subseteq Conns /\ Resetting \subseteq Conns
  BY DEF Late, Pending, Resetting
<1>9. ASSUME l >= 1, l1 = l - 1
      PROVE  /\ l1 * n = l * n - n
             /\ l1 * l1 = l * l - 2 * l + 1
  BY <1>9
<1>10. CASE Unmoved /\ resets' = resets
  BY <1>2, <1>3, <1>6, <1>10 DEF Unmoved
<1>11. CASE Turned
  <2>1. resets' = 0 /\ i1 = 0 /\ p1 <= l1
    <3>1. Late' \subseteq Conns /\ IsFiniteSet(Late')  BY SubsetSizes DEF Late
    <3> QED BY <1>3, <1>11, <3>1, FS_Subset, FS_EmptySet DEF Turned
  <2>2. Ahead(n, l1, p1, 0, Opened') <= 2 * l1 + 2 * (l1 * n) - l1 * l1 + l1 + 2 * (n - l1)
    BY <1>4, <1>5, <2>1 DEF Ahead
  <2>3. PICK k \in Nat : n = l1 + k
    <3>1. n - l1 \in Nat  BY <1>5
    <3> QED BY <3>1
  <2>4. l1 * n = l1 * l1 + l1 * k /\ n * (n + 3) = l1 * l1 + 2 * (l1 * k) + k * k + 3 * n
    BY <2>3
  <2>5. PICK a \in Nat, b \in Nat, d \in Nat : a = l1 * l1 /\ b = l1 * k /\ d = k * k
    OBVIOUS
  <2>6. Ahead(n, l1, p1, 0, Opened') <= 2 * l1 + 2 * (a + b) - a + l1 + 2 * k
    BY <2>2, <2>3, <2>4, <2>5
  <2>7. n * (n + 3) = a + 2 * b + d + 3 * (l1 + k)
    BY <2>3, <2>4, <2>5
  <2>8. Ahead(n, l1, p1, 0, Opened') \in Int  BY <1>4 DEF Ahead
  <2>9. 2 * l1 + 2 * (a + b) - a + l1 + 2 * k <= a + 2 * b + d + 3 * (l1 + k)
    BY <2>5
  <2> HIDE DEF Ahead
  <2> QED BY <2>1, <2>6, <2>7, <2>8, <2>9
<1>12. ASSUME NEW x \in Conns, LateGivesUp(x)
       PROVE  2 * resets' + Ahead(n, l1, p1, i1, Opened') <= n * (n + 3)
  <2>1. l >= 1 /\ l1 = l - 1 /\ p1 = p - 1 /\ i1 = i /\ resets' = resets /\ Opened' = Opened
    BY <1>2, <1>3, <1>7, <1>8, <1>12 DEF LateGivesUp
  <2>2. l1 * n = l * n - n /\ l1 * l1 = l * l - 2 * l + 1  BY <1>9, <2>1
  <2>3. Ahead(n, l1, p1, i1, Opened) <= Ahead(n, l, p, i, Opened)
    BY <1>5, <2>1, <2>2 DEF Ahead
  <2> QED BY <1>6, <2>1, <2>3 DEF Ahead
<1>13. ASSUME NEW x \in Conns, FindsItOpen(x)
       PROVE  2 * resets' + Ahead(n, l1, p1, i1, Opened') <= n * (n + 3)
  <2>1. l1 = l /\ p1 = p + 1 /\ i1 = i + 1 /\ resets' = resets /\ Opened' /\ Opened
    BY <1>2, <1>3, <1>7, <1>8, <1>13 DEF FindsItOpen
  <2> QED BY <1>6, <2>1 DEF Ahead
<1>14. ASSUME NEW x \in Conns, Resets(x)
       PROVE  2 * resets' + Ahead(n, l1, p1, i1, Opened') <= n * (n + 3)
  <2>1. l1 = l /\ p1 = p - 1 /\ i1 = i /\ resets' = resets + 1 /\ Opened' = Opened
    BY <1>2, <1>3, <1>7, <1>8, <1>14 DEF Resets
  <2> QED BY <1>4, <1>6, <2>1 DEF Ahead
<1>15. ASSUME NEW x \in Conns, Reopens(x)
       PROVE  2 * resets' + Ahead(n, l1, p1, i1, Opened') <= n * (n + 3)
  <2>1. l >= 1 /\ l1 = l - 1 /\ p1 = p /\ i1 = i /\ resets' = resets
    BY <1>2, <1>3, <1>7, <1>8, <1>15 DEF Reopens
  <2>2. l1 * n = l * n - n /\ l1 * l1 = l * l - 2 * l + 1  BY <1>9, <2>1
  <2>3. Ahead(n, l1, p1, i1, Opened') <= Ahead(n, l, p, i, Opened)
    BY <1>4, <1>5, <2>1, <2>2 DEF Ahead
  <2> QED BY <1>6, <2>1, <2>3 DEF Ahead
<1>16. ASSUME NEW x \in Conns, Closes(x)
       PROVE  2 * resets' + Ahead(n, l1, p1, i1, Opened') <= n * (n + 3)
  <2>1. l1 = l /\ p1 = p /\ resets' = resets /\ ~Opened'
    BY <1>2, <1>3, <1>16 DEF Closes
  <2>2. Ahead(n, l1, p1, i1, Opened') <= Ahead(n, l, p, i, Opened)
    BY <1>4, <1>5, <2>1 DEF Ahead
  <2> QED BY <1>6, <2>1, <2>2 DEF Ahead
<1> QED BY <1>10, <1>11, <1>12, <1>13, <1>14, <1>15, <1>16, ResetKinds

LEMMA ResetsInit == Init => ResetsBounded
<1> SUFFICES ASSUME Init PROVE ResetsBounded  OBVIOUS
<1>1. Late = {} /\ Pending = {} /\ Resetting = {} /\ resets = 0
  BY DEF Init, Late, Pending, Resetting, LateAt
<1>2. ~Opened
  <2>1. Second(0) \in Nat  BY SecondOrder
  <2> QED BY <2>1 DEF Init, Opened, Now
<1>3. Cardinality({}) = 0  BY FS_EmptySet
<1>4. PICK n \in Nat : n = Cardinality(Conns)  BY SubsetSizes
<1>5. 0 <= n * (n + 3) /\ 0 * n = 0 /\ 0 * 0 = 0  OBVIOUS
<1>6. Ahead(n, 0, 0, 0, Opened) = 0  BY <1>2, <1>4, <1>5 DEF Ahead
<1> QED BY <1>1, <1>3, <1>4, <1>5, <1>6 DEF ResetsBounded

(* In no second does AllowNewConn admit more than one burst of the limit   *)
(* and the handlers racing past its check for each time its window was     *)
(* reset in that second and one more; and N handlers, however they are     *)
(* scheduled, reset it at most N(N+3)/2 times.                             *)
THEOREM OvershootIsBounded == Spec => []OvershootBounded
<1> DEFINE Rate == MaxConnsRate > 0 => CountBounded /\ AdmissionsCounted
<1>1. Init => Rate /\ ResetsBounded
  <2>1. Init /\ MaxConnsRate > 0 => AdmissionsCounted
    <3>1. Cardinality(Conns) \in Nat  BY SubsetSizes
    <3> QED BY <3>1, LimitAssumption DEF Init, AdmissionsCounted
  <2> QED BY <2>1, CountInit, ResetsInit
<1>2. TypeOK /\ Rate /\ ResetsBounded /\ [Next]_vars => Rate' /\ ResetsBounded'
  <2>1. Rate' <=> (MaxConnsRate > 0 => CountBounded' /\ AdmissionsCounted')  OBVIOUS
  <2> QED BY <2>1, CountStep, AdmissionsStep, ResetsStep
<1>3. TypeOK /\ Rate /\ ResetsBounded => OvershootBounded
  <2> SUFFICES ASSUME TypeOK, Rate, ResetsBounded, MaxConnsRate > 0
               PROVE  /\ admitted <= (MaxConnsRate - 1 + Cardinality(Conns)) * (1 + resets)
                      /\ 2 * resets <= Cardinality(Conns) * (Cardinality(Conns) + 3)
    BY DEF OvershootBounded
  <2>1. PICK n \in Nat, cap \in Nat : n = Cardinality(Conns) /\ cap = MaxConnsRate - 1 + n
    BY LimitAssumption, SubsetSizes
  <2>2. resets \in Nat /\ admitted \in Nat /\ secondCount \in Nat  BY DEF TypeOK
  <2>3. admitted <= cap * (1 + resets)
    <3>1. Cardinality(Adders) \in Nat  BY SubsetSizes DEF Adders
    <3>2. secondCount <= cap /\ admitted <= cap * resets + secondCount
      BY <2>1, <2>2, <3>1 DEF CountBounded, AdmissionsCounted
    <3>3. cap * (1 + resets) = cap * resets + cap /\ cap * resets \in Nat  BY <2>2
    <3> QED BY <2>2, <3>2, <3>3
  <2>4. 2 * resets <= n * (n + 3)
    <3>1. PICK l \in Nat, p \in Nat, i \in Nat :
            l = Cardinality(Late) /\ p = Cardinality(Pending) /\ i = Cardinality(Resetting)
      BY SubsetSizes DEF Late, Pending, Resetting
    <3>2. l + i <= n
      <4>1. Late \cap Resetting = {}  BY DEF Late, Resetting
      <4> QED BY <2>1, <3>1, <4>1, TwoParts DEF Late, Resetting
    <3>3. 2 * resets + Ahead(n, l, p, i, Opened) <= n * (n + 3)
      BY <2>1, <3>1 DEF ResetsBounded
    <3>4. l * l <= l * n /\ l * n \in Nat /\ l * l \in Nat
      <4>1. PICK k \in Nat : n = l + k
        <5>1. n - l \in Nat  BY <3>2
        <5> QED BY <5>1
      <4>2. l * n = l * l + l * k /\ l * k \in Nat /\ l * l \in Nat  BY <4>1
      <4> QED BY <4>2
    <3>5. Ahead(n, l, p, i, Opened) >= 0 /\ Ahead(n, l, p, i, Opened) \in Int
      BY <3>2, <3>4 DEF Ahead
    <3>6. n * (n + 3) \in Nat  OBVIOUS
    <3> QED BY <2>2, <3>3, <3>5, <3>6
  <2> QED BY <2>1, <2>3, <2>4
<1> HIDE DEF Rate
<1> QED BY <1>1, <1>2, <1>3, TypeInit, TypeStep, PTL DEF Spec

----------------------------------------------------------------------------
(* The QPS windows.  m bounds what any answer allows key k.                *)
Allows(k, m) == \A q \in Requests, d \in Dims : q.key[d] = k => q.qps[d] <= m

(* A window never holds more than m and is never of a second to come.      *)
(* While no call straddles a second, a window only moves forward: nothing  *)
(* was granted in a later second than its own, in its own what it counts,  *)
(* at most m in an earlier one.  A call that does may start a window that  *)
(* was already used, or end one that will be: m more in that one second.   *)
WindowCounts(k, m) ==
  /\ window[k].sec <= Second(now) /\ window[k].n <= m
  /\ \A s \in Seconds :
       /\ s = window[k].sec => grants[k][s] <= m * straddles[k] + window[k].n
       /\ s > window[k].sec => grants[k][s] <= m * straddles[k]
       /\ s < window[k].sec => grants[k][s] <= m * straddles[k] + m
WindowsBounded == \A k \in Keys, m \in Nat : Allows(k, m) => WindowCounts(k, m)

LEMMA WindowsInit == Init => WindowsBounded
<1> SUFFICES ASSUME Init, NEW k \in Keys, NEW m \in Nat PROVE WindowCounts(k, m)
  BY DEF WindowsBounded
<1>1. Second(0) \in Nat  BY SecondOrder
<1>2. /\ window[k] = [sec |-> -1, n |-> 0] /\ straddles[k] = 0 /\ now = 0
      /\ \A s \in Seconds : grants[k][s] = 0
  BY DEF Init
<1>3. m * 0 = 0 /\ \A s \in Seconds : s \in Nat  BY DEF Seconds
<1> QED BY <1>1, <1>2, <1>3 DEF WindowCounts

(* The critical section of allowQPS, at the key it is for.                 *)
LEMMA LockedStep ==
  ASSUME TypeOK, NEW c \in Conns, NEW d \in Dims, QPSLocked(c, d), NEW m \in Nat,
         NEW k \in Keys, k = req[c].key[d], Allows(k, m), WindowCounts(k, m)
  PROVE  WindowCounts(k, m)'
<1>1. PICK sec \in Seconds, qps \in Int : sec = Second(clk[c]) /\ qps = req[c].qps[d]
  <2>1. req[c].qps[d] \in Int  BY RequestType DEF TypeOK
  <2>2. clk[c] \in 0 .. now /\ now \in 0 .. MaxTime  BY DEF TypeOK
  <2>3. clk[c] \in 0 .. MaxTime  BY <2>2, LimitAssumption
  <2> QED BY <2>1, <2>3, SecondType
<1>2. qps <= m  BY <1>1 DEF Allows, TypeOK
<1>3. PICK v \in Int, n \in Nat, t \in Nat, S \in Nat :
        v = window[k].sec /\ n = window[k].n /\ t = straddles[k] /\ S = Second(now)
  <2>1. window[k].sec \in Seconds \cup {-1} /\ window[k].n \in Nat /\ straddles[k] \in Nat
    BY DEF TypeOK
  <2>2. Second(now) \in Nat  BY SecondOrder, LimitAssumption DEF TypeOK
  <2> QED BY <2>1, <2>2 DEF Seconds
<1>4. sec <= S /\ sec \in Nat /\ now' = now /\ \A s \in Seconds : s \in Nat
  <2>1. clk[c] \in Nat /\ now \in Nat /\ clk[c] <= now  BY LimitAssumption DEF TypeOK
  <2> QED BY <1>1, <1>3, <2>1, SecondOrder DEF Seconds, QPSLocked
<1>5. PICK g \in [Seconds -> Nat] : g = grants[k]  BY DEF TypeOK
<1>6. PICK w \in [sec : {sec}, n : Nat] :
        w = Current(window[k], sec) /\ w.n = IF v = sec THEN n ELSE 0
  <2>1. window[k] \in [sec : Seconds \cup {-1}, n : Nat]  BY DEF TypeOK
  <2>2. CASE v = sec
    BY <1>3, <2>1, <2>2 DEF Current
  <2>3. CASE v # sec
    <3>1. Current(window[k], sec) = [sec |-> sec, n |-> 0]  BY <1>3, <2>3 DEF Current
    <3>2. [sec |-> sec, n |-> 0] \in [sec : {sec}, n : Nat]  OBVIOUS
    <3> QED BY <2>3, <3>1, <3>2
  <2> QED BY <2>2, <2>3
<1>7. PICK t1 \in Nat : t1 = straddles'[k] /\ t1 = t + (IF sec = S THEN 0 ELSE 1)
  <2>1. straddles' = [straddles EXCEPT ![k] = @ + (IF sec = S THEN 0 ELSE 1)]
    BY <1>1, <1>3 DEF QPSLocked
  <2> QED BY <1>3, <2>1 DEF TypeOK
<1>8. PICK n1 \in Nat, a \in {0, 1} :
        /\ window'[k] = [sec |-> sec, n |-> n1] /\ n1 = w.n + a /\ n1 <= m
        /\ grants'[k] = [g EXCEPT ![sec] = @ + a]
  <2>1. CASE w.n >= qps
    <3>1. window' = [window EXCEPT ![k] = w] /\ grants' = grants
      BY <1>1, <1>6, <2>1 DEF QPSLocked
    <3>2. window'[k] = [sec |-> sec, n |-> w.n]  BY <1>6, <3>1 DEF TypeOK
    <3>3. w.n <= m  BY <1>1, <1>3, <1>6 DEF WindowCounts
    <3>4. grants'[k] = [g EXCEPT ![sec] = @ + 0]  BY <1>5, <3>1
    <3>5. w.n \in Nat /\ w.n = w.n + 0  BY <1>6
    <3> QED BY <3>2, <3>3, <3>4, <3>5
  <2>2. CASE ~(w.n >= qps)
    <3>1. /\ window' = [window EXCEPT ![k] = [sec |-> sec, n |-> w.n + 1]]
          /\ grants' = [grants EXCEPT ![k][sec] = @ + 1]
      BY <1>1, <1>6, <2>2 DEF QPSLocked
    <3>2. window'[k] = [sec |-> sec, n |-> w.n + 1]  BY <3>1 DEF TypeOK
    <3>3. w.n + 1 <= m /\ w.n + 1 \in Nat  BY <1>2, <1>6, <2>2
    <3>4. grants'[k] = [g EXCEPT ![sec] = @ + 1]  BY <1>5, <3>1 DEF TypeOK
    <3> QED BY <3>2, <3>3, <3>4
  <2> QED BY <2>1, <2>2
<1>9. PICK x \in Nat, x1 \in Nat :
        x = m * t /\ x1 = m * t1 /\ x1 = x + (IF sec = S THEN 0 ELSE m)
  <2>1. m * (t + 1) = m * t + m /\ m * t \in Nat  OBVIOUS
  <2>2. CASE sec = S
    <3>1. t1 = t  BY <1>7, <2>2
    <3> QED BY <2>1, <2>2, <3>1
  <2>3. CASE sec # S
    <3>1. t1 = t + 1  BY <1>7, <2>3
    <3> QED BY <2>1, <2>3, <3>1
  <2> QED BY <2>2, <2>3
<1>10. /\ v <= S /\ n <= m
       /\ \A s \in Seconds : /\ s = v => g[s] <= x + n
                             /\ s > v => g[s] <= x
                             /\ s < v => g[s] <= x + m
  BY <1>1, <1>3, <1>5, <1>9 DEF WindowCounts
<1>11. ASSUME NEW s \in Seconds
       PROVE  /\ s = sec => grants'[k][s] <= x1 + n1
              /\ s > sec => grants'[k][s] <= x1
              /\ s < sec => grants'[k][s] <= x1 + m
  <2>1. s \in Nat /\ g[s] \in Nat  BY <1>4
  <2>2. grants'[k][s] = IF s = sec THEN g[s] + a ELSE g[s]  BY <1>8
  <2>3. CASE s = sec
    <3>1. g[s] <= x1 + w.n
      BY <1>4, <1>6, <1>9, <1>10, <2>1, <2>3
    <3> QED BY <1>6, <1>8, <2>1, <2>2, <2>3, <3>1
  <2>4. CASE s # sec
    <3>1. g[s] <= x + m /\ (s > v => g[s] <= x)
      BY <1>10, <2>1
    <3>2. CASE sec = S
      BY <1>9, <1>10, <2>1, <2>2, <2>4, <3>1, <3>2
    <3>3. CASE sec # S
      BY <1>9, <2>1, <2>2, <2>4, <3>1, <3>3
    <3> QED BY <3>2, <3>3
  <2> QED BY <2>3, <2>4
<1>12. /\ window'[k].sec = sec /\ window'[k].n = n1 /\ n1 <= m
       /\ Second(now') = S /\ sec <= S /\ m * straddles'[k] = x1
  BY <1>3, <1>4, <1>7, <1>8, <1>9
<1> QED BY <1>11, <1>12 DEF WindowCounts

LEMMA WindowsStep == TypeOK /\ WindowsBounded /\ [Next]_vars => WindowsBounded'
<1> SUFFICES ASSUME TypeOK, WindowsBounded, [Next]_vars, NEW k \in Keys, NEW m \in Nat, Allows(k, m)
             PROVE  WindowCounts(k, m)'
  BY DEF WindowsBounded, Allows
<1>1. WindowCounts(k, m)  BY DEF WindowsBounded
<1>2. CASE UNCHANGED <<window, grants, straddles>> /\ now' = now
  BY <1>1, <1>2 DEF WindowCounts
<1>3. CASE Tick
  <2>1. UNCHANGED <<window, grants, straddles>> /\ now' = now + 1 /\ now \in Nat
    BY <1>3, LimitAssumption DEF Tick, TypeOK, qpsVars
  <2>2. Second(now) <= Second(now + 1) /\ Second(now) \in Nat /\ Second(now + 1) \in Nat
    BY <2>1, SecondOrder
  <2>3. window[k].sec \in Int  BY DEF TypeOK, Seconds
  <2>4. window[k].sec <= Second(now')  BY <1>1, <2>1, <2>2, <2>3 DEF WindowCounts
  <2> QED BY <1>1, <2>1, <2>4 DEF WindowCounts
<1>4. ASSUME NEW c \in Conns, NEW d \in Dims, QPSLocked(c, d) PROVE WindowCounts(k, m)'
  <2>1. CASE k = req[c].key[d]
    BY <1>1, <1>4, <2>1, LockedStep
  <2>2. CASE k # req[c].key[d]
    <3>1. /\ window'[k] = window[k] /\ grants'[k] = grants[k]
          /\ straddles'[k] = straddles[k] /\ now' = now
      BY <1>4, <2>2 DEF QPSLocked, TypeOK
    <3> QED BY <1>1, <3>1 DEF WindowCounts
  <2> QED BY <2>1, <2>2
<1>5. ASSUME NEW c \in Conns, \/ Arrive(c) \/ AllowNewConn(c) \/ (\E d \in Dims : QPSClock(c, d))
                              \/ AcquireConns(c) \/ Release(c) \/ GiveUp(c)
      PROVE  UNCHANGED <<window, grants, straddles>> /\ now' = now
  BY <1>5 DEF Arrive, AllowNewConn, RateClock, RateElapsed, RateZero, RateStart, RateLoad, RateAdd,
              QPSClock, AcquireConns, Release, GiveUp, qpsVars
<1>6. CASE UNCHANGED vars
  BY <1>2, <1>6 DEF vars, qpsVars
<1> QED BY <1>2, <1>3, <1>4, <1>5, <1>6 DEF Next, TryAcquire

(* However handlers are scheduled between allowQPS's reading of the clock  *)
(* and its lock, a key is granted in one second at most the largest of its *)
(* limits, and as much again for each call for it that got the lock in a   *)
(* later second than it had read.                                          *)
THEOREM QPSIsBounded == Spec => []QPSBounded
<1>1. TypeOK /\ WindowsBounded => QPSBounded
  <2> SUFFICES ASSUME TypeOK, WindowsBounded, NEW k \in Keys, NEW s \in Seconds,
                      NEW m \in QPSLimits(k), \A n \in QPSLimits(k) : n <= m
               PROVE  grants[k][s] <= m * (1 + straddles[k])
    BY DEF QPSBounded
  <2>1. m \in Nat  BY DEF QPSLimits
  <2>2. Allows(k, m)
    <3> SUFFICES ASSUME NEW q \in Requests, NEW d \in Dims, q.key[d] = k PROVE q.qps[d] <= m
      BY DEF Allows
    <3>1. q.qps[d] \in Int  BY RequestType
    <3>2. CASE q.qps[d] \in Nat
      <4>1. <<q, d>> \in {p \in Requests \X Dims : p[1].key[p[2]] = k}  OBVIOUS
      <4>2. q.qps[d] \in QPSLimits(k)  BY <3>2, <4>1 DEF QPSLimits
      <4> QED BY <4>2
    <3> QED BY <2>1, <3>1, <3>2
  <2>3. WindowCounts(k, m)  BY <2>1, <2>2 DEF WindowsBounded
  <2>4. PICK t \in Nat, n \in Nat, g \in Nat, v \in Int :
          t = straddles[k] /\ n = window[k].n /\ g = grants[k][s] /\ v = window[k].sec
    <3>1. /\ straddles[k] \in Nat /\ window[k] \in [sec : Seconds \cup {-1}, n : Nat]
          /\ grants[k] \in [Seconds -> Nat]
      BY DEF TypeOK
    <3>2. window[k].sec \in Seconds \cup {-1} /\ window[k].n \in Nat  BY <3>1
    <3>3. window[k].sec \in Int  BY <3>2 DEF Seconds
    <3> QED BY <3>1, <3>2, <3>3
  <2>5. s \in Nat  BY DEF Seconds
  <2>6. PICK x \in Nat : x = m * t /\ m * (1 + t) = x + m  BY <2>1
  <2>7. n <= m /\ (s = v => g <= x + n) /\ (s > v => g <= x) /\ (s < v => g <= x + m)
    BY <2>3, <2>4, <2>6 DEF WindowCounts
  <2>8. g <= x + m  BY <2>1, <2>4, <2>5, <2>6, <2>7
  <2> QED BY <2>4, <2>6, <2>8
<1> QED BY <1>1, WindowsInit, WindowsStep, TypeInit, TypeStep, PTL DEF Spec
=============================================================================
