----------------------------- MODULE LimitManager -----------------------------
(***************************************************************************)
(* limit.Manager: the admission control a handler goroutine passes after   *)
(* authorization.  AllowNewConn (global rate, no lock), then TryAcquire    *)
(* (QPS of the user, QPS of the IP, concurrent connections, each under     *)
(* m.mu), and Release when the session ends.  A critical section is one    *)
(* step; every access of AllowNewConn to shared memory is a step.          *)
(*                                                                         *)
(* The two dimensions "user" and "ip" have disjoint keys, so the maps      *)
(* userConns and ipConns are one table indexed by key, and so are userQPS  *)
(* and ipQPS.                                                              *)
(***************************************************************************)
EXTENDS Integers, FiniteSets

CONSTANTS Conns,         \* handler goroutines, one per client connection
          Keys,          \* user names and client IPs
          Requests,      \* [key, conns, qps : per dimension]: arguments of TryAcquire
          MaxConnsRate,  \* --max-conns-rate, 0 = unlimited
          Hz,            \* clock ticks per second
          MaxTime        \* bound on the clock

Dims == {"user", "ip"}

ASSUME LimitAssumption ==
  /\ IsFiniteSet(Conns)
  /\ Requests \subseteq [key : [Dims -> Keys], conns : [Dims -> Int], qps : [Dims -> Int]]
  /\ \A q, r \in Requests : q.key["user"] # r.key["ip"]
  /\ MaxConnsRate \in Nat /\ Hz \in Nat \ {0} /\ MaxTime \in Nat

VARIABLES
  now,                       \* the clock, in ticks
  pc, req,                   \* per handler: next step, arguments of TryAcquire
  clk,                       \* its clock reading, 0 once it has no more use for it
  secondStart, secondCount,  \* AllowNewConn's window
  conns,                     \* userConns and ipConns
  window,                    \* userQPS and ipQPS; sec = -1 stands for a nil entry
  admitted, resets,          \* history: AllowNewConn's admissions and its resets of
                             \* the window, both within the current second
  grants,                    \* history: allowQPS successes per key and second
  straddles                  \* history: per key, the allowQPS calls that read the clock
                             \* in one second and got the lock in a later one

rateVars == <<secondStart, secondCount, admitted, resets>>
qpsVars  == <<window, grants, straddles>>
vars == <<now, pc, req, clk, rateVars, qpsVars, conns>>

Second(t) == t \div Hz
Seconds == 0 .. Second(MaxTime)
PCs == {"idle", "rate", "elapsed", "zero", "start", "load", "add", "userQPS",
        "userLock", "ipQPS", "ipLock", "conns", "held", "refused", "full"}

At(c, l) == pc[c] = l
Goto(c, l) == pc' = [pc EXCEPT ![c] = l]
ReadClock(c) == clk' = [clk EXCEPT ![c] = now]
DropClock(c) == clk' = [clk EXCEPT ![c] = 0]

Init ==
  /\ now = 0
  /\ pc = [c \in Conns |-> "idle"]
  /\ \E q \in Requests : req = [c \in Conns |-> q]
  /\ clk = [c \in Conns |-> 0]
  /\ secondStart = 0 /\ secondCount = 0 /\ admitted = 0 /\ resets = 0
  /\ conns = [k \in Keys |-> 0]
  /\ window = [k \in Keys |-> [sec |-> -1, n |-> 0]]
  /\ grants = [k \in Keys |-> [s \in Seconds |-> 0]]
  /\ straddles = [k \in Keys |-> 0]

(* The handler has been authorized and asks to be let in.                  *)
Arrive(c) ==
  /\ At(c, "idle") /\ Goto(c, "rate")
  /\ \E q \in Requests : req' = [req EXCEPT ![c] = q]
  /\ UNCHANGED <<now, clk, rateVars, qpsVars, conns>>

----------------------------------------------------------------------------
(* AllowNewConn: an atomic counter, but its check and its increment are    *)
(* apart, and the window start is read and written without any lock.       *)

RateClock(c) ==
  /\ At(c, "rate")
  /\ IF MaxConnsRate = 0 THEN Goto(c, "userQPS") /\ UNCHANGED clk
                         ELSE Goto(c, "elapsed") /\ ReadClock(c)
  /\ UNCHANGED <<now, req, rateVars, qpsVars, conns>>

RateElapsed(c) ==
  /\ At(c, "elapsed")
  /\ IF clk[c] - secondStart >= Hz THEN Goto(c, "zero") /\ UNCHANGED clk
                                   ELSE Goto(c, "load") /\ DropClock(c)
  /\ UNCHANGED <<now, req, rateVars, qpsVars, conns>>

RateZero(c) ==
  /\ At(c, "zero") /\ Goto(c, "start")
  /\ secondCount' = 0 /\ resets' = resets + 1
  /\ UNCHANGED <<now, req, clk, secondStart, admitted, qpsVars, conns>>

RateStart(c) ==
  /\ At(c, "start") /\ Goto(c, "load")
  /\ secondStart' = clk[c] /\ DropClock(c)
  /\ UNCHANGED <<now, req, secondCount, admitted, resets, qpsVars, conns>>

RateLoadMutant(c) ==  \* ">" for ">="
  /\ At(c, "load")
  /\ Goto(c, IF secondCount > MaxConnsRate THEN "refused" ELSE "add")
  /\ UNCHANGED <<now, req, clk, rateVars, qpsVars, conns>>

RateLoad(c) ==
  /\ At(c, "load")
  /\ Goto(c, IF secondCount >= MaxConnsRate THEN "refused" ELSE "add")
  /\ UNCHANGED <<now, req, clk, rateVars, qpsVars, conns>>

RateAdd(c) ==
  /\ At(c, "add") /\ Goto(c, "userQPS")
  /\ secondCount' = secondCount + 1 /\ admitted' = admitted + 1
  /\ UNCHANGED <<now, req, clk, secondStart, resets, qpsVars, conns>>

----------------------------------------------------------------------------
(* allowQPS(table, key, limit): the second is read before the lock.        *)

QPSAt == [user |-> "userQPS", ip |-> "ipQPS"]
LockAt == [user |-> "userLock", ip |-> "ipLock"]
AfterQPS == [user |-> "ipQPS", ip |-> "conns"]

QPSClock(c, d) ==
  /\ At(c, QPSAt[d])
  /\ IF req[c].qps[d] > 0 THEN Goto(c, LockAt[d]) /\ ReadClock(c)
                          ELSE Goto(c, AfterQPS[d]) /\ UNCHANGED clk
  /\ UNCHANGED <<now, req, rateVars, qpsVars, conns>>

CurrentMutant(w, sec) == [sec |-> sec, n |-> 0]  \* never keeps the count
Current(w, sec) == IF w.sec = sec THEN w ELSE [sec |-> sec, n |-> 0]

QPSLocked(c, d) ==
  LET k == req[c].key[d]
      sec == Second(clk[c])
      w == Current(window[k], sec)
  IN /\ At(c, LockAt[d])
     /\ IF w.n >= req[c].qps[d]
        THEN /\ Goto(c, "refused")
             /\ window' = [window EXCEPT ![k] = w]
             /\ UNCHANGED grants
        ELSE /\ Goto(c, AfterQPS[d])
             /\ window' = [window EXCEPT ![k] = [sec |-> sec, n |-> w.n + 1]]
             /\ grants' = [grants EXCEPT ![k][sec] = @ + 1]
     /\ DropClock(c)
     /\ straddles' = [straddles EXCEPT ![k] = @ + (IF sec = Second(now) THEN 0 ELSE 1)]
     /\ UNCHANGED <<now, req, rateVars, conns>>

----------------------------------------------------------------------------
(* The concurrent-connection counters.                                     *)

AtLimitMutant(q, d) == q.conns[d] > 0 /\ conns[q.key[d]] > q.conns[d]
AtLimit(q, d) == q.conns[d] > 0 /\ conns[q.key[d]] >= q.conns[d]
Charge(table, q, d) ==
  IF q.conns[d] > 0 THEN [table EXCEPT ![q.key[d]] = @ + 1] ELSE table
RollbackMutant(table, q) == table                                     \* forgotten
RollbackTypeMutant(table, q) == [table EXCEPT ![q.key["user"]] = @ - 1]  \* unguarded
Rollback(table, q) ==
  IF q.conns["user"] > 0 THEN [table EXCEPT ![q.key["user"]] = @ - 1] ELSE table

(* The user is charged first and gets its slot back if the IP is full.     *)
AcquireConns(c) ==
  LET q == req[c]
      charged == Charge(conns, q, "user")
  IN /\ At(c, "conns")
     /\ \/ /\ AtLimit(q, "user")
           /\ Goto(c, "full") /\ UNCHANGED conns
        \/ /\ ~AtLimit(q, "user") /\ AtLimit(q, "ip")
           /\ Goto(c, "full") /\ conns' = Rollback(charged, q)
        \/ /\ ~AtLimit(q, "user") /\ ~AtLimit(q, "ip")
           /\ Goto(c, "held") /\ conns' = Charge(charged, q, "ip")
     /\ UNCHANGED <<now, req, clk, rateVars, qpsVars>>

RefundMutant(table, q, d) ==  \* the last slot is never freed
  IF q.conns[d] > 0 /\ table[q.key[d]] > 1
  THEN [table EXCEPT ![q.key[d]] = @ - 1] ELSE table
Refund(table, q, d) ==
  IF q.conns[d] > 0 /\ table[q.key[d]] > 0
  THEN [table EXCEPT ![q.key[d]] = @ - 1] ELSE table

(* Deferred by the handler, with the arguments TryAcquire had.             *)
Release(c) ==
  /\ At(c, "held") /\ Goto(c, "idle")
  /\ conns' = Refund(Refund(conns, req[c], "user"), req[c], "ip")
  /\ UNCHANGED <<now, req, clk, rateVars, qpsVars>>

(* A refused handler answers its client and returns.                       *)
GiveUp(c) ==
  /\ pc[c] \in {"refused", "full"} /\ Goto(c, "idle")
  /\ UNCHANGED <<now, req, clk, rateVars, qpsVars, conns>>

(* Time passes at any point; a new second starts the history of its own.   *)
Tick ==
  /\ now < MaxTime /\ now' = now + 1
  /\ IF Second(now + 1) = Second(now) THEN UNCHANGED <<admitted, resets>>
                                      ELSE admitted' = 0 /\ resets' = 0
  /\ UNCHANGED <<pc, req, clk, secondStart, secondCount, qpsVars, conns>>

AllowNewConn(c) == \/ RateClock(c) \/ RateElapsed(c) \/ RateZero(c)
                   \/ RateStart(c) \/ RateLoad(c) \/ RateAdd(c)
TryAcquire(c) == \/ \E d \in Dims : QPSClock(c, d) \/ QPSLocked(c, d)
                 \/ AcquireConns(c)

Next == \/ \E c \in Conns : \/ Arrive(c) \/ AllowNewConn(c) \/ TryAcquire(c)
                            \/ Release(c) \/ GiveUp(c)
        \/ Tick

Spec == Init /\ [][Next]_vars

----------------------------------------------------------------------------
TypeOK ==
  /\ now \in 0 .. MaxTime
  /\ pc \in [Conns -> PCs] /\ req \in [Conns -> Requests] /\ clk \in [Conns -> 0 .. now]
  /\ secondStart \in 0 .. now /\ secondCount \in Nat /\ admitted \in Nat /\ resets \in Nat
  /\ conns \in [Keys -> Nat]
  /\ window \in [Keys -> [sec : Seconds \cup {-1}, n : Nat]]
  /\ grants \in [Keys -> [Seconds -> Nat]] /\ straddles \in [Keys -> Nat]

(* The sessions that occupy a slot of key k.                               *)
ChargedFor(q, k) == \E d \in Dims : q.key[d] = k /\ q.conns[d] > 0
Holders(k) == {c \in Conns : pc[c] = "held" /\ ChargedFor(req[c], k)}

(* The counters of TryAcquire and Release are exact: whatever the order    *)
(* of acquisitions, roll-backs and releases, and although two sessions of  *)
(* a user may carry different limits, a key's counter is the number of     *)
(* sessions that occupy it, so no slot leaks and none is freed twice.      *)
CountsExact == \A k \in Keys : conns[k] = Cardinality(Holders(k))

(* The limits hold although the authorization service may change them      *)
(* between sessions: of the sessions open for a key, those admitted under  *)
(* a limit of at most m never number more than m, for any m in use.        *)
HoldersUpTo(k, d, m) ==
  {c \in Conns : pc[c] = "held" /\ req[c].key[d] = k /\ req[c].conns[d] \in 1 .. m}
LimitsRespected ==
  \A q \in Requests, d \in Dims : q.conns[d] > 0 =>
     Cardinality(HoldersUpTo(q.key[d], d, q.conns[d])) <= q.conns[d]

(* README calls --max-conns-rate the new connections per second.  As the   *)
(* check and the increment of AllowNewConn are apart, and every handler    *)
(* that found the window too old zeroes the counter whatever the others    *)
(* did meanwhile, one second may see more: each reset lets in a new burst  *)
(* of at most the limit and the handlers that raced past the check.  A     *)
(* late reset also moves the window back, which makes room for further     *)
(* ones; with N handlers there are never more than N(N+3)/2 in a second.   *)
OvershootBounded ==
  LET N == Cardinality(Conns) IN
  MaxConnsRate > 0 =>
    /\ admitted <= (MaxConnsRate - 1 + N) * (1 + resets)
    /\ 2 * resets <= N * (N + 3)

(* README, "userqps / ipqps: Max new connections per second": no key is    *)
(* granted more in one second than some answer allows it.                  *)
QPSHonoured ==
  \A k \in Keys, s \in Seconds : grants[k][s] > 0 =>
    \E q \in Requests, d \in Dims : q.key[d] = k /\ grants[k][s] <= q.qps[d]

(* What holds of that in the code, which reads the second before it locks: *)
(* a key is granted at most the largest of its limits in a second, and as  *)
(* much again for each call for that key that got the lock in a later      *)
(* second than it read: one for which no call did, no more than the limit. *)
QPSLimits(k) == {p[1].qps[p[2]] : p \in {p \in Requests \X Dims : p[1].key[p[2]] = k}} \cap Nat
QPSBounded ==
  \A k \in Keys, s \in Seconds : \A m \in QPSLimits(k) :
    (\A n \in QPSLimits(k) : n <= m) => grants[k][s] <= m * (1 + straddles[k])

(* The counters implement the abstract promise: admissions and refusals    *)
(* by connection count are exactly those of ConnLimit.                     *)
Phase == [c \in Conns |-> CASE pc[c] = "held" -> "in"
                            [] pc[c] = "full" -> "full"
                            [] OTHER -> "out"]
Promise == INSTANCE ConnLimit WITH Claims <- Requests, phase <- Phase, claim <- req
ImplementsPromise == Promise!Spec
=============================================================================
