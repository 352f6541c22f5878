------------------------------ MODULE RelayProofs ------------------------------
(***************************************************************************)
(* Theorems about Relay: the state is well typed, streams stay intact when *)
(* no early unit is lost, and the counts relay returns are final.  And     *)
(* about Throttle, the token bucket in front of either direction.          *)
(***************************************************************************)
EXTENDS Relay, Throttle, TLAPS

(* Nothing is read before it was sent, and what a loop has in hand it has  *)
(* read.  Of the client, at least what it sent early is there.             *)
Typed ==
  /\ TypeOK
  /\ took \in [Peers -> Nat] /\ got \in [Peers -> Seq(1 .. MaxSent)]
  /\ sent["client"] >= Early
  /\ \A p \in Peers : pc[p] = "write" => hand[p] > 0

(* How far each loop is says who closed, signalled and stored what.        *)
Ending ==
  /\ pc["remote"] \in {"read", "write", "store", "close", "signal", "over"}
  /\ pc["client"] \in {"read", "write", "close", "wait", "over"}
  /\ pc["remote"] \in {"signal", "over"} \/ pc["client"] \in {"wait", "over"} => closed
  /\ done => pc["remote"] = "over"
  /\ pc["remote"] \in {"close", "signal", "over"} => upBytes = n["remote"]
  /\ Returned => done /\ result = <<upBytes, n["client"]>>

(* A loop counts exactly what the other socket accepted.                   *)
Counted == \A p \in Peers : n[p] = Len(got[Other(p)])

(* What a loop read, less what it has in hand, is what it wrote.           *)
Flow == \A p \in Peers : pc[p] \in {"read", "write"} =>
          Len(got[Other(p)]) = took[p] - hand[p] /\ (pc[p] = "read" => hand[p] = 0)

LEMMA OtherPeer == \A p \in Peers : Other(p) \in Peers /\ Other(p) # p /\ Other(Other(p)) = p
BY DEF Peers, Other

----------------------------------------------------------------------------
LEMMA InitTyped == Init => Typed
<1> SUFFICES ASSUME Init PROVE Typed
  OBVIOUS
<1> USE RelayAssumption DEF RelayAssumption, Init
<1>1. \A p \in Peers : /\ sent[p] \in 0 .. MaxSent /\ hand[p] = 0
                        /\ took[p] \in hand[p] .. sent[p]
  BY DEF Peers, Lost
<1>2. got \in [Peers -> Seq(1 .. MaxSent)] /\ took \in [Peers -> Nat]
  BY DEF Lost, Peers
<1>3. sent["client"] >= Early
  BY DEF Peers
<1>4. /\ sent \in [Peers -> 0 .. MaxSent] /\ hand \in [Peers -> 0 .. MaxRead]
      /\ n \in [Peers -> Nat]
  BY <1>1
<1>5. /\ ended \in [Peers -> {"open", "eof", "reset"}] /\ stalled \in [Peers -> BOOLEAN]
      /\ pc \in [Peers -> {"read", "write", "store", "close", "signal", "wait", "over"}]
      /\ closed \in BOOLEAN /\ upBytes \in Nat /\ done \in BOOLEAN
  OBVIOUS
<1>6. \A p \in Peers : pc[p] = "write" => hand[p] > 0
  OBVIOUS
<1> HIDE DEF Init
<1> QED
  BY <1>1, <1>2, <1>3, <1>4, <1>5, <1>6 DEF Typed, TypeOK

LEMMA StepTyped == Typed /\ [Next]_vars => Typed'
<1> SUFFICES ASSUME Typed, [Next]_vars PROVE Typed'
  OBVIOUS
<1> USE RelayAssumption DEF RelayAssumption, Typed, TypeOK, peers, loops
<1>1. ASSUME NEW p \in Peers, Send(p) PROVE Typed'
  BY <1>1 DEF Send
<1>2. ASSUME NEW p \in Peers, End(p) PROVE Typed'
  BY <1>2 DEF End
<1>3. ASSUME NEW p \in Peers, Stall(p) PROVE Typed'
  BY <1>3 DEF Stall
<1>4. ASSUME NEW p \in Peers, Read(p) PROVE Typed'
  <2>1. PICK k \in 1 .. MaxRead : /\ k <= Available(p)
                                  /\ took' = [took EXCEPT ![p] = @ + k]
                                  /\ hand' = [hand EXCEPT ![p] = k]
    BY <1>4 DEF Read
  <2>2. Available(p) \in Int /\ Available(p) <= sent[p] - took[p]
    <3>1. took[p] <= sent[p] /\ sent[p] \in Nat /\ took[p] \in Nat
      OBVIOUS
    <3> QED
      BY <3>1 DEF Available
  <2>3. \A q \in Peers : took'[q] \in hand'[q] .. sent'[q] /\ hand'[q] \in 0 .. MaxRead
    <3>1. UNCHANGED sent
      BY <1>4 DEF Read
    <3>2. took[p] \in 0 .. MaxSent /\ sent[p] \in 0 .. MaxSent
      OBVIOUS
    <3>3. took[p] + k \in k .. sent[p] /\ k \in 0 .. MaxRead
      BY <2>1, <2>2, <3>2
    <3> QED
      BY <2>1, <3>1, <3>3
  <2>4. pc' = [pc EXCEPT ![p] = "write"] /\ UNCHANGED <<sent, ended, stalled, got, n, closed, upBytes, done>>
    BY <1>4 DEF Read, Goto
  <2>5. \A q \in Peers : pc'[q] = "write" => hand'[q] > 0
    BY <2>1, <2>4
  <2> QED
    BY <2>1, <2>3, <2>4, <2>5
<1>5. ASSUME NEW p \in Peers, ReadFails(p) PROVE Typed'
  BY <1>5 DEF ReadFails, Exit, Goto
<1>6. ASSUME NEW p \in Peers, WriteUnit(p) PROVE Typed'
  <2> DEFINE u == took[p] - hand[p] + 1
  <2>1. hand[p] \in 1 .. MaxRead /\ took[p] \in hand[p] .. sent[p] /\ sent[p] \in 0 .. MaxSent
    BY <1>6 DEF WriteUnit
  <2>2. u \in 1 .. MaxSent
    BY <2>1
  <2>3. /\ got' = [got EXCEPT ![Other(p)] = Append(@, u)] /\ UNCHANGED <<sent, ended, stalled>>
        /\ hand' = [hand EXCEPT ![p] = @ - 1] /\ n' = [n EXCEPT ![p] = @ + 1]
        /\ pc' = [pc EXCEPT ![p] = IF hand[p] = 1 THEN "read" ELSE "write"]
        /\ UNCHANGED <<took, closed, upBytes, done, result>>
    BY <1>6 DEF WriteUnit, Goto
  <2>4. got' \in [Peers -> Seq(1 .. MaxSent)]
    <3> HIDE DEF u
    <3>1. Append(got[Other(p)], u) \in Seq(1 .. MaxSent)
      BY <2>2, OtherPeer
    <3> QED
      BY <2>3, <3>1, OtherPeer
  <2>5. /\ hand' \in [Peers -> 0 .. MaxRead] /\ \A q \in Peers : took'[q] \in hand'[q] .. sent'[q]
        /\ \A q \in Peers : pc'[q] = "write" => hand'[q] > 0
    BY <2>1, <2>3
  <2>6. pc' \in [Peers -> {"read", "write", "store", "close", "signal", "wait", "over"}]
    BY <2>3
  <2>7. n' \in [Peers -> Nat] /\ took' \in [Peers -> Nat]
    BY <2>3
  <2> QED
    BY <2>3, <2>4, <2>5, <2>6, <2>7
<1>7. ASSUME NEW p \in Peers, WriteFails(p) PROVE Typed'
  BY <1>7 DEF WriteFails, Exit, Goto
<1>8. ASSUME NEW p \in Peers, CloseBoth(p) PROVE Typed'
  BY <1>8 DEF CloseBoth, Goto
<1>9. CASE StoreCount
  BY <1>9 DEF StoreCount, Goto, Peers
<1>10. CASE Signal
  BY <1>10 DEF Signal, Goto, Peers
<1>11. CASE Return
  BY <1>11 DEF Return, Goto, Peers
<1>12. CASE Idle \/ UNCHANGED vars
  BY <1>12 DEF Idle, vars
<1> QED
  BY <1>1, <1>2, <1>3, <1>4, <1>5, <1>6, <1>7, <1>8, <1>9, <1>10, <1>11, <1>12
  DEF Next, Loop

(* Type correctness of relay's loops and of its peers.                     *)
THEOREM RelayType == Spec => []TypeOK
<1>1. Typed => TypeOK
  BY DEF Typed
<1> QED
  BY <1>1, InitTyped, StepTyped, PTL DEF Spec

----------------------------------------------------------------------------
LEMMA InitEnding == Init => Ending /\ Counted
BY DEF Init, Ending, Counted, Peers, Other, Returned

(* A step of the loops proper: the bookkeeping of the end is untouched.    *)
LEMMA StepEnding == Typed /\ Ending /\ [Next]_vars => Ending'
<1> SUFFICES ASSUME Typed, Ending, [Next]_vars PROVE Ending'
  OBVIOUS
<1> USE DEF Ending, Returned, loops, peers
<1>0. pc \in [Peers -> {"read", "write", "store", "close", "signal", "wait", "over"}]
      /\ n \in [Peers -> Nat] /\ "remote" \in Peers /\ "client" \in Peers
  BY DEF Typed, TypeOK, Peers
<1>1. ASSUME NEW p \in Peers, Send(p) \/ End(p) \/ Stall(p) PROVE Ending'
  BY <1>1 DEF Send, End, Stall
<1>2. ASSUME NEW p \in Peers, Read(p) PROVE Ending'
  BY <1>0, <1>2 DEF Read, Goto, Peers
<1>3. ASSUME NEW p \in Peers, ReadFails(p) PROVE Ending'
  BY <1>0, <1>3 DEF ReadFails, Exit, Goto, Peers
<1>4. ASSUME NEW p \in Peers, WriteUnit(p) PROVE Ending'
  BY <1>0, <1>4 DEF WriteUnit, Goto, Peers
<1>5. ASSUME NEW p \in Peers, WriteFails(p) PROVE Ending'
  BY <1>0, <1>5 DEF WriteFails, Exit, Goto, Peers
<1>6. ASSUME NEW p \in Peers, CloseBoth(p) PROVE Ending'
  BY <1>0, <1>6 DEF CloseBoth, Goto, Peers
<1>7. CASE StoreCount
  BY <1>0, <1>7 DEF StoreCount, Goto
<1>8. CASE Signal
  BY <1>0, <1>8 DEF Signal, Goto
<1>9. CASE Return
  BY <1>0, <1>9 DEF Return, Goto
<1>10. CASE Idle \/ UNCHANGED vars
  BY <1>10 DEF Idle, vars
<1> QED
  BY <1>1, <1>2, <1>3, <1>4, <1>5, <1>6, <1>7, <1>8, <1>9, <1>10 DEF Next, Loop

LEMMA StepCounted == Typed /\ Counted /\ [Next]_vars => Counted'
<1> SUFFICES ASSUME Typed, Counted, [Next]_vars PROVE Counted'
  OBVIOUS
<1> USE DEF Counted, loops, peers
<1>1. ASSUME NEW p \in Peers, WriteUnit(p) PROVE Counted'
  <2> DEFINE u == took[p] - hand[p] + 1
  <2>1. got' = [got EXCEPT ![Other(p)] = Append(@, u)] /\ n' = [n EXCEPT ![p] = @ + 1]
    BY <1>1 DEF WriteUnit
  <2>2. n \in [Peers -> Nat] /\ got \in [Peers -> Seq(1 .. MaxSent)]
        /\ took \in [Peers -> Nat] /\ hand \in [Peers -> 0 .. MaxRead] /\ MaxRead \in Nat
    BY RelayAssumption DEF RelayAssumption, Typed, TypeOK
  <2>3. u \in Int
    BY <2>2
  <2> HIDE DEF u
  <2>4. Len(Append(got[Other(p)], u)) = Len(got[Other(p)]) + 1
    BY <2>2, <2>3, OtherPeer
  <2>5. \A q \in Peers : q # p => Other(q) # Other(p)
    BY OtherPeer
  <2> QED
    BY <2>1, <2>2, <2>4, <2>5, OtherPeer
<1>2. ASSUME UNCHANGED <<n, got>> PROVE Counted'
  BY <1>2
<1> QED
  BY <1>1, <1>2 DEF Next, Loop, Idle, vars, Send, End, Stall, Read, ReadFails, WriteFails,
                    CloseBoth, StoreCount, Signal, Return

(* The counts relay returns are those of the bytes its sockets accepted.   *)
THEOREM CountsAreFinal == Spec => []CountsFinal
<1>1. Typed /\ Ending /\ Counted => CountsFinal
  <2> SUFFICES ASSUME Ending, Counted, Returned PROVE /\ closed /\ pc["remote"] = "over"
                 /\ result = <<Len(got["client"]), Len(got["remote"])>>
    BY DEF CountsFinal
  <2> QED
    BY DEF Ending, Counted, Returned, Other, Peers
<1> QED
  BY <1>1, InitTyped, StepTyped, InitEnding, StepEnding, StepCounted, PTL DEF Spec

----------------------------------------------------------------------------
(* Units in order, with the position of the loop that writes them.         *)
Ordered == StreamsIntact /\ Flow

LEMMA InitOrdered == Lost = 0 /\ Init => Ordered
BY RelayAssumption DEF RelayAssumption, Init, Ordered, StreamsIntact, Flow, Peers, Other

LEMMA StepOrdered == Typed /\ Ending /\ Ordered /\ [Next]_vars => Ordered'
<1> SUFFICES ASSUME Typed, Ending, Ordered, [Next]_vars PROVE Ordered'
  OBVIOUS
<1> USE DEF Ordered, StreamsIntact, Flow, loops, peers
<1>0. /\ pc \in [Peers -> {"read", "write", "store", "close", "signal", "wait", "over"}]
      /\ got \in [Peers -> Seq(1 .. MaxSent)] /\ took \in [Peers -> Nat]
      /\ hand \in [Peers -> 0 .. MaxRead] /\ MaxRead \in Nat
  BY RelayAssumption DEF RelayAssumption, Typed, TypeOK
<1>1. ASSUME NEW p \in Peers, Read(p) PROVE Ordered'
  <2>1. PICK k \in 1 .. MaxRead : /\ took' = [took EXCEPT ![p] = @ + k]
                                  /\ hand' = [hand EXCEPT ![p] = k]
    BY <1>1 DEF Read
  <2>2. UNCHANGED got /\ pc[p] = "read" /\ pc' = [pc EXCEPT ![p] = "write"]
    BY <1>1 DEF Read, Goto
  <2>3. Len(got[Other(p)]) = took[p] /\ k \in Nat
    BY <1>0, <2>2
  <2> QED
    BY <1>0, <2>1, <2>2, <2>3
<1>2. ASSUME NEW p \in Peers, WriteUnit(p) PROVE Ordered'
  <2> DEFINE u == took[p] - hand[p] + 1
             q == Other(p)
  <2>1. /\ got' = [got EXCEPT ![q] = Append(@, u)] /\ UNCHANGED took
        /\ pc[p] = "write" /\ hand' = [hand EXCEPT ![p] = @ - 1]
        /\ pc' = [pc EXCEPT ![p] = IF hand[p] = 1 THEN "read" ELSE "write"]
    BY <1>2 DEF WriteUnit, Goto
  <2>2. u = Len(got[q]) + 1 /\ u \in Nat /\ q \in Peers /\ got[q] \in Seq(1 .. MaxSent)
    BY <1>0, <2>1, OtherPeer
  <2>3. hand[p] > 0
    BY <2>1 DEF Typed
  <2>4. \A r \in Peers : r # p => Other(r) # q
    BY OtherPeer
  <2> HIDE DEF u, q
  <2>5. /\ Len(Append(got[q], u)) = u
        /\ \A i \in 1 .. u : Append(got[q], u)[i] = i
    BY <2>2
  <2>6. StreamsIntact'
    BY <1>0, <2>1, <2>2, <2>5
  <2>7. got'[Other(p)] = Append(got[q], u) /\ u = took[p] - hand[p] + 1
    BY <1>0, <2>1, <2>2 DEF u, q
  <2>8. \A r \in Peers : r # p => got'[Other(r)] = got[Other(r)]
    BY <1>0, <2>1, <2>4, OtherPeer
  <2>9. Flow'
    <3> SUFFICES ASSUME NEW r \in Peers, pc'[r] \in {"read", "write"}
                 PROVE Len(got'[Other(r)]) = took'[r] - hand'[r] /\ (pc'[r] = "read" => hand'[r] = 0)
      OBVIOUS
    <3>1. CASE r = p
      <4>1. hand[p] \in Nat /\ took[p] \in Nat /\ hand'[p] = hand[p] - 1
        BY <1>0, <2>1
      <4>2. pc'[p] = "read" => hand[p] = 1
        BY <1>0, <2>1
      <4>3. Len(got'[Other(p)]) = took[p] - hand[p] + 1
        BY <2>5, <2>7
      <4> QED
        BY <3>1, <4>1, <4>2, <4>3, <2>1
    <3>2. CASE r # p
      BY <1>0, <2>1, <2>8, <3>2
    <3> QED
      BY <3>1, <3>2
  <2> QED
    BY <2>6, <2>9
<1>3. ASSUME UNCHANGED <<got, took, hand>>,
             \A p \in Peers : pc'[p] \in {"read", "write"} => pc'[p] = pc[p]
      PROVE Ordered'
  BY <1>3
<1>4. ASSUME NEW p \in Peers, ReadFails(p) \/ WriteFails(p) PROVE Ordered'
  <2>1. \A r \in Peers : pc'[r] \in {"read", "write"} => pc'[r] = pc[r]
    BY <1>0, <1>4 DEF ReadFails, WriteFails, Exit, Goto
  <2> QED
    BY <1>3, <1>4, <2>1 DEF ReadFails, WriteFails
<1>5. ASSUME NEW p \in Peers, CloseBoth(p) PROVE Ordered'
  <2>1. \A r \in Peers : pc'[r] \in {"read", "write"} => pc'[r] = pc[r]
    BY <1>0, <1>5 DEF CloseBoth, Goto
  <2> QED
    BY <1>3, <1>5, <2>1 DEF CloseBoth
<1>6. ASSUME StoreCount \/ Signal \/ Return PROVE Ordered'
  <2>1. \A r \in Peers : pc'[r] \in {"read", "write"} => pc'[r] = pc[r]
    BY <1>0, <1>6 DEF StoreCount, Signal, Return, Goto
  <2> QED
    BY <1>3, <1>6, <2>1 DEF StoreCount, Signal, Return
<1>7. ASSUME UNCHANGED <<got, loops>> PROVE Ordered'
  BY <1>7
<1> QED
  BY <1>1, <1>2, <1>4, <1>5, <1>6, <1>7
  DEF Next, Loop, Idle, vars, Send, End, Stall

(* Where nothing was read ahead of the relay, or bufConn serves it, each   *)
(* side gets the other's stream in order and without a gap.                *)
THEOREM StreamsAreIntact == ASSUME Lost = 0 PROVE Spec => []StreamsIntact
<1>1. Ordered => StreamsIntact
  BY DEF Ordered
<1>2. Init => Ordered
  BY InitOrdered
<1> QED
  BY <1>1, <1>2, InitTyped, StepTyped, InitEnding, StepEnding, StepOrdered, PTL DEF Spec

----------------------------------------------------------------------------
(* The token bucket in front of each direction, for every rate, size of a  *)
(* Write and clock.                                                        *)

(* The inductive invariant charges the bucket's content (or debt) against  *)
(* the bytes passed.  Awake, time counts twice: as refill up to `last', and *)
(* as sleep up to now.  Asleep, the sleep that started at `last' has not    *)
(* been credited yet.                                                      *)
BucketInv ==
  /\ BucketOK
  /\ pending = 0 => passed + allowance <= bytesPerSec + Rate * last + Rate * clock
  /\ pending > 0 => /\ passed + pending + allowance <= bytesPerSec + Rate * last + Rate * last
                    /\ pending + allowance >= 0

LEMMA Product == \A m \in Nat, t \in Nat : m * t \in Nat
OBVIOUS

LEMMA Distribute == \A m \in Nat, t, s \in Int : m * (t - s) = m * t - m * s /\ (t - s) * m = m * t - m * s
OBVIOUS

LEMMA Monotone == \A m \in Nat, s, t \in Nat : s <= t => m * s <= m * t
<1> TAKE m \in Nat, s \in Nat, t \in Nat
<1> HAVE s <= t
<1>1. m * (t - s) \in Nat  BY Product
<1> QED BY <1>1, Distribute

LEMMA Numbers ==
  ASSUME BucketOK
  PROVE  /\ Rate \in Nat /\ bytesPerSec \in Nat /\ bytesPerSec > 0
         /\ clock \in Nat /\ last \in Nat /\ last <= clock
         /\ Rate * clock \in Nat /\ Rate * last \in Nat /\ Rate * last <= Rate * clock
         /\ Refilled \in Int /\ Refilled <= bytesPerSec
         /\ Refilled <= allowance + Rate * clock - Rate * last
         /\ pending = 0 => Refilled >= 0
<1> USE ThrottleAssumption
<1>1. /\ clock \in Nat /\ last \in Nat /\ last <= clock /\ allowance \in Int
      /\ pending = 0 => allowance >= 0
  BY DEF BucketOK
<1>2. Rate \in Nat /\ Rate * clock \in Nat /\ Rate * last \in Nat /\ Rate * last <= Rate * clock
  BY <1>1, Product, Monotone
<1>3. bytesPerSec \in Nat /\ bytesPerSec > 0  BY Z3 DEF bytesPerSec
<1>4. (clock - last) * Rate = Rate * clock - Rate * last  BY <1>1, Distribute
<1>5. /\ Refilled \in Int /\ Refilled <= bytesPerSec
      /\ Refilled <= allowance + Rate * clock - Rate * last
      /\ pending = 0 => Refilled >= 0
  BY <1>1, <1>2, <1>3, <1>4 DEF Refilled
<1> QED BY <1>1, <1>2, <1>3, <1>5

LEMMA BucketStarts == BucketInit => BucketInv
<1> SUFFICES ASSUME BucketInit PROVE BucketInv  OBVIOUS
<1>1. bytesPerSec \in Nat /\ bytesPerSec > 0 /\ Rate \in Nat
  BY ThrottleAssumption, Z3 DEF bytesPerSec
<1>2. BucketOK  BY <1>1, ThrottleAssumption DEF BucketInit, BucketOK
<1>3. Rate * 0 = 0  BY <1>1
<1> QED BY <1>1, <1>2, <1>3 DEF BucketInit, BucketInv

LEMMA BucketSteps == BucketInv /\ [BucketNext]_bucketVars => BucketInv'
<1> SUFFICES ASSUME BucketInv, [BucketNext]_bucketVars PROVE BucketInv'  OBVIOUS
<1>1. BucketOK  BY DEF BucketInv
<1> DEFINE b == bytesPerSec
           rc == Rate * clock
           rl == Rate * last
<1>2. /\ b \in Nat /\ b > 0 /\ rc \in Nat /\ rl \in Nat /\ rl <= rc
      /\ clock \in Nat /\ last \in Nat /\ last <= clock /\ clock <= MaxTime
      /\ Refilled \in Int /\ Refilled <= b /\ Refilled <= allowance + rc - rl
      /\ pending = 0 => Refilled >= 0
      /\ allowance \in Int /\ pending \in Nat /\ passed \in Nat
      /\ allowance < 0 <=> pending > 0
  BY <1>1, Numbers, ThrottleAssumption DEF BucketOK
<1>3. /\ pending = 0 => passed + allowance <= b + rl + rc
      /\ pending > 0 => /\ passed + pending + allowance <= b + rl + rl
                        /\ pending + allowance >= 0
  BY DEF BucketInv
<1>4. ASSUME NEW size \in Sizes, Pass(size) PROVE BucketInv'
  <2>1. size \in Nat /\ size > 0  BY ThrottleAssumption
  <2>2. /\ last' = clock /\ clock' = clock /\ pending' = 0 /\ pending = 0
        /\ allowance' = Refilled - size /\ allowance' >= 0 /\ passed' = passed + size
    BY <1>4 DEF Pass
  <2>3. BucketOK'  BY <1>1, <1>2, <2>1, <2>2 DEF BucketOK, bytesPerSec
  <2>4. passed' + allowance' <= b + rc + rc
    <3> HIDE DEF b, rc, rl
    <3> QED BY <1>2, <1>3, <2>1, <2>2
  <2> QED BY <2>2, <2>3, <2>4 DEF BucketInv, bytesPerSec
<1>5. ASSUME NEW size \in Sizes, Sleep(size) PROVE BucketInv'
  <2>1. size \in Nat /\ size > 0  BY ThrottleAssumption
  <2>2. /\ last' = clock /\ clock' = clock /\ pending' = size /\ pending = 0
        /\ allowance' = Refilled - size /\ allowance' < 0 /\ passed' = passed
    BY <1>2, <2>1, <1>5 DEF Sleep
  <2>3. BucketOK'  BY <1>1, <1>2, <2>1, <2>2 DEF BucketOK, bytesPerSec
  <2>4. passed' + pending' + allowance' <= b + rc + rc /\ pending' + allowance' >= 0
    <3> HIDE DEF b, rc, rl
    <3> QED BY <1>2, <1>3, <2>1, <2>2
  <2> QED BY <2>1, <2>2, <2>3, <2>4 DEF BucketInv, bytesPerSec
<1>6. CASE Wake
  <2>1. /\ last' = last /\ clock' = clock /\ pending' = 0 /\ pending > 0
        /\ allowance' = 0 /\ passed' = passed + pending
        /\ (clock - last) * Rate >= -allowance
    BY <1>6 DEF Wake
  <2>2. (clock - last) * Rate = rc - rl  BY <1>2, ThrottleAssumption, Distribute
  <2>3. BucketOK'  BY <1>1, <1>2, <2>1 DEF BucketOK, bytesPerSec
  <2>4. passed' + allowance' <= b + rl + rc
    <3> HIDE DEF b, rc, rl
    <3> QED BY <1>2, <1>3, <2>1, <2>2
  <2> QED BY <2>1, <2>3, <2>4 DEF BucketInv, bytesPerSec
<1>7. CASE Tick
  <2>1. /\ clock < MaxTime /\ clock' = clock + 1
        /\ last' = last /\ allowance' = allowance /\ pending' = pending /\ passed' = passed
    BY <1>7 DEF Tick
  <2>2. BucketOK'  BY <1>1, <1>2, <2>1, ThrottleAssumption DEF BucketOK, bytesPerSec
  <2>3. rc <= Rate * clock' /\ Rate * clock' \in Nat
    BY <1>2, <2>1, ThrottleAssumption, Monotone, Product
  <2>4. pending = 0 => passed + allowance <= b + rl + Rate * clock'
    <3> HIDE DEF b, rc, rl
    <3> QED BY <1>2, <1>3, <2>3
  <2> QED BY <1>3, <2>1, <2>2, <2>4 DEF BucketInv, bytesPerSec
<1>8. CASE UNCHANGED bucketVars
  BY <1>8 DEF bucketVars, BucketInv, BucketOK, bytesPerSec
<1> QED BY <1>4, <1>5, <1>6, <1>7, <1>8 DEF BucketNext

LEMMA BucketEnough == BucketInv => WithinTwiceRate
<1> SUFFICES ASSUME BucketInv PROVE WithinTwiceRate  OBVIOUS
<1>1. BucketOK  BY DEF BucketInv
<1> DEFINE b == bytesPerSec
           rc == Rate * clock
           rl == Rate * last
<1>2. /\ b \in Nat /\ rc \in Nat /\ rl \in Nat /\ rl <= rc
      /\ allowance \in Int /\ pending \in Nat /\ passed \in Nat
      /\ allowance < 0 <=> pending > 0
  BY <1>1, Numbers, ThrottleAssumption DEF BucketOK
<1>3. /\ pending = 0 => passed + allowance <= b + rl + rc
      /\ pending > 0 => /\ passed + pending + allowance <= b + rl + rl
                        /\ pending + allowance >= 0
  BY DEF BucketInv
<1>4. 2 * Rate * clock = rc + rc  BY <1>1, Numbers
<1>5. passed <= b + rc + rc
  <2> HIDE DEF b, rc, rl
  <2> QED BY <1>2, <1>3
<1>6. passed <= b + 2 * Rate * clock  BY <1>2, <1>4, <1>5
<1> QED BY <1>6 DEF WithinTwiceRate

(* The bucket never holds more than one second's worth, and is in debt     *)
(* only while the Write that caused the debt sleeps.                       *)
THEOREM BucketType == BucketSpec => []BucketOK
<1>1. BucketInv => BucketOK  BY DEF BucketInv
<1> QED BY <1>1, BucketStarts, BucketSteps, PTL DEF BucketSpec

(* What one direction of a relay hands on is bounded at every moment by a  *)
(* burst plus twice the configured rate.                                   *)
THEOREM TwiceRateBound == BucketSpec => []WithinTwiceRate
<1> QED BY BucketStarts, BucketSteps, BucketEnough, PTL DEF BucketSpec
=============================================================================
