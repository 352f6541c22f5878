------------------------------- MODULE Throttle -------------------------------
(***************************************************************************)
(* limit.Throttle, the token bucket in front of each direction of a relay: *)
(* Writer.Write calls delay(n), then hands its n bytes on.  A bucket has   *)
(* one caller, the copy loop of its direction.  Amounts are in bytes, time *)
(* in ticks of 1/Hz s, so bytesPerSec = Rate * Hz is also the burst.       *)
(***************************************************************************)
EXTENDS Integers

CONSTANTS Rate,     \* bytes per tick
          Hz,       \* ticks per second
          Sizes,    \* sizes a Write may have
          MaxTime   \* bound on the clock

ASSUME ThrottleAssumption ==
  /\ Rate \in Nat \ {0} /\ Hz \in Nat \ {0} /\ MaxTime \in Nat
  /\ Sizes \subseteq Nat \ {0}

VARIABLES clock,              \* time since NewThrottle
          last, allowance,    \* the bucket; allowance is negative during a sleep
          pending,            \* size of the Write asleep in delay, 0 if none
          passed              \* bytes handed on so far

bucketVars == <<clock, last, allowance, pending, passed>>

bytesPerSec == Rate * Hz

(* NewThrottle: a full bucket.                                             *)
BucketInit ==
  /\ clock = 0 /\ last = 0 /\ pending = 0 /\ passed = 0
  /\ allowance = bytesPerSec

RefilledMutant == allowance + (clock - last) * Rate  \* no cap
Refilled ==
  LET a == allowance + (clock - last) * Rate
  IN IF a > bytesPerSec THEN bytesPerSec ELSE a

Pass(n) ==
  /\ pending = 0 /\ Refilled - n >= 0
  /\ last' = clock /\ allowance' = Refilled - n
  /\ passed' = passed + n
  /\ UNCHANGED <<clock, pending>>

Sleep(n) ==
  /\ pending = 0 /\ Refilled - n < 0
  /\ last' = clock /\ allowance' = Refilled - n
  /\ pending' = n
  /\ UNCHANGED <<clock, passed>>

(* time.Sleep lasts at least as long as the deficit takes to refill, then  *)
(* the bucket is set to empty; t.last stays at the start of the sleep.     *)
WakeMutant ==  \* does not sleep
  /\ pending > 0
  /\ allowance' = 0 /\ passed' = passed + pending /\ pending' = 0
  /\ UNCHANGED <<clock, last>>
Wake ==
  /\ pending > 0 /\ (clock - last) * Rate >= -allowance
  /\ allowance' = 0 /\ passed' = passed + pending /\ pending' = 0
  /\ UNCHANGED <<clock, last>>

Tick == clock < MaxTime /\ clock' = clock + 1 /\ UNCHANGED <<last, allowance, pending, passed>>

BucketNext == (\E n \in Sizes : Pass(n) \/ Sleep(n)) \/ Wake \/ Tick

BucketSpec == BucketInit /\ [][BucketNext]_bucketVars

----------------------------------------------------------------------------
(* A bucket that is not in debt holds at most one second's worth; only a   *)
(* sleeping Write leaves it in debt.                                       *)
BucketOK ==
  /\ clock \in 0 .. MaxTime /\ last \in 0 .. clock
  /\ allowance \in Int /\ allowance <= bytesPerSec /\ (allowance < 0 <=> pending > 0)
  /\ pending \in Sizes \cup {0} /\ passed \in Nat

(* However a client paces and sizes its data, what a direction hands on    *)
(* stays below one burst plus twice the configured rate: time slept is     *)
(* credited once by waking with an empty bucket and once more by the next  *)
(* refill, but never more often.                                           *)
WithinTwiceRate == passed <= bytesPerSec + 2 * Rate * clock

(* README, "userrate / iprate: Per-connection bandwidth (bytes/s)", with a *)
(* burst of one second allowed for.                                        *)
RateHonoured == passed <= bytesPerSec + Rate * clock
=============================================================================
