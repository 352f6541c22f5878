--------------------------------- MODULE Relay ---------------------------------
(***************************************************************************)
(* relay(a, b): two copy loops between the client and the remote, one in   *)
(* a goroutine, one in the caller; whichever ends first closes both        *)
(* connections, and the caller returns the two byte counts once both loops *)
(* are over.  A loop is named by the peer it reads from: "remote" is the   *)
(* goroutine's, "client" the caller's.  Data are numbered units; a Write   *)
(* hands over the units of one Read one by one and may fail between two.   *)
(* Early units of the client are already in the handshake's bufio.Reader;  *)
(* bufConn gives them to the loop, a bare connection does not.             *)
(***************************************************************************)
EXTENDS Integers, Sequences

CONSTANTS MaxSent,  \* bound on the units a peer sends
          MaxRead,  \* units one Read may return
          Early,    \* units of the client in the bufio.Reader at the start
          BufConn   \* TRUE for HTTP, FALSE for SOCKS

Peers == {"client", "remote"}
Other(p) == IF p = "client" THEN "remote" ELSE "client"

ASSUME RelayAssumption ==
  MaxSent \in Nat /\ MaxRead \in Nat \ {0} /\ Early \in 0 .. MaxSent /\ BufConn \in BOOLEAN

VARIABLES
  sent, ended, stalled,  \* per peer: units sent; open, eof or reset; not reading
  got,                   \* per peer: units its socket accepted from the gateway
  pc, took, hand,        \* per loop: step; units read so far; of these, not yet written
  n,                     \* per loop: copyOneWay's count
  closed,                \* closeBoth was called
  upBytes, done,         \* what the goroutine leaves for the caller
  result                 \* what relay returned

peers == <<sent, ended, stalled>>
loops == <<pc, took, hand>>
vars == <<peers, got, loops, n, closed, upBytes, done, result>>

(* Units of the client no loop will ever see.                              *)
LostMutant == Early  \* the request's reader is dropped on the HTTP path too
Lost == IF BufConn THEN 0 ELSE Early

Init ==
  /\ sent = [p \in Peers |-> IF p = "client" THEN Early ELSE 0]
  /\ ended = [p \in Peers |-> "open"] /\ stalled = [p \in Peers |-> FALSE]
  /\ got = [p \in Peers |-> <<>>]
  /\ pc = [p \in Peers |-> "read"]
  /\ took = [p \in Peers |-> IF p = "client" THEN Lost ELSE 0]
  /\ hand = [p \in Peers |-> 0] /\ n = [p \in Peers |-> 0]
  /\ closed = FALSE /\ upBytes = 0 /\ done = FALSE
  /\ result = <<>>

Goto(p, l) == pc' = [pc EXCEPT ![p] = l]

----------------------------------------------------------------------------
(* The peers.                                                              *)
Send(p) ==
  /\ ended[p] = "open" /\ sent[p] < MaxSent /\ sent' = [sent EXCEPT ![p] = @ + 1]
  /\ UNCHANGED <<ended, stalled, got, loops, n, closed, upBytes, done, result>>

End(p) ==
  /\ ended[p] = "open" /\ \E how \in {"eof", "reset"} : ended' = [ended EXCEPT ![p] = how]
  /\ UNCHANGED <<sent, stalled, got, loops, n, closed, upBytes, done, result>>

Stall(p) ==
  /\ stalled' = [stalled EXCEPT ![p] = ~@]
  /\ UNCHANGED <<sent, ended, got, loops, n, closed, upBytes, done, result>>

----------------------------------------------------------------------------
(* copyOneWay(Other(p), p): read some units, write them all, until either  *)
(* fails.                                                                  *)
Exit(p) == Goto(p, IF p = "remote" THEN "store" ELSE "close")

(* What a Read can return: bufConn serves what is buffered even after the  *)
(* connection was closed or reset.                                         *)
AvailableMutant(p) ==  \* a Read returns bytes it returned before
  IF closed \/ ended[p] = "reset" THEN 0 ELSE sent[p]
Available(p) ==
  IF p = "client" /\ took[p] < Early THEN Early - took[p]
  ELSE IF closed \/ ended[p] = "reset" THEN 0 ELSE sent[p] - took[p]

Read(p) ==
  /\ pc[p] = "read"
  /\ \E k \in 1 .. MaxRead : /\ k <= Available(p)
                             /\ took' = [took EXCEPT ![p] = @ + k]
                             /\ hand' = [hand EXCEPT ![p] = k]
  /\ Goto(p, "write")
  /\ UNCHANGED <<peers, got, n, closed, upBytes, done, result>>

ReadFailsMutant(p) ==  \* only io.EOF leaves the loop
  /\ pc[p] = "read" /\ Available(p) = 0 /\ (closed \/ ended[p] = "eof")
  /\ Exit(p)
  /\ UNCHANGED <<peers, got, took, hand, n, closed, upBytes, done, result>>
ReadFails(p) ==
  /\ pc[p] = "read" /\ Available(p) = 0 /\ (closed \/ ended[p] # "open")
  /\ Exit(p)
  /\ UNCHANGED <<peers, got, took, hand, n, closed, upBytes, done, result>>

(* A peer that sent its end may still be reading, or may be gone: a Write   *)
(* to it can succeed or fail.                                              *)
Writable(p) == ~closed /\ ended[p] # "reset" /\ ~stalled[p]

WriteUnit(p) ==
  LET q == Other(p)
  IN /\ pc[p] = "write" /\ Writable(q)
     /\ got' = [got EXCEPT ![q] = Append(@, took[p] - hand[p] + 1)]
     /\ hand' = [hand EXCEPT ![p] = @ - 1] /\ n' = [n EXCEPT ![p] = @ + 1]
     /\ Goto(p, IF hand[p] = 1 THEN "read" ELSE "write")
     /\ UNCHANGED <<peers, took, closed, upBytes, done, result>>

WriteFails(p) ==
  /\ pc[p] = "write" /\ (closed \/ ended[Other(p)] # "open")
  /\ Exit(p)
  /\ UNCHANGED <<peers, got, took, hand, n, closed, upBytes, done, result>>

----------------------------------------------------------------------------
(* The end: the goroutine stores its count, closes both connections and    *)
(* signals; the caller closes both and waits for the signal.               *)
StoreCount ==
  /\ pc["remote"] = "store" /\ Goto("remote", "close")
  /\ upBytes' = n["remote"]
  /\ UNCHANGED <<peers, got, took, hand, n, closed, done, result>>

CloseBothMutant(p) ==  \* the caller waits without closing
  /\ pc[p] = "close" /\ closed' = (closed \/ p = "remote")
  /\ Goto(p, IF p = "remote" THEN "signal" ELSE "wait")
  /\ UNCHANGED <<peers, got, took, hand, n, upBytes, done, result>>
CloseBoth(p) ==
  /\ pc[p] = "close" /\ closed' = TRUE
  /\ Goto(p, IF p = "remote" THEN "signal" ELSE "wait")
  /\ UNCHANGED <<peers, got, took, hand, n, upBytes, done, result>>

Signal ==
  /\ pc["remote"] = "signal" /\ Goto("remote", "over")
  /\ done' = TRUE
  /\ UNCHANGED <<peers, got, took, hand, n, closed, upBytes, result>>

ReturnMutant ==  \* does not wait for the goroutine
  /\ pc["client"] = "wait" /\ Goto("client", "over")
  /\ result' = <<upBytes, n["client"]>>
  /\ UNCHANGED <<peers, got, took, hand, n, closed, upBytes, done>>
Return ==
  /\ pc["client"] = "wait" /\ done /\ Goto("client", "over")
  /\ result' = <<upBytes, n["client"]>>
  /\ UNCHANGED <<peers, got, took, hand, n, closed, upBytes, done>>

Loop(p) == \/ Read(p) \/ ReadFails(p) \/ WriteUnit(p) \/ WriteFails(p) \/ CloseBoth(p)
           \/ p = "remote" /\ (StoreCount \/ Signal)
           \/ p = "client" /\ Return
Returned == pc["client"] = "over"
Idle == Returned /\ UNCHANGED vars

Next == (\E p \in Peers : Send(p) \/ End(p) \/ Stall(p) \/ Loop(p)) \/ Idle

(* A loop keeps running whenever its Read or Write can return; strong      *)
(* fairness of the write, because room a peer made in its socket by reading *)
(* stays there for the writer.  The peers owe nothing.                     *)
Spec == Init /\ [][Next]_vars
        /\ \A p \in Peers : WF_vars(Loop(p)) /\ SF_vars(WriteUnit(p))

----------------------------------------------------------------------------
TypeOK ==
  /\ sent \in [Peers -> 0 .. MaxSent] /\ ended \in [Peers -> {"open", "eof", "reset"}]
  /\ stalled \in [Peers -> BOOLEAN] /\ \A p \in Peers : got[p] \in Seq(1 .. MaxSent)
  /\ pc \in [Peers -> {"read", "write", "store", "close", "signal", "wait", "over"}]
  /\ hand \in [Peers -> 0 .. MaxRead] /\ \A p \in Peers : took[p] \in hand[p] .. sent[p]
  /\ n \in [Peers -> Nat] /\ closed \in BOOLEAN /\ upBytes \in Nat /\ done \in BOOLEAN

(* Each peer's socket gets the other's units in order, none lost before    *)
(* the first one that is missing, none twice, those read early included.   *)
StreamsIntact ==
  \A p \in Peers : \A i \in 1 .. Len(got[p]) : got[p][i] = i

(* When relay returns, both connections are closed, both loops are over,   *)
(* and the two counts the traffic report adds up are what the sockets      *)
(* really accepted: no late write of the goroutine is missed.              *)
CountsFinal ==
  Returned => /\ closed /\ pc["remote"] = "over"
              /\ result = <<Len(got["client"]), Len(got["remote"])>>

(* Once either loop is over, relay returns, even if the other loop is      *)
(* blocked on a silent or a stalled peer: closing both unblocks it.        *)
OneEndsBoth == \A p \in Peers : pc[p] \notin {"read", "write"} ~> Returned

(* As long as no peer stays deaf for ever, the end of either connection    *)
(* ends the session.                                                       *)
EitherEndEnds ==
  (\A p \in Peers : []<>~stalled[p]) => \A p \in Peers : ended[p] # "open" ~> Returned
=============================================================================
