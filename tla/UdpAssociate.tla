------------------------------ MODULE UdpAssociate ------------------------------
(***************************************************************************)
(* A SOCKS UDP association once its reply is out (the rest of              *)
(* handleSocksUDPAssociate): a relay goroutine that takes one datagram at  *)
(* a time, authorizes it, sends it on and waits for one answer, and the    *)
(* handler, which waits for the control connection, closes the socket and  *)
(* waits for the goroutine.  Directly, every datagram has a socket of its  *)
(* own; through a SOCKS parent, all share the socket of one UDPRelay.      *)
(* UDP itself loses, delays, duplicates and reorders.                      *)
(***************************************************************************)
EXTENDS Integers, Sequences, FiniteSets, SequencesExt

CONSTANTS Sources,   \* endpoints clients send from
          Peers, V4, \* destinations; those with an IPv4 address
          MaxSent,   \* bound on the datagrams of clients
          MaxCopies  \* bound on the answers of a peer to one datagram

ASSUME UdpAssumption == V4 \subseteq Peers /\ MaxSent \in Nat /\ MaxCopies \in Nat

Ids == 1 .. MaxSent

VARIABLES
  parent,       \* whether the association goes through a parent
  sends,        \* datagrams that arrived: [src, dst], their index is their id
  inbox,        \* ids queued on udpConn
  forwarded,    \* ids sent on
  answers,      \* per id: answers its peer sent
  upbox,        \* ids of the answers queued on the socket the goroutine reads
  pc, cur,      \* the relay goroutine: step; the datagram in hand, 0 if none
  answer,       \* the id whose answer it holds
  delivered,    \* what clients were sent: [to, from, answers]
  total,        \* exchanges counted
  control,      \* the client keeps its control connection open
  handler,      \* the handler's step
  udpConn, upRelay, done,   \* sockets open; the goroutine is over
  report        \* what was reported, -1 before

network == <<sends, answers>>
goroutine == <<pc, cur, answer>>
sockets == <<udpConn, upRelay>>
vars == <<parent, network, inbox, forwarded, upbox, goroutine, delivered, total,
          control, handler, sockets, done, report>>

Init ==
  /\ parent \in BOOLEAN
  /\ sends = <<>> /\ inbox = <<>> /\ forwarded = {} /\ upbox = <<>>
  /\ answers = [i \in Ids |-> 0]
  /\ pc = "read" /\ cur = 0 /\ answer = 0
  /\ delivered = <<>> /\ total = 0
  /\ control = TRUE /\ handler = "control"
  /\ udpConn = TRUE /\ upRelay = parent /\ done = FALSE /\ report = -1

----------------------------------------------------------------------------
(* The outside.                                                            *)
(* A client datagram that gets through; a duplicate is one more.           *)
Arrives ==
  /\ udpConn /\ Len(sends) < MaxSent
  /\ \E s \in Sources, d \in Peers : sends' = Append(sends, [src |-> s, dst |-> d])
  /\ inbox' = Append(inbox, Len(sends) + 1)
  /\ UNCHANGED <<parent, answers, forwarded, upbox, goroutine, delivered, total,
                 control, handler, sockets, done, report>>

(* A peer answers what was forwarded to it, late and more than once; an    *)
(* answer reaches the goroutine if the socket it is meant for is open.     *)
PeerAnswers(i) ==
  /\ i \in forwarded /\ answers[i] < MaxCopies
  /\ answers' = [answers EXCEPT ![i] = @ + 1]
  /\ \/ upbox' = (IF IF parent THEN upRelay ELSE pc = "await" /\ cur = i
                  THEN Append(upbox, i) ELSE upbox)
     \/ UNCHANGED upbox                                                  \* lost
  /\ UNCHANGED <<parent, sends, inbox, forwarded, goroutine, delivered, total,
                 control, handler, sockets, done, report>>

(* The client closes the control connection, or writes to it.              *)
ControlEnds ==
  /\ control /\ control' = FALSE
  /\ UNCHANGED <<parent, network, inbox, forwarded, upbox, goroutine, delivered, total,
                 handler, sockets, done, report>>

----------------------------------------------------------------------------
(* The relay goroutine.                                                    *)
At(l) == pc = l
Again == pc' = "read" /\ cur' = 0 /\ answer' = 0

(* A datagram that is short, fragmented or addressed nowhere is dropped.   *)
ReadFromUDP ==
  /\ At("read") /\ udpConn /\ inbox # <<>>
  /\ inbox' = Tail(inbox)
  /\ \/ pc' = "auth" /\ cur' = Head(inbox) /\ UNCHANGED answer
     \/ Again
  /\ UNCHANGED <<parent, network, forwarded, upbox, delivered, total,
                 control, handler, sockets, done, report>>

(* The socket was closed, or nothing came for two minutes.                 *)
ReadFails ==
  /\ At("read") /\ (~udpConn \/ inbox = <<>>)
  /\ pc' = "over" /\ done' = TRUE
  /\ UNCHANGED <<parent, network, inbox, forwarded, upbox, cur, answer, delivered, total,
                 control, handler, sockets, report>>

Authorize ==
  /\ At("auth")
  /\ \/ pc' = "send" /\ UNCHANGED <<cur, answer>>
     \/ Again
  /\ UNCHANGED <<parent, network, inbox, forwarded, upbox, delivered, total,
                 control, handler, sockets, done, report>>

(* UDPRelay.WriteTo, or a dial and a Write whose error is ignored.         *)
SendOn ==
  /\ At("send")
  /\ \/ forwarded' = forwarded \cup {cur} /\ pc' = "await" /\ UNCHANGED <<cur, answer>>
     \/ Again /\ UNCHANGED forwarded
  /\ UNCHANGED <<parent, network, inbox, upbox, delivered, total,
                 control, handler, sockets, done, report>>

(* UDPRelay.Read takes whatever is next; a socket of the datagram's own is *)
(* read once and closed.                                                   *)
AfterReadMutant == Tail(upbox)  \* one socket for all direct datagrams
AfterRead == IF parent THEN Tail(upbox) ELSE <<>>

ReadAnswer ==
  /\ At("await") /\ upbox # <<>> /\ upbox' = AfterRead
  /\ \/ pc' = "reply" /\ answer' = Head(upbox) /\ total' = total + 1 /\ UNCHANGED cur
     \/ Again /\ UNCHANGED total                           \* empty or malformed
  /\ UNCHANGED <<parent, network, inbox, forwarded, delivered,
                 control, handler, sockets, done, report>>

(* 30 seconds.                                                             *)
NoAnswerMutant ==  \* no deadline on the parent's socket
  /\ At("await") /\ upbox = <<>> /\ ~parent /\ Again
  /\ UNCHANGED <<parent, network, inbox, forwarded, upbox, delivered, total,
                 control, handler, sockets, done, report>>
NoAnswer ==
  /\ At("await") /\ upbox = <<>> /\ Again
  /\ UNCHANGED <<parent, network, inbox, forwarded, upbox, delivered, total,
                 control, handler, sockets, done, report>>

(* What a client reads as the peer of an answer.  buildSocksUDPReply has   *)
(* no IPv6 form: it puts the 16 bytes of net.IPv4(127, 0, 0, 1) behind an  *)
(* IPv4 tag, and the first four are zero; a peer a parent names by a       *)
(* domain has no address either.                                           *)
NamesMutant(p) ==  \* no address for IPv6
  {IF p \in V4 THEN p ELSE "nil"} \cup (IF parent THEN {"0.0.0.0"} ELSE {})
Names(p) == {IF p \in V4 THEN p ELSE "0.0.0.0"} \cup (IF parent THEN {"0.0.0.0"} ELSE {})

(* WriteToUDP, its error ignored: the reply names the answer's peer and    *)
(* goes to the source of the datagram in hand.                             *)
Deliver ==
  IF udpConn
  THEN \E name \in Names(sends[answer].dst) : delivered' =
         Append(delivered, [to |-> sends[cur].src, from |-> name, answers |-> answer])
  ELSE UNCHANGED delivered

ReplyMutant ==  \* passes on every answer that comes before the deadline
  /\ At("reply") /\ Deliver
  /\ pc' = "await" /\ answer' = 0
  /\ UNCHANGED <<parent, network, inbox, forwarded, upbox, cur, total,
                 control, handler, sockets, done, report>>
Reply ==
  /\ At("reply") /\ Deliver /\ Again
  /\ UNCHANGED <<parent, network, inbox, forwarded, upbox, total,
                 control, handler, sockets, done, report>>

----------------------------------------------------------------------------
(* The handler.                                                            *)
ControlRead ==
  /\ handler = "control" /\ ~control
  /\ handler' = "wait" /\ udpConn' = FALSE
  /\ UNCHANGED <<parent, network, inbox, forwarded, upbox, goroutine, delivered, total,
                 control, upRelay, done, report>>

WaitDoneMutant ==  \* reports without waiting
  /\ handler = "wait" /\ handler' = "unwind" /\ report' = total
  /\ UNCHANGED <<parent, network, inbox, forwarded, upbox, goroutine, delivered, total,
                 control, sockets, done>>
WaitDone ==
  /\ handler = "wait" /\ done
  /\ handler' = "unwind" /\ report' = total
  /\ UNCHANGED <<parent, network, inbox, forwarded, upbox, goroutine, delivered, total,
                 control, sockets, done>>

Unwind ==
  /\ handler = "unwind" /\ handler' = "over"
  /\ upRelay' = FALSE
  /\ UNCHANGED <<parent, network, inbox, forwarded, upbox, goroutine, delivered, total,
                 control, udpConn, done, report>>

Outside == Arrives \/ (\E i \in Ids : PeerAnswers(i)) \/ ControlEnds
Goroutine == \/ ReadFromUDP \/ ReadFails \/ Authorize \/ SendOn
             \/ ReadAnswer \/ NoAnswer \/ Reply
Handler == ControlRead \/ WaitDone \/ Unwind
Idle == handler = "over" /\ UNCHANGED vars

Next == Outside \/ Goroutine \/ Handler \/ Idle

(* Every call of the goroutine has a deadline, at most two minutes away.   *)
Spec == Init /\ [][Next]_vars /\ WF_vars(Goroutine) /\ WF_vars(Handler)

----------------------------------------------------------------------------
Addresses == Peers \cup {"0.0.0.0"}

TypeOK ==
  /\ parent \in BOOLEAN /\ control \in BOOLEAN /\ udpConn \in BOOLEAN
  /\ sends \in Seq([src : Sources, dst : Peers]) /\ Len(sends) <= MaxSent
  /\ inbox \in Seq(Ids) /\ IsInjective(inbox) /\ upbox \in Seq(forwarded)
  /\ forwarded \subseteq DOMAIN sends /\ answers \in [Ids -> 0 .. MaxCopies]
  /\ pc \in {"read", "auth", "send", "await", "reply", "over"}
  /\ cur \in {0} \cup DOMAIN sends /\ answer \in {0} \cup forwarded
  /\ delivered \in Seq([to : Sources, from : Addresses, answers : forwarded])
  /\ total \in Nat /\ handler \in {"control", "wait", "unwind", "over"}
  /\ upRelay \in BOOLEAN /\ done = (pc = "over") /\ report \in Nat \cup {-1}

(* Without a parent, an answer goes back to the endpoint that sent the     *)
(* datagram it answers, and a datagram is answered once at most, although  *)
(* peers answer late and repeatedly.                                       *)
OwnAnswer ==
  ~parent => /\ \A i \in DOMAIN delivered : delivered[i].to = sends[delivered[i].answers].src
             /\ \A i, j \in DOMAIN delivered :
                  i # j => delivered[i].answers # delivered[j].answers

(* Directly or through a parent, clients get no more datagrams back than   *)
(* were authorized and sent on, and each of them has been counted.         *)
NoMoreThanAsked ==
  Len(delivered) <= total
  /\ total + (IF pc = "await" THEN 1 ELSE 0) <= Cardinality(forwarded)

(* The traffic report is final, and the parent's control connection and    *)
(* socket outlive every use (udp.go, "must stay open until Close"): the    *)
(* goroutine is over before the session is reported and unwound.           *)
ReportFinal ==
  /\ report # -1 => report = total /\ pc = "over"
  /\ pc # "over" => upRelay = parent

(* When the control connection ends, so does the session, whatever the     *)
(* goroutine is waiting for.                                               *)
Ends == ~control ~> handler = "over" /\ ~udpConn /\ ~upRelay
=============================================================================
