---------------------------- MODULE UpstreamProofs ----------------------------
(* What a dial guarantees, for any calls and any parents.                  *)
EXTENDS Upstream, TLAPS

(***************************************************************************)
(* The inductive invariant.  It says for each step of the handshake which  *)
(* calls reach it (Route), how much of the reply is behind it (Position),  *)
(* what the parent has consented to (Consent), what it was asked for       *)
(* (Asking), and which sockets are open, under a deadline or not (Held).   *)
(***************************************************************************)
SocksSteps == {"greet", "method", "auth", "authReply", "request", "associate",
               "reply", "nameLen", "tail", "listen", "relisten"}
HttpSteps == {"connect", "status", "headers"}

Route ==
  /\ reply.kind = (IF task.scheme \in {"http", "socks5"} THEN task.scheme ELSE "none")
  /\ pc = "dial" => ~Refused /\ ~(Direct /\ task.op = "udp")
  /\ pc \in HttpSteps => Via("http") /\ task.op = "tcp"
  /\ pc \in SocksSteps => Via("socks5")
  /\ pc = "request" => task.op = "tcp"
  /\ pc \in {"associate", "listen", "relisten"} => task.op = "udp"
  /\ pc = "done" <=> result # "pending"

HeadLen == 2 + (IF Authenticates THEN 2 ELSE 0)
Position ==
  /\ pc \in {"start", "dial", "connect", "status", "greet", "method"} => used = 0
  /\ pc = "headers" => used >= 1 /\ used < ReplyLen
  /\ pc \in {"auth", "authReply"} => used = 2 /\ Authenticates
  /\ pc \in {"request", "associate", "reply"} => used = HeadLen
  /\ pc = "nameLen" => used = HeadLen + 4
  /\ pc = "tail" => used + Tail = ReplyLen
  /\ pc \in {"listen", "relisten"} \/ result = "ok" => used = ReplyLen
  /\ took = used \/ Via("http")

LetIn == reply.hello = 5 /\ reply.method \in {0, 2}
Authentic == LetIn /\ (Authenticates => reply.auth = 0)
Consent ==
  /\ pc = "headers" => reply.says200
  /\ pc \in {"auth", "authReply"} => LetIn
  /\ pc \in {"request", "associate", "reply"} => Authentic
  /\ pc = "nameLen" => Authentic /\ Granted /\ reply.atyp = 3
  /\ pc \in {"tail", "listen", "relisten"} => Authentic /\ Granted
  /\ result = "ok" /\ ~Direct => Agreed

Asking ==
  /\ pc \in {"status", "headers"} => asked = [host |-> task.host, port |-> task.port]
  /\ pc \in {"reply", "nameLen", "tail"} /\ task.op = "tcp" =>
       asked = [host |-> task.host, port |-> RequestPort]
  /\ pc \in {"listen", "relisten"} => relay \in {"parent", "address"}
  /\ result = "ok" /\ ~Direct => Wanted /\ Reachable

Held ==
  /\ pc \in {"start", "dial"} => conn = "none"
  /\ pc \in HttpSteps \cup SocksSteps => conn = "open"
  /\ pc # "relisten" /\ pc # "done" => sock = "none"
  /\ pc = "relisten" => sock = "open"
  /\ pc \in {"start", "dial", "listen", "relisten"} \/ result = "ok" => armed = FALSE
  /\ result = "ok" => /\ conn = "open" <=> ~(Direct /\ task.op = "udp")
                      /\ sock = "open" <=> ~Direct /\ task.op = "udp"
  /\ result \in {"failed", "panic", "closed"} => conn # "open" /\ sock # "open"

IInv == TypeOK /\ Route /\ Position /\ Consent /\ Asking /\ Held

----------------------------------------------------------------------------
(* The lengths of a reply and of its parts are natural numbers that add up.*)
LEMMA Lengths ==
  ASSUME TypeOK
  PROVE  /\ reply.headers \in Nat /\ reply.len \in Byte /\ task.port \in Int
         /\ HeadLen \in {2, 4} /\ (Authenticates => HeadLen = 4)
         /\ (~Authenticates => HeadLen = 2)
         /\ AddrLen \in Nat /\ AddrLen >= 1 /\ Tail \in Nat /\ ReplyLen \in Nat
         /\ reply.kind = "none" => ReplyLen = 0
         /\ reply.kind = "http" => ReplyLen = reply.headers + 2
         /\ reply.kind = "socks5" => ReplyLen = HeadLen + 4 + AddrLen + 2
         /\ reply.atyp = 3 => Tail = AddrLen + 1
         /\ reply.atyp # 3 => Tail = AddrLen + 2
<1>1. reply \in ReplyType /\ task \in TaskType
  BY UpstreamAssumption DEF TypeOK
<1>2. reply.headers \in Nat /\ reply.len \in Byte /\ task.port \in Int
  BY <1>1 DEF ReplyType, TaskType
<1>3. reply.kind \in {"none", "http", "socks5"}  BY <1>1 DEF ReplyType
<1>4. AddrLen \in Nat /\ AddrLen >= 1  BY <1>2 DEF AddrLen, Byte
<1>5. /\ HeadLen \in {2, 4}
      /\ Authenticates => HeadLen = 4
      /\ ~Authenticates => HeadLen = 2
  BY DEF HeadLen
<1>6. /\ reply.atyp = 3 => Tail = AddrLen + 1
      /\ reply.atyp # 3 => Tail = AddrLen + 2
  BY <1>4 DEF Tail
<1>7. /\ reply.kind = "none" => ReplyLen = 0
      /\ reply.kind = "http" => ReplyLen = reply.headers + 2
      /\ reply.kind = "socks5" => ReplyLen = HeadLen + 4 + AddrLen + 2
  BY <1>2, <1>4, <1>5 DEF ReplyLen, HeadLen
<1> QED BY <1>2, <1>3, <1>4, <1>5, <1>6, <1>7

(* A call keeps its task and its parent, and all that is said of them.     *)
Steady == /\ task' = task /\ reply' = reply
          /\ ReplyLen' = ReplyLen /\ Tail' = Tail /\ HeadLen' = HeadLen
          /\ Refused' = Refused /\ Direct' = Direct /\ Authenticates' = Authenticates
          /\ LetIn' = LetIn /\ Authentic' = Authentic /\ Granted' = Granted /\ Agreed' = Agreed
          /\ RequestPort' = RequestPort /\ \A s : Via(s)' = Via(s)

LEMMA Steadiness == ASSUME task' = task, reply' = reply PROVE Steady
BY DEF Steady, ReplyLen, Tail, HeadLen, AddrLen, Refused, Direct, Via, Authenticates, LetIn,
       Authentic, Granted, Agreed, RequestPort

LEMMA NextSteady == ASSUME [Next]_vars PROVE Steady
<1>1. task' = task /\ reply' = reply
  BY DEF Next, Call, Handshake, Start, Dial, HttpRequest, Fill, ReadStatus, ReadHeader, Greet,
         ReadMethod, WriteAuth, ReadAuth, Request, Associate, ReadReply, ReadNameLen, ReadTail,
         ReadFails, ReadFull, Write, Listen, Relisten, Arrive, ParentEnds, Expire, Close, vars
<1> QED BY <1>1, Steadiness

----------------------------------------------------------------------------
LEMMA InductiveInit == Init => IInv
<1> SUFFICES ASSUME Init PROVE IInv  OBVIOUS
<1>1. TypeOK
  <2>1. reply \in ReplyType  BY UpstreamAssumption DEF Init
  <2>2. reply.headers \in Nat /\ reply.len \in Byte  BY <2>1 DEF ReplyType
  <2>3. ReplyLen \in Nat  BY <2>2 DEF ReplyLen, AddrLen, Byte
  <2>4. Nothing.port \in TwoBytes  BY DEF Nothing, TwoBytes
  <2>5. arrived = 0 /\ 0 \in 0 .. ReplyLen + Tunnel  BY <2>3, UpstreamAssumption DEF Init
  <2>6. asked.port \in TwoBytes  BY <2>4 DEF Init
  <2>7. used \in Nat /\ took \in used .. arrived  BY DEF Init
  <2>8. task \in Tasks /\ reply \in Replies  BY DEF Init
  <2>9. /\ ended \in {"open", "eof", "reset"} /\ late \in BOOLEAN /\ armed \in BOOLEAN
        /\ relay \in {"none", "parent"}
        /\ conn \in {"none", "open", "closed"} /\ sock \in {"none", "open", "closed"}
    BY DEF Init
  <2>10. pc = "start" /\ result = "pending"  BY DEF Init
  <2> QED BY <2>5, <2>6, <2>7, <2>8, <2>9, <2>10 DEF TypeOK
<1>2. Route  BY DEF Init, Route, HttpSteps, SocksSteps
<1>3. Position  BY DEF Init, Position
<1>4. Consent  BY DEF Init, Consent
<1>5. Asking  BY DEF Init, Asking
<1>6. Held  BY DEF Init, Held, HttpSteps, SocksSteps
<1> QED BY <1>1, <1>2, <1>3, <1>4, <1>5, <1>6 DEF IInv

LEMMA Kinds ==
  ASSUME TypeOK
  PROVE  /\ task.op \in {"tcp", "udp"}
         /\ reply.bnd \in {"address", "wildcard", "loopback", "name"}
         /\ task.scheme \in {"", "bad", "sentinel", "http", "socks5", "other"}
<1>1. reply \in ReplyType /\ task \in TaskType
  BY UpstreamAssumption DEF TypeOK
<1> QED BY <1>1 DEF ReplyType, TaskType, Bound

LEMMA Cut == \A n \in Int : n % 65536 \in TwoBytes /\ (n \in TwoBytes => n % 65536 = n)
<1> TAKE n \in Int
<1>1. n % 65536 >= 0 /\ n % 65536 < 65536 /\ n % 65536 \in Int  OBVIOUS
<1>2. n % 65536 \in TwoBytes  BY <1>1 DEF TwoBytes
<1>3. ASSUME n \in TwoBytes PROVE n % 65536 = n
  <2>1. n >= 0 /\ n < 65536  BY <1>3 DEF TwoBytes
  <2> QED BY <2>1
<1> QED BY <1>2, <1>3

LEMMA Ports ==
  ASSUME TypeOK
  PROVE  RequestPort \in TwoBytes /\ (task.port \in TwoBytes => RequestPort = task.port)
BY Lengths, Cut DEF RequestPort

(* Where the parts of a SOCKS reply begin.                                 *)
LEMMA Layout ==
  ASSUME TypeOK
  PROVE  /\ HeadLen \in {2, 4} /\ (Authenticates => HeadLen = 4)
         /\ (reply.method = 0 => HeadLen = 2)
         /\ (reply.method = 2 => Authenticates)
         /\ reply.kind = "socks5" /\ reply.atyp = 3 => HeadLen + 4 + 1 + Tail = ReplyLen
         /\ reply.kind = "socks5" /\ reply.atyp # 3 => HeadLen + 4 + Tail = ReplyLen
<1>1. AddrLen \in Nat /\ HeadLen \in {2, 4}  BY Lengths
<1>2. HeadLen \in Nat  BY <1>1
<1>3. /\ reply.atyp = 3 => Tail = AddrLen + 1
      /\ reply.atyp # 3 => Tail = AddrLen + 2
      /\ reply.kind = "socks5" => ReplyLen = HeadLen + 4 + AddrLen + 2
  BY Lengths
<1>4. (reply.method = 0 => ~Authenticates)
      /\ (reply.method = 2 => Authenticates)  BY DEF Authenticates
<1> QED BY <1>1, <1>2, <1>3, <1>4, Lengths

LEMMA RouteStep == ASSUME IInv, [Next]_vars PROVE Route'
<1>1. Steady /\ Route /\ task.op \in {"tcp", "udp"}
      /\ task.scheme \in {"", "bad", "sentinel", "http", "socks5", "other"}
  BY NextSteady, Kinds DEF IInv
<1> USE <1>1 DEF Steady, Route, HttpSteps, SocksSteps, Via, Direct, Refused, Reading, sockets,
           network
<1>2. CASE Start  BY <1>2 DEF Start, Goto, Fail, Succeed, CloseConn
<1>3. CASE Dial  BY <1>3 DEF Dial, Fail, Succeed, CloseConn
<1>4. CASE HttpRequest  BY <1>4 DEF HttpRequest, Write, Arm, Fail, CloseConn
<1>5. CASE Fill  BY <1>5 DEF Fill, Have
<1>6. CASE ReadStatus  BY <1>6 DEF ReadStatus, NextLine, Goto, Fail, CloseConn
<1>7. CASE ReadHeader  BY <1>7 DEF ReadHeader, NextLine, Goto, Established, Disarm, Succeed
<1>8. CASE Greet  BY <1>8 DEF Greet, Write, Arm, Fail, CloseConn
<1>9. CASE ReadMethod  BY <1>9 DEF ReadMethod, ReadFull, Have, Need, Ask, Goto, Fail, CloseConn
<1>10. CASE WriteAuth  BY <1>10 DEF WriteAuth, Write, Arm, Fail, CloseConn
<1>11. CASE ReadAuth  BY <1>11 DEF ReadAuth, ReadFull, Have, Need, Ask, Goto, Fail, CloseConn
<1>12. CASE Request  BY <1>12 DEF Request, Write, Arm, Fail, CloseConn
<1>13. CASE Associate  BY <1>13 DEF Associate, Write, Arm, Fail, CloseConn
<1>14. CASE ReadReply  BY <1>14 DEF ReadReply, ReadFull, Have, Need, Goto, Fail, CloseConn
<1>15. CASE ReadNameLen  BY <1>15 DEF ReadNameLen, ReadFull, Have, Need, Goto, Panic, CloseConn
<1>16. CASE ReadTail
  BY <1>16 DEF ReadTail, ReadFull, Have, Need, Established, Disarm, Succeed, Fail, CloseConn
<1>17. CASE ReadFails  BY <1>17 DEF ReadFails, Fail, CloseConn
<1>18. CASE Listen  BY <1>18 DEF Listen, Fail, Succeed, CloseConn
<1>19. CASE Relisten  BY <1>19 DEF Relisten, RelistenFails, Succeed, CloseConn
<1>20. CASE Arrive  BY <1>20 DEF Arrive
<1>21. CASE ParentEnds  BY <1>21 DEF ParentEnds
<1>22. CASE Expire  BY <1>22 DEF Expire
<1>23. CASE Close  BY <1>23 DEF Close, CloseConn
<1>24. CASE UNCHANGED vars  BY <1>24 DEF vars
<1> QED BY <1>2, <1>3, <1>4, <1>5, <1>6, <1>7, <1>8, <1>9, <1>10, <1>11, <1>12, <1>13, <1>14,
           <1>15, <1>16, <1>17, <1>18, <1>19, <1>20, <1>21, <1>22, <1>23, <1>24 DEF Next,
           Call, Handshake

LEMMA HeldStep == ASSUME IInv, [Next]_vars PROVE Held'
<1>1. Steady /\ Route /\ Held /\ task.op \in {"tcp", "udp"}
  BY NextSteady, Kinds DEF IInv
<1> USE <1>1 DEF Steady, Route, Held, HttpSteps, SocksSteps, Via, Direct, Reading, sockets,
           network
<1>2. CASE Start  BY <1>2 DEF Start, Goto, Fail, Succeed, CloseConn
<1>3. CASE Dial  BY <1>3 DEF Dial, Fail, Succeed, CloseConn
<1>4. CASE HttpRequest  BY <1>4 DEF HttpRequest, Write, Arm, Fail, CloseConn
<1>5. CASE Fill  BY <1>5 DEF Fill, Have
<1>6. CASE ReadStatus  BY <1>6 DEF ReadStatus, NextLine, Goto, Fail, CloseConn
<1>7. CASE ReadHeader  BY <1>7 DEF ReadHeader, NextLine, Goto, Established, Disarm, Succeed
<1>8. CASE Greet  BY <1>8 DEF Greet, Write, Arm, Fail, CloseConn
<1>9. CASE ReadMethod  BY <1>9 DEF ReadMethod, ReadFull, Have, Need, Ask, Goto, Fail, CloseConn
<1>10. CASE WriteAuth  BY <1>10 DEF WriteAuth, Write, Arm, Fail, CloseConn
<1>11. CASE ReadAuth  BY <1>11 DEF ReadAuth, ReadFull, Have, Need, Ask, Goto, Fail, CloseConn
<1>12. CASE Request  BY <1>12 DEF Request, Write, Arm, Fail, CloseConn
<1>13. CASE Associate  BY <1>13 DEF Associate, Write, Arm, Fail, CloseConn
<1>14. CASE ReadReply  BY <1>14 DEF ReadReply, ReadFull, Have, Need, Goto, Fail, CloseConn
<1>15. CASE ReadNameLen  BY <1>15 DEF ReadNameLen, ReadFull, Have, Need, Goto, Panic, CloseConn
<1>16. CASE ReadTail
  BY <1>16 DEF ReadTail, ReadFull, Have, Need, Established, Disarm, Succeed, Fail, CloseConn
<1>17. CASE ReadFails  BY <1>17 DEF ReadFails, Fail, CloseConn
<1>18. CASE Listen  BY <1>18 DEF Listen, Fail, Succeed, CloseConn
<1>19. CASE Relisten  BY <1>19 DEF Relisten, RelistenFails, Succeed, CloseConn
<1>20. CASE Arrive  BY <1>20 DEF Arrive
<1>21. CASE ParentEnds  BY <1>21 DEF ParentEnds
<1>22. CASE Expire  BY <1>22 DEF Expire
<1>23. CASE Close  BY <1>23 DEF Close, CloseConn
<1>24. CASE UNCHANGED vars  BY <1>24 DEF vars
<1> QED BY <1>2, <1>3, <1>4, <1>5, <1>6, <1>7, <1>8, <1>9, <1>10, <1>11, <1>12, <1>13, <1>14,
           <1>15, <1>16, <1>17, <1>18, <1>19, <1>20, <1>21, <1>22, <1>23, <1>24 DEF Next,
           Call, Handshake

LEMMA ConsentStep == ASSUME IInv, [Next]_vars PROVE Consent'
<1>1. Steady /\ Route /\ Consent
  BY NextSteady, Kinds DEF IInv
<1> USE <1>1 DEF Steady, Route, Consent, Authentic, LetIn, Agreed, Granted, Authenticates,
           HttpSteps, SocksSteps, Via, Reading, sockets, network
<1>2. CASE Start  BY <1>2 DEF Start, Goto, Fail, Succeed, CloseConn
<1>3. CASE Dial  BY <1>3 DEF Dial, Fail, Succeed, CloseConn
<1>4. CASE HttpRequest  BY <1>4 DEF HttpRequest, Write, Arm, Fail, CloseConn
<1>5. CASE Fill  BY <1>5 DEF Fill, Have
<1>6. CASE ReadStatus  BY <1>6 DEF ReadStatus, NextLine, Goto, Fail, CloseConn
<1>7. CASE ReadHeader  BY <1>7 DEF ReadHeader, NextLine, Goto, Established, Disarm, Succeed
<1>8. CASE Greet  BY <1>8 DEF Greet, Write, Arm, Fail, CloseConn
<1>9. CASE ReadMethod  BY <1>9 DEF ReadMethod, ReadFull, Have, Need, Ask, Goto, Fail, CloseConn
<1>10. CASE WriteAuth  BY <1>10 DEF WriteAuth, Write, Arm, Fail, CloseConn
<1>11. CASE ReadAuth  BY <1>11 DEF ReadAuth, ReadFull, Have, Need, Ask, Goto, Fail, CloseConn
<1>12. CASE Request  BY <1>12 DEF Request, Write, Arm, Fail, CloseConn
<1>13. CASE Associate  BY <1>13 DEF Associate, Write, Arm, Fail, CloseConn
<1>14. CASE ReadReply  BY <1>14 DEF ReadReply, ReadFull, Have, Need, Goto, Fail, CloseConn
<1>15. CASE ReadNameLen  BY <1>15 DEF ReadNameLen, ReadFull, Have, Need, Goto, Panic, CloseConn
<1>16. CASE ReadTail
  BY <1>16 DEF ReadTail, RelayAddr, ReadFull, Have, Need, Established, Disarm, Succeed, Fail,
         CloseConn
<1>17. CASE ReadFails  BY <1>17 DEF ReadFails, Fail, CloseConn
<1>18. CASE Listen  BY <1>18 DEF Listen, Fail, Succeed, CloseConn
<1>19. CASE Relisten  BY <1>19 DEF Relisten, RelistenFails, Succeed, CloseConn
<1>20. CASE Arrive  BY <1>20 DEF Arrive
<1>21. CASE ParentEnds  BY <1>21 DEF ParentEnds
<1>22. CASE Expire  BY <1>22 DEF Expire
<1>23. CASE Close  BY <1>23 DEF Close, CloseConn
<1>24. CASE UNCHANGED vars  BY <1>24 DEF vars
<1> QED BY <1>2, <1>3, <1>4, <1>5, <1>6, <1>7, <1>8, <1>9, <1>10, <1>11, <1>12, <1>13, <1>14,
           <1>15, <1>16, <1>17, <1>18, <1>19, <1>20, <1>21, <1>22, <1>23, <1>24 DEF Next,
           Call, Handshake

LEMMA AskingStep == ASSUME IInv, [Next]_vars PROVE Asking'
<1>1. Steady /\ Route /\ Asking /\ Consent /\ task.op \in {"tcp", "udp"} /\ task.port \in Int
      /\ reply.bnd \in {"address", "wildcard", "loopback", "name"}
      /\ (task.port \in TwoBytes => RequestPort = task.port)
  BY NextSteady, Kinds, Lengths, Ports DEF IInv
<1> USE <1>1 DEF Steady, Route, Asking, Wanted, Reachable, HttpSteps, SocksSteps, Via,
           Reading, sockets, network
<1>2. CASE Start  BY <1>2 DEF Start, Goto, Fail, Succeed, CloseConn
<1>3. CASE Dial  BY <1>3 DEF Dial, Fail, Succeed, CloseConn
<1>4. CASE HttpRequest  BY <1>4 DEF HttpRequest, Write, Arm, Fail, CloseConn
<1>5. CASE Fill  BY <1>5 DEF Fill, Have
<1>6. CASE ReadStatus  BY <1>6 DEF ReadStatus, NextLine, Goto, Fail, CloseConn
<1>7. CASE ReadHeader  BY <1>7 DEF ReadHeader, NextLine, Goto, Established, Disarm, Succeed
<1>8. CASE Greet  BY <1>8 DEF Greet, Write, Arm, Fail, CloseConn
<1>9. CASE ReadMethod  BY <1>9 DEF ReadMethod, ReadFull, Have, Need, Ask, Goto, Fail, CloseConn
<1>10. CASE WriteAuth  BY <1>10 DEF WriteAuth, Write, Arm, Fail, CloseConn
<1>11. CASE ReadAuth  BY <1>11 DEF ReadAuth, ReadFull, Have, Need, Ask, Goto, Fail, CloseConn
<1>12. CASE Request  BY <1>12 DEF Request, Write, Arm, Fail, CloseConn
<1>13. CASE Associate  BY <1>13 DEF Associate, Write, Arm, Fail, CloseConn
<1>14. CASE ReadReply  BY <1>14 DEF ReadReply, ReadFull, Have, Need, Goto, Fail, CloseConn
<1>15. CASE ReadNameLen  BY <1>15 DEF ReadNameLen, ReadFull, Have, Need, Goto, Panic, CloseConn
<1>16. CASE ReadTail
  BY <1>16 DEF ReadTail, RelayAddr, ReadFull, Have, Need, Established, Disarm, Succeed, Fail,
         CloseConn
<1>17. CASE ReadFails  BY <1>17 DEF ReadFails, Fail, CloseConn
<1>18. CASE Listen  BY <1>18 DEF Listen, Fail, Succeed, CloseConn
<1>19. CASE Relisten  BY <1>19 DEF Relisten, RelistenFails, Succeed, CloseConn
<1>20. CASE Arrive  BY <1>20 DEF Arrive
<1>21. CASE ParentEnds  BY <1>21 DEF ParentEnds
<1>22. CASE Expire  BY <1>22 DEF Expire
<1>23. CASE Close  BY <1>23 DEF Close, CloseConn
<1>24. CASE UNCHANGED vars  BY <1>24 DEF vars
<1> QED BY <1>2, <1>3, <1>4, <1>5, <1>6, <1>7, <1>8, <1>9, <1>10, <1>11, <1>12, <1>13, <1>14,
           <1>15, <1>16, <1>17, <1>18, <1>19, <1>20, <1>21, <1>22, <1>23, <1>24 DEF Next,
           Call, Handshake

LEMMA PositionStep == ASSUME IInv, [Next]_vars PROVE Position'
<1>1. Steady /\ Route /\ Position /\ Consent
  BY NextSteady, Lengths DEF IInv
<1> USE <1>1 DEF Steady, Route, Position, Consent, Granted, HttpSteps, SocksSteps, Via,
           Direct, Refused, Reading, sockets, network
<1>1a. /\ used \in Nat /\ reply.headers \in Nat /\ Tail \in Nat /\ ReplyLen \in Nat
       /\ reply.kind = "none" => ReplyLen = 0
       /\ reply.kind = "http" => ReplyLen = reply.headers + 2
  BY Lengths DEF IInv, TypeOK
<1> USE <1>1a, Layout DEF IInv
<1>2. CASE Start  BY <1>2 DEF Start, Goto, Fail, Succeed, CloseConn
<1>3. CASE Dial  BY <1>3 DEF Dial, Fail, Succeed, CloseConn
<1>4. CASE HttpRequest  BY <1>4 DEF HttpRequest, Write, Arm, Fail, CloseConn
<1>5. CASE Fill  BY <1>5 DEF Fill, Have
<1>6. CASE ReadStatus  BY <1>6 DEF ReadStatus, NextLine, Goto, Fail, CloseConn
<1>7. CASE ReadHeader  BY <1>7 DEF ReadHeader, NextLine, Goto, Established, Disarm, Succeed
<1>8. CASE Greet  BY <1>8 DEF Greet, Write, Arm, Fail, CloseConn
<1>9. CASE ReadMethod  BY <1>9 DEF ReadMethod, ReadFull, Have, Need, Ask, Goto, Fail, CloseConn
<1>10. CASE WriteAuth  BY <1>10 DEF WriteAuth, Write, Arm, Fail, CloseConn
<1>11. CASE ReadAuth  BY <1>11 DEF ReadAuth, ReadFull, Have, Need, Ask, Goto, Fail, CloseConn
<1>12. CASE Request
  <2>1. used' = used /\ took' = took /\ pc = "request"  BY <1>12 DEF Request, Write
  <2>2. \/ pc' = "reply" /\ result' = result
        \/ pc' = "done" /\ result' = "failed"
    BY <1>12 DEF Request, Write, Fail
  <2> QED BY <2>1, <2>2
<1>13. CASE Associate  BY <1>13 DEF Associate, Write, Arm, Fail, CloseConn
<1>14. CASE ReadReply  BY <1>14 DEF ReadReply, ReadFull, Have, Need, Goto, Fail, CloseConn
<1>15. CASE ReadNameLen  BY <1>15 DEF ReadNameLen, ReadFull, Have, Need, Goto, Panic, CloseConn
<1>16. CASE ReadTail
  BY <1>16 DEF ReadTail, RelayAddr, ReadFull, Have, Need, Established, Disarm, Succeed, Fail,
         CloseConn
<1>17. CASE ReadFails  BY <1>17 DEF ReadFails, Fail, CloseConn
<1>18. CASE Listen  BY <1>18 DEF Listen, Fail, Succeed, CloseConn
<1>19. CASE Relisten  BY <1>19 DEF Relisten, RelistenFails, Succeed, CloseConn
<1>20. CASE Arrive  BY <1>20 DEF Arrive
<1>21. CASE ParentEnds  BY <1>21 DEF ParentEnds
<1>22. CASE Expire  BY <1>22 DEF Expire
<1>23. CASE Close  BY <1>23 DEF Close, CloseConn
<1>24. CASE UNCHANGED vars  BY <1>24 DEF vars
<1> QED BY <1>2, <1>3, <1>4, <1>5, <1>6, <1>7, <1>8, <1>9, <1>10, <1>11, <1>12, <1>13, <1>14,
           <1>15, <1>16, <1>17, <1>18, <1>19, <1>20, <1>21, <1>22, <1>23, <1>24 DEF Next,
           Call, Handshake

Counters == used \in Nat /\ took \in used .. arrived /\ arrived \in 0 .. ReplyLen + Tunnel

LEMMA CountersStep == ASSUME IInv, [Next]_vars PROVE Counters'
<1>1. Counters /\ ReplyLen' = ReplyLen /\ ReplyLen \in Nat /\ Tunnel \in Nat /\ Tail \in Nat
  BY NextSteady, Lengths, UpstreamAssumption DEF IInv, TypeOK, Counters, Steady
<1>2. Need \in Nat  BY <1>1 DEF Need
<1>3. CASE used' = used /\ took' = took /\ arrived' = arrived  BY <1>1, <1>3 DEF Counters
<1>4. CASE Arrive
  <2>1. used' = used /\ took' = took /\ arrived' = arrived + 1 /\ arrived < ReplyLen + Tunnel
    BY <1>4 DEF Arrive
  <2> QED BY <1>1, <2>1 DEF Counters
<1>5. CASE Fill
  <2>1. used' = used /\ took' = arrived /\ arrived' = arrived  BY <1>5 DEF Fill, network
  <2> QED BY <1>1, <2>1 DEF Counters
<1>6. CASE arrived' = arrived /\ took' = took /\ used < took /\ used' = used + 1
  BY <1>1, <1>6 DEF Counters
<1>7. CASE /\ arrived' = arrived /\ arrived - took >= Need
           /\ took' = took + Need /\ used' = used + Need
  BY <1>1, <1>2, <1>7 DEF Counters
<1>8. CASE ReadStatus \/ ReadHeader  BY <1>6, <1>8 DEF ReadStatus, ReadHeader, NextLine, network
<1>9. CASE ReadMethod \/ ReadAuth \/ ReadReply \/ ReadNameLen \/ ReadTail
  <2>1. arrived' = arrived /\ arrived - took >= Need /\ took' = took + Need /\ used' = used + Need
    BY <1>9 DEF ReadMethod, ReadAuth, ReadReply, ReadNameLen, ReadTail, ReadFull, Have, network
  <2> QED BY <1>7, <2>1
<1>10. \/ used' = used /\ took' = took /\ arrived' = arrived
       \/ Arrive \/ Fill \/ ReadStatus \/ ReadHeader
       \/ ReadMethod \/ ReadAuth \/ ReadReply \/ ReadNameLen \/ ReadTail
  BY DEF Next, Call, Handshake, Start, Dial, HttpRequest, Greet, WriteAuth, Request, Associate,
         ReadFails, Write, Listen, Relisten, ParentEnds, Expire, Close, vars, network
<1> QED BY <1>3, <1>4, <1>5, <1>8, <1>9, <1>10

(* The rest of the type invariant has no arithmetic.                       *)
Shape ==
  /\ ended \in {"open", "eof", "reset"} /\ late \in BOOLEAN /\ armed \in BOOLEAN
  /\ pc \in Reading \cup {"start", "dial", "connect", "greet", "auth", "request",
                         "associate", "listen", "relisten", "done"}
  /\ conn \in {"none", "open", "closed"} /\ sock \in {"none", "open", "closed"}
  /\ asked.port \in TwoBytes \/ Via("http")
  /\ relay \in {"none", "parent"} \cup Bound
  /\ result \in {"pending", "ok", "failed", "panic", "closed"}

LEMMA ShapeStep == ASSUME IInv, [Next]_vars PROVE Shape'
<1>1. Steady /\ Shape /\ reply.bnd \in Bound
  BY NextSteady, Kinds DEF IInv, TypeOK, Shape, Bound
<1>1b. RequestPort \in TwoBytes  BY Ports DEF IInv
<1>1c. 0 \in TwoBytes  BY DEF TwoBytes
<1>1d. RelayAddr \in {"none", "parent"} \cup Bound  BY <1>1 DEF RelayAddr
<1>1e. pc = "connect" => Via("http")  BY DEF IInv, Route, HttpSteps
<1> USE <1>1, <1>1b, <1>1c, <1>1d, <1>1e DEF Shape, Steady, Reading, Via, sockets, network
<1>2. CASE Start  BY <1>2 DEF Start, Goto, Fail, Succeed, CloseConn
<1>3. CASE Dial  BY <1>3 DEF Dial, Fail, Succeed, CloseConn
<1>4. CASE HttpRequest  BY <1>4 DEF HttpRequest, Write, Arm, Fail, CloseConn
<1>5. CASE Fill  BY <1>5 DEF Fill, Have
<1>6. CASE ReadStatus  BY <1>6 DEF ReadStatus, NextLine, Goto, Fail, CloseConn
<1>7. CASE ReadHeader
  BY <1>7 DEF ReadHeader, NextLine, Goto, Established, Disarm, Succeed
<1>8. CASE Greet  BY <1>8 DEF Greet, Write, Arm, Fail, CloseConn
<1>9. CASE ReadMethod  BY <1>9 DEF ReadMethod, ReadFull, Ask, Goto, Fail, CloseConn
<1>10. CASE WriteAuth  BY <1>10 DEF WriteAuth, Write, Arm, Fail, CloseConn
<1>11. CASE ReadAuth  BY <1>11 DEF ReadAuth, ReadFull, Ask, Goto, Fail, CloseConn
<1>12. CASE Request
  <2>1. asked'.port \in TwoBytes \/ task.scheme = "http"  BY <1>12 DEF Request, Write
  <2>2. /\ relay' = relay /\ sock' = sock /\ ended' = ended /\ late' = late
        /\ pc' \in {"reply", "done"} /\ result' \in {result, "failed"} /\ armed' \in BOOLEAN
        /\ conn' \in {conn, "closed"}
    BY <1>12 DEF Request, Write, Fail, CloseConn, Arm
  <2> QED BY <2>1, <2>2
<1>13. CASE Associate
  <2>1. asked'.port \in TwoBytes \/ task.scheme = "http"
    <3>1. asked' = asked \/ asked'.port = 0  BY <1>13 DEF Associate, Write
    <3> QED BY <3>1
  <2>2. /\ relay' = relay /\ sock' = sock /\ ended' = ended /\ late' = late
        /\ pc' \in {"reply", "done"} /\ result' \in {result, "failed"} /\ armed' \in BOOLEAN
        /\ conn' \in {conn, "closed"}
    BY <1>13 DEF Associate, Write, Fail, CloseConn, Arm
  <2> QED BY <2>1, <2>2
<1>14. CASE ReadReply  BY <1>14 DEF ReadReply, ReadFull, Goto, Fail, CloseConn
<1>15. CASE ReadNameLen  BY <1>15 DEF ReadNameLen, ReadFull, Goto, Panic, CloseConn
<1>16. CASE ReadTail
  <2>1. /\ pc' \in {"done", "listen"} /\ result' \in {result, "ok", "failed"}
        /\ armed' \in BOOLEAN /\ conn' \in {conn, "closed"} /\ sock' = sock
        /\ relay' \in {relay, RelayAddr} /\ asked' = asked /\ ended' = ended /\ late' = late
    BY <1>16 DEF ReadTail, ReadFull, Established, Disarm, Succeed, Fail, CloseConn
  <2> QED BY <2>1
<1>17. CASE ReadFails  BY <1>17 DEF ReadFails, Fail, CloseConn
<1>18. CASE Listen  BY <1>18 DEF Listen, Fail, Succeed, CloseConn
<1>19. CASE Relisten  BY <1>19 DEF Relisten, RelistenFails, Succeed, CloseConn
<1>20. CASE Arrive  BY <1>20 DEF Arrive
<1>21. CASE ParentEnds  BY <1>21 DEF ParentEnds
<1>22. CASE Expire  BY <1>22 DEF Expire
<1>23. CASE Close  BY <1>23 DEF Close, CloseConn
<1>24. CASE UNCHANGED vars  BY <1>24 DEF vars
<1> QED BY <1>2, <1>3, <1>4, <1>5, <1>6, <1>7, <1>8, <1>9, <1>10, <1>11, <1>12, <1>13, <1>14,
           <1>15, <1>16, <1>17, <1>18, <1>19, <1>20, <1>21, <1>22, <1>23, <1>24 DEF Next,
           Call, Handshake

LEMMA TypeStep == ASSUME IInv, [Next]_vars PROVE TypeOK'
<1>1. Counters' /\ Shape' /\ Steady  BY CountersStep, ShapeStep, NextSteady
<1>2. task \in Tasks /\ reply \in Replies  BY DEF IInv, TypeOK
<1> QED BY <1>1, <1>2 DEF Counters, Shape, TypeOK, Steady

LEMMA InductiveStep == IInv /\ [Next]_vars => IInv'
<1> SUFFICES ASSUME IInv, [Next]_vars PROVE IInv'  OBVIOUS
<1>1. TypeOK' /\ Route' /\ Position'  BY TypeStep, RouteStep, PositionStep
<1>2. Consent' /\ Asking' /\ Held'  BY ConsentStep, AskingStep, HeldStep
<1> QED BY <1>1, <1>2 DEF IInv

LEMMA Inductive == Spec => []IInv
BY InductiveInit, InductiveStep, PTL DEF Spec

----------------------------------------------------------------------------
(* A call's state is well typed, for any calls, parents and early bytes of *)
(* a tunnel; a port asked of a SOCKS parent fits two bytes.                *)
THEOREM DialTypeCorrect == Spec => []TypeOK
<1>1. IInv => TypeOK  BY DEF IInv
<1> QED BY Inductive, <1>1, PTL

(* The tunnel starts where the parent's reply ends, for every reply.       *)
THEOREM TunnelIsIntact == Spec => []TunnelIntact
<1>1. IInv => TunnelIntact  BY DEF IInv, Position, TunnelIntact
<1> QED BY Inductive, <1>1, PTL

(* A success is what the caller takes it for, for every call and parent.   *)
THEOREM SuccessMeansIt == Spec => []SuccessIsMeant
<1>1. IInv => SuccessIsMeant  BY DEF IInv, Consent, Asking, SuccessIsMeant
<1> QED BY Inductive, <1>1, PTL

(* Only a bound name of 255 bytes ends the process, whatever a parent sends. *)
THEOREM OnlyLongNamesPanic == Spec => []Survives
<1>1. Init => Survives  BY DEF Init, Survives
<1>2. ASSUME IInv, Survives, [Next]_vars PROVE Survives'
  <2>1. Steady /\ Consent  BY <1>2, NextSteady DEF IInv
  <2>2. ASSUME ReadNameLen PROVE Survives'
    <3>1. pc = "nameLen" /\ (Tail > BufLen \/ result' = result)
      BY <2>2 DEF ReadNameLen, ReadFull, Goto
    <3>2. reply.atyp = 3 /\ reply.len \in Byte  BY <1>2, <2>1, <3>1, Lengths DEF IInv, Consent
    <3>3. Tail > BufLen => reply.len = 255  BY <3>2 DEF Tail, AddrLen, BufLen, Byte
    <3> QED BY <1>2, <2>1, <3>1, <3>2, <3>3 DEF Survives, Steady
  <2>3. ReadNameLen \/ result' = result \/ result' # "panic"
    BY <1>2 DEF Next, Call, Handshake, Start, Dial, HttpRequest, Fill, ReadStatus, ReadHeader,
          Greet,
         ReadMethod, WriteAuth, ReadAuth, Request, Associate, ReadReply, ReadTail, ReadFails,
               ReadFull,
         Write, Listen, Relisten, RelistenFails, Arrive, ParentEnds, Expire, Close, vars,
         Goto, Fail, Succeed, Established, Ask, NextLine
  <2> QED BY <1>2, <2>1, <2>2, <2>3 DEF Survives, Steady
<1> QED BY <1>1, <1>2, Inductive, PTL DEF Spec

----------------------------------------------------------------------------
(* Every step of the handshake is a step of the contract or none: nothing  *)
(* stays open after a failure, and a success hands over what it is for.    *)
LEMMA ContractInit == Init => Contract!Init
<1> SUFFICES ASSUME Init PROVE Contract!Init  OBVIOUS
<1>1. Wants \in SUBSET {"conn", "sock"}  BY DEF Wants
<1> QED BY <1>1 DEF Init, Contract!Init, Outcome, Returned

(* A call that has returned is only touched by its caller's Close.         *)
LEMMA Settled ==
  ASSUME IInv, [Next]_vars, result # "pending"
  PROVE  \/ result' = result /\ conn' = conn /\ sock' = sock /\ armed' = armed
         \/ result = "ok" /\ result' = "closed"
<1>1. pc = "done"  BY DEF IInv, Route
<1>2. ~Call
  BY <1>1 DEF Call, Handshake, Start, Dial, HttpRequest, Fill, ReadStatus, ReadHeader, Greet,
         ReadMethod, WriteAuth, ReadAuth, Request, Associate, ReadReply, ReadNameLen, ReadTail,
         ReadFails, Reading, ReadFull, Write, NextLine, Listen, Relisten
<1> QED BY <1>2 DEF Next, Arrive, ParentEnds, Expire, Close, vars, sockets

LEMMA ContractStep ==
  ASSUME IInv, IInv', [Next]_vars PROVE [Contract!Next]_(Contract!vars)
<1>1. Wants' = Wants /\ task' = task /\ Direct' = Direct
  BY NextSteady DEF Steady, Wants
<1>2. Held /\ Held' /\ Route /\ TypeOK'  BY DEF IInv
<1>3. CASE result = "pending" /\ result' = "pending"
  BY <1>1, <1>3 DEF Contract!vars, Outcome, Returned
<1>4. CASE result = "pending" /\ result' = "ok"
  <2>1. Open' = Wants
    <3>1. /\ conn' = "open" <=> ~(Direct /\ task.op = "udp")
          /\ sock' = "open" <=> ~Direct /\ task.op = "udp"
      BY <1>1, <1>2, <1>4 DEF Held
    <3>2. task.op \in {"tcp", "udp"}  BY Kinds DEF IInv
    <3> QED BY <3>1, <3>2 DEF Open, Wants
  <2>2. armed' = FALSE  BY <1>2, <1>4 DEF Held
  <2> QED BY <1>1, <1>4, <2>1, <2>2 DEF Contract!Next, Contract!Succeed, Outcome, Returned
<1>5. CASE result = "pending" /\ result' \in {"failed", "panic"}
  <2>1. Open' = {}  BY <1>2, <1>5 DEF Open, Held
  <2> QED BY <1>1, <1>5, <2>1 DEF Contract!Next, Contract!Fail, Outcome, Returned
<1>6. CASE result # "pending"
  <2>1. CASE result' = result /\ conn' = conn /\ sock' = sock /\ armed' = armed
    BY <1>1, <2>1 DEF Contract!vars, Outcome, Returned, Open
  <2>2. CASE result = "ok" /\ result' = "closed"
    <3>1. Open' = {} /\ armed = FALSE  BY <1>2, <2>2 DEF Open, Held
    <3> QED BY <1>1, <2>2, <3>1 DEF Contract!Next, Contract!Close, Outcome, Returned
  <2> QED BY <1>6, <2>1, <2>2, Settled
<1>7. result = "pending" => result' # "closed"
  BY DEF Next, Call, Handshake, Start, Dial, HttpRequest, Fill, ReadStatus, ReadHeader, Greet,
         ReadMethod, WriteAuth, ReadAuth, Request, Associate, ReadReply, ReadNameLen, ReadTail,
         ReadFails, ReadFull, Write, Listen, Relisten, RelistenFails, Arrive, ParentEnds,
               Expire,
         Close, vars, Goto, Fail, Panic, Succeed, Established, Ask, NextLine
<1> QED BY <1>2, <1>3, <1>4, <1>5, <1>6, <1>7 DEF TypeOK

(* DialTCP and OpenUDP keep their contract, but for its promise to return, *)
(* which depends on fairness.                                              *)
THEOREM DialKeepsContract == Spec => Contract!Init /\ [][Contract!Next]_(Contract!vars)
<1>1. IInv /\ IInv' /\ [Next]_vars => [Contract!Next]_(Contract!vars)  BY ContractStep
<1> QED BY ContractInit, <1>1, Inductive, PTL DEF Spec
=============================================================================
