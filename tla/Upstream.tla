------------------------------- MODULE Upstream -------------------------------
(***************************************************************************)
(* One call of Dialer.DialTCP or Dialer.OpenUDP: dial the target, or dial  *)
(* a parent and ask it, by HTTP CONNECT, SOCKS5 CONNECT or SOCKS5 UDP      *)
(* ASSOCIATE.  The parent's bytes arrive one by one, at any time, and what *)
(* follows its reply belongs to the tunnel.  The content of a reply is a   *)
(* record, its length is counted in bytes (in lines for HTTP), so a step   *)
(* that takes too much or too little is seen.  The parent may refuse,      *)
(* stall, end or reset its stream; the context of the call expires.        *)
(***************************************************************************)
EXTENDS Integers

CONSTANTS Tasks,   \* calls: [op, scheme, creds, outgoing, host, len, port, parses]
          Replies, \* parents: [kind, says200, headers, hello, method, auth, ver, rep, atyp, len, bnd]
          Tunnel   \* bound on what a parent sends beyond its reply

(* The handshake's buffer.                                                 *)
BufLenMutant == 255  \* one byte short
BufLen == 256

(* scheme is what normalizeProxyURL, url.Parse and sentinelProxyHostname   *)
(* make of the parent's URL; parses is whether the target is a host and a  *)
(* number.                                                                 *)
TaskType == [op : {"tcp", "udp"},
             scheme : {"", "bad", "sentinel", "http", "socks5", "other"},
             creds : {"none", "short", "long"}, outgoing : BOOLEAN,
             host : {"v4", "v6", "name"}, len : Nat, port : Int, parses : BOOLEAN]
Byte == 0 .. 255
TwoBytes == 0 .. 65535
Bound == {"address", "wildcard", "loopback", "name"}
ReplyType == [kind : {"none", "http", "socks5"}, says200 : BOOLEAN, headers : Nat,
              hello : Byte, method : Byte, auth : Byte, ver : Byte, rep : Byte,
              atyp : Byte, len : Byte, bnd : Bound]

ASSUME UpstreamAssumption ==
  Tasks \subseteq TaskType /\ Replies \subseteq ReplyType /\ Tunnel \in Nat

VARIABLES
  task, reply,         \* the call; the parent it meets
  arrived, ended,      \* units the parent sent; its stream: open, eof or reset
  took, used,          \* units read from the connection; of these, looked at
  pc, late,            \* next step; the context's deadline has passed
  conn, sock, armed,   \* the TCP connection, the UDP socket; a deadline is set
  asked,               \* what the parent was asked for
  relay,               \* address UDP is relayed through
  result               \* pending, ok, failed, panic

network == <<arrived, ended, late>>
sockets == <<conn, sock, armed>>
vars == <<task, reply, network, took, used, pc, sockets, asked, relay, result>>

Nothing == [host |-> "none", port |-> 0]
Via(scheme) == task.scheme = scheme
Direct == Via("")

Init ==
  /\ task \in Tasks
  /\ reply \in {r \in Replies : r.kind = (IF task.scheme \in {"http", "socks5"}
                                          THEN task.scheme ELSE "none")}
  /\ arrived = 0 /\ ended = "open" /\ took = 0 /\ used = 0 /\ pc = "start" /\ late = FALSE
  /\ conn = "none" /\ sock = "none" /\ armed = FALSE
  /\ asked = Nothing /\ relay = "none" /\ result = "pending"

----------------------------------------------------------------------------
(* The parent and the clock.  ReplyLen is where a reply ends and the       *)
(* tunnel begins.                                                          *)
Authenticates == reply.method = 2
AddrLen == CASE reply.atyp = 1 -> 4 [] reply.atyp = 4 -> 16 [] OTHER -> 1 + reply.len
ReplyLen == CASE reply.kind = "none" -> 0
              [] reply.kind = "http" -> 1 + reply.headers + 1
              [] OTHER -> 2 + (IF Authenticates THEN 2 ELSE 0) + 4 + AddrLen + 2

Arrive ==
  /\ conn = "open" /\ ended = "open" /\ arrived < ReplyLen + Tunnel
  /\ arrived' = arrived + 1
  /\ UNCHANGED <<task, reply, ended, late, took, used, pc, sockets, asked, relay, result>>

ParentEnds ==
  /\ conn = "open" /\ ended = "open" /\ \E how \in {"eof", "reset"} : ended' = how
  /\ UNCHANGED <<task, reply, arrived, late, took, used, pc, sockets, asked, relay, result>>

Expire ==
  /\ pc # "done" /\ ~late /\ late' = TRUE
  /\ UNCHANGED <<task, reply, arrived, ended, took, used, pc, sockets, asked, relay, result>>

----------------------------------------------------------------------------
(* Ways out of the call.                                                   *)
Goto(l) == pc' = l /\ UNCHANGED <<sockets, relay, result>>

CloseConn == conn' = IF conn = "open" THEN "closed" ELSE conn
Fail == /\ pc' = "done" /\ result' = "failed"
        /\ CloseConn /\ UNCHANGED <<sock, armed, relay>>

Succeed == pc' = "done" /\ result' = "ok"

(* Slicing the buffer beyond its end ends the process, sockets included.   *)
Panic == /\ pc' = "done" /\ result' = "panic"
         /\ CloseConn /\ UNCHANGED <<sock, armed, relay>>

----------------------------------------------------------------------------
(* Which way to go, and the connection.                                    *)
Refused == \/ task.scheme \in {"bad", "sentinel", "other"}
           \/ task.op = "udp" /\ Via("http")

Start ==
  /\ pc = "start"
  /\ \/ Refused /\ Fail
     \/ Direct /\ task.op = "udp" /\ Succeed /\ UNCHANGED <<sockets, relay>>
     \/ ~Refused /\ ~(Direct /\ task.op = "udp") /\ Goto("dial")
  /\ UNCHANGED <<task, reply, network, took, used, asked>>

Dial ==
  /\ pc = "dial"
  /\ \/ Fail
     \/ /\ ~late /\ conn' = "open" /\ UNCHANGED <<sock, armed, relay>>
        /\ IF Direct THEN Succeed
           ELSE pc' = (IF Via("http") THEN "connect" ELSE "greet") /\ UNCHANGED result
  /\ UNCHANGED <<task, reply, network, took, used, asked>>

----------------------------------------------------------------------------
(* Reads and writes on the connection, under its deadline.                 *)
Arm == armed' = TRUE
TimedOut == late /\ armed

Reading == {"status", "headers", "method", "authReply", "reply", "nameLen", "tail"}
Have(k) == ended # "reset" /\ ~TimedOut /\ arrived - took >= k

(* Bytes, or lines, the read at hand needs.                                *)
TailMutant == IF reply.atyp = 3 THEN reply.len + 2 ELSE 4 + 2  \* every address is IPv4
Tail == AddrLen + 2 - (IF reply.atyp = 3 THEN 1 ELSE 0)
Need == CASE pc \in {"method", "authReply"} -> 2
          [] pc = "reply" -> 4
          [] pc = "tail" -> Tail
          [] OTHER -> 1

ReadFails ==
  /\ pc \in Reading /\ used = took
  /\ TimedOut \/ ended = "reset" \/ (ended = "eof" /\ arrived - took < Need)
  /\ Fail /\ UNCHANGED <<task, reply, network, took, used, asked>>

(* io.ReadFull of what is needed, and then the outcome.                    *)
ReadFull(l, Outcome) ==
  /\ pc = l /\ Have(Need) /\ took' = took + Need /\ used' = used + Need
  /\ Outcome /\ UNCHANGED <<task, reply, network, asked>>

(* A Write that sets the deadline first; it can fail once the parent has   *)
(* ended its stream or the deadline has passed.                            *)
Write(l, next, what) ==
  /\ pc = l
  /\ \/ (late \/ ended # "open") /\ Fail /\ UNCHANGED asked
     \/ /\ Arm /\ ~(late /\ armed') /\ ended # "reset" /\ asked' = what
        /\ pc' = next /\ UNCHANGED <<conn, sock, relay, result>>
  /\ UNCHANGED <<task, reply, network, took, used>>

----------------------------------------------------------------------------
(* httpConnect.  Its bufio.Reader takes in whatever has arrived, lines are *)
(* read from there, and what is left in it is dropped with it.             *)
HttpRequest == Write("connect", "status", [host |-> task.host, port |-> task.port])

Fill ==
  /\ pc \in {"status", "headers"} /\ used = took /\ Have(1) /\ took' = arrived
  /\ UNCHANGED <<task, reply, network, used, pc, sockets, asked, relay, result>>

NextLine(l) == pc = l /\ used < took /\ used' = used + 1
ReadStatus ==
  /\ NextLine("status") /\ IF reply.says200 THEN Goto("headers") ELSE Fail
  /\ UNCHANGED <<task, reply, network, took, asked>>

Disarm == armed' = FALSE
Established == Disarm /\ Succeed /\ UNCHANGED <<conn, sock, relay>>
ReadHeader ==
  /\ NextLine("headers")
  /\ IF used' = ReplyLen THEN Established ELSE Goto("headers")
  /\ UNCHANGED <<task, reply, network, took, asked>>

----------------------------------------------------------------------------
(* socks5Authenticate.                                                     *)
Greet == Write("greet", "method", asked)

Ask == Goto(IF task.op = "udp" THEN "associate" ELSE "request")

ReadMethod ==
  ReadFull("method", CASE reply.hello = 5 /\ reply.method = 0 -> Ask
                       [] reply.hello = 5 /\ reply.method = 2 /\ task.creds # "long" -> Goto("auth")
                       [] OTHER -> Fail)

WriteAuth == Write("auth", "authReply", asked)

ReadAuth == ReadFull("authReply", IF reply.auth = 0 THEN Ask ELSE Fail)

----------------------------------------------------------------------------
(* socks5Connect and socks5UDPAssociate.  The port goes out in two bytes.  *)
Unaskable == ~task.parses \/ (task.host = "name" /\ task.len > 255)
RequestPortMutant == task.port  \* not cut to two bytes
RequestPort == task.port % 65536

Request ==
  \/ /\ pc = "request" /\ Unaskable /\ Fail
     /\ UNCHANGED <<task, reply, network, took, used, asked>>
  \/ ~Unaskable /\ Write("request", "reply", [host |-> task.host, port |-> RequestPort])

Associate == Write("associate", "reply", [host |-> "any", port |-> 0])

Granted == (task.op = "udp" => reply.ver = 5) /\ reply.rep = 0 /\ reply.atyp \in {1, 3, 4}
ReadReply ==
  ReadFull("reply", IF Granted THEN Goto(IF reply.atyp = 3 THEN "nameLen" ELSE "tail") ELSE Fail)

ReadNameLen == ReadFull("nameLen", IF Tail > BufLen THEN Panic ELSE Goto("tail"))

RelayAddrMutant == reply.bnd  \* taken literally, as before v2.3
RelayAddr == IF reply.bnd \in {"wildcard", "loopback"} THEN "parent" ELSE reply.bnd

ReadTail ==
  ReadFull("tail",
    IF task.op = "tcp" THEN Established
    ELSE IF reply.bnd = "name" THEN Fail
    ELSE /\ Disarm /\ relay' = RelayAddr
         /\ pc' = "listen" /\ UNCHANGED <<conn, sock, result>>)

----------------------------------------------------------------------------
(* OpenUDP's own socket: a first one, replaced when an outgoing address is *)
(* asked for.                                                              *)
Listen ==
  /\ pc = "listen"
  /\ \/ Fail
     \/ /\ sock' = "open" /\ UNCHANGED <<conn, armed, relay>>
        /\ IF task.outgoing THEN pc' = "relisten" /\ UNCHANGED result ELSE Succeed
  /\ UNCHANGED <<task, reply, network, took, used, asked>>

RelistenFailsMutant ==  \* the parent's control connection is forgotten
  pc' = "done" /\ result' = "failed" /\ sock' = "closed" /\ UNCHANGED <<conn, armed, relay>>
RelistenFails == /\ pc' = "done" /\ result' = "failed"
                 /\ CloseConn /\ sock' = "closed" /\ UNCHANGED <<armed, relay>>
Relisten ==
  /\ pc = "relisten"
  /\ \/ RelistenFails
     \/ Succeed /\ UNCHANGED <<sockets, relay>>
  /\ UNCHANGED <<task, reply, network, took, used, asked>>

(* What the caller does with a success in the end.                         *)
Close ==
  /\ result = "ok" /\ result' = "closed" /\ CloseConn
  /\ sock' = IF sock = "open" THEN "closed" ELSE sock
  /\ UNCHANGED <<task, reply, network, took, used, pc, armed, asked, relay>>

----------------------------------------------------------------------------
Handshake == \/ HttpRequest \/ Fill \/ ReadStatus \/ ReadHeader \/ Greet \/ ReadMethod
             \/ WriteAuth \/ ReadAuth \/ Request \/ Associate \/ ReadReply
             \/ ReadNameLen \/ ReadTail \/ ReadFails
Call == Start \/ Dial \/ Handshake \/ Listen \/ Relisten

Next == Call \/ Arrive \/ ParentEnds \/ Expire \/ Close

(* The code runs, and time passes; a parent need not do anything.          *)
Spec == Init /\ [][Next]_vars /\ WF_vars(Call) /\ WF_vars(Expire)

----------------------------------------------------------------------------
TypeOK ==
  /\ task \in Tasks /\ reply \in Replies
  /\ ended \in {"open", "eof", "reset"} /\ late \in BOOLEAN /\ armed \in BOOLEAN
  /\ used \in Nat /\ took \in used .. arrived /\ arrived \in 0 .. ReplyLen + Tunnel
  /\ pc \in Reading \cup {"start", "dial", "connect", "greet", "auth", "request",
                         "associate", "listen", "relisten", "done"}
  /\ conn \in {"none", "open", "closed"} /\ sock \in {"none", "open", "closed"}
  /\ asked.port \in TwoBytes \/ Via("http")
  /\ relay \in {"none", "parent"} \cup Bound
  /\ result \in {"pending", "ok", "failed", "panic", "closed"}

(* The handshake takes its reply off the connection to the byte, so that   *)
(* the tunnel starts where the parent's stream does, for every form of     *)
(* reply and however it is cut into segments.  Only httpConnect may take   *)
(* more: bytes of a target that speaks first, which are lost.              *)
TunnelIntact ==
  result = "ok" => used = ReplyLen /\ (took = used \/ Via("http"))

(* A success means what the caller takes it for: the parent let the client *)
(* in and granted the request, it was asked for the caller's target (when  *)
(* its port is one), and UDP is relayed through an address that is not our *)
(* own.  A status line that says 200 anywhere counts as granted.           *)
Agreed == IF Via("http") THEN reply.says200
          ELSE reply.hello = 5 /\ reply.method \in {0, 2} /\ (Authenticates => reply.auth = 0)
               /\ reply.rep = 0
Wanted == task.op = "tcp" /\ task.port \in TwoBytes =>
            asked = [host |-> task.host, port |-> task.port]
Reachable == task.op = "udp" => relay \in {"parent", "address"}
SuccessIsMeant == result = "ok" /\ ~Direct => Agreed /\ Wanted /\ Reachable

(* The one reply the handshake does not survive is a name of 255 bytes:    *)
(* with its port it is longer than the buffer.  Every other reply, of any  *)
(* form and length, ends in a success or an error.                         *)
Survives == result = "panic" => reply.atyp = 3 /\ reply.len = 255

(* The call keeps the abstract promise: it returns, leaves nothing open    *)
(* when it fails, hands over what it is for without a deadline, and Close  *)
(* closes all of it.                                                       *)
Open == (IF conn = "open" THEN {"conn"} ELSE {}) \cup (IF sock = "open" THEN {"sock"} ELSE {})
Outcome == IF result = "panic" THEN "failed" ELSE result
Returned == result # "pending"
Wants == IF task.op = "tcp" THEN {"conn"} ELSE IF Direct THEN {} ELSE {"conn", "sock"}
Contract == INSTANCE DialContract WITH
  Sockets <- {"conn", "sock"}, wants <- Wants, outcome <- Outcome,
  open <- IF Returned THEN Open ELSE {}, armed <- result = "ok" /\ armed
KeepsContract == Contract!Spec
=============================================================================
