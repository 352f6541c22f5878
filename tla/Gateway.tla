-------------------------------- MODULE Gateway --------------------------------
(***************************************************************************)
(* The life of client connections: handleConn, handleHTTP and relayHTTP,   *)
(* handleSOCKS5 and handleSocksUDPAssociate, one handler goroutine each,   *)
(* sharing the connection limits (ConnLimit, which LimitManager is proved  *)
(* to implement).  A read can fail at any point, because the client hung   *)
(* up or sent nonsense; authorization, the dial and every checked write    *)
(* can fail; a handler that returns runs its deferred calls, the last      *)
(* first.  Relay and the UDP relay goroutine are one step here.            *)
(***************************************************************************)
EXTENDS Integers, Sequences, FiniteSets

CONSTANTS Conns,    \* connection handlers
          Claims,   \* what an authorization answer may grant: key and conns per dimension
          NoLimits, \* the claim of a Result{}: no limit on either key
          Clients,  \* what clients may send, and how their servers take it
          Configs   \* configurations of the gateway

(* What a client sends: its protocol and command, whether it presents both *)
(* user and password, offers SOCKS method 2, names a host (plain HTTP), and *)
(* has yet to send the rest of a body it announced (HTTP); and whether the *)
(* server it names has stopped reading what it is sent.                    *)
ClientType == [kind : {"connect", "plain", "socks", "udp", "badcmd"}, creds : BOOLEAN,
               offers : BOOLEAN, host : BOOLEAN, stalls : BOOLEAN, remoteStalls : BOOLEAN]

ASSUME GatewayAssumption ==
  /\ IsFiniteSet(Conns)
  /\ NoLimits \in Claims
  /\ \A q \in Claims, d \in {"user", "ip"} : q.conns[d] \in Int
  /\ Clients \subseteq ClientType
  /\ Configs \subseteq [authURL : BOOLEAN, authNoUser : BOOLEAN, traffic : BOOLEAN]

VARIABLES
  cfg,           \* the configuration, fixed
  pc, client,    \* per handler: next step; what its client sends
  open,          \* sockets the handler has open
  defers,        \* its deferred calls, in the order they were deferred
  said,          \* what it has told the client
  reports,       \* traffic reports it has sent
  phase, claim   \* the limiter

Limiter == INSTANCE ConnLimit
limiter == <<phase, claim>>
vars == <<cfg, pc, client, open, defers, said, reports, limiter>>

HttpMutant(c) == client[c].kind # "socks"
Http(c) == client[c].kind \in {"connect", "plain"}
Update(f, c, v) == [f EXCEPT ![c] = v]
Goto(c, l) == pc' = Update(pc, c, l)
Step(c, from, to) == pc[c] = from /\ Goto(c, to)
Say(c, m) == said' = Update(said, c, Append(said[c], m))
Opens(c, new) == open' = Update(open, c, open[c] \cup new)
Closes(c, old) == open' = Update(open, c, open[c] \ old)
DeferMutant(c, f) ==  \* forgets the parent's UDP relay
  defers' = IF f = "closeUpRelay" THEN defers ELSE Update(defers, c, Append(defers[c], f))
Defer(c, f) == defers' = Update(defers, c, Append(defers[c], f))
Report(c) == reports' = Update(reports, c, reports[c] + (IF cfg.traffic THEN 1 ELSE 0))

(* The locals of a handler that is not running.                            *)
Nobody == [kind |-> "badcmd", creds |-> FALSE, offers |-> FALSE, host |-> FALSE,
           stalls |-> FALSE, remoteStalls |-> FALSE]

(* Answer the client and return.                                           *)
Refuse(c, http, socks) ==
  /\ Say(c, IF Http(c) THEN http ELSE socks)
  /\ Goto(c, "return")

Init ==
  /\ cfg \in Configs
  /\ pc = [c \in Conns |-> "closed"]
  /\ client = [c \in Conns |-> Nobody]
  /\ open = [c \in Conns |-> {}]
  /\ defers = [c \in Conns |-> <<>>] /\ said = [c \in Conns |-> <<>>]
  /\ reports = [c \in Conns |-> 0]
  /\ phase = [c \in Conns |-> "out"] /\ claim = [c \in Conns |-> NoLimits]

----------------------------------------------------------------------------
(* acceptLoop starts a handler, whose first deferred call closes the client. *)
Accept(c) ==
  /\ Step(c, "closed", "first")
  /\ \E k \in Clients : client' = Update(client, c, k)
  /\ Opens(c, {"client"}) /\ Defer(c, "closeClient")
  /\ UNCHANGED <<cfg, said, reports, limiter>>

FirstByte(c) ==
  /\ Step(c, "first", IF Http(c) THEN "request" ELSE "greet")
  /\ UNCHANGED <<cfg, client, open, defers, said, reports, limiter>>

(* A read of the handshake fails, or what it read is not the protocol: the *)
(* handler returns without a word.                                         *)
Unreadable(c) ==
  /\ pc[c] \in {"first", "request", "greet", "subauth", "command"}
  /\ Goto(c, "return")
  /\ UNCHANGED <<cfg, client, open, defers, said, reports, limiter>>

(* The rest of the client's request arrives, or its connection fails.      *)
BodyEnds(c) ==
  /\ client[c].stalls /\ client' = [client EXCEPT ![c].stalls = FALSE]
  /\ UNCHANGED <<cfg, pc, open, defers, said, reports, limiter>>

(* RequireCreds and the method SOCKS selects.                              *)
CredsMissing(c) == cfg.authURL /\ ~cfg.authNoUser /\ ~client[c].creds
WantUser == cfg.authURL /\ ~cfg.authNoUser
UsePassword(c) == cfg.authURL /\ client[c].offers

ReadRequest(c) ==
  /\ pc[c] = "request"
  /\ IF CredsMissing(c) THEN Refuse(c, "407", "") ELSE Goto(c, "authorize") /\ UNCHANGED said
  /\ Defer(c, "closeBody")
  /\ UNCHANGED <<cfg, client, open, reports, limiter>>

Greet(c) ==
  /\ pc[c] = "greet"
  /\ \/ WantUser /\ ~client[c].offers /\ Refuse(c, "", "noMethod")
     \/ UsePassword(c) /\ Say(c, "method2") /\ Goto(c, "subauth")
     \/ ~UsePassword(c) /\ ~WantUser /\ Say(c, "method0") /\ Goto(c, "command")
     \/ (UsePassword(c) \/ ~WantUser) /\ Goto(c, "return") /\ UNCHANGED said  \* write error
  /\ UNCHANGED <<cfg, client, open, defers, reports, limiter>>

Subauth(c) ==
  /\ pc[c] = "subauth"
  /\ IF CredsMissing(c) THEN Refuse(c, "", "authFailed")
                        ELSE Say(c, "authOK") /\ Goto(c, "command")
  /\ UNCHANGED <<cfg, client, open, defers, reports, limiter>>

Command(c) ==
  /\ pc[c] = "command"
  /\ IF client[c].kind = "badcmd" THEN Refuse(c, "", "rep7")
                                  ELSE Goto(c, "address") /\ UNCHANGED said
  /\ UNCHANGED <<cfg, client, open, defers, reports, limiter>>

Address(c) ==
  /\ pc[c] = "address"
  /\ \/ Goto(c, "authorize") /\ UNCHANGED said
     \/ Refuse(c, "", IF client[c].kind = "udp" THEN "rep1" ELSE "rep8")
  /\ UNCHANGED <<cfg, client, open, defers, reports, limiter>>

----------------------------------------------------------------------------
(* Authorize: without an auth URL everything is allowed, unlimited.        *)
Authorize(c) ==
  /\ pc[c] = "authorize"
  /\ \/ /\ Goto(c, "rate") /\ UNCHANGED said
        /\ \E q \in IF cfg.authURL THEN Claims ELSE {NoLimits} : claim' = Update(claim, c, q)
     \/ /\ cfg.authURL
        /\ \/ Refuse(c, "503", "rep1")                           \* error, deny by 503
           \/ Refuse(c, "407", "rep2") \/ Refuse(c, "429", "rep1")    \* deny
        /\ UNCHANGED claim
  /\ UNCHANGED <<cfg, client, open, defers, reports, phase>>

(* AllowNewConn, and the QPS half of TryAcquire: either may say no.        *)
AllowNewConn(c) ==
  /\ pc[c] = "rate"
  /\ \/ Goto(c, "acquire") /\ UNCHANGED said
     \/ Refuse(c, "503", "rep1")
  /\ UNCHANGED <<cfg, client, open, defers, reports, limiter>>

TryAcquireMutant(c) ==  \* waits for room
  /\ pc[c] = "acquire" /\ Limiter!Admit(c) /\ Defer(c, "release")
  /\ Goto(c, IF client[c].kind = "udp" THEN "openUDP" ELSE "dial")
  /\ UNCHANGED <<cfg, client, open, said, reports>>

TryAcquire(c) ==
  /\ pc[c] = "acquire"
  /\ \/ /\ Limiter!Admit(c) /\ Defer(c, "release")
        /\ Goto(c, IF client[c].kind = "udp" THEN "openUDP" ELSE "dial")
        /\ UNCHANGED said
     \/ /\ Limiter!Refuse(c) /\ Refuse(c, "503", "rep1")
        /\ UNCHANGED defers
  /\ UNCHANGED <<cfg, client, open, reports>>

----------------------------------------------------------------------------
(* TCP: dial, confirm to the client, relay, report.                        *)
Dial(c) ==
  /\ pc[c] = "dial"
  /\ IF client[c].kind = "plain" /\ ~client[c].host
     THEN Refuse(c, "400", "") /\ UNCHANGED <<open, reports>>
     ELSE \/ Opens(c, {"remote"}) /\ Goto(c, "confirm") /\ UNCHANGED <<said, reports>>
          \/ Refuse(c, "502", "rep5") /\ Report(c) /\ UNCHANGED open
  /\ UNCHANGED <<cfg, client, defers, limiter>>

(* A plain request is written to the remote, without a deadline: its body  *)
(* as the client sends it, and as the remote reads it.                     *)
ForwardBlocked(c) ==
  pc[c] = "confirm" /\ client[c].kind = "plain" /\ (client[c].stalls \/ client[c].remoteStalls)

(* The remote reads on.                                                    *)
RemoteReads(c) ==
  /\ pc[c] = "confirm" /\ client[c].remoteStalls
  /\ client' = [client EXCEPT ![c].remoteStalls = FALSE]
  /\ UNCHANGED <<cfg, pc, open, defers, said, reports, limiter>>

(* CONNECT gets its 200 whether or not the write succeeds; SOCKS gets      *)
(* reply 0, and the sender of a plain request its server's answer.         *)
Confirm(c) ==
  /\ pc[c] = "confirm"
  /\ \/ client[c].kind = "connect" /\ Say(c, "200") /\ Goto(c, "relay") /\ UNCHANGED <<open, reports>>
     \/ client[c].kind = "plain" /\ ~ForwardBlocked(c) /\ Goto(c, "relay") /\ UNCHANGED <<open, said, reports>>
     \/ client[c].kind = "socks" /\ Say(c, "rep0") /\ Goto(c, "relay") /\ UNCHANGED <<open, reports>>
  /\ UNCHANGED <<cfg, client, defers, limiter>>

ConfirmFailsMutant(c) ==  \* remote.Close() forgotten
  /\ pc[c] = "confirm" /\ client[c].kind \in {"plain", "socks"} /\ Goto(c, "return")
  /\ IF Http(c) THEN Report(c) ELSE UNCHANGED reports
  /\ UNCHANGED <<cfg, client, open, defers, said, limiter>>

(* Either connection may fail at any point of the forwarding.              *)
ConfirmFails(c) ==
  /\ pc[c] = "confirm" /\ client[c].kind \in {"plain", "socks"}
  /\ Closes(c, {"remote"}) /\ Goto(c, "return")
  /\ IF Http(c) THEN Report(c) ELSE UNCHANGED reports
  /\ UNCHANGED <<cfg, client, defers, said, limiter>>

RelayEndsMutant(c) ==  \* no report
  /\ Step(c, "relay", "return") /\ Closes(c, {"client", "remote"})
  /\ UNCHANGED <<cfg, client, defers, said, reports, limiter>>

(* relay closes both connections before it returns.                        *)
RelayEnds(c) ==
  /\ Step(c, "relay", "return")
  /\ Closes(c, {"client", "remote"}) /\ Report(c)
  /\ UNCHANGED <<cfg, client, defers, said, limiter>>

----------------------------------------------------------------------------
(* UDP ASSOCIATE: a parent's relay or none, a local socket, the reply.     *)
OpenUDP(c) ==
  /\ pc[c] = "openUDP"
  /\ \/ Goto(c, "bindUDP") /\ UNCHANGED <<open, defers, said>>
     \/ /\ Opens(c, {"parentControl", "parentSocket"}) /\ Defer(c, "closeUpRelay")
        /\ Goto(c, "bindUDP") /\ UNCHANGED said
     \/ Refuse(c, "", "rep5") /\ UNCHANGED <<open, defers>>
  /\ UNCHANGED <<cfg, client, reports, limiter>>

BindUDP(c) ==
  /\ pc[c] = "bindUDP"
  /\ \/ Refuse(c, "", "rep8") /\ UNCHANGED open      \* no IPv4 address to announce
     \/ Refuse(c, "", "rep1") /\ UNCHANGED open      \* ListenUDP fails
     \/ Opens(c, {"udp"}) /\ Goto(c, "confirmUDP") /\ UNCHANGED said
  /\ UNCHANGED <<cfg, client, defers, reports, limiter>>

ConfirmUDP(c) ==
  /\ pc[c] = "confirmUDP"
  /\ \/ Say(c, "rep0") /\ Goto(c, "associated") /\ UNCHANGED open
     \/ Closes(c, {"udp"}) /\ Goto(c, "return") /\ UNCHANGED said
  /\ UNCHANGED <<cfg, client, defers, reports, limiter>>

AssociationEnds(c) ==
  /\ Step(c, "associated", "return")
  /\ Closes(c, {"udp"}) /\ Report(c)
  /\ UNCHANGED <<cfg, client, defers, said, limiter>>

----------------------------------------------------------------------------
(* A handler that returns runs its deferred calls, the last first.  The     *)
(* body's Close reads the rest of it, as long as its connection is open.   *)
Unwinds(c, f) ==
  /\ pc[c] = "return" /\ defers[c] # <<>> /\ f = defers[c][Len(defers[c])]
  /\ defers' = Update(defers, c, SubSeq(defers[c], 1, Len(defers[c]) - 1))

CloseUpRelay(c) ==
  /\ Unwinds(c, "closeUpRelay") /\ Closes(c, {"parentControl", "parentSocket"})
  /\ UNCHANGED <<cfg, pc, client, said, reports, limiter>>

ReleaseMutant(c) ==  \* only once the body is drained
  /\ Unwinds(c, "release") /\ ~client[c].stalls /\ Limiter!Leave(c)
  /\ UNCHANGED <<cfg, pc, client, open, said, reports>>
Release(c) ==
  /\ Unwinds(c, "release") /\ Limiter!Leave(c)
  /\ UNCHANGED <<cfg, pc, client, open, said, reports>>

CloseBody(c) ==
  /\ Unwinds(c, "closeBody") /\ (client[c].stalls => "client" \notin open[c])
  /\ UNCHANGED <<cfg, pc, client, open, said, reports, limiter>>

(* The limiter's refusal is over when its handler is.                      *)
CloseClient(c) ==
  /\ Unwinds(c, "closeClient") /\ Closes(c, {"client"}) /\ Goto(c, "closed")
  /\ IF phase[c] = "full" THEN Limiter!Leave(c) ELSE UNCHANGED limiter
  /\ client' = Update(client, c, Nobody)
  /\ said' = Update(said, c, <<>>) /\ reports' = Update(reports, c, 0)
  /\ UNCHANGED cfg

Unwind(c) == CloseUpRelay(c) \/ Release(c) \/ CloseBody(c) \/ CloseClient(c)

Handshake(c) == \/ BodyEnds(c) \/ FirstByte(c) \/ Unreadable(c) \/ ReadRequest(c) \/ Greet(c)
                \/ Subauth(c) \/ Command(c) \/ Address(c)
Serve(c) == \/ Authorize(c) \/ AllowNewConn(c) \/ TryAcquire(c)
            \/ Dial(c) \/ Confirm(c)
            \/ OpenUDP(c) \/ BindUDP(c) \/ ConfirmUDP(c) \/ Unwind(c)
Finish(c) == RemoteReads(c) \/ ConfirmFails(c) \/ RelayEnds(c) \/ AssociationEnds(c)

Next == \E c \in Conns : Accept(c) \/ Handshake(c) \/ Serve(c) \/ Finish(c)

(* The steps of Serve end by themselves: 20 s and 15 s for the service,    *)
(* 30 s for a dial; what a handler writes to its client before the relay   *)
(* are a few bytes, which the socket buffers.  The two calls without a     *)
(* deadline, forwarding a plain request and draining a body, are disabled  *)
(* while the peer they wait for stalls.  Reads of the handshake have no    *)
(* deadline, a peer need never move again, and a relay lasts as long as    *)
(* its peers want: no fairness for them.                                   *)
Spec == Init /\ [][Next]_vars /\ \A c \in Conns : WF_vars(Serve(c))

----------------------------------------------------------------------------
Sockets == {"client", "remote", "parentControl", "parentSocket", "udp"}
Success == {"200", "rep0"}
Refusals == {"407", "429", "503", "400", "noMethod", "authFailed",
             "rep1", "rep2", "rep7", "rep8"}
Outcomes == Success \cup Refusals \cup {"502", "rep5"}

TypeOK ==
  /\ cfg \in Configs /\ client \in [Conns -> ClientType]
  /\ pc \in [Conns -> {"closed", "first", "request", "greet", "subauth", "command", "address",
                       "authorize", "rate", "acquire", "dial", "confirm", "relay", "openUDP",
                       "bindUDP", "confirmUDP", "associated", "return"}]
  /\ open \in [Conns -> SUBSET Sockets] /\ reports \in [Conns -> Nat]
  /\ \A c \in Conns : /\ defers[c] \in Seq({"closeClient", "closeBody", "release", "closeUpRelay"})
                      /\ said[c] \in Seq(Outcomes \cup {"method0", "method2", "authOK"})
  /\ phase \in [Conns -> {"out", "in", "full"}] /\ claim \in [Conns -> Claims]

(* Whatever path a handler took, at its end every socket it opened is      *)
(* closed and its slot is free.                                            *)
NothingLeftBehind ==
  \A c \in Conns : pc[c] = "closed" => open[c] = {} /\ phase[c] = "out"

(* The connection limits hold for what they are meant to bound: of the     *)
(* handlers with a socket open towards the outside for a key, those under  *)
(* a limit of at most m never number more than m.                          *)
Outgoing(k, d, m) ==
  {c \in Conns : /\ open[c] \ {"client"} # {}
                 /\ claim[c].key[d] = k /\ claim[c].conns[d] \in 1 .. m}
OutgoingWithinLimits ==
  \A q \in Claims, d \in {"user", "ip"} : q.conns[d] > 0 =>
     Cardinality(Outgoing(q.key[d], d, q.conns[d])) <= q.conns[d]

(* A client hears one outcome at most, and with traffic reporting on its   *)
(* session is reported once if it was told it succeeded, and never twice.  *)
Told(c) == {i \in DOMAIN said[c] : said[c][i] \in Outcomes}
Heard(c, set) == \E i \in Told(c) : said[c][i] \in set
Accounted ==
  \A c \in Conns :
    /\ Cardinality(Told(c)) <= 1
    /\ reports[c] <= 1
    /\ pc[c] = "return" /\ cfg.traffic /\ Heard(c, Success) => reports[c] = 1

(* Once a handler has what it needs to authorize its client, the client is *)
(* served or its connection is closed: no error path leaves it hanging but *)
(* the two that wait, without a deadline, for a peer: for the body the     *)
(* client owes, and for the remote to read a plain request.  When the peer *)
(* moves on, so does the handler.                                          *)
AwaitsClient(c) ==
  pc[c] \in {"first", "request", "greet", "subauth", "command", "address"}
AwaitsPeer(c) ==
  \/ ForwardBlocked(c)
  \/ /\ pc[c] = "return" /\ client[c].stalls /\ "client" \in open[c]
     /\ defers[c] # <<>> /\ defers[c][Len(defers[c])] = "closeBody"
Answered ==
  \A c \in Conns : ~AwaitsClient(c) ~> pc[c] \in {"relay", "associated", "closed"} \/ AwaitsPeer(c)

(* A handler that is done with its client gives the slot back, even when   *)
(* it goes on waiting for the client's body.                               *)
SlotFreed == \A c \in Conns : pc[c] = "return" ~> phase[c] # "in"

(* README, "joyproxy sends an async HTTP GET to your endpoint when each    *)
(* connection ends", of the connections that were admitted.                *)
AdmittedReported ==
  \A c \in Conns : cfg.traffic /\ pc[c] = "return" /\ phase[c] = "in" => reports[c] = 1
=============================================================================
