-------------------------------- MODULE Parsers --------------------------------
(***************************************************************************)
(* The pure functions of the server, each applied to one input: a port     *)
(* specification, the first bytes of a client, a UDP datagram on either of *)
(* its ways.  An input keeps what its writer meant by it.                  *)
(***************************************************************************)
EXTENDS SocksCodec, Sniff, PortSpec

(* An input says what it is an input of, in its field of.                  *)
CONSTANTS Texts,     \* [of, text, meant]: meant is a result, or Rejected for "no claim"
          Hellos,    \* [of, data, genuine, from, len]: genuine hellos name their server there
          Datagrams  \* [of, bytes, host, port, payload, whole]: whole if not cut nor a fragment

PeekSize == 512  \* what the handler looks at, br.Peek(512)
OldestVersion == 768  \* SSL 3.0, which a genuine record and hello name at least
Octet == 0 .. 255
TwoBytes == 0 .. 65535
IsHost(h) ==
  /\ h = [form |-> h.form, bytes |-> h.bytes] /\ h.form \in {"v4", "v6", "name"}
  /\ h.bytes \in Seq(Octet)
  /\ Len(h.bytes) \in (CASE h.form = "v4" -> {4} [] h.form = "v6" -> {16} [] h.form = "name" -> Octet)

(* An IP that ParseIP returns: To4 makes a mapped one an IPv4 address.     *)
IsIP(h) == IsHost(h) /\ h.form # "name" /\ Denoted(h) = h

IsText(t) ==
  /\ t.of = "text" /\ t.text \in Seq(STRING)
  /\ t.meant.ok => IsRange(t.meant) /\ Writes(t.text, t.meant)
IsData(data) == data.n \in 0 .. PeekSize /\ \A i \in DOMAIN data.at : data.at[i] \in Octet
IsHello(h) ==
  /\ h.of = "hello" /\ IsData(h.data)
  /\ h.genuine => Word16(h.data, 1) >= OldestVersion /\ Word16(h.data, 9) >= OldestVersion
AsSent(d) ==
  /\ IsHost(d.host) /\ d.port \in TwoBytes /\ d.payload \in Seq(Octet)
  /\ d.bytes = Header \o Wire(d.host, d.port) \o d.payload
IsDatagram(d) == d.of = "datagram" /\ d.bytes \in Seq(Octet) /\ (d.whole => AsSent(d))

ASSUME ParsersAssumption ==
  /\ MaxInt \in Nat
  /\ \A name \in DOMAIN Literals : IsIP(Literals[name])
  /\ \A t \in Texts : IsText(t)
  /\ \A h \in Hellos : IsHello(h)
  /\ \A d \in Datagrams : IsDatagram(d)

VARIABLES input, output

vars == <<input, output>>
None == [of |-> "none"]

Init == /\ output = None
        /\ input \in Texts \/ input \in Hellos \/ input \in Datagrams

ReadPorts ==
  /\ output = None /\ input.of = "text"
  /\ output' = [of |-> "ports", result |-> ParsePortSpec(input.text)]
  /\ UNCHANGED input

SniffHello ==
  /\ output = None /\ input.of = "hello"
  /\ output' = [of |-> "name", result |-> Begin(input.data)]
  /\ UNCHANGED input

SniffOn ==
  /\ output.of = "name" /\ output.result.step \in Loops
  /\ output' = [output EXCEPT !.result = Onward(input.data, @)]
  /\ UNCHANGED input

PassDatagram ==
  /\ output = None /\ input.of = "datagram"
  /\ LET b == From(input.bytes, 4)
     IN output' = [of |-> "datagram",
                   fromClient |-> parseSocksUDPDest(b), fromStream |-> readSocksAddr(b),
                   toParent |-> ToParent(input.bytes), toClient |-> ToClient(input.bytes)]
  /\ UNCHANGED input

Next == ReadPorts \/ SniffHello \/ SniffOn \/ PassDatagram
Spec == Init /\ [][Next]_vars

----------------------------------------------------------------------------
(* "-p": a well-formed specification yields what it means; and whatever    *)
(* text is accepted, the range is in order and, written out again, means   *)
(* the same.  (A second number may carry a sign: "5--8" is accepted as -8  *)
(* to 5, and fails only when the server listens.)                          *)
WrittenSpec(r) == HostPart(TRUE, r.host) \o TwoPorts(r.start, 0, 0, r.end)
PortsAsMeant ==
  output.of = "ports" =>
    LET r == output.result
    IN /\ input.meant.ok => r = input.meant
       /\ r.ok => r.start <= r.end
       /\ r.ok /\ r.start >= 0 => ParsePortSpec(WrittenSpec(r)) = r

(* At every step, sniffSNI reads only bytes it has, whatever lengths a     *)
(* client claims; and it takes nothing else for the server name of a       *)
(* genuine hello.  It does not promise to find it; it never does.          *)
SniffSound ==
  output.of = "name" =>
    LET w == output.result
    IN /\ w.last < input.data.n
       /\ input.genuine /\ w.step = "found" => w.off = input.from /\ w.left = input.len

(* The reader of requests, which takes an address off a stream, and the    *)
(* reader of datagrams, which indexes a buffer, agree on every input, cut  *)
(* off at any byte: on the address, on where it ends, on what is malformed.*)
ReadersAgree == output.of = "datagram" => output.fromStream = output.fromClient

(* What goes through a parent has the port and the payload that were sent, *)
(* and the host unless it has brackets.  On its way out a datagram is lost *)
(* only if it is cut, a fragment, empty, shorter than ten bytes (which a   *)
(* short name's may be), or for a name with brackets (a pair around all of *)
(* it is taken off instead); and only a mapped address and a name that     *)
(* spells an IP change form.  On its way back an IPv4 peer's datagram      *)
(* arrives unchanged, and of one whose peer is named, the payload, unless  *)
(* the name spells an IPv6 address, which the answer has no form for.      *)
Good == output.of = "datagram" /\ input.whole /\ input.payload # <<>> /\ Len(input.bytes) >= 10
Clean(host) == ~(host.form = "name" /\ Bracketed(host.bytes))
Meaning(host) == ParseIP(Denoted(host))
Carried(d) ==
  LET a == decodeSocksUDPAddr(From(d, 4))
  IN /\ a.ok /\ a.port = input.port /\ a.rest = input.payload
     /\ Clean(input.host) => a.host = Meaning(input.host)
ForwardedAsSent ==
  Good => /\ output.toParent # <<>> => Carried(output.toParent)
          /\ Clean(input.host) => output.toParent # <<>>
          /\ Clean(input.host) /\ Meaning(input.host) = input.host => output.toParent = input.bytes
          /\ input.host.form = "v4" => output.toClient = input.bytes
          /\ input.host.form = "name" /\ Meaning(input.host).form # "v6" =>
               parseSocksUDPDest(From(output.toClient, 4)).rest = input.payload
=============================================================================
