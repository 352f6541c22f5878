------------------------------ MODULE SocksCodec ------------------------------
(***************************************************************************)
(* The SOCKS5 address as it is read from a request, read from and written  *)
(* to datagrams, and the two ways of a datagram through an association     *)
(* that has a parent.  Data are sequences of bytes.  An address is         *)
(* [host : [form, bytes], port].  The code hands it from reader to writer  *)
(* as a text: that of a name is the name, and that of an IP, which         *)
(* net.IP.String writes and net.ParseIP reads, is represented by the IP.   *)
(***************************************************************************)
EXTENDS Integers, SequencesExt

CONSTANT Literals  \* net.ParseIP: the names that spell an IP, and the host that each spells

Bad == [ok |-> FALSE]
U16(n) == <<(n \div 256) % 256, n % 256>>
Word(b, i) == 256 * b[i] + b[i + 1]
From(b, i) == SubSeq(b, i, Len(b))

Tag(form) == CASE form = "v4" -> 1 [] form = "name" -> 3 [] form = "v6" -> 4

(* net.IP.String writes an IPv4 address for one mapped into IPv6; a name   *)
(* is its own text.                                                        *)
Mapped == [i \in 1 .. 10 |-> 0] \o <<255, 255>>
Denoted(host) == IF host.form = "v6" /\ IsPrefix(Mapped, host.bytes)
                 THEN [form |-> "v4", bytes |-> From(host.bytes, 13)] ELSE host

(* net.ParseIP: a host is an IP, spells one, or stays a name.              *)
ParseIP(host) == IF host.form = "name" /\ host.bytes \in DOMAIN Literals
                 THEN Literals[host.bytes] ELSE host

(* net.JoinHostPort, which puts a host with a colon into brackets, and     *)
(* net.SplitHostPort, which wants a bracket nowhere else: a name that has  *)
(* brackets of its own is an error, but for one pair around all of it.     *)
IsBracket(byte) == byte \in {91, 93}
Bracketed(s) == \E i \in DOMAIN s : IsBracket(s[i])
Inside(s) == SubSeq(s, 2, Len(s) - 1)
Enclosed(s) == /\ Len(s) >= 2 /\ s[1] = 91 /\ s[Len(s)] = 93
               /\ \A i \in DOMAIN s : s[i] # 58
               /\ ~Bracketed(Inside(s))
SplitHostPort(host) ==
  IF ~(host.form = "name" /\ Bracketed(host.bytes)) THEN [ok |-> TRUE, host |-> host]
  ELSE IF Enclosed(host.bytes) THEN [ok |-> TRUE, host |-> [host EXCEPT !.bytes = Inside(@)]]
  ELSE Bad

(* An address as every writer of SOCKS5 writes it, and encodeSocksUDPAddr, *)
(* which is handed a text.                                                 *)
Wire(host, port) ==
  <<Tag(host.form)>> \o (IF host.form = "name" THEN <<Len(host.bytes)>> ELSE <<>>)
    \o host.bytes \o U16(port)
encodeSocksUDPAddr(host, port) ==
  LET split == SplitHostPort(host)
      h == ParseIP(split.host)
  IN IF ~split.ok THEN Bad
     ELSE IF h.form = "name" /\ Len(h.bytes) > 255 THEN Bad
     ELSE [ok |-> TRUE, bytes |-> Wire(h, port)]

(* Where the host begins and how long it is, by the tag; nothing is read   *)
(* beyond the fourth byte before the length is compared.                   *)
KnownTag(b) == b[1] \in {1, 3, 4}
HostAt(b) == IF b[1] = 3 THEN 3 ELSE 2
HostLen(b) == CASE b[1] = 1 -> 4 [] b[1] = 4 -> 16 [] b[1] = 3 -> b[2]
Form(b) == CASE b[1] = 1 -> "v4" [] b[1] = 4 -> "v6" [] b[1] = 3 -> "name"

Address(b) ==
  LET at == HostAt(b)  n == HostLen(b)
  IN [ok |-> TRUE, host |-> Denoted([form |-> Form(b), bytes |-> SubSeq(b, at, at + n - 1)]),
      port |-> Word(b, at + n), rest |-> From(b, at + n + 2)]

TooShort(b) == Len(b) < HostAt(b) + HostLen(b) + 1
decodeSocksUDPAddr(b) ==
  IF Len(b) < 4 THEN Bad ELSE IF ~KnownTag(b) \/ TooShort(b) THEN Bad ELSE Address(b)

(* Its twin on the client's side of the server.                            *)
parseSocksUDPDest(b) == decodeSocksUDPAddr(b)

(* The same from the stream of a request, piece by piece: the tag, the     *)
(* length of a name, the host, the port.  rest stays in the stream.        *)
Tagged(s, tag) == s # <<>> /\ s[1] = tag
ReadLenMutant(s) == s[2] - 1  \* the length byte counts as part of the name
ReadLen(s) == s[2]
readSocksAddr(s) ==
  LET n == CASE Tagged(s, 1) -> 4 [] Tagged(s, 4) -> 16
             [] Tagged(s, 3) /\ Len(s) > 1 -> ReadLen(s) [] OTHER -> -1
      t == From(s, IF Tagged(s, 3) THEN 3 ELSE 2)
  IN IF n < 0 \/ Len(t) < n + 2 THEN Bad
     ELSE [ok |-> TRUE, host |-> Denoted([form |-> Form(s), bytes |-> SubSeq(t, 1, n)]),
           port |-> Word(t, n + 1), rest |-> From(t, n + 3)]

----------------------------------------------------------------------------
(* The ways of a datagram: <<>> is a datagram that is dropped.             *)

(* The checks of the relay goroutine and of UDPRelay.Read on what arrives. *)
Header == <<0, 0, 0>>
WholeMutant(d) == Len(d) > 10 /\ d[3] = 0  \* room for a payload behind an IPv4 address
Whole(d) == Len(d) >= 10 /\ d[3] = 0

(* Client to parent: the goroutine's parsing, and UDPRelay.WriteTo, which  *)
(* sends nothing for an address that cannot be encoded.                    *)
WriteTo(host, port, payload) ==
  LET hdr == encodeSocksUDPAddr(host, port)
  IN IF ~hdr.ok THEN <<>> ELSE Header \o hdr.bytes \o payload
ToParent(d) ==
  IF ~Whole(d) THEN <<>>
  ELSE LET a == parseSocksUDPDest(From(d, 4))
       IN IF ~a.ok THEN <<>> ELSE IF a.rest = <<>> THEN <<>>
          ELSE WriteTo(a.host, a.port, a.rest)

(* Parent to client: UDPRelay.Read, where a name is the IP that it spells, *)
(* or else 0.0.0.0; and buildSocksUDPReply, which has no form but IPv4's:  *)
(* for any other address it writes 127.0.0.1 in the sixteen bytes          *)
(* net.IPv4 returns.                                                       *)
PeerIP(host) ==
  LET h == ParseIP(host) IN IF h.form = "name" THEN <<0, 0, 0, 0>> ELSE h.bytes
ReplyHost(ip) == IF Len(ip) = 4 THEN ip ELSE Mapped \o <<127, 0, 0, 1>>
buildSocksUDPReply(ip, port, payload) ==
  Header \o <<1>> \o ReplyHost(ip) \o U16(port) \o payload

ToClient(d) ==
  IF ~Whole(d) THEN <<>>
  ELSE LET a == decodeSocksUDPAddr(From(d, 4))
       IN IF ~a.ok THEN <<>> ELSE IF a.rest = <<>> THEN <<>>
          ELSE buildSocksUDPReply(PeerIP(a.host), a.port, a.rest)
=============================================================================
