------------------------------- MODULE MCParsers -------------------------------
(* Inputs of Parsers for TLC.                                              *)
EXTENDS Parsers

(* Every text of up to five characters, and what well-formed ones mean.    *)
Alphabet == {" ", ":", "-", "5", "8", "h"}
Meant(host, start, end) == [ok |-> TRUE, host |-> host, start |-> start, end |-> end]
MCTexts ==
  { [of |-> "text", text |-> t, meant |-> Rejected] : t \in UNION { [1 .. n -> Alphabet] : n \in 0 .. 5 } }
  \cup { [of |-> "text", text |-> h \o <<":", "8", "0", "8", "0">>, meant |-> Meant(h, 8080, 8080)] :
           h \in { <<>>, <<"h">>, <<":", ":", "1">> } }
  \cup { [of |-> "text", text |-> <<" ">> \o h \o <<":", "5", " ", "-", " ", "1", "0">>, meant |-> Meant(h, 5, 10)] :
           h \in { <<>>, <<"h">> } }
  \cup { [of |-> "text", text |-> <<"5", "9", "-", "5", "0">>, meant |-> Meant(<<>>, 50, 59)] }

(* Lengths a client may claim, around what it sent, for a session id, an   *)
(* extension, an entry and a name; and genuine hellos with a three-byte    *)
(* name, one cut short.                                                    *)
Claims(sl, et, el, l, t, n2, vl) ==
  [i \in {0, 43, 47, 49, 51, 52, 54, 56} |->
     CASE i = 0 -> 22 [] i = 43 -> sl [] i = 47 -> et [] i = 49 -> el
       [] i = 51 -> l [] i = 52 -> t [] i = 54 -> n2 [] i = 56 -> vl]
Hello(n, at, genuine, from, len) ==
  [of |-> "hello", data |-> [n |-> n, at |-> at], genuine |-> genuine, from |-> from, len |-> len]
GenuineBytes ==  \* type, versions, lengths, one cipher, one extension: server_name
  [i \in {0, 1, 2, 4, 5, 8, 9, 10, 45, 46, 47, 48, 51, 55, 57, 60, 61, 62, 63} |->
     CASE i = 0 -> 22 [] i = 1 -> 3 [] i = 2 -> 1 [] i = 4 -> 59 [] i = 5 -> 1 [] i = 8 -> 55
       [] i = 9 -> 3 [] i = 10 -> 3 [] i = 45 -> 2 [] i = 46 -> 19 [] i = 47 -> 1 [] i = 48 -> 1
       [] i = 51 -> 12 [] i = 55 -> 8 [] i = 57 -> 6 [] i = 60 -> 3 [] OTHER -> 97]
MCHellos ==
  { Hello(n, Claims(sl, et, el, l, t, n2, vl), FALSE, 0, 0) :
      n \in {5, 41, 43, 46, 52, 56, 60}, sl \in {0, 1, 255}, et \in {0, 1}, el \in {0, 2, 9},
      l \in {0, 1, 2}, t \in {0, 1}, n2 \in {0, 2, 5}, vl \in {0, 3} }
  \cup { Hello(n, GenuineBytes, TRUE, 61, 3) : n \in {64, 512} }

(* Addresses of every form, one mapped, names of up to three bytes, names  *)
(* that spell an IP and names with brackets, with payloads of up to two,   *)
(* whole, fragmented and cut off at any byte.                              *)
Loopback == [form |-> "v6", bytes |-> [i \in 1 .. 16 |-> i \div 16]]
Spelled4 == <<49, 46, 50, 46, 51, 46, 52>>  \* 1.2.3.4
Spelled6 == <<58, 58, 49>>                  \* ::1
MCLiterals == Spelled4 :> [form |-> "v4", bytes |-> <<1, 2, 3, 4>>] @@ Spelled6 :> Loopback
Between(s) == <<91>> \o s \o <<93>>
Names ==
  { [i \in 1 .. n |-> 97] : n \in 0 .. 3 }
  \cup {Spelled4, Spelled6, Between(Spelled4), Between(Spelled6)}  \* [1.2.3.4] is read, [::1] is not
  \cup {Between(<<>>), Between(<<97>>), <<91, 97>>, <<97, 93>>, <<93, 97, 91>>, Between(Between(<<97>>))}
Hosts == { [form |-> "v4", bytes |-> <<1, 2, 3, 4>>],
           [form |-> "v6", bytes |-> [i \in 1 .. 16 |-> i]], Loopback,
           [form |-> "v6", bytes |-> Mapped \o <<1, 2, 3, 4>>] }
         \cup { [form |-> "name", bytes |-> name] : name \in Names }
Datagram(host, port, payload, frag, cut) ==
  LET all == <<0, 0, frag>> \o Wire(host, port) \o payload
  IN [of |-> "datagram", bytes |-> SubSeq(all, 1, Len(all) - cut), host |-> host, port |-> port,
      payload |-> payload, whole |-> cut = 0 /\ frag = 0]
MCDatagrams ==
  { Datagram(h, p, [i \in 1 .. n |-> 7], frag, cut) :
      h \in Hosts, p \in {53, 65535}, n \in 0 .. 2, frag \in {0, 1}, cut \in {0} }
  \cup { Datagram(h, 53, <<7>>, 0, cut) : h \in Hosts, cut \in 1 .. 8 }
  \cup { [Datagram(h, 53, <<7, 7>>, 0, 0) EXCEPT !.bytes[4] = 2, !.whole = FALSE] : h \in Hosts }
=============================================================================
