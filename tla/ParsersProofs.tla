----------------------------- MODULE ParsersProofs -----------------------------
(***************************************************************************)
(* Theorems about Parsers, for every input: addresses and datagrams are    *)
(* read as they were written, on either side of a parent; sniffSNI stays   *)
(* within its bytes; and a port specification is taken for what it says.   *)
(***************************************************************************)
EXTENDS Parsers, FiniteSetTheorems, SequenceTheorems, WellFoundedInduction, TLAPS

----------------------------------------------------------------------------
(* The datagrams' addresses, for every sequence of bytes.                  *)

(* What is left of a sequence, and a slice of that.                        *)
LEMMA Rest ==
  ASSUME NEW S, NEW b \in Seq(S), NEW i \in Nat \ {0}, i <= Len(b) + 1
  PROVE  /\ From(b, i) \in Seq(S) /\ Len(From(b, i)) = Len(b) - i + 1
         /\ \A j \in 1 .. Len(b) - i + 1 : From(b, i)[j] = b[i + j - 1]
<1>1. Len(b) \in Nat /\ \A j \in 1 .. Len(b) : b[j] \in S
  BY LenProperties
<1>2. i \in Int /\ Len(b) \in Int /\ \A j \in i .. Len(b) : b[j] \in S
  BY <1>1
<1> QED
  BY <1>1, <1>2, SubSeqProperties DEF From

LEMMA SliceOfRest ==
  ASSUME NEW S, NEW b \in Seq(S), NEW i \in Nat \ {0}, i <= Len(b) + 1,
         NEW m \in Nat \ {0}, NEW n \in Nat, m <= n + 1, n <= Len(b) - i + 1
  PROVE  SubSeq(From(b, i), m, n) = SubSeq(b, i + m - 1, i + n - 1)
<1>1. /\ Len(b) \in Nat /\ \A j \in 1 .. Len(b) : b[j] \in S
      /\ From(b, i) \in Seq(S) /\ Len(From(b, i)) = Len(b) - i + 1
      /\ \A j \in 1 .. Len(b) - i + 1 : From(b, i)[j] = b[i + j - 1]
  BY LenProperties, Rest
<1> DEFINE t == SubSeq(From(b, i), m, n)  u == SubSeq(b, i + m - 1, i + n - 1)
<1>2. /\ t \in Seq(S) /\ Len(t) = n - m + 1
      /\ \A j \in 1 .. n - m + 1 : t[j] = From(b, i)[m + j - 1]
  <2>1. \A j \in m .. n : From(b, i)[j] \in S
    BY <1>1
  <2>2. m \in Int /\ n \in Int
    OBVIOUS
  <2> QED
    BY <2>1, <2>2, SubSeqProperties
<1>3. /\ u \in Seq(S) /\ Len(u) = n - m + 1
      /\ \A j \in 1 .. n - m + 1 : u[j] = b[i + m + j - 2]
  <2>1. \A j \in i + m - 1 .. i + n - 1 : b[j] \in S
    BY <1>1
  <2>2. i + m - 1 \in Int /\ i + n - 1 \in Int
    OBVIOUS
  <2>3. /\ u \in Seq(S) /\ Len(u) = IF i + m - 1 <= i + n - 1 THEN (i + n - 1) - (i + m - 1) + 1 ELSE 0
        /\ \A j \in 1 .. (i + n - 1) - (i + m - 1) + 1 : u[j] = b[i + m - 1 + j - 1]
    BY <2>1, <2>2, SubSeqProperties
  <2> QED
    BY <2>3
<1> HIDE DEF t, u
<1>4. ASSUME NEW j \in 1 .. n - m + 1 PROVE t[j] = u[j]
  <2>1. /\ m + j - 1 \in 1 .. Len(b) - i + 1
        /\ i + (m + j - 1) - 1 = i + m + j - 2
    BY <1>1
  <2>2. From(b, i)[m + j - 1] = b[i + (m + j - 1) - 1]
    BY <1>1, <2>1
  <2> QED
    BY <1>2, <1>3, <2>1, <2>2
<1>5. t = u
  BY <1>2, <1>3, <1>4, SeqEqual
<1> QED
  BY <1>5 DEF t, u

(* The lengths by the tag of an address that is known.                     *)
LEMMA HostIs ==
  ASSUME NEW b \in Seq(Octet), b # <<>>, KnownTag(b), b[1] = 3 => Len(b) > 1
  PROVE  /\ HostAt(b) \in {2, 3} /\ HostAt(b) <= Len(b) + 1 /\ HostLen(b) \in Octet
         /\ HostAt(b) + HostLen(b) >= 3
<1>1. Len(b) \in Nat \ {0} /\ (b[1] = 3 => b[2] \in Octet)
  <2>1. Len(b) \in Nat \ {0} /\ \A j \in 1 .. Len(b) : b[j] \in Octet
    BY EmptySeq, LenProperties
  <2> QED
    BY <2>1
<1>2. CASE b[1] = 1
  <2>1. HostAt(b) = 2 /\ HostLen(b) = 4
    BY <1>2 DEF HostAt, HostLen
  <2> QED
    BY <1>1, <2>1 DEF Octet
<1>3. CASE b[1] = 4
  <2>1. HostAt(b) = 2 /\ HostLen(b) = 16
    BY <1>3 DEF HostAt, HostLen
  <2> QED
    BY <1>1, <2>1 DEF Octet
<1>4. CASE b[1] = 3
  <2>1. HostAt(b) = 3 /\ HostLen(b) = b[2]
    BY <1>4 DEF HostAt, HostLen
  <2> QED
    <3>1. Len(b) \in Nat /\ Len(b) > 1 /\ b[2] \in 0 .. 255
      BY <1>1, <1>4 DEF Octet
    <3> DEFINE m == b[2]
    <3>2. HostAt(b) = 3 /\ HostLen(b) = m /\ m \in 0 .. 255
      BY <2>1, <3>1
    <3> HIDE DEF m
    <3> QED
      BY <3>1, <3>2 DEF Octet
<1> QED
  BY <1>2, <1>3, <1>4 DEF KnownTag

(* The reader of requests, which takes an address off a stream, and the    *)
(* reader of datagrams, which indexes a buffer, agree on every sequence of *)
(* bytes: readSocksAddr and parseSocksUDPDest.                             *)
THEOREM ReadersAlwaysAgree ==
  ASSUME NEW s \in Seq(Octet)
  PROVE  readSocksAddr(s) = parseSocksUDPDest(s)
<1>1. Len(s) \in Nat /\ (s # <<>> => Len(s) > 0) /\ Len(<<>>) = 0
  BY EmptySeq, LenProperties
<1>2. CASE s = <<>>
  <2>1. ~Tagged(s, 1) /\ ~Tagged(s, 3) /\ ~Tagged(s, 4)
    BY <1>2 DEF Tagged
  <2>2. readSocksAddr(s) = Bad
    BY <2>1 DEF readSocksAddr
  <2> QED
    BY <1>1, <1>2, <2>2 DEF parseSocksUDPDest, decodeSocksUDPAddr
<1>3. CASE s # <<>> /\ ~KnownTag(s)
  <2>1. ~Tagged(s, 1) /\ ~Tagged(s, 3) /\ ~Tagged(s, 4)
    BY <1>3 DEF Tagged, KnownTag
  <2>2. readSocksAddr(s) = Bad
    BY <2>1 DEF readSocksAddr
  <2> QED
    BY <1>3, <2>2 DEF parseSocksUDPDest, decodeSocksUDPAddr
<1>4. CASE s # <<>> /\ s[1] = 3 /\ ~(Len(s) > 1)
  <2>1. ~Tagged(s, 1) /\ ~Tagged(s, 4)
    BY <1>4 DEF Tagged
  <2>2. readSocksAddr(s) = Bad
    BY <1>4, <2>1 DEF readSocksAddr
  <2> QED
    BY <1>1, <1>4, <2>2 DEF parseSocksUDPDest, decodeSocksUDPAddr
<1>5. CASE s # <<>> /\ KnownTag(s) /\ (s[1] = 3 => Len(s) > 1)
  <2> DEFINE at == HostAt(s)  n == HostLen(s)  t == From(s, at)
  <2>1. at \in {2, 3} /\ at <= Len(s) + 1 /\ n \in Octet /\ at + n >= 3
    BY <1>5, HostIs
  <2>2. readSocksAddr(s) =
          IF n < 0 \/ Len(t) < n + 2 THEN Bad
          ELSE [ok |-> TRUE, host |-> Denoted([form |-> Form(s), bytes |-> SubSeq(t, 1, n)]),
                port |-> Word(t, n + 1), rest |-> From(t, n + 3)]
    <3>1. (CASE Tagged(s, 1) -> 4 [] Tagged(s, 4) -> 16
             [] Tagged(s, 3) /\ Len(s) > 1 -> ReadLen(s) [] OTHER -> -1) = n
      <4>1. CASE s[1] = 1
        BY <1>5, <4>1 DEF Tagged, HostLen
      <4>2. CASE s[1] = 4
        BY <1>5, <4>2 DEF Tagged, HostLen
      <4>3. CASE s[1] = 3
        BY <1>5, <4>3 DEF Tagged, HostLen, ReadLen
      <4> QED
        BY <1>5, <4>1, <4>2, <4>3 DEF KnownTag
    <3>2. (IF Tagged(s, 3) THEN 3 ELSE 2) = at
      BY <1>5 DEF Tagged, HostAt
    <3> HIDE DEF n, at
    <3> QED
      BY <3>1, <3>2 DEF readSocksAddr
  <2> HIDE DEF at, n
  <2>3. at \in Nat \ {0} /\ n \in Nat /\ at + n >= 3 /\ at <= Len(s) + 1
    BY <2>1 DEF Octet
  <2>4. t \in Seq(Octet) /\ Len(t) = Len(s) - at + 1 /\ \A k \in 1 .. Len(s) - at + 1 : t[k] = s[at + k - 1]
    BY <2>3, Rest
  <2> HIDE DEF t
  <2>5. Len(t) < n + 2 <=> Len(s) < at + n + 1
    BY <1>1, <2>3, <2>4
  <2>6. parseSocksUDPDest(s) =
          IF Len(s) < at + n + 1 THEN Bad
          ELSE [ok |-> TRUE, host |-> Denoted([form |-> Form(s), bytes |-> SubSeq(s, at, at + n - 1)]),
                port |-> Word(s, at + n), rest |-> From(s, at + n + 2)]
    <3>1. TooShort(s) <=> Len(s) < at + n + 1
      BY DEF TooShort, at, n
    <3>2. Len(s) < 4 => Len(s) < at + n + 1
      BY <1>1, <2>3
    <3>3. Address(s) =
            [ok |-> TRUE, host |-> Denoted([form |-> Form(s), bytes |-> SubSeq(s, at, at + n - 1)]),
             port |-> Word(s, at + n), rest |-> From(s, at + n + 2)]
      BY DEF Address, at, n
    <3> QED
      BY <1>5, <3>1, <3>2, <3>3 DEF parseSocksUDPDest, decodeSocksUDPAddr
  <2>7. ASSUME ~(Len(s) < at + n + 1)
        PROVE  /\ SubSeq(t, 1, n) = SubSeq(s, at, at + n - 1)
               /\ Word(t, n + 1) = Word(s, at + n) /\ From(t, n + 3) = From(s, at + n + 2)
    <3>1. n <= Len(s) - at + 1 /\ n + 3 <= Len(t) + 1 /\ Len(t) \in Nat
      BY <1>1, <2>3, <2>4, <2>7
    <3>2. SubSeq(t, 1, n) = SubSeq(s, at + 1 - 1, at + n - 1)
      <4>1. 1 \in Nat \ {0} /\ 1 <= n + 1
        BY <2>3
      <4>2. SubSeq(From(s, at), 1, n) = SubSeq(s, at + 1 - 1, at + n - 1)
        BY <2>3, <3>1, <4>1, SliceOfRest
      <4> QED
        BY <4>2 DEF t
    <3>3. Word(t, n + 1) = Word(s, at + n)
      <4>1. t[n + 1] = s[at + n] /\ t[(n + 1) + 1] = s[(at + n) + 1]
        BY <1>1, <2>3, <2>4, <3>1
      <4> QED
        BY <4>1 DEF Word
    <3>4. SubSeq(t, n + 3, Len(t)) = SubSeq(s, at + (n + 3) - 1, at + Len(t) - 1)
      <4> DEFINE k == n + 3  l == Len(t)
      <4>1. k \in Nat \ {0} /\ l \in Nat /\ k <= l + 1 /\ l <= Len(s) - at + 1
        BY <1>1, <2>3, <2>4, <3>1
      <4> HIDE DEF k, l
      <4>2. SubSeq(From(s, at), k, l) = SubSeq(s, at + k - 1, at + l - 1)
        BY <2>3, <4>1, SliceOfRest
      <4> QED
        BY <4>2 DEF k, l, t
    <3>5. at + 1 - 1 = at /\ at + (n + 3) - 1 = at + n + 2 /\ at + Len(t) - 1 = Len(s)
      BY <1>1, <2>3, <2>4
    <3> QED
      BY <3>2, <3>3, <3>4, <3>5 DEF From
  <2>8. ~(n < 0)
    BY <2>3
  <2> QED
    <3>1. CASE Len(t) < n + 2
      BY <2>2, <2>5, <2>6, <3>1
    <3>2. CASE ~(Len(t) < n + 2)
      BY <2>2, <2>7, <2>5, <2>6, <2>8, <3>2
    <3> QED
      BY <3>1, <3>2
<1> QED
  BY <1>3, <1>2, <1>4, <1>5

(* Sequences put together, and a slice of each.                            *)
LEMMA Joined ==
  ASSUME NEW S, NEW p \in Seq(S), NEW q \in Seq(S)
  PROVE  /\ p \o q \in Seq(S) /\ Len(p \o q) = Len(p) + Len(q)
         /\ \A i \in 1 .. Len(p) : (p \o q)[i] = p[i]
         /\ \A i \in 1 .. Len(q) : (p \o q)[Len(p) + i] = q[i]
         /\ From(p \o q, Len(p) + 1) = q
<1>1. /\ p \o q \in Seq(S) /\ Len(p \o q) = Len(p) + Len(q) /\ Len(p) \in Nat /\ Len(q) \in Nat
      /\ \A i \in 1 .. Len(p) + Len(q) : (p \o q)[i] = IF i <= Len(p) THEN p[i] ELSE q[i - Len(p)]
  BY ConcatProperties, LenProperties
<1>2. /\ \A i \in 1 .. Len(p) : (p \o q)[i] = p[i]
      /\ \A i \in 1 .. Len(q) : (p \o q)[Len(p) + i] = q[i]
  BY <1>1
<1>3. From(p \o q, Len(p) + 1) = q
  <2> DEFINE b == p \o q  k == Len(p) + 1
  <2>1. k \in Nat \ {0} /\ k <= Len(b) + 1 /\ Len(b) - k + 1 = Len(q) /\ b \in Seq(S)
    BY <1>1
  <2>2. /\ From(b, k) \in Seq(S) /\ Len(From(b, k)) = Len(b) - k + 1
        /\ \A j \in 1 .. Len(b) - k + 1 : From(b, k)[j] = b[k + j - 1]
    BY <2>1, Rest
  <2>3. \A j \in 1 .. Len(q) : b[k + j - 1] = q[j]
    BY <1>1
  <2> HIDE DEF b, k
  <2>4. Len(From(b, k)) = Len(q) /\ \A j \in 1 .. Len(From(b, k)) : From(b, k)[j] = q[j]
    BY <2>1, <2>2, <2>3
  <2>5. From(b, k) = q
    BY <2>2, <2>4, SeqEqual
  <2> QED
    BY <2>5 DEF b, k
<1> QED
  BY <1>1, <1>2, <1>3

(* The addresses of datagrams, and what a client sends.                    *)
Hosts == { h \in [form : {"v4", "v6", "name"}, bytes : Seq(Octet)] :
             Len(h.bytes) \in CASE h.form = "v4" -> {4} [] h.form = "v6" -> {16} [] h.form = "name" -> Octet }
Sent(host, port, payload) == Header \o Wire(host, port) \o payload

LEMMA HighByte ==
  ASSUME NEW n \in Int, NEW q \in Int, NEW r \in Int, n = 256 * q + r,
         0 <= r, r <= 255, 0 <= n, n <= 65535
  PROVE  q \in Octet
<1>1. 0 <= q /\ q <= 255
  OBVIOUS
<1> QED
  BY <1>1 DEF Octet

LEMMA PortWritten ==
  ASSUME NEW port \in TwoBytes
  PROVE  U16(port) \in Seq(Octet) /\ Len(U16(port)) = 2 /\ 256 * U16(port)[1] + U16(port)[2] = port
<1> DEFINE q == port \div 256  r == port % 256
<1>1. port \in Nat /\ port <= 65535 /\ port = 256 * q + r /\ q \in Int /\ r \in 0 .. 255
  BY DEF TwoBytes
<1> HIDE DEF q, r
<1>2. q \in Octet
  <2>1. port \in Int /\ r \in Int /\ 0 <= r /\ r <= 255 /\ 0 <= port
    BY <1>1
  <2> QED
    BY <1>1, <2>1, HighByte
<1>3. q % 256 = q
  BY <1>2 DEF Octet
<1>4. U16(port) = <<q, r>>
  BY <1>3 DEF U16, q, r
<1>5. r \in Octet
  BY <1>1 DEF Octet
<1>6. <<q, r>> \in Seq(Octet) /\ Len(<<q, r>>) = 2 /\ <<q, r>>[1] = q /\ <<q, r>>[2] = r
  BY <1>2, <1>5
<1> QED
  <2>1. U16(port)[1] = q /\ U16(port)[2] = r /\ U16(port) \in Seq(Octet) /\ Len(U16(port)) = 2
    BY <1>4, <1>6
  <2> QED
    BY <1>1, <2>1

(* An address is read back as it was written, whatever follows it.         *)
LEMMA ReadBack ==
  ASSUME NEW host \in Hosts, NEW port \in TwoBytes, NEW payload \in Seq(Octet)
  PROVE  /\ Wire(host, port) \in Seq(Octet)
         /\ decodeSocksUDPAddr(Wire(host, port) \o payload) =
              [ok |-> TRUE, host |-> Denoted(host), port |-> port, rest |-> payload]
<1> DEFINE tag == <<Tag(host.form)>> \o (IF host.form = "name" THEN <<Len(host.bytes)>> ELSE <<>>)
           h == host.bytes
           e == tag \o h \o U16(port)
           b == e \o payload
<1>1. /\ h \in Seq(Octet) /\ Len(h) \in Octet /\ host.form \in {"v4", "v6", "name"}
      /\ host = [form |-> host.form, bytes |-> h]
      /\ host.form = "v4" => Len(h) = 4
      /\ host.form = "v6" => Len(h) = 16
  <2>1. host \in [form : {"v4", "v6", "name"}, bytes : Seq(Octet)]
    BY DEF Hosts
  <2>2. Len(h) \in {4} \cup {16} \cup Octet
    BY <2>1 DEF Hosts
  <2>3. (host.form = "v4" => Len(h) = 4) /\ (host.form = "v6" => Len(h) = 16)
    BY DEF Hosts
  <2> QED
    BY <2>1, <2>2, <2>3 DEF Octet
<1>2. /\ tag \in Seq(Octet) /\ Len(tag) = (IF host.form = "name" THEN 2 ELSE 1)
      /\ tag[1] = Tag(host.form) /\ (host.form = "name" => tag[2] = Len(h))
  <2>1. Tag(host.form) \in Octet
    BY <1>1 DEF Tag, Octet
  <2>2. CASE host.form = "name"
    <3>1. <<Tag(host.form)>> \in Seq(Octet) /\ <<Len(h)>> \in Seq(Octet)
      BY <1>1, <2>1
    <3>2. tag = <<Tag(host.form)>> \o <<Len(h)>>
      BY <2>2
    <3> QED
      BY <2>2, <3>1, <3>2, Joined
  <2>3. CASE host.form # "name"
    <3>1. tag = <<Tag(host.form)>> \o <<>> /\ <<Tag(host.form)>> \in Seq(Octet)
      BY <2>1, <2>3
    <3>2. tag = <<Tag(host.form)>>
      BY <3>1, ConcatEmptySeq
    <3> QED
      BY <2>1, <2>3, <3>2
  <2> QED
    BY <2>2, <2>3
<1>3. Wire(host, port) = e
  BY DEF Wire
<1>4. U16(port) \in Seq(Octet) /\ Len(U16(port)) = 2 /\ 256 * U16(port)[1] + U16(port)[2] = port
  BY PortWritten
<1> DEFINE a == Len(tag)  n == Len(h)
<1>5. a \in {1, 2} /\ n \in Nat /\ Len(payload) \in Nat /\ h \in Seq(Octet) /\ tag \in Seq(Octet)
  BY <1>1, <1>2, LenProperties
<1> HIDE DEF tag, h
<1>6. /\ e \in Seq(Octet) /\ Len(e) = a + n + 2
      /\ \A i \in 1 .. a : e[i] = tag[i]
      /\ \A i \in 1 .. n : e[a + i] = h[i]
      /\ \A i \in 1 .. 2 : e[a + n + i] = U16(port)[i]
  <2>1. /\ tag \o h \in Seq(Octet) /\ Len(tag \o h) = a + n
        /\ \A i \in 1 .. a : (tag \o h)[i] = tag[i]
        /\ \A i \in 1 .. n : (tag \o h)[a + i] = h[i]
    BY <1>5, Joined
  <2> DEFINE th == tag \o h  u == U16(port)
  <2>2. th \in Seq(Octet) /\ u \in Seq(Octet) /\ Len(u) = 2 /\ e = th \o u
    BY <1>4, <2>1
  <2> HIDE DEF th, u, e
  <2>3. /\ th \o u \in Seq(Octet) /\ Len(th \o u) = Len(th) + Len(u)
        /\ \A i \in 1 .. Len(th) : (th \o u)[i] = th[i]
        /\ \A i \in 1 .. Len(u) : (th \o u)[Len(th) + i] = u[i]
    <3>1. th \in Seq(Octet) /\ u \in Seq(Octet)
      BY <2>2
    <3> QED
      BY <3>1, Joined
  <2>4. /\ Len(th) = a + n
        /\ \A i \in 1 .. a : th[i] = tag[i]
        /\ \A i \in 1 .. n : th[a + i] = h[i]
    BY <2>1 DEF th
  <2> HIDE DEF a, n
  <2>5. /\ e \in Seq(Octet) /\ Len(e) = a + n + 2
        /\ \A i \in 1 .. a + n : e[i] = th[i]
        /\ \A i \in 1 .. 2 : e[a + n + i] = u[i]
    BY <2>2, <2>3, <2>4
  <2>6. \A i \in 1 .. a : i \in 1 .. a + n
    BY <1>5
  <2>7. \A i \in 1 .. n : a + i \in 1 .. a + n
    BY <1>5
  <2> QED
    BY <2>4, <2>5, <2>6, <2>7 DEF u
<1> HIDE DEF e
<1>7. /\ b \in Seq(Octet) /\ Len(b) = a + n + 2 + Len(payload)
      /\ \A i \in 1 .. a + n + 2 : b[i] = e[i]
      /\ From(b, a + n + 2 + 1) = payload
  <2>1. /\ b \in Seq(Octet) /\ Len(b) = Len(e) + Len(payload)
        /\ \A i \in 1 .. Len(e) : b[i] = e[i]
        /\ From(b, Len(e) + 1) = payload
    <3>1. e \in Seq(Octet)
      BY <1>6
    <3> QED
      BY <3>1, Joined
  <2> QED
    BY <1>6, <2>1
<1> HIDE DEF b
<1>8. b # <<>>
  BY <1>5, <1>7, EmptySeq
<1>9. KnownTag(b) /\ HostAt(b) = a + 1 /\ HostLen(b) = n /\ Form(b) = host.form /\ b # <<>>
  <2>1. b[1] = Tag(host.form) /\ (host.form = "name" => b[2] = n) /\ a = IF host.form = "name" THEN 2 ELSE 1
    <3>1. b[1] = e[1] /\ e[1] = tag[1]
      BY <1>5, <1>6, <1>7
    <3>2. host.form = "name" => a = 2 /\ b[2] = e[2] /\ e[2] = tag[2]
      BY <1>2, <1>5, <1>6, <1>7
    <3> QED
      BY <1>2, <3>1, <3>2
  <2>2. (host.form = "v4" => n = 4) /\ (host.form = "v6" => n = 16)
    BY <1>1
  <2> HIDE DEF n, a
  <2>3. CASE host.form = "v4"
    <3>1. b[1] = 1 /\ n = 4 /\ a = 1
      BY <2>1, <2>2, <2>3 DEF Tag
    <3> QED
      <4>1. KnownTag(b) /\ HostAt(b) = 2 /\ HostLen(b) = 4 /\ Form(b) = "v4"
        BY <3>1 DEF KnownTag, HostAt, HostLen, Form
      <4> QED
        BY <1>8, <2>3, <3>1, <4>1
  <2>4. CASE host.form = "v6"
    <3>1. b[1] = 4 /\ n = 16 /\ a = 1
      BY <2>1, <2>2, <2>4 DEF Tag
    <3> QED
      <4>1. KnownTag(b) /\ HostAt(b) = 2 /\ HostLen(b) = 16 /\ Form(b) = "v6"
        BY <3>1 DEF KnownTag, HostAt, HostLen, Form
      <4> QED
        BY <1>8, <2>4, <3>1, <4>1
  <2>5. CASE host.form = "name"
    <3>1. b[1] = 3 /\ b[2] = n /\ a = 2
      BY <2>1, <2>5 DEF Tag
    <3> QED
      <4>1. KnownTag(b) /\ HostAt(b) = 3 /\ HostLen(b) = b[2] /\ Form(b) = "name"
        BY <3>1 DEF KnownTag, HostAt, HostLen, Form
      <4> QED
        BY <1>8, <2>5, <3>1, <4>1
  <2> QED
    BY <1>1, <2>3, <2>4, <2>5
<1>10. SubSeq(b, a + 1, a + n) = h
  <2> DEFINE t == SubSeq(b, a + 1, a + n)
  <2>1. \A i \in 1 .. Len(b) : b[i] \in Octet
    BY <1>7, LenProperties
  <2>2. /\ a + 1 \in Int /\ a + n \in Int /\ \A i \in a + 1 .. a + n : b[i] \in Octet
        /\ (a + n) - (a + 1) + 1 = n /\ (a + 1 <= a + n <=> n # 0)
    BY <1>5, <1>7, <2>1
  <2>3. /\ t \in Seq(Octet) /\ Len(t) = (IF a + 1 <= a + n THEN (a + n) - (a + 1) + 1 ELSE 0)
        /\ \A i \in 1 .. (a + n) - (a + 1) + 1 : t[i] = b[a + 1 + i - 1]
    BY <2>2, SubSeqProperties
  <2>4. ASSUME NEW i \in 1 .. n PROVE b[a + 1 + i - 1] = h[i]
    <3>1. a + 1 + i - 1 = a + i /\ a + i \in 1 .. a + n + 2
      BY <1>5
    <3> QED
      BY <1>6, <1>7, <3>1
  <2> HIDE DEF t
  <2>5. Len(t) = n /\ \A i \in 1 .. n : t[i] = h[i]
    BY <1>5, <2>2, <2>3, <2>4
  <2>6. t = h
    BY <1>5, <2>3, <2>5, SeqEqual DEF n
  <2> QED
    BY <2>6 DEF t
<1>11. Word(b, a + n + 1) = port
  <2>1. b[a + n + 1] = U16(port)[1] /\ b[(a + n + 1) + 1] = U16(port)[2]
    BY <1>5, <1>6, <1>7
  <2> QED
    BY <1>4, <2>1 DEF Word
<1>12. decodeSocksUDPAddr(b) =
         [ok |-> TRUE, host |-> Denoted(host), port |-> port, rest |-> payload]
  <2>1. a + 1 + n - 1 = a + n /\ a + 1 + n = a + n + 1 /\ a + 1 + n + 2 = a + n + 2 + 1
    BY <1>5
  <2>2. Address(b) = [ok |-> TRUE, host |-> Denoted([form |-> host.form, bytes |-> h]),
                      port |-> port, rest |-> payload]
    BY <1>7, <1>9, <1>10, <1>11, <2>1 DEF Address
  <2>3. ~TooShort(b) /\ ~(Len(b) < 4)
    <3>1. a + n >= 2
      <4>1. host.form # "name" => n = 4 \/ n = 16
        BY <1>1
      <4>2. host.form = "name" => a = 2
        BY <1>2
      <4> HIDE DEF a, n
      <4> QED
        BY <1>5, <4>1, <4>2
    <3> HIDE DEF a, n
    <3>2. ~(Len(b) < 4) /\ ~(Len(b) < (a + 1) + n + 1)
      BY <1>5, <1>7, <3>1
    <3> QED
      BY <1>9, <3>2 DEF TooShort
  <2> QED
    BY <1>1, <1>9, <2>2, <2>3 DEF decodeSocksUDPAddr
<1> QED
  BY <1>3, <1>6, <1>12 DEF b

(* Behind the three bytes of its header, a datagram is what was encoded.   *)
LEMMA Arrived ==
  ASSUME NEW host \in Hosts, NEW port \in TwoBytes, NEW payload \in Seq(Octet)
  PROVE  /\ Sent(host, port, payload)[3] = 0
         /\ From(Sent(host, port, payload), 4) = Wire(host, port) \o payload
<1> DEFINE e == Wire(host, port)
<1>1. e \in Seq(Octet)
  BY ReadBack
<1>2. Header \in Seq(Octet) /\ Len(Header) = 3 /\ Header[3] = 0
  BY DEF Header, Octet
<1> HIDE DEF e
<1>3. Sent(host, port, payload) = Header \o (e \o payload)
  <2>1. Sent(host, port, payload) = (Header \o e) \o payload
    BY DEF Sent, e
  <2> QED
    BY <1>1, <1>2, <2>1, ConcatAssociative
<1> DEFINE x == e \o payload
<1>4. x \in Seq(Octet)
  BY <1>1, Joined
<1> HIDE DEF x
<1>5. From(Header \o x, Len(Header) + 1) = x /\ \A i \in 1 .. Len(Header) : (Header \o x)[i] = Header[i]
  <2>1. Header \in Seq(Octet)
    BY <1>2
  <2> QED
    BY <1>4, <2>1, Joined
<1>6. From(Header \o x, 4) = x /\ (Header \o x)[3] = 0
  <2>1. Len(Header) + 1 = 4 /\ 3 \in 1 .. Len(Header)
    BY <1>2
  <2> QED
    BY <1>2, <1>5, <2>1
<1> QED
  BY <1>3, <1>6 DEF x, e

(* What an address denotes is an address, and one of IPv4 if it is mapped. *)
LEMMA DenotedIs ==
  ASSUME NEW host \in Hosts
  PROVE  Denoted(host) \in Hosts /\ (host.form # "v6" => Denoted(host) = host)
<1>1. CASE host.form = "v6" /\ IsPrefix(Mapped, host.bytes)
  <2>1. host.bytes \in Seq(Octet) /\ Len(host.bytes) = 16
    BY <1>1 DEF Hosts
  <2> DEFINE h == host.bytes
  <2> HIDE DEF h
  <2>2. From(h, 13) \in Seq(Octet) /\ Len(From(h, 13)) = 4
    <3> DEFINE k == 13
    <3>1. h \in Seq(Octet) /\ k \in Nat \ {0} /\ k <= Len(h) + 1 /\ Len(h) - k + 1 = 4
      BY <2>1 DEF h
    <3> HIDE DEF k
    <3>2. From(h, k) \in Seq(Octet) /\ Len(From(h, k)) = 4
      BY <3>1, Rest
    <3> QED
      BY <3>2 DEF k
  <2>3. Denoted(host) = [form |-> "v4", bytes |-> From(h, 13)]
    BY <1>1 DEF Denoted, h
  <2> DEFINE r == From(h, 13)
  <2> HIDE DEF r
  <2>4. [form |-> "v4", bytes |-> r] \in Hosts
    BY <2>2 DEF Hosts, r
  <2> QED
    BY <1>1, <2>3, <2>4 DEF r
<1> QED
  BY <1>1 DEF Denoted

(* What the client is sent for a peer that has four bytes.                 *)
LEMMA ReplyIs ==
  ASSUME NEW ip \in Seq(Octet), Len(ip) = 4, NEW port \in TwoBytes, NEW payload \in Seq(Octet)
  PROVE  buildSocksUDPReply(ip, port, payload) = Sent([form |-> "v4", bytes |-> ip], port, payload)
<1> DEFINE u == U16(port)  one == <<1>>
<1>1. u \in Seq(Octet) /\ Header \in Seq(Octet) /\ one \in Seq(Octet)
  BY PortWritten DEF Header, Octet
<1>2. Wire([form |-> "v4", bytes |-> ip], port) = one \o ip \o u
  <2>1. Wire([form |-> "v4", bytes |-> ip], port) = one \o <<>> \o ip \o u
    <3>1. Tag("v4") = 1
      BY DEF Tag
    <3> QED
      BY <3>1 DEF Wire
  <2>2. one \o <<>> = one
    BY <1>1, ConcatEmptySeq
  <2> QED
    BY <2>1, <2>2
<1> HIDE DEF u, one
<1>3. Header \o (one \o ip \o u) = Header \o one \o ip \o u
  <2> DEFINE p == one \o ip
  <2>1. p \in Seq(Octet)
    BY <1>1, Joined
  <2>2. (Header \o one) \o ip = Header \o p
    BY <1>1, ConcatAssociative
  <2> HIDE DEF p
  <2>3. (Header \o p) \o u = Header \o (p \o u)
    BY <1>1, <2>1, ConcatAssociative
  <2> QED
    BY <2>2, <2>3 DEF p
<1>4. buildSocksUDPReply(ip, port, payload) = Header \o one \o ip \o u \o payload
  BY DEF buildSocksUDPReply, ReplyHost, u, one
<1> QED
  BY <1>2, <1>3, <1>4 DEF Sent

LEMMA HostsAre == \A h : IsHost(h) => h \in Hosts
<1> SUFFICES ASSUME NEW h, IsHost(h) PROVE h \in Hosts
  OBVIOUS
<1>1. /\ h = [form |-> h.form, bytes |-> h.bytes] /\ h.form \in {"v4", "v6", "name"}
      /\ h.bytes \in Seq(Octet)
      /\ Len(h.bytes) \in (CASE h.form = "v4" -> {4} [] h.form = "v6" -> {16} [] h.form = "name" -> Octet)
  BY DEF IsHost
<1> QED
  BY <1>1 DEF Hosts, Octet

LEMMA DenotedTwice ==
  ASSUME NEW host \in Hosts
  PROVE  Denoted(Denoted(host)) = Denoted(host)
<1>1. CASE Denoted(host).form = "v6"
  <2>1. Denoted(host) = host
    BY <1>1 DEF Denoted
  <2> QED
    BY <2>1
<1>2. CASE Denoted(host).form # "v6"
  BY <1>2, DenotedIs
<1> QED
  BY <1>1, <1>2

LEMMA FourBytes ==
  ASSUME NEW ip \in Seq(Octet), Len(ip) = 4
  PROVE  [form |-> "v4", bytes |-> ip] \in Hosts
BY DEF Hosts

(* What a name spells is an IP; a host that spells none is kept.           *)
LEMMA ParsedIPIs ==
  ASSUME NEW host \in Hosts, Denoted(host) = host
  PROVE  /\ ParseIP(host) \in Hosts /\ Denoted(ParseIP(host)) = ParseIP(host)
         /\ host.form # "name" => ParseIP(host) = host
         /\ ParseIP(host).form = "name" => ParseIP(host) = host
<1>1. CASE host.form = "name" /\ host.bytes \in DOMAIN Literals
  <2>1. ParseIP(host) = Literals[host.bytes]
    BY <1>1 DEF ParseIP
  <2>2. IsIP(Literals[host.bytes])
    BY <1>1, ParsersAssumption
  <2>3. IsHost(ParseIP(host)) /\ ParseIP(host).form # "name" /\ Denoted(ParseIP(host)) = ParseIP(host)
    BY <2>1, <2>2 DEF IsIP
  <2> QED
    BY <1>1, <2>3, HostsAre
<1>2. CASE ~(host.form = "name" /\ host.bytes \in DOMAIN Literals)
  BY <1>2 DEF ParseIP
<1> QED
  BY <1>1, <1>2

(* What is left of a name in a pair of brackets is a name.                 *)
Unwrapped(host) == [form |-> "name", bytes |-> Inside(host.bytes)]
LEMMA UnwrappedIs ==
  ASSUME NEW host \in Hosts, host.form = "name", Enclosed(host.bytes)
  PROVE  Unwrapped(host) \in Hosts /\ [host EXCEPT !.bytes = Inside(@)] = Unwrapped(host)
<1> DEFINE s == host.bytes  n == Len(s)  t == SubSeq(s, 2, n - 1)
<1>1. /\ s \in Seq(Octet) /\ n \in 0 .. 255 /\ n >= 2
      /\ host = [form |-> "name", bytes |-> s]
  BY DEF Hosts, Enclosed, Octet
<1> HIDE DEF s
<1>2. \A i \in 2 .. n - 1 : s[i] \in Octet
  BY <1>1, LenProperties
<1>3. t \in Seq(Octet) /\ Len(t) = n - 2
  <2>1. 2 \in Int /\ n - 1 \in Int /\ (n - 1) - 2 + 1 = n - 2 /\ (2 <= n - 1 \/ n - 2 = 0)
    <3> HIDE DEF n, t
    <3> QED
      BY <1>1
  <2>2. t \in Seq(Octet) /\ Len(t) = IF 2 <= n - 1 THEN (n - 1) - 2 + 1 ELSE 0
    BY <1>2, <2>1, SubSeqProperties
  <2> HIDE DEF n, t
  <2> QED
    BY <1>1, <2>1, <2>2
<1>4. Len(t) \in Octet
  <2> HIDE DEF t, n
  <2> QED
    BY <1>1, <1>3 DEF Octet
<1>5. Inside(host.bytes) = t
  BY DEF Inside, s
<1> HIDE DEF t, n
<1>6. Unwrapped(host) = [form |-> "name", bytes |-> t]
  BY <1>5 DEF Unwrapped
<1>7. [form |-> "name", bytes |-> t] \in Hosts
  BY <1>3, <1>4 DEF Hosts
<1>8. [host EXCEPT !.bytes = Inside(@)] = [form |-> "name", bytes |-> t]
  BY <1>1, <1>5
<1> QED
  BY <1>6, <1>7, <1>8

(* What is encoded of a host that was read.                                *)
LEMMA EncodedIs ==
  ASSUME NEW host \in Hosts, Denoted(host) = host, NEW port \in TwoBytes
  PROVE  encodeSocksUDPAddr(host, port) =
           IF Clean(host) THEN [ok |-> TRUE, bytes |-> Wire(ParseIP(host), port)]
           ELSE IF Enclosed(host.bytes) THEN [ok |-> TRUE, bytes |-> Wire(ParseIP(Unwrapped(host)), port)]
           ELSE Bad
<1>1. ASSUME NEW h \in Hosts
      PROVE  ~(h.form = "name" /\ Len(h.bytes) > 255)
  <2>1. h.form = "name" => Len(h.bytes) \in Octet
    BY DEF Hosts
  <2> DEFINE n == Len(h.bytes)
  <2>2. n \in Octet => ~(n > 255)
    <3> HIDE DEF n
    <3> QED
      BY DEF Octet
  <2> QED
    BY <2>1, <2>2
<1>2. CASE Clean(host)
  <2>1. SplitHostPort(host) = [ok |-> TRUE, host |-> host]
    BY <1>2 DEF SplitHostPort, Clean
  <2>2. ~(ParseIP(host).form = "name" /\ Len(ParseIP(host).bytes) > 255)
    BY <1>1, ParsedIPIs
  <2> QED
    BY <1>2, <2>1, <2>2 DEF encodeSocksUDPAddr
<1>3. CASE ~Clean(host) /\ Enclosed(host.bytes)
  <2>1. SplitHostPort(host) = [ok |-> TRUE, host |-> Unwrapped(host)]
    BY <1>3, UnwrappedIs DEF SplitHostPort, Clean
  <2>2. Unwrapped(host) \in Hosts /\ Unwrapped(host).form = "name"
    BY <1>3, UnwrappedIs DEF Clean, Unwrapped
  <2>3. ParseIP(Unwrapped(host)) \in Hosts
    BY <2>2, ParsedIPIs, DenotedIs
  <2>4. ~(ParseIP(Unwrapped(host)).form = "name" /\ Len(ParseIP(Unwrapped(host)).bytes) > 255)
    BY <1>1, <2>3
  <2> QED
    BY <1>3, <2>1, <2>4 DEF encodeSocksUDPAddr
<1>4. CASE ~Clean(host) /\ ~Enclosed(host.bytes)
  <2>1. SplitHostPort(host) = Bad
    BY <1>4 DEF SplitHostPort, Clean
  <2>2. ~SplitHostPort(host).ok
    BY <2>1 DEF Bad
  <2> QED
    BY <1>4, <2>2 DEF encodeSocksUDPAddr
<1> QED
  BY <1>2, <1>3, <1>4

LEMMA CleanIs ==
  ASSUME NEW host \in Hosts
  PROVE  /\ Clean(Denoted(host)) <=> Clean(host)
         /\ ~Clean(host) => Denoted(host) = host /\ host.form = "name"
<1>1. CASE host.form = "v6"
  <2>1. Denoted(host).form # "name"
    BY <1>1 DEF Denoted
  <2> QED
    BY <1>1, <2>1 DEF Clean
<1>2. CASE host.form # "v6"
  BY <1>2, DenotedIs DEF Clean
<1> QED
  BY <1>1, <1>2

(* For every address, port and payload of a datagram that the server       *)
(* takes: through a SOCKS parent (ToParent) goes the same port and payload,*)
(* under the IP that a mapped address or a name denotes, or else under the *)
(* address that was sent; a name with brackets loses a pair around all of  *)
(* it, and with any other it is dropped.  One that comes back (ToClient)   *)
(* reaches the client under the peer's IPv4 address, 0.0.0.0 for a name    *)
(* that spells no IP; an answer of an IPv6 peer has no such form.          *)
THEOREM DatagramPassesParent ==
  ASSUME NEW host \in Hosts, NEW port \in TwoBytes, NEW payload \in Seq(Octet), payload # <<>>,
         Len(Sent(host, port, payload)) >= 10
  PROVE  /\ ToParent(Sent(host, port, payload)) =
              IF Clean(host) THEN Sent(Meaning(host), port, payload)
              ELSE IF Enclosed(host.bytes) THEN Sent(ParseIP(Unwrapped(host)), port, payload)
              ELSE <<>>
         /\ Meaning(host).form # "v6" =>
              ToClient(Sent(host, port, payload)) =
                Sent([form |-> "v4", bytes |-> PeerIP(Denoted(host))], port, payload)
<1> DEFINE d == Sent(host, port, payload)  e == Wire(host, port)  dest == Denoted(host)
<1>1. Whole(d) /\ From(d, 4) = e \o payload
  BY Arrived DEF Whole
<1>2. decodeSocksUDPAddr(e \o payload) =
        [ok |-> TRUE, host |-> dest, port |-> port, rest |-> payload]
  BY ReadBack
<1>3. dest \in Hosts /\ Denoted(dest) = dest
  BY DenotedIs, DenotedTwice
<1>4. ToParent(d) = IF Clean(host) THEN Sent(Meaning(host), port, payload)
                    ELSE IF Enclosed(host.bytes) THEN Sent(ParseIP(Unwrapped(host)), port, payload)
                    ELSE <<>>
  <2> HIDE DEF d, e, dest
  <2>1. ToParent(d) = WriteTo(dest, port, payload)
    <3> DEFINE r == parseSocksUDPDest(From(d, 4))
    <3>1. r = [ok |-> TRUE, host |-> dest, port |-> port, rest |-> payload]
      BY <1>1, <1>2 DEF parseSocksUDPDest
    <3>2. ToParent(d) = IF ~Whole(d) THEN <<>> ELSE IF ~r.ok THEN <<>> ELSE IF r.rest = <<>> THEN <<>>
                        ELSE WriteTo(r.host, r.port, r.rest)
      BY DEF ToParent
    <3> HIDE DEF r
    <3>3. r.ok /\ r.host = dest /\ r.port = port /\ r.rest = payload
      BY <3>1
    <3> QED
      BY <1>1, <3>2, <3>3
  <2>2. ASSUME NEW h, encodeSocksUDPAddr(dest, port) = [ok |-> TRUE, bytes |-> Wire(h, port)]
        PROVE  WriteTo(dest, port, payload) = Sent(h, port, payload)
    BY <2>2 DEF WriteTo, Sent
  <2>3. CASE Clean(host)
    <3>1. encodeSocksUDPAddr(dest, port) = [ok |-> TRUE, bytes |-> Wire(Meaning(host), port)]
      BY <1>3, <2>3, CleanIs, EncodedIs DEF Meaning, dest
    <3> QED
      BY <2>1, <2>2, <2>3, <3>1
  <2>4. CASE ~Clean(host) /\ Enclosed(host.bytes)
    <3>1. dest = host
      BY <2>4, CleanIs DEF dest
    <3>2. encodeSocksUDPAddr(dest, port) = [ok |-> TRUE, bytes |-> Wire(ParseIP(Unwrapped(host)), port)]
      BY <1>3, <2>4, <3>1, EncodedIs
    <3> QED
      BY <2>1, <2>2, <2>4, <3>2
  <2>5. CASE ~Clean(host) /\ ~Enclosed(host.bytes)
    <3>1. dest = host
      BY <2>5, CleanIs DEF dest
    <3>2. ~encodeSocksUDPAddr(dest, port).ok
      BY <1>3, <2>5, <3>1, EncodedIs DEF Bad
    <3>3. WriteTo(dest, port, payload) = <<>>
      BY <3>2 DEF WriteTo
    <3> QED
      BY <2>1, <2>5, <3>3
  <2> QED
    BY <2>3, <2>4, <2>5
<1>5. ASSUME Meaning(host).form # "v6"
      PROVE  ToClient(d) = Sent([form |-> "v4", bytes |-> PeerIP(dest)], port, payload)
  <2> DEFINE ip == PeerIP(dest)
  <2> HIDE DEF d, e, dest
  <2>1. ToClient(d) = buildSocksUDPReply(ip, port, payload)
    <3> DEFINE r == decodeSocksUDPAddr(From(d, 4))
    <3>1. r = [ok |-> TRUE, host |-> dest, port |-> port, rest |-> payload]
      BY <1>1, <1>2
    <3>2. ToClient(d) = IF ~Whole(d) THEN <<>> ELSE IF ~r.ok THEN <<>> ELSE IF r.rest = <<>> THEN <<>>
                        ELSE buildSocksUDPReply(PeerIP(r.host), r.port, r.rest)
      BY DEF ToClient
    <3> HIDE DEF r
    <3>3. r.ok /\ r.host = dest /\ r.port = port /\ r.rest = payload
      BY <3>1
    <3> QED
      BY <1>1, <3>2, <3>3 DEF ip
  <2>2. ip \in Seq(Octet) /\ Len(ip) = 4
    <3> DEFINE h == ParseIP(dest)
    <3>1. h \in Hosts /\ h.form # "v6"
      BY <1>3, <1>5, ParsedIPIs DEF Meaning, dest
    <3> HIDE DEF h
    <3>2. CASE h.form = "name"
      <4>1. ip = <<0, 0, 0, 0>> /\ 0 \in Octet
        BY <3>2 DEF PeerIP, Octet, h
      <4> QED
        BY <4>1
    <3>3. CASE h.form = "v4"
      <4>1. ip = h.bytes
        BY <3>3 DEF PeerIP, h
      <4> HIDE DEF ip
      <4> QED
        BY <3>1, <3>3, <4>1 DEF Hosts
    <3> QED
      BY <3>1, <3>2, <3>3 DEF Hosts
  <2> HIDE DEF ip
  <2>3. buildSocksUDPReply(ip, port, payload) = Sent([form |-> "v4", bytes |-> ip], port, payload)
    BY <2>2, ReplyIs
  <2> QED
    BY <2>1, <2>3 DEF ip
<1> QED
  BY <1>4, <1>5

----------------------------------------------------------------------------
(* sniffSNI.  Every step reads inside the data, and leaves an offset to go *)
(* on from that no length can have made negative.                          *)
Sane(data, w) ==
  /\ w = [step |-> w.step, off |-> w.off, left |-> w.left, last |-> w.last]
  /\ w.step \in Loops \cup {"over", "found"}
  /\ w.off \in Nat /\ w.left \in Nat
  /\ w.last \in Int /\ w.last < data.n

LEMMA ByteIs ==
  ASSUME NEW data, IsData(data)
  PROVE  /\ \A i \in Int : Byte(data, i) \in Octet /\ Word16(data, i) \in Nat
         /\ data.n \in Nat
<1>1. \A i \in Int : Byte(data, i) \in Octet
  BY DEF IsData, Byte, Octet
<1>2. \A a, b \in Octet : 256 * a + b \in Nat
  BY DEF Octet
<1>3. ASSUME NEW i \in Int
      PROVE  Word16(data, i) \in Nat
  <2>1. Byte(data, i) \in Octet /\ Byte(data, i + 1) \in Octet
    BY <1>1
  <2> QED
    BY <1>2, <2>1 DEF Word16
<1> QED
  BY <1>1, <1>3 DEF IsData, PeekSize

LEMMA WalkIs ==
  ASSUME NEW data, NEW step \in Loops \cup {"over", "found"}, NEW off \in Nat, NEW left \in Nat,
         NEW last \in Int, last < data.n
  PROVE  Sane(data, Walk(step, off, left, last)) /\ Walk(step, off, left, last).step = step
BY DEF Sane, Walk

LEMMA NotFoundIs ==
  ASSUME NEW data, NEW last \in Int, last < data.n
  PROVE  Sane(data, NotFound(last)) /\ NotFound(last).step = "over"
BY DEF Sane, Walk, NotFound

LEMMA BeginIs ==
  ASSUME NEW data, IsData(data)
  PROVE  Sane(data, Begin(data))
<1>1. data.n \in Nat /\ Byte(data, 43) \in Nat
  BY ByteIs DEF Octet
<1>2. CASE data.n < 42
  <2>1. Begin(data) = NotFound(-1)
    BY <1>2 DEF Begin
  <2> QED
    BY <1>1, <2>1, NotFoundIs
<1>3. CASE ~(data.n < 42) /\ (~HeaderFits(data) \/ data.n < 44)
  <2>1. Begin(data) = NotFound(10)
    BY <1>3 DEF Begin
  <2> QED
    BY <1>1, <1>3, <2>1, NotFoundIs
<1>4. CASE ~(data.n < 42) /\ ~(~HeaderFits(data) \/ data.n < 44)
  <2> DEFINE off == 44 + Byte(data, 43)
  <2>1. Begin(data) = IF off + 2 > data.n THEN NotFound(43) ELSE Walk("extension", off + 2, 0, 43)
    BY <1>4 DEF Begin
  <2>2. off + 2 \in Nat /\ 43 < data.n
    BY <1>1, <1>4
  <2> QED
    BY <2>1, <2>2, NotFoundIs, WalkIs DEF Loops
<1> QED
  BY <1>2, <1>3, <1>4

LEMMA ExtensionIs ==
  ASSUME NEW data, IsData(data), NEW off \in Nat
  PROVE  Sane(data, Extension(data, off))
<1> DEFINE et == Word16(data, off)  el == Word16(data, off + 2)  e == off + 4
<1>1. data.n \in Nat /\ et \in Nat /\ el \in Nat /\ Word16(data, e) \in Nat
  BY ByteIs
<1>2. Extension(data, off) =
        IF e > data.n THEN NotFound(-1)
        ELSE IF e + el > data.n THEN NotFound(e - 1)
        ELSE IF et # 0 THEN Walk("extension", e + el, 0, e - 1)
        ELSE IF el < 2 THEN NotFound(e - 1)
        ELSE Walk("entry", e + 2, Word16(data, e), e + 1)
  BY DEF Extension
<1>3. e \in Nat
  OBVIOUS
<1> HIDE DEF et, el, e
<1>4. CASE e > data.n
  BY <1>1, <1>2, <1>4, NotFoundIs
<1>5. CASE ~(e > data.n) /\ e + el > data.n
  BY <1>1, <1>2, <1>3, <1>5, NotFoundIs
<1>6. CASE ~(e > data.n) /\ ~(e + el > data.n) /\ et # 0
  BY <1>1, <1>2, <1>3, <1>6, WalkIs DEF Loops
<1>7. CASE ~(e > data.n) /\ ~(e + el > data.n) /\ et = 0 /\ el < 2
  BY <1>1, <1>2, <1>3, <1>7, NotFoundIs
<1>8. CASE ~(e > data.n) /\ ~(e + el > data.n) /\ et = 0 /\ ~(el < 2)
  <2>1. e + 1 < data.n /\ e + 2 \in Nat /\ e + 1 \in Int
    BY <1>1, <1>3, <1>8
  <2> QED
    BY <1>1, <1>2, <1>8, <2>1, WalkIs DEF Loops
<1> QED
  BY <1>4, <1>5, <1>6, <1>7, <1>8

LEMMA EntryIs ==
  ASSUME NEW data, IsData(data), NEW pos \in Nat, NEW left \in Nat
  PROVE  Sane(data, Entry(data, pos, left))
<1> DEFINE n2 == Word16(data, pos + 1)  p == pos + 3  vl == Word16(data, p)
<1>1. data.n \in Nat /\ n2 \in Nat /\ vl \in Nat
  BY ByteIs
<1>2. Entry(data, pos, left) =
        IF left = 0 \/ p > data.n THEN NotFound(-1)
        ELSE IF p + n2 > data.n THEN NotFound(p - 1)
        ELSE IF Byte(data, pos) # 0 THEN Walk("entry", p + n2, left - 1, p - 1)
        ELSE IF n2 < 2 THEN NotFound(p - 1)
        ELSE IF p + 2 + vl > data.n THEN NotFound(p + 1)
        ELSE Walk("found", p + 2, vl, p + 1 + vl)
  BY DEF Entry, OutOfEntry
<1>3. p \in Nat
  OBVIOUS
<1> HIDE DEF n2, p, vl
<1>4. CASE left = 0 \/ p > data.n
  BY <1>1, <1>2, <1>4, NotFoundIs
<1>5. CASE ~(left = 0 \/ p > data.n) /\ p + n2 > data.n
  BY <1>1, <1>2, <1>3, <1>5, NotFoundIs
<1>6. CASE ~(left = 0 \/ p > data.n) /\ ~(p + n2 > data.n) /\ Byte(data, pos) # 0
  <2>1. p + n2 \in Nat /\ left - 1 \in Nat /\ p - 1 \in Int /\ p - 1 < data.n
    BY <1>1, <1>3, <1>6
  <2> QED
    BY <1>2, <1>6, <2>1, WalkIs DEF Loops
<1>7. CASE ~(left = 0 \/ p > data.n) /\ ~(p + n2 > data.n) /\ Byte(data, pos) = 0 /\ n2 < 2
  BY <1>1, <1>2, <1>3, <1>7, NotFoundIs
<1>8. CASE ~(left = 0 \/ p > data.n) /\ ~(p + n2 > data.n) /\ Byte(data, pos) = 0 /\ ~(n2 < 2)
  <2>1. p + 1 < data.n /\ p + 1 \in Int /\ p + 2 \in Nat /\ p + 1 + vl \in Int
    BY <1>1, <1>3, <1>8
  <2>2. CASE p + 2 + vl > data.n
    BY <1>2, <1>8, <2>1, <2>2, NotFoundIs
  <2>3. CASE ~(p + 2 + vl > data.n)
    <3>1. p + 1 + vl < data.n
      BY <1>1, <1>3, <2>3
    <3>2. Entry(data, pos, left) = Walk("found", p + 2, vl, p + 1 + vl)
      BY <1>2, <1>8, <2>3
    <3> QED
      <4>1. vl \in Nat /\ p + 2 \in Nat /\ p + 1 + vl \in Int
        BY <1>1, <2>1
      <4>2. Sane(data, Walk("found", p + 2, vl, p + 1 + vl))
        BY <3>1, <4>1, WalkIs
      <4> QED
        BY <3>2, <4>2
  <2> QED
    BY <2>2, <2>3
<1> QED
  BY <1>4, <1>5, <1>6, <1>7, <1>8

(* A genuine hello is refused at its first bytes: the handler looks at no  *)
(* more bytes than the number of its version.                              *)
LEMMA GenuineRefused ==
  ASSUME NEW h \in Hellos, h.genuine
  PROVE  Begin(h.data).step = "over"
<1>1. IsHello(h)
  BY ParsersAssumption
<1>2. ~HeaderFits(h.data)
  <2>1. Word16(h.data, 1) \in Nat /\ h.data.n \in 0 .. 512 /\ Word16(h.data, 1) >= 768
    BY <1>1, ByteIs DEF IsHello, IsData, PeekSize, OldestVersion
  <2> QED
    BY <2>1 DEF HeaderFits
<1>3. Begin(h.data) = NotFound(-1) \/ Begin(h.data) = NotFound(10)
  BY <1>2 DEF Begin
<1> QED
  BY <1>3 DEF NotFound, Walk

----------------------------------------------------------------------------
(* Port specifications.  Numbers are read and written recursively: that    *)
(* the two functions exist, and that one undoes the other, is proved by    *)
(* induction, from the order of the natural numbers being well founded.    *)

(* Induction: what holds of 0, and of n + 1 if of n, holds of all numbers. *)
LEMMA Induction ==
  ASSUME NEW S, 0 \in S, \A n \in Nat : n \in S => n + 1 \in S
  PROVE  Nat \subseteq S
<1> SUFFICES ASSUME Nat \ S # {}
             PROVE  FALSE
  OBVIOUS
<1> DEFINE Less == OpToRel(<, Nat)  T == Nat \ S
<1>1. IsWellFoundedOn(Less, Nat)
  BY NatLessThanWellFounded
<1>2. T \subseteq Nat /\ T # {}
  OBVIOUS
<1>3. PICK x \in T : \A y \in T : <<y, x>> \notin Less
  <2> HIDE DEF T, Less
  <2> QED
    BY <1>1, <1>2, WFMin
<1>4. x - 1 \in T
  OBVIOUS
<1>5. <<x - 1, x>> \in Less
  BY <1>4 DEF OpToRel
<1> QED
  BY <1>3, <1>4, <1>5

(* Recursion: if every argument that is not a base case comes back to a    *)
(* smaller one, there is a function that solves the equation.              *)
Descends(D, base, size, pre) ==
  size \in [D -> Nat] /\ pre \in [D -> D] /\ \A x \in D \ base : size[pre[x]] < size[x]
Solves(f, D, base, pre, start, step) ==
  \A x \in D : f[x] = IF x \in base THEN start[x] ELSE step[<<x, f[pre[x]]>>]

LEMMA Recursion ==
  ASSUME NEW D, NEW S, NEW base, NEW size, NEW pre, Descends(D, base, size, pre),
         NEW start \in [D -> S], NEW step \in [D \X S -> S]
  PROVE  \E f \in [D -> S] : Solves(f, D, base, pre, start, step)
<1>0. size \in [D -> Nat] /\ pre \in [D -> D] /\ \A x \in D \ base : size[pre[x]] < size[x]
  BY DEF Descends
<1> USE <1>0
<1> DEFINE U(k) == {x \in D : size[x] < k}
           Is(g, x) == g[x] = IF x \in base THEN start[x] ELSE step[<<x, g[pre[x]]>>]
           Sol(k) == {g \in [U(k) -> S] : \A x \in U(k) : Is(g, x)}
           Solved == {k \in Nat : Sol(k) # {}}
<1>1. 0 \in Solved
  <2>1. U(0) = {}
    OBVIOUS
  <2>2. [x \in {} |-> 0] \in Sol(0)
    BY <2>1
  <2> QED
    BY <2>2
<1>2. ASSUME NEW k \in Nat, k \in Solved
      PROVE  k + 1 \in Solved
  <2>1. PICK g \in Sol(k) : TRUE
    BY <1>2
  <2> DEFINE h == [x \in U(k + 1) |-> IF x \in base THEN start[x] ELSE step[<<x, g[pre[x]]>>]]
  <2>2. \A x \in U(k + 1) \ base : pre[x] \in U(k) /\ pre[x] \in U(k + 1)
    OBVIOUS
  <2>3. h \in [U(k + 1) -> S]
    BY <2>1, <2>2
  <2>4. ASSUME NEW x \in U(k)
        PROVE  x \in U(k + 1) /\ h[x] = g[x]
    <3>1. x \in U(k + 1)
      OBVIOUS
    <3> QED
      BY <2>1, <3>1
  <2>5. ASSUME NEW x \in U(k + 1)
        PROVE  Is(h, x)
    BY <2>2, <2>4
  <2>6. h \in Sol(k + 1)
    <3> HIDE DEF h
    <3> QED
      BY <2>3, <2>5
  <2> QED
    <3> HIDE DEF Sol, h
    <3> QED
      BY <2>6
<1>3. \A k \in Nat : Sol(k) # {}
  <2>1. Nat \subseteq Solved
    <3> HIDE DEF Solved
    <3> QED
      BY <1>1, <1>2, Induction
  <2> QED
    BY <2>1
<1> DEFINE Agree(k) == \A m, n \in Nat : \A g \in Sol(m), h \in Sol(n) :
                         \A x \in U(k) : x \in U(m) /\ x \in U(n) => g[x] = h[x]
           Agreed == {k \in Nat : Agree(k)}
<1>4. 0 \in Agreed
  <2>1. U(0) = {}
    OBVIOUS
  <2> QED
    BY <2>1
<1>5. ASSUME NEW k \in Nat, k \in Agreed
      PROVE  k + 1 \in Agreed
  <2> SUFFICES ASSUME NEW m \in Nat, NEW n \in Nat, NEW g \in Sol(m), NEW h \in Sol(n),
                      NEW x \in U(k + 1), x \in U(m), x \in U(n)
               PROVE  g[x] = h[x]
    <3> HIDE DEF U, Sol
    <3> QED
      OBVIOUS
  <2>1. Is(g, x) /\ Is(h, x)
    OBVIOUS
  <2>2. CASE x \in base
    BY <2>1, <2>2
  <2>3. CASE x \notin base
    <3>1. pre[x] \in U(k) /\ pre[x] \in U(m) /\ pre[x] \in U(n)
      BY <2>3
    <3>2. g[pre[x]] = h[pre[x]]
      <4>1. Agree(k)
        BY <1>5
      <4> HIDE DEF U, Sol
      <4> QED
        BY <3>1, <4>1
    <3> QED
      BY <2>1, <2>3, <3>2
  <2> QED
    BY <2>2, <2>3
<1>6. \A k \in Nat : Agree(k)
  <2>1. Nat \subseteq Agreed
    <3> HIDE DEF Agreed
    <3> QED
      BY <1>4, <1>5, Induction
  <2> QED
    BY <2>1
<1> DEFINE g(x) == CHOOSE h \in Sol(size[x] + 1) : TRUE
           f == [x \in D |-> g(x)[x]]
<1>7. ASSUME NEW x \in D
      PROVE  g(x) \in Sol(size[x] + 1) /\ x \in U(size[x] + 1) /\ size[x] + 1 \in Nat
  <2>1. size[x] \in Nat
    OBVIOUS
  <2>2. size[x] + 1 \in Nat /\ size[x] < size[x] + 1
    BY <2>1
  <2>3. Sol(size[x] + 1) # {}
    BY <1>3, <2>2
  <2>4. g(x) \in Sol(size[x] + 1)
    <3> HIDE DEF Sol
    <3> QED
      BY <2>3
  <2> QED
    BY <2>2, <2>4
<1>8. f \in [D -> S]
  BY <1>7
<1>9. ASSUME NEW x \in D
      PROVE  Is(f, x)
  <2>1. Is(g(x), x)
    BY <1>7
  <2>2. CASE x \in base
    BY <2>1, <2>2
  <2>3. CASE x \notin base
    <3> DEFINE y == pre[x]
    <3>1. y \in D /\ size[y] < size[x]
      BY <2>3
    <3>2. y \in U(size[x] + 1)
      BY <3>1
    <3>3. g(x)[y] = g(y)[y]
      <4>1. Agree(size[x] + 1)
        BY <1>6, <1>7
      <4> HIDE DEF g, Sol
      <4> QED
        BY <1>7, <3>1, <3>2, <4>1
    <3>4. f[y] = g(x)[y] /\ f[x] = g(x)[x]
      BY <3>1, <3>3
    <3> HIDE DEF g, f
    <3> QED
      BY <2>1, <2>3, <3>4
  <2> QED
    BY <2>2, <2>3
<1> QED
  BY <1>8, <1>9 DEF Solves

DigitChars == {Digit(v) : v \in 0 .. 9}

(* A digit is a character of its own, and none of those a specification    *)
(* gives a meaning.                                                        *)
LEMMA DigitIs ==
  ASSUME NEW v \in 0 .. 9
  PROVE  /\ Digit(v) \notin {" ", ":", "-", "+"}
         /\ \A w \in 0 .. 9 : Digit(w) = Digit(v) => w = v
<1>1. \A w \in 0 .. 9 : w = 0 \/ w = 1 \/ w = 2 \/ w = 3 \/ w = 4 \/ w = 5 \/ w = 6 \/ w = 7 \/ w = 8 \/ w = 9
  OBVIOUS
<1>2. /\ Digit(0) = "0" /\ Digit(1) = "1" /\ Digit(2) = "2" /\ Digit(3) = "3" /\ Digit(4) = "4"
      /\ Digit(5) = "5" /\ Digit(6) = "6" /\ Digit(7) = "7" /\ Digit(8) = "8" /\ Digit(9) = "9"
  BY DEF Digit, Digits
<1>3. Digit(v) # " " /\ Digit(v) # ":" /\ Digit(v) # "-" /\ Digit(v) # "+"
  BY <1>1, <1>2
<1>4. ASSUME NEW w \in 0 .. 9, Digit(w) = Digit(v)
      PROVE  w = v
  BY <1>1, <1>2, <1>4
<1> QED
  BY <1>3, <1>4

LEMMA ValueIs ==
  ASSUME NEW v \in 0 .. 9
  PROVE  Value(Digit(v)) = v
BY DigitIs DEF Value

LEMMA NumeralIs ==
  ASSUME NEW s \in Numerals, s # <<>>
  PROVE  /\ Front(s) \in Numerals /\ Len(Front(s)) < Len(s)
         /\ Last(s) \in DigitChars /\ Value(Last(s)) \in 0 .. 9
<1>1. /\ Len(s) \in Nat \ {0} /\ \A i \in 1 .. Len(s) : s[i] \in DigitChars
  BY EmptySeq, LenProperties DEF Numerals, DigitChars
<1>2. Front(s) \in Numerals /\ Len(Front(s)) = Len(s) - 1
  <2> DEFINE n == Len(s) - 1  t == SubSeq(s, 1, n)
  <2>1. n \in Nat /\ \A i \in 1 .. n : s[i] \in DigitChars
    BY <1>1
  <2>2. t \in Seq(DigitChars) /\ Len(t) = IF 1 <= n THEN n - 1 + 1 ELSE 0
    <3> HIDE DEF n
    <3> QED
      BY <2>1, SubSeqProperties
  <2>3. Len(t) = n
    <3> HIDE DEF n, t
    <3> QED
      BY <2>1, <2>2
  <2>4. Front(s) = t /\ Numerals = Seq(DigitChars)
    BY DEF Front, Numerals, DigitChars
  <2> QED
    BY <2>2, <2>3, <2>4
<1>3. PICK v \in 0 .. 9 : Last(s) = Digit(v)
  BY <1>1 DEF Last, DigitChars
<1> QED
  BY <1>1, <1>2, <1>3, ValueIs DEF DigitChars

(* What a numeral means.                                                   *)
LEMMA NumberIs ==
  /\ Number \in [Numerals -> Nat]
  /\ \A s \in Numerals : Number[s] = IF s = <<>> THEN 0 ELSE 10 * Number[Front(s)] + Value(Last(s))
<1> DEFINE size == [s \in Numerals |-> Len(s)]
           base == {<<>>}
           pre == [s \in Numerals |-> IF s = <<>> THEN s ELSE Front(s)]
           start == [s \in Numerals |-> 0]
           step == [p \in Numerals \X Nat |-> IF p[1] = <<>> THEN 0 ELSE 10 * p[2] + Value(Last(p[1]))]
           Is(f) == f = [s \in Numerals |-> IF s = <<>> THEN 0 ELSE 10 * f[Front(s)] + Value(Last(s))]
<1>1. start \in [Numerals -> Nat]
  OBVIOUS
<1>2. Descends(Numerals, base, size, pre)
  <2>1. size \in [Numerals -> Nat]
    BY LenProperties DEF Numerals
  <2>2. pre \in [Numerals -> Numerals] /\ \A s \in Numerals \ base : size[pre[s]] < size[s]
    BY NumeralIs
  <2> HIDE DEF base, size, pre
  <2> QED
    BY <2>1, <2>2 DEF Descends
<1>3. step \in [Numerals \X Nat -> Nat]
  BY NumeralIs
<1>4. PICK f \in [Numerals -> Nat] : Solves(f, Numerals, base, pre, start, step)
  <2> HIDE DEF base, size, pre, start, step
  <2> QED
    BY <1>1, <1>2, <1>3, Recursion
<1>5. \A s \in Numerals : f[s] = IF s = <<>> THEN 0 ELSE 10 * f[Front(s)] + Value(Last(s))
  BY <1>4, NumeralIs DEF Solves
<1>6. Is(f)
  BY <1>4, <1>5
<1>7. Is(Number)
  <2>1. Number = CHOOSE g : Is(g)
    BY DEF Number
  <2> HIDE DEF Is
  <2> QED
    BY <1>6, <2>1
<1>8. \A s \in Numerals : Number[s] = IF s = <<>> THEN 0 ELSE 10 * Number[Front(s)] + Value(Last(s))
  BY <1>7
<1> DEFINE N == {n \in Nat : \A s \in Numerals : Len(s) <= n => Number[s] \in Nat}
<1>9. \A n \in Nat : \A s \in Numerals : Len(s) <= n => Number[s] \in Nat
  <2>1. 0 \in N
    BY <1>8, EmptySeq DEF Numerals
  <2>2. ASSUME NEW n \in Nat, n \in N
        PROVE  n + 1 \in N
    <3> SUFFICES ASSUME NEW s \in Numerals, Len(s) <= n + 1
                 PROVE  Number[s] \in Nat
      OBVIOUS
    <3>1. CASE s = <<>>
      BY <1>8, <3>1
    <3>2. CASE s # <<>>
      <4>1. Front(s) \in Numerals /\ Len(Front(s)) <= n /\ Value(Last(s)) \in Nat
        <5>1. Len(s) \in Nat /\ Len(Front(s)) \in Nat
          BY <3>2, NumeralIs, LenProperties DEF Numerals
        <5> QED
          BY <3>2, <5>1, NumeralIs
      <4>2. Number[Front(s)] \in Nat
        BY <2>2, <4>1
      <4> QED
        BY <1>8, <3>2, <4>1, <4>2
    <3> QED
      BY <3>1, <3>2
  <2>3. Nat \subseteq N
    <3> HIDE DEF N
    <3> QED
      BY <2>1, <2>2, Induction
  <2> QED
    BY <2>3
<1>10. \A s \in Numerals : Number[s] \in Nat
  BY <1>9, LenProperties DEF Numerals
<1> QED
  BY <1>7, <1>8, <1>10

LEMMA NumberAppended ==
  ASSUME NEW s \in Numerals, NEW v \in 0 .. 9
  PROVE  Append(s, Digit(v)) \in Numerals /\ Number[Append(s, Digit(v))] = 10 * Number[s] + v
<1> DEFINE t == Append(s, Digit(v))
<1>1. /\ t \in Numerals /\ t # <<>> /\ Len(t) = Len(s) + 1 /\ t[Len(s) + 1] = Digit(v)
      /\ \A i \in 1 .. Len(s) : t[i] = s[i]
  BY AppendProperties DEF Numerals
<1>2. Front(t) = s
  BY <1>1 DEF Numerals, Front
<1>3. Last(t) = Digit(v)
  BY <1>1 DEF Last
<1> HIDE DEF t
<1>4. Number[t] = 10 * Number[s] + Value(Digit(v))
  BY <1>1, <1>2, <1>3, NumberIs
<1>5. Number[t] = 10 * Number[s] + v
  BY <1>4, ValueIs
<1> QED
  BY <1>1, <1>5 DEF t

(* How a number is written.                                                *)
LEMMA WrittenIs ==
  ASSUME NEW n \in Nat
  PROVE  /\ n < 10 => Written[n] = <<Digit(n)>>
         /\ n >= 10 => Written[n] = Append(Written[n \div 10], Digit(n % 10))
<1> DEFINE base == 0 .. 9
           size == [k \in Nat |-> k]
           pre == [k \in Nat |-> k \div 10]
           start == [k \in Nat |-> IF k < 10 THEN <<Digit(k)>> ELSE <<>>]
           step == [p \in Nat \X Numerals |-> Append(p[2], Digit(p[1] % 10))]
           Is(f) == f = [k \in Nat |-> IF k < 10 THEN <<Digit(k)>> ELSE Append(f[k \div 10], Digit(k % 10))]
<1>1. Descends(Nat, base, size, pre)
  <2>1. size \in [Nat -> Nat] /\ pre \in [Nat -> Nat] /\ \A k \in Nat \ base : size[pre[k]] < size[k]
    OBVIOUS
  <2> HIDE DEF base, size, pre
  <2> QED
    BY <2>1 DEF Descends
<1>2. start \in [Nat -> Numerals]
  <2>1. <<>> \in Numerals
    BY DEF Numerals
  <2>2. ASSUME NEW k \in Nat, k < 10 PROVE <<Digit(k)>> \in Numerals
    BY <2>2 DEF Numerals
  <2> QED
    BY <2>1, <2>2
<1>3. step \in [Nat \X Numerals -> Numerals]
  <2>1. ASSUME NEW k \in Nat, NEW s \in Numerals PROVE Append(s, Digit(k % 10)) \in Numerals
    <3>1. k % 10 \in 0 .. 9
      OBVIOUS
    <3> QED
      BY <3>1, NumberAppended
  <2> QED
    BY <2>1
<1>4. PICK f \in [Nat -> Numerals] : Solves(f, Nat, base, pre, start, step)
  <2> HIDE DEF base, size, pre, start, step
  <2> QED
    BY <1>1, <1>2, <1>3, Recursion
<1>5. ASSUME NEW k \in Nat
      PROVE  f[k] = IF k < 10 THEN <<Digit(k)>> ELSE Append(f[k \div 10], Digit(k % 10))
  <2>1. f[k] = IF k \in base THEN start[k] ELSE step[<<k, f[pre[k]]>>]
    <3> HIDE DEF base, start, step, pre
    <3> QED
      BY <1>4 DEF Solves
  <2>2. CASE k < 10
    <3>1. k \in base /\ start[k] = <<Digit(k)>>
      BY <2>2
    <3> HIDE DEF base, start
    <3> QED
      BY <2>1, <2>2, <3>1
  <2>3. CASE k >= 10
    <3> DEFINE p == <<k, f[k \div 10]>>
    <3>1. k \notin base /\ ~(k < 10) /\ k \div 10 \in Nat /\ pre[k] = k \div 10
      BY <2>3
    <3>2. p \in Nat \X Numerals /\ p[1] = k /\ p[2] = f[k \div 10]
      BY <3>1
    <3>3. step[p] = Append(p[2], Digit(p[1] % 10))
      BY <3>2
    <3>4. f[k] = step[p]
      <4> HIDE DEF base, start, step, pre
      <4> QED
        BY <2>1, <3>1
    <3>5. f[k] = Append(f[k \div 10], Digit(k % 10))
      <4> HIDE DEF step, p
      <4> QED
        BY <3>2, <3>3, <3>4
    <3> QED
      BY <3>1, <3>5
  <2> QED
    BY <2>2, <2>3
<1>6. Is(f)
  BY <1>4, <1>5
<1>7. Is(Written)
  <2>1. Written = CHOOSE g : Is(g)
    BY DEF Written
  <2> HIDE DEF Is
  <2> QED
    BY <1>6, <2>1
<1>8. Written[n] = IF n < 10 THEN <<Digit(n)>> ELSE Append(Written[n \div 10], Digit(n % 10))
  BY <1>7
<1>9. n >= 10 => ~(n < 10)
  OBVIOUS
<1> QED
  BY Zenon, <1>8, <1>9

(* A number that is written is read back.                                  *)
LEMMA WrittenReads ==
  ASSUME NEW n \in Nat
  PROVE  Written[n] \in Numerals /\ Written[n] # <<>> /\ Number[Written[n]] = n
<1> DEFINE Reads(k) == Written[k] \in Numerals /\ Written[k] # <<>> /\ Number[Written[k]] = k
           N == {k \in Nat : \A j \in 0 .. k : Reads(j)}
<1>1. ASSUME NEW k \in 0 .. 9
      PROVE  Reads(k)
  <2>1. Written[k] = <<Digit(k)>>
    BY WrittenIs
  <2>2. <<>> \in Numerals /\ <<Digit(k)>> = Append(<<>>, Digit(k))
    BY DEF Numerals
  <2>3. Number[<<>>] = 0
    BY <2>2, NumberIs
  <2>4. Number[<<Digit(k)>>] = 10 * 0 + k /\ <<Digit(k)>> \in Numerals
    BY <2>2, <2>3, NumberAppended
  <2> QED
    BY <2>1, <2>4
<1>2. ASSUME NEW k \in Nat, k >= 10, Reads(k \div 10)
      PROVE  Reads(k)
  <2>1. Written[k] = Append(Written[k \div 10], Digit(k % 10))
    BY <1>2, WrittenIs
  <2>2. k % 10 \in 0 .. 9 /\ k = 10 * (k \div 10) + (k % 10)
    OBVIOUS
  <2>3. Written[k] \in Numerals /\ Number[Written[k]] = 10 * (k \div 10) + (k % 10)
    BY <1>2, <2>1, <2>2, NumberAppended
  <2>4. Written[k] # <<>>
    BY <1>2, <2>1, AppendProperties DEF Numerals
  <2> QED
    BY <2>2, <2>3, <2>4
<1> HIDE DEF Reads
<1>3. 0 \in N
  BY <1>1
<1>4. ASSUME NEW k \in Nat, k \in N
      PROVE  k + 1 \in N
  <2>1. CASE k + 1 < 10
    BY <1>1, <1>4, <2>1
  <2>2. CASE k + 1 >= 10
    <3>1. (k + 1) \div 10 \in 0 .. k
      BY <2>2
    <3>2. Reads(k + 1)
      BY <1>2, <1>4, <2>2, <3>1
    <3> QED
      BY <1>4, <3>2
  <2> QED
    BY <2>1, <2>2
<1>5. Nat \subseteq N
  <2> HIDE DEF N
  <2> QED
    BY <1>3, <1>4, Induction
<1>6. Reads(n)
  BY <1>5
<1> QED
  BY <1>6 DEF Reads

(* What a text is made of; a name hides a literal from the provers.        *)
Space == " "
Colon == ":"
Dash == "-"
Chars == STRING \cup DigitChars \cup {Space, Colon, Dash}

LEMMA MinIs ==
  ASSUME NEW T \in SUBSET Int, NEW x \in T, \A y \in T : x <= y
  PROVE  Min(T) = x
<1> DEFINE Least(z) == \A y \in T : z <= y
<1>1. Min(T) = CHOOSE z \in T : Least(z)
  BY DEF Min
<1>2. \A z \in T : Least(z) => z = x
  OBVIOUS
<1>3. x \in T /\ Least(x)
  OBVIOUS
<1> HIDE DEF Least
<1> QED
  BY <1>1, <1>2, <1>3

LEMMA MaxIs ==
  ASSUME NEW T \in SUBSET Int, NEW x \in T, \A y \in T : y <= x
  PROVE  Max(T) = x
<1> DEFINE Most(z) == \A y \in T : z >= y
<1>1. Max(T) = CHOOSE z \in T : Most(z)
  BY DEF Max
<1>2. \A z \in T : Most(z) => z = x
  OBVIOUS
<1>3. x \in T /\ Most(x)
  OBVIOUS
<1> HIDE DEF Most
<1> QED
  BY <1>1, <1>2, <1>3

LEMMA BlankIs ==
  ASSUME NEW n \in Nat
  PROVE  /\ Blank(n) \in Seq(Chars) /\ Len(Blank(n)) = n /\ \A i \in 1 .. n : Blank(n)[i] = Space
         /\ n = 0 => Blank(n) = <<>>
<1> DEFINE b == [i \in 1 .. n |-> Space]
<1>1. Blank(n) = b
  BY Zenon DEF Blank, Space
<1>2. Space \in Chars
  BY DEF Chars
<1>3. b \in Seq(Chars) /\ Len(b) = n /\ \A i \in 1 .. n : b[i] = Space
  BY <1>2
<1> HIDE DEF b
<1>4. n = 0 => b = <<>>
  BY <1>3, EmptySeq
<1> QED
  BY <1>1, <1>3, <1>4

(* Three texts in a row.                                                   *)
LEMMA InARow ==
  ASSUME NEW S, NEW u \in Seq(S), NEW v \in Seq(S), NEW w \in Seq(S)
  PROVE  /\ (u \o v) \o w \in Seq(S) /\ Len((u \o v) \o w) = Len(u) + Len(v) + Len(w)
         /\ \A i \in 1 .. Len(u) : ((u \o v) \o w)[i] = u[i]
         /\ \A i \in 1 .. Len(v) : ((u \o v) \o w)[Len(u) + i] = v[i]
         /\ \A i \in 1 .. Len(w) : ((u \o v) \o w)[Len(u) + Len(v) + i] = w[i]
<1>1. Len(u) \in Nat /\ Len(v) \in Nat /\ Len(w) \in Nat
  BY LenProperties
<1>2. /\ u \o v \in Seq(S) /\ Len(u \o v) = Len(u) + Len(v)
      /\ \A i \in 1 .. Len(u) + Len(v) : (u \o v)[i] = IF i <= Len(u) THEN u[i] ELSE v[i - Len(u)]
  BY ConcatProperties
<1> DEFINE t == u \o v
<1>3. /\ t \o w \in Seq(S) /\ Len(t \o w) = Len(t) + Len(w)
      /\ \A i \in 1 .. Len(t) + Len(w) : (t \o w)[i] = IF i <= Len(t) THEN t[i] ELSE w[i - Len(t)]
  BY <1>2, ConcatProperties
<1> HIDE DEF t
<1>4. /\ Len(t) = Len(u) + Len(v)
      /\ \A i \in 1 .. Len(u) + Len(v) : t[i] = IF i <= Len(u) THEN u[i] ELSE v[i - Len(u)]
  BY <1>2 DEF t
<1>5. \A i \in 1 .. Len(u) : (t \o w)[i] = u[i]
  BY <1>1, <1>3, <1>4
<1>6. \A i \in 1 .. Len(v) : (t \o w)[Len(u) + i] = v[i]
  <2> SUFFICES ASSUME NEW i \in 1 .. Len(v)
               PROVE  (t \o w)[Len(u) + i] = v[i]
    OBVIOUS
  <2>1. /\ Len(u) + i \in 1 .. Len(t) + Len(w) /\ Len(u) + i <= Len(t)
        /\ Len(u) + i \in 1 .. Len(u) + Len(v) /\ ~(Len(u) + i <= Len(u)) /\ (Len(u) + i) - Len(u) = i
    BY <1>1, <1>4
  <2> QED
    BY <1>3, <1>4, <2>1
<1>7. \A i \in 1 .. Len(w) : (t \o w)[Len(u) + Len(v) + i] = w[i]
  BY <1>1, <1>3, <1>4
<1> QED
  BY <1>1, <1>3, <1>4, <1>5, <1>6, <1>7 DEF t

(* TrimSpace takes the blanks off, and nothing else.                       *)
LEMMA Trimmed ==
  ASSUME NEW a \in Nat, NEW d \in Nat, NEW core \in Seq(Chars), core # <<>>,
         core[1] # Space, core[Len(core)] # Space
  PROVE  TrimSpace(Blank(a) \o core \o Blank(d)) = core
<1> DEFINE t == Blank(a) \o core \o Blank(d)  n == Len(core)
           solid == DOMAIN t \ Places(t, Space)
<1>1. n \in Nat \ {0}
  BY EmptySeq
<1>2. /\ t \in Seq(Chars) /\ Len(t) = a + n + d
      /\ \A i \in 1 .. a : t[i] = Space
      /\ \A i \in 1 .. n : t[a + i] = core[i]
      /\ \A i \in 1 .. d : t[a + n + i] = Space
  <2> DEFINE u == Blank(a)  w == Blank(d)
  <2>1. /\ u \in Seq(Chars) /\ Len(u) = a /\ \A i \in 1 .. a : u[i] = Space
        /\ w \in Seq(Chars) /\ Len(w) = d /\ \A i \in 1 .. d : w[i] = Space
    BY BlankIs
  <2> HIDE DEF u, w
  <2> DEFINE x == (u \o core) \o w
  <2>2. /\ x \in Seq(Chars) /\ Len(x) = Len(u) + Len(core) + Len(w)
        /\ \A i \in 1 .. Len(u) : x[i] = u[i]
        /\ \A i \in 1 .. Len(core) : x[Len(u) + i] = core[i]
        /\ \A i \in 1 .. Len(w) : x[Len(u) + Len(core) + i] = w[i]
    <3>1. u \in Seq(Chars) /\ core \in Seq(Chars) /\ w \in Seq(Chars)
      BY <2>1
    <3> QED
      BY <3>1, InARow
  <2>3. t = x
    BY DEF u, w
  <2> HIDE DEF x, t
  <2> QED
    BY <2>1, <2>2, <2>3
<1> HIDE DEF t, n
<1>3. DOMAIN t = 1 .. a + n + d
  BY <1>2, LenProperties
<1>4. solid = {i \in 1 .. a + n + d : t[i] # Space}
  BY <1>3 DEF Places
<1> HIDE DEF solid
<1>5. a + 1 \in solid /\ a + n \in solid
  <2>1. 1 \in 1 .. n /\ n \in 1 .. n
    BY <1>1
  <2>2. t[a + 1] = core[1] /\ t[a + n] = core[n]
    BY <1>2, <2>1
  <2> QED
    BY <1>1, <1>4, <2>2 DEF n
<1>6. \A y \in solid : a + 1 <= y /\ y <= a + n
  <2> SUFFICES ASSUME NEW y \in 1 .. a + n + d, t[y] # Space
               PROVE  a + 1 <= y /\ y <= a + n
    BY <1>4
  <2>1. CASE y <= a
    BY <1>2, <2>1
  <2>2. CASE y > a + n
    <3>1. y - (a + n) \in 1 .. d /\ a + n + (y - (a + n)) = y
      BY <1>1, <2>2
    <3> QED
      BY <1>2, <3>1
  <2> QED
    BY <1>1, <2>1, <2>2
<1>7. Min(solid) = a + 1 /\ Max(solid) = a + n
  <2>1. solid \in SUBSET Int
    BY <1>4
  <2> QED
    BY <1>5, <1>6, <2>1, MinIs, MaxIs
<1>8. SubSeq(t, a + 1, a + n) = core
  <2>1. \A i \in a + 1 .. a + n : t[i] \in Chars
    BY <1>1, <1>2, <1>3, ElementOfSeq
  <2>2. /\ SubSeq(t, a + 1, a + n) \in Seq(Chars)
        /\ Len(SubSeq(t, a + 1, a + n)) = IF a + 1 <= a + n THEN (a + n) - (a + 1) + 1 ELSE 0
        /\ \A i \in 1 .. (a + n) - (a + 1) + 1 : SubSeq(t, a + 1, a + n)[i] = t[a + 1 + i - 1]
    BY <1>1, <2>1, SubSeqProperties
  <2> DEFINE u == SubSeq(t, a + 1, a + n)
  <2> HIDE DEF u
  <2>3. Len(u) = n /\ \A i \in 1 .. n : u[i] = core[i]
    <3>1. a + 1 <= a + n /\ (a + n) - (a + 1) + 1 = n /\ \A i \in 1 .. n : a + 1 + i - 1 = a + i
      BY <1>1
    <3>2. Len(u) = n /\ \A i \in 1 .. n : u[i] = t[a + 1 + i - 1]
      BY <2>2, <3>1 DEF u
    <3> QED
      BY <1>2, <3>1, <3>2
  <2> QED
    BY <2>2, <2>3, SeqEqual DEF u, n
<1>9. TrimSpace(t) = IF solid = {} THEN <<>> ELSE SubSeq(t, Min(solid), Max(solid))
  BY Zenon DEF TrimSpace, solid, Space
<1> QED
  BY <1>5, <1>7, <1>8, <1>9 DEF t

(* A text cut at a character.                                              *)
Cut(left, c, right) == left \o <<c>> \o right
LEMMA CutAt ==
  ASSUME NEW c \in Chars, NEW left \in Seq(Chars), NEW right \in Seq(Chars)
  PROVE  /\ Cut(left, c, right) \in Seq(Chars) /\ Len(left) + 1 \in Places(Cut(left, c, right), c)
         /\ Before(Cut(left, c, right), Len(left) + 1) = left
         /\ After(Cut(left, c, right), Len(left) + 1) = right
         /\ (\A i \in 1 .. Len(left) : left[i] # c) => Min(Places(Cut(left, c, right), c)) = Len(left) + 1
         /\ (\A i \in 1 .. Len(right) : right[i] # c) => Max(Places(Cut(left, c, right), c)) = Len(left) + 1
<1> DEFINE t == Cut(left, c, right)  m == Len(left)  n == Len(right)  k == m + 1
<1>1. m \in Nat /\ n \in Nat
  BY LenProperties
<1>2. /\ t \in Seq(Chars) /\ Len(t) = k + n
      /\ \A i \in 1 .. m : t[i] = left[i]
      /\ t[k] = c
      /\ \A i \in 1 .. n : t[k + i] = right[i]
  <2>1. <<c>> \in Seq(Chars) /\ Len(<<c>>) = 1 /\ <<c>>[1] = c
    OBVIOUS
  <2>2. /\ t \in Seq(Chars) /\ Len(t) = Len(left) + 1 + Len(right)
        /\ \A i \in 1 .. Len(left) : t[i] = left[i]
        /\ \A i \in 1 .. 1 : t[Len(left) + i] = <<c>>[i]
        /\ \A i \in 1 .. Len(right) : t[Len(left) + 1 + i] = right[i]
    BY <2>1, InARow DEF Cut
  <2> QED
    BY <2>1, <2>2
<1> HIDE DEF t, m, n
<1>3. DOMAIN t = 1 .. k + n /\ \A i \in 1 .. k + n : t[i] \in Chars
  BY <1>2, LenProperties
<1>4. Places(t, c) = {i \in 1 .. k + n : t[i] = c}
  BY <1>3 DEF Places
<1>5. k \in Places(t, c) /\ Places(t, c) \in SUBSET Int
  <2>1. k \in 1 .. k + n
    BY <1>1
  <2> HIDE DEF k
  <2>2. k \in Places(t, c)
    BY <1>2, <1>4, <2>1
  <2>3. Places(t, c) \in SUBSET Int
    BY <1>4
  <2> QED
    BY <2>2, <2>3
<1>6. Before(t, k) = left
  <2> DEFINE u == SubSeq(t, 1, m)
  <2>1. /\ u \in Seq(Chars) /\ Len(u) = IF 1 <= m THEN m - 1 + 1 ELSE 0
        /\ \A i \in 1 .. m - 1 + 1 : u[i] = t[1 + i - 1]
    BY <1>1, <1>3, SubSeqProperties
  <2> HIDE DEF u
  <2>2. Len(u) = m /\ \A i \in 1 .. m : u[i] = left[i]
    <3>1. m - 1 + 1 = m /\ (IF 1 <= m THEN m - 1 + 1 ELSE 0) = m /\ \A i \in 1 .. m : 1 + i - 1 = i
      BY <1>1
    <3>2. Len(u) = m /\ \A i \in 1 .. m : u[i] = t[1 + i - 1]
      BY <2>1, <3>1
    <3> QED
      BY <1>2, <3>1, <3>2
  <2>3. u = left
    BY <2>1, <2>2, SeqEqual DEF m
  <2> QED
    BY <1>1, <2>3 DEF Before, u
<1>7. After(t, k) = right
  <2> DEFINE u == SubSeq(t, k + 1, k + n)
  <2>1. /\ u \in Seq(Chars) /\ Len(u) = IF k + 1 <= k + n THEN (k + n) - (k + 1) + 1 ELSE 0
        /\ \A i \in 1 .. (k + n) - (k + 1) + 1 : u[i] = t[k + 1 + i - 1]
    BY <1>1, <1>3, SubSeqProperties
  <2> HIDE DEF u
  <2>2. Len(u) = n /\ \A i \in 1 .. n : u[i] = right[i]
    <3>1. /\ (k + n) - (k + 1) + 1 = n /\ \A i \in 1 .. n : k + 1 + i - 1 = k + i
          /\ (IF k + 1 <= k + n THEN (k + n) - (k + 1) + 1 ELSE 0) = n
      BY <1>1
    <3> HIDE DEF k
    <3>2. Len(u) = n /\ \A i \in 1 .. n : u[i] = t[k + 1 + i - 1]
      BY <2>1, <3>1
    <3> QED
      BY <1>2, <3>1, <3>2
  <2>3. u = right
    BY <2>1, <2>2, SeqEqual DEF n
  <2> QED
    BY <1>2, <2>3 DEF After, u
<1>8. ASSUME \A i \in 1 .. m : left[i] # c
      PROVE  Min(Places(t, c)) = k
  <2>1. ASSUME NEW y \in Places(t, c), y < k
        PROVE  FALSE
    <3>1. y \in 1 .. k + n /\ t[y] = c
      BY <1>4
    <3>2. y \in 1 .. m
      BY <1>1, <2>1, <3>1
    <3> QED
      BY <1>2, <1>8, <3>1, <3>2
  <2>2. \A y \in Places(t, c) : k <= y
    BY <1>1, <1>4, <2>1
  <2> QED
    BY <1>5, <2>2, MinIs
<1>9. ASSUME \A i \in 1 .. n : right[i] # c
      PROVE  Max(Places(t, c)) = k
  <2>1. ASSUME NEW y \in Places(t, c), y > k
        PROVE  FALSE
    <3>1. y - k \in 1 .. n /\ k + (y - k) = y
      BY <1>1, <1>4, <2>1
    <3> QED
      BY <1>2, <1>4, <1>9, <2>1, <3>1
  <2>2. \A y \in Places(t, c) : y <= k
    BY <1>1, <1>4, <2>1
  <2> QED
    BY <1>5, <2>2, MaxIs
<1> QED
  BY <1>1, <1>2, <1>4, <1>5, <1>6, <1>7, <1>8, <1>9 DEF t, m, n

LEMMA CharsDiffer == Space # Colon /\ Space # Dash /\ Colon # Dash
BY DEF Space, Colon, Dash

(* The parts of a specification.                                           *)
HostOf(spec) == IF Places(spec, Colon) = {} THEN <<>> ELSE Before(spec, Max(Places(spec, Colon)))
RestOf(spec) == IF Places(spec, Colon) = {} THEN spec ELSE After(spec, Max(Places(spec, Colon)))
FirstOf(rest) ==
  TrimSpace(IF Places(rest, Dash) = {} THEN rest ELSE Before(rest, Min(Places(rest, Dash))))
SecondOf(rest) ==
  IF Places(rest, Dash) = {} THEN FirstOf(rest) ELSE TrimSpace(After(rest, Min(Places(rest, Dash))))

LEMMA ParseIs ==
  ASSUME NEW text
  PROVE  LET spec == TrimSpace(text)  rest == RestOf(spec)
         IN ParsePortSpec(text) =
              IF IsNumber(FirstOf(rest)) /\ IsNumber(SecondOf(rest))
              THEN Ordered(HostOf(spec), Atoi(FirstOf(rest)), Atoi(SecondOf(rest))) ELSE Rejected
BY Zenon DEF ParsePortSpec, HostOf, RestOf, FirstOf, SecondOf, Colon, Dash

(* The characters of a numeral.                                            *)
LEMMA NumeralChars ==
  ASSUME NEW s \in Numerals
  PROVE  /\ s \in Seq(Chars)
         /\ \A i \in 1 .. Len(s) : s[i] # Space /\ s[i] # Colon /\ s[i] # Dash /\ s[i] # "+"
<1>1. \A e \in DigitChars : e # Space /\ e # Colon /\ e # Dash /\ e # "+"
  BY DigitIs DEF DigitChars, Space, Colon, Dash
<1>2. s \in Seq(DigitChars)
  BY DEF Numerals, DigitChars
<1>3. \A i \in 1 .. Len(s) : s[i] \in DigitChars
  BY <1>2, ElementOfSeq
<1>4. DigitChars \subseteq Chars
  BY DEF Chars
<1>5. s \in Seq(Chars)
  BY <1>2, <1>4, SeqMonotonic
<1> QED
  BY <1>1, <1>3, <1>5

LEMMA NumeralEnds ==
  ASSUME NEW s \in Numerals, s # <<>>
  PROVE  s[1] # Space /\ s[Len(s)] # Space /\ s[1] # Dash /\ s[1] # "+"
<1>1. Len(s) \in Nat \ {0}
  BY EmptySeq DEF Numerals
<1>2. 1 \in 1 .. Len(s) /\ Len(s) \in 1 .. Len(s)
  BY <1>1
<1> QED
  BY <1>2, NumeralChars

(* Atoi reads a port that is written.                                      *)
LEMMA AtoiReads ==
  ASSUME NEW p \in 0 .. MaxInt, MaxInt \in Nat
  PROVE  IsNumber(Written[p]) /\ Atoi(Written[p]) = p
<1> DEFINE w == Written[p]
<1>1. p \in Nat
  OBVIOUS
<1>2. w \in Numerals /\ w # <<>> /\ Number[w] = p
  BY <1>1, WrittenReads
<1> HIDE DEF w
<1>3. w[1] # Dash /\ w[1] # "+"
  BY <1>2, NumeralEnds
<1>4. ~Signed(w)
  BY <1>3 DEF Signed, Dash
<1>5. Magnitude(w) = w
  BY <1>4 DEF Magnitude
<1>6. Atoi(w) = 1 * Number[w]
  BY <1>4, <1>5 DEF Atoi
<1>7. Atoi(w) = p
  BY <1>1, <1>2, <1>6
<1>8. IsNumber(w)
  BY <1>2, <1>5, <1>7 DEF IsNumber
<1> QED
  BY <1>7, <1>8 DEF w

(* What stands behind the host: no blank at either end, and no colon.      *)
Solid(x) ==
  /\ x \in Seq(Chars) /\ x # <<>> /\ x[1] # Space /\ x[Len(x)] # Space
  /\ \A i \in 1 .. Len(x) : x[i] # Colon

LEMMA NoBlank ==
  ASSUME NEW s \in Numerals, s # <<>>, NEW n \in Nat
  PROVE  TrimSpace(s) = s /\ TrimSpace(s \o Blank(n)) = s /\ TrimSpace(Blank(n) \o s) = s
<1>1. s \in Seq(Chars) /\ s[1] # Space /\ s[Len(s)] # Space
  BY NumeralChars, NumeralEnds
<1>2. Blank(0) = <<>> /\ Blank(n) \in Seq(Chars)
  BY BlankIs
<1>3. <<>> \o s = s /\ s \o <<>> = s /\ Blank(n) \o s \in Seq(Chars) /\ (Blank(n) \o s) \o <<>> = Blank(n) \o s
  BY <1>1, <1>2, ConcatEmptySeq, ConcatProperties
<1>4. /\ TrimSpace(Blank(0) \o s \o Blank(0)) = s
      /\ TrimSpace(Blank(0) \o s \o Blank(n)) = s
      /\ TrimSpace(Blank(n) \o s \o Blank(0)) = s
  BY <1>1, Trimmed
<1> QED
  BY <1>2, <1>3, <1>4

LEMMA OnePortIs ==
  ASSUME NEW p \in Nat
  PROVE  Solid(OnePort(p)) /\ FirstOf(OnePort(p)) = Written[p] /\ SecondOf(OnePort(p)) = Written[p]
<1> DEFINE w == Written[p]
<1>1. w \in Numerals /\ w # <<>>
  BY WrittenReads
<1> HIDE DEF w
<1>2. /\ w \in Seq(Chars) /\ w[1] # Space /\ w[Len(w)] # Space
      /\ \A i \in 1 .. Len(w) : w[i] # Colon /\ w[i] # Dash
  BY <1>1, NumeralChars, NumeralEnds
<1>3. Solid(w)
  BY <1>1, <1>2 DEF Solid
<1>4. Places(w, Dash) = {}
  <2>1. DOMAIN w = 1 .. Len(w)
    BY <1>2, LenProperties
  <2> QED
    BY <1>2, <2>1 DEF Places
<1>5. FirstOf(w) = w /\ SecondOf(w) = w
  <2>1. TrimSpace(w) = w
    BY <1>1, NoBlank
  <2> QED
    BY <1>4, <2>1 DEF FirstOf, SecondOf
<1> QED
  BY <1>3, <1>5 DEF OnePort, w

LEMMA TwoPortsIs ==
  ASSUME NEW p \in Nat, NEW q \in Nat, NEW b \in Nat, NEW c \in Nat
  PROVE  LET x == TwoPorts(p, b, c, q)
         IN Solid(x) /\ FirstOf(x) = Written[p] /\ SecondOf(x) = Written[q]
<1> DEFINE v == Written[p]  w == Written[q]  left == v \o Blank(b)  right == Blank(c) \o w
           x == left \o <<Dash>> \o right
<1>1. v \in Numerals /\ v # <<>> /\ w \in Numerals /\ w # <<>>
  BY WrittenReads
<1>2. /\ v \in Seq(Chars) /\ v[1] # Space /\ \A i \in 1 .. Len(v) : v[i] # Colon /\ v[i] # Dash
      /\ w \in Seq(Chars) /\ w[Len(w)] # Space /\ \A i \in 1 .. Len(w) : w[i] # Colon /\ w[i] # Dash
  <2> HIDE DEF v, w
  <2> QED
    BY <1>1, NumeralChars, NumeralEnds
<1>3. Dash \in Chars /\ <<Dash>> \in Seq(Chars) /\ Len(<<Dash>>) = 1 /\ <<Dash>>[1] = Dash
  BY DEF Chars
<1>4. /\ Blank(b) \in Seq(Chars) /\ Len(Blank(b)) = b /\ \A i \in 1 .. b : Blank(b)[i] = Space
      /\ Blank(c) \in Seq(Chars) /\ Len(Blank(c)) = c /\ \A i \in 1 .. c : Blank(c)[i] = Space
  BY BlankIs
<1>5. Len(v) \in Nat \ {0} /\ Len(w) \in Nat \ {0}
  <2> HIDE DEF v, w
  <2> QED
    BY <1>1, <1>2, EmptySeq
<1>6. /\ left \in Seq(Chars) /\ Len(left) = Len(v) + b
      /\ \A i \in 1 .. Len(v) + b : left[i] = IF i <= Len(v) THEN v[i] ELSE Blank(b)[i - Len(v)]
  <2> DEFINE e == Blank(b)
  <2> HIDE DEF v, e
  <2>1. v \in Seq(Chars) /\ e \in Seq(Chars)
    BY <1>2, <1>4 DEF e
  <2>2. /\ v \o e \in Seq(Chars) /\ Len(v \o e) = Len(v) + Len(e)
        /\ \A i \in 1 .. Len(v) + Len(e) : (v \o e)[i] = IF i <= Len(v) THEN v[i] ELSE e[i - Len(v)]
    BY <2>1, ConcatProperties
  <2>3. Len(e) = b
    BY <1>4 DEF e
  <2> QED
    BY <2>2, <2>3 DEF e
<1>7. /\ right \in Seq(Chars) /\ Len(right) = c + Len(w)
      /\ \A i \in 1 .. c + Len(w) : right[i] = IF i <= c THEN Blank(c)[i] ELSE w[i - c]
  <2> DEFINE e == Blank(c)
  <2> HIDE DEF w, e
  <2>1. w \in Seq(Chars) /\ e \in Seq(Chars)
    BY <1>2, <1>4 DEF e
  <2>2. /\ e \o w \in Seq(Chars) /\ Len(e \o w) = Len(e) + Len(w)
        /\ \A i \in 1 .. Len(e) + Len(w) : (e \o w)[i] = IF i <= Len(e) THEN e[i] ELSE w[i - Len(e)]
    BY <2>1, ConcatProperties
  <2>3. Len(e) = c
    BY <1>4 DEF e
  <2> QED
    BY <2>2, <2>3 DEF e
<1>8. TwoPorts(p, b, c, q) = x
  <2> DEFINE l == left \o <<Dash>>
  <2>1. l \in Seq(Chars)
    <3> HIDE DEF left
    <3> QED
      BY <1>3, <1>6, ConcatProperties
  <2>2. l \o Blank(c) \o w = l \o (Blank(c) \o w)
    <3> DEFINE e == Blank(c)
    <3> HIDE DEF l, w, e
    <3>1. l \in Seq(Chars) /\ e \in Seq(Chars) /\ w \in Seq(Chars)
      BY <1>2, <1>4, <2>1 DEF e
    <3>2. (l \o e) \o w = l \o (e \o w)
      BY <3>1, ConcatAssociative
    <3> QED
      BY <3>2 DEF e
  <2>3. TwoPorts(p, b, c, q) = l \o Blank(c) \o w
    BY Zenon DEF TwoPorts, Dash
  <2> QED
    BY <2>2, <2>3
<1> HIDE DEF v, w, left, right
<1>9. \A i \in 1 .. Len(left) : left[i] # Colon /\ left[i] # Dash
  <2> SUFFICES ASSUME NEW i \in 1 .. Len(v) + b
               PROVE  left[i] # Colon /\ left[i] # Dash
    BY <1>6
  <2>1. CASE i <= Len(v)
    BY <1>2, <1>5, <1>6, <2>1
  <2>2. CASE ~(i <= Len(v))
    <3>1. i - Len(v) \in 1 .. b
      BY <1>5, <2>2
    <3> QED
      BY <1>4, <1>6, <2>2, <3>1, CharsDiffer
  <2> QED
    BY <2>1, <2>2
<1>10. \A i \in 1 .. Len(right) : right[i] # Colon
  <2> SUFFICES ASSUME NEW i \in 1 .. c + Len(w)
               PROVE  right[i] # Colon
    BY <1>7
  <2>1. CASE i <= c
    BY <1>4, <1>7, <2>1, CharsDiffer
  <2>2. CASE ~(i <= c)
    <3>1. i - c \in 1 .. Len(w)
      BY <1>5, <2>2
    <3> QED
      BY <1>2, <1>7, <2>2, <3>1
  <2> QED
    BY <2>1, <2>2
<1>11. /\ x \in Seq(Chars) /\ Len(left) + 1 \in Places(x, Dash)
       /\ Before(x, Len(left) + 1) = left /\ After(x, Len(left) + 1) = right
       /\ Min(Places(x, Dash)) = Len(left) + 1
  <2>1. Dash \in Chars /\ left \in Seq(Chars) /\ right \in Seq(Chars) /\ x = Cut(left, Dash, right)
    BY <1>3, <1>6, <1>7 DEF Cut
  <2>2. \A i \in 1 .. Len(left) : left[i] # Dash
    BY <1>9
  <2> HIDE DEF x
  <2> QED
    BY <2>1, <2>2, CutAt
<1>12. FirstOf(x) = v /\ SecondOf(x) = w
  <2>1. TrimSpace(left) = v
    BY <1>1, NoBlank DEF left
  <2>2. TrimSpace(right) = w
    BY <1>1, NoBlank DEF right
  <2> HIDE DEF x
  <2> QED
    BY <1>11, <2>1, <2>2 DEF FirstOf, SecondOf
<1>13. /\ Len(x) = Len(left) + 1 + Len(right)
       /\ \A i \in 1 .. Len(left) : x[i] = left[i]
       /\ \A i \in 1 .. 1 : x[Len(left) + i] = <<Dash>>[i]
       /\ \A i \in 1 .. Len(right) : x[Len(left) + 1 + i] = right[i]
  <2>1. left \in Seq(Chars) /\ right \in Seq(Chars) /\ <<Dash>> \in Seq(Chars) /\ Len(<<Dash>>) = 1
    BY <1>3, <1>6, <1>7
  <2> DEFINE y == <<Dash>>
  <2> HIDE DEF y
  <2>2. /\ Len(left \o y \o right) = Len(left) + Len(y) + Len(right)
        /\ \A i \in 1 .. Len(left) : (left \o y \o right)[i] = left[i]
        /\ \A i \in 1 .. Len(y) : (left \o y \o right)[Len(left) + i] = y[i]
        /\ \A i \in 1 .. Len(right) : (left \o y \o right)[Len(left) + Len(y) + i] = right[i]
    BY <2>1, InARow DEF y
  <2> QED
    BY <2>1, <2>2 DEF y
<1>14. Solid(x)
  <2> HIDE DEF x
  <2>1. x # <<>>
    BY <1>5, <1>6, <1>7, <1>11, <1>13, EmptySeq
  <2>2. x[1] # Space
    <3>1. 1 \in 1 .. Len(v) /\ 1 \in 1 .. Len(left) /\ 1 \in 1 .. Len(v) + b
      BY <1>4, <1>5, <1>6
    <3>2. x[1] = left[1] /\ left[1] = v[1]
      BY <1>6, <1>13, <3>1
    <3> QED
      BY <1>2, <3>2
  <2>3. x[Len(x)] # Space
    <3> DEFINE m == Len(left)  k == Len(right)
    <3>1. /\ k = c + Len(w) /\ k \in 1 .. k /\ k \in 1 .. c + Len(w) /\ ~(k <= c) /\ k - c = Len(w)
          /\ Len(x) = m + 1 + k
      BY <1>4, <1>5, <1>7, <1>13
    <3>2. x[m + 1 + k] = right[k]
      BY <1>13, <3>1
    <3>3. right[k] = w[k - c]
      BY <1>7, <3>1
    <3> QED
      BY <1>2, <3>1, <3>2, <3>3
  <2>4. \A i \in 1 .. Len(x) : x[i] # Colon
    <3> SUFFICES ASSUME NEW i \in 1 .. Len(x)
                 PROVE  x[i] # Colon
      OBVIOUS
    <3>1. Len(left) \in Nat /\ Len(right) \in Nat
      BY <1>6, <1>7, LenProperties
    <3>2. CASE i <= Len(left)
      BY <1>9, <1>13, <3>1, <3>2
    <3>3. CASE i = Len(left) + 1
      <4>1. x[Len(left) + 1] = <<Dash>>[1]
        BY <1>13
      <4> QED
        BY <1>3, <3>3, <4>1, CharsDiffer
    <3>4. CASE i > Len(left) + 1
      <4>1. i - (Len(left) + 1) \in 1 .. Len(right) /\ Len(left) + 1 + (i - (Len(left) + 1)) = i
        BY <1>13, <3>1, <3>4
      <4> QED
        BY <1>10, <1>13, <4>1
    <3> QED
      BY <3>1, <3>2, <3>3, <3>4
  <2> QED
    BY <1>11, <2>1, <2>2, <2>3, <2>4 DEF Solid
<1> QED
  BY <1>8, <1>12, <1>14 DEF v, w

(* A host, and what is behind it, are told apart.                          *)
LEMMA HostRead ==
  ASSUME NEW host \in Seq(Chars), host # <<>> => host[1] # Space,
         NEW named \in BOOLEAN, ~named => host = <<>>, NEW x, Solid(x),
         NEW a \in Nat, NEW d \in Nat
  PROVE  LET spec == TrimSpace(Blank(a) \o (HostPart(named, host) \o x) \o Blank(d))
         IN HostOf(spec) = host /\ RestOf(spec) = x
<1> DEFINE core == HostPart(named, host) \o x  spec == TrimSpace(Blank(a) \o core \o Blank(d))
<1>1. /\ x \in Seq(Chars) /\ x # <<>> /\ x[1] # Space /\ x[Len(x)] # Space
      /\ \A i \in 1 .. Len(x) : x[i] # Colon
  BY DEF Solid
<1>2. Len(x) \in Nat \ {0} /\ Len(host) \in Nat
  BY <1>1, EmptySeq, LenProperties
<1>3. CASE named
  <2> DEFINE y == <<Colon>>  t == host \o y \o x
  <2>1. y \in Seq(Chars) /\ Len(y) = 1 /\ y[1] = Colon /\ Colon \in Chars
    BY DEF Chars
  <2>2. core = t /\ t = Cut(host, Colon, x)
    BY Zenon, <1>3 DEF HostPart, Cut, Colon
  <2>3. /\ t \in Seq(Chars) /\ Len(host) + 1 \in Places(t, Colon)
        /\ Before(t, Len(host) + 1) = host /\ After(t, Len(host) + 1) = x
        /\ Max(Places(t, Colon)) = Len(host) + 1
    <3>1. Colon \in Chars /\ host \in Seq(Chars) /\ x \in Seq(Chars)
      BY <1>1, <2>1
    <3>2. \A i \in 1 .. Len(x) : x[i] # Colon
      BY <1>1
    <3> HIDE DEF t
    <3> QED
      BY <2>2, <3>1, <3>2, CutAt
  <2>4. /\ Len(t) = Len(host) + Len(y) + Len(x)
        /\ \A i \in 1 .. Len(host) : t[i] = host[i]
        /\ \A i \in 1 .. Len(y) : t[Len(host) + i] = y[i]
        /\ \A i \in 1 .. Len(x) : t[Len(host) + Len(y) + i] = x[i]
    <3>1. host \in Seq(Chars) /\ y \in Seq(Chars) /\ x \in Seq(Chars)
      BY <1>1, <2>1
    <3> HIDE DEF y
    <3> QED
      BY <3>1, InARow
  <2> HIDE DEF t, y, core
  <2>5. t # <<>>
    BY <1>2, <2>1, <2>4, EmptySeq
  <2>6. t[1] # Space
    <3>1. CASE host = <<>>
      <4>1. Len(host) = 0
        BY <3>1, EmptySeq
      <4>2. t[0 + 1] = y[1]
        BY <2>1, <2>4, <4>1
      <4> QED
        BY <2>1, <4>2, CharsDiffer
    <3>2. CASE host # <<>>
      <4>1. Len(host) \in Nat \ {0}
        BY <3>2, EmptySeq
      <4>2. 1 \in 1 .. Len(host)
        BY <4>1
      <4> QED
        BY <2>4, <3>2, <4>2
    <3> QED
      BY <3>1, <3>2
  <2>7. t[Len(t)] # Space
    <3>1. Len(x) \in 1 .. Len(x)
      BY <1>2
    <3> QED
      BY <1>1, <2>4, <3>1
  <2>8. TrimSpace(Blank(a) \o t \o Blank(d)) = t
    BY <2>3, <2>5, <2>6, <2>7, Trimmed
  <2>9. HostOf(t) = host /\ RestOf(t) = x
    BY <2>3 DEF HostOf, RestOf
  <2> QED
    BY <2>2, <2>8, <2>9 DEF core
<1>4. CASE ~named
  <2>1. core = x
    <3>1. HostPart(named, host) = <<>>
      BY <1>4 DEF HostPart
    <3>2. <<>> \o x = x
      BY <1>1, ConcatEmptySeq
    <3> QED
      BY <3>1, <3>2
  <2>2. TrimSpace(Blank(a) \o x \o Blank(d)) = x
    BY <1>1, Trimmed
  <2>3. Places(x, Colon) = {}
    <3>1. DOMAIN x = 1 .. Len(x)
      BY <1>1, LenProperties
    <3> QED
      BY <1>1, <3>1 DEF Places
  <2>4. HostOf(x) = host /\ RestOf(x) = x
    BY <1>4, <2>3 DEF HostOf, RestOf
  <2> HIDE DEF core
  <2> QED
    BY <2>1, <2>2, <2>4 DEF core
<1> QED
  BY <1>3, <1>4

IsHostPart(named, host) ==
  /\ host \in Seq(Chars) /\ named \in BOOLEAN
  /\ host # <<>> => host[1] # Space
  /\ ~named => host = <<>>
ArePorts(x, p, q) ==
  /\ Solid(x) /\ p \in 0 .. MaxInt /\ q \in 0 .. MaxInt
  /\ FirstOf(x) = Written[p] /\ SecondOf(x) = Written[q]

(* What a specification is taken for, whose ports are p and q.             *)
LEMMA PortsRead ==
  ASSUME MaxInt \in Nat, NEW host, NEW named, IsHostPart(named, host),
         NEW x, NEW p, NEW q, ArePorts(x, p, q), NEW a \in Nat, NEW d \in Nat
  PROVE  ParsePortSpec(Blank(a) \o (HostPart(named, host) \o x) \o Blank(d)) = Ordered(host, p, q)
<1> DEFINE text == Blank(a) \o (HostPart(named, host) \o x) \o Blank(d)
           spec == TrimSpace(text)
<1>1. HostOf(spec) = host /\ RestOf(spec) = x
  BY HostRead DEF IsHostPart, ArePorts
<1>2. /\ IsNumber(Written[p]) /\ Atoi(Written[p]) = p
      /\ IsNumber(Written[q]) /\ Atoi(Written[q]) = q
  BY AtoiReads DEF ArePorts
<1>3. LET rest == RestOf(spec)
      IN ParsePortSpec(text) =
           IF IsNumber(FirstOf(rest)) /\ IsNumber(SecondOf(rest))
           THEN Ordered(HostOf(spec), Atoi(FirstOf(rest)), Atoi(SecondOf(rest))) ELSE Rejected
  <2> HIDE DEF text
  <2> QED
    BY ParseIs
<1> HIDE DEF text, spec
<1>4. ParsePortSpec(text) = Ordered(host, p, q)
  BY <1>1, <1>2, <1>3 DEF ArePorts
<1> QED
  BY <1>4 DEF text

(* However a range is written, it is taken for what it means.              *)
LEMMA MeantIs ==
  ASSUME NEW text, NEW r, IsRange(r), Writes(text, r), Len(text) \in Nat, MaxInt \in Nat
  PROVE  ParsePortSpec(text) = r
<1> DEFINE host == r.host  p == r.start  q == r.end
<1>1. /\ r = [ok |-> TRUE, host |-> host, start |-> p, end |-> q]
      /\ host \in Seq(STRING) /\ (host # <<>> => host[1] # Space)
      /\ p \in 0 .. MaxInt /\ q \in p .. MaxInt
  BY DEF IsRange, Space
<1> HIDE DEF host, p, q
<1>2. host \in Seq(Chars)
  <2>1. STRING \subseteq Chars
    BY DEF Chars
  <2> QED
    BY <1>1, <2>1, SeqMonotonic
<1>3. p \in Nat /\ q \in Nat /\ q \in 0 .. MaxInt /\ p <= q
  BY <1>1
<1>4. Ordered(host, p, q) = r /\ Ordered(host, q, p) = r
  <2>1. ~(p > q) /\ (q > p \/ q = p)
    BY <1>1, <1>3
  <2> QED
    BY <1>1, <2>1 DEF Ordered
<1>5. PICK named \in BOOLEAN, a \in 0 .. Len(text), d \in 0 .. Len(text) :
        /\ ~named => host = <<>>
        /\ \/ p = q /\ text = Blank(a) \o (HostPart(named, host) \o OnePort(p)) \o Blank(d)
           \/ \E b, c \in 0 .. Len(text) :
                \/ text = Blank(a) \o (HostPart(named, host) \o TwoPorts(p, b, c, q)) \o Blank(d)
                \/ text = Blank(a) \o (HostPart(named, host) \o TwoPorts(q, b, c, p)) \o Blank(d)
  BY DEF Writes, host, p, q
<1>6. a \in Nat /\ d \in Nat /\ IsHostPart(named, host)
  BY <1>1, <1>2, <1>5 DEF IsHostPart
<1>7. CASE p = q /\ text = Blank(a) \o (HostPart(named, host) \o OnePort(p)) \o Blank(d)
  <2>1. ArePorts(OnePort(p), p, p)
    BY <1>1, <1>3, OnePortIs DEF ArePorts
  <2>2. ParsePortSpec(Blank(a) \o (HostPart(named, host) \o OnePort(p)) \o Blank(d)) = Ordered(host, p, p)
    BY <1>6, <2>1, PortsRead
  <2> QED
    BY <1>4, <1>7, <2>2
<1>8. ASSUME NEW b \in Nat, NEW c \in Nat
      PROVE  /\ ParsePortSpec(Blank(a) \o (HostPart(named, host) \o TwoPorts(p, b, c, q)) \o Blank(d)) = r
             /\ ParsePortSpec(Blank(a) \o (HostPart(named, host) \o TwoPorts(q, b, c, p)) \o Blank(d)) = r
  <2> DEFINE x == TwoPorts(p, b, c, q)  y == TwoPorts(q, b, c, p)
  <2>1. ArePorts(x, p, q) /\ ArePorts(y, q, p)
    <3>1. /\ Solid(x) /\ FirstOf(x) = Written[p] /\ SecondOf(x) = Written[q]
          /\ Solid(y) /\ FirstOf(y) = Written[q] /\ SecondOf(y) = Written[p]
      BY <1>3, TwoPortsIs
    <3> HIDE DEF x, y
    <3> QED
      BY <1>1, <1>3, <3>1 DEF ArePorts
  <2> HIDE DEF x, y
  <2>2. /\ ParsePortSpec(Blank(a) \o (HostPart(named, host) \o x) \o Blank(d)) = Ordered(host, p, q)
        /\ ParsePortSpec(Blank(a) \o (HostPart(named, host) \o y) \o Blank(d)) = Ordered(host, q, p)
    BY <1>6, <2>1, PortsRead
  <2> QED
    BY <1>4, <2>2 DEF x, y
<1>9. CASE \E b, c \in 0 .. Len(text) :
             \/ text = Blank(a) \o (HostPart(named, host) \o TwoPorts(p, b, c, q)) \o Blank(d)
             \/ text = Blank(a) \o (HostPart(named, host) \o TwoPorts(q, b, c, p)) \o Blank(d)
  <2>1. PICK b \in 0 .. Len(text), c \in 0 .. Len(text) :
             \/ text = Blank(a) \o (HostPart(named, host) \o TwoPorts(p, b, c, q)) \o Blank(d)
             \/ text = Blank(a) \o (HostPart(named, host) \o TwoPorts(q, b, c, p)) \o Blank(d)
    BY <1>9
  <2>2. b \in Nat /\ c \in Nat
    OBVIOUS
  <2> QED
    BY <1>8, <2>1, <2>2
<1> QED
  BY <1>5, <1>7, <1>9

(* A set of places has a first and a last one.                             *)
LEMMA PlacesEnd ==
  ASSUME NEW n \in Nat, NEW T \in SUBSET (1 .. n), T # {}
  PROVE  Min(T) \in T /\ Max(T) \in T /\ \A y \in T : Min(T) <= y /\ y <= Max(T)
<1> DEFINE Less == OpToRel(<, Nat)
<1>1. IsWellFoundedOn(Less, Nat)
  BY NatLessThanWellFounded
<1>2. PICK x \in T : \A y \in T : <<y, x>> \notin Less
  <2>1. T \subseteq Nat
    OBVIOUS
  <2> HIDE DEF Less
  <2> QED
    BY <1>1, <2>1, WFMin
<1>3. \A y \in T : x <= y
  <2> SUFFICES ASSUME NEW y \in T, y < x
               PROVE  FALSE
    OBVIOUS
  <2>1. <<y, x>> \in Less
    BY DEF OpToRel
  <2> QED
    BY <1>2, <2>1
<1> DEFINE U == {n - y : y \in T}
<1>4. PICK u \in U : \A v \in U : <<v, u>> \notin Less
  <2>1. U \subseteq Nat /\ U # {}
    OBVIOUS
  <2> HIDE DEF Less, U
  <2> QED
    BY <1>1, <2>1, WFMin
<1>5. PICK z \in T : u = n - z
  OBVIOUS
<1>6. \A y \in T : y <= z
  <2> SUFFICES ASSUME NEW y \in T, z < y
               PROVE  FALSE
    OBVIOUS
  <2>1. n - y \in U /\ n - y \in Nat /\ u \in Nat /\ n - y < u
    BY <1>5
  <2>2. <<n - y, u>> \in Less
    BY <2>1 DEF OpToRel
  <2> QED
    BY <1>4, <2>1, <2>2
<1>7. Min(T) = x /\ Max(T) = z
  <2>1. T \in SUBSET Int
    OBVIOUS
  <2> QED
    BY <1>3, <1>6, <2>1, MinIs, MaxIs
<1> QED
  BY <1>3, <1>6, <1>7

(* What is left of a text does not begin with a blank, nor does a host.    *)
LEMMA SpecIs ==
  ASSUME NEW text \in Seq(STRING)
  PROVE  LET spec == TrimSpace(text)
         IN /\ spec \in Seq(STRING) /\ (spec # <<>> => spec[1] # Space)
            /\ HostOf(spec) \in Seq(STRING) /\ (HostOf(spec) # <<>> => HostOf(spec)[1] # Space)
<1> DEFINE spec == TrimSpace(text)
           solid == DOMAIN text \ Places(text, Space)
<1>1. Len(text) \in Nat /\ DOMAIN text = 1 .. Len(text) /\ \A i \in 1 .. Len(text) : text[i] \in STRING
  BY LenProperties
<1>2. solid = {i \in 1 .. Len(text) : text[i] # Space}
  BY <1>1 DEF Places
<1>3. spec = IF solid = {} THEN <<>> ELSE SubSeq(text, Min(solid), Max(solid))
  BY Zenon DEF TrimSpace, Space
<1> HIDE DEF spec, solid
<1>4. spec \in Seq(STRING) /\ (spec # <<>> => spec[1] # Space)
  <2>1. CASE solid = {}
    BY <1>3, <2>1
  <2>2. CASE solid # {}
    <3> DEFINE m == Min(solid)  n == Max(solid)
    <3>1. m \in solid /\ n \in solid /\ m <= n
      <4>1. solid \in SUBSET (1 .. Len(text))
        BY <1>2
      <4> QED
        BY <1>1, <2>2, <4>1, PlacesEnd
    <3> HIDE DEF m, n
    <3>2. m \in Int /\ n \in Int /\ m <= n /\ (\A i \in m .. n : text[i] \in STRING) /\ text[m] # Space
      BY <1>1, <1>2, <3>1
    <3>3. /\ SubSeq(text, m, n) \in Seq(STRING)
          /\ \A i \in 1 .. n - m + 1 : SubSeq(text, m, n)[i] = text[m + i - 1]
      BY <3>2, SubSeqProperties
    <3>4. SubSeq(text, m, n)[1] = text[m + 1 - 1] /\ m + 1 - 1 = m
      <4>1. 1 \in 1 .. n - m + 1
        BY <3>2
      <4> QED
        BY <3>2, <3>3, <4>1
    <3> QED
      BY <1>3, <2>2, <3>2, <3>3, <3>4 DEF m, n
  <2> QED
    BY <2>1, <2>2
<1>5. HostOf(spec) \in Seq(STRING) /\ (HostOf(spec) # <<>> => HostOf(spec)[1] # Space)
  <2> DEFINE colons == Places(spec, Colon)  k == Max(colons)
  <2>1. CASE colons = {}
    <3>1. HostOf(spec) = <<>>
      BY <2>1 DEF HostOf
    <3> QED
      BY <3>1
  <2>2. CASE colons # {}
    <3>1. Len(spec) \in Nat /\ DOMAIN spec = 1 .. Len(spec) /\ \A i \in 1 .. Len(spec) : spec[i] \in STRING
      BY <1>4, LenProperties
    <3>2. colons \in SUBSET (1 .. Len(spec))
      BY <3>1 DEF Places
    <3>3. k \in 1 .. Len(spec)
      <4> HIDE DEF colons
      <4> QED
        BY <2>2, <3>1, <3>2, PlacesEnd
    <3> HIDE DEF k
    <3> DEFINE u == SubSeq(spec, 1, k - 1)
    <3>4. HostOf(spec) = u
      BY <2>2 DEF HostOf, Before, k
    <3>5. k - 1 \in Int /\ \A i \in 1 .. k - 1 : spec[i] \in STRING
      BY <3>1, <3>3
    <3>6. /\ u \in Seq(STRING) /\ Len(u) = IF 1 <= k - 1 THEN k - 1 - 1 + 1 ELSE 0
          /\ \A i \in 1 .. k - 1 - 1 + 1 : u[i] = spec[1 + i - 1]
      BY <3>5, SubSeqProperties
    <3> HIDE DEF u
    <3>7. ASSUME u # <<>>
          PROVE  u[1] # Space
      <4>1. Len(u) \in Nat \ {0}
        BY <3>6, <3>7, EmptySeq
      <4>2. 1 \in 1 .. k - 1 - 1 + 1 /\ 1 + 1 - 1 = 1
        BY <3>3, <3>6, <4>1
      <4>3. u[1] = spec[1]
        BY <3>6, <4>2
      <4>4. spec # <<>>
        BY <3>1, <3>3, EmptySeq
      <4> QED
        BY <1>4, <4>3, <4>4
    <3> QED
      BY <3>4, <3>6, <3>7
  <2> QED
    BY <2>1, <2>2
<1> QED
  BY <1>4, <1>5 DEF spec

(* What is accepted of any text.                                           *)
LEMMA AcceptedIs ==
  ASSUME NEW text \in Seq(STRING), MaxInt \in Nat, ParsePortSpec(text).ok
  PROVE  LET r == ParsePortSpec(text)
         IN /\ r.start <= r.end
            /\ r.start >= 0 => IsRange(r)
<1> DEFINE spec == TrimSpace(text)  rest == RestOf(spec)  u == FirstOf(rest)  v == SecondOf(rest)
           host == HostOf(spec)  a == Atoi(u)  b == Atoi(v)  r == ParsePortSpec(text)
<1>1. host \in Seq(STRING) /\ (host # <<>> => host[1] # Space)
  BY SpecIs
<1>2. r = IF IsNumber(u) /\ IsNumber(v) THEN Ordered(host, a, b) ELSE Rejected
  BY ParseIs
<1> HIDE DEF spec, rest, u, v, host, r
<1>3. IsNumber(u) /\ IsNumber(v) /\ r = Ordered(host, a, b)
  BY <1>2 DEF Rejected, r
<1>4. a \in -MaxInt - 1 .. MaxInt /\ b \in -MaxInt - 1 .. MaxInt
  BY <1>3 DEF IsNumber
<1> HIDE DEF a, b
<1>5. /\ r = [ok |-> TRUE, host |-> host, start |-> r.start, end |-> r.end]
      /\ r.host = host /\ r.start = (IF a > b THEN b ELSE a) /\ r.end = (IF a > b THEN a ELSE b)
  BY <1>3 DEF Ordered
<1>6. r.start <= r.end /\ r.start \in Int /\ r.end \in Int /\ r.end <= MaxInt
  BY <1>4, <1>5
<1>7. ASSUME r.start >= 0
      PROVE  IsRange(r)
  <2>1. r.start \in 0 .. MaxInt /\ r.end \in r.start .. MaxInt
    BY <1>6, <1>7
  <2>2. host # <<>> => host[1] # " "
    BY Zenon, <1>1 DEF Space
  <2> QED
    BY Zenon, <1>1, <1>5, <2>1, <2>2 DEF IsRange
<1> QED
  BY <1>6, <1>7 DEF r

(* A range that is written out means the same again.                       *)
LEMMA WrittenAgain ==
  ASSUME MaxInt \in Nat, NEW r, IsRange(r)
  PROVE  ParsePortSpec(WrittenSpec(r)) = r
<1> DEFINE host == r.host  p == r.start  q == r.end  x == TwoPorts(p, 0, 0, q)
           core == HostPart(TRUE, host) \o x
<1>1. /\ r = [ok |-> TRUE, host |-> host, start |-> p, end |-> q]
      /\ host \in Seq(STRING) /\ (host # <<>> => host[1] # Space)
      /\ p \in 0 .. MaxInt /\ q \in p .. MaxInt
  BY DEF IsRange, Space
<1>2. WrittenSpec(r) = core
  BY DEF WrittenSpec
<1> HIDE DEF host, p, q
<1>3. host \in Seq(Chars)
  <2>1. STRING \subseteq Chars
    BY DEF Chars
  <2> QED
    BY <1>1, <2>1, SeqMonotonic
<1>4. ArePorts(x, p, q)
  <2>1. p \in Nat /\ q \in Nat /\ q \in 0 .. MaxInt
    BY <1>1
  <2>2. Solid(x) /\ FirstOf(x) = Written[p] /\ SecondOf(x) = Written[q]
    BY <2>1, TwoPortsIs
  <2> HIDE DEF x
  <2> QED
    BY <1>1, <2>1, <2>2 DEF ArePorts
<1>5. Blank(0) = <<>> /\ Blank(0) \o core \o Blank(0) = core
  <2>1. Blank(0) = <<>>
    BY BlankIs
  <2>2. core \in Seq(Chars)
    <3> HIDE DEF x
    <3>1. <<Colon>> \in Seq(Chars)
      BY DEF Chars
    <3>2. host \o <<Colon>> \in Seq(Chars)
      BY <1>3, <3>1, ConcatProperties
    <3>3. HostPart(TRUE, host) = host \o <<Colon>>
      BY Zenon DEF HostPart, Colon
    <3>4. x \in Seq(Chars)
      BY <1>4 DEF ArePorts, Solid
    <3> QED
      BY <3>2, <3>3, <3>4, ConcatProperties
  <2> HIDE DEF core
  <2>3. <<>> \o core = core /\ core \o <<>> = core
    BY <2>2, ConcatEmptySeq
  <2> QED
    BY <2>1, <2>3
<1>6. ParsePortSpec(Blank(0) \o core \o Blank(0)) = Ordered(host, p, q)
  <2> DEFINE named == TRUE  none == 0
  <2>1. IsHostPart(named, host) /\ none \in Nat
    BY <1>1, <1>3 DEF IsHostPart
  <2> HIDE DEF x, named, none
  <2>2. ParsePortSpec(Blank(none) \o (HostPart(named, host) \o x) \o Blank(none)) = Ordered(host, p, q)
    BY <1>4, <2>1, PortsRead
  <2> QED
    BY <2>2 DEF named, none
<1>7. Ordered(host, p, q) = r
  <2>1. ~(p > q)
    BY <1>1
  <2> QED
    BY <1>1, <2>1 DEF Ordered
<1> HIDE DEF core
<1> QED
  BY <1>2, <1>5, <1>6, <1>7

----------------------------------------------------------------------------
(* What there is at each moment: an input, and what was made of it.        *)
Parsed == output = [of |-> "ports", result |-> ParsePortSpec(input.text)]
Sniffed ==
  /\ output = [of |-> "name", result |-> output.result]
  /\ Sane(input.data, output.result)
  /\ input.genuine => output.result.step = "over"
Passed ==
  output = [of |-> "datagram",
            fromClient |-> parseSocksUDPDest(From(input.bytes, 4)),
            fromStream |-> readSocksAddr(From(input.bytes, 4)),
            toParent |-> ToParent(input.bytes), toClient |-> ToClient(input.bytes)]
IInv ==
  /\ input \in Texts \cup Hellos \cup Datagrams
  /\ \/ output = None
     \/ input \in Texts /\ Parsed
     \/ input \in Hellos /\ Sniffed
     \/ input \in Datagrams /\ Passed

LEMMA TextIs == \A t : IsText(t) => t.of = "text"
BY Zenon DEF IsText

LEMMA HelloIs == \A h : IsHello(h) => h.of = "hello" /\ IsData(h.data)
BY Zenon DEF IsHello

LEMMA DatagramIs == \A d : IsDatagram(d) => d.of = "datagram" /\ d.bytes \in Seq(Octet)
BY Zenon DEF IsDatagram

LEMMA InputIs ==
  ASSUME input \in Texts \cup Hellos \cup Datagrams
  PROVE  /\ input.of = "text" => input \in Texts
         /\ input.of = "hello" => input \in Hellos
         /\ input.of = "datagram" => input \in Datagrams
BY ParsersAssumption, TextIs, HelloIs, DatagramIs

LEMMA DataIs == \A h \in Hellos : IsData(h.data)
BY ParsersAssumption, HelloIs

LEMMA Inductive == Spec => []IInv
<1>1. Init => IInv
  BY DEF Init, IInv
<1>2. IInv /\ [Next]_vars => IInv'
  <2> SUFFICES ASSUME IInv, [Next]_vars
               PROVE  IInv'
    OBVIOUS
  <2>0. input \in Texts \cup Hellos \cup Datagrams
    BY DEF IInv
  <2>1. CASE ReadPorts
    <3>1. input \in Texts /\ input' = input /\ output' = [of |-> "ports", result |-> ParsePortSpec(input.text)]
      BY <2>0, <2>1, InputIs DEF ReadPorts
    <3> QED
      BY <3>1 DEF IInv, Parsed
  <2>2. CASE SniffHello
    <3>1. input \in Hellos /\ input' = input /\ output' = [of |-> "name", result |-> Begin(input.data)]
      BY <2>0, <2>2, InputIs DEF SniffHello
    <3>2. Sane(input.data, Begin(input.data))
      BY <3>1, DataIs, BeginIs
    <3>3. input.genuine => Begin(input.data).step = "over"
      BY <3>1, GenuineRefused
    <3>4. Sniffed'
      BY <3>1, <3>2, <3>3 DEF Sniffed
    <3> QED
      BY <2>0, <3>1, <3>4 DEF IInv
  <2>3. CASE SniffOn
    <3> DEFINE w == output.result
    <3>1. input \in Hellos /\ Sniffed
      BY <2>3 DEF SniffOn, IInv, None, Parsed, Passed
    <3>2. /\ input' = input /\ output' = [of |-> "name", result |-> Onward(input.data, w)]
          /\ w.step \in Loops
      BY <2>3, <3>1 DEF SniffOn, Sniffed
    <3>3. w.off \in Nat /\ w.left \in Nat
      BY <3>1 DEF Sniffed, Sane
    <3>4. Sane(input.data, Onward(input.data, w))
      BY <3>1, <3>3, DataIs, ExtensionIs, EntryIs DEF Onward
    <3>5. ~input.genuine
      BY <3>1, <3>2 DEF Sniffed, Loops
    <3>6. Sniffed'
      BY <3>2, <3>4, <3>5 DEF Sniffed
    <3> QED
      BY <2>0, <3>1, <3>2, <3>6 DEF IInv
  <2>4. CASE PassDatagram
    <3>1. input \in Datagrams /\ input' = input
      BY <2>0, <2>4, InputIs DEF PassDatagram
    <3>2. Passed'
      BY <2>4 DEF PassDatagram, Passed
    <3> QED
      BY <2>0, <3>1, <3>2 DEF IInv
  <2>5. CASE UNCHANGED vars
    BY <2>5 DEF vars, IInv, Parsed, Sniffed, Passed
  <2> QED
    BY <2>1, <2>2, <2>3, <2>4, <2>5 DEF Next
<1> QED
  BY <1>1, <1>2, PTL DEF Spec

(* sniffSNI reads no byte it does not have, whatever lengths a client      *)
(* claims, and takes nothing else for the server name of a genuine hello.  *)
THEOREM SniffIsSound == Spec => []SniffSound
<1>1. IInv => SniffSound
  <2> SUFFICES ASSUME IInv, output.of = "name"
               PROVE  /\ output.result.last < input.data.n
                      /\ ~(input.genuine /\ output.result.step = "found")
    BY DEF SniffSound
  <2>1. Sniffed
    BY DEF IInv, None, Parsed, Passed
  <2> QED
    BY <2>1 DEF Sniffed, Sane
<1> QED
  BY <1>1, Inductive, PTL

(* The two readers of addresses agree on every datagram.                   *)
THEOREM ReadersAgreeOnAll == Spec => []ReadersAgree
<1>1. IInv => ReadersAgree
  <2> SUFFICES ASSUME IInv, output.of = "datagram"
               PROVE  output.fromStream = output.fromClient
    BY DEF ReadersAgree
  <2>1. input \in Datagrams /\ Passed
    BY DEF IInv, None, Parsed, Sniffed
  <2>2. input.bytes \in Seq(Octet)
    BY <2>1, ParsersAssumption, DatagramIs
  <2>3. From(input.bytes, 4) \in Seq(Octet)
    <3>1. Len(input.bytes) \in Nat /\ \A j \in 1 .. Len(input.bytes) : input.bytes[j] \in Octet
      BY <2>2, LenProperties
    <3> QED
      BY <2>2, <3>1, SubSeqProperties DEF From
  <2> QED
    BY <2>1, <2>3, ReadersAlwaysAgree DEF Passed
<1> QED
  BY <1>1, Inductive, PTL

(* A datagram that was sent holds what was sent.                           *)
LEMMA SentReads ==
  ASSUME NEW host \in Hosts, NEW port \in TwoBytes, NEW payload \in Seq(Octet)
  PROVE  /\ decodeSocksUDPAddr(From(Sent(host, port, payload), 4)) =
              [ok |-> TRUE, host |-> Denoted(host), port |-> port, rest |-> payload]
         /\ Sent(host, port, payload) # <<>>
<1>1. From(Sent(host, port, payload), 4) = Wire(host, port) \o payload
  BY Arrived
<1>2. Sent(host, port, payload) # <<>>
  <2> DEFINE e == Wire(host, port)
  <2>1. e \in Seq(Octet)
    BY ReadBack
  <2> HIDE DEF e
  <2>2. Header \in Seq(Octet) /\ Len(Header) = 3
    BY DEF Header, Octet
  <2>3. Len(e) \in Nat /\ Len(payload) \in Nat
    BY <2>1, LenProperties
  <2>4. Header \o e \in Seq(Octet) /\ Len(Header \o e) = 3 + Len(e)
    <3>1. Len(Header \o e) = Len(Header) + Len(e)
      BY <2>1, <2>2, ConcatProperties
    <3> QED
      BY <2>1, <2>2, <3>1, ConcatProperties
  <2>5. Len((Header \o e) \o payload) = 3 + Len(e) + Len(payload)
    BY <2>4, ConcatProperties
  <2>6. Len((Header \o e) \o payload) > 0
    BY <2>3, <2>5
  <2> QED
    BY <2>6, EmptySeq DEF Sent, e
<1> QED
  BY <1>1, <1>2, ReadBack

LEMMA WholeIs ==
  ASSUME NEW d \in Datagrams, d.whole
  PROVE  /\ d.host \in Hosts /\ d.port \in TwoBytes /\ d.payload \in Seq(Octet)
         /\ d.bytes = Sent(d.host, d.port, d.payload)
<1>1. AsSent(d)
  BY ParsersAssumption, DatagramIs DEF IsDatagram
<1>2. IsHost(d.host) /\ d.port \in TwoBytes /\ d.payload \in Seq(Octet)
  BY <1>1 DEF AsSent
<1>3. d.bytes = Sent(d.host, d.port, d.payload)
  BY <1>1 DEF AsSent, Sent
<1>4. d.host \in Hosts
  BY <1>2, HostsAre
<1> QED
  BY <1>2, <1>3, <1>4

(* What is made of a datagram that was sent and is taken.                  *)
LEMMA GoodIs ==
  ASSUME IInv, Good
  PROVE  ForwardedAsSent
<1> DEFINE h == input.host  port == input.port  payload == input.payload
           v4 == [form |-> "v4", bytes |-> PeerIP(Denoted(h))]
<1>1. input \in Datagrams /\ Passed /\ input.whole
  BY DEF Good, IInv, None, Parsed, Sniffed
<1>2. h \in Hosts /\ port \in TwoBytes /\ payload \in Seq(Octet) /\ payload # <<>>
  BY <1>1, WholeIs DEF Good
<1>3. input.bytes = Sent(h, port, payload) /\ Len(Sent(h, port, payload)) >= 10
  BY <1>1, WholeIs DEF Good
<1>4. output.toParent = ToParent(input.bytes) /\ output.toClient = ToClient(input.bytes)
  BY <1>1 DEF Passed
<1> HIDE DEF h, port, payload
<1>5. output.toParent = IF Clean(h) THEN Sent(Meaning(h), port, payload)
                        ELSE IF Enclosed(h.bytes) THEN Sent(ParseIP(Unwrapped(h)), port, payload)
                        ELSE <<>>
  BY <1>2, <1>3, <1>4, DatagramPassesParent
<1>6. Meaning(h).form # "v6" => output.toClient = Sent(v4, port, payload)
  BY <1>2, <1>3, <1>4, DatagramPassesParent
<1>7. Meaning(h) \in Hosts /\ Denoted(Meaning(h)) = Meaning(h)
  BY <1>2, DenotedIs, DenotedTwice, ParsedIPIs DEF Meaning
<1>8. ASSUME output.toParent # <<>>
      PROVE  Carried(output.toParent)
  <2>1. CASE Clean(h)
    <3>1. decodeSocksUDPAddr(From(output.toParent, 4)) =
            [ok |-> TRUE, host |-> Meaning(h), port |-> port, rest |-> payload]
      BY <1>2, <1>5, <1>7, <2>1, SentReads
    <3> QED
      BY <3>1 DEF Carried, h, port, payload
  <2>2. CASE ~Clean(h) /\ Enclosed(h.bytes)
    <3> DEFINE u == ParseIP(Unwrapped(h))
    <3>1. Unwrapped(h) \in Hosts /\ Denoted(Unwrapped(h)) = Unwrapped(h)
      <4>1. Unwrapped(h) \in Hosts
        BY <1>2, <2>2, CleanIs, UnwrappedIs
      <4>2. Unwrapped(h).form # "v6"
        BY DEF Unwrapped
      <4> QED
        BY <4>1, <4>2, DenotedIs
    <3>2. u \in Hosts
      BY <3>1, ParsedIPIs
    <3>3. output.toParent = Sent(u, port, payload)
      BY <1>5, <2>2
    <3> HIDE DEF u
    <3>4. decodeSocksUDPAddr(From(output.toParent, 4)) =
            [ok |-> TRUE, host |-> Denoted(u), port |-> port, rest |-> payload]
      BY <1>2, <3>2, <3>3, SentReads
    <3> QED
      BY <2>2, <3>4 DEF Carried, h, port, payload
  <2> QED
    BY <1>5, <1>8, <2>1, <2>2
<1>9. ASSUME Clean(h)
      PROVE  output.toParent # <<>>
  BY <1>2, <1>5, <1>7, <1>9, SentReads
<1>10. ASSUME Clean(h), Meaning(h) = h
       PROVE  output.toParent = input.bytes
  BY <1>3, <1>5, <1>10
<1>11. ASSUME h.form = "v4"
       PROVE  output.toClient = input.bytes
  <2>1. Denoted(h) = h
    BY <1>2, <1>11, DenotedIs
  <2>2. ParseIP(h) = h
    BY <1>2, <1>11, <2>1, ParsedIPIs
  <2>3. Meaning(h) = h
    BY <2>1, <2>2 DEF Meaning
  <2>4. h = [form |-> "v4", bytes |-> h.bytes]
    BY <1>2, <1>11 DEF Hosts
  <2>5. v4 = h
    BY <1>11, <2>1, <2>2, <2>4 DEF PeerIP
  <2> QED
    BY <1>3, <1>6, <1>11, <2>3, <2>5
<1>12. ASSUME h.form = "name", Meaning(h).form # "v6"
       PROVE  parseSocksUDPDest(From(output.toClient, 4)).rest = payload
  <2>1. output.toClient = Sent(v4, port, payload)
    BY <1>6, <1>12
  <2>2. v4 \in Hosts
    <3> DEFINE ip == PeerIP(Denoted(h))  m == Meaning(h)
    <3>1. ASSUME ip \in Seq(Octet), Len(ip) = 4
          PROVE  v4 \in Hosts
      BY <3>1, FourBytes
    <3>2. CASE m.form = "name"
      <4>1. ip = <<0, 0, 0, 0>>
        BY <3>2 DEF PeerIP, Meaning
      <4>2. <<0, 0, 0, 0>> \in Seq(Octet) /\ Len(<<0, 0, 0, 0>>) = 4
        BY DEF Octet
      <4> HIDE DEF ip, v4
      <4> QED
        BY <3>1, <4>1, <4>2
    <3>3. CASE m.form = "v4"
      <4>1. ip = m.bytes
        BY <3>3 DEF PeerIP, Meaning
      <4> HIDE DEF ip, m, v4
      <4>2. m \in Hosts
        BY <1>7 DEF m
      <4>3. m.bytes \in Seq(Octet) /\ Len(m.bytes) = 4
        BY <3>3, <4>2 DEF Hosts
      <4> QED
        BY <3>1, <4>1, <4>3
    <3>4. m.form \in {"v4", "v6", "name"}
      BY <1>7 DEF Hosts
    <3> QED
      BY <1>12, <3>2, <3>4, <3>3
  <2> HIDE DEF v4
  <2>3. decodeSocksUDPAddr(From(output.toClient, 4)).rest = payload
    BY <1>2, <2>1, <2>2, SentReads
  <2> QED
    BY <2>3 DEF parseSocksUDPDest
<1> QED
  BY <1>8, <1>9, <1>10, <1>11, <1>12 DEF ForwardedAsSent, h, port, payload

(* What goes through a parent is what was sent, and an answer comes back,  *)
(* for every address, port and payload, with the exceptions that the       *)
(* property makes for names with brackets and for IPv6.                    *)
THEOREM DatagramsForwardedAsSent == Spec => []ForwardedAsSent
<1>1. IInv => ForwardedAsSent
  BY GoodIs DEF ForwardedAsSent
<1> QED
  BY <1>1, Inductive, PTL

(* "-p" is taken for what it means, however it is written, the range is in *)
(* order, and means the same when it is written out.                       *)
THEOREM PortsAlwaysAsMeant == Spec => []PortsAsMeant
<1>1. IInv => PortsAsMeant
  <2> DEFINE r == output.result
  <2> SUFFICES ASSUME IInv, output.of = "ports"
               PROVE  /\ input.meant.ok => r = input.meant
                      /\ r.ok => r.start <= r.end
                      /\ r.ok /\ r.start >= 0 => ParsePortSpec(WrittenSpec(r)) = r
    BY DEF PortsAsMeant
  <2>1. input \in Texts /\ r = ParsePortSpec(input.text)
    BY DEF IInv, None, Parsed, Sniffed, Passed
  <2>2. /\ MaxInt \in Nat /\ input.text \in Seq(STRING)
        /\ input.meant.ok => IsRange(input.meant) /\ Writes(input.text, input.meant)
    BY Zenon, <2>1, ParsersAssumption DEF IsText
  <2>3. Len(input.text) \in Nat
    BY <2>2, LenProperties
  <2> HIDE DEF r
  <2>4. input.meant.ok => r = input.meant
    BY <2>1, <2>2, <2>3, MeantIs
  <2>5. r.ok => r.start <= r.end /\ (r.start >= 0 => IsRange(r))
    BY <2>1, <2>2, AcceptedIs
  <2> QED
    BY <2>2, <2>4, <2>5, WrittenAgain
<1> QED
  BY <1>1, Inductive, PTL
=============================================================================
