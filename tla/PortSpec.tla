------------------------------- MODULE PortSpec -------------------------------
(***************************************************************************)
(* ParsePortSpec: "-p", a port or a range of ports behind an optional      *)
(* host.  A text is a sequence of one-character strings.                   *)
(***************************************************************************)
EXTENDS Integers, SequencesExt, FiniteSetsExt

CONSTANT MaxInt  \* the largest int

Digits == <<"0", "1", "2", "3", "4", "5", "6", "7", "8", "9">>
Digit(v) == Digits[v + 1]
Value(c) == CHOOSE v \in 0 .. 9 : Digit(v) = c
Numerals == Seq({Digit(v) : v \in 0 .. 9})

Places(text, c) == {i \in DOMAIN text : text[i] = c}
Before(text, i) == SubSeq(text, 1, i - 1)
After(text, i) == SubSeq(text, i + 1, Len(text))

TrimSpace(text) ==
  LET solid == DOMAIN text \ Places(text, " ")
  IN IF solid = {} THEN <<>> ELSE SubSeq(text, Min(solid), Max(solid))

(* strconv.Atoi: digits behind an optional sign, in the range of an int.   *)
Number[text \in Numerals] ==
  IF text = <<>> THEN 0 ELSE 10 * Number[Front(text)] + Value(Last(text))
Signed(text) == text # <<>> /\ text[1] \in {"-", "+"}
Magnitude(text) == IF Signed(text) THEN Tail(text) ELSE text
Atoi(text) == (IF Signed(text) /\ text[1] = "-" THEN -1 ELSE 1) * Number[Magnitude(text)]
IsNumber(text) ==
  Magnitude(text) \in Numerals \ {<<>>} /\ Atoi(text) \in -MaxInt - 1 .. MaxInt

Rejected == [ok |-> FALSE, host |-> <<>>, start |-> 0, end |-> 0]
OrderedMutant(host, a, b) == [ok |-> TRUE, host |-> host, start |-> a, end |-> b]  \* not swapped
Ordered(host, a, b) ==
  [ok |-> TRUE, host |-> host, start |-> IF a > b THEN b ELSE a, end |-> IF a > b THEN a ELSE b]

ParsePortSpec(text) ==
  LET spec == TrimSpace(text)
      colons == Places(spec, ":")
      host == IF colons = {} THEN <<>> ELSE Before(spec, Max(colons))
      rest == IF colons = {} THEN spec ELSE After(spec, Max(colons))
      dashes == Places(rest, "-")
      first == TrimSpace(IF dashes = {} THEN rest ELSE Before(rest, Min(dashes)))
      second == IF dashes = {} THEN first ELSE TrimSpace(After(rest, Min(dashes)))
  IN IF IsNumber(first) /\ IsNumber(second) THEN Ordered(host, Atoi(first), Atoi(second))
     ELSE Rejected

----------------------------------------------------------------------------
(* How a range may be written: behind a host and a colon or not, as one    *)
(* port or as two in either order, with blanks around each.                *)
Written[n \in Nat] ==
  IF n < 10 THEN <<Digit(n)>> ELSE Append(Written[n \div 10], Digit(n % 10))
Blank(n) == [i \in 1 .. n |-> " "]
HostPart(named, host) == IF named THEN host \o <<":">> ELSE <<>>
OnePort(p) == Written[p]
TwoPorts(p, b, c, q) == Written[p] \o Blank(b) \o <<"-">> \o Blank(c) \o Written[q]

Writes(text, r) ==
  \E named \in BOOLEAN, a, d \in 0 .. Len(text) :
    /\ ~named => r.host = <<>>
    /\ \/ r.start = r.end /\ text = Blank(a) \o (HostPart(named, r.host) \o OnePort(r.start)) \o Blank(d)
       \/ \E b, c \in 0 .. Len(text) :
            \/ text = Blank(a) \o (HostPart(named, r.host) \o TwoPorts(r.start, b, c, r.end)) \o Blank(d)
            \/ text = Blank(a) \o (HostPart(named, r.host) \o TwoPorts(r.end, b, c, r.start)) \o Blank(d)

(* What a text can mean: a host does not begin with a blank.               *)
IsRange(r) ==
  /\ r = [ok |-> TRUE, host |-> r.host, start |-> r.start, end |-> r.end]
  /\ r.host \in Seq(STRING) /\ (r.host # <<>> => r.host[1] # " ")
  /\ r.start \in 0 .. MaxInt /\ r.end \in r.start .. MaxInt
=============================================================================
