--------------------------------- MODULE Sniff ---------------------------------
(***************************************************************************)
(* sniffSNI: looks for a server name in what a client sent first.  data is *)
(* [n, at]: its length, and its bytes that are not zero, by offset.  A     *)
(* walk over data is [step, off, left, last]: which loop it is in, or how  *)
(* it ended; the offset that comes next, of the name if it was found; the  *)
(* entries left, the name's length if it was found; and the last offset    *)
(* the latest step read (-1 if it read nothing): a Go slice must not be    *)
(* read at n or beyond.                                                    *)
(***************************************************************************)
EXTENDS Integers

Byte(data, i) == IF i \in DOMAIN data.at THEN data.at[i] ELSE 0
Word16(data, i) == 256 * Byte(data, i) + Byte(data, i + 1)

Walk(step, off, left, last) == [step |-> step, off |-> off, left |-> left, last |-> last]
NotFound(last) == Walk("over", 0, 0, last)
Loops == {"extension", "entry"}

(* The record's version is compared with the length of data, and the       *)
(* hello's is taken for its length.                                        *)
HeaderFits(data) == Byte(data, 0) = 22 /\ Word16(data, 1) <= data.n /\ 11 + Word16(data, 9) <= data.n

(* Up to the loops.                                                        *)
Begin(data) ==
  IF data.n < 42 THEN NotFound(-1)
  ELSE IF ~HeaderFits(data) \/ data.n < 44 THEN NotFound(10)
  ELSE LET off == 44 + Byte(data, 43)
       IN IF off + 2 > data.n THEN NotFound(43) ELSE Walk("extension", off + 2, 0, 43)

(* Of the extensions from off on, the first of type server_name is entered.*)
Extension(data, off) ==
  IF off + 4 > data.n THEN NotFound(-1)
  ELSE LET et == Word16(data, off)
           el == Word16(data, off + 2)
           e == off + 4
       IN IF e + el > data.n THEN NotFound(e - 1)
          ELSE IF et # 0 THEN Walk("extension", e + el, 0, e - 1)
          ELSE IF el < 2 THEN NotFound(e - 1)
          ELSE Walk("entry", e + 2, Word16(data, e), e + 1)

(* Its entries, left of them from pos on.  An entry of type 0 is taken to  *)
(* begin with a length of its own.                                         *)
OutOfEntryMutant(data, p, n) == FALSE  \* an entry's length is believed
OutOfEntry(data, p, n) == p + n > data.n
Entry(data, pos, left) ==
  IF left = 0 \/ pos + 3 > data.n THEN NotFound(-1)
  ELSE LET n2 == Word16(data, pos + 1)
           p == pos + 3
       IN IF OutOfEntry(data, p, n2) THEN NotFound(p - 1)
          ELSE IF Byte(data, pos) # 0 THEN Walk("entry", p + n2, left - 1, p - 1)
          ELSE IF n2 < 2 THEN NotFound(p - 1)
          ELSE LET vl == Word16(data, p)
               IN IF p + 2 + vl > data.n THEN NotFound(p + 1)
                  ELSE Walk("found", p + 2, vl, p + 1 + vl)

(* One round of the loop the walk is in.                                   *)
Onward(data, w) ==
  IF w.step = "extension" THEN Extension(data, w.off) ELSE Entry(data, w.off, w.left)
=============================================================================
