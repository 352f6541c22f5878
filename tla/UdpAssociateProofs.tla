--------------------------- MODULE UdpAssociateProofs ---------------------------
(***************************************************************************)
(* Theorems about UdpAssociate: clients get their own answers, no more     *)
(* than they asked for, and the session is reported when all is over.      *)
(***************************************************************************)
EXTENDS UdpAssociate, FiniteSetTheorems, SequenceTheorems, TLAPS

(* A datagram is queued, or in hand, or was sent on, and each only once.   *)
(* The goroutine holds one from its reading to its end, and an answer only *)
(* when it replies.                                                        *)
InHand ==
  /\ \A i \in DOMAIN inbox : inbox[i] <= Len(sends) /\ inbox[i] \notin forwarded /\ inbox[i] # cur
  /\ cur = 0 <=> pc \in {"read", "over"}
  /\ pc \in {"auth", "send"} => cur \notin forwarded
  /\ pc \in {"await", "reply"} => cur \in forwarded
  /\ answer # 0 <=> pc = "reply"

(* Without a parent, the socket the goroutine reads holds answers to the   *)
(* datagram in hand only, and that one has not been answered yet.          *)
Direct ==
  ~parent => /\ upbox # <<>> => pc = "await"
             /\ \A i \in DOMAIN upbox : upbox[i] = cur
             /\ pc = "reply" => answer = cur
             /\ pc \in {"await", "reply"} => \A i \in DOMAIN delivered : delivered[i].answers # cur

(* A datagram that awaits its answer has not been counted, and one that is *)
(* being replied to has been counted but not delivered.                    *)
Counted ==
  /\ Len(delivered) + (IF pc = "reply" THEN 1 ELSE 0) <= total
  /\ total + (IF pc = "await" THEN 1 ELSE 0) <= Cardinality(forwarded)

(* The handler gets past its wait only when the goroutine is over.         *)
Ending ==
  /\ handler \in {"unwind", "over"} => pc = "over"
  /\ handler \in {"control", "wait"} => upRelay = parent /\ report = -1
  /\ report # -1 => report = total

IInv == TypeOK /\ InHand /\ Direct /\ OwnAnswer /\ Counted /\ Ending

----------------------------------------------------------------------------
Message == [src : Sources, dst : Peers]
Answer(set) == [to : Sources, from : Addresses, answers : set]

(* Sending one more datagram on keeps what is known of the answers.        *)
LEMMA AnswersGrow ==
  ASSUME NEW S, NEW T, S \subseteq T
  PROVE  Seq(S) \subseteq Seq(T) /\ Seq(Answer(S)) \subseteq Seq(Answer(T))
BY SeqMonotonic DEF Answer

(* What is sent on is finite.                                              *)
LEMMA ForwardedFinite ==
  ASSUME TypeOK
  PROVE  IsFiniteSet(forwarded) /\ Cardinality(forwarded) \in Nat
<1>1. Len(sends) \in Nat /\ forwarded \subseteq 1 .. Len(sends)
  BY LenProperties DEF TypeOK
<1>2. IsFiniteSet(1 .. Len(sends))
  BY <1>1, FS_Interval
<1>3. IsFiniteSet(forwarded)
  BY <1>1, <1>2, FS_Subset
<1> QED
  BY <1>3, FS_CardinalityType

LEMMA InitIInv == Init => IInv
<1> SUFFICES ASSUME Init PROVE IInv
  OBVIOUS
<1> USE DEF Init
<1>1. TypeOK
  <2>1. /\ <<>> \in Seq(Message) /\ <<>> \in Seq(Ids) /\ <<>> \in Seq({})
        /\ <<>> \in Seq(Answer({})) /\ Len(<<>>) = 0 /\ DOMAIN <<>> = {}
    BY EmptySeq
  <2>2. IsInjective(<<>>)
    BY <2>1 DEF IsInjective
  <2>3. answers \in [Ids -> 0 .. MaxCopies] /\ MaxSent \in Nat
    BY UdpAssumption DEF UdpAssumption
  <2>4. done = (pc = "over")
    OBVIOUS
  <2>5. forwarded \subseteq DOMAIN sends /\ Len(sends) <= MaxSent
    BY <2>1, <2>3
  <2> QED
    BY <2>1, <2>2, <2>3, <2>4, <2>5 DEF TypeOK, Message, Answer
<1>2. InHand /\ Direct /\ OwnAnswer /\ Ending
  BY DEF InHand, Direct, OwnAnswer, Ending
<1>3. Counted
  BY FS_EmptySet DEF Counted
<1> QED
  BY <1>1, <1>2, <1>3 DEF IInv

----------------------------------------------------------------------------
(* A queue without its head still holds every other element once.          *)
LEMMA TailOfQueue ==
  ASSUME NEW S, NEW q \in Seq(S), q # <<>>
  PROVE  /\ Head(q) = q[1] /\ 1 \in DOMAIN q /\ Head(q) \in S
         /\ Tail(q) \in Seq(S) /\ \A i \in DOMAIN Tail(q) : i + 1 \in DOMAIN q /\ Tail(q)[i] = q[i + 1]
         /\ IsInjective(q) => IsInjective(Tail(q)) /\ \A i \in DOMAIN Tail(q) : Tail(q)[i] # Head(q)
<1>1. /\ Len(q) \in Nat \ {0} /\ DOMAIN q = 1 .. Len(q) /\ Tail(q) \in Seq(S)
      /\ Len(Tail(q)) = Len(q) - 1 /\ DOMAIN Tail(q) = 1 .. Len(Tail(q))
      /\ \A i \in 1 .. Len(Tail(q)) : Tail(q)[i] = q[i + 1]
  BY EmptySeq, LenProperties, HeadTailProperties
<1>2. Head(q) = q[1] /\ Head(q) \in S /\ 1 \in DOMAIN q
  BY <1>1, HeadTailProperties
<1>3. \A i \in DOMAIN Tail(q) : i + 1 \in DOMAIN q /\ i + 1 # 1 /\ Tail(q)[i] = q[i + 1]
  BY <1>1
<1>4. \A i, j \in DOMAIN Tail(q) : i + 1 = j + 1 => i = j
  BY <1>1
<1>5. ASSUME IsInjective(q) PROVE IsInjective(Tail(q)) /\ \A i \in DOMAIN Tail(q) : Tail(q)[i] # Head(q)
  BY <1>2, <1>3, <1>4, <1>5 DEF IsInjective
<1> QED
  BY <1>1, <1>2, <1>3, <1>5

(* A queue with one more element that it did not hold.                     *)
LEMMA QueueGrows ==
  ASSUME NEW S, NEW q \in Seq(S), NEW e \in S
  PROVE  /\ Append(q, e) \in Seq(S) /\ DOMAIN Append(q, e) = DOMAIN q \cup {Len(q) + 1}
         /\ Len(q) + 1 \notin DOMAIN q /\ Append(q, e)[Len(q) + 1] = e
         /\ \A i \in DOMAIN q : Append(q, e)[i] = q[i]
         /\ (IsInjective(q) /\ \A i \in DOMAIN q : q[i] # e) => IsInjective(Append(q, e))
<1>1. /\ Len(q) \in Nat /\ DOMAIN q = 1 .. Len(q) /\ Append(q, e) \in Seq(S)
      /\ Len(Append(q, e)) = Len(q) + 1 /\ Append(q, e)[Len(q) + 1] = e
      /\ DOMAIN Append(q, e) = 1 .. Len(Append(q, e))
      /\ \A i \in 1 .. Len(q) : Append(q, e)[i] = q[i]
  BY LenProperties, AppendProperties
<1>2. DOMAIN Append(q, e) = DOMAIN q \cup {Len(q) + 1} /\ Len(q) + 1 \notin DOMAIN q
  BY <1>1
<1>3. ASSUME IsInjective(q), \A i \in DOMAIN q : q[i] # e PROVE IsInjective(Append(q, e))
  BY <1>1, <1>2, <1>3 DEF IsInjective
<1> QED
  BY <1>1, <1>2, <1>3

LEMMA TypeStep == IInv /\ [Next]_vars => TypeOK'
<1> SUFFICES ASSUME IInv, [Next]_vars PROVE TypeOK'
  OBVIOUS
<1> USE UdpAssumption DEF UdpAssumption, network, goroutine, sockets, At, Again
<1>0. TypeOK /\ InHand /\ MaxSent \in Nat /\ MaxCopies \in Nat
  BY DEF IInv
<1>1. CASE Arrives
  <2>1. PICK s \in Sources, d \in Peers : sends' = Append(sends, [src |-> s, dst |-> d])
    BY <1>1 DEF Arrives
  <2>2. sends \in Seq(Message) /\ [src |-> s, dst |-> d] \in Message
    BY <1>0 DEF TypeOK, Message
  <2>3. /\ sends' \in Seq(Message) /\ Len(sends) \in Nat /\ Len(sends') = Len(sends) + 1
        /\ DOMAIN sends \subseteq DOMAIN sends'
    BY <2>1, <2>2, AppendProperties, LenProperties
  <2>4. Len(sends) + 1 \in Ids /\ Len(sends') <= MaxSent
    BY <1>0, <1>1, <2>3 DEF Arrives, Ids
  <2>5. inbox' \in Seq(Ids) /\ IsInjective(inbox')
    <3>1. inbox \in Seq(Ids) /\ IsInjective(inbox)
      BY <1>0 DEF TypeOK
    <3>2. \A i \in DOMAIN inbox : inbox[i] # Len(sends) + 1
      <4>1. \A i \in DOMAIN inbox : inbox[i] <= Len(sends)
        BY <1>0 DEF InHand
      <4> QED
        BY <2>3, <4>1
    <3> QED
      BY <1>1, <2>4, <3>1, <3>2, QueueGrows DEF Arrives
  <2> QED
    BY <1>0, <1>1, <2>3, <2>4, <2>5 DEF Arrives, TypeOK, Message
<1>2. ASSUME NEW i \in Ids, PeerAnswers(i) PROVE TypeOK'
  <2>1. answers' \in [Ids -> 0 .. MaxCopies]
    BY <1>0, <1>2 DEF TypeOK, PeerAnswers
  <2>2. upbox' \in Seq(forwarded)
    <3>1. upbox' = upbox \/ upbox' = Append(upbox, i)
      BY <1>2 DEF PeerAnswers
    <3>2. upbox \in Seq(forwarded) /\ i \in forwarded
      BY <1>0, <1>2 DEF TypeOK, PeerAnswers
    <3> QED
      BY <3>1, <3>2, AppendProperties
  <2> QED
    BY <1>0, <1>2, <2>1, <2>2 DEF TypeOK, PeerAnswers
<1>3. CASE ControlEnds
  BY <1>0, <1>3 DEF TypeOK, ControlEnds
<1>4. CASE ReadFromUDP
  <2>1. inbox' \in Seq(Ids) /\ IsInjective(inbox') /\ inbox[1] = Head(inbox) /\ Head(inbox) \in Ids
        /\ 1 \in DOMAIN inbox
    BY <1>0, <1>4, TailOfQueue DEF TypeOK, ReadFromUDP
  <2>2. Head(inbox) \in DOMAIN sends
    <3>1. Head(inbox) <= Len(sends) /\ Len(sends) \in Nat /\ DOMAIN sends = 1 .. Len(sends)
      BY <1>0, <2>1, LenProperties DEF TypeOK, InHand
    <3> QED
      BY <2>1, <3>1 DEF Ids
  <2> QED
    BY <1>0, <1>4, <2>1, <2>2 DEF TypeOK, ReadFromUDP
<1>5. CASE ReadFails
  BY <1>0, <1>5 DEF TypeOK, ReadFails
<1>6. CASE Authorize
  BY <1>0, <1>6 DEF TypeOK, Authorize
<1>7. CASE SendOn
  <2>1. forwarded \subseteq forwarded' /\ forwarded' \subseteq DOMAIN sends
    BY <1>0, <1>7 DEF TypeOK, SendOn, InHand
  <2>2. upbox' \in Seq(forwarded') /\ delivered' \in Seq(Answer(forwarded'))
    BY <1>0, <1>7, <2>1, AnswersGrow DEF TypeOK, SendOn, Answer
  <2> QED
    BY <1>0, <1>7, <2>1, <2>2 DEF TypeOK, SendOn, Answer
<1>8. CASE ReadAnswer
  <2>1. upbox' \in Seq(forwarded) /\ Head(upbox) \in forwarded
    BY <1>0, <1>8, TailOfQueue, EmptySeq DEF TypeOK, ReadAnswer, AfterRead
  <2> QED
    BY <1>0, <1>8, <2>1 DEF TypeOK, ReadAnswer
<1>9. CASE NoAnswer
  BY <1>0, <1>9 DEF TypeOK, NoAnswer
<1>10. CASE Reply
  <2>1. delivered' \in Seq(Answer(forwarded))
    <3>1. CASE UNCHANGED delivered
      BY <1>0, <3>1 DEF TypeOK, Answer
    <3>2. ASSUME NEW name \in Names(sends[answer].dst),
                 delivered' = Append(delivered, [to |-> sends[cur].src, from |-> name, answers |-> answer])
          PROVE  delivered' \in Seq(Answer(forwarded))
      <4>1. cur \in DOMAIN sends /\ answer \in forwarded /\ answer \in DOMAIN sends
        BY <1>0, <1>10 DEF TypeOK, InHand, Reply
      <4>2. sends[cur] \in Message /\ sends[answer] \in Message
        BY <1>0, <4>1, ElementOfSeq, LenProperties DEF TypeOK, Message
      <4>3. name \in Addresses
        BY <3>2, <4>2 DEF Names, Addresses, Message
      <4>4. [to |-> sends[cur].src, from |-> name, answers |-> answer] \in Answer(forwarded)
        BY <4>1, <4>2, <4>3 DEF Answer, Message
      <4> QED
        BY <1>0, <3>2, <4>4, AppendProperties DEF TypeOK, Answer
    <3> QED
      BY <1>10, <3>1, <3>2 DEF Reply, Deliver
  <2> QED
    BY <1>0, <1>10, <2>1 DEF TypeOK, Reply, Answer
<1>11. CASE ControlRead
  BY <1>0, <1>11 DEF TypeOK, ControlRead
<1>12. CASE WaitDone
  BY <1>0, <1>12 DEF TypeOK, WaitDone
<1>13. CASE Unwind
  BY <1>0, <1>13 DEF TypeOK, Unwind
<1>14. CASE UNCHANGED vars
  BY <1>0, <1>14 DEF TypeOK, vars
<1> QED
  BY <1>1, <1>2, <1>3, <1>4, <1>5, <1>6, <1>7, <1>8, <1>9, <1>10, <1>11, <1>12, <1>13, <1>14
  DEF Next, Outside, Goroutine, Handler, Idle

----------------------------------------------------------------------------
LEMMA Elements == ASSUME NEW S, NEW q \in Seq(S) PROVE \A i \in DOMAIN q : q[i] \in S
BY LenProperties, ElementOfSeq

(* What is queued has an id.                                               *)
LEMMA QueuedIds == ASSUME TypeOK PROVE \A i \in DOMAIN inbox : inbox[i] \in Nat /\ inbox[i] # 0
<1>1. inbox \in Seq(Ids)
  BY DEF TypeOK
<1>2. \A i \in DOMAIN inbox : inbox[i] \in Ids
  BY <1>1, Elements
<1> QED
  BY <1>2 DEF Ids

LEMMA InHandStep == IInv /\ [Next]_vars => InHand'
<1> SUFFICES ASSUME IInv, [Next]_vars PROVE InHand'
  OBVIOUS
<1> USE DEF network, goroutine, sockets, At, Again
<1>0. InHand /\ TypeOK
  BY DEF IInv
<1>1. CASE Arrives
  <2>1. /\ inbox \in Seq(Ids) /\ Len(sends) + 1 \in Ids /\ Len(sends) \in Nat
        /\ DOMAIN sends = 1 .. Len(sends) /\ Len(sends') = Len(sends) + 1
    <3>1. sends \in Seq(Message)
      BY <1>0 DEF TypeOK, Message
    <3>2. Len(sends) \in Nat /\ DOMAIN sends = 1 .. Len(sends)
      BY <3>1, LenProperties
    <3>3. Len(sends') = Len(sends) + 1
      <4> PICK s \in Sources, d \in Peers : sends' = Append(sends, [src |-> s, dst |-> d])
        BY <1>1 DEF Arrives
      <4> [src |-> s, dst |-> d] \in Message
        BY DEF Message
      <4> QED
        BY <3>1, AppendProperties
    <3> QED
      BY <1>0, <1>1, <3>2, <3>3, UdpAssumption DEF TypeOK, Arrives, Ids, UdpAssumption
  <2>2. /\ DOMAIN inbox' = DOMAIN inbox \cup {Len(inbox) + 1}
        /\ inbox'[Len(inbox) + 1] = Len(sends) + 1 /\ \A i \in DOMAIN inbox : inbox'[i] = inbox[i]
    BY <1>1, <2>1, QueueGrows DEF Arrives
  <2>3. Len(sends) + 1 \notin forwarded /\ Len(sends) + 1 # cur
    BY <1>0, <2>1 DEF TypeOK
  <2>4. \A i \in DOMAIN inbox : inbox[i] \in Nat
    BY <1>0, QueuedIds
  <2> QED
    BY <1>0, <1>1, <2>1, <2>2, <2>3, <2>4 DEF InHand, Arrives
<1>2. CASE ReadFromUDP
  <2>1. /\ Head(inbox) = inbox[1] /\ 1 \in DOMAIN inbox
        /\ \A i \in DOMAIN inbox' : /\ i + 1 \in DOMAIN inbox /\ inbox'[i] = inbox[i + 1]
                                    /\ inbox'[i] # Head(inbox)
    <3>1. inbox \in Seq(Ids) /\ inbox # <<>> /\ inbox' = Tail(inbox) /\ IsInjective(inbox)
      BY <1>0, <1>2 DEF TypeOK, ReadFromUDP
    <3> QED
      BY <3>1, TailOfQueue
  <2>2. Head(inbox) # 0 /\ \A i \in DOMAIN inbox' : inbox'[i] # 0
    BY <1>0, <2>1, QueuedIds
  <2>3. pc = "read" /\ answer = 0 /\ UNCHANGED <<sends, forwarded>>
    BY <1>0, <1>2 DEF ReadFromUDP, InHand
  <2> QED
    BY <1>0, <1>2, <2>1, <2>2, <2>3 DEF InHand, ReadFromUDP
<1>3. CASE Authorize \/ NoAnswer \/ Reply
  <2>1. \A i \in DOMAIN inbox : inbox[i] # 0
    BY <1>0, QueuedIds
  <2> QED
    BY <1>0, <1>3, <2>1 DEF InHand, Authorize, NoAnswer, Reply
<1>4. CASE SendOn
  <2>1. \A i \in DOMAIN inbox : inbox[i] # 0
    BY <1>0, QueuedIds
  <2> QED
    BY <1>0, <1>4, <2>1 DEF InHand, SendOn
<1>5. CASE ReadAnswer
  <2>1. \A i \in DOMAIN inbox : inbox[i] # 0
    BY <1>0, QueuedIds
  <2>2. Head(upbox) # 0
    <3>1. Head(upbox) \in DOMAIN sends /\ DOMAIN sends = 1 .. Len(sends)
      BY <1>0, <1>5, HeadTailProperties, LenProperties DEF TypeOK, ReadAnswer
    <3> QED
      BY <3>1
  <2> QED
    BY <1>0, <1>5, <2>1, <2>2 DEF InHand, ReadAnswer
<1>6. CASE (\E i \in Ids : PeerAnswers(i)) \/ ControlEnds \/ ReadFails \/ ControlRead \/ WaitDone \/ Unwind
  BY <1>0, <1>6 DEF InHand, PeerAnswers, ControlEnds, ReadFails, ControlRead, WaitDone, Unwind
<1>7. CASE UNCHANGED vars
  BY <1>0, <1>7 DEF InHand, vars
<1> QED
  BY <1>1, <1>2, <1>3, <1>4, <1>5, <1>6, <1>7 DEF Next, Outside, Goroutine, Handler, Idle

LEMMA DirectStep == IInv /\ [Next]_vars => Direct' /\ OwnAnswer'
<1> SUFFICES ASSUME IInv, [Next]_vars PROVE Direct' /\ OwnAnswer'
  OBVIOUS
<1>b. parent' = parent
  <2>1. CASE Outside \/ UNCHANGED vars
    BY <2>1 DEF Outside, Arrives, PeerAnswers, ControlEnds, vars
  <2>2. CASE Goroutine
    BY <2>2 DEF Goroutine, ReadFromUDP, ReadFails, Authorize, SendOn, ReadAnswer, NoAnswer, Reply
  <2>3. CASE Handler
    BY <2>3 DEF Handler, ControlRead, WaitDone, Unwind
  <2> QED
    BY <2>1, <2>2, <2>3 DEF Next, Idle
<1> SUFFICES ASSUME ~parent PROVE Direct' /\ OwnAnswer'
  BY <1>b DEF Direct, OwnAnswer
<1> USE DEF network, goroutine, sockets, At, Again
<1>0. TypeOK /\ InHand /\ Direct /\ OwnAnswer
  BY DEF IInv
<1>a. /\ delivered \in Seq(Answer(forwarded)) /\ DOMAIN delivered = 1 .. Len(delivered)
       /\ forwarded \subseteq DOMAIN sends /\ \A i \in DOMAIN delivered : delivered[i].answers \in forwarded
  <2>1. /\ delivered \in Seq(Answer(forwarded)) /\ forwarded \subseteq DOMAIN sends
    BY <1>0 DEF TypeOK, Answer
  <2>2. \A i \in DOMAIN delivered : delivered[i] \in Answer(forwarded)
    BY <2>1, Elements
  <2> QED
    BY <2>1, <2>2, LenProperties DEF Answer
<1>1. CASE Arrives
  <2>1. \A i \in DOMAIN sends : sends'[i] = sends[i]
    <3> PICK s \in Sources, d \in Peers : sends' = Append(sends, [src |-> s, dst |-> d])
      BY <1>1 DEF Arrives
    <3> [src |-> s, dst |-> d] \in Message /\ sends \in Seq(Message) /\ DOMAIN sends = 1 .. Len(sends)
      BY <1>0, LenProperties DEF TypeOK, Message
    <3> QED
      BY AppendProperties
  <2> QED
    BY <1>0, <1>a, <1>1, <2>1 DEF Direct, OwnAnswer, Arrives
<1>2. ASSUME NEW i \in Ids, PeerAnswers(i) PROVE Direct' /\ OwnAnswer'
  <2>1. CASE pc = "await" /\ cur = i /\ upbox' = Append(upbox, i)
    <3>1. i \in forwarded /\ upbox \in Seq(forwarded)
      BY <1>0, <1>2 DEF TypeOK, PeerAnswers
    <3>2. \A j \in DOMAIN upbox' : upbox'[j] = cur
      BY <1>0, <2>1, <3>1, QueueGrows DEF Direct
    <3> QED
      BY <1>0, <1>2, <2>1, <3>2 DEF Direct, OwnAnswer, PeerAnswers
  <2>2. CASE upbox' = upbox
    BY <1>0, <1>2, <2>2 DEF Direct, OwnAnswer, PeerAnswers
  <2> QED
    BY <1>2, <2>1, <2>2 DEF PeerAnswers
<1>3. CASE ReadFromUDP \/ Authorize
  BY <1>0, <1>3 DEF Direct, OwnAnswer, ReadFromUDP, Authorize
<1>4. CASE SendOn
  <2>1. \A i \in DOMAIN delivered : delivered[i].answers # cur
    BY <1>0, <1>a, <1>4 DEF InHand, SendOn
  <2> QED
    BY <1>0, <1>4, <2>1 DEF Direct, OwnAnswer, SendOn
<1>5. CASE ReadAnswer
  <2>1. upbox' = <<>> /\ DOMAIN upbox' = {} /\ Head(upbox) = cur
    BY <1>0, <1>5, TailOfQueue DEF Direct, TypeOK, ReadAnswer, AfterRead
  <2> QED
    BY <1>0, <1>5, <2>1 DEF Direct, OwnAnswer, ReadAnswer
<1>6. CASE NoAnswer
  BY <1>0, <1>6 DEF Direct, OwnAnswer, NoAnswer
<1>7. CASE Reply
  <2>1. upbox' = <<>> /\ DOMAIN upbox' = {} /\ pc' = "read"
    BY <1>0, <1>7 DEF Direct, Reply
  <2>2. CASE UNCHANGED delivered
    BY <1>0, <1>7, <2>1, <2>2 DEF Direct, OwnAnswer, Reply
  <2>3. ASSUME NEW name \in Names(sends[answer].dst),
               delivered' = Append(delivered, [to |-> sends[cur].src, from |-> name, answers |-> answer])
        PROVE  OwnAnswer'
    <3> DEFINE new == [to |-> sends[cur].src, from |-> name, answers |-> answer]
    <3>1. /\ DOMAIN delivered' = DOMAIN delivered \cup {Len(delivered) + 1}
          /\ Len(delivered) + 1 \notin DOMAIN delivered
          /\ delivered'[Len(delivered) + 1] = new /\ \A i \in DOMAIN delivered : delivered'[i] = delivered[i]
      <4>1. delivered \in Seq(Answer(forwarded) \cup {new}) /\ new \in Answer(forwarded) \cup {new}
        BY <1>a, SeqMonotonic
      <4> HIDE DEF new
      <4> QED
        BY <2>3, <4>1, QueueGrows DEF new
    <3>2. answer = cur /\ \A i \in DOMAIN delivered : delivered[i].answers # cur
      BY <1>0, <1>7 DEF Direct, Reply
    <3>3. new.answers = cur /\ new.to = sends[cur].src /\ sends' = sends
      BY <1>7, <3>2 DEF Reply
    <3> HIDE DEF new
    <3> QED
      BY <1>0, <3>1, <3>2, <3>3 DEF OwnAnswer
  <2> QED
    BY <1>7, <2>1, <2>2, <2>3 DEF Reply, Deliver, Direct
<1>8. CASE ControlEnds \/ ReadFails \/ ControlRead \/ WaitDone \/ Unwind
  BY <1>0, <1>8 DEF Direct, OwnAnswer, ControlEnds, ReadFails, ControlRead, WaitDone, Unwind
<1>9. CASE UNCHANGED vars
  BY <1>0, <1>9 DEF Direct, OwnAnswer, vars
<1> QED
  BY <1>1, <1>2, <1>3, <1>4, <1>5, <1>6, <1>7, <1>8, <1>9 DEF Next, Outside, Goroutine, Handler, Idle

LEMMA CountedStep == IInv /\ [Next]_vars => Counted'
<1> SUFFICES ASSUME IInv, [Next]_vars PROVE Counted'
  OBVIOUS
<1> USE DEF network, goroutine, sockets, At, Again
<1>0. TypeOK /\ InHand /\ Counted
  BY DEF IInv
<1>1. total \in Nat /\ Len(delivered) \in Nat /\ Cardinality(forwarded) \in Nat /\ IsFiniteSet(forwarded)
  BY <1>0, ForwardedFinite, LenProperties DEF TypeOK
<1>2. CASE SendOn
  <2>1. CASE forwarded' = forwarded
    BY <1>0, <1>1, <1>2, <2>1 DEF Counted, SendOn, InHand
  <2>2. CASE forwarded' = forwarded \cup {cur} /\ cur \notin forwarded
    <3>1. Cardinality(forwarded') = Cardinality(forwarded) + 1
      BY <1>1, <2>2, FS_AddElement
    <3> QED
      BY <1>0, <1>1, <1>2, <3>1 DEF Counted, SendOn
  <2> QED
    BY <1>0, <1>2, <2>1, <2>2 DEF SendOn, InHand
<1>3. CASE Reply
  <2>1. Len(delivered') \in {Len(delivered), Len(delivered) + 1}
    <3>1. ASSUME NEW e, delivered' = Append(delivered, e) PROVE Len(delivered') = Len(delivered) + 1
      <4>1. delivered \in Seq(Answer(forwarded) \cup {e}) /\ e \in Answer(forwarded) \cup {e}
        BY <1>0, SeqMonotonic DEF TypeOK, Answer
      <4> QED
        BY <3>1, <4>1, AppendProperties
    <3> QED
      BY <1>3, <3>1 DEF Reply, Deliver
  <2> QED
    BY <1>0, <1>1, <1>3, <2>1 DEF Counted, Reply
<1>4. CASE ReadAnswer
  BY <1>0, <1>1, <1>4 DEF Counted, ReadAnswer
<1>5. CASE ReadFromUDP \/ Authorize \/ NoAnswer \/ ReadFails
  BY <1>0, <1>1, <1>5 DEF Counted, ReadFromUDP, Authorize, NoAnswer, ReadFails
<1>6. CASE Outside \/ Handler \/ UNCHANGED vars
  BY <1>0, <1>6 DEF Counted, Outside, Handler, Arrives, PeerAnswers, ControlEnds, ControlRead, WaitDone,
                    Unwind, vars
<1> QED
  BY <1>2, <1>3, <1>4, <1>5, <1>6 DEF Next, Goroutine, Idle

LEMMA EndingStep == IInv /\ [Next]_vars => Ending'
<1> SUFFICES ASSUME IInv, [Next]_vars PROVE Ending'
  OBVIOUS
<1> USE DEF network, goroutine, sockets, At, Again
<1>0. TypeOK /\ Ending
  BY DEF IInv
<1>1. CASE Outside \/ UNCHANGED vars
  BY <1>0, <1>1 DEF Ending, Outside, Arrives, PeerAnswers, ControlEnds, vars
<1>2. CASE Goroutine
  BY <1>0, <1>2 DEF TypeOK, Ending, Goroutine, ReadFromUDP, ReadFails, Authorize, SendOn, ReadAnswer,
                    NoAnswer, Reply
<1>3. CASE Handler
  BY <1>0, <1>3 DEF TypeOK, Ending, Handler, ControlRead, WaitDone, Unwind
<1> QED
  BY <1>1, <1>2, <1>3 DEF Next, Idle

LEMMA Inductive == Spec => []IInv
<1>1. IInv /\ [Next]_vars => IInv'
  BY TypeStep, InHandStep, DirectStep, CountedStep, EndingStep DEF IInv
<1> QED
  BY <1>1, InitIInv, PTL DEF Spec

(* An association's state is well typed, for any clients, peers and        *)
(* numbers of datagrams: queues hold datagrams that arrived, once each,    *)
(* and whatever is answered was sent on.                                   *)
THEOREM AssociationType == Spec => []TypeOK
<1>1. IInv => TypeOK
  BY DEF IInv
<1> QED
  BY <1>1, Inductive, PTL

(* Without a parent an answer goes to who asked for it, once.              *)
THEOREM AnswersAreOwn == Spec => []OwnAnswer
<1>1. IInv => OwnAnswer
  BY DEF IInv
<1> QED
  BY <1>1, Inductive, PTL

(* Clients get no more datagrams than were sent on for them, all counted.  *)
THEOREM AnswersAreAskedFor == Spec => []NoMoreThanAsked
<1>1. IInv => NoMoreThanAsked
  <2> SUFFICES ASSUME IInv PROVE NoMoreThanAsked
    OBVIOUS
  <2>1. total \in Nat /\ Len(delivered) \in Nat
    BY LenProperties DEF IInv, TypeOK
  <2> QED
    BY <2>1 DEF IInv, Counted, NoMoreThanAsked
<1> QED
  BY <1>1, Inductive, PTL

(* The report is final, and the parent's relay outlives its use.           *)
THEOREM ReportIsFinal == Spec => []ReportFinal
<1>1. IInv => ReportFinal
  BY DEF IInv, TypeOK, Ending, ReportFinal
<1> QED
  BY <1>1, Inductive, PTL
=============================================================================
