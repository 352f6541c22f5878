----------------------------- MODULE GatewayProofs -----------------------------
(***************************************************************************)
(* Theorems about Gateway: a handler's deferred calls match what it holds, *)
(* so nothing is left behind, and outgoing connections respect the limits; *)
(* and what it has said and reported so far tells what it may still say.   *)
(***************************************************************************)
EXTENDS Gateway, FiniteSetTheorems, SequenceTheorems, TLAPS

(* The deferred calls: the client is closed last, a slot is released once, *)
(* and a parent's UDP relay is closed before the slot is released.         *)
Calls == {"closeClient", "closeBody", "release", "closeUpRelay"}
Has(s, f) == \E i \in 1 .. Len(s) : s[i] = f
Chain(s) ==
  /\ s \in Seq(Calls)
  /\ \A i \in 1 .. Len(s) : s[i] = "closeClient" <=> i = 1
  /\ \A i, j \in 1 .. Len(s) : s[i] = "release" /\ s[j] = "release" => i = j
  /\ \A i \in 1 .. Len(s) : s[i] = "closeUpRelay" => \E j \in 1 .. i - 1 : s[j] = "release"

(* No call is deferred at first.                                            *)
LEMMA ChainStarts == Chain(<<>>) /\ \A g : ~Has(<<>>, g)
BY DEF Chain, Has

(* Deferring one more call, where its order allows it.                     *)
LEMMA ChainGrows ==
  ASSUME NEW s, Chain(s), NEW f \in Calls, f = "closeClient" <=> s = <<>>,
         f = "release" => ~Has(s, "release"), f = "closeUpRelay" => Has(s, "release")
  PROVE  /\ Chain(Append(s, f)) /\ Append(s, f) # <<>>
         /\ \A g : Has(Append(s, f), g) <=> Has(s, g) \/ g = f
<1> DEFINE t == Append(s, f)
<1>1. /\ s \in Seq(Calls) /\ Len(s) \in Nat /\ t \in Seq(Calls) /\ Len(t) = Len(s) + 1
      /\ t[Len(s) + 1] = f /\ \A i \in 1 .. Len(s) : t[i] = s[i]
      /\ s = <<>> <=> Len(s) = 0
  BY DEF Chain
<1> HIDE DEF t
<1>2. \A g : Has(t, g) <=> Has(s, g) \/ g = f
  BY <1>1 DEF Has
<1>3. \A i \in 1 .. Len(t) : t[i] = "closeClient" <=> i = 1
  BY <1>1 DEF Chain
<1>4. \A i, j \in 1 .. Len(t) : t[i] = "release" /\ t[j] = "release" => i = j
  BY <1>1 DEF Chain, Has
<1>5. \A i \in 1 .. Len(t) : t[i] = "closeUpRelay" => \E j \in 1 .. i - 1 : t[j] = "release"
  BY <1>1 DEF Chain, Has
<1>6. t # <<>>
  BY <1>1
<1> QED
  BY <1>1, <1>2, <1>3, <1>4, <1>5, <1>6 DEF Chain, t

LEMMA NatPositive ==
  \A n \in Nat \ {0} : /\ 1 <= n /\ n - 1 \in Nat /\ (n = 1 \/ 1 <= n - 1)
                       /\ (n - 1) - 1 + 1 = n - 1
OBVIOUS

(* What is left of a sequence without its last element.                    *)
LEMMA FrontOfSeq ==
  ASSUME NEW S, NEW s \in Seq(S), s # <<>>
  PROVE  LET t == SubSeq(s, 1, Len(s) - 1)
         IN /\ t \in Seq(S) /\ Len(t) = Len(s) - 1 /\ \A i \in 1 .. Len(s) - 1 : t[i] = s[i]
            /\ Len(s) \in Nat \ {0}
<1> DEFINE n == Len(s) - 1
           t == SubSeq(s, 1, n)
<1>1. Len(s) \in Nat \ {0} /\ \A i \in 1 .. Len(s) : s[i] \in S
  BY EmptySeq, ElementOfSeq
<1>2. n \in Nat /\ (n = 0 \/ 1 <= n) /\ n - 1 + 1 = n
  <2>1. Len(s) = 1 \/ 1 <= Len(s) - 1
    BY <1>1, NatPositive
  <2>2. n \in Nat
    BY <1>1, NatPositive
  <2>3. Len(s) = 1 => n = 0
    OBVIOUS
  <2> HIDE DEF n
  <2>4. n - 1 + 1 = n
    BY <2>2
  <2> QED
    BY <2>1, <2>2, <2>3, <2>4 DEF n
<1>3. \A i \in 1 .. n : s[i] \in S
  BY <1>1
<1> HIDE DEF n
<1>4. /\ t \in Seq(S) /\ Len(t) = (IF 1 <= n THEN n - 1 + 1 ELSE 0)
      /\ \A i \in 1 .. n - 1 + 1 : t[i] = s[1 + i - 1]
  BY <1>2, <1>3, SubSeqProperties
<1> HIDE DEF t
<1>5. Len(t) = n /\ \A i \in 1 .. n : t[i] = s[i]
  BY <1>2, <1>4
<1> QED
  BY <1>1, <1>4, <1>5 DEF n, t

(* Running the last deferred call.                                         *)
LEMMA ChainShrinks ==
  ASSUME NEW s, Chain(s), s # <<>>,
         NEW t, t = SubSeq(s, 1, Len(s) - 1), NEW f, f = s[Len(s)]
  PROVE  /\ Chain(t) /\ (t = <<>> <=> f = "closeClient")
         /\ \A g : g # f => (Has(t, g) <=> Has(s, g))
         /\ f = "release" => ~Has(t, "release")
         /\ Has(s, f)
<1>1. /\ s \in Seq(Calls) /\ Len(s) \in Nat \ {0}
      /\ t \in Seq(Calls) /\ Len(t) = Len(s) - 1 /\ \A i \in 1 .. Len(t) : t[i] = s[i]
      /\ t = <<>> <=> Len(t) = 0
  <2>1. s \in Seq(Calls)
    BY DEF Chain
  <2>2. /\ t \in Seq(Calls) /\ Len(t) = Len(s) - 1
        /\ \A i \in 1 .. Len(s) - 1 : t[i] = s[i]
        /\ Len(s) \in Nat \ {0}
    BY <2>1, FrontOfSeq
  <2> QED
    BY <2>1, <2>2, FrontOfSeq, EmptySeq
<1>2. Chain(t)
  BY <1>1 DEF Chain
<1>3. \A g : g # f => (Has(t, g) <=> Has(s, g))
  BY <1>1 DEF Has
<1>4. t = <<>> <=> f = "closeClient"
  BY <1>1 DEF Chain
<1>5. f = "release" => ~Has(t, "release")
  <2> SUFFICES ASSUME f = "release", NEW i \in 1 .. Len(t), t[i] = "release" PROVE FALSE
    BY DEF Has
  <2>1. i \in 1 .. Len(s) /\ Len(s) \in 1 .. Len(s) /\ i # Len(s) /\ s[i] = "release"
    BY <1>1
  <2> QED
    BY <2>1 DEF Chain
<1> QED
  BY <1>1, <1>2, <1>3, <1>4, <1>5 DEF Has

----------------------------------------------------------------------------
(* What a handler holds at each step: p is its step, o its sockets, s its  *)
(* deferred calls, f its phase in the limiter.                             *)
Before == {"first", "request", "greet", "subauth", "command", "address",
           "authorize", "rate", "acquire"}
Inside == {"dial", "confirm", "relay", "openUDP", "bindUDP", "confirmUDP", "associated"}
Good(p, o, s, f) ==
  /\ Chain(s) /\ (p = "closed" <=> s = <<>>)
  /\ p \in Before \cup Inside \cup {"closed", "return"}
  /\ f \in {"out", "in", "full"} /\ (f = "in" <=> Has(s, "release"))
  /\ f = "full" => p = "return"
  /\ p \in Inside => f = "in"
  /\ p \in Before => f = "out"
  /\ o \subseteq Sockets /\ (p = "closed" => o = {})
  /\ "remote" \in o => p \in {"confirm", "relay"}
  /\ "udp" \in o => p \in {"confirmUDP", "associated"}
  /\ o \cap {"parentControl", "parentSocket"} # {} => Has(s, "closeUpRelay")

Steps == Before \cup Inside \cup {"closed", "return"}
Sane(c) == Good(pc[c], open[c], defers[c], phase[c])
Structure ==
  /\ pc \in [Conns -> Steps] /\ open \in [Conns -> SUBSET Sockets]
  /\ defers \in [Conns -> Seq(Calls)] /\ phase \in [Conns -> {"out", "in", "full"}]
  /\ claim \in [Conns -> Claims]
  /\ \A c \in Conns : Sane(c)

(* A handler that is not running holds nothing.                            *)
LEMMA InitStructure == Init => Structure
<1> SUFFICES ASSUME Init PROVE Structure
  OBVIOUS
<1>1. Good("closed", {}, <<>>, "out")
  BY ChainStarts DEF Good, Before, Inside
<1>2. NoLimits \in Claims /\ <<>> \in Seq(Calls)
  BY GatewayAssumption DEF GatewayAssumption
<1> QED
  BY <1>1, <1>2 DEF Init, Structure, Sane, Steps

(* A step of one handler that leaves it sane leaves all sane.              *)
Becomes(c, p, o, s, f) ==
  /\ Good(p, o, s, f)
  /\ pc' = [pc EXCEPT ![c] = p] /\ open' = [open EXCEPT ![c] = o]
  /\ defers' = [defers EXCEPT ![c] = s] /\ phase' = [phase EXCEPT ![c] = f]
  /\ claim' \in [Conns -> Claims]

LEMMA Local ==
  ASSUME Structure, NEW c \in Conns, \E p, o, s, f : Becomes(c, p, o, s, f)
  PROVE  Structure'
<1>1. PICK p, o, s, f : Becomes(c, p, o, s, f)
  OBVIOUS
<1>2. p \in Steps /\ o \in SUBSET Sockets /\ s \in Seq(Calls) /\ f \in {"out", "in", "full"}
  BY <1>1 DEF Becomes, Good, Steps, Chain
<1>3. \A d \in Conns : Sane(d)'
  <2> TAKE d \in Conns
  <2>1. CASE d = c
    BY <1>1, <2>1 DEF Becomes, Structure, Sane
  <2>2. CASE d # c
    <3>1. pc'[d] = pc[d] /\ open'[d] = open[d] /\ defers'[d] = defers[d] /\ phase'[d] = phase[d]
      BY <1>1, <2>2 DEF Becomes, Structure
    <3> QED
      BY <3>1 DEF Structure, Sane
  <2> QED
    BY <2>1, <2>2
<1> QED
  BY <1>1, <1>2, <1>3 DEF Structure, Becomes

(* A step that moves on, and opens or closes what its next step calls for. *)
Onward(from, to, o, n) ==
  \/ n = o /\ from \in Before /\ to \in Before \cup {"return"}
  \/ n = o /\ from \in {"dial", "openUDP", "bindUDP"} /\ to = "return"
  \/ n = o /\ from = "confirm" /\ to = "relay"
  \/ n = o /\ from = "openUDP" /\ to = "bindUDP"
  \/ n = o /\ from = "confirmUDP" /\ to = "associated"
  \/ n = o \cup {"remote"} /\ from = "dial" /\ to = "confirm"
  \/ n = o \cup {"udp"} /\ from = "bindUDP" /\ to = "confirmUDP"
  \/ n \in {o \ {"remote"}, o \ {"client", "remote"}} /\ from \in {"confirm", "relay"} /\ to = "return"
  \/ n = o \ {"udp"} /\ from \in {"confirmUDP", "associated"} /\ to = "return"
Moves(c) ==
  /\ \E to, n : Onward(pc[c], to, open[c], n) /\ pc' = [pc EXCEPT ![c] = to]
                                            /\ open' = [open EXCEPT ![c] = n]
  /\ UNCHANGED <<defers, phase>> /\ claim' \in [Conns -> Claims]

(* Such a step leaves the handler holding what its next step expects.      *)
LEMMA MovesLocal ==
  ASSUME Structure, NEW c \in Conns, Moves(c)
  PROVE  Structure'
<1>0. PICK to, n : /\ Onward(pc[c], to, open[c], n) /\ pc' = [pc EXCEPT ![c] = to]
                   /\ open' = [open EXCEPT ![c] = n]
  BY DEF Moves
<1>1. Good(pc[c], open[c], defers[c], phase[c])
  BY DEF Structure, Sane
<1>2. Good(to, n, defers[c], phase[c])
  BY <1>0, <1>1 DEF Good, Before, Inside, Onward, Sockets
<1>3. /\ defers' = [defers EXCEPT ![c] = defers[c]]
      /\ phase' = [phase EXCEPT ![c] = phase[c]] /\ claim' \in [Conns -> Claims]
  BY DEF Structure, Moves
<1>4. Becomes(c, to, n, defers[c], phase[c])
  BY <1>0, <1>2, <1>3 DEF Becomes
<1> QED
  BY <1>4, Local

(* What c's next deferred call leaves.                                     *)
Popped(c) == SubSeq(defers[c], 1, Len(defers[c]) - 1)

(* Every action of every handler keeps the structure.                      *)
LEMMA StructureStep == Structure /\ [Next]_vars => Structure'
<1> SUFFICES ASSUME Structure, [Next]_vars PROVE Structure'
  OBVIOUS
<1> USE DEF Goto, Step, Update, Refuse, Opens, Closes, Defer, limiter
<1>0. \A c \in Conns : /\ Good(pc[c], open[c], defers[c], phase[c]) /\ Chain(defers[c])
                       /\ pc[c] \in Steps /\ claim[c] \in Claims
  BY DEF Structure, Sane, Good
<1>1. ASSUME NEW c \in Conns, BodyEnds(c) \/ RemoteReads(c) PROVE Structure'
  BY <1>1 DEF BodyEnds, RemoteReads, Structure, Sane
<1>2. ASSUME NEW c \in Conns, \/ FirstByte(c) \/ Unreadable(c) \/ Greet(c) \/ Subauth(c)
                              \/ Command(c) \/ Address(c) \/ AllowNewConn(c) \/ Authorize(c)
      PROVE  Structure'
  <2>1. claim' \in [Conns -> Claims] /\ open' = open /\ UNCHANGED <<defers, phase>>
    <3>1. CASE Authorize(c)
      BY <3>1, GatewayAssumption DEF Authorize, Structure, GatewayAssumption
    <3> QED
      BY <1>2, <3>1 DEF FirstByte, Unreadable, Greet, Subauth, Command, Address, AllowNewConn,
                        Structure
  <2>2. \E to \in Before \cup {"return"} : pc[c] \in Before /\ pc' = [pc EXCEPT ![c] = to]
    BY <1>2 DEF FirstByte, Unreadable, Greet, Subauth, Command, Address, AllowNewConn, Authorize,
                Before
  <2>3. open' = [open EXCEPT ![c] = open[c]]
    BY <2>1 DEF Structure
  <2> QED
    BY <2>1, <2>2, <2>3, MovesLocal DEF Moves, Onward
<1>3. ASSUME NEW c \in Conns, \/ Dial(c) \/ Confirm(c) \/ ConfirmFails(c) \/ RelayEnds(c)
                              \/ BindUDP(c) \/ ConfirmUDP(c) \/ AssociationEnds(c)
      PROVE  Structure'
  <2>1. claim' \in [Conns -> Claims] /\ UNCHANGED <<defers, phase>>
    BY <1>3 DEF Dial, Confirm, ConfirmFails, RelayEnds, BindUDP, ConfirmUDP, AssociationEnds,
                Structure
  <2>2. open' = open => open' = [open EXCEPT ![c] = open[c]]
    BY DEF Structure
  <2>3. \E to, n : Onward(pc[c], to, open[c], n) /\ pc' = [pc EXCEPT ![c] = to]
                                               /\ open' = [open EXCEPT ![c] = n]
    <3>1. CASE Dial(c)
      BY <2>2, <3>1 DEF Dial, Onward
    <3>2. CASE Confirm(c)
      BY <2>2, <3>2 DEF Confirm, Onward
    <3>3. CASE ConfirmFails(c)
      BY <3>3 DEF ConfirmFails, Onward
    <3>4. CASE RelayEnds(c)
      BY <3>4 DEF RelayEnds, Onward
    <3>5. CASE BindUDP(c)
      BY <2>2, <3>5 DEF BindUDP, Onward
    <3>6. CASE ConfirmUDP(c)
      BY <2>2, <3>6 DEF ConfirmUDP, Onward
    <3>7. CASE AssociationEnds(c)
      BY <3>7 DEF AssociationEnds, Onward
    <3> QED
      BY <1>3, <3>1, <3>2, <3>3, <3>4, <3>5, <3>6, <3>7
  <2> QED
    BY <2>1, <2>3, MovesLocal DEF Moves
<1>4. ASSUME NEW c \in Conns, Accept(c) PROVE Structure'
  <2>1. /\ defers[c] = <<>> /\ open[c] = {} /\ phase[c] = "out" /\ ~Has(defers[c], "release")
        /\ \A x : {} \cup x = x
    BY <1>0, <1>4, ChainStarts DEF Accept, Good, Before, Inside
  <2> DEFINE t == Append(defers[c], "closeClient")
  <2>2. /\ Chain(t) /\ t # <<>> /\ ~Has(t, "release")
    BY <1>0, <2>1, ChainGrows DEF Calls
  <2> HIDE DEF t
  <2>3. Good("first", {"client"}, t, phase[c])
    BY <2>1, <2>2 DEF Good, Before, Inside, Sockets
  <2>4. /\ pc' = [pc EXCEPT ![c] = "first"] /\ open' = [open EXCEPT ![c] = {"client"}]
        /\ defers' = [defers EXCEPT ![c] = t] /\ phase' = [phase EXCEPT ![c] = phase[c]]
        /\ claim' \in [Conns -> Claims]
    BY <1>4, <2>1 DEF Accept, t, Structure
  <2> QED
    BY <2>3, <2>4, Local DEF Becomes
<1>5. ASSUME NEW c \in Conns, ReadRequest(c) PROVE Structure'
  <2> DEFINE t == Append(defers[c], "closeBody")
  <2>1. /\ Chain(t) /\ t # <<>> /\ \A g : Has(t, g) <=> Has(defers[c], g) \/ g = "closeBody"
    BY <1>0, <1>5, ChainGrows DEF Calls, ReadRequest, Good
  <2>2. PICK to \in {"return", "authorize"} : pc' = [pc EXCEPT ![c] = to]
    BY <1>5 DEF ReadRequest
  <2>3. /\ open' = [open EXCEPT ![c] = open[c]] /\ defers' = [defers EXCEPT ![c] = t]
        /\ phase' = [phase EXCEPT ![c] = phase[c]] /\ claim' \in [Conns -> Claims]
    BY <1>5 DEF ReadRequest, Structure
  <2> HIDE DEF t
  <2>4. Good(to, open[c], t, phase[c])
    BY <1>0, <1>5, <2>1, <2>2 DEF ReadRequest, Good, Before, Inside
  <2> QED
    BY <2>2, <2>3, <2>4, Local DEF Becomes
<1>6. ASSUME NEW c \in Conns, TryAcquire(c) PROVE Structure'
  <2>1. pc[c] = "acquire" /\ open' = [open EXCEPT ![c] = open[c]] /\ claim' \in [Conns -> Claims]
    BY <1>6 DEF TryAcquire, Structure, Limiter!Admit, Limiter!Refuse
  <2>2. CASE Limiter!Admit(c) /\ Defer(c, "release")
             /\ Goto(c, IF client[c].kind = "udp" THEN "openUDP" ELSE "dial")
    <3> DEFINE t == Append(defers[c], "release")
    <3>1. /\ Chain(t) /\ t # <<>> /\ \A g : Has(t, g) <=> Has(defers[c], g) \/ g = "release"
      BY <1>0, <2>1, ChainGrows DEF Calls, Good, Before
    <3>2. PICK to \in {"openUDP", "dial"} : pc' = [pc EXCEPT ![c] = to]
      BY <2>2
    <3>3. defers' = [defers EXCEPT ![c] = t] /\ phase' = [phase EXCEPT ![c] = "in"]
      BY <2>2 DEF Limiter!Admit, Limiter!Move
    <3> HIDE DEF t
    <3>4. Good(to, open[c], t, "in")
      BY <1>0, <2>1, <3>1, <3>2 DEF Good, Before, Inside
    <3> QED
      BY <2>1, <3>2, <3>3, <3>4, Local DEF Becomes
  <2>3. CASE Limiter!Refuse(c) /\ Goto(c, "return") /\ UNCHANGED defers
    <3>1. /\ pc' = [pc EXCEPT ![c] = "return"] /\ defers' = [defers EXCEPT ![c] = defers[c]]
          /\ phase' = [phase EXCEPT ![c] = "full"]
      BY <2>3 DEF Limiter!Refuse, Limiter!Move, Structure
    <3>2. Good("return", open[c], defers[c], "full")
      BY <1>0, <2>1 DEF Good, Before, Inside
    <3> QED
      BY <2>1, <3>1, <3>2, Local DEF Becomes
  <2> QED
    BY <1>6, <2>2, <2>3 DEF TryAcquire
<1>7. ASSUME NEW c \in Conns, OpenUDP(c) PROVE Structure'
  <2>1. /\ pc[c] = "openUDP" /\ claim' \in [Conns -> Claims]
        /\ phase' = phase /\ phase' = [phase EXCEPT ![c] = phase[c]]
    BY <1>7 DEF OpenUDP, Structure
  <2>2. CASE UNCHANGED <<open, defers>>
    <3>1. \E to \in {"bindUDP", "return"} : pc' = [pc EXCEPT ![c] = to]
      BY <1>7 DEF OpenUDP
    <3>2. open' = [open EXCEPT ![c] = open[c]]
      BY <2>2 DEF Structure
    <3>3. PICK to : Onward(pc[c], to, open[c], open[c]) /\ pc' = [pc EXCEPT ![c] = to]
      BY <2>1, <3>1 DEF Onward
    <3>4. UNCHANGED <<defers, phase>>
      BY <2>1, <2>2
    <3>5. Moves(c)
      BY <2>1, <3>2, <3>3, <3>4 DEF Moves
    <3> QED
      BY <3>5, MovesLocal
  <2>3. CASE /\ Opens(c, {"parentControl", "parentSocket"}) /\ Defer(c, "closeUpRelay")
             /\ Goto(c, "bindUDP")
    <3> DEFINE t == Append(defers[c], "closeUpRelay")
               n == open[c] \cup {"parentControl", "parentSocket"}
    <3>1. /\ Chain(t) /\ t # <<>> /\ \A g : Has(t, g) <=> Has(defers[c], g) \/ g = "closeUpRelay"
      BY <1>0, <2>1, ChainGrows DEF Calls, Good, Inside
    <3>2. /\ defers' = [defers EXCEPT ![c] = t] /\ pc' = [pc EXCEPT ![c] = "bindUDP"]
          /\ open' = [open EXCEPT ![c] = n]
      BY <2>3
    <3> HIDE DEF t
    <3>3. Good("bindUDP", n, t, phase[c])
      BY <1>0, <2>1, <3>1 DEF Good, Before, Inside, Sockets
    <3> QED
      BY <2>1, <3>2, <3>3, Local DEF Becomes
  <2> QED
    BY <1>7, <2>2, <2>3 DEF OpenUDP
<1>8. ASSUME NEW c \in Conns, Unwind(c) PROVE Structure'
  <2> DEFINE t == Popped(c)
             g == defers[c][Len(defers[c])]
  <2>0. /\ pc[c] = "return" /\ defers[c] # <<>> /\ claim' = claim /\ claim' \in [Conns -> Claims]
        /\ defers' = [defers EXCEPT ![c] = t]
    BY <1>8 DEF Unwind, CloseUpRelay, Release, CloseBody, CloseClient, Unwinds, Popped, Structure,
                Limiter!Leave
  <2>1. /\ Chain(t) /\ (t = <<>> <=> g = "closeClient")
        /\ \A h : h # g => (Has(t, h) <=> Has(defers[c], h))
        /\ g = "release" => ~Has(t, "release")
        /\ Has(defers[c], g)
    BY <1>0, <2>0, ChainShrinks DEF Popped
  <2> HIDE DEF t
  <2>2. CASE CloseUpRelay(c)
    <3>1. /\ pc' = [pc EXCEPT ![c] = pc[c]] /\ phase' = [phase EXCEPT ![c] = phase[c]]
          /\ open' = [open EXCEPT ![c] = open[c] \ {"parentControl", "parentSocket"}]
          /\ g = "closeUpRelay"
      BY <2>2 DEF CloseUpRelay, Unwinds, Structure
    <3>2. Good(pc[c], open[c] \ {"parentControl", "parentSocket"}, t, phase[c])
      BY <1>0, <2>0, <2>1, <3>1 DEF Good, Before, Inside
    <3> QED
      BY <2>0, <3>1, <3>2, Local DEF Becomes
  <2>3. CASE Release(c)
    <3>1. /\ pc' = [pc EXCEPT ![c] = pc[c]] /\ phase' = [phase EXCEPT ![c] = "out"]
          /\ open' = [open EXCEPT ![c] = open[c]] /\ g = "release"
      BY <2>3 DEF Release, Unwinds, Structure, Limiter!Leave, Limiter!Move
    <3>2. Good(pc[c], open[c], t, "out")
      BY <1>0, <2>0, <2>1, <3>1 DEF Good, Before, Inside
    <3> QED
      BY <2>0, <3>1, <3>2, Local DEF Becomes
  <2>4. CASE CloseBody(c)
    <3>1. /\ pc' = [pc EXCEPT ![c] = pc[c]] /\ phase' = [phase EXCEPT ![c] = phase[c]]
          /\ open' = [open EXCEPT ![c] = open[c]] /\ g = "closeBody"
      BY <2>4 DEF CloseBody, Unwinds, Structure
    <3>2. Good(pc[c], open[c], t, phase[c])
      BY <1>0, <2>0, <2>1, <3>1 DEF Good, Before, Inside
    <3> QED
      BY <2>0, <3>1, <3>2, Local DEF Becomes
  <2>5. CASE CloseClient(c)
    <3>1. /\ pc' = [pc EXCEPT ![c] = "closed"] /\ open' = [open EXCEPT ![c] = open[c] \ {"client"}]
          /\ g = "closeClient"
      BY <2>5 DEF CloseClient, Unwinds
    <3>2. t = <<>> /\ \A h : ~Has(t, h)
      BY <2>1, <3>1, ChainStarts
    <3>3. phase[c] \in {"out", "full"} /\ open[c] \ {"client"} = {}
      BY <1>0, <2>0, <2>1, <3>1, <3>2 DEF Good, Sockets
    <3>4. phase' = [phase EXCEPT ![c] = "out"]
      BY <2>5, <3>3 DEF CloseClient, Structure, Limiter!Leave, Limiter!Move
    <3>5. Good("closed", open[c] \ {"client"}, t, "out")
      BY <2>1, <3>2, <3>3 DEF Good, Before, Inside
    <3> QED
      BY <2>0, <3>1, <3>4, <3>5, Local DEF Becomes
  <2> QED
    BY <1>8, <2>2, <2>3, <2>4, <2>5 DEF Unwind
<1>9. CASE UNCHANGED vars
  BY <1>9 DEF vars, Structure, Sane
<1> QED
  BY <1>1, <1>2, <1>3, <1>4, <1>5, <1>6, <1>7, <1>8, <1>9 DEF Next, Handshake, Serve, Finish

(* Whatever path a handler took, once it is done its sockets are closed    *)
(* and its slot is free.                                                   *)
THEOREM NothingIsLeftBehind == Spec => []NothingLeftBehind
<1>1. Structure => NothingLeftBehind
  BY ChainStarts DEF Structure, Sane, Good, NothingLeftBehind
<1> QED
  BY <1>1, InitStructure, StructureStep, PTL DEF Spec

----------------------------------------------------------------------------
(* What a step does to the limiter, once for all handlers.                 *)
LEMMA LimiterStep == Structure /\ [Next]_vars => [Limiter!Next]_limiter
<1> SUFFICES ASSUME Structure, [Next]_vars PROVE Limiter!Next \/ UNCHANGED limiter
  BY DEF limiter
<1> USE DEF limiter, Goto, Step, Update, Refuse
<1>1. ASSUME NEW c \in Conns, Authorize(c) PROVE Limiter!Next \/ UNCHANGED limiter
  <2>1. phase[c] = "out" /\ phase' = phase
    BY <1>1 DEF Structure, Sane, Good, Authorize, Before
  <2>2. claim' = claim \/ \E q \in Claims : claim' = [claim EXCEPT ![c] = q]
    BY <1>1, GatewayAssumption DEF Authorize, GatewayAssumption
  <2> QED
    BY <2>1, <2>2 DEF Limiter!Next, Limiter!Present
<1>2. ASSUME NEW c \in Conns, TryAcquire(c) \/ Unwind(c) PROVE Limiter!Next \/ UNCHANGED limiter
  BY <1>2 DEF TryAcquire, Unwind, CloseUpRelay, Release, CloseBody, CloseClient, Limiter!Next
<1>3. ASSUME NEW c \in Conns,
             Accept(c) \/ Handshake(c) \/ AllowNewConn(c) \/ Dial(c) \/ Confirm(c)
               \/ OpenUDP(c) \/ BindUDP(c) \/ ConfirmUDP(c) \/ Finish(c)
      PROVE  UNCHANGED limiter
  BY <1>3 DEF Accept, Handshake, BodyEnds, FirstByte, Unreadable, ReadRequest, Greet, Subauth,
              Command, Address, AllowNewConn, Dial, Confirm, RemoteReads, ConfirmFails, OpenUDP,
              BindUDP, ConfirmUDP, Finish, RelayEnds, AssociationEnds
<1>4. CASE UNCHANGED vars
  BY <1>4 DEF vars
<1> QED
  BY <1>1, <1>2, <1>3, <1>4 DEF Next, Serve

(* The handlers, whatever they do, use the limiter as it is meant to be:   *)
(* a slot is taken by who has presented its claim, and given back once.    *)
THEOREM UsesTheLimiter == Spec => Limiter!Spec
<1>1. Init => Limiter!Init
  BY GatewayAssumption DEF Init, Limiter!Init, GatewayAssumption
<1>2. [Limiter!Next]_limiter <=> [Limiter!Next]_(Limiter!vars)
  BY DEF limiter, Limiter!vars
<1> QED
  BY <1>1, <1>2, LimiterStep, InitStructure, StructureStep, PTL DEF Spec, Limiter!Spec

(* Of the connections inside for a key, those under a limit of at most m   *)
(* number at most m: a newcomer is counted with all who hold the key.      *)
Dim == {"user", "ip"}
Within(k, d, m) ==
  {c \in Conns : phase[c] = "in" /\ claim[c].key[d] = k /\ claim[c].conns[d] \in 1 .. m}
InsideWithinLimits ==
  \A q \in Claims, d \in Dim :
    q.conns[d] > 0 => Cardinality(Within(q.key[d], d, q.conns[d])) <= q.conns[d]

(* ConnLimit counts as this module does.                                   *)
LEMMA SameCardinality == \A S : Limiter!Cardinality(S) = Cardinality(S)
BY DEF Limiter!Cardinality, Cardinality

(* No step of the limiter lets one too many in.                            *)
LEMMA WithinStep ==
  Structure /\ InsideWithinLimits /\ [Limiter!Next]_limiter => InsideWithinLimits'
<1> SUFFICES ASSUME Structure, InsideWithinLimits, [Limiter!Next]_limiter,
                    NEW q \in Claims, NEW d \in Dim, q.conns[d] > 0
             PROVE  Cardinality(Within(q.key[d], d, q.conns[d])') <= q.conns[d]
  BY DEF InsideWithinLimits
<1>1. PICK m \in Nat : m = q.conns[d]
  BY GatewayAssumption DEF GatewayAssumption, Dim
<1> DEFINE k == q.key[d]
<1> DEFINE S == Within(k, d, m)
<1>2. /\ IsFiniteSet(S) /\ Cardinality(S) \in Nat /\ Cardinality(S) <= m
  <2>1. S \subseteq Conns /\ IsFiniteSet(Conns)
    BY GatewayAssumption DEF Within, GatewayAssumption
  <2>2. Cardinality(S) <= m
    BY <1>1 DEF InsideWithinLimits
  <2> HIDE DEF S
  <2> QED
    BY <2>1, <2>2, FS_Subset, FS_CardinalityType
<1> SUFFICES Cardinality(S') <= m
  BY <1>1
<1>3. CASE UNCHANGED limiter
  <2>1. S' = S
    BY <1>3 DEF limiter, Within
  <2> QED
    BY <1>2, <2>1
<1>4. ASSUME NEW c \in Conns, Limiter!Present(c) \/ Limiter!Refuse(c) \/ Limiter!Leave(c)
      PROVE  Cardinality(S') <= m
  <2>1. S' \subseteq S
    BY <1>4 DEF Limiter!Present, Limiter!Refuse, Limiter!Leave, Limiter!Move, Within, Structure
  <2> HIDE DEF S
  <2> QED
    BY <1>2, <2>1, FS_Subset, FS_CardinalityType
<1>5. ASSUME NEW c \in Conns, Limiter!Admit(c) PROVE Cardinality(S') <= m
  <2>1. S' \subseteq S \cup {c} /\ claim' = claim
    BY <1>5 DEF Limiter!Admit, Limiter!Move, Within, Structure
  <2>2. CASE c \notin S'
    <3>1. S' \subseteq S
      BY <2>1, <2>2
    <3> HIDE DEF S
    <3> QED
      BY <1>2, <3>1, FS_Subset, FS_CardinalityType
  <2>3. CASE c \in S'
    <3>1. claim[c].key[d] = k /\ claim[c].conns[d] \in 1 .. m
      BY <2>1, <2>3 DEF Within
    <3>2. Cardinality(Limiter!Holders(k)) < claim[c].conns[d]
      BY <1>5, <3>1, SameCardinality DEF Limiter!Admit, Limiter!HasRoom, Limiter!Dims, Dim
    <3>3. S \subseteq Limiter!Holders(k) /\ Limiter!Holders(k) \subseteq Conns /\ IsFiniteSet(Conns)
      BY GatewayAssumption DEF Within, Limiter!Holders, Limiter!Dims, Dim, GatewayAssumption
    <3> HIDE DEF S
    <3>4. /\ IsFiniteSet(Limiter!Holders(k)) /\ Cardinality(Limiter!Holders(k)) \in Nat
          /\ Cardinality(S) <= Cardinality(Limiter!Holders(k))
      BY <3>3, FS_Subset, FS_CardinalityType
    <3>5. Cardinality(S) + 1 <= m
      BY <1>2, <3>1, <3>2, <3>4
    <3>6. IsFiniteSet(S \cup {c}) /\ Cardinality(S \cup {c}) <= Cardinality(S) + 1
      <4>1. /\ IsFiniteSet(S \cup {c})
            /\ Cardinality(S \cup {c}) = IF c \in S THEN Cardinality(S) ELSE Cardinality(S) + 1
        BY <1>2, FS_AddElement
      <4> QED
        BY <1>2, <4>1
    <3>7. Cardinality(S') <= Cardinality(S \cup {c}) /\ Cardinality(S') \in Nat
          /\ Cardinality(S \cup {c}) \in Nat
      BY <2>1, <3>6, FS_Subset, FS_CardinalityType
    <3> QED
      BY <1>2, <3>5, <3>6, <3>7
  <2> QED
    BY <2>2, <2>3
<1> QED
  BY <1>3, <1>4, <1>5 DEF Limiter!Next

(* The connection limits hold for what they are meant to bound, sockets    *)
(* open towards the outside, as every such socket belongs to a holder.     *)
THEOREM OutgoingIsWithinLimits == Spec => []OutgoingWithinLimits
<1>1. Init => InsideWithinLimits
  <2> SUFFICES ASSUME Init, NEW q \in Claims, NEW d \in Dim, q.conns[d] > 0
               PROVE  Cardinality(Within(q.key[d], d, q.conns[d])) <= q.conns[d]
    BY DEF InsideWithinLimits
  <2>1. Within(q.key[d], d, q.conns[d]) = {}
    BY DEF Init, Within
  <2> QED
    BY <2>1, FS_EmptySet, GatewayAssumption DEF GatewayAssumption, Dim
<1>2. Structure /\ InsideWithinLimits => OutgoingWithinLimits
  <2> SUFFICES ASSUME Structure, InsideWithinLimits, NEW q \in Claims, NEW d \in Dim,
                      q.conns[d] > 0
               PROVE  Cardinality(Outgoing(q.key[d], d, q.conns[d])) <= q.conns[d]
    BY DEF OutgoingWithinLimits, Dim
  <2> DEFINE O == Outgoing(q.key[d], d, q.conns[d])
             W == Within(q.key[d], d, q.conns[d])
  <2>1. ASSUME NEW c \in Conns, open[c] \ {"client"} # {} PROVE phase[c] = "in"
    <3>1. Good(pc[c], open[c], defers[c], phase[c])
      BY DEF Structure, Sane
    <3>2. CASE open[c] \cap {"remote", "udp"} # {}
      BY <3>1, <3>2 DEF Good, Inside
    <3>3. CASE open[c] \cap {"parentControl", "parentSocket"} # {}
      BY <3>1, <3>3 DEF Good, Chain, Has
    <3> QED
      BY <2>1, <3>1, <3>2, <3>3 DEF Good, Sockets
  <2>2. O \subseteq W /\ W \subseteq Conns /\ IsFiniteSet(Conns) /\ q.conns[d] \in Int
    BY <2>1, GatewayAssumption DEF Outgoing, Within, GatewayAssumption, Dim
  <2>3. Cardinality(W) <= q.conns[d]
    BY DEF InsideWithinLimits
  <2> HIDE DEF O, W
  <2>4. /\ Cardinality(O) <= Cardinality(W) /\ Cardinality(O) \in Nat /\ Cardinality(W) \in Nat
    BY <2>2, FS_Subset, FS_CardinalityType
  <2> QED
    BY <2>2, <2>3, <2>4 DEF O
<1> QED
  BY <1>1, <1>2, InitStructure, StructureStep, LimiterStep, WithinStep, PTL DEF Spec

----------------------------------------------------------------------------
(* What a client has been told, and what was reported of it, at each step  *)
(* of its handler: no outcome and no report before there is one.           *)
Words == Outcomes \cup {"method0", "method2", "authOK"}
Quiet(s) == \A i \in DOMAIN s : s[i] \notin Outcomes
Tells(s, m) == \E i \in DOMAIN s : s[i] = m /\ \A j \in DOMAIN s : s[j] \in Outcomes => j = i
Fee == IF cfg.traffic THEN 1 ELSE 0

Pending == Before \cup {"dial", "confirm", "openUDP", "bindUDP", "confirmUDP"}
Running == {"relay", "associated"}
Ledger(p, s, r) ==
  /\ s \in Seq(Words) /\ r \in 0 .. 1
  /\ p \in Pending \cup {"closed"} => Quiet(s) /\ r = 0
  /\ p \in Running => r = 0 /\ (Quiet(s) \/ \E m \in Success : Tells(s, m))
  /\ p = "return" => \/ Quiet(s)
                     \/ \E m \in Success : Tells(s, m) /\ r = Fee
                     \/ \E m \in Refusals \cup {"502", "rep5"} : Tells(s, m)

(* The kinds of clients whose handlers get to a step.                      *)
Suits(p, kind) ==
  /\ p = "request" => kind \in {"connect", "plain"}
  /\ p \in {"greet", "subauth", "command"} => kind \in {"socks", "udp", "badcmd"}
  /\ p = "address" => kind \in {"socks", "udp"}
  /\ p \in {"authorize", "rate", "acquire"} => kind # "badcmd"
  /\ p \in {"dial", "confirm", "relay"} => kind \in {"connect", "plain", "socks"}
  /\ p \in {"openUDP", "bindUDP", "confirmUDP", "associated"} => kind = "udp"

Books ==
  /\ cfg \in Configs /\ client \in [Conns -> ClientType]
  /\ said \in [Conns -> Seq(Words)] /\ reports \in [Conns -> 0 .. 1]
  /\ \A c \in Conns : Ledger(pc[c], said[c], reports[c]) /\ Suits(pc[c], client[c].kind)

(* One more word, on top of no outcome.                                    *)
LEMMA Saying ==
  ASSUME NEW s \in Seq(Words), NEW m \in Words, Quiet(s)
  PROVE  /\ Append(s, m) \in Seq(Words)
         /\ m \notin Outcomes => Quiet(Append(s, m))
         /\ m \in Outcomes => Tells(Append(s, m), m)
<1>1. /\ Len(s) \in Nat /\ DOMAIN s = 1 .. Len(s) /\ Append(s, m) \in Seq(Words)
      /\ Len(Append(s, m)) = Len(s) + 1 /\ DOMAIN Append(s, m) = 1 .. Len(Append(s, m))
      /\ Append(s, m)[Len(s) + 1] = m /\ \A i \in 1 .. Len(s) : Append(s, m)[i] = s[i]
  BY LenProperties, AppendProperties
<1>2. Len(s) + 1 \in DOMAIN Append(s, m)
      /\ \A i \in DOMAIN Append(s, m) : i = Len(s) + 1 \/ (i \in DOMAIN s /\ Append(s, m)[i] = s[i])
  BY <1>1
<1>3. m \notin Outcomes => Quiet(Append(s, m))
  BY <1>1, <1>2 DEF Quiet
<1>4. m \in Outcomes => Tells(Append(s, m), m)
  BY <1>1, <1>2 DEF Quiet, Tells
<1> QED
  BY <1>1, <1>3, <1>4

(* A step from one place to another, with the word it says, if any, and    *)
(* the number of reports after it.                                         *)
Silence == "silence"
Enters(from, to, m, r, q) ==
  \/ from \in Pending /\ to \in Pending \cup {"return"} /\ m \in {Silence, "method0", "method2", "authOK"} /\ q = r
  \/ from \in Pending /\ to = "return" /\ m \in Refusals /\ q = r
  \/ from \in Pending /\ to = "return" /\ m \in {"502", "rep5", Silence} /\ q \in {r, r + Fee}
  \/ from \in Pending /\ to \in Running /\ m \in Success \cup {Silence} /\ q = r
  \/ from \in Running /\ to = "return" /\ m = Silence /\ q = r + Fee
  \/ from = "return" /\ to = "return" /\ m = Silence /\ q = r
Books1(c, to, m, q) ==
  /\ Enters(pc[c], to, m, reports[c], q)
  /\ pc' = [pc EXCEPT ![c] = to] /\ reports' = [reports EXCEPT ![c] = q]
  /\ said' = IF m = Silence THEN said ELSE [said EXCEPT ![c] = Append(said[c], m)]

(* When what has been told and reported suits a step.                      *)
LEMMA LedgerSuits ==
  ASSUME NEW to, NEW t \in Seq(Words), NEW q \in 0 .. 1,
         \/ to \in Pending \cup {"return"} /\ Quiet(t) /\ q = 0
         \/ to \in Running /\ q = 0 /\ \E m \in Success : Tells(t, m)
         \/ to = "return" /\ \E m \in Refusals \cup {"502", "rep5"} : Tells(t, m)
  PROVE  Ledger(to, t, q)
<1>1. to \in Pending => to \notin Running /\ to # "return" /\ to # "closed"
  BY DEF Pending, Before, Running
<1>2. to \in Running => to \notin Pending /\ to # "return" /\ to # "closed"
  BY DEF Pending, Before, Running
<1>3. to = "return" => to \notin Pending /\ to \notin Running /\ to # "closed"
  BY DEF Pending, Before, Running
<1> QED
  BY <1>1, <1>2, <1>3 DEF Ledger

LEMMA EntersLedger ==
  ASSUME NEW from, NEW to, NEW m, NEW r, NEW q, NEW s, NEW t,
         Ledger(from, s, r), Enters(from, to, m, r, q),
         t = IF m = Silence THEN s ELSE Append(s, m)
  PROVE  Ledger(to, t, q)
<1> USE DEF Ledger, Enters, Fee
<1>1. s \in Seq(Words) /\ r \in 0 .. 1
  OBVIOUS
<1>2. CASE m = Silence
  BY <1>2 DEF Pending, Before, Running, Success, Refusals, Silence
<1>3. CASE m # Silence
  <2>1. m \in Words /\ from \in Pending /\ Quiet(s) /\ r = 0
    BY <1>3 DEF Words, Outcomes, Silence
  <2>2. /\ t \in Seq(Words)
        /\ m \notin Outcomes => Quiet(t)
        /\ m \in Outcomes => Tells(t, m)
    BY <1>1, <1>3, <2>1, Saying
  <2>3. CASE m \in {"method0", "method2", "authOK"}
    <3>1. m \notin Outcomes
      BY <2>3 DEF Outcomes, Success, Refusals
    <3>2. to \in Pending \cup {"return"} /\ q = 0
      BY <2>1, <2>3 DEF Success, Refusals, Silence
    <3> QED
      BY <2>2, <3>1, <3>2, LedgerSuits
  <2>4. CASE m \in Success
    <3>1. to \in Running /\ q = 0
      BY <2>1, <2>4 DEF Success, Refusals, Silence, Running, Pending, Before
    <3>2. m \in Outcomes
      BY <2>4 DEF Outcomes
    <3> QED
      BY <2>2, <2>4, <3>1, <3>2, LedgerSuits
  <2>5. CASE m \in Refusals
    <3>1. to = "return" /\ q = 0
      BY <2>1, <2>5 DEF Success, Refusals, Silence, Running, Pending, Before
    <3>2. m \in Outcomes
      BY <2>5 DEF Outcomes
    <3> QED
      BY <2>2, <2>5, <3>1, <3>2, LedgerSuits
  <2>6. CASE m \in {"502", "rep5"}
    <3>1. to = "return" /\ q \in 0 .. 1
      BY <2>1, <2>6 DEF Success, Refusals, Silence, Running, Pending, Before
    <3>2. m \in Outcomes
      BY <2>6 DEF Outcomes
    <3> QED
      BY <2>2, <2>6, <3>1, <3>2, LedgerSuits
  <2> QED
    BY <1>3, <2>3, <2>4, <2>5, <2>6
<1> QED
  BY <1>2, <1>3

(* A step of one handler that keeps its books keeps all books.             *)
LEMMA BooksLocal ==
  ASSUME Structure, Books, NEW c \in Conns, \E to, m, q : Books1(c, to, m, q) /\ Suits(to, client[c].kind),
         UNCHANGED <<cfg, client>>
  PROVE  Books'
<1>1. PICK to, m, q : Books1(c, to, m, q) /\ Suits(to, client[c].kind)
  OBVIOUS
<1> DEFINE t == IF m = Silence THEN said[c] ELSE Append(said[c], m)
<1>2. Ledger(pc[c], said[c], reports[c])
  BY DEF Books
<1>3. Ledger(to, t, q)
  BY <1>1, <1>2, EntersLedger DEF Books1
<1>4. said' = [said EXCEPT ![c] = t] /\ t \in Seq(Words) /\ q \in 0 .. 1
  <2>1. said \in [Conns -> Seq(Words)]
    BY DEF Books
  <2>2. t \in Seq(Words) /\ q \in 0 .. 1
    BY <1>3 DEF Ledger
  <2>3. CASE m = Silence
    BY <1>1, <2>1, <2>2, <2>3 DEF Books1
  <2>4. CASE m # Silence
    BY <1>1, <2>2, <2>4 DEF Books1
  <2> QED
    BY <2>2, <2>3, <2>4
<1> HIDE DEF t
<1>5. \A d \in Conns : Ledger(pc'[d], said'[d], reports'[d]) /\ Suits(pc'[d], client'[d].kind)
  <2> TAKE d \in Conns
  <2>1. CASE d = c
    BY <1>1, <1>3, <1>4, <2>1 DEF Books, Books1, Structure
  <2>2. CASE d # c
    BY <1>1, <1>4, <2>2 DEF Books, Books1, Structure
  <2> QED
    BY <2>1, <2>2
<1>6. Ledger(pc[c], said[c], reports[c])' = Ledger(pc'[c], said'[c], reports'[c])
  BY DEF Ledger, Fee
<1>7. \A d \in Conns : Ledger(pc[d], said[d], reports[d])'
  BY <1>5 DEF Ledger, Fee
<1>8. said' \in [Conns -> Seq(Words)] /\ reports' \in [Conns -> 0 .. 1]
  BY <1>1, <1>4 DEF Books, Books1
<1> QED
  BY <1>5, <1>7, <1>8 DEF Books, Suits

LEMMA BooksStep == Structure /\ Books /\ [Next]_vars => Books'
<1> SUFFICES ASSUME Structure, Books, [Next]_vars PROVE Books'
  OBVIOUS
<1> USE DEF Goto, Step, Update, Refuse, Say, limiter
<1>0. \A c \in Conns : /\ Suits(pc[c], client[c].kind) /\ reports[c] \in Nat
                       /\ reports' = reports => reports' = [reports EXCEPT ![c] = reports[c]]
                       /\ Report(c) => reports' = [reports EXCEPT ![c] = reports[c] + Fee]
                       /\ client[c].kind \in {"connect", "plain", "socks", "udp", "badcmd"}
  BY DEF Books, Report, Fee, ClientType
<1>1. ASSUME NEW c \in Conns, Accept(c) PROVE Books'
  <2>1. PICK k \in Clients : client' = [client EXCEPT ![c] = k]
    BY <1>1 DEF Accept
  <2>2. client' \in [Conns -> ClientType]
    BY <2>1, GatewayAssumption DEF Books, GatewayAssumption
  <2>3. /\ UNCHANGED <<cfg, said, reports>> /\ pc' = [pc EXCEPT ![c] = "first"] /\ pc[c] = "closed"
    BY <1>1 DEF Accept
  <2>4. Ledger("first", said[c], reports[c]) /\ Suits("first", client'[c].kind)
    <3>1. Ledger("closed", said[c], reports[c])
      BY <2>3 DEF Books
    <3> QED
      BY <3>1, LedgerSuits DEF Ledger, Suits, Pending, Before
  <2>5. \A d \in Conns : Ledger(pc'[d], said[d], reports[d]) /\ Suits(pc'[d], client'[d].kind)
    <3> TAKE d \in Conns
    <3>1. CASE d = c
      BY <2>3, <2>4, <3>1 DEF Structure
    <3>2. CASE d # c
      BY <2>1, <2>3, <3>2 DEF Books, Structure
    <3> QED
      BY <3>1, <3>2
  <2> QED
    BY <2>2, <2>3, <2>5 DEF Books, Ledger, Suits, Fee
<1>2. ASSUME NEW c \in Conns, CloseClient(c) PROVE Books'
  <2>1. /\ client' = [client EXCEPT ![c] = Nobody] /\ said' = [said EXCEPT ![c] = <<>>]
        /\ reports' = [reports EXCEPT ![c] = 0] /\ pc' = [pc EXCEPT ![c] = "closed"] /\ cfg' = cfg
    BY <1>2 DEF CloseClient
  <2>2. <<>> \in Seq(Words) /\ Quiet(<<>>)
    BY EmptySeq DEF Quiet
  <2>3. Ledger("closed", <<>>, 0) /\ Suits("closed", "badcmd")
    BY <2>2 DEF Ledger, Suits, Running
  <2>4. client' \in [Conns -> ClientType] /\ client'[c].kind = "badcmd"
    BY <2>1 DEF Books, ClientType, Nobody
  <2>5. \A d \in Conns : Ledger(pc'[d], said'[d], reports'[d]) /\ Suits(pc'[d], client'[d].kind)
    <3> TAKE d \in Conns
    <3>1. CASE d = c
      BY <2>1, <2>3, <2>4, <3>1 DEF Structure, Books
    <3>2. CASE d # c
      BY <2>1, <3>2 DEF Books, Structure
    <3> QED
      BY <3>1, <3>2
  <2>6. said' \in [Conns -> Seq(Words)] /\ reports' \in [Conns -> 0 .. 1]
    BY <2>1, <2>2 DEF Books
  <2> QED
    BY <2>1, <2>4, <2>5, <2>6 DEF Books, Ledger, Suits, Fee
<1>3. ASSUME NEW c \in Conns, BodyEnds(c) \/ RemoteReads(c) PROVE Books'
  <2>1. client' \in [Conns -> ClientType] /\ \A d \in Conns : client'[d].kind = client[d].kind
    <3>1. CASE BodyEnds(c)
      BY <3>1 DEF BodyEnds, Books, ClientType
    <3>2. CASE RemoteReads(c)
      BY <3>2 DEF RemoteReads, Books, ClientType
    <3> QED
      BY <1>3, <3>1, <3>2
  <2> QED
    BY <1>3, <2>1 DEF BodyEnds, RemoteReads, Books, Ledger, Suits, Fee
<1>4. ASSUME NEW c \in Conns, NEW to, NEW m, NEW q, Enters(pc[c], to, m, reports[c], q),
             pc' = [pc EXCEPT ![c] = to], reports' = [reports EXCEPT ![c] = q],
             m = Silence => said' = said, m # Silence => said' = [said EXCEPT ![c] = Append(said[c], m)],
             Suits(to, client[c].kind), UNCHANGED <<cfg, client>>
      PROVE  Books'
  BY <1>4, BooksLocal DEF Books1
<1>5. ASSUME NEW c \in Conns, \/ FirstByte(c) \/ Unreadable(c) \/ ReadRequest(c) \/ Greet(c)
                              \/ Subauth(c) \/ Command(c) \/ Address(c)
      PROVE  Books'
  <2>1. reports' = [reports EXCEPT ![c] = reports[c]] /\ UNCHANGED <<cfg, client>>
    BY <1>0, <1>5 DEF FirstByte, Unreadable, ReadRequest, Greet, Subauth, Command, Address
  <2>2. PICK to \in Pending \cup {"return"}, m \in {Silence, "method0", "method2", "authOK"} \cup Refusals :
          /\ pc[c] \in Pending /\ pc' = [pc EXCEPT ![c] = to] /\ Suits(to, client[c].kind)
          /\ m \in Refusals => to = "return"
          /\ m = Silence => said' = said
          /\ m # Silence => said' = [said EXCEPT ![c] = Append(said[c], m)]
    <3> USE DEF Http, Suits, Pending, Before, Refusals, Silence
    <3>1. CASE FirstByte(c) \/ Unreadable(c)
      BY <1>0, <3>1 DEF FirstByte, Unreadable
    <3>2. CASE ReadRequest(c)
      BY <1>0, <3>2 DEF ReadRequest
    <3>3. CASE Greet(c)
      BY <1>0, <3>3 DEF Greet
    <3>4. CASE Subauth(c)
      BY <1>0, <3>4 DEF Subauth
    <3>5. CASE Command(c)
      BY <1>0, <3>5 DEF Command
    <3>6. CASE Address(c)
      <4>1. pc[c] = "address" /\ client[c].kind \in {"socks", "udp"}
        BY <1>0, <3>6 DEF Address
      <4>2. CASE pc' = [pc EXCEPT ![c] = "authorize"] /\ said' = said
        BY <4>1, <4>2
      <4>3. ASSUME NEW m \in {"rep1", "rep8"}, said' = [said EXCEPT ![c] = Append(said[c], m)],
                   pc' = [pc EXCEPT ![c] = "return"]
            PROVE  \E to \in Pending \cup {"return"},
                      w \in {Silence, "method0", "method2", "authOK"} \cup Refusals :
                     /\ pc[c] \in Pending /\ pc' = [pc EXCEPT ![c] = to] /\ Suits(to, client[c].kind)
                     /\ w \in Refusals => to = "return"
                     /\ w = Silence => said' = said
                     /\ w # Silence => said' = [said EXCEPT ![c] = Append(said[c], w)]
        BY <4>1, <4>3
      <4> QED
        BY <3>6, <4>1, <4>2, <4>3 DEF Address
    <3> QED
      BY <1>5, <3>1, <3>2, <3>3, <3>4, <3>5, <3>6
  <2> QED
    BY <1>4, <2>1, <2>2 DEF Enters
<1>6. ASSUME NEW c \in Conns, \/ Authorize(c) \/ AllowNewConn(c) \/ TryAcquire(c) \/ Dial(c)
                              \/ OpenUDP(c) \/ BindUDP(c)
      PROVE  Books'
  <2>1. UNCHANGED <<cfg, client>>
    BY <1>6 DEF Authorize, AllowNewConn, TryAcquire, Dial, OpenUDP, BindUDP
  <2>2. PICK to \in Pending \cup {"return"}, m \in {Silence, "502", "rep5"} \cup Refusals,
             q \in {reports[c], reports[c] + Fee} :
          /\ pc[c] \in Pending /\ pc' = [pc EXCEPT ![c] = to] /\ Suits(to, client[c].kind)
          /\ m # Silence => to = "return"
          /\ m = Silence => said' = said
          /\ m # Silence => said' = [said EXCEPT ![c] = Append(said[c], m)]
          /\ reports' = [reports EXCEPT ![c] = q]
          /\ q = reports[c] \/ (m \in {"502", "rep5"} /\ q = reports[c] + Fee)
    <3> USE DEF Http, Suits, Pending, Before, Refusals, Silence
    <3>1. CASE Authorize(c)
      BY <1>0, <3>1 DEF Authorize
    <3>2. CASE AllowNewConn(c)
      BY <1>0, <3>2 DEF AllowNewConn
    <3>3. CASE TryAcquire(c)
      BY <1>0, <3>3 DEF TryAcquire
    <3>4. CASE Dial(c)
      <4>1. pc[c] = "dial" /\ client[c].kind \in {"connect", "plain", "socks"}
        BY <1>0, <3>4 DEF Dial
      <4>2. CASE /\ pc' = [pc EXCEPT ![c] = "confirm"] /\ said' = said
                 /\ reports' = [reports EXCEPT ![c] = reports[c]]
        BY <4>1, <4>2
      <4>3. CASE /\ pc' = [pc EXCEPT ![c] = "return"] /\ said' = [said EXCEPT ![c] = Append(said[c], "400")]
                 /\ reports' = [reports EXCEPT ![c] = reports[c]]
        BY <4>1, <4>3
      <4>4. CASE /\ pc' = [pc EXCEPT ![c] = "return"]
                 /\ \E m \in {"502", "rep5"} : said' = [said EXCEPT ![c] = Append(said[c], m)]
                 /\ reports' = [reports EXCEPT ![c] = reports[c] + Fee]
        <5>1. PICK m \in {"502", "rep5"} : said' = [said EXCEPT ![c] = Append(said[c], m)]
          BY <4>4
        <5> QED
          BY <4>1, <4>4, <5>1
      <4> QED
        BY <1>0, <3>4, <4>2, <4>3, <4>4 DEF Dial
    <3>5. CASE OpenUDP(c)
      BY <1>0, <3>5 DEF OpenUDP
    <3>6. CASE BindUDP(c)
      <4>1. /\ pc[c] = "bindUDP" /\ client[c].kind = "udp"
            /\ reports' = [reports EXCEPT ![c] = reports[c]]
        BY <1>0, <3>6 DEF BindUDP
      <4>2. CASE pc' = [pc EXCEPT ![c] = "confirmUDP"] /\ said' = said
        BY <4>1, <4>2
      <4>3. CASE pc' = [pc EXCEPT ![c] = "return"] /\ said' = [said EXCEPT ![c] = Append(said[c], "rep8")]
        BY <4>1, <4>3
      <4>4. CASE pc' = [pc EXCEPT ![c] = "return"] /\ said' = [said EXCEPT ![c] = Append(said[c], "rep1")]
        BY <4>1, <4>4
      <4> QED
        BY <3>6, <4>1, <4>2, <4>3, <4>4 DEF BindUDP
    <3> QED
      BY <1>6, <3>1, <3>2, <3>3, <3>4, <3>5, <3>6
  <2> QED
    BY <1>4, <2>1, <2>2 DEF Enters, Silence, Refusals
<1>7. ASSUME NEW c \in Conns, Confirm(c) \/ ConfirmUDP(c) \/ ConfirmFails(c)
      PROVE  Books'
  <2>1. UNCHANGED <<cfg, client>>
    BY <1>7 DEF Confirm, ConfirmUDP, ConfirmFails
  <2>2. PICK to \in Running \cup {"return"}, m \in {Silence} \cup Success,
             q \in {reports[c], reports[c] + Fee} :
          /\ pc[c] \in Pending /\ pc' = [pc EXCEPT ![c] = to] /\ Suits(to, client[c].kind)
          /\ m # Silence => to \in Running
          /\ m = Silence => said' = said
          /\ m # Silence => said' = [said EXCEPT ![c] = Append(said[c], m)]
          /\ reports' = [reports EXCEPT ![c] = q]
          /\ q = reports[c] \/ (to = "return" /\ q = reports[c] + Fee)
    <3> USE DEF Http, Suits, Pending, Before, Running, Success, Silence
    <3>1. CASE Confirm(c)
      BY <1>0, <3>1 DEF Confirm
    <3>2. CASE ConfirmUDP(c)
      BY <1>0, <3>2 DEF ConfirmUDP
    <3>3. CASE ConfirmFails(c)
      BY <1>0, <3>3 DEF ConfirmFails
    <3> QED
      BY <1>7, <3>1, <3>2, <3>3
  <2> QED
    BY <1>4, <2>1, <2>2 DEF Enters, Silence, Success, Running
<1>8. ASSUME NEW c \in Conns, RelayEnds(c) \/ AssociationEnds(c) PROVE Books'
  <2>1. /\ pc[c] \in Running /\ pc' = [pc EXCEPT ![c] = "return"] /\ said' = said
        /\ reports' = [reports EXCEPT ![c] = reports[c] + Fee] /\ UNCHANGED <<cfg, client>>
    BY <1>0, <1>8 DEF RelayEnds, AssociationEnds, Running
  <2>2. Suits("return", client[c].kind)
    BY DEF Suits
  <2>3. Enters(pc[c], "return", Silence, reports[c], reports[c] + Fee)
    BY <2>1 DEF Enters
  <2> QED
    BY <1>4, <2>1, <2>2, <2>3
<1>9. ASSUME NEW c \in Conns, CloseUpRelay(c) \/ Release(c) \/ CloseBody(c) PROVE Books'
  BY <1>9 DEF CloseUpRelay, Release, CloseBody, Books, Ledger, Suits, Fee
<1>10. CASE UNCHANGED vars
  BY <1>10 DEF vars, Books, Ledger, Suits, Fee
<1> QED
  BY <1>1, <1>2, <1>3, <1>5, <1>6, <1>7, <1>8, <1>9, <1>10 DEF Next, Handshake, Serve, Finish, Unwind

LEMMA InitBooks == Init => Books
<1> SUFFICES ASSUME Init PROVE Books
  OBVIOUS
<1>1. <<>> \in Seq(Words) /\ Quiet(<<>>)
  BY EmptySeq DEF Quiet
<1>2. Ledger("closed", <<>>, 0) /\ Suits("closed", "badcmd") /\ Nobody \in ClientType /\ Nobody.kind = "badcmd"
  BY <1>1 DEF Ledger, Suits, Running, Nobody, ClientType
<1> QED
  BY <1>1, <1>2 DEF Init, Books

(* Every state of any number of handlers has its type.                     *)
THEOREM GatewayType == Spec => []TypeOK
<1>1. Structure /\ Books => TypeOK
  <2> SUFFICES ASSUME Structure, Books PROVE TypeOK
    OBVIOUS
  <2>1. \A c \in Conns : defers[c] \in Seq(Calls) /\ said[c] \in Seq(Words)
    BY DEF Structure, Books
  <2> QED
    BY <2>1 DEF Structure, Books, TypeOK, Calls, Words, Steps, Before, Inside
<1> QED
  BY <1>1, InitStructure, StructureStep, InitBooks, BooksStep, PTL DEF Spec

(* What a ledger of a handler at any step says of its words and reports.   *)
LEMMA LedgerAccounts ==
  ASSUME Books, NEW c \in Conns, pc[c] \in Steps
  PROVE  /\ Cardinality(Told(c)) <= 1
         /\ reports[c] <= 1
         /\ pc[c] = "return" /\ cfg.traffic /\ Heard(c, Success) => reports[c] = 1
<1>1. Ledger(pc[c], said[c], reports[c])
  BY DEF Books
<1>2. CASE Quiet(said[c])
  <2>1. Told(c) = {}
    BY <1>2 DEF Told, Quiet
  <2> QED
    BY <1>1, <2>1, FS_EmptySet DEF Heard, Ledger
<1>3. ASSUME NEW m \in Outcomes, Tells(said[c], m),
             pc[c] = "return" /\ m \in Success => reports[c] = Fee
      PROVE  /\ Cardinality(Told(c)) <= 1
             /\ reports[c] <= 1
             /\ pc[c] = "return" /\ cfg.traffic /\ Heard(c, Success) => reports[c] = 1
  <2>1. PICK i \in DOMAIN said[c] : said[c][i] = m /\ \A j \in DOMAIN said[c] : said[c][j] \in Outcomes => j = i
    BY <1>3 DEF Tells
  <2>2. Told(c) = {i}
    BY <1>3, <2>1 DEF Told
  <2>3. Cardinality(Told(c)) = 1
    BY <2>2, FS_Singleton
  <2>4. \A set : Heard(c, set) <=> m \in set
    BY <2>1, <2>2 DEF Heard
  <2> QED
    BY <1>1, <1>3, <2>3, <2>4 DEF Ledger, Fee
<1>4. Success \subseteq Outcomes /\ Refusals \subseteq Outcomes /\ {"502", "rep5"} \subseteq Outcomes
      /\ Success \cap Refusals = {} /\ {"502", "rep5"} \cap (Success \cup Refusals) = {}
  BY DEF Outcomes, Success, Refusals
<1>5. \/ pc[c] \in Pending \cup {"closed"} \/ pc[c] \in Running \/ pc[c] = "return"
  BY DEF Steps, Pending, Running, Before, Inside
<1>6. CASE pc[c] \in Running
  <2>1. pc[c] # "return"
    BY <1>6 DEF Running
  <2> QED
    BY <1>1, <1>2, <1>3, <1>4, <1>6, <2>1 DEF Ledger
<1> QED
  BY <1>1, <1>2, <1>3, <1>4, <1>5, <1>6 DEF Ledger

(* A client is told one outcome at most, no words of success stay without  *)
(* a report at the end, and none is reported twice (the handlers' returns  *)
(* and reportTraffic).                                                     *)
THEOREM SessionsAreAccounted == Spec => []Accounted
<1>1. Structure /\ Books => Accounted
  BY LedgerAccounts DEF Structure, Accounted
<1> QED
  BY <1>1, InitStructure, StructureStep, InitBooks, BooksStep, PTL DEF Spec
=============================================================================
