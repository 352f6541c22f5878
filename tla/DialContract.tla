----------------------------- MODULE DialContract -----------------------------
(***************************************************************************)
(* What a handler relies on when it calls DialTCP or OpenUDP: the call     *)
(* returns; a failure leaves no socket open; a success hands over exactly  *)
(* the sockets the call is for, with no deadline left on them; and the     *)
(* caller can close all of them.  How a parent is talked to is not said.   *)
(***************************************************************************)
CONSTANT Sockets  \* names of the sockets a call may hand over

VARIABLES
  wants,    \* the sockets this call is for
  outcome,  \* pending, ok, failed, or closed by the caller
  open,     \* sockets open once the call has returned
  armed     \* a deadline of the handshake is still set on one of them

vars == <<wants, outcome, open, armed>>

Init == wants \in SUBSET Sockets /\ outcome = "pending" /\ open = {} /\ armed = FALSE

Succeed == /\ outcome = "pending" /\ outcome' = "ok"
           /\ open' = wants /\ UNCHANGED <<wants, armed>>

Fail == outcome = "pending" /\ outcome' = "failed" /\ UNCHANGED <<wants, open, armed>>

Close == /\ outcome = "ok" /\ outcome' = "closed"
         /\ open' = {} /\ UNCHANGED <<wants, armed>>

Next == Succeed \/ Fail \/ Close

Spec == Init /\ [][Next]_vars /\ WF_vars(Succeed \/ Fail)
=============================================================================
