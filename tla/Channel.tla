------------------------------- MODULE Channel --------------------------------
(***************************************************************************)
(* What the emulator task and the main task want of the streams between    *)
(* them: of each direction, that the characters come out as they went in,  *)
(* none lost, none twice, none out of order, and that at most one is under *)
(* way.                                                                    *)
(***************************************************************************)
EXTENDS Naturals, Sequences

CONSTANTS
  Buffer,   \* the directions
  Char      \* the characters

VARIABLES
  sent,     \* of each direction, the characters handed to write()
  rcvd      \* of each direction, the characters read() has returned

vars == <<sent, rcvd>>

Init == /\ sent = [b \in Buffer |-> << >>]
        /\ rcvd = [b \in Buffer |-> << >>]

Send(b, ch) ==
  /\ sent[b] = rcvd[b]
  /\ sent' = [sent EXCEPT ![b] = Append(@, ch)]
  /\ UNCHANGED rcvd

Receive(b) ==
  /\ sent[b] # rcvd[b]
  /\ rcvd' = [rcvd EXCEPT ![b] = sent[b]]
  /\ UNCHANGED sent

Next == \E b \in Buffer : Receive(b) \/ \E ch \in Char : Send(b, ch)

\* Whatever is sent is received.
Fairness == \A b \in Buffer : WF_vars(Receive(b))

Spec == Init /\ [][Next]_vars

FairSpec == Spec /\ Fairness

===============================================================================
