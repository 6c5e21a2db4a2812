------------------------------ MODULE FlipFlops ------------------------------
(***************************************************************************)
(* What a Z80 promises of its interrupt enable flip-flops, whatever else   *)
(* an instruction does: EI sets both and holds interrupts off for one more *)
(* instruction; a request that may be accepted is accepted before any      *)
(* other instruction begins; P/V shows IFF2 after LD A,I.  The latest step *)
(* is part of the state, so that none can be taken for another.  External: *)
(* this is the processor that Z80CPU emulates, not its code.               *)
(***************************************************************************)
EXTENDS Naturals

VARIABLES
  IFF1, IFF2,   \* the flip-flops
  shadow,       \* 1 from EI to the end of the instruction after it
  irq,          \* the request
  p,            \* P/V of the flags
  latest        \* the kind of instruction executed last, or "INT"

vars == <<IFF1, IFF2, shadow, irq, p, latest>>

Init ==
  /\ IFF1 = 0 /\ IFF2 = 0 /\ shadow = 0 /\ irq = 0
  /\ p \in {0, 1} /\ latest = "RESET"

Due == irq = 1 /\ IFF1 = 1 /\ shadow = 0

Request == irq' = 1 /\ UNCHANGED <<IFF1, IFF2, shadow, p, latest>>

Accept ==
  /\ Due
  /\ IFF1' = 0 /\ IFF2' = 0 /\ latest' = "INT"
  /\ UNCHANGED <<shadow, irq, p>>

EI ==
  /\ ~Due
  /\ IFF1' = 1 /\ IFF2' = 1 /\ shadow' = 1 /\ latest' = "EI"
  /\ UNCHANGED <<irq, p>>

DI ==
  /\ ~Due
  /\ IFF1' = 0 /\ IFF2' = 0 /\ shadow' = 0 /\ latest' = "DI"
  /\ UNCHANGED <<irq, p>>

LD_A_I ==
  /\ ~Due
  /\ p' = IFF2 /\ shadow' = 0 /\ latest' = "LD A,I"
  /\ UNCHANGED <<IFF1, IFF2, irq>>

RETN ==
  /\ ~Due
  /\ IFF1' = IFF2 /\ shadow' = 0 /\ latest' = "RETN"
  /\ UNCHANGED <<IFF2, irq, p>>

\* Any other instruction; reading the device may withdraw the request.
Other ==
  /\ ~Due
  /\ shadow' = 0 /\ latest' = "other"
  /\ irq' \in {0, irq} /\ p' \in {0, 1}
  /\ UNCHANGED <<IFF1, IFF2>>

Next == Request \/ Accept \/ EI \/ DI \/ LD_A_I \/ RETN \/ Other

Spec == Init /\ [][Next]_vars
==============================================================================
