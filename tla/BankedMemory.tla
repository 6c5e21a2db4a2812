----------------------------- MODULE BankedMemory -----------------------------
(***************************************************************************)
(* The memory an operating system with banks relies on: an upper half that *)
(* is always there, and three separate lower halves of which one is        *)
(* selected.  A write to one bank is seen in no other.                     *)
(***************************************************************************)
EXTENDS Integers

CONSTANTS Half, Content

VARIABLES
  common,    \* the upper half
  low,       \* the three lower halves
  bank,      \* the one selected
  running    \* whether the Z80 runs

Bank  == 0..2
Lower == 0..(Half - 1)
Upper == Half..(2 * Half - 1)

Write(a, v) ==
  /\ IF a \in Upper
     THEN common' = [common EXCEPT ![a] = v] /\ UNCHANGED low
     ELSE low' = [low EXCEPT ![bank][a] = v] /\ UNCHANGED common
  /\ running /\ UNCHANGED <<bank, running>>

Select(b) == bank' = b /\ running /\ UNCHANGED <<common, low, running>>

\* A program is loaded by many writes at once, with bank 0 selected, before the
\* Z80 runs.
Load ==
  /\ ~running /\ bank = 0
  /\ \A b \in Bank \ {0} : low'[b] = low[b]
  /\ UNCHANGED <<bank, running>>

Start == ~running /\ running' /\ UNCHANGED <<common, low, bank>>

\* The power goes, or comes back.
PowerCycle == ~running' /\ bank' = 0

Init == bank = 0 /\ ~running

Next ==
  \/ \E a \in Lower \cup Upper, v \in Content : Write(a, v)
  \/ \E b \in Bank : Select(b)
  \/ Load \/ Start
  \/ PowerCycle

Spec == Init /\ [][Next]_<<common, low, bank, running>>

===============================================================================
