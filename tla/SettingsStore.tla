---------------------------- MODULE SettingsStore -----------------------------
(***************************************************************************)
(* What the user of the board is promised of the settings: while the board *)
(* is set up they change one at a time and only by a choice; the set-up    *)
(* ends by making them permanent; the program that runs then changes one   *)
(* at a time and permanently; and the next power-up finds what is          *)
(* permanent.  A card that fails may lose settings to their defaults, or   *)
(* keep a part of the change, and nothing worse.                           *)
(***************************************************************************)
EXTENDS Integers

CONSTANTS
  Setting,      \* the settings, numbers that say in which order they are written
  Choice,       \* of a setting: the values a user can choose
  Default       \* of each setting: the value it has on a blank board

VARIABLES
  committed,    \* what the next power-up finds
  working,      \* what is in force
  running,      \* whether the set-up has ended
  durable,      \* whether there is anything to make it permanent in
  faulted       \* whether the card has failed since power-up

vars == <<committed, working, running, durable, faulted>>

\* The settings below some address are those of new, the others those of old.
Mixed(mix, new, old) ==
  \E a \in 0..256 : \A c \in Setting : mix[c] = IF c < a THEN new[c] ELSE old[c]

ChangedAtMostAt(c) == \A d \in Setting \ {c} : working'[d] = working[d]

Choose ==
  /\ ~running
  /\ \E c \in Setting : ChangedAtMostAt(c) /\ working'[c] \in Choice[c]
  /\ UNCHANGED <<committed, running, durable, faulted>>

\* What is in force becomes permanent, or a part of it if the card fails.
Commits ==
  IF durable THEN committed' = working' \/ (faulted' /\ Mixed(committed', working', committed))
             ELSE committed' = committed

EndSetUp ==
  /\ ~running /\ running'
  /\ working' = working /\ Commits
  /\ (faulted => faulted') /\ UNCHANGED durable

ProgramWrites ==
  /\ running
  /\ \E c \in Setting : ChangedAtMostAt(c)
  /\ Commits
  /\ (faulted => faulted') /\ UNCHANGED <<running, durable>>

\* The power may also go while the set-up is being made permanent.
PowerCycle ==
  /\ \/ committed' = committed
     \/ ~running /\ durable /\ Mixed(committed', working, committed)
  /\ working' = committed'
  /\ ~running' /\ ~faulted' /\ UNCHANGED durable

\* The card fails while the settings are read, or later.
ReadFault ==
  /\ ~running /\ faulted'
  /\ working' = working \/ Mixed(working', committed, Default)
  /\ UNCHANGED <<committed, running, durable>>

Init ==
  /\ working = committed
  /\ running = FALSE /\ faulted = FALSE

Next == Choose \/ EndSetUp \/ ProgramWrites \/ PowerCycle \/ ReadFault

Spec == Init /\ [][Next]_vars

===============================================================================
