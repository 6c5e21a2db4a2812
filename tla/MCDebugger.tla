------------------------------ MODULE MCDebugger ------------------------------
(* An instance of Debugger: every instruction there is, and programs that call. *)
EXTENDS Debugger, TLC

At(a, code) == [k \in a..(a + Len(code) - 1) |-> code[k - a + 1]]

Registers == [A |-> 90, B |-> 0, C |-> 2, D |-> 99, E |-> 1, H |-> 96, L |-> 5,
              IXH |-> 97, IXL |-> 250, IYH |-> 98, IYL |-> 7, I |-> 0]
AllFlags(b) == [s |-> b, z |-> b, h |-> b, p |-> b, n |-> b, c |-> b]

Cpu(mem, pc, r, b) ==
  [r |-> r, f |-> AllFlags(b), alt |-> [af |-> 0, bc |-> 258, de |-> 772, hl |-> 24832],
   sp |-> 28672, pc |-> pc, mem |-> mem, iff1 |-> 0, iff2 |-> 0, im |-> 0, irq |-> 0,
   mode |-> "RUN"]

\* Each table's instructions with each prefix, a prefix of its own not among them.
Opcodes ==
  {<<b>> : b \in 0..255 \ {203, 221, 237, 253}}
  \cup {<<p, b>> : p \in {203, 237}, b \in 0..255}
  \cup {<<p, b>> : p \in {221, 253}, b \in 0..255 \ {203, 221, 237, 253}}
  \cup {<<p, 203, 6, b>> : p \in {221, 253}, b \in 0..255}
  \cup {<<221, 253, 110>>, <<253, 221, 102>>}

\* After it the bytes of an address or an offset.  B counts what INIR and OTIR repeat.
Single ==
  {[cpu |-> Cpu(At(16384, o \o <<16, 80>>), 16384,
                [Registers EXCEPT !["B"] = IF o[1] = 237 /\ o[2] % 4 > 1 THEN 2 ELSE 0], b),
    interrupts |-> FALSE, debug |-> TRUE] : o \in Opcodes, b \in {0, 1}}

\* 100: CALL 110, RST 8, JP 100; a call inside, and returns on conditions.
Nested ==
  At(256, <<205, 16, 1, 207, 195, 0, 1>>) @@ At(8, <<175, 192, 200>>)
  @@ At(272, <<197, 205, 32, 1, 193, 201>>) @@ At(288, <<55, 216>>)
\* 100: LD B,2, CALL 110, JR 100; the routine at 110 calls itself once.
Recursive ==
  At(256, <<6, 2, 205, 16, 1, 24, 249>>) @@ At(272, <<5, 196, 16, 1, 201>>)
\* 0: JP 100.  100: LD BC,2, LD HL,100, LD DE,6000, LDIR, CALL 110, RST 0.
WarmBoot ==
  At(0, <<195, 0, 1>>) @@ At(272, <<211, 1, 201>>)
  @@ At(256, <<1, 2, 0, 33, 0, 1, 17, 0, 96, 237, 176, 205, 16, 1, 195, 0, 0>>)
\* 100: CALL 110, JR 100; the routine has a stack of its own for a while.
OwnStack ==
  At(256, <<205, 16, 1, 24, 251>>)
  @@ At(272, <<237, 115, 0, 96, 49, 0, 111, 213, 209, 237, 123, 0, 96, 201>>)
\* 38: IN A,(1), EI, RETI.  100: IM 1, EI, NOP, CALL 110, HALT, JR 103.
Handled ==
  At(56, <<219, 1, 251, 237, 77>>) @@ At(272, <<175, 201>>)
  @@ At(256, <<237, 86, 251, 0, 205, 16, 1, 118, 24, 250>>)
\* 38: IN A,(1), CALL 110, EI, RETI.  100: CALL 110, JR 100; the routine at 110, called by
\* both, calls one itself.
Shared ==
  At(56, <<219, 1, 205, 16, 1, 251, 237, 77>>) @@ At(256, <<205, 16, 1, 24, 251>>)
  @@ At(272, <<223, 201>>) @@ At(24, <<175, 201>>)
\* 100: CALL 110, JR 100; the routine at 110 calls one after PUSH BC, POP BC, with less on
\* the stack than X may have found there.
Unwound ==
  At(256, <<205, 16, 1, 24, 251>>) @@ At(272, <<197, 193, 205, 32, 1, 201>>)
  @@ At(288, <<201>>)

\* Instructions that begin at the last address and go on at 0: CALL 1, RST 0, JR, JP 1,
\* LD (IX+d),n and BIT 0,(IX+d), LD (nn),DE.
Wrapped ==
  {[cpu |-> Cpu((65535 :> o[1]) @@ At(0, Tail(o)), 65535, Registers, b),
    interrupts |-> FALSE, debug |-> TRUE] :
     o \in {<<205, 1, 0, 201>>, <<199>>, <<24, 128>>, <<194, 1, 0>>, <<221, 54, 5, 7>>,
            <<253, 203, 5, 70>>, <<237, 83, 16, 80>>}, b \in {0, 1}}

Programs ==
  {[cpu |-> Cpu(m, 256, Registers, 0), interrupts |-> TRUE, debug |-> d] :
     m \in {Nested, Recursive, WarmBoot, OwnStack, Handled}, d \in BOOLEAN}
  \cup {[cpu |-> [Cpu(Shared, 256, Registers, 0) EXCEPT !.im = 1, !.iff1 = 1, !.iff2 = 1],
         interrupts |-> TRUE, debug |-> TRUE],
        [cpu |-> Cpu(Unwound, 256, Registers, 0), interrupts |-> FALSE, debug |-> TRUE]}

MCStarts == Single \cup Wrapped \cup Programs
===============================================================================
