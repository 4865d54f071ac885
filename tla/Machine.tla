-------------------------------- MODULE Machine --------------------------------
(***************************************************************************)
(* The machine at work: a guest program runs on the processor and the       *)
(* board, instruction by instruction, while the timer's clock and the ends  *)
(* of frames come between any two of them (board_step_frame), and while the *)
(* user may save the state, quit, start the emulator again and load it      *)
(* (core/src/snapshot.c).                                                   *)
(*                                                                          *)
(* A guest is what a loader left in memory: its code, the vectors and the   *)
(* ROM it uses, two words of input, and the bounds on what happens to it.   *)
(***************************************************************************)
EXTENDS Disassembler, Board, SequencesExt

CONSTANTS
  Guests,          \* by name, records: code, rom, inputs, out, end, mark, frames, ticks, snap, medium,
                   \* and listing, for one whose first input is a page of instruction words to list
  Answer(_, _),    \* what a guest is to compute from an input
  Blank            \* the hard disk's volume at first: a function on its bytes

VARIABLES
  prog, input,     \* the guest's name and its input
  s,               \* the machine
  frames, ticks,   \* how many there were
  resumed,         \* a snapshot has been saved and loaded
  noted            \* the count of timer channel 0 as the guest latched it

vars == <<prog, input, s, frames, ticks, resumed, noted>>

Guest == Guests[prog]

Origin == \o1000
InputAt == \o2000

(* Bytes from words.                                                        *)
Laid(words) ==
  [a \in DOMAIN words \cup {w + 1 : w \in DOMAIN words} |->
     IF a \in DOMAIN words THEN words[a] % 256 ELSE words[a - 1] \div 256]

(* The machine with a guest loaded: the primary banks, the timer's request  *)
(* let through.                                                             *)
Booted(g, in, hd) ==
  [r |-> [[i \in 0..7 |-> 0] EXCEPT ![SP] = Origin, ![PC] = Origin],
   n |-> FALSE, z |-> FALSE, v |-> FALSE, c |-> FALSE, t |-> FALSE, prio |-> 0,
   traps |-> {}, seen |-> 0, waiting |-> FALSE, up |-> {},
   mem |-> [dispatcher |-> \o1177, rom_extended |-> FALSE, vram |-> <<>>,
            ram |-> Laid((InputAt :> in[1]) @@ ((InputAt + 2) :> in[2]) @@ g.code),
            rom |-> Laid(g.rom)],
   tmr |-> TimerInit,
   hd |-> hd,
   rd |-> [a |-> 0, b |-> 0, c |-> 0, ctrl |-> 0, counter |-> 0, ram |-> <<>>],
   reg_a |-> 0, reg_c |-> 0, sound |-> FALSE]

(* The hard disk as it is mounted: an image is read from its file.          *)
Mounted(medium, file) ==
  HdReset([unit |-> 0, block |-> 0, buf |-> 0, hi |-> 0, wcount |-> 0, data |-> 0, status |-> 0,
           medium |-> medium, image |-> IF medium = "image" THEN file ELSE <<>>, file |-> file])

Ended == s.r[PC] = Guest.end /\ s.traps = {}

Init ==
  /\ prog \in DOMAIN Guests
  /\ input \in Guest.inputs
  /\ s = Booted(Guest, input, Mounted(Guest.medium, Blank))
  /\ frames = 0 /\ ticks = 0 /\ resumed = FALSE /\ noted = 0

-----------------------------------------------------------------------------
(* One turn of board_step_frame's loop: cpu_step.                           *)
Step ==
  /\ ~Ended
  /\ s' = CpuStep(s)
  /\ noted' = IF s.r[PC] = Guest.mark /\ ~Interrupted(s) THEN s.tmr[0].count ELSE noted
  /\ UNCHANGED <<prog, input, frames, ticks, resumed>>

(* The timer's clock between two instructions.                              *)
Tick ==
  /\ ~Ended /\ ticks < Guest.ticks
  /\ s' = BoardTick(s) /\ ticks' = ticks + 1
  /\ UNCHANGED <<prog, input, frames, resumed, noted>>

(* The end of a frame.  A frame is far longer than the guest's service of   *)
(* it, so few come while it runs; one always comes while it waits.          *)
Frame ==
  /\ ~Ended
  /\ frames < Guest.frames \/ s.waiting
  /\ s' = BoardFrame(s)
  /\ frames' = IF frames < Guest.frames THEN frames + 1 ELSE frames
  /\ UNCHANGED <<prog, input, ticks, resumed, noted>>

(* snap_save: what a snapshot holds of the machine.  The processor's latch  *)
(* and the hard disk controller are not of it.                              *)
SavedFields ==
  {"r", "n", "z", "v", "c", "t", "prio", "waiting", "traps", "up", "mem", "tmr", "rd",
   "reg_a", "reg_c", "sound"}
Snapshot == [f \in SavedFields |-> s[f]]

(* snap_load into the machine q: the latch is as if read now.               *)
Restored(snap, q) ==
  [[f \in DOMAIN q |-> IF f \in SavedFields THEN snap[f] ELSE q[f]]
     EXCEPT !.seen = Encoded(snap.up)]

(* The user saves, quits, starts the emulator, which mounts what was        *)
(* mounted and loads its ROM, and loads what was saved.                     *)
Resume ==
  /\ ~Ended /\ Guest.snap /\ ~resumed
  /\ s' = Restored(Snapshot, Booted(Guest, input, Mounted(s.hd.medium, s.hd.file)))
  /\ resumed' = TRUE
  /\ UNCHANGED <<prog, input, frames, ticks, noted>>

Next == Step \/ Tick \/ Frame \/ Resume

(* The processor runs and frames go on: weak fairness of Step \/ Frame, with *)
(* its ENABLED written out, which TLC could not evaluate in reasonable time.*)
Moves ==
  /\ ~Ended
  /\ CpuStep(s) # s \/ frames < Guest.frames \/ (s.waiting /\ BoardFrame(s) # s)
Fair == []<>~Moves \/ []<><<Step \/ Frame>>_vars

Spec == Init /\ [][Next]_vars /\ Fair

-----------------------------------------------------------------------------
(* Properties *)

WordOf(a) == WordAt(s.mem, Translate(s.mem, a))

(* A guest that ends has computed what arithmetic says, wherever the timer's*)
(* interrupt broke in and wherever its state was saved and loaded: condition*)
(* codes, carries, addressing, stack frames, traps, banks and devices agree *)
(* with one another over the whole program (cpu_ops.c, cpu.c, board.c).     *)
Computes == Ended => [i \in DOMAIN Guest.out |-> WordOf(Guest.out[i])] = Answer(prog, input)

(* A count latched and read in two bytes is the count at the latch command, *)
(* though the counter ran on between them (timer.c).                        *)
LatchCoherent == Ended /\ Guest.mark # 0 => WordOf(Guest.out[Len(Guest.out)]) = noted

(* The hard disk's file never holds what the guest did not send where it    *)
(* did: a transfer that does not fit changes nothing, one that ends within  *)
(* a block leaves the rest of it; and the image is its file (hd.c).         *)
Sent(i) ==
  LET word == WordOf(\o2020 + 2 * ((i - input[1] * HD_BLOCK_SIZE) \div 2))
  IN IF i % 2 = 0 THEN word % 256 ELSE word \div 256
AskedBytes ==
  IF (input[1] * HD_BLOCK_SIZE) + (2 * input[2]) <= Cardinality(DOMAIN Blank)
  THEN (input[1] * HD_BLOCK_SIZE)..((input[1] * HD_BLOCK_SIZE) + (2 * input[2]) - 1) ELSE {}
FileTrue ==
  Guest.medium # "none" =>
    /\ \A i \in DOMAIN Blank :
         s.hd.file[i] \in (IF Ended THEN {} ELSE {Blank[i]})
                            \cup (IF i \in AskedBytes THEN {Sent(i)} ELSE {Blank[i]})
    /\ s.hd.medium = "image" => s.hd.image = s.hd.file

(* A machine about to execute a word, two more behind it.                   *)
Probe(ir) ==
  [Booted([code |-> (Origin :> ir) @@ ((Origin + 2) :> \o100) @@ ((Origin + 4) :> \o20),
           rom |-> <<>>], <<0, 0>>, Mounted("none", Blank))
     EXCEPT !.r = [i \in 0..7 |-> IF i = PC THEN Origin + 2 ELSE \o3000 + \o20 * i]]
(* The pages of instruction words whose branches kBranches names wrongly.   *)
Misnamed == 130..135

(* The word's listing, and the machine before each of its operands and      *)
(* behind the last.                                                         *)
ListingOf(s0) ==
  Decode(Origin, [a \in {Origin, Origin + 2, Origin + 4} |-> WordAt(s0.mem, Translate(s0.mem, a))])
Stages(s0, d) ==
  FoldLeft(LAMBDA passed, op : Append(passed, Behind(Last(passed), op, d.byte)), <<s0>>, d.operands)

(* To execute a word is to do what it is listed as, with the operands' words*)
(* taken in where the listing has them.                                     *)
SameEffect(before, ir, d) == Executed(before, ir) = Listed(before, ir, d)
SameOperand(before, op) ==
  op.reg = PC /\ op.mode \in {2, 3, 6, 7} => op.value = Formed(before, op)
SameWords(stages, d) ==
  (\A i \in DOMAIN d.operands : d.operands[i].reg # PC \/ d.operands[i].mode \notin {4, 5}) =>
    /\ \A i \in DOMAIN d.operands : SameOperand(stages[i], d.operands[i])
    /\ Last(stages).r[PC] = Origin + d.length
AgreedOn(ir, s0, d) ==
  /\ ir \div 256 \notin Misnamed =>
       \A codes \in (IF d.name \in Conditional THEN 0..15 ELSE {9}) :
         SameEffect(Codes(s0, codes), ir, d)
  /\ SameWords(Stages(s0, d), d)
Agreed(s0, ir) == AgreedOn(ir, s0, ListingOf(s0))

(* The listing and the processor agree on every instruction word: to do what*)
(* the listing says is to execute the word, whatever the condition codes; an*)
(* operand through PC is printed as the address the processor forms; and the*)
(* listing's length is what the processor takes in, where step over puts its*)
(* breakpoint (Disassembler.cpp, Debugger.cpp:97).  Left out are six branches *)
(* the listing names wrongly (kBranches), and operands that step PC back.   *)
ListingTrue == Guest.listing => \A ir \in (256 * input[1])..(256 * input[1] + 255) : Agreed(Probe(ir), ir)

(* Every guest comes to its end: no interrupt is lost by a guest that waits *)
(* for it, no trap or return goes astray (cpu.c).                           *)
Ends == <>Ended

=============================================================================
