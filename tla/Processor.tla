------------------------------- MODULE Processor -------------------------------
(***************************************************************************)
(* The KR1807VM1 (core/src/cpu.c, core/src/cpu_ops.c): its registers and    *)
(* processor status, the sixteen-bit instructions decoded from the word the *)
(* guest's memory holds, traps and interrupts.  A machine s adds to the     *)
(* board's part r, the registers; n, z, v, c, t and prio, the status; traps,*)
(* those pending; seen, the request last read off CP0-CP3; and waiting.     *)
(*                                                                          *)
(* Every access threads the machine: an operand's address steps registers   *)
(* and may read a device, in the order the code does.  Instruction times    *)
(* are left out: what they pace, the timer and the frame, comes between any *)
(* two instructions.                                                        *)
(***************************************************************************)
EXTENDS Alu, Sequences

CONSTANTS
  ReadBus(_, _, _, _),   \* the board's side of a read: of a machine, an address, whether a byte
                         \* is meant and whether a write follows; the value and the machine after
  WriteBus(_, _, _, _),  \* of a machine, an address, whether a byte is meant, and the
                         \* value; the machine after
  RequestVector(_)       \* the vector that comes with a request

SP == 6
PC == 7
Restart == \o172004

Field(ir, i) == (ir \div 8^i) % 8               \* an octal digit
IsByte(ir) == ir >= 32768
Half(byte) == IF byte THEN 128 ELSE 32768
Signed8(x) == IF x >= 128 THEN x - 256 ELSE x
Low(x) == x % 256
Extended(x) == IF x >= 128 THEN 65280 + x ELSE x          \* a byte in a register
To16(x) == x % 65536

-----------------------------------------------------------------------------
(* Requests, as in Interrupts: the encoder's order and a code's level.      *)

EncoderOrder == <<2, 5, 11, 9, 8, 3>>
Encoded(up) ==
  IF up = {} THEN 0
  ELSE EncoderOrder[CHOOSE i \in 1..6 : /\ EncoderOrder[i] \in up
                                        /\ \A j \in 1..(i - 1) : EncoderOrder[j] \notin up]
CodeLevel(code) ==
  IF code >= 12 THEN 7 ELSE IF code >= 8 THEN 6 ELSE IF code >= 4 THEN 5 ELSE 4

Sampled(s) == [s EXCEPT !.seen = Encoded(s.up)]

-----------------------------------------------------------------------------
(* The bus: a read cycle looks at the requests as well.                     *)

BusRead(s, a, byte, datio) == ReadBus(Sampled(s), a, byte, datio)

SetReg(s, i, x) == [s EXCEPT !.r = [@ EXCEPT ![i] = To16(x)]]

Push(s, x) ==
  LET lower == SetReg(s, SP, s.r[SP] - 2) IN WriteBus(lower, lower.r[SP], FALSE, x)
Pop(s) ==
  LET read == BusRead(s, s.r[SP], FALSE, FALSE)
  IN [val |-> read.val, s |-> SetReg(read.s, SP, s.r[SP] + 2)]

Status(s) == Bool(s.c) + 2 * Bool(s.v) + 4 * Bool(s.z) + 8 * Bool(s.n) + 16 * Bool(s.t) + 32 * s.prio
Codes(s, x) == [s EXCEPT !.c = BitOf(x, 0), !.v = BitOf(x, 1), !.z = BitOf(x, 2), !.n = BitOf(x, 3)]
SetStatus(s, x) == [Codes(s, x) EXCEPT !.t = BitOf(x, 4), !.prio = (x \div 32) % 8]
Flagged(s, res) == [s EXCEPT !.n = res.n, !.z = res.z, !.v = res.v, !.c = res.c]

-----------------------------------------------------------------------------
(* Addressing (get_word_addr, get_byte_addr).  A byte's automatic step is 1 *)
(* but for SP and PC.                                                       *)

Stepped(byte, reg) == IF byte /\ reg < SP THEN 1 ELSE 2

Indexed(s, reg) ==
  LET read == BusRead(s, s.r[PC], FALSE, FALSE)
      after == SetReg(read.s, PC, s.r[PC] + 2)
  IN [val |-> To16(read.val + after.r[reg]), s |-> after]

Deferred(formed) == BusRead(formed.s, formed.val, FALSE, FALSE)

Address(s, mode, reg, byte) ==
  LET by == Stepped(byte, reg)
  IN CASE mode = 1 -> [val |-> s.r[reg], s |-> s]
       [] mode = 2 -> [val |-> s.r[reg], s |-> SetReg(s, reg, s.r[reg] + by)]
       [] mode = 3 -> BusRead(SetReg(s, reg, s.r[reg] + 2), s.r[reg], FALSE, FALSE)
       [] mode = 4 -> [val |-> To16(s.r[reg] - by), s |-> SetReg(s, reg, s.r[reg] - by)]
       [] mode = 5 -> BusRead(SetReg(s, reg, s.r[reg] - 2), To16(s.r[reg] - 2), FALSE, FALSE)
       [] mode = 6 -> Indexed(s, reg)
       [] mode = 7 -> Deferred(Indexed(s, reg))

(* An operand: a register, or the address of one in memory.                 *)
InMemory(formed) == [in |-> "mem", at |-> formed.val, s |-> formed.s]
Located(s, mode, reg, byte) ==
  IF mode = 0 THEN [in |-> "reg", at |-> reg, s |-> s] ELSE InMemory(Address(s, mode, reg, byte))

OfReg(s, reg, byte) == IF byte THEN Low(s.r[reg]) ELSE s.r[reg]
Fetch(loc, byte, datio) ==
  IF loc.in = "reg" THEN [val |-> OfReg(loc.s, loc.at, byte), s |-> loc.s]
  ELSE BusRead(loc.s, loc.at, byte, datio)

Store(s, loc, byte, x) ==
  IF loc.in = "mem" THEN WriteBus(s, loc.at, byte, x)
  ELSE SetReg(s, loc.at, IF byte THEN (s.r[loc.at] - Low(s.r[loc.at])) + x ELSE x)

-----------------------------------------------------------------------------
(* The instructions with operands.  What only writes still reads first, in  *)
(* the same read-modify-write cycle; TST, CMP and BIT only read.            *)

One(name, h, x, s) ==
  CASE name = "clr" -> Clr(h, x, s.c) [] name = "com" -> Com(h, x, s.c)
    [] name = "inc" -> Inc(h, x, s.c) [] name = "dec" -> Dec(h, x, s.c)
    [] name = "neg" -> Negate(h, x, s.c) [] name = "adc" -> Adc(h, x, s.c)
    [] name = "sbc" -> Sbc(h, x, s.c) [] name = "tst" -> Tst(h, x, s.c)
    [] name = "ror" -> Ror(h, x, s.c) [] name = "rol" -> Rol(h, x, s.c)
    [] name = "asr" -> Asr(h, x, s.c) [] name = "asl" -> Asl(h, x, s.c)
    [] name = "swab" -> Swab(x) [] name = "sxt" -> Sxt(s.n, s.c)

(* The operand at loc, read as old, takes the result; MOVB to a register    *)
(* extends the sign.                                                        *)
Operated(name, byte, loc, old, res) ==
  Flagged(CASE name \in {"tst", "cmp", "bit"} -> old.s
            [] name = "mov" /\ byte /\ loc.in = "reg" -> SetReg(old.s, loc.at, Extended(res.val))
            [] OTHER -> Store(old.s, loc, byte, res.val), res)

OneRead(s, name, byte, loc, old) == Operated(name, byte, loc, old, One(name, Half(byte), old.val, s))
OneAt(s, name, byte, loc) == OneRead(s, name, byte, loc, Fetch(loc, byte, name # "tst"))
SingleOperand(s, ir, name) ==
  OneAt(s, name, IsByte(ir), Located(s, Field(ir, 1), Field(ir, 0), IsByte(ir)))

Two(name, h, s, d, c) ==
  CASE name = "mov" -> Mov(h, s, d, c) [] name = "cmp" -> Cmp(h, s, d, c)
    [] name = "bit" -> Bit(h, s, d, c) [] name = "bic" -> Bic(h, s, d, c)
    [] name = "bis" -> Bis(h, s, d, c) [] name = "add" -> Add(h, s, d, c)
    [] name = "sub" -> Sub(h, s, d, c) [] name = "xor" -> Exclusive(h, s, d, c)

(* The source first, then the destination's address; a source in a register*)
(* is read after that address has stepped (word_source_after).              *)
TwoRead(c, name, byte, src, loc, old) ==
  Operated(name, byte, loc, old, Two(name, Half(byte), src, old.val, c))
TwoAt(c, name, byte, src, loc) ==
  TwoRead(c, name, byte, src, loc, Fetch(loc, byte, name \notin {"cmp", "bit"}))
SourceAfter(sm, sr, byte, read, loc) == IF sm = 0 THEN OfReg(loc.s, sr, byte) ELSE read.val
TwoFrom(c, name, byte, sm, sr, read, loc) ==
  TwoAt(c, name, byte, SourceAfter(sm, sr, byte, read, loc), loc)
TwoTo(c, name, byte, sm, sr, dm, dr, read) ==
  TwoFrom(c, name, byte, sm, sr, read, Located(read.s, dm, dr, byte))
DoubleOperand(s, name, byte, sm, sr, dm, dr) ==
  TwoTo(s.c, name, byte, sm, sr, dm, dr, Fetch(Located(s, sm, sr, byte), byte, FALSE))

(* MTPS leaves T alone; MFPS to a register extends the sign.                *)
Mtps(s, ir) ==
  LET read == Fetch(Located(s, Field(ir, 1), Field(ir, 0), TRUE), TRUE, FALSE)
  IN [SetStatus(read.s, read.val) EXCEPT !.t = s.t]
Mfps(s, ir) ==
  LET loc == Located(s, Field(ir, 1), Field(ir, 0), TRUE)
      old == Fetch(loc, TRUE, TRUE)
      res == Result(128, Status(s), FALSE, s.c)
  IN Flagged(IF loc.in = "reg" THEN SetReg(s, loc.at, Extended(res.val))
             ELSE Store(old.s, loc, TRUE, res.val), res)

-----------------------------------------------------------------------------
(* Branches, jumps and returns *)

Flags(s) == [n |-> s.n, z |-> s.z, v |-> s.v, c |-> s.c]
Jumped(s, pc) == SetReg(s, PC, pc)

Branch(s, ir, name) ==
  IF BranchTaken(name, Flags(s)) THEN Jumped(s, s.r[PC] + 2 * Signed8(Low(ir))) ELSE s

Trapping(s, trap) == [s EXCEPT !.traps = @ \cup {trap}]

(* To a register there is nowhere to jump.                                  *)
Jmp(s, ir) ==
  LET to == Address(s, Field(ir, 1), Field(ir, 0), FALSE)
  IN IF Field(ir, 1) = 0 THEN Trapping(s, "reserved") ELSE Jumped(to.s, to.val)
Jsr(s, ir) ==
  LET link == Field(ir, 2)
      to == Address(s, Field(ir, 1), Field(ir, 0), FALSE)
  IN IF Field(ir, 1) = 0 THEN Trapping(s, "reserved")
     ELSE Jumped(SetReg(Push(to.s, to.s.r[link]), link, to.s.r[PC]), to.val)
Rts(s, ir) ==
  LET link == Field(ir, 0)
      popped == Pop(Jumped(s, s.r[link]))
  IN SetReg(popped.s, link, popped.val)

Sob(s, ir) ==
  LET left == To16(s.r[Field(ir, 2)] - 1)
      less == SetReg(s, Field(ir, 2), left)
  IN IF left = 0 THEN less ELSE Jumped(less, s.r[PC] - 2 * (ir % 64))

(* HALT restarts the ROM; RTI and RTT return; an RTI that sets T traps at   *)
(* once, RTT lets one instruction run.                                      *)
Halt(s) == SetStatus(Jumped(Push(Push(s, Status(s)), s.r[PC]), Restart), 224)
Popped(s) ==
  LET pc == Pop(s)
      ps == Pop(Jumped(pc.s, pc.val))
  IN SetStatus(ps.s, Low(ps.val))
Rti(s) == LET back == Popped(s) IN IF back.t THEN Trapping(back, "tbit") ELSE back
Rtt(s) == [Popped(s) EXCEPT !.traps = @ \ {"tbit"}]

(* The condition-code group; without a bit it is NOP.                       *)
SetCodes(s, ir) ==
  LET picked(i, flag) == IF BitOf(ir, i) THEN BitOf(ir, 4) ELSE flag
  IN [s EXCEPT !.c = picked(0, @), !.v = picked(1, @), !.z = picked(2, @), !.n = picked(3, @)]

-----------------------------------------------------------------------------
(* cpu_ops_init_dispatch_table: the instruction a word is.                  *)

Singles == <<"clr", "com", "inc", "dec", "neg", "adc", "sbc", "tst", "ror", "rol", "asr", "asl">>
Doubles == <<"mov", "cmp", "bit", "bic", "bis">>
Branches == <<"br", "bne", "beq", "bge", "blt", "bgt", "ble">>
HighBranches == <<"bpl", "bmi", "bhi", "blos", "bvc", "bvs", "bhis", "blo">>

Executed(s, ir) ==
  LET top == Field(ir, 4)                       \* the opcode but for its byte bit
      two == Field(ir, 4) * 8 + Field(ir, 3)
      three == two * 8 + Field(ir, 2)
      byte == IsByte(ir)
      page == ir \div 256
  IN CASE top \in 1..5 ->
            DoubleOperand(s, Doubles[top], byte, Field(ir, 3), Field(ir, 2), Field(ir, 1), Field(ir, 0))
       [] top = 6 -> DoubleOperand(s, IF byte THEN "sub" ELSE "add", FALSE,
                                   Field(ir, 3), Field(ir, 2), Field(ir, 1), Field(ir, 0))
       [] two = \o74 /\ ~byte ->
            DoubleOperand(s, "xor", FALSE, 0, Field(ir, 2), Field(ir, 1), Field(ir, 0))
       [] two = \o77 /\ ~byte -> Sob(s, ir)
       [] three \in \o050..\o063 -> SingleOperand(s, ir, Singles[three - \o047])
       [] three = \o003 /\ ~byte -> SingleOperand(s, ir, "swab")
       [] three = \o067 /\ ~byte -> SingleOperand(s, ir, "sxt")
       [] three = \o064 /\ byte -> Mtps(s, ir)
       [] three = \o067 /\ byte -> Mfps(s, ir)
       [] page \in 1..7 -> Branch(s, ir, Branches[page])
       [] page \in 128..135 -> Branch(s, ir, HighBranches[page - 127])
       [] page = 136 -> Trapping(s, "emt")
       [] page = 137 -> Trapping(s, "trap")
       [] three = \o001 /\ ~byte -> Jmp(s, ir)
       [] two = \o04 /\ ~byte -> Jsr(s, ir)
       [] ir \in \o200..\o207 -> Rts(s, ir)
       [] ir \in \o240..\o277 -> SetCodes(s, ir)
       [] ir = 0 -> Halt(s)
       [] ir = 1 -> [s EXCEPT !.waiting = TRUE]
       [] ir = 2 -> Rti(s)
       [] ir = 3 -> Trapping(s, "bpt")
       [] ir = 4 -> Trapping(s, "iot")
       [] ir = 5 -> s                           \* RESET: the code resets nothing
       [] ir = 6 -> Rtt(s)
       [] ir = 7 -> SetReg(s, 0, 4)             \* MFPT
       [] OTHER -> Trapping(s, "reserved")

-----------------------------------------------------------------------------
(* cpu_service_interrupt, cpu_check_interrupts, cpu_step.                   *)

Service_StatusLast(s, vector) ==                                                         \* mutant
  LET pc == ReadBus(Sampled(s), vector, FALSE, FALSE)
      ps == ReadBus(pc.s, vector + 2, FALSE, FALSE)
      entered == SetStatus(ps.s, Low(ps.val))
  IN [Jumped(Push(Push(entered, Status(entered)), s.r[PC]), pc.val) EXCEPT !.waiting = FALSE]
Service(s, vector) ==
  LET pc == ReadBus(Sampled(s), vector, FALSE, FALSE)
      pushed == Jumped(Push(Push(pc.s, Status(s)), s.r[PC]), pc.val)
      ps == ReadBus(pushed, vector + 2, FALSE, FALSE)
  IN [SetStatus(ps.s, Low(ps.val)) EXCEPT !.waiting = FALSE]

(* The traps by rank, with their vectors; then the requests.                *)
TrapOrder == <<"reserved", "bpt", "iot", "emt", "trap", "tbit">>
TrapVector == <<\o010, \o014, \o020, \o030, \o034, \o014>>

Looked_Stale(s) == s                                                                     \* mutant
Looked(s) == IF s.waiting THEN Sampled(s) ELSE s
Asked(s) == s.seen # 0 /\ CodeLevel(s.seen) > s.prio
Interrupted(s) == s.traps # {} \/ Asked(Looked(s))

Checked(s) ==
  LET first == CHOOSE i \in 1..6 : /\ TrapOrder[i] \in s.traps
                                   /\ \A j \in 1..(i - 1) : TrapOrder[j] \notin s.traps
      looked == Looked(s)
  IN CASE s.traps # {} -> Service([s EXCEPT !.traps = @ \ {TrapOrder[first]}], TrapVector[first])
       [] s.traps = {} /\ Asked(looked) ->
            Service([looked EXCEPT !.seen = 0, !.up = @ \ {looked.seen}], RequestVector(looked.seen))
       [] OTHER -> looked

(* A waiting processor only looks; a running one serves what is pending and *)
(* executes one instruction, after which T traps.                           *)
CpuStep(s) ==
  LET checked == Checked(s)
      ir == ReadBus(Sampled(checked), checked.r[PC], FALSE, FALSE)
      done == Executed(SetReg(ir.s, PC, checked.r[PC] + 2), ir.val)
  IN IF s.waiting THEN checked
     ELSE IF checked.t THEN Trapping(done, "tbit") ELSE done

=============================================================================
