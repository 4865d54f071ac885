------------------------------ MODULE Disassembler ------------------------------
(***************************************************************************)
(* The listing the debugger and its step over go by                         *)
(* (src/lib/src/Disassembler.cpp): a second decoder of the instruction set, *)
(* with tables of its own, beside the processor's.  A decoded instruction   *)
(* is its name, whether it is the byte form, its operands as printed, the   *)
(* address a branch is printed with, and its length.                        *)
(***************************************************************************)
EXTENDS Processor

ZeroNames == <<"halt", "wait", "rti", "bpt", "iot", "reset", "rtt", "mfpt">>
SingleNames == <<"clr", "com", "inc", "dec", "neg", "adc", "sbc", "tst", "ror", "rol", "asr", "asl">>
DoubleNames == <<"mov", "cmp", "bit", "bic", "bis">>
BranchNames == <<"br", "bne", "beq", "bge", "blt", "bgt", "ble">>
HighBranchNames == <<"bpl", "bmi", "bvc", "bvs", "bhis", "blo", "bhi", "blos">>

(* decodeWord: the name of an instruction word, ".word" when it has none.   *)
Name(ir) ==
  LET ten == (ir \div 64) % 512                 \* the top ten bits but for the byte bit
      top == (ir \div 4096) % 8
      page == ir \div 256
      byte == IsByte(ir)
  IN CASE ir \in 0..7 -> ZeroNames[ir + 1]
       [] ir \in \o200..\o207 -> "rts"
       [] ir \in \o240..\o277 -> "codes"
       [] ten = \o003 /\ ~byte -> "swab"
       [] ten \in \o050..\o063 -> SingleNames[ten - \o047]
       [] ten = \o064 /\ byte -> "mtps"
       [] ten = \o067 -> IF byte THEN "mfps" ELSE "sxt"
       [] ten = \o001 /\ ~byte /\ Field(ir, 1) # 0 -> "jmp"
       [] ir \div 512 = \o004 -> "jsr"
       [] page = 136 -> "emt"
       [] page = 137 -> "trap"
       [] ir \div 512 = \o077 -> "sob"
       [] page \in 1..7 -> BranchNames[page]
       [] page \in 128..135 -> HighBranchNames[page - 127]
       [] top \in 1..5 -> DoubleNames[top]
       [] top = 6 -> IF byte THEN "sub" ELSE "add"
       [] ir \div 512 = \o074 -> "xor"
       [] OTHER -> ".word"

Dst(ir) == <<Field(ir, 1), Field(ir, 0)>>
Src(ir) == <<Field(ir, 3), Field(ir, 2)>>

Unary == {SingleNames[i] : i \in 1..12} \cup {"swab", "sxt", "mtps", "mfps"}
Binary == {DoubleNames[i] : i \in 1..5} \cup {"add", "sub"}
Conditional == {BranchNames[i] : i \in 1..7} \cup {HighBranchNames[i] : i \in 1..8}

(* The operands with an address, in the order they are printed.             *)
Addressed(name, ir) ==
  CASE name \in Binary -> <<Src(ir), Dst(ir)>>
    [] name \in Unary \cup {"jmp", "jsr", "xor"} -> <<Dst(ir)>>
    [] OTHER -> <<>>

-----------------------------------------------------------------------------
(* decodeOperand: the words of the instruction an operand takes, and the    *)
(* number printed, from the word and the address after it.                  *)

Taken16_NoDeferred(mode, reg) == IF mode \in {6, 7} \/ (mode = 2 /\ reg = PC) THEN 1 ELSE 0   \* mutant
Taken16(mode, reg) == IF mode \in {6, 7} \/ (mode \in {2, 3} /\ reg = PC) THEN 1 ELSE 0

Printed(mode, reg, word, after) ==
  IF reg = PC /\ mode \in {6, 7} THEN To16(after + word) ELSE word

(* decodeBranchTarget                                                       *)
BranchTarget(ir, after) == To16(after + 2 * Signed8(Low(ir)))

(* Disassembler::decode at an address of memory, a function on addresses.   *)
WordsOf(ops, i) == IF i > Len(ops) THEN 0 ELSE Taken16(ops[i][1], ops[i][2])
Operand(op, memory, at) ==
  [mode |-> op[1], reg |-> op[2],
   value |-> IF Taken16(op[1], op[2]) = 0 THEN 0
             ELSE Printed(op[1], op[2], memory[at], at + 2)]
Decoded(ir, name, ops, address, memory) ==
  [name |-> name,
   byte |-> IsByte(ir) /\ name # "sub",
   operands |-> [i \in DOMAIN ops |->
     Operand(ops[i], memory, address + 2 + (IF i = 2 THEN 2 * WordsOf(ops, 1) ELSE 0))],
   target |-> IF name = "sob" THEN To16(address + 2 - 2 * (ir % 64))
              ELSE BranchTarget(ir, address + 2),
   length |-> 2 + 2 * (WordsOf(ops, 1) + WordsOf(ops, 2))]
Decode(address, memory) ==
  LET ir == memory[address]
  IN Decoded(ir, Name(ir), Addressed(Name(ir), ir), address, memory)

-----------------------------------------------------------------------------
(* What the processor is to do by a listing: the instruction of the name    *)
(* printed, on the operands printed, to the address printed.                *)
JumpedTo(formed) == Jumped(formed.s, formed.val)
Listed(s, ir, d) ==
  LET op(i) == d.operands[i]
      left == To16(s.r[Field(ir, 2)] - 1)
      less == SetReg(s, Field(ir, 2), left)
  IN CASE d.name \in Binary ->
            DoubleOperand(s, d.name, d.byte, op(1).mode, op(1).reg, op(2).mode, op(2).reg)
       [] d.name = "xor" -> DoubleOperand(s, "xor", FALSE, 0, Field(ir, 2), op(1).mode, op(1).reg)
       [] d.name = "mtps" -> Mtps(s, ir)
       [] d.name = "mfps" -> Mfps(s, ir)
       [] d.name \in Unary \ {"mtps", "mfps"} -> SingleOperand(s, ir, d.name)
       [] d.name \in Conditional -> IF BranchTaken(d.name, Flags(s)) THEN Jumped(s, d.target) ELSE s
       [] d.name = "sob" -> IF left = 0 THEN less ELSE Jumped(less, d.target)
       [] d.name = "jmp" -> JumpedTo(Address(s, op(1).mode, op(1).reg, FALSE))
       [] d.name = "jsr" -> Jsr(s, ir)
       [] d.name = "rts" -> Rts(s, ir)
       [] d.name = "codes" -> SetCodes(s, ir)
       [] d.name \in {"emt", "trap", "bpt", "iot"} -> Trapping(s, d.name)
       [] d.name = "halt" -> Halt(s)
       [] d.name = "wait" -> [s EXCEPT !.waiting = TRUE]
       [] d.name = "rti" -> Rti(s)
       [] d.name = "rtt" -> Rtt(s)
       [] d.name = "reset" -> s
       [] d.name = "mfpt" -> SetReg(s, 0, 4)
       [] d.name = ".word" -> Trapping(s, "reserved")

(* The address, or for #n the value, that the processor forms of an operand *)
(* through PC, and the machine with the operand's words behind it.          *)
Formed(s, op) ==
  CASE op.mode = 2 -> BusRead(s, s.r[PC], FALSE, FALSE).val
    [] op.mode = 7 -> Indexed(s, PC).val
    [] OTHER -> Address(s, op.mode, PC, FALSE).val
Behind(s, op, byte) == Located(s, op.mode, op.reg, byte).s

=============================================================================
