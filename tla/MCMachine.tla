------------------------------- MODULE MCMachine -------------------------------
(***************************************************************************)
(* Guests for the machine: small programs in the machine's own code, as an  *)
(* assembler leaves it from 01000 on, with what each is to compute.  Their  *)
(* inputs are the words at 02000 (X) and 02002 (Y), their answers begin at  *)
(* 02010 (O).  All share the service of the frame's interrupt, at FRAME,    *)
(* which leaves other condition codes than it found: COM @#02060 | ADC      *)
(* @#02062 | RTI, at priority 6.                                            *)
(***************************************************************************)
EXTENDS Machine, FiniteSetsExt

MCBlank == [i \in 0..(3 * HD_BLOCK_SIZE - 1) |-> i + 1]

(* Words in order from 01000.                                               *)
Code(words) ==
  [a \in {Origin + 2 * (i - 1) : i \in DOMAIN words} |-> words[((a - Origin) \div 2) + 1]]

(* One frame, one snapshot, no ticks, no disk.                              *)
Plain(words, frame, inputs, out, end) ==
  [code |-> (\o100 :> frame) @@ (\o102 :> \o300) @@ Code(words), rom |-> <<>>,
   inputs |-> inputs, out |-> out, end |-> end, mark |-> 0,
   frames |-> 1, ticks |-> 0, snap |-> TRUE, medium |-> "none", listing |-> FALSE]

Some == {1, 32768, 65407}
Words(n) == [i \in 1..n |-> \o2010 + 2 * (i - 1)]
-----------------------------------------------------------------------------

(* CMP and every conditional branch, on codes kept by MFPS and given        *)
(* back by MTPS; CMPB by autoincrement.                                     *)
CompareGuest ==
  LET words == <<
    \o23737, \o2000, \o2002, \o106701, \o5000, \o106401, \* CMP @#X,@#Y | MFPS R1 | CLR R0 | MTPS R1
    \o1002, \o52700, \o1, \o106401, \o1402,            \* BNE L0 | BIS #1,R0 | L0: MTPS R1 | BEQ L1
    \o52700, \o2, \o106401, \o100002, \o52700, \o4,    \* BIS #2,R0 | L1: MTPS R1 | BPL L2 | BIS #4,R0
    \o106401, \o100402, \o52700, \o10, \o106401, \o102002, \* L2: MTPS R1 | BMI L3 | BIS #10,R0 | L3: MTPS R1 | BVC L4
    \o52700, \o20, \o106401, \o102402, \o52700, \o40,  \* BIS #20,R0 | L4: MTPS R1 | BVS L5 | BIS #40,R0
    \o106401, \o2002, \o52700, \o100, \o106401, \o2402, \* L5: MTPS R1 | BGE L6 | BIS #100,R0 | L6: MTPS R1 | BLT L7
    \o52700, \o200, \o106401, \o3002, \o52700, \o400,  \* BIS #200,R0 | L7: MTPS R1 | BGT L8 | BIS #400,R0
    \o106401, \o3402, \o52700, \o1000, \o106401, \o101002, \* L8: MTPS R1 | BLE L9 | BIS #1000,R0 | L9: MTPS R1 | BHI L10
    \o52700, \o2000, \o106401, \o101402, \o52700, \o4000, \* BIS #2000,R0 | L10: MTPS R1 | BLOS L11 | BIS #4000,R0
    \o106401, \o103002, \o52700, \o10000, \o106401, \o103402, \* L11: MTPS R1 | BHIS L12 | BIS #10000,R0 | L12: MTPS R1 | BLO L13
    \o52700, \o20000, \o10037, \o2010, \o12703, \o2000, \* BIS #20000,R0 | L13: MOV R0,@#O | MOV #X,R3
    \o12702, \o2002, \o122322, \o3402, \o5137, \o2010, \* MOV #Y,R2 | CMPB (R3)+,(R2)+ | BLE M1 | COM @#O
    \o121337, \o2003, \o101001, \o402, \o5437, \o2010, \* M1: CMPB (R3),@#Y+1 | BHI M2 | BR END | M2: NEG @#O
    \o777, \o5137, \o2060, \o5537, \o2062, \o2         \* END: BR END | FRAME: COM @#N | ADC @#T | RTI
    >>
  IN Plain(words, \o1234, {0, 255, 32767, 32768} \X {1, 255, 32768, 65535}, Words(1), \o1232)

(* sums, differences and negations of two words, and of a word by its       *)
(* bytes, through carries.                                                  *)
SumsGuest ==
  LET words == <<
    \o13700, \o2000, \o13701, \o2002, \o10102, \o10003, \* MOV @#X,R0 | MOV @#Y,R1 | MOV R1,R2 | MOV R0,R3
    \o60301, \o5500, \o60200, \o10037, \o2010,         \* ADD R3,R1 | ADC R0 | ADD R2,R0 | MOV R0,@#O
    \o10137, \o2012, \o13700, \o2000, \o13701, \o2002, \* MOV R1,@#O+2 | MOV @#X,R0 | MOV @#Y,R1
    \o160301, \o5600, \o160200, \o10037, \o2014,       \* SUB R3,R1 | SBC R0 | SUB R2,R0 | MOV R0,@#O+4
    \o10137, \o2016, \o5402, \o5403, \o5602,           \* MOV R1,@#O+6 | NEG R2 | NEG R3 | SBC R2
    \o10237, \o2020, \o10337, \o2022, \o105437, \o2001, \* MOV R2,@#O+10 | MOV R3,@#O+12 | NEGB @#X+1
    \o105437, \o2000, \o105637, \o2001,                \* NEGB @#X | SBCB @#X+1
    \o13737, \o2000, \o2024, \o261, \o105537, \o2002,  \* MOV @#X,@#O+14 | SEC | ADCB @#Y
    \o105537, \o2003, \o13737, \o2002, \o2026, \o777,  \* ADCB @#Y+1 | MOV @#Y,@#O+16 | END: BR END
    \o5137, \o2060, \o5537, \o2062, \o2                \* FRAME: COM @#N | ADC @#T | RTI
    >>
  IN Plain(words, \o1142, Some \X {0, 4660, 65535}, Words(8), \o1140)

(* BVC after INC, DEC, ADD, SUB, NEG, ASL, ADC, SBC, INCB and DECB.         *)
OverflowGuest ==
  LET words == <<
    \o5005, \o13700, \o2000, \o5200, \o102002,         \* CLR R5 | MOV @#X,R0 | INC R0 | BVC A1
    \o52705, \o1, \o5300, \o5300, \o102002,            \* BIS #1,R5 | A1: DEC R0 | DEC R0 | BVC A2
    \o52705, \o2, \o5200, \o63700, \o2002, \o102002,   \* BIS #2,R5 | A2: INC R0 | ADD @#Y,R0 | BVC A3
    \o52705, \o4, \o13700, \o2000, \o163700, \o2002,   \* BIS #4,R5 | A3: MOV @#X,R0 | SUB @#Y,R0
    \o102002, \o52705, \o10, \o13700, \o2000, \o5400,  \* BVC A4 | BIS #10,R5 | A4: MOV @#X,R0 | NEG R0
    \o102002, \o52705, \o20, \o13700, \o2000, \o6300,  \* BVC A5 | BIS #20,R5 | A5: MOV @#X,R0 | ASL R0
    \o102002, \o52705, \o40, \o13700, \o2000, \o261,   \* BVC A6 | BIS #40,R5 | A6: MOV @#X,R0 | SEC
    \o5500, \o102002, \o52705, \o100, \o13700, \o2000, \* ADC R0 | BVC A7 | BIS #100,R5 | A7: MOV @#X,R0
    \o261, \o5600, \o102002, \o52705, \o200,           \* SEC | SBC R0 | BVC A8 | BIS #200,R5
    \o113700, \o2000, \o105200, \o102002, \o52705, \o400, \* A8: MOVB @#X,R0 | INCB R0 | BVC A9 | BIS #400,R5
    \o113737, \o2000, \o2064, \o105337, \o2064, \o102002, \* A9: MOVB @#X,@#N+4 | DECB @#N+4 | BVC A10
    \o52705, \o1000, \o10537, \o2010, \o777,           \* BIS #1000,R5 | A10: MOV R5,@#O | END: BR END
    \o5137, \o2060, \o5537, \o2062, \o2                \* FRAME: COM @#N | ADC @#T | RTI
    >>
  IN Plain(words, \o1210, {0, 127, 128, 32767, 32768} \X {1, 32768}, Words(1), \o1206)

(* shifts of two words and of a word by its bytes; SWAB, SXT and the        *)
(* logical operations.                                                      *)
ShiftsGuest ==
  LET words == <<
    \o13700, \o2000, \o13701, \o2002, \o6200, \o6001,  \* MOV @#X,R0 | MOV @#Y,R1 | ASR R0 | ROR R1
    \o10037, \o2010, \o10137, \o2012, \o6301, \o6100,  \* MOV R0,@#O | MOV R1,@#O+2 | ASL R1 | ROL R0
    \o10037, \o2014, \o10137, \o2016,                  \* MOV R0,@#O+4 | MOV R1,@#O+6
    \o13737, \o2000, \o2020, \o106337, \o2020,         \* MOV @#X,@#O+10 | ASLB @#O+10
    \o106137, \o2021, \o13737, \o2000, \o2022,         \* ROLB @#O+11 | MOV @#X,@#O+12
    \o106237, \o2023, \o106037, \o2022, \o13700, \o2000, \* ASRB @#O+13 | RORB @#O+12 | MOV @#X,R0
    \o300, \o10037, \o2024, \o5737, \o2000,            \* SWAB R0 | MOV R0,@#O+14 | TST @#X
    \o6737, \o2026, \o13700, \o2000, \o43700, \o2002,  \* SXT @#O+16 | MOV @#X,R0 | BIC @#Y,R0
    \o10037, \o2030, \o13700, \o2000, \o53700, \o2002, \* MOV R0,@#O+20 | MOV @#X,R0 | BIS @#Y,R0
    \o10037, \o2032, \o13700, \o2000, \o13701, \o2002, \* MOV R0,@#O+22 | MOV @#X,R0 | MOV @#Y,R1
    \o74001, \o5101, \o10137, \o2034,                  \* XOR R0,R1 | COM R1 | MOV R1,@#O+24
    \o133737, \o2000, \o2002, \o1403,                  \* BITB @#X,@#Y | BEQ B1
    \o152737, \o1, \o2036, \o33737, \o2000, \o2002,    \* BISB #1,@#O+26 | B1: BIT @#X,@#Y
    \o1403, \o52737, \o2, \o2036, \o105137, \o2000,    \* BEQ B2 | BIS #2,@#O+26 | B2: COMB @#X
    \o143737, \o2000, \o2002, \o13737, \o2002, \o2040, \* BICB @#X,@#Y | MOV @#Y,@#O+30
    \o777, \o5137, \o2060, \o5537, \o2062, \o2         \* END: BR END | FRAME: COM @#N | ADC @#T | RTI
    >>
  IN Plain(words, \o1244, (Some \cup {4660}) \X {43775, 65535}, Words(13), \o1242)

(* the product of two bytes, by shifting and adding.                        *)
MultiplyGuest ==
  LET words == <<
    \o13701, \o2000, \o42701, \o177400, \o13702, \o2002, \* MOV @#X,R1 | BIC #177400,R1 | MOV @#Y,R2
    \o42702, \o177400, \o5000, \o12703, \o10, \o6202,  \* BIC #177400,R2 | CLR R0 | MOV #10,R3 | L: ASR R2
    \o103001, \o60100, \o6301, \o77305, \o10037, \o2010, \* BCC S | ADD R1,R0 | S: ASL R1 | SOB R3,L | MOV R0,@#O
    \o777, \o5137, \o2060, \o5537, \o2062, \o2         \* END: BR END | FRAME: COM @#N | ADC @#T | RTI
    >>
  IN Plain(words, \o1046, {0, 3, 255} \X {1, 170, 255}, Words(1), \o1044)

(* the quotient and the remainder of two words, by shifting and             *)
(* subtracting.                                                             *)
DivideGuest ==
  LET words == <<
    \o13701, \o2000, \o13702, \o2002, \o5000,          \* MOV @#X,R1 | MOV @#Y,R2 | CLR R0
    \o12703, \o20, \o6301, \o6100, \o20002, \o103402,  \* MOV #20,R3 | L: ASL R1 | ROL R0 | CMP R0,R2 | BLO S
    \o160200, \o5201, \o5303, \o1370, \o10137, \o2010, \* SUB R2,R0 | INC R1 | S: DEC R3 | BNE L | MOV R1,@#O
    \o10037, \o2012, \o777, \o5137, \o2060,            \* MOV R0,@#O+2 | END: BR END | FRAME: COM @#N
    \o5537, \o2062, \o2                                \* ADC @#T | RTI
    >>
  IN Plain(words, \o1050, {7, 50000, 65535} \X {1, 10, 32768}, Words(2), \o1046)

(* a string copied to an odd address and summed with its sign; bytes on     *)
(* the stack.                                                               *)
BytesGuest ==
  LET words == <<
    \o12701, \o2000, \o12702, \o2011,                  \* MOV #X,R1 | MOV #O+1,R2
    \o112737, \o4, \o2064, \o5004, \o112100, \o60004,  \* MOVB #4,@#N+4 | CLR R4 | L: MOVB (R1)+,R0 | ADD R0,R4
    \o110022, \o105337, \o2064, \o1372, \o10437, \o2016, \* MOVB R0,(R2)+ | DECB @#N+4 | BNE L | MOV R4,@#O+6
    \o114146, \o124216, \o1007, \o12600,               \* MOVB -(R1),-(SP) | CMPB -(R2),(SP) | BNE BAD | MOV (SP)+,R0
    \o112146, \o112637, \o2020, \o10637, \o2022, \o402, \* MOVB (R1)+,-(SP) | MOVB (SP)+,@#O+10 | MOV SP,@#O+12 | BR END
    \o5037, \o2016, \o777, \o5137, \o2060,             \* BAD: CLR @#O+6 | END: BR END | FRAME: COM @#N
    \o5537, \o2062, \o2                                \* ADC @#T | RTI
    >>
  IN Plain(words, \o1072, Some \X {4660, 33023}, Words(6), \o1070)

(* the addressing modes; a source register that the destination steps.      *)
ModesGuest ==
  LET words == <<
    \o12701, \o1070, \o13100, \o67100, \o0,            \* MOV #TAB,R1 | MOV @(R1)+,R0 | ADD @(R1),R0
    \o12702, \o1074, \o65200, \o16204, \o177776, \o61400, \* MOV #TAB+4,R2 | ADD @-(R2),R0 | MOV -2(R2),R4 | ADD (R4),R0
    \o10037, \o2010, \o12703, \o2012, \o10323,         \* MOV R0,@#O | MOV #O+2,R3 | MOV R3,(R3)+
    \o12703, \o2024, \o10343, \o5271, \o2,             \* MOV #O+14,R3 | MOV R3,-(R3) | INC @2(R1)
    \o13737, \o2000, \o2014, \o10737, \o2016,          \* MOV @#X,@#O+4 | HERE: MOV PC,@#O+6
    \o137, \o1076, \o2000, \o2002, \o2000, \o777,      \* JMP @#END | TAB: .WORD X | .WORD Y | .WORD X | END: BR END
    \o5137, \o2060, \o5537, \o2062, \o2                \* FRAME: COM @#N | ADC @#T | RTI
    >>
  IN Plain(words, \o1100, {<<4660, 7>>}, Words(6), \o1076)

(* arguments after the call and on the stack, a call in a call, and         *)
(* coroutines.                                                              *)
CallsGuest ==
  LET words == <<
    \o13746, \o2000, \o4537, \o1050, \o2002, \o2010,   \* MOV @#X,-(SP) | JSR R5,@#SUM | .WORD Y | .WORD O
    \o12637, \o2012, \o12746, \o1074, \o4736,          \* MOV (SP)+,@#O+2 | MOV #CO,-(SP) | JSR PC,@(SP)+
    \o5237, \o2014, \o4736, \o12600, \o10637, \o2016,  \* INC @#O+4 | JSR PC,@(SP)+ | MOV (SP)+,R0 | MOV SP,@#O+6
    \o12701, \o1114, \o111, \o13500, \o66600, \o2,     \* MOV #END,R1 | JMP (R1) | SUM: MOV @(R5)+,R0 | ADD 2(SP),R0
    \o10035, \o4737, \o1066, \o205, \o6366, \o4,       \* MOV R0,@(R5)+ | JSR PC,@#TWICE | RTS R5 | TWICE: ASL 4(SP)
    \o207, \o62737, \o2, \o2014, \o4736,               \* RTS PC | CO: ADD #2,@#O+4 | JSR PC,@(SP)+
    \o6337, \o2014, \o176, \o0, \o777,                 \* ASL @#O+4 | JMP @(SP) | END: BR END
    \o5137, \o2060, \o5537, \o2062, \o2                \* FRAME: COM @#N | ADC @#T | RTI
    >>
  IN Plain(words, \o1116, {4660, 40000} \X {7}, Words(4), \o1114)

(* the traps: EMT and TRAP read their number from the code; the T bit       *)
(* traces; HALT goes through the ROM.                                       *)
TrapsGuest ==
  LET words == <<
    \o104005, \o104407, \o4, \o3, \o101, \o170000,     \* EMT 5 | TRAP 7 | IOT | BPT | JMP R1 | .WORD 170000
    \o12746, \o20, \o12746, \o1026, \o2, \o240,        \* MOV #20,-(SP) | MOV #TR,-(SP) | RTI | TR: NOP
    \o5237, \o2014, \o240, \o5237, \o2014, \o0,        \* INC @#O+4 | NOP | INC @#O+4 | HALT
    \o10637, \o2016, \o777, \o10046, \o16600, \o2,     \* MOV SP,@#O+6 | END: BR END | HANDLE: MOV R0,-(SP) | MOV 2(SP),R0
    \o114037, \o2064, \o114000, \o60037, \o2010, \o12600, \* MOVB -(R0),@#N+4 | MOVB -(R0),R0 | ADD R0,@#O | MOV (SP)+,R0
    \o2, \o62737, \o100, \o2010, \o2,                  \* RTI | COUNT: ADD #100,@#O | RTI
    \o5237, \o2012, \o32766, \o20, \o2, \o1766,        \* TRACE: INC @#O+2 | BIT #20,2(SP) | BEQ COUNT
    \o23727, \o2012, \o3, \o1003,                      \* CMP @#O+2,#3 | BNE OUT
    \o42766, \o20, \o2, \o6, \o5137, \o2060,           \* BIC #20,2(SP) | OUT: RTT | FRAME: COM @#N
    \o5537, \o2062, \o2                                \* ADC @#T | RTI
    >>
  IN [ Plain(words, \o1142, {<<0, 0>>}, Words(4), \o1050)
      EXCEPT !.code = (\o10 :> \o1076) @@ (\o14 :> \o1106) @@ (\o20 :> \o1076) @@ (\o30 :> \o1052) @@ (\o34 :> \o1052) @@ @,
             !.rom = (13316 :> 2)]

(* waiting for the frame, asked for and looked for; the status by MTPS,     *)
(* MFPS, SCC and CCC.                                                       *)
WaitGuest ==
  LET words == <<
    \o5737, \o2062, \o1002, \o1, \o773,                \* L: TST @#T | BNE GOT | WAIT | BR L
    \o106427, \o340, \o106700, \o10037, \o2010,        \* GOT: MTPS #340 | MFPS R0 | MOV R0,@#O
    \o106427, \o0, \o277, \o106737, \o2014, \o257,     \* MTPS #0 | SCC | MFPS @#O+4 | CCC
    \o106701, \o10137, \o2016, \o7, \o10037, \o2012,   \* MFPS R1 | MOV R1,@#O+6 | MFPT | MOV R0,@#O+2
    \o777, \o5137, \o2060, \o5537, \o2062, \o2         \* END: BR END | FRAME: COM @#N | ADC @#T | RTI
    >>
  IN [ Plain(words, \o1056, {<<0, 0>>}, Words(4), \o1054)
      EXCEPT !.frames = 0]

(* a count latched and read in two bytes, the counter at the borrow         *)
(* between them.                                                            *)
LatchGuest ==
  LET words == <<
    \o112737, \o64, \o177526, \o112737, \o2, \o177520, \* MOVB #64,@#177526 | MOVB #2,@#177520
    \o112737, \o1, \o177520, \o112737, \o0, \o177526,  \* MOVB #1,@#177520 | MARK: MOVB #0,@#177526
    \o113737, \o177500, \o2010, \o113737, \o177500, \o2011, \* MOVB @#177500,@#O | MOVB @#177500,@#O+1
    \o777, \o5137, \o2060, \o5537, \o2062, \o2         \* END: BR END | FRAME: COM @#N | ADC @#T | RTI
    >>
  IN [ Plain(words, \o1046, {<<0, 0>>}, Words(1), \o1044)
      EXCEPT !.mark = \o1022, !.ticks = 4]

(* a latch between the halves of a read starts it over.                     *)
HalfGuest ==
  LET words == <<
    \o112737, \o64, \o177526, \o112737, \o2, \o177520, \* MOVB #64,@#177526 | MOVB #2,@#177520
    \o112737, \o1, \o177520, \o112737, \o0, \o177526,  \* MOVB #1,@#177520 | MOVB #0,@#177526
    \o113700, \o177500, \o112737, \o0, \o177526,       \* MOVB @#177500,R0 | MARK: MOVB #0,@#177526
    \o13737, \o177500, \o2010, \o777, \o5137, \o2060,  \* MOV @#177500,@#O | END: BR END | FRAME: COM @#N
    \o5537, \o2062, \o2                                \* ADC @#T | RTI
    >>
  IN [ Plain(words, \o1052, {<<0, 0>>}, Words(1), \o1050)
      EXCEPT !.mark = \o1034, !.ticks = 4]

(* channel 2 stands while its gate is closed.                               *)
GateGuest ==
  LET words == <<
    \o12737, \o264, \o177526, \o12737, \o5, \o177524,  \* MOV #264,@#177526 | MOV #5,@#177524
    \o12737, \o0, \o177524, \o5037, \o177604,          \* MOV #0,@#177524 | CLR @#177604
    \o12737, \o200, \o177526, \o13700, \o177504,       \* MOV #200,@#177526 | MOV @#177504,R0
    \o12737, \o200, \o177526, \o13701, \o177504, \o160100, \* MOV #200,@#177526 | MOV @#177504,R1 | SUB R1,R0
    \o10037, \o2010, \o112737, \o17, \o177606,         \* MOV R0,@#O | MOVB #17,@#177606
    \o113737, \o177604, \o2012, \o777, \o5137, \o2060, \* MOVB @#177604,@#O+2 | END: BR END | FRAME: COM @#N
    \o5537, \o2062, \o2                                \* ADC @#T | RTI
    >>
  IN [ Plain(words, \o1076, {<<0, 0>>}, Words(2), \o1074)
      EXCEPT !.ticks = 4]

(* two pages of the RAM disk written, the first byte at the mirror, and     *)
(* read back.                                                               *)
PageGuest ==
  LET words == <<
    \o5137, \o2000, \o13737, \o2000, \o2004,           \* COM @#X | MOV @#X,@#X+4
    \o5137, \o2000, \o12701, \o2000, \o12702, \o2010,  \* COM @#X | MOV #X,R1 | MOV #O,R2
    \o112737, \o200, \o177536, \o5003, \o110337, \o177530, \* MOVB #200,@#177536 | CLR R3 | L: MOVB R3,@#177530
    \o112737, \o240, \o177532, \o112737, \o200, \o177532, \* MOVB #240,@#177532 | MOVB #200,@#177532
    \o112137, \o177570, \o112137, \o177550, \o112137, \o177550, \* MOVB (R1)+,@#177570 | MOVB (R1)+,@#177550 | MOVB (R1)+,@#177550
    \o112137, \o177550, \o5203, \o20327, \o2, \o1354,  \* MOVB (R1)+,@#177550 | INC R3 | CMP R3,#2 | BNE L
    \o5003, \o110337, \o177530, \o112737, \o240, \o177532, \* CLR R3 | K: MOVB R3,@#177530 | MOVB #240,@#177532
    \o112737, \o200, \o177532, \o12700, \o4,           \* MOVB #200,@#177532 | MOV #4,R0
    \o113722, \o177550, \o77003, \o5203, \o20327, \o2, \* J: MOVB @#177550,(R2)+ | SOB R0,J | INC R3 | CMP R3,#2
    \o1357, \o777, \o5137, \o2060, \o5537, \o2062,     \* BNE K | END: BR END | FRAME: COM @#N | ADC @#T
    \o2                                                \* RTI
    >>
  IN Plain(words, \o1154, {<<4660, 43981>>}, Words(4), \o1152)

(* a primary and an extended bank, the video window and the two extents     *)
(* of the ROM.                                                              *)
BanksGuest ==
  LET words == <<
    \o12701, \o60000, \o13711, \o2000,                 \* MOV #60000,R1 | MOV @#X,(R1)
    \o42737, \o10, \o177400, \o13711, \o2002,          \* BIC #10,@#177400 | MOV @#Y,(R1)
    \o11137, \o2010, \o52737, \o10, \o177400,          \* MOV (R1),@#O | BIS #10,@#177400
    \o11137, \o2012, \o52737, \o2200, \o177400, \o5111, \* MOV (R1),@#O+2 | BIS #2200,@#177400 | COM (R1)
    \o112761, \o252, \o1, \o11137, \o2014,             \* MOVB #252,1(R1) | MOV (R1),@#O+4
    \o142737, \o200, \o177400, \o11137, \o2016,        \* BICB #200,@#177400 | MOV (R1),@#O+6
    \o12702, \o160000, \o5212, \o11237, \o2020,        \* MOV #160000,R2 | INC (R2) | MOV (R2),@#O+10
    \o112737, \o200, \o177600, \o13737, \o140000, \o2022, \* MOVB #200,@#177600 | MOV @#140000,@#O+12
    \o777, \o5137, \o2060, \o5537, \o2062, \o2         \* END: BR END | FRAME: COM @#N | ADC @#T | RTI
    >>
  IN [ Plain(words, \o1124, {<<4660, 43981>>}, Words(6), \o1122)
      EXCEPT !.rom = (0 :> 302) @@ (8192 :> 83)]

(* words of the hard disk written and read back, and its size.              *)
DiskGuest ==
  LET words == <<
    \o12704, \o177722, \o12705, \o177720, \o13714, \o2000, \* MOV #177722,R4 | MOV #177720,R5 | MOV @#X,(R4)
    \o12715, \o2, \o12714, \o2020, \o12715, \o3,       \* MOV #2,(R5) | MOV #2020,(R4) | MOV #3,(R5)
    \o13714, \o2002, \o12715, \o4, \o12715, \o6,       \* MOV @#Y,(R4) | MOV #4,(R5) | MOV #6,(R5)
    \o11537, \o2010, \o12714, \o2040, \o12715, \o3,    \* MOV (R5),@#O | MOV #2040,(R4) | MOV #3,(R5)
    \o112715, \o5, \o11537, \o2012, \o12715, \o7,      \* MOVB #5,(R5) | MOV (R5),@#O+2 | MOV #7,(R5)
    \o11437, \o2014, \o777, \o5137, \o2060,            \* MOV (R4),@#O+4 | END: BR END | FRAME: COM @#N
    \o5537, \o2062, \o2                                \* ADC @#T | RTI
    >>
  IN [ Plain(words, \o1102, (0..3) \X (0..3), Words(3) \o <<\o2040, \o2042, \o2044>>, \o1100)
      EXCEPT !.medium = "image", !.snap = FALSE,
             !.code = (\o2020 :> 4660) @@ (\o2022 :> 22136) @@ (\o2024 :> 39612) @@ @]

(* nothing, over which every instruction word is listed.                    *)
IdleGuest ==
  [Plain(<<\o777>>, \o1002, (0..255) \X {0}, <<>>, \o1000) EXCEPT !.listing = TRUE]   \* END: BR END

MCGuests ==
  [g \in {"compare", "sums", "overflow", "shifts", "multiply", "divide", "bytes", "modes", "calls",
         "traps", "wait", "latch", "half", "gate", "page", "banks", "disk", "folder", "idle"} |->
     CASE g = "compare" -> CompareGuest
       [] g = "sums" -> SumsGuest
       [] g = "overflow" -> OverflowGuest
       [] g = "shifts" -> ShiftsGuest
       [] g = "multiply" -> MultiplyGuest
       [] g = "divide" -> DivideGuest
       [] g = "bytes" -> BytesGuest
       [] g = "modes" -> ModesGuest
       [] g = "calls" -> CallsGuest
       [] g = "traps" -> TrapsGuest
       [] g = "wait" -> WaitGuest
       [] g = "latch" -> LatchGuest
       [] g = "half" -> HalfGuest
       [] g = "gate" -> GateGuest
       [] g = "page" -> PageGuest
       [] g = "banks" -> BanksGuest
       [] g = "disk" -> DiskGuest
       [] g = "folder" -> [DiskGuest EXCEPT !.medium = "backend"]
       [] g = "idle" -> IdleGuest
  ]

-----------------------------------------------------------------------------
(* The answers *)

Int16(x) == IF x >= 32768 THEN x - 65536 ELSE x
Int8(x) == IF x >= 128 THEN x - 256 ELSE x
Mod16(x) == x % 65536
High(x) == x \div 256
When(b, x) == IF b THEN x ELSE 0
InWord(x) == x \in -32768..32767
AsrOf(x) == Mod16(Int16(x) \div 2)
ByBit(x, y, f(_, _)) == FoldSet(LAMBDA i, sum : sum + 2^i * f(BitOf(x, i), BitOf(y, i)), 0, 0..15)
Both(a, b) == When(a /\ b, 1)
Either(a, b) == When(a \/ b, 1)
Differ(a, b) == When(a # b, 1)

(* The branches not taken after CMP x, y; then what the bytes' order makes. *)
Compared(x, y) ==
  LET d == Mod16(x - y)
      sx == Int16(x)
      sy == Int16(y)
      taken == <<x # y, x = y, Int16(d) >= 0, Int16(d) < 0, InWord(sx - sy), ~InWord(sx - sy),
                 sx >= sy, sx < sy, sx > sy, sx <= sy, x > y, x <= y, x >= y, x < y>>
      word == FoldSet(LAMBDA i, sum : sum + When(~taken[i], 2^(i - 1)), 0, DOMAIN taken)
      lower == IF Int8(x % 256) <= Int8(y % 256) THEN word ELSE 65535 - word
  IN IF High(x) > High(y) THEN Mod16(-lower) ELSE lower

(* Pairs of words, high word first.                                         *)
Sums(x, y) ==
  <<Mod16(x + y + When(x + y > 65535, 1)), Mod16(x + y),
    Mod16(x - y - When(y < x, 1)), Mod16(y - x),
    Mod16(-y - When(x # 0, 1)), Mod16(-x), Mod16(-x), Mod16(y + 1)>>

Overflows(x, y) ==
  LET sx == Int16(x)
      over == <<sx + 1, sx - 1, sx + Int16(y), sx - Int16(y), -sx, 2 * sx, sx + 1, sx - 1>>
  IN FoldSet(LAMBDA i, sum : sum + When(~InWord(over[i]), 2^(i - 1)), 0, DOMAIN over)
       + When(x % 256 = 127, 256) + When(x % 256 = 128, 512)

Shifts(x, y) ==
  <<AsrOf(x), y \div 2 + When(x % 2 = 1, 32768), x, y - (y % 2), Mod16(2 * x), AsrOf(x),
    (x % 256) * 256 + High(x), When(x >= 32768, 65535),
    x - ByBit(x, y, Both), ByBit(x, y, Either), 65535 - ByBit(x, y, Differ),
    When(ByBit(x % 256, y % 256, Both) # 0, 1) + When(ByBit(x, y, Both) # 0, 2),
    High(y) * 256 + ByBit(x % 256, y % 256, Both)>>

(* The string goes to 02011; the sum, a byte from the stack, the stack.     *)
Bytes4(x, y) ==
  LET sum == Mod16(Int8(x % 256) + Int8(High(x)) + Int8(y % 256) + Int8(High(y)))
  IN <<(x % 256) * 256, High(x) + 256 * (y % 256), High(y), sum, High(y), Origin>>

Fits(b, w) == b * HD_BLOCK_SIZE + 2 * w <= 3 * HD_BLOCK_SIZE
DiskWords == <<4660, 22136, 39612>>

MCAnswer(g, in) ==
  LET x == in[1]
      y == in[2]
      complement == 65535 - x
  IN CASE g = "compare" -> <<Compared(x, y)>>
       [] g = "sums" -> Sums(x, y)
       [] g = "overflow" -> <<Overflows(x, y)>>
       [] g = "shifts" -> Shifts(x, y)
       [] g = "multiply" -> <<x * y>>
       [] g = "divide" -> <<x \div y, x % y>>
       [] g = "bytes" -> Bytes4(x, y)
       [] g = "modes" -> <<Mod16(2 * (x + y)), \o2014, Mod16(x + 1), \o1064, 0, \o2022>>
       [] g = "calls" -> <<Mod16(x + y), Mod16(2 * x), 6, Origin>>
       [] g = "traps" -> <<12 + 4 * 64, 3, 2, Origin>>
       [] g = "wait" -> <<65504, 4, 15, 0>>
       [] g \in {"latch", "half"} -> <<WordOf(\o2010)>>       \* LatchCoherent's
       [] g = "gate" -> <<0, 128>>
       [] g = "idle" -> <<>>
       [] g = "page" -> <<x, y, complement, 0>>
       [] g = "banks" -> <<y, x, 43775, x, 83, 302>>
       [] g \in {"disk", "folder"} ->
            LET status == IF Fits(x, y) THEN READY ELSE READY + ERROR
            IN <<status, status, 3>> \o [i \in 1..3 |-> IF i <= y /\ Fits(x, y) THEN DiskWords[i] ELSE 0]

=============================================================================
