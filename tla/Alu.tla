--------------------------------- MODULE Alu ---------------------------------
(***************************************************************************)
(* The arithmetic of the KR1807VM1's instructions (core/src/cpu_ops.c): for *)
(* each operation its result and the condition codes it leaves, over words  *)
(* and bytes alike.  A width is given by h, half the number of its values:  *)
(* 2^15 for a word, 2^7 for a byte; the sign bit of x is set when x >= h.   *)
(***************************************************************************)
EXTENDS Integers

Neg(h, x) == x >= h
Signed(h, x) == IF Neg(h, x) THEN x - 2 * h ELSE x
Wrap(h, x) == x % (2 * h)

(* A result with N and Z set from it (set_nz_word, set_nz_byte).            *)
Result(h, x, v, c) == [val |-> x, n |-> Neg(h, x), z |-> x = 0, v |-> v, c |-> c]

(* A shift's V is N xor C.                                                  *)
Shifted(h, x, c) == Result(h, x, Neg(h, x) # c, c)

Bool(b) == IF b THEN 1 ELSE 0
Odd(x) == x % 2 = 1
BitOf(x, i) == (x \div 2^i) % 2 = 1

(* Bit by bit, for the logical operations of 16 bits.                       *)
Bits(x, y, f(_, _)) ==
  LET upTo[i \in 0..16] ==
        IF i = 0 THEN 0
        ELSE upTo[i - 1] + 2^(i - 1) * f((x \div 2^(i - 1)) % 2, (y \div 2^(i - 1)) % 2)
  IN upTo[16]
And(x, y) == Bits(x, y, LAMBDA a, b : a * b)
AndNot(x, y) == Bits(x, y, LAMBDA a, b : a * (1 - b))
Or(x, y) == Bits(x, y, LAMBDA a, b : IF a + b > 0 THEN 1 ELSE 0)
Xor(x, y) == Bits(x, y, LAMBDA a, b : (a + b) % 2)

-----------------------------------------------------------------------------
(* One operand; c is the carry the operation finds.                         *)

Clr(h, x, c) == Result(h, 0, FALSE, FALSE)
Com(h, x, c) == Result(h, 2 * h - 1 - x, FALSE, TRUE)
Inc(h, x, c) == Result(h, Wrap(h, x + 1), x = h - 1, c)
Dec(h, x, c) == Result(h, Wrap(h, x - 1), x = h, c)
Tst(h, x, c) == Result(h, x, FALSE, FALSE)
Negate(h, x, c) == LET r == Wrap(h, -x) IN Result(h, r, r = h, r # 0)

Asr(h, x, c) == Shifted(h, x \div 2 + (IF Neg(h, x) THEN h ELSE 0), Odd(x))
Asl(h, x, c) == Shifted(h, Wrap(h, 2 * x), Neg(h, x))
Ror(h, x, c) == Shifted(h, x \div 2 + (IF c THEN h ELSE 0), Odd(x))
Rol(h, x, c) == Shifted(h, Wrap(h, 2 * x + Bool(c)), Neg(h, x))

Adc(h, x, c) == Result(h, Wrap(h, x + Bool(c)), c /\ x = h - 1, c /\ x = 2 * h - 1)

(* V whenever the operand is the most negative, carry or no carry.          *)
Sbc(h, x, c) == Result(h, Wrap(h, x - Bool(c)), x = h, c /\ x = 0)

(* SWAB's codes are of the low byte it leaves.                              *)
Swab(x) ==
  LET low == x \div 256
  IN [val |-> (x % 256) * 256 + low, n |-> Neg(128, low), z |-> low = 0, v |-> FALSE, c |-> FALSE]

Sxt(n, c) == Result(32768, IF n THEN 65535 ELSE 0, FALSE, c)

-----------------------------------------------------------------------------
(* Two operands, source s and destination d.                                *)

Mov(h, s, d, c) == Result(h, s, FALSE, c)
Bit(h, s, d, c) == Result(h, And(s, d), FALSE, c)
Bic(h, s, d, c) == Result(h, AndNot(d, s), FALSE, c)
Bis(h, s, d, c) == Result(h, Or(s, d), FALSE, c)
Exclusive(h, s, d, c) == Result(h, Xor(s, d), FALSE, c)

(* CMP is source minus destination, SUB destination minus source.           *)
Cmp(h, s, d, c) ==
  LET r == Wrap(h, s - d)
  IN Result(h, r, Neg(h, s) # Neg(h, d) /\ Neg(h, s) # Neg(h, r), s < d)

Add(h, s, d, c) ==
  LET r == Wrap(h, s + d)
  IN Result(h, r, Neg(h, s) = Neg(h, d) /\ Neg(h, s) # Neg(h, r), s + d > 2 * h - 1)

Sub(h, s, d, c) ==
  LET r == Wrap(h, d - s)
  IN Result(h, r, Neg(h, d) # Neg(h, s) /\ Neg(h, s) = Neg(h, r), d < s)

-----------------------------------------------------------------------------
(* The branches' conditions over the condition codes p.                     *)

BranchTaken(name, p) ==
  CASE name = "br"   -> TRUE
    [] name = "bne"  -> ~p.z
    [] name = "beq"  -> p.z
    [] name = "bpl"  -> ~p.n
    [] name = "bmi"  -> p.n
    [] name = "bvc"  -> ~p.v
    [] name = "bvs"  -> p.v
    [] name = "bge"  -> p.n = p.v
    [] name = "blt"  -> p.n # p.v
    [] name = "bgt"  -> ~(p.z \/ p.n # p.v)
    [] name = "ble"  -> p.z \/ p.n # p.v
    [] name = "bhi"  -> ~(p.c \/ p.z)
    [] name = "blos" -> p.c \/ p.z
    [] name = "bhis" -> ~p.c
    [] name = "blo"  -> p.c

=============================================================================
