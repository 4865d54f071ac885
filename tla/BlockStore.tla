------------------------------ MODULE BlockStore ------------------------------
(***************************************************************************)
(* What a volume of blocks promises: it has a size, a block reads what was  *)
(* last written to it, one that is new since the volume was made or grown   *)
(* reads as zeros, and nothing else changes a block.                        *)
(***************************************************************************)
EXTENDS Integers

CONSTANTS Block, Zero

VARIABLES size, content

Sized(n, c) == n \in Nat /\ c \in [0..(n - 1) -> Block]

Init == Sized(size, content)

Write(lbn, b) ==
  /\ lbn \in 0..(size - 1)
  /\ content' = [content EXCEPT ![lbn] = b]
  /\ size' = size

Resize(n) ==
  /\ size' = n
  /\ content' = [l \in 0..(n - 1) |-> IF l < size THEN content[l] ELSE Zero]

Next ==
  \/ \E lbn \in Int, b \in Block : Write(lbn, b)
  \/ \E n \in Nat : Resize(n)

Spec == Init /\ [][Next]_<<size, content>>
=============================================================================
