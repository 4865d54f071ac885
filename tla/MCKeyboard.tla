----------------------------- MODULE MCKeyboard -----------------------------
(* KeyboardGuest with a letter, a symbol-on-letter key and a function key.       *)
EXTENDS KeyboardGuest, SequencesExt

MCUserKeys == {SHIFT_L, CTRL, CAPS} \cup Regular
MCHostBytes == {PROBE, 225, 27}

(* Reading the bytes one by one comes to HeldAfter.                              *)
ASSUME ReadOneByOne ==
  \A bytes \in BoundedSeq({SHIFT, CTRL, ALLUP, "A"}, 5), down \in SUBSET {SHIFT, CTRL} :
    FoldLeft(Latched, down, bytes) = HeldAfter(down, bytes)
=============================================================================
