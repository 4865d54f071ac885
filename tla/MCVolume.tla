------------------------------- MODULE MCVolume -------------------------------
(* Volume with segments of two entries and a marker.                      *)
EXTENDS Volume, TLC

MCBlock == {"0", "a", "b", "c"}
MCContents == {<<>>, <<"a">>, <<"b", "c">>}
MCFences == {DataStart + 2}

Symmetry == Permutations(Names)

View == <<segs, highest, blocks, deleted>>

=============================================================================
