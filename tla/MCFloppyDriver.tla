--------------------------- MODULE MCFloppyDriver ---------------------------
(* FloppyDriver with two drives, one diskette of two sectors a track each.  *)
EXTENDS FloppyDriver

Contents(x, y) == [s \in 1..Sectors |-> [i \in 0..1 |-> IF s = 1 THEN x[i + 1] ELSE y[i + 1]]]
Blank == Contents(<<0, 0>>, <<0, 0>>)

Job(op, u, t, first, multi, data, stream) ==
  [op |-> op, unit |-> u, track |-> t, first |-> first, multi |-> multi,
   sectors |-> IF multi THEN first..Sectors ELSE {first}, data |-> data, stream |-> stream]

(* A track with sector 1 and one gap byte.                                  *)
TrackStream(t) ==
  <<SYNC, ID_MARK, t, 0, 1, SizeCode, SYNC, DATA_MARK, 3, 4, CRC, GapByte>>

MCJobs ==
  {Job("write", 0, 1, 1, TRUE,  Contents(<<1, 2>>, <<2, 1>>), <<1, 2, 2, 1>>),
   Job("read",  0, 1, 1, TRUE,  Blank, <<>>),
   Job("read",  1, 0, 2, FALSE, Blank, <<>>),
   Job("format", 0, 0, 1, FALSE, Contents(<<3, 4>>, <<0, 0>>), TrackStream(0))}

=============================================================================
