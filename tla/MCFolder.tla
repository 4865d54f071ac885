-------------------------------- MODULE MCFolder --------------------------------
(* A folder of up to two host files, two of which fall together on one    *)
(* RT-11 name, and a volume of four blocks; the spare host names are taken  *)
(* only by files the guest makes.                                           *)
EXTENDS FolderVolume

McHostOrder == <<"x", "x-2", "s1", "s2">>
McMangled ==
  [x |-> <<"X", "X2", "X3">>] @@ ("x-2" :> <<"X2", "X3", "X">>) @@ [s1 |-> <<"S1", "S3">>, s2 |-> <<"S2", "S3">>]
McUnmangled ==
  [n \in Names |-> CASE n = "X" -> <<"x", "x-2", "s1", "s2">>
                     [] OTHER -> <<"s1", "s2">>]
McHostFiles == [h \in Hosts |-> CASE h = "x" -> {<<"p">>, <<"q", "r">>, Absent}
                                 [] h = "x-2" -> {<<"q">>, Absent}
                                 [] OTHER -> {}]
McFolders == {[h \in Hosts |-> CASE h = "x" -> a [] h = "x-2" -> b [] OTHER -> Absent] :
                a \in {<<"p">>, Absent}, b \in {<<"q">>, Absent}}
=============================================================================
