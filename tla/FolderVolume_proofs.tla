-------------------------- MODULE FolderVolume_proofs --------------------------
(***************************************************************************)
(* No block of the volume is two host files', for any folder, any names and *)
(* any order of the guest's, the host's and the user's steps.               *)
(*                                                                          *)
(* Whatever the lines and the places were, layOut leaves disjoint places    *)
(* (LayOutDisjoint): of two files still placed after the eviction the one   *)
(* before ends where the other begins or earlier, and a hole is no file's.  *)
(* The rest is that every change of the places ends in layOut, and the      *)
(* types it needs: the lines name host files, entries and places are        *)
(* numbers, a host file has a length - through the matching of a directory  *)
(* write, whose loops are functions of the entry they have come to.         *)
(***************************************************************************)
EXTENDS FolderVolume, FiniteSetTheorems, SequenceTheorems, TLAPS

-----------------------------------------------------------------------------
(* What the variables hold.                                                 *)

Slot == [start : Nat, blocks : Nat, tent : BOOLEAN]
IsSeq(s) == s \in Seq(ToSet(s))

Shaped(f) == f = [name |-> f.name, host |-> f.host, prot |-> f.prot, deleted |-> f.deleted]
Lines(fs) == IsSeq(fs) /\ \A i \in DOMAIN fs : Shaped(fs[i]) /\ fs[i].host \in Hosts

IsEntry(e) ==
  /\ e = [name |-> e.name, len |-> e.len, tent |-> e.tent, prot |-> e.prot, start |-> e.start]
  /\ e.len \in Nat /\ e.tent \in BOOLEAN /\ e.start \in Nat
Entries(es) == IsSeq(es) /\ \A k \in DOMAIN es : IsEntry(es[k])

FolderOK(fo) == fo = [h \in Hosts |-> fo[h]] /\ \A h \in Hosts : Blocks(fo[h]) \in Nat
TextOK(t) == t = Garbage \/ Lines(t)
GuestOK(g) == g = [read |-> g.read, dirty |-> g.dirty, entries |-> g.entries] /\ Entries(g.entries)
OpenOK(o) ==
  /\ o = [name |-> o.name, start |-> o.start, len |-> o.len, sent |-> o.sent, spoilt |-> o.spoilt]
  /\ IsSeq(o.sent)

Apart(sl) ==
  /\ \A h \in InPlace(sl) : End(sl[h]) <= Room + 1
  /\ \A g, h \in InPlace(sl) : g # h => End(sl[g]) <= sl[h].start \/ End(sl[h]) <= sl[g].start

VolumeOK(v) ==
  v.slots \in [Hosts -> Slot] /\ Lines(v.files) /\ TextOK(v.text)

TypeInv ==
  /\ VolumeOK(Volume)
  /\ FolderOK(folder)
  /\ GuestOK(guest)
  /\ OpenOK(open)

IInv == TypeInv /\ Apart(slots)

-----------------------------------------------------------------------------
(* Sequences.                                                               *)

LEMMA SeqIs == ASSUME NEW S, NEW s \in Seq(S) PROVE IsSeq(s)
<1>1. s \in [1..Len(s) -> S] /\ DOMAIN s = 1..Len(s) /\ Len(s) \in Nat
  BY LenProperties
<1>2. s \in [1..Len(s) -> ToSet(s)]
  BY <1>1 DEF ToSet
<1>3. QED BY <1>1, <1>2 DEF IsSeq

LEMMA IsSeqProperties ==
  ASSUME NEW s, IsSeq(s)
  PROVE  Len(s) \in Nat /\ DOMAIN s = 1..Len(s) /\ s = [i \in 1..Len(s) |-> s[i]]
BY LenProperties DEF IsSeq

LEMMA FunctionIs ==
  ASSUME NEW n \in Nat, NEW g, g = [i \in 1..n |-> g[i]]
  PROVE  IsSeq(g) /\ Len(g) = n /\ DOMAIN g = 1..n
<1>1. g \in [1..n -> ToSet(g)]
  BY DEF ToSet
<1>2. g \in Seq(ToSet(g)) /\ DOMAIN g = 1..n
  BY <1>1
<1>3. Len(g) = n
  BY <1>1, <1>2, LenProperties
<1>4. QED BY <1>2, <1>3 DEF IsSeq

LEMMA EmptyIs == IsSeq(<<>>) /\ DOMAIN <<>> = {}
<1>1. <<>> \in Seq({}) /\ Len(<<>>) = 0
  BY EmptySeq
<1>2. DOMAIN <<>> = 1..0
  BY <1>1, LenProperties
<1>3. IsSeq(<<>>)
  BY <1>1, SeqIs
<1>4. QED BY <1>2, <1>3

LEMMA AppendIs ==
  ASSUME NEW s, IsSeq(s), NEW x
  PROVE  /\ IsSeq(Append(s, x)) /\ Len(Append(s, x)) = Len(s) + 1
         /\ DOMAIN Append(s, x) = 1..Len(s) + 1
         /\ \A i \in 1..Len(s) + 1 : Append(s, x)[i] = IF i = Len(s) + 1 THEN x ELSE s[i]
<1> DEFINE T == ToSet(s) \cup {x}
<1>1. s \in Seq(T) /\ x \in T
  BY SeqMonotonic DEF IsSeq
<1> HIDE DEF T
<1>2. Append(s, x) \in Seq(T) /\ IsSeq(Append(s, x))
  <2>1. Append(s, x) \in Seq(T)
    BY <1>1
  <2>2. QED BY <2>1, SeqIs
<1>3. Len(Append(s, x)) = Len(s) + 1
  BY <1>1
<1>4. DOMAIN Append(s, x) = 1..Len(s) + 1
  BY <1>2, <1>3, LenProperties
<1>5. \A i \in 1..Len(s) + 1 : Append(s, x)[i] = IF i = Len(s) + 1 THEN x ELSE s[i]
  BY <1>1
<1>6. QED BY <1>2, <1>3, <1>4, <1>5

LEMMA ConcatIs ==
  ASSUME NEW s, IsSeq(s), NEW t, IsSeq(t)
  PROVE  /\ IsSeq(s \o t)
         /\ \A i \in DOMAIN (s \o t) : \/ i \in DOMAIN s /\ (s \o t)[i] = s[i]
                                       \/ i - Len(s) \in DOMAIN t /\ (s \o t)[i] = t[i - Len(s)]
<1> DEFINE T == ToSet(s) \cup ToSet(t)
<1>1. s \in Seq(T) /\ t \in Seq(T)
  BY SeqMonotonic DEF IsSeq
<1> HIDE DEF T
<1>2. s \o t \in Seq(T) /\ Len(s \o t) = Len(s) + Len(t)
  BY <1>1, ConcatProperties
<1>3. DOMAIN (s \o t) = 1..Len(s) + Len(t) /\ DOMAIN s = 1..Len(s) /\ DOMAIN t = 1..Len(t)
  BY <1>1, <1>2, LenProperties
<1>4. Len(s) \in Nat /\ Len(t) \in Nat
  BY <1>1, LenProperties
<1>5. \A i \in 1..Len(s) + Len(t) : (s \o t)[i] = IF i <= Len(s) THEN s[i] ELSE t[i - Len(s)]
  BY <1>1, ConcatProperties
<1>6. IsSeq(s \o t)
  BY <1>2, SeqIs
<1>7. ASSUME NEW i \in DOMAIN (s \o t)
      PROVE  \/ i \in DOMAIN s /\ (s \o t)[i] = s[i]
             \/ i - Len(s) \in DOMAIN t /\ (s \o t)[i] = t[i - Len(s)]
  BY <1>3, <1>4, <1>5
<1>8. QED BY <1>6, <1>7

-----------------------------------------------------------------------------
(* Induction, and the first and the last of some numbers.                   *)

LEMMA Induction ==
  ASSUME NEW S, 0 \in S, \A n \in Nat : n \in S => n + 1 \in S
  PROVE  Nat \subseteq S
<1>1. SUFFICES ASSUME NEW n \in Nat, n \notin S PROVE FALSE
  OBVIOUS
<1> DEFINE U == {i \in 0..n : i \in S}
           f == [i \in U |-> i + 1]
<1>2. IsFiniteSet(U)
  <2>1. IsFiniteSet(0..n)
    BY FS_Interval
  <2>2. U \in SUBSET (0..n)
    OBVIOUS
  <2> HIDE DEF U
  <2>3. QED BY <2>1, <2>2, FS_Subset
<1>3. f \in [U -> U]
  BY <1>1
<1>4. f \in Injection(U, U)
  BY <1>3 DEF Injection, IsInjective
<1>5. f \in Surjection(U, U)
  <2> HIDE DEF U, f
  <2>1. QED BY <1>2, <1>4, FS_Injection
<1>6. \E i \in U : f[i] = 0
  <2>1. 0 \in U
    OBVIOUS
  <2>2. \A t \in U : \E i \in U : f[i] = t
    <3> HIDE DEF U, f
    <3>1. QED BY <1>5 DEF Surjection
  <2>3. QED BY <2>1, <2>2
<1>7. QED BY <1>6

LEMMA FirstOf ==
  ASSUME NEW S \in SUBSET Nat, S # {}
  PROVE  \E m \in S : \A k \in S : m <= k
<1>1. SUFFICES ASSUME \A m \in S : \E k \in S : k < m PROVE FALSE
  OBVIOUS
<1> DEFINE Above == {n \in Nat : \A k \in S : n < k}
<1>2. 0 \in Above
  <2>1. ASSUME NEW k \in S PROVE 0 < k
    BY <1>1
  <2>2. QED BY <2>1
<1>3. ASSUME NEW n \in Nat, n \in Above PROVE n + 1 \in Above
  <2>1. ASSUME NEW m \in S PROVE n + 1 < m
    <3>1. PICK k \in S : k < m
      BY <1>1
    <3>2. n < k
      BY <1>3
    <3>3. QED BY <3>1, <3>2
  <2>2. QED BY <2>1
<1>4. Nat \subseteq Above
  <2> HIDE DEF Above
  <2>1. QED BY <1>2, <1>3, Induction
<1>5. PICK k \in S : TRUE
  OBVIOUS
<1>6. k \in Above
  <2> HIDE DEF Above
  <2>1. QED BY <1>4
<1>7. QED BY <1>6

LEMMA LastOf ==
  ASSUME NEW n \in Nat, NEW S \in SUBSET (1..n), S # {}
  PROVE  \E m \in S : \A k \in S : k <= m
<1> DEFINE T == {n - k : k \in S}
<1>1. T \in SUBSET Nat /\ T # {}
  <2>1. \A k \in S : n - k \in Nat
    OBVIOUS
  <2>2. QED BY <2>1
<1>2. PICK m \in T : \A k \in T : m <= k
  <2> HIDE DEF T
  <2>1. QED BY <1>1, FirstOf
<1>3. PICK k \in S : m = n - k
  BY <1>2
<1>4. ASSUME NEW j \in S PROVE j <= k
  <2>1. n - j \in T
    OBVIOUS
  <2>2. n - k <= n - j
    BY <1>2, <1>3, <2>1
  <2>3. j \in Nat /\ k \in Nat
    OBVIOUS
  <2>4. QED BY <2>2, <2>3
<1>5. QED BY <1>4

-----------------------------------------------------------------------------
(* layOut.                                                                  *)

LEMMA LayOutUnfolds ==
  ASSUME NEW fs, NEW sl, NEW fo, Len(fs) \in Nat
  PROVE  \E w : /\ w = [k \in 0..Len(fs) |-> IF k = 0 THEN Evicted(fs, Sized(fs, sl, fo)) ELSE Placed(w[k - 1], fs[k])]
               /\ LayOut(fs, sl, fo) = w[Len(fs)]
<1> DEFINE Unfolds(n, g) == g = [k \in 0..n |-> IF k = 0 THEN Evicted(fs, Sized(fs, sl, fo)) ELSE Placed(g[k - 1], fs[k])]
           Some == {n \in Nat : \E g : Unfolds(n, g)}
<1>1. 0 \in Some
  <2>1. Unfolds(0, [k \in 0..0 |-> Evicted(fs, Sized(fs, sl, fo))])
    OBVIOUS
  <2>2. QED BY <2>1
<1>2. ASSUME NEW n \in Nat, n \in Some PROVE n + 1 \in Some
  <2>1. PICK g : Unfolds(n, g)
    BY <1>2
  <2> DEFINE h == [k \in 0..n + 1 |-> IF k <= n THEN g[k] ELSE Placed(g[n], fs[n + 1])]
  <2>2. \A k \in 0..n + 1 : h[k] = IF k = 0 THEN Evicted(fs, Sized(fs, sl, fo)) ELSE Placed(h[k - 1], fs[k])
    <3>1. TAKE k \in 0..n + 1
    <3>2. CASE k = 0
      BY <2>1, <3>2
    <3>3. CASE k # 0 /\ k <= n
      <4>1. h[k] = g[k] /\ h[k - 1] = g[k - 1]
        BY <3>3
      <4>2. k \in 0..n
        BY <3>3
      <4>3. g[k] = Placed(g[k - 1], fs[k])
        BY <2>1, <3>3, <4>2
      <4> HIDE DEF h
      <4>4. QED BY <3>3, <4>1, <4>3
    <3>4. CASE k = n + 1
      BY <3>4
    <3>5. QED BY <3>2, <3>3, <3>4
  <2>3. Unfolds(n + 1, h)
    <3> HIDE DEF h
    <3>1. h = [k \in 0..n + 1 |-> h[k]]
      BY DEF h
    <3>2. QED BY <2>2, <3>1
  <2>4. QED
    <3> HIDE DEF h, Unfolds
    <3>1. QED BY <2>3
<1>3. Nat \subseteq Some
  <2> HIDE DEF Some
  <2>1. QED BY <1>1, <1>2, Induction
<1> DEFINE N == Len(fs)
           v == CHOOSE w : w = [k \in 0..N |-> IF k = 0 THEN Evicted(fs, Sized(fs, sl, fo)) ELSE Placed(w[k - 1], fs[k])]
<1>4. \E w : Unfolds(N, w)
  <2>1. N \in Nat
    OBVIOUS
  <2> HIDE DEF Unfolds, N
  <2>2. QED BY <1>3, <2>1
<1>5. Unfolds(N, v)
  <2> HIDE DEF N
  <2>1. QED BY <1>4
<1>6. LayOut(fs, sl, fo) = v[N]
  BY DEF LayOut
<1>7. QED
  <2> HIDE DEF v
  <2>1. QED BY <1>5, <1>6

LEMMA SizedTyped ==
  ASSUME NEW fs, NEW sl \in [Hosts -> Slot], NEW fo, FolderOK(fo)
  PROVE  /\ Sized(fs, sl, fo) \in [Hosts -> Slot]
         /\ \A h \in InPlace(Sized(fs, sl, fo)) : \E i \in Live(fs) : fs[i].host = h
<1> DEFINE sized == Sized(fs, sl, fo)
<1>1. ASSUME NEW h \in Hosts PROVE sized[h] \in Slot /\ (sized[h].start > 0 => \E i \in Live(fs) : fs[i].host = h)
  <2>1. CASE ~\E i \in Live(fs) : fs[i].host = h
    BY <2>1 DEF Sized, NoSlot, Slot
  <2>2. CASE \E i \in Live(fs) : fs[i].host = h
    BY <2>2 DEF Sized, Slot, FolderOK
  <2>3. QED BY <2>1, <2>2
<1>2. sized = [h \in Hosts |-> sized[h]]
  BY DEF Sized
<1> HIDE DEF sized
<1>3. sized \in [Hosts -> Slot]
  BY <1>1, <1>2
<1>4. \A h \in InPlace(sized) : \E i \in Live(fs) : fs[i].host = h
  BY <1>1 DEF InPlace
<1>5. QED BY <1>3, <1>4 DEF sized

LEMMA EvictedApart ==
  ASSUME NEW fs, Len(fs) \in Nat, DOMAIN fs = 1..Len(fs), NEW sl \in [Hosts -> Slot],
         \A h \in InPlace(sl) : \E i \in Live(fs) : fs[i].host = h
  PROVE  Evicted(fs, sl) \in [Hosts -> Slot] /\ Apart(Evicted(fs, sl))
<1> DEFINE ev == Evicted(fs, sl)
           placed == {i \in Live(fs) : sl[fs[i].host].start > 0}
           over(i) == LET end == End(sl[fs[i].host])
                      IN end > Room + 1 \/ \E j \in placed : Before(fs, sl, i, j) /\ end > sl[fs[j].host].start
<1>1. \A h \in Hosts : ev[h] = IF \E i \in placed : fs[i].host = h /\ over(i) THEN [sl[h] EXCEPT !.start = 0] ELSE sl[h]
  BY DEF Evicted
<1>2. ev = [h \in Hosts |-> ev[h]]
  BY DEF Evicted
<1> HIDE DEF ev
<1>3. ev \in [Hosts -> Slot]
  <2> HIDE DEF over, placed
  <2>1. ASSUME NEW h \in Hosts PROVE ev[h] \in Slot
    <3>1. sl[h] \in Slot /\ [sl[h] EXCEPT !.start = 0] \in Slot
      BY DEF Slot
    <3>2. QED BY <1>1, <3>1
  <2>2. QED BY <1>2, <2>1
<1>4. ASSUME NEW h \in InPlace(ev)
      PROVE  /\ h \in Hosts /\ ev[h] = sl[h]
             /\ \E i \in placed : fs[i].host = h /\ ~over(i)
  <2>1. h \in Hosts /\ ev[h].start > 0
    BY DEF InPlace
  <2>2. CASE \E i \in placed : fs[i].host = h /\ over(i)
    <3> HIDE DEF over, placed
    <3>1. ev[h] = [sl[h] EXCEPT !.start = 0]
      BY <1>1, <2>1, <2>2
    <3>2. QED BY <2>1, <3>1 DEF Slot
  <2>3. CASE ~\E i \in placed : fs[i].host = h /\ over(i)
    <3>1. ev[h] = sl[h]
      <4> HIDE DEF over, placed
      <4>1. QED BY <1>1, <2>1, <2>3
    <3>2. h \in InPlace(sl)
      BY <2>1, <3>1 DEF InPlace
    <3>3. PICK i \in Live(fs) : fs[i].host = h
      BY <3>2
    <3>4. i \in placed
      BY <3>2, <3>3 DEF InPlace
    <3> HIDE DEF over, placed
    <3>5. QED BY <2>1, <2>3, <3>1, <3>3, <3>4
  <2>4. QED BY <2>2, <2>3
<1>5. \A h \in InPlace(ev) : End(ev[h]) <= Room + 1
  <2>1. TAKE h \in InPlace(ev)
  <2>2. PICK i \in placed : fs[i].host = h /\ ~over(i)
    BY <1>4
  <2>3. End(sl[h]) \in Int /\ Room + 1 \in Int
    BY <1>4, FolderAssumption DEF End, Slot, FolderAssumption
  <2>4. ~(End(sl[h]) > Room + 1)
    BY <2>2
  <2>5. QED BY <1>4, <2>3, <2>4
<1>6. ASSUME NEW g \in InPlace(ev), NEW h \in InPlace(ev), g # h
      PROVE  End(ev[g]) <= ev[h].start \/ End(ev[h]) <= ev[g].start
  <2>1. PICK i \in placed : fs[i].host = g /\ ~over(i)
    BY <1>4
  <2>2. PICK j \in placed : fs[j].host = h /\ ~over(j)
    BY <1>4
  <2>3. i # j /\ i \in Nat /\ j \in Nat
    BY <1>6, <2>1, <2>2 DEF Live
  <2>4. sl[g] \in Slot /\ sl[h] \in Slot /\ ev[g] = sl[g] /\ ev[h] = sl[h]
    BY <1>4
  <2>5. Before(fs, sl, i, j) \/ Before(fs, sl, j, i)
    <3>1. sl[g].start \in Nat /\ sl[h].start \in Nat
      BY <2>4 DEF Slot
    <3>2. QED BY <2>1, <2>2, <2>3, <3>1 DEF Before
  <2>6. End(sl[g]) \in Int /\ End(sl[h]) \in Int /\ sl[g].start \in Int /\ sl[h].start \in Int
    BY <2>4 DEF End, Slot
  <2>7. Before(fs, sl, i, j) => ~(End(sl[g]) > sl[h].start)
    BY <2>1, <2>2
  <2>8. Before(fs, sl, j, i) => ~(End(sl[h]) > sl[g].start)
    BY <2>1, <2>2
  <2>9. QED BY <2>4, <2>5, <2>6, <2>7, <2>8
<1>7. QED BY <1>3, <1>5, <1>6 DEF Apart, ev

LEMMA PlacedApart ==
  ASSUME NEW sl \in [Hosts -> Slot], Apart(sl), NEW f, f.host \in Hosts
  PROVE  Placed(sl, f) \in [Hosts -> Slot] /\ Apart(Placed(sl, f))
<1> DEFINE holes == Holes(sl, sl[f.host].blocks)
           p == CHOOSE x \in holes : \A q \in holes : x <= q
<1>1. CASE f.deleted \/ sl[f.host].start > 0 \/ holes = {}
  BY <1>1 DEF Placed
<1>2. CASE ~(f.deleted \/ sl[f.host].start > 0 \/ holes = {})
  <2>1. Placed(sl, f) = [sl EXCEPT ![f.host].start = p]
    BY <1>2 DEF Placed
  <2>2. holes \in SUBSET Nat
    BY DEF Holes, InPlace, End, Slot
  <2>3. \E x \in holes : \A q \in holes : x <= q
    <3> HIDE DEF holes
    <3>1. QED BY <1>2, <2>2, FirstOf
  <2>4. p \in holes
    <3> HIDE DEF holes
    <3>1. QED BY <2>3
  <2>5. p \in Nat
    BY <2>2, <2>4
  <2>6. /\ p + sl[f.host].blocks <= Room + 1
        /\ \A h \in InPlace(sl) : p + sl[f.host].blocks <= sl[h].start \/ End(sl[h]) <= p
    BY <2>4 DEF Holes
  <2> HIDE DEF p, holes
  <2> DEFINE new == [sl EXCEPT ![f.host].start = p]
  <2>7. /\ new[f.host] = [sl[f.host] EXCEPT !.start = p]
        /\ \A h \in Hosts \ {f.host} : new[h] = sl[h]
        /\ new = [h \in Hosts |-> new[h]]
    OBVIOUS
  <2> HIDE DEF new
  <2>8. \A h \in Hosts : sl[h] \in Slot
    OBVIOUS
  <2>9. new[f.host] \in Slot /\ new[f.host].start = p /\ End(new[f.host]) = p + sl[f.host].blocks
    BY <2>5, <2>7, <2>8 DEF Slot, End
  <2>10. new \in [Hosts -> Slot]
    BY <2>7, <2>8, <2>9
  <2>11. \A h \in InPlace(new) \ {f.host} : h \in InPlace(sl) /\ new[h] = sl[h]
    BY <2>7 DEF InPlace
  <2>12. \A h \in InPlace(new) : End(new[h]) <= Room + 1
    BY <2>6, <2>9, <2>11 DEF Apart
  <2>13. ASSUME NEW g \in InPlace(new), NEW h \in InPlace(new), g # h
         PROVE  End(new[g]) <= new[h].start \/ End(new[h]) <= new[g].start
    <3>1. CASE g = f.host
      BY <2>6, <2>9, <2>11, <2>13, <3>1
    <3>2. CASE h = f.host
      BY <2>6, <2>9, <2>11, <2>13, <3>2
    <3>3. CASE g # f.host /\ h # f.host
      BY <2>11, <2>13, <3>3 DEF Apart
    <3>4. QED BY <3>1, <3>2, <3>3
  <2>14. Apart(new)
    BY <2>12, <2>13 DEF Apart
  <2>15. QED BY <2>1, <2>10, <2>14 DEF new
<1>3. QED BY <1>1, <1>2

LEMMA LayOutDisjoint ==
  ASSUME NEW fs, Lines(fs), NEW sl \in [Hosts -> Slot], NEW fo, FolderOK(fo)
  PROVE  LayOut(fs, sl, fo) \in [Hosts -> Slot] /\ Apart(LayOut(fs, sl, fo))
<1>1. Len(fs) \in Nat /\ DOMAIN fs = 1..Len(fs)
  BY IsSeqProperties DEF Lines
<1>2. PICK w : /\ w = [k \in 0..Len(fs) |->
                          IF k = 0 THEN Evicted(fs, Sized(fs, sl, fo)) ELSE Placed(w[k - 1], fs[k])]
               /\ LayOut(fs, sl, fo) = w[Len(fs)]
  BY <1>1, LayOutUnfolds, ZenonT(30)
<1> DEFINE S == {k \in Nat : k <= Len(fs) => w[k] \in [Hosts -> Slot] /\ Apart(w[k])}
<1>3. 0 \in S
  <2>1. w[0] = Evicted(fs, Sized(fs, sl, fo))
    BY <1>1, <1>2
  <2> DEFINE sized == Sized(fs, sl, fo)
  <2>2. sized \in [Hosts -> Slot] /\ \A h \in InPlace(sized) : \E i \in Live(fs) : fs[i].host = h
    BY SizedTyped
  <2> HIDE DEF sized
  <2>3. Evicted(fs, sized) \in [Hosts -> Slot] /\ Apart(Evicted(fs, sized))
    BY <1>1, <2>2, EvictedApart
  <2>4. QED BY <2>1, <2>3 DEF sized
<1>4. ASSUME NEW k \in Nat, k \in S PROVE k + 1 \in S
  <2>1. CASE k + 1 <= Len(fs)
    <3>1. w[k] \in [Hosts -> Slot] /\ Apart(w[k])
      BY <1>1, <1>4, <2>1
    <3>2. k + 1 \in 1..Len(fs) /\ (k + 1) - 1 = k
      BY <1>1, <2>1
    <3>3. w[k + 1] = Placed(w[k], fs[k + 1])
      BY <1>2, <3>2
    <3>4. fs[k + 1].host \in Hosts
      BY <1>1, <3>2 DEF Lines
    <3>5. QED BY <3>1, <3>3, <3>4, PlacedApart
  <2>2. QED BY <2>1
<1>5. Nat \subseteq S
  <2> HIDE DEF S
  <2>1. QED BY <1>3, <1>4, Induction
<1>6. QED BY <1>1, <1>2, <1>5

-----------------------------------------------------------------------------
(* The lines of a rescan.                                                   *)

Picked(acc, x, S) == IF x \in S THEN Append(acc, x) ELSE acc

LEMMA KeptUnfolds ==
  ASSUME NEW seq, NEW S, Len(seq) \in Nat
  PROVE  \E w : /\ w = [k \in 0..Len(seq) |-> IF k = 0 THEN <<>> ELSE Picked(w[k - 1], seq[k], S)]
               /\ Kept(seq, S) = w[Len(seq)]
<1> DEFINE Unfolds(n, g) == g = [k \in 0..n |-> IF k = 0 THEN <<>> ELSE Picked(g[k - 1], seq[k], S)]
           Some == {n \in Nat : \E g : Unfolds(n, g)}
<1>1. 0 \in Some
  <2>1. Unfolds(0, [k \in 0..0 |-> <<>>])
    OBVIOUS
  <2>2. QED BY <2>1
<1>2. ASSUME NEW n \in Nat, n \in Some PROVE n + 1 \in Some
  <2>1. PICK g : Unfolds(n, g)
    BY <1>2
  <2> DEFINE h == [k \in 0..n + 1 |-> IF k <= n THEN g[k] ELSE Picked(g[n], seq[n + 1], S)]
  <2>2. \A k \in 0..n + 1 : h[k] = IF k = 0 THEN <<>> ELSE Picked(h[k - 1], seq[k], S)
    <3>1. TAKE k \in 0..n + 1
    <3>2. CASE k = 0
      BY <2>1, <3>2
    <3>3. CASE k # 0 /\ k <= n
      <4>1. h[k] = g[k] /\ h[k - 1] = g[k - 1]
        BY <3>3
      <4>2. k \in 0..n
        BY <3>3
      <4>3. g[k] = Picked(g[k - 1], seq[k], S)
        BY <2>1, <3>3, <4>2
      <4> HIDE DEF h
      <4>4. QED BY <3>3, <4>1, <4>3
    <3>4. CASE k = n + 1
      BY <3>4
    <3>5. QED BY <3>2, <3>3, <3>4
  <2>3. Unfolds(n + 1, h)
    <3> HIDE DEF h
    <3>1. h = [k \in 0..n + 1 |-> h[k]]
      BY DEF h
    <3>2. QED BY <2>2, <3>1
  <2>4. QED
    <3> HIDE DEF h, Unfolds
    <3>1. QED BY <2>3
<1>3. Nat \subseteq Some
  <2> HIDE DEF Some
  <2>1. QED BY <1>1, <1>2, Induction
<1> DEFINE N == Len(seq)
           v == CHOOSE w : w = [k \in 0..N |-> IF k = 0 THEN <<>> ELSE Picked(w[k - 1], seq[k], S)]
<1>4. \E w : Unfolds(N, w)
  <2>1. N \in Nat
    OBVIOUS
  <2> HIDE DEF Unfolds, N
  <2>2. QED BY <1>3, <2>1
<1>5. Unfolds(N, v)
  <2> HIDE DEF N
  <2>1. QED BY <1>4
<1>6. Kept(seq, S) = v[N]
  BY DEF Kept, Picked
<1>7. QED
  <2> HIDE DEF v
  <2>1. QED BY <1>5, <1>6

LEMMA KeptIs ==
  ASSUME NEW seq, IsSeq(seq), NEW S
  PROVE  /\ IsSeq(Kept(seq, S))
         /\ \A i \in DOMAIN Kept(seq, S) : Kept(seq, S)[i] \in S /\ \E j \in DOMAIN seq : Kept(seq, S)[i] = seq[j]
<1>1. Len(seq) \in Nat /\ DOMAIN seq = 1..Len(seq)
  BY IsSeqProperties
<1>2. PICK w : /\ w = [k \in 0..Len(seq) |-> IF k = 0 THEN <<>> ELSE Picked(w[k - 1], seq[k], S)]
               /\ Kept(seq, S) = w[Len(seq)]
  BY <1>1, KeptUnfolds
<1> DEFINE Sub(t) == IsSeq(t) /\ \A i \in DOMAIN t : t[i] \in S /\ \E j \in DOMAIN seq : t[i] = seq[j]
           T == {k \in Nat : k <= Len(seq) => Sub(w[k])}
<1>3. 0 \in T
  <2>1. w[0] = <<>>
    BY <1>1, <1>2
  <2>2. QED BY <2>1, EmptyIs
<1>4. ASSUME NEW k \in Nat, k \in T PROVE k + 1 \in T
  <2>1. CASE k + 1 <= Len(seq)
    <3>1. Sub(w[k]) /\ k + 1 \in DOMAIN seq
      BY <1>1, <1>4, <2>1
    <3>2. w[k + 1] = IF seq[k + 1] \in S THEN Append(w[k], seq[k + 1]) ELSE w[k]
      <4>1. k + 1 \in 1..Len(seq) /\ (k + 1) - 1 = k
        BY <1>1, <2>1
      <4>2. w[k + 1] = Picked(w[(k + 1) - 1], seq[k + 1], S)
        BY <1>2, <4>1
      <4>3. QED BY <4>1, <4>2 DEF Picked
    <3>3. CASE seq[k + 1] \in S
      <4> DEFINE s == w[k]
                 x == seq[k + 1]
      <4>1. IsSeq(s) /\ Len(s) \in Nat /\ DOMAIN s = 1..Len(s)
        BY <3>1, IsSeqProperties
      <4> HIDE DEF s
      <4>2. /\ IsSeq(Append(s, x)) /\ DOMAIN Append(s, x) = 1..Len(s) + 1
            /\ \A i \in 1..Len(s) + 1 : Append(s, x)[i] = IF i = Len(s) + 1 THEN x ELSE s[i]
        BY <4>1, AppendIs
      <4>3. \A i \in 1..Len(s) : s[i] \in S /\ \E j \in DOMAIN seq : s[i] = seq[j]
        BY <3>1, <4>1 DEF s
      <4>4. ASSUME NEW i \in 1..Len(s) + 1
            PROVE  Append(s, x)[i] \in S /\ \E j \in DOMAIN seq : Append(s, x)[i] = seq[j]
        <5>1. CASE i = Len(s) + 1
          BY <3>1, <3>3, <4>2, <5>1
        <5>2. CASE i \in 1..Len(s)
          BY <4>1, <4>2, <4>3, <5>2
        <5>3. QED BY <4>1, <5>1, <5>2
      <4>5. Sub(Append(s, x))
        BY <4>2, <4>4
      <4> HIDE DEF Sub
      <4>6. w[k + 1] = Append(s, x)
        BY <3>2, <3>3 DEF s
      <4> HIDE DEF x
      <4>7. Sub(w[k + 1])
        BY <4>5, <4>6
      <4>8. QED BY <4>7
    <3>4. CASE seq[k + 1] \notin S
      BY <3>1, <3>2, <3>4
    <3>5. QED BY <3>3, <3>4
  <2>2. QED BY <2>1
<1>5. Nat \subseteq T
  <2> HIDE DEF T
  <2>1. QED BY <1>3, <1>4, Induction
<1>6. Sub(w[Len(seq)])
  <2> HIDE DEF Sub
  <2>1. QED BY <1>1, <1>5
<1>7. QED BY <1>2, <1>6

LEMMA KeptLines ==
  ASSUME NEW fs, Lines(fs), NEW S
  PROVE  Lines(Kept(fs, S))
BY KeptIs DEF Lines

LEMMA KeptEntries ==
  ASSUME NEW es, Entries(es), NEW S
  PROVE  Entries(Kept(es, S))
BY KeptIs DEF Entries

LEMMA KeptHosts ==
  ASSUME NEW S
  PROVE  IsSeq(Kept(HostOrder, S)) /\ \A i \in DOMAIN Kept(HostOrder, S) : Kept(HostOrder, S)[i] \in Hosts
<1>1. HostOrder \in Seq(Hosts)
  BY FolderAssumption DEF FolderAssumption
<1>2. IsSeq(HostOrder) /\ \A j \in DOMAIN HostOrder : HostOrder[j] \in Hosts
  BY <1>1, SeqIs
<1>3. QED BY <1>2, KeptIs

LEMMA EmptyLines == Lines(<<>>)
BY EmptyIs DEF Lines

LEMMA AppendLines ==
  ASSUME NEW fs, Lines(fs), NEW f, Shaped(f), f.host \in Hosts
  PROVE  Lines(Append(fs, f))
<1>1. IsSeq(fs) /\ Len(fs) \in Nat /\ DOMAIN fs = 1..Len(fs)
  BY IsSeqProperties DEF Lines
<1>2. /\ IsSeq(Append(fs, f)) /\ DOMAIN Append(fs, f) = 1..Len(fs) + 1
      /\ \A i \in 1..Len(fs) + 1 : Append(fs, f)[i] = IF i = Len(fs) + 1 THEN f ELSE fs[i]
  BY <1>1, AppendIs
<1>3. ASSUME NEW i \in 1..Len(fs) + 1
      PROVE  Shaped(Append(fs, f)[i]) /\ Append(fs, f)[i].host \in Hosts
  <2>1. CASE i = Len(fs) + 1
    BY <1>2, <2>1
  <2>2. CASE i \in 1..Len(fs)
    BY <1>1, <1>2, <2>2 DEF Lines
  <2>3. QED BY <1>1, <2>1, <2>2
<1>4. QED BY <1>2, <1>3 DEF Lines

LEMMA NewLineShaped ==
  ASSUME NEW h \in Hosts, NEW taken
  PROVE  Shaped(NewLine(h, taken)) /\ NewLine(h, taken).host \in Hosts
BY DEF NewLine, Shaped

LEMMA AutoFillUnfolds ==
  ASSUME NEW listing, NEW fo, Len(listing) \in Nat
  PROVE  \E w : /\ w = [k \in 0..Len(listing) |-> IF k = 0 THEN [used |-> 0, lines |-> <<>>] ELSE Taken(w[k - 1], listing[k], fo)]
               /\ AutoFill(listing, fo) = w[Len(listing)].lines
<1> DEFINE Unfolds(n, g) == g = [k \in 0..n |-> IF k = 0 THEN [used |-> 0, lines |-> <<>>] ELSE Taken(g[k - 1], listing[k], fo)]
           Some == {n \in Nat : \E g : Unfolds(n, g)}
<1>1. 0 \in Some
  <2>1. Unfolds(0, [k \in 0..0 |-> [used |-> 0, lines |-> <<>>]])
    OBVIOUS
  <2>2. QED BY <2>1
<1>2. ASSUME NEW n \in Nat, n \in Some PROVE n + 1 \in Some
  <2>1. PICK g : Unfolds(n, g)
    BY <1>2
  <2> DEFINE h == [k \in 0..n + 1 |-> IF k <= n THEN g[k] ELSE Taken(g[n], listing[n + 1], fo)]
  <2>2. \A k \in 0..n + 1 : h[k] = IF k = 0 THEN [used |-> 0, lines |-> <<>>] ELSE Taken(h[k - 1], listing[k], fo)
    <3>1. TAKE k \in 0..n + 1
    <3>2. CASE k = 0
      BY <2>1, <3>2
    <3>3. CASE k # 0 /\ k <= n
      <4>1. h[k] = g[k] /\ h[k - 1] = g[k - 1]
        BY <3>3
      <4>2. k \in 0..n
        BY <3>3
      <4>3. g[k] = Taken(g[k - 1], listing[k], fo)
        BY <2>1, <3>3, <4>2
      <4> HIDE DEF h
      <4>4. QED BY <3>3, <4>1, <4>3
    <3>4. CASE k = n + 1
      BY <3>4
    <3>5. QED BY <3>2, <3>3, <3>4
  <2>3. Unfolds(n + 1, h)
    <3> HIDE DEF h
    <3>1. h = [k \in 0..n + 1 |-> h[k]]
      BY DEF h
    <3>2. QED BY <2>2, <3>1
  <2>4. QED
    <3> HIDE DEF h, Unfolds
    <3>1. QED BY <2>3
<1>3. Nat \subseteq Some
  <2> HIDE DEF Some
  <2>1. QED BY <1>1, <1>2, Induction
<1> DEFINE N == Len(listing)
           v == CHOOSE w : w = [k \in 0..N |-> IF k = 0 THEN [used |-> 0, lines |-> <<>>] ELSE Taken(w[k - 1], listing[k], fo)]
<1>4. \E w : Unfolds(N, w)
  <2>1. N \in Nat
    OBVIOUS
  <2> HIDE DEF Unfolds, N
  <2>2. QED BY <1>3, <2>1
<1>5. Unfolds(N, v)
  <2> HIDE DEF N
  <2>1. QED BY <1>4
<1>6. AutoFill(listing, fo) = v[N].lines
  BY DEF AutoFill
<1>7. QED
  <2> HIDE DEF v
  <2>1. QED BY <1>5, <1>6

LEMMA AutoFillLines ==
  ASSUME NEW listing, IsSeq(listing), \A i \in DOMAIN listing : listing[i] \in Hosts, NEW fo
  PROVE  Lines(AutoFill(listing, fo))
<1>1. Len(listing) \in Nat /\ DOMAIN listing = 1..Len(listing)
  BY IsSeqProperties
<1>2. PICK w : /\ w = [k \in 0..Len(listing) |->
                          IF k = 0 THEN [used |-> 0, lines |-> <<>>] ELSE Taken(w[k - 1], listing[k], fo)]
               /\ AutoFill(listing, fo) = w[Len(listing)].lines
  BY <1>1, AutoFillUnfolds
<1> DEFINE T == {k \in Nat : k <= Len(listing) => Lines(w[k].lines)}
<1>3. 0 \in T
  <2>1. w[0] = [used |-> 0, lines |-> <<>>]
    BY <1>1, <1>2
  <2>2. QED BY <2>1, EmptyLines
<1>4. ASSUME NEW k \in Nat, k \in T PROVE k + 1 \in T
  <2>1. CASE k + 1 <= Len(listing)
    <3> DEFINE acc == w[k]
               h == listing[k + 1]
    <3>1. Lines(acc.lines) /\ h \in Hosts
      BY <1>1, <1>4, <2>1
    <3>2. w[k + 1] = Taken(acc, h, fo)
      <4>1. k + 1 \in 1..Len(listing) /\ (k + 1) - 1 = k
        BY <1>1, <2>1
      <4>2. QED BY <1>2, <4>1
    <3> HIDE DEF acc, h
    <3>3. Taken(acc, h, fo) = acc \/ Taken(acc, h, fo).lines = Append(acc.lines, NewLine(h, NamesOf(acc.lines)))
      BY DEF Taken
    <3>4. Lines(Append(acc.lines, NewLine(h, NamesOf(acc.lines))))
      BY <3>1, NewLineShaped, AppendLines
    <3>5. Lines(w[k + 1].lines)
      BY <3>1, <3>2, <3>3, <3>4
    <3>6. QED BY <3>5
  <2>2. QED BY <2>1
<1>5. Nat \subseteq T
  <2> HIDE DEF T
  <2>1. QED BY <1>3, <1>4, Induction
<1>6. QED BY <1>1, <1>2, <1>5

LEMMA AppendedUnfolds ==
  ASSUME NEW fs, NEW listing, Len(listing) \in Nat
  PROVE  \E w : /\ w = [k \in 0..Len(listing) |-> IF k = 0 THEN fs ELSE Listing(w[k - 1], listing[k])]
               /\ Appended(fs, listing) = w[Len(listing)]
<1> DEFINE Unfolds(n, g) == g = [k \in 0..n |-> IF k = 0 THEN fs ELSE Listing(g[k - 1], listing[k])]
           Some == {n \in Nat : \E g : Unfolds(n, g)}
<1>1. 0 \in Some
  <2>1. Unfolds(0, [k \in 0..0 |-> fs])
    OBVIOUS
  <2>2. QED BY <2>1
<1>2. ASSUME NEW n \in Nat, n \in Some PROVE n + 1 \in Some
  <2>1. PICK g : Unfolds(n, g)
    BY <1>2
  <2> DEFINE h == [k \in 0..n + 1 |-> IF k <= n THEN g[k] ELSE Listing(g[n], listing[n + 1])]
  <2>2. \A k \in 0..n + 1 : h[k] = IF k = 0 THEN fs ELSE Listing(h[k - 1], listing[k])
    <3>1. TAKE k \in 0..n + 1
    <3>2. CASE k = 0
      BY <2>1, <3>2
    <3>3. CASE k # 0 /\ k <= n
      <4>1. h[k] = g[k] /\ h[k - 1] = g[k - 1]
        BY <3>3
      <4>2. k \in 0..n
        BY <3>3
      <4>3. g[k] = Listing(g[k - 1], listing[k])
        BY <2>1, <3>3, <4>2
      <4> HIDE DEF h
      <4>4. QED BY <3>3, <4>1, <4>3
    <3>4. CASE k = n + 1
      BY <3>4
    <3>5. QED BY <3>2, <3>3, <3>4
  <2>3. Unfolds(n + 1, h)
    <3> HIDE DEF h
    <3>1. h = [k \in 0..n + 1 |-> h[k]]
      BY DEF h
    <3>2. QED BY <2>2, <3>1
  <2>4. QED
    <3> HIDE DEF h, Unfolds
    <3>1. QED BY <2>3
<1>3. Nat \subseteq Some
  <2> HIDE DEF Some
  <2>1. QED BY <1>1, <1>2, Induction
<1> DEFINE N == Len(listing)
           v == CHOOSE w : w = [k \in 0..N |-> IF k = 0 THEN fs ELSE Listing(w[k - 1], listing[k])]
<1>4. \E w : Unfolds(N, w)
  <2>1. N \in Nat
    OBVIOUS
  <2> HIDE DEF Unfolds, N
  <2>2. QED BY <1>3, <2>1
<1>5. Unfolds(N, v)
  <2> HIDE DEF N
  <2>1. QED BY <1>4
<1>6. Appended(fs, listing) = v[N]
  BY DEF Appended
<1>7. QED
  <2> HIDE DEF v
  <2>1. QED BY <1>5, <1>6

LEMMA AppendedLines ==
  ASSUME NEW fs, Lines(fs),
         NEW listing, IsSeq(listing), \A i \in DOMAIN listing : listing[i] \in Hosts
  PROVE  Lines(Appended(fs, listing))
<1>1. Len(listing) \in Nat /\ DOMAIN listing = 1..Len(listing)
  BY IsSeqProperties
<1>2. PICK w : /\ w = [k \in 0..Len(listing) |-> IF k = 0 THEN fs ELSE Listing(w[k - 1], listing[k])]
               /\ Appended(fs, listing) = w[Len(listing)]
  BY <1>1, AppendedUnfolds
<1> DEFINE T == {k \in Nat : k <= Len(listing) => Lines(w[k])}
<1>3. 0 \in T
  BY <1>1, <1>2
<1>4. ASSUME NEW k \in Nat, k \in T PROVE k + 1 \in T
  <2>1. CASE k + 1 <= Len(listing)
    <3> DEFINE acc == w[k]
               h == listing[k + 1]
    <3>1. Lines(acc) /\ h \in Hosts
      BY <1>1, <1>4, <2>1
    <3>2. w[k + 1] = Listing(acc, h)
      <4>1. k + 1 \in 1..Len(listing) /\ (k + 1) - 1 = k
        BY <1>1, <2>1
      <4>2. QED BY <1>2, <4>1
    <3> HIDE DEF acc, h
    <3>3. Listing(acc, h) = acc \/ Listing(acc, h) = Append(acc, NewLine(h, NamesOf(acc)))
      BY DEF Listing
    <3>4. Lines(Append(acc, NewLine(h, NamesOf(acc))))
      BY <3>1, NewLineShaped, AppendLines
    <3>5. Lines(w[k + 1])
      BY <3>1, <3>2, <3>3, <3>4
    <3>6. QED BY <3>5
  <2>2. QED BY <2>1
<1>5. Nat \subseteq T
  <2> HIDE DEF T
  <2>1. QED BY <1>3, <1>4, Induction
<1>6. Lines(w[Len(listing)])
  BY <1>1, <1>5
<1>7. QED BY <1>2, <1>6

LEMMA RescanOK ==
  ASSUME NEW v, VolumeOK(v), NEW fo, FolderOK(fo)
  PROVE  VolumeOK(Rescan(v, fo)) /\ Apart(Rescan(v, fo).slots)
<1> DEFINE fs == IF v.edited /\ Parses(v.text) THEN v.text ELSE v.files
           listing == Kept(HostOrder, {h \in Hosts : fo[h] # Absent /\ (mode = "listed" => h \in HostsOf(fs))})
           there == Kept(fs, {f \in ToSet(fs) : f.host \in ToSet(listing)})
           new == IF fs = <<>> THEN AutoFill(listing, fo) ELSE Appended(there, listing)
           after == Rescan(v, fo)
<1>1. /\ after.files = new
      /\ after.text = (IF mode = "descriptor" /\ new # fs THEN new ELSE v.text)
      /\ after.slots = LayOut(new, v.slots, fo)
  <2>1. after = [files |-> new, text |-> IF mode = "descriptor" /\ new # fs THEN new ELSE v.text,
                 edited |-> FALSE, slots |-> LayOut(new, v.slots, fo)]
    BY ZenonT(30) DEF Rescan
  <2> HIDE DEF after, new
  <2>2. QED BY <2>1
<1>2. Lines(fs)
  <2>1. Lines(v.files) /\ (Parses(v.text) => Lines(v.text))
    BY DEF VolumeOK, TextOK, Parses
  <2>2. QED BY <2>1
<1> HIDE DEF fs, after
<1>3. IsSeq(listing) /\ \A i \in DOMAIN listing : listing[i] \in Hosts
  BY KeptHosts
<1> HIDE DEF listing
<1>4. Lines(there)
  BY <1>2, KeptLines
<1> HIDE DEF there
<1>5. Lines(AutoFill(listing, fo))
  BY <1>3, AutoFillLines
<1>6. Lines(Appended(there, listing))
  BY <1>3, <1>4, AppendedLines
<1>7. Lines(new)
  BY <1>5, <1>6
<1> HIDE DEF new
<1>8. v.slots \in [Hosts -> Slot] /\ TextOK(v.text)
  BY DEF VolumeOK
<1>9. LayOut(new, v.slots, fo) \in [Hosts -> Slot] /\ Apart(LayOut(new, v.slots, fo))
  BY <1>7, <1>8, LayOutDisjoint
<1>10. TextOK(after.text)
  BY <1>1, <1>7, <1>8 DEF TextOK
<1>11. QED BY <1>1, <1>7, <1>9, <1>10 DEF VolumeOK, after

-----------------------------------------------------------------------------
(* The directory read: its entries are typed.                               *)

LEMMA FirstBefore ==
  ASSUME NEW fs, Lines(fs), NEW sl \in [Hosts -> Slot], NEW left \in SUBSET DOMAIN fs, left # {}
  PROVE  \E x \in left : \A j \in left \ {x} : Before(fs, sl, x, j)
<1> DEFINE start(i) == sl[fs[i].host].start
           Starts == {start(i) : i \in left}
<1>1. \A i \in left : start(i) \in Nat /\ i \in Nat
  BY IsSeqProperties DEF Lines, Slot
<1>2. PICK m \in Starts : \A k \in Starts : m <= k
  <2>1. Starts \in SUBSET Nat /\ Starts # {}
    BY <1>1
  <2> HIDE DEF Starts
  <2>2. QED BY <2>1, FirstOf
<1> DEFINE Tied == {i \in left : start(i) = m}
<1>3. PICK x \in Tied : \A j \in Tied : x <= j
  <2>1. Tied \in SUBSET Nat /\ Tied # {}
    BY <1>1, <1>2
  <2> HIDE DEF Tied
  <2>2. QED BY <2>1, FirstOf
<1>4. ASSUME NEW j \in left \ {x} PROVE Before(fs, sl, x, j)
  <2>1. start(x) = m /\ m <= start(j) /\ start(j) \in Nat /\ m \in Nat
    BY <1>1, <1>2, <1>3
  <2>2. start(j) = m => x < j
    <3>1. x \in Nat /\ j \in Nat /\ j # x
      BY <1>1, <1>3
    <3>2. start(j) = m => x <= j
      BY <1>3
    <3>3. QED BY <3>1, <3>2
  <2>3. start(x) < start(j) \/ (start(x) = start(j) /\ x < j)
    <3> HIDE DEF start
    <3>1. QED BY <2>1, <2>2
  <2>4. QED BY <2>3 DEF Before
<1>5. x \in left
  BY <1>3
<1>6. QED BY <1>4, <1>5

LEMMA AppendEntries ==
  ASSUME NEW es, Entries(es), NEW e, IsEntry(e)
  PROVE  Entries(Append(es, e))
<1>1. IsSeq(es) /\ Len(es) \in Nat /\ DOMAIN es = 1..Len(es)
  BY IsSeqProperties DEF Entries
<1>2. /\ IsSeq(Append(es, e)) /\ DOMAIN Append(es, e) = 1..Len(es) + 1
      /\ \A i \in 1..Len(es) + 1 : Append(es, e)[i] = IF i = Len(es) + 1 THEN e ELSE es[i]
  BY <1>1, AppendIs
<1>3. ASSUME NEW i \in 1..Len(es) + 1 PROVE IsEntry(Append(es, e)[i])
  <2>1. CASE i = Len(es) + 1
    BY <1>2, <2>1
  <2>2. CASE i \in 1..Len(es)
    BY <1>1, <1>2, <2>2 DEF Entries
  <2>3. QED BY <1>1, <2>1, <2>2
<1>4. QED BY <1>2, <1>3 DEF Entries

LEMMA EmptyEntries == Entries(<<>>)
BY EmptyIs DEF Entries

LEMMA RenderedOK ==
  ASSUME NEW fs, Lines(fs), NEW sl \in [Hosts -> Slot],
         NEW acc, acc.left \in SUBSET DOMAIN fs, Entries(acc.entries)
  PROVE  Rendered(acc, fs, sl).left \in SUBSET DOMAIN fs /\ Entries(Rendered(acc, fs, sl).entries)
<1> DEFINE i == CHOOSE x \in acc.left : \A j \in acc.left \ {x} : Before(fs, sl, x, j)
           slot == sl[fs[i].host]
           es == acc.entries
           end == IF es = <<>> THEN 1 ELSE es[Len(es)].start + es[Len(es)].len
           entry == [name |-> fs[i].name, len |-> slot.blocks, tent |-> slot.tent,
                     prot |-> fs[i].prot /\ ~slot.tent, start |-> IF slot.start > end THEN slot.start ELSE end]
<1>1. CASE acc.left = {}
  BY <1>1 DEF Rendered
<1>2. CASE acc.left # {}
  <2>1. /\ Rendered(acc, fs, sl).left = acc.left \ {i}
        /\ Rendered(acc, fs, sl).entries = Append(es, entry)
    BY <1>2 DEF Rendered
  <2>2. i \in acc.left
    BY <1>2, FirstBefore
  <2> HIDE DEF i
  <2>3. slot \in Slot
    BY <2>2 DEF Lines
  <2>4. end \in Nat
    <3>1. CASE es = <<>>
      BY <3>1
    <3>2. CASE es # <<>>
      <4>1. IsSeq(es) /\ es \in Seq(ToSet(es)) /\ Len(es) \in Nat /\ DOMAIN es = 1..Len(es)
        BY IsSeqProperties DEF Entries, IsSeq
      <4>2. Len(es) \in 1..Len(es)
        <5>1. Len(es) # 0
          BY <3>2, <4>1, EmptySeq
        <5>2. QED BY <4>1, <5>1
      <4>3. IsEntry(es[Len(es)])
        BY <4>1, <4>2 DEF Entries
      <4>4. QED BY <3>2, <4>3 DEF IsEntry
    <3>3. QED BY <3>1, <3>2
  <2> HIDE DEF slot, end
  <2>5. IsEntry(entry)
    BY <2>3, <2>4 DEF IsEntry, Slot
  <2> HIDE DEF entry
  <2>6. Entries(Append(es, entry))
    BY <2>5, AppendEntries
  <2>7. QED BY <2>1, <2>6
<1>3. QED BY <1>1, <1>2

ToRender(fs, sl) == [left |-> {i \in Live(fs) : sl[fs[i].host].start > 0}, entries |-> <<>>]

LEMMA DirectoryUnfolds ==
  ASSUME NEW fs, NEW sl, Len(fs) \in Nat
  PROVE  \E w : /\ w = [k \in 0..Len(fs) |-> IF k = 0 THEN ToRender(fs, sl) ELSE Rendered(w[k - 1], fs, sl)]
               /\ Directory(fs, sl) = w[Len(fs)].entries
<1> DEFINE Unfolds(n, g) == g = [k \in 0..n |-> IF k = 0 THEN ToRender(fs, sl) ELSE Rendered(g[k - 1], fs, sl)]
           Some == {n \in Nat : \E g : Unfolds(n, g)}
<1>1. 0 \in Some
  <2>1. Unfolds(0, [k \in 0..0 |-> ToRender(fs, sl)])
    OBVIOUS
  <2>2. QED BY <2>1
<1>2. ASSUME NEW n \in Nat, n \in Some PROVE n + 1 \in Some
  <2>1. PICK g : Unfolds(n, g)
    BY <1>2
  <2> DEFINE h == [k \in 0..n + 1 |-> IF k <= n THEN g[k] ELSE Rendered(g[n], fs, sl)]
  <2>2. \A k \in 0..n + 1 : h[k] = IF k = 0 THEN ToRender(fs, sl) ELSE Rendered(h[k - 1], fs, sl)
    <3>1. TAKE k \in 0..n + 1
    <3>2. CASE k = 0
      BY <2>1, <3>2
    <3>3. CASE k # 0 /\ k <= n
      <4>1. h[k] = g[k] /\ h[k - 1] = g[k - 1]
        BY <3>3
      <4>2. k \in 0..n
        BY <3>3
      <4>3. g[k] = Rendered(g[k - 1], fs, sl)
        BY <2>1, <3>3, <4>2
      <4> HIDE DEF h
      <4>4. QED BY <3>3, <4>1, <4>3
    <3>4. CASE k = n + 1
      BY <3>4
    <3>5. QED BY <3>2, <3>3, <3>4
  <2>3. Unfolds(n + 1, h)
    <3> HIDE DEF h
    <3>1. h = [k \in 0..n + 1 |-> h[k]]
      BY DEF h
    <3>2. QED BY <2>2, <3>1
  <2>4. QED
    <3> HIDE DEF h, Unfolds
    <3>1. QED BY <2>3
<1>3. Nat \subseteq Some
  <2> HIDE DEF Some
  <2>1. QED BY <1>1, <1>2, Induction
<1> DEFINE N == Len(fs)
           v == CHOOSE w : w = [k \in 0..N |-> IF k = 0 THEN ToRender(fs, sl) ELSE Rendered(w[k - 1], fs, sl)]
<1>4. \E w : Unfolds(N, w)
  <2>1. N \in Nat
    OBVIOUS
  <2> HIDE DEF Unfolds, N
  <2>2. QED BY <1>3, <2>1
<1>5. Unfolds(N, v)
  <2> HIDE DEF N
  <2>1. QED BY <1>4
<1>6. Directory(fs, sl) = v[N].entries
  BY DEF Directory, ToRender
<1>7. QED
  <2> HIDE DEF v
  <2>1. QED BY <1>5, <1>6

LEMMA DirectoryOK ==
  ASSUME NEW fs, Lines(fs), NEW sl \in [Hosts -> Slot]
  PROVE  Entries(Directory(fs, sl))
<1>1. Len(fs) \in Nat /\ DOMAIN fs = 1..Len(fs)
  BY IsSeqProperties DEF Lines
<1> DEFINE first == ToRender(fs, sl)
<1>2. PICK w : /\ w = [k \in 0..Len(fs) |-> IF k = 0 THEN first ELSE Rendered(w[k - 1], fs, sl)]
               /\ Directory(fs, sl) = w[Len(fs)].entries
  BY <1>1, DirectoryUnfolds
<1> DEFINE Good(acc) == acc.left \in SUBSET DOMAIN fs /\ Entries(acc.entries)
           T == {k \in Nat : k <= Len(fs) => Good(w[k])}
<1>3. Good(first)
  BY EmptyEntries DEF ToRender, Live
<1> HIDE DEF first
<1>4. 0 \in T
  BY <1>1, <1>2, <1>3
<1>5. ASSUME NEW k \in Nat, k \in T PROVE k + 1 \in T
  <2>1. CASE k + 1 <= Len(fs)
    <3>1. Good(w[k])
      BY <1>1, <1>5, <2>1
    <3>2. k + 1 \in 1..Len(fs) /\ (k + 1) - 1 = k
      BY <1>1, <2>1
    <3>3. w[k + 1] = Rendered(w[k], fs, sl)
      BY <1>2, <3>2
    <3>4. Good(Rendered(w[k], fs, sl))
      BY <3>1, RenderedOK
    <3> HIDE DEF Good
    <3>5. Good(w[k + 1])
      BY <3>3, <3>4
    <3>6. QED BY <3>5
  <2>2. QED BY <2>1
<1>6. Nat \subseteq T
  <2> HIDE DEF T
  <2>1. QED BY <1>4, <1>5, Induction
<1>7. Good(w[Len(fs)])
  <2> HIDE DEF Good
  <2>1. QED BY <1>1, <1>6
<1>8. QED BY <1>2, <1>7

-----------------------------------------------------------------------------
(* The directory written: which entry is which line's.                      *)

LEMMA JoinedOK ==
  ASSUME NEW es, Entries(es), NEW made, \A p \in made : p[1] \in DOMAIN es,
         NEW k \in 1..3 * Len(es)
  PROVE  \A p \in Joined(made, es, k) : p[1] \in DOMAIN es
<1> DEFINE e == 1 + ((k - 1) % Len(es))
<1>1. Len(es) \in Nat /\ DOMAIN es = 1..Len(es)
  BY IsSeqProperties DEF Entries
<1>2. e \in DOMAIN es
  <2>1. Len(es) # 0
    BY <1>1
  <2>2. Len(es) \in Nat \ {0} /\ k - 1 \in Nat
    BY <1>1, <2>1
  <2>3. (k - 1) % Len(es) \in 0..Len(es) - 1
    BY <2>2
  <2>4. QED BY <1>1, <2>3
<1>3. ASSUME NEW p \in Joined(made, es, k), p \notin made PROVE p[1] = e
  BY <1>3 DEF Joined
<1>4. QED BY <1>2, <1>3

LEMMA MatchedUnfolds ==
  ASSUME NEW es, 3 * Len(es) \in Nat
  PROVE  \E w : /\ w = [k \in 0..3 * Len(es) |-> IF k = 0 THEN {} ELSE Joined(w[k - 1], es, k)]
               /\ Matched(es) = w[3 * Len(es)]
<1> DEFINE Unfolds(n, g) == g = [k \in 0..n |-> IF k = 0 THEN {} ELSE Joined(g[k - 1], es, k)]
           Some == {n \in Nat : \E g : Unfolds(n, g)}
<1>1. 0 \in Some
  <2>1. Unfolds(0, [k \in 0..0 |-> {}])
    OBVIOUS
  <2>2. QED BY <2>1
<1>2. ASSUME NEW n \in Nat, n \in Some PROVE n + 1 \in Some
  <2>1. PICK g : Unfolds(n, g)
    BY <1>2
  <2> DEFINE h == [k \in 0..n + 1 |-> IF k <= n THEN g[k] ELSE Joined(g[n], es, n + 1)]
  <2>2. \A k \in 0..n + 1 : h[k] = IF k = 0 THEN {} ELSE Joined(h[k - 1], es, k)
    <3>1. TAKE k \in 0..n + 1
    <3>2. CASE k = 0
      BY <2>1, <3>2
    <3>3. CASE k # 0 /\ k <= n
      <4>1. h[k] = g[k] /\ h[k - 1] = g[k - 1]
        BY <3>3
      <4>2. k \in 0..n
        BY <3>3
      <4>3. g[k] = Joined(g[k - 1], es, k)
        BY <2>1, <3>3, <4>2
      <4> HIDE DEF h
      <4>4. QED BY <3>3, <4>1, <4>3
    <3>4. CASE k = n + 1
      BY <3>4
    <3>5. QED BY <3>2, <3>3, <3>4
  <2>3. Unfolds(n + 1, h)
    <3> HIDE DEF h
    <3>1. h = [k \in 0..n + 1 |-> h[k]]
      BY DEF h
    <3>2. QED BY <2>2, <3>1
  <2>4. QED
    <3> HIDE DEF h, Unfolds
    <3>1. QED BY <2>3
<1>3. Nat \subseteq Some
  <2> HIDE DEF Some
  <2>1. QED BY <1>1, <1>2, Induction
<1> DEFINE N == 3 * Len(es)
           v == CHOOSE w : w = [k \in 0..N |-> IF k = 0 THEN {} ELSE Joined(w[k - 1], es, k)]
<1>4. \E w : Unfolds(N, w)
  <2>1. N \in Nat
    OBVIOUS
  <2> HIDE DEF Unfolds, N
  <2>2. QED BY <1>3, <2>1
<1>5. Unfolds(N, v)
  <2> HIDE DEF N
  <2>1. QED BY <1>4
<1>6. Matched(es) = v[N]
  BY DEF Matched
<1>7. QED
  <2> HIDE DEF v
  <2>1. QED BY <1>5, <1>6

LEMMA MatchedOK ==
  ASSUME NEW es, Entries(es)
  PROVE  \A p \in Matched(es) : p[1] \in DOMAIN es
<1> DEFINE N == 3 * Len(es)
<1>1. N \in Nat
  BY IsSeqProperties DEF Entries
<1>2. PICK w : /\ w = [k \in 0..3 * Len(es) |-> IF k = 0 THEN {} ELSE Joined(w[k - 1], es, k)]
               /\ Matched(es) = w[3 * Len(es)]
  BY <1>1, MatchedUnfolds
<1>3. w = [k \in 0..N |-> IF k = 0 THEN {} ELSE Joined(w[k - 1], es, k)] /\ Matched(es) = w[N]
  BY <1>2
<1> DEFINE Good(made) == \A p \in made : p[1] \in DOMAIN es
           T == {k \in Nat : k <= N => Good(w[k])}
<1>4. \A made : \A k \in 1..N : Good(made) => Good(Joined(made, es, k))
  BY JoinedOK
<1> HIDE DEF N
<1>5. 0 \in T
  BY <1>1, <1>3
<1>6. ASSUME NEW k \in Nat, k \in T PROVE k + 1 \in T
  <2>1. CASE k + 1 <= N
    <3>1. Good(w[k])
      BY <1>1, <1>6, <2>1
    <3>2. k + 1 \in 1..N /\ (k + 1) - 1 = k
      BY <1>1, <2>1
    <3> HIDE DEF Good
    <3>3. w[k + 1] = Joined(w[k], es, k + 1)
      <4>1. w[k + 1] = Joined(w[(k + 1) - 1], es, k + 1)
        BY <1>1, <1>3, <3>2, SMTT(30)
      <4>2. QED BY <3>2, <4>1
    <3>4. Good(Joined(w[k], es, k + 1))
      BY <1>4, <3>1, <3>2
    <3>5. Good(w[k + 1])
      BY <3>3, <3>4
    <3>6. QED BY <3>5
  <2>2. QED BY <2>1
<1>7. Nat \subseteq T
  <2> HIDE DEF T
  <2>1. QED BY <1>5, <1>6, Induction
<1>8. Good(w[N])
  <2> HIDE DEF Good
  <2>1. QED BY <1>1, <1>7
<1>9. QED BY <1>3, <1>8

-----------------------------------------------------------------------------
(* Its entries landed.  Work is what a directory write has in hand.         *)

Work(w) ==
  /\ w = [files |-> w.files, created |-> w.created, folder |-> w.folder, slots |-> w.slots, scratch |-> w.scratch]
  /\ Lines(w.files)
  /\ IsSeq(w.created) /\ \A i \in DOMAIN w.created : Shaped(w.created[i])
  /\ FolderOK(w.folder)
  /\ w.slots \in [Hosts -> Slot]

LEMMA BlocksOf ==
  ASSUME NEW n \in Nat, NEW g, g = [i \in 1..n |-> g[i]]
  PROVE  Blocks(g) \in Nat
BY FunctionIs DEF Blocks

LEMMA FolderKept ==
  ASSUME NEW fo, FolderOK(fo), NEW h, NEW content, Blocks(content) \in Nat
  PROVE  FolderOK([fo EXCEPT ![h] = content])
<1>1. fo = [g \in Hosts |-> fo[g]] /\ \A g \in Hosts : Blocks(fo[g]) \in Nat
  BY DEF FolderOK
<1> DEFINE new == [fo EXCEPT ![h] = content]
<1>2. new = [g \in Hosts |-> IF g = h THEN content ELSE fo[g]]
  BY <1>1
<1> HIDE DEF new
<1>3. ASSUME NEW g \in Hosts PROVE Blocks(new[g]) \in Nat
  <2>1. CASE g = h
    BY <1>2, <2>1
  <2>2. CASE g # h
    BY <1>1, <1>2, <2>2
  <2>3. QED BY <2>1, <2>2
<1>4. new = [g \in Hosts |-> new[g]]
  BY <1>2
<1>5. QED BY <1>3, <1>4 DEF FolderOK, new

LEMMA SlotOfOK ==
  ASSUME NEW e, IsEntry(e)
  PROVE  SlotOf(e) \in Slot
BY DEF IsEntry, SlotOf, Slot

LEMMA FittedOK ==
  ASSUME NEW content, Blocks(content) \in Nat, NEW slot, NEW e, IsEntry(e)
  PROVE  Blocks(Fitted(content, slot, e)) \in Nat
<1>1. e.len \in Nat
  BY DEF IsEntry
<1>2. Blocks(Resized(content, e.len)) \in Nat
  <2>1. Resized(content, e.len) = [k \in 1..e.len |-> Resized(content, e.len)[k]]
    BY DEF Resized
  <2>2. QED BY <1>1, <2>1, BlocksOf
<1>3. Fitted(content, slot, e) = content \/ Fitted(content, slot, e) = Resized(content, e.len)
  BY DEF Fitted
<1>4. QED BY <1>2, <1>3

LEMMA AdoptedOK ==
  ASSUME NEW w, Work(w), NEW es, Entries(es), NEW matched, \A p \in matched : p[1] \in DOMAIN es
  PROVE  Work(Adopted(w, es, matched))
<1> DEFINE by(h) == {p \in matched : w.files[p[2]].host = h}
           entry(h) == es[(CHOOSE p \in by(h) : TRUE)[1]]
           line(i) == {p \in matched : p[2] = i}
           mine(i) == es[(CHOOSE p \in line(i) : TRUE)[1]]
           fo == [h \in Hosts |-> IF by(h) = {} THEN w.folder[h] ELSE Fitted(w.folder[h], w.slots[h], entry(h))]
           sl == [h \in Hosts |-> IF by(h) = {} THEN w.slots[h] ELSE SlotOf(entry(h))]
           fs == [i \in DOMAIN w.files |-> IF line(i) = {} THEN w.files[i]
                    ELSE [w.files[i] EXCEPT !.name = mine(i).name, !.prot = mine(i).prot]]
<1>1. w = [files |-> w.files, created |-> w.created, folder |-> w.folder, slots |-> w.slots, scratch |-> w.scratch]
  BY DEF Work
<1>2. Adopted(w, es, matched) = [files |-> fs, created |-> w.created, folder |-> fo, slots |-> sl, scratch |-> w.scratch]
  <2>1. Adopted(w, es, matched) = [w EXCEPT !.folder = fo, !.slots = sl, !.files = fs]
    BY DEF Adopted
  <2> HIDE DEF fo, sl, fs
  <2>2. QED BY <1>1, <2>1
<1>3. \A h : by(h) # {} => IsEntry(entry(h))
  <2>1. TAKE h
  <2>2. HAVE by(h) # {}
  <2>3. (CHOOSE p \in by(h) : TRUE) \in matched
    BY <2>2
  <2>4. QED BY <2>3 DEF Entries
<1> HIDE DEF by, entry, line, mine
<1>4. \A h \in Hosts : Blocks(fo[h]) \in Nat /\ sl[h] \in Slot
  <2>1. TAKE h \in Hosts
  <2>2. Blocks(w.folder[h]) \in Nat /\ w.slots[h] \in Slot
    BY DEF Work, FolderOK
  <2>3. CASE by(h) = {}
    BY <2>2, <2>3
  <2>4. CASE by(h) # {}
    <3>1. IsEntry(entry(h))
      BY <1>3, <2>4
    <3>2. Blocks(Fitted(w.folder[h], w.slots[h], entry(h))) \in Nat /\ SlotOf(entry(h)) \in Slot
      BY <2>2, <3>1, FittedOK, SlotOfOK
    <3>3. QED BY <2>4, <3>2
  <2>5. QED BY <2>3, <2>4
<1>5. FolderOK(fo)
  <2>1. fo = [h \in Hosts |-> fo[h]]
    OBVIOUS
  <2> HIDE DEF fo
  <2>2. QED BY <1>4, <2>1 DEF FolderOK
<1>6. sl \in [Hosts -> Slot]
  <2>1. sl = [h \in Hosts |-> sl[h]]
    OBVIOUS
  <2> HIDE DEF sl
  <2>2. QED BY <1>4, <2>1
<1>7. Lines(fs)
  <2>1. Len(w.files) \in Nat /\ DOMAIN w.files = 1..Len(w.files)
    BY IsSeqProperties DEF Work, Lines
  <2>2. IsSeq(fs) /\ DOMAIN fs = DOMAIN w.files
    <3>1. fs = [i \in 1..Len(w.files) |-> fs[i]]
      BY <2>1
    <3> HIDE DEF fs
    <3>2. QED BY <2>1, <3>1, FunctionIs
  <2>3. ASSUME NEW i \in DOMAIN w.files PROVE Shaped(fs[i]) /\ fs[i].host \in Hosts
    <3>1. Shaped(w.files[i]) /\ w.files[i].host \in Hosts
      BY DEF Work, Lines
    <3>2. CASE line(i) = {}
      BY <3>1, <3>2
    <3>3. CASE line(i) # {}
      <4>1. fs[i] = [w.files[i] EXCEPT !.name = mine(i).name, !.prot = mine(i).prot]
        BY <3>3
      <4>2. QED BY <3>1, <4>1 DEF Shaped
    <3>4. QED BY <3>2, <3>3
  <2> HIDE DEF fs
  <2>4. QED BY <2>2, <2>3 DEF Lines
<1> HIDE DEF fs, fo, sl
<1>8. QED BY <1>2, <1>5, <1>6, <1>7 DEF Work

LEMMA CreatedOK ==
  ASSUME NEW w, Work(w), NEW e, IsEntry(e)
  PROVE  Work(Created(w, e))
<1> DEFINE taken == {h \in Hosts : w.folder[h] # Absent /\ (mode = "listed" => h \in HostsOf(w.files))}
           host == FirstFree(Unmangled[e.name], taken)
           staged == {k \in 1..e.len : w.scratch[e.start + k - 1] # Absent}
           size == IF ~e.tent THEN e.len ELSE IF staged = {} THEN 0 ELSE CHOOSE k \in staged : \A j \in staged : j <= k
           content == [k \in 1..size |-> IF k \in staged THEN w.scratch[e.start + k - 1] ELSE Zero]
           f == [name |-> e.name, host |-> host, prot |-> e.prot, deleted |-> FALSE]
           rest == [b \in 1..Room |-> IF b \in e.start..(e.start + size - 1) THEN Absent ELSE w.scratch[b]]
<1>1. w = [files |-> w.files, created |-> w.created, folder |-> w.folder, slots |-> w.slots, scratch |-> w.scratch]
  BY DEF Work
<1>2. Created(w, e) = [files |-> w.files, created |-> Append(w.created, f), folder |-> [w.folder EXCEPT ![host] = content],
                       slots |-> [w.slots EXCEPT ![host] = SlotOf(e)], scratch |-> rest]
  <2>1. Created(w, e) = [w EXCEPT !.created = Append(w.created, f), !.folder[host] = content,
                                  !.slots[host] = SlotOf(e), !.scratch = rest]
    BY DEF Created
  <2> HIDE DEF f, host, content, rest
  <2>2. QED BY <1>1, <2>1
<1>3. size \in Nat
  <2>1. e.len \in Nat
    BY DEF IsEntry
  <2>2. CASE staged = {}
    BY <2>1, <2>2
  <2>3. CASE staged # {}
    <3>1. staged \in SUBSET (1..e.len)
      OBVIOUS
    <3> HIDE DEF staged
    <3>2. (CHOOSE k \in staged : \A j \in staged : j <= k) \in 1..e.len
      <4>1. \E k \in staged : \A j \in staged : j <= k
        BY <2>1, <2>3, <3>1, LastOf
      <4>2. QED BY <3>1, <4>1
    <3>3. QED BY <2>1, <2>3, <3>2
  <2>4. QED BY <2>2, <2>3
<1>4. Blocks(content) \in Nat
  <2>1. content = [k \in 1..size |-> content[k]]
    OBVIOUS
  <2> HIDE DEF content, size
  <2>2. QED BY <1>3, <2>1, BlocksOf
<1>5. Shaped(f)
  BY DEF Shaped
<1> HIDE DEF content, size, host, f, rest
<1>6. FolderOK([w.folder EXCEPT ![host] = content])
  BY <1>4, FolderKept DEF Work
<1>7. [w.slots EXCEPT ![host] = SlotOf(e)] \in [Hosts -> Slot]
  BY SlotOfOK DEF Work
<1>8. IsSeq(Append(w.created, f)) /\ \A i \in DOMAIN Append(w.created, f) : Shaped(Append(w.created, f)[i])
  <2> DEFINE cr == w.created
  <2>1. IsSeq(cr) /\ Len(cr) \in Nat /\ DOMAIN cr = 1..Len(cr) /\ \A i \in DOMAIN cr : Shaped(cr[i])
    BY IsSeqProperties DEF Work
  <2> HIDE DEF cr
  <2>2. /\ IsSeq(Append(cr, f)) /\ DOMAIN Append(cr, f) = 1..Len(cr) + 1
        /\ \A i \in 1..Len(cr) + 1 : Append(cr, f)[i] = IF i = Len(cr) + 1 THEN f ELSE cr[i]
    BY <2>1, AppendIs
  <2>3. ASSUME NEW i \in 1..Len(cr) + 1 PROVE Shaped(Append(cr, f)[i])
    <3>1. CASE i = Len(cr) + 1
      BY <1>5, <2>2, <3>1
    <3>2. CASE i \in 1..Len(cr)
      BY <2>1, <2>2, <3>2
    <3>3. QED BY <2>1, <3>1, <3>2
  <2>4. QED BY <2>2, <2>3 DEF cr
<1>9. Lines(w.files)
  BY DEF Work
<1>10. QED BY <1>2, <1>6, <1>7, <1>8, <1>9 DEF Work

ToLand(es, matched) ==
  Adopted([files |-> files, created |-> <<>>, folder |-> folder, slots |-> slots, scratch |-> scratch], es, matched)
Unseen(es, matched) == ToSet(es) \ {es[p[1]] : p \in matched}

LEMMA LandedUnfolds ==
  ASSUME NEW es, NEW matched, NEW new, new = Kept(es, Unseen(es, matched)), Len(new) \in Nat
  PROVE  \E w : /\ w = [k \in 0..Len(new) |-> IF k = 0 THEN ToLand(es, matched) ELSE Created(w[k - 1], new[k])]
               /\ Landed(es, matched) = w[Len(new)]
<1> DEFINE Unfolds(n, g) == g = [k \in 0..n |-> IF k = 0 THEN ToLand(es, matched) ELSE Created(g[k - 1], new[k])]
           Some == {n \in Nat : \E g : Unfolds(n, g)}
<1>1. 0 \in Some
  <2>1. Unfolds(0, [k \in 0..0 |-> ToLand(es, matched)])
    OBVIOUS
  <2>2. QED BY <2>1
<1>2. ASSUME NEW n \in Nat, n \in Some PROVE n + 1 \in Some
  <2>1. PICK g : Unfolds(n, g)
    BY <1>2
  <2> DEFINE h == [k \in 0..n + 1 |-> IF k <= n THEN g[k] ELSE Created(g[n], new[n + 1])]
  <2>2. \A k \in 0..n + 1 : h[k] = IF k = 0 THEN ToLand(es, matched) ELSE Created(h[k - 1], new[k])
    <3>1. TAKE k \in 0..n + 1
    <3>2. CASE k = 0
      BY <2>1, <3>2
    <3>3. CASE k # 0 /\ k <= n
      <4>1. h[k] = g[k] /\ h[k - 1] = g[k - 1]
        BY <3>3
      <4>2. k \in 0..n
        BY <3>3
      <4>3. g[k] = Created(g[k - 1], new[k])
        BY <2>1, <3>3, <4>2
      <4> HIDE DEF h
      <4>4. QED BY <3>3, <4>1, <4>3
    <3>4. CASE k = n + 1
      BY <3>4
    <3>5. QED BY <3>2, <3>3, <3>4
  <2>3. Unfolds(n + 1, h)
    <3> HIDE DEF h
    <3>1. h = [k \in 0..n + 1 |-> h[k]]
      BY DEF h
    <3>2. QED BY <2>2, <3>1
  <2>4. QED
    <3> HIDE DEF h, Unfolds
    <3>1. QED BY <2>3
<1>3. Nat \subseteq Some
  <2> HIDE DEF Some
  <2>1. QED BY <1>1, <1>2, Induction
<1> DEFINE N == Len(new)
           v == CHOOSE w : w = [k \in 0..N |-> IF k = 0 THEN ToLand(es, matched) ELSE Created(w[k - 1], new[k])]
<1>4. \E w : Unfolds(N, w)
  <2>1. N \in Nat
    OBVIOUS
  <2> HIDE DEF Unfolds, N
  <2>2. QED BY <1>3, <2>1
<1>5. Unfolds(N, v)
  <2> HIDE DEF N
  <2>1. QED BY <1>4
<1>6. Landed(es, matched) = v[N]
  BY DEF Landed, ToLand, Unseen
<1>7. QED
  <2> HIDE DEF v
  <2>1. QED BY <1>5, <1>6

LEMMA LandedOK ==
  ASSUME TypeInv, NEW es, Entries(es), NEW matched, \A p \in matched : p[1] \in DOMAIN es
  PROVE  Work(Landed(es, matched))
<1> DEFINE new == Kept(es, Unseen(es, matched))
<1>1. Entries(new)
  BY KeptEntries
<1> HIDE DEF new
<1>2. Len(new) \in Nat /\ DOMAIN new = 1..Len(new)
  BY <1>1, IsSeqProperties DEF Entries
<1>3. PICK w : /\ w = [k \in 0..Len(new) |-> IF k = 0 THEN ToLand(es, matched) ELSE Created(w[k - 1], new[k])]
               /\ Landed(es, matched) = w[Len(new)]
  BY <1>2, LandedUnfolds DEF new
<1> DEFINE T == {k \in Nat : k <= Len(new) => Work(w[k])}
<1>4. Work(ToLand(es, matched))
  <2> DEFINE first == [files |-> files, created |-> <<>>, folder |-> folder, slots |-> slots, scratch |-> scratch]
  <2>1. Work(first)
    <3>1. Lines(files) /\ slots \in [Hosts -> Slot] /\ FolderOK(folder)
      BY DEF TypeInv, VolumeOK, Volume
    <3>2. QED BY <3>1, EmptyIs DEF Work
  <2> HIDE DEF first
  <2>2. Work(Adopted(first, es, matched))
    BY <2>1, AdoptedOK
  <2>3. QED BY <2>2 DEF ToLand, first
<1>5. 0 \in T
  BY <1>2, <1>3, <1>4
<1>6. ASSUME NEW k \in Nat, k \in T PROVE k + 1 \in T
  <2>1. CASE k + 1 <= Len(new)
    <3>1. Work(w[k])
      BY <1>2, <1>6, <2>1
    <3>2. k + 1 \in 1..Len(new) /\ (k + 1) - 1 = k
      BY <1>2, <2>1
    <3>3. w[k + 1] = Created(w[k], new[k + 1])
      BY <1>3, <3>2
    <3>4. IsEntry(new[k + 1])
      BY <1>1, <1>2, <3>2 DEF Entries
    <3>5. Work(w[k + 1])
      BY <3>1, <3>3, <3>4, CreatedOK
    <3>6. QED BY <3>5
  <2>2. QED BY <2>1
<1>7. Nat \subseteq T
  <2> HIDE DEF T
  <2>1. QED BY <1>5, <1>6, Induction
<1>8. Work(w[Len(new)])
  BY <1>2, <1>7
<1>9. QED BY <1>3, <1>8

-----------------------------------------------------------------------------
(* And the lines gone whose entries are.                                    *)

Done(w) == Work(w) /\ Lines(w.created)

LEMMA ConcatLines ==
  ASSUME NEW fs, Lines(fs), NEW gs, Lines(gs)
  PROVE  Lines(fs \o gs)
<1>1. IsSeq(fs) /\ IsSeq(gs)
  BY DEF Lines
<1>2. IsSeq(fs \o gs)
  BY <1>1, ConcatIs
<1>3. ASSUME NEW i \in DOMAIN (fs \o gs) PROVE Shaped((fs \o gs)[i]) /\ (fs \o gs)[i].host \in Hosts
  <2> DEFINE f == (fs \o gs)[i]
  <2>1. (i \in DOMAIN fs /\ f = fs[i]) \/ (i - Len(fs) \in DOMAIN gs /\ f = gs[i - Len(fs)])
    BY <1>1, ConcatIs
  <2> HIDE DEF f
  <2>2. Shaped(f) /\ f.host \in Hosts
    BY <2>1 DEF Lines
  <2>3. QED BY <2>2 DEF f
<1>4. QED BY <1>2, <1>3 DEF Lines

LEMMA RenamedLines ==
  ASSUME NEW fs, Lines(fs), NEW h \in Hosts, NEW new, new = [i \in DOMAIN fs |-> new[i]],
         \A i \in DOMAIN fs : new[i] = [fs[i] EXCEPT !.host = h] \/ new[i] = fs[i]
  PROVE  Lines(new)
<1>1. Len(fs) \in Nat /\ DOMAIN fs = 1..Len(fs)
  BY IsSeqProperties DEF Lines
<1>2. ASSUME NEW i \in DOMAIN fs PROVE Shaped(new[i]) /\ new[i].host \in Hosts
  <2>1. Shaped(fs[i]) /\ fs[i].host \in Hosts
    BY DEF Lines
  <2>2. new[i] = [fs[i] EXCEPT !.host = h] \/ new[i] = fs[i]
    OBVIOUS
  <2>3. QED BY <2>1, <2>2 DEF Shaped
<1>3. new = [i \in 1..Len(fs) |-> new[i]]
  BY <1>1
<1>4. IsSeq(new) /\ DOMAIN new = DOMAIN fs
  BY <1>1, <1>3, FunctionIs
<1>5. QED BY <1>2, <1>4 DEF Lines

LEMMA DroppedOK ==
  ASSUME NEW w, Done(w), NEW old, old.host \in Hosts
  PROVE  Done(Dropped(w, old))
<1> DEFINE takes(f) == f.name = old.name /\ f.host # old.host /\ ~f.deleted /\ ~w.slots[f.host].tent
                       /\ w.folder[f.host] # Absent
           all == w.files \o w.created
           heirs == {i \in DOMAIN all : takes(all[i])}
           heir == CHOOSE i \in heirs : \A j \in heirs : i <= j
           from == all[heir].host
           renamed(fs, off) == [i \in DOMAIN fs |-> IF i + off = heir THEN [fs[i] EXCEPT !.host = old.host] ELSE fs[i]]
<1>1. w = [files |-> w.files, created |-> w.created, folder |-> w.folder, slots |-> w.slots, scratch |-> w.scratch]
  BY DEF Done, Work
<1>2. /\ Lines(w.files) /\ Lines(w.created) /\ FolderOK(w.folder) /\ w.slots \in [Hosts -> Slot]
  BY DEF Done, Work
<1>3. NoSlot \in Slot /\ Blocks(Absent) = 0
  BY DEF NoSlot, Slot, Blocks
<1>4. CASE heirs = {}
  <2>1. Dropped(w, old) = [w EXCEPT !.folder[old.host] = Absent, !.slots[old.host] = NoSlot]
    BY <1>4 DEF Dropped
  <2>2. Dropped(w, old) = [files |-> w.files, created |-> w.created, folder |-> [w.folder EXCEPT ![old.host] = Absent],
                           slots |-> [w.slots EXCEPT ![old.host] = NoSlot], scratch |-> w.scratch]
    BY <1>1, <2>1
  <2>3. FolderOK([w.folder EXCEPT ![old.host] = Absent])
    BY <1>2, <1>3, FolderKept
  <2>4. [w.slots EXCEPT ![old.host] = NoSlot] \in [Hosts -> Slot]
    BY <1>2, <1>3
  <2>5. QED BY <1>2, <2>2, <2>3, <2>4 DEF Done, Work, Lines
<1>5. CASE heirs # {}
  <2> DEFINE fo == [w.folder EXCEPT ![old.host] = w.folder[from], ![from] = Absent]
             sl == [w.slots EXCEPT ![old.host] = w.slots[from], ![from] = NoSlot]
             fs == renamed(w.files, 0)
             cr == renamed(w.created, Len(w.files))
  <2>1. Dropped(w, old) = [w EXCEPT !.folder = fo, !.slots = sl, !.files = fs, !.created = cr]
    BY <1>5 DEF Dropped
  <2>2. from \in Hosts
    <3>1. IsSeq(all) /\ \A i \in DOMAIN all : all[i].host \in Hosts
      BY <1>2, ConcatLines DEF Lines
    <3>2. heirs \in SUBSET Nat
      <4>1. DOMAIN all = 1..Len(all) /\ Len(all) \in Nat
        BY <3>1, IsSeqProperties
      <4> HIDE DEF all
      <4>2. QED BY <4>1
    <3>3. \E i \in heirs : \A j \in heirs : i <= j
      <4> HIDE DEF heirs
      <4>1. QED BY <1>5, <3>2, FirstOf
    <3>4. heir \in heirs
      <4> HIDE DEF heirs
      <4>1. QED BY <3>3
    <3>5. heir \in DOMAIN all
      BY <3>4
    <3> HIDE DEF heir, all
    <3>6. QED BY <3>1, <3>5
  <2>3. Lines(fs) /\ Lines(cr)
    <3> HIDE DEF heir
    <3>1. /\ fs = [i \in DOMAIN w.files |->
                    IF i + 0 = heir THEN [w.files[i] EXCEPT !.host = old.host] ELSE w.files[i]]
          /\ cr = [i \in DOMAIN w.created |-> IF i + Len(w.files) = heir
                                           THEN [w.created[i] EXCEPT !.host = old.host] ELSE w.created[i]]
      OBVIOUS
    <3> HIDE DEF fs, cr
    <3>2. /\ fs = [i \in DOMAIN w.files |-> fs[i]]
          /\ \A i \in DOMAIN w.files : fs[i] = [w.files[i] EXCEPT !.host = old.host] \/ fs[i] = w.files[i]
      BY <3>1
    <3>3. /\ cr = [i \in DOMAIN w.created |-> cr[i]]
          /\ \A i \in DOMAIN w.created : cr[i] = [w.created[i] EXCEPT !.host = old.host] \/ cr[i] = w.created[i]
      BY <3>1
    <3>4. Lines(fs)
      BY <1>2, <3>2, RenamedLines
    <3>5. Lines(cr)
      BY <1>2, <3>3, RenamedLines
    <3>6. QED BY <3>4, <3>5
  <2> HIDE DEF from, heir, fs, cr
  <2>4. Dropped(w, old) = [files |-> fs, created |-> cr, folder |-> fo, slots |-> sl, scratch |-> w.scratch]
    <3> HIDE DEF fo, sl
    <3>1. QED BY <1>1, <2>1
  <2>5. FolderOK(fo)
    <3>1. Blocks(w.folder[from]) \in Nat
      BY <1>2, <2>2 DEF FolderOK
    <3>2. FolderOK([w.folder EXCEPT ![old.host] = w.folder[from]])
      BY <1>2, <3>1, FolderKept
    <3>3. FolderOK([[w.folder EXCEPT ![old.host] = w.folder[from]] EXCEPT ![from] = Absent])
      BY <1>3, <3>2, FolderKept
    <3>4. fo = [[w.folder EXCEPT ![old.host] = w.folder[from]] EXCEPT ![from] = Absent]
      OBVIOUS
    <3>5. QED BY <3>3, <3>4
  <2>6. sl \in [Hosts -> Slot]
    BY <1>2, <1>3, <2>2
  <2> HIDE DEF fo, sl
  <2>7. QED BY <2>3, <2>4, <2>5, <2>6 DEF Done, Work, Lines
<1>6. QED BY <1>4, <1>5

ToGo(w, lines) == [w EXCEPT !.files = Kept(@, ToSet(@) \ lines)]

LEMMA GoneUnfolds ==
  ASSUME NEW hand, NEW lines, mode # "descriptor", NEW old, old = Kept(hand.files, lines), Len(old) \in Nat
  PROVE  \E w : /\ w = [k \in 0..Len(old) |-> IF k = 0 THEN ToGo(hand, lines) ELSE Dropped(w[k - 1], old[k])]
               /\ Gone(hand, lines) = w[Len(old)]
<1> DEFINE Unfolds(n, g) == g = [k \in 0..n |-> IF k = 0 THEN ToGo(hand, lines) ELSE Dropped(g[k - 1], old[k])]
           Some == {n \in Nat : \E g : Unfolds(n, g)}
<1>1. 0 \in Some
  <2>1. Unfolds(0, [k \in 0..0 |-> ToGo(hand, lines)])
    OBVIOUS
  <2>2. QED BY <2>1
<1>2. ASSUME NEW n \in Nat, n \in Some PROVE n + 1 \in Some
  <2>1. PICK g : Unfolds(n, g)
    BY <1>2
  <2> DEFINE h == [k \in 0..n + 1 |-> IF k <= n THEN g[k] ELSE Dropped(g[n], old[n + 1])]
  <2>2. \A k \in 0..n + 1 : h[k] = IF k = 0 THEN ToGo(hand, lines) ELSE Dropped(h[k - 1], old[k])
    <3>1. TAKE k \in 0..n + 1
    <3>2. CASE k = 0
      BY <2>1, <3>2
    <3>3. CASE k # 0 /\ k <= n
      <4>1. h[k] = g[k] /\ h[k - 1] = g[k - 1]
        BY <3>3
      <4>2. k \in 0..n
        BY <3>3
      <4>3. g[k] = Dropped(g[k - 1], old[k])
        BY <2>1, <3>3, <4>2
      <4> HIDE DEF h
      <4>4. QED BY <3>3, <4>1, <4>3
    <3>4. CASE k = n + 1
      BY <3>4
    <3>5. QED BY <3>2, <3>3, <3>4
  <2>3. Unfolds(n + 1, h)
    <3> HIDE DEF h
    <3>1. h = [k \in 0..n + 1 |-> h[k]]
      BY DEF h
    <3>2. QED BY <2>2, <3>1
  <2>4. QED
    <3> HIDE DEF h, Unfolds
    <3>1. QED BY <2>3
<1>3. Nat \subseteq Some
  <2> HIDE DEF Some
  <2>1. QED BY <1>1, <1>2, Induction
<1> DEFINE N == Len(old)
           v == CHOOSE w : w = [k \in 0..N |-> IF k = 0 THEN ToGo(hand, lines) ELSE Dropped(w[k - 1], old[k])]
<1>4. \E w : Unfolds(N, w)
  <2>1. N \in Nat
    OBVIOUS
  <2> HIDE DEF Unfolds, N
  <2>2. QED BY <1>3, <2>1
<1>5. Unfolds(N, v)
  <2> HIDE DEF N
  <2>1. QED BY <1>4
<1>6. Gone(hand, lines) = v[N]
  BY DEF Gone, ToGo
<1>7. QED
  <2> HIDE DEF v
  <2>1. QED BY <1>5, <1>6

LEMMA GoneOK ==
  ASSUME NEW hand, Done(hand), NEW lines
  PROVE  Done(Gone(hand, lines))
<1>1. hand = [files |-> hand.files, created |-> hand.created, folder |-> hand.folder,
              slots |-> hand.slots, scratch |-> hand.scratch]
  BY DEF Done, Work
<1>2. Lines(hand.files)
  BY DEF Done, Work
<1>3. CASE mode = "descriptor"
  <2> DEFINE fs == [i \in DOMAIN hand.files |-> IF hand.files[i] \in lines THEN [hand.files[i] EXCEPT !.deleted = TRUE]
                                               ELSE hand.files[i]]
  <2>1. Gone(hand, lines) = [hand EXCEPT !.files = fs]
    BY <1>3 DEF Gone
  <2>2. Lines(fs)
    <3>1. Len(hand.files) \in Nat /\ DOMAIN hand.files = 1..Len(hand.files)
      BY <1>2, IsSeqProperties DEF Lines
    <3>2. ASSUME NEW i \in DOMAIN hand.files PROVE Shaped(fs[i]) /\ fs[i].host \in Hosts
      <4>1. Shaped(hand.files[i]) /\ hand.files[i].host \in Hosts
        BY <1>2 DEF Lines
      <4>2. fs[i] = [hand.files[i] EXCEPT !.deleted = TRUE] \/ fs[i] = hand.files[i]
        OBVIOUS
      <4> HIDE DEF fs
      <4>3. QED BY <4>1, <4>2 DEF Shaped
    <3>3. fs = [i \in 1..Len(hand.files) |-> fs[i]]
      BY <3>1
    <3> HIDE DEF fs
    <3>4. IsSeq(fs) /\ DOMAIN fs = DOMAIN hand.files
      BY <3>1, <3>3, FunctionIs
    <3>5. QED BY <3>2, <3>4 DEF Lines
  <2> HIDE DEF fs
  <2>3. Gone(hand, lines) = [files |-> fs, created |-> hand.created, folder |-> hand.folder,
                             slots |-> hand.slots, scratch |-> hand.scratch]
    BY <1>1, <2>1
  <2>4. QED BY <2>2, <2>3 DEF Done, Work
<1>4. CASE mode # "descriptor"
  <2> DEFINE old == Kept(hand.files, lines)
  <2>1. Lines(old)
    BY <1>2, KeptLines
  <2> HIDE DEF old
  <2>2. Len(old) \in Nat /\ DOMAIN old = 1..Len(old)
    BY <2>1, IsSeqProperties DEF Lines
  <2>3. PICK w : /\ w = [k \in 0..Len(old) |-> IF k = 0 THEN ToGo(hand, lines) ELSE Dropped(w[k - 1], old[k])]
                 /\ Gone(hand, lines) = w[Len(old)]
    BY <1>4, <2>2, GoneUnfolds DEF old
  <2> DEFINE T == {k \in Nat : k <= Len(old) => Done(w[k])}
  <2>4. Done(ToGo(hand, lines))
    <3> DEFINE fs == Kept(hand.files, ToSet(hand.files) \ lines)
    <3>1. Lines(fs)
      BY <1>2, KeptLines
    <3>2. ToGo(hand, lines) = [hand EXCEPT !.files = fs]
      BY DEF ToGo
    <3> HIDE DEF fs
    <3>3. ToGo(hand, lines) = [files |-> fs, created |-> hand.created, folder |-> hand.folder,
                               slots |-> hand.slots, scratch |-> hand.scratch]
      BY <1>1, <3>2
    <3>4. QED BY <3>1, <3>3 DEF Done, Work
  <2>5. 0 \in T
    BY <2>2, <2>3, <2>4
  <2>6. ASSUME NEW k \in Nat, k \in T PROVE k + 1 \in T
    <3>1. CASE k + 1 <= Len(old)
      <4>1. Done(w[k])
        BY <2>2, <2>6, <3>1
      <4>2. k + 1 \in 1..Len(old) /\ (k + 1) - 1 = k
        BY <2>2, <3>1
      <4>3. w[k + 1] = Dropped(w[k], old[k + 1])
        BY <2>3, <4>2
      <4>4. old[k + 1].host \in Hosts
        BY <2>1, <2>2, <4>2 DEF Lines
      <4>5. Done(w[k + 1])
        BY <4>1, <4>3, <4>4, DroppedOK
      <4>6. QED BY <4>5
    <3>2. QED BY <3>1
  <2>7. Nat \subseteq T
    <3> HIDE DEF T
    <3>1. QED BY <2>5, <2>6, Induction
  <2>8. Done(w[Len(old)])
    BY <2>2, <2>7
  <2>9. QED BY <2>3, <2>8
<1>5. QED BY <1>3, <1>4

-----------------------------------------------------------------------------
(* The invariant.                                                           *)

LEMMA VolumeNext ==
  ASSUME NEW v, VolumeOK(v), files' = v.files, text' = v.text, slots' = v.slots
  PROVE  VolumeOK(Volume)'
BY DEF VolumeOK, Volume

LEMMA WriteDirectoryInv == IInv /\ WriteDirectory => IInv'
<1> SUFFICES ASSUME IInv, WriteDirectory PROVE IInv'
  OBVIOUS
<1> DEFINE matched == Matched(guest.entries)
           landed == Landed(guest.entries, matched)
           done == Gone(landed, {files[i] : i \in Live(files) \ {p[2] : p \in matched}})
           lines == done.files \o done.created
           saved == [files |-> lines, text |-> IF mode = "descriptor" THEN lines ELSE text,
                     edited |-> FALSE, slots |-> done.slots]
           v == Rescan(saved, done.folder)
<1>1. TypeInv /\ TextOK(text) /\ OpenOK(open) /\ Entries(guest.entries)
  BY DEF IInv, TypeInv, VolumeOK, Volume, GuestOK
<1>2. /\ HostsOf(landed.created) \subseteq Hosts
      /\ folder' = done.folder /\ open' = open /\ guest' = NotRead
      /\ files' = v.files /\ text' = v.text /\ slots' = v.slots
  BY DEF WriteDirectory, Becomes
<1>3. Work(landed)
  <2>1. \A p \in matched : p[1] \in DOMAIN guest.entries
    BY <1>1, MatchedOK
  <2> HIDE DEF matched
  <2>2. QED BY <1>1, <2>1, LandedOK
<1> HIDE DEF landed
<1>4. Done(landed)
  BY <1>2, <1>3 DEF Done, Work, Lines, HostsOf
<1>5. Done(done)
  BY <1>4, GoneOK
<1> HIDE DEF done
<1>6. Lines(lines)
  <2>1. Lines(done.files) /\ Lines(done.created)
    BY <1>5 DEF Done, Work
  <2>2. QED BY <2>1, ConcatLines
<1> HIDE DEF lines
<1>7. VolumeOK(saved) /\ FolderOK(done.folder)
  BY <1>1, <1>5, <1>6 DEF VolumeOK, TextOK, Done, Work
<1> HIDE DEF saved
<1>8. VolumeOK(v) /\ Apart(v.slots)
  BY <1>7, RescanOK
<1> HIDE DEF v
<1>9. VolumeOK(Volume)'
  BY <1>2, <1>8, VolumeNext
<1>10. GuestOK(guest')
  BY <1>2, EmptyEntries DEF NotRead, GuestOK
<1>11. QED BY <1>1, <1>2, <1>7, <1>8, <1>9, <1>10 DEF IInv, TypeInv

LEMMA ReadDirectoryInv == IInv /\ ReadDirectory => IInv'
<1> SUFFICES ASSUME IInv, ReadDirectory PROVE IInv'
  OBVIOUS
<1> DEFINE v == Rescan(Volume, folder)
<1>1. VolumeOK(Volume) /\ FolderOK(folder) /\ OpenOK(open)
  BY DEF IInv, TypeInv
<1>2. VolumeOK(v) /\ Apart(v.slots)
  BY <1>1, RescanOK
<1>3. /\ files' = v.files /\ text' = v.text /\ slots' = v.slots /\ folder' = folder /\ open' = open
      /\ guest' = [read |-> TRUE, dirty |-> FALSE, entries |-> Directory(v.files, v.slots)]
  BY DEF ReadDirectory, Becomes
<1> HIDE DEF v
<1>4. Entries(Directory(v.files, v.slots))
  BY <1>2, DirectoryOK DEF VolumeOK
<1>5. GuestOK(guest')
  BY <1>3, <1>4 DEF GuestOK
<1>6. VolumeOK(Volume)'
  BY <1>2, <1>3, VolumeNext
<1>7. QED BY <1>1, <1>2, <1>3, <1>5, <1>6 DEF IInv, TypeInv

(* The guest changes its copy: the entries, and the file it writes.         *)
LEMMA EditedInv ==
  ASSUME IInv, NEW es, Entries(es), Edited(es), OpenOK(open'), UNCHANGED <<volume, folder>>
  PROVE  IInv'
<1>1. VolumeOK(Volume)' /\ FolderOK(folder') /\ Apart(slots')
  BY DEF IInv, TypeInv, volume, Volume
<1>2. GuestOK(guest')
  BY DEF IInv, TypeInv, GuestOK, Edited
<1>3. QED BY <1>1, <1>2 DEF IInv, TypeInv

LEMMA OpenTyped == IInv => OpenOK(open) /\ Entries(guest.entries)
BY DEF IInv, TypeInv, GuestOK

LEMMA MappedEntries ==
  ASSUME NEW es, Entries(es), NEW new, new = [k \in DOMAIN es |-> new[k]],
         \A k \in DOMAIN es : IsEntry(new[k])
  PROVE  Entries(new)
<1>1. Len(es) \in Nat /\ DOMAIN es = 1..Len(es)
  BY IsSeqProperties DEF Entries
<1>2. new = [k \in 1..Len(es) |-> new[k]]
  BY <1>1
<1>3. IsSeq(new) /\ DOMAIN new = DOMAIN es
  BY <1>1, <1>2, FunctionIs
<1>4. QED BY <1>3 DEF Entries

LEMMA ConcatEntries ==
  ASSUME NEW es, Entries(es), NEW fs, Entries(fs)
  PROVE  Entries(es \o fs)
<1>1. IsSeq(es) /\ IsSeq(fs)
  BY DEF Entries
<1>2. IsSeq(es \o fs)
  BY <1>1, ConcatIs
<1>3. ASSUME NEW i \in DOMAIN (es \o fs) PROVE IsEntry((es \o fs)[i])
  <2> DEFINE e == (es \o fs)[i]
  <2>1. (i \in DOMAIN es /\ e = es[i]) \/ (i - Len(es) \in DOMAIN fs /\ e = fs[i - Len(es)])
    BY <1>1, ConcatIs
  <2> HIDE DEF e
  <2>2. IsEntry(e)
    BY <2>1 DEF Entries
  <2>3. QED BY <2>2 DEF e
<1>4. QED BY <1>2, <1>3 DEF Entries

LEMMA EnterInv == ASSUME NEW n \in Enters, NEW len \in Sizes PROVE IInv /\ Enter(n, len) => IInv'
<1> SUFFICES ASSUME IInv, Enter(n, len) PROVE IInv'
  OBVIOUS
<1> DEFINE es == guest.entries
           ends == {1} \cup {es[k].start + es[k].len : k \in DOMAIN es}
           first(p) == Kept(es, {x \in ToSet(es) : x.start + x.len <= p})
           rest(p) == Kept(es, {x \in ToSet(es) : x.start + x.len > p})
           e(p) == [name |-> n, start |-> p, len |-> len, tent |-> TRUE, prot |-> FALSE]
<1>1. PICK p \in ends :
        /\ Edited(first(p) \o <<e(p)>> \o rest(p))
        /\ open' = [name |-> n, start |-> p, len |-> len, sent |-> <<>>, spoilt |-> FALSE]
  BY DEF Enter
<1>2. Entries(es)
  BY OpenTyped
<1>3. p \in Nat /\ len \in Nat
  <2>1. \A k \in DOMAIN es : es[k].start \in Nat /\ es[k].len \in Nat
    BY <1>2 DEF Entries, IsEntry
  <2>2. len \in Nat
    BY FolderAssumption DEF FolderAssumption
  <2> HIDE DEF es
  <2>3. QED BY <2>1, <2>2
<1>4. Entries(first(p)) /\ Entries(rest(p))
  BY <1>2, KeptEntries
<1>5. Entries(<<e(p)>>)
  <2>1. IsEntry(e(p))
    BY <1>3 DEF IsEntry
  <2> HIDE DEF e
  <2>2. <<e(p)>> = Append(<<>>, e(p))
    OBVIOUS
  <2>3. Entries(Append(<<>>, e(p)))
    BY <2>1, AppendEntries, EmptyEntries
  <2>4. QED BY <2>2, <2>3
<1> HIDE DEF e, first, rest
<1>6. Entries(first(p) \o <<e(p)>> \o rest(p))
  <2>1. Entries(first(p) \o <<e(p)>>)
    BY <1>4, <1>5, ConcatEntries
  <2>2. QED BY <1>4, <2>1, ConcatEntries
<1>7. OpenOK(open')
  BY <1>1, EmptyIs DEF OpenOK
<1>8. UNCHANGED <<volume, folder>>
  BY DEF Enter
<1>9. QED BY <1>1, <1>6, <1>7, <1>8, EditedInv

LEMMA CloseInv == IInv /\ Close => IInv'
<1> SUFFICES ASSUME IInv, Close PROVE IInv'
  OBVIOUS
<1> DEFINE mine(e) == e.tent /\ e.name = open.name /\ e.start = open.start
           left == Without(guest.entries, open.name)
           new == [k \in DOMAIN left |->
                     IF mine(left[k]) THEN [left[k] EXCEPT !.tent = FALSE, !.len = Len(open.sent)] ELSE left[k]]
<1>1. Edited(new) /\ open' = NoOpen /\ UNCHANGED <<volume, folder>>
  BY DEF Close
<1>2. Entries(left)
  BY OpenTyped, KeptEntries DEF Without
<1>3. Len(open.sent) \in Nat
  BY OpenTyped, IsSeqProperties DEF OpenOK
<1>4. Entries(new)
  <2>1. ASSUME NEW k \in DOMAIN left PROVE IsEntry(new[k])
    <3>1. IsEntry(left[k])
      BY <1>2 DEF Entries
    <3>2. new[k] = [left[k] EXCEPT !.tent = FALSE, !.len = Len(open.sent)] \/ new[k] = left[k]
      OBVIOUS
    <3> HIDE DEF new, left
    <3>3. QED BY <1>3, <3>1, <3>2 DEF IsEntry
  <2>2. new = [k \in DOMAIN left |-> new[k]]
    OBVIOUS
  <2> HIDE DEF new, left
  <2>3. QED BY <1>2, <2>1, <2>2, MappedEntries
<1>5. OpenOK(open')
  BY <1>1, EmptyIs DEF OpenOK, NoOpen
<1> HIDE DEF new
<1>6. QED BY <1>1, <1>4, <1>5, EditedInv

LEMMA DeleteInv == ASSUME NEW n \in Names PROVE IInv /\ Delete(n) => IInv'
<1> SUFFICES ASSUME IInv, Delete(n) PROVE IInv'
  OBVIOUS
<1>1. Entries(Without(guest.entries, n))
  BY OpenTyped, KeptEntries DEF Without
<1>2. OpenOK(open') /\ Edited(Without(guest.entries, n)) /\ UNCHANGED <<volume, folder>>
  BY OpenTyped DEF Delete
<1>3. QED BY <1>1, <1>2, EditedInv

LEMMA RenameInv == ASSUME NEW n \in Names, NEW to \in Enters PROVE IInv /\ Rename(n, to) => IInv'
<1> SUFFICES ASSUME IInv, Rename(n, to) PROVE IInv'
  OBVIOUS
<1> DEFINE es == guest.entries
           new == [k \in DOMAIN es |-> IF k \in Closed(n) THEN [es[k] EXCEPT !.name = to] ELSE es[k]]
<1>1. Edited(new) /\ OpenOK(open') /\ UNCHANGED <<volume, folder>>
  BY OpenTyped DEF Rename
<1>2. Entries(new)
  <2>1. ASSUME NEW k \in DOMAIN es PROVE IsEntry(new[k])
    <3>1. IsEntry(es[k])
      BY OpenTyped DEF Entries
    <3>2. new[k] = [es[k] EXCEPT !.name = to] \/ new[k] = es[k]
      OBVIOUS
    <3> HIDE DEF new, es
    <3>3. QED BY <3>1, <3>2 DEF IsEntry
  <2>2. new = [k \in DOMAIN es |-> new[k]] /\ Entries(es)
    BY OpenTyped
  <2> HIDE DEF new, es
  <2>3. QED BY <2>1, <2>2, MappedEntries
<1> HIDE DEF new
<1>3. QED BY <1>1, <1>2, EditedInv

LEMMA ProtectInv == ASSUME NEW n \in Names PROVE IInv /\ Protect(n) => IInv'
<1> SUFFICES ASSUME IInv, Protect(n) PROVE IInv'
  OBVIOUS
<1> DEFINE es == guest.entries
           new == [k \in DOMAIN es |-> IF k \in Closed(n) THEN [es[k] EXCEPT !.prot = ~@] ELSE es[k]]
<1>1. Edited(new) /\ OpenOK(open') /\ UNCHANGED <<volume, folder>>
  BY OpenTyped DEF Protect
<1>2. Entries(new)
  <2>1. ASSUME NEW k \in DOMAIN es PROVE IsEntry(new[k])
    <3>1. IsEntry(es[k])
      BY OpenTyped DEF Entries
    <3>2. new[k] = [es[k] EXCEPT !.prot = ~@] \/ new[k] = es[k]
      OBVIOUS
    <3> HIDE DEF new, es
    <3>3. QED BY <3>1, <3>2 DEF IsEntry
  <2>2. new = [k \in DOMAIN es |-> new[k]] /\ Entries(es)
    BY OpenTyped
  <2> HIDE DEF new, es
  <2>3. QED BY <2>1, <2>2, MappedEntries
<1> HIDE DEF new
<1>3. QED BY <1>1, <1>2, EditedInv

LEMMA WriteBlockOK ==
  ASSUME IInv, NEW b, NEW v, WriteBlock(b, v)
  PROVE  FolderOK(folder')
<1> DEFINE at == {h \in InPlace(slots) : b \in slots[h].start..(End(slots[h]) - 1)}
           h == CHOOSE x \in at : TRUE
           k == b - slots[h].start + 1
           content == IF folder[h] = Absent THEN folder[h] ELSE Put(folder[h], k, v)
<1>1. FolderOK(folder) /\ slots \in [Hosts -> Slot]
  BY DEF IInv, TypeInv, VolumeOK, Volume
<1>2. CASE at = {}
  BY <1>1, <1>2 DEF WriteBlock
<1>3. CASE at # {}
  <2>1. folder' = [folder EXCEPT ![h] = content]
    BY <1>3 DEF WriteBlock
  <2>2. h \in at
    BY <1>3
  <2>3. h \in Hosts /\ b \in slots[h].start..(End(slots[h]) - 1)
    BY <2>2 DEF InPlace
  <2> HIDE DEF h, at
  <2>4. k \in Nat
    <3>1. slots[h].start \in Nat /\ End(slots[h]) \in Nat
      BY <1>1, <2>3 DEF Slot, End
    <3>2. QED BY <2>3, <3>1
  <2>5. Blocks(content) \in Nat
    <3>1. CASE folder[h] = Absent
      BY <3>1 DEF Blocks
    <3>2. CASE folder[h] # Absent
      <4> DEFINE n == IF k > Len(folder[h]) THEN k ELSE Len(folder[h])
                 g == Put(folder[h], k, v)
      <4>1. n \in Nat
        BY <1>1, <2>3, <2>4, <3>2 DEF FolderOK, Blocks
      <4>2. g = [j \in 1..n |-> g[j]]
        BY DEF Put
      <4> HIDE DEF g, n
      <4>3. Blocks(g) \in Nat
        BY <4>1, <4>2, BlocksOf
      <4>4. QED BY <3>2, <4>3 DEF g
    <3>3. QED BY <3>1, <3>2
  <2> HIDE DEF content
  <2>6. QED BY <1>1, <2>1, <2>5, FolderKept
<1>4. QED BY <1>2, <1>3

LEMMA WriteNextInv == ASSUME NEW v \in Sent PROVE IInv /\ WriteNext(v) => IInv'
<1> SUFFICES ASSUME IInv, WriteNext(v) PROVE IInv'
  OBVIOUS
<1>1. FolderOK(folder')
  BY WriteBlockOK DEF WriteNext
<1>2. OpenOK(open')
  <2>1. open' = [open EXCEPT !.sent = Append(open.sent, v)] /\ OpenOK(open)
    BY OpenTyped DEF WriteNext
  <2>2. IsSeq(Append(open.sent, v))
    BY <2>1, AppendIs DEF OpenOK
  <2>3. QED BY <2>1, <2>2 DEF OpenOK
<1>3. VolumeOK(Volume)' /\ GuestOK(guest') /\ Apart(slots')
  BY DEF WriteNext, volume, Volume, IInv, TypeInv
<1>4. QED BY <1>1, <1>2, <1>3 DEF IInv, TypeInv

LEMMA WriteInPlaceInv == ASSUME NEW c, NEW k, NEW v PROVE IInv /\ WriteInPlace(c, k, v) => IInv'
<1> SUFFICES ASSUME IInv, WriteInPlace(c, k, v) PROVE IInv'
  OBVIOUS
<1>1. FolderOK(folder')
  BY WriteBlockOK DEF WriteInPlace
<1>2. VolumeOK(Volume)' /\ GuestOK(guest') /\ OpenOK(open') /\ Apart(slots')
  BY DEF WriteInPlace, volume, Volume, IInv, TypeInv
<1>3. QED BY <1>1, <1>2 DEF IInv, TypeInv

LEMMA HostChangesInv ==
  ASSUME NEW h \in Hosts, NEW content \in HostFiles[h]
  PROVE  IInv /\ HostChanges(h, content) => IInv'
<1> SUFFICES ASSUME IInv, HostChanges(h, content) PROVE IInv'
  OBVIOUS
<1>1. Blocks(content) \in Nat
  <2>1. content \in Seq(Block) \/ content = Absent
    BY FolderAssumption DEF FolderAssumption
  <2>2. QED BY <2>1, LenProperties DEF Blocks
<1>2. FolderOK(folder')
  BY <1>1, FolderKept DEF HostChanges, IInv, TypeInv
<1>3. OpenOK(open')
  <2>1. open' = [open EXCEPT !.spoilt = TRUE] \/ open' = open
    BY DEF HostChanges
  <2>2. QED BY <2>1, OpenTyped DEF OpenOK
<1>4. VolumeOK(Volume)' /\ GuestOK(guest') /\ Apart(slots')
  BY DEF HostChanges, volume, Volume, IInv, TypeInv
<1>5. QED BY <1>2, <1>3, <1>4 DEF IInv, TypeInv

LEMMA UserEditsInv == ASSUME NEW t, TextOK(t) PROVE IInv /\ UserEdits(t) => IInv'
<1> SUFFICES ASSUME IInv, UserEdits(t) PROVE IInv'
  OBVIOUS
<1>1. FolderOK(folder') /\ GuestOK(guest') /\ OpenOK(open') /\ Apart(slots')
  BY DEF UserEdits, IInv, TypeInv
<1>2. VolumeOK(Volume)'
  BY DEF UserEdits, IInv, TypeInv, VolumeOK, Volume
<1>3. QED BY <1>1, <1>2 DEF IInv, TypeInv

LEMMA FlippedOK == ASSUME IInv, text # Garbage, NEW i \in DOMAIN text PROVE TextOK(Flipped(i))
<1> DEFINE new == [text EXCEPT ![i].deleted = ~@]
<1>1. Lines(text)
  BY DEF IInv, TypeInv, VolumeOK, Volume, TextOK
<1>2. Len(text) \in Nat /\ DOMAIN text = 1..Len(text) /\ text = [j \in 1..Len(text) |-> text[j]]
  BY <1>1, IsSeqProperties DEF Lines
<1>3. ASSUME NEW j \in DOMAIN text PROVE Shaped(new[j]) /\ new[j].host \in Hosts
  <2>1. Shaped(text[j]) /\ text[j].host \in Hosts
    BY <1>1 DEF Lines
  <2>2. new[j] = text[j] \/ new[j] = [text[j] EXCEPT !.deleted = ~@]
    BY <1>2
  <2> HIDE DEF new
  <2>3. QED BY <2>1, <2>2 DEF Shaped
<1>4. new = [j \in 1..Len(text) |-> new[j]]
  BY <1>2
<1> HIDE DEF new
<1>5. IsSeq(new) /\ DOMAIN new = DOMAIN text
  BY <1>2, <1>4, FunctionIs
<1>6. QED BY <1>3, <1>5 DEF Lines, TextOK, Flipped, new

LEMMA AdmitInv == ASSUME NEW n \in Names PROVE IInv /\ Admit(n) => IInv'
<1> SUFFICES ASSUME IInv, Admit(n) PROVE IInv'
  OBVIOUS
<1> DEFINE listing == Kept(HostOrder, {h \in Hosts : folder[h] # Absent /\ Mangled[h][1] = n /\ h \notin HostsOf(files)})
           line == [name |-> n, host |-> listing[1], prot |-> FALSE, deleted |-> FALSE]
           to == [Volume EXCEPT !.files = Append(files, line)]
           with == Rescan(to, folder)
           less == [Volume EXCEPT !.files = SubSeq(with.files, 1, Len(with.files) - 1), !.slots = with.slots]
           back == Rescan(less, folder)
<1>1. /\ listing # <<>>
      /\ \E v \in {with, back} : files' = v.files /\ text' = v.text /\ slots' = v.slots
      /\ UNCHANGED <<folder, guest, open>>
  BY DEF Admit, Becomes, Volume
<1>2. VolumeOK(Volume) /\ Lines(files) /\ FolderOK(folder) /\ GuestOK(guest) /\ OpenOK(open)
  BY DEF IInv, TypeInv, VolumeOK, Volume
<1>3. listing[1] \in Hosts
  <2>1. IsSeq(listing) /\ \A i \in DOMAIN listing : listing[i] \in Hosts
    BY KeptHosts
  <2> HIDE DEF listing
  <2>2. listing \in Seq(ToSet(listing)) /\ Len(listing) \in Nat /\ DOMAIN listing = 1..Len(listing)
    BY <2>1, IsSeqProperties DEF IsSeq
  <2>3. Len(listing) # 0
    BY <1>1, <2>2, EmptySeq
  <2>4. 1 \in DOMAIN listing
    BY <2>2, <2>3
  <2>5. QED BY <2>1, <2>4
<1> HIDE DEF listing
<1>4. Shaped(line) /\ line.host \in Hosts
  BY <1>3 DEF Shaped
<1> HIDE DEF line
<1>5. Lines(Append(files, line))
  BY <1>2, <1>4, AppendLines
<1>6. VolumeOK(to)
  BY <1>2, <1>5 DEF VolumeOK, Volume
<1> HIDE DEF to
<1>7. VolumeOK(with) /\ Apart(with.slots)
  BY <1>2, <1>6, RescanOK
<1> HIDE DEF with
<1>8. Lines(SubSeq(with.files, 1, Len(with.files) - 1))
  <2> DEFINE fs == with.files
             m == Len(fs) - 1
             sub == SubSeq(fs, 1, m)
  <2>1. Lines(fs) /\ fs \in Seq(ToSet(fs)) /\ Len(fs) \in Nat /\ DOMAIN fs = 1..Len(fs)
    BY <1>7, IsSeqProperties DEF VolumeOK, Lines, IsSeq
  <2> HIDE DEF fs
  <2>2. m \in Int /\ \A i \in 1..m : fs[i] \in ToSet(fs) /\ i \in DOMAIN fs
    BY <2>1 DEF ToSet
  <2> HIDE DEF m
  <2>3. /\ sub \in Seq(ToSet(fs)) /\ Len(sub) = IF 1 <= m THEN m - 1 + 1 ELSE 0
        /\ \A i \in 1..m - 1 + 1 : sub[i] = fs[1 + i - 1]
    BY <2>2, SubSeqProperties
  <2>4. IsSeq(sub) /\ DOMAIN sub = 1..Len(sub)
    BY <2>3, SeqIs, LenProperties
  <2> HIDE DEF sub
  <2>5. \A i \in DOMAIN sub : i \in 1..m /\ sub[i] = fs[i]
    BY <2>2, <2>3, <2>4
  <2>6. QED BY <2>1, <2>2, <2>4, <2>5 DEF Lines, sub, fs, m
<1>9. VolumeOK(less)
  BY <1>2, <1>7, <1>8 DEF VolumeOK, Volume
<1> HIDE DEF less
<1>10. VolumeOK(back) /\ Apart(back.slots)
  BY <1>2, <1>9, RescanOK
<1> HIDE DEF back
<1>11. VolumeOK(Volume)' /\ Apart(slots')
  BY <1>1, <1>7, <1>10, VolumeNext
<1>12. QED BY <1>1, <1>2, <1>11 DEF IInv, TypeInv

LEMMA OpenedOK ==
  ASSUME NEW fo, FolderOK(fo), NEW t, mode = "descriptor" => Lines(t), TextOK(t)
  PROVE  VolumeOK(Opened(fo, t)) /\ Apart(Opened(fo, t).slots)
<1> DEFINE fs == CASE mode = "descriptor" -> t [] mode = "listed" -> Given [] OTHER -> <<>>
           v == [files |-> fs, text |-> t, edited |-> FALSE, slots |-> [h \in Hosts |-> NoSlot]]
<1>1. Lines(Given)
  <2>1. IsSeq(Kept(HostOrder, {h \in Listed : folder[h] # Absent})) /\
        \A i \in DOMAIN Kept(HostOrder, {h \in Listed : folder[h] # Absent}) :
          Kept(HostOrder, {h \in Listed : folder[h] # Absent})[i] \in Hosts
    BY KeptHosts
  <2>2. QED BY <2>1, EmptyLines, AppendedLines DEF Given
<1>2. Lines(fs)
  <2>1. CASE mode = "descriptor"
    BY <2>1
  <2>2. CASE mode = "listed"
    BY <1>1, <2>2
  <2>3. CASE mode # "descriptor" /\ mode # "listed"
    BY <2>3, EmptyLines
  <2>4. QED BY <2>1, <2>2, <2>3
<1> HIDE DEF fs
<1>3. VolumeOK(v)
  BY <1>2 DEF VolumeOK, NoSlot, Slot
<1>4. Opened(fo, t) = Rescan(v, fo)
  BY DEF Opened, fs
<1> HIDE DEF v
<1>5. QED BY <1>3, <1>4, RescanOK

LEMMA RemountInv == IInv /\ Remount => IInv'
<1> SUFFICES ASSUME IInv, Remount PROVE IInv'
  OBVIOUS
<1> DEFINE fo == [h \in Hosts |-> IF mode # "descriptor" /\ slots[h].tent THEN Absent ELSE folder[h]]
           v == Opened(fo, text)
<1>1. /\ mode = "descriptor" => Parses(text)
      /\ folder' = fo /\ guest' = NotRead /\ open' = NoOpen
      /\ files' = v.files /\ text' = v.text /\ slots' = v.slots
  BY DEF Remount, Becomes
<1>2. FolderOK(folder) /\ TextOK(text)
  BY DEF IInv, TypeInv, VolumeOK, Volume
<1>3. FolderOK(fo)
  <2>1. \A h \in Hosts : Blocks(fo[h]) \in Nat
    BY <1>2 DEF FolderOK, Blocks
  <2>2. fo = [h \in Hosts |-> fo[h]]
    OBVIOUS
  <2> HIDE DEF fo
  <2>3. QED BY <2>1, <2>2 DEF FolderOK
<1> HIDE DEF fo
<1>4. mode = "descriptor" => Lines(text)
  BY <1>1, <1>2 DEF Parses, TextOK
<1>5. VolumeOK(v) /\ Apart(v.slots)
  BY <1>2, <1>3, <1>4, OpenedOK
<1> HIDE DEF v
<1>6. VolumeOK(Volume)'
  BY <1>1, <1>5, VolumeNext
<1>7. GuestOK(guest') /\ OpenOK(open')
  BY <1>1, EmptyEntries, EmptyIs DEF NotRead, GuestOK, NoOpen, OpenOK
<1>8. QED BY <1>1, <1>3, <1>5, <1>6, <1>7 DEF IInv, TypeInv

LEMMA InitInv == Init => IInv
<1> SUFFICES ASSUME Init PROVE IInv
  OBVIOUS
<1> DEFINE v == Opened(folder, <<>>)
<1>1. /\ folder \in Folders /\ guest = NotRead /\ open = NoOpen
      /\ files = v.files /\ text = v.text /\ slots = v.slots
  BY DEF Init
<1>2. FolderOK(folder)
  <2>1. folder \in [Hosts -> Seq(Block) \cup {Absent}]
    BY <1>1, FolderAssumption DEF FolderAssumption
  <2>2. ASSUME NEW h \in Hosts PROVE Blocks(folder[h]) \in Nat
    <3>1. folder[h] \in Seq(Block) \/ folder[h] = Absent
      BY <2>1
    <3>2. QED BY <3>1, LenProperties DEF Blocks
  <2>3. QED BY <2>1, <2>2 DEF FolderOK
<1>3. VolumeOK(v) /\ Apart(v.slots)
  BY <1>2, EmptyLines, OpenedOK DEF TextOK
<1> HIDE DEF v
<1>4. VolumeOK(Volume)
  BY <1>1, <1>3 DEF VolumeOK, Volume
<1>5. GuestOK(guest) /\ OpenOK(open)
  BY <1>1, EmptyEntries, EmptyIs DEF NotRead, GuestOK, NoOpen, OpenOK
<1>6. QED BY <1>1, <1>2, <1>3, <1>4, <1>5 DEF IInv, TypeInv

LEMMA NextInv == IInv /\ [Next]_vars => IInv'
<1> SUFFICES ASSUME IInv, [Next]_vars PROVE IInv'
  OBVIOUS
<1>1. CASE ReadDirectory
  BY <1>1, ReadDirectoryInv
<1>2. CASE \E n \in Enters, len \in Sizes : Enter(n, len)
  BY <1>2, EnterInv
<1>3. CASE Close
  BY <1>3, CloseInv
<1>4. CASE \E n \in Names : Delete(n)
  BY <1>4, DeleteInv
<1>5. CASE \E n \in Names, to \in Enters : Rename(n, to)
  BY <1>5, RenameInv
<1>6. CASE \E n \in Names : Protect(n)
  BY <1>6, ProtectInv
<1>7. CASE WriteDirectory
  BY <1>7, WriteDirectoryInv
<1>8. CASE \E v \in Sent : WriteNext(v)
  BY <1>8, WriteNextInv
<1>9. CASE \E c \in closed, v \in Patches : \E k \in DOMAIN c.data : WriteInPlace(c, k, v)
  BY <1>9, WriteInPlaceInv
<1>10. CASE \E h \in Hosts : \E content \in HostFiles[h] : HostChanges(h, content)
  BY <1>10, HostChangesInv
<1>11. CASE UserEdits(Garbage)
  BY <1>11, UserEditsInv DEF TextOK
<1>12. CASE \E i \in DOMAIN text : text # Garbage /\ UserEdits(Flipped(i))
  BY <1>12, FlippedOK, UserEditsInv
<1>13. CASE \E n \in Names : Admit(n)
  BY <1>13, AdmitInv
<1>14. CASE Remount
  BY <1>14, RemountInv
<1>15. CASE UNCHANGED vars
  BY <1>15 DEF vars, IInv, TypeInv, Volume
<1>16. QED BY <1>1, <1>2, <1>3, <1>4, <1>5, <1>6, <1>7, <1>8, <1>9, <1>10, <1>11, <1>12, <1>13, <1>14, <1>15 DEF Next

LEMMA ApartDisjoint == IInv => Disjoint
<1> SUFFICES ASSUME IInv PROVE Disjoint
  OBVIOUS
<1>1. slots \in [Hosts -> Slot] /\ Apart(slots)
  BY DEF IInv, TypeInv, VolumeOK, Volume
<1>2. ASSUME NEW g \in InPlace(slots), NEW h \in InPlace(slots), g # h
      PROVE  (slots[g].start..(End(slots[g]) - 1)) \cap (slots[h].start..(End(slots[h]) - 1)) = {}
  <2>1. slots[g] \in Slot /\ slots[h] \in Slot
    BY <1>1 DEF InPlace
  <2>2. /\ slots[g].start \in Nat /\ End(slots[g]) \in Nat
        /\ slots[h].start \in Nat /\ End(slots[h]) \in Nat
    BY <2>1 DEF Slot, End
  <2>3. End(slots[g]) <= slots[h].start \/ End(slots[h]) <= slots[g].start
    BY <1>1, <1>2 DEF Apart
  <2>4. QED BY <2>2, <2>3
<1>3. QED BY <1>1, <1>2 DEF Apart, Disjoint

(* No block of the volume is two host files', and none lies beyond it: for  *)
(* every folder, list and names, however the guest's directory writes, the  *)
(* host's changes and the user's edits fall together (layOut, extentAt).    *)
THEOREM BlocksAreOneFiles == Spec => []Disjoint
<1>1. Init => IInv
  BY InitInv
<1>2. IInv /\ [Next]_vars => IInv'
  BY NextInv
<1>3. IInv => Disjoint
  BY ApartDisjoint
<1>4. QED BY <1>1, <1>2, <1>3, PTL DEF Spec

=============================================================================
