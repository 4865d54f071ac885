----------------------------- MODULE Volume_proofs -----------------------------
(***************************************************************************)
(* Theorems about Volume, for every layout of an image and every contents:  *)
(* the entries of the linked segments tile the volume, a directory that can *)
(* end each segment with a marker reads back, then no two files have one    *)
(* name, the volume implements FileStore, and what is left of a deleted     *)
(* file is whole.                                                           *)
(*                                                                          *)
(* The inductive invariant is Chained: some order of the segments in use is *)
(* the one their next words make (Link), and in it each segment's entries   *)
(* begin where those before it end (Tile).  A split puts its new segment    *)
(* into the order, so neither half can be stated of the segments alone.     *)
(* The refinement looks at the directory as a set of areas, the pairs of an *)
(* entry and the block it begins at: every call replaces a few adjacent     *)
(* areas (Rest is the others), and what it writes lies within the areas it  *)
(* replaces, so that the files of the others keep their data.               *)
(***************************************************************************)
EXTENDS Volume, FiniteSetTheorems, SequenceTheorems, TLAPS

(* Induction on the naturals, for a set: i |-> i + 1 maps the members up to *)
(* a number outside the set into themselves, one to one, so onto; but none  *)
(* goes to 0.                                                               *)
LEMMA Induction ==
  ASSUME NEW S, 0 \in S, \A n \in Nat : n \in S => n + 1 \in S
  PROVE  Nat \subseteq S
<1>1. SUFFICES ASSUME NEW n \in Nat, n \notin S PROVE FALSE
  OBVIOUS
<1> DEFINE U == {i \in 0..n : i \in S}
           f == [i \in U |-> i + 1]
<1>2. IsFiniteSet(U)
  <2>1. IsFiniteSet(0..n)
    BY FS_Interval
  <2>2. U \in SUBSET (0..n)
    OBVIOUS
  <2> HIDE DEF U
  <2>3. QED BY <2>1, <2>2, FS_Subset
<1>3. f \in [U -> U]
  BY <1>1
<1>4. f \in Injection(U, U)
  BY <1>3 DEF Injection, IsInjective
<1>5. f \in Surjection(U, U)
  <2> HIDE DEF U, f
  <2>1. QED BY <1>2, <1>4, FS_Injection
<1>6. \E i \in U : f[i] = 0
  <2>1. 0 \in U
    OBVIOUS
  <2>2. \A t \in U : \E i \in U : f[i] = t
    <3> HIDE DEF U, f
    <3>1. QED BY <1>5 DEF Surjection
  <2>3. QED BY <2>1, <2>2
<1>7. QED BY <1>6

(* A set of numbers has a least one.                                        *)
LEMMA FirstOf ==
  ASSUME NEW S \in SUBSET Nat, S # {}
  PROVE  \E m \in S : \A k \in S : m <= k
<1>1. SUFFICES ASSUME \A m \in S : \E k \in S : k < m PROVE FALSE
  OBVIOUS
<1> DEFINE Above == {n \in Nat : \A k \in S : n < k}
<1>2. 0 \in Above
  <2>1. ASSUME NEW k \in S PROVE 0 < k
    BY <1>1
  <2>2. QED BY <2>1
<1>3. ASSUME NEW n \in Nat, n \in Above PROVE n + 1 \in Above
  <2>1. ASSUME NEW m \in S PROVE n + 1 < m
    <3>1. PICK k \in S : k < m
      BY <1>1
    <3>2. n < k
      BY <1>3
    <3>3. QED BY <3>1, <3>2
  <2>2. QED BY <2>1
<1>4. Nat \subseteq Above
  <2> HIDE DEF Above
  <2>1. QED BY <1>2, <1>3, Induction
<1>5. PICK k \in S : TRUE
  OBVIOUS
<1>6. k \in Above
  <2> HIDE DEF Above
  <2>1. QED BY <1>4
<1>7. QED BY <1>6

------------------------------------
(* The blocks a list of entries describes.                                  *)

(* Lengths is a fold; the Unfolds lemmas say that a fold takes the values of a*)
(* function on the numbers of the steps.                                    *)
LEMMA LengthsUnfolds ==
  ASSUME NEW es \in Seq(Entry)
  PROVE  \E w : /\ w = [k \in 0..Len(es) |-> IF k = 0 THEN 0 ELSE w[k - 1] + es[k].len]
                /\ Lengths(es) = w[Len(es)]
<1> DEFINE Unfolds(n, g) == g = [k \in 0..n |-> IF k = 0 THEN 0 ELSE g[k - 1] + es[k].len]
           Some == {n \in Nat : \E g : Unfolds(n, g)}
<1>1. 0 \in Some
  <2>1. Unfolds(0, [k \in 0..0 |-> 0])
    OBVIOUS
  <2>2. QED BY <2>1
<1>2. ASSUME NEW n \in Nat, n \in Some PROVE n + 1 \in Some
  <2>1. PICK g : Unfolds(n, g)
    BY <1>2
  <2> DEFINE h == [k \in 0..n + 1 |-> IF k <= n THEN g[k] ELSE g[n] + es[n + 1].len]
  <2>2. \A k \in 0..n + 1 : h[k] = IF k = 0 THEN 0 ELSE h[k - 1] + es[k].len
    <3>1. TAKE k \in 0..n + 1
    <3>2. CASE k = 0
      BY <2>1, <3>2
    <3>3. CASE k # 0 /\ k <= n
      <4>1. h[k] = g[k] /\ h[k - 1] = g[k - 1]
        BY <3>3
      <4>2. k \in 0..n
        BY <3>3
      <4>3. g[k] = g[k - 1] + es[k].len
        BY <2>1, <3>3, <4>2
      <4> HIDE DEF h
      <4>4. QED BY <3>3, <4>1, <4>3
    <3>4. CASE k = n + 1
      BY <3>4
    <3>5. QED BY <3>2, <3>3, <3>4
  <2>3. Unfolds(n + 1, h)
    <3> HIDE DEF h
    <3>1. h = [k \in 0..n + 1 |-> h[k]]
      BY DEF h
    <3>2. QED BY <2>2, <3>1
  <2>4. QED
    <3> HIDE DEF h, Unfolds
    <3>1. QED BY <2>3
<1>3. Nat \subseteq Some
  <2> HIDE DEF Some
  <2>1. QED BY <1>1, <1>2, Induction
<1> DEFINE N == Len(es)
           v == CHOOSE w : w = [k \in 0..N |-> IF k = 0 THEN 0 ELSE w[k - 1] + es[k].len]
<1>4. \E w : Unfolds(N, w)
  <2>1. N \in Nat
    BY LenProperties
  <2> HIDE DEF Unfolds, N
  <2>2. QED BY <1>3, <2>1
<1>5. Unfolds(N, v)
  <2> HIDE DEF N
  <2>1. QED BY <1>4
<1>6. Lengths(es) = v[N]
  BY DEF Lengths
<1>7. QED
  <2> HIDE DEF v
  <2>1. QED BY <1>5, <1>6

(* The sums up to each entry.                                               *)
LEMMA LengthsSums ==
  ASSUME NEW es \in Seq(Entry)
  PROVE  \E w \in [0..Len(es) -> Nat] :
           /\ w[0] = 0
           /\ \A k \in 1..Len(es) : w[k] = w[k - 1] + es[k].len
           /\ Lengths(es) = w[Len(es)]
<1>1. PICK w : /\ w = [k \in 0..Len(es) |-> IF k = 0 THEN 0 ELSE w[k - 1] + es[k].len]
               /\ Lengths(es) = w[Len(es)]
  BY LengthsUnfolds
<1>2. Len(es) \in Nat /\ \A k \in 1..Len(es) : es[k].len \in Nat
  <2>1. ASSUME NEW k \in 1..Len(es) PROVE es[k].len \in Nat
    <3>1. es[k] \in Entry
      BY ElementOfSeq
    <3>2. QED BY <3>1 DEF Entry
  <2>2. QED BY <2>1, LenProperties
<1>3. w[0] = 0 /\ \A k \in 1..Len(es) : w[k] = w[k - 1] + es[k].len
  <2>1. 0 \in 0..Len(es) /\ \A k \in 1..Len(es) : k \in 0..Len(es) /\ k # 0
    BY <1>2
  <2>2. \A k \in 0..Len(es) : w[k] = IF k = 0 THEN 0 ELSE w[k - 1] + es[k].len
    BY <1>1, Zenon
  <2>3. QED BY <2>1, <2>2
<1> DEFINE T == {k \in Nat : k <= Len(es) => w[k] \in Nat}
<1>4. 0 \in T
  BY <1>3
<1>5. ASSUME NEW k \in Nat, k \in T PROVE k + 1 \in T
  <2>1. CASE k + 1 <= Len(es)
    <3>1. k + 1 \in 1..Len(es) /\ (k + 1) - 1 = k /\ w[k] \in Nat
      BY <1>2, <1>5, <2>1
    <3>2. w[k + 1] = w[k] + es[k + 1].len
      BY <1>3, <3>1
    <3>3. QED BY <1>2, <3>1, <3>2
  <2>2. QED BY <2>1
<1>6. Nat \subseteq T
  <2> HIDE DEF T
  <2>1. QED BY <1>4, <1>5, Induction
<1>7. \A k \in 0..Len(es) : w[k] \in Nat
  BY <1>2, <1>6
<1>8. w \in [0..Len(es) -> Nat]
  BY <1>1, <1>7
<1>9. QED BY <1>1, <1>3, <1>8

(* The lengths of no entries, of one, and of two lists one after the other. *)
LEMMA LengthsNat == ASSUME NEW es \in Seq(Entry) PROVE Lengths(es) \in Nat
<1>1. Len(es) \in Nat
  BY LenProperties
<1>2. QED BY <1>1, LengthsSums

LEMMA LengthsEmpty == Lengths(<<>>) = 0
<1>1. <<>> \in Seq(Entry) /\ Len(<<>>) = 0
  BY EmptySeq
<1>2. QED BY <1>1, LengthsSums

LEMMA LengthsConcat ==
  ASSUME NEW s \in Seq(Entry), NEW t \in Seq(Entry)
  PROVE  Lengths(s \o t) = Lengths(s) + Lengths(t)
<1> DEFINE st == s \o t
           m == Len(s)
           n == Len(t)
<1>1. /\ st \in Seq(Entry) /\ Len(st) = m + n /\ m \in Nat /\ n \in Nat
      /\ \A i \in 1..m + n : st[i] = IF i <= m THEN s[i] ELSE t[i - m]
  BY ConcatProperties, LenProperties
<1>2. PICK a \in [0..m -> Nat] :
        a[0] = 0 /\ (\A k \in 1..m : a[k] = a[k - 1] + s[k].len) /\ Lengths(s) = a[m]
  BY LengthsSums
<1>3. PICK b \in [0..n -> Nat] :
        b[0] = 0 /\ (\A k \in 1..n : b[k] = b[k - 1] + t[k].len) /\ Lengths(t) = b[n]
  BY LengthsSums
<1> HIDE DEF st, m, n
<1>4. PICK c \in [0..m + n -> Nat] :
        c[0] = 0 /\ (\A k \in 1..m + n : c[k] = c[k - 1] + st[k].len) /\ Lengths(st) = c[m + n]
  <2>1. \E w \in [0..Len(st) -> Nat] :
           w[0] = 0 /\ (\A k \in 1..Len(st) : w[k] = w[k - 1] + st[k].len) /\ Lengths(st) = w[Len(st)]
    BY <1>1, LengthsSums
  <2>2. QED BY <1>1, <2>1
<1> DEFINE T == {k \in Nat : k <= m => c[k] = a[k]}
           U == {k \in Nat : k <= n => c[m + k] = a[m] + b[k]}
<1>5. 0 \in T
  BY <1>2, <1>4
<1>6. ASSUME NEW k \in Nat, k \in T PROVE k + 1 \in T
  <2>1. CASE k + 1 <= m
    <3>1. /\ k + 1 \in 1..m /\ k + 1 \in 1..m + n /\ (k + 1) - 1 = k /\ c[k] = a[k]
      BY <1>1, <1>6, <2>1
    <3>2. c[k + 1] = c[k] + st[k + 1].len /\ a[k + 1] = a[k] + s[k + 1].len /\ st[k + 1] = s[k + 1]
      BY <1>1, <1>2, <1>4, <2>1, <3>1
    <3>3. QED BY <3>1, <3>2
  <2>2. QED BY <2>1
<1>7. Nat \subseteq T
  <2> HIDE DEF T
  <2>1. QED BY <1>5, <1>6, Induction
<1>8. c[m] = a[m]
  BY <1>1, <1>7
<1>9. 0 \in U
  BY <1>1, <1>2, <1>3, <1>8
<1>10. ASSUME NEW k \in Nat, k \in U PROVE k + 1 \in U
  <2>1. CASE k + 1 <= n
    <3>1. /\ k + 1 \in 1..n /\ m + (k + 1) \in 1..m + n /\ (k + 1) - 1 = k /\ (m + (k + 1)) - 1 = m + k
          /\ c[m + k] = a[m] + b[k] /\ ~(m + (k + 1) <= m) /\ (m + (k + 1)) - m = k + 1
      BY <1>1, <1>10, <2>1
    <3>2. /\ c[m + (k + 1)] = c[m + k] + st[m + (k + 1)].len
          /\ b[k + 1] = b[k] + t[k + 1].len
          /\ st[m + (k + 1)] = t[k + 1]
      BY <1>1, <1>3, <1>4, <3>1
    <3>3. a[m] \in Nat /\ b[k] \in Nat /\ t[k + 1].len \in Nat
      <4>1. t[k + 1] \in Entry
        BY <3>1, ElementOfSeq DEF n
      <4>2. m \in 0..m /\ k \in 0..n
        BY <1>1, <3>1
      <4>3. QED BY <1>2, <1>3, <4>1, <4>2 DEF Entry
    <3> DEFINE all == c[m + k]
               own == b[k]
               next == t[k + 1].len
    <3>4. c[m + (k + 1)] = all + next /\ b[k + 1] = own + next /\ all = a[m] + own /\ own \in Nat /\ next \in Nat
      BY <3>1, <3>2, <3>3
    <3> HIDE DEF all, own, next
    <3>5. c[m + (k + 1)] = a[m] + b[k + 1]
      BY <3>3, <3>4
    <3>6. QED BY <3>5
  <2>2. QED BY <2>1
<1>11. Nat \subseteq U
  <2> HIDE DEF U
  <2>1. QED BY <1>9, <1>10, Induction
<1>12. c[m + n] = a[m] + b[n]
  BY <1>1, <1>11
<1>13. QED BY <1>2, <1>3, <1>4, <1>12 DEF st

LEMMA LengthsOne == ASSUME NEW e \in Entry PROVE Lengths(<<e>>) = e.len /\ <<e>> \in Seq(Entry)
<1>1. <<e>> \in Seq(Entry) /\ Len(<<e>>) = 1 /\ <<e>>[1] = e
  OBVIOUS
<1>2. PICK w \in [0..1 -> Nat] :
        w[0] = 0 /\ (\A k \in 1..1 : w[k] = w[k - 1] + <<e>>[k].len) /\ Lengths(<<e>>) = w[1]
  BY <1>1, LengthsSums
<1>3. w[1] = w[0] + e.len /\ e.len \in Nat
  BY <1>1, <1>2 DEF Entry
<1>4. QED BY <1>1, <1>2, <1>3

(* Entries of the same lengths.                                             *)
LEMMA LengthsSame ==
  ASSUME NEW s \in Seq(Entry), NEW t \in Seq(Entry), Len(s) = Len(t), \A i \in 1..Len(s) : s[i].len = t[i].len
  PROVE  Lengths(s) = Lengths(t)
<1> DEFINE n == Len(s)
<1>1. n \in Nat
  BY LenProperties
<1>2. PICK a \in [0..n -> Nat] :
        a[0] = 0 /\ (\A k \in 1..n : a[k] = a[k - 1] + s[k].len) /\ Lengths(s) = a[n]
  BY LengthsSums
<1>3. PICK b \in [0..n -> Nat] :
        b[0] = 0 /\ (\A k \in 1..n : b[k] = b[k - 1] + t[k].len) /\ Lengths(t) = b[n]
  <2>1. \E w \in [0..Len(t) -> Nat] :
           w[0] = 0 /\ (\A k \in 1..Len(t) : w[k] = w[k - 1] + t[k].len) /\ Lengths(t) = w[Len(t)]
    BY LengthsSums
  <2>2. QED BY <2>1
<1> DEFINE T == {k \in Nat : k <= n => a[k] = b[k]}
<1> HIDE DEF n
<1>4. 0 \in T
  BY <1>2, <1>3
<1>5. ASSUME NEW k \in Nat, k \in T PROVE k + 1 \in T
  <2>1. CASE k + 1 <= n
    <3>1. k + 1 \in 1..n /\ (k + 1) - 1 = k /\ a[k] = b[k]
      BY <1>1, <1>5, <2>1
    <3>2. a[k + 1] = a[k] + s[k + 1].len /\ b[k + 1] = b[k] + t[k + 1].len /\ s[k + 1].len = t[k + 1].len
      BY <1>2, <1>3, <3>1 DEF n
    <3>3. QED BY <3>1, <3>2
  <2>2. QED BY <2>1
<1>6. Nat \subseteq T
  <2> HIDE DEF T
  <2>1. QED BY <1>4, <1>5, Induction
<1>7. a[n] = b[n]
  BY <1>1, <1>6
<1>8. QED BY <1>2, <1>3, <1>7

------------------------------------
(* Parts of a list of entries.                                              *)

(* What SubSeq returns, and a list as three parts, with their lengths.      *)
LEMMA PartIs ==
  ASSUME NEW es \in Seq(Entry), NEW m \in 1..Len(es) + 1, NEW n \in m - 1..Len(es)
  PROVE  /\ SubSeq(es, m, n) \in Seq(Entry) /\ Len(SubSeq(es, m, n)) = (n - m) + 1
         /\ \A i \in 1..(n - m) + 1 : SubSeq(es, m, n)[i] = es[(m + i) - 1]
<1>1. Len(es) \in Nat
  BY LenProperties
<1>2. \A i \in m..n : es[i] \in Entry
  <2>1. ASSUME NEW i \in m..n PROVE es[i] \in Entry
    <3>1. i \in 1..Len(es)
      BY <1>1
    <3>2. QED BY <3>1, ElementOfSeq
  <2>2. QED BY <2>1
<1>3. m \in Int /\ n \in Int /\ n - m + 1 = IF m <= n THEN n - m + 1 ELSE 0
  BY <1>1
<1>4. /\ SubSeq(es, m, n) \in Seq(Entry) /\ Len(SubSeq(es, m, n)) = IF m <= n THEN n - m + 1 ELSE 0
      /\ \A i \in 1..n - m + 1 : SubSeq(es, m, n)[i] = es[m + i - 1]
  BY <1>2, <1>3, SubSeqProperties
<1>5. QED BY <1>3, <1>4

LEMMA PartsAre ==
  ASSUME NEW es \in Seq(Entry), NEW a \in 1..Len(es) + 1, NEW b \in a - 1..Len(es)
  PROVE  /\ SubSeq(es, 1, a - 1) \in Seq(Entry) /\ SubSeq(es, a, b) \in Seq(Entry)
         /\ SubSeq(es, b + 1, Len(es)) \in Seq(Entry) /\ SubSeq(es, 1, a - 1) \o SubSeq(es, a, b) \in Seq(Entry)
         /\ es = (SubSeq(es, 1, a - 1) \o SubSeq(es, a, b)) \o SubSeq(es, b + 1, Len(es))
<1> DEFINE n == Len(es)
           x == SubSeq(es, 1, a - 1)
           y == SubSeq(es, a, b)
           z == SubSeq(es, b + 1, n)
<1>1. n \in Nat /\ a - 1 \in 0..n /\ b \in a - 1..n /\ b + 1 \in 1..n + 1 /\ n \in b..n /\ 1 \in 1..n + 1
      /\ b \in 0..n
  BY LenProperties
<1>2. x \in Seq(Entry) /\ y \in Seq(Entry) /\ z \in Seq(Entry)
  BY <1>1, PartIs
<1>3. x \o y = SubSeq(es, 1, b)
  <2>1. a - 1 \in 1 - 1..n /\ b \in a - 1..n /\ (a - 1) + 1 = a
    BY <1>1
  <2>2. SubSeq(es, 1, a - 1) \o SubSeq(es, (a - 1) + 1, b) = SubSeq(es, 1, b)
    BY <1>1, <2>1, ConcatAdjacentSubSeq
  <2>3. QED BY <2>1, <2>2
<1>4. SubSeq(es, 1, b) \o z = es
  <2>1. b \in 1 - 1..n /\ n \in b..n
    BY <1>1
  <2>2. SubSeq(es, 1, b) \o SubSeq(es, b + 1, n) = SubSeq(es, 1, n)
    BY <1>1, <2>1, ConcatAdjacentSubSeq
  <2>3. QED BY <2>2, SubSeqFull
<1>5. SubSeq(es, 1, b) \in Seq(Entry)
  BY <1>1, PartIs
<1>6. es = (x \o y) \o z /\ x \o y \in Seq(Entry)
  <2> HIDE DEF x, y, z
  <2>1. QED BY <1>3, <1>4, <1>5
<1>7. QED BY <1>2, <1>6

(* An entry list in two.                                                    *)
LEMMA HalvesAre ==
  ASSUME NEW es \in Seq(Entry), NEW half \in 0..Len(es)
  PROVE  /\ SubSeq(es, 1, half) \in Seq(Entry) /\ SubSeq(es, half + 1, Len(es)) \in Seq(Entry)
         /\ SubSeq(es, 1, half) \o SubSeq(es, half + 1, Len(es)) = es
         /\ Len(SubSeq(es, 1, half)) = half /\ Len(SubSeq(es, half + 1, Len(es))) = Len(es) - half
         /\ \A i \in 1..half : SubSeq(es, 1, half)[i] = es[i]
         /\ \A i \in 1..Len(es) - half : SubSeq(es, half + 1, Len(es))[i] = es[half + i]
         /\ Lengths(SubSeq(es, 1, half)) \in Nat /\ Lengths(SubSeq(es, half + 1, Len(es))) \in Nat
         /\ Lengths(es) = Lengths(SubSeq(es, 1, half)) + Lengths(SubSeq(es, half + 1, Len(es)))
<1> DEFINE n == Len(es)
           x == SubSeq(es, 1, half)
           z == SubSeq(es, half + 1, n)
<1>1. n \in Nat /\ half \in 1 - 1..n /\ n \in half..n /\ 1 \in 1..n + 1 /\ half + 1 \in 1..n + 1
      /\ n \in (half + 1) - 1..n
  BY LenProperties
<1>2. x \in Seq(Entry) /\ z \in Seq(Entry) /\ Len(x) = (half - 1) + 1 /\ Len(z) = (n - (half + 1)) + 1
  BY <1>1, PartIs
<1>3. x \o z = es
  <2>1. x \o z = SubSeq(es, 1, n)
    BY <1>1, ConcatAdjacentSubSeq
  <2>2. QED BY <2>1, SubSeqFull
<1> HIDE DEF n, x, z
<1>4. Len(x) = half /\ Len(z) = n - half
  BY <1>1, <1>2
<1>5. (\A i \in 1..half : x[i] = es[i]) /\ \A i \in 1..n - half : z[i] = es[half + i]
  <2>1. \A i \in 1..Len(x) + Len(z) : es[i] = IF i <= Len(x) THEN x[i] ELSE z[i - Len(x)]
    BY <1>2, <1>3, ConcatProperties
  <2>2. n \in Nat /\ half \in 0..n
    BY <1>1
  <2>3. ASSUME NEW i \in 1..half PROVE x[i] = es[i]
    BY <1>4, <2>1, <2>2
  <2>4. ASSUME NEW i \in 1..n - half PROVE z[i] = es[half + i]
    <3>1. half + i \in 1..half + (n - half) /\ ~(half + i <= half) /\ (half + i) - half = i
      BY <2>2
    <3>2. QED BY <1>4, <2>1, <3>1
  <2>5. QED BY <2>3, <2>4
<1>6. Lengths(es) = Lengths(x) + Lengths(z) /\ Lengths(x) \in Nat /\ Lengths(z) \in Nat
  BY <1>2, <1>3, LengthsConcat, LengthsNat
<1>7. QED BY <1>2, <1>3, <1>4, <1>5, <1>6 DEF n, x, z

LEMMA LengthsParts ==
  ASSUME NEW es \in Seq(Entry), NEW a \in 1..Len(es) + 1, NEW b \in a - 1..Len(es)
  PROVE  Lengths(es) = Lengths(SubSeq(es, 1, a - 1)) + Lengths(SubSeq(es, a, b)) + Lengths(SubSeq(es, b + 1, Len(es)))
<1> DEFINE x == SubSeq(es, 1, a - 1)
           y == SubSeq(es, a, b)
           z == SubSeq(es, b + 1, Len(es))
<1>1. x \in Seq(Entry) /\ y \in Seq(Entry) /\ z \in Seq(Entry) /\ x \o y \in Seq(Entry) /\ es = (x \o y) \o z
  BY PartsAre
<1> HIDE DEF x, y, z
<1>2. Lengths(x \o y) = Lengths(x) + Lengths(y)
  BY <1>1, LengthsConcat
<1>3. Lengths((x \o y) \o z) = Lengths(x \o y) + Lengths(z)
  BY <1>1, LengthsConcat
<1>4. Lengths(es) = Lengths(x) + Lengths(y) + Lengths(z)
  BY <1>1, <1>2, <1>3
<1>5. QED BY <1>4 DEF x, y, z

(* One part for another of the same length.                                 *)
LEMMA PartReplaced ==
  ASSUME NEW es \in Seq(Entry), NEW a \in 1..Len(es) + 1, NEW b \in a - 1..Len(es),
         NEW with \in Seq(Entry), Lengths(with) = Lengths(SubSeq(es, a, b))
  PROVE  LET new == SubSeq(es, 1, a - 1) \o with \o SubSeq(es, b + 1, Len(es))
         IN new \in Seq(Entry) /\ Lengths(new) = Lengths(es) /\ Len(new) = Len(es) - ((b - a) + 1) + Len(with)
<1> DEFINE n == Len(es)
           x == SubSeq(es, 1, a - 1)
           z == SubSeq(es, b + 1, n)
<1>1. n \in Nat /\ a - 1 \in 0..n /\ b + 1 \in 1..n + 1 /\ n \in b..n /\ 1 \in 1..n + 1 /\ b \in 0..n
  BY LenProperties
<1>2. x \in Seq(Entry) /\ z \in Seq(Entry) /\ Len(x) = a - 1 /\ Len(z) = n - b
  BY <1>1, PartIs
<1>3. Lengths(es) = Lengths(x) + Lengths(with) + Lengths(z)
  BY LengthsParts
<1> HIDE DEF x, z, n
<1>4. x \o with \in Seq(Entry) /\ Lengths(x \o with) = Lengths(x) + Lengths(with)
      /\ Len(x \o with) = Len(x) + Len(with)
  BY <1>2, LengthsConcat, ConcatProperties
<1>5. /\ (x \o with) \o z \in Seq(Entry) /\ Lengths((x \o with) \o z) = Lengths(x \o with) + Lengths(z)
      /\ Len((x \o with) \o z) = Len(x \o with) + Len(z)
  BY <1>2, <1>4, LengthsConcat, ConcatProperties
<1>6. Len(with) \in Nat
  BY LenProperties
<1>7. /\ Lengths((x \o with) \o z) = Lengths(es)
      /\ Len((x \o with) \o z) = n - ((b - a) + 1) + Len(with)
  <2>1. a \in Int /\ b \in Int
    BY <1>1
  <2>2. QED BY <1>1, <1>2, <1>3, <1>4, <1>5, <1>6, <2>1
<1>8. QED BY <1>5, <1>7 DEF x, z, n

LEMMA PartOne ==
  ASSUME NEW es \in Seq(Entry), NEW k \in 1..Len(es)
  PROVE  Lengths(SubSeq(es, k, k)) = es[k].len
<1>1. k \in 1..Len(es) + 1 /\ k \in k - 1..Len(es) /\ (k - k) + 1 = 1 /\ es[k] \in Entry /\ Len(es) \in Nat
  BY LenProperties, ElementOfSeq
<1>2. SubSeq(es, k, k) \in Seq(Entry) /\ Len(SubSeq(es, k, k)) = 1 /\ SubSeq(es, k, k)[1] = es[k]
  <2>1. /\ SubSeq(es, k, k) \in Seq(Entry) /\ Len(SubSeq(es, k, k)) = (k - k) + 1
        /\ \A i \in 1..(k - k) + 1 : SubSeq(es, k, k)[i] = es[(k + i) - 1]
    BY <1>1, PartIs
  <2>2. 1 \in 1..(k - k) + 1 /\ (k + 1) - 1 = k
    BY <1>1
  <2>3. QED BY <1>1, <2>1, <2>2
<1>3. Lengths(<<es[k]>>) = es[k].len /\ <<es[k]>> \in Seq(Entry)
  BY <1>1, LengthsOne
<1>4. Len(<<es[k]>>) = 1 /\ <<es[k]>>[1] = es[k]
  OBVIOUS
<1>5. \A i \in 1..1 : SubSeq(es, k, k)[i].len = <<es[k]>>[i].len
  BY <1>2, <1>4
<1>6. Lengths(SubSeq(es, k, k)) = Lengths(<<es[k]>>)
  BY <1>2, <1>3, <1>4, <1>5, LengthsSame
<1>7. QED BY <1>3, <1>6

(* One entry replaced by entries of the same length.                        *)
LEMMA ReplaceIs ==
  ASSUME NEW es \in Seq(Entry), NEW k \in 1..Len(es), NEW with \in Seq(Entry), Lengths(with) = es[k].len
  PROVE  /\ Replace(es, k, with) \in Seq(Entry) /\ Lengths(Replace(es, k, with)) = Lengths(es)
         /\ Len(Replace(es, k, with)) = (Len(es) - 1) + Len(with)
<1>1. k \in 1..Len(es) + 1 /\ k \in k - 1..Len(es) /\ (k - k) + 1 = 1 /\ Len(es) \in Nat
  BY LenProperties
<1>2. Lengths(with) = Lengths(SubSeq(es, k, k))
  BY PartOne
<1> DEFINE new == SubSeq(es, 1, k - 1) \o with \o SubSeq(es, k + 1, Len(es))
<1>3. new \in Seq(Entry) /\ Lengths(new) = Lengths(es) /\ Len(new) = Len(es) - ((k - k) + 1) + Len(with)
  BY <1>1, <1>2, PartReplaced
<1>4. Replace(es, k, with) = new
  BY DEF Replace
<1> HIDE DEF new
<1>5. Len(with) \in Nat
  BY LenProperties
<1>6. QED BY <1>1, <1>3, <1>4, <1>5

(* An entry changed but for its length.                                     *)
LEMMA EntryChanged ==
  ASSUME NEW es \in Seq(Entry), NEW k \in 1..Len(es), NEW e \in Entry, e.len = es[k].len
  PROVE  /\ [es EXCEPT ![k] = e] \in Seq(Entry) /\ Len([es EXCEPT ![k] = e]) = Len(es)
         /\ \A j \in 1..Len(es) : [es EXCEPT ![k] = e][j] = IF j = k THEN e ELSE es[j]
         /\ Lengths([es EXCEPT ![k] = e]) = Lengths(es)
<1> DEFINE new == [es EXCEPT ![k] = e]
<1>1. /\ new \in Seq(Entry) /\ Len(new) = Len(es)
      /\ \A j \in 1..Len(es) : new[j] = IF j = k THEN e ELSE es[j]
  BY ExceptSeq
<1> HIDE DEF new
<1>2. \A i \in 1..Len(es) : es[i].len = new[i].len
  BY <1>1
<1>3. Lengths(es) = Lengths(new)
  BY <1>1, <1>2, LengthsSame
<1>4. QED BY <1>1, <1>3 DEF new

------------------------------------
(* The names of the files of a segment, and that each is one file's.        *)

Named(es) == {es[k].name : k \in {j \in 1..Len(es) : es[j].file}}
Once(es) == \A k, l \in 1..Len(es) : es[k].file /\ es[l].file /\ es[k].name = es[l].name => k = l

Unique(dir, n) ==
  /\ \A s \in 1..n : Once(dir[s].entries)
  /\ \A s, t \in 1..n : s # t => Named(dir[s].entries) \cap Named(dir[t].entries) = {}

(* The names of a list of two parts, of one entry, and of one part replaced.*)
LEMMA NamedIs ==
  ASSUME NEW es, NEW x
  PROVE  x \in Named(es) <=> \E k \in 1..Len(es) : es[k].file /\ es[k].name = x
BY DEF Named

LEMMA ConcatNames ==
  ASSUME NEW s \in Seq(Entry), NEW t \in Seq(Entry)
  PROVE  /\ Named(s \o t) = Named(s) \cup Named(t)
         /\ Once(s \o t) <=> Once(s) /\ Once(t) /\ Named(s) \cap Named(t) = {}
<1> DEFINE st == s \o t
           m == Len(s)
           n == Len(t)
<1>1. m \in Nat /\ n \in Nat /\ Len(st) = m + n
  BY ConcatProperties, LenProperties
<1>2. \A i \in 1..m : i \in 1..m + n /\ st[i] = s[i]
  <2>1. \A i \in 1..m + n : st[i] = IF i <= m THEN s[i] ELSE t[i - m]
    BY ConcatProperties
  <2> HIDE DEF st
  <2>2. QED BY <1>1, <2>1
<1>3. \A i \in 1..n : m + i \in 1..m + n /\ st[m + i] = t[i]
  <2>1. \A i \in 1..m + n : st[i] = IF i <= m THEN s[i] ELSE t[i - m]
    BY ConcatProperties
  <2> HIDE DEF st, m, n
  <2>2. TAKE i \in 1..n
  <2>3. m + i \in 1..m + n /\ ~(m + i <= m) /\ (m + i) - m = i
    BY <1>1
  <2>4. QED BY <2>1, <2>3
<1> HIDE DEF st, m, n
<1>4. \A k \in 1..m + n : k \in 1..m \/ \E i \in 1..n : k = m + i
  <2>1. TAKE k \in 1..m + n
  <2>2. CASE k <= m
    BY <1>1, <2>2
  <2>3. CASE ~(k <= m)
    <3>1. k - m \in 1..n /\ k = m + (k - m)
      BY <1>1, <2>3
    <3>2. QED BY <3>1
  <2>4. QED BY <2>2, <2>3
<1>5. ASSUME NEW x PROVE x \in Named(st) <=> x \in Named(s) \/ x \in Named(t)
  <2>1. ASSUME x \in Named(st) PROVE x \in Named(s) \/ x \in Named(t)
    <3>1. PICK k \in 1..m + n : st[k].file /\ st[k].name = x
      BY <1>1, <2>1, NamedIs
    <3>2. CASE k \in 1..m
      BY <1>2, <3>1, <3>2, NamedIs DEF m
    <3>3. CASE \E i \in 1..n : k = m + i
      <4>1. PICK i \in 1..n : k = m + i
        BY <3>3
      <4>2. t[i].file /\ t[i].name = x
        BY <1>3, <3>1, <4>1
      <4>3. QED BY <4>2, NamedIs DEF n
    <3>4. QED BY <1>4, <3>2, <3>3
  <2>2. ASSUME x \in Named(s) PROVE x \in Named(st)
    <3>1. PICK k \in 1..m : s[k].file /\ s[k].name = x
      BY <2>2, NamedIs DEF m
    <3>2. QED BY <1>1, <1>2, <3>1, NamedIs
  <2>3. ASSUME x \in Named(t) PROVE x \in Named(st)
    <3>1. PICK k \in 1..n : t[k].file /\ t[k].name = x
      BY <2>3, NamedIs DEF n
    <3>2. m + k \in 1..Len(st) /\ st[m + k].file /\ st[m + k].name = x
      BY <1>1, <1>3, <3>1
    <3>3. QED BY <3>2, NamedIs
  <2>4. QED BY <2>1, <2>2, <2>3
<1>6. ASSUME Once(st) PROVE Once(s) /\ Once(t) /\ Named(s) \cap Named(t) = {}
  <2>1. \A k, l \in 1..m + n : st[k].file /\ st[l].file /\ st[k].name = st[l].name => k = l
    BY <1>1, <1>6 DEF Once
  <2>2. Once(s)
    BY <1>2, <2>1 DEF Once, m
  <2>3. Once(t)
    <3>1. SUFFICES ASSUME NEW k \in 1..n, NEW l \in 1..n, t[k].file, t[l].file, t[k].name = t[l].name PROVE k = l
      BY DEF Once, n
    <3>2. m + k = m + l
      BY <1>3, <2>1, <3>1
    <3>3. QED BY <1>1, <3>2
  <2>4. ASSUME NEW x, x \in Named(s), x \in Named(t) PROVE FALSE
    <3>1. PICK k \in 1..m : s[k].file /\ s[k].name = x
      BY <2>4, NamedIs DEF m
    <3>2. PICK i \in 1..n : t[i].file /\ t[i].name = x
      BY <2>4, NamedIs DEF n
    <3>3. k = m + i
      BY <1>2, <1>3, <2>1, <3>1, <3>2
    <3>4. QED BY <1>1, <3>3
  <2>5. QED BY <2>2, <2>3, <2>4
<1>7. ASSUME Once(s), Once(t), Named(s) \cap Named(t) = {} PROVE Once(st)
  <2>1. SUFFICES ASSUME NEW k \in 1..m + n, NEW l \in 1..m + n, st[k].file, st[l].file, st[k].name = st[l].name
                 PROVE k = l
    BY <1>1 DEF Once
  <2>2. CASE k \in 1..m /\ l \in 1..m
    BY <1>2, <1>7, <2>1, <2>2 DEF Once, m
  <2>3. ASSUME NEW i \in 1..n, NEW j \in 1..n, k = m + i, l = m + j PROVE k = l
    <3>1. t[i].file /\ t[j].file /\ t[i].name = t[j].name
      BY <1>3, <2>1, <2>3
    <3>2. i = j
      BY <1>7, <3>1 DEF Once, n
    <3>3. QED BY <2>3, <3>2
  <2>4. ASSUME NEW a \in 1..m, NEW i \in 1..n, st[a].name = st[m + i].name, st[a].file, st[m + i].file PROVE FALSE
    <3>1. s[a].file /\ t[i].file /\ s[a].name = t[i].name
      BY <1>2, <1>3, <2>4
    <3>2. s[a].name \in Named(s) /\ t[i].name \in Named(t)
      BY <3>1, NamedIs DEF m, n
    <3>3. QED BY <1>7, <3>1, <3>2
  <2>5. QED BY <1>4, <2>1, <2>2, <2>3, <2>4
<1>8. Named(st) = Named(s) \cup Named(t)
  BY <1>5
<1>9. QED BY <1>6, <1>7, <1>8 DEF st

LEMMA NoNames == Named(<<>>) = {} /\ Once(<<>>)
BY DEF Named, Once

LEMMA OneName ==
  ASSUME NEW e \in Entry
  PROVE  Once(<<e>>) /\ Named(<<e>>) = IF e.file THEN {e.name} ELSE {}
<1>1. Len(<<e>>) = 1 /\ <<e>>[1] = e
  OBVIOUS
<1>2. \A k \in 1..Len(<<e>>) : k = 1
  BY <1>1
<1>3. Once(<<e>>)
  BY <1>2 DEF Once
<1>4. ASSUME NEW x PROVE x \in Named(<<e>>) <=> e.file /\ e.name = x
  <2>1. x \in Named(<<e>>) <=> \E k \in 1..Len(<<e>>) : <<e>>[k].file /\ <<e>>[k].name = x
    BY NamedIs
  <2>2. 1 \in 1..Len(<<e>>)
    BY <1>1
  <2>3. QED BY <1>1, <1>2, <2>1, <2>2
<1>5. QED BY <1>3, <1>4

(* One part for another.                                                    *)
Swapped(es, a, b, with) == SubSeq(es, 1, a - 1) \o with \o SubSeq(es, b + 1, Len(es))

LEMMA ReplacedNames ==
  ASSUME NEW es \in Seq(Entry), NEW a \in 1..Len(es) + 1, NEW b \in a - 1..Len(es), NEW with \in Seq(Entry),
         Once(es), Once(with), Named(with) \cap Named(es) \subseteq Named(SubSeq(es, a, b))
  PROVE  Once(Swapped(es, a, b, with)) /\ Named(Swapped(es, a, b, with)) \subseteq Named(es) \cup Named(with)
<1> DEFINE x == SubSeq(es, 1, a - 1)
           y == SubSeq(es, a, b)
           z == SubSeq(es, b + 1, Len(es))
<1>1. x \in Seq(Entry) /\ y \in Seq(Entry) /\ z \in Seq(Entry) /\ x \o y \in Seq(Entry) /\ es = (x \o y) \o z
  BY PartsAre
<1>2. Named(with) \cap Named(es) \subseteq Named(y)
  OBVIOUS
<1> HIDE DEF x, y, z
<1>3. /\ Named(x \o y) = Named(x) \cup Named(y)
      /\ Once(x \o y) <=> Once(x) /\ Once(y) /\ Named(x) \cap Named(y) = {}
  BY <1>1, ConcatNames
<1>4. /\ Named(es) = Named(x \o y) \cup Named(z)
      /\ Once(es) <=> Once(x \o y) /\ Once(z) /\ Named(x \o y) \cap Named(z) = {}
  BY <1>1, ConcatNames
<1>5. x \o with \in Seq(Entry)
  BY <1>1, ConcatProperties
<1>6. /\ Named(x \o with) = Named(x) \cup Named(with)
      /\ Once(x \o with) <=> Once(x) /\ Once(with) /\ Named(x) \cap Named(with) = {}
  BY <1>1, ConcatNames
<1>7. /\ Named((x \o with) \o z) = Named(x \o with) \cup Named(z)
      /\ Once((x \o with) \o z) <=> Once(x \o with) /\ Once(z) /\ Named(x \o with) \cap Named(z) = {}
  BY <1>1, <1>5, ConcatNames
<1>8. /\ Once(x) /\ Once(y) /\ Once(z) /\ Named(x) \cap Named(y) = {} /\ Named(x) \cap Named(z) = {}
      /\ Named(y) \cap Named(z) = {}
      /\ Named(es) = Named(x) \cup Named(y) \cup Named(z)
  BY <1>3, <1>4
<1>9. Named(x) \cap Named(with) = {} /\ Named(z) \cap Named(with) = {}
  BY <1>2, <1>8
<1>10. Once((x \o with) \o z) /\ Named((x \o with) \o z) \subseteq Named(es) \cup Named(with)
  BY <1>6, <1>7, <1>8, <1>9
<1>11. QED BY <1>10 DEF Swapped, x, z

(* An entry changed.                                                        *)
LEMMA EntryNames ==
  ASSUME NEW es \in Seq(Entry), NEW k \in 1..Len(es), NEW e \in Entry, Once(es),
         e.file /\ e.name \in Named(es) => es[k].file /\ es[k].name = e.name
  PROVE  /\ Once([es EXCEPT ![k] = e])
         /\ Named([es EXCEPT ![k] = e]) \subseteq Named(es) \cup IF e.file THEN {e.name} ELSE {}
         /\ es[k].file /\ ~e.file => es[k].name \notin Named([es EXCEPT ![k] = e])
<1> DEFINE new == [es EXCEPT ![k] = e]
<1>1. Len(new) = Len(es) /\ \A j \in 1..Len(es) : new[j] = IF j = k THEN e ELSE es[j]
  BY ExceptSeq
<1> HIDE DEF new
<1>2. ASSUME NEW j \in 1..Len(es), j # k PROVE new[j] = es[j]
  BY <1>1, <1>2
<1>3. new[k] = e
  BY <1>1
<1>4. ASSUME NEW j \in 1..Len(es), j # k, es[j].file, e.file, es[j].name = e.name PROVE FALSE
  <2>1. e.name \in Named(es)
    BY <1>4, NamedIs
  <2>2. QED BY <1>4, <2>1 DEF Once
<1>5. Once(new)
  <2>1. SUFFICES ASSUME NEW i \in 1..Len(es), NEW j \in 1..Len(es), new[i].file, new[j].file, new[i].name = new[j].name
                 PROVE i = j
    BY <1>1 DEF Once
  <2>2. CASE i = k
    BY <1>2, <1>3, <1>4, <2>1, <2>2
  <2>3. CASE j = k
    BY <1>2, <1>3, <1>4, <2>1, <2>3
  <2>4. CASE i # k /\ j # k
    BY <1>2, <2>1, <2>4 DEF Once
  <2>5. QED BY <2>2, <2>3, <2>4
<1>6. ASSUME NEW x \in Named(new) PROVE x \in Named(es) \/ (e.file /\ x = e.name)
  <2>1. PICK j \in 1..Len(es) : new[j].file /\ new[j].name = x
    BY <1>1, NamedIs
  <2>2. CASE j = k
    BY <1>3, <2>1, <2>2
  <2>3. CASE j # k
    <3>1. es[j].file /\ es[j].name = x
      BY <1>2, <2>1, <2>3
    <3>2. QED BY <3>1, NamedIs
  <2>4. QED BY <2>2, <2>3
<1>7. ASSUME es[k].file, ~e.file, es[k].name \in Named(new) PROVE FALSE
  <2>1. PICK j \in 1..Len(es) : new[j].file /\ new[j].name = es[k].name
    BY <1>1, <1>7, NamedIs
  <2>2. j # k
    BY <1>3, <1>7, <2>1
  <2>3. es[j].file /\ es[j].name = es[k].name
    BY <1>2, <2>1, <2>2
  <2>4. QED BY <1>7, <2>2, <2>3 DEF Once
<1>8. QED BY <1>5, <1>6, <1>7 DEF new

(* Names may come to one segment that no other has.                         *)
Brings(dir, new, n, s, X) ==
  /\ \A t \in 1..n : t # s => new[t].entries = dir[t].entries
  /\ Once(new[s].entries) /\ Named(new[s].entries) \subseteq Named(dir[s].entries) \cup X
  /\ \A t \in 1..n : t # s => X \cap Named(dir[t].entries) = {}

(* One segment changed, and bringing only names that no other has.          *)
LEMMA UniqueChanged ==
  ASSUME NEW n, NEW dir, NEW new, Unique(dir, n), NEW s \in 1..n, NEW X, Brings(dir, new, n, s, X)
  PROVE  Unique(new, n)
<1>1. /\ \A t \in 1..n : t # s => new[t].entries = dir[t].entries
      /\ Once(new[s].entries) /\ Named(new[s].entries) \subseteq Named(dir[s].entries) \cup X
      /\ \A t \in 1..n : t # s => X \cap Named(dir[t].entries) = {}
  BY DEF Brings
<1>2. \A t \in 1..n : Once(new[t].entries)
  BY <1>1 DEF Unique
<1>3. ASSUME NEW t \in 1..n, t # s PROVE Named(new[s].entries) \cap Named(new[t].entries) = {}
  <2>1. Named(dir[s].entries) \cap Named(dir[t].entries) = {} /\ X \cap Named(dir[t].entries) = {}
    BY <1>1, <1>3 DEF Unique
  <2>2. new[t].entries = dir[t].entries
    BY <1>1, <1>3
  <2>3. QED BY <1>1, <2>1, <2>2
<1>4. ASSUME NEW t \in 1..n, NEW u \in 1..n, t # u PROVE Named(new[t].entries) \cap Named(new[u].entries) = {}
  <2>1. CASE t = s
    BY <1>3, <1>4, <2>1
  <2>2. CASE u = s
    <3>1. Named(new[s].entries) \cap Named(new[t].entries) = {}
      BY <1>3, <1>4, <2>2
    <3>2. QED BY <2>2, <3>1
  <2>3. CASE t # s /\ u # s
    <3>1. Named(dir[t].entries) \cap Named(dir[u].entries) = {}
      BY <1>4 DEF Unique
    <3>2. QED BY <1>1, <2>3, <3>1
  <2>4. QED BY <2>1, <2>2, <2>3
<1>5. QED BY <1>2, <1>4 DEF Unique

(* The entries of a segment in two segments.                                *)
Halved(dir, new, n, s) ==
  /\ \A t \in 1..n : t # s => new[t].entries = dir[t].entries
  /\ new[s].entries \in Seq(Entry) /\ new[n + 1].entries \in Seq(Entry)
  /\ dir[s].entries = new[s].entries \o new[n + 1].entries

(* A segment split in two keeps names apart.                                *)
LEMMA SplitNames ==
  ASSUME NEW n \in Nat, NEW dir, NEW new, Unique(dir, n), NEW s \in 1..n, Halved(dir, new, n, s)
  PROVE  /\ Unique(new, n + 1)
         /\ \A x : (\A t \in 1..n : x \notin Named(dir[t].entries)) => \A t \in 1..n + 1 : x \notin Named(new[t].entries)
<1> DEFINE a == new[s].entries
           z == new[n + 1].entries
<1>1. /\ Named(dir[s].entries) = Named(a) \cup Named(z)
      /\ Once(dir[s].entries) <=> Once(a) /\ Once(z) /\ Named(a) \cap Named(z) = {}
  BY ConcatNames DEF Halved
<1>2. Once(dir[s].entries)
  BY DEF Unique
<1> HIDE DEF a, z
<1>3. Once(a) /\ Once(z) /\ Named(a) \cap Named(z) = {} /\ Named(a) \subseteq Named(dir[s].entries)
      /\ Named(z) \subseteq Named(dir[s].entries)
  BY <1>1, <1>2
<1>4. \A t \in 1..n + 1 : t \in 1..n \/ t = n + 1
  OBVIOUS
<1>5. Unique(new, n)
  <2>1. ASSUME NEW t \in 1..n PROVE Once(new[t].entries) /\ Named(new[t].entries) \subseteq Named(dir[t].entries)
    <3>1. CASE t = s
      BY <1>3, <3>1 DEF a
    <3>2. CASE t # s
      BY <3>2 DEF Unique, Halved
    <3>3. QED BY <3>1, <3>2
  <2>2. ASSUME NEW t \in 1..n, NEW u \in 1..n, t # u PROVE Named(new[t].entries) \cap Named(new[u].entries) = {}
    <3>1. Named(dir[t].entries) \cap Named(dir[u].entries) = {}
      BY <2>2 DEF Unique
    <3>2. QED BY <2>1, <3>1
  <2>3. QED BY <2>1, <2>2 DEF Unique
<1>6. ASSUME NEW t \in 1..n PROVE Named(new[t].entries) \cap Named(z) = {}
  <2>1. CASE t = s
    BY <1>3, <2>1 DEF a
  <2>2. CASE t # s
    <3>1. Named(dir[t].entries) \cap Named(dir[s].entries) = {}
      BY <2>2 DEF Unique
    <3>2. QED BY <1>3, <2>2, <3>1 DEF Halved
  <2>3. QED BY <2>1, <2>2
<1>7. Unique(new, n + 1)
  <2>1. \A t \in 1..n + 1 : Once(new[t].entries)
    BY <1>3, <1>4, <1>5 DEF Unique, z
  <2>2. ASSUME NEW t \in 1..n + 1, NEW u \in 1..n + 1, t # u PROVE Named(new[t].entries) \cap Named(new[u].entries) = {}
    <3>1. CASE t \in 1..n /\ u \in 1..n
      BY <1>5, <2>2, <3>1 DEF Unique
    <3>2. CASE t \in 1..n /\ u = n + 1
      BY <1>6, <3>2 DEF z
    <3>3. CASE t = n + 1 /\ u \in 1..n
      <4>1. Named(new[u].entries) \cap Named(z) = {}
        BY <1>6, <3>3
      <4>2. QED BY <3>3, <4>1 DEF z
    <3>4. QED BY <1>4, <2>2, <3>1, <3>2, <3>3
  <2>3. QED BY <2>1, <2>2 DEF Unique
<1>8. ASSUME NEW x, \A t \in 1..n : x \notin Named(dir[t].entries), NEW t \in 1..n + 1 PROVE x \notin Named(new[t].entries)
  <2>1. CASE t = n + 1
    BY <1>3, <1>8, <2>1 DEF z
  <2>2. CASE t = s
    BY <1>3, <1>8, <2>2 DEF a
  <2>3. CASE t \in 1..n /\ t # s
    BY <1>8, <2>3 DEF Halved
  <2>4. QED BY <1>4, <2>1, <2>2, <2>3
<1>9. QED BY <1>7, <1>8

------------------------------------
(* The chain.                                                               *)

Dir == [1..Total -> Segment]
Ends(dir, s) == dir[s].start + Lengths(dir[s].entries)

(* The first n segments, linked in the order c.                             *)
Link(dir, c, n) ==
  /\ c \in [1..n -> 1..n] /\ c[1] = 1
  /\ \A i, j \in 1..n : c[i] = c[j] => i = j
  /\ \A i \in 1..n - 1 : dir[c[i]].next = c[i + 1]
  /\ dir[c[n]].next = 0

(* Each begins where the one before it ends, and the last within the image. *)
Tile(dir, c, n, size) ==
  /\ dir[1].start = DataStart
  /\ \A i \in 1..n - 1 : dir[c[i + 1]].start = Ends(dir, c[i])
  /\ Ends(dir, c[n]) <= size

(* The walk along the next words finds the linked segments, in their order. *)
LEMMA ChainUnfolds ==
  \E w : w = [i \in 1..Total |-> IF i = 1 THEN <<1>> ELSE Followed(w[i - 1])] /\ Chain = w[Total]
<1> DEFINE Unfolds(n, g) == g = [i \in 1..n |-> IF i = 1 THEN <<1>> ELSE Followed(g[i - 1])]
           Some == {n \in Nat : \E g : Unfolds(n, g)}
<1>1. 0 \in Some
  <2>1. Unfolds(0, [i \in 1..0 |-> 0])
    OBVIOUS
  <2>2. QED BY <2>1
<1>2. ASSUME NEW n \in Nat, n \in Some PROVE n + 1 \in Some
  <2>1. PICK g : Unfolds(n, g)
    BY <1>2
  <2> DEFINE h == [i \in 1..n + 1 |-> IF i <= n THEN g[i] ELSE IF i = 1 THEN <<1>> ELSE Followed(g[n])]
  <2>2. \A i \in 1..n + 1 : h[i] = IF i = 1 THEN <<1>> ELSE Followed(h[i - 1])
    <3>1. TAKE i \in 1..n + 1
    <3>2. CASE i = 1
      BY <2>1, <3>2
    <3>3. CASE i # 1 /\ i <= n
      <4>1. h[i] = g[i] /\ h[i - 1] = g[i - 1]
        BY <3>3
      <4>2. i \in 1..n
        BY <3>3
      <4>3. g[i] = Followed(g[i - 1])
        BY <2>1, <3>3, <4>2
      <4> HIDE DEF h
      <4>4. QED BY <3>3, <4>1, <4>3
    <3>4. CASE i # 1 /\ i = n + 1
      <4>1. h[i] = Followed(g[n])
        BY <3>4
      <4>2. h[i - 1] = g[n]
        BY <3>4
      <4> HIDE DEF h
      <4>3. QED BY <3>4, <4>1, <4>2
    <3>5. QED BY <3>2, <3>3, <3>4
  <2>3. Unfolds(n + 1, h)
    <3> HIDE DEF h
    <3>1. h = [i \in 1..n + 1 |-> h[i]]
      BY DEF h
    <3>2. QED BY <2>2, <3>1
  <2>4. QED
    <3> HIDE DEF h, Unfolds
    <3>1. QED BY <2>3
<1>3. Nat \subseteq Some
  <2> HIDE DEF Some
  <2>1. QED BY <1>1, <1>2, Induction
<1> DEFINE v == CHOOSE w : w = [i \in 1..Total |-> IF i = 1 THEN <<1>> ELSE Followed(w[i - 1])]
<1>4. \E w : Unfolds(Total, w)
  <2>1. Total \in Nat
    BY LayoutAssumption
  <2> HIDE DEF Unfolds
  <2>2. QED BY <1>3, <2>1
<1>5. Unfolds(Total, v)
  BY <1>4
<1>6. Chain = v[Total]
  BY DEF Chain
<1>7. QED
  <2> HIDE DEF v
  <2>1. QED BY <1>5, <1>6

LEMMA ChainIs ==
  ASSUME NEW n \in 1..Total, NEW c, Link(segs, c, n)
  PROVE  Chain = c /\ DOMAIN Chain = 1..n /\ Len(Chain) = n
<1>1. PICK w : w = [i \in 1..Total |-> IF i = 1 THEN <<1>> ELSE Followed(w[i - 1])] /\ Chain = w[Total]
  BY ChainUnfolds
<1>2. Total \in Nat /\ n \in Nat /\ 1 <= n /\ n <= Total
  BY LayoutAssumption
<1>3. /\ c \in [1..n -> 1..n] /\ c[1] = 1
      /\ \A i \in 1..n - 1 : segs[c[i]].next = c[i + 1]
      /\ segs[c[n]].next = 0
  BY DEF Link
<1> DEFINE part(i) == [j \in 1..i |-> c[j]]
           T == {i \in Nat : i + 1 <= Total => w[i + 1] = IF i + 1 <= n THEN part(i + 1) ELSE part(n)}
<1>4. ASSUME NEW i \in 1..n PROVE part(i) \in Seq(1..n) /\ Len(part(i)) = i
  <2>1. part(i) \in [1..i -> 1..n] /\ i \in Nat
    BY <1>2, <1>3
  <2>2. QED BY <2>1
<1>5. 0 \in T
  <2>1. w[1] = <<1>>
    BY <1>1, <1>2
  <2>2. part(1) = <<1>>
    <3>1. part(1) \in Seq(1..n) /\ Len(part(1)) = 1 /\ part(1)[1] = 1
      BY <1>2, <1>3, <1>4
    <3>2. <<1>> \in Seq(1..n) /\ Len(<<1>>) = 1 /\ <<1>>[1] = 1
      BY <1>2
    <3> HIDE DEF part
    <3>3. \A j \in 1..Len(part(1)) : part(1)[j] = <<1>>[j]
      BY <3>1, <3>2
    <3>4. QED BY <3>1, <3>2, <3>3, SeqEqual
  <2> HIDE DEF part
  <2>3. QED BY <1>2, <2>1, <2>2
<1>6. ASSUME NEW i \in Nat, i \in T PROVE i + 1 \in T
  <2>1. SUFFICES ASSUME i + 2 <= Total PROVE w[i + 2] = IF i + 2 <= n THEN part(i + 2) ELSE part(n)
    OBVIOUS
  <2>2. w[i + 2] = Followed(w[i + 1])
    <3>1. i + 2 \in 1..Total /\ i + 2 # 1 /\ (i + 2) - 1 = i + 1
      BY <1>2, <2>1
    <3>2. w[i + 2] = Followed(w[(i + 2) - 1])
      BY <1>1, <3>1
    <3>3. QED BY <3>1, <3>2
  <2>3. w[i + 1] = IF i + 1 <= n THEN part(i + 1) ELSE part(n)
    BY <1>2, <1>6, <2>1
  <2>4. CASE i + 2 <= n
    <3>1. i + 1 \in 1..n /\ i + 1 \in 1..n - 1 /\ i + 2 \in 1..n /\ i + 2 = (i + 1) + 1
      BY <1>2, <2>4
    <3>2. Len(part(i + 1)) = i + 1 /\ part(i + 1)[i + 1] = c[i + 1] /\ part(i + 1) \in Seq(1..n)
      BY <1>4, <3>1
    <3>3. segs[c[i + 1]].next = c[i + 2] /\ c[i + 2] \in 1..n /\ c[i + 2] # 0
      <4>1. segs[c[i + 1]].next = c[(i + 1) + 1]
        BY <1>3, <3>1
      <4>2. c[i + 2] \in 1..n
        BY <1>3, <3>1
      <4>3. QED BY <3>1, <4>1, <4>2
    <3>4. part(i + 2) \in Seq(1..n) /\ Len(part(i + 2)) = i + 2
      BY <1>4, <3>1
    <3>5. \A j \in 1..i + 2 : part(i + 2)[j] = c[j]
      OBVIOUS
    <3>6. \A j \in 1..i + 1 : part(i + 1)[j] = c[j]
      OBVIOUS
    <3> HIDE DEF part
    <3>7. Followed(part(i + 1)) = Append(part(i + 1), c[i + 2])
      BY <3>2, <3>3 DEF Followed
    <3>8. /\ Append(part(i + 1), c[i + 2]) \in Seq(1..n) /\ Len(Append(part(i + 1), c[i + 2])) = (i + 1) + 1
          /\ \A j \in 1..i + 1 : Append(part(i + 1), c[i + 2])[j] = c[j]
          /\ Append(part(i + 1), c[i + 2])[i + 2] = c[i + 2]
      BY <3>1, <3>2, <3>3, <3>6, AppendProperties
    <3>9. \A j \in 1..i + 2 : Append(part(i + 1), c[i + 2])[j] = part(i + 2)[j]
      <4>1. TAKE j \in 1..i + 2
      <4>2. CASE j = i + 2
        BY <3>5, <3>8, <4>2
      <4>3. CASE j \in 1..i + 1
        BY <3>5, <3>8, <4>3
      <4>4. j = i + 2 \/ j \in 1..i + 1
        OBVIOUS
      <4>5. QED BY <4>2, <4>3, <4>4
    <3>10. Append(part(i + 1), c[i + 2]) = part(i + 2)
      BY <3>1, <3>4, <3>8, <3>9, SeqEqual
    <3>11. QED BY <2>2, <2>3, <2>4, <3>1, <3>7, <3>10
  <2>5. CASE n < i + 2
    <3>1. w[i + 1] = part(n)
      <4>1. i + 1 <= n => i + 1 = n
        BY <1>2, <2>5
      <4> HIDE DEF part
      <4>2. QED BY <2>3, <4>1
    <3>2. Len(part(n)) = n /\ part(n)[n] = c[n]
      BY <1>2, <1>4
    <3> HIDE DEF part
    <3>3. Followed(part(n)) = part(n)
      BY <1>3, <3>2 DEF Followed
    <3>4. ~(i + 2 <= n)
      BY <1>2, <2>5
    <3>5. QED BY <2>2, <3>1, <3>3, <3>4
  <2>6. QED BY <1>2, <2>4, <2>5
<1>7. Nat \subseteq T
  <2> HIDE DEF T
  <2>1. QED BY <1>5, <1>6, Induction
<1>8. w[Total] = part(n)
  <2>1. Total - 1 \in T /\ (Total - 1) + 1 = Total
    <3>1. Total - 1 \in Nat
      BY <1>2
    <3> HIDE DEF T
    <3>2. QED BY <1>2, <1>7, <3>1
  <2>2. Total <= n => Total = n
    BY <1>2
  <2> HIDE DEF part
  <2>3. w[(Total - 1) + 1] = IF (Total - 1) + 1 <= n THEN part((Total - 1) + 1) ELSE part(n)
    BY <1>2, <2>1
  <2>4. QED BY <2>1, <2>2, <2>3
<1>9. c = part(n)
  BY <1>3
<1>10. DOMAIN part(n) = 1..n /\ Len(part(n)) = n
  BY <1>2, <1>4
<1> HIDE DEF part
<1>11. QED BY <1>1, <1>8, <1>9, <1>10

(* A change that leaves each segment's link, start and length.              *)
LEMMA TileKept ==
  ASSUME NEW n \in Nat, NEW c, NEW dir, NEW new, NEW size \in Nat, Link(dir, c, n), Tile(dir, c, n, size), n # 0,
         \A s \in 1..n : /\ new[s].next = dir[s].next /\ new[s].start = dir[s].start
                         /\ Lengths(new[s].entries) = Lengths(dir[s].entries)
  PROVE  Link(new, c, n) /\ Tile(new, c, n, size)
<1>1. c \in [1..n -> 1..n] /\ 1 \in 1..n /\ n \in 1..n /\ \A i \in 1..n - 1 : i \in 1..n /\ i + 1 \in 1..n
  BY DEF Link
<1>2. \A i \in 1..n : c[i] \in 1..n
  BY <1>1
<1>3. Link(new, c, n)
  BY <1>1, <1>2, ZenonT(40) DEF Link
<1>4. \A s \in 1..n : Ends(new, s) = Ends(dir, s)
  BY DEF Ends
<1>5. Tile(new, c, n, size)
  BY <1>1, <1>2, <1>4 DEF Tile
<1>6. QED BY <1>3, <1>5

------------------------------------
(* A segment split.                                                         *)

(* splitSegment's result, and the chain with the new segment after the one  *)
(* that is split.                                                           *)
LEMMA SplitIs ==
  ASSUME NEW dir \in Dir, NEW s \in 1..Total, highest \in 1..Total, highest < Total, s # highest + 1,
         NEW half \in 0..Len(dir[s].entries), half = Half(dir[s].entries)
  PROVE  LET new == Split(dir, s)
             es == dir[s].entries
         IN /\ new \in Dir
            /\ \A t \in 1..Total : t # s /\ t # highest + 1 => new[t] = dir[t]
            /\ new[s].next = highest + 1 /\ new[s].start = dir[s].start /\ new[s].entries = SubSeq(es, 1, half)
            /\ new[highest + 1].next = dir[s].next
            /\ new[highest + 1].start = dir[s].start + Lengths(SubSeq(es, 1, half))
            /\ new[highest + 1].entries = SubSeq(es, half + 1, Len(es))
<1> DEFINE es == dir[s].entries
           first == [next |-> highest + 1, start |-> dir[s].start, entries |-> SubSeq(es, 1, half)]
           later == [next |-> dir[s].next, start |-> dir[s].start + Lengths(SubSeq(es, 1, half)),
                     entries |-> SubSeq(es, half + 1, Len(es))]
<1>1. /\ dir[s] \in Segment /\ es \in Seq(Entry) /\ dir[s].next \in 0..Total /\ dir[s].start \in Nat
      /\ Len(es) \in Nat /\ half \in Nat /\ half <= Len(es) /\ Total \in Nat /\ highest + 1 \in 1..Total
  <2>1. dir[s] \in Segment
    BY DEF Dir
  <2>2. es \in Seq(Entry) /\ dir[s].next \in 0..Total /\ dir[s].start \in Nat
    BY <2>1 DEF Segment
  <2>3. Len(es) \in Nat
    BY <2>2, LenProperties
  <2>4. Total \in Nat /\ highest + 1 \in 1..Total
    BY LayoutAssumption
  <2>5. half \in Nat /\ half <= Len(es)
    BY <2>3
  <2> HIDE DEF es
  <2>6. QED BY <2>1, <2>2, <2>3, <2>4, <2>5
<1> HIDE DEF es
<1>2. /\ SubSeq(es, 1, half) \in Seq(Entry) /\ SubSeq(es, half + 1, Len(es)) \in Seq(Entry)
      /\ Lengths(SubSeq(es, 1, half)) \in Nat
  <2>1. half \in 0..Len(es)
    BY <1>1
  <2>2. QED BY <1>1, <2>1, HalvesAre
<1>4. first \in Segment /\ later \in Segment
  <2>1. highest + 1 \in 0..Total /\ dir[s].start + Lengths(SubSeq(es, 1, half)) \in Nat
    BY <1>1, <1>2
  <2>2. first \in Segment
    BY <1>1, <1>2, <2>1 DEF Segment
  <2>3. later \in Segment
    BY <1>1, <1>2, <2>1 DEF Segment
  <2>4. QED BY <2>2, <2>3
<1>5. MovedStart(dir[s], half) = dir[s].start + Lengths(SubSeq(es, 1, half))
  <2>1. (half + 1) - 1 = half
    BY <1>1
  <2>2. QED BY <2>1 DEF MovedStart, StartOf, es
<1>6. Split(dir, s) = [dir EXCEPT ![s] = first, ![highest + 1] = later]
  BY <1>5 DEF Split, es
<1>11. /\ later.next = dir[s].next /\ later.start = dir[s].start + Lengths(SubSeq(es, 1, half))
       /\ later.entries = SubSeq(es, half + 1, Len(es))
  OBVIOUS
<1> DEFINE new == Split(dir, s)
<1> HIDE DEF first, later
<1>7. /\ new \in Dir /\ new[s] = first /\ new[highest + 1] = later
      /\ \A t \in 1..Total : t # s /\ t # highest + 1 => new[t] = dir[t]
  BY <1>1, <1>4, <1>6 DEF Dir
<1> HIDE DEF new
<1>8. /\ new[s].next = highest + 1 /\ new[s].start = dir[s].start /\ new[s].entries = SubSeq(es, 1, half)
  BY <1>7 DEF first
<1>9. /\ new[highest + 1].next = dir[s].next
      /\ new[highest + 1].start = dir[s].start + Lengths(SubSeq(es, 1, half))
      /\ new[highest + 1].entries = SubSeq(es, half + 1, Len(es))
  BY <1>7, <1>11
<1>10. QED BY <1>7, <1>8, <1>9 DEF new, es

LEMMA SplitTiles ==
  ASSUME NEW dir \in Dir, NEW c, NEW p \in 1..highest, highest \in 1..Total, highest < Total, NEW size \in Nat,
         Link(dir, c, highest), Tile(dir, c, highest, size),
         NEW half \in 0..Len(dir[c[p]].entries), half = Half(dir[c[p]].entries)
  PROVE  \E d : Link(Split(dir, c[p]), d, highest + 1) /\ Tile(Split(dir, c[p]), d, highest + 1, size)
<1> DEFINE n == highest
           s == c[p]
           new == Split(dir, s)
           d == [i \in 1..n + 1 |-> IF i <= p THEN c[i] ELSE IF i = p + 1 THEN n + 1 ELSE c[i - 1]]
<1>1. /\ c \in [1..n -> 1..n] /\ c[1] = 1
      /\ \A i, j \in 1..n : c[i] = c[j] => i = j
      /\ \A i \in 1..n - 1 : dir[c[i]].next = c[i + 1]
      /\ dir[c[n]].next = 0
  BY DEF Link
<1>2. /\ dir[1].start = DataStart
      /\ \A i \in 1..n - 1 : dir[c[i + 1]].start = Ends(dir, c[i])
      /\ Ends(dir, c[n]) <= size
  BY DEF Tile
<1>3. /\ n \in Nat /\ 1 <= n /\ p \in Nat /\ 1 <= p /\ p <= n /\ Total \in Nat /\ n < Total
      /\ s \in 1..n /\ s \in 1..Total /\ s # n + 1 /\ 1..n \subseteq 1..Total
  BY <1>1, LayoutAssumption
<1> DEFINE es == dir[s].entries
<1>4. /\ new \in Dir
      /\ \A t \in 1..Total : t # s /\ t # n + 1 => new[t] = dir[t]
      /\ new[s].next = n + 1 /\ new[s].start = dir[s].start /\ new[s].entries = SubSeq(es, 1, half)
      /\ new[n + 1].next = dir[s].next
      /\ new[n + 1].start = dir[s].start + Lengths(SubSeq(es, 1, half))
      /\ new[n + 1].entries = SubSeq(es, half + 1, Len(es))
  <2>1. s \in 1..Total /\ s # highest + 1 /\ half \in 0..Len(dir[s].entries) /\ half = Half(dir[s].entries)
    BY <1>3
  <2> HIDE DEF s
  <2>2. QED BY <2>1, SplitIs
<1>5. /\ Lengths(SubSeq(es, 1, half)) \in Nat /\ Lengths(SubSeq(es, half + 1, Len(es))) \in Nat
      /\ Lengths(es) = Lengths(SubSeq(es, 1, half)) + Lengths(SubSeq(es, half + 1, Len(es))) /\ dir[s].start \in Nat
  <2>1. es \in Seq(Entry) /\ dir[s].start \in Nat
    BY <1>3 DEF Dir, Segment
  <2> HIDE DEF es
  <2>2. half \in 0..Len(es)
    BY DEF es
  <2>3. QED BY <2>1, <2>2, HalvesAre
<1> HIDE DEF new, es, s
<1>6. Ends(new, s) = new[n + 1].start /\ Ends(new, n + 1) = Ends(dir, s)
  <2>1. Ends(new, s) = dir[s].start + Lengths(SubSeq(es, 1, half))
    BY <1>4 DEF Ends
  <2>2. Ends(new, n + 1)
          = (dir[s].start + Lengths(SubSeq(es, 1, half))) + Lengths(SubSeq(es, half + 1, Len(es)))
    BY <1>4 DEF Ends
  <2>3. Ends(dir, s) = dir[s].start + Lengths(es)
    BY DEF Ends, es
  <2>4. QED BY <1>4, <1>5, <2>1, <2>2, <2>3
<1>7. /\ \A i \in 1..p : d[i] = c[i]
      /\ d[p + 1] = n + 1
      /\ \A i \in p + 2..n + 1 : d[i] = c[i - 1]
  BY <1>3
<1>8. d = [i \in 1..n + 1 |-> d[i]]
  OBVIOUS
<1> HIDE DEF d
<1>9. \A i \in 1..n + 1 : \/ i \in 1..p /\ i \in 1..n
                          \/ i = p + 1
                          \/ i \in p + 2..n + 1 /\ i - 1 \in 1..n /\ i - 1 # p
  BY <1>3
<1>10. \A i \in 1..n : c[i] \in 1..n /\ c[i] \in 1..Total /\ c[i] # n + 1
       /\ (i # p => c[i] # s /\ new[c[i]] = dir[c[i]])
  <2>1. TAKE i \in 1..n
  <2>2. c[i] \in 1..n
    BY <1>1
  <2>3. c[i] \in 1..Total /\ c[i] # n + 1
    BY <1>3, <2>2
  <2>4. ASSUME i # p PROVE c[i] # s
    BY <1>1, <2>4 DEF s
  <2>5. QED BY <1>4, <2>2, <2>3, <2>4
<1>11. d \in [1..n + 1 -> 1..n + 1]
  <2>1. ASSUME NEW i \in 1..n + 1 PROVE d[i] \in 1..n + 1
    <3>1. CASE i \in 1..p /\ i \in 1..n
      <4>1. d[i] = c[i] /\ c[i] \in 1..n
        BY <1>7, <1>10, <3>1
      <4>2. QED BY <1>3, <4>1
    <3>2. CASE i = p + 1
      BY <1>3, <1>7, <3>2
    <3>3. CASE i \in p + 2..n + 1 /\ i - 1 \in 1..n
      <4>1. d[i] = c[i - 1] /\ c[i - 1] \in 1..n
        BY <1>7, <1>10, <3>3
      <4>2. QED BY <1>3, <4>1
    <3>4. QED BY <1>9, <3>1, <3>2, <3>3
  <2>2. QED BY <1>8, <2>1
<1>12. \A i, j \in 1..n + 1 : d[i] = d[j] => i = j
  <2>1. TAKE i, j \in 1..n + 1
  <2>2. HAVE d[i] = d[j]
  <2>3. CASE i = p + 1 \/ j = p + 1
    BY <1>7, <1>9, <1>10, <2>2, <2>3
  <2>4. CASE i # p + 1 /\ j # p + 1
    <3> DEFINE back(x) == IF x <= p THEN x ELSE x - 1
    <3>1. \A x \in 1..n + 1 : x # p + 1 => back(x) \in 1..n /\ d[x] = c[back(x)]
      <4>1. TAKE x \in 1..n + 1
      <4>2. HAVE x # p + 1
      <4>3. CASE x \in 1..p /\ x \in 1..n
        BY <1>3, <1>7, <4>3
      <4>4. CASE x \in p + 2..n + 1 /\ x - 1 \in 1..n
        BY <1>3, <1>7, <4>4
      <4>5. QED BY <1>9, <4>2, <4>3, <4>4
    <3>2. c[back(i)] = c[back(j)] /\ back(i) \in 1..n /\ back(j) \in 1..n
      <4> HIDE DEF back
      <4>1. QED BY <2>2, <2>4, <3>1
    <3>3. back(i) = back(j)
      <4> HIDE DEF back
      <4>1. QED BY <1>1, <3>2
    <3>4. QED BY <1>3, <2>4, <3>3
  <2>5. QED BY <2>3, <2>4
<1>13. \A i \in 1..(n + 1) - 1 : new[d[i]].next = d[i + 1] /\ new[d[i + 1]].start = Ends(new, d[i])
  <2>1. TAKE i \in 1..(n + 1) - 1
  <2>2. i \in 1..n /\ i \in Nat /\ i + 1 \in 1..n + 1
    BY <1>3
  <2>3. CASE i < p
    <3>1. i \in 1..n - 1 /\ i \in 1..p /\ i + 1 \in 1..p /\ i + 1 \in 1..n /\ i # p
      BY <1>3, <2>2, <2>3
    <3>2. d[i] = c[i] /\ d[i + 1] = c[i + 1] /\ new[c[i]] = dir[c[i]]
      BY <1>7, <1>10, <2>2, <3>1
    <3>3. new[c[i + 1]].start = dir[c[i + 1]].start
      <4>1. CASE i + 1 = p
        BY <1>4, <4>1 DEF s
      <4>2. CASE i + 1 # p
        BY <1>10, <3>1, <4>2
      <4>3. QED BY <4>1, <4>2
    <3>4. dir[c[i]].next = c[i + 1] /\ dir[c[i + 1]].start = Ends(dir, c[i])
      BY <1>1, <1>2, <3>1
    <3>5. QED BY <3>2, <3>3, <3>4 DEF Ends
  <2>4. CASE i = p
    <3>1. d[i] = s /\ d[i + 1] = n + 1
      BY <1>3, <1>7, <2>4 DEF s
    <3>2. QED BY <1>4, <1>6, <3>1
  <2>5. CASE i = p + 1
    <3>1. p \in 1..n - 1 /\ i + 1 \in p + 2..n + 1 /\ (i + 1) - 1 = p + 1 /\ p + 1 \in 1..n /\ p + 1 # p
      BY <1>3, <2>2, <2>5
    <3>2. d[i] = n + 1 /\ d[i + 1] = c[p + 1] /\ new[c[p + 1]] = dir[c[p + 1]]
      BY <1>7, <1>10, <2>5, <3>1
    <3>3. dir[s].next = c[p + 1] /\ dir[c[p + 1]].start = Ends(dir, s)
      BY <1>1, <1>2, <3>1 DEF s
    <3>4. QED BY <1>4, <1>6, <3>2, <3>3
  <2>6. CASE p + 1 < i
    <3>1. /\ i \in p + 2..n + 1 /\ i + 1 \in p + 2..n + 1 /\ i - 1 \in 1..n - 1 /\ i - 1 \in 1..n
          /\ (i + 1) - 1 = i /\ (i - 1) + 1 = i /\ i - 1 # p /\ i # p
      <4>1. n \in Nat /\ p \in Nat /\ i \in Nat /\ i <= n /\ p + 2 <= i
        BY <1>3, <2>2, <2>6
      <4>2. i \in p + 2..n + 1 /\ i + 1 \in p + 2..n + 1 /\ i - 1 # p /\ i # p
        BY <1>3, <4>1
      <4>3. i - 1 \in 1..n - 1 /\ i - 1 \in 1..n /\ (i + 1) - 1 = i /\ (i - 1) + 1 = i
        BY <1>3, <4>1
      <4>4. QED BY <4>2, <4>3
    <3>2. d[i] = c[i - 1] /\ d[i + 1] = c[i] /\ new[c[i - 1]] = dir[c[i - 1]] /\ new[c[i]] = dir[c[i]]
      BY <1>7, <1>10, <2>2, <3>1
    <3>3. dir[c[i - 1]].next = c[i] /\ dir[c[i]].start = Ends(dir, c[i - 1])
      <4>1. dir[c[i - 1]].next = c[(i - 1) + 1] /\ dir[c[(i - 1) + 1]].start = Ends(dir, c[i - 1])
        BY <1>1, <1>2, <3>1
      <4>2. QED BY <3>1, <4>1
    <3>4. QED BY <3>2, <3>3 DEF Ends
  <2>7. QED BY <1>3, <2>2, <2>3, <2>4, <2>5, <2>6
<1>14. new[d[n + 1]].next = 0 /\ Ends(new, d[n + 1]) <= size
  <2>1. CASE p = n
    BY <1>1, <1>2, <1>4, <1>6, <1>7, <2>1 DEF s
  <2>2. CASE p # n
    <3>1. n + 1 \in p + 2..n + 1 /\ (n + 1) - 1 = n /\ n \in 1..n
      BY <1>3, <2>2
    <3>2. d[n + 1] = c[n] /\ new[c[n]] = dir[c[n]]
      BY <1>7, <1>10, <2>2, <3>1
    <3>3. QED BY <1>1, <1>2, <3>2 DEF Ends
  <2>3. QED BY <2>1, <2>2
<1>15. d[1] = 1 /\ new[1].start = DataStart
  <2>1. d[1] = 1
    BY <1>1, <1>3, <1>7
  <2>2. CASE p = 1
    <3>1. s = 1
      BY <1>1, <2>2 DEF s
    <3>2. new[s].start = dir[s].start
      BY <1>4
    <3>3. QED BY <1>2, <2>1, <3>1, <3>2
  <2>3. CASE p # 1
    <3>1. new[c[1]] = dir[c[1]]
      BY <1>3, <1>10, <2>3
    <3>2. QED BY <1>1, <1>2, <2>1, <3>1
  <2>4. QED BY <2>1, <2>2, <2>3
<1>16. Link(new, d, n + 1)
  BY <1>11, <1>12, <1>13, <1>14, <1>15 DEF Link
<1>17. Tile(new, d, n + 1, size)
  BY <1>13, <1>14, <1>15 DEF Tile
<1>18. QED BY <1>16, <1>17 DEF new, s

------------------------------------
(* The slot and what is written there.                                      *)

(* findSlot's first slot is one of the slots.                               *)
LEMMA FirstIs ==
  ASSUME NEW found \in SUBSET (Nat \X Nat), found # {}
  PROVE  /\ First(found) \in found
         /\ \A y \in found : First(found)[1] < y[1] \/ (First(found)[1] = y[1] /\ First(found)[2] <= y[2])
<1> DEFINE A == {x[1] : x \in found}
<1>1. PICK a \in A : \A b \in A : a <= b
  <2>1. A \in SUBSET Nat /\ A # {}
    OBVIOUS
  <2> HIDE DEF A
  <2>2. QED BY <2>1, FirstOf
<1> DEFINE B == {x[2] : x \in {y \in found : y[1] = a}}
<1>2. PICK k \in B : \A b \in B : k <= b
  <2>1. B \in SUBSET Nat /\ B # {}
    BY <1>1
  <2> HIDE DEF B
  <2>2. QED BY <2>1, FirstOf
<1>3. PICK x \in found : x[1] = a /\ x[2] = k
  BY <1>2
<1>4. ASSUME NEW y \in found PROVE x[1] < y[1] \/ (x[1] = y[1] /\ x[2] <= y[2])
  <2>1. y[1] \in A /\ a <= y[1] /\ a \in Nat /\ y[1] \in Nat
    BY <1>1
  <2>2. CASE y[1] = a
    <3>1. y[2] \in B
      BY <2>2
    <3> HIDE DEF A, B
    <3>2. QED BY <1>2, <1>3, <2>2, <3>1
  <2>3. CASE y[1] # a
    <3> HIDE DEF A, B
    <3>1. QED BY <1>3, <2>1, <2>3
  <2>4. QED BY <2>2, <2>3
<1> HIDE DEF A, B
<1>5. QED BY <1>4 DEF First

LEMMA SlotsAre ==
  ASSUME NEW dir, NEW c, NEW n, NEW x \in Slots(dir, c, n)
  PROVE  /\ x = <<x[1], x[2]>> /\ x[1] \in DOMAIN c /\ x[2] \in DOMAIN dir[c[x[1]]].entries
         /\ ~dir[c[x[1]]].entries[x[2]].file /\ dir[c[x[1]]].entries[x[2]].len >= n
BY DEF Slots

(* The types of a segment.                                                  *)
LEMMA DirIs ==
  ASSUME NEW dir \in Dir, NEW s \in 1..Total
  PROVE  /\ dir[s] \in Segment /\ dir[s].entries \in Seq(Entry) /\ dir[s].start \in Nat /\ dir[s].next \in 0..Total
         /\ Len(dir[s].entries) \in Nat /\ DOMAIN dir[s].entries = 1..Len(dir[s].entries)
         /\ Lengths(dir[s].entries) \in Nat
<1>1. dir[s] \in Segment
  BY DEF Dir
<1>2. dir[s].entries \in Seq(Entry) /\ dir[s].start \in Nat /\ dir[s].next \in 0..Total
  BY <1>1 DEF Segment
<1>3. QED BY <1>1, <1>2, LenProperties, LengthsNat

(* The entries of one segment changed.                                      *)
WithEntries(dir, s, es) == [dir EXCEPT ![s].entries = es]

LEMMA EntriesSet ==
  ASSUME NEW dir \in Dir, NEW s \in 1..Total, NEW es \in Seq(Entry)
  PROVE  /\ WithEntries(dir, s, es) \in Dir
         /\ \A t \in 1..Total : /\ WithEntries(dir, s, es)[t].next = dir[t].next
                                /\ WithEntries(dir, s, es)[t].start = dir[t].start
                                /\ WithEntries(dir, s, es)[t].entries = IF t = s THEN es ELSE dir[t].entries
<1> DEFINE new == [dir EXCEPT ![s].entries = es]
<1>1. ASSUME NEW t \in 1..Total
      PROVE  /\ new[t] \in Segment /\ new[t].next = dir[t].next /\ new[t].start = dir[t].start
             /\ new[t].entries = IF t = s THEN es ELSE dir[t].entries
  <2>1. dir[t] \in Segment /\ dir \in [1..Total -> Segment]
    BY DirIs DEF Dir
  <2>2. CASE t = s
    <3>1. new[t] = [dir[t] EXCEPT !.entries = es]
      BY <2>1, <2>2
    <3> HIDE DEF new
    <3>2. QED BY <2>1, <2>2, <3>1 DEF Segment
  <2>3. CASE t # s
    <3>1. new[t] = dir[t]
      BY <2>1, <2>3
    <3> HIDE DEF new
    <3>2. QED BY <2>1, <2>3, <3>1
  <2>4. QED BY <2>2, <2>3
<1>2. new = [t \in 1..Total |-> new[t]]
  BY DEF Dir
<1> HIDE DEF new
<1>3. new \in Dir
  BY <1>1, <1>2 DEF Dir
<1>4. new = WithEntries(dir, s, es)
  BY DEF new, WithEntries
<1>5. QED BY <1>1, <1>3, <1>4

(* A file and what it leaves of the area fill the area.                     *)
LEMMA ResidueIs ==
  ASSUME NEW e \in Entry, NEW n \in Nat, e.len >= n, NEW file \in Entry, file.len = n
  PROVE  LET with == <<file>> \o Residue(e, n)
         IN with \in Seq(Entry) /\ Lengths(with) = e.len /\ Len(with) = IF n < e.len THEN 2 ELSE 1
<1>1. e.len \in Nat /\ <<file>> \in Seq(Entry) /\ Lengths(<<file>>) = n /\ Len(<<file>>) = 1
  BY LengthsOne DEF Entry
<1>2. CASE n < e.len
  <2> DEFINE rest == Free(e.len - n)
  <2>1. rest \in Entry /\ rest.len = e.len - n
    BY <1>1, <1>2 DEF Free, Area, Entry
  <2>2. Residue(e, n) = <<rest>>
    BY <1>2 DEF Residue
  <2> HIDE DEF rest
  <2>3. <<rest>> \in Seq(Entry) /\ Lengths(<<rest>>) = e.len - n /\ Len(<<rest>>) = 1
    BY <2>1, LengthsOne
  <2>4. /\ <<file>> \o <<rest>> \in Seq(Entry)
        /\ Lengths(<<file>> \o <<rest>>) = Lengths(<<file>>) + Lengths(<<rest>>)
        /\ Len(<<file>> \o <<rest>>) = Len(<<file>>) + Len(<<rest>>)
    BY <1>1, <2>3, LengthsConcat, ConcatProperties
  <2> DEFINE two == <<file>> \o <<rest>>
  <2> HIDE DEF two
  <2>5. two \in Seq(Entry) /\ Lengths(two) = e.len /\ Len(two) = 2
    <3>1. two \in Seq(Entry) /\ Lengths(two) = n + (e.len - n) /\ Len(two) = 1 + 1
      BY <1>1, <2>3, <2>4 DEF two
    <3>2. QED BY <1>1, <3>1
  <2>6. QED BY <1>2, <2>2, <2>5 DEF two
<1>3. CASE ~(n < e.len)
  <2>1. Residue(e, n) = <<>> /\ e.len = n
    BY <1>1, <1>3 DEF Residue
  <2>2. <<file>> \o <<>> = <<file>>
    BY <1>1, ConcatEmptySeq
  <2>3. QED BY <1>1, <1>3, <2>1, <2>2
<1>4. QED BY <1>2, <1>3

(* Fill leaves each segment where it is and as long as it was.              *)
LEMMA FillIs ==
  ASSUME NEW dir \in Dir, NEW s \in 1..Total, NEW k \in 1..Len(dir[s].entries), NEW data \in Seq(Block),
         dir[s].entries[k].len >= Len(data), NEW file \in Entry, file.len = Len(data), Fill(dir, s, k, file, data),
         blocks \in Seq(Block)
  PROVE  /\ segs' \in Dir /\ blocks' \in Seq(Block) /\ Len(blocks') = Len(blocks)
         /\ \A t \in 1..Total : /\ segs'[t].next = dir[t].next /\ segs'[t].start = dir[t].start
                                /\ Lengths(segs'[t].entries) = Lengths(dir[t].entries)
                                /\ t # s => segs'[t].entries = dir[t].entries
         /\ Len(segs'[s].entries) = Len(dir[s].entries) + IF Len(data) < dir[s].entries[k].len THEN 1 ELSE 0
<1> DEFINE es == dir[s].entries
           e == es[k]
           n == Len(data)
           with == <<file>> \o Residue(e, n)
           es2 == Replace(es, k, with)
<1>1. es \in Seq(Entry) /\ Len(es) \in Nat /\ e \in Entry /\ n \in Nat
  BY DirIs, ElementOfSeq, LenProperties
<1>2. with \in Seq(Entry) /\ Lengths(with) = e.len /\ Len(with) = IF n < e.len THEN 2 ELSE 1
  <2> HIDE DEF e, n
  <2>1. e.len >= n /\ file.len = n
    BY DEF e, n
  <2>2. QED BY <1>1, <2>1, ResidueIs
<1>3. es2 \in Seq(Entry) /\ Lengths(es2) = Lengths(es) /\ Len(es2) = (Len(es) - 1) + Len(with)
  <2> HIDE DEF with, es
  <2>1. k \in 1..Len(es) /\ Lengths(with) = es[k].len
    BY <1>2 DEF es
  <2>2. QED BY <1>1, <1>2, <2>1, ReplaceIs
<1>4. segs' = [dir EXCEPT ![s].entries = es2]
  <2>1. segs' = [dir EXCEPT ![s].entries = Replace(@, k, <<file>> \o Residue(@[k], Len(data)))]
    BY DEF Fill
  <2>2. QED BY <2>1 DEF Dir
<1> HIDE DEF es2, with, e, n
<1>5. /\ segs' \in Dir
      /\ \A t \in 1..Total : /\ segs'[t].next = dir[t].next /\ segs'[t].start = dir[t].start
                             /\ segs'[t].entries = IF t = s THEN es2 ELSE dir[t].entries
  <2>1. segs' = WithEntries(dir, s, es2)
    BY <1>4 DEF WithEntries
  <2>2. QED BY <1>3, <2>1, EntriesSet
<1>6. Len(es2) = Len(es) + IF n < e.len THEN 1 ELSE 0
  <2> HIDE DEF es
  <2>1. CASE n < e.len
    <3>1. Len(with) = 2
      BY <1>2, <2>1
    <3>2. QED BY <1>1, <1>3, <2>1, <3>1
  <2>2. CASE ~(n < e.len)
    <3>1. Len(with) = 1
      BY <1>2, <2>2
    <3>2. QED BY <1>1, <1>3, <2>2, <3>1
  <2>3. QED BY <2>1, <2>2
<1>7. blocks' \in Seq(Block) /\ Len(blocks') = Len(blocks)
  <2> DEFINE into(b) == b + DataStart - StartOf(dir[s], k)
  <2>1. blocks' = [b \in DOMAIN blocks |-> IF into(b) \in DOMAIN data THEN data[into(b)] ELSE blocks[b]]
    BY DEF Fill
  <2>2. DOMAIN blocks = 1..Len(blocks) /\ Len(blocks) \in Nat /\ DOMAIN data = 1..Len(data)
    BY LenProperties
  <2>3. ASSUME NEW b \in 1..Len(blocks)
        PROVE  (IF into(b) \in DOMAIN data THEN data[into(b)] ELSE blocks[b]) \in Block
    <3> HIDE DEF into
    <3>1. CASE into(b) \in DOMAIN data
      BY <2>2, <3>1, ElementOfSeq
    <3>2. CASE into(b) \notin DOMAIN data
      BY <3>2, ElementOfSeq
    <3>3. QED BY <3>1, <3>2
  <2> HIDE DEF into
  <2>4. blocks' \in [1..Len(blocks) -> Block]
    BY <2>1, <2>2, <2>3
  <2>5. QED BY <2>2, <2>4
<1>8. QED BY <1>3, <1>5, <1>6, <1>7 DEF es, e, n

(* Fill brings the file's name and no other.                                *)
LEMMA FillNames ==
  ASSUME NEW dir \in Dir, NEW s \in 1..Total, NEW k \in 1..Len(dir[s].entries), NEW data \in Seq(Block),
         dir[s].entries[k].len >= Len(data), NEW file \in Entry, file.file, file.len = Len(data),
         Fill(dir, s, k, file, data), Once(dir[s].entries), file.name \notin Named(dir[s].entries)
  PROVE  /\ Once(segs'[s].entries) /\ Named(segs'[s].entries) \subseteq Named(dir[s].entries) \cup {file.name}
<1> DEFINE es == dir[s].entries
           e == es[k]
           n == Len(data)
           rest == Residue(e, n)
           with == <<file>> \o rest
           es2 == Replace(es, k, with)
<1>1. es \in Seq(Entry) /\ Len(es) \in Nat /\ e \in Entry /\ n \in Nat /\ k \in 1..Len(es) /\ e.len >= n
  BY DirIs, ElementOfSeq, LenProperties
<1>2. segs'[s].entries = es2
  <2>1. segs' = [dir EXCEPT ![s].entries = Replace(@, k, <<file>> \o Residue(@[k], Len(data)))]
    BY DEF Fill
  <2>2. segs' = [dir EXCEPT ![s].entries = es2]
    BY <2>1 DEF Dir
  <2> HIDE DEF es2
  <2>3. dir[s] \in Segment /\ dir \in [1..Total -> Segment]
    BY DirIs DEF Dir
  <2>4. segs'[s] = [dir[s] EXCEPT !.entries = es2]
    BY <2>2, <2>3
  <2>5. QED BY <2>3, <2>4 DEF Segment
<1>3. with \in Seq(Entry) /\ rest \in Seq(Entry) /\ Named(rest) = {} /\ Once(rest)
  <2> HIDE DEF e
  <2>1. CASE n < e.len
    <3> DEFINE area == Free(e.len - n)
    <3>1. e.len \in Nat
      BY <1>1 DEF Entry
    <3> DEFINE len == e.len - n
    <3>2. len \in Nat
      BY <1>1, <2>1, <3>1
    <3> HIDE DEF len
    <3>3. Free(len) \in Entry /\ ~Free(len).file
      BY <3>2 DEF Free, Area, Entry
    <3>4. area \in Entry /\ ~area.file
      BY <3>3 DEF len
    <3>5. rest = <<area>>
      BY <2>1 DEF Residue
    <3> HIDE DEF area, rest
    <3>6. <<area>> \in Seq(Entry) /\ Named(<<area>>) = {} /\ Once(<<area>>)
      BY <3>4, OneName, LengthsOne
    <3>7. rest \in Seq(Entry) /\ Named(rest) = {} /\ Once(rest)
      BY <3>5, <3>6
    <3>8. <<file>> \in Seq(Entry)
      BY LengthsOne
    <3>9. QED BY <3>7, <3>8, ConcatProperties
  <2>2. CASE ~(n < e.len)
    <3>1. rest = <<>>
      BY <2>2 DEF Residue
    <3> HIDE DEF rest
    <3>2. rest \in Seq(Entry) /\ Named(rest) = {} /\ Once(rest)
      BY <3>1, NoNames, EmptySeq
    <3>3. <<file>> \in Seq(Entry)
      BY LengthsOne
    <3>4. QED BY <3>2, <3>3, ConcatProperties
  <2>3. QED BY <2>1, <2>2
<1> HIDE DEF rest
<1>4. Once(with) /\ Named(with) = {file.name}
  <2>1. <<file>> \in Seq(Entry) /\ Once(<<file>>) /\ Named(<<file>>) = {file.name}
    BY OneName, LengthsOne
  <2>2. /\ Named(<<file>> \o rest) = Named(<<file>>) \cup Named(rest)
        /\ Once(<<file>> \o rest) <=> Once(<<file>>) /\ Once(rest) /\ Named(<<file>>) \cap Named(rest) = {}
    BY <1>3, <2>1, ConcatNames
  <2>3. QED BY <1>3, <2>1, <2>2
<1> HIDE DEF with
<1>5. k \in 1..Len(es) + 1 /\ k \in k - 1..Len(es)
  BY <1>1
<1>6. Once(es) /\ Named(with) \cap Named(es) = {}
  BY <1>4
<1>7. es2 = Swapped(es, k, k, with)
  BY DEF Replace, Swapped
<1>8. Once(Swapped(es, k, k, with)) /\ Named(Swapped(es, k, k, with)) \subseteq Named(es) \cup Named(with)
  <2> HIDE DEF es
  <2>1. Named(with) \cap Named(es) \subseteq Named(SubSeq(es, k, k))
    BY <1>6
  <2>2. QED BY <1>1, <1>3, <1>4, <1>5, <1>6, <2>1, ReplacedNames
<1> HIDE DEF es, es2
<1>9. Once(es2) /\ Named(es2) \subseteq Named(es) \cup Named(with)
  BY <1>7, <1>8, Zenon
<1>10. Once(es2) /\ Named(es2) \subseteq Named(es) \cup {file.name}
  BY <1>4, <1>9
<1>11. QED BY <1>2, <1>10 DEF es

------------------------------------
(* A file removed.                                                          *)

(* A bounded set of numbers has a greatest one.                             *)
LEMMA LastOf ==
  ASSUME NEW n \in Nat, NEW S \in SUBSET (1..n), S # {}
  PROVE  \E m \in S : \A k \in S : k <= m
<1> DEFINE T == {n - k : k \in S}
<1>1. T \in SUBSET Nat /\ T # {}
  <2>1. \A k \in S : n - k \in Nat
    OBVIOUS
  <2>2. QED BY <2>1
<1>2. PICK m \in T : \A k \in T : m <= k
  <2> HIDE DEF T
  <2>1. QED BY <1>1, FirstOf
<1>3. PICK k \in S : m = n - k
  BY <1>2
<1>4. ASSUME NEW j \in S PROVE j <= k
  <2>1. n - j \in T
    OBVIOUS
  <2>2. n - k <= n - j
    BY <1>2, <1>3, <2>1
  <2>3. j \in Nat /\ k \in Nat
    OBVIOUS
  <2>4. QED BY <2>2, <2>3
<1>5. QED BY <1>4

(* The run of unused areas an entry is part of.                             *)
Run(es, k, a, b) ==
  /\ a \in 1..k /\ b \in k..Len(es) /\ \A x \in a..b : ~es[x].file
  /\ a = 1 \/ es[a - 1].file
  /\ b = Len(es) \/ es[b + 1].file

Joined(es, a, b) == SubSeq(es, 1, a - 1) \o <<Merged(SubSeq(es, a, b))>> \o SubSeq(es, b + 1, Len(es))

(* The free areas around an entry, joined, take their blocks together.      *)
LEMMA RunIs ==
  ASSUME NEW es \in Seq(Entry), NEW k \in 1..Len(es), ~es[k].file
  PROVE  /\ \E i \in 1..k : (\A x \in i..k : ~es[x].file) /\ (i = 1 \/ es[i - 1].file)
         /\ \E j \in k..Len(es) : (\A x \in k..j : ~es[x].file) /\ (j = Len(es) \/ es[j + 1].file)
<1> DEFINE n == Len(es)
<1>1. n \in Nat
  BY LenProperties
<1> HIDE DEF n
<1>2. k \in 1..n /\ k \in Nat
  BY <1>1 DEF n
<1> DEFINE A == {i \in 1..k : \A x \in i..k : ~es[x].file}
           B == {j \in 1..n : k <= j /\ \A x \in k..j : ~es[x].file}
<1>3. PICK i \in A : \A y \in A : i <= y
  <2>1. k \in A
    BY <1>2
  <2>2. 1..k \subseteq Nat
    BY <1>2
  <2>3. A \subseteq 1..k
    OBVIOUS
  <2> HIDE DEF A
  <2>4. A \in SUBSET Nat /\ A # {}
    BY <2>1, <2>2, <2>3
  <2>5. QED BY <2>4, FirstOf
<1>4. i = 1 \/ es[i - 1].file
  <2>1. SUFFICES ASSUME i # 1, ~es[i - 1].file PROVE FALSE
    OBVIOUS
  <2>2. i - 1 \in 1..k /\ \A x \in i - 1..k : x = i - 1 \/ x \in i..k
    BY <1>2, <1>3, <2>1
  <2>3. i - 1 \in A
    BY <1>3, <2>1, <2>2
  <2>4. QED BY <1>2, <1>3, <2>3
<1>5. PICK j \in B : \A y \in B : y <= j
  <2>1. k \in B
    BY <1>2
  <2>2. B \in SUBSET (1..n) /\ B # {}
    BY <2>1
  <2> HIDE DEF B
  <2>3. QED BY <1>1, <2>2, LastOf
<1>6. j = n \/ es[j + 1].file
  <2>1. SUFFICES ASSUME j # n, ~es[j + 1].file PROVE FALSE
    OBVIOUS
  <2>2. j + 1 \in 1..n /\ k <= j + 1 /\ \A x \in k..j + 1 : x = j + 1 \/ x \in k..j
    BY <1>1, <1>2, <1>5, <2>1
  <2>3. j + 1 \in B
    BY <1>5, <2>1, <2>2
  <2>4. j + 1 <= j
    BY <1>5, <2>3
  <2>5. QED BY <2>2, <2>4
<1>7. j \in k..n
  BY <1>1, <1>2, <1>5
<1>8. QED BY <1>3, <1>4, <1>5, <1>6, <1>7 DEF n

LEMMA JoinedIs ==
  ASSUME NEW es \in Seq(Entry), NEW a \in 1..Len(es), NEW b \in a..Len(es)
  PROVE  /\ Joined(es, a, b) \in Seq(Entry) /\ Lengths(Joined(es, a, b)) = Lengths(es)
         /\ Len(Joined(es, a, b)) <= Len(es)
<1>1. Len(es) \in Nat /\ a \in 1..Len(es) + 1 /\ b \in a - 1..Len(es)
  BY LenProperties
<1> DEFINE run == SubSeq(es, a, b)
<1>2. run \in Seq(Entry) /\ Len(run) = (b - a) + 1 /\ run # <<>>
  <2>1. run \in Seq(Entry) /\ Len(run) = (b - a) + 1
    BY <1>1, PartIs
  <2>2. (b - a) + 1 # 0 /\ Len(<<>>) = 0
    BY <1>1
  <2> HIDE DEF run
  <2>3. QED BY <2>1, <2>2
<1> HIDE DEF run
<1>3. Lengths(run) \in Nat /\ Head(run) \in Entry
  BY <1>2, LengthsNat, HeadTailProperties
<1>4. Merged(run) \in Entry /\ Merged(run).len = Lengths(run)
  BY <1>3 DEF Merged, Area, Entry
<1>5. <<Merged(run)>> \in Seq(Entry) /\ Lengths(<<Merged(run)>>) = Lengths(run) /\ Len(<<Merged(run)>>) = 1
  BY <1>4, LengthsOne
<1> DEFINE with == <<Merged(run)>>
<1> HIDE DEF with
<1>6. with \in Seq(Entry) /\ Lengths(with) = Lengths(SubSeq(es, a, b)) /\ Len(with) = 1
  BY <1>5 DEF with, run
<1> DEFINE new == SubSeq(es, 1, a - 1) \o with \o SubSeq(es, b + 1, Len(es))
<1>7. new \in Seq(Entry) /\ Lengths(new) = Lengths(es) /\ Len(new) = Len(es) - ((b - a) + 1) + Len(with)
  BY <1>1, <1>6, PartReplaced
<1>8. Joined(es, a, b) = new
  BY DEF Joined, with, run
<1> HIDE DEF new
<1>9. Len(new) <= Len(es)
  BY <1>1, <1>6, <1>7
<1>10. QED BY <1>7, <1>8, <1>9

Unfiled(es, k) == [es EXCEPT ![k] = Area(@.name, @.len)]

(* What removing a file makes of the first segment.                         *)
LEMMA RemovedIs ==
  ASSUME segs \in Dir, 1 \in 1..Total, NEW k \in 1..Len(segs[1].entries)
  PROVE  /\ Unfiled(segs[1].entries, k) \in Seq(Entry) /\ Len(Unfiled(segs[1].entries, k)) = Len(segs[1].entries)
         /\ \A j \in 1..Len(segs[1].entries) :
              Unfiled(segs[1].entries, k)[j] =
                IF j = k THEN Area(segs[1].entries[k].name, segs[1].entries[k].len) ELSE segs[1].entries[j]
         /\ Lengths(Unfiled(segs[1].entries, k)) = Lengths(segs[1].entries)
         /\ \E a, b \in 1..Len(segs[1].entries) :
              /\ Run(Unfiled(segs[1].entries, k), k, a, b)
              /\ Removed(k) = [segs EXCEPT ![1].entries = Joined(Unfiled(segs[1].entries, k), a, b)]
<1> DEFINE old == segs[1].entries
           e == Area(old[k].name, old[k].len)
           es == Unfiled(old, k)
<1>1. old \in Seq(Entry) /\ Len(old) \in Nat /\ old[k] \in Entry
  BY DirIs, ElementOfSeq
<1>2. e \in Entry /\ e.len = old[k].len /\ ~e.file
  BY <1>1 DEF Area, Entry
<1>3. es = [old EXCEPT ![k] = e]
  BY DEF Unfiled
<1> HIDE DEF e, old
<1>4. /\ es \in Seq(Entry) /\ Len(es) = Len(old)
      /\ \A j \in 1..Len(old) : es[j] = IF j = k THEN e ELSE old[j]
      /\ Lengths(es) = Lengths(old)
  <2> HIDE DEF es
  <2>1. k \in 1..Len(old)
    BY DEF old
  <2> DEFINE new == [old EXCEPT ![k] = e]
  <2>2. /\ new \in Seq(Entry) /\ Len(new) = Len(old)
        /\ \A j \in 1..Len(old) : new[j] = IF j = k THEN e ELSE old[j]
        /\ Lengths(new) = Lengths(old)
    BY <1>1, <1>2, <2>1, EntryChanged
  <2>3. es = new
    BY <1>3
  <2> HIDE DEF new
  <2>4. QED BY <2>2, <2>3
<1>5. ~es[k].file /\ k \in 1..Len(es)
  <2> HIDE DEF es
  <2>1. k \in 1..Len(old)
    BY DEF old
  <2>2. QED BY <1>2, <1>4, <2>1
<1>6. Removed(k) = LET free(i, j) == \A x \in i..j : ~es[x].file
                       first == CHOOSE i \in 1..k : free(i, k) /\ (i = 1 \/ es[i - 1].file)
                       last == CHOOSE j \in k..Len(es) : free(k, j) /\ (j = Len(es) \/ es[j + 1].file)
                   IN [segs EXCEPT ![1].entries = Joined(es, first, last)]
  BY DEF Removed, Joined, Unfiled, old
<1> HIDE DEF es
<1> DEFINE first == CHOOSE i \in 1..k : (\A x \in i..k : ~es[x].file) /\ (i = 1 \/ es[i - 1].file)
           last == CHOOSE j \in k..Len(es) : (\A x \in k..j : ~es[x].file) /\ (j = Len(es) \/ es[j + 1].file)
<1>7. first \in 1..k /\ (\A x \in first..k : ~es[x].file) /\ (first = 1 \/ es[first - 1].file)
  BY <1>4, <1>5, RunIs
<1>8. last \in k..Len(es) /\ (\A x \in k..last : ~es[x].file) /\ (last = Len(es) \/ es[last + 1].file)
  BY <1>4, <1>5, RunIs
<1>9. Removed(k) = [segs EXCEPT ![1].entries = Joined(es, first, last)]
  BY <1>6
<1> HIDE DEF first, last
<1>10. Len(es) \in Nat /\ k \in Nat
  BY <1>1, <1>4
<1>11. \A x \in first..last : ~es[x].file
  <2>1. ASSUME NEW x \in first..last PROVE x \in first..k \/ x \in k..last
    BY <1>7, <1>8, <1>10
  <2>2. QED BY <1>7, <1>8, <2>1
<1>12. first \in 1..Len(old) /\ last \in 1..Len(old)
  BY <1>1, <1>4, <1>5, <1>7, <1>8, <1>10
<1>13. Run(es, k, first, last)
  BY <1>7, <1>8, <1>11 DEF Run
<1>14. QED BY <1>2, <1>4, <1>9, <1>12, <1>13 DEF es, e, old

(* It keeps the links, the starts and the lengths, and adds no entry.       *)
LEMMA RemovedKeeps ==
  ASSUME segs \in Dir, 1 \in 1..Total, NEW k \in 1..Len(segs[1].entries)
  PROVE  /\ Removed(k) \in Dir
         /\ \A t \in 1..Total : /\ Removed(k)[t].next = segs[t].next /\ Removed(k)[t].start = segs[t].start
                                /\ Lengths(Removed(k)[t].entries) = Lengths(segs[t].entries)
                                /\ Len(Removed(k)[t].entries) <= Len(segs[t].entries)
                                /\ t # 1 => Removed(k)[t].entries = segs[t].entries
<1> DEFINE old == segs[1].entries
           es == Unfiled(old, k)
<1>1. es \in Seq(Entry) /\ Len(es) = Len(old) /\ Lengths(es) = Lengths(old)
  BY RemovedIs
<1>2. PICK a, b \in 1..Len(old) : Run(es, k, a, b) /\ Removed(k) = [segs EXCEPT ![1].entries = Joined(es, a, b)]
  BY RemovedIs
<1> HIDE DEF es
<1>3. Len(old) \in Nat /\ \A t \in 1..Total : Len(segs[t].entries) \in Nat
  BY DirIs
<1> HIDE DEF old
<1>4. a \in 1..Len(es) /\ b \in a..Len(es)
  <2>1. a \in 1..k /\ b \in k..Len(es) /\ k \in 1..Len(old)
    BY <1>2 DEF Run, old
  <2>2. QED BY <1>1, <1>3, <2>1
<1> DEFINE new == Joined(es, a, b)
<1>5. new \in Seq(Entry) /\ Lengths(new) = Lengths(old) /\ Len(new) <= Len(old)
  BY <1>1, <1>4, JoinedIs
<1> HIDE DEF new
<1>6. Removed(k) = WithEntries(segs, 1, new)
  BY <1>2 DEF new, WithEntries
<1>7. /\ Removed(k) \in Dir
      /\ \A t \in 1..Total : /\ Removed(k)[t].next = segs[t].next /\ Removed(k)[t].start = segs[t].start
                             /\ Removed(k)[t].entries = IF t = 1 THEN new ELSE segs[t].entries
  BY <1>5, <1>6, EntriesSet
<1>8. ASSUME NEW t \in 1..Total
      PROVE  /\ Lengths(Removed(k)[t].entries) = Lengths(segs[t].entries)
             /\ Len(Removed(k)[t].entries) <= Len(segs[t].entries)
             /\ t # 1 => Removed(k)[t].entries = segs[t].entries
  <2>1. CASE t = 1
    BY <1>5, <1>7, <2>1 DEF old
  <2>2. CASE t # 1
    BY <1>3, <1>7, <2>2
  <2>3. QED BY <2>1, <2>2
<1>9. QED BY <1>7, <1>8

(* A file removed takes its name with it and brings none.                   *)
LEMMA RemovedNames ==
  ASSUME segs \in Dir, 1 \in 1..Total, NEW k \in 1..Len(segs[1].entries), segs[1].entries[k].file,
         Once(segs[1].entries)
  PROVE  /\ Once(Removed(k)[1].entries)
         /\ Named(Removed(k)[1].entries) \subseteq Named(segs[1].entries) \ {segs[1].entries[k].name}
<1> DEFINE old == segs[1].entries
           e == Area(old[k].name, old[k].len)
           es == Unfiled(old, k)
<1>1. old \in Seq(Entry) /\ old[k] \in Entry /\ Once(old) /\ old[k].file
  BY DirIs, ElementOfSeq
<1>2. e \in Entry /\ ~e.file
  BY <1>1 DEF Area, Entry
<1>3. es = [old EXCEPT ![k] = e]
  BY DEF Unfiled
<1>4. PICK a, b \in 1..Len(old) : Run(es, k, a, b) /\ Removed(k) = [segs EXCEPT ![1].entries = Joined(es, a, b)]
  BY RemovedIs
<1>5. es \in Seq(Entry) /\ Len(es) = Len(old)
  BY RemovedIs
<1>6. k \in 1..Len(old) /\ Len(old) \in Nat
  BY <1>1, LenProperties
<1> HIDE DEF e, old, es
<1>7. Once(es) /\ Named(es) \subseteq Named(old) \ {old[k].name}
  <2>1. Once([old EXCEPT ![k] = e]) /\ Named([old EXCEPT ![k] = e]) \subseteq Named(old) \cup {}
        /\ old[k].name \notin Named([old EXCEPT ![k] = e])
    BY <1>1, <1>2, <1>6, EntryNames
  <2>2. QED BY <1>3, <2>1
<1> DEFINE run == SubSeq(es, a, b)
           new == Joined(es, a, b)
<1>8. a \in 1..Len(es) /\ b \in a..Len(es) /\ a \in 1..Len(es) + 1 /\ b \in a - 1..Len(es) /\ a <= b
  BY <1>4, <1>5, <1>6 DEF Run
<1>9. Merged(run) \in Entry /\ ~Merged(run).file
  <2>1. run \in Seq(Entry) /\ Len(run) = (b - a) + 1
    BY <1>5, <1>8, PartIs
  <2>2. run # <<>>
    BY <1>8, <2>1, EmptySeq
  <2> HIDE DEF run
  <2>3. Lengths(run) \in Nat /\ Head(run) \in Entry
    BY <2>1, <2>2, LengthsNat, HeadTailProperties
  <2>4. QED BY <2>3 DEF Merged, Area, Entry
<1> DEFINE with == <<Merged(run)>>
<1>10. with \in Seq(Entry) /\ Once(with) /\ Named(with) = {}
  <2> HIDE DEF run
  <2>1. QED BY <1>9, OneName, LengthsOne
<1>11. Once(new) /\ Named(new) \subseteq Named(es)
  <2>1. new = Swapped(es, a, b, with)
    BY DEF Joined, Swapped
  <2> HIDE DEF with, run, new
  <2>2. Named(with) \cap Named(es) \subseteq Named(SubSeq(es, a, b))
    BY <1>10
  <2>3. Once(Swapped(es, a, b, with)) /\ Named(Swapped(es, a, b, with)) \subseteq Named(es) \cup Named(with)
    BY <1>5, <1>7, <1>8, <1>10, <2>2, ReplacedNames
  <2>4. QED BY <1>10, <2>1, <2>3
<1> HIDE DEF new
<1>12. Removed(k)[1].entries = new
  <2>1. segs[1] \in Segment /\ segs \in [1..Total -> Segment]
    BY DirIs DEF Dir
  <2>2. Removed(k)[1] = [segs[1] EXCEPT !.entries = new]
    BY <1>4, <2>1 DEF new
  <2>3. QED BY <2>1, <2>2 DEF Segment
<1>13. QED BY <1>7, <1>11, <1>12 DEF old

------------------------------------
(* Putting a file.                                                          *)

(* The segments in use hold their entries and a marker of an entry's size.  *)
Fits(dir, n) == \A s \in 1..n : FitsAt(Len(dir[s].entries) + 1)

(* Nothing that holds a word is left over behind the whole entries.         *)
NoRemainder == (SegBytes - 10) % EntrySize < 2

(* When a marker fits behind a number of entries.                           *)
LEMMA FitsAtIs == ASSUME NEW m \in Nat PROVE FitsAt(m + 1) <=> 10 + (m + 1) * EntrySize <= SegBytes
<1>1. EntrySize \in Nat /\ SegBytes \in Nat
  BY LayoutAssumption
<1>2. (m + 1) - 1 = m /\ m * EntrySize \in Nat /\ (m + 1) * EntrySize = m * EntrySize + EntrySize
  BY <1>1
<1>3. QED BY <1>1, <1>2 DEF FitsAt, At

LEMMA FewerFit == ASSUME NEW m \in Nat, NEW n \in Nat, m <= n, FitsAt(n + 1) PROVE FitsAt(m + 1)
<1>1. EntrySize \in Nat /\ SegBytes \in Nat
  BY LayoutAssumption
<1>2. (n - m) * EntrySize \in Nat /\ (n + 1) * EntrySize = (m + 1) * EntrySize + (n - m) * EntrySize
      /\ (m + 1) * EntrySize \in Nat /\ (n + 1) * EntrySize \in Nat
  BY <1>1
<1>3. QED BY <1>1, <1>2, FitsAtIs

(* With no remainder a word behind m entries is an entry behind them.       *)
LEMMA WordIsEntry ==
  ASSUME NEW m \in Nat, NoRemainder, 10 + m * EntrySize + 2 <= SegBytes
  PROVE  FitsAt(m + 1)
<1>1. EntrySize \in Nat \ {0} /\ SegBytes \in Nat
  BY LayoutAssumption
<1> DEFINE room == SegBytes - 10
           q == room \div EntrySize
           r == room % EntrySize
<1>2. m * EntrySize \in Nat /\ room \in Nat
  BY <1>1
<1>3. q \in Nat /\ r \in Nat /\ room = q * EntrySize + r /\ r < 2
  <2> HIDE DEF room
  <2>1. q \in Nat /\ r \in Nat /\ room = EntrySize * q + r
    BY <1>1, <1>2
  <2>2. r < 2
    BY DEF NoRemainder, room
  <2> HIDE DEF q, r
  <2>3. EntrySize * q = q * EntrySize
    BY <1>1, <2>1
  <2>4. QED BY <2>1, <2>2, <2>3
<1>4. room >= m * EntrySize + 2
  BY <1>1, <1>2
<1> HIDE DEF q, r, room
<1>5. q * EntrySize > m * EntrySize
  <2>1. q * EntrySize \in Nat
    BY <1>1, <1>3
  <2>2. QED BY <1>2, <1>3, <1>4, <2>1
<1>6. q >= m + 1
  <2>1. SUFFICES ASSUME q <= m PROVE FALSE
    BY <1>3
  <2>2. (m - q) * EntrySize \in Nat /\ m * EntrySize = q * EntrySize + (m - q) * EntrySize /\ q * EntrySize \in Nat
    BY <1>1, <1>3, <2>1
  <2>3. QED BY <1>2, <1>5, <2>2
<1>7. q * EntrySize >= (m + 1) * EntrySize
  <2>1. /\ (q - (m + 1)) * EntrySize \in Nat /\ q * EntrySize = (m + 1) * EntrySize + (q - (m + 1)) * EntrySize
        /\ (m + 1) * EntrySize \in Nat
    BY <1>1, <1>3, <1>6
  <2>2. QED BY <2>1
<1>8. 10 + (m + 1) * EntrySize <= SegBytes
  <2>1. q * EntrySize \in Nat /\ (m + 1) * EntrySize \in Nat
    BY <1>1, <1>3
  <2>2. q * EntrySize + r = SegBytes - 10
    BY <1>3 DEF room
  <2>3. QED BY <1>1, <1>3, <1>7, <2>1, <2>2
<1>9. QED BY <1>8, FitsAtIs

(* What Needed says leaves room for a marker.                               *)
LEMMA NeededIs ==
  ASSUME NEW es \in Seq(Entry), NEW k \in 1..Len(es), NEW n \in Nat, Needed(es, k, n) <= SegBytes,
         FitsAt(Len(es) + 1), NoRemainder
  PROVE  FitsAt((Len(es) + IF n < es[k].len THEN 1 ELSE 0) + 1)
<1> DEFINE m == Len(es)
<1>1. m \in Nat /\ k \in 1..m /\ EntrySize \in Nat /\ SegBytes \in Nat
  BY LenProperties, LayoutAssumption
<1>2. /\ At(k) = 10 + (k - 1) * EntrySize /\ (k - 1) * EntrySize \in Nat /\ (m + 1) * EntrySize \in Nat
      /\ (m + 2) * EntrySize = (k - 1) * EntrySize + (m - k) * EntrySize + 3 * EntrySize
      /\ (m + 1) * EntrySize = (k - 1) * EntrySize + (m - k) * EntrySize + 2 * EntrySize
      /\ (m - k) * EntrySize \in Nat
  <2> HIDE DEF m
  <2>1. k - 1 \in Nat /\ m - k \in Nat
    BY <1>1
  <2>2. (m + 2) * EntrySize = (k - 1) * EntrySize + (m - k) * EntrySize + 3 * EntrySize
    BY <1>1
  <2>3. (m + 1) * EntrySize = (k - 1) * EntrySize + (m - k) * EntrySize + 2 * EntrySize
    BY <1>1
  <2>4. (k - 1) * EntrySize \in Nat /\ (m + 1) * EntrySize \in Nat /\ (m - k) * EntrySize \in Nat
    BY <1>1, <2>1
  <2>5. QED BY <2>2, <2>3, <2>4 DEF At
<1>3. CASE ~(n < es[k].len)
  BY <1>1, <1>3
<1>4. CASE n < es[k].len /\ k = m
  <2>1. Needed(es, k, n) = At(k) + EntrySize * 2 + EntrySize
    BY <1>4 DEF Needed
  <2> HIDE DEF m
  <2>2. (m - k) * EntrySize = 0
    BY <1>1, <1>4
  <2>3. 10 + (m + 2) * EntrySize <= SegBytes
    BY <1>1, <1>2, <2>1, <2>2
  <2>4. FitsAt((m + 1) + 1)
    <3>1. (m + 1) + 1 = m + 2 /\ m + 1 \in Nat
      BY <1>1
    <3>2. QED BY <2>3, <3>1, FitsAtIs
  <2>5. QED BY <1>4, <2>4 DEF m
<1>5. CASE n < es[k].len /\ k # m
  <2>1. Needed(es, k, n) = At(k) + EntrySize * 2 + ((m - k) * EntrySize + 2)
    BY <1>5 DEF Needed
  <2> HIDE DEF m
  <2>2. 10 + (m + 1) * EntrySize + 2 <= SegBytes
    BY <1>1, <1>2, <2>1
  <2>3. FitsAt((m + 1) + 1)
    <3>1. m + 1 \in Nat
      BY <1>1
    <3>2. QED BY <2>2, <3>1, WordIsEntry
  <2>4. QED BY <1>5, <2>3 DEF m
<1>6. QED BY <1>3, <1>4, <1>5

(* A split leaves entries on both sides.                                    *)
LEMMA HalfIs ==
  ASSUME NEW es, Len(es) \in Nat, Len(es) >= 2
  PROVE  Half(es) \in 1..Len(es) - 1 /\ Half(es) \in 0..Len(es)
BY DEF Half

(* A file placed, in a slot of the chain or after a split that makes room.  *)
Placed(dir, s, k, file, data) ==
  /\ s \in 1..Total /\ k \in 1..Len(dir[s].entries)
  /\ ~dir[s].entries[k].file /\ dir[s].entries[k].len >= Len(data)
  /\ Fill(dir, s, k, file, data)
Splits(dir, new, s) ==
  /\ highest < Total /\ highest + 1 \in 1..Total /\ s \in 1..highest /\ s \in 1..Total
  /\ Len(dir[s].entries) >= 2 /\ new = Split(dir, s) /\ new \in Dir
  /\ \A t \in 1..Total : t # s /\ t # highest + 1 => new[t] = dir[t]
  /\ Halved(dir, new, highest, s)
  /\ \A t \in {s, highest + 1} : Len(new[t].entries) \in 1..Len(dir[s].entries) - 1

LEMMA PutNewHow ==
  ASSUME segs \in Dir, highest \in 1..Total, blocks \in Seq(Block), NEW c, Link(segs, c, highest),
         NEW dir \in Dir, Link(dir, c, highest), Tile(dir, c, highest, Size),
         NEW data \in Seq(Block), NEW file, PutNew(dir, file, data)
  PROVE  \/ /\ highest' = highest
            /\ \E s \in 1..highest, k \in Nat :
                 Placed(dir, s, k, file, data) /\ Needed(dir[s].entries, k, Len(data)) <= SegBytes
         \/ /\ highest' = highest + 1
            /\ \E s, new : /\ Splits(dir, new, s)
                           /\ \E d : Link(new, d, highest + 1) /\ Tile(new, d, highest + 1, Size)
                           /\ \E u \in 1..highest + 1, j \in Nat :
                                Placed(new, u, j, file, data) /\ Len(new[u].entries) \in 1..Len(dir[s].entries) - 1
<1> DEFINE slots == Slots(dir, c, Len(data))
           slot == First(slots)
           p == slot[1]
           s == c[p]
           k == slot[2]
           half == Half(dir[s].entries)
<1>1. Chain = c
  BY ChainIs
<1>2. /\ slots # {}
      /\ IF Needed(dir[s].entries, k, Len(data)) <= SegBytes
         THEN Fill(dir, s, k, file, data) /\ UNCHANGED highest
         ELSE /\ CanSplit(dir, s)
              /\ highest' = highest + 1
              /\ IF k <= half THEN Fill(Split(dir, s), s, k, file, data)
                              ELSE Fill(Split(dir, s), highest + 1, k - half, file, data)
  BY <1>1 DEF PutNew
<1>3. /\ DOMAIN c = 1..highest /\ (\A i \in 1..highest : c[i] \in 1..highest)
      /\ Total \in Nat /\ highest \in Nat /\ 1 <= highest /\ highest <= Total /\ 1..highest \subseteq 1..Total
  <2>1. c \in [1..highest -> 1..highest]
    BY DEF Link
  <2>2. QED BY <2>1, LayoutAssumption
<1>4. Len(data) \in Nat /\ Len(blocks) \in Nat /\ DataStart \in Nat
  BY <1>3, LenProperties DEF DataStart
<1>5. Size \in Nat
  BY <1>4 DEF Size
<1>6. slots \in SUBSET (Nat \X Nat)
  <2>1. ASSUME NEW x \in slots PROVE x \in Nat \X Nat
    <3>1. /\ x = <<x[1], x[2]>> /\ x[1] \in 1..highest /\ x[2] \in DOMAIN dir[c[x[1]]].entries
      BY <1>3, SlotsAre
    <3>2. DOMAIN dir[c[x[1]]].entries = 1..Len(dir[c[x[1]]].entries)
      BY <1>3, <3>1, DirIs
    <3>3. QED BY <3>1, <3>2
  <2>2. QED BY <2>1
<1>7. slot \in slots
  <2> HIDE DEF slots
  <2>1. QED BY <1>2, <1>6, FirstIs
<1>8. /\ p \in 1..highest /\ s \in 1..highest /\ s \in 1..Total /\ s # highest + 1
      /\ k \in DOMAIN dir[s].entries /\ dir[s].entries[k].len >= Len(data) /\ ~dir[s].entries[k].file
  BY <1>3, <1>7, SlotsAre
<1> HIDE DEF slots, slot, p, s, k
<1>9. /\ dir[s].entries \in Seq(Entry) /\ Len(dir[s].entries) \in Nat /\ k \in 1..Len(dir[s].entries)
  BY <1>8, DirIs
<1>10. CASE Needed(dir[s].entries, k, Len(data)) <= SegBytes
  <2>1. Placed(dir, s, k, file, data) /\ highest' = highest /\ k \in Nat
    BY <1>2, <1>8, <1>9, <1>10 DEF Placed
  <2>2. QED BY <1>8, <1>10, <2>1
<1>11. CASE ~(Needed(dir[s].entries, k, Len(data)) <= SegBytes)
  <2> DEFINE new == Split(dir, s)
             es == dir[s].entries
             m == Len(es)
  <2>1. CanSplit(dir, s) /\ highest' = highest + 1
    BY <1>2, <1>11
  <2>2. highest < Total /\ m >= 2 /\ highest + 1 \in 1..Total
    BY <1>3, <2>1 DEF CanSplit
  <2>3. half \in 1..m - 1 /\ half \in 0..m
    BY <1>9, <2>2, HalfIs
  <2>4. /\ new \in Dir
        /\ \A t \in 1..Total : t # s /\ t # highest + 1 => new[t] = dir[t]
        /\ new[s].entries = SubSeq(es, 1, half)
        /\ new[highest + 1].entries = SubSeq(es, half + 1, m)
    <3>1. half = Half(dir[s].entries) /\ half \in 0..Len(dir[s].entries)
      BY <2>3
    <3> HIDE DEF half
    <3>2. QED BY <1>8, <2>2, <3>1, SplitIs
  <2>5. PICK d : Link(new, d, highest + 1) /\ Tile(new, d, highest + 1, Size)
    <3>1. half = Half(dir[c[p]].entries) /\ half \in 0..Len(dir[c[p]].entries)
      BY <2>3 DEF s
    <3> HIDE DEF half, new
    <3>2. \E d : Link(Split(dir, c[p]), d, highest + 1) /\ Tile(Split(dir, c[p]), d, highest + 1, Size)
      BY <1>5, <1>8, <2>2, <3>1, SplitTiles, SMTT(30)
    <3>3. QED BY <3>2 DEF new, s
  <2>6. /\ Len(new[s].entries) = half /\ \A i \in 1..half : new[s].entries[i] = es[i]
        /\ Len(new[highest + 1].entries) = m - half
        /\ \A i \in 1..m - half : new[highest + 1].entries[i] = es[half + i]
    <3> HIDE DEF half, new, es
    <3>1. es \in Seq(Entry) /\ m \in Nat
      BY <1>9 DEF es
    <3>2. QED BY <2>3, <2>4, <3>1, HalvesAre
  <2>7. \E u \in 1..highest + 1, j \in Nat :
          /\ u \in 1..Total /\ j \in 1..Len(new[u].entries) /\ ~new[u].entries[j].file
          /\ new[u].entries[j].len >= Len(data) /\ Fill(new, u, j, file, data) /\ Len(new[u].entries) \in 1..m - 1
    <3>1. CASE k <= half
      <4>1. Fill(new, s, k, file, data)
        BY <1>2, <1>11, <3>1
      <4> HIDE DEF half, new, es, m
      <4>2. k \in 1..half /\ es[k].len >= Len(data) /\ ~es[k].file /\ m \in Nat
        BY <1>8, <1>9, <3>1 DEF es, m
      <4>3. k \in 1..Len(new[s].entries) /\ new[s].entries[k].len >= Len(data) /\ ~new[s].entries[k].file
            /\ Len(new[s].entries) \in 1..m - 1
        BY <2>3, <2>6, <4>2
      <4>4. s \in 1..highest + 1 /\ k \in Nat
        BY <1>3, <1>8, <4>2
      <4>5. QED BY <1>8, <4>1, <4>3, <4>4
    <3>2. CASE ~(k <= half)
      <4>1. Fill(new, highest + 1, k - half, file, data)
        BY <1>2, <1>11, <3>2
      <4> HIDE DEF half, new, es
      <4>2. m \in Nat /\ k \in 1..m /\ es[k].len >= Len(data) /\ ~es[k].file
        BY <1>8, <1>9 DEF es
      <4> HIDE DEF m
      <4>3. k - half \in 1..m - half /\ half + (k - half) = k /\ m - half \in 1..m - 1 /\ k - half \in Nat
        BY <2>3, <3>2, <4>2
      <4>4. new[highest + 1].entries[k - half] = es[half + (k - half)]
        BY <2>6, <4>3
      <4>5. highest + 1 \in 1..highest + 1
        BY <1>3
      <4>6. QED BY <2>2, <2>6, <4>1, <4>2, <4>3, <4>4, <4>5
    <3>3. QED BY <3>1, <3>2
  <2>8. Halved(dir, new, highest, s)
    <3> HIDE DEF half, es, m, new
    <3>1. new[s].entries \in Seq(Entry) /\ new[highest + 1].entries \in Seq(Entry)
      BY <1>8, <2>2, <2>4, DirIs
    <3>2. es \in Seq(Entry) /\ m \in Nat /\ m = Len(es)
      BY <1>9 DEF es, m
    <3>3. SubSeq(es, 1, half) \o SubSeq(es, half + 1, m) = es
      BY <2>3, <3>2, HalvesAre
    <3>4. dir[s].entries = new[s].entries \o new[highest + 1].entries
      BY <2>4, <3>3 DEF es
    <3>5. \A t \in 1..highest : t # s => new[t].entries = dir[t].entries
      <4>1. \A t \in 1..highest : t \in 1..Total /\ t # highest + 1
        BY <1>3
      <4>2. QED BY <2>4, <4>1
    <3>6. QED BY <3>1, <3>4, <3>5 DEF Halved
  <2>9. \A t \in {s, highest + 1} : Len(new[t].entries) \in 1..m - 1
    <3>1. half \in 1..m - 1 /\ m - half \in 1..m - 1
      <4> HIDE DEF half, es, m, new
      <4>1. m \in Nat
        BY <1>9 DEF m, es
      <4>2. QED BY <2>3, <4>1
    <3> HIDE DEF half, es, m, new
    <3>2. QED BY <2>6, <3>1
  <2>10. Splits(dir, new, s)
    <3> HIDE DEF half, new
    <3>1. new = Split(dir, s)
      BY DEF new
    <3>2. QED BY <1>8, <2>2, <2>4, <2>8, <2>9, <3>1 DEF Splits
  <2> HIDE DEF half, es, new
  <2>11. \E u \in 1..highest + 1, j \in Nat :
           Placed(new, u, j, file, data) /\ Len(new[u].entries) \in 1..Len(dir[s].entries) - 1
    BY <2>7 DEF Placed, m, es
  <2>12. QED BY <2>1, <2>5, <2>10, <2>11
<1>12. QED BY <1>10, <1>11

(* What of the invariant, and of names, a file placed leaves.               *)
Held(dir, file) ==
  /\ segs' \in Dir /\ highest' \in 1..Total /\ blocks' \in Seq(Block) /\ Size' = Size
  /\ \E d : Link(segs', d, highest') /\ Tile(segs', d, highest', Size)
  /\ NoRemainder /\ Fits(dir, highest) => Fits(segs', highest')
  /\ file.file /\ Unique(dir, highest) /\ (\A t \in 1..highest : file.name \notin Named(dir[t].entries)) =>
       Unique(segs', highest')

LEMMA PutNewIs ==
  ASSUME segs \in Dir, highest \in 1..Total, blocks \in Seq(Block), NEW c, Link(segs, c, highest),
         NEW dir \in Dir, Link(dir, c, highest), Tile(dir, c, highest, Size),
         NEW data \in Seq(Block), NEW file \in Entry, file.len = Len(data), PutNew(dir, file, data)
  PROVE  Held(dir, file)
<1>1. /\ Total \in Nat /\ highest \in Nat /\ 1 <= highest /\ highest <= Total /\ 1..highest \subseteq 1..Total
  BY LayoutAssumption DEF Link
<1>2. Len(data) \in Nat /\ Size \in Nat
  BY <1>1, LenProperties DEF DataStart, Size
<1>3. ASSUME highest' = highest, NEW s \in 1..highest, NEW k \in Nat, Placed(dir, s, k, file, data),
             Needed(dir[s].entries, k, Len(data)) <= SegBytes
      PROVE  Held(dir, file)
  <2>1. /\ s \in 1..Total /\ k \in 1..Len(dir[s].entries) /\ dir[s].entries[k].len >= Len(data)
        /\ Fill(dir, s, k, file, data) /\ dir[s].entries \in Seq(Entry)
    BY <1>3, DirIs DEF Placed
  <2>2. /\ segs' \in Dir /\ blocks' \in Seq(Block) /\ Len(blocks') = Len(blocks)
        /\ \A t \in 1..Total : /\ segs'[t].next = dir[t].next /\ segs'[t].start = dir[t].start
                               /\ Lengths(segs'[t].entries) = Lengths(dir[t].entries)
                               /\ t # s => segs'[t].entries = dir[t].entries
        /\ Len(segs'[s].entries) = Len(dir[s].entries) + IF Len(data) < dir[s].entries[k].len THEN 1 ELSE 0
    BY <2>1, FillIs
  <2>3. Link(segs', c, highest) /\ Tile(segs', c, highest, Size)
    <3>1. \A t \in 1..highest : /\ segs'[t].next = dir[t].next /\ segs'[t].start = dir[t].start
                                /\ Lengths(segs'[t].entries) = Lengths(dir[t].entries)
      BY <1>1, <2>2
    <3>2. highest \in Nat /\ highest # 0
      BY <1>1
    <3>3. QED BY <1>2, <3>1, <3>2, TileKept
  <2>4. ASSUME NoRemainder, Fits(dir, highest) PROVE Fits(segs', highest)
    <3>1. ASSUME NEW t \in 1..highest PROVE FitsAt(Len(segs'[t].entries) + 1)
      <4>1. CASE t = s
        <5>1. FitsAt((Len(dir[s].entries) + IF Len(data) < dir[s].entries[k].len THEN 1 ELSE 0) + 1)
          BY <1>2, <1>3, <2>1, <2>4, NeededIs DEF Fits
        <5>2. QED BY <2>2, <4>1, <5>1
      <4>2. CASE t # s
        BY <1>1, <2>2, <2>4, <4>2 DEF Fits
      <4>3. QED BY <4>1, <4>2
    <3>2. QED BY <3>1 DEF Fits
  <2>5. Size' = Size
    BY <2>2 DEF Size, DataStart
  <2>6. ASSUME file.file, Unique(dir, highest), \A t \in 1..highest : file.name \notin Named(dir[t].entries)
        PROVE  Unique(segs', highest)
    <3>1. Once(dir[s].entries) /\ file.name \notin Named(dir[s].entries)
      BY <1>3, <2>6 DEF Unique
    <3> DEFINE X == {file.name}
    <3>2. Once(segs'[s].entries) /\ Named(segs'[s].entries) \subseteq Named(dir[s].entries) \cup X
      BY <2>1, <2>6, <3>1, FillNames
    <3>3. \A t \in 1..highest : t # s => X \cap Named(dir[t].entries) = {}
      BY <2>6
    <3>4. \A t \in 1..highest : t # s => segs'[t].entries = dir[t].entries
      BY <1>1, <2>2
    <3> HIDE DEF X
    <3>5. Brings(dir, segs', highest, s, X)
      BY <3>2, <3>3, <3>4 DEF Brings
    <3>6. QED BY <1>3, <2>6, <3>5, UniqueChanged
  <2>7. QED BY <1>3, <2>2, <2>3, <2>4, <2>5, <2>6 DEF Held
<1>4. ASSUME highest' = highest + 1, NEW s, NEW new, Splits(dir, new, s),
             NEW d, Link(new, d, highest + 1), Tile(new, d, highest + 1, Size),
             NEW u \in 1..highest + 1, NEW j \in Nat, Placed(new, u, j, file, data),
             Len(new[u].entries) \in 1..Len(dir[s].entries) - 1
      PROVE  Held(dir, file)
  <2> DEFINE m == Len(dir[s].entries)
  <2>1. /\ highest + 1 \in 1..Total /\ s \in 1..highest /\ m \in Nat /\ new \in Dir /\ Halved(dir, new, highest, s)
        /\ \A t \in 1..Total : t # s /\ t # highest + 1 => new[t] = dir[t]
        /\ \A t \in {s, highest + 1} : Len(new[t].entries) \in 1..m - 1
    BY <1>4, DirIs DEF Splits
  <2>2. u \in 1..Total /\ j \in 1..Len(new[u].entries) /\ new[u].entries[j].len >= Len(data)
        /\ Fill(new, u, j, file, data) /\ Len(new[u].entries) \in 1..m - 1
    BY <1>4 DEF Placed
  <2>3. /\ segs' \in Dir /\ blocks' \in Seq(Block) /\ Len(blocks') = Len(blocks)
        /\ \A t \in 1..Total : /\ segs'[t].next = new[t].next /\ segs'[t].start = new[t].start
                               /\ Lengths(segs'[t].entries) = Lengths(new[t].entries)
                               /\ t # u => segs'[t].entries = new[t].entries
        /\ Len(segs'[u].entries) = Len(new[u].entries) + IF Len(data) < new[u].entries[j].len THEN 1 ELSE 0
    BY <2>1, <2>2, FillIs
  <2>4. Link(segs', d, highest + 1) /\ Tile(segs', d, highest + 1, Size)
    <3>1. \A t \in 1..highest + 1 : /\ segs'[t].next = new[t].next /\ segs'[t].start = new[t].start
                                    /\ Lengths(segs'[t].entries) = Lengths(new[t].entries)
      <4>1. 1..highest + 1 \subseteq 1..Total
        BY <1>1, <2>1
      <4>2. QED BY <2>3, <4>1
    <3>2. highest + 1 \in Nat /\ highest + 1 # 0
      BY <1>1
    <3>3. QED BY <1>2, <1>4, <3>1, <3>2, TileKept
  <2>5. ASSUME NoRemainder, Fits(dir, highest) PROVE Fits(segs', highest + 1)
    <3>1. FitsAt(m + 1) /\ m \in Nat
      BY <2>1, <2>5 DEF Fits
    <3> HIDE DEF m
    <3>2. ASSUME NEW t \in 1..highest + 1 PROVE FitsAt(Len(segs'[t].entries) + 1)
      <4>1. t \in 1..Total
        BY <1>1, <2>1
      <4>2. CASE t = u
        <5> DEFINE old == Len(new[u].entries)
                   l == Len(segs'[t].entries)
        <5>1. old \in 1..m - 1 /\ l = old + IF Len(data) < new[u].entries[j].len THEN 1 ELSE 0
          BY <2>2, <2>3, <4>2
        <5> HIDE DEF old, l
        <5>2. l \in Nat /\ l <= m
          BY <3>1, <5>1
        <5>3. QED BY <3>1, <5>2, FewerFit DEF l
      <4>3. CASE t # u /\ t # s /\ t # highest + 1
        <5>1. t \in 1..highest
          BY <1>1, <4>3
        <5>2. segs'[t].entries = new[t].entries /\ new[t] = dir[t]
          BY <2>1, <2>3, <4>1, <4>3
        <5>3. QED BY <2>5, <5>1, <5>2 DEF Fits
      <4>4. CASE t # u /\ (t = s \/ t = highest + 1)
        <5>1. Len(segs'[t].entries) \in 1..m - 1
          BY <2>1, <2>3, <4>1, <4>4
        <5>2. Len(segs'[t].entries) \in Nat /\ Len(segs'[t].entries) <= m
          BY <3>1, <5>1
        <5>3. QED BY <3>1, <5>2, FewerFit
      <4>5. QED BY <4>2, <4>3, <4>4
    <3>3. QED BY <3>2 DEF Fits
  <2>6. Size' = Size
    BY <2>3 DEF Size, DataStart
  <2>7. ASSUME file.file, Unique(dir, highest), \A t \in 1..highest : file.name \notin Named(dir[t].entries)
        PROVE  Unique(segs', highest + 1)
    <3> HIDE DEF m
    <3>1. /\ Unique(new, highest + 1)
          /\ \A x : (\A t \in 1..highest : x \notin Named(dir[t].entries)) =>
                     \A t \in 1..highest + 1 : x \notin Named(new[t].entries)
      BY <1>1, <2>1, <2>7, SplitNames
    <3>2. \A t \in 1..highest + 1 : file.name \notin Named(new[t].entries)
      BY <2>7, <3>1
    <3>3. Once(new[u].entries) /\ file.name \notin Named(new[u].entries)
      BY <1>4, <3>1, <3>2 DEF Unique
    <3> DEFINE X == {file.name}
    <3>4. Once(segs'[u].entries) /\ Named(segs'[u].entries) \subseteq Named(new[u].entries) \cup X
      BY <2>1, <2>2, <2>7, <3>3, FillNames
    <3>5. \A t \in 1..highest + 1 : t # u => X \cap Named(new[t].entries) = {}
      BY <3>2
    <3>6. \A t \in 1..highest + 1 : t # u => segs'[t].entries = new[t].entries
      <4>1. \A t \in 1..highest + 1 : t \in 1..Total
        BY <1>1, <2>1
      <4>2. QED BY <2>3, <4>1
    <3> HIDE DEF X
    <3>7. Brings(new, segs', highest + 1, u, X)
      BY <3>4, <3>5, <3>6 DEF Brings
    <3>8. QED BY <1>4, <3>1, <3>7, UniqueChanged
  <2>8. QED BY <1>4, <2>1, <2>3, <2>4, <2>5, <2>6, <2>7 DEF Held
<1>5. QED BY <1>3, <1>4, PutNewHow

------------------------------------
(* Squeezing.                                                               *)

Picked(e) == IF e.file THEN <<e>> ELSE <<>>

(* Sequences put end to end: the recursion both of squeeze's folds follow.  *)
LEMMA ConcatUnfolds ==
  ASSUME NEW N \in Nat, NEW P
  PROVE  \E w : w = [k \in 0..N |-> IF k = 0 THEN <<>> ELSE w[k - 1] \o P[k]]
<1> DEFINE Unfolds(n, g) == g = [k \in 0..n |-> IF k = 0 THEN <<>> ELSE g[k - 1] \o P[k]]
           Some == {n \in Nat : \E g : Unfolds(n, g)}
<1>1. 0 \in Some
  <2>1. Unfolds(0, [k \in 0..0 |-> <<>>])
    OBVIOUS
  <2>2. QED BY <2>1
<1>2. ASSUME NEW n \in Nat, n \in Some PROVE n + 1 \in Some
  <2>1. PICK g : Unfolds(n, g)
    BY <1>2
  <2> DEFINE h == [k \in 0..n + 1 |-> IF k <= n THEN g[k] ELSE g[n] \o P[n + 1]]
  <2>2. \A k \in 0..n + 1 : h[k] = IF k = 0 THEN <<>> ELSE h[k - 1] \o P[k]
    <3>1. TAKE k \in 0..n + 1
    <3>2. CASE k = 0
      BY <2>1, <3>2
    <3>3. CASE k # 0 /\ k <= n
      <4>1. h[k] = g[k] /\ h[k - 1] = g[k - 1]
        BY <3>3
      <4>2. k \in 0..n
        BY <3>3
      <4>3. g[k] = g[k - 1] \o P[k]
        BY <2>1, <3>3, <4>2
      <4> HIDE DEF h
      <4>4. QED BY <3>3, <4>1, <4>3
    <3>4. CASE k = n + 1
      BY <3>4
    <3>5. QED BY <3>2, <3>3, <3>4
  <2>3. Unfolds(n + 1, h)
    <3> HIDE DEF h
    <3>1. h = [k \in 0..n + 1 |-> h[k]]
      BY DEF h
    <3>2. QED BY <2>2, <3>1, SMTT(30)
  <2>4. QED
    <3> HIDE DEF h, Unfolds
    <3>1. QED BY <2>3
<1>3. Nat \subseteq Some
  <2> HIDE DEF Some
  <2>1. QED BY <1>1, <1>2, Induction
<1>4. \E w : Unfolds(N, w)
  <2> HIDE DEF Unfolds
  <2>1. QED BY <1>3
<1>5. QED BY <1>4

(* The files squeeze keeps are among the entries, in their order.           *)
LEMMA FilesInUnfolds ==
  ASSUME NEW es \in Seq(Entry)
  PROVE  \E w : /\ w = [k \in 0..Len(es) |-> IF k = 0 THEN <<>> ELSE w[k - 1] \o Picked(es[k])]
                /\ FilesIn(es) = w[Len(es)]
<1> DEFINE N == Len(es)
           P == [k \in Nat |-> Picked(es[k])]
           v == CHOOSE w : w = [k \in 0..N |-> IF k = 0 THEN <<>> ELSE w[k - 1] \o Picked(es[k])]
<1>1. N \in Nat
  BY LenProperties
<1>2. \E w : w = [k \in 0..N |-> IF k = 0 THEN <<>> ELSE w[k - 1] \o Picked(es[k])]
  <2> HIDE DEF N, P
  <2>1. PICK w : w = [k \in 0..N |-> IF k = 0 THEN <<>> ELSE w[k - 1] \o P[k]]
    BY <1>1, ConcatUnfolds
  <2>2. \A k \in 0..N : P[k] = Picked(es[k])
    BY <1>1 DEF P
  <2>3. QED BY <2>1, <2>2
<1>3. v = [k \in 0..N |-> IF k = 0 THEN <<>> ELSE v[k - 1] \o Picked(es[k])]
  <2> HIDE DEF N
  <2>1. QED BY <1>2, Zenon
<1>4. FilesIn(es) = v[N]
  BY DEF FilesIn, Picked
<1>5. QED
  <2> HIDE DEF v
  <2>1. QED BY <1>3, <1>4

LEMMA FilesInIs ==
  ASSUME NEW es \in Seq(Entry)
  PROVE  /\ FilesIn(es) \in Seq(Entry) /\ Lengths(FilesIn(es)) <= Lengths(es) /\ Len(FilesIn(es)) <= Len(es)
         /\ Named(FilesIn(es)) \subseteq Named(es) /\ (Once(es) => Once(FilesIn(es)))
         /\ \A i \in 1..Len(FilesIn(es)) : FilesIn(es)[i].file
         /\ Len(FilesIn(es)) = Len(es) => FilesIn(es) = es
<1> DEFINE n == Len(es)
           part(k) == SubSeq(es, 1, k)
<1>1. n \in Nat
  BY LenProperties
<1>2. PICK w : w = [k \in 0..n |-> IF k = 0 THEN <<>> ELSE w[k - 1] \o Picked(es[k])] /\ FilesIn(es) = w[n]
  BY FilesInUnfolds
<1> HIDE DEF n
<1> DEFINE Good(k) == /\ w[k] \in Seq(Entry) /\ Lengths(w[k]) <= Lengths(part(k)) /\ Len(w[k]) <= k
                      /\ Named(w[k]) \subseteq Named(part(k)) /\ (Once(part(k)) => Once(w[k]))
                      /\ \A i \in 1..Len(w[k]) : w[k][i].file
                      /\ Len(w[k]) = k => w[k] = part(k)
           T == {k \in Nat : k <= n => Good(k)}
<1>3. 0 \in T
  <2>1. w[0] = <<>>
    BY <1>1, <1>2
  <2>2. part(0) = <<>>
    BY SubSeqEmpty
  <2>3. <<>> \in Seq(Entry) /\ Lengths(<<>>) = 0 /\ Len(<<>>) = 0
    BY LengthsEmpty
  <2>4. w[0] \in Seq(Entry) /\ Lengths(w[0]) = 0 /\ Len(w[0]) = 0 /\ Lengths(part(0)) = 0 /\ w[0] = part(0)
    <3> HIDE DEF part
    <3>1. QED BY <2>1, <2>2, <2>3
  <2>5. Named(w[0]) = {} /\ Once(w[0])
    BY <2>1, NoNames
  <2> HIDE DEF part
  <2>6. QED BY <2>4, <2>5
<1>4. ASSUME NEW k \in Nat, k \in T PROVE k + 1 \in T
  <2>1. SUFFICES ASSUME k + 1 <= n PROVE Good(k + 1)
    OBVIOUS
  <2>2. Good(k)
    BY <1>1, <1>4, <2>1
  <2> DEFINE e == es[k + 1]
  <2>3. k + 1 \in 1..n /\ (k + 1) - 1 = k /\ e \in Entry
    <3>1. k + 1 \in 1..n /\ (k + 1) - 1 = k
      BY <1>1, <2>1
    <3>2. QED BY <3>1, ElementOfSeq DEF n
  <2>4. w[k + 1] = w[k] \o Picked(e)
    <3>1. w[k + 1] = w[(k + 1) - 1] \o Picked(es[k + 1])
      BY <1>1, <1>2, <2>3
    <3>2. QED BY <2>3, <3>1
  <2>5. part(k) \in Seq(Entry) /\ part(k + 1) \in Seq(Entry) /\ part(k + 1) = part(k) \o <<e>>
    <3>1. 1 \in 1..n + 1 /\ k \in 1 - 1..n /\ k + 1 \in 1 - 1..n
      BY <1>1, <2>1
    <3>2. part(k) \in Seq(Entry) /\ part(k + 1) \in Seq(Entry)
      BY <3>1, PartIs DEF n
    <3>3. SubSeq(es, 1, k + 1) = SubSeq(es, 1, (k + 1) - 1) \o <<es[k + 1]>>
      <4>1. 1 \in 1..n /\ k + 1 \in 1..n
        BY <1>1, <2>1
      <4>2. QED BY <4>1, SubSeqRecursiveSecond DEF n
    <3>4. QED BY <2>3, <3>2, <3>3
  <2>6. /\ <<e>> \in Seq(Entry) /\ Lengths(<<e>>) = e.len /\ Len(<<e>>) = 1 /\ e.len \in Nat
        /\ <<>> \in Seq(Entry) /\ Lengths(<<>>) = 0 /\ Len(<<>>) = 0
    BY <2>3, LengthsOne, LengthsEmpty DEF Entry
  <2>7. Picked(e) \in Seq(Entry) /\ Lengths(Picked(e)) <= e.len /\ Lengths(Picked(e)) \in Nat
        /\ Len(Picked(e)) \in {0, 1} /\ (Len(Picked(e)) = 1 => e.file /\ Picked(e) = <<e>>)
    <3> HIDE DEF e
    <3>1. CASE e.file
      <4>1. Picked(e) = <<e>>
        BY <3>1 DEF Picked
      <4>2. Lengths(Picked(e)) = e.len /\ Len(Picked(e)) = 1 /\ Picked(e) \in Seq(Entry)
        BY <2>6, <4>1, Zenon
      <4>3. QED BY <2>6, <3>1, <4>1, <4>2
    <3>2. CASE ~e.file
      <4>1. Picked(e) = <<>>
        BY <3>2 DEF Picked
      <4>2. Lengths(Picked(e)) = 0 /\ Len(Picked(e)) = 0 /\ Picked(e) \in Seq(Entry)
        BY <2>6, <4>1, Zenon
      <4>3. QED BY <2>6, <4>2
    <3>3. QED BY <3>1, <3>2
  <2> HIDE DEF e, part
  <2>8. /\ w[k] \o Picked(e) \in Seq(Entry) /\ Lengths(w[k] \o Picked(e)) = Lengths(w[k]) + Lengths(Picked(e))
        /\ Len(w[k] \o Picked(e)) = Len(w[k]) + Len(Picked(e))
    BY <2>2, <2>7, LengthsConcat, ConcatProperties
  <2>9. Lengths(part(k + 1)) = Lengths(part(k)) + e.len
    BY <2>5, <2>6, LengthsConcat
  <2>10. Lengths(w[k]) \in Nat /\ Lengths(part(k)) \in Nat /\ Len(w[k]) \in Nat
    BY <2>2, <2>5, LengthsNat, LenProperties
  <2>11. /\ w[k + 1] \in Seq(Entry) /\ Lengths(w[k + 1]) = Lengths(w[k]) + Lengths(Picked(e))
         /\ Len(w[k + 1]) = Len(w[k]) + Len(Picked(e))
    BY <2>4, <2>8, Zenon
  <2>12. Lengths(w[k + 1]) <= Lengths(part(k + 1))
    <3>1. e.len \in Nat /\ Lengths(w[k]) <= Lengths(part(k)) /\ Lengths(Picked(e)) <= e.len
          /\ Lengths(Picked(e)) \in Nat
      BY <2>2, <2>6, <2>7
    <3>2. QED BY <2>9, <2>10, <2>11, <3>1
  <2>13. Len(w[k + 1]) <= k + 1
    <3>1. Len(Picked(e)) = 0 \/ Len(Picked(e)) = 1
      BY <2>7
    <3>2. Len(w[k]) <= k /\ Len(w[k]) \in Nat /\ Len(w[k + 1]) = Len(w[k]) + Len(Picked(e))
      BY <2>2, <2>10, <2>11
    <3> DEFINE now == Len(w[k])
               next == Len(w[k + 1])
               more == Len(Picked(e))
    <3> HIDE DEF now, next, more
    <3>3. (more = 0 \/ more = 1) /\ now <= k /\ now \in Nat /\ next = now + more
      BY <3>1, <3>2 DEF now, next, more
    <3>4. next <= k + 1
      BY <3>3
    <3>5. QED BY <3>4 DEF next
  <2>14. Named(Picked(e)) = Named(<<e>>) /\ Once(Picked(e))
    <3>1. Once(<<e>>) /\ Named(<<e>>) = IF e.file THEN {e.name} ELSE {}
      BY <2>3, OneName
    <3>2. CASE e.file
      <4>1. Picked(e) = <<e>>
        BY <3>2 DEF Picked
      <4>2. QED BY <3>1, <4>1
    <3>3. CASE ~e.file
      <4>1. Picked(e) = <<>>
        BY <3>3 DEF Picked
      <4>2. Named(Picked(e)) = {} /\ Once(Picked(e))
        BY <4>1, NoNames
      <4>3. QED BY <3>1, <3>3, <4>2
    <3>4. QED BY <3>2, <3>3
  <2>15. /\ Named(part(k + 1)) = Named(part(k)) \cup Named(<<e>>)
         /\ Once(part(k + 1)) <=> Once(part(k)) /\ Once(<<e>>) /\ Named(part(k)) \cap Named(<<e>>) = {}
    <3>1. /\ Named(part(k) \o <<e>>) = Named(part(k)) \cup Named(<<e>>)
          /\ Once(part(k) \o <<e>>) <=> Once(part(k)) /\ Once(<<e>>) /\ Named(part(k)) \cap Named(<<e>>) = {}
      BY <2>5, <2>6, ConcatNames
    <3>2. part(k + 1) = part(k) \o <<e>>
      BY <2>5
    <3>3. QED BY <3>1, <3>2, Zenon
  <2>16. /\ Named(w[k + 1]) = Named(w[k]) \cup Named(Picked(e))
         /\ Once(w[k + 1]) <=> Once(w[k]) /\ Once(Picked(e)) /\ Named(w[k]) \cap Named(Picked(e)) = {}
    <3>1. /\ Named(w[k] \o Picked(e)) = Named(w[k]) \cup Named(Picked(e))
          /\ Once(w[k] \o Picked(e)) <=> Once(w[k]) /\ Once(Picked(e)) /\ Named(w[k]) \cap Named(Picked(e)) = {}
      BY <2>2, <2>7, ConcatNames
    <3>2. QED BY <2>4, <3>1, Zenon
  <2>17. Named(w[k + 1]) \subseteq Named(part(k + 1)) /\ (Once(part(k + 1)) => Once(w[k + 1]))
    <3>1. Named(w[k]) \subseteq Named(part(k)) /\ (Once(part(k)) => Once(w[k]))
      BY <2>2
    <3>2. QED BY <2>14, <2>15, <2>16, <3>1
  <2> DEFINE now == w[k]
             next == w[k + 1]
             more == Picked(e)
             m == Len(now)
  <2>18. /\ m \in Nat /\ m <= k /\ (\A i \in 1..m : now[i].file) /\ (m = k => now = part(k))
         /\ next = now \o more /\ Len(next) = m + Len(more) /\ now \in Seq(Entry) /\ more \in Seq(Entry)
         /\ Len(more) \in {0, 1} /\ (Len(more) = 1 => e.file /\ more = <<e>>)
    BY <2>2, <2>4, <2>7, <2>10, <2>11
  <2> HIDE DEF now, next, more, m
  <2>19. ASSUME NEW i \in 1..Len(next) PROVE next[i].file
    <3>1. \A j \in 1..m + Len(more) : next[j] = IF j <= m THEN now[j] ELSE more[j - m]
      BY <2>18, ConcatProperties DEF m
    <3>2. CASE i <= m
      <4>1. i \in 1..m /\ next[i] = now[i]
        BY <2>18, <2>19, <3>1, <3>2
      <4>2. QED BY <2>18, <4>1
    <3>3. CASE ~(i <= m)
      <4>1. Len(more) = 1 /\ i - m = 1 /\ next[i] = more[i - m]
        BY <2>18, <2>19, <3>1, <3>3
      <4>2. <<e>>[1] = e
        OBVIOUS
      <4>3. QED BY <2>18, <4>1, <4>2
    <3>4. QED BY <3>2, <3>3
  <2>20. ASSUME Len(next) = k + 1 PROVE next = part(k + 1)
    <3>1. m = k /\ Len(more) = 1
      BY <2>18, <2>20
    <3>2. QED BY <2>5, <2>18, <3>1
  <2>21. Good(k + 1)
    BY <2>11, <2>12, <2>13, <2>17, <2>19, <2>20 DEF next
  <2>22. QED BY <2>21
<1>5. Nat \subseteq T
  <2> HIDE DEF T
  <2>1. QED BY <1>3, <1>4, Induction
<1>6. Good(n)
  <2> HIDE DEF Good
  <2>1. QED BY <1>1, <1>5
<1>7. part(n) = es
  BY SubSeqFull DEF n
<1> HIDE DEF part
<1>8. QED BY <1>2, <1>6, <1>7 DEF n

(* The moves of squeeze read blocks of the volume, and moving keeps its size.*)
LEMMA SqueezeMovesUnfolds ==
  ASSUME segs[1].entries \in Seq(Entry)
  PROVE  \E w : /\ w = [k \in 0..Len(segs[1].entries) |-> IF k = 0 THEN <<>>
                                                         ELSE w[k - 1] \o Moves(segs[1].entries, k)]
                /\ SqueezeMoves = w[Len(segs[1].entries)]
<1> DEFINE N == Len(segs[1].entries)
           P == [k \in Nat |-> Moves(segs[1].entries, k)]
           v == CHOOSE w : w = [k \in 0..N |-> IF k = 0 THEN <<>> ELSE w[k - 1] \o Moves(segs[1].entries, k)]
<1>1. N \in Nat
  BY LenProperties, SMTT(30)
<1>2. \E w : w = [k \in 0..N |-> IF k = 0 THEN <<>> ELSE w[k - 1] \o Moves(segs[1].entries, k)]
  <2> HIDE DEF N, P
  <2>1. PICK w : w = [k \in 0..N |-> IF k = 0 THEN <<>> ELSE w[k - 1] \o P[k]]
    BY <1>1, ConcatUnfolds
  <2>2. \A k \in 0..N : P[k] = Moves(segs[1].entries, k)
    BY <1>1 DEF P
  <2>3. QED BY <2>1, <2>2
<1>3. v = [k \in 0..N |-> IF k = 0 THEN <<>> ELSE v[k - 1] \o Moves(segs[1].entries, k)]
  <2> HIDE DEF N
  <2>1. QED BY <1>2, Zenon
<1>4. SqueezeMoves = v[N]
  BY DEF SqueezeMoves
<1>5. QED
  <2> HIDE DEF v
  <2>1. QED BY <1>3, <1>4

LEMMA SqueezeMovesAre ==
  ASSUME segs[1].entries \in Seq(Entry)
  PROVE  SqueezeMoves \in Seq(Nat \X (1..Lengths(segs[1].entries)))
<1> DEFINE es == segs[1].entries
           n == Len(es)
           Move == Nat \X (1..Lengths(es))
<1>1. n \in Nat /\ es \in Seq(Entry)
  BY LenProperties
<1>2. PICK w : w = [k \in 0..n |-> IF k = 0 THEN <<>> ELSE w[k - 1] \o Moves(es, k)] /\ SqueezeMoves = w[n]
  BY SqueezeMovesUnfolds
<1> HIDE DEF n, es
<1>3. ASSUME NEW k \in 1..n PROVE Moves(es, k) \in Seq(Move)
  <2> DEFINE e == es[k]
             before == SubSeq(es, 1, k - 1)
             m == IF e.file THEN e.len ELSE 0
             to == Lengths(FilesIn(before))
             from == Lengths(before)
  <2>1. k \in 1..Len(es) /\ k - 1 \in 1 - 1..Len(es) /\ 1 \in 1..Len(es) + 1 /\ k \in k - 1..Len(es)
        /\ k \in 1..Len(es) + 1
    BY <1>1 DEF n
  <2>2. before \in Seq(Entry) /\ e \in Entry
    BY <1>1, <2>1, PartIs, ElementOfSeq
  <2>3. e.len \in Nat /\ m \in Nat /\ m <= e.len
    BY <2>2 DEF Entry
  <2>4. to \in Nat /\ from \in Nat
    BY <2>2, FilesInIs, LengthsNat
  <2>5. from + e.len <= Lengths(es) /\ Lengths(es) \in Nat
    <3>1. Lengths(es) = Lengths(SubSeq(es, 1, k - 1)) + Lengths(SubSeq(es, k, k)) + Lengths(SubSeq(es, k + 1, Len(es)))
      BY <1>1, <2>1, LengthsParts
    <3>2. Lengths(SubSeq(es, k, k)) = e.len
      BY <1>1, <2>1, PartOne
    <3>3. Lengths(SubSeq(es, k + 1, Len(es))) \in Nat
      <4>1. k + 1 \in 1..Len(es) + 1 /\ Len(es) \in (k + 1) - 1..Len(es)
        BY <1>1, <2>1 DEF n
      <4>2. SubSeq(es, k + 1, Len(es)) \in Seq(Entry)
        BY <1>1, <4>1, PartIs
      <4>3. QED BY <4>2, LengthsNat
    <3>4. Lengths(es) \in Nat
      BY <1>1, LengthsNat
    <3> HIDE DEF e
    <3>5. QED BY <2>3, <2>4, <3>1, <3>2, <3>3, <3>4
  <2>6. Moves(es, k) = [i \in 1..m |-> <<to + i, from + i>>]
    BY DEF Moves
  <2> HIDE DEF m, to, from, e
  <2>7. \A i \in 1..m : <<to + i, from + i>> \in Move
    <3>1. TAKE i \in 1..m
    <3>2. to + i \in Nat /\ from + i \in 1..Lengths(es)
      BY <2>3, <2>4, <2>5
    <3>3. QED BY <3>2
  <2> HIDE DEF Move
  <2>8. [i \in 1..m |-> <<to + i, from + i>>] \in [1..m -> Move]
    BY <2>7
  <2>9. QED BY <2>3, <2>6, <2>8
<1> DEFINE T == {k \in Nat : k <= n => w[k] \in Seq(Move)}
<1>4. 0 \in T
  <2>1. w[0] = <<>>
    BY <1>1, <1>2
  <2> HIDE DEF Move
  <2>2. <<>> \in Seq(Move)
    BY EmptySeq
  <2>3. QED BY <2>1, <2>2
<1>5. ASSUME NEW k \in Nat, k \in T PROVE k + 1 \in T
  <2>1. SUFFICES ASSUME k + 1 <= n PROVE w[k + 1] \in Seq(Move)
    OBVIOUS
  <2>2. w[k] \in Seq(Move) /\ k + 1 \in 1..n /\ (k + 1) - 1 = k
    BY <1>1, <1>5, <2>1
  <2>3. w[k + 1] = w[(k + 1) - 1] \o Moves(es, k + 1)
    <3>1. k + 1 \in 0..n /\ k + 1 # 0
      BY <1>1, <2>2
    <3>2. w[k + 1] = IF k + 1 = 0 THEN <<>> ELSE w[(k + 1) - 1] \o Moves(es, k + 1)
      BY <1>2, <3>1, Zenon
    <3>3. QED BY <3>1, <3>2
  <2>4. Moves(es, k + 1) \in Seq(Move)
    BY <1>3, <2>2
  <2> HIDE DEF Move
  <2>5. QED BY <2>2, <2>3, <2>4, ConcatProperties
<1>6. Nat \subseteq T
  <2> HIDE DEF T
  <2>1. QED BY <1>4, <1>5, Induction
<1>7. w[n] \in Seq(Move)
  <2> HIDE DEF Move
  <2>1. QED BY <1>1, <1>6
<1>8. QED BY <1>2, <1>7 DEF es

(* One move of a block.                                                     *)
Carried(b, m) == [b EXCEPT ![m[1]] = b[m[2]]]

LEMMA MovedUnfolds ==
  ASSUME NEW moves, Len(moves) \in Nat
  PROVE  \E w : /\ w = [k \in 0..Len(moves) |-> IF k = 0 THEN blocks ELSE Carried(w[k - 1], moves[k])]
                /\ Moved(moves) = w[Len(moves)]
<1> DEFINE Unfolds(n, g) == g = [k \in 0..n |-> IF k = 0 THEN blocks ELSE Carried(g[k - 1], moves[k])]
           Some == {n \in Nat : \E g : Unfolds(n, g)}
<1>1. 0 \in Some
  <2>1. Unfolds(0, [k \in 0..0 |-> blocks])
    OBVIOUS
  <2>2. QED BY <2>1
<1>2. ASSUME NEW n \in Nat, n \in Some PROVE n + 1 \in Some
  <2>1. PICK g : Unfolds(n, g)
    BY <1>2
  <2> DEFINE h == [k \in 0..n + 1 |-> IF k <= n THEN g[k] ELSE Carried(g[n], moves[n + 1])]
  <2>2. \A k \in 0..n + 1 : h[k] = IF k = 0 THEN blocks ELSE Carried(h[k - 1], moves[k])
    <3>1. TAKE k \in 0..n + 1
    <3>2. CASE k = 0
      BY <2>1, <3>2
    <3>3. CASE k # 0 /\ k <= n
      <4>1. h[k] = g[k] /\ h[k - 1] = g[k - 1]
        BY <3>3
      <4>2. k \in 0..n
        BY <3>3
      <4>3. g[k] = Carried(g[k - 1], moves[k])
        BY <2>1, <3>3, <4>2
      <4> HIDE DEF h
      <4>4. QED BY <3>3, <4>1, <4>3
    <3>4. CASE k = n + 1
      BY <3>4
    <3>5. QED BY <3>2, <3>3, <3>4
  <2>3. Unfolds(n + 1, h)
    <3> HIDE DEF h
    <3>1. h = [k \in 0..n + 1 |-> h[k]]
      BY DEF h
    <3>2. QED BY <2>2, <3>1
  <2>4. QED
    <3> HIDE DEF h, Unfolds
    <3>1. QED BY <2>3
<1>3. Nat \subseteq Some
  <2> HIDE DEF Some
  <2>1. QED BY <1>1, <1>2, Induction
<1> DEFINE N == Len(moves)
           v == CHOOSE w : w = [k \in 0..N |-> IF k = 0 THEN blocks ELSE Carried(w[k - 1], moves[k])]
<1>4. \E w : Unfolds(N, w)
  <2>1. N \in Nat
    OBVIOUS
  <2> HIDE DEF Unfolds, N
  <2>2. QED BY <1>3, <2>1
<1>5. Unfolds(N, v)
  <2> HIDE DEF N
  <2>1. QED BY <1>4
<1>6. Moved(moves) = v[N]
  BY DEF Moved, Carried
<1>7. QED
  <2> HIDE DEF v
  <2>1. QED BY <1>5, <1>6

LEMMA MovedIs ==
  ASSUME blocks \in Seq(Block), NEW moves \in Seq(Nat \X (1..Len(blocks)))
  PROVE  Moved(moves) \in Seq(Block) /\ Len(Moved(moves)) = Len(blocks)
<1> DEFINE n == Len(moves)
           N == Len(blocks)
           F == [1..N -> Block]
<1>1. n \in Nat /\ N \in Nat /\ blocks \in F
  BY LenProperties
<1>2. PICK w : /\ w = [k \in 0..n |-> IF k = 0 THEN blocks ELSE Carried(w[k - 1], moves[k])]
               /\ Moved(moves) = w[n]
  BY <1>1, MovedUnfolds
<1>3. \A k \in 1..n : moves[k][2] \in 1..N
  <2>1. TAKE k \in 1..n
  <2>2. moves[k] \in Nat \X (1..N)
    BY ElementOfSeq
  <2>3. QED BY <2>2
<1> HIDE DEF n, N
<1> DEFINE T == {k \in Nat : k <= n => w[k] \in F}
<1>4. 0 \in T
  BY <1>1, <1>2
<1>5. ASSUME NEW k \in Nat, k \in T PROVE k + 1 \in T
  <2>1. SUFFICES ASSUME k + 1 <= n PROVE w[k + 1] \in F
    OBVIOUS
  <2>2. w[k] \in F /\ k + 1 \in 1..n /\ (k + 1) - 1 = k
    BY <1>1, <1>5, <2>1
  <2>3. w[k + 1] = Carried(w[k], moves[k + 1])
    <3>1. k + 1 \in 0..n /\ k + 1 # 0
      BY <1>1, <2>2
    <3>2. w[k + 1] = IF k + 1 = 0 THEN blocks ELSE Carried(w[(k + 1) - 1], moves[k + 1])
      BY <1>2, <3>1, Zenon
    <3>3. QED BY <2>2, <3>1, <3>2
  <2>4. w[k][moves[k + 1][2]] \in Block
    BY <1>3, <2>2
  <2>5. QED BY <2>2, <2>3, <2>4 DEF Carried
<1>6. Nat \subseteq T
  <2> HIDE DEF T
  <2>1. QED BY <1>4, <1>5, Induction
<1>7. w[n] \in F
  <2> HIDE DEF F
  <2>1. QED BY <1>1, <1>6
<1>8. Moved(moves) \in [1..N -> Block]
  BY <1>2, <1>7
<1>9. Moved(moves) \in Seq(Block) /\ Len(Moved(moves)) = N
  BY <1>1, <1>8
<1>10. QED BY <1>9 DEF N

------------------------------------
(* The invariant: the types, and a chain whose segments' areas tile the     *)
(* volume; of a directory whose entries fill its segments to the last word, *)
(* also that a marker fits after them.                                      *)

Chained ==
  /\ segs \in Dir /\ highest \in 1..Total /\ blocks \in Seq(Block)
  /\ \E c : Link(segs, c, highest) /\ Tile(segs, c, highest, Size)

(* What every call leaves.                                                  *)
Kept == Chained' /\ (NoRemainder /\ Fits(segs, highest) => Fits(segs', highest'))

(* What an instance of the invariant says of the numbers.                   *)
LEMMA Facts ==
  ASSUME Chained
  PROVE  /\ Total \in Nat /\ highest \in Nat /\ 1 <= highest /\ highest <= Total /\ 1..highest \subseteq 1..Total
         /\ 1 \in 1..highest /\ 1 \in 1..Total /\ highest \in 1..highest
         /\ DataStart \in Nat /\ Len(blocks) \in Nat /\ Size \in Nat
<1>1. Total \in Nat /\ highest \in 1..Total
  BY LayoutAssumption DEF Chained
<1>2. Len(blocks) \in Nat
  BY LenProperties DEF Chained
<1>3. DataStart \in Nat
  BY <1>1 DEF DataStart
<1>4. Size \in Nat
  BY <1>2, <1>3 DEF Size
<1>5. QED BY <1>1, <1>2, <1>3, <1>4

(* A call that keeps the segments' places in the chain and their blocks.    *)
LEMMA LengthsKept ==
  ASSUME Chained, segs' \in Dir, highest' = highest, blocks' \in Seq(Block), Len(blocks') = Len(blocks),
         \A t \in 1..Total :
           /\ segs'[t].next = segs[t].next /\ segs'[t].start = segs[t].start
           /\ Lengths(segs'[t].entries) = Lengths(segs[t].entries)
           /\ \/ Len(segs'[t].entries) <= Len(segs[t].entries)
              \/ NoRemainder => FitsAt(Len(segs'[t].entries) + 1)
  PROVE  Kept
<1>1. /\ Total \in Nat /\ highest \in Nat /\ highest # 0 /\ 1..highest \subseteq 1..Total /\ Size \in Nat
  BY Facts
<1>2. PICK c : Link(segs, c, highest) /\ Tile(segs, c, highest, Size)
  BY DEF Chained
<1>3. Link(segs', c, highest) /\ Tile(segs', c, highest, Size)
  BY <1>1, <1>2, TileKept
<1>4. Size' = Size
  BY DEF Size
<1>5. Chained'
  <2>1. highest' \in 1..Total
    BY DEF Chained
  <2>2. Link(segs', c, highest') /\ Tile(segs', c, highest', Size')
    BY <1>3, <1>4
  <2>3. QED BY <2>1, <2>2 DEF Chained
<1>6. ASSUME NoRemainder, Fits(segs, highest) PROVE Fits(segs', highest')
  <2>1. SUFFICES ASSUME NEW t \in 1..highest PROVE FitsAt(Len(segs'[t].entries) + 1)
    BY DEF Fits
  <2>2. t \in 1..Total
    BY <1>1
  <2>3. Len(segs[t].entries) \in Nat /\ Len(segs'[t].entries) \in Nat
    BY <2>2, DirIs DEF Chained
  <2>4. FitsAt(Len(segs[t].entries) + 1)
    BY <1>6 DEF Fits
  <2>5. CASE Len(segs'[t].entries) <= Len(segs[t].entries)
    BY <2>3, <2>4, <2>5, FewerFit
  <2>6. QED BY <1>6, <2>2, <2>5
<1>7. QED BY <1>5, <1>6 DEF Kept

(* An entry of the first segment changed, not its length.                   *)
LEMMA EntryKept ==
  ASSUME Chained, NEW k \in 1..Len(segs[1].entries), NEW e \in Entry, e.len = segs[1].entries[k].len,
         segs' = [segs EXCEPT ![1].entries[k] = e], UNCHANGED <<highest, blocks>>
  PROVE  Kept
<1> DEFINE es == segs[1].entries
           new == [es EXCEPT ![k] = e]
<1>1. segs \in Dir /\ 1 \in 1..Total
  BY Facts DEF Chained
<1>2. es \in Seq(Entry) /\ Len(es) \in Nat /\ \A t \in 1..Total : Len(segs[t].entries) \in Nat
  BY <1>1, DirIs
<1>3. segs' = WithEntries(segs, 1, new)
  BY DEF WithEntries
<1>4. new \in Seq(Entry) /\ Len(new) = Len(es) /\ Lengths(new) = Lengths(es)
  <2> HIDE DEF es
  <2>1. k \in 1..Len(es) /\ e.len = es[k].len
    BY DEF es
  <2>2. QED BY <1>2, <2>1, EntryChanged
<1> HIDE DEF new
<1> DEFINE With(d) == /\ d \in Dir
                      /\ \A t \in 1..Total : /\ d[t].next = segs[t].next /\ d[t].start = segs[t].start
                                             /\ d[t].entries = IF t = 1 THEN new ELSE segs[t].entries
<1>5. With(segs')
  <2>1. With(WithEntries(segs, 1, new))
    BY <1>1, <1>4, EntriesSet
  <2> HIDE DEF With
  <2>2. QED BY <1>3, <2>1
<1>6. blocks' \in Seq(Block) /\ Len(blocks') = Len(blocks) /\ highest' = highest
  BY DEF Chained
<1>7. ASSUME NEW t \in 1..Total
      PROVE  /\ segs'[t].next = segs[t].next /\ segs'[t].start = segs[t].start
             /\ Lengths(segs'[t].entries) = Lengths(segs[t].entries)
             /\ Len(segs'[t].entries) <= Len(segs[t].entries)
  <2>1. CASE t = 1
    <3>1. segs'[1].entries = new /\ segs'[1].next = segs[1].next /\ segs'[1].start = segs[1].start
      BY <1>1, <1>5
    <3>2. QED BY <1>2, <1>4, <2>1, <3>1
  <2>2. CASE t # 1
    BY <1>2, <1>5, <2>2
  <2>3. QED BY <2>1, <2>2
<1>8. QED BY <1>5, <1>6, <1>7, LengthsKept

(* The entry findFirst comes to.                                            *)
LEMMA FindFirstIs ==
  ASSUME NEW n, segs[1].entries \in Seq(Entry), FindFirst(n) # 0
  PROVE  /\ FindFirst(n) \in 1..Len(segs[1].entries)
         /\ segs[1].entries[FindFirst(n)].file /\ segs[1].entries[FindFirst(n)].name = n
<1> DEFINE es == segs[1].entries
           I == {i \in 1..Len(es) : es[i].file /\ es[i].name = n}
<1>1. FindFirst(n) = IF I # {} THEN Min(I) ELSE 0
  BY DEF FindFirst, SelectInSeq
<1>2. I \in SUBSET Nat /\ I # {}
  BY <1>1
<1>3. \E m \in I : \A k \in I : m <= k
  <2> HIDE DEF I
  <2>1. QED BY <1>2, FirstOf
<1>4. Min(I) \in I
  <2> HIDE DEF I
  <2>1. QED BY <1>3 DEF Min
<1>5. FindFirst(n) \in I
  <2> HIDE DEF I
  <2>1. QED BY <1>1, <1>2, <1>4
<1>6. QED BY <1>5

LEMMA PutFileKeeps ==
  ASSUME Chained, NEW n \in Names, NEW data \in Contents, NEW prot \in PutAs, PutFile(n, data, prot)
  PROVE  Kept
<1> DEFINE file == [file |-> TRUE, prot |-> prot, name |-> n, len |-> Len(data)]
<1>1. data \in Seq(Block) /\ Len(data) \in Nat /\ prot \in BOOLEAN
  BY LenProperties, LayoutAssumption
<1>2. file \in Entry /\ file.len = Len(data)
  BY <1>1 DEF Entry
<1>3. PICK c : Link(segs, c, highest) /\ Tile(segs, c, highest, Size)
  BY DEF Chained
<1>4. /\ segs \in Dir /\ highest \in 1..Total /\ blocks \in Seq(Block)
      /\ Total \in Nat /\ highest \in Nat /\ highest # 0 /\ 1..highest \subseteq 1..Total /\ Size \in Nat
      /\ 1 \in 1..Total
  BY Facts DEF Chained
<1>5. ASSUME NEW dir \in Dir, Link(dir, c, highest), Tile(dir, c, highest, Size), PutNew(dir, file, data),
             Fits(segs, highest) => Fits(dir, highest)
      PROVE  Kept
  <2> HIDE DEF file
  <2>1. /\ segs' \in Dir /\ highest' \in 1..Total /\ blocks' \in Seq(Block) /\ Size' = Size
        /\ \E d : Link(segs', d, highest') /\ Tile(segs', d, highest', Size)
        /\ NoRemainder /\ Fits(dir, highest) => Fits(segs', highest')
    BY <1>1, <1>2, <1>3, <1>4, <1>5, PutNewIs DEF Held
  <2>2. PICK d : Link(segs', d, highest') /\ Tile(segs', d, highest', Size)
    BY <2>1
  <2>3. Link(segs', d, highest') /\ Tile(segs', d, highest', Size')
    BY <2>1, <2>2
  <2>4. Chained'
    BY <2>1, <2>3 DEF Chained
  <2>5. QED BY <1>5, <2>1, <2>4 DEF Kept
<1>6. CASE FilesNamed(n) = {}
  <2>1. PutNew(segs, file, data)
    BY <1>6 DEF PutFile
  <2> HIDE DEF file
  <2>2. QED BY <1>3, <1>4, <1>5, <2>1
<1>7. CASE FilesNamed(n) # {}
  <2> DEFINE k == FindFirst(n)
             dir == Removed(k)
  <2>1. k # 0 /\ PutNew(Removed(k), file, data)
    BY <1>7 DEF PutFile
  <2>2. k \in 1..Len(segs[1].entries)
    BY <1>4, <2>1, DirIs, FindFirstIs
  <2> HIDE DEF k, file
  <2>3. /\ dir \in Dir
        /\ \A t \in 1..Total : /\ dir[t].next = segs[t].next /\ dir[t].start = segs[t].start
                               /\ Lengths(dir[t].entries) = Lengths(segs[t].entries)
                               /\ Len(dir[t].entries) <= Len(segs[t].entries)
    BY <1>4, <2>2, RemovedKeeps
  <2>4. PutNew(dir, file, data)
    BY <2>1
  <2> HIDE DEF dir
  <2>5. Link(dir, c, highest) /\ Tile(dir, c, highest, Size)
    BY <1>3, <1>4, <2>3, TileKept
  <2>6. ASSUME Fits(segs, highest) PROVE Fits(dir, highest)
    <3>1. SUFFICES ASSUME NEW t \in 1..highest PROVE FitsAt(Len(dir[t].entries) + 1)
      BY DEF Fits
    <3>2. t \in 1..Total /\ FitsAt(Len(segs[t].entries) + 1)
      BY <1>4, <2>6 DEF Fits
    <3>3. Len(segs[t].entries) \in Nat /\ Len(dir[t].entries) \in Nat /\ Len(dir[t].entries) <= Len(segs[t].entries)
      BY <1>4, <2>3, <3>2, DirIs
    <3>4. QED BY <3>2, <3>3, FewerFit
  <2>7. QED BY <1>5, <2>3, <2>4, <2>5, <2>6
<1>8. QED BY <1>6, <1>7

LEMMA RemoveFileKeeps ==
  ASSUME Chained, NEW n \in Names, RemoveFile(n)
  PROVE  Kept
<1> DEFINE k == FindFirst(n)
<1>1. segs \in Dir /\ 1 \in 1..Total /\ blocks \in Seq(Block)
  BY Facts DEF Chained
<1>2. k # 0 /\ segs' = Removed(k) /\ UNCHANGED <<highest, blocks>>
  BY DEF RemoveFile
<1>3. k \in 1..Len(segs[1].entries)
  BY <1>1, <1>2, DirIs, FindFirstIs
<1> HIDE DEF k
<1>4. /\ segs' \in Dir
      /\ \A t \in 1..Total : /\ segs'[t].next = segs[t].next /\ segs'[t].start = segs[t].start
                             /\ Lengths(segs'[t].entries) = Lengths(segs[t].entries)
                             /\ Len(segs'[t].entries) <= Len(segs[t].entries)
  BY <1>1, <1>2, <1>3, RemovedKeeps
<1>5. blocks' \in Seq(Block) /\ Len(blocks') = Len(blocks) /\ highest' = highest
  BY <1>1, <1>2
<1>6. QED BY <1>4, <1>5, LengthsKept

(* renameFile and setProtected.                                             *)
LEMMA PermanentIs ==
  ASSUME segs \in Dir, NEW n, FindFirst(n) # 0
  PROVE  /\ FindFirst(n) \in 1..Len(segs[1].entries) /\ segs[1].entries[FindFirst(n)] \in Entry
         /\ segs[1].entries[FindFirst(n)].file
<1>1. segs[1].entries \in Seq(Entry)
  BY LayoutAssumption, DirIs
<1>2. QED BY <1>1, FindFirstIs, ElementOfSeq

LEMMA MutateKeeps ==
  ASSUME Chained, NEW n, NEW e \in Entry, Mutate(n, e), e.len = segs[1].entries[FindFirst(n)].len
  PROVE  Kept
<1> DEFINE k == FindFirst(n)
<1>1. k # 0 /\ segs' = [segs EXCEPT ![1].entries[k] = e] /\ UNCHANGED <<highest, blocks>>
  BY DEF Mutate
<1>2. k \in 1..Len(segs[1].entries)
  BY <1>1, PermanentIs DEF Chained
<1> HIDE DEF k
<1>3. QED BY <1>1, <1>2, EntryKept DEF k

(* The entries rename and setProtected write.                               *)
Renaming(n, to) == [segs[1].entries[FindFirst(n)] EXCEPT !.name = to]
Protecting(n, on) == [segs[1].entries[FindFirst(n)] EXCEPT !.prot = on]

LEMMA RenameFileIs ==
  ASSUME segs \in Dir, NEW n \in Names, NEW to \in Names, RenameFile(n, to)
  PROVE  /\ Mutate(n, Renaming(n, to)) /\ FilesNamed(to) = {}
         /\ asked' = [NoRequest EXCEPT !.op = "rename", !.name = n, !.to = to]
         /\ Renaming(n, to) \in Entry /\ Renaming(n, to).file /\ Renaming(n, to).name = to
         /\ Renaming(n, to).len = segs[1].entries[FindFirst(n)].len
         /\ Renaming(n, to).prot = segs[1].entries[FindFirst(n)].prot
<1> DEFINE old == segs[1].entries[FindFirst(n)]
           e == [old EXCEPT !.name = to]
<1>1. /\ Mutate(n, Renaming(n, to)) /\ FilesNamed(to) = {} /\ FindFirst(n) # 0
      /\ asked' = [NoRequest EXCEPT !.op = "rename", !.name = n, !.to = to]
  BY DEF RenameFile, Permanent, Mutate, Renaming
<1>2. old \in Entry /\ old.file
  BY <1>1, PermanentIs
<1>3. e \in Entry /\ e.file /\ e.len = old.len /\ e.prot = old.prot /\ e.name = to
  <2> HIDE DEF old
  <2>1. QED BY <1>2 DEF Entry
<1>4. QED BY <1>1, <1>3 DEF Renaming

LEMMA SetProtectedIs ==
  ASSUME segs \in Dir, NEW n \in Names, NEW on \in BOOLEAN, SetProtected(n, on)
  PROVE  /\ Mutate(n, Protecting(n, on))
         /\ asked' = [NoRequest EXCEPT !.op = "protect", !.name = n, !.prot = on]
         /\ Protecting(n, on) \in Entry /\ Protecting(n, on).file /\ Protecting(n, on).prot = on
         /\ Protecting(n, on).len = segs[1].entries[FindFirst(n)].len
         /\ Protecting(n, on).name = segs[1].entries[FindFirst(n)].name
<1> DEFINE old == segs[1].entries[FindFirst(n)]
           e == [old EXCEPT !.prot = on]
<1>1. /\ Mutate(n, Protecting(n, on)) /\ FindFirst(n) # 0
      /\ asked' = [NoRequest EXCEPT !.op = "protect", !.name = n, !.prot = on]
  BY DEF SetProtected, Permanent, Mutate, Protecting
<1>2. old \in Entry /\ old.file
  BY <1>1, PermanentIs
<1>3. e \in Entry /\ e.file /\ e.len = old.len /\ e.prot = on /\ e.name = old.name
  <2> HIDE DEF old
  <2>1. QED BY <1>2 DEF Entry
<1>4. QED BY <1>1, <1>3 DEF Protecting

LEMMA RenameFileKeeps ==
  ASSUME Chained, NEW n \in Names, NEW to \in Names, RenameFile(n, to)
  PROVE  Kept
  BY RenameFileIs, MutateKeeps, Facts DEF Chained

LEMMA SetProtectedKeeps ==
  ASSUME Chained, NEW n \in Names, NEW on \in BOOLEAN, SetProtected(n, on)
  PROVE  Kept
  BY SetProtectedIs, MutateKeeps, Facts DEF Chained

LEMMA UndeleteEntryKeeps ==
  ASSUME Chained, NEW k \in DOMAIN segs[1].entries, NEW new \in Names \cup {NoName}, UndeleteEntry(k, new)
  PROVE  Kept
<1> DEFINE old == segs[1].entries[k]
           under == IF new = NoName THEN old.name ELSE new
           e == [file |-> TRUE, prot |-> FALSE, name |-> under, len |-> old.len]
<1>1. segs' = [segs EXCEPT ![1].entries[k] = e] /\ UNCHANGED <<highest, blocks>>
  BY DEF UndeleteEntry
<1>2. /\ segs \in Dir /\ 1 \in 1..Total /\ segs[1].entries \in Seq(Entry)
      /\ k \in 1..Len(segs[1].entries)
  BY Facts, DirIs DEF Chained
<1>3. old \in Entry
  BY <1>2, ElementOfSeq
<1>4. e \in Entry /\ e.len = old.len
  <2> HIDE DEF old
  <2>1. QED BY <1>3 DEF Entry
<1> HIDE DEF e
<1>5. QED BY <1>1, <1>2, <1>4, EntryKept

(* What squeeze leaves of segment 1, when an entry more fits there: its     *)
(* files, and the blocks they gave back.                                    *)
Spare == Free(Lengths(segs[1].entries) - Lengths(Perms))
Squeezed == Perms \o <<Spare>>
SpareFits == At(Len(Perms) + 1) + EntrySize + 2 <= SegBytes

LEMMA SqueezeIs ==
  ASSUME Chained, Squeeze
  PROVE  /\ segs \in Dir /\ blocks \in Seq(Block) /\ Len(blocks) \in Nat /\ DataStart \in Nat /\ 1 \in 1..Total
         /\ highest = 1 /\ highest' = 1 /\ asked' = NoRequest /\ deleted' = Forget(deleted)
         /\ segs[1].entries \in Seq(Entry) /\ Len(segs[1].entries) \in Nat /\ Lengths(segs[1].entries) \in Nat
         /\ segs[1].start = DataStart /\ Lengths(segs[1].entries) <= Len(blocks)
         /\ SqueezeMoves \in Seq(Nat \X (1..Len(blocks))) /\ blocks' = Moved(SqueezeMoves)
         /\ Perms \in Seq(Entry) /\ Lengths(Perms) <= Lengths(segs[1].entries) /\ Lengths(Perms) \in Nat
         /\ Len(Perms) \in Nat /\ Len(Perms) <= Len(segs[1].entries)
         /\ Spare \in Entry /\ ~Spare.file /\ Spare.name = NoName
         /\ Spare.len = Lengths(segs[1].entries) - Lengths(Perms) /\ <<Spare>> \in Seq(Entry)
         /\ Squeezed \in Seq(Entry) /\ Len(Squeezed) = Len(Perms) + 1
         /\ ~SpareFits => segs' = segs
         /\ SpareFits => /\ segs' \in Dir
                         /\ \A t \in 1..Total :
                              /\ segs'[t].next = segs[t].next /\ segs'[t].start = segs[t].start
                              /\ segs'[t].entries = IF t = 1 THEN Squeezed ELSE segs[t].entries
<1> DEFINE es == segs[1].entries
<1>1. /\ segs \in Dir /\ 1 \in 1..Total /\ blocks \in Seq(Block) /\ highest = 1 /\ highest' = 1
      /\ DataStart \in Nat /\ Len(blocks) \in Nat
      /\ blocks' = Moved(SqueezeMoves) /\ asked' = NoRequest /\ deleted' = Forget(deleted)
  BY Facts DEF Chained, Squeeze
<1>2. es \in Seq(Entry) /\ Len(es) \in Nat /\ Lengths(es) \in Nat
  BY <1>1, DirIs
<1>3. segs[1].start = DataStart /\ Lengths(es) <= Len(blocks)
  <2>1. PICK c : Link(segs, c, highest) /\ Tile(segs, c, highest, Size)
    BY DEF Chained
  <2>2. c[1] = 1 /\ segs[1].start = DataStart /\ Ends(segs, c[1]) <= Size
    BY <1>1, <2>1 DEF Link, Tile
  <2>3. DataStart + Lengths(es) <= DataStart + Len(blocks)
    BY <2>2 DEF Ends, Size
  <2> HIDE DEF es
  <2>4. QED BY <1>1, <1>2, <2>2, <2>3
<1>4. SqueezeMoves \in Seq(Nat \X (1..Len(blocks)))
  <2>1. SqueezeMoves \in Seq(Nat \X (1..Lengths(segs[1].entries)))
    BY <1>2, SqueezeMovesAre
  <2>2. 1..Lengths(segs[1].entries) \subseteq 1..Len(blocks)
    BY <1>1, <1>2, <1>3
  <2>3. Nat \X (1..Lengths(segs[1].entries)) \subseteq Nat \X (1..Len(blocks))
    BY <2>2
  <2>4. QED BY <2>1, <2>3, SeqMonotonic
<1>5. /\ Perms \in Seq(Entry) /\ Lengths(Perms) <= Lengths(es) /\ Lengths(Perms) \in Nat
      /\ Len(Perms) \in Nat /\ Len(Perms) <= Len(es)
  BY <1>2, FilesInIs, LengthsNat, LenProperties DEF Perms
<1>6. Spare \in Entry /\ ~Spare.file /\ Spare.name = NoName /\ Spare.len = Lengths(es) - Lengths(Perms)
  <2> DEFINE len == Lengths(es) - Lengths(Perms)
  <2> HIDE DEF es
  <2>1. len \in Nat
    BY <1>2, <1>5
  <2> HIDE DEF len
  <2>2. Free(len) \in Entry /\ ~Free(len).file /\ Free(len).name = NoName /\ Free(len).len = len
    BY <2>1 DEF Free, Area, Entry
  <2>3. QED BY <2>2 DEF len, es, Spare
<1>7. /\ Squeezed \in Seq(Entry) /\ Len(Squeezed) = Len(Perms) + 1 /\ Squeezed = Append(Perms, Spare)
      /\ <<Spare>> \in Seq(Entry)
  BY <1>5, <1>6, AppendIsConcat, AppendProperties, LengthsOne DEF Squeezed
<1>8. ASSUME SpareFits
      PROVE  /\ segs' \in Dir
             /\ \A t \in 1..Total : /\ segs'[t].next = segs[t].next /\ segs'[t].start = segs[t].start
                                    /\ segs'[t].entries = IF t = 1 THEN Squeezed ELSE segs[t].entries
  <2>1. segs' = WithEntries(segs, 1, Squeezed)
    <3>1. segs' = WithEntries(segs, 1, Append(Perms, Spare))
      BY <1>8 DEF Squeeze, WithEntries, Spare, SpareFits
    <3>2. QED BY <1>7, <3>1
  <2>2. segs \in Dir /\ 1 \in 1..Total /\ Squeezed \in Seq(Entry)
    BY <1>1, <1>7
  <2> DEFINE new == WithEntries(segs, 1, Squeezed)
  <2>3. /\ new \in Dir
        /\ \A t \in 1..Total : /\ new[t].next = segs[t].next /\ new[t].start = segs[t].start
                               /\ new[t].entries = IF t = 1 THEN Squeezed ELSE segs[t].entries
    BY <2>2, EntriesSet
  <2> HIDE DEF new
  <2>4. segs' = new
    BY <2>1 DEF new
  <2>5. QED BY <2>3, <2>4
<1>9. ~SpareFits => segs' = segs
  BY DEF Squeeze, SpareFits
<1>10. QED BY <1>1, <1>2, <1>3, <1>4, <1>5, <1>6, <1>7, <1>8, <1>9

LEMMA SqueezeKeeps ==
  ASSUME Chained, Squeeze
  PROVE  Kept
<1>1. blocks' \in Seq(Block) /\ Len(blocks') = Len(blocks)
  BY SqueezeIs, MovedIs
<1>2. Lengths(Squeezed) = Lengths(segs[1].entries)
  <2>1. Lengths(<<Spare>>) = Spare.len
    BY SqueezeIs, LengthsOne
  <2>2. Lengths(Squeezed) = Lengths(Perms) + Lengths(<<Spare>>)
    BY SqueezeIs, LengthsConcat DEF Squeezed
  <2>3. QED BY <2>1, <2>2, SqueezeIs
<1>3. CASE SpareFits
  <2>1. NoRemainder => FitsAt(Len(Squeezed) + 1)
    <3>1. SUFFICES ASSUME NoRemainder PROVE FitsAt(Len(Squeezed) + 1)
      OBVIOUS
    <3> DEFINE m == Len(Perms) + 1
    <3>2. m \in Nat /\ EntrySize \in Nat /\ At(m) = 10 + (m - 1) * EntrySize /\ At(m) + EntrySize + 2 <= SegBytes
      BY <1>3, SqueezeIs, LayoutAssumption DEF At, SpareFits
    <3> HIDE DEF m
    <3>3. (m - 1) * EntrySize + EntrySize = m * EntrySize /\ (m - 1) * EntrySize \in Int /\ m * EntrySize \in Nat
      BY <3>2
    <3>4. SegBytes \in Nat
      BY LayoutAssumption
    <3>5. 10 + m * EntrySize + 2 <= SegBytes
      <4> DEFINE a == (m - 1) * EntrySize
                 b == m * EntrySize
      <4>1. a \in Int /\ b \in Nat /\ a + EntrySize = b /\ 10 + a + EntrySize + 2 <= SegBytes
        BY <3>2, <3>3
      <4> HIDE DEF a, b
      <4>2. 10 + b + 2 <= SegBytes
        BY <3>2, <3>4, <4>1
      <4>3. QED BY <4>2 DEF b
    <3>6. FitsAt(m + 1)
      BY <3>1, <3>2, <3>5, WordIsEntry
    <3>7. QED BY SqueezeIs, <3>6 DEF m
  <2>2. ASSUME NEW t \in 1..Total
        PROVE  /\ Lengths(segs'[t].entries) = Lengths(segs[t].entries)
               /\ \/ Len(segs'[t].entries) <= Len(segs[t].entries)
                  \/ NoRemainder => FitsAt(Len(segs'[t].entries) + 1)
    <3>1. CASE t = 1
      <4>1. segs'[1].entries = Squeezed
        BY <1>3, SqueezeIs
      <4>2. QED BY <1>2, <2>1, <3>1, <4>1
    <3>2. CASE t # 1
      <4>1. segs'[t].entries = segs[t].entries /\ Len(segs[t].entries) \in Nat
        BY <1>3, <3>2, SqueezeIs, DirIs
      <4>2. QED BY <4>1
    <3>3. QED BY <3>1, <3>2
  <2>3. segs' \in Dir /\ highest' = highest
        /\ \A t \in 1..Total : segs'[t].next = segs[t].next /\ segs'[t].start = segs[t].start
    BY <1>3, SqueezeIs
  <2>4. QED BY <1>1, <2>2, <2>3, LengthsKept
<1>4. CASE ~SpareFits
  <2>1. segs' = segs /\ segs \in Dir /\ highest' = highest
    BY <1>4, SqueezeIs
  <2>2. \A t \in 1..Total : Len(segs'[t].entries) <= Len(segs[t].entries)
    BY <2>1, DirIs
  <2>3. QED BY <1>1, <2>1, <2>2, LengthsKept
<1>5. QED BY <1>3, <1>4

(* A last entry changed changes the sum by its own length.                  *)
LEMMA LastEntryIs ==
  ASSUME NEW es \in Seq(Entry), NEW k, k = Len(es), k # 0, NEW e \in Entry
  PROVE  /\ [es EXCEPT ![k] = e] \in Seq(Entry) /\ Len([es EXCEPT ![k] = e]) = Len(es)
         /\ Lengths([es EXCEPT ![k] = e]) = Lengths(SubSeq(es, 1, k - 1)) + e.len
         /\ Lengths(SubSeq(es, 1, k - 1)) \in Nat
<1> DEFINE before == SubSeq(es, 1, k - 1)
           new == [es EXCEPT ![k] = e]
<1>1. k \in Nat /\ k \in 1..k /\ k - 1 \in 0..k /\ 1 \in 1..k + 1 /\ k - 1 \in Nat
  BY LenProperties
<1>2. before \in Seq(Entry) /\ Len(before) = k - 1 /\ \A i \in 1..k - 1 : before[i] = es[i]
  <2>1. /\ before \in Seq(Entry) /\ Len(before) = ((k - 1) - 1) + 1
        /\ \A i \in 1..((k - 1) - 1) + 1 : before[i] = es[(1 + i) - 1]
    <3>1. 1 \in 1..Len(es) + 1 /\ k - 1 \in 1 - 1..Len(es)
      BY <1>1
    <3>2. QED BY <3>1, PartIs
  <2>2. ((k - 1) - 1) + 1 = k - 1 /\ \A i \in 1..k - 1 : (1 + i) - 1 = i
    BY <1>1
  <2> HIDE DEF before
  <2>3. QED BY <2>1, <2>2
<1>3. new \in Seq(Entry) /\ Len(new) = k /\ \A j \in 1..k : new[j] = IF j = k THEN e ELSE es[j]
  BY <1>1, ExceptSeq
<1> HIDE DEF before, new
<1>4. Lengths(before) \in Nat /\ Lengths(<<e>>) = e.len /\ <<e>> \in Seq(Entry)
  BY <1>2, LengthsNat, LengthsOne
<1>5. Lengths(before \o <<e>>) = Lengths(before) + e.len
  BY <1>2, <1>4, LengthsConcat
<1>6. new = before \o <<e>>
  <2>1. Len(<<e>>) = 1 /\ <<e>>[1] = e
    OBVIOUS
  <2>2. /\ before \o <<e>> \in Seq(Entry) /\ Len(before \o <<e>>) = (k - 1) + 1
        /\ \A i \in 1..(k - 1) + 1 : (before \o <<e>>)[i] = IF i <= k - 1 THEN before[i] ELSE <<e>>[i - (k - 1)]
    BY <1>2, <1>4, <2>1, ConcatProperties
  <2>3. (k - 1) + 1 = k
    BY <1>1
  <2>4. \A i \in 1..k : (before \o <<e>>)[i] = new[i]
    <3>1. TAKE i \in 1..k
    <3>2. CASE i = k
      <4>1. ~(k <= k - 1) /\ k - (k - 1) = 1
        BY <1>1
      <4>2. QED BY <1>1, <1>3, <2>1, <2>2, <2>3, <3>2, <4>1
    <3>3. CASE i # k
      <4>1. i <= k - 1 /\ i \in 1..k - 1
        BY <1>1, <3>3
      <4>2. QED BY <1>2, <1>3, <2>2, <2>3, <3>3, <4>1
    <3>4. QED BY <3>2, <3>3
  <2>5. QED BY <1>3, <2>2, <2>3, <2>4, SeqEqual
<1>7. QED BY <1>3, <1>4, <1>5, <1>6 DEF before, new

(* A call that changes the entries of the chain's last segment, and perhaps *)
(* the volume's size.                                                       *)
LEMMA LastSegmentKept ==
  ASSUME Chained, NEW c, Link(segs, c, highest), Tile(segs, c, highest, Size), NEW es \in Seq(Entry),
         segs' = [segs EXCEPT ![c[highest]].entries = es], highest' = highest, blocks' \in Seq(Block),
         segs[c[highest]].start + Lengths(es) <= Size',
         \/ Len(es) <= Len(segs[c[highest]].entries)
         \/ NoRemainder => FitsAt(Len(es) + 1)
  PROVE  Kept
<1> DEFINE n == highest
           s == c[n]
<1>1. /\ segs \in Dir /\ n \in 1..Total /\ Total \in Nat /\ n \in Nat /\ 1 <= n /\ n \in 1..n
      /\ 1..n \subseteq 1..Total
  BY Facts DEF Chained
<1>2. /\ c \in [1..n -> 1..n] /\ c[1] = 1
      /\ \A i, j \in 1..n : c[i] = c[j] => i = j
      /\ \A i \in 1..n - 1 : segs[c[i]].next = c[i + 1]
      /\ segs[c[n]].next = 0
  BY DEF Link
<1>3. /\ segs[1].start = DataStart
      /\ \A i \in 1..n - 1 : segs[c[i + 1]].start = Ends(segs, c[i])
  BY DEF Tile
<1>4. s \in 1..n /\ s \in 1..Total
  BY <1>1, <1>2
<1>5. segs' = WithEntries(segs, s, es)
  BY DEF WithEntries
<1>6. /\ segs' \in Dir
      /\ \A t \in 1..Total : /\ segs'[t].next = segs[t].next /\ segs'[t].start = segs[t].start
                             /\ segs'[t].entries = IF t = s THEN es ELSE segs[t].entries
  <2>1. segs \in Dir /\ s \in 1..Total /\ es \in Seq(Entry)
    BY <1>1, <1>4
  <2> HIDE DEF s
  <2>2. /\ WithEntries(segs, s, es) \in Dir
        /\ \A t \in 1..Total : /\ WithEntries(segs, s, es)[t].next = segs[t].next
                               /\ WithEntries(segs, s, es)[t].start = segs[t].start
                               /\ WithEntries(segs, s, es)[t].entries = IF t = s THEN es ELSE segs[t].entries
    BY <2>1, EntriesSet
  <2>3. QED BY <1>5, <2>2, Zenon
<1>7. \A i \in 1..n - 1 : i \in 1..n /\ i + 1 \in 1..n /\ c[i] \in 1..Total /\ c[i + 1] \in 1..Total /\ c[i] # s
  <2>1. TAKE i \in 1..n - 1
  <2>2. i \in 1..n /\ i + 1 \in 1..n /\ i # n
    BY <1>1
  <2>3. QED BY <1>1, <1>2, <2>2
<1>8. Link(segs', c, n)
  <2>1. \A i \in 1..n - 1 : segs'[c[i]].next = c[i + 1]
    BY <1>2, <1>6, <1>7
  <2>2. segs'[c[n]].next = 0
    BY <1>2, <1>4, <1>6
  <2>3. QED BY <1>2, <2>1, <2>2 DEF Link
<1> HIDE DEF s
<1>9. Tile(segs', c, n, Size')
  <2>1. segs'[1].start = DataStart
    BY <1>1, <1>3, <1>6
  <2>2. \A i \in 1..n - 1 : segs'[c[i + 1]].start = Ends(segs', c[i])
    BY <1>3, <1>6, <1>7 DEF Ends
  <2>3. segs'[s].start = segs[s].start /\ segs'[s].entries = es
    BY <1>4, <1>6
  <2>4. Ends(segs', c[n]) <= Size'
    BY <2>3 DEF Ends, s
  <2>5. QED BY <2>1, <2>2, <2>4 DEF Tile
<1>10. Chained'
  <2>1. highest' \in 1..Total /\ Link(segs', c, highest') /\ Tile(segs', c, highest', Size')
    BY <1>1, <1>8, <1>9
  <2>2. QED BY <1>6, <2>1 DEF Chained
<1>11. ASSUME NoRemainder, Fits(segs, n) PROVE Fits(segs', highest')
  <2>1. SUFFICES ASSUME NEW t \in 1..n PROVE FitsAt(Len(segs'[t].entries) + 1)
    BY DEF Fits
  <2>2. t \in 1..Total /\ FitsAt(Len(segs[t].entries) + 1) /\ Len(segs[t].entries) \in Nat
    BY <1>1, <1>11, DirIs DEF Fits
  <2>3. CASE t # s
    BY <1>6, <2>2, <2>3
  <2>4. CASE t = s
    <3>1. segs'[t].entries = es /\ Len(es) \in Nat
      BY <1>6, <2>2, <2>4, LenProperties
    <3>2. CASE NoRemainder => FitsAt(Len(es) + 1)
      BY <1>11, <3>1, <3>2
    <3>3. CASE Len(es) <= Len(segs[t].entries)
      BY <2>2, <3>1, <3>3, FewerFit
    <3>4. QED BY <2>4, <3>2, <3>3 DEF s
  <2>5. QED BY <2>3, <2>4
<1>12. QED BY <1>10, <1>11 DEF Kept

(* The last entry of the chain's last segment with another length.          *)
LEMMA LastLengthKept ==
  ASSUME Chained, NEW c, Link(segs, c, highest), Tile(segs, c, highest, Size),
         NEW k, k = Len(segs[c[highest]].entries), k # 0, NEW len \in Nat,
         segs' = [segs EXCEPT ![c[highest]].entries[k].len = len], highest' = highest, blocks' \in Seq(Block),
         StartOf(segs[c[highest]], k) + len <= Size'
  PROVE  Kept
<1> DEFINE s == c[highest]
           es == segs[s].entries
           e == [es[k] EXCEPT !.len = len]
           new == [es EXCEPT ![k] = e]
<1>1. segs \in Dir /\ s \in 1..Total
  BY Facts DEF Chained, Link
<1> HIDE DEF s
<1>2. es \in Seq(Entry) /\ Len(es) \in Nat /\ segs[s].start \in Nat /\ k = Len(es)
  BY <1>1, DirIs DEF s
<1>3. k \in 1..Len(es)
  BY <1>2
<1>4. es[k] \in Entry
  BY <1>2, <1>3, ElementOfSeq
<1>5. e \in Entry /\ e.len = len
  <2> DEFINE old == es[k]
  <2>1. old \in Entry
    BY <1>4
  <2> HIDE DEF old
  <2>2. [old EXCEPT !.len = len] \in Entry /\ [old EXCEPT !.len = len].len = len
    BY <2>1 DEF Entry
  <2>3. QED BY <2>2 DEF old
<1>6. segs' = [segs EXCEPT ![s].entries = new]
  BY DEF s
<1>7. StartOf(segs[s], k) = segs[s].start + Lengths(SubSeq(es, 1, k - 1))
  BY DEF StartOf
<1> HIDE DEF e, es
<1>8. /\ new \in Seq(Entry) /\ Len(new) = Len(es) /\ Lengths(new) = Lengths(SubSeq(es, 1, k - 1)) + e.len
      /\ Lengths(SubSeq(es, 1, k - 1)) \in Nat
  BY <1>2, <1>5, LastEntryIs
<1> HIDE DEF new
<1>9. segs[s].start + Lengths(new) <= Size'
  <2>1. StartOf(segs[s], k) + len <= Size'
    BY DEF s
  <2>2. segs[s].start + Lengths(new) = StartOf(segs[s], k) + len
    BY <1>2, <1>5, <1>7, <1>8
  <2>3. QED BY <2>1, <2>2
<1>10. Len(new) <= Len(segs[s].entries)
  BY <1>2, <1>8 DEF es
<1>11. QED BY <1>6, <1>8, <1>9, <1>10, LastSegmentKept DEF s

(* Where a segment's last entry begins and its areas end.                   *)
LEMMA LastStartIs ==
  ASSUME NEW seg \in Segment, NEW k, k = Len(seg.entries), k # 0
  PROVE  /\ seg.entries \in Seq(Entry) /\ seg.entries[k] \in Entry /\ StartOf(seg, k) \in Nat
         /\ StartOf(seg, k) + seg.entries[k].len = seg.start + Lengths(seg.entries)
<1> DEFINE es == seg.entries
           e == es[k]
<1>1. es \in Seq(Entry) /\ seg.start \in Nat /\ k = Len(es)
  BY DEF Segment
<1> HIDE DEF es
<1>2. k \in Nat /\ k \in 1..Len(es)
  BY <1>1, LenProperties
<1>3. e \in Entry
  BY <1>1, <1>2, ElementOfSeq
<1>4. [es EXCEPT ![k] = e] = es
  <2>1. /\ [es EXCEPT ![k] = e] \in Seq(Entry) /\ Len([es EXCEPT ![k] = e]) = Len(es)
        /\ \A j \in 1..Len(es) : [es EXCEPT ![k] = e][j] = IF j = k THEN e ELSE es[j]
    BY <1>1, <1>2, <1>3, ExceptSeq
  <2>2. \A j \in 1..Len(es) : [es EXCEPT ![k] = e][j] = es[j]
    BY <2>1
  <2>3. QED BY <1>1, <2>1, <2>2, SeqEqual
<1> HIDE DEF e
<1>5. /\ Lengths([es EXCEPT ![k] = e]) = Lengths(SubSeq(es, 1, k - 1)) + e.len
      /\ Lengths(SubSeq(es, 1, k - 1)) \in Nat
  BY <1>1, <1>2, <1>3, LastEntryIs
<1>6. StartOf(seg, k) = seg.start + Lengths(SubSeq(es, 1, k - 1))
  BY DEF StartOf, es
<1>7. e.len \in Nat
  BY <1>3 DEF Entry
<1>8. StartOf(seg, k) \in Nat /\ StartOf(seg, k) + e.len = seg.start + Lengths(es)
  <2>1. Lengths(es) = Lengths(SubSeq(es, 1, k - 1)) + e.len
    BY <1>4, <1>5
  <2> DEFINE before == Lengths(SubSeq(es, 1, k - 1))
             all == Lengths(es)
             begin == seg.start
             here == StartOf(seg, k)
             own == e.len
  <2>2. all = before + own /\ before \in Nat /\ begin \in Nat /\ own \in Nat /\ here = begin + before
    BY <1>1, <1>5, <1>6, <1>7, <2>1
  <2> HIDE DEF before, all, begin, here, own
  <2>3. here \in Nat /\ here + own = begin + all
    BY <2>2
  <2>4. QED BY <2>3 DEF here, own, begin, all
<1>9. QED BY <1>1, <1>3, <1>8 DEF e, es

LEMMA GrownBlocks ==
  ASSUME blocks \in Seq(Block), NEW n \in Nat, blocks' = blocks \o [i \in 1..n |-> Zero]
  PROVE  blocks' \in Seq(Block) /\ Len(blocks') = Len(blocks) + n /\ Len(blocks) <= Len(blocks')
         /\ \A i \in 1..Len(blocks) : blocks'[i] = blocks[i]
<1> DEFINE more == [i \in 1..n |-> Zero]
<1>1. blocks' = blocks \o more /\ Len(blocks) \in Nat
  BY LenProperties
<1>2. more \in Seq(Block) /\ Len(more) = n
  BY LayoutAssumption
<1> HIDE DEF more
<1>3. /\ blocks \o more \in Seq(Block) /\ Len(blocks \o more) = Len(blocks) + Len(more)
      /\ \A i \in 1..Len(blocks) + Len(more) :
           (blocks \o more)[i] = IF i <= Len(blocks) THEN blocks[i] ELSE more[i - Len(blocks)]
  BY <1>2, ConcatProperties
<1> DEFINE b == blocks \o more
<1> HIDE DEF b
<1>4. b \in Seq(Block) /\ Len(b) = Len(blocks) + n
      /\ \A i \in 1..Len(blocks) + n : b[i] = IF i <= Len(blocks) THEN blocks[i] ELSE more[i - Len(blocks)]
  BY <1>2, <1>3 DEF b
<1>5. blocks' = b
  BY <1>1 DEF b
<1>6. Len(blocks) <= Len(b) /\ \A i \in 1..Len(blocks) : i \in 1..Len(blocks) + n /\ i <= Len(blocks)
  BY <1>1, <1>4
<1>7. QED BY <1>4, <1>5, <1>6

(* The last segment of the chain, and what growLinear does there: an unused *)
(* area at its end grows, or one is put after its last file; and the length *)
(* endFreeSpaceAt gives that area.                                          *)
LastSeg == Chain[Len(Chain)]
LastEs == segs[LastSeg].entries
Widens == LastEs # <<>> /\ ~LastEs[Len(LastEs)].file
Widened(n) == LastEs[Len(LastEs)].len + n
Longer(n) == LastEs \o <<Free(n)>>
Ended(lbn) == lbn - StartOf(segs[LastSeg], Len(LastEs))
Resized(s, k, len) == [segs EXCEPT ![s].entries[k].len = len]

LEMMA LastSegIs ==
  ASSUME NEW c, Link(segs, c, highest), highest \in 1..highest, 1..highest \subseteq 1..Total
  PROVE  c[highest] = LastSeg /\ LastSeg \in 1..highest /\ LastSeg \in 1..Total
<1>1. highest \in 1..Total
  OBVIOUS
<1>2. c[highest] = LastSeg
  BY <1>1, ChainIs DEF LastSeg
<1>3. c \in [1..highest -> 1..highest]
  BY DEF Link
<1>4. QED BY <1>2, <1>3

LEMMA GrowLinearIs ==
  ASSUME Chained, NEW n \in Growths, GrowLinear(n)
  PROVE  /\ n \in Nat /\ segs \in Dir /\ highest' = highest /\ asked' = NoRequest /\ deleted' = deleted
         /\ LastSeg \in 1..highest /\ LastSeg \in 1..Total
         /\ \E c : Link(segs, c, highest) /\ Tile(segs, c, highest, Size) /\ c[highest] = LastSeg
         /\ blocks' \in Seq(Block) /\ Len(blocks') = Len(blocks) + n /\ Len(blocks) <= Len(blocks')
         /\ \A i \in 1..Len(blocks) : blocks'[i] = blocks[i]
         /\ segs[LastSeg] \in Segment /\ LastEs \in Seq(Entry) /\ Len(LastEs) \in Nat /\ Lengths(LastEs) \in Nat
         /\ Free(n) \in Entry /\ Free(n).len = n /\ ~Free(n).file /\ Free(n).name = NoName
         /\ <<Free(n)>> \in Seq(Entry) /\ Longer(n) \in Seq(Entry) /\ Longer(n) = Append(LastEs, Free(n))
         /\ Widens => /\ Len(LastEs) # 0 /\ Len(LastEs) \in 1..Len(LastEs) /\ Widened(n) \in Nat
                      /\ segs' = Resized(LastSeg, Len(LastEs), Widened(n))
         /\ ~Widens => /\ segs' = WithEntries(segs, LastSeg, Longer(n))
                       /\ At(Len(LastEs) + 1) + EntrySize + 2 <= SegBytes
<1>1. PICK c : Link(segs, c, highest) /\ Tile(segs, c, highest, Size)
  BY DEF Chained
<1>2. segs \in Dir /\ blocks \in Seq(Block) /\ n \in Nat /\ highest \in 1..highest /\ 1..highest \subseteq 1..Total
  BY Facts, LayoutAssumption DEF Chained
<1>3. c[highest] = LastSeg /\ LastSeg \in 1..highest /\ LastSeg \in 1..Total
  BY <1>1, <1>2, LastSegIs
<1>4. segs[LastSeg] \in Segment /\ LastEs \in Seq(Entry) /\ Len(LastEs) \in Nat /\ Lengths(LastEs) \in Nat
  BY <1>2, <1>3, DirIs DEF LastEs
<1>5. /\ IF Widens THEN segs' = [segs EXCEPT ![LastSeg].entries[Len(LastEs)].len = @ + n]
                   ELSE /\ At(Len(LastEs) + 1) + EntrySize + 2 <= SegBytes
                        /\ segs' = [segs EXCEPT ![LastSeg].entries = Append(@, Free(n))]
      /\ highest' = highest /\ asked' = NoRequest /\ deleted' = deleted
      /\ blocks' = blocks \o [i \in 1..n |-> Zero]
  BY DEF GrowLinear, LastSeg, LastEs, Widens
<1>6. /\ blocks' \in Seq(Block) /\ Len(blocks') = Len(blocks) + n /\ Len(blocks) <= Len(blocks')
      /\ \A i \in 1..Len(blocks) : blocks'[i] = blocks[i]
  BY <1>2, <1>5, GrownBlocks
<1>7. Free(n) \in Entry /\ Free(n).len = n /\ ~Free(n).file /\ Free(n).name = NoName
  BY <1>2 DEF Free, Area, Entry
<1>8. <<Free(n)>> \in Seq(Entry) /\ Longer(n) \in Seq(Entry) /\ Longer(n) = Append(LastEs, Free(n))
  <2> DEFINE area == Free(n)
  <2>1. area \in Entry
    BY <1>7
  <2> HIDE DEF area
  <2>2. <<area>> \in Seq(Entry) /\ Append(LastEs, area) = LastEs \o <<area>> /\ Append(LastEs, area) \in Seq(Entry)
    BY <1>4, <2>1, LengthsOne, AppendIsConcat, AppendProperties
  <2>3. QED BY <2>2 DEF area, Longer
<1>9. ASSUME Widens
      PROVE  /\ Len(LastEs) # 0 /\ Len(LastEs) \in 1..Len(LastEs) /\ Widened(n) \in Nat
             /\ segs' = Resized(LastSeg, Len(LastEs), Widened(n))
  <2>1. Len(LastEs) # 0 /\ Len(LastEs) \in 1..Len(LastEs)
    BY <1>4, <1>9, EmptySeq DEF Widens
  <2>2. LastEs[Len(LastEs)] \in Entry
    BY <1>4, <2>1, ElementOfSeq
  <2> DEFINE old == LastEs[Len(LastEs)].len
  <2>3. old \in Nat
    BY <2>2 DEF Entry
  <2>4. segs' = [segs EXCEPT ![LastSeg].entries[Len(LastEs)].len = old + n]
    BY <1>5, <1>9 DEF LastEs
  <2> HIDE DEF old
  <2>5. old + n \in Nat
    BY <1>2, <2>3
  <2>6. QED BY <2>1, <2>4, <2>5 DEF Resized, Widened, old
<1>10. ASSUME ~Widens
       PROVE  /\ segs' = WithEntries(segs, LastSeg, Longer(n))
              /\ At(Len(LastEs) + 1) + EntrySize + 2 <= SegBytes
  <2>1. segs' = WithEntries(segs, LastSeg, Append(LastEs, Free(n)))
    BY <1>5, <1>10 DEF WithEntries, LastEs
  <2>2. QED BY <1>5, <1>8, <1>10, <2>1
<1>11. QED BY <1>1, <1>2, <1>3, <1>4, <1>5, <1>6, <1>7, <1>8, <1>9, <1>10

LEMMA GrowLinearKeeps ==
  ASSUME Chained, NEW n \in Growths, GrowLinear(n)
  PROVE  Kept
<1> DEFINE seg == segs[LastSeg]
           k == Len(LastEs)
<1>1. PICK c : Link(segs, c, highest) /\ Tile(segs, c, highest, Size) /\ c[highest] = LastSeg
  BY GrowLinearIs
<1>2. /\ n \in Nat /\ k \in Nat /\ LastEs \in Seq(Entry) /\ seg \in Segment /\ seg.entries = LastEs
      /\ highest' = highest /\ blocks' \in Seq(Block)
  BY GrowLinearIs DEF LastEs
<1>3. Size' = Size + n /\ Size \in Nat
  BY GrowLinearIs, Facts DEF Chained, Size
<1>4. seg.start \in Nat /\ seg.start + Lengths(LastEs) <= Size /\ Lengths(LastEs) \in Nat
  <2>1. Ends(segs, c[highest]) <= Size
    BY <1>1, SMTT(30) DEF Tile
  <2>2. QED BY <1>1, <1>2, <2>1, GrowLinearIs DEF Ends, Segment
<1> HIDE DEF k
<1>5. CASE Widens
  <2> DEFINE old == LastEs[k].len
             here == StartOf(seg, k)
             end == seg.start + Lengths(LastEs)
  <2>1. k # 0 /\ k = Len(seg.entries) /\ Widened(n) \in Nat /\ Widened(n) = old + n
        /\ segs' = [segs EXCEPT ![c[highest]].entries[k].len = Widened(n)]
    BY <1>1, <1>2, <1>5, GrowLinearIs DEF k, Resized, Widened
  <2>2. LastEs[k] \in Entry /\ here \in Nat /\ here + old = end
    BY <1>2, <2>1, LastStartIs
  <2>3. old \in Nat /\ end <= Size
    BY <1>4, <2>2 DEF Entry
  <2> HIDE DEF old, here, end
  <2>4. here + Widened(n) <= Size'
    BY <1>2, <1>3, <2>1, <2>2, <2>3
  <2>5. k = Len(segs[c[highest]].entries) /\ StartOf(segs[c[highest]], k) + Widened(n) <= Size'
    BY <1>1, <2>1, <2>4 DEF here
  <2>6. QED BY <1>1, <1>2, <2>1, <2>5, LastLengthKept, ZenonT(40)
<1>6. CASE ~Widens
  <2>1. /\ At(k + 1) + EntrySize + 2 <= SegBytes /\ Longer(n) \in Seq(Entry) /\ Len(Longer(n)) = k + 1
        /\ segs' = [segs EXCEPT ![c[highest]].entries = Longer(n)]
    BY <1>1, <1>2, <1>6, GrowLinearIs, AppendProperties DEF k, WithEntries
  <2>2. Lengths(Longer(n)) = Lengths(LastEs) + n
    <3>1. Lengths(<<Free(n)>>) = n
      BY GrowLinearIs, LengthsOne
    <3>2. Lengths(Longer(n)) = Lengths(LastEs) + Lengths(<<Free(n)>>)
      BY GrowLinearIs, LengthsConcat DEF Longer
    <3>3. QED BY <3>1, <3>2
  <2>3. segs[c[highest]].start + Lengths(Longer(n)) <= Size'
    <3> HIDE DEF seg
    <3>1. seg.start + Lengths(Longer(n)) <= Size'
      BY <1>2, <1>3, <1>4, <2>2
    <3>2. QED BY <1>1, <3>1 DEF seg
  <2>4. NoRemainder => FitsAt(Len(Longer(n)) + 1)
    <3>1. SUFFICES ASSUME NoRemainder PROVE FitsAt((k + 1) + 1)
      BY <2>1
    <3>2. At(k + 1) = 10 + k * EntrySize /\ k * EntrySize \in Nat /\ (k + 1) * EntrySize = k * EntrySize + EntrySize
      <4>1. (k + 1) - 1 = k /\ EntrySize \in Nat
        BY <1>2, LayoutAssumption
      <4>2. At(k + 1) = 10 + k * EntrySize
        BY <4>1 DEF At
      <4>3. k * EntrySize \in Nat /\ (k + 1) * EntrySize = k * EntrySize + EntrySize
        BY <1>2, <4>1
      <4>4. QED BY <4>2, <4>3
    <3>3. 10 + (k + 1) * EntrySize + 2 <= SegBytes
      <4> DEFINE a == k * EntrySize
                 b == (k + 1) * EntrySize
      <4>1. a \in Nat /\ b = a + EntrySize /\ 10 + a + EntrySize + 2 <= SegBytes
        BY <2>1, <3>2
      <4>2. EntrySize \in Nat /\ SegBytes \in Nat
        BY LayoutAssumption
      <4> HIDE DEF a, b
      <4>3. 10 + b + 2 <= SegBytes
        BY <4>1, <4>2
      <4>4. QED BY <4>3 DEF b
    <3>4. k + 1 \in Nat
      BY <1>2, SMTT(30)
    <3>5. QED BY <3>1, <3>3, <3>4, WordIsEntry
  <2>5. QED BY <1>1, <1>2, <2>1, <2>3, <2>4, LastSegmentKept
<1>7. QED BY <1>5, <1>6

LEMMA EndFreeSpaceAtIs ==
  ASSUME Chained, NEW lbn \in Fences, EndFreeSpaceAt(lbn)
  PROVE  /\ LastSeg \in 1..highest /\ highest' = highest /\ asked' = NoRequest /\ deleted' = deleted
         /\ \E c : Link(segs, c, highest) /\ Tile(segs, c, highest, Size) /\ c[highest] = LastSeg
         /\ blocks' \in Seq(Block) /\ Len(blocks) <= Len(blocks') /\ \A i \in 1..Len(blocks) : blocks'[i] = blocks[i]
         /\ Len(LastEs) # 0 /\ Len(LastEs) \in 1..Len(LastEs) /\ ~LastEs[Len(LastEs)].file /\ Ended(lbn) \in Nat
         /\ segs' = Resized(LastSeg, Len(LastEs), Ended(lbn))
         /\ StartOf(segs[LastSeg], Len(LastEs)) + Ended(lbn) <= Size'
<1> DEFINE s == LastSeg
           k == Len(LastEs)
           start == StartOf(segs[s], k)
           own == LastEs[k].len
           end == segs[s].start + Lengths(LastEs)
           len == Ended(lbn)
<1>1. PICK c : Link(segs, c, highest) /\ Tile(segs, c, highest, Size)
  BY DEF Chained
<1>2. /\ segs \in Dir /\ blocks \in Seq(Block) /\ Len(blocks) \in Nat /\ Size \in Nat
      /\ highest \in 1..highest /\ 1..highest \subseteq 1..Total
  BY Facts DEF Chained
<1>3. c[highest] = s /\ s \in 1..highest /\ s \in 1..Total
  BY <1>1, <1>2, LastSegIs
<1>4. /\ k # 0 /\ ~LastEs[k].file /\ CanEnd(start, own, lbn)
      /\ segs' = Resized(s, k, len)
      /\ highest' = highest /\ blocks' = blocks /\ asked' = NoRequest /\ deleted' = deleted
  BY DEF EndFreeSpaceAt, LastSeg, LastEs, Resized, Ended
<1>5. segs[s] \in Segment /\ k \in Nat /\ segs[s].entries = LastEs /\ k = Len(segs[s].entries)
  BY <1>2, <1>3, DirIs DEF LastEs
<1>6. end <= Size
  BY <1>1, <1>3 DEF Tile, Ends, LastEs
<1> HIDE DEF s, k
<1>7. LastEs[k] \in Entry /\ start \in Nat /\ start + own = end
  BY <1>4, <1>5, LastStartIs
<1>8. own \in Nat /\ len = lbn - start
  BY <1>7 DEF Entry, Ended, s, k
<1> HIDE DEF start, own, end, len
<1>9. len \in Nat /\ start + len <= Size
  BY <1>2, <1>4, <1>6, <1>7, <1>8 DEF CanEnd
<1>10. Size' = Size /\ Len(blocks) <= Len(blocks')
  BY <1>2, <1>4 DEF Size
<1>11. k \in 1..k
  BY <1>4, <1>5
<1>12. QED BY <1>1, <1>2, <1>3, <1>4, <1>9, <1>10, <1>11 DEF s, k, start, len

LEMMA EndFreeSpaceAtKeeps ==
  ASSUME Chained, NEW lbn \in Fences, EndFreeSpaceAt(lbn)
  PROVE  Kept
<1> DEFINE k == Len(LastEs)
<1>1. PICK c : Link(segs, c, highest) /\ Tile(segs, c, highest, Size) /\ c[highest] = LastSeg
  BY EndFreeSpaceAtIs
<1>2. /\ k = Len(segs[c[highest]].entries) /\ k # 0 /\ Ended(lbn) \in Nat /\ highest' = highest /\ blocks' \in Seq(Block)
      /\ segs' = [segs EXCEPT ![c[highest]].entries[k].len = Ended(lbn)]
      /\ StartOf(segs[c[highest]], k) + Ended(lbn) <= Size'
  BY <1>1, EndFreeSpaceAtIs DEF LastEs, Resized
<1> HIDE DEF k
<1>3. QED BY <1>1, <1>2, LastLengthKept

(* What initVolume writes, whatever the number of blocks.                   *)
LEMMA FreshIs ==
  ASSUME NEW n \in Nat, NEW size, size = DataStart + n
  PROVE  /\ Fresh(n) \in Dir /\ 1 \in 1..Total
         /\ \E c : Link(Fresh(n), c, 1) /\ Tile(Fresh(n), c, 1, size)
         /\ Fits(Fresh(n), 1)
<1> DEFINE c == [i \in 1..1 |-> 1]
           area == Free(n)
<1>1. Total \in Nat /\ 1 \in 1..Total /\ EntrySize \in Nat /\ SegBytes \in Nat /\ 10 + 3 * EntrySize <= SegBytes
  BY LayoutAssumption
<1>2. DataStart \in Nat
  BY <1>1 DEF DataStart
<1>3. area \in Entry /\ area.len = n
  BY DEF Free, Area, Entry
<1>4. Fresh(n) = [s \in 1..Total |-> IF s = 1 THEN [next |-> 0, start |-> DataStart, entries |-> <<area>>] ELSE Blank]
  BY DEF Fresh
<1> HIDE DEF area
<1>5. <<area>> \in Seq(Entry) /\ Lengths(<<area>>) = n /\ Len(<<area>>) = 1 /\ <<>> \in Seq(Entry)
  BY <1>3, LengthsOne, EmptySeq
<1>6. Blank \in Segment
  BY <1>1, <1>5 DEF Blank, Segment
<1> DEFINE first == [next |-> 0, start |-> DataStart, entries |-> <<area>>]
<1>7. first \in Segment
  BY <1>1, <1>2, <1>5 DEF Segment
<1>8. Fresh(n) \in Dir
  <2> HIDE DEF first
  <2>1. Fresh(n) = [s \in 1..Total |-> IF s = 1 THEN first ELSE Blank]
    BY <1>4 DEF first
  <2>2. QED BY <1>6, <1>7, <2>1 DEF Dir
<1>9. Fresh(n)[1].next = 0 /\ Fresh(n)[1].start = DataStart /\ Fresh(n)[1].entries = <<area>>
  BY <1>1, <1>4
<1>10. Link(Fresh(n), c, 1)
  BY <1>9 DEF Link
<1>11. Tile(Fresh(n), c, 1, size)
  <2>1. Ends(Fresh(n), 1) = DataStart + n
    BY <1>5, <1>9 DEF Ends
  <2>2. c[1] = 1 /\ (1..1 - 1) = {}
    OBVIOUS
  <2>3. QED BY <1>2, <1>9, <2>1, <2>2 DEF Tile
<1>12. Fits(Fresh(n), 1)
  <2>1. FitsAt(1 + 1)
    BY <1>1 DEF FitsAt, At
  <2>2. 1..1 = {1}
    OBVIOUS
  <2>3. QED BY <1>5, <1>9, <2>1, <2>2 DEF Fits
<1>13. QED BY <1>1, <1>8, <1>10, <1>11, <1>12

LEMMA InitVolumeKeeps ==
  ASSUME Chained, InitVolume
  PROVE  Kept
<1>1. segs' = Fresh(Len(blocks)) /\ highest' = 1 /\ blocks' = blocks
  BY DEF InitVolume
<1>2. Len(blocks) \in Nat /\ blocks \in Seq(Block)
  BY Facts DEF Chained
<1>3. Size' = DataStart + Len(blocks)
  BY <1>1 DEF Size
<1>4. /\ segs' \in Dir /\ 1 \in 1..Total /\ Fits(segs', 1)
      /\ \E c : Link(segs', c, 1) /\ Tile(segs', c, 1, Size')
  BY <1>1, <1>2, <1>3, FreshIs
<1>5. Chained'
  BY <1>1, <1>2, <1>4 DEF Chained
<1>6. QED BY <1>1, <1>4, <1>5 DEF Kept

LEMMA InitHolds ==
  ASSUME Init
  PROVE  Chained /\ Fits(segs, highest)
<1>1. segs = Fresh(DataBlocks) /\ highest = 1 /\ blocks = [b \in 1..DataBlocks |-> Zero]
  BY DEF Init
<1>2. DataBlocks \in Nat /\ Zero \in Block
  BY LayoutAssumption
<1>3. blocks \in Seq(Block) /\ Len(blocks) = DataBlocks
  BY <1>1, <1>2
<1>4. Size = DataStart + DataBlocks
  BY <1>3 DEF Size
<1>5. /\ segs \in Dir /\ 1 \in 1..Total /\ Fits(segs, 1)
      /\ \E c : Link(segs, c, 1) /\ Tile(segs, c, 1, Size)
  BY <1>1, <1>2, <1>4, FreshIs
<1>6. QED BY <1>1, <1>3, <1>5 DEF Chained

(* Every call keeps the chain and, where it was there, the room for a       *)
(* marker.                                                                  *)
LEMMA NextKeeps ==
  ASSUME Chained, [Next]_vars
  PROVE  Kept
<1>1. ASSUME NEW n \in Names, NEW data \in Contents, NEW prot \in PutAs, PutFile(n, data, prot) PROVE Kept
  BY <1>1, PutFileKeeps
<1>2. ASSUME NEW n \in Names, RemoveFile(n) PROVE Kept
  BY <1>2, RemoveFileKeeps
<1>3. ASSUME NEW n \in Names, NEW to \in Names, RenameFile(n, to) PROVE Kept
  BY <1>3, RenameFileKeeps
<1>4. ASSUME NEW n \in Names, NEW on \in BOOLEAN, SetProtected(n, on) PROVE Kept
  BY <1>4, SetProtectedKeeps
<1>5. ASSUME NEW k \in DOMAIN segs[1].entries, NEW new \in Names \cup {NoName}, UndeleteEntry(k, new) PROVE Kept
  BY <1>5, UndeleteEntryKeeps
<1>6. ASSUME Squeeze PROVE Kept
  BY <1>6, SqueezeKeeps
<1>7. ASSUME NEW n \in Growths, GrowLinear(n) PROVE Kept
  BY <1>7, GrowLinearKeeps
<1>8. ASSUME NEW lbn \in Fences, EndFreeSpaceAt(lbn) PROVE Kept
  BY <1>8, EndFreeSpaceAtKeeps
<1>9. ASSUME InitVolume PROVE Kept
  BY <1>9, InitVolumeKeeps
<1>10. ASSUME UNCHANGED vars PROVE Kept
  <2>1. segs' = segs /\ highest' = highest /\ blocks' = blocks
    BY <1>10 DEF vars
  <2>2. \A t \in 1..Total : Len(segs[t].entries) \in Nat
    BY DirIs DEF Chained
  <2>3. /\ segs' \in Dir /\ blocks' \in Seq(Block) /\ Len(blocks') = Len(blocks)
        /\ \A t \in 1..Total :
             /\ segs'[t].next = segs[t].next /\ segs'[t].start = segs[t].start
             /\ Lengths(segs'[t].entries) = Lengths(segs[t].entries)
             /\ Len(segs'[t].entries) <= Len(segs[t].entries)
    BY <2>1, <2>2 DEF Chained
  <2>4. QED BY <2>1, <2>3, LengthsKept
<1>11. QED BY <1>1, <1>2, <1>3, <1>4, <1>5, <1>6, <1>7, <1>8, <1>9, <1>10 DEF Next

LEMMA AlwaysChained == Spec => []Chained
<1>1. Init => Chained
  BY InitHolds
<1>2. Chained /\ [Next]_vars => Chained'
  BY NextKeeps DEF Kept
<1>3. QED BY <1>1, <1>2, PTL DEF Spec

LEMMA ChainedTiles == Chained => Tiled
<1>1. SUFFICES ASSUME Chained PROVE Tiled
  OBVIOUS
<1>2. PICK c : Link(segs, c, highest) /\ Tile(segs, c, highest, Size)
  BY <1>1 DEF Chained
<1>3. highest \in 1..Total /\ segs \in [1..Total -> Segment]
  BY <1>1 DEF Chained, Dir
<1>4. Chain = c /\ Len(Chain) = highest
  BY <1>2, <1>3, ChainIs
<1>5. /\ segs[1].start = DataStart
      /\ \A i \in 1..highest - 1 : segs[c[i + 1]].start = segs[c[i]].start + Lengths(segs[c[i]].entries)
      /\ segs[c[highest]].start + Lengths(segs[c[highest]].entries) <= Size
  BY <1>2 DEF Tile, Ends
<1>6. QED BY <1>3, <1>4, <1>5 DEF Tiled

(* Whatever is put, removed, squeezed or grown, the entries of the chain    *)
(* tile the volume: no two files share a block and none runs past the       *)
(* image.                                                                   *)
THEOREM VolumeTiled == Spec => []Tiled
<1>1. QED BY AlwaysChained, ChainedTiles, PTL

(* When a segment's entries, packed from byte 10, leave less than the word  *)
(* an end marker takes, what the writers leave the parser reads.  Of other  *)
(* sizes of entry it is not so: fits, which the writers ask, wants a word,  *)
(* parseSegment a whole entry.                                              *)
THEOREM VolumeReadsBack ==
  ASSUME NoRemainder
  PROVE  Spec => []ReadsBack
<1> DEFINE Inv == Chained /\ Fits(segs, highest)
<1>1. Init => Inv
  BY InitHolds
<1>2. Inv /\ [Next]_vars => Inv'
  BY NextKeeps, NoRemainder DEF Kept
<1>3. Inv => ReadsBack
  <2>1. SUFFICES ASSUME Inv, NEW i \in DOMAIN Chain PROVE Parses(Chain[i])
    BY DEF ReadsBack
  <2>2. PICK c : Link(segs, c, highest)
    BY <2>1 DEF Chained
  <2>3. highest \in 1..Total
    BY <2>1 DEF Chained
  <2>4. Chain = c /\ DOMAIN Chain = 1..highest
    BY <2>2, <2>3, ChainIs
  <2>5. Chain[i] \in 1..highest
    BY <2>1, <2>2, <2>4 DEF Link
  <2>6. QED BY <2>1, <2>5 DEF Fits, Parses
<1>4. QED BY <1>1, <1>2, <1>3, PTL DEF Spec

------------------------------------
(* Names, in a directory the parser reads to its end.                       *)

(* Every segment in use has a place in the chain.                           *)
LEMMA ChainOnto ==
  ASSUME NEW n \in Nat, NEW dir, NEW c, Link(dir, c, n), NEW s \in 1..n
  PROVE  \E i \in 1..n : c[i] = s
<1> DEFINE U == 1..n
<1>1. c \in [U -> U] /\ \A i, j \in U : c[i] = c[j] => i = j
  BY DEF Link
<1>2. IsFiniteSet(U)
  BY FS_Interval
<1> HIDE DEF U
<1>3. c \in Injection(U, U)
  BY <1>1 DEF Injection, IsInjective
<1>4. c \in Surjection(U, U)
  BY <1>2, <1>3, FS_Injection
<1>5. \A t \in U : \E i \in U : c[i] = t
  BY <1>4 DEF Surjection
<1>6. QED BY <1>5 DEF U

(* What the parser reads to its end has room for a marker everywhere.       *)
LEMMA ReadsBackFits ==
  ASSUME Chained, ReadsBack
  PROVE  Fits(segs, highest)
<1>1. SUFFICES ASSUME NEW s \in 1..highest PROVE FitsAt(Len(segs[s].entries) + 1)
  BY DEF Fits
<1>2. PICK c : Link(segs, c, highest)
  BY DEF Chained
<1>3. highest \in 1..Total /\ highest \in Nat
  BY Facts DEF Chained
<1>4. Chain = c /\ DOMAIN Chain = 1..highest
  BY <1>2, <1>3, ChainIs
<1>5. PICK i \in 1..highest : c[i] = s
  BY <1>2, <1>3, ChainOnto
<1>6. Parses(Chain[i])
  BY <1>4, <1>5 DEF ReadsBack
<1>7. QED BY <1>4, <1>5, <1>6 DEF Parses

LEMMA ReportedAll ==
  ASSUME Chained, Fits(segs, highest), NEW c, Link(segs, c, highest)
  PROVE  Reported(c) = 1..highest
<1>1. c \in [1..highest -> 1..highest]
  BY DEF Link
<1>2. \A s \in 1..highest : Parses(s)
  BY DEF Fits, Parses
<1>3. DOMAIN c = 1..highest /\ highest \in Nat
  BY <1>1, Facts
<1>4. \A i \in 1..highest : \A j \in 1..i : j \in 1..highest
  BY <1>3
<1>5. \A i \in 1..highest : \A j \in 1..i : Parses(c[j])
  BY <1>1, <1>2, <1>4
<1>6. QED BY <1>3, <1>5 DEF Reported

LEMMA FilesNamedHas ==
  ASSUME NEW n, NEW i \in Reported(Chain), NEW k \in DOMAIN segs[Chain[i]].entries,
         segs[Chain[i]].entries[k].file, segs[Chain[i]].entries[k].name = n
  PROVE  <<i, k>> \in FilesNamed(n)
BY DEF FilesNamed

LEMMA NoneNamed ==
  ASSUME Chained, Fits(segs, highest), NEW n, FilesNamed(n) = {}
  PROVE  \A s \in 1..highest : n \notin Named(segs[s].entries)
<1>1. SUFFICES ASSUME NEW s \in 1..highest, n \in Named(segs[s].entries) PROVE FALSE
  OBVIOUS
<1>2. PICK c : Link(segs, c, highest) /\ Tile(segs, c, highest, Size)
  BY DEF Chained
<1>3. highest \in 1..Total /\ segs \in Dir /\ highest \in Nat /\ s \in 1..Total
  BY Facts DEF Chained
<1>4. Chain = c
  BY <1>2, <1>3, ChainIs
<1>5. PICK i \in 1..highest : c[i] = s
  BY <1>2, <1>3, ChainOnto
<1>6. PICK k \in 1..Len(segs[s].entries) : segs[s].entries[k].file /\ segs[s].entries[k].name = n
  BY <1>1, NamedIs
<1>7. i \in Reported(Chain)
  BY <1>2, <1>4, <1>5, ReportedAll
<1>8. k \in DOMAIN segs[s].entries
  BY <1>3, <1>6, DirIs
<1>9. <<i, k>> \in FilesNamed(n)
  BY <1>4, <1>5, <1>6, <1>7, <1>8, FilesNamedHas
<1>10. QED BY <1>9

LEMMA UniqueNames ==
  ASSUME Chained, Unique(segs, highest)
  PROVE  NamesUnique
<1>1. SUFFICES ASSUME NEW n \in Names, NEW x \in FilesNamed(n), NEW y \in FilesNamed(n) PROVE x = y
  BY DEF NamesUnique
<1>2. PICK c : Link(segs, c, highest) /\ Tile(segs, c, highest, Size)
  BY DEF Chained
<1>3. highest \in 1..Total /\ segs \in Dir /\ highest \in Nat /\ 1..highest \subseteq 1..Total
  BY Facts DEF Chained
<1>4. Chain = c /\ DOMAIN Chain = 1..highest
  BY <1>2, <1>3, ChainIs
<1>5. /\ \A i \in 1..highest : c[i] \in 1..highest
      /\ \A i, j \in 1..highest : c[i] = c[j] => i = j
  BY <1>2 DEF Link
<1>6. ASSUME NEW z \in FilesNamed(n)
      PROVE  \E i \in 1..highest, k \in Nat : /\ z = <<i, k>> /\ k \in 1..Len(segs[c[i]].entries)
                                 /\ segs[c[i]].entries[k].file /\ segs[c[i]].entries[k].name = n
  <2>1. PICK i \in Reported(Chain) : \E k \in DOMAIN segs[Chain[i]].entries :
          z = <<i, k>> /\ segs[Chain[i]].entries[k].file /\ segs[Chain[i]].entries[k].name = n
    BY DEF FilesNamed
  <2>2. i \in 1..highest
    BY <1>4, <2>1 DEF Reported
  <2>3. PICK k \in DOMAIN segs[Chain[i]].entries :
          z = <<i, k>> /\ segs[Chain[i]].entries[k].file /\ segs[Chain[i]].entries[k].name = n
    BY <2>1
  <2>4. k \in 1..Len(segs[c[i]].entries) /\ Len(segs[c[i]].entries) \in Nat
    BY <1>3, <1>4, <1>5, <2>2, <2>3, DirIs
  <2>5. k \in Nat
    BY <2>4
  <2>6. QED BY <1>4, <2>2, <2>3, <2>4, <2>5
<1>7. PICK i \in 1..highest, k \in Nat : /\ x = <<i, k>> /\ k \in 1..Len(segs[c[i]].entries)
                            /\ segs[c[i]].entries[k].file /\ segs[c[i]].entries[k].name = n
  BY <1>6
<1>8. PICK j \in 1..highest, l \in Nat : /\ y = <<j, l>> /\ l \in 1..Len(segs[c[j]].entries)
                            /\ segs[c[j]].entries[l].file /\ segs[c[j]].entries[l].name = n
  BY <1>6
<1>9. n \in Named(segs[c[i]].entries) /\ n \in Named(segs[c[j]].entries)
  BY <1>7, <1>8, NamedIs
<1>10. c[i] = c[j]
  <2>1. c[i] \in 1..highest /\ c[j] \in 1..highest
    BY <1>5
  <2>2. QED BY <1>9, <2>1 DEF Unique
<1>11. i = j
  BY <1>5, <1>10
<1>12. Once(segs[c[i]].entries)
  BY <1>5 DEF Unique
<1>13. k = l
  BY <1>7, <1>8, <1>11, <1>12 DEF Once
<1>14. QED BY <1>7, <1>8, <1>11, <1>13

(* An entry of one segment changed: its name is its own or no file's.       *)
WithEntry(dir, s, k, e) == [dir EXCEPT ![s].entries[k] = e]

LEMMA EntryUnique ==
  ASSUME Chained, Unique(segs, highest), NEW s \in 1..highest, NEW k \in 1..Len(segs[s].entries), NEW e \in Entry,
         \/ ~e.file
         \/ \A t \in 1..highest : e.name \notin Named(segs[t].entries)
         \/ segs[s].entries[k].file /\ segs[s].entries[k].name = e.name
  PROVE  Unique(WithEntry(segs, s, k, e), highest)
<1> DEFINE es == segs[s].entries
           new == [es EXCEPT ![k] = e]
           X == IF e.file THEN {e.name} ELSE {}
<1>1. segs \in Dir /\ s \in 1..Total /\ highest \in Nat /\ 1..highest \subseteq 1..Total
  BY Facts DEF Chained
<1>2. es \in Seq(Entry) /\ Once(es) /\ k \in 1..Len(es)
  BY <1>1, DirIs DEF Unique
<1>3. segs[s].entries[k].file /\ segs[s].entries[k].name = e.name => e.name \in Named(es)
  <2> HIDE DEF es
  <2>1. QED BY NamedIs DEF es
<1>4. WithEntry(segs, s, k, e) = WithEntries(segs, s, new)
  BY DEF WithEntries, WithEntry
<1>5. \A t \in 1..highest : t # s => X \cap Named(segs[t].entries) = {}
  <2>1. SUFFICES ASSUME NEW t \in 1..highest, t # s, e.file PROVE e.name \notin Named(segs[t].entries)
    OBVIOUS
  <2>2. Named(segs[s].entries) \cap Named(segs[t].entries) = {}
    BY <2>1 DEF Unique
  <2>3. QED BY <1>3, <2>1, <2>2
<1>6. e.file /\ e.name \in Named(es) => es[k].file /\ es[k].name = e.name
  OBVIOUS
<1> HIDE DEF es
<1>7. new \in Seq(Entry) /\ Once(new) /\ Named(new) \subseteq Named(es) \cup X
  <2>1. new \in Seq(Entry)
    BY <1>2, ExceptSeq
  <2>2. Once(new) /\ Named(new) \subseteq Named(es) \cup IF e.file THEN {e.name} ELSE {}
    BY <1>2, <1>6, EntryNames
  <2>3. QED BY <2>1, <2>2
<1> HIDE DEF new, X
<1>8. /\ \A t \in 1..Total : WithEntries(segs, s, new)[t].entries = IF t = s THEN new ELSE segs[t].entries
  BY <1>1, <1>7, EntriesSet
<1>9. Brings(segs, WithEntries(segs, s, new), highest, s, X)
  <2>1. \A t \in 1..highest : t # s => WithEntries(segs, s, new)[t].entries = segs[t].entries
    BY <1>1, <1>8
  <2>2. WithEntries(segs, s, new)[s].entries = new
    BY <1>1, <1>8
  <2>3. QED BY <1>5, <1>7, <2>1, <2>2 DEF Brings, es
<1>10. Unique(WithEntries(segs, s, new), highest)
  BY <1>9, UniqueChanged
<1>11. QED BY <1>4, <1>10

LEMMA RemovedUnique ==
  ASSUME Chained, Unique(segs, highest), NEW k \in 1..Len(segs[1].entries), segs[1].entries[k].file
  PROVE  /\ Unique(Removed(k), highest)
         /\ \A t \in 1..highest : segs[1].entries[k].name \notin Named(Removed(k)[t].entries)
<1> DEFINE dir == Removed(k)
           n == segs[1].entries[k].name
           none == {}
<1>1. segs \in Dir /\ 1 \in 1..Total /\ 1 \in 1..highest /\ 1..highest \subseteq 1..Total
  BY Facts DEF Chained
<1>2. Once(segs[1].entries) /\ n \in Named(segs[1].entries)
  BY <1>1, NamedIs DEF Unique
<1>3. Once(dir[1].entries) /\ Named(dir[1].entries) \subseteq Named(segs[1].entries) \ {n}
  BY <1>1, <1>2, RemovedNames
<1>4. \A t \in 1..highest : t # 1 => dir[t].entries = segs[t].entries
  BY <1>1, RemovedKeeps
<1> HIDE DEF dir, n
<1>5. Brings(segs, dir, highest, 1, none)
  BY <1>3, <1>4 DEF Brings
<1> HIDE DEF none
<1>6. Unique(dir, highest)
  BY <1>1, <1>5, UniqueChanged
<1>7. ASSUME NEW t \in 1..highest PROVE n \notin Named(dir[t].entries)
  <2>1. CASE t = 1
    BY <1>3, <2>1
  <2>2. CASE t # 1
    <3>1. Named(segs[1].entries) \cap Named(segs[t].entries) = {}
      BY <1>1, <2>2 DEF Unique
    <3>2. QED BY <1>2, <1>4, <2>2, <3>1
  <2>3. QED BY <2>1, <2>2
<1>8. QED BY <1>6, <1>7 DEF dir, n

LEMMA PutFileNames ==
  ASSUME Chained, Fits(segs, highest), Unique(segs, highest),
         NEW n \in Names, NEW data \in Contents, NEW prot \in PutAs, PutFile(n, data, prot)
  PROVE  Unique(segs', highest')
<1> DEFINE file == [file |-> TRUE, prot |-> prot, name |-> n, len |-> Len(data)]
<1>1. data \in Seq(Block) /\ Len(data) \in Nat /\ prot \in BOOLEAN
  BY LenProperties, LayoutAssumption
<1>2. file \in Entry /\ file.len = Len(data) /\ file.file /\ file.name = n
  BY <1>1 DEF Entry
<1>3. PICK c : Link(segs, c, highest) /\ Tile(segs, c, highest, Size)
  BY DEF Chained
<1>4. /\ segs \in Dir /\ highest \in 1..Total /\ blocks \in Seq(Block)
      /\ Total \in Nat /\ highest \in Nat /\ highest # 0 /\ 1..highest \subseteq 1..Total /\ Size \in Nat
      /\ 1 \in 1..Total
  BY Facts DEF Chained
<1>5. ASSUME NEW dir \in Dir, Link(dir, c, highest), Tile(dir, c, highest, Size), PutNew(dir, file, data),
             Unique(dir, highest), \A t \in 1..highest : n \notin Named(dir[t].entries)
      PROVE  Unique(segs', highest')
  <2> HIDE DEF file
  <2>1. file.file /\ Unique(dir, highest) /\ (\A t \in 1..highest : file.name \notin Named(dir[t].entries)) =>
          Unique(segs', highest')
    BY <1>1, <1>2, <1>3, <1>4, <1>5, PutNewIs DEF Held
  <2>2. \A t \in 1..highest : file.name \notin Named(dir[t].entries)
    BY <1>2, <1>5
  <2>3. QED BY <1>2, <1>5, <2>1, <2>2
<1>6. CASE FilesNamed(n) = {}
  <2>1. PutNew(segs, file, data)
    BY <1>6 DEF PutFile
  <2>2. \A t \in 1..highest : n \notin Named(segs[t].entries)
    BY <1>6, NoneNamed
  <2> HIDE DEF file
  <2>3. QED BY <1>3, <1>4, <1>5, <2>1, <2>2
<1>7. CASE FilesNamed(n) # {}
  <2> DEFINE k == FindFirst(n)
             dir == Removed(k)
  <2>1. k # 0 /\ PutNew(Removed(k), file, data)
    BY <1>7 DEF PutFile
  <2>2. k \in 1..Len(segs[1].entries) /\ segs[1].entries[k].file /\ segs[1].entries[k].name = n
    BY <1>4, <2>1, DirIs, FindFirstIs
  <2> HIDE DEF k, file
  <2>3. /\ dir \in Dir
        /\ \A t \in 1..Total : /\ dir[t].next = segs[t].next /\ dir[t].start = segs[t].start
                               /\ Lengths(dir[t].entries) = Lengths(segs[t].entries)
    BY <1>4, <2>2, RemovedKeeps
  <2>4. Unique(dir, highest) /\ \A t \in 1..highest : n \notin Named(dir[t].entries)
    BY <2>2, RemovedUnique
  <2>5. PutNew(dir, file, data)
    BY <2>1
  <2> HIDE DEF dir
  <2>6. Link(dir, c, highest) /\ Tile(dir, c, highest, Size)
    BY <1>3, <1>4, <2>3, TileKept
  <2>7. QED BY <1>5, <2>3, <2>4, <2>5, <2>6
<1>8. QED BY <1>6, <1>7

LEMMA RemoveFileNames ==
  ASSUME Chained, Unique(segs, highest), NEW n \in Names, RemoveFile(n)
  PROVE  Unique(segs', highest')
<1> DEFINE k == FindFirst(n)
<1>1. k # 0 /\ segs' = Removed(k) /\ highest' = highest
  BY DEF RemoveFile
<1>2. k \in 1..Len(segs[1].entries) /\ segs[1].entries[k].file
  BY <1>1, Facts, DirIs, FindFirstIs DEF Chained
<1> HIDE DEF k
<1>3. Unique(Removed(k), highest)
  BY <1>2, RemovedUnique
<1>4. QED BY <1>1, <1>3

LEMMA MutateNames ==
  ASSUME Chained, Unique(segs, highest), NEW n, NEW e \in Entry, Mutate(n, e),
         \/ \A t \in 1..highest : e.name \notin Named(segs[t].entries)
         \/ e.name = segs[1].entries[FindFirst(n)].name
  PROVE  Unique(segs', highest')
<1> DEFINE k == FindFirst(n)
<1>1. k # 0 /\ segs' = WithEntry(segs, 1, k, e) /\ highest' = highest
  BY DEF Mutate, WithEntry
<1>2. k \in 1..Len(segs[1].entries) /\ segs[1].entries[k].file /\ 1 \in 1..highest
  BY <1>1, PermanentIs, Facts DEF Chained
<1>3. \/ \A t \in 1..highest : e.name \notin Named(segs[t].entries)
      \/ e.name = segs[1].entries[k].name
  OBVIOUS
<1> HIDE DEF k
<1>4. Unique(WithEntry(segs, 1, k, e), highest)
  BY <1>2, <1>3, EntryUnique
<1>5. QED BY <1>1, <1>4

LEMMA RenameFileNames ==
  ASSUME Chained, Fits(segs, highest), Unique(segs, highest), NEW n \in Names, NEW to \in Names, RenameFile(n, to)
  PROVE  Unique(segs', highest')
<1>1. Mutate(n, Renaming(n, to)) /\ Renaming(n, to) \in Entry /\ Renaming(n, to).name = to /\ FilesNamed(to) = {}
  BY RenameFileIs, Facts DEF Chained
<1>2. \A t \in 1..highest : Renaming(n, to).name \notin Named(segs[t].entries)
  BY <1>1, NoneNamed
<1>3. QED BY <1>1, <1>2, MutateNames

LEMMA SetProtectedNames ==
  ASSUME Chained, Unique(segs, highest), NEW n \in Names, NEW on \in BOOLEAN, SetProtected(n, on)
  PROVE  Unique(segs', highest')
  BY SetProtectedIs, MutateNames, Facts DEF Chained

(* undeleteEntry looks for the name in the first segment, here the only     *)
(* one.                                                                     *)
LEMMA UndeleteEntryNames ==
  ASSUME Chained, Unique(segs, highest), highest = 1,
         NEW k \in DOMAIN segs[1].entries, NEW new \in Names \cup {NoName}, UndeleteEntry(k, new)
  PROVE  Unique(segs', highest')
<1> DEFINE old == segs[1].entries[k]
           es == segs[1].entries
           under == IF new = NoName THEN old.name ELSE new
           e == [file |-> TRUE, prot |-> FALSE, name |-> under, len |-> old.len]
<1>1. segs' = [segs EXCEPT ![1].entries[k] = e] /\ highest' = highest /\ FindFirst(under) = 0
  BY DEF UndeleteEntry
<1>2. k \in 1..Len(segs[1].entries) /\ es \in Seq(Entry)
  BY Facts, DirIs DEF Chained
<1>3. old \in Entry
  BY <1>2, ElementOfSeq
<1>4. e \in Entry /\ e.name = under
  <2> HIDE DEF old
  <2>1. QED BY <1>3 DEF Entry
<1> HIDE DEF under
<1>5. under \notin Named(es)
  <2>1. SUFFICES ASSUME under \in Named(es) PROVE FALSE
    OBVIOUS
  <2> DEFINE I == {i \in 1..Len(es) : es[i].file /\ es[i].name = under}
  <2>2. I \in SUBSET Nat /\ I # {} /\ 0 \notin I
    BY <2>1, NamedIs
  <2>3. FindFirst(under) = IF I # {} THEN Min(I) ELSE 0
    BY DEF FindFirst, SelectInSeq
  <2> HIDE DEF I
  <2>4. Min(I) \in I
    BY <2>2, FirstOf DEF Min
  <2>5. QED BY <1>1, <2>2, <2>3, <2>4
<1>6. \A t \in 1..highest : e.name \notin Named(segs[t].entries)
  <2>1. \A t \in 1..highest : t = 1
    OBVIOUS
  <2>2. QED BY <1>4, <1>5, <2>1
<1>7. 1 \in 1..highest
  BY Facts
<1>8. segs' = WithEntry(segs, 1, k, e)
  BY <1>1 DEF WithEntry
<1> HIDE DEF e
<1>9. Unique(WithEntry(segs, 1, k, e), highest)
  BY <1>2, <1>4, <1>6, <1>7, EntryUnique
<1>10. QED BY <1>1, <1>8, <1>9

LEMMA AloneIs ==
  ASSUME NEW dir
  PROVE  Unique(dir, 1) <=> Once(dir[1].entries)
<1>1. \A t \in 1..1 : t = 1
  OBVIOUS
<1>2. 1 \in 1..1
  OBVIOUS
<1>3. QED BY <1>1, <1>2 DEF Unique

LEMMA SqueezeNames ==
  ASSUME Chained, Unique(segs, highest), Squeeze
  PROVE  Unique(segs', highest')
<1>1. Once(segs[1].entries)
  BY SqueezeIs, AloneIs
<1>2. Once(Perms)
  BY <1>1, SqueezeIs, FilesInIs DEF Perms
<1>3. Once(Squeezed)
  <2>1. Once(<<Spare>>) /\ Named(<<Spare>>) = {}
    BY SqueezeIs, OneName
  <2>2. Once(Perms \o <<Spare>>) <=> Once(Perms) /\ Once(<<Spare>>) /\ Named(Perms) \cap Named(<<Spare>>) = {}
    BY SqueezeIs, ConcatNames
  <2>3. QED BY <1>2, <2>1, <2>2 DEF Squeezed
<1>4. segs'[1].entries = Squeezed \/ segs' = segs
  BY SqueezeIs
<1>5. QED BY <1>1, <1>3, <1>4, SqueezeIs, AloneIs

(* growLinear and endFreeSpaceAt bring and take no names.                   *)
LEMMA LastLengthNames ==
  ASSUME Chained, Unique(segs, highest), NEW s \in 1..highest, NEW k \in 1..Len(segs[s].entries),
         ~segs[s].entries[k].file, NEW len \in Nat, segs' = [segs EXCEPT ![s].entries[k].len = len], highest' = highest
  PROVE  Unique(segs', highest')
<1> DEFINE e == [segs[s].entries[k] EXCEPT !.len = len]
<1>1. segs[s].entries[k] \in Entry
  <2>1. segs \in Dir /\ s \in 1..Total
    BY Facts DEF Chained
  <2>2. QED BY <2>1, DirIs, ElementOfSeq
<1>2. e \in Entry /\ ~e.file
  <2> DEFINE old == segs[s].entries[k]
  <2>1. old \in Entry /\ ~old.file
    BY <1>1
  <2> HIDE DEF old
  <2>2. [old EXCEPT !.len = len] \in Entry /\ ~[old EXCEPT !.len = len].file
    BY <2>1 DEF Entry
  <2>3. QED BY <2>2 DEF old
<1>3. segs' = WithEntry(segs, s, k, e)
  BY DEF WithEntry
<1> HIDE DEF e
<1>4. Unique(WithEntry(segs, s, k, e), highest)
  BY <1>2, EntryUnique, Zenon
<1>5. QED BY <1>3, <1>4

(* A segment whose new entries bring no name.                               *)
LEMMA NoNewNames ==
  ASSUME Chained, Unique(segs, highest), NEW s \in 1..highest, NEW new \in Seq(Entry), Once(new),
         Named(new) \subseteq Named(segs[s].entries)
  PROVE  Unique(WithEntries(segs, s, new), highest)
<1> DEFINE dir == WithEntries(segs, s, new)
           none == {}
<1>1. segs \in Dir /\ s \in 1..Total /\ 1..highest \subseteq 1..Total
  BY Facts DEF Chained
<1>2. \A t \in 1..Total : dir[t].entries = IF t = s THEN new ELSE segs[t].entries
  <2> HIDE DEF none
  <2>1. QED BY <1>1, EntriesSet
<1> HIDE DEF dir
<1>3. Brings(segs, dir, highest, s, none)
  <2>1. \A t \in 1..highest : t # s => dir[t].entries = segs[t].entries
    BY <1>1, <1>2
  <2>2. dir[s].entries = new
    BY <1>1, <1>2
  <2>3. QED BY <2>1, <2>2 DEF Brings
<1> HIDE DEF none
<1>4. Unique(dir, highest)
  BY <1>3, UniqueChanged
<1>5. QED BY <1>4 DEF dir

LEMMA GrowLinearNames ==
  ASSUME Chained, Unique(segs, highest), NEW n \in Growths, GrowLinear(n)
  PROVE  Unique(segs', highest')
<1> DEFINE k == Len(LastEs)
           one == <<Free(n)>>
<1>1. LastSeg \in 1..highest /\ highest' = highest /\ LastEs \in Seq(Entry) /\ Once(LastEs)
  BY GrowLinearIs DEF Unique, LastEs
<1>2. CASE Widens
  <2>1. k \in 1..Len(segs[LastSeg].entries) /\ ~segs[LastSeg].entries[k].file /\ Widened(n) \in Nat
        /\ segs' = [segs EXCEPT ![LastSeg].entries[k].len = Widened(n)]
    BY <1>2, GrowLinearIs DEF LastEs, Resized, Widens
  <2> HIDE DEF k
  <2>2. QED BY <1>1, <2>1, LastLengthNames
<1>3. CASE ~Widens
  <2>1. one \in Seq(Entry) /\ Once(one) /\ Named(one) = {}
    BY GrowLinearIs, OneName
  <2>2. /\ Named(LastEs \o one) = Named(LastEs) \cup Named(one)
        /\ Once(LastEs \o one) <=> Once(LastEs) /\ Once(one) /\ Named(LastEs) \cap Named(one) = {}
    BY <1>1, <2>1, ConcatNames
  <2>3. Once(Longer(n)) /\ Named(Longer(n)) \subseteq Named(segs[LastSeg].entries) /\ Longer(n) \in Seq(Entry)
    BY <1>1, <2>1, <2>2, GrowLinearIs DEF Longer, LastEs
  <2>4. Unique(WithEntries(segs, LastSeg, Longer(n)), highest)
    BY <1>1, <2>3, NoNewNames
  <2>5. QED BY <1>1, <1>3, <2>4, GrowLinearIs
<1>4. QED BY <1>2, <1>3

LEMMA EndFreeSpaceAtNames ==
  ASSUME Chained, Unique(segs, highest), NEW lbn \in Fences, EndFreeSpaceAt(lbn)
  PROVE  Unique(segs', highest')
<1> DEFINE k == Len(LastEs)
<1>1. /\ LastSeg \in 1..highest /\ k \in 1..Len(segs[LastSeg].entries) /\ ~segs[LastSeg].entries[k].file
      /\ Ended(lbn) \in Nat /\ segs' = [segs EXCEPT ![LastSeg].entries[k].len = Ended(lbn)] /\ highest' = highest
  BY EndFreeSpaceAtIs DEF LastEs, Resized
<1> HIDE DEF k
<1>2. QED BY <1>1, LastLengthNames

LEMMA FreshNames ==
  ASSUME NEW n \in Nat
  PROVE  Unique(Fresh(n), 1)
<1> DEFINE area == Free(n)
<1>1. 1 \in 1..Total
  BY LayoutAssumption
<1>2. area \in Entry /\ ~area.file
  BY DEF Free, Area, Entry
<1>3. Fresh(n)[1].entries = <<area>>
  BY <1>1 DEF Fresh
<1> HIDE DEF area
<1>4. Once(<<area>>)
  BY <1>2, OneName
<1>5. QED BY <1>3, <1>4, AloneIs

LEMMA NamesKept ==
  ASSUME ~Everywhere
  PROVE  Chained /\ Unique(segs, highest) /\ ReadsBack /\ [Next]_vars => Chained' /\ Unique(segs', highest')
<1>1. SUFFICES ASSUME Chained, Unique(segs, highest), ReadsBack, [Next]_vars
                PROVE  Chained' /\ Unique(segs', highest')
  OBVIOUS
<1>2. Fits(segs, highest)
  BY <1>1, ReadsBackFits
<1> DEFINE Goal == Unique(segs', highest')
<1>3. ASSUME NEW n \in Names, NEW data \in Contents, NEW prot \in PutAs, PutFile(n, data, prot) PROVE Goal
  BY <1>1, <1>2, <1>3, PutFileNames
<1>4. ASSUME NEW n \in Names, RemoveFile(n) PROVE Goal
  BY <1>1, <1>4, RemoveFileNames
<1>5. ASSUME NEW n \in Names, NEW to \in Names, RenameFile(n, to) PROVE Goal
  BY <1>1, <1>2, <1>5, RenameFileNames
<1>6. ASSUME NEW n \in Names, NEW on \in BOOLEAN, SetProtected(n, on) PROVE Goal
  BY <1>1, <1>6, SetProtectedNames
<1>7. ASSUME highest = 1, NEW k \in DOMAIN segs[1].entries, NEW new \in Names \cup {NoName}, UndeleteEntry(k, new)
      PROVE  Goal
  BY <1>1, <1>7, UndeleteEntryNames
<1>8. ASSUME Squeeze PROVE Goal
  BY <1>1, <1>8, SqueezeNames
<1>9. ASSUME NEW n \in Growths, GrowLinear(n) PROVE Goal
  BY <1>1, <1>9, GrowLinearNames
<1>10. ASSUME NEW lbn \in Fences, EndFreeSpaceAt(lbn) PROVE Goal
  BY <1>1, <1>10, EndFreeSpaceAtNames
<1>11. ASSUME InitVolume PROVE Goal
  <2>1. segs' = Fresh(Len(blocks)) /\ highest' = 1
    BY <1>11 DEF InitVolume
  <2>2. Len(blocks) \in Nat
    BY <1>1, Facts
  <2>3. QED BY <2>1, <2>2, FreshNames
<1>12. ASSUME UNCHANGED vars PROVE Goal
  <2>1. segs' = segs /\ highest' = highest
    BY <1>12 DEF vars
  <2>2. QED BY <1>1, <2>1
<1> HIDE DEF Goal
<1>13. Goal
  BY <1>1, <1>3, <1>4, <1>5, <1>6, <1>7, <1>8, <1>9, <1>10, <1>11, <1>12 DEF Next
<1>14. Chained'
  BY <1>1, NextKeeps DEF Kept
<1>15. QED BY <1>13, <1>14 DEF Goal

(* As long as the parser reads the directory to its end, and undelete is    *)
(* asked of volumes of one segment, no two files of a volume have one name, *)
(* whatever is put, renamed, undeleted and split.                           *)
THEOREM VolumeNamesWhileRead ==
  ASSUME ~Everywhere
  PROVE  Spec /\ []ReadsBack => []NamesUnique
<1> DEFINE Inv == Chained /\ Unique(segs, highest)
<1>1. Init => Inv
  <2>1. SUFFICES ASSUME Init PROVE Inv
    OBVIOUS
  <2>2. segs = Fresh(DataBlocks) /\ highest = 1 /\ DataBlocks \in Nat
    BY <2>1, LayoutAssumption DEF Init
  <2>3. QED BY <2>1, <2>2, InitHolds, FreshNames
<1>2. Inv /\ ReadsBack /\ [Next]_vars => Inv'
  BY NamesKept
<1>3. Inv /\ ReadsBack => NamesUnique
  BY ReadsBackFits, UniqueNames
<1>4. QED BY <1>1, <1>2, <1>3, PTL DEF Spec

(* And with a marker's room after every segment, always.                    *)
THEOREM VolumeNamesUnique ==
  ASSUME NoRemainder, ~Everywhere
  PROVE  Spec => []NamesUnique
<1>1. Spec => []ReadsBack
  BY NoRemainder, VolumeReadsBack
<1>2. Spec /\ []ReadsBack => []NamesUnique
  BY VolumeNamesWhileRead
<1>3. QED BY <1>1, <1>2, PTL

------------------------------------
(* Where entries lie.                                                       *)

(* The entries of a segment that begins at a block, each with the block it  *)
(* begins at.                                                               *)
Lying(es, at) == {<<es[k], at + Lengths(SubSeq(es, 1, k - 1))>> : k \in 1..Len(es)}

LEMMA LyingIs ==
  ASSUME NEW es, NEW at, NEW x
  PROVE  x \in Lying(es, at) <=> \E k \in 1..Len(es) : x = <<es[k], at + Lengths(SubSeq(es, 1, k - 1))>>
BY DEF Lying

LEMMA ConcatIs ==
  ASSUME NEW s \in Seq(Entry), NEW t \in Seq(Entry)
  PROVE  /\ s \o t \in Seq(Entry) /\ Len(s \o t) = Len(s) + Len(t) /\ Len(s) \in Nat /\ Len(t) \in Nat
         /\ \A k \in 1..Len(s) : (s \o t)[k] = s[k] /\ SubSeq(s \o t, 1, k - 1) = SubSeq(s, 1, k - 1)
         /\ \A k \in 1..Len(t) : /\ (s \o t)[Len(s) + k] = t[k]
                                 /\ SubSeq(s \o t, 1, (Len(s) + k) - 1) = s \o SubSeq(t, 1, k - 1)
<1> DEFINE st == s \o t
           m == Len(s)
           n == Len(t)
<1>1. /\ st \in Seq(Entry) /\ Len(st) = m + n /\ m \in Nat /\ n \in Nat
      /\ \A i \in 1..m + n : st[i] = IF i <= m THEN s[i] ELSE t[i - m]
  BY ConcatProperties, LenProperties
<1> HIDE DEF st, m, n
<1>2. ASSUME NEW k \in 1..m PROVE st[k] = s[k] /\ SubSeq(st, 1, k - 1) = SubSeq(s, 1, k - 1)
  <2>1. /\ 1 \in 1..Len(st) + 1 /\ k - 1 \in 1 - 1..Len(st) /\ 1 \in 1..Len(s) + 1 /\ k - 1 \in 1 - 1..Len(s)
        /\ ((k - 1) - 1) + 1 = k - 1
    BY <1>1, <1>2 DEF m
  <2> DEFINE a == SubSeq(st, 1, k - 1)
             b == SubSeq(s, 1, k - 1)
  <2>2. a \in Seq(Entry) /\ Len(a) = k - 1 /\ \A i \in 1..k - 1 : a[i] = st[(1 + i) - 1]
    BY <1>1, <2>1, PartIs
  <2>3. b \in Seq(Entry) /\ Len(b) = k - 1 /\ \A i \in 1..k - 1 : b[i] = s[(1 + i) - 1]
    BY <2>1, PartIs
  <2>4. \A i \in 1..k - 1 : a[i] = b[i]
    <3>1. TAKE i \in 1..k - 1
    <3>2. (1 + i) - 1 = i /\ i \in 1..m + n /\ i <= m
      BY <1>1, <1>2
    <3>3. st[i] = s[i]
      BY <1>1, <3>2
    <3>4. QED BY <2>2, <2>3, <3>2, <3>3
  <2> HIDE DEF a, b
  <2>5. a = b
    BY <2>2, <2>3, <2>4, SeqEqual
  <2>6. st[k] = s[k]
    BY <1>1, <1>2
  <2>7. QED BY <2>5, <2>6 DEF a, b
<1>3. ASSUME NEW k \in 1..n PROVE st[m + k] = t[k] /\ SubSeq(st, 1, (m + k) - 1) = s \o SubSeq(t, 1, k - 1)
  <2>1. /\ 1 \in 1..Len(st) + 1 /\ (m + k) - 1 \in 1 - 1..Len(st) /\ 1 \in 1..Len(t) + 1 /\ k - 1 \in 1 - 1..Len(t)
        /\ ((k - 1) - 1) + 1 = k - 1 /\ (((m + k) - 1) - 1) + 1 = m + (k - 1)
    BY <1>1, <1>3 DEF n
  <2> DEFINE a == SubSeq(st, 1, (m + k) - 1)
             b == SubSeq(t, 1, k - 1)
  <2>2. a \in Seq(Entry) /\ Len(a) = m + (k - 1) /\ \A i \in 1..m + (k - 1) : a[i] = st[(1 + i) - 1]
    BY <1>1, <2>1, PartIs
  <2>3. b \in Seq(Entry) /\ Len(b) = k - 1 /\ \A i \in 1..k - 1 : b[i] = t[(1 + i) - 1]
    BY <2>1, PartIs
  <2> HIDE DEF a, b
  <2> DEFINE c == s \o b
  <2>4. c \in Seq(Entry) /\ Len(c) = m + (k - 1)
        /\ \A i \in 1..m + (k - 1) : c[i] = IF i <= m THEN s[i] ELSE b[i - m]
    <3>1. /\ c \in Seq(Entry) /\ Len(c) = Len(s) + Len(b)
          /\ \A i \in 1..Len(s) + Len(b) : c[i] = IF i <= Len(s) THEN s[i] ELSE b[i - Len(s)]
      BY <2>3, ConcatProperties
    <3> HIDE DEF c
    <3>2. Len(s) = m /\ Len(b) = k - 1
      BY <2>3 DEF m
    <3>3. QED BY <3>1, <3>2
  <2>5. \A i \in 1..m + (k - 1) : a[i] = c[i]
    <3>1. TAKE i \in 1..m + (k - 1)
    <3>2. (1 + i) - 1 = i /\ i \in 1..m + n
      BY <1>1, <1>3
    <3>3. a[i] = st[i]
      BY <2>2, <3>2
    <3>4. CASE i <= m
      BY <1>1, <2>4, <3>2, <3>3, <3>4
    <3>5. CASE ~(i <= m)
      <4>1. i - m \in 1..k - 1 /\ (1 + (i - m)) - 1 = i - m
        BY <1>1, <1>3, <3>5
      <4>2. b[i - m] = t[i - m]
        BY <2>3, <4>1
      <4>3. st[i] = t[i - m] /\ c[i] = b[i - m]
        BY <1>1, <2>4, <3>2, <3>5
      <4>4. QED BY <3>3, <4>2, <4>3
    <3>6. QED BY <3>4, <3>5
  <2> HIDE DEF c
  <2>6. a = c
    BY <2>2, <2>4, <2>5, SeqEqual
  <2>7. st[m + k] = t[k]
    <3>1. m + k \in 1..m + n /\ ~(m + k <= m) /\ (m + k) - m = k
      BY <1>1, <1>3
    <3>2. QED BY <1>1, <3>1
  <2>8. QED BY <2>6, <2>7 DEF a, b, c
<1>4. QED BY <1>1, <1>2, <1>3 DEF st, m, n

LEMMA LyingConcat ==
  ASSUME NEW s \in Seq(Entry), NEW t \in Seq(Entry), NEW at \in Nat
  PROVE  Lying(s \o t, at) = Lying(s, at) \cup Lying(t, at + Lengths(s))
<1> DEFINE st == s \o t
           m == Len(s)
           n == Len(t)
           before(es, k) == Lengths(SubSeq(es, 1, k - 1))
<1>1. m \in Nat /\ n \in Nat /\ Len(st) = m + n
  BY ConcatIs
<1>2. \A k \in 1..m : st[k] = s[k] /\ before(st, k) = before(s, k)
  BY ConcatIs
<1>3. \A k \in 1..n : st[m + k] = t[k] /\ at + before(st, m + k) = (at + Lengths(s)) + before(t, k)
  <2>1. TAKE k \in 1..n
  <2>2. 1 \in 1..n + 1 /\ k - 1 \in 1 - 1..n
    BY <1>1
  <2>3. SubSeq(t, 1, k - 1) \in Seq(Entry)
    BY <2>2, PartIs
  <2>4. st[m + k] = t[k] /\ SubSeq(st, 1, (m + k) - 1) = s \o SubSeq(t, 1, k - 1)
    BY ConcatIs
  <2>5. Lengths(s \o SubSeq(t, 1, k - 1)) = Lengths(s) + before(t, k)
    BY <2>3, LengthsConcat
  <2>6. Lengths(s) \in Nat /\ before(t, k) \in Nat
    BY <2>3, LengthsNat
  <2>7. before(st, m + k) = Lengths(s) + before(t, k)
    BY <2>4, <2>5
  <2> HIDE DEF before
  <2>8. at + before(st, m + k) = (at + Lengths(s)) + before(t, k)
    BY <2>6, <2>7
  <2>9. QED BY <2>4, <2>8
<1> HIDE DEF st, m, n, before
<1>4. \A x : x \in Lying(st, at) <=> \E k \in 1..m + n : x = <<st[k], at + before(st, k)>>
  BY <1>1, LyingIs DEF before
<1>5. \A x : x \in Lying(s, at) <=> \E k \in 1..m : x = <<s[k], at + before(s, k)>>
  BY LyingIs DEF before, m
<1>6. \A x : x \in Lying(t, at + Lengths(s)) <=> \E k \in 1..n : x = <<t[k], (at + Lengths(s)) + before(t, k)>>
  BY LyingIs DEF before, n
<1>7. ASSUME NEW x \in Lying(st, at) PROVE x \in Lying(s, at) \cup Lying(t, at + Lengths(s))
  <2>1. PICK k \in 1..m + n : x = <<st[k], at + before(st, k)>>
    BY <1>4
  <2>2. CASE k <= m
    <3>1. k \in 1..m
      BY <1>1, <2>2
    <3>2. QED BY <1>2, <1>5, <2>1, <3>1
  <2>3. CASE ~(k <= m)
    <3>1. k - m \in 1..n /\ m + (k - m) = k
      BY <1>1, <2>3
    <3>2. st[k] = t[k - m] /\ at + before(st, k) = (at + Lengths(s)) + before(t, k - m)
      BY <1>3, <3>1
    <3>3. QED BY <1>6, <2>1, <3>1, <3>2
  <2>4. QED BY <2>2, <2>3
<1>8. ASSUME NEW x \in Lying(s, at) PROVE x \in Lying(st, at)
  <2>1. PICK k \in 1..m : x = <<s[k], at + before(s, k)>>
    BY <1>5
  <2>2. k \in 1..m + n
    BY <1>1
  <2>3. QED BY <1>2, <1>4, <2>1, <2>2
<1>9. ASSUME NEW x \in Lying(t, at + Lengths(s)) PROVE x \in Lying(st, at)
  <2>1. PICK k \in 1..n : x = <<t[k], (at + Lengths(s)) + before(t, k)>>
    BY <1>6
  <2>2. m + k \in 1..m + n
    BY <1>1
  <2>3. x = <<st[m + k], at + before(st, m + k)>>
    BY <1>3, <2>1
  <2>4. QED BY <1>4, <2>2, <2>3
<1>10. Lying(st, at) = Lying(s, at) \cup Lying(t, at + Lengths(s))
  BY <1>7, <1>8, <1>9
<1>11. QED BY <1>10 DEF st

LEMMA LyingNone == ASSUME NEW at PROVE Lying(<<>>, at) = {}
<1>1. Len(<<>>) = 0 /\ 1..0 = {}
  OBVIOUS
<1>2. QED BY <1>1, LyingIs

LEMMA LyingOne == ASSUME NEW e \in Entry, NEW at \in Nat PROVE Lying(<<e>>, at) = {<<e, at>>}
<1>1. Len(<<e>>) = 1 /\ 1..1 = {1} /\ <<e>>[1] = e /\ <<e>> \in Seq(Entry)
  BY LengthsOne
<1>2. Lengths(SubSeq(<<e>>, 1, 1 - 1)) = 0
  <2>1. 1 \in 1..Len(<<e>>) + 1 /\ 0 \in 1 - 1..Len(<<e>>) /\ (0 - 1) + 1 = 0 /\ 1 - 1 = 0
    BY <1>1
  <2>2. SubSeq(<<e>>, 1, 0) \in Seq(Entry) /\ Len(SubSeq(<<e>>, 1, 0)) = (0 - 1) + 1
    BY <1>1, <2>1, PartIs
  <2>3. SubSeq(<<e>>, 1, 0) = <<>>
    BY <2>1, <2>2, EmptySeq
  <2>4. QED BY <2>1, <2>3, LengthsEmpty
<1> DEFINE one == <<e>>
<1> HIDE DEF one
<1>3. Lying(one, at) = {<<one[1], at + Lengths(SubSeq(one, 1, 1 - 1))>>}
  <2>1. Len(one) = 1 /\ 1..1 = {1}
    BY <1>1 DEF one
  <2>2. QED BY <2>1 DEF Lying
<1>4. at + 0 = at
  OBVIOUS
<1>5. Lying(one, at) = {<<e, at>>}
  BY <1>1, <1>2, <1>3, <1>4 DEF one
<1>6. QED BY <1>5 DEF one

(* An entry lies within its segment.                                        *)
LEMMA LyingWithin ==
  ASSUME NEW es \in Seq(Entry), NEW at \in Nat, NEW x \in Lying(es, at)
  PROVE  /\ x = <<x[1], x[2]>> /\ x[1] \in Entry /\ x[1].len \in Nat /\ x[2] \in Nat
         /\ at <= x[2] /\ x[2] + x[1].len <= at + Lengths(es)
         /\ \E k \in 1..Len(es) : x[1] = es[k]
<1>1. PICK k \in 1..Len(es) : x = <<es[k], at + Lengths(SubSeq(es, 1, k - 1))>>
  BY LyingIs
<1> DEFINE pre == Lengths(SubSeq(es, 1, k - 1))
           post == Lengths(SubSeq(es, k + 1, Len(es)))
           all == Lengths(es)
<1>2. Len(es) \in Nat /\ k \in 1..Len(es) + 1 /\ k \in k - 1..Len(es) /\ es[k] \in Entry
  BY LenProperties, ElementOfSeq
<1>3. all = pre + Lengths(SubSeq(es, k, k)) + post
  BY <1>2, LengthsParts
<1>4. Lengths(SubSeq(es, k, k)) = es[k].len
  BY PartOne
<1>5. pre \in Nat /\ post \in Nat /\ es[k].len \in Nat
  BY <1>2, PartsAre, LengthsNat DEF Entry
<1>6. x = <<es[k], at + pre>> /\ x[1] = es[k] /\ x[2] = at + pre
  BY <1>1
<1> HIDE DEF pre, post, all
<1>7. at + pre \in Nat /\ at <= at + pre /\ (at + pre) + es[k].len <= at + all
  <2> DEFINE l == es[k].len
  <2>1. l \in Nat /\ all = pre + l + post
    BY <1>3, <1>4, <1>5
  <2> HIDE DEF l
  <2>2. at + pre \in Nat /\ at <= at + pre /\ (at + pre) + l <= at + all
    BY <1>5, <2>1
  <2>3. QED BY <2>2 DEF l
<1>8. QED BY <1>2, <1>5, <1>6, <1>7 DEF all

(* One part for another of its length, or the last part for any other.      *)
LEMMA LyingSwapped ==
  ASSUME NEW es \in Seq(Entry), NEW a \in 1..Len(es) + 1, NEW b \in a - 1..Len(es), NEW with \in Seq(Entry),
         Lengths(with) = Lengths(SubSeq(es, a, b)) \/ b = Len(es), NEW at \in Nat
  PROVE  Lying(Swapped(es, a, b, with), at) =
           Lying(SubSeq(es, 1, a - 1), at) \cup Lying(with, at + Lengths(SubSeq(es, 1, a - 1)))
             \cup Lying(SubSeq(es, b + 1, Len(es)), (at + Lengths(SubSeq(es, 1, a - 1))) + Lengths(SubSeq(es, a, b)))
<1> DEFINE x == SubSeq(es, 1, a - 1)
           y == SubSeq(es, a, b)
           z == SubSeq(es, b + 1, Len(es))
<1>1. x \in Seq(Entry) /\ y \in Seq(Entry) /\ z \in Seq(Entry)
  BY PartsAre
<1>2. b = Len(es) => z = <<>>
  <2>1. SUFFICES ASSUME b = Len(es) PROVE z = <<>>
    OBVIOUS
  <2>2. Len(es) \in Nat
    BY LenProperties
  <2>3. b + 1 \in 1..Len(es) + 1 /\ Len(es) \in (b + 1) - 1..Len(es) /\ (Len(es) - (b + 1)) + 1 = 0
    BY <2>1, <2>2
  <2>4. Len(z) = (Len(es) - (b + 1)) + 1
    BY <2>3, PartIs
  <2> HIDE DEF z
  <2>5. QED BY <1>1, <2>3, <2>4, EmptySeq
<1>3. Swapped(es, a, b, with) = x \o with \o z
  BY DEF Swapped
<1> HIDE DEF x, y, z
<1>4. Lengths(x) \in Nat /\ Lengths(with) \in Nat /\ Lengths(y) \in Nat
  BY <1>1, LengthsNat
<1> DEFINE xw == x \o with
<1>5. xw \in Seq(Entry) /\ Lengths(xw) = Lengths(x) + Lengths(with)
  BY <1>1, ConcatProperties, LengthsConcat
<1>6. Lying(xw, at) = Lying(x, at) \cup Lying(with, at + Lengths(x))
  BY <1>1, LyingConcat
<1> HIDE DEF xw
<1>7. Lying(xw \o z, at) = Lying(xw, at) \cup Lying(z, at + Lengths(xw))
  BY <1>1, <1>5, LyingConcat
<1>8. Lying(z, at + Lengths(xw)) = Lying(z, (at + Lengths(x)) + Lengths(y))
  <2>1. CASE b = Len(es)
    BY <1>2, <2>1, LyingNone
  <2>2. CASE Lengths(with) = Lengths(y)
    <3>1. at + Lengths(xw) = (at + Lengths(x)) + Lengths(y)
      BY <1>4, <1>5, <2>2
    <3>2. QED BY <3>1
  <2>3. QED BY <2>1, <2>2 DEF y
<1>9. Lying(xw \o z, at) = Lying(x, at) \cup Lying(with, at + Lengths(x)) \cup Lying(z, (at + Lengths(x)) + Lengths(y))
  BY <1>6, <1>7, <1>8
<1>10. Swapped(es, a, b, with) = xw \o z
  BY <1>3 DEF xw
<1>11. QED BY <1>9, <1>10 DEF x, y, z

(* A sequence is itself with a part of it for that part.                    *)
LEMMA SwappedSame ==
  ASSUME NEW es \in Seq(Entry), NEW a \in 1..Len(es) + 1, NEW b \in a - 1..Len(es)
  PROVE  Swapped(es, a, b, SubSeq(es, a, b)) = es
BY PartsAre DEF Swapped

------------------------------------
(* The areas of a directory.                                                *)

Areas(dir, n) == UNION {Lying(dir[s].entries, dir[s].start) : s \in 1..n}

(* Those but for the entries a..b of segment s.                             *)
Rest(dir, n, s, a, b) ==
  Lying(SubSeq(dir[s].entries, 1, a - 1), dir[s].start)
    \cup Lying(SubSeq(dir[s].entries, b + 1, Len(dir[s].entries)),
               StartOf(dir[s], a) + Lengths(SubSeq(dir[s].entries, a, b)))
    \cup UNION {Lying(dir[t].entries, dir[t].start) : t \in 1..n \ {s}}

LEMMA AreasApart ==
  ASSUME NEW dir, NEW n, NEW s \in 1..n
  PROVE  Areas(dir, n) = Lying(dir[s].entries, dir[s].start)
                           \cup UNION {Lying(dir[t].entries, dir[t].start) : t \in 1..n \ {s}}
BY DEF Areas

PartOf(dir, n, s, a, b) ==
  /\ dir \in Dir /\ 1..n \subseteq 1..Total /\ s \in 1..n
  /\ a \in 1..Len(dir[s].entries) + 1 /\ b \in a - 1..Len(dir[s].entries)

(* A directory that differs in a part of one segment.                       *)
OnlyPart(dir, new, n, s, a, b, with) ==
  /\ with \in Seq(Entry)
  /\ \A t \in 1..n : new[t].start = dir[t].start /\ (t # s => new[t].entries = dir[t].entries)
  /\ new[s].entries = Swapped(dir[s].entries, a, b, with)
  /\ Lengths(with) = Lengths(SubSeq(dir[s].entries, a, b)) \/ b = Len(dir[s].entries)

LEMMA AreasSwapped ==
  ASSUME NEW dir, NEW n, NEW s, NEW a, NEW b, PartOf(dir, n, s, a, b),
         NEW with, NEW new, OnlyPart(dir, new, n, s, a, b, with)
  PROVE  Areas(new, n) = Rest(dir, n, s, a, b) \cup Lying(with, StartOf(dir[s], a))
<1> DEFINE es == dir[s].entries
           at == dir[s].start
           x == SubSeq(es, 1, a - 1)
           y == SubSeq(es, a, b)
           z == SubSeq(es, b + 1, Len(es))
           others == UNION {Lying(dir[t].entries, dir[t].start) : t \in 1..n \ {s}}
<1>1. es \in Seq(Entry) /\ at \in Nat
  <2>1. s \in 1..Total /\ dir \in Dir
    BY DEF PartOf
  <2>2. QED BY <2>1, DirIs
<1>2. with \in Seq(Entry) /\ (Lengths(with) = Lengths(y) \/ b = Len(es))
  BY DEF OnlyPart
<1>3. Lying(new[s].entries, new[s].start) =
        Lying(x, at) \cup Lying(with, at + Lengths(x)) \cup Lying(z, (at + Lengths(x)) + Lengths(y))
  <2>1. new[s].entries = Swapped(es, a, b, with) /\ new[s].start = at
    BY DEF OnlyPart, PartOf
  <2>2. Lying(Swapped(es, a, b, with), at) =
          Lying(x, at) \cup Lying(with, at + Lengths(x)) \cup Lying(z, (at + Lengths(x)) + Lengths(y))
    <3> DEFINE seq == es
    <3>1. seq \in Seq(Entry) /\ a \in 1..Len(seq) + 1 /\ b \in a - 1..Len(seq)
      BY <1>1 DEF PartOf
    <3>2. Lengths(with) = Lengths(SubSeq(seq, a, b)) \/ b = Len(seq)
      BY <1>2
    <3> HIDE DEF seq
    <3>3. Lying(Swapped(seq, a, b, with), at) =
            Lying(SubSeq(seq, 1, a - 1), at) \cup Lying(with, at + Lengths(SubSeq(seq, 1, a - 1)))
              \cup Lying(SubSeq(seq, b + 1, Len(seq)), (at + Lengths(SubSeq(seq, 1, a - 1))) + Lengths(SubSeq(seq, a, b)))
      BY <1>1, <1>2, <3>1, <3>2, LyingSwapped
    <3>4. QED BY <3>3 DEF seq
  <2>3. QED BY <2>1, <2>2
<1>4. UNION {Lying(new[t].entries, new[t].start) : t \in 1..n \ {s}} = others
  <2>1. \A t \in 1..n \ {s} : new[t].entries = dir[t].entries /\ new[t].start = dir[t].start
    BY DEF OnlyPart
  <2>2. QED BY <2>1
<1>5. Areas(new, n) = Lying(new[s].entries, new[s].start) \cup UNION {Lying(new[t].entries, new[t].start) : t \in 1..n \ {s}}
  BY AreasApart DEF PartOf
<1>6. StartOf(dir[s], a) = at + Lengths(x)
  BY DEF StartOf
<1>7. Rest(dir, n, s, a, b) = Lying(x, at) \cup Lying(z, (at + Lengths(x)) + Lengths(y)) \cup others
  BY <1>6 DEF Rest
<1> HIDE DEF x, y, z, others, es, at
<1>8. QED BY <1>3, <1>4, <1>5, <1>6, <1>7

LEMMA AreasSplit ==
  ASSUME NEW dir, NEW n, NEW s, NEW a, NEW b, PartOf(dir, n, s, a, b)
  PROVE  Areas(dir, n) = Rest(dir, n, s, a, b) \cup Lying(SubSeq(dir[s].entries, a, b), StartOf(dir[s], a))
<1> DEFINE y == SubSeq(dir[s].entries, a, b)
<1>1. y \in Seq(Entry) /\ Swapped(dir[s].entries, a, b, y) = dir[s].entries
  <2> DEFINE es == dir[s].entries
  <2>1. s \in 1..Total /\ dir \in Dir
    BY DEF PartOf
  <2>2. es \in Seq(Entry) /\ a \in 1..Len(es) + 1 /\ b \in a - 1..Len(es)
    BY <2>1, DirIs DEF PartOf
  <2> HIDE DEF es
  <2>3. SubSeq(es, a, b) \in Seq(Entry) /\ Swapped(es, a, b, SubSeq(es, a, b)) = es
    BY <2>2, SwappedSame, PartsAre
  <2>4. QED BY <2>3 DEF es
<1>2. OnlyPart(dir, dir, n, s, a, b, y)
  BY <1>1 DEF OnlyPart
<1> HIDE DEF y
<1>3. Areas(dir, n) = Rest(dir, n, s, a, b) \cup Lying(y, StartOf(dir[s], a))
  BY <1>2, AreasSwapped
<1>4. QED BY <1>3 DEF y

(* Segments follow one another without overlapping.                         *)
LEMMA ChainOrdered ==
  ASSUME NEW n \in Nat, NEW dir, NEW c, NEW size \in Nat, Link(dir, c, n), Tile(dir, c, n, size), n # 0,
         \A t \in 1..n : dir[t].start \in Nat /\ Lengths(dir[t].entries) \in Nat
  PROVE  /\ \A i, j \in 1..n : i < j => Ends(dir, c[i]) <= dir[c[j]].start
         /\ \A i \in 1..n : DataStart <= dir[c[i]].start /\ Ends(dir, c[i]) <= size
<1> DEFINE begin(i) == dir[c[i]].start
           end(i) == Ends(dir, c[i])
<1>1. \A i \in 1..n : c[i] \in 1..n
  BY DEF Link
<1>2. \A i \in 1..n : begin(i) \in Nat /\ end(i) \in Nat /\ begin(i) <= end(i)
  <2>1. TAKE i \in 1..n
  <2> DEFINE l == Lengths(dir[c[i]].entries)
             b == dir[c[i]].start
  <2>2. b \in Nat /\ l \in Nat /\ end(i) = b + l
    BY <1>1 DEF Ends
  <2> HIDE DEF l, b, end
  <2>3. b + l \in Nat /\ b <= b + l
    BY <2>2
  <2>4. QED BY <2>2, <2>3 DEF b
<1>3. /\ begin(1) = DataStart /\ end(n) <= size
      /\ \A i \in 1..n - 1 : begin(i + 1) = end(i)
  BY DEF Tile, Link
<1> HIDE DEF begin, end
<1> DEFINE T == {j \in Nat : j <= n => \A i \in 1..n : i < j => end(i) <= begin(j)}
<1>4. 0 \in T
  OBVIOUS
<1>5. ASSUME NEW j \in Nat, j \in T PROVE j + 1 \in T
  <2>1. SUFFICES ASSUME j + 1 <= n, NEW i \in 1..n, i < j + 1 PROVE end(i) <= begin(j + 1)
    OBVIOUS
  <2>2. j \in 1..n - 1 /\ j \in 1..n /\ j + 1 \in 1..n /\ j <= n
    BY <2>1
  <2>3. begin(j + 1) = end(j)
    BY <1>3, <2>2
  <2>4. CASE i = j
    BY <1>2, <2>2, <2>3, <2>4
  <2>5. CASE i # j
    <3>1. i < j
      BY <2>1, <2>5
    <3>2. end(i) <= begin(j)
      BY <1>5, <2>2, <3>1
    <3>3. QED BY <1>2, <2>2, <2>3, <3>2
  <2>6. QED BY <2>4, <2>5
<1> HIDE DEF T
<1>6. Nat \subseteq T
  BY <1>4, <1>5, Induction
<1>7. ASSUME NEW i \in 1..n, NEW j \in 1..n, i < j PROVE end(i) <= begin(j)
  <2>1. j \in T /\ j <= n
    BY <1>6
  <2>2. QED BY <1>7, <2>1 DEF T
<1>8. ASSUME NEW i \in 1..n PROVE DataStart <= begin(i) /\ end(i) <= size
  <2>1. 1 \in 1..n /\ n \in 1..n
    OBVIOUS
  <2>2. DataStart <= begin(i)
    <3>1. CASE i = 1
      BY <1>2, <1>3, <2>1, <3>1
    <3>2. CASE i # 1
      <4>1. end(1) <= begin(i)
        BY <1>7, <2>1, <3>2
      <4>2. QED BY <1>2, <1>3, <2>1, <4>1
    <3>3. QED BY <3>1, <3>2
  <2>3. end(i) <= size
    <3>1. CASE i = n
      BY <1>3, <3>1
    <3>2. CASE i # n
      <4>1. end(i) <= begin(n)
        BY <1>7, <2>1, <3>2
      <4>2. QED BY <1>2, <1>3, <2>1, <4>1
    <3>3. QED BY <3>1, <3>2
  <2>4. QED BY <2>2, <2>3
<1>9. QED BY <1>7, <1>8 DEF begin, end

LEMMA SegmentsApart ==
  ASSUME NEW n \in Nat, 1..n \subseteq 1..Total, n # 0, NEW dir \in Dir, NEW c, NEW size \in Nat,
         Link(dir, c, n), Tile(dir, c, n, size)
  PROVE  \A s \in 1..n : /\ DataStart <= dir[s].start /\ Ends(dir, s) <= size
                         /\ \A t \in 1..n : s # t => Ends(dir, s) <= dir[t].start \/ Ends(dir, t) <= dir[s].start
<1>1. \A t \in 1..n : dir[t].start \in Nat /\ Lengths(dir[t].entries) \in Nat
  <2>1. TAKE t \in 1..n
  <2>2. t \in 1..Total
    OBVIOUS
  <2>3. QED BY <2>2, DirIs
<1>2. /\ \A i, j \in 1..n : i < j => Ends(dir, c[i]) <= dir[c[j]].start
      /\ \A i \in 1..n : DataStart <= dir[c[i]].start /\ Ends(dir, c[i]) <= size
  BY <1>1, ChainOrdered
<1>3. TAKE s \in 1..n
<1>4. PICK i \in 1..n : c[i] = s
  BY ChainOnto
<1>5. ASSUME NEW t \in 1..n, s # t PROVE Ends(dir, s) <= dir[t].start \/ Ends(dir, t) <= dir[s].start
  <2>1. PICK j \in 1..n : c[j] = t
    BY ChainOnto
  <2>2. i < j \/ j < i
    BY <1>4, <1>5, <2>1
  <2>3. QED BY <1>2, <1>4, <2>1, <2>2
<1>6. QED BY <1>2, <1>4, <1>5

Sound(dir, n, size) == \E c : Link(dir, c, n) /\ Tile(dir, c, n, size)

(* All areas are within the volume.                                         *)
LEMMA AreasWithin ==
  ASSUME NEW n \in Nat, 1..n \subseteq 1..Total, n # 0, NEW dir \in Dir, NEW size \in Nat, Sound(dir, n, size),
         NEW x \in Areas(dir, n)
  PROVE  /\ x = <<x[1], x[2]>> /\ x[1] \in Entry /\ x[1].len \in Nat /\ x[2] \in Nat
         /\ DataStart <= x[2] /\ x[2] + x[1].len <= size
         /\ \E s \in 1..n : \E k \in 1..Len(dir[s].entries) : x[1] = dir[s].entries[k]
<1>1. PICK s \in 1..n : x \in Lying(dir[s].entries, dir[s].start)
  BY DEF Areas
<1>2. dir[s].entries \in Seq(Entry) /\ dir[s].start \in Nat /\ Lengths(dir[s].entries) \in Nat
  BY DirIs
<1>3. PICK c : Link(dir, c, n) /\ Tile(dir, c, n, size)
  BY DEF Sound
<1>4. DataStart <= dir[s].start /\ Ends(dir, s) <= size
  BY <1>3, SegmentsApart
<1>5. /\ x = <<x[1], x[2]>> /\ x[1] \in Entry /\ x[1].len \in Nat /\ x[2] \in Nat
      /\ dir[s].start <= x[2] /\ x[2] + x[1].len <= dir[s].start + Lengths(dir[s].entries)
      /\ \E k \in 1..Len(dir[s].entries) : x[1] = dir[s].entries[k]
  BY <1>1, <1>2, LyingWithin
<1>6. DataStart \in Nat
  BY LayoutAssumption DEF DataStart
<1> DEFINE at == dir[s].start
           l == Lengths(dir[s].entries)
           len == x[1].len
           begin == x[2]
<1>7. DataStart <= at /\ at + l <= size /\ at <= begin /\ begin + len <= at + l /\ at \in Nat /\ l \in Nat
      /\ len \in Nat /\ begin \in Nat
  BY <1>2, <1>4, <1>5 DEF Ends
<1> HIDE DEF at, l, len, begin
<1>8. DataStart <= begin /\ begin + len <= size
  BY <1>6, <1>7
<1>9. QED BY <1>5, <1>8 DEF len, begin

(* The others lie clear of the entries left out.                            *)
LEMMA RestApart ==
  ASSUME NEW dir, NEW n \in Nat, n # 0, NEW size \in Nat, Sound(dir, n, size),
         NEW s, NEW a, NEW b, PartOf(dir, n, s, a, b), NEW x \in Rest(dir, n, s, a, b)
  PROVE  /\ x \in Areas(dir, n)
         /\ x[2] + x[1].len <= StartOf(dir[s], a)
              \/ StartOf(dir[s], a) + Lengths(SubSeq(dir[s].entries, a, b)) <= x[2]
<1> DEFINE es == dir[s].entries
           at == dir[s].start
           p == SubSeq(es, 1, a - 1)
           y == SubSeq(es, a, b)
           z == SubSeq(es, b + 1, Len(es))
<1>0. dir \in Dir /\ 1..n \subseteq 1..Total /\ s \in 1..n /\ s \in 1..Total
  BY DEF PartOf
<1>1. es \in Seq(Entry) /\ at \in Nat
  BY <1>0, DirIs
<1>2. p \in Seq(Entry) /\ y \in Seq(Entry) /\ z \in Seq(Entry) /\ Lengths(es) = Lengths(p) + Lengths(y) + Lengths(z)
  <2> HIDE DEF es
  <2>1. a \in 1..Len(es) + 1 /\ b \in a - 1..Len(es)
    BY DEF es, PartOf
  <2>2. QED BY <1>1, <2>1, PartsAre, LengthsParts
<1>3. Lengths(p) \in Nat /\ Lengths(y) \in Nat /\ Lengths(z) \in Nat
  BY <1>2, LengthsNat
<1>4. StartOf(dir[s], a) = at + Lengths(p)
  BY DEF StartOf
<1>5. x \in Areas(dir, n)
  BY AreasSplit
<1>6. \/ x \in Lying(p, at)
      \/ x \in Lying(z, (at + Lengths(p)) + Lengths(y))
      \/ \E t \in 1..n : t # s /\ x \in Lying(dir[t].entries, dir[t].start)
  BY <1>4 DEF Rest
<1>7. x[2] \in Nat /\ x[1].len \in Nat
  BY <1>0, <1>5, AreasWithin
<1> DEFINE len == x[1].len
           begin == x[2]
           lp == Lengths(p)
           ly == Lengths(y)
           lz == Lengths(z)
<1>8. CASE x \in Lying(p, at)
  <2>1. x[2] + x[1].len <= at + Lengths(p)
    BY <1>1, <1>2, <1>8, LyingWithin
  <2>2. QED BY <1>4, <1>5, <2>1
<1>9. CASE x \in Lying(z, (at + Lengths(p)) + Lengths(y))
  <2>1. (at + Lengths(p)) + Lengths(y) \in Nat
    BY <1>1, <1>3
  <2>2. (at + Lengths(p)) + Lengths(y) <= x[2]
    BY <1>2, <1>9, <2>1, LyingWithin
  <2>3. QED BY <1>4, <1>5, <2>2
<1>10. ASSUME NEW t \in 1..n, t # s, x \in Lying(dir[t].entries, dir[t].start)
       PROVE  x[2] + x[1].len <= at + Lengths(p) \/ (at + Lengths(p)) + Lengths(y) <= x[2]
  <2> DEFINE at2 == dir[t].start
             l2 == Lengths(dir[t].entries)
  <2>1. dir[t].entries \in Seq(Entry) /\ at2 \in Nat /\ l2 \in Nat
    BY <1>0, DirIs
  <2>2. at2 <= begin /\ begin + len <= at2 + l2
    BY <1>10, <2>1, LyingWithin
  <2>3. PICK c : Link(dir, c, n) /\ Tile(dir, c, n, size)
    BY DEF Sound
  <2>4. Ends(dir, s) <= dir[t].start \/ Ends(dir, t) <= dir[s].start
    BY <1>0, <1>10, <2>3, SegmentsApart
  <2>5. at + ((lp + ly) + lz) <= at2 \/ at2 + l2 <= at
    BY <1>2, <2>4 DEF Ends
  <2>6. begin \in Nat /\ len \in Nat /\ lp \in Nat /\ ly \in Nat /\ lz \in Nat
    BY <1>3, <1>7
  <2> HIDE DEF at, at2, l2, begin, len, lp, ly, lz, p, y, z
  <2>7. at \in Nat /\ at2 \in Nat /\ l2 \in Nat
    BY <1>1, <2>1
  <2>8. CASE at + ((lp + ly) + lz) <= at2
    <3>1. (at + lp) + ly <= begin
      BY <2>2, <2>6, <2>7, <2>8
    <3>2. QED BY <3>1 DEF begin, lp, ly
  <2>9. CASE at2 + l2 <= at
    <3>1. begin + len <= at + lp
      BY <2>2, <2>6, <2>7, <2>9
    <3>2. QED BY <3>1 DEF begin, len, lp
  <2>10. QED BY <2>5, <2>8, <2>9
<1>11. QED
  <2>1. CASE \E t \in 1..n : t # s /\ x \in Lying(dir[t].entries, dir[t].start)
    BY <1>4, <1>5, <1>10, <2>1
  <2>2. QED BY <1>6, <1>8, <1>9, <2>1

------------------------------------
(* The files at the areas.                                                  *)

Data(b, x) == SubSeq(b, x[2] - DataStart + 1, x[2] - DataStart + x[1].len)
FileAt(b, x) == [name |-> x[1].name, prot |-> x[1].prot, data |-> Data(b, x)]
FilesAt(b, xs) == {FileAt(b, x) : x \in {y \in xs : y[1].file}}

LEMMA FilesAtIs ==
  ASSUME NEW b, NEW xs, NEW f
  PROVE  f \in FilesAt(b, xs) <=> \E x \in xs : x[1].file /\ f = FileAt(b, x)
BY DEF FilesAt

LEMMA FilesAtCup ==
  ASSUME NEW b, NEW xs, NEW ys
  PROVE  FilesAt(b, xs \cup ys) = FilesAt(b, xs) \cup FilesAt(b, ys)
BY DEF FilesAt

LEMMA FilesAtOne ==
  ASSUME NEW b, NEW e, NEW at
  PROVE  /\ e.file => FilesAt(b, {<<e, at>>}) = {FileAt(b, <<e, at>>)}
         /\ ~e.file => FilesAt(b, {<<e, at>>}) = {}
BY DEF FilesAt

LEMMA FilesAtNone ==
  ASSUME NEW b, NEW xs, \A x \in xs : ~x[1].file
  PROVE  FilesAt(b, xs) = {}
BY DEF FilesAt

LEMMA FilesOfIs ==
  ASSUME NEW seg \in Segment
  PROVE  FilesOf(seg) = FilesAt(blocks, Lying(seg.entries, seg.start))
<1> DEFINE es == seg.entries
           start(k) == StartOf(seg, k)
           rec(k) == [name |-> es[k].name, prot |-> es[k].prot, data |-> BlocksAt(start(k), es[k].len)]
           at(k) == <<es[k], start(k)>>
<1>1. DOMAIN es = 1..Len(es)
  BY DEF Segment
<1>2. Lying(es, seg.start) = {at(k) : k \in 1..Len(es)}
  BY DEF Lying, StartOf
<1>3. \A k \in 1..Len(es) : FileAt(blocks, at(k)) = rec(k) /\ at(k)[1] = es[k]
  BY DEF FileAt, Data, BlocksAt
<1>4. FilesOf(seg) = {rec(k) : k \in {j \in 1..Len(es) : es[j].file}}
  BY <1>1 DEF FilesOf
<1> HIDE DEF rec, at, start
<1>5. \A f : f \in FilesOf(seg) <=> \E k \in 1..Len(es) : es[k].file /\ f = rec(k)
  BY <1>4
<1>6. \A f : f \in FilesAt(blocks, Lying(es, seg.start)) <=> \E k \in 1..Len(es) : es[k].file /\ f = rec(k)
  BY <1>2, <1>3, FilesAtIs
<1>7. QED BY <1>5, <1>6

LEMMA FilesAre == Chained /\ Fits(segs, highest) => Files = FilesAt(blocks, Areas(segs, highest))
<1>1. SUFFICES ASSUME Chained, Fits(segs, highest) PROVE Files = FilesAt(blocks, Areas(segs, highest))
  OBVIOUS
<1>2. PICK c : Link(segs, c, highest) /\ Tile(segs, c, highest, Size)
  BY <1>1 DEF Chained
<1>3. highest \in 1..Total /\ highest \in Nat /\ 1..highest \subseteq 1..Total /\ segs \in Dir
  BY <1>1, Facts DEF Chained
<1>4. Chain = c
  BY <1>2, <1>3, ChainIs
<1>5. Reported(c) = 1..highest
  BY <1>1, <1>2, ReportedAll
<1>6. Readable = 1..highest
  <2>1. Readable = {c[i] : i \in 1..highest}
    BY <1>4, <1>5 DEF Readable
  <2>2. \A i \in 1..highest : c[i] \in 1..highest
    BY <1>2 DEF Link
  <2>3. \A s \in 1..highest : \E i \in 1..highest : c[i] = s
    BY <1>2, <1>3, ChainOnto
  <2>4. QED BY <2>1, <2>2, <2>3
<1>7. \A s \in 1..highest : FilesOf(segs[s]) = FilesAt(blocks, Lying(segs[s].entries, segs[s].start))
  <2>1. TAKE s \in 1..highest
  <2>2. segs[s] \in Segment
    BY <1>3, DirIs
  <2>3. QED BY <2>2, FilesOfIs
<1>8. \A f : f \in Files <=> \E s \in 1..highest : f \in FilesAt(blocks, Lying(segs[s].entries, segs[s].start))
  BY <1>6, <1>7 DEF Files
<1>9. \A x : x \in Areas(segs, highest) <=> \E s \in 1..highest : x \in Lying(segs[s].entries, segs[s].start)
  BY DEF Areas
<1>10. \A f : f \in Files <=> f \in FilesAt(blocks, Areas(segs, highest))
  BY <1>8, <1>9, FilesAtIs
<1>11. QED BY <1>10

LEMMA DataStartNat == DataStart \in Nat
BY LayoutAssumption DEF DataStart

(* The blocks of an area, one by one.                                       *)
LEMMA DataIs ==
  ASSUME NEW b \in Seq(Block), NEW x, x[1].len \in Nat, x[2] \in Nat, DataStart <= x[2],
         x[2] + x[1].len <= DataStart + Len(b)
  PROVE  /\ Data(b, x) \in Seq(Block) /\ Len(Data(b, x)) = x[1].len
         /\ \A i \in 1..x[1].len : Data(b, x)[i] = b[(x[2] - DataStart) + i]
<1> DEFINE at == x[2] - DataStart
           n == x[1].len
<1>1. at \in Nat /\ n \in Nat /\ at + n <= Len(b) /\ Len(b) \in Nat
  BY DataStartNat, LenProperties
<1>2. Data(b, x) = SubSeq(b, at + 1, at + n)
  BY DEF Data
<1> HIDE DEF at, n
<1>3. at + 1 \in Int /\ at + n \in Int /\ \A i \in at + 1..at + n : b[i] \in Block
  <2>1. \A i \in at + 1..at + n : i \in 1..Len(b)
    BY <1>1
  <2>2. QED BY <1>1, <2>1, ElementOfSeq
<1> DEFINE p == at + 1
           q == at + n
           d == SubSeq(b, p, q)
<1>4. /\ d \in Seq(Block) /\ Len(d) = IF p <= q THEN q - p + 1 ELSE 0
      /\ \A i \in 1..q - p + 1 : d[i] = b[p + i - 1]
  <2> HIDE DEF p, q
  <2>1. p \in Int /\ q \in Int /\ \A i \in p..q : b[i] \in Block
    BY <1>3 DEF p, q
  <2>2. QED BY <2>1, SubSeqProperties
<1> HIDE DEF d
<1>5. Len(d) = n
  BY <1>1, <1>4
<1>6. \A i \in 1..n : d[i] = b[at + i]
  <2>1. TAKE i \in 1..n
  <2>2. i \in 1..q - p + 1 /\ p + i - 1 = at + i
    BY <1>1
  <2>3. QED BY <1>4, <2>2
<1>7. QED BY <1>2, <1>4, <1>5, <1>6 DEF at, n, d

(* Blocks that agree on an area hold the same there.                        *)
LEMMA DataSame ==
  ASSUME NEW b \in Seq(Block), NEW b2 \in Seq(Block), NEW x, x[1].len \in Nat, x[2] \in Nat, DataStart <= x[2],
         x[2] + x[1].len <= DataStart + Len(b), Len(b) <= Len(b2),
         \A i \in 1..x[1].len : b2[(x[2] - DataStart) + i] = b[(x[2] - DataStart) + i]
  PROVE  Data(b2, x) = Data(b, x) /\ FileAt(b2, x) = FileAt(b, x)
<1> DEFINE n == x[1].len
<1>1. Len(b) \in Nat /\ Len(b2) \in Nat /\ x[2] + n <= DataStart + Len(b2)
  BY DataStartNat, LenProperties
<1>2. Data(b, x) \in Seq(Block) /\ Len(Data(b, x)) = n /\ \A i \in 1..n : Data(b, x)[i] = b[(x[2] - DataStart) + i]
  BY DataIs
<1>3. Data(b2, x) \in Seq(Block) /\ Len(Data(b2, x)) = n
      /\ \A i \in 1..n : Data(b2, x)[i] = b2[(x[2] - DataStart) + i]
  BY <1>1, DataIs
<1> DEFINE d == Data(b, x)
           d2 == Data(b2, x)
<1>4. \A i \in 1..n : d2[i] = d[i]
  BY <1>2, <1>3
<1> HIDE DEF d, d2, n
<1>5. d2 = d
  <2>1. d \in Seq(Block) /\ d2 \in Seq(Block) /\ Len(d) = n /\ Len(d2) = n
    BY <1>2, <1>3 DEF d, d2
  <2>2. QED BY <1>4, <2>1, SeqEqual
<1>6. QED BY <1>5 DEF d, d2, FileAt

LEMMA FilesSame ==
  ASSUME NEW b, NEW b2, NEW xs, \A x \in xs : x[1].file => FileAt(b2, x) = FileAt(b, x)
  PROVE  FilesAt(b2, xs) = FilesAt(b, xs)
BY DEF FilesAt

(* Fill puts the file and the rest of the area in the place of the area.    *)
LEMMA FillOnly ==
  ASSUME NEW dir, NEW n, NEW s, NEW k, PartOf(dir, n, s, k, k), k \in 1..Len(dir[s].entries),
         NEW data \in Seq(Block), NEW file \in Entry, file.len = Len(data),
         dir[s].entries[k].len >= Len(data), Fill(dir, s, k, file, data)
  PROVE  /\ OnlyPart(dir, segs', n, s, k, k, <<file>> \o Residue(dir[s].entries[k], Len(data)))
         /\ Residue(dir[s].entries[k], Len(data)) \in Seq(Entry)
         /\ SubSeq(dir[s].entries, k, k) = <<dir[s].entries[k]>>
         /\ Lengths(SubSeq(dir[s].entries, k, k)) = dir[s].entries[k].len
         /\ StartOf(dir[s], k) \in Nat
<1> DEFINE es == dir[s].entries
           e == es[k]
           m == Len(data)
           rest == Residue(e, m)
           with == <<file>> \o rest
           at == StartOf(dir[s], k)
<1>1. dir \in Dir /\ s \in 1..n /\ 1..n \subseteq 1..Total /\ s \in 1..Total
  BY DEF PartOf
<1>2. es \in Seq(Entry) /\ Len(es) \in Nat /\ e \in Entry /\ m \in Nat /\ dir[s].start \in Nat
  BY <1>1, DirIs, ElementOfSeq, LenProperties
<1>3. k \in 1..Len(es) /\ k \in 1..Len(es) + 1 /\ k \in k - 1..Len(es)
  BY <1>2
<1>4. with \in Seq(Entry) /\ Lengths(with) = e.len
  <2> HIDE DEF e, m
  <2>1. e.len >= m /\ file.len = m
    BY DEF e, m
  <2>2. QED BY <1>2, <2>1, ResidueIs
<1>5. rest \in Seq(Entry) /\ e.len \in Nat
  <2>1. e.len \in Nat
    BY <1>2 DEF Entry
  <2>2. m < e.len => Free(e.len - m) \in Entry
    BY <1>2, <2>1 DEF Free, Area, Entry
  <2>3. m < e.len => <<Free(e.len - m)>> \in Seq(Entry)
    BY <2>2, LengthsOne
  <2>4. QED BY <2>1, <2>3 DEF Residue
<1>6. SubSeq(es, k, k) = <<e>> /\ Lengths(SubSeq(es, k, k)) = e.len
  <2> HIDE DEF es
  <2>1. SubSeq(es, k, k) \in Seq(Entry) /\ Len(SubSeq(es, k, k)) = (k - k) + 1
        /\ \A i \in 1..(k - k) + 1 : SubSeq(es, k, k)[i] = es[(k + i) - 1]
    BY <1>2, <1>3, PartIs
  <2>2. (k - k) + 1 = 1 /\ 1 \in 1..1 /\ (k + 1) - 1 = k
    BY <1>3
  <2> DEFINE one == SubSeq(es, k, k)
  <2>3. one \in Seq(Entry) /\ Len(one) = 1 /\ one[1] = es[k]
    BY <2>1, <2>2
  <2> HIDE DEF one
  <2>4. one = <<es[k]>>
    BY <2>3
  <2>5. Lengths(SubSeq(es, k, k)) = es[k].len
    BY <1>2, <1>3, PartOne
  <2>6. QED BY <2>4, <2>5 DEF one
<1>7. at \in Nat
  <2>1. SubSeq(es, 1, k - 1) \in Seq(Entry)
    BY <1>2, <1>3, PartsAre
  <2>2. Lengths(SubSeq(es, 1, k - 1)) \in Nat
    BY <2>1, LengthsNat
  <2>3. QED BY <1>2, <2>2 DEF StartOf
<1>8. OnlyPart(dir, segs', n, s, k, k, with)
  <2>1. segs' = WithEntries(dir, s, Replace(es, k, with))
    <3>1. segs' = [dir EXCEPT ![s].entries = Replace(@, k, <<file>> \o Residue(@[k], Len(data)))]
      BY DEF Fill
    <3>2. QED BY <1>1, <3>1 DEF Dir, WithEntries
  <2>2. Replace(es, k, with) = Swapped(es, k, k, with)
    BY DEF Replace, Swapped
  <2>3. Replace(es, k, with) \in Seq(Entry)
    <3> HIDE DEF with, es
    <3>1. Lengths(with) = es[k].len
      BY <1>4
    <3>2. QED BY <1>2, <1>3, <1>4, <3>1, ReplaceIs
  <2> DEFINE new == Replace(es, k, with)
  <2> HIDE DEF new
  <2>4. \A t \in 1..Total : /\ WithEntries(dir, s, new)[t].start = dir[t].start
                            /\ WithEntries(dir, s, new)[t].entries = IF t = s THEN new ELSE dir[t].entries
    BY <1>1, <2>3, EntriesSet DEF new
  <2>5. /\ \A t \in 1..n : segs'[t].start = dir[t].start /\ (t # s => segs'[t].entries = dir[t].entries)
        /\ segs'[s].entries = new
    BY <1>1, <2>1, <2>4 DEF new
  <2>6. new = Swapped(es, k, k, with)
    BY <2>2 DEF new
  <2> HIDE DEF with
  <2>7. QED BY <1>4, <1>6, <2>5, <2>6 DEF OnlyPart, es
<1>9. QED BY <1>5, <1>6, <1>7, <1>8

(* Fill puts the file into the area's place, and what is left of the area   *)
(* after it.                                                                *)
LEMMA FillAreas ==
  ASSUME NEW dir, NEW n, NEW s, NEW k, PartOf(dir, n, s, k, k), k \in 1..Len(dir[s].entries),
         NEW data \in Seq(Block), NEW file \in Entry, file.len = Len(data),
         dir[s].entries[k].len >= Len(data), Fill(dir, s, k, file, data)
  PROVE  /\ Areas(segs', n) = Rest(dir, n, s, k, k) \cup {<<file, StartOf(dir[s], k)>>}
                                \cup Lying(Residue(dir[s].entries[k], Len(data)), StartOf(dir[s], k) + Len(data))
         /\ Areas(dir, n) = Rest(dir, n, s, k, k) \cup {<<dir[s].entries[k], StartOf(dir[s], k)>>}
         /\ StartOf(dir[s], k) \in Nat /\ Lengths(SubSeq(dir[s].entries, k, k)) = dir[s].entries[k].len
<1> DEFINE es == dir[s].entries
           e == es[k]
           m == Len(data)
           rest == Residue(e, m)
           with == <<file>> \o rest
           at == StartOf(dir[s], k)
<1>1. dir \in Dir /\ s \in 1..n /\ 1..n \subseteq 1..Total /\ s \in 1..Total
  BY DEF PartOf
<1>2. es \in Seq(Entry) /\ Len(es) \in Nat /\ e \in Entry /\ m \in Nat /\ dir[s].start \in Nat
  BY <1>1, DirIs, ElementOfSeq, LenProperties
<1>3. OnlyPart(dir, segs', n, s, k, k, with) /\ rest \in Seq(Entry) /\ SubSeq(es, k, k) = <<e>>
      /\ Lengths(SubSeq(es, k, k)) = e.len /\ at \in Nat
  BY FillOnly
<1>4. Areas(segs', n) = Rest(dir, n, s, k, k) \cup Lying(with, at)
  <2> HIDE DEF with
  <2> DEFINE new == segs'
  <2>1. OnlyPart(dir, new, n, s, k, k, with)
    BY <1>3
  <2> HIDE DEF new
  <2>2. Areas(new, n) = Rest(dir, n, s, k, k) \cup Lying(with, StartOf(dir[s], k))
    BY <2>1, AreasSwapped
  <2>3. QED BY <2>2 DEF new
<1>5. Lying(with, at) = {<<file, at>>} \cup Lying(rest, at + m)
  <2>1. <<file>> \in Seq(Entry) /\ Lengths(<<file>>) = m
    BY LengthsOne
  <2> DEFINE one == <<file>>
  <2> HIDE DEF rest, at, one
  <2>2. Lying(one \o rest, at) = Lying(one, at) \cup Lying(rest, at + Lengths(one))
    BY <1>3, <2>1, LyingConcat DEF one
  <2>3. Lying(one, at) = {<<file, at>>}
    BY <1>3, LyingOne DEF one
  <2>4. QED BY <2>1, <2>2, <2>3 DEF one
<1>6. Areas(dir, n) = Rest(dir, n, s, k, k) \cup Lying(<<e>>, at)
  <2>1. Areas(dir, n) = Rest(dir, n, s, k, k) \cup Lying(SubSeq(dir[s].entries, k, k), StartOf(dir[s], k))
    BY AreasSplit
  <2>2. QED BY <1>3, <2>1
<1>7. Lying(<<e>>, at) = {<<e, at>>}
  BY <1>2, <1>3, LyingOne
<1> HIDE DEF e, m, rest, with, at, es
<1>8. Areas(segs', n) = Rest(dir, n, s, k, k) \cup {<<file, at>>} \cup Lying(rest, at + m)
  BY <1>4, <1>5
<1>9. Areas(dir, n) = Rest(dir, n, s, k, k) \cup {<<e, at>>}
  BY <1>6, <1>7
<1>10. QED BY <1>3, <1>8, <1>9 DEF e, m, rest, at, es

(* And its blocks over the area's, every other block left as it was.        *)
LEMMA FillBlocks ==
  ASSUME NEW dir, NEW s, NEW k, NEW data \in Seq(Block), NEW file, Fill(dir, s, k, file, data),
         blocks \in Seq(Block), StartOf(dir[s], k) \in Nat
  PROVE  /\ blocks' \in Seq(Block) /\ Len(blocks') = Len(blocks)
         /\ \A p \in 1..Len(blocks) :
              /\ p + DataStart - StartOf(dir[s], k) \in 1..Len(data) =>
                   blocks'[p] = data[p + DataStart - StartOf(dir[s], k)]
              /\ p + DataStart - StartOf(dir[s], k) \notin 1..Len(data) => blocks'[p] = blocks[p]
<1> DEFINE into(b) == b + DataStart - StartOf(dir[s], k)
<1>1. blocks' = [b \in DOMAIN blocks |-> IF into(b) \in DOMAIN data THEN data[into(b)] ELSE blocks[b]]
  BY DEF Fill
<1>2. DOMAIN blocks = 1..Len(blocks) /\ Len(blocks) \in Nat /\ DOMAIN data = 1..Len(data)
  BY LenProperties
<1>3. ASSUME NEW b \in 1..Len(blocks)
      PROVE  (IF into(b) \in DOMAIN data THEN data[into(b)] ELSE blocks[b]) \in Block
  <2> HIDE DEF into
  <2>1. CASE into(b) \in DOMAIN data
    BY <1>2, <2>1, ElementOfSeq
  <2>2. CASE into(b) \notin DOMAIN data
    BY <2>2, ElementOfSeq
  <2>3. QED BY <2>1, <2>2
<1> HIDE DEF into
<1>4. blocks' \in [1..Len(blocks) -> Block]
  BY <1>1, <1>2, <1>3
<1>5. \A p \in 1..Len(blocks) : /\ into(p) \in 1..Len(data) => blocks'[p] = data[into(p)]
                                /\ into(p) \notin 1..Len(data) => blocks'[p] = blocks[p]
  BY <1>1, <1>2
<1>6. blocks' \in Seq(Block) /\ Len(blocks') = Len(blocks)
  BY <1>2, <1>4
<1>7. QED BY <1>5, <1>6 DEF into

(* An area clear of the file's keeps its blocks.                            *)
LEMMA FillSpares ==
  ASSUME NEW dir, NEW s, NEW k, NEW data \in Seq(Block), NEW file, Fill(dir, s, k, file, data),
         blocks \in Seq(Block), StartOf(dir[s], k) \in Nat,
         NEW x, x[1].len \in Nat, x[2] \in Nat, DataStart <= x[2], x[2] + x[1].len <= DataStart + Len(blocks),
         x[2] + x[1].len <= StartOf(dir[s], k) \/ StartOf(dir[s], k) + Len(data) <= x[2]
  PROVE  Data(blocks', x) = Data(blocks, x) /\ FileAt(blocks', x) = FileAt(blocks, x)
<1> DEFINE at == StartOf(dir[s], k)
           len == x[1].len
           begin == x[2]
<1>1. /\ blocks' \in Seq(Block) /\ Len(blocks') = Len(blocks)
      /\ \A p \in 1..Len(blocks) : p + DataStart - at \notin 1..Len(data) => blocks'[p] = blocks[p]
  BY FillBlocks
<1>2. DataStart \in Nat /\ Len(data) \in Nat /\ Len(blocks) \in Nat
  BY DataStartNat, LenProperties
<1>3. ASSUME NEW i \in 1..len PROVE blocks'[(begin - DataStart) + i] = blocks[(begin - DataStart) + i]
  <2> DEFINE p == (begin - DataStart) + i
  <2>1. /\ len \in Nat /\ begin \in Nat /\ at \in Nat /\ DataStart <= begin
        /\ begin + len <= DataStart + Len(blocks)
        /\ begin + len <= at \/ at + Len(data) <= begin
    OBVIOUS
  <2> HIDE DEF at, len, begin
  <2>2. p \in 1..Len(blocks) /\ p + DataStart - at = (begin - at) + i
    <3>1. p \in Int /\ p = (begin - DataStart) + i /\ p >= 1 /\ p <= Len(blocks) /\ i \in Int /\ DataStart \in Int
      BY <1>2, <2>1
    <3> HIDE DEF p
    <3>2. p + DataStart - at = (begin - at) + i
      BY <2>1, <3>1
    <3>3. QED BY <1>2, <3>1, <3>2
  <2>3. (begin - at) + i \notin 1..Len(data)
    <3>1. CASE begin + len <= at
      BY <1>2, <2>1, <3>1
    <3>2. CASE at + Len(data) <= begin
      BY <1>2, <2>1, <3>2
    <3>3. QED BY <2>1, <3>1, <3>2
  <2> HIDE DEF p
  <2>4. blocks'[p] = blocks[p]
    BY <1>1, <2>2, <2>3
  <2>5. QED BY <2>4 DEF p
<1> DEFINE new == blocks'
<1>4. new \in Seq(Block) /\ Len(blocks) <= Len(new)
  BY <1>1, <1>2
<1> HIDE DEF new
<1>5. \A i \in 1..x[1].len : new[(x[2] - DataStart) + i] = blocks[(x[2] - DataStart) + i]
  BY <1>3 DEF new, len, begin
<1>6. Data(new, x) = Data(blocks, x) /\ FileAt(new, x) = FileAt(blocks, x)
  BY <1>4, <1>5, DataSame
<1>7. QED BY <1>6 DEF new

(* A file is stored, and no other changes.                                  *)
LEMMA FillStores ==
  ASSUME NEW dir, NEW n \in Nat, n # 0, Sound(dir, n, Size), blocks \in Seq(Block),
         NEW s, NEW k, PartOf(dir, n, s, k, k), k \in 1..Len(dir[s].entries), ~dir[s].entries[k].file,
         NEW data \in Seq(Block), NEW file \in Entry, file.file, file.len = Len(data),
         dir[s].entries[k].len >= Len(data), Fill(dir, s, k, file, data)
  PROVE  FilesAt(blocks', Areas(segs', n)) =
           FilesAt(blocks, Areas(dir, n)) \cup {[name |-> file.name, prot |-> file.prot, data |-> data]}
<1> DEFINE e == dir[s].entries[k]
           m == Len(data)
           at == StartOf(dir[s], k)
           rest == Rest(dir, n, s, k, k)
           left == Lying(Residue(e, m), at + m)
<1>1. /\ Areas(segs', n) = rest \cup {<<file, at>>} \cup left
      /\ Areas(dir, n) = rest \cup {<<e, at>>}
      /\ at \in Nat /\ Lengths(SubSeq(dir[s].entries, k, k)) = e.len
  BY FillAreas
<1>2. DataStart \in Nat /\ m \in Nat /\ Len(blocks) \in Nat /\ Size \in Nat /\ Size = DataStart + Len(blocks)
  BY DataStartNat, LenProperties DEF Size
<1>3. dir \in Dir /\ 1..n \subseteq 1..Total /\ s \in 1..n /\ s \in 1..Total
  BY DEF PartOf
<1>4. e \in Entry /\ e.len \in Nat /\ e.len >= m
  <2>1. e \in Entry
    BY <1>3, DirIs, ElementOfSeq
  <2>2. QED BY <2>1 DEF Entry
<1>5. <<e, at>> \in Areas(dir, n)
  BY <1>1
<1>6. DataStart <= at /\ at + e.len <= DataStart + Len(blocks)
  <2> DEFINE x == <<e, at>>
  <2>1. x \in Areas(dir, n) /\ x[1] = e /\ x[2] = at
    BY <1>5
  <2> HIDE DEF x
  <2>2. DataStart <= x[2] /\ x[2] + x[1].len <= Size
    BY <1>2, <1>3, <2>1, AreasWithin
  <2>3. QED BY <1>2, <2>1, <2>2
<1>7. ASSUME NEW x \in rest PROVE FileAt(blocks', x) = FileAt(blocks, x)
  <2>1. x \in Areas(dir, n) /\ (x[2] + x[1].len <= at \/ at + e.len <= x[2])
    BY <1>1, <1>2, RestApart
  <2>2. x[1].len \in Nat /\ x[2] \in Nat /\ DataStart <= x[2] /\ x[2] + x[1].len <= DataStart + Len(blocks)
    BY <1>2, <1>3, <2>1, AreasWithin
  <2>3. x[2] + x[1].len <= at \/ at + m <= x[2]
    <3> DEFINE begin == x[2]
               l == e.len
               end == x[2] + x[1].len
    <3>1. begin \in Nat /\ l \in Nat /\ l >= m /\ (end <= at \/ at + l <= begin)
      BY <1>4, <2>1, <2>2
    <3> HIDE DEF begin, l, end, at, m
    <3>2. end <= at \/ at + m <= begin
      BY <1>1, <1>2, <3>1
    <3>3. QED BY <3>2 DEF begin, end
  <2>4. QED BY <1>1, <2>2, <2>3, FillSpares, ZenonT(40)
<1>8. FileAt(blocks', <<file, at>>) = [name |-> file.name, prot |-> file.prot, data |-> data]
  <2> DEFINE x == <<file, at>>
             new == blocks'
             d == Data(new, x)
  <2>1. x[1] = file /\ x[2] = at /\ x[1].len = m
    OBVIOUS
  <2>2. /\ new \in Seq(Block) /\ Len(new) = Len(blocks)
        /\ \A p \in 1..Len(blocks) : p + DataStart - at \in 1..m => new[p] = data[p + DataStart - at]
    BY <1>1, FillBlocks
  <2> HIDE DEF x, new, at, m
  <2>3. x[2] + x[1].len <= DataStart + Len(new)
    <3> DEFINE l == e.len
    <3>1. l \in Nat /\ l >= m /\ at + l <= DataStart + Len(blocks)
      BY <1>4, <1>6
    <3> HIDE DEF l
    <3>2. at + m <= DataStart + Len(blocks)
      BY <1>1, <1>2, <3>1
    <3>3. QED BY <2>1, <2>2, <3>2
  <2>4. d \in Seq(Block) /\ Len(d) = m /\ \A i \in 1..m : d[i] = new[(at - DataStart) + i]
    <3>1. x[1].len \in Nat /\ x[2] \in Nat /\ DataStart <= x[2]
      BY <1>1, <1>2, <1>6, <2>1
    <3>2. Data(new, x) \in Seq(Block) /\ Len(Data(new, x)) = x[1].len
          /\ \A i \in 1..x[1].len : Data(new, x)[i] = new[(x[2] - DataStart) + i]
      BY <2>2, <2>3, <3>1, DataIs
    <3>3. QED BY <2>1, <3>2
  <2>5. ASSUME NEW i \in 1..m PROVE d[i] = data[i]
    <3> DEFINE p == (at - DataStart) + i
               l == e.len
    <3>1. l \in Nat /\ l >= m /\ at + l <= DataStart + Len(blocks) /\ DataStart <= at
      BY <1>4, <1>6
    <3> HIDE DEF l
    <3>2. p \in 1..Len(blocks) /\ p + DataStart - at = i
      BY <1>1, <1>2, <3>1
    <3> HIDE DEF p
    <3>3. new[p] = data[i]
      BY <2>2, <3>2
    <3>4. QED BY <2>4, <3>3 DEF p
  <2>6. d = data
    <3> HIDE DEF d
    <3>1. Len(data) = m
      BY DEF m
    <3>2. QED BY <2>4, <2>5, <3>1, SeqEqual
  <2>7. QED BY <2>1, <2>6 DEF FileAt, x, new, at
<1>9. \A x \in left : ~x[1].file
  <2>1. ASSUME m < e.len, NEW x \in left PROVE ~x[1].file
    <3>1. Free(e.len - m) \in Entry /\ ~Free(e.len - m).file
      BY <1>2, <1>4, <2>1 DEF Free, Area, Entry
    <3>2. Residue(e, m) = <<Free(e.len - m)>>
      BY <2>1 DEF Residue
    <3>3. at + m \in Nat
      BY <1>1, <1>2
    <3> DEFINE f == Free(e.len - m)
    <3> HIDE DEF f
    <3>4. Lying(<<f>>, at + m) = {<<f, at + m>>}
      BY <3>1, <3>3, LyingOne DEF f
    <3>5. QED BY <2>1, <3>1, <3>2, <3>4 DEF f
  <2>2. ~(m < e.len) => left = {}
    BY LyingNone DEF Residue
  <2>3. QED BY <2>1, <2>2
<1> HIDE DEF e, m, at, rest, left
<1>10. FilesAt(blocks', Areas(segs', n)) =
         FilesAt(blocks', rest) \cup FilesAt(blocks', {<<file, at>>}) \cup FilesAt(blocks', left)
  <2> DEFINE first == rest \cup {<<file, at>>}
  <2>1. FilesAt(blocks', first) = FilesAt(blocks', rest) \cup FilesAt(blocks', {<<file, at>>})
    BY FilesAtCup
  <2>2. FilesAt(blocks', first \cup left) = FilesAt(blocks', first) \cup FilesAt(blocks', left)
    BY FilesAtCup
  <2>3. QED BY <1>1, <2>1, <2>2
<1>11. FilesAt(blocks', left) = {}
  BY <1>9, FilesAtNone
<1>12. FilesAt(blocks', {<<file, at>>}) = {[name |-> file.name, prot |-> file.prot, data |-> data]}
  BY <1>8, FilesAtOne
<1>13. FilesAt(blocks', rest) = FilesAt(blocks, rest)
  BY <1>7, FilesSame
<1>14. FilesAt(blocks, Areas(dir, n)) = FilesAt(blocks, rest)
  <2>1. FilesAt(blocks, {<<e, at>>}) = {}
    BY FilesAtOne DEF e
  <2>2. FilesAt(blocks, rest \cup {<<e, at>>}) = FilesAt(blocks, rest) \cup FilesAt(blocks, {<<e, at>>})
    BY FilesAtCup
  <2>3. QED BY <1>1, <2>1, <2>2
<1>15. QED BY <1>10, <1>11, <1>12, <1>13, <1>14

(* A split moves no entry from its blocks.                                  *)
LEMMA SplitAreas ==
  ASSUME NEW dir \in Dir, highest \in 1..Total, highest < Total, NEW s \in 1..highest,
         NEW half \in 0..Len(dir[s].entries), half = Half(dir[s].entries)
  PROVE  Areas(Split(dir, s), highest + 1) = Areas(dir, highest)
<1> DEFINE new == Split(dir, s)
           es == dir[s].entries
           at == dir[s].start
           x == SubSeq(es, 1, half)
           z == SubSeq(es, half + 1, Len(es))
           lies(d, t) == Lying(d[t].entries, d[t].start)
           n == highest
<1>1. Total \in Nat /\ n \in Nat /\ s \in 1..Total /\ s # n + 1 /\ n + 1 \in 1..n + 1 /\ s \in 1..n + 1
      /\ 1..n \subseteq 1..Total
  BY LayoutAssumption
<1>2. /\ \A t \in 1..Total : t # s /\ t # n + 1 => new[t] = dir[t]
      /\ new[s].start = at /\ new[s].entries = x
      /\ new[n + 1].start = at + Lengths(x) /\ new[n + 1].entries = z
  BY <1>1, SplitIs
<1>3. es \in Seq(Entry) /\ at \in Nat /\ Len(es) \in Nat
  BY <1>1, DirIs
<1>4. x \in Seq(Entry) /\ z \in Seq(Entry) /\ x \o z = es
  <2> HIDE DEF es
  <2>1. half \in 0..Len(es)
    BY DEF es
  <2>2. QED BY <1>3, <2>1, HalvesAre
<1>5. lies(dir, s) = lies(new, s) \cup lies(new, n + 1)
  <2> HIDE DEF x, z, new
  <2>1. Lying(x \o z, at) = Lying(x, at) \cup Lying(z, at + Lengths(x))
    BY <1>3, <1>4, LyingConcat
  <2>2. QED BY <1>2, <1>4, <2>1
<1> HIDE DEF new, es, at, x, z
<1>6. \A t \in 1..n : t # s => lies(new, t) = lies(dir, t)
  BY <1>1, <1>2
<1> HIDE DEF lies, n
<1>7. 1..n + 1 = 1..n \cup {n + 1} /\ s \in 1..n
  BY <1>1 DEF n
<1>8. \A y : (\E t \in 1..n + 1 : y \in lies(new, t)) <=> \E t \in 1..n : y \in lies(dir, t)
  BY <1>5, <1>6, <1>7
<1>9. \A y : y \in Areas(new, n + 1) <=> \E t \in 1..n + 1 : y \in lies(new, t)
  BY DEF Areas, lies
<1>10. \A y : y \in Areas(dir, n) <=> \E t \in 1..n : y \in lies(dir, t)
  BY DEF Areas, lies
<1>11. Areas(new, n + 1) = Areas(dir, n)
  BY <1>8, <1>9, <1>10
<1>12. QED BY <1>11 DEF new, n

(* What putNewFile comes to: Fill in some directory of the same areas, the  *)
(* one given or that with a segment split.                                  *)
Parted(dir, new, n) ==
  \/ new = dir /\ n = highest
  \/ /\ n = highest + 1 /\ highest < Total
     /\ \E s \in 1..highest : Len(dir[s].entries) >= 2 /\ new = Split(dir, s)
Filled(dir, new, n, u, j, file, data) ==
  /\ n \in 1..Total /\ Sound(new, n, Size) /\ PartOf(new, n, u, j, j)
  /\ j \in 1..Len(new[u].entries) /\ ~new[u].entries[j].file /\ new[u].entries[j].len >= Len(data)
  /\ Fill(new, u, j, file, data)
  /\ Parted(dir, new, n) /\ Areas(new, n) = Areas(dir, highest)

LEMMA PutNewFills ==
  ASSUME segs \in Dir, highest \in 1..Total, blocks \in Seq(Block), NEW c, Link(segs, c, highest),
         NEW dir \in Dir, Link(dir, c, highest), Tile(dir, c, highest, Size),
         NEW data \in Seq(Block), NEW file, PutNew(dir, file, data)
  PROVE  \E new, u, j : Filled(dir, new, highest', u, j, file, data)
<1>1. /\ Total \in Nat /\ highest \in Nat /\ 1 <= highest /\ highest <= Total /\ 1..highest \subseteq 1..Total
  BY LayoutAssumption DEF Link
<1>2. ASSUME NEW at, NEW n, 1..n \subseteq 1..Total, NEW u \in 1..n, NEW j, Placed(at, u, j, file, data), at \in Dir
      PROVE  PartOf(at, n, u, j, j)
  <2>1. j \in 1..Len(at[u].entries) /\ u \in 1..Total
    BY <1>2 DEF Placed
  <2>2. Len(at[u].entries) \in Nat
    BY <1>2, <2>1, DirIs
  <2>3. j \in 1..Len(at[u].entries) + 1 /\ j \in j - 1..Len(at[u].entries)
    BY <2>1, <2>2
  <2>4. QED BY <1>2, <2>3 DEF PartOf
<1>3. ASSUME highest' = highest, NEW s \in 1..highest, NEW k \in Nat, Placed(dir, s, k, file, data)
      PROVE  Filled(dir, dir, highest', s, k, file, data)
  <2>1. PartOf(dir, highest, s, k, k)
    BY <1>1, <1>2, <1>3
  <2>2. QED BY <1>3, <2>1 DEF Filled, Placed, Parted, Sound
<1>4. ASSUME highest' = highest + 1, NEW s, NEW new, Splits(dir, new, s),
             NEW d, Link(new, d, highest + 1), Tile(new, d, highest + 1, Size),
             NEW u \in 1..highest + 1, NEW j \in Nat, Placed(new, u, j, file, data)
      PROVE  Filled(dir, new, highest', u, j, file, data)
  <2>1. /\ highest < Total /\ highest + 1 \in 1..Total /\ s \in 1..highest /\ s \in 1..Total /\ s # highest + 1
        /\ Len(dir[s].entries) >= 2 /\ new = Split(dir, s) /\ new \in Dir /\ 1..highest + 1 \subseteq 1..Total
    BY <1>1, <1>4 DEF Splits
  <2>2. PartOf(new, highest + 1, u, j, j)
    BY <1>2, <1>4, <2>1
  <2>3. Areas(new, highest + 1) = Areas(dir, highest)
    <3> DEFINE half == Half(dir[s].entries)
    <3>1. half = Half(dir[s].entries) /\ half \in 0..Len(dir[s].entries)
      BY <2>1, DirIs, HalfIs
    <3> HIDE DEF half
    <3>2. QED BY <2>1, <3>1, SplitAreas
  <2>4. Parted(dir, new, highest')
    BY <1>4, <2>1 DEF Parted
  <2>5. QED BY <1>4, <2>1, <2>2, <2>3, <2>4 DEF Filled, Placed, Sound
<1>5. QED BY <1>3, <1>4, PutNewHow

(* A file put is stored, and no other changes.                              *)
LEMMA PutNewStores ==
  ASSUME segs \in Dir, highest \in 1..Total, blocks \in Seq(Block), NEW c, Link(segs, c, highest),
         NEW dir \in Dir, Link(dir, c, highest), Tile(dir, c, highest, Size),
         NEW data \in Seq(Block), NEW file \in Entry, file.file, file.len = Len(data), PutNew(dir, file, data)
  PROVE  FilesAt(blocks', Areas(segs', highest')) =
           FilesAt(blocks, Areas(dir, highest)) \cup {[name |-> file.name, prot |-> file.prot, data |-> data]}
<1>1. PICK new, u, j : Filled(dir, new, highest', u, j, file, data)
  BY PutNewFills
<1> DEFINE n == highest'
<1>2. /\ n \in 1..Total /\ Sound(new, n, Size) /\ PartOf(new, n, u, j, j)
      /\ j \in 1..Len(new[u].entries) /\ ~new[u].entries[j].file /\ new[u].entries[j].len >= Len(data)
      /\ Fill(new, u, j, file, data)
      /\ Areas(new, n) = Areas(dir, highest)
  BY <1>1 DEF Filled
<1> HIDE DEF n
<1>3. n \in Nat /\ n # 0
  BY <1>2, LayoutAssumption
<1>4. FilesAt(blocks', Areas(segs', n)) =
        FilesAt(blocks, Areas(new, n)) \cup {[name |-> file.name, prot |-> file.prot, data |-> data]}
  BY <1>2, <1>3, FillStores
<1>5. QED BY <1>2, <1>4 DEF n

------------------------------------
(* One entry changed.                                                       *)

LEMMA EntrySwapped ==
  ASSUME NEW es \in Seq(Entry), NEW k \in 1..Len(es), NEW e \in Entry
  PROVE  [es EXCEPT ![k] = e] = Swapped(es, k, k, <<e>>)
<1> DEFINE new == [es EXCEPT ![k] = e]
           x == SubSeq(es, 1, k - 1)
           z == SubSeq(es, k + 1, Len(es))
           one == <<e>>
           n == Len(es)
<1>1. n \in Nat /\ k \in 1..n /\ DOMAIN es = 1..n
  BY LenProperties
<1>2. new \in Seq(Entry) /\ Len(new) = n /\ \A j \in 1..n : new[j] = IF j = k THEN e ELSE es[j]
  <2>1. \A j \in 1..n : es[j] \in Entry
    BY ElementOfSeq
  <2>2. new \in [1..n -> Entry]
    BY <1>1, <2>1
  <2>3. QED BY <1>1, <2>2
<1> HIDE DEF n, new
<1>3. /\ 1 \in 1..n + 1 /\ k - 1 \in 1 - 1..n /\ ((k - 1) - 1) + 1 = k - 1
      /\ k + 1 \in 1..n + 1 /\ n \in (k + 1) - 1..n /\ (n - (k + 1)) + 1 = n - k
  BY <1>1
<1>4. x \in Seq(Entry) /\ Len(x) = k - 1 /\ \A i \in 1..k - 1 : x[i] = es[(1 + i) - 1]
  BY <1>3, PartIs, SMTT(30) DEF n
<1>5. z \in Seq(Entry) /\ Len(z) = n - k /\ \A i \in 1..n - k : z[i] = es[((k + 1) + i) - 1]
  BY <1>3, PartIs, ZenonT(40) DEF n
<1>6. one \in Seq(Entry) /\ Len(one) = 1 /\ one[1] = e
  BY LengthsOne
<1> HIDE DEF x, z, one
<1> DEFINE xo == x \o one
           all == xo \o z
<1>7. xo \in Seq(Entry) /\ Len(xo) = k /\ \A i \in 1..k : xo[i] = IF i <= k - 1 THEN x[i] ELSE one[i - (k - 1)]
  <2>1. /\ xo \in Seq(Entry) /\ Len(xo) = Len(x) + Len(one)
        /\ \A i \in 1..Len(x) + Len(one) : xo[i] = IF i <= Len(x) THEN x[i] ELSE one[i - Len(x)]
    BY <1>4, <1>6, ConcatProperties
  <2>2. Len(x) + Len(one) = k
    BY <1>1, <1>4, <1>6
  <2>3. QED BY <1>4, <2>1, <2>2
<1> HIDE DEF xo
<1>8. all \in Seq(Entry) /\ Len(all) = n /\ \A i \in 1..n : all[i] = IF i <= k THEN xo[i] ELSE z[i - k]
  <2>1. /\ all \in Seq(Entry) /\ Len(all) = Len(xo) + Len(z)
        /\ \A i \in 1..Len(xo) + Len(z) : all[i] = IF i <= Len(xo) THEN xo[i] ELSE z[i - Len(xo)]
    BY <1>5, <1>7, ConcatProperties
  <2>2. Len(xo) + Len(z) = n
    BY <1>1, <1>5, <1>7
  <2>3. QED BY <1>7, <2>1, <2>2
<1> HIDE DEF all
<1>9. ASSUME NEW i \in 1..n PROVE all[i] = new[i]
  <2>1. CASE i < k
    <3>1. i \in 1..k - 1 /\ i \in 1..k /\ i <= k /\ i <= k - 1 /\ (1 + i) - 1 = i /\ i # k
      BY <1>1, <2>1
    <3>2. all[i] = xo[i] /\ xo[i] = x[i] /\ x[i] = es[i]
      BY <1>4, <1>7, <1>8, <3>1
    <3>3. QED BY <1>2, <3>1, <3>2
  <2>2. CASE i = k
    <3>1. k \in 1..k /\ k <= k /\ ~(k <= k - 1) /\ k - (k - 1) = 1
      BY <1>1
    <3>2. all[i] = xo[k] /\ xo[k] = one[1]
      BY <1>7, <1>8, <2>2, <3>1
    <3>3. QED BY <1>2, <1>6, <2>2, <3>2
  <2>3. CASE i > k
    <3>1. i - k \in 1..n - k /\ ~(i <= k) /\ ((k + 1) + (i - k)) - 1 = i /\ i # k
      BY <1>1, <2>3
    <3>2. all[i] = z[i - k] /\ z[i - k] = es[((k + 1) + (i - k)) - 1]
      BY <1>5, <1>8, <3>1
    <3>3. QED BY <1>2, <3>1, <3>2
  <2>4. i \in Nat /\ k \in Nat
    BY <1>1
  <2>5. QED BY <2>1, <2>2, <2>3, <2>4
<1>10. all = new
  BY <1>2, <1>8, <1>9, SeqEqual
<1>11. QED BY <1>10 DEF all, xo, x, z, one, new, n, Swapped

(* An entry changed, no longer or shorter unless it is the segment's last.  *)
LEMMA EntryOnly ==
  ASSUME NEW dir, NEW n, NEW s, NEW k, PartOf(dir, n, s, k, k), k \in 1..Len(dir[s].entries), NEW e \in Entry,
         e.len = dir[s].entries[k].len \/ k = Len(dir[s].entries)
  PROVE  /\ OnlyPart(dir, WithEntry(dir, s, k, e), n, s, k, k, <<e>>)
         /\ \A t \in 1..Total : /\ WithEntry(dir, s, k, e)[t].next = dir[t].next
                                /\ t # s => WithEntry(dir, s, k, e)[t].entries = dir[t].entries
         /\ SubSeq(dir[s].entries, k, k) = <<dir[s].entries[k]>>
         /\ Lengths(SubSeq(dir[s].entries, k, k)) = dir[s].entries[k].len
         /\ StartOf(dir[s], k) \in Nat
<1> DEFINE es == dir[s].entries
           old == es[k]
           at == StartOf(dir[s], k)
           one == <<e>>
           new == WithEntry(dir, s, k, e)
<1>1. dir \in Dir /\ s \in 1..n /\ 1..n \subseteq 1..Total /\ s \in 1..Total
  BY DEF PartOf
<1>2. es \in Seq(Entry) /\ Len(es) \in Nat /\ old \in Entry /\ dir[s].start \in Nat
  BY <1>1, DirIs, ElementOfSeq
<1>3. k \in 1..Len(es) /\ k \in 1..Len(es) + 1 /\ k \in k - 1..Len(es)
  BY <1>2
<1>4. one \in Seq(Entry) /\ Lengths(one) = e.len
  BY LengthsOne
<1>5. SubSeq(es, k, k) = <<old>> /\ Lengths(SubSeq(es, k, k)) = old.len
  <2> HIDE DEF es
  <2>1. SubSeq(es, k, k) \in Seq(Entry) /\ Len(SubSeq(es, k, k)) = (k - k) + 1
        /\ \A i \in 1..(k - k) + 1 : SubSeq(es, k, k)[i] = es[(k + i) - 1]
    BY <1>2, <1>3, PartIs
  <2>2. (k - k) + 1 = 1 /\ 1 \in 1..1 /\ (k + 1) - 1 = k
    BY <1>3
  <2> DEFINE part == SubSeq(es, k, k)
  <2>3. part \in Seq(Entry) /\ Len(part) = 1 /\ part[1] = es[k]
    BY <2>1, <2>2
  <2> HIDE DEF part
  <2>4. part = <<es[k]>>
    BY <2>3
  <2>5. Lengths(SubSeq(es, k, k)) = es[k].len
    BY <1>2, <1>3, PartOne
  <2>6. QED BY <2>4, <2>5 DEF part
<1>6. at \in Nat
  <2>1. SubSeq(es, 1, k - 1) \in Seq(Entry)
    BY <1>2, <1>3, PartsAre
  <2>2. Lengths(SubSeq(es, 1, k - 1)) \in Nat
    BY <2>1, LengthsNat
  <2>3. QED BY <1>2, <2>2 DEF StartOf
<1>7. /\ OnlyPart(dir, new, n, s, k, k, one)
      /\ \A t \in 1..Total : new[t].next = dir[t].next /\ (t # s => new[t].entries = dir[t].entries)
  <2> DEFINE es2 == [es EXCEPT ![k] = e]
  <2>1. new = WithEntries(dir, s, es2)
    BY <1>1 DEF Dir, WithEntry, WithEntries
  <2>2. es2 = Swapped(es, k, k, one) /\ es2 \in Seq(Entry)
    <3> HIDE DEF es
    <3>1. es2 = Swapped(es, k, k, <<e>>)
      BY <1>2, <1>3, EntrySwapped
    <3>2. es2 \in Seq(Entry)
      BY <1>2, <1>3
    <3>3. QED BY <3>1, <3>2
  <2> HIDE DEF es2, new
  <2>3. \A t \in 1..Total : /\ WithEntries(dir, s, es2)[t].next = dir[t].next
                            /\ WithEntries(dir, s, es2)[t].start = dir[t].start
                            /\ WithEntries(dir, s, es2)[t].entries = IF t = s THEN es2 ELSE dir[t].entries
    BY <1>1, <2>2, EntriesSet
  <2>4. /\ \A t \in 1..n : new[t].start = dir[t].start /\ (t # s => new[t].entries = dir[t].entries)
        /\ new[s].entries = es2
    BY <1>1, <2>1, <2>3
  <2> HIDE DEF one
  <2>5. \A t \in 1..Total : new[t].next = dir[t].next /\ (t # s => new[t].entries = dir[t].entries)
    BY <2>1, <2>3
  <2>6. e.len = old.len \/ k = Len(es)
    OBVIOUS
  <2>7. QED BY <1>4, <1>5, <2>2, <2>4, <2>5, <2>6 DEF OnlyPart, es
<1>8. QED BY <1>5, <1>6, <1>7

LEMMA EntryAreas ==
  ASSUME NEW dir, NEW n, NEW s, NEW k, PartOf(dir, n, s, k, k), k \in 1..Len(dir[s].entries),
         NEW e \in Entry, e.len = dir[s].entries[k].len
  PROVE  /\ Areas(WithEntry(dir, s, k, e), n) = Rest(dir, n, s, k, k) \cup {<<e, StartOf(dir[s], k)>>}
         /\ Areas(dir, n) = Rest(dir, n, s, k, k) \cup {<<dir[s].entries[k], StartOf(dir[s], k)>>}
         /\ StartOf(dir[s], k) \in Nat
<1> DEFINE es == dir[s].entries
           old == es[k]
           at == StartOf(dir[s], k)
           one == <<e>>
           new == WithEntry(dir, s, k, e)
<1>1. dir \in Dir /\ s \in 1..Total
  BY DEF PartOf
<1>2. es \in Seq(Entry) /\ Len(es) \in Nat /\ old \in Entry
  BY <1>1, DirIs, ElementOfSeq
<1>3. OnlyPart(dir, new, n, s, k, k, one) /\ SubSeq(es, k, k) = <<old>> /\ at \in Nat
  BY EntryOnly
<1> HIDE DEF new, one
<1>4. Areas(new, n) = Rest(dir, n, s, k, k) \cup Lying(one, at)
  BY <1>3, AreasSwapped
<1>5. Lying(one, at) = {<<e, at>>}
  BY <1>3, LyingOne DEF one
<1>6. Areas(dir, n) = Rest(dir, n, s, k, k) \cup Lying(<<old>>, at)
  <2>1. Areas(dir, n) = Rest(dir, n, s, k, k) \cup Lying(SubSeq(dir[s].entries, k, k), StartOf(dir[s], k))
    BY AreasSplit
  <2>2. QED BY <1>3, <2>1
<1>7. Lying(<<old>>, at) = {<<old, at>>}
  BY <1>2, <1>3, LyingOne
<1> HIDE DEF es, old, at
<1>8. QED BY <1>3, <1>4, <1>5, <1>6, <1>7 DEF es, old, at, new

(* The files but for one have other names.                                  *)
LEMMA RestNames ==
  ASSUME NEW dir, NEW n, NEW s, NEW k, PartOf(dir, n, s, k, k), k \in 1..Len(dir[s].entries),
         Unique(dir, n), dir[s].entries[k].file, NEW x \in Rest(dir, n, s, k, k), x[1].file
  PROVE  x[1].name # dir[s].entries[k].name
<1> DEFINE es == dir[s].entries
           m == Len(es)
           p == SubSeq(es, 1, k - 1)
           z == SubSeq(es, k + 1, m)
<1>1. dir \in Dir /\ s \in 1..n /\ 1..n \subseteq 1..Total /\ s \in 1..Total
  BY DEF PartOf
<1>2. es \in Seq(Entry) /\ m \in Nat /\ dir[s].start \in Nat
  BY <1>1, DirIs
<1>3. Once(es) /\ es[k].file /\ k \in 1..m
  BY <1>1 DEF Unique
<1>4. SUFFICES ASSUME x[1].name = es[k].name PROVE FALSE
  OBVIOUS
<1>5. ASSUME NEW j \in 1..m, x[1] = es[j] PROVE j = k
  BY <1>3, <1>4, <1>5 DEF Once
<1>6. ASSUME NEW at \in Nat, x \in Lying(p, at) PROVE FALSE
  <2> HIDE DEF es
  <2>1. 1 \in 1..m + 1 /\ k - 1 \in 1 - 1..m /\ ((k - 1) - 1) + 1 = k - 1
    BY <1>2, <1>3
  <2>2. p \in Seq(Entry) /\ Len(p) = k - 1 /\ \A i \in 1..k - 1 : p[i] = es[(1 + i) - 1]
    BY <1>2, <2>1, PartIs
  <2> HIDE DEF p
  <2>3. PICK i \in 1..k - 1 : x[1] = p[i]
    BY <1>6, <2>2, LyingWithin
  <2>4. (1 + i) - 1 = i /\ i \in 1..m /\ i # k
    BY <1>2, <1>3
  <2>5. QED BY <1>5, <2>2, <2>3, <2>4
<1>7. ASSUME NEW at \in Nat, x \in Lying(z, at) PROVE FALSE
  <2> HIDE DEF es
  <2>1. k + 1 \in 1..m + 1 /\ m \in (k + 1) - 1..m /\ (m - (k + 1)) + 1 = m - k
    BY <1>2, <1>3, SMTT(30)
  <2>2. z \in Seq(Entry) /\ Len(z) = m - k /\ \A i \in 1..m - k : z[i] = es[((k + 1) + i) - 1]
    BY <1>2, <2>1, PartIs
  <2> HIDE DEF z, m
  <2>3. PICK i \in 1..m - k : x[1] = z[i]
    BY <1>7, <2>2, LyingWithin
  <2>4. ((k + 1) + i) - 1 = k + i /\ k + i \in 1..m /\ k + i # k
    BY <1>2, <1>3, SMTT(30)
  <2>5. x[1] = es[k + i]
    BY <2>2, <2>3, <2>4
  <2>6. QED BY <1>5, <2>4, <2>5
<1>8. ASSUME NEW t \in 1..n, t # s, x \in Lying(dir[t].entries, dir[t].start) PROVE FALSE
  <2>1. dir[t].entries \in Seq(Entry) /\ dir[t].start \in Nat
    BY <1>1, DirIs
  <2>2. PICK j \in 1..Len(dir[t].entries) : x[1] = dir[t].entries[j]
    BY <1>8, <2>1, LyingWithin
  <2>3. x[1].name \in Named(dir[t].entries)
    BY <2>2, NamedIs
  <2>4. es[k].name \in Named(es)
    BY <1>3, NamedIs
  <2>5. Named(dir[t].entries) \cap Named(es) = {}
    BY <1>1, <1>8 DEF Unique
  <2>6. QED BY <1>4, <2>3, <2>4, <2>5
<1>9. dir[s].start \in Nat /\ StartOf(dir[s], k) + Lengths(SubSeq(es, k, k)) \in Nat
  <2> HIDE DEF es
  <2>1. k \in 1..Len(es) + 1 /\ k \in k - 1..Len(es)
    BY <1>2, <1>3
  <2>2. SubSeq(es, 1, k - 1) \in Seq(Entry) /\ SubSeq(es, k, k) \in Seq(Entry)
    BY <1>2, <2>1, PartsAre
  <2>3. Lengths(SubSeq(es, 1, k - 1)) \in Nat /\ Lengths(SubSeq(es, k, k)) \in Nat
    BY <2>2, LengthsNat
  <2>4. StartOf(dir[s], k) = dir[s].start + Lengths(SubSeq(es, 1, k - 1))
    BY DEF StartOf, es
  <2>5. QED BY <1>2, <2>3, <2>4
<1>10. \/ x \in Lying(p, dir[s].start)
       \/ x \in Lying(z, StartOf(dir[s], k) + Lengths(SubSeq(es, k, k)))
       \/ \E t \in 1..n : t # s /\ x \in Lying(dir[t].entries, dir[t].start)
  BY DEF Rest
<1> HIDE DEF p, z
<1>11. QED BY <1>6, <1>7, <1>8, <1>9, <1>10

(* A name no entry has no file has.                                         *)
LEMMA UnnamedFiles ==
  ASSUME NEW dir \in Dir, NEW n, 1..n \subseteq 1..Total, NEW b, NEW name,
         \A s \in 1..n : name \notin Named(dir[s].entries)
  PROVE  \A f \in FilesAt(b, Areas(dir, n)) : f.name # name
<1>1. TAKE f \in FilesAt(b, Areas(dir, n))
<1>2. PICK x \in Areas(dir, n) : x[1].file /\ f = FileAt(b, x)
  BY FilesAtIs
<1>3. PICK s \in 1..n : x \in Lying(dir[s].entries, dir[s].start)
  BY DEF Areas
<1>4. dir[s].entries \in Seq(Entry) /\ dir[s].start \in Nat
  BY DirIs
<1>5. PICK k \in 1..Len(dir[s].entries) : x[1] = dir[s].entries[k]
  BY <1>3, <1>4, LyingWithin
<1>6. x[1].name \in Named(dir[s].entries)
  BY <1>2, <1>5, NamedIs
<1>7. f.name = x[1].name
  BY <1>2 DEF FileAt
<1>8. QED BY <1>6, <1>7

(* The files but for one of them, and it.                                   *)
OneOf(fs, name, others, one) == fs \ Store!Named(fs, name) = others /\ Store!Named(fs, name) = {one}

LEMMA OneFile ==
  ASSUME NEW dir, NEW n, NEW s, NEW k, PartOf(dir, n, s, k, k), k \in 1..Len(dir[s].entries),
         Unique(dir, n), dir[s].entries[k].file, NEW b
  PROVE  OneOf(FilesAt(b, Areas(dir, n)), dir[s].entries[k].name, FilesAt(b, Rest(dir, n, s, k, k)),
               FileAt(b, <<dir[s].entries[k], StartOf(dir[s], k)>>))
<1> DEFINE fs == FilesAt(b, Areas(dir, n))
           e == dir[s].entries[k]
           x == <<e, StartOf(dir[s], k)>>
           one == FileAt(b, x)
           rest == Rest(dir, n, s, k, k)
<1>1. e \in Entry
  <2>1. dir \in Dir /\ s \in 1..Total
    BY DEF PartOf
  <2>2. QED BY <2>1, DirIs, ElementOfSeq
<1>2. Areas(dir, n) = rest \cup {x}
  <2>1. e.len = dir[s].entries[k].len
    OBVIOUS
  <2> HIDE DEF e, rest, x
  <2>2. Areas(dir, n) = Rest(dir, n, s, k, k) \cup {<<dir[s].entries[k], StartOf(dir[s], k)>>}
    BY <1>1, <2>1, EntryAreas
  <2>3. QED BY <2>2 DEF e, rest, x
<1>3. \A f \in FilesAt(b, rest) : f.name # e.name
  <2>1. TAKE f \in FilesAt(b, rest)
  <2>2. PICK y \in rest : y[1].file /\ f = FileAt(b, y)
    BY FilesAtIs
  <2>3. y[1].name # e.name
    BY <2>2, RestNames
  <2>4. f.name = y[1].name
    BY <2>2 DEF FileAt
  <2>5. QED BY <2>3, <2>4
<1>4. one.name = e.name
  BY DEF FileAt
<1>5. fs = FilesAt(b, rest) \cup {one}
  <2>1. FilesAt(b, {x}) = {one}
    BY FilesAtOne
  <2> HIDE DEF x, one, rest
  <2>2. FilesAt(b, rest \cup {x}) = FilesAt(b, rest) \cup FilesAt(b, {x})
    BY FilesAtCup
  <2>3. QED BY <1>2, <2>1, <2>2
<1> HIDE DEF fs, e, x, one, rest
<1>6. fs \ Store!Named(fs, e.name) = FilesAt(b, rest) /\ Store!Named(fs, e.name) = {one}
  BY <1>3, <1>4, <1>5, SMTT(30) DEF Store!Named
<1>7. QED BY <1>6 DEF fs, e, x, one, rest, OneOf

(* The file's entry unused, and then the run of unused areas it is part of  *)
(* one.                                                                     *)
Joins(dir, mid, n, k, a, b) ==
  /\ mid = WithEntry(segs, 1, k, Area(segs[1].entries[k].name, segs[1].entries[k].len))
  /\ mid[1].entries = Unfiled(segs[1].entries, k) /\ Run(mid[1].entries, k, a, b)
  /\ PartOf(mid, n, 1, a, b) /\ a \in 1..Len(mid[1].entries) /\ b \in a..Len(mid[1].entries)
  /\ StartOf(mid[1], a) \in Nat
  /\ Merged(SubSeq(mid[1].entries, a, b)) \in Entry
  /\ OnlyPart(mid, dir, n, 1, a, b, <<Merged(SubSeq(mid[1].entries, a, b))>>)

LEMMA RemovedOnly ==
  ASSUME segs \in Dir, NEW n, 1..n \subseteq 1..Total, 1 \in 1..n, NEW k \in 1..Len(segs[1].entries)
  PROVE  \E mid, a, b : Joins(Removed(k), mid, n, k, a, b)
<1> DEFINE old == segs[1].entries
           un == Unfiled(old, k)
           e == Area(old[k].name, old[k].len)
           mid == WithEntry(segs, 1, k, e)
<1>1. 1 \in 1..Total /\ old \in Seq(Entry) /\ Len(old) \in Nat
  BY DirIs
<1>2. un \in Seq(Entry) /\ Len(un) = Len(old)
  BY <1>1, RemovedIs
<1>3. PICK a, b \in 1..Len(old) : Run(un, k, a, b) /\ Removed(k) = [segs EXCEPT ![1].entries = Joined(un, a, b)]
  BY <1>1, RemovedIs
<1>4. mid = WithEntries(segs, 1, un)
  <2>1. un = [old EXCEPT ![k] = e]
    BY DEF Unfiled
  <2>2. QED BY <1>1, <2>1 DEF WithEntry, WithEntries, Dir
<1> HIDE DEF un, e, mid
<1>5. /\ mid \in Dir /\ mid[1].entries = un
      /\ \A t \in 1..Total : mid[t].start = segs[t].start /\ (t # 1 => mid[t].entries = segs[t].entries)
  BY <1>1, <1>2, <1>4, EntriesSet
<1>6. a \in 1..Len(un) /\ b \in a..Len(un) /\ a \in 1..Len(un) + 1 /\ b \in a - 1..Len(un) /\ a <= b
  <2>1. a \in 1..k /\ b \in k..Len(un) /\ k \in 1..Len(old)
    BY <1>3 DEF Run
  <2> HIDE DEF old
  <2>2. QED BY <1>1, <1>2, <2>1
<1> DEFINE run == SubSeq(un, a, b)
           one == <<Merged(run)>>
           new == Joined(un, a, b)
           dir == Removed(k)
<1>7. Merged(run) \in Entry /\ Merged(run).len = Lengths(run)
  <2>1. run \in Seq(Entry) /\ Len(run) = (b - a) + 1
    BY <1>2, <1>6, PartIs
  <2>2. run # <<>>
    BY <1>6, <2>1, EmptySeq
  <2> HIDE DEF run
  <2>3. Lengths(run) \in Nat /\ Head(run) \in Entry
    BY <2>1, <2>2, LengthsNat, HeadTailProperties
  <2>4. QED BY <2>3 DEF Merged, Area, Entry
<1>8. one \in Seq(Entry) /\ Lengths(one) = Lengths(run)
  <2> HIDE DEF run
  <2>1. QED BY <1>7, LengthsOne
<1>9. new \in Seq(Entry) /\ new = Swapped(un, a, b, one)
  <2>1. new = Swapped(un, a, b, one)
    BY DEF Joined, Swapped
  <2>2. new \in Seq(Entry)
    <3>1. Joined(un, a, b) \in Seq(Entry)
      BY <1>2, <1>6, JoinedIs
    <3>2. QED BY <3>1
  <2>3. QED BY <2>1, <2>2
<1>10. PartOf(mid, n, 1, a, b)
  BY <1>5, <1>6 DEF PartOf
<1>11. StartOf(mid[1], a) \in Nat
  <2>1. SubSeq(un, 1, a - 1) \in Seq(Entry)
    BY <1>2, <1>6, PartsAre
  <2>2. Lengths(SubSeq(un, 1, a - 1)) \in Nat
    BY <2>1, LengthsNat
  <2>3. segs[1].start \in Nat
    BY <1>1, DirIs
  <2>4. QED BY <1>1, <1>5, <2>2, <2>3 DEF StartOf
<1>12. OnlyPart(mid, dir, n, 1, a, b, one)
  <2> HIDE DEF new, run
  <2>1. dir = WithEntries(segs, 1, new)
    BY <1>3 DEF WithEntries, new
  <2> HIDE DEF dir
  <2>2. \A t \in 1..Total : /\ WithEntries(segs, 1, new)[t].start = segs[t].start
                            /\ WithEntries(segs, 1, new)[t].entries = IF t = 1 THEN new ELSE segs[t].entries
    BY <1>1, <1>9, EntriesSet
  <2>3. /\ \A t \in 1..n : dir[t].start = mid[t].start /\ (t # 1 => dir[t].entries = mid[t].entries)
        /\ dir[1].entries = new
    BY <1>1, <1>5, <2>1, <2>2
  <2> HIDE DEF one
  <2>4. QED BY <1>5, <1>8, <1>9, <2>3 DEF OnlyPart, run
<1>13. Joins(Removed(k), mid, n, k, a, b)
  <2>1. mid = WithEntry(segs, 1, k, Area(segs[1].entries[k].name, segs[1].entries[k].len))
    BY DEF mid, e
  <2>2. mid[1].entries = Unfiled(segs[1].entries, k) /\ Run(mid[1].entries, k, a, b)
        /\ Merged(SubSeq(mid[1].entries, a, b)) \in Entry
        /\ a \in 1..Len(mid[1].entries) /\ b \in a..Len(mid[1].entries)
    BY <1>3, <1>5, <1>6, <1>7 DEF un
  <2>3. OnlyPart(mid, Removed(k), n, 1, a, b, <<Merged(SubSeq(mid[1].entries, a, b))>>)
    BY <1>5, <1>12
  <2>4. QED BY <1>10, <1>11, <2>1, <2>2, <2>3 DEF Joins
<1>14. QED BY <1>13

(* A removed file's area joined with those around it: the areas but for     *)
(* that run, and it as one.                                                 *)
LEMMA RemovedAreas ==
  ASSUME segs \in Dir, NEW n, 1..n \subseteq 1..Total, 1 \in 1..n, NEW k \in 1..Len(segs[1].entries)
  PROVE  \E mid, a, b :
           /\ mid = WithEntry(segs, 1, k, Area(segs[1].entries[k].name, segs[1].entries[k].len))
           /\ mid[1].entries = Unfiled(segs[1].entries, k) /\ Run(mid[1].entries, k, a, b)
           /\ PartOf(mid, n, 1, a, b) /\ StartOf(mid[1], a) \in Nat
           /\ Merged(SubSeq(mid[1].entries, a, b)) \in Entry
           /\ Areas(mid, n) = Rest(mid, n, 1, a, b) \cup Lying(SubSeq(mid[1].entries, a, b), StartOf(mid[1], a))
           /\ Areas(Removed(k), n) =
                Rest(mid, n, 1, a, b) \cup {<<Merged(SubSeq(mid[1].entries, a, b)), StartOf(mid[1], a)>>}
<1>1. PICK mid, a, b : Joins(Removed(k), mid, n, k, a, b)
  BY RemovedOnly, ZenonT(40)
<1> DEFINE run == SubSeq(mid[1].entries, a, b)
           one == <<Merged(run)>>
           dir == Removed(k)
<1>2. OnlyPart(mid, dir, n, 1, a, b, one) /\ PartOf(mid, n, 1, a, b)
      /\ Merged(run) \in Entry /\ StartOf(mid[1], a) \in Nat
  BY <1>1 DEF Joins
<1>3. Areas(dir, n) = Rest(mid, n, 1, a, b) \cup {<<Merged(run), StartOf(mid[1], a)>>}
  <2> HIDE DEF dir, one
  <2>1. Areas(dir, n) = Rest(mid, n, 1, a, b) \cup Lying(one, StartOf(mid[1], a))
    BY <1>2, AreasSwapped
  <2> HIDE DEF run
  <2>2. Lying(one, StartOf(mid[1], a)) = {<<Merged(run), StartOf(mid[1], a)>>}
    BY <1>2, LyingOne DEF one
  <2>3. QED BY <2>1, <2>2
<1>4. Areas(mid, n) = Rest(mid, n, 1, a, b) \cup Lying(SubSeq(mid[1].entries, a, b), StartOf(mid[1], a))
  BY <1>2, AreasSplit
<1>5. QED
  <2>1. /\ mid = WithEntry(segs, 1, k, Area(segs[1].entries[k].name, segs[1].entries[k].len))
        /\ mid[1].entries = Unfiled(segs[1].entries, k) /\ Run(mid[1].entries, k, a, b)
    BY <1>1 DEF Joins
  <2>2. QED BY <1>2, <1>3, <1>4, <2>1, ZenonT(40)

(* A file removed leaves the others.                                        *)
LEMMA RemovedFiles ==
  ASSUME segs \in Dir, NEW n, 1..n \subseteq 1..Total, 1 \in 1..n, NEW k \in 1..Len(segs[1].entries), NEW b
  PROVE  FilesAt(b, Areas(Removed(k), n)) = FilesAt(b, Rest(segs, n, 1, k, k))
<1> DEFINE old == segs[1].entries
           e == Area(old[k].name, old[k].len)
<1>1. PICK mid, a, z :
           /\ mid = WithEntry(segs, 1, k, e)
           /\ mid[1].entries = Unfiled(segs[1].entries, k) /\ Run(mid[1].entries, k, a, z)
           /\ PartOf(mid, n, 1, a, z) /\ StartOf(mid[1], a) \in Nat
           /\ Merged(SubSeq(mid[1].entries, a, z)) \in Entry
           /\ Areas(mid, n) = Rest(mid, n, 1, a, z) \cup Lying(SubSeq(mid[1].entries, a, z), StartOf(mid[1], a))
           /\ Areas(Removed(k), n) =
                Rest(mid, n, 1, a, z) \cup {<<Merged(SubSeq(mid[1].entries, a, z)), StartOf(mid[1], a)>>}
  BY RemovedAreas
<1>2. 1 \in 1..Total /\ old \in Seq(Entry) /\ Len(old) \in Nat /\ old[k] \in Entry
  BY DirIs, ElementOfSeq
<1>3. e \in Entry /\ e.len = old[k].len /\ ~e.file
  BY <1>2 DEF Area, Entry
<1>4. PartOf(segs, n, 1, k, k)
  <2>1. k \in 1..Len(old) + 1 /\ k \in k - 1..Len(old)
    BY <1>2
  <2>2. QED BY <2>1 DEF PartOf
<1>5. Areas(mid, n) = Rest(segs, n, 1, k, k) \cup {<<e, StartOf(segs[1], k)>>}
  <2>1. e.len = segs[1].entries[k].len
    BY <1>3
  <2> HIDE DEF e
  <2>2. QED BY <1>1, <1>3, <1>4, <2>1, EntryAreas
<1> DEFINE run == SubSeq(mid[1].entries, a, z)
           at == StartOf(mid[1], a)
           rest == Rest(mid, n, 1, a, z)
<1>6. \A x \in Lying(run, at) : ~x[1].file
  <2>1. mid[1].entries \in Seq(Entry)
    <3>1. mid \in Dir /\ 1 \in 1..Total
      BY <1>1, <1>2, ZenonT(40) DEF PartOf
    <3>2. QED BY <3>1, DirIs, SMTT(30)
  <2> DEFINE es == mid[1].entries
  <2>2. a \in 1..Len(es) + 1 /\ z \in a - 1..Len(es) /\ \A i \in a..z : ~es[i].file
    BY <1>1, Zenon DEF PartOf, Run
  <2>3. es \in Seq(Entry) /\ Len(es) \in Nat
    BY <2>1, LenProperties
  <2> HIDE DEF es
  <2>4. SubSeq(es, a, z) \in Seq(Entry) /\ Len(SubSeq(es, a, z)) = (z - a) + 1
        /\ \A i \in 1..(z - a) + 1 : SubSeq(es, a, z)[i] = es[(a + i) - 1]
    BY <2>2, <2>3, PartIs
  <2>5. \A i \in 1..(z - a) + 1 : (a + i) - 1 \in a..z
    BY <2>2, <2>3
  <2>6. \A i \in 1..Len(SubSeq(es, a, z)) : ~SubSeq(es, a, z)[i].file
    BY <2>2, <2>4, <2>5
  <2>7. ASSUME NEW x \in Lying(SubSeq(es, a, z), at) PROVE ~x[1].file
    <3>1. PICK i \in 1..Len(SubSeq(es, a, z)) : x[1] = SubSeq(es, a, z)[i]
      BY <1>1, <2>4, <2>7, LyingWithin, Zenon
    <3>2. QED BY <2>6, <3>1, Zenon
  <2>8. QED BY <2>7 DEF es
<1>7. FilesAt(b, Areas(mid, n)) = FilesAt(b, rest)
  <2> HIDE DEF run, at, rest
  <2>1. FilesAt(b, Lying(run, at)) = {}
    BY <1>6, FilesAtNone
  <2>2. FilesAt(b, rest \cup Lying(run, at)) = FilesAt(b, rest) \cup FilesAt(b, Lying(run, at))
    BY FilesAtCup, SMTT(30)
  <2>3. Areas(mid, n) = rest \cup Lying(run, at)
    BY <1>1, Zenon DEF run, at, rest
  <2>4. QED BY <2>1, <2>2, <2>3
<1>8. FilesAt(b, Areas(Removed(k), n)) = FilesAt(b, rest)
  <2> DEFINE m == Merged(run)
  <2>1. ~m.file
    BY DEF Merged, Area
  <2>2. Areas(Removed(k), n) = rest \cup {<<m, at>>}
    BY <1>1, Zenon
  <2> HIDE DEF run, at, rest, m
  <2>3. FilesAt(b, {<<m, at>>}) = {}
    BY <2>1, FilesAtOne
  <2>4. FilesAt(b, rest \cup {<<m, at>>}) = FilesAt(b, rest) \cup FilesAt(b, {<<m, at>>})
    BY FilesAtCup
  <2>5. QED BY <2>2, <2>3, <2>4, Zenon
<1>9. FilesAt(b, Areas(mid, n)) = FilesAt(b, Rest(segs, n, 1, k, k))
  <2> DEFINE others == Rest(segs, n, 1, k, k)
             at1 == StartOf(segs[1], k)
  <2> HIDE DEF others, at1, e
  <2>1. Areas(mid, n) = others \cup {<<e, at1>>}
    BY <1>5 DEF others, at1
  <2>2. FilesAt(b, {<<e, at1>>}) = {}
    BY <1>3, FilesAtOne
  <2>3. FilesAt(b, others \cup {<<e, at1>>}) = FilesAt(b, others) \cup FilesAt(b, {<<e, at1>>})
    BY FilesAtCup
  <2>4. FilesAt(b, Areas(mid, n)) = FilesAt(b, others)
    BY <2>1, <2>2, <2>3
  <2>5. QED BY <2>4 DEF others
<1>10. QED BY <1>7, <1>8, <1>9

------------------------------------
(* What FileStore makes of each request.                                    *)

Grants(fs, r, fs2) == Store!Grantable(fs, r) /\ fs2 = Store!Granted(fs, r)

LEMMA PutGrants ==
  ASSUME NEW fs, NEW n, NEW data, NEW prot, \A f \in Store!Named(fs, n) : ~f.prot
  PROVE  Grants(fs, [NoRequest EXCEPT !.op = "put", !.name = n, !.data = data, !.prot = prot],
                (fs \ Store!Named(fs, n)) \cup {[name |-> n, prot |-> prot, data |-> data]})
<1> DEFINE r == [NoRequest EXCEPT !.op = "put", !.name = n, !.data = data, !.prot = prot]
<1>1. r.op = "put" /\ r.name = n /\ r.data = data /\ r.prot = prot
  BY DEF NoRequest
<1> HIDE DEF r
<1>2. Store!Grantable(fs, r)
  BY <1>1 DEF Store!Grantable
<1>3. Store!Granted(fs, r) = (fs \ Store!Named(fs, n)) \cup {[name |-> n, prot |-> prot, data |-> data]}
  BY <1>1 DEF Store!Granted
<1>4. QED BY <1>2, <1>3 DEF Grants, r

LEMMA RemoveGrants ==
  ASSUME NEW fs, NEW n, Store!Named(fs, n) # {}
  PROVE  Grants(fs, [NoRequest EXCEPT !.op = "remove", !.name = n], fs \ Store!Named(fs, n))
<1> DEFINE r == [NoRequest EXCEPT !.op = "remove", !.name = n]
<1>1. r.op = "remove" /\ r.name = n
  BY DEF NoRequest
<1> HIDE DEF r
<1>2. Store!Grantable(fs, r)
  BY <1>1 DEF Store!Grantable
<1>3. Store!Granted(fs, r) = fs \ Store!Named(fs, n)
  BY <1>1 DEF Store!Granted
<1>4. QED BY <1>2, <1>3 DEF Grants, r

Renamed(fs, n, to) == (fs \ Store!Named(fs, n)) \cup {[f EXCEPT !.name = to] : f \in Store!Named(fs, n)}
Protected(fs, n, on) == (fs \ Store!Named(fs, n)) \cup {[f EXCEPT !.prot = on] : f \in Store!Named(fs, n)}

LEMMA RenameGrants ==
  ASSUME NEW fs, NEW n, NEW to, Store!Named(fs, n) # {}, Store!Named(fs, to) = {}
  PROVE  Grants(fs, [NoRequest EXCEPT !.op = "rename", !.name = n, !.to = to], Renamed(fs, n, to))
<1> DEFINE r == [NoRequest EXCEPT !.op = "rename", !.name = n, !.to = to]
<1>1. r.op = "rename" /\ r.name = n /\ r.to = to
  BY DEF NoRequest
<1> HIDE DEF r
<1>2. Store!Grantable(fs, r)
  BY <1>1 DEF Store!Grantable
<1>3. Store!Granted(fs, r) = Renamed(fs, n, to)
  BY <1>1 DEF Store!Granted, Store!Changed, Renamed
<1>4. QED BY <1>2, <1>3 DEF Grants, r

LEMMA ProtectGrants ==
  ASSUME NEW fs, NEW n, NEW on, Store!Named(fs, n) # {}
  PROVE  Grants(fs, [NoRequest EXCEPT !.op = "protect", !.name = n, !.prot = on], Protected(fs, n, on))
<1> DEFINE r == [NoRequest EXCEPT !.op = "protect", !.name = n, !.prot = on]
<1>1. r.op = "protect" /\ r.name = n /\ r.prot = on
  BY DEF NoRequest
<1> HIDE DEF r
<1>2. Store!Grantable(fs, r)
  BY <1>1 DEF Store!Grantable
<1>3. Store!Granted(fs, r) = Protected(fs, n, on)
  BY <1>1 DEF Store!Granted, Store!Changed, Protected
<1>4. QED BY <1>2, <1>3 DEF Grants, r

LEMMA UndeleteGrants ==
  ASSUME NEW fs, NEW n, NEW data, Store!Named(fs, n) = {}
  PROVE  Grants(fs, [NoRequest EXCEPT !.op = "undelete", !.name = n, !.data = data],
                fs \cup {[name |-> n, prot |-> FALSE, data |-> data]})
<1> DEFINE r == [NoRequest EXCEPT !.op = "undelete", !.name = n, !.data = data]
<1>1. r.op = "undelete" /\ r.name = n /\ r.data = data
  BY DEF NoRequest
<1> HIDE DEF r
<1>2. Store!Grantable(fs, r)
  BY <1>1 DEF Store!Grantable
<1>3. Store!Granted(fs, r) = fs \cup {[name |-> n, prot |-> FALSE, data |-> data]}
  BY <1>1 DEF Store!Granted
<1>4. QED BY <1>2, <1>3 DEF Grants, r

LEMMA NoneGrants ==
  ASSUME NEW fs
  PROVE  Grants(fs, NoRequest, fs) /\ Grants(fs, [NoRequest EXCEPT !.op = "init"], {})
<1>1. NoRequest.op = "none"
  BY DEF NoRequest
<1>2. Grants(fs, NoRequest, fs)
  BY <1>1 DEF Store!Granted, Store!Grantable, Grants
<1> DEFINE r == [NoRequest EXCEPT !.op = "init"]
<1>3. r.op = "init"
  BY DEF NoRequest
<1> HIDE DEF r
<1>4. Grants(fs, r, {})
  BY <1>3 DEF Store!Granted, Store!Grantable, Grants
<1>5. QED BY <1>2, <1>4 DEF r

------------------------------------
(* The calls as requests granted.                                           *)

Stored == FilesAt(blocks, Areas(segs, highest))
Step == Grants(Stored, asked', Stored')

(* The first segment's file that a call by name finds.                      *)
LEMMA FoundIs ==
  ASSUME Chained, Unique(segs, highest), NEW n, FindFirst(n) # 0
  PROVE  LET k == FindFirst(n)
             e == segs[1].entries[k]
             rest == Rest(segs, highest, 1, k, k)
         IN /\ k \in 1..Len(segs[1].entries) /\ e \in Entry /\ e.file /\ e.name = n
            /\ PartOf(segs, highest, 1, k, k)
            /\ Stored \ Store!Named(Stored, n) = FilesAt(blocks, rest)
            /\ Store!Named(Stored, n) = {FileAt(blocks, <<e, StartOf(segs[1], k)>>)}
<1> DEFINE k == FindFirst(n)
           e == segs[1].entries[k]
           rest == Rest(segs, highest, 1, k, k)
<1>1. 1 \in 1..highest /\ 1 \in 1..Total /\ 1..highest \subseteq 1..Total /\ segs \in Dir
  BY Facts DEF Chained
<1>2. segs[1].entries \in Seq(Entry) /\ Len(segs[1].entries) \in Nat
  BY <1>1, DirIs
<1>3. k \in 1..Len(segs[1].entries) /\ e.file /\ e.name = n
  BY <1>2, FindFirstIs
<1>4. e \in Entry
  BY <1>2, <1>3, ElementOfSeq
<1> HIDE DEF k
<1>5. PartOf(segs, highest, 1, k, k)
  <2>1. k \in 1..Len(segs[1].entries) + 1 /\ k \in k - 1..Len(segs[1].entries)
    BY <1>2, <1>3
  <2>2. QED BY <1>1, <2>1 DEF PartOf
<1> DEFINE one == FileAt(blocks, <<segs[1].entries[k], StartOf(segs[1], k)>>)
           fs == FilesAt(blocks, Areas(segs, highest))
           name == segs[1].entries[k].name
           others == FilesAt(blocks, Rest(segs, highest, 1, k, k))
<1>6. OneOf(fs, name, others, one)
  <2>1. segs[1].entries[k].file
    BY <1>3
  <2> HIDE DEF e
  <2>2. QED BY <1>3, <1>5, <2>1, OneFile
<1>7. name = n /\ fs = Stored
  BY <1>3 DEF Stored
<1> HIDE DEF name, fs, one, others
<1>8. Stored \ Store!Named(Stored, n) = others /\ Store!Named(Stored, n) = {one}
  BY <1>6, <1>7 DEF OneOf
<1>9. QED BY <1>3, <1>4, <1>5, <1>8 DEF one, k, others

LEMMA NoneStored ==
  ASSUME Chained, NEW n, \A s \in 1..highest : n \notin Named(segs[s].entries)
  PROVE  Store!Named(Stored, n) = {}
<1>1. 1..highest \subseteq 1..Total /\ segs \in Dir
  BY Facts DEF Chained
<1>2. \A f \in Stored : f.name # n
  BY <1>1, UnnamedFiles DEF Stored
<1>3. QED BY <1>2 DEF Store!Named

(* Directory::find finds the one file of the name.                          *)
LEMMA FindIs ==
  ASSUME Chained, Unique(segs, highest), NEW n, FindFirst(n) # 0, FilesNamed(n) # {}
  PROVE  Find(n) = segs[1].entries[FindFirst(n)]
<1> DEFINE k == FindFirst(n)
           x == First(FilesNamed(n))
           es == segs[1].entries
<1>1. 1 \in 1..highest /\ 1..highest \subseteq 1..Total /\ segs \in Dir /\ highest \in 1..Total /\ 1 \in 1..Total
  BY Facts DEF Chained
<1>2. k \in 1..Len(es) /\ es[k].file /\ es[k].name = n
  BY <1>1, DirIs, FindFirstIs
<1>3. PICK c : Link(segs, c, highest) /\ Tile(segs, c, highest, Size)
  BY DEF Chained
<1>4. Chain = c /\ c \in [1..highest -> 1..highest]
  BY <1>1, <1>3, ChainIs DEF Link
<1>5. \A y \in FilesNamed(n) : /\ y \in Nat \X Nat /\ y[1] \in 1..highest
                               /\ y[2] \in 1..Len(segs[c[y[1]]].entries)
                               /\ segs[c[y[1]]].entries[y[2]].file /\ segs[c[y[1]]].entries[y[2]].name = n
  <2>1. TAKE y \in FilesNamed(n)
  <2>2. PICK i \in Reported(Chain) : \E j \in DOMAIN segs[Chain[i]].entries :
          y = <<i, j>> /\ segs[Chain[i]].entries[j].file /\ segs[Chain[i]].entries[j].name = n
    BY DEF FilesNamed
  <2>3. PICK j \in DOMAIN segs[Chain[i]].entries :
          y = <<i, j>> /\ segs[Chain[i]].entries[j].file /\ segs[Chain[i]].entries[j].name = n
    BY <2>2
  <2>4. i \in 1..highest /\ i \in Nat
    BY <1>1, <1>4 DEF Reported
  <2>5. c[i] \in 1..Total
    BY <1>1, <1>4, <2>4
  <2>6. DOMAIN segs[c[i]].entries = 1..Len(segs[c[i]].entries) /\ Len(segs[c[i]].entries) \in Nat
    BY <1>1, <2>5, DirIs
  <2>7. j \in Nat
    BY <1>4, <2>6
  <2>8. QED BY <1>4, <2>3, <2>4, <2>6, <2>7
<1>6. x \in FilesNamed(n)
  <2>1. FilesNamed(n) \in SUBSET (Nat \X Nat)
    BY <1>5
  <2>2. QED BY <2>1, FirstIs
<1> DEFINE t == c[x[1]]
           j == x[2]
<1>7. t \in 1..highest /\ j \in 1..Len(segs[t].entries) /\ segs[t].entries[j].file /\ segs[t].entries[j].name = n
  BY <1>4, <1>5, <1>6
<1>8. Find(n) = segs[t].entries[j]
  BY <1>4 DEF Find
<1> HIDE DEF k, x, t, j
<1>9. t = 1
  <2>1. n \in Named(es) /\ n \in Named(segs[t].entries)
    BY <1>2, <1>7, NamedIs
  <2>2. QED BY <1>1, <1>7, <2>1 DEF Unique
<1>10. j = k
  <2>1. Once(es)
    BY <1>1 DEF Unique
  <2>2. QED BY <1>2, <1>7, <1>9, <2>1 DEF Once
<1>11. QED BY <1>8, <1>9, <1>10 DEF k

LEMMA PutFileStores ==
  ASSUME Chained, Fits(segs, highest), Unique(segs, highest),
         NEW n \in Names, NEW data \in Contents, NEW prot \in PutAs, PutFile(n, data, prot)
  PROVE  Step
<1> DEFINE file == [file |-> TRUE, prot |-> prot, name |-> n, len |-> Len(data)]
           new == [name |-> n, prot |-> prot, data |-> data]
<1>1. data \in Seq(Block) /\ Len(data) \in Nat /\ prot \in BOOLEAN
  BY LenProperties, LayoutAssumption
<1>2. file \in Entry /\ file.len = Len(data) /\ file.file /\ file.name = n /\ file.prot = prot
  BY <1>1 DEF Entry
<1>3. PICK c : Link(segs, c, highest) /\ Tile(segs, c, highest, Size)
  BY DEF Chained
<1>4. /\ segs \in Dir /\ highest \in 1..Total /\ blocks \in Seq(Block)
      /\ Total \in Nat /\ highest \in Nat /\ highest # 0 /\ 1..highest \subseteq 1..Total /\ Size \in Nat
      /\ 1 \in 1..Total /\ 1 \in 1..highest
  BY Facts DEF Chained
<1>5. ASSUME NEW dir \in Dir, Link(dir, c, highest), Tile(dir, c, highest, Size), PutNew(dir, file, data)
      PROVE  Stored' = FilesAt(blocks, Areas(dir, highest)) \cup {new}
  <2> HIDE DEF file
  <2>1. FilesAt(blocks', Areas(segs', highest')) =
          FilesAt(blocks, Areas(dir, highest)) \cup {[name |-> file.name, prot |-> file.prot, data |-> data]}
    BY <1>1, <1>2, <1>3, <1>4, <1>5, PutNewStores
  <2>2. Stored' = FilesAt(blocks', Areas(segs', highest'))
    BY DEF Stored
  <2>3. QED BY <1>2, <2>1, <2>2
<1>6. asked' = [NoRequest EXCEPT !.op = "put", !.name = n, !.data = data, !.prot = prot]
  BY DEF PutFile
<1>7. SUFFICES /\ \A f \in Store!Named(Stored, n) : ~f.prot
               /\ Stored' = (Stored \ Store!Named(Stored, n)) \cup {new}
  BY <1>6, PutGrants DEF Step
<1>8. CASE FilesNamed(n) = {}
  <2>1. PutNew(segs, file, data)
    BY <1>8 DEF PutFile
  <2>2. Store!Named(Stored, n) = {}
    <3>1. \A t \in 1..highest : n \notin Named(segs[t].entries)
      BY <1>8, NoneNamed
    <3>2. QED BY <3>1, NoneStored
  <2> HIDE DEF file, new
  <2>3. Stored' = Stored \cup {new}
    BY <1>3, <1>4, <1>5, <2>1 DEF Stored
  <2>4. QED BY <2>2, <2>3
<1>9. CASE FilesNamed(n) # {}
  <2> DEFINE k == FindFirst(n)
             dir == Removed(k)
             e == segs[1].entries[k]
             rest == Rest(segs, highest, 1, k, k)
             old == FileAt(blocks, <<e, StartOf(segs[1], k)>>)
  <2>1. k # 0 /\ PutNew(dir, file, data) /\ ~Find(n).prot
    BY <1>9 DEF PutFile
  <2>2. /\ k \in 1..Len(segs[1].entries)
        /\ Stored \ Store!Named(Stored, n) = FilesAt(blocks, rest)
        /\ Store!Named(Stored, n) = {old}
    BY <2>1, FoundIs
  <2>3. ~e.prot
    BY <1>9, <2>1, FindIs
  <2>4. old.prot = e.prot
    BY DEF FileAt
  <2> HIDE DEF k, file, old, e
  <2>5. /\ dir \in Dir
        /\ \A t \in 1..Total : /\ dir[t].next = segs[t].next /\ dir[t].start = segs[t].start
                               /\ Lengths(dir[t].entries) = Lengths(segs[t].entries)
    BY <1>4, <2>2, RemovedKeeps
  <2>6. FilesAt(blocks, Areas(dir, highest)) = FilesAt(blocks, rest)
    BY <1>4, <2>2, RemovedFiles
  <2> HIDE DEF dir, rest, new
  <2>7. Link(dir, c, highest) /\ Tile(dir, c, highest, Size)
    BY <1>3, <1>4, <2>5, TileKept
  <2>8. Stored' = FilesAt(blocks, rest) \cup {new}
    BY <1>5, <2>1, <2>5, <2>6, <2>7
  <2>9. QED BY <2>2, <2>3, <2>4, <2>8
<1>10. QED BY <1>8, <1>9

LEMMA RemoveFileStores ==
  ASSUME Chained, Unique(segs, highest), NEW n \in Names, RemoveFile(n)
  PROVE  Step
<1> DEFINE k == FindFirst(n)
           rest == Rest(segs, highest, 1, k, k)
           old == FileAt(blocks, <<segs[1].entries[k], StartOf(segs[1], k)>>)
<1>1. k # 0 /\ segs' = Removed(k) /\ UNCHANGED <<highest, blocks>>
      /\ asked' = [NoRequest EXCEPT !.op = "remove", !.name = n]
  BY DEF RemoveFile
<1>2. /\ k \in 1..Len(segs[1].entries)
      /\ Stored \ Store!Named(Stored, n) = FilesAt(blocks, rest)
      /\ Store!Named(Stored, n) = {old}
  BY <1>1, FoundIs
<1>3. segs \in Dir /\ 1..highest \subseteq 1..Total /\ 1 \in 1..highest
  BY Facts DEF Chained
<1> HIDE DEF k, old
<1>4. FilesAt(blocks, Areas(Removed(k), highest)) = FilesAt(blocks, rest)
  BY <1>2, <1>3, RemovedFiles
<1>5. Stored' = FilesAt(blocks, Areas(Removed(k), highest))
  BY <1>1 DEF Stored
<1>6. Grants(Stored, [NoRequest EXCEPT !.op = "remove", !.name = n], Stored \ Store!Named(Stored, n))
  BY <1>2, RemoveGrants
<1>7. QED BY <1>1, <1>2, <1>4, <1>5, <1>6 DEF Step

(* The first segment's entry changed in its name or its protection.         *)
LEMMA MutateStores ==
  ASSUME Chained, Unique(segs, highest), NEW n, NEW e, Mutate(n, e), e \in Entry, e.file,
         e.len = segs[1].entries[FindFirst(n)].len
  PROVE  LET at == StartOf(segs[1], FindFirst(n))
             old == FileAt(blocks, <<segs[1].entries[FindFirst(n)], at>>)
             new == FileAt(blocks, <<e, at>>)
         IN /\ Store!Named(Stored, n) = {old}
            /\ Stored' = (Stored \ Store!Named(Stored, n)) \cup {new}
<1> DEFINE k == FindFirst(n)
           rest == Rest(segs, highest, 1, k, k)
           at == StartOf(segs[1], k)
           old == FileAt(blocks, <<segs[1].entries[k], at>>)
           new == FileAt(blocks, <<e, at>>)
<1>1. k # 0 /\ segs' = WithEntry(segs, 1, k, e) /\ UNCHANGED <<highest, blocks>>
  BY DEF Mutate, WithEntry
<1>2. /\ k \in 1..Len(segs[1].entries) /\ PartOf(segs, highest, 1, k, k)
      /\ Stored \ Store!Named(Stored, n) = FilesAt(blocks, rest)
      /\ Store!Named(Stored, n) = {old}
  BY <1>1, FoundIs
<1>3. e.len = segs[1].entries[k].len
  OBVIOUS
<1> HIDE DEF k
<1>4. Areas(WithEntry(segs, 1, k, e), highest) = rest \cup {<<e, at>>}
  BY <1>2, <1>3, EntryAreas
<1>5. Stored' = FilesAt(blocks, rest \cup {<<e, at>>})
  BY <1>1, <1>4 DEF Stored
<1> HIDE DEF rest, at, old
<1>6. FilesAt(blocks, {<<e, at>>}) = {new}
  BY FilesAtOne
<1>7. FilesAt(blocks, rest \cup {<<e, at>>}) = FilesAt(blocks, rest) \cup FilesAt(blocks, {<<e, at>>})
  BY FilesAtCup
<1> HIDE DEF new
<1>8. Store!Named(Stored, n) = {old} /\ Stored' = (Stored \ Store!Named(Stored, n)) \cup {new}
  BY <1>2, <1>5, <1>6, <1>7
<1>9. QED BY <1>8 DEF old, new, at, k

LEMMA RenameFileStores ==
  ASSUME Chained, Fits(segs, highest), Unique(segs, highest), NEW n \in Names, NEW to \in Names, RenameFile(n, to)
  PROVE  Step
<1> DEFINE e == Renaming(n, to)
           old == segs[1].entries[FindFirst(n)]
           at == StartOf(segs[1], FindFirst(n))
           f == FileAt(blocks, <<old, at>>)
           g == FileAt(blocks, <<e, at>>)
<1>1. /\ Mutate(n, e) /\ FilesNamed(to) = {} /\ asked' = [NoRequest EXCEPT !.op = "rename", !.name = n, !.to = to]
      /\ e \in Entry /\ e.file /\ e.len = old.len /\ e.prot = old.prot /\ e.name = to
  BY RenameFileIs, Facts DEF Chained
<1> HIDE DEF e
<1>2. Store!Named(Stored, n) = {f} /\ Stored' = (Stored \ Store!Named(Stored, n)) \cup {g}
  BY <1>1, MutateStores
<1>3. g = [f EXCEPT !.name = to]
  <2> DEFINE d == Data(blocks, <<old, at>>)
  <2> HIDE DEF at, old
  <2>1. Data(blocks, <<e, at>>) = d
    BY <1>1 DEF Data
  <2> HIDE DEF d
  <2>2. f = [name |-> old.name, prot |-> old.prot, data |-> d] /\ g = [name |-> e.name, prot |-> e.prot, data |-> d]
    BY <2>1 DEF FileAt, d
  <2>3. QED BY <1>1, <2>2
<1>4. Store!Named(Stored, to) = {}
  <2>1. \A t \in 1..highest : to \notin Named(segs[t].entries)
    BY <1>1, NoneNamed
  <2>2. QED BY <2>1, NoneStored
<1> HIDE DEF f, g
<1>5. {[x EXCEPT !.name = to] : x \in Store!Named(Stored, n)} = {g}
  BY <1>2, <1>3
<1>6. Grants(Stored, [NoRequest EXCEPT !.op = "rename", !.name = n, !.to = to], Renamed(Stored, n, to))
  <2>1. Store!Named(Stored, n) # {}
    BY <1>2
  <2>2. QED BY <1>4, <2>1, RenameGrants
<1>7. Renamed(Stored, n, to) = Stored'
  BY <1>2, <1>5 DEF Renamed
<1>8. QED BY <1>1, <1>6, <1>7 DEF Step

LEMMA SetProtectedStores ==
  ASSUME Chained, Unique(segs, highest), NEW n \in Names, NEW on \in BOOLEAN, SetProtected(n, on)
  PROVE  Step
<1> DEFINE e == Protecting(n, on)
           old == segs[1].entries[FindFirst(n)]
           at == StartOf(segs[1], FindFirst(n))
           f == FileAt(blocks, <<old, at>>)
           g == FileAt(blocks, <<e, at>>)
<1>1. /\ Mutate(n, e) /\ asked' = [NoRequest EXCEPT !.op = "protect", !.name = n, !.prot = on]
      /\ e \in Entry /\ e.file /\ e.len = old.len /\ e.prot = on /\ e.name = old.name
  BY SetProtectedIs, Facts DEF Chained
<1> HIDE DEF e
<1>2. Store!Named(Stored, n) = {f} /\ Stored' = (Stored \ Store!Named(Stored, n)) \cup {g}
  BY <1>1, MutateStores
<1>3. g = [f EXCEPT !.prot = on]
  <2> DEFINE d == Data(blocks, <<old, at>>)
  <2> HIDE DEF at, old
  <2>1. Data(blocks, <<e, at>>) = d
    BY <1>1 DEF Data
  <2> HIDE DEF d
  <2>2. f = [name |-> old.name, prot |-> old.prot, data |-> d] /\ g = [name |-> e.name, prot |-> e.prot, data |-> d]
    BY <2>1 DEF FileAt, d
  <2>3. QED BY <1>1, <2>2
<1> HIDE DEF f, g
<1>4. {[x EXCEPT !.prot = on] : x \in Store!Named(Stored, n)} = {g}
  BY <1>2, <1>3
<1>5. Grants(Stored, [NoRequest EXCEPT !.op = "protect", !.name = n, !.prot = on], Protected(Stored, n, on))
  <2>1. Store!Named(Stored, n) # {}
    BY <1>2
  <2>2. QED BY <2>1, ProtectGrants
<1>6. Protected(Stored, n, on) = Stored'
  BY <1>2, <1>4 DEF Protected
<1>7. QED BY <1>1, <1>5, <1>6 DEF Step

(* No name sought in the first segment in vain is among its names.          *)
LEMMA NotFound ==
  ASSUME NEW n, FindFirst(n) = 0
  PROVE  n \notin Named(segs[1].entries)
<1> DEFINE es == segs[1].entries
<1>1. SUFFICES ASSUME n \in Named(es) PROVE FALSE
  OBVIOUS
<1> DEFINE I == {i \in 1..Len(es) : es[i].file /\ es[i].name = n}
<1>2. I \in SUBSET Nat /\ I # {} /\ 0 \notin I
  BY <1>1, NamedIs
<1>3. FindFirst(n) = IF I # {} THEN Min(I) ELSE 0
  BY DEF FindFirst, SelectInSeq
<1> HIDE DEF I
<1>4. Min(I) \in I
  BY <1>2, FirstOf DEF Min
<1>5. QED BY <1>2, <1>3, <1>4

LEMMA UndeleteEntryStores ==
  ASSUME Chained, highest = 1, NEW k \in DOMAIN segs[1].entries, NEW new \in Names \cup {NoName}, UndeleteEntry(k, new)
  PROVE  Step
<1> DEFINE es == segs[1].entries
           old == es[k]
           under == IF new = NoName THEN old.name ELSE new
           e == [file |-> TRUE, prot |-> FALSE, name |-> under, len |-> old.len]
           at == StartOf(segs[1], k)
           rest == Rest(segs, highest, 1, k, k)
           data == BlocksAt(at, old.len)
           f == [name |-> under, prot |-> FALSE, data |-> data]
<1>1. /\ segs' = WithEntry(segs, 1, k, e) /\ UNCHANGED <<highest, blocks>> /\ FindFirst(under) = 0 /\ ~old.file
      /\ asked' = [NoRequest EXCEPT !.op = "undelete", !.name = under, !.data = data]
  BY DEF UndeleteEntry, WithEntry
<1>2. /\ 1 \in 1..highest /\ 1 \in 1..Total /\ 1..highest \subseteq 1..Total /\ segs \in Dir
  BY Facts DEF Chained
<1>3. k \in 1..Len(es) /\ es \in Seq(Entry) /\ Len(es) \in Nat
  BY <1>2, DirIs
<1>4. old \in Entry
  BY <1>3, ElementOfSeq
<1>5. e \in Entry /\ e.len = old.len /\ e.file /\ e.name = under /\ e.prot = FALSE
  <2> HIDE DEF old
  <2>1. QED BY <1>4 DEF Entry
<1>6. PartOf(segs, highest, 1, k, k)
  <2>1. k \in 1..Len(es) + 1 /\ k \in k - 1..Len(es)
    BY <1>3
  <2>2. QED BY <1>2, <2>1 DEF PartOf
<1>7. Store!Named(Stored, under) = {}
  <2> HIDE DEF under
  <2>1. under \notin Named(segs[1].entries)
    BY <1>1, NotFound
  <2>2. \A t \in 1..highest : t = 1
    OBVIOUS
  <2>3. \A t \in 1..highest : under \notin Named(segs[t].entries)
    BY <2>1, <2>2
  <2>4. QED BY <2>3, NoneStored
<1>8. Areas(WithEntry(segs, 1, k, e), highest) = rest \cup {<<e, at>>}
      /\ Areas(segs, highest) = rest \cup {<<old, at>>}
  <2> HIDE DEF e
  <2>1. e.len = segs[1].entries[k].len
    BY <1>5
  <2>2. QED BY <1>3, <1>5, <1>6, <2>1, EntryAreas
<1>9. FileAt(blocks, <<e, at>>) = f
  <2>1. f = [name |-> e.name, prot |-> e.prot, data |-> BlocksAt(at, e.len)]
    BY <1>5
  <2> HIDE DEF e, at, f
  <2>2. QED BY <2>1 DEF FileAt, Data, BlocksAt
<1> HIDE DEF e, at, rest, old, under, f, data
<1>10. Stored = FilesAt(blocks, rest)
  <2>1. FilesAt(blocks, {<<old, at>>}) = {}
    BY <1>1, FilesAtOne
  <2>2. FilesAt(blocks, rest \cup {<<old, at>>}) = FilesAt(blocks, rest) \cup FilesAt(blocks, {<<old, at>>})
    BY FilesAtCup
  <2>3. QED BY <1>8, <2>1, <2>2 DEF Stored
<1>11. Stored' = FilesAt(blocks, rest) \cup {f}
  <2>1. FilesAt(blocks, {<<e, at>>}) = {f}
    BY <1>5, <1>9, FilesAtOne
  <2>2. FilesAt(blocks, rest \cup {<<e, at>>}) = FilesAt(blocks, rest) \cup FilesAt(blocks, {<<e, at>>})
    BY FilesAtCup
  <2>3. Stored' = FilesAt(blocks, Areas(WithEntry(segs, 1, k, e), highest))
    BY <1>1 DEF Stored
  <2>4. QED BY <1>8, <2>1, <2>2, <2>3
<1>12. Grants(Stored, [NoRequest EXCEPT !.op = "undelete", !.name = under, !.data = data],
              Stored \cup {[name |-> under, prot |-> FALSE, data |-> data]})
  BY <1>7, UndeleteGrants
<1>13. QED BY <1>1, <1>10, <1>11, <1>12 DEF Step, f

------------------------------------
(* Squeeze: the files of the one segment, gathered at the front.            *)

LEMMA DataAt ==
  ASSUME NEW b \in Seq(Block), NEW e \in Entry, NEW at \in Nat, at + e.len <= Len(b)
  PROVE  /\ Data(b, <<e, DataStart + at>>) \in Seq(Block) /\ Len(Data(b, <<e, DataStart + at>>)) = e.len
         /\ \A i \in 1..e.len : Data(b, <<e, DataStart + at>>)[i] = b[at + i]
<1> DEFINE x == <<e, DataStart + at>>
<1>1. e.len \in Nat /\ DataStart \in Nat /\ Len(b) \in Nat
  BY DataStartNat, LenProperties DEF Entry
<1>2. x[1] = e /\ x[2] = DataStart + at
  OBVIOUS
<1> HIDE DEF x
<1>3. x[1].len \in Nat /\ x[2] \in Nat /\ DataStart <= x[2] /\ x[2] + x[1].len <= DataStart + Len(b)
      /\ x[2] - DataStart = at
  BY <1>1, <1>2
<1>4. /\ Data(b, x) \in Seq(Block) /\ Len(Data(b, x)) = x[1].len
      /\ \A i \in 1..x[1].len : Data(b, x)[i] = b[(x[2] - DataStart) + i]
  BY <1>3, DataIs
<1>5. QED BY <1>2, <1>3, <1>4 DEF x

(* A file whose blocks are elsewhere in the other blocks.                   *)
LEMMA FileMoved ==
  ASSUME NEW b \in Seq(Block), NEW c \in Seq(Block), NEW e \in Entry, NEW from \in Nat, NEW to \in Nat,
         from + e.len <= Len(b), to + e.len <= Len(c), \A i \in 1..e.len : c[to + i] = b[from + i]
  PROVE  FileAt(c, <<e, DataStart + to>>) = FileAt(b, <<e, DataStart + from>>)
<1> DEFINE x == <<e, DataStart + from>>
           y == <<e, DataStart + to>>
           d == Data(b, x)
           g == Data(c, y)
<1>1. d \in Seq(Block) /\ Len(d) = e.len /\ \A i \in 1..e.len : d[i] = b[from + i]
  BY DataAt
<1>2. g \in Seq(Block) /\ Len(g) = e.len /\ \A i \in 1..e.len : g[i] = c[to + i]
  BY DataAt
<1>3. FileAt(b, x) = [name |-> e.name, prot |-> e.prot, data |-> d]
      /\ FileAt(c, y) = [name |-> e.name, prot |-> e.prot, data |-> g]
  BY DEF FileAt
<1> HIDE DEF d, g
<1>4. \A i \in 1..Len(d) : g[i] = d[i]
  BY <1>1, <1>2
<1>5. g = d
  BY <1>1, <1>2, <1>4, SeqEqual
<1>6. QED BY <1>3, <1>5

(* Each block is read before it is written over.                            *)
LEMMA MovedGathers ==
  ASSUME blocks \in Seq(Block), NEW moves \in Seq(Nat \X (1..Len(blocks))),
         \A p \in 1..Len(moves) : moves[p][1] = p /\ p <= moves[p][2]
  PROVE  \A p \in 1..Len(moves) : Moved(moves)[p] = blocks[moves[p][2]]
<1> DEFINE n == Len(moves)
           N == Len(blocks)
           F == [1..N -> Block]
<1>1. n \in Nat /\ N \in Nat /\ blocks \in F
  BY LenProperties
<1>2. PICK w : /\ w = [k \in 0..n |-> IF k = 0 THEN blocks ELSE Carried(w[k - 1], moves[k])]
               /\ Moved(moves) = w[n]
  BY <1>1, MovedUnfolds
<1>3. \A k \in 1..n : moves[k][1] = k /\ k <= moves[k][2] /\ moves[k][2] \in 1..N
  <2>1. TAKE k \in 1..n
  <2>2. moves[k] \in Nat \X (1..N)
    BY ElementOfSeq
  <2>3. QED BY <2>2
<1> HIDE DEF n, N
<1> DEFINE Good(k) == /\ w[k] \in F
                      /\ \A p \in 1..k : w[k][p] = blocks[moves[p][2]]
                      /\ \A p \in k + 1..N : w[k][p] = blocks[p]
           T == {k \in Nat : k <= n => Good(k)}
<1>4. 0 \in T
  <2>1. w[0] = blocks
    BY <1>1, <1>2
  <2>2. QED BY <1>1, <2>1
<1>5. ASSUME NEW k \in Nat, k \in T PROVE k + 1 \in T
  <2>1. SUFFICES ASSUME k + 1 <= n PROVE Good(k + 1)
    OBVIOUS
  <2>2. Good(k) /\ k + 1 \in 1..n /\ (k + 1) - 1 = k
    BY <1>1, <1>5, <2>1
  <2>3. w[k + 1] = Carried(w[k], moves[k + 1])
    <3>1. k + 1 \in 0..n /\ k + 1 # 0
      BY <1>1, <2>2
    <3>2. w[k + 1] = IF k + 1 = 0 THEN blocks ELSE Carried(w[(k + 1) - 1], moves[k + 1])
      BY <1>2, <3>1, Zenon
    <3>3. QED BY <2>2, <3>1, <3>2
  <2> DEFINE from == moves[k + 1][2]
  <2>4. moves[k + 1][1] = k + 1 /\ from \in k + 1..N /\ from \in 1..N /\ k + 1 \in 1..N
    BY <1>1, <1>3, <2>2
  <2>5. w[k + 1] = [w[k] EXCEPT ![k + 1] = w[k][from]]
    BY <2>3, <2>4 DEF Carried
  <2>6. w[k][from] = blocks[from] /\ blocks[from] \in Block
    BY <1>1, <2>2, <2>4
  <2>7. w[k + 1] \in F /\ w[k + 1][k + 1] = blocks[from] /\ \A p \in 1..N : p # k + 1 => w[k + 1][p] = w[k][p]
    <3> HIDE DEF from
    <3>1. w[k] \in F /\ w[k][from] \in Block /\ k + 1 \in 1..N
      BY <2>2, <2>4, <2>6
    <3> HIDE DEF Good
    <3>2. w[k + 1] \in F /\ w[k + 1][k + 1] = w[k][from]
      BY <2>5, <3>1, Zenon
    <3>3. \A p \in 1..N : p # k + 1 => w[k + 1][p] = w[k][p]
      BY <2>5, <3>1, Zenon
    <3>4. QED BY <2>6, <3>2, <3>3, Zenon
  <2>8. ASSUME NEW p \in 1..k + 1 PROVE w[k + 1][p] = blocks[moves[p][2]]
    <3>1. CASE p = k + 1
      BY <2>7, <3>1
    <3>2. CASE p # k + 1
      <4>1. p \in 1..k /\ p \in 1..N
        BY <1>1, <2>4, <3>2
      <4>2. QED BY <2>2, <2>7, <3>2, <4>1
    <3>3. QED BY <3>1, <3>2
  <2>9. ASSUME NEW p \in (k + 1) + 1..N PROVE w[k + 1][p] = blocks[p]
    <3>1. p \in k + 1..N /\ p \in 1..N /\ p # k + 1
      BY <1>1
    <3>2. QED BY <2>2, <2>7, <3>1
  <2> HIDE DEF F
  <2>10. QED BY <2>7, <2>8, <2>9
<1>6. Nat \subseteq T
  <2> HIDE DEF T
  <2>1. QED BY <1>4, <1>5, Induction
<1>7. Good(n)
  <2> HIDE DEF Good
  <2>1. QED BY <1>1, <1>6
<1>8. QED BY <1>2, <1>7 DEF n

(* The files of a list with one more entry.                                 *)
LEMMA FilesInMore ==
  ASSUME NEW s \in Seq(Entry), NEW e \in Entry
  PROVE  FilesIn(s \o <<e>>) = FilesIn(s) \o Picked(e)
<1> DEFINE n == Len(s)
           t == s \o <<e>>
<1>1. n \in Nat
  BY LenProperties
<1>2. <<e>> \in Seq(Entry) /\ Len(<<e>>) = 1 /\ <<e>>[1] = e
  OBVIOUS
<1>3. t \in Seq(Entry) /\ Len(t) = n + 1 /\ (\A k \in 1..n : t[k] = s[k]) /\ t[n + 1] = e
  <2>1. /\ t \in Seq(Entry) /\ Len(t) = Len(s) + Len(<<e>>)
        /\ \A k \in 1..Len(s) : t[k] = s[k]
        /\ \A k \in 1..Len(<<e>>) : t[Len(s) + k] = <<e>>[k]
    BY <1>2, ConcatIs
  <2> HIDE DEF t
  <2>2. 1 \in 1..Len(<<e>>)
    BY <1>2
  <2>3. QED BY <1>2, <2>1, <2>2
<1>4. PICK w : w = [k \in 0..n |-> IF k = 0 THEN <<>> ELSE w[k - 1] \o Picked(s[k])] /\ FilesIn(s) = w[n]
  BY FilesInUnfolds
<1> HIDE DEF t
<1>5. PICK v : v = [k \in 0..Len(t) |-> IF k = 0 THEN <<>> ELSE v[k - 1] \o Picked(t[k])] /\ FilesIn(t) = v[Len(t)]
  BY <1>3, FilesInUnfolds
<1> HIDE DEF n
<1>6. v[0] = <<>> /\ \A k \in 1..n + 1 : v[k] = v[k - 1] \o Picked(t[k])
  <2>1. v[0] = <<>>
    BY <1>1, <1>3, <1>5
  <2>2. ASSUME NEW k \in 1..n + 1 PROVE v[k] = v[k - 1] \o Picked(t[k])
    <3>1. k \in 0..Len(t) /\ k # 0
      BY <1>1, <1>3
    <3>2. v[k] = IF k = 0 THEN <<>> ELSE v[k - 1] \o Picked(t[k])
      BY <1>5, <3>1, Zenon
    <3>3. QED BY <3>1, <3>2
  <2>3. QED BY <2>1, <2>2
<1>7. w[0] = <<>> /\ \A k \in 1..n : w[k] = w[k - 1] \o Picked(s[k])
  <2>1. w[0] = <<>>
    BY <1>1, <1>4
  <2>2. ASSUME NEW k \in 1..n PROVE w[k] = w[k - 1] \o Picked(s[k])
    <3>1. k \in 0..n /\ k # 0
      BY <1>1
    <3>2. w[k] = IF k = 0 THEN <<>> ELSE w[k - 1] \o Picked(s[k])
      BY <1>4, <3>1, Zenon
    <3>3. QED BY <3>1, <3>2
  <2>3. QED BY <2>1, <2>2
<1> DEFINE T == {k \in Nat : k <= n => v[k] = w[k]}
<1>8. 0 \in T
  BY <1>6, <1>7
<1>9. ASSUME NEW k \in Nat, k \in T PROVE k + 1 \in T
  <2>1. SUFFICES ASSUME k + 1 <= n PROVE v[k + 1] = w[k + 1]
    OBVIOUS
  <2>2. k + 1 \in 1..n /\ k + 1 \in 1..n + 1 /\ (k + 1) - 1 = k /\ v[k] = w[k]
    BY <1>1, <1>9, <2>1
  <2>3. v[k + 1] = v[(k + 1) - 1] \o Picked(t[k + 1]) /\ w[k + 1] = w[(k + 1) - 1] \o Picked(s[k + 1])
        /\ t[k + 1] = s[k + 1]
    BY <1>3, <1>6, <1>7, <2>2
  <2>4. QED BY <2>2, <2>3
<1>10. Nat \subseteq T
  <2> HIDE DEF T
  <2>1. QED BY <1>8, <1>9, Induction
<1>11. v[n] = w[n]
  BY <1>1, <1>10
<1>12. v[n + 1] = v[n] \o Picked(e)
  <2>1. n + 1 \in 1..n + 1 /\ (n + 1) - 1 = n
    BY <1>1
  <2>2. v[n + 1] = v[(n + 1) - 1] \o Picked(t[n + 1])
    BY <1>6, <2>1
  <2>3. QED BY <1>3, <2>1, <2>2
<1>13. FilesIn(t) = v[n + 1]
  BY <1>3, <1>5
<1>14. QED BY <1>4, <1>11, <1>12, <1>13 DEF t

(* Where the moves have brought the files of the first k entries: the other *)
(* blocks c hold what the blocks moved there from.                          *)
Gathered(c, moves) == \A p \in 1..Len(moves) : c[p] = blocks[moves[p][2]]
Gathering(c, es, moves, fs) ==
  /\ moves \in Seq(Nat \X Nat) /\ Len(moves) = Lengths(fs)
  /\ \A p \in 1..Len(moves) : moves[p][1] = p /\ p <= moves[p][2]
  /\ Gathered(c, moves) => FilesAt(c, Lying(fs, DataStart)) = FilesAt(blocks, Lying(es, DataStart))

MovesOf(e, to, from) == [i \in 1..(IF e.file THEN e.len ELSE 0) |-> <<to + i, from + i>>]

LEMMA MoreGathered ==
  ASSUME blocks \in Seq(Block), NEW c \in Seq(Block), Len(c) = Len(blocks), NEW s \in Seq(Entry), NEW e \in Entry,
         Lengths(s) + e.len <= Len(blocks), NEW moves, Gathering(c, s, moves, FilesIn(s))
  PROVE  Gathering(c, s \o <<e>>, moves \o MovesOf(e, Lengths(FilesIn(s)), Lengths(s)), FilesIn(s) \o Picked(e))
<1> DEFINE fs == FilesIn(s)
           to == Lengths(fs)
           from == Lengths(s)
           more == MovesOf(e, to, from)
           at == DataStart + from
           x == <<e, at>>
<1>1. fs \in Seq(Entry) /\ to <= from /\ to \in Nat /\ from \in Nat /\ e.len \in Nat /\ DataStart \in Nat
  BY FilesInIs, LengthsNat, DataStartNat DEF Entry
<1>2. <<e>> \in Seq(Entry) /\ Len(<<e>>) = 1 /\ Lengths(<<e>>) = e.len
  BY LengthsOne
<1>4. Lying(s \o <<e>>, DataStart) = Lying(s, DataStart) \cup {x}
  <2>1. Lying(s \o <<e>>, DataStart) = Lying(s, DataStart) \cup Lying(<<e>>, DataStart + Lengths(s))
    BY <1>1, <1>2, LyingConcat
  <2>2. Lying(<<e>>, at) = {<<e, at>>}
    <3>1. at \in Nat
      BY <1>1
    <3> HIDE DEF at
    <3>2. QED BY <3>1, LyingOne
  <2>3. QED BY <2>1, <2>2
<1> DEFINE before == Lying(s, DataStart)
           was == FilesAt(blocks, before)
<1>5. FilesAt(blocks, Lying(s \o <<e>>, DataStart)) = was \cup FilesAt(blocks, {x})
  <2>1. FilesAt(blocks, before \cup {x}) = FilesAt(blocks, before) \cup FilesAt(blocks, {x})
    <3> HIDE DEF before, x
    <3>1. QED BY FilesAtCup
  <2>2. QED BY <1>4, <2>1
<1>6. /\ moves \in Seq(Nat \X Nat) /\ Len(moves) = to
      /\ \A p \in 1..to : moves[p][1] = p /\ p <= moves[p][2]
      /\ Gathered(c, moves) => FilesAt(c, Lying(fs, DataStart)) = was
  BY DEF Gathering
<1>7. CASE ~e.file
  <2>1. Picked(e) = <<>> /\ fs \o Picked(e) = fs
    <3>1. Picked(e) = <<>>
      BY <1>7 DEF Picked
    <3>2. fs \o <<>> = fs
      BY <1>1, ConcatEmptySeq
    <3> HIDE DEF fs
    <3>3. QED BY <3>1, <3>2
  <2>2. moves \o more = moves
    <3>1. more = [i \in 1..0 |-> <<to + i, from + i>>]
      BY <1>7 DEF MovesOf
    <3>2. 1..0 = {}
      OBVIOUS
    <3>3. more = <<>>
      BY <3>1, <3>2
    <3> HIDE DEF more
    <3>4. QED BY <1>6, <3>3, ConcatEmptySeq
  <2>3. FilesAt(blocks, {x}) = {}
    BY <1>7, FilesAtOne
  <2> HIDE DEF fs, more, to, x, was
  <2>4. FilesAt(blocks, Lying(s \o <<e>>, DataStart)) = was
    BY <1>5, <2>3
  <2>5. Gathering(c, s \o <<e>>, moves, fs)
    BY <1>6, <2>4 DEF Gathering, to
  <2>6. QED BY <2>1, <2>2, <2>5 DEF fs, more, to
<1>8. CASE e.file
  <2> DEFINE m == e.len
             all == moves \o more
             gs == fs \o <<e>>
  <2>1. Picked(e) = <<e>>
    BY <1>8 DEF Picked
  <2>2. more = [i \in 1..m |-> <<to + i, from + i>>]
    BY <1>8 DEF MovesOf
  <2>3. more \in Seq(Nat \X Nat) /\ Len(more) = m /\ \A i \in 1..m : more[i] = <<to + i, from + i>>
    <3> HIDE DEF m, to, from, more
    <3>0. m \in Nat /\ to \in Nat /\ from \in Nat
      BY <1>1 DEF m
    <3>1. \A i \in 1..m : <<to + i, from + i>> \in Nat \X Nat
      BY <3>0
    <3>2. more \in [1..m -> Nat \X Nat]
      BY <2>2, <3>1
    <3>3. QED BY <2>2, <3>0, <3>2
  <2> HIDE DEF more, to, from, m
  <2>4. /\ all \in Seq(Nat \X Nat) /\ Len(all) = to + m
        /\ \A p \in 1..to + m : all[p] = IF p <= to THEN moves[p] ELSE more[p - to]
    <3> DEFINE Move == Nat \X Nat
    <3>1. moves \in Seq(Move) /\ more \in Seq(Move) /\ Len(moves) = to /\ Len(more) = m
      BY <1>6, <2>3
    <3> HIDE DEF Move
    <3>2. /\ all \in Seq(Move) /\ Len(all) = Len(moves) + Len(more)
          /\ \A p \in 1..Len(moves) + Len(more) : all[p] = IF p <= Len(moves) THEN moves[p] ELSE more[p - Len(moves)]
      BY <3>1, ConcatProperties
    <3> HIDE DEF all
    <3>3. QED BY <3>1, <3>2 DEF Move
  <2>5. to \in Nat /\ from \in Nat /\ m \in Nat /\ to <= from
    BY <1>1 DEF m, from, to
  <2> HIDE DEF all
  <2>6. \A p \in 1..to : all[p] = moves[p] /\ p \in 1..to + m
    BY <2>4, <2>5, SMTT(30)
  <2>7. \A i \in 1..m : all[to + i] = <<to + i, from + i>> /\ to + i \in 1..to + m
    <3>1. TAKE i \in 1..m
    <3>2. to + i \in 1..to + m /\ ~(to + i <= to) /\ (to + i) - to = i
      BY <2>5
    <3>3. QED BY <2>3, <2>4, <3>2
  <2>8. ASSUME NEW p \in 1..to + m PROVE all[p][1] = p /\ p <= all[p][2]
    <3>1. CASE p <= to
      <4>1. p \in 1..to
        BY <2>5, <3>1
      <4>2. QED BY <1>6, <2>6, <4>1
    <3>2. CASE p > to
      <4>1. p - to \in 1..m /\ to + (p - to) = p
        BY <2>5, <3>2
      <4>2. all[to + (p - to)] = <<to + (p - to), from + (p - to)>>
        BY <2>7, <4>1
      <4>3. all[p] = <<p, from + (p - to)>> /\ p <= from + (p - to)
        BY <2>5, <4>1, <4>2
      <4>4. QED BY <4>3
    <3>3. QED BY <2>5, <3>1, <3>2
  <2>9. Lengths(gs) = to + m
    BY <1>1, <1>2, LengthsConcat DEF to, m
  <2>10. ASSUME Gathered(c, all)
         PROVE  FilesAt(c, Lying(gs, DataStart)) = FilesAt(blocks, Lying(s \o <<e>>, DataStart))
    <3>1. \A p \in 1..to + m : c[p] = blocks[all[p][2]]
      BY <2>4, <2>10 DEF Gathered
    <3>2. Gathered(c, moves)
      BY <1>6, <2>6, <3>1 DEF Gathered
    <3>3. \A i \in 1..e.len : c[to + i] = blocks[from + i]
      BY <2>7, <3>1 DEF m
    <3> DEFINE y == <<e, DataStart + to>>
               now == Lying(fs, DataStart)
    <3>4. FileAt(c, y) = FileAt(blocks, x)
      <4>1. from + e.len <= Len(blocks) /\ to + e.len <= Len(c)
        <5>1. from + e.len <= Len(blocks) /\ Len(blocks) \in Nat
          BY LenProperties DEF from
        <5>2. QED BY <2>5, <5>1 DEF m
      <4> HIDE DEF fs
      <4>2. QED BY <2>5, <3>3, <4>1, FileMoved
    <3>5. Lying(gs, DataStart) = now \cup {y}
      <4>1. Lying(fs \o <<e>>, DataStart) = Lying(fs, DataStart) \cup Lying(<<e>>, DataStart + Lengths(fs))
        BY <1>1, <1>2, LyingConcat
      <4>2. Lying(<<e>>, DataStart + to) = {y}
        <5>1. DataStart + to \in Nat
          BY <1>1, <2>5
        <5>2. QED BY <5>1, LyingOne
      <4>3. QED BY <4>1, <4>2 DEF to
    <3>6. FilesAt(c, {y}) = {FileAt(c, y)} /\ FilesAt(blocks, {x}) = {FileAt(blocks, x)}
      BY <1>8, FilesAtOne
    <3> HIDE DEF now, y, x, was, fs
    <3>7. FilesAt(c, now \cup {y}) = FilesAt(c, now) \cup FilesAt(c, {y})
      BY FilesAtCup
    <3>8. FilesAt(c, now) = was
      BY <1>6, <3>2 DEF now
    <3>9. QED BY <1>5, <3>4, <3>5, <3>6, <3>7, <3>8
  <2> HIDE DEF gs
  <2>11. Gathering(c, s \o <<e>>, all, gs)
    BY <2>4, <2>8, <2>9, <2>10 DEF Gathering
  <2>12. QED BY <2>1, <2>11 DEF all, gs, more, to, from
<1>9. QED BY <1>7, <1>8

LEMMA SqueezeGathers ==
  ASSUME blocks \in Seq(Block), NEW c \in Seq(Block), Len(c) = Len(blocks), segs[1].entries \in Seq(Entry),
         Lengths(segs[1].entries) <= Len(blocks)
  PROVE  Gathering(c, segs[1].entries, SqueezeMoves, Perms)
<1> DEFINE es == segs[1].entries
           n == Len(es)
           part(k) == SubSeq(es, 1, k)
<1>1. n \in Nat /\ es \in Seq(Entry) /\ Len(blocks) \in Nat
  BY LenProperties
<1>2. PICK w : w = [k \in 0..n |-> IF k = 0 THEN <<>> ELSE w[k - 1] \o Moves(es, k)] /\ SqueezeMoves = w[n]
  BY SqueezeMovesUnfolds
<1>3. Lengths(es) <= Len(blocks)
  OBVIOUS
<1>4. \A k \in 0..n : part(k) \in Seq(Entry) /\ Len(part(k)) = k
  <2>1. TAKE k \in 0..n
  <2>2. 1 \in 1..n + 1 /\ k \in 1 - 1..n /\ (k - 1) + 1 = k
    BY <1>1
  <2> HIDE DEF es
  <2>3. QED BY <1>1, <2>2, PartIs DEF n
<1> HIDE DEF n, es
<1> DEFINE Good(k) == Gathering(c, part(k), w[k], FilesIn(part(k)))
           T == {k \in Nat : k <= n => Good(k)}
<1>5. 0 \in T
  <2>1. w[0] = <<>>
    BY <1>1, <1>2
  <2>2. part(0) = <<>>
    BY SubSeqEmpty
  <2>3. <<>> \in Seq(Entry) /\ <<>> \in Seq(Nat \X Nat) /\ Len(<<>>) = 0 /\ Lengths(<<>>) = 0
    BY LengthsEmpty
  <2>4. FilesIn(<<>>) = <<>>
    <3>1. FilesIn(<<>>) \in Seq(Entry) /\ Len(FilesIn(<<>>)) <= Len(<<>>)
      BY <2>3, FilesInIs
    <3>2. Len(FilesIn(<<>>)) = 0
      BY <2>3, <3>1, LenProperties
    <3>3. QED BY <3>1, <3>2, EmptySeq
  <2>5. Lying(<<>>, DataStart) = {} /\ FilesAt(c, {}) = {} /\ FilesAt(blocks, {}) = {}
    BY LyingNone, FilesAtNone
  <2>6. Gathering(c, <<>>, <<>>, <<>>)
    <3> DEFINE none == <<>>
    <3>1. /\ none \in Seq(Nat \X Nat) /\ Len(none) = 0 /\ Lengths(none) = 0
          /\ FilesAt(c, Lying(none, DataStart)) = FilesAt(blocks, Lying(none, DataStart))
      BY <2>3, <2>5
    <3> HIDE DEF none
    <3>2. \A p \in 1..Len(none) : FALSE
      BY <3>1
    <3>3. \A p \in 1..Len(none) : none[p][1] = p /\ p <= none[p][2]
      BY <3>2
    <3>4. Gathering(c, none, none, none)
      BY <3>1, <3>3 DEF Gathering
    <3>5. QED BY <3>4 DEF none
  <2> HIDE DEF part
  <2>7. QED BY <2>1, <2>2, <2>4, <2>6
<1>6. ASSUME NEW k \in Nat, k \in T PROVE k + 1 \in T
  <2>1. SUFFICES ASSUME k + 1 <= n PROVE Good(k + 1)
    OBVIOUS
  <2> DEFINE e == es[k + 1]
             s == part(k)
             fs == FilesIn(s)
  <2>2. k \in 0..n /\ k + 1 \in 0..n /\ k + 1 \in 1..n /\ (k + 1) - 1 = k /\ Good(k)
    BY <1>1, <1>6, <2>1
  <2>3. e \in Entry /\ s \in Seq(Entry)
    BY <1>1, <1>4, <2>2, ElementOfSeq DEF n
  <2>4. part(k + 1) = s \o <<e>>
    <3>1. SubSeq(es, 1, k + 1) = SubSeq(es, 1, (k + 1) - 1) \o <<es[k + 1]>>
      <4>1. 1 \in 1..n /\ k + 1 \in 1..n
        BY <1>1, <2>1
      <4>2. QED BY <1>1, <4>1, SubSeqRecursiveSecond DEF n
    <3>2. QED BY <2>2, <3>1
  <2>5. w[k + 1] = w[k] \o Moves(es, k + 1)
    <3>1. k + 1 \in 0..n /\ k + 1 # 0
      BY <1>1, <2>2
    <3>2. w[k + 1] = IF k + 1 = 0 THEN <<>> ELSE w[(k + 1) - 1] \o Moves(es, k + 1)
      BY <1>2, <3>1, Zenon
    <3>3. QED BY <2>2, <3>1, <3>2
  <2>6. Moves(es, k + 1) = MovesOf(e, Lengths(fs), Lengths(s))
    BY <2>2 DEF Moves, MovesOf
  <2>7. Lengths(s) + e.len <= Len(blocks)
    <3> DEFINE post == Lengths(SubSeq(es, (k + 1) + 1, Len(es)))
    <3>1. k + 1 \in 1..Len(es) + 1 /\ k + 1 \in (k + 1) - 1..Len(es) /\ k + 1 \in 1..Len(es)
      BY <1>1, <2>2 DEF n
    <3>2. Lengths(es) = Lengths(SubSeq(es, 1, (k + 1) - 1)) + Lengths(SubSeq(es, k + 1, k + 1)) + post
      BY <1>1, <3>1, LengthsParts
    <3>3. Lengths(SubSeq(es, k + 1, k + 1)) = e.len
      BY <1>1, <3>1, PartOne
    <3>4. post \in Nat
      <4>1. (k + 1) + 1 \in 1..Len(es) + 1 /\ Len(es) \in ((k + 1) + 1) - 1..Len(es)
        BY <1>1, <3>1 DEF n
      <4>2. SubSeq(es, (k + 1) + 1, Len(es)) \in Seq(Entry)
        BY <1>1, <4>1, PartIs
      <4>3. QED BY <4>2, LengthsNat
    <3>5. Lengths(SubSeq(es, 1, (k + 1) - 1)) = Lengths(s)
      BY <2>2
    <3>6. Lengths(s) \in Nat /\ e.len \in Nat
      BY <2>3, LengthsNat DEF Entry
    <3> HIDE DEF post, s, e
    <3>7. Lengths(es) = Lengths(s) + e.len + post
      BY <3>2, <3>3, <3>5
    <3>8. QED BY <1>1, <1>3, <3>4, <3>6, <3>7
  <2>8. FilesIn(s \o <<e>>) = fs \o Picked(e)
    <3> HIDE DEF s, e
    <3>1. QED BY <2>3, FilesInMore DEF fs
  <2>9. Gathering(c, s, w[k], FilesIn(s))
    BY <2>2
  <2> HIDE DEF s, e
  <2>10. Gathering(c, s \o <<e>>, w[k] \o MovesOf(e, Lengths(FilesIn(s)), Lengths(s)), FilesIn(s) \o Picked(e))
    BY <2>3, <2>7, <2>9, MoreGathered
  <2> HIDE DEF part
  <2>11. QED BY <2>4, <2>5, <2>6, <2>8, <2>10
<1>7. Nat \subseteq T
  <2> HIDE DEF T
  <2>1. QED BY <1>5, <1>6, Induction
<1>8. Good(n)
  <2> HIDE DEF Good
  <2>1. QED BY <1>1, <1>7
<1>9. part(n) = es
  BY <1>1, SubSeqFull DEF n
<1>10. Perms = FilesIn(es)
  BY DEF Perms, es
<1> HIDE DEF part
<1>11. Gathering(c, es, w[n], FilesIn(es))
  BY <1>8, <1>9
<1>12. QED BY <1>2, <1>10, <1>11 DEF es

(* A segment that parses has room for a shorter directory's last area.      *)
LEMMA FullIs ==
  ASSUME NEW k \in Nat, NEW n \in Nat, k <= n, FitsAt(n + 1), ~(At(k + 1) + EntrySize + 2 <= SegBytes)
  PROVE  k = n
<1>1. EntrySize \in Nat /\ EntrySize >= 14 /\ SegBytes \in Nat
  BY LayoutAssumption
<1>2. 10 + (n + 1) * EntrySize <= SegBytes
  BY FitsAtIs
<1>3. ~(10 + k * EntrySize + EntrySize + 2 <= SegBytes)
  <2>1. At(k + 1) = 10 + ((k + 1) - 1) * EntrySize /\ (k + 1) - 1 = k
    BY DEF At
  <2>2. At(k + 1) = 10 + k * EntrySize
    BY <2>1
  <2>3. QED BY <2>2
<1>4. ASSUME k + 1 <= n PROVE FALSE
  <2> DEFINE a == (n + 1) * EntrySize
             b == k * EntrySize
  <2>1. (k + 2) * EntrySize <= (n + 1) * EntrySize
    <3>1. (n + 1) * EntrySize = (k + 2) * EntrySize + ((n + 1) - (k + 2)) * EntrySize
      BY <1>1
    <3>2. ((n + 1) - (k + 2)) * EntrySize \in Nat /\ (k + 2) * EntrySize \in Nat
      BY <1>1, <1>4
    <3>3. QED BY <3>1, <3>2
  <2>2. (k + 2) * EntrySize = k * EntrySize + 2 * EntrySize
    BY <1>1
  <2>3. b + 2 * EntrySize <= a /\ a \in Nat /\ b \in Nat /\ 10 + a <= SegBytes
        /\ ~(10 + b + EntrySize + 2 <= SegBytes)
    BY <1>1, <1>2, <1>3, <2>1, <2>2
  <2> HIDE DEF a, b
  <2>4. QED BY <1>1, <2>3
<1>5. QED BY <1>4

(* Where it does not fit, all the segment's entries are files, and stay.    *)
LEMMA SqueezeFull ==
  ASSUME Chained, Fits(segs, highest), Squeeze, ~SpareFits
  PROVE  Perms = segs[1].entries /\ segs' = segs
<1> DEFINE es == segs[1].entries
<1>1. Len(Perms) = Len(es) => Perms = es
  BY SqueezeIs, FilesInIs DEF Perms
<1>2. FitsAt(Len(es) + 1)
  <2>1. highest = 1 /\ 1 \in 1..1
    BY SqueezeIs
  <2>2. QED BY <2>1 DEF Fits
<1>3. Len(Perms) \in Nat /\ Len(es) \in Nat /\ Len(Perms) <= Len(es)
  BY SqueezeIs
<1> HIDE DEF es
<1>4. Len(Perms) = Len(es)
  BY <1>2, <1>3, FullIs DEF SpareFits
<1>5. QED BY <1>1, <1>4, SqueezeIs DEF es

LEMMA SqueezeStores ==
  ASSUME Chained, Fits(segs, highest), Squeeze
  PROVE  Step
<1> DEFINE es == segs[1].entries
           front == Lying(Perms, DataStart)
           gathered == FilesAt(blocks', front)
<1>1. blocks' \in Seq(Block) /\ Len(blocks') = Len(blocks)
  BY SqueezeIs, MovedIs
<1>2. Gathering(blocks', es, SqueezeMoves, Perms)
  BY <1>1, SqueezeIs, SqueezeGathers
<1>3. gathered = FilesAt(blocks, Lying(es, DataStart))
  <2>1. \A p \in 1..Len(SqueezeMoves) : SqueezeMoves[p][1] = p /\ p <= SqueezeMoves[p][2]
    BY <1>2 DEF Gathering
  <2>2. \A p \in 1..Len(SqueezeMoves) : Moved(SqueezeMoves)[p] = blocks[SqueezeMoves[p][2]]
    BY <2>1, SqueezeIs, MovedGathers
  <2>3. Gathered(blocks', SqueezeMoves)
    BY <2>2, SqueezeIs DEF Gathered
  <2>4. QED BY <1>2, <2>3 DEF Gathering
<1>4. Stored = FilesAt(blocks, Lying(es, DataStart))
      /\ Stored' = FilesAt(blocks', Lying(segs'[1].entries, segs'[1].start))
  <2>1. 1..1 = {1} /\ highest = 1 /\ highest' = 1 /\ segs[1].start = DataStart
    BY SqueezeIs
  <2>2. Areas(segs, highest) = Lying(segs[1].entries, segs[1].start)
        /\ Areas(segs', highest') = Lying(segs'[1].entries, segs'[1].start)
    BY <2>1 DEF Areas
  <2>3. QED BY <2>1, <2>2 DEF Stored
<1>5. SUFFICES Stored' = gathered
  <2>1. Grants(Stored, NoRequest, Stored) /\ asked' = NoRequest
    BY NoneGrants, SqueezeIs
  <2> HIDE DEF gathered, es
  <2>2. QED BY <1>3, <1>4, <2>1 DEF Step
<1>6. CASE SpareFits
  <2> DEFINE at == DataStart + Lengths(Perms)
  <2>1. segs'[1].entries = Perms \o <<Spare>> /\ segs'[1].start = DataStart
    BY <1>6, SqueezeIs DEF Squeezed
  <2>2. Perms \in Seq(Entry) /\ <<Spare>> \in Seq(Entry) /\ DataStart \in Nat /\ Spare \in Entry /\ ~Spare.file
        /\ at \in Nat
    BY SqueezeIs
  <2>3. Lying(Perms \o <<Spare>>, DataStart) = front \cup Lying(<<Spare>>, at)
    BY <2>2, LyingConcat
  <2> HIDE DEF at, gathered
  <2>4. Lying(<<Spare>>, at) = {<<Spare, at>>}
    BY <2>2, LyingOne
  <2>5. FilesAt(blocks', {<<Spare, at>>}) = {}
    BY <2>2, FilesAtOne
  <2>6. FilesAt(blocks', front \cup {<<Spare, at>>}) = FilesAt(blocks', front) \cup FilesAt(blocks', {<<Spare, at>>})
    <3> HIDE DEF front
    <3>1. QED BY FilesAtCup
  <2>7. QED BY <1>4, <2>1, <2>3, <2>4, <2>5, <2>6 DEF gathered
<1>7. CASE ~SpareFits
  <2>1. segs' = segs /\ Perms = es /\ segs[1].start = DataStart
    BY <1>7, SqueezeFull, SqueezeIs
  <2>2. QED BY <1>4, <2>1
<1>8. QED BY <1>6, <1>7

------------------------------------
(* The unused areas that end a segment exchanged for one, and perhaps       *)
(* blocks added to the volume.                                              *)

LEMMA TailStores ==
  ASSUME Chained, NEW s \in 1..highest, NEW a \in 1..Len(segs[s].entries) + 1, NEW e \in Entry, ~e.file,
         \A k \in a..Len(segs[s].entries) : ~segs[s].entries[k].file,
         segs' = WithEntries(segs, s, Swapped(segs[s].entries, a, Len(segs[s].entries), <<e>>)),
         highest' = highest, asked' = NoRequest, blocks' \in Seq(Block), Len(blocks) <= Len(blocks'),
         \A i \in 1..Len(blocks) : blocks'[i] = blocks[i]
  PROVE  Step
<1> DEFINE es == segs[s].entries
           n == Len(es)
           one == <<e>>
           new == Swapped(es, a, n, one)
           tail == SubSeq(es, a, n)
           at == StartOf(segs[s], a)
           rest == Rest(segs, highest, s, a, n)
<1>1. /\ segs \in Dir /\ highest \in Nat /\ highest # 0 /\ 1..highest \subseteq 1..Total /\ blocks \in Seq(Block)
      /\ s \in 1..Total /\ Size \in Nat /\ DataStart \in Nat /\ Len(blocks) \in Nat
  BY Facts DEF Chained
<1>2. Sound(segs, highest, Size)
  BY DEF Chained, Sound
<1>3. es \in Seq(Entry) /\ n \in Nat /\ segs[s].start \in Nat /\ a \in 1..n + 1 /\ n \in a - 1..n
  BY <1>1, DirIs
<1>4. PartOf(segs, highest, s, a, n)
  BY <1>1, <1>3 DEF PartOf
<1>5. one \in Seq(Entry)
  BY LengthsOne
<1>6. new \in Seq(Entry)
  <2> HIDE DEF es, n, one
  <2>1. SubSeq(es, 1, a - 1) \in Seq(Entry) /\ SubSeq(es, n + 1, n) \in Seq(Entry)
    BY <1>3, PartsAre DEF n
  <2>2. SubSeq(es, 1, a - 1) \o one \in Seq(Entry)
    BY <1>5, <2>1, ConcatProperties
  <2>3. QED BY <2>1, <2>2, ConcatProperties DEF Swapped, n
<1>7. segs' = WithEntries(segs, s, new)
  OBVIOUS
<1>8. OnlyPart(segs, segs', highest, s, a, n, one)
  <2> HIDE DEF new, es, n, one
  <2>1. \A t \in 1..Total : /\ segs'[t].start = segs[t].start
                            /\ segs'[t].entries = IF t = s THEN new ELSE segs[t].entries
    <3>1. \A t \in 1..Total : /\ WithEntries(segs, s, new)[t].start = segs[t].start
                              /\ WithEntries(segs, s, new)[t].entries = IF t = s THEN new ELSE segs[t].entries
      BY <1>1, <1>6, EntriesSet
    <3>2. QED BY <1>7, <3>1
  <2>2. \A t \in 1..highest : segs'[t].start = segs[t].start /\ (t # s => segs'[t].entries = segs[t].entries)
    BY <1>1, <2>1
  <2>3. segs'[s].entries = Swapped(segs[s].entries, a, n, one) /\ n = Len(segs[s].entries)
    BY <1>1, <2>1 DEF new, es, n
  <2>4. QED BY <1>5, <2>2, <2>3 DEF OnlyPart
<1> HIDE DEF new
<1>9. at \in Nat
  <2> DEFINE before == SubSeq(es, 1, a - 1)
  <2> HIDE DEF es, n
  <2>1. before \in Seq(Entry)
    BY <1>3, PartsAre DEF n
  <2>2. Lengths(before) \in Nat
    BY <2>1, LengthsNat
  <2>3. at = segs[s].start + Lengths(before)
    BY DEF StartOf, es
  <2> HIDE DEF at, before
  <2>4. QED BY <1>3, <2>2, <2>3
<1>10. Areas(segs', highest) = rest \cup Lying(one, at) /\ Areas(segs, highest) = rest \cup Lying(tail, at)
  <2> HIDE DEF one, n
  <2>1. Areas(segs', highest) = Rest(segs, highest, s, a, n) \cup Lying(one, StartOf(segs[s], a))
    BY <1>4, <1>8, AreasSwapped
  <2>2. Areas(segs, highest) = Rest(segs, highest, s, a, n) \cup Lying(SubSeq(segs[s].entries, a, n), StartOf(segs[s], a))
    BY <1>4, AreasSplit
  <2>3. QED BY <2>1, <2>2
<1>11. FilesAt(blocks', Lying(one, at)) = {}
  <2> HIDE DEF at
  <2>1. Lying(<<e>>, at) = {<<e, at>>}
    BY <1>9, LyingOne
  <2>2. FilesAt(blocks', {<<e, at>>}) = {}
    BY FilesAtOne
  <2>3. QED BY <2>1, <2>2
<1>12. FilesAt(blocks, Lying(tail, at)) = {}
  <2>1. ASSUME NEW x \in Lying(tail, at) PROVE ~x[1].file
    <3> HIDE DEF es, n, at
    <3>1. /\ tail \in Seq(Entry) /\ Len(tail) = (n - a) + 1
          /\ \A i \in 1..(n - a) + 1 : tail[i] = es[(a + i) - 1]
      BY <1>3, PartIs DEF n
    <3> HIDE DEF tail
    <3>2. PICK k \in 1..Len(tail) : x[1] = tail[k]
      BY <1>9, <3>1, LyingWithin
    <3>3. (a + k) - 1 \in a..n /\ k \in 1..(n - a) + 1
      BY <1>3, <3>1, SMTT(30)
    <3>4. x[1] = es[(a + k) - 1]
      BY <3>1, <3>2, <3>3
    <3>5. ~es[(a + k) - 1].file
      BY <3>3 DEF es, n
    <3>6. QED BY <3>4, <3>5
  <2> HIDE DEF tail, at
  <2>2. QED BY <2>1, FilesAtNone
<1> HIDE DEF rest, one, at, tail, n, es
<1>13. FilesAt(blocks', rest) = FilesAt(blocks, rest)
  <2>1. ASSUME NEW x \in rest PROVE FileAt(blocks', x) = FileAt(blocks, x)
    <3>1. x \in Areas(segs, highest)
      BY <1>10
    <3>2. x[1].len \in Nat /\ x[2] \in Nat /\ DataStart <= x[2] /\ x[2] + x[1].len <= DataStart + Len(blocks)
      <4>1. x[1].len \in Nat /\ x[2] \in Nat /\ DataStart <= x[2] /\ x[2] + x[1].len <= Size
        BY <1>1, <1>2, <3>1, AreasWithin
      <4>2. QED BY <4>1 DEF Size
    <3>3. \A i \in 1..x[1].len : blocks'[(x[2] - DataStart) + i] = blocks[(x[2] - DataStart) + i]
      <4>1. TAKE i \in 1..x[1].len
      <4> DEFINE begin == x[2]
                 len == x[1].len
                 last == Len(blocks)
      <4>2. begin - DataStart + i \in 1..last
        <5>1. begin \in Nat /\ len \in Nat /\ last \in Nat /\ DataStart <= begin
              /\ begin + len <= DataStart + last /\ i \in 1..len
          BY <1>1, <3>2
        <5> HIDE DEF begin, len, last
        <5>2. QED BY <1>1, <5>1
      <4>3. QED BY <4>2
    <3>4. QED BY <1>1, <3>2, <3>3, DataSame
  <2>2. QED BY <2>1, FilesSame
<1>14. Stored = FilesAt(blocks, rest)
  <2>1. FilesAt(blocks, rest \cup Lying(tail, at)) = FilesAt(blocks, rest) \cup FilesAt(blocks, Lying(tail, at))
    BY FilesAtCup
  <2>2. QED BY <1>10, <1>12, <2>1 DEF Stored
<1>15. Stored' = FilesAt(blocks', rest)
  <2>1. FilesAt(blocks', rest \cup Lying(one, at)) = FilesAt(blocks', rest) \cup FilesAt(blocks', Lying(one, at))
    BY FilesAtCup
  <2>2. Stored' = FilesAt(blocks', Areas(segs', highest))
    BY DEF Stored
  <2>3. QED BY <1>10, <1>11, <2>1, <2>2
<1>16. Grants(Stored, NoRequest, Stored)
  BY NoneGrants, SMTT(30)
<1>17. QED BY <1>13, <1>14, <1>15, <1>16 DEF Step

LEMMA LastLengthStores ==
  ASSUME Chained, NEW s \in 1..highest, NEW k, k = Len(segs[s].entries), k # 0,
         ~segs[s].entries[k].file, NEW len \in Nat, segs' = [segs EXCEPT ![s].entries[k].len = len], highest' = highest,
         asked' = NoRequest, blocks' \in Seq(Block), Len(blocks) <= Len(blocks'),
         \A i \in 1..Len(blocks) : blocks'[i] = blocks[i]
  PROVE  Step
<1> DEFINE es == segs[s].entries
           old == es[k]
           e == [old EXCEPT !.len = len]
<1>1. segs \in Dir /\ s \in 1..Total
  BY Facts DEF Chained
<1>2. es \in Seq(Entry) /\ Len(es) \in Nat /\ k = Len(es)
  BY <1>1, DirIs
<1>3. k \in 1..Len(es) /\ k \in 1..Len(es) + 1 /\ k..Len(es) = {k}
  <2> HIDE DEF es
  <2>1. QED BY <1>2
<1>4. old \in Entry
  BY <1>2, <1>3, ElementOfSeq
<1>5. e \in Entry /\ ~e.file
  <2>1. ~old.file
    OBVIOUS
  <2> HIDE DEF old
  <2>2. QED BY <1>4, <2>1 DEF Entry
<1>6. segs' = [segs EXCEPT ![s].entries = [es EXCEPT ![k] = e]]
  OBVIOUS
<1> HIDE DEF e, old
<1>7. [es EXCEPT ![k] = e] = Swapped(es, k, Len(es), <<e>>)
  <2> HIDE DEF es
  <2>1. [es EXCEPT ![k] = e] = Swapped(es, k, k, <<e>>)
    BY <1>2, <1>3, <1>5, EntrySwapped
  <2>2. QED BY <1>2, <2>1
<1>8. segs' = WithEntries(segs, s, Swapped(segs[s].entries, k, Len(segs[s].entries), <<e>>))
  BY <1>6, <1>7 DEF WithEntries
<1>9. \A j \in k..Len(segs[s].entries) : ~segs[s].entries[j].file
  BY <1>3
<1>10. k \in 1..Len(segs[s].entries) + 1
  BY <1>3
<1> HIDE DEF es
<1>11. QED BY <1>5, <1>8, <1>9, <1>10, TailStores

(* growLinear leaves the blocks there are.                                  *)
LEMMA GrowLinearStores ==
  ASSUME Chained, NEW n \in Growths, GrowLinear(n)
  PROVE  Step
<1> DEFINE es == LastEs
           k == Len(es)
<1>1. /\ LastSeg \in 1..highest /\ highest' = highest /\ asked' = NoRequest /\ es \in Seq(Entry) /\ k \in Nat
      /\ blocks' \in Seq(Block) /\ Len(blocks) <= Len(blocks') /\ \A i \in 1..Len(blocks) : blocks'[i] = blocks[i]
  BY GrowLinearIs
<1>2. CASE Widens
  <2>1. /\ k = Len(segs[LastSeg].entries) /\ k # 0 /\ ~segs[LastSeg].entries[k].file /\ Widened(n) \in Nat
        /\ segs' = [segs EXCEPT ![LastSeg].entries[k].len = Widened(n)]
    BY <1>2, GrowLinearIs DEF LastEs, Resized, Widens
  <2> HIDE DEF k
  <2>2. QED BY <1>1, <2>1, LastLengthStores
<1>3. CASE ~Widens
  <2> DEFINE area == Free(n)
             a == k + 1
             all == es \o <<area>>
  <2>1. segs' = WithEntries(segs, LastSeg, all) /\ area \in Entry /\ ~area.file /\ all \in Seq(Entry)
    BY <1>3, GrowLinearIs DEF Longer
  <2> HIDE DEF area
  <2>2. all = Swapped(es, a, k, <<area>>)
    <3> HIDE DEF es
    <3>1. SubSeq(es, 1, a - 1) = es
      <4>1. a - 1 = Len(es)
        BY <1>1
      <4>2. QED BY <1>1, <4>1, SubSeqFull
    <3>2. SubSeq(es, k + 1, k) = <<>>
      <4>1. k + 1 \in 1..k + 1 /\ k \in (k + 1) - 1..k /\ (k - (k + 1)) + 1 = 0
        BY <1>1
      <4>2. SubSeq(es, k + 1, k) \in Seq(Entry) /\ Len(SubSeq(es, k + 1, k)) = 0
        BY <1>1, <4>1, PartIs
      <4>3. QED BY <4>2, EmptySeq
    <3> HIDE DEF all
    <3>3. all \o <<>> = all
      BY <2>1, ConcatEmptySeq
    <3>4. Swapped(es, a, k, <<area>>) = (SubSeq(es, 1, a - 1) \o <<area>>) \o SubSeq(es, k + 1, k)
      BY DEF Swapped
    <3> HIDE DEF a, k
    <3>5. QED BY <3>1, <3>2, <3>3, <3>4 DEF all
  <2>3. a \in 1..k + 1 /\ \A j \in a..k : FALSE
    BY <1>1
  <2> HIDE DEF a, all
  <2>4. a \in 1..Len(segs[LastSeg].entries) + 1 /\ (\A j \in a..Len(segs[LastSeg].entries) : FALSE)
        /\ segs' = WithEntries(segs, LastSeg, Swapped(segs[LastSeg].entries, a, Len(segs[LastSeg].entries), <<area>>))
    BY <2>1, <2>2, <2>3 DEF LastEs
  <2> HIDE DEF k, es
  <2>5. QED BY <1>1, <2>1, <2>4, TailStores
<1>4. QED BY <1>2, <1>3

LEMMA EndFreeSpaceAtStores ==
  ASSUME Chained, NEW lbn \in Fences, EndFreeSpaceAt(lbn)
  PROVE  Step
<1> DEFINE k == Len(LastEs)
<1>1. /\ LastSeg \in 1..highest /\ k = Len(segs[LastSeg].entries) /\ k # 0 /\ ~segs[LastSeg].entries[k].file
      /\ Ended(lbn) \in Nat /\ segs' = [segs EXCEPT ![LastSeg].entries[k].len = Ended(lbn)]
      /\ highest' = highest /\ asked' = NoRequest /\ blocks' \in Seq(Block) /\ Len(blocks) <= Len(blocks')
      /\ \A i \in 1..Len(blocks) : blocks'[i] = blocks[i]
  BY EndFreeSpaceAtIs DEF LastEs, Resized
<1> HIDE DEF k
<1>2. QED BY <1>1, LastLengthStores

(* A volume just initialised holds no file.                                 *)
LEMMA FreshFiles ==
  ASSUME NEW n \in Nat, NEW b
  PROVE  FilesAt(b, Areas(Fresh(n), 1)) = {}
<1> DEFINE area == Free(n)
<1>1. 1 \in 1..Total /\ DataStart \in Nat
  BY LayoutAssumption, DataStartNat
<1>2. area \in Entry /\ ~area.file
  BY DEF Free, Area, Entry
<1>3. Fresh(n)[1].entries = <<area>> /\ Fresh(n)[1].start = DataStart
  BY <1>1 DEF Fresh
<1> HIDE DEF area
<1>4. Lying(<<area>>, DataStart) = {<<area, DataStart>>}
  BY <1>1, <1>2, LyingOne
<1>5. Areas(Fresh(n), 1) = {<<area, DataStart>>}
  <2>1. 1..1 = {1}
    OBVIOUS
  <2>2. Areas(Fresh(n), 1) = Lying(Fresh(n)[1].entries, Fresh(n)[1].start)
    BY <2>1 DEF Areas
  <2>3. QED BY <1>3, <1>4, <2>2
<1>6. QED BY <1>2, <1>5, FilesAtOne

LEMMA InitVolumeStores ==
  ASSUME Chained, InitVolume
  PROVE  Step
<1>1. segs' = Fresh(Len(blocks)) /\ highest' = 1 /\ blocks' = blocks /\ asked' = [NoRequest EXCEPT !.op = "init"]
  BY DEF InitVolume
<1>2. Len(blocks) \in Nat
  BY Facts
<1>3. Stored' = FilesAt(blocks, Areas(Fresh(Len(blocks)), 1))
  BY <1>1 DEF Stored
<1>4. FilesAt(blocks, Areas(Fresh(Len(blocks)), 1)) = {}
  BY <1>2, FreshFiles
<1>5. Grants(Stored, [NoRequest EXCEPT !.op = "init"], {})
  BY NoneGrants
<1>6. QED BY <1>1, <1>3, <1>4, <1>5 DEF Step

(* As long as the parser reads the directory to its end, and undelete is    *)
(* asked of volumes of one segment, a volume is the set of files FileStore  *)
(* promises: every call changes the files as it was asked and no others,    *)
(* through splits and merged areas, squeezes, growth and fences             *)
(* (the comments of disk/Build.hpp).                                        *)
THEOREM VolumeStoresWhileRead ==
  ASSUME ~Everywhere
  PROVE  Spec /\ []ReadsBack => Store!Spec
<1> DEFINE Inv == Chained /\ Unique(segs, highest)
           Is == Files = Stored
<1>1. Init => Inv
  <2>1. SUFFICES ASSUME Init PROVE Inv
    OBVIOUS
  <2>2. segs = Fresh(DataBlocks) /\ highest = 1 /\ DataBlocks \in Nat
    BY <2>1, LayoutAssumption DEF Init
  <2>3. QED BY <2>1, <2>2, InitHolds, FreshNames
<1>2. Inv /\ ReadsBack /\ [Next]_vars => Inv'
  BY NamesKept
<1>3. Inv /\ ReadsBack => Is
  BY FilesAre, ReadsBackFits DEF Stored
<1>4. Init /\ Is => Store!Init
  <2>1. SUFFICES ASSUME Init, Is PROVE Files = {}
    BY DEF Store!Init
  <2>2. segs = Fresh(DataBlocks) /\ highest = 1 /\ DataBlocks \in Nat
    BY <2>1, LayoutAssumption DEF Init
  <2>3. Stored = {}
    BY <2>2, FreshFiles DEF Stored
  <2>4. QED BY <2>1, <2>3
<1>5. Inv /\ ReadsBack /\ [Next]_vars => Step \/ (UNCHANGED vars)
  <2>1. SUFFICES ASSUME Inv, ReadsBack, Next PROVE Step
    OBVIOUS
  <2>2. Fits(segs, highest)
    BY <2>1, ReadsBackFits
  <2>3. ASSUME NEW n \in Names, NEW data \in Contents, NEW prot \in PutAs, PutFile(n, data, prot) PROVE Step
    BY <2>1, <2>2, <2>3, PutFileStores
  <2>4. ASSUME NEW n \in Names, RemoveFile(n) PROVE Step
    BY <2>1, <2>4, RemoveFileStores
  <2>5. ASSUME NEW n \in Names, NEW to \in Names, RenameFile(n, to) PROVE Step
    BY <2>1, <2>2, <2>5, RenameFileStores
  <2>6. ASSUME NEW n \in Names, NEW on \in BOOLEAN, SetProtected(n, on) PROVE Step
    BY <2>1, <2>6, SetProtectedStores
  <2>7. ASSUME highest = 1, NEW k \in DOMAIN segs[1].entries, NEW new \in Names \cup {NoName}, UndeleteEntry(k, new)
        PROVE  Step
    BY <2>1, <2>7, UndeleteEntryStores
  <2>8. ASSUME Squeeze PROVE Step
    BY <2>1, <2>2, <2>8, SqueezeStores
  <2>9. ASSUME NEW n \in Growths, GrowLinear(n) PROVE Step
    BY <2>1, <2>9, GrowLinearStores
  <2>10. ASSUME NEW lbn \in Fences, EndFreeSpaceAt(lbn) PROVE Step
    BY <2>1, <2>10, EndFreeSpaceAtStores
  <2>11. ASSUME InitVolume PROVE Step
    BY <2>1, <2>11, InitVolumeStores
  <2>12. QED BY <2>1, <2>3, <2>4, <2>5, <2>6, <2>7, <2>8, <2>9, <2>10, <2>11 DEF Next
<1>6. Is /\ Is' /\ (Step \/ UNCHANGED vars) => [Store!Next]_<<Files, asked>>
  <2>1. SUFFICES ASSUME Is, Is', Step \/ UNCHANGED vars PROVE [Store!Next]_<<Files, asked>>
    OBVIOUS
  <2>2. Files = Stored /\ Files' = Stored'
    BY <2>1
  <2>3. CASE Step
    <3>1. Grants(Stored, asked', Stored')
      BY <2>3 DEF Step
    <3>2. Store!Grantable(Files, asked') /\ Files' = Store!Granted(Files, asked')
      BY <2>2, <3>1 DEF Grants
    <3>3. Store!Next
      BY <3>2 DEF Store!Next
    <3>4. QED BY <3>3
  <2>4. CASE UNCHANGED vars
    <3>1. Stored' = Stored /\ asked' = asked
      BY <2>4 DEF vars, Stored
    <3>2. QED BY <2>2, <3>1
  <2>5. QED BY <2>1, <2>3, <2>4
<1>7. QED BY <1>1, <1>2, <1>3, <1>4, <1>5, <1>6, PTL DEF Spec, Store!Spec

(* And with a marker's room after every segment, always.                    *)
THEOREM VolumeStores ==
  ASSUME NoRemainder, ~Everywhere
  PROVE  Spec => ImplementsFileStore
<1>1. Spec => []ReadsBack
  BY VolumeReadsBack
<1>2. Spec /\ []ReadsBack => Store!Spec
  BY VolumeStoresWhileRead
<1>3. QED BY <1>1, <1>2, PTL DEF ImplementsFileStore

------------------------------------
(* What is left of deleted files.  A named unused area is Told when a file  *)
(* deleted under its name at its block has its blocks there still; the area *)
(* is no shorter than the file, but where a fence has cut the last area of  *)
(* the chain: nothing lies behind that one.  next is 0 of the last area and *)
(* anything else of the others.                                             *)
Still(d, e, at, b) ==
  /\ d[1] = e.name /\ d[2] = at
  /\ d[3] \in Seq(Block)
  /\ DataStart <= at /\ at + Len(d[3]) <= DataStart + Len(b)
  /\ \A i \in 1..Len(d[3]) : d[3][i] = b[(at - DataStart) + i]
Told(e, at, next, b, ds) ==
  ~e.file /\ e.name # NoName =>
    ~e.prot /\ \E d \in ds : Still(d, e, at, b) /\ (next = 0 \/ Len(d[3]) <= e.len)
Onward(es, k, next) == IF k = Len(es) THEN next ELSE 1
TellsAt(es, at, next, b, ds, k) ==
  Told(es[k], at + Lengths(SubSeq(es, 1, k - 1)), Onward(es, k, next), b, ds)
Tells(es, at, next, b, ds) == \A k \in 1..Len(es) : TellsAt(es, at, next, b, ds, k)
AllTell(dir, n, b, ds) == \A s \in 1..n : Tells(dir[s].entries, dir[s].start, dir[s].next, b, ds)

LEMMA ToldMore ==
  ASSUME NEW e, NEW at, NEW b, NEW ds, NEW next, Told(e, at, 1, b, ds)
  PROVE  Told(e, at, next, b, ds)
BY DEF Told

LEMMA ToldAnyway ==
  ASSUME NEW e, NEW at, NEW b, NEW ds, NEW next, e.file \/ e.name = NoName
  PROVE  Told(e, at, next, b, ds)
BY DEF Told

LEMMA TellsNone == ASSUME NEW at, NEW next, NEW b, NEW ds PROVE Tells(<<>>, at, next, b, ds)
<1>1. 1..Len(<<>>) = {}
  BY EmptySeq
<1>2. QED BY <1>1 DEF Tells

LEMMA TellsOne ==
  ASSUME NEW e \in Entry, NEW at \in Nat, NEW next, NEW b, NEW ds
  PROVE  Tells(<<e>>, at, next, b, ds) <=> Told(e, at, next, b, ds)
<1> DEFINE one == <<e>>
<1>1. Len(one) = 1 /\ one[1] = e /\ 1..Len(one) = {1} /\ one \in Seq(Entry)
  BY LengthsOne
<1>2. Lengths(SubSeq(one, 1, 1 - 1)) = 0
  <2> DEFINE none == SubSeq(one, 1, 1 - 1)
  <2> HIDE DEF one
  <2>1. none \in Seq(Entry) /\ Len(none) = (0 - 1) + 1
    BY <1>1, PartIs
  <2> HIDE DEF none
  <2>2. none = <<>>
    BY <2>1, EmptySeq
  <2>3. QED BY <2>2, LengthsEmpty DEF none
<1> HIDE DEF one
<1>3. at + Lengths(SubSeq(one, 1, 1 - 1)) = at
  BY <1>2
<1>4. TellsAt(one, at, next, b, ds, 1) <=> Told(e, at, next, b, ds)
  BY <1>1, <1>3 DEF TellsAt, Onward
<1>5. Tells(one, at, next, b, ds) <=> TellsAt(one, at, next, b, ds, 1)
  BY <1>1 DEF Tells
<1>6. QED BY <1>4, <1>5 DEF one

(* Of entries with others behind them none is the last.                     *)
LEMMA TellsConcat ==
  ASSUME NEW s \in Seq(Entry), NEW t \in Seq(Entry), NEW at \in Nat, NEW next, NEW b, NEW ds
  PROVE  /\ Len(t) # 0 => (Tells(s \o t, at, next, b, ds) <=>
              Tells(s, at, 1, b, ds) /\ Tells(t, at + Lengths(s), next, b, ds))
         /\ Len(t) = 0 => (Tells(s \o t, at, next, b, ds) <=> Tells(s, at, next, b, ds))
<1> DEFINE st == s \o t
           m == Len(s)
           n == Len(t)
<1>1. /\ st \in Seq(Entry) /\ Len(st) = m + n /\ m \in Nat /\ n \in Nat
      /\ \A k \in 1..m : st[k] = s[k] /\ SubSeq(st, 1, k - 1) = SubSeq(s, 1, k - 1)
      /\ \A k \in 1..n : /\ st[m + k] = t[k]
                         /\ SubSeq(st, 1, (m + k) - 1) = s \o SubSeq(t, 1, k - 1)
  BY ConcatIs
<1>2. Lengths(s) \in Nat
  BY LengthsNat
<1> HIDE DEF st, m, n
<1>3. ASSUME NEW k \in 1..m, n # 0
      PROVE  TellsAt(st, at, next, b, ds, k) <=> TellsAt(s, at, 1, b, ds, k)
  <2>1. k # Len(st) /\ st[k] = s[k] /\ SubSeq(st, 1, k - 1) = SubSeq(s, 1, k - 1)
    BY <1>1, <1>3
  <2>2. (IF k = Len(s) THEN 1 ELSE 1) = 1
    OBVIOUS
  <2>3. QED BY <2>1, <2>2 DEF TellsAt, Onward
<1>4. ASSUME NEW k \in 1..m, n = 0
      PROVE  TellsAt(st, at, next, b, ds, k) <=> TellsAt(s, at, next, b, ds, k)
  <2>1. Len(st) = Len(s) /\ st[k] = s[k] /\ SubSeq(st, 1, k - 1) = SubSeq(s, 1, k - 1)
    BY <1>1, <1>4 DEF m
  <2>2. QED BY <2>1 DEF TellsAt, Onward
<1>5. ASSUME NEW k \in 1..n
      PROVE  TellsAt(st, at, next, b, ds, m + k) <=> TellsAt(t, at + Lengths(s), next, b, ds, k)
  <2> DEFINE p == SubSeq(t, 1, k - 1)
  <2>1. k \in 1..Len(t) /\ 1 \in 1..Len(t) + 1 /\ k - 1 \in 1 - 1..Len(t)
    BY <1>1, <1>5 DEF n
  <2>2. p \in Seq(Entry)
    BY <2>1, PartIs
  <2>3. st[m + k] = t[k] /\ SubSeq(st, 1, (m + k) - 1) = s \o p
    BY <1>1, <1>5
  <2> HIDE DEF p
  <2>4. Lengths(s \o p) = Lengths(s) + Lengths(p) /\ Lengths(p) \in Nat
    BY <2>2, LengthsConcat, LengthsNat
  <2>5. at + Lengths(SubSeq(st, 1, (m + k) - 1)) = (at + Lengths(s)) + Lengths(p)
    <3> DEFINE u == Lengths(s)
               v == Lengths(p)
    <3>1. Lengths(SubSeq(st, 1, (m + k) - 1)) = u + v /\ u \in Nat /\ v \in Nat
      BY <1>2, <2>3, <2>4
    <3> HIDE DEF u, v
    <3>2. at + (u + v) = (at + u) + v
      BY <3>1
    <3>3. QED BY <3>1, <3>2 DEF u, v
  <2>6. m + k = Len(st) <=> k = Len(t)
    <3>1. Len(st) = m + n /\ Len(t) = n /\ k \in Nat
      BY <1>1, <1>5 DEF n
    <3>2. m + k = m + n <=> k = n
      BY <1>1, <3>1
    <3>3. QED BY <3>1, <3>2
  <2>7. QED BY <2>3, <2>5, <2>6 DEF TellsAt, Onward, p
<1>6. \A k \in 1..m + n : k \in 1..m \/ \E i \in 1..n : k = m + i
  <2>1. TAKE k \in 1..m + n
  <2>2. CASE k <= m
    BY <1>1, <2>2
  <2>3. CASE ~(k <= m)
    <3>1. k - m \in 1..n /\ k = m + (k - m)
      BY <1>1, <2>3
    <3>2. QED BY <3>1
  <2>4. QED BY <2>2, <2>3
<1>7. (\A k \in 1..m : k \in 1..m + n) /\ \A k \in 1..n : m + k \in 1..m + n
  BY <1>1
<1>8. ASSUME n # 0
      PROVE  Tells(st, at, next, b, ds) <=> Tells(s, at, 1, b, ds) /\ Tells(t, at + Lengths(s), next, b, ds)
  <2>1. Tells(st, at, next, b, ds) <=> \A k \in 1..m + n : TellsAt(st, at, next, b, ds, k)
    BY <1>1 DEF Tells
  <2>2. Tells(s, at, 1, b, ds) <=> \A k \in 1..m : TellsAt(s, at, 1, b, ds, k)
    BY DEF Tells, m
  <2>3. Tells(t, at + Lengths(s), next, b, ds) <=> \A k \in 1..n : TellsAt(t, at + Lengths(s), next, b, ds, k)
    BY DEF Tells, n
  <2>4. ASSUME Tells(st, at, next, b, ds)
        PROVE  Tells(s, at, 1, b, ds) /\ Tells(t, at + Lengths(s), next, b, ds)
    BY <1>3, <1>5, <1>7, <1>8, <2>1, <2>2, <2>3, <2>4
  <2>5. ASSUME Tells(s, at, 1, b, ds), Tells(t, at + Lengths(s), next, b, ds)
        PROVE  Tells(st, at, next, b, ds)
    BY <1>3, <1>5, <1>6, <1>8, <2>1, <2>2, <2>3, <2>5
  <2>6. QED BY <2>4, <2>5
<1>9. ASSUME n = 0
      PROVE  Tells(st, at, next, b, ds) <=> Tells(s, at, next, b, ds)
  <2>1. Len(st) = m
    BY <1>1, <1>9
  <2>2. QED BY <1>4, <1>9, <2>1 DEF Tells, m
<1>10. QED BY <1>8, <1>9 DEF st, n

LEMMA LenIsNat == ASSUME NEW S, NEW s \in Seq(S) PROVE Len(s) \in Nat
OBVIOUS

LEMMA TellsPlain ==
  ASSUME NEW es, NEW at, NEW next, NEW b, NEW ds, \A k \in 1..Len(es) : es[k].file \/ es[k].name = NoName
  PROVE  Tells(es, at, next, b, ds)
BY DEF Tells, TellsAt, Told

LEMMA TellsMore ==
  ASSUME NEW es, NEW at, NEW next, NEW b, NEW ds, Tells(es, at, 1, b, ds)
  PROVE  Tells(es, at, next, b, ds)
<1>1. SUFFICES ASSUME NEW k \in 1..Len(es) PROVE TellsAt(es, at, next, b, ds, k)
  BY DEF Tells
<1>2. TellsAt(es, at, 1, b, ds, k)
  BY DEF Tells
<1>3. Onward(es, k, 1) = 1
  BY DEF Onward
<1>4. QED BY <1>2, <1>3, ToldMore DEF TellsAt

LEMMA TellsNext ==
  ASSUME NEW es, NEW at, NEW next, NEW b, NEW ds, next # 0 \/ (Len(es) # 0 => es[Len(es)].file),
         Tells(es, at, next, b, ds)
  PROVE  Tells(es, at, 1, b, ds)
<1>1. SUFFICES ASSUME NEW k \in 1..Len(es) PROVE TellsAt(es, at, 1, b, ds, k)
  BY DEF Tells
<1>2. TellsAt(es, at, next, b, ds, k)
  BY DEF Tells
<1>3. Onward(es, k, 1) = 1
  BY DEF Onward
<1>4. CASE k = Len(es) /\ next = 0
  <2>1. es[k].file
    BY <1>1, <1>4
  <2>2. QED BY <2>1, ToldAnyway DEF TellsAt
<1>5. CASE ~(k = Len(es) /\ next = 0)
  <2>1. Onward(es, k, next) # 0
    BY <1>5 DEF Onward
  <2>2. QED BY <1>2, <1>3, <2>1 DEF TellsAt, Told
<1>6. QED BY <1>4, <1>5

(* The parts of a segment's entries tell what the whole tells.              *)
LEMMA TellsParts ==
  ASSUME NEW es \in Seq(Entry), NEW a \in 1..Len(es), NEW z \in a..Len(es),
         NEW at \in Nat, NEW next, NEW b, NEW ds, Tells(es, at, next, b, ds)
  PROVE  /\ Tells(SubSeq(es, 1, a - 1), at, 1, b, ds)
         /\ Tells(SubSeq(es, z + 1, Len(es)), (at + Lengths(SubSeq(es, 1, a - 1))) + Lengths(SubSeq(es, a, z)),
                  next, b, ds)
<1> DEFINE p == SubSeq(es, 1, a - 1)
           mid == SubSeq(es, a, z)
           q == SubSeq(es, z + 1, Len(es))
<1>1. a \in 1..Len(es) + 1 /\ z \in a - 1..Len(es) /\ a \in Nat /\ z \in Nat /\ a <= z
  BY LenIsNat
<1>2. p \in Seq(Entry) /\ mid \in Seq(Entry) /\ q \in Seq(Entry) /\ p \o mid \in Seq(Entry) /\ es = (p \o mid) \o q
  BY <1>1, PartsAre
<1>3. Len(mid) = (z - a) + 1
  BY <1>1, PartIs
<1> HIDE DEF p, mid, q
<1>4. Len(mid) # 0
  BY <1>1, <1>3
<1>5. Lengths(p) \in Nat /\ Lengths(mid) \in Nat /\ Lengths(p \o mid) = Lengths(p) + Lengths(mid)
  BY <1>2, LengthsNat, LengthsConcat
<1>6. at + Lengths(p \o mid) = (at + Lengths(p)) + Lengths(mid)
  <2> DEFINE u == Lengths(p)
             v == Lengths(mid)
  <2>1. Lengths(p \o mid) = u + v /\ u \in Nat /\ v \in Nat
    BY <1>5
  <2> HIDE DEF u, v
  <2>2. at + (u + v) = (at + u) + v
    BY <2>1
  <2>3. QED BY <2>1, <2>2 DEF u, v
<1>7. CASE Len(q) # 0
  <2>1. Tells(p \o mid, at, 1, b, ds) /\ Tells(q, at + Lengths(p \o mid), next, b, ds)
    BY <1>2, <1>7, TellsConcat
  <2>2. Tells(p, at, 1, b, ds)
    BY <1>2, <1>4, <2>1, TellsConcat
  <2>3. QED BY <1>6, <2>1, <2>2 DEF p, mid, q
<1>8. CASE Len(q) = 0
  <2>1. Tells(p \o mid, at, next, b, ds)
    BY <1>2, <1>8, TellsConcat
  <2>2. Tells(p, at, 1, b, ds)
    BY <1>2, <1>4, <2>1, TellsConcat
  <2>3. q = <<>>
    BY <1>2, <1>8, EmptySeq
  <2>4. QED BY <2>2, <2>3, TellsNone DEF p, mid, q
<1>9. QED BY <1>7, <1>8

(* What the parts tell the whole does, a part put in another's place: of    *)
(* the same length, or the last.                                            *)
LEMMA TellsSwapped ==
  ASSUME NEW es \in Seq(Entry), NEW a \in 1..Len(es), NEW z \in a..Len(es), NEW with \in Seq(Entry), Len(with) # 0,
         Lengths(with) = Lengths(SubSeq(es, a, z)) \/ z = Len(es), NEW at \in Nat, NEW next, NEW b, NEW ds,
         Tells(SubSeq(es, 1, a - 1), at, 1, b, ds),
         Tells(with, at + Lengths(SubSeq(es, 1, a - 1)), Onward(es, z, next), b, ds),
         Tells(SubSeq(es, z + 1, Len(es)), (at + Lengths(SubSeq(es, 1, a - 1))) + Lengths(SubSeq(es, a, z)),
               next, b, ds)
  PROVE  Tells(Swapped(es, a, z, with), at, next, b, ds)
<1> DEFINE p == SubSeq(es, 1, a - 1)
           mid == SubSeq(es, a, z)
           q == SubSeq(es, z + 1, Len(es))
<1>1. a \in 1..Len(es) + 1 /\ z \in a - 1..Len(es) /\ a \in Nat /\ z \in Nat /\ a <= z
      /\ z + 1 \in 1..Len(es) + 1 /\ Len(es) \in (z + 1) - 1..Len(es) /\ Len(es) \in Nat
  BY LenIsNat
<1>2. p \in Seq(Entry) /\ mid \in Seq(Entry) /\ q \in Seq(Entry)
  BY <1>1, PartsAre
<1>3. Len(q) = (Len(es) - (z + 1)) + 1
  BY <1>1, PartIs
<1>4. Swapped(es, a, z, with) = (p \o with) \o q
  BY DEF Swapped
<1>5. Tells(p, at, 1, b, ds) /\ Tells(with, at + Lengths(p), Onward(es, z, next), b, ds)
      /\ Tells(q, (at + Lengths(p)) + Lengths(mid), next, b, ds)
      /\ (Lengths(with) = Lengths(mid) \/ z = Len(es))
  OBVIOUS
<1> HIDE DEF p, mid, q
<1>6. Lengths(p) \in Nat /\ Lengths(with) \in Nat /\ Lengths(p \o with) = Lengths(p) + Lengths(with) /\ p \o with \in Seq(Entry)
  BY <1>2, LengthsNat, LengthsConcat, ConcatIs
<1>7. at + Lengths(p \o with) = (at + Lengths(p)) + Lengths(with)
  <2> DEFINE u == Lengths(p)
             v == Lengths(with)
  <2>1. Lengths(p \o with) = u + v /\ u \in Nat /\ v \in Nat
    BY <1>6
  <2> HIDE DEF u, v
  <2>2. at + (u + v) = (at + u) + v
    BY <2>1
  <2>3. QED BY <2>1, <2>2 DEF u, v
<1>8. CASE z = Len(es)
  <2>1. Len(q) = 0 /\ Onward(es, z, next) = next
    BY <1>1, <1>3, <1>8 DEF Onward
  <2>2. Tells(p \o with, at, next, b, ds)
    BY <1>2, <1>5, <2>1, TellsConcat
  <2>3. QED BY <1>2, <1>4, <1>6, <2>1, <2>2, TellsConcat
<1>9. CASE z # Len(es)
  <2>1. Len(q) # 0 /\ Onward(es, z, next) = 1
    BY <1>1, <1>3, <1>9 DEF Onward
  <2>2. Tells(p \o with, at, 1, b, ds)
    BY <1>2, <1>5, <2>1, TellsConcat
  <2>3. Tells(q, at + Lengths(p \o with), next, b, ds)
    BY <1>5, <1>7, <1>9
  <2>4. QED BY <1>2, <1>4, <1>6, <2>1, <2>2, <2>3, TellsConcat
<1>10. QED BY <1>8, <1>9

(* Nothing but the blocks from lo to below hi changes.                      *)
Untouched(b, b2, lo, hi) ==
  /\ b \in Seq(Block) /\ b2 \in Seq(Block) /\ Len(b) <= Len(b2)
  /\ \A i \in 1..Len(b) : b2[i] = b[i] \/ (lo < DataStart + i /\ DataStart + i <= hi)

(* Blocks changed elsewhere leave a deleted file's whole.                   *)
LEMMA StillKept ==
  ASSUME NEW d, NEW e, NEW at \in Nat, NEW b, NEW b2, NEW lo \in Nat, NEW hi \in Nat, Untouched(b, b2, lo, hi),
         Still(d, e, at, b), hi <= at \/ at + Len(d[3]) <= lo
  PROVE  Still(d, e, at, b2)
<1> DEFINE n == Len(d[3])
           m == Len(b)
           m2 == Len(b2)
           base == DataStart
<1>1. d[1] = e.name /\ d[2] = at /\ d[3] \in Seq(Block) /\ base <= at /\ at + n <= base + m
      /\ \A i \in 1..n : d[3][i] = b[(at - base) + i]
  BY DEF Still
<1>2. m <= m2 /\ \A i \in 1..m : b2[i] = b[i] \/ (lo < base + i /\ base + i <= hi)
  BY DEF Untouched
<1>3. n \in Nat /\ m \in Nat /\ m2 \in Nat /\ base \in Nat
  BY <1>1, LenIsNat, DataStartNat DEF Untouched
<1>4. hi <= at \/ at + n <= lo
  OBVIOUS
<1> HIDE DEF n, m, m2, base
<1>5. base <= at /\ at + n <= base + m2
  BY <1>1, <1>2, <1>3
<1>6. ASSUME NEW i \in 1..n
      PROVE  d[3][i] = b2[(at - base) + i]
  <2>1. (at - base) + i \in 1..m /\ base + ((at - base) + i) = at + i /\ i \in Nat /\ i >= 1 /\ i <= n
    BY <1>1, <1>3
  <2>2. ~(lo < at + i /\ at + i <= hi)
    BY <1>3, <1>4, <2>1
  <2>3. b2[(at - base) + i] = b[(at - base) + i]
    BY <1>2, <2>1, <2>2
  <2>4. QED BY <1>1, <2>3
<1>7. QED BY <1>1, <1>5, <1>6 DEF Still, n, m2, base

LEMMA StartWithin ==
  ASSUME NEW es \in Seq(Entry), NEW k \in 1..Len(es)
  PROVE  /\ Lengths(SubSeq(es, 1, k - 1)) \in Nat /\ es[k] \in Entry /\ es[k].len \in Nat
         /\ Lengths(SubSeq(es, 1, k - 1)) + es[k].len <= Lengths(es)
<1>1. k \in 1..Len(es) + 1 /\ k \in k - 1..Len(es)
  BY LenIsNat
<1>2. Lengths(es) = Lengths(SubSeq(es, 1, k - 1)) + Lengths(SubSeq(es, k, k)) + Lengths(SubSeq(es, k + 1, Len(es)))
  BY <1>1, LengthsParts
<1>3. SubSeq(es, 1, k - 1) \in Seq(Entry) /\ SubSeq(es, k + 1, Len(es)) \in Seq(Entry)
  BY <1>1, PartsAre
<1>4. Lengths(SubSeq(es, 1, k - 1)) \in Nat /\ Lengths(SubSeq(es, k + 1, Len(es))) \in Nat
  BY <1>3, LengthsNat
<1>5. Lengths(SubSeq(es, k, k)) = es[k].len /\ es[k] \in Entry
  BY PartOne
<1>6. es[k].len \in Nat
  BY <1>5 DEF Entry
<1> DEFINE u == Lengths(SubSeq(es, 1, k - 1))
           v == es[k].len
           w == Lengths(SubSeq(es, k + 1, Len(es)))
           l == Lengths(es)
<1>7. l = u + v + w /\ u \in Nat /\ v \in Nat /\ w \in Nat
  BY <1>2, <1>4, <1>5, <1>6
<1> HIDE DEF u, v, w, l
<1>8. u + v <= l
  BY <1>7
<1>9. QED BY <1>5, <1>7, <1>8 DEF u, v, l

(* Of the areas behind the blocks that change, and of those before them.    *)
LEMMA TellsAfter ==
  ASSUME NEW es \in Seq(Entry), NEW at \in Nat, NEW next, NEW b, NEW b2, NEW ds, NEW lo \in Nat, NEW hi \in Nat,
         Untouched(b, b2, lo, hi), hi <= at, Tells(es, at, next, b, ds)
  PROVE  Tells(es, at, next, b2, ds)
<1>1. SUFFICES ASSUME NEW k \in 1..Len(es) PROVE TellsAt(es, at, next, b2, ds, k)
  BY DEF Tells
<1> DEFINE e == es[k]
           v == Lengths(SubSeq(es, 1, k - 1))
           nx == Onward(es, k, next)
<1>2. Told(e, at + v, nx, b, ds)
  BY DEF Tells, TellsAt
<1>3. v \in Nat
  BY StartWithin
<1> HIDE DEF e, v, nx
<1>4. at + v \in Nat /\ hi <= at + v
  BY <1>3
<1>5. \A d \in ds : Still(d, e, at + v, b) => Still(d, e, at + v, b2)
  BY <1>4, StillKept
<1>6. Told(e, at + v, nx, b2, ds)
  BY <1>2, <1>5 DEF Told
<1>7. QED BY <1>6 DEF TellsAt, e, v, nx

LEMMA TellsBefore ==
  ASSUME NEW es \in Seq(Entry), NEW at \in Nat, NEW b, NEW b2, NEW ds, NEW lo \in Nat, NEW hi \in Nat,
         Untouched(b, b2, lo, hi), at + Lengths(es) <= lo, Tells(es, at, 1, b, ds)
  PROVE  Tells(es, at, 1, b2, ds)
<1>1. SUFFICES ASSUME NEW k \in 1..Len(es) PROVE TellsAt(es, at, 1, b2, ds, k)
  BY DEF Tells
<1> DEFINE e == es[k]
           v == Lengths(SubSeq(es, 1, k - 1))
           n == es[k].len
           l == Lengths(es)
<1>2. Onward(es, k, 1) = 1
  BY DEF Onward
<1>3. Told(e, at + v, 1, b, ds)
  BY <1>2 DEF Tells, TellsAt
<1>4. v \in Nat /\ n \in Nat /\ v + n <= l /\ l \in Nat /\ at + l <= lo
  BY StartWithin, LengthsNat
<1>5. n = e.len
  OBVIOUS
<1> HIDE DEF e, v, n, l
<1>6. at + v \in Nat /\ (at + v) + n <= lo
  BY <1>4
<1>7. ASSUME NEW d \in ds, Still(d, e, at + v, b), Len(d[3]) <= n
      PROVE  Still(d, e, at + v, b2)
  <2>1. Len(d[3]) \in Nat
    BY <1>7, LenIsNat DEF Still
  <2>2. (at + v) + Len(d[3]) <= lo
    <3> DEFINE m == Len(d[3])
    <3>1. m \in Nat /\ m <= n
      BY <1>7, <2>1
    <3> HIDE DEF m
    <3>2. (at + v) + m <= lo
      BY <1>4, <1>6, <3>1
    <3>3. QED BY <3>2 DEF m
  <2>3. QED BY <1>6, <1>7, <2>2, StillKept
<1>8. Told(e, at + v, 1, b2, ds)
  BY <1>3, <1>5, <1>7 DEF Told
<1>9. QED BY <1>2, <1>8 DEF TellsAt, e, v

(* A segment before another in the chain is not the last.                   *)
LEMMA ChainBefore ==
  ASSUME NEW n \in Nat, 1..n \subseteq 1..Total, n # 0, NEW dir \in Dir, NEW size \in Nat, Sound(dir, n, size),
         NEW s \in 1..n, NEW t \in 1..n, s # t
  PROVE  \/ Ends(dir, t) <= dir[s].start /\ dir[t].next # 0
         \/ Ends(dir, s) <= dir[t].start
<1>1. \A u \in 1..n : dir[u].start \in Nat /\ Lengths(dir[u].entries) \in Nat
  <2>1. TAKE u \in 1..n
  <2>2. u \in 1..Total
    OBVIOUS
  <2>3. QED BY <2>2, DirIs
<1>2. PICK c : Link(dir, c, n) /\ Tile(dir, c, n, size)
  BY DEF Sound
<1>3. \A i, j \in 1..n : i < j => Ends(dir, c[i]) <= dir[c[j]].start
  BY <1>1, <1>2, ChainOrdered
<1>4. PICK i \in 1..n : c[i] = s
  BY <1>2, ChainOnto
<1>5. PICK j \in 1..n : c[j] = t
  BY <1>2, ChainOnto
<1>6. i < j \/ j < i
  BY <1>4, <1>5
<1>7. CASE i < j
  BY <1>3, <1>4, <1>5, <1>7
<1>8. CASE j < i
  <2>1. j \in 1..n - 1 /\ j + 1 \in 1..n
    BY <1>8
  <2>2. dir[c[j]].next = c[j + 1] /\ c[j + 1] \in 1..n
    BY <1>2, <2>1 DEF Link
  <2>3. dir[t].next # 0
    BY <1>5, <2>2
  <2>4. QED BY <1>3, <1>4, <1>5, <1>8, <2>3
<1>9. QED BY <1>6, <1>7, <1>8

(* One part of a segment replaced, and no blocks but its own changed, every *)
(* other area tells what it told.                                           *)
PartSpan(dir, s, a, z) == StartOf(dir[s], a) + Lengths(SubSeq(dir[s].entries, a, z))

LEMMA PartTells ==
  ASSUME NEW dir, NEW n \in Nat, n # 0, NEW size \in Nat, Sound(dir, n, size),
         NEW s, NEW a, NEW z, PartOf(dir, n, s, a, z), a \in 1..Len(dir[s].entries), z \in a..Len(dir[s].entries),
         NEW with, Len(with) # 0, NEW new, OnlyPart(dir, new, n, s, a, z, with),
         \A t \in 1..n : new[t].next = dir[t].next,
         NEW b, NEW b2, Untouched(b, b2, StartOf(dir[s], a), PartSpan(dir, s, a, z)),
         NEW ds, AllTell(dir, n, b, ds),
         Tells(with, StartOf(dir[s], a), Onward(dir[s].entries, z, dir[s].next), b2, ds)
  PROVE  AllTell(new, n, b2, ds)
<1> DEFINE es == dir[s].entries
           at == dir[s].start
           p == SubSeq(es, 1, a - 1)
           mid == SubSeq(es, a, z)
           q == SubSeq(es, z + 1, Len(es))
           lo == StartOf(dir[s], a)
           hi == PartSpan(dir, s, a, z)
<1>1. dir \in Dir /\ s \in 1..n /\ 1..n \subseteq 1..Total /\ s \in 1..Total
  BY DEF PartOf
<1>2. es \in Seq(Entry) /\ Len(es) \in Nat /\ at \in Nat /\ Lengths(es) \in Nat
  BY <1>1, DirIs
<1>3. a \in 1..Len(es) /\ z \in a..Len(es) /\ a \in 1..Len(es) + 1 /\ z \in a - 1..Len(es)
  BY <1>2
<1>4. /\ p \in Seq(Entry) /\ mid \in Seq(Entry) /\ q \in Seq(Entry)
      /\ Lengths(es) = Lengths(p) + Lengths(mid) + Lengths(q)
  <2> HIDE DEF es
  <2>1. QED BY <1>2, <1>3, PartsAre, LengthsParts
<1>5. Lengths(p) \in Nat /\ Lengths(mid) \in Nat /\ Lengths(q) \in Nat
  BY <1>4, LengthsNat
<1>6. lo = at + Lengths(p) /\ hi = lo + Lengths(mid) /\ Ends(dir, s) = at + Lengths(es)
  BY DEF StartOf, PartSpan, Ends
<1>7. /\ with \in Seq(Entry) /\ (Lengths(with) = Lengths(mid) \/ z = Len(es))
      /\ new[s].entries = Swapped(es, a, z, with) /\ new[s].start = at /\ new[s].next = dir[s].next
  BY <1>1 DEF OnlyPart
<1>8. Tells(es, at, dir[s].next, b, ds)
  BY <1>1 DEF AllTell
<1>9. Untouched(b, b2, lo, hi) /\ Tells(with, lo, Onward(es, z, dir[s].next), b2, ds)
  OBVIOUS
<1>10. with \in Seq(Entry)
  BY DEF OnlyPart
<1> HIDE DEF es, at, p, mid, q, lo, hi
<1>11. lo \in Nat /\ hi \in Nat /\ at <= lo /\ hi <= at + Lengths(es)
  <2> DEFINE u == Lengths(p)
             v == Lengths(mid)
             w == Lengths(q)
             l == Lengths(es)
  <2>1. u \in Nat /\ v \in Nat /\ w \in Nat /\ l = u + v + w /\ lo = at + u /\ hi = lo + v /\ at \in Nat
    BY <1>2, <1>4, <1>5, <1>6
  <2> HIDE DEF u, v, w, l
  <2>2. lo \in Nat /\ hi \in Nat /\ at <= lo /\ hi <= at + l
    BY <2>1
  <2>3. QED BY <2>2 DEF l
<1>12. Tells(Swapped(es, a, z, with), at, dir[s].next, b2, ds)
  <2>1. Tells(p, at, 1, b, ds) /\ Tells(q, (at + Lengths(p)) + Lengths(mid), dir[s].next, b, ds)
    BY <1>2, <1>3, <1>8, TellsParts DEF p, mid, q
  <2>2. Tells(p, at, 1, b2, ds)
    <3>1. at + Lengths(p) <= lo
      BY <1>2, <1>5, <1>6
    <3>2. QED BY <1>2, <1>4, <1>9, <1>11, <2>1, <3>1, TellsBefore
  <2>3. Tells(q, hi, dir[s].next, b2, ds)
    <3>1. Tells(q, hi, dir[s].next, b, ds) /\ hi <= hi
      BY <1>6, <1>11, <2>1
    <3>2. QED BY <1>4, <1>9, <1>11, <3>1, TellsAfter
  <2>4. /\ Tells(with, at + Lengths(p), Onward(es, z, dir[s].next), b2, ds)
        /\ Tells(q, (at + Lengths(p)) + Lengths(mid), dir[s].next, b2, ds)
    BY <1>6, <1>9, <2>3
  <2>5. QED BY <1>2, <1>3, <1>7, <1>10, <2>2, <2>4, TellsSwapped DEF p, mid, q
<1>13. ASSUME NEW t \in 1..n, t # s
       PROVE  Tells(new[t].entries, new[t].start, new[t].next, b2, ds)
  <2>1. new[t].entries = dir[t].entries /\ new[t].start = dir[t].start /\ new[t].next = dir[t].next
    BY <1>13 DEF OnlyPart
  <2>2. Tells(dir[t].entries, dir[t].start, dir[t].next, b, ds)
    BY DEF AllTell
  <2>3. t \in 1..Total
    BY <1>1
  <2>4. dir[t].entries \in Seq(Entry) /\ dir[t].start \in Nat /\ Lengths(dir[t].entries) \in Nat
    BY <1>1, <2>3, DirIs
  <2>5. \/ Ends(dir, t) <= dir[s].start /\ dir[t].next # 0
        \/ Ends(dir, s) <= dir[t].start
    BY <1>1, <1>13, ChainBefore
  <2>6. CASE Ends(dir, s) <= dir[t].start
    <3>1. at + Lengths(es) <= dir[t].start
      BY <1>6, <2>6
    <3>2. hi <= dir[t].start
      <4> DEFINE l == Lengths(es)
      <4>1. l \in Nat /\ hi <= at + l /\ at + l <= dir[t].start
        BY <1>2, <1>11, <3>1
      <4> HIDE DEF l
      <4>2. QED BY <1>2, <1>11, <2>4, <4>1
    <3>3. QED BY <1>9, <1>11, <2>1, <2>2, <2>4, <3>2, TellsAfter
  <2>7. CASE Ends(dir, t) <= dir[s].start /\ dir[t].next # 0
    <3>1. Tells(dir[t].entries, dir[t].start, 1, b, ds)
      BY <2>2, <2>7, TellsNext
    <3>2. dir[t].start + Lengths(dir[t].entries) <= lo
      <4> DEFINE l == dir[t].start + Lengths(dir[t].entries)
      <4>1. l \in Nat /\ l <= at
        BY <2>4, <2>7 DEF Ends, at
      <4> HIDE DEF l
      <4>2. l <= lo
        BY <1>2, <1>11, <4>1
      <4>3. QED BY <4>2 DEF l
    <3>3. Tells(dir[t].entries, dir[t].start, 1, b2, ds)
      BY <1>9, <1>11, <2>4, <3>1, <3>2, TellsBefore
    <3>4. QED BY <2>1, <3>3, TellsMore
  <2>8. QED BY <2>5, <2>6, <2>7
<1>14. Tells(new[s].entries, new[s].start, new[s].next, b2, ds)
  BY <1>7, <1>12
<1>15. QED BY <1>13, <1>14 DEF AllTell

(* A file put over an area.                                                 *)
LEMMA FillTells ==
  ASSUME NEW dir, NEW n \in Nat, n # 0, Size \in Nat, Sound(dir, n, Size), blocks \in Seq(Block),
         NEW s, NEW k, PartOf(dir, n, s, k, k), k \in 1..Len(dir[s].entries),
         NEW data \in Seq(Block), NEW file \in Entry, file.file, file.len = Len(data),
         dir[s].entries[k].len >= Len(data), Fill(dir, s, k, file, data), NEW ds, AllTell(dir, n, blocks, ds)
  PROVE  AllTell(segs', n, blocks', ds)
<1> DEFINE es == dir[s].entries
           e == es[k]
           m == Len(data)
           rest == Residue(e, m)
           with == <<file>> \o rest
           at == StartOf(dir[s], k)
           new == segs'
           b2 == blocks'
<1>1. dir \in Dir /\ s \in 1..n /\ 1..n \subseteq 1..Total /\ s \in 1..Total
  BY DEF PartOf
<1>2. OnlyPart(dir, new, n, s, k, k, with) /\ rest \in Seq(Entry) /\ Lengths(SubSeq(es, k, k)) = e.len /\ at \in Nat
  BY FillOnly
<1>3. es \in Seq(Entry) /\ Len(es) \in Nat /\ k \in k..Len(es)
  <2>1. es \in Seq(Entry) /\ Len(es) \in Nat
    BY <1>1, DirIs
  <2>2. QED BY <2>1
<1>4. \A t \in 1..n : new[t].next = dir[t].next
  BY <1>1, FillIs
<1>5. b2 \in Seq(Block) /\ Len(b2) = Len(blocks)
      /\ \A p \in 1..Len(blocks) : p + DataStart - at \notin 1..m => b2[p] = blocks[p]
  BY <1>2, FillBlocks
<1>6. m \in Nat /\ e.len \in Nat /\ m <= e.len /\ DataStart \in Nat
  <2>1. e \in Entry
    BY <1>3, ElementOfSeq
  <2>2. e.len \in Nat
    BY <2>1 DEF Entry
  <2>3. QED BY <2>2, LenIsNat, DataStartNat
<1>7. PartSpan(dir, s, k, k) = at + e.len
  BY <1>2 DEF PartSpan
<1>8. /\ Len(with) # 0 /\ \A i \in 1..Len(with) : with[i].file \/ with[i].name = NoName
  <2> DEFINE one == <<file>>
             x == Len(rest)
  <2>1. one \in Seq(Entry) /\ Len(one) = 1 /\ one[1] = file
    BY LengthsOne
  <2>2. \A i \in 1..x : rest[i].name = NoName
    <3>1. CASE m < e.len
      <4> DEFINE f == Free(e.len - m)
      <4>1. f.name = NoName
        BY DEF Free, Area
      <4>2. rest = <<f>>
        BY <3>1 DEF Residue
      <4> HIDE DEF f
      <4>3. QED BY <4>1, <4>2
    <3>2. CASE ~(m < e.len)
      <4>1. rest = <<>>
        BY <3>2 DEF Residue
      <4>2. x = 0
        BY <4>1
      <4>3. QED BY <4>2
    <3>3. QED BY <3>1, <3>2
  <2> HIDE DEF one, rest
  <2>3. Len(one \o rest) = 1 + x /\ x \in Nat /\ (one \o rest)[1] = one[1] /\ \A i \in 1..x : (one \o rest)[1 + i] = rest[i]
    <3>1. /\ Len(one \o rest) = Len(one) + Len(rest) /\ Len(rest) \in Nat
          /\ \A i \in 1..Len(one) : (one \o rest)[i] = one[i]
          /\ \A i \in 1..Len(rest) : (one \o rest)[Len(one) + i] = rest[i]
      BY <1>2, <2>1, ConcatIs, ZenonT(40)
    <3>2. 1 \in 1..Len(one)
      BY <2>1
    <3>3. QED BY <2>1, <3>1, <3>2
  <2> DEFINE all == one \o rest
  <2> HIDE DEF all, x
  <2>4. Len(all) = 1 + x /\ x \in Nat /\ all[1].file /\ \A i \in 1..x : all[1 + i].name = NoName
    <3>1. all[1] = file /\ \A i \in 1..x : all[1 + i] = rest[i]
      BY <2>1, <2>3 DEF all
    <3>2. QED BY <2>2, <2>3, <3>1 DEF all
  <2>5. ASSUME NEW i \in 1..1 + x
        PROVE  all[i].file \/ all[i].name = NoName
    <3>1. CASE i = 1
      BY <2>4, <3>1
    <3>2. CASE i # 1
      <4>1. i - 1 \in 1..x /\ 1 + (i - 1) = i
        BY <2>4, <3>2
      <4>2. QED BY <2>4, <4>1
    <3>3. QED BY <3>1, <3>2
  <2>6. Len(all) # 0
    BY <2>4
  <2>7. with = all
    BY DEF all, one
  <2>8. QED BY <2>4, <2>5, <2>6, <2>7
<1> HIDE DEF es, e, m, rest, with, at, new, b2
<1>9. Untouched(blocks, b2, at, at + e.len)
  <2>1. ASSUME NEW i \in 1..Len(blocks)
        PROVE  b2[i] = blocks[i] \/ (at < DataStart + i /\ DataStart + i <= at + e.len)
    <3>1. CASE i + DataStart - at \in 1..m
      <4>1. at < DataStart + i /\ DataStart + i <= at + e.len
        BY <1>2, <1>6, <3>1
      <4>2. QED BY <4>1
    <3>2. CASE i + DataStart - at \notin 1..m
      BY <1>5, <3>2
    <3>3. QED BY <3>1, <3>2
  <2>2. Len(blocks) <= Len(b2)
    <3>1. Len(blocks) \in Nat
      BY LenIsNat
    <3>2. QED BY <1>5, <3>1
  <2>3. QED BY <1>5, <2>1, <2>2 DEF Untouched
<1>10. Tells(with, at, Onward(es, k, dir[s].next), b2, ds)
  BY <1>8, TellsPlain
<1>11. AllTell(new, n, b2, ds)
  <2>1. Untouched(blocks, b2, StartOf(dir[s], k), PartSpan(dir, s, k, k))
    BY <1>7, <1>9 DEF at
  <2>2. Tells(with, StartOf(dir[s], k), Onward(dir[s].entries, k, dir[s].next), b2, ds)
    BY <1>10 DEF at, es
  <2>3. k \in k..Len(dir[s].entries)
    BY <1>3 DEF es
  <2>4. QED BY <1>2, <1>4, <1>8, <2>1, <2>2, <2>3, PartTells
<1>12. QED BY <1>11 DEF new, b2

(* A split moves no area.                                                   *)
LEMMA SplitTells ==
  ASSUME NEW dir \in Dir, highest \in 1..Total, highest < Total, NEW s \in 1..highest, Len(dir[s].entries) >= 2,
         NEW b, NEW ds, AllTell(dir, highest, b, ds)
  PROVE  /\ AllTell(Split(dir, s), highest + 1, b, ds)
         /\ \A t \in 1..Total : t > highest + 1 => Split(dir, s)[t] = dir[t]
<1> DEFINE es == dir[s].entries
           half == Half(es)
           new == Split(dir, s)
           p == SubSeq(es, 1, half)
           q == SubSeq(es, half + 1, Len(es))
           at == dir[s].start
<1>1. s \in 1..Total /\ s # highest + 1 /\ highest + 1 \in 1..Total /\ highest \in Nat
  BY LayoutAssumption
<1>2. es \in Seq(Entry) /\ Len(es) \in Nat /\ at \in Nat
  BY <1>1, DirIs
<1>3. half \in 1..Len(es) - 1 /\ half \in 0..Len(es)
  <2> HIDE DEF es
  <2>1. Len(es) >= 2
    BY DEF es
  <2>2. QED BY <1>2, <2>1, HalfIs
<1>4. /\ \A t \in 1..Total : t # s /\ t # highest + 1 => new[t] = dir[t]
      /\ new[s].next = highest + 1 /\ new[s].start = at /\ new[s].entries = p
      /\ new[highest + 1].next = dir[s].next /\ new[highest + 1].start = at + Lengths(p)
      /\ new[highest + 1].entries = q
  BY <1>1, <1>3, SplitIs
<1>5. p \in Seq(Entry) /\ q \in Seq(Entry) /\ p \o q = es /\ Len(q) # 0
  <2> HIDE DEF es, half
  <2>1. p \in Seq(Entry) /\ q \in Seq(Entry) /\ p \o q = es /\ Len(q) = Len(es) - half
    BY <1>2, <1>3, HalvesAre
  <2> HIDE DEF p, q
  <2>2. Len(q) # 0
    BY <1>2, <1>3, <2>1
  <2>3. QED BY <2>1, <2>2
<1>6. Tells(es, at, dir[s].next, b, ds)
  BY DEF AllTell
<1> HIDE DEF es, half, new, p, q, at
<1>7. Tells(p, at, 1, b, ds) /\ Tells(q, at + Lengths(p), dir[s].next, b, ds)
  BY <1>2, <1>5, <1>6, TellsConcat
<1>8. ASSUME NEW t \in 1..highest + 1
      PROVE  Tells(new[t].entries, new[t].start, new[t].next, b, ds)
  <2>1. CASE t = s
    BY <1>4, <1>7, <2>1, TellsMore
  <2>2. CASE t = highest + 1
    BY <1>4, <1>7, <2>2
  <2>3. CASE t # s /\ t # highest + 1
    <3>1. t \in 1..highest /\ t \in 1..Total
      <4>1. t \in Nat /\ 1 <= t /\ t <= highest + 1
        BY <1>1, <1>8
      <4>2. t <= highest /\ highest <= Total /\ Total \in Nat
        BY <1>1, <2>3, <4>1, LayoutAssumption
      <4>3. QED BY <1>1, <4>1, <4>2
    <3>2. new[t] = dir[t]
      BY <1>4, <2>3, <3>1
    <3>3. QED BY <3>1, <3>2 DEF AllTell
  <2>4. QED BY <2>1, <2>2, <2>3
<1>9. ASSUME NEW t \in 1..Total, t > highest + 1
      PROVE  new[t] = dir[t]
  <2>1. t # s /\ t # highest + 1
    BY <1>1, <1>9
  <2>2. QED BY <1>4, <2>1
<1>10. QED BY <1>8, <1>9 DEF AllTell, new

(* A segment out of use describes nothing.                                  *)
Spared(dir, n) == \A s \in 1..Total : s > n => dir[s].entries = <<>>
Telling(dir, n, b, ds) == AllTell(dir, n, b, ds) /\ Spared(dir, n)

LEMMA PutNewTells ==
  ASSUME segs \in Dir, highest \in 1..Total, blocks \in Seq(Block), NEW c, Link(segs, c, highest),
         NEW dir \in Dir, Link(dir, c, highest), Tile(dir, c, highest, Size),
         NEW data \in Seq(Block), NEW file \in Entry, file.file, file.len = Len(data), PutNew(dir, file, data),
         NEW ds, Telling(dir, highest, blocks, ds)
  PROVE  Telling(segs', highest', blocks', ds)
<1>1. PICK new, u, j : Filled(dir, new, highest', u, j, file, data)
  BY PutNewFills
<1>2. /\ highest' \in 1..Total /\ Sound(new, highest', Size) /\ PartOf(new, highest', u, j, j)
      /\ j \in 1..Len(new[u].entries) /\ new[u].entries[j].len >= Len(data)
      /\ Fill(new, u, j, file, data) /\ Parted(dir, new, highest')
  BY <1>1 DEF Filled
<1>3. highest' \in Nat /\ highest' # 0 /\ Size \in Nat /\ Total \in Nat /\ highest \in Nat
  <2>1. Total \in Nat
    BY LayoutAssumption
  <2>2. Size \in Nat
    BY DataStartNat, LenIsNat DEF Size
  <2>3. QED BY <1>2, <2>1, <2>2
<1>4. Telling(new, highest', blocks, ds)
  <2>1. CASE new = dir /\ highest' = highest
    BY <2>1
  <2>2. CASE /\ highest' = highest + 1 /\ highest < Total
             /\ \E s \in 1..highest : Len(dir[s].entries) >= 2 /\ new = Split(dir, s)
    <3>1. PICK s \in 1..highest : Len(dir[s].entries) >= 2 /\ new = Split(dir, s)
      BY <2>2
    <3>2. AllTell(new, highest', blocks, ds) /\ \A t \in 1..Total : t > highest' => new[t] = dir[t]
      BY <2>2, <3>1, SplitTells DEF Telling
    <3>3. \A t \in 1..Total : t > highest' => dir[t].entries = <<>>
      BY <1>3, <2>2 DEF Telling, Spared
    <3>4. QED BY <3>2, <3>3 DEF Telling, Spared
  <2>3. QED BY <1>2, <2>1, <2>2 DEF Parted
<1>5. AllTell(segs', highest', blocks', ds)
  BY <1>2, <1>3, <1>4, FillTells DEF Telling
<1>6. Spared(segs', highest')
  <2>1. new \in Dir /\ u \in 1..highest' /\ 1..highest' \subseteq 1..Total
    BY <1>2 DEF PartOf
  <2>2. \A t \in 1..Total : t # u => segs'[t].entries = new[t].entries
    BY <1>2, <2>1, FillIs
  <2>3. \A t \in 1..Total : t > highest' => t # u
    BY <1>3, <2>1
  <2>4. QED BY <1>4, <2>2, <2>3 DEF Telling, Spared
<1>7. QED BY <1>5, <1>6 DEF Telling

(* More deleted files to tell of is no harm.                                *)
LEMMA TellsMoreSeen ==
  ASSUME NEW es, NEW at, NEW next, NEW b, NEW ds, NEW more, ds \subseteq more, Tells(es, at, next, b, ds)
  PROVE  Tells(es, at, next, b, more)
BY DEF Tells, TellsAt, Told

LEMMA TellingMoreSeen ==
  ASSUME NEW dir, NEW n, NEW b, NEW ds, NEW more, ds \subseteq more, Telling(dir, n, b, ds)
  PROVE  Telling(dir, n, b, more)
BY TellsMoreSeen DEF Telling, AllTell

(* A run of unused areas begins with what the first of them told.           *)
LEMMA MergedTells ==
  ASSUME NEW es \in Seq(Entry), NEW a \in 1..Len(es), NEW z \in a..Len(es), ~es[a].file,
         NEW at, NEW next, NEW b, NEW ds, Tells(es, at, next, b, ds)
  PROVE  Told(Merged(SubSeq(es, a, z)), at + Lengths(SubSeq(es, 1, a - 1)), Onward(es, z, next), b, ds)
<1> DEFINE run == SubSeq(es, a, z)
           m == Merged(run)
           lies == at + Lengths(SubSeq(es, 1, a - 1))
<1>1. a \in 1..Len(es) + 1 /\ z \in a - 1..Len(es) /\ a \in Nat /\ z \in Nat /\ a <= z /\ Len(es) \in Nat
  BY LenIsNat
<1>2. run \in Seq(Entry) /\ Len(run) = (z - a) + 1 /\ \A i \in 1..(z - a) + 1 : run[i] = es[(a + i) - 1]
  BY <1>1, PartIs
<1>3. 1 \in 1..(z - a) + 1 /\ (a + 1) - 1 = a
  BY <1>1
<1>4. run[1] = es[a] /\ 1 \in 1..Len(run) /\ run # <<>>
  <2>1. run[1] = es[a] /\ 1 \in 1..Len(run)
    BY <1>2, <1>3
  <2>2. Len(run) # 0
    BY <1>1, <1>2
  <2>3. QED BY <2>1, <2>2, EmptySeq
<1> HIDE DEF run
<1>5. Head(run) = run[1]
  BY <1>2, <1>4, HeadTailProperties
<1>6. m.name = es[a].name /\ m.len = Lengths(run) /\ ~m.file /\ ~m.prot
  BY <1>4, <1>5 DEF Merged, Area
<1>7. es[a].len <= Lengths(run) /\ es[a].len \in Nat /\ Lengths(run) \in Nat
  <2>1. /\ Lengths(SubSeq(run, 1, 1 - 1)) \in Nat /\ run[1].len \in Nat
        /\ Lengths(SubSeq(run, 1, 1 - 1)) + run[1].len <= Lengths(run)
    BY <1>2, <1>4, StartWithin
  <2> DEFINE u == Lengths(SubSeq(run, 1, 1 - 1))
             v == run[1].len
             l == Lengths(run)
  <2>2. l \in Nat /\ u \in Nat /\ v \in Nat /\ u + v <= l /\ v = es[a].len
    BY <1>2, <1>4, <2>1, LengthsNat
  <2> HIDE DEF u, v, l
  <2>3. v <= l
    BY <2>2
  <2>4. QED BY <2>2, <2>3 DEF l
<1>8. Told(es[a], lies, Onward(es, a, next), b, ds)
  BY DEF Tells, TellsAt
<1>9. Onward(es, a, next) = 0 => Onward(es, z, next) = 0
  BY <1>1 DEF Onward
<1> HIDE DEF m, lies
<1>10. ASSUME m.name # NoName
       PROVE  \E d \in ds : Still(d, m, lies, b) /\ (Onward(es, z, next) = 0 \/ Len(d[3]) <= m.len)
  <2>1. PICK d \in ds : Still(d, es[a], lies, b) /\ (Onward(es, a, next) = 0 \/ Len(d[3]) <= es[a].len)
    BY <1>6, <1>8, <1>10 DEF Told
  <2>2. Still(d, m, lies, b)
    BY <1>6, <2>1 DEF Still
  <2>3. Len(d[3]) \in Nat
    BY <2>1, LenIsNat DEF Still
  <2> DEFINE l == Len(d[3])
             u == es[a].len
             v == Lengths(run)
  <2>4. l \in Nat /\ u \in Nat /\ v \in Nat /\ u <= v /\ (Onward(es, a, next) = 0 \/ l <= u) /\ m.len = v
    BY <1>6, <1>7, <2>1, <2>3
  <2> HIDE DEF l, u, v
  <2>5. Onward(es, z, next) = 0 \/ l <= m.len
    BY <1>9, <2>4
  <2>6. QED BY <2>2, <2>5 DEF l
<1>11. QED BY <1>6, <1>10 DEF Told, m, lies, run

(* What removeFile frees tells of the file, its blocks still there.         *)
LEMMA FreedTells ==
  ASSUME segs \in Dir, blocks \in Seq(Block), NEW n \in Nat, n # 0, 1..n \subseteq 1..Total, Size \in Nat,
         Sound(segs, n, Size), 1 \in 1..n, NEW k \in 1..Len(segs[1].entries), NEW next
  PROVE  Told(Area(segs[1].entries[k].name, segs[1].entries[k].len), StartOf(segs[1], k), next, blocks, Remember(k))
<1> DEFINE es == segs[1].entries
           e == es[k]
           at == StartOf(segs[1], k)
           kept == BlocksAt(at, e.len)
           d == <<e.name, at, kept>>
           a == Area(e.name, e.len)
<1>1. 1 \in 1..Total /\ es \in Seq(Entry) /\ segs[1].start \in Nat
  BY DirIs
<1>2. e \in Entry /\ e.len \in Nat /\ at \in Nat
  <2> HIDE DEF es
  <2>1. k \in 1..Len(es)
    BY DEF es
  <2>2. e \in Entry /\ e.len \in Nat /\ Lengths(SubSeq(es, 1, k - 1)) \in Nat
    BY <1>1, <2>1, StartWithin
  <2>3. at \in Nat
    BY <1>1, <2>2 DEF StartOf, es
  <2>4. QED BY <2>2, <2>3
<1>3. <<e, at>> \in Areas(segs, n)
  <2>1. <<e, at>> \in Lying(es, segs[1].start)
    BY DEF Lying, StartOf
  <2>2. QED BY <2>1 DEF Areas
<1>4. DataStart <= at /\ at + e.len <= Size
  <2> DEFINE x == <<e, at>>
  <2>1. DataStart <= x[2] /\ x[2] + x[1].len <= Size
    <3> HIDE DEF x, e, at
    <3>1. x \in Areas(segs, n)
      BY <1>3 DEF x
    <3>2. QED BY <3>1, AreasWithin
  <2>2. QED BY <2>1
<1>5. d \in Remember(k)
  BY DEF Remember
<1>6. kept \in Seq(Block) /\ Len(kept) = e.len /\ \A i \in 1..e.len : kept[i] = blocks[(at - DataStart) + i]
  <2> DEFINE x == <<e, at>>
  <2>1. x[1].len \in Nat /\ x[2] \in Nat /\ DataStart <= x[2] /\ x[2] + x[1].len <= DataStart + Len(blocks)
    BY <1>2, <1>4 DEF Size
  <2>2. Data(blocks, x) = kept /\ x[1] = e /\ x[2] = at
    BY DEF Data, BlocksAt
  <2> HIDE DEF x, e, at, kept
  <2>3. /\ Data(blocks, x) \in Seq(Block) /\ Len(Data(blocks, x)) = x[1].len
        /\ \A i \in 1..x[1].len : Data(blocks, x)[i] = blocks[(x[2] - DataStart) + i]
    BY <2>1, DataIs
  <2>4. QED BY <2>2, <2>3
<1>7. d[1] = e.name /\ d[2] = at /\ d[3] = kept
  OBVIOUS
<1>8. a.name = e.name /\ a.len = e.len /\ ~a.file /\ ~a.prot
  BY DEF Area
<1>9. at + e.len <= DataStart + Len(blocks)
  BY <1>4 DEF Size
<1>10. e.len <= e.len
  BY <1>2
<1> HIDE DEF e, at, kept, d, a
<1>11. Still(d, a, at, blocks)
  BY <1>4, <1>6, <1>7, <1>8, <1>9 DEF Still
<1>12. Len(d[3]) <= a.len
  BY <1>6, <1>7, <1>8, <1>10
<1>13. Told(a, at, next, blocks, Remember(k))
  BY <1>5, <1>8, <1>11, <1>12 DEF Told
<1>14. QED BY <1>13 DEF a, at, e, es

(* What is freed joins the unused areas beside it, and the area keeps the   *)
(* first one's name.                                                        *)
LEMMA RemovedTells ==
  ASSUME segs \in Dir, blocks \in Seq(Block), NEW n \in Nat, n # 0, 1..n \subseteq 1..Total, Size \in Nat,
         Sound(segs, n, Size), 1 \in 1..n, NEW k \in 1..Len(segs[1].entries),
         Telling(segs, n, blocks, deleted)
  PROVE  Telling(Removed(k), n, blocks, Remember(k))
<1> DEFINE old == segs[1].entries
           e == old[k]
           area == Area(e.name, e.len)
           dir == Removed(k)
           ds == Remember(k)
<1>1. PICK mid, a, z : Joins(dir, mid, n, k, a, z)
  BY RemovedOnly, ZenonT(40)
<1>2. /\ mid = WithEntry(segs, 1, k, area) /\ Run(mid[1].entries, k, a, z)
      /\ PartOf(mid, n, 1, a, z) /\ a \in 1..Len(mid[1].entries) /\ z \in a..Len(mid[1].entries)
      /\ Merged(SubSeq(mid[1].entries, a, z)) \in Entry
      /\ OnlyPart(mid, dir, n, 1, a, z, <<Merged(SubSeq(mid[1].entries, a, z))>>)
  BY <1>1 DEF Joins
<1>3. 1 \in 1..Total /\ old \in Seq(Entry) /\ Len(old) \in Nat /\ mid \in Dir
  BY <1>2, DirIs DEF PartOf
<1>4. PartOf(segs, n, 1, k, k) /\ k \in k..Len(old) /\ e \in Entry /\ e.len \in Nat
  <2>1. k \in 1..Len(old) + 1 /\ k \in k - 1..Len(old) /\ k \in k..Len(old)
    BY <1>3
  <2>2. e \in Entry /\ e.len \in Nat
    BY <1>3, StartWithin
  <2>3. QED BY <2>1, <2>2 DEF PartOf
<1>5. area \in Entry /\ area.len = e.len
  BY <1>4 DEF Area, Entry
<1>6. /\ OnlyPart(segs, mid, n, 1, k, k, <<area>>)
      /\ \A t \in 1..Total : mid[t].next = segs[t].next /\ (t # 1 => mid[t].entries = segs[t].entries)
      /\ StartOf(segs[1], k) \in Nat
  <2> HIDE DEF area
  <2>1. area.len = segs[1].entries[k].len /\ k \in 1..Len(segs[1].entries)
    BY <1>5
  <2>2. /\ OnlyPart(segs, WithEntry(segs, 1, k, area), n, 1, k, k, <<area>>)
        /\ \A t \in 1..Total : /\ WithEntry(segs, 1, k, area)[t].next = segs[t].next
                               /\ t # 1 => WithEntry(segs, 1, k, area)[t].entries = segs[t].entries
        /\ StartOf(segs[1], k) \in Nat
    BY <1>4, <1>5, <2>1, EntryOnly
  <2>3. QED BY <1>2, <2>2
<1>7. AllTell(segs, n, blocks, ds)
  <2>1. deleted \subseteq ds
    BY DEF Remember
  <2> HIDE DEF ds
  <2>2. Telling(segs, n, blocks, ds)
    BY <2>1, TellingMoreSeen
  <2>3. QED BY <2>2 DEF Telling
<1>8. \A lo, hi : Untouched(blocks, blocks, lo, hi)
  <2>1. Len(blocks) <= Len(blocks)
    BY LenIsNat
  <2>2. QED BY <2>1 DEF Untouched
<1>9. Len(<<area>>) # 0 /\ Len(<<Merged(SubSeq(mid[1].entries, a, z))>>) # 0
  OBVIOUS
<1> DEFINE nx == Onward(old, k, segs[1].next)
<1>10. Tells(<<area>>, StartOf(segs[1], k), nx, blocks, ds)
  <2>1. Told(area, StartOf(segs[1], k), nx, blocks, ds)
    <3> HIDE DEF nx
    <3>1. QED BY FreedTells
  <2> HIDE DEF area, nx, ds
  <2>2. QED BY <1>5, <1>6, <2>1, TellsOne
<1>11. AllTell(mid, n, blocks, ds)
  <2>1. \A t \in 1..n : mid[t].next = segs[t].next
    BY <1>6
  <2>2. k \in k..Len(segs[1].entries)
    BY <1>4
  <2> DEFINE one == <<area>>
             lo == StartOf(segs[1], k)
  <2>3. /\ OnlyPart(segs, mid, n, 1, k, k, one) /\ Len(one) # 0
        /\ Tells(one, lo, Onward(segs[1].entries, k, segs[1].next), blocks, ds)
        /\ Untouched(blocks, blocks, lo, PartSpan(segs, 1, k, k))
    BY <1>6, <1>8, <1>9, <1>10
  <2> HIDE DEF area, ds, one
  <2>4. QED BY <1>4, <1>7, <2>1, <2>2, <2>3, PartTells
<1> HIDE DEF area, ds, dir
<1>12. Sound(mid, n, Size)
  <2>1. PICK c : Link(segs, c, n) /\ Tile(segs, c, n, Size)
    BY DEF Sound
  <2>2. \A t \in 1..n : /\ mid[t].next = segs[t].next /\ mid[t].start = segs[t].start
                        /\ Lengths(mid[t].entries) = Lengths(segs[t].entries)
    <3>1. \A t \in 1..n : mid[t].next = segs[t].next /\ mid[t].start = segs[t].start
                          /\ (t # 1 => mid[t].entries = segs[t].entries)
      BY <1>6 DEF OnlyPart
    <3>2. Lengths(mid[1].entries) = Lengths(segs[1].entries)
      <4>1. mid[1].entries = Unfiled(segs[1].entries, k)
        BY <1>1 DEF Joins
      <4>2. QED BY <1>3, <4>1, RemovedIs, SMTT(30)
    <3>3. QED BY <3>1, <3>2
  <2>3. Link(mid, c, n) /\ Tile(mid, c, n, Size)
    BY <2>1, <2>2, TileKept
  <2>4. QED BY <2>3 DEF Sound
<1> DEFINE run == SubSeq(mid[1].entries, a, z)
           nz == Onward(mid[1].entries, z, mid[1].next)
<1>13. Tells(<<Merged(run)>>, StartOf(mid[1], a), nz, blocks, ds)
  <2>1. mid[1].entries \in Seq(Entry) /\ mid[1].start \in Nat
    BY <1>3, DirIs
  <2>2. Tells(mid[1].entries, mid[1].start, mid[1].next, blocks, ds)
    BY <1>11 DEF AllTell
  <2>3. ~mid[1].entries[a].file
    <3>1. \A x \in a..z : ~mid[1].entries[x].file
      BY <1>2 DEF Run
    <3>2. a \in a..z
      BY <1>2
    <3>3. QED BY <3>1, <3>2
  <2>4. Told(Merged(run), StartOf(mid[1], a), nz, blocks, ds)
    BY <1>2, <2>1, <2>2, <2>3, MergedTells, ZenonT(40) DEF StartOf
  <2>5. StartOf(mid[1], a) \in Nat
    BY <1>1 DEF Joins
  <2> DEFINE m == Merged(run)
  <2>6. m \in Entry /\ Told(m, StartOf(mid[1], a), nz, blocks, ds)
    BY <1>2, <2>4
  <2> HIDE DEF m, nz
  <2>7. Tells(<<m>>, StartOf(mid[1], a), nz, blocks, ds)
    BY <2>5, <2>6, TellsOne
  <2>8. QED BY <2>7 DEF m
<1>14. AllTell(dir, n, blocks, ds)
  <2>1. \A t \in 1..Total : dir[t].next = mid[t].next
    BY <1>3, <1>6, RemovedKeeps DEF dir
  <2>2. \A t \in 1..n : dir[t].next = mid[t].next
    BY <2>1
  <2> DEFINE one == <<Merged(run)>>
             lo == StartOf(mid[1], a)
  <2>3. /\ OnlyPart(mid, dir, n, 1, a, z, one) /\ Len(one) # 0
        /\ Tells(one, lo, Onward(mid[1].entries, z, mid[1].next), blocks, ds)
        /\ Untouched(blocks, blocks, lo, PartSpan(mid, 1, a, z))
    BY <1>2, <1>8, <1>9, <1>13 DEF dir
  <2> HIDE DEF one
  <2>4. QED BY <1>2, <1>11, <1>12, <2>2, <2>3, PartTells
<1>15. Spared(dir, n)
  <2>1. \A t \in 1..Total : t # 1 => dir[t].entries = segs[t].entries
    BY <1>3, RemovedKeeps DEF dir
  <2>2. \A t \in 1..Total : t > n => t # 1
    BY LayoutAssumption
  <2>3. QED BY <2>1, <2>2 DEF Telling, Spared
<1>16. QED BY <1>14, <1>15 DEF Telling, dir, ds

(* What the areas of the volume tell is what is remembered of the files     *)
(* deleted, and the memories no area tells of are forgotten.                *)
LEMMA ForgetTells ==
  ASSUME segs' \in Dir, highest' \in 1..Total, NEW ds, Telling(segs', highest', blocks', ds)
  PROVE  Telling(segs', highest', blocks', Forget(ds))
<1> DEFINE kept == Forget(ds)
<1>1. SUFFICES ASSUME NEW s \in 1..highest', NEW k \in 1..Len(segs'[s].entries)
               PROVE  TellsAt(segs'[s].entries, segs'[s].start, segs'[s].next, blocks', kept, k)
  BY DEF Telling, AllTell, Tells
<1>2. s \in 1..Total
  BY LayoutAssumption
<1> DEFINE es == segs'[s].entries
           e == es[k]
           at == segs'[s].start + Lengths(SubSeq(es, 1, k - 1))
           nx == Onward(es, k, segs'[s].next)
<1>3. es \in Seq(Entry) /\ DOMAIN es = 1..Len(es)
  BY <1>2, DirIs
<1>4. e \in Entry
  BY <1>3, ElementOfSeq
<1>5. Told(e, at, nx, blocks', ds)
  BY <1>1 DEF Telling, AllTell, Tells, TellsAt
<1>6. ASSUME NEW d \in ds, d[1] = e.name, d[2] = at, ~e.file, ~e.prot
      PROVE  d \in kept
  <2>1. e = Area(e.name, e.len)
    <3> HIDE DEF e
    <3>1. QED BY <1>4, <1>6 DEF Entry, Area
  <2>2. es[k] = Area(d[1], es[k].len)
    BY <1>6, <2>1
  <2>3. StartOf(segs'[s], k) = d[2]
    BY <1>6 DEF StartOf
  <2>4. s \in 1..Total /\ k \in DOMAIN segs'[s].entries
    BY <1>1, <1>2, <1>3
  <2>5. QED BY <2>2, <2>3, <2>4 DEF Forget
<1> HIDE DEF kept, es, e, at, nx
<1>7. Told(e, at, nx, blocks', kept)
  <2>1. SUFFICES ASSUME ~e.file, e.name # NoName
                 PROVE  ~e.prot /\ \E d \in kept : Still(d, e, at, blocks') /\ (nx = 0 \/ Len(d[3]) <= e.len)
    BY DEF Told
  <2>2. ~e.prot /\ \E d \in ds : Still(d, e, at, blocks') /\ (nx = 0 \/ Len(d[3]) <= e.len)
    BY <1>5, <2>1 DEF Told
  <2>3. PICK d \in ds : Still(d, e, at, blocks') /\ (nx = 0 \/ Len(d[3]) <= e.len)
    BY <2>2
  <2>4. d \in kept
    BY <1>6, <2>1, <2>2, <2>3 DEF Still
  <2>5. QED BY <2>2, <2>3, <2>4
<1>8. QED BY <1>7 DEF TellsAt, kept, es, e, at, nx

Now == Telling(segs, highest, blocks, deleted)

(* The calls, one by one.                                                   *)
LEMMA PutFileTells ==
  ASSUME Chained, Now, NEW n \in Names, NEW data \in Contents, NEW prot \in PutAs, PutFile(n, data, prot)
  PROVE  Now'
<1> DEFINE file == [file |-> TRUE, prot |-> prot, name |-> n, len |-> Len(data)]
<1>1. data \in Seq(Block) /\ Len(data) \in Nat /\ prot \in BOOLEAN
  BY LenProperties, LayoutAssumption
<1>2. file \in Entry /\ file.len = Len(data) /\ file.file
  BY <1>1 DEF Entry
<1>3. PICK c : Link(segs, c, highest) /\ Tile(segs, c, highest, Size)
  BY DEF Chained
<1>4. /\ segs \in Dir /\ highest \in 1..Total /\ blocks \in Seq(Block)
      /\ Total \in Nat /\ highest \in Nat /\ highest # 0 /\ 1..highest \subseteq 1..Total /\ Size \in Nat
      /\ 1 \in 1..Total /\ 1 \in 1..highest
  BY Facts DEF Chained
<1>5. segs' \in Dir /\ highest' \in 1..Total
  BY PutFileKeeps DEF Kept, Chained
<1>6. CASE FilesNamed(n) = {}
  <2>1. PutNew(segs, file, data) /\ deleted' = Forget(deleted)
    BY <1>6 DEF PutFile
  <2> HIDE DEF file
  <2>2. Telling(segs', highest', blocks', deleted)
    BY <1>1, <1>2, <1>3, <1>4, <2>1, PutNewTells DEF Now
  <2>3. Telling(segs', highest', blocks', Forget(deleted))
    BY <1>5, <2>2, ForgetTells
  <2>4. QED BY <2>1, <2>3 DEF Now
<1>7. CASE FilesNamed(n) # {}
  <2> DEFINE k == FindFirst(n)
             dir == Removed(k)
             ds == Remember(k)
  <2>1. k # 0 /\ PutNew(Removed(k), file, data) /\ deleted' = Forget(Remember(k))
    BY <1>7 DEF PutFile
  <2>2. k \in 1..Len(segs[1].entries)
    BY <1>4, <2>1, DirIs, FindFirstIs
  <2> HIDE DEF k, file
  <2>3. /\ dir \in Dir
        /\ \A t \in 1..Total : /\ dir[t].next = segs[t].next /\ dir[t].start = segs[t].start
                               /\ Lengths(dir[t].entries) = Lengths(segs[t].entries)
    BY <1>4, <2>2, RemovedKeeps
  <2>4. Sound(segs, highest, Size)
    BY <1>3 DEF Sound
  <2>5. Telling(dir, highest, blocks, ds)
    BY <1>4, <2>2, <2>4, RemovedTells DEF Now
  <2>6. PutNew(dir, file, data) /\ deleted' = Forget(ds)
    BY <2>1
  <2> HIDE DEF dir, ds
  <2>7. Link(dir, c, highest) /\ Tile(dir, c, highest, Size)
    BY <1>3, <1>4, <2>3, TileKept
  <2>8. Telling(segs', highest', blocks', ds)
    BY <1>1, <1>2, <1>3, <1>4, <2>3, <2>5, <2>6, <2>7, PutNewTells
  <2>9. Telling(segs', highest', blocks', Forget(ds))
    BY <1>5, <2>8, ForgetTells
  <2>10. QED BY <2>6, <2>9 DEF Now
<1>8. QED BY <1>6, <1>7

LEMMA RemoveFileTells ==
  ASSUME Chained, Now, NEW n \in Names, RemoveFile(n)
  PROVE  Now'
<1> DEFINE k == FindFirst(n)
           ds == Remember(k)
<1>1. /\ segs \in Dir /\ highest \in 1..Total /\ blocks \in Seq(Block) /\ highest \in Nat /\ highest # 0
      /\ 1..highest \subseteq 1..Total /\ Size \in Nat /\ 1 \in 1..Total /\ 1 \in 1..highest
  BY Facts DEF Chained
<1>2. k # 0 /\ segs' = Removed(k) /\ highest' = highest /\ blocks' = blocks /\ deleted' = Forget(ds)
  BY DEF RemoveFile
<1>3. k \in 1..Len(segs[1].entries)
  BY <1>1, <1>2, DirIs, FindFirstIs
<1>4. segs' \in Dir /\ highest' \in 1..Total
  BY RemoveFileKeeps DEF Kept, Chained
<1> HIDE DEF k
<1>5. Sound(segs, highest, Size)
  BY DEF Chained, Sound
<1>6. Telling(Removed(k), highest, blocks, ds)
  BY <1>1, <1>3, <1>5, RemovedTells DEF Now
<1> HIDE DEF ds
<1>7. Telling(segs', highest', blocks', ds)
  BY <1>2, <1>6
<1>8. Telling(segs', highest', blocks', Forget(ds))
  BY <1>4, <1>7, ForgetTells
<1>9. QED BY <1>2, <1>8 DEF Now

(* An entry that becomes a file tells nothing, and the others tell the same.*)
LEMMA EntryTells ==
  ASSUME Chained, Now, NEW k \in 1..Len(segs[1].entries), NEW e \in Entry, e.file, e.len = segs[1].entries[k].len
  PROVE  Telling(WithEntry(segs, 1, k, e), highest, blocks, deleted)
<1> DEFINE new == WithEntry(segs, 1, k, e)
           one == <<e>>
           lo == StartOf(segs[1], k)
<1>1. /\ segs \in Dir /\ highest \in 1..Total /\ blocks \in Seq(Block) /\ highest \in Nat /\ highest # 0
      /\ 1..highest \subseteq 1..Total /\ Size \in Nat /\ 1 \in 1..Total /\ 1 \in 1..highest /\ Total \in Nat
  BY Facts DEF Chained
<1>2. Len(segs[1].entries) \in Nat
  BY <1>1, DirIs
<1>3. PartOf(segs, highest, 1, k, k) /\ k \in k..Len(segs[1].entries)
  BY <1>1, <1>2 DEF PartOf
<1>4. OnlyPart(segs, new, highest, 1, k, k, one)
      /\ \A t \in 1..Total : new[t].next = segs[t].next /\ (t # 1 => new[t].entries = segs[t].entries)
  BY <1>3, EntryOnly
<1>5. Untouched(blocks, blocks, lo, PartSpan(segs, 1, k, k))
  <2>1. Len(blocks) <= Len(blocks)
    BY <1>1, LenIsNat
  <2>2. QED BY <1>1, <2>1 DEF Untouched
<1>6. Len(one) # 0 /\ Tells(one, lo, Onward(segs[1].entries, k, segs[1].next), blocks, deleted)
  <2>1. Len(one) = 1 /\ one[1] = e
    BY LengthsOne
  <2> HIDE DEF one
  <2>2. \A i \in 1..Len(one) : one[i].file
    BY <2>1
  <2>3. QED BY <2>1, <2>2, TellsPlain
<1>7. Sound(segs, highest, Size) /\ AllTell(segs, highest, blocks, deleted)
  BY DEF Chained, Sound, Now, Telling
<1>8. \A t \in 1..highest : new[t].next = segs[t].next
  BY <1>1, <1>4
<1> HIDE DEF new, one
<1>9. AllTell(new, highest, blocks, deleted)
  BY <1>1, <1>3, <1>4, <1>5, <1>6, <1>7, <1>8, PartTells
<1>10. Spared(new, highest)
  <2>1. \A t \in 1..Total : t > highest => t # 1
    BY <1>1
  <2>2. QED BY <1>4, <2>1 DEF Now, Telling, Spared
<1>11. QED BY <1>9, <1>10 DEF Telling, new

(* A file that gets another name or protection.                             *)
LEMMA MutateTells ==
  ASSUME Chained, Now, NEW n, NEW e \in Entry, Mutate(n, e), e.file, e.len = segs[1].entries[FindFirst(n)].len
  PROVE  Now'
<1> DEFINE k == FindFirst(n)
<1>1. k # 0 /\ segs' = WithEntry(segs, 1, k, e) /\ UNCHANGED <<highest, blocks, deleted>>
  BY DEF Mutate, WithEntry
<1>2. k \in 1..Len(segs[1].entries)
  BY <1>1, PermanentIs DEF Chained
<1>3. e.len = segs[1].entries[k].len
  OBVIOUS
<1> HIDE DEF k
<1>4. Telling(WithEntry(segs, 1, k, e), highest, blocks, deleted)
  BY <1>2, <1>3, EntryTells
<1>5. QED BY <1>1, <1>4 DEF Now

LEMMA RenameFileTells ==
  ASSUME Chained, Now, NEW n \in Names, NEW to \in Names, RenameFile(n, to)
  PROVE  Now'
  BY RenameFileIs, MutateTells, Facts DEF Chained

LEMMA SetProtectedTells ==
  ASSUME Chained, Now, NEW n \in Names, NEW on \in BOOLEAN, SetProtected(n, on)
  PROVE  Now'
  BY SetProtectedIs, MutateTells, Facts DEF Chained

LEMMA UndeleteEntryTells ==
  ASSUME Chained, Now, NEW k \in DOMAIN segs[1].entries, NEW new \in Names \cup {NoName}, UndeleteEntry(k, new)
  PROVE  Now'
<1> DEFINE old == segs[1].entries[k]
           under == IF new = NoName THEN old.name ELSE new
           e == [file |-> TRUE, prot |-> FALSE, name |-> under, len |-> old.len]
<1>1. segs' = WithEntry(segs, 1, k, e) /\ UNCHANGED <<highest, blocks>> /\ deleted' = Forget(deleted)
  BY DEF UndeleteEntry, WithEntry
<1>2. /\ segs \in Dir /\ 1 \in 1..Total /\ segs[1].entries \in Seq(Entry)
      /\ k \in 1..Len(segs[1].entries)
  BY Facts, DirIs DEF Chained
<1>3. old \in Entry
  BY <1>2, ElementOfSeq
<1>4. e \in Entry /\ e.len = old.len /\ e.file
  <2> HIDE DEF old
  <2>1. QED BY <1>3 DEF Entry
<1>5. segs' \in Dir /\ highest' \in 1..Total
  BY UndeleteEntryKeeps DEF Kept, Chained
<1> HIDE DEF e
<1>6. Telling(WithEntry(segs, 1, k, e), highest, blocks, deleted)
  BY <1>2, <1>4, EntryTells
<1>7. Telling(segs', highest', blocks', deleted)
  BY <1>1, <1>6
<1>8. Telling(segs', highest', blocks', Forget(deleted))
  BY <1>5, <1>7, ForgetTells
<1>9. QED BY <1>1, <1>8 DEF Now

(* A directory of one segment with no named unused area tells of nothing.   *)
LEMMA AloneTells ==
  ASSUME NEW dir, NEW b, NEW ds, \A t \in 1..Total : t > 1 => dir[t].entries = <<>>,
         \A k \in 1..Len(dir[1].entries) : dir[1].entries[k].file \/ dir[1].entries[k].name = NoName
  PROVE  Telling(dir, 1, b, ds)
<1>1. Tells(dir[1].entries, dir[1].start, dir[1].next, b, ds)
  BY TellsPlain
<1>2. 1..1 = {1}
  OBVIOUS
<1>3. QED BY <1>1, <1>2 DEF Telling, AllTell, Spared

LEMMA SqueezeTells ==
  ASSUME Chained, Fits(segs, highest), Now, Squeeze
  PROVE  Now'
<1>1. segs' \in Dir /\ highest' \in 1..Total /\ highest = 1 /\ highest' = 1 /\ deleted' = Forget(deleted)
  BY SqueezeKeeps, SqueezeIs DEF Kept, Chained
<1>2. \A i \in 1..Len(Perms) : Perms[i].file
  BY SqueezeIs, FilesInIs DEF Perms
<1>3. \A t \in 1..Total : t > 1 => segs[t].entries = <<>> /\ t # 1
  BY <1>1 DEF Now, Telling, Spared
<1>4. /\ \A t \in 1..Total : t > 1 => segs'[t].entries = <<>>
      /\ \A k \in 1..Len(segs'[1].entries) : segs'[1].entries[k].file \/ segs'[1].entries[k].name = NoName
  <2>1. CASE SpareFits
    <3>1. (\A t \in 1..Total : t # 1 => segs'[t].entries = segs[t].entries) /\ segs'[1].entries = Squeezed
      BY <2>1, SqueezeIs
    <3>2. ASSUME NEW k \in 1..Len(Squeezed) PROVE Squeezed[k].file \/ Squeezed[k].name = NoName
      <4> DEFINE m == Len(Perms)
      <4>1. m \in Nat /\ Len(Squeezed) = m + 1 /\ Spare.name = NoName
        BY SqueezeIs
      <4>2. \A i \in 1..m + 1 : Squeezed[i] = IF i <= m THEN Perms[i] ELSE Spare
        BY SqueezeIs, AppendIsConcat, AppendProperties DEF Squeezed
      <4> HIDE DEF m
      <4>3. k \in 1..m \/ Squeezed[k] = Spare
        BY <3>2, <4>1, <4>2
      <4>4. k \in 1..m => Squeezed[k] = Perms[k]
        BY <4>1, <4>2
      <4>5. QED BY <1>2, <4>1, <4>3, <4>4 DEF m
    <3>3. QED BY <1>3, <3>1, <3>2
  <2>2. CASE ~SpareFits
    <3>1. Perms = segs[1].entries /\ segs' = segs
      BY <2>2, SqueezeFull
    <3>2. QED BY <1>2, <1>3, <3>1
  <2>3. QED BY <2>1, <2>2
<1>5. Telling(segs', highest', blocks', deleted)
  BY <1>1, <1>4, AloneTells
<1>6. Telling(segs', highest', blocks', Forget(deleted))
  BY <1>1, <1>5, ForgetTells
<1>7. QED BY <1>1, <1>6 DEF Now

LEMMA InitVolumeTells ==
  ASSUME NEW n \in Nat, NEW b, NEW ds
  PROVE  Telling(Fresh(n), 1, b, ds)
<1> DEFINE area == Free(n)
           one == <<area>>
<1>1. 1 \in 1..Total /\ \A t \in 1..Total : t > 1 => t # 1
  BY LayoutAssumption
<1>2. area.name = NoName
  BY DEF Free, Area
<1>3. Fresh(n)[1].entries = one /\ \A t \in 1..Total : t > 1 => Fresh(n)[t].entries = <<>>
  BY <1>1 DEF Fresh, Blank
<1>4. Len(one) = 1 /\ one[1] = area
  OBVIOUS
<1> HIDE DEF area, one
<1>5. \A k \in 1..Len(one) : one[k].file \/ one[k].name = NoName
  BY <1>2, <1>4
<1>6. QED BY <1>3, <1>5, AloneTells

(* The last area of the chain grown or shortened.                           *)
LEMMA LastLengthTells ==
  ASSUME Chained, Now, NEW c, Link(segs, c, highest), NEW k, k = Len(segs[c[highest]].entries), k # 0, NEW len \in Nat,
         segs' = [segs EXCEPT ![c[highest]].entries[k].len = len], highest' = highest, deleted' = deleted,
         blocks' \in Seq(Block), Len(blocks) <= Len(blocks'), \A i \in 1..Len(blocks) : blocks'[i] = blocks[i]
  PROVE  Now'
<1> DEFINE s == c[highest]
           es == segs[s].entries
           old == es[k]
           e == [old EXCEPT !.len = len]
           one == <<e>>
           lo == StartOf(segs[s], k)
<1>1. /\ segs \in Dir /\ highest \in 1..Total /\ blocks \in Seq(Block) /\ highest \in Nat /\ highest # 0
      /\ 1..highest \subseteq 1..Total /\ Size \in Nat /\ Total \in Nat /\ highest \in 1..highest
  BY Facts DEF Chained
<1>2. s \in 1..highest /\ s \in 1..Total /\ segs[s].next = 0
  BY <1>1 DEF Link
<1>3. es \in Seq(Entry) /\ Len(es) \in Nat /\ segs[s].start \in Nat
  BY <1>1, <1>2, DirIs
<1>4. k \in 1..Len(es) /\ k \in k..Len(es) /\ k = Len(es)
  <2>1. k = Len(es) /\ k # 0
    OBVIOUS
  <2> HIDE DEF es
  <2>2. QED BY <1>3, <2>1
<1>5. old \in Entry
  BY <1>3, <1>4, ElementOfSeq
<1>6. e \in Entry /\ e.file = old.file /\ e.prot = old.prot /\ e.name = old.name
  <2> HIDE DEF old
  <2>1. QED BY <1>5 DEF Entry
<1>7. segs' = WithEntry(segs, s, k, e)
  BY DEF WithEntry
<1> HIDE DEF s, e, old
<1>8. PartOf(segs, highest, s, k, k) /\ lo \in Nat
  <2>1. Lengths(SubSeq(es, 1, k - 1)) \in Nat
    <3> HIDE DEF es
    <3>1. QED BY <1>3, <1>4, StartWithin
  <2>2. lo \in Nat
    BY <1>3, <2>1 DEF StartOf
  <2>3. k \in 1..Len(segs[s].entries) + 1 /\ k \in k - 1..Len(segs[s].entries)
    <3> HIDE DEF es
    <3>1. k \in 1..Len(es) + 1 /\ k \in k - 1..Len(es)
      BY <1>3, <1>4
    <3>2. QED BY <3>1 DEF es
  <2>4. QED BY <1>1, <1>2, <2>2, <2>3 DEF PartOf
<1> DEFINE new == WithEntry(segs, s, k, e)
           b2 == blocks'
<1>9. OnlyPart(segs, new, highest, s, k, k, one)
      /\ \A t \in 1..Total : new[t].next = segs[t].next /\ (t # s => new[t].entries = segs[t].entries)
  <2>1. k \in 1..Len(segs[s].entries) /\ k = Len(segs[s].entries)
    BY <1>4
  <2> HIDE DEF es
  <2>2. QED BY <1>6, <1>8, <2>1, EntryOnly
<1>10. \A l, h : Untouched(blocks, b2, l, h)
  BY <1>1 DEF Untouched
<1>11. Onward(segs[s].entries, k, segs[s].next) = 0
  BY <1>2, <1>4 DEF Onward
<1>12. Tells(one, lo, 0, b2, deleted)
  <2>1. TellsAt(es, segs[s].start, segs[s].next, blocks, deleted, k)
    BY <1>2, <1>4 DEF Now, Telling, AllTell, Tells
  <2>2. Told(old, lo, 0, blocks, deleted)
    BY <1>11, <2>1 DEF TellsAt, StartOf, old
  <2> HIDE DEF lo, b2, one
  <2>3. \A d \in deleted : Still(d, old, lo, blocks) => Still(d, e, lo, b2)
    <3>1. TAKE d \in deleted
    <3>2. HAVE Still(d, old, lo, blocks)
    <3>3. Untouched(blocks, b2, 0, 0) /\ 0 \in Nat /\ 0 <= lo
      BY <1>8, <1>10
    <3>4. Still(d, old, lo, b2)
      BY <1>8, <3>2, <3>3, StillKept
    <3>5. QED BY <1>6, <3>4 DEF Still
  <2>4. Told(e, lo, 0, b2, deleted)
    BY <1>6, <2>2, <2>3 DEF Told
  <2>5. QED BY <1>6, <1>8, <2>4, TellsOne DEF one
<1>13. Sound(segs, highest, Size) /\ AllTell(segs, highest, blocks, deleted)
  BY DEF Chained, Sound, Now, Telling
<1>14. \A t \in 1..highest : new[t].next = segs[t].next
  BY <1>1, <1>9
<1>15. Len(one) # 0
  OBVIOUS
<1>16. /\ k \in 1..Len(segs[s].entries) /\ k \in k..Len(segs[s].entries)
       /\ Tells(one, StartOf(segs[s], k), Onward(segs[s].entries, k, segs[s].next), b2, deleted)
       /\ Untouched(blocks, b2, StartOf(segs[s], k), PartSpan(segs, s, k, k))
  BY <1>4, <1>10, <1>11, <1>12
<1> HIDE DEF new, one, b2, es, lo
<1>17. AllTell(new, highest, b2, deleted)
  <2>1. OnlyPart(segs, new, highest, s, k, k, one) /\ Len(one) # 0 /\ PartOf(segs, highest, s, k, k)
    BY <1>8, <1>9, <1>15
  <2>2. highest \in Nat /\ highest # 0 /\ Size \in Nat
    BY <1>1
  <2> DEFINE a == k
  <2>3. a \in 1..Len(segs[s].entries) /\ k \in a..Len(segs[s].entries)
        /\ Tells(one, StartOf(segs[s], a), Onward(segs[s].entries, k, segs[s].next), b2, deleted)
        /\ Untouched(blocks, b2, StartOf(segs[s], a), PartSpan(segs, s, a, k))
        /\ OnlyPart(segs, new, highest, s, a, k, one) /\ PartOf(segs, highest, s, a, k)
    BY <1>16, <2>1
  <2> HIDE DEF a
  <2>4. QED BY <1>13, <1>14, <2>1, <2>2, <2>3, PartTells
<1>18. Spared(new, highest)
  <2>1. \A t \in 1..Total : t > highest => t # s
    <3>1. highest \in Nat /\ s \in 1..highest
      BY <1>1, <1>2
    <3>2. s <= highest /\ s \in Int
      BY <3>1
    <3>3. QED BY <3>1, <3>2
  <2>2. QED BY <1>9, <2>1 DEF Now, Telling, Spared
<1>19. QED BY <1>7, <1>17, <1>18 DEF Now, Telling, new, b2

LEMMA EndFreeSpaceAtTells ==
  ASSUME Chained, Now, NEW lbn \in Fences, EndFreeSpaceAt(lbn)
  PROVE  Now'
<1> DEFINE k == Len(LastEs)
<1>1. PICK c : Link(segs, c, highest) /\ c[highest] = LastSeg
  BY EndFreeSpaceAtIs
<1>2. /\ k = Len(segs[c[highest]].entries) /\ k # 0 /\ Ended(lbn) \in Nat
      /\ segs' = [segs EXCEPT ![c[highest]].entries[k].len = Ended(lbn)]
      /\ highest' = highest /\ deleted' = deleted /\ blocks' \in Seq(Block) /\ Len(blocks) <= Len(blocks')
      /\ \A i \in 1..Len(blocks) : blocks'[i] = blocks[i]
  BY <1>1, EndFreeSpaceAtIs DEF LastEs, Resized
<1> HIDE DEF k
<1>3. QED BY <1>1, <1>2, LastLengthTells

(* The blocks growLinear adds come after all that were there, and so does a *)
(* new entry.                                                               *)
LEMMA GrowLinearTells ==
  ASSUME Chained, Now, NEW n \in Growths, GrowLinear(n)
  PROVE  Now'
<1> DEFINE s == LastSeg
           es == LastEs
           b2 == blocks'
<1>1. PICK c : Link(segs, c, highest) /\ Tile(segs, c, highest, Size) /\ c[highest] = s
  BY GrowLinearIs
<1>2. /\ segs \in Dir /\ s \in 1..highest /\ s \in 1..Total /\ highest' = highest /\ deleted' = deleted
      /\ b2 \in Seq(Block) /\ Len(blocks) <= Len(b2) /\ (\A i \in 1..Len(blocks) : b2[i] = blocks[i])
      /\ es \in Seq(Entry) /\ segs[s].entries = es
  BY GrowLinearIs DEF LastEs
<1>3. highest \in Nat /\ 1..highest \subseteq 1..Total /\ Total \in Nat /\ blocks \in Seq(Block)
  BY Facts DEF Chained
<1>4. CASE Widens
  <2> DEFINE k == Len(es)
  <2>1. k # 0 /\ Widened(n) \in Nat /\ segs' = [segs EXCEPT ![c[highest]].entries[k].len = Widened(n)]
        /\ k = Len(segs[c[highest]].entries)
    BY <1>1, <1>4, GrowLinearIs DEF Resized, LastEs
  <2> HIDE DEF k
  <2>2. QED BY <1>1, <1>2, <2>1, LastLengthTells
<1>5. CASE ~Widens
  <2> DEFINE one == <<Free(n)>>
             at == segs[s].start
             all == es \o one
  <2>1. segs' = WithEntries(segs, s, all) /\ one \in Seq(Entry) /\ all \in Seq(Entry) /\ Free(n).name = NoName
    BY <1>5, GrowLinearIs DEF Longer
  <2>2. Len(one) = 1 /\ \A i \in 1..Len(one) : one[i].name = NoName
    BY <2>1
  <2> HIDE DEF all, one, s
  <2>3. \A t \in 1..Total : /\ segs'[t].next = segs[t].next /\ segs'[t].start = segs[t].start
                            /\ segs'[t].entries = IF t = s THEN all ELSE segs[t].entries
    BY <1>2, <2>1, EntriesSet
  <2>4. Untouched(blocks, b2, 0, 0)
    BY <1>2, <1>3 DEF Untouched
  <2>5. ASSUME NEW t \in 1..highest
        PROVE  Tells(segs[t].entries, segs[t].start, segs[t].next, b2, deleted)
    <3>1. t \in 1..Total
      BY <1>3
    <3>2. segs[t].entries \in Seq(Entry) /\ segs[t].start \in Nat
      BY <1>2, <3>1, DirIs
    <3>3. Tells(segs[t].entries, segs[t].start, segs[t].next, blocks, deleted)
      BY DEF Now, Telling, AllTell
    <3>4. 0 \in Nat /\ 0 <= segs[t].start
      BY <3>2
    <3> HIDE DEF b2
    <3>5. QED BY <2>4, <3>2, <3>3, <3>4, TellsAfter
  <2>6. Tells(all, at, segs[s].next, b2, deleted)
    <3>1. Tells(es, at, segs[s].next, b2, deleted)
      BY <1>2, <2>5
    <3>2. at \in Nat
      BY <1>2, DirIs
    <3>3. Len(es) # 0 => es[Len(es)].file
      BY <1>2, <1>5, EmptySeq DEF Widens
    <3> HIDE DEF es, b2, at
    <3>4. Tells(es, at, 1, b2, deleted)
      BY <3>1, <3>3, TellsNext
    <3>5. Tells(one, at + Lengths(es), segs[s].next, b2, deleted)
      BY <2>2, TellsPlain
    <3>6. Len(one) # 0
      BY <2>2
    <3>7. QED BY <1>2, <2>1, <3>2, <3>4, <3>5, <3>6, TellsConcat DEF all
  <2> HIDE DEF b2
  <2>7. AllTell(segs', highest', b2, deleted')
    <3>1. SUFFICES ASSUME NEW t \in 1..highest
                   PROVE  Tells(segs'[t].entries, segs'[t].start, segs'[t].next, b2, deleted)
      BY <1>2 DEF AllTell
    <3>2. t \in 1..Total
      BY <1>3
    <3>3. CASE t = s
      BY <2>3, <2>6, <3>2, <3>3
    <3>4. CASE t # s
      BY <2>3, <2>5, <3>2, <3>4
    <3>5. QED BY <3>3, <3>4
  <2>8. Spared(segs', highest')
    <3>1. \A t \in 1..Total : t > highest => t # s
      BY <1>2, <1>3
    <3>2. \A t \in 1..Total : t > highest => segs[t].entries = <<>>
      BY DEF Now, Telling, Spared
    <3>3. \A t \in 1..Total : t > highest => segs'[t].entries = <<>>
      BY <2>3, <3>1, <3>2
    <3>4. QED BY <1>2, <3>3 DEF Spared
  <2>9. QED BY <2>7, <2>8 DEF Now, Telling, b2
<1>6. QED BY <1>4, <1>5

(* What every call keeps: that what areas tell of deleted files is so.      *)
LEMMA NextTells == Chained /\ Now /\ ReadsBack /\ [Next]_vars => Now'
<1>1. SUFFICES ASSUME Chained, Now, ReadsBack, [Next]_vars PROVE Now'
  OBVIOUS
<1>2. Fits(segs, highest)
  BY <1>1, ReadsBackFits
<1>3. ASSUME NEW n \in Names, NEW data \in Contents, NEW prot \in PutAs, PutFile(n, data, prot) PROVE Now'
  BY <1>1, <1>3, PutFileTells
<1>4. ASSUME NEW n \in Names, RemoveFile(n) PROVE Now'
  BY <1>1, <1>4, RemoveFileTells
<1>5. ASSUME NEW n \in Names, NEW to \in Names, RenameFile(n, to) PROVE Now'
  BY <1>1, <1>5, RenameFileTells
<1>6. ASSUME NEW n \in Names, NEW on \in BOOLEAN, SetProtected(n, on) PROVE Now'
  BY <1>1, <1>6, SetProtectedTells
<1>7. ASSUME NEW k \in DOMAIN segs[1].entries, NEW new \in Names \cup {NoName}, UndeleteEntry(k, new) PROVE Now'
  BY <1>1, <1>7, UndeleteEntryTells
<1>8. ASSUME Squeeze PROVE Now'
  BY <1>1, <1>2, <1>8, SqueezeTells
<1>9. ASSUME NEW n \in Growths, GrowLinear(n) PROVE Now'
  BY <1>1, <1>9, GrowLinearTells
<1>10. ASSUME NEW lbn \in Fences, EndFreeSpaceAt(lbn) PROVE Now'
  BY <1>1, <1>10, EndFreeSpaceAtTells
<1>11. ASSUME InitVolume PROVE Now'
  <2>1. segs' = Fresh(Len(blocks)) /\ highest' = 1 /\ Len(blocks) \in Nat
    BY <1>1, <1>11, Facts DEF InitVolume
  <2>2. QED BY <2>1, InitVolumeTells DEF Now
<1>12. CASE UNCHANGED vars
  BY <1>1, <1>12 DEF vars, Now
<1>13. QED BY <1>1, <1>3, <1>4, <1>5, <1>6, <1>7, <1>8, <1>9, <1>10, <1>11, <1>12 DEF Next

(* What begins like another and is no longer is a prefix of it.             *)
LEMMA PrefixIs ==
  ASSUME NEW s \in Seq(Block), NEW t \in Seq(Block), Len(s) <= Len(t), \A i \in 1..Len(s) : s[i] = t[i]
  PROVE  IsPrefix(s, t)
<1> DEFINE n == Len(s)
           a == SubSeq(s, 1, n)
           b == SubSeq(t, 1, n)
<1>1. n \in Nat /\ Len(t) \in Nat /\ n <= Len(t) /\ \A i \in 1..n : s[i] = t[i] /\ s[i] \in Block /\ t[i] \in Block
  <2>1. n \in Nat /\ Len(t) \in Nat /\ n <= Len(t)
    BY LenIsNat
  <2>2. ASSUME NEW i \in 1..n PROVE s[i] = t[i] /\ s[i] \in Block /\ t[i] \in Block
    <3>1. i \in 1..Len(s) /\ i \in 1..Len(t) /\ s[i] = t[i]
      BY <2>1
    <3> HIDE DEF n
    <3>2. QED BY <3>1, ElementOfSeq
  <2>3. QED BY <2>1, <2>2
<1> HIDE DEF n
<1>2. /\ a \in Seq(Block) /\ Len(a) = n /\ \A i \in 1..n : a[i] = s[i]
      /\ b \in Seq(Block) /\ Len(b) = n /\ \A i \in 1..n : b[i] = t[i]
  <2>1. 1 \in Int /\ n \in Int /\ \A i \in 1..n : s[i] \in Block
    BY <1>1
  <2>2. 1 \in Int /\ n \in Int /\ \A i \in 1..n : t[i] \in Block
    BY <1>1
  <2>3. /\ a \in Seq(Block) /\ Len(a) = (IF 1 <= n THEN n - 1 + 1 ELSE 0)
        /\ \A i \in 1..n - 1 + 1 : a[i] = s[1 + i - 1]
    BY <2>1, SubSeqProperties
  <2>4. /\ b \in Seq(Block) /\ Len(b) = (IF 1 <= n THEN n - 1 + 1 ELSE 0)
        /\ \A i \in 1..n - 1 + 1 : b[i] = t[1 + i - 1]
    BY <2>2, SubSeqProperties
  <2> HIDE DEF a, b
  <2>5. Len(a) = n /\ Len(b) = n
    BY <1>1, <2>3, <2>4
  <2>6. \A i \in 1..n : i \in 1..n - 1 + 1 /\ 1 + i - 1 = i
    BY <1>1
  <2>7. QED BY <2>3, <2>4, <2>5, <2>6
<1> HIDE DEF a, b
<1>3. a = b
  BY <1>1, <1>2, SeqEqual
<1>4. QED BY <1>1, <1>3 DEF IsPrefix, n, a, b

(* What Still says, of an area within the volume.                           *)
LEMMA StillPrefix ==
  ASSUME blocks \in Seq(Block), NEW d, NEW e, NEW at \in Nat, NEW len \in Nat, Still(d, e, at, blocks),
         at + len <= DataStart + Len(blocks)
  PROVE  IsPrefix(BlocksAt(at, len), d[3]) \/ IsPrefix(d[3], BlocksAt(at, len))
<1> DEFINE was == d[3]
           now == BlocksAt(at, len)
           m == Len(was)
           o == at - DataStart
<1>1. was \in Seq(Block) /\ m \in Nat /\ DataStart <= at /\ \A i \in 1..m : was[i] = blocks[o + i]
  BY LenIsNat DEF Still
<1> DEFINE x == <<[len |-> len], at>>
<1>2. x[1].len = len /\ x[2] = at /\ Data(blocks, x) = now
  BY DEF Data, BlocksAt
<1> HIDE DEF x, now
<1>3. now \in Seq(Block) /\ Len(now) = len /\ \A i \in 1..len : now[i] = blocks[o + i]
  <2>1. x[1].len \in Nat /\ x[2] \in Nat /\ DataStart <= x[2] /\ x[2] + x[1].len <= DataStart + Len(blocks)
    BY <1>1, <1>2
  <2>2. QED BY <1>2, <2>1, DataIs
<1> HIDE DEF was, m, o
<1>4. CASE m <= len
  <2>1. \A i \in 1..m : was[i] = now[i]
    BY <1>1, <1>3, <1>4
  <2>2. IsPrefix(was, now)
    BY <1>1, <1>3, <1>4, <2>1, PrefixIs DEF m
  <2>3. QED BY <2>2 DEF was, now
<1>5. CASE ~(m <= len)
  <2>1. len <= m /\ \A i \in 1..len : now[i] = was[i]
    BY <1>1, <1>3, <1>5
  <2>2. IsPrefix(now, was)
    BY <1>1, <1>3, <2>1, PrefixIs DEF m
  <2>3. QED BY <2>2 DEF was, now
<1>6. QED BY <1>4, <1>5

(* What the areas of the chain tell is all DeletedWhole asks: a segment     *)
(* out of the chain has no entries.                                         *)
LEMMA TellingDeleted == Chained /\ Now => DeletedWhole
<1>1. SUFFICES ASSUME Chained, Now, NEW s \in 1..Total, NEW k \in DOMAIN segs[s].entries,
                      ~segs[s].entries[k].file, segs[s].entries[k].name # NoName
               PROVE  \E d \in deleted :
                        /\ d[1] = segs[s].entries[k].name /\ d[2] = StartOf(segs[s], k)
                        /\ \/ IsPrefix(BlocksAt(StartOf(segs[s], k), segs[s].entries[k].len), d[3])
                           \/ IsPrefix(d[3], BlocksAt(StartOf(segs[s], k), segs[s].entries[k].len))
  BY DEF DeletedWhole
<1> DEFINE es == segs[s].entries
           at == segs[s].start
           e == es[k]
           pre == Lengths(SubSeq(es, 1, k - 1))
<1>2. /\ segs \in Dir /\ es \in Seq(Entry) /\ Len(es) \in Nat /\ at \in Nat /\ Lengths(es) \in Nat
      /\ k \in 1..Len(es) /\ blocks \in Seq(Block) /\ highest \in Nat
  BY <1>1, Facts, DirIs DEF Chained
<1>3. s \in 1..highest
  <2>1. ASSUME s > highest PROVE FALSE
    <3>1. es = <<>>
      BY <1>1, <2>1 DEF Now, Telling, Spared
    <3>2. Len(es) = 0
      BY <3>1, EmptySeq
    <3> HIDE DEF es
    <3>3. QED BY <1>2, <3>2
  <2>2. QED BY <1>1, <1>2, <2>1, LayoutAssumption
<1>4. DataStart <= at /\ Ends(segs, s) <= Size
  <2>1. PICK c : Link(segs, c, highest) /\ Tile(segs, c, highest, Size)
    BY <1>1 DEF Chained
  <2>2. highest \in Nat /\ highest # 0 /\ 1..highest \subseteq 1..Total /\ Size \in Nat
    BY <1>1, Facts
  <2>3. QED BY <1>2, <1>3, <2>1, <2>2, SegmentsApart
<1>5. Tells(es, at, segs[s].next, blocks, deleted)
  BY <1>1, <1>3 DEF Now, Telling, AllTell
<1>6. Told(e, at + pre, Onward(es, k, segs[s].next), blocks, deleted)
  BY <1>2, <1>5 DEF Tells, TellsAt
<1>7. PICK d \in deleted : Still(d, e, at + pre, blocks)
  BY <1>1, <1>6 DEF Told
<1>8. pre \in Nat /\ e.len \in Nat /\ pre + e.len <= Lengths(es)
  <2> HIDE DEF es
  <2>1. QED BY <1>2, StartWithin
<1>9. at + pre \in Nat /\ (at + pre) + e.len <= DataStart + Len(blocks)
  <2> DEFINE l == Lengths(es)
             len == e.len
  <2>1. at + l <= DataStart + Len(blocks) /\ Len(blocks) \in Nat /\ DataStart \in Nat
    BY <1>1, <1>4, Facts DEF Ends, Size
  <2>2. at \in Nat /\ pre \in Nat /\ l \in Nat /\ len \in Nat /\ pre + len <= l
    BY <1>2, <1>8
  <2> HIDE DEF at, pre, l, len
  <2>3. at + pre \in Nat /\ (at + pre) + len <= DataStart + Len(blocks)
    BY <2>1, <2>2
  <2>4. QED BY <2>3 DEF len
<1> HIDE DEF es, e, pre, at
<1>10. IsPrefix(BlocksAt(at + pre, e.len), d[3]) \/ IsPrefix(d[3], BlocksAt(at + pre, e.len))
  BY <1>2, <1>7, <1>8, <1>9, StillPrefix
<1>11. d[1] = e.name /\ d[2] = at + pre
  BY <1>7 DEF Still
<1>12. StartOf(segs[s], k) = at + pre
  BY DEF StartOf, es, at, pre
<1>13. QED BY <1>7, <1>10, <1>11, <1>12 DEF es, e

LEMMA InitTells == Init => Now
<1>1. SUFFICES ASSUME Init PROVE Now
  OBVIOUS
<1>2. segs = Fresh(DataBlocks) /\ highest = 1 /\ DataBlocks \in Nat
  BY <1>1, LayoutAssumption DEF Init
<1>3. QED BY <1>2, InitVolumeTells DEF Now

(* As long as the parser reads the directory to its end, what is left of a  *)
(* deleted file is whole: an unused area that still has a file's name       *)
(* begins with the blocks the file had, at the block it had them, but for   *)
(* the end a fence cuts off, through reuse of the areas around it, splits,  *)
(* squeezes, growth and undelete (the comment of undeleteEntry).            *)
THEOREM VolumeDeletedWhileRead == Spec /\ []ReadsBack => []DeletedWhole
<1>1. Init => Chained /\ Now
  BY InitHolds, InitTells
<1>2. Chained /\ Now /\ ReadsBack /\ [Next]_vars => Chained' /\ Now'
  BY NextKeeps, NextTells DEF Kept
<1>3. Chained /\ Now => DeletedWhole
  BY TellingDeleted
<1>4. QED BY <1>1, <1>2, <1>3, PTL DEF Spec

(* And with a marker's room after every segment, always: no writer leaves a *)
(* dead file's name on blocks that are another's.                           *)
THEOREM VolumeDeletedWhole ==
  ASSUME NoRemainder
  PROVE  Spec => []DeletedWhole
<1>1. Spec => []ReadsBack
  BY VolumeReadsBack
<1>2. Spec /\ []ReadsBack => []DeletedWhole
  BY VolumeDeletedWhileRead
<1>3. QED BY <1>1, <1>2, PTL

=============================================================================
