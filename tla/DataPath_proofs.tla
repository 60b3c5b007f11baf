--------------------------- MODULE DataPath_proofs ---------------------------
(***************************************************************************)
(* Theorems about DataPath, for any layout of files and any sizes of       *)
(* chunks, messages, sums and error texts: what the byte offsets of the    *)
(* layout and the byte strings of the frames are, and from them that every *)
(* byte arrives where it belongs.                                          *)
(***************************************************************************)
EXTENDS DataPath, FiniteSetTheorems, SequenceTheorems, WellFoundedInduction, TLAPS
-----------------------------------------------------------------------------
(***************************************************************************)
(* The layout of the files: prefix sums, segments, spans (Layout).         *)
(***************************************************************************)
(* Induction over a set of naturals *)

(* Every nonempty set of naturals has a least member. *)
LEMMA Least ==
  ASSUME NEW T \in SUBSET Nat, T # {}
  PROVE  \E x \in T : \A y \in T : x <= y
<1> DEFINE R == OpToRel(<, Nat)
<1>1. IsWellFoundedOn(R, Nat)
  BY NatLessThanWellFounded
<1>2. \A x, y \in Nat : <<y, x>> \in R <=> y < x
  BY DEF OpToRel
<1> HIDE DEF R
<1>3. PICK x \in T : \A y \in T : ~ (<<y, x>> \in R)
  BY <1>1, WFMin
<1>4. ASSUME NEW y \in T PROVE x <= y
  <2>1. x \in Nat /\ y \in Nat /\ <<y, x>> \notin R
    BY <1>3
  <2>2. ~ (y < x)
    BY <1>2, <2>1
  <2> QED BY <2>1, <2>2
<1> QED BY <1>4

(* A set that holds a number whenever it holds all smaller ones. *)
LEMMA Induction ==
  ASSUME NEW T, NEW n \in Nat,
         \A m \in 0 .. n : (\A j \in 0 .. n : j < m => j \in T) => m \in T
  PROVE  \A m \in 0 .. n : m \in T
<1> SUFFICES ASSUME ~ \A m \in 0 .. n : m \in T PROVE FALSE
  OBVIOUS
<1> DEFINE N == {m \in 0 .. n : m \notin T}
<1>1. N \in SUBSET Nat /\ N # {}
  OBVIOUS
<1>2. PICK x \in N : \A y \in N : x <= y
  BY <1>1, Least
<1>3. \A j \in 0 .. n : j < x => j \in T
  BY <1>2
<1> QED BY <1>2, <1>3
-----------------------------------------------------------------------------
(* Layout *)

IsLayout(z) == z \in Seq(Nat) /\ z # <<>>

(* The recursion of starts has a solution. *)
StartsDef(z, s) == s = [k \in 1 .. Len(z) + 1 |-> IF k = 1 THEN 0 ELSE s[k - 1] + z[k - 1]]

LEMMA StartsExist ==
  ASSUME NEW z, IsLayout(z)
  PROVE  \E s : StartsDef(z, s)
<1> DEFINE n == Len(z)
           T == {m \in 0 .. n : \E s : s = [k \in 1 .. m + 1 |-> IF k = 1 THEN 0 ELSE s[k - 1] + z[k - 1]]}
<1>1. n \in Nat
  BY DEF IsLayout
<1> HIDE DEF n
<1>2. ASSUME NEW m \in 0 .. n, \A j \in 0 .. n : j < m => j \in T PROVE m \in T
  <2>1. CASE m = 0
    <3> DEFINE s == [k \in 1 .. m + 1 |-> 0]
    <3>1. s = [k \in 1 .. m + 1 |-> IF k = 1 THEN 0 ELSE s[k - 1] + z[k - 1]]
      BY <2>1
    <3> QED BY <3>1
  <2>2. CASE m # 0
    <3>1. m - 1 \in T
      <4>1. m - 1 \in 0 .. n /\ m - 1 < m
        BY <1>1, <2>2
      <4> HIDE DEF T
      <4> QED BY <1>2, <4>1
    <3>2. PICK s : s = [k \in 1 .. m |-> IF k = 1 THEN 0 ELSE s[k - 1] + z[k - 1]]
      BY <3>1
    <3> DEFINE t == [k \in 1 .. m + 1 |-> IF k = m + 1 THEN s[m] + z[m] ELSE s[k]]
    <3>3. t = [k \in 1 .. m + 1 |-> IF k = 1 THEN 0 ELSE t[k - 1] + z[k - 1]]
      <4>1. ASSUME NEW k \in 1 .. m + 1 PROVE t[k] = IF k = 1 THEN 0 ELSE t[k - 1] + z[k - 1]
        BY <1>1, <2>2, <3>2
      <4> QED BY <4>1
    <3> HIDE DEF t
    <3> QED BY <3>3
  <2> QED BY <2>1, <2>2
<1> HIDE DEF T
<1>3. n \in T
  BY <1>1, <1>2, Induction, SMTT(60)
<1> QED BY <1>3 DEF T, n, StartsDef

LEMMA StartsFacts ==
  ASSUME NEW z, IsLayout(z)
  PROVE  /\ Len(z) \in Nat \ {0} /\ DOMAIN z = 1 .. Len(z) /\ \A k \in 1 .. Len(z) : z[k] \in Nat
         /\ starts(z) \in [1 .. Len(z) + 1 -> Nat] /\ starts(z)[1] = 0
         /\ \A k \in 1 .. Len(z) : starts(z)[k + 1] = starts(z)[k] + z[k]
         /\ Size(z) = starts(z)[Len(z) + 1] /\ Size(z) \in Nat
<1>1. Len(z) \in Nat \ {0} /\ DOMAIN z = 1 .. Len(z) /\ \A k \in 1 .. Len(z) : z[k] \in Nat
  BY EmptySeq DEF IsLayout
<1> DEFINE s == starts(z)
           n == Len(z)
<1>2. StartsDef(z, s)
  <2>1. s = CHOOSE x : StartsDef(z, x)
    BY DEF starts, StartsDef
  <2> QED BY <2>1, StartsExist
<1>3. s = [k \in 1 .. n + 1 |-> IF k = 1 THEN 0 ELSE s[k - 1] + z[k - 1]]
  BY <1>2 DEF StartsDef
<1> HIDE DEF s, n
<1>n. n \in Nat \ {0} /\ \A k \in 1 .. n : z[k] \in Nat
  BY <1>1 DEF n
<1>4. s[1] = 0 /\ \A k \in 1 .. n : s[k + 1] = s[k] + z[k]
  <2>1. \A k \in 1 .. n + 1 : s[k] = IF k = 1 THEN 0 ELSE s[k - 1] + z[k - 1]
    BY <1>3
  <2>2. s[1] = 0
    BY <1>n, <2>1
  <2>3. ASSUME NEW k \in 1 .. n PROVE s[k + 1] = s[k] + z[k]
    <3>1. k + 1 \in 1 .. n + 1 /\ k + 1 # 1 /\ (k + 1) - 1 = k
      BY <1>n
    <3> QED BY <2>1, <3>1
  <2> QED BY <2>2, <2>3
<1> DEFINE T == {m \in 0 .. n : s[m + 1] \in Nat}
<1>5. ASSUME NEW m \in 0 .. n, \A j \in 0 .. n : j < m => j \in T PROVE m \in T
  <2>1. CASE m = 0
    BY <2>1, <1>4
  <2>2. CASE m # 0
    <3>1. m - 1 \in T /\ m \in 1 .. n
      BY <1>n, <1>5, <2>2
    <3>2. s[m] \in Nat /\ s[m + 1] = s[m] + z[m] /\ z[m] \in Nat
      BY <1>n, <1>4, <3>1
    <3> QED BY <3>2
  <2> QED BY <2>1, <2>2
<1> HIDE DEF T
<1>6. \A m \in 0 .. n : m \in T
  <2>1. n \in Nat
    BY <1>n
  <2> QED BY <2>1, <1>5, Induction
<1>7. \A k \in 1 .. n + 1 : s[k] \in Nat
  <2> SUFFICES ASSUME NEW k \in 1 .. n + 1 PROVE s[k] \in Nat
    OBVIOUS
  <2>1. k - 1 \in 0 .. n /\ (k - 1) + 1 = k
    BY <1>n
  <2> QED BY <1>6, <2>1 DEF T
<1>8. s \in [1 .. n + 1 -> Nat]
  BY <1>3, <1>7
<1>9. Size(z) = s[n + 1]
  BY DEF Size, s, n
<1>10. s[n + 1] \in Nat
  BY <1>7, <1>n
<1> QED BY <1>1, <1>4, <1>8, <1>9, <1>10 DEF s, n

LEMMA StartsAscend ==
  ASSUME NEW z, IsLayout(z), NEW j \in 1 .. Len(z) + 1, NEW k \in 1 .. Len(z) + 1, j <= k
  PROVE  starts(z)[j] <= starts(z)[k]
<1> DEFINE s == starts(z)
           n == Len(z)
           T == {m \in 0 .. n + 1 : j + m <= n + 1 => s[j] <= s[j + m]}
<1>1. n \in Nat /\ s \in [1 .. n + 1 -> Nat] /\ \A i \in 1 .. n : s[i + 1] = s[i] + z[i] /\ z[i] \in Nat
  BY StartsFacts
<1>0. j \in 1 .. n + 1 /\ k \in 1 .. n + 1
  OBVIOUS
<1> HIDE DEF s, n
<1>2. ASSUME NEW m \in 0 .. n + 1, \A i \in 0 .. n + 1 : i < m => i \in T PROVE m \in T
  <2>1. CASE m = 0
    BY <2>1, <1>0, <1>1
  <2>2. CASE m # 0 /\ j + m <= n + 1
    <3>1. m - 1 \in T
      <4>1. m - 1 \in 0 .. n + 1 /\ m - 1 < m
        BY <1>1, <2>2
      <4> HIDE DEF T
      <4> QED BY <1>2, <4>1
    <3>2. s[j] <= s[j + (m - 1)] /\ j + (m - 1) \in 1 .. n
      BY <1>0, <1>1, <2>2, <3>1
    <3>3. s[(j + (m - 1)) + 1] = s[j + (m - 1)] + z[j + (m - 1)] /\ (j + (m - 1)) + 1 = j + m
      BY <1>0, <1>1, <3>2
    <3>4. s[j] \in Nat /\ s[j + (m - 1)] \in Nat /\ z[j + (m - 1)] \in Nat
      BY <1>0, <1>1, <3>2
    <3> QED BY <3>2, <3>3, <3>4
  <2>3. CASE ~(j + m <= n + 1)
    BY <2>3
  <2> QED BY <2>1, <2>2, <2>3
<1> HIDE DEF T
<1>3. k - j \in T
  <2>1. n + 1 \in Nat /\ k - j \in 0 .. n + 1
    BY <1>0, <1>1
  <2> QED BY <2>1, <1>2, Induction
<1>4. j + (k - j) = k /\ k <= n + 1
  BY <1>0, <1>1
<1> QED BY <1>3, <1>4 DEF T, s, n

LEMMA FileAtFacts ==
  ASSUME NEW z, IsLayout(z), NEW off \in Nat, off < Size(z)
  PROVE  /\ fileAt(z, off) \in 1 .. Len(z)
         /\ starts(z)[fileAt(z, off)] <= off
         /\ off < starts(z)[fileAt(z, off)] + z[fileAt(z, off)]
<1> DEFINE s == starts(z)
           n == Len(z)
<1>1. /\ n \in Nat \ {0} /\ DOMAIN z = 1 .. n /\ s \in [1 .. n + 1 -> Nat] /\ s[1] = 0
      /\ \A k \in 1 .. n : s[k + 1] = s[k] + z[k]
      /\ off < s[n + 1]
  BY StartsFacts
<1>2. \A j, k \in 1 .. n + 1 : j <= k => s[j] <= s[k]
  BY StartsAscend
<1> DEFINE Is(k) == s[k] <= off /\ \A j \in DOMAIN z : j > k => s[j] > off
<1>3. fileAt(z, off) = CHOOSE k \in DOMAIN z : Is(k)
  BY DEF fileAt
<1> HIDE DEF s, n
<1>4. \E k \in DOMAIN z : Is(k)
  <2> DEFINE A == {k \in 1 .. n + 1 : s[k] > off}
  <2>1. A \in SUBSET Nat /\ n + 1 \in A
    BY <1>1
  <2>2. PICK m \in A : \A y \in A : m <= y
    BY <2>1, Least
  <2>3. m \in 1 .. n + 1 /\ s[m] > off /\ m # 1
    BY <1>1, <2>2
  <2>4. m - 1 \in DOMAIN z /\ m - 1 \notin A
    BY <1>1, <2>2, <2>3
  <2>5. s[m - 1] <= off
    BY <1>1, <2>4
  <2>6. ASSUME NEW j \in DOMAIN z, j > m - 1 PROVE s[j] > off
    <3>1. j \in 1 .. n + 1 /\ m <= j
      BY <1>1, <2>3, <2>6, SMTT(60)
    <3>2. s[m] <= s[j] /\ s[m] \in Nat /\ s[j] \in Nat
      BY <1>1, <1>2, <2>3, <3>1
    <3> QED BY <2>3, <3>2
  <2> QED BY <2>4, <2>5, <2>6
<1> DEFINE f == fileAt(z, off)
<1>5. f \in DOMAIN z /\ Is(f)
  <2> HIDE DEF Is
  <2> QED BY <1>3, <1>4
<1> HIDE DEF f
<1>6. off < s[f + 1]
  <2>1. CASE f = n
    BY <1>1, <2>1
  <2>2. CASE f # n
    <3>1. f + 1 \in DOMAIN z /\ f + 1 > f
      BY <1>1, <1>5, <2>2
    <3> QED BY <1>5, <3>1, <1>1
  <2> QED BY <2>1, <2>2
<1> QED BY <1>1, <1>5, <1>6 DEF f, s, n

(* Files do not overlap. *)
LEMMA OneFile ==
  ASSUME NEW z, IsLayout(z), NEW j \in 1 .. Len(z), NEW k \in 1 .. Len(z), NEW at \in Nat,
         starts(z)[j] <= at, at < starts(z)[j] + z[j],
         starts(z)[k] <= at, at < starts(z)[k] + z[k]
  PROVE  j = k
<1> DEFINE s == starts(z)
           n == Len(z)
<1>1. /\ n \in Nat \ {0} /\ s \in [1 .. n + 1 -> Nat] /\ \A i \in 1 .. n : s[i + 1] = s[i] + z[i]
  BY StartsFacts
<1>2. \A a, b \in 1 .. n + 1 : a <= b => s[a] <= s[b]
  BY StartsAscend
<1>0. j \in 1 .. n /\ k \in 1 .. n /\ s[j] <= at /\ at < s[j + 1] /\ s[k] <= at /\ at < s[k + 1]
  BY <1>1
<1> HIDE DEF s, n
<1>3. ASSUME NEW a \in 1 .. n, NEW b \in 1 .. n, a < b, s[b] <= at, at < s[a + 1] PROVE FALSE
  <2>1. a + 1 \in 1 .. n + 1 /\ b \in 1 .. n + 1 /\ a + 1 <= b
    BY <1>1, <1>3
  <2>2. s[a + 1] <= s[b] /\ s[a + 1] \in Nat /\ s[b] \in Nat
    BY <1>1, <1>2, <2>1
  <2> QED BY <1>3, <2>2
<1>4. ~(j < k) /\ ~(k < j)
  BY <1>0, <1>3
<1> QED BY <1>0, <1>1, <1>4

(* The first piece of what is left when m bytes of n are. *)
Left(z, off, n, m) == z[fileAt(z, off + n - m)] - ((off + n - m) - starts(z)[fileAt(z, off + n - m)])
First(z, off, n, m) ==
  [file |-> fileAt(z, off + n - m),
   inFile |-> (off + n - m) - starts(z)[fileAt(z, off + n - m)],
   at |-> (off + n - m) - off,
   n |-> IF m > Left(z, off, n, m) THEN Left(z, off, n, m) ELSE m]
Body(z, off, n, g, m) ==
  IF m = 0 \/ Left(z, off, n, m) <= 0 THEN <<>>
  ELSE <<First(z, off, n, m)>> \o g[m - First(z, off, n, m).n]

(* A piece of [off, off + n). *)
Piece(z, off, n) ==
  {p \in [file : 1 .. Len(z), inFile : Nat, at : Nat, n : Nat \ {0}] :
     /\ p.inFile + p.n <= z[p.file] /\ p.at + p.n <= n
     /\ starts(z)[p.file] + p.inFile = off + p.at}

LEMMA FirstFacts ==
  ASSUME NEW z, IsLayout(z), NEW off \in Nat, NEW n \in Nat, off + n <= Size(z), NEW m \in 1 .. n
  PROVE  /\ Left(z, off, n, m) \in Nat /\ Left(z, off, n, m) > 0
         /\ First(z, off, n, m) \in Piece(z, off, n)
         /\ First(z, off, n, m).at = n - m /\ First(z, off, n, m).n \in 1 .. m
<1> DEFINE at == off + n - m
           f == fileAt(z, at)
           s == starts(z)
<1>1. at \in Nat /\ at < Size(z)
  BY StartsFacts
<1>2. f \in 1 .. Len(z) /\ s[f] <= at /\ at < s[f] + z[f]
  BY <1>1, FileAtFacts
<1>3. s[f] \in Nat /\ z[f] \in Nat
  <2>1. s \in [1 .. Len(z) + 1 -> Nat] /\ Len(z) \in Nat /\ \A k \in 1 .. Len(z) : z[k] \in Nat
    BY StartsFacts
  <2>2. f \in 1 .. Len(z) + 1
    BY <1>2, <2>1
  <2> HIDE DEF f, s
  <2> QED BY <1>2, <2>1, <2>2
<1>4. Left(z, off, n, m) = z[f] - (at - s[f])
  BY DEF Left
<1>5. First(z, off, n, m) = [file |-> f, inFile |-> at - s[f], at |-> at - off,
                             n |-> IF m > Left(z, off, n, m) THEN Left(z, off, n, m) ELSE m]
  BY DEF First
<1>6. at = off + n - m
  OBVIOUS
<1> HIDE DEF at, f, s
<1> DEFINE p == First(z, off, n, m)
<1>7. Left(z, off, n, m) \in Nat /\ Left(z, off, n, m) > 0
  BY <1>1, <1>2, <1>3, <1>4
<1>8. /\ p.file = f /\ p.inFile = at - s[f] /\ p.at = n - m
      /\ p.n = IF m > Left(z, off, n, m) THEN Left(z, off, n, m) ELSE m
  BY <1>5, <1>6, <1>1
<1>9. p.n \in 1 .. m /\ p.n <= Left(z, off, n, m) /\ p.n \in Nat \ {0}
  BY <1>7, <1>8
<1>10. p.inFile \in Nat /\ p.at \in Nat /\ p.inFile + p.n <= z[f] /\ p.at + p.n <= n
  <2> HIDE DEF p
  <2>1. p.at \in Nat /\ p.at + p.n <= n
    BY <1>8, <1>9
  <2>2. p.inFile \in Nat
    BY <1>1, <1>2, <1>3, <1>8
  <2>3. p.inFile + p.n <= z[f]
    BY <1>1, <1>2, <1>3, <1>4, <1>8, <1>9, SMTT(60)
  <2> QED BY <2>1, <2>2, <2>3
<1>11. s[f] + p.inFile = off + p.at
  BY <1>1, <1>2, <1>3, <1>6, <1>8
<1>12. p \in [file : 1 .. Len(z), inFile : Nat, at : Nat, n : Nat \ {0}]
  <2>1. p = [file |-> p.file, inFile |-> p.inFile, at |-> p.at, n |-> p.n]
    BY <1>5
  <2> HIDE DEF p
  <2> QED BY <2>1, <1>2, <1>8, <1>9, <1>10
<1>13. p \in Piece(z, off, n)
  BY <1>8, <1>10, <1>11, <1>12 DEF Piece, s
<1> QED BY <1>7, <1>8, <1>9, <1>13

(* The recursion of segments has a solution. *)
LEMMA SegmentsExist ==
  ASSUME NEW z, IsLayout(z), NEW off \in Nat, NEW n \in Nat, off + n <= Size(z)
  PROVE  \E g : g = [m \in 0 .. n |-> Body(z, off, n, g, m)]
<1> DEFINE T == {m \in 0 .. n : \E g : g = [j \in 0 .. m |-> Body(z, off, n, g, j)]}
<1>2. ASSUME NEW m \in 0 .. n, \A j \in 0 .. n : j < m => j \in T PROVE m \in T
  <2>1. CASE m = 0
    <3> DEFINE g == [j \in 0 .. m |-> <<>>]
    <3>1. \A j \in 0 .. m : Body(z, off, n, g, j) = <<>>
      BY <2>1 DEF Body
    <3>2. g = [j \in 0 .. m |-> Body(z, off, n, g, j)]
      BY <3>1
    <3> HIDE DEF g
    <3> QED BY <3>2
  <2>2. CASE m # 0
    <3>1. m - 1 \in 0 .. n /\ m - 1 < m
      BY <2>2
    <3>2. m - 1 \in T
      <4> HIDE DEF T
      <4> QED BY <1>2, <3>1
    <3>3. PICK h : h = [j \in 0 .. m - 1 |-> Body(z, off, n, h, j)]
      BY <3>2
    <3> DEFINE g == [j \in 0 .. m |-> IF j = m THEN Body(z, off, n, h, m) ELSE h[j]]
    <3>4. ASSUME NEW j \in 0 .. m PROVE Body(z, off, n, g, j) = Body(z, off, n, h, j)
      <4>1. CASE j = 0
        BY <4>1 DEF Body
      <4>2. CASE j # 0
        <5>1. j \in 1 .. n
          BY <4>2
        <5>2. First(z, off, n, j).n \in 1 .. j
          BY <5>1, FirstFacts
        <5>3. j - First(z, off, n, j).n \in 0 .. m /\ j - First(z, off, n, j).n # m
          BY <5>1, <5>2
        <5>4. g[j - First(z, off, n, j).n] = h[j - First(z, off, n, j).n]
          BY <5>3
        <5> HIDE DEF g
        <5> QED BY <5>4 DEF Body
      <4> QED BY <4>1, <4>2
    <3>5. ASSUME NEW j \in 0 .. m PROVE g[j] = Body(z, off, n, g, j)
      <4>1. CASE j = m
        BY <3>4, <4>1
      <4>2. CASE j # m
        <5>1. j \in 0 .. m - 1 /\ g[j] = h[j]
          BY <4>2
        <5>2. h[j] = Body(z, off, n, h, j)
          BY <3>3, <5>1
        <5> QED BY <3>4, <5>1, <5>2
      <4> QED BY <4>1, <4>2
    <3>6. g = [j \in 0 .. m |-> g[j]]
      OBVIOUS
    <3> HIDE DEF g
    <3>7. g = [j \in 0 .. m |-> Body(z, off, n, g, j)]
      BY <3>5, <3>6
    <3> QED BY <3>7
  <2> QED BY <2>1, <2>2
<1> HIDE DEF T
<1>3. n \in T
  BY <1>2, Induction
<1> QED BY <1>3 DEF T

(* Position k of [off, off + n), counted from 1, is in piece p. *)
In(p, k) == p.at < k /\ k <= p.at + p.n

(* The pieces of a range are places in files, at their offsets in all of   *)
(* them, and make up the range.                                            *)
LEMMA SegmentsFacts ==
  ASSUME NEW z, IsLayout(z), NEW off \in Nat, NEW n \in Nat \ {0}, off + n <= Size(z)
  PROVE  /\ segments(z, off, n) \in Seq(Piece(z, off, n)) /\ segments(z, off, n) # <<>>
         /\ Last(segments(z, off, n)).at + Last(segments(z, off, n)).n = n
         /\ \A k \in 1 .. n : \E p \in Range(segments(z, off, n)) : In(p, k)
<1> DEFINE P == Piece(z, off, n)
           g == CHOOSE g : g = [m \in 0 .. n |-> Body(z, off, n, g, m)]
           IsIn(ps, k) == \E a \in DOMAIN ps : In(ps[a], k)
           Good(m, ps) == /\ ps \in Seq(P)
                          /\ m > 0 => ps # <<>> /\ ps[Len(ps)].at + ps[Len(ps)].n = n
                          /\ \A k \in n - m + 1 .. n : IsIn(ps, k)
           T == {m \in 0 .. n : Good(m, g[m])}
<1>1. segments(z, off, n) = g[n]
  BY ZenonT(60) DEF segments, Body, First, Left
<1>2. g = [m \in 0 .. n |-> Body(z, off, n, g, m)]
  BY SegmentsExist, ZenonT(60)
<1> HIDE DEF g
<1>3. ASSUME NEW m \in 0 .. n, \A j \in 0 .. n : j < m => j \in T PROVE m \in T
  <2>1. CASE m = 0
    <3>1. g[m] = <<>>
      BY <1>2, <2>1 DEF Body
    <3>2. \A k \in n - m + 1 .. n : FALSE
      BY <2>1
    <3>3. <<>> \in Seq(P) /\ ~(m > 0)
      BY <2>1
    <3>4. Good(m, g[m])
      <4> HIDE DEF P, IsIn
      <4> QED BY <3>1, <3>2, <3>3
    <3> HIDE DEF Good
    <3> QED BY <3>4
  <2>2. CASE m # 0
    <3> DEFINE p == First(z, off, n, m)
               ps == g[m - p.n]
    <3>1. Left(z, off, n, m) \in Nat /\ Left(z, off, n, m) > 0 /\ p \in P /\ p.at = n - m /\ p.n \in 1 .. m
      BY <2>2, FirstFacts
    <3>2. g[m] = <<p>> \o ps
      <4>1. g[m] = Body(z, off, n, g, m)
        BY <1>2
      <4>2. ~(m = 0 \/ Left(z, off, n, m) <= 0)
        BY <2>2, <3>1
      <4> QED BY <4>1, <4>2 DEF Body
    <3> HIDE DEF p
    <3>3. Good(m - p.n, ps)
      <4>1. m - p.n \in 0 .. n /\ m - p.n < m
        BY <3>1
      <4>2. m - p.n \in T
        <5> HIDE DEF T
        <5> QED BY <1>3, <4>1
      <4> QED BY <4>2
    <3> HIDE DEF P
    <3>4. ps \in Seq(P) /\ Len(ps) \in Nat
      BY <3>3
    <3>0. m - p.n = 0 => ps = <<>>
      <4>1. 0 \in 0 .. n
        OBVIOUS
      <4>2. g[0] = Body(z, off, n, g, 0)
        BY <1>2, <4>1
      <4> QED BY <4>2 DEF Body
    <3> HIDE DEF ps
    <3>5. /\ g[m] \in Seq(P) /\ Len(g[m]) = Len(ps) + 1 /\ g[m][1] = p
          /\ \A a \in 1 .. Len(ps) : g[m][a + 1] = ps[a]
      <4>1. <<p>> \in Seq(P) /\ Len(<<p>>) = 1 /\ <<p>>[1] = p
        BY <3>1
      <4> QED BY <3>2, <3>4, <4>1, ConcatProperties
    <3>6. g[m] # <<>> /\ g[m][Len(g[m])].at + g[m][Len(g[m])].n = n
      <4>1. CASE m - p.n = 0
        <5>1. p.at + p.n = n
          BY <3>1, <4>1
        <5>2. Len(ps) = 0
          BY <3>0, <4>1
        <5> QED BY <3>5, <5>1, <5>2
      <4>2. CASE m - p.n # 0
        <5>1. ps # <<>> /\ ps[Len(ps)].at + ps[Len(ps)].n = n
          BY <3>1, <3>3, <4>2
        <5>2. Len(ps) \in 1 .. Len(ps)
          BY <3>4, <5>1, EmptySeq
        <5> QED BY <3>5, <5>1, <5>2
      <4> QED BY <4>1, <4>2
    <3>7. ASSUME NEW k \in n - m + 1 .. n PROVE IsIn(g[m], k)
      <4>d. DOMAIN g[m] = 1 .. Len(ps) + 1 /\ DOMAIN ps = 1 .. Len(ps)
        BY <3>4, <3>5, LenProperties
      <4>1. CASE k <= p.at + p.n
        <5>1. In(g[m][1], k)
          BY <3>1, <3>5, <4>1 DEF In
        <5> QED BY <5>1, <4>d, <3>4
      <4>2. CASE ~(k <= p.at + p.n)
        <5>1. k \in n - (m - p.n) + 1 .. n
          BY <3>1, <4>2
        <5>2. PICK a \in DOMAIN ps : In(ps[a], k)
          BY <3>3, <5>1
        <5>3. a + 1 \in DOMAIN g[m] /\ g[m][a + 1] = ps[a]
          BY <3>4, <3>5, <4>d
        <5> QED BY <5>2, <5>3
      <4> QED BY <4>1, <4>2
    <3> QED BY <3>5, <3>6, <3>7 DEF P
  <2> QED BY <2>1, <2>2
<1> HIDE DEF T
<1>4. n \in T
  <2>1. n \in Nat /\ n \in 0 .. n
    OBVIOUS
  <2>2. \A m \in 0 .. n : m \in T
    BY <1>3, <2>1, Induction, Zenon
  <2> QED BY <2>1, <2>2
<1>5. Good(n, g[n])
  BY <1>4 DEF T
<1>6. \A k \in 1 .. n : IsIn(g[n], k)
  <2>1. n - n + 1 = 1
    OBVIOUS
  <2> QED BY <1>5, <2>1
<1>7. \A k \in 1 .. n : \E p \in Range(g[n]) : In(p, k)
  BY <1>6 DEF Range
<1> QED BY <1>1, <1>5, <1>7 DEF Last
-----------------------------------------------------------------------------
(***************************************************************************)
(* Frames as bytes and back (Wire).                                        *)
(***************************************************************************)
(* Numbers in bytes *)

LEMMA Powers == /\ 256 ^ (1 - 1) = 1 /\ 256 ^ (2 - 1) = 256 /\ 256 ^ (3 - 1) = 256 * 256
                /\ 256 ^ (4 - 1) = 256 * (256 * 256)
BY SMT

LEMMA Byte == \A v \in Nat : v = (v % 256) + 256 * (v \div 256) /\ v \div 256 \in Nat /\ v % 256 \in Nat
BY SMT

LEMMA PutFacts ==
  ASSUME NEW v \in Nat, NEW w \in 1 .. 4
  PROVE  /\ Put(v, w) \in Seq(Nat) /\ Len(Put(v, w)) = w /\ DOMAIN Put(v, w) = 1 .. w
         /\ \A k \in 1 .. w : Put(v, w)[k] = (v \div 256 ^ (k - 1)) % 256
<1> SUFFICES ASSUME NEW k \in 1 .. w PROVE (v \div 256 ^ (k - 1)) % 256 \in Nat
  BY DEF Put
<1>1. k = 1 \/ k = 2 \/ k = 3 \/ k = 4
  OBVIOUS
<1>2. 256 ^ (k - 1) \in Nat \ {0}
  <2>1. CASE k = 1
    BY <2>1, Powers, SMT
  <2>2. CASE k = 2
    BY <2>2, Powers, SMT
  <2>3. CASE k = 3
    BY <2>3, Powers, SMT
  <2>4. CASE k = 4
    BY <2>4, Powers, SMT
  <2> QED BY <1>1, <2>1, <2>2, <2>3, <2>4
<1>3. v \div 256 ^ (k - 1) \in Nat
  BY <1>2, SMT
<1> QED BY <1>3, Byte

(* Four bytes. *)
LEMMA Uint4 ==
  ASSUME NEW b, Len(b) = 4, \A k \in 1 .. 4 : b[k] \in Nat
  PROVE  Uint(b) = b[1] + b[2] * 256 + b[3] * (256 * 256) + b[4] * (256 * (256 * 256))
<1> DEFINE Def(s) == [k \in 0 .. Len(b) |-> IF k = 0 THEN 0 ELSE s[k - 1] + b[k] * 256 ^ (k - 1)]
           x1 == b[1]
           x2 == x1 + b[2] * 256
           x3 == x2 + b[3] * (256 * 256)
           x4 == x3 + b[4] * (256 * (256 * 256))
           g == [k \in 0 .. Len(b) |-> IF k = 0 THEN 0 ELSE IF k = 1 THEN x1 ELSE IF k = 2 THEN x2
                                       ELSE IF k = 3 THEN x3 ELSE x4]
<1>1. g = Def(g)
  BY Powers, SMT
<1>2. Uint(b) = (CHOOSE s : s = Def(s))[Len(b)]
  BY DEF Uint
<1> DEFINE s == CHOOSE s : s = Def(s)
<1>3. s = Def(s)
  <2> HIDE DEF g, Def
  <2> QED BY <1>1, Zenon
<1>4. s[0] = 0 /\ s[1] = x1 /\ s[2] = x2 /\ s[3] = x3 /\ s[4] = x4
  <2> HIDE DEF s
  <2> QED BY <1>3, Powers, SMT
<1> QED BY <1>2, <1>4, SMT

LEMMA Uint2 ==
  ASSUME NEW b, Len(b) = 2, \A k \in 1 .. 2 : b[k] \in Nat
  PROVE  Uint(b) = b[1] + b[2] * 256
<1> DEFINE Def(s) == [k \in 0 .. Len(b) |-> IF k = 0 THEN 0 ELSE s[k - 1] + b[k] * 256 ^ (k - 1)]
           x1 == b[1]
           x2 == x1 + b[2] * 256
           g == [k \in 0 .. Len(b) |-> IF k = 0 THEN 0 ELSE IF k = 1 THEN x1 ELSE x2]
<1>1. g = Def(g)
  BY Powers, SMT
<1>2. Uint(b) = (CHOOSE s : s = Def(s))[Len(b)]
  BY DEF Uint
<1> DEFINE s == CHOOSE s : s = Def(s)
<1>3. s = Def(s)
  <2> HIDE DEF g, Def
  <2> QED BY <1>1, Zenon
<1>4. s[0] = 0 /\ s[1] = x1 /\ s[2] = x2
  <2> HIDE DEF s
  <2> QED BY <1>3, Powers, SMT
<1> QED BY <1>2, <1>4, SMT

LEMMA Div2 == \A v \in Nat : v \div (256 * 256) = (v \div 256) \div 256
BY SMT
LEMMA Div3 == \A v \in Nat : v \div (256 * (256 * 256)) = (v \div (256 * 256)) \div 256
BY SMT
LEMMA DivTop == \A v \in 0 .. 2 ^ 30 : v \div (256 * (256 * 256)) < 256
BY SMT
LEMMA ModSmall == \A v \in Nat : v < 256 => v % 256 = v
BY SMT

(* What Put writes, Uint reads. *)
LEMMA FourBytes ==
  ASSUME NEW v \in 0 .. 2 ^ 30, NEW b, Len(b) = 4, \A k \in 1 .. 4 : b[k] = Put(v, 4)[k]
  PROVE  Uint(b) = v
<1>0. v \in Nat
  BY SMT
<1> DEFINE c == v \div 256
           d == v \div (256 * 256)
           e == v \div (256 * (256 * 256))
<1>1. v = (v % 256) + 256 * c /\ c \in Nat
  BY <1>0, Byte, SMT
<1>2. c = (c % 256) + 256 * d /\ d \in Nat
  BY <1>0, <1>1, Div2, Byte, SMT
<1>3. d = (d % 256) + 256 * e /\ e \in Nat
  BY <1>0, <1>2, Div3, Byte, SMT
<1>4. e % 256 = e
  <2>1. e < 256
    BY DivTop
  <2> QED BY <1>3, <2>1, ModSmall
<1>5. v % 256 \in Nat /\ c % 256 \in Nat /\ d % 256 \in Nat
  BY <1>0, <1>1, <1>2, <1>3, Byte
<1>6. b[1] = v % 256 /\ b[2] = c % 256 /\ b[3] = d % 256 /\ b[4] = e % 256
  <2>1. /\ b[1] = (v \div 256 ^ (1 - 1)) % 256 /\ b[2] = (v \div 256 ^ (2 - 1)) % 256
        /\ b[3] = (v \div 256 ^ (3 - 1)) % 256 /\ b[4] = (v \div 256 ^ (4 - 1)) % 256
    BY SMT DEF Put
  <2>2. v \div 1 = v
    BY <1>0, SMT
  <2> QED BY <2>1, <2>2, Powers, SMT
<1> HIDE DEF c, d, e
<1>7. Uint(b) = b[1] + b[2] * 256 + b[3] * (256 * 256) + b[4] * (256 * (256 * 256))
  <2>1. \A k \in 1 .. 4 : b[k] \in Nat
    <3>1. b[1] \in Nat /\ b[2] \in Nat /\ b[3] \in Nat /\ b[4] \in Nat
      BY <1>3, <1>4, <1>5, <1>6, SMT
    <3>2. \A k \in 1 .. 4 : k = 1 \/ k = 2 \/ k = 3 \/ k = 4
      OBVIOUS
    <3> QED BY <3>1, <3>2, Zenon
  <2> QED BY <2>1, Uint4
<1>8. (v % 256) + (c % 256) * 256 + (d % 256) * (256 * 256) + e * (256 * (256 * 256)) = v
  BY <1>0, <1>1, <1>2, <1>3, <1>5, SMT
<1> QED BY <1>4, <1>6, <1>7, <1>8, SMT

LEMMA TwoBytes ==
  ASSUME NEW v \in 0 .. 2 ^ 16 - 1, NEW b, Len(b) = 2, \A k \in 1 .. 2 : b[k] = Put(v, 2)[k]
  PROVE  Uint(b) = v
<1>0. v \in Nat /\ v \div 256 < 256
  BY SMT
<1> DEFINE c == v \div 256
<1>1. v = (v % 256) + 256 * c /\ c \in Nat /\ v % 256 \in Nat
  BY <1>0, Byte, SMT
<1>4. c % 256 = c
  BY <1>0, <1>1, ModSmall
<1>6. b[1] = v % 256 /\ b[2] = c % 256
  <2>1. b[1] = (v \div 256 ^ (1 - 1)) % 256 /\ b[2] = (v \div 256 ^ (2 - 1)) % 256
    BY SMT DEF Put
  <2>2. v \div 1 = v
    BY <1>0, SMT
  <2> QED BY <2>1, <2>2, Powers, SMT
<1> HIDE DEF c
<1>7. Uint(b) = b[1] + b[2] * 256
  <2>1. \A k \in 1 .. 2 : b[k] \in Nat
    BY <1>1, <1>4, <1>6, SMT
  <2> QED BY <2>1, Uint2
<1> QED BY <1>1, <1>4, <1>6, <1>7, SMT

(* A number behind the first "from" bytes of a buffer. *)
LEMMA NumberAt ==
  ASSUME NEW b \in Seq(Nat), NEW from \in Nat, NEW v \in 0 .. 2 ^ 30, from + 4 <= Len(b),
         \A k \in 1 .. 4 : b[from + k] = Put(v, 4)[k]
  PROVE  At(b, from, 4) = v
<1> DEFINE s == SubSeq(b, from + 1, from + 4)
<1>1. Len(s) = 4 /\ \A k \in 1 .. 4 : s[k] = b[from + k]
  BY SubSeqProperties
<1> HIDE DEF s
<1>2. \A k \in 1 .. 4 : s[k] = Put(v, 4)[k]
  BY <1>1
<1>3. Uint(s) = v
  BY <1>1, <1>2, FourBytes
<1> QED BY <1>3 DEF At, s

LEMMA ShortAt ==
  ASSUME NEW b \in Seq(Nat), NEW from \in Nat, NEW v \in 0 .. 2 ^ 16 - 1, from + 2 <= Len(b),
         \A k \in 1 .. 2 : b[from + k] = Put(v, 2)[k]
  PROVE  At(b, from, 2) = v
<1> DEFINE s == SubSeq(b, from + 1, from + 2)
<1>1. Len(s) = 2 /\ \A k \in 1 .. 2 : s[k] = b[from + k]
  BY SubSeqProperties
<1> HIDE DEF s
<1>2. \A k \in 1 .. 2 : s[k] = Put(v, 2)[k]
  BY <1>1
<1>3. Uint(s) = v
  BY <1>1, <1>2, TwoBytes
<1> QED BY <1>3 DEF At, s
-----------------------------------------------------------------------------
(* Frames *)

LEMMA Cat ==
  ASSUME NEW s \in Seq(Nat), NEW t \in Seq(Nat)
  PROVE  /\ s \o t \in Seq(Nat) /\ Len(s) \in Nat /\ Len(t) \in Nat /\ Len(s \o t) = Len(s) + Len(t)
         /\ \A k \in 1 .. Len(s) : (s \o t)[k] = s[k]
         /\ \A k \in 1 .. Len(t) : (s \o t)[Len(s) + k] = t[k]
<1>1. Len(s) \in Nat /\ Len(t) \in Nat
  OBVIOUS
<1>2. /\ s \o t \in Seq(Nat) /\ Len(s \o t) = Len(s) + Len(t)
      /\ \A k \in 1 .. Len(s) + Len(t) : (s \o t)[k] = IF k <= Len(s) THEN s[k] ELSE t[k - Len(s)]
  BY ConcatProperties
<1>3. ASSUME NEW k \in 1 .. Len(t) PROVE (s \o t)[Len(s) + k] = t[k]
  <2>1. Len(s) + k \in 1 .. Len(s) + Len(t) /\ ~(Len(s) + k <= Len(s)) /\ (Len(s) + k) - Len(s) = k
    BY <1>1
  <2> QED BY <1>2, <2>1
<1> QED BY <1>1, <1>2, <1>3

LEMMA OneByte == \A t \in Nat : <<t>> \in Seq(Nat) /\ Len(<<t>>) = 1 /\ <<t>>[1] = t
OBVIOUS

(* The frames that a host sends: DATA and Other. *)
DataFrame(i, o, p) == [Frame(TData) EXCEPT !.index = i, !.offset = o, !.payload = p]
IsData(f) ==
  \E i, o \in 0 .. 2 ^ 30 : \E p \in Seq(Nat) : Len(p) <= ChunkSize /\ f = DataFrame(i, o, p)
Sendable(f) == IsData(f) \/ f \in Other

(* A sequence of bytes starts as e does, as far as both go. *)
Agree(b, e) == \A k \in 1 .. Len(e) : k <= Len(b) => b[k] = e[k]

(* What Read makes of a buffer that starts like the encoding e of f. *)
ReadAs(b, e, f) ==
  IF Len(b) < Len(e) THEN Failed("eof")
  ELSE [err |-> "none", frame |-> Sent(f), rest |-> SubSeq(b, Len(e) + 1, Len(b))]

(* Three numbers between a type and a payload. *)
Laid(d, a, x, y, z, p) ==
  /\ d \in Seq(Nat) /\ Len(p) \in Nat /\ Len(d) = 13 + Len(p) /\ d[1] = a[1]
  /\ \A k \in 1 .. 4 : d[1 + k] = x[k] /\ d[5 + k] = y[k] /\ d[9 + k] = z[k]
  /\ \A k \in 1 .. Len(p) : d[13 + k] = p[k]

LEMMA CatData ==
  ASSUME NEW a \in Seq(Nat), NEW x \in Seq(Nat), NEW y \in Seq(Nat), NEW z \in Seq(Nat), NEW p \in Seq(Nat),
         Len(a) = 1, Len(x) = 4, Len(y) = 4, Len(z) = 4
  PROVE  Laid(a \o (((x \o y) \o z) \o p), a, x, y, z, p)
<1> DEFINE xy == x \o y
<1>1. /\ xy \in Seq(Nat) /\ Len(xy) = Len(x) + Len(y) /\ \A k \in 1 .. Len(x) : xy[k] = x[k]
      /\ \A k \in 1 .. Len(y) : xy[Len(x) + k] = y[k]
  BY Cat, Zenon
<1> HIDE DEF xy
<1> DEFINE xyz == xy \o z
<1>2. /\ xyz \in Seq(Nat) /\ Len(xyz) = Len(xy) + Len(z) /\ \A k \in 1 .. Len(xy) : xyz[k] = xy[k]
      /\ \A k \in 1 .. Len(z) : xyz[Len(xy) + k] = z[k]
  BY <1>1, Cat, ZenonT(60)
<1> HIDE DEF xyz
<1> DEFINE w == xyz \o p
<1>3. /\ w \in Seq(Nat) /\ Len(p) \in Nat /\ Len(w) = Len(xyz) + Len(p) /\ \A k \in 1 .. Len(xyz) : w[k] = xyz[k]
      /\ \A k \in 1 .. Len(p) : w[Len(xyz) + k] = p[k]
  BY <1>2, Cat, ZenonT(60)
<1> HIDE DEF w
<1> DEFINE e == a \o w
<1>4. /\ e \in Seq(Nat) /\ Len(e) = Len(a) + Len(w) /\ \A k \in 1 .. Len(a) : e[k] = a[k]
      /\ \A k \in 1 .. Len(w) : e[Len(a) + k] = w[k]
  BY <1>3, Cat, ZenonT(60)
<1> HIDE DEF e
<1>5. Len(xy) = 8 /\ Len(xyz) = 12 /\ Len(w) = 12 + Len(p) /\ Len(e) = 13 + Len(p)
  BY <1>1, <1>2, <1>3, <1>4
<1>6. e[1] = a[1]
  BY <1>4
<1>7. ASSUME NEW k \in 1 .. 4 PROVE e[1 + k] = x[k] /\ e[5 + k] = y[k] /\ e[9 + k] = z[k]
  <2>1. /\ k \in 1 .. 12 + Len(p) /\ 4 + k \in 1 .. 12 + Len(p) /\ 8 + k \in 1 .. 12 + Len(p)
        /\ k \in 1 .. 12 /\ 4 + k \in 1 .. 12 /\ 8 + k \in 1 .. 12 /\ k \in 1 .. 8 /\ 4 + k \in 1 .. 8
        /\ 1 + (4 + k) = 5 + k /\ 1 + (8 + k) = 9 + k
    BY <1>3
  <2>2. e[1 + k] = w[k] /\ e[1 + (4 + k)] = w[4 + k] /\ e[1 + (8 + k)] = w[8 + k]
    BY <1>4, <1>5, <2>1
  <2>3. w[k] = xyz[k] /\ w[4 + k] = xyz[4 + k] /\ w[8 + k] = xyz[8 + k]
    BY <1>3, <1>5, <2>1
  <2>4. xyz[k] = xy[k] /\ xyz[4 + k] = xy[4 + k] /\ xyz[8 + k] = z[k]
    BY <1>2, <1>5, <2>1
  <2>5. xy[k] = x[k] /\ xy[4 + k] = y[k]
    BY <1>1
  <2> QED BY <2>1, <2>2, <2>3, <2>4, <2>5
<1>8. ASSUME NEW k \in 1 .. Len(p) PROVE e[13 + k] = p[k]
  <2>1. 12 + k \in 1 .. 12 + Len(p) /\ 1 + (12 + k) = 13 + k
    BY <1>3
  <2>2. e[1 + (12 + k)] = w[12 + k]
    BY <1>4, <1>5, <2>1
  <2>3. w[12 + k] = p[k]
    BY <1>3, <1>5
  <2> QED BY <2>1, <2>2, <2>3
<1>9. Laid(e, a, x, y, z, p)
  BY <1>3, <1>4, <1>5, <1>6, <1>7, <1>8, Zenon DEF Laid
<1> QED BY <1>9 DEF e, w, xyz, xy

LEMMA FourOf == \A v \in Nat : Put(v, 4) \in Seq(Nat) /\ Len(Put(v, 4)) = 4
<1>1. 4 \in 1 .. 4
  OBVIOUS
<1> QED BY <1>1, PutFacts

Fields == {"type", "first", "count", "index", "offset", "payload", "code"}
IsFrame(d) == d = [x \in Fields |-> d[x]]

LEMMA FramesEqual ==
  ASSUME NEW d, NEW r, IsFrame(d), IsFrame(r), d.type = r.type, d.first = r.first, d.count = r.count,
         d.index = r.index, d.offset = r.offset, d.payload = r.payload, d.code = r.code
  PROVE  d = r
<1>1. \A x \in Fields : d[x] = r[x]
  BY DEF Fields
<1> QED BY <1>1 DEF IsFrame

LEMMA DataRecord ==
  ASSUME NEW i, NEW o, NEW p
  PROVE  /\ IsFrame(DataFrame(i, o, p))
         /\ DataFrame(i, o, p) = [type |-> 17, first |-> 0, count |-> 0, index |-> i, offset |-> o,
                                  payload |-> p, code |-> 0]
<1> DEFINE d == DataFrame(i, o, p)
           r == [type |-> 17, first |-> 0, count |-> 0, index |-> i, offset |-> o, payload |-> p, code |-> 0]
<1>1. IsFrame(d) /\ IsFrame(r)
  BY DEF DataFrame, Frame, IsFrame, Fields
<1>2. /\ d.type = 17 /\ d.first = 0 /\ d.count = 0 /\ d.index = i /\ d.offset = o /\ d.payload = p
      /\ d.code = 0
  BY DEF DataFrame, Frame, TData
<1>3. /\ r.type = 17 /\ r.first = 0 /\ r.count = 0 /\ r.index = i /\ r.offset = o /\ r.payload = p
      /\ r.code = 0
  OBVIOUS
<1> HIDE DEF d, r
<1>4. d = r
  BY <1>1, <1>2, <1>3, FramesEqual
<1> QED BY <1>1, <1>4 DEF d, r

LEMMA DataBytes ==
  ASSUME NEW i \in Nat, NEW o \in Nat, NEW p \in Seq(Nat)
  PROVE  LET e == Encode(DataFrame(i, o, p))
         IN /\ e \in Seq(Nat) /\ Len(p) \in Nat /\ Len(e) = 13 + Len(p) /\ e[1] = 17
            /\ \A k \in 1 .. 4 : /\ e[1 + k] = Put(i, 4)[k] /\ e[5 + k] = Put(o, 4)[k]
                                 /\ e[9 + k] = Put(Len(p), 4)[k]
            /\ \A k \in 1 .. Len(p) : e[13 + k] = p[k]
<1> DEFINE f == DataFrame(i, o, p)
           a == <<17>>
           x == Put(i, 4)
           y == Put(o, 4)
           z == Put(Len(p), 4)
<1>1. Encode(f) = a \o (((x \o y) \o z) \o p)
  <2>1. f.type = 17 /\ f.index = i /\ f.offset = o /\ f.payload = p
    BY DEF DataFrame, Frame, TData
  <2> HIDE DEF f
  <2> QED BY <2>1 DEF Encode, TAuth, TDone, TManifestAck, Ranges, TReq, THashReq, TCancel, TData, THash, TError
<1>2. /\ x \in Seq(Nat) /\ Len(x) = 4 /\ y \in Seq(Nat) /\ Len(y) = 4 /\ z \in Seq(Nat) /\ Len(z) = 4
  <2>1. Len(p) \in Nat
    OBVIOUS
  <2> QED BY <2>1, FourOf, Zenon
<1>3. a \in Seq(Nat) /\ Len(a) = 1 /\ a[1] = 17
  BY OneByte
<1> HIDE DEF a, x, y, z, f
<1> DEFINE e == a \o (((x \o y) \o z) \o p)
<1>4. Laid(e, a, x, y, z, p)
  BY <1>2, <1>3, CatData, Zenon
<1>5. Encode(f) = e
  BY <1>1
<1> HIDE DEF e
<1> QED BY <1>3, <1>4, <1>5, Zenon DEF x, y, z, f, Laid

(* What is behind h bytes. *)
LEMMA PayloadOf ==
  ASSUME NEW b \in Seq(Nat), NEW h \in Nat, NEW p \in Seq(Nat), h + Len(p) <= Len(b),
         \A k \in 1 .. Len(p) : b[h + k] = p[k]
  PROVE  SubSeq(b, h + 1, h + Len(p)) = p
<1> DEFINE s == SubSeq(b, h + 1, h + Len(p))
           n == Len(p)
<1>0. n \in Nat /\ Len(b) \in Nat
  OBVIOUS
<1>1. h + 1 .. h + n \subseteq 1 .. Len(b)
  BY <1>0
<1>2. /\ s \in Seq(Nat) /\ Len(s) = IF h + 1 <= h + n THEN h + n - (h + 1) + 1 ELSE 0
      /\ \A k \in 1 .. h + n - (h + 1) + 1 : s[k] = b[h + 1 + k - 1]
  <2>1. \A k \in h + 1 .. h + n : b[k] \in Nat
    BY <1>1, ElementOfSeq
  <2>2. h + 1 \in Int /\ h + n \in Int
    BY <1>0
  <2> QED BY <2>1, <2>2, SubSeqProperties
<1> HIDE DEF s
<1>3. Len(s) = n
  BY <1>0, <1>2
<1>4. ASSUME NEW k \in 1 .. n PROVE s[k] = p[k]
  <2>1. k \in 1 .. h + n - (h + 1) + 1 /\ h + 1 + k - 1 = h + k
    BY <1>0
  <2> QED BY <1>2, <2>1
<1> HIDE DEF n
<1>5. Len(p) = n
  BY DEF n
<1>6. s = p
  BY <1>2, <1>3, <1>4, <1>5, SeqEqual
<1> QED BY <1>6 DEF s

(* How Read delimits a frame of h + n bytes. *)
LEMMA ReadSome ==
  ASSUME NEW b \in Seq(Nat), b # <<>>, NEW h \in Nat, NEW n \in Nat, NEW e, NEW f, Len(e) = h + n,
         b[1] \in Types, header(b[1]) = h,
         h <= Len(b) => length(b) = n /\ ~TooLong(b),
         h + n <= Len(b) => Parsed(b) = Sent(f)
  PROVE  Read(b) = ReadAs(b, e, f)
<1>0. Len(b) \in Nat
  OBVIOUS
<1>1. CASE Len(b) < h
  <2>1. Read(b) = Failed("eof")
    BY <1>1 DEF Read
  <2> QED BY <1>0, <1>1, <2>1 DEF ReadAs
<1>2. CASE h <= Len(b) /\ Len(b) < h + n
  <2>1. Read(b) = Failed("eof")
    BY <1>0, <1>2 DEF Read
  <2> QED BY <1>0, <1>2, <2>1 DEF ReadAs
<1>3. CASE h + n <= Len(b)
  <2>1. length(b) = n /\ ~TooLong(b) /\ ~(Len(b) < h) /\ ~(Len(b) < h + n)
    BY <1>0, <1>3
  <2>2. Read(b) = [err |-> "none", frame |-> Parsed(b), rest |-> SubSeq(b, h + n + 1, Len(b))]
    BY <2>1 DEF Read
  <2> QED BY <1>3, <2>1, <2>2 DEF ReadAs
<1> QED BY <1>0, <1>1, <1>2, <1>3

(* DATA is read as it was written, whatever follows it, or fails if it is  *)
(* cut off.                                                                *)
LEMMA ReadData ==
  ASSUME NEW i \in 0 .. 2 ^ 30, NEW o \in 0 .. 2 ^ 30, NEW p \in Seq(Nat), Len(p) <= ChunkSize,
         NEW b \in Seq(Nat), b # <<>>, Agree(b, Encode(DataFrame(i, o, p)))
  PROVE  Read(b) = ReadAs(b, Encode(DataFrame(i, o, p)), DataFrame(i, o, p))
<1> DEFINE f == DataFrame(i, o, p)
           e == Encode(f)
           n == Len(p)
<1>0. i \in Nat /\ o \in Nat /\ n \in Nat /\ Len(b) \in Nat \ {0} /\ n \in 0 .. 2 ^ 30
  <2>1. i \in Nat /\ o \in Nat
    BY SMT
  <2>2. Len(b) \in Nat \ {0} /\ n \in Nat
    BY EmptySeq
  <2>3. n \in 0 .. 2 ^ 30
    BY <2>2, WireAssumption, SMT
  <2> QED BY <2>1, <2>2, <2>3
<1>1. /\ e \in Seq(Nat) /\ Len(e) = 13 + n /\ e[1] = 17
      /\ \A k \in 1 .. 4 : e[1 + k] = Put(i, 4)[k] /\ e[5 + k] = Put(o, 4)[k] /\ e[9 + k] = Put(n, 4)[k]
      /\ \A k \in 1 .. n : e[13 + k] = p[k]
  BY <1>0, DataBytes
<1>2. Sent(f) = f /\ f = [type |-> 17, first |-> 0, count |-> 0, index |-> i, offset |-> o, payload |-> p, code |-> 0]
  <2>1. f = [type |-> 17, first |-> 0, count |-> 0, index |-> i, offset |-> o, payload |-> p, code |-> 0]
    BY DataRecord
  <2>2. f.type # TError
    BY <2>1 DEF TError
  <2> HIDE DEF f
  <2> QED BY <2>1, <2>2 DEF Sent
<1>a. \A k \in 1 .. 13 + n : k <= Len(b) => b[k] = e[k]
  BY <1>1 DEF Agree
<1>p. Len(p) = n
  OBVIOUS
<1> HIDE DEF e, f, n
<1>3. b[1] = 17
  <2>1. 1 \in 1 .. 13 + n /\ 1 <= Len(b)
    BY <1>0
  <2> QED BY <1>1, <1>a, <2>1, Zenon
<1>4. b[1] \in Types /\ header(b[1]) = 13
  BY <1>3 DEF Types, header, dataHeader, TAuth, TDone, TManifestAck, Ranges, TReq, THashReq, TCancel, TData, THash, TError
<1>5. ASSUME 13 <= Len(b)
      PROVE  At(b, 1, 4) = i /\ At(b, 5, 4) = o /\ At(b, 9, 4) = n /\ length(b) = n /\ ~TooLong(b)
  <2>1. \A k \in 1 .. 4 : /\ b[1 + k] = Put(i, 4)[k] /\ b[5 + k] = Put(o, 4)[k]
                          /\ b[9 + k] = Put(n, 4)[k]
    <3> SUFFICES ASSUME NEW k \in 1 .. 4
                 PROVE  b[1 + k] = Put(i, 4)[k] /\ b[5 + k] = Put(o, 4)[k] /\ b[9 + k] = Put(n, 4)[k]
      OBVIOUS
    <3>1. /\ 1 + k \in 1 .. 13 + n /\ 1 + k <= Len(b) /\ 5 + k \in 1 .. 13 + n /\ 5 + k <= Len(b)
          /\ 9 + k \in 1 .. 13 + n /\ 9 + k <= Len(b)
      BY <1>0, <1>5
    <3> QED BY <1>1, <1>a, <3>1
  <2>2. At(b, 1, 4) = i /\ At(b, 5, 4) = o /\ At(b, 9, 4) = n
    <3>1. 1 + 4 <= Len(b) /\ 5 + 4 <= Len(b) /\ 9 + 4 <= Len(b)
      BY <1>0, <1>5
    <3> QED BY <1>0, <2>1, <3>1, NumberAt, ZenonT(60)
  <2>3. length(b) = n
    BY <1>3, <2>2 DEF length, TAuth, TDone, TData, THash, TError
  <2>4. ~TooLong(b)
    <3>1. n <= ChunkSize
      BY DEF n
    <3> QED BY <1>0, <1>3, <2>3, <3>1, WireAssumption DEF TooLong, TData, THash, TError
  <2> QED BY <2>2, <2>3, <2>4
<1>6. ASSUME 13 + n <= Len(b) PROVE Parsed(b) = Sent(f)
  <2>1. SubSeq(b, 13 + 1, 13 + n) = p
    <3>1. ASSUME NEW k \in 1 .. n PROVE b[13 + k] = p[k]
      <4>1. 13 + k \in 1 .. 13 + n /\ 13 + k <= Len(b)
        BY <1>0, <1>6
      <4>2. b[13 + k] = e[13 + k]
        BY <1>a, <4>1, Zenon
      <4>3. e[13 + k] = p[k]
        BY <1>1, Zenon
      <4> QED BY <4>2, <4>3, Zenon
    <3> QED BY <1>6, <1>p, <3>1, PayloadOf
  <2>2. ~(17 \in Ranges \cup {THash}) /\ 17 = TData /\ 17 # TError
    BY DEF Ranges, TReq, THashReq, TCancel, THash, TData, TError
  <2>3. 13 <= Len(b)
    BY <1>0, <1>6
  <2>4. header(17) + 1 = 13 + 1 /\ header(17) + length(b) = 13 + n /\ At(b, 1, 4) = i /\ At(b, 5, 4) = o
    BY <1>3, <1>4, <1>5, <2>3
  <2> QED BY <1>2, <1>3, <2>1, <2>2, <2>4 DEF Parsed
<1>7. Len(e) = 13 + n
  BY <1>1
<1>8. Read(b) = ReadAs(b, e, f)
  <2>1. 13 \in Nat /\ n \in Nat
    BY <1>0
  <2>2. 13 <= Len(b) => length(b) = n /\ ~TooLong(b)
    BY <1>5
  <2> QED BY <1>4, <1>6, <1>7, <2>1, <2>2, ReadSome, ZenonT(60)
<1> QED BY <1>8 DEF e, f

(* The other frames of a host. *)
FrameOf(t, first, count, payload, code) ==
  [type |-> t, first |-> first, count |-> count, index |-> 0, offset |-> 0, payload |-> payload, code |-> code]
LongError == [k \in 1 .. MaxErrorMsgLen + 1 |-> k]

LEMMA OtherForms ==
  ASSUME NEW f \in Other
  PROVE  \/ f = FrameOf(2, 0, 0, <<>>, 0) \/ f = FrameOf(20, 0, 0, Sum, 0)
         \/ f = FrameOf(19, 1, 2, Sum \o Sum, 0) \/ f = FrameOf(127, 0, 0, LongError, 3)
<1> DEFINE d2 == Frame(TManifestAck)
           d20 == [Frame(TDone) EXCEPT !.payload = Sum]
           d19 == [Frame(THash) EXCEPT !.first = 1, !.count = 2, !.payload = Sum \o Sum]
           d127 == [Frame(TError) EXCEPT !.code = 3, !.payload = LongError]
           r2 == FrameOf(2, 0, 0, <<>>, 0)
           r20 == FrameOf(20, 0, 0, Sum, 0)
           r19 == FrameOf(19, 1, 2, Sum \o Sum, 0)
           r127 == FrameOf(127, 0, 0, LongError, 3)
<1>1. f = d2 \/ f = d20 \/ f = d19 \/ f = d127
  BY DEF Other, LongError
<1>2. /\ IsFrame(d2) /\ IsFrame(d20) /\ IsFrame(d19) /\ IsFrame(d127)
      /\ IsFrame(r2) /\ IsFrame(r20) /\ IsFrame(r19) /\ IsFrame(r127)
  BY DEF IsFrame, Fields, Frame, FrameOf
<1>3. d2 = r2
  <2>1. /\ d2.type = r2.type /\ d2.first = r2.first /\ d2.count = r2.count /\ d2.index = r2.index
        /\ d2.offset = r2.offset /\ d2.payload = r2.payload /\ d2.code = r2.code
    BY DEF Frame, FrameOf, TManifestAck
  <2> HIDE DEF d2, r2
  <2> QED BY <1>2, <2>1, FramesEqual
<1>4. d20 = r20
  <2>1. /\ d20.type = r20.type /\ d20.first = r20.first /\ d20.count = r20.count /\ d20.index = r20.index
        /\ d20.offset = r20.offset /\ d20.payload = r20.payload /\ d20.code = r20.code
    BY DEF Frame, FrameOf, TDone
  <2> HIDE DEF d20, r20
  <2> QED BY <1>2, <2>1, FramesEqual
<1>5. d19 = r19
  <2>1. /\ d19.type = r19.type /\ d19.first = r19.first /\ d19.count = r19.count /\ d19.index = r19.index
        /\ d19.offset = r19.offset /\ d19.payload = r19.payload /\ d19.code = r19.code
    BY DEF Frame, FrameOf, THash
  <2> HIDE DEF d19, r19
  <2> QED BY <1>2, <2>1, FramesEqual
<1>6. d127 = r127
  <2>1. /\ d127.type = r127.type /\ d127.first = r127.first /\ d127.count = r127.count
        /\ d127.index = r127.index /\ d127.offset = r127.offset /\ d127.payload = r127.payload
        /\ d127.code = r127.code
    BY DEF Frame, FrameOf, TError
  <2> HIDE DEF d127, r127
  <2> QED BY <1>2, <2>1, FramesEqual
<1> HIDE DEF d2, d20, d19, d127
<1> QED BY <1>1, <1>3, <1>4, <1>5, <1>6

LEMMA SumFacts ==
  /\ SumSize \in Nat \ {0} /\ Sum \in Seq(Nat) /\ Len(Sum) = SumSize
  /\ Sum \o Sum \in Seq(Nat) /\ Len(Sum \o Sum) = SumSize * 2
<1>1. SumSize \in Nat \ {0}
  BY WireAssumption
<1>2. Sum \in Seq(Nat) /\ Len(Sum) = SumSize
  <2>1. \A k \in 1 .. SumSize : 200 + k \in Nat
    BY <1>1
  <2> QED BY <1>1, <2>1 DEF Sum
<1>3. Sum \o Sum \in Seq(Nat) /\ Len(Sum \o Sum) = Len(Sum) + Len(Sum)
  BY <1>2, Cat, Zenon
<1> QED BY <1>1, <1>2, <1>3

LEMMA ErrorFacts ==
  /\ MaxErrorMsgLen \in Nat /\ MaxErrorMsgLen \in 0 .. 2 ^ 16 - 1
  /\ Truncated(LongError) \in Seq(Nat) /\ Len(Truncated(LongError)) = MaxErrorMsgLen
<1>1. MaxErrorMsgLen \in Nat /\ MaxErrorMsgLen \in 0 .. 2 ^ 16 - 1
  BY WireAssumption, SMT
<1>2. LongError \in Seq(Nat) /\ Len(LongError) = MaxErrorMsgLen + 1
  BY <1>1 DEF LongError
<1>3. Truncated(LongError) = SubSeq(LongError, 1, MaxErrorMsgLen)
  BY <1>1, <1>2 DEF Truncated
<1>4. SubSeq(LongError, 1, MaxErrorMsgLen) \in Seq(Nat) /\ Len(SubSeq(LongError, 1, MaxErrorMsgLen)) = MaxErrorMsgLen
  <2>1. \A k \in 1 .. MaxErrorMsgLen : LongError[k] \in Nat
    BY <1>1 DEF LongError
  <2>2. 1 \in Int /\ MaxErrorMsgLen \in Int
    BY <1>1
  <2>3. /\ SubSeq(LongError, 1, MaxErrorMsgLen) \in Seq(Nat)
        /\ Len(SubSeq(LongError, 1, MaxErrorMsgLen)) = IF 1 <= MaxErrorMsgLen THEN MaxErrorMsgLen - 1 + 1 ELSE 0
    BY <2>1, <2>2, SubSeqProperties
  <2> QED BY <1>1, <2>3
<1> QED BY <1>1, <1>3, <1>4

(* What is said of the encoding of a frame. *)
Good(f) ==
  /\ Encode(f) \in Seq(Nat) /\ Len(Encode(f)) \in Nat \ {0}
  /\ \A b \in Seq(Nat) : b # <<>> /\ Agree(b, Encode(f)) => Read(b) = ReadAs(b, Encode(f), f)

LEMMA AckGood == Good(FrameOf(2, 0, 0, <<>>, 0)) /\ Len(Encode(FrameOf(2, 0, 0, <<>>, 0))) = 1
<1> DEFINE f == FrameOf(2, 0, 0, <<>>, 0)
           e == Encode(f)
<1>1. e = <<2>>
  <2>1. f.type = 2
    BY DEF FrameOf
  <2> HIDE DEF f
  <2>2. Encode(f) = <<2>> \o <<>>
    BY <2>1 DEF Encode, TAuth, TDone, TManifestAck, Ranges, TReq, THashReq, TCancel, THash, TData, TError
  <2>3. <<2>> \o <<>> = <<2>>
    OBVIOUS
  <2> QED BY <2>2, <2>3
<1> HIDE DEF e
<1>2. e \in Seq(Nat) /\ Len(e) = 1 /\ e[1] = 2
  BY <1>1, OneByte
<1>3. Sent(f) = f
  <2>1. f.type # TError
    BY DEF FrameOf, TError
  <2> HIDE DEF f
  <2> QED BY <2>1 DEF Sent
<1> HIDE DEF e
<1>4. ASSUME NEW b \in Seq(Nat), b # <<>>, Agree(b, e) PROVE Read(b) = ReadAs(b, e, f)
  <2>0. Len(b) \in Nat \ {0}
    BY <1>4, EmptySeq
  <2>1. b[1] = 2
    <3>1. 1 \in 1 .. Len(e) /\ 1 <= Len(b)
      BY <1>2, <2>0
    <3> QED BY <1>2, <1>4, <3>1 DEF Agree
  <2>2. b[1] \in Types /\ header(b[1]) = 1
    BY <2>1 DEF Types, header, TAuth, TDone, TManifestAck, Ranges, TReq, THashReq, TCancel, THash, TData, TError
  <2>3. length(b) = 0 /\ ~TooLong(b)
    BY <2>1 DEF length, TooLong, TAuth, TDone, TData, THash, TError
  <2>4. Parsed(b) = Sent(f)
    <3>1. SubSeq(b, 1 + 1, 1 + 0) = <<>>
      BY SubSeqEmpty
    <3>2. ~(2 \in Ranges \cup {THash}) /\ 2 # TData /\ 2 # TError
      BY DEF Ranges, TReq, THashReq, TCancel, THash, TData, TError
    <3> QED BY <1>3, <2>1, <2>2, <2>3, <3>1, <3>2 DEF Parsed, FrameOf
  <2>5. Len(e) = 1 + 0 /\ 1 \in Nat /\ 0 \in Nat
    BY <1>2
  <2> HIDE DEF f
  <2> QED BY <1>4, <2>2, <2>3, <2>4, <2>5, ReadSome, Zenon
<1> QED BY <1>2, <1>4 DEF Good, e

LEMMA DoneGood == Good(FrameOf(20, 0, 0, Sum, 0)) /\ Len(Encode(FrameOf(20, 0, 0, Sum, 0))) = 1 + SumSize
<1> DEFINE f == FrameOf(20, 0, 0, Sum, 0)
           e == Encode(f)
           n == SumSize
<1>1. e = <<20>> \o Sum
  <2>1. f.type = 20 /\ f.payload = Sum
    BY DEF FrameOf
  <2> HIDE DEF f
  <2> QED BY <2>1 DEF Encode, TAuth, TDone, TManifestAck, Ranges, TReq, THashReq, TCancel, THash, TData, TError
<1> HIDE DEF e
<1>0. n \in Nat \ {0} /\ Sum \in Seq(Nat) /\ Len(Sum) = n
  BY SumFacts
<1>2. e \in Seq(Nat) /\ Len(e) = 1 + n /\ e[1] = 20 /\ \A k \in 1 .. n : e[1 + k] = Sum[k]
  <2>1. <<20>> \in Seq(Nat) /\ Len(<<20>>) = 1 /\ <<20>>[1] = 20
    BY OneByte
  <2> QED BY <1>0, <1>1, <2>1, Cat
<1>3. Sent(f) = f
  <2>1. f.type # TError
    BY DEF FrameOf, TError
  <2> HIDE DEF f
  <2> QED BY <2>1 DEF Sent
<1> HIDE DEF e, n
<1>4. ASSUME NEW b \in Seq(Nat), b # <<>>, Agree(b, e) PROVE Read(b) = ReadAs(b, e, f)
  <2>0. Len(b) \in Nat \ {0}
    BY <1>4, EmptySeq
  <2>1. b[1] = 20
    <3>1. 1 \in 1 .. Len(e) /\ 1 <= Len(b)
      BY <1>0, <1>2, <2>0
    <3> QED BY <1>2, <1>4, <3>1 DEF Agree
  <2>2. b[1] \in Types /\ header(b[1]) = 1
    BY <2>1 DEF Types, header, TAuth, TDone, TManifestAck, Ranges, TReq, THashReq, TCancel, THash, TData, TError
  <2>3. length(b) = n /\ ~TooLong(b)
    BY <2>1 DEF length, TooLong, TAuth, TDone, TData, THash, TError, n
  <2>4. ASSUME 1 + n <= Len(b) PROVE Parsed(b) = Sent(f)
    <3>1. SubSeq(b, 1 + 1, 1 + n) = Sum
      <4>1. ASSUME NEW k \in 1 .. n PROVE b[1 + k] = Sum[k]
        <5>1. 1 + k \in 1 .. Len(e) /\ 1 + k <= Len(b)
          BY <1>0, <1>2, <2>0, <2>4
        <5> QED BY <1>2, <1>4, <5>1 DEF Agree
      <4>2. 1 + Len(Sum) <= Len(b) /\ \A k \in 1 .. Len(Sum) : b[1 + k] = Sum[k]
        BY <1>0, <2>4, <4>1
      <4>3. SubSeq(b, 1 + 1, 1 + Len(Sum)) = Sum
        BY <1>0, <4>2, PayloadOf
      <4> QED BY <1>0, <4>3
    <3>2. ~(20 \in Ranges \cup {THash}) /\ 20 # TData /\ 20 # TError
      BY DEF Ranges, TReq, THashReq, TCancel, THash, TData, TError
    <3> QED BY <1>3, <2>1, <2>2, <2>3, <3>1, <3>2 DEF Parsed, FrameOf
  <2>5. Len(e) = 1 + n /\ 1 \in Nat /\ n \in Nat
    BY <1>0, <1>2
  <2> HIDE DEF f
  <2> QED BY <1>4, <2>2, <2>3, <2>4, <2>5, ReadSome, Zenon
<1>5. Len(e) \in Nat \ {0}
  BY <1>0, <1>2
<1> QED BY <1>2, <1>4, <1>5 DEF Good, e, n

LEMMA HashGood ==
  Good(FrameOf(19, 1, 2, Sum \o Sum, 0)) /\ Len(Encode(FrameOf(19, 1, 2, Sum \o Sum, 0))) = 9 + SumSize * 2
<1> DEFINE p == Sum \o Sum
           f == FrameOf(19, 1, 2, p, 0)
           e == Encode(f)
           n == SumSize * 2
           x == Put(1, 4)
           y == Put(2, 4)
           a == <<19>>
<1>1. e = a \o ((x \o y) \o p)
  <2>1. f.type = 19 /\ f.payload = p /\ f.first = 1 /\ f.count = 2
    BY DEF FrameOf
  <2> HIDE DEF f
  <2> QED BY <2>1, SMTT(60) DEF Encode, TAuth, TDone, TManifestAck, Ranges, TReq, THashReq, TCancel, TData, THash, TError
<1>0. n \in Nat \ {0} /\ p \in Seq(Nat) /\ Len(p) = n
  BY SumFacts
<1>x. x \in Seq(Nat) /\ Len(x) = 4 /\ y \in Seq(Nat) /\ Len(y) = 4
  <2>1. 1 \in Nat /\ 2 \in Nat
    OBVIOUS
  <2> QED BY <2>1, FourOf, Zenon
<1>b. a \in Seq(Nat) /\ Len(a) = 1 /\ a[1] = 19
  BY OneByte
<1>3. Sent(f) = f
  <2>1. f.type # TError
    BY DEF FrameOf, TError
  <2> HIDE DEF f
  <2> QED BY <2>1 DEF Sent
<1> HIDE DEF a, x, y, e
<1>2. /\ e \in Seq(Nat) /\ Len(e) = 9 + n /\ e[1] = 19 /\ \A k \in 1 .. n : e[9 + k] = p[k]
      /\ \A k \in 1 .. 4 : e[1 + k] = x[k] /\ e[5 + k] = y[k]
  <2> HIDE DEF p, n
  <2> DEFINE xy == x \o y
  <2>1. /\ xy \in Seq(Nat) /\ Len(xy) = Len(x) + Len(y) /\ \A k \in 1 .. Len(x) : xy[k] = x[k]
        /\ \A k \in 1 .. Len(y) : xy[Len(x) + k] = y[k]
    BY <1>x, Cat, Zenon
  <2> HIDE DEF xy
  <2> DEFINE w == xy \o p
  <2>2. /\ w \in Seq(Nat) /\ Len(w) = Len(xy) + Len(p) /\ \A k \in 1 .. Len(xy) : w[k] = xy[k]
        /\ \A k \in 1 .. Len(p) : w[Len(xy) + k] = p[k]
    BY <1>0, <2>1, Cat, Zenon
  <2> HIDE DEF w
  <2>3. e = a \o w
    BY <1>1 DEF w, xy
  <2>4. /\ e \in Seq(Nat) /\ Len(e) = Len(a) + Len(w) /\ \A k \in 1 .. Len(a) : e[k] = a[k]
        /\ \A k \in 1 .. Len(w) : e[Len(a) + k] = w[k]
    BY <1>b, <2>2, <2>3, Cat, ZenonT(60)
  <2>5. Len(xy) = 8 /\ Len(w) = 8 + n /\ Len(e) = 9 + n
    BY <1>0, <1>x, <1>b, <2>1, <2>2, <2>4
  <2>6. ASSUME NEW k \in 1 .. n PROVE e[9 + k] = p[k]
    <3>1. 8 + k \in 1 .. 8 + n /\ 1 + (8 + k) = 9 + k
      BY <1>0
    <3>2. e[1 + (8 + k)] = w[8 + k]
      BY <1>b, <2>4, <2>5, <3>1
    <3>3. w[8 + k] = p[k]
      BY <1>0, <2>2, <2>5
    <3> QED BY <3>1, <3>2, <3>3
  <2>7. ASSUME NEW k \in 1 .. 4 PROVE e[1 + k] = x[k] /\ e[5 + k] = y[k]
    <3>1. k \in 1 .. 8 + n /\ 4 + k \in 1 .. 8 + n /\ k \in 1 .. 8 /\ 4 + k \in 1 .. 8 /\ 1 + (4 + k) = 5 + k
      BY <1>0
    <3>2. e[1 + k] = w[k] /\ e[1 + (4 + k)] = w[4 + k]
      BY <1>b, <2>4, <2>5, <3>1
    <3>3. w[k] = xy[k] /\ w[4 + k] = xy[4 + k]
      BY <2>2, <2>5, <3>1
    <3>4. xy[k] = x[k] /\ xy[4 + k] = y[k]
      BY <1>x, <2>1
    <3> QED BY <3>1, <3>2, <3>3, <3>4
  <2>8. e[1] = 19
    BY <1>b, <2>4
  <2> QED BY <2>4, <2>5, <2>6, <2>7, <2>8
<1> HIDE DEF n
<1>4. ASSUME NEW b \in Seq(Nat), b # <<>>, Agree(b, e) PROVE Read(b) = ReadAs(b, e, f)
  <2>0. Len(b) \in Nat \ {0}
    BY <1>4, EmptySeq
  <2>a. \A k \in 1 .. 9 + n : k <= Len(b) => b[k] = e[k]
    BY <1>2, <1>4 DEF Agree
  <2>1. b[1] = 19
    <3>1. 1 \in 1 .. 9 + n /\ 1 <= Len(b)
      BY <1>0, <2>0
    <3> QED BY <1>2, <2>a, <3>1
  <2>2. b[1] \in Types /\ header(b[1]) = 9
    BY <2>1 DEF Types, header, TAuth, TDone, TManifestAck, Ranges, TReq, THashReq, TCancel, THash, TData, TError
  <2>3. ASSUME 9 <= Len(b) PROVE At(b, 1, 4) = 1 /\ At(b, 5, 4) = 2 /\ length(b) = n /\ ~TooLong(b)
    <3>1. \A k \in 1 .. 4 : b[1 + k] = Put(1, 4)[k] /\ b[5 + k] = Put(2, 4)[k]
      <4> SUFFICES ASSUME NEW k \in 1 .. 4 PROVE b[1 + k] = x[k] /\ b[5 + k] = y[k]
        BY DEF x, y
      <4>1. /\ 1 + k \in 1 .. 9 + n /\ 1 + k <= Len(b) /\ 5 + k \in 1 .. 9 + n /\ 5 + k <= Len(b)
        BY <1>0, <2>0, <2>3
      <4> QED BY <1>2, <2>a, <4>1
    <3>2. At(b, 1, 4) = 1 /\ At(b, 5, 4) = 2
      <4>1. 1 + 4 <= Len(b) /\ 5 + 4 <= Len(b) /\ 1 \in Nat /\ 5 \in Nat
        BY <2>0, <2>3
      <4>2. 1 \in 0 .. 2 ^ 30 /\ 2 \in 0 .. 2 ^ 30
        BY SMT
      <4> QED BY <3>1, <4>1, <4>2, NumberAt
    <3>3. length(b) = n
      <4>1. length(b) = SumSize * At(b, 5, 4)
        BY <2>1 DEF length, TAuth, TDone, TData, THash, TError
      <4> QED BY <3>2, <4>1 DEF n
    <3>4. ~TooLong(b)
      BY <2>1, <3>2, WireAssumption, PathAssumption DEF TooLong, TData, THash, TError
    <3> QED BY <3>2, <3>3, <3>4
  <2>4. ASSUME 9 + n <= Len(b) PROVE Parsed(b) = Sent(f)
    <3>1. SubSeq(b, 9 + 1, 9 + n) = p
      <4>1. ASSUME NEW k \in 1 .. n PROVE b[9 + k] = p[k]
        <5>1. 9 + k \in 1 .. 9 + n /\ 9 + k <= Len(b)
          BY <1>0, <2>0, <2>4
        <5> QED BY <1>2, <2>a, <5>1
      <4> HIDE DEF p
      <4>2. 9 + Len(p) <= Len(b) /\ \A k \in 1 .. Len(p) : b[9 + k] = p[k]
        BY <1>0, <2>4, <4>1
      <4>3. SubSeq(b, 9 + 1, 9 + Len(p)) = p
        BY <1>0, <4>2, PayloadOf
      <4> QED BY <1>0, <4>3
    <3>2. 19 \in Ranges \cup {THash} /\ 19 # TData /\ 19 # TError
      BY DEF Ranges, TReq, THashReq, TCancel, THash, TData, TError
    <3>3. 9 <= Len(b)
      BY <1>0, <2>0, <2>4
    <3>4. header(19) + 1 = 9 + 1 /\ header(19) + length(b) = 9 + n /\ At(b, 1, 4) = 1 /\ At(b, 5, 4) = 2
      BY <2>1, <2>2, <2>3, <3>3
    <3> HIDE DEF p
    <3> QED BY <1>3, <2>1, <3>1, <3>2, <3>4 DEF Parsed, FrameOf
  <2>5. Len(e) = 9 + n /\ 9 \in Nat /\ n \in Nat
    BY <1>0, <1>2
  <2>6. 9 <= Len(b) => length(b) = n /\ ~TooLong(b)
    BY <2>3
  <2> HIDE DEF f
  <2> QED BY <1>4, <2>2, <2>4, <2>5, <2>6, ReadSome, Zenon
<1>5. Len(e) \in Nat \ {0}
  BY <1>0, <1>2
<1> QED BY <1>2, <1>4, <1>5 DEF Good, e, n

LEMMA ErrorGood ==
  Good(FrameOf(127, 0, 0, LongError, 3)) /\ Len(Encode(FrameOf(127, 0, 0, LongError, 3))) = 4 + MaxErrorMsgLen
<1> DEFINE f == FrameOf(127, 0, 0, LongError, 3)
           p == Truncated(LongError)
           e == Encode(f)
           n == MaxErrorMsgLen
           x == Put(n, 2)
           a == <<127>>
           c == <<3>>
<1>0. n \in Nat /\ n \in 0 .. 2 ^ 16 - 1 /\ p \in Seq(Nat) /\ Len(p) = n
  BY ErrorFacts
<1>1. e = a \o ((c \o x) \o p)
  <2>1. f.type = 127 /\ f.payload = LongError /\ f.code = 3
    BY DEF FrameOf
  <2> HIDE DEF f
  <2>2. Truncated(f.payload) = p /\ Len(p) = n
    BY <1>0, <2>1
  <2> HIDE DEF p, n
  <2> QED BY <2>1, <2>2 DEF Encode, TAuth, TDone, TManifestAck, Ranges, TReq, THashReq, TCancel, TData, THash, TError
<1>x. x \in Seq(Nat) /\ Len(x) = 2
  <2>1. 2 \in 1 .. 4
    OBVIOUS
  <2> QED BY <1>0, <2>1, PutFacts
<1>b. a \in Seq(Nat) /\ Len(a) = 1 /\ c \in Seq(Nat) /\ Len(c) = 1
  BY OneByte
<1>d. a[1] = 127 /\ c[1] = 3
  BY OneByte
<1>3. Sent(f) = FrameOf(127, 0, 0, p, 3)
  <2>1. f.type = TError
    BY DEF FrameOf, TError
  <2>2. Sent(f) = [f EXCEPT !.payload = Truncated(LongError)]
    <3>1. f.payload = LongError
      BY DEF FrameOf
    <3> HIDE DEF f
    <3> QED BY <2>1, <3>1 DEF Sent
  <2> DEFINE d == [f EXCEPT !.payload = p]
             r == FrameOf(127, 0, 0, p, 3)
  <2>3. IsFrame(d) /\ IsFrame(r)
    BY DEF IsFrame, Fields, FrameOf
  <2>4. /\ d.type = r.type /\ d.first = r.first /\ d.count = r.count /\ d.index = r.index
        /\ d.offset = r.offset /\ d.payload = r.payload /\ d.code = r.code
    BY DEF FrameOf
  <2>5. Sent(f) = d
    BY <2>2
  <2> HIDE DEF d, r
  <2>6. d = r
    BY <2>3, <2>4, FramesEqual
  <2> QED BY <2>5, <2>6 DEF r
<1> HIDE DEF a, x, c, e, f, p
<1>2. /\ e \in Seq(Nat) /\ Len(e) = 4 + n /\ e[1] = 127 /\ \A k \in 1 .. n : e[4 + k] = p[k]
      /\ e[2] = 3 /\ \A k \in 1 .. 2 : e[2 + k] = x[k]
  <2> HIDE DEF n
  <2> DEFINE xy == c \o x
  <2>1. /\ xy \in Seq(Nat) /\ Len(xy) = Len(c) + Len(x) /\ \A k \in 1 .. Len(c) : xy[k] = c[k]
        /\ \A k \in 1 .. Len(x) : xy[Len(c) + k] = x[k]
    BY <1>x, <1>b, Cat, Zenon
  <2> HIDE DEF xy
  <2> DEFINE w == xy \o p
  <2>2. /\ w \in Seq(Nat) /\ Len(w) = Len(xy) + Len(p) /\ \A k \in 1 .. Len(xy) : w[k] = xy[k]
        /\ \A k \in 1 .. Len(p) : w[Len(xy) + k] = p[k]
    BY <1>0, <2>1, Cat, Zenon
  <2> HIDE DEF w
  <2>3. e = a \o w
    BY <1>1 DEF w, xy
  <2>4. /\ e \in Seq(Nat) /\ Len(e) = Len(a) + Len(w) /\ \A k \in 1 .. Len(a) : e[k] = a[k]
        /\ \A k \in 1 .. Len(w) : e[Len(a) + k] = w[k]
    BY <1>b, <2>2, <2>3, Cat, Zenon
  <2>5. Len(xy) = 3 /\ Len(w) = 3 + n /\ Len(e) = 4 + n
    BY <1>0, <1>x, <1>b, <2>1, <2>2, <2>4
  <2>6. ASSUME NEW k \in 1 .. n PROVE e[4 + k] = p[k]
    <3>1. 3 + k \in 1 .. 3 + n /\ 1 + (3 + k) = 4 + k
      BY <1>0
    <3>2. e[1 + (3 + k)] = w[3 + k]
      BY <1>b, <2>4, <2>5, <3>1
    <3>3. w[3 + k] = p[k]
      BY <1>0, <2>2, <2>5
    <3> QED BY <3>1, <3>2, <3>3
  <2>7. ASSUME NEW k \in 1 .. 2 PROVE e[2 + k] = x[k]
    <3>1. 1 + k \in 1 .. 3 + n /\ 1 + k \in 1 .. 3 /\ 1 + (1 + k) = 2 + k
      BY <1>0
    <3>2. e[1 + (1 + k)] = w[1 + k]
      BY <1>b, <2>4, <2>5, <3>1
    <3>3. w[1 + k] = xy[1 + k]
      BY <2>2, <2>5, <3>1
    <3>4. xy[1 + k] = x[k]
      BY <1>x, <1>b, <2>1
    <3> QED BY <3>1, <3>2, <3>3, <3>4
  <2>8. e[1] = 127
    BY <1>b, <1>d, <2>4
  <2>9. e[2] = 3
    <3>1. 1 \in 1 .. 3 + n /\ 1 \in 1 .. 3 /\ 1 + 1 = 2
      BY <1>0
    <3>2. e[1 + 1] = w[1]
      BY <1>b, <2>4, <2>5, <3>1
    <3>3. w[1] = xy[1]
      BY <2>2, <2>1, <1>x, <1>b
    <3>4. xy[1] = c[1]
      BY <1>b, <2>1
    <3> QED BY <1>d, <3>1, <3>2, <3>3, <3>4
  <2> QED BY <2>4, <2>5, <2>6, <2>7, <2>8, <2>9
<1>4. ASSUME NEW b \in Seq(Nat), b # <<>>, Agree(b, e) PROVE Read(b) = ReadAs(b, e, f)
  <2>0. Len(b) \in Nat \ {0}
    BY <1>4, EmptySeq
  <2>a. \A k \in 1 .. 4 + n : k <= Len(b) => b[k] = e[k]
    BY <1>2, <1>4 DEF Agree
  <2>1. b[1] = 127
    <3>1. 1 \in 1 .. 4 + n /\ 1 <= Len(b)
      BY <1>0, <2>0
    <3> QED BY <1>2, <2>a, <3>1
  <2>2. b[1] \in Types /\ header(b[1]) = 4
    BY <2>1 DEF Types, header, TAuth, TDone, TManifestAck, Ranges, TReq, THashReq, TCancel, THash, TData, TError
  <2>3. ASSUME 4 <= Len(b) PROVE At(b, 2, 2) = n /\ length(b) = n /\ ~TooLong(b) /\ b[2] = 3
    <3>1. \A k \in 1 .. 2 : b[2 + k] = Put(n, 2)[k]
      <4> SUFFICES ASSUME NEW k \in 1 .. 2 PROVE b[2 + k] = x[k]
        BY DEF x
      <4>1. /\ 2 + k \in 1 .. 4 + n /\ 2 + k <= Len(b)
        BY <1>0, <2>0, <2>3
      <4> QED BY <1>2, <2>a, <4>1, ZenonT(60)
    <3>2. At(b, 2, 2) = n
      <4>1. 2 + 2 <= Len(b) /\ 2 \in Nat
        BY <2>0, <2>3
      <4> QED BY <1>0, <3>1, <4>1, ShortAt
    <3>3. length(b) = n
      BY <2>1, <3>2 DEF length, TAuth, TDone, TData, THash, TError
    <3>4. ~TooLong(b)
      BY <1>0, <2>1, <3>3 DEF TooLong, TData, THash, TError
    <3>5. b[2] = 3
      <4>1. 2 \in 1 .. 4 + n /\ 2 <= Len(b)
        BY <1>0, <2>0, <2>3
      <4> QED BY <1>2, <2>a, <4>1
    <3> QED BY <3>2, <3>3, <3>4, <3>5
  <2>4. ASSUME 4 + n <= Len(b) PROVE Parsed(b) = Sent(f)
    <3>1. SubSeq(b, 4 + 1, 4 + n) = p
      <4>1. ASSUME NEW k \in 1 .. n PROVE b[4 + k] = p[k]
        <5>1. 4 + k \in 1 .. 4 + n /\ 4 + k <= Len(b)
          BY <1>0, <2>0, <2>4
        <5>2. b[4 + k] = e[4 + k]
          BY <2>a, <5>1
        <5>3. e[4 + k] = p[k]
          BY <1>2
        <5> QED BY <5>2, <5>3
      <4>2. 4 + Len(p) <= Len(b) /\ \A k \in 1 .. Len(p) : b[4 + k] = p[k]
        BY <1>0, <2>4, <4>1
      <4>3. SubSeq(b, 4 + 1, 4 + Len(p)) = p
        BY <1>0, <4>2, PayloadOf
      <4> QED BY <1>0, <4>3
    <3>2. ~(127 \in Ranges \cup {THash}) /\ 127 # TData /\ 127 = TError
      BY DEF Ranges, TReq, THashReq, TCancel, THash, TData, TError
    <3>3. 4 <= Len(b)
      BY <1>0, <2>0, <2>4
    <3>4. header(127) + 1 = 4 + 1 /\ header(127) + length(b) = 4 + n /\ b[2] = 3
      BY <2>1, <2>2, <2>3, <3>3
    <3>5. SubSeq(b, header(127) + 1, header(127) + length(b)) = p
      BY <3>1, <3>4
    <3>6. Parsed(b) = [type |-> 127, first |-> 0, count |-> 0, index |-> 0, offset |-> 0, code |-> b[2],
                       payload |-> SubSeq(b, header(127) + 1, header(127) + length(b))]
      BY <2>1, <3>2 DEF Parsed
    <3> QED BY <1>3, <3>4, <3>5, <3>6 DEF FrameOf
  <2>5. Len(e) = 4 + n /\ 4 \in Nat /\ n \in Nat
    BY <1>0, <1>2
  <2>6. 4 <= Len(b) => length(b) = n /\ ~TooLong(b)
    BY <2>3
  <2> QED BY <1>4, <2>2, <2>4, <2>5, <2>6, ReadSome, Zenon
<1>5. Len(e) \in Nat \ {0}
  BY <1>0, <1>2
<1> QED BY <1>2, <1>4, <1>5 DEF Good, e, n, f
-----------------------------------------------------------------------------
(***************************************************************************)
(* From the host's files to the receiver's (DataPath).                     *)
(***************************************************************************)
(* Quotients *)

LEMMA Times == \A a, b \in Int : \A c \in Nat : a <= b => a * c <= b * c
BY SMT

LEMMA Quotient ==
  ASSUME NEW a \in Nat, NEW c \in Nat \ {0}
  PROVE  a \div c \in Nat /\ (a \div c) * c <= a /\ a < (a \div c) * c + c
BY SMT

LEMMA QuotientIs ==
  ASSUME NEW a \in Nat, NEW c \in Nat \ {0}, NEW q \in Nat, q * c <= a, a < q * c + c
  PROVE  a \div c = q
<1> DEFINE r == a \div c
<1>1. r \in Nat /\ r * c <= a /\ a < r * c + c
  BY Quotient
<1> HIDE DEF r
<1>2. ASSUME NEW x \in Nat, NEW y \in Nat, x < y, a < x * c + c, y * c <= a PROVE FALSE
  <2>1. (x + 1) * c <= y * c
    <3>1. x + 1 <= y /\ x + 1 \in Int /\ y \in Int /\ c \in Nat
      BY <1>2
    <3> QED BY <3>1, Times
  <2>2. (x + 1) * c = x * c + c
    BY SMT
  <2>3. x * c \in Nat /\ y * c \in Nat
    BY SMT
  <2> QED BY <1>2, <2>1, <2>2, <2>3
<1>3. ~(r < q) /\ ~(q < r)
  BY <1>1, <1>2
<1>4. r = q
  BY <1>1, <1>3
<1> QED BY <1>4 DEF r
-----------------------------------------------------------------------------
(* Chunks *)

ChunksOf(z) == 0 .. Chunks(z, ChunkSize) - 1
Bytes(z, i) == ChunkSpan(z, ChunkSize, i).n

IsShared(z) == IsLayout(z) /\ Size(z) <= MaxSize

LEMMA ChunkFacts ==
  ASSUME NEW z, IsShared(z), NEW i \in ChunksOf(z)
  PROVE  /\ ChunkSize \in Nat \ {0} /\ i \in Nat /\ i \in 0 .. 2 ^ 30 /\ i * ChunkSize \in Nat
         /\ ChunkSpan(z, ChunkSize, i).off = i * ChunkSize
         /\ Bytes(z, i) \in Nat \ {0} /\ Bytes(z, i) <= ChunkSize
         /\ i * ChunkSize + Bytes(z, i) <= Size(z)
         /\ Bytes(z, i) = ChunkSize \/ i * ChunkSize + Bytes(z, i) = Size(z)
<1> DEFINE C == ChunkSize
           S == Size(z)
<1>1. C \in Nat \ {0} /\ S \in Nat /\ MaxSize \in Nat /\ S <= MaxSize /\ MaxSize \div C < 2 ^ 30
  <2>1. C \in Nat \ {0}
    BY WireAssumption, SMT
  <2> QED BY <2>1, PathAssumption, StartsFacts DEF IsShared
<1>2. i \in 0 .. ((S + C - 1) \div C) - 1
  BY DEF ChunksOf, Chunks
<1>3. ChunkSpan(z, C, i) = [off |-> i * C, n |-> IF S - i * C < C THEN S - i * C ELSE C]
  BY DEF ChunkSpan
<1> HIDE DEF C, S
<1> DEFINE q == (S + C - 1) \div C
<1>4. q \in Nat /\ q * C <= S + C - 1
  <2>1. S + C - 1 \in Nat
    BY <1>1
  <2> QED BY <1>1, <2>1, Quotient
<1>5. i \in Nat /\ i + 1 <= q
  BY <1>2, <1>4
<1> HIDE DEF q
<1>6. i * C < S /\ i * C \in Nat
  <2>1. (i + 1) * C <= q * C
    BY <1>1, <1>4, <1>5, Times
  <2>2. (i + 1) * C = i * C + C /\ i * C \in Nat /\ q * C \in Nat
    BY <1>1, <1>4, <1>5, SMT
  <2> QED BY <1>1, <1>4, <2>1, <2>2
<1>7. i \in 0 .. 2 ^ 30
  <2> DEFINE r == MaxSize \div C
  <2>1. r \in Nat /\ MaxSize < r * C + C /\ r < 2 ^ 30
    BY <1>1, Quotient
  <2> HIDE DEF r
  <2>2. ~(r + 1 <= i)
    <3>1. SUFFICES ASSUME r + 1 <= i PROVE FALSE
      OBVIOUS
    <3>2. (r + 1) * C <= i * C
      BY <1>1, <1>5, <2>1, <3>1, Times
    <3>3. (r + 1) * C = r * C + C /\ r * C \in Nat
      BY <1>1, <2>1, SMT
    <3> QED BY <1>1, <1>6, <2>1, <3>2, <3>3
  <2> QED BY <1>5, <2>1, <2>2, SMT
<1>8. Bytes(z, i) = IF S - i * C < C THEN S - i * C ELSE C
  BY <1>3 DEF Bytes, C
<1>9. ChunkSpan(z, C, i).off = i * C
  BY <1>3
<1>10. /\ Bytes(z, i) \in Nat \ {0} /\ Bytes(z, i) <= C /\ i * C + Bytes(z, i) <= S
       /\ Bytes(z, i) = C \/ i * C + Bytes(z, i) = S
  BY <1>1, <1>6, <1>8
<1> QED BY <1>1, <1>5, <1>6, <1>7, <1>9, <1>10 DEF C, S

(* Where an offset is in its chunk. *)
LEMMA PlaceInChunk ==
  ASSUME NEW z, IsShared(z), NEW i \in ChunksOf(z), NEW pos \in Nat
  PROVE  pos < Size(z) /\ pos \div ChunkSize = i
           <=> i * ChunkSize <= pos /\ pos < i * ChunkSize + Bytes(z, i)
<1>1. /\ ChunkSize \in Nat \ {0} /\ i \in Nat /\ i * ChunkSize \in Nat
      /\ Bytes(z, i) \in Nat \ {0} /\ Bytes(z, i) <= ChunkSize
      /\ i * ChunkSize + Bytes(z, i) <= Size(z)
      /\ Bytes(z, i) = ChunkSize \/ i * ChunkSize + Bytes(z, i) = Size(z)
  BY ChunkFacts
<1>2. Size(z) \in Nat
  BY StartsFacts DEF IsShared
<1>3. CASE pos < Size(z) /\ pos \div ChunkSize = i
  <2>1. i * ChunkSize <= pos /\ pos < i * ChunkSize + ChunkSize
    BY <1>1, <1>3, Quotient
  <2> QED BY <1>1, <1>2, <1>3, <2>1
<1>4. CASE i * ChunkSize <= pos /\ pos < i * ChunkSize + Bytes(z, i)
  <2>1. pos < i * ChunkSize + ChunkSize /\ pos < Size(z)
    BY <1>1, <1>2, <1>4
  <2>2. pos \div ChunkSize = i
    BY <1>1, <1>4, <2>1, QuotientIs
  <2> QED BY <1>4, <2>1, <2>2
<1> QED BY <1>3, <1>4
-----------------------------------------------------------------------------
(* Files and pieces *)

(* The files as they are now, which may be shorter than in the manifest.   *)
IsActual(z, a) ==
  DOMAIN a = DOMAIN z /\ \A f \in DOMAIN z : a[f] \in Nat /\ a[f] <= z[f]

(* Offset pos of all files is in a file still. *)
There(z, a, pos) == \E f \in DOMAIN z : starts(z)[f] <= pos /\ pos < starts(z)[f] + a[f]

(* v is byte k of chunk i, counted from 1, if that is in a file still.     *)
Right(z, a, i, k, v) == There(z, a, i * ChunkSize + k - 1) => v = i * ChunkSize + k

(* The pieces of a chunk. *)
Pieces(z, i) == Range(segments(z, i * ChunkSize, Bytes(z, i)))

LEMMA PieceFacts ==
  ASSUME NEW z, IsShared(z), NEW i \in ChunksOf(z)
  PROVE  /\ \A p \in Pieces(z, i) : p \in Piece(z, i * ChunkSize, Bytes(z, i))
         /\ \A k \in 1 .. Bytes(z, i) : \E p \in Pieces(z, i) : In(p, k)
         /\ segments(z, i * ChunkSize, Bytes(z, i)) # <<>>
         /\ Last(segments(z, i * ChunkSize, Bytes(z, i))).at
              + Last(segments(z, i * ChunkSize, Bytes(z, i))).n = Bytes(z, i)
<1> DEFINE off == i * ChunkSize
           n == Bytes(z, i)
           ps == segments(z, off, n)
<1>1. off \in Nat /\ n \in Nat \ {0} /\ off + n <= Size(z) /\ IsLayout(z)
  BY ChunkFacts DEF IsShared
<1> HIDE DEF off, n
<1>2. /\ ps \in Seq(Piece(z, off, n)) /\ ps # <<>> /\ Last(ps).at + Last(ps).n = n
      /\ \A k \in 1 .. n : \E p \in Range(ps) : In(p, k)
  BY <1>1, SegmentsFacts
<1>3. \A p \in Range(ps) : p \in Piece(z, off, n)
  <2> HIDE DEF ps
  <2> QED BY <1>2, ElementOfSeq DEF Range
<1> QED BY <1>2, <1>3 DEF Pieces, ps, off, n

LEMMA PieceOf ==
  ASSUME NEW z, IsShared(z), NEW i \in ChunksOf(z), NEW p \in Pieces(z, i)
  PROVE  /\ p.file \in DOMAIN z /\ p.inFile \in Nat /\ p.at \in Nat /\ p.n \in Nat \ {0}
         /\ p.inFile + p.n <= z[p.file] /\ p.at + p.n <= Bytes(z, i)
         /\ starts(z)[p.file] \in Nat /\ z[p.file] \in Nat
         /\ starts(z)[p.file] + p.inFile = i * ChunkSize + p.at
<1>1. p \in Piece(z, i * ChunkSize, Bytes(z, i))
  BY PieceFacts
<1>2. /\ p.file \in 1 .. Len(z) /\ p.inFile \in Nat /\ p.at \in Nat /\ p.n \in Nat \ {0}
      /\ p.inFile + p.n <= z[p.file] /\ p.at + p.n <= Bytes(z, i)
      /\ starts(z)[p.file] + p.inFile = i * ChunkSize + p.at
  BY <1>1 DEF Piece
<1>3. /\ Len(z) \in Nat /\ DOMAIN z = 1 .. Len(z) /\ \A k \in 1 .. Len(z) : z[k] \in Nat
      /\ starts(z) \in [1 .. Len(z) + 1 -> Nat]
  BY StartsFacts DEF IsShared
<1>4. p.file \in 1 .. Len(z) + 1
  BY <1>2, <1>3
<1> QED BY <1>2, <1>3, <1>4

(* The file of an offset of a chunk is the one of the piece that holds it. *)
LEMMA PieceAt ==
  ASSUME NEW z, IsShared(z), NEW i \in ChunksOf(z), NEW f \in DOMAIN z, NEW k \in 1 .. Bytes(z, i),
         starts(z)[f] <= i * ChunkSize + k - 1, i * ChunkSize + k - 1 < starts(z)[f] + z[f],
         NEW p \in Pieces(z, i), In(p, k)
  PROVE  p.file = f
<1>1. /\ p.file \in DOMAIN z /\ p.inFile \in Nat /\ p.at \in Nat /\ p.n \in Nat \ {0}
      /\ p.inFile + p.n <= z[p.file] /\ starts(z)[p.file] \in Nat /\ z[p.file] \in Nat
      /\ starts(z)[p.file] + p.inFile = i * ChunkSize + p.at
  BY PieceOf
<1>2. i * ChunkSize \in Nat /\ Bytes(z, i) \in Nat
  BY ChunkFacts
<1> DEFINE at == i * ChunkSize + k - 1
<1>3. at \in Nat
  BY <1>2
<1>4. starts(z)[p.file] <= at /\ at < starts(z)[p.file] + z[p.file]
  BY <1>1, <1>2 DEF In
<1>5. f \in 1 .. Len(z) /\ p.file \in 1 .. Len(z) /\ IsLayout(z)
  BY <1>1, StartsFacts DEF IsShared
<1>6. starts(z)[f] <= at /\ at < starts(z)[f] + z[f]
  OBVIOUS
<1> HIDE DEF at
<1> QED BY <1>3, <1>4, <1>5, <1>6, OneFile

LEMMA SpanFacts ==
  ASSUME IsShared(sizes), NEW i \in Chunk
  PROVE  /\ i \in ChunksOf(sizes) /\ span(i).n = Bytes(sizes, i) /\ span(i).off = i * ChunkSize
         /\ pieces(i) = segments(sizes, i * ChunkSize, Bytes(sizes, i))
<1>1. i \in ChunksOf(sizes)
  BY DEF Chunk, ChunksOf
<1>2. span(i).n = Bytes(sizes, i) /\ span(i).off = i * ChunkSize
  BY <1>1, ChunkFacts DEF span, Bytes
<1> QED BY <1>1, <1>2 DEF pieces

(* ReadChunk reads the whole chunk, byte for byte. *)
LEMMA FilledFacts ==
  ASSUME IsShared(sizes), IsActual(sizes, actual), buf \in [1 .. ChunkSize -> Nat], NEW i \in Chunk
  PROVE  /\ Covered(i)
         /\ Filled(i) \in [1 .. ChunkSize -> Nat]
         /\ \A k \in 1 .. Bytes(sizes, i) : Right(sizes, actual, i, k, Filled(i)[k])
<1>1. /\ i \in ChunksOf(sizes) /\ span(i).n = Bytes(sizes, i)
      /\ pieces(i) = segments(sizes, i * ChunkSize, Bytes(sizes, i))
  BY SpanFacts
<1>2. Covered(i)
  BY <1>1, PieceFacts DEF Covered
<1>3. Range(pieces(i)) = Pieces(sizes, i)
  BY <1>1 DEF Pieces
<1> DEFINE n == Bytes(sizes, i)
           off == i * ChunkSize
           P == Pieces(sizes, i)
           hit(k) == {p \in P : /\ k \in p.at + 1 .. p.at + p.n
                                /\ p.inFile + k - 1 - p.at < actual[p.file]}
           the(k) == CHOOSE p \in hit(k) : TRUE
           byte(k) == IF hit(k) = {} THEN buf[k]
                      ELSE Content(the(k).file, the(k).inFile + k - 1 - the(k).at)
<1>4. Filled(i) = [k \in 1 .. ChunkSize |-> byte(k)]
  BY <1>3 DEF Filled
<1>5. off \in Nat /\ n \in Nat \ {0} /\ n <= ChunkSize /\ ChunkSize \in Nat
  BY <1>1, ChunkFacts
<1>6. \A p \in P : /\ p.file \in DOMAIN sizes /\ p.inFile \in Nat /\ p.at \in Nat /\ p.n \in Nat \ {0}
                   /\ p.inFile + p.n <= sizes[p.file] /\ p.at + p.n <= n
                   /\ starts(sizes)[p.file] \in Nat /\ starts(sizes)[p.file] + p.inFile = off + p.at
  BY <1>1, PieceOf
<1>7. \A k : hit(k) # {} => the(k) \in hit(k)
  OBVIOUS
<1> HIDE DEF P, the
<1>8. ASSUME NEW k \in 1 .. ChunkSize, hit(k) # {} PROVE byte(k) = off + k
  <2> DEFINE p == the(k)
  <2>1. p \in P /\ k \in p.at + 1 .. p.at + p.n
    BY <1>7, <1>8
  <2>2. /\ p.inFile \in Nat /\ p.at \in Nat /\ p.n \in Nat \ {0}
        /\ starts(sizes)[p.file] \in Nat /\ starts(sizes)[p.file] + p.inFile = off + p.at
    BY <1>6, <2>1
  <2>3. byte(k) = starts(sizes)[p.file] + (p.inFile + k - 1 - p.at) + 1
    BY <1>8 DEF Content
  <2> DEFINE sf == starts(sizes)[p.file]
             inF == p.inFile
             pat == p.at
             b == byte(k)
  <2>4. sf \in Nat /\ inF \in Nat /\ pat \in Nat /\ off \in Nat /\ k \in Nat
        /\ sf + inF = off + pat /\ b = sf + (inF + k - 1 - pat) + 1
    BY <1>5, <2>2, <2>3
  <2> HIDE DEF p, byte, off, hit, sf, inF, pat, b
  <2>5. b = off + k
    BY <2>4
  <2> QED BY <2>5 DEF b
<1>9. \A k \in 1 .. ChunkSize : byte(k) \in Nat
  <2> SUFFICES ASSUME NEW k \in 1 .. ChunkSize PROVE byte(k) \in Nat
    OBVIOUS
  <2>1. CASE hit(k) = {}
    <3>1. byte(k) = buf[k]
      BY <2>1
    <3> HIDE DEF byte
    <3> QED BY <3>1
  <2>2. CASE hit(k) # {}
    <3> HIDE DEF byte, hit
    <3>1. byte(k) = off + k
      BY <1>8, <2>2
    <3> QED BY <1>5, <3>1
  <2> HIDE DEF byte, hit
  <2> QED BY <2>1, <2>2
<1>10. Filled(i) \in [1 .. ChunkSize -> Nat]
  <2> HIDE DEF byte
  <2> QED BY <1>4, <1>9
<1>11. ASSUME NEW k \in 1 .. n PROVE Right(sizes, actual, i, k, Filled(i)[k])
  <2>1. SUFFICES ASSUME There(sizes, actual, off + k - 1) PROVE Filled(i)[k] = off + k
    BY DEF Right
  <2>2. PICK f \in DOMAIN sizes : starts(sizes)[f] <= off + k - 1 /\ off + k - 1 < starts(sizes)[f] + actual[f]
    BY <2>1 DEF There
  <2>3. PICK p \in P : In(p, k)
    BY <1>1, PieceFacts DEF P
  <2>4. actual[f] <= sizes[f] /\ actual[f] \in Nat /\ sizes[f] \in Nat /\ starts(sizes)[f] \in Nat
    <3>1. f \in 1 .. Len(sizes) /\ f \in 1 .. Len(sizes) + 1
      BY StartsFacts DEF IsShared
    <3> QED BY <3>1, StartsFacts DEF IsActual, IsShared
  <2>5. p.file = f
    <3>1. off + k - 1 < starts(sizes)[f] + sizes[f]
      BY <1>5, <2>2, <2>4, SMTT(60)
    <3> QED BY <1>1, <2>2, <2>3, <3>1, PieceAt DEF P
  <2>6. /\ p.inFile \in Nat /\ p.at \in Nat /\ p.n \in Nat \ {0}
        /\ starts(sizes)[f] + p.inFile = off + p.at
    BY <1>6, <2>3, <2>5
  <2>7. p \in hit(k)
    <3>1. k \in p.at + 1 .. p.at + p.n
      BY <1>5, <2>3, <2>6 DEF In
    <3>2. p.inFile + k - 1 - p.at < actual[f]
      <4> DEFINE sf == starts(sizes)[f]
                 inF == p.inFile
                 pat == p.at
                 len == actual[f]
      <4>1. sf \in Nat /\ inF \in Nat /\ pat \in Nat /\ len \in Nat /\ off \in Nat /\ k \in Nat
            /\ sf + inF = off + pat /\ off + k - 1 < sf + len
        BY <1>5, <2>2, <2>4, <2>6
      <4> HIDE DEF off, sf, inF, pat, len
      <4>2. inF + k - 1 - pat < len
        BY <4>1
      <4> QED BY <4>2 DEF inF, pat, len
    <3> QED BY <2>3, <2>5, <3>1, <3>2
  <2>8. k \in 1 .. ChunkSize
    BY <1>5
  <2>9. byte(k) = off + k
    BY <1>8, <2>7, <2>8
  <2> HIDE DEF byte, hit
  <2> QED BY <1>4, <2>8, <2>9
<1> QED BY <1>2, <1>10, <1>11

(* WriteChunk puts each byte of a chunk in its place, and no other one.    *)
LEMMA StoredFacts ==
  ASSUME IsShared(sizes), IsActual(sizes, actual), NEW i \in Chunk, NEW data,
         \A k \in 1 .. Bytes(sizes, i) : Right(sizes, actual, i, k, data[k]),
         DOMAIN dst = DOMAIN sizes, \A f \in DOMAIN sizes : DOMAIN dst[f] = 1 .. sizes[f]
  PROVE  /\ DOMAIN Stored(i, data) = DOMAIN sizes
         /\ \A f \in DOMAIN sizes : DOMAIN Stored(i, data)[f] = 1 .. sizes[f]
         /\ \A f \in DOMAIN sizes : \A o \in 0 .. actual[f] - 1 :
              Stored(i, data)[f][o + 1] = IF (starts(sizes)[f] + o) \div ChunkSize = i
                                          THEN starts(sizes)[f] + o + 1 ELSE dst[f][o + 1]
<1>1. /\ i \in ChunksOf(sizes) /\ span(i).n = Bytes(sizes, i)
      /\ pieces(i) = segments(sizes, i * ChunkSize, Bytes(sizes, i))
  BY SpanFacts
<1>3. Range(pieces(i)) = Pieces(sizes, i)
  BY <1>1 DEF Pieces
<1> DEFINE n == Bytes(sizes, i)
           off == i * ChunkSize
           P == Pieces(sizes, i)
           hit(f, o) == {p \in P : p.file = f /\ o \in p.inFile + 1 .. p.inFile + p.n}
           the(f, o) == CHOOSE p \in hit(f, o) : TRUE
           byte(f, o) == IF hit(f, o) = {} THEN dst[f][o]
                         ELSE data[the(f, o).at + o - the(f, o).inFile]
           s == starts(sizes)
<1>4. Stored(i, data) = [f \in DOMAIN dst |-> [o \in DOMAIN dst[f] |-> byte(f, o)]]
  BY <1>3 DEF Stored
<1>5. off \in Nat /\ n \in Nat \ {0}
  BY <1>1, ChunkFacts
<1>6. \A p \in P : /\ p.file \in DOMAIN sizes /\ p.inFile \in Nat /\ p.at \in Nat /\ p.n \in Nat \ {0}
                   /\ p.inFile + p.n <= sizes[p.file] /\ p.at + p.n <= n
                   /\ s[p.file] \in Nat /\ s[p.file] + p.inFile = off + p.at
  BY <1>1, PieceOf
<1>7. \A f, o : hit(f, o) # {} => the(f, o) \in hit(f, o)
  OBVIOUS
<1>d. DOMAIN Stored(i, data) = DOMAIN sizes /\ \A f \in DOMAIN sizes : DOMAIN Stored(i, data)[f] = 1 .. sizes[f]
  <2> HIDE DEF byte
  <2> QED BY <1>4
<1>8. ASSUME NEW f \in DOMAIN sizes, NEW o \in 0 .. actual[f] - 1
      PROVE  Stored(i, data)[f][o + 1] = IF (s[f] + o) \div ChunkSize = i THEN s[f] + o + 1 ELSE dst[f][o + 1]
  <2>1. actual[f] <= sizes[f] /\ actual[f] \in Nat /\ sizes[f] \in Nat /\ s[f] \in Nat /\ s[f] + sizes[f] <= Size(sizes)
        /\ Size(sizes) \in Nat
    <3>1. f \in 1 .. Len(sizes) /\ Len(sizes) \in Nat /\ IsLayout(sizes)
      BY StartsFacts DEF IsShared
    <3>2. f \in 1 .. Len(sizes) + 1 /\ f + 1 \in 1 .. Len(sizes) + 1 /\ Len(sizes) + 1 \in 1 .. Len(sizes) + 1
          /\ f + 1 <= Len(sizes) + 1
      BY <3>1
    <3>3. s[f + 1] <= s[Len(sizes) + 1]
      BY <3>1, <3>2, StartsAscend
    <3> QED BY <3>1, <3>2, <3>3, StartsFacts DEF IsActual
  <2> DEFINE pos == s[f] + o
             k == pos - off + 1
  <2>2. o \in Nat /\ pos \in Nat /\ pos < Size(sizes) /\ s[f] <= pos /\ pos < s[f] + sizes[f] /\ pos < s[f] + actual[f]
        /\ o + 1 \in 1 .. sizes[f]
    BY <2>1
  <2>3. Stored(i, data)[f][o + 1] = byte(f, o + 1)
    <3>1. o + 1 \in DOMAIN dst[f] /\ f \in DOMAIN dst
      BY <2>2
    <3> DEFINE o1 == o + 1
    <3> HIDE DEF byte, o1
    <3>2. o1 \in DOMAIN dst[f]
      BY <3>1 DEF o1
    <3>3. Stored(i, data)[f][o1] = byte(f, o1)
      BY <1>4, <3>1, <3>2
    <3> QED BY <3>3 DEF o1
  <2>n. s[f] \in Nat /\ off \in Nat /\ n \in Nat
    BY <1>5, <2>1
  <2>4. CASE pos \div ChunkSize = i
    <3>1. off <= pos /\ pos < off + n
      BY <1>1, <2>2, <2>4, PlaceInChunk
    <3> HIDE DEF s, off, n
    <3>2. k \in 1 .. n /\ pos = off + k - 1
      <4>1. pos \in Nat /\ off <= pos /\ pos < off + n /\ off \in Nat /\ n \in Nat
        BY <1>5, <2>2, <3>1
      <4> HIDE DEF pos
      <4> QED BY <4>1
    <3>3. PICK p \in P : In(p, k)
      BY <1>1, <3>2, PieceFacts DEF n
    <3>4. p.file = f
      <4>1. s[f] <= off + k - 1 /\ off + k - 1 < s[f] + sizes[f]
        BY <2>2, <3>2
      <4> HIDE DEF k, pos
      <4> QED BY <1>1, <3>2, <3>3, <4>1, PieceAt DEF n, off, s
    <3>5. /\ p.inFile \in Nat /\ p.at \in Nat /\ p.n \in Nat \ {0} /\ s[f] + p.inFile = off + p.at
      BY <1>6, <3>3, <3>4
    <3>6. p \in hit(f, o + 1)
      <4>1. o + 1 \in p.inFile + 1 .. p.inFile + p.n
        <5> DEFINE sf == s[f]
                   inF == p.inFile
                   pat == p.at
                   m == p.n
        <5>1. /\ sf \in Nat /\ inF \in Nat /\ pat \in Nat /\ m \in Nat /\ off \in Nat /\ o \in Nat
              /\ sf + inF = off + pat /\ k = sf + o - off + 1 /\ pat < k /\ k <= pat + m
          BY <2>n, <2>2, <3>3, <3>5 DEF In
        <5> HIDE DEF sf, inF, pat, m, k
        <5>2. o + 1 \in inF + 1 .. inF + m
          BY <5>1
        <5> QED BY <5>2 DEF inF, m
      <4> HIDE DEF P
      <4> QED BY <3>3, <3>4, <4>1
    <3> DEFINE q == the(f, o + 1)
    <3>7. q \in P /\ q.file = f /\ byte(f, o + 1) = data[q.at + (o + 1) - q.inFile]
      <4>1. hit(f, o + 1) # {}
        BY <3>6
      <4>2. q \in hit(f, o + 1)
        <5> HIDE DEF hit, the
        <5> QED BY <1>7, <4>1
      <4>3. q \in P /\ q.file = f
        <5> HIDE DEF the
        <5> QED BY <4>2
      <4> HIDE DEF hit, the, P
      <4> QED BY <4>1, <4>3
    <3>8. /\ q.inFile \in Nat /\ q.at \in Nat /\ s[f] + q.inFile = off + q.at
      <4> HIDE DEF q, P
      <4> QED BY <1>6, <3>7
    <3> HIDE DEF q, byte
    <3>9. q.at + (o + 1) - q.inFile = k
      <4> DEFINE sf == s[f]
                 inF == q.inFile
                 qat == q.at
      <4>1. /\ sf \in Nat /\ inF \in Nat /\ qat \in Nat /\ off \in Nat /\ o \in Nat
            /\ sf + inF = off + qat /\ k = sf + o - off + 1
        BY <2>n, <2>2, <3>8
      <4> HIDE DEF sf, inF, qat, k
      <4>2. qat + (o + 1) - inF = k
        BY <4>1
      <4> QED BY <4>2 DEF inF, qat
    <3>10. Right(sizes, actual, i, k, data[k])
      BY <3>2 DEF n
    <3>11. There(sizes, actual, off + k - 1)
      BY <2>2, <3>2 DEF There, s
    <3>12. data[k] = off + k
      BY <3>10, <3>11 DEF Right, off
    <3>13. byte(f, o + 1) = pos + 1
      BY <1>5, <2>2, <3>2, <3>7, <3>9, <3>12
    <3> QED BY <2>3, <2>4, <3>13
  <2>5. CASE pos \div ChunkSize # i
    <3>1. hit(f, o + 1) = {}
      <4>1. SUFFICES ASSUME NEW p \in P, p.file = f, o + 1 \in p.inFile + 1 .. p.inFile + p.n PROVE FALSE
        OBVIOUS
      <4>2. /\ p.inFile \in Nat /\ p.at \in Nat /\ p.n \in Nat \ {0} /\ p.at + p.n <= n /\ s[f] + p.inFile = off + p.at
        BY <1>6, <4>1
      <4> HIDE DEF s, off, n, P
      <4>3. off <= pos /\ pos < off + n
        <5> DEFINE sf == s[f]
                   inF == p.inFile
                   pat == p.at
                   m == p.n
        <5>1. /\ sf \in Nat /\ inF \in Nat /\ pat \in Nat /\ m \in Nat /\ off \in Nat /\ o \in Nat /\ n \in Nat
              /\ sf + inF = off + pat /\ pos = sf + o /\ inF + 1 <= o + 1 /\ o + 1 <= inF + m
              /\ pat + m <= n
          BY <2>n, <2>2, <4>1, <4>2
        <5> HIDE DEF sf, inF, pat, m, pos
        <5> QED BY <5>1
      <4>4. pos \div ChunkSize = i
        <5> HIDE DEF pos
        <5> QED BY <1>1, <2>2, <4>3, PlaceInChunk DEF off, n
      <4> QED BY <2>5, <4>4
    <3>2. byte(f, o + 1) = dst[f][o + 1]
      <4> HIDE DEF hit, the
      <4> QED BY <3>1
    <3> HIDE DEF byte, hit
    <3> QED BY <2>3, <2>5, <3>2
  <2> HIDE DEF pos, byte
  <2> QED BY <2>4, <2>5 DEF pos
<1> QED BY <1>d, <1>8
-----------------------------------------------------------------------------
(* Frames and messages *)

LEMMA SendableGood ==
  ASSUME NEW f, Sendable(f)
  PROVE  Good(f)
<1>1. CASE f \in Other
  BY <1>1, OtherForms, AckGood, DoneGood, HashGood, ErrorGood, Zenon
<1>2. CASE IsData(f)
  <2>1. PICK i \in 0 .. 2 ^ 30, o \in 0 .. 2 ^ 30, p \in Seq(Nat) : Len(p) <= ChunkSize /\ f = DataFrame(i, o, p)
    BY <1>2, Zenon DEF IsData
  <2>2. i \in Nat /\ o \in Nat
    BY SMT
  <2>3. /\ Encode(f) \in Seq(Nat) /\ Len(p) \in Nat /\ Len(Encode(f)) = 13 + Len(p)
    BY <2>1, <2>2, DataBytes
  <2>4. \A b \in Seq(Nat) : b # <<>> /\ Agree(b, Encode(f)) => Read(b) = ReadAs(b, Encode(f), f)
    BY <2>1, ReadData
  <2> QED BY <2>3, <2>4 DEF Good
<1> QED BY <1>1, <1>2 DEF Sendable

LEMMA OtherFacts ==
  ASSUME NEW f \in Other
  PROVE  f.type # TData /\ Sent(f).type # TData /\ Len(Encode(f)) <= MaxMessage
<1>1. SumSize \in Nat \ {0} /\ MaxErrorMsgLen \in Nat /\ MaxMessage \in Nat
      /\ MaxMessage >= 9 + 2 * SumSize /\ MaxMessage >= 4 + MaxErrorMsgLen
  BY SumFacts, ErrorFacts, WireAssumption, PathAssumption
<1>2. CASE f = FrameOf(2, 0, 0, <<>>, 0)
  <2>1. f.type = 2
    BY <1>2 DEF FrameOf
  <2>2. Len(Encode(f)) = 1
    BY <1>2, AckGood
  <2> QED BY <1>1, <2>1, <2>2 DEF Sent, TData, TError
<1>3. CASE f = FrameOf(20, 0, 0, Sum, 0)
  <2>1. f.type = 20
    BY <1>3 DEF FrameOf
  <2>2. Len(Encode(f)) = 1 + SumSize
    BY <1>3, DoneGood
  <2> QED BY <1>1, <2>1, <2>2 DEF Sent, TData, TError
<1>4. CASE f = FrameOf(19, 1, 2, Sum \o Sum, 0)
  <2>1. f.type = 19
    BY <1>4 DEF FrameOf
  <2>2. Len(Encode(f)) = 9 + SumSize * 2
    BY <1>4, HashGood
  <2> QED BY <1>1, <2>1, <2>2 DEF Sent, TData, TError
<1>5. CASE f = FrameOf(127, 0, 0, LongError, 3)
  <2>1. f.type = 127 /\ f = [f EXCEPT !.type = 127]
    BY <1>5 DEF FrameOf
  <2>2. Len(Encode(f)) = 4 + MaxErrorMsgLen
    BY <1>5, ErrorGood
  <2>3. Sent(f) = [f EXCEPT !.payload = Truncated(@)]
    BY <2>1 DEF Sent, TError
  <2>4. Sent(f).type = 127
    BY <1>5, <2>3 DEF FrameOf
  <2> QED BY <1>1, <2>1, <2>2, <2>4 DEF TData
<1> QED BY <1>2, <1>3, <1>4, <1>5, OtherForms

(* A message is read as the frame it was made of. *)
LEMMA DecodeFacts ==
  ASSUME NEW f, Sendable(f)
  PROVE  /\ Decode(Encode(f)) = [err |-> "none", frame |-> Sent(f), rest |-> <<>>]
         /\ Encode(f) \in Seq(Nat)
<1> DEFINE e == Encode(f)
<1>1. /\ e \in Seq(Nat) /\ Len(e) \in Nat \ {0}
      /\ \A b \in Seq(Nat) : b # <<>> /\ Agree(b, e) => Read(b) = ReadAs(b, e, f)
  BY SendableGood DEF Good
<1> HIDE DEF e
<1>2. e # <<>> /\ Agree(e, e)
  BY <1>1 DEF Agree
<1>3. Read(e) = ReadAs(e, e, f)
  BY <1>1, <1>2
<1>4. SubSeq(e, Len(e) + 1, Len(e)) = <<>>
  <2>1. Len(e) + 1 \in Int /\ Len(e) \in Int /\ Len(e) < Len(e) + 1
    BY <1>1
  <2> QED BY <2>1, SubSeqEmpty
<1>5. Read(e) = [err |-> "none", frame |-> Sent(f), rest |-> <<>>]
  <2>1. ~(Len(e) < Len(e))
    BY <1>1
  <2> QED BY <1>3, <1>4, <2>1 DEF ReadAs
<1>6. Decode(e) = Read(e)
  BY <1>5 DEF Decode
<1> QED BY <1>1, <1>5, <1>6 DEF e

(* DATA g is bytes o + 1 and the following ones of p. *)
IsPart(g, i, o, q, p) ==
  /\ g = DataFrame(i, o, q) /\ o \in Nat /\ q \in Seq(Nat) /\ Len(q) \in Nat \ {0}
  /\ o + Len(q) <= Len(p) /\ 13 + Len(q) <= MaxMessage
  /\ \A k \in 1 .. Len(q) : q[k] = p[o + k]

Holds(g, k) == g.offset < k /\ k <= g.offset + Len(g.payload)

(* The parts of DATA are parts of it, one for every byte.                  *)
LEMMA SplitFacts ==
  ASSUME NEW i, NEW p \in Seq(Nat), p # <<>>
  PROVE  LET gs == Range(SplitData(DataFrame(i, 0, p)))
         IN /\ \A g \in gs : \E o, q : IsPart(g, i, o, q, p)
            /\ \A k \in 1 .. Len(p) : \E g \in gs : Holds(g, k)
            /\ \A g, h \in gs : \A k \in 1 .. Len(p) : Holds(g, k) /\ Holds(h, k) => g = h
<1> DEFINE f == DataFrame(i, 0, p)
           n == Len(p)
           per == perMessage
           gs == Range(SplitData(f))
<1>1. n \in Nat \ {0} /\ per \in Nat \ {0} /\ MaxMessage \in Nat /\ per = MaxMessage - 13
  BY EmptySeq, WireAssumption DEF perMessage, dataHeader
<1>2. f.type = TData /\ f.payload = p /\ f.offset = 0 /\ IsFrame(f)
  BY DataRecord DEF DataFrame, Frame, TData
<1>3. CASE n + 13 <= MaxMessage
  <2>1. SplitData(f) = <<f>>
    <3> HIDE DEF f
    <3> QED BY <1>2, <1>3 DEF SplitData, dataHeader
  <2>2. gs = {f}
    <3> HIDE DEF f
    <3> QED BY <2>1 DEF Range
  <2>3. IsPart(f, i, 0, p, p)
    <3> HIDE DEF f
    <3>1. f = DataFrame(i, 0, p)
      BY DEF f
    <3> HIDE DEF n
    <3>2. Len(p) = n
      BY DEF n
    <3> QED BY <1>1, <1>3, <3>1, <3>2 DEF IsPart
  <2>4. \A k \in 1 .. n : Holds(f, k)
    <3> HIDE DEF f
    <3> QED BY <1>1, <1>2 DEF Holds
  <2> HIDE DEF f, gs
  <2>5. \A g \in gs : \E o, q : IsPart(g, i, o, q, p)
    BY <2>2, <2>3
  <2>6. \A k \in 1 .. n : \E g \in gs : Holds(g, k)
    BY <2>2, <2>4
  <2>7. \A g, h \in gs : \A k \in 1 .. n : Holds(g, k) /\ Holds(h, k) => g = h
    BY <2>2
  <2> QED BY <2>5, <2>6, <2>7 DEF gs, f
<1>4. CASE ~(n + 13 <= MaxMessage)
  <2> DEFINE parts == (n + per - 1) \div per
             end(k) == IF k * per > n THEN n ELSE k * per
             from(k) == (k - 1) * per
             part(k) == [f EXCEPT !.offset = partOffset(f, from(k)), !.payload = SubSeq(p, from(k) + 1, end(k))]
  <2>1. SplitData(f) = [k \in 1 .. parts |-> part(k)]
    <3> HIDE DEF f
    <3> QED BY <1>2, <1>4 DEF SplitData, dataHeader
  <2>2. parts \in Nat /\ parts * per <= n + per - 1 /\ n + per - 1 < parts * per + per
    <3>1. n + per - 1 \in Nat
      BY <1>1
    <3> HIDE DEF n, per
    <3> QED BY <1>1, <3>1, Quotient
  <2>3. gs = {part(k) : k \in 1 .. parts}
    <3> HIDE DEF part, parts, f
    <3> QED BY <2>1 DEF Range
  <2> HIDE DEF parts, n, per
  <2>4. ASSUME NEW k \in 1 .. parts
        PROVE  /\ from(k) \in Nat /\ from(k) < n /\ end(k) \in Nat /\ from(k) < end(k) /\ end(k) <= n
               /\ end(k) <= from(k) + per /\ (end(k) = n \/ end(k) = from(k) + per)
               /\ end(k) <= n /\ k * per = from(k) + per
    <3>1. k \in Nat /\ k - 1 \in Nat /\ k <= parts
      BY <2>2
    <3>2. k * per <= parts * per /\ k * per \in Nat /\ from(k) \in Nat /\ parts * per \in Nat
      BY <1>1, <2>2, <3>1, Times, SMT
    <3>3. k * per = from(k) + per
      BY <1>1, <3>1, SMT
    <3> HIDE DEF from
    <3>4. from(k) < n
      BY <1>1, <2>2, <3>2, <3>3
    <3> QED BY <1>1, <3>2, <3>3, <3>4
  <2>5. ASSUME NEW k \in 1 .. parts
        PROVE  /\ IsPart(part(k), i, from(k), SubSeq(p, from(k) + 1, end(k)), p)
               /\ Len(SubSeq(p, from(k) + 1, end(k))) = end(k) - from(k)
    <3> DEFINE a == from(k)
               b == end(k)
               q == SubSeq(p, a + 1, b)
    <3>1. a \in Nat /\ b \in Nat /\ a < b /\ b <= n /\ b <= a + per
      BY <1>1, <2>4
    <3> HIDE DEF a, b
    <3>2. /\ q \in Seq(Nat) /\ Len(q) = (IF a + 1 <= b THEN b - (a + 1) + 1 ELSE 0)
          /\ \A j \in 1 .. b - (a + 1) + 1 : q[j] = p[(a + 1) + j - 1]
      <4>1. \A j \in a + 1 .. b : p[j] \in Nat
        <5>1. a + 1 .. b \subseteq 1 .. Len(p)
          BY <1>1, <3>1 DEF n
        <5> QED BY <5>1, ElementOfSeq
      <4>2. a + 1 \in Int /\ b \in Int
        BY <3>1
      <4> QED BY <4>1, <4>2, SubSeqProperties
    <3> HIDE DEF q
    <3>3. Len(q) = b - a
      BY <3>1, <3>2
    <3>4. \A j \in 1 .. Len(q) : q[j] = p[a + j]
      <4> SUFFICES ASSUME NEW j \in 1 .. Len(q) PROVE q[j] = p[a + j]
        OBVIOUS
      <4>1. j \in 1 .. b - (a + 1) + 1 /\ (a + 1) + j - 1 = a + j
        BY <3>1, <3>3
      <4> QED BY <3>2, <4>1
    <3>5. part(k) = DataFrame(i, a, q)
      <4> DEFINE d == part(k)
                 r == DataFrame(i, a, q)
      <4>1. IsFrame(d) /\ IsFrame(r)
        BY DEF IsFrame, Fields, DataFrame, Frame
      <4>2. /\ d.type = TData /\ d.first = 0 /\ d.count = 0 /\ d.index = i /\ d.offset = partOffset(f, a)
            /\ d.payload = q /\ d.code = 0
        BY DEF DataFrame, Frame, q, a, b
      <4>3. /\ r.type = TData /\ r.first = 0 /\ r.count = 0 /\ r.index = i /\ r.offset = a
            /\ r.payload = q /\ r.code = 0
        BY DEF DataFrame, Frame
      <4>4. partOffset(f, a) = a
        <5> HIDE DEF f
        <5> QED BY <1>2, <3>1 DEF partOffset
      <4> HIDE DEF d, r
      <4>5. d = r
        BY <4>1, <4>2, <4>3, <4>4, FramesEqual
      <4> QED BY <4>5 DEF d, r
    <3>6. Len(q) \in Nat \ {0} /\ a + Len(q) <= Len(p) /\ 13 + Len(q) <= MaxMessage
      <4>1. Len(p) = n
        BY DEF n
      <4>2. Len(q) <= per
        BY <1>1, <3>1, <3>3
      <4> QED BY <1>1, <3>1, <3>3, <4>1, <4>2
    <3>7. IsPart(part(k), i, a, q, p)
      <4> HIDE DEF part
      <4> QED BY <3>1, <3>2, <3>4, <3>5, <3>6 DEF IsPart
    <3> HIDE DEF part
    <3> QED BY <3>3, <3>7 DEF q, a, b
  <2>6. ASSUME NEW k \in 1 .. parts, NEW j \in 1 .. n
        PROVE  Holds(part(k), j) <=> from(k) < j /\ j <= end(k)
    <3> DEFINE q == SubSeq(p, from(k) + 1, end(k))
    <3>1. part(k) = DataFrame(i, from(k), q) /\ Len(q) = end(k) - from(k)
      <4> HIDE DEF part, from, end
      <4> QED BY <2>5 DEF IsPart
    <3>2. part(k).offset = from(k) /\ part(k).payload = q
      <4> HIDE DEF part, from, q, end
      <4> QED BY <3>1 DEF DataFrame, Frame
    <3>3. from(k) \in Nat /\ end(k) \in Nat
      BY <2>4
    <3> HIDE DEF part, from, q, end
    <3>4. from(k) + Len(q) = end(k)
      BY <3>1, <3>3
    <3> QED BY <3>2, <3>4 DEF Holds
  <2>7. ASSUME NEW j \in 1 .. n PROVE \E k \in 1 .. parts : Holds(part(k), j)
    <3> DEFINE k == ((j - 1) \div per) + 1
               r == (j - 1) \div per
    <3>1. r \in Nat /\ r * per <= j - 1 /\ j - 1 < r * per + per
      <4>1. j - 1 \in Nat
        BY <1>1
      <4> QED BY <1>1, <4>1, Quotient
    <3>2. k = r + 1
      OBVIOUS
    <3> HIDE DEF r, k
    <3>3. k \in 1 .. parts
      <4>1. ~(parts + 1 <= k)
        <5>1. SUFFICES ASSUME parts + 1 <= k PROVE FALSE
          OBVIOUS
        <5>2. parts <= r /\ parts \in Int /\ r \in Int /\ per \in Nat
          BY <1>1, <2>2, <3>1, <3>2, <5>1
        <5>3. parts * per <= r * per
          BY <5>2, Times
        <5>4. parts * per \in Nat /\ r * per \in Nat
          BY <1>1, <2>2, <3>1, SMT
        <5> QED BY <1>1, <2>2, <3>1, <5>3, <5>4
      <4> QED BY <2>2, <3>1, <3>2, <4>1
    <3>4. from(k) = r * per
      <4>1. k - 1 = r
        BY <3>1, <3>2
      <4> QED BY <4>1
    <3>5. from(k) < j /\ j <= end(k)
      <4>1. /\ from(k) \in Nat /\ end(k) \in Nat
            /\ end(k) = n \/ end(k) = from(k) + per
        BY <2>4, <3>3
      <4>2. r * per \in Nat
        BY <1>1, <3>1, SMT
      <4> HIDE DEF from, end
      <4> QED BY <1>1, <3>1, <3>4, <4>1, <4>2
    <3> HIDE DEF part, from, end
    <3> QED BY <2>6, <3>3, <3>5
  <2>8. ASSUME NEW k \in 1 .. parts, NEW l \in 1 .. parts, NEW j \in 1 .. n, Holds(part(k), j), Holds(part(l), j)
        PROVE  k = l
    <3>1. from(k) < j /\ j <= end(k) /\ from(l) < j /\ j <= end(l)
      <4> HIDE DEF part, from, end
      <4> QED BY <2>6, <2>8
    <3>2. ASSUME NEW a \in 1 .. parts, NEW b \in 1 .. parts, a < b, from(b) < j, j <= end(a) PROVE FALSE
      <4>1. end(a) <= from(a) + per /\ from(a) + per = a * per /\ end(a) \in Nat /\ from(b) \in Nat
        BY <2>4
      <4>2. a * per <= (b - 1) * per /\ a * per \in Nat
        <5>1. a \in Nat /\ b - 1 \in Int /\ a <= b - 1 /\ per \in Nat
          BY <1>1, <2>2, <3>2
        <5>2. a * per \in Nat
          BY <5>1, SMT
        <5> QED BY <5>1, <5>2, Times
      <4>3. from(b) = (b - 1) * per
        OBVIOUS
      <4> HIDE DEF from, end
      <4> QED BY <1>1, <3>2, <4>1, <4>2, <4>3
    <3>3. ~(k < l) /\ ~(l < k)
      <4> HIDE DEF from, end
      <4> QED BY <3>1, <3>2
    <3> QED BY <2>2, <3>3
  <2>9. \A g \in gs : \E o, q : IsPart(g, i, o, q, p)
    <3> HIDE DEF part, gs
    <3> QED BY <2>3, <2>5
  <2>10. \A j \in 1 .. n : \E g \in gs : Holds(g, j)
    <3> HIDE DEF part, gs
    <3> QED BY <2>3, <2>7
  <2>11. \A g, h \in gs : \A j \in 1 .. n : Holds(g, j) /\ Holds(h, j) => g = h
    <3> HIDE DEF part, gs
    <3> QED BY <2>3, <2>8
  <2> QED BY <2>9, <2>10, <2>11 DEF n
<1> QED BY <1>3, <1>4
-----------------------------------------------------------------------------
(* What is on a stream *)

(* DATA with a whole chunk in it, as the files hold it. *)
IsWhole(z, a, f) ==
  \E i \in ChunksOf(z) : \E p \in Seq(Nat) :
    f = DataFrame(i, 0, p) /\ Len(p) = Bytes(z, i) /\ \A k \in 1 .. Len(p) : Right(z, a, i, k, p[k])
Whole(z, a, f) == IsWhole(z, a, f) \/ f \in Other

Before(f) == IF f \in Other THEN 1 ELSE 0

(* The bytes b are those of the m frames fs, of which frame k begins behind*)
(* at[k] bytes, and behind cn[k] frames of what was said, sd; hn of those  *)
(* were heard.  A stream of carrier c = "lost" may end before they do.     *)
InFlight(z, a, c, b, sd, hn, m, fs, at, cn) ==
  /\ m \in Nat /\ at \in [1 .. m + 1 -> Nat] /\ cn \in [1 .. m + 1 -> Nat]
  /\ at[1] = 0 /\ cn[1] = hn /\ Len(b) <= at[m + 1]
  /\ c = "stream" => Len(b) = at[m + 1] /\ Len(sd) = cn[m + 1]
  /\ \A j, k \in 1 .. m + 1 : j <= k => at[j] <= at[k]
  /\ \A k \in 1 .. m :
       /\ Whole(z, a, fs[k])
       /\ at[k + 1] = at[k] + Len(Encode(fs[k])) /\ cn[k + 1] = cn[k] + Before(fs[k])
       /\ fs[k] \in Other => cn[k] + 1 <= Len(sd) /\ fs[k] = sd[cn[k] + 1]
       /\ \A j \in 1 .. Len(Encode(fs[k])) :
            at[k] + j <= Len(b) => b[at[k] + j] = Encode(fs[k])[j]
Flying(z, a, c, b, sd, hn) == \E m, fs, at, cn : InFlight(z, a, c, b, sd, hn, m, fs, at, cn)

LEMMA WholeFacts ==
  ASSUME NEW z, IsShared(z), NEW a, NEW f, Whole(z, a, f)
  PROVE  /\ Sendable(f) /\ Encode(f) \in Seq(Nat) /\ Len(Encode(f)) \in Nat \ {0} /\ Before(f) \in {0, 1}
         /\ IsWhole(z, a, f) => f.type = TData /\ Sent(f) = f /\ f \notin Other
<1>1. ASSUME IsWhole(z, a, f) PROVE IsData(f) /\ f.type = TData /\ Sent(f) = f /\ f \notin Other
  <2>1. PICK i \in ChunksOf(z), p \in Seq(Nat) : f = DataFrame(i, 0, p) /\ Len(p) = Bytes(z, i)
    BY <1>1 DEF IsWhole
  <2>2. i \in 0 .. 2 ^ 30 /\ Len(p) <= ChunkSize
    BY <2>1, ChunkFacts
  <2>3. 0 \in 0 .. 2 ^ 30
    BY SMT
  <2>4. IsData(f)
    BY <2>1, <2>2, <2>3, Zenon DEF IsData
  <2>5. f.type = TData
    BY <2>1 DEF DataFrame, Frame
  <2>6. Sent(f) = f
    BY <2>5 DEF Sent, TData, TError
  <2> QED BY <2>4, <2>5, <2>6, OtherFacts
<1>2. Sendable(f)
  BY <1>1 DEF Whole, Sendable
<1> QED BY <1>1, <1>2, SendableGood DEF Good, Before

(* A frame is written behind the others. *)
LEMMA FlyingMore ==
  ASSUME NEW z, IsShared(z), NEW a, NEW b \in Seq(Nat), NEW sd \in Seq(Other), NEW hn \in Nat,
         Flying(z, a, "stream", b, sd, hn), NEW f, Whole(z, a, f), NEW sd2 \in Seq(Other),
         f \in Other => sd2 = Append(sd, f), f \notin Other => sd2 = sd
  PROVE  b \o Encode(f) \in Seq(Nat) /\ Flying(z, a, "stream", b \o Encode(f), sd2, hn)
<1> DEFINE e == Encode(f)
           b2 == b \o e
<1>1. PICK m, fs, at, cn : InFlight(z, a, "stream", b, sd, hn, m, fs, at, cn)
  BY DEF Flying
<1>2. e \in Seq(Nat) /\ Len(e) \in Nat \ {0} /\ Before(f) \in {0, 1}
  BY WholeFacts
<1>3. /\ b2 \in Seq(Nat) /\ Len(b) \in Nat /\ Len(b2) = Len(b) + Len(e)
      /\ \A k \in 1 .. Len(b) : b2[k] = b[k]
      /\ \A k \in 1 .. Len(e) : b2[Len(b) + k] = e[k]
  BY <1>2, Cat
<1>4. /\ Len(sd) \in Nat /\ Len(sd2) = Len(sd) + Before(f) /\ \A k \in 1 .. Len(sd) : sd2[k] = sd[k]
      /\ f \in Other => sd2[Len(sd) + 1] = f
  <2>1. CASE f \in Other
    <3>1. sd2 = Append(sd, f) /\ Before(f) = 1
      BY <2>1 DEF Before
    <3>2. /\ Len(Append(sd, f)) = Len(sd) + 1 /\ Append(sd, f)[Len(sd) + 1] = f
          /\ \A k \in 1 .. Len(sd) : Append(sd, f)[k] = sd[k]
      BY <2>1, AppendProperties
    <3>3. Len(sd) \in Nat
      OBVIOUS
    <3> QED BY <3>1, <3>2, <3>3
  <2>2. CASE f \notin Other
    BY <2>2 DEF Before
  <2> QED BY <2>1, <2>2
<1>5. /\ m \in Nat /\ at \in [1 .. m + 1 -> Nat] /\ cn \in [1 .. m + 1 -> Nat]
      /\ at[1] = 0 /\ cn[1] = hn /\ Len(b) = at[m + 1] /\ Len(sd) = cn[m + 1]
      /\ \A j, k \in 1 .. m + 1 : j <= k => at[j] <= at[k]
  BY <1>1 DEF InFlight
<1>6. \A k \in 1 .. m :
        /\ Whole(z, a, fs[k])
        /\ at[k + 1] = at[k] + Len(Encode(fs[k])) /\ cn[k + 1] = cn[k] + Before(fs[k])
        /\ fs[k] \in Other => cn[k] + 1 <= Len(sd) /\ fs[k] = sd[cn[k] + 1]
        /\ \A j \in 1 .. Len(Encode(fs[k])) :
             at[k] + j <= Len(b) => b[at[k] + j] = Encode(fs[k])[j]
  BY <1>1, Zenon DEF InFlight
<1> DEFINE fs2 == [k \in 1 .. m + 1 |-> IF k = m + 1 THEN f ELSE fs[k]]
           at2 == [k \in 1 .. m + 2 |-> IF k = m + 2 THEN Len(b2) ELSE at[k]]
           cn2 == [k \in 1 .. m + 2 |-> IF k = m + 2 THEN Len(sd2) ELSE cn[k]]
<1>7. /\ at2 \in [1 .. m + 2 -> Nat] /\ cn2 \in [1 .. m + 2 -> Nat]
      /\ at2[m + 2] = Len(b2) /\ cn2[m + 2] = Len(sd2)
      /\ \A k \in 1 .. m + 1 : at2[k] = at[k] /\ cn2[k] = cn[k]
      /\ fs2[m + 1] = f /\ \A k \in 1 .. m : fs2[k] = fs[k]
  <2> HIDE DEF b2, e
  <2>1. Len(b2) \in Nat /\ Len(sd2) \in Nat
    BY <1>2, <1>3, <1>4
  <2> QED BY <1>5, <2>1
<1> HIDE DEF fs2, at2, cn2, b2, e
<1>8. \A j, k \in 1 .. m + 2 : j <= k => at2[j] <= at2[k]
  <2> SUFFICES ASSUME NEW j \in 1 .. m + 2, NEW k \in 1 .. m + 2, j <= k PROVE at2[j] <= at2[k]
    OBVIOUS
  <2>1. CASE k # m + 2
    <3>1. j \in 1 .. m + 1 /\ k \in 1 .. m + 1
      BY <1>5, <2>1
    <3> QED BY <1>5, <1>7, <3>1
  <2>2. CASE k = m + 2 /\ j # m + 2
    <3>1. j \in 1 .. m + 1 /\ m + 1 \in 1 .. m + 1 /\ j <= m + 1
      BY <1>5, <2>2
    <3>2. at[j] <= at[m + 1] /\ at[j] \in Nat /\ at2[j] = at[j]
      BY <1>5, <1>7, <3>1
    <3> QED BY <1>2, <1>3, <1>5, <1>7, <2>2, <3>2
  <2>3. CASE k = m + 2 /\ j = m + 2
    BY <1>2, <1>3, <1>7, <2>3
  <2> QED BY <2>1, <2>2, <2>3
<1>9. ASSUME NEW k \in 1 .. m + 1
      PROVE  /\ Whole(z, a, fs2[k])
             /\ at2[k + 1] = at2[k] + Len(Encode(fs2[k])) /\ cn2[k + 1] = cn2[k] + Before(fs2[k])
             /\ fs2[k] \in Other => cn2[k] + 1 <= Len(sd2) /\ fs2[k] = sd2[cn2[k] + 1]
             /\ \A j \in 1 .. Len(Encode(fs2[k])) :
                  at2[k] + j <= Len(b2) => b2[at2[k] + j] = Encode(fs2[k])[j]
  <2>1. CASE k = m + 1
    <3>1. fs2[k] = f /\ at2[k] = Len(b) /\ cn2[k] = Len(sd) /\ k + 1 = m + 2
      BY <1>5, <1>7, <2>1
    <3>2. at2[k + 1] = Len(b) + Len(e) /\ cn2[k + 1] = Len(sd) + Before(f)
      BY <1>3, <1>4, <1>7, <3>1
    <3>3. f \in Other => Len(sd) + 1 <= Len(sd2) /\ f = sd2[Len(sd) + 1]
      BY <1>4 DEF Before
    <3> QED BY <1>3, <3>1, <3>2, <3>3 DEF e
  <2>2. CASE k # m + 1
    <3>1. k \in 1 .. m /\ k + 1 \in 1 .. m + 1 /\ m + 1 \in 1 .. m + 1 /\ k + 1 <= m + 1
      BY <1>5, <2>2
    <3>2. fs2[k] = fs[k] /\ at2[k] = at[k] /\ at2[k + 1] = at[k + 1] /\ cn2[k] = cn[k] /\ cn2[k + 1] = cn[k + 1]
          /\ at[k] \in Nat /\ at[k + 1] \in Nat /\ at[k + 1] <= Len(b) /\ cn[k] \in Nat
      BY <1>5, <1>7, <3>1
    <3>3. fs[k] \in Other => cn[k] + 1 <= Len(sd2) /\ fs[k] = sd2[cn[k] + 1]
      <4>1. ASSUME fs[k] \in Other PROVE cn[k] + 1 \in 1 .. Len(sd) /\ fs[k] = sd[cn[k] + 1]
        BY <1>4, <1>6, <3>1, <3>2, <4>1, SMTT(60)
      <4>2. Len(sd) <= Len(sd2)
        BY <1>2, <1>4
      <4> QED BY <1>2, <1>4, <4>1, <4>2
    <3>4. ASSUME NEW j \in 1 .. Len(Encode(fs[k])) PROVE b2[at[k] + j] = Encode(fs[k])[j]
      <4>1. Len(Encode(fs[k])) \in Nat
        BY <1>6, <3>1, WholeFacts
      <4>2. at[k + 1] = at[k] + Len(Encode(fs[k]))
        BY <1>6, <3>1
      <4>3. at[k] + j \in 1 .. Len(b)
        <5> DEFINE x == at[k]
                   y == at[k + 1]
                   l == Len(Encode(fs[k]))
        <5>1. x \in Nat /\ y \in Nat /\ l \in Nat /\ y = x + l /\ y <= Len(b) /\ Len(b) \in Nat /\ j \in 1 .. l
          BY <1>3, <3>2, <4>1, <4>2
        <5> HIDE DEF x, y, l
        <5>2. x + j \in 1 .. Len(b)
          BY <5>1
        <5> QED BY <5>2 DEF x
      <4>4. b[at[k] + j] = Encode(fs[k])[j]
        BY <1>3, <1>6, <3>1, <4>3
      <4> QED BY <1>3, <4>3, <4>4
    <3> QED BY <1>6, <3>1, <3>2, <3>3, <3>4
  <2> QED BY <2>1, <2>2
<1>10. InFlight(z, a, "stream", b2, sd2, hn, m + 1, fs2, at2, cn2)
  <2>1. m + 1 \in Nat /\ (m + 1) + 1 = m + 2 /\ 1 \in 1 .. m + 1
    BY <1>5
  <2>2. at2[1] = 0 /\ cn2[1] = hn
    BY <1>5, <1>7, <2>1
  <2>3. Len(b2) <= at2[m + 2]
    BY <1>2, <1>3, <1>7
  <2> QED BY <1>7, <1>8, <1>9, <2>1, <2>2, <2>3 DEF InFlight
<1> QED BY <1>3, <1>10 DEF Flying, b2, e

(* The stream is cut. *)
LEMMA FlyingLess ==
  ASSUME NEW z, IsShared(z), NEW a, NEW c, NEW b \in Seq(Nat), NEW sd \in Seq(Other), NEW hn \in Nat,
         Flying(z, a, c, b, sd, hn), NEW n \in 0 .. Len(b)
  PROVE  SubSeq(b, 1, n) \in Seq(Nat) /\ Flying(z, a, "lost", SubSeq(b, 1, n), sd, hn)
<1> DEFINE b2 == SubSeq(b, 1, n)
<1>1. PICK m, fs, at, cn : InFlight(z, a, c, b, sd, hn, m, fs, at, cn)
  BY DEF Flying
<1>2. Len(b) \in Nat /\ n \in Nat /\ n <= Len(b)
  OBVIOUS
<1>3. b2 \in Seq(Nat) /\ Len(b2) = n /\ \A k \in 1 .. n : b2[k] = b[k]
  <2>1. \A k \in 1 .. n : b[k] \in Nat
    BY <1>2, ElementOfSeq
  <2>2. 1 \in Int /\ n \in Int
    BY <1>2
  <2>3. /\ b2 \in Seq(Nat) /\ Len(b2) = (IF 1 <= n THEN n - 1 + 1 ELSE 0)
        /\ \A k \in 1 .. n - 1 + 1 : b2[k] = b[1 + k - 1]
    BY <2>1, <2>2, SubSeqProperties
  <2> HIDE DEF b2
  <2>4. ASSUME NEW k \in 1 .. n PROVE b2[k] = b[k]
    <3>1. k \in 1 .. n - 1 + 1 /\ 1 + k - 1 = k
      BY <1>2
    <3> QED BY <2>3, <3>1
  <2> QED BY <1>2, <2>3, <2>4
<1> HIDE DEF b2
<1>4. /\ m \in Nat /\ at \in [1 .. m + 1 -> Nat] /\ cn \in [1 .. m + 1 -> Nat]
      /\ at[1] = 0 /\ cn[1] = hn /\ Len(b) <= at[m + 1]
      /\ \A j, k \in 1 .. m + 1 : j <= k => at[j] <= at[k]
  BY <1>1 DEF InFlight
<1>5. \A k \in 1 .. m :
        /\ Whole(z, a, fs[k])
        /\ at[k + 1] = at[k] + Len(Encode(fs[k])) /\ cn[k + 1] = cn[k] + Before(fs[k])
        /\ fs[k] \in Other => cn[k] + 1 <= Len(sd) /\ fs[k] = sd[cn[k] + 1]
        /\ \A j \in 1 .. Len(Encode(fs[k])) :
             at[k] + j <= Len(b) => b[at[k] + j] = Encode(fs[k])[j]
  BY <1>1, Zenon DEF InFlight
<1>6. Len(b2) <= at[m + 1]
  <2>1. m + 1 \in 1 .. m + 1
    BY <1>4
  <2>2. at[m + 1] \in Nat
    BY <1>4, <2>1
  <2> QED BY <1>2, <1>3, <1>4, <2>2
<1>7. ASSUME NEW k \in 1 .. m, NEW j \in 1 .. Len(Encode(fs[k])), at[k] + j <= Len(b2)
      PROVE  b2[at[k] + j] = Encode(fs[k])[j]
  <2>1. Len(Encode(fs[k])) \in Nat
    BY <1>5, WholeFacts
  <2>2. k \in 1 .. m + 1
    BY <1>4
  <2>3. at[k] \in Nat
    BY <1>4, <2>2
  <2>4. at[k] + j \in 1 .. n /\ at[k] + j <= Len(b)
    <3> DEFINE x == at[k]
               l == Len(Encode(fs[k]))
    <3>1. x \in Nat /\ l \in Nat /\ j \in 1 .. l /\ x + j <= n
      BY <1>3, <1>7, <2>1, <2>3
    <3> HIDE DEF x, l
    <3>2. x + j \in 1 .. n /\ x + j <= Len(b)
      BY <1>2, <3>1
    <3> QED BY <3>2 DEF x
  <2> QED BY <1>3, <1>5, <2>4
<1>8. "lost" # "stream"
  OBVIOUS
<1>9. InFlight(z, a, "lost", b2, sd, hn, m, fs, at, cn)
  BY <1>4, <1>5, <1>6, <1>7, <1>8 DEF InFlight
<1> QED BY <1>3, <1>9 DEF Flying, b2

(* A frame is read, unless the stream was cut in the middle of it. *)
LEMMA FlyingRead ==
  ASSUME NEW z, IsShared(z), NEW a, NEW c, NEW b \in Seq(Nat), NEW sd \in Seq(Other), NEW hn \in Nat,
         Flying(z, a, c, b, sd, hn), b # <<>>
  PROVE  \/ c # "stream" /\ Read(b) = Failed("eof")
         \/ \E f, b2 : /\ Whole(z, a, f) /\ Read(b) = [err |-> "none", frame |-> Sent(f), rest |-> b2]
                       /\ b2 \in Seq(Nat)
                       /\ f \in Other => hn + 1 <= Len(sd) /\ f = sd[hn + 1]
                       /\ Flying(z, a, c, b2, sd, hn + Before(f))
<1>1. PICK m, fs, at, cn : InFlight(z, a, c, b, sd, hn, m, fs, at, cn)
  BY DEF Flying
<1>2. Len(b) \in Nat \ {0}
  BY EmptySeq
<1>4. /\ m \in Nat /\ at \in [1 .. m + 1 -> Nat] /\ cn \in [1 .. m + 1 -> Nat]
      /\ at[1] = 0 /\ cn[1] = hn /\ Len(b) <= at[m + 1]
      /\ c = "stream" => Len(b) = at[m + 1] /\ Len(sd) = cn[m + 1]
      /\ \A j, k \in 1 .. m + 1 : j <= k => at[j] <= at[k]
  BY <1>1 DEF InFlight
<1>5. \A k \in 1 .. m :
        /\ Whole(z, a, fs[k])
        /\ at[k + 1] = at[k] + Len(Encode(fs[k])) /\ cn[k + 1] = cn[k] + Before(fs[k])
        /\ fs[k] \in Other => cn[k] + 1 <= Len(sd) /\ fs[k] = sd[cn[k] + 1]
        /\ \A j \in 1 .. Len(Encode(fs[k])) :
             at[k] + j <= Len(b) => b[at[k] + j] = Encode(fs[k])[j]
  BY <1>1, Zenon DEF InFlight
<1>6. m # 0
  <2>1. m = 0 => at[m + 1] = 0
    BY <1>4
  <2> QED BY <1>2, <1>4, <2>1
<1> DEFINE f == fs[1]
           e == Encode(f)
           l == Len(e)
           b2 == SubSeq(b, l + 1, Len(b))
<1>7. 1 \in 1 .. m /\ 1 \in 1 .. m + 1 /\ 2 \in 1 .. m + 1 /\ m + 1 \in 1 .. m + 1 /\ 1 + 1 = 2
  BY <1>4, <1>6
<1>8. Whole(z, a, f) /\ at[2] = l /\ cn[2] = hn + Before(f)
      /\ (f \in Other => hn + 1 <= Len(sd) /\ f = sd[hn + 1])
      /\ e \in Seq(Nat) /\ l \in Nat \ {0} /\ Before(f) \in {0, 1}
  <2>1. Whole(z, a, f) /\ at[1 + 1] = at[1] + l /\ cn[1 + 1] = cn[1] + Before(f)
        /\ (f \in Other => cn[1] + 1 <= Len(sd) /\ f = sd[cn[1] + 1])
    BY <1>5, <1>7
  <2>2. e \in Seq(Nat) /\ l \in Nat \ {0} /\ Before(f) \in {0, 1}
    <3> HIDE DEF f
    <3> QED BY <2>1, WholeFacts
  <2> HIDE DEF f, l, e
  <2> QED BY <1>4, <1>7, <2>1, <2>2
<1>9. Agree(b, e)
  <2>1. ASSUME NEW j \in 1 .. l, j <= Len(b) PROVE b[j] = e[j]
    <3>1. at[1] + j = j
      BY <1>4, <1>8
    <3> QED BY <1>5, <1>7, <2>1, <3>1
  <2> QED BY <2>1 DEF Agree
<1>10. Read(b) = ReadAs(b, e, f)
  <2>1. Good(f)
    <3> HIDE DEF f
    <3> QED BY <1>8, WholeFacts, SendableGood
  <2> HIDE DEF f
  <2> QED BY <1>9, <2>1 DEF Good
<1> HIDE DEF f, e, l
<1>11. CASE Len(b) < l
  <2>1. Read(b) = Failed("eof")
    BY <1>10, <1>11 DEF ReadAs, l
  <2>2. c # "stream"
    <3>1. SUFFICES ASSUME c = "stream" PROVE FALSE
      OBVIOUS
    <3>2. 2 <= m + 1
      BY <1>4, <1>6
    <3>3. at[2] <= at[m + 1] /\ Len(b) = at[m + 1]
      BY <1>4, <1>7, <3>1, <3>2
    <3> QED BY <1>2, <1>8, <1>11, <3>3
  <2> QED BY <2>1, <2>2
<1>12. CASE ~(Len(b) < l)
  <2>1. Read(b) = [err |-> "none", frame |-> Sent(f), rest |-> b2]
    BY <1>10, <1>12 DEF ReadAs, l
  <2>2. b2 \in Seq(Nat) /\ Len(b2) = Len(b) - l /\ \A k \in 1 .. Len(b) - l : b2[k] = b[l + k]
    <3>1. \A k \in l + 1 .. Len(b) : b[k] \in Nat
      <4>1. l + 1 .. Len(b) \subseteq 1 .. Len(b)
        BY <1>2, <1>8
      <4> QED BY <4>1, ElementOfSeq
    <3>2. l + 1 \in Int /\ Len(b) \in Int
      BY <1>2, <1>8
    <3>3. /\ b2 \in Seq(Nat) /\ Len(b2) = (IF l + 1 <= Len(b) THEN Len(b) - (l + 1) + 1 ELSE 0)
          /\ \A k \in 1 .. Len(b) - (l + 1) + 1 : b2[k] = b[(l + 1) + k - 1]
      BY <3>1, <3>2, SubSeqProperties
    <3> HIDE DEF b2
    <3>4. Len(b2) = Len(b) - l
      BY <1>2, <1>8, <1>12, <3>3
    <3>5. ASSUME NEW k \in 1 .. Len(b) - l PROVE b2[k] = b[l + k]
      <4>1. k \in 1 .. Len(b) - (l + 1) + 1 /\ (l + 1) + k - 1 = l + k
        BY <1>2, <1>8
      <4> QED BY <3>3, <4>1
    <3> QED BY <3>3, <3>4, <3>5
  <2> HIDE DEF b2
  <2> DEFINE m2 == m - 1
             fs2 == [k \in 1 .. m2 |-> fs[k + 1]]
             at2 == [k \in 1 .. m |-> at[k + 1] - l]
             cn2 == [k \in 1 .. m |-> cn[k + 1]]
  <2>3. m2 \in Nat /\ m2 + 1 = m
    BY <1>4, <1>6
  <2>4. \A k \in 1 .. m : k + 1 \in 1 .. m + 1 /\ at[k + 1] \in Nat /\ at[k + 1] - l \in Nat /\ cn[k + 1] \in Nat
    <3> SUFFICES ASSUME NEW k \in 1 .. m
                 PROVE  k + 1 \in 1 .. m + 1 /\ at[k + 1] \in Nat /\ at[k + 1] - l \in Nat /\ cn[k + 1] \in Nat
      OBVIOUS
    <3>1. k + 1 \in 1 .. m + 1 /\ 2 <= k + 1
      BY <1>4
    <3>2. at[2] <= at[k + 1] /\ at[k + 1] \in Nat /\ cn[k + 1] \in Nat
      BY <1>4, <1>7, <3>1
    <3> QED BY <1>8, <3>1, <3>2
  <2>5. at2 \in [1 .. m -> Nat] /\ cn2 \in [1 .. m -> Nat]
        /\ \A k \in 1 .. m : at2[k] = at[k + 1] - l /\ cn2[k] = cn[k + 1]
    BY <2>4
  <2>6. \A k \in 1 .. m2 : fs2[k] = fs[k + 1]
    OBVIOUS
  <2> HIDE DEF m2, fs2, at2, cn2
  <2>7. \A j, k \in 1 .. m : j <= k => at2[j] <= at2[k]
    <3> SUFFICES ASSUME NEW j \in 1 .. m, NEW k \in 1 .. m, j <= k PROVE at2[j] <= at2[k]
      OBVIOUS
    <3>1. j + 1 \in 1 .. m + 1 /\ k + 1 \in 1 .. m + 1 /\ j + 1 <= k + 1
      BY <1>4
    <3>2. at[j + 1] <= at[k + 1]
      BY <1>4, <3>1
    <3>3. at[j + 1] \in Nat /\ at[k + 1] \in Nat /\ at2[j] = at[j + 1] - l /\ at2[k] = at[k + 1] - l
      BY <2>4, <2>5
    <3> QED BY <1>8, <3>2, <3>3, SMTT(60)
  <2>8. ASSUME NEW k \in 1 .. m2
        PROVE  /\ Whole(z, a, fs2[k])
               /\ at2[k + 1] = at2[k] + Len(Encode(fs2[k])) /\ cn2[k + 1] = cn2[k] + Before(fs2[k])
               /\ fs2[k] \in Other => cn2[k] + 1 <= Len(sd) /\ fs2[k] = sd[cn2[k] + 1]
               /\ \A j \in 1 .. Len(Encode(fs2[k])) :
                    at2[k] + j <= Len(b2) => b2[at2[k] + j] = Encode(fs2[k])[j]
    <3> DEFINE k1 == k + 1
    <3>1. k1 \in 1 .. m /\ k \in 1 .. m /\ k + 1 \in 1 .. m
      BY <1>4, <2>3
    <3>2. /\ fs2[k] = fs[k1] /\ at2[k] = at[k1] - l /\ cn2[k] = cn[k1] /\ at2[k1] = at[k1 + 1] - l
          /\ cn2[k1] = cn[k1 + 1]
      BY <2>5, <2>6, <3>1
    <3>3. at[k1] \in Nat /\ at[k1 + 1] \in Nat /\ cn[k1] \in Nat /\ at[k1] - l \in Nat
      BY <2>4, <3>1
    <3> HIDE DEF k1
    <3>4. /\ Whole(z, a, fs[k1])
          /\ at[k1 + 1] = at[k1] + Len(Encode(fs[k1])) /\ cn[k1 + 1] = cn[k1] + Before(fs[k1])
          /\ fs[k1] \in Other => cn[k1] + 1 <= Len(sd) /\ fs[k1] = sd[cn[k1] + 1]
          /\ \A j \in 1 .. Len(Encode(fs[k1])) :
               at[k1] + j <= Len(b) => b[at[k1] + j] = Encode(fs[k1])[j]
      BY <1>5, <3>1
    <3>5. Len(Encode(fs[k1])) \in Nat
      BY <3>4, WholeFacts
    <3>6. at2[k1] = at2[k] + Len(Encode(fs2[k]))
      BY <1>8, <3>2, <3>3, <3>4, <3>5, SMTT(60)
    <3>7. ASSUME NEW j \in 1 .. Len(Encode(fs[k1])), at2[k] + j <= Len(b2)
          PROVE  b2[at2[k] + j] = Encode(fs[k1])[j]
      <4>1. /\ at2[k] + j \in 1 .. Len(b) - l /\ l + (at2[k] + j) = at[k1] + j /\ at[k1] + j <= Len(b)
        <5> DEFINE x == at[k1]
                   y == at2[k]
                   h == Len(Encode(fs[k1]))
                   u == Len(b)
                   v == Len(b2)
        <5>1. /\ x \in Nat /\ y \in Nat /\ h \in Nat /\ u \in Nat /\ v = u - l /\ l \in Nat /\ j \in 1 .. h
              /\ y = x - l /\ y + j <= v
          BY <1>2, <1>8, <2>2, <3>2, <3>3, <3>5, <3>7
        <5> HIDE DEF x, y, h, u, v
        <5>2. y + j \in 1 .. u - l /\ l + (y + j) = x + j /\ x + j <= u
          BY <5>1
        <5> QED BY <5>2 DEF x, y, u
      <4>2. b2[at2[k] + j] = b[l + (at2[k] + j)]
        BY <2>2, <4>1
      <4> QED BY <3>4, <4>1, <4>2
    <3> QED BY <3>2, <3>4, <3>6, <3>7 DEF k1
  <2>9. InFlight(z, a, c, b2, sd, hn + Before(f), m2, fs2, at2, cn2)
    <3>1. at2[1] = 0 /\ cn2[1] = hn + Before(f)
      BY <1>7, <1>8, <2>5
    <3>2. at2[m] = at[m + 1] - l /\ cn2[m] = cn[m + 1] /\ at[m + 1] \in Nat
      BY <1>4, <1>6, <2>4, <2>5
    <3>3. Len(b2) <= at2[m] /\ (c = "stream" => Len(b2) = at2[m] /\ Len(sd) = cn2[m])
      <4> DEFINE x == at[m + 1]
                 y == at2[m]
                 u == Len(b)
                 v == Len(b2)
      <4>1. /\ x \in Nat /\ u \in Nat /\ l \in Nat /\ v = u - l /\ y = x - l /\ u <= x
            /\ c = "stream" => u = x /\ Len(sd) = cn2[m]
        BY <1>2, <1>4, <1>8, <2>2, <3>2
      <4> HIDE DEF x, y, u, v
      <4>2. v <= y /\ (c = "stream" => v = y /\ Len(sd) = cn2[m])
        BY <4>1
      <4> QED BY <4>2 DEF y, v
    <3> QED BY <2>3, <2>5, <2>7, <2>8, <3>1, <3>3 DEF InFlight
  <2>10. Flying(z, a, c, b2, sd, hn + Before(f))
    BY <2>9 DEF Flying
  <2> QED BY <1>8, <2>1, <2>2, <2>10
<1> QED BY <1>11, <1>12
-----------------------------------------------------------------------------
(* What is on a data channel *)

FrameIn(m) == Decode(m).frame

(* DATA f is a part of an asked chunk, as the files hold it.               *)
PartOk(z, a, ask, f) ==
  /\ f.index \in ask /\ f.offset \in Nat /\ f.payload \in Seq(Nat) /\ Len(f.payload) \in Nat \ {0}
  /\ f.offset + Len(f.payload) <= Bytes(z, f.index)
  /\ \A k \in 1 .. Len(f.payload) : Right(z, a, f.index, f.offset + k, f.payload[k])

SaidFrames(sd) == {Sent(f) : f \in Range(sd)}

MessageOk(z, a, ask, sd, m) ==
  /\ m \in Seq(Nat) /\ Len(m) <= MaxMessage /\ Decode(m).err = "none"
  /\ FrameIn(m).type = TData => PartOk(z, a, ask, FrameIn(m))
  /\ FrameIn(m).type # TData => FrameIn(m) \in SaidFrames(sd)

(* Byte k of chunk i is in m. *)
Covers(m, i, k) == FrameIn(m).type = TData /\ FrameIn(m).index = i /\ Holds(FrameIn(m), k)

Disjoint(ms) ==
  \A m1, m2 \in ms : \A i \in Nat : \A k \in Nat : Covers(m1, i, k) /\ Covers(m2, i, k) => m1 = m2

(* The bytes of chunk i that are under way, and those that have come, once *)
(* it was sent.                                                            *)
UnderWay(z, ms, i) == {k \in 1 .. Bytes(z, i) : \E m \in ms : Covers(m, i, k)}
Come(z, ms, i) == (1 .. Bytes(z, i)) \ UnderWay(z, ms, i)

(* A chunk as it is read: as many bytes as the chunk has, each the right one. *)
Fits(z, a, i, p) ==
  p \in Seq(Nat) /\ Len(p) = Bytes(z, i) /\ \A k \in 1 .. Len(p) : Right(z, a, i, k, p[k])

(* p is what the receiver holds of chunk i: all that has come.             *)
Joined(z, a, ms, i, p) ==
  IF Come(z, ms, i) = 1 .. Bytes(z, i) THEN p = Empty
  ELSE /\ p.have = Cardinality(Come(z, ms, i))
       /\ \A k \in Come(z, ms, i) : Right(z, a, i, k, p.buf[k])

LEMMA WholeDecode ==
  ASSUME NEW z, IsShared(z), NEW a, NEW i \in ChunksOf(z), NEW p, Fits(z, a, i, p),
         NEW o, NEW q, NEW g, IsPart(g, i, o, q, p), NEW ask, i \in ask, NEW sd
  PROVE  /\ MessageOk(z, a, ask, sd, Encode(g))
         /\ FrameIn(Encode(g)) = g /\ g.type = TData /\ g.index = i
<1>a. p \in Seq(Nat) /\ Len(p) = Bytes(z, i) /\ \A k \in 1 .. Len(p) : Right(z, a, i, k, p[k])
  BY DEF Fits
<1>1. /\ g = DataFrame(i, o, q) /\ o \in Nat /\ q \in Seq(Nat) /\ Len(q) \in Nat \ {0}
      /\ o + Len(q) <= Len(p) /\ 13 + Len(q) <= MaxMessage
      /\ \A k \in 1 .. Len(q) : q[k] = p[o + k]
  BY DEF IsPart
<1>2. i \in Nat /\ i \in 0 .. 2 ^ 30 /\ Bytes(z, i) \in Nat /\ Bytes(z, i) <= ChunkSize
  BY ChunkFacts
<1>3. o \in 0 .. 2 ^ 30 /\ Len(q) <= ChunkSize
  <2> DEFINE l == Len(q)
             n == Bytes(z, i)
  <2>1. l \in Nat /\ n \in Nat /\ o + l <= n /\ n <= ChunkSize /\ ChunkSize \in 1 .. 2 ^ 30 /\ o \in Nat
    BY <1>1, <1>2, <1>a, WireAssumption
  <2> HIDE DEF l, n
  <2>2. o \in 0 .. 2 ^ 30 /\ l <= ChunkSize
    BY <2>1, SMT
  <2> QED BY <2>2 DEF l
<1>4. Sendable(g)
  BY <1>1, <1>2, <1>3, Zenon DEF Sendable, IsData
<1>5. /\ g.type = TData /\ g.index = i /\ g.offset = o /\ g.payload = q
  BY <1>1 DEF DataFrame, Frame
<1>6. Sent(g) = g
  BY <1>5 DEF Sent, TData, TError
<1>7. Decode(Encode(g)) = [err |-> "none", frame |-> g, rest |-> <<>>] /\ Encode(g) \in Seq(Nat)
  BY <1>4, <1>6, DecodeFacts
<1>8. FrameIn(Encode(g)) = g /\ Decode(Encode(g)).err = "none"
  BY <1>7 DEF FrameIn
<1>9. Len(Encode(g)) <= MaxMessage
  <2>1. Len(Encode(g)) = 13 + Len(q)
    BY <1>1, <1>2, DataBytes
  <2> QED BY <1>1, <2>1
<1>10. PartOk(z, a, ask, g)
  <2>1. ASSUME NEW k \in 1 .. Len(q) PROVE Right(z, a, i, o + k, q[k])
    <3>1. o + k \in 1 .. Len(p)
      <4> DEFINE l == Len(q)
                 n == Len(p)
      <4>1. l \in Nat /\ n \in Nat /\ o + l <= n /\ k \in 1 .. l /\ o \in Nat
        BY <1>1
      <4> HIDE DEF l, n
      <4>2. o + k \in 1 .. n
        BY <4>1
      <4> QED BY <4>2 DEF n
    <3> QED BY <1>1, <1>a, <3>1
  <2> QED BY <1>1, <1>5, <1>a, <2>1 DEF PartOk
<1> QED BY <1>5, <1>7, <1>8, <1>9, <1>10 DEF MessageOk

(* What the two lemmas below say, named: the messages of a chunk, the messages *)
(* of the channel as they should be, the other chunks as they were. *)
PartsOf(i, p) == {Encode(g) : g \in Range(SplitData(DataFrame(i, 0, p)))}
AllOk(z, a, ask, sd, ms) == Disjoint(ms) /\ \A m \in ms : MessageOk(z, a, ask, sd, m)
SameBut(z, ask, i, ms, ms2) == \A j \in ask : j # i => Come(z, ms2, j) = Come(z, ms, j)
Took(z, a, f, p, ms, ms2) ==
  /\ p.have \in Nat
  /\ p = Empty => Come(z, ms, f.index) = {}
  /\ p.have + Len(f.payload) < Bytes(z, f.index) <=> Come(z, ms2, f.index) # 1 .. Bytes(z, f.index)
  /\ p.have + Len(f.payload) = Cardinality(Come(z, ms2, f.index))
  /\ Come(z, ms2, f.index)
       = Come(z, ms, f.index) \cup (f.offset + 1 .. f.offset + Len(f.payload))
  /\ \A k \in Come(z, ms, f.index) : Right(z, a, f.index, k, p.buf[k])

(* A chunk is sent, in parts. *)
LEMMA PartsSent ==
  ASSUME NEW z, IsShared(z), NEW a, NEW i \in ChunksOf(z), NEW p, Fits(z, a, i, p),
         NEW ask, ask \subseteq Nat, i \notin ask, NEW sd, NEW ms, AllOk(z, a, ask, sd, ms),
         NEW ms2, ms2 = ms \cup PartsOf(i, p)
  PROVE  /\ AllOk(z, a, ask \cup {i}, sd, ms2)
         /\ Come(z, ms2, i) = {} /\ SameBut(z, ask, i, ms, ms2)
<1> DEFINE gs == Range(SplitData(DataFrame(i, 0, p)))
           new == {Encode(g) : g \in gs}
           ask2 == ask \cup {i}
<1>a. /\ p \in Seq(Nat) /\ Len(p) = Bytes(z, i) /\ \A k \in 1 .. Len(p) : Right(z, a, i, k, p[k])
      /\ Disjoint(ms) /\ \A m \in ms : MessageOk(z, a, ask, sd, m)
  BY DEF Fits, AllOk
<1>0. i \in Nat /\ Bytes(z, i) \in Nat \ {0}
  BY ChunkFacts
<1>1. /\ \A g \in gs : \E o, q : IsPart(g, i, o, q, p)
      /\ \A k \in 1 .. Len(p) : \E g \in gs : Holds(g, k)
      /\ \A g, h \in gs : \A k \in 1 .. Len(p) : Holds(g, k) /\ Holds(h, k) => g = h
  <2>1. p # <<>>
    BY <1>0, <1>a, EmptySeq
  <2> QED BY <1>a, <2>1, SplitFacts
<1>2. ms2 = ms \cup new
  BY DEF PartsOf
<1> HIDE DEF gs
<1>3. \A g \in gs : MessageOk(z, a, ask2, sd, Encode(g)) /\ FrameIn(Encode(g)) = g /\ g.type = TData /\ g.index = i
  <2> SUFFICES ASSUME NEW g \in gs
               PROVE  MessageOk(z, a, ask2, sd, Encode(g)) /\ FrameIn(Encode(g)) = g /\ g.type = TData /\ g.index = i
    OBVIOUS
  <2>1. PICK o, q : IsPart(g, i, o, q, p)
    BY <1>1
  <2>2. i \in ask2
    OBVIOUS
  <2> HIDE DEF ask2
  <2> QED BY <2>1, <2>2, WholeDecode
<1>4. \A m \in ms : MessageOk(z, a, ask2, sd, m)
  <2> SUFFICES ASSUME NEW m \in ms PROVE MessageOk(z, a, ask2, sd, m)
    OBVIOUS
  <2>1. MessageOk(z, a, ask, sd, m)
    BY <1>a
  <2> QED BY <2>1 DEF MessageOk, PartOk
<1>5. \A m \in ms : \A k : ~Covers(m, i, k)
  <2> SUFFICES ASSUME NEW m \in ms, NEW k, Covers(m, i, k) PROVE FALSE
    OBVIOUS
  <2>1. MessageOk(z, a, ask, sd, m)
    BY <1>a
  <2> QED BY <2>1 DEF MessageOk, PartOk, Covers
<1>6. \A m \in new : \A j, k : Covers(m, j, k) => j = i /\ \E g \in gs : m = Encode(g) /\ Holds(g, k)
  <2> SUFFICES ASSUME NEW g \in gs, NEW j, NEW k, Covers(Encode(g), j, k) PROVE j = i /\ Holds(g, k)
    OBVIOUS
  <2>1. FrameIn(Encode(g)) = g /\ g.index = i
    BY <1>3
  <2> QED BY <2>1 DEF Covers
<1>7. \A g \in gs : \A k : Holds(g, k) => Covers(Encode(g), i, k)
  <2> SUFFICES ASSUME NEW g \in gs, NEW k, Holds(g, k) PROVE Covers(Encode(g), i, k)
    OBVIOUS
  <2>1. FrameIn(Encode(g)) = g /\ g.index = i /\ g.type = TData
    BY <1>3
  <2> QED BY <2>1 DEF Covers
<1> HIDE DEF new
<1>8. Disjoint(ms2)
  <2> SUFFICES ASSUME NEW m1 \in ms2, NEW m2 \in ms2, NEW j \in Nat, NEW k \in Nat, Covers(m1, j, k), Covers(m2, j, k)
               PROVE  m1 = m2
    BY DEF Disjoint
  <2>1. CASE m1 \in ms /\ m2 \in ms
    BY <1>a, <2>1 DEF Disjoint
  <2>2. CASE m1 \in new /\ m2 \in new
    <3>1. PICK g \in gs : m1 = Encode(g) /\ Holds(g, k)
      BY <1>6, <2>2
    <3>2. PICK h \in gs : m2 = Encode(h) /\ Holds(h, k)
      BY <1>6, <2>2
    <3>3. k \in 1 .. Len(p)
      <4>1. PICK o, q : IsPart(g, i, o, q, p)
        BY <1>1
      <4>2. g.offset = o /\ g.payload = q /\ o \in Nat /\ Len(q) \in Nat /\ o + Len(q) <= Len(p) /\ Len(p) \in Nat
        BY <4>1, <1>0, <1>a DEF IsPart, DataFrame, Frame
      <4>3. o < k /\ k <= o + Len(q)
        BY <3>1, <4>2 DEF Holds
      <4> DEFINE l == Len(q)
                 n == Len(p)
      <4>4. o \in Nat /\ l \in Nat /\ o + l <= n /\ n \in Nat /\ o < k /\ k <= o + l
        BY <4>2, <4>3
      <4> HIDE DEF l, n
      <4>5. k \in 1 .. n
        BY <4>4
      <4> QED BY <4>5 DEF n
    <3>4. g = h
      BY <1>1, <3>1, <3>2, <3>3
    <3> QED BY <3>1, <3>2, <3>4
  <2>3. CASE m1 \in ms /\ m2 \in new
    BY <1>5, <1>6, <2>3
  <2>4. CASE m1 \in new /\ m2 \in ms
    BY <1>5, <1>6, <2>4
  <2> QED BY <1>2, <2>1, <2>2, <2>3, <2>4
<1>9. Come(z, ms2, i) = {}
  <2>1. ASSUME NEW k \in 1 .. Bytes(z, i) PROVE \E m \in ms2 : Covers(m, i, k)
    <3>1. PICK g \in gs : Holds(g, k)
      BY <1>1, <1>a
    <3>2. Encode(g) \in ms2
      BY <1>2 DEF new
    <3> QED BY <1>7, <3>1, <3>2
  <2> QED BY <2>1 DEF Come, UnderWay
<1>10. ASSUME NEW j \in ask PROVE Come(z, ms2, j) = Come(z, ms, j)
  <2>1. \A k : (\E m \in ms2 : Covers(m, j, k)) <=> (\E m \in ms : Covers(m, j, k))
    BY <1>2, <1>6
  <2> QED BY <2>1 DEF Come, UnderWay
<1>11. \A m \in ms2 : MessageOk(z, a, ask2, sd, m)
  <2>1. \A m \in new : MessageOk(z, a, ask2, sd, m)
    BY <1>3 DEF new
  <2> QED BY <1>2, <1>4, <2>1
<1> QED BY <1>8, <1>9, <1>10, <1>11 DEF AllOk, SameBut

(* A part is taken: its bytes have come. *)
LEMMA PartTaken ==
  ASSUME NEW z, IsShared(z), NEW a, NEW ask, ask \subseteq ChunksOf(z), NEW sd, NEW ms,
         AllOk(z, a, ask, sd, ms), NEW m \in ms, NEW f, f = FrameIn(m), f.type = TData,
         NEW p, Joined(z, a, ms, f.index, p), NEW ms2, ms2 = ms \ {m}
  PROVE  Took(z, a, f, p, ms, ms2) /\ SameBut(z, ask, f.index, ms, ms2)
<1> DEFINE i == f.index
           n == Bytes(z, i)
           R == f.offset + 1 .. f.offset + Len(f.payload)
           C == Come(z, ms, i)
           D == Come(z, ms2, i)
<1>a. FrameIn(m).type = TData /\ Disjoint(ms) /\ MessageOk(z, a, ask, sd, m)
  BY DEF AllOk
<1>1. /\ i \in ask /\ f.offset \in Nat /\ Len(f.payload) \in Nat \ {0}
      /\ f.offset + Len(f.payload) <= n
  BY <1>a DEF MessageOk, PartOk
<1>2. i \in Nat /\ n \in Nat \ {0}
  BY <1>1, ChunkFacts
<1>3. R \subseteq 1 .. n /\ R # {} /\ IsFiniteSet(R) /\ Cardinality(R) = Len(f.payload)
  <2> DEFINE x == f.offset
             l == Len(f.payload)
  <2>1. x \in Nat /\ l \in Nat \ {0} /\ x + l <= n
    BY <1>1
  <2> HIDE DEF x, l, n
  <2>2. x + 1 .. x + l \subseteq 1 .. n /\ x + 1 \in x + 1 .. x + l
    BY <1>2, <2>1
  <2>3. IsFiniteSet(x + 1 .. x + l) /\ Cardinality(x + 1 .. x + l) = l
    <3>1. x + 1 \in Int /\ x + l \in Int /\ ~(x + 1 > x + l) /\ (x + l) - (x + 1) + 1 = l
      BY <2>1
    <3> QED BY <3>1, FS_Interval
  <2> QED BY <2>2, <2>3 DEF x, l
<1>4. \A k \in Nat : Covers(m, i, k) <=> k \in R
  <2> SUFFICES ASSUME NEW k \in Nat PROVE Holds(f, k) <=> k \in R
    BY <1>a DEF Covers
  <2>1. f.offset \in Nat /\ Len(f.payload) \in Nat
    BY <1>1
  <2> HIDE DEF i, n
  <2> QED BY <2>1 DEF Holds
<1> HIDE DEF R
<1>5. D = C \cup R
  <2>1. ASSUME NEW k \in 1 .. n
        PROVE  (\E h \in ms2 : Covers(h, i, k)) <=> (\E h \in ms : Covers(h, i, k)) /\ k \notin R
    <3>1. k \in Nat
      BY <1>2
    <3>2. ASSUME NEW h \in ms, Covers(h, i, k), Covers(m, i, k) PROVE h = m
      BY <1>2, <1>a, <3>1, <3>2 DEF Disjoint
    <3> HIDE DEF i
    <3> QED BY <1>4, <3>1, <3>2
  <2>2. \A k \in 1 .. n : k \in D <=> k \in C \/ k \in R
    <3> HIDE DEF i
    <3>1. \A k \in 1 .. n : k \in D <=> ~ \E h \in ms2 : Covers(h, i, k)
      BY DEF Come, UnderWay
    <3>2. \A k \in 1 .. n : k \in C <=> ~ \E h \in ms : Covers(h, i, k)
      BY DEF Come, UnderWay
    <3>3. \A k \in R : k \in 1 .. n => \E h \in ms : Covers(h, i, k)
      BY <1>2, <1>4
    <3> HIDE DEF C, D
    <3> QED BY <2>1, <3>1, <3>2, <3>3
  <2>3. D \subseteq 1 .. n /\ C \subseteq 1 .. n
    BY DEF Come
  <2> HIDE DEF C, D
  <2> QED BY <1>3, <2>2, <2>3
<1>6. C \cap R = {} /\ C \subseteq 1 .. n /\ D \subseteq 1 .. n
  <2>1. ASSUME NEW k \in C, k \in R PROVE FALSE
    <3>1. k \in 1 .. n /\ ~ \E h \in ms : Covers(h, i, k)
      BY <2>1 DEF Come, UnderWay
    <3>2. Covers(m, i, k)
      <4> HIDE DEF i
      <4> QED BY <1>2, <1>4, <2>1, <3>1
    <3> QED BY <3>1, <3>2
  <2> QED BY <2>1 DEF Come
<1> HIDE DEF C, D
<1>7. C # 1 .. n
  BY <1>3, <1>6
<1>8. p.have = Cardinality(C) /\ \A k \in C : Right(z, a, i, k, p.buf[k])
  BY <1>7 DEF Joined, C
<1> HIDE DEF n, i
<1>9. IsFiniteSet(1 .. n) /\ Cardinality(1 .. n) = n
  <2>1. 1 \in Int /\ n \in Int /\ ~(1 > n) /\ n - 1 + 1 = n
    BY <1>2
  <2> QED BY <2>1, FS_Interval
<1>10. IsFiniteSet(C) /\ Cardinality(C) \in Nat
  BY <1>6, <1>9, FS_Subset, FS_CardinalityType
<1>11. Cardinality(D) = Cardinality(C) + Len(f.payload)
  <2>1. Cardinality(C \cup R) = Cardinality(C) + Cardinality(R) - Cardinality(C \cap R)
    BY <1>3, <1>10, FS_Union
  <2>2. Cardinality(C \cap R) = 0
    BY <1>6, FS_EmptySet
  <2>3. Len(f.payload) \in Nat
    BY <1>1
  <2> QED BY <1>3, <1>5, <1>10, <2>1, <2>2, <2>3
<1>12. Cardinality(D) < n <=> D # 1 .. n
  <2>1. Cardinality(D) <= Cardinality(1 .. n) /\ (Cardinality(1 .. n) = Cardinality(D) => 1 .. n = D)
        /\ IsFiniteSet(D)
    BY <1>6, <1>9, FS_Subset
  <2>2. Cardinality(D) \in Nat
    BY <2>1, FS_CardinalityType
  <2> QED BY <1>2, <1>9, <2>1, <2>2
<1>13. p = Empty => C = {}
  <2>1. ASSUME p = Empty PROVE C = {}
    <3>1. Cardinality(C) = 0
      BY <1>8, <2>1 DEF Empty
    <3> QED BY <1>10, <3>1, FS_EmptySet
  <2> QED BY <2>1
<1>14. ASSUME NEW j \in ask, j # i PROVE Come(z, ms2, j) = Come(z, ms, j)
  <2>1. \A k : ~Covers(m, j, k)
    BY <1>14 DEF Covers, i
  <2>2. \A k : (\E h \in ms2 : Covers(h, j, k)) <=> (\E h \in ms : Covers(h, j, k))
    BY <2>1
  <2> QED BY <2>2 DEF Come, UnderWay
<1> QED BY <1>5, <1>8, <1>10, <1>11, <1>12, <1>13, <1>14 DEF C, D, R, n, i, Took, SameBut
-----------------------------------------------------------------------------
(* The invariant *)

Disks(z, d) == DOMAIN d = DOMAIN z /\ \A f \in DOMAIN z : DOMAIN d[f] = 1 .. z[f]
CopiedTo(z, a, w, d) ==
  \A f \in DOMAIN z : \A o \in 0 .. a[f] - 1 :
    (starts(z)[f] + o) \div ChunkSize \in w => d[f][o + 1] = starts(z)[f] + o + 1

HeardOk(c, sd, hd) ==
  /\ hd \in Seq({Sent(f) : f \in Other}) /\ \A j \in 1 .. Len(hd) : hd[j] \in SaidFrames(sd)
  /\ c # "dc" => Len(hd) <= Len(sd) /\ \A j \in 1 .. Len(hd) : hd[j] = Sent(sd[j])

Typed ==
  /\ carrier \in {"stream", "lost", "dc"} /\ IsShared(sizes) /\ IsActual(sizes, actual)
  /\ buf \in [1 .. ChunkSize -> Nat] /\ asked \subseteq ChunksOf(sizes) /\ said \in Seq(Other)
  /\ DOMAIN partial = ChunksOf(sizes)
Errors == err = "none" \/ (err = "eof" /\ carrier = "lost")
OnStream ==
  carrier # "dc" =>
    /\ messages = {} /\ stream \in Seq(Nat) /\ \A i \in ChunksOf(sizes) : partial[i] = Empty
    /\ err = "none" => Flying(sizes, actual, carrier, stream, said, Len(heard))
OnChannel ==
  carrier = "dc" =>
    /\ stream = <<>> /\ Disjoint(messages)
    /\ \A m \in messages : MessageOk(sizes, actual, asked, said, m)
    /\ \A i \in ChunksOf(sizes) : IF i \in asked THEN Joined(sizes, actual, messages, i, partial[i])
                                  ELSE partial[i] = Empty
Inv ==
  /\ Typed /\ Errors /\ OnStream /\ OnChannel /\ HeardOk(carrier, said, heard)
  /\ Disks(sizes, dst) /\ CopiedTo(sizes, actual, written, dst)

LEMMA ChunkSets == Chunk = ChunksOf(sizes)
BY DEF Chunk, ChunksOf

LEMMA StoredCopied ==
  ASSUME IsShared(sizes), IsActual(sizes, actual), Disks(sizes, dst), CopiedTo(sizes, actual, written, dst),
         NEW i \in Chunk, NEW data, \A k \in 1 .. Bytes(sizes, i) : Right(sizes, actual, i, k, data[k])
  PROVE  Disks(sizes, Stored(i, data)) /\ CopiedTo(sizes, actual, written \cup {i}, Stored(i, data))
<1> DEFINE d == Stored(i, data)
<1>1. /\ DOMAIN d = DOMAIN sizes /\ \A f \in DOMAIN sizes : DOMAIN d[f] = 1 .. sizes[f]
      /\ \A f \in DOMAIN sizes : \A o \in 0 .. actual[f] - 1 :
           d[f][o + 1] = IF (starts(sizes)[f] + o) \div ChunkSize = i
                         THEN starts(sizes)[f] + o + 1 ELSE dst[f][o + 1]
  BY StoredFacts DEF Disks
<1> HIDE DEF d
<1>2. CopiedTo(sizes, actual, written \cup {i}, d)
  <2> SUFFICES ASSUME NEW f \in DOMAIN sizes, NEW o \in 0 .. actual[f] - 1,
                      (starts(sizes)[f] + o) \div ChunkSize \in written \cup {i}
               PROVE  d[f][o + 1] = starts(sizes)[f] + o + 1
    BY DEF CopiedTo
  <2>1. CASE (starts(sizes)[f] + o) \div ChunkSize = i
    BY <1>1, <2>1
  <2>2. CASE (starts(sizes)[f] + o) \div ChunkSize # i
    <3>1. d[f][o + 1] = dst[f][o + 1]
      BY <1>1, <2>2
    <3>2. (starts(sizes)[f] + o) \div ChunkSize \in written
      BY <2>2
    <3> QED BY <3>1, <3>2 DEF CopiedTo
  <2> QED BY <2>1, <2>2
<1> QED BY <1>1, <1>2 DEF Disks, d

(* What onData makes of a part f of a chunk, of which C has come.          *)
LEMMA OnDataFacts ==
  ASSUME IsShared(sizes), IsActual(sizes, actual), Disks(sizes, dst), CopiedTo(sizes, actual, written, dst),
         DOMAIN partial = Chunk,
         NEW f, PartOk(sizes, actual, Chunk, f), OnData(f), partial[f.index].have \in Nat,
         NEW C, partial[f.index] = Empty => C = {},
         \A k \in C : Right(sizes, actual, f.index, k, partial[f.index].buf[k]),
         \/ partial[f.index].have + Len(f.payload) < Bytes(sizes, f.index)
         \/ C \cup (f.offset + 1 .. f.offset + Len(f.payload)) = 1 .. Bytes(sizes, f.index)
  PROVE  /\ err' = err /\ Disks(sizes, dst') /\ CopiedTo(sizes, actual, written', dst')
         /\ DOMAIN partial' = Chunk /\ \A j \in Chunk : j # f.index => partial'[j] = partial[j]
         /\ IF partial[f.index].have + Len(f.payload) < Bytes(sizes, f.index)
            THEN /\ partial'[f.index].have = partial[f.index].have + Len(f.payload)
                 /\ \A k \in (C \cup (f.offset + 1 .. f.offset + Len(f.payload))) \cap (1 .. Bytes(sizes, f.index)) :
                      Right(sizes, actual, f.index, k, partial'[f.index].buf[k])
            ELSE partial'[f.index] = Empty
<1> DEFINE i == f.index
           x == f.offset
           p == f.payload
           l == Len(p)
           n == Bytes(sizes, i)
           was == partial[i].have
           held == IF partial[i] = Empty THEN [k \in 1 .. n |-> 0] ELSE partial[i].buf
           now == [k \in 1 .. n |-> IF k \in x + 1 .. x + l THEN p[k - x] ELSE held[k]]
           R == x + 1 .. x + l
<1>1. /\ i \in Chunk /\ x \in Nat /\ l \in Nat \ {0} /\ x + l <= n /\ was \in Nat
      /\ \A k \in 1 .. l : Right(sizes, actual, i, x + k, p[k])
  BY DEF PartOk
<1>2. span(i).n = n /\ n \in Nat
  BY <1>1, SpanFacts, ChunkFacts
<1>3. ~(x + l > n)
  <2> HIDE DEF x, l, n
  <2> QED BY <1>1, <1>2
<1>4. /\ partial' = [partial EXCEPT ![i] = IF was + l < n THEN [buf |-> now, have |-> was + l] ELSE Empty]
      /\ dst' = IF was + l < n THEN dst ELSE Stored(i, now)
      /\ written' = IF was + l < n THEN written ELSE written \cup {i}
      /\ err' = err
  <2>1. /\ ~(x + l > span(i).n) /\ ~(i \notin Chunk)
    BY <1>1, <1>2, <1>3
  <2>2. LET now1 == [k \in 1 .. span(i).n |->
                       IF k \in x + 1 .. x + l THEN p[k - x]
                       ELSE (IF partial[i] = Empty THEN [kk \in 1 .. span(i).n |-> 0] ELSE partial[i].buf)[k]]
        IN /\ partial' = [partial EXCEPT ![i] = IF was + l < span(i).n
                                                THEN [buf |-> now1, have |-> was + l] ELSE Empty]
           /\ dst' = IF was + l < span(i).n THEN dst ELSE Stored(i, now1)
           /\ written' = IF was + l < span(i).n THEN written ELSE written \cup {i}
           /\ err' = err
    BY <2>1, Zenon DEF OnData
  <2> QED BY <1>2, <2>2
<1>5. \A k \in C \cup R : k \in 1 .. n => Right(sizes, actual, i, k, now[k])
  <2> SUFFICES ASSUME NEW k \in C \cup R, k \in 1 .. n PROVE Right(sizes, actual, i, k, now[k])
    OBVIOUS
  <2>1. CASE k \in R
    <3>1. now[k] = p[k - x]
      BY <2>1
    <3>2. k - x \in 1 .. l /\ x + (k - x) = k
      <4> HIDE DEF x, l
      <4> QED BY <1>1, <2>1
    <3> HIDE DEF now, x, l
    <3>3. Right(sizes, actual, i, x + (k - x), p[k - x])
      BY <1>1, <3>2
    <3> QED BY <3>1, <3>2, <3>3
  <2>2. CASE k \notin R
    <3>1. now[k] = held[k] /\ k \in C
      BY <2>2
    <3>2. partial[i] # Empty
      BY <3>1
    <3>3. held[k] = partial[i].buf[k]
      BY <3>2
    <3> HIDE DEF now, held
    <3> QED BY <3>1, <3>3
  <2> QED BY <2>1, <2>2
<1> HIDE DEF now
<1>6. CASE was + l < n
  <2>1. partial'[i] = [buf |-> now, have |-> was + l] /\ dst' = dst /\ written' = written
        /\ DOMAIN partial' = Chunk /\ \A j \in Chunk : j # i => partial'[j] = partial[j]
    BY <1>1, <1>4, <1>6
  <2>2. partial'[i].have = was + l /\ partial'[i].buf = now
    BY <2>1
  <2> QED BY <1>4, <1>5, <1>6, <2>1, <2>2
<1>7. CASE ~(was + l < n)
  <2>1. partial'[i] = Empty /\ dst' = Stored(i, now) /\ written' = written \cup {i}
        /\ DOMAIN partial' = Chunk /\ \A j \in Chunk : j # i => partial'[j] = partial[j]
    BY <1>1, <1>4, <1>7
  <2>2. \A k \in 1 .. n : Right(sizes, actual, i, k, now[k])
    <3>1. C \cup R = 1 .. n
      BY <1>7
    <3> HIDE DEF R, n, i
    <3> QED BY <1>5, <3>1
  <2>3. Disks(sizes, Stored(i, now)) /\ CopiedTo(sizes, actual, written \cup {i}, Stored(i, now))
    <3> HIDE DEF i
    <3> QED BY <1>1, <2>2, StoredCopied DEF i, n
  <2> QED BY <1>4, <1>7, <2>1, <2>3
<1> QED BY <1>6, <1>7

LEMMA InitInv == Init => Inv
<1> SUFFICES ASSUME Init PROVE Inv
  OBVIOUS
<1>0. ChunkSize \in Nat \ {0} /\ MaxSize \in Nat /\ MaxFiles \in Nat \ {0}
  <2>1. ChunkSize \in Nat \ {0}
    BY WireAssumption, SMT
  <2> QED BY <2>1, PathAssumption
<1>1. IsShared(sizes)
  <2>1. PICK n \in 1 .. MaxFiles : sizes \in [1 .. n -> 0 .. MaxSize]
    BY DEF Init, Shared
  <2>2. Size(sizes) <= MaxSize
    BY DEF Init, Shared
  <2>3. sizes \in Seq(Nat) /\ sizes # <<>>
    <3>1. n \in Nat \ {0}
      BY <1>0
    <3>2. sizes \in [1 .. n -> Nat]
      BY <1>0, <2>1
    <3>3. sizes \in Seq(Nat) /\ Len(sizes) = n
      BY <3>1, <3>2
    <3> QED BY <3>1, <3>3
  <2> QED BY <2>2, <2>3 DEF IsShared, IsLayout
<1>2. \A f \in DOMAIN sizes : sizes[f] \in Nat
  BY <1>1, StartsFacts DEF IsShared
<1>3. IsActual(sizes, actual)
  <2>1. CASE actual = sizes
    BY <1>2, <2>1 DEF IsActual
  <2>2. CASE \E f \in DOMAIN sizes : \E n \in 0 .. sizes[f] - 1 : actual = [sizes EXCEPT ![f] = n]
    <3>0. PICK f \in DOMAIN sizes : \E n \in 0 .. sizes[f] - 1 : actual = [sizes EXCEPT ![f] = n]
      BY <2>2
    <3>1. PICK n \in 0 .. sizes[f] - 1 : actual = [sizes EXCEPT ![f] = n]
      BY <3>0
    <3>2. n \in Nat /\ n <= sizes[f]
      BY <1>2, <3>1
    <3>3. ASSUME NEW g \in DOMAIN sizes PROVE actual[g] \in Nat /\ actual[g] <= sizes[g]
      BY <1>2, <3>1, <3>2
    <3> QED BY <3>1, <3>3 DEF IsActual
  <2> QED BY <2>1, <2>2 DEF Init
<1>4. Chunk = ChunksOf(sizes)
  BY ChunkSets
<1>5. Typed
  <2>1. buf \in [1 .. ChunkSize -> Nat]
    BY DEF Init
  <2>2. said \in Seq(Other)
    BY DEF Init
  <2> QED BY <1>1, <1>3, <1>4, <2>1, <2>2 DEF Init, Typed
<1>6. Errors
  BY DEF Init, Errors
<1>7. OnStream
  <2>1. ASSUME carrier = "stream" PROVE Flying(sizes, actual, carrier, stream, said, Len(heard))
    <3> DEFINE one == [k \in 1 .. 1 |-> 0]
    <3>0. one \in [1 .. 0 + 1 -> Nat] /\ one[1] = 0 /\ 0 + 1 = 1
      BY SMT
    <3>1. \A k \in 1 .. 0 : FALSE
      OBVIOUS
    <3>2. Len(stream) = 0 /\ Len(said) = 0 /\ Len(heard) = 0
      BY DEF Init
    <3> HIDE DEF one
    <3>3. \A j, k \in 1 .. 0 + 1 : j <= k => one[j] <= one[k]
      BY <3>0
    <3>4. 0 \in Nat /\ Len(stream) <= one[0 + 1] /\ Len(stream) = one[0 + 1] /\ Len(said) = one[0 + 1]
      BY <3>0, <3>2
    <3>5. InFlight(sizes, actual, carrier, stream, said, Len(heard), 0, <<>>, one, one)
      BY <3>0, <3>1, <3>2, <3>3, <3>4 DEF InFlight
    <3> QED BY <3>5 DEF Flying
  <2>2. messages = {} /\ stream \in Seq(Nat) /\ carrier \in {"stream", "dc"}
        /\ \A i \in ChunksOf(sizes) : partial[i] = Empty
    BY <1>4 DEF Init
  <2> QED BY <2>1, <2>2 DEF OnStream
<1>8. OnChannel
  BY <1>4 DEF Init, OnChannel, Disjoint
<1>9. HeardOk(carrier, said, heard)
  <2>1. heard = <<>> /\ Len(heard) = 0 /\ Len(said) = 0
    BY DEF Init
  <2>2. heard \in Seq({Sent(f) : f \in Other}) /\ \A j \in 1 .. Len(heard) : FALSE
    BY <2>1
  <2> QED BY <2>1, <2>2 DEF HeardOk
<1>10. Disks(sizes, dst)
  BY DEF Init, Disks
<1>11. CopiedTo(sizes, actual, written, dst)
  BY DEF Init, CopiedTo
<1> QED BY <1>5, <1>6, <1>7, <1>8, <1>9, <1>10, <1>11 DEF Inv

LEMMA SplitOther ==
  ASSUME NEW f \in Other
  PROVE  Range(SplitData(f)) = {f}
<1>1. f.type # TData
  BY OtherFacts
<1>2. SplitData(f) = <<f>>
  BY <1>1 DEF SplitData
<1> QED BY <1>2 DEF Range

(* The frame that ReadChunk writes. *)
LEMMA ChunkFrame ==
  ASSUME NEW i, NEW p
  PROVE  [Frame(TData) EXCEPT !.index = i, !.payload = p] = DataFrame(i, 0, p)
<1> DEFINE d == [Frame(TData) EXCEPT !.index = i, !.payload = p]
           r == DataFrame(i, 0, p)
<1>1. IsFrame(d) /\ IsFrame(r)
  BY DEF IsFrame, Fields, DataFrame, Frame
<1>2. /\ d.type = r.type /\ d.first = r.first /\ d.count = r.count /\ d.index = r.index
      /\ d.offset = r.offset /\ d.payload = r.payload /\ d.code = r.code
  BY DEF DataFrame, Frame
<1> HIDE DEF d, r
<1>3. d = r
  BY <1>1, <1>2, FramesEqual
<1> QED BY <1>3 DEF d, r

LEMMA ReadChunkInv ==
  ASSUME Inv, NEW i \in Chunk, ReadChunk(i)
  PROVE  Inv'
<1> DEFINE n == Bytes(sizes, i)
           p == SubSeq(buf', 1, span(i).n)
           f == [Frame(TData) EXCEPT !.index = i, !.payload = p]
<1>1. /\ Typed /\ Errors /\ OnStream /\ OnChannel /\ HeardOk(carrier, said, heard)
      /\ Disks(sizes, dst) /\ CopiedTo(sizes, actual, written, dst)
  BY DEF Inv
<1>2. /\ carrier \in {"stream", "lost", "dc"} /\ IsShared(sizes) /\ IsActual(sizes, actual)
      /\ buf \in [1 .. ChunkSize -> Nat] /\ asked \subseteq ChunksOf(sizes) /\ said \in Seq(Other)
      /\ DOMAIN partial = ChunksOf(sizes) /\ i \in ChunksOf(sizes)
  BY <1>1, ChunkSets DEF Typed
<1>3. /\ Covered(i) /\ Filled(i) \in [1 .. ChunkSize -> Nat]
      /\ \A k \in 1 .. n : Right(sizes, actual, i, k, Filled(i)[k])
  BY <1>2, FilledFacts
<1>4. /\ carrier # "lost" /\ i \notin asked /\ asked' = asked \cup {i} /\ buf' = Filled(i)
      /\ WriteFrame(f) /\ err' = err
      /\ UNCHANGED <<carrier, sizes, actual, partial, dst, written, said, heard>>
  BY <1>3, Zenon DEF ReadChunk
<1>5. n \in Nat \ {0} /\ n <= ChunkSize /\ ChunkSize \in Nat /\ span(i).n = n
  BY <1>2, ChunkFacts, SpanFacts
<1>6. p \in Seq(Nat) /\ Len(p) = n /\ \A k \in 1 .. n : p[k] = Filled(i)[k]
  <2>1. \A k \in 1 .. n : buf'[k] \in Nat
    BY <1>3, <1>4, <1>5
  <2>2. 1 \in Int /\ n \in Int
    BY <1>5
  <2> DEFINE b == buf'
             q == SubSeq(b, 1, n)
  <2> HIDE DEF b
  <2>3. /\ q \in Seq(Nat) /\ Len(q) = (IF 1 <= n THEN n - 1 + 1 ELSE 0)
        /\ \A k \in 1 .. n - 1 + 1 : q[k] = b[1 + k - 1]
    <3>1. \A k \in 1 .. n : b[k] \in Nat
      BY <2>1 DEF b
    <3> QED BY <2>2, <3>1, SubSeqProperties
  <2>4. p = q /\ b = Filled(i)
    BY <1>4, <1>5 DEF b
  <2> HIDE DEF p, q, n
  <2>5. Len(q) = n
    BY <1>5, <2>3
  <2>6. ASSUME NEW k \in 1 .. n PROVE q[k] = b[k]
    <3>1. k \in 1 .. n - 1 + 1 /\ 1 + k - 1 = k
      BY <1>5
    <3> QED BY <2>3, <3>1
  <2> QED BY <2>3, <2>4, <2>5, <2>6
<1>7. f = DataFrame(i, 0, p)
  BY ChunkFrame
<1> HIDE DEF p, f, n
<1>8. \A k \in 1 .. Len(p) : Right(sizes, actual, i, k, p[k])
  BY <1>3, <1>6
<1>9. Len(p) = Bytes(sizes, i)
  BY <1>6 DEF n
<1>10. Typed' /\ Errors' /\ HeardOk(carrier, said, heard)' /\ Disks(sizes, dst)'
       /\ CopiedTo(sizes, actual, written, dst)'
  BY <1>1, <1>2, <1>3, <1>4 DEF Typed, Errors
<1>11. CASE carrier = "stream"
  <2>1. stream' = stream \o Encode(f) /\ messages' = messages
    BY <1>4, <1>11 DEF WriteFrame
  <2>2. /\ messages = {} /\ stream \in Seq(Nat) /\ \A j \in ChunksOf(sizes) : partial[j] = Empty
        /\ Flying(sizes, actual, "stream", stream, said, Len(heard))
    <3>1. err = "none"
      BY <1>1, <1>11 DEF Errors
    <3> QED BY <1>1, <1>11, <3>1 DEF OnStream
  <2>3. IsWhole(sizes, actual, f)
    BY <1>2, <1>6, <1>7, <1>8, <1>9 DEF IsWhole
  <2>4. Whole(sizes, actual, f) /\ f \notin Other
    BY <1>2, <2>3, WholeFacts DEF Whole
  <2>5. Len(heard) \in Nat
    BY <1>1 DEF HeardOk
  <2>6. stream' \in Seq(Nat) /\ Flying(sizes, actual, "stream", stream', said, Len(heard))
    BY <1>2, <2>1, <2>2, <2>4, <2>5, FlyingMore
  <2>7. OnStream'
    BY <1>4, <1>11, <2>1, <2>2, <2>6 DEF OnStream
  <2>8. OnChannel'
    BY <1>4, <1>11 DEF OnChannel
  <2> QED BY <1>10, <2>7, <2>8 DEF Inv
<1>12. CASE carrier = "dc"
  <2>1. /\ messages' = messages \cup {Encode(g) : g \in Range(SplitData(DataFrame(i, 0, p)))}
        /\ stream' = stream
    BY <1>4, <1>7, <1>12 DEF WriteFrame
  <2>2. /\ stream = <<>> /\ Disjoint(messages)
        /\ \A m \in messages : MessageOk(sizes, actual, asked, said, m)
        /\ \A j \in ChunksOf(sizes) : IF j \in asked THEN Joined(sizes, actual, messages, j, partial[j])
                                      ELSE partial[j] = Empty
    BY <1>1, <1>12 DEF OnChannel
  <2>3. asked \in SUBSET Nat
    BY <1>2, ChunkFacts
  <2>4. /\ \A m \in messages' : MessageOk(sizes, actual, asked', said, m)
        /\ Disjoint(messages') /\ Come(sizes, messages', i) = {}
        /\ \A j \in asked : Come(sizes, messages', j) = Come(sizes, messages, j)
    <3> DEFINE more == messages'
    <3>1. more = messages \cup PartsOf(i, p)
      BY <2>1 DEF PartsOf
    <3>2. asked' = asked \cup {i} /\ i \notin asked
      BY <1>4
    <3>3. Fits(sizes, actual, i, p)
      BY <1>6, <1>8, <1>9 DEF Fits
    <3>4. AllOk(sizes, actual, asked, said, messages)
      BY <2>2 DEF AllOk
    <3> HIDE DEF more
    <3>5. /\ AllOk(sizes, actual, asked \cup {i}, said, more)
          /\ Come(sizes, more, i) = {} /\ SameBut(sizes, asked, i, messages, more)
      BY <1>2, <2>3, <3>1, <3>2, <3>3, <3>4, PartsSent
    <3> QED BY <3>2, <3>5 DEF more, AllOk, SameBut
  <2>5. \A j \in ChunksOf(sizes) : IF j \in asked' THEN Joined(sizes, actual, messages', j, partial[j])
                                   ELSE partial[j] = Empty
    <3> SUFFICES ASSUME NEW j \in ChunksOf(sizes)
                 PROVE  IF j \in asked' THEN Joined(sizes, actual, messages', j, partial[j])
                        ELSE partial[j] = Empty
      OBVIOUS
    <3>1. CASE j \in asked
      <4>1. Joined(sizes, actual, messages, j, partial[j]) /\ j \in asked'
            /\ Come(sizes, messages', j) = Come(sizes, messages, j)
        BY <1>4, <2>2, <2>4, <3>1
      <4> QED BY <4>1 DEF Joined
    <3>2. CASE j \notin asked /\ j # i
      BY <1>4, <2>2, <3>2
    <3>3. CASE j = i
      <4>1. partial[i] = Empty /\ i \in asked'
        BY <1>2, <1>4, <2>2
      <4>2. Come(sizes, messages', i) # 1 .. Bytes(sizes, i)
        <5>1. 1 \in 1 .. n
          BY <1>5
        <5> QED BY <2>4, <5>1 DEF n
      <4>3. partial[i].have = Cardinality(Come(sizes, messages', i))
        BY <2>4, <4>1, FS_EmptySet DEF Empty
      <4> QED BY <2>4, <3>3, <4>1, <4>2, <4>3 DEF Joined
    <3> QED BY <3>1, <3>2, <3>3
  <2>6. OnChannel'
    BY <1>4, <2>1, <2>2, <2>4, <2>5 DEF OnChannel
  <2>7. OnStream'
    BY <1>4, <1>12 DEF OnStream
  <2> QED BY <1>10, <2>6, <2>7 DEF Inv
<1> QED BY <1>2, <1>4, <1>11, <1>12

LEMMA SayInv ==
  ASSUME Inv, NEW f \in Other, Say(f)
  PROVE  Inv'
<1>1. /\ Typed /\ Errors /\ OnStream /\ OnChannel /\ HeardOk(carrier, said, heard)
      /\ Disks(sizes, dst) /\ CopiedTo(sizes, actual, written, dst)
  BY DEF Inv
<1>2. /\ carrier \in {"stream", "lost", "dc"} /\ IsShared(sizes) /\ said \in Seq(Other)
  BY <1>1 DEF Typed
<1>3. /\ carrier # "lost" /\ said' = Append(said, f) /\ WriteFrame(f)
      /\ UNCHANGED <<carrier, sizes, actual, buf, asked, partial, dst, written, heard, err>>
  BY DEF Say
<1>4. /\ said' \in Seq(Other) /\ Len(said') = Len(said) + 1 /\ Len(said) \in Nat
      /\ \A j \in 1 .. Len(said) : said'[j] = said[j]
      /\ Range(said') = Range(said) \cup {f}
  <2>1. /\ said' \in Seq(Other) /\ Len(said') = Len(said) + 1 /\ Len(said) \in Nat
        /\ \A j \in 1 .. Len(said) : said'[j] = said[j]
        /\ said'[Len(said) + 1] = f
    BY <1>2, <1>3, AppendProperties
  <2>2. DOMAIN said' = 1 .. Len(said) + 1 /\ DOMAIN said = 1 .. Len(said)
    BY <1>2, <2>1
  <2>3. Range(said') = Range(said) \cup {f}
    <3>1. \A j \in 1 .. Len(said) + 1 : j \in 1 .. Len(said) \/ j = Len(said) + 1
      BY <2>1
    <3>2. \A j \in 1 .. Len(said) : j \in 1 .. Len(said) + 1
      BY <2>1
    <3>3. Len(said) + 1 \in 1 .. Len(said) + 1
      BY <2>1
    <3> QED BY <2>1, <2>2, <3>1, <3>2, <3>3 DEF Range
  <2> QED BY <2>1, <2>3
<1>5. SaidFrames(said) \subseteq SaidFrames(said')
  BY <1>4 DEF SaidFrames
<1>6. HeardOk(carrier, said, heard)'
  <2>1. /\ heard \in Seq({Sent(g) : g \in Other}) /\ \A j \in 1 .. Len(heard) : heard[j] \in SaidFrames(said)
        /\ carrier # "dc" => Len(heard) <= Len(said) /\ \A j \in 1 .. Len(heard) : heard[j] = Sent(said[j])
    BY <1>1 DEF HeardOk
  <2>2. Len(heard) \in Nat
    BY <2>1
  <2>3. ASSUME carrier # "dc"
        PROVE  Len(heard) <= Len(said') /\ \A j \in 1 .. Len(heard) : heard[j] = Sent(said'[j])
    <3>1. Len(heard) <= Len(said) /\ \A j \in 1 .. Len(heard) : heard[j] = Sent(said[j])
      BY <2>1, <2>3
    <3>2. 1 .. Len(heard) \subseteq 1 .. Len(said) /\ Len(heard) <= Len(said')
      BY <1>4, <2>2, <3>1
    <3> QED BY <1>4, <3>1, <3>2
  <2> QED BY <1>3, <1>5, <2>1, <2>3 DEF HeardOk
<1>7. Typed' /\ Errors' /\ Disks(sizes, dst)' /\ CopiedTo(sizes, actual, written, dst)'
  BY <1>1, <1>3, <1>4 DEF Typed, Errors
<1>8. CASE carrier = "stream"
  <2>1. stream' = stream \o Encode(f) /\ messages' = messages
    BY <1>3, <1>8 DEF WriteFrame
  <2>2. /\ messages = {} /\ stream \in Seq(Nat) /\ \A j \in ChunksOf(sizes) : partial[j] = Empty
        /\ Flying(sizes, actual, "stream", stream, said, Len(heard))
    <3>1. err = "none"
      BY <1>1, <1>8 DEF Errors
    <3> QED BY <1>1, <1>8, <3>1 DEF OnStream
  <2>3. Whole(sizes, actual, f) /\ Len(heard) \in Nat
    BY <1>1 DEF Whole, HeardOk
  <2>4. stream' \in Seq(Nat) /\ Flying(sizes, actual, "stream", stream', said', Len(heard))
    BY <1>2, <1>3, <1>4, <2>1, <2>2, <2>3, FlyingMore
  <2>5. OnStream'
    BY <1>3, <1>8, <2>1, <2>2, <2>4 DEF OnStream
  <2>6. OnChannel'
    BY <1>3, <1>8 DEF OnChannel
  <2> QED BY <1>6, <1>7, <2>5, <2>6 DEF Inv
<1>9. CASE carrier = "dc"
  <2> DEFINE e == Encode(f)
  <2>1. messages' = messages \cup {e} /\ stream' = stream
    <3>1. {Encode(g) : g \in Range(SplitData(f))} = {e}
      BY SplitOther
    <3>2. messages' = messages \cup {Encode(g) : g \in Range(SplitData(f))} /\ stream' = stream
      BY <1>3, <1>9 DEF WriteFrame
    <3> QED BY <3>1, <3>2
  <2>2. /\ stream = <<>> /\ Disjoint(messages)
        /\ \A m \in messages : MessageOk(sizes, actual, asked, said, m)
        /\ \A j \in ChunksOf(sizes) : IF j \in asked THEN Joined(sizes, actual, messages, j, partial[j])
                                      ELSE partial[j] = Empty
    BY <1>1, <1>9 DEF OnChannel
  <2>3. /\ Decode(e) = [err |-> "none", frame |-> Sent(f), rest |-> <<>>] /\ e \in Seq(Nat)
        /\ Sent(f).type # TData /\ Len(e) <= MaxMessage
    BY DecodeFacts, OtherFacts DEF Sendable
  <2>4. FrameIn(e) = Sent(f) /\ Decode(e).err = "none"
    BY <2>3 DEF FrameIn
  <2> HIDE DEF e
  <2>5. MessageOk(sizes, actual, asked, said', e)
    <3>1. Sent(f) \in SaidFrames(said')
      BY <1>4 DEF SaidFrames
    <3> QED BY <2>3, <2>4, <3>1 DEF MessageOk
  <2>6. \A m \in messages : MessageOk(sizes, actual, asked, said', m)
    BY <1>5, <2>2 DEF MessageOk
  <2>7. \A j, k : ~Covers(e, j, k)
    BY <2>3, <2>4 DEF Covers
  <2>8. Disjoint(messages')
    BY <2>1, <2>2, <2>7 DEF Disjoint
  <2>9. \A j : Come(sizes, messages', j) = Come(sizes, messages, j)
    BY <2>1, <2>7 DEF Come, UnderWay
  <2>10. \A j \in ChunksOf(sizes) : IF j \in asked THEN Joined(sizes, actual, messages', j, partial[j])
                                    ELSE partial[j] = Empty
    BY <2>2, <2>9 DEF Joined
  <2>11. OnChannel'
    BY <1>3, <2>1, <2>2, <2>5, <2>6, <2>8, <2>10 DEF OnChannel
  <2>12. OnStream'
    BY <1>3, <1>9 DEF OnStream
  <2> QED BY <1>6, <1>7, <2>11, <2>12 DEF Inv
<1> QED BY <1>2, <1>3, <1>8, <1>9

LEMMA CutInv ==
  ASSUME Inv, NEW n \in 0 .. Len(stream), Cut(n)
  PROVE  Inv'
<1>1. /\ Typed /\ Errors /\ OnStream /\ OnChannel /\ HeardOk(carrier, said, heard)
      /\ Disks(sizes, dst) /\ CopiedTo(sizes, actual, written, dst)
  BY DEF Inv
<1>2. /\ carrier = "stream" /\ carrier' = "lost" /\ stream' = SubSeq(stream, 1, n)
      /\ UNCHANGED <<sizes, actual, buf, asked, messages, partial, dst, written, said, heard, err>>
  BY DEF Cut
<1>3. /\ IsShared(sizes) /\ said \in Seq(Other) /\ messages = {} /\ stream \in Seq(Nat)
      /\ \A j \in ChunksOf(sizes) : partial[j] = Empty
      /\ Flying(sizes, actual, carrier, stream, said, Len(heard)) /\ err = "none"
  <2>1. err = "none"
    BY <1>1, <1>2 DEF Errors
  <2> QED BY <1>1, <1>2, <2>1 DEF OnStream, Typed
<1>4. Len(heard) \in Nat
  BY <1>1 DEF HeardOk
<1>5. stream' \in Seq(Nat) /\ Flying(sizes, actual, "lost", stream', said, Len(heard))
  BY <1>2, <1>3, <1>4, FlyingLess
<1>6. OnStream' /\ OnChannel'
  BY <1>2, <1>3, <1>5 DEF OnStream, OnChannel
<1>7. Typed' /\ Errors' /\ HeardOk(carrier, said, heard)' /\ Disks(sizes, dst)'
      /\ CopiedTo(sizes, actual, written, dst)'
  BY <1>1, <1>2, <1>3 DEF Typed, Errors, HeardOk
<1> QED BY <1>6, <1>7 DEF Inv

(* A frame other than DATA is heard. *)
LEMMA HeardMore ==
  ASSUME NEW c, NEW sd \in Seq(Other), NEW hd, HeardOk(c, sd, hd), NEW g \in SaidFrames(sd),
         c # "dc" => Len(hd) + 1 <= Len(sd) /\ g = Sent(sd[Len(hd) + 1])
  PROVE  HeardOk(c, sd, Append(hd, g)) /\ Len(Append(hd, g)) = Len(hd) + 1
<1> DEFINE S == {Sent(f) : f \in Other}
           h2 == Append(hd, g)
<1>1. /\ hd \in Seq(S) /\ \A j \in 1 .. Len(hd) : hd[j] \in SaidFrames(sd)
      /\ c # "dc" => Len(hd) <= Len(sd) /\ \A j \in 1 .. Len(hd) : hd[j] = Sent(sd[j])
  BY DEF HeardOk
<1>2. g \in S
  <2>1. \A f \in Range(sd) : f \in Other
    BY ElementOfSeq DEF Range
  <2> QED BY <2>1 DEF SaidFrames
<1> HIDE DEF S
<1>3. /\ h2 \in Seq(S) /\ Len(h2) = Len(hd) + 1 /\ Len(hd) \in Nat
      /\ \A j \in 1 .. Len(hd) : h2[j] = hd[j] /\ h2[Len(hd) + 1] = g
  BY <1>1, <1>2, AppendProperties
<1>4. h2[Len(hd) + 1] = g
  BY <1>1, <1>2, AppendProperties
<1> HIDE DEF h2
<1>5. \A j \in 1 .. Len(h2) : j \in 1 .. Len(hd) \/ j = Len(hd) + 1
  BY <1>3
<1>6. \A j \in 1 .. Len(h2) : h2[j] \in SaidFrames(sd)
  BY <1>1, <1>3, <1>4, <1>5
<1>7. ASSUME c # "dc" PROVE Len(h2) <= Len(sd) /\ \A j \in 1 .. Len(h2) : h2[j] = Sent(sd[j])
  BY <1>1, <1>3, <1>4, <1>5, <1>7
<1> QED BY <1>3, <1>6, <1>7 DEF HeardOk, S, h2

LEMMA ReadStreamInv ==
  ASSUME Inv, ReadStream
  PROVE  Inv'
<1> DEFINE r == Read(stream)
<1>1. /\ Typed /\ Errors /\ OnStream /\ OnChannel /\ HeardOk(carrier, said, heard)
      /\ Disks(sizes, dst) /\ CopiedTo(sizes, actual, written, dst)
  BY DEF Inv
<1>2. /\ err = "none" /\ stream # <<>> /\ stream' = r.rest /\ Takes(r)
      /\ UNCHANGED <<carrier, sizes, actual, buf, asked, messages, said>>
  BY DEF ReadStream
<1>3. carrier # "dc"
  BY <1>1, <1>2 DEF OnChannel
<1>4. /\ IsShared(sizes) /\ IsActual(sizes, actual) /\ said \in Seq(Other) /\ messages = {} /\ stream \in Seq(Nat)
      /\ \A j \in ChunksOf(sizes) : partial[j] = Empty
      /\ Flying(sizes, actual, carrier, stream, said, Len(heard))
      /\ carrier \in {"stream", "lost", "dc"} /\ DOMAIN partial = ChunksOf(sizes)
  BY <1>1, <1>2, <1>3 DEF OnStream, Typed
<1>5. Len(heard) \in Nat
  BY <1>1 DEF HeardOk
<1>6. \/ carrier # "stream" /\ r = Failed("eof")
      \/ \E f, b2 : /\ Whole(sizes, actual, f) /\ r = [err |-> "none", frame |-> Sent(f), rest |-> b2]
                    /\ b2 \in Seq(Nat)
                    /\ f \in Other => Len(heard) + 1 <= Len(said) /\ f = said[Len(heard) + 1]
                    /\ Flying(sizes, actual, carrier, b2, said, Len(heard) + Before(f))
  BY <1>2, <1>4, <1>5, FlyingRead
<1> HIDE DEF r
<1>7. OnChannel'
  BY <1>2, <1>3 DEF OnChannel
<1>8. CASE carrier # "stream" /\ r = Failed("eof")
  <2>1. r.err = "eof" /\ r.rest = <<>>
    BY <1>8 DEF Failed
  <2>2. err' = "eof" /\ stream' = <<>> /\ UNCHANGED <<partial, dst, written, heard>>
    BY <1>2, <2>1 DEF Takes
  <2>3. carrier = "lost"
    BY <1>3, <1>4, <1>8
  <2>4. OnStream'
    <3>1. stream' \in Seq(Nat)
      BY <2>2
    <3> QED BY <1>2, <1>4, <2>2, <3>1 DEF OnStream
  <2>5. Typed' /\ Errors' /\ HeardOk(carrier, said, heard)' /\ Disks(sizes, dst)'
        /\ CopiedTo(sizes, actual, written, dst)'
    BY <1>1, <1>2, <2>2, <2>3 DEF Typed, Errors
  <2> QED BY <1>7, <2>4, <2>5 DEF Inv
<1>9. ASSUME NEW f, NEW b2, Whole(sizes, actual, f), r = [err |-> "none", frame |-> Sent(f), rest |-> b2],
             b2 \in Seq(Nat), f \in Other => Len(heard) + 1 <= Len(said) /\ f = said[Len(heard) + 1],
             Flying(sizes, actual, carrier, b2, said, Len(heard) + Before(f))
      PROVE  Inv'
  <2>1. r.err = "none" /\ r.frame = Sent(f) /\ r.rest = b2 /\ stream' = b2
    BY <1>2, <1>9
  <2>2. CASE f \in Other
    <3>1. Sent(f).type # TData
      BY <2>2, OtherFacts
    <3>2. heard' = Append(heard, Sent(f)) /\ UNCHANGED <<partial, dst, written, err>>
      BY <1>2, <2>1, <3>1 DEF Takes
    <3>3. Sent(f) \in SaidFrames(said)
      <4>1. Len(heard) + 1 \in 1 .. Len(said) /\ f = said[Len(heard) + 1]
        BY <1>4, <1>5, <1>9, <2>2
      <4>2. f \in Range(said)
        BY <1>4, <4>1 DEF Range
      <4> QED BY <4>2 DEF SaidFrames
    <3>4. HeardOk(carrier, said, heard') /\ Len(heard') = Len(heard) + 1
      BY <1>1, <1>4, <1>9, <2>2, <3>2, <3>3, HeardMore
    <3>5. Flying(sizes, actual, carrier, b2, said, Len(heard'))
      BY <1>9, <2>2, <3>4 DEF Before
    <3>6. OnStream'
      BY <1>2, <1>4, <1>9, <2>1, <3>2, <3>5 DEF OnStream
    <3>7. Typed' /\ Errors' /\ Disks(sizes, dst)' /\ CopiedTo(sizes, actual, written, dst)'
      BY <1>1, <1>2, <3>2 DEF Typed, Errors
    <3> QED BY <1>2, <1>7, <3>4, <3>6, <3>7 DEF Inv
  <2>3. CASE IsWhole(sizes, actual, f)
    <3>1. f.type = TData /\ Sent(f) = f /\ f \notin Other
      BY <1>4, <1>9, <2>3, WholeFacts, Zenon
    <3>2. OnData(f) /\ heard' = heard
      BY <1>2, <2>1, <3>1 DEF Takes
    <3>3. PICK i \in ChunksOf(sizes), p \in Seq(Nat) :
            f = DataFrame(i, 0, p) /\ Len(p) = Bytes(sizes, i) /\ \A k \in 1 .. Len(p) : Right(sizes, actual, i, k, p[k])
      BY <2>3 DEF IsWhole
    <3>4. f.index = i /\ f.offset = 0 /\ f.payload = p
      BY <3>3 DEF DataFrame, Frame
    <3>5. Bytes(sizes, i) \in Nat \ {0} /\ i \in Nat
      BY <1>4, ChunkFacts
    <3>6. PartOk(sizes, actual, Chunk, f)
      <4>1. \A k \in 1 .. Len(p) : 0 + k = k
        BY <3>3, <3>5
      <4>2. 0 + Len(p) <= Bytes(sizes, i)
        BY <3>3, <3>5
      <4> QED BY <3>3, <3>4, <3>5, <4>1, <4>2, ChunkSets DEF PartOk
    <3>7. partial[i] = Empty /\ partial[i].have = 0
      BY <1>4 DEF Empty
    <3>8. /\ {} \cup (f.offset + 1 .. f.offset + Len(f.payload)) = 1 .. Bytes(sizes, f.index)
          /\ ~(partial[f.index].have + Len(f.payload) < Bytes(sizes, f.index))
      <4> DEFINE n == Bytes(sizes, i)
      <4>1. f.offset + 1 = 1 /\ f.offset + Len(f.payload) = n /\ partial[f.index].have + Len(f.payload) = n
            /\ n \in Nat
        BY <3>3, <3>4, <3>5, <3>7
      <4> HIDE DEF n
      <4>2. ~(n < n) /\ f.offset + 1 .. f.offset + Len(f.payload) = 1 .. n
        BY <4>1
      <4> QED BY <3>4, <4>1, <4>2 DEF n
    <3>9. /\ err' = err /\ Disks(sizes, dst') /\ CopiedTo(sizes, actual, written', dst')
          /\ DOMAIN partial' = Chunk /\ \A j \in Chunk : j # i => partial'[j] = partial[j]
          /\ partial'[i] = Empty
      <4> DEFINE E == {}
      <4>1. /\ \A k \in E : Right(sizes, actual, f.index, k, partial[f.index].buf[k])
            /\ (partial[f.index] = Empty => E = {})
            /\ \/ partial[f.index].have + Len(f.payload) < Bytes(sizes, f.index)
               \/ E \cup (f.offset + 1 .. f.offset + Len(f.payload)) = 1 .. Bytes(sizes, f.index)
        BY <3>8
      <4>2. partial[f.index].have \in Nat /\ DOMAIN partial = Chunk
        BY <1>4, <3>4, <3>7, ChunkSets
      <4> HIDE DEF E
      <4>3. /\ err' = err /\ Disks(sizes, dst') /\ CopiedTo(sizes, actual, written', dst')
            /\ DOMAIN partial' = Chunk /\ \A j \in Chunk : j # f.index => partial'[j] = partial[j]
            /\ IF partial[f.index].have + Len(f.payload) < Bytes(sizes, f.index)
               THEN /\ partial'[f.index].have = partial[f.index].have + Len(f.payload)
                    /\ \A k \in (E \cup (f.offset + 1 .. f.offset + Len(f.payload))) \cap (1 .. Bytes(sizes, f.index)) :
                         Right(sizes, actual, f.index, k, partial'[f.index].buf[k])
               ELSE partial'[f.index] = Empty
        BY <1>1, <1>4, <3>2, <3>6, <4>1, <4>2, OnDataFacts
      <4> QED BY <3>4, <3>8, <4>3
    <3>10. \A j \in ChunksOf(sizes) : partial'[j] = Empty
      BY <1>4, <3>9, ChunkSets
    <3>11. Flying(sizes, actual, carrier, b2, said, Len(heard))
      BY <1>5, <1>9, <3>1 DEF Before
    <3>12. OnStream'
      BY <1>2, <1>4, <1>9, <2>1, <3>2, <3>9, <3>10, <3>11 DEF OnStream
    <3>13. Typed' /\ Errors'
      BY <1>1, <1>2, <3>9, ChunkSets DEF Typed, Errors
    <3>14. HeardOk(carrier, said, heard)' /\ Disks(sizes, dst)' /\ CopiedTo(sizes, actual, written, dst)'
      BY <1>1, <1>2, <3>2, <3>9
    <3> QED BY <1>7, <3>12, <3>13, <3>14 DEF Inv
  <2> QED BY <1>9, <2>2, <2>3 DEF Whole
<1> QED BY <1>6, <1>8, <1>9

LEMMA ReadMessageInv ==
  ASSUME Inv, NEW m \in messages, ReadMessage(m)
  PROVE  Inv'
<1> DEFINE f == FrameIn(m)
<1>1. /\ Typed /\ Errors /\ OnStream /\ OnChannel /\ HeardOk(carrier, said, heard)
      /\ Disks(sizes, dst) /\ CopiedTo(sizes, actual, written, dst)
  BY DEF Inv
<1>2. /\ err = "none" /\ messages' = messages \ {m} /\ Takes(Decode(m))
      /\ UNCHANGED <<carrier, sizes, actual, buf, asked, stream, said>>
  BY DEF ReadMessage
<1>3. carrier = "dc"
  BY <1>1 DEF OnStream
<1>4. /\ IsShared(sizes) /\ IsActual(sizes, actual) /\ said \in Seq(Other) /\ asked \subseteq ChunksOf(sizes)
      /\ DOMAIN partial = ChunksOf(sizes)
  BY <1>1 DEF Typed
<1>5. /\ stream = <<>> /\ Disjoint(messages)
      /\ \A h \in messages : MessageOk(sizes, actual, asked, said, h)
      /\ \A i \in ChunksOf(sizes) : IF i \in asked THEN Joined(sizes, actual, messages, i, partial[i])
                                    ELSE partial[i] = Empty
  BY <1>1, <1>3 DEF OnChannel
<1>6. /\ Decode(m).err = "none"
      /\ f.type = TData => PartOk(sizes, actual, asked, f)
      /\ f.type # TData => f \in SaidFrames(said)
  BY <1>5 DEF MessageOk
<1>7. Decode(m).frame = f
  BY DEF FrameIn
<1>8. Disjoint(messages') /\ \A h \in messages' : MessageOk(sizes, actual, asked, said, h)
  BY <1>2, <1>5 DEF Disjoint
<1>9. OnStream'
  BY <1>2, <1>3 DEF OnStream
<1>10. CASE f.type # TData
  <2>1. heard' = Append(heard, f) /\ UNCHANGED <<partial, dst, written, err>>
    BY <1>2, <1>6, <1>7, <1>10 DEF Takes
  <2>2. HeardOk(carrier, said, heard')
    BY <1>1, <1>3, <1>4, <1>6, <1>10, <2>1, HeardMore
  <2>3. \A j : Come(sizes, messages', j) = Come(sizes, messages, j)
    <3>1. \A j, k : ~Covers(m, j, k)
      BY <1>10 DEF Covers
    <3> QED BY <1>2, <3>1 DEF Come, UnderWay
  <2>4. \A i \in ChunksOf(sizes) : IF i \in asked THEN Joined(sizes, actual, messages', i, partial[i])
                                   ELSE partial[i] = Empty
    BY <1>5, <2>3 DEF Joined
  <2>5. OnChannel'
    BY <1>2, <1>5, <1>8, <2>1, <2>4 DEF OnChannel
  <2>6. Typed' /\ Errors' /\ HeardOk(carrier, said, heard)' /\ Disks(sizes, dst)'
        /\ CopiedTo(sizes, actual, written, dst)'
    BY <1>1, <1>2, <2>1, <2>2 DEF Typed, Errors
  <2> QED BY <1>9, <2>5, <2>6 DEF Inv
<1>11. CASE f.type = TData
  <2> DEFINE i == f.index
             n == Bytes(sizes, i)
             was == partial[i].have
             R == f.offset + 1 .. f.offset + Len(f.payload)
             C == Come(sizes, messages, i)
             D == Come(sizes, messages', i)
  <2>1. PartOk(sizes, actual, asked, f) /\ i \in asked /\ i \in ChunksOf(sizes) /\ i \in Chunk
    BY <1>4, <1>6, <1>11, ChunkSets DEF PartOk
  <2>2. OnData(f) /\ heard' = heard
    BY <1>2, <1>6, <1>7, <1>11 DEF Takes
  <2>3. Joined(sizes, actual, messages, i, partial[i])
    BY <1>5, <2>1
  <2>4. /\ was \in Nat /\ (partial[i] = Empty => C = {})
        /\ (was + Len(f.payload) < n <=> D # 1 .. n)
        /\ was + Len(f.payload) = Cardinality(D)
        /\ D = C \cup R /\ \A k \in C : Right(sizes, actual, i, k, partial[i].buf[k])
        /\ \A j \in asked : j # i => Come(sizes, messages', j) = Come(sizes, messages, j)
    <3> DEFINE ff == f
               pp == partial[i]
               left == messages'
    <3>1. ff = FrameIn(m) /\ Joined(sizes, actual, messages, ff.index, pp) /\ ff.type = TData
      BY <1>11, <2>3
    <3>2. asked \subseteq ChunksOf(sizes) /\ left = messages \ {m}
      BY <1>2, <1>4
    <3>3. AllOk(sizes, actual, asked, said, messages)
      BY <1>5 DEF AllOk
    <3> HIDE DEF f, i, n, was, R, C, D, ff, pp, left
    <3>4. Took(sizes, actual, ff, pp, messages, left) /\ SameBut(sizes, asked, ff.index, messages, left)
      BY <1>4, <3>1, <3>2, <3>3, PartTaken
    <3> QED BY <3>4 DEF Took, SameBut, ff, pp, left, f, i, n, was, R, C, D
  <2>5. /\ err' = err /\ Disks(sizes, dst') /\ CopiedTo(sizes, actual, written', dst')
        /\ DOMAIN partial' = Chunk /\ \A j \in Chunk : j # i => partial'[j] = partial[j]
        /\ IF was + Len(f.payload) < n
           THEN /\ partial'[i].have = was + Len(f.payload)
                /\ \A k \in (C \cup R) \cap (1 .. n) : Right(sizes, actual, i, k, partial'[i].buf[k])
           ELSE partial'[i] = Empty
    <3> DEFINE g == f
               E == C
    <3>1. g.index = i /\ g.offset = f.offset /\ g.payload = f.payload
      OBVIOUS
    <3>2. PartOk(sizes, actual, Chunk, g)
      BY <2>1 DEF PartOk
    <3>3. /\ OnData(g) /\ partial[g.index].have \in Nat /\ (partial[g.index] = Empty => E = {})
          /\ \A k \in E : Right(sizes, actual, g.index, k, partial[g.index].buf[k])
          /\ \/ partial[g.index].have + Len(g.payload) < Bytes(sizes, g.index)
             \/ E \cup (g.offset + 1 .. g.offset + Len(g.payload)) = 1 .. Bytes(sizes, g.index)
      BY <2>2, <2>4
    <3>4. DOMAIN partial = Chunk
      BY <1>4, ChunkSets
    <3> HIDE DEF g, E
    <3>5. /\ err' = err /\ Disks(sizes, dst') /\ CopiedTo(sizes, actual, written', dst')
          /\ DOMAIN partial' = Chunk /\ \A j \in Chunk : j # g.index => partial'[j] = partial[j]
          /\ IF partial[g.index].have + Len(g.payload) < Bytes(sizes, g.index)
             THEN /\ partial'[g.index].have = partial[g.index].have + Len(g.payload)
                  /\ \A k \in (E \cup (g.offset + 1 .. g.offset + Len(g.payload))) \cap (1 .. Bytes(sizes, g.index)) :
                       Right(sizes, actual, g.index, k, partial'[g.index].buf[k])
             ELSE partial'[g.index] = Empty
      BY <1>1, <1>4, <3>2, <3>3, <3>4, OnDataFacts
    <3> QED BY <3>5 DEF g, E
  <2> HIDE DEF f, i, n, was, R, C, D
  <2>6. Joined(sizes, actual, messages', i, partial'[i])
    <3>1. CASE was + Len(f.payload) < n
      <4>1. /\ partial'[i].have = was + Len(f.payload)
            /\ \A k \in (C \cup R) \cap (1 .. n) : Right(sizes, actual, i, k, partial'[i].buf[k])
            /\ D # 1 .. n
        BY <2>4, <2>5, <3>1
      <4>2. D \subseteq 1 .. n
        BY DEF D, n, Come
      <4>3. \A k \in D : Right(sizes, actual, i, k, partial'[i].buf[k])
        BY <2>4, <4>1, <4>2
      <4> QED BY <2>4, <4>1, <4>3 DEF Joined, D, n
    <3>2. CASE ~(was + Len(f.payload) < n)
      <4>1. partial'[i] = Empty /\ D = 1 .. n
        BY <2>4, <2>5, <3>2
      <4> QED BY <4>1 DEF Joined, D, n
    <3> QED BY <3>1, <3>2
  <2>7. \A j \in ChunksOf(sizes) : IF j \in asked THEN Joined(sizes, actual, messages', j, partial'[j])
                                   ELSE partial'[j] = Empty
    <3> SUFFICES ASSUME NEW j \in ChunksOf(sizes)
                 PROVE  IF j \in asked THEN Joined(sizes, actual, messages', j, partial'[j])
                        ELSE partial'[j] = Empty
      OBVIOUS
    <3>1. CASE j = i
      BY <2>1, <2>6, <3>1
    <3>2. CASE j # i
      <4>1. partial'[j] = partial[j]
        BY <2>5, <3>2, ChunkSets
      <4>2. j \in asked => Come(sizes, messages', j) = Come(sizes, messages, j)
        BY <2>4, <3>2
      <4> QED BY <1>5, <4>1, <4>2 DEF Joined
    <3> QED BY <3>1, <3>2
  <2>8. OnChannel'
    BY <1>2, <1>5, <1>8, <2>7 DEF OnChannel
  <2>9. Typed' /\ Errors'
    BY <1>1, <1>2, <2>5, ChunkSets DEF Typed, Errors
  <2>10. HeardOk(carrier, said, heard)' /\ Disks(sizes, dst)' /\ CopiedTo(sizes, actual, written, dst)'
    BY <1>1, <1>2, <2>2, <2>5
  <2> QED BY <1>9, <2>8, <2>9, <2>10 DEF Inv
<1> QED BY <1>10, <1>11

LEMMA NextInv == Inv /\ [Next]_vars => Inv'
<1> SUFFICES ASSUME Inv, [Next]_vars PROVE Inv'
  OBVIOUS
<1>1. CASE \E i \in Chunk : ReadChunk(i)
  BY <1>1, ReadChunkInv
<1>2. CASE \E f \in Other : Say(f)
  BY <1>2, SayInv
<1>3. CASE \E n \in 0 .. Len(stream) : Cut(n)
  BY <1>3, CutInv
<1>4. CASE ReadStream
  BY <1>4, ReadStreamInv
<1>5. CASE \E m \in messages : ReadMessage(m)
  BY <1>5, ReadMessageInv
<1>6. CASE UNCHANGED vars
  BY <1>6 DEF vars, Inv, Typed, Errors, OnStream, OnChannel
<1> QED BY <1>1, <1>2, <1>3, <1>4, <1>5, <1>6 DEF Next

LEMMA Invariance == Spec => []Inv
<1>1. Init => Inv
  BY InitInv
<1>2. Inv /\ [Next]_vars => Inv'
  BY NextInv
<1> QED BY <1>1, <1>2, PTL DEF Spec
-----------------------------------------------------------------------------
(* The properties *)

(* Every byte of a chunk that the receiver wrote is in the file and at the *)
(* offset where the host has it, unless the host's file got shorter        *)
(* (ReadChunk in source.go, SplitData in wire.go, onData in peer.go,       *)
(* WriteChunk in sink.go, and the segments of layout.go that both use).    *)
THEOREM CopiedHolds == Spec => []Copied
<1>1. Inv => Copied
  BY DEF Inv, CopiedTo, Copied, ChunkOf, Content
<1> QED BY <1>1, Invariance, PTL

(* The receiver refuses nothing that the host sends, and no message of a   *)
(* data channel is too large (Encode, Decode and SplitData in wire.go, the *)
(* checks of onData in peer.go and of WriteChunk in sink.go).              *)
THEOREM NothingRefusedHolds == Spec => []NothingRefused
<1>1. Inv => NothingRefused
  <2> SUFFICES ASSUME Inv PROVE NothingRefused
    OBVIOUS
  <2>1. err = "none" \/ (err = "eof" /\ carrier = "lost")
    BY DEF Inv, Errors
  <2>2. \A m \in messages : Len(m) <= MaxMessage
    BY DEF Inv, OnStream, OnChannel, MessageOk
  <2> QED BY <2>1, <2>2 DEF NothingRefused
<1> QED BY <1>1, Invariance, PTL

(* The other frames arrive as they were said, but for an error text that   *)
(* is cut to its limit, and on a stream in the order in which they were    *)
(* written (Encode, Read and ErrorFrame in wire.go).                       *)
THEOREM HeardAsSaidHolds == Spec => []HeardAsSaid
<1>1. Inv => HeardAsSaid
  <2> SUFFICES ASSUME Inv PROVE HeardAsSaid
    OBVIOUS
  <2> DEFINE all == [k \in DOMAIN said |-> Sent(said[k])]
  <2>1. /\ heard \in Seq({Sent(f) : f \in Other}) /\ \A j \in 1 .. Len(heard) : heard[j] \in SaidFrames(said)
        /\ carrier # "dc" => Len(heard) <= Len(said) /\ \A j \in 1 .. Len(heard) : heard[j] = Sent(said[j])
        /\ said \in Seq(Other)
    BY DEF Inv, HeardOk, Typed
  <2>2. ASSUME carrier # "dc" PROVE IsPrefix(heard, all)
    <3>1. Len(heard) \in Nat /\ Len(said) \in Nat /\ DOMAIN said = 1 .. Len(said) /\ Len(all) = Len(said)
      BY <2>1
    <3>2. \A k \in 1 .. Len(said) : all[k] = Sent(said[k])
      BY <3>1
    <3> HIDE DEF all
    <3>3. Len(heard) <= Len(all) /\ \A k \in 1 .. Len(heard) : heard[k] = all[k]
      <4>1. 1 .. Len(heard) \subseteq 1 .. Len(said)
        BY <2>1, <2>2, <3>1
      <4> QED BY <2>1, <2>2, <3>1, <3>2, <4>1
    <3>4. SubSeq(heard, 1, Len(heard)) = SubSeq(all, 1, Len(heard))
      BY <3>1, <3>3
    <3> QED BY <3>3, <3>4 DEF IsPrefix
  <2>3. Range(heard) \subseteq {Sent(f) : f \in Range(said)}
    <3>1. DOMAIN heard = 1 .. Len(heard)
      BY <2>1
    <3> QED BY <2>1, <3>1 DEF Range, SaidFrames
  <2> QED BY <2>2, <2>3 DEF HeardAsSaid
<1> QED BY <1>1, Invariance, PTL
=============================================================================
