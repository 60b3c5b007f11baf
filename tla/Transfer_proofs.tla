-------------------------- MODULE Transfer_proofs --------------------------
(***************************************************************************)
(* Theorems about Transfer, for every value of its constants: types and    *)
(* the bound on what is asked for; RootInv, and the root; what a stream    *)
(* carries; why a run does not go on for ever; and the refinement of       *)
(* Download.                                                               *)
(***************************************************************************)
EXTENDS Transfer, FiniteSetTheorems, WellFoundedInduction, TLAPS

USE DEF sourceVars, sessionVars, toHost, toPeer, schedVars, sinkVars, diskVars,
        bounds

-----------------------------------------------------------------------------
(* Lemmas about chunks and windows *)

(* A window of the manifest consists of chunks, at least one, and its size *)
(* is what windowSize says.                                                *)
LEMMA WindowFacts ==
  ASSUME NEW w \in WindowIds
  PROVE  /\ windowSize(w) \in Nat
         /\ Window(w) \subseteq Chunk
         /\ IsFiniteSet(Window(w))
         /\ Cardinality(Window(w)) = windowSize(w)
<1> DEFINE a == w * HashWindow
<1>1. Chunks \in Nat /\ HashWindow \in Nat \ {0}
  BY ConstantsAssumption
<1>2. w \in Nat /\ a \in Nat /\ w <= Windows - 1 /\ Windows \in Int
  BY <1>1 DEF WindowIds, Windows
<1>3. Windows * HashWindow <= Chunks + HashWindow - 1
  BY <1>1 DEF Windows
<1>4. (w + 1) * HashWindow <= Windows * HashWindow
  BY <1>1, <1>2
<1>5. (w + 1) * HashWindow = a + HashWindow
  BY <1>1, <1>2
<1>6. a + 1 <= Chunks
  <2> HIDE DEF a
  <2> DEFINE b == Windows * HashWindow
  <2>1. b \in Int
    BY <1>1, <1>2
  <2>2. b <= Chunks + HashWindow - 1 /\ a + HashWindow <= b
    BY <1>3, <1>4, <1>5
  <2> HIDE DEF b
  <2> QED BY <2>1, <2>2, <1>1, <1>2
<1>7. windowSize(w) \in Nat /\ a + windowSize(w) <= Chunks
  BY <1>1, <1>2, <1>6 DEF windowSize
<1>8. Window(w) = a .. a + windowSize(w) - 1
  BY DEF Window
<1> HIDE DEF a
<1>9. Window(w) \subseteq Chunk
  BY <1>1, <1>2, <1>7, <1>8 DEF Chunk
<1>10. IsFiniteSet(Window(w)) /\ Cardinality(Window(w)) = windowSize(w)
  <2>1. a + windowSize(w) - 1 \in Int /\ a \in Int
    BY <1>2, <1>7
  <2>2. /\ IsFiniteSet(a .. a + windowSize(w) - 1)
        /\ Cardinality(a .. a + windowSize(w) - 1) =
             IF a > a + windowSize(w) - 1 THEN 0
             ELSE (a + windowSize(w) - 1) - a + 1
    BY <2>1, FS_Interval, Zenon
  <2> QED BY <1>2, <1>7, <1>8, <2>2
<1> QED BY <1>7, <1>9, <1>10

(* WindowOf names the one window a chunk belongs to. *)
LEMMA WindowOfFacts ==
  ASSUME NEW i \in Chunk
  PROVE  /\ WindowOf(i) \in WindowIds
         /\ i \in Window(WindowOf(i))
         /\ \A w \in WindowIds : i \in Window(w) => w = WindowOf(i)
<1> DEFINE w0 == WindowOf(i)
           r == i % HashWindow
<1>1. Chunks \in Nat /\ HashWindow \in Nat \ {0} /\ i \in Nat /\ i < Chunks
  BY ConstantsAssumption DEF Chunk
<1>2. w0 \in Nat /\ r \in 0 .. HashWindow - 1 /\ i = w0 * HashWindow + r
  BY <1>1 DEF WindowOf
<1>3. w0 * HashWindow \in Nat
  BY <1>1, <1>2
<1>4. w0 <= Windows - 1
  BY <1>1, <1>2, <1>3 DEF Windows
<1>5. w0 \in WindowIds
  BY <1>2, <1>4 DEF WindowIds
<1>6. ASSUME NEW w \in WindowIds
      PROVE  i \in Window(w) <=> w * HashWindow <= i /\ i < w * HashWindow + HashWindow
  <2>1. w \in Nat /\ w * HashWindow \in Nat
    BY <1>1 DEF WindowIds
  <2> DEFINE b == w * HashWindow
  <2>2. windowSize(w) = IF Chunks - b > HashWindow THEN HashWindow ELSE Chunks - b
    BY DEF windowSize
  <2>3. Window(w) = b .. b + windowSize(w) - 1
    BY DEF Window
  <2>4. b \in Nat
    BY <2>1
  <2> HIDE DEF b
  <2>5. i \in Window(w) <=> b <= i /\ i < b + HashWindow
    BY <1>1, <2>2, <2>3, <2>4
  <2> QED BY <2>5 DEF b
<1>7. i \in Window(w0)
  <2> DEFINE b == w0 * HashWindow
  <2>1. b \in Nat /\ i = b + r
    BY <1>2, <1>3
  <2> HIDE DEF b, w0
  <2>2. b <= i /\ i < b + HashWindow
    BY <1>1, <1>2, <2>1
  <2> QED BY <1>5, <1>6, <2>2 DEF b
<1>8. ASSUME NEW w \in WindowIds, i \in Window(w)
      PROVE  w = w0
  <2> DEFINE b == w0 * HashWindow
             c == w * HashWindow
  <2>1. w \in Nat /\ b \in Nat /\ c \in Nat
    BY <1>1, <1>3 DEF WindowIds
  <2>2. b <= i /\ i < b + HashWindow /\ c <= i /\ i < c + HashWindow
    BY <1>5, <1>6, <1>7, <1>8
  <2>3. w < w0 => c + HashWindow <= b
    <3>1. w < w0 => (w + 1) * HashWindow <= w0 * HashWindow
      BY <1>1, <1>2, <2>1
    <3>2. (w + 1) * HashWindow = w * HashWindow + HashWindow
      BY <1>1, <2>1
    <3> QED BY <3>1, <3>2
  <2>4. w0 < w => b + HashWindow <= c
    <3>1. w0 < w => (w0 + 1) * HashWindow <= w * HashWindow
      BY <1>1, <1>2, <2>1
    <3>2. (w0 + 1) * HashWindow = w0 * HashWindow + HashWindow
      BY <1>1, <1>2
    <3> QED BY <3>1, <3>2
  <2>5. w0 \in Nat
    BY <1>2
  <2> HIDE DEF b, c, w0
  <2> QED BY <1>1, <2>1, <2>2, <2>3, <2>4, <2>5
<1> QED BY <1>5, <1>7, <1>8
-----------------------------------------------------------------------------
(* Lemmas about the queue *)

LEMMA ChunkFinite ==
  /\ IsFiniteSet(Chunk) /\ IsFiniteSet(WindowIds)
  /\ \A S \in SUBSET Chunk : IsFiniteSet(S) /\ Cardinality(S) \in Nat
<1>1. Chunks \in Nat /\ Windows \in Int
  BY ConstantsAssumption DEF Windows
<1>2. IsFiniteSet(Chunk) /\ IsFiniteSet(WindowIds)
  <2>1. Chunks - 1 \in Int /\ Windows - 1 \in Int /\ 0 \in Int
    BY <1>1
  <2> QED BY <2>1, FS_Interval DEF Chunk, WindowIds
<1> QED BY <1>2, FS_Subset, FS_CardinalityType

(* The one member of Ascending(S) lists S without repetition. *)
LEMMA AscendingFacts ==
  ASSUME NEW S \in SUBSET Chunk, NEW q \in Ascending(S)
  PROVE  /\ q \in Seq(Chunk)
         /\ \A a \in DOMAIN q : q[a] \in S
         /\ \A i \in S : \E a \in DOMAIN q : q[a] = i
         /\ \A a, b \in DOMAIN q : q[a] = q[b] => a = b
<1>1. Cardinality(S) \in Nat
  BY ChunkFinite
<1>2. q \in [1 .. Cardinality(S) -> S] /\ DOMAIN q = 1 .. Cardinality(S)
  BY DEF Ascending
<1>3. q \in Seq(Chunk)
  BY <1>1, <1>2
<1>4. ASSUME NEW a \in DOMAIN q, NEW b \in DOMAIN q, q[a] = q[b]
      PROVE  a = b
  <2>1. q[a] \in Int /\ a \in Int /\ b \in Int
    <3>1. q[a] \in Chunk
      BY <1>2
    <3>2. a \in 1 .. Cardinality(S) /\ b \in 1 .. Cardinality(S)
      BY <1>2
    <3> QED BY <3>1, <3>2, <1>1, ConstantsAssumption DEF Chunk
  <2>2. a < b => q[a] < q[b]
    BY DEF Ascending
  <2>3. b < a => q[b] < q[a]
    BY DEF Ascending
  <2> QED BY <2>1, <2>2, <2>3, <1>4
<1> QED BY <1>2, <1>3, <1>4 DEF Ascending

(* fill requests the first FillCount members of the queue, never more than *)
(* InFlight leaves room for, and leaves the others queued in order.        *)
LEMMA FillFacts ==
  ASSUME NEW q \in Seq(Chunk), NEW out \in Int, out <= InFlight, NEW rs,
         fill(q, out, rs)
  PROVE  /\ FillCount(q, out) \in 0 .. Len(q)
         /\ queue' \in Seq(Chunk)
         /\ outstanding' \in Int /\ outstanding' <= InFlight
         /\ reqs' = rs \cup FillReqs(q, FillCount(q, out))
         /\ DOMAIN queue' = 1 .. Len(q) - FillCount(q, out)
         /\ \A a \in DOMAIN queue' :
              a + FillCount(q, out) \in DOMAIN q /\ queue'[a] = q[a + FillCount(q, out)]
<1> DEFINE k == FillCount(q, out)
<1>1. k \in 0 .. Len(q) /\ out + k <= InFlight
  BY ConstantsAssumption DEF FillCount
<1>2. queue' = SubSeq(q, k + 1, Len(q)) /\ outstanding' = out + k
      /\ reqs' = rs \cup FillReqs(q, k)
  BY DEF fill
<1> HIDE DEF k
<1>3. queue' \in Seq(Chunk) /\ DOMAIN queue' = 1 .. Len(q) - k
      /\ \A a \in DOMAIN queue' : a + k \in DOMAIN q /\ queue'[a] = q[a + k]
  BY <1>1, <1>2
<1>4. outstanding' \in Int /\ outstanding' <= InFlight
  BY <1>1, <1>2, ConstantsAssumption
<1> QED BY <1>1, <1>2, <1>3, <1>4 DEF k

(* One REQ frame of fill: a run of the queue. *)
LEMMA RunFacts ==
  ASSUME NEW q \in Seq(Chunk), NEW k \in 0 .. Len(q), NEW r \in FillReqs(q, k)
  PROVE  /\ r \in Req /\ r.first + r.count <= Chunks
         /\ \E a, b \in 1 .. k :
              /\ a <= b /\ IsRun(q, k, a, b)
              /\ r = [first |-> q[a], count |-> b - a + 1]
              /\ \A i \in ReqChunks(r) : i - q[a] + a \in a .. b /\ q[i - q[a] + a] = i
<1>1. PICK ab \in (1 .. k) \X (1 .. k) :
         /\ ab[1] <= ab[2] /\ IsRun(q, k, ab[1], ab[2])
         /\ r = [first |-> q[ab[1]], count |-> ab[2] - ab[1] + 1]
  BY DEF FillReqs
<1> DEFINE a == ab[1]
           b == ab[2]
<1>2. a \in 1 .. k /\ b \in 1 .. k /\ a <= b /\ IsRun(q, k, a, b)
      /\ r = [first |-> q[a], count |-> b - a + 1]
  BY <1>1
<1> HIDE DEF a, b
<1>3. /\ Chunks \in Nat /\ a \in Int /\ b \in Int
      /\ \A c \in 1 .. k : q[c] \in 0 .. Chunks - 1
  BY <1>2, ConstantsAssumption, SMTT(60) DEF Chunk
<1>4. \A c \in a .. b : q[c] = q[a] + (c - a)
  BY <1>2 DEF IsRun
<1>5. q[b] = q[a] + (b - a)
  BY <1>2, <1>3, <1>4
<1>6. r.first = q[a] /\ r.count = b - a + 1
  BY <1>2
<1>7. r \in Req /\ r.first + r.count <= Chunks
  <2>1. q[a] \in Chunk /\ q[a] \in Int /\ q[b] \in Int
        /\ 0 <= q[a] /\ q[b] <= Chunks - 1
    BY <1>2, <1>3, SMTT(60) DEF Chunk
  <2>2. b - a + 1 \in 1 .. Chunks /\ q[a] + (b - a + 1) <= Chunks
    BY <2>1, <1>2, <1>3, <1>5, SMTT(60)
  <2> QED BY <1>2, <2>1, <2>2 DEF Req
<1>8. ASSUME NEW i \in ReqChunks(r)
      PROVE  i - q[a] + a \in a .. b /\ q[i - q[a] + a] = i
  <2>1. i \in Int /\ q[a] <= i /\ i <= q[a] + (b - a) /\ q[a] \in Int
    BY <1>2, <1>3, <1>6 DEF ReqChunks
  <2>2. i - q[a] + a \in a .. b
    BY <2>1, <1>3, SMTT(60)
  <2>3. q[i - q[a] + a] = q[a] + ((i - q[a] + a) - a)
    BY <2>2, <1>4
  <2> QED BY <2>1, <2>2, <2>3, <1>3, SMTT(60)
<1> QED BY <1>2, <1>7, <1>8

(* Two different REQ frames of one fill have no chunk in common. *)
LEMMA RunsDisjoint ==
  ASSUME NEW q \in Seq(Chunk), NEW k \in 0 .. Len(q),
         \A a, b \in DOMAIN q : q[a] = q[b] => a = b,
         NEW r1 \in FillReqs(q, k), NEW r2 \in FillReqs(q, k), r1 # r2
  PROVE  ReqChunks(r1) \cap ReqChunks(r2) = {}
<1> SUFFICES ASSUME NEW i \in ReqChunks(r1) \cap ReqChunks(r2)
             PROVE  r1 = r2
  OBVIOUS
<1>1. PICK a, b \in 1 .. k :
         /\ a <= b /\ IsRun(q, k, a, b)
         /\ r1 = [first |-> q[a], count |-> b - a + 1]
         /\ i - q[a] + a \in a .. b /\ q[i - q[a] + a] = i
  BY RunFacts
<1>2. PICK c, d \in 1 .. k :
         /\ c <= d /\ IsRun(q, k, c, d)
         /\ r2 = [first |-> q[c], count |-> d - c + 1]
         /\ i - q[c] + c \in c .. d /\ q[i - q[c] + c] = i
  BY RunFacts
<1>0. \A e \in 1 .. k : q[e] \in Int /\ e \in DOMAIN q
  BY ConstantsAssumption DEF Chunk
<1>3. PICK p : p \in a .. b /\ p \in c .. d
  <2>1. i - q[a] + a \in DOMAIN q /\ i - q[c] + c \in DOMAIN q
    BY <1>1, <1>2
  <2>2. i - q[a] + a = i - q[c] + c
    BY <2>1, <1>1, <1>2
  <2> QED BY <2>2, <1>1, <1>2
<1>4. /\ \A e \in a .. b : q[e] = q[a] + (e - a)
      /\ a = 1 \/ q[a] # q[a - 1] + 1
      /\ b = k \/ q[b + 1] # q[b] + 1
  BY <1>1 DEF IsRun
<1>5. /\ \A e \in c .. d : q[e] = q[c] + (e - c)
      /\ c = 1 \/ q[c] # q[c - 1] + 1
      /\ d = k \/ q[d + 1] # q[d] + 1
  BY <1>2 DEF IsRun
<1>6. a = c
  <2>1. ~(a < c)
    <3> SUFFICES ASSUME a < c PROVE FALSE
      OBVIOUS
    <3>1. c \in a .. b /\ c - 1 \in a .. b /\ c # 1
      BY <1>1, <1>2, <1>3
    <3>2. q[c] = q[a] + (c - a) /\ q[c - 1] = q[a] + ((c - 1) - a)
      BY <3>1, <1>4
    <3>3. q[c] = q[c - 1] + 1
      <4>1. q[a] \in Int /\ a \in Int /\ c \in Int
        BY <1>0
      <4>2. \A z \in Int : z + (c - a) = (z + ((c - 1) - a)) + 1
        BY <4>1
      <4> QED BY <3>2, <4>1, <4>2
    <3> QED BY <3>1, <3>3, <1>4, <1>5
  <2>2. ~(c < a)
    <3> SUFFICES ASSUME c < a PROVE FALSE
      OBVIOUS
    <3>1. a \in c .. d /\ a - 1 \in c .. d /\ a # 1
      BY <1>1, <1>2, <1>3
    <3>2. q[a] = q[c] + (a - c) /\ q[a - 1] = q[c] + ((a - 1) - c)
      BY <3>1, <1>5
    <3>3. q[a] = q[a - 1] + 1
      <4>1. q[c] \in Int /\ a \in Int /\ c \in Int
        BY <1>0
      <4>2. \A z \in Int : z + (a - c) = (z + ((a - 1) - c)) + 1
        BY <4>1
      <4> QED BY <3>2, <4>1, <4>2
    <3> QED BY <3>1, <3>3, <1>4, <1>5
  <2> QED BY <2>1, <2>2
<1>7. b = d
  <2>1. ~(b < d)
    <3> SUFFICES ASSUME b < d PROVE FALSE
      OBVIOUS
    <3>1. b \in c .. d /\ b + 1 \in c .. d /\ b # k
      BY <1>1, <1>2, <1>3
    <3>2. q[b] = q[c] + (b - c) /\ q[b + 1] = q[c] + (b + 1 - c)
      BY <3>1, <1>5
    <3>3. q[b + 1] = q[b] + 1
      BY <3>2, <1>0
    <3> QED BY <3>1, <3>3, <1>4, <1>5
  <2>2. ~(d < b)
    <3> SUFFICES ASSUME d < b PROVE FALSE
      OBVIOUS
    <3>1. d \in a .. b /\ d + 1 \in a .. b /\ d # k
      BY <1>1, <1>2, <1>3
    <3>2. q[d] = q[a] + (d - a) /\ q[d + 1] = q[a] + (d + 1 - a)
      BY <3>1, <1>4
    <3>3. q[d + 1] = q[d] + 1
      BY <3>2, <1>0
    <3> QED BY <3>1, <3>3, <1>4, <1>5
  <2> QED BY <2>1, <2>2
<1> QED BY <1>1, <1>2, <1>6, <1>7
-----------------------------------------------------------------------------
(* Type correctness *)

LEMMA DataFacts ==
  /\ \A d \in Data : Sum(d) \in Hash
  /\ \A hs \in [Chunk -> Hash \cup {None}] : Root(hs) \in Roots
  /\ \A v \in Val : Whole(v) \in Data
  /\ Blank \in Data /\ NoPartial \in [buf : Data, have : Nat]
  BY DEF Data, Hash, Roots, Whole, Blank, NoPartial

(* Also for the empty window 0 of a manifest without chunks. *)
LEMMA AnyWindow ==
  ASSUME NEW w \in {0} \cup WindowIds
  PROVE  Window(w) \subseteq Chunk
<1>1. CASE w \in WindowIds
  BY <1>1, WindowFacts
<1>2. CASE w = 0 /\ w \notin WindowIds
  <2>1. Chunks \in Nat /\ HashWindow \in Nat \ {0} /\ Windows \in Int
    BY ConstantsAssumption DEF Windows
  <2>2. Windows <= 0
    BY <1>2, <2>1 DEF WindowIds
  <2>3. Chunks = 0
    BY <2>1, <2>2 DEF Windows
  <2> QED BY <1>2, <2>1, <2>3 DEF Window, windowSize
<1> QED BY <1>1, <1>2

LEMMA CachedType ==
  ASSUME TypeOK, NEW S \in SUBSET Chunk
  PROVE  Cached(S) \in [Chunk -> Hash \cup {None}]
<1>1. \A i \in Chunk : Sum(Whole(file[i])) \in Hash
  BY DataFacts DEF TypeOK
<1> QED BY <1>1 DEF TypeOK, Cached

(* Every fill keeps the types of the variables it changes. *)
LEMMA FillType ==
  ASSUME NEW q \in Seq(Chunk), NEW out \in Int, out <= InFlight, NEW rs,
         rs \subseteq Req, \A r \in rs : r.first + r.count <= Chunks,
         fill(q, out, rs)
  PROVE  /\ queue' \in Seq(Chunk)
         /\ outstanding' \in Int /\ outstanding' <= InFlight
         /\ reqs' \subseteq Req /\ \A r \in reqs' : r.first + r.count <= Chunks
<1>1. FillCount(q, out) \in 0 .. Len(q)
      /\ reqs' = rs \cup FillReqs(q, FillCount(q, out))
  BY FillFacts
<1>2. \A r \in FillReqs(q, FillCount(q, out)) :
        r \in Req /\ r.first + r.count <= Chunks
  BY <1>1, RunFacts
<1> QED BY <1>1, <1>2, FillFacts

(* The values variables have when there is nothing in them. *)
LEMMA EmptyTypes ==
  /\ [i \in Chunk |-> None] \in [Chunk -> Hash \cup {None}]
  /\ [i \in Chunk |-> Blank] \in [Chunk -> Data]
  /\ [i \in Chunk |-> NoPartial] \in [Chunk -> [buf : Data, have : Nat]]
  /\ [i \in Chunk |-> 0] \in [Chunk -> 0 .. MaxAttempts]
  /\ [w \in WindowIds |-> 0] \in [WindowIds -> Int]
  /\ [w \in WindowIds |-> 0] \in [WindowIds -> 0 .. 2]
  /\ Idle \in [next : 0 .. Chunks, end : 0 .. Chunks]
  /\ <<>> \in Seq(Chunk)
  /\ 0 <= InFlight
  BY DataFacts, ConstantsAssumption DEF Idle

LEMMA ForgetType ==
  ASSUME Forget, CloseStream
  PROVE  /\ queue' \in Seq(Chunk) /\ outstanding' = 0 /\ outstanding' <= InFlight
         /\ partial' \in [Chunk -> [buf : Data, have : Nat]]
         /\ attempts' \in [Chunk -> 0 .. MaxAttempts]
         /\ winRecv' \in [WindowIds -> Int] /\ winState' \in [WindowIds -> 0 .. 2]
         /\ verified' = 0 /\ root' = None
         /\ bitmap' = {} /\ hashes' \in [Chunk -> Hash \cup {None}] /\ dirty' = 0
         /\ reqs' = {} /\ hashReqs' = {} /\ datas' = {} /\ hashReplies' = {}
         /\ dones' = {} /\ errors' = {}
         /\ serving' \in [next : 0 .. Chunks, end : 0 .. Chunks]
         /\ lastRequested' = FALSE /\ doneSent' = FALSE
  BY EmptyTypes DEF Forget, CloseStream

LEMMA FailRunType ==
  ASSUME TypeOK, NEW why \in Outcomes, NEW b \in SUBSET Chunk, FailRun(why, b)
  PROVE  TypeOK'
<1>1. /\ phase' = "idle" /\ outcome' = why
      /\ sidecar' = [bitmap |-> b, hashes |-> hashes]
      /\ Forget /\ CloseStream
      /\ UNCHANGED <<sourceVars, disk, heldLast, bounds>>
  BY DEF FailRun, SaveSidecar
<1> QED BY <1>1, ForgetType DEF TypeOK

LEMMA TypeInit == Init => TypeOK
<1> SUFFICES ASSUME Init PROVE TypeOK
  OBVIOUS
<1>1. PICK v \in Val : file = [i \in Chunk |-> v]
  BY DEF Init
<1>2. file \in [Chunk -> Val]
  BY <1>1
<1>3. /\ queue \in Seq(Chunk) /\ outstanding \in Int /\ outstanding <= InFlight
      /\ partial \in [Chunk -> [buf : Data, have : Nat]]
      /\ attempts \in [Chunk -> 0 .. MaxAttempts]
      /\ winRecv \in [WindowIds -> Int] /\ winState \in [WindowIds -> 0 .. 2]
      /\ hashes \in [Chunk -> Hash \cup {None}]
      /\ srcHash \in [Chunk -> Hash \cup {None}]
      /\ disk \in [Chunk -> Data]
      /\ serving \in [next : 0 .. Chunks, end : 0 .. Chunks]
  BY EmptyTypes DEF Init
<1> QED BY <1>2, <1>3 DEF Init, TypeOK, Outcomes

LEMMA TypeStep == TypeOK /\ [Next]_vars => TypeOK'
<1> SUFFICES ASSUME TypeOK, [Next]_vars
             PROVE  TypeOK'
  OBVIOUS
<1>0. /\ NoPartial \in [buf : Data, have : Nat] /\ Blank \in Data
      /\ MaxAttempts \in Nat /\ InFlight \in Nat \ {0} /\ Chunks \in Nat
      /\ SaveEvery \in Nat /\ Pieces \in Nat
  BY DataFacts, ConstantsAssumption
<1>1. CASE StartRun
  <2> DEFINE held == IF sidecar = None THEN {} ELSE sidecar.bitmap
             hs == IF sidecar = None THEN [i \in Chunk |-> None] ELSE sidecar.hashes
             recv == [w \in WindowIds |-> Cardinality(Window(w) \cap held)]
             full == {w \in WindowIds : recv[w] = windowSize(w)}
  <2>1. held \in SUBSET Chunk /\ hs \in [Chunk -> Hash \cup {None}]
    BY DEF TypeOK
  <2>2. \A w \in WindowIds : Cardinality(Window(w) \cap held) \in Int
    BY <2>1, ChunkFinite
  <2>3. PICK q \in Ascending(Chunk \ held) : fill(q, 0, {})
    BY <1>1 DEF StartRun, OpenSink, SaveSidecar
  <2>4. /\ queue' \in Seq(Chunk)
        /\ outstanding' \in Int /\ outstanding' <= InFlight
        /\ reqs' \subseteq Req /\ \A r \in reqs' : r.first + r.count <= Chunks
    BY <1>0, <2>3, FillType, AscendingFacts
  <2>5. /\ bitmap' = held /\ hashes' = hs /\ dirty' = 0
        /\ sidecar' = [bitmap |-> held, hashes |-> hs]
        /\ partial' = [i \in Chunk |-> NoPartial]
        /\ attempts' = [i \in Chunk |-> 0]
        /\ winRecv' = recv
        /\ winState' = [w \in WindowIds |-> IF w \in full THEN 1 ELSE 0]
        /\ hashReqs' = full \cup (IF Chunks = 0 THEN {0} ELSE {})
        /\ heldLast' = (Chunks - 1 \in held)
        /\ verified' = 0 /\ root' = None
        /\ phase' = "running" /\ outcome' = "none" /\ runs' = runs + 1
        /\ UNCHANGED <<sourceVars, sessionVars, toPeer, disk, edits, restarts, deletes>>
    BY <1>1 DEF StartRun, OpenSink, SaveSidecar
  <2> HIDE DEF held, hs
  <2>6. /\ winRecv' \in [WindowIds -> Int] /\ winState' \in [WindowIds -> 0 .. 2]
        /\ hashReqs' \subseteq {0} \cup WindowIds
    BY <2>2, <2>5
  <2>7. /\ sidecar' \in {None} \cup [bitmap : SUBSET Chunk,
                              hashes : [Chunk -> Hash \cup {None}]]
        /\ runs' \in Nat /\ heldLast' \in BOOLEAN
    BY <2>1, <2>5 DEF TypeOK
  <2> QED BY <2>1, <2>4, <2>5, <2>6, <2>7, EmptyTypes DEF TypeOK, Outcomes
<1>2. CASE OnDataPart
  <2>1. PICK d \in datas :
          /\ partial' = [partial EXCEPT ![d.index] =
                           [buf |-> Assembled(d), have |-> partial[d.index].have + 1]]
          /\ datas' = datas \ {d}
    BY <1>2 DEF OnDataPart
  <2>2. d.index \in Chunk /\ Assembled(d) \in Data
    BY DEF TypeOK, Assembled, Data
  <2>3. partial' \in [Chunk -> [buf : Data, have : Nat]]
    BY <2>1, <2>2 DEF TypeOK
  <2>4. /\ queue' \in Seq(Chunk)
        /\ outstanding' \in Int /\ outstanding' <= InFlight
        /\ reqs' \subseteq Req /\ \A r \in reqs' : r.first + r.count <= Chunks
    BY <1>2, FillType DEF OnDataPart, TypeOK
  <2> QED BY <1>2, <2>1, <2>3, <2>4 DEF OnDataPart, TypeOK
<1>3. CASE OnDataChunk
  <2>1. PICK d \in datas :
       LET i == d.index
           buf == Assembled(d)
           w == WindowOf(i)
           ask == winRecv[w] + 1 = windowSize(w) /\ winState[w] = 0
           flush == dirty + 1 >= SaveEvery
       IN /\ partial' = [partial EXCEPT ![i] = NoPartial]
          /\ disk' = Written(i, buf)
          /\ hashes' = [hashes EXCEPT ![i] = Sum(buf)]
          /\ bitmap' = bitmap \cup {i}
          /\ dirty' = IF flush THEN 0 ELSE dirty + 1
          /\ sidecar' = IF flush THEN [bitmap |-> bitmap', hashes |-> hashes']
                        ELSE sidecar
          /\ winRecv' = [winRecv EXCEPT ![w] = @ + 1]
          /\ winState' = IF ask THEN [winState EXCEPT ![w] = 1] ELSE winState
          /\ hashReqs' = IF ask THEN hashReqs \cup {w} ELSE hashReqs
          /\ datas' = datas \ {d}
          /\ fill(queue, outstanding - 1, reqs)
    BY <1>3 DEF OnDataChunk, SaveSidecar
  <2>2. d.index \in Chunk /\ Assembled(d) \in Data
    BY DEF TypeOK, Assembled, Data
  <2>3. WindowOf(d.index) \in WindowIds
    BY <2>2, WindowOfFacts
  <2>4. /\ queue' \in Seq(Chunk)
        /\ outstanding' \in Int /\ outstanding' <= InFlight
        /\ reqs' \subseteq Req /\ \A r \in reqs' : r.first + r.count <= Chunks
    <3>1. outstanding - 1 \in Int /\ outstanding - 1 <= InFlight
      BY <1>0, SMTT(60) DEF TypeOK
    <3> QED BY <2>1, <3>1, FillType DEF TypeOK
  <2>5. /\ hashes' \in [Chunk -> Hash \cup {None}] /\ bitmap' \subseteq Chunk
        /\ disk' \in [Chunk -> Data]
        /\ partial' \in [Chunk -> [buf : Data, have : Nat]]
    BY <2>1, <2>2, <1>0, DataFacts DEF TypeOK, Written
  <2>6. /\ sidecar' \in {None} \cup [bitmap : SUBSET Chunk,
                              hashes : [Chunk -> Hash \cup {None}]]
        /\ dirty' \in Nat
    BY <2>1, <2>5, SMTT(60) DEF TypeOK
  <2>7. /\ winRecv' \in [WindowIds -> Int] /\ winState' \in [WindowIds -> 0 .. 2]
        /\ hashReqs' \subseteq {0} \cup WindowIds
    <3> DEFINE w == WindowOf(d.index)
               ask == winRecv[w] + 1 = windowSize(w) /\ winState[w] = 0
    <3>1. /\ winRecv' = [winRecv EXCEPT ![w] = winRecv[w] + 1]
          /\ winState' = IF ask THEN [winState EXCEPT ![w] = 1] ELSE winState
          /\ hashReqs' = IF ask THEN hashReqs \cup {w} ELSE hashReqs
      BY <2>1
    <3>2. /\ winRecv \in [WindowIds -> Int] /\ winState \in [WindowIds -> 0 .. 2]
          /\ hashReqs \subseteq {0} \cup WindowIds /\ w \in WindowIds
      BY <2>3 DEF TypeOK
    <3> HIDE DEF w, ask
    <3>3. winRecv[w] + 1 \in Int
      BY <3>2
    <3>4. winRecv' \in [WindowIds -> Int]
      BY <3>1, <3>2, <3>3
    <3>5. winState' \in [WindowIds -> 0 .. 2]
      BY <3>1, <3>2
    <3>6. hashReqs' \subseteq {0} \cup WindowIds
      BY <3>1, <3>2
    <3> QED BY <3>4, <3>5, <3>6
  <2>8. datas' \subseteq datas
    BY <2>1
  <2>9. UNCHANGED <<sourceVars, sessionVars, hashReplies, dones, errors, phase,
                 attempts, verified, root, outcome, heldLast, bounds>>
    BY <1>3 DEF OnDataChunk, SaveSidecar
  <2> QED BY <2>4, <2>5, <2>6, <2>7, <2>8, <2>9 DEF TypeOK
<1>4. CASE OnHashGood
  <2>1. PICK h \in hashReplies :
       /\ IF Chunks > 0 /\ winState[h.win] # 2
          THEN /\ winState' = [winState EXCEPT ![h.win] = 2]
               /\ verified' = verified + 1
          ELSE UNCHANGED <<winState, verified>>
       /\ hashReplies' = hashReplies \ {h}
    BY <1>4 DEF OnHashGood
  <2>2. winState' \in [WindowIds -> 0 .. 2] /\ verified' \in Nat
    <3>1. winState \in [WindowIds -> 0 .. 2] /\ verified \in Nat
          /\ 2 \in 0 .. 2 /\ verified + 1 \in Nat
      BY DEF TypeOK
    <3> QED BY <2>1, <3>1
  <2>4. /\ queue' \in Seq(Chunk)
        /\ outstanding' \in Int /\ outstanding' <= InFlight
        /\ reqs' \subseteq Req /\ \A r \in reqs' : r.first + r.count <= Chunks
    BY <1>4, FillType DEF OnHashGood, TypeOK
  <2> QED BY <1>4, <2>1, <2>2, <2>4 DEF OnHashGood, TypeOK
<1>5. CASE OnHashBad
  <2>1. PICK h \in hashReplies :
          /\ \A i \in Verify(h) : attempts[i] + 1 <= MaxAttempts
          /\ attempts' = [i \in Chunk |-> IF i \in Verify(h) THEN attempts[i] + 1
                                          ELSE attempts[i]]
          /\ bitmap' = bitmap \ Verify(h)
          /\ winState' = [winState EXCEPT ![h.win] = 0]
          /\ winRecv' = [winRecv EXCEPT ![h.win] = @ - Cardinality(Verify(h))]
          /\ hashReplies' = hashReplies \ {h}
          /\ \E b \in Ascending(Verify(h)) : fill(b \o queue, outstanding, reqs)
    BY <1>5 DEF OnHashBad
  <2>2. Verify(h) \in SUBSET Chunk /\ Cardinality(Verify(h)) \in Int
    <3>1. Verify(h) \in SUBSET Chunk
      BY DEF Verify, TypeOK
    <3> QED BY <3>1, ChunkFinite
  <2>3. /\ attempts' \in [Chunk -> 0 .. MaxAttempts] /\ bitmap' \subseteq Chunk
        /\ winState' \in [WindowIds -> 0 .. 2] /\ winRecv' \in [WindowIds -> Int]
    <3>1. attempts' \in [Chunk -> 0 .. MaxAttempts]
      <4>1. \A i \in Verify(h) : attempts[i] + 1 \in 0 .. MaxAttempts
        BY <1>0, <2>1, <2>2 DEF TypeOK
      <4> QED BY <2>1, <4>1 DEF TypeOK
    <3>2. winState' \in [WindowIds -> 0 .. 2] /\ bitmap' \subseteq Chunk
      <4>1. winState \in [WindowIds -> 0 .. 2] /\ bitmap \subseteq Chunk
        BY DEF TypeOK
      <4>2. 0 \in 0 .. 2
        OBVIOUS
      <4>3. winState' = [winState EXCEPT ![h.win] = 0]
        BY <2>1
      <4>4. winState' \in [WindowIds -> 0 .. 2]
        BY <4>1, <4>2, <4>3, Zenon
      <4> QED BY <2>1, <4>1, <4>4
    <3>3. winRecv' \in [WindowIds -> Int]
      <4>1. winRecv \in [WindowIds -> Int]
        BY DEF TypeOK
      <4>2. h.win \in WindowIds => winRecv[h.win] - Cardinality(Verify(h)) \in Int
        BY <2>2, <4>1
      <4> QED BY <2>1, <4>1, <4>2
    <3> QED BY <3>1, <3>2, <3>3
  <2>4. /\ queue' \in Seq(Chunk)
        /\ outstanding' \in Int /\ outstanding' <= InFlight
        /\ reqs' \subseteq Req /\ \A r \in reqs' : r.first + r.count <= Chunks
    <3>1. PICK b \in Ascending(Verify(h)) : fill(b \o queue, outstanding, reqs)
      BY <2>1
    <3>2. b \o queue \in Seq(Chunk)
        <4>1. b \in Seq(Chunk) /\ queue \in Seq(Chunk)
        BY <2>2, AscendingFacts DEF TypeOK
      <4> QED BY <4>1
    <3> QED BY <3>1, <3>2, FillType DEF TypeOK
  <2>5. UNCHANGED <<sourceVars, sessionVars, hashReqs, datas, dones, errors, phase,
                 partial, verified, root, hashes, dirty, diskVars, outcome,
                 heldLast, bounds>>
    BY <1>5 DEF OnHashBad
  <2> QED BY <2>1, <2>3, <2>4, <2>5 DEF TypeOK
<1>6. CASE OnHashGiveUp
  <2>1. PICK h \in hashReplies : FailRun("gaveup", bitmap \ Verify(h))
    BY <1>6 DEF OnHashGiveUp
  <2>2. bitmap \ Verify(h) \in SUBSET Chunk
    BY DEF TypeOK
  <2> QED BY <2>1, <2>2, FailRunType DEF Outcomes
<1>7. CASE OnDone
  <2>1. /\ queue' \in Seq(Chunk)
        /\ outstanding' \in Int /\ outstanding' <= InFlight
        /\ reqs' \subseteq Req /\ \A r \in reqs' : r.first + r.count <= Chunks
    BY <1>7, FillType DEF OnDone, TypeOK
  <2> QED BY <1>7, <2>1 DEF OnDone, TypeOK
<1>8. CASE OnError
  BY <1>8, FailRunType DEF OnError, Outcomes, TypeOK
<1>9. CASE DoneTimeout
  BY <1>9, FailRunType DEF DoneTimeout, Outcomes, TypeOK
<1>10. CASE StreamLost
  BY <1>10, FailRunType DEF StreamLost, Outcomes, TypeOK
<1>11. CASE CheckRoot
  <2>1. CASE Root(hashes) = root
    BY <1>11, <2>1, EmptyTypes DEF CheckRoot, CloseStream, TypeOK
  <2>2. CASE Root(hashes) # root
    BY <1>11, <2>2, FailRunType DEF CheckRoot, Outcomes, TypeOK
  <2> QED BY <2>1, <2>2
<1>12. CASE Crash
  BY <1>12, ForgetType, SMTT(60) DEF Crash, TypeOK, Outcomes
<1>13. CASE CrashInWriteChunk
  <2>1. disk' \in [Chunk -> Data]
    <3>1. PICK d \in datas, new \in SUBSET Piece :
            disk' = [disk EXCEPT ![d.index] =
                       [k \in Piece |-> IF k \in new THEN Assembled(d)[k] ELSE @[k]]]
      BY <1>13 DEF CrashInWriteChunk
    <3>2. d.index \in Chunk /\ Assembled(d) \in Data
      BY DEF TypeOK, Assembled, Data
    <3> QED BY <3>1, <3>2 DEF TypeOK, Data
  <2>2. /\ phase' = "idle" /\ outcome' = "lost" /\ Forget /\ CloseStream
        /\ UNCHANGED <<sourceVars, sidecar, heldLast, bounds>>
    BY <1>13 DEF CrashInWriteChunk
  <2> QED BY <2>1, <2>2, ForgetType DEF TypeOK, Outcomes
<1>14. CASE DeletePartial
  <2>1. /\ disk' = [i \in Chunk |-> Blank] /\ deletes' = deletes + 1
        /\ UNCHANGED <<sourceVars, sessionVars, toHost, toPeer, phase, schedVars,
                       sinkVars, sidecar, outcome, heldLast, runs, edits, restarts>>
    BY <1>14 DEF DeletePartial
  <2>2. disk' \in [Chunk -> Data]
    BY <2>1, EmptyTypes
  <2>3. deletes' \in Nat
    BY <2>1 DEF TypeOK
  <2> QED BY <2>1, <2>2, <2>3 DEF TypeOK
<1>15. CASE TakeReq
  <2>1. PICK r \in reqs : /\ serving' = [next |-> r.first, end |-> r.first + r.count]
                          /\ reqs' = reqs \ {r}
    BY <1>15 DEF TakeReq
  <2>2. /\ r.first \in 0 .. Chunks - 1 /\ r.count \in 1 .. Chunks
        /\ r.first + r.count <= Chunks
    BY DEF TypeOK, Req, Chunk
  <2>3. serving' \in [next : 0 .. Chunks, end : 0 .. Chunks]
    BY <1>0, <2>1, <2>2
  <2> QED BY <1>15, <2>1, <2>3 DEF TakeReq, TypeOK
<1>16. CASE ServeChunk
  <2> DEFINE i == serving.next
  <2>1. i \in Chunk /\ i + 1 \in 0 .. Chunks
    <3>1. serving.next \in 0 .. Chunks /\ serving.end \in 0 .. Chunks
          /\ serving.next < serving.end
      BY <1>16 DEF ServeChunk, TypeOK
    <3> QED BY <1>0, <3>1 DEF Chunk
  <2>2. /\ srcHave' = srcHave \cup {i} /\ srcHash' = Cached({i})
        /\ datas' = datas \cup
             {[index |-> i, piece |-> p, val |-> file[i]] : p \in Piece}
        /\ serving' = [serving EXCEPT !.next = i + 1]
        /\ lastRequested' \in BOOLEAN
    BY <1>16 DEF ServeChunk, TypeOK
  <2>3. srcHave' \subseteq Chunk /\ srcHash' \in [Chunk -> Hash \cup {None}]
    BY <2>1, <2>2, CachedType DEF TypeOK
  <2>4. datas' \subseteq [index : Chunk, piece : Piece, val : Val]
    BY <2>1, <2>2 DEF TypeOK
  <2>5. dones' \subseteq Roots /\ doneSent' \in BOOLEAN
    <3>1. \/ \E last \in BOOLEAN : MaybeDone(last, srcHave', srcHash')
          \/ UNCHANGED <<doneSent, dones>>
      BY <1>16 DEF ServeChunk, TypeOK
    <3>2. Root(srcHash') \in Roots
      BY <2>3, DataFacts
    <3> QED BY <3>1, <3>2 DEF MaybeDone, TypeOK
  <2>6. UNCHANGED <<file, stopped, toHost, hashReplies, errors, phase, schedVars,
                 sinkVars, diskVars, outcome, heldLast, bounds>>
    BY <1>16 DEF ServeChunk
  <2>7. serving' \in [next : 0 .. Chunks, end : 0 .. Chunks]
    BY <2>1, <2>2 DEF TypeOK
  <2> QED BY <2>2, <2>3, <2>4, <2>5, <2>6, <2>7 DEF TypeOK
<1>17. CASE RefuseChunk
  BY <1>17, EmptyTypes DEF RefuseChunk, TypeOK
<1>18. CASE ServeHashReq
  <2>1. PICK w \in hashReqs :
          /\ srcHave' = srcHave \cup Window(w) /\ srcHash' = Cached(Window(w))
          /\ hashReplies' = hashReplies \cup
               {[win |-> w, hs |-> [i \in Window(w) |-> srcHash'[i]]]}
          /\ hashReqs' = hashReqs \ {w}
          /\ MaybeDone(lastRequested, srcHave', srcHash')
    BY <1>18 DEF ServeHashReq
  <2>2. w \in {0} \cup WindowIds /\ Window(w) \subseteq Chunk
    BY AnyWindow DEF TypeOK
  <2>3. srcHave' \subseteq Chunk /\ srcHash' \in [Chunk -> Hash \cup {None}]
    BY <2>1, <2>2, CachedType DEF TypeOK
  <2>4. dones' \subseteq Roots /\ doneSent' \in BOOLEAN
    <3>1. Root(srcHash') \in Roots
      BY <2>3, DataFacts
    <3> QED BY <2>1, <3>1 DEF MaybeDone, TypeOK
  <2>5. [win |-> w, hs |-> [i \in Window(w) |-> srcHash'[i]]] \in HashReply
    <3>1. [i \in Window(w) |-> srcHash'[i]] \in [Window(w) -> Hash \cup {None}]
      BY <2>2, <2>3
    <3> QED BY <2>2, <3>1 DEF HashReply
  <2> QED BY <1>18, <2>1, <2>3, <2>4, <2>5 DEF ServeHashReq, TypeOK
<1>19. CASE OtherSessionReads
  <2>1. PICK i \in Chunk : srcHave' = srcHave \cup {i} /\ srcHash' = Cached({i})
    BY <1>19 DEF OtherSessionReads
  <2>2. srcHave' \subseteq Chunk /\ srcHash' \in [Chunk -> Hash \cup {None}]
    BY <2>1, CachedType DEF TypeOK
  <2> QED BY <1>19, <2>2 DEF OtherSessionReads, TypeOK
<1>20. CASE Stop
  BY <1>20 DEF Stop, TypeOK
<1>21. CASE EditFile
  BY <1>21, SMTT(60) DEF EditFile, TypeOK
<1>22. CASE HostRestart
  <2>1. /\ restarts' = restarts + 1
        /\ srcHave' = {} /\ srcHash' = [i \in Chunk |-> None] /\ stopped' = FALSE
        /\ UNCHANGED <<file, sessionVars, toHost, toPeer, phase, schedVars,
                       sinkVars, diskVars, outcome, heldLast, runs, edits, deletes>>
    BY <1>22 DEF HostRestart
  <2>2. restarts' \in Nat /\ srcHash' \in [Chunk -> Hash \cup {None}]
    BY <2>1, EmptyTypes DEF TypeOK
  <2> QED BY <2>1, <2>2 DEF TypeOK
<1>23. CASE UNCHANGED vars
  BY <1>23 DEF vars, TypeOK
<1> QED
  BY <1>1, <1>2, <1>3, <1>4, <1>5, <1>6, <1>7, <1>8, <1>9, <1>10, <1>11, <1>12,
     <1>13, <1>14, <1>15, <1>16, <1>17, <1>18, <1>19, <1>20, <1>21, <1>22, <1>23
  DEF Next, ReceiverNext, HostNext

(* Every variable keeps its type, REQ ranges stay within the file and      *)
(* `outstanding` within InFlight, in every behaviour of every instance.    *)
THEOREM TypeCorrect == Spec => []TypeOK
<1> QED BY TypeInit, TypeStep, PTL DEF Spec
-----------------------------------------------------------------------------
(***************************************************************************)
(* RootInv is inductive, and with it the receiver's root always matches.   *)
(***************************************************************************)
(* A chunk is at one place at a time *)

(* What fill does to the places: given a queue without repetition, disjoint*)
(* from the REQs in flight and from every other place (Other), it moves    *)
(* chunks from the queue to new REQs and nowhere else.                     *)
LEMMA FillPlaces ==
  ASSUME NEW q \in Seq(Chunk), NEW out \in Int, out <= InFlight,
         NEW rs, NEW Other,
         \A a, b \in DOMAIN q : q[a] = q[b] => a = b,
         \A a \in DOMAIN q : q[a] \notin Other,
         \A a \in DOMAIN q, r \in rs : q[a] \notin ReqChunks(r),
         \A r1, r2 \in rs : r1 # r2 => ReqChunks(r1) \cap ReqChunks(r2) = {},
         \A r \in rs : ReqChunks(r) \cap Other = {},
         fill(q, out, rs)
  PROVE  /\ \A a, b \in DOMAIN queue' : queue'[a] = queue'[b] => a = b
         /\ \A a \in DOMAIN queue' : queue'[a] \notin Other
         /\ \A a \in DOMAIN queue', r \in reqs' : queue'[a] \notin ReqChunks(r)
         /\ \A r1, r2 \in reqs' : r1 # r2 => ReqChunks(r1) \cap ReqChunks(r2) = {}
         /\ \A r \in reqs' : ReqChunks(r) \cap Other = {}
<1> DEFINE k == FillCount(q, out)
           new == FillReqs(q, k)
<1>1. /\ k \in 0 .. Len(q) /\ reqs' = rs \cup new
      /\ DOMAIN queue' = 1 .. Len(q) - k
      /\ \A a \in DOMAIN queue' : a + k \in DOMAIN q /\ queue'[a] = q[a + k]
  BY FillFacts
<1> HIDE DEF k
<1>2. \A r \in new : \A i \in ReqChunks(r) : \E c \in 1 .. k : q[c] = i
  <2> SUFFICES ASSUME NEW r \in new, NEW i \in ReqChunks(r)
               PROVE  \E c \in 1 .. k : q[c] = i
    OBVIOUS
  <2>1. PICK a, b \in 1 .. k : i - q[a] + a \in a .. b /\ q[i - q[a] + a] = i
    BY <1>1, RunFacts
  <2> QED BY <1>1, <2>1
<1>3. \A r1, r2 \in new : r1 # r2 => ReqChunks(r1) \cap ReqChunks(r2) = {}
  BY <1>1, RunsDisjoint
<1> HIDE DEF new
<1>4. 1 .. k \subseteq DOMAIN q
  BY <1>1
<1>5. \A a, b \in DOMAIN queue' : queue'[a] = queue'[b] => a = b
  <2> SUFFICES ASSUME NEW a \in DOMAIN queue', NEW b \in DOMAIN queue',
                      queue'[a] = queue'[b]
               PROVE  a = b
    OBVIOUS
  <2>1. a + k = b + k
    BY <1>1
  <2> QED BY <1>1, <2>1
<1>6. \A a \in DOMAIN queue', r \in new : queue'[a] \notin ReqChunks(r)
  <2> SUFFICES ASSUME NEW a \in DOMAIN queue', NEW r \in new,
                      queue'[a] \in ReqChunks(r)
               PROVE  FALSE
    OBVIOUS
  <2>1. PICK c \in 1 .. k : q[c] = q[a + k]
    BY <1>1, <1>2
  <2>2. c = a + k
    BY <1>1, <1>4, <2>1
  <2> QED BY <1>1, <2>2
<1>7. \A r \in new : ReqChunks(r) \cap Other = {}
  BY <1>2, <1>4
<1>8. \A r1 \in rs, r2 \in new : ReqChunks(r1) \cap ReqChunks(r2) = {}
  BY <1>2, <1>4
<1> QED BY <1>1, <1>3, <1>5, <1>6, <1>7, <1>8

(* OnePlace in the form FillPlaces works on. *)
Elsewhere == bitmap \cup AwaitedServing \cup AwaitedData
Apart ==
  /\ bitmap \cap AwaitedServing = {}
  /\ bitmap \cap AwaitedData = {}
  /\ AwaitedServing \cap AwaitedData = {}
Queued ==
  /\ \A a, b \in DOMAIN queue : queue[a] = queue[b] => a = b
  /\ \A a \in DOMAIN queue : queue[a] \notin Elsewhere
  /\ \A a \in DOMAIN queue, r \in reqs : queue[a] \notin ReqChunks(r)
  /\ \A r1, r2 \in reqs : r1 # r2 => ReqChunks(r1) \cap ReqChunks(r2) = {}
  /\ \A r \in reqs : ReqChunks(r) \cap Elsewhere = {}

LEMMA OnePlaceParts == OnePlace <=> Apart /\ Queued
  BY DEF OnePlace, Apart, Queued, Elsewhere, Awaited, AwaitedReqs

LEMMA OnePlacePartsNext == OnePlace' <=> Apart' /\ Queued'
  BY DEF OnePlace, Apart, Queued, Elsewhere, Awaited, AwaitedReqs

(* A fill after which the other places hold no more than before it. *)
LEMMA FillQueued ==
  ASSUME TypeOK, Queued, Elsewhere' \subseteq Elsewhere,
         fill(queue, outstanding, reqs)
  PROVE  Queued'
<1>1. queue \in Seq(Chunk) /\ outstanding \in Int /\ outstanding <= InFlight
  BY DEF TypeOK
<1>2. /\ \A a, b \in DOMAIN queue' : queue'[a] = queue'[b] => a = b
      /\ \A a \in DOMAIN queue' : queue'[a] \notin Elsewhere
      /\ \A a \in DOMAIN queue', r \in reqs' : queue'[a] \notin ReqChunks(r)
      /\ \A r1, r2 \in reqs' : r1 # r2 => ReqChunks(r1) \cap ReqChunks(r2) = {}
      /\ \A r \in reqs' : ReqChunks(r) \cap Elsewhere = {}
  BY <1>1, FillPlaces DEF Queued
<1> QED BY <1>2 DEF Queued, ReqChunks

(* Leaving a run empties every place. *)
LEMMA ForgetRoot ==
  ASSUME Forget, CloseStream, phase' = "idle"
  PROVE  RootInv'
<1>1. /\ queue' = <<>> /\ partial' = [i \in Chunk |-> NoPartial]
      /\ winRecv' = [w \in WindowIds |-> 0] /\ winState' = [w \in WindowIds |-> 0]
      /\ verified' = 0 /\ root' = None /\ bitmap' = {}
      /\ reqs' = {} /\ hashReqs' = {} /\ datas' = {} /\ hashReplies' = {}
      /\ dones' = {} /\ errors' = {} /\ serving' = Idle
  BY DEF Forget, CloseStream
<1>2. AwaitedReqs' = {} /\ AwaitedServing' = {} /\ AwaitedData' = {}
  BY <1>1 DEF AwaitedReqs, AwaitedServing, AwaitedData, Idle, NoPartial
<1>3. OnePlace' /\ PiecesOnce'
  BY <1>1, <1>2 DEF OnePlace, PiecesOnce, Awaited
<1>4. RepliesFromCache' /\ StreamOnlyWhileRunning'
  BY <1>1 DEF RepliesFromCache, StreamOnlyWhileRunning
<1>5. WindowsCounted'
  <2>1. Cardinality({}) = 0
    BY FS_EmptySet
  <2>2. {w \in WindowIds : winState'[w] = 2} = {}
    BY <1>1
  <2>3. \A w \in WindowIds : Window(w) \cap bitmap' = {}
    BY <1>1
  <2> QED BY <1>1, <2>1, <2>2, <2>3 DEF WindowsCounted
<1> QED BY <1>3, <1>4, <1>5 DEF RootInv

LEMMA FailRunRoot ==
  ASSUME NEW why, NEW b, FailRun(why, b)
  PROVE  RootInv'
  BY ForgetRoot DEF FailRun

(* The pieces of d's chunk that are in the buffer after d was copied there,*)
(* and what it means that the buffer is full.                              *)
LEMMA PieceArrives ==
  ASSUME TypeOK, PiecesOnce, NEW d \in datas, datas' = datas \ {d}
  PROVE  /\ d.index \in Chunk /\ d.index \in AwaitedData
         /\ InBuffer(d.index)' = InBuffer(d.index) \cup {d.piece}
         /\ Cardinality(InBuffer(d.index)') = partial[d.index].have + 1
         /\ \A j \in Chunk : j # d.index => InBuffer(j)' = InBuffer(j)
         /\ partial[d.index].have + 1 >= Pieces =>
              \A e \in datas' : e.index # d.index
<1>1. d.index \in Chunk /\ d.piece \in Piece /\ d.index \in AwaitedData
  BY DEF TypeOK, AwaitedData
<1>2. InBuffer(d.index)' = InBuffer(d.index) \cup {d.piece}
  BY <1>1 DEF InBuffer, PiecesOnce
<1>3. \A j \in Chunk : j # d.index => InBuffer(j)' = InBuffer(j)
  BY DEF InBuffer
<1>4. Pieces \in Nat /\ IsFiniteSet(Piece) /\ Cardinality(Piece) = Pieces
  <2>1. Pieces \in Nat /\ Pieces >= 1
    BY ConstantsAssumption
  <2>2. IsFiniteSet(1 .. Pieces)
        /\ Cardinality(1 .. Pieces) = IF 1 > Pieces THEN 0 ELSE Pieces - 1 + 1
    BY <2>1, FS_Interval
  <2> QED BY <2>1, <2>2 DEF Piece
<1>5. InBuffer(d.index) \in SUBSET Piece /\ InBuffer(d.index)' \in SUBSET Piece
  BY DEF InBuffer
<1>6. IsFiniteSet(InBuffer(d.index)) /\ IsFiniteSet(InBuffer(d.index)')
  BY <1>4, <1>5, FS_Subset
<1>7. d.piece \notin InBuffer(d.index)
  BY DEF InBuffer
<1>8. partial[d.index].have = Cardinality(InBuffer(d.index))
  BY <1>1 DEF PiecesOnce
<1>9. Cardinality(InBuffer(d.index)') = partial[d.index].have + 1
  BY <1>2, <1>6, <1>7, <1>8, FS_AddElement
<1>10. ASSUME partial[d.index].have + 1 >= Pieces
       PROVE  \A e \in datas' : e.index # d.index
  <2>1. Cardinality(InBuffer(d.index)') <= Pieces
        /\ (Cardinality(Piece) = Cardinality(InBuffer(d.index)') =>
              Piece = InBuffer(d.index)')
    BY <1>4, <1>5, FS_Subset
  <2>2. partial[d.index].have \in Nat
    BY <1>1 DEF TypeOK
  <2>3. Piece = InBuffer(d.index)'
    BY <1>4, <1>9, <1>10, <2>1, <2>2
  <2>4. \A e \in datas' : e.piece \in Piece
    BY DEF TypeOK
  <2> QED BY <2>3, <2>4 DEF InBuffer
<1> QED BY <1>1, <1>2, <1>3, <1>9, <1>10

LEMMA AwaitedInChunk ==
  ASSUME TypeOK'
  PROVE  AwaitedData' \subseteq Chunk
<1>1. datas' \subseteq [index : Chunk, piece : Piece, val : Val]
  BY DEF TypeOK
<1>2. \A d \in datas' : d.index \in Chunk
  BY <1>1
<1> QED BY <1>2 DEF AwaitedData

(* Every step leaves each chunk at one place, and every piece in flight    *)
(* once.                                                                   *)
LEMMA PlacesStep ==
  ASSUME TypeOK, TypeOK', RootInv, [Next]_vars
  PROVE  OnePlace' /\ PiecesOnce'
<1> USE DEF RootInv
<1>0. Apart /\ Queued
  BY OnePlaceParts
<1>1. CASE StartRun
  <2>1. /\ datas = {} /\ serving = Idle
        /\ UNCHANGED <<datas, serving>>
        /\ partial' = [i \in Chunk |-> NoPartial]
        /\ bitmap' \subseteq Chunk
    BY <1>1 DEF StartRun, StreamOnlyWhileRunning, TypeOK
  <2>2. PICK q \in Ascending(Chunk \ bitmap') : fill(q, 0, {})
    BY <1>1 DEF StartRun
  <2>3. AwaitedServing' = {} /\ AwaitedData' = {}
    BY <2>1 DEF AwaitedServing, AwaitedData, Idle, NoPartial
  <2>4. /\ q \in Seq(Chunk)
        /\ \A a, b \in DOMAIN q : q[a] = q[b] => a = b
        /\ \A a \in DOMAIN q : q[a] \notin bitmap'
    BY <2>2, AscendingFacts
  <2>5. 0 <= InFlight
    BY ConstantsAssumption
  <2>6. Queued'
    <3>1. Elsewhere' = bitmap'
      BY <2>3 DEF Elsewhere
    <3> DEFINE held == bitmap'
    <3>2. /\ \A a, b \in DOMAIN queue' : queue'[a] = queue'[b] => a = b
          /\ \A a \in DOMAIN queue' : queue'[a] \notin held
          /\ \A a \in DOMAIN queue', r \in reqs' : queue'[a] \notin ReqChunks(r)
          /\ \A r1, r2 \in reqs' : r1 # r2 => ReqChunks(r1) \cap ReqChunks(r2) = {}
          /\ \A r \in reqs' : ReqChunks(r) \cap held = {}
      <4>1. 0 \in Int /\ \A a \in DOMAIN q : q[a] \notin held
        BY <2>4
      <4> HIDE DEF held
      <4> QED BY <2>2, <2>4, <2>5, <4>1, FillPlaces
    <3> QED BY <3>1, <3>2 DEF Queued, ReqChunks
  <2>7. PiecesOnce'
    BY <2>1, <2>3 DEF PiecesOnce
  <2>8. Apart'
    BY <2>3 DEF Apart
  <2> QED BY <2>6, <2>7, <2>8, OnePlacePartsNext
<1>2. CASE OnDataPart
  <2>1. PICK d \in datas :
          /\ partial' = [partial EXCEPT ![d.index] =
                           [buf |-> Assembled(d), have |-> partial[d.index].have + 1]]
          /\ datas' = datas \ {d}
    BY <1>2 DEF OnDataPart
  <2>2. fill(queue, outstanding, reqs) /\ bitmap' = bitmap /\ serving' = serving
    BY <1>2 DEF OnDataPart
  <2>3. d.index \in Chunk /\ d.index \in AwaitedData
    BY <2>1, PieceArrives
  <2>4. \A j \in Chunk : j # d.index => partial'[j] = partial[j]
    BY <2>1, <2>3 DEF TypeOK
  <2>5. AwaitedData' \subseteq AwaitedData
    BY <2>1, <2>3, <2>4 DEF AwaitedData
  <2>6. AwaitedServing' = AwaitedServing
    BY <2>2 DEF AwaitedServing
  <2>7. Queued'
    <3>1. Elsewhere' \subseteq Elsewhere
      BY <2>2, <2>5, <2>6 DEF Elsewhere
    <3> QED BY <1>0, <2>2, <3>1, FillQueued
  <2>8. Apart'
    BY <1>0, <2>2, <2>5, <2>6 DEF Apart
  <2>9. \A i \in AwaitedData' : partial'[i].have = Cardinality(InBuffer(i)')
    <3>1. partial'[d.index].have = partial[d.index].have + 1
      BY <2>1, <2>3 DEF TypeOK
    <3>2. \A j \in Chunk : j # d.index => InBuffer(j)' = InBuffer(j)
      BY <2>1, PieceArrives
    <3>3. Cardinality(InBuffer(d.index)') = partial[d.index].have + 1
      BY <2>1, PieceArrives
    <3>4. AwaitedData' \subseteq Chunk
      BY AwaitedInChunk
    <3> QED BY <2>4, <2>5, <3>1, <3>2, <3>3, <3>4 DEF PiecesOnce
  <2>10. PiecesOnce'
    BY <2>1, <2>9 DEF PiecesOnce
  <2> QED BY <2>7, <2>8, <2>10, OnePlacePartsNext
<1>3. CASE OnDataChunk
  <2>1. PICK d \in datas :
          /\ partial[d.index].have + 1 >= Pieces
          /\ partial' = [partial EXCEPT ![d.index] = NoPartial]
          /\ bitmap' = bitmap \cup {d.index}
          /\ datas' = datas \ {d}
          /\ fill(queue, outstanding - 1, reqs)
    BY <1>3 DEF OnDataChunk
  <2>2. serving' = serving
    BY <1>3 DEF OnDataChunk
  <2>3. d.index \in Chunk /\ d.index \in AwaitedData
        /\ \A e \in datas' : e.index # d.index
    BY <2>1, PieceArrives
  <2>4. /\ \A j \in Chunk : j # d.index => partial'[j] = partial[j]
        /\ partial'[d.index] = NoPartial
    BY <2>1, <2>3 DEF TypeOK
  <2>5. AwaitedData' \subseteq AwaitedData /\ d.index \notin AwaitedData'
    BY <2>1, <2>3, <2>4 DEF AwaitedData, NoPartial
  <2>6. AwaitedServing' = AwaitedServing
    BY <2>2 DEF AwaitedServing
  <2>7. Queued'
    <3>1. Elsewhere' \subseteq Elsewhere
      BY <2>1, <2>3, <2>5, <2>6 DEF Elsewhere
    <3>2. /\ \A a, b \in DOMAIN queue' : queue'[a] = queue'[b] => a = b
          /\ \A a \in DOMAIN queue' : queue'[a] \notin Elsewhere
          /\ \A a \in DOMAIN queue', r \in reqs' : queue'[a] \notin ReqChunks(r)
          /\ \A r1, r2 \in reqs' : r1 # r2 => ReqChunks(r1) \cap ReqChunks(r2) = {}
          /\ \A r \in reqs' : ReqChunks(r) \cap Elsewhere = {}
      <4>1. queue \in Seq(Chunk) /\ outstanding - 1 \in Int /\ outstanding - 1 <= InFlight
        BY ConstantsAssumption DEF TypeOK
      <4> QED BY <1>0, <2>1, <4>1, FillPlaces, ZenonT(60) DEF Queued
    <3> QED BY <3>1, <3>2 DEF Queued, ReqChunks
  <2>8. Apart'
    BY <1>0, <2>1, <2>3, <2>5, <2>6 DEF Apart
  <2>9. \A i \in AwaitedData' : partial'[i].have = Cardinality(InBuffer(i)')
    <3>1. \A j \in Chunk : j # d.index => InBuffer(j)' = InBuffer(j)
      BY <2>1, PieceArrives
    <3>2. AwaitedData' \subseteq Chunk
      BY AwaitedInChunk
    <3> QED BY <2>4, <2>5, <3>1, <3>2 DEF PiecesOnce
  <2>10. PiecesOnce'
    BY <2>1, <2>9 DEF PiecesOnce
  <2> QED BY <2>7, <2>8, <2>10, OnePlacePartsNext
<1>4. ASSUME fill(queue, outstanding, reqs), UNCHANGED <<bitmap, serving, datas, partial>>
      PROVE  OnePlace' /\ PiecesOnce'
  <2>1. Elsewhere' = Elsewhere /\ Apart'
    BY <1>0, <1>4 DEF Elsewhere, Apart, AwaitedServing, AwaitedData
  <2>2. Queued'
    BY <1>0, <1>4, <2>1, FillQueued
  <2>3. PiecesOnce'
    BY <1>4, ZenonT(60) DEF PiecesOnce, AwaitedData, InBuffer
  <2> QED BY <2>1, <2>2, <2>3, OnePlacePartsNext
<1>5. CASE OnHashGood
  BY <1>4, <1>5 DEF OnHashGood
<1>6. CASE OnHashBad
  <2>1. PICK h \in hashReplies :
          /\ bitmap' = bitmap \ Verify(h)
          /\ \E b \in Ascending(Verify(h)) : fill(b \o queue, outstanding, reqs)
    BY <1>6 DEF OnHashBad
  <2>2. UNCHANGED <<serving, datas, partial>>
    BY <1>6 DEF OnHashBad
  <2>3. Verify(h) \subseteq bitmap /\ Verify(h) \in SUBSET Chunk
    BY DEF Verify, TypeOK
  <2>4. PICK b \in Ascending(Verify(h)) : fill(b \o queue, outstanding, reqs)
    BY <2>1
  <2>5. /\ b \in Seq(Chunk)
        /\ \A a \in DOMAIN b : b[a] \in Verify(h)
        /\ \A a, c \in DOMAIN b : b[a] = b[c] => a = c
    BY <2>3, AscendingFacts
  <2>6. /\ AwaitedServing' = AwaitedServing /\ AwaitedData' = AwaitedData
        /\ Elsewhere' = Elsewhere \ Verify(h)
    BY <1>0, <2>1, <2>2, <2>3 DEF AwaitedServing, AwaitedData, Elsewhere, Apart
  <2> DEFINE q == b \o queue
  <2>7. queue \in Seq(Chunk) /\ q \in Seq(Chunk)
    BY <2>5 DEF TypeOK
  <2>8. \A a \in DOMAIN q :
          \/ a \in DOMAIN b /\ q[a] = b[a]
          \/ a - Len(b) \in DOMAIN queue /\ q[a] = queue[a - Len(b)]
    BY <2>5, <2>7
  <2>9. \A a \in DOMAIN q : a \in Int /\ Len(b) \in Int
    BY <2>5, <2>7
  <2> HIDE DEF q
  <2>10. \A a \in DOMAIN queue : queue[a] \notin Verify(h) /\ queue[a] \notin Elsewhere
    BY <1>0, <2>3 DEF Queued, Elsewhere
  <2>11. \A a, c \in DOMAIN q : q[a] = q[c] => a = c
    <3> SUFFICES ASSUME NEW a \in DOMAIN q, NEW c \in DOMAIN q, q[a] = q[c]
                 PROVE  a = c
      OBVIOUS
    <3>1. CASE a \in DOMAIN b /\ q[a] = b[a] /\ c \in DOMAIN b /\ q[c] = b[c]
      BY <2>5, <3>1
    <3>2. CASE /\ a - Len(b) \in DOMAIN queue /\ q[a] = queue[a - Len(b)]
               /\ c - Len(b) \in DOMAIN queue /\ q[c] = queue[c - Len(b)]
      <4>1. a - Len(b) = c - Len(b)
        BY <1>0, <3>2 DEF Queued
      <4> QED BY <2>9, <4>1
    <3> QED BY <2>5, <2>8, <2>10, <3>1, <3>2
  <2>12. \A a \in DOMAIN q : q[a] \notin Elsewhere'
    BY <2>5, <2>6, <2>8, <2>10
  <2>13. \A a \in DOMAIN q, r \in reqs : q[a] \notin ReqChunks(r)
    BY <1>0, <2>3, <2>5, <2>8 DEF Queued, Elsewhere
  <2>14. /\ \A r1, r2 \in reqs : r1 # r2 => ReqChunks(r1) \cap ReqChunks(r2) = {}
         /\ \A r \in reqs : ReqChunks(r) \cap Elsewhere' = {}
    BY <1>0, <2>6 DEF Queued
  <2>15. outstanding \in Int /\ outstanding <= InFlight /\ fill(q, outstanding, reqs)
    BY <2>4 DEF TypeOK, q
  <2>16. Queued'
    BY <2>7, <2>11, <2>12, <2>13, <2>14, <2>15, FillPlaces DEF Queued, ReqChunks
  <2>17. Apart'
    BY <1>0, <2>1, <2>6 DEF Apart
  <2>18. PiecesOnce'
    BY <2>2, ZenonT(60) DEF PiecesOnce, AwaitedData, InBuffer
  <2> QED BY <2>16, <2>17, <2>18, OnePlacePartsNext
<1>7. CASE OnDone
  BY <1>4, <1>7 DEF OnDone
<1>8. ASSUME NEW why, NEW b, FailRun(why, b)
      PROVE  OnePlace' /\ PiecesOnce'
  BY <1>8, FailRunRoot
<1>9. CASE OnHashGiveUp \/ OnError \/ DoneTimeout \/ StreamLost
  BY <1>8, <1>9 DEF OnHashGiveUp, OnError, DoneTimeout, StreamLost
<1>10. CASE CheckRoot
  <2>1. CASE Root(hashes) # root
    BY <1>8, <1>10, <2>1 DEF CheckRoot
  <2>2. CASE Root(hashes) = root
    <3>1. /\ bitmap = Chunk /\ CloseStream
          /\ UNCHANGED <<bitmap, queue, partial>>
      BY <1>10, <2>2 DEF CheckRoot, finished, allVerified
    <3>2. AwaitedData = {}
      <4>1. datas \subseteq [index : Chunk, piece : Piece, val : Val]
        BY DEF TypeOK
      <4>2. AwaitedData \subseteq Chunk
        BY <4>1 DEF AwaitedData
      <4>3. bitmap \cap AwaitedData = {}
        BY <1>0 DEF Apart
      <4> QED BY <3>1, <4>2, <4>3
    <3>3. AwaitedData' = {} /\ AwaitedServing' = {} /\ reqs' = {} /\ datas' = {}
      BY <3>1, <3>2 DEF AwaitedData, AwaitedServing, CloseStream, Idle
    <3>4. Apart' /\ PiecesOnce'
      BY <3>3 DEF Apart, PiecesOnce
    <3>5. Queued'
      BY <1>0, <3>1, <3>3 DEF Queued, Elsewhere
    <3> QED BY <3>4, <3>5, OnePlacePartsNext
  <2> QED BY <2>1, <2>2
<1>11. CASE Crash \/ CrashInWriteChunk
  BY <1>11, ForgetRoot DEF Crash, CrashInWriteChunk
<1>12. CASE TakeReq
  <2>1. PICK r \in reqs : /\ serving' = [next |-> r.first, end |-> r.first + r.count]
                          /\ reqs' = reqs \ {r}
    BY <1>12 DEF TakeReq
  <2>2. UNCHANGED <<bitmap, queue, partial, datas>>
    BY <1>12 DEF TakeReq
  <2>3. AwaitedServing' = ReqChunks(r)
    <3>1. serving'.next = r.first /\ serving'.end = r.first + r.count
      BY <2>1
    <3>2. r.first \in Int /\ r.count \in Int
      <4>1. r \in Req
        BY DEF TypeOK
      <4> QED BY <4>1 DEF Req, Chunk
    <3>3. AwaitedServing' = r.first .. (r.first + r.count) - 1
      BY <3>1 DEF AwaitedServing
    <3> QED BY <3>2, <3>3 DEF ReqChunks
  <2>4. AwaitedData' = AwaitedData /\ PiecesOnce'
    BY <2>2 DEF AwaitedData, PiecesOnce, InBuffer
  <2>5. Apart'
    BY <1>0, <2>2, <2>3, <2>4 DEF Apart, Queued, Elsewhere
  <2>6. Queued'
    BY <1>0, <2>1, <2>2, <2>3, <2>4 DEF Queued, Elsewhere
  <2> QED BY <2>4, <2>5, <2>6, OnePlacePartsNext
<1>13. CASE ServeChunk
  <2>0. PICK i : i = serving.next
    OBVIOUS
  <2>1. /\ datas' = datas \cup
             {[index |-> i, piece |-> p, val |-> file[i]] : p \in Piece}
        /\ serving' = [serving EXCEPT !.next = i + 1]
        /\ UNCHANGED <<bitmap, queue, partial, reqs>>
        /\ serving.next < serving.end
    BY <1>13, <2>0 DEF ServeChunk
  <2>2. serving \in [next : 0 .. Chunks, end : 0 .. Chunks] /\ Chunks \in Nat
    BY ConstantsAssumption DEF TypeOK
  <2>3. i \in AwaitedServing /\ i \in Chunk
    BY <2>0, <2>1, <2>2 DEF AwaitedServing, Chunk
  <2>4. AwaitedServing' = AwaitedServing \ {i}
    BY <2>0, <2>1, <2>2 DEF AwaitedServing
  <2>5. AwaitedData' \subseteq AwaitedData \cup {i}
    BY <2>1 DEF AwaitedData
  <2>6. Apart'
    BY <1>0, <2>1, <2>3, <2>4, <2>5 DEF Apart
  <2>7. Queued'
    BY <1>0, <2>1, <2>3, <2>4, <2>5 DEF Queued, Elsewhere
  <2>8. i \notin AwaitedData
    BY <1>0, <2>3 DEF Apart
  <2>9. partial[i].have = 0 /\ \A d \in datas : d.index # i
    <3>1. partial[i].have \in Nat /\ ~(partial[i].have > 0)
      BY <2>3, <2>8 DEF AwaitedData, TypeOK
    <3> QED BY <2>8, <3>1 DEF AwaitedData
  <2>10. InBuffer(i)' = {}
    <3>1. ASSUME NEW p \in Piece
          PROVE  \E d \in datas' : d.index = i /\ d.piece = p
      <4>1. [index |-> i, piece |-> p, val |-> file[i]] \in datas'
        BY <2>1
      <4> QED BY <4>1
    <3> QED BY <3>1 DEF InBuffer
  <2>11. \A j \in Chunk : j # i => InBuffer(j)' = InBuffer(j)
    BY <2>1 DEF InBuffer
  <2>12. AwaitedData' \subseteq Chunk
    BY AwaitedInChunk
  <2>13. \A j \in AwaitedData' : partial'[j].have = Cardinality(InBuffer(j)')
    <3>1. Cardinality(InBuffer(i)') = 0
      BY <2>10, FS_EmptySet
    <3>2. \A j \in Chunk : partial'[j] = partial[j]
      BY <2>1
    <3> QED BY <2>5, <2>9, <2>11, <2>12, <3>1, <3>2 DEF PiecesOnce
  <2>14. \A d, e \in datas' : d.index = e.index /\ d.piece = e.piece => d = e
    BY <2>1, <2>9 DEF PiecesOnce
  <2>15. PiecesOnce'
    BY <2>13, <2>14 DEF PiecesOnce
  <2> QED BY <2>6, <2>7, <2>15, OnePlacePartsNext
<1>14. CASE RefuseChunk
  <2>1. serving' = Idle /\ UNCHANGED <<bitmap, queue, partial, reqs, datas>>
    BY <1>14 DEF RefuseChunk
  <2>2. AwaitedServing' = {} /\ AwaitedData' = AwaitedData
    BY <2>1 DEF AwaitedServing, AwaitedData, Idle
  <2> QED BY <1>0, <2>1, <2>2, OnePlacePartsNext
          DEF Apart, Queued, Elsewhere, PiecesOnce, InBuffer
<1>15. ASSUME UNCHANGED <<bitmap, queue, partial, reqs, serving, datas>>
       PROVE  OnePlace' /\ PiecesOnce'
  BY <1>15 DEF OnePlace, PiecesOnce, Awaited, AwaitedReqs, AwaitedServing,
               AwaitedData, InBuffer
<1>16. CASE DeletePartial \/ ServeHashReq \/ OtherSessionReads \/ Stop
            \/ EditFile \/ HostRestart \/ UNCHANGED vars
  BY <1>15, <1>16 DEF DeletePartial, ServeHashReq, OtherSessionReads, Stop,
                      EditFile, HostRestart, vars
<1> QED
  BY <1>1, <1>2, <1>3, <1>5, <1>6, <1>7, <1>9, <1>10, <1>11, <1>12, <1>13,
     <1>14, <1>16
  DEF Next, ReceiverNext, HostNext

-----------------------------------------------------------------------------
(* The host's cache during a stream *)

(* The cache only grows, and never changes what it holds. *)
CacheKept ==
  /\ srcHave \subseteq srcHave'
  /\ \A i \in srcHave : srcHash'[i] = srcHash[i]
  /\ srcHave = Chunk => srcHave' = Chunk /\ srcHash' = srcHash

LEMMA CachedKept ==
  ASSUME TypeOK, NEW S \in SUBSET Chunk,
         srcHave' = srcHave \cup S, srcHash' = Cached(S)
  PROVE  /\ CacheKept
         /\ DOMAIN srcHash' = Chunk
<1>1. srcHave \subseteq Chunk /\ srcHash \in [Chunk -> Hash \cup {None}]
  BY DEF TypeOK
<1>2. \A i \in Chunk : i \in srcHave => srcHash'[i] = srcHash[i]
  BY DEF Cached
<1>3. DOMAIN srcHash' = Chunk /\ srcHash' = [i \in Chunk |-> srcHash'[i]]
  BY DEF Cached
<1>4. ASSUME srcHave = Chunk PROVE srcHash' = srcHash
  <2>1. \A i \in Chunk : srcHash'[i] = srcHash[i]
    BY <1>2, <1>4
  <2>2. srcHash = [i \in Chunk |-> srcHash[i]]
    BY <1>1
  <2> QED BY <1>3, <2>1, <2>2
<1> QED BY <1>1, <1>2, <1>3, <1>4 DEF CacheKept

LEMMA SameCache ==
  ASSUME UNCHANGED <<srcHave, srcHash>>
  PROVE  CacheKept
  BY DEF CacheKept

(* What keeps RepliesFromCache: the cache is kept, and every new frame, and*)
(* a root newly accepted, is taken from the cache.                         *)
LEMMA RepliesKept ==
  ASSUME RepliesFromCache, CacheKept,
         \A h \in hashReplies' : h \in hashReplies \/
           \A i \in Window(h.win) : i \in srcHave' /\ h.hs[i] = srcHash'[i],
         \A r \in dones' : r \in dones \/ (srcHave' = Chunk /\ r = Root(srcHash')),
         root' # None => root' \in dones \/ root' = root
  PROVE  RepliesFromCache'
<1>1. ASSUME NEW h \in hashReplies', NEW i \in Window(h.win)
      PROVE  i \in srcHave' /\ h.hs[i] = srcHash'[i]
  <2>1. CASE h \in hashReplies
    <3>1. i \in srcHave /\ h.hs[i] = srcHash[i]
      BY <2>1 DEF RepliesFromCache
    <3> QED BY <3>1 DEF CacheKept
  <2>2. CASE \A j \in Window(h.win) : j \in srcHave' /\ h.hs[j] = srcHash'[j]
    BY <2>2
  <2> QED BY <2>1, <2>2
<1>2. ASSUME NEW r \in dones \cup ({root} \ {None})
      PROVE  srcHave' = Chunk /\ r = Root(srcHash')
  BY <1>2 DEF RepliesFromCache, CacheKept
<1>3. \A r \in dones' \cup ({root'} \ {None}) : srcHave' = Chunk /\ r = Root(srcHash')
  BY <1>2
<1> QED BY <1>1, <1>3 DEF RepliesFromCache, Window, windowSize

(* DONE carries the root of the complete cache. *)
LEMMA DoneFromCache ==
  ASSUME NEW last, MaybeDone(last, srcHave', srcHash')
  PROVE  \A r \in dones' : r \in dones \/ (srcHave' = Chunk /\ r = Root(srcHash'))
  BY DEF MaybeDone

(* In every step but a restart, the cache is kept and what the host sends  *)
(* comes from it.                                                          *)
LEMMA RepliesStep ==
  ASSUME TypeOK, RootInv, [Next]_vars
  PROVE  RepliesFromCache'
<1> USE DEF RootInv
<1>1. ASSUME CacheKept, hashReplies' \subseteq hashReplies, dones' \subseteq dones,
             root' # None => root' \in dones \/ root' = root
      PROVE  RepliesFromCache'
  BY <1>1, RepliesKept
<1>2. ASSUME UNCHANGED <<srcHave, srcHash>>,
             hashReplies' \subseteq hashReplies, dones' \subseteq dones,
             root' # None => root' \in dones \/ root' = root
      PROVE  RepliesFromCache'
  BY <1>1, <1>2, SameCache
<1>3. CASE StartRun
  BY <1>2, <1>3 DEF StartRun
<1>4. CASE OnDataPart \/ OnDataChunk
  BY <1>2, <1>4 DEF OnDataPart, OnDataChunk
<1>5. CASE OnHashGood \/ OnHashBad
  BY <1>2, <1>5 DEF OnHashGood, OnHashBad
<1>6. CASE OnDone
  BY <1>2, <1>6 DEF OnDone
<1>7. CASE OnHashGiveUp \/ OnError \/ DoneTimeout \/ StreamLost
  BY <1>7, FailRunRoot DEF OnHashGiveUp, OnError, DoneTimeout, StreamLost
<1>8. CASE CheckRoot
  <2>1. CASE Root(hashes) = root
    BY <1>2, <1>8, <2>1 DEF CheckRoot, CloseStream
  <2>2. CASE Root(hashes) # root
    BY <1>8, <2>2, FailRunRoot DEF CheckRoot
  <2> QED BY <2>1, <2>2
<1>9. CASE Crash \/ CrashInWriteChunk
  BY <1>9, ForgetRoot DEF Crash, CrashInWriteChunk
<1>10. CASE DeletePartial \/ TakeReq \/ RefuseChunk \/ Stop \/ EditFile \/ UNCHANGED vars
  BY <1>2, <1>10 DEF DeletePartial, TakeReq, RefuseChunk, Stop, EditFile, vars
<1>11. CASE ServeChunk
  <2>1. PICK i : i = serving.next
    OBVIOUS
  <2>2. /\ srcHave' = srcHave \cup {i} /\ srcHash' = Cached({i})
        /\ UNCHANGED <<hashReplies, root>>
        /\ serving.next < serving.end
    BY <1>11, <2>1 DEF ServeChunk
  <2>3. i \in Chunk
    <3>1. serving \in [next : 0 .. Chunks, end : 0 .. Chunks] /\ Chunks \in Nat
      BY ConstantsAssumption DEF TypeOK
    <3> QED BY <2>1, <2>2, <3>1 DEF Chunk
  <2>4. CacheKept
    BY <2>2, <2>3, CachedKept
  <2>5. dones' = dones \/ \E last : MaybeDone(last, srcHave', srcHash')
    BY <1>11 DEF ServeChunk
  <2>6. \A r \in dones' : r \in dones \/ (srcHave' = Chunk /\ r = Root(srcHash'))
    BY <2>5, DoneFromCache
  <2> QED BY <2>2, <2>4, <2>6, RepliesKept
<1>12. CASE ServeHashReq
  <2>1. PICK w \in hashReqs :
          /\ srcHave' = srcHave \cup Window(w) /\ srcHash' = Cached(Window(w))
          /\ hashReplies' = hashReplies \cup
               {[win |-> w, hs |-> [i \in Window(w) |-> srcHash'[i]]]}
          /\ MaybeDone(lastRequested, srcHave', srcHash')
    BY <1>12 DEF ServeHashReq
  <2>2. w \in {0} \cup WindowIds
    BY DEF TypeOK
  <2>3. CacheKept
    BY <2>1, <2>2, AnyWindow, CachedKept
  <2>4. \A r \in dones' : r \in dones \/ (srcHave' = Chunk /\ r = Root(srcHash'))
    BY <2>1, DoneFromCache
  <2>5. \A h \in hashReplies' : h \in hashReplies \/
          \A i \in Window(h.win) : i \in srcHave' /\ h.hs[i] = srcHash'[i]
    BY <2>1
  <2>6. root' = root
    BY <1>12 DEF ServeHashReq
  <2> QED BY <2>3, <2>4, <2>5, <2>6, RepliesKept
<1>13. CASE OtherSessionReads
  <2>1. PICK i \in Chunk : srcHave' = srcHave \cup {i} /\ srcHash' = Cached({i})
    BY <1>13 DEF OtherSessionReads
  <2>2. CacheKept
    BY <2>1, CachedKept
  <2> QED BY <1>1, <1>13, <2>2 DEF OtherSessionReads
<1>14. CASE HostRestart
  <2>1. hashReplies' = {} /\ dones' = {} /\ root' = None
    BY <1>14 DEF HostRestart, StreamOnlyWhileRunning
  <2> QED BY <2>1 DEF RepliesFromCache
<1> QED
  BY <1>3, <1>4, <1>5, <1>6, <1>7, <1>8, <1>9, <1>10, <1>11, <1>12, <1>13, <1>14
  DEF Next, ReceiverNext, HostNext

(* The stream exists only while a run does. *)
LEMMA StreamStep ==
  ASSUME RootInv, [Next]_vars
  PROVE  StreamOnlyWhileRunning'
<1> USE DEF RootInv
<1>1. CASE StartRun
  BY <1>1 DEF StartRun, StreamOnlyWhileRunning
<1>2. CASE OnDataPart \/ OnDataChunk \/ OnHashGood \/ OnHashBad \/ OnDone
           \/ TakeReq \/ ServeChunk \/ RefuseChunk \/ ServeHashReq
  <2>1. phase = "running" /\ phase' = phase
    BY <1>2 DEF OnDataPart, OnDataChunk, OnHashGood, OnHashBad, OnDone, TakeReq,
                ServeChunk, RefuseChunk, ServeHashReq, HostIdle
  <2> QED BY <2>1 DEF StreamOnlyWhileRunning
<1>3. CASE OnHashGiveUp \/ OnError \/ DoneTimeout \/ StreamLost
  BY <1>3, FailRunRoot DEF OnHashGiveUp, OnError, DoneTimeout, StreamLost
<1>4. CASE CheckRoot
  <2>1. CASE Root(hashes) = root
    BY <1>4, <2>1 DEF CheckRoot, CloseStream, StreamOnlyWhileRunning
  <2>2. CASE Root(hashes) # root
    BY <1>4, <2>2, FailRunRoot DEF CheckRoot
  <2> QED BY <2>1, <2>2
<1>5. CASE Crash \/ CrashInWriteChunk
  BY <1>5, ForgetRoot DEF Crash, CrashInWriteChunk
<1>6. CASE DeletePartial \/ OtherSessionReads \/ Stop \/ EditFile \/ HostRestart
           \/ UNCHANGED vars
  BY <1>6 DEF DeletePartial, OtherSessionReads, Stop, EditFile, HostRestart, vars,
              StreamOnlyWhileRunning
<1> QED
  BY <1>1, <1>2, <1>3, <1>4, <1>5, <1>6 DEF Next, ReceiverNext, HostNext

-----------------------------------------------------------------------------
(* The windows and their counters *)

VerifiedWindows == {w \in WindowIds : winState[w] = 2}

LEMMA WindowsFinite ==
  ASSUME NEW S \in SUBSET WindowIds
  PROVE  IsFiniteSet(S) /\ Cardinality(S) \in Nat
  BY ChunkFinite, FS_Subset, FS_CardinalityType

(* A step that leaves the receiver's windows alone. *)
LEMMA WindowsSame ==
  ASSUME WindowsCounted, CacheKept, hashReqs' \subseteq hashReqs,
         hashReplies' \subseteq hashReplies,
         UNCHANGED <<winState, winRecv, verified, bitmap, hashes>>
  PROVE  WindowsCounted'
<1>1. ASSUME NEW w \in WindowIds, winState[w] = 2, NEW i \in Window(w)
      PROVE  i \in srcHave' /\ hashes'[i] = srcHash'[i]
  <2>1. i \in srcHave /\ hashes[i] = srcHash[i]
    BY <1>1 DEF WindowsCounted
  <2> QED BY <2>1 DEF CacheKept
<1>2. ASSUME NEW w \in WindowIds
      PROVE  /\ (w \in hashReqs' \/ \E h \in hashReplies' : h.win = w) => winState[w] = 1
             /\ w \in hashReqs' => \A h \in hashReplies' : h.win # w
             /\ winState[w] # 0 => Window(w) \subseteq bitmap
             /\ winRecv[w] = Cardinality(Window(w) \cap bitmap)
  BY DEF WindowsCounted
<1>3. verified = Cardinality({w \in WindowIds : winState[w] = 2})
  BY DEF WindowsCounted
<1> QED BY <1>1, <1>2, <1>3 DEF WindowsCounted

(* One chunk more is held. *)
LEMMA WindowsChunkWritten ==
  ASSUME TypeOK, RootInv, OnDataChunk
  PROVE  WindowsCounted'
<1> USE DEF RootInv
<1>1. PICK d \in datas :
        LET i == d.index
            w == WindowOf(i)
            ask == winRecv[w] + 1 = windowSize(w) /\ winState[w] = 0
        IN /\ hashes' = [hashes EXCEPT ![i] = Sum(Assembled(d))]
           /\ bitmap' = bitmap \cup {i}
           /\ winRecv' = [winRecv EXCEPT ![w] = @ + 1]
           /\ winState' = IF ask THEN [winState EXCEPT ![w] = 1] ELSE winState
           /\ hashReqs' = IF ask THEN hashReqs \cup {w} ELSE hashReqs
  BY DEF OnDataChunk
<1>2. UNCHANGED <<srcHave, srcHash, hashReplies, verified>>
  BY DEF OnDataChunk
<1>3. PICK i, v : i = d.index /\ v = WindowOf(i)
  OBVIOUS
<1>4. i \in Chunk /\ i \notin bitmap
  <2>1. i \in AwaitedData /\ i \in Chunk
    BY <1>3 DEF TypeOK, AwaitedData
  <2> QED BY <2>1 DEF OnePlace, Awaited
<1>5. v \in WindowIds /\ i \in Window(v) /\ \A w \in WindowIds : i \in Window(w) => w = v
  BY <1>3, <1>4, WindowOfFacts
<1>6. winState[v] = 0
  BY <1>4, <1>5 DEF WindowsCounted
<1>7. v \notin hashReqs /\ \A h \in hashReplies : h.win # v
  <2>1. (v \in hashReqs \/ \E h \in hashReplies : h.win = v) => winState[v] = 1
    BY <1>5 DEF WindowsCounted
  <2> QED BY <1>6, <2>1
<1>8. /\ \A j \in Chunk : j # i => hashes'[j] = hashes[j]
      /\ bitmap' = bitmap \cup {i}
      /\ winRecv'[v] = winRecv[v] + 1
      /\ \A w \in WindowIds : w # v => winRecv'[w] = winRecv[w] /\ winState'[w] = winState[w]
      /\ winState'[v] \in {0, 1}
      /\ winState'[v] = 1 <=> winRecv[v] + 1 = windowSize(v)
      /\ \/ hashReqs' = hashReqs
         \/ hashReqs' = hashReqs \cup {v} /\ winState'[v] = 1
  <2>1. /\ hashes \in [Chunk -> Hash \cup {None}]
        /\ winRecv \in [WindowIds -> Int] /\ winState \in [WindowIds -> 0 .. 2]
    BY DEF TypeOK
  <2>2. CASE winRecv[v] + 1 = windowSize(v)
    BY <1>1, <1>3, <1>4, <1>5, <1>6, <2>1, <2>2
  <2>3. CASE winRecv[v] + 1 # windowSize(v)
    BY <1>1, <1>3, <1>4, <1>5, <1>6, <2>1, <2>3
  <2> QED BY <2>2, <2>3
<1>9. /\ winRecv'[v] = Cardinality(Window(v) \cap bitmap')
      /\ winState'[v] # 0 => Window(v) \subseteq bitmap'
  <2>1. /\ IsFiniteSet(Window(v)) /\ Cardinality(Window(v)) = windowSize(v)
    BY <1>5, WindowFacts
  <2>2. Window(v) \cap bitmap' = (Window(v) \cap bitmap) \cup {i}
    BY <1>5, <1>8
  <2>3. IsFiniteSet(Window(v) \cap bitmap)
    BY <2>1, FS_Intersection
  <2>4. Cardinality(Window(v) \cap bitmap') = Cardinality(Window(v) \cap bitmap) + 1
    BY <1>4, <2>2, <2>3, FS_AddElement
  <2>5. winRecv'[v] = Cardinality(Window(v) \cap bitmap')
    BY <1>5, <1>8, <2>4 DEF WindowsCounted
  <2>6. ASSUME winState'[v] # 0 PROVE Window(v) \subseteq bitmap'
    <3>1. Cardinality(Window(v)) = Cardinality(Window(v) \cap bitmap')
      BY <1>8, <2>1, <2>5, <2>6
    <3>2. Window(v) = Window(v) \cap bitmap'
      BY <2>1, <3>1, FS_Subset
    <3> QED BY <3>2
  <2> QED BY <2>5, <2>6
<1>10. ASSUME NEW w \in WindowIds
       PROVE  /\ (w \in hashReqs' \/ \E h \in hashReplies' : h.win = w) => winState'[w] = 1
              /\ w \in hashReqs' => \A h \in hashReplies' : h.win # w
              /\ winState'[w] # 0 => Window(w) \subseteq bitmap'
              /\ winState'[w] = 2 => \A j \in Window(w) :
                                j \in srcHave' /\ hashes'[j] = srcHash'[j]
              /\ winRecv'[w] = Cardinality(Window(w) \cap bitmap')
  <2>1. CASE w = v
    <3>1. winState'[w] # 2
      BY <1>8, <2>1
    <3>2. w \in hashReqs' => winState'[w] = 1
      BY <1>7, <1>8, <2>1
    <3> QED BY <1>2, <1>7, <1>9, <2>1, <3>1, <3>2
  <2>2. CASE w # v
    <3>1. i \notin Window(w) /\ Window(w) \subseteq Chunk
      BY <1>5, <2>2, WindowFacts
    <3>2. Window(w) \cap bitmap' = Window(w) \cap bitmap
      BY <1>8, <3>1
    <3>3. winState'[w] = winState[w] /\ winRecv'[w] = winRecv[w]
      BY <1>8, <2>2
    <3>4. w \in hashReqs' <=> w \in hashReqs
      BY <1>8, <2>2
    <3>5. winState[w] = 2 => \A j \in Window(w) :
                                j \in srcHave' /\ hashes'[j] = srcHash'[j]
      BY <1>2, <1>8, <3>1 DEF WindowsCounted
    <3> QED BY <1>2, <1>8, <3>2, <3>3, <3>4, <3>5 DEF WindowsCounted
  <2> QED BY <2>1, <2>2
<1>11. verified' = Cardinality({w \in WindowIds : winState'[w] = 2})
  <2>1. {w \in WindowIds : winState'[w] = 2} = {w \in WindowIds : winState[w] = 2}
    BY <1>5, <1>6, <1>8
  <2> QED BY <1>2, <2>1 DEF WindowsCounted
<1> QED BY <1>10, <1>11 DEF WindowsCounted

(* Two HASH replies for one window would be the same reply. *)
LEMMA OneReply ==
  ASSUME TypeOK, RepliesFromCache,
         NEW h \in hashReplies, NEW g \in hashReplies, g.win = h.win
  PROVE  g = h
<1>1. ASSUME NEW x \in hashReplies
      PROVE  x = [win |-> x.win, hs |-> [i \in Window(x.win) |-> srcHash[i]]]
  <2>1. PICK w \in {0} \cup WindowIds :
          x \in [win : {w}, hs : [Window(w) -> Hash \cup {None}]]
    <3>1. x \in HashReply
      BY DEF TypeOK
    <3> QED BY <3>1 DEF HashReply
  <2>2. x.win = w /\ x.hs \in [Window(w) -> Hash \cup {None}]
        /\ x = [win |-> x.win, hs |-> x.hs]
    BY <2>1
  <2>3. \A i \in Window(w) : x.hs[i] = srcHash[i]
    BY <2>2 DEF RepliesFromCache
  <2>4. x.hs = [i \in Window(w) |-> x.hs[i]]
    BY <2>2
  <2>5. x.hs = [i \in Window(w) |-> srcHash[i]]
    BY <2>3, <2>4
  <2> QED BY <2>2, <2>5
<1>2. h = [win |-> h.win, hs |-> [i \in Window(h.win) |-> srcHash[i]]]
  BY <1>1
<1>3. g = [win |-> h.win, hs |-> [i \in Window(h.win) |-> srcHash[i]]]
  BY <1>1
<1> QED BY <1>2, <1>3

(* A window passes verification. *)
LEMMA WindowsVerified ==
  ASSUME TypeOK, RootInv, OnHashGood
  PROVE  WindowsCounted'
<1> USE DEF RootInv
<1>1. PICK h \in hashReplies :
        /\ Chunks > 0 => Verify(h) = {}
        /\ IF Chunks > 0 /\ winState[h.win] # 2
           THEN winState' = [winState EXCEPT ![h.win] = 2] /\ verified' = verified + 1
           ELSE UNCHANGED <<winState, verified>>
        /\ hashReplies' = hashReplies \ {h}
  BY DEF OnHashGood
<1>2. UNCHANGED <<srcHave, srcHash, hashReqs, winRecv, bitmap, hashes>>
  BY DEF OnHashGood
<1>3. CASE h.win \notin WindowIds
  <2>1. Chunks = 0
    <3>1. h.win = 0
      BY <1>3 DEF TypeOK, HashReply
    <3>2. Chunks \in Nat
      BY ConstantsAssumption
    <3>3. ASSUME Chunks # 0 PROVE FALSE
      <4>1. 0 \in Chunk
        BY <3>2, <3>3 DEF Chunk
      <4>2. WindowOf(0) = 0
        BY ConstantsAssumption DEF WindowOf
      <4> QED BY <1>3, <3>1, <4>1, <4>2, WindowOfFacts
    <3> QED BY <3>3
  <2>2. UNCHANGED <<winState, verified>>
    BY <1>1, <2>1
  <2>3. CacheKept
    BY <1>2, SameCache
  <2> QED BY <1>1, <1>2, <2>2, <2>3, WindowsSame
<1>4. CASE h.win \in WindowIds
  <2>1. PICK v \in WindowIds : v = h.win
    BY <1>4
  <2>2. Chunks > 0
    <3>1. Window(v) \subseteq Chunk /\ Chunks \in Nat
      BY ConstantsAssumption, WindowFacts
    <3>2. Chunks # 0
      BY ConstantsAssumption DEF WindowIds, Windows
    <3> QED BY <3>1, <3>2
  <2>3. winState[v] = 1 /\ v \notin hashReqs
    BY <2>1 DEF WindowsCounted
  <2>4. winState' = [winState EXCEPT ![v] = 2] /\ verified' = verified + 1
    BY <1>1, <2>1, <2>2, <2>3
  <2>5. winState \in [WindowIds -> 0 .. 2]
    BY DEF TypeOK
  <2>6. \A g \in hashReplies' : g.win # v
    BY <1>1, <2>1, OneReply
  <2>7. \A j \in Window(v) : j \in srcHave /\ hashes[j] = srcHash[j]
    <3>1. Window(v) \subseteq bitmap
      <4>1. winState[v] # 0 => Window(v) \subseteq bitmap
        BY DEF WindowsCounted
      <4> QED BY <2>3, <4>1
    <3>2. \A j \in Window(v) : hashes[j] = h.hs[j]
      BY <1>1, <2>1, <2>2, <3>1 DEF Verify
    <3> QED BY <2>1, <3>2 DEF RepliesFromCache
  <2>8. ASSUME NEW w \in WindowIds
        PROVE  /\ (w \in hashReqs' \/ \E g \in hashReplies' : g.win = w) => winState'[w] = 1
               /\ w \in hashReqs' => \A g \in hashReplies' : g.win # w
               /\ winState'[w] # 0 => Window(w) \subseteq bitmap'
               /\ winState'[w] = 2 => \A j \in Window(w) :
                                 j \in srcHave' /\ hashes'[j] = srcHash'[j]
               /\ winRecv'[w] = Cardinality(Window(w) \cap bitmap')
    <3>1. CASE w = v
      BY <1>2, <2>3, <2>6, <2>7, <3>1 DEF WindowsCounted
    <3>2. CASE w # v
      <4>1. winState'[w] = winState[w]
        BY <2>4, <2>5, <3>2
      <4> QED BY <1>1, <1>2, <4>1 DEF WindowsCounted
    <3> QED BY <3>1, <3>2
  <2>9. verified' = Cardinality({w \in WindowIds : winState'[w] = 2})
    <3> DEFINE S == {w \in WindowIds : winState[w] = 2}
    <3>1. {w \in WindowIds : winState'[w] = 2} = S \cup {v}
      BY <2>4, <2>5
    <3>2. v \notin S /\ IsFiniteSet(S)
      BY <2>3, WindowsFinite
    <3>3. Cardinality(S \cup {v}) = Cardinality(S) + 1
      BY <3>2, FS_AddElement
    <3> QED BY <2>4, <3>1, <3>3 DEF WindowsCounted
  <2> QED BY <2>8, <2>9 DEF WindowsCounted
<1> QED BY <1>3, <1>4

(* A window fails: its bad chunks are no longer held. *)
LEMMA WindowsFailed ==
  ASSUME TypeOK, RootInv, OnHashBad
  PROVE  WindowsCounted'
<1> USE DEF RootInv
<1>1. PICK h \in hashReplies :
        /\ Verify(h) # {}
        /\ bitmap' = bitmap \ Verify(h)
        /\ winState' = [winState EXCEPT ![h.win] = 0]
        /\ winRecv' = [winRecv EXCEPT ![h.win] = @ - Cardinality(Verify(h))]
        /\ hashReplies' = hashReplies \ {h}
  BY DEF OnHashBad
<1>2. UNCHANGED <<srcHave, srcHash, hashReqs, hashes, verified>>
  BY DEF OnHashBad
<1>3. PICK v, bad : v = h.win /\ bad = Verify(h)
  OBVIOUS
<1>4. bad \subseteq Window(v) \cap bitmap /\ bad # {}
  BY <1>1, <1>3 DEF Verify
<1>5. v \in WindowIds
  <2>1. v \in {0} \cup WindowIds
    BY <1>3 DEF TypeOK, HashReply
  <2>2. PICK j \in Window(v) : TRUE
    BY <1>4
  <2>3. j \in Chunk
    BY <2>1, AnyWindow
  <2>4. ASSUME v = 0 PROVE 0 \in WindowIds
    <3>1. WindowOf(j) \in WindowIds
      BY <2>3, WindowOfFacts
    <3>2. Windows \in Int
      BY ConstantsAssumption DEF Windows
    <3> QED BY <3>1, <3>2 DEF WindowIds
  <2> QED BY <2>1, <2>4
<1>6. winState[v] = 1 /\ v \notin hashReqs
  <2>1. /\ (v \in hashReqs \/ \E g \in hashReplies : g.win = v) => winState[v] = 1
        /\ v \in hashReqs => \A g \in hashReplies : g.win # v
    BY <1>5 DEF WindowsCounted
  <2> QED BY <1>3, <2>1
<1>7. \A g \in hashReplies' : g.win # v
  BY <1>1, <1>3, OneReply
<1>8. /\ winState'[v] = 0 /\ winRecv'[v] = winRecv[v] - Cardinality(bad)
      /\ \A w \in WindowIds : w # v => winState'[w] = winState[w] /\ winRecv'[w] = winRecv[w]
  BY <1>1, <1>3, <1>5 DEF TypeOK
<1>9. winRecv'[v] = Cardinality(Window(v) \cap bitmap')
  <2> DEFINE S == Window(v) \cap bitmap
  <2>1. IsFiniteSet(S)
    BY <1>5, WindowFacts, FS_Intersection
  <2>2. Window(v) \cap bitmap' = S \ bad /\ S \cap bad = bad
    BY <1>1, <1>3, <1>4
  <2>3. Cardinality(S \ bad) = Cardinality(S) - Cardinality(S \cap bad)
    BY <2>1, FS_Difference
  <2>4. winRecv[v] = Cardinality(S)
    BY <1>5 DEF WindowsCounted
  <2> QED BY <1>8, <2>2, <2>3, <2>4
<1>10. ASSUME NEW w \in WindowIds
       PROVE  /\ (w \in hashReqs' \/ \E g \in hashReplies' : g.win = w) => winState'[w] = 1
              /\ w \in hashReqs' => \A g \in hashReplies' : g.win # w
              /\ winState'[w] # 0 => Window(w) \subseteq bitmap'
              /\ winState'[w] = 2 => \A j \in Window(w) :
                                j \in srcHave' /\ hashes'[j] = srcHash'[j]
              /\ winRecv'[w] = Cardinality(Window(w) \cap bitmap')
  <2>1. CASE w = v
    BY <1>2, <1>6, <1>7, <1>8, <1>9, <2>1
  <2>2. CASE w # v
    <3>1. Window(w) \cap bad = {}
      <4>1. Window(w) \subseteq Chunk
        BY WindowFacts
      <4>2. \A j \in Window(w) : WindowOf(j) = w
        BY <4>1, WindowOfFacts
      <4>3. \A j \in bad : j \in Chunk => WindowOf(j) = v
        BY <1>4, <1>5, WindowOfFacts
      <4> QED BY <2>2, <4>1, <4>2, <4>3
    <3>2. Window(w) \cap bitmap' = Window(w) \cap bitmap
      BY <1>1, <1>3, <3>1
    <3>3. winState'[w] = winState[w] /\ winRecv'[w] = winRecv[w]
      BY <1>8, <2>2
    <3>4. Window(w) \subseteq bitmap => Window(w) \subseteq bitmap'
      BY <3>2
    <3>5. /\ (w \in hashReqs \/ \E g \in hashReplies : g.win = w) => winState[w] = 1
          /\ w \in hashReqs => \A g \in hashReplies : g.win # w
          /\ winState[w] # 0 => Window(w) \subseteq bitmap
          /\ winState[w] = 2 => \A j \in Window(w) :
                                j \in srcHave /\ hashes[j] = srcHash[j]
          /\ winRecv[w] = Cardinality(Window(w) \cap bitmap)
      BY DEF WindowsCounted
    <3> QED BY <1>1, <1>2, <3>2, <3>3, <3>4, <3>5
  <2> QED BY <2>1, <2>2
<1>11. verified' = Cardinality({w \in WindowIds : winState'[w] = 2})
  <2>1. {w \in WindowIds : winState'[w] = 2} = {w \in WindowIds : winState[w] = 2}
    BY <1>5, <1>6, <1>8
  <2> QED BY <1>2, <2>1 DEF WindowsCounted
<1> QED BY <1>10, <1>11 DEF WindowsCounted

(* A run begins, perhaps with chunks of an earlier one. *)
LEMMA WindowsStarted ==
  ASSUME TypeOK, RootInv, StartRun
  PROVE  WindowsCounted'
<1> USE DEF RootInv
<1>1. PICK recv, full :
        /\ recv = [w \in WindowIds |-> Cardinality(Window(w) \cap bitmap')]
        /\ full = {w \in WindowIds : recv[w] = windowSize(w)}
        /\ winRecv' = recv
        /\ winState' = [w \in WindowIds |-> IF w \in full THEN 1 ELSE 0]
        /\ hashReqs' = full \cup (IF Chunks = 0 THEN {0} ELSE {})
  BY DEF StartRun
<1>2. hashReplies' = {} /\ verified' = 0
  BY DEF StartRun, StreamOnlyWhileRunning
<1>3. ASSUME NEW w \in WindowIds, w \in full
      PROVE  Window(w) \subseteq bitmap'
  <2>1. /\ IsFiniteSet(Window(w))
        /\ Cardinality(Window(w)) = Cardinality(Window(w) \cap bitmap')
    BY <1>1, <1>3, WindowFacts
  <2>2. Window(w) = Window(w) \cap bitmap'
    BY <2>1, FS_Subset
  <2> QED BY <2>2
<1>4. ASSUME NEW w \in WindowIds, w \in hashReqs'
      PROVE  w \in full
  <2>1. CASE Chunks = 0
    <3>1. WindowIds = {}
      BY <2>1, ConstantsAssumption DEF WindowIds, Windows
    <3> QED BY <3>1
  <2>2. CASE Chunks # 0
    BY <1>1, <1>4, <2>2
  <2> QED BY <2>1, <2>2
<1>5. ASSUME NEW w \in WindowIds
      PROVE  /\ w \in hashReqs' => winState'[w] = 1
             /\ winState'[w] # 0 => Window(w) \subseteq bitmap'
             /\ winState'[w] # 2
             /\ winRecv'[w] = Cardinality(Window(w) \cap bitmap')
  BY <1>1, <1>3, <1>4
<1>6. verified' = Cardinality({w \in WindowIds : winState'[w] = 2})
  <2>1. {w \in WindowIds : winState'[w] = 2} = {}
    BY <1>5
  <2> QED BY <1>2, <2>1, FS_EmptySet
<1> QED BY <1>2, <1>5, <1>6 DEF WindowsCounted

(* A HASH-REQ becomes a HASH reply. *)
LEMMA WindowsAnswered ==
  ASSUME TypeOK, RootInv, ServeHashReq
  PROVE  WindowsCounted'
<1> USE DEF RootInv
<1>1. PICK v \in hashReqs :
        /\ srcHave' = srcHave \cup Window(v) /\ srcHash' = Cached(Window(v))
        /\ hashReplies' = hashReplies \cup
             {[win |-> v, hs |-> [i \in Window(v) |-> srcHash'[i]]]}
        /\ hashReqs' = hashReqs \ {v}
  BY DEF ServeHashReq
<1>2. UNCHANGED <<winState, winRecv, verified, bitmap, hashes>>
  BY DEF ServeHashReq
<1>3. CacheKept
  <2>1. v \in {0} \cup WindowIds
    BY DEF TypeOK
  <2> QED BY <1>1, <2>1, AnyWindow, CachedKept
<1>4. ASSUME NEW w \in WindowIds
      PROVE  /\ (w \in hashReqs' \/ \E g \in hashReplies' : g.win = w) => winState'[w] = 1
             /\ w \in hashReqs' => \A g \in hashReplies' : g.win # w
             /\ winState'[w] # 0 => Window(w) \subseteq bitmap'
             /\ winState'[w] = 2 => \A j \in Window(w) :
                               j \in srcHave' /\ hashes'[j] = srcHash'[j]
             /\ winRecv'[w] = Cardinality(Window(w) \cap bitmap')
  <2>1. /\ (w \in hashReqs \/ \E g \in hashReplies : g.win = w) => winState[w] = 1
        /\ w \in hashReqs => \A g \in hashReplies : g.win # w
        /\ winState[w] # 0 => Window(w) \subseteq bitmap
        /\ winState[w] = 2 => \A j \in Window(w) :
                              j \in srcHave /\ hashes[j] = srcHash[j]
        /\ winRecv[w] = Cardinality(Window(w) \cap bitmap)
    BY DEF WindowsCounted
  <2>2. \A g \in hashReplies' : g \in hashReplies \/ g.win = v
    BY <1>1
  <2>3. (w \in hashReqs' \/ \E g \in hashReplies' : g.win = w) => winState'[w] = 1
    BY <1>1, <1>2, <2>1, <2>2
  <2>4. w \in hashReqs' => \A g \in hashReplies' : g.win # w
    BY <1>1, <2>1, <2>2
  <2>5. winState'[w] = 2 => \A j \in Window(w) :
                               j \in srcHave' /\ hashes'[j] = srcHash'[j]
    BY <1>2, <1>3, <2>1 DEF CacheKept
  <2> QED BY <1>2, <2>1, <2>3, <2>4, <2>5
<1>5. verified' = Cardinality({w \in WindowIds : winState'[w] = 2})
  BY <1>2 DEF WindowsCounted
<1> QED BY <1>4, <1>5 DEF WindowsCounted

LEMMA WindowsStep ==
  ASSUME TypeOK, RootInv, [Next]_vars
  PROVE  WindowsCounted'
<1> USE DEF RootInv
<1>1. ASSUME CacheKept, hashReqs' \subseteq hashReqs, hashReplies' \subseteq hashReplies,
             UNCHANGED <<winState, winRecv, verified, bitmap, hashes>>
      PROVE  WindowsCounted'
  BY <1>1, WindowsSame
<1>2. CASE OnDataPart \/ OnDone \/ DeletePartial \/ TakeReq \/ RefuseChunk
           \/ Stop \/ EditFile \/ UNCHANGED vars
  <2>1. /\ UNCHANGED <<srcHave, srcHash, hashReqs, hashReplies>>
        /\ UNCHANGED <<winState, winRecv, verified, bitmap, hashes>>
    BY <1>2 DEF OnDataPart, OnDone, DeletePartial, TakeReq, RefuseChunk, Stop,
                EditFile, vars
  <2> QED BY <1>1, <2>1, SameCache
<1>3. CASE StartRun
  BY <1>3, WindowsStarted
<1>4. CASE OnDataChunk
  BY <1>4, WindowsChunkWritten
<1>5. CASE OnHashGood
  BY <1>5, WindowsVerified
<1>6. CASE OnHashBad
  BY <1>6, WindowsFailed
<1>7. CASE OnHashGiveUp \/ OnError \/ DoneTimeout \/ StreamLost
  BY <1>7, FailRunRoot DEF OnHashGiveUp, OnError, DoneTimeout, StreamLost
<1>8. CASE CheckRoot
  <2>1. CASE Root(hashes) = root
    <3>1. /\ UNCHANGED <<srcHave, srcHash, winState, winRecv, verified, bitmap, hashes>>
          /\ hashReqs' = {} /\ hashReplies' = {}
      BY <1>8, <2>1 DEF CheckRoot, CloseStream
    <3> QED BY <1>1, <3>1, SameCache
  <2>2. CASE Root(hashes) # root
    BY <1>8, <2>2, FailRunRoot DEF CheckRoot
  <2> QED BY <2>1, <2>2
<1>9. CASE Crash \/ CrashInWriteChunk
  BY <1>9, ForgetRoot DEF Crash, CrashInWriteChunk
<1>10. CASE ServeChunk
  <2>1. PICK i : i = serving.next
    OBVIOUS
  <2>2. /\ srcHave' = srcHave \cup {i} /\ srcHash' = Cached({i})
        /\ UNCHANGED <<hashReqs, hashReplies, winState, winRecv, verified, bitmap, hashes>>
        /\ serving.next < serving.end
    BY <1>10, <2>1 DEF ServeChunk
  <2>3. i \in Chunk
    <3>1. serving \in [next : 0 .. Chunks, end : 0 .. Chunks] /\ Chunks \in Nat
      BY ConstantsAssumption DEF TypeOK
    <3> QED BY <2>1, <2>2, <3>1 DEF Chunk
  <2> QED BY <1>1, <2>2, <2>3, CachedKept
<1>11. CASE ServeHashReq
  BY <1>11, WindowsAnswered
<1>12. CASE OtherSessionReads
  <2>1. PICK i \in Chunk : srcHave' = srcHave \cup {i} /\ srcHash' = Cached({i})
    BY <1>12 DEF OtherSessionReads
  <2>2. CacheKept
    BY <2>1, CachedKept
  <2> QED BY <1>1, <1>12, <2>2 DEF OtherSessionReads
<1>13. CASE HostRestart
  <2>1. /\ UNCHANGED <<winState, winRecv, verified, bitmap, hashes, hashReqs, hashReplies>>
        /\ hashReqs = {} /\ hashReplies = {}
        /\ winState = [w \in WindowIds |-> 0]
    BY <1>13 DEF HostRestart, StreamOnlyWhileRunning
  <2> QED BY <2>1 DEF WindowsCounted
<1> QED
  BY <1>2, <1>3, <1>4, <1>5, <1>6, <1>7, <1>8, <1>9, <1>10, <1>11, <1>12, <1>13
  DEF Next, ReceiverNext, HostNext
-----------------------------------------------------------------------------
LEMMA RootInit == Init => RootInv
<1> SUFFICES ASSUME Init PROVE RootInv
  OBVIOUS
<1>1. /\ queue = <<>> /\ partial = [i \in Chunk |-> NoPartial]
      /\ winRecv = [w \in WindowIds |-> 0] /\ winState = [w \in WindowIds |-> 0]
      /\ verified = 0 /\ root = None /\ bitmap = {}
      /\ reqs = {} /\ hashReqs = {} /\ datas = {} /\ hashReplies = {}
      /\ dones = {} /\ errors = {} /\ serving = Idle /\ phase = "idle"
  BY DEF Init
<1>2. AwaitedReqs = {} /\ AwaitedServing = {} /\ AwaitedData = {}
  BY <1>1 DEF AwaitedReqs, AwaitedServing, AwaitedData, Idle, NoPartial
<1>3. OnePlace /\ PiecesOnce
  BY <1>1, <1>2 DEF OnePlace, PiecesOnce, Awaited
<1>4. RepliesFromCache /\ StreamOnlyWhileRunning
  BY <1>1 DEF RepliesFromCache, StreamOnlyWhileRunning
<1>5. WindowsCounted
  <2>1. Cardinality({}) = 0
    BY FS_EmptySet
  <2>2. {w \in WindowIds : winState[w] = 2} = {}
    BY <1>1
  <2>3. \A w \in WindowIds : Window(w) \cap bitmap = {}
    BY <1>1
  <2> QED BY <1>1, <2>1, <2>2, <2>3 DEF WindowsCounted
<1> QED BY <1>3, <1>4, <1>5 DEF RootInv

(* The count is right: when it says so, every window is verified. *)
LEMMA AllWindowsVerified ==
  ASSUME RootInv, allVerified
  PROVE  \A w \in WindowIds : winState[w] = 2
<1> DEFINE S == {w \in WindowIds : winState[w] = 2}
<1>1. Windows \in Nat
  BY ConstantsAssumption DEF Windows
<1>2. IsFiniteSet(WindowIds) /\ Cardinality(WindowIds) = Windows
  <2>1. 0 \in Int /\ Windows - 1 \in Int
    BY <1>1
  <2>2. Cardinality(0 .. Windows - 1) = IF 0 > Windows - 1 THEN 0 ELSE Windows - 1 - 0 + 1
    BY <2>1, FS_Interval
  <2> QED BY <1>1, <2>2, ChunkFinite DEF WindowIds
<1>3. Cardinality(WindowIds) = Cardinality(S)
  BY <1>2 DEF RootInv, WindowsCounted, allVerified
<1>4. WindowIds = S
  BY <1>2, <1>3, FS_Subset
<1> QED BY <1>4

(* The invariant gives the property: with every window verified, all of    *)
(* the receiver's hashes are the host's.                                   *)
LEMMA RootFollows ==
  ASSUME TypeOK, RootInv
  PROVE  RootAlwaysMatches
<1> USE DEF RootInv
<1> SUFFICES ASSUME finished PROVE Root(hashes) = root
  BY DEF RootAlwaysMatches
<1>1. verified = Windows /\ root # None
  BY DEF finished, allVerified
<1>2. srcHave = Chunk /\ root = Root(srcHash)
  BY <1>1 DEF RepliesFromCache
<1>3. \A w \in WindowIds : winState[w] = 2
  BY AllWindowsVerified DEF finished
<1>4. \A i \in Chunk : hashes[i] = srcHash[i]
  BY <1>3, WindowOfFacts DEF WindowsCounted
<1>5. hashes = [i \in Chunk |-> hashes[i]] /\ srcHash = [i \in Chunk |-> srcHash[i]]
  BY DEF TypeOK
<1>6. hashes = srcHash
  BY <1>4, <1>5
<1> QED BY <1>2, <1>6

(* The strengthening of RootAlwaysMatches holds in every reachable state,  *)
(* for every size of file, window, limit and number of pieces.             *)
THEOREM RootInvariant == Spec => []RootInv
<1>1. RootInv /\ TypeOK /\ TypeOK' /\ [Next]_vars => RootInv'
  <2> SUFFICES ASSUME RootInv, TypeOK, TypeOK', [Next]_vars
               PROVE  RootInv'
    OBVIOUS
  <2>1. OnePlace' /\ PiecesOnce'
    BY PlacesStep
  <2>2. RepliesFromCache' /\ WindowsCounted' /\ StreamOnlyWhileRunning'
    BY RepliesStep, WindowsStep, StreamStep
  <2> QED BY <2>1, <2>2 DEF RootInv
<1> QED BY <1>1, RootInit, TypeCorrect, PTL DEF Spec

(* The "root hash mismatch" error is unreachable: whatever edits of the    *)
(* shared file, retries, resumed runs and orders of delivery came before,  *)
(* a run that ends its loop has the root the host sent.                    *)
THEOREM RootMatches == Spec => []RootAlwaysMatches
<1>1. TypeOK /\ RootInv => RootAlwaysMatches
  BY RootFollows
<1> QED BY <1>1, TypeCorrect, RootInvariant, PTL
-----------------------------------------------------------------------------
(***************************************************************************)
(* What a stream carries: a verified window is never written again, the    *)
(* bytes of a file nobody edits never fail a verification, and the stream  *)
(* never runs dry before everything is verified.                           *)
(***************************************************************************)
(* A verified window stays verified *)

(* What VerifiedStaysVerified says of one step. *)
KeepsVerified ==
  \A w \in WindowIds :
    (phase = "running" /\ phase' # "idle" /\ winState[w] = 2) =>
       /\ winState'[w] = 2
       /\ \A i \in Window(w) : hashes'[i] = hashes[i] /\ disk'[i] = disk[i]

(* A chunk that arrives is not held, so it is in no verified window. *)
LEMMA ArrivalNotVerified ==
  ASSUME TypeOK, RootInv, NEW d \in datas, NEW w \in WindowIds, winState[w] = 2
  PROVE  /\ d.index \in Chunk /\ d.index \notin Window(w)
         /\ WindowOf(d.index) \in WindowIds /\ WindowOf(d.index) # w
<1>1. d.index \in Chunk /\ d.index \in AwaitedData
  BY DEF TypeOK, AwaitedData
<1>2. d.index \notin bitmap
  BY <1>1 DEF RootInv, OnePlace, Awaited
<1>3. Window(w) \subseteq bitmap
  <2>1. winState[w] # 0 => Window(w) \subseteq bitmap
    BY DEF RootInv, WindowsCounted
  <2> QED BY <2>1
<1> QED BY <1>1, <1>2, <1>3, WindowOfFacts

(* A HASH reply is never about a window that is verified already. *)
LEMMA ReplyNotVerified ==
  ASSUME RootInv, NEW h \in hashReplies, NEW w \in WindowIds, winState[w] = 2
  PROVE  h.win # w
<1>1. (\E g \in hashReplies : g.win = w) => winState[w] = 1
  BY DEF RootInv, WindowsCounted
<1> QED BY <1>1

LEMMA VerifiedStep ==
  ASSUME TypeOK, RootInv, [Next]_vars
  PROVE  KeepsVerified
<1> SUFFICES ASSUME NEW w \in WindowIds,
                    phase = "running", phase' # "idle", winState[w] = 2
             PROVE  /\ winState'[w] = 2
                    /\ \A i \in Window(w) : hashes'[i] = hashes[i] /\ disk'[i] = disk[i]
  BY DEF KeepsVerified
<1>0. /\ winState \in [WindowIds -> 0 .. 2]
      /\ hashes \in [Chunk -> Hash \cup {None}] /\ disk \in [Chunk -> Data]
  BY DEF TypeOK
<1>1. CASE OnDataChunk
  <2>1. PICK d \in datas :
          /\ disk' = [disk EXCEPT ![d.index] = Assembled(d)]
          /\ hashes' = [hashes EXCEPT ![d.index] = Sum(Assembled(d))]
          /\ \/ winState' = [winState EXCEPT ![WindowOf(d.index)] = 1]
             \/ winState' = winState
    BY <1>1 DEF OnDataChunk, Written
  <2> QED BY <1>0, <2>1, ArrivalNotVerified
<1>2. CASE OnHashGood
  <2>1. PICK h \in hashReplies :
          \/ winState' = [winState EXCEPT ![h.win] = 2]
          \/ winState' = winState
    BY <1>2 DEF OnHashGood
  <2>2. UNCHANGED <<hashes, disk>>
    BY <1>2 DEF OnHashGood
  <2> QED BY <1>0, <2>1, <2>2
<1>3. CASE OnHashBad
  <2>1. PICK h \in hashReplies : winState' = [winState EXCEPT ![h.win] = 0]
    BY <1>3 DEF OnHashBad
  <2>2. UNCHANGED <<hashes, disk>>
    BY <1>3 DEF OnHashBad
  <2> QED BY <1>0, <2>1, <2>2, ReplyNotVerified
<1>4. CASE UNCHANGED <<winState, hashes, disk>>
  BY <1>4
<1>5. CASE CheckRoot
  <2>1. CASE Root(hashes) = root
    BY <1>4, <1>5, <2>1 DEF CheckRoot
  <2>2. CASE Root(hashes) # root
    BY <1>5, <2>2 DEF CheckRoot, FailRun
  <2> QED BY <2>1, <2>2
<1>6. CASE StartRun \/ DeletePartial \/ HostRestart
  BY <1>6 DEF StartRun, DeletePartial, HostRestart
<1>7. CASE OnHashGiveUp \/ OnError \/ DoneTimeout \/ StreamLost
  BY <1>7 DEF OnHashGiveUp, OnError, DoneTimeout, StreamLost, FailRun
<1>8. CASE Crash \/ CrashInWriteChunk
  BY <1>8 DEF Crash, CrashInWriteChunk
<1>9. CASE OnDataPart \/ OnDone
  BY <1>4, <1>9 DEF OnDataPart, OnDone
<1>10. CASE TakeReq \/ ServeChunk \/ RefuseChunk \/ ServeHashReq
  BY <1>4, <1>10 DEF TakeReq, ServeChunk, RefuseChunk, ServeHashReq
<1>11. CASE OtherSessionReads \/ Stop \/ EditFile \/ UNCHANGED vars
  BY <1>4, <1>11 DEF OtherSessionReads, Stop, EditFile, vars
<1> QED
  BY <1>1, <1>2, <1>3, <1>5, <1>6, <1>7, <1>8, <1>9, <1>10, <1>11
  DEF Next, ReceiverNext, HostNext

(* No late, repeated or reordered DATA or HASH frame ever touches a window *)
(* the receiver has verified: for every number of chunks, windows, pieces  *)
(* and requests in flight.                                                 *)
THEOREM VerifiedKept == Spec => VerifiedStaysVerified
<1>1. TypeOK /\ RootInv /\ [Next]_vars => KeepsVerified
  BY VerifiedStep
<1>2. TypeOK /\ RootInv /\ [Next]_vars =>
        [\A w \in WindowIds :
           (phase = "running" /\ phase' # "idle" /\ winState[w] = 2) =>
              /\ winState'[w] = 2
              /\ \A i \in Window(w) : hashes'[i] = hashes[i] /\ disk'[i] = disk[i]]_vars
  BY <1>1 DEF KeepsVerified
<1> QED
  BY <1>2, TypeCorrect, RootInvariant, PTL DEF Spec, VerifiedStaysVerified
-----------------------------------------------------------------------------
(* Where the bytes come from *)

(* With an earlier content o of the file: whatever is known of a chunk, in *)
(* the host's cache, in flight, held or in the sidecar, is of its bytes in *)
(* o or as they are now.                                                   *)
FrameOf(i, x) ==
  /\ \A d \in datas : d.index = i => d.val = x
  /\ \A p \in InBuffer(i) : partial[i].buf[p] = x
Either(i, o) == {Sum(Whole(o[i])), Sum(Whole(file[i]))}
CacheOf(o) == \A i \in srcHave : srcHash[i] \in Either(i, o)
FramesOf(o) == \A i \in AwaitedData : FrameOf(i, o[i]) \/ FrameOf(i, file[i])
HeldOf(o) ==
  /\ \A i \in bitmap : hashes[i] \in Either(i, o)
  /\ sidecar # None => \A i \in sidecar.bitmap : sidecar.hashes[i] \in Either(i, o)
Versions(o) == CacheOf(o) /\ FramesOf(o) /\ HeldOf(o)

(* Before the first edit everything is of the file as it is; with one edit,*)
(* of the bytes before it or after it.                                     *)
Unedited == edits = 0 => Versions(file) /\ outcome # "gaveup"
TwoVersions == edits <= 1 => \E o \in [Chunk -> Val] : Versions(o)

LEMMA SumInjective == \A a, b : Sum(a) = Sum(b) => a = b
  BY DEF Sum

(* A hash that is new in the cache is of the file as it is; during a run   *)
(* no other is ever replaced.                                              *)
LEMMA CacheEntry ==
  ASSUME TypeOK, [Next]_vars
  PROVE  /\ \A i \in srcHave' : \/ i \in srcHave /\ srcHash'[i] = srcHash[i]
                                \/ srcHash'[i] = Sum(Whole(file[i]))
         /\ phase = "running" =>
              \A i \in srcHave : i \in srcHave' /\ srcHash'[i] = srcHash[i]
<1>0. srcHave \subseteq Chunk /\ srcHash \in [Chunk -> Hash \cup {None}]
  BY DEF TypeOK
<1> DEFINE Goal ==
      /\ \A i \in srcHave' : \/ i \in srcHave /\ srcHash'[i] = srcHash[i]
                             \/ srcHash'[i] = Sum(Whole(file[i]))
      /\ phase = "running" =>
           \A i \in srcHave : i \in srcHave' /\ srcHash'[i] = srcHash[i]
<1> SUFFICES Goal
  OBVIOUS
<1>1. ASSUME UNCHANGED <<srcHave, srcHash>> PROVE Goal
  BY <1>1
<1>2. ASSUME NEW S \in SUBSET Chunk, srcHave' = srcHave \cup S, srcHash' = Cached(S)
      PROVE  Goal
  <2>1. \A i \in srcHave' :
          srcHash'[i] = IF i \in S \ srcHave THEN Sum(Whole(file[i])) ELSE srcHash[i]
    BY <1>0, <1>2 DEF Cached
  <2> QED BY <1>2, <2>1
<1> HIDE DEF Goal
<1>3. CASE ServeChunk
  <2>1. serving.next \in Chunk
    <3>1. serving \in [next : 0 .. Chunks, end : 0 .. Chunks] /\ Chunks \in Nat
      BY ConstantsAssumption DEF TypeOK
    <3>2. serving.next < serving.end
      BY <1>3 DEF ServeChunk
    <3> QED BY <3>1, <3>2 DEF Chunk
  <2> QED BY <1>2, <1>3, <2>1 DEF ServeChunk
<1>4. CASE ServeHashReq
  <2>1. PICK w \in hashReqs :
          srcHave' = srcHave \cup Window(w) /\ srcHash' = Cached(Window(w))
    BY <1>4 DEF ServeHashReq
  <2>2. w \in {0} \cup WindowIds
    BY DEF TypeOK
  <2> QED BY <1>2, <2>1, <2>2, AnyWindow
<1>5. CASE OtherSessionReads
  BY <1>2, <1>5 DEF OtherSessionReads
<1>6. CASE HostRestart
  BY <1>6 DEF HostRestart, Goal
<1>7. CASE \/ StartRun \/ OnDataPart \/ OnDataChunk \/ OnHashGood \/ OnHashBad \/ OnDone
           \/ Crash \/ CrashInWriteChunk \/ DeletePartial
  BY <1>1, <1>7 DEF StartRun, OnDataPart, OnDataChunk, OnHashGood, OnHashBad, OnDone,
                    Crash, CrashInWriteChunk, DeletePartial
<1>8. CASE OnHashGiveUp \/ OnError \/ DoneTimeout \/ StreamLost \/ CheckRoot
  BY <1>1, <1>8 DEF OnHashGiveUp, OnError, DoneTimeout, StreamLost, CheckRoot, FailRun
<1>9. CASE TakeReq \/ RefuseChunk \/ Stop \/ EditFile \/ UNCHANGED vars
  BY <1>1, <1>9 DEF TakeReq, RefuseChunk, Stop, EditFile, vars
<1> QED
  BY <1>3, <1>4, <1>5, <1>6, <1>7, <1>8, <1>9 DEF Next, ReceiverNext, HostNext

LEMMA CacheOfStep ==
  ASSUME TypeOK, NEW o, CacheOf(o), file' = file, [Next]_vars
  PROVE  CacheOf(o)'
<1>1. \A i \in srcHave' : srcHash'[i] \in Either(i, o)
  BY CacheEntry DEF CacheOf, Either
<1> QED BY <1>1 DEF CacheOf, Either, Sum, Whole

(* The piece that completes a chunk completes the buffer, and if the       *)
(* pieces were of x, the chunk is.                                         *)
LEMMA AssembledOf ==
  ASSUME TypeOK, RootInv, NEW d \in datas, NEW x, FrameOf(d.index, x)
  PROVE  /\ Assembled(d) \in Data
         /\ \A p \in InBuffer(d.index) \cup {d.piece} : Assembled(d)[p] = x
         /\ partial[d.index].have + 1 >= Pieces => Assembled(d) = Whole(x)
<1> DEFINE B == InBuffer(d.index)
<1>1. /\ d.index \in Chunk /\ d.piece \in Piece /\ d.val \in Val
      /\ partial[d.index].buf \in Data /\ partial[d.index].have \in Nat
      /\ d.index \in AwaitedData
  BY DEF TypeOK, AwaitedData
<1>2. Assembled(d) \in Data
  BY <1>1 DEF Assembled, Data
<1>3. ASSUME NEW p \in B \cup {d.piece}
      PROVE  Assembled(d)[p] = x
  <2>1. p \in Piece
    BY <1>1 DEF InBuffer
  <2>2. CASE p = d.piece
    BY <1>1, <2>2 DEF Assembled, Data, FrameOf
  <2>3. CASE p # d.piece
    <3>1. partial[d.index].buf[p] = x
      BY <2>3 DEF FrameOf
    <3> QED BY <1>1, <2>1, <2>3, <3>1 DEF Assembled, Data
  <2> QED BY <2>2, <2>3
<1>4. ASSUME partial[d.index].have + 1 >= Pieces
      PROVE  Assembled(d) = Whole(x)
  <2>1. Pieces \in Nat /\ IsFiniteSet(Piece) /\ Cardinality(Piece) = Pieces
    <3>1. Pieces \in Nat /\ Pieces >= 1 /\ 1 \in Int /\ Pieces \in Int
      BY ConstantsAssumption
    <3>2. IsFiniteSet(1 .. Pieces)
          /\ Cardinality(1 .. Pieces) = IF 1 > Pieces THEN 0 ELSE Pieces - 1 + 1
      BY <3>1, FS_Interval
    <3> QED BY <3>1, <3>2 DEF Piece
  <2>2. B \in SUBSET Piece /\ B \cup {d.piece} \in SUBSET Piece /\ d.piece \notin B
    BY <1>1 DEF InBuffer
  <2>3. IsFiniteSet(B) /\ Cardinality(B) = partial[d.index].have
    BY <1>1, <2>1, <2>2, FS_Subset DEF RootInv, PiecesOnce
  <2>4. Cardinality(B \cup {d.piece}) = partial[d.index].have + 1
    BY <2>2, <2>3, FS_AddElement
  <2>5. /\ Cardinality(B \cup {d.piece}) <= Cardinality(Piece)
        /\ Cardinality(Piece) = Cardinality(B \cup {d.piece}) => Piece = B \cup {d.piece}
    BY <2>1, <2>2, FS_Subset
  <2>6. B \cup {d.piece} = Piece
    BY <1>1, <1>4, <2>1, <2>4, <2>5
  <2>7. \A p \in Piece : Assembled(d)[p] = x
    BY <1>3, <2>6
  <2> QED BY <1>2, <2>7 DEF Data, Whole
<1> QED BY <1>2, <1>3, <1>4

(* A chunk on its way stays of x; one that is served now is of the file as *)
(* it is now.                                                              *)
LEMMA FrameStep ==
  ASSUME TypeOK, RootInv, [Next]_vars, NEW i \in AwaitedData', NEW x,
         IF i \in AwaitedData THEN FrameOf(i, x) ELSE x = file[i]
  PROVE  FrameOf(i, x)'
<1>1. ASSUME UNCHANGED <<datas, partial>> PROVE FrameOf(i, x)'
  <2>1. i \in AwaitedData
    BY <1>1 DEF AwaitedData
  <2> QED BY <1>1, <2>1 DEF FrameOf, InBuffer
<1>2. ASSUME datas' = {}, partial' = [j \in Chunk |-> NoPartial] PROVE FALSE
  BY <1>2 DEF AwaitedData, NoPartial
<1>3. CASE StartRun
  <2>1. datas = {}
    BY <1>3 DEF StartRun, RootInv, StreamOnlyWhileRunning
  <2> QED BY <1>2, <1>3, <2>1 DEF StartRun
<1>4. CASE OnDataPart
  <2>1. PICK d \in datas :
          /\ partial' = [partial EXCEPT ![d.index] =
                           [buf |-> Assembled(d), have |-> partial[d.index].have + 1]]
          /\ datas' = datas \ {d}
    BY <1>4 DEF OnDataPart
  <2>2. /\ d.index \in Chunk /\ d.index \in AwaitedData
        /\ InBuffer(d.index)' = InBuffer(d.index) \cup {d.piece}
        /\ \A j \in Chunk : j # d.index => InBuffer(j)' = InBuffer(j)
    BY <2>1, PieceArrives DEF RootInv
  <2>3. /\ partial'[d.index].buf = Assembled(d)
        /\ \A j \in Chunk : j # d.index => partial'[j] = partial[j]
    BY <2>1, <2>2 DEF TypeOK
  <2>4. i \in AwaitedData /\ i \in Chunk
    BY <2>1, <2>2, <2>3 DEF AwaitedData, TypeOK
  <2>5. FrameOf(i, x)
    BY <2>4
  <2>6. \A p \in InBuffer(i)' : partial'[i].buf[p] = x
    <3>1. CASE i = d.index
      BY <2>2, <2>3, <2>5, <3>1, AssembledOf
    <3>2. CASE i # d.index
      BY <2>2, <2>3, <2>4, <2>5, <3>2 DEF FrameOf
    <3> QED BY <3>1, <3>2
  <2> QED BY <2>1, <2>5, <2>6 DEF FrameOf, InBuffer
<1>5. CASE OnDataChunk
  <2>1. PICK d \in datas :
          /\ partial[d.index].have + 1 >= Pieces
          /\ partial' = [partial EXCEPT ![d.index] = NoPartial]
          /\ datas' = datas \ {d}
    BY <1>5 DEF OnDataChunk
  <2>2. /\ d.index \in Chunk /\ \A e \in datas' : e.index # d.index
        /\ \A j \in Chunk : j # d.index => InBuffer(j)' = InBuffer(j)
    BY <2>1, PieceArrives DEF RootInv
  <2>3. /\ partial'[d.index] = NoPartial
        /\ \A j \in Chunk : j # d.index => partial'[j] = partial[j]
    BY <2>1, <2>2 DEF TypeOK
  <2>4. i \in AwaitedData /\ i \in Chunk /\ i # d.index
    BY <2>1, <2>2, <2>3, SMTT(60) DEF AwaitedData, TypeOK, NoPartial
  <2>5. FrameOf(i, x) /\ InBuffer(i)' = InBuffer(i) /\ partial'[i] = partial[i]
    BY <2>2, <2>3, <2>4
  <2> QED BY <2>1, <2>5 DEF FrameOf, InBuffer
<1>6. CASE ServeChunk
  <2>1. PICK s : s = serving.next
    OBVIOUS
  <2>2. /\ datas' = datas \cup {[index |-> s, piece |-> p, val |-> file[s]] : p \in Piece}
        /\ partial' = partial /\ serving.next < serving.end
    BY <1>6, <2>1 DEF ServeChunk
  <2>3. s \in AwaitedServing
    <3>1. serving \in [next : 0 .. Chunks, end : 0 .. Chunks] /\ Chunks \in Nat
      BY ConstantsAssumption DEF TypeOK
    <3> QED BY <2>1, <2>2, <3>1 DEF AwaitedServing
  <2>4. s \notin AwaitedData /\ \A d \in datas : d.index # s
    BY <2>3 DEF RootInv, OnePlace, AwaitedData
  <2>5. CASE i = s
    <3>1. x = file[s] /\ \A d \in datas' : d.index = s => d.val = file[s]
      BY <2>2, <2>4, <2>5
    <3>2. ASSUME NEW p \in Piece
          PROVE  \E e \in datas' : e.index = s /\ e.piece = p
      <4>1. [index |-> s, piece |-> p, val |-> file[s]] \in datas'
        BY <2>2
      <4> QED BY <4>1
    <3>3. InBuffer(s)' = {}
      BY <3>2 DEF InBuffer
    <3> QED BY <2>5, <3>1, <3>3 DEF FrameOf, InBuffer
  <2>6. CASE i # s
    <3>1. i \in AwaitedData /\ InBuffer(i)' = InBuffer(i)
          /\ \A d \in datas' : d.index = i => d \in datas
      BY <2>2, <2>6 DEF AwaitedData, InBuffer
    <3>2. FrameOf(i, x)
      BY <3>1
    <3> QED BY <2>2, <3>1, <3>2 DEF FrameOf, InBuffer
  <2> QED BY <2>5, <2>6
<1>7. CASE OnHashGood \/ OnHashBad \/ OnDone
  BY <1>1, <1>7 DEF OnHashGood, OnHashBad, OnDone
<1>8. CASE OnHashGiveUp \/ OnError \/ DoneTimeout \/ StreamLost
  BY <1>2, <1>8 DEF OnHashGiveUp, OnError, DoneTimeout, StreamLost, FailRun, Forget,
                    CloseStream
<1>9. CASE Crash \/ CrashInWriteChunk
  BY <1>2, <1>9 DEF Crash, CrashInWriteChunk, Forget, CloseStream
<1>10. CASE CheckRoot
  <2>1. CASE Root(hashes) # root
    BY <1>2, <1>10, <2>1 DEF CheckRoot, FailRun, Forget, CloseStream
  <2>2. CASE Root(hashes) = root
    <3>1. datas' = {} /\ partial' = partial /\ bitmap = Chunk
      BY <1>10, <2>2 DEF CheckRoot, CloseStream, finished, allVerified
    <3>2. AwaitedData \cap Chunk = {}
      BY <3>1 DEF RootInv, OnePlace, Awaited
    <3>3. AwaitedData' = {}
      BY <3>1, <3>2 DEF AwaitedData
    <3> QED BY <3>3
  <2> QED BY <2>1, <2>2
<1>11. CASE \/ DeletePartial \/ TakeReq \/ RefuseChunk \/ ServeHashReq
            \/ OtherSessionReads \/ Stop \/ EditFile \/ HostRestart \/ UNCHANGED vars
  BY <1>1, <1>11 DEF DeletePartial, TakeReq, RefuseChunk, ServeHashReq,
                     OtherSessionReads, Stop, EditFile, HostRestart, vars
<1> QED
  BY <1>3, <1>4, <1>5, <1>6, <1>7, <1>8, <1>9, <1>10, <1>11
  DEF Next, ReceiverNext, HostNext

LEMMA FramesOfStep ==
  ASSUME TypeOK, RootInv, NEW o, FramesOf(o), file' = file, [Next]_vars
  PROVE  FramesOf(o)'
<1>1. ASSUME NEW i \in AwaitedData'
      PROVE  \E x \in {o[i], file[i]} : FrameOf(i, x)'
  <2>1. PICK x \in {o[i], file[i]} :
          IF i \in AwaitedData THEN FrameOf(i, x) ELSE x = file[i]
    BY DEF FramesOf
  <2> QED BY <1>1, <2>1, FrameStep
<1>2. \A i \in AwaitedData' : FrameOf(i, o[i])' \/ FrameOf(i, file[i])'
  BY <1>1 DEF FrameOf, InBuffer
<1> QED BY <1>2 DEF FramesOf

(* Every chunk that is written, and every sidecar, is of those bytes.      *)
LEMMA HeldOfStep ==
  ASSUME TypeOK, RootInv, NEW o, FramesOf(o), HeldOf(o), file' = file, [Next]_vars
  PROVE  HeldOf(o)'
<1> USE DEF Whole, Sum, Either
<1>0. /\ bitmap \subseteq Chunk /\ hashes \in [Chunk -> Hash \cup {None}]
      /\ \A i \in bitmap : hashes[i] \in Either(i, o)
  BY DEF TypeOK, HeldOf
<1>1. ASSUME UNCHANGED <<bitmap, hashes, sidecar>> PROVE HeldOf(o)'
  BY <1>1 DEF HeldOf
<1>2. ASSUME NEW b, b \subseteq bitmap, bitmap' = {},
             sidecar' = SaveSidecar(b, hashes)
      PROVE  HeldOf(o)'
  BY <1>0, <1>2 DEF HeldOf, SaveSidecar
<1>3. CASE StartRun
  <2> DEFINE open == OpenSink
  <2>1. /\ bitmap' = open.bitmap /\ hashes' = open.hashes
        /\ sidecar' = SaveSidecar(open.bitmap, open.hashes)
    BY <1>3 DEF StartRun
  <2>2. \A i \in open.bitmap : open.hashes[i] \in Either(i, o)
    <3>1. CASE sidecar = None
      BY <3>1 DEF OpenSink, SaveSidecar
    <3>2. CASE sidecar # None
      BY <3>2 DEF OpenSink, HeldOf
    <3> QED BY <3>1, <3>2
  <2> HIDE DEF open
  <2> QED BY <2>1, <2>2 DEF HeldOf, SaveSidecar
<1>4. CASE OnDataChunk
  <2>1. PICK d \in datas :
          /\ partial[d.index].have + 1 >= Pieces
          /\ hashes' = [hashes EXCEPT ![d.index] = Sum(Assembled(d))]
          /\ bitmap' = bitmap \cup {d.index}
          /\ \/ sidecar' = SaveSidecar(bitmap', hashes')
             \/ sidecar' = sidecar
    BY <1>4 DEF OnDataChunk
  <2>2. d.index \in Chunk /\ d.index \in AwaitedData
    BY DEF TypeOK, AwaitedData
  <2>3. PICK x \in {o[d.index], file[d.index]} : FrameOf(d.index, x)
    BY <2>2 DEF FramesOf
  <2>4. Sum(Assembled(d)) \in Either(d.index, o)
    <3>1. Assembled(d) = Whole(x)
      BY <2>1, <2>3, AssembledOf
    <3> QED BY <3>1
  <2>5. \A i \in bitmap' : hashes'[i] \in Either(i, o)
    BY <1>0, <2>1, <2>2, <2>4
  <2>6. CASE sidecar' = sidecar
    BY <2>5, <2>6 DEF HeldOf
  <2>7. CASE sidecar' = SaveSidecar(bitmap', hashes')
    BY <2>5, <2>7 DEF HeldOf, SaveSidecar
  <2> QED BY <2>1, <2>6, <2>7
<1>5. CASE OnHashBad
  <2>1. bitmap' \subseteq bitmap /\ UNCHANGED <<hashes, sidecar>>
    BY <1>5 DEF OnHashBad
  <2> QED BY <1>0, <2>1 DEF HeldOf
<1>6. CASE OnHashGiveUp \/ OnError \/ DoneTimeout \/ StreamLost
  BY <1>2, <1>6 DEF OnHashGiveUp, OnError, DoneTimeout, StreamLost, FailRun, Forget
<1>7. CASE CheckRoot
  <2>1. CASE Root(hashes) = root
    BY <1>7, <2>1 DEF CheckRoot, HeldOf
  <2>2. CASE Root(hashes) # root
    BY <1>2, <1>7, <2>2 DEF CheckRoot, FailRun, Forget
  <2> QED BY <2>1, <2>2
<1>8. CASE Crash \/ CrashInWriteChunk
  BY <1>8 DEF Crash, CrashInWriteChunk, Forget, HeldOf
<1>9. CASE OnDataPart \/ OnHashGood \/ OnDone
  BY <1>1, <1>9 DEF OnDataPart, OnHashGood, OnDone
<1>10. CASE \/ DeletePartial \/ TakeReq \/ ServeChunk \/ RefuseChunk \/ ServeHashReq
            \/ OtherSessionReads \/ Stop \/ EditFile \/ HostRestart \/ UNCHANGED vars
  BY <1>1, <1>10 DEF DeletePartial, TakeReq, ServeChunk, RefuseChunk, ServeHashReq,
                     OtherSessionReads, Stop, EditFile, HostRestart, vars
<1> QED
  BY <1>3, <1>4, <1>5, <1>6, <1>7, <1>8, <1>9, <1>10
  DEF Next, ReceiverNext, HostNext

LEMMA VersionsStep ==
  ASSUME TypeOK, RootInv, NEW o, Versions(o), file' = file, [Next]_vars
  PROVE  Versions(o)'
  BY CacheOfStep, FramesOfStep, HeldOfStep DEF Versions

(* A chunk of an unedited file has the hash the host's reply says it has.  *)
LEMMA NothingBad ==
  ASSUME RepliesFromCache, Versions(file), NEW h \in hashReplies
  PROVE  Verify(h) = {}
<1>1. ASSUME NEW i \in Window(h.win) \cap bitmap PROVE hashes[i] = h.hs[i]
  <2>1. i \in srcHave /\ h.hs[i] = srcHash[i]
    BY DEF RepliesFromCache
  <2> QED BY <2>1 DEF Versions, CacheOf, HeldOf, Either
<1> QED BY <1>1 DEF Verify

LEMMA NoGiveUpStep ==
  ASSUME RootInv, Versions(file), outcome # "gaveup", [Next]_vars
  PROVE  outcome' # "gaveup"
<1>1. CASE OnHashGiveUp
  <2>1. PICK h \in hashReplies : Verify(h) # {}
    BY <1>1 DEF OnHashGiveUp
  <2> QED BY <2>1, NothingBad DEF RootInv
<1>2. CASE OnError \/ DoneTimeout \/ StreamLost \/ CheckRoot
  BY <1>2 DEF OnError, DoneTimeout, StreamLost, CheckRoot, FailRun
<1>3. CASE StartRun \/ Crash \/ CrashInWriteChunk \/ DeletePartial
  BY <1>3 DEF StartRun, Crash, CrashInWriteChunk, DeletePartial
<1>4. CASE OnDataPart \/ OnDataChunk \/ OnHashGood \/ OnHashBad \/ OnDone
  BY <1>4 DEF OnDataPart, OnDataChunk, OnHashGood, OnHashBad, OnDone
<1>5. CASE \/ TakeReq \/ ServeChunk \/ RefuseChunk \/ ServeHashReq
           \/ OtherSessionReads \/ Stop \/ EditFile \/ HostRestart \/ UNCHANGED vars
  BY <1>5 DEF TakeReq, ServeChunk, RefuseChunk, ServeHashReq, OtherSessionReads,
              Stop, EditFile, HostRestart, vars
<1> QED
  BY <1>1, <1>2, <1>3, <1>4, <1>5 DEF Next, ReceiverNext, HostNext

(* Only an edit changes the file, and it is counted, as deletions are.     *)
LEMMA OnlyEditsChange ==
  ASSUME TypeOK, [Next]_vars
  PROVE  /\ EditFile \/ (file' = file /\ edits' = edits)
         /\ EditFile => edits' = edits + 1
         /\ DeletePartial \/ deletes' = deletes
         /\ DeletePartial => deletes' = deletes + 1
<1>1. CASE EditFile \/ DeletePartial
  BY <1>1 DEF EditFile, DeletePartial, TypeOK
<1>2. CASE \/ OnHashGiveUp \/ OnError \/ DoneTimeout \/ StreamLost \/ CheckRoot
  BY <1>2 DEF OnHashGiveUp, OnError, DoneTimeout, StreamLost, CheckRoot, FailRun,
              EditFile, DeletePartial
<1>3. CASE StartRun \/ Crash \/ CrashInWriteChunk
  BY <1>3 DEF StartRun, Crash, CrashInWriteChunk, EditFile, DeletePartial
<1>4. CASE OnDataPart \/ OnDataChunk \/ OnHashGood \/ OnHashBad \/ OnDone
  BY <1>4 DEF OnDataPart, OnDataChunk, OnHashGood, OnHashBad, OnDone, EditFile,
              DeletePartial
<1>5. CASE \/ TakeReq \/ ServeChunk \/ RefuseChunk \/ ServeHashReq
           \/ OtherSessionReads \/ Stop \/ HostRestart \/ UNCHANGED vars
  BY <1>5 DEF TakeReq, ServeChunk, RefuseChunk, ServeHashReq, OtherSessionReads,
              Stop, HostRestart, vars, EditFile, DeletePartial
<1> QED
  BY <1>1, <1>2, <1>3, <1>4, <1>5 DEF Next, ReceiverNext, HostNext

(* What an edit leaves alone: the file before it becomes the earlier one.  *)
LEMMA EditVersions ==
  ASSUME Versions(file), EditFile
  PROVE  \A o : o = file => Versions(o)'
<1> SUFFICES ASSUME NEW o, o = file PROVE Versions(o)'
  OBVIOUS
<1>1. UNCHANGED <<srcHave, srcHash, datas, partial, bitmap, hashes, sidecar>>
  BY DEF EditFile
<1>2. CacheOf(o)' /\ HeldOf(o)'
  BY <1>1 DEF Versions, CacheOf, HeldOf, Either, Sum, Whole
<1>3. FramesOf(o)'
  BY <1>1 DEF Versions, FramesOf, FrameOf, AwaitedData, InBuffer
<1> QED BY <1>2, <1>3 DEF Versions

(* Before any edit every byte and every hash that is cached, in flight, in *)
(* a buffer, held or in the sidecar is the file's; with one edit, it is of *)
(* the file before or after.                                               *)
LEMMA VersionsInvariant == Spec => [](Unedited /\ TwoVersions)
<1>1. Init => Unedited /\ TwoVersions
  <2> SUFFICES ASSUME Init PROVE Versions(file) /\ outcome # "gaveup"
                                 /\ file \in [Chunk -> Val]
    BY DEF Unedited, TwoVersions
  <2>1. /\ srcHave = {} /\ bitmap = {} /\ sidecar = None /\ outcome = "none"
        /\ datas = {} /\ partial = [i \in Chunk |-> NoPartial]
        /\ file \in [Chunk -> Val]
    BY DEF Init
  <2> QED BY <2>1 DEF Versions, CacheOf, HeldOf, FramesOf, AwaitedData, NoPartial
<1>2. TypeOK /\ TypeOK' /\ RootInv /\ Unedited /\ TwoVersions /\ [Next]_vars
      => Unedited' /\ TwoVersions'
  <2> SUFFICES ASSUME TypeOK, TypeOK', RootInv, Unedited, TwoVersions, [Next]_vars
               PROVE  Unedited' /\ TwoVersions'
    OBVIOUS
  <2>1. edits \in Nat /\ file \in [Chunk -> Val]
    BY DEF TypeOK
  <2>2. CASE EditFile
    <3>1. edits' = edits + 1
      BY <2>2, OnlyEditsChange
    <3>2. Unedited'
      BY <2>1, <3>1 DEF Unedited
    <3>3. ASSUME edits' <= 1 PROVE \E o \in [Chunk -> Val] : Versions(o)'
      <4>1. edits = 0
        BY <2>1, <3>1, <3>3
      <4> QED BY <2>1, <2>2, <4>1, EditVersions DEF Unedited
    <3> QED BY <3>2, <3>3 DEF TwoVersions
  <2>3. CASE ~EditFile
    <3>1. file' = file /\ edits' = edits
      BY <2>3, OnlyEditsChange
    <3>2. ASSUME edits' = 0 PROVE Versions(file)' /\ outcome' # "gaveup"
      <4>1. Versions(file) /\ outcome # "gaveup"
        BY <3>1, <3>2 DEF Unedited
      <4>2. PICK o : o = file
        OBVIOUS
      <4>3. Versions(o)'
        BY <3>1, <4>1, <4>2, VersionsStep
      <4>4. file' = o
        BY <3>1, <4>2
      <4>5. Versions(file)'
        BY <4>3, <4>4 DEF Versions, CacheOf, HeldOf, FramesOf, Either
      <4> QED BY <4>1, <4>5, NoGiveUpStep
    <3>3. ASSUME edits' <= 1 PROVE \E o \in [Chunk -> Val] : Versions(o)'
      <4>1. PICK o \in [Chunk -> Val] : Versions(o)
        BY <3>1, <3>3 DEF TwoVersions
      <4> QED BY <3>1, <4>1, VersionsStep
    <3> QED BY <3>2, <3>3 DEF Unedited, TwoVersions
  <2> QED BY <2>2, <2>3
<1> QED BY <1>1, <1>2, TypeCorrect, RootInvariant, PTL DEF Spec

(* "chunk %d failed verification %d times" is the fault of an edit:        *)
(* pieces in any order, crashes in the middle of a write, runs resumed from*)
(* a sidecar, restarts of the host and deleted partial files never lead a  *)
(* receiver to it.                                                         *)
THEOREM GiveUpOnlyIfEditedHolds == Spec => []GiveUpOnlyIfEdited
<1>1. TypeOK /\ Unedited => GiveUpOnlyIfEdited
  BY DEF TypeOK, Unedited, GiveUpOnlyIfEdited
<1> QED BY <1>1, TypeCorrect, VersionsInvariant, PTL

-----------------------------------------------------------------------------
(* A live stream never runs dry *)

(* Every chunk is held, queued or asked for; chunks asked for, queued and  *)
(* held add up; and requests go out while there is room for one.           *)
Covered ==
  phase = "running" /\ errors = {} =>
    \A i \in Chunk : i \in bitmap \cup Awaited \/ \E k \in DOMAIN queue : queue[k] = i
Counted ==
  phase = "running" => outstanding + Len(queue) + Cardinality(bitmap) = Chunks
Filled == phase = "running" => queue = <<>> \/ outstanding = InFlight

(* A window that is complete was asked about, and the answer is awaited    *)
(* until it comes; a buffer with no piece on its way does not exist.       *)
Asked ==
  phase = "running" => \A w \in WindowIds :
    /\ Window(w) \subseteq bitmap => winState[w] # 0
    /\ winState[w] = 1 => w \in hashReqs \/ \E h \in hashReplies : h.win = w
Unfinished == \A i \in Chunk : partial[i].have < Pieces

(* serve: the last chunk comes only from a REQ that reaches the end of the *)
(* file, and DONE, unless sent, is decided again when some window or other *)
(* is asked about.                                                         *)
LastServed ==
  phase = "running" =>
    heldLast \/ lastRequested \/ Chunks - 1 \notin bitmap \cup AwaitedData
NotAnswered(w) == winState[w] # 2 /\ \A h \in hashReplies : h.win # w
DoneOwed ==
  phase = "running" =>
    /\ doneSent => dones # {} \/ root # None
    /\ (lastRequested \/ Chunks = 0) /\ ~doneSent =>
         (\E w \in WindowIds : NotAnswered(w)) \/ (Chunks = 0 /\ 0 \in hashReqs)
NewSession == phase # "running" => ~lastRequested /\ ~doneSent

ProgressInv ==
  /\ Covered /\ Counted /\ Filled /\ Asked /\ Unfinished
  /\ LastServed /\ DoneOwed /\ NewSession

(* Every nonempty set of naturals has a least member. *)
LEMMA Least ==
  ASSUME NEW T \in SUBSET Nat, T # {}
  PROVE  \E x \in T : \A y \in T : x <= y
<1> DEFINE R == OpToRel(<, Nat)
<1>1. IsWellFoundedOn(R, Nat)
  BY NatLessThanWellFounded
<1>2. \A x, y \in Nat : <<y, x>> \in R <=> y < x
  BY DEF OpToRel
<1> HIDE DEF R
<1>3. PICK x \in T : \A y \in T : ~ (<<y, x>> \in R)
  BY <1>1, WFMin
<1>4. ASSUME NEW y \in T PROVE x <= y
  <2>1. x \in Nat /\ y \in Nat /\ <<y, x>> \notin R
    BY <1>3
  <2>2. ~ (y < x)
    BY <1>2, <2>1
  <2> QED BY <2>1, <2>2
<1> QED BY <1>4

(* Every chunk that fill takes from the queue is in one of its REQs: the   *)
(* longest run around it.                                                  *)
LEMMA RunExists ==
  ASSUME NEW q \in Seq(Chunk), NEW k \in 0 .. Len(q), NEW c \in 1 .. k
  PROVE  \E r \in FillReqs(q, k) : q[c] \in ReqChunks(r)
<1>0. /\ k \in Nat /\ c \in Nat /\ c >= 1 /\ c <= k
      /\ \A e \in 1 .. k : q[e] \in Int
  BY ConstantsAssumption DEF Chunk
<1>1. PICK a \in 1 .. c : /\ \A e \in a .. c : q[e] = q[a] + (e - a)
                          /\ a = 1 \/ q[a] # q[a - 1] + 1
  <2> DEFINE S == {a \in 1 .. c : \A e \in a .. c : q[e] = q[a] + (e - a)}
  <2>1. S \in SUBSET Nat /\ c \in S
    BY <1>0
  <2>2. PICK a \in S : \A x \in S : a <= x
    BY <2>1, Least
  <2>3. ASSUME a # 1, q[a] = q[a - 1] + 1 PROVE FALSE
    <3>1. a - 1 \in 1 .. c /\ a \in 1 .. c
      BY <1>0, <2>2, <2>3
    <3>2. ASSUME NEW e \in a - 1 .. c PROVE q[e] = q[a - 1] + (e - (a - 1))
      <4>1. CASE e = a - 1
        BY <1>0, <3>1, <4>1
      <4>2. CASE e # a - 1
        <5>1. e \in a .. c
          BY <1>0, <3>1, <4>2
        <5>2. q[e] = q[a] + (e - a)
          BY <2>2, <5>1
        <5>3. q[a - 1] \in Int /\ a \in Int /\ e \in Int
          BY <1>0, <3>1
        <5>4. \A z \in Int : (z + 1) + (e - a) = z + (e - (a - 1))
          BY <5>3
        <5>5. q[e] = (q[a - 1] + 1) + (e - a)
          BY <2>3, <5>2
        <5> QED BY <5>3, <5>4, <5>5
      <4> QED BY <4>1, <4>2
    <3>3. a - 1 \in S
      BY <3>1, <3>2
    <3>4. a <= a - 1 /\ a \in Int
      BY <2>2, <3>1, <3>3
    <3> QED BY <3>4
  <2> QED BY <2>2, <2>3
<1>2. PICK b \in c .. k : /\ \A e \in c .. b : q[e] = q[c] + (e - c)
                          /\ b = k \/ q[b + 1] # q[b] + 1
  <2> DEFINE S == {d \in 0 .. k - c : \A e \in c .. k - d : q[e] = q[c] + (e - c)}
  <2>1. S \in SUBSET Nat /\ k - c \in S
    BY <1>0
  <2>2. PICK d \in S : \A x \in S : d <= x
    BY <2>1, Least
  <2>3. k - d \in c .. k /\ \A e \in c .. k - d : q[e] = q[c] + (e - c)
    BY <1>0, <2>2
  <2>4. ASSUME k - d # k, q[k - d + 1] = q[k - d] + 1 PROVE FALSE
    <3>1. d - 1 \in 0 .. k - c /\ d \in 0 .. k - c
      BY <1>0, <2>2, <2>4
    <3>2. ASSUME NEW e \in c .. k - (d - 1) PROVE q[e] = q[c] + (e - c)
      <4>1. CASE e = k - d + 1
        <5>1. q[k - d] = q[c] + ((k - d) - c)
          BY <1>0, <2>3
        <5>2. q[c] \in Int /\ k - d \in Int /\ c \in Int
          BY <1>0, <3>1
        <5>3. \A z \in Int : (z + ((k - d) - c)) + 1 = z + ((k - d + 1) - c)
          BY <5>2
        <5>4. q[e] = (q[c] + ((k - d) - c)) + 1
          BY <2>4, <4>1, <5>1
        <5> QED BY <4>1, <5>2, <5>3, <5>4
      <4>2. CASE e # k - d + 1
        <5>1. e \in c .. k - d
          BY <1>0, <3>1, <4>2
        <5> QED BY <2>3, <5>1
      <4> QED BY <4>1, <4>2
    <3>3. d - 1 \in S
      BY <3>1, <3>2
    <3> QED BY <1>0, <2>2, <3>1, <3>3
  <2> QED BY <2>3, <2>4
<1>3. a \in 1 .. k /\ b \in 1 .. k /\ a <= b /\ c \in a .. b
  BY <1>0
<1>4. q[c] = q[a] + (c - a)
  BY <1>0, <1>1
<1>5. ASSUME NEW e \in a .. b PROVE q[e] = q[a] + (e - a)
  <2>1. CASE e <= c
    <3>1. e \in a .. c
      BY <1>0, <2>1
    <3> QED BY <1>1, <3>1
  <2>2. CASE e > c
    <3>1. e \in c .. b
      BY <1>0, <2>2
    <3>2. q[e] = q[c] + (e - c) /\ q[a] \in Int
      BY <1>0, <1>2, <1>3, <3>1
    <3> QED BY <1>0, <1>3, <1>4, <3>1, <3>2
  <2> QED BY <1>0, <2>1, <2>2
<1>6. IsRun(q, k, a, b)
  BY <1>1, <1>2, <1>5 DEF IsRun
<1> DEFINE r == [first |-> q[a], count |-> b - a + 1]
<1>7. r \in FillReqs(q, k)
  <2>1. <<a, b>> \in (1 .. k) \X (1 .. k)
    BY <1>3
  <2> QED BY <1>3, <1>6, <2>1 DEF FillReqs
<1>8. q[c] \in ReqChunks(r)
  <2>1. q[a] \in Int /\ q[c] \in Int
    BY <1>0, <1>3
  <2> QED BY <1>0, <1>3, <1>4, <2>1 DEF ReqChunks
<1> QED BY <1>7, <1>8

(* What fill does to the numbers, and that it loses no chunk. *)
LEMMA FillKeeps ==
  ASSUME NEW q \in Seq(Chunk), NEW out \in Int, out <= InFlight, NEW rs,
         fill(q, out, rs)
  PROVE  /\ queue' \in Seq(Chunk) /\ rs \subseteq reqs'
         /\ outstanding' + Len(queue') = out + Len(q)
         /\ queue' = <<>> \/ outstanding' = InFlight
         /\ \A a \in DOMAIN q : \/ \E b \in DOMAIN queue' : queue'[b] = q[a]
                                \/ \E r \in reqs' : q[a] \in ReqChunks(r)
<1> DEFINE k == FillCount(q, out)
<1>1. /\ k \in 0 .. Len(q) /\ reqs' = rs \cup FillReqs(q, k)
      /\ queue' \in Seq(Chunk) /\ DOMAIN queue' = 1 .. Len(q) - k
      /\ \A a \in DOMAIN queue' : queue'[a] = q[a + k]
  BY FillFacts
<1>2. outstanding' = out + k /\ (k = Len(q) \/ k = InFlight - out)
  BY ConstantsAssumption DEF fill, FillCount
<1> HIDE DEF k
<1>3. Len(queue') = Len(q) - k
  BY <1>1
<1>4. queue' = <<>> \/ outstanding' = InFlight
  <2>1. CASE k = Len(q)
    BY <1>1, <1>3, <2>1
  <2>2. CASE k = InFlight - out
    BY <1>2, <2>2, ConstantsAssumption
  <2> QED BY <1>2, <2>1, <2>2
<1>5. ASSUME NEW a \in DOMAIN q
      PROVE  \/ \E b \in DOMAIN queue' : queue'[b] = q[a]
             \/ \E r \in reqs' : q[a] \in ReqChunks(r)
  <2>1. a \in 1 .. Len(q)
    OBVIOUS
  <2>2. CASE a <= k
    <3>1. a \in 1 .. k
      BY <1>1, <2>1, <2>2
    <3> QED BY <1>1, <3>1, RunExists
  <2>3. CASE ~(a <= k)
    <3>1. a - k \in DOMAIN queue' /\ (a - k) + k = a
      BY <1>1, <2>1, <2>3
    <3>2. queue'[a - k] = q[(a - k) + k]
      BY <1>1, <3>1
    <3> QED BY <3>1, <3>2
  <2> QED BY <2>2, <2>3
<1> QED BY <1>1, <1>2, <1>3, <1>4, <1>5

LEMMA AscendingLength ==
  ASSUME NEW S \in SUBSET Chunk, NEW q \in Ascending(S)
  PROVE  Len(q) = Cardinality(S)
<1>1. Cardinality(S) \in Nat /\ q \in [1 .. Cardinality(S) -> S]
  BY ChunkFinite DEF Ascending
<1>2. q \in Seq(Chunk)
  BY AscendingFacts
<1> QED BY <1>1, <1>2

(* How a fill leaves every chunk somewhere: the queue it works on holds    *)
(* what was queued, and the chunks that left the other places.             *)
LEMMA FillCovers ==
  ASSUME TypeOK, Covered, phase = "running", errors = {},
         NEW q \in Seq(Chunk), NEW out \in Int, out <= InFlight, fill(q, out, reqs),
         \A k \in DOMAIN queue : \E a \in DOMAIN q : q[a] = queue[k],
         \A i \in Chunk : i \in bitmap \cup AwaitedData =>
           i \in bitmap' \cup AwaitedData' \/ \E a \in DOMAIN q : q[a] = i,
         serving' = serving
  PROVE  Covered'
<1>1. ASSUME NEW i \in Chunk
      PROVE  i \in bitmap' \cup Awaited' \/ \E k \in DOMAIN queue' : queue'[k] = i
  <2>2. /\ reqs \subseteq reqs'
        /\ \A a \in DOMAIN q : \/ \E b \in DOMAIN queue' : queue'[b] = q[a]
                               \/ \E r \in reqs' : q[a] \in ReqChunks(r)
    BY FillKeeps
  <2>3. AwaitedReqs \subseteq AwaitedReqs' /\ AwaitedServing' = AwaitedServing
    BY <2>2 DEF AwaitedReqs, AwaitedServing, ReqChunks
  <2>4. CASE \E a \in DOMAIN q : q[a] = i
    BY <2>2, <2>4 DEF Awaited, AwaitedReqs, ReqChunks
  <2>5. CASE i \in bitmap \cup AwaitedData
    BY <2>4, <2>5 DEF Awaited
  <2>6. CASE i \in AwaitedReqs \cup AwaitedServing
    BY <2>3, <2>6 DEF Awaited
  <2>7. CASE \E k \in DOMAIN queue : queue[k] = i
    BY <2>4, <2>7
  <2> QED BY <2>5, <2>6, <2>7 DEF Covered, Awaited
<1> QED BY <1>1 DEF Covered

LEMMA CoveredStep ==
  ASSUME TypeOK, RootInv, Covered, Unfinished, [Next]_vars
  PROVE  Covered'
<1>0. /\ queue \in Seq(Chunk) /\ outstanding \in Int /\ outstanding <= InFlight
      /\ outstanding - 1 \in Int /\ outstanding - 1 <= InFlight
  BY ConstantsAssumption DEF TypeOK
<1>1. ASSUME UNCHANGED <<bitmap, queue, reqs, serving, datas, partial, phase, errors>>
      PROVE  Covered'
  BY <1>1 DEF Covered, Awaited, AwaitedReqs, AwaitedServing, AwaitedData
<1>2. ASSUME phase' # "running" \/ errors' # {} PROVE Covered'
  BY <1>2 DEF Covered
<1>3. ASSUME phase = "running", errors' = errors, fill(queue, outstanding, reqs),
             UNCHANGED <<bitmap, serving, datas, partial>>
      PROVE  Covered'
  <2>1. AwaitedData' = AwaitedData
    BY <1>3 DEF AwaitedData
  <2>2. CASE errors = {}
    BY <1>0, <1>3, <2>1, <2>2, FillCovers
  <2> QED BY <1>2, <1>3, <2>2
<1>4. CASE StartRun
  <2>1. PICK q \in Ascending(Chunk \ bitmap') : fill(q, 0, {})
    BY <1>4 DEF StartRun
  <2>2. q \in Seq(Chunk) /\ \A i \in Chunk \ bitmap' : \E a \in DOMAIN q : q[a] = i
    BY <2>1, AscendingFacts
  <2>3. 0 \in Int /\ 0 <= InFlight
    BY ConstantsAssumption
  <2>4. \A a \in DOMAIN q : \/ \E b \in DOMAIN queue' : queue'[b] = q[a]
                            \/ \E r \in reqs' : q[a] \in ReqChunks(r)
    BY <2>1, <2>2, <2>3, FillKeeps
  <2> QED BY <2>2, <2>4 DEF Covered, Awaited, AwaitedReqs, ReqChunks
<1>5. CASE OnDataPart
  <2>1. PICK d \in datas :
          /\ partial' = [partial EXCEPT ![d.index] =
                           [buf |-> Assembled(d), have |-> partial[d.index].have + 1]]
          /\ datas' = datas \ {d}
    BY <1>5 DEF OnDataPart
  <2>2. /\ phase = "running" /\ fill(queue, outstanding, reqs)
        /\ UNCHANGED <<bitmap, serving, errors>>
    BY <1>5 DEF OnDataPart
  <2>3. d.index \in Chunk /\ \A i \in Chunk : partial[i].have \in Nat
        /\ partial \in [Chunk -> [buf : Data, have : Nat]]
    BY DEF TypeOK
  <2>4. \A i \in AwaitedData : i \in AwaitedData'
    <3>1. partial'[d.index].have > 0
      BY <2>1, <2>3
    <3>2. \A i \in Chunk : i # d.index => partial'[i] = partial[i]
      BY <2>1, <2>3
    <3> QED BY <2>1, <2>3, <3>1, <3>2 DEF AwaitedData
  <2>5. CASE errors = {}
    BY <1>0, <2>2, <2>4, <2>5, FillCovers
  <2> QED BY <1>2, <2>2, <2>5
<1>6. CASE OnDataChunk
  <2>1. PICK d \in datas :
          /\ partial' = [partial EXCEPT ![d.index] = NoPartial]
          /\ bitmap' = bitmap \cup {d.index}
          /\ datas' = datas \ {d}
          /\ fill(queue, outstanding - 1, reqs)
    BY <1>6 DEF OnDataChunk
  <2>2. phase = "running" /\ UNCHANGED <<serving, errors>>
    BY <1>6 DEF OnDataChunk
  <2>3. d.index \in Chunk /\ partial \in [Chunk -> [buf : Data, have : Nat]]
    BY DEF TypeOK
  <2>4. \A i \in bitmap \cup AwaitedData : i \in bitmap' \cup AwaitedData'
    <3>1. \A i \in Chunk : i # d.index => partial'[i] = partial[i]
      BY <2>1, <2>3
    <3> QED BY <2>1, <3>1 DEF AwaitedData
  <2>5. CASE errors = {}
    BY <1>0, <2>1, <2>2, <2>4, <2>5, FillCovers
  <2> QED BY <1>2, <2>2, <2>5
<1>7. CASE OnHashBad
  <2>1. PICK h \in hashReplies :
          /\ bitmap' = bitmap \ Verify(h)
          /\ \E b \in Ascending(Verify(h)) : fill(b \o queue, outstanding, reqs)
    BY <1>7 DEF OnHashBad
  <2>2. PICK b \in Ascending(Verify(h)) : fill(b \o queue, outstanding, reqs)
    BY <2>1
  <2>3. phase = "running" /\ UNCHANGED <<serving, errors, datas, partial>>
    BY <1>7 DEF OnHashBad
  <2>4. Verify(h) \in SUBSET Chunk
    BY DEF Verify, TypeOK
  <2>5. b \in Seq(Chunk) /\ \A i \in Verify(h) : \E a \in DOMAIN b : b[a] = i
    BY <2>4, AscendingFacts
  <2> DEFINE q == b \o queue
  <2>6. /\ q \in Seq(Chunk)
        /\ \A a \in DOMAIN b : a \in DOMAIN q /\ q[a] = b[a]
        /\ \A k \in DOMAIN queue : k + Len(b) \in DOMAIN q /\ q[k + Len(b)] = queue[k]
    BY <1>0, <2>5
  <2>7. fill(q, outstanding, reqs)
    BY <2>2
  <2> HIDE DEF q
  <2>8. \A i \in Verify(h) : \E a \in DOMAIN q : q[a] = i
    BY <2>5, <2>6
  <2>9. \A k \in DOMAIN queue : \E a \in DOMAIN q : q[a] = queue[k]
    BY <2>6
  <2>10. AwaitedData' = AwaitedData
    BY <2>3 DEF AwaitedData
  <2>11. CASE errors = {}
    BY <1>0, <2>1, <2>3, <2>6, <2>7, <2>8, <2>9, <2>10, <2>11, FillCovers
  <2> QED BY <1>2, <2>3, <2>11
<1>8. CASE OnHashGood \/ OnDone
  BY <1>3, <1>8 DEF OnHashGood, OnDone
<1>9. CASE OnHashGiveUp \/ OnError \/ DoneTimeout \/ StreamLost \/ CheckRoot
  BY <1>2, <1>9 DEF OnHashGiveUp, OnError, DoneTimeout, StreamLost, CheckRoot, FailRun
<1>10. CASE Crash \/ CrashInWriteChunk \/ RefuseChunk
  BY <1>2, <1>10 DEF Crash, CrashInWriteChunk, RefuseChunk
<1>11. CASE TakeReq
  <2>1. PICK r \in reqs : /\ serving' = [next |-> r.first, end |-> r.first + r.count]
                          /\ reqs' = reqs \ {r}
    BY <1>11 DEF TakeReq
  <2>2. serving.next = serving.end
        /\ UNCHANGED <<bitmap, queue, partial, datas, phase, errors>>
    BY <1>11 DEF TakeReq, HostIdle
  <2>3. AwaitedServing = {} /\ AwaitedServing' = ReqChunks(r)
    <3>1. serving.end \in Int
      <4>1. serving \in [next : 0 .. Chunks, end : 0 .. Chunks] /\ Chunks \in Nat
        BY ConstantsAssumption DEF TypeOK
      <4> QED BY <4>1
    <3>2. AwaitedServing = {}
      BY <2>2, <3>1 DEF AwaitedServing
    <3>3. serving'.next = r.first /\ serving'.end = r.first + r.count
      BY <2>1
    <3>4. AwaitedServing' = ReqChunks(r)
      <4>1. AwaitedServing' = serving'.next .. serving'.end - 1
        BY DEF AwaitedServing
      <4>2. r \in Req /\ Chunks \in Nat
        BY ConstantsAssumption DEF TypeOK
      <4>3. r.first \in Int /\ r.count \in Int
        BY <4>2 DEF Req, Chunk
      <4>4. (r.first + r.count) - 1 = r.first + (r.count - 1)
        BY <4>3
      <4> QED BY <3>3, <4>1, <4>4 DEF ReqChunks
    <3> QED BY <3>2, <3>4
  <2>4. AwaitedReqs \subseteq AwaitedReqs' \cup AwaitedServing'
    BY <2>1, <2>3 DEF AwaitedReqs, ReqChunks
  <2>5. AwaitedData' = AwaitedData
    BY <2>2 DEF AwaitedData
  <2>6. Awaited \subseteq Awaited'
    BY <2>3, <2>4, <2>5 DEF Awaited
  <2> QED BY <2>2, <2>6 DEF Covered
<1>12. CASE ServeChunk
  <2>1. PICK i : i = serving.next
    OBVIOUS
  <2>2. /\ datas' = datas \cup {[index |-> i, piece |-> p, val |-> file[i]] : p \in Piece}
        /\ serving' = [serving EXCEPT !.next = i + 1]
        /\ UNCHANGED <<bitmap, queue, partial, reqs, phase, errors>>
    BY <1>12, <2>1 DEF ServeChunk
  <2>3. AwaitedServing \subseteq AwaitedServing' \cup {i}
    <3>1. serving \in [next : 0 .. Chunks, end : 0 .. Chunks] /\ Chunks \in Nat
      BY ConstantsAssumption DEF TypeOK
    <3>2. serving'.next = serving.next + 1 /\ serving'.end = serving.end
      BY <2>1, <2>2, <3>1
    <3> QED BY <2>1, <3>1, <3>2 DEF AwaitedServing
  <2>4. i \in AwaitedData'
    <3>1. 1 \in Piece
      BY ConstantsAssumption DEF Piece
    <3>2. [index |-> i, piece |-> 1, val |-> file[i]] \in datas'
      BY <2>2, <3>1
    <3> QED BY <3>2 DEF AwaitedData
  <2>5. AwaitedData \subseteq AwaitedData' /\ AwaitedReqs' = AwaitedReqs
    BY <2>2 DEF AwaitedData, AwaitedReqs, ReqChunks
  <2>6. Awaited \subseteq Awaited'
    BY <2>3, <2>4, <2>5 DEF Awaited
  <2> QED BY <2>2, <2>6 DEF Covered
<1>13. CASE \/ DeletePartial \/ ServeHashReq \/ OtherSessionReads \/ Stop
            \/ EditFile \/ HostRestart \/ UNCHANGED vars
  BY <1>1, <1>13 DEF DeletePartial, ServeHashReq, OtherSessionReads, Stop, EditFile,
                     HostRestart, vars
<1> QED
  BY <1>4, <1>5, <1>6, <1>7, <1>8, <1>9, <1>10, <1>11, <1>12, <1>13
  DEF Next, ReceiverNext, HostNext

(* The three counts of the receiver always make up the file, and the queue *)
(* waits only for room.                                                    *)
LEMMA CountedStep ==
  ASSUME TypeOK, RootInv, Counted, Filled, [Next]_vars
  PROVE  Counted' /\ Filled'
<1>0. /\ queue \in Seq(Chunk) /\ outstanding \in Int /\ outstanding <= InFlight
      /\ outstanding - 1 \in Int /\ outstanding - 1 <= InFlight
      /\ bitmap \in SUBSET Chunk /\ IsFiniteSet(bitmap) /\ Cardinality(bitmap) \in Nat
      /\ Chunks \in Nat /\ Len(queue) \in Nat
  BY ConstantsAssumption, ChunkFinite DEF TypeOK
<1>1. ASSUME UNCHANGED <<bitmap, queue, outstanding, phase>>
      PROVE  Counted' /\ Filled'
  BY <1>1 DEF Counted, Filled
<1>2. ASSUME phase' # "running" PROVE Counted' /\ Filled'
  BY <1>2 DEF Counted, Filled
<1>3. ASSUME NEW q \in Seq(Chunk), NEW out \in Int, out <= InFlight, NEW rs,
             fill(q, out, rs), out + Len(q) + Cardinality(bitmap') = Chunks,
             Cardinality(bitmap') \in Nat
      PROVE  Counted' /\ Filled'
  <2>1. /\ outstanding' + Len(queue') = out + Len(q)
        /\ queue' = <<>> \/ outstanding' = InFlight
    BY <1>3, FillKeeps
  <2> QED BY <1>3, <2>1 DEF Counted, Filled
<1>4. CASE StartRun
  <2>1. PICK q \in Ascending(Chunk \ bitmap') : fill(q, 0, {})
    BY <1>4 DEF StartRun
  <2>2. bitmap' \in SUBSET Chunk
    BY <1>4 DEF StartRun, OpenSink, SaveSidecar, TypeOK
  <2>3. Cardinality(Chunk) = Chunks
    <3>1. Chunks - 1 \in Int /\ 0 \in Int
      BY <1>0
    <3>2. Cardinality(0 .. Chunks - 1) = IF 0 > Chunks - 1 THEN 0 ELSE Chunks - 1 - 0 + 1
      BY <3>1, FS_Interval
    <3> QED BY <1>0, <3>2 DEF Chunk
  <2>4. Cardinality(Chunk \ bitmap') = Cardinality(Chunk) - Cardinality(bitmap')
    <3>1. Chunk \cap bitmap' = bitmap'
      BY <2>2
    <3>2. Cardinality(Chunk \ bitmap') = Cardinality(Chunk) - Cardinality(Chunk \cap bitmap')
      BY ChunkFinite, FS_Difference
    <3> QED BY <3>1, <3>2
  <2>5. q \in Seq(Chunk) /\ Len(q) = Cardinality(Chunk \ bitmap')
    BY <2>1, AscendingFacts, AscendingLength
  <2>6. Cardinality(bitmap') \in Nat /\ 0 \in Int /\ 0 <= InFlight
    BY <2>2, ChunkFinite, ConstantsAssumption
  <2>7. 0 + Len(q) + Cardinality(bitmap') = Chunks
    BY <1>0, <2>3, <2>4, <2>5, <2>6
  <2> QED BY <1>3, <2>1, <2>5, <2>6, <2>7
<1>5. ASSUME phase = "running", fill(queue, outstanding, reqs), bitmap' = bitmap
      PROVE  Counted' /\ Filled'
  <2>1. outstanding + Len(queue) + Cardinality(bitmap') = Chunks
    BY <1>5 DEF Counted
  <2> QED BY <1>0, <1>3, <1>5, <2>1
<1>6. CASE OnDataPart \/ OnHashGood \/ OnDone
  BY <1>5, <1>6 DEF OnDataPart, OnHashGood, OnDone
<1>7. CASE OnDataChunk
  <2>1. PICK d \in datas : /\ bitmap' = bitmap \cup {d.index}
                           /\ fill(queue, outstanding - 1, reqs)
    BY <1>7 DEF OnDataChunk
  <2>2. d.index \notin bitmap
    <3>1. d.index \in AwaitedData
      BY DEF AwaitedData
    <3> QED BY <3>1 DEF RootInv, OnePlace, Awaited
  <2>3. Cardinality(bitmap') = Cardinality(bitmap) + 1
    BY <1>0, <2>1, <2>2, FS_AddElement
  <2>4. outstanding + Len(queue) + Cardinality(bitmap) = Chunks
    BY <1>7 DEF OnDataChunk, Counted
  <2>5. (outstanding - 1) + Len(queue) + Cardinality(bitmap') = Chunks
    BY <1>0, <2>3, <2>4
  <2>6. Cardinality(bitmap') \in Nat
    BY <1>0, <2>3
  <2> QED BY <1>0, <1>3, <2>1, <2>5, <2>6
<1>8. CASE OnHashBad
  <2>1. PICK h \in hashReplies :
          /\ bitmap' = bitmap \ Verify(h)
          /\ \E b \in Ascending(Verify(h)) : fill(b \o queue, outstanding, reqs)
    BY <1>8 DEF OnHashBad
  <2>2. PICK b \in Ascending(Verify(h)) : fill(b \o queue, outstanding, reqs)
    BY <2>1
  <2>3. Verify(h) \in SUBSET Chunk /\ bitmap \cap Verify(h) = Verify(h)
    BY DEF Verify, TypeOK
  <2>4. Cardinality(bitmap') = Cardinality(bitmap) - Cardinality(Verify(h))
    <3>1. Cardinality(bitmap \ Verify(h))
            = Cardinality(bitmap) - Cardinality(bitmap \cap Verify(h))
      BY <1>0, FS_Difference
    <3> QED BY <2>1, <2>3, <3>1
  <2>5. b \in Seq(Chunk) /\ Len(b) = Cardinality(Verify(h))
    BY <2>3, AscendingFacts, AscendingLength
  <2>6. b \o queue \in Seq(Chunk) /\ Len(b \o queue) = Len(b) + Len(queue)
    BY <1>0, <2>5
  <2>7. outstanding + Len(queue) + Cardinality(bitmap) = Chunks
    BY <1>8 DEF OnHashBad, Counted
  <2>8. Cardinality(bitmap') \in Nat
    BY <1>0, <2>1, ChunkFinite
  <2>9. Cardinality(Verify(h)) \in Nat
    BY <2>3, ChunkFinite
  <2>10. outstanding + Len(b \o queue) + Cardinality(bitmap') = Chunks
    BY <1>0, <2>4, <2>5, <2>6, <2>7, <2>9
  <2> DEFINE q == b \o queue
  <2> HIDE DEF q
  <2>11. q \in Seq(Chunk) /\ fill(q, outstanding, reqs)
         /\ outstanding + Len(q) + Cardinality(bitmap') = Chunks
    BY <2>2, <2>6, <2>10 DEF q
  <2> QED BY <1>0, <1>3, <2>8, <2>11
<1>9. CASE OnHashGiveUp \/ OnError \/ DoneTimeout \/ StreamLost \/ CheckRoot
  BY <1>2, <1>9 DEF OnHashGiveUp, OnError, DoneTimeout, StreamLost, CheckRoot, FailRun
<1>10. CASE Crash \/ CrashInWriteChunk
  BY <1>2, <1>10 DEF Crash, CrashInWriteChunk
<1>11. CASE \/ DeletePartial \/ TakeReq \/ ServeChunk \/ RefuseChunk \/ ServeHashReq
            \/ OtherSessionReads \/ Stop \/ EditFile \/ HostRestart \/ UNCHANGED vars
  BY <1>1, <1>11 DEF DeletePartial, TakeReq, ServeChunk, RefuseChunk, ServeHashReq,
                     OtherSessionReads, Stop, EditFile, HostRestart, vars
<1> QED
  BY <1>4, <1>6, <1>7, <1>8, <1>9, <1>10, <1>11
  DEF Next, ReceiverNext, HostNext

(* A complete window is asked about, and the answer comes or is on its way.*)
LEMMA AskedStep ==
  ASSUME TypeOK, RootInv, Asked, [Next]_vars
  PROVE  Asked'
<1> USE DEF RootInv
<1>0. /\ winState \in [WindowIds -> 0 .. 2] /\ winRecv \in [WindowIds -> Int]
      /\ \A w \in WindowIds :
           /\ winRecv[w] = Cardinality(Window(w) \cap bitmap)
           /\ \A h \in hashReplies : h.win = w => winState[w] = 1
  BY DEF TypeOK, WindowsCounted
<1>1. ASSUME UNCHANGED <<bitmap, winState, hashReqs, hashReplies, phase>>
      PROVE  Asked'
  BY <1>1 DEF Asked, Window, windowSize
<1>2. ASSUME phase' # "running" PROVE Asked'
  BY <1>2 DEF Asked
<1>3. CASE StartRun
  <2> SUFFICES ASSUME NEW w \in WindowIds
               PROVE  /\ Window(w) \subseteq bitmap' => winState'[w] # 0
                      /\ winState'[w] = 1 => w \in hashReqs'
    BY DEF Asked, Window, windowSize
  <2>1. PICK recv, full :
          /\ recv = [x \in WindowIds |-> Cardinality(Window(x) \cap bitmap')]
          /\ full = {x \in WindowIds : recv[x] = windowSize(x)}
          /\ winState' = [x \in WindowIds |-> IF x \in full THEN 1 ELSE 0]
          /\ hashReqs' = full \cup (IF Chunks = 0 THEN {0} ELSE {})
    BY <1>3 DEF StartRun
  <2>2. ASSUME Window(w) \subseteq bitmap' PROVE w \in full
    <3>1. Window(w) \cap bitmap' = Window(w)
      BY <2>2
    <3>2. recv[w] = windowSize(w)
      BY <2>1, <3>1, WindowFacts
    <3> QED BY <2>1, <3>2
  <2> QED BY <2>1, <2>2
<1>4. CASE OnDataChunk
  <2> SUFFICES ASSUME NEW w \in WindowIds
               PROVE  /\ Window(w) \subseteq bitmap' => winState'[w] # 0
                      /\ winState'[w] = 1 =>
                           w \in hashReqs' \/ \E h \in hashReplies' : h.win = w
    BY DEF Asked, Window, windowSize
  <2>1. PICK d \in datas :
          LET v == WindowOf(d.index)
              ask == winRecv[v] + 1 = windowSize(v) /\ winState[v] = 0
          IN /\ bitmap' = bitmap \cup {d.index}
             /\ winState' = IF ask THEN [winState EXCEPT ![v] = 1] ELSE winState
             /\ hashReqs' = IF ask THEN hashReqs \cup {v} ELSE hashReqs
    BY <1>4 DEF OnDataChunk
  <2>2. hashReplies' = hashReplies /\ phase = "running"
    BY <1>4 DEF OnDataChunk
  <2>3. PICK i, v : i = d.index /\ v = WindowOf(i)
    OBVIOUS
  <2>4. i \in Chunk /\ i \notin bitmap
    <3>1. i \in AwaitedData /\ i \in Chunk
      BY <2>3 DEF TypeOK, AwaitedData
    <3> QED BY <3>1 DEF OnePlace, Awaited
  <2>5. v \in WindowIds /\ i \in Window(v) /\ \A x \in WindowIds : i \in Window(x) => x = v
    BY <2>3, <2>4, WindowOfFacts
  <2>6. /\ Window(w) \subseteq bitmap => winState[w] # 0
        /\ winState[w] = 1 => w \in hashReqs \/ \E h \in hashReplies : h.win = w
    BY <2>2 DEF Asked
  <2>7. CASE w # v
    <3>1. winState'[w] = winState[w] /\ hashReqs \subseteq hashReqs'
      BY <1>0, <2>1, <2>3, <2>7
    <3>2. Window(w) \subseteq bitmap' => Window(w) \subseteq bitmap
      BY <2>1, <2>3, <2>5, <2>7
    <3> QED BY <2>2, <2>6, <3>1, <3>2
  <2>8. CASE w = v
    <3>1. ASSUME Window(w) \subseteq bitmap' PROVE winRecv[v] + 1 = windowSize(v)
      <4>1. IsFiniteSet(Window(v)) /\ Cardinality(Window(v)) = windowSize(v)
        BY <2>5, WindowFacts
      <4>2. Window(v) = (Window(v) \cap bitmap) \cup {i}
        BY <2>1, <2>3, <2>5, <2>8, <3>1
      <4>3. IsFiniteSet(Window(v) \cap bitmap)
        BY <4>1, FS_Intersection
      <4>4. Cardinality(Window(v)) = Cardinality(Window(v) \cap bitmap) + 1
        <5>1. i \notin Window(v) \cap bitmap
          BY <2>4
        <5> DEFINE S == Window(v) \cap bitmap
        <5>2. Cardinality(S \cup {i}) = Cardinality(S) + 1
          BY <4>3, <5>1, FS_AddElement
        <5> QED BY <4>2, <5>2
      <4> QED BY <1>0, <2>5, <4>1, <4>4
    <3>2. CASE winRecv[v] + 1 = windowSize(v) /\ winState[v] = 0
      <4>1. winState'[w] = 1 /\ w \in hashReqs'
        BY <1>0, <2>1, <2>3, <2>5, <2>8, <3>2
      <4> QED BY <4>1
    <3>3. CASE ~(winRecv[v] + 1 = windowSize(v) /\ winState[v] = 0)
      <4>1. winState' = winState /\ hashReqs' = hashReqs
        BY <2>1, <2>3, <3>3
      <4> QED BY <2>2, <2>6, <2>8, <3>1, <3>3, <4>1
    <3> QED BY <3>2, <3>3
  <2> QED BY <2>7, <2>8
<1>5. CASE OnHashGood
  <2> SUFFICES ASSUME NEW w \in WindowIds
               PROVE  /\ Window(w) \subseteq bitmap' => winState'[w] # 0
                      /\ winState'[w] = 1 =>
                           w \in hashReqs' \/ \E g \in hashReplies' : g.win = w
    BY DEF Asked, Window, windowSize
  <2>1. PICK h \in hashReplies :
          /\ IF Chunks > 0 /\ winState[h.win] # 2
             THEN winState' = [winState EXCEPT ![h.win] = 2]
             ELSE winState' = winState
          /\ hashReplies' = hashReplies \ {h}
    BY <1>5 DEF OnHashGood
  <2>2. phase = "running" /\ UNCHANGED <<bitmap, hashReqs>>
    BY <1>5 DEF OnHashGood
  <2>3. /\ Window(w) \subseteq bitmap => winState[w] # 0
        /\ winState[w] = 1 => w \in hashReqs \/ \E g \in hashReplies : g.win = w
    BY <2>2 DEF Asked
  <2>4. CASE h.win = w
    <3>1. winState[w] = 1
      BY <1>0, <2>4
    <3>2. Chunks > 0
      <4>1. Chunks \in Nat /\ Chunks # 0
        BY ConstantsAssumption DEF WindowIds, Windows
      <4> QED BY <4>1
    <3>3. winState' = [winState EXCEPT ![w] = 2]
      BY <2>1, <2>4, <3>1, <3>2
    <3>4. winState'[w] = 2
      BY <1>0, <3>3
    <3> QED BY <3>4
  <2>5. CASE h.win # w
    <3>1. winState'[w] = winState[w]
      BY <1>0, <2>1, <2>5
    <3> QED BY <2>1, <2>2, <2>3, <2>5, <3>1
  <2> QED BY <2>4, <2>5
<1>6. CASE OnHashBad
  <2> SUFFICES ASSUME NEW w \in WindowIds
               PROVE  /\ Window(w) \subseteq bitmap' => winState'[w] # 0
                      /\ winState'[w] = 1 =>
                           w \in hashReqs' \/ \E g \in hashReplies' : g.win = w
    BY DEF Asked, Window, windowSize
  <2>1. PICK h \in hashReplies :
          /\ Verify(h) # {}
          /\ bitmap' = bitmap \ Verify(h)
          /\ winState' = [winState EXCEPT ![h.win] = 0]
          /\ hashReplies' = hashReplies \ {h}
    BY <1>6 DEF OnHashBad
  <2>2. phase = "running" /\ hashReqs' = hashReqs
    BY <1>6 DEF OnHashBad
  <2>3. /\ Window(w) \subseteq bitmap => winState[w] # 0
        /\ winState[w] = 1 => w \in hashReqs \/ \E g \in hashReplies : g.win = w
    BY <2>2 DEF Asked
  <2>4. CASE h.win = w
    <3>1. winState'[w] = 0
      BY <1>0, <2>1, <2>4
    <3>2. Verify(h) \subseteq Window(w)
      BY <2>4 DEF Verify
    <3> QED BY <2>1, <3>1, <3>2
  <2>5. CASE h.win # w
    <3>1. winState'[w] = winState[w]
      BY <1>0, <2>1, <2>5
    <3>2. Window(w) \subseteq bitmap' => Window(w) \subseteq bitmap
      BY <2>1
    <3> QED BY <2>1, <2>2, <2>3, <2>5, <3>1, <3>2
  <2> QED BY <2>4, <2>5
<1>7. CASE ServeHashReq
  <2>1. PICK v \in hashReqs :
          /\ hashReplies' = hashReplies \cup
               {[win |-> v, hs |-> [i \in Window(v) |-> srcHash'[i]]]}
          /\ hashReqs' = hashReqs \ {v}
    BY <1>7 DEF ServeHashReq
  <2>2. phase = "running" /\ UNCHANGED <<bitmap, winState>>
    BY <1>7 DEF ServeHashReq, HostIdle
  <2>3. \E h \in hashReplies' : h.win = v
    <3> DEFINE h == [win |-> v, hs |-> [i \in Window(v) |-> srcHash'[i]]]
    <3>1. h \in hashReplies' /\ h.win = v
      BY <2>1
    <3> QED BY <3>1
  <2> SUFFICES ASSUME NEW w \in WindowIds
               PROVE  /\ Window(w) \subseteq bitmap' => winState'[w] # 0
                      /\ winState'[w] = 1 =>
                           w \in hashReqs' \/ \E h \in hashReplies' : h.win = w
    BY DEF Asked, Window, windowSize
  <2>4. /\ Window(w) \subseteq bitmap => winState[w] # 0
        /\ winState[w] = 1 => w \in hashReqs \/ \E h \in hashReplies : h.win = w
    BY <2>2 DEF Asked
  <2> QED BY <2>1, <2>2, <2>3, <2>4
<1>8. CASE OnHashGiveUp \/ OnError \/ DoneTimeout \/ StreamLost \/ CheckRoot
  BY <1>2, <1>8 DEF OnHashGiveUp, OnError, DoneTimeout, StreamLost, CheckRoot, FailRun
<1>9. CASE Crash \/ CrashInWriteChunk
  BY <1>2, <1>9 DEF Crash, CrashInWriteChunk
<1>10. CASE OnDataPart \/ OnDone \/ DeletePartial \/ TakeReq \/ ServeChunk
  BY <1>1, <1>10 DEF OnDataPart, OnDone, DeletePartial, TakeReq, ServeChunk
<1>11. CASE \/ RefuseChunk \/ OtherSessionReads \/ Stop \/ EditFile \/ HostRestart
            \/ UNCHANGED vars
  BY <1>1, <1>11 DEF RefuseChunk, OtherSessionReads, Stop, EditFile, HostRestart, vars
<1> QED
  BY <1>3, <1>4, <1>5, <1>6, <1>7, <1>8, <1>9, <1>10, <1>11
  DEF Next, ReceiverNext, HostNext

(* No buffer is full, and a stream begins with a new session.              *)
LEMMA SmallSteps ==
  ASSUME TypeOK, Unfinished, NewSession, [Next]_vars
  PROVE  Unfinished' /\ NewSession'
<1>0. Pieces \in Nat /\ 0 < Pieces /\ partial \in [Chunk -> [buf : Data, have : Nat]]
  <2>1. Pieces \in Nat /\ 0 < Pieces
    BY ConstantsAssumption
  <2>2. partial \in [Chunk -> [buf : Data, have : Nat]]
    BY DEF TypeOK
  <2> QED BY <2>1, <2>2
<1>1. ASSUME UNCHANGED <<partial, phase, lastRequested, doneSent>>
      PROVE  Unfinished' /\ NewSession'
  BY <1>1 DEF Unfinished, NewSession
<1>2. ASSUME CloseStream, partial' = partial \/ partial' = [i \in Chunk |-> NoPartial]
      PROVE  Unfinished' /\ NewSession'
  BY <1>0, <1>2 DEF Unfinished, NewSession, CloseStream, NoPartial
<1>3. CASE StartRun
  BY <1>0, <1>3 DEF StartRun, Unfinished, NewSession, NoPartial
<1>4. CASE OnDataPart
  <2>1. phase' = "running"
    BY <1>4 DEF OnDataPart
  <2>2. PICK d \in datas :
          /\ partial[d.index].have + 1 < Pieces
          /\ partial' = [partial EXCEPT ![d.index] =
                           [buf |-> Assembled(d), have |-> partial[d.index].have + 1]]
    BY <1>4 DEF OnDataPart
  <2> QED BY <1>0, <2>1, <2>2 DEF Unfinished, NewSession
<1>5. CASE OnDataChunk
  <2>1. phase' = "running" /\ \E j : partial' = [partial EXCEPT ![j] = NoPartial]
    BY <1>5 DEF OnDataChunk
  <2> QED BY <1>0, <2>1 DEF Unfinished, NewSession, NoPartial
<1>6. CASE OnHashGood \/ OnHashBad \/ OnDone
  BY <1>1, <1>6 DEF OnHashGood, OnHashBad, OnDone
<1>7. CASE OnHashGiveUp \/ OnError \/ DoneTimeout \/ StreamLost
  BY <1>2, <1>7 DEF OnHashGiveUp, OnError, DoneTimeout, StreamLost, FailRun, Forget
<1>8. CASE CheckRoot \/ Crash \/ CrashInWriteChunk
  BY <1>2, <1>8 DEF CheckRoot, FailRun, Crash, CrashInWriteChunk, Forget
<1>9. CASE ServeChunk \/ ServeHashReq
  <2>1. phase' = "running" \/ ServeChunk
    BY <1>9 DEF ServeHashReq, HostIdle
  <2>2. phase' = "running" /\ partial' = partial
    BY <1>9, <2>1 DEF ServeChunk, ServeHashReq
  <2> QED BY <2>2 DEF Unfinished, NewSession
<1>10. CASE DeletePartial \/ TakeReq \/ RefuseChunk \/ OtherSessionReads
  BY <1>1, <1>10 DEF DeletePartial, TakeReq, RefuseChunk, OtherSessionReads
<1>11. CASE Stop \/ EditFile \/ HostRestart \/ UNCHANGED vars
  BY <1>1, <1>11 DEF Stop, EditFile, HostRestart, vars
<1> QED
  BY <1>3, <1>4, <1>5, <1>6, <1>7, <1>8, <1>9, <1>10, <1>11
  DEF Next, ReceiverNext, HostNext

(* On a stream that began without the last chunk, the last chunk arrives   *)
(* only after a REQ that reaches the end of the file.                      *)
LEMMA LastServedStep ==
  ASSUME TypeOK, RootInv, LastServed, [Next]_vars
  PROVE  LastServed'
<1>1. ASSUME phase = "running", heldLast' = heldLast, lastRequested => lastRequested',
             bitmap' \cup AwaitedData' \subseteq bitmap \cup AwaitedData
      PROVE  LastServed'
  BY <1>1 DEF LastServed
<1>2. ASSUME UNCHANGED <<bitmap, datas, partial, heldLast, lastRequested, phase>>
      PROVE  LastServed'
  BY <1>2 DEF LastServed, AwaitedData
<1>3. ASSUME phase' # "running" PROVE LastServed'
  BY <1>3 DEF LastServed
<1>4. CASE StartRun
  <2>1. heldLast' = (Chunks - 1 \in bitmap') /\ partial' = [i \in Chunk |-> NoPartial]
        /\ datas' = {}
    BY <1>4 DEF StartRun, RootInv, StreamOnlyWhileRunning
  <2>2. AwaitedData' = {}
    BY <2>1 DEF AwaitedData, NoPartial
  <2> QED BY <2>1, <2>2 DEF LastServed
<1>5. CASE OnDataPart
  <2>1. PICK d \in datas :
          /\ partial' = [partial EXCEPT ![d.index] =
                           [buf |-> Assembled(d), have |-> partial[d.index].have + 1]]
          /\ datas' = datas \ {d}
    BY <1>5 DEF OnDataPart
  <2>2. phase = "running" /\ UNCHANGED <<bitmap, heldLast, lastRequested>>
    BY <1>5 DEF OnDataPart
  <2>3. \A j \in Chunk : j # d.index => partial'[j] = partial[j]
    BY <2>1 DEF TypeOK
  <2>4. AwaitedData' \subseteq AwaitedData
    BY <2>1, <2>3 DEF AwaitedData
  <2> QED BY <1>1, <2>2, <2>4
<1>6. CASE OnDataChunk
  <2>1. PICK d \in datas :
          /\ partial' = [partial EXCEPT ![d.index] = NoPartial]
          /\ bitmap' = bitmap \cup {d.index}
          /\ datas' = datas \ {d}
    BY <1>6 DEF OnDataChunk
  <2>2. phase = "running" /\ UNCHANGED <<heldLast, lastRequested>>
    BY <1>6 DEF OnDataChunk
  <2>3. \A j \in Chunk : j # d.index => partial'[j] = partial[j]
    BY <2>1 DEF TypeOK
  <2>4. bitmap' \cup AwaitedData' \subseteq bitmap \cup AwaitedData
    BY <2>1, <2>3 DEF AwaitedData
  <2> QED BY <1>1, <2>2, <2>4
<1>7. CASE OnHashBad
  <2>1. /\ phase = "running" /\ UNCHANGED <<heldLast, lastRequested, datas, partial>>
        /\ bitmap' \subseteq bitmap
    BY <1>7 DEF OnHashBad
  <2>2. AwaitedData' = AwaitedData
    BY <2>1 DEF AwaitedData
  <2> QED BY <1>1, <2>1, <2>2
<1>8. CASE ServeChunk
  <2>1. PICK i : i = serving.next
    OBVIOUS
  <2>2. /\ phase = "running" /\ serving.next < serving.end
        /\ datas' = datas \cup {[index |-> i, piece |-> p, val |-> file[i]] : p \in Piece}
        /\ lastRequested' = (lastRequested \/ (i + 1 = serving.end /\ serving.end = Chunks))
        /\ UNCHANGED <<bitmap, partial, heldLast>>
    BY <1>8, <2>1 DEF ServeChunk
  <2>3. AwaitedData' \subseteq AwaitedData \cup {i}
    BY <2>2 DEF AwaitedData
  <2>4. CASE i = Chunks - 1
    <3>1. serving.next \in Int /\ serving.end \in Int /\ serving.end <= Chunks
          /\ Chunks \in Int
      <4>1. serving \in [next : 0 .. Chunks, end : 0 .. Chunks] /\ Chunks \in Nat
        BY ConstantsAssumption DEF TypeOK
      <4> QED BY <4>1
    <3>2. serving.end = Chunks /\ i + 1 = serving.end
      BY <2>1, <2>2, <2>4, <3>1
    <3> QED BY <2>2, <3>2 DEF LastServed
  <2>5. CASE i # Chunks - 1
    BY <2>2, <2>3, <2>5 DEF LastServed
  <2> QED BY <2>4, <2>5
<1>9. CASE OnHashGood \/ OnDone \/ TakeReq \/ RefuseChunk \/ ServeHashReq
  BY <1>2, <1>9 DEF OnHashGood, OnDone, TakeReq, RefuseChunk, ServeHashReq
<1>10. CASE OnHashGiveUp \/ OnError \/ DoneTimeout \/ StreamLost \/ CheckRoot
  BY <1>3, <1>10 DEF OnHashGiveUp, OnError, DoneTimeout, StreamLost, CheckRoot, FailRun
<1>11. CASE Crash \/ CrashInWriteChunk
  BY <1>3, <1>11 DEF Crash, CrashInWriteChunk
<1>12. CASE DeletePartial \/ OtherSessionReads \/ Stop \/ EditFile \/ HostRestart
            \/ UNCHANGED vars
  BY <1>2, <1>12 DEF DeletePartial, OtherSessionReads, Stop, EditFile, HostRestart, vars
<1> QED
  BY <1>4, <1>5, <1>6, <1>7, <1>8, <1>9, <1>10, <1>11, <1>12
  DEF Next, ReceiverNext, HostNext

(* The end of a turn of serve either sends DONE or leaves a window that is *)
(* not answered: one with a chunk whose hash the host does not know.       *)
LEMMA TurnOwesDone ==
  ASSUME TypeOK, RootInv', DoneOwed, phase = "running", root' = root,
         MaybeDone(lastRequested', srcHave', srcHash'), srcHave' \subseteq Chunk
  PROVE  DoneOwed'
<1>1. ASSUME doneSent' PROVE dones' # {} \/ root' # None
  BY <1>1 DEF DoneOwed, MaybeDone
<1>2. ASSUME lastRequested' \/ Chunks = 0, ~doneSent'
      PROVE  \E w \in WindowIds : winState'[w] # 2 /\ \A h \in hashReplies' : h.win # w
  <2>1. srcHave' # Chunk
    BY <1>2 DEF MaybeDone
  <2>2. PICK i \in Chunk : i \notin srcHave'
    BY <2>1
  <2>3. WindowOf(i) \in WindowIds /\ i \in Window(WindowOf(i))
    BY WindowOfFacts
  <2>4. winState'[WindowOf(i)] # 2
    <3>1. winState'[WindowOf(i)] = 2 => \A j \in Window(WindowOf(i)) : j \in srcHave'
      BY <2>3 DEF RootInv, WindowsCounted, Window, windowSize
    <3> QED BY <2>2, <2>3, <3>1
  <2>5. \A h \in hashReplies' : h.win # WindowOf(i)
    <3>1. \A h \in hashReplies' : \A j \in Window(h.win) : j \in srcHave'
      BY DEF RootInv, RepliesFromCache, Window, windowSize
    <3> QED BY <2>2, <2>3, <3>1
  <2> QED BY <2>3, <2>4, <2>5
<1> QED BY <1>1, <1>2 DEF DoneOwed, NotAnswered

(* DONE is on its way, or some turn of serve is still to come.             *)
LEMMA DoneOwedStep ==
  ASSUME TypeOK, TypeOK', RootInv, RootInv', DoneOwed, NewSession, [Next]_vars
  PROVE  DoneOwed'
<1>0. winState \in [WindowIds -> 0 .. 2] /\ dones \subseteq Roots
  BY DEF TypeOK
<1>1. ASSUME phase' # "running" PROVE DoneOwed'
  BY <1>1 DEF DoneOwed
<1>2. ASSUME phase = "running", UNCHANGED <<doneSent, lastRequested>>,
             \A w \in WindowIds : NotAnswered(w) => NotAnswered(w)',
             0 \in hashReqs => 0 \in hashReqs',
             dones # {} \/ root # None => dones' # {} \/ root' # None
      PROVE  DoneOwed'
  BY <1>2 DEF DoneOwed
<1>3. ASSUME UNCHANGED <<phase, doneSent, lastRequested, winState, hashReplies,
                         hashReqs, dones, root>>
      PROVE  DoneOwed'
  BY <1>3 DEF DoneOwed, NotAnswered
<1>4. CASE StartRun
  <2>1. /\ ~lastRequested' /\ ~doneSent' /\ (Chunks = 0 => 0 \in hashReqs')
    BY <1>4 DEF StartRun, NewSession
  <2> QED BY <2>1 DEF DoneOwed
<1>5. CASE OnDataChunk
  <2>1. /\ phase = "running" /\ hashReqs \subseteq hashReqs'
        /\ UNCHANGED <<doneSent, lastRequested, hashReplies, dones, root>>
    BY <1>5 DEF OnDataChunk
  <2>2. winState' = winState \/ \E v : winState' = [winState EXCEPT ![v] = 1]
    BY <1>5 DEF OnDataChunk
  <2>3. \A w \in WindowIds : NotAnswered(w) => NotAnswered(w)'
    BY <1>0, <2>1, <2>2 DEF NotAnswered
  <2> QED BY <1>2, <2>1, <2>3
<1>6. CASE OnHashGood
  <2>1. PICK h \in hashReplies :
          /\ winState' = winState \/ winState' = [winState EXCEPT ![h.win] = 2]
          /\ hashReplies' = hashReplies \ {h}
    BY <1>6 DEF OnHashGood
  <2>2. /\ phase = "running"
        /\ UNCHANGED <<doneSent, lastRequested, hashReqs, dones, root>>
    BY <1>6 DEF OnHashGood
  <2>3. \A w \in WindowIds : NotAnswered(w) => NotAnswered(w)'
    BY <1>0, <2>1 DEF NotAnswered
  <2> QED BY <1>2, <2>2, <2>3
<1>7. CASE OnHashBad
  <2>1. PICK h \in hashReplies : /\ winState' = [winState EXCEPT ![h.win] = 0]
                                 /\ hashReplies' = hashReplies \ {h}
    BY <1>7 DEF OnHashBad
  <2>2. /\ phase = "running"
        /\ UNCHANGED <<doneSent, lastRequested, hashReqs, dones, root>>
    BY <1>7 DEF OnHashBad
  <2>3. \A w \in WindowIds : NotAnswered(w) => NotAnswered(w)'
    BY <1>0, <2>1 DEF NotAnswered
  <2> QED BY <1>2, <2>2, <2>3
<1>8. CASE OnDone
  <2>1. root' \in dones
    BY <1>8 DEF OnDone
  <2>2. root' # None
    BY <1>0, <2>1, NoneAssumption
  <2>3. /\ phase = "running"
        /\ UNCHANGED <<doneSent, lastRequested, hashReqs, hashReplies, winState>>
    BY <1>8 DEF OnDone
  <2> QED BY <1>2, <2>2, <2>3 DEF NotAnswered
<1>9. CASE ServeChunk
  <2>1. PICK i, over : i = serving.next /\ over = (i + 1 = serving.end)
    OBVIOUS
  <2>2. /\ phase = "running" /\ UNCHANGED <<hashReqs, hashReplies, winState, root>>
        /\ lastRequested' = (lastRequested \/ (over /\ serving.end = Chunks))
        /\ IF over THEN MaybeDone(lastRequested', srcHave', srcHash')
                   ELSE UNCHANGED <<doneSent, dones>>
    BY <1>9, <2>1 DEF ServeChunk
  <2>3. CASE over
    <3>1. srcHave' \subseteq Chunk
      BY DEF TypeOK
    <3> QED BY <2>2, <2>3, <3>1, TurnOwesDone
  <2>4. CASE ~over
    <3>1. lastRequested' = lastRequested /\ UNCHANGED <<doneSent, dones>>
      BY <2>2, <2>4 DEF TypeOK
    <3> QED BY <1>2, <2>2, <3>1 DEF NotAnswered
  <2> QED BY <2>3, <2>4
<1>10. CASE ServeHashReq
  <2>1. /\ phase = "running" /\ root' = root
        /\ MaybeDone(lastRequested', srcHave', srcHash')
    <3>1. lastRequested' = lastRequested /\ phase = "running" /\ root' = root
      BY <1>10 DEF ServeHashReq, HostIdle
    <3>2. MaybeDone(lastRequested, srcHave', srcHash')
      BY <1>10 DEF ServeHashReq
    <3> QED BY <3>1, <3>2
  <2>2. srcHave' \subseteq Chunk
    BY DEF TypeOK
  <2> QED BY <2>1, <2>2, TurnOwesDone
<1>11. CASE OnHashGiveUp \/ OnError \/ DoneTimeout \/ StreamLost \/ CheckRoot
  BY <1>1, <1>11 DEF OnHashGiveUp, OnError, DoneTimeout, StreamLost, CheckRoot, FailRun
<1>12. CASE Crash \/ CrashInWriteChunk
  BY <1>1, <1>12 DEF Crash, CrashInWriteChunk
<1>13. CASE OnDataPart \/ TakeReq \/ RefuseChunk \/ OtherSessionReads
  BY <1>3, <1>13 DEF OnDataPart, TakeReq, RefuseChunk, OtherSessionReads
<1>14. CASE DeletePartial \/ Stop \/ EditFile \/ HostRestart \/ UNCHANGED vars
  BY <1>3, <1>14 DEF DeletePartial, Stop, EditFile, HostRestart, vars
<1> QED
  BY <1>4, <1>5, <1>6, <1>7, <1>8, <1>9, <1>10, <1>11, <1>12, <1>13, <1>14
  DEF Next, ReceiverNext, HostNext

LEMMA ProgressInit == Init => ProgressInv
<1> SUFFICES ASSUME Init PROVE ProgressInv
  OBVIOUS
<1>1. phase = "idle" /\ ~lastRequested /\ ~doneSent
      /\ partial = [i \in Chunk |-> NoPartial]
  BY DEF Init
<1>2. Covered /\ Counted /\ Filled /\ Asked
  BY <1>1 DEF Covered, Counted, Filled, Asked
<1>3. LastServed /\ DoneOwed /\ NewSession
  BY <1>1 DEF LastServed, DoneOwed, NewSession
<1>4. Unfinished
  BY <1>1, ConstantsAssumption DEF Unfinished, NoPartial
<1> QED BY <1>2, <1>3, <1>4 DEF ProgressInv

(* What keeps a live stream going holds in every reachable state.          *)
THEOREM ProgressInvariant == Spec => []ProgressInv
<1>1. /\ TypeOK /\ TypeOK' /\ RootInv /\ RootInv' /\ ProgressInv /\ [Next]_vars
      => ProgressInv'
  <2> SUFFICES ASSUME TypeOK, TypeOK', RootInv, RootInv', ProgressInv, [Next]_vars
               PROVE  ProgressInv'
    OBVIOUS
  <2>1. Covered' /\ Counted' /\ Filled'
    BY CoveredStep, CountedStep DEF ProgressInv
  <2>2. Asked' /\ Unfinished' /\ NewSession'
    BY AskedStep, SmallSteps DEF ProgressInv
  <2>3. LastServed' /\ DoneOwed'
    BY LastServedStep, DoneOwedStep DEF ProgressInv
  <2> QED BY <2>1, <2>2, <2>3 DEF ProgressInv
<1> QED BY <1>1, ProgressInit, TypeCorrect, RootInvariant, PTL DEF Spec

-----------------------------------------------------------------------------
(* What follows for the receiver *)

LEMMA Places ==
  ASSUME TypeOK
  PROVE  AwaitedReqs \subseteq Chunk /\ AwaitedServing \subseteq Chunk
         /\ AwaitedData \subseteq Chunk
<1>1. Chunks \in Nat
  BY ConstantsAssumption
<1>2. AwaitedReqs \subseteq Chunk
  <2> SUFFICES ASSUME NEW r \in reqs, NEW i \in ReqChunks(r) PROVE i \in Chunk
    BY DEF AwaitedReqs
  <2>1. r.first \in Nat /\ r.count \in Int /\ r.first + r.count <= Chunks
    <3>1. r \in Req /\ r.first + r.count <= Chunks
      BY DEF TypeOK
    <3> QED BY <1>1, <3>1 DEF Req, Chunk
  <2> QED BY <1>1, <2>1 DEF ReqChunks, Chunk
<1>3. AwaitedServing \subseteq Chunk
  <2>1. serving \in [next : 0 .. Chunks, end : 0 .. Chunks]
    BY DEF TypeOK
  <2>2. serving.next \in Nat /\ serving.end \in Nat /\ serving.end <= Chunks
    BY <1>1, <2>1
  <2> QED BY <1>1, <2>2 DEF AwaitedServing, Chunk
<1>4. AwaitedData \subseteq Chunk
  <2>1. \A d \in datas : d.index \in Chunk
    BY DEF TypeOK
  <2> QED BY <2>1 DEF AwaitedData
<1> QED BY <1>2, <1>3, <1>4

LEMMA AccountingFollows ==
  ASSUME TypeOK, RootInv, ProgressInv
  PROVE  ChunkAccounting
<1> SUFFICES ASSUME phase = "running", errors = {}
             PROVE  /\ Chunk = bitmap \cup Awaited \cup {queue[k] : k \in DOMAIN queue}
                    /\ Len(queue) = Cardinality(Chunk \ (bitmap \cup Awaited))
                    /\ outstanding = Cardinality(Awaited)
                    /\ bitmap \cap Awaited = {}
                    /\ \A w \in WindowIds : winRecv[w] = Cardinality(Window(w) \cap bitmap)
  BY DEF ChunkAccounting
<1> DEFINE Q == {queue[k] : k \in DOMAIN queue}
           held == bitmap \cup Awaited
<1>1. queue \in Seq(Chunk) /\ bitmap \subseteq Chunk /\ Awaited \subseteq Chunk
      /\ outstanding \in Int /\ Chunks \in Nat
  BY Places, ConstantsAssumption DEF TypeOK, Awaited
<1>2. Chunk = held \cup Q
  BY <1>1 DEF ProgressInv, Covered
<1>3. bitmap \cap Awaited = {} /\ held \cap Q = {}
      /\ \A a, b \in DOMAIN queue : queue[a] = queue[b] => a = b
  BY DEF RootInv, OnePlace
<1>4. Chunk \ held = Q
  BY <1>2, <1>3
<1>5. Len(queue) = Cardinality(Q)
  <2>1. Len(queue) \in Nat /\ DOMAIN queue = 1 .. Len(queue)
        /\ queue = [k \in 1 .. Len(queue) |-> queue[k]]
    BY <1>1
  <2>2. queue \in [1 .. Len(queue) -> Q]
    BY <2>1
  <2>3. queue \in Bijection(1 .. Len(queue), Q)
    BY <1>3, <2>1, <2>2 DEF Bijection, Injection, Surjection, IsInjective
  <2>4. 1 \in Int /\ Len(queue) \in Int
    BY <2>1
  <2>5. IsFiniteSet(1 .. Len(queue)) /\ Cardinality(1 .. Len(queue)) = Len(queue)
    <3>1. IsFiniteSet(1 .. Len(queue)) /\ Cardinality(1 .. Len(queue))
            = IF 1 > Len(queue) THEN 0 ELSE Len(queue) - 1 + 1
      BY <2>4, FS_Interval
    <3> QED BY <2>1, <3>1
  <2>6. ExistsBijection(1 .. Len(queue), Q)
    BY <2>3 DEF ExistsBijection
  <2> QED BY <2>5, <2>6, FS_Bijection
<1>6. Cardinality(Chunk) = Chunks
  <2>1. 0 \in Int /\ Chunks - 1 \in Int
    BY <1>1
  <2>2. Cardinality(0 .. Chunks - 1) = IF 0 > Chunks - 1 THEN 0 ELSE Chunks - 1 - 0 + 1
    BY <2>1, FS_Interval
  <2> QED BY <1>1, <2>2 DEF Chunk
<1>7. outstanding = Cardinality(Awaited)
  <2>1. Cardinality(Chunk \ held) = Cardinality(Chunk) - Cardinality(held)
    <3>1. Chunk \cap held = held
      BY <1>1
    <3>2. Cardinality(Chunk \ held) = Cardinality(Chunk) - Cardinality(Chunk \cap held)
      BY ChunkFinite, FS_Difference
    <3> QED BY <3>1, <3>2
  <2>2. Cardinality(held) = Cardinality(bitmap) + Cardinality(Awaited)
    <3>1. IsFiniteSet(bitmap) /\ IsFiniteSet(Awaited)
          /\ Cardinality(bitmap) \in Nat /\ Cardinality(Awaited) \in Nat
      BY <1>1, ChunkFinite
    <3>2. Cardinality(bitmap \cup Awaited) = Cardinality(bitmap) + Cardinality(Awaited)
                                             - Cardinality(bitmap \cap Awaited)
      BY <3>1, FS_Union
    <3>3. Cardinality(bitmap \cap Awaited) = 0
      BY <1>3, FS_EmptySet
    <3> QED BY <3>1, <3>2, <3>3
  <2>3. outstanding + Len(queue) + Cardinality(bitmap) = Chunks
    BY DEF ProgressInv, Counted
  <2>4. Len(queue) = Chunks - (Cardinality(bitmap) + Cardinality(Awaited))
    BY <1>4, <1>5, <1>6, <2>1, <2>2
  <2>5. Cardinality(bitmap) \in Nat /\ Cardinality(Awaited) \in Nat
    BY <1>1, ChunkFinite
  <2> HIDE DEF held
  <2> QED BY <1>1, <2>3, <2>4, <2>5
<1>8. \A w \in WindowIds : winRecv[w] = Cardinality(Window(w) \cap bitmap)
  BY DEF RootInv, WindowsCounted
<1> QED BY <1>2, <1>3, <1>4, <1>5, <1>7, <1>8

(* The scheduler forgets no chunk and asks for none twice, whatever the    *)
(* limits and the order of delivery: a chunk is held, queued once, or on   *)
(* its way, and the counters of the receiver are right.                    *)
THEOREM ChunkAccountingHolds == Spec => []ChunkAccounting
<1>1. TypeOK /\ RootInv /\ ProgressInv => ChunkAccounting
  BY AccountingFollows
<1> QED BY <1>1, TypeCorrect, RootInvariant, ProgressInvariant, PTL

LEMMA WindowCount ==
  ASSUME TypeOK, RootInv
  PROVE  verified = Windows <=> \A w \in WindowIds : winState[w] = 2
<1> DEFINE S == {w \in WindowIds : winState[w] = 2}
<1>1. Windows \in Nat
  BY ConstantsAssumption DEF Windows
<1>2. IsFiniteSet(WindowIds) /\ Cardinality(WindowIds) = Windows
  <2>1. 0 \in Int /\ Windows - 1 \in Int
    BY <1>1
  <2>2. Cardinality(0 .. Windows - 1) = IF 0 > Windows - 1 THEN 0 ELSE Windows - 1 - 0 + 1
    BY <2>1, FS_Interval
  <2> QED BY <1>1, <2>2, ChunkFinite DEF WindowIds
<1>3. verified = Cardinality(S)
  BY DEF RootInv, WindowsCounted
<1>4. Cardinality(S) = Cardinality(WindowIds) => S = WindowIds
  BY <1>2, FS_Subset
<1> QED BY <1>2, <1>3, <1>4

LEMMA NeverStuckFollows ==
  ASSUME TypeOK, RootInv, ProgressInv
  PROVE  NeverStuck
<1> SUFFICES ASSUME phase = "running", Quiet PROVE allVerified
  BY DEF NeverStuck
<1> USE DEF RootInv, ProgressInv
<1>1. reqs = {} /\ hashReqs = {} /\ serving.next = serving.end /\ datas = {}
      /\ hashReplies = {} /\ errors = {}
  BY DEF Quiet
<1>2. AwaitedReqs = {} /\ AwaitedServing = {}
  <2>1. serving.end \in Int
    <3>1. serving \in [next : 0 .. Chunks, end : 0 .. Chunks] /\ Chunks \in Nat
      BY ConstantsAssumption DEF TypeOK
    <3> QED BY <3>1
  <2> QED BY <1>1, <2>1 DEF AwaitedReqs, AwaitedServing
<1>3. AwaitedData = {}
  <2> SUFFICES ASSUME NEW i \in AwaitedData PROVE FALSE
    OBVIOUS
  <2>1. InBuffer(i) = Piece
    BY <1>1 DEF InBuffer
  <2>2. Cardinality(Piece) = Pieces /\ Pieces \in Nat
    <3>1. 1 \in Int /\ Pieces \in Int /\ Pieces >= 1 /\ Pieces \in Nat
      BY ConstantsAssumption
    <3>2. Cardinality(1 .. Pieces) = IF 1 > Pieces THEN 0 ELSE Pieces - 1 + 1
      BY <3>1, FS_Interval
    <3> QED BY <3>1, <3>2 DEF Piece
  <2>3. partial[i].have = Pieces
    BY <2>1, <2>2 DEF PiecesOnce
  <2>4. i \in Chunk
    BY Places
  <2>5. partial[i].have < Pieces
    BY <2>4 DEF Unfinished
  <2> QED BY <2>2, <2>3, <2>5
<1>4. Awaited = {}
  BY <1>2, <1>3 DEF Awaited
<1>5. queue = <<>>
  <2>1. outstanding = 0
    BY <1>1, <1>4, AccountingFollows, FS_EmptySet DEF ChunkAccounting
  <2> QED BY <2>1, ConstantsAssumption DEF Filled
<1>6. bitmap = Chunk
  <2>1. \A i \in Chunk : i \in bitmap \cup Awaited \/ \E k \in DOMAIN queue : queue[k] = i
    BY <1>1 DEF Covered
  <2>2. DOMAIN queue = {}
    BY <1>5
  <2>3. bitmap \subseteq Chunk
    BY DEF TypeOK
  <2> QED BY <1>4, <2>1, <2>2, <2>3
<1>7. \A w \in WindowIds : winState[w] = 2
  <2> SUFFICES ASSUME NEW w \in WindowIds PROVE winState[w] = 2
    OBVIOUS
  <2>1. Window(w) \subseteq bitmap
    BY <1>6, WindowFacts
  <2>2. winState[w] # 0 /\ winState[w] # 1
    BY <1>1, <2>1 DEF Asked
  <2>3. winState[w] \in 0 .. 2
    BY DEF TypeOK
  <2> QED BY <2>2, <2>3
<1> QED BY <1>6, <1>7, WindowCount DEF allVerified

(* No state is reachable in which the receiver waits for chunks or hashes  *)
(* that neither the stream nor the host will bring: the scheduler of       *)
(* requests, retries and HASH-REQs has no deadlock, for any file and any   *)
(* limits.                                                                 *)
THEOREM NeverStuckHolds == Spec => []NeverStuck
<1>1. TypeOK /\ RootInv /\ ProgressInv => NeverStuck
  BY NeverStuckFollows
<1> QED BY <1>1, TypeCorrect, RootInvariant, ProgressInvariant, PTL

LEMMA TimeoutHeldLast ==
  ASSUME TypeOK, RootInv, ProgressInv, DoneTimeout
  PROVE  heldLast
<1> USE DEF ProgressInv
<1>1. phase = "running" /\ allVerified /\ root = None /\ dones = {} /\ hashReqs = {}
  BY DEF DoneTimeout, Quiet
<1>2. \A w \in WindowIds : winState[w] = 2
  BY <1>1, WindowCount DEF allVerified
<1>3. ~doneSent
  BY <1>1 DEF DoneOwed
<1>4. ~lastRequested /\ Chunks # 0
  BY <1>1, <1>2, <1>3 DEF DoneOwed, NotAnswered
<1>5. Chunks - 1 \in bitmap
  BY <1>1, <1>4, ConstantsAssumption DEF allVerified, Chunk
<1> QED BY <1>1, <1>4, <1>5 DEF LastServed

(* doneTimer ends a run, with everything verified, only if the run began   *)
(* with the last chunk already in the sidecar.                             *)
THEOREM UnconfirmedHolds == Spec => []UnconfirmedOnlyOnResume
<1>1. Init => UnconfirmedOnlyOnResume
  BY DEF Init, UnconfirmedOnlyOnResume
<1>2. TypeOK /\ RootInv /\ ProgressInv /\ UnconfirmedOnlyOnResume /\ [Next]_vars
      => UnconfirmedOnlyOnResume'
  <2> SUFFICES ASSUME TypeOK, RootInv, ProgressInv, UnconfirmedOnlyOnResume,
                      [Next]_vars, outcome' = "unconfirmed"
               PROVE  heldLast'
    BY DEF UnconfirmedOnlyOnResume
  <2>1. CASE DoneTimeout
    BY <2>1, TimeoutHeldLast DEF DoneTimeout, FailRun
  <2>2. CASE OnHashGiveUp \/ OnError \/ StreamLost \/ StartRun \/ Crash \/ CrashInWriteChunk
    BY <2>2 DEF OnHashGiveUp, OnError, StreamLost, StartRun, Crash, CrashInWriteChunk,
                FailRun
  <2>3. CASE CheckRoot
    BY <2>3 DEF CheckRoot, FailRun, UnconfirmedOnlyOnResume
  <2>4. CASE UNCHANGED <<outcome, heldLast>>
    BY <2>4 DEF UnconfirmedOnlyOnResume
  <2>5. CASE OnDataPart \/ OnDataChunk \/ OnHashGood \/ OnHashBad \/ OnDone \/ DeletePartial
    BY <2>4, <2>5 DEF OnDataPart, OnDataChunk, OnHashGood, OnHashBad, OnDone,
                      DeletePartial
  <2>6. CASE \/ TakeReq \/ ServeChunk \/ RefuseChunk \/ ServeHashReq
             \/ OtherSessionReads \/ Stop \/ EditFile \/ HostRestart \/ UNCHANGED vars
    BY <2>4, <2>6 DEF TakeReq, ServeChunk, RefuseChunk, ServeHashReq,
                      OtherSessionReads, Stop, EditFile, HostRestart, vars
  <2> QED BY <2>1, <2>2, <2>3, <2>5, <2>6 DEF Next, ReceiverNext, HostNext
<1> QED
  BY <1>1, <1>2, TypeCorrect, RootInvariant, ProgressInvariant, PTL DEF Spec
-----------------------------------------------------------------------------
(* What is on disk when the download is done *)

(* A hash that is recorded for chunk i is that of the bytes on disk, or it *)
(* is outdated and the host will say so.                                   *)
Sound(i, h) ==
  \/ h = Sum(disk[i])
  \/ /\ h # Sum(Whole(file[i]))
     /\ i \in srcHave => srcHash[i] = Sum(Whole(file[i]))

(* The host has rejected what the sidecar says of chunk i, and the chunk   *)
(* comes again from the file as it is now.                                 *)
Rejected(i) ==
  /\ i \in srcHave /\ sidecar.hashes[i] # srcHash[i]
  /\ i \in AwaitedData => FrameOf(i, file[i])

(* What memory and the sidecar say of the disk, and how they may differ.   *)
MemoryTrue == \A i \in bitmap : Sound(i, hashes[i])
SidecarTrue ==
  sidecar # None => \A i \in sidecar.bitmap :
    /\ Sound(i, sidecar.hashes[i])
    /\ phase = "running" =>
         (i \in bitmap /\ sidecar.hashes[i] = hashes[i]) \/ Rejected(i)
DiskTrue == deletes = 0 /\ edits <= 1 => MemoryTrue /\ SidecarTrue

LEMMA SoundKept ==
  ASSUME TypeOK, [Next]_vars, file' = file, NEW i, disk'[i] = disk[i],
         NEW h, Sound(i, h)
  PROVE  Sound(i, h)'
<1>1. i \in srcHave' => (i \in srcHave /\ srcHash'[i] = srcHash[i])
                        \/ srcHash'[i] = Sum(Whole(file[i]))
  BY CacheEntry
<1> QED BY <1>1 DEF Sound, Sum, Whole

(* A chunk that is held is not on its way. *)
LEMMA HeldNotAwaited ==
  ASSUME RootInv, NEW i \in bitmap
  PROVE  i \notin AwaitedData
  BY DEF RootInv, OnePlace, Awaited

(* What the host has rejected comes again from the file as it is now.      *)
LEMMA RejectedKept ==
  ASSUME TypeOK, RootInv, [Next]_vars, phase = "running", file' = file,
         sidecar' = sidecar, NEW i, i \in srcHave, sidecar.hashes[i] # srcHash[i],
         i \in AwaitedData => FrameOf(i, file[i])
  PROVE  Rejected(i)'
<1>1. i \in srcHave' /\ srcHash'[i] = srcHash[i]
  BY CacheEntry
<1>2. ASSUME i \in AwaitedData' PROVE FrameOf(i, file[i])'
  <2>1. PICK x : x = file[i]
    OBVIOUS
  <2>2. FrameOf(i, x)'
    BY <1>2, <2>1, FrameStep
  <2>3. x = file'[i]
    BY <2>1
  <2> QED BY <2>2, <2>3 DEF FrameOf, InBuffer
<1> QED BY <1>1, <1>2 DEF Rejected

(* A step that writes neither the disk nor the sidecar keeps DiskTrue if it*)
(* lets go only of chunks the host has rejected.                           *)
LEMMA DiskKept ==
  ASSUME TypeOK, RootInv, MemoryTrue, SidecarTrue, [Next]_vars,
         file' = file, disk' = disk, sidecar' = sidecar,
         bitmap' \subseteq bitmap, bitmap' # {} => hashes' = hashes,
         phase' = "running" =>
           /\ phase = "running" /\ hashes' = hashes
           /\ \A i \in bitmap \ bitmap' : i \in srcHave /\ hashes[i] # srcHash[i]
  PROVE  MemoryTrue' /\ SidecarTrue'
<1>1. \A i \in bitmap' : Sound(i, hashes[i])'
  <2> SUFFICES ASSUME NEW i \in bitmap' PROVE Sound(i, hashes[i])'
    OBVIOUS
  <2>1. PICK h : h = hashes[i]
    OBVIOUS
  <2>2. Sound(i, h)'
    BY <2>1, SoundKept DEF MemoryTrue
  <2>3. hashes'[i] = h
    BY <2>1
  <2> QED BY <2>2, <2>3 DEF Sound
<1>2. ASSUME sidecar' # None, NEW i \in sidecar'.bitmap
      PROVE  Sound(i, sidecar.hashes[i])'
  <2>1. PICK h : h = sidecar.hashes[i]
    OBVIOUS
  <2>2. Sound(i, h)'
    BY <1>2, <2>1, SoundKept DEF SidecarTrue
  <2>3. sidecar'.hashes[i] = h
    BY <2>1
  <2> QED BY <2>2, <2>3 DEF Sound
<1>3. ASSUME sidecar' # None, NEW i \in sidecar'.bitmap, phase' = "running"
      PROVE  (i \in bitmap' /\ sidecar'.hashes[i] = hashes'[i]) \/ Rejected(i)'
  <2>1. (i \in bitmap /\ sidecar.hashes[i] = hashes[i]) \/ Rejected(i)
    BY <1>3 DEF SidecarTrue
  <2>2. CASE Rejected(i)
    BY <1>3, <2>2, RejectedKept DEF Rejected
  <2>3. CASE i \in bitmap /\ i \notin bitmap' /\ sidecar.hashes[i] = hashes[i]
    BY <1>3, <2>3, RejectedKept, HeldNotAwaited
  <2> QED BY <1>3, <2>1, <2>2, <2>3
<1> QED BY <1>1, <1>2, <1>3 DEF MemoryTrue, SidecarTrue

(* OpenSink: memory and the sidecar agree.                                 *)
LEMMA DiskOpened ==
  ASSUME TypeOK, SidecarTrue, [Next]_vars, StartRun
  PROVE  MemoryTrue' /\ SidecarTrue'
<1> DEFINE open == OpenSink
<1>1. /\ bitmap' = open.bitmap /\ hashes' = open.hashes
      /\ sidecar' = SaveSidecar(open.bitmap, open.hashes)
      /\ file' = file /\ disk' = disk
  BY DEF StartRun
<1>2. ASSUME NEW i \in open.bitmap, NEW h, h = open.hashes[i]
      PROVE  Sound(i, h)'
  <2>1. sidecar # None /\ open = sidecar
    BY <1>2 DEF OpenSink, SaveSidecar
  <2>2. Sound(i, h)
    BY <1>2, <2>1 DEF SidecarTrue
  <2> QED BY <1>1, <2>2, SoundKept
<1> HIDE DEF open
<1>3. sidecar'.bitmap = bitmap' /\ sidecar'.hashes = hashes'
  BY <1>1 DEF SaveSidecar
<1>4. ASSUME NEW i \in bitmap' PROVE Sound(i, hashes[i])'
  <2>1. PICK h : h = open.hashes[i]
    OBVIOUS
  <2>2. Sound(i, h)' /\ hashes'[i] = h
    BY <1>1, <1>2, <1>4, <2>1
  <2> QED BY <2>2 DEF Sound
<1> QED BY <1>3, <1>4 DEF MemoryTrue, SidecarTrue, Sound

(* Suspend saves what memory holds.                                        *)
LEMMA DiskSuspended ==
  ASSUME TypeOK, MemoryTrue, [Next]_vars, NEW why,
         NEW b \in SUBSET bitmap, FailRun(why, b)
  PROVE  MemoryTrue' /\ SidecarTrue'
<1>1. /\ bitmap' = {} /\ phase' = "idle" /\ file' = file /\ disk' = disk
      /\ sidecar' = SaveSidecar(b, hashes)
  BY DEF FailRun, Forget
<1>2. ASSUME NEW i \in sidecar'.bitmap PROVE Sound(i, sidecar.hashes[i])'
  <2>1. PICK h : h = hashes[i]
    OBVIOUS
  <2>2. i \in b
    BY <1>1, <1>2 DEF SaveSidecar
  <2>3. Sound(i, h)
    BY <2>1, <2>2 DEF MemoryTrue
  <2>4. Sound(i, h)'
    BY <1>1, <2>3, SoundKept
  <2>5. sidecar'.hashes[i] = h
    BY <1>1, <2>1 DEF SaveSidecar
  <2> QED BY <2>4, <2>5 DEF Sound
<1> QED BY <1>1, <1>2 DEF MemoryTrue, SidecarTrue

(* A chunk the sidecar holds and the stream brings again: what is written  *)
(* over it, all of it or a part, leaves the sidecar's hash true, or known  *)
(* to the host as outdated.                                                *)
LEMMA RewriteSound ==
  ASSUME TypeOK, RootInv, SidecarTrue, NEW o, Versions(o), [Next]_vars,
         file' = file, sidecar # None, phase = "running",
         NEW d \in datas, partial[d.index].have + 1 >= Pieces,
         d.index \in sidecar.bitmap,
         NEW new \in SUBSET Piece,
         disk' = [disk EXCEPT ![d.index] =
           [k \in Piece |-> IF k \in new THEN Assembled(d)[k] ELSE disk[d.index][k]]],
         NEW h, h = sidecar.hashes[d.index]
  PROVE  Sound(d.index, h)'
<1> DEFINE i == d.index
<1>1. i \in Chunk /\ i \in AwaitedData /\ i \notin bitmap
  BY HeldNotAwaited DEF TypeOK, AwaitedData
<1>2. Rejected(i)
  BY <1>1 DEF SidecarTrue
<1>3. Assembled(d) = Whole(file[i])
  BY <1>1, <1>2, AssembledOf DEF Rejected
<1>4. h \in Either(i, o) /\ srcHash[i] \in Either(i, o) /\ h # srcHash[i] /\ i \in srcHave
  BY <1>2 DEF Versions, HeldOf, CacheOf, Rejected
<1>5. i \in srcHave' /\ srcHash'[i] = srcHash[i]
  BY <1>4, CacheEntry
<1>6. CASE h # Sum(Whole(file[i]))
  <2>1. srcHash'[i] = Sum(Whole(file[i]))
    BY <1>4, <1>5, <1>6 DEF Either
  <2> QED BY <1>6, <2>1 DEF Sound, Sum, Whole
<1>7. CASE h = Sum(Whole(file[i]))
  <2>1. \A k \in Piece : Assembled(d)[k] = file[i]
    BY <1>3 DEF Whole
  <2>2. \A k \in Piece : disk[i][k] = file[i]
    <3>1. Sum(disk[i]) = Sum(Whole(file[i]))
      BY <1>7 DEF SidecarTrue, Sound
    <3>2. disk[i] = Whole(file[i])
      BY <3>1, SumInjective
    <3> QED BY <3>2 DEF Whole
  <2>3. disk \in [Chunk -> Data]
    BY DEF TypeOK
  <2>4. disk'[i] = [k \in Piece |-> IF k \in new THEN Assembled(d)[k] ELSE disk[i][k]]
    BY <1>1, <2>3
  <2>5. disk'[i] = Whole(file[i])
    BY <2>1, <2>2, <2>4 DEF Whole
  <2> QED BY <1>7, <2>5 DEF Sound, Sum
<1> QED BY <1>6, <1>7

(* WriteChunk: the new chunk is on disk as hashed, and the others as before.*)
LEMMA DiskWritten ==
  ASSUME TypeOK, RootInv, MemoryTrue, SidecarTrue, NEW o, Versions(o),
         [Next]_vars, OnDataChunk
  PROVE  MemoryTrue' /\ SidecarTrue'
<1>1. PICK d \in datas :
        /\ partial[d.index].have + 1 >= Pieces
        /\ disk' = [disk EXCEPT ![d.index] = Assembled(d)]
        /\ hashes' = [hashes EXCEPT ![d.index] = Sum(Assembled(d))]
        /\ bitmap' = bitmap \cup {d.index}
        /\ \/ sidecar' = SaveSidecar(bitmap', hashes')
           \/ sidecar' = sidecar
  BY DEF OnDataChunk, Written
<1>2. /\ d.index \in Chunk /\ d.index \notin bitmap
      /\ file' = file /\ phase = "running" /\ phase' = "running"
      /\ disk \in [Chunk -> Data] /\ hashes \in [Chunk -> Hash \cup {None}]
  <2>1. d.index \in Chunk /\ d.index \in AwaitedData
    BY DEF TypeOK, AwaitedData
  <2>2. d.index \notin bitmap
    BY <2>1, HeldNotAwaited
  <2>3. file' = file /\ phase = "running" /\ phase' = "running"
    BY DEF OnDataChunk
  <2> QED BY <2>1, <2>2, <2>3 DEF TypeOK
<1>3. /\ disk'[d.index] = Assembled(d) /\ hashes'[d.index] = Sum(Assembled(d))
      /\ \A i : i # d.index => disk'[i] = disk[i]
      /\ \A i \in bitmap : hashes'[i] = hashes[i]
  BY <1>1, <1>2 DEF TypeOK
<1>4. ASSUME NEW i \in bitmap' PROVE Sound(i, hashes[i])'
  <2>1. CASE i = d.index
    BY <1>3, <2>1 DEF Sound, Sum
  <2>2. CASE i # d.index
    <3>1. PICK h : h = hashes[i]
      OBVIOUS
    <3>2. Sound(i, h)
      BY <1>1, <1>4, <2>2, <3>1 DEF MemoryTrue
    <3>3. Sound(i, h)'
      BY <1>2, <1>3, <2>2, <3>2, SoundKept
    <3>4. hashes'[i] = h
      BY <1>1, <1>3, <1>4, <2>2, <3>1
    <3> QED BY <3>3, <3>4 DEF Sound
  <2> QED BY <2>1, <2>2
<1>5. CASE sidecar' = SaveSidecar(bitmap', hashes')
  BY <1>4, <1>5 DEF MemoryTrue, SidecarTrue, Sound, SaveSidecar
<1>6. CASE sidecar' = sidecar
  <2> SUFFICES ASSUME sidecar # None, NEW i \in sidecar.bitmap
               PROVE  /\ Sound(i, sidecar.hashes[i])'
                      /\ (i \in bitmap' /\ sidecar'.hashes[i] = hashes'[i]) \/ Rejected(i)'
    BY <1>4, <1>6 DEF MemoryTrue, SidecarTrue
  <2>1. PICK h : h = sidecar.hashes[i]
    OBVIOUS
  <2>2. Sound(i, h)'
    <3>1. CASE i # d.index
      BY <1>2, <1>3, <2>1, <3>1, SoundKept DEF SidecarTrue
    <3>2. CASE i = d.index
      <4>1. PICK new \in SUBSET Piece : new = Piece
        OBVIOUS
      <4>2. [k \in Piece |-> IF k \in new THEN Assembled(d)[k] ELSE disk[d.index][k]]
            = Assembled(d)
        <5>1. Assembled(d) \in Data
          BY <1>2 DEF Assembled, TypeOK, Data
        <5> QED BY <4>1, <5>1 DEF Data
      <4> QED BY <1>1, <1>2, <2>1, <3>2, <4>2, RewriteSound
    <3> QED BY <3>1, <3>2
  <2>3. sidecar'.hashes[i] = h
    BY <1>6, <2>1
  <2>4. (i \in bitmap /\ sidecar.hashes[i] = hashes[i]) \/ Rejected(i)
    BY <1>2 DEF SidecarTrue
  <2>5. CASE Rejected(i)
    BY <1>2, <1>6, <2>2, <2>3, <2>5, RejectedKept DEF Rejected, Sound
  <2>6. CASE i \in bitmap /\ sidecar.hashes[i] = hashes[i]
    BY <1>1, <1>3, <1>6, <2>2, <2>3, <2>6 DEF Sound
  <2> QED BY <2>4, <2>5, <2>6
<1> QED BY <1>1, <1>5, <1>6

(* A write that a crash cut short: memory is gone, the sidecar stays true. *)
LEMMA DiskTorn ==
  ASSUME TypeOK, RootInv, SidecarTrue, NEW o, Versions(o),
         [Next]_vars, CrashInWriteChunk
  PROVE  MemoryTrue' /\ SidecarTrue'
<1>1. PICK d \in datas, new \in SUBSET Piece :
        /\ partial[d.index].have + 1 >= Pieces
        /\ disk' = [disk EXCEPT ![d.index] =
             [k \in Piece |-> IF k \in new THEN Assembled(d)[k] ELSE disk[d.index][k]]]
  BY DEF CrashInWriteChunk
<1>2. /\ d.index \in Chunk /\ disk \in [Chunk -> Data] /\ bitmap' = {}
      /\ file' = file /\ sidecar' = sidecar /\ phase = "running" /\ phase' = "idle"
  BY DEF TypeOK, CrashInWriteChunk, Forget
<1>3. ASSUME sidecar # None, NEW i \in sidecar.bitmap
      PROVE  Sound(i, sidecar.hashes[i])'
  <2>1. PICK h : h = sidecar.hashes[i]
    OBVIOUS
  <2>2. Sound(i, h)'
    <3>1. CASE i # d.index
      <4>1. disk'[i] = disk[i]
        BY <1>1, <1>2, <3>1
      <4> QED BY <1>2, <1>3, <2>1, <4>1, SoundKept DEF SidecarTrue
    <3>2. CASE i = d.index
      BY <1>1, <1>2, <1>3, <2>1, <3>2, RewriteSound
    <3> QED BY <3>1, <3>2
  <2>3. sidecar'.hashes[i] = h
    BY <1>2, <2>1
  <2> QED BY <2>2, <2>3 DEF Sound
<1> QED BY <1>2, <1>3 DEF MemoryTrue, SidecarTrue

LEMMA DiskStep ==
  ASSUME TypeOK, RootInv, MemoryTrue, SidecarTrue, NEW o, Versions(o),
         [Next]_vars, file' = file, ~DeletePartial
  PROVE  MemoryTrue' /\ SidecarTrue'
<1>1. ASSUME UNCHANGED <<disk, sidecar, bitmap, hashes>>,
             phase' = "running" => phase = "running"
      PROVE  MemoryTrue' /\ SidecarTrue'
  BY <1>1, DiskKept
<1>2. CASE StartRun
  BY <1>2, DiskOpened
<1>3. CASE OnDataChunk
  BY <1>3, DiskWritten
<1>4. CASE CrashInWriteChunk
  BY <1>4, DiskTorn
<1>5. CASE Crash
  <2>1. /\ bitmap' = {} /\ phase' = "idle" /\ disk' = disk /\ sidecar' = sidecar
    BY <1>5 DEF Crash, Forget
  <2> QED BY <2>1, DiskKept
<1>6. CASE OnHashGiveUp
  <2>1. PICK h \in hashReplies : FailRun("gaveup", bitmap \ Verify(h))
    BY <1>6 DEF OnHashGiveUp
  <2>2. bitmap \ Verify(h) \in SUBSET bitmap
    OBVIOUS
  <2> QED BY <2>1, <2>2, DiskSuspended
<1>7. CASE OnError \/ DoneTimeout \/ StreamLost
  <2>1. \E why \in Outcomes : FailRun(why, bitmap)
    BY <1>7 DEF OnError, DoneTimeout, StreamLost, Outcomes
  <2> QED BY <2>1, DiskSuspended
<1>8. CASE CheckRoot
  <2>1. CASE Root(hashes) = root
    <3>1. /\ sidecar' = None /\ phase' = "done" /\ disk' = disk
          /\ bitmap' = bitmap /\ hashes' = hashes
      BY <1>8, <2>1 DEF CheckRoot
    <3>2. ASSUME NEW i \in bitmap' PROVE Sound(i, hashes[i])'
      <4>1. PICK h : h = hashes[i]
        OBVIOUS
      <4>2. Sound(i, h)'
        BY <3>1, <3>2, <4>1, SoundKept DEF MemoryTrue
      <4>3. hashes'[i] = h
        BY <3>1, <4>1
      <4> QED BY <4>2, <4>3 DEF Sound
    <3> QED BY <3>1, <3>2 DEF MemoryTrue, SidecarTrue
  <2>2. CASE Root(hashes) # root
    BY <1>8, <2>2, DiskSuspended DEF CheckRoot
  <2> QED BY <2>1, <2>2
<1>9. CASE OnHashBad
  <2>1. PICK h \in hashReplies : bitmap' = bitmap \ Verify(h)
    BY <1>9 DEF OnHashBad
  <2>2. UNCHANGED <<disk, sidecar, hashes, phase>> /\ phase = "running"
    BY <1>9 DEF OnHashBad
  <2>3. ASSUME NEW i \in Verify(h) PROVE i \in srcHave /\ hashes[i] # srcHash[i]
    BY <2>3 DEF Verify, RootInv, RepliesFromCache
  <2>4. \A i \in bitmap \ bitmap' : i \in srcHave /\ hashes[i] # srcHash[i]
    BY <2>1, <2>3
  <2>5. bitmap' \subseteq bitmap
    BY <2>1
  <2> QED BY <2>2, <2>4, <2>5, DiskKept
<1>10. CASE OnDataPart \/ OnHashGood \/ OnDone
  BY <1>1, <1>10 DEF OnDataPart, OnHashGood, OnDone
<1>11. CASE \/ TakeReq \/ ServeChunk \/ RefuseChunk \/ ServeHashReq
            \/ OtherSessionReads \/ Stop \/ EditFile \/ HostRestart \/ UNCHANGED vars
  BY <1>1, <1>11 DEF TakeReq, ServeChunk, RefuseChunk, ServeHashReq,
                     OtherSessionReads, Stop, EditFile, HostRestart, vars
<1> QED
  BY <1>2, <1>3, <1>4, <1>5, <1>6, <1>7, <1>8, <1>9, <1>10, <1>11
  DEF Next, ReceiverNext, HostNext

(* The first edit: nothing was outdated before it, so memory and the       *)
(* sidecar have the hashes of the disk itself.                             *)
LEMMA DiskEdited ==
  ASSUME TypeOK, RootInv, MemoryTrue, SidecarTrue, Versions(file), EditFile
  PROVE  MemoryTrue' /\ SidecarTrue'
<1>1. UNCHANGED <<disk, sidecar, bitmap, hashes, phase>>
  BY DEF EditFile
<1>2. \A i \in bitmap : hashes[i] = Sum(disk[i])
  BY DEF Versions, HeldOf, Either, MemoryTrue, Sound
<1>3. ASSUME sidecar # None, NEW i \in sidecar.bitmap
      PROVE  /\ sidecar.hashes[i] = Sum(disk[i])
             /\ phase = "running" => i \in bitmap /\ sidecar.hashes[i] = hashes[i]
  <2>1. sidecar.hashes[i] = Sum(Whole(file[i]))
    BY <1>3 DEF Versions, HeldOf, Either
  <2>2. i \in srcHave => srcHash[i] = Sum(Whole(file[i]))
    BY DEF Versions, CacheOf, Either
  <2>3. ~Rejected(i)
    BY <2>1, <2>2 DEF Rejected
  <2> QED BY <1>3, <2>1, <2>3 DEF SidecarTrue, Sound
<1> QED BY <1>1, <1>2, <1>3 DEF MemoryTrue, SidecarTrue, Sound, Sum

(* What is recorded of a chunk, in memory or in the sidecar, is the hash of*)
(* its bytes on disk, or is one the host has disowned.                     *)
LEMMA DiskInvariant == Spec => []DiskTrue
<1>1. Init => DiskTrue
  BY DEF Init, DiskTrue, MemoryTrue, SidecarTrue
<1>2. TypeOK /\ RootInv /\ Unedited /\ TwoVersions /\ DiskTrue /\ [Next]_vars
      => DiskTrue'
  <2> SUFFICES ASSUME TypeOK, RootInv, Unedited, TwoVersions, DiskTrue, [Next]_vars,
                      deletes' = 0, edits' <= 1
               PROVE  MemoryTrue' /\ SidecarTrue'
    BY DEF DiskTrue
  <2>1. edits \in Nat /\ deletes \in Nat
    BY DEF TypeOK
  <2>2. ~DeletePartial /\ deletes = 0
    BY <2>1, OnlyEditsChange
  <2>3. CASE EditFile
    <3>1. edits = 0
      BY <2>1, <2>3, OnlyEditsChange
    <3> QED BY <2>2, <2>3, <3>1, DiskEdited DEF DiskTrue, Unedited
  <2>4. CASE ~EditFile
    <3>1. file' = file /\ edits <= 1
      BY <2>4, OnlyEditsChange
    <3>2. PICK o \in [Chunk -> Val] : Versions(o)
      BY <3>1 DEF TwoVersions
    <3> QED BY <2>2, <3>1, <3>2, DiskStep DEF DiskTrue
  <2> QED BY <2>3, <2>4
<1> QED BY <1>1, <1>2, TypeCorrect, RootInvariant, VersionsInvariant, PTL DEF Spec

(* Once every window is verified no hash is outdated.                      *)
LEMMA VerifiedOnDisk ==
  ASSUME TypeOK, RootInv, MemoryTrue, allVerified
  PROVE  DiskRoot = Root(hashes)
<1>1. bitmap = Chunk /\ \A w \in WindowIds : winState[w] = 2
  BY WindowCount DEF allVerified
<1>2. ASSUME NEW i \in Chunk PROVE hashes[i] = Sum(disk[i])
  <2>1. PICK w \in WindowIds : i \in Window(w)
    BY WindowOfFacts
  <2>2. i \in srcHave /\ hashes[i] = srcHash[i]
    <3>1. winState[w] = 2 => \A j \in Window(w) : j \in srcHave /\ hashes[j] = srcHash[j]
      BY DEF RootInv, WindowsCounted
    <3> QED BY <1>1, <2>1, <3>1
  <2> QED BY <1>1, <2>2 DEF MemoryTrue, Sound
<1>3. hashes = [i \in Chunk |-> Sum(disk[i])]
  <2>1. hashes \in [Chunk -> Hash \cup {None}]
    BY DEF TypeOK
  <2> QED BY <1>2, <2>1
<1> QED BY <1>3 DEF DiskRoot

(* "Download complete" is never said of other bytes than those the host    *)
(* vouched for: with a crash at any point of a write, resumed runs, one    *)
(* edit, and restarts of the host, the hashes of the bytes on disk make up *)
(* the root that came with DONE.                                           *)
THEOREM IntegrityHolds == Spec => []Integrity
<1>1. Init => Integrity
  BY DEF Init, Integrity
<1>2. TypeOK /\ TypeOK' /\ RootInv /\ DiskTrue /\ Integrity /\ [Next]_vars
      => Integrity'
  <2> SUFFICES ASSUME TypeOK, RootInv, DiskTrue, Integrity, [Next]_vars,
                      TypeOK', phase' = "done", deletes' = 0, edits' <= 1
               PROVE  DiskRoot' = root'
    BY DEF Integrity
  <2>1. edits \in Nat /\ deletes \in Nat
    BY DEF TypeOK
  <2>2. deletes = 0 /\ edits <= 1
    BY <2>1, OnlyEditsChange
  <2>3. CASE CheckRoot
    <3>1. /\ allVerified /\ Root(hashes) = root
          /\ UNCHANGED <<root, disk>>
      BY <2>3 DEF CheckRoot, finished, FailRun
    <3> QED BY <2>2, <3>1, VerifiedOnDisk DEF DiskTrue, DiskRoot
  <2>4. CASE phase = "done" /\ UNCHANGED <<root, disk>>
    BY <2>2, <2>4 DEF Integrity, DiskRoot
  <2>5. CASE StartRun \/ Crash \/ CrashInWriteChunk \/ DeletePartial \/ HostRestart
    BY <2>5 DEF StartRun, Crash, CrashInWriteChunk, DeletePartial, HostRestart
  <2>6. CASE OnHashGiveUp \/ OnError \/ DoneTimeout \/ StreamLost
    BY <2>6 DEF OnHashGiveUp, OnError, DoneTimeout, StreamLost, FailRun
  <2>7. CASE OnDataPart \/ OnDataChunk \/ OnHashGood \/ OnHashBad \/ OnDone
    BY <2>7 DEF OnDataPart, OnDataChunk, OnHashGood, OnHashBad, OnDone
  <2>8. CASE TakeReq \/ ServeChunk \/ RefuseChunk \/ ServeHashReq
    BY <2>8 DEF TakeReq, ServeChunk, RefuseChunk, ServeHashReq, HostIdle
  <2>9. CASE OtherSessionReads \/ Stop \/ EditFile \/ UNCHANGED vars
    BY <2>4, <2>9 DEF OtherSessionReads, Stop, EditFile, vars
  <2> QED BY <2>3, <2>5, <2>6, <2>7, <2>8, <2>9 DEF Next, ReceiverNext, HostNext
<1> QED
  BY <1>1, <1>2, TypeCorrect, RootInvariant, DiskInvariant, PTL DEF Spec
-----------------------------------------------------------------------------
(* A run does not go on for ever *)

(* One DONE, and none before it was decided on; with no chunks at all, one *)
(* HASH-REQ and one answer.                                                *)
OnlyOnce ==
  /\ dones # {} => doneSent
  /\ Chunks = 0 /\ 0 \in hashReqs => hashReplies = {}

(* What WorkRunsOut says of one step. *)
UsesUp ==
  (phase = "running" /\ phase' = "running"
     /\ <<sessionVars, toHost, toPeer, schedVars>>' # <<sessionVars, toHost, toPeer, schedVars>>) =>
    \/ AttemptsLeft' \subseteq AttemptsLeft /\ AttemptsLeft' # AttemptsLeft
    \/ /\ AttemptsLeft' = AttemptsLeft /\ WorkLeft' # WorkLeft
       /\ \A k \in DOMAIN WorkLeft : WorkLeft'[k] \subseteq WorkLeft[k]

(* The seven sets of WorkLeft, one by one. *)
LEMMA WorkParts ==
  ASSUME attempts' = attempts,
         ToAsk' \subseteq ToAsk, ToTake' \subseteq ToTake, ToServe' \subseteq ToServe,
         ToReceive' \subseteq ToReceive, ToHash' \subseteq ToHash,
         ToVerify' \subseteq ToVerify, ToConfirm' \subseteq ToConfirm,
         \/ ToTake' # ToTake \/ ToServe' # ToServe \/ ToReceive' # ToReceive
         \/ ToHash' # ToHash \/ ToVerify' # ToVerify \/ ToConfirm' # ToConfirm
  PROVE  UsesUp
<1>1. AttemptsLeft' = AttemptsLeft
  BY DEF AttemptsLeft
<1>2. /\ WorkLeft = <<ToAsk, ToTake, ToServe, ToReceive, ToHash, ToVerify, ToConfirm>>
      /\ WorkLeft' = <<ToAsk', ToTake', ToServe', ToReceive', ToHash', ToVerify', ToConfirm'>>
  BY Zenon DEF WorkLeft
<1>a. DOMAIN WorkLeft = 1 .. 7
  BY <1>2
<1>3. \A k \in DOMAIN WorkLeft : WorkLeft'[k] \subseteq WorkLeft[k]
  BY <1>2, <1>a
<1>4. WorkLeft' # WorkLeft
  BY <1>2
<1> QED BY <1>1, <1>3, <1>4, Zenon DEF UsesUp

(* fill moves chunks from the queue to REQs, and brings in no others. *)
LEMMA FillLess ==
  ASSUME TypeOK, fill(queue, outstanding, reqs) \/ fill(queue, outstanding - 1, reqs)
                  \/ (queue' = queue /\ reqs' = reqs)
  PROVE  ToAsk' \subseteq ToAsk /\ ToTake' \subseteq ToTake
<1>0. queue \in Seq(Chunk) /\ outstanding \in Int /\ outstanding <= InFlight
      /\ outstanding - 1 \in Int /\ outstanding - 1 <= InFlight
  BY ConstantsAssumption DEF TypeOK
<1>1. ASSUME NEW out \in Int, out <= InFlight, fill(queue, out, reqs)
      PROVE  ToAsk' \subseteq ToAsk /\ AwaitedReqs' \subseteq ToTake
  <2> DEFINE k == FillCount(queue, out)
  <2>1. /\ k \in 0 .. Len(queue) /\ reqs' = reqs \cup FillReqs(queue, k)
        /\ \A a \in DOMAIN queue' : a + k \in DOMAIN queue /\ queue'[a] = queue[a + k]
    BY <1>0, <1>1, FillFacts
  <2> HIDE DEF k
  <2>2. ToAsk' \subseteq ToAsk
    BY <2>1 DEF ToAsk
  <2>3. ASSUME NEW r \in FillReqs(queue, k), NEW i \in ReqChunks(r)
        PROVE  i \in ToAsk
    <3>1. PICK a, b \in 1 .. k : i - queue[a] + a \in a .. b /\ queue[i - queue[a] + a] = i
      BY <1>0, <2>1, RunFacts
    <3>2. i - queue[a] + a \in DOMAIN queue
      BY <1>0, <2>1, <3>1
    <3> QED BY <3>1, <3>2 DEF ToAsk
  <2>4. AwaitedReqs' \subseteq ToTake
    BY <2>1, <2>3 DEF AwaitedReqs, ToTake, ReqChunks
  <2> QED BY <2>2, <2>4
<1>2. ASSUME queue' = queue, reqs' = reqs
      PROVE  ToAsk' \subseteq ToAsk /\ AwaitedReqs' \subseteq ToTake
  BY <1>2 DEF ToAsk, AwaitedReqs, ToTake, ReqChunks
<1>3. ToAsk' \subseteq ToAsk /\ AwaitedReqs' \subseteq ToTake
  BY <1>0, <1>1, <1>2
<1> QED BY <1>3 DEF ToTake

(* A step that leaves the places of chunks alone, or empties some.         *)
LEMMA ServeLess ==
  ASSUME ToTake' \subseteq ToTake, serving' = serving, datas' \subseteq datas
  PROVE  ToServe' \subseteq ToServe /\ ToReceive' \subseteq ToReceive
<1>1. ToServe' \subseteq ToServe
  BY DEF ToServe, AwaitedServing
<1> QED BY <1>1 DEF ToReceive

LEMMA OtherLess ==
  ASSUME UNCHANGED <<hashReqs, hashReplies, winState>>
  PROVE  ToHash' = ToHash /\ ToVerify' = ToVerify
  BY DEF ToHash, ToVerify

(* A chunk whose pieces arrive is not to be asked for or served. *)
LEMMA ArrivalPlace ==
  ASSUME TypeOK, RootInv, NEW i \in AwaitedData
  PROVE  i \notin ToServe
<1>1. Apart /\ Queued
  BY OnePlaceParts DEF RootInv
<1>2. i \notin ToAsk /\ i \notin AwaitedReqs
  BY <1>1 DEF Queued, Elsewhere, ToAsk, AwaitedReqs
<1> QED BY <1>1, <1>2 DEF ToServe, ToTake, Apart

(* A DATA frame is used up. *)
LEMMA PieceLess ==
  ASSUME TypeOK, RootInv, NEW d \in datas, datas' = datas \ {d},
         ToTake' \subseteq ToTake, serving' = serving
  PROVE  /\ ToServe' \subseteq ToServe /\ ToReceive' \subseteq ToReceive
         /\ ToReceive' # ToReceive
<1>1. ToServe' \subseteq ToServe /\ ToReceive' \subseteq ToReceive
  BY ServeLess
<1>2. d.index \notin ToServe'
  BY <1>1, ArrivalPlace DEF AwaitedData
<1>3. \A e \in datas' : e.index = d.index => e.piece # d.piece
  BY DEF RootInv, PiecesOnce
<1>4. <<d.index, d.piece>> \in ToReceive
  BY DEF ToReceive
<1>5. <<d.index, d.piece>> \notin ToReceive'
  <2>1. <<d.index, d.piece>> \notin (ToServe \X Piece)'
    BY <1>2
  <2>2. \A e \in datas' : <<e.index, e.piece>> # <<d.index, d.piece>>
    BY <1>3
  <2> QED BY <2>1, <2>2 DEF ToReceive
<1> QED BY <1>1, <1>4, <1>5

(* A reply that was read is never awaited again, unless the window failed. *)
LEMMA ReplyUsedUp ==
  ASSUME TypeOK, RootInv, OnlyOnce, NEW h \in hashReplies, hashReplies' = hashReplies \ {h}
  PROVE  h.win \notin hashReqs /\ \A g \in hashReplies' : g.win # h.win
<1>1. \A g \in hashReplies' : g.win # h.win
  BY OneReply DEF RootInv
<1>2. h.win \in {0} \cup WindowIds
  <2>1. h \in HashReply
    BY DEF TypeOK
  <2> QED BY <2>1 DEF HashReply
<1>3. CASE h.win \in WindowIds
  BY <1>1, <1>3 DEF RootInv, WindowsCounted
<1>4. CASE h.win \notin WindowIds
  <2>1. h.win = 0 /\ 0 \notin WindowIds
    BY <1>2, <1>4
  <2>2. Chunks = 0
    <3>1. Chunks > 0 => 0 \in WindowIds
      <4>1. ASSUME Chunks > 0 PROVE 0 \in Chunk /\ WindowOf(0) = 0
        BY <4>1, ConstantsAssumption DEF Chunk, WindowOf
      <4> QED BY <4>1, WindowOfFacts
    <3> QED BY <2>1, <3>1, ConstantsAssumption
  <2> QED BY <1>1, <2>1, <2>2 DEF OnlyOnce
<1> QED BY <1>1, <1>3, <1>4

(* The steps of the receiver, within a run. *)
LEMMA ReceiverUsesUp ==
  ASSUME TypeOK, TypeOK', RootInv, RootInv', OnlyOnce, phase = "running",
         OnDataPart \/ OnDataChunk \/ OnHashGood \/ OnHashBad \/ OnDone
  PROVE  UsesUp
<1>1. CASE OnDataPart
  <2>1. PICK d \in datas : datas' = datas \ {d}
    BY <1>1 DEF OnDataPart
  <2>2. /\ fill(queue, outstanding, reqs) /\ serving' = serving /\ attempts' = attempts
        /\ UNCHANGED <<hashReqs, hashReplies, winState, dones, doneSent>>
    BY <1>1 DEF OnDataPart, sessionVars
  <2>3. ToAsk' \subseteq ToAsk /\ ToTake' \subseteq ToTake
    BY <2>2, FillLess
  <2>4. /\ ToServe' \subseteq ToServe /\ ToReceive' \subseteq ToReceive
        /\ ToReceive' # ToReceive
    BY <2>1, <2>2, <2>3, PieceLess
  <2>5. ToHash' = ToHash /\ ToVerify' = ToVerify /\ ToConfirm' = ToConfirm
    BY <2>2, OtherLess DEF ToConfirm
  <2> QED BY <2>2, <2>3, <2>4, <2>5, WorkParts
<1>2. CASE OnDataChunk
  <2>1. PICK d \in datas :
          /\ datas' = datas \ {d} /\ fill(queue, outstanding - 1, reqs)
          /\ LET w == WindowOf(d.index)
                 ask == winRecv[w] + 1 = windowSize(w) /\ winState[w] = 0
             IN  /\ winState' = IF ask THEN [winState EXCEPT ![w] = 1] ELSE winState
                 /\ hashReqs' = IF ask THEN hashReqs \cup {w} ELSE hashReqs
    BY <1>2 DEF OnDataChunk
  <2>2. /\ serving' = serving /\ attempts' = attempts
        /\ UNCHANGED <<hashReplies, dones, doneSent>>
    BY <1>2 DEF OnDataChunk, sessionVars
  <2>3. ToAsk' \subseteq ToAsk /\ ToTake' \subseteq ToTake
    BY <2>1, FillLess
  <2>4. /\ ToServe' \subseteq ToServe /\ ToReceive' \subseteq ToReceive
        /\ ToReceive' # ToReceive
    BY <2>1, <2>2, <2>3, PieceLess
  <2>5. ToHash' \subseteq ToHash
    <3>1. WindowOf(d.index) \in WindowIds
      BY WindowOfFacts DEF TypeOK
    <3>2. winState \in [WindowIds -> 0 .. 2]
      BY DEF TypeOK
    <3> QED BY <2>1, <3>1, <3>2 DEF ToHash
  <2>6. ToVerify' \subseteq ToVerify /\ ToConfirm' = ToConfirm
    BY <2>2, <2>5 DEF ToVerify, ToConfirm
  <2> QED BY <2>2, <2>3, <2>4, <2>5, <2>6, WorkParts
<1>3. CASE OnHashGood
  <2>1. PICK h \in hashReplies :
          /\ hashReplies' = hashReplies \ {h}
          /\ IF Chunks > 0 /\ winState[h.win] # 2
             THEN winState' = [winState EXCEPT ![h.win] = 2]
             ELSE winState' = winState
    BY <1>3 DEF OnHashGood
  <2>2. /\ fill(queue, outstanding, reqs) /\ UNCHANGED <<serving, attempts, datas>>
        /\ UNCHANGED <<hashReqs, dones, doneSent>>
    BY <1>3 DEF OnHashGood, sessionVars
  <2>3. ToAsk' \subseteq ToAsk /\ ToTake' \subseteq ToTake
    BY <2>2, FillLess
  <2>4. ToServe' \subseteq ToServe /\ ToReceive' \subseteq ToReceive
    BY <2>2, <2>3, ServeLess
  <2>0. winState \in [WindowIds -> 0 .. 2] /\ winState' \in [WindowIds -> 0 .. 2]
    BY DEF TypeOK
  <2>5. ToHash' \subseteq ToHash
    BY <2>0, <2>1, <2>2 DEF ToHash
  <2>6. ToVerify' \subseteq ToVerify /\ ToConfirm' = ToConfirm
    BY <2>1, <2>2, <2>5 DEF ToVerify, ToConfirm
  <2>7. h.win \in ToVerify
    BY DEF ToVerify
  <2>8. h.win \notin ToVerify'
    <3>1. h.win \notin hashReqs /\ \A g \in hashReplies' : g.win # h.win
      BY <2>1, ReplyUsedUp
    <3>2. h.win \in WindowIds => winState'[h.win] # 0
      <4>1. h.win \in WindowIds => winState[h.win] = 1
        BY DEF RootInv, WindowsCounted
      <4> QED BY <2>0, <2>1, <4>1
    <3> QED BY <2>2, <3>1, <3>2 DEF ToVerify, ToHash
  <2> QED BY <2>2, <2>3, <2>4, <2>5, <2>6, <2>7, <2>8, WorkParts
<1>4. CASE OnHashBad
  <2>1. PICK h \in hashReplies :
          /\ Verify(h) # {} /\ \A i \in Verify(h) : attempts[i] + 1 <= MaxAttempts
          /\ attempts' = [i \in Chunk |-> IF i \in Verify(h) THEN attempts[i] + 1
                                          ELSE attempts[i]]
    BY <1>4 DEF OnHashBad
  <2>2. PICK i : i \in Verify(h)
    BY <2>1
  <2>3. i \in Chunk /\ attempts \in [Chunk -> 0 .. MaxAttempts] /\ MaxAttempts \in Nat
    BY <2>2, ConstantsAssumption DEF Verify, TypeOK
  <2>4. \A j \in Chunk : attempts[j] \in Nat /\ attempts[j] <= attempts'[j]
    BY <2>1, <2>3
  <2>5. AttemptsLeft' \subseteq AttemptsLeft
    BY <2>1, <2>3, <2>4 DEF AttemptsLeft
  <2>6. <<i, attempts[i] + 1>> \in AttemptsLeft /\ <<i, attempts[i] + 1>> \notin AttemptsLeft'
    BY <2>1, <2>2, <2>3, <2>4 DEF AttemptsLeft
  <2> QED BY <2>5, <2>6, Zenon DEF UsesUp
<1>5. CASE OnDone
  <2>1. PICK r \in dones : dones' = dones \ {r}
    BY <1>5 DEF OnDone
  <2>2. /\ fill(queue, outstanding, reqs) /\ UNCHANGED <<serving, attempts, datas>>
        /\ UNCHANGED <<hashReqs, hashReplies, winState, doneSent>>
    BY <1>5 DEF OnDone, sessionVars
  <2>3. ToAsk' \subseteq ToAsk /\ ToTake' \subseteq ToTake
    BY <2>2, FillLess
  <2>4. ToServe' \subseteq ToServe /\ ToReceive' \subseteq ToReceive
    BY <2>2, <2>3, ServeLess
  <2>5. ToHash' = ToHash /\ ToVerify' = ToVerify
    BY <2>2, OtherLess
  <2>6. doneSent /\ doneSent' /\ dones' = {}
    BY <2>1, <2>2 DEF OnlyOnce, RootInv, RepliesFromCache
  <2>7. "DONE" \in ToConfirm /\ ToConfirm' = {}
    BY <2>1, <2>6 DEF ToConfirm
  <2> QED BY <2>2, <2>3, <2>4, <2>5, <2>7, WorkParts
<1> QED BY <1>1, <1>2, <1>3, <1>4, <1>5

(* A turn of serve sends DONE at most once. *)
LEMMA TurnLess ==
  ASSUME NEW last, NEW have, NEW hs,
         MaybeDone(last, have, hs) \/ UNCHANGED <<doneSent, dones>>
  PROVE  ToConfirm' \subseteq ToConfirm
  BY DEF MaybeDone, ToConfirm

(* The steps of the session. *)
LEMMA HostUsesUp ==
  ASSUME TypeOK, TypeOK', RootInv, RootInv', phase = "running",
         TakeReq \/ ServeChunk \/ RefuseChunk \/ ServeHashReq
  PROVE  UsesUp
<1>0. Apart /\ Queued
  BY OnePlaceParts DEF RootInv
<1>1. CASE TakeReq
  <2>1. PICK r \in reqs :
          /\ serving' = [next |-> r.first, end |-> r.first + r.count] /\ reqs' = reqs \ {r}
    BY <1>1 DEF TakeReq
  <2>2. /\ UNCHANGED <<queue, attempts, datas, hashReqs, hashReplies, winState, dones, doneSent>>
    BY <1>1 DEF TakeReq, toPeer, schedVars
  <2>3. AwaitedServing' = ReqChunks(r) /\ r.first \in ReqChunks(r)
    <3>1. r \in Req
      BY DEF TypeOK
    <3>2. r.first \in Int /\ r.count \in Int /\ r.count >= 1
      BY <3>1, ConstantsAssumption DEF Req, Chunk
    <3> QED BY <2>1, <3>2 DEF AwaitedServing, ReqChunks
  <2>4. ToAsk' = ToAsk /\ AwaitedReqs' \subseteq AwaitedReqs /\ ReqChunks(r) \subseteq AwaitedReqs
    BY <2>1, <2>2 DEF ToAsk, AwaitedReqs, ReqChunks
  <2>5. ToTake' \subseteq ToTake /\ ToServe' \subseteq ToServe
    BY <2>3, <2>4 DEF ToTake, ToServe
  <2>6. r.first \in ToTake /\ r.first \notin ToTake'
    <3>1. r.first \notin ToAsk
      BY <1>0, <2>3 DEF Queued, ToAsk
    <3>2. r.first \notin AwaitedReqs'
      BY <1>0, <2>1, <2>3 DEF Queued, AwaitedReqs, ReqChunks
    <3> QED BY <2>3, <2>4, <3>1, <3>2 DEF ToTake
  <2>7. ToReceive' \subseteq ToReceive
    BY <2>2, <2>5 DEF ToReceive
  <2>8. ToHash' = ToHash /\ ToVerify' = ToVerify /\ ToConfirm' = ToConfirm
    BY <2>2, OtherLess DEF ToConfirm
  <2> QED BY <2>2, <2>4, <2>5, <2>6, <2>7, <2>8, WorkParts
<1>2. ASSUME ServeChunk \/ RefuseChunk,
             UNCHANGED <<queue, reqs, attempts, hashReqs, hashReplies, winState>>,
             AwaitedServing' \subseteq AwaitedServing,
             serving.next \in AwaitedServing, serving.next \notin AwaitedServing',
             \A d \in datas' : d \in datas \/ (d.index = serving.next /\ d.piece \in Piece),
             ToConfirm' \subseteq ToConfirm
      PROVE  UsesUp
  <2>1. ToAsk' = ToAsk /\ AwaitedReqs' = AwaitedReqs /\ ToTake' = ToTake
    BY <1>2 DEF ToAsk, AwaitedReqs, ReqChunks, ToTake
  <2>2. ToServe' \subseteq ToServe /\ serving.next \in ToServe
    BY <1>2, <2>1 DEF ToServe
  <2>3. serving.next \notin ToServe'
    <3>1. serving.next \notin ToAsk /\ serving.next \notin AwaitedReqs
      BY <1>0, <1>2 DEF Queued, Elsewhere, ToAsk, AwaitedReqs
    <3> QED BY <1>2, <2>1, <3>1 DEF ToServe, ToTake
  <2>4. ToReceive' \subseteq ToReceive
    <3>1. \A d \in datas' : <<d.index, d.piece>> \in ToReceive
      BY <1>2, <2>2 DEF ToReceive
    <3>2. (ToServe \X Piece)' \subseteq ToServe \X Piece
      BY <2>2
    <3> QED BY <3>1, <3>2 DEF ToReceive
  <2>5. ToHash' = ToHash /\ ToVerify' = ToVerify
    BY <1>2, OtherLess
  <2> QED BY <1>2, <2>1, <2>2, <2>3, <2>4, <2>5, WorkParts
<1>3. serving.next \in Int /\ serving.end \in Int
  BY ConstantsAssumption DEF TypeOK
<1>4. CASE ServeChunk
  <2>1. /\ serving.next < serving.end /\ serving' = [serving EXCEPT !.next = serving.next + 1]
        /\ datas' = datas \cup
             {[index |-> serving.next, piece |-> p, val |-> file[serving.next]] : p \in Piece}
        /\ UNCHANGED <<queue, reqs, attempts, hashReqs, hashReplies, winState>>
    BY <1>4 DEF ServeChunk, toHost, schedVars
  <2>2. /\ AwaitedServing' \subseteq AwaitedServing
        /\ serving.next \in AwaitedServing /\ serving.next \notin AwaitedServing'
    <3>1. serving'.next = serving.next + 1 /\ serving'.end = serving.end
      BY <2>1 DEF TypeOK
    <3> QED BY <1>3, <2>1, <3>1 DEF AwaitedServing
  <2>3. \A d \in datas' : d \in datas \/ (d.index = serving.next /\ d.piece \in Piece)
    BY <2>1
  <2>4. ToConfirm' \subseteq ToConfirm
    BY <1>4, TurnLess DEF ServeChunk
  <2> QED BY <1>2, <1>4, <2>1, <2>2, <2>3, <2>4
<1>5. CASE RefuseChunk
  <2>1. /\ serving.next < serving.end /\ serving' = Idle
        /\ UNCHANGED <<queue, reqs, attempts, hashReqs, hashReplies, winState, datas, dones, doneSent>>
    BY <1>5 DEF RefuseChunk, toHost, schedVars
  <2>2. AwaitedServing' = {} /\ serving.next \in AwaitedServing
    BY <1>3, <2>1 DEF AwaitedServing, Idle
  <2>3. ToConfirm' = ToConfirm
    BY <2>1 DEF ToConfirm
  <2> QED BY <1>2, <1>5, <2>1, <2>2, <2>3
<1>6. CASE ServeHashReq
  <2>1. PICK w \in hashReqs :
          /\ hashReqs' = hashReqs \ {w}
          /\ \E hs : hashReplies' = hashReplies \cup {[win |-> w, hs |-> hs]}
    BY <1>6 DEF ServeHashReq
  <2>2. /\ UNCHANGED <<queue, reqs, attempts, serving, datas, winState>>
        /\ MaybeDone(lastRequested, srcHave', srcHash')
    BY <1>6 DEF ServeHashReq, schedVars
  <2>3. ToAsk' = ToAsk /\ ToTake' = ToTake /\ ToServe' = ToServe /\ ToReceive' = ToReceive
    BY <2>2 DEF ToAsk, ToTake, ToServe, ToReceive, AwaitedReqs, ReqChunks, AwaitedServing
  <2>4. ToHash' \subseteq ToHash /\ w \in ToHash
    BY <2>1, <2>2 DEF ToHash
  <2>5. w \notin ToHash'
    <3>1. w \in WindowIds => winState[w] = 1
      BY DEF RootInv, WindowsCounted
    <3> QED BY <2>1, <2>2, <3>1 DEF ToHash
  <2>6. ToVerify' \subseteq ToVerify
    BY <2>1, <2>4 DEF ToVerify
  <2>7. ToConfirm' \subseteq ToConfirm
    BY <2>2, TurnLess
  <2> QED BY <2>2, <2>3, <2>4, <2>5, <2>6, <2>7, WorkParts
<1> QED BY <1>1, <1>4, <1>5, <1>6

(* A frame that comes once has not come before. *)
LEMMA OnlyOnceStep ==
  ASSUME TypeOK, RootInv, OnlyOnce, [Next]_vars
  PROVE  OnlyOnce'
<1>1. ASSUME dones' \subseteq dones, doneSent' = doneSent, hashReqs' \subseteq hashReqs,
             hashReplies' \subseteq hashReplies
      PROVE  OnlyOnce'
  BY <1>1 DEF OnlyOnce
<1>2. ASSUME dones' = {}, hashReplies' = {}
      PROVE  OnlyOnce'
  BY <1>2 DEF OnlyOnce
<1>3. CASE StartRun
  <2>1. dones = {} /\ hashReplies = {}
    BY <1>3 DEF StartRun, RootInv, StreamOnlyWhileRunning
  <2> QED BY <1>2, <1>3, <2>1 DEF StartRun, toPeer
<1>4. CASE OnDataChunk
  <2>1. Chunks # 0
    <3>1. \A d \in datas : d.index \in Chunk
      BY DEF TypeOK
    <3> QED BY <1>4, <3>1, ConstantsAssumption DEF OnDataChunk, Chunk
  <2> QED BY <1>4, <2>1 DEF OnDataChunk, OnlyOnce, sessionVars
<1>5. CASE ServeChunk
  <2>1. UNCHANGED <<hashReqs, hashReplies>>
    BY <1>5 DEF ServeChunk, toHost
  <2>2. dones' # {} => doneSent'
    BY <1>5 DEF ServeChunk, MaybeDone, OnlyOnce
  <2> QED BY <2>1, <2>2 DEF OnlyOnce
<1>6. CASE ServeHashReq
  <2>1. PICK w \in hashReqs : hashReqs' = hashReqs \ {w}
    BY <1>6 DEF ServeHashReq
  <2>2. dones' # {} => doneSent'
    BY <1>6 DEF ServeHashReq, MaybeDone, OnlyOnce
  <2>3. Chunks = 0 => WindowIds = {}
    BY ConstantsAssumption DEF WindowIds, Windows
  <2>4. Chunks = 0 => hashReqs \subseteq {0}
    BY <2>3 DEF TypeOK
  <2> QED BY <2>1, <2>2, <2>4 DEF OnlyOnce
<1>7. CASE OnDataPart \/ OnHashGood \/ OnHashBad \/ OnDone \/ TakeReq \/ RefuseChunk
  BY <1>1, <1>7 DEF OnDataPart, OnHashGood, OnHashBad, OnDone, TakeReq, RefuseChunk,
                    sessionVars, toPeer, toHost
<1>8. CASE OnHashGiveUp \/ OnError \/ DoneTimeout \/ StreamLost \/ CheckRoot \/ Crash
           \/ CrashInWriteChunk
  BY <1>2, <1>8 DEF OnHashGiveUp, OnError, DoneTimeout, StreamLost, CheckRoot, FailRun,
                    Crash, CrashInWriteChunk, CloseStream
<1>9. CASE DeletePartial \/ OtherSessionReads \/ Stop \/ EditFile \/ HostRestart
           \/ UNCHANGED vars
  BY <1>1, <1>9 DEF DeletePartial, OtherSessionReads, Stop, EditFile, HostRestart, vars,
                    sessionVars, toPeer, toHost
<1> QED
  BY <1>3, <1>4, <1>5, <1>6, <1>7, <1>8, <1>9 DEF Next, ReceiverNext, HostNext

LEMMA UsesUpStep ==
  ASSUME TypeOK, TypeOK', RootInv, RootInv', OnlyOnce, [Next]_vars
  PROVE  UsesUp
<1> SUFFICES ASSUME phase = "running", phase' = "running",
                    <<sessionVars, toHost, toPeer, schedVars>>' #
                      <<sessionVars, toHost, toPeer, schedVars>>
             PROVE  UsesUp
  BY DEF UsesUp
<1>1. CASE StartRun \/ OnHashGiveUp \/ OnError \/ DoneTimeout \/ StreamLost \/ CheckRoot
           \/ Crash \/ CrashInWriteChunk \/ DeletePartial \/ HostRestart
  BY <1>1 DEF StartRun, OnHashGiveUp, OnError, DoneTimeout, StreamLost, CheckRoot, FailRun,
              Crash, CrashInWriteChunk, DeletePartial, HostRestart
<1>2. CASE OtherSessionReads \/ Stop \/ EditFile \/ UNCHANGED vars
  BY <1>2 DEF OtherSessionReads, Stop, EditFile, vars
<1> QED
  BY <1>1, <1>2, ReceiverUsesUp, HostUsesUp DEF Next, ReceiverNext, HostNext

(* Every step of the receiver and of the session within a run uses up an   *)
(* attempt, or work that does not come back while no attempt is used up:   *)
(* for all sizes, limits, attempts, edits and orders of delivery.          *)
THEOREM WorkRunsOutHolds == Spec => WorkRunsOut
<1>1. TypeOK /\ TypeOK' /\ RootInv /\ RootInv' /\ OnlyOnce /\ [Next]_vars => OnlyOnce' /\ UsesUp
  BY OnlyOnceStep, UsesUpStep
<1>2. Init => OnlyOnce
  BY DEF Init, OnlyOnce
<1>3. TypeOK /\ TypeOK' /\ RootInv /\ RootInv' /\ OnlyOnce /\ [Next]_vars =>
        [(phase = "running" /\ phase' = "running"
            /\ <<sessionVars, toHost, toPeer, schedVars>>' #
                 <<sessionVars, toHost, toPeer, schedVars>>) =>
           \/ AttemptsLeft' \subseteq AttemptsLeft /\ AttemptsLeft' # AttemptsLeft
           \/ /\ AttemptsLeft' = AttemptsLeft /\ WorkLeft' # WorkLeft
              /\ \A k \in DOMAIN WorkLeft : WorkLeft'[k] \subseteq WorkLeft[k]]_vars
  BY <1>1, Zenon DEF UsesUp
<1> QED BY <1>1, <1>2, <1>3, TypeCorrect, RootInvariant, PTL DEF Spec, WorkRunsOut

(* ... and there is only so much to use up.                                *)
WorkIsFinite ==
  /\ IsFiniteSet(AttemptsLeft)
  /\ \A k \in DOMAIN WorkLeft : IsFiniteSet(WorkLeft[k])

LEMMA WorkFiniteFollows == ASSUME TypeOK PROVE WorkIsFinite
<1>1. /\ IsFiniteSet(Chunk) /\ IsFiniteSet(WindowIds) /\ IsFiniteSet(1 .. MaxAttempts)
      /\ IsFiniteSet(Piece)
  <2>1. 1 \in Int /\ MaxAttempts \in Int /\ Pieces \in Int
    BY ConstantsAssumption
  <2> QED BY <2>1, ChunkFinite, FS_Interval DEF Piece
<1>2. IsFiniteSet(Chunk \X (1 .. MaxAttempts)) /\ IsFiniteSet(Chunk \X Piece)
  BY <1>1, FS_Product
<1>3. IsFiniteSet(AttemptsLeft)
  <2>1. AttemptsLeft \subseteq Chunk \X (1 .. MaxAttempts)
    BY DEF AttemptsLeft
  <2> QED BY <1>2, <2>1, FS_Subset
<1>4. ToAsk \subseteq Chunk /\ ToTake \subseteq Chunk /\ ToServe \subseteq Chunk
  <2>1. queue \in Seq(Chunk)
    BY DEF TypeOK
  <2>2. ToAsk \subseteq Chunk
    BY <2>1 DEF ToAsk
  <2>3. AwaitedReqs \subseteq Chunk
    <3> SUFFICES ASSUME NEW r \in reqs, NEW i \in ReqChunks(r) PROVE i \in Chunk
      BY DEF AwaitedReqs
    <3>1. r.first \in Chunk /\ r.count \in 1 .. Chunks /\ r.first + r.count <= Chunks
      <4>1. r \in Req
        BY DEF TypeOK
      <4> QED BY <4>1 DEF TypeOK, Req
    <3> QED BY <3>1, ConstantsAssumption DEF ReqChunks, Chunk
  <2>4. AwaitedServing \subseteq Chunk
    BY ConstantsAssumption DEF AwaitedServing, TypeOK, Chunk
  <2> QED BY <2>2, <2>3, <2>4 DEF ToTake, ToServe
<1>5. ToReceive \subseteq Chunk \X Piece
  <2>1. \A d \in datas : d.index \in Chunk /\ d.piece \in Piece
    BY DEF TypeOK
  <2> QED BY <1>4, <2>1 DEF ToReceive
<1>6. ToHash \subseteq {0} \cup WindowIds /\ ToVerify \subseteq {0} \cup WindowIds
  <2>1. \A h \in hashReplies : h.win \in {0} \cup WindowIds
    BY DEF TypeOK, HashReply
  <2>2. ToHash \subseteq {0} \cup WindowIds
    BY DEF TypeOK, ToHash
  <2> QED BY <2>1, <2>2 DEF ToVerify
<1>7. IsFiniteSet({0} \cup WindowIds) /\ IsFiniteSet({"DONE"})
  BY <1>1, FS_Singleton, FS_Union
<1>8. /\ IsFiniteSet(ToAsk) /\ IsFiniteSet(ToTake) /\ IsFiniteSet(ToServe)
      /\ IsFiniteSet(ToReceive) /\ IsFiniteSet(ToHash) /\ IsFiniteSet(ToVerify)
      /\ IsFiniteSet(ToConfirm)
  <2>1. ToConfirm \subseteq {"DONE"}
    BY DEF ToConfirm
  <2> QED BY <1>1, <1>2, <1>4, <1>5, <1>6, <1>7, <2>1, FS_Subset
<1>9. /\ WorkLeft = <<ToAsk, ToTake, ToServe, ToReceive, ToHash, ToVerify, ToConfirm>>
  BY Zenon DEF WorkLeft
<1> QED BY <1>3, <1>8, <1>9 DEF WorkIsFinite

(* What WorkRunsOut counts down is finite in every reachable state, so a   *)
(* run takes finitely many steps of its own.                               *)
THEOREM WorkFinite == Spec => []WorkIsFinite
<1>1. TypeOK => WorkIsFinite
  BY WorkFiniteFollows
<1> QED BY <1>1, TypeCorrect, PTL
-----------------------------------------------------------------------------
(***************************************************************************)
(* The receiver, the sink and the source keep what Download promises       *)
(***************************************************************************)
(* The source knows the hash of exactly the chunks it has read. *)
CacheExact == \A i \in Chunk : i \in srcHave <=> srcHash[i] # None

(* What of the cache may have been added in a step: file hashes of chunks  *)
(* it did not have.                                                        *)
LEMMA CacheRead ==
  ASSUME TypeOK, CacheExact, NEW S \in SUBSET Chunk,
         srcHave' = srcHave \cup S, srcHash' = Cached(S)
  PROVE  /\ CacheExact'
         /\ \E R \in SUBSET {i \in Chunk : srcHash[i] = None} :
              srcHash' = [i \in Chunk |-> IF i \in R THEN fileBar[i] ELSE srcHash[i]]
<1>1. \A i \in Chunk : Sum(Whole(file[i])) # None
  BY DataFacts, NoneAssumption DEF TypeOK
<1>2. CacheExact'
  BY <1>1 DEF CacheExact, Cached
<1>3. S \ srcHave \in SUBSET {i \in Chunk : srcHash[i] = None}
  BY DEF CacheExact
<1>4. srcHash' = [i \in Chunk |-> IF i \in S \ srcHave THEN fileBar[i] ELSE srcHash[i]]
  BY DEF Cached, fileBar
<1> QED BY <1>2, <1>3, <1>4

LEMMA CacheInit == Init => CacheExact
  BY DEF Init, CacheExact

LEMMA CacheStep ==
  ASSUME TypeOK, CacheExact, [Next]_vars
  PROVE  CacheExact'
<1>1. CASE UNCHANGED <<srcHave, srcHash>>
  BY <1>1 DEF CacheExact
<1>2. CASE ServeChunk
  <2>1. serving.next \in Chunk
    <3>1. serving.next \in 0 .. Chunks /\ serving.end \in 0 .. Chunks
      BY DEF TypeOK
    <3>2. serving.next < serving.end /\ Chunks \in Nat
      BY <1>2, ConstantsAssumption DEF ServeChunk
    <3> QED BY <3>1, <3>2 DEF Chunk
  <2> QED BY <1>2, <2>1, CacheRead DEF ServeChunk
<1>3. CASE ServeHashReq
  <2>1. PICK w \in hashReqs : srcHave' = srcHave \cup Window(w) /\ srcHash' = Cached(Window(w))
    BY <1>3 DEF ServeHashReq
  <2>2. Window(w) \in SUBSET Chunk
    BY AnyWindow DEF TypeOK
  <2> QED BY <2>1, <2>2, CacheRead
<1>4. CASE OtherSessionReads
  BY <1>4, CacheRead DEF OtherSessionReads
<1>5. CASE HostRestart
  BY <1>5 DEF HostRestart, CacheExact
<1>6. CASE StartRun \/ OnDataPart \/ OnDataChunk \/ OnHashGood \/ OnHashBad \/ OnDone
  BY <1>1, <1>6 DEF StartRun, OnDataPart, OnDataChunk, OnHashGood, OnHashBad, OnDone
<1>7. CASE OnHashGiveUp \/ OnError \/ DoneTimeout \/ StreamLost \/ CheckRoot
  BY <1>1, <1>7 DEF OnHashGiveUp, OnError, DoneTimeout, StreamLost, CheckRoot, FailRun
<1>8. CASE Crash \/ CrashInWriteChunk \/ DeletePartial
  BY <1>1, <1>8 DEF Crash, CrashInWriteChunk, DeletePartial
<1>9. CASE TakeReq \/ RefuseChunk \/ Stop \/ EditFile \/ UNCHANGED vars
  BY <1>1, <1>9 DEF TakeReq, RefuseChunk, Stop, EditFile, vars
<1> QED
  BY <1>2, <1>3, <1>4, <1>5, <1>6, <1>7, <1>8, <1>9 DEF Next, ReceiverNext, HostNext

LEMMA CacheInvariant == Spec => []CacheExact
<1>1. TypeOK /\ CacheExact /\ [Next]_vars => CacheExact'
  BY CacheStep
<1> QED BY <1>1, CacheInit, TypeCorrect, PTL DEF Spec

-----------------------------------------------------------------------------
(* What a step of the transfer is in Download. *)
Kept == [Promise!Next]_(Promise!promise)

Inv == TypeOK /\ RootInv /\ CacheExact

(* Nothing is verified where every window's state is below 2. *)
LEMMA NoGood ==
  ASSUME \A w \in WindowIds : winState[w] # 2
  PROVE  goodBar = {}
  BY DEF goodBar

LEMMA NoGoodNext ==
  ASSUME \A w \in WindowIds : winState'[w] # 2
  PROVE  goodBar' = {}
  BY DEF goodBar

(* The state of no window becomes 2 or stops being 2. *)
LEMMA SameGood ==
  ASSUME \A w \in WindowIds : winState'[w] = 2 <=> winState[w] = 2
  PROVE  goodBar' = goodBar
<1>1. {x \in WindowIds : winState'[x] = 2} = {x \in WindowIds : winState[x] = 2}
  OBVIOUS
<1> QED BY <1>1 DEF goodBar, Window, windowSize

LEMMA GoodPart ==
  ASSUME NEW v \in WindowIds,
         \A w \in WindowIds : winState'[w] = 2 <=> winState[w] = 2 \/ w = v
  PROVE  goodBar' = goodBar \cup Window(v)
<1>1. {x \in WindowIds : winState'[x] = 2} = {x \in WindowIds : winState[x] = 2} \cup {v}
  OBVIOUS
<1> QED BY <1>1 DEF goodBar, Window, windowSize

LEMMA StutterKept ==
  ASSUME UNCHANGED <<phase, outcome, file, srcHash, winState, hashes, disk>>
  PROVE  Kept
<1>1. goodBar' = goodBar
  BY SameGood
<1>2. fileBar' = fileBar
  BY DEF fileBar
<1> QED BY <1>1, <1>2 DEF Kept, Promise!promise

(* A chunk that arrives lies outside of everything that is verified. *)
LEMMA ArrivalNotGood ==
  ASSUME Inv, NEW d \in datas
  PROVE  d.index \in Chunk \ goodBar
<1>1. d.index \in Chunk
  BY DEF Inv, TypeOK
<1>2. \A w \in WindowIds : winState[w] = 2 => d.index \notin Window(w)
  BY ArrivalNotVerified DEF Inv
<1> QED BY <1>1, <1>2 DEF goodBar

(* Every way a run fails. *)
LEMMA FailKept ==
  ASSUME phase = "running", phase' = "idle",
         outcome' \in {"lost", "gaveup", "unconfirmed", "ended"},
         winState' = [w \in WindowIds |-> 0],
         UNCHANGED <<file, srcHash>>,
         \/ disk' = disk
         \/ \E i \in Chunk \ goodBar : disk' = [disk EXCEPT ![i] = disk'[i]]
  PROVE  Kept
<1>1. goodBar' = {}
  BY NoGoodNext
<1>2. fileBar' = fileBar
  BY DEF fileBar
<1>3. Promise!Fail
  BY <1>1, <1>2 DEF Promise!Fail, Promise!ChangesAt
<1> QED BY <1>3 DEF Kept, Promise!Next

(* The host's reads. *)
LEMMA ReadKept ==
  ASSUME Inv, NEW S \in SUBSET Chunk,
         srcHave' = srcHave \cup S, srcHash' = Cached(S),
         UNCHANGED <<phase, outcome, file, winState, hashes, disk>>
  PROVE  Kept
<1>1. goodBar' = goodBar
  BY SameGood
<1>2. fileBar' = fileBar
  BY DEF fileBar
<1>3. \E R \in SUBSET {i \in Chunk : srcHash[i] = None} :
        srcHash' = [i \in Chunk |-> IF i \in R THEN fileBar[i] ELSE srcHash[i]]
  BY CacheRead DEF Inv
<1>4. Promise!Read
  BY <1>1, <1>2, <1>3 DEF Promise!Read
<1> QED BY <1>4 DEF Kept, Promise!Next

(* A HASH reply with nothing to complain about verifies one window, and    *)
(* the hashes recorded for its chunks are the ones the host told.          *)
LEMMA VerifyKept ==
  ASSUME Inv, OnHashGood
  PROVE  Kept
<1> USE DEF Inv
<1>1. PICK h \in hashReplies :
        /\ Chunks > 0 => Verify(h) = {}
        /\ IF Chunks > 0 /\ winState[h.win] # 2
           THEN winState' = [winState EXCEPT ![h.win] = 2]
           ELSE UNCHANGED winState
  BY DEF OnHashGood
<1>2. phase = "running" /\ UNCHANGED <<phase, outcome, file, srcHash, hashes, disk>>
  BY DEF OnHashGood
<1>3. CASE winState' = winState
  BY <1>2, <1>3, StutterKept
<1>4. CASE Chunks > 0 /\ winState[h.win] # 2
  <2>1. h.win \in WindowIds
    <3>1. h.win \in {0} \cup WindowIds
      BY DEF TypeOK, HashReply
    <3>2. 0 \in WindowIds
      BY <1>4, ConstantsAssumption, WindowOfFacts DEF Chunk, WindowIds, Windows
    <3> QED BY <3>1, <3>2
  <2>2. goodBar' = goodBar \cup Window(h.win)
    <3>1. \A w \in WindowIds : winState'[w] = 2 <=> winState[w] = 2 \/ w = h.win
      BY <1>1, <1>4, <2>1 DEF TypeOK
    <3> QED BY <2>1, <3>1, GoodPart
  <2>3. Window(h.win) \subseteq bitmap
    <3>1. winState[h.win] = 1
      BY <2>1 DEF RootInv, WindowsCounted
    <3>2. winState[h.win] # 0 => Window(h.win) \subseteq bitmap
      BY <2>1 DEF RootInv, WindowsCounted
    <3> QED BY <3>1, <3>2
  <2>4. \A i \in Window(h.win) : srcHash[i] # None /\ hashes[i] = srcHash[i]
    <3> SUFFICES ASSUME NEW i \in Window(h.win)
                 PROVE  srcHash[i] # None /\ hashes[i] = srcHash[i]
      OBVIOUS
    <3>1. i \in Chunk
      BY <2>1, WindowFacts
    <3>2. i \in srcHave /\ h.hs[i] = srcHash[i]
      BY DEF RootInv, RepliesFromCache
    <3>3. hashes[i] = h.hs[i]
      BY <1>1, <1>4, <2>3 DEF Verify
    <3> QED BY <3>1, <3>2, <3>3 DEF CacheExact
  <2>5. fileBar' = fileBar
    BY <1>2 DEF fileBar
  <2>6. Promise!Verify
    BY <1>2, <2>1, <2>2, <2>4, <2>5 DEF Promise!Verify
  <2> QED BY <2>6 DEF Kept, Promise!Next
<1> QED BY <1>1, <1>3, <1>4

(* The roots agree (RootFollows), everything is verified, and the host has *)
(* told every hash: the run succeeds.                                      *)
LEMMA FinishKept ==
  ASSUME Inv, CheckRoot
  PROVE  Kept
<1> USE DEF Inv
<1>1. finished /\ phase = "running"
  BY DEF CheckRoot
<1>2. Root(hashes) = root
  BY <1>1, RootFollows DEF RootAlwaysMatches
<1>3. phase' = "done" /\ UNCHANGED <<outcome, file, srcHash, winState, hashes, disk>>
  BY <1>2 DEF CheckRoot
<1>4. srcHave = Chunk /\ root = Root(srcHash)
  BY <1>1 DEF RootInv, RepliesFromCache, finished
<1>5. hashes = srcHash
  BY <1>2, <1>4 DEF Root
<1>6. \A i \in Chunk : srcHash[i] # None
  BY <1>4 DEF CacheExact
<1>7. goodBar = Chunk
  <2>1. \A w \in WindowIds : winState[w] = 2
    BY <1>1, AllWindowsVerified DEF finished
  <2>2. goodBar \subseteq Chunk
    BY WindowFacts DEF goodBar
  <2>3. Chunk \subseteq goodBar
    BY <2>1, WindowOfFacts DEF goodBar
  <2> QED BY <2>2, <2>3
<1>8. goodBar' = goodBar /\ fileBar' = fileBar
  BY <1>3, SameGood DEF fileBar
<1>9. Promise!Finish
  BY <1>1, <1>3, <1>5, <1>6, <1>7, <1>8 DEF Promise!Finish
<1> QED BY <1>9 DEF Kept, Promise!Next

LEMMA BeginKept ==
  ASSUME Inv, StartRun
  PROVE  Kept
<1>1. /\ phase = "idle" /\ phase' = "running" /\ outcome' = "none"
      /\ UNCHANGED <<file, srcHash, disk>>
  BY DEF StartRun
<1>2. goodBar = {}
  BY <1>1, NoGood DEF Inv, RootInv, StreamOnlyWhileRunning
<1>3. goodBar' = {}
  BY NoGoodNext DEF StartRun
<1>4. fileBar' = fileBar
  BY <1>1 DEF fileBar
<1>5. Promise!Begin
  BY <1>1, <1>2, <1>3, <1>4 DEF Promise!Begin
<1> QED BY <1>5 DEF Kept, Promise!Next

LEMMA WriteKept ==
  ASSUME Inv, OnDataChunk
  PROVE  Kept
<1> USE DEF Inv
<1>1. PICK d \in datas :
        /\ disk' = Written(d.index, Assembled(d))
        /\ hashes' = [hashes EXCEPT ![d.index] = Sum(Assembled(d))]
        /\ winState' = IF /\ winRecv[WindowOf(d.index)] + 1 = windowSize(WindowOf(d.index))
                          /\ winState[WindowOf(d.index)] = 0
                       THEN [winState EXCEPT ![WindowOf(d.index)] = 1] ELSE winState
  BY DEF OnDataChunk
<1>2. phase = "running" /\ UNCHANGED <<phase, outcome, file, srcHash>>
  BY DEF OnDataChunk
<1>3. d.index \in Chunk \ goodBar
  BY ArrivalNotGood
<1>4. goodBar' = goodBar
  <2>1. \A w \in WindowIds : winState'[w] = 2 <=> winState[w] = 2
    BY <1>1 DEF TypeOK
  <2> QED BY <2>1, SameGood
<1>5. hashes' = [hashes EXCEPT ![d.index] = hashes'[d.index]]
  BY <1>1, <1>3 DEF TypeOK
<1>6. disk' = [disk EXCEPT ![d.index] = disk'[d.index]]
  BY <1>1, <1>3 DEF TypeOK, Written
<1>7. fileBar' = fileBar
  BY <1>2 DEF fileBar
<1>8. Promise!Write
  BY <1>2, <1>3, <1>4, <1>5, <1>6, <1>7 DEF Promise!Write, Promise!ChangesAt
<1> QED BY <1>8 DEF Kept, Promise!Next

(* A window that fails was not verified: nothing verified is lost. *)
LEMMA BadKept ==
  ASSUME Inv, OnHashBad
  PROVE  Kept
<1> USE DEF Inv
<1>1. PICK h \in hashReplies : winState' = [winState EXCEPT ![h.win] = 0]
  BY DEF OnHashBad
<1>2. UNCHANGED <<phase, outcome, file, srcHash, hashes, disk>>
  BY DEF OnHashBad
<1>3. \A w \in WindowIds : winState'[w] = 2 <=> winState[w] = 2
  BY <1>1, ReplyNotVerified DEF TypeOK
<1>4. goodBar' = goodBar
  BY <1>3, SameGood
<1>5. fileBar' = fileBar
  BY <1>2 DEF fileBar
<1> QED BY <1>2, <1>4, <1>5 DEF Kept, Promise!promise

LEMMA TornKept ==
  ASSUME Inv, CrashInWriteChunk
  PROVE  Kept
<1> USE DEF Inv
<1>1. PICK d \in datas, new \in SUBSET Piece :
        disk' = [disk EXCEPT ![d.index] =
                   [k \in Piece |-> IF k \in new THEN Assembled(d)[k] ELSE @[k]]]
  BY DEF CrashInWriteChunk
<1>2. d.index \in Chunk \ goodBar
  BY ArrivalNotGood
<1>3. disk' = [disk EXCEPT ![d.index] = disk'[d.index]]
  BY <1>1, <1>2 DEF TypeOK
<1>4. /\ phase = "running" /\ phase' = "idle" /\ outcome' = "lost"
      /\ winState' = [w \in WindowIds |-> 0] /\ UNCHANGED <<file, srcHash>>
  BY DEF CrashInWriteChunk, Forget
<1> QED BY <1>2, <1>3, <1>4, FailKept

LEMMA KeptStep ==
  ASSUME Inv, [Next]_vars
  PROVE  Kept
<1>1. CASE OnDataPart \/ OnDone
  BY <1>1, StutterKept DEF OnDataPart, OnDone
<1>2. CASE TakeReq \/ RefuseChunk \/ Stop \/ UNCHANGED vars
  BY <1>2, StutterKept DEF TakeReq, RefuseChunk, Stop, vars
<1>3. CASE OnHashGiveUp \/ OnError \/ DoneTimeout \/ StreamLost
  <2>1. phase = "running" /\ \E why \in {"lost", "gaveup", "unconfirmed", "ended"} :
                                \E b : FailRun(why, b)
    BY <1>3 DEF OnHashGiveUp, OnError, DoneTimeout, StreamLost
  <2> QED BY <2>1, FailKept DEF FailRun, Forget
<1>4. CASE Crash
  BY <1>4, FailKept DEF Crash, Forget
<1>5. CASE ServeChunk
  <2>1. serving.next \in Chunk
    <3>1. serving.next \in 0 .. Chunks /\ serving.end \in 0 .. Chunks
      BY DEF Inv, TypeOK
    <3>2. serving.next < serving.end /\ Chunks \in Nat
      BY <1>5, ConstantsAssumption DEF ServeChunk
    <3> QED BY <3>1, <3>2 DEF Chunk
  <2> QED BY <1>5, <2>1, ReadKept DEF ServeChunk
<1>6. CASE ServeHashReq
  <2>1. PICK w \in hashReqs : srcHave' = srcHave \cup Window(w) /\ srcHash' = Cached(Window(w))
    BY <1>6 DEF ServeHashReq
  <2>2. Window(w) \in SUBSET Chunk
    BY AnyWindow DEF Inv, TypeOK
  <2> QED BY <1>6, <2>1, <2>2, ReadKept DEF ServeHashReq
<1>7. CASE OtherSessionReads
  BY <1>7, ReadKept DEF OtherSessionReads
<1>8. CASE EditFile
  <2>1. UNCHANGED <<phase, outcome, srcHash, winState, hashes, disk>>
    BY <1>8 DEF EditFile
  <2>2. goodBar' = goodBar
    BY <2>1, SameGood
  <2>3. Promise!Edit
    BY <2>1, <2>2 DEF Promise!Edit
  <2> QED BY <2>3 DEF Kept, Promise!Next
<1>9. CASE HostRestart
  <2>1. /\ phase = "idle" /\ srcHash' = [i \in Chunk |-> None]
        /\ UNCHANGED <<phase, outcome, file, winState, hashes, disk>>
    BY <1>9 DEF HostRestart
  <2>2. goodBar' = goodBar /\ fileBar' = fileBar
    BY <2>1, SameGood DEF fileBar
  <2>3. Promise!Restart
    BY <2>1, <2>2 DEF Promise!Restart
  <2> QED BY <2>3 DEF Kept, Promise!Next
<1>10. CASE DeletePartial
  <2>1. phase = "idle" /\ UNCHANGED <<phase, outcome, file, srcHash, winState, hashes>>
    BY <1>10 DEF DeletePartial
  <2>2. goodBar' = goodBar /\ fileBar' = fileBar
    BY <2>1, SameGood DEF fileBar
  <2>3. Promise!Delete
    BY <2>1, <2>2 DEF Promise!Delete
  <2> QED BY <2>3 DEF Kept, Promise!Next
<1> QED
  BY <1>1, <1>2, <1>3, <1>4, <1>5, <1>6, <1>7, <1>8, <1>9, <1>10,
     BeginKept, WriteKept, VerifyKept, BadKept, FinishKept, TornKept
  DEF Next, ReceiverNext, HostNext

(* The receiver, the sink, the source and the serve loop keep what         *)
(* Download promises of a destination, for every size of file and window,  *)
(* every limit and every order of delivery.                                *)
THEOREM PromiseKept == Spec => KeepsPromise
<1>1. Init => Promise!Init
  <2>1. ASSUME Init PROVE goodBar = {}
    BY <2>1, NoGood DEF Init
  <2> QED BY <2>1 DEF Init, Promise!Init
<1>2. Inv /\ [Next]_vars => Kept
  BY KeptStep
<1> QED
  BY <1>1, <1>2, TypeCorrect, RootInvariant, CacheInvariant, PTL
  DEF Spec, Inv, Kept, KeepsPromise, Promise!Spec
=============================================================================
