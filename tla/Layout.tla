------------------------------- MODULE Layout -------------------------------
(***************************************************************************)
(* Chunk arithmetic (internal/manifest/layout.go): files laid out back to  *)
(* back, cut into chunks of one size, and the pieces of files that a chunk *)
(* is made of.  A layout is the sequence of the sizes of its files and the *)
(* chunk size; offsets count from 0, files and chunks as in the operators. *)
(***************************************************************************)
EXTENDS Naturals, Sequences

(* starts[k], and behind the last file the size of all. *)
starts(sizes) ==
  LET sum[k \in 1 .. Len(sizes) + 1] == IF k = 1 THEN 0 ELSE sum[k - 1] + sizes[k - 1]
  IN sum
Size(sizes) == starts(sizes)[Len(sizes) + 1]

Chunks(sizes, chunk) == (Size(sizes) + chunk - 1) \div chunk

(* Chunk i, counted from 0: its offset and its length. *)
ChunkSpan(sizes, chunk, i) ==
  LET off == i * chunk
      rem == Size(sizes) - off
  IN [off |-> off, n |-> IF rem < chunk THEN rem ELSE chunk]

(* Mutant: of the files that start there it takes the first, an empty one. *)
fileAtFirst(sizes, off) ==
  LET s == starts(sizes)
  IN CHOOSE k \in DOMAIN sizes :
       s[k] <= off /\ \A j \in DOMAIN sizes : s[j] <= off => s[j] < s[k] \/ j >= k
(* The last file that starts at or before off: empty files start where the *)
(* next one does.                                                          *)
fileAt(sizes, off) ==
  LET s == starts(sizes)
  IN CHOOSE k \in DOMAIN sizes :
       s[k] <= off /\ \A j \in DOMAIN sizes : j > k => s[j] > off

(* The pieces of [off, off + n), in order; the loop counts n down to 0.    *)
segments(sizes, off, n) ==
  LET from[m \in 0 .. n] ==
        LET at == off + n - m
            f == fileAt(sizes, at)
            inFile == at - starts(sizes)[f]
            avail == sizes[f] - inFile
            k == IF m > avail THEN avail ELSE m
        IN IF m = 0 \/ avail <= 0 THEN <<>>
           ELSE <<[file |-> f, inFile |-> inFile, at |-> at - off, n |-> k]>> \o from[m - k]
  IN from[n]
=============================================================================
