-------------------------------- MODULE Wire --------------------------------
(***************************************************************************)
(* The frames of a data stream (internal/wire/wire.go): their encoding, the*)
(* parser, which delimits them on a byte stream, and the split of DATA for *)
(* data channels.  A byte is a number below 256.                           *)
(***************************************************************************)
EXTENDS Naturals, Sequences

CONSTANTS
  ChunkSize, MaxMessage, MaxHashCount, MaxErrorMsgLen,  \* as in the code
  SumSize,     \* bytes of a hash, 32 in the code
  AuthSize     \* bytes of AUTH's nonce and hmac, 48 in the code

dataHeader == 1 + 4 + 4 + 4

ASSUME WireAssumption ==
  /\ ChunkSize \in 1 .. 2 ^ 30   \* 2 ^ 18 in the code; four bytes hold it
  /\ MaxMessage \in Nat /\ MaxMessage > dataHeader
  /\ MaxHashCount \in Nat /\ MaxErrorMsgLen \in 0 .. 2 ^ 16 - 1
  /\ SumSize \in Nat \ {0} /\ AuthSize \in Nat \ {0}

TAuth == 1
TManifestAck == 2
TReq == 16
TData == 17
THashReq == 18
THash == 19
TDone == 20
TCancel == 32
TError == 127
Types == {TAuth, TManifestAck, TReq, TData, THashReq, THash, TDone, TCancel, TError}
Ranges == {TReq, THashReq, TCancel}      \* the types of which it is all

(* The fields that a type does not have are zero. *)
Frame(t) == [type |-> t, first |-> 0, count |-> 0, index |-> 0, offset |-> 0,
             payload |-> <<>>, code |-> 0]

(* Little-endian, w bytes. *)
Put(v, w) == [k \in 1 .. w |-> (v \div 256 ^ (k - 1)) % 256]
Uint(b) ==
  LET sum[k \in 0 .. Len(b)] == IF k = 0 THEN 0 ELSE sum[k - 1] + b[k] * 256 ^ (k - 1)
  IN sum[Len(b)]

Truncated(m) == IF Len(m) > MaxErrorMsgLen THEN SubSeq(m, 1, MaxErrorMsgLen) ELSE m

Encode(f) ==
  <<f.type>> \o
  CASE f.type \in {TAuth, TDone} -> f.payload
    [] f.type = TManifestAck -> <<>>
    [] f.type \in Ranges -> Put(f.first, 4) \o Put(f.count, 4)
    [] f.type = TData -> Put(f.index, 4) \o Put(f.offset, 4) \o Put(Len(f.payload), 4) \o f.payload
    [] f.type = THash -> Put(f.first, 4) \o Put(f.count, 4) \o f.payload
    [] f.type = TError ->
         LET m == Truncated(f.payload) IN <<f.code>> \o Put(Len(m), 2) \o m

(* What is read before the payload, and the number that gives its length.  *)
header(t) ==
  CASE t \in {TAuth, TDone, TManifestAck} -> 1
    [] t \in Ranges \cup {THash} -> 9
    [] t = TData -> dataHeader
    [] t = TError -> 4

At(b, from, w) == Uint(SubSeq(b, from + 1, from + w))
(* Mutant: the length of HASH is taken for its count. *)
lengthOfCount(b) ==
  CASE b[1] = TAuth -> AuthSize
    [] b[1] = TDone -> SumSize
    [] b[1] = TData -> At(b, 9, 4)
    [] b[1] = THash -> At(b, 5, 4)
    [] b[1] = TError -> At(b, 2, 2)
    [] OTHER -> 0
length(b) ==
  CASE b[1] = TAuth -> AuthSize
    [] b[1] = TDone -> SumSize
    [] b[1] = TData -> At(b, 9, 4)
    [] b[1] = THash -> SumSize * At(b, 5, 4)
    [] b[1] = TError -> At(b, 2, 2)
    [] OTHER -> 0

TooLong(b) ==
  \/ b[1] = TData /\ length(b) > ChunkSize
  \/ b[1] = THash /\ At(b, 5, 4) > MaxHashCount
  \/ b[1] = TError /\ length(b) > MaxErrorMsgLen

(* The frame that b holds behind its header. *)
Parsed(b) ==
  LET t == b[1]
      ranged == t \in Ranges \cup {THash}
  IN [type |-> t,
      first |-> IF ranged THEN At(b, 1, 4) ELSE 0,
      count |-> IF ranged THEN At(b, 5, 4) ELSE 0,
      index |-> IF t = TData THEN At(b, 1, 4) ELSE 0,
      offset |-> IF t = TData THEN At(b, 5, 4) ELSE 0,
      code |-> IF t = TError THEN b[2] ELSE 0,
      payload |-> SubSeq(b, header(t) + 1, header(t) + length(b))]

(* One frame from the front of b: what it is, or the error, and the rest.  *)
Failed(e) == [err |-> e, frame |-> Frame(0), rest |-> <<>>]
Read(b) ==
  IF b = <<>> THEN Failed("eof")
  ELSE IF b[1] \notin Types THEN Failed("malformed")
  ELSE IF Len(b) < header(b[1]) THEN Failed("eof")
  ELSE IF TooLong(b) THEN Failed("malformed")
  ELSE LET n == header(b[1]) + length(b)
       IN IF Len(b) < n THEN Failed("eof")
          ELSE [err |-> "none", frame |-> Parsed(b), rest |-> SubSeq(b, n + 1, Len(b))]

(* A message is one frame and nothing else. *)
Decode(b) ==
  LET r == Read(b) IN IF r.rest # <<>> THEN Failed("malformed") ELSE r

(* The payload that fits in a message. *)
perMessage == MaxMessage - dataHeader

(* Mutant: every part has the offset of the whole. *)
partOffsetSame(f, off) == f.offset
partOffset(f, off) == f.offset + off

SplitData(f) ==
  IF f.type # TData \/ Len(f.payload) + dataHeader <= MaxMessage THEN <<f>>
  ELSE LET n == Len(f.payload)
           parts == (n + perMessage - 1) \div perMessage
           end(k) == IF k * perMessage > n THEN n ELSE k * perMessage
       IN [k \in 1 .. parts |->
             [f EXCEPT !.offset = partOffset(f, (k - 1) * perMessage),
                       !.payload = SubSeq(f.payload, (k - 1) * perMessage + 1, end(k))]]
=============================================================================
