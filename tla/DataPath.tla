------------------------------ MODULE DataPath ------------------------------
(***************************************************************************)
(* The way of the bytes, from the files of the host to those of the        *)
(* receiver: ReadChunk (manifest/source.go) fills a buffer from the files, *)
(* serve sends it as a DATA frame, streamConn writes that to a byte stream *)
(* and dcConn splits it into messages (transport/conn.go), onData          *)
(* (peer/peer.go) puts a chunk together, and WriteChunk (manifest/sink.go) *)
(* writes it to the files.  Which chunks are asked for, verified and asked *)
(* for again is in Transfer; here every chunk is asked for once.           *)
(***************************************************************************)
EXTENDS Layout, Wire, SequencesExt

CONSTANTS
  MaxFiles, MaxSize, \* bounds on what is shared
  MaxOther           \* bound: frames other than DATA

ASSUME PathAssumption ==
  /\ MaxFiles \in Nat \ {0} /\ MaxOther \in Nat
  /\ MaxSize \in Nat /\ MaxSize \div ChunkSize < 2 ^ 30    \* numbers of chunks fit
  /\ MaxHashCount >= 2 /\ MaxMessage >= 9 + 2 * SumSize    \* so do the frames of Other
  /\ MaxMessage >= 4 + MaxErrorMsgLen

VARIABLES
  carrier,  \* "stream": QUIC or WebTransport; "lost": such a stream, after
            \* the connection was lost; "dc": a WebRTC data channel
  sizes,    \* the files' sizes in the manifest
  actual,   \* their lengths now: one may have got shorter
  buf,      \* the buffer that serve uses for every chunk of a session
  asked,    \* chunks that were read
  stream,   \* bytes that were written and not read
  messages, \* the same on a data channel, where they may overtake each other
  partial,  \* of the receiver: chunks of which a part has arrived
  dst,      \* the files of the receiver
  written,  \* chunks it wrote
  said, heard, \* history: the other frames that were written and read
  err       \* of the receiver: "none", "eof", or what it refused

vars == <<carrier, sizes, actual, buf, asked, stream, messages, partial, dst,
          written, said, heard, err>>

Chunk == 0 .. Chunks(sizes, ChunkSize) - 1
span(i) == ChunkSpan(sizes, ChunkSize, i)
pieces(i) == segments(sizes, span(i).off, span(i).n)
Empty == [buf |-> <<>>, have |-> 0]

(* The byte at an offset of a host's file is a number of its own, and not 0*)
(* (the bytes of a header are below 256).                                  *)
Content(f, o) == starts(sizes)[f] + o + 1

(* What the host says beside DATA; the message of the error is too long.   *)
Sum == [k \in 1 .. SumSize |-> 200 + k]
Other ==
  {Frame(TManifestAck), [Frame(TDone) EXCEPT !.payload = Sum],
   [Frame(THash) EXCEPT !.first = 1, !.count = 2, !.payload = Sum \o Sum],
   [Frame(TError) EXCEPT !.code = 3, !.payload = [k \in 1 .. MaxErrorMsgLen + 1 |-> k]]}

Shared ==
  {z \in UNION {[1 .. n -> 0 .. MaxSize] : n \in 1 .. MaxFiles} : Size(z) <= MaxSize}

Init ==
  /\ carrier \in {"stream", "dc"} /\ sizes \in Shared
  /\ \/ actual = sizes
     \/ \E f \in DOMAIN sizes : \E n \in 0 .. sizes[f] - 1 : actual = [sizes EXCEPT ![f] = n]
  /\ buf = [k \in 1 .. ChunkSize |-> 0] /\ asked = {}
  /\ stream = <<>> /\ messages = {}
  /\ partial = [i \in Chunk |-> Empty]
  /\ dst = [f \in DOMAIN sizes |-> [o \in 1 .. sizes[f] |-> 0]]
  /\ written = {} /\ said = <<>> /\ heard = <<>> /\ err = "none"
-----------------------------------------------------------------------------
(* The host *)

(* streamConn.WriteFrame and dcConn.WriteFrame. *)
WriteFrame(f) ==
  IF carrier = "stream"
  THEN stream' = stream \o Encode(f) /\ UNCHANGED messages
  ELSE /\ messages' = messages \cup {Encode(p) : p \in Range(SplitData(f))}
       /\ UNCHANGED stream

(* The buffer after the pieces of chunk i were read; where a file is now   *)
(* shorter ReadAt stops, and what the buffer held before stays.            *)
Filled(i) ==
  [k \in 1 .. ChunkSize |->
     LET hit == {p \in Range(pieces(i)) : /\ k \in p.at + 1 .. p.at + p.n
                                          /\ p.inFile + k - 1 - p.at < actual[p.file]}
     IN IF hit = {} THEN buf[k]
        ELSE LET p == CHOOSE p \in hit : TRUE IN Content(p.file, p.inFile + k - 1 - p.at)]

(* pos = n in ReadChunk: the pieces make up the chunk.                     *)
Covered(i) ==
  LET ps == pieces(i) IN ps # <<>> /\ Last(ps).at + Last(ps).n = span(i).n

ReadChunk(i) ==
  /\ carrier # "lost"
  /\ i \notin asked /\ asked' = asked \cup {i}
  /\ buf' = Filled(i)
  /\ IF Covered(i)
     THEN /\ WriteFrame([Frame(TData) EXCEPT !.index = i, !.payload = SubSeq(buf', 1, span(i).n)])
          /\ UNCHANGED err
     ELSE err' = "unexpected EOF" /\ UNCHANGED <<stream, messages>>
  /\ UNCHANGED <<carrier, sizes, actual, partial, dst, written, said, heard>>

Say(f) ==
  /\ carrier # "lost" /\ Len(said) < MaxOther /\ said' = Append(said, f)
  /\ WriteFrame(f)
  /\ UNCHANGED <<carrier, sizes, actual, buf, asked, partial, dst, written, heard, err>>

(* The connection is lost: the receiver has the first n bytes, and what the*)
(* host writes next fails, which ends its session.                         *)
Cut(n) ==
  /\ carrier = "stream" /\ carrier' = "lost"
  /\ stream' = SubSeq(stream, 1, n)
  /\ UNCHANGED <<sizes, actual, buf, asked, messages, partial, dst,
                 written, said, heard, err>>
-----------------------------------------------------------------------------
(* The receiver *)

(* WriteChunk: one write per piece. *)
Stored(i, data) ==
  [f \in DOMAIN dst |->
     [o \in DOMAIN dst[f] |->
        LET hit == {p \in Range(pieces(i)) : p.file = f /\ o \in p.inFile + 1 .. p.inFile + p.n}
        IN IF hit = {} THEN dst[f][o]
           ELSE LET p == CHOOSE p \in hit : TRUE IN data[p.at + o - p.inFile]]]

(* onData: the payload is copied to its place, and a chunk of which all    *)
(* bytes have come is written.                                             *)
OnData(f) ==
  IF f.index \notin Chunk
  THEN err' = "out of range" /\ UNCHANGED <<partial, dst, written>>
  ELSE LET i == f.index
           n == span(i).n
           held == IF partial[i] = Empty THEN [k \in 1 .. n |-> 0] ELSE partial[i].buf
           now == [k \in 1 .. n |-> IF k \in f.offset + 1 .. f.offset + Len(f.payload)
                                    THEN f.payload[k - f.offset] ELSE held[k]]
           have == partial[i].have + Len(f.payload)
       IN IF f.offset + Len(f.payload) > n
          THEN err' = "exceeds" /\ UNCHANGED <<partial, dst, written>>
          ELSE /\ partial' = [partial EXCEPT ![i] = IF have < n THEN [buf |-> now, have |-> have]
                                                   ELSE Empty]
               /\ dst' = IF have < n THEN dst ELSE Stored(i, now)
               /\ written' = IF have < n THEN written ELSE written \cup {i}
               /\ UNCHANGED err

(* run takes a frame, or the error of the reader; DATA is the only type    *)
(* that matters to the files.                                              *)
Takes(r) ==
  IF r.err # "none"
  THEN err' = r.err /\ UNCHANGED <<partial, dst, written, heard>>
  ELSE IF r.frame.type = TData
  THEN OnData(r.frame) /\ UNCHANGED heard
  ELSE heard' = Append(heard, r.frame) /\ UNCHANGED <<partial, dst, written, err>>

ReadStream ==
  /\ err = "none" /\ stream # <<>>
  /\ stream' = Read(stream).rest
  /\ Takes(Read(stream))
  /\ UNCHANGED <<carrier, sizes, actual, buf, asked, messages, said>>

ReadMessage(m) ==
  /\ err = "none" /\ messages' = messages \ {m}
  /\ Takes(Decode(m))
  /\ UNCHANGED <<carrier, sizes, actual, buf, asked, stream, said>>
-----------------------------------------------------------------------------
Next ==
  \/ \E i \in Chunk : ReadChunk(i)
  \/ \E f \in Other : Say(f)
  \/ \E n \in 0 .. Len(stream) : Cut(n)
  \/ ReadStream
  \/ \E m \in messages : ReadMessage(m)

Spec == Init /\ [][Next]_vars
-----------------------------------------------------------------------------
(* Properties *)

(* The chunk that an offset of a file belongs to, by definition. *)
ChunkOf(f, o) == (starts(sizes)[f] + o) \div ChunkSize

(* Every byte of a chunk that was written is where it is on the host:      *)
(* whichever files the chunk spans, empty ones included, however DATA was  *)
(* split and in which order it came.  Of a file that is now shorter than   *)
(* in the manifest this says nothing behind its end (source.go:134).       *)
Copied ==
  \A f \in DOMAIN sizes : \A o \in 0 .. actual[f] - 1 :
    ChunkOf(f, o) \in written => dst[f][o + 1] = Content(f, o)

(* Nothing that the host reads and sends is refused: no chunk comes short, *)
(* no message is larger than a data channel takes, no frame is malformed,  *)
(* no DATA is outside its chunk; only a stream that was cut fails, with an *)
(* unexpected EOF.                                                         *)
NothingRefused ==
  /\ err = "none" \/ (err = "eof" /\ carrier = "lost")
  /\ \A m \in messages : Len(m) <= MaxMessage

(* Other frames arrive as they were, in order on a stream, also between    *)
(* DATA and when the stream is cut in the middle of one; the message of an *)
(* ERROR is cut to its limit.                                              *)
Sent(f) == IF f.type = TError THEN [f EXCEPT !.payload = Truncated(@)] ELSE f
HeardAsSaid ==
  /\ carrier # "dc" => IsPrefix(heard, [k \in DOMAIN said |-> Sent(said[k])])
  /\ Range(heard) \subseteq {Sent(f) : f \in Range(said)}
=============================================================================
