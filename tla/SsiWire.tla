------------------------------ MODULE SsiWire ------------------------------
(***************************************************************************)
(* The SSI server with the decoder that gives it its frames: what it must  *)
(* make of the messages that its clients send, however the network cuts    *)
(* their bytes.                                                            *)
(***************************************************************************)
EXTENDS SsiServer, SsiDecoder

CONSTANTS
  Messages,   \* what clients send: whole frames, or bytes that are out of step
  Tails       \* what may follow them, for the time being: less than a frame

Whole(bytes) == ~Waits(bytes) /\ ~OutOfStep(bytes) /\ Len(bytes) = FrameLength(bytes)

\* What a message is to the decoder, and to the server.
Found(message) == IF OutOfStep(message) THEN "fatal" ELSE Verdict(message)
Kind(message)  == IF Found(message) \in {"fatal", "request"} THEN Found(message) ELSE "garbled"

ASSUME SsiWireAssumption ==
  /\ \A m \in Messages : m \in Seq(Byte) /\ (Whole(m) \/ OutOfStep(m))
  /\ \A t \in Tails : t \in Seq(Byte) /\ Waits(t)
  /\ \A kind \in {"request", "garbled", "fatal"} : \E m \in Messages : Kind(m) = kind

\* Sequences one after the other, as one.
Joined(parts) ==
  LET joined[n \in 0 .. Len(parts)] == IF n = 0 THEN << >> ELSE joined[n - 1] \o parts[n]
  IN  joined[Len(parts)]

\* However the messages and what follows them are cut into three chunks, the
\* frames heard are the messages', in their order, and the rest stays pending.
Alike(stream, tail) ==
  LET bytes == Joined(stream) \o tail
      found == [i \in DOMAIN stream |-> Found(stream[i])]
  IN
  \A i \in 0 .. Len(bytes) : \A j \in i .. Len(bytes) :
    LET decoded == Decode(<<SubSeq(bytes, 1, i), SubSeq(bytes, i + 1, j),
                            SubSeq(bytes, j + 1, Len(bytes))>>)
    IN  /\ Heard(decoded.frames) = Heard(found)
        /\ Contains(found, "fatal") \/ decoded.pending = tail

Kinds(stream) == [i \in DOMAIN stream |-> Kind(stream[i])]

\* As many messages as a client may send.
Streams == UNION {UNION {[1 .. n -> Messages] : n \in 0 .. MaxSent[p]} : p \in Peers}

\* The sequences of frames that are the same in any chunks.
DecodedAlike ==
  {Kinds(s) : s \in Streams} \ {Kinds(s) : s \in {s \in Streams : \E t \in Tails : ~Alike(s, t)}}

-----------------------------------------------------------------------------
\* Property.

\* The frames that wait on a connection, in their order, are those that the
\* decoder makes of the bytes, however these are split over chunks or joined: a
\* frame in the data of another is never taken for a request, and nothing is
\* heard after bytes out of step.
ChunksDoNotMatter ==
  \A p \in Peers :
    LET queue == sockets[p].queue IN
    [i \in DOMAIN queue |-> queue[i].request.frame] \in DecodedAlike
=============================================================================
