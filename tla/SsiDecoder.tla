----------------------------- MODULE SsiDecoder -----------------------------
(***************************************************************************)
(* The frames of the SSI wire: how a message is encoded, and how the       *)
(* stream of bytes, in whatever chunks it comes, is decoded.  There is no  *)
(* state but the bytes that wait for the rest of their frame.              *)
(***************************************************************************)
EXTENDS Naturals, FiniteSets, Sequences, SequencesExt

CONSTANT Json   \* the bytes that are JSON in UTF-8

Byte   == 0 .. 255
Prefix == <<2, 102, 1>>

\* Exclusive or, bit by bit: whether an odd number of the bytes have it.
Odd(bytes, bit) == Cardinality({i \in DOMAIN bytes : (bytes[i] \div bit) % 2 = 1}) % 2

Lrc(bytes) ==
  Odd(bytes, 1) + 2 * Odd(bytes, 2) + 4 * Odd(bytes, 4) + 8 * Odd(bytes, 8)
    + 16 * Odd(bytes, 16) + 32 * Odd(bytes, 32) + 64 * Odd(bytes, 64) + 128 * Odd(bytes, 128)

\* Of at most 65535 bytes; encode() throws for more.
Encode(data) ==
  Prefix \o <<Len(data) \div 256, Len(data) % 256>> \o data \o <<Lrc(data)>>

\* Of what is pending: the length of its first frame; whether there is none for
\* want of bytes, or never will be.
FrameLength(pending) == pending[4] * 256 + pending[5] + 6
OutOfStep(pending)   == Len(pending) >= 5 /\ SubSeq(pending, 1, 3) # Prefix
Waits(pending)       == Len(pending) < 5 \/ (~OutOfStep(pending) /\ Len(pending) < FrameLength(pending))

\* What a whole frame is found to be.
Verdict(raw) ==
  LET data == SubSeq(raw, 6, Len(raw) - 1) IN
  IF Lrc(data) # raw[Len(raw)] THEN "E02" ELSE IF data \in Json THEN "request" ELSE "E03"

\* push()'s loop over what is pending: the frames found, and what is left.
Drain[pending \in Seq(Byte)] ==
  IF Waits(pending) THEN [frames |-> << >>, pending |-> pending]
  ELSE IF OutOfStep(pending) THEN [frames |-> <<"fatal">>, pending |-> << >>]
  ELSE LET length == FrameLength(pending)
           rest   == Drain[SubSeq(pending, length + 1, Len(pending))]
       IN  [frames  |-> <<Verdict(SubSeq(pending, 1, length))>> \o rest.frames,
            pending |-> rest.pending]

\* Mutant: what is pending is forgotten.
PushAfresh(decoder, chunk) ==
  [frames  |-> decoder.frames \o Drain[chunk].frames,
   pending |-> Drain[chunk].pending]

\* push(), collecting the frames of all its calls.
Push(decoder, chunk) ==
  LET drained == Drain[decoder.pending \o chunk]
  IN  [frames |-> decoder.frames \o drained.frames, pending |-> drained.pending]

Decode(chunks) ==
  LET decoder[n \in 0 .. Len(chunks)] ==
        IF n = 0 THEN [frames |-> << >>, pending |-> << >>] ELSE Push(decoder[n - 1], chunks[n])
  IN  decoder[Len(chunks)]

\* A connection listens to no frame after one that is out of step.
Heard(frames) ==
  IF Contains(frames, "fatal") THEN SubSeq(frames, 1, SelectInSeq(frames, LAMBDA f : f = "fatal"))
  ELSE frames
=============================================================================
