--------------------------- MODULE SessionInbound ---------------------------
(***************************************************************************)
(* What the bytes of a connection become: SessionActorHost::on_data with   *)
(* the decoders of codec.rs and length_prefixed_decoder.rs.                *)
(*                                                                         *)
(* A client's byte stream reaches on_data in pieces the network chooses.   *)
(* on_data decodes straight from the piece while nothing is left over from *)
(* earlier ones, and from its buffer otherwise.  A length prefix has       *)
(* PrefixSize bytes of Base values each, 4 and 256 in the code.            *)
(***************************************************************************)
EXTENDS Naturals, Sequences, SequencesExt, Folds

CONSTANTS
  Base, PrefixSize,
  MaxFrameLen,     \* LengthPrefixedDecoder::max_frame_len
  MaxStream,       \* the bytes a client sends at most; bounds a run
  Unparsable       \* the payloads deserialize returns None for

Byte == 0 .. Base - 1
Bytes(n) == [1 .. n -> Byte]

ASSUME InboundAssumption ==
  /\ Base \in Nat \ {0, 1} /\ PrefixSize \in Nat \ {0} /\ MaxFrameLen \in Nat
  /\ Base ^ PrefixSize > MaxFrameLen

VARIABLES
  decoder,   \* "raw" for RawFrameDecoder, "prefixed" for LengthPrefixedDecoder
  stream,    \* everything the client will have sent
  seen,      \* how much of it on_data was called with
  inbound,   \* SessionEntry::inbound
  posted,    \* history: the messages posted to the session's actor
  session,   \* "open", "closing" once close was called, "closed"
  restarted  \* history: data was decoded after the rest of a corrupt piece
             \* had been thrown away

vars == <<decoder, stream, seen, inbound, posted, session, restarted>>

Init ==
  /\ decoder \in {"raw", "prefixed"}
  /\ stream \in UNION {Bytes(n) : n \in 0 .. MaxStream}
  /\ seen = 0 /\ inbound = << >> /\ posted = << >>
  /\ session = "open" /\ restarted = FALSE

-----------------------------------------------------------------------------
(* The decoders *)

\* u32::from_be_bytes
BigEndian(bytes) == FoldLeft(LAMBDA value, byte : value * Base + byte, 0, bytes)

Incomplete == [kind |-> "incomplete"]
Corrupt == [kind |-> "corrupt"]
Frame(total, messages) == [kind |-> "frame", consumed |-> total, messages |-> messages]

\* A frame whose payload cannot be deserialized has no message.
Deserialize(payload) == IF payload \in Unparsable THEN << >> ELSE <<payload>>

PayloadLen(buffer) == BigEndian(SubSeq(buffer, 1, PrefixSize))

\* a frame whose length has been accepted
Payload(buffer) ==
  LET total == PrefixSize + PayloadLen(buffer)
  IN  IF Len(buffer) < total THEN Incomplete
      ELSE Frame(total, Deserialize(SubSeq(buffer, PrefixSize + 1, total)))

\* Mutant: the largest frame is refused.
LengthPrefixed_BelowMax(buffer) ==
  IF Len(buffer) < PrefixSize THEN Incomplete
  ELSE IF PayloadLen(buffer) >= MaxFrameLen THEN Corrupt
  ELSE Payload(buffer)

\* Mutant: every length is believed.
LengthPrefixed_NoMax(buffer) ==
  IF Len(buffer) < PrefixSize THEN Incomplete ELSE Payload(buffer)

LengthPrefixed(buffer) ==
  IF Len(buffer) < PrefixSize THEN Incomplete
  ELSE IF PayloadLen(buffer) > MaxFrameLen THEN Corrupt
  ELSE Payload(buffer)

RawFrame(buffer) == IF buffer = << >> THEN Incomplete ELSE Frame(Len(buffer), <<buffer>>)

TryDecode(buffer) == IF decoder = "raw" THEN RawFrame(buffer) ELSE LengthPrefixed(buffer)

\* The decoding loop of on_data: from each offset, the messages it posts, the
\* offset it stops at and whether the data there is corrupt
Decoded(buffer) ==
  LET Rest(offset) == SubSeq(buffer, offset + 1, Len(buffer))
      From[offset \in 0 .. Len(buffer)] ==
        LET result == TryDecode(Rest(offset))
        IN  IF result.kind # "frame"
            THEN [messages |-> << >>, rest |-> Rest(offset), corrupt |-> result = Corrupt]
            ELSE LET next == From[offset + result.consumed]
                 IN  [next EXCEPT !.messages = result.messages \o @]
  IN  From[0]

\* length_prefixed_frame; the length is cut to the width of the prefix.
Digits(n) == [i \in 1 .. PrefixSize |-> (n \div Base ^ (PrefixSize - i)) % Base]
LengthPrefixedFrame(payload) == Digits(Len(payload)) \o payload

-----------------------------------------------------------------------------
(* on_data *)

\* What is left of corrupt data is thrown away with the piece it came in, or
\* stays in the buffer.
FastPath(data) ==
  LET decoded == Decoded(data)
  IN  /\ inbound = << >>
      /\ posted' = posted \o decoded.messages
      /\ inbound' = IF decoded.corrupt THEN << >> ELSE decoded.rest
      /\ session' = IF decoded.corrupt THEN "closing" ELSE session
      /\ restarted' = (restarted \/ session = "closing")

\* Mutant: the bytes of the frames that were posted stay in the buffer.
SlowPath_NotDrained(data) ==
  LET decoded == Decoded(inbound \o data)
  IN  /\ inbound # << >>
      /\ posted' = posted \o decoded.messages
      /\ inbound' = inbound \o data
      /\ session' = IF decoded.corrupt THEN "closing" ELSE session
      /\ UNCHANGED restarted

SlowPath(data) ==
  LET decoded == Decoded(inbound \o data)
  IN  /\ inbound # << >>
      /\ posted' = posted \o decoded.messages
      /\ inbound' = decoded.rest
      /\ session' = IF decoded.corrupt THEN "closing" ELSE session
      /\ UNCHANGED restarted

\* A read of any size.  Until the reactor gets to the pending close it goes
\* on reading.
OnData ==
  /\ session # "closed"
  /\ \E n \in seen + 1 .. Len(stream) :
       /\ seen' = n
       /\ LET data == SubSeq(stream, seen + 1, n)
          IN  FastPath(data) \/ SlowPath(data)
  /\ UNCHANGED <<decoder, stream>>

\* The reactor closes the session, on its request or because the client has
\* gone; on_disconnected forgets its entry.
OnDisconnected ==
  /\ session # "closed"
  /\ session' = "closed"
  /\ inbound' = << >>
  /\ UNCHANGED <<decoder, stream, seen, posted, restarted>>

Next == OnData \/ OnDisconnected

Spec == Init /\ [][Next]_vars

-----------------------------------------------------------------------------
(* Properties *)

Payloads == UNION {Bytes(n) : n \in 0 .. MaxFrameLen}
Seen == SubSeq(stream, 1, seen)

Encoded(payloads) == FlattenSeq([i \in DOMAIN payloads |-> LengthPrefixedFrame(payloads[i])])

\* The reference: the longest list of payloads whose frames, as the encoder
\* writes them, begin what has been seen
Framed ==
  LET lists == {l \in UNION {[1 .. n -> Payloads] : n \in 0 .. seen \div PrefixSize} :
                  IsPrefix(Encoded(l), Seen)}
  IN  CHOOSE l \in lists : \A k \in lists : Len(k) <= Len(l)

\* What follows them begins with a length no frame may have.
SeenCorrupt ==
  LET rest == SubSeq(Seen, Len(Encoded(Framed)) + 1, seen)
  IN  Len(rest) >= PrefixSize /\ PayloadLen(rest) > MaxFrameLen

\* However the stream is cut into pieces, the actor is posted the messages
\* that were encoded, in order, each as soon as its last byte is there, and
\* nothing behind a corrupt length; raw data is posted whole.  One case is
\* excepted: when on_data meets the corrupt length while its buffer is empty it
\* forgets about it, and a piece that is read before the session is closed is
\* decoded from its start.
PostsEncoded ==
  IF decoder = "raw" THEN FlattenSeq(posted) = Seen
  ELSE restarted \/ posted = FlattenSeq([i \in DOMAIN Framed |-> Deserialize(Framed[i])])

\* The session is asked to close when a corrupt length has been seen, and
\* never for another reason, whichever path finds it.
ClosesOnCorrupt ==
  session # "closed" => (session = "closing" <=> decoder = "prefixed" /\ SeenCorrupt)

\* The buffer of an open session holds less than the largest frame.
BufferBounded == session = "open" => Len(inbound) < PrefixSize + MaxFrameLen
=============================================================================
