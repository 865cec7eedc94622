------------------------------- MODULE MqttCodec -------------------------------
(***************************************************************************)
(* The MQTT v3 frame decoder of src/v3/codec/codec.rs, fed by a transport *)
(* that delivers the peer's bytes in chunks of any size.                   *)
(*                                                                         *)
(* A frame is a first byte, the remaining length as a variable-length      *)
(* integer (little-endian digits, a continuation flag per byte, at most    *)
(* four bytes) and that many body bytes.  The code's digit base is 128     *)
(* (low 7 bits, high bit = continuation); the model keeps the encoding and *)
(* scales the base down to Radix so that multi-byte lengths stay small.   *)
(* decode_packet is abstracted to its outcome: a first byte in BadTypes   *)
(* (e.g. the reserved packet type 0) is rejected, any other is a packet.   *)
(***************************************************************************)
EXTENDS Naturals, Sequences, SequencesExt

CONSTANTS
  Radix,       \* the varint digit base: 128 in the code
  MaxSize,     \* Codec.max_size; 0 means unlimited
  FirstBytes,  \* the first bytes the peer sends
  BadTypes,    \* the first bytes decode_packet rejects
  BodyByte,    \* the one body byte value (body contents are not inspected)
  MaxBody,     \* the largest body the peer sends
  NumFrames,   \* how many frames the peer sends
  MaxChunk     \* the most bytes one read of the transport delivers

ASSUME CodecAssumptions ==
  /\ Radix \in Nat \ {0, 1}
  /\ MaxSize \in Nat
  /\ FirstBytes \subseteq Nat /\ BadTypes \subseteq FirstBytes
  /\ BodyByte \in Nat
  /\ MaxBody \in Nat /\ NumFrames \in Nat /\ MaxChunk \in Nat \ {0}

Bodies  == {[i \in 1..n |-> BodyByte] : n \in 0..MaxBody}
Errors  == [error : {"MaxSizeExceeded", "InvalidLength", "Malformed"}]
Header  == [tag |-> "FrameHeader"]                 \* DecodeState::FrameHeader
Frames  == [tag : {"Frame"}, fb : FirstBytes, len : Nat]  \* DecodeState::Frame

-----------------------------------------------------------------------------
(* The fixed-header integer (src/utils.rs, outside src/v3).                *)

VarLenMaxBytes == 4     \* shift > 21 after the fourth byte: InvalidLength

\* the fewest digits that hold l
VarLenDigits(l) == CHOOSE n \in 1..VarLenMaxBytes :
                      l < Radix^n /\ (n = 1 \/ l >= Radix^(n-1))

\* l in n little-endian digits, continuation on all but the last; the peer
\* may pad with zero digits, or send one byte too many (n = 5)
EncodeVarLen(l, n) ==
  [j \in 1..n |-> ((l \div Radix^(j-1)) % Radix) + (IF j < n THEN Radix ELSE 0)]

\* decode_variable_length: the index of the first byte without continuation
VarLenEnd(bs) == {i \in 1..Len(bs) : i <= VarLenMaxBytes /\ bs[i] < Radix
                                    /\ \A j \in 1..(i-1) : bs[j] >= Radix}
VarLenIncomplete(bs) == VarLenEnd(bs) = {} /\ Len(bs) < VarLenMaxBytes
VarLenInvalid(bs)    == VarLenEnd(bs) = {} /\ Len(bs) >= VarLenMaxBytes
VarLenUsed(bs)  == CHOOSE i \in VarLenEnd(bs) : TRUE
VarLenValue(bs) ==
  LET n == VarLenUsed(bs)
      d(j) == IF j <= n THEN (bs[j] % Radix) * Radix^(j-1) ELSE 0
  IN  d(1) + d(2) + d(3) + d(4)

\* what the peer sends: a packet and the length of its length field
PeerFrames == {f \in [fb : FirstBytes, body : Bodies, digits : 1..(VarLenMaxBytes + 1)] :
                 f.digits >= VarLenDigits(Len(f.body))}

\* the bytes of a frame: first byte, remaining length, body
Encode(f) == <<f.fb>> \o EncodeVarLen(Len(f.body), f.digits) \o f.body

\* the bytes of a sequence of packets, back to back on the wire
Wire(ps) == FlattenSeq([i \in DOMAIN ps |-> Encode(ps[i])])

\* BytesMut::advance(n) and the rest left by split_to(n)
Advance(b, n) == SubSeq(b, n + 1, Len(b))

\* src_slice[0]; a mutant takes the byte after it
FirstByteAfter(b) == b[2]
FirstByte(b) == b[1]

\* consumed + 1: the length field and the first byte; a mutant forgets the latter
HeaderLenNoFirstByte(bs) == VarLenUsed(bs)
HeaderLen(bs) == VarLenUsed(bs) + 1

-----------------------------------------------------------------------------
VARIABLES
  sent,     \* the packets the peer sent, in order
  wire,     \* their bytes not yet read by the transport
  src,      \* the BytesMut handed to decode
  state,    \* Codec.state
  out,      \* what the calls of decode returned (packets and errors), in order
  failed    \* a decode error was returned and the connection closes

vars == <<sent, wire, src, state, out, failed>>

\* a mutant leaves the state at Frame after a packet was decoded
FrameDoneNoReset(fx, b) ==
  /\ src' = Advance(b, fx.len)
  /\ out' = Append(out, IF fx.fb \in BadTypes THEN [error |-> "Malformed"]
                        ELSE [fb |-> fx.fb, body |-> SubSeq(b, 1, fx.len)])
  /\ failed' = (fx.fb \in BadTypes)
  /\ state' = fx

\* the decode loop reached a frame whose body is all in src
FrameDone(fx, b) ==
  /\ src' = Advance(b, fx.len)                         \* src.split_to(len)
  /\ \/ /\ fx.fb \notin BadTypes
        /\ out' = Append(out, [fb |-> fx.fb, body |-> SubSeq(b, 1, fx.len)])
        /\ state' = Header
        /\ UNCHANGED failed
     \/ /\ fx.fb \in BadTypes                         \* decode_packet(..)?
        /\ out' = Append(out, [error |-> "Malformed"])
        /\ failed' = TRUE
        /\ state' = fx                               \* state stays Frame

(* One call of Decoder::decode in state FrameHeader that gets past the     *)
(* fixed header; it either stops for more bytes in state Frame or loops    *)
(* on and decodes the frame.                                               *)
DecodeHeader ==
  LET bs == Tail(src)
      fx == [tag |-> "Frame", fb |-> FirstByte(src), len |-> VarLenValue(bs)]
      rest == Advance(src, HeaderLen(bs))                \* src.advance(consumed + 1)
  IN /\ ~failed
     /\ state = Header
     /\ Len(src) >= 2
     /\ ~VarLenIncomplete(bs)
     /\ \/ /\ VarLenInvalid(bs)
           /\ out' = Append(out, [error |-> "InvalidLength"])
           /\ failed' = TRUE
           /\ UNCHANGED <<src, state>>
        \/ /\ ~VarLenInvalid(bs)
           /\ MaxSize # 0 /\ MaxSize < fx.len
           /\ out' = Append(out, [error |-> "MaxSizeExceeded"])
           /\ failed' = TRUE
           /\ UNCHANGED <<src, state>>
        \/ /\ ~VarLenInvalid(bs)
           /\ ~(MaxSize # 0 /\ MaxSize < fx.len)
           /\ \/ /\ Len(rest) < fx.len                 \* reserve, Ok(None)
                 /\ state' = fx
                 /\ src' = rest
                 /\ UNCHANGED <<out, failed>>
              \/ /\ Len(rest) >= fx.len
                 /\ FrameDone(fx, rest)
  /\ UNCHANGED <<sent, wire>>

\* a mutant waits for one byte more than the body
DecodeBodyStrict ==
  /\ ~failed
  /\ state \in Frames
  /\ Len(src) > state.len
  /\ FrameDone(state, src)
  /\ UNCHANGED <<sent, wire>>

(* One call of Decoder::decode in state Frame with the whole body read.   *)
DecodeBody ==
  /\ ~failed
  /\ state \in Frames
  /\ Len(src) >= state.len
  /\ FrameDone(state, src)
  /\ UNCHANGED <<sent, wire>>

(* The transport reads the next n bytes of the stream into src.            *)
Read(n) ==
  /\ ~failed
  /\ n <= Len(wire)
  /\ src' = src \o SubSeq(wire, 1, n)
  /\ wire' = Advance(wire, n)
  /\ UNCHANGED <<sent, state, out, failed>>

Init ==
  /\ sent \in [1..NumFrames -> PeerFrames]
  /\ wire = Wire(sent)
  /\ src = <<>>
  /\ state = Header
  /\ out = <<>>
  /\ failed = FALSE

Next ==
  \/ DecodeHeader
  \/ DecodeBody
  \/ \E n \in 1..MaxChunk : Read(n)

(* The dispatcher decodes after every read, and the peer's bytes keep     *)
(* arriving while the connection is open.                                  *)
Spec == Init /\ [][Next]_vars /\ WF_vars(DecodeHeader) /\ WF_vars(DecodeBody)
                             /\ \A n \in 1..MaxChunk : WF_vars(Read(n))

-----------------------------------------------------------------------------
(* Properties.                                                             *)

TypeOK ==
  /\ sent \in Seq(PeerFrames)
  /\ wire \in Seq(Nat) /\ src \in Seq(Nat)
  /\ state \in {Header} \cup Frames
  /\ out \in Seq([fb : FirstBytes, body : Seq(Nat)] \cup Errors)
  /\ failed \in BOOLEAN

\* what decoding frame f must yield
Expected(f) ==
  IF f.digits > VarLenMaxBytes THEN [error |-> "InvalidLength"]
  ELSE IF MaxSize # 0 /\ MaxSize < Len(f.body) THEN [error |-> "MaxSizeExceeded"]
  ELSE IF f.fb \in BadTypes THEN [error |-> "Malformed"]
  ELSE [fb |-> f.fb, body |-> f.body]

(* However the transport splits the byte stream into reads, decode returns *)
(* exactly the frames the peer sent, in order, each once, and reports an  *)
(* oversized or undecodable frame at its own place in the stream.          *)
FramesInOrder ==
  /\ Len(out) <= Len(sent)
  /\ \A i \in 1..Len(out) : out[i] = Expected(sent[i])

(* Every frame the peer sends is eventually decoded, unless decode has     *)
(* reported an error and the connection is closing (spec 4.1, 5: a frame  *)
(* whose bytes have all arrived is never left waiting in the buffer).      *)
AllFramesDecoded == <>(failed \/ Len(out) = Len(sent))

=============================================================================
