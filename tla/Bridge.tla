------------------------------- MODULE Bridge -------------------------------
(***************************************************************************)
(* The message bridge between the native parts: frames of a fixed header   *)
(* and a payload, written and checked by optivio_risk::bridge in Rust and  *)
(* by route_core/bridge.cpp in C++.                                        *)
(*                                                                         *)
(* A sender numbers its frames and passes them to one reader in each       *)
(* language.  The transport is external and may lose, repeat, reorder,     *)
(* cut and lengthen frames and change the version or the length they       *)
(* claim; there is no checksum, so other changes would pass unnoticed.     *)
(* Each reader keeps the sequence it accepted last: an Option in Rust, a   *)
(* number that starts at zero in C++.  Bytes have Base values, so that     *)
(* field widths are those of the code and numbers stay small.              *)
(***************************************************************************)
EXTENDS Integers, Sequences, Functions

CONSTANTS
  Base,       \* values of a byte
  Magic, Version,
  Kinds,      \* values of the kind field in use
  MaxFrames   \* bound: frames sent and frames read

(* Of the bytes of a field, the lowest first, and of the byte above it. *)
Weight ==
  LET b == Base
      c == b * b
      d == c * c
  IN <<1, b, c, b * c, d, d * b, d * c, d * b * c, d * d>>

BridgeAssumption ==
  /\ Base \in Nat \ {0, 1}
  /\ Version \in Nat /\ Version < Weight[3]
  /\ \A kind \in Kinds : kind \in Nat /\ kind < Weight[3]
  /\ Magic \in Nat /\ Magic < Weight[5]
  /\ MaxFrames \in Nat /\ MaxFrames < Weight[9]

VARIABLES
  sent,   \* the headers sent, in order
  wire,   \* the frames the transport may deliver
  rust,   \* [previous, out]: what the Rust reader accepted last, and all of it
  cpp     \* the same of the C++ reader

vars == <<sent, wire, rust, cpp>>

-----------------------------------------------------------------------------
(* Layout: the fields in order, little-endian, at the offsets the readers  *)
(* use.                                                                    *)
Width == [magic |-> 4, version |-> 2, kind |-> 2, sequence |-> 8,
          timestamp_ns |-> 8, payload_len |-> 4, flags |-> 4]
Offset == [magic |-> 0, version |-> 4, kind |-> 6, sequence |-> 8,
           timestamp_ns |-> 16, payload_len |-> 24, flags |-> 28]
HeaderLength == 32

Bytes(n, width) == [i \in 1..width |-> (n \div Weight[i]) % Base]
Value(bytes) == SumFunction([i \in DOMAIN bytes |-> bytes[i] * Weight[i]])
Field(frame, f) == Value(SubSeq(frame, Offset[f] + 1, Offset[f] + Width[f]))

(* encode; without a frame when the header states another length. *)
Encode(header, payload) ==
  IF Len(payload) # header.payload_len THEN << >>
  ELSE Bytes(header.magic, Width.magic) \o Bytes(header.version, Width.version)
       \o Bytes(header.kind, Width.kind) \o Bytes(header.sequence, Width.sequence)
       \o Bytes(header.timestamp_ns, Width.timestamp_ns)
       \o Bytes(header.payload_len, Width.payload_len)
       \o Bytes(header.flags, Width.flags) \o payload

Decode(frame) == [f \in DOMAIN Width |-> Field(frame, f)]

(* Mutant of RustAccepts: the sequence may repeat. *)
RustAcceptsAgain(frame, previous) ==
  /\ Len(frame) >= HeaderLength
  /\ Field(frame, "magic") = Magic
  /\ Field(frame, "version") = Version
  /\ Len(frame) = HeaderLength + Field(frame, "payload_len")
  /\ \A p \in previous : Field(frame, "sequence") >= p

(* validate in Rust; previous is empty for None. *)
RustAccepts(frame, previous) ==
  /\ Len(frame) >= HeaderLength
  /\ Field(frame, "magic") = Magic
  /\ Field(frame, "version") = Version
  /\ Len(frame) = HeaderLength + Field(frame, "payload_len")
  /\ \A p \in previous : Field(frame, "sequence") > p

(* validate in C++. *)
CppAccepts(frame, previous) ==
  /\ ~(Len(frame) < HeaderLength \/ Field(frame, "magic") # Magic
       \/ Field(frame, "version") # Version)
  /\ Field(frame, "payload_len") + HeaderLength = Len(frame)
  /\ Field(frame, "sequence") > previous

-----------------------------------------------------------------------------
Init ==
  /\ sent = << >>
  /\ wire = {}
  /\ rust = [previous |-> {}, out |-> << >>]
  /\ cpp = [previous |-> 0, out |-> << >>]

Header(kind, length) ==
  [magic |-> Magic, version |-> Version, kind |-> kind,
   sequence |-> Len(sent) + 1, timestamp_ns |-> Len(sent) + 1,
   payload_len |-> length, flags |-> 0]

Send ==
  /\ Len(sent) < MaxFrames
  /\ \E kind \in Kinds, length \in 0..1 :
       LET header == Header(kind, length) IN
       /\ sent' = Append(sent, header)
       /\ wire' = wire \cup {Encode(header, [i \in 1..length |-> 1])}
  /\ UNCHANGED <<rust, cpp>>

(* The last byte is lost, or one too many arrives. *)
Resized(frame) == {SubSeq(frame, 1, Len(frame) - 1), Append(frame, 0)}
(* A byte of the version or of the claimed length is another. *)
Changed(frame) ==
  {[frame EXCEPT ![i] = (@ + 1) % Base] : i \in {5, 6} \cup 25..28}

(* Either reader checks what arrives, against the sequence it has. *)
Arrive(frame) ==
  /\ rust' = IF RustAccepts(frame, rust.previous)
             THEN [previous |-> {Field(frame, "sequence")},
                   out |-> Append(rust.out, Decode(frame))] ELSE rust
  /\ cpp' = IF CppAccepts(frame, cpp.previous)
            THEN [previous |-> Field(frame, "sequence"),
                  out |-> Append(cpp.out, Decode(frame))] ELSE cpp
  /\ UNCHANGED <<sent, wire>>

Deliver ==
  \E frame \in wire :
    \E received \in {frame} \cup Resized(frame) \cup Changed(frame) : Arrive(received)

Next == Send \/ Deliver

Spec == Init /\ [][Next]_vars

-----------------------------------------------------------------------------
(* Readers in both languages accept the same frames, only frames as they   *)
(* were sent, each at most once and in the order of their sequence         *)
(* (encode and validate on both sides).  Beyond that nothing is refused: a *)
(* frame ahead of all accepted is taken whatever is missing before it,     *)
(* since validate compares sequences with > and reads no timestamp, while  *)
(* src/docs/message_bridge.md:7 has sequence gaps and stale timestamps     *)
(* rejected and counted.                                                   *)
FramesInOrder ==
  /\ rust.out = cpp.out
  /\ \A i \in DOMAIN rust.out :
       /\ rust.out[i] = sent[rust.out[i].sequence]
       /\ \A j \in 1..(i - 1) : rust.out[j].sequence < rust.out[i].sequence
  /\ \A frame \in wire :
       LET ahead == \A i \in DOMAIN rust.out :
                      rust.out[i].sequence < Field(frame, "sequence") IN
       /\ RustAccepts(frame, rust.previous) = ahead
       /\ CppAccepts(frame, cpp.previous) = ahead
=============================================================================
