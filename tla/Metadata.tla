------------------------------ MODULE Metadata ------------------------------
(***************************************************************************)
(* pkg/metadata: the header of a packet, encoded big-endian into a pooled  *)
(* Buffer and decoded from the bytes of a connection. The same byte moves  *)
(* are inlined in async.go and sync.go.                                    *)
(***************************************************************************)
EXTENDS Integers

CONSTANTS
  Ids, Operations, Lengths, \* values of Id, Operation and ContentLength
  Magics,                   \* values of Magic
  Buffers,                  \* what a Buffer from the pool may hold
  Radix                     \* values of a byte: 256

R2 == Radix * Radix
R3 == R2 * Radix
Uint16 == 0 .. R2 - 1
Uint32 == 0 .. R2 * R2 - 1

ASSUME RadixAssumption == Radix \in Nat \ {0, 1}
ASSUME FieldsAssumption ==
  /\ Magics \subseteq Uint16 /\ Ids \subseteq Uint16 /\ Operations \subseteq Uint16
  /\ Lengths \subseteq Uint32

\* MagicOffset is 0.
IdOffset == 2
OperationOffset == IdOffset + 2
ContentLengthOffset == OperationOffset + 2
Size == ContentLengthOffset + 4

Metadatas == [Magic : Magics, Id : Ids, Operation : Operations, ContentLength : Lengths]

ASSUME BuffersAssumption == Buffers \subseteq [0 .. Size - 1 -> 0 .. Radix - 1]

\* binary.BigEndian (external)
PutUint16(b, at, v) == [b EXCEPT ![at] = (v \div Radix) % Radix, ![at + 1] = v % Radix]
PutUint32(b, at, v) == [b EXCEPT ![at] = (v \div R3) % Radix, ![at + 1] = (v \div R2) % Radix,
                                 ![at + 2] = (v \div Radix) % Radix, ![at + 3] = v % Radix]
GetUint16(b, at) == b[at] * Radix + b[at + 1]
GetUint32(b, at) == b[at] * R3 + b[at + 1] * R2 + b[at + 2] * Radix + b[at + 3]

\* Encode: every field at its offset, over whatever the Buffer held.
Encode(b, m) ==
  PutUint32(PutUint16(PutUint16(PutUint16(b, 0, m.Magic), IdOffset, m.Id),
                      OperationOffset, m.Operation), ContentLengthOffset, m.ContentLength)

\* Decode: every field from its offset.
Decode(b) ==
  [Magic |-> GetUint16(b, 0), Id |-> GetUint16(b, IdOffset),
   Operation |-> GetUint16(b, OperationOffset),
   ContentLength |-> GetUint32(b, ContentLengthOffset)]

\* What Decode returns is what Encode was given, whatever the Buffer held before: no field
\* is cut, shifted into another one or left from an earlier packet (metadata.go:52-82).
RoundTrip == \A m \in Metadatas, b \in Buffers : Decode(Encode(b, m)) = m

=============================================================================
