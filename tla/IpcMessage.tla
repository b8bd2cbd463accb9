----------------------------- MODULE IpcMessage -----------------------------
(***************************************************************************)
(* IPCMessage and its CRC-32 (ipc_message.hpp).  A machine word is the set *)
(* of its one bits, a byte a subset of 0 .. 7.  A buffer is counted in     *)
(* cells: the header is one cell, each payload byte another.  Of the       *)
(* header the model keeps the sequence number, the length and the          *)
(* checksum; magic and version are the ones every constructor writes.      *)
(***************************************************************************)
EXTENDS Integers, Sequences, SequencesExt, FiniteSetsExt

kHeader == 1    \* sizeof(IPCHeader), in cells

Shr(w, n) == {b - n : b \in {x \in w : x >= n}}
Ones      == 0 .. 31
Nibble(n) == {b \in 0 .. 3 : (n \div 2^b) % 2 = 1}
Word(hex) == {b \in Ones : b % 4 \in Nibble(hex[8 - (b \div 4)])}

kTable ==
  LET hex == << <<0, 0, 0, 0, 0, 0, 0, 0>>,     <<1, 13, 11, 7, 1, 0, 6, 4>>,
                <<3, 11, 6, 14, 2, 0, 12, 8>>,  <<2, 6, 13, 9, 3, 0, 10, 12>>,
                <<7, 6, 13, 12, 4, 1, 9, 0>>,   <<6, 11, 6, 11, 5, 1, 15, 4>>,
                <<4, 13, 11, 2, 6, 1, 5, 8>>,   <<5, 0, 0, 5, 7, 1, 3, 12>>,
                <<14, 13, 11, 8, 8, 3, 2, 0>>,  <<15, 0, 0, 15, 9, 3, 4, 4>>,
                <<13, 6, 13, 6, 10, 3, 14, 8>>, <<12, 11, 6, 1, 11, 3, 8, 12>>,
                <<9, 11, 6, 4, 12, 2, 11, 0>>,  <<8, 6, 13, 3, 13, 2, 13, 4>>,
                <<10, 0, 0, 10, 14, 2, 7, 8>>,  <<11, 13, 11, 13, 15, 2, 1, 12>> >>
  IN  [i \in SUBSET (0 .. 3) |-> Word(hex[1 + MapThenSumSet(LAMBDA b : 2^b, i)])]

\* crc = (crc >> 4) ^ kTable[(crc ^ n) & 0x0F]
NibbleStep(crc, n) == SymDiff(Shr(crc, 4), kTable[SymDiff(crc, n) \cap (0 .. 3)])

\* Mutant: the high half of each byte goes first.
Halves_HighFirst(data) ==
  [k \in 1 .. 2 * Len(data) |->
     IF k % 2 = 1 THEN Shr(data[(k + 1) \div 2], 4) ELSE data[k \div 2]]

\* The low half of each byte, then its high half.
Halves(data) ==
  [k \in 1 .. 2 * Len(data) |->
     IF k % 2 = 1 THEN data[(k + 1) \div 2] ELSE Shr(data[k \div 2], 4)]

crc32_update(crc, data) ==
  LET step[w \in SUBSET Ones, n \in SUBSET (0 .. 7)] == NibbleStep(w, n)
      reg[k \in 0 .. 2 * Len(data)] ==
        IF k = 0 THEN SymDiff(Ones, crc) ELSE step[reg[k - 1], Halves(data)[k]]
  IN  SymDiff(Ones, reg[2 * Len(data)])

compute_checksum(data) == IF data = <<>> THEN {} ELSE crc32_update({}, data)

\* The constructor: a null payload is the empty sequence, whatever the length.
\* make() calls it with the payload and its size.
Construct(sequence, payload, length) ==
  [sequence |-> sequence, length |-> length, checksum |-> compute_checksum(payload),
   data |-> payload]

Header(m) == [sequence |-> m.sequence, length |-> m.length, checksum |-> m.checksum]

\* Header, then payload, one cell after the other.
to_buffer(m) == <<[hdr |-> Header(m)]>> \o [i \in DOMAIN m.data |-> [byte |-> m.data[i]]]

\* Does from_buffer() return a valid message?
Parses(buf) == Len(buf) >= kHeader /\ Len(buf) >= kHeader + buf[1].hdr.length

from_buffer(buf) ==
  [sequence |-> buf[1].hdr.sequence, length |-> buf[1].hdr.length,
   checksum |-> buf[1].hdr.checksum,
   data     |-> [i \in 1 .. buf[1].hdr.length |-> buf[kHeader + i].byte]]

\* Mutant: there is nothing to verify in an empty payload.
verify_checksum_EmptyPasses(m) == m.data = <<>> \/ m.checksum = compute_checksum(m.data)

verify_checksum(m) == m.checksum = compute_checksum(m.data)

\* The reference: CRC-32 of ISO 3309, one bit at a time, least significant
\* bit first, with the reflected polynomial.
Polynomial == Word(<<14, 13, 11, 8, 8, 3, 2, 0>>)

Iso3309(data) ==
  LET Bit(k) == (k - 1) % 8 \in data[1 + (k - 1) \div 8]
      step[w \in SUBSET Ones, bit \in BOOLEAN] ==
        SymDiff(Shr(w, 1), IF (0 \in w) # bit THEN Polynomial ELSE {})
      reg[k \in 0 .. 8 * Len(data)] ==
        IF k = 0 THEN Ones ELSE step[reg[k - 1], Bit(k)]
  IN  SymDiff(Ones, reg[8 * Len(data)])
=============================================================================
