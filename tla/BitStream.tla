------------------------------ MODULE BitStream ------------------------------
(***************************************************************************)
(* BitStream, the serialize and deserialize overloads, quantization and    *)
(* the deltas of NetworkVariable (src/include/campello_net/serialization   *)
(* and network_replication.hpp): a writer appends values of different      *)
(* kinds, the reader gets the whole bytes and reads the same kinds in the  *)
(* same order.                                                             *)
(*                                                                         *)
(* A stream is its sequence of bits.  Widths are scaled: a byte has BsByte *)
(* bits (8), a word two bytes (every integer of several bytes and, after   *)
(* an alignment, every float), a varint at most BsVarintBytes bytes (10).  *)
(***************************************************************************)
EXTENDS Integers, Sequences, SequencesExt

CONSTANTS
  BsByte,          \* bits of a byte
  BsVarintBytes,   \* bytes of the longest varint
  BsMaxString,     \* longest string read_string accepts (65535)
  BsMaxVector,     \* longest vector deserialize accepts (1000000)
  BsShift,         \* width of the unsigned of write_quantized (32)
  BsLittle,        \* std::endian::native is little
  BsItems,         \* the values that are written
  BsMaxItems       \* bound: values written

ASSUME BsAssumption ==
  /\ BsByte \in Nat \ {0, 1} /\ BsVarintBytes \in Nat \ {0}
  /\ BsMaxString \in Nat /\ BsMaxVector \in Nat /\ BsShift \in Nat \ {0} /\ BsLittle \in BOOLEAN
  /\ BsMaxItems \in Nat

VARIABLES
  bs_bits,      \* what the writer has written
  bs_written,   \* history: the values written
  bs_ends,      \* history: write_bit_pos_ after each of them
  bs_reader,    \* the stream made from span(), or nothing
  bs_pos,       \* read_bit_pos_ of the reader
  bs_got        \* what the reader read: [ok, value]

bs_vars == <<bs_bits, bs_written, bs_ends, bs_reader, bs_pos, bs_got>>

BsTypeOK ==
  /\ bs_bits \in Seq({0, 1})
  /\ bs_written \in Seq(BsItems)
  /\ bs_ends \in Seq(Nat) /\ Len(bs_ends) = Len(bs_written)
  /\ bs_reader \in Seq({0, 1}) /\ Len(bs_reader) % BsByte = 0
  /\ bs_pos \in 0 .. Len(bs_reader)
  /\ Len(bs_got) <= Len(bs_written)

BitStreamInit ==
  /\ bs_bits = << >> /\ bs_written = << >> /\ bs_ends = << >>
  /\ bs_reader = << >> /\ bs_pos = 0 /\ bs_got = << >>

-----------------------------------------------------------------------------
(* Writing: each operator gives the bits that follow bits.                 *)

\* The lowest n bits of v, the most significant first.
Bits(v, n) == [i \in 1 .. n |-> (v \div 2 ^ (n - i)) % 2]

Value(bits) == FoldLeft(LAMBDA v, b : 2 * v + b, 0, bits)

Padding_Rest(len) == len % BsByte

Padding(len) == (BsByte - (len % BsByte)) % BsByte

align_to_byte(bits) == bits \o [i \in 1 .. Padding(Len(bits)) |-> 0]

\* to_net swaps the bytes of a word on a machine that is little endian.
to_net(v) ==
  LET base == 2 ^ BsByte IN
  IF BsLittle THEN ((v % base) * base) + (v \div base) ELSE v

write_word(bits, v) == bits \o Bits(to_net(v), 2 * BsByte)

write_float_Unaligned(bits, v) == write_word(bits, v)

write_float(bits, v) == write_word(align_to_byte(bits), v)

\* The groups of a varint, the lowest first; all but the last one are marked.
VarintGroups(v) ==
  LET base == 2 ^ (BsByte - 1)
      n == CHOOSE k \in 1 .. BsVarintBytes :
             v < base ^ k /\ \A j \in 1 .. k - 1 : v >= base ^ j IN
  [i \in 1 .. n |-> ((v \div base ^ (i - 1)) % base) + (IF i < n THEN base ELSE 0)]

Bytes(seq) == FlattenSeq([i \in DOMAIN seq |-> Bits(seq[i], BsByte)])

write_varint(bits, v) == align_to_byte(bits) \o Bytes(VarintGroups(v))

write_bytes(bits, seq) == align_to_byte(bits) \o Bytes(seq)

write_string(bits, seq) == write_bytes(write_varint(bits, Len(seq)), seq)

write_vector(bits, seq) ==
  write_varint(bits, Len(seq)) \o
    FlattenSeq([i \in DOMAIN seq |-> Bits(to_net(seq[i]), 2 * BsByte)])

\* serialize_delta against a baseline.
serialize_delta(bits, v, baseline) ==
  IF v = baseline THEN Append(bits, 0) ELSE write_word(Append(bits, 1), v)

\* write_half: a float is sign, exp and man, scaled to 3 and 2 bits with bias 3;
\* a half has an exponent of 2 bits, with bias 1, and a mantissa of 1 bit.
ToHalf(f) ==
  LET new_exp == f.exp - 3 + 1 IN
  IF f.exp = 0 THEN [sign |-> f.sign, exp |-> 0, man |-> 0]
  ELSE IF f.exp = 7 THEN [sign |-> f.sign, exp |-> 3, man |-> IF f.man # 0 THEN 1 ELSE 0]
  ELSE IF new_exp >= 3 THEN [sign |-> f.sign, exp |-> 3, man |-> 0]
  ELSE IF new_exp <= 0 THEN [sign |-> f.sign, exp |-> 0, man |-> 0]
  ELSE [sign |-> f.sign, exp |-> new_exp, man |-> f.man \div 2]

write_half(bits, f) ==
  LET h == ToHalf(f) IN align_to_byte(bits) \o <<h.sign>> \o Bits(h.exp, 2) \o Bits(h.man, 1)

\* write_quantized of v with n bits: clamped to 0 .. range, rounded to the nearest
\* step.  A shift by the whole width is undefined; the processor shifts by 0.
QuantMax(n) == 2 ^ (n % BsShift) - 1

Clamp(v, range) == IF v < 0 THEN 0 ELSE IF v > range THEN range ELSE v

Quantized_Down(v, range, n) == (Clamp(v, range) * QuantMax(n)) \div range

Quantized(v, range, n) == (2 * Clamp(v, range) * QuantMax(n) + range) \div (2 * range)

\* write_smallest_three: the components are whole numbers that quantization keeps
\* (3 bits with an offset of 3).  The first of the largest is left out.
AbsVal(x) == IF x < 0 THEN -x ELSE x

LargestIndex(q) ==
  CHOOSE i \in 1 .. 4 : /\ \A j \in 1 .. 4 : AbsVal(q[j]) <= AbsVal(q[i])
                        /\ \A j \in 1 .. i - 1 : AbsVal(q[j]) < AbsVal(q[i])

Others(q, i) == [j \in 1 .. 3 |-> IF j < i THEN q[j] ELSE q[j + 1]]

write_smallest_three(bits, q) ==
  LET i == LargestIndex(q) IN
  bits \o Bits(i - 1, 2) \o FlattenSeq([j \in 1 .. 3 |-> Bits(Others(q, i)[j] + 3, 3)])

\* write_* and serialize of one value.
serialize(bits, it) ==
  CASE it.type = "bits" -> bits \o Bits(it.value, it.n)
    [] it.type = "word" -> write_word(bits, it.value)
    [] it.type = "float" -> write_float(bits, it.value)
    [] it.type = "varint" -> write_varint(bits, it.value)
    [] it.type = "string" -> write_string(bits, it.value)
    [] it.type = "vector" -> write_vector(bits, it.value)
    [] it.type = "delta" -> serialize_delta(bits, it.value, it.baseline)
    [] it.type = "half" -> write_half(bits, it.value)
    [] it.type = "quantized" -> bits \o Bits(Quantized(it.value, it.range, it.n), it.n)
    [] it.type = "quat" -> write_smallest_three(bits, it.value)

-----------------------------------------------------------------------------
(* Reading: each operator gives whether it succeeds, the value and the     *)
(* position after it.                                                      *)

Failed(pos) == [ok |-> FALSE, value |-> 0, pos |-> pos]
Read(value, pos) == [ok |-> TRUE, value |-> value, pos |-> pos]

read_bits(pos, n) ==
  IF pos + n > Len(bs_reader) THEN Failed(pos)
  ELSE Read(Value(SubSeq(bs_reader, pos + 1, pos + n)), pos + n)

align_read_to_byte(pos) == pos + Padding(pos)

read_word(pos) ==
  LET r == read_bits(pos, 2 * BsByte) IN
  IF r.ok THEN Read(to_net(r.value), r.pos) ELSE r

\* Bytes up to the first that is not marked; too many of them are refused.
read_varint(pos) ==
  LET start == align_read_to_byte(pos)
      base == 2 ^ (BsByte - 1)
      group(i) == read_bits(start + (i - 1) * BsByte, BsByte)
      ends == {i \in 1 .. BsVarintBytes : group(i).ok /\ group(i).value < base}
      n == CHOOSE i \in ends : \A j \in ends : i <= j IN
  IF ends = {} THEN Failed(start)
  ELSE Read(FoldLeft(LAMBDA v, i : v + (group(i).value % base) * base ^ (i - 1), 0,
                     [i \in 1 .. n |-> i]),
            start + n * BsByte)

ByteAt(pos, i) == read_bits(pos + (i - 1) * BsByte, BsByte)

read_string(pos) ==
  LET len == read_varint(pos) IN
  IF ~len.ok THEN len
  ELSE IF len.value > BsMaxString \/ len.pos + len.value * BsByte > Len(bs_reader)
       THEN Failed(len.pos)
  ELSE Read([i \in 1 .. len.value |-> ByteAt(len.pos, i).value],
            len.pos + len.value * BsByte)

read_vector_AtLimit(pos) ==
  LET len == read_varint(pos)
      elem(i) == read_word(len.pos + (i - 1) * 2 * BsByte) IN
  IF ~len.ok \/ len.value >= BsMaxVector \/ \E i \in 1 .. len.value : ~elem(i).ok
  THEN Failed(len.pos)
  ELSE Read([i \in 1 .. len.value |-> elem(i).value], len.pos + len.value * 2 * BsByte)

read_vector(pos) ==
  LET len == read_varint(pos)
      elem(i) == read_word(len.pos + (i - 1) * 2 * BsByte) IN
  IF ~len.ok \/ len.value > BsMaxVector \/ \E i \in 1 .. len.value : ~elem(i).ok
  THEN Failed(len.pos)
  ELSE Read([i \in 1 .. len.value |-> elem(i).value], len.pos + len.value * 2 * BsByte)

\* deserialize_delta into a variable that holds the baseline.
deserialize_delta(pos, baseline) ==
  LET changed == read_bits(pos, 1) IN
  IF ~changed.ok THEN changed
  ELSE IF changed.value = 1 THEN read_word(pos + 1) ELSE Read(baseline, pos + 1)

FromHalf(h) ==
  CASE h.exp = 0 -> [sign |-> h.sign, exp |-> 0, man |-> 0]
    [] h.exp = 3 -> [sign |-> h.sign, exp |-> 7, man |-> h.man * 2]
    [] OTHER -> [sign |-> h.sign, exp |-> h.exp - 1 + 3, man |-> h.man * 2]

read_half(pos) ==
  LET start == align_read_to_byte(pos)
      r == read_bits(start, 4) IN
  IF ~r.ok THEN r
  ELSE Read(FromHalf([sign |-> r.value \div 8, exp |-> (r.value \div 2) % 4,
                      man |-> r.value % 2]), r.pos)

\* The component left out is the positive root of what is missing to the length.
Root(n) == CHOOSE k \in 0 .. 3 : k * k = n

read_smallest_three(pos) ==
  LET index == read_bits(pos, 2)
      part(j) == read_bits(pos + 2 + (j - 1) * 3, 3).value - 3
      i == index.value + 1
      sum == part(1) * part(1) + part(2) * part(2) + part(3) * part(3) IN
  IF ~read_bits(pos, 11).ok THEN Failed(pos)
  ELSE Read([j \in 1 .. 4 |-> IF j < i THEN part(j) ELSE IF j > i THEN part(j - 1)
                              ELSE Root(9 - sum)], pos + 11)

\* read_* and deserialize of a value of the kind of it.
deserialize(pos, it) ==
  CASE it.type \in {"bits", "quantized"} -> read_bits(pos, it.n)
    [] it.type = "word" -> read_word(pos)
    [] it.type = "float" -> read_word(align_read_to_byte(pos))
    [] it.type = "varint" -> read_varint(pos)
    [] it.type = "string" -> read_string(pos)
    [] it.type = "vector" -> read_vector(pos)
    [] it.type = "delta" -> deserialize_delta(pos, it.baseline)
    [] it.type = "half" -> read_half(pos)
    [] it.type = "quat" -> read_smallest_three(pos)

-----------------------------------------------------------------------------

bs_write(it) ==
  /\ bs_reader = << >> /\ Len(bs_written) < BsMaxItems
  /\ bs_bits' = serialize(bs_bits, it)
  /\ bs_written' = Append(bs_written, it)
  /\ bs_ends' = Append(bs_ends, Len(bs_bits'))
  /\ UNCHANGED <<bs_reader, bs_pos, bs_got>>

\* BitStream(stream.span()): whole bytes, the last one filled with zeros.
bs_open ==
  /\ bs_reader = << >> /\ bs_bits # << >>
  /\ bs_reader' = align_to_byte(bs_bits)
  /\ UNCHANGED <<bs_bits, bs_written, bs_ends, bs_pos, bs_got>>

\* A reader stops at the first value that is refused.
bs_read ==
  /\ bs_reader # << >> /\ Len(bs_got) < Len(bs_written)
  /\ \A i \in DOMAIN bs_got : bs_got[i].ok
  /\ LET r == deserialize(bs_pos, bs_written[Len(bs_got) + 1]) IN
       /\ bs_got' = Append(bs_got, [ok |-> r.ok, value |-> r.value])
       /\ bs_pos' = r.pos
  /\ UNCHANGED <<bs_bits, bs_written, bs_ends, bs_reader>>

\* reset_read()
bs_reset_read ==
  /\ bs_reader # << >> /\ bs_got # << >>
  /\ bs_pos' = 0 /\ bs_got' = << >>
  /\ UNCHANGED <<bs_bits, bs_written, bs_ends, bs_reader>>

\* reset()
bs_reset ==
  /\ bs_bits # << >>
  /\ bs_bits' = << >> /\ bs_written' = << >> /\ bs_ends' = << >>
  /\ bs_reader' = << >> /\ bs_pos' = 0 /\ bs_got' = << >>

BitStreamNext ==
  (\E it \in BsItems : bs_write(it)) \/ bs_open \/ bs_read \/ bs_reset_read \/ bs_reset

BitStreamSpec == BitStreamInit /\ [][BitStreamNext]_bs_vars

-----------------------------------------------------------------------------
(* Properties.                                                             *)

\* The size of a float of the scaled format, as a multiple of the smallest step.
Magnitude(f) == IF f.exp = 0 THEN f.man ELSE (4 + f.man) * 2 ^ (f.exp - 1)

\* The floats a half can hold: 0 and two mantissas for each of two exponents.
HalfFloats == {[sign |-> s, exp |-> e, man |-> m] : s \in {0, 1}, e \in {3, 4}, m \in {0, 2}}

\* What a half keeps of a finite float: the largest of its values that is not larger,
\* 0 if there is none, and infinity from twice the largest power on.
HalfOf(f) ==
  LET zero == [sign |-> f.sign, exp |-> 0, man |-> 0]
      below == {h \in HalfFloats : h.sign = f.sign /\ Magnitude(h) <= Magnitude(f)} IN
  IF f.exp = 7 THEN [sign |-> f.sign, exp |-> 7, man |-> IF f.man # 0 THEN 2 ELSE 0]
  ELSE IF Magnitude(f) >= Magnitude([sign |-> 0, exp |-> 5, man |-> 0])
       THEN [sign |-> f.sign, exp |-> 7, man |-> 0]
  ELSE IF below = {} THEN zero
  ELSE CHOOSE h \in below : \A k \in below : Magnitude(k) <= Magnitude(h)

\* What should be read for a value that was written.
Faithful(it, v) ==
  CASE it.type = "half" -> v = HalfOf(it.value)
    [] it.type = "quantized" ->
         2 * AbsVal(v * it.range - Clamp(it.value, it.range) * (2 ^ it.n - 1)) <= it.range
    [] it.type = "quat" -> v = it.value \/ v = [i \in 1 .. 4 |-> -it.value[i]]
    [] OTHER -> v = it.value

\* Writers take a string or a vector of any length, readers do not.
TooLong(it) ==
  \/ it.type = "string" /\ Len(it.value) > BsMaxString
  \/ it.type = "vector" /\ Len(it.value) > BsMaxVector

\* Whatever kinds of values were written before and after, with whatever alignment,
\* each is read back up to the first that is too long: exactly, to the nearest step of
\* a quantized one, to the next half towards zero, or as the same rotation.  One that
\* is too long is refused, and nothing else is.
BsRoundTrip ==
  \A i \in DOMAIN bs_got :
    IF TooLong(bs_written[i]) THEN ~bs_got[i].ok
    ELSE bs_got[i].ok /\ Faithful(bs_written[i], bs_got[i].value)

\* The reader is in step: after each value it got it stands where the writer stood.
BsInStep ==
  bs_got # << >> /\ bs_got[Len(bs_got)].ok => bs_pos = bs_ends[Len(bs_got)]

\* Reader and writer stay together, in position and in value.
BitStreamInv == BsTypeOK /\ BsInStep /\ BsRoundTrip

\* "Multi-byte values written at byte boundaries are stored in network (big-endian)
\* byte order."
BsNetworkOrder ==
  \A i \in DOMAIN bs_written :
    LET start == bs_ends[i] - 2 * BsByte IN
    (bs_written[i].type = "word" /\ start % BsByte = 0) =>
      SubSeq(bs_bits, start + 1, bs_ends[i]) = Bits(bs_written[i].value, 2 * BsByte)
=============================================================================
