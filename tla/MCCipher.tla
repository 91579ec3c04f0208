------------------------------ MODULE MCCipher ------------------------------
(***************************************************************************)
(* A small instance of Cipher for TLC: bytes of two bits, blocks of four   *)
(* bytes, a key of two.  A counter has 256 values.                         *)
(***************************************************************************)
EXTENDS Cipher

Bit(n, i) == (n \div i) % 2

\* Exclusive or of two numbers of two bits.
Xor2(a, b) == ((Bit(a, 1) + Bit(b, 1)) % 2) + 2 * ((Bit(a, 2) + Bit(b, 2)) % 2)

\* Any function of the key, the counter and the place serves.
Stream(key, counter, i) ==
  (3 * key[1] + key[2] * (i + 1) + counter + counter \div 4 + counter \div 16
   + counter \div 64 + i * (counter % 3)) % 4

SomeKey == <<0, 2>>

\* Counters that wrap at once and in the middle, and one whose low byte is 1.
FewRandoms == {<<3, 3, 3, 3, 2, 3, 3, 3, 1, 3>>, <<1, 2, 1, 3, 1, 1, 2, 1, 2, 1>>}

\* Lengths: one block with the checksum, more than one, the longest that can be
\* sent (12 bytes with the 0, 14 with the checksum) and one more.
FewStrings == {<<1>>, <<2, 3, 1, 2>>, [i \in 1 .. 11 |-> 1 + (i % 3)], [i \in 1 .. 12 |-> 2]}

FewValues == {<<0>>, <<3, 0>>}
=============================================================================
