------------------------------ MODULE Counter -------------------------------
(***************************************************************************)
(* The counters of the cipher (scrc_crypto1.h, scrc_crypto.h): a number of *)
(* four bytes that moves with each block, and that the receiver of a       *)
(* message moves to the one byte of it that came with the header.          *)
(***************************************************************************)
EXTENDS Integers

CONSTANT Byte  \* values of a byte (256 in the code)

ASSUME ByteAssumption == Byte \in Nat \ {0, 1}

\* uint32_t
Width == Byte * Byte * Byte * Byte

Counters == 0 .. Width - 1

Mut_Plus(counter, n) == counter + n

Plus(counter, n) == (counter + n) % Width

Mut_Resync(counter, low) ==
  IF low > counter % Byte THEN counter - (counter % Byte) + low
  ELSE Plus(counter - (counter % (Byte * Byte)), low + Byte)

\* msg_from_in, before it deciphers: the lowest byte of the sender's counter
\* came with the header, and the receiver's counter is moved to it.
Resync(counter, low) ==
  IF low > counter % Byte THEN counter - (counter % Byte) + low
  ELSE IF low < counter % Byte
       THEN Plus(counter - (counter % (Byte * Byte)), low + Byte)
       ELSE counter
=============================================================================
