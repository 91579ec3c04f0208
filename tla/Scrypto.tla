------------------------------ MODULE Scrypto ------------------------------
(***************************************************************************)
(* scrc_crypto1.h and scrc_crypto.h: the stream cipher of a connection,    *)
(* its checksum, the three steps of the key exchange and what it does to a *)
(* message before it is sent and after it has been read.                   *)
(*                                                                         *)
(* Data is a sequence of bytes, a number its value.  An scrypto object is  *)
(* [key, enc, dec]: sIV and sKey as bytes, cou_for_encipher,               *)
(* cou_for_decipher.  The block cipher is a parameter: KeyStream(k, c, i)  *)
(* is byte i of xtea_encipher's result for the counter c under the key k.  *)
(***************************************************************************)
EXTENDS Message, Queues, Counter

CONSTANTS
  Block,            \* bytes of a cipher block (8)
  KeyLen,           \* bytes of sIV and sKey together (20)
  max_encr_len,     \* 0x8002
  Xor(_, _),        \* of two bytes
  KeyStream(_, _, _)

Bytes == 0 .. Byte - 1

\* sizeof(crt_init_s): client_cou, server_cou, the key.
InitLen == 8 + KeyLen

\* sizeof(uint16_t)
cs_size == 2

ASSUME SizesAssumption ==
  /\ Block \in Nat \ {0} /\ KeyLen \in Nat
  /\ max_encr_len \in Nat /\ InitLen <= max_encr_len

ASSUME StreamAssumption ==
  \A key \in [1 .. KeyLen -> Bytes], c \in Counters, i \in 0 .. Block - 1 :
    KeyStream(key, c, i) \in Bytes

ASSUME XorAssumption ==
  \A a, b \in Bytes : Xor(a, b) \in Bytes /\ Xor(Xor(a, b), b) = a

\* The four bytes of a number, the lowest first, and back.
Word(n) ==
  <<n % Byte, (n \div Byte) % Byte, (n \div (Byte * Byte)) % Byte,
    (n \div (Byte * Byte * Byte)) % Byte>>

Number(w) == w[1] + Byte * (w[2] + Byte * (w[3] + Byte * w[4]))

client_cou(data) == Number(SubSeq(data, 1, 4))

server_cou(data) == Number(SubSeq(data, 5, 8))

sKeyIV(data) == SubSeq(data, 9, InitLen)

-----------------------------------------------------------------------------
\* scrypto_

\* How often the counter moves: once for each block that is begun.
Blocks(len) ==
  LET n == IF len > max_encr_len THEN max_encr_len ELSE len
  IN (n + Block - 1) \div Block

\* Each byte with its byte of the key stream; those beyond max_encr_len stay.
data_cipher(key, counter, data) ==
  [i \in 1 .. Len(data) |->
     IF i > max_encr_len THEN data[i]
     ELSE Xor(data[i], KeyStream(key, Plus(counter, (i - 1) \div Block),
                                 (i - 1) % Block))]

\* data_encipher and data_decipher move the counter of the object.
Enciphered(o, data) == data_cipher(o.key, o.enc, data)

AfterEncipher(o, data) == [o EXCEPT !.enc = Plus(@, Blocks(Len(data)))]

Deciphered(o, data) == data_cipher(o.key, o.dec, data)

AfterDecipher(o, data) == [o EXCEPT !.dec = Plus(@, Blocks(Len(data)))]

Mut_copy_cr_data(o, data, f_server) ==
  [key |-> sKeyIV(data), enc |-> o.enc, dec |-> server_cou(data)]

copy_cr_data(o, data, f_server) ==
  IF f_server
  THEN [key |-> sKeyIV(data), enc |-> o.enc, dec |-> server_cou(data)]
  ELSE [key |-> sKeyIV(data), enc |-> server_cou(data), dec |-> o.dec]

-----------------------------------------------------------------------------
\* Data without its checksum, and the checksum.
Text(data) == SubSeq(data, 1, Len(data) - cs_size)

CsOf(data) == SubSeq(data, Len(data) - cs_size + 1, Len(data))

\* The checksum: a sum and an exclusive or, both of one byte, over all but the
\* last cs_size bytes of its argument.

Offset == 11

\* The exclusive or of the first i bytes, each with its place, for every i.
Mixed(data) ==
  LET x[i \in 0 .. Len(data)] ==
        IF i = 0 THEN 0 ELSE Xor(x[i - 1], Xor(data[i], (Offset * i) % Byte))
  IN x

get_crc(data) ==
  LET front == Text(data)
      cs0 == Total(front) % Byte
      cs1 == Mixed(front)[Len(front)]
  IN IF Len(data) <= cs_size THEN 0 ELSE cs0 + Byte * cs1

CsBytes(cs) == <<cs % Byte, (cs \div Byte) % Byte>>

CsFits(data) == Len(data) > cs_size /\ Len(data) <= max_encr_len

\* write_cs puts it in place of the last two bytes ...
write_cs(data) ==
  IF CsFits(data)
  THEN Text(data) \o CsBytes(get_crc(data))
  ELSE data

\* ... where check_cs looks for it; what is too short for one passes.
check_cs(data) ==
  \/ Len(data) <= cs_size
  \/ /\ Len(data) <= max_encr_len
     /\ CsOf(data) = CsBytes(get_crc(data))

-----------------------------------------------------------------------------
\* The key exchange.  Every step gives the object and the data it leaves.

\* Everything but client_cou, enciphered.
KeysEnciphered(o, random) ==
  SubSeq(random, 1, 4) \o Enciphered(o, SubSeq(random, 5, Len(random)))

Mut_keys_prep(o, random) ==
  LET o1 == [o EXCEPT !.enc = client_cou(random)]
      data == KeysEnciphered(o1, random)
      o2 == AfterEncipher(o1, SubSeq(random, 5, Len(random)))
  IN [o |-> copy_cr_data(o2, data, TRUE), data |-> data]

\* The server draws new keys, enciphers them with the keys it has, from the
\* counter it tells the client, and puts them to use.
keys_prep(o, random) ==
  LET o1 == [o EXCEPT !.enc = client_cou(random)]
      o2 == AfterEncipher(o1, SubSeq(random, 5, Len(random)))
  IN [o |-> copy_cr_data(o2, random, TRUE), data |-> KeysEnciphered(o1, random)]

KeysDeciphered(o, data) ==
  SubSeq(data, 1, 4) \o Deciphered(o, SubSeq(data, 5, Len(data)))

\* keys_receive has two halves, for the client's main thread may encipher a
\* message in between.  First the client puts the keys to use ...
keys_copied(o, data) ==
  LET o1 == [o EXCEPT !.dec = client_cou(data)]
      o2 == AfterDecipher(o1, SubSeq(data, 5, Len(data)))
  IN copy_cr_data(o2, KeysDeciphered(o1, data), FALSE)

\* ... then it answers with a decipher counter of its own and a checksum,
\* enciphered with the new keys.
keys_answered(o, random) ==
  LET o1 == [o EXCEPT !.dec = client_cou(random)]
      answer == write_cs(random)
  IN [o |-> AfterEncipher(o1, answer), data |-> Enciphered(o1, answer)]

\* The server takes its encipher counter from the answer, when the checksum is
\* right; it moves that counter all the same when it is not (enchipher_cs).
keys_final(o, data) ==
  LET answer == Deciphered(o, data)
      o1 == AfterDecipher(o, data)
  IN IF check_cs(answer)
     THEN [ok |-> TRUE, o |-> [o1 EXCEPT !.enc = client_cou(answer)], data |-> answer]
     ELSE [ok |-> FALSE, o |-> AfterEncipher(o1, answer),
           data |-> Enciphered(o1, write_cs(answer))]

-----------------------------------------------------------------------------
\* Messages.

\* The header's bytes; its last two are none of get_crc's.
HeaderBytes(msg) == Word(msg.size) \o CsBytes(msg.id) \o <<msg.low, 0>>

\* The sum of the header's and the body's checksums.
MsgCs(msg, body) == (get_crc(HeaderBytes(msg)) + get_crc(body)) % (Byte * Byte)

Mut_msg_to_out(o, msg) ==
  LET m == [msg EXCEPT !.size = Len(msg.body) + cs_size]
      plain == msg.body \o CsBytes(MsgCs(m, msg.body))
      o1 == AfterEncipher(o, plain)
  IN IF msg.body = <<>> THEN [o |-> o, msg |-> msg]
     ELSE [o |-> o1, msg |-> [m EXCEPT !.low = o1.enc % Byte, !.body = Enciphered(o, plain)]]

\* The message that Send writes: a body gets a checksum and is enciphered.
msg_to_out(o, msg) ==
  LET m == [msg EXCEPT !.size = Len(msg.body) + cs_size, !.low = o.enc % Byte]
      plain == msg.body \o CsBytes(MsgCs(m, msg.body))
  IN IF msg.body = <<>> THEN [o |-> o, msg |-> msg]
     ELSE [o |-> AfterEncipher(o, plain),
           msg |-> [m EXCEPT !.body = Enciphered(o, plain)]]

\* Line 313: ! binds tighter than &&, so that only a wrong low byte next to a
\* right high byte is an error.
CsRejected(cs, found) == found[1] # CsBytes(cs)[1] /\ found[2] = CsBytes(cs)[2]

\* The body of a message that has been read, deciphered.
Plain(o, msg) == Deciphered([o EXCEPT !.dec = Resync(@, msg.low)], msg.body)

\* What becomes of a message that has been read, and whether it is accepted.
msg_from_in(o, msg) ==
  LET data == Plain(o, msg)
      o1 == AfterDecipher([o EXCEPT !.dec = Resync(@, msg.low)], data)
  IN IF msg.body = <<>> THEN [ok |-> TRUE, o |-> o, msg |-> msg]
     ELSE IF Len(msg.body) # msg.size THEN [ok |-> FALSE, o |-> o, msg |-> msg]
     ELSE IF CsRejected(MsgCs(msg, Text(data)), CsOf(data))
     THEN [ok |-> FALSE, o |-> o1, msg |-> [msg EXCEPT !.body = data]]
     ELSE [ok |-> TRUE, o |-> o1, msg |-> WithBody(msg, Text(data))]
=============================================================================
