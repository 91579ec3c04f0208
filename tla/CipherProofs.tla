---------------------------- MODULE CipherProofs ----------------------------
(***************************************************************************)
(* Proofs about Cipher, for any number of values of a byte, any size of a  *)
(* block and of a key, any block cipher and any data: what the checksum    *)
(* and the key stream do to a sequence of bytes, and with that what the    *)
(* two ends of a connection understand.                                    *)
(***************************************************************************)
EXTENDS Cipher, SharedLemmas

-----------------------------------------------------------------------------
\* Bytes.

\* A remainder is a byte.
LEMMA ByteType ==
  /\ \A x \in Int : x % Byte \in Bytes
  /\ 0 \in Bytes /\ Bytes \subseteq Nat /\ Byte \in Nat \ {0}
<1>1. \A w \in Nat \ {0} : \A y \in Int : y % w \in 0 .. w - 1
  BY SMT
<1>2. Byte \in Nat \ {0}
  BY ByteAssumption
<1> QED
  BY <1>1, <1>2 DEF Bytes

\* Quotients of numbers are numbers.
LEMMA QuotientType ==
  ASSUME NEW x \in Int, NEW w \in Nat \ {0}
  PROVE  x \div w \in Int /\ (x \in Nat => x \div w \in Nat)
  BY SMT

\* A checksum has two bytes.
LEMMA CsBytesType ==
  ASSUME NEW cs \in Int
  PROVE  CsBytes(cs) \in Seq(Bytes) /\ Len(CsBytes(cs)) = cs_size
<1>1. PICK a \in Bytes : a = cs % Byte
  BY ByteType
<1>2. PICK b \in Bytes : b = (cs \div Byte) % Byte
  <2>1. cs \div Byte \in Int
    BY ByteType, QuotientType
  <2> QED
    BY <2>1, ByteType
<1>3. <<a, b>> \in Seq(Bytes) /\ Len(<<a, b>>) = 2
  OBVIOUS
<1> QED
  BY <1>1, <1>2, <1>3 DEF CsBytes, cs_size

\* A number has four.
LEMMA WordType ==
  ASSUME NEW n \in Nat
  PROVE  Word(n) \in Seq(Bytes) /\ Len(Word(n)) = 4
<1>1. \A a, b \in Nat \ {0} : a * b \in Nat \ {0}
  BY SMT
<1>2. Byte * Byte \in Nat \ {0} /\ Byte * Byte * Byte \in Nat \ {0}
  BY <1>1, ByteType
<1>3. n \div Byte \in Int /\ n \div (Byte * Byte) \in Int /\ n \div (Byte * Byte * Byte) \in Int
  BY <1>2, ByteType, QuotientType
<1> HIDE DEF Bytes
<1>4. PICK a \in Bytes : a = n % Byte
  BY ByteType
<1>5. PICK b \in Bytes : b = (n \div Byte) % Byte
  BY <1>3, ByteType
<1>6. PICK c \in Bytes : c = (n \div (Byte * Byte)) % Byte
  BY <1>3, ByteType
<1>7. PICK d \in Bytes : d = (n \div (Byte * Byte * Byte)) % Byte
  BY <1>3, ByteType
<1>8. <<a, b, c, d>> \in Seq(Bytes) /\ Len(<<a, b, c, d>>) = 4
  OBVIOUS
<1>9. Word(n) = <<a, b, c, d>>
  BY <1>4, <1>5, <1>6, <1>7, Zenon DEF Word
<1> QED
  BY <1>8, <1>9

\* One digit more.
LEMMA DigitType ==
  ASSUME NEW b \in Bytes, NEW m \in Nat, NEW x \in 0 .. m - 1
  PROVE  b + Byte * x \in 0 .. Byte * m - 1
<1>1. PICK w \in Nat \ {0} : w = Byte
  BY ByteType
<1>2. b \in 0 .. w - 1
  BY <1>1 DEF Bytes
<1>3. x <= m - 1 /\ x \in Nat /\ m - 1 \in Nat
  OBVIOUS
<1>4. w * x \in Nat /\ w * x <= w * (m - 1)
  BY <1>3
<1>5. w * (m - 1) = w * m - w /\ w * m \in Int
  OBVIOUS
<1> QED
  BY <1>1, <1>2, <1>4, <1>5

\* Four bytes are a counter.
LEMMA NumberType ==
  ASSUME NEW d \in Seq(Bytes), Len(d) = 4
  PROVE  Number(d) \in Counters
<1>1. PICK w \in Nat \ {0} : w = Byte
  BY ByteType
<1>2. d[1] \in Bytes /\ d[2] \in Bytes /\ d[3] \in Bytes /\ d[4] \in 0 .. w - 1
  <2>1. \A i \in 1 .. 4 : d[i] \in Bytes
    OBVIOUS
  <2>2. d[1] \in Bytes /\ d[2] \in Bytes /\ d[3] \in Bytes /\ d[4] \in Bytes
    BY <2>1
  <2> QED
    BY <1>1, <2>2 DEF Bytes
<1>3. w * w \in Nat /\ w * (w * w) \in Nat
  OBVIOUS
<1>4. d[3] + w * d[4] \in 0 .. w * w - 1
  BY <1>1, <1>2, DigitType
<1>5. d[2] + w * (d[3] + w * d[4]) \in 0 .. w * (w * w) - 1
  BY <1>1, <1>2, <1>3, <1>4, DigitType
<1>6. d[1] + w * (d[2] + w * (d[3] + w * d[4])) \in 0 .. w * (w * (w * w)) - 1
  BY <1>1, <1>2, <1>3, <1>5, DigitType
<1>7. w * (w * (w * w)) = w * w * w * w
  OBVIOUS
<1> QED
  BY <1>1, <1>6, <1>7 DEF Number, Counters, Width

\* Sequences of the elements of a set are sequences of those of a larger one.
LEMMA LargerSeq ==
  ASSUME NEW S, NEW T, S \subseteq T, NEW s \in Seq(S)
  PROVE  s \in Seq(T)
<1>1. s \in [1 .. Len(s) -> S] /\ Len(s) \in Nat
  BY LenProperties
<1>2. s \in [1 .. Len(s) -> T]
  BY <1>1
<1> QED
  BY <1>1, <1>2, SeqDef

\* A piece of data.
LEMMA PieceType ==
  ASSUME NEW d \in Seq(Bytes), NEW m \in Nat \ {0}, NEW n \in Nat, n <= Len(d)
  PROVE  /\ SubSeq(d, m, n) \in Seq(Bytes)
         /\ Len(SubSeq(d, m, n)) = IF m <= n THEN n - m + 1 ELSE 0
         /\ \A i \in 1 .. n - m + 1 : SubSeq(d, m, n)[i] = d[m + i - 1]
<1> HIDE DEF Bytes
<1>1. PICK l \in Nat : l = Len(d)
  OBVIOUS
<1>2. \A i \in m .. n : i \in 1 .. l
  BY <1>1
<1>3. \A i \in m .. n : d[i] \in Bytes
  BY <1>1, <1>2
<1>4. m \in Int /\ n \in Int
  OBVIOUS
<1> QED
  BY <1>3, <1>4, SubSeqProperties

\* The counters and the key of a crt_init_s.
LEMMA InitParts ==
  ASSUME NEW d \in Seq(Bytes), Len(d) = InitLen
  PROVE  /\ client_cou(d) \in Counters /\ server_cou(d) \in Counters
         /\ sKeyIV(d) \in [1 .. KeyLen -> Bytes]
<1>1. KeyLen \in Nat /\ InitLen = 8 + KeyLen
  BY SizesAssumption DEF InitLen
<1>2. SubSeq(d, 1, 4) \in Seq(Bytes) /\ Len(SubSeq(d, 1, 4)) = 4
  BY <1>1, PieceType
<1>3. SubSeq(d, 5, 8) \in Seq(Bytes) /\ Len(SubSeq(d, 5, 8)) = 4
  BY <1>1, PieceType
<1>4. PICK k \in Seq(Bytes) : k = SubSeq(d, 9, InitLen) /\ Len(k) = KeyLen
  <2>1. SubSeq(d, 9, InitLen) \in Seq(Bytes)
        /\ Len(SubSeq(d, 9, InitLen)) = IF 9 <= InitLen THEN InitLen - 9 + 1 ELSE 0
    BY <1>1, PieceType
  <2>2. (IF 9 <= InitLen THEN InitLen - 9 + 1 ELSE 0) = KeyLen
    BY <1>1
  <2> QED
    BY <2>1, <2>2
<1>5. k \in [1 .. KeyLen -> Bytes]
  BY <1>4, LenProperties
<1> QED
  BY <1>2, <1>3, <1>4, <1>5, NumberType DEF client_cou, server_cou, sKeyIV

-----------------------------------------------------------------------------
\* The stream cipher.

Keys == [1 .. KeyLen -> Bytes]

\* The byte of the key stream for the i-th byte of the data is a byte.
LEMMA StreamType ==
  ASSUME NEW key \in Keys, NEW c \in Counters, NEW i \in Nat \ {0}
  PROVE  KeyStream(key, Plus(c, (i - 1) \div Block), (i - 1) % Block) \in Bytes
<1>1. PICK b \in Nat \ {0} : b = Block
  BY SizesAssumption
<1>2. (i - 1) \div b \in Int /\ (i - 1) % b \in 0 .. b - 1
  <2>1. i - 1 \in Int
    OBVIOUS
  <2>2. \A w \in Nat \ {0} : \A y \in Int : y % w \in 0 .. w - 1 /\ y \div w \in Int
    BY SMT
  <2> QED
    BY <2>1, <2>2
<1>3. Plus(c, (i - 1) \div b) \in Counters
  <2>1. c \in Int
    BY WidthType DEF Counters
  <2> QED
    BY <1>2, <2>1, PlusType
<1> QED
  BY <1>1, <1>2, <1>3, StreamAssumption DEF Keys

\* Enciphering changes no length ...
LEMMA CipherType ==
  ASSUME NEW key \in Keys, NEW c \in Counters, NEW d \in Seq(Bytes)
  PROVE  /\ data_cipher(key, c, d) \in Seq(Bytes)
         /\ Len(data_cipher(key, c, d)) = Len(d)
<1> HIDE DEF Bytes
<1>1. PICK n \in Nat : n = Len(d)
  OBVIOUS
<1>2. ASSUME NEW i \in 1 .. n
      PROVE  (IF i > max_encr_len THEN d[i]
              ELSE Xor(d[i], KeyStream(key, Plus(c, (i - 1) \div Block), (i - 1) % Block)))
               \in Bytes
  <2>1. i \in Nat \ {0} /\ d[i] \in Bytes
    BY <1>1
  <2>2. PICK b \in Bytes : b = KeyStream(key, Plus(c, (i - 1) \div Block), (i - 1) % Block)
    BY <2>1, StreamType
  <2>3. Xor(d[i], b) \in Bytes
    BY <2>1, XorAssumption
  <2> QED
    BY <2>1, <2>2, <2>3
<1>3. PICK f : f = data_cipher(key, c, d)
  OBVIOUS
<1>4. f \in [1 .. n -> Bytes]
  BY <1>1, <1>2, <1>3, Zenon DEF data_cipher
<1>5. f \in Seq(Bytes) /\ Len(f) = n
  BY <1>4
<1> QED
  BY <1>1, <1>3, <1>5

\* ... and the same key stream twice changes nothing.
LEMMA CipherTwice ==
  ASSUME NEW key \in Keys, NEW c \in Counters, NEW d \in Seq(Bytes)
  PROVE  data_cipher(key, c, data_cipher(key, c, d)) = d
<1> HIDE DEF Bytes
<1>1. PICK n \in Nat : n = Len(d)
  OBVIOUS
<1>2. PICK e \in Seq(Bytes) : e = data_cipher(key, c, d) /\ Len(e) = n
  BY <1>1, CipherType
<1>3. PICK f \in Seq(Bytes) : f = data_cipher(key, c, e) /\ Len(f) = n
  BY <1>2, CipherType
<1>4. ASSUME NEW i \in 1 .. n
      PROVE  f[i] = d[i]
  <2>1. i \in Nat \ {0} /\ d[i] \in Bytes
    BY <1>1
  <2>2. PICK b \in Bytes : b = KeyStream(key, Plus(c, (i - 1) \div Block), (i - 1) % Block)
    BY <2>1, StreamType
  <2>3. e[i] = IF i > max_encr_len THEN d[i] ELSE Xor(d[i], b)
    BY <1>1, <1>2, <2>2 DEF data_cipher
  <2>4. f[i] = IF i > max_encr_len THEN e[i] ELSE Xor(e[i], b)
    BY <1>2, <1>3, <2>2 DEF data_cipher
  <2>5. Xor(Xor(d[i], b), b) = d[i]
    BY <2>1, XorAssumption
  <2> QED
    BY <2>3, <2>4, <2>5
<1>5. f = d
  BY <1>1, <1>3, <1>4, SeqEqual
<1> QED
  BY <1>2, <1>3, <1>5

\* Blocks are counted in natural numbers.
LEMMA BlocksType ==
  ASSUME NEW n \in Nat
  PROVE  Blocks(n) \in Nat
<1>1. PICK b \in Nat \ {0} : b = Block
  BY SizesAssumption
<1>2. PICK m \in Nat : m = IF n > max_encr_len THEN max_encr_len ELSE n
  BY SizesAssumption
<1>3. (m + b - 1) \div b \in Nat
  <2>1. m + b - 1 \in Int /\ m + b - 1 \in Nat
    OBVIOUS
  <2> QED
    BY <2>1, QuotientType
<1> QED
  BY <1>1, <1>2, <1>3 DEF Blocks

-----------------------------------------------------------------------------
\* The checksum.

\* The exclusive or of bytes is a byte.
LEMMA MixedType ==
  ASSUME NEW d \in Seq(Bytes)
  PROVE  Mixed(d)[Len(d)] \in Bytes
<1> HIDE DEF Bytes
<1>1. PICK n \in Nat : n = Len(d)
  OBVIOUS
<1> DEFINE byte(i) == Xor(d[i], (Offset * i) % Byte)
           Solves(f) == f = [i \in 0 .. n |-> IF i = 0 THEN 0 ELSE Xor(f[i - 1], byte(i))]
           step == [i \in 1 .. n |-> [x \in Bytes |-> Xor(x, byte(i))]]
<1>2. \A i \in 1 .. n : byte(i) \in Bytes
  <2>1. ASSUME NEW i \in 1 .. n PROVE byte(i) \in Bytes
    <3>1. Offset * i \in Int /\ d[i] \in Bytes
      BY <1>1 DEF Offset
    <3>2. (Offset * i) % Byte \in Bytes
      BY <3>1, ByteType
    <3> QED
      BY <3>1, <3>2, XorAssumption
  <2> QED
    BY <2>1
<1>3. \A i \in 1 .. n : \A x \in Bytes : Xor(x, byte(i)) \in Bytes
  <2> HIDE DEF byte
  <2> QED
    BY <1>2, XorAssumption
<1>4. Mixed(d) = CHOOSE g : Solves(g)
  BY <1>1, Zenon DEF Mixed
<1> HIDE DEF byte
<1>5. PICK f \in [0 .. n -> Bytes] : f[0] = 0 /\ \A i \in 1 .. n : f[i] = step[i][f[i - 1]]
  <2>1. step \in [1 .. n -> [Bytes -> Bytes]]
    BY <1>3
  <2>2. 0 \in Bytes
    BY ByteType
  <2> HIDE DEF step
  <2>3. PICK f : Recursion(f, n, Bytes, 0, step)
    BY <2>1, <2>2, RecursionExists, Zenon
  <2> QED
    BY <2>3, Zenon DEF Recursion
<1>6. Solves(f)
  <2>1. ASSUME NEW i \in 0 .. n
        PROVE  f[i] = IF i = 0 THEN 0 ELSE Xor(f[i - 1], byte(i))
    <3>1. CASE i = 0
      BY <1>5, <3>1
    <3>2. CASE i # 0
      <4>1. i \in 1 .. n /\ i - 1 \in 0 .. n
        BY <3>2
      <4>2. f[i - 1] \in Bytes
        BY <4>1
      <4>3. f[i] = step[i][f[i - 1]]
        BY <1>5, <4>1
      <4> QED
        BY <3>2, <4>1, <4>2, <4>3
    <3> QED
      BY <3>1, <3>2
  <2> QED
    BY <2>1
<1>7. Solves(Mixed(d))
  <2> HIDE DEF Solves
  <2> QED
    BY <1>4, <1>6
<1>8. PICK t : t = Mixed(d)
  OBVIOUS
<1>9. t[0] = 0 /\ \A i \in 1 .. n : t[i] = Xor(t[i - 1], byte(i))
  <2>1. t = [i \in 0 .. n |-> IF i = 0 THEN 0 ELSE Xor(t[i - 1], byte(i))]
    BY <1>7, <1>8
  <2>2. \A i \in 0 .. n : t[i] = IF i = 0 THEN 0 ELSE Xor(t[i - 1], byte(i))
    BY <2>1
  <2>3. 0 \in 0 .. n /\ \A i \in 1 .. n : i \in 0 .. n /\ i # 0
    OBVIOUS
  <2> QED
    BY <2>2, <2>3
<1>10. \A i \in 0 .. n : t[i] \in Bytes
  <2> DEFINE T == {i \in 0 .. n : t[i] \in Bytes}
  <2>1. 0 \in T
    <3>1. 0 \in Bytes
      BY ByteType, Zenon
    <3>2. 0 \in 0 .. n
      OBVIOUS
    <3> QED
      BY <1>9, <3>1, <3>2
  <2>2. \A i \in 1 .. n : i - 1 \in T => i \in T
    BY <1>3, <1>9
  <2>3. \A i \in 0 .. n : i \in T
    <3> HIDE DEF T
    <3> QED
      BY <2>1, <2>2, Induction
  <2> QED
    BY <2>3
<1> QED
  BY <1>1, <1>8, <1>10

\* The checksum of any data is a number.
LEMMA CrcType ==
  ASSUME NEW d \in Seq(Bytes)
  PROVE  get_crc(d) \in Nat
<1> HIDE DEF Bytes
<1>1. PICK n \in Nat : n = Len(d)
  OBVIOUS
<1>2. CASE n > 2
  <2>1. PICK t \in Seq(Bytes) : t = Text(d)
    <3>1. n - 2 \in Nat /\ n - 2 <= Len(d)
      BY <1>1, <1>2
    <3>2. SubSeq(d, 1, n - 2) \in Seq(Bytes)
      BY <3>1, PieceType
    <3> QED
      BY <1>1, <3>2 DEF Text, cs_size
  <2>2. t \in Seq(Nat)
    BY ByteType, LargerSeq
  <2>3. Total(t) \in Int
    BY <2>2, TotalsEquation DEF Total
  <2>4. PICK a \in Nat : a = Total(t) % Byte
    BY <2>3, ByteType
  <2>5. PICK b \in Nat : b = Mixed(t)[Len(t)]
    BY MixedType, ByteType
  <2>6. PICK w \in Nat : w = Byte
    BY ByteType
  <2>7. get_crc(d) = a + w * b
    BY <1>1, <1>2, <2>1, <2>4, <2>5, <2>6 DEF get_crc, cs_size
  <2> QED
    BY <2>7
<1>3. CASE ~(n > 2)
  BY <1>1, <1>3 DEF get_crc, cs_size
<1> QED
  BY <1>2, <1>3

\* Text and checksum of a text with a checksum.
LEMMA Parts ==
  ASSUME NEW t \in Seq(Bytes), NEW c \in Seq(Bytes), Len(c) = cs_size
  PROVE  /\ t \o c \in Seq(Bytes) /\ Len(t \o c) = Len(t) + cs_size
         /\ Text(t \o c) = t /\ CsOf(t \o c) = c
<1> HIDE DEF Bytes
<1>1. PICK n \in Nat : n = Len(t)
  OBVIOUS
<1>2. PICK d \in Seq(Bytes) : d = t \o c /\ Len(d) = n + 2
  <2>1. t \o c \in Seq(Bytes) /\ Len(t \o c) = Len(t) + Len(c)
    OBVIOUS
  <2> QED
    BY <1>1, <2>1 DEF cs_size
<1>3. SubSeq(d, 1, n) = t /\ SubSeq(d, n + 1, n + 2) = c
  <2>1. SubSeq(t \o c, 1, Len(t)) = t
    BY SubSeqOfConcat1
  <2>2. SubSeq(t \o c, Len(t) + 1, Len(t \o c)) = c
    BY SubSeqOfConcat2
  <2> QED
    BY <1>1, <1>2, <2>1, <2>2
<1>4. n + 2 - 2 = n /\ (n + 2 - 2) + 1 = n + 1
  OBVIOUS
<1> QED
  BY <1>1, <1>2, <1>3, <1>4 DEF Text, CsOf, cs_size

\* write_cs leaves the length and the text, and check_cs accepts what it writes.
LEMMA WriteCs ==
  ASSUME NEW d \in Seq(Bytes), CsFits(d)
  PROVE  /\ write_cs(d) \in Seq(Bytes) /\ Len(write_cs(d)) = Len(d)
         /\ Text(write_cs(d)) = Text(d) /\ check_cs(write_cs(d))
<1> HIDE DEF Bytes
<1>1. PICK n \in Nat : n = Len(d) /\ n > 2 /\ n <= max_encr_len
  BY DEF CsFits, cs_size
<1>2. PICK t \in Seq(Bytes) : t = Text(d) /\ Len(t) = n - 2
  <2>1. n - 2 \in Nat /\ n - 2 <= Len(d)
    BY <1>1
  <2>2. SubSeq(d, 1, n - 2) \in Seq(Bytes)
        /\ Len(SubSeq(d, 1, n - 2)) = IF 1 <= n - 2 THEN (n - 2) - 1 + 1 ELSE 0
    BY <2>1, PieceType
  <2>3. (IF 1 <= n - 2 THEN (n - 2) - 1 + 1 ELSE 0) = n - 2
    BY <2>1
  <2>4. Text(d) = SubSeq(d, 1, n - 2)
    BY <1>1 DEF Text, cs_size
  <2> QED
    BY <2>2, <2>3, <2>4
<1>3. PICK c \in Seq(Bytes) : c = CsBytes(get_crc(d)) /\ Len(c) = cs_size
  <2>1. get_crc(d) \in Int
    BY CrcType
  <2> QED
    BY <2>1, CsBytesType
<1>4. PICK e \in Seq(Bytes) : e = write_cs(d) /\ e = t \o c /\ Len(e) = n
  <2>1. write_cs(d) = t \o c
    BY <1>2, <1>3 DEF write_cs
  <2>2. t \o c \in Seq(Bytes) /\ Len(t \o c) = (n - 2) + 2
    BY <1>2, <1>3, Parts DEF cs_size
  <2>3. (n - 2) + 2 = n
    OBVIOUS
  <2> QED
    BY <2>1, <2>2, <2>3
<1>5. Text(e) = t /\ CsOf(e) = c
  BY <1>3, <1>4, Parts
<1>6. get_crc(e) = get_crc(d)
  BY <1>1, <1>2, <1>4, <1>5, Zenon DEF get_crc
<1>7. check_cs(e)
  BY <1>1, <1>3, <1>4, <1>5, <1>6 DEF check_cs
<1> QED
  BY <1>1, <1>2, <1>4, <1>5, <1>7

\* It leaves every number of the text.
LEMMA WriteCsPieces ==
  ASSUME NEW d \in Seq(Bytes), CsFits(d), NEW i \in 1 .. Len(d) - cs_size
  PROVE  write_cs(d)[i] = d[i]
<1> HIDE DEF Bytes
<1>1. PICK n \in Nat : n = Len(d) /\ n > 2
  BY DEF CsFits, cs_size
<1>2. PICK e \in Seq(Bytes) : e = write_cs(d) /\ Len(e) = n /\ Text(e) = Text(d)
  BY <1>1, WriteCs
<1>3. n - 2 \in Nat /\ n - 2 <= Len(d) /\ n - 2 <= Len(e) /\ i \in 1 .. n - 2
  BY <1>1, <1>2 DEF cs_size
<1>4. SubSeq(d, 1, n - 2) = SubSeq(e, 1, n - 2)
  BY <1>1, <1>2 DEF Text, cs_size
<1>5. (n - 2) - 1 + 1 = n - 2 /\ 1 + i - 1 = i
  BY <1>3
<1>6. SubSeq(d, 1, n - 2)[i] = d[i]
  BY <1>3, <1>5, PieceType
<1>7. SubSeq(e, 1, n - 2)[i] = e[i]
  BY <1>3, <1>5, PieceType
<1> QED
  BY <1>2, <1>4, <1>6, <1>7

-----------------------------------------------------------------------------
\* The key exchange.

Objects == [key : Keys, enc : Counters, dec : Counters]

\* What is sent of the data d, or made of it when it comes.
Wrapped(key, c, d) == SubSeq(d, 1, 4) \o data_cipher(key, c, SubSeq(d, 5, InitLen))

\* What the server sends is as long as what it drew, starts with the counter the
\* client needs, and is deciphered to what was drawn.
LEMMA KeysOnTheirWay ==
  ASSUME NEW key \in Keys, NEW c \in Counters, NEW d \in Seq(Bytes), Len(d) = InitLen
  PROVE  /\ Wrapped(key, c, d) \in Seq(Bytes) /\ Len(Wrapped(key, c, d)) = InitLen
         /\ client_cou(Wrapped(key, c, d)) = client_cou(d)
         /\ Wrapped(key, c, Wrapped(key, c, d)) = d
<1> HIDE DEF Bytes
<1>0. PICK p : p = Wrapped(key, c, d)
  OBVIOUS
<1>1. PICK n \in Nat : n = InitLen /\ n >= 8
  BY SizesAssumption DEF InitLen
<1>2. PICK a \in Seq(Bytes) : a = SubSeq(d, 1, 4) /\ Len(a) = 4
  <2>1. 4 <= Len(d) /\ 1 \in Nat \ {0} /\ 4 \in Nat /\ 1 <= 4 /\ 4 - 1 + 1 = 4
    BY <1>1
  <2>2. SubSeq(d, 1, 4) \in Seq(Bytes)
    BY <2>1, PieceType, Zenon
  <2>3. Len(SubSeq(d, 1, 4)) = IF 1 <= 4 THEN 4 - 1 + 1 ELSE 0
    BY <2>1, PieceType, Zenon
  <2> QED
    BY <2>1, <2>2, <2>3
<1>3. PICK b \in Seq(Bytes) : b = SubSeq(d, 5, n) /\ Len(b) = n - 4
  <2>1. SubSeq(d, 5, n) \in Seq(Bytes) /\ Len(SubSeq(d, 5, n)) = IF 5 <= n THEN n - 5 + 1 ELSE 0
    BY <1>1, PieceType
  <2>2. (IF 5 <= n THEN n - 5 + 1 ELSE 0) = n - 4
    BY <1>1
  <2> QED
    BY <2>1, <2>2
<1>4. PICK e \in Seq(Bytes) : e = data_cipher(key, c, b) /\ Len(e) = n - 4
  <2>1. data_cipher(key, c, b) \in Seq(Bytes) /\ Len(data_cipher(key, c, b)) = Len(b)
    BY CipherType, Zenon
  <2> QED
    BY <1>3, <2>1
<1>5. p = a \o e
  BY <1>0, <1>1, <1>2, <1>3, <1>4 DEF Wrapped
<1>6. p \in Seq(Bytes) /\ Len(p) = n
  <2>1. a \o e \in Seq(Bytes) /\ Len(a \o e) = Len(a) + Len(e)
    OBVIOUS
  <2>2. 4 + (n - 4) = n
    OBVIOUS
  <2> QED
    BY <1>2, <1>4, <1>5, <2>1, <2>2
<1>7. SubSeq(p, 1, 4) = a /\ SubSeq(p, 5, n) = e
  <2>1. SubSeq(a \o e, 1, Len(a)) = a
    BY SubSeqOfConcat1
  <2>2. SubSeq(a \o e, Len(a) + 1, Len(a \o e)) = e
    BY SubSeqOfConcat2
  <2> QED
    BY <1>2, <1>5, <1>6, <2>1, <2>2
<1>8. client_cou(p) = client_cou(d)
  BY <1>2, <1>7 DEF client_cou
<1>9. data_cipher(key, c, e) = b
  BY <1>3, <1>4, CipherTwice
<1>10. a \o b = d
  <2>1. SubSeq(d, 1, 4) \o SubSeq(d, 4 + 1, n) = SubSeq(d, 1, n)
    BY <1>1, ConcatAdjacentSubSeq
  <2>2. SubSeq(d, 1, n) = d
    BY <1>1, SubSeqFull
  <2> QED
    BY <1>2, <1>3, <2>1, <2>2
<1> QED
  BY <1>0, <1>1, <1>6, <1>7, <1>8, <1>9, <1>10 DEF Wrapped

\* The server's step.
LEMMA PrepStep ==
  ASSUME NEW o \in Objects, NEW d \in Seq(Bytes), Len(d) = InitLen
  PROVE  /\ keys_prep(o, d).o \in Objects
         /\ keys_prep(o, d).o.key = sKeyIV(d) /\ keys_prep(o, d).o.dec = server_cou(d)
         /\ keys_prep(o, d).data = Wrapped(o.key, client_cou(d), d)
<1> HIDE DEF Bytes, Keys, Counters, InitLen, data_cipher
<1>1. client_cou(d) \in Counters /\ server_cou(d) \in Counters /\ sKeyIV(d) \in Keys
  BY InitParts DEF Keys
<1> DEFINE b == SubSeq(d, 5, Len(d))
           x == Plus(client_cou(d), Blocks(Len(b)))
<1>2. x \in Counters
  <2>1. InitLen \in Nat /\ InitLen <= Len(d)
    BY SizesAssumption DEF InitLen
  <2>2. b \in Seq(Bytes)
    BY <2>1, PieceType
  <2>3. Blocks(Len(b)) \in Int
    BY <2>2, BlocksType
  <2>4. client_cou(d) \in Int
    BY <1>1, WidthType DEF Counters
  <2> QED
    BY <2>3, <2>4, PlusType
<1>3. o = [key |-> o.key, enc |-> o.enc, dec |-> o.dec]
  BY DEF Objects
<1>4. keys_prep(o, d).o = [key |-> sKeyIV(d), enc |-> x, dec |-> server_cou(d)]
  BY <1>3 DEF keys_prep, AfterEncipher, copy_cr_data
<1>5. keys_prep(o, d).data = SubSeq(d, 1, 4) \o data_cipher(o.key, client_cou(d), b)
  BY <1>3 DEF keys_prep, KeysEnciphered, Enciphered
<1> HIDE DEF x
<1> QED
  BY <1>1, <1>2, <1>4, <1>5 DEF Objects, Wrapped

\* What the client draws and checksums fits, and keeps its counter.
LEMMA AnswerFits ==
  ASSUME NEW d \in Seq(Bytes), Len(d) = InitLen
  PROVE  /\ write_cs(d) \in Seq(Bytes) /\ Len(write_cs(d)) = InitLen
         /\ check_cs(write_cs(d)) /\ client_cou(write_cs(d)) = client_cou(d)
<1> HIDE DEF Bytes, write_cs, check_cs
<1>1. PICK n \in Nat : n = InitLen /\ n >= 8 /\ n <= max_encr_len
  BY SizesAssumption DEF InitLen
<1>2. CsFits(d)
  BY <1>1 DEF CsFits, cs_size
<1>3. PICK e \in Seq(Bytes) : e = write_cs(d) /\ Len(e) = n /\ check_cs(e)
  BY <1>1, <1>2, WriteCs
<1>4. \A i \in 1 .. 4 : e[i] = d[i]
  <2>1. \A i \in 1 .. 4 : i \in 1 .. Len(d) - cs_size
    BY <1>1 DEF cs_size
  <2> QED
    BY <1>2, <1>3, <2>1, WriteCsPieces
<1>5. 4 <= Len(d) /\ 4 <= Len(e) /\ 4 - 1 + 1 = 4 /\ \A i \in 1 .. 4 : 1 + i - 1 = i
  BY <1>1, <1>3
<1>6. \A s \in {d, e} :
        /\ SubSeq(s, 1, 4)[1] = s[1] /\ SubSeq(s, 1, 4)[2] = s[2]
        /\ SubSeq(s, 1, 4)[3] = s[3] /\ SubSeq(s, 1, 4)[4] = s[4]
  <2> SUFFICES ASSUME NEW s \in {d, e}
               PROVE  \A i \in 1 .. 4 : SubSeq(s, 1, 4)[i] = s[i]
    OBVIOUS
  <2>1. s \in Seq(Bytes) /\ 4 <= Len(s) /\ 1 \in Nat \ {0} /\ 4 \in Nat
    BY <1>5
  <2> QED
    BY <1>5, <2>1, PieceType
<1>7. e[1] = d[1] /\ e[2] = d[2] /\ e[3] = d[3] /\ e[4] = d[4]
  BY <1>4
<1>8. Number(SubSeq(e, 1, 4)) = Number(SubSeq(d, 1, 4))
  BY <1>6, <1>7, Zenon DEF Number
<1> QED
  BY <1>1, <1>3, <1>8 DEF client_cou

\* The first half of the client's step, with the key the server enciphered with.
LEMMA CopiedStep ==
  ASSUME NEW o \in Objects, NEW d \in Seq(Bytes), Len(d) = InitLen,
         NEW p, p = Wrapped(o.key, client_cou(d), d)
  PROVE  /\ keys_copied(o, p) \in Objects
         /\ keys_copied(o, p).key = sKeyIV(d) /\ keys_copied(o, p).enc = server_cou(d)
<1> HIDE DEF Bytes, Keys, Counters, InitLen, data_cipher, client_cou, server_cou, sKeyIV
<1>1. client_cou(d) \in Counters /\ server_cou(d) \in Counters /\ sKeyIV(d) \in Keys
      /\ o.key \in Keys
  BY InitParts DEF Objects, Keys
<1>2. PICK c \in Counters : c = client_cou(d)
  BY <1>1
<1>3. PICK k \in Keys : k = o.key
  BY <1>1
<1>4. /\ p \in Seq(Bytes) /\ Len(p) = InitLen /\ client_cou(p) = c
      /\ Wrapped(k, c, p) = d
  BY <1>2, <1>3, KeysOnTheirWay
<1> DEFINE o1 == [o EXCEPT !.dec = client_cou(p)]
           b == SubSeq(p, 5, Len(p))
           x == Plus(c, Blocks(Len(b)))
<1>5. o1 = [key |-> o.key, enc |-> o.enc, dec |-> c]
  BY <1>4 DEF Objects
<1>6. KeysDeciphered(o1, p) = d
  BY <1>3, <1>4, <1>5 DEF KeysDeciphered, Deciphered, Wrapped
<1>7. AfterDecipher(o1, b) = [key |-> o.key, enc |-> o.enc, dec |-> x]
  <2> HIDE DEF o1
  <2> QED
    BY <1>5 DEF AfterDecipher
<1>8. x \in Counters
  <2>1. InitLen \in Nat /\ InitLen <= Len(p)
    BY <1>4, SizesAssumption DEF InitLen
  <2>2. b \in Seq(Bytes)
    BY <1>4, <2>1, PieceType
  <2>3. Blocks(Len(b)) \in Int
    <3>1. PICK n \in Nat : n = Len(b)
      BY <2>2, LenProperties
    <3>2. Blocks(n) \in Nat
      BY BlocksType, Zenon
    <3> HIDE DEF b, x, o1
    <3> QED
      BY <3>1, <3>2
  <2>4. c \in Int
    BY WidthType DEF Counters
  <2> QED
    BY <2>3, <2>4, PlusType
<1>9. keys_copied(o, p) = [key |-> sKeyIV(d), enc |-> server_cou(d), dec |-> x]
  <2>1. keys_copied(o, p) =
          copy_cr_data(AfterDecipher(o1, b), KeysDeciphered(o1, p), FALSE)
    BY Zenon DEF keys_copied
  <2> HIDE DEF x, o1
  <2> QED
    BY <1>6, <1>7, <2>1 DEF copy_cr_data
<1> HIDE DEF x, o1
<1> QED
  BY <1>1, <1>8, <1>9 DEF Objects

\* The second half.
LEMMA AnsweredStep ==
  ASSUME NEW o \in Objects, NEW r \in Seq(Bytes), Len(r) = InitLen
  PROVE  /\ keys_answered(o, r).o =
              [key |-> o.key, enc |-> Plus(o.enc, Blocks(InitLen)), dec |-> client_cou(r)]
         /\ keys_answered(o, r).data = data_cipher(o.key, o.enc, write_cs(r))
<1> HIDE DEF Bytes, Keys, Counters, InitLen, data_cipher, write_cs, client_cou
<1> DEFINE o1 == [o EXCEPT !.dec = client_cou(r)]
<1>1. o1 = [key |-> o.key, enc |-> o.enc, dec |-> client_cou(r)]
  BY DEF Objects
<1>2. write_cs(r) \in Seq(Bytes) /\ Len(write_cs(r)) = InitLen
  BY AnswerFits
<1>3. keys_answered(o, r) =
        [o |-> AfterEncipher(o1, write_cs(r)), data |-> Enciphered(o1, write_cs(r))]
  BY Zenon DEF keys_answered
<1> HIDE DEF o1
<1>4. AfterEncipher(o1, write_cs(r)) =
         [key |-> o.key, enc |-> Plus(o.enc, Blocks(InitLen)), dec |-> client_cou(r)]
  BY <1>1, <1>2 DEF AfterEncipher
<1>5. Enciphered(o1, write_cs(r)) = data_cipher(o.key, o.enc, write_cs(r))
  BY <1>1 DEF Enciphered
<1> QED
  BY <1>3, <1>4, <1>5

\* The server's last step, with the client's keys.
LEMMA FinalStep ==
  ASSUME NEW o \in Objects, NEW r \in Seq(Bytes), Len(r) = InitLen,
         NEW p, p = data_cipher(o.key, o.dec, write_cs(r))
  PROVE  /\ keys_final(o, p).ok
         /\ keys_final(o, p).o =
              [key |-> o.key, enc |-> client_cou(r), dec |-> Plus(o.dec, Blocks(InitLen))]
<1> HIDE DEF Bytes, Keys, Counters, InitLen, data_cipher, write_cs, client_cou, check_cs
<1>1. o.key \in Keys /\ o.dec \in Counters
  BY DEF Objects
<1>2. PICK w \in Seq(Bytes) :
        w = write_cs(r) /\ Len(w) = InitLen /\ check_cs(w) /\ client_cou(w) = client_cou(r)
  BY AnswerFits
<1>3. p = data_cipher(o.key, o.dec, w)
  BY <1>2
<1>4. Len(p) = InitLen /\ data_cipher(o.key, o.dec, p) = w
  <2>1. Len(data_cipher(o.key, o.dec, w)) = Len(w)
    BY <1>1, CipherType, Zenon
  <2>2. data_cipher(o.key, o.dec, data_cipher(o.key, o.dec, w)) = w
    BY <1>1, CipherTwice, Zenon
  <2> QED
    BY <1>2, <1>3, <2>1, <2>2
<1>5. AfterDecipher(o, p) = [key |-> o.key, enc |-> o.enc, dec |-> Plus(o.dec, Blocks(InitLen))]
  BY <1>4 DEF AfterDecipher, Objects
<1>6. Deciphered(o, p) = w
  BY <1>4 DEF Deciphered
<1>7. keys_final(o, p) =
        [ok |-> TRUE, o |-> [AfterDecipher(o, p) EXCEPT !.enc = client_cou(w)], data |-> w]
  BY <1>2, <1>6 DEF keys_final
<1> QED
  BY <1>2, <1>5, <1>7

\* Whatever comes in place of the answer, the server's keys stay.
LEMMA FinalType ==
  ASSUME NEW o \in Objects, NEW p \in Seq(Bytes), Len(p) = InitLen
  PROVE  /\ keys_final(o, p).ok \in BOOLEAN /\ keys_final(o, p).o \in Objects
         /\ keys_final(o, p).o.key = o.key
<1> HIDE DEF Bytes, Keys, Counters, InitLen, data_cipher, write_cs, client_cou, check_cs
<1>1. o.key \in Keys /\ o.dec \in Counters /\ o.enc \in Counters
  BY DEF Objects
<1>2. PICK a \in Seq(Bytes) : a = Deciphered(o, p) /\ Len(a) = InitLen
  <2>1. data_cipher(o.key, o.dec, p) \in Seq(Bytes) /\ Len(data_cipher(o.key, o.dec, p)) = Len(p)
    BY <1>1, CipherType, Zenon
  <2> QED
    BY <2>1 DEF Deciphered
<1>3. client_cou(a) \in Counters
  BY <1>2, InitParts
<1>4. Blocks(InitLen) \in Int
  <2>1. InitLen \in Nat
    BY SizesAssumption DEF InitLen
  <2> QED
    BY <2>1, BlocksType
<1>5. PICK x \in Counters, y \in Counters :
        x = Plus(o.dec, Blocks(InitLen)) /\ y = Plus(o.enc, Blocks(InitLen))
  <2>1. o.dec \in Int /\ o.enc \in Int
    BY <1>1, WidthType DEF Counters
  <2> QED
    BY <1>4, <2>1, PlusType
<1>6. AfterDecipher(o, p) = [key |-> o.key, enc |-> o.enc, dec |-> x]
  BY <1>5 DEF AfterDecipher, Objects
<1>7. CASE check_cs(a)
  <2>1. keys_final(o, p) =
          [ok |-> TRUE, o |-> [AfterDecipher(o, p) EXCEPT !.enc = client_cou(a)], data |-> a]
    BY <1>2, <1>7 DEF keys_final
  <2>2. keys_final(o, p).o = [key |-> o.key, enc |-> client_cou(a), dec |-> x]
    BY <1>6, <2>1
  <2> QED
    BY <1>1, <1>3, <2>1, <2>2 DEF Objects
<1>8. CASE ~check_cs(a)
  <2>1. /\ keys_final(o, p).ok = FALSE
        /\ keys_final(o, p).o = AfterEncipher(AfterDecipher(o, p), a)
    BY <1>2, <1>8 DEF keys_final
  <2>2. AfterEncipher(AfterDecipher(o, p), a) = [key |-> o.key, enc |-> y, dec |-> x]
    BY <1>2, <1>5, <1>6 DEF AfterEncipher
  <2>3. keys_final(o, p).o = [key |-> o.key, enc |-> y, dec |-> x]
    BY <2>1, <2>2
  <2>4. [key |-> o.key, enc |-> y, dec |-> x] \in Objects
    BY <1>1 DEF Objects
  <2>5. keys_final(o, p).o.key = o.key
    BY <2>3
  <2> QED
    BY <2>1, <2>3, <2>4, <2>5
<1> QED
  BY <1>7, <1>8

-----------------------------------------------------------------------------
\* The invariant.

\* A message in its turn says what was said: deciphered from the counter c, the
\* one whose lowest byte it brings, it ends with its checksum.
Carries(x, key, c) ==
  x.msg.size > 0 =>
    LET plain == data_cipher(key, c, x.msg.body) IN
    /\ x.msg.low = c % Byte
    /\ CsOf(plain) = CsBytes(MsgCs(x.msg, Text(plain)))
    /\ Understood(WithBody(x.msg, Text(plain)), x.said) = x.said

\* Each message of W in its turn, deciphered from the counter base on, says what
\* was said; enc is the counter past them all.
Chain(W, key, base, enc) ==
  /\ \A i \in DOMAIN W : Carries(W[i], key, At(base, AllBlocks(W), i))
  /\ enc = Past(base, AllBlocks(W))

\* What is on its way from e: the messages on the wire, behind the keys or their
\* answer, and those that are not written yet.
Exchanging(e) == IF e = "server" THEN phase = "prepared" ELSE phase = "received"

Rest(e) == IF Exchanging(e) THEN Tail(wire[e]) ELSE wire[e]

Way(e) == Rest(e) \o posted[e]

\* Has the end e enciphered all it said with the new keys, and is somebody there
\* to read it?
Chained(e) ==
  /\ open /\ ~early /\ ~strayed[e]
  /\ phase = "done" \/ (phase = "received" /\ e = "client")

\* The counter of the peer when it reads the oldest message of e.
Base(e) ==
  IF phase = "received" THEN Plus(obj[Peer(e)].dec, Blocks(InitLen)) ELSE obj[Peer(e)].dec

\* A message has the size of its body, and room for what was said.
Shaped(x) ==
  \/ x.msg = NewMessage(None) /\ x.said = <<>>
  \/ /\ x.msg.size = Len(x.msg.body) /\ x.msg.size > cs_size
     /\ x.msg.id \in {String, Value}
     /\ x.msg.id = Value => x.msg.size = Len(x.said) + cs_size

\* Keys and answer have nothing but messages behind them, and when they are read
\* there are only messages.
Placed(e) ==
  /\ Exchanging(e) =>
       wire[e] # <<>> /\ (wire[e][1].unit = "keys" => Tail(wire[e]) \in Seq(Said))
  /\ ~Exchanging(e) /\ phase # "refused" => wire[e] \in Seq(Said)

\* Nothing goes ahead of the keys, and ahead of the answer only what is early.
InPlace ==
  /\ \A e \in Ends : Placed(e)
  /\ phase = "start" => wire["server"] = <<>> /\ posted["server"] = <<>>
  /\ ~early /\ phase \in {"start", "prepared", "copied"} => wire["client"] = <<>>

\* What is under way of the exchange is what one end drew.
OnTheWay ==
  /\ phase = "prepared" =>
       \E d \in Randoms :
         /\ wire["server"][1] = KeysUnit(Wrapped(DefaultKey, client_cou(d), d))
         /\ obj["server"].key = sKeyIV(d) /\ obj["server"].dec = server_cou(d)
  /\ phase = "copied" /\ ~early => obj["client"].enc = obj["server"].dec
  /\ phase = "received" /\ ~early =>
       \E d \in Randoms :
         /\ wire["client"][1] =
              KeysUnit(data_cipher(obj["server"].key, obj["server"].dec, write_cs(d)))
         /\ obj["client"].dec = client_cou(d)

\* Whose keys are whose in the course of the exchange.
SameKeys ==
  /\ phase = "start" => obj["server"].key = DefaultKey
  /\ phase \in {"start", "prepared"} => obj["client"].key = DefaultKey
  /\ phase \in {"copied", "received", "done"} => obj["client"].key = obj["server"].key

\* Before it is over the server says nothing that has a body, and the client, up
\* to its answer, only what is counted as strayed or early.
Silent(W) == \A i \in DOMAIN W : W[i].msg.size = 0

Quiet ==
  /\ ~strayed["server"]
  /\ phase # "done" => ~heard
  /\ phase \notin {"done", "refused"} => open /\ Silent(Way("server"))
  /\ phase \in {"start", "prepared", "copied"} /\ ~early /\ ~strayed["client"] =>
       Silent(posted["client"])

\* The messages of a wire or a queue have their shape.
Shapely(W) == \A i \in DOMAIN W : W[i].unit = "message" => Shaped(W[i])

AllShaped == \A e \in Ends : Shapely(wire[e]) /\ Shapely(posted[e])

Chains ==
  \A e \in Ends : Chained(e) => Chain(Way(e), obj[Peer(e)].key, Base(e), obj[e].enc)

IInv ==
  /\ TypeOK /\ ExchangeWorks /\ RoundTrip
  /\ AllShaped /\ InPlace /\ OnTheWay /\ SameKeys /\ Quiet /\ Chains

-----------------------------------------------------------------------------
\* Messages.

\* The checksum of a message is a number.
LEMMA MsgCsType ==
  ASSUME NEW msg \in Messages, NEW body \in Seq(Bytes)
  PROVE  MsgCs(msg, body) \in Nat
<1> HIDE DEF Bytes, Word, CsBytes
<1>1. msg.size \in Nat /\ msg.id \in Int /\ msg.low \in Bytes
  BY DEF Messages, None, String, Value
<1>2. PICK a \in Seq(Bytes) : a = Word(msg.size)
  BY <1>1, WordType
<1>3. PICK b \in Seq(Bytes) : b = CsBytes(msg.id)
  BY <1>1, CsBytesType
<1>4. PICK c \in Seq(Bytes) : c = <<msg.low, 0>>
  <2>1. 0 \in Bytes
    BY ByteType, Zenon
  <2>2. <<msg.low, 0>> \in Seq(Bytes)
    BY <1>1, <2>1
  <2> QED
    BY <2>2
<1>5. a \o b \in Seq(Bytes)
  BY ConcatProperties
<1>6. HeaderBytes(msg) \in Seq(Bytes)
  <2>1. \A x, y \in Seq(Bytes) : x \o y \in Seq(Bytes)
    BY ConcatProperties
  <2>2. HeaderBytes(msg) = a \o b \o c
    BY <1>2, <1>3, <1>4, Zenon DEF HeaderBytes
  <2> QED
    BY <2>1, <2>2
<1>7. PICK x \in Nat : x = get_crc(HeaderBytes(msg))
  BY <1>6, CrcType
<1>8. PICK y \in Nat : y = get_crc(body)
  BY CrcType
<1>9. PICK w \in Nat \ {0} : w = Byte * Byte
  <2>1. \A v \in Nat \ {0} : v * v \in Nat \ {0}
    BY SMT
  <2> QED
    BY <2>1, ByteType
<1>10. (x + y) % w \in Nat
  BY SMT
<1> QED
  BY <1>7, <1>8, <1>9, <1>10 DEF MsgCs

\* It does not depend on the body the message has.
LEMMA MsgCsOfHeader ==
  ASSUME NEW m, NEW n, m.size = n.size, m.id = n.id, m.low = n.low, NEW body
  PROVE  MsgCs(m, body) = MsgCs(n, body)
  BY Zenon DEF MsgCs, HeaderBytes

\* Two fields of a message change.
Stamped(m, size, low) == [m EXCEPT !.size = size, !.low = low]

Filled(m, body, size) == [m EXCEPT !.body = body, !.size = size]

\* The others stay.
LEMMA Changed ==
  ASSUME NEW m \in Messages, NEW x, NEW y
  PROVE  /\ Stamped(m, x, y) =
              [size |-> x, id |-> m.id, low |-> y, body |-> m.body]
         /\ Filled(m, x, y) =
              [size |-> y, id |-> m.id, low |-> m.low, body |-> x]
<1> DEFINE A == Nat
           B == {None, String, Value}
           C == Bytes
           D == Seq(Bytes)
<1>0. m \in [size : A, id : B, low : C, body : D]
  BY DEF Messages
<1> HIDE DEF A, B, C, D
<1>1. PICK k : k = [m EXCEPT !.size = x]
  OBVIOUS
<1>2. k = [size |-> x, id |-> m.id, low |-> m.low, body |-> m.body]
  BY <1>0, <1>1
<1>3. k \in [size : {x}, id : B, low : C, body : D]
  BY <1>0, <1>2
<1>4. [k EXCEPT !.low = y] = [size |-> x, id |-> m.id, low |-> y, body |-> m.body]
  BY <1>2, <1>3
<1>5. [m EXCEPT !.size = x, !.low = y] = [k EXCEPT !.low = y]
  BY <1>1, Zenon
<1>6. PICK n : n = [m EXCEPT !.body = x]
  OBVIOUS
<1>7. n = [size |-> m.size, id |-> m.id, low |-> m.low, body |-> x]
  BY <1>0, <1>6
<1>8. n \in [size : A, id : B, low : C, body : {x}]
  BY <1>0, <1>7
<1>9. [n EXCEPT !.size = y] = [size |-> y, id |-> m.id, low |-> m.low, body |-> x]
  BY <1>7, <1>8
<1>10. [m EXCEPT !.body = x, !.size = y] = [n EXCEPT !.size = y]
  BY <1>6, Zenon
<1> QED
  BY <1>4, <1>5, <1>9, <1>10, Zenon DEF Stamped, Filled

\* What msg_to_out makes of a message with a body.
LEMMA ToOut ==
  ASSUME NEW o \in Objects, NEW msg \in Messages, msg.body # <<>>
  PROVE  LET r == msg_to_out(o, msg)
             plain == data_cipher(o.key, o.enc, r.msg.body)
         IN /\ r.o = [key |-> o.key, enc |-> Plus(o.enc, Blocks(Len(msg.body) + cs_size)),
                      dec |-> o.dec]
            /\ r.msg \in Messages /\ r.msg.id = msg.id
            /\ r.msg.size = Len(msg.body) + cs_size /\ Len(r.msg.body) = r.msg.size
            /\ r.msg.low = o.enc % Byte
            /\ Text(plain) = msg.body
            /\ CsOf(plain) = CsBytes(MsgCs(r.msg, msg.body))
<1> HIDE DEF Bytes, Keys, Counters, Text, CsOf, CsBytes, MsgCs, data_cipher
<1>1. /\ o.key \in Keys /\ o.enc \in Counters /\ o.enc % Byte \in Bytes
      /\ o = [key |-> o.key, enc |-> o.enc, dec |-> o.dec]
  <2>1. o.enc \in Counters
    BY DEF Objects
  <2>2. o.enc % Byte \in Bytes
    BY <2>1, LowType DEF Bytes
  <2> QED
    BY <2>1, <2>2 DEF Objects
<1>2. PICK text \in Seq(Bytes) : text = msg.body
  BY DEF Messages
<1>3. PICK n \in Nat : n = Len(text) + cs_size
  BY DEF cs_size
<1> DEFINE m == [msg EXCEPT !.size = Len(msg.body) + cs_size, !.low = o.enc % Byte]
<1>4. m = [size |-> n, id |-> msg.id, low |-> o.enc % Byte, body |-> text]
  <2>1. m = [size |-> Len(msg.body) + cs_size, id |-> msg.id, low |-> o.enc % Byte,
             body |-> msg.body]
    <3>1. m = Stamped(msg, Len(msg.body) + cs_size, o.enc % Byte)
      BY Zenon DEF Stamped
    <3> HIDE DEF m
    <3> QED
      BY <3>1, Changed
  <2> QED
    BY <1>2, <1>3, <2>1
<1>5. m \in Messages
  BY <1>1, <1>2, <1>3, <1>4 DEF Messages
<1>6. PICK c \in Seq(Bytes) : c = CsBytes(MsgCs(m, text)) /\ Len(c) = cs_size
  <2>1. MsgCs(m, text) \in Int
    BY <1>5, MsgCsType
  <2> QED
    BY <2>1, CsBytesType
<1>7. PICK plain \in Seq(Bytes) : plain = text \o c /\ Len(plain) = n
  BY <1>3, <1>6, Parts
<1>8. Text(plain) = text /\ CsOf(plain) = c
  BY <1>6, <1>7, Parts
<1>9. PICK e \in Seq(Bytes) :
        /\ e = data_cipher(o.key, o.enc, plain) /\ Len(e) = n
        /\ data_cipher(o.key, o.enc, e) = plain
  <2>1. PICK k \in Keys, x \in Counters : k = o.key /\ x = o.enc
    BY <1>1
  <2>2. data_cipher(k, x, plain) \in Seq(Bytes) /\ Len(data_cipher(k, x, plain)) = Len(plain)
        /\ data_cipher(k, x, data_cipher(k, x, plain)) = plain
    BY CipherType, CipherTwice, Zenon
  <2> QED
    BY <1>7, <2>1, <2>2
<1>10. /\ msg_to_out(o, msg).o = AfterEncipher(o, plain)
       /\ msg_to_out(o, msg).msg = [m EXCEPT !.body = e]
  BY <1>2, <1>6, <1>7, <1>9 DEF msg_to_out, Enciphered
<1>11. AfterEncipher(o, plain) = [key |-> o.key, enc |-> Plus(o.enc, Blocks(n)), dec |-> o.dec]
  BY <1>1, <1>7 DEF AfterEncipher
<1> HIDE DEF m
<1>12. PICK r : r = msg_to_out(o, msg).msg
  OBVIOUS
<1>13. r = [size |-> n, id |-> msg.id, low |-> o.enc % Byte, body |-> e]
  BY <1>4, <1>10, <1>12
<1>14. r \in Messages
  BY <1>1, <1>13 DEF Messages
<1>15. MsgCs(r, text) = MsgCs(m, text)
  <2>1. r.size = m.size /\ r.id = m.id /\ r.low = m.low
    BY <1>4, <1>13
  <2> QED
    BY <2>1, MsgCsOfHeader, Zenon
<1> QED
  BY <1>2, <1>3, <1>6, <1>8, <1>9, <1>10, <1>11, <1>12, <1>13, <1>14, <1>15

\* The string in a body.
LEMMA UpToZeroType ==
  ASSUME NEW body \in Seq(Bytes)
  PROVE  UpToZero(body) \in Seq(Bytes)
<1> HIDE DEF Bytes
<1>1. PICK n \in Nat : n = Len(body) /\ DOMAIN body = 1 .. n
  OBVIOUS
<1> DEFINE zeros == {i \in DOMAIN body : body[i] = 0}
           first == CHOOSE i \in zeros : \A j \in zeros : i <= j
<1>2. CASE zeros # {}
  <2>1. zeros \subseteq Nat
    BY <1>1
  <2>2. first \in zeros
    <3> HIDE DEF zeros
    <3>1. \E i \in zeros : \A j \in zeros : i <= j
      BY <1>2, <2>1, LeastNumber
    <3> QED
      BY <3>1
  <2>3. first \in 1 .. n
    BY <1>1, <2>2
  <2>4. UpToZero(body) = SubSeq(body, 1, first - 1)
    BY <1>2, Zenon DEF UpToZero
  <2> HIDE DEF first
  <2>5. first - 1 \in Nat /\ first - 1 <= Len(body) /\ 1 \in Nat \ {0}
    BY <1>1, <2>3
  <2>6. SubSeq(body, 1, first - 1) \in Seq(Bytes)
    BY <2>5, PieceType
  <2> QED
    BY <2>4, <2>6
<1>3. CASE zeros = {}
  BY <1>3, Zenon DEF UpToZero
<1> QED
  BY <1>2, <1>3

\* The string that was put there.
LEMMA UpToTheZero ==
  ASSUME NEW s \in Seq(Bytes \ {0})
  PROVE  Append(s, 0) \in Seq(Bytes) /\ UpToZero(Append(s, 0)) = s
<1> HIDE DEF Bytes
<1>1. PICK n \in Nat : n = Len(s)
  OBVIOUS
<1>2. PICK b \in Seq(Bytes) : b = Append(s, 0)
  <2>1. s \in Seq(Bytes)
    BY LargerSeq
  <2>2. 0 \in Bytes
    BY ByteType, Zenon
  <2>3. Append(s, 0) \in Seq(Bytes)
    BY <2>1, <2>2
  <2> QED
    BY <2>3
<1>3. /\ Len(b) = n + 1 /\ DOMAIN b = 1 .. n + 1 /\ b[n + 1] = 0
      /\ \A i \in 1 .. n : b[i] = s[i] /\ s[i] # 0
  <2>1. \A i \in 1 .. n : s[i] \in Bytes \ {0}
    BY <1>1
  <2> QED
    BY <1>1, <1>2, <2>1
<1> DEFINE zeros == {i \in DOMAIN b : b[i] = 0}
           first == CHOOSE i \in zeros : \A j \in zeros : i <= j
<1>4. zeros = {n + 1}
  BY <1>3
<1>5. first = n + 1
  <2> HIDE DEF zeros
  <2>1. \A i \in zeros : i = n + 1
    BY <1>4
  <2>2. \E i \in zeros : \A j \in zeros : i <= j
    BY <1>4
  <2> QED
    BY <2>1, <2>2
<1>6. UpToZero(b) = SubSeq(b, 1, n)
  <2>1. UpToZero(b) = SubSeq(b, 1, first - 1)
    BY <1>4, Zenon DEF UpToZero
  <2> HIDE DEF first
  <2>2. first - 1 = n
    BY <1>5
  <2> QED
    BY <2>1, <2>2
<1>7. SubSeq(b, 1, n) = s
  BY <1>1, <1>2
<1> QED
  BY <1>2, <1>6, <1>7

\* What the program makes of a body that has room for what was said.
LEMMA UnderstoodType ==
  ASSUME NEW msg, msg.body \in Seq(Bytes), NEW said \in Seq(Bytes),
         msg.id = Value => Len(said) <= Len(msg.body), msg.id \in {None, String, Value}
  PROVE  Understood(msg, said) \in Seq(Bytes)
<1> HIDE DEF Bytes, UpToZero
<1>1. CASE msg.id = None
  BY <1>1 DEF Understood
<1>2. CASE msg.id = String
  BY <1>2, UpToZeroType DEF Understood, None, String
<1>3. CASE msg.id = Value
  <2>1. PICK n \in Nat, k \in Nat : n = Len(msg.body) /\ k = Len(said) /\ k <= n
    BY <1>3
  <2>2. n - k + 1 \in Nat \ {0}
    BY <2>1
  <2>3. PICK body \in Seq(Bytes) : body = msg.body
    OBVIOUS
  <2>4. SubSeq(body, n - k + 1, n) \in Seq(Bytes)
    BY <2>1, <2>2, <2>3, PieceType
  <2> QED
    BY <1>3, <2>1, <2>3, <2>4 DEF Understood, None, String, Value, Pulled
<1> QED
  BY <1>1, <1>2, <1>3

\* What msg_from_in makes of a message with a body: data of its type, and of a
\* message in its turn what was said.
LEMMA FromIn ==
  ASSUME NEW o \in Objects, NEW x \in Said, Shaped(x), x.msg.size > 0
  PROVE  LET r == msg_from_in(o, x.msg) IN
         /\ r.ok \in BOOLEAN
         /\ r.o \in Objects /\ r.o.key = o.key /\ r.o.enc = o.enc
         /\ Understood(r.msg, x.said) \in Seq(Bytes)
         /\ Carries(x, o.key, o.dec) =>
              /\ r.ok
              /\ r.o.dec = Plus(o.dec, Blocks(Len(x.msg.body)))
              /\ Understood(r.msg, x.said) = x.said
<1> HIDE DEF Bytes, Keys, Counters, Text, CsOf, CsBytes, MsgCs, data_cipher, Understood
<1>1. PICK m \in Messages : m = x.msg
  BY DEF Said
<1>2. PICK said \in Seq(Bytes) : said = x.said
  BY DEF Said
<1>3. PICK n \in Nat : n = m.size /\ n = Len(m.body) /\ n > 2
  BY <1>1 DEF Shaped, NewMessage, Messages, cs_size
<1>4. PICK body \in Seq(Bytes) : body = m.body /\ Len(body) = n
  BY <1>3 DEF Messages
<1>5. m.id \in {String, Value} /\ m.low \in Bytes /\ (m.id = Value => n = Len(said) + 2)
  BY <1>1, <1>2, <1>3 DEF Shaped, NewMessage, Messages, cs_size
<1>6. PICK k \in Keys : k = o.key
  BY DEF Objects
<1>7. PICK c \in Counters : c = Resync(o.dec, m.low)
  <2>1. o.dec \in Counters
    BY DEF Objects
  <2>2. m.low \in 0 .. Byte - 1
    BY <1>5 DEF Bytes
  <2> QED
    BY <2>1, <2>2, ResyncType
<1>8. PICK data \in Seq(Bytes) : data = data_cipher(k, c, body) /\ Len(data) = n
  <2>1. data_cipher(k, c, body) \in Seq(Bytes) /\ Len(data_cipher(k, c, body)) = Len(body)
    BY CipherType, Zenon
  <2> QED
    BY <1>4, <2>1
<1>9. PICK text \in Seq(Bytes) : text = Text(data) /\ Len(text) = n - 2
  <2>1. n - 2 \in Nat /\ n - 2 <= Len(data) /\ (IF 1 <= n - 2 THEN (n - 2) - 1 + 1 ELSE 0) = n - 2
    BY <1>3, <1>8
  <2>2. /\ SubSeq(data, 1, n - 2) \in Seq(Bytes)
        /\ Len(SubSeq(data, 1, n - 2)) = IF 1 <= n - 2 THEN (n - 2) - 1 + 1 ELSE 0
    BY <2>1, PieceType
  <2>3. Text(data) = SubSeq(data, 1, n - 2)
    BY <1>8 DEF Text, cs_size
  <2> QED
    BY <2>1, <2>2, <2>3
<1> DEFINE o0 == [o EXCEPT !.dec = Resync(@, m.low)]
<1>10. o0 = [key |-> k, enc |-> o.enc, dec |-> c]
  <2>1. o = [key |-> o.key, enc |-> o.enc, dec |-> o.dec]
    BY DEF Objects
  <2>2. o0 = [key |-> o.key, enc |-> o.enc, dec |-> Resync(o.dec, m.low)]
    BY <2>1
  <2> QED
    BY <1>6, <1>7, <2>2
<1>11. Plain(o, m) = data
  BY <1>4, <1>8, <1>10 DEF Plain, Deciphered
<1> HIDE DEF o0
<1>12. AfterDecipher(o0, data) = [key |-> k, enc |-> o.enc, dec |-> Plus(c, Blocks(n))]
  BY <1>8, <1>10 DEF AfterDecipher
<1>13. PICK o1 \in Objects :
         /\ o1 = AfterDecipher(o0, data)
         /\ o1.key = k /\ o1.enc = o.enc /\ o1.dec = Plus(c, Blocks(n))
  <2>1. Blocks(n) \in Int /\ c \in Int
    BY BlocksType, WidthType DEF Counters
  <2>2. Plus(c, Blocks(n)) \in Counters
    BY <2>1, PlusType
  <2>3. o.enc \in Counters
    BY DEF Objects
  <2> QED
    BY <1>12, <2>2, <2>3 DEF Objects
<1>14. PICK rej : rej = CsRejected(MsgCs(m, text), CsOf(data))
  OBVIOUS
<1>15. PICK r : r = msg_from_in(o, m)
  OBVIOUS
<1>16. r = IF rej THEN [ok |-> FALSE, o |-> o1, msg |-> [m EXCEPT !.body = data]]
           ELSE [ok |-> TRUE, o |-> o1, msg |-> WithBody(m, text)]
  <2>1. m.body # <<>>
    BY <1>3
  <2>2. ~(Len(m.body) # m.size)
    BY <1>3
  <2>3. AfterDecipher([o EXCEPT !.dec = Resync(@, m.low)], Plain(o, m)) = o1
    BY <1>11, <1>13 DEF o0
  <2> QED
    BY <1>9, <1>11, <1>14, <1>15, <2>1, <2>2, <2>3 DEF msg_from_in
<1>17. r.ok \in BOOLEAN /\ r.o = o1
  BY <1>16
<1>18. WithBody(m, text) = [size |-> n - 2, id |-> m.id, low |-> m.low, body |-> text]
  <2>1. WithBody(m, text) = Filled(m, text, Len(text))
    BY Zenon DEF WithBody, Filled
  <2> QED
    BY <1>9, <2>1, Changed
<1>19. Understood(r.msg, said) \in Seq(Bytes)
  <2>1. r.msg.body \in Seq(Bytes) /\ Len(r.msg.body) >= n - 2 /\ r.msg.id = m.id
    <3>1. CASE rej
      <4>1. r.msg = [m EXCEPT !.body = data]
        BY <1>16, <3>1
      <4>2. r.msg.body = data /\ r.msg.id = m.id
        BY <4>1 DEF Messages
      <4> QED
        BY <1>8, <4>2
    <3>2. CASE ~rej
      <4>1. r.msg.body = text /\ r.msg.id = m.id
        BY <1>16, <1>18, <3>2
      <4> QED
        BY <1>9, <4>1
    <3> QED
      BY <3>1, <3>2
  <2>2. PICK q : q = r.msg
    OBVIOUS
  <2>3. q.id = Value => Len(said) <= Len(q.body)
    <3>1. PICK j \in Nat, i \in Nat : j = Len(said) /\ i = Len(q.body) /\ i >= n - 2
      BY <2>1, <2>2
    <3> QED
      BY <1>5, <2>1, <2>2, <3>1
  <2>4. Understood(q, said) \in Seq(Bytes)
    BY <1>5, <2>1, <2>2, <2>3, UnderstoodType
  <2> QED
    BY <2>2, <2>4
<1>20. ASSUME Carries(x, o.key, o.dec)
       PROVE  r.ok /\ r.o.dec = Plus(o.dec, Blocks(n)) /\ Understood(r.msg, said) = said
  <2>1. c = o.dec
    <3>1. m.low = o.dec % Byte
      BY <1>1, <1>3, <1>20 DEF Carries
    <3>2. o.dec % Byte \in Int /\ o.dec \in Counters
      <4>1. o.dec \in Counters
        BY DEF Objects
      <4>2. \A b \in 0 .. Byte - 1 : b \in Int
        BY ByteAssumption
      <4> QED
        BY <4>1, <4>2, LowType
    <3> QED
      BY <1>7, <3>1, <3>2 DEF Resync
  <2>2. data = data_cipher(o.key, o.dec, x.msg.body)
    BY <1>1, <1>4, <1>6, <1>8, <2>1
  <2>3. /\ CsOf(data) = CsBytes(MsgCs(m, text))
        /\ Understood(WithBody(m, text), said) = said
    BY <1>1, <1>2, <1>9, <1>20, <2>2 DEF Carries
  <2>4. ~rej
    BY <1>14, <2>3 DEF CsRejected
  <2> QED
    BY <1>13, <1>16, <2>1, <2>3, <2>4
<1> QED
  BY <1>1, <1>2, <1>3, <1>6, <1>13, <1>15, <1>17, <1>19, <1>20

-----------------------------------------------------------------------------
\* The messages on their way.

\* A message is enciphered in a number of blocks.
LEMMA BlocksOfType ==
  ASSUME NEW x \in Said
  PROVE  BlocksOf(x.msg) \in Nat
<1>1. x.msg.body \in Seq(Bytes)
  BY DEF Said, Messages
<1>2. Len(x.msg.body) \in Nat
  BY <1>1, LenProperties
<1>3. Blocks(Len(x.msg.body)) \in Nat
  BY <1>2, BlocksType
<1> QED
  BY <1>3 DEF BlocksOf

\* Their numbers of blocks.
LEMMA AllBlocksType ==
  ASSUME NEW W \in Seq(Said)
  PROVE  /\ AllBlocks(W) \in Seq(Nat) /\ Len(AllBlocks(W)) = Len(W)
         /\ \A i \in 1 .. Len(W) : AllBlocks(W)[i] = BlocksOf(W[i].msg)
<1>1. PICK n \in Nat : n = Len(W) /\ DOMAIN W = 1 .. n
  OBVIOUS
<1>3. \A i \in 1 .. n : W[i] \in Said
  BY <1>1
<1> HIDE DEF Said
<1>4. AllBlocks(W) = [i \in 1 .. n |-> BlocksOf(W[i].msg)]
  BY <1>1, Zenon DEF AllBlocks
<1>5. \A i \in 1 .. n : BlocksOf(W[i].msg) \in Nat
  BY <1>3, BlocksOfType
<1>6. AllBlocks(W) \in [1 .. n -> Nat]
  BY <1>4, <1>5
<1> QED
  BY <1>1, <1>4, <1>6

\* One message more, enciphered from where the others end.
LEMMA ChainAppend ==
  ASSUME NEW W \in Seq(Said), NEW x \in Said, NEW key, NEW base \in Counters, NEW enc,
         Chain(W, key, base, enc), Carries(x, key, enc)
  PROVE  Chain(Append(W, x), key, base, Plus(enc, BlocksOf(x.msg)))
<1>1. PICK n \in Nat : n = Len(W) /\ DOMAIN W = 1 .. n
  OBVIOUS
<1>2. PICK V \in Seq(Said) : V = Append(W, x)
  <2>1. Append(W, x) \in Seq(Said)
    OBVIOUS
  <2> QED
    BY <2>1
<1>3. /\ Len(V) = n + 1 /\ DOMAIN V = 1 .. n + 1 /\ V[n + 1] = x
      /\ \A i \in 1 .. n : V[i] = W[i]
  BY <1>1, <1>2
<1>4. PICK w \in Seq(Nat) :
        w = AllBlocks(W) /\ Len(w) = n /\ \A i \in 1 .. n : w[i] = BlocksOf(W[i].msg)
  BY <1>1, AllBlocksType
<1>5. PICK v \in Seq(Nat) :
        v = AllBlocks(V) /\ Len(v) = n + 1 /\ \A i \in 1 .. n + 1 : v[i] = BlocksOf(V[i].msg)
  BY <1>3, AllBlocksType
<1>6. Longer(v, w)
  <2>1. \A i \in 1 .. n : i \in 1 .. n + 1
    OBVIOUS
  <2>2. \A i \in 1 .. n : v[i] = w[i]
    BY <1>3, <1>4, <1>5, <2>1
  <2> QED
    BY <1>4, <1>5, <2>2 DEF Longer
<1>7. /\ \A i \in 1 .. n : At(base, v, i) = At(base, w, i)
      /\ At(base, v, n + 1) = Past(base, w)
      /\ Past(base, v) = Plus(Past(base, w), v[n + 1])
  BY <1>4, <1>6, LongerAt
<1>8. enc = Past(base, w) /\ \A i \in 1 .. n : Carries(W[i], key, At(base, w, i))
  BY <1>1, <1>4 DEF Chain
<1>9. \A i \in 1 .. n + 1 : Carries(V[i], key, At(base, v, i))
  <2> SUFFICES ASSUME NEW i \in 1 .. n + 1
               PROVE  Carries(V[i], key, At(base, v, i))
    OBVIOUS
  <2>1. CASE i = n + 1
    BY <1>3, <1>7, <1>8, <2>1
  <2>2. CASE i # n + 1
    <3>1. i \in 1 .. n
      BY <2>2
    <3> QED
      BY <1>3, <1>7, <1>8, <3>1
  <2> QED
    BY <2>1, <2>2
<1>10. Plus(enc, BlocksOf(x.msg)) = Past(base, v)
  <2>1. v[n + 1] = BlocksOf(x.msg)
    BY <1>3, <1>5
  <2> QED
    BY <1>7, <1>8, <2>1
<1>11. Chain(V, key, base, Plus(enc, BlocksOf(x.msg)))
  BY <1>3, <1>5, <1>9, <1>10 DEF Chain
<1> QED
  BY <1>2, <1>11

\* The oldest message is in its turn, and when it is read the next one is.
LEMMA ChainTail ==
  ASSUME NEW W \in Seq(Said), W # <<>>, NEW key, NEW base \in Counters, NEW enc,
         Chain(W, key, base, enc)
  PROVE  /\ Carries(W[1], key, base)
         /\ Chain(Tail(W), key, Plus(base, BlocksOf(W[1].msg)), enc)
<1>1. PICK V \in Seq(Said) : V = Tail(W)
  BY HeadTailProperties
<1>2. PICK n \in Nat : n = Len(V)
  OBVIOUS
<1>3. /\ Len(W) = n + 1 /\ DOMAIN W = 1 .. n + 1 /\ DOMAIN V = 1 .. n
      /\ \A i \in 1 .. n : V[i] = W[i + 1]
  BY <1>1, <1>2
<1>4. PICK w \in Seq(Nat) :
        w = AllBlocks(W) /\ Len(w) = n + 1 /\ \A i \in 1 .. n + 1 : w[i] = BlocksOf(W[i].msg)
  BY <1>3, AllBlocksType
<1>5. PICK v \in Seq(Nat) :
        v = AllBlocks(V) /\ Len(v) = n /\ \A i \in 1 .. n : v[i] = BlocksOf(V[i].msg)
  BY <1>2, AllBlocksType
<1>6. Shorter(v, w)
  <2>1. \A i \in 1 .. n : i + 1 \in 1 .. n + 1
    OBVIOUS
  <2>2. \A i \in 1 .. n : v[i] = w[i + 1]
    BY <1>3, <1>4, <1>5, <2>1
  <2> QED
    BY <1>4, <1>5, <2>2 DEF Shorter
<1>7. /\ At(base, w, 1) = base
      /\ \A i \in 1 .. n : At(Plus(base, w[1]), v, i) = At(base, w, i + 1)
      /\ Past(Plus(base, w[1]), v) = Past(base, w)
  BY <1>5, <1>6, ShorterAt
<1>8. enc = Past(base, w) /\ \A i \in 1 .. n + 1 : Carries(W[i], key, At(base, w, i))
  BY <1>3, <1>4 DEF Chain
<1>9. 1 \in 1 .. n + 1 /\ w[1] = BlocksOf(W[1].msg)
  <2>1. 1 \in 1 .. n + 1
    OBVIOUS
  <2> QED
    BY <1>4, <2>1
<1>10. Carries(W[1], key, base)
  BY <1>7, <1>8, <1>9
<1>11. \A i \in 1 .. n : Carries(V[i], key, At(Plus(base, w[1]), v, i))
  <2>1. \A i \in 1 .. n : i + 1 \in 1 .. n + 1
    OBVIOUS
  <2> QED
    BY <1>3, <1>7, <1>8, <2>1
<1>12. Chain(V, key, Plus(base, w[1]), enc)
  BY <1>3, <1>5, <1>7, <1>8, <1>11 DEF Chain
<1> QED
  BY <1>1, <1>9, <1>10, <1>12

\* Messages without a body are in their turn at any counter, and leave it.
LEMMA ChainSilent ==
  ASSUME NEW W \in Seq(Said), NEW key, NEW base \in Counters,
         Silent(W)
  PROVE  Chain(W, key, base, base)
<1>1. PICK n \in Nat : n = Len(W) /\ DOMAIN W = 1 .. n
  OBVIOUS
<1>2. PICK w \in Seq(Nat) :
        w = AllBlocks(W) /\ Len(w) = n /\ \A i \in 1 .. n : w[i] = BlocksOf(W[i].msg)
  BY <1>1, AllBlocksType
<1>3. \A i \in 1 .. n : w[i] = 0
  BY <1>1, <1>2 DEF BlocksOf, Silent
<1>4. Past(base, w) = base
  BY <1>2, <1>3, NothingPast
<1>5. \A i \in DOMAIN W : Carries(W[i], key, At(base, w, i))
  BY DEF Carries, Silent
<1> QED
  BY <1>2, <1>4, <1>5 DEF Chain

\* msg is what a program says with said.
Speech(msg, said) ==
  /\ msg \in Messages /\ said \in Seq(Bytes)
  /\ \/ msg = NewMessage(None) /\ said = <<>>
     \/ /\ msg.body # <<>> /\ msg.id \in {String, Value}
        /\ msg.id = Value => Len(msg.body) = Len(said)
        /\ \A m \in Messages :
             m.id = msg.id /\ m.body = msg.body => Understood(m, said) = said

\* A string, a value and nothing are such messages.
LEMMA Speeches ==
  /\ \A s \in Strings : Speech(FromString(NewMessage(String), s), s)
  /\ \A v \in Values : Speech(Push(NewMessage(Value), v), v)
  /\ Speech(NewMessage(None), <<>>)
<1> HIDE DEF Bytes
<1>1. 0 \in Bytes /\ <<>> \in Seq(Bytes)
  <2>1. 0 \in Bytes
    BY ByteType, Zenon
  <2> QED
    BY <2>1
<1>2. \A id \in {None, String, Value} :
        NewMessage(id) \in Messages /\ NewMessage(id) = [size |-> 0, id |-> id, low |-> 0,
                                                         body |-> <<>>]
  BY <1>1 DEF NewMessage, Messages
<1>3. ASSUME NEW id \in {None, String, Value}, NEW body \in Seq(Bytes)
      PROVE  /\ WithBody(NewMessage(id), body) \in Messages
             /\ WithBody(NewMessage(id), body).body = body
             /\ WithBody(NewMessage(id), body).id = id
  <2>1. PICK m \in Messages : m = NewMessage(id) /\ m.id = id /\ m.low = 0
    BY <1>2
  <2>2. PICK k \in Nat : k = Len(body)
    OBVIOUS
  <2>3. WithBody(m, body) = Filled(m, body, k)
    BY <2>2, Zenon DEF WithBody, Filled
  <2>4. WithBody(m, body) = [size |-> k, id |-> id, low |-> 0, body |-> body]
    BY <2>1, <2>3, Changed
  <2>5. [size |-> k, id |-> id, low |-> 0, body |-> body] \in Messages
    BY <1>1 DEF Messages
  <2> QED
    BY <2>1, <2>4, <2>5
<1>4. ASSUME NEW s \in Strings
      PROVE  Speech(FromString(NewMessage(String), s), s)
  <2>1. s \in Seq(Bytes \ {0}) /\ s # <<>>
    BY DataAssumption
  <2>2. s \in Seq(Bytes)
    BY <2>1, LargerSeq
  <2>3. PICK b \in Seq(Bytes) : b = Append(s, 0) /\ UpToZero(b) = s /\ b # <<>>
    <3>1. Append(s, 0) \in Seq(Bytes) /\ UpToZero(Append(s, 0)) = s
      BY <2>1, UpToTheZero
    <3>2. Append(s, 0) # <<>>
      BY <2>1
    <3> QED
      BY <3>1, <3>2
  <2>4. FromString(NewMessage(String), s) = WithBody(NewMessage(String), b)
    BY <2>1, <2>3 DEF FromString
  <2>5. PICK msg : msg = FromString(NewMessage(String), s)
    OBVIOUS
  <2>6. msg \in Messages /\ msg.body = b /\ msg.id = String
    BY <1>3, <2>4, <2>5
  <2>7. \A m \in Messages : m.id = String /\ m.body = b => Understood(m, s) = s
    BY <2>3 DEF Understood, String, None
  <2>8. Speech(msg, s)
    BY <2>2, <2>3, <2>6, <2>7 DEF Speech, String, Value
  <2> QED
    BY <2>5, <2>8
<1>5. ASSUME NEW v \in Values
      PROVE  Speech(Push(NewMessage(Value), v), v)
  <2>1. v \in Seq(Bytes) /\ v # <<>>
    BY DataAssumption
  <2>2. NewMessage(Value).body \o v = v
    <3>1. NewMessage(Value).body = <<>>
      BY DEF NewMessage
    <3> QED
      BY <2>1, <3>1
  <2>3. PICK msg : msg = Push(NewMessage(Value), v)
    OBVIOUS
  <2>4. msg = WithBody(NewMessage(Value), v)
    BY <2>2, <2>3 DEF Push
  <2>5. msg \in Messages /\ msg.body = v /\ msg.id = Value
    BY <1>3, <2>1, <2>4
  <2>6. SubSeq(v, Len(v) - Len(v) + 1, Len(v)) = v
    <3>1. PICK n \in Nat : n = Len(v)
      BY <2>1
    <3>2. n - n + 1 = 1
      OBVIOUS
    <3>3. SubSeq(v, 1, n) = v
      BY <2>1, <3>1
    <3> QED
      BY <3>1, <3>2, <3>3
  <2>7. \A m \in Messages : m.id = Value /\ m.body = v => Understood(m, v) = v
    BY <2>6 DEF Understood, String, None, Value, Pulled
  <2>8. Speech(msg, v)
    BY <2>1, <2>5, <2>7 DEF Speech, String, Value
  <2> QED
    BY <2>3, <2>8
<1>6. Speech(NewMessage(None), <<>>)
  BY <1>1, <1>2 DEF Speech
<1> QED
  BY <1>4, <1>5, <1>6

\* What is sent has its shape and is in its turn, at the counter of the sender.
LEMMA SendStep ==
  ASSUME NEW o \in Objects, NEW msg, NEW said, Speech(msg, said),
         NEW x, x = Unit(msg_to_out(o, msg).msg, said)
  PROVE  /\ x \in Said /\ Shaped(x) /\ Carries(x, o.key, o.enc)
         /\ BlocksOf(x.msg) \in Nat /\ Plus(o.enc, BlocksOf(x.msg)) \in Counters
         /\ msg_to_out(o, msg).o =
              [key |-> o.key, enc |-> Plus(o.enc, BlocksOf(x.msg)), dec |-> o.dec]
         /\ msg.body = <<>> => x.msg.size = 0
<1> HIDE DEF Bytes, Keys, Counters, Text, CsOf, CsBytes, MsgCs, data_cipher, Understood
<1>1. msg \in Messages /\ said \in Seq(Bytes)
  BY DEF Speech
<1>2. o.enc \in Counters /\ o = [key |-> o.key, enc |-> o.enc, dec |-> o.dec]
  BY DEF Objects
<1>3. PICK r : r = msg_to_out(o, msg)
  OBVIOUS
<1>4. x = [unit |-> "message", msg |-> r.msg, said |-> said]
  BY <1>3 DEF Unit
<1>5. CASE msg.body = <<>>
  <2>1. msg = NewMessage(None) /\ said = <<>>
    BY <1>5 DEF Speech
  <2>2. r = [o |-> o, msg |-> msg]
    BY <1>3, <1>5 DEF msg_to_out
  <2>3. x.msg = msg /\ x.said = said /\ x \in Said
    BY <1>1, <1>4, <2>2 DEF Said
  <2>4. x.msg.size = 0
    BY <2>1, <2>3 DEF NewMessage
  <2>5. BlocksOf(x.msg) = 0
    BY <2>4 DEF BlocksOf
  <2>6. Plus(o.enc, BlocksOf(x.msg)) = o.enc
    BY <1>2, <2>5, PlusPlus
  <2>7. Shaped(x) /\ Carries(x, o.key, o.enc)
    BY <2>1, <2>3, <2>4 DEF Shaped, Carries
  <2> QED
    BY <1>2, <1>3, <2>2, <2>3, <2>4, <2>5, <2>6, <2>7
<1>6. CASE msg.body # <<>>
  <2> DEFINE plain == data_cipher(o.key, o.enc, r.msg.body)
  <2>1. /\ r.o = [key |-> o.key, enc |-> Plus(o.enc, Blocks(Len(msg.body) + cs_size)),
                  dec |-> o.dec]
        /\ r.msg \in Messages /\ r.msg.id = msg.id
        /\ r.msg.size = Len(msg.body) + cs_size /\ Len(r.msg.body) = r.msg.size
        /\ r.msg.low = o.enc % Byte
        /\ Text(plain) = msg.body
        /\ CsOf(plain) = CsBytes(MsgCs(r.msg, msg.body))
    BY <1>1, <1>3, <1>6, ToOut
  <2> HIDE DEF plain
  <2>2. PICK n \in Nat : n = Len(msg.body) /\ n > 0
    <3>1. msg.body \in Seq(Bytes)
      BY <1>1 DEF Messages
    <3>2. Len(msg.body) \in Nat /\ Len(msg.body) # 0
      BY <1>6, <3>1
    <3> QED
      BY <3>2
  <2>3. /\ msg.id \in {String, Value} /\ (msg.id = Value => n = Len(said))
        /\ \A m \in Messages : m.id = msg.id /\ m.body = msg.body => Understood(m, said) = said
    BY <1>6, <2>2 DEF Speech, NewMessage
  <2>4. x.msg = r.msg /\ x.said = said /\ x \in Said
    BY <1>1, <1>4, <2>1 DEF Said
  <2>5. x.msg.size = n + 2 /\ Len(x.msg.body) = n + 2 /\ n + 2 > 2 /\ n + 2 > 0
    BY <2>1, <2>2, <2>4 DEF cs_size
  <2>6. Shaped(x)
    BY <2>1, <2>3, <2>4, <2>5 DEF Shaped, cs_size
  <2>7. BlocksOf(x.msg) = Blocks(n + 2)
    BY <2>5 DEF BlocksOf
  <2>8. BlocksOf(x.msg) \in Nat
    BY <2>4, BlocksOfType
  <2>9. Plus(o.enc, BlocksOf(x.msg)) \in Counters
    <3>1. o.enc \in Int
      BY <1>2, WidthType DEF Counters
    <3> QED
      BY <2>8, <3>1, PlusType
  <2>10. r.o = [key |-> o.key, enc |-> Plus(o.enc, BlocksOf(x.msg)), dec |-> o.dec]
    BY <2>1, <2>2, <2>7 DEF cs_size
  <2>11. Carries(x, o.key, o.enc)
    <3>1. PICK m \in Messages : m = WithBody(r.msg, msg.body) /\ m.id = msg.id /\ m.body = msg.body
      <4>1. WithBody(r.msg, msg.body) = Filled(r.msg, msg.body, n)
        BY <2>2, Zenon DEF WithBody, Filled
      <4>2. WithBody(r.msg, msg.body) =
              [size |-> n, id |-> r.msg.id, low |-> r.msg.low, body |-> msg.body]
        BY <2>1, <4>1, Changed
      <4>3. [size |-> n, id |-> r.msg.id, low |-> r.msg.low, body |-> msg.body] \in Messages
        BY <1>1, <2>1 DEF Messages
      <4> QED
        BY <2>1, <4>2, <4>3
    <3>2. Understood(m, said) = said
      BY <2>3, <3>1
    <3> QED
      BY <2>1, <2>4, <3>1, <3>2 DEF Carries, plain
  <2> QED
    BY <1>3, <1>6, <2>4, <2>6, <2>8, <2>9, <2>10, <2>11
<1> QED
  BY <1>5, <1>6

-----------------------------------------------------------------------------
\* The sockets and the queues.

Units == Said \cup Exchanged

\* The type invariant, with the names this module has for its sets.
LEMMA Types ==
  TypeOK <=>
    /\ obj \in [Ends -> Objects]
    /\ phase \in {"start", "prepared", "copied", "received", "done", "refused"}
    /\ open \in BOOLEAN
    /\ posted \in [Ends -> Seq(Said)]
    /\ wire \in [Ends -> Seq(Units)]
    /\ sends \in [Ends -> 0 .. MaxSends]
    /\ heard \in BOOLEAN
    /\ strayed \in [Ends -> BOOLEAN]
    /\ early \in BOOLEAN
    /\ last \in [Ends -> Heard]
  BY Zenon DEF TypeOK, Objects, Keys, Units

\* What is on a socket is a message, or keys or their answer.
LEMMA UnitTypes ==
  /\ \A x \in Said : x \in Units /\ x.unit = "message"
  /\ \A x \in Units : x \in Said \/ (x \in Exchanged /\ x.unit = "keys")
  /\ \A x \in Exchanged : x \in Units /\ x.data \in Seq(Bytes) /\ Len(x.data) = InitLen
<1> HIDE DEF Bytes, InitLen, Messages
<1> QED
  BY DEF Units, Said, Exchanged

\* Keys or their answer, as they are written.
LEMMA KeysUnitType ==
  ASSUME NEW d \in Seq(Bytes), Len(d) = InitLen
  PROVE  KeysUnit(d) \in Exchanged /\ KeysUnit(d).unit = "keys" /\ KeysUnit(d).data = d
<1> HIDE DEF Bytes, InitLen
<1> QED
  BY DEF KeysUnit, Exchanged

\* What holds of all units holds of those that are left when one is taken.
LEMMA Shortened ==
  ASSUME NEW S, NEW W \in Seq(S), W # <<>>
  PROVE  /\ Tail(W) \in Seq(S) /\ Head(W) = W[1] /\ W[1] \in S
         /\ Shapely(W) => Shapely(Tail(W)) /\ (W[1].unit = "message" => Shaped(W[1]))
         /\ Silent(W) => Silent(Tail(W)) /\ W[1].msg.size = 0
<1>1. PICK V \in Seq(S) : V = Tail(W)
  BY HeadTailProperties
<1>2. PICK n \in Nat : n = Len(V) /\ DOMAIN V = 1 .. n
  BY <1>1
<1>3. DOMAIN W = 1 .. n + 1 /\ 1 \in 1 .. n + 1 /\ \A i \in 1 .. n : V[i] = W[i + 1]
  BY <1>1, <1>2
<1>4. \A i \in 1 .. n : i + 1 \in 1 .. n + 1
  OBVIOUS
<1>5. Head(W) = W[1] /\ W[1] \in S
  BY <1>3
<1>6. Shapely(W) => Shapely(V) /\ (W[1].unit = "message" => Shaped(W[1]))
  BY <1>2, <1>3, <1>4 DEF Shapely
<1>7. Silent(W) => Silent(V) /\ W[1].msg.size = 0
  BY <1>2, <1>3, <1>4 DEF Silent
<1> QED
  BY <1>1, <1>5, <1>6, <1>7

\* ... and of those there are when one comes that it holds of.
LEMMA Lengthened ==
  ASSUME NEW S, NEW W \in Seq(S), NEW x \in S
  PROVE  /\ Append(W, x) \in Seq(S) /\ Append(W, x) # <<>>
         /\ W # <<>> => /\ Append(W, x)[1] = W[1]
                        /\ Tail(Append(W, x)) = Append(Tail(W), x)
         /\ W = <<>> => Append(W, x)[1] = x /\ Tail(Append(W, x)) = <<>>
         /\ Shapely(W) /\ (x.unit = "message" => Shaped(x)) => Shapely(Append(W, x))
         /\ Silent(W) /\ x.msg.size = 0 => Silent(Append(W, x))
<1>1. PICK V \in Seq(S) : V = Append(W, x) /\ V # <<>>
  BY AppendProperties
<1>2. PICK n \in Nat : n = Len(W) /\ DOMAIN W = 1 .. n
  OBVIOUS
<1>3. DOMAIN V = 1 .. n + 1 /\ V[n + 1] = x /\ \A i \in 1 .. n : V[i] = W[i]
  BY <1>1, <1>2
<1>4. \A i \in 1 .. n + 1 : i \in 1 .. n \/ i = n + 1
  OBVIOUS
<1>5. ASSUME W # <<>>
      PROVE  V[1] = W[1] /\ Tail(V) = Append(Tail(W), x)
  <2>1. <<x>> \in Seq(S) /\ V = W \o <<x>> /\ Tail(W) \in Seq(S)
    BY <1>1, <1>5, AppendIsConcat, HeadTailProperties
  <2>2. Tail(W) \o <<x>> = Tail(V) /\ V[1] = W[1]
    BY <1>5, <2>1, Glued
  <2> QED
    BY <2>1, <2>2, AppendIsConcat
<1>6. ASSUME W = <<>>
      PROVE  V[1] = x /\ Tail(V) = <<>>
  BY <1>1, <1>6
<1>7. Shapely(W) /\ (x.unit = "message" => Shaped(x)) => Shapely(V)
  BY <1>2, <1>3, <1>4 DEF Shapely
<1>8. Silent(W) /\ x.msg.size = 0 => Silent(V)
  BY <1>2, <1>3, <1>4 DEF Silent
<1> QED
  BY <1>1, <1>5, <1>6, <1>7, <1>8

\* When nothing is ahead of the keys or their answer there are only messages on
\* the way.
Clear(e) == phase # "refused" /\ (Exchanging(e) => wire[e][1].unit = "keys")

LEMMA WhenClear ==
  ASSUME NEW e \in Ends, IInv, phase # "refused", e = "client" => ~early
  PROVE  Clear(e)
<1> HIDE DEF Wrapped, client_cou, server_cou, sKeyIV, data_cipher, write_cs
<1>1. OnTheWay
  BY DEF IInv
<1>2. \A d : KeysUnit(d).unit = "keys"
  BY DEF KeysUnit
<1>3. phase = "prepared" => wire["server"][1].unit = "keys"
  BY <1>1, <1>2, Zenon DEF OnTheWay
<1>4. phase = "received" /\ ~early => wire["client"][1].unit = "keys"
  BY <1>1, <1>2, Zenon DEF OnTheWay
<1> QED
  BY <1>3, <1>4 DEF Clear, Exchanging, Ends

LEMMA ClearWay ==
  ASSUME NEW e \in Ends, IInv, Clear(e)
  PROVE  /\ Rest(e) \in Seq(Said) /\ posted[e] \in Seq(Said) /\ Way(e) \in Seq(Said)
         /\ Exchanging(e) => wire[e] \in Seq(Units) /\ wire[e] # <<>>
<1> HIDE DEF Said, Units
<1>1. posted[e] \in Seq(Said) /\ wire[e] \in Seq(Units)
  BY Types DEF IInv
<1>2. Placed(e)
  BY DEF IInv, InPlace
<1>3. Rest(e) \in Seq(Said)
  BY <1>2 DEF Placed, Rest, Clear
<1>4. Exchanging(e) => wire[e] # <<>>
  BY <1>2 DEF Placed
<1> QED
  BY <1>1, <1>3, <1>4, Glued DEF Way

-----------------------------------------------------------------------------
\* The invariant holds at the start and of every step.

\* What getRandom fills a crt_init_s with is data of its length.
LEMMA RandomsType ==
  ASSUME NEW d \in Randoms
  PROVE  d \in Seq(Bytes) /\ Len(d) = InitLen
<1> HIDE DEF Bytes
<1>1. PICK n \in Nat : n = InitLen
  BY SizesAssumption DEF InitLen
<1>2. d \in [1 .. n -> Bytes \ {0}]
  BY <1>1, DataAssumption
<1>3. d \in [1 .. n -> Bytes]
  BY <1>2
<1> QED
  BY <1>1, <1>3

\* Counting on from a counter gives a counter.
LEMMA PlusBlocksType ==
  ASSUME NEW c \in Counters, NEW n \in Nat
  PROVE  Plus(c, n) \in Counters
<1>1. c \in Int
  BY WidthType DEF Counters
<1> QED
  BY <1>1, PlusType

\* The counter behind the answer to the keys.
LEMMA BehindAnswer ==
  ASSUME NEW c \in Counters
  PROVE  Plus(c, Blocks(InitLen)) \in Counters
<1>1. InitLen \in Nat
  BY SizesAssumption DEF InitLen
<1> QED
  BY <1>1, BlocksType, PlusBlocksType

\* The initial state.
LEMMA CipherInit ==
  Init => IInv
<1> SUFFICES ASSUME Init PROVE IInv
  OBVIOUS
<1> HIDE DEF Bytes, Counters, Keys, Said, Units
<1>1. DefaultKey \in Keys /\ 0 \in Counters
  <2>1. 0 \in Counters
    BY WidthType DEF Counters
  <2> QED
    BY <2>1, DataAssumption DEF Keys
<1>2. obj \in [Ends -> Objects]
  BY <1>1 DEF Init, Objects
<1>3. wire \in [Ends -> Seq(Units)] /\ posted \in [Ends -> Seq(Said)]
  <2>1. <<>> \in Seq(Units) /\ <<>> \in Seq(Said)
    OBVIOUS
  <2> QED
    BY <2>1 DEF Init
<1>4. sends \in [Ends -> 0 .. MaxSends]
  BY DataAssumption DEF Init
<1>5. last \in [Ends -> Heard]
  <2>1. <<>> \in Seq(Bytes)
    OBVIOUS
  <2> QED
    BY <2>1 DEF Init, Heard
<1>6. TypeOK
  BY <1>2, <1>3, <1>4, <1>5, Types DEF Init
<1>7. ExchangeWorks /\ OnTheWay /\ SameKeys
  BY DEF Init, ExchangeWorks, OnTheWay, SameKeys, Ends
<1>8. RoundTrip
  BY DEF Init, RoundTrip
<1>9. \A e \in Ends : wire[e] = <<>> /\ posted[e] = <<>> /\ ~Exchanging(e)
  BY DEF Init, Exchanging
<1>10. AllShaped
  BY <1>9 DEF AllShaped, Shapely
<1>11. InPlace
  <2>1. <<>> \in Seq(Said)
    OBVIOUS
  <2> QED
    BY <1>9, <2>1 DEF InPlace, Placed, Ends
<1>12. Quiet
  <2>1. Way("server") = <<>> /\ posted["client"] = <<>>
    BY <1>9 DEF Way, Rest, Ends
  <2> QED
    BY <2>1 DEF Init, Quiet, Silent, Ends
<1>13. Chains
  BY DEF Init, Chains, Chained
<1> QED
  BY <1>6, <1>7, <1>8, <1>10, <1>11, <1>12, <1>13 DEF IInv
\* The server draws keys and writes them; ServerAccept waits behind them.
LEMMA KeysPrepKeeps ==
  IInv /\ KeysPrep => IInv'
<1> SUFFICES ASSUME IInv, KeysPrep PROVE IInv'
  OBVIOUS
<1> HIDE DEF Bytes, Counters, Keys, Objects, Said, Exchanged, Units, Heard
<1>1. PICK d \in Randoms :
        /\ obj' = [obj EXCEPT !["server"] = keys_prep(obj["server"], d).o]
        /\ wire' = [wire EXCEPT !["server"] =
                      Append(@, KeysUnit(keys_prep(obj["server"], d).data))]
  BY DEF KeysPrep
<1>2. PICK u : u = Unit(NewMessage(None), <<>>)
  OBVIOUS
<1>3. /\ phase = "start" /\ phase' = "prepared"
      /\ posted' = [posted EXCEPT !["server"] = Append(@, u)]
      /\ UNCHANGED <<open, sends, heard, strayed, early, last>>
  BY <1>2 DEF KeysPrep
<1>4. /\ obj \in [Ends -> Objects] /\ wire \in [Ends -> Seq(Units)]
      /\ posted \in [Ends -> Seq(Said)] /\ "server" \in Ends /\ "client" \in Ends
      /\ "server" # "client"
  BY Types DEF IInv, Ends
<1>5. /\ wire["server"] = <<>> /\ posted["server"] = <<>> /\ wire["client"] \in Seq(Said)
      /\ ~early => wire["client"] = <<>>
  BY <1>3, <1>4 DEF IInv, InPlace, Placed, Exchanging
<1>6. PICK o \in Objects : o = obj["server"] /\ o.key = DefaultKey
  BY <1>3, <1>4 DEF IInv, SameKeys
<1>7. d \in Seq(Bytes) /\ Len(d) = InitLen
  BY RandomsType
<1>8. PICK p : p = keys_prep(o, d)
  OBVIOUS
<1>9. /\ p.o \in Objects /\ p.o.key = sKeyIV(d) /\ p.o.dec = server_cou(d)
      /\ p.data = Wrapped(DefaultKey, client_cou(d), d)
  BY <1>6, <1>7, <1>8, PrepStep
<1>10. PICK k \in Exchanged :
         k = KeysUnit(Wrapped(DefaultKey, client_cou(d), d)) /\ k = KeysUnit(p.data)
         /\ k \in Units /\ k.unit = "keys"
  <2>1. client_cou(d) \in Counters /\ DefaultKey \in Keys
    BY <1>7, InitParts, DataAssumption DEF Keys
  <2>2. PICK c \in Counters, y \in Keys : c = client_cou(d) /\ y = DefaultKey
    BY <2>1
  <2>3. Wrapped(y, c, d) \in Seq(Bytes) /\ Len(Wrapped(y, c, d)) = InitLen
    BY <1>7, KeysOnTheirWay
  <2>4. PICK w \in Seq(Bytes) : w = Wrapped(DefaultKey, client_cou(d), d) /\ Len(w) = InitLen
    BY <2>2, <2>3
  <2>5. KeysUnit(w) \in Exchanged /\ KeysUnit(w).unit = "keys"
    BY <2>4, KeysUnitType
  <2> QED
    BY <1>9, <2>4, <2>5, UnitTypes
<1>11. u \in Said /\ u.msg.size = 0 /\ Shaped(u)
  <2>1. u.msg = NewMessage(None) /\ u.said = <<>> /\ u.msg.size = 0
    BY <1>2 DEF Unit, NewMessage
  <2>2. NewMessage(None) \in Messages
    BY Speeches DEF Speech
  <2>3. <<>> \in Seq(Bytes) /\ FALSE \in BOOLEAN
    OBVIOUS
  <2>4. u \in Said
    BY <1>2, <2>2, <2>3 DEF Unit, Said
  <2> QED
    BY <2>1, <2>4 DEF Shaped
<1>12. PICK a \in Seq(Said), b \in Seq(Units) :
         /\ a = Append(<<>>, u) /\ Shapely(a) /\ Silent(a)
         /\ b = Append(<<>>, k) /\ b # <<>> /\ b[1] = k /\ Tail(b) = <<>> /\ Shapely(b)
  <2>1. PICK x \in Seq(Said), y \in Seq(Units) : x = <<>> /\ y = <<>>
    <3>1. <<>> \in Seq(Said) /\ <<>> \in Seq(Units)
      OBVIOUS
    <3> QED
      BY <3>1
  <2>2. Shapely(x) /\ Silent(x) /\ Shapely(y)
    BY <2>1 DEF Shapely, Silent
  <2>3. Append(x, u) \in Seq(Said) /\ Shapely(Append(x, u)) /\ Silent(Append(x, u))
    BY <1>11, <2>2, Lengthened
  <2>4. PICK x1 \in Units : x1 = k /\ ~(x1.unit = "message")
    BY <1>10
  <2>5. /\ Append(y, x1) \in Seq(Units) /\ Append(y, x1) # <<>>
        /\ Append(y, x1)[1] = x1 /\ Tail(Append(y, x1)) = <<>>
    BY <2>1, Lengthened
  <2>6. Shapely(Append(y, x1))
    BY <2>2, <2>4, Lengthened, Zenon
  <2> QED
    BY <2>1, <2>3, <2>4, <2>5, <2>6
<1>13. /\ obj' = [obj EXCEPT !["server"] = p.o]
       /\ wire' = [wire EXCEPT !["server"] = b]
       /\ posted' = [posted EXCEPT !["server"] = a]
  BY <1>1, <1>3, <1>4, <1>5, <1>6, <1>8, <1>10, <1>12
<1>14. /\ obj' \in [Ends -> Objects] /\ obj'["server"] = p.o /\ obj'["client"] = obj["client"]
       /\ wire' \in [Ends -> Seq(Units)] /\ wire'["server"] = b
       /\ wire'["client"] = wire["client"]
       /\ posted' \in [Ends -> Seq(Said)] /\ posted'["server"] = a
       /\ posted'["client"] = posted["client"]
  BY <1>4, <1>9, <1>12, <1>13
<1>15. TypeOK'
  BY <1>3, <1>14, Types DEF IInv, TypeOK, Objects, Keys, Units
<1>16. ExchangeWorks' /\ SameKeys'
  BY <1>3, <1>9, <1>14 DEF IInv, ExchangeWorks, SameKeys
<1>17. OnTheWay'
  BY <1>3, <1>9, <1>10, <1>12, <1>14 DEF OnTheWay
<1>18. RoundTrip'
  BY <1>3, Zenon DEF IInv, RoundTrip
<1>19. AllShaped'
  BY <1>4, <1>12, <1>14, Zenon DEF IInv, AllShaped, Ends
<1>20. InPlace'
  <2>1. <<>> \in Seq(Said)
    OBVIOUS
  <2> QED
    BY <1>3, <1>5, <1>12, <1>14, <2>1 DEF InPlace, Placed, Exchanging, Ends
<1>21. Quiet'
  <2>1. Way("server")' = a
    <3>1. Rest("server")' = <<>>
      BY <1>3, <1>12, <1>14 DEF Rest, Exchanging
    <3>2. <<>> \o a = a
      BY ConcatEmptySeq
    <3> QED
      BY <1>14, <3>1, <3>2 DEF Way
  <2> QED
    BY <1>3, <1>12, <1>14, <2>1 DEF IInv, Quiet
<1>22. Chains'
  BY <1>3 DEF Chains, Chained
<1> QED
  BY <1>15, <1>16, <1>17, <1>18, <1>19, <1>20, <1>21, <1>22 DEF IInv

\* The client puts the keys to use.
LEMMA KeysCopiedKeeps ==
  IInv /\ KeysCopied => IInv'
<1> SUFFICES ASSUME IInv, KeysCopied PROVE IInv'
  OBVIOUS
<1> HIDE DEF Bytes, Counters, Keys, Objects, Said, Exchanged, Units, Heard
<1>1. /\ phase = "prepared" /\ phase' = "copied"
      /\ UNCHANGED <<open, posted, sends, heard, strayed, early, last>>
  BY DEF KeysCopied
<1>2. /\ obj \in [Ends -> Objects] /\ wire \in [Ends -> Seq(Units)]
      /\ posted \in [Ends -> Seq(Said)] /\ "server" \in Ends /\ "client" \in Ends
      /\ "server" # "client"
  BY Types DEF IInv, Ends
<1>3. PICK W \in Seq(Units) : W = wire["server"]
  BY <1>2
<1>4. PICK d \in Randoms :
        /\ W[1] = KeysUnit(Wrapped(DefaultKey, client_cou(d), d))
        /\ obj["server"].key = sKeyIV(d) /\ obj["server"].dec = server_cou(d)
  BY <1>1, <1>3 DEF IInv, OnTheWay
<1>5. W # <<>> /\ Exchanging("server") /\ W[1].unit = "keys" /\ Tail(W) \in Seq(Said)
  <2>1. Placed("server") /\ Exchanging("server")
    BY <1>1, <1>2 DEF IInv, InPlace, Exchanging
  <2>2. W[1].unit = "keys"
    BY <1>4 DEF KeysUnit
  <2> QED
    BY <1>3, <2>1, <2>2 DEF Placed
<1>6. PICK V \in Seq(Said) : V = Tail(W) /\ V \in Seq(Units)
  BY <1>5, Shortened
<1>7. Head(W) = W[1] /\ Shapely(V)
  <2>1. Shapely(W)
    BY <1>2, <1>3 DEF IInv, AllShaped
  <2> QED
    BY <1>5, <1>6, <2>1, Shortened
<1>8. PICK o \in Objects : o = obj["client"] /\ o.key = DefaultKey
  BY <1>1, <1>2 DEF IInv, SameKeys
<1>9. d \in Seq(Bytes) /\ Len(d) = InitLen
  BY RandomsType
<1>10. PICK p : p = Wrapped(DefaultKey, client_cou(d), d) /\ Head(W).data = p
  BY <1>4, <1>7 DEF KeysUnit
<1>11. PICK c \in Objects :
         c = keys_copied(o, p) /\ c.key = sKeyIV(d) /\ c.enc = server_cou(d)
  BY <1>8, <1>9, <1>10, CopiedStep
<1>12. obj' = [obj EXCEPT !["client"] = c] /\ wire' = [wire EXCEPT !["server"] = V]
  BY <1>3, <1>6, <1>8, <1>10, <1>11 DEF KeysCopied
<1>13. /\ obj' \in [Ends -> Objects] /\ obj'["client"] = c /\ obj'["server"] = obj["server"]
       /\ wire' \in [Ends -> Seq(Units)] /\ wire'["server"] = V
       /\ wire'["client"] = wire["client"]
  BY <1>2, <1>6, <1>12
<1>14. TypeOK'
  BY <1>1, <1>13, Types DEF IInv, TypeOK, Objects, Keys, Units
<1>15. ExchangeWorks' /\ SameKeys'
  BY <1>1, <1>4, <1>11, <1>13 DEF ExchangeWorks, SameKeys
<1>16. OnTheWay'
  BY <1>1, <1>4, <1>11, <1>13 DEF OnTheWay
<1>17. RoundTrip'
  BY <1>1, Zenon DEF IInv, RoundTrip
<1>18. AllShaped'
  BY <1>1, <1>2, <1>7, <1>13, Zenon DEF IInv, AllShaped, Ends
<1>19. InPlace'
  <2>1. wire["client"] \in Seq(Said) /\ (~early => wire["client"] = <<>>)
    BY <1>1, <1>2 DEF IInv, InPlace, Placed, Exchanging
  <2> QED
    BY <1>1, <1>6, <1>13, <2>1 DEF InPlace, Placed, Exchanging, Ends
<1>20. Quiet'
  <2>1. Way("server")' = Way("server")
    BY <1>1, <1>3, <1>6, <1>13 DEF Way, Rest, Exchanging
  <2> QED
    BY <1>1, <2>1 DEF IInv, Quiet
<1>21. Chains'
  BY <1>1 DEF Chains, Chained
<1> QED
  BY <1>14, <1>15, <1>16, <1>17, <1>18, <1>19, <1>20, <1>21 DEF IInv

\* The client draws a counter and writes its answer, behind what it has written
\* early.
LEMMA KeysAnsweredKeeps ==
  IInv /\ KeysAnswered => IInv'
<1> SUFFICES ASSUME IInv, KeysAnswered PROVE IInv'
  OBVIOUS
<1> HIDE DEF Bytes, Counters, Keys, Objects, Said, Exchanged, Units, Heard
<1>1. PICK r \in Randoms :
        /\ obj' = [obj EXCEPT !["client"] = keys_answered(obj["client"], r).o]
        /\ wire' = [wire EXCEPT !["client"] =
                      Append(@, KeysUnit(keys_answered(obj["client"], r).data))]
  BY DEF KeysAnswered
<1>2. /\ phase = "copied" /\ phase' = "received"
      /\ UNCHANGED <<open, posted, sends, heard, strayed, early, last>>
  BY DEF KeysAnswered
<1>3. /\ obj \in [Ends -> Objects] /\ wire \in [Ends -> Seq(Units)]
      /\ posted \in [Ends -> Seq(Said)] /\ "server" \in Ends /\ "client" \in Ends
      /\ "server" # "client"
  BY Types DEF IInv, Ends
<1>4. PICK c \in Objects, s \in Objects :
        c = obj["client"] /\ s = obj["server"] /\ c.key = s.key /\ (~early => c.enc = s.dec)
  BY <1>2, <1>3 DEF IInv, SameKeys, OnTheWay
<1>5. r \in Seq(Bytes) /\ Len(r) = InitLen /\ client_cou(r) \in Counters
  BY RandomsType, InitParts
<1>6. PICK base \in Counters : base = Plus(c.enc, Blocks(InitLen))
  <2>1. c.enc \in Counters
    BY DEF Objects
  <2> QED
    BY <2>1, BehindAnswer
<1>7. PICK p : p = keys_answered(c, r)
  OBVIOUS
<1>8. /\ p.o = [key |-> c.key, enc |-> base, dec |-> client_cou(r)]
      /\ p.data = data_cipher(c.key, c.enc, write_cs(r))
  BY <1>5, <1>6, <1>7, AnsweredStep
<1>9. p.o \in Objects /\ p.o.key = c.key /\ p.o.enc = base /\ p.o.dec = client_cou(r)
  BY <1>5, <1>8 DEF Objects
<1>10. PICK k \in Exchanged : k = KeysUnit(p.data) /\ k \in Units /\ k.unit = "keys"
  <2>1. PICK key \in Keys, n \in Counters : key = c.key /\ n = c.enc
    BY DEF Objects
  <2>2. PICK a \in Seq(Bytes) : a = write_cs(r) /\ Len(a) = InitLen
    BY <1>5, AnswerFits
  <2>3. data_cipher(key, n, a) \in Seq(Bytes) /\ Len(data_cipher(key, n, a)) = Len(a)
    BY CipherType, Zenon
  <2>4. PICK w \in Seq(Bytes) : w = p.data /\ Len(w) = InitLen
    BY <1>8, <2>1, <2>2, <2>3
  <2> QED
    BY <2>4, KeysUnitType, UnitTypes
<1>11. PICK W \in Seq(Said) : W = wire["client"] /\ W \in Seq(Units) /\ (~early => W = <<>>)
  BY <1>2, <1>3 DEF IInv, InPlace, Placed, Exchanging
<1>12. PICK V \in Seq(Units) :
         /\ V = Append(W, k) /\ V # <<>> /\ Shapely(V)
         /\ W # <<>> => V[1].unit = "message"
         /\ W = <<>> => V[1] = k /\ Tail(V) = <<>>
  <2>1. PICK x \in Units : x = k /\ ~(x.unit = "message")
    BY <1>10
  <2>2. PICK U \in Seq(Units) : U = W /\ Shapely(U)
    BY <1>3, <1>11 DEF IInv, AllShaped
  <2>3. W # <<>> => W[1].unit = "message"
    BY UnitTypes, Shortened
  <2>4. /\ Append(U, x) \in Seq(Units) /\ Append(U, x) # <<>>
        /\ U # <<>> => Append(U, x)[1] = U[1]
        /\ U = <<>> => Append(U, x)[1] = x /\ Tail(Append(U, x)) = <<>>
    BY Lengthened
  <2>5. Shapely(Append(U, x))
    BY <2>1, <2>2, Lengthened, Zenon
  <2> QED
    BY <2>1, <2>2, <2>3, <2>4, <2>5, Zenon
<1>13. obj' = [obj EXCEPT !["client"] = p.o] /\ wire' = [wire EXCEPT !["client"] = V]
  BY <1>1, <1>4, <1>7, <1>10, <1>11, <1>12
<1>14. /\ obj' \in [Ends -> Objects] /\ obj'["client"] = p.o /\ obj'["server"] = s
       /\ wire' \in [Ends -> Seq(Units)] /\ wire'["client"] = V
       /\ wire'["server"] = wire["server"]
  BY <1>3, <1>4, <1>9, <1>12, <1>13
<1>15. TypeOK'
  BY <1>2, <1>14, Types DEF IInv, TypeOK, Objects, Keys, Units
<1>16. ExchangeWorks' /\ SameKeys'
  BY <1>2, <1>4, <1>9, <1>14 DEF ExchangeWorks, SameKeys
<1>17. OnTheWay'
  BY <1>2, <1>4, <1>8, <1>9, <1>10, <1>11, <1>12, <1>14 DEF OnTheWay
<1>18. RoundTrip'
  BY <1>2, Zenon DEF IInv, RoundTrip
<1>19. AllShaped'
  BY <1>2, <1>3, <1>12, <1>14, Zenon DEF IInv, AllShaped, Ends
<1>20. InPlace'
  <2>1. <<>> \in Seq(Said)
    OBVIOUS
  <2>2. wire["server"] \in Seq(Said)
    BY <1>2, <1>3 DEF IInv, InPlace, Placed, Exchanging
  <2>3. V[1].unit = "keys" => Tail(V) \in Seq(Said)
    BY <1>12, <2>1
  <2> QED
    BY <1>2, <1>12, <1>14, <2>2, <2>3 DEF InPlace, Placed, Exchanging, Ends
<1>21. Quiet'
  <2>1. Way("server")' = Way("server")
    BY <1>2, <1>14 DEF Way, Rest, Exchanging
  <2> QED
    BY <1>2, <2>1 DEF IInv, Quiet
<1>22. Chains'
  <2> SUFFICES ASSUME NEW e \in Ends, Chained(e)'
               PROVE  Chain(Way(e), obj[Peer(e)].key, Base(e), obj[e].enc)'
    BY DEF Chains
  <2>1. e = "client" /\ ~strayed["client"] /\ ~early
    BY <1>2 DEF Chained
  <2>2. Peer(e) = "server" /\ Base(e)' = base /\ obj'[e].enc = base
    BY <1>2, <1>4, <1>6, <1>9, <1>14, <2>1 DEF Peer, Base
  <2>3. PICK P \in Seq(Said) : P = posted["client"] /\ posted'["client"] = P /\ Silent(P)
    BY <1>2, <1>3, <2>1 DEF IInv, Quiet
  <2>4. Way(e)' = P
    <3>1. Rest(e)' = <<>>
      BY <1>2, <1>11, <1>12, <1>14, <2>1 DEF Rest, Exchanging
    <3>2. <<>> \o P = P
      BY ConcatEmptySeq
    <3> QED
      BY <2>1, <2>3, <3>1, <3>2 DEF Way
  <2>5. Chain(P, s.key, base, base)
    BY <2>3, ChainSilent
  <2> QED
    BY <1>14, <2>1, <2>2, <2>4, <2>5
<1> QED
  BY <1>15, <1>16, <1>17, <1>18, <1>19, <1>20, <1>21, <1>22 DEF IInv
\* A client is refused only for what is early.
LEMMA RefusedKeeps ==
  ASSUME IInv, early, phase # "done", wire["client"] # <<>>,
         obj' \in [Ends -> Objects], phase' = "refused", open' = FALSE,
         wire' = [wire EXCEPT !["client"] = Tail(@)],
         UNCHANGED <<posted, sends, heard, strayed, early, last>>
  PROVE  IInv'
<1> HIDE DEF Bytes, Counters, Keys, Objects, Said, Units, Heard
<1>1. /\ wire \in [Ends -> Seq(Units)] /\ "server" \in Ends /\ "client" \in Ends
      /\ "server" # "client"
  BY Types DEF IInv, Ends
<1>2. PICK W \in Seq(Units) : W = wire["client"]
  BY <1>1
<1>3. PICK V \in Seq(Units) : V = Tail(W) /\ Shapely(V)
  <2>1. Shapely(W)
    BY <1>1, <1>2 DEF IInv, AllShaped
  <2> QED
    BY <1>2, <2>1, Shortened
<1>4. /\ wire' \in [Ends -> Seq(Units)] /\ wire'["client"] = V
      /\ wire'["server"] = wire["server"]
  BY <1>1, <1>2, <1>3
<1>5. TypeOK'
  BY <1>4, Types DEF IInv, TypeOK, Objects, Keys, Units
<1>6. ExchangeWorks' /\ SameKeys' /\ OnTheWay'
  BY DEF ExchangeWorks, SameKeys, OnTheWay
<1>7. RoundTrip'
  BY Zenon DEF IInv, RoundTrip
<1>8. AllShaped'
  BY <1>1, <1>3, <1>4, Zenon DEF IInv, AllShaped, Ends
<1>9. InPlace'
  BY DEF InPlace, Placed, Exchanging
<1>10. Quiet'
  BY DEF IInv, Quiet
<1>11. Chains'
  BY DEF Chains, Chained
<1> QED
  BY <1>5, <1>6, <1>7, <1>8, <1>9, <1>10, <1>11 DEF IInv

\* The server reads the answer, or what is in its place.
LEMMA KeysFinalKeeps ==
  IInv /\ KeysFinal => IInv'
<1> SUFFICES ASSUME IInv, KeysFinal PROVE IInv'
  OBVIOUS
<1> HIDE DEF Bytes, Counters, Keys, Objects, Said, Exchanged, Units, Heard
<1>1. /\ obj \in [Ends -> Objects] /\ wire \in [Ends -> Seq(Units)]
      /\ posted \in [Ends -> Seq(Said)] /\ "server" \in Ends /\ "client" \in Ends
      /\ "server" # "client" /\ early \in BOOLEAN
  BY Types DEF IInv, Ends
<1>2. PICK W \in Seq(Units) : W = wire["client"] /\ W # <<>> /\ Head(W) = W[1]
  <2>1. wire["client"] # <<>>
    BY DEF KeysFinal
  <2> QED
    BY <1>1, <2>1, Shortened
<1>3. PICK o \in Objects : o = obj["server"]
  BY <1>1
<1>4. PICK f : f = keys_final(o, W[1].data)
  OBVIOUS
<1>5. /\ phase \in {"prepared", "copied", "received"} /\ open
      /\ wire' = [wire EXCEPT !["client"] = Tail(@)]
      /\ UNCHANGED <<posted, sends, heard, strayed, early, last>>
  BY DEF KeysFinal
<1>6. W[1].unit = "keys" =>
        /\ obj' = [obj EXCEPT !["server"] = f.o]
        /\ f.ok \in BOOLEAN =>
             open' = f.ok /\ phase' = IF f.ok THEN "done" ELSE "refused"
  <2> SUFFICES ASSUME W[1].unit = "keys"
               PROVE  /\ obj' = [obj EXCEPT !["server"] = f.o]
                      /\ f.ok \in BOOLEAN =>
                           open' = f.ok /\ phase' = IF f.ok THEN "done" ELSE "refused"
    OBVIOUS
  <2>1. /\ obj' = [obj EXCEPT !["server"] = IF W[1].unit = "keys" THEN f.o ELSE Refused(@)]
        /\ open' = (W[1].unit = "keys" /\ f.ok)
        /\ phase' = IF W[1].unit = "keys" /\ f.ok THEN "done" ELSE "refused"
    BY <1>2, <1>3, <1>4 DEF KeysFinal
  <2> QED
    BY <2>1
<1>7. CASE W[1].unit # "keys"
  <2>1. early
    <3>1. CASE phase = "received"
      <4>1. early \/ Clear("client")
        BY <1>1, <1>5, WhenClear
      <4> QED
        BY <1>2, <1>7, <3>1, <4>1 DEF Clear, Exchanging
    <3>2. CASE phase # "received"
      BY <1>2, <1>5, <3>2 DEF IInv, InPlace
    <3> QED
      BY <3>1, <3>2
  <2>2. phase' = "refused" /\ open' = FALSE
    BY <1>2, <1>7 DEF KeysFinal
  <2>3. obj' = [obj EXCEPT !["server"] = Refused(o)]
    BY <1>2, <1>3, <1>7 DEF KeysFinal
  <2>4. Refused(o) \in Objects
    <3>1. PICK x \in Counters, y \in Counters :
            x = Plus(o.enc, Blocks(InitLen)) /\ y = Plus(o.dec, Blocks(InitLen))
      <4>1. o.enc \in Counters /\ o.dec \in Counters
        BY DEF Objects
      <4> QED
        BY <4>1, BehindAnswer
    <3>2. o.key \in Keys
      BY DEF Objects
    <3> QED
      BY <3>1, <3>2 DEF Refused, Objects
  <2>5. obj' \in [Ends -> Objects]
    BY <1>1, <2>3, <2>4
  <2> QED
    BY <1>2, <1>5, <2>1, <2>2, <2>5, RefusedKeeps
<1>8. CASE W[1].unit = "keys"
  <2>1. W[1] \in Exchanged /\ W[1].data \in Seq(Bytes) /\ Len(W[1].data) = InitLen
    <3>1. W[1] \in Units
      BY <1>2, Shortened
    <3>2. W[1] \in Exchanged
      <4>1. ASSUME W[1] \in Said PROVE FALSE
        <5>1. W[1].unit = "message"
          BY <4>1, UnitTypes
        <5> QED
          BY <1>8, <5>1
      <4> QED
        BY <3>1, <4>1, UnitTypes
    <3> QED
      BY <3>2, UnitTypes
  <2>2. phase = "received"
    <3>1. ASSUME phase # "received" PROVE FALSE
      <4>1. W \in Seq(Said)
        BY <1>1, <1>2, <1>5, <3>1 DEF IInv, InPlace, Placed, Exchanging
      <4>2. W[1] \in Said
        BY <1>2, <4>1, Shortened
      <4>3. W[1].unit = "message"
        BY <4>2, UnitTypes
      <4> QED
        BY <1>8, <4>3
    <3> QED
      BY <3>1
  <2>3. f.ok \in BOOLEAN /\ f.o \in Objects /\ f.o.key = o.key
    BY <1>4, <2>1, FinalType
  <2>4. obj' \in [Ends -> Objects] /\ obj'["server"] = f.o /\ obj'["client"] = obj["client"]
    BY <1>1, <1>6, <1>8, <2>3
  <2>5. PICK c \in Objects : c = obj["client"] /\ c.key = o.key
    BY <1>1, <1>3, <2>2 DEF IInv, SameKeys
  <2>6. PICK base \in Counters : base = Plus(o.dec, Blocks(InitLen))
    <3>1. o.dec \in Counters
      BY DEF Objects
    <3> QED
      BY <3>1, BehindAnswer
  <2>7. ~early => f.ok /\ f.o.enc = c.dec /\ f.o.dec = base
    <3> SUFFICES ASSUME ~early PROVE f.ok /\ f.o.enc = c.dec /\ f.o.dec = base
      OBVIOUS
    <3>1. PICK r \in Randoms :
            /\ W[1] = KeysUnit(data_cipher(o.key, o.dec, write_cs(r)))
            /\ c.dec = client_cou(r)
      BY <1>2, <1>3, <2>2, <2>5 DEF IInv, OnTheWay
    <3>2. r \in Seq(Bytes) /\ Len(r) = InitLen
      BY RandomsType
    <3>3. PICK p : p = data_cipher(o.key, o.dec, write_cs(r)) /\ W[1].data = p
      BY <3>1 DEF KeysUnit
    <3>4. /\ keys_final(o, p).ok
          /\ keys_final(o, p).o =
               [key |-> o.key, enc |-> client_cou(r), dec |-> Plus(o.dec, Blocks(InitLen))]
      BY <3>2, <3>3, FinalStep
    <3>5. f = keys_final(o, p)
      BY <1>4, <3>3
    <3> QED
      BY <2>6, <3>1, <3>4, <3>5
  <2>8. CASE ~f.ok
    <3>1. early /\ phase' = "refused" /\ open' = FALSE
      BY <1>1, <1>6, <1>8, <2>3, <2>7, <2>8
    <3> QED
      BY <1>2, <1>5, <2>2, <2>4, <3>1, RefusedKeeps
  <2>9. CASE f.ok
    <3>1. phase' = "done" /\ open' = TRUE
      BY <1>6, <1>8, <2>3, <2>9
    <3>2. PICK V \in Seq(Said) : V = Tail(W) /\ V \in Seq(Units) /\ Shapely(V)
      <4>1. Tail(W) \in Seq(Said)
        BY <1>1, <1>2, <1>8, <2>2 DEF IInv, InPlace, Placed, Exchanging
      <4>2. Shapely(W)
        BY <1>1, <1>2 DEF IInv, AllShaped
      <4> QED
        BY <1>2, <4>1, <4>2, Shortened
    <3>3. /\ wire' \in [Ends -> Seq(Units)] /\ wire'["client"] = V
          /\ wire'["server"] = wire["server"]
      BY <1>1, <1>2, <1>5, <3>2
    <3>4. TypeOK'
      BY <1>5, <2>4, <3>1, <3>3, Types DEF IInv, TypeOK, Objects, Keys, Units
    <3>5. ExchangeWorks' /\ SameKeys' /\ OnTheWay'
      BY <2>3, <2>4, <2>5, <3>1 DEF ExchangeWorks, SameKeys, OnTheWay
    <3>6. RoundTrip'
      BY <1>5, Zenon DEF IInv, RoundTrip
    <3>7. AllShaped'
      BY <1>1, <1>5, <3>2, <3>3, Zenon DEF IInv, AllShaped, Ends
    <3>8. InPlace'
      <4>1. wire["server"] \in Seq(Said)
        BY <1>1, <2>2 DEF IInv, InPlace, Placed, Exchanging
      <4> QED
        BY <3>1, <3>2, <3>3, <4>1 DEF InPlace, Placed, Exchanging, Ends
    <3>9. Quiet'
      BY <1>5, <3>1 DEF IInv, Quiet
    <3>10. \A e \in Ends : Way(e)' = Way(e)
      BY <1>2, <1>5, <2>2, <3>1, <3>2, <3>3 DEF Way, Rest, Exchanging, Ends
    <3>11. Chains'
      <4> SUFFICES ASSUME NEW e \in Ends, Chained(e)'
                   PROVE  Chain(Way(e), obj[Peer(e)].key, Base(e), obj[e].enc)'
        BY DEF Chains
      <4>1. ~early /\ ~strayed[e]
        BY <1>5 DEF Chained
      <4>2. CASE e = "client"
        <5>1. Chain(Way("client"), o.key, base, c.enc)
          <6>1. Chained("client") /\ Peer("client") = "server" /\ Base("client") = base
            BY <1>3, <1>5, <2>2, <2>6, <4>1, <4>2 DEF Chained, Peer, Base
          <6> QED
            BY <1>1, <1>3, <2>5, <6>1 DEF IInv, Chains
        <5>2. Peer(e) = "server" /\ Base(e)' = base
          BY <2>4, <2>7, <3>1, <4>1, <4>2 DEF Peer, Base
        <5> QED
          BY <1>1, <2>3, <2>4, <2>5, <3>10, <4>2, <5>1, <5>2
      <4>3. CASE e = "server"
        <5>1. PICK P \in Seq(Said) : P = Way("server") /\ Silent(P)
          <6>1. Clear("server")
            BY <1>1, <2>2, WhenClear
          <6>2. Way("server") \in Seq(Said)
            BY <1>1, <6>1, ClearWay
          <6>3. Silent(Way("server"))
            BY <2>2 DEF IInv, Quiet
          <6> QED
            BY <6>2, <6>3
        <5>2. c.dec \in Counters
          BY DEF Objects
        <5>3. Chain(P, c.key, c.dec, c.dec)
          BY <5>1, <5>2, ChainSilent
        <5>4. Peer(e) = "client" /\ Base(e)' = c.dec
          BY <2>4, <2>5, <3>1, <4>3 DEF Peer, Base
        <5> QED
          BY <1>1, <2>4, <2>5, <2>7, <3>10, <4>1, <4>3, <5>1, <5>3, <5>4
      <4> QED
        BY <4>2, <4>3 DEF Ends
    <3> QED
      BY <3>4, <3>5, <3>6, <3>7, <3>8, <3>9, <3>11 DEF IInv
  <2> QED
    BY <2>3, <2>8, <2>9
<1> QED
  BY <1>7, <1>8
\* An end says something.
LEMMA SendKeeps ==
  ASSUME NEW e \in Ends, NEW msg, NEW said, Speech(msg, said),
         IInv, sends[e] < MaxSends, e = "server" => heard,
         Send(e, msg, said), UNCHANGED <<phase, open, wire, heard, last>>
  PROVE  IInv'
<1> HIDE DEF Bytes, Counters, Keys, Objects, Said, Exchanged, Units, Heard
<1>1. PICK q \in Ends : q = Peer(e) /\ q # e /\ Peer(q) = e /\ \A i \in Ends : i = e \/ i = q
  BY DEF Ends, Peer
<1>2. /\ obj \in [Ends -> Objects] /\ posted \in [Ends -> Seq(Said)]
      /\ wire \in [Ends -> Seq(Units)] /\ early \in BOOLEAN
      /\ "server" \in Ends /\ "client" \in Ends /\ "server" # "client"
  BY Types DEF IInv, Ends
<1>3. PICK o \in Objects : o = obj[e]
  BY <1>2
<1>4. PICK p \in Objects : p = obj[q]
  BY <1>2
<1>5. PICK P \in Seq(Said) : P = posted[e] /\ Shapely(P)
  BY <1>2 DEF IInv, AllShaped
<1>6. PICK s : s = msg_to_out(o, msg)
  OBVIOUS
<1>7. PICK stray \in BOOLEAN : stray = (~HasKeys(e) /\ msg.body # <<>>)
  OBVIOUS
<1>8. PICK x : x = Unit(s.msg, said)
  OBVIOUS
<1>9. /\ obj' = [obj EXCEPT ![e] = s.o]
      /\ posted' = [posted EXCEPT ![e] = Append(P, x)]
      /\ sends' = [sends EXCEPT ![e] = @ + 1]
      /\ strayed' = [strayed EXCEPT ![e] = @ \/ stray]
      /\ early' = (early \/ (e = "client" /\ phase = "copied" /\ msg.body # <<>>))
  BY <1>2, <1>3, <1>5, <1>6, <1>7, <1>8 DEF Send
<1>10. /\ x \in Said /\ Shaped(x) /\ Carries(x, o.key, o.enc)
       /\ BlocksOf(x.msg) \in Nat /\ Plus(o.enc, BlocksOf(x.msg)) \in Counters
       /\ s.o = [key |-> o.key, enc |-> Plus(o.enc, BlocksOf(x.msg)), dec |-> o.dec]
       /\ msg.body = <<>> => x.msg.size = 0
  BY <1>6, <1>8, SendStep
<1>11. /\ s.o \in Objects /\ s.o.key = o.key /\ s.o.dec = o.dec
       /\ s.o.enc = Plus(o.enc, BlocksOf(x.msg))
  BY <1>10 DEF Objects
<1>12. obj' \in [Ends -> Objects] /\ obj'[e] = s.o /\ obj'[q] = p
  BY <1>1, <1>2, <1>4, <1>9, <1>11
<1>13. PICK V \in Seq(Said) : /\ V = Append(P, x) /\ Shapely(V)
                              /\ Silent(P) /\ msg.body = <<>> => Silent(V)
  <2>1. Append(P, x) \in Seq(Said)
    BY <1>10, Lengthened
  <2>2. Shapely(Append(P, x))
    BY <1>5, <1>10, Lengthened, Zenon
  <2>3. Silent(P) /\ msg.body = <<>> => Silent(Append(P, x))
    BY <1>10, Lengthened, Zenon
  <2> QED
    BY <2>1, <2>2, <2>3
<1>14. posted' \in [Ends -> Seq(Said)] /\ posted'[e] = V /\ posted'[q] = posted[q]
  BY <1>1, <1>2, <1>9, <1>13
<1>15. /\ strayed \in [Ends -> BOOLEAN] /\ strayed' \in [Ends -> BOOLEAN]
       /\ strayed'[q] = strayed[q]
       /\ ~strayed'[e] => ~strayed[e] /\ (HasKeys(e) \/ msg.body = <<>>)
       /\ strayed'[e] => strayed[e] \/ ~HasKeys(e)
  <2>1. strayed \in [Ends -> BOOLEAN]
    BY Types DEF IInv
  <2>2. PICK b \in BOOLEAN : b = (strayed[e] \/ stray)
    BY <2>1
  <2>3. strayed' = [strayed EXCEPT ![e] = b]
    BY <1>9, <2>2
  <2>4. strayed' \in [Ends -> BOOLEAN] /\ strayed'[e] = b /\ strayed'[q] = strayed[q]
    BY <1>1, <2>1, <2>3
  <2> QED
    BY <1>7, <2>1, <2>2, <2>4
<1>16. early' \in BOOLEAN /\ (~early' => ~early) /\ ~strayed["server"]
       /\ (~early' /\ phase = "copied" /\ e = "client" => msg.body = <<>>)
  BY <1>2, <1>9 DEF IInv, Quiet
<1>17. sends' \in [Ends -> 0 .. MaxSends]
  <2>1. sends \in [Ends -> 0 .. MaxSends] /\ MaxSends \in Nat
    BY Types, DataAssumption DEF IInv
  <2>2. sends[e] + 1 \in 0 .. MaxSends
    BY <2>1
  <2> QED
    BY <1>9, <2>1, <2>2
<1>18. TypeOK'
  BY <1>12, <1>14, <1>15, <1>16, <1>17, Types DEF IInv, TypeOK, Objects, Keys, Units
<1>19. ExchangeWorks'
  BY <1>16 DEF IInv, ExchangeWorks
<1>20. \A i \in Ends : obj'[i].key = obj[i].key /\ obj'[i].dec = obj[i].dec
  BY <1>1, <1>3, <1>4, <1>11, <1>12
<1>21. e = "server" => phase = "done" /\ HasKeys(e)
  BY DEF IInv, Quiet, HasKeys
<1>22. SameKeys'
  BY <1>2, <1>20 DEF IInv, SameKeys
<1>23. OnTheWay'
  <2>1. phase = "copied" /\ ~early' => obj'["client"].enc = obj["client"].enc
    <3> SUFFICES ASSUME phase = "copied", ~early'
                 PROVE  obj'["client"].enc = obj["client"].enc
      OBVIOUS
    <3>1. CASE e = "client"
      <4>1. x.msg.size = 0
        BY <1>10, <1>16, <3>1
      <4>2. BlocksOf(x.msg) = 0
        BY <4>1 DEF BlocksOf
      <4>3. o.enc \in Counters
        BY DEF Objects
      <4>4. Plus(o.enc, 0) = o.enc
        BY <4>3, PlusPlus
      <4> QED
        BY <1>3, <1>11, <1>12, <3>1, <4>2, <4>4
    <3>2. CASE e # "client"
      BY <1>1, <1>2, <1>4, <1>12, <3>2
    <3> QED
      BY <3>1, <3>2
  <2>2. OnTheWay
    BY DEF IInv
  <2> QED
    BY <1>2, <1>16, <1>20, <2>1, <2>2 DEF OnTheWay
<1>24. RoundTrip'
  <2>1. \A i \in Ends : ~strayed'[i] => ~strayed[i]
    BY <1>1, <1>15
  <2> QED
    BY <1>16, <2>1 DEF IInv, RoundTrip, Peer, Ends
<1>25. AllShaped'
  <2> SUFFICES ASSUME NEW i \in Ends PROVE Shapely(wire[i])' /\ Shapely(posted[i])'
    BY DEF AllShaped
  <2>1. Shapely(wire'[i])
    BY DEF IInv, AllShaped
  <2>2. Shapely(posted'[i])
    BY <1>1, <1>13, <1>14 DEF IInv, AllShaped
  <2> QED
    BY <2>1, <2>2 DEF Shapely, Shaped
<1>26. InPlace'
  <2>1. phase = "start" => posted'["server"] = posted["server"]
    BY <1>1, <1>2, <1>14, <1>21
  <2>2. \A i \in Ends : Placed(i)'
    BY DEF IInv, InPlace, Placed, Exchanging
  <2> QED
    BY <1>16, <2>1, <2>2 DEF IInv, InPlace
<1>27. Quiet'
  <2>1. ~strayed'["server"]
    <3>1. CASE e = "server"
      BY <1>15, <1>16, <1>21, <3>1
    <3>2. CASE e # "server"
      BY <1>1, <1>2, <1>15, <1>16, <3>2
    <3> QED
      BY <3>1, <3>2
  <2>2. phase # "done" => Way("server")' = Way("server")
    BY <1>1, <1>2, <1>14, <1>21 DEF Way, Rest, Exchanging
  <2>3. ASSUME phase \in {"start", "prepared", "copied"}, ~early', ~strayed'["client"]
        PROVE  Silent(posted'["client"])
    <3>1. e = "client"
      BY <1>2, <1>21, <2>3 DEF Ends
    <3>2. msg.body = <<>> /\ ~strayed["client"]
      BY <1>15, <1>16, <2>3, <3>1 DEF HasKeys
    <3>3. Silent(P)
      BY <1>5, <1>16, <2>3, <3>1, <3>2 DEF IInv, Quiet
    <3> QED
      BY <1>13, <1>14, <3>1, <3>2, <3>3
  <2> QED
    BY <2>1, <2>2, <2>3 DEF IInv, Quiet
<1>28. Chains'
  <2>1. \A i \in Ends : Base(i)' = Base(i) /\ Base(i) \in Counters
    <3> SUFFICES ASSUME NEW i \in Ends PROVE Base(i)' = Base(i) /\ Base(i) \in Counters
      OBVIOUS
    <3>1. Peer(i) \in Ends
      BY DEF Peer, Ends
    <3>2. obj'[Peer(i)].dec = obj[Peer(i)].dec /\ obj[Peer(i)].dec \in Counters
      BY <1>2, <1>20, <3>1 DEF Objects
    <3> QED
      BY <3>2, BehindAnswer DEF Base
  <2>2. ASSUME NEW i \in Ends, Chained(i)'
        PROVE  Chain(Way(i), obj[Peer(i)].key, Base(i), obj[i].enc)'
    <3>1. Chained(i)
      <4>1. ~strayed[i]
        BY <1>1, <1>15, <2>2 DEF Chained
      <4> QED
        BY <1>16, <2>2, <4>1 DEF Chained
    <3>2. Chain(Way(i), obj[Peer(i)].key, Base(i), obj[i].enc)
      BY <3>1 DEF IInv, Chains
    <3>3. PICK b \in Counters : b = Base(i) /\ b = Base(i)'
      BY <2>1
    <3>4. CASE i = e
      <4>1. p.key = o.key
        <5>1. obj["client"].key = obj["server"].key
          BY <3>1 DEF Chained, IInv, SameKeys
        <5> QED
          BY <1>1, <1>3, <1>4, <5>1 DEF Ends
      <4>2. Clear(e)
        BY <3>1, <3>4, WhenClear DEF Chained
      <4>3. PICK R \in Seq(Said) : R = Rest(e) /\ Way(e) = R \o P /\ Way(e) \in Seq(Said)
        BY <1>5, <4>2, ClearWay DEF Way
      <4>4. Way(e)' = R \o V
        <5>1. Rest(e)' = Rest(e)
          BY DEF Rest, Exchanging
        <5> QED
          BY <1>14, <4>3, <5>1 DEF Way
      <4>5. R \o V = Append(Way(e), x)
        BY <1>10, <1>13, <4>3, Glued
      <4>6. Chain(Way(e), o.key, b, o.enc)
        BY <1>1, <1>3, <1>4, <3>2, <3>3, <3>4, <4>1
      <4>7. Chain(Append(Way(e), x), o.key, b, Plus(o.enc, BlocksOf(x.msg)))
        BY <1>10, <4>3, <4>6, ChainAppend
      <4> QED
        BY <1>1, <1>11, <1>12, <3>3, <3>4, <4>1, <4>4, <4>5, <4>7
    <3>5. CASE i = q
      <4>1. Chain(Way(q), o.key, b, p.enc)
        BY <1>1, <1>3, <1>4, <3>2, <3>3, <3>5
      <4>2. Way(q)' = Way(q)
        BY <1>14 DEF Way, Rest, Exchanging
      <4> QED
        BY <1>1, <1>11, <1>12, <3>3, <3>5, <4>1, <4>2
    <3> QED
      BY <1>1, <3>4, <3>5
  <2> QED
    BY <2>2 DEF Chains
<1> QED
  BY <1>18, <1>19, <1>22, <1>23, <1>24, <1>25, <1>26, <1>27, <1>28 DEF IInv

\* An end writes what waits.
LEMMA WriteKeeps ==
  ASSUME NEW e \in Ends, IInv, Write(e)
  PROVE  IInv'
<1> HIDE DEF Bytes, Counters, Keys, Objects, Said, Exchanged, Units, Heard
<1>1. PICK q \in Ends : q # e /\ \A i \in Ends : i = e \/ i = q
  BY DEF Ends
<1>2. /\ posted \in [Ends -> Seq(Said)] /\ wire \in [Ends -> Seq(Units)]
      /\ early \in BOOLEAN
      /\ "server" \in Ends /\ "client" \in Ends /\ "server" # "client"
  BY Types DEF IInv, Ends
<1>3. PICK P \in Seq(Said) : P = posted[e] /\ P # <<>> /\ Shapely(P)
  BY <1>2 DEF IInv, AllShaped, Write
<1>4. PICK W \in Seq(Units) : W = wire[e] /\ Shapely(W)
  BY <1>2 DEF IInv, AllShaped
<1>5. PICK m \in Said : m = Head(P) /\ m \in Units /\ Shaped(m)
  <2>1. Head(P) = P[1] /\ P[1] \in Said /\ (P[1].unit = "message" => Shaped(P[1]))
    BY <1>3, Shortened
  <2> QED
    BY <2>1, UnitTypes
<1>6. PICK Q \in Seq(Said) : Q = Tail(P) /\ Shapely(Q) /\ (Silent(P) => Silent(Q))
  BY <1>3, Shortened
<1>7. PICK V \in Seq(Units) :
        /\ V = Append(W, m) /\ V # <<>> /\ Shapely(V)
        /\ W # <<>> => V[1] = W[1] /\ Tail(V) = Append(Tail(W), m)
  <2>1. /\ Append(W, m) \in Seq(Units) /\ Append(W, m) # <<>>
        /\ W # <<>> => /\ Append(W, m)[1] = W[1]
                       /\ Tail(Append(W, m)) = Append(Tail(W), m)
    BY <1>5, Lengthened
  <2>2. Shapely(Append(W, m))
    BY <1>4, <1>5, Lengthened, Zenon
  <2> QED
    BY <2>1, <2>2
<1>8. /\ posted' = [posted EXCEPT ![e] = Q] /\ wire' = [wire EXCEPT ![e] = V]
      /\ early' = (early \/ (e = "client" /\ ~HasKeys("client")))
      /\ ~(e = "client" /\ phase = "copied")
      /\ UNCHANGED <<obj, phase, open, sends, heard, strayed, last>>
  BY <1>3, <1>4, <1>5, <1>6, <1>7 DEF Write
<1>9. /\ posted' \in [Ends -> Seq(Said)] /\ posted'[e] = Q /\ posted'[q] = posted[q]
      /\ wire' \in [Ends -> Seq(Units)] /\ wire'[e] = V /\ wire'[q] = wire[q]
  BY <1>1, <1>2, <1>6, <1>7, <1>8
<1>10. early' \in BOOLEAN /\ (~early' => ~early)
       /\ (~early' /\ e = "client" => phase \notin {"start", "prepared", "copied"})
  BY <1>2, <1>8 DEF HasKeys
<1>11. TypeOK'
  BY <1>8, <1>9, <1>10, Types DEF IInv, TypeOK, Objects, Keys, Units
<1>12. ExchangeWorks' /\ SameKeys' /\ RoundTrip'
  BY <1>8, <1>10, Zenon DEF IInv, ExchangeWorks, SameKeys, RoundTrip
<1>13. AllShaped'
  <2> SUFFICES ASSUME NEW i \in Ends PROVE Shapely(wire[i])' /\ Shapely(posted[i])'
    BY DEF AllShaped
  <2>1. Shapely(wire'[i])
    BY <1>1, <1>7, <1>9 DEF IInv, AllShaped
  <2>2. Shapely(posted'[i])
    BY <1>1, <1>6, <1>9 DEF IInv, AllShaped
  <2> QED
    BY <2>1, <2>2 DEF Shapely, Shaped
<1>14. \A i \in Ends : Exchanging(i)' = Exchanging(i)
  BY <1>8 DEF Exchanging
<1>15. Exchanging(e) => W # <<>> /\ V[1] = W[1] /\ Tail(V) = Append(Tail(W), m)
  BY <1>4, <1>7 DEF IInv, InPlace, Placed
<1>16. InPlace'
  <2>1. ASSUME NEW i \in Ends PROVE Placed(i)'
    <3>1. CASE i = e
      <4>1. Placed(e)
        BY DEF IInv, InPlace
      <4>2. Exchanging(e) => V # <<>> /\ (V[1].unit = "keys" => Tail(V) \in Seq(Said))
        <5> SUFFICES ASSUME Exchanging(e), V[1].unit = "keys"
                     PROVE  Tail(V) \in Seq(Said)
          BY <1>7
        <5>1. PICK T \in Seq(Said) : T = Tail(W)
          BY <1>4, <1>15, <4>1 DEF Placed
        <5>2. Append(T, m) \in Seq(Said)
          BY <1>5, Lengthened
        <5> QED
          BY <1>15, <5>1, <5>2
      <4>3. ~Exchanging(e) /\ phase # "refused" => V \in Seq(Said)
        <5> SUFFICES ASSUME ~Exchanging(e), phase # "refused"
                     PROVE  V \in Seq(Said)
          OBVIOUS
        <5>1. PICK T \in Seq(Said) : T = W
          BY <1>4, <4>1 DEF Placed
        <5>2. Append(T, m) \in Seq(Said)
          BY <1>5, Lengthened
        <5> QED
          BY <1>7, <5>1, <5>2
      <4> QED
        BY <1>8, <1>9, <1>14, <3>1, <4>2, <4>3 DEF Placed
    <3>2. CASE i = q
      BY <1>8, <1>9, <1>14, <3>2 DEF IInv, InPlace, Placed
    <3> QED
      BY <1>1, <3>1, <3>2
  <2>2. phase = "start" => wire'["server"] = <<>> /\ posted'["server"] = <<>>
    BY <1>1, <1>2, <1>3, <1>9 DEF IInv, InPlace
  <2>3. ~early' /\ phase \in {"start", "prepared", "copied"} => wire'["client"] = <<>>
    BY <1>1, <1>2, <1>9, <1>10 DEF IInv, InPlace, Ends
  <2> QED
    BY <1>8, <2>1, <2>2, <2>3 DEF InPlace
<1>17. OnTheWay'
  <2>1. \A i \in Ends : Exchanging(i) => wire'[i][1] = wire[i][1]
    BY <1>1, <1>4, <1>9, <1>15
  <2>2. OnTheWay
    BY DEF IInv
  <2>3. /\ phase = "prepared" => wire'["server"][1] = wire["server"][1]
        /\ phase = "received" => wire'["client"][1] = wire["client"][1]
    BY <1>2, <2>1 DEF Exchanging
  <2> QED
    BY <1>8, <1>10, <2>2, <2>3 DEF OnTheWay
<1>18. ASSUME NEW i \in Ends, phase # "refused", i = "client" => ~early
       PROVE  Way(i)' = Way(i)
  <2>1. CASE i = e
    <3>1. Clear(e)
      BY <1>18, <2>1, WhenClear
    <3>2. PICK R \in Seq(Said) : R = Rest(e)
      BY <3>1, ClearWay
    <3>3. Rest(e)' = Append(R, m)
      BY <1>4, <1>7, <1>9, <1>14, <1>15, <3>2 DEF Rest
    <3>4. Append(R, m) \o Q = R \o P
      <4>1. \A a, b \in Seq(Said) : b # <<>> => Append(a, Head(b)) \o Tail(b) = a \o b
        BY Glued
      <4> QED
        BY <1>3, <1>5, <1>6, <4>1, Zenon
    <3> QED
      BY <1>3, <1>5, <1>6, <1>9, <2>1, <3>2, <3>3, <3>4 DEF Way
  <2>2. CASE i = q
    BY <1>9, <1>14, <2>2 DEF Way, Rest
  <2> QED
    BY <1>1, <2>1, <2>2
<1>19. Quiet'
  <2>1. phase # "refused" => Way("server")' = Way("server")
    BY <1>2, <1>18
  <2>2. Silent(posted["client"]) => Silent(posted'["client"])
    BY <1>1, <1>2, <1>3, <1>6, <1>9
  <2> QED
    BY <1>8, <1>10, <2>1, <2>2 DEF IInv, Quiet
<1>20. Chains'
  <2> SUFFICES ASSUME NEW i \in Ends, Chained(i)'
               PROVE  Chain(Way(i), obj[Peer(i)].key, Base(i), obj[i].enc)'
    BY DEF Chains
  <2>1. Chained(i)
    BY <1>8, <1>10 DEF Chained
  <2>2. Way(i)' = Way(i)
    BY <1>18, <2>1 DEF Chained
  <2>3. Chain(Way(i), obj[Peer(i)].key, Base(i), obj[i].enc)
    BY <2>1 DEF IInv, Chains
  <2>4. Base(i)' = Base(i)
    BY <1>8 DEF Base
  <2> QED
    BY <1>8, <2>2, <2>3, <2>4
<1> QED
  BY <1>11, <1>12, <1>13, <1>16, <1>17, <1>19, <1>20 DEF IInv
\* What an end makes of a message, with a body or without.
LEMMA ReceivedStep ==
  ASSUME NEW o \in Objects, NEW x \in Said, Shaped(x),
         NEW r, r = IF x.msg.size > 0 THEN msg_from_in(o, x.msg)
                    ELSE [ok |-> TRUE, o |-> o, msg |-> x.msg]
  PROVE  /\ r.ok \in BOOLEAN
         /\ r.o \in Objects /\ r.o.key = o.key /\ r.o.enc = o.enc
         /\ Understood(r.msg, x.said) \in Seq(Bytes)
         /\ Carries(x, o.key, o.dec) =>
              /\ r.ok
              /\ r.o.dec = Plus(o.dec, BlocksOf(x.msg))
              /\ Understood(r.msg, x.said) = x.said
<1> HIDE DEF Bytes, Counters, Keys, Objects, Said
<1>1. CASE x.msg.size > 0
  <2>1. BlocksOf(x.msg) = Blocks(Len(x.msg.body))
    BY <1>1 DEF BlocksOf
  <2> QED
    BY <1>1, <2>1, FromIn
<1>2. CASE ~(x.msg.size > 0)
  <2>1. r = [ok |-> TRUE, o |-> o, msg |-> x.msg]
    BY <1>2
  <2>2. x.msg = NewMessage(None) /\ x.said = <<>>
    BY <1>2 DEF Shaped, cs_size
  <2>3. Understood(r.msg, x.said) = x.said
    BY <2>1, <2>2 DEF Understood, NewMessage
  <2>4. x.said \in Seq(Bytes)
    BY DEF Said
  <2>5. BlocksOf(x.msg) = 0
    BY <1>2 DEF BlocksOf
  <2>6. o.dec \in Counters
    BY DEF Objects
  <2>7. Plus(o.dec, 0) = o.dec
    BY <2>6, PlusPlus
  <2>8. r.ok = TRUE /\ r.o = o
    BY <2>1
  <2> QED
    BY <2>3, <2>4, <2>5, <2>7, <2>8
<1> QED
  BY <1>1, <1>2

\* An end reads a message: the client while the server has not read its answer
\* yet, too.
LEMMA ReadKeeps ==
  ASSUME NEW e \in Ends, IInv, Read(e)
  PROVE  IInv'
<1> HIDE DEF Bytes, Counters, Keys, Objects, Said, Exchanged, Units, Heard
<1>1. PICK q \in Ends : q = Peer(e) /\ q # e /\ Peer(q) = e /\ \A i \in Ends : i = e \/ i = q
  BY DEF Ends, Peer
<1>2. /\ obj \in [Ends -> Objects] /\ posted \in [Ends -> Seq(Said)]
      /\ wire \in [Ends -> Seq(Units)]
      /\ "server" \in Ends /\ "client" \in Ends /\ "server" # "client"
  BY Types DEF IInv, Ends
<1>3. PICK o \in Objects : o = obj[e]
  BY <1>2
<1>4. /\ open /\ phase \in {"received", "done"} /\ (e = "server" => phase = "done")
      /\ \A i \in Ends : phase = "received" /\ i = e => i = "client" /\ q = "server"
  BY <1>1 DEF Read, Reads, Ends, Peer
<1>5. ~Exchanging(q)
  BY <1>1, <1>4 DEF Exchanging, Ends
<1>6. PICK W \in Seq(Said) : W = wire[q] /\ W # <<>> /\ Shapely(W) /\ W \in Seq(Units)
  BY <1>1, <1>2, <1>4, <1>5 DEF IInv, InPlace, Placed, AllShaped, Read
<1>7. PICK P \in Seq(Said) : P = posted[q]
  BY <1>2
<1>8. PICK V \in Seq(Said) : V = Tail(W) /\ Shapely(V) /\ V \in Seq(Units)
  BY <1>6, Shortened
<1>9. PICK x \in Said : x = Head(W) /\ x = W[1] /\ Shaped(x)
  <2>1. Head(W) = W[1] /\ W[1] \in Said /\ (W[1].unit = "message" => Shaped(W[1]))
    BY <1>6, Shortened
  <2> QED
    BY <2>1, UnitTypes
<1>10. Way(q) \in Seq(Said) /\ Way(q) # <<>> /\ Way(q)[1] = x /\ V \o P = Tail(Way(q))
  <2>1. PICK U : U = W \o P /\ Way(q) = U
    BY <1>5, <1>6, <1>7 DEF Way, Rest
  <2>2. U \in Seq(Said) /\ U # <<>>
    BY <1>6, <2>1, Glued
  <2>3. U[1] = x
    BY <1>6, <1>9, <2>1, Glued
  <2>4. V \o P = Tail(U)
    BY <1>6, <1>8, <2>1, Glued
  <2> QED
    BY <2>1, <2>2, <2>3, <2>4
<1>11. phase = "received" => x.msg.size = 0 /\ Silent(Tail(Way(q)))
  <2> SUFFICES ASSUME phase = "received"
               PROVE  x.msg.size = 0 /\ Silent(Tail(Way(q)))
    OBVIOUS
  <2>1. Silent(Way(q))
    BY <1>4 DEF IInv, Quiet
  <2> QED
    BY <1>10, <2>1, Shortened
<1>12. PICK r : r = IF x.msg.size > 0 THEN msg_from_in(o, x.msg)
                    ELSE [ok |-> TRUE, o |-> o, msg |-> x.msg]
  OBVIOUS
<1>13. /\ r.ok \in BOOLEAN
       /\ r.o \in Objects /\ r.o.key = o.key /\ r.o.enc = o.enc
       /\ Understood(r.msg, x.said) \in Seq(Bytes)
       /\ Carries(x, o.key, o.dec) =>
            /\ r.ok
            /\ r.o.dec = Plus(o.dec, BlocksOf(x.msg))
            /\ Understood(r.msg, x.said) = x.said
       /\ phase = "received" => r.o = o
  <2>1. phase = "received" => r.o = o
    BY <1>11, <1>12
  <2> QED
    BY <1>9, <1>12, <2>1, ReceivedStep
<1>14. r = Received(e, x.msg)
  BY <1>3, <1>12 DEF Received
<1>15. wire' = [wire EXCEPT ![q] = V] /\ UNCHANGED <<phase, posted, sends, strayed, early>>
  BY <1>1, <1>6, <1>8 DEF Read
<1>16. wire' \in [Ends -> Seq(Units)] /\ wire'[q] = V /\ wire'[e] = wire[e]
  BY <1>1, <1>2, <1>8, <1>15
<1>17. Way(q)' = Tail(Way(q)) /\ Way(e)' = Way(e)
  <2>1. Way(q)' = V \o P
    BY <1>5, <1>7, <1>15, <1>16 DEF Way, Rest, Exchanging
  <2>2. Way(e)' = Way(e)
    BY <1>15, <1>16 DEF Way, Rest, Exchanging
  <2> QED
    BY <1>10, <2>1, <2>2
<1>18. AllShaped'
  <2> SUFFICES ASSUME NEW i \in Ends PROVE Shapely(wire[i])' /\ Shapely(posted[i])'
    BY DEF AllShaped
  <2>1. Shapely(wire'[i])
    BY <1>1, <1>8, <1>16 DEF IInv, AllShaped
  <2>2. Shapely(posted'[i])
    BY <1>15 DEF IInv, AllShaped
  <2> QED
    BY <2>1, <2>2 DEF Shapely, Shaped
<1>19. ExchangeWorks'
  BY <1>15 DEF IInv, ExchangeWorks
<1>20. InPlace'
  <2>1. ASSUME NEW i \in Ends PROVE Placed(i)'
    <3>1. CASE i = q
      BY <1>5, <1>8, <1>15, <1>16, <3>1 DEF Placed, Exchanging
    <3>2. CASE i = e
      BY <1>15, <1>16, <3>2 DEF IInv, InPlace, Placed, Exchanging
    <3> QED
      BY <1>1, <3>1, <3>2
  <2> QED
    BY <1>4, <1>15, <2>1 DEF InPlace
<1>21. PICK u \in BOOLEAN :
         u = (x.msg.size > 0 => ChecksumRight(o, x.msg))
  OBVIOUS
<1>22. CASE x.msg.size > max_encr_len
  <2>1. open' = FALSE /\ UNCHANGED <<obj, heard, last>>
    BY <1>1, <1>6, <1>9, <1>22 DEF Read
  <2>2. phase = "done"
    <3>1. max_encr_len \in Nat
      BY SizesAssumption
    <3> QED
      BY <1>4, <1>11, <1>22, <3>1
  <2>3. TypeOK'
    BY <1>15, <1>16, <2>1, Types DEF IInv, TypeOK, Objects, Keys, Units
  <2>4. SameKeys' /\ RoundTrip'
    BY <1>15, <2>1, Zenon DEF IInv, SameKeys, RoundTrip
  <2>5. OnTheWay' /\ Quiet'
    BY <1>15, <2>1, <2>2 DEF IInv, OnTheWay, Quiet
  <2>6. Chains'
    BY <2>1 DEF Chains, Chained
  <2> QED
    BY <1>18, <1>19, <1>20, <2>3, <2>4, <2>5, <2>6 DEF IInv
<1>23. CASE ~(x.msg.size > max_encr_len)
  <2> DEFINE z == [said |-> x.said, understood |-> Understood(r.msg, x.said), ok |-> r.ok,
                   right |-> u]
  <2>1. /\ obj' = [obj EXCEPT ![e] = r.o] /\ open' = open
        /\ heard' = (heard \/ e = "server")
        /\ last' = [last EXCEPT ![e] = z]
    BY <1>1, <1>3, <1>6, <1>9, <1>14, <1>21, <1>23 DEF Read
  <2>2. obj' \in [Ends -> Objects] /\ obj'[e] = r.o /\ obj'[q] = obj[q]
    BY <1>1, <1>2, <1>13, <2>1
  <2>3. z \in Heard
        /\ z.said = x.said /\ z.understood = Understood(r.msg, x.said) /\ z.ok = r.ok
    <3>1. x.said \in Seq(Bytes)
      BY DEF Said
    <3> QED
      BY <1>13, <3>1 DEF Heard
  <2> HIDE DEF z
  <2>4. last \in [Ends -> Heard] /\ heard \in BOOLEAN
    BY Types DEF IInv
  <2>5. last' \in [Ends -> Heard] /\ last'[e] = z /\ last'[q] = last[q]
    BY <1>1, <2>1, <2>3, <2>4
  <2>6. heard' \in BOOLEAN
    BY <2>1
  <2>7. TypeOK'
    BY <1>15, <1>16, <2>1, <2>2, <2>5, <2>6, Types DEF IInv, TypeOK, Objects, Keys, Units
  <2>8. \A i \in Ends : obj'[i].key = obj[i].key /\ obj'[i].enc = obj[i].enc
    BY <1>1, <1>3, <1>13, <2>2
  <2>9. SameKeys'
    BY <1>2, <1>15, <2>8 DEF IInv, SameKeys
  <2>10. Chained(q) => Carries(x, o.key, o.dec)
                       /\ Chain(Tail(Way(q)), o.key, Plus(o.dec, BlocksOf(x.msg)), obj[q].enc)
    <3> SUFFICES ASSUME Chained(q)
                 PROVE  Carries(x, o.key, o.dec)
                        /\ Chain(Tail(Way(q)), o.key, Plus(o.dec, BlocksOf(x.msg)), obj[q].enc)
      OBVIOUS
    <3>1. Chain(Way(q), o.key, o.dec, obj[q].enc)
      <4>1. phase = "done"
        BY <1>1, <1>4, <1>5 DEF Chained, Exchanging
      <4>2. Base(q) = o.dec
        BY <1>1, <1>3, <4>1 DEF Base
      <4> QED
        BY <1>1, <1>3, <4>2 DEF IInv, Chains
    <3>2. o.dec \in Counters
      BY DEF Objects
    <3> QED
      BY <1>10, <3>1, <3>2, ChainTail
  <2>11. RoundTrip'
    <3> SUFFICES ASSUME NEW i \in Ends, ~early', ~strayed'[Peer(i)]
                 PROVE  last'[i].understood = last'[i].said /\ last'[i].ok
      BY DEF RoundTrip
    <3>1. CASE i = e
      <4>1. Carries(x, o.key, o.dec)
        <5>1. CASE phase = "received"
          <6>1. ~(x.msg.size > 0)
            BY <1>11, <5>1
          <6> QED
            BY <6>1 DEF Carries
        <5>2. CASE phase = "done"
          <6>1. Chained(q)
            BY <1>1, <1>4, <1>15, <3>1, <5>2 DEF Chained
          <6> QED
            BY <2>10, <6>1
        <5> QED
          BY <1>4, <5>1, <5>2
      <4> QED
        BY <1>13, <2>3, <2>5, <3>1, <4>1
    <3>2. CASE i = q
      BY <1>15, <2>5, <3>2 DEF IInv, RoundTrip
    <3> QED
      BY <1>1, <3>1, <3>2
  <2>12. OnTheWay'
    <3>1. CASE phase = "done"
      BY <1>15, <3>1 DEF OnTheWay
    <3>2. CASE phase = "received"
      <4>1. obj'["server"] = obj["server"] /\ obj'["client"] = obj["client"]
            /\ wire'["client"] = wire["client"]
        BY <1>1, <1>2, <1>3, <1>4, <1>13, <1>16, <2>2, <3>2
      <4> QED
        BY <1>15, <3>2, <4>1 DEF IInv, OnTheWay
    <3> QED
      BY <1>4, <3>1, <3>2
  <2>13. Quiet'
    <3>1. CASE phase = "done"
      BY <1>15, <3>1 DEF IInv, Quiet
    <3>2. CASE phase = "received"
      <4>1. Silent(Way("server")') /\ heard' = heard
        BY <1>1, <1>2, <1>4, <1>11, <1>17, <2>1, <2>4, <3>2
      <4> QED
        BY <1>15, <2>1, <3>2, <4>1 DEF IInv, Quiet
    <3> QED
      BY <1>4, <3>1, <3>2
  <2>14. Chains'
    <3> SUFFICES ASSUME NEW i \in Ends, Chained(i)'
                 PROVE  Chain(Way(i), obj[Peer(i)].key, Base(i), obj[i].enc)'
      BY DEF Chains
    <3>1. Chained(i)
      BY <1>15, <2>1 DEF Chained
    <3>2. CASE i = q
      <4>1. phase = "done"
        BY <1>1, <1>4, <1>5, <3>1, <3>2 DEF Chained, Exchanging
      <4>2. Base(q)' = r.o.dec
        BY <1>1, <1>15, <2>2, <4>1 DEF Base
      <4>3. r.o.dec = Plus(o.dec, BlocksOf(x.msg))
        BY <1>13, <2>10, <3>1, <3>2
      <4>4. Chain(Tail(Way(q)), o.key, r.o.dec, obj[q].enc)
        BY <2>10, <3>1, <3>2, <4>3
      <4> QED
        BY <1>1, <1>13, <1>17, <2>2, <3>2, <4>2, <4>4
    <3>3. CASE i = e
      <4>1. Chain(Way(e), obj[q].key, Base(e), o.enc)
        BY <1>1, <1>3, <3>1, <3>3 DEF IInv, Chains
      <4>2. Base(e)' = Base(e)
        BY <1>1, <1>15, <2>2 DEF Base
      <4> QED
        BY <1>1, <1>13, <1>17, <2>2, <3>3, <4>1, <4>2
    <3> QED
      BY <1>1, <3>2, <3>3
  <2> QED
    BY <1>18, <1>19, <1>20, <2>7, <2>9, <2>11, <2>12, <2>13, <2>14 DEF IInv
<1> QED
  BY <1>22, <1>23

\* Every step keeps the invariant.
LEMMA CipherNext ==
  IInv /\ [Next]_vars => IInv'
<1> SUFFICES ASSUME IInv, [Next]_vars PROVE IInv'
  OBVIOUS
<1>1. CASE KeysPrep
  BY <1>1, KeysPrepKeeps
<1>2. CASE KeysCopied
  BY <1>2, KeysCopiedKeeps
<1>3. CASE KeysAnswered
  BY <1>3, KeysAnsweredKeeps
<1>4. CASE KeysFinal
  BY <1>4, KeysFinalKeeps
<1>5. CASE Request
  <2>1. PICK msg, said : Speech(msg, said) /\ Send("client", msg, said)
    BY <1>5, Speeches DEF Request
  <2>2. "client" \in Ends /\ sends["client"] < MaxSends
        /\ UNCHANGED <<phase, open, wire, heard, last>>
    BY <1>5 DEF Request, Ends
  <2> QED
    BY <2>1, <2>2, SendKeeps
<1>6. CASE Answer
  <2>1. PICK msg, said : Speech(msg, said) /\ Send("server", msg, said)
    BY <1>6, Speeches DEF Answer
  <2>2. "server" \in Ends /\ sends["server"] < MaxSends /\ heard
        /\ UNCHANGED <<phase, open, wire, heard, last>>
    BY <1>6 DEF Answer, Ends
  <2> QED
    BY <2>1, <2>2, SendKeeps
<1>7. CASE \E e \in Ends : Write(e) \/ Read(e)
  BY <1>7, WriteKeeps, ReadKeeps
<1>8. CASE UNCHANGED vars
  BY <1>8, Zenon DEF vars, IInv, TypeOK, ExchangeWorks, RoundTrip, AllShaped, InPlace, Placed,
                     OnTheWay, SameKeys, Quiet, Chains, Chained, Base, Way, Rest, Exchanging
<1> QED
  BY <1>1, <1>2, <1>3, <1>4, <1>5, <1>6, <1>7, <1>8 DEF Next

-----------------------------------------------------------------------------
\* The invariant holds throughout: of any two ends that run this code, whatever
\* they draw and say, in any order.
THEOREM Invariant == Spec => []IInv
<1>1. Init => IInv
  BY CipherInit
<1>2. IInv /\ [Next]_vars => IInv'
  BY CipherNext
<1> QED
  BY <1>1, <1>2, PTL DEF Spec

\* Counters stay below their width, keys keep their length, and what >> and
\* to_string read lies in the body they read it from.
THEOREM TypeCorrect == Spec => []TypeOK
<1>1. IInv => TypeOK
  BY DEF IInv
<1> QED
  BY <1>1, Invariant, PTL

\* The exchange (keys_prep, keys_receive, keys_final) fails only when a message
\* of the client got in its way: written before the answer, on the socket they
\* share, or enciphered between copy_cr_data and data_encipher, with the counter
\* they share.  A message that was enciphered earlier and is written later does
\* not: the client deciphers the keys that were drawn, and the server finds the
\* checksum of the client's answer right.
THEOREM Exchange == Spec => []ExchangeWorks
<1>1. IInv => ExchangeWorks
  BY DEF IInv
<1> QED
  BY <1>1, Invariant, PTL

\* msg_from_in undoes msg_to_out: what an end makes of a message is what the
\* other said, and its checksum is accepted, unless the other enciphered a body
\* before the keys came or a message got in the way of the exchange.
THEOREM Trip == Spec => []RoundTrip
<1>1. IInv => RoundTrip
  BY DEF IInv
<1> QED
  BY <1>1, Invariant, PTL

\* After the exchange both ends have one key, and each decipher counter reaches
\* the peer's encipher counter with the messages on their way, on the socket and
\* posted, under the same two conditions.
THEOREM Synchronised == Spec => []InStep
<1>1. IInv => InStep
  <2> SUFFICES ASSUME IInv, open, phase = "done"
               PROVE  /\ obj["server"].key = obj["client"].key
                      /\ \A e \in Ends : ~early /\ ~strayed[e] =>
                           obj[e].enc = Plus(obj[Peer(e)].dec, BlocksOn(e))
    BY Zenon DEF InStep
  <2>1. obj["server"].key = obj["client"].key
    BY DEF IInv, SameKeys
  <2>2. ASSUME NEW e \in Ends, ~early, ~strayed[e]
        PROVE  obj[e].enc = Plus(obj[Peer(e)].dec, BlocksOn(e))
    <3>1. /\ Chained(e) /\ Base(e) = obj[Peer(e)].dec
          /\ Way(e) = wire[e] \o posted[e]
      BY <2>2 DEF Chained, Base, Way, Rest, Exchanging
    <3>2. obj[e].enc = Past(obj[Peer(e)].dec, AllBlocks(wire[e] \o posted[e]))
      BY <3>1 DEF IInv, Chains, Chain
    <3> QED
      BY <3>2, Zenon DEF Past, BlocksOn
  <2> QED
    BY <2>1, <2>2
<1> QED
  BY <1>1, Invariant, PTL
=============================================================================
