------------------------------ MODULE UtilProofs ------------------------------
(***************************************************************************)
(* Proofs about Util, for strings and keys of any length.                  *)
(***************************************************************************)
EXTENDS Util, TLAPS

\* A character stands for a digit, or for 16 at the end of the string.
LEMMA IndexOfChar ==
  /\ \A c \in Chars : HexIndex(c) \in HexChars
  /\ \A c \in Digits : HexIndex(c) = ToLower(c) /\ ToLower(c) \in HexChars
  /\ HexIndex(Nul) = 16
  BY DEF HexIndex, ToLower, Chars, Digits, HexChars, Capitals, Capital, Other, Nul

\* Two digits make the byte whose digits they are.
LEMMA JoinedDigits ==
  ASSUME NEW hi \in HexChars, NEW lo \in HexChars
  PROVE  /\ Joined(hi, lo) = hi * 16 + lo
         /\ Joined(hi, lo) \in Bytes
         /\ Joined(hi, lo) \div 16 = hi /\ Joined(hi, lo) % 16 = lo
  BY DEF Joined, HexChars, Bytes

\* So does a digit and the end of the string make a byte.
LEMMA JoinedAtEnd ==
  ASSUME NEW hi \in HexChars
  PROVE  Joined(hi, 16) \in Bytes
  <1>1. hi * 16 \in Nat /\ hi * 16 + 16 \in Nat
    BY DEF HexChars
  <1>2. \A n \in Nat : n % 256 \in Bytes
    BY DEF Bytes
  <1> QED
    BY <1>1, <1>2 DEF Joined

\* A byte has two digits.
LEMMA DigitsOfByte ==
  ASSUME NEW b \in Bytes
  PROVE  /\ b \div 16 \in HexChars /\ b % 16 \in HexChars
         /\ b = (b \div 16) * 16 + (b % 16)
  BY DEF Bytes, HexChars

\* What is written is a byte and fits the buffer, but for strings of odd length, which
\* write one byte more (util.c:32-61).
THEOREM ConversionStaysInBuffer ==
  ASSUME NEW s \in Seq(Chars)
  PROVE  StaysInBuffer(s)
  <1>1. Len(s) \in Nat /\ BinWritten(s) \in Nat
    BY DEF BinWritten
  <1>2. BinWritten(s) = BinSize(s) + (Len(s) % 2)
    BY <1>1 DEF BinWritten, BinSize
  <1>3. ASSUME NEW j \in 1 .. BinWritten(s)
        PROVE  HexStringToBin(s)[j] \in Bytes
    <2> DEFINE hi == HexIndex(CharAt(s, 2 * j - 1))
               lo == HexIndex(CharAt(s, 2 * j))
    <2>1. 2 * j - 1 \in 1 .. Len(s)
      BY <1>1 DEF BinWritten
    <2>2. hi \in HexChars
      BY <2>1, IndexOfChar DEF CharAt
    <2>3. lo \in HexChars \cup {16}
      BY <1>1, IndexOfChar DEF CharAt
    <2>4. Joined(hi, lo) \in Bytes
      <3>1. CASE lo \in HexChars
        BY <2>2, <3>1, JoinedDigits
      <3>2. CASE lo = 16
        BY <2>2, <3>2, JoinedAtEnd
      <3> QED
        BY <2>3, <3>1, <3>2
    <2> QED
      BY <2>4 DEF HexStringToBin
  <1>4. HexStringToBin(s) \in Seq(Bytes) /\ Len(HexStringToBin(s)) = BinWritten(s)
    BY <1>1, <1>3 DEF HexStringToBin
  <1> QED
    BY <1>2, <1>4 DEF StaysInBuffer

\* A key written as text and read again is the key (util.c:12-61).
THEOREM KeysRoundTrip ==
  ASSUME NEW data \in Seq(Bytes)
  PROVE  RoundTrips(data)
  <1> DEFINE s == BinToHexString(data)
             n == Len(data)
  <1>1. n \in Nat /\ s \in [1 .. 2 * n -> HexChars] /\ Len(s) = 2 * n
    <2>1. ASSUME NEW i \in 1 .. 2 * n
          PROVE  (IF i % 2 = 1 THEN data[(i + 1) \div 2] \div 16 ELSE data[i \div 2] % 16)
                   \in HexChars
      <3>1. CASE i % 2 = 1
        <4>1. (i + 1) \div 2 \in 1 .. n
          BY <3>1
        <4>2. data[(i + 1) \div 2] \in Bytes
          BY <4>1
        <4> QED
          BY <3>1, <4>2, DigitsOfByte
      <3>2. CASE i % 2 # 1
        <4>1. i \div 2 \in 1 .. n
          BY <3>2
        <4>2. data[i \div 2] \in Bytes
          BY <4>1
        <4> QED
          BY <3>2, <4>2, DigitsOfByte
      <3> QED
        BY <3>1, <3>2
    <2> QED
      BY <2>1 DEF BinToHexString
  <1>2. BinWritten(s) = n
    BY <1>1 DEF BinWritten
  <1>3. ASSUME NEW j \in 1 .. n
        PROVE  Joined(HexIndex(CharAt(s, 2 * j - 1)), HexIndex(CharAt(s, 2 * j))) = data[j]
    <2>1. data[j] \in Bytes
      OBVIOUS
    <2>2. /\ 2 * j - 1 \in 1 .. 2 * n /\ (2 * j - 1) % 2 = 1 /\ ((2 * j - 1) + 1) \div 2 = j
          /\ 2 * j \in 1 .. 2 * n /\ (2 * j) % 2 = 0 /\ (2 * j) \div 2 = j
      BY <1>1
    <2>3. CharAt(s, 2 * j - 1) = data[j] \div 16 /\ CharAt(s, 2 * j) = data[j] % 16
      BY <1>1, <2>2 DEF CharAt, BinToHexString
    <2>4. data[j] \div 16 \in HexChars /\ data[j] % 16 \in HexChars
          /\ data[j] = (data[j] \div 16) * 16 + (data[j] % 16)
      BY <2>1, DigitsOfByte
    <2>5. \A d \in HexChars : HexIndex(d) = d
      BY DEF HexIndex, ToLower, HexChars, Capitals, Capital
    <2> QED
      BY <2>3, <2>4, <2>5, JoinedDigits
  <1>4. HexStringToBin(s) = [j \in 1 .. n |-> data[j]]
    BY <1>2, <1>3 DEF HexStringToBin
  <1>5. data = [j \in 1 .. n |-> data[j]]
    OBVIOUS
  <1> QED
    BY <1>4, <1>5 DEF RoundTrips

\* The name a buddy gets from a Tox ID of digits, capital or not, is the text of the
\* friend's key (purple/buddy.c:146-148, toxprpl.c:269-272).
THEOREM BuddyNameIsKey ==
  ASSUME NEW s \in Seq(Digits), Len(s) % 2 = 0
  PROVE  NameIsKey(s)
  <1> DEFINE b == HexStringToBin(s)
             m == Len(s) \div 2
  <1>1. Len(s) \in Nat /\ m \in Nat /\ Len(s) = 2 * m /\ BinWritten(s) = m
    BY DEF BinWritten
  <1>2. Len(b) = m /\ DOMAIN b = 1 .. m
    BY <1>1 DEF HexStringToBin
  <1>3. ASSUME NEW j \in 1 .. m
        PROVE  b[j] \div 16 = ToLower(s[2 * j - 1]) /\ b[j] % 16 = ToLower(s[2 * j])
    <2>1. 2 * j - 1 \in 1 .. Len(s) /\ 2 * j \in 1 .. Len(s)
      BY <1>1
    <2>2. s[2 * j - 1] \in Digits /\ s[2 * j] \in Digits
      BY <2>1
    <2>3. b[j] = Joined(HexIndex(s[2 * j - 1]), HexIndex(s[2 * j]))
      BY <1>1, <2>1 DEF HexStringToBin, CharAt
    <2> QED
      BY <2>2, <2>3, IndexOfChar, JoinedDigits
  <1>4. ASSUME NEW i \in 1 .. 2 * m
        PROVE  (IF i % 2 = 1 THEN b[(i + 1) \div 2] \div 16 ELSE b[i \div 2] % 16)
                 = ToLower(s[i])
    <2>1. CASE i % 2 = 1
      <3>1. (i + 1) \div 2 \in 1 .. m /\ 2 * ((i + 1) \div 2) - 1 = i
        BY <1>1, <2>1
      <3> QED
        BY <1>3, <2>1, <3>1
    <2>2. CASE i % 2 # 1
      <3>1. i \div 2 \in 1 .. m /\ 2 * (i \div 2) = i
        BY <1>1, <2>2
      <3> QED
        BY <1>3, <2>2, <3>1
    <2> QED
      BY <2>1, <2>2
  <1> QED
    BY <1>1, <1>2, <1>4 DEF NameIsKey, BinToHexString, BuddyNameOf
=============================================================================
