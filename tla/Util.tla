-------------------------------- MODULE Util --------------------------------
(***************************************************************************)
(* Keys and Tox IDs as text (util.c:10-61), and the name a buddy gets from *)
(* the Tox ID the user types (purple/buddy.c:146-148). Roster, Contacts and*)
(* Xfers name a friend by his key: they take for granted that the name of  *)
(* the buddy is the text of the key, which is what this module is about.   *)
(*                                                                         *)
(* A character is a number: 0 .. 15 are the digits of g_HEX_CHARS, the     *)
(* capital digits A .. F follow, and then the other characters and the     *)
(* terminator, one number each.                                            *)
(***************************************************************************)
EXTENDS Integers, Sequences

HexChars == 0 .. 15
Capital(d) == d + 16
Capitals == {Capital(d) : d \in 10 .. 15}
Other == 32
Nul == 33

Digits == HexChars \cup Capitals
Chars == Digits \cup {Other}
Bytes == 0 .. 255

\* g_ascii_tolower
ToLower(c) == IF c \in Capitals THEN c - 16 ELSE c

\* ToxPRPL_binToHexString
BinToHexString(data) ==
  [i \in 1 .. 2 * Len(data) |->
     IF i % 2 = 1 THEN data[(i + 1) \div 2] \div 16 ELSE data[i \div 2] % 16]

\* strchr(g_HEX_CHARS, c) as an index: it finds the terminator, too, and a character
\* it does not find counts as 0.
HexIndex(c) ==
  IF ToLower(c) \in HexChars THEN ToLower(c) ELSE IF c = Nul THEN 16 ELSE 0

\* hi << 4 | lo, cut to a byte. Bit 4 of lo is set only where lo is 16.
Joined(hi, lo) == IF lo = 16 /\ hi % 2 = 1 THEN (hi * 16) % 256 ELSE (hi * 16 + lo) % 256

\* ToxPRPL_hexStringToBin: what it reads, how much it allocates, how much it writes,
\* and what. A string of odd length ends in the middle of a byte.
CharAt(s, i) == IF i <= Len(s) THEN s[i] ELSE Nul
BinSize(s) == Len(s) \div 2
BinWritten(s) == (Len(s) + 1) \div 2
HexStringToBin(s) ==
  [j \in 1 .. BinWritten(s) |->
     Joined(HexIndex(CharAt(s, 2 * j - 1)), HexIndex(CharAt(s, 2 * j)))]

\* ToxPRPL_Purple_addBuddy: the new name of the buddy, from as many characters of the
\* Tox ID as the key has.
BuddyNameOf(s) == [i \in 1 .. Len(s) |-> ToLower(s[i])]

-----------------------------------------------------------------------------
(* Properties *)

\* Only bytes come out, and exactly as many as there is room for, unless the length
\* is odd: then one more.
StaysInBuffer(s) ==
  /\ HexStringToBin(s) \in Seq(Bytes)
  /\ Len(HexStringToBin(s)) = BinSize(s) + (Len(s) % 2)

\* A key survives being written as text and read again.
RoundTrips(data) == HexStringToBin(BinToHexString(data)) = data

\* The name of a buddy is the text of the key its Tox ID stands for. A character that
\* is no digit breaks this: it is read as 0 and stays in the name.
NameIsKey(s) == BinToHexString(HexStringToBin(s)) = BuddyNameOf(s)
=============================================================================
