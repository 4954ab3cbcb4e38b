------------------------------- MODULE Bytes -------------------------------
(* Numbers and strings as bytes: big-endian and signed the ones, ended by  *)
(* a zero the others (decode.rs, encode.rs).  Bytes are sequences over     *)
(* Octets.                                                                 *)
EXTENDS Integers, Sequences, FiniteSetsExt

Octets == {n \in Nat : n <= 255}
Data == Seq(Octets)
CStrings == Seq(Octets \ {0})
Int16 == {n \in Int : -32768 <= n /\ n <= 32767}
Int32 == {n \in Int : -2147483647 - 1 <= n /\ n <= 2147483647}

Signed(byte) == IF byte < 128 THEN byte ELSE byte - 256
Be16(data, at) == Signed(data[at]) * 256 + data[at + 1]
Be32(data, at) ==
  Signed(data[at]) * 16777216 + data[at + 1] * 65536 + data[at + 2] * 256 + data[at + 3]

Byte2(n) == <<(n % 65536) \div 256, n % 256>>
Byte4(n) ==
  LET low == n % 16777216
  IN  <<(n \div 16777216) % 256, low \div 65536, (low % 65536) \div 256, n % 256>>

(* The zero that ends the string at position "at"; 0 if there is none.     *)
EndOf(data, at) ==
  LET zeros == {i \in at .. Len(data) : data[i] = 0}
  IN  IF zeros = {} THEN 0 ELSE Min(zeros)
StringAt(data, at) == SubSeq(data, at, EndOf(data, at) - 1)
Zero(string) == Append(string, 0)

Flat(seqs) ==
  LET flat[k \in 0 .. Len(seqs)] == IF k = 0 THEN <<>> ELSE flat[k - 1] \o seqs[k]
  IN  flat[Len(seqs)]

(* The strings from position "from" up to an empty one or the end.         *)
StringsFrom(data, from) ==
  LET strings[at \in from .. Len(data) + 1] ==
        IF at > Len(data) \/ EndOf(data, at) \in {0, at} THEN <<>>
        ELSE <<StringAt(data, at)>> \o strings[EndOf(data, at) + 1]
  IN  strings[from]
=============================================================================
