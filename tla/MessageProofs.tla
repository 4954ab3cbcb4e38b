---------------------------- MODULE MessageProofs ----------------------------
(***************************************************************************)
(* What is written is what is read, in both directions.  Every message of  *)
(* the server, whatever its fields hold, is decoded to itself, at whatever *)
(* point of the stream it starts, and no part of one is taken for a        *)
(* message, so receive_message returns what the server said (Framing).     *)
(* And what encode_message writes, whatever it holds, the server reads as  *)
(* the message it was (Encoding).                                          *)
(***************************************************************************)
EXTENDS Framing, Encoding, BytesProofs

LEMMA AsciiStrings ==
  ASSUME NEW s \in Ascii
  PROVE  /\ s \in CStrings /\ s \in Data /\ Zero(s) \in Data
         /\ Len(Zero(s)) = Len(s) + 1 /\ Len(s) \in Nat
<1>1. {n \in Nat : 1 <= n /\ n <= 127} \subseteq Octets \ {0}
  BY DEF Octets
<1>2. s \in CStrings
  BY <1>1 DEF Ascii, CStrings
<1> QED
  BY <1>2, ZeroEnds

LEMMA Options ==
  ASSUME NEW S, NEW x \in Optional(S), x # <<>>
  PROVE  x[1] \in S /\ x = <<x[1]>>
<1>1. x \in Seq(S) /\ Len(x) <= 1 /\ Len(x) \in Nat
  BY DEF Optional
<1>2. Len(x) # 0
  <2>1. \A s \in Seq(S) : s # <<>> => Len(s) \in Nat \ {0}
    BY EmptySeq
  <2> QED
    BY <1>1, <2>1
<1>3. Len(x) = 1
  <2> DEFINE n == Len(x)
  <2>1. n \in Nat /\ n <= 1 /\ n # 0
    BY <1>1, <1>2
  <2> HIDE DEF n
  <2>2. n = 1
    BY <2>1
  <2> QED
    BY <2>2 DEF n
<1> QED
  BY <1>1, <1>3

LEMMA SubSeqLast ==
  ASSUME NEW S, NEW s \in Seq(S), NEW k \in 1 .. Len(s)
  PROVE  /\ SubSeq(s, 1, k - 1) \in Seq(S)
         /\ Append(SubSeq(s, 1, k - 1), s[k]) = SubSeq(s, 1, k)
<1> DEFINE t == SubSeq(s, 1, k - 1)
           u == SubSeq(s, 1, k)
<1>1. t \in Seq(S) /\ Len(t) = k - 1 /\ \A i \in 1 .. k - 1 : t[i] = s[i]
  OBVIOUS
<1>2. u \in Seq(S) /\ Len(u) = k /\ \A i \in 1 .. k : u[i] = s[i]
  OBVIOUS
<1>3. s[k] \in S
  OBVIOUS
<1> HIDE DEF t, u
<1> DEFINE v == Append(t, s[k])
<1>4. v \in Seq(S) /\ Len(v) = k /\ \A i \in 1 .. k : v[i] = s[i]
  BY <1>1, <1>3
<1> HIDE DEF v
<1>5. v = u
  BY <1>2, <1>4
<1> QED
  BY <1>1, <1>5 DEF t, u, v

(* Two functions that make each value from the one before in the same way  *)
(* are the same.                                                           *)
LEMMA Agree ==
  ASSUME NEW n \in Nat, NEW f, NEW g, f[0] = g[0],
         \A k \in 1 .. n : f[k - 1] = g[k - 1] => f[k] = g[k]
  PROVE  f[n] = g[n]
<1> DEFINE T == {k \in 0 .. n : f[k] = g[k]}
<1>1. 0 \in T
  OBVIOUS
<1>2. ASSUME NEW k \in 1 .. n, k - 1 \in T PROVE k \in T
  BY <1>2
<1> HIDE DEF T
<1>3. 0 .. n \subseteq T
  BY <1>1, <1>2, Upwards
<1> QED
  BY <1>3 DEF T

-----------------------------------------------------------------------------
(* Rows.                                                                   *)
LEMMA WireFieldData ==
  ASSUME NEW f \in Optional(Data)
  PROVE  /\ WireField(f) \in Data
         /\ f = <<>> => WireField(f) = Byte4(-1)
         /\ f # <<>> => /\ f[1] \in Data /\ f = <<f[1]>> /\ Len(f[1]) \in Nat
                        /\ WireField(f) = Byte4(Len(f[1])) \o f[1]
<1>1. CASE f = <<>>
  BY <1>1, FourBytes DEF WireField
<1>2. CASE f # <<>>
  <2>1. f[1] \in Data /\ f = <<f[1]>>
    BY <1>2, Options
  <2>2. Len(f[1]) \in Nat
    BY <2>1 DEF Data
  <2>3. Byte4(Len(f[1])) \in Data
    BY <2>2, FourBytes
  <2> QED
    BY <1>2, <2>1, <2>2, <2>3, Joined DEF WireField
<1> QED
  BY <1>1, <1>2

LEMMA WireFieldIsData == \A f \in Optional(Data) : WireField(f) \in Data
BY WireFieldData

LEMMA RowFieldThere ==
  ASSUME NEW f \in Optional(Data), NEW d \in Data, NEW at, Occurs(WireField(f), d, at),
         Len(d) \in Int32, NEW fields
  PROVE  RowField(d, at, fields)
           = <<[at |-> at + Len(WireField(f)), fields |-> Append(fields, f)]>>
<1>1. at \in Nat \ {0} /\ Len(d) \in Nat
  BY DEF Occurs, Data
<1>2. CASE f = <<>>
  <2>1. WireField(f) = Byte4(-1) /\ Len(Byte4(-1)) = 4 /\ Byte4(-1) \in Data
    <3>1. -1 \in Int
      OBVIOUS
    <3>2. Len(Byte4(-1)) = 4 /\ Byte4(-1) \in Data
      BY <3>1, FourBytes
    <3> QED
      BY <1>2, <3>2, WireFieldData
  <2>2. -1 \in Int32
    BY SMT DEF Int32
  <2>3. Be32(d, at) = -1
    BY <2>1, <2>2, Be32At
  <2>4. at + 4 <= Len(d) + 1
    BY <2>1 DEF Occurs
  <2>5. ~(at + 3 > Len(d))
    BY <1>1, <2>4
  <2>6. RowField(d, at, fields) = <<[at |-> at + 4, fields |-> Append(fields, <<>>)]>>
    <3>1. ~(at + 3 + (-1) > Len(d))
      BY <1>1, <2>5
    <3> QED
      BY <2>3, <2>5, <3>1 DEF RowField
  <2> QED
    BY <1>2, <2>1, <2>6
<1>3. CASE f # <<>>
  <2> DEFINE v == f[1]
             n == Len(v)
  <2>1. /\ v \in Data /\ f = <<v>> /\ n \in Nat /\ WireField(f) = Byte4(n) \o v
        /\ Byte4(n) \in Data /\ Len(Byte4(n)) = 4
    <3>1. v \in Data /\ f = <<v>> /\ n \in Nat /\ WireField(f) = Byte4(n) \o v
      BY <1>3, WireFieldData
    <3>2. n \in Int
      BY <3>1
    <3> QED
      BY <3>1, <3>2, FourBytes
  <2> HIDE DEF v
  <2>2. /\ Occurs(Byte4(n), d, at) /\ Occurs(v, d, at + 4) /\ at + 4 + n <= Len(d) + 1
        /\ Len(WireField(f)) = 4 + n
    <3>1. Occurs(Byte4(n) \o v, d, at)
      BY <2>1
    <3>2. Occurs(Byte4(n), d, at) /\ Occurs(v, d, at + Len(Byte4(n)))
      BY <2>1, <3>1, OccursBoth
    <3>3. at + Len(Byte4(n)) + Len(v) <= Len(d) + 1
      BY <2>1, <3>1, OccursBoth
    <3>4. Len(Byte4(n) \o v) = Len(Byte4(n)) + Len(v)
      BY <2>1, Joined
    <3> QED
      BY <2>1, <3>2, <3>3, <3>4
  <2>3. n \in Int32
    BY <1>1, <2>1, <2>2, SMT DEF Int32
  <2>4. Be32(d, at) = n
    BY <2>2, <2>3, Be32At
  <2>5. SubSeq(d, at + 4, at + 4 + n - 1) = v
    BY <2>1, <2>2, Cut
  <2>6. at + 4 + n - 1 = at + 3 + n
    BY <1>1, <2>1
  <2>7. ~(at + 3 > Len(d)) /\ ~(at + 3 + n > Len(d)) /\ n # -1
    BY <1>1, <2>1, <2>2
  <2> HIDE DEF n
  <2>8. RowField(d, at, fields)
          = <<[at |-> at + 4 + n,
               fields |-> Append(fields, <<SubSeq(d, at + 4, at + 3 + n)>>)]>>
    <3> QED
      BY <2>4, <2>7 DEF RowField
  <2>9. at + 4 + n = at + Len(WireField(f))
    <3> DEFINE w == Len(WireField(f))
    <3>1. w = 4 + n
      BY <2>2
    <3> HIDE DEF w
    <3>2. at + 4 + n = at + w
      BY <1>1, <2>1, <3>1
    <3> QED
      BY <3>2 DEF w
  <2> QED
    BY <2>1, <2>5, <2>6, <2>8, <2>9
<1> QED
  BY <1>2, <1>3

RowBytes(fields) ==
  Byte2(Len(fields)) \o Flat([i \in DOMAIN fields |-> WireField(fields[i])])

LEMMA RowThere ==
  ASSUME NEW fields \in Seq(Optional(Data)), Len(fields) \in Int16,
         Len(RowBytes(fields)) \in Int32
  PROVE  /\ RowBytes(fields) \in Data
         /\ DecodeDataRow(RowBytes(fields)) = <<[kind |-> "dataRow", fields |-> fields]>>
<1> DEFINE n == Len(fields)
           d == RowBytes(fields)
           ws == [i \in DOMAIN fields |-> WireField(fields[i])]
           count == Be16(d, 1)
           Q(read) == read = [k \in 0 .. count |->
                                IF k = 0 THEN <<[at |-> 3, fields |-> <<>>]>>
                                ELSE IF read[k - 1] = Error THEN Error
                                ELSE RowField(d, read[k - 1][1].at, read[k - 1][1].fields)]
<1>1. /\ n \in Nat /\ n \in Int16 /\ \A k \in 1 .. n : fields[k] \in Optional(Data)
      /\ Byte2(n) \in Data /\ Len(Byte2(n)) = 2
  <2>1. n \in Nat /\ \A k \in 1 .. n : fields[k] \in Optional(Data)
    OBVIOUS
  <2>2. n \in Int16
    OBVIOUS
  <2> QED
    BY <2>1, <2>2, Two
<1>2. ws \in Seq(Data) /\ Len(ws) = n /\ \A k \in 1 .. n : ws[k] = WireField(fields[k])
  <2>1. ASSUME NEW k \in 1 .. n PROVE WireField(fields[k]) \in Data
    <3>1. fields[k] \in Optional(Data)
      OBVIOUS
    <3> QED
      BY <3>1, WireFieldIsData
  <2> QED
    BY <2>1
<1>0. Len(d) \in Int32
  OBVIOUS
<1> HIDE DEF n, ws, d
<1>3. Flat(ws) \in Data
  BY <1>2, FlatData
<1>4. d = Byte2(n) \o Flat(ws)
  BY Zenon DEF n, ws, d, RowBytes
<1>5. d \in Data /\ Occurs(Byte2(n), d, 1) /\ Occurs(Flat(ws), d, 3) /\ Len(d) >= 2
  <2>1. /\ d \in Data /\ Len(d) = Len(Byte2(n)) + Len(Flat(ws)) /\ Len(Flat(ws)) \in Nat
        /\ Occurs(Byte2(n), d, 1) /\ Occurs(Flat(ws), d, 1 + Len(Byte2(n)))
    BY <1>1, <1>3, <1>4, Parted
  <2> QED
    BY <1>1, <2>1
<1>6. count = n
  BY <1>1, <1>5, Be16At
<1>7. PICK places : OccurAt(places, ws, d, 3)
  BY <1>2, <1>5, FlatOccurs
<1> HIDE DEF count, Q
<1> DEFINE Read(k) == <<[at |-> places[k + 1], fields |-> SubSeq(fields, 1, k)]>>
           g == [k \in 0 .. n |-> Read(k)]
<1>8. g[0] = <<[at |-> 3, fields |-> <<>>]>>
  <2>1. SubSeq(fields, 1, 0) = <<>> /\ 0 \in 0 .. n /\ 0 + 1 = 1
    BY <1>1
  <2>2. places[1] = 3
    BY <1>7 DEF OccurAt
  <2> QED
    BY <2>1, <2>2
<1>9. ASSUME NEW k \in 1 .. n
      PROVE  /\ g[k - 1] # Error
             /\ RowField(d, g[k - 1][1].at, g[k - 1][1].fields) = g[k]
  <2>1. k - 1 \in 0 .. n /\ k \in 0 .. n /\ (k - 1) + 1 = k
    BY <1>1
  <2>2. /\ g[k - 1] = <<[at |-> places[k], fields |-> SubSeq(fields, 1, k - 1)]>>
        /\ g[k] = <<[at |-> places[k + 1], fields |-> SubSeq(fields, 1, k)]>>
    <3>1. g[k - 1] = Read(k - 1) /\ g[k] = Read(k)
      BY <2>1
    <3> QED
      BY <2>1, <3>1
  <2>3. Append(SubSeq(fields, 1, k - 1), fields[k]) = SubSeq(fields, 1, k)
    BY SubSeqLast DEF n
  <2> HIDE DEF g
  <2>4. RowField(d, places[k], SubSeq(fields, 1, k - 1)) = g[k]
    <3>1. /\ Occurs(WireField(fields[k]), d, places[k])
          /\ places[k + 1] = places[k] + Len(WireField(fields[k]))
          /\ fields[k] \in Optional(Data)
      BY <1>1, <1>2, <1>7 DEF OccurAt
    <3>2. RowField(d, places[k], SubSeq(fields, 1, k - 1))
            = <<[at |-> places[k] + Len(WireField(fields[k])),
                 fields |-> Append(SubSeq(fields, 1, k - 1), fields[k])]>>
      BY <1>0, <1>5, <3>1, RowFieldThere, ZenonT(60)
    <3> QED
      BY <2>2, <2>3, <3>1, <3>2, Zenon
  <2>5. g[k - 1] # Error /\ g[k - 1][1].at = places[k]
        /\ g[k - 1][1].fields = SubSeq(fields, 1, k - 1)
    BY <2>2 DEF Error
  <2> QED
    BY <2>4, <2>5
<1>10. Q(g)
  <2>1. ASSUME NEW k \in 0 .. n
        PROVE  g[k] = IF k = 0 THEN <<[at |-> 3, fields |-> <<>>]>>
                      ELSE IF g[k - 1] = Error THEN Error
                      ELSE RowField(d, g[k - 1][1].at, g[k - 1][1].fields)
    <3>1. k = 0 \/ k \in 1 .. n
      BY <1>1
    <3> HIDE DEF g
    <3> QED
      BY <1>8, <1>9, <3>1
  <2>2. g = [k \in 0 .. n |-> g[k]]
    OBVIOUS
  <2> HIDE DEF g
  <2> QED
    BY <1>6, <2>1, <2>2 DEF Q
<1> HIDE DEF g
<1> DEFINE f == CHOOSE read : Q(read)
<1>11. Q(f)
  <2> QED
    BY <1>10
<1> HIDE DEF f
<1>12. f[n] = g[n]
  <2>1. f[0] = g[0]
    BY <1>1, <1>6, <1>8, <1>11 DEF Q
  <2>2. ASSUME NEW k \in 1 .. n, f[k - 1] = g[k - 1] PROVE f[k] = g[k]
    <3>1. k \in 0 .. n /\ k # 0
      BY <1>1
    <3>2. f[k] = IF f[k - 1] = Error THEN Error
                 ELSE RowField(d, f[k - 1][1].at, f[k - 1][1].fields)
      BY <1>6, <1>11, <3>1 DEF Q
    <3> QED
      BY <1>9, <2>2, <3>2
  <2> QED
    BY <1>1, <2>1, <2>2, Agree
<1>13. DecodeDataRow(d) = IF Len(d) < 2 \/ f[count] = Error THEN Error
                          ELSE <<[kind |-> "dataRow", fields |-> f[count][1].fields]>>
  BY Zenon DEF DecodeDataRow, f, Q, count
<1>14. g[n] = <<[at |-> places[n + 1], fields |-> fields]>>
  <2>1. n \in 0 .. n
    BY <1>1
  <2>2. SubSeq(fields, 1, n) = fields
    BY DEF n
  <2> QED
    BY <2>1, <2>2 DEF g
<1>15. f[n] # Error /\ f[n][1].fields = fields
  BY <1>12, <1>14 DEF Error
<1>16. DecodeDataRow(d) = <<[kind |-> "dataRow", fields |-> fields]>>
  <2>1. ~(Len(d) < 2)
    BY <1>5 DEF Data
  <2> QED
    BY <1>6, <1>13, <1>15, <2>1
<1> QED
  BY <1>5, <1>16 DEF d

-----------------------------------------------------------------------------
(* Row descriptions.                                                       *)
LEMMA WireDescriptorThere ==
  ASSUME NEW f \in Descriptions
  PROVE  /\ WireDescriptor(f) \in Data /\ Len(WireDescriptor(f)) = Len(f.name) + 19
         /\ \A d \in Data : \A at : Occurs(WireDescriptor(f), d, at) =>
              /\ Occurs(Zero(f.name), d, at)
              /\ Descriptor(d, at + Len(f.name) + 1) = f.desc
<1> DEFINE z == Zero(f.name)
           a == Byte4(f.desc.table)
           b == Byte2(f.desc.column)
           c == Byte4(f.desc.type)
           e == Byte2(f.desc.size)
           g == Byte4(f.desc.modifier)
           h == Byte2(f.desc.format)
           s1 == z \o a
           s2 == s1 \o b
           s3 == s2 \o c
           s4 == s3 \o e
           s5 == s4 \o g
           s6 == s5 \o h
           l == Len(f.name)
<1>1. /\ f.name \in Ascii
      /\ f.desc.table \in Int32 /\ f.desc.column \in Int16 /\ f.desc.type \in Int32
      /\ f.desc.size \in Int16 /\ f.desc.modifier \in Int32 /\ f.desc.format \in Int16
  BY DEF Descriptions
<1>2. z \in Data /\ Len(z) = l + 1 /\ l \in Nat
  BY <1>1, AsciiStrings
<1>3. /\ a \in Data /\ Len(a) = 4 /\ c \in Data /\ Len(c) = 4 /\ g \in Data /\ Len(g) = 4
      /\ b \in Data /\ Len(b) = 2 /\ e \in Data /\ Len(e) = 2 /\ h \in Data /\ Len(h) = 2
  BY <1>1, Two, Four
<1>4. WireDescriptor(f) = s6
  BY DEF WireDescriptor
<1>5. f.desc = [table |-> f.desc.table, column |-> f.desc.column, type |-> f.desc.type,
                size |-> f.desc.size, modifier |-> f.desc.modifier, format |-> f.desc.format]
  BY DEF Descriptions
<1> HIDE DEF z, l
<1>6. s1 \in Data /\ Len(s1) = l + 5
  <2> HIDE DEF a
  <2>1. s1 \in Data /\ Len(s1) = Len(z) + Len(a)
    BY <1>2, <1>3, Joined
  <2> QED
    BY <1>2, <1>3, <2>1
<1>7. s2 \in Data /\ Len(s2) = l + 7
  <2> HIDE DEF s1, b
  <2>1. s2 \in Data /\ Len(s2) = Len(s1) + Len(b)
    BY <1>3, <1>6, Joined
  <2> QED
    BY <1>2, <1>3, <1>6, <2>1
<1>8. s3 \in Data /\ Len(s3) = l + 11
  <2> HIDE DEF s2, c
  <2>1. s3 \in Data /\ Len(s3) = Len(s2) + Len(c)
    BY <1>3, <1>7, Joined
  <2> QED
    BY <1>2, <1>3, <1>7, <2>1
<1>9. s4 \in Data /\ Len(s4) = l + 13
  <2> HIDE DEF s3, e
  <2>1. s4 \in Data /\ Len(s4) = Len(s3) + Len(e)
    BY <1>3, <1>8, Joined
  <2> QED
    BY <1>2, <1>3, <1>8, <2>1
<1>10. s5 \in Data /\ Len(s5) = l + 17
  <2> HIDE DEF s4, g
  <2>1. s5 \in Data /\ Len(s5) = Len(s4) + Len(g)
    BY <1>3, <1>9, Joined
  <2> QED
    BY <1>2, <1>3, <1>9, <2>1
<1>11. s6 \in Data /\ Len(s6) = l + 19
  <2> HIDE DEF s5, h
  <2>1. s6 \in Data /\ Len(s6) = Len(s5) + Len(h)
    BY <1>3, <1>10, Joined
  <2> QED
    BY <1>2, <1>3, <1>10, <2>1
<1> HIDE DEF s1, s2, s3, s4, s5, s6, a, b, c, e, g, h
<1>12. ASSUME NEW d \in Data, NEW at, Occurs(s6, d, at)
       PROVE  Occurs(z, d, at) /\ Descriptor(d, at + l + 1) = f.desc
  <2>1. Occurs(s5, d, at) /\ Occurs(h, d, at + (l + 17))
    BY <1>3, <1>10, <1>12, OccursBoth DEF s6
  <2>2. Occurs(s4, d, at) /\ Occurs(g, d, at + (l + 13))
    BY <1>3, <1>9, <2>1, OccursBoth DEF s5
  <2>3. Occurs(s3, d, at) /\ Occurs(e, d, at + (l + 11))
    BY <1>3, <1>8, <2>2, OccursBoth DEF s4
  <2>4. Occurs(s2, d, at) /\ Occurs(c, d, at + (l + 7))
    BY <1>3, <1>7, <2>3, OccursBoth DEF s3
  <2>5. Occurs(s1, d, at) /\ Occurs(b, d, at + (l + 5))
    BY <1>3, <1>6, <2>4, OccursBoth DEF s2
  <2>6. Occurs(z, d, at) /\ Occurs(a, d, at + (l + 1))
    BY <1>2, <1>3, <2>5, OccursBoth DEF s1
  <2>7. at \in Nat
    BY <1>12 DEF Occurs
  <2> DEFINE p == at + l + 1
  <2>8. /\ p = at + (l + 1) /\ p + 4 = at + (l + 5) /\ p + 6 = at + (l + 7)
        /\ p + 10 = at + (l + 11) /\ p + 12 = at + (l + 13) /\ p + 16 = at + (l + 17)
    BY <1>2, <2>7
  <2> HIDE DEF p
  <2>9. /\ Be32(d, p) = f.desc.table /\ Be16(d, p + 4) = f.desc.column
        /\ Be32(d, p + 6) = f.desc.type
    BY <1>1, <2>4, <2>5, <2>6, <2>8, Be16At, Be32At DEF a, b, c
  <2>10. /\ Be16(d, p + 10) = f.desc.size /\ Be32(d, p + 12) = f.desc.modifier
         /\ Be16(d, p + 16) = f.desc.format
    BY <1>1, <2>1, <2>2, <2>3, <2>8, Be16At, Be32At DEF e, g, h
  <2>11. Descriptor(d, p) = f.desc
    BY <1>5, <2>9, <2>10 DEF Descriptor
  <2> QED
    BY <2>6, <2>11 DEF p
<1> QED
  BY <1>4, <1>11, <1>12 DEF z, l

LEMMA DescriptionFieldThere ==
  ASSUME NEW f \in Descriptions, NEW d \in Data, NEW at, Occurs(WireDescriptor(f), d, at),
         NEW fields
  PROVE  DescriptionField(d, at, fields)
           = <<[at |-> at + Len(WireDescriptor(f)), fields |-> Append(fields, f)]>>
<1> DEFINE l == Len(f.name)
<1>1. /\ WireDescriptor(f) \in Data /\ Len(WireDescriptor(f)) = l + 19
      /\ Occurs(Zero(f.name), d, at) /\ Descriptor(d, at + l + 1) = f.desc
  BY WireDescriptorThere
<1>2. f.name \in CStrings /\ l \in Nat /\ f = [name |-> f.name, desc |-> f.desc]
  BY AsciiStrings DEF Descriptions
<1>3. EndOf(d, at) = at + l /\ StringAt(d, at) = f.name /\ at \in Nat \ {0}
  BY <1>1, <1>2, StringThere
<1>4. at + Len(WireDescriptor(f)) <= Len(d) + 1 /\ Len(d) \in Nat
  BY DEF Occurs, Data
<1> HIDE DEF l
<1> DEFINE w == Len(WireDescriptor(f))
<1>5. w = l + 19 /\ at + w <= Len(d) + 1
  BY <1>1, <1>4
<1> HIDE DEF w
<1> DEFINE end == at + l
<1>6. end # 0 /\ ~(end + 18 > Len(d)) /\ end + 19 = at + w /\ end + 1 = at + l + 1
  BY <1>2, <1>3, <1>4, <1>5
<1> HIDE DEF end
<1>7. EndOf(d, at) = end
  BY <1>3 DEF end
<1>8. DescriptionField(d, at, fields)
        = <<[at |-> end + 19,
             fields |-> Append(fields, [name |-> StringAt(d, at),
                                        desc |-> Descriptor(d, end + 1)])]>>
  BY <1>6, <1>7 DEF DescriptionField
<1>9. Descriptor(d, end + 1) = f.desc
  BY <1>1, <1>6
<1>10. [name |-> StringAt(d, at), desc |-> Descriptor(d, end + 1)] = f
  BY <1>2, <1>3, <1>9
<1> QED
  BY <1>6, <1>8, <1>10, Zenon DEF w

DescriptionBytes(fields) ==
  Byte2(Len(fields)) \o Flat([i \in DOMAIN fields |-> WireDescriptor(fields[i])])

LEMMA DescriptionThere ==
  ASSUME NEW fields \in Seq(Descriptions), Len(fields) \in Int16
  PROVE  /\ DescriptionBytes(fields) \in Data
         /\ DecodeRowDescription(DescriptionBytes(fields))
               = <<[kind |-> "rowDesc", fields |-> fields]>>
<1> DEFINE n == Len(fields)
           d == DescriptionBytes(fields)
           ws == [i \in DOMAIN fields |-> WireDescriptor(fields[i])]
           count == Be16(d, 1)
           Q(read) == read = [k \in 0 .. count |->
                                IF k = 0 THEN <<[at |-> 3, fields |-> <<>>]>>
                                ELSE IF read[k - 1] = Error THEN Error
                                ELSE DescriptionField(d, read[k - 1][1].at, read[k - 1][1].fields)]
<1>1. /\ n \in Nat /\ n \in Int16 /\ \A k \in 1 .. n : fields[k] \in Descriptions
      /\ Byte2(n) \in Data /\ Len(Byte2(n)) = 2
  <2>1. n \in Nat /\ \A k \in 1 .. n : fields[k] \in Descriptions
    OBVIOUS
  <2>2. n \in Int16
    OBVIOUS
  <2> QED
    BY <2>1, <2>2, Two
<1>2. ws \in Seq(Data) /\ Len(ws) = n /\ \A k \in 1 .. n : ws[k] = WireDescriptor(fields[k])
  <2>1. ASSUME NEW k \in 1 .. n PROVE WireDescriptor(fields[k]) \in Data
    <3>1. fields[k] \in Descriptions
      OBVIOUS
    <3> QED
      BY <3>1, WireDescriptorThere
  <2> QED
    BY <2>1
<1> HIDE DEF n, ws, d
<1>3. Flat(ws) \in Data
  BY <1>2, FlatData
<1>4. d = Byte2(n) \o Flat(ws)
  BY Zenon DEF n, ws, d, DescriptionBytes
<1>5. d \in Data /\ Occurs(Byte2(n), d, 1) /\ Occurs(Flat(ws), d, 3) /\ Len(d) >= 2
  <2>1. /\ d \in Data /\ Len(d) = Len(Byte2(n)) + Len(Flat(ws)) /\ Len(Flat(ws)) \in Nat
        /\ Occurs(Byte2(n), d, 1) /\ Occurs(Flat(ws), d, 1 + Len(Byte2(n)))
    BY <1>1, <1>3, <1>4, Parted
  <2> QED
    BY <1>1, <2>1
<1>6. count = n
  BY <1>1, <1>5, Be16At
<1>7. PICK places : OccurAt(places, ws, d, 3)
  BY <1>2, <1>5, FlatOccurs
<1> HIDE DEF count, Q
<1> DEFINE Read(k) == <<[at |-> places[k + 1], fields |-> SubSeq(fields, 1, k)]>>
           g == [k \in 0 .. n |-> Read(k)]
<1>8. g[0] = <<[at |-> 3, fields |-> <<>>]>>
  <2>1. SubSeq(fields, 1, 0) = <<>> /\ 0 \in 0 .. n /\ 0 + 1 = 1
    BY <1>1
  <2>2. places[1] = 3
    BY <1>7 DEF OccurAt
  <2> QED
    BY <2>1, <2>2
<1>9. ASSUME NEW k \in 1 .. n
      PROVE  /\ g[k - 1] # Error
             /\ DescriptionField(d, g[k - 1][1].at, g[k - 1][1].fields) = g[k]
  <2>1. k - 1 \in 0 .. n /\ k \in 0 .. n /\ (k - 1) + 1 = k
    BY <1>1
  <2>2. /\ g[k - 1] = <<[at |-> places[k], fields |-> SubSeq(fields, 1, k - 1)]>>
        /\ g[k] = <<[at |-> places[k + 1], fields |-> SubSeq(fields, 1, k)]>>
    <3>1. g[k - 1] = Read(k - 1) /\ g[k] = Read(k)
      BY <2>1
    <3> QED
      BY <2>1, <3>1
  <2>3. Append(SubSeq(fields, 1, k - 1), fields[k]) = SubSeq(fields, 1, k)
    BY SubSeqLast DEF n
  <2> HIDE DEF g
  <2>4. DescriptionField(d, places[k], SubSeq(fields, 1, k - 1)) = g[k]
    <3>1. /\ Occurs(WireDescriptor(fields[k]), d, places[k])
          /\ places[k + 1] = places[k] + Len(WireDescriptor(fields[k]))
          /\ fields[k] \in Descriptions
      BY <1>1, <1>2, <1>7 DEF OccurAt
    <3>2. DescriptionField(d, places[k], SubSeq(fields, 1, k - 1))
            = <<[at |-> places[k] + Len(WireDescriptor(fields[k])),
                 fields |-> Append(SubSeq(fields, 1, k - 1), fields[k])]>>
      BY <1>5, <3>1, DescriptionFieldThere, ZenonT(60)
    <3> QED
      BY <2>2, <2>3, <3>1, <3>2, Zenon
  <2>5. g[k - 1] # Error /\ g[k - 1][1].at = places[k]
        /\ g[k - 1][1].fields = SubSeq(fields, 1, k - 1)
    BY <2>2 DEF Error
  <2> QED
    BY <2>4, <2>5
<1>10. Q(g)
  <2>1. ASSUME NEW k \in 0 .. n
        PROVE  g[k] = IF k = 0 THEN <<[at |-> 3, fields |-> <<>>]>>
                      ELSE IF g[k - 1] = Error THEN Error
                      ELSE DescriptionField(d, g[k - 1][1].at, g[k - 1][1].fields)
    <3>1. k = 0 \/ k \in 1 .. n
      BY <1>1
    <3> HIDE DEF g
    <3> QED
      BY <1>8, <1>9, <3>1
  <2>2. g = [k \in 0 .. n |-> g[k]]
    OBVIOUS
  <2> HIDE DEF g
  <2> QED
    BY <1>6, <2>1, <2>2 DEF Q
<1> HIDE DEF g
<1> DEFINE f == CHOOSE read : Q(read)
<1>11. Q(f)
  <2> QED
    BY <1>10
<1> HIDE DEF f
<1>12. f[n] = g[n]
  <2>1. f[0] = g[0]
    BY <1>1, <1>6, <1>8, <1>11 DEF Q
  <2>2. ASSUME NEW k \in 1 .. n, f[k - 1] = g[k - 1] PROVE f[k] = g[k]
    <3>1. k \in 0 .. n /\ k # 0
      BY <1>1
    <3>2. f[k] = IF f[k - 1] = Error THEN Error
                 ELSE DescriptionField(d, f[k - 1][1].at, f[k - 1][1].fields)
      BY <1>6, <1>11, <3>1 DEF Q
    <3> QED
      BY <1>9, <2>2, <3>2
  <2> QED
    BY <1>1, <2>1, <2>2, Agree
<1>13. DecodeRowDescription(d) = IF Len(d) < 2 \/ f[count] = Error THEN Error
                          ELSE <<[kind |-> "rowDesc", fields |-> f[count][1].fields]>>
  BY Zenon DEF DecodeRowDescription, f, Q, count
<1>14. g[n] = <<[at |-> places[n + 1], fields |-> fields]>>
  <2>1. n \in 0 .. n
    BY <1>1
  <2>2. SubSeq(fields, 1, n) = fields
    BY DEF n
  <2> QED
    BY <2>1, <2>2 DEF g
<1>15. f[n] # Error /\ f[n][1].fields = fields
  BY <1>12, <1>14 DEF Error
<1>16. DecodeRowDescription(d) = <<[kind |-> "rowDesc", fields |-> fields]>>
  <2>1. ~(Len(d) < 2)
    BY <1>5 DEF Data
  <2> QED
    BY <1>6, <1>13, <1>15, <2>1
<1> QED
  BY <1>5, <1>16 DEF d

-----------------------------------------------------------------------------
(* Errors and notices: fields in the order of ErrorOrder, read from the    *)
(* end.                                                                    *)
LEMMA OrderOfFields ==
  /\ \A i \in 1 .. 6 : ErrorOrder[i] \in KeptFields /\ ErrorOrder[i] \in Octets \ {0}
  /\ \A i \in 1 .. 6 : \A j \in 1 .. 6 : ErrorOrder[i] = ErrorOrder[j] => i = j
  /\ \A f \in KeptFields : \E i \in 1 .. 6 : ErrorOrder[i] = f
  /\ 86 \notin KeptFields
<1> DEFINE o == ErrorOrder
<1>1. o[1] = 83 /\ o[2] = 67 /\ o[3] = 77 /\ o[4] = 68 /\ o[5] = 72 /\ o[6] = 80
  BY DEF ErrorOrder
<1>2. \A i \in 1 .. 6 : i = 1 \/ i = 2 \/ i = 3 \/ i = 4 \/ i = 5 \/ i = 6
  OBVIOUS
<1> HIDE DEF o
<1>3. \A i \in 1 .. 6 : o[i] \in KeptFields /\ o[i] \in Octets \ {0}
  BY <1>1, <1>2, SMT DEF KeptFields, Octets
<1>4. \A i \in 1 .. 6 : \A j \in 1 .. 6 : o[i] = o[j] => i = j
  BY <1>1, <1>2, SMT
<1>5. \A f \in KeptFields : \E i \in 1 .. 6 : o[i] = f
  BY <1>1, SMT DEF KeptFields
<1>6. 86 \notin KeptFields
  BY SMT DEF KeptFields
<1> QED
  BY <1>3, <1>4, <1>5, <1>6 DEF o

ErrorFieldBytes(fields) ==
  [i \in 1 .. 6 |-> WireErrorField(ErrorOrder[i], fields[ErrorOrder[i]])]

LEMMA ErrorFieldData ==
  ASSUME NEW fields \in [KeptFields -> Optional(Ascii)]
  PROVE  /\ ErrorFieldBytes(fields) \in Seq(Data) /\ Len(ErrorFieldBytes(fields)) = 6
         /\ \A i \in 1 .. 6 :
              LET f == ErrorOrder[i]
              IN  IF fields[f] = <<>> THEN ErrorFieldBytes(fields)[i] = <<>>
                  ELSE /\ ErrorFieldBytes(fields)[i] = <<f>> \o Zero(fields[f][1])
                       /\ <<f>> \in Data /\ Len(<<f>>) = 1 /\ fields[f] = <<fields[f][1]>>
                       /\ fields[f][1] \in CStrings /\ Zero(fields[f][1]) \in Data
                       /\ Len(Zero(fields[f][1])) = Len(fields[f][1]) + 1
<1>1. ASSUME NEW i \in 1 .. 6
      PROVE  LET f == ErrorOrder[i]
             IN  IF fields[f] = <<>> THEN WireErrorField(f, fields[f]) = <<>>
                 ELSE /\ WireErrorField(f, fields[f]) = <<f>> \o Zero(fields[f][1])
                      /\ <<f>> \in Data /\ Len(<<f>>) = 1 /\ fields[f] = <<fields[f][1]>>
                      /\ fields[f][1] \in CStrings /\ Zero(fields[f][1]) \in Data
                      /\ Len(Zero(fields[f][1])) = Len(fields[f][1]) + 1
  <2> DEFINE f == ErrorOrder[i]
  <2>1. f \in Octets /\ fields[f] \in Optional(Ascii)
    BY OrderOfFields
  <2> HIDE DEF f
  <2>2. <<f>> \in Data /\ Len(<<f>>) = 1
    BY <2>1 DEF Data
  <2>3. CASE fields[f] = <<>>
    BY <2>3 DEF WireErrorField, f
  <2>4. CASE fields[f] # <<>>
    <3>1. fields[f][1] \in Ascii /\ fields[f] = <<fields[f][1]>>
      BY <2>1, <2>4, Options
    <3>2. /\ fields[f][1] \in CStrings /\ Zero(fields[f][1]) \in Data
          /\ Len(Zero(fields[f][1])) = Len(fields[f][1]) + 1
      BY <3>1, AsciiStrings
    <3>3. WireErrorField(f, fields[f]) = <<f>> \o Zero(fields[f][1])
      BY <2>4 DEF WireErrorField
    <3> QED
      BY <2>2, <2>4, <3>1, <3>2, <3>3, Zenon DEF f
  <2> QED
    BY <2>3, <2>4
<1>2. ASSUME NEW i \in 1 .. 6 PROVE WireErrorField(ErrorOrder[i], fields[ErrorOrder[i]]) \in Data
  <2> DEFINE f == ErrorOrder[i]
  <2>1. CASE fields[f] = <<>>
    <3>1. <<>> \in Data
      BY DEF Data
    <3> QED
      BY <1>1, <2>1, <3>1
  <2>2. CASE fields[f] # <<>>
    <3>1. /\ WireErrorField(f, fields[f]) = <<f>> \o Zero(fields[f][1])
          /\ <<f>> \in Data /\ Zero(fields[f][1]) \in Data
      BY <1>1, <2>2
    <3> HIDE DEF f
    <3>2. WireErrorField(f, fields[f]) \in Data
      BY <3>1, Joined
    <3> QED
      BY <3>2 DEF f
  <2> QED
    BY <2>1, <2>2
<1> DEFINE ws == ErrorFieldBytes(fields)
<1>3. ws \in Seq(Data) /\ Len(ws) = 6
  BY <1>2 DEF ErrorFieldBytes
<1>4. \A i \in 1 .. 6 : ws[i] = WireErrorField(ErrorOrder[i], fields[ErrorOrder[i]])
  BY DEF ErrorFieldBytes
<1> HIDE DEF ws
<1>5. ASSUME NEW i \in 1 .. 6
      PROVE  LET f == ErrorOrder[i]
             IN  IF fields[f] = <<>> THEN ws[i] = <<>>
                 ELSE /\ ws[i] = <<f>> \o Zero(fields[f][1])
                      /\ <<f>> \in Data /\ Len(<<f>>) = 1 /\ fields[f] = <<fields[f][1]>>
                      /\ fields[f][1] \in CStrings /\ Zero(fields[f][1]) \in Data
                      /\ Len(Zero(fields[f][1])) = Len(fields[f][1]) + 1
  BY <1>1, <1>4
<1> QED
  BY <1>3, <1>5 DEF ws

LEMMA ErrorFieldsThere ==
  ASSUME NEW fields \in [KeptFields -> Optional(Ascii)]
  PROVE  /\ WireErrorFields(fields) \in Data
         /\ DecodeErrorFields(WireErrorFields(fields)) = <<fields>>
<1> DEFINE d == WireErrorFields(fields)
           ws == ErrorFieldBytes(fields)
           to == Len(d) + 1
           X == [KeptFields -> Seq(Data)]
           S == Seq(X)
           none == [f \in KeptFields |-> <<>>]
           Ends(x) == x > Len(d) \/ d[x] = 0
           Stops == {x \in 1 .. to : Ends(x) \/ EndOf(d, x + 1) = 0}
           base == [x \in 1 .. to |-> IF Ends(x) THEN <<none>> ELSE Error]
           next == [x \in 1 .. to |-> EndOf(d, x + 1) + 1]
           With(x, later) ==
             IF later = Error THEN Error
             ELSE IF d[x] \in KeptFields /\ later[1][d[x]] = <<>>
             THEN <<[later[1] EXCEPT ![d[x]] = <<StringAt(d, x + 1)>>]>>
             ELSE later
           step == [y \in (1 .. to) \X S |-> IF y[1] \in Stops THEN Error ELSE With(y[1], y[2])]
           Q(read) == read = [at \in 1 .. Len(d) + 1 |->
             IF at > Len(d) \/ d[at] = 0 THEN <<none>>
             ELSE LET end == EndOf(d, at + 1)
                      later == read[end + 1]
                  IN  IF end = 0 \/ later = Error THEN Error
                      ELSE IF d[at] \in KeptFields /\ later[1][d[at]] = <<>>
                      THEN <<[later[1] EXCEPT ![d[at]] = <<StringAt(d, at + 1)>>]>>
                      ELSE later]
<1>1. ws \in Seq(Data) /\ Len(ws) = 6 /\ Flat(ws) \in Data
  <2>1. ws \in Seq(Data) /\ Len(ws) = 6
    BY ErrorFieldData
  <2> HIDE DEF ws
  <2> QED
    BY <2>1, FlatData
<1>2. /\ d \in Data /\ Len(d) \in Nat /\ Len(d) = Len(Flat(ws)) + 4
      /\ d[1] = 86 /\ Occurs(Zero(<<69>>), d, 2) /\ Occurs(Flat(ws), d, 4)
      /\ d[Len(Flat(ws)) + 4] = 0 /\ <<69>> \in CStrings
  <2> DEFINE a == <<86>>
             b == Zero(<<69>>)
             c == Flat(ws)
             e == <<0>>
             ab == a \o b
             ce == c \o e
  <2>1. a \in Data /\ Len(a) = 1 /\ a[1] = 86 /\ e \in Data /\ Len(e) = 1 /\ e[1] = 0
    BY DEF Data, Octets
  <2>2. <<69>> \in CStrings /\ Len(<<69>>) = 1
    BY DEF CStrings, Octets
  <2>3. b \in Data /\ Len(b) = 2
    <3> DEFINE o == <<69>>
    <3>1. o \in CStrings /\ Len(o) = 1
      BY <2>2
    <3> HIDE DEF o
    <3>2. Zero(o) \in Data /\ Len(Zero(o)) = Len(o) + 1
      BY <3>1, ZeroEnds
    <3>3. Zero(o) \in Data /\ Len(Zero(o)) = 2
      BY <3>1, <3>2
    <3> QED
      BY <3>3 DEF o
  <2> HIDE DEF a, b, c, e
  <2>4. ab \in Data /\ Len(ab) = 3
    <3>1. ab \in Data /\ Len(ab) = Len(a) + Len(b)
      BY <2>1, <2>3, Joined
    <3> QED
      BY <2>1, <2>3, <3>1
  <2>5. ce \in Data /\ Len(ce) = Len(c) + 1 /\ Len(c) \in Nat
    <3>1. c \in Data
      BY <1>1 DEF c
    <3>2. ce \in Data /\ Len(ce) = Len(c) + Len(e) /\ Len(c) \in Nat
      BY <2>1, <3>1, Joined
    <3> QED
      BY <2>1, <3>2
  <2>6. d = ab \o ce
    BY Zenon DEF WireErrorFields, ErrorFieldBytes, a, b, c, e
  <2> HIDE DEF ab, ce, d
  <2>7. /\ d \in Data /\ Len(d) = Len(ab) + Len(ce)
        /\ Occurs(ab, d, 1) /\ Occurs(ce, d, 1 + Len(ab))
    BY <2>4, <2>5, <2>6, Parted
  <2>8. Occurs(a, d, 1) /\ Occurs(b, d, 1 + Len(a))
    BY <2>1, <2>3, <2>7, OccursBoth, ZenonT(60) DEF ab
  <2>9. Occurs(c, d, 4) /\ Occurs(e, d, 4 + Len(c))
    <3>1. Occurs(ce, d, 4)
      BY <2>4, <2>7
    <3> QED
      BY <1>1, <2>1, <2>7, <3>1, OccursBoth DEF ce, c
  <2>10. d[1] = 86
    BY <2>1, <2>8 DEF Occurs
  <2>11. d[Len(c) + 4] = 0
    BY <2>1, <2>5, <2>9 DEF Occurs
  <2> QED
    BY <2>1, <2>2, <2>4, <2>5, <2>7, <2>8, <2>9, <2>10, <2>11 DEF b, c
<1> HIDE DEF d, ws
<1>3. to \in Nat /\ 1 <= to + 1 /\ 1 \in Nat
  BY <1>2
<1>4. none \in X /\ <<none>> \in S /\ Error \in S
  <2>1. none \in X
    OBVIOUS
  <2> HIDE DEF X, none
  <2> QED
    BY <2>1 DEF Error
<1>5. ASSUME NEW x \in 1 .. to, x \notin Stops
      PROVE  x < next[x] /\ next[x] <= to /\ StringAt(d, x + 1) \in Data
  <2>1. EndOf(d, x + 1) # 0 /\ x + 1 \in Nat \ {0} /\ next[x] = EndOf(d, x + 1) + 1
    BY <1>5
  <2>2. EndOf(d, x + 1) \in x + 1 .. Len(d)
    BY <1>2, <2>1, EndThere
  <2>3. StringAt(d, x + 1) \in Data
    BY <1>2, <2>1, StringData
  <2> HIDE DEF next, Stops
  <2> QED
    BY <1>2, <2>1, <2>2, <2>3
<1>6. base \in [1 .. to -> S]
  <2> HIDE DEF S, none
  <2> QED
    BY <1>4
<1>7. next \in [1 .. to -> Int]
  <2>1. ASSUME NEW x \in 1 .. to PROVE EndOf(d, x + 1) + 1 \in Int
    <3>1. EndOf(d, x + 1) = 0 \/ EndOf(d, x + 1) \in x + 1 .. Len(d)
      BY <1>2, EndThere
    <3> QED
      BY <3>1
  <2> QED
    BY <2>1
<1>8. step \in [(1 .. to) \X S -> S]
  <2>1. ASSUME NEW x \in 1 .. to, NEW later \in S, x \notin Stops PROVE With(x, later) \in S
    <3>1. CASE later # Error /\ d[x] \in KeptFields
      <4>1. later[1] \in X
        <5>1. Len(later) \in Nat \ {0}
          BY <3>1, EmptySeq DEF Error
        <5> HIDE DEF X
        <5> QED
          BY <5>1
      <4>2. <<StringAt(d, x + 1)>> \in Seq(Data)
        BY <1>5, <2>1
      <4>3. [later[1] EXCEPT ![d[x]] = <<StringAt(d, x + 1)>>] \in X
        BY <3>1, <4>1, <4>2
      <4> HIDE DEF X
      <4>4. <<[later[1] EXCEPT ![d[x]] = <<StringAt(d, x + 1)>>]>> \in S
        BY <4>3
      <4> HIDE DEF S
      <4> QED
        BY <3>1, <4>4
    <3>2. CASE ~(later # Error /\ d[x] \in KeptFields)
      <4> HIDE DEF S
      <4> QED
        BY <1>4, <3>2
    <3> QED
      BY <3>1, <3>2
  <2> HIDE DEF S, With, Stops
  <2> QED
    BY <1>4, <2>1
<1>9. PICK g : IteratesBack(g, 1, to, S, Stops, base, next, step)
  <2> HIDE DEF to, S, Stops, base, next, step, Q
  <2> QED
    BY <1>3, <1>5, <1>6, <1>7, <1>8, IteratedBack
<1>10. ASSUME NEW x \in 1 .. to
       PROVE  g[x] = IF Ends(x) THEN <<none>>
                     ELSE IF EndOf(d, x + 1) = 0 THEN Error
                     ELSE With(x, g[EndOf(d, x + 1) + 1])
  <2>1. CASE x \in Stops
    <3>1. g[x] = base[x] /\ base[x] = IF Ends(x) THEN <<none>> ELSE Error
      <4> HIDE DEF Stops, S, next, step, none, Ends, to
      <4> QED
        BY <1>9, <2>1 DEF IteratesBack
    <3>2. Ends(x) \/ EndOf(d, x + 1) = 0
      BY <2>1
    <3> HIDE DEF base, Ends, none, With
    <3> QED
      BY <3>1, <3>2
  <2>2. CASE x \notin Stops
    <3>1. next[x] \in 1 .. to /\ next[x] = EndOf(d, x + 1) + 1
      <4>1. next[x] = EndOf(d, x + 1) + 1 /\ x < next[x] /\ next[x] <= to /\ next[x] \in Int
        BY <1>5, <1>7, <2>2
      <4> HIDE DEF next
      <4> QED
        BY <1>2, <4>1
    <3> HIDE DEF next, base, step, S, Ends, none
    <3>2. g \in [1 .. to -> S] /\ g[x] = step[<<x, g[next[x]]>>]
      <4> HIDE DEF to, Stops
      <4> QED
        BY <1>9, <2>2 DEF IteratesBack
    <3>3. <<x, g[next[x]]>> \in (1 .. to) \X S
      BY <3>1, <3>2
    <3>4. step[<<x, g[next[x]]>>] = With(x, g[next[x]])
      <4> HIDE DEF Stops, With
      <4> QED
        BY <2>2, <3>3 DEF step
    <3>5. ~Ends(x) /\ EndOf(d, x + 1) # 0
      BY <2>2
    <3> HIDE DEF With, Stops
    <3> QED
      BY <3>1, <3>2, <3>4, <3>5
  <2> QED
    BY <2>1, <2>2
<1>11. Q(g)
  <2>1. g = [x \in 1 .. to |-> g[x]]
    BY <1>9 DEF IteratesBack
  <2> HIDE DEF none
  <2>2. ASSUME NEW x \in 1 .. to
        PROVE  g[x] = IF x > Len(d) \/ d[x] = 0 THEN <<none>>
                      ELSE LET end == EndOf(d, x + 1)
                               later == g[end + 1]
                           IN  IF end = 0 \/ later = Error THEN Error
                               ELSE IF d[x] \in KeptFields /\ later[1][d[x]] = <<>>
                               THEN <<[later[1] EXCEPT ![d[x]] = <<StringAt(d, x + 1)>>]>>
                               ELSE later
    BY <1>10, Zenon
  <2> QED
    BY <2>1, <2>2, Zenon
<1> DEFINE f == CHOOSE read : Q(read)
<1>12. Q(f)
  <2> HIDE DEF Q
  <2> QED
    BY <1>11
<1>13. DecodeErrorFields(d) = f[1]
  BY Zenon DEF DecodeErrorFields
<1> HIDE DEF f, none, Ends, With, Stops, base, next, step, S, X
<1>14. ASSUME NEW x \in 1 .. to
       PROVE  f[x] = IF Ends(x) THEN <<none>>
                     ELSE IF EndOf(d, x + 1) = 0 THEN Error
                     ELSE With(x, f[EndOf(d, x + 1) + 1])
  <2>1. f[x] = IF x > Len(d) \/ d[x] = 0 THEN <<none>>
               ELSE LET end == EndOf(d, x + 1)
                        later == f[end + 1]
                    IN  IF end = 0 \/ later = Error THEN Error
                        ELSE IF d[x] \in KeptFields /\ later[1][d[x]] = <<>>
                        THEN <<[later[1] EXCEPT ![d[x]] = <<StringAt(d, x + 1)>>]>>
                        ELSE later
    BY <1>12, Zenon
  <2> QED
    BY <2>1, Zenon DEF Ends, With
<1> HIDE DEF Q
<1>15. PICK places : OccurAt(places, ws, d, 4)
  BY <1>1, <1>2, FlatOccurs
<1>16. /\ places[1] = 4 /\ places[7] = Len(Flat(ws)) + 4
       /\ \A i \in 1 .. 7 : places[i] \in 1 .. to
       /\ \A i \in 1 .. 6 : Occurs(ws[i], d, places[i]) /\ places[i + 1] = places[i] + Len(ws[i])
  <2>1. /\ places \in [1 .. 7 -> Nat \ {0}]
        /\ places[1] = 4 /\ places[7] = 4 + Len(Flat(ws))
        /\ \A i \in 1 .. 6 : Occurs(ws[i], d, places[i]) /\ places[i + 1] = places[i] + Len(ws[i])
        /\ \A i \in 1 .. 7 : 4 <= places[i] /\ places[i] <= Len(d) + 1
    <3>1. Len(ws) + 1 = 7
      BY <1>1
    <3> QED
      BY <1>1, <1>15, <3>1 DEF OccurAt
  <2>2. Len(Flat(ws)) \in Nat
    BY <1>1 DEF Data
  <2>3. ASSUME NEW i \in 1 .. 7 PROVE places[i] \in 1 .. to
    <3>1. places[i] \in Nat \ {0} /\ places[i] <= Len(d) + 1
      BY <2>1
    <3> QED
      BY <1>2, <3>1
  <2> QED
    BY <2>1, <2>2, <2>3
<1> DEFINE Kept(i) == [c \in KeptFields |->
                         IF \E j \in i .. 6 : ErrorOrder[j] = c THEN fields[c] ELSE <<>>]
           T == {i \in 1 .. 7 : f[places[i]] = <<Kept(i)>>}
<1>17. f[places[7]] = <<Kept(7)>>
  <2>1. Kept(7) = none
    BY DEF none
  <2>2. places[7] \in 1 .. to
    BY <1>16
  <2>3. Ends(places[7])
    BY <1>2, <1>16 DEF Ends
  <2> HIDE DEF Kept
  <2> QED
    BY <1>14, <2>1, <2>2, <2>3
<1>18. ASSUME NEW i \in 1 .. 6, f[places[i + 1]] = <<Kept(i + 1)>>
       PROVE  f[places[i]] = <<Kept(i)>>
  <2> DEFINE c == ErrorOrder[i]
             v == fields[c]
  <2>1. /\ Occurs(ws[i], d, places[i]) /\ places[i + 1] = places[i] + Len(ws[i])
        /\ places[i] \in 1 .. to /\ places[i + 1] \in 1 .. to
    <3>1. i + 1 \in 1 .. 7 /\ i \in 1 .. 7
      OBVIOUS
    <3> HIDE DEF to
    <3> QED
      BY <1>16, <3>1
  <2>2. c \in KeptFields /\ c \in Octets \ {0}
    BY OrderOfFields
  <2>5. Kept(i)[c] = v /\ Kept(i + 1)[c] = <<>>
    <3>1. i \in i .. 6
      OBVIOUS
    <3>2. Kept(i)[c] = v
      BY <2>2, <3>1
    <3>3. ~(\E j \in i + 1 .. 6 : ErrorOrder[j] = c)
      BY OrderOfFields
    <3> QED
      BY <2>2, <3>2, <3>3
  <2>6. ASSUME NEW x \in KeptFields, x # c PROVE Kept(i)[x] = Kept(i + 1)[x]
    <3>1. (\E j \in i .. 6 : ErrorOrder[j] = x) <=> (\E j \in i + 1 .. 6 : ErrorOrder[j] = x)
      BY <2>6
    <3> QED
      BY <3>1
  <2>7. /\ Kept(i) = [x \in KeptFields |-> Kept(i)[x]]
        /\ Kept(i + 1) = [x \in KeptFields |-> Kept(i + 1)[x]]
    OBVIOUS
  <2> HIDE DEF Kept
  <2>3. CASE v = <<>>
    <3>1. ws[i] = <<>>
      BY <2>3, ErrorFieldData DEF ws
    <3>2. places[i + 1] = places[i]
      BY <2>1, <3>1
    <3>3. Kept(i) = Kept(i + 1)
      BY <2>3, <2>5, <2>6, <2>7
    <3> QED
      BY <1>18, <3>2, <3>3
  <2>4. CASE v # <<>>
    <3> DEFINE s == v[1]
               p == places[i]
    <3>1. /\ ws[i] = <<c>> \o Zero(s) /\ <<c>> \in Data /\ Len(<<c>>) = 1 /\ v = <<s>>
          /\ s \in CStrings /\ Zero(s) \in Data /\ Len(Zero(s)) = Len(s) + 1
      BY <2>4, ErrorFieldData DEF ws
    <3>2. p \in 1 .. to /\ Len(s) \in Nat
      BY <2>1, <3>1 DEF CStrings
    <3> HIDE DEF s, p, v, c
    <3>3. /\ Occurs(<<c>>, d, p) /\ Occurs(Zero(s), d, p + 1)
          /\ Len(ws[i]) = 1 + (Len(s) + 1)
      <4> DEFINE o == <<c>>
      <4>1. o \in Data /\ Len(o) = 1 /\ Occurs(o \o Zero(s), d, p)
        BY <2>1, <3>1 DEF p
      <4> HIDE DEF o
      <4>2. Occurs(o, d, p) /\ Occurs(Zero(s), d, p + Len(o))
        BY <1>2, <3>1, <4>1, OccursBoth
      <4>3. Len(o \o Zero(s)) = Len(o) + Len(Zero(s))
        BY <3>1, <4>1, Joined
      <4>4. Len(o \o Zero(s)) = 1 + (Len(s) + 1)
        BY <3>1, <4>1, <4>3
      <4> QED
        BY <3>1, <4>1, <4>2, <4>4 DEF o
    <3>4. p \in Nat \ {0} /\ p + Len(<<c>>) <= Len(d) + 1 /\ d[p] = c
      <4>1. 1 \in 1 .. Len(<<c>>) /\ <<c>>[1] = c /\ p + 1 - 1 = p
        BY <3>1, <3>2
      <4> QED
        BY <3>3, <4>1 DEF Occurs
    <3>5. ~Ends(p)
      BY <1>2, <2>2, <3>1, <3>4 DEF Ends
    <3>6. EndOf(d, p + 1) = p + 1 + Len(s) /\ StringAt(d, p + 1) = s
      BY <1>2, <3>1, <3>3, StringThere
    <3>7. EndOf(d, p + 1) + 1 = places[i + 1] /\ EndOf(d, p + 1) # 0
      <4> DEFINE l == Len(s)
                 w == Len(ws[i])
      <4>1. l \in Nat /\ w = 1 + (l + 1) /\ EndOf(d, p + 1) = p + 1 + l
        BY <3>2, <3>3, <3>6
      <4>2. places[i + 1] = p + w
        BY <2>1 DEF p
      <4> HIDE DEF l, w
      <4> QED
        BY <3>4, <4>1, <4>2
    <3>8. f[p] = With(p, <<Kept(i + 1)>>)
      BY <1>14, <1>18, <3>2, <3>5, <3>7
    <3>9. With(p, <<Kept(i + 1)>>) = <<[Kept(i + 1) EXCEPT ![c] = <<s>>]>>
      BY <2>2, <2>5, <3>4, <3>6 DEF With, Error
    <3>10. [Kept(i + 1) EXCEPT ![c] = <<s>>] = Kept(i)
      BY <2>2, <2>5, <2>6, <2>7, <3>1
    <3> QED
      BY <3>8, <3>9, <3>10 DEF p
  <2> HIDE DEF v
  <2> QED
    BY <2>3, <2>4
<1>19. f[4] = <<Kept(1)>>
  <2> HIDE DEF Kept
  <2>1. ASSUME NEW i \in 1 .. 7, \A j \in 1 .. 7 : i < j => j \in T PROVE i \in T
    <3>1. CASE i = 7
      BY <1>17, <3>1
    <3>2. CASE i # 7
      <4>1. i \in 1 .. 6 /\ i + 1 \in 1 .. 7 /\ i < i + 1
        BY <3>2
      <4>2. f[places[i + 1]] = <<Kept(i + 1)>>
        BY <2>1, <4>1
      <4> QED
        BY <1>18, <4>1, <4>2
    <3> QED
      BY <3>1, <3>2
  <2>2. 1 .. 7 \subseteq T
    <3>1. 7 \in Nat
      OBVIOUS
    <3> HIDE DEF T
    <3> QED
      BY <2>1, <3>1, Downwards
  <2>3. f[places[1]] = <<Kept(1)>>
    BY <2>2
  <2> QED
    BY <1>16, <2>3
<1>20. Kept(1) = fields
  <2>1. ASSUME NEW x \in KeptFields PROVE Kept(1)[x] = fields[x]
    BY OrderOfFields
  <2> QED
    BY <2>1
<1>21. f[1] = <<fields>>
  <2> DEFINE o == <<69>>
  <2>1. Len(o) = 1
    OBVIOUS
  <2> HIDE DEF o
  <2>2. EndOf(d, 2) = 2 + Len(o)
    <3>1. o \in CStrings /\ Occurs(Zero(o), d, 2) /\ d \in Data
      BY <1>2 DEF o
    <3> QED
      BY <3>1, StringThere
  <2>3. EndOf(d, 1 + 1) = 3 /\ 3 + 1 = 4
    BY <2>1, <2>2
  <2>4. 1 \in 1 .. to /\ ~Ends(1)
    <3>1. Len(Flat(ws)) \in Nat
      BY <1>1 DEF Data
    <3> QED
      BY <1>2, <3>1 DEF Ends
  <2>5. f[1] = With(1, <<fields>>)
    <3> HIDE DEF Kept
    <3> QED
      BY <1>14, <1>19, <1>20, <2>3, <2>4
  <2>6. d[1] \notin KeptFields
    BY <1>2, OrderOfFields
  <2> QED
    BY <2>5, <2>6 DEF With, Error
<1> QED
  BY <1>2, <1>13, <1>21 DEF d

-----------------------------------------------------------------------------
(* The messages without a loop.                                            *)
LEMMA KeyDataThere ==
  ASSUME NEW p \in Int32, NEW s \in Int32
  PROVE  /\ Byte4(p) \o Byte4(s) \in Data
         /\ DecodeBackendKeyData(Byte4(p) \o Byte4(s))
              = <<[kind |-> "keyData", process |-> p, secret |-> s]>>
<1> DEFINE a == Byte4(p)
           b == Byte4(s)
           d == a \o b
<1>1. a \in Data /\ Len(a) = 4 /\ b \in Data /\ Len(b) = 4
  BY Four
<1> HIDE DEF a, b
<1>2. d \in Data /\ Len(d) = Len(a) + Len(b)
  BY <1>1, Joined
<1>3. Occurs(a \o b, d, 1)
  BY <1>2, Whole
<1>4. Occurs(a, d, 1) /\ Occurs(b, d, 1 + Len(a))
  BY <1>1, <1>2, <1>3, OccursBoth
<1> HIDE DEF d
<1>5. Be32(d, 1) = p /\ Be32(d, 5) = s
  BY <1>1, <1>2, <1>4, Be32At DEF a, b
<1>6. ~(Len(d) < 8)
  BY <1>1, <1>2
<1>7. DecodeBackendKeyData(d) = <<[kind |-> "keyData", process |-> p, secret |-> s]>>
  BY <1>5, <1>6 DEF DecodeBackendKeyData
<1> QED
  BY <1>2, <1>7 DEF a, b, d

LEMMA CompleteThere ==
  ASSUME NEW tag \in Ascii
  PROVE  /\ Zero(tag) \in Data
         /\ DecodeCommandComplete(Zero(tag)) = <<[kind |-> "complete", tag |-> tag]>>
<1> DEFINE d == Zero(tag)
<1>1. tag \in CStrings /\ d \in Data /\ Len(tag) \in Nat
  BY AsciiStrings
<1>2. Occurs(d, d, 1)
  BY <1>1, Whole
<1>3. EndOf(d, 1) = 1 + Len(tag) /\ StringAt(d, 1) = tag
  BY <1>1, <1>2, StringThere
<1> HIDE DEF d
<1>4. EndOf(d, 1) # 0
  BY <1>1, <1>3
<1>5. DecodeCommandComplete(d) = <<[kind |-> "complete", tag |-> tag]>>
  BY <1>3, <1>4 DEF DecodeCommandComplete
<1> QED
  BY <1>1, <1>5 DEF d

LEMMA StatusThere ==
  ASSUME NEW name \in Ascii, NEW value \in Ascii
  PROVE  /\ Zero(name) \o Zero(value) \in Data
         /\ DecodeParameterStatus(Zero(name) \o Zero(value))
              = <<[kind |-> "paramStatus", name |-> name, value |-> value]>>
<1> DEFINE a == Zero(name)
           b == Zero(value)
           d == a \o b
           v == 1 + Len(name) + 1
<1>1. /\ a \in Data /\ Len(a) = Len(name) + 1 /\ b \in Data /\ name \in CStrings
      /\ value \in CStrings /\ Len(name) \in Nat /\ Len(value) \in Nat
  BY AsciiStrings
<1> HIDE DEF a, b
<1>2. d \in Data /\ Len(d) \in Nat
  BY <1>1, Joined DEF Data
<1>3. Occurs(a \o b, d, 1)
  BY <1>2, Whole
<1>4. Occurs(a, d, 1) /\ Occurs(b, d, 1 + Len(a))
  BY <1>1, <1>2, <1>3, OccursBoth
<1> HIDE DEF d
<1>5. EndOf(d, 1) = 1 + Len(name) /\ StringAt(d, 1) = name
  BY <1>1, <1>2, <1>4, StringThere DEF a
<1>6. Occurs(b, d, v) /\ v = EndOf(d, 1) + 1 /\ v \in Nat /\ v # 1
  <2>1. v = 1 + Len(a) /\ v \in Nat /\ v # 1
    BY <1>1
  <2> HIDE DEF v
  <2> QED
    BY <1>1, <1>4, <1>5, <2>1 DEF v
<1> HIDE DEF v
<1>7. EndOf(d, v) = v + Len(value) /\ StringAt(d, v) = value /\ v + Len(value) <= Len(d)
  BY <1>1, <1>2, <1>6, StringThere DEF b
<1>8. ~(v > Len(d)) /\ EndOf(d, v) # 0
  <2> DEFINE l == Len(value)
             n == Len(d)
  <2>1. l \in Nat /\ n \in Nat /\ v \in Nat /\ v # 1 /\ v + l <= n /\ v = EndOf(d, 1) + 1
    BY <1>1, <1>2, <1>6, <1>7
  <2>2. EndOf(d, v) = v + l /\ EndOf(d, 1) \in Nat
    BY <1>1, <1>5, <1>7
  <2> HIDE DEF l, n
  <2>3. ~(v > n) /\ v + l # 0
    BY <2>1, <2>2
  <2> QED
    BY <2>2, <2>3 DEF n
<1>9. DecodeParameterStatus(d) = <<[kind |-> "paramStatus", name |-> name, value |-> value]>>
  BY <1>5, <1>6, <1>7, <1>8 DEF DecodeParameterStatus
<1> QED
  BY <1>2, <1>9 DEF a, b, d

LEMMA ReadyThere ==
  ASSUME NEW status \in Octets
  PROVE  /\ <<status>> \in Data
         /\ DecodeReadyForQuery(<<status>>) = <<[kind |-> "ready", status |-> status]>>
BY DEF Data, DecodeReadyForQuery, Error

-----------------------------------------------------------------------------
(* Authentication.                                                         *)
LEMMA AuthHead ==
  ASSUME NEW type \in Int32, NEW rest \in Data
  PROVE  LET d == Byte4(type) \o rest
         IN  /\ d \in Data /\ Len(d) = 4 + Len(rest) /\ Len(rest) \in Nat
             /\ Be32(d, 1) = type /\ Occurs(rest, d, 5) /\ SubSeq(d, 5, Len(d)) = rest
<1> DEFINE a == Byte4(type)
           d == a \o rest
<1>1. a \in Data /\ Len(a) = 4
  BY Four
<1> HIDE DEF a
<1>2. d \in Data /\ Len(d) = 4 + Len(rest) /\ Len(rest) \in Nat
  <2>1. d \in Data /\ Len(d) = Len(a) + Len(rest) /\ Len(rest) \in Nat
    BY <1>1, Joined
  <2> QED
    BY <1>1, <2>1
<1>3. Occurs(a \o rest, d, 1)
  BY <1>2, Whole
<1>4. Occurs(a, d, 1) /\ Occurs(rest, d, 1 + Len(a))
  BY <1>1, <1>2, <1>3, OccursBoth
<1> HIDE DEF d
<1>5. Be32(d, 1) = type
  BY <1>2, <1>4, Be32At DEF a
<1>6. Occurs(rest, d, 5) /\ 5 + Len(rest) - 1 = Len(d)
  BY <1>1, <1>2, <1>4
<1>7. SubSeq(d, 5, Len(d)) = rest
  BY <1>2, <1>6, Cut
<1> QED
  BY <1>2, <1>5, <1>6, <1>7 DEF a, d

LEMMA MechanismsThere ==
  ASSUME NEW names \in Seq(Ascii \ {<<>>}), NEW type \in Int32
  PROVE  LET rest == Flat([i \in DOMAIN names |-> Zero(names[i])]) \o <<0>>
         IN  rest \in Data /\ StringsFrom(Byte4(type) \o rest, 5) = names
<1> DEFINE n == Len(names)
           ws == [i \in DOMAIN names |-> Zero(names[i])]
           c == Flat(ws)
           e == <<0>>
           rest == c \o e
           d == Byte4(type) \o rest
<1>1. n \in Nat /\ \A i \in 1 .. n : names[i] \in Ascii /\ names[i] # <<>>
  OBVIOUS
<1>2. ASSUME NEW i \in 1 .. n
      PROVE  /\ Zero(names[i]) \in Data /\ Len(Zero(names[i])) = Len(names[i]) + 1
             /\ names[i] \in CStrings \ {<<>>}
  BY <1>1, AsciiStrings
<1>3. ws \in Seq(Data) /\ Len(ws) = n /\ \A i \in 1 .. n : ws[i] = Zero(names[i])
  BY <1>2
<1>4. e \in Data /\ Len(e) = 1 /\ e[1] = 0
  BY DEF Data, Octets
<1>5. names \in Seq(CStrings \ {<<>>})
  BY <1>2
<1> HIDE DEF ws, e, n
<1>6. c \in Data
  BY <1>3, FlatData
<1> HIDE DEF c
<1>7. rest \in Data /\ Len(rest) = Len(c) + 1 /\ Len(c) \in Nat
  <2>1. rest \in Data /\ Len(rest) = Len(c) + Len(e) /\ Len(c) \in Nat
    BY <1>4, <1>6, Joined
  <2> QED
    BY <1>4, <2>1
<1>8. /\ d \in Data /\ Len(d) = 4 + Len(rest) /\ Occurs(c \o e, d, 5)
  <2> HIDE DEF rest
  <2> QED
    BY <1>7, AuthHead DEF rest
<1> HIDE DEF d
<1>9. Occurs(c, d, 5) /\ Occurs(e, d, 5 + Len(c))
  BY <1>4, <1>6, <1>8, OccursBoth
<1>10. d[5 + Len(c)] = 0
  BY <1>4, <1>7, <1>9 DEF Occurs
<1>11. PICK places : OccurAt(places, ws, d, 5)
  BY <1>3, <1>8, <1>9, FlatOccurs DEF c
<1>12. /\ places \in [1 .. n + 1 -> Nat \ {0}] /\ places[1] = 5 /\ places[n + 1] = 5 + Len(c)
       /\ \A k \in 1 .. n :
            Occurs(Zero(names[k]), d, places[k]) /\ places[k + 1] = places[k] + Len(ws[k])
       /\ \A k \in 1 .. n + 1 : 5 <= places[k] /\ places[k] <= Len(d) + 1
  BY <1>3, <1>11 DEF OccurAt, c
<1>13. ASSUME NEW k \in 1 .. n PROVE places[k + 1] = places[k] + Len(names[k]) + 1
  <2>1. places[k] \in Nat /\ Len(names[k]) \in Nat /\ Len(ws[k]) = Len(names[k]) + 1
    <3>1. k \in 1 .. n + 1
      BY <1>1
    <3>2. places[k] \in Nat
      BY <1>12, <3>1
    <3>3. Len(names[k]) \in Nat
      BY <1>2 DEF CStrings
    <3> QED
      BY <1>2, <1>3, <3>2, <3>3
  <2> DEFINE l == Len(names[k])
             w == Len(ws[k])
  <2>2. l \in Nat /\ w = l + 1 /\ places[k + 1] = places[k] + w
    BY <1>12, <2>1
  <2> HIDE DEF l, w
  <2>3. places[k + 1] = places[k] + l + 1
    BY <2>1, <2>2
  <2> QED
    BY <2>3 DEF l
<1>14. StringsFrom(d, places[1]) = names
  <2>1. d[places[n + 1]] = 0
    BY <1>10, <1>12
  <2> QED
    BY <1>5, <1>8, <1>12, <1>13, <2>1, StringsThere DEF n
<1> QED
  BY <1>7, <1>12, <1>14 DEF d, c, ws, e

LEMMA TypesOfAuth ==
  /\ AuthTypes["ok"] = 0 /\ AuthTypes["cleartext"] = 3 /\ AuthTypes["md5"] = 5
  /\ AuthTypes["sasl"] = 10 /\ AuthTypes["saslContinue"] = 11 /\ AuthTypes["saslFinal"] = 12
  /\ \A t \in {0, 3, 5, 10, 11, 12} : t \in Int32
<1>1. \A t \in {0, 3, 5, 10, 11, 12} : t \in Int32
  BY SMT DEF Int32
<1> QED
  BY <1>1 DEF AuthTypes

LEMMA DecodeAuthCases ==
  ASSUME NEW d, ~(Len(d) < 4)
  PROVE  /\ Be32(d, 1) = 5 /\ ~(Len(d) < 8) =>
              DecodeAuthentication(d)
                = <<[kind |-> "auth", method |-> "md5", data |-> SubSeq(d, 5, 8)]>>
         /\ Be32(d, 1) = 11 =>
              DecodeAuthentication(d)
                = <<[kind |-> "auth", method |-> "saslContinue", data |-> SubSeq(d, 5, Len(d))]>>
         /\ Be32(d, 1) = 12 =>
              DecodeAuthentication(d)
                = <<[kind |-> "auth", method |-> "saslFinal", data |-> SubSeq(d, 5, Len(d))]>>
<1> DEFINE t == Be32(d, 1)
           rest == SubSeq(d, 5, Len(d))
           four == SubSeq(d, 5, 8)
           names == StringsFrom(d, 5)
           Auth(method, value) == <<[kind |-> "auth", method |-> method, data |-> value]>>
<1>1. DecodeAuthentication(d)
        = CASE Len(d) < 4 -> Error
            [] t = 0 -> Auth("ok", <<>>)
            [] t = 3 -> Auth("cleartext", <<>>)
            [] t = 5 -> IF Len(d) < 8 THEN Error ELSE Auth("md5", four)
            [] t = 10 -> Auth("sasl", names)
            [] t = 11 -> Auth("saslContinue", rest)
            [] t = 12 -> Auth("saslFinal", rest)
            [] OTHER -> Error
  BY DEF DecodeAuthentication, AuthTypes
<1> HIDE DEF t, rest, four, names
<1>2. t = 5 /\ ~(Len(d) < 8) => DecodeAuthentication(d) = Auth("md5", four)
  BY <1>1
<1>3. t = 11 => DecodeAuthentication(d) = Auth("saslContinue", rest)
  BY <1>1
<1>4. t = 12 => DecodeAuthentication(d) = Auth("saslFinal", rest)
  BY <1>1
<1> QED
  BY <1>2, <1>3, <1>4 DEF t, rest, four

AuthBytes(method, data) ==
  Byte4(AuthTypes[method]) \o
  (IF method = "sasl" THEN Flat([i \in DOMAIN data |-> Zero(data[i])]) \o <<0>> ELSE data)

LEMMA AuthThere ==
  ASSUME NEW method, NEW data,
         \/ method \in {"ok", "cleartext"} /\ data = <<>>
         \/ method = "md5" /\ data \in Data /\ Len(data) = 4
         \/ method = "sasl" /\ data \in Seq(Ascii \ {<<>>})
         \/ method \in {"saslContinue", "saslFinal"} /\ data \in Data
  PROVE  /\ AuthBytes(method, data) \in Data
         /\ DecodeAuthentication(AuthBytes(method, data))
              = <<[kind |-> "auth", method |-> method, data |-> data]>>
<1> DEFINE type == AuthTypes[method]
           rest == IF method = "sasl" THEN Flat([i \in DOMAIN data |-> Zero(data[i])]) \o <<0>>
                   ELSE data
           d == Byte4(type) \o rest
<1>1. type \in Int32
  BY TypesOfAuth
<1>2. /\ rest \in Data
      /\ method = "sasl" => StringsFrom(d, 5) = data
      /\ method # "sasl" => rest = data
  <2>1. CASE method = "sasl"
    <3>1. data \in Seq(Ascii \ {<<>>})
      BY <2>1
    <3> QED
      BY <1>1, <2>1, <3>1, MechanismsThere
  <2>2. CASE method # "sasl"
    <3>1. <<>> \in Data
      BY DEF Data
    <3> QED
      BY <2>2, <3>1
  <2> QED
    BY <2>1, <2>2
<1>3. AuthBytes(method, data) = d
  BY Zenon DEF AuthBytes
<1> HIDE DEF type, rest
<1>4. /\ d \in Data /\ Len(d) = 4 + Len(rest) /\ Len(rest) \in Nat
      /\ Be32(d, 1) = type /\ SubSeq(d, 5, Len(d)) = rest
  BY <1>1, <1>2, AuthHead
<1> HIDE DEF d
<1>5. ~(Len(d) < 4)
  BY <1>4
<1>6. CASE method = "ok"
  <2>1. type = 0 /\ data = <<>>
    BY <1>6, TypesOfAuth DEF type
  <2> QED
    BY <1>3, <1>4, <1>5, <1>6, <2>1 DEF DecodeAuthentication, AuthTypes
<1>7. CASE method = "cleartext"
  <2>1. type = 3 /\ data = <<>>
    BY <1>7, TypesOfAuth DEF type
  <2> QED
    BY <1>3, <1>4, <1>5, <1>7, <2>1 DEF DecodeAuthentication, AuthTypes
<1>8. CASE method = "md5"
  <2>1. type = 5 /\ Len(data) = 4
    BY <1>8, TypesOfAuth DEF type
  <2>2. Len(d) = 8 /\ SubSeq(d, 5, 8) = data
    <3>1. rest = data /\ Len(rest) = 4
      BY <1>2, <1>8, <2>1
    <3>2. Len(d) = 8
      BY <1>4, <3>1
    <3> QED
      BY <1>4, <3>1, <3>2
  <2>3. Be32(d, 1) = 5 /\ ~(Len(d) < 8)
    <3>1. Be32(d, 1) = 5
      BY <1>4, <2>1
    <3>2. ~(Len(d) < 8)
      BY <2>2
    <3> QED
      BY <3>1, <3>2
  <2>4. DecodeAuthentication(d) = <<[kind |-> "auth", method |-> "md5", data |-> SubSeq(d, 5, 8)]>>
    BY <1>5, <2>3, DecodeAuthCases
  <2> QED
    BY <1>3, <1>4, <1>8, <2>2, <2>4
<1>9. CASE method = "sasl"
  <2>1. type = 10
    BY <1>9, TypesOfAuth DEF type
  <2>2. StringsFrom(d, 5) = data
    BY <1>2, <1>9
  <2> QED
    BY <1>3, <1>4, <1>5, <1>9, <2>1, <2>2 DEF DecodeAuthentication, AuthTypes
<1>10. CASE method = "saslContinue"
  <2>1. type = 11 /\ rest = data
    BY <1>2, <1>10, TypesOfAuth DEF type
  <2>2. Be32(d, 1) = 11 /\ SubSeq(d, 5, Len(d)) = data
    BY <1>4, <2>1
  <2>3. DecodeAuthentication(d)
          = <<[kind |-> "auth", method |-> "saslContinue", data |-> SubSeq(d, 5, Len(d))]>>
    BY <1>5, <2>2, DecodeAuthCases
  <2> QED
    BY <1>3, <1>4, <1>10, <2>2, <2>3
<1>11. CASE method = "saslFinal"
  <2>1. type = 12 /\ rest = data
    BY <1>2, <1>11, TypesOfAuth DEF type
  <2>2. Be32(d, 1) = 12 /\ SubSeq(d, 5, Len(d)) = data
    BY <1>4, <2>1
  <2>3. DecodeAuthentication(d)
          = <<[kind |-> "auth", method |-> "saslFinal", data |-> SubSeq(d, 5, Len(d))]>>
    BY <1>5, <2>2, DecodeAuthCases
  <2> QED
    BY <1>3, <1>4, <1>11, <2>2, <2>3
<1> QED
  BY <1>6, <1>7, <1>8, <1>9, <1>10, <1>11

-----------------------------------------------------------------------------
(* Bodies and tags.                                                        *)
LEMMA RowData ==
  ASSUME NEW fields \in Seq(Optional(Data)), Len(fields) \in Int16
  PROVE  RowBytes(fields) \in Data
<1> DEFINE n == Len(fields)
           ws == [i \in DOMAIN fields |-> WireField(fields[i])]
<1>1. Byte2(n) \in Data
  BY Two
<1>2. ws \in Seq(Data)
  <2>1. ASSUME NEW k \in 1 .. n PROVE WireField(fields[k]) \in Data
    <3>1. fields[k] \in Optional(Data)
      OBVIOUS
    <3> QED
      BY <3>1, WireFieldIsData
  <2> QED
    BY <2>1
<1> HIDE DEF ws, n
<1>3. Flat(ws) \in Data
  BY <1>2, FlatData
<1>4. Byte2(n) \o Flat(ws) \in Data
  BY <1>1, <1>3, Joined
<1> QED
  BY <1>4 DEF RowBytes, n, ws

LEMMA Limit ==
  ASSUME NEW n \in Nat, n + 4 <= MaxMessageLength
  PROVE  n \in Int32 /\ n + 4 \in Int32
BY SMT DEF MaxMessageLength, Int32

LEMMA TagsOfKinds ==
  /\ Tags["keyData"] = 75 /\ Tags["complete"] = 67 /\ Tags["dataRow"] = 68
  /\ Tags["error"] = 69 /\ Tags["notice"] = 78 /\ Tags["paramStatus"] = 83
  /\ Tags["ready"] = 90 /\ Tags["rowDesc"] = 84 /\ Tags.authentication = 82
BY DEF Tags

LEMMA DecodeBodyCases ==
  ASSUME NEW d
  PROVE  /\ DecodeBody(82, d) = DecodeAuthentication(d)
         /\ DecodeBody(75, d) = DecodeBackendKeyData(d)
         /\ DecodeBody(67, d) = DecodeCommandComplete(d)
         /\ DecodeBody(68, d) = DecodeDataRow(d)
         /\ DecodeBody(69, d) = DecodeErrorResponse(d)
         /\ DecodeBody(78, d) = DecodeNoticeResponse(d)
         /\ DecodeBody(83, d) = DecodeParameterStatus(d)
         /\ DecodeBody(90, d) = DecodeReadyForQuery(d)
         /\ DecodeBody(84, d) = DecodeRowDescription(d)
         /\ DecodeBody(73, d) = Error
BY DEF DecodeBody, Tags

LEMMA OneElement ==
  ASSUME NEW x, NEW y, NEW z, x = <<y>>
  PROVE  [i \in DOMAIN x |-> z] = <<z>>
<1>1. DOMAIN x = 1 .. 1
  OBVIOUS
<1> DEFINE s == [i \in 1 .. 1 |-> z]
           t == <<z>>
<1>2. s \in Seq({z}) /\ Len(s) = 1 /\ s[1] = z
  OBVIOUS
<1>3. t \in Seq({z}) /\ Len(t) = 1 /\ t[1] = z
  OBVIOUS
<1> HIDE DEF s, t
<1>4. s = t
  BY <1>2, <1>3
<1> QED
  BY <1>1, <1>4 DEF s, t

LEMMA ErrorsThere ==
  ASSUME NEW fields \in [KeptFields -> Optional(Ascii)]
  PROVE  /\ WireErrorFields(fields) \in Data
         /\ DecodeErrorResponse(WireErrorFields(fields)) = <<[kind |-> "error", fields |-> fields]>>
         /\ DecodeNoticeResponse(WireErrorFields(fields))
               = <<[kind |-> "notice", fields |-> fields]>>
<1> DEFINE x == DecodeErrorFields(WireErrorFields(fields))
<1>1. WireErrorFields(fields) \in Data /\ x = <<fields>>
  BY ErrorFieldsThere
<1>2. DecodeErrorResponse(WireErrorFields(fields))
        = [i \in DOMAIN x |-> [kind |-> "error", fields |-> x[i]]]
  BY DEF DecodeErrorResponse
<1>3. DecodeNoticeResponse(WireErrorFields(fields))
        = [i \in DOMAIN x |-> [kind |-> "notice", fields |-> x[i]]]
  BY DEF DecodeNoticeResponse
<1> HIDE DEF x
<1>4. DOMAIN x = 1 .. 1 /\ x[1] = fields
  BY <1>1
<1>5. \A i \in DOMAIN x : x[i] = fields
  BY <1>4
<1>6. /\ [i \in DOMAIN x |-> [kind |-> "error", fields |-> x[i]]]
           = [i \in DOMAIN x |-> [kind |-> "error", fields |-> fields]]
      /\ [i \in DOMAIN x |-> [kind |-> "notice", fields |-> x[i]]]
           = [i \in DOMAIN x |-> [kind |-> "notice", fields |-> fields]]
  BY <1>5
<1> DEFINE e == [kind |-> "error", fields |-> fields]
           n == [kind |-> "notice", fields |-> fields]
<1> HIDE DEF e, n
<1>7. [i \in DOMAIN x |-> e] = <<e>> /\ [i \in DOMAIN x |-> n] = <<n>>
  BY <1>1, OneElement
<1> QED
  BY <1>1, <1>2, <1>3, <1>6, <1>7 DEF e, n

(* Each kind of message.                                                   *)
LEMMA AuthKind ==
  ASSUME NEW m \in ServerMessages, m.kind = "auth"
  PROVE  WireBody(m) \in Data /\ DecodeBody(WireTag(m), WireBody(m)) = <<m>>
<1>1. /\ m = [kind |-> "auth", method |-> m.method, data |-> m.data]
      /\ \/ m.method \in {"ok", "cleartext"} /\ m.data = <<>>
         \/ m.method = "md5" /\ m.data \in Data /\ Len(m.data) = 4
         \/ m.method = "sasl" /\ m.data \in Seq(Ascii \ {<<>>})
         \/ m.method \in {"saslContinue", "saslFinal"} /\ m.data \in Data
  BY DEF ServerMessages
<1>2. WireTag(m) = 82
  BY TagsOfKinds DEF WireTag
<1>3. WireBody(m) = AuthBytes(m.method, m.data)
  BY DEF WireBody, AuthBytes
<1> DEFINE method == m.method
           data == m.data
<1>4. /\ AuthBytes(method, data) \in Data
      /\ DecodeAuthentication(AuthBytes(method, data))
           = <<[kind |-> "auth", method |-> method, data |-> data]>>
  BY <1>1, AuthThere
<1> QED
  BY <1>1, <1>2, <1>3, <1>4, DecodeBodyCases

LEMMA RowKind ==
  ASSUME NEW m \in ServerMessages, m.kind = "dataRow", Len(WireBody(m)) + 4 <= MaxMessageLength
  PROVE  WireBody(m) \in Data /\ DecodeBody(WireTag(m), WireBody(m)) = <<m>>
<1>1. /\ m = [kind |-> "dataRow", fields |-> m.fields]
      /\ m.fields \in Seq(Optional(Data)) /\ Len(m.fields) \in Int16
  BY DEF ServerMessages
<1>2. WireTag(m) = 68
  BY TagsOfKinds DEF WireTag
<1>3. WireBody(m) = RowBytes(m.fields)
  BY DEF WireBody, RowBytes
<1>4. RowBytes(m.fields) \in Data
  BY <1>1, RowData
<1>5. Len(RowBytes(m.fields)) \in Int32
  <2>1. Len(RowBytes(m.fields)) \in Nat
    BY <1>4 DEF Data
  <2> QED
    BY <1>3, <2>1, Limit
<1>6. DecodeDataRow(RowBytes(m.fields)) = <<[kind |-> "dataRow", fields |-> m.fields]>>
  BY <1>1, <1>5, RowThere
<1> QED
  BY <1>1, <1>2, <1>3, <1>4, <1>6, DecodeBodyCases

LEMMA DescriptionKind ==
  ASSUME NEW m \in ServerMessages, m.kind = "rowDesc"
  PROVE  WireBody(m) \in Data /\ DecodeBody(WireTag(m), WireBody(m)) = <<m>>
<1>1. /\ m = [kind |-> "rowDesc", fields |-> m.fields]
      /\ m.fields \in Seq(Descriptions) /\ Len(m.fields) \in Int16
  BY DEF ServerMessages
<1>2. WireTag(m) = 84
  BY TagsOfKinds DEF WireTag
<1>3. WireBody(m) = DescriptionBytes(m.fields)
  BY DEF WireBody, DescriptionBytes
<1>4. /\ DescriptionBytes(m.fields) \in Data
      /\ DecodeRowDescription(DescriptionBytes(m.fields))
           = <<[kind |-> "rowDesc", fields |-> m.fields]>>
  BY <1>1, DescriptionThere
<1> QED
  BY <1>1, <1>2, <1>3, <1>4, DecodeBodyCases

LEMMA ErrorKind ==
  ASSUME NEW m \in ServerMessages, m.kind \in {"error", "notice"}
  PROVE  WireBody(m) \in Data /\ DecodeBody(WireTag(m), WireBody(m)) = <<m>>
<1>1. m = [kind |-> m.kind, fields |-> m.fields] /\ m.fields \in [KeptFields -> Optional(Ascii)]
  BY DEF ServerMessages
<1>2. /\ m.kind = "error" => WireTag(m) = 69
      /\ m.kind = "notice" => WireTag(m) = 78
  BY TagsOfKinds DEF WireTag
<1>3. WireBody(m) = WireErrorFields(m.fields)
  BY DEF WireBody
<1> DEFINE w == WireErrorFields(m.fields)
<1>4. /\ w \in Data
      /\ DecodeErrorResponse(w) = <<[kind |-> "error", fields |-> m.fields]>>
      /\ DecodeNoticeResponse(w) = <<[kind |-> "notice", fields |-> m.fields]>>
  BY <1>1, ErrorsThere
<1> HIDE DEF w
<1>5. DecodeBody(69, w) = DecodeErrorResponse(w) /\ DecodeBody(78, w) = DecodeNoticeResponse(w)
  BY DecodeBodyCases
<1>6. CASE m.kind = "error"
  BY <1>1, <1>2, <1>3, <1>4, <1>5, <1>6 DEF w
<1>7. CASE m.kind = "notice"
  BY <1>1, <1>2, <1>3, <1>4, <1>5, <1>7 DEF w
<1> QED
  BY <1>6, <1>7

LEMMA SmallKinds ==
  ASSUME NEW m \in ServerMessages, m.kind \in {"keyData", "complete", "paramStatus", "ready"}
  PROVE  WireBody(m) \in Data /\ DecodeBody(WireTag(m), WireBody(m)) = <<m>>
<1>1. CASE m.kind = "keyData"
  <2>1. /\ m = [kind |-> "keyData", process |-> m.process, secret |-> m.secret]
        /\ m.process \in Int32 /\ m.secret \in Int32
    BY <1>1 DEF ServerMessages
  <2>2. WireTag(m) = 75 /\ WireBody(m) = Byte4(m.process) \o Byte4(m.secret)
    BY <1>1, TagsOfKinds DEF WireTag, WireBody
  <2>3. /\ WireBody(m) \in Data
        /\ DecodeBackendKeyData(WireBody(m))
             = <<[kind |-> "keyData", process |-> m.process, secret |-> m.secret]>>
    BY <2>1, <2>2, KeyDataThere
  <2> QED
    BY <2>1, <2>2, <2>3, DecodeBodyCases
<1>2. CASE m.kind = "complete"
  <2>1. m = [kind |-> "complete", tag |-> m.tag] /\ m.tag \in Ascii
    BY <1>2 DEF ServerMessages
  <2>2. WireTag(m) = 67 /\ WireBody(m) = Zero(m.tag)
    BY <1>2, TagsOfKinds DEF WireTag, WireBody
  <2>3. /\ WireBody(m) \in Data
        /\ DecodeCommandComplete(WireBody(m)) = <<[kind |-> "complete", tag |-> m.tag]>>
    BY <2>1, <2>2, CompleteThere
  <2> QED
    BY <2>1, <2>2, <2>3, DecodeBodyCases
<1>3. CASE m.kind = "paramStatus"
  <2>1. /\ m = [kind |-> "paramStatus", name |-> m.name, value |-> m.value]
        /\ m.name \in Ascii /\ m.value \in Ascii
    BY <1>3 DEF ServerMessages
  <2>2. WireTag(m) = 83 /\ WireBody(m) = Zero(m.name) \o Zero(m.value)
    BY <1>3, TagsOfKinds DEF WireTag, WireBody
  <2>3. /\ WireBody(m) \in Data
        /\ DecodeParameterStatus(WireBody(m))
             = <<[kind |-> "paramStatus", name |-> m.name, value |-> m.value]>>
    BY <2>1, <2>2, StatusThere
  <2> QED
    BY <2>1, <2>2, <2>3, DecodeBodyCases
<1>4. CASE m.kind = "ready"
  <2>1. m = [kind |-> "ready", status |-> m.status] /\ m.status \in Octets
    BY <1>4 DEF ServerMessages
  <2>2. WireTag(m) = 90 /\ WireBody(m) = <<m.status>>
    BY <1>4, TagsOfKinds DEF WireTag, WireBody
  <2>3. /\ WireBody(m) \in Data
        /\ DecodeReadyForQuery(WireBody(m)) = <<[kind |-> "ready", status |-> m.status]>>
    BY <2>1, <2>2, ReadyThere
  <2> QED
    BY <2>1, <2>2, <2>3, DecodeBodyCases
<1> QED
  BY <1>1, <1>2, <1>3, <1>4

LEMMA EmptyKind ==
  ASSUME NEW m \in ServerMessages, m.kind = "emptyQuery"
  PROVE  WireTag(m) = 73 /\ WireBody(m) = <<>> /\ <<>> \in Data
BY DEF WireTag, WireBody, Data

LEMMA BodyThere ==
  ASSUME NEW m \in ServerMessages, Len(WireBody(m)) + 4 <= MaxMessageLength
  PROVE  /\ WireBody(m) \in Data /\ WireTag(m) \in Octets
         /\ DecodeBody(WireTag(m), WireBody(m)) = IF m.kind = "emptyQuery" THEN Error ELSE <<m>>
<1>1. m.kind \in {"auth", "keyData", "complete", "dataRow", "error", "notice", "paramStatus",
                  "ready", "rowDesc", "emptyQuery"}
  BY DEF ServerMessages
<1>2. WireTag(m) \in Octets
  <2>1. WireTag(m) \in {82, 75, 67, 68, 69, 78, 83, 90, 84, 73}
    BY <1>1, TagsOfKinds DEF WireTag
  <2> QED
    BY <2>1, SMT DEF Octets
<1>3. CASE m.kind = "emptyQuery"
  BY <1>2, <1>3, EmptyKind, DecodeBodyCases
<1>4. CASE m.kind # "emptyQuery"
  <2>1. WireBody(m) \in Data /\ DecodeBody(WireTag(m), WireBody(m)) = <<m>>
    BY <1>1, <1>4, AuthKind, RowKind, DescriptionKind, ErrorKind, SmallKinds
  <2> QED
    BY <1>2, <1>4, <2>1
<1> QED
  BY <1>3, <1>4

-----------------------------------------------------------------------------
(* Messages in the stream.                                                 *)
LEMMA WireThere ==
  ASSUME NEW m \in ServerMessages, Len(WireBody(m)) + 4 <= MaxMessageLength
  PROVE  /\ Wire(m) \in Data /\ Len(Wire(m)) = Len(WireBody(m)) + 5
         /\ Len(WireBody(m)) \in Nat
         /\ \A d \in Data : Occurs(Wire(m), d, 1) =>
              /\ d[1] = WireTag(m) /\ Occurs(Byte4(Len(WireBody(m)) + 4), d, 2)
              /\ Occurs(WireBody(m), d, 6)
<1> DEFINE a == <<WireTag(m)>>
           n == Len(WireBody(m))
           b == Byte4(n + 4)
           c == WireBody(m)
           ab == a \o b
<1>1. c \in Data /\ WireTag(m) \in Octets /\ n \in Nat
  <2>1. c \in Data /\ WireTag(m) \in Octets
    BY BodyThere
  <2> QED
    BY <2>1 DEF Data
<1>2. a \in Data /\ Len(a) = 1 /\ a[1] = WireTag(m)
  BY <1>1 DEF Data
<1>3. b \in Data /\ Len(b) = 4
  BY <1>1, FourBytes
<1>4. Len(c) = n /\ Wire(m) = ab \o c
  BY DEF Wire
<1> HIDE DEF a, b, c, n
<1>5. ab \in Data /\ Len(ab) = 5
  <2>1. ab \in Data /\ Len(ab) = Len(a) + Len(b)
    BY <1>2, <1>3, Joined
  <2> QED
    BY <1>2, <1>3, <2>1
<1> HIDE DEF ab
<1>6. Wire(m) \in Data /\ Len(Wire(m)) = n + 5
  <2>1. ab \o c \in Data /\ Len(ab \o c) = Len(ab) + Len(c)
    BY <1>1, <1>5, Joined
  <2> QED
    BY <1>1, <1>4, <1>5, <2>1
<1>7. ASSUME NEW d \in Data, Occurs(Wire(m), d, 1)
      PROVE  d[1] = WireTag(m) /\ Occurs(b, d, 2) /\ Occurs(c, d, 6)
  <2>1. Occurs(ab, d, 1) /\ Occurs(c, d, 1 + Len(ab))
    BY <1>1, <1>4, <1>5, <1>7, OccursBoth
  <2>2. Occurs(a, d, 1) /\ Occurs(b, d, 1 + Len(a))
    BY <1>2, <1>3, <2>1, OccursBoth DEF ab
  <2>3. d[1] = a[1]
    <3>1. 1 \in 1 .. Len(a) /\ 1 + 1 - 1 = 1
      BY <1>2
    <3> QED
      BY <2>2, <3>1 DEF Occurs
  <2> QED
    BY <1>2, <1>5, <2>1, <2>2, <2>3
<1> QED
  BY <1>1, <1>6, <1>7 DEF a, b, c, n

(* The first message of a buffer is decoded when it is whole, whatever     *)
(* follows it, and is consumed whole.                                      *)
THEOREM DecodesFirst ==
  ASSUME NEW m \in ServerMessages, Len(WireBody(m)) + 4 <= MaxMessageLength,
         NEW d \in Data, Occurs(Wire(m), d, 1)
  PROVE  DecodeMessage(d) = IF m.kind = "emptyQuery" THEN Error
                            ELSE <<[msg |-> m, consumed |-> Len(Wire(m))]>>
<1> DEFINE n == Len(WireBody(m))
           tag == WireTag(m)
           c == WireBody(m)
           len == n + 4
           w == Len(Wire(m))
<1>1. /\ w = n + 5 /\ n \in Nat /\ d[1] = tag /\ Occurs(Byte4(len), d, 2) /\ Occurs(c, d, 6)
  BY WireThere
<1>2. /\ c \in Data
      /\ DecodeBody(tag, c) = IF m.kind = "emptyQuery" THEN Error ELSE <<m>>
  BY BodyThere
<1>3. len \in Int32 /\ len <= MaxMessageLength /\ MaxMessageLength \in Nat
  <2>1. MaxMessageLength \in Nat
    BY SMT DEF MaxMessageLength
  <2> QED
    BY <1>1, <2>1, Limit
<1>4. 1 + w <= Len(d) + 1 /\ Len(d) \in Nat
  BY DEF Occurs, Data
<1>5. Len(c) = n
  OBVIOUS
<1> HIDE DEF n, tag, c, w
<1>6. len \in Nat /\ len + 1 = w /\ 6 + n - 1 = len + 1 /\ ~(Len(d) < 5) /\ ~(Len(d) < len + 1)
  BY <1>1, <1>4
<1> HIDE DEF len
<1>7. Be32(d, 2) = len
  BY <1>1, <1>3, Be32At
<1>8. SubSeq(d, 6, len + 1) = c
  BY <1>1, <1>2, <1>5, <1>6, Cut, SMTT(30)
<1>9. ~(len < 0) /\ ~(len > MaxMessageLength)
  BY <1>3, <1>6
<1> DEFINE body == DecodeBody(d[1], SubSeq(d, 6, len + 1))
<1>10. DecodeMessage(d) = [i \in DOMAIN body |-> [msg |-> body[i], consumed |-> len + 1]]
  BY <1>6, <1>7, <1>9 DEF DecodeMessage
<1>11. body = IF m.kind = "emptyQuery" THEN Error ELSE <<m>>
  BY <1>1, <1>2, <1>8
<1> HIDE DEF body
<1>12. CASE m.kind = "emptyQuery"
  <2>1. body = <<>>
    BY <1>11, <1>12 DEF Error
  <2>2. DecodeMessage(d) = <<>>
    BY <1>10, <2>1
  <2> QED
    BY <1>12, <2>2 DEF Error
<1>13. CASE m.kind # "emptyQuery"
  <2>1. body = <<m>>
    BY <1>11, <1>13
  <2> DEFINE z == [msg |-> m, consumed |-> len + 1]
  <2>2. DOMAIN body = 1 .. 1 /\ body[1] = m
    BY <2>1
  <2>3. DecodeMessage(d) = [i \in DOMAIN body |-> z]
    BY <1>10, <2>2
  <2> HIDE DEF z
  <2>4. DecodeMessage(d) = <<z>>
    BY <2>1, <2>3, OneElement
  <2> QED
    BY <1>6, <1>13, <2>4 DEF z, w
<1> QED
  BY <1>12, <1>13

(* And is not when it is not: a part of it is never taken for a message.   *)
LEMMA DecodesNoPart ==
  ASSUME NEW m \in ServerMessages, Len(WireBody(m)) + 4 <= MaxMessageLength,
         NEW d \in Data, Len(d) < Len(Wire(m)), \A i \in 1 .. Len(d) : d[i] = Wire(m)[i]
  PROVE  DecodeMessage(d) = Error
<1> DEFINE n == Len(WireBody(m))
           len == n + 4
           w == Wire(m)
<1>1. w \in Data /\ Len(w) = n + 5 /\ n \in Nat /\ Occurs(Byte4(len), w, 2)
  <2>1. w \in Data /\ Occurs(w, w, 1)
    BY WireThere, Whole
  <2> QED
    BY <2>1, WireThere
<1>2. len \in Int32
  BY <1>1, Limit
<1> HIDE DEF n, w
<1>3. len + 1 = Len(w) /\ Len(d) \in Nat
  BY <1>1 DEF Data
<1> HIDE DEF len
<1>4. Be32(w, 2) = len
  BY <1>1, <1>2, Be32At
<1>5. CASE Len(d) < 5
  BY <1>5 DEF DecodeMessage
<1>6. CASE ~(Len(d) < 5)
  <2>1. d[2] = w[2] /\ d[2 + 1] = w[2 + 1] /\ d[2 + 2] = w[2 + 2] /\ d[2 + 3] = w[2 + 3]
    BY <1>3, <1>6 DEF w
  <2>2. Be32(d, 2) = len
    BY <1>4, <2>1 DEF Be32
  <2>3. Len(d) < len + 1
    BY <1>3 DEF w
  <2> QED
    BY <1>6, <2>2, <2>3 DEF DecodeMessage
<1> QED
  BY <1>5, <1>6

-----------------------------------------------------------------------------
(* The stream: what is in read_buf and on its way is the bytes of the      *)
(* messages that receive_message has not returned.                         *)
WireOf == [m \in Messages |-> Wire(m)]

LEMMA MessagesSound ==
  ASSUME NEW m \in Messages
  PROVE  /\ m \in ServerMessages /\ Len(WireBody(m)) + 4 <= MaxMessageLength
         /\ Wire(m) \in Data /\ Len(Wire(m)) \in Nat /\ Len(Wire(m)) >= 5
<1>1. m \in ServerMessages /\ Len(WireBody(m)) + 4 <= MaxMessageLength
  BY MessagesAssumption
<1>2. Wire(m) \in Data /\ Len(Wire(m)) = Len(WireBody(m)) + 5 /\ Len(WireBody(m)) \in Nat
  BY <1>1, WireThere
<1> QED
  BY <1>1, <1>2

LEMMA WireOfMessage ==
  WireOf \in [Messages -> Data] /\ \A m \in Messages : WireOf[m] = Wire(m)
<1>1. \A m \in Messages : Wire(m) \in Data
  BY MessagesSound
<1> HIDE DEF Wire
<1> QED
  BY <1>1 DEF WireOf

(* What receive_message finds in a buffer: the first message it has not    *)
(* returned, or nothing.                                                   *)
LEMMA Finds ==
  ASSUME NEW s \in Seq(Messages), NEW n \in 0 .. Len(s), NEW b \in Data, NEW tail \in Data,
         b \o tail = Flat(Coded(WireOf, s, n))
  PROVE  /\ DecodeMessage(b) # Error =>
              /\ n < Len(s)
              /\ DecodeMessage(b)[1].msg = s[n + 1]
              /\ SubSeq(b, DecodeMessage(b)[1].consumed + 1, Len(b)) \in Data
              /\ SubSeq(b, DecodeMessage(b)[1].consumed + 1, Len(b)) \o tail
                   = Flat(Coded(WireOf, s, n + 1))
         /\ DecodeMessage(b) = Error /\ n < Len(s) /\ tail = <<>> => s[n + 1].kind = "emptyQuery"
<1>1. Len(s) \in Nat /\ n \in Nat
  OBVIOUS
<1>2. CASE n = Len(s)
  <2>2. Coded(WireOf, s, n) = <<>>
    BY <1>1, <1>2, CodedNone
  <2>3. Len(b) + Len(tail) = 0 /\ Len(b) \in Nat /\ Len(tail) \in Nat
    <3>1. b \o tail = <<>> /\ Len(b \o tail) = Len(b) + Len(tail)
      BY <2>2, FlatEmpty, Joined
    <3> QED
      BY <3>1, Joined
  <2>4. DecodeMessage(b) = Error
    BY <2>3 DEF DecodeMessage
  <2> QED
    BY <1>1, <1>2, <2>4
<1>3. CASE n # Len(s)
  <2> DEFINE h == s[n + 1]
             w == Wire(h)
             r == Flat(Coded(WireOf, s, n + 1))
  <2>1. h \in Messages /\ n < Len(s) /\ n + 1 \in 0 .. Len(s)
    BY <1>1, <1>3
  <2>2. /\ h \in ServerMessages /\ Len(WireBody(h)) + 4 <= MaxMessageLength
        /\ w \in Data /\ Len(w) \in Nat
    BY <2>1, MessagesSound
  <2>3. r \in Data
    BY <2>1, CodedData, WireOfMessage, FlatData
  <2>4. b \o tail = w \o r
    <3>1. b \o tail = WireOf[h] \o r
      BY <1>3, CodedHead, WireOfMessage
    <3>2. WireOf[h] = w
      BY <2>1, WireOfMessage
    <3> QED
      BY <3>1, <3>2
  <2> HIDE DEF h, w, r
  <2>5. CASE Len(b) < Len(w)
    <3>1. \A i \in 1 .. Len(b) : b[i] = w[i]
      <4>1. /\ \A i \in 1 .. Len(b) : (b \o tail)[i] = b[i]
            /\ \A i \in 1 .. Len(w) : (w \o r)[i] = w[i]
            /\ Len(b) \in Nat
        BY <2>2, <2>3, Joined
      <4> QED
        BY <2>2, <2>4, <2>5, <4>1
    <3>2. DecodeMessage(b) = Error
      BY <2>2, <2>5, <3>1, DecodesNoPart DEF w
    <3>3. tail # <<>>
      <4>1. Len(b) + Len(tail) = Len(w) + Len(r) /\ Len(r) \in Nat /\ Len(b) \in Nat
        BY <2>2, <2>3, <2>4, Joined
      <4> QED
        BY <2>2, <2>5, <4>1
    <3> QED
      BY <3>2, <3>3
  <2>6. CASE ~(Len(b) < Len(w))
    <3>1. Len(w) <= Len(b)
      <4>1. Len(b) \in Nat
        BY DEF Data
      <4> QED
        BY <2>2, <2>6, <4>1
    <3>2. /\ Occurs(w, b, 1) /\ SubSeq(b, Len(w) + 1, Len(b)) \in Data
          /\ SubSeq(b, Len(w) + 1, Len(b)) \o tail = r
      BY <2>2, <2>3, <2>4, <3>1, Rest
    <3>3. DecodeMessage(b) = IF h.kind = "emptyQuery" THEN Error
                             ELSE <<[msg |-> h, consumed |-> Len(w)]>>
      BY <2>2, <3>2, DecodesFirst DEF w
    <3>4. ASSUME DecodeMessage(b) # Error
          PROVE  DecodeMessage(b)[1].msg = h /\ DecodeMessage(b)[1].consumed = Len(w)
      BY <3>3, <3>4
    <3>5. h.kind # "emptyQuery" => DecodeMessage(b) # Error
      BY <3>3 DEF Error
    <3> QED
      BY <2>1, <3>2, <3>4, <3>5 DEF h, r
  <2> QED
    BY <2>5, <2>6
<1> QED
  BY <1>2, <1>3

-----------------------------------------------------------------------------
(* Whatever has been lost, read_buf and the bytes on their way are the     *)
(* start of the bytes of the messages not yet returned, all of them while  *)
(* the connection lasts; and a call that waits has looked at what it has.  *)
Unread == Flat(Coded(WireOf, said, Len(got)))
Accounted ==
  \E rest \in Data :
    /\ (buf \o flight) \o rest = Unread
    /\ ~lost => rest = <<>>
    /\ lost => flight = <<>>
FramingInv ==
  /\ FramingType /\ Len(got) <= Len(said)
  /\ Accounted
  /\ waiting => DecodeMessage(buf) = Error

LEMMA TurnTakes ==
  ASSUME said \in Seq(Messages), got \in Seq(Messages), Len(got) <= Len(said), said' = said,
         NEW b \in Data, NEW tail \in Data, b \o tail = Unread, Turn(b)
  PROVE  /\ got' \in Seq(Messages) /\ buf' \in Data /\ waiting' \in BOOLEAN
         /\ Len(got') <= Len(said) /\ buf' \o tail = Unread'
         /\ waiting' => DecodeMessage(buf') = Error
         /\ \/ got' = got
            \/ Len(got) < Len(said) /\ got' = Append(got, said[Len(got) + 1])
<1> DEFINE d == DecodeMessage(b)
           n == Len(got)
<1>1. n \in 0 .. Len(said) /\ Len(said) \in Nat
  OBVIOUS
<1>2. CASE d = Error
  <2>1. buf' = b /\ waiting' = TRUE /\ got' = got
    BY <1>2 DEF Turn
  <2>2. Unread' = Unread
    BY <2>1 DEF Unread
  <2> QED
    BY <1>2, <2>1, <2>2
<1>3. CASE d # Error
  <2>1. /\ got' = Append(got, d[1].msg)
        /\ buf' = SubSeq(b, d[1].consumed + 1, Len(b))
        /\ waiting' = FALSE
    BY <1>3 DEF Turn
  <2>2. b \o tail = Flat(Coded(WireOf, said, n))
    BY DEF Unread
  <2> HIDE DEF d
  <2>3. /\ n < Len(said) /\ d[1].msg = said[n + 1]
        /\ SubSeq(b, d[1].consumed + 1, Len(b)) \in Data
        /\ SubSeq(b, d[1].consumed + 1, Len(b)) \o tail = Flat(Coded(WireOf, said, n + 1))
    BY <1>1, <1>3, <2>2, Finds, ZenonT(60) DEF d
  <2>4. said[n + 1] \in Messages
    BY <1>1, <2>3
  <2>5. got' \in Seq(Messages) /\ Len(got') = n + 1 /\ got' = Append(got, said[n + 1])
    BY <2>1, <2>3, <2>4
  <2>6. Unread' = Flat(Coded(WireOf, said, n + 1))
    BY <2>5 DEF Unread
  <2>7. Len(got') <= Len(said)
    BY <1>1, <2>3, <2>5
  <2> HIDE DEF n
  <2>8. buf' \in Data /\ buf' \o tail = Unread' /\ waiting' = FALSE
    BY <2>1, <2>3, <2>6
  <2> QED
    BY <2>3, <2>5, <2>7, <2>8 DEF n
<1> QED
  BY <1>2, <1>3

LEMMA FramingInitInv == FramingInit => FramingInv
<1> SUFFICES ASSUME FramingInit PROVE FramingInv
  OBVIOUS
<1>1. <<>> \in Data /\ <<>> \in Seq(Messages) /\ Len(<<>>) = 0
  BY DEF Data
<1>2. Coded(WireOf, <<>>, 0) = <<>>
  BY <1>1, CodedNone
<1>3. Unread = <<>>
  BY <1>1, <1>2, FlatEmpty DEF FramingInit, Unread
<1>4. Accounted
  <2>1. (<<>> \o <<>>) \o <<>> = <<>>
    OBVIOUS
  <2> QED
    BY <1>1, <1>3, <2>1 DEF FramingInit, Accounted
<1>5. Len(got) <= Len(said)
  BY <1>1 DEF FramingInit
<1> QED
  BY <1>1, <1>4, <1>5 DEF FramingInit, FramingInv, FramingType

LEMMA FramingStep ==
  FramingInv /\ [FramingNext]_framingVars
    => /\ FramingInv'
       /\ [Queue!Say \/ Queue!Get]_<<said, got>>
<1> DEFINE Goal == FramingInv' /\ [Queue!Say \/ Queue!Get]_<<said, got>>
<1> SUFFICES ASSUME FramingInv, [FramingNext]_framingVars PROVE Goal
  OBVIOUS
<1>1. /\ said \in Seq(Messages) /\ got \in Seq(Messages) /\ buf \in Data /\ flight \in Data
      /\ lost \in BOOLEAN /\ waiting \in BOOLEAN /\ Len(got) <= Len(said)
      /\ waiting => DecodeMessage(buf) = Error
  BY DEF FramingInv, FramingType
<1>2. PICK rest \in Data : /\ (buf \o flight) \o rest = Unread
                           /\ ~lost => rest = <<>>
                           /\ lost => flight = <<>>
  BY DEF FramingInv, Accounted
<1>3. /\ buf \o flight \in Data /\ flight \o rest \in Data
      /\ buf \o (flight \o rest) = Unread
  BY <1>1, <1>2, Joined, Associative, ZenonT(60)
<1>4. CASE \E m \in Messages : ServerSays(m)
  <2>1. PICK m \in Messages : ServerSays(m)
    BY <1>4
  <2>2. /\ ~lost /\ said' = Append(said, m) /\ flight' = flight \o Wire(m)
        /\ UNCHANGED <<lost, buf, waiting, got>>
    BY <2>1 DEF ServerSays
  <2>3. Wire(m) \in Data
    BY MessagesSound
  <2> DEFINE w == Wire(m)
             n == Len(got)
             ws == Coded(WireOf, said, n)
  <2>4. n \in 0 .. Len(said) /\ said' \in Seq(Messages) /\ n <= Len(said')
    BY <1>1, <2>2
  <2>5. ws \in Seq(Data) /\ Coded(WireOf, said', n) = Append(ws, w)
    <3>1. Coded(WireOf, said', n) = Append(ws, WireOf[m])
      BY <1>1, <2>2, <2>4, CodedAppend, WireOfMessage
    <3>2. WireOf[m] = w
      BY WireOfMessage
    <3>3. ws \in Seq(Data)
      BY <1>1, <2>4, CodedData, WireOfMessage
    <3> QED
      BY <3>1, <3>2, <3>3
  <2>6. Unread' = Flat(Append(ws, w)) /\ Unread = Flat(ws)
    BY <2>2, <2>5 DEF Unread
  <2> HIDE DEF w, ws
  <2>7. Unread' = Unread \o w
    BY <2>3, <2>5, <2>6, FlatAppend DEF w
  <2>8. buf \o flight = Unread
    <3>1. (buf \o flight) \o <<>> = buf \o flight
      BY <1>3 DEF Data
    <3> QED
      BY <1>2, <2>2, <3>1
  <2>9. (buf \o flight') \o <<>> = Unread' /\ flight' \in Data
    <3>1. buf \o (flight \o w) = Unread'
      BY <1>1, <2>3, <2>7, <2>8, Associative DEF w
    <3>2. flight \o w \in Data
      BY <1>1, <2>3, Joined DEF w
    <3>3. buf \o (flight \o w) \in Data
      BY <1>1, <3>2, Joined
    <3>4. (buf \o (flight \o w)) \o <<>> = buf \o (flight \o w)
      BY <3>3 DEF Data
    <3> QED
      BY <2>2, <3>1, <3>2, <3>4 DEF w
  <2>10. Accounted'
    <3>1. <<>> \in Data
      BY DEF Data
    <3> QED
      BY <2>2, <2>9, <3>1 DEF Accounted
  <2>11. FramingInv'
    BY <1>1, <2>2, <2>4, <2>9, <2>10 DEF FramingInv, FramingType
  <2>12. Queue!Say
    BY <2>2 DEF Queue!Say
  <2> QED
    BY <2>11, <2>12
<1>5. CASE NetworkEnds
  <2>1. ~lost /\ lost' = TRUE /\ flight' = <<>> /\ UNCHANGED <<said, buf, waiting, got>>
    BY <1>5 DEF NetworkEnds
  <2>2. Unread' = Unread
    BY <2>1 DEF Unread
  <2>3. buf \o flight = Unread
    <3>1. (buf \o flight) \o <<>> = buf \o flight
      BY <1>3 DEF Data
    <3> QED
      BY <1>2, <2>1, <3>1
  <2>4. (buf \o <<>>) \o flight = Unread /\ <<>> \in Data
    <3>1. buf \o <<>> = buf /\ <<>> \in Data
      BY <1>1 DEF Data
    <3> QED
      BY <2>3, <3>1
  <2>5. Accounted'
    BY <1>1, <2>1, <2>2, <2>4 DEF Accounted
  <2>6. FramingInv'
    BY <1>1, <2>1, <2>4, <2>5 DEF FramingInv, FramingType
  <2> QED
    BY <2>1, <2>6
<1>6. CASE Call
  <2>1. ~waiting /\ Turn(buf) /\ UNCHANGED <<said, flight, lost>>
    BY <1>6 DEF Call
  <2> DEFINE tail == flight \o rest
  <2>2. tail \in Data /\ buf \o tail = Unread
    BY <1>3
  <2> HIDE DEF tail
  <2>3. /\ got' \in Seq(Messages) /\ buf' \in Data /\ waiting' \in BOOLEAN
        /\ Len(got') <= Len(said) /\ buf' \o tail = Unread'
        /\ waiting' => DecodeMessage(buf') = Error
        /\ \/ got' = got
           \/ Len(got) < Len(said) /\ got' = Append(got, said[Len(got) + 1])
    BY <1>1, <2>1, <2>2, TurnTakes
  <2>4. (buf' \o flight) \o rest = Unread'
    BY <1>1, <2>3, Associative, ZenonT(60) DEF tail
  <2>5. Accounted'
    BY <1>2, <2>1, <2>4 DEF Accounted
  <2>6. FramingInv'
    BY <1>1, <2>1, <2>3, <2>5 DEF FramingInv, FramingType
  <2>7. got' = got \/ Queue!Get
    BY <2>1, <2>3 DEF Queue!Get
  <2> QED
    BY <2>1, <2>6, <2>7
<1>7. CASE ReadSegment
  <2>1. PICK n \in 1 .. Len(flight) :
          /\ Turn(buf \o SubSeq(flight, 1, n))
          /\ flight' = SubSeq(flight, n + 1, Len(flight))
    BY <1>7 DEF ReadSegment
  <2>2. waiting /\ UNCHANGED <<said, lost>>
    BY <1>7 DEF ReadSegment
  <2> DEFINE seg == SubSeq(flight, 1, n)
             on == SubSeq(flight, n + 1, Len(flight))
             tail == on \o rest
             b == buf \o seg
  <2>3. seg \in Data /\ on \in Data /\ seg \o on = flight
    BY <1>1, Split
  <2> HIDE DEF seg, on
  <2>4. tail \in Data /\ b \in Data
    BY <1>1, <2>3, Joined
  <2>5. b \o tail = Unread
    <3>1. b \o tail = (b \o on) \o rest
      BY <2>3, <2>4, Associative, ZenonT(60)
    <3>2. b \o on = buf \o flight
      BY <1>1, <2>3, Associative, ZenonT(60)
    <3> QED
      BY <1>2, <3>1, <3>2
  <2>6. Turn(b) /\ flight' = on
    BY <2>1 DEF seg, on
  <2> HIDE DEF tail, b
  <2>7. /\ got' \in Seq(Messages) /\ buf' \in Data /\ waiting' \in BOOLEAN
        /\ Len(got') <= Len(said) /\ buf' \o tail = Unread'
        /\ waiting' => DecodeMessage(buf') = Error
        /\ \/ got' = got
           \/ Len(got) < Len(said) /\ got' = Append(got, said[Len(got) + 1])
    BY <1>1, <2>2, <2>4, <2>5, <2>6, TurnTakes
  <2>8. (buf' \o on) \o rest = Unread'
    BY <2>3, <2>7, Associative, ZenonT(60) DEF tail
  <2>9. lost => flight' = <<>>
    BY <1>2, <2>1
  <2>10. Accounted'
    BY <1>2, <2>2, <2>6, <2>8, <2>9 DEF Accounted
  <2>11. FramingInv'
    BY <1>1, <2>2, <2>3, <2>6, <2>7, <2>10 DEF FramingInv, FramingType
  <2>12. got' = got \/ Queue!Get
    BY <2>2, <2>7 DEF Queue!Get
  <2> QED
    BY <2>2, <2>11, <2>12
<1>8. CASE ReadEnds \/ ReceiveDropped
  <2>1. waiting' = FALSE /\ UNCHANGED <<said, flight, lost, buf, got>>
    BY <1>8 DEF ReadEnds, ReceiveDropped
  <2>2. Unread' = Unread
    BY <2>1 DEF Unread
  <2>3. Accounted'
    BY <1>2, <2>1, <2>2 DEF Accounted
  <2>4. FramingInv'
    BY <1>1, <2>1, <2>3 DEF FramingInv, FramingType
  <2> QED
    BY <2>1, <2>4
<1>9. CASE UNCHANGED framingVars
  <2>1. UNCHANGED <<said, flight, lost, buf, waiting, got>>
    BY <1>9 DEF framingVars
  <2>2. Unread' = Unread
    BY <2>1 DEF Unread
  <2>3. Accounted'
    BY <1>2, <2>1, <2>2 DEF Accounted
  <2>4. FramingInv'
    BY <1>1, <2>1, <2>3 DEF FramingInv, FramingType
  <2> QED
    BY <2>1, <2>4
<1> QED
  BY <1>4, <1>5, <1>6, <1>7, <1>8, <1>9 DEF FramingNext

LEMMA FramingInvariant == FramingSpec => []FramingInv
<1>1. FramingInv /\ [FramingNext]_framingVars => FramingInv'
  BY FramingStep
<1> QED
  BY <1>1, FramingInitInv, PTL DEF FramingSpec

(* The state of the decoder and of the stream keeps its type; in           *)
(* particular what is in read_buf is always bytes of the server's, and     *)
(* what is returned one of its messages.                                   *)
THEOREM FramingTyped == FramingSpec => []FramingType
<1>1. FramingInv => FramingType
  BY DEF FramingInv
<1> QED
  BY <1>1, FramingInvariant, PTL

(* Whatever the messages, their number and their contents, however the     *)
(* network cuts the stream and whichever calls are dropped at their await, *)
(* receive_message returns the messages of the server in order, each whole *)
(* and unaltered (DeliversMessages).                                       *)
THEOREM MessagesDelivered == FramingSpec => DeliversMessages
<1>1. FramingInit => Queue!Init
  BY DEF FramingInit, Queue!Init
<1>2. FramingInv /\ [FramingNext]_framingVars => [Queue!Say \/ Queue!Get]_<<said, got>>
  BY FramingStep
<1> QED
  BY <1>1, <1>2, FramingInvariant, PTL DEF FramingSpec, DeliversMessages, Queue!Spec

(* A call of receive_message that waits while nothing is on its way either *)
(* has no message left to return or is stuck behind one that               *)
(* decode_message does not know (WaitsOnlyForMore).                        *)
THEOREM WaitsForMore == FramingSpec => []WaitsOnlyForMore
<1>1. FramingInv => WaitsOnlyForMore
  <2> SUFFICES ASSUME FramingInv, waiting, flight = <<>>, ~lost, Len(got) < Len(said)
               PROVE  said[Len(got) + 1].kind = "emptyQuery"
    BY DEF WaitsOnlyForMore
  <2>1. said \in Seq(Messages) /\ got \in Seq(Messages) /\ buf \in Data /\ <<>> \in Data
    BY DEF FramingInv, FramingType, Data
  <2>2. DecodeMessage(buf) = Error
    BY DEF FramingInv
  <2>3. (buf \o <<>>) \o <<>> = Unread
    BY DEF FramingInv, Accounted
  <2>4. buf \o <<>> = buf
    BY <2>1 DEF Data
  <2>5. buf \o <<>> = Flat(Coded(WireOf, said, Len(got)))
    BY <2>3, <2>4 DEF Unread
  <2>6. Len(got) \in 0 .. Len(said)
    BY <2>1
  <2> QED
    BY <2>1, <2>2, <2>5, <2>6, Finds
<1> QED
  BY <1>1, FramingInvariant, PTL

-----------------------------------------------------------------------------
(* The client's messages: what the server reads.                           *)
LEMMA PairBytes ==
  ASSUME NEW pair \in Parameters
  PROVE  LET w == Zero(pair[1]) \o Zero(pair[2])
         IN  /\ pair[1] \in CStrings /\ pair[2] \in CStrings /\ pair = <<pair[1], pair[2]>>
             /\ Len(pair[1]) \in Nat \ {0} /\ Len(pair[2]) \in Nat
             /\ w \in Data /\ Len(w) = Len(pair[1]) + Len(pair[2]) + 2
             /\ \A d \in Data : \A at :
                  Occurs(w, d, at) =>
                    /\ Occurs(Zero(pair[1]), d, at)
                    /\ Occurs(Zero(pair[2]), d, at + Len(pair[1]) + 1)
<1> DEFINE k == pair[1]
           v == pair[2]
           a == Zero(k)
           b == Zero(v)
           w == a \o b
<1>1. k \in CStrings /\ v \in CStrings /\ k # <<>> /\ pair = <<k, v>>
  BY DEF Parameters
<1> HIDE DEF k, v
<1>2. a \in Data /\ b \in Data /\ Len(a) = Len(k) + 1 /\ Len(b) = Len(v) + 1
      /\ Len(k) \in Nat /\ Len(v) \in Nat
  BY <1>1, ZeroEnds
<1>3. Len(k) # 0
  BY <1>1 DEF CStrings
<1> HIDE DEF a, b
<1>4. w \in Data /\ Len(w) = Len(k) + Len(v) + 2
  <2>1. w \in Data /\ Len(w) = Len(a) + Len(b)
    BY <1>2, Joined
  <2> QED
    BY <1>2, <2>1
<1>5. ASSUME NEW d \in Data, NEW at, Occurs(w, d, at)
      PROVE  Occurs(a, d, at) /\ Occurs(b, d, at + Len(k) + 1)
  <2>1. Occurs(a, d, at) /\ Occurs(b, d, at + Len(a))
    BY <1>2, <1>5, OccursBoth
  <2>2. at \in Nat
    BY <2>1 DEF Occurs
  <2>3. at + Len(a) = at + Len(k) + 1
    BY <1>2, <2>2
  <2> QED
    BY <2>1, <2>3
<1> QED
  BY <1>1, <1>2, <1>3, <1>4, <1>5 DEF k, v, a, b

LEMMA PairsThere ==
  ASSUME NEW params \in Seq(Parameters), NEW type \in Int32
  PROVE  LET rest == Flat([i \in DOMAIN params |-> Zero(params[i][1]) \o Zero(params[i][2])])
                       \o <<0>>
         IN  rest \in Data /\ PairsFrom(Byte4(type) \o rest, 5) = params
<1> DEFINE n == Len(params)
           ws == [i \in DOMAIN params |-> Zero(params[i][1]) \o Zero(params[i][2])]
           c == Flat(ws)
           e == <<0>>
           rest == c \o e
           d == Byte4(type) \o rest
<1>1. n \in Nat /\ \A i \in 1 .. n : params[i] \in Parameters
  OBVIOUS
<1>2. ws \in Seq(Data) /\ Len(ws) = n
      /\ \A i \in 1 .. n : ws[i] = Zero(params[i][1]) \o Zero(params[i][2])
  <2> DEFINE w == [i \in 1 .. n |-> Zero(params[i][1]) \o Zero(params[i][2])]
  <2>1. ASSUME NEW i \in 1 .. n PROVE w[i] \in Data
    <3>1. Zero(params[i][1]) \o Zero(params[i][2]) \in Data
      BY <1>1, PairBytes
    <3> QED
      BY <3>1
  <2>2. w = [i \in 1 .. n |-> w[i]] /\ DOMAIN params = 1 .. n
    OBVIOUS
  <2>3. ws = w /\ \A i \in 1 .. n : w[i] = Zero(params[i][1]) \o Zero(params[i][2])
    BY <2>2
  <2> HIDE DEF w, ws
  <2>4. w \in Seq(Data) /\ Len(w) = n
    BY <1>1, <2>1, <2>2
  <2> QED
    BY <2>3, <2>4
<1>3. e \in Data /\ Len(e) = 1 /\ e[1] = 0
  BY DEF Data, Octets
<1> HIDE DEF ws, e, n
<1>4. c \in Data
  BY <1>2, FlatData
<1> HIDE DEF c
<1>5. rest \in Data /\ Len(rest) = Len(c) + 1 /\ Len(c) \in Nat
  <2>1. rest \in Data /\ Len(rest) = Len(c) + Len(e) /\ Len(c) \in Nat
    BY <1>3, <1>4, Joined
  <2> QED
    BY <1>3, <2>1
<1>6. /\ d \in Data /\ Len(d) = 4 + Len(rest) /\ Occurs(c \o e, d, 5)
  <2> HIDE DEF rest
  <2> QED
    BY <1>5, AuthHead DEF rest
<1> HIDE DEF d
<1>7. Occurs(c, d, 5) /\ Occurs(e, d, 5 + Len(c))
  BY <1>3, <1>4, <1>6, OccursBoth
<1>8. d[5 + Len(c)] = 0
  BY <1>3, <1>5, <1>7 DEF Occurs
<1>9. PICK places : OccurAt(places, ws, d, 5)
  BY <1>2, <1>6, <1>7, FlatOccurs DEF c
<1>10. /\ places \in [1 .. n + 1 -> Nat \ {0}] /\ places[1] = 5 /\ places[n + 1] = 5 + Len(c)
       /\ \A k \in 1 .. n :
            Occurs(ws[k], d, places[k]) /\ places[k + 1] = places[k] + Len(ws[k])
       /\ \A k \in 1 .. n + 1 : 5 <= places[k] /\ places[k] <= Len(d) + 1
  BY <1>2, <1>9 DEF OccurAt, c
<1> DEFINE from == 5
           to == Len(d) + 1
           Stops == {x \in from .. to : \/ x > Len(d) \/ EndOf(d, x) \in {0, x}
                                        \/ EndOf(d, EndOf(d, x) + 1) = 0}
           item == [x \in from .. to |-> <<StringAt(d, x), StringAt(d, EndOf(d, x) + 1)>>]
           next == [x \in from .. to |-> EndOf(d, EndOf(d, x) + 1) + 1]
           Q(f) == f = [at \in from .. Len(d) + 1 |->
                          IF \/ at > Len(d) \/ EndOf(d, at) \in {0, at}
                             \/ EndOf(d, EndOf(d, at) + 1) = 0
                          THEN <<>>
                          ELSE <<<<StringAt(d, at), StringAt(d, EndOf(d, at) + 1)>>>>
                                 \o f[EndOf(d, EndOf(d, at) + 1) + 1]]
<1>11. /\ from \in Nat /\ to \in Nat /\ from <= to + 1 /\ Len(d) \in Nat
       /\ \A k \in 1 .. n + 1 : places[k] \in from .. to
  BY <1>5, <1>6, <1>10
<1>12. ASSUME NEW x \in from .. to
       PROVE  /\ EndOf(d, x) \in Nat /\ (EndOf(d, x) # 0 => EndOf(d, x) \in x .. Len(d))
              /\ EndOf(d, EndOf(d, x) + 1) \in Nat
              /\ EndOf(d, EndOf(d, x) + 1) # 0 =>
                   EndOf(d, EndOf(d, x) + 1) \in EndOf(d, x) + 1 .. Len(d)
  <2>1. EndOf(d, x) \in Nat /\ (EndOf(d, x) # 0 => EndOf(d, x) \in x .. Len(d))
    BY <1>6, <1>11, EndThere
  <2> DEFINE y == EndOf(d, x) + 1
  <2>2. y \in Nat
    BY <2>1
  <2> HIDE DEF y
  <2>3. EndOf(d, y) \in Nat /\ (EndOf(d, y) # 0 => EndOf(d, y) \in y .. Len(d))
    BY <1>6, <1>11, <2>2, EndThere
  <2> QED
    BY <2>1, <2>3 DEF y
<1>13. next \in [from .. to -> Int]
  BY <1>12
<1> DEFINE S == Data \X Data
<1>14. ASSUME NEW x \in from .. to, x \notin Stops
       PROVE  x < next[x] /\ next[x] <= to /\ item[x] \in S
  <2> DEFINE y == EndOf(d, x) + 1
  <2>1. /\ EndOf(d, x) # 0 /\ x \in Nat \ {0} /\ EndOf(d, y) # 0
        /\ next[x] = EndOf(d, y) + 1 /\ item[x] = <<StringAt(d, x), StringAt(d, y)>>
    BY <1>11, <1>14
  <2>2. EndOf(d, x) \in x .. Len(d) /\ EndOf(d, y) \in y .. Len(d) /\ y \in Nat \ {0}
    BY <1>11, <1>12, <2>1
  <2>3. StringAt(d, x) \in Data /\ StringAt(d, y) \in Data
    <3> HIDE DEF y
    <3> QED
      BY <1>6, <2>1, <2>2, StringData
  <2>4. x < EndOf(d, y) + 1 /\ EndOf(d, y) + 1 <= to
    BY <1>11, <2>2
  <2> HIDE DEF next, Stops, item, y, to
  <2> QED
    BY <2>1, <2>3, <2>4
<1>15. ASSUME NEW f PROVE Lists(f, from, to, Stops, item, next) <=> Q(f)
  <2>1. \A x \in from .. to :
          /\ x \in Stops <=> \/ x > Len(d) \/ EndOf(d, x) \in {0, x}
                             \/ EndOf(d, EndOf(d, x) + 1) = 0
          /\ item[x] = <<StringAt(d, x), StringAt(d, EndOf(d, x) + 1)>>
          /\ next[x] = EndOf(d, EndOf(d, x) + 1) + 1
    OBVIOUS
  <2>2. [x \in from .. to |-> IF x \in Stops THEN <<>> ELSE <<item[x]>> \o f[next[x]]]
        = [at \in from .. to |->
             IF \/ at > Len(d) \/ EndOf(d, at) \in {0, at} \/ EndOf(d, EndOf(d, at) + 1) = 0
             THEN <<>>
             ELSE <<<<StringAt(d, at), StringAt(d, EndOf(d, at) + 1)>>>>
                    \o f[EndOf(d, EndOf(d, at) + 1) + 1]]
    <3> HIDE DEF from, to, Stops, item, next
    <3> QED
      BY <2>1
  <2> QED
    BY <2>2 DEF Lists
<1>16. PICK g : Lists(g, from, to, Stops, item, next)
  <2> HIDE DEF from, to, Stops, item, next
  <2> QED
    BY <1>11, <1>13, <1>14, Listed
<1> DEFINE f == CHOOSE h : Q(h)
<1>17. Q(f)
  <2>1. Q(g)
    BY <1>15, <1>16
  <2> HIDE DEF Q
  <2> QED
    BY <2>1
<1>18. PairsFrom(d, 5) = f[5]
  BY Zenon DEF PairsFrom
<1>19. Lists(f, from, to, Stops, item, next)
  BY <1>15, <1>17
<1>20. ASSUME NEW k \in 1 .. n
       PROVE  /\ places[k] \notin Stops /\ item[places[k]] = params[k]
              /\ next[places[k]] = places[k + 1]
  <2> DEFINE p == places[k]
             key == params[k][1]
             value == params[k][2]
             q == p + Len(key) + 1
  <2>1. /\ key \in CStrings /\ value \in CStrings /\ params[k] = <<key, value>>
        /\ Len(key) \in Nat \ {0} /\ Len(value) \in Nat
        /\ Len(ws[k]) = Len(key) + Len(value) + 2
        /\ \A b \in Data : \A at : Occurs(ws[k], b, at) =>
             Occurs(Zero(key), b, at) /\ Occurs(Zero(value), b, at + Len(key) + 1)
    BY <1>1, <1>2, PairBytes
  <2>2. p \in from .. to /\ Occurs(ws[k], d, p) /\ places[k + 1] = p + Len(ws[k])
    <3>1. k \in 1 .. n + 1
      BY <1>1
    <3> QED
      BY <1>10, <1>11, <3>1
  <2> HIDE DEF p, key, value
  <2>3. Occurs(Zero(key), d, p) /\ Occurs(Zero(value), d, q)
    BY <1>6, <2>1, <2>2
  <2>4. EndOf(d, p) = p + Len(key) /\ StringAt(d, p) = key /\ p + Len(key) <= Len(d)
    BY <1>6, <2>1, <2>3, StringThere
  <2>5. EndOf(d, q) = q + Len(value) /\ StringAt(d, q) = value /\ q \in Nat \ {0}
    BY <1>6, <2>1, <2>3, StringThere
  <2>6. p \in Nat \ {0} /\ EndOf(d, p) + 1 = q
    BY <2>1, <2>2, <2>4
  <2> HIDE DEF q
  <2>7. EndOf(d, q) + 1 = places[k + 1]
    <3>1. q = p + Len(key) + 1
      BY DEF q
    <3> DEFINE l == Len(key)
               m == Len(value)
    <3>2. /\ q = p + l + 1 /\ l \in Nat /\ m \in Nat /\ p \in Nat
          /\ places[k + 1] = p + Len(ws[k]) /\ Len(ws[k]) = l + m + 2
          /\ EndOf(d, q) = q + m
      BY <2>1, <2>2, <2>5, <2>6, <3>1
    <3> HIDE DEF l, m
    <3> QED
      BY <3>2
  <2>8. EndOf(d, EndOf(d, p) + 1) # 0
    BY <2>1, <2>5, <2>6
  <2>9. ~(p > Len(d)) /\ EndOf(d, p) \notin {0, p}
    BY <1>11, <2>1, <2>4, <2>6
  <2>10. p \notin Stops
    BY <2>2, <2>8, <2>9
  <2>11. item[p] = <<key, value>> /\ next[p] = EndOf(d, q) + 1
    BY <2>2, <2>4, <2>5, <2>6
  <2> HIDE DEF Stops, item, next
  <2> QED
    BY <2>1, <2>7, <2>10, <2>11 DEF p
<1>21. places[n + 1] \in Stops
  <2> DEFINE p == places[n + 1]
  <2>1. p \in from .. to /\ p \in Nat \ {0} /\ (p <= Len(d) => d[p] = 0)
    BY <1>1, <1>8, <1>10, <1>11
  <2> HIDE DEF p
  <2>2. p > Len(d) \/ EndOf(d, p) = p
    BY <1>6, <1>11, <2>1, EmptyString
  <2> QED
    BY <2>1, <2>2 DEF p
<1> HIDE DEF f, from, to, Stops, item, next, Q
<1> HIDE DEF rest, S
<1>22. ItemsAt(params, places, from, to, Stops, item, next)
  BY <1>11, <1>20, <1>21 DEF ItemsAt, n
<1>23. f[places[1]] = params
  BY <1>11, <1>19, <1>22, ListThere
<1> QED
  BY <1>5, <1>10, <1>18, <1>23 DEF rest, d, c, ws, e

UntypedKinds == {"ssl", "startup"}
TypedKinds == {"password", "query", "terminate", "saslInitial", "saslResponse"}

(* What a message holds behind its length.                                 *)
Content(req) ==
  CASE req.kind = "ssl" -> Byte4(SslRequestCode)
    [] req.kind = "startup" ->
         Byte4(ProtocolVersion)
           \o (Flat([i \in DOMAIN req.params |->
                       Zero(req.params[i][1]) \o Zero(req.params[i][2])]) \o <<0>>)
    [] req.kind = "password" -> Zero(req.password)
    [] req.kind = "query" -> Zero(req.query)
    [] req.kind = "terminate" -> <<>>
    [] req.kind = "saslInitial" -> Zero(req.mechanism) \o (Byte4(Len(req.data)) \o req.data)
    [] req.kind = "saslResponse" -> req.data

LEMMA Codes ==
  ProtocolVersion \in Int32 /\ SslRequestCode \in Int32 /\ ProtocolVersion # SslRequestCode
BY SMT DEF ProtocolVersion, SslRequestCode, Int32

LEMMA ClientKinds ==
  ASSUME NEW req \in ClientMessages
  PROVE  /\ req.kind \in UntypedKinds \cup TypedKinds
         /\ req.kind \in {"ssl", "terminate"} => req = [kind |-> req.kind]
         /\ req.kind = "startup" =>
              req.params \in Seq(Parameters) /\ req = [kind |-> "startup", params |-> req.params]
         /\ req.kind = "password" =>
              req.password \in CStrings /\ req = [kind |-> "password", password |-> req.password]
         /\ req.kind = "query" =>
              req.query \in CStrings /\ req = [kind |-> "query", query |-> req.query]
         /\ req.kind = "saslInitial" =>
              /\ req.mechanism \in CStrings /\ req.data \in Data
              /\ req = [kind |-> "saslInitial", mechanism |-> req.mechanism, data |-> req.data]
         /\ req.kind = "saslResponse" =>
              req.data \in Data /\ req = [kind |-> "saslResponse", data |-> req.data]
BY DEF ClientMessages, UntypedKinds, TypedKinds

LEMMA ContentKinds ==
  ASSUME NEW req
  PROVE  /\ req.kind = "ssl" => Content(req) = Byte4(SslRequestCode)
         /\ req.kind = "startup" =>
              Content(req) = Byte4(ProtocolVersion)
                \o (Flat([i \in DOMAIN req.params |->
                            Zero(req.params[i][1]) \o Zero(req.params[i][2])]) \o <<0>>)
         /\ req.kind = "password" => Content(req) = Zero(req.password)
         /\ req.kind = "query" => Content(req) = Zero(req.query)
         /\ req.kind = "terminate" => Content(req) = <<>>
         /\ req.kind = "saslInitial" =>
              Content(req) = Zero(req.mechanism) \o (Byte4(Len(req.data)) \o req.data)
         /\ req.kind = "saslResponse" => Content(req) = req.data
BY DEF Content

LEMMA EncodeKinds ==
  ASSUME NEW req
  PROVE  /\ req.kind = "startup" => Encode(req) = EncodeStartup(req)
         /\ req.kind = "ssl" => Encode(req) = EncodeSslRequest
         /\ req.kind = "password" => Encode(req) = <<112>> \o EncodePassword(req)
         /\ req.kind = "query" => Encode(req) = <<81>> \o EncodeQuery(req)
         /\ req.kind = "terminate" => Encode(req) = <<88>> \o EncodeTerminate
         /\ req.kind = "saslInitial" => Encode(req) = <<112>> \o EncodeSaslInitialResponse(req)
         /\ req.kind = "saslResponse" => Encode(req) = <<112>> \o EncodeSaslResponse(req)
BY DEF Encode, RequestTags

LEMMA TagsOfRequests ==
  /\ RequestTags["password"] = 112 /\ RequestTags["saslInitial"] = 112
  /\ RequestTags["saslResponse"] = 112 /\ RequestTags["query"] = 81
  /\ RequestTags["terminate"] = 88 /\ DOMAIN RequestTags = TypedKinds
  /\ \A t \in {112, 81, 88} : t \in Octets
BY DEF RequestTags, TypedKinds, Octets

LEMMA StartupContent ==
  ASSUME NEW params \in Seq(Parameters)
  PROVE  LET flat == Flat([i \in DOMAIN params |-> Zero(params[i][1]) \o Zero(params[i][2])])
         IN  /\ flat \in Data /\ <<0>> \in Data /\ flat \o <<0>> \in Data
             /\ Byte4(ProtocolVersion) \in Data
             /\ Byte4(ProtocolVersion) \o (flat \o <<0>>) \in Data
             /\ (Byte4(ProtocolVersion) \o flat) \o <<0>>
                  = Byte4(ProtocolVersion) \o (flat \o <<0>>)
<1> DEFINE n == Len(params)
           w == [i \in DOMAIN params |-> Zero(params[i][1]) \o Zero(params[i][2])]
           flat == Flat(w)
           a == Byte4(ProtocolVersion)
           e == <<0>>
<1>1. n \in Nat /\ DOMAIN params = 1 .. n /\ \A i \in 1 .. n : params[i] \in Parameters
  OBVIOUS
<1>2. ASSUME NEW i \in 1 .. n PROVE w[i] \in Data
  <2>1. Zero(params[i][1]) \o Zero(params[i][2]) \in Data
    BY <1>1, PairBytes
  <2> QED
    BY <1>1, <2>1
<1>3. w = [i \in 1 .. n |-> w[i]]
  BY <1>1
<1> HIDE DEF w, n
<1>4. w \in Seq(Data)
  BY <1>1, <1>2, <1>3
<1>5. flat \in Data
  BY <1>4, FlatData
<1>6. e \in Data
  BY DEF Data, Octets
<1>7. a \in Data
  BY Codes, Four
<1> HIDE DEF flat, a, e
<1>8. flat \o e \in Data /\ a \o (flat \o e) \in Data /\ (a \o flat) \o e = a \o (flat \o e)
  BY <1>5, <1>6, <1>7, Joined, Associative
<1> QED
  BY <1>5, <1>6, <1>7, <1>8 DEF flat, a, e, w

LEMMA ContentData ==
  ASSUME NEW req \in ClientMessages
  PROVE  Content(req) \in Data /\ Len(Content(req)) \in Nat
<1>1. Content(req) \in Data
  <2>1. CASE req.kind = "ssl"
    <3>1. Content(req) = Byte4(SslRequestCode)
      BY <2>1, ContentKinds
    <3> QED
      BY <3>1, Codes, Four
  <2>2. CASE req.kind = "startup"
    <3>1. req.params \in Seq(Parameters)
      BY <2>2, ClientKinds
    <3> DEFINE c == Byte4(ProtocolVersion)
                      \o (Flat([i \in DOMAIN req.params |->
                                  Zero(req.params[i][1]) \o Zero(req.params[i][2])]) \o <<0>>)
    <3>2. Content(req) = c
      BY <2>2, ContentKinds
    <3>3. c \in Data
      BY <3>1, StartupContent
    <3> QED
      BY <3>2, <3>3
  <2>3. CASE req.kind = "password"
    <3>1. req.password \in CStrings
      BY <2>3, ClientKinds
    <3>2. Content(req) = Zero(req.password)
      BY <2>3, ContentKinds
    <3> QED
      BY <3>1, <3>2, ZeroEnds
  <2>4. CASE req.kind = "query"
    <3>1. req.query \in CStrings
      BY <2>4, ClientKinds
    <3>2. Content(req) = Zero(req.query)
      BY <2>4, ContentKinds
    <3> QED
      BY <3>1, <3>2, ZeroEnds
  <2>5. CASE req.kind = "terminate"
    <3>1. Content(req) = <<>>
      BY <2>5, ContentKinds
    <3> QED
      BY <3>1 DEF Data
  <2>6. CASE req.kind = "saslInitial"
    <3>1. req.mechanism \in CStrings /\ req.data \in Data
      BY <2>6, ClientKinds
    <3>2. Zero(req.mechanism) \in Data /\ Byte4(Len(req.data)) \in Data
      <4>1. Len(req.data) \in Int
        BY <3>1 DEF Data
      <4> QED
        BY <3>1, <4>1, ZeroEnds, FourBytes
    <3>3. Content(req) = Zero(req.mechanism) \o (Byte4(Len(req.data)) \o req.data)
      BY <2>6, ContentKinds
    <3>4. Byte4(Len(req.data)) \o req.data \in Data
      BY <3>1, <3>2, Joined
    <3> QED
      BY <3>2, <3>3, <3>4, Joined
  <2>7. CASE req.kind = "saslResponse"
    BY <2>7, ClientKinds, ContentKinds
  <2> QED
    BY <2>1, <2>2, <2>3, <2>4, <2>5, <2>6, <2>7, ClientKinds DEF UntypedKinds, TypedKinds
<1> QED
  BY <1>1 DEF Data

LEMMA EncodeIs ==
  ASSUME NEW req \in ClientMessages
  PROVE  LET c == Content(req)
             rest == Byte4(Len(c) + 4) \o c
         IN  /\ req.kind \in UntypedKinds => Encode(req) = rest
             /\ req.kind \in TypedKinds => Encode(req) = <<RequestTags[req.kind]>> \o rest
<1> DEFINE c == Content(req)
           rest == Byte4(Len(c) + 4) \o c
<1>1. c \in Data /\ Len(c) \in Nat
  BY ContentData
<1>2. CASE req.kind = "startup"
  <2> DEFINE flat == Flat([i \in DOMAIN req.params |->
                             Zero(req.params[i][1]) \o Zero(req.params[i][2])])
  <2>1. req.params \in Seq(Parameters)
    BY <1>2, ClientKinds
  <2>2. c = (Byte4(ProtocolVersion) \o flat) \o <<0>>
    <3>1. c = Byte4(ProtocolVersion) \o (flat \o <<0>>)
      BY <1>2, ContentKinds
    <3> QED
      BY <2>1, <3>1, StartupContent
  <2>3. Encode(req) = WithLength((Byte4(ProtocolVersion) \o flat) \o <<0>>)
    BY <1>2, EncodeKinds DEF EncodeStartup
  <2>4. Encode(req) = WithLength(c)
    BY <2>2, <2>3
  <2>5. req.kind \notin TypedKinds
    BY <1>2 DEF TypedKinds
  <2> QED
    BY <2>4, <2>5 DEF WithLength
<1>3. CASE req.kind = "ssl"
  <2>1. c = Byte4(SslRequestCode)
    BY <1>3, ContentKinds
  <2>2. Len(c) + 4 = 8
    <3>1. Len(Byte4(SslRequestCode)) = 4
      BY Codes, Four
    <3> QED
      BY <2>1, <3>1
  <2>3. Encode(req) = Byte4(8) \o Byte4(SslRequestCode)
    BY <1>3, EncodeKinds DEF EncodeSslRequest
  <2>4. req.kind \notin TypedKinds
    BY <1>3 DEF TypedKinds
  <2> QED
    BY <2>1, <2>2, <2>3, <2>4
<1>4. CASE req.kind \in TypedKinds
  <2>1. CASE req.kind = "password"
    <3>1. Encode(req) = <<112>> \o WithLength(c)
      <4>1. c = Zero(req.password)
        BY <2>1, ContentKinds
      <4>2. Encode(req) = <<112>> \o WithLength(Zero(req.password))
        BY <2>1, EncodeKinds DEF EncodePassword
      <4> QED
        BY <4>1, <4>2
    <3> QED
      BY <2>1, <3>1, TagsOfRequests DEF WithLength, UntypedKinds
  <2>2. CASE req.kind = "query"
    <3>1. Encode(req) = <<81>> \o WithLength(c)
      <4>1. c = Zero(req.query)
        BY <2>2, ContentKinds
      <4>2. Encode(req) = <<81>> \o WithLength(Zero(req.query))
        BY <2>2, EncodeKinds DEF EncodeQuery
      <4> QED
        BY <4>1, <4>2
    <3> QED
      BY <2>2, <3>1, TagsOfRequests DEF WithLength, UntypedKinds
  <2>3. CASE req.kind = "terminate"
    <3>1. Encode(req) = <<88>> \o Byte4(4)
      BY <2>3, EncodeKinds DEF EncodeTerminate
    <3>2. c = <<>> /\ Len(c) + 4 = 4
      <4>1. c = <<>>
        BY <2>3, ContentKinds
      <4> QED
        BY <4>1
    <3>3. Byte4(4) \o <<>> = Byte4(4)
      <4>1. Byte4(4) \in Data
        BY FourBytes
      <4> QED
        BY <4>1 DEF Data
    <3>4. rest = Byte4(4)
      BY <3>2, <3>3
    <3> QED
      BY <2>3, <3>1, <3>4, TagsOfRequests DEF UntypedKinds
  <2>4. CASE req.kind = "saslInitial"
    <3> DEFINE d == req.data
               m == Zero(req.mechanism)
               l == Byte4(Len(d))
    <3>1. m \in Data /\ l \in Data /\ d \in Data
      <4>1. req.mechanism \in CStrings /\ d \in Data
        BY <2>4, ClientKinds
      <4>2. Len(d) \in Int
        BY <4>1 DEF Data
      <4> QED
        BY <4>1, <4>2, ZeroEnds, FourBytes
    <3>2. c = m \o (l \o d)
      BY <2>4, ContentKinds
    <3>3. Encode(req) = <<112>> \o WithLength((m \o l) \o d)
      BY <2>4, EncodeKinds DEF EncodeSaslInitialResponse
    <3> HIDE DEF m, l, d
    <3>4. (m \o l) \o d = c
      BY <3>1, <3>2, Associative
    <3>5. Encode(req) = <<112>> \o WithLength(c)
      BY <3>3, <3>4
    <3> QED
      BY <2>4, <3>5, TagsOfRequests DEF WithLength, UntypedKinds
  <2>5. CASE req.kind = "saslResponse"
    <3>1. Encode(req) = <<112>> \o WithLength(c)
      <4>1. c = req.data
        BY <2>5, ContentKinds
      <4>2. Encode(req) = <<112>> \o WithLength(req.data)
        BY <2>5, EncodeKinds DEF EncodeSaslResponse
      <4> QED
        BY <4>1, <4>2
    <3> QED
      BY <2>5, <3>1, TagsOfRequests DEF WithLength, UntypedKinds
  <2> QED
    BY <1>4, <2>1, <2>2, <2>3, <2>4, <2>5 DEF TypedKinds
<1> QED
  BY <1>2, <1>3, <1>4, ClientKinds DEF UntypedKinds

LEMMA EncodeLength ==
  ASSUME NEW req \in ClientMessages, Len(Encode(req)) \in Int32
  PROVE  LET n == Len(Content(req))
         IN  /\ n \in Nat /\ n + 4 \in Int32 /\ Encode(req) \in Data
             /\ Len(Encode(req)) = IF req.kind \in UntypedKinds THEN n + 4 ELSE n + 5
<1> DEFINE c == Content(req)
           n == Len(c)
           a == Byte4(n + 4)
           rest == a \o c
<1>1. c \in Data /\ n \in Nat
  BY ContentData
<1>2. a \in Data /\ Len(a) = 4
  <2>1. n + 4 \in Int
    BY <1>1
  <2> HIDE DEF n
  <2> QED
    BY <2>1, FourBytes
<1>3. (req.kind \in UntypedKinds => Encode(req) = rest)
      /\ (req.kind \in TypedKinds => Encode(req) = <<RequestTags[req.kind]>> \o rest)
  BY EncodeIs
<1> HIDE DEF c, a
<1>4. rest \in Data /\ Len(rest) = n + 4
  <2>1. rest \in Data /\ Len(rest) = Len(a) + Len(c)
    BY <1>1, <1>2, Joined
  <2> QED
    BY <1>1, <1>2, <2>1
<1> HIDE DEF rest, n
<1>5. CASE req.kind \in UntypedKinds
  BY <1>1, <1>3, <1>4, <1>5 DEF n, c
<1>6. CASE req.kind \notin UntypedKinds
  <2>1. req.kind \in TypedKinds
    BY <1>6, ClientKinds
  <2> DEFINE t == <<RequestTags[req.kind]>>
  <2>2. t \in Data /\ Len(t) = 1
    <3>1. RequestTags[req.kind] \in Octets
      BY <2>1, TagsOfRequests DEF TypedKinds
    <3> QED
      BY <3>1 DEF Data
  <2>3. Encode(req) = t \o rest
    BY <1>3, <2>1
  <2> HIDE DEF t
  <2>4. Encode(req) \in Data /\ Len(Encode(req)) = Len(t) + Len(rest)
    <3>1. t \o rest \in Data /\ Len(t \o rest) = Len(t) + Len(rest)
      BY <1>4, <2>2, Joined
    <3> QED
      BY <2>3, <3>1
  <2>5. Len(Encode(req)) = n + 5
    BY <1>1, <1>4, <2>2, <2>4
  <2>6. n + 4 \in Int32
    BY <1>1, <2>5 DEF Int32
  <2> QED
    BY <1>1, <1>6, <2>4, <2>5, <2>6 DEF n, c
<1> QED
  BY <1>5, <1>6

LEMMA ReadsUntyped ==
  ASSUME NEW req \in ClientMessages, req.kind \in UntypedKinds
  PROVE  ReadUntyped(Content(req)) = req
<1>1. CASE req.kind = "ssl"
  <2> DEFINE c == Byte4(SslRequestCode)
  <2>1. Content(req) = c /\ req = [kind |-> "ssl"]
    BY <1>1, ContentKinds, ClientKinds
  <2>2. Be32(c, 1) = SslRequestCode
    BY Codes, Four
  <2> HIDE DEF c
  <2>3. ReadUntyped(c) = [kind |-> "ssl"]
    BY <2>2 DEF ReadUntyped
  <2> QED
    BY <2>1, <2>3
<1>2. CASE req.kind = "startup"
  <2> DEFINE rest == Flat([i \in DOMAIN req.params |->
                             Zero(req.params[i][1]) \o Zero(req.params[i][2])]) \o <<0>>
             c == Byte4(ProtocolVersion) \o rest
  <2>1. /\ req.params \in Seq(Parameters) /\ req = [kind |-> "startup", params |-> req.params]
    BY <1>2, ClientKinds
  <2>2. Content(req) = c
    BY <1>2, ContentKinds
  <2>3. rest \in Data /\ PairsFrom(c, 5) = req.params
    BY <2>1, Codes, PairsThere
  <2> HIDE DEF rest
  <2>4. Be32(c, 1) = ProtocolVersion
    BY <2>3, Codes, AuthHead
  <2> HIDE DEF c
  <2>5. ReadUntyped(c) = [kind |-> "startup", params |-> req.params]
    BY <2>3, <2>4, Codes DEF ReadUntyped
  <2> QED
    BY <2>1, <2>2, <2>5
<1> QED
  BY <1>1, <1>2 DEF UntypedKinds

(* What may follow, by what has been written.                              *)
LEMMA WhatFollows ==
  ASSUME asks \in {"trust", "password", "sasl"}, NEW last, NEW kind,
         last \in {"none"} \cup UntypedKinds \cup TypedKinds, kind \in Following(last)
  PROVE  /\ kind \in UntypedKinds \cup TypedKinds
         /\ last \in {"none", "ssl"} <=> kind \in UntypedKinds
         /\ kind \in TypedKinds =>
              {k \in Following(last) :
                 k \in DOMAIN RequestTags /\ RequestTags[k] = RequestTags[kind]} = {kind}
<1>1. CASE last \in {"none", "ssl"}
  <2>1. kind \in {"ssl", "startup"}
    BY <1>1 DEF Following
  <2> QED
    BY <1>1, <2>1 DEF UntypedKinds, TypedKinds
<1>2. CASE last = "startup"
  <2>1. \/ Following(last) = {"query", "terminate"} \/ Following(last) = {"password"}
        \/ Following(last) = {"saslInitial"}
    BY <1>2 DEF Following
  <2> QED
    BY <1>2, <2>1, TagsOfRequests DEF UntypedKinds, TypedKinds
<1>3. CASE last = "saslInitial"
  <2>1. Following(last) = {"saslResponse"}
    BY <1>3 DEF Following
  <2> QED
    BY <1>3, <2>1, TagsOfRequests DEF UntypedKinds, TypedKinds
<1>4. CASE last \in {"password", "saslResponse", "query"}
  <2>1. Following(last) = {"query", "terminate"}
    BY <1>4 DEF Following
  <2> QED
    BY <1>4, <2>1, TagsOfRequests DEF UntypedKinds, TypedKinds
<1>5. CASE last = "terminate"
  BY <1>5 DEF Following
<1> QED
  BY <1>1, <1>2, <1>3, <1>4, <1>5 DEF UntypedKinds, TypedKinds

LEMMA ReadsTyped ==
  ASSUME asks \in {"trust", "password", "sasl"},
         LastKind(seen) \in {"none"} \cup UntypedKinds \cup TypedKinds,
         NEW req \in ClientMessages, Len(Encode(req)) \in Int32,
         req.kind \in TypedKinds, req.kind \in Following(LastKind(seen))
  PROVE  ReadTyped(RequestTags[req.kind], Content(req)) = req
<1> DEFINE c == Content(req)
           tag == RequestTags[req.kind]
           Kinds == {k \in Following(LastKind(seen)) :
                       k \in DOMAIN RequestTags /\ RequestTags[k] = tag}
           data == EndOf(c, 1) + 1
<1>1. Kinds = {req.kind}
  BY WhatFollows
<1>2. ReadTyped(tag, c) =
        CASE Kinds = {"password"} -> [kind |-> "password", password |-> StringAt(c, 1)]
          [] Kinds = {"query"} -> [kind |-> "query", query |-> StringAt(c, 1)]
          [] Kinds = {"terminate"} -> [kind |-> "terminate"]
          [] Kinds = {"saslInitial"} /\ data > 1 /\ data + 3 <= Len(c) ->
               [kind |-> "saslInitial", mechanism |-> StringAt(c, 1),
                data |-> SubSeq(c, data + 4, data + 3 + Be32(c, data))]
          [] Kinds = {"saslResponse"} -> [kind |-> "saslResponse", data |-> c]
          [] OTHER -> [kind |-> "unknown"]
  BY Zenon DEF ReadTyped
<1> HIDE DEF Kinds, tag
<1>3. CASE req.kind = "password"
  <2>1. req.password \in CStrings /\ req = [kind |-> "password", password |-> req.password]
    BY <1>3, ClientKinds
  <2>2. c = Zero(req.password)
    BY <1>3, ContentKinds
  <2>3. StringAt(c, 1) = req.password
    BY <2>1, <2>2, ZeroEnds, Whole, StringThere
  <2> HIDE DEF c
  <2>4. ReadTyped(tag, c) = [kind |-> "password", password |-> StringAt(c, 1)]
    BY <1>1, <1>2, <1>3
  <2> QED
    BY <2>1, <2>3, <2>4 DEF c, tag
<1>4. CASE req.kind = "query"
  <2>1. req.query \in CStrings /\ req = [kind |-> "query", query |-> req.query]
    BY <1>4, ClientKinds
  <2>2. c = Zero(req.query)
    BY <1>4, ContentKinds
  <2>3. StringAt(c, 1) = req.query
    BY <2>1, <2>2, ZeroEnds, Whole, StringThere
  <2> HIDE DEF c
  <2>4. ReadTyped(tag, c) = [kind |-> "query", query |-> StringAt(c, 1)]
    BY <1>1, <1>2, <1>4
  <2> QED
    BY <2>1, <2>3, <2>4 DEF c, tag
<1>5. CASE req.kind = "terminate"
  <2>1. req = [kind |-> "terminate"]
    BY <1>5, ClientKinds
  <2> HIDE DEF c
  <2>2. ReadTyped(tag, c) = [kind |-> "terminate"]
    BY <1>1, <1>2, <1>5
  <2> QED
    BY <2>1, <2>2 DEF c, tag
<1>6. CASE req.kind = "saslResponse"
  <2>1. req = [kind |-> "saslResponse", data |-> req.data]
    BY <1>6, ClientKinds
  <2>2. c = req.data
    BY <1>6, ContentKinds
  <2> HIDE DEF c
  <2>3. ReadTyped(tag, c) = [kind |-> "saslResponse", data |-> c]
    BY <1>1, <1>2, <1>6
  <2> QED
    BY <2>1, <2>2, <2>3 DEF c, tag
<1>7. CASE req.kind = "saslInitial"
  <2> DEFINE m == req.mechanism
             d == req.data
             n == Len(d)
             z == Zero(m)
             l == Byte4(n)
  <2>1. m \in CStrings /\ d \in Data /\ req = [kind |-> "saslInitial", mechanism |-> m, data |-> d]
    BY <1>7, ClientKinds
  <2>2. c = z \o (l \o d)
    BY <1>7, ContentKinds
  <2>3. Len(c) \in Nat /\ Len(c) + 4 \in Int32
    BY EncodeLength
  <2> HIDE DEF c, m, d
  <2>4. n \in Nat /\ z \in Data /\ Len(z) = Len(m) + 1 /\ Len(m) \in Nat
    BY <2>1, ZeroEnds DEF Data
  <2>5. l \in Data /\ Len(l) = 4
    <3>1. n \in Int
      BY <2>4
    <3> HIDE DEF n
    <3> QED
      BY <3>1, FourBytes
  <2> HIDE DEF z, l
  <2>6. l \o d \in Data /\ Len(l \o d) = 4 + n
    <3>1. l \o d \in Data /\ Len(l \o d) = Len(l) + Len(d)
      BY <2>1, <2>5, Joined
    <3> QED
      BY <2>5, <3>1
  <2>7. /\ c \in Data /\ Len(c) = Len(z) + Len(l \o d)
        /\ Occurs(z, c, 1) /\ Occurs(l \o d, c, 1 + Len(z))
    BY <2>2, <2>4, <2>6, Parted
  <2>8. /\ Occurs(l, c, 1 + Len(z)) /\ Occurs(d, c, 1 + Len(z) + Len(l))
    BY <2>1, <2>5, <2>7, OccursBoth
  <2>9. EndOf(c, 1) = 1 + Len(m) /\ StringAt(c, 1) = m
    BY <2>1, <2>7, StringThere DEF z
  <2> HIDE DEF n
  <2>10. n \in Int32
    BY <2>3, <2>4, <2>6, <2>7 DEF Int32
  <2>11. /\ data = 1 + Len(z) /\ data > 1 /\ data + 4 = 1 + Len(z) + Len(l)
         /\ data + 3 <= Len(c) /\ data \in Nat
    BY <2>4, <2>5, <2>6, <2>7, <2>9
  <2> HIDE DEF data
  <2>12. Be32(c, data) = n
    BY <2>7, <2>8, <2>10, <2>11, Be32At DEF l
  <2>13. SubSeq(c, data + 4, data + 3 + n) = d
    <3>1. SubSeq(c, data + 4, data + 4 + Len(d) - 1) = d
      BY <2>1, <2>7, <2>8, <2>11, Cut
    <3>2. data + 4 + Len(d) - 1 = data + 3 + n
      BY <2>4, <2>11 DEF n
    <3> QED
      BY <3>1, <3>2
  <2>14. ReadTyped(tag, c) = [kind |-> "saslInitial", mechanism |-> StringAt(c, 1),
                              data |-> SubSeq(c, data + 4, data + 3 + Be32(c, data))]
    BY <1>1, <1>2, <1>7, <2>11
  <2> QED
    BY <2>1, <2>9, <2>12, <2>13, <2>14 DEF c, tag
<1> QED
  BY <1>3, <1>4, <1>5, <1>6, <1>7 DEF TypedKinds

(* The server cuts the next message out where it was put in.               *)
LEMMA CutsMessage ==
  ASSUME NEW req \in ClientMessages, Len(Encode(req)) \in Int32,
         wire \in Data, Occurs(Encode(req), wire, 1), Untyped <=> req.kind \in UntypedKinds
  PROVE  /\ HasMessage /\ EndOfMessage = Len(Encode(req))
         /\ SubSeq(wire, LengthAt + 4, EndOfMessage) = Content(req)
         /\ ~Untyped => wire[1] = RequestTags[req.kind]
<1> DEFINE c == Content(req)
           n == Len(c)
           a == Byte4(n + 4)
           rest == a \o c
           w == Encode(req)
<1>1. /\ c \in Data /\ n \in Nat /\ n + 4 \in Int32 /\ w \in Data
      /\ Len(w) = IF req.kind \in UntypedKinds THEN n + 4 ELSE n + 5
  BY EncodeLength, ContentData
<1>2. /\ req.kind \in UntypedKinds => w = rest
      /\ req.kind \in TypedKinds => w = <<RequestTags[req.kind]>> \o rest
  BY EncodeIs
<1>3. a \in Data /\ Len(a) = 4
  <2> HIDE DEF n
  <2> QED
    BY <1>1, Four
<1> HIDE DEF c, a, w
<1>4. rest \in Data
  BY <1>1, <1>3, Joined
<1>5. Len(wire) >= Len(w) /\ Len(wire) \in Nat
  <2>1. Len(w) \in Nat /\ Len(wire) \in Nat
    BY <1>1 DEF Data
  <2> QED
    BY <2>1 DEF Occurs, w
<1>6. Occurs(rest, wire, LengthAt) /\ (~Untyped => wire[1] = RequestTags[req.kind])
  <2>1. CASE Untyped
    BY <1>2, <2>1 DEF LengthAt, w
  <2>2. CASE ~Untyped
    <3> DEFINE t == <<RequestTags[req.kind]>>
    <3>1. req.kind \in TypedKinds
      BY <2>2, ClientKinds
    <3>2. t \in Data /\ Len(t) = 1 /\ t[1] = RequestTags[req.kind]
      <4>1. RequestTags[req.kind] \in Octets
        BY <3>1, TagsOfRequests DEF TypedKinds
      <4> QED
        BY <4>1 DEF Data
    <3>3. w = t \o rest
      BY <1>2, <3>1
    <3> HIDE DEF t, rest
    <3>4. Occurs(t, wire, 1) /\ Occurs(rest, wire, 1 + Len(t))
      BY <1>4, <3>2, <3>3, OccursBoth DEF w
    <3>5. wire[1] = t[1]
      BY <3>2, <3>4 DEF Occurs
    <3> QED
      BY <2>2, <3>2, <3>4, <3>5 DEF LengthAt
  <2> QED
    BY <2>1, <2>2
<1>7. Occurs(a, wire, LengthAt) /\ Occurs(c, wire, LengthAt + 4)
  <2>1. Occurs(a, wire, LengthAt) /\ Occurs(c, wire, LengthAt + Len(a))
    BY <1>1, <1>3, <1>6, OccursBoth
  <2> QED
    BY <1>3, <2>1
<1>8. Be32(wire, LengthAt) = n + 4
  <2> HIDE DEF n
  <2> QED
    BY <1>1, <1>7, Be32At DEF a
<1> HIDE DEF n
<1>9. EndOfMessage = Len(w) /\ EndOfMessage = LengthAt + 3 + n /\ LengthAt \in {1, 2}
  <2>1. CASE Untyped
    <3>1. LengthAt = 1 /\ Len(w) = n + 4
      BY <1>1, <2>1 DEF LengthAt
    <3> QED
      BY <1>1, <1>8, <3>1 DEF EndOfMessage
  <2>2. CASE ~Untyped
    <3>1. LengthAt = 2 /\ Len(w) = n + 5
      BY <1>1, <2>2 DEF LengthAt
    <3> QED
      BY <1>1, <1>8, <3>1 DEF EndOfMessage
  <2> QED
    BY <2>1, <2>2
<1>10. HasMessage
  BY <1>1, <1>5, <1>9 DEF HasMessage
<1>11. SubSeq(wire, LengthAt + 4, EndOfMessage) = c
  <2>1. SubSeq(wire, LengthAt + 4, LengthAt + 4 + Len(c) - 1) = c
    BY <1>1, <1>7, Cut
  <2>2. LengthAt + 4 + Len(c) - 1 = EndOfMessage
    BY <1>1, <1>9 DEF n
  <2> QED
    BY <2>1, <2>2
<1> QED
  BY <1>6, <1>9, <1>10, <1>11 DEF w, c

-----------------------------------------------------------------------------
(* What the server has not read is the bytes of the messages it has not    *)
(* read, and each of them may follow the one before.                       *)
EncodeOf == [req \in Requests |-> Encode(req)]
Unseen == Flat(Coded(EncodeOf, sent, Len(seen)))
KindBefore(messages, i) == IF i = 1 THEN "none" ELSE messages[i - 1].kind
InProtocolOrder == \A i \in 1 .. Len(sent) : sent[i].kind \in Following(KindBefore(sent, i))
EncodingInv ==
  /\ EncodingType
  /\ seen \in Seq(Requests) /\ Len(seen) <= Len(sent) /\ seen = SubSeq(sent, 1, Len(seen))
  /\ wire = Unseen
  /\ InProtocolOrder

LEMMA RequestsSound ==
  /\ \A req \in Requests : /\ req \in ClientMessages /\ Len(Encode(req)) \in Int32
                           /\ Encode(req) \in Data /\ Len(Encode(req)) >= 4
                           /\ req.kind \in UntypedKinds \cup TypedKinds
  /\ EncodeOf \in [Requests -> Data]
  /\ \A req \in Requests : EncodeOf[req] = Encode(req)
<1>1. ASSUME NEW req \in Requests
      PROVE  /\ req \in ClientMessages /\ Len(Encode(req)) \in Int32
             /\ Encode(req) \in Data /\ Len(Encode(req)) >= 4
             /\ req.kind \in UntypedKinds \cup TypedKinds
  <2>1. req \in ClientMessages /\ Len(Encode(req)) \in Int32
    BY RequestsAssumption
  <2> DEFINE n == Len(Content(req))
  <2>2. /\ n \in Nat /\ Encode(req) \in Data
        /\ Len(Encode(req)) = IF req.kind \in UntypedKinds THEN n + 4 ELSE n + 5
    BY <2>1, EncodeLength
  <2> HIDE DEF n
  <2> QED
    BY <2>1, <2>2, ClientKinds
<1> QED
  BY <1>1 DEF EncodeOf

LEMMA LastSeen ==
  ASSUME NEW s \in Seq(Requests), NEW n \in 0 .. Len(s)
  PROVE  /\ LastKind(SubSeq(s, 1, n)) = KindBefore(s, n + 1)
         /\ KindBefore(s, n + 1) \in {"none"} \cup UntypedKinds \cup TypedKinds
<1> DEFINE t == SubSeq(s, 1, n)
<1>1. t \in Seq(Requests) /\ Len(t) = n /\ (n # 0 => t[n] = s[n] /\ s[n] \in Requests) /\ n \in Nat
  OBVIOUS
<1> HIDE DEF t
<1>2. CASE n = 0
  <2>1. t = <<>>
    BY <1>1, <1>2
  <2> QED
    BY <1>2, <2>1 DEF LastKind, KindBefore, t
<1>3. CASE n # 0
  <2>1. t # <<>> /\ LastKind(t) = s[n].kind
    BY <1>1, <1>3 DEF LastKind
  <2>2. KindBefore(s, n + 1) = s[n].kind
    BY <1>1, <1>3 DEF KindBefore
  <2> QED
    BY <1>1, <1>3, <2>1, <2>2, RequestsSound DEF t
<1> QED
  BY <1>2, <1>3

(* The next message is there whole, and is read as what it is.             *)
LEMMA NextThere ==
  ASSUME EncodingInv, Len(seen) < Len(sent)
  PROVE  LET h == sent[Len(seen) + 1]
             body == SubSeq(wire, LengthAt + 4, EndOfMessage)
         IN  /\ HasMessage /\ wire # <<>>
             /\ (IF Untyped THEN ReadUntyped(body) ELSE ReadTyped(wire[1], body)) = h
             /\ SubSeq(wire, EndOfMessage + 1, Len(wire))
                  = Flat(Coded(EncodeOf, sent, Len(seen) + 1))
<1> DEFINE n == Len(seen)
           h == sent[n + 1]
           w == Encode(h)
           r == Flat(Coded(EncodeOf, sent, n + 1))
           last == LastKind(seen)
           body == SubSeq(wire, LengthAt + 4, EndOfMessage)
<1>1. /\ sent \in Seq(Requests) /\ n \in 0 .. Len(sent) /\ n # Len(sent) /\ wire \in Data
      /\ n + 1 \in 1 .. Len(sent) /\ h \in Requests /\ n + 1 \in 0 .. Len(sent)
      /\ asks \in {"trust", "password", "sasl"}
      /\ wire = Flat(Coded(EncodeOf, sent, n)) /\ seen = SubSeq(sent, 1, n)
  BY DEF EncodingInv, EncodingType, Unseen
<1> HIDE DEF n
<1>2. h \in ClientMessages /\ Len(w) \in Int32 /\ w \in Data /\ Len(w) >= 4 /\ EncodeOf[h] = w
  BY <1>1, RequestsSound
<1>3. r \in Data
  BY <1>1, CodedData, FlatData, RequestsSound
<1>4. wire = w \o r
  <2>1. Flat(Coded(EncodeOf, sent, n)) = EncodeOf[sent[n + 1]] \o r
    BY <1>1, CodedHead, RequestsSound
  <2> QED
    BY <1>1, <1>2, <2>1
<1> HIDE DEF w, r
<1>5. Occurs(w, wire, 1) /\ Len(wire) = Len(w) + Len(r) /\ Len(w) \in Nat /\ Len(r) \in Nat
      /\ Occurs(r, wire, 1 + Len(w))
  BY <1>2, <1>3, <1>4, Parted
<1>6. last = KindBefore(sent, n + 1) /\ last \in {"none"} \cup UntypedKinds \cup TypedKinds
  BY <1>1, LastSeen
<1>7. h.kind \in Following(last)
  BY <1>1, <1>6 DEF EncodingInv, InProtocolOrder
<1> HIDE DEF h
<1>8. Untyped <=> h.kind \in UntypedKinds
  BY <1>1, <1>6, <1>7, WhatFollows DEF Untyped
<1>9. /\ HasMessage /\ EndOfMessage = Len(w) /\ body = Content(h)
      /\ ~Untyped => wire[1] = RequestTags[h.kind]
  BY <1>1, <1>2, <1>5, <1>8, CutsMessage DEF w
<1>10. wire # <<>>
  <2>1. Len(wire) >= 4
    BY <1>2, <1>5
  <2> QED
    BY <2>1
<1>11. SubSeq(wire, EndOfMessage + 1, Len(wire)) = r
  <2>1. SubSeq(wire, 1 + Len(w), 1 + Len(w) + Len(r) - 1) = r
    BY <1>1, <1>3, <1>5, Cut
  <2>2. 1 + Len(w) = EndOfMessage + 1 /\ 1 + Len(w) + Len(r) - 1 = Len(wire)
    BY <1>5, <1>9
  <2> QED
    BY <2>1, <2>2
<1> HIDE DEF body
<1>12. (IF Untyped THEN ReadUntyped(body) ELSE ReadTyped(wire[1], body)) = h
  <2>1. CASE Untyped
    BY <1>2, <1>8, <1>9, <2>1, ReadsUntyped
  <2>2. CASE ~Untyped
    <3>1. h.kind \in TypedKinds
      BY <1>2, <1>8, <2>2, ClientKinds
    <3>2. ReadTyped(RequestTags[h.kind], Content(h)) = h
      BY <1>1, <1>2, <1>6, <1>7, <3>1, ReadsTyped DEF w
    <3> QED
      BY <1>9, <2>2, <3>2
  <2> QED
    BY <2>1, <2>2
<1> QED
  BY <1>9, <1>10, <1>11, <1>12 DEF n, h, r, body

LEMMA NothingThere ==
  ASSUME EncodingInv, Len(seen) = Len(sent)
  PROVE  wire = <<>>
<1>1. Len(sent) \in Nat /\ Coded(EncodeOf, sent, Len(seen)) = <<>>
  BY CodedNone DEF EncodingInv, EncodingType
<1> QED
  BY <1>1, FlatEmpty DEF EncodingInv, Unseen

LEMMA EncodingInitInv == EncodingInit => EncodingInv
<1> SUFFICES ASSUME EncodingInit PROVE EncodingInv
  OBVIOUS
<1>1. <<>> \in Data /\ <<>> \in Seq(Requests) /\ Len(<<>>) = 0 /\ SubSeq(<<>>, 1, 0) = <<>>
  BY DEF Data
<1>2. Coded(EncodeOf, <<>>, 0) = <<>>
  BY <1>1, CodedNone
<1>3. Unseen = <<>>
  BY <1>1, <1>2, FlatEmpty DEF EncodingInit, Unseen
<1>4. InProtocolOrder
  BY <1>1 DEF EncodingInit, InProtocolOrder
<1>5. Len(seen) <= Len(sent) /\ seen = SubSeq(sent, 1, Len(seen))
  BY <1>1 DEF EncodingInit
<1> QED
  BY <1>1, <1>3, <1>4, <1>5 DEF EncodingInit, EncodingInv, EncodingType

LEMMA EncodingStep == EncodingInv /\ [EncodingNext]_encodingVars => EncodingInv'
<1> SUFFICES ASSUME EncodingInv, [EncodingNext]_encodingVars PROVE EncodingInv'
  OBVIOUS
<1>1. /\ asks \in {"trust", "password", "sasl"} /\ sent \in Seq(Requests) /\ wire \in Data
      /\ seen \in Seq(Requests) /\ Len(seen) <= Len(sent) /\ seen = SubSeq(sent, 1, Len(seen))
      /\ wire = Unseen /\ InProtocolOrder
  BY DEF EncodingInv, EncodingType
<1>2. ASSUME NEW req \in Requests, SendMessage(req) PROVE EncodingInv'
  <2>1. /\ req.kind \in Following(LastKind(sent))
        /\ sent' = Append(sent, req) /\ wire' = wire \o Encode(req) /\ UNCHANGED <<asks, seen>>
    BY <1>2 DEF SendMessage
  <2> DEFINE n == Len(seen)
             ws == Coded(EncodeOf, sent, n)
             w == Encode(req)
             m == Len(sent)
  <2>2. n \in 0 .. m /\ m \in Nat
    BY <1>1
  <2>3. w \in Data /\ EncodeOf[req] = w
    BY RequestsSound
  <2>4. /\ sent' \in Seq(Requests) /\ Len(sent') = m + 1 /\ sent'[m + 1] = req
        /\ \A i \in 1 .. m : sent'[i] = sent[i]
    BY <1>1, <2>1
  <2>5. ws \in Seq(Data) /\ Coded(EncodeOf, sent', n) = Append(ws, EncodeOf[req])
    BY <1>1, <2>1, <2>2, CodedData, CodedAppend, RequestsSound
  <2>6. Unseen' = Flat(Append(ws, w)) /\ Unseen = Flat(ws)
    BY <2>1, <2>3, <2>5 DEF Unseen
  <2> HIDE DEF w, ws
  <2>7. wire' = Unseen' /\ wire' \in Data
    <3>1. Unseen' = Unseen \o w
      BY <2>3, <2>5, <2>6, FlatAppend
    <3>2. wire \o w \in Data
      BY <1>1, <2>3, Joined
    <3> QED
      BY <1>1, <2>1, <3>1, <3>2 DEF w
  <2>8. seen' = SubSeq(sent', 1, Len(seen'))
    <3>1. SubSeq(sent', 1, n) = SubSeq(sent, 1, n)
      BY <1>1, <2>2, <2>4
    <3> QED
      BY <1>1, <2>1, <3>1
  <2>9. InProtocolOrder'
    <3> SUFFICES ASSUME NEW i \in 1 .. Len(sent')
                 PROVE  sent'[i].kind \in Following(KindBefore(sent', i))
      BY <2>1 DEF InProtocolOrder, Following
    <3>1. CASE i = m + 1
      <4>1. LastKind(sent) = KindBefore(sent, m + 1)
        <5>1. SubSeq(sent, 1, m) = sent /\ m \in 0 .. Len(sent)
          BY <1>1
        <5> QED
          BY <1>1, <5>1, LastSeen
      <4>2. KindBefore(sent', i) = KindBefore(sent, m + 1)
        BY <2>2, <2>4, <3>1 DEF KindBefore
      <4> QED
        BY <2>1, <2>4, <3>1, <4>1, <4>2
    <3>2. CASE i # m + 1
      <4>1. i \in 1 .. m
        BY <2>2, <2>4, <3>2
      <4>2. sent'[i] = sent[i] /\ KindBefore(sent', i) = KindBefore(sent, i)
        BY <2>2, <2>4, <4>1 DEF KindBefore
      <4> QED
        BY <1>1, <4>1, <4>2 DEF InProtocolOrder
    <3> QED
      BY <3>1, <3>2
  <2>10. Len(seen') <= Len(sent')
    BY <2>1, <2>2, <2>4
  <2> QED
    BY <1>1, <2>1, <2>4, <2>7, <2>8, <2>9, <2>10 DEF EncodingInv, EncodingType
<1>3. CASE ServerReads
  <2> DEFINE body == SubSeq(wire, LengthAt + 4, EndOfMessage)
             n == Len(seen)
             h == sent[n + 1]
             r == Flat(Coded(EncodeOf, sent, n + 1))
  <2>1. /\ HasMessage
        /\ seen' = Append(seen, IF Untyped THEN ReadUntyped(body) ELSE ReadTyped(wire[1], body))
        /\ wire' = SubSeq(wire, EndOfMessage + 1, Len(wire))
        /\ UNCHANGED <<asks, sent>>
    BY <1>3 DEF ServerReads
  <2>2. n < Len(sent)
    <3>1. n \in Nat /\ Len(sent) \in Nat /\ n <= Len(sent)
      BY <1>1
    <3>2. ASSUME n = Len(sent) PROVE FALSE
      <4>1. wire = <<>>
        BY <3>2, NothingThere
      <4>2. Len(wire) = 0 /\ LengthAt \in {1, 2}
        BY <4>1 DEF LengthAt
      <4> QED
        BY <2>1, <4>2 DEF HasMessage
    <3> QED
      BY <3>1, <3>2
  <2>3. seen' = Append(seen, h) /\ wire' = r
    BY <2>1, <2>2, NextThere
  <2>4. n + 1 \in 1 .. Len(sent) /\ h \in Requests /\ n \in Nat /\ n + 1 \in 0 .. Len(sent)
    BY <1>1, <2>2
  <2>5. seen' \in Seq(Requests) /\ Len(seen') = n + 1
    BY <1>1, <2>3, <2>4
  <2>6. seen' = SubSeq(sent', 1, Len(seen'))
    <3>1. /\ SubSeq(sent, 1, n + 1 - 1) \in Seq(Requests)
          /\ Append(SubSeq(sent, 1, n + 1 - 1), sent[n + 1]) = SubSeq(sent, 1, n + 1)
      BY <1>1, <2>4, SubSeqLast
    <3>2. n + 1 - 1 = n
      BY <2>4
    <3> QED
      BY <1>1, <2>1, <2>3, <2>5, <3>1, <3>2
  <2>7. wire' = Unseen' /\ wire' \in Data
    <3>1. r \in Data
      BY <1>1, <2>4, CodedData, FlatData, RequestsSound
    <3> QED
      BY <2>1, <2>3, <2>5, <3>1 DEF Unseen
  <2>8. InProtocolOrder'
    BY <1>1, <2>1 DEF InProtocolOrder, Following
  <2>9. Len(seen') <= Len(sent')
    BY <2>1, <2>4, <2>5
  <2> HIDE DEF r, n, h, body
  <2> QED
    BY <1>1, <2>1, <2>5, <2>6, <2>7, <2>8, <2>9 DEF EncodingInv, EncodingType
<1>4. CASE UNCHANGED encodingVars
  BY <1>1, <1>4
  DEF encodingVars, EncodingInv, EncodingType, InProtocolOrder, Following, Unseen
<1> QED
  BY <1>2, <1>3, <1>4 DEF EncodingNext

LEMMA EncodingInvariant == EncodingSpec => []EncodingInv
BY EncodingInitInv, EncodingStep, PTL DEF EncodingSpec

(* The encoder writes bytes, whatever the messages: every length fits its  *)
(* four of them.                                                           *)
THEOREM EncodingTyped == EncodingSpec => []EncodingType
<1>1. EncodingInv => EncodingType
  BY DEF EncodingInv
<1> QED
  BY <1>1, EncodingInvariant, PTL

(* Whatever the messages, their number and their contents, the server      *)
(* reads every message of the client as the one that was written at that   *)
(* place, and what it has not read starts with a whole message, up to the  *)
(* last byte (ReadAsWritten).                                              *)
THEOREM WrittenIsRead == EncodingSpec => []ReadAsWritten
<1>1. EncodingInv => ReadAsWritten
  <2> SUFFICES ASSUME EncodingInv PROVE ReadAsWritten
    OBVIOUS
  <2>1. /\ Len(seen) <= Len(sent) /\ seen = SubSeq(sent, 1, Len(seen))
        /\ Len(seen) \in Nat /\ Len(sent) \in Nat
    BY DEF EncodingInv, EncodingType
  <2>2. CASE Len(seen) = Len(sent)
    BY <2>1, <2>2, NothingThere DEF ReadAsWritten
  <2>3. CASE Len(seen) < Len(sent)
    BY <2>1, <2>3, NextThere DEF ReadAsWritten
  <2> QED
    BY <2>1, <2>2, <2>3
<1> QED
  BY <1>1, EncodingInvariant, PTL
=============================================================================
