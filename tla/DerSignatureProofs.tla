------------------------- MODULE DerSignatureProofs -------------------------
(***************************************************************************)
(* Theorems about DerSignature for every width of the coordinates in COSE  *)
(* and of the signer's (P-256, P-384 and P-521 among them), in the short   *)
(* and in the long form of the length, and for all byte values.            *)
(***************************************************************************)
EXTENDS DerSignature, SequenceTheorems, WellFoundedInduction, TLAPS

Byte == 0..255

-----------------------------------------------------------------------------
(* DER integers                                                            *)

(* The first byte DER keeps exists.                                        *)
LEMMA FirstExists ==
  ASSUME NEW n \in Nat \ {0}, NEW x \in [1..n -> Byte]
  PROVE  /\ First(x) \in 1..n
         /\ \A i \in 1..(First(x) - 1) : x[i] = 0
         /\ x[First(x)] # 0 \/ First(x) = n
<1>1. Len(x) = n
  OBVIOUS
<1> DEFINE T == {k \in 1..n : x[k] # 0 \/ k = n}
<1>2. T \subseteq Nat /\ n \in T
  OBVIOUS
<1>3. PICK k \in T : \A j \in T : ~(<<j, k>> \in OpToRel(<, Nat))
  <2> HIDE DEF T
  <2> QED BY <1>2, NatLessThanWellFounded, WFMin
<1>4. \A j \in T : ~(j < k)
  BY <1>2, <1>3 DEF OpToRel
<1>5. \A i \in 1..(k - 1) : x[i] = 0
  BY <1>4
<1>6. /\ k \in 1..Len(x)
      /\ LeadingZeros(x, k - 1)
      /\ x[k] # 0 \/ k = Len(x)
  BY <1>1, <1>5 DEF LeadingZeros
<1>7. /\ First(x) \in 1..Len(x)
      /\ LeadingZeros(x, First(x) - 1)
      /\ x[First(x)] # 0 \/ First(x) = Len(x)
  <2> HIDE DEF T
  <2> QED BY <1>6 DEF First
<1> QED BY <1>1, <1>7 DEF LeadingZeros

(* A DER integer is the coordinate from its first byte on, after a zero or *)
(* not.                                                                    *)
LEMMA ContentOfCoordinate ==
  ASSUME NEW n \in Nat \ {0}, NEW x \in [1..n -> Byte]
  PROVE  LET c == Content(x)
             f == First(x)
         IN  /\ c \in Seq(Byte)
             /\ f \in 1..n
             /\ Len(c) \in {n - f + 1, n - f + 2}
             /\ Len(c) = n - f + 2 => c[1] = 0
             /\ \A i \in f..n : c[Len(c) - (n - i)] = x[i]
<1> DEFINE f    == First(x)
           kept == SubSeq(x, f, Len(x))
<1>1. Len(x) = n /\ f \in 1..n
  BY FirstExists
<1>2. /\ kept \in Seq(Byte)
      /\ Len(kept) = n - f + 1
      /\ \A i \in 1..(n - f + 1) : kept[i] = x[f + i - 1]
  <2>1. \A i \in f..n : x[i] \in Byte
    BY <1>1
  <2> HIDE DEF f
  <2> QED BY <1>1, <2>1, SubSeqProperties
<1>3. Content(x) = IF kept[1] >= 128 THEN <<0>> \o kept ELSE kept
  BY DEF Content
<1> HIDE DEF f, kept
<1>4. CASE ~(kept[1] >= 128)
  <2>1. \A i \in f..n : kept[Len(kept) - (n - i)] = x[i]
    <3> TAKE i \in f..n
    <3>1. Len(kept) - (n - i) = i - f + 1 /\ i - f + 1 \in 1..(n - f + 1)
      BY <1>1, <1>2
    <3> QED BY <1>1, <1>2, <3>1
  <2>2. Content(x) = kept
    BY <1>3, <1>4
  <2>3. Len(kept) # n - f + 2
    BY <1>1, <1>2
  <2>4. Len(kept) \in {n - f + 1, n - f + 2}
    BY <1>2
  <2> QED BY <1>1, <1>2, <2>1, <2>2, <2>3, <2>4 DEF f
<1>5. CASE kept[1] >= 128
  <2> DEFINE c == <<0>> \o kept
  <2>1. <<0>> \in Seq(Byte) /\ Len(<<0>>) = 1
    BY DEF Byte
  <2>2. /\ c \in Seq(Byte)
        /\ Len(c) = n - f + 2
        /\ \A i \in 1..Len(c) : c[i] = IF i <= 1 THEN 0 ELSE kept[i - 1]
    <3>1. Len(<<0>>) + Len(kept) = n - f + 2
      BY <1>1, <1>2, <2>1
    <3> QED BY <1>2, <2>1, <3>1, ConcatProperties
  <2>3. Content(x) = c
    BY <1>3, <1>5
  <2> HIDE DEF c
  <2>4. c[1] = 0
    BY <1>1, <2>2
  <2>5. \A i \in f..n : c[Len(c) - (n - i)] = x[i]
    <3> TAKE i \in f..n
    <3>1. /\ Len(c) - (n - i) = i - f + 2 /\ i - f + 2 \in 2..Len(c)
          /\ (i - f + 2) - 1 \in 1..(n - f + 1) /\ f + ((i - f + 2) - 1) - 1 = i
      BY <1>1, <2>2
    <3>2. c[i - f + 2] = kept[(i - f + 2) - 1]
      BY <2>2, <3>1
    <3> QED BY <1>2, <3>1, <3>2
  <2> QED BY <1>1, <2>2, <2>3, <2>4, <2>5 DEF f
<1> QED BY <1>4, <1>5

(* Trimming leaves a coordinate that is too wide without a zero before it, *)
(* and at most one before a coordinate that fits.                          *)
LEMMA TrimmedContent ==
  ASSUME CoordBytes \in Nat \ {0}, NEW n \in Nat \ {0}, NEW x \in [1..n -> Byte]
  PROVE  LET t == Trim(Content(x))
             f == First(x)
         IN  /\ Len(t) \in {n - f + 1, n - f + 2}
             /\ Len(t) = n - f + 2 => t[1] = 0
             /\ \A i \in f..n : t[Len(t) - (n - i)] = x[i]
             /\ n - f + 1 > CoordBytes => Len(t) = n - f + 1
             /\ n - f + 1 <= CoordBytes => Len(t) <= CoordBytes
<1> DEFINE c == Content(x)
           f == First(x)
           t == Trim(c)
<1>1. /\ c \in Seq(Byte)
      /\ f \in 1..n
      /\ Len(c) \in {n - f + 1, n - f + 2}
      /\ Len(c) = n - f + 2 => c[1] = 0
      /\ \A i \in f..n : c[Len(c) - (n - i)] = x[i]
  BY ContentOfCoordinate
<1>2. x[f] # 0 \/ f = n
  BY FirstExists
<1> HIDE DEF c, f
<1>3. CASE Len(c) > CoordBytes /\ c[1] = 0
  <2>1. t = Tail(c) /\ Len(c) >= 2
    BY <1>1, <1>3 DEF Trim
  <2>2. Len(c) = n - f + 2
    <3> SUFFICES ASSUME Len(c) = n - f + 1 PROVE FALSE
      BY <1>1
    <3>1. f \in f..n /\ Len(c) - (n - f) = 1
      BY <1>1
    <3>2. c[1] = x[f]
      BY <1>1, <3>1
    <3> QED BY <1>1, <1>2, <1>3, <2>1, <3>2
  <2>3. Len(t) = n - f + 1 /\ \A i \in 1..Len(t) : t[i] = c[i + 1]
    BY <1>1, <2>1, <2>2
  <2> HIDE DEF t
  <2>4. \A i \in f..n : t[Len(t) - (n - i)] = x[i]
    <3> TAKE i \in f..n
    <3>1. Len(t) - (n - i) \in 1..Len(t) /\ Len(t) - (n - i) + 1 = Len(c) - (n - i)
      BY <1>1, <2>2, <2>3
    <3> QED BY <1>1, <2>3, <3>1
  <2> QED BY <1>1, <2>3, <2>4 DEF t, c, f
<1>4. CASE ~(Len(c) > CoordBytes /\ c[1] = 0)
  <2>1. t = c
    BY <1>4 DEF Trim
  <2> HIDE DEF t
  <2> QED BY <1>1, <1>4, <2>1 DEF t, c, f
<1> QED BY <1>3, <1>4

(* Trimming and padding a DER integer gives the coordinate, in the width   *)
(* of COSE.                                                                *)
LEMMA PadRestores ==
  ASSUME CoordBytes \in Nat \ {0}, NEW n \in Nat \ {0}, NEW x \in [1..n -> Byte]
  PROVE  Pad(Trim(Content(x))) = Fitted(x)
<1> DEFINE W == CoordBytes
           f == First(x)
           t == Trim(Content(x))
<1>1. /\ Len(t) \in {n - f + 1, n - f + 2}
      /\ Len(t) = n - f + 2 => t[1] = 0
      /\ \A i \in f..n : t[Len(t) - (n - i)] = x[i]
      /\ n - f + 1 > W => Len(t) = n - f + 1
      /\ n - f + 1 <= W => Len(t) <= W
  BY TrimmedContent
<1>2. /\ Len(x) = n /\ f \in 1..n
      /\ \A i \in 1..(f - 1) : x[i] = 0
      /\ x[f] # 0 \/ f = n
  BY FirstExists
<1>3. Pad(t) = [i \in 1..W |-> LET kept  == IF Len(t) < W THEN Len(t) ELSE W
                                   zeros == W - kept
                               IN  IF i <= zeros THEN 0 ELSE t[i - zeros]]
  BY DEF Pad
<1>4. Fitted(x) = [i \in 1..W |-> IF ~LeadingZeros(x, n - W) THEN x[f + i - 1]
                                  ELSE IF i + (n - W) >= 1 THEN x[i + (n - W)] ELSE 0]
  BY <1>2 DEF Fitted
<1> HIDE DEF t, f
<1>5. LeadingZeros(x, n - W) <=> n - f + 1 <= W
  BY <1>2 DEF LeadingZeros
<1>6. CASE n - f + 1 > W
  <2>1. Len(t) >= W /\ W - W = 0
    BY <1>1, <1>2, <1>6
  <2>2. ASSUME NEW i \in 1..W PROVE t[i] = x[f + i - 1]
    <3>1. f + i - 1 \in f..n /\ Len(t) - (n - (f + i - 1)) = i
      BY <1>1, <1>2, <1>6
    <3> QED BY <1>1, <3>1
  <2>3. Pad(t) = [i \in 1..W |-> t[i]]
    BY <1>1, <1>2, <1>3, <1>6, <2>1
  <2>4. Fitted(x) = [i \in 1..W |-> x[f + i - 1]]
    BY <1>2, <1>4, <1>5, <1>6
  <2> QED BY <2>2, <2>3, <2>4 DEF t
<1>7. CASE n - f + 1 <= W
  <2>1. Pad(t) = [i \in 1..W |-> IF i <= W - Len(t) THEN 0 ELSE t[i - (W - Len(t))]]
    BY <1>1, <1>2, <1>3, <1>7
  <2>2. Fitted(x) = [i \in 1..W |-> IF i + (n - W) >= 1 THEN x[i + (n - W)] ELSE 0]
    BY <1>4, <1>5, <1>7
  <2>3. ASSUME NEW i \in 1..W
        PROVE  (IF i <= W - Len(t) THEN 0 ELSE t[i - (W - Len(t))])
               = IF i + (n - W) >= 1 THEN x[i + (n - W)] ELSE 0
    <3> DEFINE j == i + (n - W)
    <3>1. i - (W - Len(t)) = Len(t) - (n - j) /\ j <= n /\ j \in Int
      BY <1>1, <1>2
    <3>2. CASE j >= f
      <4>1. j \in f..n /\ j >= 1 /\ ~(i <= W - Len(t))
        BY <1>1, <1>2, <3>1, <3>2
      <4> QED BY <1>1, <3>1, <4>1
    <3>3. CASE j < f /\ i <= W - Len(t)
      BY <1>2, <3>1, <3>3
    <3>4. CASE j < f /\ ~(i <= W - Len(t))
      <4>0. /\ W \in Nat /\ n \in Nat /\ f \in Nat /\ i \in Nat
            /\ Len(t) \in {n - f + 1, n - f + 2}
        BY <1>1, <1>2
      <4>1. Len(t) = n - f + 2 /\ i - (W - Len(t)) = 1
        <5> HIDE DEF W
        <5>1. i + (n - W) < f /\ ~(i <= W - Len(t))
          BY <3>4
        <5> QED BY <4>0, <5>1
      <4>2. j >= 1 => x[j] = 0
        BY <1>2, <3>1, <3>4
      <4> QED BY <1>1, <3>4, <4>1, <4>2
    <3> QED BY <1>2, <3>1, <3>2, <3>3, <3>4
  <2> QED BY <2>1, <2>2, <2>3 DEF t
<1> QED BY <1>1, <1>2, <1>6, <1>7
-----------------------------------------------------------------------------
(* The encoding and its parts                                              *)

(* Where the bytes of a concatenation come from.                           *)
LEMMA Joined ==
  ASSUME NEW s \in Seq(Byte), NEW t \in Seq(Byte)
  PROVE  /\ s \o t \in Seq(Byte)
         /\ Len(s \o t) = Len(s) + Len(t)
         /\ \A i \in 1..Len(s) : (s \o t)[i] = s[i]
         /\ \A i \in 1..Len(t) : (s \o t)[Len(s) + i] = t[i]
<1>1. /\ s \o t \in Seq(Byte)
      /\ Len(s \o t) = Len(s) + Len(t)
      /\ \A i \in 1..(Len(s) + Len(t)) :
            (s \o t)[i] = IF i <= Len(s) THEN s[i] ELSE t[i - Len(s)]
  BY ConcatProperties
<1>2. Len(s) \in Nat /\ Len(t) \in Nat
  OBVIOUS
<1>3. \A i \in 1..Len(s) : (s \o t)[i] = s[i]
  BY <1>1, <1>2
<1>4. \A i \in 1..Len(t) : (s \o t)[Len(s) + i] = t[i]
  <2> TAKE i \in 1..Len(t)
  <2>1. /\ Len(s) + i \in 1..(Len(s) + Len(t))
        /\ ~(Len(s) + i <= Len(s)) /\ (Len(s) + i) - Len(s) = i
    BY <1>2
  <2> QED BY <1>1, <2>1
<1> QED BY <1>1, <1>3, <1>4

(* A pair of bytes.                                                        *)
LEMMA TwoBytes ==
  ASSUME NEW u \in Byte, NEW v \in Byte
  PROVE  /\ <<u, v>> \in Seq(Byte) /\ Len(<<u, v>>) = 2
         /\ <<u, v>>[1] = u /\ <<u, v>>[2] = v
<1> HIDE DEF Byte
<1> QED OBVIOUS

(* The header of a signature, in the short form and in the long one.       *)
LEMMA HeaderOfEncoding ==
  ASSUME LongForm \in 2..128, NEW m \in 0..255
  PROVE  LET hd == <<SEQUENCE>> \o LengthBytes(m)
             h == IF m < LongForm THEN 2 ELSE 3
         IN  /\ hd \in Seq(Byte) /\ Len(hd) = h
             /\ hd[1] = SEQUENCE
             /\ hd[2] = IF h = 2 THEN m ELSE LongForm + 1
<1>1. <<SEQUENCE>> \in Seq(Byte) /\ Len(<<SEQUENCE>>) = 1 /\ <<SEQUENCE>>[1] = SEQUENCE
  BY DEF SEQUENCE, Byte
<1>2. CASE m < LongForm
  <2>1. LengthBytes(m) = <<m>>
    BY <1>2 DEF LengthBytes
  <2>2. <<m>> \in Seq(Byte) /\ Len(<<m>>) = 1 /\ <<m>>[1] = m
    BY DEF Byte
  <2> QED BY <1>1, <1>2, <2>1, <2>2, Joined
<1>3. CASE ~(m < LongForm)
  <2>1. LengthBytes(m) = <<LongForm + 1, m>>
    BY <1>3 DEF LengthBytes
  <2>2. LongForm + 1 \in Byte /\ m \in Byte
    BY DEF Byte
  <2>3. /\ <<LongForm + 1, m>> \in Seq(Byte) /\ Len(<<LongForm + 1, m>>) = 2
        /\ <<LongForm + 1, m>>[1] = LongForm + 1
    BY <2>2, TwoBytes
  <2> QED BY <1>1, <1>3, <2>1, <2>3, Joined
<1> QED BY <1>2, <1>3

(* What stands where in the DER of two coordinates, after its header.      *)
LEMMA LayoutOfEncoding ==
  ASSUME LongForm \in 2..128, NEW n \in Nat \ {0}, n + 1 < LongForm, 2 * n + 6 <= 255,
         NEW x \in [1..n -> Byte], NEW y \in [1..n -> Byte]
  PROVE  LET d == DerEncode(x, y)
             a == Len(Content(x))
             b == Len(Content(y))
             h == StartOfR(d)
         IN  /\ d \in Seq(Byte)
             /\ a \in 1..(n + 1) /\ b \in 1..(n + 1)
             /\ Content(x) \in Seq(Byte) /\ Content(y) \in Seq(Byte)
             /\ h \in {2, 3}
             /\ Len(d) = h + 4 + a + b
             /\ d[1] = SEQUENCE
             /\ d[h + 1] = INTEGER /\ d[h + 2] = a
             /\ \A i \in 1..a : d[h + 2 + i] = Content(x)[i]
             /\ d[h + 3 + a] = INTEGER /\ d[h + 4 + a] = b
             /\ \A i \in 1..b : d[h + 4 + a + i] = Content(y)[i]
<1> DEFINE c == Content(x)
           e == Content(y)
           a == Len(c)
           b == Len(e)
           hr == <<INTEGER, a>>
           hs == <<INTEGER, b>>
           p2 == hr \o c
           p3 == p2 \o hs
           body == p3 \o e
           hd == <<SEQUENCE>> \o LengthBytes(Len(body))
           h == IF Len(body) < LongForm THEN 2 ELSE 3
           d == hd \o body
<1>1. /\ c \in Seq(Byte) /\ e \in Seq(Byte)
      /\ a \in 1..(n + 1) /\ b \in 1..(n + 1)
  <2>1. ASSUME NEW z \in [1..n -> Byte]
        PROVE  Content(z) \in Seq(Byte) /\ Len(Content(z)) \in 1..(n + 1)
    <3>1. /\ Content(z) \in Seq(Byte) /\ First(z) \in 1..n
          /\ Len(Content(z)) \in {n - First(z) + 1, n - First(z) + 2}
      BY ContentOfCoordinate
    <3> QED BY <3>1
  <2> QED BY <2>1
<1>2. DerEncode(x, y) = d
  BY DEF DerEncode
<1>3. /\ INTEGER \in Byte /\ SEQUENCE \in Byte
      /\ a \in Byte /\ b \in Byte /\ a \in Nat /\ b \in Nat
  <2> HIDE DEF a, b
  <2> QED BY <1>1 DEF Byte, INTEGER, SEQUENCE
<1>4. /\ hr \in Seq(Byte) /\ Len(hr) = 2 /\ hr[1] = INTEGER /\ hr[2] = a
      /\ hs \in Seq(Byte) /\ Len(hs) = 2 /\ hs[1] = INTEGER /\ hs[2] = b
  <2> HIDE DEF a, b
  <2> QED BY <1>3, TwoBytes
<1>5. Len(c) = a /\ Len(e) = b
  OBVIOUS
<1> HIDE DEF a, b, c, e, hr, hs
<1>6. /\ p2 \in Seq(Byte) /\ Len(p2) = 2 + a
      /\ \A i \in 1..2 : p2[i] = hr[i]
      /\ \A i \in 1..a : p2[2 + i] = c[i]
  <2>1. /\ p2 \in Seq(Byte)
        /\ Len(p2) = Len(hr) + Len(c)
        /\ \A i \in 1..Len(hr) : p2[i] = hr[i]
        /\ \A i \in 1..Len(c) : p2[Len(hr) + i] = c[i]
    BY <1>1, <1>4, Joined
  <2> HIDE DEF p2
  <2> QED BY <1>4, <1>5, <2>1
<1> HIDE DEF p2
<1>7. /\ p3 \in Seq(Byte) /\ Len(p3) = (2 + a) + 2
      /\ \A i \in 1..(2 + a) : p3[i] = p2[i]
      /\ \A i \in 1..2 : p3[(2 + a) + i] = hs[i]
  <2>1. /\ p3 \in Seq(Byte)
        /\ Len(p3) = Len(p2) + Len(hs)
        /\ \A i \in 1..Len(p2) : p3[i] = p2[i]
        /\ \A i \in 1..Len(hs) : p3[Len(p2) + i] = hs[i]
    BY <1>4, <1>6, Joined
  <2> HIDE DEF p3
  <2> QED BY <1>4, <1>6, <2>1
<1> HIDE DEF p3
<1>8. /\ body \in Seq(Byte) /\ Len(body) = (4 + a) + b
      /\ \A i \in 1..(4 + a) : body[i] = p3[i]
      /\ \A i \in 1..b : body[(4 + a) + i] = e[i]
  <2>1. /\ body \in Seq(Byte)
        /\ Len(body) = Len(p3) + Len(e)
        /\ \A i \in 1..Len(p3) : body[i] = p3[i]
        /\ \A i \in 1..Len(e) : body[Len(p3) + i] = e[i]
    BY <1>1, <1>7, Joined
  <2> HIDE DEF body
  <2>2. Len(p3) = 4 + a
    BY <1>3, <1>7
  <2> QED BY <1>5, <2>1, <2>2
<1> HIDE DEF body
<1>9. /\ hd \in Seq(Byte) /\ Len(hd) = h /\ h \in {2, 3}
      /\ hd[1] = SEQUENCE /\ hd[2] = IF h = 2 THEN Len(body) ELSE LongForm + 1
      /\ h = 2 <=> Len(body) < LongForm
  <2>1. Len(body) \in 0..255
    BY <1>1, <1>3, <1>8
  <2> HIDE DEF body
  <2>2. /\ hd \in Seq(Byte) /\ Len(hd) = h
        /\ hd[1] = SEQUENCE /\ hd[2] = IF h = 2 THEN Len(body) ELSE LongForm + 1
    BY <2>1, HeaderOfEncoding
  <2> QED BY <2>2
<1> HIDE DEF hd, h
<1>10. /\ d \in Seq(Byte) /\ Len(d) = h + (4 + a + b)
       /\ \A i \in 1..h : d[i] = hd[i]
       /\ \A i \in 1..(4 + a + b) : d[h + i] = body[i]
  <2>1. /\ d \in Seq(Byte)
        /\ Len(d) = Len(hd) + Len(body)
        /\ \A i \in 1..Len(hd) : d[i] = hd[i]
        /\ \A i \in 1..Len(body) : d[Len(hd) + i] = body[i]
    BY <1>8, <1>9, Joined
  <2> HIDE DEF d
  <2>2. Len(body) = 4 + a + b
    BY <1>3, <1>8
  <2> QED BY <1>9, <2>1, <2>2
<1> HIDE DEF d
<1>11. d[1] = SEQUENCE /\ StartOfR(d) = h
  <2>1. d[1] = hd[1] /\ d[2] = hd[2]
    BY <1>9, <1>10
  <2>2. Len(body) \in Nat
    BY <1>8
  <2> QED BY <1>9, <2>1, <2>2 DEF StartOfR, At
<1>12. \A i \in 1..(2 + a) : d[h + i] = p2[i]
  <2> TAKE i \in 1..(2 + a)
  <2>1. i \in 1..(4 + a + b) /\ i \in 1..(4 + a)
    BY <1>3
  <2> QED BY <1>7, <1>8, <1>10, <2>1
<1>13. d[h + 1] = INTEGER /\ d[h + 2] = a
  <2>1. 1 \in 1..(2 + a) /\ 2 \in 1..(2 + a)
    BY <1>3
  <2>2. d[h + 1] = p2[1] /\ d[h + 2] = p2[2]
    BY <1>12, <2>1
  <2> QED BY <1>4, <1>6, <2>2
<1>14. \A i \in 1..a : d[h + 2 + i] = c[i]
  <2> TAKE i \in 1..a
  <2>1. 2 + i \in 1..(2 + a) /\ h + (2 + i) = h + 2 + i
    BY <1>3, <1>9
  <2> QED BY <1>6, <1>12, <2>1
<1>15. d[h + 3 + a] = INTEGER /\ d[h + 4 + a] = b
  <2>1. \A i \in 1..2 : d[h + ((2 + a) + i)] = hs[i]
    <3> TAKE i \in 1..2
    <3>1. (2 + a) + i \in 1..(4 + a + b) /\ (2 + a) + i \in 1..(4 + a)
      BY <1>3
    <3> QED BY <1>7, <1>8, <1>10, <3>1
  <2>2. d[h + ((2 + a) + 1)] = INTEGER /\ d[h + ((2 + a) + 2)] = b
    BY <1>4, <2>1
  <2>3. h + ((2 + a) + 1) = h + 3 + a /\ h + ((2 + a) + 2) = h + 4 + a
    BY <1>3, <1>9
  <2> QED BY <2>2, <2>3
<1>16. \A i \in 1..b : d[h + 4 + a + i] = e[i]
  <2> TAKE i \in 1..b
  <2>1. (4 + a) + i \in 1..(4 + a + b) /\ h + ((4 + a) + i) = h + 4 + a + i
    BY <1>3, <1>9
  <2> QED BY <1>8, <1>10, <2>1
<1>17. Len(d) = h + 4 + a + b
  BY <1>3, <1>9, <1>10
<1> QED BY <1>1, <1>2, <1>9, <1>10, <1>11, <1>13, <1>14, <1>15, <1>16, <1>17 DEF a, b, c, e

(* An INTEGER that is there whole is read as its bytes.                    *)
LEMMA ParseWhole ==
  ASSUME NEW d \in Seq(Byte), NEW pos \in Nat, NEW c \in Seq(Byte),
         pos + 2 + Len(c) <= Len(d),
         d[pos + 1] = INTEGER, d[pos + 2] = Len(c),
         \A i \in 1..Len(c) : d[pos + 2 + i] = c[i]
  PROVE  ParseInteger(d, pos) =
           [status |-> "Ok", bytes |-> c, next |-> pos + 2 + Len(c)]
<1> DEFINE m == Len(c)
           end == pos + 2 + m
<1>1. m \in Nat /\ Len(d) \in Nat
  OBVIOUS
<1>2. At(d, pos) = INTEGER /\ At(d, pos + 1) = m
  BY DEF At
<1>3. ParseInteger(d, pos) =
        [status |-> "Ok", bytes |-> SubSeq(d, pos + 3, end), next |-> end]
  <2>1. /\ pos + 2 + At(d, pos + 1) = end
        /\ ~(pos >= Len(d)) /\ ~(pos + 1 >= Len(d)) /\ ~(end > Len(d))
    <3>1. m \in Nat /\ Len(d) \in Nat /\ pos + 2 + m <= Len(d)
      BY <1>1
    <3>2. pos + 2 + At(d, pos + 1) = end
      BY <1>2
    <3> HIDE DEF m
    <3> QED BY <3>1, <3>2
  <2> HIDE DEF end, m
  <2> QED BY <1>2, <2>1 DEF ParseInteger
<1>4. SubSeq(d, pos + 3, end) = c
  <2> DEFINE s == SubSeq(d, pos + 3, end)
  <2>1. \A i \in (pos + 3)..end : d[i] \in Byte
    BY <1>1
  <2>2. /\ s \in Seq(Byte)
        /\ Len(s) = m
        /\ \A i \in 1..m : s[i] = d[(pos + 3) + i - 1]
    <3>1. (IF pos + 3 <= end THEN end - (pos + 3) + 1 ELSE 0) = m
      BY <1>1
    <3>2. end - (pos + 3) + 1 = m
      BY <1>1
    <3> HIDE DEF m, end
    <3>3. end \in Int /\ pos + 3 \in Int
      BY <1>1 DEF end
    <3> QED BY <2>1, <3>1, <3>2, <3>3, SubSeqProperties
  <2> HIDE DEF s
  <2>3. \A i \in 1..m : s[i] = c[i]
    <3> TAKE i \in 1..m
    <3>1. (pos + 3) + i - 1 = pos + 2 + i
      BY <1>1
    <3> QED BY <2>2, <3>1
  <2> QED BY <2>2, <2>3, SeqEqual DEF s
<1> QED BY <1>3, <1>4
-----------------------------------------------------------------------------
(* The conversion                                                          *)

(* What reading an INTEGER returns, whatever stands there.                 *)
LEMMA ParseIntegerType ==
  ASSUME NEW d \in Seq(Byte), NEW pos \in Nat
  PROVE  LET p == ParseInteger(d, pos)
         IN  /\ p.status \in {"Ok", "Err", "Panic"}
             /\ p.bytes \in Seq(Byte)
             /\ p.next \in Nat
<1>1. CASE pos >= Len(d)
  BY <1>1 DEF ParseInteger
<1>2. CASE ~(pos >= Len(d)) /\ At(d, pos) # INTEGER
  BY <1>2 DEF ParseInteger
<1>3. CASE ~(pos >= Len(d)) /\ At(d, pos) = INTEGER
             /\ (pos + 1 >= Len(d) \/ pos + 2 + At(d, pos + 1) > Len(d))
  BY <1>3 DEF ParseInteger
<1>4. CASE /\ ~(pos >= Len(d)) /\ At(d, pos) = INTEGER
           /\ ~(pos + 1 >= Len(d) \/ pos + 2 + At(d, pos + 1) > Len(d))
  <2> DEFINE end == pos + 2 + At(d, pos + 1)
  <2>1. ParseInteger(d, pos) =
          [status |-> "Ok", bytes |-> SubSeq(d, pos + 3, end), next |-> end]
    BY <1>4 DEF ParseInteger
  <2>2. end \in Nat /\ end <= Len(d)
    <3>1. Len(d) \in Nat /\ pos + 2 \in 1..Len(d)
      BY <1>4
    <3>2. d[(pos + 1) + 1] \in Byte
      BY <3>1
    <3>3. At(d, pos + 1) = d[(pos + 1) + 1] /\ At(d, pos + 1) \in Nat
      <4>1. \A v \in Byte : v \in Nat
        BY DEF Byte
      <4> HIDE DEF Byte
      <4> QED BY <3>2, <4>1 DEF At
    <3>4. ~(end > Len(d))
      BY <1>4
    <3> QED BY <3>1, <3>3, <3>4
  <2> HIDE DEF end
  <2>3. SubSeq(d, pos + 3, end) \in Seq(Byte)
    <3>1. \A i \in (pos + 3)..end : d[i] \in Byte
      BY <2>2
    <3> QED BY <2>2, <3>1, SubSeqProperties
  <2> QED BY <2>1, <2>2, <2>3
<1> QED BY <1>1, <1>2, <1>3, <1>4

(* Whatever integer it is given, Pad returns one coordinate.               *)
LEMMA PadType ==
  ASSUME CoordBytes \in Nat \ {0}, NEW x \in Seq(Byte)
  PROVE  Pad(Trim(x)) \in [1..CoordBytes -> Byte]
<1> DEFINE t == Trim(x)
<1>1. t \in Seq(Byte)
  <2>1. CASE Len(x) > CoordBytes /\ x[1] = 0
    BY <2>1 DEF Trim
  <2>2. CASE ~(Len(x) > CoordBytes /\ x[1] = 0)
    BY <2>2 DEF Trim
  <2> QED BY <2>1, <2>2
<1> HIDE DEF t
<1> DEFINE kept == IF Len(t) < CoordBytes THEN Len(t) ELSE CoordBytes
           zeros == CoordBytes - kept
<1>2. kept \in Nat /\ kept <= Len(t) /\ kept <= CoordBytes /\ zeros \in Nat
  BY <1>1
<1>3. \A i \in 1..CoordBytes : (IF i <= zeros THEN 0 ELSE t[i - zeros]) \in Byte
  <2> TAKE i \in 1..CoordBytes
  <2>1. CASE i <= zeros
    BY <2>1 DEF Byte
  <2>2. CASE ~(i <= zeros)
    <3>1. i - zeros \in 1..Len(t)
      BY <1>2, <2>2
    <3>2. t[i - zeros] \in Byte
      <4> HIDE DEF zeros
      <4> QED BY <1>1, <3>1
    <3> QED BY <2>2, <3>2
  <2> QED BY <2>1, <2>2
<1>4. Pad(t) = [i \in 1..CoordBytes |-> IF i <= zeros THEN 0 ELSE t[i - zeros]]
  BY DEF Pad
<1> HIDE DEF zeros, kept
<1> QED BY <1>3, <1>4 DEF t

(* Two coordinates one after the other.                                    *)
LEMMA PairOfCoordinates ==
  ASSUME CoordBytes \in Nat \ {0},
         NEW x \in [1..CoordBytes -> Byte], NEW y \in [1..CoordBytes -> Byte]
  PROVE  /\ x \o y \in Seq(Byte)
         /\ Len(x \o y) = 2 * CoordBytes
<1>1. /\ x \in Seq(Byte) /\ Len(x) = CoordBytes
      /\ y \in Seq(Byte) /\ Len(y) = CoordBytes
  OBVIOUS
<1>2. x \o y \in Seq(Byte) /\ Len(x \o y) = Len(x) + Len(y)
  BY <1>1, Joined
<1> QED BY <1>1, <1>2

(* What the conversion returns of any input: a signature of two            *)
(* coordinates, or none.                                                   *)
LEMMA DerToCoseType ==
  ASSUME CoordBytes \in Nat \ {0}, LongForm \in 2..128, NEW d \in Seq(Byte)
  PROVE  LET q == DerToCose(d)
         IN  /\ q.status \in {"Ok", "Err", "Panic"}
             /\ q.cose \in Seq(Byte)
             /\ Len(q.cose) = IF q.status = "Ok" THEN 2 * CoordBytes ELSE 0
<1>1. \A st \in {"Err", "Panic"} :
         /\ Failure(st).status = st
         /\ Failure(st).cose \in Seq(Byte)
         /\ Len(Failure(st).cose) = 0
  BY DEF Failure
<1>2. CASE Len(d) < 8 \/ At(d, 0) # SEQUENCE
  BY <1>1, <1>2 DEF DerToCose
<1>3. CASE ~(Len(d) < 8 \/ At(d, 0) # SEQUENCE)
  <2> DEFINE r == ParseInteger(d, StartOfR(d))
             s == ParseInteger(d, r.next)
             xr == Pad(Trim(r.bytes))
             xs == Pad(Trim(s.bytes))
  <2>1. StartOfR(d) \in Nat
    <3>1. Len(d) \in Nat /\ 2 \in 1..Len(d)
      BY <1>3
    <3>2. d[2] \in Byte
      BY <3>1
    <3>3. \A v \in Byte : v \in Nat
      BY DEF Byte
    <3> HIDE DEF Byte
    <3>4. At(d, 1) = d[2] /\ d[2] \in Nat
      BY <3>2, <3>3 DEF At
    <3> QED BY <3>4 DEF StartOfR
  <2>2. /\ r.status \in {"Ok", "Err", "Panic"}
        /\ r.bytes \in Seq(Byte)
        /\ r.next \in Nat
    BY <2>1, ParseIntegerType
  <2>3. DerToCose(d) = IF r.status # "Ok" THEN Failure(r.status)
                       ELSE IF s.status # "Ok" THEN Failure(s.status)
                       ELSE [status |-> "Ok", cose |-> xr \o xs]
    BY <1>3 DEF DerToCose
  <2> HIDE DEF r
  <2>4. /\ s.status \in {"Ok", "Err", "Panic"}
        /\ s.bytes \in Seq(Byte)
    BY <2>2, ParseIntegerType
  <2> HIDE DEF s
  <2>5. xr \in [1..CoordBytes -> Byte] /\ xs \in [1..CoordBytes -> Byte]
    BY <2>2, <2>4, PadType
  <2> HIDE DEF xr, xs
  <2>6. xr \o xs \in Seq(Byte) /\ Len(xr \o xs) = 2 * CoordBytes
    BY <2>5, PairOfCoordinates
  <2>7. CASE r.status # "Ok"
    BY <1>1, <2>2, <2>3, <2>7
  <2>8. CASE r.status = "Ok" /\ s.status # "Ok"
    BY <1>1, <2>3, <2>4, <2>8
  <2>9. CASE r.status = "Ok" /\ s.status = "Ok"
    BY <2>3, <2>6, <2>9
  <2> QED BY <2>7, <2>8, <2>9
<1> QED BY <1>2, <1>3

(* The DER of two coordinates is converted to them.                        *)
LEMMA WholeIsConverted ==
  ASSUME CoordBytes \in Nat \ {0}, LongForm \in 2..128,
         NEW n \in Nat \ {0}, n + 1 < LongForm, 2 * n + 6 <= 255,
         NEW x \in [1..n -> Byte], NEW y \in [1..n -> Byte]
  PROVE  DerToCose(DerEncode(x, y)) = [status |-> "Ok", cose |-> Fitted(x) \o Fitted(y)]
<1> DEFINE d == DerEncode(x, y)
           c == Content(x)
           e == Content(y)
           a == Len(c)
           b == Len(e)
           h == StartOfR(d)
<1>1. /\ d \in Seq(Byte)
      /\ a \in 1..(n + 1) /\ b \in 1..(n + 1)
      /\ c \in Seq(Byte) /\ e \in Seq(Byte)
      /\ h \in {2, 3}
      /\ Len(d) = h + 4 + a + b
      /\ d[1] = SEQUENCE
      /\ d[h + 1] = INTEGER /\ d[h + 2] = a
      /\ \A i \in 1..a : d[h + 2 + i] = c[i]
      /\ d[h + 3 + a] = INTEGER /\ d[h + 4 + a] = b
      /\ \A i \in 1..b : d[h + 4 + a + i] = e[i]
  BY LayoutOfEncoding
<1>2. Pad(Trim(c)) = Fitted(x) /\ Pad(Trim(e)) = Fitted(y)
  BY PadRestores
<1> HIDE DEF d, c, e, h
<1>3. Len(d) >= 8 /\ At(d, 0) = SEQUENCE
  BY <1>1 DEF At
<1>4. ParseInteger(d, h) = [status |-> "Ok", bytes |-> c, next |-> h + 2 + a]
  <2>1. /\ h \in Nat /\ h + 2 + a <= Len(d)
        /\ d[h + 1] = INTEGER /\ d[h + 2] = a
        /\ \A i \in 1..a : d[h + 2 + i] = c[i]
    BY <1>1
  <2> QED BY <1>1, <2>1, ParseWhole
<1>5. ParseInteger(d, h + 2 + a) = [status |-> "Ok", bytes |-> e, next |-> (h + 2 + a) + 2 + b]
  <2>1. /\ h + 2 + a \in Nat /\ (h + 2 + a) + 2 + b <= Len(d)
        /\ (h + 2 + a) + 1 = h + 3 + a /\ (h + 2 + a) + 2 = h + 4 + a
    BY <1>1
  <2>2. /\ d[(h + 2 + a) + 1] = INTEGER /\ d[(h + 2 + a) + 2] = b
        /\ \A i \in 1..b : d[(h + 2 + a) + 2 + i] = e[i]
    BY <1>1, <2>1
  <2> QED BY <1>1, <2>1, <2>2, ParseWhole
<1>6. DerToCose(d) = [status |-> "Ok", cose |-> Pad(Trim(c)) \o Pad(Trim(e))]
  <2> DEFINE r == ParseInteger(d, StartOfR(d))
             s == ParseInteger(d, r.next)
  <2>1. ~(Len(d) < 8)
    BY <1>1
  <2>2. DerToCose(d) = IF r.status # "Ok" THEN Failure(r.status)
                       ELSE IF s.status # "Ok" THEN Failure(s.status)
                       ELSE [status |-> "Ok",
                             cose |-> Pad(Trim(r.bytes)) \o Pad(Trim(s.bytes))]
    BY <1>3, <2>1 DEF DerToCose
  <2>3. r.status = "Ok" /\ r.bytes = c /\ r.next = h + 2 + a
    BY <1>4 DEF h
  <2>4. s.status = "Ok" /\ s.bytes = e
    BY <1>5, <2>3
  <2> HIDE DEF r, s
  <2> QED BY <2>2, <2>3, <2>4
<1> QED BY <1>2, <1>6 DEF d

(* Nothing less than all of it is converted: it is an error or a panic.     *)
LEMMA ResultOfPrefix ==
  ASSUME LongForm \in 2..128, NEW n \in Nat \ {0}, n + 1 < LongForm, 2 * n + 6 <= 255,
         NEW x \in [1..n -> Byte], NEW y \in [1..n -> Byte],
         NEW k \in 1..(Len(DerEncode(x, y)) - 1)
  PROVE  DerToCose(SubSeq(DerEncode(x, y), 1, k)).status = IF k < 8 THEN "Err" ELSE "Panic"
<1> DEFINE d == DerEncode(x, y)
           p == SubSeq(d, 1, k)
           a == Len(Content(x))
           b == Len(Content(y))
           h == StartOfR(d)
<1> SUFFICES DerToCose(p).status = IF k < 8 THEN "Err" ELSE "Panic"
  OBVIOUS
<1>1. /\ d \in Seq(Byte)
      /\ a \in 1..(n + 1) /\ b \in 1..(n + 1)
      /\ h \in {2, 3}
      /\ Len(d) = h + 4 + a + b
      /\ d[1] = SEQUENCE
      /\ d[h + 1] = INTEGER /\ d[h + 2] = a
      /\ d[h + 3 + a] = INTEGER /\ d[h + 4 + a] = b
  BY LayoutOfEncoding
<1> HIDE DEF d, a, b, h
<1>2. k \in 1..(h + 3 + a + b)
  BY <1>1 DEF d
<1>3. Len(p) = k /\ \A i \in 1..k : p[i] = d[i]
  <2>1. \A i \in 1..k : d[i] \in Byte
    BY <1>1, <1>2
  <2>2. /\ Len(p) = IF 1 <= k THEN k - 1 + 1 ELSE 0
        /\ \A i \in 1..(k - 1 + 1) : p[i] = d[1 + i - 1]
    BY <1>2, <2>1, SubSeqProperties
  <2> HIDE DEF p
  <2> QED BY <1>2, <2>2
<1> HIDE DEF p
<1>4. CASE k < 8
  BY <1>3, <1>4 DEF DerToCose, Failure
<1>5. CASE k >= 8
  <2> DEFINE r == ParseInteger(p, h)
             q == h + 2 + a
             s == ParseInteger(p, q)
  <2>1. At(p, 0) = SEQUENCE /\ StartOfR(p) = h
    <3>1. p[1] = SEQUENCE /\ p[2] = d[2]
      BY <1>1, <1>2, <1>3, <1>5
    <3>2. StartOfR(p) = StartOfR(d)
      BY <3>1 DEF At, StartOfR
    <3> QED BY <3>1, <3>2 DEF At, h
  <2>2. At(p, h) = INTEGER /\ At(p, h + 1) = a
    <3>1. h + 1 \in 1..k /\ h + 2 \in 1..k /\ (h + 1) + 1 = h + 2
      BY <1>1, <1>2, <1>5
    <3> QED BY <1>1, <1>3, <3>1 DEF At
  <2>3. r.status = "Panic" \/ (r.status = "Ok" /\ r.next = q)
    <3>1. Len(p) = k /\ ~(h >= k) /\ ~(h + 1 >= k)
      BY <1>1, <1>3, <1>5
    <3> HIDE DEF q
    <3>2. CASE h + 2 + a > k
      <4>1. h + 2 + At(p, h + 1) > Len(p)
        BY <2>2, <3>1, <3>2
      <4> QED BY <2>2, <3>1, <4>1 DEF ParseInteger
    <3>3. CASE ~(h + 2 + a > k)
      <4>1. h + 2 + At(p, h + 1) = q /\ ~(q > Len(p))
        BY <2>2, <3>1, <3>3 DEF q
      <4> QED BY <2>2, <3>1, <4>1 DEF ParseInteger
    <3> QED BY <3>2, <3>3
  <2>4. s.status = "Panic"
    <3>0. q \in Nat
      BY <1>1
    <3>1. CASE q >= k
      BY <1>3, <3>1 DEF ParseInteger
    <3> SUFFICES ASSUME ~(q >= k) PROVE s.status = "Panic"
      BY <3>1
    <3>4. At(p, q) = INTEGER
      <4>1. q + 1 \in 1..k /\ q + 1 = h + 3 + a
        BY <1>1, <1>2, <3>0
      <4> QED BY <1>1, <1>3, <4>1 DEF At
    <3>2. CASE q + 1 >= k
      BY <1>3, <3>2, <3>4 DEF ParseInteger
    <3>3. CASE ~(q + 1 >= k)
      <4>1. q + 2 \in 1..k /\ (q + 1) + 1 = q + 2 /\ q + 2 = h + 4 + a
        BY <1>1, <1>2, <3>3
      <4>2. At(p, q + 1) = b
        BY <1>1, <1>3, <4>1 DEF At
      <4>3. q + 2 + b > k
        BY <1>1, <1>2
      <4> HIDE DEF q
      <4> QED BY <1>3, <3>0, <3>3, <3>4, <4>2, <4>3 DEF ParseInteger
    <3> QED BY <3>2, <3>3
  <2> HIDE DEF r, s, q
  <2>5. DerToCose(p) = IF r.status # "Ok" THEN Failure(r.status)
                       ELSE LET t == ParseInteger(p, r.next)
                            IN  IF t.status # "Ok" THEN Failure(t.status)
                                ELSE [status |-> "Ok",
                                      cose |-> Pad(Trim(r.bytes)) \o Pad(Trim(t.bytes))]
    <3>1. ~(Len(p) < 8)
      BY <1>2, <1>3, <1>5
    <3> QED BY <2>1, <3>1 DEF DerToCose, r
  <2>6. CASE r.status = "Panic"
    BY <1>5, <2>5, <2>6 DEF Failure
  <2>7. CASE r.status = "Ok" /\ r.next = q
    BY <1>5, <2>4, <2>5, <2>7 DEF Failure, s
  <2> QED BY <2>3, <2>6, <2>7
<1> QED BY <1>2, <1>4, <1>5
-----------------------------------------------------------------------------
(* The behaviours                                                          *)

Coordinates == \E n \in Widths : coords \in [1..2 -> [1..n -> Bytes]]

Encoded == DerEncode(coords[1], coords[2])

(* What is known at every step: the DER is all the signer wrote or the     *)
(* beginning of it, and a result is what the conversion returns for it.    *)
Inv ==
  /\ Coordinates
  /\ whole \in BOOLEAN
  /\ whole => der = Encoded
  /\ ~whole => \E k \in 1..(Len(Encoded) - 1) : der = SubSeq(Encoded, 1, k)
  /\ der \in Seq(Byte)
  /\ result = Pending \/ result = DerToCose(der)

(* The coordinates of a signature, as the lemmas take them.                *)
LEMMA CoordinatesOfSigner ==
  ASSUME Coordinates
  PROVE  /\ CoordBytes \in Nat \ {0} /\ LongForm \in 2..128
         /\ \E n \in Nat \ {0} :
              /\ n + 1 < LongForm /\ 2 * n + 6 <= 255
              /\ coords[1] \in [1..n -> Byte] /\ coords[2] \in [1..n -> Byte]
<1>1. PICK n \in Widths : coords \in [1..2 -> [1..n -> Bytes]]
  BY DEF Coordinates
<1>2. n \in Nat \ {0} /\ n + 1 < LongForm /\ 2 * n + 6 <= 255
  BY WidthsAssumption
<1>3. coords[1] \in [1..n -> Bytes] /\ coords[2] \in [1..n -> Bytes]
  BY <1>1
<1>4. \A f \in [1..n -> Bytes] : f \in [1..n -> Byte]
  BY BytesAssumption DEF Byte
<1> QED BY <1>2, <1>3, <1>4, WidthsAssumption

(* The invariant holds at the start and is kept by every step.             *)
LEMMA InvInductive ==
  Spec => []Inv
<1>1. Init => Inv
  <2> SUFFICES ASSUME Init PROVE Inv
    OBVIOUS
  <2>1. Coordinates /\ whole = TRUE /\ der = Encoded /\ result = Pending
    BY DEF Init, Coordinates, Encoded
  <2>2. der \in Seq(Byte)
    BY <2>1, CoordinatesOfSigner, LayoutOfEncoding DEF Encoded
  <2> QED BY <2>1, <2>2 DEF Inv
<1>2. Inv /\ [Next]_vars => Inv'
  <2> SUFFICES ASSUME Inv, [Next]_vars PROVE Inv'
    OBVIOUS
  <2>1. CASE Truncate
    <3>1. /\ Coordinates' /\ Encoded' = Encoded /\ whole' = FALSE
          /\ result' = Pending
      BY <2>1 DEF Truncate, Inv, Coordinates, Encoded
    <3>2. PICK k \in 1..(Len(der) - 1) : der' = SubSeq(der, 1, k)
      BY <2>1 DEF Truncate
    <3>3. der = Encoded
      BY <2>1 DEF Truncate, Inv
    <3>4. der' \in Seq(Byte)
      <4>1. \A i \in 1..k : der[i] \in Byte
        BY DEF Inv
      <4> QED BY <3>2, <4>1, SubSeqProperties
    <3> QED BY <3>1, <3>2, <3>3, <3>4 DEF Inv, Pending
  <2>2. CASE Convert
    <3>1. /\ Coordinates' /\ Encoded' = Encoded
          /\ der' = der /\ whole' = whole /\ result' = DerToCose(der)'
      BY <2>2 DEF Convert, Inv, Coordinates, Encoded
    <3> QED BY <3>1 DEF Inv
  <2>3. CASE UNCHANGED vars
    BY <2>3 DEF Inv, vars, Coordinates, Encoded, Pending
  <2> QED BY <2>1, <2>2, <2>3 DEF Next
<1> QED BY <1>1, <1>2, PTL DEF Spec

(* The types hold in every reachable state: in particular a conversion     *)
(* that succeeds returns two coordinates of the width of COSE.             *)
THEOREM TypeCorrect ==
  Spec => []TypeOK
<1>1. Inv => TypeOK
  <2> SUFFICES ASSUME Inv PROVE TypeOK
    OBVIOUS
  <2>1. CoordBytes \in Nat \ {0} /\ LongForm \in 2..128
    BY WidthsAssumption
  <2>2. CASE result = Pending
    <3>1. result.status = "Pending" /\ result.cose = <<>>
      BY <2>2 DEF Pending, Failure
    <3> QED BY <3>1 DEF Inv, TypeOK, Coordinates, ByteStrings, Byte
  <2>3. CASE result = DerToCose(der)
    <3>1. /\ result.status \in {"Ok", "Err", "Panic"}
          /\ result.cose \in Seq(Byte)
          /\ Len(result.cose) = IF result.status = "Ok" THEN 2 * CoordBytes ELSE 0
      BY <2>1, <2>3, DerToCoseType DEF Inv
    <3> QED BY <3>1 DEF Inv, TypeOK, Coordinates, ByteStrings, Byte
  <2> QED BY <2>2, <2>3 DEF Inv
<1> QED BY <1>1, InvInductive, PTL

(* Whatever coordinates a signer computes, on whatever curve, the DER that *)
(* arrives whole is converted to those coordinates in the width of COSE    *)
(* (ConversionIsExact).                                                    *)
THEOREM ConversionReturnsTheCoordinates ==
  Spec => []ConversionIsExact
<1>1. Inv => ConversionIsExact
  <2> SUFFICES ASSUME Inv, whole, result # Pending
               PROVE  result = [status |-> "Ok", cose |-> Fitted(coords[1]) \o Fitted(coords[2])]
    BY DEF ConversionIsExact
  <2>1. result = DerToCose(DerEncode(coords[1], coords[2]))
    BY DEF Inv, Encoded
  <2> QED BY <2>1, CoordinatesOfSigner, WholeIsConverted DEF Inv
<1> QED BY <1>1, InvInductive, PTL

(* What becomes of a signature that was cut short: an error of fewer than  *)
(* eight bytes, a panic of the others.                                     *)
LEMMA ResultOfCut ==
  ASSUME Inv, ~whole, result # Pending
  PROVE  result.status = IF Len(der) < 8 THEN "Err" ELSE "Panic"
<1>1. PICK n \in Nat \ {0} :
        /\ n + 1 < LongForm /\ 2 * n + 6 <= 255
        /\ coords[1] \in [1..n -> Byte] /\ coords[2] \in [1..n -> Byte]
  BY CoordinatesOfSigner DEF Inv
<1>2. LongForm \in 2..128
  BY WidthsAssumption
<1>3. PICK k \in 1..(Len(Encoded) - 1) : der = SubSeq(Encoded, 1, k)
  BY DEF Inv
<1>4. Encoded \in Seq(Byte)
  BY <1>1, <1>2, LayoutOfEncoding DEF Encoded
<1>5. Len(der) = k
  <2>1. \A i \in 1..k : Encoded[i] \in Byte
    BY <1>3, <1>4
  <2> QED BY <1>3, <2>1, SubSeqProperties
<1>6. k \in 1..(Len(DerEncode(coords[1], coords[2])) - 1)
  BY DEF Encoded
<1>7. DerToCose(der).status = IF k < 8 THEN "Err" ELSE "Panic"
  BY <1>1, <1>2, <1>3, <1>6, ResultOfPrefix DEF Encoded
<1> QED BY <1>5, <1>7 DEF Inv

(* No proper prefix of a signature is converted, for coordinates of any    *)
(* width and in either form of the length (TruncatedNeverAccepted).        *)
THEOREM PrefixesAreRefused ==
  Spec => []TruncatedNeverAccepted
<1>1. Inv => TruncatedNeverAccepted
  <2> SUFFICES ASSUME Inv, ~whole PROVE result.status # "Ok"
    BY DEF TruncatedNeverAccepted
  <2>1. CASE result = Pending
    BY <2>1 DEF Pending, Failure
  <2>2. CASE result # Pending
    BY <2>2, ResultOfCut
  <2> QED BY <2>1, <2>2
<1> QED BY <1>1, InvInductive, PTL

(* How far NeverPanics fails: der_to_cose_signature panics on every        *)
(* signature of eight bytes and more whose end is missing, instead of an   *)
(* error, and on no other.                                                 *)
THEOREM CutSignaturesPanic ==
  Spec => [](result # Pending => (NeverPanics <=> whole \/ Len(der) < 8))
<1>1. Inv => (result # Pending => (NeverPanics <=> whole \/ Len(der) < 8))
  <2> SUFFICES ASSUME Inv, result # Pending
               PROVE  result.status # "Panic" <=> whole \/ Len(der) < 8
    BY DEF NeverPanics
  <2>1. CASE whole
    <3>1. result = DerToCose(DerEncode(coords[1], coords[2]))
      BY <2>1 DEF Inv, Encoded
    <3>2. result.status = "Ok"
      BY <3>1, CoordinatesOfSigner, WholeIsConverted DEF Inv
    <3> QED BY <2>1, <3>2
  <2>2. CASE ~whole
    BY <2>2, ResultOfCut
  <2> QED BY <2>1, <2>2
<1> QED BY <1>1, InvInductive, PTL
=============================================================================
