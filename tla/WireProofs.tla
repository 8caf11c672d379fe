----------------------------- MODULE WireProofs -----------------------------
(***************************************************************************)
(* Proofs about Wire, for every set of frames, nodes, keys and policies:   *)
(* the writer and the parsers are each other's inverses; so what is on the *)
(* air is the packet that was first accepted (Carried), and its path tells *)
(* which nodes have relayed it since (WayTold).  From the two follow the   *)
(* properties of Wire.                                                     *)
(***************************************************************************)
EXTENDS Wire, TLAPS, SequenceTheorems, FunctionTheorems, FiniteSetTheorems

---------------------------------------------------------------------------
(* Sequences of bytes.                                                     *)

\* A part of a sequence, byte by byte
LEMMA PartOf ==
  ASSUME NEW s \in Seq(Nat), NEW m \in Nat \ {0}, NEW n \in Nat, n <= Len(s), m <= n + 1
  PROVE  /\ SubSeq(s, m, n) \in Seq(Nat) /\ Len(SubSeq(s, m, n)) = n - m + 1
         /\ \A i \in 1 .. n - m + 1 : SubSeq(s, m, n)[i] = s[m + i - 1]
<1>1. \A i \in m .. n : s[i] \in Nat  BY ElementOfSeq
<1> QED  BY <1>1, SubSeqProperties

\* A part is known by its bytes.
LEMMA PartIs ==
  ASSUME NEW s \in Seq(Nat), NEW t \in Seq(Nat), NEW m \in Nat \ {0}, NEW n \in Nat,
         n <= Len(s), Len(t) = n - m + 1, \A i \in 1 .. Len(t) : s[m + i - 1] = t[i]
  PROVE  SubSeq(s, m, n) = t
<1>1. m <= n + 1  BY EmptySeq
<1>2. /\ SubSeq(s, m, n) \in Seq(Nat) /\ Len(SubSeq(s, m, n)) = n - m + 1
      /\ \A i \in 1 .. n - m + 1 : SubSeq(s, m, n)[i] = s[m + i - 1]
  BY <1>1, PartOf
<1> QED  BY <1>2, SeqEqual

\* One byte alone
LEMMA OneByte ==
  ASSUME NEW b \in Nat
  PROVE  <<b>> \in Seq(Nat) /\ Len(<<b>>) = 1 /\ <<b>>[1] = b
OBVIOUS

\* One sequence behind another: the first is in front,
LEMMA Front ==
  ASSUME NEW s \in Seq(Nat), NEW t \in Seq(Nat)
  PROVE  /\ s \o t \in Seq(Nat) /\ Len(s \o t) = Len(s) + Len(t)
         /\ \A i \in 1 .. Len(s) : (s \o t)[i] = s[i]
<1>0. Len(s) \in Nat /\ Len(t) \in Nat  BY LenProperties
<1>1. /\ s \o t \in Seq(Nat) /\ Len(s \o t) = Len(s) + Len(t)
      /\ \A i \in 1 .. Len(s) + Len(t) : (s \o t)[i] = IF i <= Len(s) THEN s[i] ELSE t[i - Len(s)]
  BY ConcatProperties
<1> QED  BY <1>0, <1>1

\* and every byte of either is where it should be.
LEMMA Behind ==
  ASSUME NEW s \in Seq(Nat), NEW t \in Seq(Nat), NEW k \in Nat, k = Len(s), NEW m \in Nat, m = Len(t)
  PROVE  /\ s \o t \in Seq(Nat) /\ Len(s \o t) = k + m
         /\ \A i \in 1 .. k : (s \o t)[i] = s[i]
         /\ \A i \in 1 .. m : (s \o t)[k + i] = t[i]
<1>1. /\ s \o t \in Seq(Nat) /\ Len(s \o t) = Len(s) + Len(t)
      /\ \A i \in 1 .. Len(s) + Len(t) : (s \o t)[i] = IF i <= Len(s) THEN s[i] ELSE t[i - Len(s)]
  BY ConcatProperties
<1>2. \A i \in 1 .. k : (s \o t)[i] = s[i]  BY <1>1
<1>3. ASSUME NEW i \in 1 .. m  PROVE (s \o t)[k + i] = t[i]
  <2>1. k + i \in 1 .. Len(s) + Len(t) /\ ~(k + i <= Len(s)) /\ (k + i) - Len(s) = i  OBVIOUS
  <2> QED  BY <1>1, <2>1
<1> QED  BY <1>1, <1>2, <1>3

\* What is behind a sequence does not change it,
LEMMA PartBefore ==
  ASSUME NEW s \in Seq(Nat), NEW t \in Seq(Nat), NEW m \in Nat \ {0}, NEW n \in Nat,
         n <= Len(s), m <= n + 1
  PROVE  SubSeq(s \o t, m, n) = SubSeq(s, m, n)
<1>0. Len(s) \in Nat /\ Len(t) \in Nat  BY LenProperties
<1>1. /\ s \o t \in Seq(Nat) /\ Len(s \o t) = Len(s) + Len(t)
      /\ \A i \in 1 .. Len(s) : (s \o t)[i] = s[i]  BY <1>0, Behind
<1>2. /\ SubSeq(s, m, n) \in Seq(Nat) /\ Len(SubSeq(s, m, n)) = n - m + 1
      /\ \A i \in 1 .. n - m + 1 : SubSeq(s, m, n)[i] = s[m + i - 1]  BY PartOf
<1>3. n <= Len(s \o t)  BY <1>0, <1>1
<1>4. ASSUME NEW i \in 1 .. Len(SubSeq(s, m, n))  PROVE (s \o t)[m + i - 1] = SubSeq(s, m, n)[i]
  <2>1. i \in 1 .. n - m + 1 /\ m + i - 1 \in 1 .. Len(s)  BY <1>0, <1>2
  <2> QED  BY <1>1, <1>2, <2>1
<1> QED  BY <1>1, <1>2, <1>3, <1>4, PartIs

\* and it is there whole.
LEMMA PartAfter ==
  ASSUME NEW s \in Seq(Nat), NEW t \in Seq(Nat)
  PROVE  SubSeq(s \o t, Len(s) + 1, Len(s) + Len(t)) = t
<1> DEFINE from == Len(s) + 1
           to == Len(s) + Len(t)
<1>0. Len(s) \in Nat /\ Len(t) \in Nat  BY LenProperties
<1>1. /\ s \o t \in Seq(Nat) /\ Len(s \o t) = Len(s) + Len(t)
      /\ \A i \in 1 .. Len(t) : (s \o t)[Len(s) + i] = t[i]  BY <1>0, Behind
<1>2. ASSUME NEW i \in 1 .. Len(t)  PROVE (s \o t)[from + i - 1] = t[i]
  <2>1. from + i - 1 = Len(s) + i  BY <1>0
  <2> QED  BY <1>1, <2>1
<1>3. from \in Nat \ {0} /\ to \in Nat /\ Len(t) = to - from + 1 /\ to <= Len(s \o t)  BY <1>0, <1>1
<1> HIDE DEF from, to
<1>4. SubSeq(s \o t, from, to) = t  BY <1>1, <1>2, <1>3, PartIs
<1> QED  BY <1>4 DEF from, to

\* A frame as it is laid out
Laid(h, c, l, a, b) == <<h>> \o c \o <<l>> \o a \o b

\* Three byte strings are put together in either order.
LEMMA Regroup ==
  ASSUME NEW a \in Seq(Nat), NEW b \in Seq(Nat), NEW c \in Seq(Nat)
  PROVE  (a \o b) \o c = a \o (b \o c)
BY ConcatAssociative, SMTT(60)

\* The fields of a frame are where they were laid.
FieldsLie(f, h, c, l, a, b) ==
  /\ f \in Seq(Nat) /\ Len(f) = 2 + Len(c) + Len(a) + Len(b)
  /\ f[1] = h /\ f[2 + Len(c)] = l
  /\ SubSeq(f, 2, 1 + Len(c)) = c
  /\ SubSeq(f, 3 + Len(c), 2 + Len(c) + Len(a)) = a
  /\ SubSeq(f, 3 + Len(c) + Len(a), 2 + Len(c) + Len(a) + Len(b)) = b

\* The parts of a frame, one behind the other, are found again.
LEMMA LaidOut ==
  ASSUME NEW h \in Nat, NEW c \in Seq(Nat), NEW l \in Nat, NEW a \in Seq(Nat), NEW b \in Seq(Nat)
  PROVE  FieldsLie(Laid(h, c, l, a, b), h, c, l, a, b)
<1> DEFINE f == Laid(h, c, l, a, b)
           nc == Len(c)
           na == Len(a)
           nb == Len(b)
<1>n. nc \in Nat /\ na \in Nat /\ nb \in Nat /\ nc = Len(c) /\ na = Len(a) /\ nb = Len(b)  BY LenProperties
<1>g. f = Laid(h, c, l, a, b)  OBVIOUS
<1> DEFINE x == <<h>> \o c
           y == x \o <<l>>
           z == y \o a
<1>f. f = z \o b  BY DEF Laid
<1>z. z = y \o a  OBVIOUS
<1>y. y = x \o <<l>>  OBVIOUS
<1>x. x = <<h>> \o c  OBVIOUS
<1> HIDE DEF x, y, z, f, nc, na, nb
<1> USE <1>n
<1>0. /\ <<h>> \in Seq(Nat) /\ Len(<<h>>) = 1 /\ <<h>>[1] = h
      /\ <<l>> \in Seq(Nat) /\ Len(<<l>>) = 1 /\ <<l>>[1] = l  BY OneByte
<1>1. x \in Seq(Nat) /\ Len(x) = 1 + nc /\ x[1] = h  BY <1>x, <1>0, Behind
<1>2. y \in Seq(Nat) /\ Len(y) = 2 + nc /\ y[1] = h /\ y[2 + nc] = l
  <2>1. 1 + nc \in Nat /\ 1 \in 1 .. 1 + nc /\ 1 \in 1 .. 1  OBVIOUS
  <2>2. /\ y \in Seq(Nat) /\ Len(y) = (1 + nc) + 1 /\ y[1] = x[1]
        /\ y[(1 + nc) + 1] = <<l>>[1]  BY <1>y, <1>0, <1>1, <2>1, Behind
  <2>3. (1 + nc) + 1 = 2 + nc  OBVIOUS
  <2> QED  BY <1>0, <1>1, <2>2, <2>3
<1>3. z \in Seq(Nat) /\ Len(z) = 2 + nc + na /\ z[1] = h /\ z[2 + nc] = l
  <2>1. 2 + nc \in Nat /\ 1 \in 1 .. 2 + nc /\ 2 + nc \in 1 .. 2 + nc  OBVIOUS
  <2>2. y \in Seq(Nat)  BY <1>2
  <2>3. /\ y \o a \in Seq(Nat) /\ Len(y \o a) = Len(y) + Len(a)
        /\ \A i \in 1 .. Len(y) : (y \o a)[i] = y[i]  BY <2>2, Front
  <2> QED  BY <1>z, <1>2, <2>1, <2>3
<1>4. f \in Seq(Nat) /\ Len(f) = 2 + nc + na + nb /\ f[1] = h /\ f[2 + nc] = l
  <2>1. 2 + nc + na \in Nat /\ 1 \in 1 .. 2 + nc + na /\ 2 + nc \in 1 .. 2 + nc + na  OBVIOUS
  <2>2. z \in Seq(Nat)  BY <1>3
  <2>3. /\ z \o b \in Seq(Nat) /\ Len(z \o b) = Len(z) + Len(b)
        /\ \A i \in 1 .. Len(z) : (z \o b)[i] = z[i]  BY <2>2, Front
  <2> QED  BY <1>f, <1>3, <2>1, <2>3
<1>5. SubSeq(f, 2, 1 + nc) = c
  <2> DEFINE e == 1 + nc
  <2>1. 2 = 1 + 1 /\ e = 1 + nc  OBVIOUS
  <2>l. Len(x) = 1 + nc /\ Len(y) = 2 + nc /\ Len(z) = 2 + nc + na  BY <1>1, <1>2, <1>3
  <2>2. /\ e \in Nat /\ e <= Len(x) /\ e <= Len(y) /\ e <= Len(z)
        /\ 2 <= e + 1 /\ 2 \in Nat \ {0}
    BY <2>l
  <2> HIDE DEF e
  <2>s. x \in Seq(Nat) /\ y \in Seq(Nat) /\ z \in Seq(Nat) /\ <<l>> \in Seq(Nat)  BY <1>0, <1>1, <1>2, <1>3
  <2>3. SubSeq(f, 2, e) = SubSeq(z, 2, e)
    <3>1. SubSeq(z \o b, 2, e) = SubSeq(z, 2, e)  BY <2>s, <2>2, PartBefore, SMTT(30)
    <3> QED  BY <3>1, <1>f
  <2>4. SubSeq(z, 2, e) = SubSeq(y, 2, e)
    <3>1. SubSeq(y \o a, 2, e) = SubSeq(y, 2, e)  BY <2>s, <2>2, PartBefore, SMTT(30)
    <3> QED  BY <3>1, <1>z
  <2>5. SubSeq(y, 2, e) = SubSeq(x, 2, e)
    <3>1. SubSeq(x \o <<l>>, 2, e) = SubSeq(x, 2, e)  BY <2>s, <2>2, PartBefore, SMTT(30)
    <3> QED  BY <3>1, <1>y
  <2>6. SubSeq(<<h>> \o c, Len(<<h>>) + 1, Len(<<h>>) + Len(c)) = c  BY <1>0, PartAfter
  <2>7. SubSeq(x, 2, e) = c  BY <1>x, <1>0, <2>1, <2>6
  <2> QED  BY <2>1, <2>3, <2>4, <2>5, <2>7
<1>6. SubSeq(f, 3 + nc, 2 + nc + na) = a
  <2> DEFINE from == 3 + nc
             to == 2 + nc + na
  <2>1. from = Len(y) + 1 /\ to = Len(y) + Len(a)  BY <1>2
  <2>2. from \in Nat \ {0} /\ to \in Nat /\ to <= Len(z) /\ from <= to + 1  BY <1>3
  <2> HIDE DEF from, to
  <2>3. SubSeq(y \o a, Len(y) + 1, Len(y) + Len(a)) = a  BY <1>2, PartAfter
  <2>s. z \in Seq(Nat)  BY <1>3
  <2>4. SubSeq(f, from, to) = SubSeq(z, from, to)
    <3>1. SubSeq(z \o b, from, to) = SubSeq(z, from, to)  BY <2>s, <2>2, PartBefore, SMTT(30)
    <3> QED  BY <3>1, <1>f
  <2> QED  BY <1>z, <2>1, <2>3, <2>4 DEF from, to
<1>7. SubSeq(f, 3 + nc + na, 2 + nc + na + nb) = b
  <2>1. 3 + nc + na = Len(z) + 1 /\ 2 + nc + na + nb = Len(z) + Len(b)  BY <1>3
  <2>2. SubSeq(z \o b, Len(z) + 1, Len(z) + Len(b)) = b  BY <1>3, PartAfter
  <2> QED  BY <1>f, <2>1, <2>2
<1> QED  BY <1>4, <1>5, <1>6, <1>7, <1>g DEF FieldsLie

\* A frame is its fields, laid out.
LEMMA TakenApart ==
  ASSUME NEW f \in Seq(Nat), NEW k \in Nat, NEW e \in Nat, 2 + k <= Len(f), 2 + k <= e, e <= Len(f)
  PROVE  f = Laid(f[1], SubSeq(f, 2, 1 + k), f[2 + k], SubSeq(f, 3 + k, e), SubSeq(f, e + 1, Len(f)))
<1>0. Len(f) \in Nat  BY LenProperties
<1>1. f[1] \in Nat /\ f[2 + k] \in Nat  BY <1>0, ElementOfSeq
<1> DEFINE c == SubSeq(f, 2, 1 + k)
           a == SubSeq(f, 3 + k, e)
           b == SubSeq(f, e + 1, Len(f))
           g == Laid(f[1], c, f[2 + k], a, b)
<1>2. <<f[1]>> = SubSeq(f, 1, 1) /\ <<f[2 + k]>> = SubSeq(f, 2 + k, 2 + k)
  BY <1>0, <1>1, OneByte, PartIs
<1>3. SubSeq(f, 1, 1) \o c = SubSeq(f, 1, 1 + k)
  BY <1>0, ConcatAdjacentSubSeq
<1>4. SubSeq(f, 1, 1 + k) \o SubSeq(f, 2 + k, 2 + k) = SubSeq(f, 1, 2 + k)
  <2>1. 1 \in 1 .. Len(f) + 1 /\ 1 + k \in 0 .. Len(f) /\ 2 + k \in 1 + k .. Len(f)  BY <1>0
  <2>2. SubSeq(f, 1, 1 + k) \o SubSeq(f, (1 + k) + 1, 2 + k) = SubSeq(f, 1, 2 + k)
    BY <2>1, ConcatAdjacentSubSeq
  <2> QED  BY <2>2
<1>5. SubSeq(f, 1, 2 + k) \o a = SubSeq(f, 1, e)
  <2>1. 1 \in 1 .. Len(f) + 1 /\ 2 + k \in 0 .. Len(f) /\ e \in 2 + k .. Len(f)  BY <1>0
  <2>2. SubSeq(f, 1, 2 + k) \o SubSeq(f, (2 + k) + 1, e) = SubSeq(f, 1, e)
    BY <2>1, ConcatAdjacentSubSeq
  <2>3. (2 + k) + 1 = 3 + k  OBVIOUS
  <2> QED  BY <2>2, <2>3
<1>6. SubSeq(f, 1, e) \o b = SubSeq(f, 1, Len(f))
  <2>1. 1 \in 1 .. Len(f) + 1 /\ e \in 1 - 1 .. Len(f) /\ Len(f) \in e .. Len(f)  BY <1>0
  <2> QED  BY <2>1, ConcatAdjacentSubSeq
<1>7. SubSeq(f, 1, Len(f)) = f  BY SubSeqFull
<1>8. g = <<f[1]>> \o c \o <<f[2 + k]>> \o a \o b  BY DEF Laid
<1> QED  BY <1>2, <1>3, <1>4, <1>5, <1>6, <1>7, <1>8

---------------------------------------------------------------------------
(* The byte of the path length.                                            *)

\* A number is taken apart by a modulus in one way only.
LEMMA DivMod ==
  ASSUME NEW m \in Nat \ {0}, NEW k \in 0 .. 3, NEW c \in 0 .. m - 1
  PROVE  (k * m + c) \div m = k /\ (k * m + c) % m = c /\ k * m + c \in 0 .. 4 * m - 1
<1>1. CASE k = 0  BY <1>1
<1>2. CASE k = 1  BY <1>2
<1>3. CASE k = 2  BY <1>3
<1>4. CASE k = 3  BY <1>4
<1> QED  BY <1>1, <1>2, <1>3, <1>4

\* What a division takes apart, it puts together.
LEMMA DivModBack ==
  ASSUME NEW m \in Nat \ {0}, NEW f \in 0 .. 4 * m - 1
  PROVE  f \div m \in 0 .. 3 /\ f % m \in 0 .. m - 1 /\ f = (f \div m) * m + (f % m)
OBVIOUS

\* The size and the count of a path length, and the bytes they make.
LEMMA FieldParts ==
  ASSUME NEW f \in PathField
  PROVE  /\ f \in Nat /\ HashSize(f) \in 1 .. 4 /\ HashCount(f) \in 0 .. MaxPathLen - 1
         /\ f = (HashSize(f) - 1) * MaxPathLen + HashCount(f)
         /\ PathBytes(f) = HashSize(f) * HashCount(f) /\ PathBytes(f) \in Nat
<1>1. MaxPathLen \in Nat \ {0} /\ f \in 0 .. 4 * MaxPathLen - 1
  BY PathLenAssumption DEF PathField
<1>2. /\ f \div MaxPathLen \in 0 .. 3 /\ f % MaxPathLen \in 0 .. MaxPathLen - 1
      /\ f = (f \div MaxPathLen) * MaxPathLen + (f % MaxPathLen)
  BY <1>1, DivModBack
<1>3. HashSize(f) \in 1 .. 4 /\ HashCount(f) \in 0 .. MaxPathLen - 1 /\ HashSize(f) - 1 = f \div MaxPathLen
  BY <1>2 DEF HashSize, HashCount
<1>4. PathBytes(f) = HashSize(f) * HashCount(f)  BY DEF PathBytes
<1>5. f = (HashSize(f) - 1) * MaxPathLen + HashCount(f)  BY <1>2, <1>3 DEF HashCount
<1>6. HashSize(f) * HashCount(f) \in Nat  BY <1>1, <1>3
<1> QED  BY <1>1, <1>3, <1>4, <1>5, <1>6

\* A path length that is put together has the size and the count it was given.
LEMMA FieldMade ==
  ASSUME NEW size \in 1 .. 4, NEW count \in 0 .. MaxPathLen - 1
  PROVE  /\ Field(size, count) \in PathField
         /\ HashSize(Field(size, count)) = size /\ HashCount(Field(size, count)) = count
<1>1. MaxPathLen \in Nat \ {0}  BY PathLenAssumption
<1>2. count % MaxPathLen = count  BY <1>1
<1>3. Field(size, count) = (size - 1) * MaxPathLen + count  BY <1>2 DEF Field
<1>4. size - 1 \in 0 .. 3 /\ (size - 1) + 1 = size  OBVIOUS
<1>5. /\ ((size - 1) * MaxPathLen + count) \div MaxPathLen = size - 1
      /\ ((size - 1) * MaxPathLen + count) % MaxPathLen = count
      /\ (size - 1) * MaxPathLen + count \in 0 .. 4 * MaxPathLen - 1
  BY <1>1, <1>4, DivMod
<1> QED  BY <1>3, <1>4, <1>5 DEF HashSize, HashCount, PathField

---------------------------------------------------------------------------
(* The codec.                                                              *)

\* The packets that have the form of a frame's fields
Packets ==
  [header : 0 .. 63, codes : Seq(Nat), path_len : PathField, path : Seq(Nat), payload : Seq(Nat)]

\* What a relay may hand to the writer: no more than the fields have room for,
\* and a path of at least the bytes that are written
Writable(p) ==
  /\ p \in Packets
  /\ IF HasTransportCodes(p) THEN Len(p.codes) = 4 ELSE p.codes = NO_CODES
  /\ IsValidPathLen(p.path_len) /\ PathBytes(p.path_len) <= Len(p.path)
  /\ Len(p.payload) <= MaxPayload

\* What a reader makes of a frame: a path of just the bytes that are counted
Whole(p) == Writable(p) /\ Len(p.path) = PathBytes(p.path_len)

\* The types of the fields of a writable packet
LEMMA PacketParts ==
  ASSUME NEW q, Writable(q)
  PROVE  /\ q.header \in 0 .. 63 /\ q.header \in Nat
         /\ q.codes \in Seq(Nat) /\ q.path \in Seq(Nat) /\ q.payload \in Seq(Nat)
         /\ q.path_len \in PathField /\ q.path_len \in Nat /\ PathBytes(q.path_len) \in Nat
         /\ Len(q.payload) \in Nat
<1>1. q.header \in 0 .. 63  BY DEF Writable, Packets
<1>2. q.header \in Nat  BY <1>1
<1>3. q.codes \in Seq(Nat) /\ q.path \in Seq(Nat) /\ q.payload \in Seq(Nat)  BY DEF Writable, Packets
<1>4. q.path_len \in PathField  BY DEF Writable, Packets
<1>5. q.path_len \in Nat /\ PathBytes(q.path_len) \in Nat  BY <1>4, FieldParts
<1>6. Len(q.payload) \in Nat  BY <1>3, LenProperties
<1> QED  BY <1>1, <1>2, <1>3, <1>4, <1>5, <1>6

\* Where the fields of a frame are depends on its header only.
LEMMA Places ==
  ASSUME NEW f, NEW p, p.header = f[1], f[1] \in 0 .. 255
  PROVE  /\ At(f) = IF HasTransportCodes(p) THEN 6 ELSE 2
         /\ HasTransportCodes(p) <=> HasTransportCodes([header |-> f[1]])
BY DEF At, HasTransportCodes, RouteType

\* The length of a frame is what meshcore_packet_get_raw_length says, and it
\* fits.
LEMMA RawFits ==
  ASSUME NEW q, Writable(q)
  PROVE  RawLength(q) \in Nat /\ RawLength(q) <= MaxFrame
<1>1. /\ PathBytes(q.path_len) \in Nat /\ PathBytes(q.path_len) <= MaxPathLen
      /\ Len(q.payload) \in Nat /\ Len(q.payload) <= MaxPayload
  BY FieldParts, LenProperties DEF Writable, Packets, IsValidPathLen
<1>2. MaxPathLen \in Nat /\ MaxPayload \in Nat /\ MaxFrame \in Nat /\ 6 + MaxPathLen + MaxPayload <= MaxFrame
  BY PathLenAssumption, WireAssumption
<1>3. RawLength(q) = 2 + PathBytes(q.path_len) + Len(q.payload) + (IF HasTransportCodes(q) THEN 4 ELSE 0)
  BY DEF RawLength
<1> DEFINE b == PathBytes(q.path_len)
           l == Len(q.payload)
           t == IF HasTransportCodes(q) THEN 4 ELSE 0
<1>4. t \in {0, 4} /\ RawLength(q) = 2 + b + l + t  BY <1>3
<1>5. b \in Nat /\ b <= MaxPathLen /\ l \in Nat /\ l <= MaxPayload  BY <1>1
<1> HIDE DEF b, l, t
<1> QED  BY <1>2, <1>4, <1>5

\* The bytes that are written of a path
LEMMA PathWritten ==
  ASSUME NEW q, Writable(q)
  PROVE  /\ WritePath(q) \in Seq(Nat) /\ Len(WritePath(q)) = PathBytes(q.path_len)
         /\ Len(q.path) = PathBytes(q.path_len) => WritePath(q) = q.path
<1>1. /\ PathBytes(q.path_len) \in Nat /\ q.path \in Seq(Nat)
      /\ PathBytes(q.path_len) <= Len(q.path)
  BY FieldParts DEF Writable, Packets
<1>2. /\ SubSeq(q.path, 1, PathBytes(q.path_len)) \in Seq(Nat)
      /\ Len(SubSeq(q.path, 1, PathBytes(q.path_len))) = PathBytes(q.path_len) - 1 + 1
  BY <1>1, PartOf
<1>3. SubSeq(q.path, 1, Len(q.path)) = q.path  BY <1>1, SubSeqFull
<1> QED  BY <1>1, <1>2, <1>3 DEF WritePath

\* The writer lays out the fields of a sound packet, and the parser finds them
\* where they are.
LEMMA Written ==
  ASSUME NEW q, Writable(q), NEW f, f = WriteTo(q)
  PROVE  /\ f \in Seq(Nat) /\ Len(f) = RawLength(q) /\ f[1] = q.header
         /\ At(f) <= Len(f) /\ f[At(f)] = q.path_len
         /\ End(f) = At(f) + PathBytes(q.path_len) /\ Len(f) = End(f) + Len(q.payload)
         /\ End(f) \in Nat
         /\ Fields(f) = [header |-> q.header, codes |-> q.codes, path_len |-> q.path_len,
                         path |-> WritePath(q), payload |-> q.payload]
<1> DEFINE c == IF HasTransportCodes(q) THEN q.codes ELSE <<>>
           nc == IF HasTransportCodes(q) THEN 4 ELSE 0
           a == WritePath(q)
           na == PathBytes(q.path_len)
           b == q.payload
           nb == Len(q.payload)
           h == q.header
           l == q.path_len
<1>0. q.header \in 0 .. 63 /\ q.header \in Nat  BY PacketParts
<1>1. na \in Nat /\ q.path_len \in Nat  BY PacketParts
<1>2. a \in Seq(Nat) /\ Len(a) = na  BY PathWritten
<1>3. b \in Seq(Nat) /\ nb \in Nat  BY PacketParts
<1>4. c \in Seq(Nat) /\ Len(c) = nc /\ nc \in Nat
  <2>1. CASE HasTransportCodes(q)
    <3>1. q.codes \in Seq(Nat)  BY PacketParts
    <3>2. Len(q.codes) = 4  BY <2>1 DEF Writable
    <3> QED  BY <2>1, <3>1, <3>2
  <2>2. CASE ~HasTransportCodes(q)  BY <2>2, EmptySeq
  <2> QED  BY <2>1, <2>2
<1>5. f = Laid(q.header, c, q.path_len, a, b)
  BY DEF Writable, WriteTo, Laid
<1>6. RawLength(q) = 2 + nc + na + nb
  <2>0. na \in Nat /\ nb \in Nat  BY PacketParts
  <2>1. CASE HasTransportCodes(q)  BY <2>0, <2>1 DEF RawLength
  <2>2. CASE ~HasTransportCodes(q)  BY <2>0, <2>2 DEF RawLength
  <2> QED  BY <2>1, <2>2
<1>7. HasTransportCodes(q) => nc = 4 /\ c = q.codes  OBVIOUS
<1>8. ~HasTransportCodes(q) => nc = 0 /\ q.codes = NO_CODES  BY DEF Writable
<1>n. na = PathBytes(q.path_len) /\ a = WritePath(q) /\ b = q.payload /\ nb = Len(b)  OBVIOUS
<1>l. h \in Nat /\ l \in Nat  BY <1>0, <1>1
<1>m. nc = Len(c) /\ na = Len(a) /\ nb = Len(b)  BY <1>2, <1>4
<1>o. f = Laid(h, c, l, a, b)  BY <1>5
<1>p. h = q.header /\ l = q.path_len  OBVIOUS
<1> HIDE DEF c, nc, a, na, b, nb, h, l
<1>9. /\ f \in Seq(Nat) /\ Len(f) = 2 + nc + na + nb
      /\ f[1] = h /\ f[2 + nc] = l
      /\ SubSeq(f, 2, 1 + nc) = c
      /\ SubSeq(f, 3 + nc, 2 + nc + na) = a
      /\ SubSeq(f, 3 + nc + na, 2 + nc + na + nb) = b
  <2>0. c \in Seq(Nat) /\ a \in Seq(Nat) /\ b \in Seq(Nat)  BY <1>2, <1>3, <1>4
  <2>1. FieldsLie(f, h, c, l, a, b)  BY <2>0, <1>l, <1>o, LaidOut
  <2> QED  BY <2>1, <1>m DEF FieldsLie
<1>k. nc \in Nat /\ na \in Nat /\ nb \in Nat /\ Len(f) = 2 + nc + na + nb  BY <1>1, <1>3, <1>4, <1>9
<1>10. At(f) = 2 + nc
  <2>0. q.header = f[1]  BY <1>9, <1>p
  <2>1. f[1] \in 0 .. 255  BY <1>0, <2>0
  <2>2. At(f) = IF HasTransportCodes(q) THEN 6 ELSE 2  BY <2>0, <2>1, Places
  <2> QED  BY <2>2, <1>7, <1>8
<1>11. End(f) = 2 + nc + na  BY <1>9, <1>10, <1>n, <1>p DEF End
<1>12. (IF At(f) = 6 THEN SubSeq(f, 2, 5) ELSE NO_CODES) = q.codes
  <2>1. CASE HasTransportCodes(q)
    <3>1. At(f) = 6 /\ 1 + nc = 5 /\ c = q.codes  BY <2>1, <1>7, <1>10
    <3> QED  BY <3>1, <1>9
  <2>2. CASE ~HasTransportCodes(q)
    <3>1. At(f) = 2 /\ q.codes = NO_CODES  BY <2>2, <1>8, <1>10
    <3> QED  BY <3>1
  <2> QED  BY <2>1, <2>2
<1>13. SubSeq(f, At(f) + 1, End(f)) = a
  <2>1. At(f) + 1 = 3 + nc  BY <1>4, <1>10
  <2> QED  BY <2>1, <1>9, <1>11
<1>14. SubSeq(f, End(f) + 1, Len(f)) = b
  <2>1. End(f) + 1 = 3 + nc + na  BY <1>1, <1>4, <1>11
  <2> QED  BY <2>1, <1>9
<1>15. f[At(f)] = q.path_len /\ f[1] = q.header  BY <1>9, <1>10, <1>p
<1>16. Fields(f) = [header |-> q.header, codes |-> q.codes, path_len |-> q.path_len,
                    path |-> WritePath(q), payload |-> q.payload]
  BY <1>12, <1>13, <1>14, <1>15, <1>n DEF Fields
<1>17. /\ At(f) <= Len(f) /\ End(f) = At(f) + PathBytes(q.path_len)
       /\ Len(f) = End(f) + Len(q.payload) /\ End(f) \in Nat
  BY <1>k, <1>10, <1>11, <1>n
<1> QED  BY <1>6, <1>9, <1>15, <1>16, <1>17

\* What the next node makes of a packet that is sent
Sent(q) ==
  [header |-> q.header, codes |-> q.codes, path_len |-> q.path_len,
   path |-> WritePath(q), payload |-> q.payload]

\* The fields of what is sent
LEMMA SentFields ==
  ASSUME NEW q
  PROVE  /\ Sent(q).header = q.header /\ Sent(q).codes = q.codes /\ Sent(q).path_len = q.path_len
         /\ Sent(q).path = WritePath(q) /\ Sent(q).payload = q.payload
BY DEF Sent

\* Transport codes are a matter of the header.
LEMMA SameRoute ==
  ASSUME NEW p, NEW q, p.header = q.header
  PROVE  /\ RouteType(p) = RouteType(q) /\ PayloadType(p) = PayloadType(q)
         /\ HasTransportCodes(p) <=> HasTransportCodes(q)
         /\ (IsRouteFlood(p) <=> IsRouteFlood(q)) /\ (IsRouteDirect(p) <=> IsRouteDirect(q))
         /\ (IsTrace(p) <=> IsTrace(q))
BY DEF RouteType, PayloadType, HasTransportCodes, IsRouteFlood, IsRouteDirect, IsTrace

\* What a writer sends is whole.
LEMMA SentWhole ==
  ASSUME NEW q, Writable(q)
  PROVE  Whole(Sent(q)) /\ Sent(q) # Bad
<1> DEFINE p == Sent(q)
<1>1. /\ p.header = q.header /\ p.codes = q.codes /\ p.path_len = q.path_len
      /\ p.path = WritePath(q) /\ p.payload = q.payload  BY SentFields
<1>2. /\ q.header \in 0 .. 63 /\ q.codes \in Seq(Nat) /\ q.payload \in Seq(Nat)
      /\ q.path_len \in PathField  BY PacketParts
<1>3. WritePath(q) \in Seq(Nat) /\ Len(WritePath(q)) = PathBytes(q.path_len)  BY PathWritten
<1>4. p \in Packets  BY <1>2, <1>3 DEF Sent, Packets
<1> HIDE DEF p
<1>5. HasTransportCodes(p) <=> HasTransportCodes(q)  BY <1>1, SameRoute
<1>6. IF HasTransportCodes(p) THEN Len(p.codes) = 4 ELSE p.codes = NO_CODES
  BY <1>1, <1>5 DEF Writable
<1>7. IsValidPathLen(p.path_len) /\ Len(p.payload) <= MaxPayload  BY <1>1 DEF Writable
<1>8. Len(p.path) = PathBytes(p.path_len)  BY <1>1, <1>3
<1>9. PathBytes(p.path_len) \in Nat  BY <1>1, <1>2, FieldParts
<1>10. PathBytes(p.path_len) <= Len(p.path)  BY <1>8, <1>9
<1>11. p # Bad
  <2>1. Bad.header = -1  BY DEF Bad
  <2>2. p.header \in 0 .. 63  BY <1>1, <1>2
  <2> QED  BY <2>1, <2>2
<1> QED  BY <1>4, <1>6, <1>7, <1>8, <1>10, <1>11 DEF Whole, Writable, p

\* A frame whose path length, if it has one, is one
FrameFits(f) == f \in Seq(Nat) /\ (f # <<>> /\ At(f) <= Len(f) => f[At(f)] \in PathField)

\* A sound packet is read as it was sent: meshcore_dispatcher_try_parse_packet
\* finds in what meshcore_packet_write_to wrote the header, the codes and the
\* payload, and the part of the path that is counted.
THEOREM RoundTrip ==
  ASSUME NEW q, Writable(q)
  PROVE  TryParse(WriteTo(q)) = Sent(q) /\ FrameFits(WriteTo(q)) /\ Len(WriteTo(q)) = RawLength(q)
<1> DEFINE f == WriteTo(q)
<1>1. /\ f \in Seq(Nat) /\ Len(f) = RawLength(q) /\ f[1] = q.header
      /\ At(f) <= Len(f) /\ f[At(f)] = q.path_len
      /\ End(f) = At(f) + PathBytes(q.path_len) /\ Len(f) = End(f) + Len(q.payload)
      /\ End(f) \in Nat /\ Fields(f) = Sent(q)
  BY Written DEF Sent
<1> HIDE DEF f
<1>2. Len(f) <= MaxFrame  BY <1>1, RawFits
<1>3. Len(f) # 0
  <2>1. /\ PathBytes(q.path_len) \in Nat /\ Len(q.payload) \in Nat /\ At(f) \in {2, 6}
    BY PacketParts DEF At
  <2> QED  BY <1>1, <2>1
<1>4. ~(PayloadVer([header |-> f[1]]) > 0)
  <2>1. f[1] \in 0 .. 63  BY <1>1, PacketParts
  <2>2. f[1] \div 64 = 0  BY <2>1
  <2> QED  BY <2>2 DEF PayloadVer
<1>5. HashSize(f[At(f)]) # 4 /\ PathBytes(f[At(f)]) <= MaxPathLen
  BY <1>1 DEF Writable, IsValidPathLen
<1>6. PathBytes(f[At(f)]) \in Nat /\ MaxPathLen \in Nat  BY <1>1, PacketParts, PathLenAssumption
<1>7. Len(q.payload) \in Nat /\ Len(q.payload) <= MaxPayload /\ MaxPayload \in Nat /\ MaxFrame \in Nat
  BY PacketParts, WireAssumption DEF Writable
<1>8. End(f) <= Len(f) /\ Len(f) - End(f) <= MaxPayload /\ At(f) \in Nat /\ Len(f) \in Nat
  <2>1. End(f) \in Nat /\ Len(f) = End(f) + Len(q.payload)  BY <1>1
  <2>2. At(f) \in Nat  BY DEF At
  <2> QED  BY <2>1, <2>2, <1>7
<1>9. /\ ~(Len(f) > MaxFrame) /\ ~(At(f) > Len(f)) /\ ~(PathBytes(f[At(f)]) > MaxPathLen)
      /\ ~(End(f) > Len(f)) /\ ~(Len(f) - End(f) > MaxPayload)
  <2>1. At(f) <= Len(f)  BY <1>1
  <2>2. End(f) \in Nat  BY <1>1
  <2> QED  BY <2>1, <2>2, <1>2, <1>5, <1>6, <1>7, <1>8
<1>10. TryParse(f) = Fields(f)  BY <1>3, <1>4, <1>5, <1>9 DEF TryParse
<1>11. f[At(f)] \in PathField  BY <1>1, PacketParts
<1> QED  BY <1>1, <1>10, <1>11 DEF f, FrameFits

\* What meshcore_dispatcher_try_parse_packet accepts is sound, and
\* meshcore_packet_write_to makes the same frame of it, byte for byte.
THEOREM Parsed ==
  ASSUME NEW f, FrameFits(f), NEW p, p = TryParse(f), p # Bad
  PROVE  /\ Whole(p) /\ p.header = f[1] /\ WriteTo(p) = f
         /\ Len(f) = RawLength(p) /\ f # <<>> /\ p = Fields(f)
<1>1. /\ Len(f) # 0 /\ ~(PayloadVer([header |-> f[1]]) > 0) /\ ~(At(f) > Len(f))
      /\ HashSize(f[At(f)]) # 4 /\ ~(PathBytes(f[At(f)]) > MaxPathLen)
      /\ ~(End(f) > Len(f)) /\ ~(Len(f) - End(f) > MaxPayload) /\ p = Fields(f)
  BY DEF TryParse
<1>2. f \in Seq(Nat) /\ Len(f) \in Nat /\ f # <<>>  BY <1>1, LenProperties, EmptySeq DEF FrameFits
<1>3. f[1] \in Nat
  <2>1. 1 \in 1 .. Len(f)  BY <1>1, <1>2
  <2> QED  BY <1>2, <2>1, ElementOfSeq
<1>4. f[1] \in 0 .. 63
  <2>1. ~(f[1] \div 64 > 0)  BY <1>1 DEF PayloadVer
  <2> QED  BY <1>3, <2>1
<1>5. At(f) \in {2, 6} /\ At(f) <= Len(f)
  <2>1. At(f) \in {2, 6}  BY DEF At
  <2> QED  BY <2>1, <1>1, <1>2
<1>6. f[At(f)] \in PathField /\ PathBytes(f[At(f)]) \in Nat /\ PathBytes(f[At(f)]) <= MaxPathLen
  <2>1. f[At(f)] \in PathField  BY <1>2, <1>5 DEF FrameFits
  <2>2. PathBytes(f[At(f)]) \in Nat  BY <2>1, FieldParts
  <2> QED  BY <2>1, <2>2, <1>1, PathLenAssumption
<1>7. End(f) \in Nat /\ End(f) = At(f) + PathBytes(f[At(f)]) /\ End(f) <= Len(f)
      /\ Len(f) - End(f) <= MaxPayload
  <2>1. End(f) = At(f) + PathBytes(f[At(f)])  BY DEF End
  <2>2. MaxPayload \in Nat  BY WireAssumption
  <2>3. End(f) \in Nat  BY <2>1, <1>5, <1>6
  <2> QED  BY <2>1, <2>2, <2>3, <1>1, <1>2
<1> DEFINE k == At(f) - 2
           e == End(f)
           a == SubSeq(f, 3 + k, e)
           b == SubSeq(f, e + 1, Len(f))
<1>8. /\ k \in Nat /\ 2 + k = At(f) /\ 3 + k = At(f) + 1 /\ 1 + k = At(f) - 1
      /\ e \in Nat /\ 2 + k <= Len(f) /\ 2 + k <= e /\ e <= Len(f)
  <2>1. CASE At(f) = 2  BY <2>1, <1>2, <1>5, <1>6, <1>7
  <2>2. CASE At(f) = 6  BY <2>2, <1>2, <1>5, <1>6, <1>7
  <2> QED  BY <1>5, <2>1, <2>2
<1>e. e = End(f)  OBVIOUS
<1>c. a = SubSeq(f, At(f) + 1, End(f)) /\ b = SubSeq(f, End(f) + 1, Len(f))  BY <1>8
<1> HIDE DEF e, k
<1>9. f = Laid(f[1], SubSeq(f, 2, 1 + k), f[2 + k], a, b)  BY <1>2, <1>8, TakenApart
<1>10. a \in Seq(Nat) /\ Len(a) = PathBytes(f[At(f)])
  <2>1. /\ 3 + k \in Nat \ {0} /\ e \in Nat /\ e <= Len(f) /\ 3 + k <= e + 1  BY <1>8
  <2>2. a \in Seq(Nat) /\ Len(a) = e - (3 + k) + 1  BY <1>2, <2>1, PartOf
  <2>3. e - (3 + k) + 1 = PathBytes(f[At(f)])  BY <1>5, <1>6, <1>7, <1>8, <1>e
  <2> QED  BY <2>2, <2>3
<1>11. b \in Seq(Nat) /\ Len(b) = Len(f) - End(f)
  <2>1. /\ e + 1 \in Nat \ {0} /\ Len(f) \in Nat /\ Len(f) <= Len(f) /\ e + 1 <= Len(f) + 1  BY <1>2, <1>8
  <2>2. b \in Seq(Nat) /\ Len(b) = Len(f) - (e + 1) + 1  BY <1>2, <2>1, PartOf
  <2>3. Len(f) - (e + 1) + 1 = Len(f) - End(f)  BY <2>1, <1>8, <1>e
  <2> QED  BY <2>2, <2>3
<1>12. SubSeq(f, 2, 1 + k) \in Seq(Nat) /\ Len(SubSeq(f, 2, 1 + k)) = k
  <2>1. /\ 2 \in Nat \ {0} /\ 1 + k \in Nat /\ 1 + k <= Len(f) /\ 2 <= (1 + k) + 1  BY <1>2, <1>8
  <2>2. SubSeq(f, 2, 1 + k) \in Seq(Nat) /\ Len(SubSeq(f, 2, 1 + k)) = (1 + k) - 2 + 1  BY <1>2, <2>1, PartOf
  <2>3. (1 + k) - 2 + 1 = k  BY <1>8
  <2> QED  BY <2>2, <2>3
<1> HIDE DEF a, b
<1>13. p = [header |-> f[1], codes |-> IF At(f) = 6 THEN SubSeq(f, 2, 5) ELSE NO_CODES,
            path_len |-> f[At(f)], path |-> a, payload |-> b]
  BY <1>1, <1>c DEF Fields
<1>14. /\ p.header = f[1] /\ p.path_len = f[At(f)] /\ p.path = a /\ p.payload = b
       /\ p.codes = IF At(f) = 6 THEN SubSeq(f, 2, 5) ELSE NO_CODES
  BY <1>13
<1>15. At(f) = IF HasTransportCodes(p) THEN 6 ELSE 2
  <2>1. f[1] \in 0 .. 255 /\ p.header = f[1]  BY <1>4, <1>14
  <2> QED  BY <2>1, Places
<1>16. HasTransportCodes(p) => k = 4 /\ p.codes = SubSeq(f, 2, 1 + k)
  <2>1. SUFFICES ASSUME HasTransportCodes(p) PROVE k = 4 /\ p.codes = SubSeq(f, 2, 1 + k)  OBVIOUS
  <2>2. At(f) = 6  BY <2>1, <1>15
  <2>3. k = 4 /\ 1 + k = 5  BY <2>2, <1>8
  <2> QED  BY <2>2, <2>3, <1>14
<1>17. ~HasTransportCodes(p) => k = 0 /\ p.codes = NO_CODES
  <2>1. SUFFICES ASSUME ~HasTransportCodes(p) PROVE k = 0 /\ p.codes = NO_CODES  OBVIOUS
  <2>2. At(f) = 2  BY <2>1, <1>15
  <2>3. k = 0  BY <2>2, <1>8
  <2> QED  BY <2>2, <2>3, <1>14
<1>18. p.codes \in Seq(Nat) /\ (HasTransportCodes(p) => Len(p.codes) = 4)
  <2>1. CASE HasTransportCodes(p)  BY <2>1, <1>12, <1>16
  <2>2. CASE ~HasTransportCodes(p)
    <3>1. NO_CODES \in Seq(Nat)  BY DEF NO_CODES
    <3> QED  BY <2>2, <3>1, <1>17
  <2> QED  BY <2>1, <2>2
<1>19. p \in Packets
  <2>1. p = [header |-> p.header, codes |-> p.codes, path_len |-> p.path_len,
             path |-> p.path, payload |-> p.payload]  BY <1>13, <1>14
  <2>2. p.header \in 0 .. 63 /\ p.path_len \in PathField  BY <1>4, <1>6, <1>14
  <2>3. p.path \in Seq(Nat) /\ p.payload \in Seq(Nat)  BY <1>10, <1>11, <1>14
  <2> QED  BY <2>1, <2>2, <2>3, <1>18 DEF Packets
<1>20. Whole(p)
  <2>1. IsValidPathLen(p.path_len)  BY <1>1, <1>6, <1>14 DEF IsValidPathLen
  <2>2. Len(p.path) = PathBytes(p.path_len) /\ PathBytes(p.path_len) <= Len(p.path)
    BY <1>6, <1>10, <1>14
  <2>3. Len(p.payload) <= MaxPayload  BY <1>7, <1>11, <1>14
  <2> QED  BY <2>1, <2>2, <2>3, <1>17, <1>18, <1>19 DEF Whole, Writable
<1>21. WritePath(p) = a  BY <1>20, <1>14, PathWritten DEF Whole
<1>22. WriteTo(p) = f
  <2>1. WriteTo(p) = Laid(p.header, IF HasTransportCodes(p) THEN p.codes ELSE <<>>, p.path_len, a, b)
    BY <1>14, <1>20, <1>21 DEF WriteTo, Laid, Whole, Writable
  <2>2. (IF HasTransportCodes(p) THEN p.codes ELSE <<>>) = SubSeq(f, 2, 1 + k)
    <3>1. CASE HasTransportCodes(p)  BY <3>1, <1>16
    <3>2. CASE ~HasTransportCodes(p)  BY <3>2, <1>12, <1>17, EmptySeq
    <3> QED  BY <3>1, <3>2
  <2>3. p.header = f[1] /\ p.path_len = f[2 + k]  BY <1>8, <1>14
  <2> QED  BY <2>1, <2>2, <2>3, <1>9
<1>23. Len(f) = RawLength(p)
  <2>1. Len(WriteTo(p)) = RawLength(p)  BY <1>20, RoundTrip DEF Whole
  <2> QED  BY <2>1, <1>22
<1> QED  BY <1>1, <1>2, <1>14, <1>20, <1>22, <1>23

---------------------------------------------------------------------------
(* What a relay makes of the packet.                                       *)

\* A node's key, as far as a hash reaches
LEMMA KeyPart ==
  ASSUME NEW n \in Node, NEW size \in 1 .. 3
  PROVE  /\ SubSeq(PubKey[n], 1, size) \in Seq(Nat) /\ Len(SubSeq(PubKey[n], 1, size)) = size
         /\ \A i \in 1 .. size : SubSeq(PubKey[n], 1, size)[i] = PubKey[n][i]
<1>1. PubKey[n] \in [1 .. 3 -> Byte]  BY WireAssumption
<1>2. \A i \in 1 .. size : PubKey[n][i] \in Nat  BY <1>1 DEF Byte
<1>3. /\ SubSeq(PubKey[n], 1, size) \in Seq(Nat)
      /\ Len(SubSeq(PubKey[n], 1, size)) = IF 1 <= size THEN size - 1 + 1 ELSE 0
      /\ \A i \in 1 .. size - 1 + 1 : SubSeq(PubKey[n], 1, size)[i] = PubKey[n][1 + i - 1]
  BY <1>2, SubSeqProperties
<1>4. \A i \in 1 .. size : i \in 1 .. size - 1 + 1 /\ 1 + i - 1 = i  OBVIOUS
<1>5. 1 <= size /\ size - 1 + 1 = size  OBVIOUS
<1> QED  BY <1>3, <1>4, <1>5

\* The SNR at a node is a number.
LEMMA SnrIsByte ==
  ASSUME NEW n \in Node
  PROVE  SnrOf(n) \in Nat
BY WireAssumption DEF SnrOf, Byte

\* The size and the count in the path of a sound packet
LEMMA WholeParts ==
  ASSUME NEW p, Whole(p)
  PROVE  /\ HashSize(p.path_len) \in 1 .. 3 /\ HashCount(p.path_len) \in 0 .. MaxPathLen - 1
         /\ p.path_len = (HashSize(p.path_len) - 1) * MaxPathLen + HashCount(p.path_len)
         /\ p.path \in Seq(Nat) /\ Len(p.path) = HashSize(p.path_len) * HashCount(p.path_len)
         /\ HashSize(p.path_len) * HashCount(p.path_len) <= MaxPathLen
<1>1. p.path_len \in PathField /\ p.path \in Seq(Nat)  BY PacketParts DEF Whole
<1>2. HashSize(p.path_len) # 4 /\ PathBytes(p.path_len) <= MaxPathLen /\ Len(p.path) = PathBytes(p.path_len)
  BY DEF Whole, Writable, IsValidPathLen
<1>3. /\ HashSize(p.path_len) \in 1 .. 4 /\ HashCount(p.path_len) \in 0 .. MaxPathLen - 1
      /\ p.path_len = (HashSize(p.path_len) - 1) * MaxPathLen + HashCount(p.path_len)
      /\ PathBytes(p.path_len) = HashSize(p.path_len) * HashCount(p.path_len)
  BY <1>1, FieldParts
<1> QED  BY <1>1, <1>2, <1>3

\* A packet with another path
WithPath(p, path, len) == [p EXCEPT !.path = path, !.path_len = len]

\* A packet with another path is sound when the path is.
LEMMA OtherPath ==
  ASSUME NEW p, Whole(p), NEW len \in PathField, NEW path \in Seq(Nat),
         IsValidPathLen(len), PathBytes(len) <= Len(path)
  PROVE  LET q == WithPath(p, path, len)
         IN /\ Writable(q) /\ q.header = p.header /\ q.codes = p.codes /\ q.payload = p.payload
            /\ q.path_len = len /\ q.path = path
<1> DEFINE q == WithPath(p, path, len)
<1>1. p \in Packets  BY DEF Whole, Writable
<1>2. /\ q.header = p.header /\ q.codes = p.codes /\ q.payload = p.payload
      /\ q.path_len = len /\ q.path = path  BY <1>1 DEF Packets, WithPath
<1>3. q \in Packets  BY <1>1 DEF Packets, WithPath
<1> HIDE DEF q
<1>4. HasTransportCodes(q) <=> HasTransportCodes(p)  BY <1>2, SameRoute
<1>5. IF HasTransportCodes(p) THEN Len(p.codes) = 4 ELSE p.codes = NO_CODES  BY DEF Whole, Writable
<1>6. Len(p.payload) <= MaxPayload  BY DEF Whole, Writable
<1>7. IF HasTransportCodes(q) THEN Len(q.codes) = 4 ELSE q.codes = NO_CODES  BY <1>2, <1>4, <1>5
<1>8. Writable(q)  BY <1>2, <1>3, <1>6, <1>7 DEF Writable
<1> QED  BY <1>2, <1>8 DEF q

\* The packet q is the TRACE p with the reading of n behind its path.
OneReadingMore(n, p, q) ==
  /\ Writable(q) /\ q.header = p.header /\ q.codes = p.codes /\ q.payload = p.payload
  /\ q.path_len = p.path_len + 1
  /\ HashSize(p.path_len) = 1 /\ HashCount(p.path_len) = p.path_len
  /\ p.path_len + 1 < MaxPathLen =>
       HashSize(q.path_len) = 1 /\ WritePath(q) = p.path \o <<SnrOf(n)>>

\* The path length of a TRACE counts bytes; one more may be one too many for
\* the six bits, and is read as no path at all.
LEMMA SnrAppended ==
  ASSUME NEW n \in Node, NEW p, Whole(p), p.path_len < MaxPathLen, NEW q, q = AppendSnr(n, p)
  PROVE  OneReadingMore(n, p, q)
<1> DEFINE l == p.path_len
           s == p.path \o <<SnrOf(n)>>
<1>1. MaxPathLen \in Nat \ {0} /\ l \in Nat /\ l < MaxPathLen
  BY PathLenAssumption, PacketParts DEF Whole
<1>2. HashSize(l) = 1 /\ HashCount(l) = l
  <2>1. (0 * MaxPathLen + l) \div MaxPathLen = 0 /\ (0 * MaxPathLen + l) % MaxPathLen = l
    BY <1>1, DivMod
  <2>2. 0 * MaxPathLen + l = l  BY <1>1
  <2> QED  BY <2>1, <2>2 DEF HashSize, HashCount
<1>3. p.path \in Seq(Nat) /\ Len(p.path) = l  BY <1>1, <1>2, WholeParts
<1>4. <<SnrOf(n)>> \in Seq(Nat) /\ Len(<<SnrOf(n)>>) = 1  BY SnrIsByte, OneByte
<1>5. s \in Seq(Nat) /\ Len(s) = l + 1
  <2>1. s \in Seq(Nat) /\ Len(s) = Len(p.path) + Len(<<SnrOf(n)>>)  BY <1>3, <1>4, Front
  <2> QED  BY <2>1, <1>3, <1>4
<1> HIDE DEF l, s
<1>6. CASE l + 1 < MaxPathLen
  <2>1. (0 * MaxPathLen + (l + 1)) \div MaxPathLen = 0 /\ (0 * MaxPathLen + (l + 1)) % MaxPathLen = l + 1
    <3>1. l + 1 \in 0 .. MaxPathLen - 1 /\ 0 \in 0 .. 3  BY <1>1, <1>6
    <3> QED  BY <1>1, <3>1, DivMod
  <2>2. 0 * MaxPathLen + (l + 1) = l + 1  BY <1>1
  <2>3. HashSize(l + 1) = 1 /\ HashCount(l + 1) = l + 1  BY <2>1, <2>2 DEF HashSize, HashCount
  <2>4. PathBytes(l + 1) = l + 1  BY <1>1, <2>3 DEF PathBytes
  <2>5. l + 1 \in PathField  BY <1>1, <1>6 DEF PathField
  <2>6. IsValidPathLen(l + 1)  BY <1>1, <1>6, <2>3, <2>4 DEF IsValidPathLen
  <2>7. PathBytes(l + 1) <= Len(s)  BY <1>1, <1>5, <2>4
  <2>8. /\ Writable(q) /\ q.header = p.header /\ q.codes = p.codes /\ q.payload = p.payload
        /\ q.path_len = l + 1 /\ q.path = s
    <3>1. q = WithPath(p, s, l + 1)  BY DEF AppendSnr, WithPath, l, s
    <3> QED  BY <3>1, <1>5, <2>5, <2>6, <2>7, OtherPath
  <2>9. WritePath(q) = s  BY <1>5, <2>4, <2>8, PathWritten
  <2> QED  BY <1>2, <2>3, <2>8, <2>9 DEF OneReadingMore, l, s
<1>7. CASE l + 1 = MaxPathLen
  <2>1. (1 * MaxPathLen + 0) \div MaxPathLen = 1 /\ (1 * MaxPathLen + 0) % MaxPathLen = 0
    <3>1. 0 \in 0 .. MaxPathLen - 1 /\ 1 \in 0 .. 3  BY <1>1
    <3> QED  BY <1>1, <3>1, DivMod
  <2>2. 1 * MaxPathLen + 0 = l + 1  BY <1>1, <1>7
  <2>3. HashSize(l + 1) = 2 /\ HashCount(l + 1) = 0  BY <2>1, <2>2 DEF HashSize, HashCount
  <2>4. PathBytes(l + 1) = 0  BY <2>3 DEF PathBytes
  <2>5. l + 1 \in PathField  BY <1>1, <1>7 DEF PathField
  <2>6. IsValidPathLen(l + 1)  BY <1>1, <2>3, <2>4 DEF IsValidPathLen
  <2>7. PathBytes(l + 1) <= Len(s)  BY <1>1, <1>5, <2>4
  <2>8. /\ Writable(q) /\ q.header = p.header /\ q.codes = p.codes /\ q.payload = p.payload
        /\ q.path_len = l + 1
    <3>1. q = WithPath(p, s, l + 1)  BY DEF AppendSnr, WithPath, l, s
    <3> QED  BY <3>1, <1>5, <2>5, <2>6, <2>7, OtherPath
  <2> QED  BY <1>1, <1>2, <1>7, <2>8 DEF OneReadingMore, l
<1>8. l + 1 < MaxPathLen \/ l + 1 = MaxPathLen  BY <1>1
<1> QED  BY <1>6, <1>7, <1>8

\* The node that a source-routed packet is at is taken from the front of its
\* path.
LEMMA SelfRemoved ==
  ASSUME NEW p, Whole(p), HashCount(p.path_len) > 0, NEW q, q = RemoveSelf(p)
  PROVE  /\ Writable(q) /\ q.header = p.header /\ q.codes = p.codes /\ q.payload = p.payload
         /\ HashSize(q.path_len) = HashSize(p.path_len)
         /\ HashCount(q.path_len) = HashCount(p.path_len) - 1
         /\ WritePath(q) = SubSeq(p.path, HashSize(p.path_len) + 1, Len(p.path))
<1> DEFINE size == HashSize(p.path_len)
           count == HashCount(p.path_len)
           s == SubSeq(p.path, size + 1, Len(p.path))
           l == SetHashCount(p.path_len, count - 1)
<1>1. /\ size \in 1 .. 3 /\ count \in 1 .. MaxPathLen - 1
      /\ p.path \in Seq(Nat) /\ Len(p.path) = size * count /\ size * count <= MaxPathLen
  <2>1. HashCount(p.path_len) \in 0 .. MaxPathLen - 1  BY WholeParts
  <2> QED  BY <2>1, WholeParts
<1>2. MaxPathLen \in Nat \ {0} /\ q = WithPath(p, s, l)
  BY PathLenAssumption DEF RemoveSelf, WithPath
<1>l. l = Field(size, count - 1)  BY DEF SetHashCount
<1>s. s = SubSeq(p.path, size + 1, Len(p.path))  OBVIOUS
<1> HIDE DEF size, count, s, l
<1>3. l \in PathField /\ HashSize(l) = size /\ HashCount(l) = count - 1
  <2>1. size \in 1 .. 4 /\ count - 1 \in 0 .. MaxPathLen - 1  BY <1>1, <1>2
  <2> QED  BY <1>l, <2>1, FieldMade
<1>4. size * (count - 1) = size * count - size /\ size * count - size >= 0 /\ size * count \in Nat
  <2>1. count \in Nat \ {0}  BY <1>1
  <2>2. CASE size = 1  BY <2>1, <2>2
  <2>3. CASE size = 2  BY <2>1, <2>3
  <2>4. CASE size = 3  BY <2>1, <2>4
  <2> QED  BY <1>1, <2>2, <2>3, <2>4
<1>5. PathBytes(l) = size * count - size  BY <1>3, <1>4 DEF PathBytes
<1>6. s \in Seq(Nat) /\ Len(s) = size * count - size
  <2>1. size + 1 \in Nat \ {0} /\ Len(p.path) \in Nat /\ Len(p.path) <= Len(p.path) /\ size + 1 <= Len(p.path) + 1
    BY <1>1, <1>4
  <2>2. s \in Seq(Nat) /\ Len(s) = Len(p.path) - (size + 1) + 1  BY <1>1, <1>s, <2>1, PartOf
  <2> QED  BY <2>2, <1>1, <1>4
<1>7. IsValidPathLen(l)  BY <1>1, <1>2, <1>3, <1>4, <1>5 DEF IsValidPathLen
<1>8. PathBytes(l) <= Len(s)  BY <1>4, <1>5, <1>6
<1>9. /\ Writable(q) /\ q.header = p.header /\ q.codes = p.codes /\ q.payload = p.payload
      /\ q.path_len = l /\ q.path = s
  BY <1>2, <1>3, <1>6, <1>7, <1>8, OtherPath
<1>10. WritePath(q) = s  BY <1>5, <1>6, <1>9, PathWritten
<1> QED  BY <1>3, <1>9, <1>10 DEF size, count, s

\* A flood's path grows by the relay's hash, as long as there is room for it.
LEMMA SelfAppended ==
  ASSUME NEW n \in Node, NEW p, Whole(p), (HashCount(p.path_len) + 1) * HashSize(p.path_len) <= MaxPathLen,
         NEW q, q = AppendSelf(n, p)
  PROVE  /\ Writable(q) /\ q.header = p.header /\ q.codes = p.codes /\ q.payload = p.payload
         /\ HashSize(q.path_len) = HashSize(p.path_len)
         /\ HashCount(q.path_len) \in 0 .. MaxPathLen - 1
         /\ HashCount(p.path_len) + 1 < MaxPathLen =>
              /\ HashCount(q.path_len) = HashCount(p.path_len) + 1
              /\ WritePath(q) = p.path \o SubSeq(PubKey[n], 1, HashSize(p.path_len))
<1> DEFINE size == HashSize(p.path_len)
           count == HashCount(p.path_len)
           key == SubSeq(PubKey[n], 1, size)
           s == p.path \o key
           l == SetHashCount(p.path_len, count + 1)
<1>1. /\ size \in 1 .. 3 /\ count \in 0 .. MaxPathLen - 1
      /\ p.path \in Seq(Nat) /\ Len(p.path) = size * count /\ (count + 1) * size <= MaxPathLen
  BY WholeParts
<1>2. MaxPathLen \in Nat \ {0} /\ q = WithPath(p, s, l)
  BY PathLenAssumption DEF AppendSelf, WithPath
<1>l. l = Field(size, count + 1)  BY DEF SetHashCount
<1>s. key \in Seq(Nat) /\ Len(key) = size  BY <1>1, KeyPart
<1>t. s = p.path \o key  OBVIOUS
<1>u. size = HashSize(p.path_len) /\ count = HashCount(p.path_len)  OBVIOUS
<1>v. key = SubSeq(PubKey[n], 1, HashSize(p.path_len))  OBVIOUS
<1> HIDE DEF size, count, key, s, l
<1>3. size * (count + 1) = size * count + size /\ (count + 1) * size = size * count + size /\ size * count \in Nat
  <2>1. count \in Nat  BY <1>1
  <2>2. CASE size = 1  BY <2>1, <2>2
  <2>3. CASE size = 2  BY <2>1, <2>3
  <2>4. CASE size = 3  BY <2>1, <2>4
  <2> QED  BY <1>1, <2>2, <2>3, <2>4
<1>4. s \in Seq(Nat) /\ Len(s) = size * count + size
  <2>1. s \in Seq(Nat) /\ Len(s) = Len(p.path) + Len(key)  BY <1>1, <1>s, <1>t, Front
  <2> QED  BY <2>1, <1>1, <1>s
<1>5. CASE count + 1 < MaxPathLen
  <2>1. size \in 1 .. 4 /\ count + 1 \in 0 .. MaxPathLen - 1  BY <1>1, <1>2, <1>5
  <2>2. l \in PathField /\ HashSize(l) = size /\ HashCount(l) = count + 1  BY <1>l, <2>1, FieldMade
  <2>3. PathBytes(l) = size * count + size  BY <1>3, <2>2 DEF PathBytes
  <2>4. IsValidPathLen(l)  BY <1>1, <1>3, <2>2, <2>3 DEF IsValidPathLen
  <2>5. PathBytes(l) <= Len(s)  BY <1>1, <1>3, <1>4, <2>3
  <2>6. /\ Writable(q) /\ q.header = p.header /\ q.codes = p.codes /\ q.payload = p.payload
        /\ q.path_len = l /\ q.path = s
    BY <1>2, <1>4, <2>2, <2>4, <2>5, OtherPath
  <2>7. WritePath(q) = s  BY <1>4, <2>3, <2>6, PathWritten
  <2> QED  BY <1>t, <1>u, <1>v, <2>1, <2>2, <2>6, <2>7
<1>6. CASE ~(count + 1 < MaxPathLen)
  <2>1. (count + 1) % MaxPathLen = 0 /\ count + 1 = MaxPathLen
    <3>1. count + 1 = MaxPathLen  BY <1>1, <1>2, <1>6
    <3>2. (1 * MaxPathLen + 0) % MaxPathLen = 0
      <4>1. 0 \in 0 .. MaxPathLen - 1 /\ 1 \in 0 .. 3  BY <1>2
      <4> QED  BY <1>2, <4>1, DivMod
    <3>3. 1 * MaxPathLen + 0 = MaxPathLen  BY <1>2
    <3> QED  BY <3>1, <3>2, <3>3
  <2>2. l = Field(size, 0)
    <3>1. 0 % MaxPathLen = 0  BY <1>2
    <3> QED  BY <1>l, <2>1, <3>1 DEF Field
  <2>3. l \in PathField /\ HashSize(l) = size /\ HashCount(l) = 0
    <3>1. size \in 1 .. 4 /\ 0 \in 0 .. MaxPathLen - 1  BY <1>1, <1>2
    <3> QED  BY <2>2, <3>1, FieldMade
  <2>4. PathBytes(l) = 0  BY <1>1, <2>3 DEF PathBytes
  <2>5. IsValidPathLen(l)  BY <1>1, <1>2, <2>3, <2>4 DEF IsValidPathLen
  <2>6. PathBytes(l) <= Len(s)  BY <1>1, <1>3, <1>4, <2>4
  <2>7. /\ Writable(q) /\ q.header = p.header /\ q.codes = p.codes /\ q.payload = p.payload
        /\ q.path_len = l
    BY <1>2, <1>4, <2>3, <2>5, <2>6, OtherPath
  <2>8. 0 \in 0 .. MaxPathLen - 1  BY <1>2
  <2> QED  BY <1>u, <1>6, <2>3, <2>7, <2>8
<1> QED  BY <1>5, <1>6

\* A packet that a node found to be for itself is not relayed.
LEMMA OpenedStays ==
  ASSUME NEW n, NEW p, MayRoute(n, AfterOpening(n, p)), p \in Packets
  PROVE  ~Opens(n, p) /\ AfterOpening(n, p) = p /\ MayRoute(n, p)
<1>1. ~Opens(n, p)
  <2>1. SUFFICES ASSUME Opens(n, p) PROVE FALSE  OBVIOUS
  <2>2. AfterOpening(n, p).header = 255  BY <2>1 DEF AfterOpening, Mark, Packets
  <2>3. ~IsMarked(AfterOpening(n, p))  BY DEF MayRoute
  <2> QED  BY <2>2, <2>3 DEF IsMarked
<1>2. AfterOpening(n, p) = p  BY <1>1 DEF AfterOpening
<1> QED  BY <1>1, <1>2

---------------------------------------------------------------------------
(* What is on the air is sound, and is the packet that it was.             *)

\* The frame that is heard is, but for its path, the packet that was first
\* accepted.
Carried ==
  /\ FrameFits(frame) /\ trail \in Seq(Node)
  /\ frame = <<>> => trail = <<>> /\ seen = {} /\ opened = {}
  /\ trail = <<>> => origin = Heard
  /\ trail # <<>> =>
       /\ Heard # Bad /\ Whole(origin)
       /\ Heard.header = origin.header /\ Heard.codes = origin.codes /\ Heard.payload = origin.payload

\* No frame, no packet
LEMMA Silence ==
  TryParse(<<>>) = Bad /\ FrameFits(<<>>)
<1>1. Len(<<>>) = 0  OBVIOUS
<1>2. <<>> \in Seq(Nat)  OBVIOUS
<1> QED  BY <1>1, <1>2 DEF TryParse, FrameFits

\* A packet that is heard is whole, and the origin but for its path.
LEMMA HeardWhole ==
  ASSUME Carried, Heard # Bad
  PROVE  /\ Whole(Heard) /\ Whole(origin) /\ frame # <<>> /\ Heard.header = origin.header
         /\ Heard.codes = origin.codes /\ Heard.payload = origin.payload
         /\ trail = <<>> => origin = Heard
<1>1. Whole(Heard) /\ frame # <<>>  BY Parsed DEF Carried, Heard
<1> QED  BY <1>1 DEF Carried

\* The effects of Retransmit that the next node sees
Relayed(n, q) == frame' = WriteTo(q) /\ trail' = Append(trail, n) /\ origin' = origin

\* What a relay sends is heard as it was sent, and the trail is longer by one.
LEMMA Hop ==
  ASSUME Carried, NEW n \in Node, Heard # Bad, NEW q, Writable(q), Relayed(n, q),
         q.header = Heard.header, q.codes = Heard.codes, q.payload = Heard.payload
  PROVE  /\ Carried' /\ Heard' = Sent(q)
         /\ Len(trail) \in Nat /\ trail' # <<>> /\ Len(trail') = Len(trail) + 1 /\ trail'[Len(trail) + 1] = n
         /\ DOMAIN trail = 1 .. Len(trail) /\ DOMAIN trail' = 1 .. Len(trail) + 1
         /\ \A i \in 1 .. Len(trail) : trail'[i] = trail[i]
<1>1. trail \in Seq(Node) /\ trail' = Append(trail, n)  BY DEF Carried, Relayed
<1>2. /\ Append(trail, n) \in Seq(Node) /\ Append(trail, n) # <<>> /\ Len(Append(trail, n)) = Len(trail) + 1
      /\ \A i \in 1 .. Len(trail) : Append(trail, n)[i] = trail[i]
      /\ Append(trail, n)[Len(trail) + 1] = n
  BY <1>1, AppendProperties
<1>d. Len(trail) \in Nat /\ DOMAIN trail = 1 .. Len(trail) /\ DOMAIN trail' = 1 .. Len(trail) + 1
  <2>1. Len(trail) \in Nat /\ DOMAIN trail = 1 .. Len(trail)  BY <1>1, LenProperties
  <2>2. DOMAIN Append(trail, n) = 1 .. Len(Append(trail, n))  BY <1>2, LenProperties
  <2> QED  BY <1>1, <1>2, <2>1, <2>2
<1>3. Heard' = Sent(q) /\ FrameFits(frame)'
  <2>1. TryParse(WriteTo(q)) = Sent(q) /\ FrameFits(WriteTo(q))  BY RoundTrip
  <2>2. frame' = WriteTo(q)  BY DEF Relayed
  <2>3. TryParse(frame') = Sent(q)  BY <2>1, <2>2
  <2>4. FrameFits(frame')  BY <2>1, <2>2
  <2> QED  BY <2>3, <2>4 DEF Heard, FrameFits
<1>4. Whole(Sent(q)) /\ Sent(q) # Bad  BY SentWhole
<1>5. /\ Sent(q).header = Heard.header /\ Sent(q).codes = Heard.codes /\ Sent(q).payload = Heard.payload
  BY SentFields
<1>6. /\ Heard.header = origin.header /\ Heard.codes = origin.codes /\ Heard.payload = origin.payload
      /\ Whole(origin)
  BY HeardWhole
<1>7. frame' # <<>>
  <2>1. Heard' # Bad  BY <1>3, <1>4
  <2>2. TryParse(frame') # Bad  BY <2>1 DEF Heard
  <2> QED  BY <2>2, Silence
<1>8. origin' = origin  BY DEF Relayed
<1>9. trail' \in Seq(Node) /\ trail' # <<>>  BY <1>1, <1>2
<1>10. /\ Heard' # Bad /\ Whole(origin') /\ Heard'.header = origin'.header
       /\ Heard'.codes = origin'.codes /\ Heard'.payload = origin'.payload
  BY <1>3, <1>4, <1>5, <1>6, <1>8
<1>11. Whole(origin)'  BY <1>10 DEF Whole, Writable, HasTransportCodes, RouteType
<1>12. Carried'  BY <1>3, <1>7, <1>9, <1>10, <1>11 DEF Carried
<1> QED  BY <1>1, <1>2, <1>d, <1>3, <1>12

\* Each of the three ways to relay a packet: a TRACE,
LEMMA RelayTraceHop ==
  ASSUME Carried, NEW n \in Node, RelayTrace(n), NEW q, q = AppendSnr(n, Heard)
  PROVE  /\ Heard # Bad /\ Relayed(n, q) /\ Writable(q) /\ Heard.path_len < MaxPathLen
         /\ q.header = Heard.header /\ q.codes = Heard.codes /\ q.payload = Heard.payload
<1>1. Heard # Bad /\ Heard.path_len < MaxPathLen /\ Relayed(n, q)
  BY DEF RelayTrace, Retransmit, Relayed
<1>2. Whole(Heard)  BY <1>1, HeardWhole
<1>3. Writable(q) /\ q.header = Heard.header /\ q.codes = Heard.codes /\ q.payload = Heard.payload
  <2> DEFINE p == Heard
  <2>1. Whole(p) /\ p.path_len < MaxPathLen /\ q = AppendSnr(n, p)  BY <1>1, <1>2
  <2> HIDE DEF p
  <2>2. OneReadingMore(n, p, q)  BY <2>1, SnrAppended, ZenonT(30)
  <2> QED  BY <2>2 DEF OneReadingMore, p
<1> QED  BY <1>1, <1>3

\* a source-routed packet,
LEMMA RelayDirectHop ==
  ASSUME Carried, NEW n \in Node, RelayDirect(n), NEW q, q = RemoveSelf(Heard)
  PROVE  /\ Heard # Bad /\ Relayed(n, q) /\ Writable(q) /\ HashCount(Heard.path_len) > 0
         /\ q.header = Heard.header /\ q.codes = Heard.codes /\ q.payload = Heard.payload
<1>1. Heard # Bad /\ HashCount(Heard.path_len) > 0 /\ Relayed(n, q)
  BY DEF RelayDirect, Retransmit, Relayed
<1>2. Whole(Heard)  BY <1>1, HeardWhole
<1> QED  BY <1>1, <1>2, SelfRemoved

\* and a flood, which a node that it is for does not relay.
LEMMA RelayFloodHop ==
  ASSUME Carried, NEW n \in Node, RelayFlood(n), NEW q, q = AppendSelf(n, Heard)
  PROVE  /\ Heard # Bad /\ Relayed(n, q) /\ Writable(q)
         /\ AfterOpening(n, Heard) = Heard /\ ~Opens(n, Heard) /\ MayRoute(n, Heard)
         /\ (HashCount(Heard.path_len) + 1) * HashSize(Heard.path_len) <= MaxPathLen
         /\ q.header = Heard.header /\ q.codes = Heard.codes /\ q.payload = Heard.payload
<1>1. Heard # Bad /\ MayRoute(n, AfterOpening(n, Heard)) /\ Relayed(n, AppendSelf(n, AfterOpening(n, Heard)))
  BY DEF RelayFlood, Retransmit, Relayed
<1>2. Whole(Heard) /\ Heard \in Packets  BY <1>1, HeardWhole DEF Whole, Writable
<1>3. AfterOpening(n, Heard) = Heard /\ ~Opens(n, Heard) /\ MayRoute(n, Heard)  BY <1>1, <1>2, OpenedStays
<1>4. (HashCount(Heard.path_len) + 1) * HashSize(Heard.path_len) <= MaxPathLen  BY <1>3 DEF MayRoute
<1>5. Relayed(n, q)  BY <1>1, <1>3
<1>6. /\ Writable(q) /\ q.header = Heard.header /\ q.codes = Heard.codes /\ q.payload = Heard.payload
  BY <1>2, <1>4, SelfAppended
<1> QED  BY <1>1, <1>3, <1>4, <1>5, <1>6

\* The frames that may be heard first
LEMMA FirstFrames ==
  ASSUME NEW f \in Frames
  PROVE  FrameFits(f)
<1>1. f \in Seq(Byte)  BY WireAssumption
<1>2. Byte \subseteq Nat  BY DEF Byte
<1>3. f \in Seq(Nat)  BY <1>1, <1>2, SeqMonotonic
<1>4. f # <<>> /\ At(f) <= Len(f) => f[At(f)] \in PathField  BY FramesAssumption
<1> QED  BY <1>3, <1>4 DEF FrameFits

\* A step in which nothing is sent
Quiet == UNCHANGED <<frame, origin, trail>>

\* What is heard stays the same in it.
LEMMA QuietHeard ==
  ASSUME Quiet
  PROVE  Heard' = Heard /\ frame' = frame /\ origin' = origin /\ trail' = trail
BY DEF Quiet, Heard

\* The frame that is on the air after Inject and Fade
LEMMA CarriedStep ==
  ASSUME Carried, [Next]_vars
  PROVE  Carried'
<1>1. ASSUME NEW f \in Frames, Inject(f)  PROVE Carried'
  <2>1. frame = <<>> /\ trail' = <<>> /\ seen' = {} /\ opened' = {}  BY <1>1 DEF Inject, Carried
  <2>2. frame' = f /\ origin' = TryParse(f)  BY <1>1 DEF Inject
  <2>3. Heard' = origin'  BY <2>2 DEF Heard
  <2>4. FrameFits(frame')  BY <2>2, FirstFrames
  <2>5. FrameFits(frame)'  BY <2>4 DEF FrameFits
  <2>6. trail' \in Seq(Node)  BY <2>1
  <2> QED  BY <2>1, <2>3, <2>5, <2>6 DEF Carried
<1>2. ASSUME NEW n \in Node, RelayTrace(n)  PROVE Carried'
  BY <1>2, RelayTraceHop, Hop
<1>3. ASSUME NEW n \in Node, RelayDirect(n)  PROVE Carried'
  BY <1>3, RelayDirectHop, Hop
<1>4. ASSUME NEW n \in Node, RelayFlood(n)  PROVE Carried'
  BY <1>4, RelayFloodHop, Hop
<1>5. ASSUME Quiet, frame = <<>> => seen' = {} /\ opened' = {}  PROVE Carried'
  <2>1. Heard' = Heard /\ frame' = frame /\ origin' = origin /\ trail' = trail  BY <1>5, QuietHeard
  <2>2. FrameFits(frame)' /\ Whole(origin)' = Whole(origin)
    <3>1. FrameFits(frame) /\ FrameFits(frame)' = FrameFits(frame)  BY <2>1 DEF FrameFits, Carried
    <3>2. Whole(origin)' = Whole(origin)
      BY <2>1 DEF Whole, Writable, HasTransportCodes, RouteType
    <3> QED  BY <3>1, <3>2
  <2> QED  BY <1>5, <2>1, <2>2 DEF Carried
<1>6. ASSUME NEW n \in Node, EndTrace(n)  PROVE Carried'
  <2>1. Quiet /\ Heard # Bad  BY <1>6 DEF EndTrace, Quiet
  <2>2. frame # <<>>  BY <2>1, HeardWhole
  <2> QED  BY <2>1, <2>2, <1>5
<1>7. ASSUME NEW n \in Node, Keep(n)  PROVE Carried'
  <2>1. Quiet /\ Heard # Bad  BY <1>7 DEF Keep, Quiet
  <2>2. frame # <<>>  BY <2>1, HeardWhole
  <2> QED  BY <2>1, <2>2, <1>5
<1>8. ASSUME NEW n \in Node, Forget(n)  PROVE Carried'
  <2>1. Quiet /\ seen' \subseteq seen /\ opened' = opened  BY <1>8 DEF Forget, Quiet
  <2>2. frame = <<>> => seen' = {} /\ opened' = {}  BY <2>1 DEF Carried
  <2> QED  BY <2>1, <2>2, <1>5
<1>9. ASSUME Fade  PROVE Carried'
  <2>1. frame' = <<>> /\ origin' = Bad /\ trail' = <<>> /\ seen' = {} /\ opened' = {}  BY <1>9 DEF Fade
  <2>2. Heard' = Bad /\ FrameFits(frame)'
    <3>1. TryParse(frame') = Bad /\ FrameFits(frame')  BY <2>1, Silence
    <3> QED  BY <3>1 DEF Heard, FrameFits
  <2>3. trail' \in Seq(Node)  BY <2>1
  <2> QED  BY <2>1, <2>2, <2>3 DEF Carried
<1>10. ASSUME UNCHANGED vars  PROVE Carried'
  <2>1. Quiet /\ seen' = seen /\ opened' = opened  BY <1>10 DEF vars, Quiet
  <2>2. frame = <<>> => seen' = {} /\ opened' = {}  BY <2>1 DEF Carried
  <2> QED  BY <2>1, <2>2, <1>5
<1> QED  BY <1>1, <1>2, <1>3, <1>4, <1>6, <1>7, <1>8, <1>9, <1>10 DEF Next

\* The packet that is on the air is the one that was first accepted, but for
\* its path: no relay, and neither parser nor writer, touches the header, the
\* transport codes or the payload of what it passes on.
THEOREM CarriedUnchanged == Spec => []Carried
<1>1. Init => Carried
  <2>1. SUFFICES ASSUME Init PROVE Carried  OBVIOUS
  <2>2. frame = <<>> /\ origin = Bad /\ trail = <<>> /\ seen = {} /\ opened = {}  BY <2>1 DEF Init
  <2>3. Heard = Bad /\ FrameFits(frame)  BY <2>2, Silence DEF Heard
  <2>4. trail \in Seq(Node)  BY <2>2
  <2> QED  BY <2>2, <2>3, <2>4 DEF Carried
<1>2. Carried /\ [Next]_vars => Carried'  BY CarriedStep
<1> QED  BY <1>1, <1>2, PTL DEF Spec

\* An accepted frame is written back byte for byte, to the next node and in
\* what the host is shown (meshcore_packet_write_to after
\* meshcore_dispatcher_try_parse_packet), and what a relay sends is accepted.
THEOREM WrittenBackWhole == Spec => []Faithful
<1>1. Carried => Faithful
  <2>1. SUFFICES ASSUME Carried PROVE Faithful  OBVIOUS
  <2>2. trail # <<>> => Heard # Bad  BY <2>1 DEF Carried
  <2>3. ASSUME frame # <<>>, Heard # Bad
        PROVE  PacketView(Heard).raw = frame /\ PacketView(Heard).raw_len = Len(frame)
    <3>1. WriteTo(Heard) = frame  BY <2>1, <2>3, Parsed DEF Carried, Heard
    <3>2. WriteTo(Heard) # <<>>  BY <2>3, <3>1
    <3>3. PacketView(Heard).raw = WriteTo(Heard) /\ PacketView(Heard).raw_len = Len(WriteTo(Heard))
      BY <3>2 DEF PacketView
    <3> QED  BY <3>1, <3>3
  <2> QED  BY <2>2, <2>3 DEF Faithful
<1> QED  BY <1>1, CarriedUnchanged, PTL

---------------------------------------------------------------------------
(* The two parsers.                                                        *)

\* meshcore_packet_read_from finds what the dispatcher's parser finds,
LEMMA ReadLikeParsed ==
  ASSUME NEW f, FrameFits(f), TryParse(f) # Bad, TryParse(f).payload # <<>>
  PROVE  ReadFrom(f) = TryParse(f)
<1>1. /\ Len(f) # 0 /\ ~(At(f) > Len(f))
      /\ HashSize(f[At(f)]) # 4 /\ ~(PathBytes(f[At(f)]) > MaxPathLen)
      /\ ~(End(f) > Len(f)) /\ ~(Len(f) - End(f) > MaxPayload) /\ TryParse(f) = Fields(f)
  BY DEF TryParse
<1>2. f \in Seq(Nat) /\ Len(f) \in Nat  BY LenProperties DEF FrameFits
<1>3. At(f) \in {2, 6}  BY DEF At
<1>4. f # <<>> /\ At(f) <= Len(f)  BY <1>1, <1>2, <1>3
<1>5. PathBytes(f[At(f)]) \in Nat /\ MaxPathLen \in Nat
  BY <1>4, FieldParts, PathLenAssumption DEF FrameFits
<1>6. End(f) \in Nat  BY <1>3, <1>5 DEF End
<1>7. IsValidPathLen(f[At(f)])  BY <1>1, <1>5 DEF IsValidPathLen
<1>8. ~(End(f) >= Len(f))
  <2>1. SubSeq(f, End(f) + 1, Len(f)) # <<>>  BY <1>1 DEF Fields
  <2>2. ~(Len(f) < End(f) + 1)  BY <2>1, <1>2, <1>6, SubSeqEmpty
  <2> QED  BY <2>2, <1>2, <1>6
<1> QED  BY <1>1, <1>7, <1>8 DEF ReadFrom

\* and accepts nothing of version 1 that the other does not.
LEMMA ReadIsParsed ==
  ASSUME NEW f, FrameFits(f), f # <<>>, f[1] < 64, Len(f) <= MaxFrame, ReadFrom(f) # Bad
  PROVE  TryParse(f) # Bad /\ TryParse(f).payload # <<>>
<1>1. /\ Len(f) # 0 /\ ~(At(f) > Len(f)) /\ IsValidPathLen(f[At(f)])
      /\ ~(End(f) >= Len(f)) /\ ~(Len(f) - End(f) > MaxPayload)
  BY DEF ReadFrom
<1>2. f \in Seq(Nat) /\ Len(f) \in Nat /\ MaxFrame \in Nat
  <2>1. f \in Seq(Nat)  BY DEF FrameFits
  <2>2. Len(f) \in Nat  BY <2>1, LenProperties
  <2>3. MaxFrame \in Nat  BY WireAssumption
  <2> QED  BY <2>1, <2>2, <2>3
<1>3. f[1] \in Nat /\ f[1] < 64
  <2>1. 1 \in 1 .. Len(f)  BY <1>1, <1>2
  <2> QED  BY <1>2, <2>1, ElementOfSeq
<1>4. ~(PayloadVer([header |-> f[1]]) > 0)
  <2>1. f[1] \div 64 = 0  BY <1>3
  <2> QED  BY <2>1 DEF PayloadVer
<1>5. At(f) \in {2, 6}  BY DEF At
<1>6. PathBytes(f[At(f)]) \in Nat /\ MaxPathLen \in Nat
  <2>1. At(f) <= Len(f)  BY <1>1, <1>2, <1>5
  <2> QED  BY <2>1, FieldParts, PathLenAssumption DEF FrameFits
<1>7. End(f) \in Nat  BY <1>5, <1>6 DEF End
<1>8. HashSize(f[At(f)]) # 4 /\ ~(PathBytes(f[At(f)]) > MaxPathLen)  BY <1>1, <1>6 DEF IsValidPathLen
<1>9. ~(Len(f) > MaxFrame) /\ ~(End(f) > Len(f)) /\ End(f) < Len(f)  BY <1>1, <1>2, <1>7
<1>10. TryParse(f) = Fields(f)  BY <1>1, <1>4, <1>8, <1>9 DEF TryParse
<1>11. TryParse(f) # Bad
  <2>1. Fields(f).header = f[1] /\ Bad.header = -1  BY DEF Fields, Bad
  <2>2. f[1] # -1  BY <1>3
  <2> QED  BY <1>10, <2>1, <2>2
<1>12. SubSeq(f, End(f) + 1, Len(f)) # <<>>
  <2> DEFINE m == End(f) + 1
  <2>1. m \in Nat \ {0} /\ m <= Len(f) + 1 /\ Len(f) <= Len(f) /\ Len(f) - m + 1 # 0  BY <1>2, <1>7, <1>9
  <2> HIDE DEF m
  <2>2. Len(SubSeq(f, m, Len(f))) = Len(f) - m + 1  BY <1>2, <2>1, PartOf
  <2>3. SubSeq(f, m, Len(f)) # <<>>  BY <2>1, <2>2, EmptySeq
  <2> QED  BY <2>3 DEF m
<1>13. TryParse(f).payload = SubSeq(f, End(f) + 1, Len(f))
  <2>1. Fields(f).payload = SubSeq(f, End(f) + 1, Len(f))  BY DEF Fields
  <2> QED  BY <1>10, <2>1
<1> QED  BY <1>11, <1>12, <1>13

\* A plain flood with the type of the payload that h has
LEMMA FloodHeader ==
  ASSUME NEW h \in 0 .. 63, NEW k, k = h - (h % 4) + 1
  PROVE  k \in 0 .. 63 /\ k % 4 = 1 /\ (k \div 4) % 16 = (h \div 4) % 16
<1>1. h % 4 \in 0 .. 3 /\ h \div 4 \in 0 .. 15 /\ h = 4 * (h \div 4) + (h % 4)  OBVIOUS
<1>2. k = 4 * (h \div 4) + 1  BY <1>1
<1>3. k \in 0 .. 63 /\ k % 4 = 1 /\ k \div 4 = h \div 4  BY <1>1, <1>2
<1> QED  BY <1>3

\* A packet as the plain flood that the host is given
PlainFlood(p) ==
  [p EXCEPT !.header = @ - (@ % 4) + ROUTE_TYPE_FLOOD, !.codes = NO_CODES]

\* The advert that the host is given is the advert.
LEMMA AdvertCopied ==
  ASSUME NEW p, Whole(p), p.payload # <<>>
  PROVE  LET q == ReadFrom(RawAdvertCopy(p))
         IN q # Bad /\ PayloadType(q) = PayloadType(p) /\ q.payload = p.payload /\ q.path = p.path
<1> DEFINE r == PlainFlood(p)
           o == [p EXCEPT !.header = @ - (@ % 4) + ROUTE_TYPE_FLOOD]
<1>0. p \in Packets  BY DEF Whole, Writable
<1>1. /\ r.header = p.header - (p.header % 4) + 1 /\ r.codes = NO_CODES
      /\ r.path_len = p.path_len /\ r.path = p.path /\ r.payload = p.payload
  BY <1>0 DEF PlainFlood, Packets, ROUTE_TYPE_FLOOD
<1>2. /\ o.header = p.header - (p.header % 4) + 1
      /\ o.path_len = p.path_len /\ o.path = p.path /\ o.payload = p.payload
  BY <1>0 DEF Packets, ROUTE_TYPE_FLOOD
<1>3. p.header \in 0 .. 63  BY PacketParts DEF Whole
<1>4. /\ r.header \in 0 .. 63 /\ r.header % 4 = 1 /\ (r.header \div 4) % 16 = (p.header \div 4) % 16
  BY <1>1, <1>3, FloodHeader
<1>5. r \in Packets
  <2>1. NO_CODES \in Seq(Nat)  BY DEF NO_CODES
  <2>2. p.header - (p.header % 4) + ROUTE_TYPE_FLOOD \in 0 .. 63
    BY <1>3, FloodHeader DEF ROUTE_TYPE_FLOOD
  <2> HIDE <1>3
  <2> QED  BY <1>0, <2>1, <2>2 DEF PlainFlood, Packets
<1> HIDE DEF r, o
<1>6. ~HasTransportCodes(r) /\ ~HasTransportCodes(o)
  <2>1. o.header % 4 = 1  BY <1>1, <1>2, <1>4
  <2> QED  BY <1>4, <2>1 DEF HasTransportCodes, RouteType, ROUTE_TYPE_TRANSPORT_FLOOD, ROUTE_TYPE_TRANSPORT_DIRECT
<1>7. Writable(r) /\ Len(r.path) = PathBytes(r.path_len)  BY <1>1, <1>5, <1>6 DEF Whole, Writable
<1>8. WriteTo(o) = WriteTo(r)  BY <1>1, <1>2, <1>6 DEF WriteTo, WritePath
<1>9. RawAdvertCopy(p) = WriteTo(r)  BY <1>8 DEF RawAdvertCopy, o
<1>10. TryParse(WriteTo(r)) = Sent(r) /\ FrameFits(WriteTo(r)) /\ Sent(r) # Bad  BY <1>7, RoundTrip, SentWhole
<1>11. /\ Sent(r).header = r.header /\ Sent(r).payload = p.payload /\ Sent(r).path = p.path
  <2>1. WritePath(r) = r.path  BY <1>7, PathWritten
  <2> QED  BY <1>1, <2>1, SentFields
<1>12. ReadFrom(WriteTo(r)) = Sent(r)  BY <1>10, <1>11, ReadLikeParsed
<1>13. PayloadType(Sent(r)) = PayloadType(p)  BY <1>4, <1>11 DEF PayloadType
<1> QED  BY <1>9, <1>10, <1>11, <1>12, <1>13

\* The two parsers accept the same frames of version 1, but for an empty
\* payload, and an advert that the host hands back is read as the advert it was
\* (meshcore_packet_read_from, meshcore_runtime_raw_advert_copy).
THEOREM ParsersAgree == Spec => []ReadersAgree
<1>1. Carried => ReadersAgree
  <2>1. SUFFICES ASSUME Carried, frame # <<>>, frame[1] < 64, Len(frame) <= MaxFrame
                 PROVE  IF Heard # Bad /\ Heard.payload # <<>>
                        THEN /\ ReadFrom(frame) = Heard
                             /\ PayloadType(Heard) = PAYLOAD_TYPE_ADVERT =>
                                  LET q == ReadFrom(RawAdvertCopy(Heard))
                                  IN /\ q # Bad /\ PayloadType(q) = PAYLOAD_TYPE_ADVERT
                                     /\ q.payload = Heard.payload /\ q.path = Heard.path
                        ELSE ReadFrom(frame) = Bad
    BY DEF ReadersAgree
  <2>2. FrameFits(frame)  BY <2>1 DEF Carried
  <2>3. CASE Heard # Bad /\ Heard.payload # <<>>
    <3>1. ReadFrom(frame) = Heard  BY <2>2, <2>3, ReadLikeParsed DEF Heard
    <3>2. Whole(Heard)  BY <2>1, <2>3, HeardWhole
    <3>3. LET q == ReadFrom(RawAdvertCopy(Heard))
          IN q # Bad /\ PayloadType(q) = PayloadType(Heard) /\ q.payload = Heard.payload /\ q.path = Heard.path
      BY <2>3, <3>2, AdvertCopied
    <3> QED  BY <2>3, <3>1, <3>3
  <2>4. CASE ~(Heard # Bad /\ Heard.payload # <<>>)
    <3>1. ReadFrom(frame) = Bad  BY <2>1, <2>2, <2>4, ReadIsParsed DEF Heard
    <3> QED  BY <2>4, <3>1
  <2> QED  BY <2>3, <2>4
<1> QED  BY <1>1, CarriedUnchanged, PTL

---------------------------------------------------------------------------
(* The word in which a relay tells the dispatcher when to send.            *)

\* The time on the air grows with the frame,
LEMMA Product ==
  ASSUME NEW r \in Nat, NEW m \in Nat, NEW s \in Nat, r <= m
  PROVE  r * s \in Nat /\ m * s \in Nat /\ r * s <= m * s
OBVIOUS

\* and the delay with the share.
LEMMA Tenths ==
  ASSUME NEW x \in Nat, NEW y \in Nat, x <= y
  PROVE  5 * (x \div 10) \in Nat /\ 5 * (x \div 10) <= 5 * (y \div 10)
OBVIOUS

\* A word is taken apart as it was put together.
LEMMA WordParts ==
  ASSUME NEW m \in Nat \ {0}, NEW k \in Nat, NEW c \in 0 .. m - 1
  PROVE  (k * m + c) \div m = k /\ (k * m + c) % m = c
OBVIOUS

\* A delay fits beside the priority in the word.
LEMMA DelayFits ==
  ASSUME NEW n \in Node, NEW q, Writable(q)
  PROVE  MaxDelay(n, q) \in Nat /\ MaxDelay(n, q) < 2 ^ DelayBits
<1> DEFINE share == Share(n, q)
           raw == RawLength(q)
<1>1. q.header \in 0 .. 63  BY PacketParts
<1>2. IsRouteFlood(q) \/ IsRouteDirect(q)
  <2>1. q.header % 4 \in {0, 1, 2, 3}  BY <1>1
  <2> QED  BY <2>1 DEF IsRouteFlood, IsRouteDirect, RouteType, ROUTE_TYPE_FLOOD, ROUTE_TYPE_DIRECT,
                       ROUTE_TYPE_TRANSPORT_FLOOD, ROUTE_TYPE_TRANSPORT_DIRECT
<1>3. Policy[n].role = "chat" \/ Policy[n].role = "repeater"  BY WireAssumption
<1>4. share \in {Policy[n].tx_delay, Policy[n].direct_tx_delay, 5, 2}
  BY <1>2, <1>3 DEF Share
<1>5. share \in Nat /\ 5 * ((MaxFrame * share) \div 10) < 2 ^ DelayBits
  <2> HIDE DEF share
  <2> QED  BY <1>4, WireAssumption
<1>6. raw \in Nat /\ raw <= MaxFrame /\ MaxFrame \in Nat /\ 2 ^ DelayBits \in Nat
  BY RawFits, WireAssumption
<1>m. MaxDelay(n, q) = 5 * ((raw * share) \div 10)  BY DEF MaxDelay
<1> HIDE DEF share, raw
<1>7. raw * share \in Nat /\ MaxFrame * share \in Nat /\ raw * share <= MaxFrame * share
  BY <1>5, <1>6, Product
<1>8. /\ 5 * ((raw * share) \div 10) \in Nat
      /\ 5 * ((raw * share) \div 10) <= 5 * ((MaxFrame * share) \div 10)
  BY <1>7, Tenths
<1>9. 5 * ((MaxFrame * share) \div 10) \in Nat  BY <1>7, Tenths
<1> QED  BY <1>5, <1>6, <1>8, <1>9, <1>m

\* The dispatcher finds in the word what the relay put there
\* (MESHCORE_DISPATCHER_ACTION_RETRANSMIT_DELAYED and its accessors).
LEMMA WordKept ==
  ASSUME NEW pri \in 0 .. 254, NEW delay \in 0 .. 2 ^ DelayBits - 1
  PROVE  /\ Priority(RetransmitDelayed(pri, delay)) = pri
         /\ Delay(RetransmitDelayed(pri, delay)) = delay
<1>1. 2 ^ DelayBits \in Nat \ {0}  BY WireAssumption
<1>2. 1 + pri \in Nat /\ ((1 + pri) - 1) % 256 = pri  OBVIOUS
<1> DEFINE m == 2 ^ DelayBits
           k == 1 + pri
<1>3. m \in Nat \ {0} /\ k \in Nat /\ delay \in 0 .. m - 1  BY <1>1, <1>2
<1>4. (k - 1) % 256 = pri  BY <1>2
<1>w. RetransmitDelayed(pri, delay) = k * m + delay  BY DEF RetransmitDelayed
<1>p. \A a : Priority(a) = ((a \div m) - 1) % 256 /\ Delay(a) = a % m  BY DEF Priority, Delay
<1> HIDE DEF m, k
<1>5. (k * m + delay) \div m = k /\ (k * m + delay) % m = delay  BY <1>3, WordParts
<1> QED  BY <1>4, <1>5, <1>w, <1>p

\* A relay is queued with the priority it was given, and with a delay that fits.
LEMMA QueuedAs ==
  ASSUME NEW n \in Node, NEW q, Writable(q), NEW pri \in 0 .. 254, Retransmit(n, q, pri)
  PROVE  queued'.delay <= queued'.limit /\ queued'.priority = pri
<1>1. PICK delay \in {0, MaxDelay(n, q)} :
        queued' = [priority |-> Priority(RetransmitDelayed(pri, delay)),
                   delay |-> Delay(RetransmitDelayed(pri, delay)), limit |-> MaxDelay(n, q)]
  BY DEF Retransmit, RetransmitDelay
<1>2. MaxDelay(n, q) \in Nat /\ MaxDelay(n, q) < 2 ^ DelayBits  BY DelayFits
<1>3. 2 ^ DelayBits \in Nat  BY WireAssumption
<1>4. delay \in 0 .. 2 ^ DelayBits - 1 /\ delay <= MaxDelay(n, q)  BY <1>2, <1>3
<1>5. /\ Priority(RetransmitDelayed(pri, delay)) = pri
      /\ Delay(RetransmitDelayed(pri, delay)) = delay
  BY <1>4, WordKept
<1> QED  BY <1>1, <1>4, <1>5

\* A packet is a flood or is source-routed.
LEMMA OneRoute ==
  ASSUME NEW p
  PROVE  ~(IsRouteFlood(p) /\ IsRouteDirect(p)) /\ (IsTrace(p) => IsRouteDirect(p) /\ ~IsRouteFlood(p))
BY DEF IsRouteFlood, IsRouteDirect, IsTrace, ROUTE_TYPE_FLOOD, ROUTE_TYPE_DIRECT,
       ROUTE_TYPE_TRANSPORT_FLOOD, ROUTE_TYPE_TRANSPORT_DIRECT

\* A path length counts fewer hops than a byte has values.
LEMMA CountIsByte ==
  ASSUME NEW c \in 0 .. MaxPathLen - 1
  PROVE  c \in 0 .. 254
BY PathLenAssumption, WireAssumption

\* A step of UrgencyKept: every way to relay has its priority.
LEMMA UrgencyStep ==
  ASSUME Carried, Carried', UrgencyKept, [Next]_vars
  PROVE  UrgencyKept'
<1> USE DEF Carried
<1>k. /\ Heard # Bad => Heard.header = origin.header
  BY HeardWhole
<1>1. ASSUME NEW f \in Frames, Inject(f)  PROVE UrgencyKept'
  BY <1>1 DEF Inject, UrgencyKept
<1>2. ASSUME NEW n \in Node, RelayTrace(n)  PROVE UrgencyKept'
  <2> DEFINE q == AppendSnr(n, Heard)
  <2>1. Heard # Bad /\ Relayed(n, q) /\ Writable(q)  BY <1>2, RelayTraceHop
  <2>2. Retransmit(n, q, TRACE_PRIORITY) /\ IsTrace(Heard)  BY <1>2 DEF RelayTrace
  <2> HIDE DEF q
  <2>3. TRACE_PRIORITY \in 0 .. 254  BY DEF TRACE_PRIORITY
  <2>4. queued'.delay <= queued'.limit /\ queued'.priority = TRACE_PRIORITY  BY <2>1, <2>2, <2>3, QueuedAs
  <2>5. IsTrace(origin') /\ ~IsRouteFlood(origin')
    <3>1. origin' = origin /\ Heard.header = origin.header  BY <2>1, <1>k DEF Relayed
    <3>2. IsTrace(origin)  BY <2>2, <3>1, SameRoute
    <3> QED  BY <3>1, <3>2, OneRoute
  <2>6. IsTrace(origin)' /\ ~IsRouteFlood(origin)'
    BY <2>5 DEF IsTrace, IsRouteDirect, IsRouteFlood, RouteType, PayloadType
  <2> QED  BY <2>4, <2>6 DEF UrgencyKept
<1>3. ASSUME NEW n \in Node, RelayDirect(n)  PROVE UrgencyKept'
  <2> DEFINE q == RemoveSelf(Heard)
  <2>1. Heard # Bad /\ Relayed(n, q) /\ Writable(q)  BY <1>3, RelayDirectHop
  <2>2. Retransmit(n, q, 0) /\ IsRouteDirect(Heard) /\ ~IsTrace(Heard)  BY <1>3 DEF RelayDirect
  <2> HIDE DEF q
  <2>4. queued'.delay <= queued'.limit /\ queued'.priority = 0  BY <2>1, <2>2, QueuedAs
  <2>5. ~IsTrace(origin') /\ ~IsRouteFlood(origin')
    <3>1. origin' = origin /\ Heard.header = origin.header  BY <2>1, <1>k DEF Relayed
    <3>2. ~IsTrace(origin) /\ IsRouteDirect(origin)  BY <2>2, <3>1, SameRoute
    <3> QED  BY <3>1, <3>2, OneRoute
  <2>6. ~IsTrace(origin)' /\ ~IsRouteFlood(origin)'
    BY <2>5 DEF IsTrace, IsRouteDirect, IsRouteFlood, RouteType, PayloadType
  <2> QED  BY <2>4, <2>6 DEF UrgencyKept
<1>4. ASSUME NEW n \in Node, RelayFlood(n)  PROVE UrgencyKept'
  <2> DEFINE q == AppendSelf(n, Heard)
             pri == HashCount(q.path_len)
  <2>1. /\ Heard # Bad /\ Relayed(n, q) /\ Writable(q) /\ AfterOpening(n, Heard) = Heard
        /\ (HashCount(Heard.path_len) + 1) * HashSize(Heard.path_len) <= MaxPathLen
        /\ q.header = Heard.header /\ q.codes = Heard.codes /\ q.payload = Heard.payload
    BY <1>4, RelayFloodHop
  <2>2. Retransmit(n, q, pri) /\ IsRouteFlood(Heard)  BY <1>4, <2>1 DEF RelayFlood
  <2>3. pri \in 0 .. 254
    <3>1. Whole(Heard)  BY <2>1, HeardWhole
    <3>2. HashCount(q.path_len) \in 0 .. MaxPathLen - 1  BY <2>1, <3>1, SelfAppended
    <3> QED  BY <3>2, CountIsByte
  <2>h. Heard' = Sent(q)
    <3> HIDE DEF q
    <3> QED  BY <2>1, Hop
  <2>p. pri = HashCount(q.path_len)  OBVIOUS
  <2> HIDE DEF q, pri
  <2>4. queued'.delay <= queued'.limit /\ queued'.priority = pri  BY <2>1, <2>2, <2>3, QueuedAs
  <2>5. ~IsTrace(origin') /\ IsRouteFlood(origin')
    <3>1. origin' = origin /\ Heard.header = origin.header  BY <2>1, <1>k DEF Relayed
    <3>2. IsRouteFlood(origin)  BY <2>2, <3>1, SameRoute
    <3> QED  BY <3>1, <3>2, OneRoute
  <2>6. ~IsTrace(origin)' /\ IsRouteFlood(origin)'
    BY <2>5 DEF IsTrace, IsRouteDirect, IsRouteFlood, RouteType, PayloadType
  <2>7. Heard'.path_len = q.path_len  BY <2>h, SentFields
  <2>8. HashCount(Heard'.path_len) = pri  BY <2>7, <2>p
  <2>9. HashCount(Heard.path_len)' = pri  BY <2>8 DEF HashCount
  <2> QED  BY <2>4, <2>6, <2>9 DEF UrgencyKept
<1>5. ASSUME Quiet, UNCHANGED queued  PROVE UrgencyKept'
  <2>1. Heard' = Heard /\ origin' = origin /\ trail' = trail /\ queued' = queued  BY <1>5, QuietHeard
  <2> QED  BY <2>1 DEF UrgencyKept, IsTrace, IsRouteDirect, IsRouteFlood, RouteType, PayloadType, HashCount
<1>6. ASSUME NEW n \in Node, EndTrace(n) \/ Keep(n) \/ Forget(n)  PROVE UrgencyKept'
  <2>1. Quiet /\ UNCHANGED queued  BY <1>6 DEF EndTrace, Keep, Forget, Quiet
  <2> QED  BY <2>1, <1>5
<1>7. ASSUME Fade  PROVE UrgencyKept'
  BY <1>7 DEF Fade, UrgencyKept
<1>8. ASSUME UNCHANGED vars  PROVE UrgencyKept'
  <2>1. Quiet /\ UNCHANGED queued  BY <1>8 DEF vars, Quiet
  <2> QED  BY <2>1, <1>5
<1> QED  BY <1>1, <1>2, <1>3, <1>4, <1>6, <1>7, <1>8 DEF Next

\* A relay queues a TRACE at its fixed priority, a flood by the hops it has
\* made and a source-routed packet first; and a delay, however long the frame
\* and the node's share of the air, never reaches into the bits of the priority
\* (meshcore_runtime_protocol_get_retransmit_delay, the dispatcher's actions).
THEOREM UrgencySurvives == Spec => []UrgencyKept
<1>1. Init => UrgencyKept  BY DEF Init, UrgencyKept
<1>2. Carried /\ Carried' /\ UrgencyKept /\ [Next]_vars => UrgencyKept'  BY UrgencyStep
<1> QED  BY <1>1, <1>2, CarriedUnchanged, PTL DEF Spec

---------------------------------------------------------------------------
(* The bytes that the relays leave in a path.                              *)

\* The bytes that the nodes of t append to a TRACE, and the hashes that they
\* append to a flood or take from a source route
SnrBytes(t) == [k \in 1 .. Len(t) |-> SnrOf(t[k])]
KeyBytes(t, size) ==
  [k \in 1 .. size * Len(t) |-> PubKey[t[((k - 1) \div size) + 1]][((k - 1) % size) + 1]]

\* Nobody has left any bytes in a path that nobody relayed.
LEMMA NoBytes ==
  ASSUME NEW size \in 1 .. 3
  PROVE  SnrBytes(<<>>) = <<>> /\ KeyBytes(<<>>, size) = <<>>
<1>1. Len(<<>>) = 0 /\ size * 0 = 0  OBVIOUS
<1>2. 1 .. 0 = {}  OBVIOUS
<1> QED  BY <1>1, <1>2 DEF SnrBytes, KeyBytes

\* One byte for each node
LEMMA SnrBytesType ==
  ASSUME NEW t \in Seq(Node)
  PROVE  SnrBytes(t) \in Seq(Nat) /\ Len(SnrBytes(t)) = Len(t) /\ \A k \in 1 .. Len(t) : SnrBytes(t)[k] = SnrOf(t[k])
<1>1. Len(t) \in Nat  BY LenProperties
<1>2. \A k \in 1 .. Len(t) : SnrOf(t[k]) \in Nat  BY ElementOfSeq, SnrIsByte
<1>3. SnrBytes(t) \in [1 .. Len(t) -> Nat]  BY <1>2 DEF SnrBytes
<1> QED  BY <1>1, <1>3 DEF SnrBytes

\* One relay more is one byte more at the end.
LEMMA SnrBytesGrow ==
  ASSUME NEW t \in Seq(Node), NEW n \in Node
  PROVE  SnrBytes(Append(t, n)) = SnrBytes(t) \o <<SnrOf(n)>>
<1> DEFINE u == Append(t, n)
           s == SnrBytes(t)
           b == <<SnrOf(n)>>
<1>1. /\ u \in Seq(Node) /\ Len(u) = Len(t) + 1 /\ u[Len(t) + 1] = n
      /\ \A i \in 1 .. Len(t) : u[i] = t[i]  BY AppendProperties
<1>2. /\ s \in Seq(Nat) /\ Len(s) = Len(t) /\ \A k \in 1 .. Len(t) : s[k] = SnrOf(t[k])  BY SnrBytesType
<1>3. b \in Seq(Nat) /\ Len(b) = 1 /\ b[1] = SnrOf(n)  BY SnrIsByte, OneByte
<1>4. Len(t) \in Nat  BY LenProperties
<1> HIDE DEF u, s, b
<1>5. /\ SnrBytes(u) \in Seq(Nat) /\ Len(SnrBytes(u)) = Len(t) + 1
      /\ \A k \in 1 .. Len(t) + 1 : SnrBytes(u)[k] = SnrOf(u[k])  BY <1>1, SnrBytesType
<1>6. /\ s \o b \in Seq(Nat) /\ Len(s \o b) = Len(s) + Len(b)
      /\ \A i \in 1 .. Len(s) + Len(b) : (s \o b)[i] = IF i <= Len(s) THEN s[i] ELSE b[i - Len(s)]
  <2>1. s \in Seq(Nat) /\ b \in Seq(Nat)  BY <1>2, <1>3
  <2> QED  BY <2>1, ConcatProperties
<1>7. ASSUME NEW i \in 1 .. Len(SnrBytes(u))  PROVE SnrBytes(u)[i] = (s \o b)[i]
  <2>1. i \in 1 .. Len(t) + 1  BY <1>5
  <2>2. CASE i \in 1 .. Len(t)
    <3>1. (s \o b)[i] = s[i] /\ s[i] = SnrOf(t[i]) /\ SnrBytes(u)[i] = SnrOf(u[i]) /\ u[i] = t[i]
      BY <2>1, <2>2, <1>1, <1>2, <1>3, <1>4, <1>5, <1>6
    <3> QED  BY <3>1
  <2>3. CASE i = Len(t) + 1
    <3>1. i - Len(s) = 1 /\ ~(i <= Len(s)) /\ i \in 1 .. Len(s) + Len(b)  BY <2>3, <1>2, <1>3, <1>4
    <3>2. (s \o b)[i] = b[1]  BY <3>1, <1>6
    <3>3. SnrBytes(u)[i] = SnrOf(u[i]) /\ u[i] = n  BY <2>1, <2>3, <1>1, <1>5
    <3> QED  BY <3>2, <3>3, <1>3
  <2>4. i \in 1 .. Len(t) \/ i = Len(t) + 1  BY <2>1, <1>4
  <2> QED  BY <2>2, <2>3, <2>4
<1>8. Len(SnrBytes(u)) = Len(s \o b)  BY <1>2, <1>3, <1>5, <1>6
<1>9. SnrBytes(u) = s \o b  BY <1>5, <1>6, <1>7, <1>8, SeqEqual
<1> QED  BY <1>9 DEF u, s, b

\* Where a byte of the hashes comes from
LEMMA ChunkPlace ==
  ASSUME NEW size \in 1 .. 3, NEW len \in Nat, NEW k \in 1 .. size * (len + 1)
  PROVE  /\ ((k - 1) % size) + 1 \in 1 .. size /\ size * (len + 1) = size * len + size /\ size * len \in Nat
         /\ k <= size * len => ((k - 1) \div size) + 1 \in 1 .. len
         /\ ~(k <= size * len) => ((k - 1) \div size) + 1 = len + 1 /\ ((k - 1) % size) + 1 = k - size * len
<1>1. CASE size = 1  BY <1>1
<1>2. CASE size = 2  BY <1>2
<1>3. CASE size = 3  BY <1>3
<1> QED  BY <1>1, <1>2, <1>3

\* A byte of a key
LEMMA KeyByte ==
  ASSUME NEW n \in Node, NEW i \in 1 .. 3
  PROVE  PubKey[n][i] \in Nat
<1>1. PubKey[n] \in [1 .. 3 -> Byte]  BY WireAssumption
<1> QED  BY <1>1 DEF Byte

\* A hash for each node
LEMMA KeyBytesType ==
  ASSUME NEW t \in Seq(Node), NEW size \in 1 .. 3
  PROVE  /\ KeyBytes(t, size) \in Seq(Nat) /\ Len(KeyBytes(t, size)) = size * Len(t)
         /\ \A k \in 1 .. size * Len(t) :
              KeyBytes(t, size)[k] = PubKey[t[((k - 1) \div size) + 1]][((k - 1) % size) + 1]
<1>1. Len(t) \in Nat  BY LenProperties
<1>2. size * Len(t) \in Nat  BY <1>1
<1>3. ASSUME NEW k \in 1 .. size * Len(t)
      PROVE  PubKey[t[((k - 1) \div size) + 1]][((k - 1) % size) + 1] \in Nat
  <2>1. k \in 1 .. size * (Len(t) + 1)
    <3>1. size * (Len(t) + 1) = size * Len(t) + size  BY <1>1
    <3> QED  BY <3>1, <1>2
  <2>2. k <= size * Len(t)  BY <1>2
  <2>3. ((k - 1) % size) + 1 \in 1 .. size /\ ((k - 1) \div size) + 1 \in 1 .. Len(t)
    BY <1>1, <2>1, <2>2, ChunkPlace
  <2>4. t[((k - 1) \div size) + 1] \in Node /\ ((k - 1) % size) + 1 \in 1 .. 3  BY <2>3, ElementOfSeq
  <2> QED  BY <2>4, KeyByte
<1>4. KeyBytes(t, size) \in [1 .. size * Len(t) -> Nat]  BY <1>3 DEF KeyBytes
<1>5. KeyBytes(t, size) \in Seq(Nat) /\ Len(KeyBytes(t, size)) = size * Len(t)  BY <1>2, <1>4
<1>6. \A k \in 1 .. size * Len(t) :
        KeyBytes(t, size)[k] = PubKey[t[((k - 1) \div size) + 1]][((k - 1) % size) + 1]
  BY DEF KeyBytes
<1> QED  BY <1>5, <1>6

\* One relay more is one hash more at the end.
LEMMA KeyBytesGrow ==
  ASSUME NEW t \in Seq(Node), NEW n \in Node, NEW size \in 1 .. 3
  PROVE  KeyBytes(Append(t, n), size) = KeyBytes(t, size) \o SubSeq(PubKey[n], 1, size)
<1> DEFINE u == Append(t, n)
           s == KeyBytes(t, size)
           b == SubSeq(PubKey[n], 1, size)
           g == KeyBytes(u, size)
<1>1. /\ u \in Seq(Node) /\ Len(u) = Len(t) + 1 /\ u[Len(t) + 1] = n
      /\ \A i \in 1 .. Len(t) : u[i] = t[i]  BY AppendProperties
<1>4. Len(t) \in Nat  BY LenProperties
<1>2. /\ s \in Seq(Nat) /\ Len(s) = size * Len(t)
      /\ \A k \in 1 .. size * Len(t) :
           s[k] = PubKey[t[((k - 1) \div size) + 1]][((k - 1) % size) + 1]  BY KeyBytesType
<1>3. b \in Seq(Nat) /\ Len(b) = size /\ \A i \in 1 .. size : b[i] = PubKey[n][i]  BY KeyPart
<1> HIDE DEF u, b
<1>5. /\ g \in Seq(Nat) /\ Len(g) = size * (Len(t) + 1)
      /\ \A k \in 1 .. size * (Len(t) + 1) :
           g[k] = PubKey[u[((k - 1) \div size) + 1]][((k - 1) % size) + 1]
  <2>1. /\ g \in Seq(Nat) /\ Len(g) = size * Len(u)
        /\ \A k \in 1 .. size * Len(u) :
             g[k] = PubKey[u[((k - 1) \div size) + 1]][((k - 1) % size) + 1]
    BY <1>1, KeyBytesType
  <2> HIDE DEF g
  <2> QED  BY <1>1, <2>1
<1> HIDE DEF s, g
<1>6. /\ s \o b \in Seq(Nat) /\ Len(s \o b) = Len(s) + Len(b)
      /\ \A i \in 1 .. Len(s) + Len(b) : (s \o b)[i] = IF i <= Len(s) THEN s[i] ELSE b[i - Len(s)]
  BY <1>2, <1>3, ConcatProperties
<1>7. size * (Len(t) + 1) = size * Len(t) + size /\ size * Len(t) \in Nat  BY <1>4
<1>8. ASSUME NEW k \in 1 .. Len(g)  PROVE g[k] = (s \o b)[k]
  <2>1. k \in 1 .. size * (Len(t) + 1) /\ k \in 1 .. Len(s) + Len(b)  BY <1>2, <1>3, <1>5, <1>7
  <2>2. /\ ((k - 1) % size) + 1 \in 1 .. size
        /\ k <= size * Len(t) => ((k - 1) \div size) + 1 \in 1 .. Len(t)
        /\ ~(k <= size * Len(t)) =>
             ((k - 1) \div size) + 1 = Len(t) + 1 /\ ((k - 1) % size) + 1 = k - size * Len(t)
    BY <1>4, <2>1, ChunkPlace
  <2>3. g[k] = PubKey[u[((k - 1) \div size) + 1]][((k - 1) % size) + 1]  BY <1>5, <2>1
  <2>4. CASE k <= size * Len(t)
    <3>1. (s \o b)[k] = s[k]  BY <2>1, <2>4, <1>2, <1>6
    <3>2. k \in 1 .. size * Len(t)  BY <2>1, <2>4, <1>7
    <3>3. s[k] = PubKey[t[((k - 1) \div size) + 1]][((k - 1) % size) + 1]  BY <3>2, <1>2
    <3>4. u[((k - 1) \div size) + 1] = t[((k - 1) \div size) + 1]  BY <2>2, <2>4, <1>1
    <3> QED  BY <2>3, <3>1, <3>3, <3>4
  <2>5. CASE ~(k <= size * Len(t))
    <3>1. (s \o b)[k] = b[k - size * Len(t)]  BY <2>1, <2>5, <1>2, <1>6
    <3>2. g[k] = PubKey[n][k - size * Len(t)]  BY <2>2, <2>3, <2>5, <1>1
    <3>3. k - size * Len(t) \in 1 .. size  BY <2>1, <2>5, <1>7
    <3> QED  BY <3>1, <3>2, <3>3, <1>3
  <2> QED  BY <2>4, <2>5
<1>9. Len(g) = Len(s \o b)  BY <1>2, <1>3, <1>5, <1>6, <1>7
<1>10. g = s \o b  BY <1>5, <1>6, <1>8, <1>9, SeqEqual
<1> QED  BY <1>10 DEF u, s, b, g

---------------------------------------------------------------------------
(* The path tells the way.                                                 *)

\* There is room in the six bits for the hops of t behind those of o.
Room(o, t) == HashCount(o.path_len) + Len(t) < MaxPathLen

\* What the packet p, which was o before the nodes of t relayed it, tells of its
\* way: a TRACE,
TraceTold(p, o, t) ==
  /\ t # <<>> => o.path_len < MaxPathLen
  /\ p.path_len = o.path_len + Len(t)
  /\ Room(o, t) => p.path = o.path \o SnrBytes(t)

\* a flood,
FloodTold(p, o, t) ==
  /\ HashSize(p.path_len) = HashSize(o.path_len)
  /\ Room(o, t) =>
       /\ HashCount(p.path_len) = HashCount(o.path_len) + Len(t)
       /\ p.path = o.path \o KeyBytes(t, HashSize(o.path_len))

\* and a source-routed packet.
DirectTold(p, o, t) ==
  /\ HashSize(p.path_len) = HashSize(o.path_len)
  /\ KeyBytes(t, HashSize(o.path_len)) \o p.path = o.path

\* What a packet tells of its way, whatever its kind
Told(p, o, t) ==
  IF IsTrace(o) THEN TraceTold(p, o, t)
  ELSE IF IsRouteFlood(o) THEN FloodTold(p, o, t) ELSE DirectTold(p, o, t)

\* A packet that nobody relayed is what it was.
LEMMA ToldAtFirst ==
  ASSUME NEW o, Whole(o)
  PROVE  Told(o, o, <<>>)
<1>1. /\ HashSize(o.path_len) \in 1 .. 3 /\ HashCount(o.path_len) \in 0 .. MaxPathLen - 1
      /\ o.path \in Seq(Nat)  BY WholeParts
<1>2. o.path_len \in Nat /\ Len(<<>>) = 0  BY PacketParts DEF Whole
<1>3. SnrBytes(<<>>) = <<>> /\ KeyBytes(<<>>, HashSize(o.path_len)) = <<>>  BY <1>1, NoBytes
<1>4. o.path \o <<>> = o.path /\ <<>> \o o.path = o.path  BY <1>1, ConcatEmptySeq
<1>5. o.path_len = o.path_len + Len(<<>>)  BY <1>2
<1>6. HashCount(o.path_len) = HashCount(o.path_len) + Len(<<>>)  BY <1>1, <1>2
<1> QED  BY <1>3, <1>4, <1>5, <1>6 DEF Told, TraceTold, FloodTold, DirectTold

\* There was room for the hops before if there is room for one more.
LEMMA RoomBefore ==
  ASSUME NEW o, Whole(o), NEW t \in Seq(Node), NEW n \in Node, Room(o, Append(t, n))
  PROVE  Room(o, t) /\ HashCount(o.path_len) + Len(t) + 1 < MaxPathLen
<1>1. HashCount(o.path_len) \in 0 .. MaxPathLen - 1 /\ MaxPathLen \in Nat
  BY WholeParts, PathLenAssumption
<1>2. Len(t) \in Nat /\ Len(Append(t, n)) = Len(t) + 1  BY LenProperties, AppendProperties
<1>3. HashCount(o.path_len) + (Len(t) + 1) < MaxPathLen  BY <1>2 DEF Room
<1> QED  BY <1>1, <1>2, <1>3 DEF Room

\* A path length below the modulus is a count of single bytes.
LEMMA SmallCount ==
  ASSUME NEW l \in Nat, l < MaxPathLen
  PROVE  HashSize(l) = 1 /\ HashCount(l) = l
<1>1. MaxPathLen \in Nat \ {0}  BY PathLenAssumption
<1>2. (0 * MaxPathLen + l) \div MaxPathLen = 0 /\ (0 * MaxPathLen + l) % MaxPathLen = l
  BY <1>1, DivMod
<1>3. 0 * MaxPathLen + l = l  BY <1>1
<1> QED  BY <1>2, <1>3 DEF HashSize, HashCount

\* A TRACE tells of the hop that it makes,
LEMMA TraceTells ==
  ASSUME NEW p, Whole(p), NEW o, Whole(o), NEW t \in Seq(Node), NEW n \in Node,
         t = <<>> => o = p, p.path_len < MaxPathLen, TraceTold(p, o, t)
  PROVE  TraceTold(Sent(AppendSnr(n, p)), o, Append(t, n))
<1> DEFINE q == AppendSnr(n, p)
           h == Sent(q)
           u == Append(t, n)
<1>1. /\ Writable(q) /\ q.path_len = p.path_len + 1
      /\ p.path_len + 1 < MaxPathLen => WritePath(q) = p.path \o <<SnrOf(n)>>
  <2>1. q = AppendSnr(n, p)  OBVIOUS
  <2> HIDE DEF q
  <2>2. OneReadingMore(n, p, q)  BY <2>1, SnrAppended, ZenonT(30)
  <2> QED  BY <2>2 DEF OneReadingMore
<1>2. h.path_len = p.path_len + 1 /\ h.path = WritePath(q)
  <2> HIDE DEF q
  <2> QED  BY <1>1, SentFields
<1> HIDE DEF q, h
<1>3. o.path_len \in Nat /\ o.path \in Seq(Nat) /\ p.path_len \in Nat  BY PacketParts DEF Whole
<1>4. Len(t) \in Nat /\ Len(u) = Len(t) + 1 /\ u # <<>>  BY LenProperties, AppendProperties
<1>5. p.path_len = o.path_len + Len(t) /\ (Room(o, t) => p.path = o.path \o SnrBytes(t))
  BY DEF TraceTold
<1>6. o.path_len < MaxPathLen  BY DEF TraceTold
<1>7. HashCount(o.path_len) = o.path_len  BY <1>3, <1>6, SmallCount
<1>8. h.path_len = o.path_len + Len(u)  BY <1>2, <1>3, <1>4, <1>5
<1>9. ASSUME Room(o, u)  PROVE h.path = o.path \o SnrBytes(u)
  <2>1. Room(o, t) /\ HashCount(o.path_len) + Len(t) + 1 < MaxPathLen  BY <1>9, RoomBefore
  <2>2. p.path_len + 1 < MaxPathLen  BY <2>1, <1>3, <1>4, <1>5, <1>7
  <2>3. h.path = (o.path \o SnrBytes(t)) \o <<SnrOf(n)>>  BY <2>1, <2>2, <1>1, <1>2, <1>5
  <2>4. SnrBytes(t) \in Seq(Nat) /\ <<SnrOf(n)>> \in Seq(Nat)  BY SnrBytesType, SnrIsByte, OneByte
  <2>5. (o.path \o SnrBytes(t)) \o <<SnrOf(n)>> = o.path \o (SnrBytes(t) \o <<SnrOf(n)>>)
    <3> DEFINE a == o.path
               b == SnrBytes(t)
               c == <<SnrOf(n)>>
    <3>1. a \in Seq(Nat) /\ b \in Seq(Nat) /\ c \in Seq(Nat)  BY <1>3, <2>4
    <3> HIDE DEF a, b, c
    <3>2. (a \o b) \o c = a \o (b \o c)  BY <3>1, Regroup
    <3> QED  BY <3>2 DEF a, b, c
  <2>6. SnrBytes(u) = SnrBytes(t) \o <<SnrOf(n)>>  BY SnrBytesGrow
  <2> QED  BY <2>3, <2>5, <2>6
<1> QED  BY <1>6, <1>8, <1>9 DEF TraceTold, q, h

\* a flood as well,
LEMMA FloodTells ==
  ASSUME NEW p, Whole(p), NEW o, Whole(o), NEW t \in Seq(Node), NEW n \in Node,
         (HashCount(p.path_len) + 1) * HashSize(p.path_len) <= MaxPathLen, FloodTold(p, o, t)
  PROVE  FloodTold(Sent(AppendSelf(n, p)), o, Append(t, n))
<1> DEFINE q == AppendSelf(n, p)
           h == Sent(q)
           u == Append(t, n)
           size == HashSize(o.path_len)
           key == SubSeq(PubKey[n], 1, size)
<1>0. HashSize(p.path_len) = size  BY DEF FloodTold
<1>1. /\ Writable(q) /\ q.header = p.header /\ q.codes = p.codes /\ q.payload = p.payload
      /\ HashSize(q.path_len) = HashSize(p.path_len)
      /\ HashCount(q.path_len) \in 0 .. MaxPathLen - 1
      /\ HashCount(p.path_len) + 1 < MaxPathLen =>
           /\ HashCount(q.path_len) = HashCount(p.path_len) + 1
           /\ WritePath(q) = p.path \o SubSeq(PubKey[n], 1, HashSize(p.path_len))  BY SelfAppended
<1>2. h.path_len = q.path_len /\ h.path = WritePath(q)
  <2> HIDE DEF q
  <2> QED  BY SentFields
<1>k. key = SubSeq(PubKey[n], 1, HashSize(p.path_len))  BY <1>0
<1> HIDE DEF q, h
<1>3. o.path \in Seq(Nat) /\ size \in 1 .. 3 /\ HashCount(o.path_len) \in 0 .. MaxPathLen - 1  BY WholeParts
<1>4. Len(t) \in Nat /\ Len(u) = Len(t) + 1  BY LenProperties, AppendProperties
<1>5. HashSize(h.path_len) = size  BY <1>0, <1>1, <1>2
<1>6. ASSUME Room(o, u)
      PROVE  HashCount(h.path_len) = HashCount(o.path_len) + Len(u) /\ h.path = o.path \o KeyBytes(u, size)
  <2>1. Room(o, t) /\ HashCount(o.path_len) + Len(t) + 1 < MaxPathLen  BY <1>6, RoomBefore
  <2>2. HashCount(p.path_len) = HashCount(o.path_len) + Len(t) /\ p.path = o.path \o KeyBytes(t, size)
    BY <2>1 DEF FloodTold
  <2>3. HashCount(h.path_len) = HashCount(p.path_len) + 1 /\ h.path = p.path \o key
    BY <1>1, <1>2, <1>k, <2>1, <2>2
  <2>4. HashCount(h.path_len) = HashCount(o.path_len) + Len(u)  BY <1>3, <1>4, <2>2, <2>3
  <2>5. KeyBytes(t, size) \in Seq(Nat) /\ key \in Seq(Nat)  BY <1>3, KeyBytesType, KeyPart
  <2>6. (o.path \o KeyBytes(t, size)) \o key = o.path \o (KeyBytes(t, size) \o key)
    <3> DEFINE a == o.path
               b == KeyBytes(t, size)
               c == key
    <3>1. a \in Seq(Nat) /\ b \in Seq(Nat) /\ c \in Seq(Nat)  BY <1>3, <2>5
    <3> HIDE DEF a, b, c
    <3>2. (a \o b) \o c = a \o (b \o c)  BY <3>1, Regroup
    <3> QED  BY <3>2 DEF a, b, c
  <2>7. KeyBytes(u, size) = KeyBytes(t, size) \o key  BY <1>3, KeyBytesGrow
  <2> QED  BY <2>2, <2>3, <2>4, <2>6, <2>7
<1> QED  BY <1>5, <1>6 DEF FloodTold, q, h

\* and a source-routed packet, which was at the node it names.
LEMMA DirectTells ==
  ASSUME NEW p, Whole(p), NEW o, Whole(o), NEW t \in Seq(Node), NEW n \in Node, HashCount(p.path_len) > 0,
         IsHashMatch(n, SubSeq(p.path, 1, HashSize(p.path_len))), DirectTold(p, o, t)
  PROVE  DirectTold(Sent(RemoveSelf(p)), o, Append(t, n))
<1> DEFINE q == RemoveSelf(p)
           h == Sent(q)
           u == Append(t, n)
           size == HashSize(o.path_len)
           key == SubSeq(PubKey[n], 1, size)
<1>0. HashSize(p.path_len) = size  BY DEF DirectTold
<1>1. /\ HashSize(q.path_len) = HashSize(p.path_len)
      /\ WritePath(q) = SubSeq(p.path, HashSize(p.path_len) + 1, Len(p.path))  BY SelfRemoved
<1>2. h.path_len = q.path_len /\ h.path = WritePath(q)
  <2> HIDE DEF q
  <2> QED  BY SentFields
<1> HIDE DEF q, h
<1>3. o.path \in Seq(Nat) /\ size \in 1 .. 3  BY WholeParts
<1>4. p.path \in Seq(Nat) /\ Len(p.path) \in Nat /\ size <= Len(p.path)
  <2>1. /\ p.path \in Seq(Nat) /\ Len(p.path) = HashSize(p.path_len) * HashCount(p.path_len)
        /\ HashCount(p.path_len) \in 0 .. MaxPathLen - 1  BY WholeParts
  <2> DEFINE c == HashCount(p.path_len)
  <2>2. c \in Nat \ {0} /\ Len(p.path) = size * c  BY <1>0, <2>1
  <2> HIDE DEF c, size
  <2>3. size * c \in Nat /\ size <= size * c
    <3>1. CASE size = 1  BY <3>1, <2>2
    <3>2. CASE size = 2  BY <3>2, <2>2
    <3>3. CASE size = 3  BY <3>3, <2>2
    <3> QED  BY <1>3, <3>1, <3>2, <3>3
  <2> QED  BY <2>1, <2>2, <2>3
<1>5. SubSeq(p.path, 1, size) = key
  <2>1. SubSeq(p.path, 1, size) \in Seq(Nat) /\ Len(SubSeq(p.path, 1, size)) = size - 1 + 1
    <3> DEFINE w == p.path
    <3>1. w \in Seq(Nat) /\ size \in Nat /\ 1 \in Nat \ {0} /\ 1 <= size + 1 /\ size <= Len(w)  BY <1>3, <1>4
    <3> HIDE DEF w, size
    <3>2. SubSeq(w, 1, size) \in Seq(Nat) /\ Len(SubSeq(w, 1, size)) = size - 1 + 1  BY <3>1, PartOf
    <3> QED  BY <3>2 DEF w
  <2>2. Len(SubSeq(p.path, 1, size)) = size  BY <2>1, <1>3
  <2> QED  BY <1>0, <2>2 DEF IsHashMatch
<1>6. p.path = key \o h.path
  <2>1. SubSeq(p.path, 1, size) \o SubSeq(p.path, size + 1, Len(p.path)) = SubSeq(p.path, 1, Len(p.path))
    <3>1. 1 \in 1 .. Len(p.path) + 1 /\ size \in 1 - 1 .. Len(p.path) /\ Len(p.path) \in size .. Len(p.path)
      BY <1>3, <1>4
    <3> QED  BY <1>4, <3>1, ConcatAdjacentSubSeq
  <2>2. SubSeq(p.path, 1, Len(p.path)) = p.path  BY <1>4, SubSeqFull
  <2>3. h.path = SubSeq(p.path, size + 1, Len(p.path))  BY <1>0, <1>1, <1>2
  <2> QED  BY <1>5, <2>1, <2>2, <2>3
<1>7. h.path \in Seq(Nat)
  <2>1. Writable(q)  BY SelfRemoved DEF q
  <2> QED  BY <1>2, <2>1, PathWritten
<1>8. KeyBytes(t, size) \in Seq(Nat) /\ key \in Seq(Nat)  BY <1>3, KeyBytesType, KeyPart
<1>9. (KeyBytes(t, size) \o key) \o h.path = KeyBytes(t, size) \o (key \o h.path)
  <2> DEFINE a == KeyBytes(t, size)
             b == key
             c == h.path
  <2>1. a \in Seq(Nat) /\ b \in Seq(Nat) /\ c \in Seq(Nat)  BY <1>7, <1>8
  <2> HIDE DEF a, b, c
  <2>2. (a \o b) \o c = a \o (b \o c)  BY <2>1, Regroup
  <2> QED  BY <2>2 DEF a, b, c
<1>10. KeyBytes(u, size) = KeyBytes(t, size) \o key  BY <1>3, KeyBytesGrow
<1>11. KeyBytes(t, size) \o p.path = o.path  BY DEF DirectTold
<1>12. KeyBytes(u, size) \o h.path = o.path  BY <1>6, <1>9, <1>10, <1>11
<1>13. HashSize(h.path_len) = size  BY <1>0, <1>1, <1>2
<1> QED  BY <1>12, <1>13 DEF DirectTold, q, h

\* What is heard tells of its way since it was first accepted.
WayTold == Heard # Bad => Told(Heard, origin, trail)

\* Every step leaves the packet alone, passes it on in one of three ways, or
\* puts another in its place.
LEMMA WayStep ==
  ASSUME Carried, Carried', WayTold, [Next]_vars
  PROVE  WayTold'
<1>0. trail \in Seq(Node)  BY DEF Carried
<1>w. WayTold' = (Heard' # Bad => Told(Heard', origin', trail'))
  BY DEF WayTold, Told, TraceTold, FloodTold, DirectTold, Room, SnrBytes, KeyBytes, IsTrace, IsRouteDirect,
         IsRouteFlood, RouteType, PayloadType, HashSize, HashCount
<1>a. ASSUME trail' = <<>>  PROVE WayTold'
  <2>1. origin' = Heard'  BY <1>a DEF Carried
  <2>2. ASSUME Heard' # Bad  PROVE Told(Heard', origin', trail')
    <3>1. FrameFits(frame')
      <4>1. FrameFits(frame)'  BY DEF Carried
      <4> QED  BY <4>1 DEF FrameFits
    <3>2. TryParse(frame') # Bad /\ Heard' = TryParse(frame')  BY <2>2 DEF Heard
    <3>3. Whole(TryParse(frame'))  BY <3>1, <3>2, Parsed
    <3>4. Whole(Heard')  BY <3>2, <3>3
    <3> QED  BY <1>a, <2>1, <3>4, ToldAtFirst
  <2> QED  BY <1>w, <2>2
<1>1. ASSUME NEW f \in Frames, Inject(f)  PROVE WayTold'
  <2>1. trail' = <<>>  BY <1>1 DEF Inject, Carried
  <2> QED  BY <2>1, <1>a
<1>2. ASSUME NEW n \in Node, RelayTrace(n)  PROVE WayTold'
  <2> DEFINE q == AppendSnr(n, Heard)
  <2>1. /\ Heard # Bad /\ Relayed(n, q) /\ Writable(q) /\ Heard.path_len < MaxPathLen
        /\ q.header = Heard.header /\ q.codes = Heard.codes /\ q.payload = Heard.payload
    BY <1>2, RelayTraceHop
  <2>2. Heard' = Sent(q) /\ origin' = origin /\ trail' = Append(trail, n)
    <3> HIDE DEF q
    <3> QED  BY <2>1, Hop DEF Relayed
  <2>3. Whole(Heard) /\ Whole(origin) /\ Heard.header = origin.header /\ (trail = <<>> => origin = Heard)
    BY <2>1, HeardWhole
  <2>4. IsTrace(origin)
    <3>1. IsTrace(Heard)  BY <1>2 DEF RelayTrace
    <3> QED  BY <2>3, <3>1, SameRoute
  <2>5. TraceTold(Heard, origin, trail)  BY <2>1, <2>4 DEF WayTold, Told
  <2>6. TraceTold(Sent(q), origin, Append(trail, n))  BY <2>1, <2>3, <2>5, <1>0, TraceTells
  <2>7. Told(Heard', origin', trail')  BY <2>2, <2>4, <2>6 DEF Told
  <2> QED  BY <1>w, <2>7
<1>3. ASSUME NEW n \in Node, RelayDirect(n)  PROVE WayTold'
  <2> DEFINE q == RemoveSelf(Heard)
  <2>1. /\ Heard # Bad /\ Relayed(n, q) /\ Writable(q) /\ HashCount(Heard.path_len) > 0
        /\ q.header = Heard.header /\ q.codes = Heard.codes /\ q.payload = Heard.payload
    BY <1>3, RelayDirectHop
  <2>2. Heard' = Sent(q) /\ origin' = origin /\ trail' = Append(trail, n)
    <3> HIDE DEF q
    <3> QED  BY <2>1, Hop DEF Relayed
  <2>3. Whole(Heard) /\ Whole(origin) /\ Heard.header = origin.header  BY <2>1, HeardWhole
  <2>4. ~IsTrace(origin) /\ ~IsRouteFlood(origin)
    <3>1. ~IsTrace(Heard) /\ IsRouteDirect(Heard)  BY <1>3 DEF RelayDirect
    <3>2. ~IsTrace(origin) /\ IsRouteDirect(origin)  BY <2>3, <3>1, SameRoute
    <3> QED  BY <3>2, OneRoute
  <2>5. DirectTold(Heard, origin, trail)  BY <2>1, <2>4 DEF WayTold, Told
  <2>h. IsHashMatch(n, SubSeq(Heard.path, 1, HashSize(Heard.path_len)))  BY <1>3 DEF RelayDirect
  <2>6. DirectTold(Sent(q), origin, Append(trail, n))  BY <2>1, <2>3, <2>5, <2>h, <1>0, DirectTells
  <2>7. Told(Heard', origin', trail')  BY <2>2, <2>4, <2>6 DEF Told
  <2> QED  BY <1>w, <2>7
<1>4. ASSUME NEW n \in Node, RelayFlood(n)  PROVE WayTold'
  <2> DEFINE q == AppendSelf(n, Heard)
  <2>1. /\ Heard # Bad /\ Relayed(n, q) /\ Writable(q)
        /\ (HashCount(Heard.path_len) + 1) * HashSize(Heard.path_len) <= MaxPathLen
        /\ q.header = Heard.header /\ q.codes = Heard.codes /\ q.payload = Heard.payload
    BY <1>4, RelayFloodHop
  <2>2. Heard' = Sent(q) /\ origin' = origin /\ trail' = Append(trail, n)
    <3> HIDE DEF q
    <3> QED  BY <2>1, Hop DEF Relayed
  <2>3. Whole(Heard) /\ Whole(origin) /\ Heard.header = origin.header  BY <2>1, HeardWhole
  <2>4. ~IsTrace(origin) /\ IsRouteFlood(origin)
    <3>1. IsRouteFlood(Heard)  BY <1>4 DEF RelayFlood
    <3>2. IsRouteFlood(origin)  BY <2>3, <3>1, SameRoute
    <3> QED  BY <3>2, OneRoute
  <2>5. FloodTold(Heard, origin, trail)  BY <2>1, <2>4 DEF WayTold, Told
  <2>6. FloodTold(Sent(q), origin, Append(trail, n))
    <3>1. (HashCount(Heard.path_len) + 1) * HashSize(Heard.path_len) <= MaxPathLen  BY <2>1
    <3> QED  BY <3>1, <2>3, <2>5, <1>0, FloodTells
  <2>7. Told(Heard', origin', trail')  BY <2>2, <2>4, <2>6 DEF Told
  <2> QED  BY <1>w, <2>7
<1>5. ASSUME Quiet  PROVE WayTold'
  <2>1. Heard' = Heard /\ origin' = origin /\ trail' = trail  BY <1>5, QuietHeard
  <2> QED  BY <1>w, <2>1 DEF WayTold
<1>6. ASSUME NEW n \in Node, EndTrace(n) \/ Keep(n) \/ Forget(n)  PROVE WayTold'
  <2>1. Quiet  BY <1>6 DEF EndTrace, Keep, Forget, Quiet
  <2> QED  BY <2>1, <1>5
<1>7. ASSUME Fade  PROVE WayTold'
  <2>1. trail' = <<>>  BY <1>7 DEF Fade
  <2> QED  BY <2>1, <1>a
<1>8. ASSUME UNCHANGED vars  PROVE WayTold'
  <2>1. Quiet  BY <1>8 DEF vars, Quiet
  <2> QED  BY <2>1, <1>5
<1> QED  BY <1>1, <1>2, <1>3, <1>4, <1>6, <1>7, <1>8 DEF Next

\* What is heard tells of its way.
LEMMA TellsItsWay == Spec => []WayTold
<1>1. Init => WayTold
  <2>1. SUFFICES ASSUME Init PROVE WayTold  OBVIOUS
  <2>2. frame = <<>>  BY <2>1 DEF Init
  <2>3. Heard = Bad  BY <2>2, Silence DEF Heard
  <2> QED  BY <2>3 DEF WayTold
<1>2. Carried /\ Carried' /\ WayTold /\ [Next]_vars => WayTold'  BY WayStep
<1> QED  BY <1>1, <1>2, CarriedUnchanged, PTL DEF Spec

\* The bytes that the model says the relays left are those of the lemmas.
LEMMA HashesAre ==
  ASSUME NEW p, HashSize(p.path_len) \in 1 .. 3, trail \in Seq(Node)
  PROVE  HashesOf(p) = IF IsTrace(p) THEN SnrBytes(trail) ELSE KeyBytes(trail, HashSize(p.path_len))
<1>1. CASE IsTrace(p)
  <2>1. Len(trail) \in Nat  BY LenProperties
  <2>2. \A k \in 1 .. Len(trail) : ((k - 1) \div 1) + 1 = k  BY <2>1
  <2>3. 1 * Len(trail) = Len(trail)  BY <2>1
  <2>4. HashesOf(p) = [k \in 1 .. 1 * Len(trail) |-> SnrOf(trail[((k - 1) \div 1) + 1])]  BY <1>1 DEF HashesOf
  <2>5. HashesOf(p) = SnrBytes(trail)  BY <2>2, <2>3, <2>4 DEF SnrBytes
  <2> QED  BY <1>1, <2>5
<1>2. CASE ~IsTrace(p)
  <2>1. HashesOf(p) = KeyBytes(trail, HashSize(p.path_len))  BY <1>2 DEF HashesOf, KeyBytes
  <2> QED  BY <1>2, <2>1
<1> QED  BY <1>1, <1>2

\* The path of a packet is the record of its way: the relays' hashes, or the
\* SNR at each of them, in their order, at the end of a flood's or a TRACE's
\* path, and taken from the front of a source route; the header, the codes and
\* the payload are those of the origin (meshcore_mesh_route_recv_packet,
\* meshcore_mesh_remove_self_from_path).
THEOREM PathsTellTrails == Spec => []PathTellsTrail
<1>1. Carried /\ WayTold => PathTellsTrail
  <2>1. SUFFICES ASSUME Carried, WayTold, trail # <<>>
                 PROVE  /\ [Heard EXCEPT !.path = <<>>, !.path_len = 0] = [origin EXCEPT !.path = <<>>, !.path_len = 0]
                        /\ HashSize(Heard.path_len) = HashSize(origin.path_len) \/ ~InCount
                        /\ CASE IsTrace(origin) \/ IsRouteFlood(origin) ->
                                  InCount => Heard.path = origin.path \o HashesOf(origin)
                             [] OTHER -> HashesOf(origin) \o Heard.path = origin.path
    BY DEF PathTellsTrail
  <2>2. Heard # Bad  BY <2>1 DEF Carried
  <2>3. /\ Whole(Heard) /\ Whole(origin) /\ Heard.header = origin.header
        /\ Heard.codes = origin.codes /\ Heard.payload = origin.payload  BY <2>1, <2>2, HeardWhole
  <2>4. [Heard EXCEPT !.path = <<>>, !.path_len = 0] = [origin EXCEPT !.path = <<>>, !.path_len = 0]
    <3>1. Heard \in Packets /\ origin \in Packets  BY <2>3 DEF Whole, Writable
    <3> HIDE DEF Heard
    <3> QED  BY <2>3, <3>1 DEF Packets
  <2>5. HashSize(origin.path_len) \in 1 .. 3 /\ trail \in Seq(Node)  BY <2>1, <2>3, WholeParts DEF Carried
  <2>6. HashesOf(origin) = IF IsTrace(origin) THEN SnrBytes(trail) ELSE KeyBytes(trail, HashSize(origin.path_len))
    BY <2>5, HashesAre
  <2>7. InCount <=> Room(origin, trail)  BY DEF InCount, Room
  <2>8. Told(Heard, origin, trail)  BY <2>1, <2>2 DEF WayTold
  <2>9. CASE IsTrace(origin)
    <3>1. TraceTold(Heard, origin, trail)  BY <2>8, <2>9 DEF Told
    <3>2. InCount => Heard.path = origin.path \o HashesOf(origin)  BY <2>6, <2>7, <2>9, <3>1 DEF TraceTold
    <3>3. HashSize(Heard.path_len) = HashSize(origin.path_len) \/ ~InCount
      <4>1. SUFFICES ASSUME InCount PROVE HashSize(Heard.path_len) = HashSize(origin.path_len)  OBVIOUS
      <4>2. /\ origin.path_len < MaxPathLen /\ Heard.path_len = origin.path_len + Len(trail)
            /\ origin.path_len \in Nat /\ Heard.path_len \in Nat
        BY <2>1, <2>3, <3>1, PacketParts DEF TraceTold, Whole
      <4>3. HashCount(origin.path_len) = origin.path_len /\ HashSize(origin.path_len) = 1  BY <4>2, SmallCount
      <4>4. Heard.path_len < MaxPathLen  BY <4>1, <4>2, <4>3 DEF InCount
      <4>5. HashSize(Heard.path_len) = 1  BY <4>2, <4>4, SmallCount
      <4> QED  BY <4>3, <4>5
    <3> QED  BY <2>4, <2>9, <3>2, <3>3
  <2>10. CASE ~IsTrace(origin) /\ IsRouteFlood(origin)
    <3>1. FloodTold(Heard, origin, trail)  BY <2>8, <2>10 DEF Told
    <3>2. InCount => Heard.path = origin.path \o HashesOf(origin)  BY <2>6, <2>7, <2>10, <3>1 DEF FloodTold
    <3>3. HashSize(Heard.path_len) = HashSize(origin.path_len)  BY <3>1 DEF FloodTold
    <3> QED  BY <2>4, <2>10, <3>2, <3>3
  <2>11. CASE ~IsTrace(origin) /\ ~IsRouteFlood(origin)
    <3>1. DirectTold(Heard, origin, trail)  BY <2>8, <2>11 DEF Told
    <3>2. HashesOf(origin) \o Heard.path = origin.path  BY <2>6, <2>11, <3>1 DEF DirectTold
    <3>3. HashSize(Heard.path_len) = HashSize(origin.path_len)  BY <3>1 DEF DirectTold
    <3> QED  BY <2>4, <2>11, <3>2, <3>3
  <2> QED  BY <2>9, <2>10, <2>11
<1> QED  BY <1>1, CarriedUnchanged, TellsItsWay, PTL

---------------------------------------------------------------------------
(* A TRACE visits its list.                                                *)

\* The hashes of a TRACE are one, two, four or eight bytes wide.
LEMMA TraceWidth ==
  ASSUME NEW p, Whole(p), Len(p.payload) >= TRACE_HEAD
  PROVE  TraceSize(p) \in {1, 2, 4, 8}
<1> DEFINE x == p.payload[TRACE_HEAD]
<1>1. x \in Nat
  <2>1. p.payload \in Seq(Nat) /\ Len(p.payload) \in Nat  BY PacketParts, LenProperties DEF Whole
  <2>2. TRACE_HEAD \in 1 .. Len(p.payload)  BY <2>1 DEF TRACE_HEAD
  <2> QED  BY <2>1, <2>2, ElementOfSeq
<1>2. TraceSize(p) = 2 ^ (x % 4)  BY DEF TraceSize
<1> HIDE DEF x
<1>3. x % 4 = 0 \/ x % 4 = 1 \/ x % 4 = 2 \/ x % 4 = 3  BY <1>1
<1>4. 2 ^ 0 = 1 /\ 2 ^ 1 = 2 /\ 2 ^ 2 = 4 /\ 2 ^ 3 = 8  OBVIOUS
<1> QED  BY <1>2, <1>3, <1>4

\* A node that finds itself at an offset of the list is there, bytes and all.
LEMMA PlaceMatches ==
  ASSUME NEW n \in Node, NEW s, NEW at \in Nat, NEW size \in Nat,
         IsHashMatch(n, SubSeq(s, at + 1, at + size))
  PROVE  SubSeq(s, at + 1, at + size) = SubSeq(PubKey[n], 1, size)
<1> DEFINE S == {s[i] : i \in at + 1 .. at + size}
           e == SubSeq(s, at + 1, at + size)
<1>2. at + 1 \in Int /\ at + size \in Int /\ \A i \in at + 1 .. at + size : s[i] \in S  OBVIOUS
<1> HIDE DEF S
<1>3. Len(e) = (IF at + 1 <= at + size THEN at + size - (at + 1) + 1 ELSE 0)
  BY <1>2, SubSeqProperties
<1>4. Len(e) = size  BY <1>3
<1>5. SubSeq(PubKey[n], 1, Len(e)) = e  BY DEF IsHashMatch
<1> QED  BY <1>4, <1>5

\* The nodes of t are those of o's list, in their order.
InOrder(o, t) ==
  \A i \in DOMAIN t :
    LET at == (o.path_len + i - 1) * TraceSize(o)
    IN SubSeq(TraceHashes(o), at + 1, at + TraceSize(o)) = SubSeq(PubKey[t[i]], 1, TraceSize(o))

\* A step of TraceInOrder: only a TRACE's relay adds a node.
LEMMA TraceStep ==
  ASSUME Carried, Carried', WayTold, TraceInOrder, [Next]_vars
  PROVE  TraceInOrder'
<1>w. TraceInOrder' = (trail' # <<>> /\ IsTrace(origin') => InOrder(origin', trail'))
  BY DEF TraceInOrder, InOrder, TraceHashes, TraceSize, IsTrace, IsRouteDirect, RouteType, PayloadType
<1>v. trail # <<>> /\ IsTrace(origin) => InOrder(origin, trail)  BY DEF TraceInOrder, InOrder
<1>1. ASSUME NEW f \in Frames, Inject(f)  PROVE TraceInOrder'
  <2>1. trail' = <<>>  BY <1>1 DEF Inject, Carried
  <2> QED  BY <2>1, <1>w
<1>2. ASSUME NEW n \in Node, RelayTrace(n)  PROVE TraceInOrder'
  <2> DEFINE q == AppendSnr(n, Heard)
             size == TraceSize(origin)
             list == TraceHashes(origin)
  <2>1. /\ Heard # Bad /\ Relayed(n, q) /\ Writable(q)
        /\ q.header = Heard.header /\ q.codes = Heard.codes /\ q.payload = Heard.payload
    BY <1>2, RelayTraceHop
  <2>2. /\ origin' = origin /\ Len(trail) \in Nat /\ trail'[Len(trail) + 1] = n
        /\ DOMAIN trail = 1 .. Len(trail) /\ DOMAIN trail' = 1 .. Len(trail) + 1
        /\ \A i \in 1 .. Len(trail) : trail'[i] = trail[i]
    <3> HIDE DEF q
    <3> QED  BY <2>1, Hop DEF Relayed
  <2> HIDE DEF q
  <2>3. /\ Whole(Heard) /\ Whole(origin) /\ Heard.header = origin.header
        /\ Heard.payload = origin.payload  BY <2>1, HeardWhole
  <2>4. IsTrace(Heard) /\ IsTrace(origin)
    <3>1. IsTrace(Heard)  BY <1>2 DEF RelayTrace
    <3> QED  BY <2>3, <3>1, SameRoute
  <2>5. Heard.path_len = origin.path_len + Len(trail) /\ origin.path_len \in Nat
    BY <2>1, <2>3, <2>4, PacketParts DEF WayTold, Told, TraceTold, Whole
  <2>6. TraceSize(Heard) = size /\ TraceHashes(Heard) = list  BY <2>3 DEF TraceSize, TraceHashes
  <2>7. size \in {1, 2, 4, 8}
    <3>1. Len(origin.payload) >= TRACE_HEAD  BY <1>2, <2>3 DEF RelayTrace
    <3> QED  BY <2>3, <3>1, TraceWidth
  <2>8. IsHashMatch(n, SubSeq(list, (origin.path_len + Len(trail)) * size + 1, (origin.path_len + Len(trail)) * size + size))
    BY <1>2, <2>5, <2>6 DEF RelayTrace, TraceOffset
  <2> HIDE DEF size, list
  <2>9. SubSeq(list, (origin.path_len + Len(trail)) * size + 1, (origin.path_len + Len(trail)) * size + size)
          = SubSeq(PubKey[n], 1, size)
    <3>1. (origin.path_len + Len(trail)) * size \in Nat /\ size \in Nat  BY <2>2, <2>5, <2>7
    <3> QED  BY <2>8, <3>1, PlaceMatches
  <2>10. ASSUME NEW i \in 1 .. Len(trail) + 1
         PROVE  SubSeq(list, (origin.path_len + i - 1) * size + 1, (origin.path_len + i - 1) * size + size)
                  = SubSeq(PubKey[trail'[i]], 1, size)
    <3>1. CASE i \in 1 .. Len(trail)
      <4>1. trail # <<>>  BY <3>1, <2>2
      <4>2. InOrder(origin, trail)  BY <1>v, <2>4, <4>1
      <4> QED  BY <2>2, <3>1, <4>2 DEF InOrder, size, list
    <3>2. CASE i = Len(trail) + 1
      <4>1. origin.path_len + i - 1 = origin.path_len + Len(trail)  BY <2>2, <2>5, <3>2
      <4>2. trail'[i] = n  BY <2>2, <3>2
      <4> QED  BY <2>9, <4>1, <4>2
    <3>3. Len(trail) \in Nat  BY <2>2
    <3>4. i \in 1 .. Len(trail) \/ i = Len(trail) + 1  BY <3>3
    <3> QED  BY <3>1, <3>2, <3>4
  <2>11. InOrder(origin', trail')  BY <2>2, <2>10 DEF InOrder, size, list
  <2> QED  BY <1>w, <2>11
<1>3. ASSUME NEW n \in Node, RelayDirect(n)  PROVE TraceInOrder'
  <2>1. ~IsTrace(Heard) /\ Heard # Bad /\ origin' = origin  BY <1>3 DEF RelayDirect, Retransmit
  <2>2. Heard.header = origin.header  BY <2>1, HeardWhole
  <2>3. ~IsTrace(origin')  BY <2>1, <2>2, SameRoute
  <2> QED  BY <1>w, <2>3
<1>4. ASSUME NEW n \in Node, RelayFlood(n)  PROVE TraceInOrder'
  <2>1. IsRouteFlood(Heard) /\ Heard # Bad /\ origin' = origin  BY <1>4 DEF RelayFlood, Retransmit
  <2>2. Heard.header = origin.header  BY <2>1, HeardWhole
  <2>3. ~IsTrace(origin')  BY <2>1, <2>2, SameRoute, OneRoute
  <2> QED  BY <1>w, <2>3
<1>5. ASSUME Quiet  PROVE TraceInOrder'
  <2>1. Heard' = Heard /\ origin' = origin /\ trail' = trail  BY <1>5, QuietHeard
  <2> QED  BY <1>w, <1>v, <2>1
<1>6. ASSUME NEW n \in Node, EndTrace(n) \/ Keep(n) \/ Forget(n)  PROVE TraceInOrder'
  <2>1. Quiet  BY <1>6 DEF EndTrace, Keep, Forget, Quiet
  <2> QED  BY <2>1, <1>5
<1>7. ASSUME Fade  PROVE TraceInOrder'
  <2>1. trail' = <<>>  BY <1>7 DEF Fade
  <2> QED  BY <2>1, <1>w
<1>8. ASSUME UNCHANGED vars  PROVE TraceInOrder'
  <2>1. Quiet  BY <1>8 DEF vars, Quiet
  <2> QED  BY <2>1, <1>5
<1> QED  BY <1>1, <1>2, <1>3, <1>4, <1>6, <1>7, <1>8 DEF Next

\* A TRACE visits the nodes of its list, those only and in the list's order:
\* the count of SNR bytes in the path, which the relays keep, is the place in
\* the list (meshcore_mesh_on_recv_packet, the TRACE branch).
THEOREM TracesKeepOrder == Spec => []TraceInOrder
<1>1. Init => TraceInOrder  BY DEF Init, TraceInOrder
<1>2. Carried /\ Carried' /\ WayTold /\ TraceInOrder /\ [Next]_vars => TraceInOrder'  BY TraceStep
<1> QED  BY <1>1, <1>2, CarriedUnchanged, TellsItsWay, PTL DEF Spec

---------------------------------------------------------------------------
(* A flood makes no more hops than its relays allow.                       *)

\* Every repeater of t found fewer hops than its limit in the path.
WithinLimits(o, t) ==
  \A i \in DOMAIN t :
    Policy[t[i]].role = "repeater" => HashCount(o.path_len) + i - 1 < Policy[t[i]].flood_max

\* A step of HopLimit: only a flood's relay adds a node, and the path, which
\* tells the way, has told it how many came before.
LEMMA LimitStep ==
  ASSUME Carried, Carried', WayTold, HopLimit, [Next]_vars
  PROVE  HopLimit'
<1>w. HopLimit' = (trail' # <<>> /\ IsRouteFlood(origin') /\ Room(origin', trail') => WithinLimits(origin', trail'))
  BY DEF HopLimit, WithinLimits, Room, InCount, HashCount, IsRouteFlood, RouteType
<1>v. trail # <<>> /\ IsRouteFlood(origin) /\ Room(origin, trail) => WithinLimits(origin, trail)
  BY DEF HopLimit, WithinLimits, Room, InCount
<1>t. trail \in Seq(Node)  BY DEF Carried
<1>1. ASSUME NEW f \in Frames, Inject(f)  PROVE HopLimit'
  <2>1. trail' = <<>>  BY <1>1 DEF Inject, Carried
  <2> QED  BY <2>1, <1>w
<1>2. ASSUME NEW n \in Node, RelayTrace(n)  PROVE HopLimit'
  <2>1. IsTrace(Heard) /\ Heard # Bad /\ origin' = origin  BY <1>2 DEF RelayTrace, Retransmit
  <2>2. Heard.header = origin.header  BY <2>1, HeardWhole
  <2>3. ~IsRouteFlood(origin')  BY <2>1, <2>2, SameRoute, OneRoute
  <2> QED  BY <1>w, <2>3
<1>3. ASSUME NEW n \in Node, RelayDirect(n)  PROVE HopLimit'
  <2>1. IsRouteDirect(Heard) /\ Heard # Bad /\ origin' = origin  BY <1>3 DEF RelayDirect, Retransmit
  <2>2. Heard.header = origin.header  BY <2>1, HeardWhole
  <2>3. ~IsRouteFlood(origin')  BY <2>1, <2>2, SameRoute, OneRoute
  <2> QED  BY <1>w, <2>3
<1>4. ASSUME NEW n \in Node, RelayFlood(n)  PROVE HopLimit'
  <2> DEFINE q == AppendSelf(n, Heard)
             count == HashCount(origin.path_len)
  <2>1. /\ Heard # Bad /\ Relayed(n, q) /\ Writable(q) /\ MayRoute(n, Heard)
        /\ q.header = Heard.header /\ q.codes = Heard.codes /\ q.payload = Heard.payload
    BY <1>4, RelayFloodHop
  <2>2. /\ origin' = origin /\ Len(trail) \in Nat /\ trail'[Len(trail) + 1] = n /\ trail' = Append(trail, n)
        /\ DOMAIN trail = 1 .. Len(trail) /\ DOMAIN trail' = 1 .. Len(trail) + 1
        /\ \A i \in 1 .. Len(trail) : trail'[i] = trail[i]
    <3> HIDE DEF q
    <3> QED  BY <2>1, Hop DEF Relayed
  <2> HIDE DEF q
  <2>3. Whole(Heard) /\ Whole(origin) /\ Heard.header = origin.header  BY <2>1, HeardWhole
  <2>4. IsRouteFlood(Heard) /\ IsRouteFlood(origin) /\ ~IsTrace(origin)
    <3>1. IsRouteFlood(Heard)  BY <1>4 DEF RelayFlood
    <3>2. IsRouteFlood(origin)  BY <2>3, <3>1, SameRoute
    <3> QED  BY <3>1, <3>2, OneRoute
  <2>5. FloodTold(Heard, origin, trail)  BY <2>1, <2>4 DEF WayTold, Told
  <2>6. ASSUME Room(origin', trail')  PROVE WithinLimits(origin', trail')
    <3>1. Room(origin, Append(trail, n))  BY <2>2, <2>6
    <3>2. Room(origin, trail)  BY <3>1, <2>3, <1>t, RoomBefore
    <3>3. HashCount(Heard.path_len) = count + Len(trail)  BY <2>5, <3>2 DEF FloodTold
    <3>4. Policy[n].role = "repeater" => count + Len(trail) < Policy[n].flood_max
      BY <2>1, <2>4, <3>3 DEF MayRoute, AllowForward
    <3>5. count \in Nat  BY <2>3, WholeParts
    <3> HIDE DEF count
    <3>6. ASSUME NEW i \in 1 .. Len(trail) + 1
          PROVE  Policy[trail'[i]].role = "repeater" => count + i - 1 < Policy[trail'[i]].flood_max
      <4>1. CASE i \in 1 .. Len(trail)
        <5>1. trail # <<>>  BY <4>1, <2>2
        <5>2. WithinLimits(origin, trail)  BY <1>v, <2>4, <3>2, <5>1
        <5> QED  BY <2>2, <4>1, <5>2 DEF WithinLimits, count
      <4>2. CASE i = Len(trail) + 1
        <5>1. count + i - 1 = count + Len(trail) /\ trail'[i] = n  BY <2>2, <3>5, <4>2
        <5> QED  BY <3>4, <5>1
      <4>3. Len(trail) \in Nat  BY <2>2
      <4>4. i \in 1 .. Len(trail) \/ i = Len(trail) + 1  BY <4>3
      <4> QED  BY <4>1, <4>2, <4>4
    <3> QED  BY <2>2, <3>6 DEF WithinLimits, count
  <2> QED  BY <1>w, <2>6
<1>5. ASSUME Quiet  PROVE HopLimit'
  <2>1. Heard' = Heard /\ origin' = origin /\ trail' = trail  BY <1>5, QuietHeard
  <2> QED  BY <1>w, <1>v, <2>1
<1>6. ASSUME NEW n \in Node, EndTrace(n) \/ Keep(n) \/ Forget(n)  PROVE HopLimit'
  <2>1. Quiet  BY <1>6 DEF EndTrace, Keep, Forget, Quiet
  <2> QED  BY <2>1, <1>5
<1>7. ASSUME Fade  PROVE HopLimit'
  <2>1. trail' = <<>>  BY <1>7 DEF Fade
  <2> QED  BY <2>1, <1>w
<1>8. ASSUME UNCHANGED vars  PROVE HopLimit'
  <2>1. Quiet  BY <1>8 DEF vars, Quiet
  <2> QED  BY <2>1, <1>5
<1> QED  BY <1>1, <1>2, <1>3, <1>4, <1>6, <1>7, <1>8 DEF Next

\* The k-th relay of a flood counts the k - 1 hops before it, and a repeater
\* that is not below its flood_max does not relay
\* (meshcore_runtime_protocol_allow_packet_forward).
THEOREM HopsAreLimited == Spec => []HopLimit
<1>1. Init => HopLimit  BY DEF Init, HopLimit
<1>2. Carried /\ Carried' /\ WayTold /\ HopLimit /\ [Next]_vars => HopLimit'  BY LimitStep
<1> QED  BY <1>1, <1>2, CarriedUnchanged, TellsItsWay, PTL DEF Spec

---------------------------------------------------------------------------
(* No node has seen a TRACE before it is its turn.                         *)

\* The key of a TRACE holds its path length, and every node that remembers the
\* packet heard it with a shorter path.
SeenShorter == Heard # Bad /\ IsTrace(Heard) => \A s \in seen : s[2][2] \in 0 .. Heard.path_len - 1

\* The place of the path length in a key
LEMMA KeyLength ==
  ASSUME NEW n, NEW p, IsTrace(p)
  PROVE  <<n, CalculateHash(p)>>[2][2] = p.path_len
BY DEF CalculateHash, IsTrace

\* A TRACE is none of the packets that a node keeps to itself.
LEMMA TraceNotKept ==
  ASSUME NEW n, NEW p, IsTrace(p)
  PROVE  ~Admissible(n, p)
BY DEF IsTrace, Admissible, PAYLOAD_TYPE_TRACE, PAYLOAD_TYPE_ACK, DATAGRAM, PAYLOAD_TYPE_ANON_REQ, GROUP,
       PAYLOAD_TYPE_ADVERT

\* A step of SeenShorter: the relay of a TRACE remembers it and makes its path
\* longer by one.
LEMMA SeenStep ==
  ASSUME Carried, Carried', SeenShorter, [Next]_vars
  PROVE  SeenShorter'
<1>w. SeenShorter' = (Heard' # Bad /\ IsTrace(Heard') => \A s \in seen' : s[2][2] \in 0 .. Heard'.path_len - 1)
  BY DEF SeenShorter, IsTrace, IsRouteDirect, RouteType, PayloadType
<1>1. ASSUME NEW f \in Frames, Inject(f)  PROVE SeenShorter'
  <2>1. seen' = {}  BY <1>1 DEF Inject, Carried
  <2> QED  BY <2>1, <1>w
<1>2. ASSUME NEW n \in Node, RelayTrace(n)  PROVE SeenShorter'
  <2> DEFINE q == AppendSnr(n, Heard)
             s1 == <<n, CalculateHash(Heard)>>
  <2>1. /\ Heard # Bad /\ Relayed(n, q) /\ Writable(q) /\ Heard.path_len < MaxPathLen
        /\ q.header = Heard.header /\ q.codes = Heard.codes /\ q.payload = Heard.payload
    BY <1>2, RelayTraceHop
  <2>2. Heard' = Sent(q)
    <3> HIDE DEF q
    <3> QED  BY <2>1, Hop
  <2>3. Whole(Heard)  BY <2>1, HeardWhole
  <2>4. q.path_len = Heard.path_len + 1 /\ Heard.path_len \in Nat
    <3> DEFINE p == Heard
    <3>1. Whole(p) /\ p.path_len < MaxPathLen /\ q = AppendSnr(n, p)  BY <2>1, <2>3
    <3> HIDE DEF p, q
    <3>2. q.path_len = p.path_len + 1
      <4>1. OneReadingMore(n, p, q)  BY <3>1, SnrAppended, ZenonT(30)
      <4> QED  BY <4>1 DEF OneReadingMore
    <3>3. Writable(p)  BY <3>1 DEF Whole
    <3>4. p.path_len \in Nat  BY <3>3, PacketParts
    <3> QED  BY <3>2, <3>4 DEF p
  <2>5. Heard'.path_len = Heard.path_len + 1
    <3> HIDE DEF q
    <3> QED  BY <2>2, <2>4, SentFields
  <2>6. IsTrace(Heard) /\ seen' = seen \cup {s1}  BY <1>2 DEF RelayTrace, Remember
  <2>7. s1[2][2] = Heard.path_len  BY <2>6, KeyLength
  <2> HIDE DEF q, s1
  <2>8. ASSUME NEW s \in seen'  PROVE s[2][2] \in 0 .. (Heard.path_len + 1) - 1
    <3>1. CASE s \in seen
      <4>1. s[2][2] \in 0 .. Heard.path_len - 1  BY <2>1, <2>6, <3>1 DEF SeenShorter
      <4> QED  BY <2>4, <4>1
    <3>2. CASE s = s1  BY <2>4, <2>7, <3>2
    <3> QED  BY <2>6, <3>1, <3>2
  <2> QED  BY <1>w, <2>5, <2>8
<1>3. ASSUME NEW n \in Node, RelayDirect(n)  PROVE SeenShorter'
  <2> DEFINE q == RemoveSelf(Heard)
  <2>1. /\ Heard # Bad /\ Relayed(n, q) /\ Writable(q)
        /\ q.header = Heard.header /\ q.codes = Heard.codes /\ q.payload = Heard.payload
    BY <1>3, RelayDirectHop
  <2>2. ~IsTrace(Heard)  BY <1>3 DEF RelayDirect
  <2> HIDE DEF q
  <2>3. Heard'.header = Heard.header  BY <2>1, Hop, SentFields
  <2>4. ~IsTrace(Heard')  BY <2>2, <2>3, SameRoute
  <2> QED  BY <1>w, <2>4
<1>4. ASSUME NEW n \in Node, RelayFlood(n)  PROVE SeenShorter'
  <2> DEFINE q == AppendSelf(n, Heard)
  <2>1. /\ Heard # Bad /\ Relayed(n, q) /\ Writable(q)
        /\ q.header = Heard.header /\ q.codes = Heard.codes /\ q.payload = Heard.payload
    BY <1>4, RelayFloodHop
  <2>2. ~IsTrace(Heard)  BY <1>4, OneRoute DEF RelayFlood
  <2> HIDE DEF q
  <2>3. Heard'.header = Heard.header  BY <2>1, Hop, SentFields
  <2>4. ~IsTrace(Heard')  BY <2>2, <2>3, SameRoute
  <2> QED  BY <1>w, <2>4
<1>5. ASSUME Quiet, seen' \subseteq seen  PROVE SeenShorter'
  <2>1. Heard' = Heard  BY <1>5, QuietHeard
  <2> QED  BY <1>w, <1>5, <2>1 DEF SeenShorter
<1>6. ASSUME NEW n \in Node, EndTrace(n) \/ Forget(n)  PROVE SeenShorter'
  <2>1. Quiet /\ seen' \subseteq seen  BY <1>6 DEF EndTrace, Forget, Quiet
  <2> QED  BY <2>1, <1>5
<1>7. ASSUME NEW n \in Node, Keep(n)  PROVE SeenShorter'
  <2>1. Quiet /\ Admissible(n, Heard)  BY <1>7 DEF Keep, Quiet
  <2>2. ~IsTrace(Heard') /\ Heard' = Heard  BY <2>1, QuietHeard, TraceNotKept
  <2> QED  BY <1>w, <2>2
<1>8. ASSUME Fade  PROVE SeenShorter'
  <2>1. seen' = {}  BY <1>8 DEF Fade
  <2> QED  BY <2>1, <1>w
<1>9. ASSUME UNCHANGED vars  PROVE SeenShorter'
  <2>1. Quiet /\ seen' \subseteq seen  BY <1>9 DEF vars, Quiet
  <2> QED  BY <2>1, <1>5
<1> QED  BY <1>1, <1>2, <1>3, <1>4, <1>6, <1>7, <1>8, <1>9 DEF Next

\* The same node may be in a TRACE's list twice, there and back, and its
\* seen-table does not take the frame that comes back for the one that it
\* relayed, since the path length is part of the key
\* (meshcore_packet_calculate_hash).
THEOREM TracesComeBack == Spec => []TraceNotSeen
<1>1. Init => SeenShorter  BY DEF Init, SeenShorter
<1>2. Carried /\ Carried' /\ SeenShorter /\ [Next]_vars => SeenShorter'  BY SeenStep
<1>3. Carried /\ SeenShorter => TraceNotSeen
  <2>1. SUFFICES ASSUME Carried, SeenShorter, Heard # Bad, IsTrace(Heard), NEW n \in Node, HasSeen(n, Heard)
                 PROVE  FALSE
    BY DEF TraceNotSeen
  <2>2. Heard.path_len \in 0 .. Heard.path_len - 1
    <3>1. <<n, CalculateHash(Heard)>> \in seen  BY <2>1 DEF HasSeen
    <3>2. <<n, CalculateHash(Heard)>>[2][2] \in 0 .. Heard.path_len - 1  BY <2>1, <3>1 DEF SeenShorter
    <3> QED  BY <2>1, <3>2, KeyLength
  <2>3. Heard.path_len \in Nat  BY <2>1, HeardWhole, PacketParts DEF Whole
  <2> QED  BY <2>2, <2>3
<1> QED  BY <1>1, <1>2, <1>3, CarriedUnchanged, PTL DEF Spec

---------------------------------------------------------------------------
(* Floods end.                                                             *)

\* Two packets that differ in their path only are for the same node.
LEMMA SameParty ==
  ASSUME NEW n, NEW p, NEW o, p.header = o.header, p.payload = o.payload
  PROVE  Opens(n, p) <=> Opens(n, o)
BY SameRoute DEF Opens, Party

\* The nodes that opened a flood are those it is for, and they relayed nothing.
ForOpeners ==
  Heard # Bad /\ IsRouteFlood(origin) =>
    /\ \A m \in opened : Opens(m, origin)
    /\ \A i \in DOMAIN trail : ~Opens(trail[i], origin)

\* A step of ForOpeners: a node that opens a flood marks it, and does not pass
\* it on.
LEMMA OpenersStep ==
  ASSUME Carried, Carried', ForOpeners, [Next]_vars
  PROVE  ForOpeners'
<1>w. ForOpeners' = (Heard' # Bad /\ IsRouteFlood(origin') =>
                       /\ \A m \in opened' : Opens(m, origin')
                       /\ \A i \in DOMAIN trail' : ~Opens(trail'[i], origin'))
  BY DEF ForOpeners, IsRouteFlood, RouteType, Opens, Party, PayloadType
<1>d. trail \in Seq(Node) /\ DOMAIN trail = 1 .. Len(trail)  BY LenProperties DEF Carried
<1>1. ASSUME NEW f \in Frames, Inject(f)  PROVE ForOpeners'
  <2>1. trail' = <<>> /\ opened' = {}  BY <1>1 DEF Inject, Carried
  <2>2. DOMAIN trail' = {}  BY <2>1
  <2> QED  BY <2>1, <2>2, <1>w
<1>2. ASSUME NEW n \in Node, RelayTrace(n)  PROVE ForOpeners'
  <2>1. IsTrace(Heard) /\ Heard # Bad /\ origin' = origin  BY <1>2 DEF RelayTrace, Retransmit
  <2>2. Heard.header = origin.header  BY <2>1, HeardWhole
  <2>3. ~IsRouteFlood(origin')  BY <2>1, <2>2, SameRoute, OneRoute
  <2> QED  BY <1>w, <2>3
<1>3. ASSUME NEW n \in Node, RelayDirect(n)  PROVE ForOpeners'
  <2>1. IsRouteDirect(Heard) /\ Heard # Bad /\ origin' = origin  BY <1>3 DEF RelayDirect, Retransmit
  <2>2. Heard.header = origin.header  BY <2>1, HeardWhole
  <2>3. ~IsRouteFlood(origin')  BY <2>1, <2>2, SameRoute, OneRoute
  <2> QED  BY <1>w, <2>3
<1>4. ASSUME NEW n \in Node, RelayFlood(n)  PROVE ForOpeners'
  <2> DEFINE q == AppendSelf(n, Heard)
  <2>1. /\ Heard # Bad /\ Relayed(n, q) /\ Writable(q) /\ ~Opens(n, Heard)
        /\ q.header = Heard.header /\ q.codes = Heard.codes /\ q.payload = Heard.payload
    BY <1>4, RelayFloodHop
  <2> HIDE DEF q
  <2>2. /\ origin' = origin /\ Len(trail) \in Nat /\ trail'[Len(trail) + 1] = n
        /\ DOMAIN trail' = 1 .. Len(trail) + 1
        /\ \A i \in 1 .. Len(trail) : trail'[i] = trail[i]
    BY <2>1, Hop DEF Relayed
  <2>3. Heard.header = origin.header /\ Heard.payload = origin.payload  BY <2>1, HeardWhole
  <2>4. IsRouteFlood(origin)
    <3>1. IsRouteFlood(Heard)  BY <1>4 DEF RelayFlood
    <3> QED  BY <2>3, <3>1, SameRoute
  <2>5. opened' = opened  BY <1>4, <2>1 DEF RelayFlood, Open
  <2>6. (\A m \in opened : Opens(m, origin)) /\ (\A i \in 1 .. Len(trail) : ~Opens(trail[i], origin))
    BY <1>d, <2>1, <2>4 DEF ForOpeners
  <2>7. ~Opens(n, origin)  BY <2>1, <2>3, SameParty
  <2>8. ASSUME NEW i \in 1 .. Len(trail) + 1  PROVE ~Opens(trail'[i], origin)
    <3>1. CASE i \in 1 .. Len(trail)  BY <2>2, <2>6, <3>1
    <3>2. CASE i = Len(trail) + 1  BY <2>2, <2>7, <3>2
    <3>3. Len(trail) \in Nat  BY <2>2
    <3>4. i \in 1 .. Len(trail) \/ i = Len(trail) + 1  BY <3>3
    <3> QED  BY <3>1, <3>2, <3>4
  <2> QED  BY <1>w, <2>2, <2>5, <2>6, <2>8
<1>5. ASSUME NEW n \in Node, Keep(n)  PROVE ForOpeners'
  <2>1. Quiet /\ Heard # Bad  BY <1>5 DEF Keep, Quiet
  <2>2. Heard' = Heard /\ origin' = origin /\ trail' = trail  BY <2>1, QuietHeard
  <2>3. Heard.header = origin.header /\ Heard.payload = origin.payload  BY <2>1, HeardWhole
  <2>4. ASSUME NEW m \in opened', m \notin opened  PROVE Opens(m, origin)
    <3>1. m = n /\ Opens(n, Heard)  BY <1>5, <2>4 DEF Keep, Open
    <3> QED  BY <2>3, <3>1, SameParty
  <2> QED  BY <1>w, <2>1, <2>2, <2>4 DEF ForOpeners
<1>6. ASSUME Quiet, opened' = opened  PROVE ForOpeners'
  <2>1. Heard' = Heard /\ origin' = origin /\ trail' = trail  BY <1>6, QuietHeard
  <2> QED  BY <1>w, <1>6, <2>1 DEF ForOpeners
<1>7. ASSUME NEW n \in Node, EndTrace(n)  PROVE ForOpeners'
  <2>1. IsTrace(Heard) /\ Heard # Bad /\ origin' = origin  BY <1>7 DEF EndTrace
  <2>2. Heard.header = origin.header  BY <2>1, HeardWhole
  <2>3. ~IsRouteFlood(origin')  BY <2>1, <2>2, SameRoute, OneRoute
  <2> QED  BY <1>w, <2>3
<1>8. ASSUME NEW n \in Node, Forget(n)  PROVE ForOpeners'
  <2>1. Quiet /\ opened' = opened  BY <1>8 DEF Forget, Quiet
  <2> QED  BY <2>1, <1>6
<1>9. ASSUME Fade  PROVE ForOpeners'
  <2>1. trail' = <<>> /\ opened' = {}  BY <1>9 DEF Fade
  <2>2. DOMAIN trail' = {}  BY <2>1
  <2> QED  BY <2>1, <2>2, <1>w
<1>10. ASSUME UNCHANGED vars  PROVE ForOpeners'
  <2>1. Quiet /\ opened' = opened  BY <1>10 DEF vars, Quiet
  <2> QED  BY <2>1, <1>6
<1> QED  BY <1>1, <1>2, <1>3, <1>4, <1>5, <1>7, <1>8, <1>9, <1>10 DEF Next

\* A relay's hash is where its place among the relays says.
LEMMA OwnHash ==
  ASSUME NEW a \in Seq(Nat), NEW t \in Seq(Node), NEW size \in 1 .. 3, NEW c \in Nat, Len(a) = size * c,
         NEW i \in 1 .. Len(t), NEW m \in 1 .. size
  PROVE  SubSeq(a \o KeyBytes(t, size), (c + i - 1) * size + 1, (c + i - 1) * size + m) = SubSeq(PubKey[t[i]], 1, m)
<1> DEFINE b == KeyBytes(t, size)
           key == SubSeq(PubKey[t[i]], 1, m)
           at == (c + i - 1) * size
<1>1. Len(t) \in Nat /\ t[i] \in Node  BY LenProperties, ElementOfSeq
<1>2. /\ b \in Seq(Nat) /\ Len(b) = size * Len(t)
      /\ \A k \in 1 .. size * Len(t) : b[k] = PubKey[t[((k - 1) \div size) + 1]][((k - 1) % size) + 1]
  BY KeyBytesType
<1>m. m \in 1 .. 3  OBVIOUS
<1>3. key \in Seq(Nat) /\ Len(key) = m /\ \A k \in 1 .. m : key[k] = PubKey[t[i]][k]  BY <1>1, <1>m, KeyPart
<1>a. at = (c + i - 1) * size  OBVIOUS
<1> HIDE DEF b, key, at
<1>4. /\ a \o b \in Seq(Nat) /\ Len(a \o b) = Len(a) + Len(b)
      /\ \A k \in 1 .. Len(a) + Len(b) : (a \o b)[k] = IF k <= Len(a) THEN a[k] ELSE b[k - Len(a)]
  BY <1>2, ConcatProperties
<1>5. /\ at \in Nat /\ at = size * c + size * (i - 1) /\ size * c \in Nat /\ size * (i - 1) \in Nat
      /\ size * Len(t) \in Nat /\ size * (i - 1) + size <= size * Len(t)
  <2>1. CASE size = 1  BY <1>1, <1>a, <2>1
  <2>2. CASE size = 2  BY <1>1, <1>a, <2>2
  <2>3. CASE size = 3  BY <1>1, <1>a, <2>3
  <2> QED  BY <2>1, <2>2, <2>3
<1>6. ASSUME NEW k \in 1 .. m
      PROVE  /\ at + k \in 1 .. Len(a) + Len(b) /\ (a \o b)[at + k] = key[k]
  <2> DEFINE e == size * (i - 1) + k
  <2>1. at + k \in 1 .. Len(a) + Len(b) /\ ~(at + k <= Len(a)) /\ (at + k) - Len(a) = e
    BY <1>2, <1>5
  <2>2. e \in 1 .. size * Len(t)  BY <1>5
  <2>3. ((e - 1) \div size) + 1 = i /\ ((e - 1) % size) + 1 = k
    <3>1. CASE size = 1  BY <1>1, <3>1
    <3>2. CASE size = 2  BY <1>1, <3>2
    <3>3. CASE size = 3  BY <1>1, <3>3
    <3> QED  BY <3>1, <3>2, <3>3
  <2> HIDE DEF e
  <2>4. (a \o b)[at + k] = b[e]  BY <1>4, <2>1
  <2>5. b[e] = PubKey[t[((e - 1) \div size) + 1]][((e - 1) % size) + 1]  BY <1>2, <2>2
  <2> QED  BY <1>3, <2>1, <2>3, <2>4, <2>5
<1>7. SubSeq(a \o b, at + 1, at + m) = key
  <2>1. at + 1 \in Nat \ {0} /\ at + m \in Nat /\ m = (at + m) - (at + 1) + 1  BY <1>5
  <2>2. at + m <= Len(a \o b)  BY <1>2, <1>4, <1>5, <1>6
  <2>3. ASSUME NEW k \in 1 .. Len(key)  PROVE (a \o b)[(at + 1) + k - 1] = key[k]
    <3>1. k \in 1 .. m /\ (at + 1) + k - 1 = at + k  BY <1>3, <1>5
    <3> QED  BY <1>6, <3>1
  <2>4. Len(key) = (at + m) - (at + 1) + 1  BY <1>3, <2>1
  <2> HIDE <1>6
  <2> DEFINE from == at + 1
             to == at + m
  <2>5. from \in Nat \ {0} /\ to \in Nat /\ to <= Len(a \o b) /\ Len(key) = to - from + 1  BY <2>1, <2>2, <2>4
  <2>6. \A k \in 1 .. Len(key) : (a \o b)[from + k - 1] = key[k]  BY <2>3
  <2> HIDE DEF from, to
  <2>7. SubSeq(a \o b, from, to) = key  BY <1>3, <1>4, <2>5, <2>6, PartIs
  <2> QED  BY <2>7 DEF from, to
<1> QED  BY <1>7 DEF b, key, at

\* How often n is in t
VisitsOf(n, t) == Cardinality({i \in DOMAIN t : t[i] = n})

\* One more relay is one visit more of that relay, and of no other.
LEMMA VisitsGrow ==
  ASSUME NEW t \in Seq(Node), NEW n \in Node, NEW m \in Node
  PROVE  /\ VisitsOf(m, t) \in Nat
         /\ VisitsOf(m, Append(t, n)) = IF m = n THEN VisitsOf(m, t) + 1 ELSE VisitsOf(m, t)
         /\ t = <<>> => VisitsOf(m, t) = 0
<1> DEFINE u == Append(t, n)
           V == {i \in DOMAIN t : t[i] = m}
           W == {i \in DOMAIN u : u[i] = m}
<1>1. Len(t) \in Nat /\ DOMAIN t = 1 .. Len(t)  BY LenProperties
<1>2. /\ DOMAIN u = 1 .. Len(t) + 1 /\ u[Len(t) + 1] = n
      /\ \A i \in 1 .. Len(t) : u[i] = t[i]
  <2>1. /\ u \in Seq(Node) /\ Len(u) = Len(t) + 1 /\ u[Len(t) + 1] = n
        /\ \A i \in 1 .. Len(t) : u[i] = t[i]  BY AppendProperties
  <2>2. DOMAIN u = 1 .. Len(u)  BY <2>1, LenProperties
  <2> QED  BY <2>1, <2>2
<1>3. VisitsOf(m, t) = Cardinality(V) /\ VisitsOf(m, u) = Cardinality(W)  BY DEF VisitsOf
<1>4. V \in SUBSET (1 .. Len(t))  BY <1>1
<1>5. 1 .. Len(t) + 1 = (1 .. Len(t)) \cup {Len(t) + 1} /\ Len(t) + 1 \notin 1 .. Len(t)  BY <1>1
<1>6. Len(t) + 1 \notin V  BY <1>4, <1>5
<1>7. W = IF m = n THEN V \cup {Len(t) + 1} ELSE V  BY <1>1, <1>2, <1>5
<1>8. t = <<>> => V = {}  OBVIOUS
<1> HIDE DEF V, W, u
<1>9. IsFiniteSet(V) /\ Cardinality(V) \in Nat
  <2>1. IsFiniteSet(1 .. Len(t))  BY <1>1, FS_Interval
  <2>2. IsFiniteSet(V)  BY <1>4, <2>1, FS_Subset
  <2> QED  BY <2>2, FS_CardinalityType
<1>10. Cardinality(V \cup {Len(t) + 1}) = Cardinality(V) + 1  BY <1>6, <1>9, FS_AddElement
<1>11. t = <<>> => Cardinality(V) = 0  BY <1>8, FS_EmptySet
<1>12. VisitsOf(m, u) = IF m = n THEN VisitsOf(m, t) + 1 ELSE VisitsOf(m, t)  BY <1>3, <1>7, <1>10
<1> QED  BY <1>3, <1>9, <1>11, <1>12 DEF u

\* As many bytes of a hash are compared as there are beside the SNR.
LEMMA MatchPart ==
  ASSUME NEW o, Whole(o), MatchLen(o) > 0
  PROVE  MatchLen(o) \in 1 .. HashSize(o.path_len)
<1>1. HashSize(o.path_len) \in 1 .. 3  BY WholeParts
<1>2. MatchLen(o) = HashSize(o.path_len) \/ MatchLen(o) = HashSize(o.path_len) - 1  BY DEF MatchLen, Stride
<1> QED  BY <1>1, <1>2

\* The path of a flood has a hash that matches for every visit.
LEMMA VisitsMatch ==
  ASSUME NEW p, Whole(p), NEW o, Whole(o), NEW t \in Seq(Node), NEW n \in Node,
         FloodTold(p, o, t), Room(o, t), MatchLen(p) = MatchLen(o), MatchLen(o) > 0
  PROVE  LET M == {j \in 1 .. HashCount(p.path_len) : IsHashMatch(n, HashAt(p, j))}
         IN VisitsOf(n, t) <= Cardinality(M) /\ Cardinality(M) \in Nat
<1> DEFINE size == HashSize(o.path_len)
           c == HashCount(o.path_len)
           m == MatchLen(o)
           M == {j \in 1 .. HashCount(p.path_len) : IsHashMatch(n, HashAt(p, j))}
           V == {i \in DOMAIN t : t[i] = n}
           f == [i \in V |-> c + i]
<1>1. /\ HashSize(p.path_len) = size /\ HashCount(p.path_len) = c + Len(t)
      /\ p.path = o.path \o KeyBytes(t, size)
  BY DEF FloodTold
<1>2. size \in 1 .. 3 /\ c \in Nat /\ o.path \in Seq(Nat) /\ Len(o.path) = size * c  BY WholeParts
<1>3. m \in 1 .. size /\ MatchLen(p) = m  BY MatchPart
<1>4. Len(t) \in Nat /\ DOMAIN t = 1 .. Len(t)  BY LenProperties
<1> HIDE DEF size, c, m
<1>5. ASSUME NEW i \in V  PROVE c + i \in M
  <2>1. i \in 1 .. Len(t) /\ t[i] = n  BY <1>4
  <2>2. SubSeq(o.path \o KeyBytes(t, size), (c + i - 1) * size + 1, (c + i - 1) * size + m) = SubSeq(PubKey[t[i]], 1, m)
    BY <1>2, <1>3, <2>1, OwnHash
  <2>h. HashAt(p, c + i) = SubSeq(p.path, (c + i - 1) * size + 1, (c + i - 1) * size + m)
    <3>1. HashSize(p.path_len) = size /\ MatchLen(p) = m  BY <1>1, <1>3
    <3>2. HashAt(p, c + i) = SubSeq(p.path, ((c + i) - 1) * size + 1, ((c + i) - 1) * size + m)
      BY <3>1 DEF HashAt, Stride
    <3>3. (c + i) - 1 = c + i - 1  BY <1>2, <2>1
    <3> QED  BY <3>2, <3>3
  <2>3. HashAt(p, c + i) = SubSeq(PubKey[n], 1, m)  BY <1>1, <2>h, <2>1, <2>2
  <2>4. Len(SubSeq(PubKey[n], 1, m)) = m
    <3>1. m \in 1 .. 3  BY <1>2, <1>3
    <3> QED  BY <3>1, KeyPart
  <2>5. IsHashMatch(n, HashAt(p, c + i))  BY <2>3, <2>4 DEF IsHashMatch
  <2>6. c + i \in 1 .. HashCount(p.path_len)  BY <1>1, <1>2, <1>4, <2>1
  <2> QED  BY <2>5, <2>6
<1>6. IsFiniteSet(M)
  <2>1. M \in SUBSET (1 .. HashCount(p.path_len))  OBVIOUS
  <2>2. HashCount(p.path_len) \in Nat  BY <1>1, <1>2, <1>4
  <2>3. IsFiniteSet(1 .. HashCount(p.path_len))  BY <2>2, FS_Interval
  <2> HIDE DEF M
  <2> QED  BY <2>1, <2>3, FS_Subset
<1>7. f \in Injection(V, M)
  <2>1. f \in [V -> M]  BY <1>5
  <2>2. ASSUME NEW i \in V, NEW j \in V, f[i] = f[j]  PROVE i = j
    <3>1. i \in Nat /\ j \in Nat /\ c + i = c + j  BY <1>4, <2>2
    <3> QED  BY <1>2, <3>1
  <2> HIDE DEF f, V, M
  <2> QED  BY <2>1, <2>2, Fun_IsInj
<1>8. VisitsOf(n, t) = Cardinality(V)  BY DEF VisitsOf
<1> HIDE DEF f, V
<1>9. Cardinality(V) <= Cardinality(M) /\ Cardinality(M) \in Nat
  <2> HIDE DEF M
  <2> QED  BY <1>6, <1>7, FS_Injection, FS_CardinalityType
<1> QED  BY <1>8, <1>9

\* The most visits that a mode tolerates is a number.
LEMMA LoopMaxType ==
  ASSUME NEW mode \in {"minimal", "moderate", "strict"}, NEW size \in 1 .. 3
  PROVE  LoopMax(mode, size) \in Nat
<1>1. \A a, b, d \in Nat : <<a, b, d>>[size] \in Nat
  <2>1. TAKE a, b, d \in Nat
  <2>2. CASE size = 1  BY <2>2
  <2>3. CASE size = 2  BY <2>3
  <2>4. CASE size = 3  BY <2>4
  <2> QED  BY <2>2, <2>3, <2>4
<1>2. CASE mode = "minimal"
  <2>1. LoopMax(mode, size) = <<4, 2, 1>>[size]  BY <1>2 DEF LoopMax
  <2> QED  BY <1>1, <2>1
<1>3. CASE mode = "moderate"
  <2>1. LoopMax(mode, size) = <<2, 1, 1>>[size]  BY <1>3 DEF LoopMax
  <2> QED  BY <1>1, <2>1
<1>4. CASE mode = "strict"
  <2>1. LoopMax(mode, size) = 1  BY <1>4 DEF LoopMax
  <2> QED  BY <2>1
<1> QED  BY <1>2, <1>3, <1>4

\* No repeater that looks for loops is in t more often than it tolerates.
WithinLoops(o, t) ==
  \A n \in Node :
    Policy[n].role = "repeater" /\ Policy[n].loop_detect # "off" =>
      VisitsOf(n, t) <= LoopMax(Policy[n].loop_detect, MatchLen(o))

\* The part of FloodsEnd that bounds the visits
LoopsBounded == trail # <<>> /\ IsRouteFlood(origin) /\ Room(origin, trail) /\ MatchLen(origin) > 0 =>
                  WithinLoops(origin, trail)

\* A step of LoopsBounded: the relay found fewer of its hashes in the path than
\* it tolerates, and there is one for each of its visits.
LEMMA LoopStep ==
  ASSUME Carried, Carried', WayTold, LoopsBounded, [Next]_vars
  PROVE  LoopsBounded'
<1>w. LoopsBounded' = (trail' # <<>> /\ IsRouteFlood(origin') /\ Room(origin', trail') /\ MatchLen(origin') > 0
                         => WithinLoops(origin', trail'))
  BY DEF LoopsBounded, WithinLoops, VisitsOf, Room, HashCount, IsRouteFlood, RouteType, MatchLen, Stride,
         HasSnrFlag, HasTransportCodes, HashSize
<1>t. trail \in Seq(Node)  BY DEF Carried
<1>1. ASSUME NEW f \in Frames, Inject(f)  PROVE LoopsBounded'
  <2>1. trail' = <<>>  BY <1>1 DEF Inject, Carried
  <2> QED  BY <2>1, <1>w
<1>2. ASSUME NEW n \in Node, RelayTrace(n)  PROVE LoopsBounded'
  <2>1. IsTrace(Heard) /\ Heard # Bad /\ origin' = origin  BY <1>2 DEF RelayTrace, Retransmit
  <2>2. Heard.header = origin.header  BY <2>1, HeardWhole
  <2>3. ~IsRouteFlood(origin')  BY <2>1, <2>2, SameRoute, OneRoute
  <2> QED  BY <1>w, <2>3
<1>3. ASSUME NEW n \in Node, RelayDirect(n)  PROVE LoopsBounded'
  <2>1. IsRouteDirect(Heard) /\ Heard # Bad /\ origin' = origin  BY <1>3 DEF RelayDirect, Retransmit
  <2>2. Heard.header = origin.header  BY <2>1, HeardWhole
  <2>3. ~IsRouteFlood(origin')  BY <2>1, <2>2, SameRoute, OneRoute
  <2> QED  BY <1>w, <2>3
<1>4. ASSUME NEW n \in Node, RelayFlood(n)  PROVE LoopsBounded'
  <2> DEFINE q == AppendSelf(n, Heard)
             M == {j \in 1 .. HashCount(Heard.path_len) : IsHashMatch(n, HashAt(Heard, j))}
  <2>1. /\ Heard # Bad /\ Relayed(n, q) /\ MayRoute(n, Heard)  BY <1>4, RelayFloodHop
  <2>2. origin' = origin /\ trail' = Append(trail, n)  BY <2>1 DEF Relayed
  <2>3. /\ Whole(Heard) /\ Whole(origin) /\ Heard.header = origin.header
        /\ Heard.codes = origin.codes  BY <2>1, HeardWhole
  <2>4. IsRouteFlood(Heard) /\ IsRouteFlood(origin) /\ ~IsTrace(origin)
    <3>1. IsRouteFlood(Heard)  BY <1>4 DEF RelayFlood
    <3>2. IsRouteFlood(origin)  BY <2>3, <3>1, SameRoute
    <3> QED  BY <3>1, <3>2, OneRoute
  <2>5. FloodTold(Heard, origin, trail)  BY <2>1, <2>4 DEF WayTold, Told
  <2>6. MatchLen(Heard) = MatchLen(origin)
    <3>1. HashSize(Heard.path_len) = HashSize(origin.path_len)  BY <2>5 DEF FloodTold
    <3>2. HasSnrFlag(Heard) <=> HasSnrFlag(origin)  BY <2>3, SameRoute DEF HasSnrFlag
    <3> QED  BY <3>1, <3>2 DEF MatchLen, Stride
  <2>7. ASSUME Room(origin', trail'), MatchLen(origin') > 0, NEW m \in Node,
               Policy[m].role = "repeater", Policy[m].loop_detect # "off"
        PROVE  VisitsOf(m, trail') <= LoopMax(Policy[m].loop_detect, MatchLen(origin'))
    <3> DEFINE max == LoopMax(Policy[m].loop_detect, MatchLen(origin))
    <3>1. Room(origin, trail) /\ MatchLen(origin) > 0
      <4>1. Room(origin, Append(trail, n))  BY <2>2, <2>7
      <4> QED  BY <2>2, <2>3, <2>7, <4>1, <1>t, RoomBefore
    <3>2. max \in Nat
      <4>1. MatchLen(origin) \in 1 .. 3  BY <2>3, <3>1, MatchPart, WholeParts
      <4>2. Policy[m].loop_detect \in {"minimal", "moderate", "strict"}  BY <2>7, WireAssumption
      <4> QED  BY <4>1, <4>2, LoopMaxType
    <3>3. /\ VisitsOf(m, trail) \in Nat
          /\ VisitsOf(m, Append(trail, n)) = IF m = n THEN VisitsOf(m, trail) + 1 ELSE VisitsOf(m, trail)
          /\ trail = <<>> => VisitsOf(m, trail) = 0
      BY <1>t, VisitsGrow
    <3>4. CASE m # n
      <4>1. CASE trail = <<>>  BY <2>2, <3>2, <3>3, <3>4, <4>1
      <4>2. CASE trail # <<>>
        <5>1. VisitsOf(m, trail) <= max  BY <2>4, <2>7, <3>1, <4>2 DEF LoopsBounded, WithinLoops
        <5> QED  BY <2>2, <3>3, <3>4, <5>1
      <4> QED  BY <4>1, <4>2
    <3>5. CASE m = n
      <4>1. VisitsOf(n, trail) <= Cardinality(M) /\ Cardinality(M) \in Nat
        BY <1>t, <2>3, <2>5, <2>6, <3>1, VisitsMatch
      <4>2. ~(Cardinality(M) >= max)
        <5>1. ~IsLooped(n, Heard)  BY <2>1, <2>4, <2>7, <3>5 DEF MayRoute, AllowForward
        <5>2. MatchLen(Heard) > 0  BY <2>6, <3>1
        <5> QED  BY <2>6, <3>5, <5>1, <5>2 DEF IsLooped
      <4> HIDE DEF M, max
      <4>3. VisitsOf(m, trail) + 1 <= max  BY <3>2, <3>3, <3>5, <4>1, <4>2
      <4>4. VisitsOf(m, trail') <= max  BY <2>2, <3>3, <3>5, <4>3
      <4> QED  BY <2>2, <4>4 DEF max
    <3> QED  BY <3>4, <3>5
  <2> QED  BY <1>w, <2>7 DEF WithinLoops
<1>5. ASSUME Quiet  PROVE LoopsBounded'
  <2>1. Heard' = Heard /\ origin' = origin /\ trail' = trail  BY <1>5, QuietHeard
  <2> QED  BY <1>w, <2>1 DEF LoopsBounded
<1>6. ASSUME NEW n \in Node, EndTrace(n) \/ Keep(n) \/ Forget(n)  PROVE LoopsBounded'
  <2>1. Quiet  BY <1>6 DEF EndTrace, Keep, Forget, Quiet
  <2> QED  BY <2>1, <1>5
<1>7. ASSUME Fade  PROVE LoopsBounded'
  <2>1. trail' = <<>>  BY <1>7 DEF Fade
  <2> QED  BY <2>1, <1>w
<1>8. ASSUME UNCHANGED vars  PROVE LoopsBounded'
  <2>1. Quiet  BY <1>8 DEF vars, Quiet
  <2> QED  BY <2>1, <1>5
<1> QED  BY <1>1, <1>2, <1>3, <1>4, <1>6, <1>7, <1>8 DEF Next

\* The addressee of a flood never relays it, whatever its seen-table forgets
\* (meshcore_packet_mark_do_not_retransmit); and a repeater that looks for loops
\* relays it no more often than its mode tolerates, by the hashes in the path
\* alone (meshcore_runtime_packet_is_looped).
THEOREM FloodsComeToAnEnd == Spec => []FloodsEnd
<1>1. Init => ForOpeners /\ LoopsBounded
  <2>1. SUFFICES ASSUME Init PROVE ForOpeners /\ LoopsBounded  OBVIOUS
  <2>2. frame = <<>> /\ trail = <<>>  BY <2>1 DEF Init
  <2>3. Heard = Bad  BY <2>2, Silence DEF Heard
  <2> QED  BY <2>2, <2>3 DEF ForOpeners, LoopsBounded
<1>2. Carried /\ Carried' /\ ForOpeners /\ [Next]_vars => ForOpeners'  BY OpenersStep
<1>3. Carried /\ Carried' /\ WayTold /\ LoopsBounded /\ [Next]_vars => LoopsBounded'  BY LoopStep
<1>4. Carried /\ ForOpeners /\ LoopsBounded => FloodsEnd
  <2>1. SUFFICES ASSUME Carried, ForOpeners, LoopsBounded, trail # <<>>, IsRouteFlood(origin)
                 PROVE  /\ \A i \in DOMAIN trail : trail[i] \notin opened
                        /\ InCount /\ MatchLen(origin) > 0 =>
                             \A n \in Node :
                               Policy[n].role = "repeater" /\ Policy[n].loop_detect # "off" =>
                                 Visits(n) <= LoopMax(Policy[n].loop_detect, MatchLen(origin))
    BY DEF FloodsEnd
  <2>2. Heard # Bad  BY <2>1 DEF Carried
  <2>3. \A i \in DOMAIN trail : trail[i] \notin opened  BY <2>1, <2>2 DEF ForOpeners
  <2>4. InCount <=> Room(origin, trail)  BY DEF InCount, Room
  <2>5. \A n \in Node : Visits(n) = VisitsOf(n, trail)  BY DEF Visits, VisitsOf
  <2>6. Room(origin, trail) /\ MatchLen(origin) > 0 => WithinLoops(origin, trail)  BY <2>1 DEF LoopsBounded
  <2> QED  BY <2>3, <2>4, <2>5, <2>6 DEF WithinLoops
<1> QED  BY <1>1, <1>2, <1>3, <1>4, CarriedUnchanged, TellsItsWay, PTL DEF Spec

=============================================================================
