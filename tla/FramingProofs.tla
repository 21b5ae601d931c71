---------------------------- MODULE FramingProofs ----------------------------
(* Theorems about Framing, for every number of senders, every script, every     *)
(* pair of limits and every way of cutting up the bytes.                        *)
EXTENDS Framing, SequenceTheorems, TLAPS

(* What shifting and masking do to a size. *)
LEMMA Division ==
    ASSUME NEW n \in Nat, NEW d \in Nat \ {0}
    PROVE  /\ n \div d \in Nat /\ n % d \in Nat /\ (n % d) < d
           /\ n = d * (n \div d) + (n % d)
  OBVIOUS

LEMMA Quotient ==
    ASSUME NEW d \in Nat \ {0}, NEW q \in Nat, NEW r \in Nat, r < d
    PROVE  (d * q + r) \div d = q
  OBVIOUS

LEMMA DivideTwice ==
    ASSUME NEW n \in Nat, NEW a \in Nat \ {0}, NEW b \in Nat \ {0}
    PROVE  n \div (a * b) = (n \div a) \div b
  <1> DEFINE q == n \div a
             r == n % a
             p == q \div b
             t == q % b
  <1>1. q \in Nat /\ r \in Nat /\ r < a /\ n = a * q + r
    BY Division
  <1>2. p \in Nat /\ t \in Nat /\ t < b /\ q = b * p + t
    BY <1>1, Division
  <1> HIDE DEF q, r, p, t
  <1>3. a * q = a * (b * p) + a * t
    BY <1>1, <1>2
  <1>4. a * (b * p) = (a * b) * p
    BY <1>2
  <1>5. n = (a * b) * p + (a * t + r)
    BY <1>1, <1>2, <1>3, <1>4
  <1>6. a * t + a <= a * b
    <2>1. b - 1 - t \in Nat /\ b = t + 1 + (b - 1 - t)
      BY <1>2
    <2>2. a * b = a * t + a + a * (b - 1 - t)
      BY <1>2, <2>1
    <2>3. a * (b - 1 - t) \in Nat /\ a * t \in Nat
      BY <1>2, <2>1
    <2> QED
      BY <2>2, <2>3
  <1>7. a * t + r \in Nat /\ a * t + r < a * b
    BY <1>1, <1>2, <1>6
  <1>8. a * b \in Nat \ {0}
    OBVIOUS
  <1>9. n \div (a * b) = p
    BY <1>2, <1>5, <1>7, <1>8, Quotient
  <1> QED
    BY <1>9 DEF p, q

(* writeBigEndian32 writes four bytes, and readBigEndian32 reads the size back. *)
LEMMA RoundTrip ==
    ASSUME NEW n \in Nat, n < Base * Base * Base * Base
    PROVE  /\ writeBigEndian32(n) \in Seq(Bytes)
           /\ Len(writeBigEndian32(n)) = kFrameHeaderSize
           /\ readBigEndian32(writeBigEndian32(n)) = n
  <1>1. Base \in Nat \ {0}
    BY FramingAssumption
  <1> DEFINE q1 == n \div Base
             q2 == q1 \div Base
             q3 == q2 \div Base
             r0 == n % Base
             r1 == q1 % Base
             r2 == q2 % Base
  <1>2. q1 \in Nat /\ r0 \in Nat /\ r0 < Base /\ n = Base * q1 + r0
    BY <1>1, Division
  <1>3. q2 \in Nat /\ r1 \in Nat /\ r1 < Base /\ q1 = Base * q2 + r1
    BY <1>1, <1>2, Division
  <1>4. q3 \in Nat /\ r2 \in Nat /\ r2 < Base /\ q2 = Base * q3 + r2
    BY <1>1, <1>3, Division
  <1>5. Base * Base \in Nat \ {0}
    BY <1>1
  <1>6. n \div (Base * Base) = q2 /\ n \div (Base * Base * Base) = q3
    <2>1. n \div (Base * Base) = (n \div Base) \div Base
      BY <1>1, DivideTwice
    <2>2. n \div ((Base * Base) * Base) = (n \div (Base * Base)) \div Base
      BY <1>1, <1>5, DivideTwice
    <2> QED
      BY <2>1, <2>2
  <1> HIDE DEF q1, q2, q3, r0, r1, r2
  <1>7. n = q3 * (Base * Base * Base) + r2 * (Base * Base) + r1 * Base + r0
    <2>1. Base * q2 = q3 * (Base * Base) + r2 * Base
      BY <1>1, <1>4
    <2>2. Base * q1 = q3 * (Base * Base * Base) + r2 * (Base * Base) + r1 * Base
      BY <1>1, <1>3, <1>4, <2>1
    <2> QED
      BY <1>2, <2>2
  <1>8. q3 < Base
    <2> SUFFICES ASSUME ~ (q3 < Base) PROVE FALSE
      OBVIOUS
    <2>1. q3 - Base \in Nat
      BY <1>1, <1>4
    <2> DEFINE cube == Base * Base * Base
    <2>2. cube \in Nat /\ r2 * (Base * Base) \in Nat /\ r1 * Base \in Nat
      BY <1>1, <1>3, <1>4, <1>5
    <2>3. q3 * cube = (q3 - Base) * cube + Base * cube /\ (q3 - Base) * cube \in Nat
      <3>1. q3 = (q3 - Base) + Base
        BY <1>1, <1>4
      <3> HIDE DEF cube
      <3> QED
        BY <1>1, <1>4, <2>1, <2>2, <3>1
    <2>4. Base * cube = Base * Base * Base * Base
      BY <1>1
    <2>5. n = q3 * cube + r2 * (Base * Base) + r1 * Base + r0
      BY <1>7
    <2> HIDE DEF cube
    <2> QED
      BY <1>1, <1>2, <2>2, <2>3, <2>4, <2>5
  <1>9. q3 % Base = q3
    BY <1>1, <1>4, <1>8
  <1>10. writeBigEndian32(n) = <<q3, r2, r1, r0>>
    BY <1>6, <1>9 DEF writeBigEndian32, q1, r0, r1, r2
  <1>11. q3 \in Bytes /\ r2 \in Bytes /\ r1 \in Bytes /\ r0 \in Bytes
    BY <1>1, <1>2, <1>3, <1>4, <1>8 DEF Bytes
  <1>12. readBigEndian32(<<q3, r2, r1, r0>>) = n
    BY <1>7 DEF readBigEndian32
  <1>13. <<q3, r2, r1, r0>> \in Seq(Bytes) /\ Len(<<q3, r2, r1, r0>>) = 4
    BY <1>11
  <1> QED
    BY <1>10, <1>12, <1>13 DEF kFrameHeaderSize
-----------------------------------------------------------------------------
(* The frames of a byte stream.  Nothing is computed by recursion: the stream   *)
(* is cut at offsets, of which it is enough that they exist.                    *)

Sendable == {p \in Seq(Bytes) : Len(p) <= SendMax}

(* bytes is what the frames of ps after the first k look like on the wire. *)
Framed(bytes, ps, k) ==
    /\ k \in 0..Len(ps)
    /\ \E cut \in [k..Len(ps) -> Nat] :
        /\ cut[k] = 0 /\ cut[Len(ps)] = Len(bytes)
        /\ \A i, j \in k..Len(ps) : i <= j => cut[i] <= cut[j]
        /\ \A i \in (k + 1)..Len(ps) :
              /\ cut[i] = cut[i - 1] + kFrameHeaderSize + Len(ps[i])
              /\ \A b \in 1..(kFrameHeaderSize + Len(ps[i])) :
                    bytes[cut[i - 1] + b] = encodeFrame(ps[i])[b]

LEMMA FrameBytes ==
    ASSUME NEW p \in Sendable
    PROVE  /\ Len(p) \in Nat /\ Len(p) < Base * Base * Base * Base
           /\ writeBigEndian32(Len(p)) \in Seq(Bytes)
           /\ Len(writeBigEndian32(Len(p))) = kFrameHeaderSize
           /\ readBigEndian32(writeBigEndian32(Len(p))) = Len(p)
           /\ encodeFrame(p) \in Seq(Bytes)
           /\ Len(encodeFrame(p)) = kFrameHeaderSize + Len(p)
           /\ \A b \in 1..kFrameHeaderSize : encodeFrame(p)[b] = writeBigEndian32(Len(p))[b]
           /\ \A b \in 1..Len(p) : encodeFrame(p)[kFrameHeaderSize + b] = p[b]
  <1>1. p \in Seq(Bytes) /\ Len(p) \in Nat /\ Len(p) <= SendMax
    BY DEF Sendable
  <1>2. Len(p) < Base * Base * Base * Base
    <2>1. Base * Base * Base * Base \in Nat /\ SendMax \in Nat
          /\ SendMax < Base * Base * Base * Base
      BY FramingAssumption
    <2> QED
      BY <1>1, <2>1
  <1> DEFINE h == writeBigEndian32(Len(p))
  <1>3. /\ h \in Seq(Bytes) /\ Len(h) = kFrameHeaderSize
        /\ readBigEndian32(h) = Len(p)
    BY <1>1, <1>2, RoundTrip
  <1>4. encodeFrame(p) = h \o p
    BY DEF encodeFrame
  <1> HIDE DEF h
  <1>5. /\ h \o p \in Seq(Bytes) /\ Len(h \o p) = 4 + Len(p)
        /\ \A b \in 1..(4 + Len(p)) : (h \o p)[b] = IF b <= 4 THEN h[b] ELSE p[b - 4]
    <2>1. /\ h \o p \in Seq(Bytes) /\ Len(h \o p) = Len(h) + Len(p)
          /\ \A b \in 1..Len(h) + Len(p) :
                (h \o p)[b] = IF b <= Len(h) THEN h[b] ELSE p[b - Len(h)]
      BY <1>1, <1>3, ConcatProperties
    <2>2. Len(h) = 4
      BY <1>3 DEF kFrameHeaderSize
    <2> QED
      BY <2>1, <2>2
  <1>6. \A b \in 1..4 : (h \o p)[b] = h[b]
    BY <1>1, <1>5
  <1>7. \A b \in 1..Len(p) : (h \o p)[4 + b] = p[b]
    BY <1>1, <1>5
  <1> QED
    BY <1>1, <1>2, <1>3, <1>4, <1>5, <1>6, <1>7 DEF h, kFrameHeaderSize

(* A frame is written behind the others. *)
LEMMA FrameAdded ==
    ASSUME NEW bytes \in Seq(Bytes), NEW ps \in Seq(Sendable), NEW k \in Nat,
           NEW p \in Sendable, Framed(bytes, ps, k)
    PROVE  Framed(bytes \o encodeFrame(p), Append(ps, p), k)
  <1> DEFINE n == Len(ps)
             f == encodeFrame(p)
             all == bytes \o f
             qs == Append(ps, p)
             size1 == kFrameHeaderSize + Len(p)
  <1>1. PICK cut \in [k..n -> Nat] :
          /\ cut[k] = 0 /\ cut[n] = Len(bytes)
          /\ \A i, j \in k..n : i <= j => cut[i] <= cut[j]
          /\ \A i \in (k + 1)..n :
                /\ cut[i] = cut[i - 1] + kFrameHeaderSize + Len(ps[i])
                /\ \A b \in 1..(kFrameHeaderSize + Len(ps[i])) :
                      bytes[cut[i - 1] + b] = encodeFrame(ps[i])[b]
    BY DEF Framed
  <1>2. n \in Nat /\ k \in 0..n
    BY DEF Framed
  <1>3. /\ qs \in Seq(Sendable) /\ Len(qs) = n + 1 /\ qs[n + 1] = p
        /\ \A i \in 1..n : qs[i] = ps[i]
    BY AppendProperties
  <1>4. f \in Seq(Bytes) /\ Len(f) = size1 /\ Len(p) \in Nat
    BY FrameBytes
  <1>5. Len(bytes) \in Nat /\ size1 \in Nat
    BY <1>4 DEF kFrameHeaderSize
  <1>6. /\ Len(all) = Len(bytes) + size1
        /\ \A b \in 1..(Len(bytes) + size1) :
              all[b] = IF b <= Len(bytes) THEN bytes[b] ELSE f[b - Len(bytes)]
    BY <1>4, ConcatProperties
  <1> DEFINE cut2 == [i \in k..(n + 1) |-> IF i = n + 1 THEN Len(all) ELSE cut[i]]
  <1>7. \A i \in k..n : cut[i] \in Nat /\ cut[i] <= Len(bytes) /\ i \in k..(n + 1) /\ i # n + 1
    BY <1>1, <1>2
  <1>8. cut2 \in [k..(n + 1) -> Nat] /\ cut2[k] = 0 /\ cut2[n + 1] = Len(all)
        /\ \A i \in k..n : cut2[i] = cut[i]
    BY <1>1, <1>2, <1>5, <1>6, <1>7
  <1> HIDE DEF n, f, all, qs, size1, cut2
  <1>9. \A i, j \in k..(n + 1) : i <= j => cut2[i] <= cut2[j]
    <2> SUFFICES ASSUME NEW i \in k..(n + 1), NEW j \in k..(n + 1), i <= j
                 PROVE  cut2[i] <= cut2[j]
      OBVIOUS
    <2>1. CASE j \in k..n
      BY <1>1, <1>2, <1>8, <2>1
    <2>2. CASE j = n + 1 /\ i = n + 1
      BY <1>5, <1>6, <1>8, <2>2
    <2>3. CASE j = n + 1 /\ i \in k..n
      BY <1>5, <1>6, <1>7, <1>8, <2>3
    <2> QED
      BY <1>2, <2>1, <2>2, <2>3
  <1>10. ASSUME NEW i \in (k + 1)..(n + 1)
         PROVE  /\ cut2[i] = cut2[i - 1] + kFrameHeaderSize + Len(qs[i])
                /\ \A b \in 1..(kFrameHeaderSize + Len(qs[i])) :
                      all[cut2[i - 1] + b] = encodeFrame(qs[i])[b]
    <2>1. CASE i = n + 1
      <3>1. qs[i] = p /\ i - 1 = n /\ cut2[i - 1] = Len(bytes) /\ cut2[i] = Len(bytes) + size1
        BY <1>1, <1>2, <1>3, <1>6, <1>8, <2>1
      <3>2. \A b \in 1..size1 : all[Len(bytes) + b] = f[b]
        BY <1>5, <1>6
      <3>3. encodeFrame(qs[i]) = f /\ kFrameHeaderSize + Len(qs[i]) = size1
        BY <3>1 DEF f, size1
      <3>4. Len(bytes) + size1 = Len(bytes) + kFrameHeaderSize + Len(qs[i])
        BY <1>4, <1>5, <3>1 DEF size1, kFrameHeaderSize
      <3> QED
        BY <3>1, <3>2, <3>3, <3>4
    <2>2. CASE i \in (k + 1)..n
      <3>1. i - 1 \in k..n /\ i \in k..n /\ i \in 1..n
        BY <1>2, <2>2
      <3>2. qs[i] = ps[i] /\ cut2[i - 1] = cut[i - 1] /\ cut2[i] = cut[i]
        BY <1>3, <1>8, <3>1
      <3>3. Len(ps[i]) \in Nat
        BY <3>1, ElementOfSeq, FrameBytes
      <3>4. \A b \in 1..(kFrameHeaderSize + Len(ps[i])) :
               all[cut[i - 1] + b] = bytes[cut[i - 1] + b]
        <4>1. cut[i] = cut[i - 1] + kFrameHeaderSize + Len(ps[i]) /\ cut[i] <= Len(bytes)
              /\ cut[i - 1] \in Nat /\ cut[i] \in Nat
          BY <1>1, <1>7, <2>2, <3>1
        <4>2. \A b \in 1..Len(bytes) : all[b] = bytes[b]
          BY <1>5, <1>6
        <4>3. \A b \in 1..(kFrameHeaderSize + Len(ps[i])) : cut[i - 1] + b \in 1..Len(bytes)
          <5> TAKE b \in 1..(kFrameHeaderSize + Len(ps[i]))
          <5> DEFINE x == cut[i - 1]
                     y == cut[i]
                     l == Len(ps[i])
          <5>1. /\ x \in Nat /\ y \in Nat /\ l \in Nat /\ y = x + 4 + l /\ y <= Len(bytes)
                /\ b \in 1..(4 + l) /\ Len(bytes) \in Nat
            BY <1>5, <3>3, <4>1 DEF kFrameHeaderSize
          <5> HIDE DEF x, y, l
          <5>2. x + b \in 1..Len(bytes)
            BY <5>1
          <5> QED
            BY <5>2 DEF x
        <4> QED
          BY <4>2, <4>3
      <3>5. /\ cut[i] = cut[i - 1] + kFrameHeaderSize + Len(ps[i])
            /\ \A b \in 1..(kFrameHeaderSize + Len(ps[i])) :
                  bytes[cut[i - 1] + b] = encodeFrame(ps[i])[b]
        BY <1>1, <2>2
      <3> QED
        BY <3>2, <3>4, <3>5
    <2> QED
      BY <1>2, <2>1, <2>2
  <1>11. k \in 0..(n + 1)
    BY <1>2
  <1>12. Framed(all, qs, k)
    <2>1. /\ cut2 \in [k..Len(qs) -> Nat] /\ cut2[k] = 0 /\ cut2[Len(qs)] = Len(all)
          /\ k \in 0..Len(qs)
          /\ \A i, j \in k..Len(qs) : i <= j => cut2[i] <= cut2[j]
          /\ \A i \in (k + 1)..Len(qs) :
                /\ cut2[i] = cut2[i - 1] + kFrameHeaderSize + Len(qs[i])
                /\ \A b \in 1..(kFrameHeaderSize + Len(qs[i])) :
                      all[cut2[i - 1] + b] = encodeFrame(qs[i])[b]
      BY <1>3, <1>8, <1>9, <1>10, <1>11
    <2> QED
      BY <2>1 DEF Framed
  <1> QED
    BY <1>12 DEF all, qs, f

(* The first of the frames is in front, whole, and the others follow it. *)
LEMMA FirstFrame ==
    ASSUME NEW bytes \in Seq(Bytes), NEW ps \in Seq(Sendable), NEW k \in Nat,
           Framed(bytes, ps, k), Len(bytes) > 0
    PROVE  /\ k < Len(ps) /\ ps[k + 1] \in Sendable
           /\ kFrameHeaderSize + Len(ps[k + 1]) <= Len(bytes)
           /\ \A b \in 1..(kFrameHeaderSize + Len(ps[k + 1])) :
                 bytes[b] = encodeFrame(ps[k + 1])[b]
           /\ \A rest \in Seq(Bytes) :
                 /\ Len(rest) = Len(bytes) - (kFrameHeaderSize + Len(ps[k + 1]))
                 /\ \A b \in 1..Len(rest) :
                       rest[b] = bytes[kFrameHeaderSize + Len(ps[k + 1]) + b]
                 => Framed(rest, ps, k + 1)
  <1> DEFINE n == Len(ps)
             m == kFrameHeaderSize + Len(ps[k + 1])
  <1>1. PICK cut \in [k..n -> Nat] :
          /\ cut[k] = 0 /\ cut[n] = Len(bytes)
          /\ \A i, j \in k..n : i <= j => cut[i] <= cut[j]
          /\ \A i \in (k + 1)..n :
                /\ cut[i] = cut[i - 1] + kFrameHeaderSize + Len(ps[i])
                /\ \A b \in 1..(kFrameHeaderSize + Len(ps[i])) :
                      bytes[cut[i - 1] + b] = encodeFrame(ps[i])[b]
    BY DEF Framed
  <1>2. n \in Nat /\ k \in 0..n /\ Len(bytes) \in Nat
    BY DEF Framed
  <1>3. k < n
    BY <1>1, <1>2
  <1>4. \A i \in 1..n : ps[i] \in Sendable /\ Len(ps[i]) \in Nat
    BY ElementOfSeq, FrameBytes
  <1>5. k + 1 \in 1..n /\ k + 1 \in (k + 1)..n /\ k + 1 \in k..n /\ n \in k..n /\ (k + 1) - 1 = k
    BY <1>2, <1>3
  <1>6. m \in Nat /\ cut[k + 1] = m /\ m <= Len(bytes)
    BY <1>1, <1>2, <1>4, <1>5 DEF kFrameHeaderSize
  <1>7. \A b \in 1..m : bytes[b] = encodeFrame(ps[k + 1])[b]
    <2>1. \A b \in 1..m : bytes[cut[(k + 1) - 1] + b] = encodeFrame(ps[k + 1])[b]
      BY <1>1, <1>5
    <2>2. cut[(k + 1) - 1] = 0
      BY <1>1, <1>5
    <2> QED
      BY <1>6, <2>1, <2>2
  <1>8. ASSUME NEW rest \in Seq(Bytes), Len(rest) = Len(bytes) - m,
               \A b \in 1..Len(rest) : rest[b] = bytes[m + b]
        PROVE  Framed(rest, ps, k + 1)
    <2> DEFINE cut2 == [i \in (k + 1)..n |-> cut[i] - m]
    <2>1. \A i \in (k + 1)..n : i \in k..n /\ cut[i] \in Nat /\ m <= cut[i] /\ cut[i] <= Len(bytes)
      BY <1>1, <1>2, <1>5, <1>6
    <2>2. /\ cut2 \in [(k + 1)..n -> Nat]
          /\ \A i \in (k + 1)..n : cut2[i] = cut[i] - m
      BY <1>6, <2>1
    <2>3. cut2[k + 1] = 0 /\ cut2[n] = Len(rest)
      BY <1>1, <1>2, <1>3, <1>5, <1>6, <1>8, <2>2
    <2> HIDE DEF cut2, m
    <2>4. \A i, j \in (k + 1)..n : i <= j => cut2[i] <= cut2[j]
      BY <1>1, <1>6, <2>1, <2>2
    <2>5. ASSUME NEW i \in ((k + 1) + 1)..n
          PROVE  /\ cut2[i] = cut2[i - 1] + kFrameHeaderSize + Len(ps[i])
                 /\ \A b \in 1..(kFrameHeaderSize + Len(ps[i])) :
                       rest[cut2[i - 1] + b] = encodeFrame(ps[i])[b]
      <3>1. i \in (k + 1)..n /\ i - 1 \in (k + 1)..n /\ i \in 1..n
        BY <1>2
      <3>2. /\ cut[i] = cut[i - 1] + kFrameHeaderSize + Len(ps[i])
            /\ \A b \in 1..(kFrameHeaderSize + Len(ps[i])) :
                  bytes[cut[i - 1] + b] = encodeFrame(ps[i])[b]
        BY <1>1, <3>1
      <3>3. /\ cut[i - 1] \in Nat /\ cut[i] \in Nat /\ m <= cut[i - 1] /\ cut[i] <= Len(bytes)
            /\ cut2[i - 1] = cut[i - 1] - m /\ cut2[i] = cut[i] - m /\ Len(ps[i]) \in Nat
        BY <1>4, <2>1, <2>2, <3>1
      <3> DEFINE x == cut[i - 1]
                 y == cut[i]
                 l == Len(ps[i])
      <3>4. /\ x \in Nat /\ y \in Nat /\ l \in Nat /\ m \in Nat /\ y = x + 4 + l
            /\ m <= x /\ y <= Len(bytes) /\ Len(rest) = Len(bytes) - m
            /\ cut2[i - 1] = x - m /\ cut2[i] = y - m /\ Len(bytes) \in Nat
        BY <1>2, <1>6, <1>8, <3>2, <3>3 DEF kFrameHeaderSize
      <3> HIDE DEF x, y, l
      <3>5. cut2[i] = cut2[i - 1] + kFrameHeaderSize + Len(ps[i])
        <4>1. y - m = (x - m) + 4 + l
          BY <3>4
        <4> QED
          BY <3>4, <4>1 DEF l, kFrameHeaderSize
      <3>6. ASSUME NEW b \in 1..(kFrameHeaderSize + Len(ps[i]))
            PROVE  rest[cut2[i - 1] + b] = bytes[cut[i - 1] + b]
        <4>1. b \in 1..(4 + l)
          BY DEF l, kFrameHeaderSize
        <4>2. (x - m) + b \in 1..Len(rest) /\ m + ((x - m) + b) = x + b
          BY <3>4, <4>1
        <4>3. rest[(x - m) + b] = bytes[m + ((x - m) + b)]
          BY <1>8, <4>2
        <4> QED
          BY <3>4, <4>2, <4>3 DEF x
      <3> QED
        BY <3>2, <3>5, <3>6
    <2>6. k + 1 \in 0..n
      BY <1>2, <1>3
    <2> QED
      BY <2>2, <2>3, <2>4, <2>5, <2>6 DEF Framed
  <1> QED
    BY <1>3, <1>4, <1>5, <1>6, <1>7, <1>8

(* What the reader finds once it has a header, and once it has the payload too. *)
LEMMA CutFrame ==
    ASSUME NEW got \in Seq(Bytes), NEW tail \in Seq(Bytes), NEW ps \in Seq(Sendable),
           NEW k \in Nat, Framed(got \o tail, ps, k), Len(got) >= kFrameHeaderSize
    PROVE  /\ k < Len(ps) /\ ps[k + 1] \in Sendable
           /\ SubSeq(got, 1, kFrameHeaderSize) = writeBigEndian32(Len(ps[k + 1]))
           /\ readBigEndian32(SubSeq(got, 1, kFrameHeaderSize)) = Len(ps[k + 1])
           /\ Len(got) >= kFrameHeaderSize + Len(ps[k + 1]) =>
                 /\ SubSeq(got, kFrameHeaderSize + 1, kFrameHeaderSize + Len(ps[k + 1])) = ps[k + 1]
                 /\ Framed(SubSeq(got, kFrameHeaderSize + Len(ps[k + 1]) + 1, Len(got)) \o tail,
                           ps, k + 1)
  <1> USE DEF kFrameHeaderSize
  <1> DEFINE all == got \o tail
             p == ps[k + 1]
             l == Len(p)
             f == encodeFrame(p)
             h == writeBigEndian32(l)
  <1>1. /\ all \in Seq(Bytes) /\ Len(all) = Len(got) + Len(tail)
        /\ Len(got) \in Nat /\ Len(tail) \in Nat
        /\ \A b \in 1..(Len(got) + Len(tail)) :
              all[b] = IF b <= Len(got) THEN got[b] ELSE tail[b - Len(got)]
    BY ConcatProperties
  <1>2. /\ k < Len(ps) /\ p \in Sendable /\ 4 + l <= Len(all)
        /\ \A b \in 1..(4 + l) : all[b] = f[b]
        /\ \A rest \in Seq(Bytes) :
              /\ Len(rest) = Len(all) - (4 + l)
              /\ \A b \in 1..Len(rest) : rest[b] = all[4 + l + b]
              => Framed(rest, ps, k + 1)
    <2>1. Len(all) > 0
      BY <1>1
    <2> HIDE DEF all
    <2>2. Framed(all, ps, k)
      BY DEF all
    <2> QED
      BY <1>1, <2>1, <2>2, FirstFrame
  <1>3. /\ l \in Nat /\ h \in Seq(Bytes) /\ Len(h) = 4 /\ readBigEndian32(h) = l
        /\ \A b \in 1..4 : f[b] = h[b]
        /\ \A b \in 1..l : f[4 + b] = p[b]
        /\ p \in Seq(Bytes)
    <2>1. p \in Sendable
      BY <1>2
    <2> HIDE DEF p
    <2> QED
      BY <2>1, FrameBytes DEF Sendable
  <1> HIDE DEF all, p, l, f, h
  <1>4. \A b \in 1..Len(got) : got[b] \in Bytes /\ all[b] = got[b]
    BY <1>1, ElementOfSeq
  <1>5. SubSeq(got, 1, 4) = h
    <2>1. /\ SubSeq(got, 1, 4) \in Seq(Bytes) /\ Len(SubSeq(got, 1, 4)) = 4
          /\ \A b \in 1..4 : SubSeq(got, 1, 4)[b] = got[b]
      <3>1. \A b \in 1..4 : got[b] \in Bytes
        BY <1>1, <1>4
      <3>2. /\ SubSeq(got, 1, 4) \in Seq(Bytes)
            /\ Len(SubSeq(got, 1, 4)) = IF 1 <= 4 THEN 4 - 1 + 1 ELSE 0
            /\ \A b \in 1..(4 - 1 + 1) : SubSeq(got, 1, 4)[b] = got[1 + b - 1]
        BY <3>1, SubSeqProperties
      <3> QED
        BY <3>2
    <2>2. \A b \in 1..4 : got[b] = h[b]
      BY <1>1, <1>2, <1>3, <1>4
    <2> QED
      BY <1>3, <2>1, <2>2, SeqEqual
  <1>6. ASSUME Len(got) >= 4 + l
        PROVE  /\ SubSeq(got, 4 + 1, 4 + l) = p
               /\ Framed(SubSeq(got, 4 + l + 1, Len(got)) \o tail, ps, k + 1)
    <2> DEFINE body == SubSeq(got, 4 + 1, 4 + l)
               more == SubSeq(got, 4 + l + 1, Len(got))
               rest == more \o tail
    <2>1. body \in Seq(Bytes) /\ Len(body) = l /\ \A b \in 1..l : body[b] = got[4 + b]
      <3>1. \A b \in (4 + 1)..(4 + l) : got[b] \in Bytes
        BY <1>1, <1>3, <1>4, <1>6
      <3>2. /\ body \in Seq(Bytes)
            /\ Len(body) = IF 4 + 1 <= 4 + l THEN (4 + l) - (4 + 1) + 1 ELSE 0
            /\ \A b \in 1..((4 + l) - (4 + 1) + 1) : body[b] = got[(4 + 1) + b - 1]
        BY <1>3, <3>1, SubSeqProperties
      <3> HIDE DEF body
      <3> QED
        BY <1>3, <3>2
    <2>2. /\ more \in Seq(Bytes) /\ Len(more) = Len(got) - (4 + l)
          /\ \A b \in 1..(Len(got) - (4 + l)) : more[b] = got[4 + l + b]
      <3>1. \A b \in (4 + l + 1)..Len(got) : got[b] \in Bytes
        BY <1>1, <1>3, <1>4
      <3>2. /\ more \in Seq(Bytes)
            /\ Len(more) = IF 4 + l + 1 <= Len(got) THEN Len(got) - (4 + l + 1) + 1 ELSE 0
            /\ \A b \in 1..(Len(got) - (4 + l + 1) + 1) : more[b] = got[(4 + l + 1) + b - 1]
        BY <1>1, <1>3, <3>1, SubSeqProperties
      <3> HIDE DEF more
      <3> QED
        BY <1>1, <1>3, <1>6, <3>2
    <2> HIDE DEF body, more
    <2>3. body = p
      <3>1. \A b \in 1..l : 4 + b \in 1..Len(got) /\ 4 + b \in 1..(4 + l)
        BY <1>1, <1>3, <1>6
      <3>2. \A b \in 1..l : got[4 + b] = p[b]
        BY <1>2, <1>3, <1>4, <3>1
      <3>3. Len(p) = Len(body) /\ \A b \in 1..Len(body) : body[b] = p[b]
        BY <2>1, <3>2 DEF l
      <3> QED
        BY <1>3, <2>1, <3>3, SeqEqual
    <2>4. /\ rest \in Seq(Bytes) /\ Len(rest) = Len(more) + Len(tail)
          /\ \A b \in 1..(Len(more) + Len(tail)) :
                rest[b] = IF b <= Len(more) THEN more[b] ELSE tail[b - Len(more)]
      BY <2>2, ConcatProperties
    <2> HIDE DEF rest
    <2>5. Len(rest) = Len(all) - (4 + l)
      BY <1>1, <1>3, <2>2, <2>4
    <2>6. ASSUME NEW b \in 1..Len(rest) PROVE rest[b] = all[4 + l + b]
      <3>1. CASE b <= Len(more)
        BY <1>1, <1>3, <1>4, <1>6, <2>2, <2>4, <3>1
      <3>2. CASE ~ (b <= Len(more))
        <4>1. rest[b] = tail[b - Len(more)]
          BY <2>4, <3>2
        <4>2. /\ 4 + l + b \in 1..(Len(got) + Len(tail)) /\ ~ (4 + l + b <= Len(got))
              /\ (4 + l + b) - Len(got) = b - Len(more)
          BY <1>1, <1>3, <1>6, <2>2, <2>4, <3>2
        <4>3. all[4 + l + b] = tail[(4 + l + b) - Len(got)]
          BY <1>1, <4>2
        <4> QED
          BY <4>1, <4>2, <4>3
      <3> QED
        BY <3>1, <3>2
    <2>7. Framed(rest, ps, k + 1)
      BY <1>2, <2>4, <2>5, <2>6
    <2> QED
      BY <2>3, <2>7 DEF body, more, rest
  <1> QED
    BY <1>2, <1>3, <1>5, <1>6 DEF p, l, h

(* Bytes that move from one sequence to the next leave the stream as it is. *)
LEMMA Regroup == \A a, b, c \in Seq(Bytes) : (a \o b) \o c = a \o (b \o c)
  BY ConcatAssociative

LEMMA Split ==
    ASSUME NEW s \in Seq(Bytes), NEW n \in 0..Len(s)
    PROVE  /\ SubSeq(s, 1, n) \in Seq(Bytes) /\ Len(SubSeq(s, 1, n)) = n
           /\ SubSeq(s, n + 1, Len(s)) \in Seq(Bytes)
           /\ SubSeq(s, 1, n) \o SubSeq(s, n + 1, Len(s)) = s
  <1>1. Len(s) \in Nat /\ \A b \in 1..Len(s) : s[b] \in Bytes
    BY ElementOfSeq
  <1>2. /\ SubSeq(s, 1, n) \in Seq(Bytes)
        /\ Len(SubSeq(s, 1, n)) = IF 1 <= n THEN n - 1 + 1 ELSE 0
    BY <1>1, SubSeqProperties
  <1>3. SubSeq(s, n + 1, Len(s)) \in Seq(Bytes)
    BY <1>1, SubSeqProperties
  <1>4. SubSeq(s, 1, n) \o SubSeq(s, n + 1, Len(s)) = SubSeq(s, 1, Len(s))
    <2>1. /\ 1 \in 1..(Len(s) + 1) /\ n \in (1 - 1)..Len(s) /\ Len(s) \in n..Len(s)
      BY <1>1
    <2> QED
      BY <2>1, ConcatAdjacentSubSeq
  <1>5. SubSeq(s, 1, Len(s)) = s
    BY SubSeqFull
  <1>6. Len(SubSeq(s, 1, n)) = n
    BY <1>1, <1>2
  <1> QED
    BY <1>2, <1>3, <1>4, <1>5, <1>6
-----------------------------------------------------------------------------
(* The inductive invariant. *)
Reading == {"header", "payload", "buffer"}

TypeOK ==
    /\ todo \in [Senders -> Seq(Payloads)] /\ out \in [Senders -> Seq(Bytes)]
    /\ sendMutex \in Senders \cup {NoSender} /\ conn \in {"open", "broken"}
    /\ pipe \in Seq(Bytes) /\ header \in Seq(Bytes) /\ payload \in Seq(Bytes)
    /\ buffer \in Seq(Bytes)
    /\ reader \in Reading \cup {"TooLarge", "Error", "Closed"}
    /\ accepted \in Seq(Sendable) /\ received \in Seq(Seq(Bytes))

(* Only the holder of sendMutex_ is in the middle of a frame. *)
MutexOK == \A s \in Senders : s # sendMutex => out[s] = <<>>

(* receiveFrame's two loops keep to the frame that is next. *)
ReaderOK ==
    /\ reader = "header" => Len(header) <= kFrameHeaderSize /\ payload = <<>>
    /\ reader = "payload" =>
          /\ header = <<>>
          /\ Len(received) < Len(accepted) /\ size = Len(accepted[Len(received) + 1])

(* What the reader has of the frames it has not returned. *)
Got ==
    IF reader = "header" THEN header
    ELSE IF reader = "payload" THEN writeBigEndian32(size) \o payload
    ELSE buffer

Unsent == IF sendMutex = NoSender THEN <<>> ELSE out[sendMutex]

(* What the reader has, what is on its way and what is still to be written make *)
(* up the frames that were accepted and not returned.  On a broken connection   *)
(* the end of it is lost.                                                       *)
StreamOK ==
    reader \in Reading =>
        \E rest \in Seq(Bytes) :
            /\ conn = "open" => rest = Unsent
            /\ Framed(Got \o (pipe \o rest), accepted, Len(received))

IndInv == TypeOK /\ MutexOK /\ ReaderOK /\ StreamOK /\ TooLargeIsReal

LEMMA GotType ==
    ASSUME TypeOK, ReaderOK
    PROVE  /\ Got \in Seq(Bytes) /\ Len(received) \in Nat /\ Len(accepted) \in Nat
           /\ reader = "payload" =>
                 /\ accepted[Len(received) + 1] \in Sendable
                 /\ size \in Nat /\ writeBigEndian32(size) \in Seq(Bytes)
                 /\ Len(writeBigEndian32(size)) = kFrameHeaderSize
                 /\ Len(Got) = kFrameHeaderSize + Len(payload)
  <1>1. Len(received) \in Nat /\ Len(accepted) \in Nat
    BY DEF TypeOK
  <1>2. CASE reader = "payload"
    <2>1. accepted[Len(received) + 1] \in Sendable /\ size = Len(accepted[Len(received) + 1])
      BY <1>1, <1>2, ElementOfSeq DEF TypeOK, ReaderOK
    <2>2. /\ size \in Nat /\ writeBigEndian32(size) \in Seq(Bytes)
          /\ Len(writeBigEndian32(size)) = kFrameHeaderSize
      BY <2>1, FrameBytes
    <2>3. Got = writeBigEndian32(size) \o payload /\ payload \in Seq(Bytes)
      BY <1>2 DEF Got, TypeOK
    <2>4. /\ writeBigEndian32(size) \o payload \in Seq(Bytes)
          /\ Len(writeBigEndian32(size) \o payload) = Len(writeBigEndian32(size)) + Len(payload)
      BY <2>2, <2>3, ConcatProperties
    <2> QED
      BY <1>1, <2>1, <2>2, <2>3, <2>4
  <1>3. CASE reader # "payload"
    BY <1>1, <1>3 DEF Got, TypeOK
  <1> QED
    BY <1>2, <1>3

(* The payloads of the scripts are sequences of bytes. *)
LEMMA PayloadBytes == Payloads \subseteq Seq(Bytes)
  <1> SUFFICES ASSUME NEW script \in Scripts, NEW s \in Senders
               PROVE  Range(script[s]) \subseteq Seq(Bytes)
    BY DEF Payloads
  <1>1. script[s] \in Seq(Seq(Bytes))
    BY FramingAssumption
  <1> QED
    BY <1>1, LenProperties DEF Range

LEMMA InitInv == Init => IndInv
  <1> SUFFICES ASSUME Init PROVE IndInv
    OBVIOUS
  <1>1. /\ <<>> \in Seq(Bytes) /\ <<>> \in Seq(Sendable) /\ <<>> \in Seq(Seq(Bytes))
        /\ Len(<<>>) = 0
    BY EmptySeq
  <1>2. todo \in [Senders -> Seq(Payloads)]
    <2>1. todo \in Scripts /\ todo \in [Senders -> Seq(Seq(Bytes))]
      BY FramingAssumption DEF Init
    <2>2. ASSUME NEW s \in Senders PROVE todo[s] \in Seq(Payloads)
      <3>1. todo[s] \in Seq(Seq(Bytes))
        BY <2>1
      <3>2. todo[s] \in Seq(Range(todo[s]))
        BY <3>1, SeqOfRange
      <3>3. Range(todo[s]) \subseteq Payloads
        BY <2>1 DEF Payloads
      <3> QED
        BY <3>2, <3>3, SeqMonotonic
    <2> QED
      BY <2>1, <2>2
  <1>3. TypeOK
    BY <1>1, <1>2 DEF Init, TypeOK, Reading
  <1>4. Framed(<<>>, <<>>, 0)
    <2> DEFINE cut == [i \in 0..0 |-> 0]
    <2>1. cut \in [0..Len(<<>>) -> Nat] /\ cut[0] = 0 /\ cut[Len(<<>>)] = Len(<<>>)
      BY <1>1
    <2>2. \A i, j \in 0..Len(<<>>) : i <= j => cut[i] <= cut[j]
      BY <1>1
    <2>3. \A i \in (0 + 1)..Len(<<>>) : FALSE
      BY <1>1
    <2>4. 0 \in 0..Len(<<>>)
      BY <1>1
    <2> HIDE DEF cut
    <2> QED
      BY <2>1, <2>2, <2>3, <2>4 DEF Framed
  <1>5. StreamOK
    <2>1. Got = <<>> /\ Unsent = <<>> /\ pipe = <<>> /\ accepted = <<>> /\ Len(received) = 0
      BY <1>1 DEF Init, Got, Unsent
    <2>2. <<>> \o (<<>> \o <<>>) = <<>>
      BY <1>1, ConcatEmptySeq
    <2>3. Framed(Got \o (pipe \o <<>>), accepted, Len(received))
      BY <1>4, <2>1, <2>2
    <2> QED
      BY <1>1, <2>1, <2>3 DEF StreamOK
  <1> QED
    BY <1>1, <1>3, <1>5
       DEF IndInv, Init, MutexOK, ReaderOK, TooLargeIsReal, kFrameHeaderSize

(* sendResponse takes the lock and its frame joins the stream. *)
LEMMA BeginFrameInv ==
    ASSUME IndInv, NEW s \in Senders, beginFrame(s)
    PROVE  IndInv' /\ Head(todo[s]) \in Payloads
  <1> DEFINE p == Head(todo[s])
  <1> USE DEF IndInv
  <1>1. /\ todo[s] \in Seq(Payloads) /\ todo[s] # <<>> /\ Len(p) <= SendMax
        /\ sendMutex = NoSender /\ sendMutex' = s /\ s # NoSender
        /\ out' = [out EXCEPT ![s] = encodeFrame(p)]
        /\ todo' = [todo EXCEPT ![s] = Tail(@)]
        /\ accepted' = Append(accepted, p)
        /\ UNCHANGED <<conn, pipe, header, payload, size, buffer, reader, received>>
    BY FramingAssumption DEF beginFrame, TypeOK, readerVars
  <1>2. p \in Payloads /\ Tail(todo[s]) \in Seq(Payloads)
    BY <1>1, HeadTailProperties
  <1>3. p \in Sendable
    BY <1>1, <1>2, PayloadBytes DEF Sendable
  <1> HIDE DEF p
  <1>4. encodeFrame(p) \in Seq(Bytes)
    BY <1>3, FrameBytes
  <1>5. /\ accepted' \in Seq(Sendable) /\ Len(accepted') = Len(accepted) + 1
        /\ \A i \in 1..Len(accepted) : accepted'[i] = accepted[i]
    BY <1>1, <1>3, AppendProperties DEF TypeOK
  <1>6. TypeOK'
    <2>1. todo' \in [Senders -> Seq(Payloads)] /\ out' \in [Senders -> Seq(Bytes)]
      BY <1>1, <1>2, <1>4 DEF TypeOK
    <2> QED
      BY <1>1, <1>5, <2>1 DEF TypeOK
  <1>7. MutexOK'
    BY <1>1, FramingAssumption DEF MutexOK, TypeOK
  <1>8. Len(received) \in Nat /\ Len(accepted) \in Nat /\ Got \in Seq(Bytes)
    BY GotType
  <1>9. Len(received) < Len(accepted) =>
           /\ Len(received') < Len(accepted')
           /\ accepted'[Len(received') + 1] = accepted[Len(received) + 1]
    BY <1>1, <1>5, <1>8
  <1>10. ReaderOK' /\ TooLargeIsReal'
    BY <1>1, <1>9 DEF ReaderOK, TooLargeIsReal
  <1>11. StreamOK'
    <2> SUFFICES ASSUME reader \in Reading PROVE StreamOK'
      BY <1>1 DEF StreamOK
    <2>1. PICK rest \in Seq(Bytes) :
            /\ conn = "open" => rest = Unsent
            /\ Framed(Got \o (pipe \o rest), accepted, Len(received))
      BY DEF StreamOK
    <2> DEFINE f == encodeFrame(p)
    <2>2. f \in Seq(Bytes) /\ pipe \in Seq(Bytes) /\ pipe \o rest \in Seq(Bytes)
          /\ Got \o (pipe \o rest) \in Seq(Bytes) /\ rest \o f \in Seq(Bytes)
      BY <1>4, <1>8, ConcatProperties DEF TypeOK
    <2>3. Framed((Got \o (pipe \o rest)) \o f, accepted', Len(received))
      BY <1>1, <1>3, <1>8, <2>1, <2>2, FrameAdded DEF TypeOK
    <2> HIDE DEF f
    <2>4. (Got \o (pipe \o rest)) \o f = Got \o ((pipe \o rest) \o f)
      BY <1>8, <2>2, Regroup
    <2>5. (pipe \o rest) \o f = pipe \o (rest \o f)
      BY <2>2, Regroup
    <2>6. Got' = Got /\ pipe' = pipe /\ Len(received') = Len(received)
      BY <1>1 DEF Got
    <2>7. conn' = "open" => rest \o f = Unsent'
      <3>1. Unsent' = f
        BY <1>1 DEF Unsent, f, TypeOK
      <3>2. conn' = "open" => rest = <<>>
        BY <1>1, <2>1 DEF Unsent
      <3>3. <<>> \o f = f
        BY <2>2, ConcatEmptySeq
      <3> QED
        BY <3>1, <3>2, <3>3
    <2>8. Framed(Got' \o (pipe' \o (rest \o f)), accepted', Len(received'))
      BY <2>3, <2>4, <2>5, <2>6
    <2> QED
      BY <2>2, <2>7, <2>8 DEF StreamOK
  <1> QED
    BY <1>2, <1>6, <1>7, <1>10, <1>11 DEF p

(* The other steps of the senders and the connection, which accept nothing. *)
LEMMA SendInv ==
    ASSUME IndInv,
           breakConnection \/ \E s \in Senders : refuseFrame(s) \/ sendChunk(s) \/ endFrame(s)
    PROVE  IndInv' /\ UNCHANGED <<accepted, received>>
  <1> USE DEF IndInv
  <1>1. UNCHANGED <<accepted, received, header, payload, size, buffer, reader>>
    BY DEF breakConnection, refuseFrame, sendChunk, endFrame, readerVars, senderVars
  <1>2. ReaderOK' /\ TooLargeIsReal' /\ Got' = Got
    BY <1>1 DEF ReaderOK, TooLargeIsReal, Got
  <1>3. Got \in Seq(Bytes) /\ pipe \in Seq(Bytes)
    BY GotType DEF TypeOK
  <1>4. ASSUME NEW s \in Senders, refuseFrame(s) PROVE IndInv'
    <2>1. todo[s] \in Seq(Payloads) /\ todo[s] # <<>>
      BY <1>4 DEF refuseFrame, TypeOK
    <2>2. Tail(todo[s]) \in Seq(Payloads)
      BY <2>1, HeadTailProperties
    <2>3. TypeOK'
      BY <1>1, <1>4, <2>2 DEF refuseFrame, TypeOK
    <2>4. MutexOK' /\ StreamOK'
      BY <1>1, <1>2, <1>4 DEF refuseFrame, MutexOK, StreamOK, Unsent
    <2> QED
      BY <1>2, <2>3, <2>4
  <1>5. ASSUME NEW s \in Senders, sendChunk(s) PROVE IndInv'
    <2>1. /\ out[s] \in Seq(Bytes) /\ out[s] # <<>> /\ sendMutex = s /\ s # NoSender
          /\ conn = "open" /\ UNCHANGED <<todo, sendMutex, conn>>
      BY <1>5, FramingAssumption DEF sendChunk, MutexOK, TypeOK
    <2>2. PICK n \in 1..Len(out[s]) :
            /\ pipe' = pipe \o SubSeq(out[s], 1, n)
            /\ out' = [out EXCEPT ![s] = SubSeq(out[s], n + 1, Len(out[s]))]
      BY <1>5 DEF sendChunk
    <2> DEFINE a == SubSeq(out[s], 1, n)
               b == SubSeq(out[s], n + 1, Len(out[s]))
    <2>3. a \in Seq(Bytes) /\ b \in Seq(Bytes) /\ a \o b = out[s]
      <3>1. n \in 0..Len(out[s])
        BY <2>1
      <3> QED
        BY <2>1, <3>1, Split
    <2>4. pipe' = pipe \o a /\ out' = [out EXCEPT ![s] = b]
      BY <2>2
    <2> HIDE DEF a, b
    <2>5. pipe' \in Seq(Bytes)
      BY <1>3, <2>3, <2>4, ConcatProperties
    <2>6. TypeOK'
      BY <1>1, <2>1, <2>3, <2>4, <2>5 DEF TypeOK
    <2>7. MutexOK'
      BY <2>1, <2>4 DEF MutexOK, TypeOK
    <2>8. Unsent = out[s] /\ Unsent' = b
      BY <2>1, <2>4 DEF Unsent, TypeOK
    <2>9. pipe' \o b = pipe \o out[s]
      <3>1. (pipe \o a) \o b = pipe \o (a \o b)
        BY <1>3, <2>3, Regroup
      <3> QED
        BY <2>3, <2>4, <3>1
    <2>10. StreamOK'
      BY <1>1, <1>2, <2>1, <2>3, <2>8, <2>9 DEF StreamOK
    <2> QED
      BY <1>2, <2>6, <2>7, <2>10
  <1>6. ASSUME NEW s \in Senders, endFrame(s) PROVE IndInv'
    <2>1. /\ sendMutex = s /\ s # NoSender /\ sendMutex' = NoSender
          /\ out[s] = <<>> \/ conn = "broken"
          /\ out' = [out EXCEPT ![s] = <<>>]
          /\ UNCHANGED <<todo, conn, pipe>>
      BY <1>6, FramingAssumption DEF endFrame
    <2>2. TypeOK'
      <3>1. out' \in [Senders -> Seq(Bytes)]
        BY <2>1, EmptySeq DEF TypeOK
      <3> QED
        BY <1>1, <2>1, <3>1 DEF TypeOK
    <2>3. MutexOK'
      BY <2>1 DEF MutexOK, TypeOK
    <2>4. conn = "open" => Unsent' = Unsent
      BY <2>1 DEF Unsent, TypeOK
    <2>5. StreamOK'
      BY <1>1, <1>2, <2>1, <2>4 DEF StreamOK
    <2> QED
      BY <1>2, <2>2, <2>3, <2>5
  <1>7. CASE breakConnection
    <2>1. /\ conn = "open" /\ conn' = "broken" /\ UNCHANGED <<todo, sendMutex, out>>
      BY <1>7 DEF breakConnection, senderVars
    <2>2. PICK n \in 0..Len(pipe) : pipe' = SubSeq(pipe, 1, n)
      BY <1>7 DEF breakConnection, Prefixes
    <2> DEFINE lost == SubSeq(pipe, n + 1, Len(pipe))
    <2>3. pipe' \in Seq(Bytes) /\ lost \in Seq(Bytes) /\ pipe' \o lost = pipe
      BY <1>3, <2>2, Split
    <2> HIDE DEF lost
    <2>4. TypeOK' /\ MutexOK'
      BY <1>1, <2>1, <2>3 DEF TypeOK, MutexOK
    <2>5. ASSUME NEW rest \in Seq(Bytes)
          PROVE  lost \o rest \in Seq(Bytes) /\ pipe' \o (lost \o rest) = pipe \o rest
      <3>1. (pipe' \o lost) \o rest = pipe' \o (lost \o rest)
        BY <2>3, Regroup
      <3> QED
        BY <2>3, <3>1, ConcatProperties
    <2>6. StreamOK'
      <3> SUFFICES ASSUME reader \in Reading PROVE StreamOK'
        BY <1>1 DEF StreamOK
      <3>1. PICK rest \in Seq(Bytes) : Framed(Got \o (pipe \o rest), accepted, Len(received))
        BY DEF StreamOK
      <3>2. Framed(Got' \o (pipe' \o (lost \o rest)), accepted', Len(received'))
        BY <1>1, <1>2, <2>5, <3>1
      <3> QED
        BY <2>1, <2>5, <3>2 DEF StreamOK
    <2> QED
      BY <1>1, <1>2, <2>4, <2>6
  <1> QED
    BY <1>1, <1>4, <1>5, <1>6, <1>7

(* One recv(): bytes go from the connection to the reader. *)
LEMMA ReceiveInv ==
    ASSUME IndInv, receiveHeader \/ receivePayload \/ append
    PROVE  IndInv' /\ UNCHANGED <<accepted, received>>
  <1> USE DEF IndInv
  <1>1. /\ UNCHANGED <<todo, sendMutex, out, conn, accepted, received, reader, size>>
        /\ reader \in Reading
    BY DEF receiveHeader, receivePayload, append, senderVars, Reading
  <1>2. PICK n \in Nat \ {0} :
          /\ n <= Len(pipe) /\ pipe' = SubSeq(pipe, n + 1, Len(pipe))
          /\ \/ /\ reader = "header" /\ header' = header \o SubSeq(pipe, 1, n)
                /\ n <= kFrameHeaderSize - Len(header) /\ UNCHANGED <<payload, buffer>>
             \/ /\ reader = "payload" /\ payload' = payload \o SubSeq(pipe, 1, n)
                /\ UNCHANGED <<header, buffer>>
             \/ /\ reader = "buffer" /\ buffer' = buffer \o SubSeq(pipe, 1, n)
                /\ UNCHANGED <<header, payload>>
    <2>1. CASE receiveHeader
      <3>1. Len(header) \in Nat
        BY DEF TypeOK
      <3> QED
        BY <2>1, <3>1 DEF receiveHeader, kFrameHeaderSize
    <2>2. CASE receivePayload
      <3>1. size \in Nat /\ Len(payload) \in Nat
        BY <2>2, GotType DEF receivePayload, TypeOK
      <3>2. PICK n \in 1..(size - Len(payload)) :
               /\ n <= Len(pipe) /\ payload' = payload \o SubSeq(pipe, 1, n)
               /\ pipe' = SubSeq(pipe, n + 1, Len(pipe))
        BY <2>2 DEF receivePayload
      <3>3. n \in Nat \ {0}
        BY <3>1
      <3> QED
        BY <2>2, <3>2, <3>3 DEF receivePayload
    <2>3. CASE append
      <3>1. Len(pipe) \in Nat
        BY DEF TypeOK
      <3>2. PICK n \in 1..Len(pipe) :
               /\ buffer' = buffer \o SubSeq(pipe, 1, n)
               /\ pipe' = SubSeq(pipe, n + 1, Len(pipe))
        BY <2>3 DEF append
      <3>3. n \in Nat \ {0} /\ n <= Len(pipe)
        BY <3>1
      <3> QED
        BY <2>3, <3>2, <3>3 DEF append
    <2> QED
      BY <2>1, <2>2, <2>3
  <1> DEFINE a == SubSeq(pipe, 1, n)
             b == SubSeq(pipe, n + 1, Len(pipe))
  <1>3. /\ a \in Seq(Bytes) /\ b \in Seq(Bytes) /\ a \o b = pipe /\ Len(a) = n
        /\ pipe \in Seq(Bytes) /\ header \in Seq(Bytes) /\ payload \in Seq(Bytes)
        /\ buffer \in Seq(Bytes)
    <2>1. pipe \in Seq(Bytes) /\ Len(pipe) \in Nat
      BY DEF TypeOK
    <2>2. n \in 0..Len(pipe)
      BY <1>2, <2>1
    <2> QED
      BY <2>1, <2>2, Split DEF TypeOK
  <1>4. /\ pipe' = b
        /\ \/ /\ reader = "header" /\ header' = header \o a
              /\ n <= kFrameHeaderSize - Len(header) /\ UNCHANGED <<payload, buffer>>
           \/ /\ reader = "payload" /\ payload' = payload \o a
              /\ UNCHANGED <<header, buffer>>
           \/ /\ reader = "buffer" /\ buffer' = buffer \o a
              /\ UNCHANGED <<header, payload>>
    BY <1>2
  <1> HIDE DEF a, b
  <1>5. \A s \in Seq(Bytes) : s \o a \in Seq(Bytes) /\ Len(s \o a) = Len(s) + n
    BY <1>3, ConcatProperties
  <1>6. TypeOK' /\ MutexOK'
    BY <1>1, <1>3, <1>4, <1>5 DEF TypeOK, MutexOK
  <1>7. ReaderOK' /\ TooLargeIsReal'
    <2>1. reader = "header" => Len(header') <= kFrameHeaderSize
      <3>1. Len(header) \in Nat /\ n \in Nat
        BY <1>2, <1>3
      <3> QED
        BY <1>3, <1>4, <1>5, <3>1 DEF kFrameHeaderSize
    <2> QED
      BY <1>1, <1>4, <2>1 DEF ReaderOK, TooLargeIsReal
  <1>8. Got' = Got \o a /\ Got \in Seq(Bytes)
    <2>1. CASE reader = "payload"
      <3>1. writeBigEndian32(size) \in Seq(Bytes)
        BY <2>1, GotType
      <3>2. (writeBigEndian32(size) \o payload) \o a = writeBigEndian32(size) \o (payload \o a)
        BY <1>3, <3>1, Regroup
      <3> QED
        BY <1>1, <1>4, <2>1, <3>2, GotType DEF Got
    <2>2. CASE reader # "payload"
      BY <1>1, <1>4, <2>2, GotType DEF Got
    <2> QED
      BY <2>1, <2>2
  <1>9. ASSUME NEW rest \in Seq(Bytes) PROVE Got' \o (pipe' \o rest) = Got \o (pipe \o rest)
    <2>1. a \in Seq(Bytes) /\ b \in Seq(Bytes) /\ Got \in Seq(Bytes)
      BY <1>3, <1>8
    <2>2. b \o rest \in Seq(Bytes)
      BY <2>1, ConcatProperties
    <2>3. (Got \o a) \o (b \o rest) = Got \o (a \o (b \o rest))
      BY <2>1, <2>2, Regroup
    <2>4. (a \o b) \o rest = a \o (b \o rest)
      BY <2>1, Regroup
    <2> QED
      BY <1>3, <1>4, <1>8, <2>3, <2>4
  <1>10. StreamOK'
    <2>1. Unsent' = Unsent
      BY <1>1 DEF Unsent
    <2>2. PICK rest \in Seq(Bytes) :
            /\ conn = "open" => rest = Unsent
            /\ Framed(Got \o (pipe \o rest), accepted, Len(received))
      BY <1>1 DEF StreamOK
    <2>3. Framed(Got' \o (pipe' \o rest), accepted', Len(received'))
      BY <1>1, <1>9, <2>2
    <2> QED
      BY <1>1, <2>1, <2>2, <2>3 DEF StreamOK
  <1> QED
    BY <1>1, <1>6, <1>7, <1>10

(* receiveFrame's check of the size, and the end of reading. *)
LEMMA CheckInv ==
    ASSUME IndInv, checkHeader \/ receiveEnd \/ receiveTimesOut \/ readerCloses
    PROVE  IndInv' /\ UNCHANGED <<accepted, received>>
  <1> USE DEF IndInv
  <1>1. CASE checkHeader
    <2>1. /\ reader = "header" /\ Len(header) = kFrameHeaderSize /\ header' = <<>>
          /\ size' = readBigEndian32(header)
          /\ reader' = IF readBigEndian32(header) > RecvMax THEN "TooLarge" ELSE "payload"
          /\ payload = <<>>
          /\ UNCHANGED <<todo, sendMutex, out, conn, pipe, payload, buffer, accepted, received>>
      BY <1>1 DEF checkHeader, senderVars, ReaderOK
    <2>2. PICK rest \in Seq(Bytes) :
            /\ conn = "open" => rest = Unsent
            /\ Framed(Got \o (pipe \o rest), accepted, Len(received))
      BY <2>1 DEF StreamOK, Reading
    <2> DEFINE tail == pipe \o rest
               k == Len(received)
    <2>3. /\ Got = header /\ header \in Seq(Bytes) /\ tail \in Seq(Bytes) /\ k \in Nat
          /\ accepted \in Seq(Sendable)
      BY <2>1, ConcatProperties DEF Got, TypeOK
    <2>4. Framed(header \o tail, accepted, k)
      BY <2>2, <2>3
    <2>5. SubSeq(header, 1, kFrameHeaderSize) = header
      BY <2>1, <2>3, SubSeqFull
    <2>6. Len(header) >= kFrameHeaderSize
      BY <2>1 DEF kFrameHeaderSize
    <2> HIDE DEF tail, k
    <2>7. /\ k < Len(accepted) /\ accepted[k + 1] \in Sendable
          /\ header = writeBigEndian32(Len(accepted[k + 1]))
          /\ readBigEndian32(header) = Len(accepted[k + 1])
      <3>1. /\ k < Len(accepted) /\ accepted[k + 1] \in Sendable
            /\ SubSeq(header, 1, kFrameHeaderSize) = writeBigEndian32(Len(accepted[k + 1]))
            /\ readBigEndian32(SubSeq(header, 1, kFrameHeaderSize)) = Len(accepted[k + 1])
        BY <2>3, <2>4, <2>6, CutFrame
      <3> QED
        BY <2>5, <3>1
    <2>8. Len(accepted[k + 1]) \in Nat /\ RecvMax \in Nat
      BY <2>7, FrameBytes, FramingAssumption
    <2>9. TypeOK' /\ MutexOK'
      BY <2>1, EmptySeq DEF TypeOK, MutexOK, Reading
    <2>10. ReaderOK' /\ TooLargeIsReal'
      BY <2>1, <2>7, <2>8 DEF ReaderOK, TooLargeIsReal, k
    <2>11. StreamOK'
      <3> SUFFICES ASSUME reader' = "payload" PROVE StreamOK'
        BY <2>1 DEF StreamOK, Reading
      <3>1. Got' = header \o <<>>
        BY <2>1, <2>7 DEF Got
      <3>2. header \o <<>> = header
        BY <2>3, ConcatEmptySeq
      <3>3. Unsent' = Unsent
        BY <2>1 DEF Unsent
      <3>4. Framed(Got' \o (pipe' \o rest), accepted', Len(received'))
        BY <2>1, <2>4, <3>1, <3>2 DEF tail, k
      <3> QED
        BY <2>1, <2>2, <3>3, <3>4 DEF StreamOK
    <2> QED
      BY <2>1, <2>9, <2>10, <2>11
  <1>2. CASE receiveEnd \/ receiveTimesOut \/ readerCloses
    <2>1. /\ UNCHANGED <<todo, sendMutex, out, header, payload, size, buffer, accepted, received>>
          /\ reader' \in {"TooLarge", "Error", "Closed"}
          /\ reader' = "TooLarge" => reader = "TooLarge"
      BY <1>2 DEF receiveEnd, receiveTimesOut, readerCloses, senderVars, readerVars, starved
    <2>2. conn' \in {"open", "broken"} /\ pipe' \in Seq(Bytes)
      BY <1>2, EmptySeq DEF receiveEnd, receiveTimesOut, readerCloses, TypeOK
    <2>3. TypeOK' /\ MutexOK'
      BY <2>1, <2>2 DEF TypeOK, MutexOK
    <2>4. ReaderOK' /\ TooLargeIsReal' /\ StreamOK'
      BY <2>1 DEF ReaderOK, TooLargeIsReal, StreamOK, Reading
    <2> QED
      BY <2>1, <2>3, <2>4
  <1> QED
    BY <1>1, <1>2

(* The next payload that was accepted is handed over. *)
HandsOver ==
    /\ Len(received) < Len(accepted)
    /\ received' = Append(received, accepted[Len(received) + 1])
    /\ UNCHANGED accepted

(* What receiveFrame's two buffers are, seen as one. *)
LEMMA HeaderAndBody ==
    ASSUME NEW h \in Seq(Bytes), Len(h) = kFrameHeaderSize, NEW body \in Seq(Bytes)
    PROVE  /\ SubSeq(h \o body, kFrameHeaderSize + 1, kFrameHeaderSize + Len(body)) = body
           /\ SubSeq(h \o body, kFrameHeaderSize + Len(body) + 1, Len(h \o body)) = <<>>
  <1> USE DEF kFrameHeaderSize
  <1> DEFINE all == h \o body
             l == Len(body)
             sub == SubSeq(all, 4 + 1, 4 + l)
  <1>1. l \in Nat /\ Len(h) = 4
    OBVIOUS
  <1>2. /\ all \in Seq(Bytes) /\ Len(all) = Len(h) + l
        /\ \A b \in 1..Len(h) + l : all[b] = IF b <= Len(h) THEN h[b] ELSE body[b - Len(h)]
    BY ConcatProperties
  <1> HIDE DEF all
  <1>3. \A b \in (4 + 1)..(4 + l) : all[b] \in Bytes
    <2>1. \A b \in 1..Len(all) : all[b] \in Bytes
      BY <1>2, ElementOfSeq
    <2> QED
      BY <1>1, <1>2, <2>1
  <1>4. /\ sub \in Seq(Bytes)
        /\ Len(sub) = IF 4 + 1 <= 4 + l THEN (4 + l) - (4 + 1) + 1 ELSE 0
        /\ \A b \in 1..((4 + l) - (4 + 1) + 1) : sub[b] = all[(4 + 1) + b - 1]
    BY <1>1, <1>3, SubSeqProperties
  <1> HIDE DEF sub, l
  <1>5. Len(sub) = l /\ \A b \in 1..l : sub[b] = all[4 + b]
    BY <1>1, <1>4
  <1>6. \A b \in 1..l : all[4 + b] = body[b]
    <2> TAKE b \in 1..l
    <2>1. 4 + b \in 1..Len(h) + l /\ ~ (4 + b <= Len(h)) /\ (4 + b) - Len(h) = b
      BY <1>1
    <2> QED
      BY <1>2, <2>1
  <1>7. sub = body
    <2>1. Len(sub) = Len(body) /\ \A b \in 1..Len(sub) : sub[b] = body[b]
      BY <1>5, <1>6 DEF l
    <2> QED
      BY <1>4, <2>1, SeqEqual
  <1>8. SubSeq(all, 4 + l + 1, Len(all)) = <<>>
    <2>1. 4 + l + 1 \in Int /\ Len(all) \in Int /\ Len(all) < 4 + l + 1
      BY <1>1, <1>2
    <2> QED
      BY <2>1, SubSeqEmpty
  <1> QED
    BY <1>7, <1>8 DEF sub, all, l

(* A frame is returned; what is left is the rest of the stream. *)
LEMMA Returned ==
    ASSUME IndInv, Len(received) < Len(accepted), HandsOver,
           UNCHANGED <<todo, sendMutex, out, conn, pipe>>,
           header' \in Seq(Bytes), payload' \in Seq(Bytes), buffer' \in Seq(Bytes),
           reader' \in {"header", "buffer"},
           reader' = "header" => header' = <<>> /\ payload' = <<>>,
           NEW rest \in Seq(Bytes), conn = "open" => rest = Unsent,
           Framed(Got' \o (pipe \o rest), accepted, Len(received) + 1)
    PROVE  IndInv'
  <1> USE DEF IndInv
  <1>1. Len(received) \in Nat /\ Len(accepted) \in Nat
    BY GotType
  <1>2. accepted[Len(received) + 1] \in Sendable
    BY <1>1, ElementOfSeq DEF TypeOK
  <1>3. received' \in Seq(Seq(Bytes)) /\ Len(received') = Len(received) + 1
    BY <1>2, AppendProperties DEF HandsOver, TypeOK, Sendable
  <1>4. TypeOK' /\ MutexOK'
    BY <1>3 DEF TypeOK, MutexOK, HandsOver, Reading
  <1>5. ReaderOK' /\ TooLargeIsReal'
    BY EmptySeq DEF ReaderOK, TooLargeIsReal, kFrameHeaderSize
  <1>6. StreamOK'
    <2>1. Unsent' = Unsent
      BY DEF Unsent
    <2>2. Framed(Got' \o (pipe' \o rest), accepted', Len(received'))
      BY <1>3 DEF HandsOver
    <2> QED
      BY <2>1, <2>2 DEF StreamOK
  <1> QED
    BY <1>4, <1>5, <1>6

LEMMA ReturnFrameInv ==
    ASSUME IndInv, returnFrame
    PROVE  IndInv' /\ HandsOver
  <1> USE DEF IndInv
  <1>1. /\ reader = "payload" /\ Len(payload) = size /\ received' = Append(received, payload)
        /\ payload' = <<>> /\ reader' = "header" /\ header = <<>>
        /\ UNCHANGED <<todo, sendMutex, out, accepted, conn, pipe, header, buffer>>
    BY DEF returnFrame, senderVars, ReaderOK
  <1> DEFINE k == Len(received)
             h == writeBigEndian32(size)
  <1>2. /\ k \in Nat /\ k < Len(accepted) /\ size = Len(accepted[k + 1]) /\ size \in Nat
        /\ h \in Seq(Bytes) /\ Len(h) = kFrameHeaderSize /\ payload \in Seq(Bytes)
        /\ Got = h \o payload /\ Len(Got) = kFrameHeaderSize + Len(payload)
        /\ Got \in Seq(Bytes)
    BY <1>1, GotType DEF ReaderOK, Got, TypeOK
  <1>3. PICK rest \in Seq(Bytes) :
          /\ conn = "open" => rest = Unsent
          /\ Framed(Got \o (pipe \o rest), accepted, k)
    BY <1>1 DEF StreamOK, Reading
  <1> DEFINE tail == pipe \o rest
  <1>4. tail \in Seq(Bytes) /\ accepted \in Seq(Sendable)
    BY ConcatProperties DEF TypeOK
  <1>5. /\ SubSeq(h \o payload, kFrameHeaderSize + 1, kFrameHeaderSize + Len(payload)) = payload
        /\ SubSeq(h \o payload, kFrameHeaderSize + Len(payload) + 1, Len(h \o payload)) = <<>>
    BY <1>2, HeaderAndBody
  <1> HIDE DEF k, h, tail
  <1>6. /\ SubSeq(Got, kFrameHeaderSize + 1, kFrameHeaderSize + size) = accepted[k + 1]
        /\ Framed(SubSeq(Got, kFrameHeaderSize + size + 1, Len(Got)) \o tail, accepted, k + 1)
    <2>1. Framed(Got \o tail, accepted, k)
      BY <1>3 DEF tail
    <2>2. Len(Got) >= kFrameHeaderSize /\ Len(Got) >= kFrameHeaderSize + Len(accepted[k + 1])
      BY <1>1, <1>2 DEF kFrameHeaderSize
    <2>3. /\ SubSeq(Got, kFrameHeaderSize + 1, kFrameHeaderSize + Len(accepted[k + 1]))
                = accepted[k + 1]
          /\ Framed(SubSeq(Got, kFrameHeaderSize + Len(accepted[k + 1]) + 1, Len(Got)) \o tail,
                    accepted, k + 1)
      <3>1. Got \in Seq(Bytes) /\ k \in Nat
        BY <1>2
      <3> QED
        BY <1>4, <2>1, <2>2, <3>1, CutFrame
    <2> QED
      BY <1>2, <2>3
  <1>7. payload = accepted[k + 1]
    BY <1>1, <1>2, <1>5, <1>6
  <1>8. HandsOver
    BY <1>1, <1>2, <1>7 DEF HandsOver, k
  <1>9. Framed(Got' \o (pipe \o rest), accepted, Len(received) + 1)
    <2>1. SubSeq(Got, kFrameHeaderSize + size + 1, Len(Got)) = <<>>
      BY <1>1, <1>2, <1>5
    <2>2. Got' = <<>>
      BY <1>1 DEF Got
    <2> QED
      BY <1>6, <2>1, <2>2 DEF k, tail
  <1>10. <<>> \in Seq(Bytes) /\ buffer \in Seq(Bytes)
    BY EmptySeq DEF TypeOK
  <1>11. Len(received) < Len(accepted)
    BY <1>2 DEF k
  <1>12. IndInv'
    BY <1>1, <1>3, <1>8, <1>9, <1>10, <1>11, Returned
  <1> QED
    BY <1>8, <1>12

(* FrameDecoder::nextFrame. *)
LEMMA NextFrameInv ==
    ASSUME IndInv, nextFrame
    PROVE  IndInv' /\ (HandsOver \/ UNCHANGED <<accepted, received>>)
  <1> USE DEF IndInv
  <1>1. /\ reader = "buffer" /\ Len(buffer) >= kFrameHeaderSize
        /\ UNCHANGED <<todo, sendMutex, out, accepted, conn, pipe, header, payload, size>>
    BY DEF nextFrame, senderVars
  <1> DEFINE k == Len(received)
             p == accepted[k + 1]
  <1>2. PICK rest \in Seq(Bytes) :
          /\ conn = "open" => rest = Unsent
          /\ Framed(Got \o (pipe \o rest), accepted, k)
    BY <1>1 DEF StreamOK, Reading
  <1> DEFINE tail == pipe \o rest
  <1>3. /\ tail \in Seq(Bytes) /\ accepted \in Seq(Sendable) /\ buffer \in Seq(Bytes)
        /\ Got = buffer /\ k \in Nat
    BY <1>1, ConcatProperties DEF TypeOK, Got
  <1>4. Framed(buffer \o tail, accepted, k)
    BY <1>2, <1>3
  <1> HIDE DEF k, tail
  <1>5. /\ k < Len(accepted) /\ p \in Sendable /\ bufferedSize = Len(p)
        /\ Len(buffer) >= kFrameHeaderSize + Len(p) =>
              /\ SubSeq(buffer, kFrameHeaderSize + 1, kFrameHeaderSize + Len(p)) = p
              /\ Framed(SubSeq(buffer, kFrameHeaderSize + Len(p) + 1, Len(buffer)) \o tail,
                        accepted, k + 1)
    BY <1>1, <1>3, <1>4, CutFrame DEF bufferedSize
  <1>6. CASE bufferedSize > RecvMax /\ reader' = "TooLarge" /\ UNCHANGED <<buffer, received>>
    <2>1. TypeOK' /\ MutexOK' /\ ReaderOK' /\ StreamOK'
      BY <1>1, <1>6 DEF TypeOK, MutexOK, ReaderOK, StreamOK, Reading
    <2>2. TooLargeIsReal'
      BY <1>1, <1>5, <1>6 DEF TooLargeIsReal, k
    <2> QED
      BY <1>1, <1>6, <2>1, <2>2
  <1>7. CASE /\ bufferedSize <= RecvMax /\ frameReady
             /\ received' = Append(received, SubSeq(buffer, kFrameHeaderSize + 1,
                                                    kFrameHeaderSize + bufferedSize))
             /\ buffer' = SubSeq(buffer, kFrameHeaderSize + bufferedSize + 1, Len(buffer))
             /\ UNCHANGED reader
    <2>1. Len(buffer) >= kFrameHeaderSize + Len(p)
      BY <1>5, <1>7 DEF frameReady
    <2>2. /\ SubSeq(buffer, kFrameHeaderSize + 1, kFrameHeaderSize + bufferedSize) = p
          /\ Framed(buffer' \o tail, accepted, k + 1)
      BY <1>5, <1>7, <2>1
    <2>3. HandsOver
      BY <1>1, <1>5, <1>7, <2>2 DEF HandsOver, k, p
    <2>4. buffer' \in Seq(Bytes)
      <3>1. Len(p) \in Nat /\ Len(buffer) \in Nat
        BY <1>3, <1>5, FrameBytes
      <3>2. kFrameHeaderSize + Len(p) \in 0..Len(buffer)
        BY <2>1, <3>1 DEF kFrameHeaderSize
      <3>3. SubSeq(buffer, (kFrameHeaderSize + Len(p)) + 1, Len(buffer)) \in Seq(Bytes)
        BY <1>3, <3>2, Split
      <3> QED
        BY <1>5, <1>7, <3>3
    <2>5. Framed(Got' \o (pipe \o rest), accepted, Len(received) + 1)
      BY <1>1, <1>7, <2>2 DEF Got, tail, k
    <2>6. header \in Seq(Bytes) /\ payload \in Seq(Bytes) /\ Len(received) < Len(accepted)
      BY <1>5 DEF TypeOK, k
    <2>7. IndInv'
      BY <1>1, <1>2, <1>7, <2>3, <2>4, <2>5, <2>6, Returned
    <2> QED
      BY <2>3, <2>7
  <1> QED
    BY <1>6, <1>7 DEF nextFrame

-----------------------------------------------------------------------------
LEMMA NextInv ==
    ASSUME IndInv, [Next]_vars
    PROVE  /\ IndInv'
           /\ \/ \E p \in Payloads : accepted' = Append(accepted, p) /\ UNCHANGED received
              \/ HandsOver \/ UNCHANGED <<accepted, received>>
  <1>1. ASSUME NEW s \in Senders, beginFrame(s)
        PROVE  IndInv' /\ \E p \in Payloads : accepted' = Append(accepted, p) /\ UNCHANGED received
    <2>1. accepted' = Append(accepted, Head(todo[s])) /\ UNCHANGED received
      BY <1>1 DEF beginFrame, readerVars
    <2> QED
      BY <1>1, <2>1, BeginFrameInv
  <1>2. CASE UNCHANGED vars
    <2>1. IndInv'
      BY <1>2 DEF vars, IndInv, TypeOK, MutexOK, ReaderOK, StreamOK, TooLargeIsReal, Got, Unsent
    <2> QED
      BY <1>2, <2>1 DEF vars
  <1> QED
    BY <1>1, <1>2, SendInv, ReceiveInv, CheckInv, ReturnFrameInv, NextFrameInv
       DEF Next, senderStep, readerStep

(* In every execution at most one sender is inside a frame, the reader's fields *)
(* fit its place, and the bytes that are not yet returned are the frames that   *)
(* were accepted and not yet returned.                                          *)
THEOREM Inductive == Spec => []IndInv
  BY InitInv, NextInv, PTL DEF Spec

(* TooLarge is reported for the frame that is too large and for no other, and   *)
(* no more than the reader's limit is allocated, for every pair of limits.      *)
THEOREM TooLargeStaysReal == Spec => []TooLargeIsReal
  <1>1. IndInv => TooLargeIsReal
    BY DEF IndInv
  <1> QED
    BY <1>1, Inductive, PTL

(* The framing implements the channel: whatever the scripts, however the bytes  *)
(* are cut up and wherever the connection breaks, the reader gets the payloads  *)
(* whole, once each and in the order in which sendResponse got the lock.        *)
THEOREM FramingImplementsChannel == Spec => ImplementsChannel
  <1>1. Init => Channel!ChannelInit
    BY DEF Init, Channel!ChannelInit
  <1>2. IndInv /\ [Next]_vars =>
          [(\E p \in Payloads : Channel!Accept(p)) \/ Channel!HandOver]_(Channel!channelVars)
    BY NextInv DEF HandsOver, Channel!Accept, Channel!HandOver, Channel!channelVars
  <1> QED
    BY <1>1, <1>2, Inductive, PTL DEF Spec, ImplementsChannel, Channel!ChannelSpec
=============================================================================
