---------------------------- MODULE OfferProofs ----------------------------
(***************************************************************************)
(* What the pricing functions of Offer compute for every offer, with the   *)
(* truncating and the rounding up division they use.                       *)
(***************************************************************************)
EXTENDS Offer, TLAPS

\* A quotient lies between its multiples of the divisor.
LEMMA DivBounds ==
    ASSUME NEW a \in Nat, NEW c \in Nat, c > 0
    PROVE  /\ a \div c \in Nat
           /\ (a \div c) * c <= a
           /\ a < (a \div c + 1) * c
OBVIOUS

\* Multiplication is monotone.
LEMMA MultMonotone ==
    ASSUME NEW m \in Nat, NEW n \in Nat, NEW c \in Nat, m <= n
    PROVE  m * c <= n * c
OBVIOUS

\* A truncated quotient reaches x exactly when the dividend reaches x times c.
LEMMA DivReaches ==
    ASSUME NEW a \in Nat, NEW c \in Nat, c > 0, NEW x \in Nat
    PROVE  a \div c >= x <=> a >= x * c
<1> DEFINE q == a \div c
<1>1. q \in Nat /\ q * c <= a /\ a < (q + 1) * c
  BY DivBounds
<1> HIDE DEF q
<1>2. ASSUME q >= x PROVE a >= x * c
  <2>1. x * c <= q * c
    BY <1>1, <1>2, MultMonotone
  <2> QED
    BY <1>1, <2>1
<1>3. ASSUME a >= x * c PROVE q >= x
  <2> SUFFICES ASSUME q + 1 <= x PROVE FALSE
    BY <1>1
  <2>1. (q + 1) * c <= x * c
    BY <1>1, MultMonotone
  <2> QED
    BY <1>1, <1>3, <2>1
<1> QED
  BY <1>2, <1>3 DEF q

\* Rounded up, a quotient is at most e exactly when the dividend is at most e
\* times the divisor.
LEMMA CeilDivWithin ==
    ASSUME NEW a \in Nat, NEW c \in Nat, c > 0, a > 0, NEW e \in Nat
    PROVE  /\ CeilDiv(a, c) \in Nat /\ CeilDiv(a, c) >= 1
           /\ CeilDiv(a, c) <= e <=> a <= e * c
<1>1. a - 1 \in Nat /\ (a - 1) \div c \in Nat
  BY DivBounds
<1>2. (a - 1) \div c >= e <=> a - 1 >= e * c
  BY <1>1, DivReaches
<1>3. e * c \in Nat
  OBVIOUS
<1>4. CeilDiv(a, c) = (a - 1) \div c + 1
  BY DEF CeilDiv
<1> DEFINE q == (a - 1) \div c
           m == e * c
<1> HIDE DEF q, m
<1>5. q \in Nat /\ m \in Nat /\ (q >= e <=> a - 1 >= m) /\ CeilDiv(a, c) = q + 1
  BY <1>1, <1>2, <1>3, <1>4 DEF q, m
<1>6. q + 1 >= 1 /\ (q + 1 <= e <=> a <= m)
  BY <1>5
<1> QED
  BY <1>5, <1>6 DEF m

\* A larger dividend has no smaller quotient.
LEMMA DivMonotone ==
    ASSUME NEW a \in Nat, NEW b \in Nat, NEW c \in Nat, c > 0, a <= b
    PROVE  a \div c <= b \div c
<1> DEFINE q == a \div c
<1>1. q \in Nat /\ q * c <= a /\ b \div c \in Nat
  BY DivBounds
<1> HIDE DEF q
<1>2. b >= q * c
  BY <1>1
<1>3. b \div c >= q
  BY <1>1, <1>2, DivReaches
<1> QED
  BY <1>1, <1>3 DEF q

-----------------------------------------------------------------------------
(* The price of an offer                                                   *)

\* The fields of the Solidity struct that are used are unsigned.
Unsigned(o) ==
    /\ o.minPrice \in Nat /\ o.maxPrice \in Nat /\ o.rampUpStart \in Nat
    /\ o.rampUpPeriod \in Nat /\ o.lockTimeout \in Nat /\ o.timeout \in Nat

\* The ramp in terms of the time since bidding started.
LEMMA Ramp ==
    ASSUME NEW o, Unsigned(o), NEW d, Validate(o, d), NEW t \in Nat,
           t > o.rampUpStart, t <= o.rampUpStart + o.rampUpPeriod
    PROVE  LET e     == t - o.rampUpStart
               width == o.maxPrice - o.minPrice
           IN  /\ e \in Nat /\ width \in Nat /\ e * width \in Nat
               /\ o.rampUpPeriod > 0
               /\ RampPrice(o, t) = o.minPrice + (e * width) \div o.rampUpPeriod
               /\ (e * width) \div o.rampUpPeriod \in 0..width
<1> DEFINE e == t - o.rampUpStart
           width == o.maxPrice - o.minPrice
           P == o.rampUpPeriod
<1>1. /\ o.minPrice \in Nat /\ o.maxPrice \in Nat /\ o.rampUpStart \in Nat /\ P \in Nat
      /\ o.minPrice <= o.maxPrice
  BY DEF Unsigned, Validate
<1>2. e \in Nat /\ width \in Nat /\ P > 0 /\ e <= P
  BY <1>1
<1>3. RampPrice(o, t) = o.minPrice + (e * width) \div P
  BY DEF RampPrice
<1> HIDE DEF e, width, P
<1>4. e * width \in Nat /\ e * width <= P * width
  BY <1>1, <1>2, MultMonotone
<1>5. (e * width) \div P \in Nat /\ (width + 1) * P \in Nat
  BY <1>1, <1>2, <1>4, DivBounds
<1>6. ~((e * width) \div P >= width + 1)
  <2>1. (e * width) \div P >= width + 1 <=> e * width >= (width + 1) * P
    BY <1>1, <1>2, <1>4, DivReaches
  <2>2. (width + 1) * P = P * width + P
    BY <1>1, <1>2
  <2>3. P * width \in Nat
    BY <1>1, <1>2
  <2>4. e * width < (width + 1) * P
    BY <1>1, <1>2, <1>4, <2>2, <2>3
  <2> QED
    BY <1>4, <1>5, <2>1, <2>4
<1>7. (e * width) \div P \in 0..width
  BY <1>2, <1>5, <1>6
<1> QED
  BY <1>2, <1>3, <1>4, <1>7 DEF e, width, P

\* priceAt stays within the signed bounds until the lock deadline and is zero
\* after it.
LEMMA PriceBounds ==
    ASSUME NEW o, Unsigned(o), NEW d, Validate(o, d), NEW t \in Nat
    PROVE  /\ t <= LockDeadline(o) => PriceAt(o, t) \in o.minPrice .. o.maxPrice
           /\ t > LockDeadline(o) => PriceAt(o, t) = 0
           /\ PriceAt(o, t) \in 0..o.maxPrice
<1>1. /\ o.minPrice \in Nat /\ o.maxPrice \in Nat /\ o.minPrice <= o.maxPrice
      /\ o.rampUpStart \in Nat /\ o.lockTimeout \in Nat /\ o.rampUpPeriod \in Nat
  BY DEF Unsigned, Validate
<1>2. LockDeadline(o) \in Nat /\ o.rampUpStart <= LockDeadline(o)
  BY <1>1 DEF LockDeadline
<1>3. CASE t <= o.rampUpStart
  <2>1. PriceAt(o, t) = o.minPrice /\ t <= LockDeadline(o)
    BY <1>1, <1>2, <1>3 DEF PriceAt
  <2> QED
    BY <1>1, <1>2, <2>1
<1>4. CASE t > LockDeadline(o)
  <2>1. PriceAt(o, t) = 0
    BY <1>1, <1>2, <1>4 DEF PriceAt
  <2> QED
    BY <1>1, <1>2, <1>4, <2>1
<1>5. CASE /\ t > o.rampUpStart /\ t <= LockDeadline(o)
           /\ t <= o.rampUpStart + o.rampUpPeriod
  <2>1. PriceAt(o, t) = RampPrice(o, t)
    BY <1>1, <1>2, <1>5 DEF PriceAt
  <2>2. PICK q \in 0..(o.maxPrice - o.minPrice) : RampPrice(o, t) = o.minPrice + q
    BY <1>5, Ramp
  <2> QED
    BY <1>1, <1>2, <1>5, <2>1, <2>2
<1>6. CASE /\ t > o.rampUpStart /\ t <= LockDeadline(o)
           /\ t > o.rampUpStart + o.rampUpPeriod
  <2>1. PriceAt(o, t) = o.maxPrice
    BY <1>1, <1>2, <1>6 DEF PriceAt
  <2> QED
    BY <1>1, <1>2, <1>6, <2>1
<1> QED
  BY <1>1, <1>2, <1>3, <1>4, <1>5, <1>6

\* Until the lock deadline the price never falls.
LEMMA PriceMonotone ==
    ASSUME NEW o, Unsigned(o), NEW d, Validate(o, d),
           NEW t \in Nat, NEW u \in Nat, t <= u, u <= LockDeadline(o)
    PROVE  PriceAt(o, t) <= PriceAt(o, u)
<1>1. /\ o.minPrice \in Nat /\ o.maxPrice \in Nat /\ o.minPrice <= o.maxPrice
      /\ o.rampUpStart \in Nat /\ o.rampUpPeriod \in Nat /\ o.lockTimeout \in Nat
      /\ LockDeadline(o) \in Nat
  BY DEF Unsigned, Validate, LockDeadline
<1>2. /\ PriceAt(o, t) \in o.minPrice .. o.maxPrice
      /\ PriceAt(o, u) \in o.minPrice .. o.maxPrice
  BY <1>1, PriceBounds
<1>3. CASE t <= o.rampUpStart
  <2>1. PriceAt(o, t) = o.minPrice
    BY <1>1, <1>3 DEF PriceAt
  <2> QED
    BY <1>1, <1>2, <2>1
<1>4. CASE u > o.rampUpStart + o.rampUpPeriod
  <2>1. PriceAt(o, u) = o.maxPrice
    BY <1>1, <1>4 DEF PriceAt
  <2> QED
    BY <1>1, <1>2, <2>1
<1>5. CASE t > o.rampUpStart /\ u <= o.rampUpStart + o.rampUpPeriod
  <2> DEFINE width == o.maxPrice - o.minPrice
             a == (t - o.rampUpStart) * width
             b == (u - o.rampUpStart) * width
  <2>1. PriceAt(o, t) = RampPrice(o, t) /\ PriceAt(o, u) = RampPrice(o, u)
    BY <1>1, <1>5 DEF PriceAt
  <2>2. t <= o.rampUpStart + o.rampUpPeriod /\ u > o.rampUpStart
    BY <1>1, <1>5
  <2>3. /\ a \in Nat /\ b \in Nat /\ o.rampUpPeriod > 0
        /\ RampPrice(o, t) = o.minPrice + a \div o.rampUpPeriod
        /\ RampPrice(o, u) = o.minPrice + b \div o.rampUpPeriod
    BY <1>5, <2>2, Ramp
  <2>4. a <= b
    <3>1. /\ t - o.rampUpStart \in Nat /\ u - o.rampUpStart \in Nat /\ width \in Nat
          /\ t - o.rampUpStart <= u - o.rampUpStart
      BY <1>1, <1>5
    <3> QED
      BY <3>1, MultMonotone
  <2> HIDE DEF a, b
  <2>5. /\ a \div o.rampUpPeriod <= b \div o.rampUpPeriod
        /\ a \div o.rampUpPeriod \in Nat /\ b \div o.rampUpPeriod \in Nat
    BY <1>1, <2>3, <2>4, DivMonotone, DivBounds
  <2> QED
    BY <1>1, <2>1, <2>3, <2>5
<1> QED
  BY <1>1, <1>3, <1>4, <1>5

\* timeAtPrice inverts priceAt on the ramp, up to the rounding of both.
LEMMA TimeAtPriceInverts ==
    ASSUME NEW o, Unsigned(o), NEW d, Validate(o, d), o.rampUpPeriod > 0,
           NEW t \in Nat, t <= LockDeadline(o), NEW price \in 0..o.maxPrice
    PROVE  PriceAt(o, t) >= price <=> t >= TimeAtPrice(o, price)
<1> DEFINE P == o.rampUpPeriod
           s == o.rampUpStart
           width == o.maxPrice - o.minPrice
           x == price - o.minPrice
<1>1. /\ o.minPrice \in Nat /\ o.maxPrice \in Nat /\ o.minPrice <= o.maxPrice
      /\ s \in Nat /\ P \in Nat /\ P > 0 /\ o.lockTimeout \in Nat
      /\ LockDeadline(o) \in Nat /\ price \in Nat /\ price <= o.maxPrice
  BY DEF Unsigned, Validate, LockDeadline
<1>2. PriceAt(o, t) \in o.minPrice .. o.maxPrice
  BY <1>1, PriceBounds
<1>3. CASE price <= o.minPrice
  BY <1>1, <1>2, <1>3 DEF TimeAtPrice
<1>4. CASE price > o.minPrice
  <2> DEFINE n == x * P
             c == CeilDiv(n, width)
  <2>1. x \in Nat /\ x > 0 /\ width \in Nat /\ width > 0 /\ x <= width
    BY <1>1, <1>4
  <2>2. TimeAtPrice(o, price) = s + c
    BY <1>1, <1>4 DEF TimeAtPrice
  <2> HIDE DEF x, width, P
  <2>3. n \in Nat /\ n > 0 /\ n <= P * width
    <3>1. n \in Nat /\ n > 0 /\ x * P <= width * P
      BY <1>1, <2>1, MultMonotone
    <3>2. width * P = P * width
      BY <1>1, <2>1
    <3> QED
      BY <3>1, <3>2
  <2>4. \A e \in Nat : c \in Nat /\ c >= 1 /\ (c <= e <=> n <= e * width)
    <3> HIDE DEF n
    <3> QED
      BY <2>1, <2>3, CeilDivWithin
  <2>5. c \in Nat /\ c >= 1 /\ c <= P
    BY <1>1, <2>3, <2>4
  <2>6. CASE t <= s
    <3>1. PriceAt(o, t) = o.minPrice
      BY <1>1, <2>6 DEF PriceAt
    <3>2. ~(t >= s + c)
      <4> HIDE DEF c, s
      <4> QED
        BY <1>1, <2>5, <2>6
    <3> QED
      BY <1>1, <1>4, <2>2, <3>1, <3>2
  <2>7. CASE t > s + P
    <3>1. PriceAt(o, t) = o.maxPrice
      BY <1>1, <2>7 DEF PriceAt, P
    <3>2. t >= s + c
      <4> HIDE DEF c, s
      <4> QED
        BY <1>1, <2>5, <2>7
    <3> QED
      BY <1>1, <2>2, <3>1, <3>2
  <2>8. CASE t > s /\ t <= s + P
    <3> DEFINE e == t - s
               q == (e * width) \div P
    <3>1. PriceAt(o, t) = RampPrice(o, t)
      BY <1>1, <2>8 DEF PriceAt, P
    <3>2. /\ e \in Nat /\ e * width \in Nat
          /\ RampPrice(o, t) = o.minPrice + q
      BY <2>8, Ramp DEF P, width
    <3>3. q \in Nat /\ (q >= x <=> e * width >= x * P)
      BY <1>1, <2>1, <3>2, DivReaches, DivBounds
    <3>4. c <= e <=> n <= e * width
      BY <2>4, <3>2
    <3>5. q >= x <=> c <= e
      <4>1. x * P \in Nat
        BY <1>1, <2>1
      <4> QED
        BY <3>2, <3>3, <3>4, <4>1
    <3>6. PriceAt(o, t) >= price <=> q >= x
      <4> HIDE DEF q
      <4> QED
        BY <1>1, <3>1, <3>2, <3>3 DEF x
    <3>7. t >= s + c <=> c <= e
      <4> HIDE DEF c
      <4> QED
        BY <1>1, <2>5, <2>8
    <3> QED
      BY <2>2, <3>5, <3>6, <3>7
  <2> QED
    BY <1>1, <2>6, <2>7, <2>8
<1> QED
  BY <1>1, <1>3, <1>4

=============================================================================
