--------------------------- MODULE BuyMath_proofs ---------------------------
(***************************************************************************)
(* Facts about quotients, products and narrowing that every other proof    *)
(* rests on, and what a buy converts its amount to.                        *)
(***************************************************************************)
EXTENDS BuyMath, TLAPS

\* The u64 range is a set of naturals.
LEMMA Naturals64 == U64 \subseteq Nat /\ 0 \in U64 /\ U64Max \in Nat \ {0}
BY WidthAssumption DEF U64

\* The quotient of naturals is a natural.
LEMMA DivNat ==
    ASSUME NEW a \in Nat, NEW b \in Nat \ {0}
    PROVE  /\ a \div b \in Nat
           /\ b * (a \div b) <= a
           /\ a < b * (a \div b) + b
BY SMTT(20)

\* The product of naturals is a natural.
LEMMA MulNat == ASSUME NEW a \in Nat, NEW b \in Nat PROVE a * b \in Nat
BY SMT

\* A part of amount that is at most the whole is at most amount.
LEMMA ScaleDown ==
    ASSUME NEW amount \in Nat, NEW scale \in Nat \ {0}, NEW part \in 0..scale
    PROVE  (amount * part) \div scale \in 0..amount
<1>1. amount * part \in Nat /\ amount * part <= amount * scale
  BY MulNat, SMTT(20)
<1>2. DEFINE q == (amount * part) \div scale
<1>3. q \in Nat /\ scale * q <= amount * part
  BY <1>1, DivNat
<1>4. q <= amount
  <2>1. SUFFICES ASSUME q >= amount + 1 PROVE FALSE
    BY <1>3
  <2>2. scale * q >= scale * (amount + 1)
    BY <1>3, <2>1, SMTT(20)
  <2>3. scale * (amount + 1) = amount * scale + scale
    BY SMTT(20)
  <2>4. amount * scale \in Nat /\ scale * q \in Nat
    BY <1>3, MulNat
  <2>. QED
    BY <1>1, <1>3, <2>2, <2>3, <2>4
<1>. QED
  BY <1>3, <1>4

\* A narrowed or checked sum that is Ok holds a u64.
LEMMA NarrowTyped ==
    ASSUME NEW v, Narrow(v).ok PROVE Narrow(v).val = v /\ v \in U64
BY DEF Narrow, Ok, Err, Overflow

\* A u64 is narrowed to itself.
LEMMA NarrowOk == ASSUME NEW v \in U64 PROVE Narrow(v) = Ok(v)
BY DEF Narrow

\* Products of naturals grow with their factors.
LEMMA MulMono ==
    ASSUME NEW a \in Nat, NEW b \in Nat, NEW c \in Nat, NEW d \in Nat, a <= b, c <= d
    PROVE  a * c <= b * d
<1>1. a * c <= b * c
  BY SMTT(20)
<1>2. b * c <= b * d
  BY SMTT(20)
<1>3. a * c \in Nat /\ b * c \in Nat /\ b * d \in Nat
  BY MulNat
<1>. QED
  BY <1>1, <1>2, <1>3

\* A quotient is the greatest number whose product with the divisor fits.
LEMMA DivGreatest ==
    ASSUME NEW a \in Nat, NEW b \in Nat \ {0}, NEW q \in Nat
    PROVE  q * b <= a <=> q <= a \div b
<1>. DEFINE d == a \div b
<1>1. d \in Nat /\ b * d <= a /\ a < b * d + b
  BY DivNat
<1>. HIDE DEF d
<1>2. ASSUME q <= d PROVE q * b <= a
  <2>1. q * b <= d * b
    BY <1>1, <1>2, MulMono
  <2>2. d * b = b * d /\ q * b \in Nat /\ d * b \in Nat
    BY <1>1, MulNat
  <2>. QED
    BY <1>1, <2>1, <2>2
<1>3. ASSUME q > d PROVE q * b > a
  <2>1. (d + 1) * b <= q * b
    BY <1>1, <1>3, MulMono
  <2>2. (d + 1) * b = b * d + b
    BY <1>1, SMTT(20)
  <2>3. q * b \in Nat /\ b * d \in Nat
    BY <1>1, MulNat
  <2>. QED
    BY <1>1, <2>1, <2>2, <2>3
<1>4. q * b \in Nat
  BY MulNat
<1>. QED
  BY <1>1, <1>2, <1>3, <1>4 DEF d

\* A quotient grows with the dividend and shrinks as the divisor grows.
LEMMA DivMono ==
    ASSUME NEW a \in Nat, NEW b \in Nat, NEW c \in Nat \ {0}, NEW d \in Nat \ {0},
           a <= b, d <= c
    PROVE  a \div c <= b \div d
<1>. DEFINE q == a \div c
<1>1. q \in Nat /\ c * q <= a
  BY DivNat
<1>. HIDE DEF q
<1>2. q * d <= q * c
  BY <1>1, MulMono
<1>3. q * d \in Nat /\ q * c = c * q /\ c * q \in Nat
  BY <1>1, MulNat
<1>4. q * d <= b
  BY <1>1, <1>2, <1>3
<1>. QED
  BY <1>1, <1>4, DivGreatest DEF q

\* One quotient is at most another when the fractions are.
LEMMA QuotientMono ==
    ASSUME NEW a \in Nat, NEW b \in Nat \ {0}, NEW c \in Nat, NEW d \in Nat \ {0},
           a * d <= c * b
    PROVE  a \div b <= c \div d
<1>. DEFINE q == a \div b
<1>1. q \in Nat /\ b * q <= a
  BY DivNat
<1>. HIDE DEF q
<1>2. b * q \in Nat /\ (b * q) * d \in Nat /\ a * d \in Nat /\ c * b \in Nat
  BY <1>1, MulNat
<1>3. (b * q) * d <= a * d
  BY <1>1, <1>2, MulMono
<1>4. (q * d) * b <= c * b
  <2>1. (b * q) * d = (q * d) * b
    BY <1>1, SMTT(20)
  <2>. QED
    BY <1>2, <1>3, <2>1
<1>5. q * d \in Nat
  BY <1>1, MulNat
<1>6. SUFFICES ASSUME q * d >= c + 1 PROVE FALSE
  BY <1>1, <1>5, DivGreatest DEF q
<1>7. (c + 1) * b <= (q * d) * b
  BY <1>5, <1>6, MulMono
<1>8. (c + 1) * b = c * b + b
  BY SMTT(20)
<1>9. (q * d) * b \in Nat
  BY <1>5, MulNat
<1>. QED
  BY <1>2, <1>4, <1>7, <1>8, <1>9

\* Splitting a dividend loses, never gains.
LEMMA DivSplit ==
    ASSUME NEW a \in Nat, NEW b \in Nat, NEW c \in Nat \ {0}
    PROVE  a \div c + b \div c <= (a + b) \div c
<1>. DEFINE p == a \div c
            q == b \div c
<1>1. p \in Nat /\ c * p <= a /\ q \in Nat /\ c * q <= b
  BY DivNat
<1>. HIDE DEF p, q
<1>2. (p + q) * c = c * p + c * q
  BY <1>1, SMTT(20)
<1>3. c * p \in Nat /\ c * q \in Nat
  BY <1>1, MulNat
<1>4. (p + q) * c <= a + b
  BY <1>1, <1>2, <1>3
<1>. QED
  BY <1>1, <1>4, DivGreatest DEF p, q

\* Rounding up costs less than one, and splitting rounds up more often.
LEMMA CeilDivBounds ==
    ASSUME NEW a \in Nat, NEW b \in Nat \ {0}
    PROVE  /\ CeilDiv(a, b) \in Nat
           /\ a <= b * CeilDiv(a, b)
           /\ b * CeilDiv(a, b) < a + b
<1>. DEFINE n == a + b - 1
            q == n \div b
<1>1. n \in Nat
  OBVIOUS
<1>. HIDE DEF n
<1>2. q \in Nat /\ b * q <= n /\ n < b * q + b
  BY <1>1, DivNat
<1>. HIDE DEF q
<1>3. b * q \in Nat
  BY <1>2, MulNat
<1>. QED
  BY <1>2, <1>3 DEF CeilDiv, q, n

LEMMA CeilDivSplit ==
    ASSUME NEW a \in Nat, NEW b \in Nat, NEW c \in Nat \ {0}
    PROVE  CeilDiv(a + b, c) <= CeilDiv(a, c) + CeilDiv(b, c)
<1>. DEFINE p == CeilDiv(a, c)
            q == CeilDiv(b, c)
            r == CeilDiv(a + b, c)
<1>1. /\ p \in Nat /\ a <= c * p
      /\ q \in Nat /\ b <= c * q
      /\ r \in Nat /\ c * r < a + b + c
  <2>1. p \in Nat /\ a <= c * p
    BY CeilDivBounds
  <2>2. q \in Nat /\ b <= c * q
    BY CeilDivBounds
  <2>3. a + b \in Nat
    OBVIOUS
  <2>4. r \in Nat /\ c * r < (a + b) + c
    BY <2>3, CeilDivBounds
  <2>. HIDE DEF p, q, r
  <2>. QED
    BY <2>1, <2>2, <2>4
<1>. HIDE DEF p, q, r
<1>2. SUFFICES ASSUME r >= p + q + 1 PROVE FALSE
  BY <1>1 DEF p, q, r
<1>3. (p + q + 1) * c <= r * c
  BY <1>1, <1>2, MulMono
<1>4. (p + q + 1) * c = c * p + c * q + c /\ r * c = c * r
  BY <1>1, SMTT(20)
<1>5. c * p \in Nat /\ c * q \in Nat /\ c * r \in Nat
  BY <1>1, MulNat
<1>. QED
  BY <1>1, <1>3, <1>4, <1>5
-----------------------------------------------------------------------------
\* A fee within its range is a part of the amount.
LEMMA FeeWithin ==
    ASSUME NEW amount \in Nat, NEW bps \in 0..MaxBasisPoints
    PROVE  /\ amount * bps \in Nat
           /\ CeilDiv(amount * bps, MaxBasisPoints) \in 0..amount
<1>. DEFINE fee == CeilDiv(amount * bps, MaxBasisPoints)
<1>1. MaxBasisPoints \in Nat \ {0} /\ bps \in Nat /\ bps <= MaxBasisPoints
  BY PricingAssumption
<1>2. amount * bps \in Nat /\ amount * MaxBasisPoints \in Nat
  BY <1>1, MulNat
<1>3. amount * bps <= amount * MaxBasisPoints
  BY <1>1, MulMono
<1>4. fee \in Nat /\ MaxBasisPoints * fee < amount * bps + MaxBasisPoints
  BY <1>1, <1>2, CeilDivBounds
<1>. HIDE DEF fee
<1>5. SUFFICES ASSUME fee >= amount + 1 PROVE FALSE
  BY <1>2, <1>4 DEF fee
<1>6. MaxBasisPoints * (amount + 1) <= MaxBasisPoints * fee
  BY <1>1, <1>4, <1>5, MulMono
<1>7. MaxBasisPoints * (amount + 1) = amount * MaxBasisPoints + MaxBasisPoints
  BY <1>1, SMTT(20)
<1>8. MaxBasisPoints * fee \in Nat
  BY <1>1, <1>4, MulNat
<1>. QED
  BY <1>1, <1>2, <1>3, <1>4, <1>6, <1>7, <1>8

\* What is left of an amount after its fee.
NetOf(amount, bps) == amount - CeilDiv(amount * bps, MaxBasisPoints)

\* Two orders pay at least the fee of one.
LEMMA NetSplit ==
    ASSUME NEW a \in Nat, NEW b \in Nat, NEW bps \in 0..MaxBasisPoints
    PROVE  /\ NetOf(a, bps) \in 0..a
           /\ NetOf(b, bps) \in 0..b
           /\ NetOf(a + b, bps) \in 0..(a + b)
           /\ NetOf(a, bps) + NetOf(b, bps) <= NetOf(a + b, bps)
<1>. DEFINE p == CeilDiv(a * bps, MaxBasisPoints)
            q == CeilDiv(b * bps, MaxBasisPoints)
            r == CeilDiv((a + b) * bps, MaxBasisPoints)
<1>1. MaxBasisPoints \in Nat \ {0} /\ bps \in Nat /\ a + b \in Nat
  BY PricingAssumption
<1>2. a * bps \in Nat /\ p \in 0..a
  BY FeeWithin
<1>3. b * bps \in Nat /\ q \in 0..b
  BY FeeWithin
<1>4. r \in 0..(a + b)
  BY <1>1, FeeWithin
<1>5. (a + b) * bps = a * bps + b * bps
  BY <1>1, SMTT(20)
<1>6. r <= p + q
  BY <1>1, <1>2, <1>3, <1>5, CeilDivSplit
<1>. HIDE DEF p, q, r
<1>7. NetOf(a, bps) = a - p /\ NetOf(b, bps) = b - q /\ NetOf(a + b, bps) = (a + b) - r
  BY DEF NetOf, p, q, r
<1>. QED
  BY <1>2, <1>3, <1>4, <1>6, <1>7

\* Whether a product overflows a u128 depends on the sizes of its factors.
LEMMA MulFitsMono ==
    ASSUME NEW a \in Nat, NEW b \in Nat, NEW c \in Nat, NEW d \in Nat,
           a <= c, b <= d, MulFits(c, d)
    PROVE  MulFits(a, b)
<1>1. CASE b = 0
  BY <1>1 DEF MulFits
<1>2. CASE b # 0
  <2>. b \in Nat \ {0} /\ d \in Nat \ {0} /\ U128Max \in Nat
    BY <1>2, WidthAssumption
  <2>1. c <= U128Max \div d
    BY DEF MulFits
  <2>2. U128Max \div d <= U128Max \div b
    <3>1. U128Max <= U128Max
      OBVIOUS
    <3>. QED
      BY <3>1, DivMono
  <2>3. U128Max \div d \in Nat /\ U128Max \div b \in Nat
    BY DivNat
  <2>4. a <= U128Max \div b
    BY <2>1, <2>2, <2>3
  <2>. QED
    BY <2>4 DEF MulFits
<1>. QED
  BY <1>1, <1>2

\* What a net amount converts to when the product fits.
Converted(net, price, inDecimals, outDecimals) ==
    (net * TenTo[outDecimals + PriceDecimals]) \div (price * TenTo[inDecimals])

\* The powers of ten are positive, and so is a price in them.
LEMMA ConversionTyped ==
    ASSUME NEW price \in Nat \ {0}, NEW inDecimals \in 0..MaxTokenDecimals,
           NEW outDecimals \in 0..MaxTokenDecimals
    PROVE  /\ TenTo[outDecimals + PriceDecimals] \in Nat \ {0}
           /\ price * TenTo[inDecimals] \in Nat \ {0}
<1>1. /\ outDecimals + PriceDecimals \in 0..(MaxTokenDecimals + PriceDecimals)
      /\ inDecimals \in 0..(MaxTokenDecimals + PriceDecimals)
  BY DecimalsAssumption
<1>2. TenTo[outDecimals + PriceDecimals] \in Nat \ {0} /\ TenTo[inDecimals] \in Nat \ {0}
  BY <1>1, DecimalsAssumption
<1>. QED
  BY <1>2, SMTT(20)

\* A buy gives what its net amount converts to, nothing included.
LEMMA BuyConverts ==
    ASSUME NEW amount \in U64, NEW price \in Nat \ {0}, NEW bps \in 0..MaxBasisPoints,
           NEW inDecimals \in 0..MaxTokenDecimals, NEW outDecimals \in 0..MaxTokenDecimals
    PROVE  BuyAmountOut(amount, price, bps, inDecimals, outDecimals) =
              IF MulFits(NetOf(amount, bps), TenTo[outDecimals + PriceDecimals])
              THEN Narrow(Converted(NetOf(amount, bps), price, inDecimals, outDecimals))
              ELSE Overflow
<1>. DEFINE fee == CeilDiv(amount * bps, MaxBasisPoints)
            net == NetOf(amount, bps)
            unit == TenTo[outDecimals + PriceDecimals]
            denom == price * TenTo[inDecimals]
            out == BuyAmountOut(amount, price, bps, inDecimals, outDecimals)
<1>1. amount \in Nat /\ fee \in 0..amount
  BY Naturals64, FeeWithin
<1>2. fee \in U64
  <2>. HIDE DEF fee
  <2>. QED
    BY <1>1, WidthAssumption DEF U64
<1>3. ~(bps > MaxBasisPoints)
  BY PricingAssumption
<1>4. DeductFee(amount, bps) = Ok(net)
  <2>1. CalculateFee(amount, bps) = Ok(fee)
    BY <1>2, <1>3, NarrowOk DEF CalculateFee
  <2>. QED
    BY <2>1 DEF DeductFee, NetOf, Ok
<1>5. ConvertError(price, inDecimals, outDecimals).ok
  BY DecimalsAssumption DEF ConvertError, Ok
<1>6. unit \in Nat \ {0} /\ denom \in Nat \ {0}
  BY ConversionTyped
<1>7. net \in Nat
  BY <1>1 DEF NetOf
<1>. HIDE DEF fee, net, unit, denom
<1>8. out = IF net = 0 THEN Ok(0)
            ELSE IF ~MulFits(net, unit) THEN Overflow
            ELSE Narrow((net * unit) \div denom)
  <2>1. DeductFee(amount, bps).ok /\ DeductFee(amount, bps).val = net
    BY <1>4 DEF Ok
  <2>. QED
    BY <1>5, <2>1, Zenon DEF BuyAmountOut, unit, denom
<1>9. Converted(net, price, inDecimals, outDecimals) = (net * unit) \div denom
  BY DEF Converted, unit, denom
<1>10. CASE net = 0
  <2>1. MulFits(net, unit)
    <3>1. U128Max \div unit \in Nat
      BY <1>6, WidthAssumption, DivNat
    <3>. QED
      BY <1>10, <3>1 DEF MulFits
  <2>2. net * unit = 0
    BY <1>6, <1>10
  <2>3. 0 \div denom = 0
    <3>. DEFINE none == 0 \div denom
    <3>1. none \in Nat /\ denom * none <= 0
      BY <1>6, DivNat
    <3>. HIDE DEF none
    <3>2. CASE none >= 1
      <4>1. 1 * 1 <= denom * none
        BY <1>6, <3>1, <3>2, MulMono
      <4>2. denom * none \in Nat
        BY <1>6, <3>1, MulNat
      <4>. QED
        BY <3>1, <4>1, <4>2
    <3>. QED
      BY <3>1, <3>2 DEF none
  <2>4. Narrow(0) = Ok(0)
    BY Naturals64, NarrowOk
  <2>. QED
    BY <1>8, <1>9, <1>10, <2>1, <2>2, <2>3, <2>4 DEF net, unit
<1>11. CASE net # 0
  BY <1>8, <1>9, <1>11 DEF net, unit
<1>. QED
  BY <1>10, <1>11

\* Only a positive price and decimals the tables know get a buy that far.
LEMMA BuyDefined ==
    ASSUME NEW amount, NEW price, NEW bps, NEW inDecimals \in Nat, NEW outDecimals \in Nat,
           BuyAmountOut(amount, price, bps, inDecimals, outDecimals).ok
    PROVE  /\ price # 0
           /\ inDecimals \in 0..MaxTokenDecimals
           /\ outDecimals \in 0..MaxTokenDecimals
<1>1. ConvertError(price, inDecimals, outDecimals).ok
  BY DEF BuyAmountOut, Err
<1>2. price # 0 /\ ~(inDecimals > MaxTokenDecimals \/ outDecimals > MaxTokenDecimals)
  BY <1>1 DEF ConvertError, Err
<1>. QED
  BY <1>2, DecimalsAssumption

\* An order in two pieces buys no more than in one: what the whole converts to,
\* and whether it converts at all, bounds the pieces.
LEMMA BuySplit ==
    ASSUME NEW a \in U64, NEW b \in U64, a + b \in U64, NEW price \in Nat,
           NEW bps \in 0..MaxBasisPoints, NEW inDecimals \in Nat, NEW outDecimals \in Nat,
           BuyAmountOut(a + b, price, bps, inDecimals, outDecimals).ok
    PROVE  LET out(amount) == BuyAmountOut(amount, price, bps, inDecimals, outDecimals)
           IN  /\ out(a).ok
               /\ out(b).ok
               /\ out(a).val + out(b).val <= out(a + b).val
<1>. DEFINE unit == TenTo[outDecimals + PriceDecimals]
            denom == price * TenTo[inDecimals]
            x == NetOf(a, bps)
            y == NetOf(b, bps)
            z == NetOf(a + b, bps)
            out(amount) == BuyAmountOut(amount, price, bps, inDecimals, outDecimals)
            gives(net) == IF MulFits(net, unit) THEN Narrow((net * unit) \div denom)
                          ELSE Overflow
<1>1. price # 0 /\ inDecimals \in 0..MaxTokenDecimals /\ outDecimals \in 0..MaxTokenDecimals
  BY BuyDefined
<1>2. unit \in Nat \ {0} /\ denom \in Nat \ {0}
  BY <1>1, ConversionTyped
<1>3. x \in Nat /\ y \in Nat /\ z \in Nat /\ x + y <= z
  <2>1. a \in Nat /\ b \in Nat
    BY Naturals64
  <2>2. x \in 0..a /\ y \in 0..b /\ z \in 0..(a + b) /\ x + y <= z
    BY <2>1, NetSplit
  <2>. HIDE DEF x, y, z
  <2>. QED
    BY <2>1, <2>2
<1>4. out(a) = gives(x) /\ out(b) = gives(y) /\ out(a + b) = gives(z)
  <2>1. \A amount \in U64 : out(amount) = gives(NetOf(amount, bps))
    BY <1>1, BuyConverts DEF Converted
  <2>. HIDE DEF out, gives
  <2>. QED
    BY <2>1
<1>. HIDE DEF x, y, z, unit, denom
<1>5. /\ MulFits(z, unit)
      /\ (z * unit) \div denom \in U64
      /\ out(a + b).val = (z * unit) \div denom
  BY <1>4, NarrowTyped DEF Overflow, Err
<1>6. MulFits(x, unit) /\ MulFits(y, unit)
  <2>1. x <= z /\ y <= z
    BY <1>3
  <2>. QED
    BY <1>2, <1>3, <1>5, <2>1, MulFitsMono
<1>. DEFINE p == (x * unit) \div denom
            q == (y * unit) \div denom
            r == (z * unit) \div denom
<1>7. p \in Nat /\ q \in Nat /\ r \in Nat /\ p + q <= r
  <2>1. x * unit \in Nat /\ y * unit \in Nat /\ z * unit \in Nat
    BY <1>2, <1>3, MulNat
  <2>2. x * unit + y * unit <= z * unit
    <3>1. (x + y) * unit <= z * unit
      BY <1>2, <1>3, MulMono
    <3>2. (x + y) * unit = x * unit + y * unit
      BY <1>2, <1>3, SMTT(20)
    <3>. QED
      BY <3>1, <3>2
  <2>3. p + q <= (x * unit + y * unit) \div denom
    BY <1>2, <2>1, DivSplit
  <2>4. (x * unit + y * unit) \div denom <= r
    BY <1>2, <2>1, <2>2, DivMono
  <2>5. p \in Nat /\ q \in Nat /\ r \in Nat /\ (x * unit + y * unit) \div denom \in Nat
    BY <1>2, <2>1, DivNat
  <2>. HIDE DEF p, q, r
  <2>. QED
    BY <2>3, <2>4, <2>5
<1>. HIDE DEF p, q, r
<1>8. p \in U64 /\ q \in U64
  BY <1>5, <1>7, Naturals64 DEF U64, r
<1>9. out(a) = Ok(p) /\ out(b) = Ok(q)
  BY <1>4, <1>6, <1>8, NarrowOk DEF p, q
<1>. HIDE DEF out
<1>10. out(a).ok /\ out(b).ok /\ out(a).val + out(b).val <= out(a + b).val
  BY <1>5, <1>7, <1>9 DEF Ok, r
<1>. QED
  BY <1>10 DEF out
=============================================================================
