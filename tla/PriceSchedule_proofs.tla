------------------------ MODULE PriceSchedule_proofs ------------------------
(***************************************************************************)
(* The price of a vector over time: interpolation cannot underflow, and    *)
(* the price changes only where an interval ends, for every schedule,      *)
(* rate, interval and width.                                               *)
(***************************************************************************)
EXTENDS PriceSchedule, BuyMath_proofs, WellFoundedInduction

\* A nonempty set of naturals with an upper bound has a greatest element.
LEMMA GreatestExists ==
    ASSUME NEW S \in SUBSET Nat, NEW bound \in Nat, \A x \in S : x <= bound, S # {}
    PROVE  \E m \in S : \A x \in S : x <= m
<1>. DEFINE R == OpToRel(<, Nat)
            T == {bound - x : x \in S}
<1>1. T \subseteq Nat /\ T # {}
  <2>1. \A x \in S : bound - x \in Nat
    OBVIOUS
  <2>2. PICK x \in S : TRUE
    OBVIOUS
  <2>3. bound - x \in T
    BY <2>2
  <2>. QED
    BY <2>1, <2>3
<1>2. PICK t \in T : \A y \in T : ~ (<<y, t>> \in R)
  <2>. HIDE DEF R, T
  <2>. QED
    BY <1>1, NatLessThanWellFounded, WFMin DEF R
<1>3. \A y \in T : ~(y < t)
  BY <1>1, <1>2 DEF OpToRel
<1>4. PICK m \in S : t = bound - m
  OBVIOUS
<1>5. ASSUME NEW x \in S PROVE x <= m
  <2>1. bound - x \in T
    OBVIOUS
  <2>2. ~(bound - x < t) /\ x \in Nat /\ m \in Nat
    BY <1>3, <2>1
  <2>. QED
    BY <1>4, <2>2
<1>. QED
  BY <1>5

\* The active vector is one of the schedule's, has started, and no vector that
\* has started did so later.
LEMMA ActiveLatest ==
    ASSUME NEW vs \in Seq(PriceVector), NEW time \in Nat,
           FindActiveVector(vs, time).ok
    PROVE  LET v == FindActiveVector(vs, time).val
           IN  /\ v \in PriceVector
               /\ v.start_time # 0
               /\ v.start_time <= time
               /\ \A i \in Started(vs, time) : vs[i].start_time <= v.start_time
<1>. DEFINE S == Started(vs, time)
            later(i, j) == \/ vs[j].start_time < vs[i].start_time
                           \/ vs[j].start_time = vs[i].start_time /\ j <= i
            starts == {vs[i].start_time : i \in S}
<1>1. S # {} /\ FindActiveVector(vs, time)
                  = Ok(vs[CHOOSE i \in S : \A j \in S : later(i, j)])
  BY Zenon DEF FindActiveVector, Err, Ok
<1>2. /\ S \subseteq 1..Len(vs)
      /\ Len(vs) \in Nat
      /\ \A i \in S : /\ vs[i] \in PriceVector
                      /\ vs[i].start_time # 0
                      /\ vs[i].start_time <= time
  BY DEF Started
<1>3. \A i \in S : vs[i].start_time \in Nat
  BY <1>2, Naturals64 DEF PriceVector
<1>. HIDE DEF S
<1>4. PICK last \in starts : \A x \in starts : x <= last
  <2>1. starts \in SUBSET Nat /\ starts # {} /\ \A x \in starts : x <= time
    BY <1>1, <1>2, <1>3
  <2>. HIDE DEF starts
  <2>. QED
    BY <2>1, GreatestExists
<1>. DEFINE ties == {i \in S : vs[i].start_time = last}
<1>5. PICK k \in ties : \A i \in ties : i <= k
  <2>1. ties \subseteq S /\ ties # {}
    BY <1>4
  <2>2. S \subseteq Nat /\ \A i \in S : i <= Len(vs)
    BY <1>2
  <2>3. ties \in SUBSET Nat /\ \A i \in ties : i <= Len(vs)
    BY <2>1, <2>2
  <2>. HIDE DEF ties
  <2>. QED
    BY <1>2, <2>1, <2>3, GreatestExists
<1>6. k \in S /\ \A j \in S : later(k, j)
  <2>1. k \in S /\ vs[k].start_time = last
    BY <1>5
  <2>2. ASSUME NEW j \in S PROVE later(k, j)
    <3>1. vs[j].start_time <= last
      BY <1>4
    <3>2. vs[j].start_time = last => j <= k
      BY <1>5
    <3>. QED
      BY <1>3, <2>1, <3>1, <3>2
  <2>. QED
    BY <2>1, <2>2
<1>. DEFINE c == CHOOSE i \in S : \A j \in S : later(i, j)
<1>7. c \in S /\ \A j \in S : later(c, j)
  <2>. HIDE DEF later
  <2>. QED
    BY <1>6, Zenon
<1>8. FindActiveVector(vs, time).val = vs[c]
  BY <1>1 DEF Ok
<1>. HIDE DEF c
<1>9. \A i \in S : vs[i].start_time <= vs[c].start_time
  BY <1>3, <1>7
<1>. QED
  BY <1>2, <1>7, <1>8, <1>9 DEF S
-----------------------------------------------------------------------------
\* A rounded quotient of a product is a natural, or the product overflows.
LEMMA MulDivTyped ==
    ASSUME NEW a \in Nat, NEW b \in Nat, NEW denom \in Nat \ {0}
    PROVE  MulDivRound(a, b, denom).val \in Nat
<1>1. a * b \in Nat /\ denom \div 2 \in Nat
  BY MulNat, DivNat
<1>2. a * b + denom \div 2 \in Nat
  BY <1>1
<1>3. (a * b + denom \div 2) \div denom \in Nat
  BY <1>2, DivNat
<1>. DEFINE q == (a * b + denom \div 2) \div denom
<1>4. MulDivRound(a, b, denom) = Overflow \/ MulDivRound(a, b, denom) = Ok(q)
  BY DEF MulDivRound
<1>. HIDE DEF q
<1>. QED
  BY <1>3, <1>4 DEF Overflow, Err, Ok, q

\* A factor of at least the denominator never lowers a value, rounding included.
LEMMA MulDivGrows ==
    ASSUME NEW a \in Nat, NEW b \in Nat, NEW denom \in Nat \ {0}, b >= denom,
           MulDivRound(a, b, denom).ok
    PROVE  MulDivRound(a, b, denom).val >= a
<1>. DEFINE x == a * b + denom \div 2
            q == x \div denom
<1>1. a * b \in Nat /\ denom \div 2 \in Nat /\ a * b >= a * denom /\ a * denom \in Nat
  BY MulNat, DivNat, SMTT(20)
<1>2. x \in Nat /\ x >= a * denom
  BY <1>1
<1>. HIDE DEF x
<1>3. q \in Nat /\ denom * q <= x /\ x < denom * q + denom
  BY <1>2, DivNat
<1>. HIDE DEF q
<1>4. q >= a
  <2> SUFFICES ASSUME q + 1 <= a PROVE FALSE
    BY <1>3
  <2>1. denom * (q + 1) <= denom * a
    BY <1>3, SMTT(20)
  <2>2. denom * (q + 1) = denom * q + denom /\ denom * a = a * denom
    BY <1>3, SMTT(20)
  <2>3. denom * q \in Nat
    BY <1>3, MulNat
  <2>. QED
    BY <1>1, <1>2, <1>3, <2>1, <2>2, <2>3
<1>5. MulDivRound(a, b, denom).val = q
  BY DEF MulDivRound, Overflow, Err, Ok, q, x
<1>. QED
  BY <1>4, <1>5

\* A factor of at most the denominator never raises a value, rounding included.
LEMMA MulDivShrinks ==
    ASSUME NEW a \in Nat, NEW b \in Nat, NEW denom \in Nat \ {0}, b <= denom,
           MulDivRound(a, b, denom).ok
    PROVE  MulDivRound(a, b, denom).val \in 0..a
<1>. DEFINE x == a * b + denom \div 2
            q == x \div denom
<1>1. /\ a * b \in Nat
      /\ denom \div 2 \in Nat
      /\ denom \div 2 < denom
      /\ a * b <= a * denom
      /\ a * denom \in Nat
  <2>1. denom \div 2 \in Nat /\ 2 * (denom \div 2) <= denom
    BY DivNat
  <2>2. a * b <= a * denom
    BY SMTT(20)
  <2>. QED
    BY <2>1, <2>2, MulNat
<1>2. x \in Nat /\ x < a * denom + denom
  BY <1>1
<1>. HIDE DEF x
<1>3. q \in Nat /\ denom * q <= x
  BY <1>2, DivNat
<1>. HIDE DEF q
<1>4. q <= a
  <2> SUFFICES ASSUME a + 1 <= q PROVE FALSE
    BY <1>3
  <2>1. denom * (a + 1) <= denom * q
    BY <1>3, SMTT(20)
  <2>2. denom * (a + 1) = a * denom + denom
    BY SMTT(20)
  <2>3. denom * q \in Nat
    BY <1>3, MulNat
  <2>. QED
    BY <1>1, <1>2, <1>3, <2>1, <2>2, <2>3
<1>5. MulDivRound(a, b, denom).val = q
  BY DEF MulDivRound, Overflow, Err, Ok, q, x
<1>. QED
  BY <1>3, <1>4, <1>5

\* The daily factor is at least one.
LEMMA FactorTyped ==
    ASSUME NEW apr \in U64 PROVE DailyFactor(apr) \in Nat /\ DailyFactor(apr) >= Scale
<1>1. apr \in Nat /\ Scale \in Nat \ {0} /\ AprDivisor \in Nat \ {0}
  BY Naturals64, PricingAssumption
<1>2. MulDivRound(apr, Scale, AprDivisor).val \in Nat
  BY <1>1, MulDivTyped
<1>. QED
  BY <1>1, <1>2 DEF DailyFactor

\* The price of a whole day is a natural, whatever it compounds to.
LEMMA FullDayTyped ==
    ASSUME NEW apr, NEW basePrice \in U64, NEW elapsed,
           FullDayPrice(apr, basePrice, elapsed).ok
    PROVE  FullDayPrice(apr, basePrice, elapsed).val \in Nat
<1>. DEFINE compound == PowFixed(DailyFactor(apr), elapsed \div SecondsInDay, Scale)
<1>1. compound.val \in Nat
  BY WidthAssumption DEF PowFixed, Ok, Overflow, Err, Clamp128, U128
<1>2. basePrice \in Nat /\ Scale \in Nat \ {0}
  BY Naturals64, PricingAssumption
<1>. HIDE DEF compound
<1>3. compound.ok
  BY DEF FullDayPrice, compound
<1>4. FullDayPrice(apr, basePrice, elapsed) = MulDivRound(basePrice, compound.val, Scale)
  BY <1>3 DEF FullDayPrice, compound
<1>. QED
  BY <1>1, <1>2, <1>4, MulDivTyped

\* The price within a day lies between the day's and the next day's: the daily
\* delta, an unchecked subtraction, cannot underflow.
LEMMA VectorPriceBetween ==
    ASSUME NEW apr \in U64, NEW basePrice \in U64, NEW elapsed \in Nat,
           VectorPrice(apr, basePrice, elapsed).ok
    PROVE  LET day == FullDayPrice(apr, basePrice, elapsed).val
           IN  VectorPrice(apr, basePrice, elapsed).val
                 \in day..Greater(day, NextDayPrice(apr, day).val)
<1>. DEFINE full == FullDayPrice(apr, basePrice, elapsed)
            day == full.val
            next == NextDayPrice(apr, day)
            seconds == elapsed % SecondsInDay
            delta == PartialDayDelta(apr, day, seconds)
            price == VectorPrice(apr, basePrice, elapsed)
<1>1. full.ok
  BY DEF VectorPrice, Overflow, Err
<1>2. day \in Nat
  BY <1>1, FullDayTyped
<1>3. SecondsInDay \in Nat \ {0} /\ Scale \in Nat \ {0}
  BY PricingAssumption
<1>4. seconds \in Nat /\ seconds <= SecondsInDay
  BY <1>3, SMTT(20)
<1>. HIDE DEF full, seconds
<1>5. CASE seconds = 0
  <2>1. price = Narrow(day)
    BY <1>1, <1>5 DEF VectorPrice, IntradayPrice, full, seconds
  <2>. QED
    BY <1>2, <2>1, NarrowTyped, FactorTyped, MulDivTyped, <1>3
       DEF Greater, NextDayPrice, full
<1>6. CASE seconds # 0
  <2>1. next.ok /\ delta.ok /\ price = Narrow(day + delta.val)
    <3>. HIDE DEF next, delta
    <3>. QED
      BY <1>1, <1>6, Zenon DEF VectorPrice, IntradayPrice, Overflow, Err, full, seconds, next, delta
  <2>2. next.val \in Nat /\ next.val >= day
    <3>1. DailyFactor(apr) \in Nat /\ DailyFactor(apr) >= Scale
      BY FactorTyped
    <3>. QED
      BY <1>2, <1>3, <2>1, <3>1, MulDivTyped, MulDivGrows DEF NextDayPrice
  <2>3. next.val - day \in Nat
    <3>. HIDE DEF next
    <3>. QED
      BY <1>2, <2>2
  <2>4. delta.val \in 0..(next.val - day)
    <3>1. delta = MulDivRound(next.val - day, seconds, SecondsInDay)
      BY DEF PartialDayDelta, DailyDelta
    <3>. HIDE DEF delta, next
    <3>. QED
      BY <1>3, <1>4, <2>1, <2>3, <3>1, MulDivShrinks
  <2>5. price.val = day + delta.val
    BY <2>1, NarrowTyped
  <2>. HIDE DEF price, delta, next
  <2>6. price.val \in day..Greater(day, next.val)
    BY <1>2, <2>2, <2>4, <2>5 DEF Greater
  <2>. QED
    BY <2>6 DEF full, price, next
<1>. QED
  BY <1>5, <1>6
-----------------------------------------------------------------------------
\* What is fixed and what the clock is bounded by.
Clocked == vectors \in Schedules /\ now \in 1..MaxTime

\* The schedule never changes and the clock never passes its bound.
LEMMA ClockInvariant == Spec => []Clocked
<1>1. MaxTime \in Nat \ {0}
  BY ScheduleAssumption, Naturals64
<1>2. Init => Clocked
  BY <1>1 DEF Init, Clocked
<1>3. Clocked /\ [Tick]_vars => Clocked'
  BY <1>1 DEF Clocked, Tick, vars
<1>. QED
  BY <1>2, <1>3, PTL DEF Spec

\* A price that is published comes from an active vector of the schedule, at
\* the end of an interval of positive length.
LEMMA PublishedPrice ==
    ASSUME Clocked, NEW time \in Nat, PriceAt(time).ok
    PROVE  LET v == ActiveAt(time).val
           IN  /\ ActiveAt(time).ok
               /\ v \in PriceVector
               /\ v.base_time <= time
               /\ v.price_fix_duration \in Nat \ {0}
               /\ StepEnd(v, time) \in Nat
               /\ PriceAt(time) = VectorPrice(v.apr, v.base_price, StepEnd(v, time))
<1>. DEFINE v == ActiveAt(time).val
<1>1. ActiveAt(time).ok /\ PriceAt(time) = StepPrice(v, time)
  BY DEF PriceAt
<1>2. v \in PriceVector
  BY <1>1, ActiveLatest, ScheduleAssumption DEF Clocked, ActiveAt
<1>. HIDE DEF v
<1>3. /\ ~(v.base_time > time)
      /\ v.price_fix_duration # 0
      /\ PriceAt(time) = VectorPrice(v.apr, v.base_price, StepEnd(v, time))
  BY <1>1 DEF StepPrice, Err, Overflow
<1>4. v.base_time \in Nat /\ v.price_fix_duration \in Nat \ {0}
  BY <1>2, <1>3, Naturals64 DEF PriceVector
<1>5. StepEnd(v, time) \in Nat
  <2>1. time - v.base_time \in Nat
    BY <1>3, <1>4
  <2>2. (time - v.base_time) \div v.price_fix_duration + 1 \in Nat
    BY <1>4, <2>1, DivNat
  <2>. QED
    BY <1>4, <2>2, MulNat DEF StepEnd
<1>. QED
  BY <1>1, <1>2, <1>3, <1>4, <1>5 DEF v

\* The schedule and the clock keep their bounds, and a published price fits a
\* u64 whatever it compounded to.
THEOREM TypeCorrect == Spec => []TypeOK
<1>1. Clocked => TypeOK
  <2> SUFFICES ASSUME Clocked, PriceAt(now).ok PROVE PriceAt(now).val \in U64
    BY DEF TypeOK, Clocked
  <2>1. now \in Nat
    BY ScheduleAssumption, Naturals64 DEF Clocked
  <2>2. PICK apr, basePrice, elapsed :
            PriceAt(now) = VectorPrice(apr, basePrice, elapsed)
    BY <2>1, PublishedPrice
  <2>3. PICK x : PriceAt(now) = Narrow(x)
    <3>1. VectorPrice(apr, basePrice, elapsed).ok
      BY <2>2
    <3>2. VectorPrice(apr, basePrice, elapsed) # Overflow
      BY <3>1 DEF Overflow, Err
    <3>3. \E y : VectorPrice(apr, basePrice, elapsed) = Narrow(y)
      BY <3>2, Zenon DEF VectorPrice, IntradayPrice
    <3>. QED
      BY <2>2, <3>3
  <2>. QED
    BY <2>3, NarrowTyped
<1>. QED
  BY <1>1, ClockInvariant, PTL

\* In every reachable state the published price lies between the price of the
\* day and the next day's.
THEOREM InterpolatedAlways == Spec => []Interpolated
<1>1. Clocked => Interpolated
  <2> SUFFICES ASSUME Clocked, PriceAt(now).ok PROVE Interpolated
    BY DEF Interpolated
  <2>. DEFINE v == ActiveAt(now).val
  <2>1. now \in Nat
    BY ScheduleAssumption, Naturals64 DEF Clocked
  <2>2. /\ v \in PriceVector
        /\ StepEnd(v, now) \in Nat
        /\ PriceAt(now) = VectorPrice(v.apr, v.base_price, StepEnd(v, now))
    BY <2>1, PublishedPrice
  <2>3. v.apr \in U64 /\ v.base_price \in U64
    BY <2>2 DEF PriceVector
  <2>. DEFINE day == FullDayPrice(v.apr, v.base_price, StepEnd(v, now)).val
  <2>. HIDE DEF v
  <2>4. PriceAt(now).val \in day..Greater(day, NextDayPrice(v.apr, day).val)
    BY <2>2, <2>3, VectorPriceBetween
  <2>. QED
    BY <2>4 DEF Interpolated, PricedFor, v
<1>. QED
  BY <1>1, ClockInvariant, PTL

\* A multiple leaves no remainder.
LEMMA Multiple ==
    ASSUME NEW a \in Nat, NEW b \in Nat \ {0}, NEW r \in Nat, a = b * r
    PROVE  a % b = 0
BY SMTT(30)

\* The interval of a time is the interval of the next second, unless it ends.
LEMMA SameInterval ==
    ASSUME NEW a \in Nat, NEW d \in Nat \ {0}, (a + 1) % d # 0
    PROVE  (a + 1) \div d = a \div d
<1>. DEFINE q == a \div d
            r == (a + 1) \div d
<1>1. q \in Nat /\ d * q <= a /\ a < d * q + d
  BY DivNat
<1>2. r \in Nat /\ d * r <= a + 1 /\ a + 1 < d * r + d
  BY DivNat
<1>. HIDE DEF q, r
<1>3. a + 1 # d * r
  <2> SUFFICES ASSUME a + 1 = d * r PROVE FALSE
    OBVIOUS
  <2>1. a + 1 \in Nat
    OBVIOUS
  <2>2. (a + 1) % d = 0
    BY <1>2, <2>1, Multiple
  <2>. QED
    BY <2>2
<1>4. d * q \in Nat /\ d * r \in Nat
  BY <1>1, <1>2, MulNat
<1>6. d * r <= a
  BY <1>2, <1>3, <1>4
<1>7. ~(q + 1 <= r)
  <2> SUFFICES ASSUME q + 1 <= r PROVE FALSE
    OBVIOUS
  <2>1. d * (q + 1) <= d * r /\ d * (q + 1) = d * q + d
    BY <1>1, <1>2, SMTT(20)
  <2>. QED
    BY <1>1, <1>4, <1>6, <2>1
<1>8. ~(r + 1 <= q)
  <2> SUFFICES ASSUME r + 1 <= q PROVE FALSE
    OBVIOUS
  <2>1. d * (r + 1) <= d * q /\ d * (r + 1) = d * r + d
    BY <1>1, <1>2, SMTT(20)
  <2>. QED
    BY <1>1, <1>2, <1>4, <2>1
<1>. QED
  BY <1>1, <1>2, <1>7, <1>8 DEF q, r

\* A vector's step price changes from one second to the next only where an
\* interval ends, if it is a price on either side.
LEMMA StepPriceHolds ==
    ASSUME NEW v \in PriceVector, NEW time \in Nat,
           StepPrice(v, time + 1) # StepPrice(v, time),
           StepPrice(v, time).ok \/ StepPrice(v, time + 1).ok
    PROVE  ((time + 1) - v.base_time) % v.price_fix_duration = 0
<1>1. v.base_time \in Nat /\ v.price_fix_duration \in Nat
  BY Naturals64 DEF PriceVector
<1>2. v.base_time <= time + 1
  BY <1>1 DEF StepPrice, Err
<1>3. v.price_fix_duration \in Nat \ {0}
  BY <1>1 DEF StepPrice, Err
<1>4. CASE v.base_time = time + 1
  <2>1. (time + 1) - v.base_time = 0
    BY <1>1, <1>4
  <2>2. 0 % v.price_fix_duration = 0
    BY <1>3, SMTT(20)
  <2>. QED
    BY <2>1, <2>2
<1>5. CASE v.base_time # time + 1
  <2>. DEFINE a == time - v.base_time
              d == v.price_fix_duration
  <2>1. a \in Nat /\ (time + 1) - v.base_time = a + 1
    BY <1>1, <1>2, <1>5
  <2>2. SUFFICES ASSUME (a + 1) % d # 0 PROVE FALSE
    BY <2>1
  <2>3. StepEnd(v, time + 1) = StepEnd(v, time)
    <3>1. (a + 1) \div d = a \div d
      <4>. HIDE DEF a, d
      <4>. QED
        BY <1>3, <2>1, <2>2, SameInterval DEF d
    <3>2. StepEnd(v, time) = (a \div d + 1) * d
      BY DEF StepEnd
    <3>3. StepEnd(v, time + 1) = (((time + 1) - v.base_time) \div d + 1) * d
      BY DEF StepEnd
    <3>. HIDE DEF a, d
    <3>4. ((time + 1) - v.base_time) \div d = a \div d
      BY <2>1, <3>1, Zenon
    <3>. QED
      BY <3>2, <3>3, <3>4, Zenon
  <2>4. ~(v.base_time > time) /\ ~(v.base_time > time + 1)
    BY <1>1, <1>2, <1>5
  <2>5. StepPrice(v, time + 1) = StepPrice(v, time)
    BY <2>3, <2>4 DEF StepPrice
  <2>. QED
    BY <2>5
<1>. QED
  BY <1>4, <1>5

\* Under one vector, in every behaviour, the price holds until its interval ends.
THEOREM StepsHoldAlways == Spec => StepsHold
<1>. DEFINE Holds == SameVector /\ PriceAt(now') # PriceAt(now)
                        /\ (PriceAt(now).ok \/ PriceAt(now').ok)
                     => (now' - ActiveAt(now).val.base_time)
                            % ActiveAt(now).val.price_fix_duration = 0
<1>1. Clocked /\ [Tick]_vars => [Holds]_vars
  <2> SUFFICES ASSUME Clocked, Tick, SameVector, PriceAt(now') # PriceAt(now),
                      PriceAt(now).ok \/ PriceAt(now').ok
               PROVE  (now' - ActiveAt(now).val.base_time)
                            % ActiveAt(now).val.price_fix_duration = 0
    BY DEF vars
  <2>. DEFINE v == ActiveAt(now).val
  <2>1. now \in Nat /\ now' = now + 1
    BY ScheduleAssumption, Naturals64 DEF Clocked, Tick
  <2>2. ActiveAt(now).ok /\ ActiveAt(now') = ActiveAt(now)
    BY DEF SameVector
  <2>3. PriceAt(now) = StepPrice(v, now) /\ PriceAt(now') = StepPrice(v, now')
    BY <2>2 DEF PriceAt
  <2>4. v \in PriceVector
    BY <2>1, <2>2, ActiveLatest, ScheduleAssumption DEF Clocked, ActiveAt
  <2>. HIDE DEF v
  <2>5. /\ StepPrice(v, now + 1) # StepPrice(v, now)
        /\ StepPrice(v, now).ok \/ StepPrice(v, now + 1).ok
    BY <2>1, <2>3
  <2>6. ((now + 1) - v.base_time) % v.price_fix_duration = 0
    BY <2>1, <2>4, <2>5, StepPriceHolds
  <2>7. (now' - v.base_time) % v.price_fix_duration = 0
    BY <2>1, <2>6
  <2>. QED
    BY <2>7 DEF v
<1>. QED
  BY <1>1, ClockInvariant, PTL DEF Spec, StepsHold
-----------------------------------------------------------------------------
\* A second in which no vector starts leaves the active one; otherwise the
\* active vector is one that starts in it.
LEMMA ActiveSwitches ==
    ASSUME NEW vs \in Seq(PriceVector), NEW time \in Nat,
           FindActiveVector(vs, time + 1) # FindActiveVector(vs, time)
    PROVE  /\ FindActiveVector(vs, time + 1).ok
           /\ FindActiveVector(vs, time + 1).val.start_time = time + 1
<1>1. \A i \in DOMAIN vs : vs[i].start_time \in Nat
  <2>1. \A i \in DOMAIN vs : vs[i] \in PriceVector
    OBVIOUS
  <2>. QED
    BY <2>1, Naturals64 DEF PriceVector
<1>2. PICK i \in DOMAIN vs : vs[i].start_time = time + 1
  <2>1. SUFFICES ASSUME \A i \in DOMAIN vs : vs[i].start_time # time + 1 PROVE FALSE
    OBVIOUS
  <2>2. Started(vs, time + 1) = Started(vs, time)
    BY <1>1, <2>1 DEF Started
  <2>. DEFINE later(i, j) == \/ vs[j].start_time < vs[i].start_time
                             \/ vs[j].start_time = vs[i].start_time /\ j <= i
              active(S) == IF S = {} THEN Err("NoActiveVector")
                           ELSE Ok(vs[CHOOSE i \in S : \A j \in S : later(i, j)])
  <2>3. /\ FindActiveVector(vs, time) = active(Started(vs, time))
        /\ FindActiveVector(vs, time + 1) = active(Started(vs, time + 1))
    BY Zenon DEF FindActiveVector
  <2>. HIDE DEF active
  <2>. QED
    BY <2>2, <2>3, Zenon
<1>3. i \in Started(vs, time + 1)
  BY <1>2 DEF Started
<1>4. FindActiveVector(vs, time + 1).ok
  BY <1>3, Zenon DEF FindActiveVector, Ok
<1>. DEFINE v == FindActiveVector(vs, time + 1).val
<1>5. v.start_time <= time + 1 /\ vs[i].start_time <= v.start_time /\ v \in PriceVector
  BY <1>3, <1>4, ActiveLatest
<1>6. v.start_time \in Nat
  BY <1>5, Naturals64 DEF PriceVector
<1>. QED
  BY <1>2, <1>4, <1>5, <1>6

\* In every behaviour a vector becomes the active one in the second it was
\* announced to start, and no schedule falls back to none.
THEOREM SwitchesOnTimeAlways == Spec => SwitchesOnTime
<1>. DEFINE Switches == ActiveAt(now') # ActiveAt(now) =>
                            ActiveAt(now').ok /\ ActiveAt(now').val.start_time = now'
<1>1. Clocked /\ [Tick]_vars => [Switches]_vars
  <2> SUFFICES ASSUME Clocked, Tick, ActiveAt(now') # ActiveAt(now)
               PROVE  ActiveAt(now').ok /\ ActiveAt(now').val.start_time = now'
    BY DEF vars
  <2>1. now \in Nat /\ now' = now + 1
    BY ScheduleAssumption, Naturals64 DEF Clocked, Tick
  <2>2. vectors \in Seq(PriceVector)
    BY ScheduleAssumption DEF Clocked
  <2>3. FindActiveVector(vectors, now + 1) # FindActiveVector(vectors, now)
    BY <2>1 DEF ActiveAt
  <2>4. /\ FindActiveVector(vectors, now + 1).ok
        /\ FindActiveVector(vectors, now + 1).val.start_time = now + 1
    BY <2>1, <2>2, <2>3, ActiveSwitches
  <2>. QED
    BY <2>1, <2>4 DEF ActiveAt
<1>. QED
  BY <1>1, ClockInvariant, PTL DEF Spec, SwitchesOnTime
-----------------------------------------------------------------------------
\* At every moment of every schedule an order in two pieces is filled wherever
\* the whole is, and buys no more.
THEOREM SplittingNeverPaysAlways == Spec => []SplittingNeverPays
<1>1. TypeOK => SplittingNeverPays
  <2>. DEFINE out(amount) == BuyAmountOut(amount, PriceAt(now).val, FeeBps, 1, 1)
  <2> SUFFICES ASSUME TypeOK, NEW a \in Amounts, NEW b \in Amounts,
                      PriceAt(now).ok, a + b \in U64, out(a + b).ok
               PROVE  out(a).ok /\ out(b).ok /\ out(a).val + out(b).val <= out(a + b).val
    BY DEF SplittingNeverPays
  <2>1. a \in U64 /\ b \in U64 /\ FeeBps \in 0..MaxBasisPoints
    BY ScheduleAssumption
  <2>2. PriceAt(now).val \in Nat
    BY Naturals64 DEF TypeOK
  <2>. QED
    BY <2>1, <2>2, BuySplit
<1>. QED
  BY <1>1, TypeCorrect, PTL
=============================================================================
