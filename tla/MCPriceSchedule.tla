-------------------------- MODULE MCPriceSchedule --------------------------
(***************************************************************************)
(* Three slots, days of four seconds, prices around a dozen units: four    *)
(* compounding days, intervals shorter and longer than a day, vectors that *)
(* start together, one that outgrows a u64 and one that cannot be priced.  *)
(***************************************************************************)
EXTENDS PriceSchedule

MCTenTo == [d \in 0..2 |-> 10 ^ d]

Vector(start, base, price, apr, duration) ==
    [start_time |-> start, base_time |-> base, base_price |-> price,
     apr |-> apr, price_fix_duration |-> duration]

MCVectors ==
    {Vector(0, 0, 0, 0, 0),
     Vector(1, 1, 13, 15, 1),
     Vector(2, 1, 10, 7, 3),
     Vector(5, 2, 11, 15, 6),
     Vector(5, 5, 9, 0, 2),
     Vector(8, 8, 81, 180, 1),
     Vector(12, 13, 12, 7, 1)}

MCSchedules == [1..3 -> MCVectors]
=============================================================================
