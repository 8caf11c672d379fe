---------------------------- MODULE ClockProofs ----------------------------
(***************************************************************************)
(* Arithmetic of the wrapping clock, for every even range: what the        *)
(* remainders in the comparisons of Clock are, without remainders.         *)
(***************************************************************************)
EXTENDS Clock, TLAPS

\* A difference of two clock values, wrapped.
LEMMA ElapsedIs ==
  ASSUME NEW a \in Time, NEW b \in Time
  PROVE  Elapsed(a, b) = IF a <= b THEN b - a ELSE b - a + ClockMod
  BY ClockAssumption DEF Elapsed, Time

\* A clock value plus less than a full turn, wrapped.
LEMMA LaterIs ==
  ASSUME NEW t \in Time, NEW n \in Time
  PROVE  Later(t, n) = IF t + n < ClockMod THEN t + n ELSE t + n - ClockMod
  BY ClockAssumption DEF Later, Time

\* The clock's half range.
LEMMA HalfIs == Half \in Nat /\ 2 * Half = ClockMod
  BY ClockAssumption DEF Half

\* Before and after: a value less than half a turn ahead is exactly one the
\* signed comparison calls later.
LEMMA AfterIs ==
  ASSUME NEW a \in Time, NEW b \in Time
  PROVE  After(a, b) <=> Elapsed(b, a) \in 1 .. Half - 1
  BY DEF After, Elapsed

\* The two distances between clock values make up a full turn.
LEMMA Opposite ==
  ASSUME NEW a \in Time, NEW b \in Time
  PROVE  /\ Elapsed(a, b) \in Time
         /\ Elapsed(b, a) = IF Elapsed(a, b) = 0 THEN 0 ELSE ClockMod - Elapsed(a, b)
<1>1. /\ Elapsed(a, b) = IF a <= b THEN b - a ELSE b - a + ClockMod
      /\ Elapsed(b, a) = IF b <= a THEN a - b ELSE a - b + ClockMod
  BY ElapsedIs
<1> QED
  BY <1>1, ClockAssumption DEF Time

\* One tick brings what is ahead closer and what is past farther away.
LEMMA TickDistance ==
  ASSUME NEW a \in Time, NEW t \in Time
  PROVE  /\ Later(t, 1) \in Time
         /\ Elapsed(t, a) # 0 => Elapsed(Later(t, 1), a) = Elapsed(t, a) - 1
         /\ Elapsed(a, t) # ClockMod - 1 => Elapsed(a, Later(t, 1)) = Elapsed(a, t) + 1
<1> DEFINE u == Later(t, 1)
<1>1. ClockMod \in Nat /\ ClockMod >= 2 /\ 1 \in Time
  BY ClockAssumption DEF Time
<1>2. u = IF t + 1 < ClockMod THEN t + 1 ELSE t + 1 - ClockMod
  BY <1>1, LaterIs
<1> HIDE DEF u
<1>3. u \in Time
  BY <1>1, <1>2 DEF Time
<1>4. /\ Elapsed(a, t) = IF a <= t THEN t - a ELSE t - a + ClockMod
      /\ Elapsed(t, a) = IF t <= a THEN a - t ELSE a - t + ClockMod
      /\ Elapsed(a, u) = IF a <= u THEN u - a ELSE u - a + ClockMod
      /\ Elapsed(u, a) = IF u <= a THEN a - u ELSE a - u + ClockMod
  BY <1>3, ElapsedIs
<1>5. /\ Elapsed(t, a) # 0 => Elapsed(u, a) = Elapsed(t, a) - 1
      /\ Elapsed(a, t) # ClockMod - 1 => Elapsed(a, u) = Elapsed(a, t) + 1
  BY <1>1, <1>2, <1>3, <1>4 DEF Time
<1> QED
  BY <1>3, <1>5 DEF u

\* Of two clock values not both can be later, and none is later than itself.
LEMMA AfterAsymmetric ==
  ASSUME NEW a \in Time, NEW b \in Time
  PROVE  ~(After(a, b) /\ After(b, a)) /\ ~After(a, a) /\ Elapsed(a, a) = 0
<1>1. Elapsed(a, b) \in Time /\ Elapsed(b, a) = (IF Elapsed(a, b) = 0 THEN 0 ELSE ClockMod - Elapsed(a, b))
  BY Opposite
<1>2. Elapsed(a, a) = IF a <= a THEN a - a ELSE a - a + ClockMod
  BY ElapsedIs
<1>3. Elapsed(a, a) = 0
  BY <1>2 DEF Time
<1>4. /\ After(a, b) <=> Elapsed(b, a) \in 1 .. Half - 1
      /\ After(b, a) <=> Elapsed(a, b) \in 1 .. Half - 1
      /\ After(a, a) <=> Elapsed(a, a) \in 1 .. Half - 1
  BY AfterIs
<1> QED
  BY <1>1, <1>3, <1>4, HalfIs, ClockAssumption DEF Time
=============================================================================
