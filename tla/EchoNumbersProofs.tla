-------------------------- MODULE EchoNumbersProofs -------------------------
(* Proofs about the numbers that the echo canceller keeps: the states of     *)
(* its DC filters, for every width of the fixed point numbers that leaves    *)
(* room for twice the scaled peak, and its running estimates, for every      *)
(* number of taps, time constant and sample width.                           *)
EXTENDS DcFilter, EchoLevels, TLAPS

-----------------------------------------------------------------------------
(* DC filters: arithmetic                                                   *)

\* Scaling keeps the order of two numbers.
LEMMA Monotone ==
  ASSUME NEW f \in Nat, NEW a \in Int, NEW b \in Int, a <= b
  PROVE  f * a \in Int /\ f * b \in Int /\ f * a <= f * b
<1>1. f * (b - a) >= 0
  OBVIOUS
<1>2. f * (b - a) = f * b - f * a /\ f * a \in Int /\ f * b \in Int
  OBVIOUS
<1> QED BY <1>1, <1>2

\* A scaled sample is fifteen sixteenths of its fixed point form.
LEMMA ScaleIs == ASSUME NEW x \in Int PROVE Scale(x) = 15 * (Part * x) /\ Part * x \in Int
<1> USE DcAssumption
<1>1. Part * x \in Int
  OBVIOUS
<1>2. x * One = 16 * (Part * x)
  BY DEF One
<1>3. (16 * (Part * x)) \div 16 = Part * x
  <2> DEFINE p == Part * x
  <2>1. p \in Int
    BY <1>1
  <2> HIDE DEF p
  <2>2. (16 * p) \div 16 = p
    BY <2>1
  <2> QED BY <2>2 DEF p
<1> QED BY <1>1, <1>2, <1>3 DEF Scale

\* Scaled samples are between the scaled extremes.
LEMMA ScaleBounded ==
  /\ DcPeak \in Nat /\ 2 * DcPeak < Top
  /\ \A x \in DcSamples : Scale(x) \in -DcPeak..DcPeak
<1> USE DcAssumption
<1>1. Largest \in Int /\ -Largest \in Int
  OBVIOUS
<1>2. Part * Largest \in Nat
  OBVIOUS
<1>3. DcPeak = 15 * (Part * Largest)
  BY <1>1, ScaleIs DEF DcPeak
<1>4. ASSUME NEW x \in DcSamples PROVE Scale(x) \in -DcPeak..DcPeak
  <2>1. x \in Int /\ x <= Largest /\ -x <= Largest /\ -x \in Int
    BY DEF DcSamples
  <2>2. Part * x <= Part * Largest /\ Part * (-x) <= Part * Largest
    BY <2>1, <1>1, Monotone
  <2>3. Part * (-x) = -(Part * x) /\ Part * x \in Int
    BY <2>1
  <2>4. Scale(x) = 15 * (Part * x)
    BY <2>1, ScaleIs
  <2> QED BY <2>2, <2>3, <2>4, <1>2, <1>3
<1> QED BY <1>2, <1>3, <1>4

\* The filter computes what unbounded arithmetic would, and keeps its total.
\* t and u are the last scaled sample and the new one, z is the total so far.
LEMMA FilterArithmetic ==
  ASSUME NEW p \in Nat, 2 * p < Top,
         NEW t \in -p..p, NEW u \in -p..p, NEW z \in -p..p
  PROVE  LET y == t - z
             n == Int32(y + Int32(Int32(-(y \div 8) + u) - t))
         IN  /\ z + (y \div 8) \in -p..p
             /\ n = u - (z + (y \div 8))
<1> DEFINE y == t - z
           q == y \div 8
<1>1. y \in Int /\ q \in Int /\ 8 * q <= y /\ y <= 8 * q + 7
  OBVIOUS
<1>2. y = t - z
  OBVIOUS
<1> HIDE DEF y, q
<1>3. z + q \in -p..p
  BY <1>1, <1>2
<1>4. -q + u \in -Top..Top - 1
  <2>1. 8 * q <= 2 * p /\ 8 * q >= -2 * p - 7
    BY <1>1, <1>2
  <2> QED BY <2>1, <1>1, DcAssumption
<1>5. Int32(-q + u) = -q + u
  BY <1>4, <1>1, DcAssumption DEF Int32
<1>6. Int32(y + Int32(-q + u - t)) = u - (z + q)
  <2> DEFINE b == -q + u - t
  <2>1. b \in Int /\ b < 3 * Top /\ b >= -3 * Top
    BY <1>1, <1>4, DcAssumption
  <2>2. y + b = u - (z + q)
    BY <1>1, <1>2
  <2>3. u - (z + q) \in -(2 * p)..2 * p
    BY <1>1, <1>3
  <2> HIDE DEF b
  <2>4. Int32(y + Int32(b)) = y + b
    BY <2>1, <2>2, <2>3, <1>1, DcAssumption DEF Int32
  <2> QED BY <2>2, <2>4 DEF b
<1> QED BY <1>3, <1>5, <1>6 DEF y, q

-----------------------------------------------------------------------------
(* DC filters: the invariant                                                *)

DcInv == DcTypeOK /\ Exact /\ NoDcLeft

\* The invariant holds initially.
LEMMA DcBegins == DcInit => DcInv
<1> USE DcAssumption, ScaleBounded
<1> SUFFICES ASSUME DcInit PROVE DcInv
  OBVIOUS
<1>1. 0 \in DcSamples
  BY DEF DcSamples
<1> QED BY <1>1 DEF DcInit, DcInv, DcTypeOK, Exact, NoDcLeft, DcMagnitude

\* The limited output is one of the outputs.
LEMMA LimitedBounded == ASSUME NEW n \in Int PROVE Limited(n) \in -Limit..Limit
  BY DcAssumption DEF Limited

\* Filtering a sample keeps the invariant.
LEMMA FilterStep ==
  ASSUME DcInv, NEW x \in DcSamples, Filter(x), tick' = 1 - tick
  PROVE  DcInv'
<1> USE DcAssumption, ScaleBounded
<1> DEFINE u == Scale(x)
           q == state \div 8
<1>1. last \in -DcPeak..DcPeak /\ total \in -DcPeak..DcPeak /\ u \in -DcPeak..DcPeak
  BY DEF DcInv, DcTypeOK, NoDcLeft, DcMagnitude
<1>2. state = last - total
  BY DEF DcInv, Exact
<1>3. /\ state' = Int32(state + Int32(Int32(-q + u) - last))
      /\ last' = u /\ total' = total + q /\ on' = on
      /\ out' = Limited(state' \div One)
  BY DEF Filter
<1> HIDE DEF u
<1>4. total + q \in -DcPeak..DcPeak /\ state' = u - (total + q)
  <2> DEFINE p == DcPeak
  <2>1. p \in Nat /\ 2 * p < Top /\ last \in -p..p /\ u \in -p..p /\ total \in -p..p
    BY <1>1
  <2> HIDE DEF p
  <2> DEFINE y == last - total
             n == Int32(y + Int32(Int32(-(y \div 8) + u) - last))
  <2>2. total + (y \div 8) \in -p..p /\ n = u - (total + (y \div 8))
    BY <2>1, FilterArithmetic
  <2> QED BY <2>2, <1>2, <1>3 DEF p
<1> HIDE DEF q
<1>5. state' = last' - total' /\ total' \in -DcPeak..DcPeak /\ last' \in -DcPeak..DcPeak
  BY <1>1, <1>3, <1>4
<1>6. /\ state' \in -(2 * DcPeak)..2 * DcPeak /\ state' \in Int
      /\ DcPeak \in Nat /\ 2 * DcPeak < Top
  <2>1. DcPeak \in Nat /\ 2 * DcPeak < Top
    OBVIOUS
  <2>2. ASSUME NEW p \in Nat, NEW a \in -p..p, NEW b \in -p..p
        PROVE  a - b \in -(2 * p)..2 * p /\ a - b \in Int
    OBVIOUS
  <2> QED BY <2>1, <2>2, <1>5
<1>7. state' \in -Top..Top - 1
  BY <1>6
<1>9. Exact' /\ NoDcLeft'
  <2>1. ASSUME NEW p \in Nat, NEW a \in -p..p PROVE DcMagnitude(a) <= p
    BY <2>1 DEF DcMagnitude
  <2>2. DcMagnitude(state') <= 2 * DcPeak
    <3>1. 2 * DcPeak \in Nat
      BY <1>6
    <3> QED BY <3>1, <2>1, <1>6
  <2>3. DcMagnitude(total') <= DcPeak
    BY <2>1, <1>5, <1>6
  <2> QED BY <2>2, <2>3, <1>5 DEF Exact, NoDcLeft
<1>8. out' \in -Limit..Limit
  <2>1. One \in Nat \ {0}
    BY DEF One
  <2>2. state' \div One \in Int
    BY <2>1, <1>7
  <2> QED BY <2>2, <1>3, LimitedBounded
<1>10. tick' \in {0, 1}
  BY DEF DcInv, DcTypeOK
<1> QED BY <1>3, <1>5, <1>7, <1>8, <1>9, <1>10 DEF DcInv, DcTypeOK

\* Every step keeps the invariant.
LEMMA DcSteps == DcInv /\ [DcNext]_dcVars => DcInv'
<1> USE DcAssumption, ScaleBounded
<1> SUFFICES ASSUME DcInv, [DcNext]_dcVars PROVE DcInv'
  OBVIOUS
<1>1. ASSUME NEW x \in DcSamples, Filter(x), tick' = 1 - tick PROVE DcInv'
  BY <1>1, FilterStep
<1>2. ASSUME NEW x \in DcSamples, Pass(x), tick' = 1 - tick PROVE DcInv'
  BY <1>2 DEF Pass, DcInv, DcTypeOK, Exact, NoDcLeft
<1>3. CASE WriteDcMode
  BY <1>3 DEF WriteDcMode, DcInv, DcTypeOK, Exact, NoDcLeft
<1>4. CASE DcFlush
  BY <1>4 DEF DcFlush, DcInv, DcTypeOK, Exact, NoDcLeft, DcMagnitude
<1>5. CASE UNCHANGED dcVars
  BY <1>5 DEF dcVars, DcInv, DcTypeOK, Exact, NoDcLeft
<1> QED BY <1>1, <1>2, <1>3, <1>4, <1>5 DEF DcNext, DcSample

\* The invariant is one.
LEMMA DcInvariance == DcSpec => []DcInv
  BY DcBegins, DcSteps, PTL DEF DcSpec

-----------------------------------------------------------------------------
(* DC filters: the theorems                                                 *)

\* Type correctness: the state of the filter fits an int, the output is limited.
THEOREM DcTypeCorrect == DcSpec => []DcTypeOK
<1>1. DcInv => DcTypeOK
  BY DEF DcInv
<1> QED BY <1>1, DcInvariance, PTL

\* The wrapping sum on the way to the new state of either filter of echo.c
\* does no harm: the state is the one of unbounded arithmetic.
THEOREM OverflowIsHarmless == DcSpec => []Exact
<1>1. DcInv => Exact
  BY DEF DcInv
<1> QED BY <1>1, DcInvariance, PTL

\* All that the filter ever lets through adds up to no more than one peak
\* sample: it removes DC from every input.
THEOREM DcIsRemoved == DcSpec => []NoDcLeft
<1>1. DcInv => NoDcLeft
  BY DEF DcInv
<1> QED BY <1>1, DcInvariance, PTL

-----------------------------------------------------------------------------
(* Levels and power: arithmetic                                             *)

\* Scaling by a positive factor does not shrink a difference.
LEMMA Scaled ==
  ASSUME NEW h \in Nat \ {0}, NEW a \in Int, NEW b \in Int, a <= b
  PROVE  h * a \in Int /\ h * b \in Int /\ h * b - h * a >= b - a
<1>1. h * (b - a) >= b - a
  OBVIOUS
<1>2. h * (b - a) = h * b - h * a
  OBVIOUS
<1> QED BY <1>1, <1>2

\* One unit more, scaled, is the factor more.
LEMMA ScaledStep ==
  ASSUME NEW h \in Nat \ {0}, NEW a \in Int, NEW b \in Int, a >= b + 1
  PROVE  h * a >= h * b + h
<1>1. h * (a - (b + 1)) >= 0
  OBVIOUS
<1>2. h * (a - (b + 1)) = h * a - h * b - h
  OBVIOUS
<1>3. h * a \in Int /\ h * b \in Int
  OBVIOUS
<1> QED BY <1>1, <1>2, <1>3

\* What rounded division by an even number is.
LEMMA Rounded ==
  ASSUME NEW a \in Int, NEW h \in Nat \ {0}
  PROVE  LET q == (a + h) \div (2 * h) IN
           /\ q \in Int
           /\ (2 * h) * q <= a + h /\ a - h < (2 * h) * q
  BY SMT

\* A leaky integrator of a rectified signal stays within the signal's range.
\* a is the accumulator, v the level, m the magnitude of the sample, p the peak.
LEMMA Leaky ==
  ASSUME NEW h \in Nat \ {0}, NEW p \in Nat, NEW m \in Nat, m <= p,
         NEW a \in Nat, NEW v \in Nat, v <= p, a < (2 * h) * p + h,
         (2 * h) * v <= a + h, a - h < (2 * h) * v,
         NEW b \in Int, b = a + m - v,
         NEW w \in Int, (2 * h) * w <= b + h, b - h < (2 * h) * w
  PROVE  b \in Nat /\ b < (2 * h) * p + h /\ w \in Nat /\ w <= p
<1> DEFINE l == 2 * h
<1>1. l \in Nat \ {0} /\ l = h + h
  OBVIOUS
<1>2. l * p \in Int /\ l * v \in Int /\ l * w \in Int
  BY <1>1
<1>3. l * p - l * v >= p - v
  BY <1>1, Scaled
<1>4. l * v - h >= v \/ v = 0
  <2>1. CASE v >= 1
    <3>1. h * v >= h * 0 + h
      BY <2>1, ScaledStep
    <3>2. h * v - h * 0 >= v - 0
      BY Scaled
    <3>3. l * v = h * v + h * v /\ h * v \in Int /\ h * 0 = 0
      OBVIOUS
    <3> QED BY <3>1, <3>2, <3>3
  <2> QED BY <2>1
<1>5. w <= -1 => l * w <= -l
  <2>1. w <= -1 => l * 0 >= l * w + l
    BY <1>1, ScaledStep
  <2> QED BY <2>1, <1>1, <1>2
<1>6. w >= p + 1 => l * w >= l * p + l
  BY <1>1, ScaledStep
<1>7. l * v <= a + h /\ a - h < l * v /\ l * w <= b + h /\ b - h < l * w /\ a < l * p + h
  OBVIOUS
<1> HIDE DEF l
<1>8. b \in Nat
  BY <1>2, <1>4, <1>7
<1>9. b < l * p + h
  BY <1>2, <1>3, <1>7
<1>10. w >= 0
  BY <1>1, <1>2, <1>5, <1>7, <1>8
<1>11. w <= p
  BY <1>1, <1>2, <1>6, <1>7, <1>9
<1> QED BY <1>8, <1>9, <1>10, <1>11 DEF l

\* Clamping at zero moves a value towards anything that is not negative, and
\* adding a rounded quotient does what adding the quotient does, up to half of
\* the divisor. p is the estimate, e and f the true sums before and after.
LEMMA RoundedUpdate ==
  ASSUME NEW h \in Nat \ {0}, NEW p \in Int, NEW e \in Int, NEW f \in Nat
  PROVE  LET q == p + ((f - e + h) \div (2 * h)) IN
           Magnitude((2 * h) * Least(q) - f) <= Magnitude((2 * h) * p - e) + h
<1> DEFINE l == 2 * h
           d == (f - e + h) \div l
           q == p + d
<1>1. d \in Int /\ l * d <= f - e + h /\ f - e - h < l * d
  <2>1. f - e \in Int
    OBVIOUS
  <2> QED BY <2>1, Rounded
<1>2. l \in Nat \ {0}
  OBVIOUS
<1> HIDE DEF l, d
<1>3. l * q = l * p + l * d /\ l * p \in Int /\ l * d \in Int /\ q \in Int
  BY <1>1, <1>2
<1>4. Magnitude(l * q - f) <= Magnitude(l * p - e) + h
  BY <1>1, <1>3 DEF Magnitude
<1>5. Magnitude(l * Least(q) - f) <= Magnitude(l * q - f)
  <2>1. CASE q >= 0
    <3>1. Least(q) = q
      BY <2>1, <1>3 DEF Least
    <3> QED BY <3>1, <1>2, <1>3 DEF Magnitude
  <2>2. CASE q < 0
    <3>1. l * q \in Int /\ l * q <= 0
      BY <2>2, <1>2, <1>3
    <3>2. l * Least(q) = 0
      BY <2>2, <1>2, <1>3 DEF Least
    <3> QED BY <3>1, <3>2 DEF Magnitude
  <2> QED BY <2>1, <2>2, <1>3
<1>6. l * Least(q) \in Int
  BY <1>2, <1>3 DEF Least
<1>7. Magnitude(l * Least(q) - f) <= Magnitude(l * p - e) + h
  BY <1>3, <1>4, <1>5, <1>6 DEF Magnitude
<1> QED BY <1>7 DEF l, d

-----------------------------------------------------------------------------
(* Levels and power: the invariant                                          *)

\* The history variable holds the running sums of squares it is said to hold.
SumsRight ==
  /\ sums[0] = 0
  /\ \A i \in 0..Taps - 1 : sums[i + 1] = sums[i] + hist[i] * hist[i]

\* A sum of squares does not decrease.
SumsGrow == \A i, j \in 0..Taps : i <= j => sums[i] <= sums[j]

\* A level is its accumulator divided by the leak and rounded.
Inv ==
  /\ TypeOK
  /\ LevelBounded
  /\ level = (acc + LeakHalf) \div Leak
  /\ SumsRight /\ SumsGrow

\* The sizes that are used.
LEMMA Sizes ==
  /\ Taps \in Nat \ {0} /\ Leak \in Nat \ {0} /\ 0 < Leak * Peak + LeakHalf
  /\ LeakHalf \div Leak = 0
<1> USE LevelsAssumption
<1>1. Leak \in Nat \ {0} /\ Leak * Peak \in Nat
  BY DEF Leak
<1>2. LeakHalf \div Leak = 0
  BY DEF Leak
<1>3. 0 < Leak * Peak + LeakHalf
  BY <1>1
<1> QED BY <1>1, <1>2, <1>3 DEF Taps

\* A level follows a rectified signal without leaving its range.
LEMMA LevelStep ==
  ASSUME TypeOK, LevelBounded, level = (acc + LeakHalf) \div Leak, NEW x \in Samples, Average(x)
  PROVE  /\ acc' \in Nat /\ level' \in Nat /\ LevelBounded'
         /\ level' = (acc' + LeakHalf) \div Leak
<1> DEFINE m == Magnitude(x)
<1> USE LevelsAssumption
<1>1. m \in Nat /\ m <= Peak
  BY DEF Magnitude, Samples
<1>2. acc \in Nat /\ level \in Nat /\ level <= Peak /\ acc < (2 * LeakHalf) * Peak + LeakHalf
  BY DEF TypeOK, LevelBounded, Leak
<1>3. level = (acc + LeakHalf) \div (2 * LeakHalf)
  BY DEF Leak
<1>4. acc' = acc + m - level /\ level' = (acc' + LeakHalf) \div (2 * LeakHalf)
  BY DEF Average, Leak
<1>5. acc' \in Int
  BY <1>1, <1>2, <1>4
<1>6. (2 * LeakHalf) * level <= acc + LeakHalf /\ acc - LeakHalf < (2 * LeakHalf) * level
  <2> DEFINE q == (acc + LeakHalf) \div (2 * LeakHalf)
  <2>1. acc \in Int
    BY <1>2
  <2>2. (2 * LeakHalf) * q <= acc + LeakHalf /\ acc - LeakHalf < (2 * LeakHalf) * q
    BY <2>1, Rounded
  <2> QED BY <2>2, <1>3
<1>7. /\ level' \in Int /\ (2 * LeakHalf) * level' <= acc' + LeakHalf
      /\ acc' - LeakHalf < (2 * LeakHalf) * level'
  BY <1>4, <1>5, Rounded
<1> HIDE DEF m
<1>8. /\ acc' \in Nat /\ acc' < (2 * LeakHalf) * Peak + LeakHalf
      /\ level' \in Nat /\ level' <= Peak
  BY <1>1, <1>2, <1>4, <1>5, <1>6, <1>7, Leaky
<1> QED BY <1>4, <1>8 DEF LevelBounded, Leak

\* The square that goes out is in every sum above its place.
LEMMA SquareInside ==
  ASSUME Inv, NEW i \in 0..Taps, NEW j \in 0..Taps, i <= pos, pos < j
  PROVE  sums[i] + hist[pos] * hist[pos] <= sums[j]
<1>1. pos \in 0..Taps - 1 /\ pos \in 0..Taps /\ pos + 1 \in 0..Taps /\ pos + 1 <= j
  BY Sizes DEF Inv, TypeOK
<1>2. sums[pos + 1] = sums[pos] + hist[pos] * hist[pos]
  BY <1>1 DEF Inv, SumsRight
<1>3. sums[i] <= sums[pos] /\ sums[pos + 1] <= sums[j]
  BY <1>1 DEF Inv, SumsGrow
<1>4. hist[pos] \in Int /\ sums[i] \in Int /\ sums[j] \in Int /\ sums[pos] \in Int
  BY <1>1 DEF Inv, TypeOK, Samples
<1>5. hist[pos] * hist[pos] \in Int
  BY <1>4
<1> QED BY <1>2, <1>3, <1>4, <1>5

\* A square is not negative.
LEMMA Square == ASSUME NEW x \in Int PROVE x * x \in Nat
<1>1. CASE x >= 0
  BY <1>1
<1>2. CASE x < 0
  <2>1. (-x) * (-x) \in Nat
    BY <1>2
  <2>2. (-x) * (-x) = x * x
    OBVIOUS
  <2> QED BY <2>1, <2>2
<1> QED BY <1>1, <1>2

\* The invariant holds initially.
LEMMA InvInit == Init => Inv
<1> SUFFICES ASSUME Init PROVE Inv
  OBVIOUS
<1> USE LevelsAssumption, Sizes
<1>1. TypeOK
  <2>1. 0 \in Samples
    BY DEF Samples
  <2> QED BY <2>1 DEF Init, TypeOK
<1>2. LevelBounded /\ level = (acc + LeakHalf) \div Leak
  BY DEF Init, LevelBounded
<1>3. SumsRight /\ SumsGrow
  BY DEF Init, SumsRight, SumsGrow
<1> QED BY <1>1, <1>2, <1>3 DEF Inv

\* A sample replaces one square in the sums above its place.
LEMMA SumsStep ==
  ASSUME Inv, NEW x \in Samples, Sample(x)
  PROVE  sums' \in [0..Taps -> Int] /\ SumsRight' /\ SumsGrow'
<1> DEFINE new == x * x
           old == hist[pos] * hist[pos]
<1> USE Sizes
<1>1. pos \in 0..Taps - 1 /\ hist \in [0..Taps - 1 -> Samples] /\ sums \in [0..Taps -> Int]
  BY DEF Inv, TypeOK
<1>2. new \in Nat /\ old \in Nat
  BY <1>1, Square DEF Samples
<1>3. sums' = [i \in 0..Taps |-> sums[i] + IF i > pos THEN new - old ELSE 0]
  BY DEF Sample
<1>4. hist' = [hist EXCEPT ![pos] = x]
  BY DEF Sample
<1>5. \A i \in 0..Taps - 1 : i # pos => hist'[i] = hist[i]
  BY <1>1, <1>4
<1>6. hist'[pos] = x
  BY <1>1, <1>4
<1>7. \A i \in 0..Taps - 1 : sums[i + 1] = sums[i] + hist[i] * hist[i]
  BY DEF Inv, SumsRight
<1>8. \A i \in 0..Taps, j \in 0..Taps : i <= pos /\ pos < j => sums[i] + old <= sums[j]
  BY SquareInside
<1>9. \A i, j \in 0..Taps : i <= j => sums[i] <= sums[j]
  BY DEF Inv, SumsGrow
<1>10. sums[0] = 0
  BY DEF Inv, SumsRight
<1>11. SumsRight'
  <2>1. sums'[0] = 0
    BY <1>1, <1>3, <1>10
  <2>2. ASSUME NEW i \in 0..Taps - 1 PROVE sums'[i + 1] = sums'[i] + hist'[i] * hist'[i]
    <3> DEFINE sq == hist[i] * hist[i]
    <3>1. i \in 0..Taps /\ i + 1 \in 0..Taps /\ sums[i] \in Int /\ sums[i + 1] \in Int
      BY <1>1
    <3>2. sq \in Nat /\ sums[i + 1] = sums[i] + sq
      <4>1. hist[i] \in Int
        BY <1>1 DEF Samples
      <4>2. sq \in Nat
        BY <4>1, Square
      <4>3. sums[i + 1] = sums[i] + sq
        BY <1>7, Zenon
      <4> QED BY <4>2, <4>3
    <3>3. CASE i = pos
      <4>1. hist'[i] * hist'[i] = new /\ sq = old
        BY <3>3, <1>6
      <4>2. sums'[i + 1] = sums[i + 1] + (new - old) /\ sums'[i] = sums[i] + 0
        BY <3>1, <3>3, <1>1, <1>3
      <4> HIDE DEF new, old, sq
      <4> QED BY <4>1, <4>2, <3>1, <3>2, <1>2
    <3>4. CASE i # pos
      <4>1. hist'[i] * hist'[i] = sq
        BY <3>4, <1>5
      <4>2. /\ sums'[i + 1] = sums[i + 1] + IF i + 1 > pos THEN new - old ELSE 0
            /\ sums'[i] = sums[i] + IF i > pos THEN new - old ELSE 0
        BY <3>1, <1>3
      <4>3. i + 1 > pos <=> i > pos
        BY <3>4, <1>1
      <4> HIDE DEF new, old, sq
      <4> QED BY <4>1, <4>2, <4>3, <3>1, <3>2, <1>2
    <3> QED BY <3>3, <3>4
  <2> QED BY <2>1, <2>2 DEF SumsRight
<1> HIDE DEF new, old
<1>12. sums' \in [0..Taps -> Int]
  BY <1>1, <1>2, <1>3
<1>13. SumsGrow'
  <2> SUFFICES ASSUME NEW i \in 0..Taps, NEW j \in 0..Taps, i <= j
               PROVE  sums'[i] <= sums'[j]
    BY DEF SumsGrow
  <2>1. /\ sums'[i] = sums[i] + IF i > pos THEN new - old ELSE 0
        /\ sums'[j] = sums[j] + IF j > pos THEN new - old ELSE 0
    BY <1>3
  <2>2. sums[i] \in Int /\ sums[j] \in Int /\ sums[i] <= sums[j]
    BY <1>1, <1>9
  <2>3. i <= pos /\ pos < j => sums[i] + old <= sums[j]
    BY <1>8
  <2> QED BY <2>1, <2>2, <2>3, <1>1, <1>2
<1> QED BY <1>11, <1>12, <1>13

\* Every step keeps the invariant.
LEMMA InvStep == Inv /\ [Next]_vars => Inv'
<1> SUFFICES ASSUME Inv, [Next]_vars PROVE Inv'
  OBVIOUS
<1> USE LevelsAssumption, Sizes
<1>1. CASE Flush
  <2>1. TypeOK'
    <3>1. 0 \in Samples /\ tx \in Samples
      BY DEF Samples, Inv, TypeOK
    <3> QED BY <1>1, <3>1 DEF Flush, TypeOK
  <2>2. LevelBounded' /\ level' = (acc' + LeakHalf) \div Leak
    BY <1>1 DEF Flush, LevelBounded
  <2>3. SumsRight' /\ SumsGrow'
    BY <1>1 DEF Flush, SumsRight, SumsGrow
  <2> QED BY <2>1, <2>2, <2>3 DEF Inv
<1>2. ASSUME NEW x \in Samples, Sample(x) PROVE Inv'
  <2>1. /\ acc' \in Nat /\ level' \in Nat /\ LevelBounded'
        /\ level' = (acc' + LeakHalf) \div Leak
    BY <1>2, LevelStep DEF Inv, Sample
  <2>2. hist' \in [0..Taps - 1 -> Samples] /\ pos' \in 0..Taps - 1
    BY <1>2 DEF Sample, Inv, TypeOK
  <2>3. Pstates' \in Nat
    <3> DEFINE sq(y) == y * y
    <3>1. hist[pos] \in Int /\ x \in Int /\ Pstates \in Nat
      BY DEF Inv, TypeOK, Samples
    <3>2. sq(x) \in Int /\ sq(hist[pos]) \in Int
      BY <3>1
    <3>3. Pstates' = Least(Pstates + ((sq(x) - sq(hist[pos]) + Half) \div Taps))
      BY <1>2 DEF Sample, Power
    <3> HIDE DEF sq
    <3>4. (sq(x) - sq(hist[pos]) + Half) \div Taps \in Int
      BY <3>2
    <3> QED BY <3>1, <3>3, <3>4 DEF Least
  <2>4. sums' \in [0..Taps -> Int] /\ SumsRight' /\ SumsGrow'
    BY <1>2, SumsStep
  <2>5. tx' \in Samples
    BY <1>2 DEF Sample
  <2> QED BY <2>1, <2>2, <2>3, <2>4, <2>5 DEF Inv, TypeOK
<1>3. CASE UNCHANGED vars
  BY <1>3 DEF vars, Inv, TypeOK, LevelBounded, SumsRight, SumsGrow
<1> QED BY <1>1, <1>2, <1>3 DEF Next

\* The invariant is one.
LEMMA Invariance == Spec => []Inv
  BY InvInit, InvStep, PTL DEF Spec

-----------------------------------------------------------------------------
(* Levels and power: the theorems                                           *)

\* No estimate is ever negative, so the logarithm of the power and the
\* comparisons of levels in echo_can_update are of magnitudes.
THEOREM TypeCorrect == Spec => []TypeOK
<1>1. Inv => TypeOK
  BY DEF Inv
<1> QED BY <1>1, Invariance, PTL

\* A level of echo_can_update stays within the range of the samples and its
\* accumulator within Leak times that, whatever the signal.
THEOREM LevelsAreBounded == Spec => []LevelBounded
<1>1. Inv => LevelBounded
  BY DEF Inv
<1> QED BY <1>1, Invariance, PTL

\* Updating Pstates in place costs at most half a unit a sample, clamp included.
THEOREM PowerDriftsSlowly == Spec => PowerErrorStep
<1> DEFINE Near == Magnitude(Taps * Pstates' - energy') <=
                     Magnitude(Taps * Pstates - energy) + Half
<1>1. ASSUME Inv, Inv', [Next]_vars PROVE [Near]_vars
  <2> SUFFICES ASSUME Next PROVE Near
    BY <1>1
  <2> USE LevelsAssumption, Sizes
  <2>1. energy \in Int /\ energy' \in Nat /\ Pstates \in Nat
    <3>1. \A s : s \in [0..Taps -> Int] /\ s[0] = 0 /\ s[0] <= s[Taps] => s[Taps] \in Nat
      OBVIOUS
    <3> QED BY <3>1, <1>1 DEF Inv, TypeOK, SumsRight, SumsGrow, energy
  <2>2. CASE Flush
    <3>1. Pstates' = 0 /\ energy' = 0
      BY <2>2 DEF Flush, energy
    <3>2. Taps * Pstates \in Int
      BY <2>1
    <3> QED BY <3>1, <3>2, <2>1 DEF Magnitude
  <2>3. ASSUME NEW x \in Samples, Sample(x) PROVE Near
    <3> DEFINE d == x * x - hist[pos] * hist[pos]
    <3>1. pos \in 0..Taps - 1 /\ hist[pos] \in Int /\ x \in Int
      BY <1>1 DEF Inv, TypeOK, Samples
    <3>2. d \in Int
      <4>1. x * x \in Nat /\ hist[pos] * hist[pos] \in Nat
        BY <3>1, Square
      <4> QED BY <4>1
    <3>3. energy' = energy + d
      BY <2>3, <3>1 DEF Sample, energy
    <3>4. Pstates' = Least(Pstates + ((d + Half) \div (2 * Half)))
      BY <2>3 DEF Sample, Power, Taps
    <3> HIDE DEF d
    <3>5. d = energy' - energy
      BY <2>1, <3>2, <3>3
    <3> DEFINE q == Pstates + ((energy' - energy + Half) \div (2 * Half))
    <3>6. Magnitude((2 * Half) * Least(q) - energy') <=
            Magnitude((2 * Half) * Pstates - energy) + Half
      BY <2>1, RoundedUpdate
    <3>7. Pstates' = Least(q)
      BY <3>4, <3>5
    <3> HIDE DEF q
    <3> QED BY <3>6, <3>7 DEF Taps
  <2> QED BY <2>2, <2>3 DEF Next
<1>2. Spec => [][Near]_vars
  BY <1>1, Invariance, PTL DEF Spec
<1> QED BY <1>2 DEF PowerErrorStep
=============================================================================
