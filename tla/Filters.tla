------------------------------ MODULE Filters ------------------------------
(***************************************************************************)
(* The filters of src/src/stage/filter.rs: MovingAverage, MedianFilter,    *)
(* ExponentialMovingAverage (which LowPassFilter wraps), HighPassFilter    *)
(* and KalmanFilter1D.                                                     *)
(*                                                                         *)
(* All five are fed the same inputs; none sees another's state.  Values    *)
(* and covariances are integers, in a unit that makes them so, and the     *)
(* coefficients rational: a filtered value is a pair of numerator and      *)
(* denominator, so that no rounding is modelled.  A measurement noise of   *)
(* zero, which the code takes, is left out: with no other noise its gain   *)
(* is 0 / 0, and the estimate not a number.                                *)
(***************************************************************************)
EXTENDS Sums, FiniteSetsExt, SequencesExt

CONSTANTS
  WINDOW,         \* the length of the sliding windows
  AlphaNum, AlphaDen,   \* alpha, of both recursive filters
  InitialEstimate, InitialError,        \* of the Kalman filter
  ProcessNoises, MeasurementNoises,     \* what its noises are set to
  Readings,       \* the inputs
  MaxFed          \* bound: inputs

ASSUME WindowAssumption == WINDOW \in Nat \ {0}
ASSUME AlphaAssumption == AlphaNum \in Nat \ {0} /\ AlphaDen \in Nat /\ AlphaNum <= AlphaDen
ASSUME KalmanAssumption == /\ InitialEstimate \in Int /\ InitialError \in Nat
                           /\ ProcessNoises \subseteq Nat /\ MeasurementNoises \subseteq Nat \ {0}
ASSUME FilterBounds == Readings \subseteq Int /\ MaxFed \in Nat

VARIABLES
  avg,       \* MovingAverage: buffer, sum, index, count; out is its last output times count
  med,       \* MedianFilter: buffer, index, count; out is its last output
  ema,       \* ExponentialMovingAverage::value
  high,      \* HighPassFilter: prev_input and prev_output
  kal,       \* KalmanFilter1D: estimate, error covariance, process and measurement noise
  start,     \* history: the estimate it had at new or reset
  prior,     \* history: what it knew at new, reset or the last change of its noises
  measured,  \* history: the inputs since then
  fed,       \* history: the inputs since new or reset
  feeds      \* the number of inputs, resets and changes of noise

kalmanHistory == <<start, prior, measured>>
filterVars == <<avg, med, ema, high, kal, kalmanHistory, fed, feeds>>

NoValue == [none |-> TRUE, num |-> 0, den |-> 1]
Exactly(x) == [none |-> FALSE, num |-> x, den |-> 1]

Zeros == [i \in 0..WINDOW - 1 |-> 0]
NewAverage == [buffer |-> Zeros, sum |-> 0, index |-> 0, count |-> 0, out |-> 0]
NewMedian == [buffer |-> Zeros, index |-> 0, count |-> 0, out |-> 0]
NewHigh == [input |-> NoValue, output |-> NoValue]

\* Fractions <<numerator, denominator>> in lowest terms.
gcd[p \in Nat \X Nat] == IF p[2] = 0 THEN p[1] ELSE gcd[<<p[2], p[1] % p[2]>>]
Abs(n) == IF n < 0 THEN -n ELSE n
Lowest(n, d) == LET g == gcd[<<Abs(n), d>>] IN <<n \div g, d \div g>>
Plus(a, b) == Lowest(a[1] * b[2] + b[1] * a[2], a[2] * b[2])
Less(a, b) == Lowest(a[1] * b[2] - b[1] * a[2], a[2] * b[2])
Product(a, b) == Lowest(a[1] * b[1], a[2] * b[2])
Over(a, b) == Lowest(a[1] * b[2], a[2] * b[1])   \* for b above zero
AtLeast(a, b) == a[1] * b[2] >= b[1] * a[2]
Same(a, b) == a[1] * b[2] = b[1] * a[2]

NewKalman(q, r) == [estimate |-> <<InitialEstimate, 1>>, covariance |-> <<InitialError, 1>>,
                    q |-> q, r |-> r]

FiltersInit ==
  /\ avg = NewAverage /\ med = NewMedian /\ ema = NoValue /\ high = NewHigh
  /\ \E q \in ProcessNoises, r \in MeasurementNoises : kal = NewKalman(q, r)
  /\ start = InitialEstimate /\ prior = <<kal.estimate, kal.covariance>> /\ measured = <<>>
  /\ fed = <<>> /\ feeds = 0

---------------------------------------------------------------------------
(* process of each                                                         *)

\* Mutant: the oldest value is looked up after the index has moved.
AverageNextSlot(f, x) ==
  LET full == f.count >= WINDOW
      sum == (IF full THEN f.sum - f.buffer[(f.index + 1) % WINDOW] ELSE f.sum) + x
      count == IF full THEN f.count ELSE f.count + 1
  IN  [buffer |-> [f.buffer EXCEPT ![f.index] = x], sum |-> sum,
       index |-> (f.index + 1) % WINDOW, count |-> count, out |-> sum]

\* A running sum: a full window gives up its oldest value first.
Average(f, x) ==
  LET full == f.count >= WINDOW
      sum == (IF full THEN f.sum - f.buffer[f.index] ELSE f.sum) + x
      count == IF full THEN f.count ELSE f.count + 1
  IN  [buffer |-> [f.buffer EXCEPT ![f.index] = x], sum |-> sum,
       index |-> (f.index + 1) % WINDOW, count |-> count, out |-> sum]

\* s in ascending order, which is what the insertion sort makes of it.
Ascending(s) ==
  LET order == CHOOSE p \in Injection(DOMAIN s, DOMAIN s) :
                 \A i, j \in DOMAIN s : i < j => s[p[i]] <= s[p[j]]
  IN  [i \in DOMAIN s |-> s[order[i]]]

\* compute_median: the middle of a sorted copy, the upper one when there are two.
Median(buffer, count) == Ascending([i \in 1..count |-> buffer[i - 1]])[count \div 2 + 1]

MedianOf(f, x) ==
  LET buffer == [f.buffer EXCEPT ![f.index] = x]
      count == IF f.count < WINDOW THEN f.count + 1 ELSE f.count
  IN  [buffer |-> buffer, index |-> (f.index + 1) % WINDOW, count |-> count,
       out |-> Median(buffer, count)]

\* alpha * x + (1 - alpha) * prev; the first input passes through.
Smoothed(prev, x) ==
  IF prev.none THEN Exactly(x)
  ELSE [none |-> FALSE, den |-> prev.den * AlphaDen,
        num |-> AlphaNum * x * prev.den + (AlphaDen - AlphaNum) * prev.num]

\* alpha * (prev_out + x - prev_in); the first input passes through.
HighPassed(f, x) ==
  IF f.input.none \/ f.output.none THEN Exactly(x)
  ELSE [none |-> FALSE, den |-> f.output.den * AlphaDen,
        num |-> AlphaNum * (f.output.num + (x - f.input.num) * f.output.den)]

\* Mutant: the gain is computed from the covariance before the prediction.
UpdatedEarly(f, z) ==
  LET predicted == Plus(f.covariance, <<f.q, 1>>)
      gain == Over(f.covariance, Plus(f.covariance, <<f.r, 1>>))
  IN  [f EXCEPT !.estimate = Plus(@, Product(gain, Less(<<z, 1>>, @))),
                !.covariance = Product(Less(<<1, 1>>, gain), predicted)]

\* update: the covariance is predicted, the gain follows from it, and both the
\* estimate and the covariance from the gain.
Updated(f, z) ==
  LET predicted == Plus(f.covariance, <<f.q, 1>>)
      gain == Over(predicted, Plus(predicted, <<f.r, 1>>))
  IN  [f EXCEPT !.estimate = Plus(@, Product(gain, Less(<<z, 1>>, @))),
                !.covariance = Product(Less(<<1, 1>>, gain), predicted)]

Feed(x) ==
  /\ feeds < MaxFed
  /\ avg' = Average(avg, x)
  /\ med' = MedianOf(med, x)
  /\ ema' = Smoothed(ema, x)
  /\ high' = [input |-> Exactly(x), output |-> HighPassed(high, x)]
  /\ kal' = Updated(kal, x)
  /\ measured' = Append(measured, x) /\ UNCHANGED <<start, prior>>
  /\ fed' = Append(fed, x)
  /\ feeds' = feeds + 1

\* The median's reset leaves its `sorted` copy, which process overwrites; the Kalman
\* filter's goes back to 0 and 1 and not to what new was given, and keeps its noises.
ResetFilters ==
  /\ feeds < MaxFed
  /\ avg' = NewAverage
  /\ med' = [buffer |-> Zeros, index |-> 0, count |-> 0, out |-> med.out]
  /\ ema' = NoValue
  /\ high' = NewHigh
  /\ kal' = [kal EXCEPT !.estimate = <<0, 1>>, !.covariance = <<1, 1>>]
  /\ start' = 0 /\ prior' = <<<<0, 1>>, <<1, 1>>>> /\ measured' = <<>>
  /\ fed' = <<>>
  /\ feeds' = feeds + 1

\* set_process_noise and set_measurement_noise: what is known stays, and counts from
\* now on as it does against the other noise.
SetNoise(q, r) ==
  /\ feeds < MaxFed
  /\ kal' = [kal EXCEPT !.q = q, !.r = r]
  /\ prior' = <<kal.estimate, kal.covariance>> /\ measured' = <<>>
  /\ feeds' = feeds + 1
  /\ UNCHANGED <<avg, med, ema, high, start, fed>>

FiltersNext ==
  \/ \E x \in Readings : Feed(x)
  \/ ResetFilters
  \/ \E q \in ProcessNoises : SetNoise(q, kal.r)
  \/ \E r \in MeasurementNoises : SetNoise(kal.q, r)

FiltersSpec == FiltersInit /\ [][FiltersNext]_filterVars

---------------------------------------------------------------------------
(* Properties                                                              *)

LastOnes == LET n == IF Len(fed) < WINDOW THEN Len(fed) ELSE WINDOW
            IN  [i \in 1..n |-> fed[Len(fed) - n + i]]
Below(s, v) == Cardinality({i \in DOMAIN s : s[i] < v})
AtMost(s, v) == Cardinality({i \in DOMAIN s : s[i] <= v})

\* The powers of b, as far as they are needed.
Powers(b) == LET power[n \in 0..MaxFed] == IF n = 0 THEN 1 ELSE b * power[n - 1] IN power

\* What a window's buffer holds, from the slot before its index back: the last inputs.
HoldsLast(f) ==
  /\ f.count = Len(LastOnes)
  /\ \A k \in 1..f.count : f.buffer[(f.index - k) % WINDOW] = fed[Len(fed) + 1 - k]
WindowsHoldLast == HoldsLast(avg) /\ HoldsLast(med)

\* The exponential average is a mean of the inputs since its reset (filter.rs:230-241).
SmoothedBetween ==
  /\ ema.none = (fed = <<>>)
  /\ fed # <<>> => \E lo, hi \in ToSet(fed) : lo * ema.den <= ema.num /\ ema.num <= hi * ema.den

\* What input i adds to the numerators of the two recursive filters once the inputs s
\* are fed: its coefficient is alpha, or one less alpha, once for each input since.
SmoothedPart(s, i) ==
  IF i = 1 THEN Powers(AlphaDen - AlphaNum)[Len(s) - 1] * s[1]
  ELSE AlphaNum * Powers(AlphaDen - AlphaNum)[Len(s) - i] * Powers(AlphaDen)[i - 2] * s[i]
HighPart(s, i) ==
  IF i = 1 THEN Powers(AlphaNum)[Len(s) - 1] * s[1]
  ELSE Powers(AlphaNum)[Len(s) - i + 1] * Powers(AlphaDen)[i - 2] * (s[i] - s[i - 1])

\* filter.rs: after any inputs and resets the moving average is that of the last
\* WINDOW inputs, or of all while they are fewer, though it only keeps a running
\* sum; the median has no more than half of them below it and half or more not above
\* it; the exponential average lies between the least and the largest input ever fed,
\* whatever alpha, and both recursive filters hold what their formulas, unrolled over
\* the inputs since the last reset, give.
FiltersAgree ==
  /\ WindowsHoldLast /\ SmoothedBetween
  /\ avg.sum = SumOf(LastOnes)
  /\ fed # <<>> => avg.out = SumOf(LastOnes)
  /\ fed # <<>> => /\ med.out \in ToSet(LastOnes)
                   /\ 2 * Below(LastOnes, med.out) <= Len(LastOnes)
                   /\ 2 * AtMost(LastOnes, med.out) > Len(LastOnes)
  /\ fed # <<>> =>
       /\ ema.den = Powers(AlphaDen)[Len(fed) - 1] /\ high.output.den = ema.den
       /\ ema.num = SumOf([i \in DOMAIN fed |-> SmoothedPart(fed, i)])
       /\ high.output.num = SumOf([i \in DOMAIN fed |-> HighPart(fed, i)])

\* filter.rs:248-254: whatever the noises are set to in between, the Kalman estimate
\* never leaves the range of its first value and of what was measured; its covariance
\* does not vanish unless none was given and, once it has measured, is below that of the
\* sensor; and without process noise the estimate is the mean of what was known when
\* the noises were last set and of all measurements since, each weighted by its
\* precision, though the filter keeps none of them.
KalmanIsSound ==
  LET n == <<Len(measured), 1>>
      R == <<kal.r, 1>>
      weight == Plus(R, Product(n, prior[2]))
      known == {<<start, 1>>} \union {<<x, 1>> : x \in ToSet(fed)}
  IN  /\ kal.estimate[2] > 0 /\ kal.covariance[2] > 0
      /\ \E lo, hi \in known : AtLeast(kal.estimate, lo) /\ AtLeast(hi, kal.estimate)
      /\ kal.covariance[1] >= 0 /\ (prior[2][1] > 0 => kal.covariance[1] > 0)
      /\ measured # <<>> => AtLeast(R, kal.covariance) /\ ~Same(R, kal.covariance)
      /\ kal.q = 0 =>
           /\ Same(kal.covariance, Over(Product(prior[2], R), weight))
           /\ Same(kal.estimate,
                   Over(Plus(Product(prior[1], R), Product(prior[2], <<SumOf(measured), 1>>)), weight))
=============================================================================
