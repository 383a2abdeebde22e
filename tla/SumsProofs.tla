------------------------------ MODULE SumsProofs ------------------------------
(***************************************************************************)
(* Lemmas about sequences of numbers and their sums, for the proofs about  *)
(* whatever sums up what it was given.                                     *)
(***************************************************************************)
EXTENDS Sums, WellFoundedInduction, TLAPS

---------------------------------------------------------------------------
(* Induction up to a bound, and sequences as functions                     *)

\* A nonempty set of naturals has a least one.
LEMMA LeastOf ==
  ASSUME NEW T, T \subseteq Nat, T # {}
  PROVE  \E m \in T : \A n \in T : m <= n
<1>1. PICK m \in T : \A n \in T : <<n, m>> \notin OpToRel(<, Nat)
  BY NatLessThanWellFounded, WFMin
<1>2. \A n \in T : ~(n < m)
  BY <1>1 DEF OpToRel
<1> QED
  BY <1>2

LEMMA AppendedIs ==
  ASSUME NEW S, NEW s \in Seq(S), NEW x \in S
  PROVE  /\ Append(s, x) \in Seq(S) /\ Len(s) \in Nat /\ Len(Append(s, x)) = Len(s) + 1
         /\ Append(s, x)[Len(s) + 1] = x
         /\ \A i \in 1..Len(s) : Append(s, x)[i] = s[i]
  OBVIOUS

\* Sequences of the same length with the same elements are the same.
LEMMA SameSequence ==
  ASSUME NEW S, NEW s \in Seq(S), NEW t \in Seq(S), Len(s) = Len(t),
         \A i \in 1..Len(s) : s[i] = t[i]
  PROVE  s = t
  OBVIOUS

LEMMA SequenceOf ==
  ASSUME NEW S, NEW n \in Nat, NEW f \in [1..n -> S]
  PROVE  f \in Seq(S) /\ Len(f) = n /\ \A i \in 1..n : f[i] \in S
OBVIOUS

\* What holds at 0 and is passed on holds up to n.
LEMMA UpTo ==
  ASSUME NEW n \in Nat, NEW T, 0 \in T, \A k \in 0..n - 1 : k \in T => k + 1 \in T
  PROVE  0..n \subseteq T
<1> SUFFICES ASSUME (0..n) \ T # {}
             PROVE  FALSE
  OBVIOUS
<1>0. (0..n) \ T \subseteq Nat
  OBVIOUS
<1>1. PICK m \in (0..n) \ T : \A k \in (0..n) \ T : m <= k
  BY ONLY (0..n) \ T # {}, <1>0, LeastOf
<1>2. m # 0
  BY <1>1
<1>3. m - 1 \in 0..n - 1
  BY <1>1, <1>2
<1>4. m - 1 \in T
  BY <1>1, <1>3
<1>5. (m - 1) + 1 \in T
  BY <1>3, <1>4
<1>6. (m - 1) + 1 = m
  BY <1>1
<1> QED
  BY <1>1, <1>5, <1>6

---------------------------------------------------------------------------
(* Sums                                                                    *)

\* Running sums exist, and are what their definition says.
LEMMA RunningSumIs ==
  ASSUME NEW s \in Seq(Int)
  PROVE  /\ \A n \in 0..Len(s) : RunningSum(s)[n] \in Int
         /\ RunningSum(s)[0] = 0
         /\ \A n \in 1..Len(s) : RunningSum(s)[n] = RunningSum(s)[n - 1] + s[n]
<1> DEFINE T == {k \in 0..Len(s) : \E P \in [0..k -> Int] :
                                       P[0] = 0 /\ \A i \in 1..k : P[i] = P[i - 1] + s[i]}
<1>0. Len(s) \in Nat /\ \A i \in 1..Len(s) : s[i] \in Int
  OBVIOUS
<1>1. 0 \in T
  <2> DEFINE Z == [i \in 0..0 |-> 0]
  <2>1. Z \in [0..0 -> Int] /\ Z[0] = 0 /\ \A i \in 1..0 : Z[i] = Z[i - 1] + s[i]
    OBVIOUS
  <2> HIDE DEF Z
  <2>2. 0 \in 0..Len(s)
    BY <1>0
  <2> QED
    BY <2>1, <2>2
<1>2. ASSUME NEW k \in 0..Len(s) - 1, k \in T
      PROVE  k + 1 \in T
  <2>1. PICK P \in [0..k -> Int] : P[0] = 0 /\ \A i \in 1..k : P[i] = P[i - 1] + s[i]
    BY <1>2
  <2> DEFINE Q == [i \in 0..k + 1 |-> IF i <= k THEN P[i] ELSE P[k] + s[k + 1]]
  <2>2. k \in Nat /\ k + 1 \in 1..Len(s) /\ k + 1 \in 0..Len(s)
    BY <1>0
  <2>3. P[k] \in Int /\ s[k + 1] \in Int
    BY <1>0, <2>1, <2>2
  <2>4. Q \in [0..k + 1 -> Int]
    BY <2>2, <2>3
  <2>5. Q[0] = 0
    BY <2>1, <2>2
  <2>6. ASSUME NEW i \in 1..k + 1
        PROVE  Q[i] = Q[i - 1] + s[i]
    <3>1. CASE i = k + 1
      BY <2>2, <3>1
    <3>2. CASE i <= k
      BY <2>1, <2>2, <3>2
    <3> QED
      BY <2>2, <3>1, <3>2
  <2> HIDE DEF Q
  <2> QED
    BY <2>2, <2>4, <2>5, <2>6
<1>3. Len(s) \in T
  <2> HIDE DEF T
  <2>1. 0..Len(s) \subseteq T
    BY <1>0, <1>1, <1>2, UpTo
  <2> QED
    BY <1>0, <2>1
<1>4. PICK P \in [0..Len(s) -> Int] : P[0] = 0 /\ \A i \in 1..Len(s) : P[i] = P[i - 1] + s[i]
  BY <1>3
<1>5. P = [n \in 0..Len(s) |-> IF n = 0 THEN 0 ELSE P[n - 1] + s[n]]
  BY <1>0, <1>4
<1>6. RunningSum(s) = [n \in 0..Len(s) |-> IF n = 0 THEN 0 ELSE RunningSum(s)[n - 1] + s[n]]
  BY <1>5 DEF RunningSum
<1>7. \A n \in 0..Len(s) : RunningSum(s)[n] = IF n = 0 THEN 0 ELSE RunningSum(s)[n - 1] + s[n]
  BY <1>6
<1>8. \A n \in 1..Len(s) : RunningSum(s)[n] = RunningSum(s)[n - 1] + s[n]
  BY <1>0, <1>7
<1>9. RunningSum(s)[0] = 0
  BY <1>0, <1>7
<1>10. ASSUME NEW n \in 0..Len(s)
       PROVE  RunningSum(s)[n] \in Int
  <2> DEFINE U == {k \in 0..Len(s) : RunningSum(s)[k] \in Int}
  <2>1. 0 \in U
    BY <1>0, <1>9
  <2>2. ASSUME NEW k \in 0..Len(s) - 1, k \in U
        PROVE  k + 1 \in U
    <3>1. k + 1 \in 1..Len(s) /\ (k + 1) - 1 = k /\ k + 1 \in 0..Len(s)
      BY <1>0
    <3>2. RunningSum(s)[k + 1] = RunningSum(s)[k] + s[k + 1]
      BY <1>8, <3>1
    <3> QED
      BY <1>0, <2>2, <3>1, <3>2
  <2> HIDE DEF U
  <2>3. 0..Len(s) \subseteq U
    BY <1>0, <2>1, <2>2, UpTo
  <2> QED
    BY <2>3 DEF U
<1> QED
  BY <1>8, <1>9, <1>10

LEMMA SumIsInt ==
  ASSUME NEW s \in Seq(Int)
  PROVE  SumOf(s) \in Int
BY RunningSumIs DEF SumOf

LEMMA SumOfNone ==
  SumOf(<<>>) = 0
<1>1. <<>> \in Seq(Int) /\ Len(<<>>) = 0
  OBVIOUS
<1> QED
  BY <1>1, RunningSumIs DEF SumOf

\* Running sums over two sequences that agree up to n agree up to n.
LEMMA SameSums ==
  ASSUME NEW s \in Seq(Int), NEW t \in Seq(Int), NEW n \in Nat, n <= Len(s), n <= Len(t),
         \A i \in 1..n : s[i] = t[i]
  PROVE  RunningSum(s)[n] = RunningSum(t)[n]
<1> DEFINE U == {k \in 0..n : RunningSum(s)[k] = RunningSum(t)[k]}
<1>1. 0 \in U
  BY RunningSumIs
<1>2. ASSUME NEW k \in 0..n - 1, k \in U
      PROVE  k + 1 \in U
  <2>1. k + 1 \in 1..Len(s) /\ k + 1 \in 1..Len(t) /\ (k + 1) - 1 = k /\ k + 1 \in 1..n
    OBVIOUS
  <2>2. RunningSum(s)[k + 1] = RunningSum(s)[k] + s[k + 1]
    BY <2>1, RunningSumIs
  <2>3. RunningSum(t)[k + 1] = RunningSum(t)[k] + t[k + 1]
    BY <2>1, RunningSumIs
  <2> QED
    BY <1>2, <2>1, <2>2, <2>3
<1> HIDE DEF U
<1>3. 0..n \subseteq U
  BY <1>1, <1>2, UpTo
<1> QED
  BY <1>3 DEF U

LEMMA SumOfAppend ==
  ASSUME NEW s \in Seq(Int), NEW x \in Int
  PROVE  SumOf(Append(s, x)) = SumOf(s) + x
<1> DEFINE t == Append(s, x)
           n == Len(s)
<1>1. t \in Seq(Int) /\ Len(t) = n + 1 /\ n \in Nat /\ t[n + 1] = x /\ \A i \in 1..n : s[i] = t[i]
  OBVIOUS
<1> HIDE DEF t
<1> HIDE DEF n
<1>6. n = Len(s) /\ n + 1 \in 1..Len(t) /\ n <= Len(s) /\ n <= Len(t)
  BY <1>1 DEF n
<1>2. RunningSum(t)[n + 1] = RunningSum(t)[(n + 1) - 1] + t[n + 1]
  BY <1>1, <1>6, RunningSumIs
<1>3. RunningSum(s)[n] = RunningSum(t)[n]
  BY <1>1, <1>6, SameSums
<1>4. (n + 1) - 1 = n
  BY <1>1
<1>5. SumOf(t) = SumOf(s) + x
  BY <1>1, <1>2, <1>3, <1>4, <1>6 DEF SumOf
<1> QED
  BY <1>5 DEF t

\* Of a multiple of every number the sum is that multiple.
Scales(c, s, t) == Len(t) = Len(s) /\ \A i \in 1..Len(s) : t[i] = c * s[i]

LEMMA SumScaled ==
  ASSUME NEW s \in Seq(Int), NEW t \in Seq(Int), NEW c \in Int, Scales(c, s, t)
  PROVE  SumOf(t) = c * SumOf(s)
<1> DEFINE U == {k \in 0..Len(s) : RunningSum(t)[k] = c * RunningSum(s)[k]}
<1>0. Len(s) \in Nat /\ Len(t) = Len(s)
  BY DEF Scales
<1>1. 0 \in U
  <2>1. RunningSum(s)[0] = 0 /\ RunningSum(t)[0] = 0
    BY RunningSumIs
  <2> QED
    BY <1>0, <2>1
<1>2. ASSUME NEW k \in 0..Len(s) - 1, k \in U
      PROVE  k + 1 \in U
  <2>1. k + 1 \in 1..Len(s) /\ (k + 1) - 1 = k /\ k + 1 \in 0..Len(s) /\ k \in 0..Len(s)
    BY <1>0
  <2>2. RunningSum(s)[k + 1] = RunningSum(s)[k] + s[k + 1]
    BY <2>1, RunningSumIs
  <2>3. RunningSum(t)[k + 1] = RunningSum(t)[k] + t[k + 1]
    BY <1>0, <2>1, RunningSumIs
  <2>4. RunningSum(s)[k] \in Int /\ s[k + 1] \in Int
    BY <2>1, RunningSumIs
  <2>5. PICK a \in Int, b \in Int : a = RunningSum(s)[k] /\ b = s[k + 1]
    BY <2>4
  <2>6. t[k + 1] = c * b
    BY <2>1, <2>5 DEF Scales
  <2>7. RunningSum(t)[k] = c * a
    BY <1>2, <2>5
  <2>8. c * (a + b) = c * a + c * b
    OBVIOUS
  <2>9. RunningSum(t)[k + 1] = c * RunningSum(s)[k + 1]
    BY <2>2, <2>3, <2>5, <2>6, <2>7, <2>8
  <2> QED
    BY <2>1, <2>9
<1> HIDE DEF U
<1>3. 0..Len(s) \subseteq U
  BY <1>0, <1>1, <1>2, UpTo
<1>4. Len(s) \in U
  BY <1>0, <1>3
<1> QED
  BY <1>0, <1>4 DEF U, SumOf

\* The sum of all but the first.
LEMMA SumOfRest ==
  ASSUME NEW s \in Seq(Int), NEW t \in Seq(Int), Len(s) = Len(t) + 1,
         \A i \in 1..Len(t) : t[i] = s[i + 1]
  PROVE  SumOf(t) = SumOf(s) - s[1]
<1> DEFINE U == {k \in 0..Len(t) : RunningSum(t)[k] = RunningSum(s)[k + 1] - s[1]}
<1>0. Len(t) \in Nat /\ 1 \in 1..Len(s) /\ s[1] \in Int
  OBVIOUS
<1>1. 0 \in U
  <2>1. RunningSum(t)[0] = 0 /\ RunningSum(s)[0] = 0
    BY RunningSumIs
  <2>2. RunningSum(s)[1] = RunningSum(s)[1 - 1] + s[1]
    BY <1>0, RunningSumIs
  <2>3. RunningSum(s)[0 + 1] = s[1]
    BY <1>0, <2>1, <2>2
  <2> QED
    BY <1>0, <2>1, <2>3
<1>2. ASSUME NEW k \in 0..Len(t) - 1, k \in U
      PROVE  k + 1 \in U
  <2>1. /\ k + 1 \in 1..Len(t) /\ (k + 1) - 1 = k /\ k + 1 \in 0..Len(t)
        /\ (k + 1) + 1 \in 1..Len(s) /\ ((k + 1) + 1) - 1 = k + 1 /\ k + 1 \in 0..Len(s)
    BY <1>0
  <2>2. RunningSum(t)[k + 1] = RunningSum(t)[k] + t[k + 1]
    BY <2>1, RunningSumIs
  <2>3. RunningSum(s)[(k + 1) + 1] = RunningSum(s)[k + 1] + s[(k + 1) + 1]
    BY <2>1, RunningSumIs
  <2>4. RunningSum(s)[k + 1] \in Int /\ s[(k + 1) + 1] \in Int
    BY <2>1, RunningSumIs
  <2>5. t[k + 1] = s[(k + 1) + 1]
    BY <2>1
  <2>6. RunningSum(t)[k] = RunningSum(s)[k + 1] - s[1]
    BY <1>2
  <2>7. RunningSum(t)[k + 1] = RunningSum(s)[(k + 1) + 1] - s[1]
    BY ONLY <1>0, <2>2, <2>3, <2>4, <2>5, <2>6, SMTT(20)
  <2> QED
    BY <2>1, <2>7
<1> HIDE DEF U
<1>3. 0..Len(t) \subseteq U
  BY <1>0, <1>1, <1>2, UpTo
<1>4. Len(t) \in U
  BY <1>0, <1>3
<1> QED
  BY <1>0, <1>4 DEF U, SumOf

\* A combination of two sequences has the combination of their sums.
Combines(u, s, t, c, d) ==
  Len(s) = Len(u) /\ Len(t) = Len(u) /\ \A i \in 1..Len(u) : u[i] = c * s[i] + d * t[i]

LEMMA SumCombined ==
  ASSUME NEW s \in Seq(Int), NEW t \in Seq(Int), NEW u \in Seq(Int), NEW c \in Int, NEW d \in Int,
         Combines(u, s, t, c, d)
  PROVE  SumOf(u) = c * SumOf(s) + d * SumOf(t)
<1>0. Len(s) = Len(u) /\ Len(t) = Len(u) /\ \A i \in 1..Len(u) : u[i] = c * s[i] + d * t[i]
  BY DEF Combines
<1> DEFINE U == {k \in 0..Len(u) :
                   RunningSum(u)[k] = c * RunningSum(s)[k] + d * RunningSum(t)[k]}
<1>1. 0 \in U
  BY RunningSumIs
<1>2. ASSUME NEW k \in 0..Len(u) - 1, k \in U
      PROVE  k + 1 \in U
  <2>1. k + 1 \in 1..Len(u) /\ (k + 1) - 1 = k /\ k + 1 \in 0..Len(u) /\ k \in 0..Len(u)
    OBVIOUS
  <2>2. PICK a \in Int, b \in Int, x \in Int, y \in Int :
          a = RunningSum(s)[k] /\ b = RunningSum(t)[k] /\ x = s[k + 1] /\ y = t[k + 1]
    <3>1. RunningSum(s)[k] \in Int /\ RunningSum(t)[k] \in Int
      BY <1>0, <2>1, RunningSumIs
    <3>2. s[k + 1] \in Int /\ t[k + 1] \in Int
      BY <1>0, <2>1
    <3> QED
      BY <3>1, <3>2
  <2>3. RunningSum(s)[k + 1] = a + x
    BY <1>0, <2>1, <2>2, RunningSumIs
  <2>4. RunningSum(t)[k + 1] = b + y
    BY <1>0, <2>1, <2>2, RunningSumIs
  <2>5. RunningSum(u)[k + 1] = RunningSum(u)[k] + u[k + 1]
    BY <2>1, RunningSumIs
  <2>6. RunningSum(u)[k] = c * a + d * b
    BY <1>2, <2>2
  <2>7. u[k + 1] = c * x + d * y
    BY <1>0, <2>1, <2>2
  <2>8. (c * a + d * b) + (c * x + d * y) = c * (a + x) + d * (b + y)
    OBVIOUS
  <2> QED
    BY <2>1, <2>3, <2>4, <2>5, <2>6, <2>7, <2>8
<1> HIDE DEF U
<1>3. Len(u) \in Nat
  OBVIOUS
<1>4. 0..Len(u) \subseteq U
  BY <1>1, <1>2, <1>3, UpTo
<1>5. Len(u) \in U
  BY <1>3, <1>4
<1> QED
  BY <1>0, <1>5 DEF U, SumOf

LEMMA OrderAdds ==
  ASSUME NEW a \in Int, NEW b \in Int, NEW x \in Int, NEW y \in Int, a <= x, b <= y
  PROVE  a + b <= x + y
  OBVIOUS

LEMMA OrderPasses ==
  ASSUME NEW a \in Int, NEW b \in Int, NEW c \in Int, a <= b, b <= c
  PROVE  a <= c
  OBVIOUS

\* A sum lies between as many times the least and the largest of its numbers.
LEMMA SumBetween ==
  ASSUME NEW s \in Seq(Int), NEW lo \in Int, NEW hi \in Int,
         \A i \in 1..Len(s) : lo <= s[i] /\ s[i] <= hi
  PROVE  lo * Len(s) <= SumOf(s) /\ SumOf(s) <= hi * Len(s)
<1> DEFINE U == {k \in 0..Len(s) : lo * k <= RunningSum(s)[k] /\ RunningSum(s)[k] <= hi * k}
<1>1. 0 \in U
  BY RunningSumIs
<1>2. ASSUME NEW k \in 0..Len(s) - 1, k \in U
      PROVE  k + 1 \in U
  <2>1. k + 1 \in 1..Len(s) /\ (k + 1) - 1 = k /\ k + 1 \in 0..Len(s)
    OBVIOUS
  <2>2. RunningSum(s)[k + 1] = RunningSum(s)[k] + s[k + 1]
    BY <2>1, RunningSumIs
  <2>3. lo <= s[k + 1] /\ s[k + 1] <= hi /\ s[k + 1] \in Int
    BY <2>1
  <2>7. RunningSum(s)[k] \in Int
    BY RunningSumIs
  <2>4. PICK a \in Int, b \in Int : a = lo * k /\ b = hi * k
    OBVIOUS
  <2>5. lo * (k + 1) = a + lo /\ hi * (k + 1) = b + hi
    BY <2>4
  <2>6. a <= RunningSum(s)[k] /\ RunningSum(s)[k] <= b
    BY <1>2, <2>4
  <2>8. PICK x \in Int, y \in Int : x = RunningSum(s)[k] /\ y = s[k + 1]
    BY <2>3, <2>7
  <2>11. a <= x /\ x <= b /\ lo <= y /\ y <= hi
    BY <2>3, <2>6, <2>8
  <2>9. a + lo <= x + y /\ x + y <= b + hi
    BY <2>11, OrderAdds
  <2>10. lo * (k + 1) <= RunningSum(s)[k + 1] /\ RunningSum(s)[k + 1] <= hi * (k + 1)
    BY <2>2, <2>5, <2>8, <2>9
  <2> QED
    BY <2>1, <2>10
<1> HIDE DEF U
<1>3. Len(s) \in Nat
  OBVIOUS
<1>4. 0..Len(s) \subseteq U
  BY <1>1, <1>2, <1>3, UpTo
<1>5. Len(s) \in U
  BY <1>3, <1>4
<1> QED
  BY <1>5 DEF U, SumOf

\* Of the numbers of a sequence one is the least and one the largest.
LEMMA ExtremesOccur ==
  ASSUME NEW s \in Seq(Int), s # <<>>
  PROVE  \E i, j \in 1..Len(s) : \A k \in 1..Len(s) : s[i] <= s[k] /\ s[k] <= s[j]
<1> DEFINE U == {n \in 0..Len(s) - 1 :
                   \E i, j \in 1..n + 1 : \A k \in 1..n + 1 : s[i] <= s[k] /\ s[k] <= s[j]}
<1>0. Len(s) \in Nat /\ Len(s) > 0 /\ \A i \in 1..Len(s) : s[i] \in Int
  OBVIOUS
<1>1. 0 \in U
  <2>1. 1 \in 1..0 + 1 /\ \A k \in 1..0 + 1 : k = 1
    OBVIOUS
  <2>2. s[1] \in Int
    BY <1>0
  <2> QED
    BY <1>0, <2>1, <2>2
<1>2. ASSUME NEW n \in 0..(Len(s) - 1) - 1, n \in U
      PROVE  n + 1 \in U
  <2>1. PICK i \in 1..n + 1, j \in 1..n + 1 : \A k \in 1..n + 1 : s[i] <= s[k] /\ s[k] <= s[j]
    BY <1>2
  <2>2. PICK m : m = n + 2
    OBVIOUS
  <2>3. m \in 1..Len(s) /\ m \in 1..(n + 1) + 1 /\ i \in 1..(n + 1) + 1 /\ j \in 1..(n + 1) + 1
    BY <1>0, <2>2
  <2>4. s[i] \in Int /\ s[j] \in Int /\ s[m] \in Int
    BY <1>0, <2>3
  <2>5. PICK a \in {i, m} : s[a] <= s[i] /\ s[a] <= s[m]
    <3>1. s[i] <= s[m] \/ s[m] <= s[i]
      BY <2>4
    <3>2. s[i] <= s[i] /\ s[m] <= s[m]
      BY <2>4
    <3> QED
      BY <3>1, <3>2
  <2>6. PICK b \in {j, m} : s[b] >= s[j] /\ s[b] >= s[m]
    <3>1. s[j] >= s[m] \/ s[m] >= s[j]
      BY <2>4
    <3>2. s[j] >= s[j] /\ s[m] >= s[m]
      BY <2>4
    <3> QED
      BY <3>1, <3>2
  <2>7. ASSUME NEW k \in 1..(n + 1) + 1
        PROVE  s[a] <= s[k] /\ s[k] <= s[b]
    <3>1. CASE k = m
      BY <2>4, <2>5, <2>6, <3>1
    <3>2. CASE k \in 1..n + 1
      <4>1. s[i] <= s[k] /\ s[k] <= s[j] /\ s[k] \in Int
        BY <1>0, <2>1, <3>2
      <4>2. s[a] \in Int /\ s[b] \in Int
        BY <2>4
      <4>3. s[a] <= s[i] /\ s[j] <= s[b]
        BY <2>4, <2>5, <2>6
      <4>4. s[a] <= s[k]
        BY <2>4, <4>1, <4>2, <4>3, OrderPasses
      <4>5. s[k] <= s[b]
        BY <2>4, <4>1, <4>2, <4>3, OrderPasses
      <4> QED
        BY <4>4, <4>5
    <3> QED
      BY <2>2, <3>1, <3>2
  <2>8. a \in 1..(n + 1) + 1 /\ b \in 1..(n + 1) + 1
    BY <2>3
  <2>9. n + 1 \in 0..Len(s) - 1
    BY <1>0
  <2> QED
    BY <2>7, <2>8, <2>9
<1>3. Len(s) - 1 \in U
  <2> HIDE DEF U
  <2>1. Len(s) - 1 \in Nat
    BY <1>0
  <2>2. 0..Len(s) - 1 \subseteq U
    BY <1>1, <1>2, <2>1, UpTo
  <2> QED
    BY <2>1, <2>2
<1>4. (Len(s) - 1) + 1 = Len(s)
  BY <1>0
<1> QED
  BY <1>3, <1>4

\* A sum of naturals that are not all zero is not zero.
LEMMA SumPositive ==
  ASSUME NEW s \in Seq(Int), \A i \in 1..Len(s) : s[i] >= 0, NEW j \in 1..Len(s), s[j] > 0
  PROVE  SumOf(s) > 0
<1> DEFINE U == {k \in 0..Len(s) : RunningSum(s)[k] >= 0 /\ (j <= k => RunningSum(s)[k] > 0)}
<1>1. 0 \in U
  BY RunningSumIs
<1>2. ASSUME NEW k \in 0..Len(s) - 1, k \in U
      PROVE  k + 1 \in U
  <2>1. k + 1 \in 1..Len(s) /\ (k + 1) - 1 = k /\ k + 1 \in 0..Len(s) /\ k \in 0..Len(s)
    OBVIOUS
  <2>2. RunningSum(s)[k + 1] = RunningSum(s)[k] + s[k + 1]
    BY <2>1, RunningSumIs
  <2>3. RunningSum(s)[k] \in Int
    BY <2>1, RunningSumIs
  <2>4. s[k + 1] \in Int /\ s[k + 1] >= 0
    BY <2>1
  <2>5. RunningSum(s)[k] >= 0 /\ (j <= k => RunningSum(s)[k] > 0)
    BY <1>2
  <2>6. j = k + 1 => s[k + 1] > 0
    OBVIOUS
  <2>7. RunningSum(s)[k + 1] >= 0
    BY <2>2, <2>3, <2>4, <2>5
  <2>8. ASSUME j <= k + 1
        PROVE  RunningSum(s)[k + 1] > 0
    BY <2>2, <2>3, <2>4, <2>5, <2>6, <2>8
  <2> QED
    BY <2>1, <2>7, <2>8
<1> HIDE DEF U
<1>3. Len(s) \in Nat
  OBVIOUS
<1>4. 0..Len(s) \subseteq U
  BY <1>1, <1>2, <1>3, UpTo
<1>5. Len(s) \in U
  BY <1>3, <1>4
<1> QED
  BY <1>3, <1>5 DEF U, SumOf
==============================================================================
