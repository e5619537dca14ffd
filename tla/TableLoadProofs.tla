-------------------------- MODULE TableLoadProofs --------------------------
(***************************************************************************)
(* What TLAPS proves of the loaders of TableLoad: every way of inferring a *)
(* schema agrees with every other and with what COPY then writes; a        *)
(* staging table is recognised by its own task's later runs; a schema that *)
(* is generated from a table fits it; INSERT and COPY refuse the same row  *)
(* of a source with a declared schema and store the same table; a number   *)
(* is taken if and only if its column keeps all of it; and the neutral     *)
(* spool is read back as it was written or not at all, for tables of any   *)
(* number of rows and columns, and samples, names, limits, texts and       *)
(* numbers of any size.                                                    *)
(*                                                                         *)
(* What a scan, a text, a number or a spool comes to is defined by         *)
(* recursion on its length.  SetInduction and RecursionHasSolution, which  *)
(* follow from the well-foundedness of the strict subsets of finite sets,  *)
(* are what the proofs about such definitions rest on.                     *)
(***************************************************************************)
EXTENDS TableLoad, FiniteSetTheorems, SequenceTheorems, WellFoundedInduction, TLAPS

-----------------------------------------------------------------------------
(* Recursion on the natural numbers. *)

\* A set with 0 and the successor of each of its numbers has all of them.
LEMMA SetInduction ==
    ASSUME NEW S, 0 \in S, \A n \in Nat : n \in S => n + 1 \in S
    PROVE  Nat \subseteq S
<1> DEFINE Missed == {0..n : n \in Nat \ S}
<1> SUFFICES ASSUME NEW k \in Nat, k \notin S PROVE FALSE
  OBVIOUS
<1>1. Missed \subseteq FiniteSubsetsOf(Nat)
  <2>1. ASSUME NEW n \in Nat PROVE IsFiniteSet(0..n) /\ 0..n \subseteq Nat
    BY FS_Interval
  <2>2. QED
    BY <2>1 DEF FiniteSubsetsOf
<1>2. IsWellFoundedOn(StrictSubsetOrdering(Nat), FiniteSubsetsOf(Nat))
  BY FS_StrictSubsetOrderingWellFounded
<1>3. Missed # {}
  OBVIOUS
<1>4. PICK U \in Missed : \A V \in Missed : <<V, U>> \notin StrictSubsetOrdering(Nat)
  <2> HIDE DEF Missed
  <2> QED
    BY <1>1, <1>2, <1>3, WFMin
<1>5. PICK m \in Nat \ S : U = 0..m
  OBVIOUS
<1>6. m # 0 /\ m - 1 \in Nat
  BY <1>5
<1>7. m - 1 \notin S
  BY <1>5, <1>6
<1>8. /\ 0..(m - 1) \in Missed /\ 0..(m - 1) \subseteq U /\ U \subseteq Nat
      /\ m \in U /\ m \notin 0..(m - 1)
  BY <1>5, <1>6, <1>7
<1>9. <<0..(m - 1), U>> \in StrictSubsetOrdering(Nat)
  BY <1>8 DEF StrictSubsetOrdering
<1> QED
  BY <1>4, <1>8, <1>9

\* The functions that a start and a step define on the numbers up to N.
Solutions(N, T, base, step) ==
    {f \in [0..N -> T] : f[0] = base /\ \A n \in 1..N : f[n] = step[<<f[n - 1], n>>]}

\* There is one.
LEMMA RecursionHasSolution ==
    ASSUME NEW N \in Nat, NEW T, NEW base \in T, NEW step \in [T \X (1..N) -> T]
    PROVE  Solutions(N, T, base, step) # {}
<1> DEFINE Solves(f, m) == f[0] = base /\ \A n \in 1..m : f[n] = step[<<f[n - 1], n>>]
           Solved == {m \in Nat : m <= N => \E f \in [0..m -> T] : Solves(f, m)}
<1>1. 0 \in Solved
  <2>1. [n \in 0..0 |-> base] \in [0..0 -> T] /\ Solves([n \in 0..0 |-> base], 0)
    OBVIOUS
  <2> QED
    BY <2>1
<1>2. ASSUME NEW m \in Nat, m \in Solved PROVE m + 1 \in Solved
  <2> SUFFICES ASSUME m + 1 <= N PROVE \E f \in [0..(m + 1) -> T] : Solves(f, m + 1)
    OBVIOUS
  <2>1. PICK f \in [0..m -> T] : Solves(f, m)
    BY <1>2
  <2> DEFINE g == [n \in 0..(m + 1) |-> IF n = m + 1 THEN step[<<f[m], m + 1>>] ELSE f[n]]
  <2>2. f[m] \in T /\ m + 1 \in 1..N /\ <<f[m], m + 1>> \in T \X (1..N)
    OBVIOUS
  <2>3. step[<<f[m], m + 1>>] \in T
    BY <2>2
  <2>4. g \in [0..(m + 1) -> T]
    BY <2>3
  <2>5. g[0] = base
    BY <2>1
  <2>6. ASSUME NEW n \in 1..(m + 1) PROVE g[n] = step[<<g[n - 1], n>>]
    <3>1. CASE n = m + 1
      <4>1. n - 1 = m /\ m \in 0..(m + 1) /\ m # m + 1 /\ n \in 0..(m + 1)
        BY <3>1
      <4>2. g[n] = step[<<f[m], m + 1>>] /\ g[n - 1] = f[m]
        BY <3>1, <4>1
      <4> QED
        BY <3>1, <4>2
    <3>2. CASE n # m + 1
      <4>1. n \in 1..m /\ n - 1 \in 0..m /\ n - 1 # m + 1
        BY <3>2
      <4>2. g[n] = f[n] /\ g[n - 1] = f[n - 1]
        BY <3>2, <4>1
      <4>3. QED
        BY <2>1, <4>1, <4>2
    <3> QED
      BY <3>1, <3>2
  <2>7. Solves(g, m + 1)
    BY <2>5, <2>6
  <2> QED
    BY <2>4, <2>7
<1>3. Nat \subseteq Solved
  <2> HIDE DEF Solved
  <2> QED
    BY <1>1, <1>2, SetInduction
<1>4. N \in Solved /\ N <= N
  <2> HIDE DEF Solved
  <2> QED
    BY <1>3
<1> QED
  BY <1>4 DEF Solutions

-----------------------------------------------------------------------------
(* Multiples and quotients. *)

\* Multiples.
LEMMA Multiples ==
    ASSUME NEW a \in Int, NEW b \in Int, NEW P \in Int
    PROVE  (a + b) * P = a * P + b * P /\ (a * b) * P = a * (b * P) /\ a * b \in Int /\ a * b = b * a
  OBVIOUS

\* Multiples are in the order of what is multiplied.
LEMMA MultiplesOrder ==
    ASSUME NEW a \in Int, NEW b \in Int, NEW P \in Nat
    PROVE  a <= b => a * P <= b * P
  OBVIOUS

\* And only so.
LEMMA MultiplesReflect ==
    ASSUME NEW a \in Int, NEW b \in Int, NEW P \in Nat, a * P < b * P
    PROVE  a < b
  BY MultiplesOrder

\* A quotient is below a number, and no smaller one would do.
LEMMA Quotient ==
    ASSUME NEW u \in Nat, NEW P \in Nat, P # 0
    PROVE  u \div P \in Nat /\ (u \div P) * P <= u /\ u < (u \div P) * P + P
  OBVIOUS

\* A quotient is the number that the remainder leaves.
LEMMA QuotientIs ==
    ASSUME NEW u \in Nat, NEW P \in Nat, P # 0, NEW q \in Nat, q * P <= u, u < q * P + P
    PROVE  u \div P = q
<1> DEFINE r == u \div P
<1>1. r \in Nat /\ r * P <= u /\ u < r * P + P
  BY Quotient
<1> HIDE DEF r
<1>2. r * P < (q + 1) * P /\ q * P < (r + 1) * P
  <2>1. r * P < q * P + P /\ q * P < r * P + P
    BY <1>1
  <2>2. (q + 1) * P = q * P + P /\ (r + 1) * P = r * P + P
    BY <1>1, Multiples
  <2> QED
    BY <2>1, <2>2
<1>3. r < q + 1 /\ q < r + 1
  BY <1>1, <1>2, MultiplesReflect
<1> QED
  BY <1>1, <1>3 DEF r

\* What is left.
LEMMA Remainder ==
    ASSUME NEW u \in Nat, NEW P \in Nat, P # 0
    PROVE  u = (u \div P) * P + (u % P) /\ u % P \in Nat /\ u % P < P
<1>1. u = (u \div P) * P + (u % P)
  OBVIOUS
<1>2. u % P \in Nat /\ u % P < P
  OBVIOUS
<1> QED
  BY <1>1, <1>2

\* Dividing twice.
LEMMA QuotientTwice ==
    ASSUME NEW u \in Nat, NEW P \in Nat, P # 0, NEW B \in Nat, B # 0
    PROVE  (u \div P) \div B = u \div (B * P)
<1> DEFINE q == u \div P
           r == q \div B
<1>1. q \in Nat /\ q * P <= u /\ u < q * P + P
  BY Quotient
<1> HIDE DEF q
<1>2. r \in Nat /\ r * B <= q /\ q < r * B + B
  BY <1>1, Quotient
<1> HIDE DEF r
<1>3. r * B \in Int /\ B * P \in Nat /\ B * P # 0
  BY <1>2
<1>4. (r * B) * P <= q * P
  BY <1>1, <1>2, <1>3, MultiplesOrder
<1>5. (q + 1) * P <= (r * B + B) * P
  BY <1>1, <1>2, <1>3, MultiplesOrder
<1>6. (q + 1) * P = q * P + P
  BY <1>1, Multiples
<1>7. (r * B + B) * P = (r * B) * P + B * P
  BY <1>3, Multiples
<1>8. (r * B) * P = r * (B * P)
  BY <1>2, Multiples
<1>9. r * (B * P) <= u
  BY <1>1, <1>2, <1>3, <1>4, <1>8
<1>10. u < r * (B * P) + B * P
  <2>1. u < (q + 1) * P
    BY <1>1, <1>6
  <2>2. (q + 1) * P <= r * (B * P) + B * P
    BY <1>5, <1>7, <1>8
  <2>3. (q + 1) * P \in Int /\ r * (B * P) + B * P \in Int
    BY <1>1, <1>2, <1>3
  <2> QED
    BY <2>1, <2>2, <2>3
<1>11. u \div (B * P) = r
  <2> DEFINE Q == B * P
  <2>1. Q \in Nat /\ Q # 0 /\ r * Q <= u /\ u < r * Q + Q
    BY <1>3, <1>9, <1>10
  <2> HIDE DEF Q
  <2>2. u \div Q = r
    BY <1>2, <2>1, QuotientIs
  <2> QED
    BY <2>2 DEF Q
<1> QED
  BY <1>11 DEF q, r


\* Nothing is left of a multiple, and a factor cancels.
LEMMA MultipleLeavesNothing ==
    ASSUME NEW x \in Nat, NEW P \in Nat, P # 0
    PROVE  (x * P) % P = 0
<1> DEFINE u == x * P
           r == u \div P
<1>1. u \in Nat
  OBVIOUS
<1>2. u \div P = x
  <2>1. x * P <= u /\ u < x * P + P
    OBVIOUS
  <2> HIDE DEF u
  <2> QED
    BY <1>1, <2>1, QuotientIs
<1>3. u = (u \div P) * P + (u % P) /\ u % P \in Nat
  <2> HIDE DEF u
  <2> QED
    BY <1>1, Remainder
<1>4. u = u + (u % P)
  BY <1>2, <1>3
<1> HIDE DEF u
<1>5. u % P = 0
  BY <1>1, <1>3, <1>4
<1> QED
  BY <1>5 DEF u

\* Equal multiples are of equal numbers.
LEMMA Cancels ==
    ASSUME NEW a \in Nat, NEW b \in Nat, NEW P \in Nat, P # 0, a * P = b * P
    PROVE  a = b
<1>1. ASSUME NEW x \in Nat, NEW y \in Nat, x < y PROVE x * P < y * P
  <2>1. (x + 1) * P <= y * P
    BY <1>1, MultiplesOrder
  <2>2. (x + 1) * P = x * P + 1 * P
    BY Multiples
  <2>3. x * P \in Nat /\ y * P \in Nat
    OBVIOUS
  <2> QED
    BY <2>1, <2>2, <2>3
<1>2. ~(a < b) /\ ~(b < a)
  <2>1. a * P \in Nat
    OBVIOUS
  <2> QED
    BY <1>1, <2>1
<1> QED
  BY <1>2

-----------------------------------------------------------------------------
(* Powers. *)

PowerLaw(f, base, n) ==
    /\ f \in [0..n -> Nat] /\ f[0] = 1
    /\ \A k \in 1..n : f[k] = base * f[k - 1]

\* Power() is such a function.
LEMMA PowerEquation ==
    ASSUME NEW base \in Nat, NEW n \in Nat
    PROVE  \E f : PowerLaw(f, base, n) /\ Power(base, n) = f[n]
<1> DEFINE M == n
           step == [x \in (Nat) \X (1..M) |-> base * x[1]]
           body(g) == [k \in 0..M |-> IF k = 0 THEN 1 ELSE base * g[k - 1]]
           whole == CHOOSE g : g = body(g)
<1>1. M \in Nat
  OBVIOUS
<1>2. \A x \in Nat, k \in 1..M : base * x \in Nat
  OBVIOUS
<1>3. 1 \in Nat
  OBVIOUS
<1>4. step \in [(Nat) \X (1..M) -> Nat]
  <2> HIDE DEF M
  <2> QED
    BY <1>2
<1>5. PICK f : f \in Solutions(M, Nat, 1, step)
  <2> HIDE DEF step, M
  <2> QED
    BY <1>1, <1>3, <1>4, RecursionHasSolution
<1>6. /\ f \in [0..M -> Nat] /\ f[0] = 1
      /\ \A k \in 1..M : f[k] = step[<<f[k - 1], k>>]
  <2> HIDE DEF step, M
  <2> QED
    BY <1>5 DEF Solutions
<1>7. \A k \in 1..M : f[k] = base * f[k - 1]
  <2> SUFFICES ASSUME NEW k \in 1..M PROVE f[k] = base * f[k - 1]
    OBVIOUS
  <2> HIDE DEF M
  <2>1. k - 1 \in 0..M
    BY <1>1
  <2>2. f[k - 1] \in Nat
    BY <1>6, <2>1
  <2>3. <<f[k - 1], k>> \in (Nat) \X (1..M)
    BY <2>2
  <2> QED
    BY <1>6, <2>3
<1>8. f = body(f)
  <2>1. ASSUME NEW k \in 0..M
        PROVE  f[k] = IF k = 0 THEN 1 ELSE base * f[k - 1]
    <3> HIDE DEF M
    <3>1. CASE k = 0
      BY <1>6, <3>1
    <3>2. CASE k # 0
      <4>1. k \in 1..M
        BY <1>1, <3>2
      <4> QED
        BY <1>7, <3>2, <4>1
    <3> QED
      BY <3>1, <3>2
  <2>2. f = [k \in 0..M |-> f[k]]
    BY <1>6
  <2> HIDE DEF M
  <2> QED
    BY <2>1, <2>2
<1>9. Power(base, n) = whole[M]
  BY DEF Power
<1> HIDE DEF body
<1>10. whole = body(whole)
  BY <1>8
<1> HIDE DEF whole, M
<1>11. \A k \in 0..M : whole[k] = IF k = 0 THEN 1 ELSE base * whole[k - 1]
  BY <1>10 DEF body
<1> DEFINE Same == {k \in Nat : k <= M => whole[k] = f[k]}
<1>12. 0 \in Same
  <2>1. 0 \in 0..M
    BY <1>1
  <2> QED
    BY <1>6, <1>11, <2>1
<1>13. ASSUME NEW k \in Nat, k \in Same PROVE k + 1 \in Same
  <2> SUFFICES ASSUME k + 1 <= M PROVE whole[k + 1] = f[k + 1]
    OBVIOUS
  <2>1. k + 1 \in 0..M /\ k + 1 \in 1..M /\ k + 1 # 0 /\ (k + 1) - 1 = k /\ whole[k] = f[k]
    BY <1>1, <1>13
  <2>2. whole[k + 1] = base * whole[k]
    BY <1>11, <2>1
  <2>3. f[k + 1] = base * f[k]
    BY <1>7, <2>1
  <2> QED
    BY <2>1, <2>2, <2>3
<1>14. Nat \subseteq Same
  <2> HIDE DEF Same
  <2> QED
    BY <1>12, <1>13, SetInduction
<1>15. whole[M] = f[M]
  BY <1>1, <1>14
<1> QED
  BY <1>6, <1>7, <1>9, <1>15 DEF PowerLaw, M

\* A power, and the next one.
LEMMA PowerNext ==
    ASSUME NEW base \in Nat, NEW n \in Nat
    PROVE  Power(base, n) \in Nat /\ Power(base, n + 1) = base * Power(base, n)
<1>1. PICK f : PowerLaw(f, base, n) /\ Power(base, n) = f[n]
  BY PowerEquation
<1>2. PICK g : PowerLaw(g, base, n + 1) /\ Power(base, n + 1) = g[n + 1]
  BY PowerEquation
<1>3. f \in [0..n -> Nat] /\ f[0] = 1 /\ \A k \in 1..n : f[k] = base * f[k - 1]
  BY <1>1 DEF PowerLaw
<1>4. g[0] = 1 /\ \A k \in 1..(n + 1) : g[k] = base * g[k - 1]
  BY <1>2 DEF PowerLaw
<1> DEFINE Same == {k \in Nat : k <= n => f[k] = g[k]}
<1>5. 0 \in Same
  BY <1>3, <1>4
<1>6. ASSUME NEW k \in Nat, k \in Same PROVE k + 1 \in Same
  <2> SUFFICES ASSUME k + 1 <= n PROVE f[k + 1] = g[k + 1]
    OBVIOUS
  <2>1. k + 1 \in 1..n /\ k + 1 \in 1..(n + 1) /\ (k + 1) - 1 = k /\ f[k] = g[k]
    BY <1>6
  <2>2. f[k + 1] = base * f[k] /\ g[k + 1] = base * g[k]
    BY <1>3, <1>4, <2>1
  <2> QED
    BY <2>1, <2>2
<1>7. Nat \subseteq Same
  <2> HIDE DEF Same
  <2> QED
    BY <1>5, <1>6, SetInduction
<1>8. f[n] = g[n] /\ f[n] \in Nat
  BY <1>3, <1>7
<1>9. n + 1 \in 1..(n + 1) /\ (n + 1) - 1 = n
  OBVIOUS
<1>10. g[n + 1] = base * g[n]
  BY <1>4, <1>9
<1> QED
  BY <1>1, <1>2, <1>8, <1>10

\* Powers begin with one.
LEMMA PowerBegins ==
    ASSUME NEW base \in Nat
    PROVE  Power(base, 0) = 1 /\ Power(base, 1) = base
<1>1. PICK f : PowerLaw(f, base, 0) /\ Power(base, 0) = f[0]
  BY PowerEquation
<1>2. Power(base, 0) = 1
  BY <1>1 DEF PowerLaw
<1>3. Power(base, 0 + 1) = base * Power(base, 0)
  BY PowerNext
<1> QED
  BY <1>2, <1>3

\* They are positive, and grow beyond every number.
LEMMA PowerIsPositive ==
    ASSUME NEW base \in Nat, base >= 2, NEW n \in Nat
    PROVE  Power(base, n) \in Nat /\ Power(base, n) >= 1 /\ n < Power(base, n)
<1> DEFINE S == {k \in Nat : Power(base, k) >= 1 /\ k < Power(base, k)}
<1>1. 0 \in S
  BY PowerBegins
<1>2. ASSUME NEW k \in Nat, k \in S PROVE k + 1 \in S
  <2> DEFINE p == Power(base, k)
  <2>1. p \in Nat /\ p >= 1 /\ k < p /\ Power(base, k + 1) = base * p
    BY <1>2, PowerNext
  <2> HIDE DEF p
  <2>2. 2 * p <= base * p
    BY <2>1, MultiplesOrder
  <2>3. base * p >= p + p /\ base * p \in Nat
    BY <2>1, <2>2
  <2> QED
    BY <2>1, <2>3
<1>3. Nat \subseteq S
  <2> HIDE DEF S
  <2> QED
    BY <1>1, <1>2, SetInduction
<1> QED
  BY <1>3, PowerNext

\* Exponents add up.
LEMMA PowerAdds ==
    ASSUME NEW base \in Nat, NEW a \in Nat, NEW b \in Nat
    PROVE  Power(base, a + b) = Power(base, a) * Power(base, b)
<1> DEFINE S == {k \in Nat : Power(base, a + k) = Power(base, a) * Power(base, k)}
<1>1. 0 \in S
  BY PowerBegins, PowerNext
<1>2. ASSUME NEW k \in Nat, k \in S PROVE k + 1 \in S
  <2> DEFINE p == Power(base, a)
             q == Power(base, k)
  <2>1. p \in Nat /\ q \in Nat /\ Power(base, k + 1) = base * q
    BY PowerNext
  <2>2. Power(base, a + k) = p * q
    BY <1>2
  <2>3. Power(base, (a + k) + 1) = base * Power(base, a + k)
    BY PowerNext
  <2>4. (a + k) + 1 = a + (k + 1)
    OBVIOUS
  <2> HIDE DEF p, q
  <2>5. base * (p * q) = p * (base * q)
    <3>1. (base * p) * q = base * (p * q) /\ (p * base) * q = p * (base * q) /\ base * p = p * base
      BY <2>1, Multiples
    <3> QED
      BY <3>1
  <2>6. Power(base, a + (k + 1)) = p * Power(base, k + 1)
    BY <2>1, <2>2, <2>3, <2>4, <2>5
  <2> QED
    BY <2>6 DEF p
<1>3. Nat \subseteq S
  <2> HIDE DEF S
  <2> QED
    BY <1>1, <1>2, SetInduction
<1> QED
  BY <1>3

\* A greater exponent, a greater power.
LEMMA PowerIsMonotonic ==
    ASSUME NEW base \in Nat, base >= 2, NEW a \in Nat, NEW b \in Nat, a <= b
    PROVE  Power(base, a) <= Power(base, b)
<1>1. b - a \in Nat /\ a + (b - a) = b
  OBVIOUS
<1>2. Power(base, b) = Power(base, a) * Power(base, b - a)
  BY <1>1, PowerAdds
<1> DEFINE p == Power(base, a)
           q == Power(base, b - a)
<1>3. p \in Nat /\ q \in Nat /\ q >= 1
  BY <1>1, PowerIsPositive
<1> HIDE DEF p, q
<1>4. 1 * p <= q * p
  BY <1>3, MultiplesOrder
<1>5. p <= p * q
  BY <1>3, <1>4, Multiples
<1> QED
  BY <1>2, <1>5 DEF p, q

\* A power of a power.
LEMMA PowerOfPower ==
    ASSUME NEW base \in Nat, NEW a \in Nat, NEW b \in Nat
    PROVE  Power(Power(base, a), b) = Power(base, a * b) /\ a * b \in Nat
<1> DEFINE p == Power(base, a)
           S == {k \in Nat : Power(p, k) = Power(base, a * k)}
<1>1. p \in Nat
  BY PowerNext
<1>2. a * b \in Nat
  OBVIOUS
<1>3. 0 \in S
  <2>1. a * 0 = 0
    OBVIOUS
  <2> QED
    BY <1>1, <2>1, PowerBegins
<1>4. ASSUME NEW k \in Nat, k \in S PROVE k + 1 \in S
  <2>1. a * k \in Nat /\ a * (k + 1) = a + a * k
    <3>1. (k + 1) * a = k * a + 1 * a /\ (k + 1) * a = a * (k + 1) /\ k * a = a * k
      BY Multiples
    <3>2. k * a \in Nat
      OBVIOUS
    <3> QED
      BY <3>1, <3>2
  <2>2. Power(base, a + a * k) = p * Power(base, a * k)
    BY <2>1, PowerAdds
  <2>3. Power(p, k) = Power(base, a * k) /\ Power(p, k + 1) = p * Power(p, k)
    BY <1>1, <1>4, PowerNext
  <2>4. Power(p, k + 1) = Power(base, a * (k + 1))
    BY <2>1, <2>2, <2>3
  <2> QED
    BY <2>4
<1>5. Nat \subseteq S
  <2> HIDE DEF S
  <2> QED
    BY <1>3, <1>4, SetInduction
<1> QED
  BY <1>2, <1>5

-----------------------------------------------------------------------------
(* Digits. *)

NumeralLaw(f, base, digits) ==
    /\ f \in [0..Len(digits) -> Nat] /\ f[0] = 0
    /\ \A k \in 1..Len(digits) : f[k] = base * f[k - 1] + digits[k]

\* Numeral() is such a function.
LEMMA NumeralEquation ==
    ASSUME NEW base \in Nat, NEW digits \in Seq(Nat)
    PROVE  \E f : NumeralLaw(f, base, digits) /\ Numeral(base, digits) = f[Len(digits)]
<1> DEFINE M == Len(digits)
           step == [x \in (Nat) \X (1..M) |-> base * x[1] + digits[x[2]]]
           body(g) == [k \in 0..M |-> IF k = 0 THEN 0 ELSE base * g[k - 1] + digits[k]]
           whole == CHOOSE g : g = body(g)
<1>1. M \in Nat
  BY LenProperties
<1>2. \A x \in Nat, k \in 1..M : base * x + digits[k] \in Nat
  <2>1. \A k \in 1..M : digits[k] \in Nat
    BY ElementOfSeq
  <2> HIDE DEF M
  <2>2. ASSUME NEW x \in Nat, NEW k \in 1..M PROVE base * x + digits[k] \in Nat
    <3>1. base * x \in Nat
      OBVIOUS
    <3>2. digits[k] \in Nat
      BY <2>1
    <3> QED
      BY ONLY <3>1, <3>2
  <2> QED
    BY <2>2
<1>3. 0 \in Nat
  OBVIOUS
<1>4. step \in [(Nat) \X (1..M) -> Nat]
  <2> HIDE DEF M
  <2> QED
    BY <1>2
<1>5. PICK f : f \in Solutions(M, Nat, 0, step)
  <2> HIDE DEF step, M
  <2> QED
    BY <1>1, <1>3, <1>4, RecursionHasSolution
<1>6. /\ f \in [0..M -> Nat] /\ f[0] = 0
      /\ \A k \in 1..M : f[k] = step[<<f[k - 1], k>>]
  <2> HIDE DEF step, M
  <2> QED
    BY <1>5 DEF Solutions
<1>7. \A k \in 1..M : f[k] = base * f[k - 1] + digits[k]
  <2> SUFFICES ASSUME NEW k \in 1..M PROVE f[k] = base * f[k - 1] + digits[k]
    OBVIOUS
  <2> HIDE DEF M
  <2>1. k - 1 \in 0..M
    BY <1>1
  <2>2. f[k - 1] \in Nat
    BY <1>6, <2>1
  <2>3. <<f[k - 1], k>> \in (Nat) \X (1..M)
    BY <2>2
  <2> QED
    BY <1>6, <2>3
<1>8. f = body(f)
  <2>1. ASSUME NEW k \in 0..M
        PROVE  f[k] = IF k = 0 THEN 0 ELSE base * f[k - 1] + digits[k]
    <3> HIDE DEF M
    <3>1. CASE k = 0
      BY <1>6, <3>1
    <3>2. CASE k # 0
      <4>1. k \in 1..M
        BY <1>1, <3>2
      <4> QED
        BY <1>7, <3>2, <4>1
    <3> QED
      BY <3>1, <3>2
  <2>2. f = [k \in 0..M |-> f[k]]
    BY <1>6
  <2> HIDE DEF M
  <2> QED
    BY <2>1, <2>2
<1>9. Numeral(base, digits) = whole[M]
  BY DEF Numeral
<1> HIDE DEF body
<1>10. whole = body(whole)
  BY <1>8
<1> HIDE DEF whole, M
<1>11. \A k \in 0..M : whole[k] = IF k = 0 THEN 0 ELSE base * whole[k - 1] + digits[k]
  BY <1>10 DEF body
<1> DEFINE Same == {k \in Nat : k <= M => whole[k] = f[k]}
<1>12. 0 \in Same
  <2>1. 0 \in 0..M
    BY <1>1
  <2> QED
    BY <1>6, <1>11, <2>1
<1>13. ASSUME NEW k \in Nat, k \in Same PROVE k + 1 \in Same
  <2> SUFFICES ASSUME k + 1 <= M PROVE whole[k + 1] = f[k + 1]
    OBVIOUS
  <2>1. k + 1 \in 0..M /\ k + 1 \in 1..M /\ k + 1 # 0 /\ (k + 1) - 1 = k /\ whole[k] = f[k]
    BY <1>1, <1>13
  <2>2. whole[k + 1] = base * whole[k] + digits[k + 1]
    BY <1>11, <2>1
  <2>3. f[k + 1] = base * f[k] + digits[k + 1]
    BY <1>7, <2>1
  <2> QED
    BY <2>1, <2>2, <2>3
<1>14. Nat \subseteq Same
  <2> HIDE DEF Same
  <2> QED
    BY <1>12, <1>13, SetInduction
<1>15. whole[M] = f[M]
  BY <1>1, <1>14
<1> QED
  BY <1>6, <1>7, <1>9, <1>15 DEF NumeralLaw, M

\* The number of no digits, and of one.
LEMMA NumeralOfOne ==
    ASSUME NEW base \in Nat, NEW digits \in Seq(Nat), Len(digits) = 1
    PROVE  Numeral(base, digits) = digits[1]
<1>1. PICK f : NumeralLaw(f, base, digits) /\ Numeral(base, digits) = f[Len(digits)]
  BY NumeralEquation
<1>2. f[0] = 0 /\ f[1] = base * f[1 - 1] + digits[1] /\ digits[1] \in Nat
  <2>1. 1 \in 1..Len(digits)
    OBVIOUS
  <2>2. digits[1] \in Nat
    BY <2>1, ElementOfSeq
  <2>3. f[0] = 0 /\ \A k \in 1..Len(digits) : f[k] = base * f[k - 1] + digits[k]
    BY <1>1 DEF NumeralLaw
  <2>4. f[1] = base * f[1 - 1] + digits[1]
    BY <2>1, <2>3
  <2> QED
    BY <2>2, <2>3, <2>4
<1>3. base * 0 = 0 /\ 1 - 1 = 0
  OBVIOUS
<1>4. f[1] = digits[1]
  BY <1>2, <1>3
<1> QED
  BY <1>1, <1>4

\* Digits below the base, of which the first is not zero, say how large their number is.
LEMMA NumeralBounds ==
    ASSUME NEW base \in Nat, base >= 2, NEW digits \in Seq(0..(base - 1)), digits # <<>>, digits[1] # 0
    PROVE  /\ Len(digits) \in Nat /\ Len(digits) >= 1 /\ Numeral(base, digits) \in Nat
           /\ Numeral(base, digits) < Power(base, Len(digits))
           /\ Numeral(base, digits) >= Power(base, Len(digits) - 1)
<1> DEFINE L == Len(digits)
           p(k) == Power(base, k)
<1>1. L \in Nat /\ L >= 1 /\ \A k \in 1..L : digits[k] \in Nat /\ digits[k] <= base - 1
  <2>1. L \in Nat /\ L # 0
    BY LenProperties, EmptySeq
  <2>2. \A k \in 1..L : digits[k] \in 0..(base - 1)
    BY ElementOfSeq
  <2> HIDE DEF L
  <2> QED
    BY <2>1, <2>2
<1>2. digits \in Seq(Nat)
  <2>1. 0..(base - 1) \subseteq Nat
    OBVIOUS
  <2> QED
    BY <2>1, SeqMonotonic
<1>3. PICK f : NumeralLaw(f, base, digits) /\ Numeral(base, digits) = f[L]
  BY <1>2, NumeralEquation
<1>4. /\ f \in [0..L -> Nat] /\ f[0] = 0
      /\ \A k \in 1..L : f[k] = base * f[k - 1] + digits[k]
  BY <1>3 DEF NumeralLaw
<1>5. \A k \in Nat : p(k) \in Nat /\ p(k) >= 1 /\ p(k + 1) = base * p(k)
  BY PowerIsPositive, PowerNext
<1>6. p(0) = 1 /\ p(1) = base
  BY PowerBegins
<1> HIDE DEF L, p
<1> DEFINE S == {k \in Nat : k + 1 <= L => f[k + 1] < p(k + 1) /\ f[k + 1] >= p(k)}
<1>7. 0 \in S
  <2>1. 1 \in 1..L /\ 1 - 1 = 0 /\ base * 0 = 0
    BY <1>1
  <2>2. f[1] = digits[1] /\ digits[1] \in Nat /\ digits[1] <= base - 1
    BY <1>1, <1>4, <2>1
  <2>3. f[1] < base /\ f[1] >= 1
    BY <2>2
  <2> QED
    BY <1>6, <2>3
<1>8. ASSUME NEW k \in Nat, k \in S PROVE k + 1 \in S
  <2> SUFFICES ASSUME (k + 1) + 1 <= L
               PROVE  f[(k + 1) + 1] < p((k + 1) + 1) /\ f[(k + 1) + 1] >= p(k + 1)
    OBVIOUS
  <2> DEFINE x == f[k + 1]
             d == digits[(k + 1) + 1]
             q == p(k + 1)
  <2>1. /\ k + 1 \in 0..L /\ (k + 1) + 1 \in 1..L /\ ((k + 1) + 1) - 1 = k + 1 /\ k + 1 \in Nat
        /\ x < q /\ x >= p(k)
    BY <1>1, <1>8
  <2>2. x \in Nat /\ d \in Nat /\ d <= base - 1 /\ f[(k + 1) + 1] = base * x + d
    BY <1>1, <1>4, <2>1
  <2>3. q \in Nat /\ q = base * p(k) /\ p((k + 1) + 1) = base * q /\ p(k) \in Nat
    BY <1>5, <2>1
  <2> HIDE DEF x, d, q
  <2>4. x + 1 <= q /\ x + 1 \in Int /\ q \in Int
    BY <2>1, <2>2, <2>3
  <2>5. (x + 1) * base <= q * base
    BY <2>4, MultiplesOrder
  <2>6. (x + 1) * base = x * base + 1 * base /\ x * base = base * x /\ q * base = base * q
    BY <2>2, <2>3, Multiples
  <2>7. base * x \in Nat /\ base * q \in Nat
    BY <2>2, <2>3
  <2>8. base * x + d < base * q
    BY <2>2, <2>5, <2>6, <2>7
  <2>9. p(k) * base <= x * base /\ p(k) * base = base * p(k)
    <3>1. p(k) * base <= x * base
      BY <2>1, <2>2, <2>3, MultiplesOrder
    <3>2. p(k) * base = base * p(k)
      BY <2>3, Multiples
    <3> QED
      BY <3>1, <3>2
  <2>10. base * x + d >= q
    BY <2>2, <2>3, <2>6, <2>7, <2>9
  <2> QED
    BY <2>2, <2>3, <2>8, <2>10 DEF q
<1>9. Nat \subseteq S
  <2> HIDE DEF S
  <2> QED
    BY <1>7, <1>8, SetInduction
<1>10. L - 1 \in Nat /\ (L - 1) + 1 = L
  BY <1>1
<1>11. f[L] < p(L) /\ f[L] >= p(L - 1) /\ f[L] \in Nat
  BY <1>1, <1>4, <1>9, <1>10
<1> QED
  BY <1>1, <1>3, <1>11 DEF L, p

\* How often the base divides a number: as often as zeros end its digits.
LEMMA NumeralDivides ==
    ASSUME NEW base \in Nat, base >= 2, NEW digits \in Seq(0..(base - 1)),
           NEW zeros \in Nat, zeros < Len(digits), digits[Len(digits) - zeros] # 0,
           \A i \in (Len(digits) - zeros + 1)..Len(digits) : digits[i] = 0,
           NEW k \in Nat
    PROVE  Numeral(base, digits) % Power(base, k) = 0 <=> k <= zeros
<1> DEFINE L == Len(digits)
           p(j) == Power(base, j)
           N == Numeral(base, digits)
<1>1. L \in Nat /\ L >= 1 /\ \A j \in 1..L : digits[j] \in Nat /\ digits[j] <= base - 1
  <2>1. L \in Nat
    BY LenProperties
  <2>2. \A j \in 1..L : digits[j] \in 0..(base - 1)
    BY ElementOfSeq
  <2> HIDE DEF L
  <2>3. \A j \in 1..L : digits[j] \in Nat /\ digits[j] <= base - 1
    BY <2>2
  <2>4. zeros < L
    BY DEF L
  <2> QED
    BY <2>1, <2>3, <2>4
<1>2. digits \in Seq(Nat)
  <2>1. 0..(base - 1) \subseteq Nat
    OBVIOUS
  <2> QED
    BY <2>1, SeqMonotonic
<1>3. PICK f : NumeralLaw(f, base, digits) /\ N = f[L]
  BY <1>2, NumeralEquation
<1>4. /\ f \in [0..L -> Nat] /\ f[0] = 0
      /\ \A j \in 1..L : f[j] = base * f[j - 1] + digits[j]
  BY <1>3 DEF NumeralLaw
<1>5. \A j \in Nat : p(j) \in Nat /\ p(j) >= 1 /\ p(j + 1) = base * p(j)
  BY PowerIsPositive, PowerNext
<1>6. p(0) = 1
  BY PowerBegins
<1>7. /\ zeros < L /\ digits[L - zeros] # 0
      /\ \A i \in (L - zeros + 1)..L : digits[i] = 0
  BY DEF L
<1>8. \A a, b \in Nat : p(a + b) = p(a) * p(b)
  BY PowerAdds
<1> HIDE DEF L, p, N
<1> DEFINE S == {j \in Nat : j <= zeros => N = f[L - j] * p(j)}
<1>9. 0 \in S
  <2>1. L - 0 = L /\ L \in 0..L
    BY <1>1
  <2>2. f[L] \in Nat /\ f[L] * 1 = f[L]
    BY <1>4, <2>1
  <2> QED
    BY <1>3, <1>6, <2>1, <2>2
<1>10. ASSUME NEW j \in Nat, j \in S PROVE j + 1 \in S
  <2> SUFFICES ASSUME j + 1 <= zeros PROVE N = f[L - (j + 1)] * p(j + 1)
    OBVIOUS
  <2> DEFINE x == f[L - (j + 1)]
             q == p(j)
  <2>1. /\ L - j \in (L - zeros + 1)..L /\ L - j \in 1..L /\ (L - j) - 1 = L - (j + 1)
        /\ L - (j + 1) \in 0..L /\ j <= zeros
    BY <1>1, <1>7
  <2>2. N = f[L - j] * q /\ digits[L - j] = 0 /\ x \in Nat
    BY <1>4, <1>7, <1>10, <2>1
  <2>3. f[L - j] = base * x + 0
    BY <1>4, <2>1, <2>2
  <2>4. q \in Nat /\ p(j + 1) = base * q
    BY <1>5
  <2> HIDE DEF x, q
  <2>5. f[L - j] = x * base
    BY <2>2, <2>3, Multiples
  <2>6. (x * base) * q = x * (base * q)
    BY <2>2, <2>4, Multiples
  <2>7. N = x * p(j + 1)
    BY <2>2, <2>4, <2>5, <2>6
  <2> QED
    BY <2>7 DEF x
<1>11. Nat \subseteq S
  <2> HIDE DEF S
  <2> QED
    BY <1>9, <1>10, SetInduction
<1> HIDE DEF S
<1>12. CASE k <= zeros
  <2>1. N = f[L - k] * p(k) /\ L - k \in 0..L
    BY <1>1, <1>7, <1>11, <1>12 DEF S
  <2>2. f[L - k] \in Nat /\ p(k) \in Nat /\ p(k) >= 1
    BY <1>4, <1>5, <2>1
  <2> DEFINE x == f[L - k]
             q == p(k)
  <2> HIDE DEF x, q
  <2>3. x \in Nat /\ q \in Nat /\ q >= 1 /\ N = x * q
    BY <2>1, <2>2 DEF x, q
  <2>4. N % q = 0
    BY <2>3, MultipleLeavesNothing
  <2> QED
    BY <1>12, <2>4 DEF N, p, q
<1>13. CASE ~(k <= zeros)
  <2> DEFINE m == (k - zeros) - 1
             x == f[L - zeros]
             y == f[(L - zeros) - 1]
             d == digits[L - zeros]
             q == p(zeros)
  <2>1. m \in Nat /\ k = (m + 1) + zeros /\ m + 1 \in Nat
    BY <1>13
  <2>2. L - zeros \in 1..L /\ (L - zeros) - 1 \in 0..L /\ L - zeros \in 0..L /\ zeros <= zeros
    BY <1>1, <1>7
  <2>3. N = x * q /\ x = base * y + d /\ x \in Nat /\ y \in Nat
    BY <1>4, <1>11, <2>2 DEF S
  <2>4. d \in Nat /\ d <= base - 1 /\ d # 0
    BY <1>1, <1>7, <2>2
  <2>5. q \in Nat /\ q >= 1 /\ p(k) = p(m + 1) * q /\ p(m + 1) = base * p(m) /\ p(m) \in Nat
        /\ p(k) \in Nat /\ p(k) >= 1
    <3> HIDE DEF m, p
    <3>1. q \in Nat /\ q >= 1 /\ p(m) \in Nat /\ p(k) \in Nat /\ p(k) >= 1
      BY <1>5, <2>1
    <3>2. p(m + 1) = base * p(m)
      BY <1>5, <2>1
    <3>3. p(k) = p(m + 1) * q
      BY <1>8, <2>1
    <3> QED
      BY <3>1, <3>2, <3>3
  <2> SUFFICES ASSUME N % p(k) = 0 PROVE FALSE
    BY <1>13 DEF N, p
  <2> DEFINE c == N \div p(k)
             r == c * p(m)
  <2> HIDE DEF m, x, y, d, q
  <2>6. N \in Nat
    BY ONLY <2>3, <2>5
  <2>7. N = c * p(k) /\ c \in Nat
    <3> DEFINE P == p(k)
    <3>1. P \in Nat /\ P # 0 /\ N % P = 0
      BY <2>5
    <3> HIDE DEF P
    <3>2. N = (N \div P) * P + (N % P)
      BY <2>6, <3>1, Remainder
    <3>3. N \div P \in Nat
      BY <2>6, <3>1, Quotient
    <3>4. (N \div P) * P \in Nat
      BY ONLY <3>1, <3>3
    <3>5. N = (N \div P) * P
      BY ONLY <2>6, <3>1, <3>2, <3>4
    <3> QED
      BY <3>3, <3>5 DEF P
  <2> HIDE DEF c
  <2>8. r \in Nat
    BY ONLY <2>5, <2>7 DEF r
  <2>9. N = (r * base) * q
    <3> DEFINE u == p(m)
    <3>1. u \in Nat /\ N = c * ((base * u) * q)
      <4>1. u \in Nat
        BY <2>5
      <4>2. p(k) = (base * u) * q
        BY <2>5
      <4> QED
        BY <2>7, <4>1, <4>2
    <3> HIDE DEF u
    <3>2. base * u = u * base /\ (u * base) * q = u * (base * q)
      BY <2>5, <3>1, Multiples
    <3>3. base * q \in Int /\ c * (u * (base * q)) = (c * u) * (base * q)
      BY <2>5, <2>7, <3>1, Multiples
    <3>4. c * u \in Int /\ (c * u) * (base * q) = ((c * u) * base) * q
      BY <2>5, <2>7, <3>1, Multiples
    <3> QED
      BY <3>1, <3>2, <3>3, <3>4 DEF u
  <2> HIDE DEF r
  <2>10. x = r * base
    <3> DEFINE s == r * base
    <3>1. s \in Nat
      BY <2>8
    <3>2. x * q = s * q
      BY <2>3, <2>9
    <3> HIDE DEF s
    <3>3. q \in Nat /\ q # 0 /\ x \in Nat
      BY <2>3, <2>5
    <3>4. x = s
      BY <3>1, <3>2, <3>3, Cancels
    <3> QED
      BY <3>4 DEF s
  <2>11. base * y + d = r * base /\ base * y = y * base
    BY <2>3, <2>10, Multiples
  <2>12. y * base + d = r * base
    BY <2>11
  <2>13. y < r /\ r < y + 1
    <3>1. y * base < r * base
      <4>1. y * base \in Nat /\ r * base \in Nat
        BY <2>3, <2>8
      <4> QED
        BY <2>4, <2>12, <4>1
    <3>2. r * base < (y + 1) * base
      <4>1. (y + 1) * base = y * base + 1 * base
        BY <2>3, Multiples
      <4>2. y * base \in Nat
        BY <2>3
      <4> QED
        BY <2>4, <2>12, <4>1, <4>2
    <3> QED
      BY <2>3, <2>8, <3>1, <3>2, MultiplesReflect
  <2> QED
    BY <2>3, <2>8, <2>13
<1> QED
  BY <1>12, <1>13

\* Multiplied or divided by a power, a number of so many digits is below another power
\* if and only if the exponents say so.
LEMMA ShiftedBelow ==
    ASSUME NEW base \in Nat, base >= 2, NEW N \in Nat, NEW L \in Nat, L >= 1,
           N < Power(base, L), N >= Power(base, L - 1), NEW k \in Nat, NEW m \in Nat
    PROVE  /\ N * Power(base, k) < Power(base, m) <=> L + k <= m
           /\ N \div Power(base, k) < Power(base, m) <=> L - k <= m
<1> DEFINE p(j) == Power(base, j)
<1>1. \A j \in Nat : p(j) \in Nat /\ p(j) >= 1
  BY PowerIsPositive
<1>2. \A a, b \in Nat : p(a + b) = p(a) * p(b)
  BY PowerAdds
<1>3. \A a, b \in Nat : a <= b => p(a) <= p(b)
  BY PowerIsMonotonic
<1>4. N < p(L) /\ N >= p(L - 1) /\ L - 1 \in Nat
  OBVIOUS
<1> HIDE DEF p
<1>5. ASSUME NEW j \in Nat, NEW n \in Nat PROVE N * p(j) < p(n) <=> L + j <= n
  <2> DEFINE q == p(j)
  <2>1. q \in Nat /\ q >= 1 /\ p(n) \in Nat /\ p(L) \in Nat /\ p(L - 1) \in Nat
    BY <1>1, <1>4
  <2>2. p(L + j) = p(L) * q /\ p((L - 1) + j) = p(L - 1) * q
    BY <1>2, <1>4
  <2> HIDE DEF q
  <2>3. N * q \in Nat /\ p(L) * q \in Nat /\ p(L - 1) * q \in Nat
    BY <2>1
  <2>4. CASE L + j <= n
    <3>1. p(L) * q <= p(n)
      BY <1>3, <2>2, <2>4
    <3>2. N * q < p(L) * q
      <4>1. N + 1 <= p(L)
        BY <1>4, <2>1
      <4>2. (N + 1) * q <= p(L) * q
        BY <2>1, <4>1, MultiplesOrder
      <4>3. (N + 1) * q = N * q + 1 * q
        BY <2>1, Multiples
      <4> QED
        BY <2>1, <2>3, <4>2, <4>3
    <3>3. N * q < p(n)
      BY <2>1, <2>3, <3>1, <3>2
    <3> QED
      BY <2>4, <3>3 DEF q
  <2>5. CASE ~(L + j <= n)
    <3>1. n <= (L - 1) + j /\ (L - 1) + j \in Nat
      BY <1>4, <2>5
    <3>2. p(n) <= p(L - 1) * q
      BY <1>3, <2>2, <3>1
    <3>3. p(L - 1) * q <= N * q
      BY <1>4, <2>1, MultiplesOrder
    <3>4. ~(N * q < p(n))
      BY <2>1, <2>3, <3>2, <3>3
    <3> QED
      BY <2>5, <3>4 DEF q
  <2> QED
    BY <2>4, <2>5
<1>6. N \div p(k) < p(m) <=> L - k <= m
  <2> DEFINE q == p(k)
             r == N \div q
  <2>1. q \in Nat /\ q >= 1 /\ p(m) \in Nat /\ p(m + k) = p(m) * q /\ m + k \in Nat
    <3>1. q \in Nat /\ q >= 1
      BY <1>1
    <3>2. m + k \in Nat
      OBVIOUS
    <3>3. p(m + k) = p(m) * q
      BY <1>2
    <3>4. p(m) \in Nat
      BY <1>1
    <3> QED
      BY <3>1, <3>2, <3>3, <3>4
  <2> HIDE DEF q
  <2>2. r \in Nat /\ r * q <= N /\ N < r * q + q
    <3>1. q # 0
      BY <2>1
    <3> QED
      BY <2>1, <3>1, Quotient
  <2>3. N * p(0) < p(m + k) <=> L + 0 <= m + k
    BY <1>5, <2>1
  <2>4. p(0) = 1 /\ N * 1 = N
    BY PowerBegins DEF p
  <2>5. N < p(m) * q <=> L <= m + k
    BY <2>1, <2>3, <2>4
  <2> HIDE DEF q, r
  <2>6. r * q \in Nat /\ p(m) * q \in Nat
    BY <2>1, <2>2
  <2>7. ASSUME r < p(m) PROVE N < p(m) * q
    <3>1. r + 1 <= p(m)
      BY <2>1, <2>2, <2>7
    <3>2. (r + 1) * q <= p(m) * q
      BY <2>1, <2>2, <3>1, MultiplesOrder
    <3>3. (r + 1) * q = r * q + 1 * q
      BY <2>1, <2>2, Multiples
    <3> QED
      BY <2>1, <2>2, <2>6, <3>2, <3>3
  <2>8. ASSUME N < p(m) * q PROVE r < p(m)
    <3>1. r * q < p(m) * q
      BY <2>2, <2>6, <2>8
    <3> QED
      BY <2>1, <2>2, <3>1, MultiplesReflect
  <2>9. r < p(m) <=> L <= m + k
    BY <2>5, <2>7, <2>8
  <2>10. L <= m + k <=> L - k <= m
    OBVIOUS
  <2> QED
    BY <2>9, <2>10 DEF r, q
<1> QED
  BY <1>5, <1>6 DEF p

\* A number is read back from as many digits as it needs.
LEMMA DigitsReadBack ==
    ASSUME NEW base \in Nat, base >= 2, NEW number \in Nat, NEW length \in Nat,
           number < Power(base, length)
    PROVE  /\ InDigits(base, number, length) \in Seq(0..(base - 1))
           /\ Len(InDigits(base, number, length)) = length
           /\ Numeral(base, InDigits(base, number, length)) = number
<1> DEFINE p(i) == Power(base, length - i)
           digits == InDigits(base, number, length)
<1>1. \A i \in 0..length : p(i) \in Nat /\ p(i) # 0
  <2> SUFFICES ASSUME NEW i \in 0..length PROVE p(i) \in Nat /\ p(i) # 0
    OBVIOUS
  <2>1. length - i \in Nat
    OBVIOUS
  <2>2. Power(base, length - i) \in Nat /\ Power(base, length - i) >= 1
    BY <2>1, PowerIsPositive
  <2> QED
    BY <2>2
<1>2. \A i \in 1..length : p(i - 1) = base * p(i)
  <2> SUFFICES ASSUME NEW i \in 1..length PROVE p(i - 1) = base * p(i)
    OBVIOUS
  <2>1. length - i \in Nat /\ length - (i - 1) = (length - i) + 1
    OBVIOUS
  <2>2. Power(base, (length - i) + 1) = base * Power(base, length - i)
    BY <2>1, PowerNext
  <2> QED
    BY <2>1, <2>2
<1>3. number < p(0) /\ p(length) = 1
  <2>1. length - 0 = length /\ length - length = 0
    OBVIOUS
  <2> QED
    BY <2>1, PowerBegins
<1>4. digits = [i \in 1..length |-> (number \div p(i)) % base]
  BY DEF InDigits
<1> HIDE DEF p, digits
<1>5. ASSUME NEW i \in 1..length
      PROVE  (number \div p(i)) % base \in 0..(base - 1) /\ number \div p(i) \in Nat
  <2>1. p(i) \in Nat /\ p(i) # 0
    BY <1>1
  <2> DEFINE q == number \div p(i)
  <2>2. q \in Nat
    BY <2>1, Quotient
  <2> HIDE DEF q
  <2>3. q % base \in Nat /\ q % base < base
    BY <2>2, Remainder
  <2>4. q % base \in 0..(base - 1)
    BY <2>3
  <2> QED
    BY <2>2, <2>4 DEF q
<1>6. /\ digits \in Seq(0..(base - 1)) /\ Len(digits) = length
      /\ \A i \in 1..length : digits[i] = (number \div p(i)) % base
  <2>1. digits \in [1..length -> 0..(base - 1)]
    BY <1>4, <1>5
  <2>2. \A i \in 1..length : digits[i] = (number \div p(i)) % base
    BY <1>4
  <2>3. digits \in Seq(0..(base - 1))
    BY <2>1
  <2>4. Len(digits) = length
    BY <2>1, <2>3, LenProperties
  <2> QED
    BY <2>2, <2>3, <2>4
<1>7. digits \in Seq(Nat)
  <2>1. 0..(base - 1) \subseteq Nat
    OBVIOUS
  <2> QED
    BY <1>6, <2>1, SeqMonotonic
<1>8. PICK f : NumeralLaw(f, base, digits) /\ Numeral(base, digits) = f[length]
  BY <1>6, <1>7, NumeralEquation
<1>9. f[0] = 0 /\ \A k \in 1..length : f[k] = base * f[k - 1] + digits[k]
  BY <1>6, <1>8 DEF NumeralLaw
<1> DEFINE S == {k \in Nat : k <= length => f[k] = number \div p(k)}
<1>10. 0 \in S
  <2>1. p(0) \in Nat /\ p(0) # 0 /\ 0 * p(0) = 0
    BY <1>1
  <2>2. number \div p(0) = 0
    BY <1>3, <2>1, QuotientIs
  <2> QED
    BY <1>9, <2>2
<1>11. ASSUME NEW k \in Nat, k \in S PROVE k + 1 \in S
  <2> SUFFICES ASSUME k + 1 <= length PROVE f[k + 1] = number \div p(k + 1)
    OBVIOUS
  <2> DEFINE q == number \div p(k + 1)
  <2>1. k + 1 \in 1..length /\ k + 1 \in 0..length /\ (k + 1) - 1 = k /\ f[k] = number \div p(k)
    BY <1>11
  <2>2. p(k + 1) \in Nat /\ p(k + 1) # 0 /\ p(k) = base * p(k + 1) /\ q \in Nat
    BY <1>1, <1>2, <1>5, <2>1
  <2>3. q \div base = number \div p(k)
    BY <2>2, QuotientTwice
  <2>4. f[k + 1] = base * f[k] + digits[k + 1] /\ digits[k + 1] = q % base
    BY <1>6, <1>9, <2>1
  <2> HIDE DEF q
  <2>5. q = (q \div base) * base + (q % base) /\ q \div base \in Nat
    BY <2>2, Quotient, Remainder
  <2>6. (q \div base) * base = base * (q \div base)
    BY <2>5, Multiples
  <2>7. f[k + 1] = q
    BY <2>1, <2>3, <2>4, <2>5, <2>6
  <2> QED
    BY <2>7 DEF q
<1>12. Nat \subseteq S
  <2> HIDE DEF S
  <2> QED
    BY <1>10, <1>11, SetInduction
<1>13. f[length] = number
  <2>1. number \div 1 = number
    OBVIOUS
  <2> QED
    BY <1>3, <1>12, <2>1
<1> QED
  BY <1>6, <1>8, <1>13 DEF digits

\* How many digits a number has.
LEMMA NumberOfDigits ==
    ASSUME NEW base \in Nat, base >= 2, NEW number \in Nat
    PROVE  \E k \in 1..(number + 1) :
              number < Power(base, k) /\ (k > 1 => number >= Power(base, k - 1))
<1> DEFINE Has(n, k) == n < Power(base, k) /\ (k > 1 => n >= Power(base, k - 1))
           S == {n \in Nat : \E k \in 1..(n + 1) : Has(n, k)}
<1>1. 0 \in S
  <2>1. 1 \in 1..(0 + 1) /\ Has(0, 1)
    BY PowerBegins
  <2> QED
    BY <2>1
<1>2. ASSUME NEW n \in Nat, n \in S PROVE n + 1 \in S
  <2>1. PICK k \in 1..(n + 1) : Has(n, k)
    BY <1>2
  <2>2. /\ k \in Nat /\ k >= 1 /\ k - 1 \in Nat /\ k + 1 \in 1..((n + 1) + 1) /\ k \in 1..((n + 1) + 1)
        /\ (k + 1) - 1 = k /\ k + 1 > 1
    OBVIOUS
  <2> DEFINE p == Power(base, k)
             q == Power(base, k - 1)
  <2>3. p \in Nat /\ p >= 1 /\ q \in Nat /\ Power(base, k + 1) = base * p
    BY <2>2, PowerIsPositive, PowerNext
  <2>4. n < p /\ (k > 1 => n >= q)
    BY <2>1
  <2>5. CASE n + 1 < p
    <3>1. Has(n + 1, k)
      <4> HIDE DEF p, q
      <4>1. k > 1 => n + 1 >= q
        BY <2>3, <2>4
      <4> QED
        BY <2>5, <4>1 DEF p, q
    <3> QED
      BY <2>2, <3>1
  <2>6. CASE ~(n + 1 < p)
    <3>1. Has(n + 1, k + 1)
      <4> HIDE DEF p, q
      <4>1. 2 * p <= base * p /\ base * p \in Nat
        BY <2>3, MultiplesOrder
      <4>2. n + 1 < base * p /\ n + 1 >= p
        BY <2>3, <2>4, <2>6, <4>1
      <4> QED
        BY <2>2, <2>3, <4>2 DEF p
    <3> QED
      BY <2>2, <3>1
  <2> QED
    BY <2>5, <2>6
<1>3. Nat \subseteq S
  <2> HIDE DEF S
  <2> QED
    BY <1>1, <1>2, SetInduction
<1> QED
  BY <1>3

-----------------------------------------------------------------------------
(* A row and a scan. *)

\* A family is the family of one of the kinds of values, and only null has none.
LEMMA FamilyOfKind ==
    /\ \A kind \in AllKinds \ {"null"} : ValueFamily(kind) \in Families
    /\ Families \subseteq AllKinds \ {"null"}
  BY DEF AllKinds, ValueFamily, Families

\* Observing a value adds a family or nothing.
LEMMA ObserveType ==
    ASSUME NEW found \in SUBSET Families, NEW kind \in AllKinds
    PROVE  Observe(found, kind) \in SUBSET Families
  BY FamilyOfKind DEF Observe

\* A table: rows of kinds, whatever their number.
RowsOK == rows \in Seq([Columns -> AllKinds])

\* A value of a table is of one of the kinds.
LEMMA KindType ==
    ASSUME RowsOK, NEW c \in Columns, NEW i \in 1..Len(rows)
    PROVE  Kind(c, i) \in AllKinds
  BY DEF RowsOK, Kind

\* _scan_families(): nothing before the first row, then row by row.
LEMMA ScanEquation ==
    ASSUME RowsOK, NEW c \in Columns
    PROVE  /\ \A n \in 0..Len(rows) : ScanFamilies(c, n) \in SUBSET Families
           /\ ScanFamilies(c, 0) = {}
           /\ \A n \in 1..Len(rows) :
                ScanFamilies(c, n) = Observe(ScanFamilies(c, n - 1), Kind(c, n))
<1> DEFINE T == SUBSET Families
           N == Len(rows)
           step == [x \in T \X (1..N) |-> Observe(x[1], Kind(c, x[2]))]
<1>1. N \in Nat
  BY DEF RowsOK
<1>2. step \in [T \X (1..N) -> T]
  BY ObserveType, KindType
<1>3. PICK f : f \in Solutions(N, T, {}, step)
  <2>1. {} \in T
    OBVIOUS
  <2> HIDE DEF step, T, N
  <2> QED
    BY ONLY <1>1, <1>2, <2>1, RecursionHasSolution
<1>4. /\ f \in [0..N -> T] /\ f[0] = {}
      /\ \A n \in 1..N : f[n] = step[<<f[n - 1], n>>]
  <2> HIDE DEF step, T, N
  <2> QED
    BY <1>3 DEF Solutions
<1>5. \A n \in 1..N : f[n] = Observe(f[n - 1], Kind(c, n))
  <2> SUFFICES ASSUME NEW n \in 1..N PROVE f[n] = Observe(f[n - 1], Kind(c, n))
    OBVIOUS
  <2>1. n - 1 \in 0..N
    BY <1>1
  <2>2. <<f[n - 1], n>> \in T \X (1..N)
    BY <1>4, <2>1
  <2> QED
    BY <1>4, <2>2
<1> DEFINE body(g) == [n \in 0..N |-> IF n = 0 THEN {} ELSE Observe(g[n - 1], Kind(c, n))]
           scan == CHOOSE g : g = body(g)
<1>6. f = body(f)
  <2>1. \A n \in 0..N : f[n] = IF n = 0 THEN {} ELSE Observe(f[n - 1], Kind(c, n))
    BY <1>1, <1>4, <1>5
  <2>2. f = [n \in 0..N |-> f[n]]
    BY <1>4
  <2> QED
    BY <2>1, <2>2
<1>7. scan = body(scan)
  BY <1>6
<1>8. \A n : ScanFamilies(c, n) = scan[n]
  BY DEF ScanFamilies
<1>9. /\ scan[0] = {}
      /\ \A n \in 1..N : scan[n] = Observe(scan[n - 1], Kind(c, n))
  <2>1. ASSUME NEW n \in 0..N
        PROVE  scan[n] = IF n = 0 THEN {} ELSE Observe(scan[n - 1], Kind(c, n))
    <3> HIDE DEF scan
    <3> QED
      BY <1>7
  <2> HIDE DEF scan
  <2> QED
    BY <1>1, <2>1
<1>10. \A n \in 0..N : scan[n] \in T
  <2> HIDE DEF scan
  <2> DEFINE Typed == {n \in Nat : n <= N => scan[n] \in T}
  <2>1. 0 \in Typed
    BY <1>9
  <2>2. ASSUME NEW n \in Nat, n \in Typed PROVE n + 1 \in Typed
    <3> SUFFICES ASSUME n + 1 <= N PROVE scan[n + 1] \in T
      OBVIOUS
    <3>1. n + 1 \in 1..N /\ (n + 1) - 1 = n /\ scan[n] \in T
      BY <1>1, <2>2
    <3>2. scan[n + 1] = Observe(scan[n], Kind(c, n + 1))
      BY <1>9, <3>1
    <3> QED
      BY <3>1, <3>2, ObserveType, KindType
  <2>3. Nat \subseteq Typed
    <3> HIDE DEF Typed
    <3> QED
      BY <2>1, <2>2, SetInduction
  <2> QED
    BY <1>1, <2>3
<1> HIDE DEF scan
<1> QED
  BY <1>8, <1>9, <1>10

-----------------------------------------------------------------------------
(* What a scan has seen. *)

\* The families of the first n rows.
Seen(c, n) == {ValueFamily(Kind(c, i)) : i \in {j \in 1..n : Kind(c, j) # "null"}}

\* A scan finds no family that is not there, and all of them unless it stopped at three.
LEMMA ScanSees ==
    ASSUME RowsOK, NEW c \in Columns, NEW n \in 0..Len(rows)
    PROVE  /\ ScanFamilies(c, n) \subseteq Seen(c, n)
           /\ Full(ScanFamilies(c, n)) \/ ScanFamilies(c, n) = Seen(c, n)
<1> DEFINE Good(m) == /\ ScanFamilies(c, m) \subseteq Seen(c, m)
                      /\ Full(ScanFamilies(c, m)) \/ ScanFamilies(c, m) = Seen(c, m)
           Goods == {m \in Nat : m <= Len(rows) => Good(m)}
<1>0. Len(rows) \in Nat
  BY DEF RowsOK
<1>1. 0 \in Goods
  BY ScanEquation DEF Seen
<1>2. ASSUME NEW m \in Nat, m \in Goods PROVE m + 1 \in Goods
  <2> SUFFICES ASSUME m + 1 <= Len(rows) PROVE Good(m + 1)
    OBVIOUS
  <2>1. m + 1 \in 1..Len(rows) /\ (m + 1) - 1 = m /\ Good(m)
    BY <1>0, <1>2
  <2>2. ScanFamilies(c, m + 1) = Observe(ScanFamilies(c, m), Kind(c, m + 1))
    BY <2>1, ScanEquation
  <2>3. 1..(m + 1) = (1..m) \cup {m + 1}
    OBVIOUS
  <2>4. Seen(c, m + 1) = Seen(c, m) \cup
          (IF Kind(c, m + 1) = "null" THEN {} ELSE {ValueFamily(Kind(c, m + 1))})
    BY <2>3 DEF Seen
  <2> HIDE DEF Goods
  <2>5. QED
    BY <2>1, <2>2, <2>4 DEF Observe
<1>3. Nat \subseteq Goods
  <2> HIDE DEF Goods
  <2> QED
    BY <1>1, <1>2, SetInduction
<1>4. n \in Nat /\ n <= Len(rows)
  BY <1>0
<1> QED
  BY <1>3, <1>4

\* Later rows only add families, and none once three are found.
LEMMA ScanGrows ==
    ASSUME RowsOK, NEW c \in Columns, NEW n \in 0..Len(rows), NEW k \in n..Len(rows)
    PROVE  /\ ScanFamilies(c, n) \subseteq ScanFamilies(c, k)
           /\ Full(ScanFamilies(c, n)) => ScanFamilies(c, k) = ScanFamilies(c, n)
<1> DEFINE Good(m) == /\ ScanFamilies(c, n) \subseteq ScanFamilies(c, m)
                      /\ Full(ScanFamilies(c, n)) => ScanFamilies(c, m) = ScanFamilies(c, n)
           Goods == {m \in Nat : n <= m /\ m <= Len(rows) => Good(m)}
<1>0. Len(rows) \in Nat
  BY DEF RowsOK
<1>1. 0 \in Goods
  OBVIOUS
<1>2. ASSUME NEW m \in Nat, m \in Goods PROVE m + 1 \in Goods
  <2> SUFFICES ASSUME n <= m + 1, m + 1 <= Len(rows) PROVE Good(m + 1)
    OBVIOUS
  <2>1. CASE n = m + 1
    BY <2>1
  <2>2. CASE n # m + 1
    <3>1. m + 1 \in 1..Len(rows) /\ (m + 1) - 1 = m /\ Good(m)
      BY <1>0, <1>2, <2>2
    <3>2. ScanFamilies(c, m + 1) = Observe(ScanFamilies(c, m), Kind(c, m + 1))
      BY <3>1, ScanEquation
    <3> HIDE DEF Goods
    <3> QED
      BY <3>1, <3>2 DEF Observe
  <2> QED
    BY <2>1, <2>2
<1>3. Nat \subseteq Goods
  <2> HIDE DEF Goods
  <2> QED
    BY <1>1, <1>2, SetInduction
<1>4. k \in Nat /\ n <= k /\ k <= Len(rows)
  BY <1>0
<1> QED
  BY <1>3, <1>4

\* Two families do not end a scan.
LEMMA TwoAreFew == \A a, b : ~Full({a, b}) /\ ~Full({a}) /\ ~Full({})
<1> SUFFICES ASSUME NEW a, NEW b PROVE ~Full({a, b}) /\ ~Full({a}) /\ ~Full({})
  OBVIOUS
<1>1. Cardinality({}) = 0 /\ IsFiniteSet({a}) /\ Cardinality({a}) = 1
  BY FS_EmptySet, FS_Singleton
<1>2. {a, b} = {a} \cup {b}
  OBVIOUS
<1>3. Cardinality({a, b}) \in {1, 2}
  BY <1>1, <1>2, FS_AddElement
<1> QED
  BY <1>1, <1>3 DEF Full

\* Which families lead to a type.
LEMMA Resolution ==
    ASSUME NEW found \in SUBSET Families
    PROVE  LET type == ResolveFamilies(found) IN
           /\ type \in Types
           /\ type = "boolean" => found = {"bool"}
           /\ type = "bigint" => found = {"int"}
           /\ type = "bytea" => found = {"bytes"}
           /\ type = "numeric" => found = {"numeric"} \/ found = {"int", "numeric"}
           /\ type = "date" => found = {"date"}
           /\ type = "timestamp" => found = {"naive"} \/ found = {"date", "naive"}
           /\ type = "timestamptz" => found = {"aware"}
  BY DEF ResolveFamilies, Types

\* A type that is no text comes of at most two families, and so of a scan of all rows.
LEMMA SpecificIsFew ==
    ASSUME NEW found \in SUBSET Families, ResolveFamilies(found) \notin {"text", "error"}
    PROVE  ~Full(found)
<1> DEFINE type == ResolveFamilies(found)
<1>1. CASE type \in {"boolean", "bigint", "bytea", "date", "timestamptz"}
  <2>1. \E a : found = {a}
    BY <1>1, Resolution
  <2> QED
    BY <2>1, TwoAreFew
<1>2. CASE type = "numeric"
  <2>1. PICK a, b : found = {a, b}
    <3>1. {"numeric"} = {"numeric", "numeric"}
      OBVIOUS
    <3> QED
      BY <1>2, <3>1, Resolution
  <2> QED
    BY <2>1, TwoAreFew
<1>3. CASE type = "timestamp"
  <2>1. PICK a, b : found = {a, b}
    <3>1. {"naive"} = {"naive", "naive"}
      OBVIOUS
    <3> QED
      BY <1>3, <3>1, Resolution
  <2> QED
    BY <2>1, TwoAreFew
<1>4. type \in Types \ {"text", "error"}
  BY Resolution
<1> QED
  BY <1>1, <1>2, <1>3, <1>4 DEF Types

\* Nothing that is added makes another type of a text.
LEMMA TextStays ==
    ASSUME NEW found \in SUBSET Families, NEW more \in SUBSET Families,
           found \subseteq more, found # {}, ResolveFamilies(found) = "text"
    PROVE  ResolveFamilies(more) = "text"
<1>1. ~(found \subseteq {"date", "naive", "aware"})
  <2>1. SUFFICES ASSUME found \subseteq {"date", "naive", "aware"} PROVE FALSE
    OBVIOUS
  <2>2. CASE "aware" \in found
    BY <2>1, <2>2 DEF ResolveFamilies
  <2>3. CASE "aware" \notin found
    <3>1. found \in {{"date"}, {"naive"}, {"date", "naive"}}
      BY <2>1, <2>3, ZenonT(40)
    <3> QED
      BY <3>1 DEF ResolveFamilies
  <2> QED
    BY <2>2, <2>3
<1>2. found \notin {{"bool"}, {"int"}, {"bytes"}, {"numeric"}, {"int", "numeric"}}
  BY DEF ResolveFamilies
<1>3. more \notin {{"bool"}, {"int"}, {"bytes"}, {"numeric"}, {"int", "numeric"}}
  <2>1. ~(found \subseteq {"int", "numeric"})
    BY <1>2
  <2> QED
    BY <1>2, <2>1
<1>4. ~(more \subseteq {"date", "naive", "aware"})
  BY <1>1
<1> QED
  BY <1>3, <1>4 DEF ResolveFamilies

\* Values of the type's own class that no column of it holds: ints outside bigint, and
\* strings with a NUL.
Oversized == {"huge", "nul"}

\* A type keeps every value that led to it, but for those that no column holds.
LEMMA InferredKeeps ==
    ASSUME RowsOK, NEW c \in Columns, NEW n \in 0..Len(rows), NEW i \in 1..n,
           NEW type, type = ResolveFamilies(ScanFamilies(c, n)), type # "error"
    PROVE  /\ Kind(c, i) \in Keeps(type) \cup Oversized
           /\ type # "text" /\ Kind(c, i) # "null" =>
                ValueFamily(Kind(c, i)) \in ScanFamilies(c, n)
<1> DEFINE found == ScanFamilies(c, n)
           kind == Kind(c, i)
<1>1. found \in SUBSET Families /\ kind \in AllKinds /\ type = ResolveFamilies(found)
  BY ScanEquation, KindType DEF RowsOK
<1>2. type # "text" => ~Full(found)
  <2> HIDE DEF found
  <2> QED
    BY <1>1, SpecificIsFew
<1>3. ~Full(found) => found = Seen(c, n)
  BY ScanSees
<1>4. kind # "null" => ValueFamily(kind) \in Seen(c, n)
  BY DEF Seen
<1>5. type # "text" /\ kind # "null" => ValueFamily(kind) \in found
  BY <1>2, <1>3, <1>4
<1>6. kind \in Keeps(type) \cup Oversized
  <2>1. CASE type = "text"
    BY <1>1, <2>1 DEF Keeps, Oversized
  <2>2. CASE kind = "null"
    BY <1>1, <2>2 DEF Keeps
  <2>3. CASE type # "text" /\ kind # "null"
    <3> HIDE DEF found, kind
    <3>1. ValueFamily(kind) \in found
      BY <1>5, <2>3
    <3>2. type \in Types
      BY <1>1, Resolution
    <3>3. CASE type \in {"boolean", "bigint", "bytea", "date", "timestamptz"}
      <4>1. <<type, ValueFamily(kind)>> \in {<<"boolean", "bool">>, <<"bigint", "int">>,
                 <<"bytea", "bytes">>, <<"date", "date">>, <<"timestamptz", "aware">>}
        BY <1>1, <3>1, <3>3, Resolution
      <4> QED
        BY <1>1, <4>1 DEF ValueFamily, Keeps, AllKinds, Oversized
    <3>4. CASE type = "numeric"
      <4>1. ValueFamily(kind) \in {"int", "numeric"}
        BY <1>1, <3>1, <3>4, Resolution
      <4> QED
        BY <1>1, <3>4, <4>1 DEF ValueFamily, Keeps, AllKinds
    <3>5. CASE type = "timestamp"
      <4>1. ValueFamily(kind) \in {"date", "naive"}
        BY <1>1, <3>1, <3>5, Resolution
      <4> QED
        BY <1>1, <3>5, <4>1 DEF ValueFamily, Keeps, AllKinds
    <3> QED
      BY <2>3, <3>2, <3>3, <3>4, <3>5 DEF Types
  <2> QED
    BY <2>1, <2>2, <2>3
<1> QED
  BY <1>5, <1>6

\* A value that a type keeps, or that the verification takes, is not narrowed by it.
LEMMA KeptIsWhole ==
    ASSUME NEW type \in Types, NEW kind \in AllKinds
    PROVE  /\ kind \in Keeps(type) \cup Oversized => <<type, kind>> \notin Narrows
           /\ kind \in Expected(type) => <<type, kind>> \notin Narrows
  BY DEF Types, AllKinds, Keeps, Expected, Narrows, Oversized

\* Values that a type keeps do not change it.
LEMMA KeptChangesNothing ==
    ASSUME NEW found \in SUBSET Families, NEW more \in SUBSET Families,
           found \subseteq more, found # {}, NEW type, type = ResolveFamilies(found),
           type # "error",
           \A family \in more : \E kind \in Keeps(type) \ {"null"} : family = ValueFamily(kind)
    PROVE  ResolveFamilies(more) = type
<1>1. type \in Types
  BY Resolution
<1>2. CASE type = "text"
  BY <1>2, TextStays
<1>3. CASE type = "boolean"
  <2>1. found = {"bool"} /\ more = {"bool"}
    BY <1>3, Resolution DEF Keeps, ValueFamily
  <2> QED
    BY <2>1
<1>4. CASE type = "bigint"
  <2>1. found = {"int"} /\ more = {"int"}
    BY <1>4, Resolution DEF Keeps, ValueFamily
  <2> QED
    BY <2>1
<1>5. CASE type = "numeric"
  <2>1. "numeric" \in more
    <3>1. "numeric" \in found
      BY <1>5, Resolution
    <3> QED
      BY <3>1
  <2>2. \A family \in more : family \in {"int", "numeric"}
    BY <1>5 DEF Keeps, ValueFamily
  <2>3. more = {"numeric"} \/ more = {"int", "numeric"}
    BY <2>1, <2>2
  <2> QED
    BY <1>5, <2>3 DEF ResolveFamilies
<1>6. CASE type = "date"
  <2>1. found = {"date"} /\ more = {"date"}
    BY <1>6, Resolution DEF Keeps, ValueFamily
  <2> QED
    BY <2>1
<1>7. CASE type = "timestamp"
  <2>1. "naive" \in more
    <3>1. "naive" \in found
      BY <1>7, Resolution
    <3> QED
      BY <3>1
  <2>2. \A family \in more : family \in {"date", "naive"}
    BY <1>7 DEF Keeps, ValueFamily
  <2>3. more = {"naive"} \/ more = {"date", "naive"}
    BY <2>1, <2>2
  <2> QED
    BY <1>7, <2>3 DEF ResolveFamilies
<1>8. CASE type = "timestamptz"
  <2>1. found = {"aware"} /\ more = {"aware"}
    BY <1>8, Resolution DEF Keeps, ValueFamily
  <2> QED
    BY <2>1
<1>9. CASE type = "bytea"
  <2>1. found = {"bytes"} /\ more = {"bytes"}
    BY <1>9, Resolution DEF Keeps, ValueFamily
  <2> QED
    BY <2>1
<1> QED
  BY <1>1, <1>2, <1>3, <1>4, <1>5, <1>6, <1>7, <1>8, <1>9 DEF Types

-----------------------------------------------------------------------------
(* The answer of one walk after the other. *)

Blank(c)  == ScanFamilies(c, sample) = {}
Answer(c) == ResolveFamilies(ScanFamilies(c, sample))

\* _infer_column_type(): by the sample, if it answers and no later row contradicts it.
LEMMA InferCases ==
    ASSUME NEW c \in Columns
    PROVE  /\ ~SampledShort \/ Blank(c) => InferColumnType(c) = FullScan(c)
           /\ SampledShort /\ ~Blank(c) =>
                /\ Answer(c) = "error" => InferColumnType(c) = "error"
                /\ (\A i \in (sample + 1)..Len(rows) : Kind(c, i) \in Expected(Answer(c)))
                     => InferColumnType(c) = Answer(c)
                /\ Answer(c) # "error" /\ (\E i \in (sample + 1)..Len(rows) :
                                              Kind(c, i) \notin Expected(Answer(c)))
                     => InferColumnType(c) = FullScan(c)
  BY DEF InferColumnType, FullScan, Blank, Answer

Loudly(c, type) ==
    /\ \/ type = FullScan(c)
       \/ \E i \in 1..Len(rows) : \/ Rejected(type, Kind(c, i))
                                  \/ <<type, Kind(c, i)>> \in Lookalikes
    /\ \A i \in 1..Len(rows) : <<type, Kind(c, i)>> \notin Narrows

\* The type of all rows narrows no value.
LEMMA FullScanIsLoud ==
    ASSUME RowsOK, NEW c \in Columns, FullScan(c) # "error"
    PROVE  Loudly(c, FullScan(c))
<1>1. Len(rows) \in 0..Len(rows)
  BY DEF RowsOK
<1>2. FullScan(c) \in Types
  BY <1>1, ScanEquation, Resolution DEF FullScan
<1>3. ASSUME NEW i \in 1..Len(rows) PROVE <<FullScan(c), Kind(c, i)>> \notin Narrows
  BY <1>1, <1>2, InferredKeeps, KeptIsWhole, KindType DEF FullScan
<1> QED
  BY <1>3 DEF Loudly

\* Nor does that of a sample that no later row contradicts; and unless it is the type of
\* all rows, a row is refused or looks like it.
LEMMA AnswerIsLoud ==
    ASSUME RowsOK, NEW c \in Columns, sample \in Nat, SampledShort, ~Blank(c),
           Answer(c) # "error",
           \A i \in (sample + 1)..Len(rows) : Kind(c, i) \in Expected(Answer(c))
    PROVE  Loudly(c, Answer(c))
<1> DEFINE n == Len(rows)
           type == Answer(c)
<1>1. n \in Nat /\ sample \in 0..n /\ n \in 0..n /\ n \in sample..n
  BY DEF RowsOK, SampledShort
<1>2. /\ ScanFamilies(c, sample) \in SUBSET Families /\ ScanFamilies(c, n) \in SUBSET Families
      /\ ScanFamilies(c, sample) \subseteq ScanFamilies(c, n)
  BY <1>1, ScanEquation, ScanGrows
<1>3. type \in Types
  BY <1>2, Resolution DEF Answer
<1>4. ASSUME NEW i \in 1..n PROVE <<type, Kind(c, i)>> \notin Narrows
  <2>1. CASE i \in 1..sample
    <3>1. Kind(c, i) \in Keeps(type) \cup Oversized
      BY <1>1, <2>1, InferredKeeps DEF Answer
    <3> QED
      BY <1>3, <3>1, KeptIsWhole, KindType
  <2>2. CASE i \in (sample + 1)..n
    BY <1>3, <2>2, KeptIsWhole, KindType
  <2> QED
    BY <1>1, <2>1, <2>2
<1>5. ASSUME \A i \in 1..n : /\ ~Rejected(type, Kind(c, i))
                             /\ <<type, Kind(c, i)>> \notin Lookalikes
      PROVE  type = FullScan(c)
  <2>1. \A i \in 1..n : Kind(c, i) \in Keeps(type)
    BY <1>4, <1>5 DEF Rejected, Silent
  <2>2. ASSUME NEW family \in ScanFamilies(c, n)
        PROVE  \E kind \in Keeps(type) \ {"null"} : family = ValueFamily(kind)
    <3>1. family \in Seen(c, n)
      BY <1>1, ScanSees
    <3> QED
      BY <2>1, <3>1 DEF Seen
  <2> QED
    BY <1>2, <2>2, KeptChangesNothing DEF Answer, Blank, FullScan
<1> QED
  BY <1>4, <1>5 DEF Loudly

\* Whatever way a column is inferred.
LEMMA InferredIsLoud ==
    ASSUME RowsOK, sample \in Nat, NEW c \in Columns, InferColumnType(c) # "error"
    PROVE  Loudly(c, InferColumnType(c))
<1>1. CASE InferColumnType(c) = FullScan(c)
  BY <1>1, FullScanIsLoud
<1>2. CASE InferColumnType(c) # FullScan(c)
  <2>1. SampledShort /\ ~Blank(c) /\ Answer(c) # "error"
    BY <1>2, InferCases
  <2>2. \A i \in (sample + 1)..Len(rows) : Kind(c, i) \in Expected(Answer(c))
    BY <1>2, <2>1, InferCases
  <2> QED
    BY <2>1, <2>2, InferCases, AnswerIsLoud
<1> QED
  BY <1>1, <1>2

\* What COPY does with a value of an inferred column.
CopyWrites(type, kind) ==
    /\ \/ kind \in Renders(type)
       \/ kind = "bytes"
       \/ kind \in Oversized /\ Rejected(type, kind)
    /\ ~Silent(type, kind)

\* COPY writes with the type of all rows.
LEMMA FullScanIsWritten ==
    ASSUME RowsOK, NEW c \in Columns, NEW i \in 1..Len(rows), FullScan(c) # "error",
           Kind(c, i) # "null"
    PROVE  CopyWrites(FullScan(c), Kind(c, i))
<1> DEFINE type == FullScan(c)
           found == ScanFamilies(c, Len(rows))
           kind == Kind(c, i)
<1>1. Len(rows) \in 0..Len(rows)
  BY DEF RowsOK
<1>2. /\ found \in SUBSET Families /\ type = ResolveFamilies(found)
      /\ kind \in AllKinds \ {"null"}
  BY <1>1, ScanEquation, KindType DEF FullScan
<1>3. type # "text" => ValueFamily(kind) \in found
  BY <1>1, InferredKeeps DEF FullScan
<1>4. type \in Types /\ type # "error"
  BY <1>2, Resolution
<1> SUFFICES CopyWrites(type, kind)
  OBVIOUS
<1> HIDE DEF type, found, kind
<1>5. CASE type = "text"
  BY <1>2, <1>5 DEF CopyWrites, Oversized, Rejected, Keeps, AllKinds, Renders, Silent, Lookalikes, Narrows
<1>6. CASE type \in {"boolean", "bigint", "bytea", "date", "timestamptz"}
  <2>1. \A family \in found : <<type, family>> \in {<<"boolean", "bool">>, <<"bigint", "int">>,
             <<"bytea", "bytes">>, <<"date", "date">>, <<"timestamptz", "aware">>}
    BY <1>2, <1>6, Resolution
  <2>2. <<type, ValueFamily(kind)>> \in {<<"boolean", "bool">>, <<"bigint", "int">>,
             <<"bytea", "bytes">>, <<"date", "date">>, <<"timestamptz", "aware">>}
    BY <1>3, <1>6, <2>1
  <2> QED
    BY <1>2, <2>2 DEF ValueFamily, CopyWrites, Oversized, Rejected, Keeps, AllKinds,
         Renders, Silent, Lookalikes, Narrows
<1>7. CASE type = "numeric"
  <2>1. ValueFamily(kind) \in {"int", "numeric"}
    BY <1>2, <1>3, <1>7, Resolution
  <2> QED
    BY <1>2, <1>7, <2>1 DEF ValueFamily, CopyWrites, Oversized, Rejected, Keeps, AllKinds,
         Renders, Silent, Lookalikes, Narrows
<1>8. CASE type = "timestamp"
  <2>1. ValueFamily(kind) \in {"date", "naive"}
    BY <1>2, <1>3, <1>8, Resolution
  <2> QED
    BY <1>2, <1>8, <2>1 DEF ValueFamily, CopyWrites, Oversized, Rejected, Keeps, AllKinds,
         Renders, Silent, Lookalikes, Narrows
<1> QED
  BY <1>4, <1>5, <1>6, <1>7, <1>8 DEF Types

-----------------------------------------------------------------------------
(* The inductive invariant of the inference. *)

StreamScans == \A c \in Columns : stream[c] = ScanFamilies(c, Len(rows))

FamiliesUpTo(cols, n) == \A c \in cols : families[c] = ScanFamilies(c, n)

Doubted(c, n) ==
    Blank(c) \/ \E i \in (sample + 1)..n : Kind(c, i) \notin Expected(Answer(c))

Verifying ==
    /\ SampledShort /\ at \in (sample + 1)..(Len(rows) + 1)
    /\ verify \subseteq ToInfer /\ rescan \subseteq ToInfer
    /\ \A c \in ToInfer :
         /\ ~Blank(c) => resolved[c] = Answer(c) /\ Answer(c) # "error"
         /\ c \in rescan <=> Doubted(c, at - 1)
         /\ c \in verify <=> c \notin rescan /\ Expected(Answer(c)) # AllKinds

Rescanning ==
    /\ at <= Len(rows) + 1
    /\ rescan \subseteq ToInfer
    /\ FamiliesUpTo(rescan, at - 1)
    /\ \A c \in rescan : InferColumnType(c) = FullScan(c)
    /\ \A c \in ToInfer \ rescan :
         resolved[c] = InferColumnType(c) /\ InferColumnType(c) # "error"

Answered ==
    IF Raised THEN \E c \in ToInfer : InferColumnType(c) = "error"
    ELSE \A c \in ToInfer : resolved[c] = InferColumnType(c)

Walks ==
    /\ phase \in {"reading", "sample", "decide"} => verify = {} /\ rescan = {}
    /\ phase = "reading" => at = 1 /\ families = Nothing
    /\ phase = "sample" => at <= SampleEnd + 1 /\ FamiliesUpTo(ToInfer, at - 1)
    /\ phase = "decide" => FamiliesUpTo(ToInfer, SampleEnd)
    /\ phase = "verify" => Verifying
    /\ phase = "rescan" => Rescanning
    /\ phase = "done" => Answered
    /\ \A c \in pinned : resolved[c] = "none"

InferInv == TypeOK /\ StreamScans /\ Walks

\* What the steps need of the type invariant.
LEMMA TypeFacts ==
    ASSUME TypeOK
    PROVE  /\ RowsOK /\ Len(rows) \in Nat /\ sample \in Nat /\ pinned \subseteq Columns
           /\ SampleEnd \in 0..Len(rows) /\ at \in Nat \ {0}
<1>1. rows \in Seq([Columns -> AllKinds])
  <2>1. \A i \in 1..Len(rows) : rows[i] \in [Columns -> AllKinds]
    BY InferenceAssumption DEF TypeOK
  <2> QED
    BY <2>1 DEF TypeOK
<1>2. sample \in Nat /\ pinned \subseteq Columns
  BY InferenceAssumption DEF TypeOK
<1>3. at \in Nat \ {0} /\ Len(rows) \in Nat
  BY InferenceAssumption DEF TypeOK
<1> QED
  BY <1>1, <1>2, <1>3 DEF RowsOK, SampleEnd, SampledShort

\* A step that reads no row leaves every scan alone.
LEMMA TableFixed ==
    ASSUME UNCHANGED <<rows, sample, pinned>>
    PROVE  /\ \A c, n : ScanFamilies(c, n)' = ScanFamilies(c, n)
           /\ \A c, i : Kind(c, i)' = Kind(c, i)
           /\ \A c : /\ FullScan(c)' = FullScan(c)
                     /\ InferColumnType(c)' = InferColumnType(c)
                     /\ Blank(c)' = Blank(c) /\ Answer(c)' = Answer(c)
           /\ SampledShort' = SampledShort /\ SampleEnd' = SampleEnd /\ ToInfer' = ToInfer
           /\ Len(rows)' = Len(rows)
<1>1. \A c, n : ScanFamilies(c, n)' = ScanFamilies(c, n)
  BY DEF ScanFamilies, Kind
<1>2. \A c, i : Kind(c, i)' = Kind(c, i)
  BY DEF Kind
<1>3. SampledShort' = SampledShort
  BY DEF SampledShort
<1>4. \A c : FullScan(c)' = FullScan(c)
  BY <1>1 DEF FullScan
<1>5. \A c : InferColumnType(c)' = InferColumnType(c)
  BY <1>1, <1>2, <1>3, <1>4 DEF InferColumnType
<1> QED
  BY <1>1, <1>2, <1>3, <1>4, <1>5 DEF Blank, Answer, SampleEnd, ToInfer

ScanLaw ==
    RowsOK => \A c \in Columns :
        /\ ScanFamilies(c, 0) = {}
        /\ \A n \in 1..Len(rows) :
             ScanFamilies(c, n) = Observe(ScanFamilies(c, n - 1), Kind(c, n))

\* In every state, and so in the next.
LEMMA ScanLawHolds == ScanLaw /\ ScanLaw'
<1>1. ScanLaw
  BY ScanEquation DEF ScanLaw
<1> QED
  BY <1>1, PTL

\* A row that is appended leaves the scans of those before it alone.
LEMMA ScanOfPrefix ==
    ASSUME RowsOK, NEW row \in [Columns -> AllKinds], rows' = Append(rows, row),
           NEW c \in Columns
    PROVE  \A n \in 0..Len(rows) : ScanFamilies(c, n)' = ScanFamilies(c, n)
<1> DEFINE Same == {n \in Nat : n <= Len(rows) => ScanFamilies(c, n)' = ScanFamilies(c, n)}
<1>1. RowsOK' /\ Len(rows') = Len(rows) + 1 /\ Len(rows) \in Nat
  BY DEF RowsOK
<1>2. ScanLaw /\ ScanLaw'
  BY ScanLawHolds
<1>3. 0 \in Same
  BY <1>1, <1>2 DEF ScanLaw
<1>4. ASSUME NEW n \in Nat, n \in Same PROVE n + 1 \in Same
  <2> SUFFICES ASSUME n + 1 <= Len(rows) PROVE ScanFamilies(c, n + 1)' = ScanFamilies(c, n + 1)
    OBVIOUS
  <2>1. /\ n + 1 \in 1..Len(rows) /\ n + 1 \in 1..Len(rows') /\ (n + 1) - 1 = n
        /\ ScanFamilies(c, n)' = ScanFamilies(c, n)
    BY <1>1, <1>4
  <2>2. Kind(c, n + 1)' = Kind(c, n + 1)
    <3>1. Append(rows, row)[n + 1] = rows[n + 1]
      BY <2>1, AppendProperties DEF RowsOK
    <3> QED
      BY <3>1 DEF Kind
  <2> HIDE DEF Same
  <2>3. ScanFamilies(c, n + 1) = Observe(ScanFamilies(c, n), Kind(c, n + 1))
    BY <1>2, <2>1 DEF ScanLaw
  <2>4. ScanFamilies(c, n + 1)' = Observe(ScanFamilies(c, n)', Kind(c, n + 1)')
    <3>1. \A k \in 1..Len(rows') :
            ScanFamilies(c, k)' = Observe(ScanFamilies(c, k - 1)', Kind(c, k)')
      BY <1>1, <1>2 DEF ScanLaw, Observe
    <3> QED
      BY <2>1, <3>1
  <2> QED
    BY <2>1, <2>2, <2>3, <2>4
<1>5. Nat \subseteq Same
  <2> HIDE DEF Same
  <2> QED
    BY <1>3, <1>4, SetInduction
<1> QED
  BY <1>1, <1>5

-----------------------------------------------------------------------------
(* The steps. *)

\* There are finitely many families.
LEMMA FamiliesFinite == IsFiniteSet(Families)
<1>1. Families = {"bool"} \cup {"int"} \cup {"numeric"} \cup {"date"} \cup {"naive"}
                 \cup {"aware"} \cup {"text"} \cup {"bytes"}
  BY DEF Families
<1> QED
  BY <1>1, FS_Singleton, FS_Union

\* A scan that stops at three families never has four.
LEMMA ObserveSmall ==
    ASSUME NEW found \in SUBSET Families, NEW kind \in AllKinds, Cardinality(found) <= 3
    PROVE  Observe(found, kind) \in SUBSET Families /\ Cardinality(Observe(found, kind)) <= 3
<1>1. CASE Full(found) \/ kind = "null"
  BY <1>1 DEF Observe
<1>2. CASE ~Full(found) /\ kind # "null"
  <2>1. IsFiniteSet(found) /\ Cardinality(found) \in Nat
    BY FamiliesFinite, FS_Subset, FS_CardinalityType
  <2>2. Cardinality(found \cup {ValueFamily(kind)}) \in {Cardinality(found), Cardinality(found) + 1}
    BY <2>1, FS_AddElement
  <2>3. Cardinality(found \cup {ValueFamily(kind)}) \in Nat
    BY <2>1, FS_AddElement, FS_CardinalityType
  <2> QED
    BY <1>2, <2>1, <2>2, <2>3, ObserveType DEF Observe, Full
<1> QED
  BY <1>1, <1>2

\* The inference starts in its invariant.
LEMMA InferInit == Init => InferInv
<1> SUFFICES ASSUME Init PROVE InferInv
  OBVIOUS
<1>1. PICK setting \in Settings : sample = setting[1] /\ pinned = setting[2]
  BY DEF Init
<1>2. <<sample, pinned>> \in Settings /\ pinned \subseteq Columns
  BY <1>1, InferenceAssumption
<1>3. Cardinality({}) = 0
  BY FS_EmptySet
<1>4. TypeOK
  BY <1>2, <1>3, InferenceAssumption DEF Init, TypeOK, Nothing, Phases
<1>5. RowsOK /\ Len(rows) = 0
  BY DEF Init, RowsOK
<1>6. StreamScans
  BY <1>5, ScanEquation DEF StreamScans, Init, Nothing
<1>7. Walks
  BY <1>2 DEF Walks, Init
<1> QED
  BY <1>4, <1>6, <1>7 DEF InferInv

\* A row that is read: the scan of the COPY spool observes it.
LEMMA FeedRowStep == InferInv /\ FeedRow => InferInv'
<1> SUFFICES ASSUME InferInv, FeedRow PROVE InferInv'
  OBVIOUS
<1>1. PICK row \in Records :
        /\ rows' = Append(rows, row)
        /\ stream' = [c \in Columns |-> Observe(stream[c], row[c])]
  BY DEF FeedRow
<1>2. /\ TypeOK /\ RowsOK /\ Len(rows) \in Nat /\ Len(rows) < MaxRows /\ MaxRows \in Nat
      /\ row \in [Columns -> AllKinds]
      /\ UNCHANGED <<sample, pinned, phase, at, families, verify, rescan, resolved>>
  BY TypeFacts, InferenceAssumption DEF InferInv, FeedRow
<1>3. Len(rows') = Len(rows) + 1 /\ RowsOK' /\ rows' \in Seq(Records)
  BY <1>1, <1>2 DEF RowsOK, TypeOK
<1>4. \A c \in Columns : stream'[c] \in SUBSET Families /\ Cardinality(stream'[c]) <= 3
  BY <1>1, <1>2, ObserveSmall DEF TypeOK
<1>5. stream' \in [Columns -> SUBSET Families]
  BY <1>1, <1>4
<1>6. TypeOK'
  BY <1>2, <1>3, <1>4, <1>5 DEF TypeOK
<1>7. StreamScans'
  <2> SUFFICES ASSUME NEW c \in Columns PROVE (stream[c] = ScanFamilies(c, Len(rows)))'
    BY DEF StreamScans
  <2>1. PICK n \in Nat : n = Len(rows)
    BY <1>2
  <2>2. ScanFamilies(c, n)' = ScanFamilies(c, n)
    BY <1>1, <1>2, <2>1, ScanOfPrefix
  <2>3. Kind(c, n + 1)' = row[c]
    BY <1>1, <1>2, <1>3, <2>1 DEF Kind, RowsOK
  <2>4. ScanFamilies(c, n + 1)' = Observe(ScanFamilies(c, n)', Kind(c, n + 1)')
    <3>1. n + 1 \in 1..Len(rows') /\ (n + 1) - 1 = n
      BY <1>3, <2>1
    <3> QED
      BY <1>3, <3>1, ScanLawHolds DEF ScanLaw, Observe
  <2>5. stream'[c] = Observe(ScanFamilies(c, n), row[c])
    BY <1>1, <2>1 DEF InferInv, StreamScans
  <2> QED
    BY <1>3, <2>1, <2>2, <2>3, <2>4, <2>5
<1>8. Walks'
  BY <1>2 DEF FeedRow, InferInv, Walks, Nothing
<1> QED
  BY <1>6, <1>7, <1>8 DEF InferInv

\* A step that reads no row leaves the scan of the COPY spool alone.
LEMMA StreamFixed ==
    ASSUME StreamScans, UNCHANGED table
    PROVE  StreamScans'
  BY TableFixed DEF StreamScans, table

\* The source ends: the walk over the sample starts.
LEMMA EndOfRowsStep == InferInv /\ EndOfRows => InferInv'
<1> SUFFICES ASSUME InferInv, EndOfRows PROVE InferInv'
  OBVIOUS
<1>1. TypeOK' /\ StreamScans'
  BY StreamFixed DEF InferInv, EndOfRows, TypeOK, Phases, table
<1>2. phase' = "sample" /\ at' = 1 /\ families' = Nothing /\ verify' = {} /\ rescan' = {}
  BY DEF InferInv, Walks, EndOfRows
<1>3. UNCHANGED <<rows, sample, pinned, resolved>> /\ TypeOK
  BY DEF EndOfRows, table, InferInv
<1>4. RowsOK /\ SampleEnd \in 0..Len(rows) /\ ToInfer \subseteq Columns
  BY <1>3, TypeFacts DEF ToInfer
<1>5. \A c \in ToInfer : families'[c] = ScanFamilies(c, 0)
  BY <1>2, <1>4, ScanEquation DEF Nothing
<1>6. FamiliesUpTo(ToInfer, at - 1)'
  BY <1>2, <1>3, <1>5, TableFixed DEF FamiliesUpTo
<1>7. at' <= SampleEnd' + 1
  BY <1>2, <1>3, <1>4, TableFixed
<1>8. Walks'
  BY <1>2, <1>3, <1>6, <1>7 DEF Walks, InferInv
<1> QED
  BY <1>1, <1>8 DEF InferInv

\* A step of a walk keeps the types.
LEMMA WalkTyped ==
    ASSUME TypeOK, at \in 1..Len(rows), NEW cols,
           families' = [c \in Columns |->
             IF c \in cols THEN Observe(families[c], Kind(c, at)) ELSE families[c]],
           at' = at + 1, UNCHANGED <<table, phase, verify, rescan, resolved>>
    PROVE  TypeOK'
<1>1. \A c \in Columns : families'[c] \in SUBSET Families /\ Cardinality(families'[c]) <= 3
  BY TypeFacts, KindType, ObserveSmall DEF TypeOK
<1>2. families' \in [Columns -> SUBSET Families]
  BY <1>1
<1>3. at' \in 1..(MaxRows + 1)
  BY TypeFacts, InferenceAssumption DEF TypeOK
<1> QED
  BY <1>1, <1>2, <1>3 DEF TypeOK, table

\* A row of the sample.
LEMMA SampleRowStep == InferInv /\ SampleRow => InferInv'
<1> SUFFICES ASSUME InferInv, SampleRow PROVE InferInv'
  OBVIOUS
<1>1. /\ TypeOK /\ RowsOK /\ SampleEnd \in 0..Len(rows) /\ ToInfer \subseteq Columns
      /\ Len(rows) \in Nat /\ at \in 1..Len(rows) /\ at <= SampleEnd
  BY TypeFacts DEF InferInv, SampleRow, Walk, ToInfer
<1>2. /\ families' = [c \in Columns |->
             IF c \in ToInfer THEN Observe(families[c], Kind(c, at)) ELSE families[c]]
      /\ at' = at + 1 /\ UNCHANGED <<table, phase, verify, rescan, resolved>>
      /\ phase = "sample"
  BY DEF SampleRow, Walk
<1>3. TypeOK'
  BY <1>1, <1>2, WalkTyped
<1>4. StreamScans'
  BY <1>2, StreamFixed DEF InferInv
<1>5. UNCHANGED <<rows, sample, pinned>>
  BY <1>2 DEF table
<1>6. \A c \in ToInfer : families'[c] = ScanFamilies(c, at)
  BY <1>1, <1>2, ScanEquation DEF InferInv, Walks, FamiliesUpTo
<1>7. FamiliesUpTo(ToInfer, at - 1)'
  BY <1>1, <1>2, <1>5, <1>6, TableFixed DEF FamiliesUpTo
<1>8. at' <= SampleEnd' + 1
  BY <1>1, <1>2, <1>5, TableFixed
<1>9. Walks'
  BY <1>2, <1>5, <1>7, <1>8 DEF Walks, InferInv
<1> QED
  BY <1>3, <1>4, <1>9 DEF InferInv

\* A walk that is over has the families of all its rows.
LEMMA WalkedOver ==
    ASSUME RowsOK, NEW cols \in SUBSET Columns, NEW last \in 0..Len(rows), at \in Nat \ {0},
           at <= last + 1, FamiliesUpTo(cols, at - 1), WalkIsOver(cols, last)
    PROVE  FamiliesUpTo(cols, last)
<1>1. Len(rows) \in Nat
  BY DEF RowsOK
<1>2. CASE at > last
  BY <1>1, <1>2 DEF FamiliesUpTo
<1>3. CASE \A c \in cols : Full(families[c])
  <2> SUFFICES ASSUME NEW c \in cols PROVE families[c] = ScanFamilies(c, last)
    BY DEF FamiliesUpTo
  <2>1. at - 1 \in 0..Len(rows) /\ last \in (at - 1)..Len(rows)
    BY <1>1
  <2> QED
    BY <1>3, <2>1, ScanGrows DEF FamiliesUpTo
<1> QED
  BY <1>2, <1>3 DEF WalkIsOver

\* The sample is walked, or every family list is full.
LEMMA SampleEndsStep == InferInv /\ SampleEnds => InferInv'
<1> SUFFICES ASSUME InferInv, SampleEnds PROVE InferInv'
  OBVIOUS
<1>1. /\ TypeOK /\ RowsOK /\ SampleEnd \in 0..Len(rows) /\ ToInfer \in SUBSET Columns
      /\ at \in Nat \ {0}
  BY TypeFacts DEF InferInv, ToInfer
<1>2. /\ phase = "sample" /\ WalkIsOver(ToInfer, SampleEnd) /\ phase' = "decide"
      /\ UNCHANGED <<table, at, families, verify, rescan, resolved>>
  BY DEF SampleEnds
<1>3. TypeOK' /\ StreamScans'
  BY <1>2, StreamFixed DEF InferInv, TypeOK, Phases, table
<1>4. FamiliesUpTo(ToInfer, SampleEnd)
  BY <1>1, <1>2, WalkedOver DEF InferInv, Walks
<1>5. FamiliesUpTo(ToInfer, SampleEnd)'
  BY <1>2, <1>4, TableFixed DEF FamiliesUpTo, table
<1>6. Walks'
  BY <1>2, <1>5 DEF InferInv, Walks, table
<1> QED
  BY <1>3, <1>6 DEF InferInv

\* The sample answers, and the rest is to be verified, or there is no rest.
LEMMA DecideStep == InferInv /\ Decide => InferInv'
<1> SUFFICES ASSUME InferInv, Decide PROVE InferInv'
  OBVIOUS
<1> DEFINE answer == [c \in Columns |->
             IF c \in Blanks \cup pinned THEN "none" ELSE ResolveFamilies(families[c])]
           raises == \E c \in Columns : answer[c] = "error"
<1>1. /\ TypeOK /\ RowsOK /\ Len(rows) \in Nat /\ sample \in Nat /\ pinned \subseteq Columns
      /\ SampleEnd \in 0..Len(rows)
  BY TypeFacts DEF InferInv
<1>2. /\ resolved' = answer /\ phase' = IF raises \/ ~SampledShort THEN "done" ELSE "verify"
      /\ verify' = IF phase' = "done" THEN {}
                   ELSE {c \in ToInfer \ Blanks : Expected(answer[c]) # AllKinds}
      /\ rescan' = IF phase' = "done" THEN {} ELSE Blanks
      /\ at' = IF phase' = "done" THEN 1 ELSE sample + 1
      /\ UNCHANGED <<table, families>>
  BY DEF Decide
<1>3. ToInfer = Columns \ pinned /\ Blanks \subseteq ToInfer
  BY DEF ToInfer, Blanks
<1>4. \A c \in ToInfer : families[c] = ScanFamilies(c, SampleEnd)
  BY DEF InferInv, Walks, FamiliesUpTo, Decide
<1>5. SampledShort => SampleEnd = sample /\ sample < Len(rows)
  BY DEF SampledShort, SampleEnd
<1>6. ~SampledShort => SampleEnd = Len(rows) /\ Blanks = {}
  BY DEF SampleEnd, Blanks
<1>7. \A c \in ToInfer : c \in Blanks <=> SampledShort /\ Blank(c)
  BY <1>4, <1>5 DEF Blanks, Blank
<1>8. \A c \in ToInfer \ Blanks :
        answer[c] = ResolveFamilies(ScanFamilies(c, SampleEnd)) /\ answer[c] \in Types
  BY <1>1, <1>3, <1>4, Resolution, ScanEquation
<1>9. \A c \in Blanks \cup pinned : answer[c] = "none"
  BY <1>1, <1>3
<1>10. answer \in [Columns -> Types \cup {"none"}]
  BY <1>3, <1>8, <1>9
<1>11. MaxRows \in Nat /\ Len(rows) <= MaxRows
  BY <1>1, InferenceAssumption DEF TypeOK
<1>12. UNCHANGED <<rows, stream, sample, pinned, families>>
  BY <1>2 DEF table
<1> HIDE DEF answer, raises
<1>13. at' \in 1..(MaxRows + 1) /\ phase' \in Phases
  BY <1>1, <1>2, <1>5, <1>11 DEF Phases
<1>14. verify' \subseteq Columns /\ rescan' \subseteq Columns
  BY <1>2, <1>3
<1>15. TypeOK'
  BY <1>1, <1>2, <1>10, <1>12, <1>13, <1>14 DEF TypeOK
<1>16. StreamScans'
  BY <1>2, StreamFixed DEF InferInv
<1>17. \A c \in pinned' : resolved'[c] = "none"
  BY <1>2, <1>9, <1>12
<1>18. CASE raises
  <2>1. PICK c \in Columns : answer[c] = "error"
    BY <1>18 DEF raises
  <2>2. c \in ToInfer \ Blanks
    BY <1>3, <1>9, <2>1
  <2>3. InferColumnType(c) = "error"
    BY <1>5, <1>6, <1>7, <1>8, <2>1, <2>2, InferCases DEF Answer, FullScan
  <2>4. Raised' /\ c \in ToInfer' /\ InferColumnType(c)' = "error"
    BY <1>2, <1>12, <2>1, <2>2, <2>3, TableFixed DEF Raised, ToInfer
  <2>5. phase' = "done"
    BY <1>2, <1>18
  <2>6. Walks'
    BY <1>17, <2>4, <2>5 DEF Walks, Answered
  <2> QED
    BY <1>15, <1>16, <2>6 DEF InferInv
<1>19. CASE ~raises /\ ~SampledShort
  <2>1. \A c \in ToInfer : answer[c] = InferColumnType(c) /\ InferColumnType(c) # "error"
    BY <1>3, <1>6, <1>8, <1>19, InferCases DEF FullScan, raises
  <2>2. \A c \in Columns : answer[c] # "error"
    BY <1>19 DEF raises
  <2>3. ~Raised' /\ \A c \in ToInfer' : resolved'[c] = InferColumnType(c)'
    BY <1>2, <1>12, <2>1, <2>2, TableFixed DEF Raised
  <2>4. phase' = "done"
    BY <1>2, <1>19
  <2>5. Walks'
    BY <1>17, <2>3, <2>4 DEF Walks, Answered
  <2> QED
    BY <1>15, <1>16, <2>5 DEF InferInv
<1>20. CASE ~raises /\ SampledShort
  <2>1. phase' = "verify" /\ at' = sample + 1 /\ rescan' = Blanks
    BY <1>2, <1>20
  <2>2. verify' = {c \in ToInfer \ Blanks : Expected(answer[c]) # AllKinds}
    BY <1>2, <2>1
  <2>3. ASSUME NEW c \in ToInfer
        PROVE  /\ ~Blank(c) => resolved'[c] = Answer(c) /\ Answer(c) # "error"
               /\ c \in rescan' <=> Doubted(c, sample)
               /\ c \in verify' <=> c \notin rescan' /\ Expected(Answer(c)) # AllKinds
    <3>1. c \in Blanks <=> Blank(c)
      BY <1>7, <1>20, <2>3
    <3>2. ~Blank(c) => answer[c] = Answer(c) /\ answer[c] # "error"
      BY <1>3, <1>5, <1>8, <1>20, <2>3, <3>1 DEF Answer, raises
    <3>3. Doubted(c, sample) <=> Blank(c)
      BY <1>1 DEF Doubted
    <3> QED
      BY <1>2, <2>1, <2>2, <2>3, <3>1, <3>2, <3>3
  <2>4. \A c : Doubted(c, at - 1)' <=> Doubted(c, sample)
    BY <1>1, <1>12, <2>1, TableFixed DEF Doubted
  <2>5. Verifying'
    BY <1>1, <1>3, <1>5, <1>12, <1>20, <2>1, <2>2, <2>3, <2>4, TableFixed DEF Verifying
  <2>6. Walks'
    BY <1>17, <2>1, <2>5 DEF Walks
  <2> QED
    BY <1>15, <1>16, <2>6 DEF InferInv
<1> QED
  BY <1>18, <1>19, <1>20

\* A row behind the sample: a column it contradicts is doubted.
LEMMA VerifyRowStep == InferInv /\ VerifyRow => InferInv'
<1> SUFFICES ASSUME InferInv, VerifyRow PROVE InferInv'
  OBVIOUS
<1> DEFINE failed == {c \in verify : Kind(c, at) \notin Expected(resolved[c])}
<1>1. /\ TypeOK /\ RowsOK /\ Len(rows) \in Nat /\ sample \in Nat /\ Verifying
      /\ phase = "verify" /\ ToInfer \subseteq Columns
  BY TypeFacts DEF InferInv, Walks, VerifyRow, ToInfer
<1>2. /\ at <= Len(rows) /\ verify' = verify \ failed /\ rescan' = rescan \cup failed
      /\ at' = at + 1 /\ UNCHANGED <<table, phase, families, resolved>>
  BY DEF VerifyRow
<1>3. UNCHANGED <<rows, stream, sample, pinned>> /\ failed \subseteq verify
  BY <1>2 DEF table
<1>4. at \in (sample + 1)..Len(rows)
  BY <1>1, <1>2 DEF Verifying
<1>5. at' \in 1..(MaxRows + 1)
  BY <1>1, <1>2, <1>4, InferenceAssumption DEF TypeOK
<1>6. verify' \subseteq verify /\ rescan' \subseteq rescan \cup verify
  BY <1>2
<1>7. TypeOK'
  BY <1>1, <1>2, <1>3, <1>5, <1>6 DEF TypeOK
<1>8. StreamScans'
  BY <1>2, StreamFixed DEF InferInv
<1>9. ASSUME NEW c \in ToInfer
      PROVE  /\ ~Blank(c) => resolved[c] = Answer(c) /\ Answer(c) # "error"
             /\ c \in rescan' <=> Doubted(c, at)
             /\ c \in verify' <=> c \notin rescan' /\ Expected(Answer(c)) # AllKinds
  <2>1. /\ ~Blank(c) => resolved[c] = Answer(c) /\ Answer(c) # "error"
        /\ c \in rescan <=> Doubted(c, at - 1)
        /\ c \in verify <=> c \notin rescan /\ Expected(Answer(c)) # AllKinds
    BY <1>1, <1>9 DEF Verifying
  <2>2. Kind(c, at) \in AllKinds
    BY <1>1, <1>4, <1>9, KindType
  <2>3. (sample + 1)..at = ((sample + 1)..(at - 1)) \cup {at}
    BY <1>1, <1>4
  <2>4. Doubted(c, at) <=> Doubted(c, at - 1) \/ Kind(c, at) \notin Expected(Answer(c))
    BY <2>3 DEF Doubted
  <2>5. c \in verify => ~Blank(c)
    BY <2>1 DEF Doubted
  <2>6. c \in failed <=> c \in verify /\ Kind(c, at) \notin Expected(Answer(c))
    BY <2>1, <2>5
  <2> HIDE DEF failed
  <2> QED
    BY <1>2, <2>1, <2>2, <2>4, <2>6
<1>10. \A c : Doubted(c, at - 1)' <=> Doubted(c, at)
  BY <1>2, <1>3, <1>4, TableFixed DEF Doubted
<1>11. verify' \subseteq ToInfer /\ rescan' \subseteq ToInfer /\ SampledShort
  BY <1>1, <1>6 DEF Verifying
<1>12. at' \in (sample + 1)..(Len(rows) + 1)
  BY <1>1, <1>2, <1>4
<1> HIDE DEF failed
<1>13. Verifying'
  BY <1>2, <1>3, <1>9, <1>10, <1>11, <1>12, TableFixed DEF Verifying
<1>14. Walks'
  BY <1>1, <1>2, <1>3, <1>13 DEF Walks, InferInv
<1> QED
  BY <1>7, <1>8, <1>14 DEF InferInv

\* The rows are verified: what is doubted is walked again.
LEMMA VerifyEndsStep == InferInv /\ VerifyEnds => InferInv'
<1> SUFFICES ASSUME InferInv, VerifyEnds PROVE InferInv'
  OBVIOUS
<1>1. /\ TypeOK /\ RowsOK /\ Len(rows) \in Nat /\ sample \in Nat /\ Verifying
      /\ phase = "verify" /\ ToInfer \subseteq Columns /\ pinned \subseteq Columns
  BY TypeFacts DEF InferInv, Walks, VerifyEnds, ToInfer
<1>2. /\ at > Len(rows) \/ verify = {}
      /\ phase' = IF rescan = {} THEN "done" ELSE "rescan"
      /\ verify' = {} /\ at' = 1
      /\ families' = [c \in Columns |-> IF c \in rescan THEN {} ELSE families[c]]
      /\ UNCHANGED <<table, rescan, resolved>>
  BY DEF VerifyEnds
<1>3. UNCHANGED <<rows, stream, sample, pinned>>
  BY <1>2 DEF table
<1>4. Cardinality({}) = 0
  BY FS_EmptySet
<1>5. \A c \in Columns : families'[c] \in SUBSET Families /\ Cardinality(families'[c]) <= 3
  BY <1>1, <1>2, <1>4 DEF TypeOK
<1>6. families' \in [Columns -> SUBSET Families]
  BY <1>2, <1>5
<1>7. at' \in 1..(MaxRows + 1)
  BY <1>2, InferenceAssumption
<1>8. TypeOK'
  BY <1>1, <1>2, <1>3, <1>5, <1>6, <1>7 DEF TypeOK, Phases
<1>9. StreamScans'
  BY <1>2, StreamFixed DEF InferInv
<1>10. ASSUME NEW c \in ToInfer
       PROVE  IF c \in rescan THEN InferColumnType(c) = FullScan(c)
              ELSE resolved[c] = InferColumnType(c) /\ InferColumnType(c) # "error"
  <2>1. /\ ~Blank(c) => resolved[c] = Answer(c) /\ Answer(c) # "error"
        /\ c \in rescan <=> Doubted(c, at - 1)
        /\ c \in verify <=> c \notin rescan /\ Expected(Answer(c)) # AllKinds
        /\ SampledShort /\ c \in Columns /\ at \in (sample + 1)..(Len(rows) + 1)
    BY <1>1, <1>10 DEF Verifying
  <2>2. CASE c \in rescan
    <3>1. Blank(c) \/ \E i \in (sample + 1)..Len(rows) : Kind(c, i) \notin Expected(Answer(c))
      BY <1>1, <2>1, <2>2 DEF Doubted
    <3> QED
      BY <2>1, <2>2, <3>1, InferCases
  <2>3. CASE c \notin rescan
    <3>1. ~Blank(c) /\ ~Doubted(c, at - 1)
      BY <2>1, <2>3 DEF Doubted
    <3>2. ASSUME NEW i \in (sample + 1)..Len(rows) PROVE Kind(c, i) \in Expected(Answer(c))
      <4>1. CASE at > Len(rows)
        <5>1. at - 1 = Len(rows)
          BY <1>1, <2>1, <4>1
        <5> QED
          BY <3>1, <5>1 DEF Doubted
      <4>2. CASE verify = {}
        <5>1. Expected(Answer(c)) = AllKinds
          BY <2>1, <2>3, <4>2
        <5>2. i \in 1..Len(rows)
          BY <1>1
        <5> QED
          BY <1>1, <2>1, <5>1, <5>2, KindType
      <4> QED
        BY <1>2, <4>1, <4>2
    <3> QED
      BY <2>1, <2>3, <3>1, <3>2, InferCases
  <2> QED
    BY <2>2, <2>3
<1>11. rescan \subseteq ToInfer
  BY <1>1 DEF Verifying
<1>12. CASE rescan = {}
  <2>1. \A c \in ToInfer : resolved[c] = InferColumnType(c) /\ InferColumnType(c) # "error"
    BY <1>10, <1>12
  <2>2. \A c \in pinned : resolved[c] = "none"
    BY DEF InferInv, Walks
  <2>3. \A c \in Columns : resolved[c] # "error"
    BY <2>1, <2>2 DEF ToInfer
  <2>4. Answered'
    BY <1>2, <1>3, <2>1, <2>3, TableFixed DEF Answered, Raised
  <2>5. Walks'
    BY <1>2, <1>3, <1>12, <2>2, <2>4 DEF Walks
  <2> QED
    BY <1>8, <1>9, <2>5 DEF InferInv
<1>13. CASE rescan # {}
  <2>1. \A c \in rescan : families'[c] = ScanFamilies(c, 0)
    BY <1>1, <1>2, <1>11, ScanEquation
  <2>2. FamiliesUpTo(rescan, at - 1)'
    <3>1. at' - 1 = 0
      BY <1>2
    <3> QED
      BY <1>2, <1>3, <2>1, <3>1, TableFixed DEF FamiliesUpTo
  <2>3. Rescanning'
    BY <1>1, <1>2, <1>3, <1>10, <1>11, <2>2, TableFixed DEF Rescanning
  <2>4. Walks'
    BY <1>2, <1>3, <1>13, <2>3 DEF Walks, InferInv
  <2> QED
    BY <1>8, <1>9, <2>4 DEF InferInv
<1> QED
  BY <1>12, <1>13

\* A row of the walk over doubted columns.
LEMMA RescanRowStep == InferInv /\ RescanRow => InferInv'
<1> SUFFICES ASSUME InferInv, RescanRow PROVE InferInv'
  OBVIOUS
<1>1. /\ TypeOK /\ RowsOK /\ Rescanning /\ phase = "rescan" /\ Len(rows) \in Nat
      /\ at \in 1..Len(rows) /\ ToInfer \subseteq Columns
  BY TypeFacts DEF InferInv, Walks, RescanRow, Walk, ToInfer
<1>2. /\ families' = [c \in Columns |->
             IF c \in rescan THEN Observe(families[c], Kind(c, at)) ELSE families[c]]
      /\ at' = at + 1 /\ UNCHANGED <<table, phase, verify, rescan, resolved>>
  BY DEF RescanRow, Walk
<1>3. TypeOK'
  BY <1>1, <1>2, WalkTyped
<1>4. StreamScans'
  BY <1>2, StreamFixed DEF InferInv
<1>5. UNCHANGED <<rows, sample, pinned>>
  BY <1>2 DEF table
<1>6. \A c \in rescan : families'[c] = ScanFamilies(c, at)
  BY <1>1, <1>2, ScanEquation DEF Rescanning, FamiliesUpTo
<1>7. FamiliesUpTo(rescan, at - 1)'
  BY <1>1, <1>2, <1>5, <1>6, TableFixed DEF FamiliesUpTo
<1>8. Rescanning'
  BY <1>1, <1>2, <1>5, <1>7, TableFixed DEF Rescanning
<1>9. Walks'
  BY <1>1, <1>2, <1>5, <1>8 DEF Walks, InferInv
<1> QED
  BY <1>3, <1>4, <1>9 DEF InferInv

\* The second walk answers for the columns it walked.
LEMMA RescanEndsStep == InferInv /\ RescanEnds => InferInv'
<1> SUFFICES ASSUME InferInv, RescanEnds PROVE InferInv'
  OBVIOUS
<1>1. /\ TypeOK /\ RowsOK /\ Rescanning /\ Len(rows) \in Nat /\ at \in Nat \ {0}
      /\ rescan \in SUBSET Columns /\ rescan \subseteq ToInfer /\ pinned \subseteq Columns
      /\ ToInfer = Columns \ pinned
  BY TypeFacts DEF InferInv, Walks, RescanEnds, Rescanning, ToInfer
<1>2. /\ WalkIsOver(rescan, Len(rows)) /\ phase' = "done" /\ at' = 1
      /\ resolved' = [c \in Columns |->
             IF c \in rescan THEN ResolveFamilies(families[c]) ELSE resolved[c]]
      /\ rescan' = {} /\ UNCHANGED <<table, families, verify>>
  BY DEF RescanEnds
<1>3. UNCHANGED <<rows, stream, sample, pinned>>
  BY <1>2 DEF table
<1>4. FamiliesUpTo(rescan, Len(rows))
  BY <1>1, <1>2, WalkedOver DEF Rescanning
<1>5. \A c \in ToInfer : resolved'[c] = InferColumnType(c)
  BY <1>1, <1>2, <1>4 DEF Rescanning, FamiliesUpTo, FullScan
<1>6. \A c \in pinned : resolved'[c] = "none"
  BY <1>1, <1>2 DEF InferInv, Walks
<1>7. resolved' \in [Columns -> Types \cup {"none"}]
  <2>1. \A c \in Columns : resolved'[c] \in Types \cup {"none"}
    BY <1>1, <1>2, Resolution DEF TypeOK
  <2> QED
    BY <1>2, <2>1
<1>8. at' \in 1..(MaxRows + 1)
  BY <1>2, InferenceAssumption
<1>9. TypeOK'
  BY <1>1, <1>2, <1>3, <1>7, <1>8 DEF TypeOK, Phases
<1>10. StreamScans'
  BY <1>2, StreamFixed DEF InferInv
<1>11. \A c \in ToInfer' : resolved'[c] = InferColumnType(c)'
  BY <1>3, <1>5, TableFixed
<1>12. Raised' => \E c \in ToInfer' : InferColumnType(c)' = "error"
  BY <1>1, <1>3, <1>6, <1>11, TableFixed DEF Raised
<1>13. Walks'
  BY <1>2, <1>3, <1>6, <1>11, <1>12 DEF Walks, Answered
<1> QED
  BY <1>9, <1>10, <1>13 DEF InferInv

\* Every step of the inference keeps its invariant.
LEMMA InferStep == InferInv /\ [Next]_vars => InferInv'
<1> SUFFICES ASSUME InferInv, [Next]_vars PROVE InferInv'
  OBVIOUS
<1>1. CASE UNCHANGED vars
  <2>1. UNCHANGED <<rows, stream, sample, pinned, phase, at, families, verify, rescan, resolved>>
    BY <1>1 DEF vars, table
  <2>2. TypeOK' /\ StreamScans'
    BY <2>1, StreamFixed DEF InferInv, TypeOK, table
  <2>3. FamiliesUpTo(ToInfer, at - 1)' <=> FamiliesUpTo(ToInfer, at - 1)
    BY <2>1, TableFixed DEF FamiliesUpTo
  <2>4. FamiliesUpTo(ToInfer, SampleEnd)' <=> FamiliesUpTo(ToInfer, SampleEnd)
    BY <2>1, TableFixed DEF FamiliesUpTo
  <2>5. Verifying' <=> Verifying
    BY <2>1, TableFixed DEF Verifying, Doubted
  <2>6. Rescanning' <=> Rescanning
    BY <2>1, TableFixed DEF Rescanning, FamiliesUpTo
  <2>7. Answered' <=> Answered
    BY <2>1, TableFixed DEF Answered, Raised
  <2>8. Walks'
    BY <2>1, <2>3, <2>4, <2>5, <2>6, <2>7, TableFixed DEF InferInv, Walks
  <2> QED
    BY <2>2, <2>8 DEF InferInv
<1>2. CASE Next
  BY <1>2, FeedRowStep, EndOfRowsStep, SampleRowStep, SampleEndsStep, DecideStep,
     VerifyRowStep, VerifyEndsStep, RescanRowStep, RescanEndsStep DEF Next
<1> QED
  BY <1>1, <1>2

\* InferInv, the inductive invariant of the inference in prepared_payload.py and in
\* copy.py: types; the COPY spool's scan is the scan of all rows read; and each phase has
\* found what _infer_column_type() would find.
THEOREM InferenceInvariant == LoadSpec => []InferInv
<1>1. LoadInit => InferInv
  BY InferInit DEF LoadInit
<1>2. InferInv /\ [LoadNext]_<<vars, load, file>> => InferInv'
  <2>1. [LoadNext]_<<vars, load, file>> => [Next]_vars
    BY DEF LoadNext, Infer, TakeRow, WriteRow, write_neutral_terminator, Truncate, ReadRow
  <2> QED
    BY <2>1, InferStep
<1> QED
  BY <1>1, <1>2, PTL DEF LoadSpec

\* PathsAgree: the row-by-row inference of INSERT, the column-wise one, and the one that
\* COPY does while it spools come to one type of each column, or all raise.
THEOREM InferencePathsAgree == LoadSpec => []PathsAgree
<1>1. InferInv => PathsAgree
  BY DEF InferInv, Walks, Answered, PathsAgree, StreamScans, FullScan
<1> QED
  BY <1>1, InferenceInvariant, PTL

\* SampleErrsLoudly: a type that was inferred of a sample narrows no value, and if it is
\* not the type of all rows, a row is refused or looks like the type.
THEOREM SamplingErrsLoudly == LoadSpec => []SampleErrsLoudly
<1>1. InferInv => SampleErrsLoudly
  <2> SUFFICES ASSUME InferInv, phase = "done", ~Raised, NEW c \in ToInfer
               PROVE  Loudly(c, resolved[c])
    BY DEF SampleErrsLoudly, Loudly
  <2>1. RowsOK /\ sample \in Nat /\ c \in Columns
    BY TypeFacts DEF InferInv, ToInfer
  <2>2. resolved[c] = InferColumnType(c) /\ resolved[c] # "error"
    BY <2>1 DEF InferInv, Walks, Answered, Raised
  <2> QED
    BY <2>1, <2>2, InferredIsLoud
<1> QED
  BY <1>1, InferenceInvariant, PTL

\* CopyTakesWhatItInferred: COPY renders every value of a column in the type it has
\* inferred for it, and changes none.  It refuses ints outside bigint and strings with a
\* NUL, as INSERT does, and bytes among other values.
THEOREM CopyTakesInferred == LoadSpec => []CopyTakesWhatItInferred
<1>1. InferInv => CopyTakesWhatItInferred
  <2> SUFFICES ASSUME InferInv, NEW c \in Columns, NEW i \in DOMAIN rows,
                      ResolveFamilies(stream[c]) # "error", Kind(c, i) # "null"
               PROVE  CopyWrites(ResolveFamilies(stream[c]), Kind(c, i))
    BY DEF CopyTakesWhatItInferred, CopyWrites, Oversized
  <2>1. RowsOK /\ i \in 1..Len(rows)
    BY TypeFacts DEF InferInv, RowsOK
  <2>2. ResolveFamilies(stream[c]) = FullScan(c)
    BY DEF InferInv, StreamScans, FullScan
  <2> QED
    BY <2>1, <2>2, FullScanIsWritten
<1> QED
  BY <1>1, InferenceInvariant, PTL

-----------------------------------------------------------------------------
(* Names of staging tables. *)

Described == payload \in {Inferred, Framed} \cup Payloads \cup Stagings \cup Inspected

\* What a behaviour is about never changes.
THEOREM DescriptionStays == LoadSpec => []Described
<1>1. LoadInit => Described
  BY DEF LoadInit, Described
<1>2. Described /\ [LoadNext]_<<vars, load, file>> => Described'
  BY DEF Described, LoadNext, Infer, TakeRow, WriteRow, write_neutral_terminator, Truncate,
         ReadRow, load
<1> QED
  BY <1>1, <1>2, PTL DEF LoadSpec

\* A name has a length, and it is not 0.
LEMMA NameOfParts ==
    ASSUME NEW name, IsName(name)
    PROVE  Len(name) \in Nat \ {0} /\ DOMAIN name = 1..Len(name)
           /\ \A i \in 1..Len(name) : name[i] \in {name[j] : j \in 1..Len(name)}
<1>1. Len(name) \in Nat /\ DOMAIN name = 1..Len(name)
  BY DEF IsName
<1>2. Len(name) # 0
  BY <1>1 DEF IsName, NoName
<1> QED
  BY <1>1, <1>2

Suffix(schema, target, run) ==
    <<STAGING_NAME_KIND, staging_target_token(schema, target), Underscore, run>>

Prefix(target, max_bytes) == _truncate_utf8(target, max_bytes - 4)

\* A name whose suffix begins behind its n-th part.
Shaped(name, n, schema, target, run) ==
    /\ \E S : name \in Seq(S)
    /\ Len(name) = n + 4
    /\ name[n + 1] = STAGING_NAME_KIND /\ name[n + 2] = staging_target_token(schema, target)
    /\ name[n + 3] = Underscore /\ name[n + 4] = run

\* Whatever the limit leaves of the table's name, the suffix follows in whole.
LEMMA SuffixIsWhole ==
    ASSUME NEW target, IsName(target), NEW schema, NEW run, NEW max_bytes \in Int
    PROVE  /\ Len(Prefix(target, max_bytes)) \in Nat
           /\ Shaped(staging_table_name(schema, target, run, max_bytes),
                     Len(Prefix(target, max_bytes)), schema, target, run)
<1> DEFINE name == staging_table_name(schema, target, run, max_bytes)
           prefix == Prefix(target, max_bytes)
           suffix == Suffix(schema, target, run)
           S == {target[i] : i \in 1..Len(target)} \cup {suffix[i] : i \in 1..4}
           budget == max_bytes - 4
           end == IF budget < 0 THEN Len(target) + budget ELSE budget
           last == IF end < Len(target) THEN end ELSE Len(target)
<1>1. /\ suffix \in Seq(S) /\ Len(suffix) = 4
      /\ suffix[1] = STAGING_NAME_KIND /\ suffix[2] = staging_target_token(schema, target)
      /\ suffix[3] = Underscore /\ suffix[4] = run
  BY DEF Suffix
<1>2. Len(target) \in Nat
  BY NameOfParts
<1>3. prefix = SubSeq(target, 1, last)
  BY DEF Prefix, _truncate_utf8
<1>4. last \in Int /\ last <= Len(target)
  BY <1>2
<1>5. \A i \in 1..last : target[i] \in S
  BY <1>2, <1>4
<1>6. prefix \in Seq(S) /\ Len(prefix) \in Nat
  <2> HIDE DEF last, S
  <2>1. prefix \in Seq(S)
    BY <1>3, <1>4, <1>5, SubSeqProperties
  <2> QED
    BY <2>1, LenProperties
<1>7. name = prefix \o suffix
  BY <1>1 DEF staging_table_name, Prefix, Suffix
<1> HIDE DEF name, prefix, suffix, S
<1>8. /\ name \in Seq(S) /\ Len(name) = Len(prefix) + 4
      /\ \A i \in 1..(Len(prefix) + 4) :
           name[i] = IF i <= Len(prefix) THEN prefix[i] ELSE suffix[i - Len(prefix)]
  <2>1. /\ prefix \o suffix \in Seq(S) /\ Len(prefix \o suffix) = Len(prefix) + Len(suffix)
        /\ \A i \in 1..(Len(prefix) + Len(suffix)) :
             (prefix \o suffix)[i]
               = IF i <= Len(prefix) THEN prefix[i] ELSE suffix[i - Len(prefix)]
    BY <1>1, <1>6, ConcatProperties
  <2> QED
    BY <1>1, <1>7, <2>1
<1>9. \A i \in 1..4 : name[Len(prefix) + i] = suffix[i]
  <2> SUFFICES ASSUME NEW i \in 1..4 PROVE name[Len(prefix) + i] = suffix[i]
    OBVIOUS
  <2>1. /\ Len(prefix) + i \in 1..(Len(prefix) + 4) /\ ~(Len(prefix) + i <= Len(prefix))
        /\ (Len(prefix) + i) - Len(prefix) = i
    BY <1>6
  <2> QED
    BY <1>8, <2>1
<1>10. Len(Prefix(target, max_bytes)) = Len(prefix)
  BY DEF prefix
<1>11. \E T : name \in Seq(T)
  BY <1>8
<1>12. Shaped(name, Len(prefix), schema, target, run)
  BY <1>1, <1>6, <1>8, <1>9, <1>11 DEF Shaped
<1> QED
  BY <1>6, <1>10, <1>12 DEF name

\* The tokens of a name are read off its end, wherever the prefix ends.
LEMMA TokensAreFound ==
    ASSUME NEW S, NEW name \in Seq(S), NEW n \in Nat, Len(name) = n + 4,
           name[n + 1] = STAGING_NAME_KIND, name[n + 3] = Underscore,
           name[n + 2][1] = "token", name[n + 4][1] = "run"
    PROVE  owned_staging_tokens(name) = <<name[n + 2], name[n + 4]>>
<1>1. Len(name) >= 4 /\ Len(name) - 3 = n + 1 /\ Len(name) - 2 = n + 2 /\ Len(name) - 1 = n + 3
  OBVIOUS
<1> QED
  BY <1>1 DEF owned_staging_tokens

\* A staging table under a name as it was built, and what became of it.
LEMMA StagedIsRecognised ==
    ASSUME NEW d \in Stagings, NEW c \in Cleaners, NEW limit \in Nat, NEW name,
           name = staging_table_name(d.schema, d.table, d.run, limit)
    PROVE  Drops(c.task, c.schema, c.run, Relation(d, name)) <=>
             /\ c.task = d.task /\ c.schema = d.schema
             /\ c.run # d.run
             /\ d.fate \in {"left", "prefixed"}
<1>1. /\ d.fate \in Fates /\ IsName(d.table) /\ IsName(d.schema) /\ d.schema # <<Part>>
      /\ d.run[1] = "run" /\ limit \in Int
  BY StagingAssumption DEF new_run_token
<1>2. c.schema # <<Part>>
  BY StagingAssumption DEF Cleaners
<1>3. PICK n \in Nat : Shaped(name, n, d.schema, d.table, d.run)
  BY <1>1, SuffixIsWhole
<1>4. PICK S : name \in Seq(S)
  BY <1>3 DEF Shaped
<1> DEFINE comment == build_staging_comment(d.task, d.run, d.schema, d.table)
           token == staging_target_token(d.schema, d.table)
<1>5. /\ Len(name) = n + 4 /\ name[n + 1] = STAGING_NAME_KIND /\ name[n + 2] = token
      /\ name[n + 3] = Underscore /\ name[n + 4] = d.run /\ token[1] = "token"
  BY <1>3 DEF Shaped, staging_target_token
<1>6. owned_staging_tokens(name) = <<token, d.run>>
  BY <1>1, <1>4, <1>5, TokensAreFound
<1>7. parse_staging_comment(comment) = comment /\ comment # Unowned
  BY <1>1 DEF build_staging_comment, parse_staging_comment, IsName, Unowned
<1>8. /\ comment.task = d.task /\ comment.run = d.run
      /\ comment.target_schema = d.schema /\ comment.target_table = d.table
  BY DEF build_staging_comment
<1> HIDE DEF comment, token
<1>9. CASE d.fate = "left"
  <2>1. Relation(d, name) = [schema |-> d.schema, name |-> name, comment |-> comment]
    BY <1>9 DEF Relation, comment
  <2>2. /\ Relation(d, name).schema = d.schema /\ Relation(d, name).name = name
        /\ Relation(d, name).comment = comment
    BY <2>1
  <2>3. <<token, d.run>> # <<>> /\ <<token, d.run>>[1] = token /\ <<token, d.run>>[2] = d.run
    OBVIOUS
  <2>4. staging_target_token(comment.target_schema, comment.target_table) = token
    BY <1>8 DEF token
  <2> QED
    BY <1>6, <1>7, <1>8, <1>9, <2>2, <2>3, <2>4 DEF Drops
<1>10. CASE d.fate = "prefixed"
  <2> DEFINE long == <<Part>> \o name
  <2>1. Relation(d, name) = [schema |-> d.schema, name |-> long, comment |-> comment]
    BY <1>10 DEF Relation, comment
  <2>2. /\ long \in Seq(S \cup {Part}) /\ Len(long) = (n + 1) + 4
        /\ \A i \in 1..(n + 4) : long[i + 1] = name[i]
    <3>1. /\ <<Part>> \in Seq(S \cup {Part}) /\ Len(<<Part>>) = 1
          /\ name \in Seq(S \cup {Part})
      BY <1>4, SeqMonotonic
    <3>2. /\ long \in Seq(S \cup {Part}) /\ Len(long) = Len(<<Part>>) + Len(name)
          /\ \A i \in 1..(Len(<<Part>>) + Len(name)) :
               long[i] = IF i <= Len(<<Part>>) THEN <<Part>>[i] ELSE name[i - Len(<<Part>>)]
      BY <3>1, ConcatProperties
    <3> HIDE DEF long
    <3>3. ASSUME NEW i \in 1..(n + 4) PROVE long[i + 1] = name[i]
      <4>1. i + 1 \in 1..(1 + (n + 4)) /\ ~(i + 1 <= 1) /\ (i + 1) - 1 = i
        OBVIOUS
      <4> QED
        BY <1>5, <3>1, <3>2, <4>1
    <3> QED
      BY <1>5, <3>1, <3>2, <3>3
  <2>3. /\ long[(n + 1) + 1] = STAGING_NAME_KIND /\ long[(n + 1) + 2] = token
        /\ long[(n + 1) + 3] = Underscore /\ long[(n + 1) + 4] = d.run
    BY <1>5, <2>2
  <2> HIDE DEF long
  <2>4. /\ Relation(d, name).schema = d.schema /\ Relation(d, name).name = long
        /\ Relation(d, name).comment = comment
    BY <2>1
  <2>5. owned_staging_tokens(long) = <<token, d.run>>
    <3>1. n + 1 \in Nat
      OBVIOUS
    <3>2. long[(n + 1) + 2][1] = "token" /\ long[(n + 1) + 4][1] = "run"
      BY <1>1, <1>5, <2>3
    <3>3. owned_staging_tokens(long) = <<long[(n + 1) + 2], long[(n + 1) + 4]>>
      BY ONLY <2>2, <2>3, <3>1, <3>2, TokensAreFound
    <3> QED
      BY <2>3, <3>3
  <2>6. <<token, d.run>> # <<>> /\ <<token, d.run>>[1] = token /\ <<token, d.run>>[2] = d.run
    OBVIOUS
  <2>7. staging_target_token(comment.target_schema, comment.target_table) = token
    BY <1>8 DEF token
  <2> QED
    BY <1>7, <1>8, <1>10, <2>4, <2>5, <2>6, <2>7 DEF Drops
<1>11. CASE d.fate = "published"
  <2>1. Relation(d, name).comment = build_published_comment(d.task, d.run)
    BY <1>11 DEF Relation
  <2>2. parse_staging_comment(Relation(d, name).comment) = Unowned
    BY <2>1 DEF build_published_comment, parse_staging_comment
  <2> QED
    BY <1>11, <2>2 DEF Drops
<1>12. CASE d.fate = "renamed"
  <2> DEFINE long == name \o <<Part>>
  <2>1. Relation(d, name).name = long
    BY <1>12 DEF Relation
  <2>2. Len(long) = n + 5 /\ long[n + 5] = Part
    BY <1>4, <1>5
  <2> HIDE DEF long
  <2>3. owned_staging_tokens(long) = <<>>
    <3>1. long[Len(long)][1] # "run"
      BY <2>2 DEF Part
    <3> QED
      BY <3>1 DEF owned_staging_tokens
  <2> QED
    BY <1>12, <2>1, <2>3 DEF Drops
<1>13. CASE d.fate = "moved"
  <2>1. Relation(d, name).schema = <<Part>>
    BY <1>13 DEF Relation
  <2> QED
    BY <1>2, <1>13, <2>1 DEF Drops
<1>14. CASE d.fate = "uncommented"
  <2>1. Relation(d, name).comment = Unowned
    BY <1>14 DEF Relation
  <2>2. parse_staging_comment(Unowned) = Unowned
    BY DEF parse_staging_comment, Unowned
  <2> QED
    BY <1>14, <2>1, <2>2 DEF Drops
<1>15. CASE d.fate = "edited"
  <2>1. Relation(d, name).comment.target_table = NoName
    BY <1>15 DEF Relation, build_staging_comment
  <2>2. parse_staging_comment(Relation(d, name).comment) = Unowned
    BY <2>1 DEF parse_staging_comment
  <2> QED
    BY <1>15, <2>2 DEF Drops
<1>16. CASE d.fate = "copied"
  <2>1. Relation(d, name).name = <<Part>>
    BY <1>16 DEF Relation
  <2>2. owned_staging_tokens(<<Part>>) = <<>>
    BY DEF owned_staging_tokens
  <2> QED
    BY <1>16, <2>1, <2>2 DEF Drops
<1> QED
  BY <1>1, <1>9, <1>10, <1>11, <1>12, <1>13, <1>14, <1>15, <1>16 DEF Fates

\* StagingIsRecognised: what preflight accepts is created, no staging name is cut off by
\* the server, and the cleanup of a later run drops exactly the unclaimed staging tables
\* of other runs of its own task and schema.
THEOREM StagingTablesAreRecognised == LoadSpec => []StagingIsRecognised
<1>1. Described => StagingIsRecognised
  <2> SUFFICES ASSUME Described, payload.mode = "staging" PROVE StagingIsRecognised
    BY DEF StagingIsRecognised
  <2> DEFINE limit == server_identifier_limit(payload.configured, payload.server)
             name  == Created(payload.schema, payload.table, payload.run, limit)
             built == staging_table_name(payload.schema, payload.table, payload.run, limit)
  <2>1. payload \in Stagings
    BY LoadAssumption, InspectedAssumption DEF Described, Inferred, Framed
  <2>2. /\ payload.configured \in Nat /\ payload.server \in Nat
        /\ IsName(payload.table) /\ limit \in Nat /\ limit <= payload.server
        /\ payload.configured <= payload.server => limit = payload.configured
    BY <2>1, StagingAssumption DEF server_identifier_limit
  <2> HIDE DEF limit
  <2>3. name # NoName => name = built /\ Len(name) <= limit
    BY DEF Created, validate_identifier
  <2>4. ASSUME payload.configured <= payload.server,
               preflight({payload.table}, payload.schema, NoName, payload.configured)
        PROVE  name # NoName
    <3>1. \A run : /\ Len(Prefix(payload.table, limit)) \in Nat
                   /\ Len(staging_table_name(payload.schema, payload.table, run, limit))
                        = Len(Prefix(payload.table, limit)) + 4
      BY <2>2, SuffixIsWhole DEF Shaped
    <3>2. validate_identifier(built, limit)
      <4>1. Len(staging_table_name(payload.schema, payload.table, new_run_token(0), limit)) <= limit
        BY <2>2, <2>4 DEF preflight, validate_identifier
      <4>2. Len(built) <= limit /\ Len(built) # 0
        BY <3>1, <4>1
      <4> QED
        BY <4>2 DEF validate_identifier, NoName
    <3>3. validate_identifier(payload.schema, limit) /\ validate_identifier(payload.table, limit)
      BY <2>2, <2>4 DEF preflight
    <3> QED
      BY <3>2, <3>3 DEF Created, validate_identifier
  <2>5. ASSUME name # NoName
        PROVE  /\ Len(name) <= payload.server
               /\ \A c \in Cleaners :
                    Drops(c.task, c.schema, c.run, Relation(payload, name)) <=>
                         /\ c.task = payload.task /\ c.schema = payload.schema
                         /\ c.run # payload.run
                         /\ payload.fate \in {"left", "prefixed"}
    <3>1. Len(name) <= payload.server
      <4>1. Len(built) = Len(Prefix(payload.table, limit)) + 4
            /\ Len(Prefix(payload.table, limit)) \in Nat
        BY <2>2, SuffixIsWhole DEF Shaped
      <4> QED
        BY <2>2, <2>3, <2>5, <4>1
    <3>2. QED
      BY <2>1, <2>2, <2>3, <2>5, <3>1, StagedIsRecognised
  <2> QED
    BY <2>4, <2>5 DEF StagingIsRecognised, limit
<1> QED
  BY <1>1, DescriptionStays, PTL

-----------------------------------------------------------------------------
(* The columns that are not excluded. *)

\* One column more.
KeepColumn(kept, column, excluded) ==
    IF column.name \in excluded THEN kept ELSE Append(kept, column)

\* What is left of the first n columns.
LeftLaw(f, columns, excluded, S) ==
    /\ f \in [0..Len(columns) -> Seq(S)] /\ f[0] = <<>>
    /\ \A n \in 1..Len(columns) : f[n] = KeepColumn(f[n - 1], columns[n], excluded)

\* There is something.
LEMMA LeftSolution ==
    ASSUME NEW S, NEW columns \in Seq(S), NEW excluded
    PROVE  \E f : LeftLaw(f, columns, excluded, S)
<1> DEFINE N == Len(columns)
           step == [x \in Seq(S) \X (1..N) |-> KeepColumn(x[1], columns[x[2]], excluded)]
<1>1. N \in Nat /\ \A n \in 1..N : columns[n] \in S
  BY LenProperties, ElementOfSeq
<1>2. ASSUME NEW s \in Seq(S), NEW n \in 1..N
      PROVE  KeepColumn(s, columns[n], excluded) \in Seq(S)
  <2>1. Append(s, columns[n]) \in Seq(S)
    BY <1>1, AppendProperties
  <2> QED
    BY <2>1 DEF KeepColumn
<1>3. step \in [Seq(S) \X (1..N) -> Seq(S)]
  <2> HIDE DEF N
  <2> QED
    BY <1>2
<1>4. <<>> \in Seq(S)
  OBVIOUS
<1>5. PICK f : f \in Solutions(N, Seq(S), <<>>, step)
  <2> HIDE DEF step, N
  <2> QED
    BY <1>1, <1>3, <1>4, RecursionHasSolution
<1>6. /\ f \in [0..N -> Seq(S)] /\ f[0] = <<>>
      /\ \A n \in 1..N : f[n] = step[<<f[n - 1], n>>]
  <2> HIDE DEF step, N
  <2> QED
    BY <1>5 DEF Solutions
<1>7. ASSUME NEW n \in 1..N PROVE f[n] = KeepColumn(f[n - 1], columns[n], excluded)
  <2>1. n - 1 \in 0..N
    BY <1>1
  <2>2. <<f[n - 1], n>> \in Seq(S) \X (1..N)
    BY <1>6, <2>1
  <2> QED
    BY <1>6, <2>2
<1> QED
  BY <1>6, <1>7 DEF LeftLaw

\* Without() is what is left of all columns.
LEMMA LeftEquation ==
    ASSUME NEW S, NEW columns \in Seq(S), NEW excluded
    PROVE  \E f : LeftLaw(f, columns, excluded, S) /\ Without(columns, excluded) = f[Len(columns)]
<1> DEFINE N == Len(columns)
           body(g) == [n \in 0..N |->
                         IF n = 0 THEN <<>>
                         ELSE IF columns[n].name \in excluded THEN g[n - 1]
                         ELSE Append(g[n - 1], columns[n])]
           kept == CHOOSE g : g = body(g)
<1>1. N \in Nat
  BY LenProperties
<1>2. Without(columns, excluded) = kept[N]
  BY DEF Without
<1>3. PICK f : LeftLaw(f, columns, excluded, S)
  BY LeftSolution
<1>4. /\ f \in [0..N -> Seq(S)] /\ f[0] = <<>>
      /\ \A n \in 1..N : f[n] = KeepColumn(f[n - 1], columns[n], excluded)
  BY <1>3 DEF LeftLaw
<1>5. \A g : body(g) = [n \in 0..N |-> IF n = 0 THEN <<>>
                                       ELSE KeepColumn(g[n - 1], columns[n], excluded)]
  BY DEF KeepColumn
<1>6. f = body(f)
  <2>1. ASSUME NEW n \in 0..N
        PROVE  f[n] = IF n = 0 THEN <<>> ELSE KeepColumn(f[n - 1], columns[n], excluded)
    <3>1. CASE n = 0
      BY <1>4, <3>1
    <3>2. CASE n # 0
      <4>1. n \in 1..N
        BY <1>1, <3>2
      <4> QED
        BY <1>4, <3>2, <4>1
    <3> QED
      BY <3>1, <3>2
  <2>2. f = [n \in 0..N |-> f[n]]
    BY <1>4
  <2> HIDE DEF body, N
  <2> QED
    BY <1>5, <2>1, <2>2
<1> HIDE DEF body
<1>7. kept = body(kept)
  BY <1>6
<1> HIDE DEF kept, N
<1>8. kept = [n \in 0..N |-> IF n = 0 THEN <<>>
                             ELSE KeepColumn(kept[n - 1], columns[n], excluded)]
  BY <1>5, <1>7
<1>9. \A n \in 0..N : kept[n] = IF n = 0 THEN <<>>
                               ELSE KeepColumn(kept[n - 1], columns[n], excluded)
  BY <1>8
<1> DEFINE Same == {n \in Nat : n <= N => kept[n] = f[n]}
<1>10. 0 \in Same
  <2>1. 0 \in 0..N
    BY <1>1
  <2> QED
    BY <1>4, <1>9, <2>1
<1>11. ASSUME NEW n \in Nat, n \in Same PROVE n + 1 \in Same
  <2> SUFFICES ASSUME n + 1 <= N PROVE kept[n + 1] = f[n + 1]
    OBVIOUS
  <2>1. n + 1 \in 0..N /\ n + 1 \in 1..N /\ n + 1 # 0 /\ (n + 1) - 1 = n /\ kept[n] = f[n]
    BY <1>1, <1>11
  <2>2. kept[n + 1] = KeepColumn(kept[n], columns[n + 1], excluded)
    BY <1>9, <2>1
  <2>3. f[n + 1] = KeepColumn(f[n], columns[n + 1], excluded)
    BY <1>4, <2>1
  <2> QED
    BY <2>1, <2>2, <2>3
<1>12. Nat \subseteq Same
  <2> HIDE DEF Same
  <2> QED
    BY <1>10, <1>11, SetInduction
<1>13. kept[N] = f[N]
  BY <1>1, <1>12
<1> QED
  BY <1>2, <1>3, <1>13 DEF N

\* Names of one's own.
Distinct(columns) == \A i, j \in 1..Len(columns) : columns[i].name = columns[j].name => i = j

\* Some of the first n columns are left: those whose names are not excluded.
LeftOf(kept, columns, excluded, n) ==
    /\ \A i \in 1..Len(kept) :
         kept[i].name \notin excluded /\ \E j \in 1..n : kept[i] = columns[j]
    /\ \A j \in 1..n : columns[j].name \notin excluded =>
         \E i \in 1..Len(kept) : kept[i] = columns[j]

\* One column more.
LEMMA LeftOneMore ==
    ASSUME NEW S, NEW kept \in Seq(S), NEW columns \in Seq(S), NEW excluded, NEW n \in Nat,
           n + 1 <= Len(columns), LeftOf(kept, columns, excluded, n)
    PROVE  LET more == KeepColumn(kept, columns[n + 1], excluded)
           IN /\ LeftOf(more, columns, excluded, n + 1)
              /\ Distinct(columns) /\ Distinct(kept) => Distinct(more)
<1> DEFINE more == KeepColumn(kept, columns[n + 1], excluded)
           m == Len(kept)
<1>1. /\ m \in Nat /\ Len(columns) \in Nat /\ n + 1 \in 1..Len(columns)
      /\ columns[n + 1] \in S
  <2>1. Len(columns) \in Nat /\ Len(kept) \in Nat
    BY LenProperties
  <2>2. n + 1 \in 1..Len(columns)
    BY <2>1
  <2> QED
    BY <2>1, <2>2, ElementOfSeq
<1>2. 1..(n + 1) = (1..n) \cup {n + 1}
  OBVIOUS
<1>3. CASE columns[n + 1].name \in excluded
  <2>1. more = kept
    BY <1>3 DEF KeepColumn
  <2> HIDE DEF more
  <2>2. LeftOf(kept, columns, excluded, n + 1)
    BY <1>2, <1>3 DEF LeftOf
  <2> QED
    BY <2>1, <2>2 DEF more
<1>4. CASE columns[n + 1].name \notin excluded
  <2>1. more = Append(kept, columns[n + 1])
    BY <1>4 DEF KeepColumn
  <2> HIDE DEF more
  <2>2. /\ Len(more) = m + 1 /\ more[m + 1] = columns[n + 1]
        /\ \A i \in 1..m : more[i] = kept[i]
    BY <1>1, <2>1, AppendProperties
  <2> HIDE DEF m
  <2>3. 1..(m + 1) = (1..m) \cup {m + 1}
    BY <1>1
  <2>4. /\ \A i \in 1..m : kept[i].name \notin excluded /\ \E j \in 1..n : kept[i] = columns[j]
        /\ \A j \in 1..n : columns[j].name \notin excluded => \E i \in 1..m : kept[i] = columns[j]
    BY DEF LeftOf, m
  <2>5. \A i \in 1..(m + 1) :
          more[i].name \notin excluded /\ \E j \in 1..(n + 1) : more[i] = columns[j]
    BY <1>2, <1>4, <2>2, <2>3, <2>4
  <2>6. \A j \in 1..(n + 1) : columns[j].name \notin excluded =>
          \E i \in 1..(m + 1) : more[i] = columns[j]
    BY <1>2, <2>2, <2>3, <2>4
  <2>7. LeftOf(more, columns, excluded, n + 1)
    BY <2>2, <2>5, <2>6 DEF LeftOf
  <2>8. ASSUME Distinct(columns), Distinct(kept) PROVE Distinct(more)
    <3>1. \A i \in 1..m : more[i].name # more[m + 1].name
      <4> SUFFICES ASSUME NEW i \in 1..m PROVE more[i].name # columns[n + 1].name
        BY <2>2
      <4>1. PICK j \in 1..n : kept[i] = columns[j]
        BY <2>4
      <4>2. j \in 1..Len(columns) /\ j # n + 1
        BY <1>1
      <4>3. columns[j].name # columns[n + 1].name
        BY <1>1, <2>8, <4>2 DEF Distinct
      <4> QED
        BY <2>2, <4>1, <4>3
    <3>2. \A i, j \in 1..m : more[i].name = more[j].name => i = j
      BY <2>2, <2>8 DEF Distinct, m
    <3>3. \A i, j \in 1..(m + 1) : more[i].name = more[j].name => i = j
      BY <2>3, <3>1, <3>2
    <3> QED
      BY <2>2, <3>3 DEF Distinct
  <2> QED
    BY <2>7, <2>8 DEF more
<1> QED
  BY <1>3, <1>4

\* What is left of all of them.
LEMMA WithoutFacts ==
    ASSUME NEW S, NEW columns \in Seq(S), NEW excluded
    PROVE  LET kept == Without(columns, excluded)
           IN /\ kept \in Seq(S) /\ LeftOf(kept, columns, excluded, Len(columns))
              /\ Distinct(columns) => Distinct(kept)
<1> DEFINE N == Len(columns)
<1>1. PICK f : LeftLaw(f, columns, excluded, S) /\ Without(columns, excluded) = f[N]
  BY LeftEquation
<1>2. /\ f \in [0..N -> Seq(S)] /\ f[0] = <<>> /\ N \in Nat
      /\ \A n \in 1..N : f[n] = KeepColumn(f[n - 1], columns[n], excluded)
  BY <1>1, LenProperties DEF LeftLaw
<1> DEFINE Good(n) == /\ LeftOf(f[n], columns, excluded, n)
                      /\ Distinct(columns) => Distinct(f[n])
           Goods == {n \in Nat : n <= N => Good(n)}
<1>3. 0 \in Goods
  BY <1>2 DEF LeftOf, Distinct
<1>4. ASSUME NEW n \in Nat, n \in Goods PROVE n + 1 \in Goods
  <2> SUFFICES ASSUME n + 1 <= N PROVE Good(n + 1)
    OBVIOUS
  <2>1. n + 1 \in 1..N /\ (n + 1) - 1 = n /\ n \in 0..N /\ Good(n)
    BY <1>2, <1>4
  <2>2. f[n + 1] = KeepColumn(f[n], columns[n + 1], excluded) /\ f[n] \in Seq(S)
    BY <1>2, <2>1
  <2> HIDE DEF Goods
  <2> QED
    BY <2>1, <2>2, LeftOneMore
<1>5. Nat \subseteq Goods
  <2> HIDE DEF Goods
  <2> QED
    BY <1>3, <1>4, SetInduction
<1>6. Good(N) /\ f[N] \in Seq(S)
  BY <1>2, <1>5
<1> QED
  BY <1>1, <1>6

\* If those that are excluded come last, the others are left as they are.
LEMMA WithoutLast ==
    ASSUME NEW S, NEW columns \in Seq(S), NEW excluded, NEW m \in 0..Len(columns),
           \A i \in 1..m : columns[i].name \notin excluded,
           \A i \in (m + 1)..Len(columns) : columns[i].name \in excluded
    PROVE  /\ Len(Without(columns, excluded)) = m
           /\ \A i \in 1..m : Without(columns, excluded)[i] = columns[i]
<1> DEFINE N == Len(columns)
<1>1. PICK f : LeftLaw(f, columns, excluded, S) /\ Without(columns, excluded) = f[N]
  BY LeftEquation
<1>2. /\ f \in [0..N -> Seq(S)] /\ f[0] = <<>> /\ N \in Nat /\ m \in Nat
      /\ \A n \in 1..N : f[n] = KeepColumn(f[n - 1], columns[n], excluded)
      /\ \A n \in 1..N : columns[n] \in S
  BY <1>1, LenProperties, ElementOfSeq DEF LeftLaw
<1> DEFINE few(n) == IF n <= m THEN n ELSE m
           Good(n) == Len(f[n]) = few(n) /\ \A i \in 1..few(n) : f[n][i] = columns[i]
           Goods == {n \in Nat : n <= N => Good(n)}
<1>3. 0 \in Goods
  BY <1>2
<1>4. ASSUME NEW n \in Nat, n \in Goods PROVE n + 1 \in Goods
  <2> SUFFICES ASSUME n + 1 <= N PROVE Good(n + 1)
    OBVIOUS
  <2>1. n + 1 \in 1..N /\ (n + 1) - 1 = n /\ n \in 0..N /\ Good(n)
    BY <1>2, <1>4
  <2>2. f[n + 1] = KeepColumn(f[n], columns[n + 1], excluded) /\ f[n] \in Seq(S)
    BY <1>2, <2>1
  <2>3. CASE n + 1 <= m
    <3>1. n + 1 \in 1..m /\ few(n) = n /\ few(n + 1) = n + 1
      BY <1>2, <2>3
    <3>2. f[n + 1] = Append(f[n], columns[n + 1]) /\ columns[n + 1] \in S
      BY <1>2, <2>1, <2>2, <3>1 DEF KeepColumn
    <3>3. Len(f[n]) = n /\ \A i \in 1..n : f[n][i] = columns[i]
      BY <2>1, <3>1
    <3>4. /\ Len(f[n + 1]) = n + 1 /\ f[n + 1][n + 1] = columns[n + 1]
          /\ \A i \in 1..n : f[n + 1][i] = f[n][i]
      BY <2>2, <3>2, <3>3, AppendProperties
    <3>5. \A i \in 1..(n + 1) : f[n + 1][i] = columns[i]
      <4>1. 1..(n + 1) = (1..n) \cup {n + 1}
        OBVIOUS
      <4> QED
        BY <3>3, <3>4, <4>1
    <3> QED
      BY <3>1, <3>4, <3>5
  <2>4. CASE ~(n + 1 <= m)
    <3>1. few(n) = m /\ few(n + 1) = m
      BY <1>2, <2>4
    <3>2. n + 1 \in (m + 1)..N
      BY <1>2, <2>1, <2>4
    <3>3. columns[n + 1].name \in excluded
      BY <3>2
    <3>4. f[n + 1] = f[n]
      BY <2>2, <3>3 DEF KeepColumn
    <3> QED
      BY <2>1, <3>1, <3>4
  <2> QED
    BY <2>3, <2>4
<1>5. Nat \subseteq Goods
  <2> HIDE DEF Goods
  <2> QED
    BY <1>3, <1>4, SetInduction
<1>6. Good(N)
  BY <1>2, <1>5
<1>7. few(N) = m
  BY <1>2
<1> QED
  BY <1>1, <1>6, <1>7
-----------------------------------------------------------------------------
(* Types that are printed, and read again. *)

\* Two types have two classes.
LEMMA ClassesDiffer ==
    \A s, t \in DOMAIN Classes : Classes[s] = Classes[t] => s = t
  BY DEF Classes

\* A type without the precision of a time.
Plain(type) == <<type[1], IF type[1] \in Times THEN <<>> ELSE type[2]>>

\* The class of a type leads back to it.
LEMMA ClassOfType ==
    ASSUME NEW type, type[1] \in DOMAIN Classes, NEW modifiers
    PROVE  PostgreSQLType(<<Classes[type[1]], modifiers>>) = <<type[1], modifiers>>
<1>1. (CHOOSE name \in DOMAIN Classes : Classes[name] = Classes[type[1]]) = type[1]
  BY ClassesDiffer
<1> QED
  BY <1>1 DEF PostgreSQLType

\* A column that is printed is what its declaration says, and the declaration is accepted.
LEMMA RenderedType ==
    ASSUME NEW c \in PhysicalColumns, IsPhysical(c), _render_type(c) # Undeclared
    PROVE  /\ c.type[1] \in DOMAIN Classes /\ c.type_kind = "b"
           /\ ~c.collated /\ ~c.identity /\ ~c.generated
           /\ Declared(c.type[1], c.type[2])
           /\ _render_type(c) = <<Classes[c.type[1]], Plain(c.type)[2]>>
           /\ PostgreSQLType(_render_type(c)) = Plain(c.type)
           /\ _declared_type_family(_render_type(c))
<1>1. /\ c.type[1] \in DOMAIN Classes /\ c.type_kind \notin {"d", "e"}
      /\ ~c.collated /\ ~c.identity /\ ~c.generated
      /\ Declared(c.type[1], c.type[2])
      /\ _render_type(c) = <<Classes[c.type[1]], Plain(c.type)[2]>>
  BY DEF _render_type, Plain
<1>2. c.type_kind = "b"
  BY <1>1 DEF PhysicalColumns
<1>3. PostgreSQLType(_render_type(c)) = Plain(c.type)
  BY <1>1, ClassOfType DEF Plain
<1>4. _declared_type_family(_render_type(c))
  <2> DEFINE m == Plain(c.type)[2]
             t == c.type[1]
  <2>1. "numeric" \in DOMAIN Classes /\ "varchar" \in DOMAIN Classes
        /\ Classes["numeric"] = "Numeric" /\ Classes["varchar"] = "String"
    BY DEF Classes
  <2>2. Classes[t] = "Numeric" => t = "numeric"
    BY <1>1, <2>1, ClassesDiffer
  <2>3. Classes[t] = "String" => t = "varchar"
    BY <1>1, <2>1, ClassesDiffer
  <2>4. t \notin Times => m = c.type[2]
    BY DEF Plain
  <2>5. "numeric" \notin Times /\ "varchar" \notin Times
    BY DEF Times
  <2>6. c.type[2] \in Seq(Int)
    BY DEF PhysicalColumns
  <2>7. ASSUME t = "numeric", m # <<>>
        PROVE  /\ 1 <= m[1] /\ m[1] <= 1000
               /\ 0 <= m[2] /\ m[2] <= m[1]
    <3>1. m = c.type[2]
      BY <2>4, <2>5, <2>7
    <3>2. c.type[2][1] \in 1..1000
      BY <2>7, <3>1 DEF IsPhysical
    <3>3. 0 <= c.type[2][2] /\ c.type[2][2] <= c.type[2][1]
      BY <1>1, <2>7, <3>1 DEF Declared
    <3> DEFINE v == c.type[2]
    <3>4. /\ v[1] \in 1..1000 /\ 0 <= v[2] /\ v[2] <= v[1]
      <4>1. v[1] \in 1..1000
        BY <3>2
      <4>2. 0 <= v[2] /\ v[2] <= v[1]
        BY <3>3
      <4> QED
        BY <4>1, <4>2
    <3> HIDE DEF v
    <3>5. 1 <= v[1] /\ v[1] <= 1000
      <4> DEFINE x == v[1]
      <4>1. x \in 1..1000
        BY <3>4
      <4> HIDE DEF x
      <4>2. 1 <= x /\ x <= 1000
        BY ONLY <4>1
      <4> QED
        BY <4>2 DEF x
    <3>6. m = v
      BY <3>1 DEF v
    <3> HIDE DEF m
    <3> QED
      BY ONLY <3>4, <3>5, <3>6
  <2>8. ASSUME t = "varchar", m # <<>> PROVE m[1] >= 1
    <3>1. m = c.type[2]
      BY <2>4, <2>5, <2>8
    <3> QED
      BY <2>8, <3>1 DEF IsPhysical
  <2>9. _render_type(c)[1] = Classes[t] /\ _render_type(c)[2] = m
    BY <1>1
  <2> HIDE DEF m, t
  <2> QED
    BY <2>2, <2>3, <2>7, <2>8, <2>9 DEF _declared_type_family
<1> QED
  BY <1>1, <1>2, <1>3, <1>4

\* A column recreated from its declaration is printed as before.
LEMMA RenderedAgain ==
    ASSUME NEW c \in PhysicalColumns, IsPhysical(c), _render_type(c) # Undeclared,
           NEW name, NEW not_null
    PROVE  _render_type(PhysicalColumn(name, PostgreSQLType(_render_type(c)), not_null))
             = _render_type(c)
<1> DEFINE again == PhysicalColumn(name, Plain(c.type), not_null)
<1>1. /\ c.type[1] \in DOMAIN Classes /\ Declared(c.type[1], c.type[2])
      /\ _render_type(c) = <<Classes[c.type[1]], Plain(c.type)[2]>>
      /\ PostgreSQLType(_render_type(c)) = Plain(c.type)
  BY RenderedType
<1>2. /\ again.type = Plain(c.type) /\ again.type_kind = "b"
      /\ ~again.collated /\ ~again.identity /\ ~again.generated
  BY DEF PhysicalColumn
<1>3. Plain(c.type)[1] = c.type[1]
  BY DEF Plain
<1>4. c.type[1] \in Times => Plain(c.type)[2] = <<>>
  BY DEF Plain
<1>5. c.type[1] \notin Times => Plain(c.type)[2] = c.type[2]
  BY DEF Plain
<1>6. Declared(c.type[1], Plain(c.type)[2])
  BY <1>1, <1>4, <1>5 DEF Declared, Times
<1> HIDE DEF again
<1>7. _render_type(again) = <<Classes[c.type[1]],
                              IF c.type[1] \in Times THEN <<>> ELSE Plain(c.type)[2]>>
  BY <1>1, <1>2, <1>3, <1>6 DEF _render_type
<1> QED
  BY <1>1, <1>4, <1>7 DEF again

-----------------------------------------------------------------------------
(* Code that is printed of a table, and the staging table made of it. *)

\* Columns whose declaration says what they are.
Printable(kept) ==
    /\ kept \in Seq(PhysicalColumns) /\ Distinct(kept)
    /\ \A i \in 1..Len(kept) :
         IsPhysical(kept[i]) /\ kept[i].published /\ _render_type(kept[i]) # Undeclared

Code(kept) ==
    [i \in 1..Len(kept) |-> OutputColumn(kept[i].name, _render_type(kept[i]), ~kept[i].not_null)]

\* A column made of its declaration, and the framework's.
Remade(column) == PhysicalColumn(column.name, Plain(column.type), column.not_null)

UpdatedColumn == PhysicalColumn(Updated, <<"timestamptz", <<>>>>, TRUE)

\* What is printed, and of what.
LEMMA PrintedCode ==
    ASSUME NEW d \in Inspected, generate(d, d.excluded) # Undeclared
    PROVE  LET kept == Without(d.columns, d.excluded)
           IN /\ d.excluded \subseteq {d.columns[i].name : i \in 1..Len(d.columns)}
              /\ Printable(kept)
              /\ LeftOf(kept, d.columns, d.excluded, Len(d.columns))
              /\ generate(d, d.excluded) = Code(kept)
<1> DEFINE columns == d.columns
           excluded == d.excluded
           kept == Without(columns, excluded)
<1>1. /\ columns \in Seq(PhysicalColumns)
      /\ \A i \in 1..Len(columns) : IsPhysical(columns[i])
      /\ \A i, j \in 1..Len(columns) : columns[i].name = columns[j].name => i = j
  <2>1. columns \in Seq(PhysicalColumns)
    BY InspectedAssumption
  <2>2. DOMAIN columns = 1..Len(columns)
    BY <2>1, LenProperties
  <2>3. /\ \A i \in DOMAIN columns : IsPhysical(columns[i])
        /\ \A i, j \in DOMAIN columns : columns[i].name = columns[j].name => i = j
    BY InspectedAssumption
  <2> HIDE DEF columns
  <2> QED
    BY <2>1, <2>2, <2>3
<1>2. Distinct(columns) /\ DOMAIN columns = 1..Len(columns)
  <2> HIDE DEF columns
  <2> QED
    BY <1>1, LenProperties DEF Distinct
<1>3. /\ kept \in Seq(PhysicalColumns) /\ Distinct(kept)
      /\ LeftOf(kept, columns, excluded, Len(columns))
  <2> HIDE DEF columns, excluded
  <2> QED
    BY <1>1, <1>2, WithoutFacts
<1>4. DOMAIN kept = 1..Len(kept)
  <2> HIDE DEF kept
  <2> QED
    BY <1>3, LenProperties
<1>5. convert_columns(columns, excluded) # Undeclared
      /\ generate(d, excluded) = convert_columns(columns, excluded)
  BY DEF generate
<1>6. /\ excluded \subseteq {columns[i].name : i \in DOMAIN columns}
      /\ \A i \in DOMAIN kept : kept[i].published /\ _render_type(kept[i]) # Undeclared
      /\ convert_columns(columns, excluded)
           = [i \in DOMAIN kept |->
                OutputColumn(kept[i].name, _render_type(kept[i]), ~kept[i].not_null)]
  <2> HIDE DEF columns, excluded
  <2> QED
    BY <1>5 DEF convert_columns
<1>7. ASSUME NEW i \in 1..Len(kept) PROVE IsPhysical(kept[i])
  <2>1. PICK j \in 1..Len(columns) : kept[i] = columns[j]
    <3> HIDE DEF kept, columns, excluded
    <3> QED
      BY <1>3 DEF LeftOf
  <2> HIDE DEF kept, columns
  <2> QED
    BY <1>1, <2>1
<1> HIDE DEF kept, columns, excluded
<1>8. Printable(kept)
  BY <1>3, <1>4, <1>6, <1>7 DEF Printable
<1>9. convert_columns(columns, excluded) = Code(kept)
  BY <1>4, <1>6 DEF Code
<1>10. excluded \subseteq {columns[i].name : i \in 1..Len(columns)}
  BY <1>2, <1>6
<1>11. generate(d, excluded) = Code(kept)
  BY <1>5, <1>9
<1> QED
  BY <1>3, <1>8, <1>10, <1>11 DEF kept, columns, excluded

\* A column of the code.
LEMMA CodeColumn ==
    ASSUME NEW kept, Printable(kept), NEW i \in 1..Len(kept)
    PROVE  /\ kept[i] \in PhysicalColumns /\ IsPhysical(kept[i]) /\ kept[i].published
           /\ _render_type(kept[i]) # Undeclared
           /\ Code(kept)[i].name = kept[i].name
           /\ Code(kept)[i].type = _render_type(kept[i])
           /\ Code(kept)[i].nullable = ~kept[i].not_null
           /\ (~Code(kept)[i].nullable) = kept[i].not_null
<1>1. kept[i] \in PhysicalColumns
  <2>1. kept \in Seq(PhysicalColumns)
    BY DEF Printable
  <2> QED
    BY <2>1, ElementOfSeq
<1>2. Code(kept)[i] = OutputColumn(kept[i].name, _render_type(kept[i]), ~kept[i].not_null)
  BY DEF Code
<1>3. kept[i].not_null \in BOOLEAN
  BY <1>1 DEF PhysicalColumns
<1>4. /\ Code(kept)[i].name = kept[i].name
      /\ Code(kept)[i].type = _render_type(kept[i])
      /\ Code(kept)[i].nullable = ~kept[i].not_null
  BY <1>2 DEF OutputColumn
<1>5. (~Code(kept)[i].nullable) = kept[i].not_null
  <2> DEFINE b == kept[i].not_null
             n == Code(kept)[i].nullable
  <2>1. b \in BOOLEAN /\ n = ~b
    BY <1>3, <1>4
  <2> HIDE DEF b, n
  <2>2. (~n) = b
    BY <2>1
  <2> QED
    BY <2>2 DEF b, n
<1> QED
  BY <1>1, <1>4, <1>5 DEF Printable

\* The staging table has the columns of the code and the framework's.
LEMMA StagingTable ==
    ASSUME NEW kept, Printable(kept), NEW framework \in {{}, {Updated}}
    PROVE  LET staging == _build_table(Code(kept), framework)
               M == Len(kept)
           IN /\ M \in Nat
              /\ \E S : staging \in Seq(S)
              /\ Len(staging) = M + (IF framework = {} THEN 0 ELSE 1)
              /\ \A i \in 1..M : staging[i] = Remade(kept[i])
              /\ framework # {} => staging[M + 1] = UpdatedColumn
<1> DEFINE schema == Code(kept)
           M == Len(kept)
           F == IF framework = {} THEN 0 ELSE 1
           made == [i \in 1..M |-> Remade(kept[i])]
           last == [i \in 1..F |-> UpdatedColumn]
           S == {Remade(kept[i]) : i \in 1..M} \cup {UpdatedColumn}
           staging == _build_table(schema, framework)
<1>1. M \in Nat /\ F \in Nat /\ DOMAIN schema = 1..M
  BY LenProperties DEF Printable, Code
<1>2. ASSUME NEW i \in 1..M
      PROVE  PhysicalColumn(schema[i].name, PostgreSQLType(schema[i].type), ~schema[i].nullable)
               = Remade(kept[i])
  <2>1. /\ schema[i].name = kept[i].name /\ schema[i].type = _render_type(kept[i])
        /\ (~schema[i].nullable) = kept[i].not_null
        /\ PostgreSQLType(_render_type(kept[i])) = Plain(kept[i].type)
    BY CodeColumn, RenderedType
  <2> HIDE DEF schema
  <2>2. PostgreSQLType(schema[i].type) = Plain(kept[i].type)
    BY <2>1
  <2> QED
    BY <2>1, <2>2 DEF Remade
<1>3. (CHOOSE name \in {Updated} : TRUE) = Updated
  OBVIOUS
<1>4. staging = made \o last
  <2>1. [i \in DOMAIN schema |->
           PhysicalColumn(schema[i].name, PostgreSQLType(schema[i].type), ~schema[i].nullable)]
          = made
    <3> HIDE DEF schema, M
    <3> QED
      BY <1>1, <1>2
  <2>2. [i \in 1..F |-> PhysicalColumn(CHOOSE name \in framework : TRUE,
                                       <<"timestamptz", <<>>>>, TRUE)] = last
    <3>1. CASE framework = {}
      <4>1. 1..F = {}
        BY <3>1
      <4> HIDE DEF F
      <4> QED
        BY <4>1
    <3>2. CASE framework = {Updated}
      <4>1. (CHOOSE name \in framework : TRUE) = Updated
        BY <1>3, <3>2
      <4> HIDE DEF F
      <4> QED
        BY <4>1 DEF UpdatedColumn
    <3> QED
      BY <3>1, <3>2
  <2> HIDE DEF made, last, schema
  <2> QED
    BY <2>1, <2>2 DEF _build_table
<1>5. made \in Seq(S) /\ Len(made) = M /\ last \in Seq(S) /\ Len(last) = F
  <2>1. made \in [1..M -> S] /\ last \in [1..F -> S]
    OBVIOUS
  <2> HIDE DEF made, last, S, M, F
  <2> QED
    BY <1>1, <2>1
<1>6. /\ staging \in Seq(S) /\ Len(staging) = M + F
      /\ \A i \in 1..(M + F) : staging[i] = IF i <= M THEN made[i] ELSE last[i - M]
  <2> HIDE DEF made, last, S, M, F, staging
  <2> QED
    BY <1>1, <1>4, <1>5, ConcatProperties
<1>7. ASSUME NEW i \in 1..M PROVE staging[i] = Remade(kept[i])
  <2>1. i \in 1..(M + F) /\ i <= M
    <3> HIDE DEF M, F
    <3> QED
      BY <1>1
  <2>2. made[i] = Remade(kept[i])
    OBVIOUS
  <2> HIDE DEF made, last, M, F, staging
  <2> QED
    BY <1>6, <2>1, <2>2
<1>8. ASSUME framework # {} PROVE staging[M + 1] = UpdatedColumn
  <2>1. F = 1
    BY <1>8
  <2>2. last[1] = UpdatedColumn
    BY <2>1
  <2> HIDE DEF made, last, M, F, staging
  <2>3. M + 1 \in 1..(M + F) /\ ~(M + 1 <= M) /\ (M + 1) - M = 1
    BY <1>1, <2>1
  <2> QED
    BY <1>6, <2>2, <2>3
<1>9. \E T : staging \in Seq(T)
  <2> HIDE DEF staging, S
  <2> QED
    BY <1>6
<1> HIDE DEF staging
<1> QED
  BY <1>1, <1>6, <1>7, <1>8, <1>9 DEF staging

\* A declaration that leaves out the framework's column is accepted, and only that one.
LEMMA CodeIsDeclarable ==
    ASSUME NEW kept, Printable(kept), NEW framework
    PROVE  Declarable(Code(kept), framework) <=>
             \A i \in 1..Len(kept) : kept[i].name \notin framework
<1> DEFINE schema == Code(kept)
           M == Len(kept)
<1>1. DOMAIN schema = 1..M
  BY DEF Code
<1>2. \A i \in 1..M : schema[i].name = kept[i].name /\ schema[i].type = _render_type(kept[i])
  BY CodeColumn
<1>3. \A i, j \in 1..M : kept[i].name = kept[j].name => i = j
  BY DEF Printable, Distinct
<1>4. ASSUME NEW i \in 1..M PROVE _declared_type_family(_render_type(kept[i]))
  BY CodeColumn, RenderedType
<1> HIDE DEF schema, M
<1>5. \A i \in 1..M : _declared_type_family(schema[i].type)
  BY <1>2, <1>4
<1>6. \A i, j \in 1..M : schema[i].name = schema[j].name => i = j
  BY <1>2, <1>3
<1>7. (\A i \in 1..M : schema[i].name \notin framework)
        <=> \A i \in 1..M : kept[i].name \notin framework
  BY <1>2
<1>8. Declarable(schema, framework) <=> \A i \in 1..M : kept[i].name \notin framework
  BY <1>1, <1>5, <1>6, <1>7 DEF Declarable
<1> QED
  BY <1>8 DEF schema, M

\* A column that is made of its declaration is printed as before, and is published.
LEMMA RemadeColumn ==
    ASSUME NEW kept, Printable(kept), NEW i \in 1..Len(kept)
    PROVE  LET c == Remade(kept[i])
           IN /\ c.name = kept[i].name /\ c.not_null = kept[i].not_null /\ c.published
              /\ ~c.default
              /\ c.type = Plain(kept[i].type)
              /\ _render_type(c) = _render_type(kept[i])
<1>1. /\ kept[i] \in PhysicalColumns /\ IsPhysical(kept[i])
      /\ _render_type(kept[i]) # Undeclared
  BY CodeColumn
<1>2. PostgreSQLType(_render_type(kept[i])) = Plain(kept[i].type)
  BY <1>1, RenderedType
<1>3. _render_type(PhysicalColumn(kept[i].name, PostgreSQLType(_render_type(kept[i])),
                                  kept[i].not_null)) = _render_type(kept[i])
  BY <1>1, RenderedAgain
<1>4. _render_type(Remade(kept[i])) = _render_type(kept[i])
  BY <1>2, <1>3 DEF Remade
<1>5. LET c == Remade(kept[i])
      IN /\ c.name = kept[i].name /\ c.not_null = kept[i].not_null /\ c.published
         /\ ~c.default /\ c.type = Plain(kept[i].type)
  BY DEF Remade, PhysicalColumn
<1> QED
  BY <1>4, <1>5

\* A table recreated from the code prints the same code.
LEMMA RecreatedPrintsTheSame ==
    ASSUME NEW kept, Printable(kept), NEW framework \in {{}, {Updated}},
           \A i \in 1..Len(kept) : kept[i].name \notin framework,
           NEW relation, relation.kind = "r",
           relation.columns = _build_table(Code(kept), framework)
    PROVE  generate(relation, framework) = Code(kept)
<1> DEFINE staging == _build_table(Code(kept), framework)
           M == Len(kept)
           F == IF framework = {} THEN 0 ELSE 1
           again == Without(staging, framework)
<1>1. PICK S : staging \in Seq(S)
  BY StagingTable
<1>2. /\ M \in Nat /\ F \in Nat /\ Len(staging) = M + F
      /\ \A i \in 1..M : staging[i] = Remade(kept[i])
      /\ framework # {} => staging[M + 1] = UpdatedColumn
  BY StagingTable
<1>3. framework # {} => F = 1 /\ framework = {Updated}
  OBVIOUS
<1>4. framework = {} => F = 0
  OBVIOUS
<1>5. UpdatedColumn.name = Updated
  BY DEF UpdatedColumn, PhysicalColumn
<1>6. \A i \in 1..M : /\ staging[i].name = kept[i].name /\ staging[i].published
                      /\ staging[i].not_null = kept[i].not_null
                      /\ _render_type(staging[i]) = _render_type(kept[i])
  BY <1>2, RemadeColumn
<1> HIDE DEF staging, M, F
<1>7. \A i \in 1..M : staging[i].name \notin framework
  BY <1>6 DEF M
<1>8. \A i \in (M + 1)..Len(staging) : staging[i].name \in framework
  <2> SUFFICES ASSUME NEW i \in (M + 1)..Len(staging) PROVE staging[i].name \in framework
    OBVIOUS
  <2>1. framework # {}
    BY <1>2, <1>4
  <2>2. i = M + 1
    BY <1>2, <1>3, <2>1
  <2> QED
    BY <1>2, <1>3, <1>5, <2>1, <2>2
<1>9. M \in 0..Len(staging)
  BY <1>2
<1>10. Len(again) = M /\ \A i \in 1..M : again[i] = staging[i]
  BY <1>1, <1>7, <1>8, <1>9, WithoutLast
<1>11. DOMAIN again = 1..M /\ DOMAIN staging = 1..(M + F)
  <2>1. again \in Seq(S)
    BY <1>1, WithoutFacts
  <2> HIDE DEF again
  <2> QED
    BY <1>1, <1>2, <1>10, <2>1, LenProperties
<1>12. framework \subseteq {staging[i].name : i \in DOMAIN staging}
  <2> SUFFICES ASSUME framework # {} PROVE \E i \in DOMAIN staging : staging[i].name = Updated
    BY <1>3
  <2>1. M + 1 \in 1..(M + F)
    BY <1>2, <1>3
  <2> QED
    BY <1>2, <1>5, <1>11, <2>1
<1> HIDE DEF again
<1>13. \A i \in 1..M : _render_type(kept[i]) # Undeclared
  BY CodeColumn DEF M
<1>14. \A i \in DOMAIN again : again[i].published /\ _render_type(again[i]) # Undeclared
  BY <1>6, <1>10, <1>11, <1>13
<1>15. convert_columns(staging, framework)
         = [i \in DOMAIN again |->
              OutputColumn(again[i].name, _render_type(again[i]), ~again[i].not_null)]
  BY <1>12, <1>14 DEF convert_columns, again
<1>16. ASSUME NEW i \in 1..M
       PROVE  OutputColumn(again[i].name, _render_type(again[i]), ~again[i].not_null)
                = OutputColumn(kept[i].name, _render_type(kept[i]), ~kept[i].not_null)
  <2>1. again[i] = staging[i]
    BY <1>10
  <2>2. /\ again[i].name = kept[i].name /\ again[i].not_null = kept[i].not_null
        /\ _render_type(again[i]) = _render_type(kept[i])
    BY <1>6, <2>1
  <2> QED
    BY <2>2
<1>17. convert_columns(staging, framework) = Code(kept)
  <2>1. convert_columns(staging, framework)
          = [i \in 1..M |-> OutputColumn(kept[i].name, _render_type(kept[i]), ~kept[i].not_null)]
    BY <1>11, <1>15, <1>16
  <2> QED
    BY <2>1 DEF Code, M
<1>18. generate(relation, framework) = convert_columns(staging, framework)
  BY DEF generate, staging
<1> QED
  BY <1>17, <1>18

\* A column that has nothing a declaration leaves out is remade as it is.
LEMMA RemadeAsItIs ==
    ASSUME NEW kept, Printable(kept), NEW i \in 1..Len(kept),
           ~kept[i].default, kept[i].type[1] \in Times => kept[i].type[2] # << 6 >>
    PROVE  Remade(kept[i]) = kept[i]
<1> DEFINE c == kept[i]
<1>1. /\ c \in PhysicalColumns /\ IsPhysical(c) /\ c.published /\ _render_type(c) # Undeclared
  BY CodeColumn
<1>2. ~c.default /\ (c.type[1] \in Times => c.type[2] # <<6>>)
  OBVIOUS
<1> HIDE DEF c
<1>3. /\ c.type_kind = "b" /\ ~c.collated /\ ~c.identity /\ ~c.generated
      /\ Declared(c.type[1], c.type[2])
  BY <1>1, RenderedType
<1>4. c.type[1] \in Times => c.type[2] = <<>>
  BY <1>2, <1>3 DEF Declared
<1>5. c.type = <<c.type[1], c.type[2]>>
  BY <1>1 DEF PhysicalColumns
<1>6. Plain(c.type) = c.type
  <2>1. (IF c.type[1] \in Times THEN <<>> ELSE c.type[2]) = c.type[2]
    BY <1>4
  <2> QED
    BY <1>5, <2>1 DEF Plain
<1>7. /\ c.published = TRUE /\ c.collated = FALSE /\ c.identity = FALSE
      /\ c.generated = FALSE /\ c.default = FALSE
  BY <1>1, <1>2, <1>3 DEF PhysicalColumns
<1>8. c = [name |-> c.name, published |-> c.published, type |-> c.type, type_kind |-> c.type_kind,
           not_null |-> c.not_null, collated |-> c.collated, identity |-> c.identity,
           generated |-> c.generated, default |-> c.default]
  BY <1>1 DEF PhysicalColumns
<1>9. Remade(c) = c
  BY <1>3, <1>6, <1>7, <1>8 DEF Remade, PhysicalColumn
<1> QED
  BY <1>9 DEF c

\* What must be the case for the generated code to say all about the columns of a table.
SaysAll(d) ==
    LET columns == d.columns
        last    == columns[Len(columns)]
    IN /\ d.excluded = d.framework
       /\ \A i \in DOMAIN columns :
            /\ ~columns[i].default
            /\ columns[i].type[1] \in Times => columns[i].type[2] # <<6>>
       /\ d.framework # {} =>
            last = PhysicalColumn(last.name, <<"timestamptz", <<>>>>, TRUE)
              /\ last.name \in d.framework

\* The staging table then has the columns of the table, and only then.
LEMMA WhatRefills ==
    ASSUME NEW d \in Inspected, generate(d, d.excluded) # Undeclared,
           Declarable(generate(d, d.excluded), d.framework)
    PROVE  d.columns = _build_table(generate(d, d.excluded), d.framework) <=> SaysAll(d)
<1> DEFINE columns == d.columns
           excluded == d.excluded
           framework == d.framework
           kept == Without(columns, excluded)
           staging == _build_table(Code(kept), framework)
           N == Len(columns)
           M == Len(kept)
           F == IF framework = {} THEN 0 ELSE 1
           last == columns[N]
           Unremarkable ==
             \A i \in 1..N : /\ ~columns[i].default
                             /\ columns[i].type[1] \in Times => columns[i].type[2] # <<6>>
           AtItsEnd == framework # {} =>
                         last = PhysicalColumn(last.name, <<"timestamptz", <<>>>>, TRUE)
                           /\ last.name \in framework
<1>1. /\ excluded \subseteq {columns[i].name : i \in 1..N}
      /\ Printable(kept) /\ LeftOf(kept, columns, excluded, N)
      /\ generate(d, excluded) = Code(kept)
  BY PrintedCode
<1>2. /\ framework \in {{}, {Updated}} /\ columns \in Seq(PhysicalColumns) /\ columns # <<>>
  BY InspectedAssumption
<1>3. \A i, j \in 1..N : columns[i].name = columns[j].name => i = j
  <2>1. DOMAIN columns = 1..N
    BY <1>2, LenProperties
  <2>2. \A i, j \in DOMAIN columns : columns[i].name = columns[j].name => i = j
    BY InspectedAssumption
  <2> HIDE DEF columns, N
  <2> QED
    BY <2>1, <2>2
<1>4. Declarable(Code(kept), framework)
  BY <1>1
<1> HIDE DEF columns, excluded, framework
<1>5. \A i \in 1..M : kept[i].name \notin framework
  <2> HIDE DEF kept
  <2> QED
    BY <1>1, <1>4, CodeIsDeclarable
<1>6. /\ M \in Nat /\ F \in Nat /\ Len(staging) = M + F
      /\ \A i \in 1..M : staging[i] = Remade(kept[i])
      /\ framework # {} => staging[M + 1] = UpdatedColumn
      /\ \E S : staging \in Seq(S)
  <2> HIDE DEF kept
  <2> QED
    BY <1>1, <1>2, StagingTable
<1>7. /\ \A i \in 1..M : kept[i].name \notin excluded /\ \E j \in 1..N : kept[i] = columns[j]
      /\ \A j \in 1..N : columns[j].name \notin excluded => \E i \in 1..M : kept[i] = columns[j]
  BY <1>1 DEF LeftOf
<1>8. N \in Nat /\ N >= 1 /\ DOMAIN columns = 1..N
  BY <1>2, LenProperties, EmptySeq
<1>9. /\ framework # {} => F = 1 /\ framework = {Updated}
      /\ framework = {} => F = 0
  BY <1>2
<1>10. /\ UpdatedColumn.name = Updated /\ ~UpdatedColumn.default
       /\ UpdatedColumn.type = <<"timestamptz", <<>>>>
  BY DEF UpdatedColumn, PhysicalColumn
<1>11. \A i \in 1..M : LET c == Remade(kept[i])
                       IN c.name = kept[i].name /\ ~c.default /\ c.type = Plain(kept[i].type)
  <2> HIDE DEF kept
  <2> QED
    BY <1>1, RemadeColumn
<1>12. \A type : Plain(type)[1] \in Times => Plain(type)[2] # <<6>>
  <2> SUFFICES ASSUME NEW type, Plain(type)[1] \in Times PROVE Plain(type)[2] # <<6>>
    OBVIOUS
  <2>1. Plain(type)[2] = <<>>
    BY DEF Plain
  <2> QED
    BY <2>1
<1> HIDE DEF kept, staging, M, N, F
<1>13. ASSUME columns = staging PROVE excluded = framework /\ Unremarkable /\ AtItsEnd
  <2>1. N = M + F
    BY <1>6, <1>13 DEF N
  <2>2. \A i \in 1..M : columns[i] = Remade(kept[i])
    BY <1>6, <1>13
  <2>3. framework # {} => columns[N] = UpdatedColumn /\ N = M + 1
    BY <1>6, <1>9, <1>13, <2>1
  <2>4. \A i \in 1..N : i \notin 1..M => framework # {} /\ i = N
    BY <1>6, <1>8, <1>9, <2>1
  <2>5. excluded \subseteq framework
    <3> SUFFICES ASSUME NEW x \in excluded PROVE x \in framework
      OBVIOUS
    <3>1. PICK i \in 1..N : x = columns[i].name
      BY <1>1
    <3>2. i \notin 1..M
      <4> SUFFICES ASSUME i \in 1..M PROVE FALSE
        OBVIOUS
      <4>1. columns[i].name = kept[i].name
        BY <1>11, <2>2
      <4> QED
        BY <1>7, <3>1, <4>1
    <3> QED
      BY <1>9, <1>10, <2>3, <2>4, <3>1, <3>2
  <2>6. framework \subseteq excluded
    <3> SUFFICES ASSUME framework # {}, Updated \notin excluded PROVE FALSE
      BY <1>9
    <3>1. N \in 1..N /\ columns[N].name = Updated
      BY <1>8, <1>10, <2>3
    <3>2. PICK i \in 1..M : kept[i] = columns[N]
      BY <1>7, <3>1
    <3> QED
      BY <1>5, <1>9, <3>1, <3>2
  <2>7. ASSUME NEW i \in 1..N
        PROVE  ~columns[i].default /\ (columns[i].type[1] \in Times => columns[i].type[2] # <<6>>)
    <3>1. CASE i \in 1..M
      <4>1. ~columns[i].default /\ columns[i].type = Plain(kept[i].type)
        BY <1>11, <2>2, <3>1
      <4> QED
        BY <1>12, <4>1
    <3>2. CASE i \notin 1..M
      <4>1. columns[i] = UpdatedColumn
        BY <2>3, <2>4, <3>2
      <4>2. <<"timestamptz", <<>>>>[2] # <<6>>
        OBVIOUS
      <4>3. ~columns[i].default /\ columns[i].type[2] # <<6>>
        BY <1>10, <4>1, <4>2
      <4> QED
        BY <4>3
    <3> QED
      BY <3>1, <3>2
  <2>8. ASSUME framework # {}
        PROVE  last = PhysicalColumn(last.name, <<"timestamptz", <<>>>>, TRUE)
                 /\ last.name \in framework
    <3>1. columns[N] = UpdatedColumn /\ columns[N].name = Updated
      BY <1>10, <2>3, <2>8
    <3>2. columns[N] = PhysicalColumn(columns[N].name, <<"timestamptz", <<>>>>, TRUE)
      BY <3>1 DEF UpdatedColumn
    <3> QED
      BY <1>9, <2>8, <3>1, <3>2
  <2> QED
    BY <2>5, <2>6, <2>7, <2>8
<1>14. ASSUME excluded = framework, Unremarkable, AtItsEnd PROVE columns = staging
  <2> DEFINE m == N - F
  <2>1. m \in 0..N /\ m \in Nat /\ N = m + F
    BY <1>6, <1>8, <1>9
  <2>2. framework # {} => /\ last = PhysicalColumn(last.name, <<"timestamptz", <<>>>>, TRUE)
                          /\ last.name = Updated
    BY <1>9, <1>14
  <2>2a. framework # {} => m = N - 1 /\ m \in Nat
    BY <1>8, <1>9
  <2>2b. framework = {} => m = N
    BY <1>8, <1>9
  <2> HIDE DEF m
  <2>3. \A i \in 1..m : columns[i].name \notin excluded
    <3> SUFFICES ASSUME NEW i \in 1..m, columns[i].name \in excluded PROVE FALSE
      OBVIOUS
    <3>1. framework # {} /\ columns[i].name = Updated
      BY <1>9, <1>14
    <3>2. i \in 1..N /\ N \in 1..N /\ i # N
      BY ONLY <1>8, <2>2a, <3>1
    <3> QED
      BY <1>3, <2>2, <3>1, <3>2
  <2>4. \A i \in (m + 1)..N : columns[i].name \in excluded
    <3> SUFFICES ASSUME NEW i \in (m + 1)..N PROVE columns[i].name \in excluded
      OBVIOUS
    <3>1. framework # {}
      BY ONLY <1>8, <2>2b, i \in (m + 1)..N
    <3>2. i = N
      BY ONLY <1>8, <2>2a, <3>1, i \in (m + 1)..N
    <3> QED
      BY <1>9, <1>14, <2>2, <3>1, <3>2
  <2>5. M = m /\ \A i \in 1..m : kept[i] = columns[i]
    BY <1>2, <2>1, <2>3, <2>4, WithoutLast DEF kept, M, N
  <2>6. ASSUME NEW i \in 1..m PROVE staging[i] = columns[i]
    <3>1. i \in 1..N /\ kept[i] = columns[i] /\ i \in 1..M
      BY <1>8, <2>1, <2>5
    <3>2. ~columns[i].default /\ (columns[i].type[1] \in Times => columns[i].type[2] # <<6>>)
      BY <1>14, <3>1
    <3>2a. ~kept[i].default /\ (kept[i].type[1] \in Times => kept[i].type[2] # <<6>>)
      BY ONLY <3>1, <3>2
    <3>3. Remade(kept[i]) = kept[i]
      BY <1>1, <3>1, <3>2a, RemadeAsItIs DEF M
    <3> QED
      BY <1>6, <3>1, <3>3
  <2>7. ASSUME NEW i \in 1..N, i \notin 1..m PROVE staging[i] = columns[i]
    <3>1. framework # {}
      BY ONLY <1>8, <2>2b, <2>7
    <3>2. i = N /\ i = m + 1
      BY ONLY <1>8, <2>2a, <2>7, <3>1
    <3>3. last = UpdatedColumn
      BY <2>2, <3>1 DEF UpdatedColumn
    <3> QED
      BY <1>6, <2>5, <3>1, <3>2, <3>3
  <2>8. Len(staging) = N /\ \A i \in 1..N : columns[i] = staging[i]
    BY <1>6, <2>1, <2>5, <2>6, <2>7
  <2>9. PICK S : staging \in Seq(S)
    BY <1>6
  <2>10. columns = [i \in 1..N |-> columns[i]]
    BY <1>2, LenProperties DEF N
  <2>11. staging = [i \in 1..N |-> staging[i]]
    BY <2>8, <2>9, LenProperties
  <2> QED
    BY <2>8, <2>10, <2>11
<1>15. columns = staging <=> excluded = framework /\ Unremarkable /\ AtItsEnd
  BY <1>13, <1>14
<1>16. _build_table(generate(d, excluded), framework) = staging
  BY <1>1 DEF staging
<1>17. excluded = framework /\ Unremarkable /\ AtItsEnd <=> SaysAll(d)
  BY <1>8 DEF SaysAll, columns, excluded, framework, N
<1> HIDE DEF Unremarkable, AtItsEnd
<1> QED
  BY <1>15, <1>16, <1>17 DEF columns, excluded, framework

\* What GeneratedSchemaFits says of a table and the schema that was generated from it.
FitsIts(d, schema) ==
    LET staging == _build_table(schema, d.framework)
    IN /\ Declarable(schema, d.framework) <=>
            d.framework \cap {schema[i].name : i \in DOMAIN schema} = {}
       /\ Declarable(schema, d.framework) =>
            /\ generate([d EXCEPT !.kind = "r", !.columns = staging], d.framework) = schema
            /\ _verify_declared_target_compatibility(d, staging) <=>
                 d.kind = "r" /\ ~d.incoming /\ SaysAll(d)

\* It is so of every table.
LEMMA SchemaFits == Described => GeneratedSchemaFits
<1> SUFFICES ASSUME Described, payload.mode = "schema",
                    generate(payload, payload.excluded) # Undeclared
             PROVE  FitsIts(payload, generate(payload, payload.excluded))
  BY DEF GeneratedSchemaFits, FitsIts, SaysAll
<1> DEFINE schema    == generate(payload, payload.excluded)
           framework == payload.framework
           columns   == payload.columns
           kept      == Without(columns, payload.excluded)
           staging   == _build_table(schema, framework)
           recreated == [payload EXCEPT !.kind = "r", !.columns = staging]
           printed   == {schema[i].name : i \in DOMAIN schema}
<1>1. payload \in Inspected
  <2>1. \A p \in Payloads : p.mode = "declared"
    BY LoadAssumption
  <2>2. \A p \in Stagings : p.mode = "staging"
    BY StagingAssumption
  <2>3. payload \in {Inferred, Framed} \cup Payloads \cup Stagings \cup Inspected
    BY DEF Described
  <2> QED
    BY ONLY <2>1, <2>2, <2>3, payload.mode = "schema" DEF Inferred, Framed
<1>2. /\ framework \in {{}, {Updated}}
      /\ payload \in [mode : {"schema"}, kind : STRING, incoming : BOOLEAN,
                      columns : Seq(PhysicalColumns), excluded : SUBSET STRING,
                      framework : {{}, {Updated}}]
  BY <1>1, InspectedAssumption
<1>3. Printable(kept) /\ schema = Code(kept)
  BY <1>1, PrintedCode
<1>4. recreated.kind = "r" /\ recreated.columns = staging
  BY <1>2
<1>5. Declarable(schema, framework) => (columns = staging <=> SaysAll(payload))
  BY <1>1, WhatRefills
<1> HIDE DEF kept, schema, framework, recreated, columns
<1>6. Declarable(schema, framework) <=> \A i \in 1..Len(kept) : kept[i].name \notin framework
  BY <1>3, CodeIsDeclarable
<1>7. DOMAIN schema = 1..Len(kept)
  BY <1>3 DEF Code
<1>8. \A i \in 1..Len(kept) : schema[i].name = kept[i].name
  BY <1>3, CodeColumn
<1>9. Declarable(schema, framework) <=> framework \cap printed = {}
  BY <1>6, <1>7, <1>8
<1>10. Declarable(schema, framework) => generate(recreated, framework) = schema
  BY <1>2, <1>3, <1>4, <1>6, RecreatedPrintsTheSame
<1>11. _verify_declared_target_compatibility(payload, staging) <=>
         payload.kind = "r" /\ columns = staging /\ ~payload.incoming
  BY DEF _verify_declared_target_compatibility, columns
<1>12. Declarable(schema, framework) =>
         (_verify_declared_target_compatibility(payload, staging) <=>
            payload.kind = "r" /\ ~payload.incoming /\ SaysAll(payload))
  BY <1>5, <1>11
<1> HIDE DEF staging, printed
<1> QED
  BY <1>9, <1>10, <1>12 DEF FitsIts, schema, framework, staging, recreated, printed

\* GeneratedSchemaFits: code that is printed of a table is accepted unless it declares the
\* framework's column; it prints itself again; and it refills the table exactly under the
\* conditions that are stated, whatever the columns, types and modifiers of the table.
THEOREM GeneratedSchemasFit == LoadSpec => []GeneratedSchemaFits
  BY DescriptionStays, SchemaFits, PTL

-----------------------------------------------------------------------------
(* A value: INSERT takes it if COPY writes it, but for a signaling NaN.    *)

\* The strings, with some that are named, which the provers do not find among them.
Symbols == STRING \cup {Updated, "\\", "TAB", "LF", "CR", "t", "n", "r", "N", "x", "ERROR"}

\* What a writer writes of a normalized value that its column takes.
Writes(w, column) ==
    IF Type(w) = "NoneType" THEN Null
    ELSE IF column.family = "text" THEN _escape_copytext_text(Holds(w))
    ELSE IF column.family = "bytes" THEN <<"\\", "\\", "x">> \o Rendered(w)
    ELSE Rendered(w)

\* Normalization yields null or something that can be written, and changes nothing twice.
LEMMA NormalizedIsHeld ==
    ASSUME NEW v, IsValue(v), NEW w, w = _normalize_value(v), Type(w) # "NoneType"
    PROVE  IsHeld(w) /\ IsWritable(w)
<1>1. \/ w = v \/ w = None
      \/ Type(v) = "Timestamp" /\ w = Value("datetime", Holds(v))
      \/ Type(v) = "numpy" /\ w = Holds(v)
  BY DEF _normalize_value, _NORMALIZATION_NOOP_TYPES
<1>2. Type(None) = "NoneType"
  BY DEF None, Value, Type
<1>3. CASE Type(v) = "Timestamp" /\ w = Value("datetime", Holds(v))
  <2>1. Type(w) = "datetime" /\ Holds(w) = Holds(v)
    BY <1>3 DEF Value, Type, Holds
  <2>2. IsWritable(w)
    BY <1>3, <2>1 DEF IsValue, IsHeld, IsWritable
  <2> QED
    BY <2>1, <2>2 DEF IsHeld, IsNumeral
<1> QED
  BY <1>1, <1>2, <1>3 DEF IsValue, IsHeld

\* What COPY accepts, and what a table then holds of it.
Accepts(v, column) == Signals(v, column) \/ Inserts(v, column)
Loads(v, column)   == IF Signals(v, column) THEN NullField ELSE Stored(v)

\* INSERT and COPY take the same values, and this is what COPY writes.
WritesWhatInserts(v, column) ==
    Field(v, column) =
        IF Inserts(v, column) THEN Writes(_normalize_value(v), column) ELSE Error

\* bool and date.
LEMMA ExactField ==
    ASSUME NEW v, NEW column, column.family \in {"bool", "date"}
    PROVE  WritesWhatInserts(v, column)
<1> DEFINE w == _normalize_value(v)
<1>1. Field(v, column) = write_exact(v, column)
  BY DEF Field
<1>2. Type(v) = column.family => w = v
  BY DEF _normalize_value, _NORMALIZATION_NOOP_TYPES, is_missing
<1>3. Inserts(v, column) = IF Type(w) = "NoneType" THEN column.nullable ELSE Type(w) = column.family
  BY DEF Inserts, _validate_declared_value_family
<1>4. write_exact(v, column) =
        IF Type(w) = "NoneType" THEN _write_declared_null(column)
        ELSE IF Type(w) = column.family THEN Rendered(w) ELSE Error
  BY <1>2 DEF write_exact, Otherwise
<1> HIDE DEF w
<1> QED
  BY <1>1, <1>3, <1>4 DEF Writes, WritesWhatInserts, _write_declared_null, w

\* smallint, integer, and bigint.
LEMMA IntegerField ==
    ASSUME NEW v, NEW column, column.family \in {"smallint", "integer", "bigint"}
    PROVE  WritesWhatInserts(v, column)
<1> DEFINE w == _normalize_value(v)
<1>1. Field(v, column) = write_integer(v, column)
  BY DEF Field
<1>2. Type(v) = "int" => w = v
  BY DEF _normalize_value, _NORMALIZATION_NOOP_TYPES, is_missing
<1>3. Inserts(v, column) = IF Type(w) = "NoneType" THEN column.nullable
                           ELSE Type(w) = "int" /\ InRange(Holds(w), column.family)
  BY DEF Inserts, _validate_declared_value_family
<1>4. write_integer(v, column) =
        IF Type(w) = "NoneType" THEN _write_declared_null(column)
        ELSE IF Type(w) = "int" /\ InRange(Holds(w), column.family) THEN Rendered(w) ELSE Error
  BY <1>2 DEF write_integer, Otherwise
<1> HIDE DEF w
<1> QED
  BY <1>1, <1>3, <1>4 DEF Writes, WritesWhatInserts, _write_declared_null, w

\* text.
LEMMA TextField ==
    ASSUME NEW v, NEW column, column.family = "text"
    PROVE  WritesWhatInserts(v, column)
<1> DEFINE w == _normalize_value(v)
<1>1. Field(v, column) = write_text(v, column)
  BY DEF Field
<1>2. Type(v) = "str" => w = v
  BY DEF _normalize_value, _NORMALIZATION_NOOP_TYPES, is_missing
<1>3. Inserts(v, column) = IF Type(w) = "NoneType" THEN column.nullable
                           ELSE Type(w) \in Strings /\ FitsText(w, column)
  BY DEF Inserts, _validate_declared_value_family
<1>4. write_text(v, column) =
        IF Type(w) = "NoneType" THEN _write_declared_null(column)
        ELSE IF Type(w) \in Strings /\ FitsText(w, column)
             THEN _escape_copytext_text(Holds(w)) ELSE Error
  BY <1>2 DEF write_text, Otherwise, Strings
<1> HIDE DEF w
<1> QED
  BY <1>1, <1>3, <1>4 DEF Writes, WritesWhatInserts, _write_declared_null, w

\* bytea.
LEMMA BytesField ==
    ASSUME NEW v, NEW column, column.family = "bytes"
    PROVE  WritesWhatInserts(v, column)
<1> DEFINE w == _normalize_value(v)
<1>1. Field(v, column) = write_bytes(v, column)
  BY DEF Field
<1>2. Type(v) \in BytesLike => w = v
  BY DEF _normalize_value, _NORMALIZATION_NOOP_TYPES, is_missing, BytesLike
<1>3. Inserts(v, column) = IF Type(w) = "NoneType" THEN column.nullable ELSE Type(w) \in BytesLike
  BY DEF Inserts, _validate_declared_value_family
<1>4. write_bytes(v, column) =
        IF Type(w) = "NoneType" THEN _write_declared_null(column)
        ELSE IF Type(w) \in BytesLike THEN <<"\\", "\\", "x">> \o Rendered(w) ELSE Error
  BY <1>2 DEF write_bytes, Otherwise, BytesLike
<1> HIDE DEF w
<1> QED
  BY <1>1, <1>3, <1>4 DEF Writes, WritesWhatInserts, _write_declared_null, w

\* timestamp and timestamptz.
LEMMA DatetimeField ==
    ASSUME NEW v, NEW column, column.family \in {"timestamp", "timestamptz"}
    PROVE  WritesWhatInserts(v, column)
<1> DEFINE w == _normalize_value(v)
<1>1. Field(v, column) = write_datetime(v, column)
  BY DEF Field
<1>2. Type(v) = "datetime" => w = v
  BY DEF _normalize_value, _NORMALIZATION_NOOP_TYPES, is_missing
<1>3. Inserts(v, column) = IF Type(w) = "NoneType" THEN column.nullable
                           ELSE Type(w) \in Datetimes /\ FitsZone(w, column)
  BY DEF Inserts, _validate_declared_value_family
<1>4. write_datetime(v, column) =
        IF Type(w) = "NoneType" THEN _write_declared_null(column)
        ELSE IF Type(w) \in Datetimes /\ FitsZone(w, column) THEN Rendered(w) ELSE Error
  BY <1>2 DEF write_datetime, Otherwise, Datetimes
<1> HIDE DEF w
<1> QED
  BY <1>1, <1>3, <1>4 DEF Writes, WritesWhatInserts, _write_declared_null, w

\* double precision: a NaN is null for both.
LEMMA FloatField ==
    ASSUME NEW v, NEW column, column.family = "float"
    PROVE  WritesWhatInserts(v, column)
<1> DEFINE w == _normalize_value(v)
<1>1. Field(v, column) = write_float(v, column)
  BY DEF Field
<1>2. /\ Type(v) = "float" /\ Holds(v) # "nan" => w = v
      /\ Type(v) = "float" /\ Holds(v) = "nan" => Type(w) = "NoneType"
  BY DEF _normalize_value, _NORMALIZATION_NOOP_TYPES, is_missing, None, Value, Type, Holds
<1>3. Inserts(v, column) = IF Type(w) = "NoneType" THEN column.nullable ELSE Type(w) = "float"
  BY DEF Inserts, _validate_declared_value_family
<1>4. write_float(v, column) =
        IF Type(w) = "NoneType" THEN _write_declared_null(column)
        ELSE IF Type(w) = "float" THEN Rendered(w) ELSE Error
  BY <1>2 DEF write_float, Otherwise
<1> HIDE DEF w
<1> QED
  BY <1>1, <1>3, <1>4 DEF Writes, WritesWhatInserts, _write_declared_null, w

\* numeric: a quiet NaN is null for both, and COPY takes a signaling one for null, too.
LEMMA NumericField ==
    ASSUME NEW v, NEW column, column.family = "numeric"
    PROVE  IF Signals(v, column) THEN Field(v, column) = Null /\ ~Inserts(v, column)
           ELSE WritesWhatInserts(v, column)
<1> DEFINE w == _normalize_value(v)
<1>1. Field(v, column) = write_numeric(v, column)
  BY DEF Field
<1>2. /\ Type(v) = "int" \/ (Type(v) = "Decimal" /\ ~is_missing(v)) => w = v
      /\ Type(v) = "Decimal" /\ is_missing(v) => Type(w) = "NoneType"
  BY DEF _normalize_value, _NORMALIZATION_NOOP_TYPES, is_missing, None, Value, Type, Holds
<1>3. Inserts(v, column) = IF Type(w) = "NoneType" THEN column.nullable
                           ELSE _validate_numeric_value(w, column)
  BY DEF Inserts, _validate_declared_value_family
<1>4. Type(v) = "Decimal" => (is_missing(v) <=> Holds(v).special = "nan")
  BY DEF is_missing
<1>5. CASE Type(v) = "Decimal" /\ Holds(v).special = "snan"
  <2>1. w = v /\ ~_validate_numeric_value(w, column) /\ Type(w) # "NoneType"
    BY <1>2, <1>4, <1>5 DEF _validate_numeric_value
  <2>2. write_numeric(v, column) = IF column.nullable THEN Null ELSE Error
    BY <1>5 DEF write_numeric, is_nan, _write_declared_null
  <2> HIDE DEF w
  <2> QED
    BY <1>1, <1>3, <1>5, <2>1, <2>2 DEF WritesWhatInserts, Signals
<1>6. CASE ~(Type(v) = "Decimal" /\ Holds(v).special = "snan")
  <2>1. Type(v) = "Decimal" => (is_nan(v) <=> is_missing(v))
    BY <1>4, <1>6 DEF is_nan
  <2>2. write_numeric(v, column) =
          IF Type(w) = "NoneType" THEN _write_declared_null(column)
          ELSE IF _validate_numeric_value(w, column) THEN Rendered(w) ELSE Error
    BY <1>2, <2>1 DEF write_numeric, Otherwise
  <2> HIDE DEF w
  <2>3. WritesWhatInserts(v, column)
    BY <1>1, <1>3, <2>2 DEF Writes, WritesWhatInserts, _write_declared_null, w
  <2>4. ~Signals(v, column)
    BY <1>6 DEF Signals
  <2> QED
    BY <2>3, <2>4
<1> QED
  BY <1>5, <1>6

\* Every column.
LEMMA FieldsAgree ==
    ASSUME NEW v, NEW column \in DeclaredColumns
    PROVE  IF Signals(v, column) THEN Field(v, column) = Null /\ ~Inserts(v, column)
           ELSE WritesWhatInserts(v, column)
<1>1. CASE column.family = "numeric"
  BY <1>1, NumericField
<1>2. CASE column.family # "numeric"
  <2>1. ~Signals(v, column)
    BY <1>2 DEF Signals
  <2>2. WritesWhatInserts(v, column)
    BY <1>2, ExactField, IntegerField, TextField, BytesField, DatetimeField, FloatField
       DEF DeclaredColumns, DeclaredFamilies
  <2> QED
    BY <2>1, <2>2
<1> QED
  BY <1>1, <1>2

-----------------------------------------------------------------------------
(* Both loaders accept the same projections of a source onto its table.    *)

\* A sequence and one more element.
LEMMA OneMore ==
    ASSUME NEW S, NEW s \in Seq(S), NEW x \in S
    PROVE  /\ s \o <<x>> \in Seq(S) /\ Len(s) \in Nat /\ Len(s \o <<x>>) = Len(s) + 1
           /\ DOMAIN s = 1..Len(s) /\ DOMAIN (s \o <<x>>) = 1..(Len(s) + 1)
           /\ (s \o <<x>>)[Len(s) + 1] = x
           /\ \A i \in 1..Len(s) : (s \o <<x>>)[i] = s[i]
<1>1. <<x>> \in Seq(S) /\ Len(<<x>>) = 1 /\ <<x>>[1] = x /\ Len(s) \in Nat
  OBVIOUS
<1>2. /\ s \o <<x>> \in Seq(S) /\ Len(s \o <<x>>) = Len(s) + 1
      /\ \A i \in 1..(Len(s) + 1) :
           (s \o <<x>>)[i] = IF i <= Len(s) THEN s[i] ELSE <<x>>[i - Len(s)]
  BY <1>1, ConcatProperties
<1> HIDE <1>1
<1>3. (s \o <<x>>)[Len(s) + 1] = x
  <2>1. Len(s) + 1 \in 1..(Len(s) + 1) /\ ~(Len(s) + 1 <= Len(s)) /\ (Len(s) + 1) - Len(s) = 1
    BY <1>1
  <2> QED
    BY <1>1, <1>2, <2>1
<1>4. \A i \in 1..Len(s) : (s \o <<x>>)[i] = s[i]
  BY <1>1, <1>2
<1>5. DOMAIN s = 1..Len(s) /\ DOMAIN (s \o <<x>>) = 1..(Len(s) + 1)
  BY <1>2, LenProperties
<1> QED
  BY <1>1, <1>2, <1>3, <1>4, <1>5

\* The names of pairs.
LEMMA NamesOfPairs ==
    ASSUME NEW T, NEW pairs \in Seq(STRING \X T)
    PROVE  /\ Names(pairs) \in Seq(STRING) /\ Len(Names(pairs)) = Len(pairs)
           /\ Len(pairs) \in Nat /\ DOMAIN pairs = 1..Len(pairs)
           /\ DOMAIN Names(pairs) = 1..Len(pairs)
           /\ \A i \in 1..Len(pairs) : Names(pairs)[i] = pairs[i][1]
<1>1. /\ Len(pairs) \in Nat /\ DOMAIN pairs = 1..Len(pairs)
      /\ \A i \in 1..Len(pairs) : pairs[i] \in STRING \X T
  BY LenProperties, ElementOfSeq
<1>2. \A i \in 1..Len(pairs) : pairs[i][1] \in STRING
  BY <1>1
<1>3. Names(pairs) = [i \in 1..Len(pairs) |-> pairs[i][1]]
  BY <1>1 DEF Names
<1>4. Names(pairs) \in [1..Len(pairs) -> STRING]
  BY <1>2, <1>3
<1>5. Names(pairs) \in Seq(STRING) /\ Len(Names(pairs)) = Len(pairs)
  BY <1>1, <1>4
<1> QED
  BY <1>1, <1>3, <1>5

\* Names are in no place twice, and one more is not among them.
LEMMA UniqueAppend ==
    ASSUME NEW S, NEW names \in Seq(S), NEW name \in S
    PROVE  Unique(names \o <<name>>) <=> Unique(names) /\ name \notin ToSet(names)
<1> DEFINE more == names \o <<name>>
           n == Len(names)
<1>1. /\ n \in Nat /\ DOMAIN names = 1..n /\ DOMAIN more = 1..(n + 1)
      /\ \A i \in 1..n : more[i] = names[i]
      /\ more[n + 1] = name
  <2> HIDE DEF more, n
  <2> QED
    BY OneMore DEF more, n
<1>2. ToSet(names) = {names[i] : i \in 1..n}
  BY <1>1 DEF ToSet
<1> HIDE DEF more
<1>3. ASSUME Unique(more) PROVE Unique(names) /\ name \notin ToSet(names)
  <2>1. Unique(names)
    <3> SUFFICES ASSUME NEW i \in 1..n, NEW j \in 1..n, names[i] = names[j] PROVE i = j
      BY <1>1 DEF Unique
    <3>1. i \in 1..(n + 1) /\ j \in 1..(n + 1) /\ more[i] = more[j]
      BY <1>1
    <3> QED
      BY <1>1, <1>3, <3>1 DEF Unique
  <2>2. ASSUME NEW i \in 1..n PROVE names[i] # name
    <3>1. i \in 1..(n + 1) /\ n + 1 \in 1..(n + 1) /\ i # n + 1
      BY <1>1
    <3> QED
      BY <1>1, <1>3, <3>1 DEF Unique
  <2> QED
    BY <1>2, <2>1, <2>2
<1>4. ASSUME Unique(names), name \notin ToSet(names) PROVE Unique(more)
  <2> SUFFICES ASSUME NEW i \in 1..(n + 1), NEW j \in 1..(n + 1), more[i] = more[j] PROVE i = j
    BY <1>1 DEF Unique
  <2>1. CASE i \in 1..n /\ j \in 1..n
    BY <1>1, <1>4, <2>1 DEF Unique
  <2>2. CASE i \in 1..n /\ j = n + 1
    BY <1>1, <1>2, <1>4, <2>2
  <2>3. CASE i = n + 1 /\ j \in 1..n
    BY <1>1, <1>2, <1>4, <2>3
  <2> QED
    BY <1>1, <2>1, <2>2, <2>3
<1> QED
  BY <1>3, <1>4 DEF more

\* The names are those before, and the one more.
LEMMA SetOfAppend ==
    ASSUME NEW S, NEW names \in Seq(S), NEW name \in S
    PROVE  ToSet(names \o <<name>>) = ToSet(names) \cup {name}
<1> DEFINE more == names \o <<name>>
           n == Len(names)
<1>1. /\ n \in Nat /\ DOMAIN names = 1..n /\ DOMAIN more = 1..(n + 1)
      /\ \A i \in 1..n : more[i] = names[i]
      /\ more[n + 1] = name
  <2> HIDE DEF more, n
  <2> QED
    BY OneMore DEF more, n
<1>2. ToSet(names) = {names[i] : i \in 1..n} /\ ToSet(more) = {more[i] : i \in 1..(n + 1)}
  BY <1>1 DEF ToSet
<1>3. 1..(n + 1) = (1..n) \cup {n + 1}
  BY <1>1
<1> HIDE DEF more
<1>4. ToSet(more) = {more[i] : i \in 1..n} \cup {more[n + 1]}
  BY <1>2, <1>3
<1>5. {more[i] : i \in 1..n} = {names[i] : i \in 1..n}
  BY <1>1
<1> QED
  BY <1>1, <1>2, <1>4, <1>5 DEF more

\* What a payload declares: names of its source, of its target and of its schema.
LEMMA PayloadTypes ==
    ASSUME NEW p \in Payloads
    PROVE  /\ p.columns \in Seq(STRING) /\ Len(p.columns) \in Nat
           /\ p.contract \in Seq(STRING \X STRING)
           /\ p.schema \in Seq(STRING \X DeclaredColumns) /\ Names(p.schema) \in Seq(STRING)
           /\ Len(Names(p.schema)) = Len(p.schema)
           /\ p.framework \in BOOLEAN
           /\ Names(FrameworkColumns(p)) = IF p.framework THEN <<Updated>> ELSE <<>>
<1>1. /\ p.columns \in Seq(STRING) /\ p.contract \in Seq(STRING \X STRING)
      /\ p.schema \in Seq(STRING \X DeclaredColumns) /\ p.framework \in BOOLEAN
  BY LoadAssumption, ValueAssumption
<1>2. Names(p.schema) \in Seq(STRING) /\ Len(Names(p.schema)) = Len(p.schema)
  BY <1>1, NamesOfPairs
<1>3. Names(FrameworkColumns(p)) = IF p.framework THEN <<Updated>> ELSE <<>>
  BY DEF Names, FrameworkColumns
<1> QED
  BY <1>1, <1>2, <1>3

\* Target names, each with the index of a source column.
LEMMA ContractTypes ==
    ASSUME NEW p \in Payloads, Known(p)
    PROVE  /\ Contract(p) \in Seq(STRING \X (1..Len(p.columns)))
           /\ Names(Contract(p)) \in Seq(STRING)
           /\ Len(Names(Contract(p))) = Len(Contract(p))
           /\ DOMAIN Contract(p) = 1..Len(Contract(p)) /\ Len(Contract(p)) \in Nat
<1>1. Contract(p) \in Seq(STRING \X (1..Len(p.columns)))
  <2>1. CASE p.contract = <<>>
    <3>1. \A i \in 1..Len(p.columns) : p.columns[i] \in STRING
      BY PayloadTypes, ElementOfSeq
    <3>2. DOMAIN p.columns = 1..Len(p.columns) /\ Len(p.columns) \in Nat
      BY PayloadTypes, LenProperties
    <3>3. Contract(p) = [i \in 1..Len(p.columns) |-> <<p.columns[i], i>>]
      BY <2>1, <3>2 DEF Contract
    <3> QED
      BY <3>1, <3>2, <3>3
  <2>2. CASE p.contract # <<>>
    <3>1. ASSUME NEW i \in DOMAIN p.contract
          PROVE  IndexOf(p.columns, p.contract[i][1]) \in 1..Len(p.columns)
      <4>1. PICK j \in DOMAIN p.columns : p.columns[j] = p.contract[i][1]
        BY DEF Known
      <4>2. DOMAIN p.columns = 1..Len(p.columns)
        BY PayloadTypes
      <4> QED
        BY <4>1, <4>2 DEF IndexOf
    <3>2. \A i \in 1..Len(p.contract) : p.contract[i][2] \in STRING
      BY PayloadTypes
    <3>3. DOMAIN p.contract = 1..Len(p.contract) /\ Len(p.contract) \in Nat
      BY PayloadTypes
    <3>4. \A i \in 1..Len(p.contract) :
            <<p.contract[i][2], IndexOf(p.columns, p.contract[i][1])>>
              \in STRING \X (1..Len(p.columns))
      BY <3>1, <3>2, <3>3
    <3> QED
      BY <2>2, <3>3, <3>4 DEF Contract
  <2> QED
    BY <2>1, <2>2
<1> QED
  BY <1>1, NamesOfPairs

\* Both loaders accept the same projections.
Projects(p) ==
    /\ Unique(p.columns) /\ Known(p)
    /\ Unique(Names(Contract(p))) /\ Unique(Names(p.schema))
    /\ p.framework => Updated \notin ToSet(Names(p.schema))
    /\ ToSet(Names(Contract(p))) = ToSet(Names(p.schema))

\* Whether the framework adds its column or not.
LEMMA ProjectionsAgree ==
    ASSUME NEW p \in Payloads
    PROVE  CopyProjects(p) = Projects(p) /\ InsertProjects(p) = Projects(p)
<1> DEFINE names == Names(Contract(p))
           wanted == Names(p.schema)
           added == Names(FrameworkColumns(p))
<1>1. CASE ~(Unique(p.columns) /\ Known(p))
  BY <1>1 DEF CopyProjects, InsertProjects, Projects
<1>2. CASE Unique(p.columns) /\ Known(p)
  <2>1. /\ names \in Seq(Symbols) /\ wanted \in Seq(Symbols) /\ Updated \in Symbols
        /\ added = IF p.framework THEN <<Updated>> ELSE <<>>
    <3> HIDE DEF names, wanted, added
    <3>1. Updated \in Symbols /\ STRING \subseteq Symbols
      BY DEF Symbols
    <3>2. names \in Seq(STRING) /\ wanted \in Seq(STRING)
      BY <1>2, ContractTypes, PayloadTypes DEF names, wanted
    <3> QED
      BY <3>1, <3>2, PayloadTypes, SeqMonotonic DEF added
  <2>2. Unique(names) <=>
          \A i, j \in DOMAIN p.contract : p.contract[i][2] = p.contract[j][2] => i = j
    <3>1. CASE p.contract = <<>>
      <4>1. names = p.columns
        <5>1. p.columns \in Seq(STRING) /\ DOMAIN p.columns = 1..Len(p.columns)
          BY PayloadTypes, LenProperties
        <5>2. Contract(p) = [i \in 1..Len(p.columns) |-> <<p.columns[i], i>>]
          BY <3>1, <5>1 DEF Contract
        <5>3. names = [i \in 1..Len(p.columns) |-> p.columns[i]]
          BY <5>2 DEF Names
        <5> QED
          BY <5>1, <5>3
      <4> QED
        BY <1>2, <3>1, <4>1
    <3>2. CASE p.contract # <<>>
      BY <3>2 DEF Unique, Names, Contract
    <3> QED
      BY <3>1, <3>2
  <2>3. /\ {Contract(p)[i][1] : i \in DOMAIN Contract(p)} = ToSet(names)
        /\ {p.schema[i][1] : i \in DOMAIN p.schema} = ToSet(wanted)
    BY DEF Names, ToSet
  <2> HIDE DEF names, wanted, added
  <2>4. CASE p.framework
    <3>1. added = <<Updated>>
      BY <2>1, <2>4
    <3>2. /\ Unique(names \o added) <=> Unique(names) /\ Updated \notin ToSet(names)
          /\ Unique(wanted \o added) <=> Unique(wanted) /\ Updated \notin ToSet(wanted)
          /\ ToSet(names \o added) = ToSet(names) \cup {Updated}
          /\ ToSet(wanted \o added) = ToSet(wanted) \cup {Updated}
      BY <2>1, <3>1, UniqueAppend, SetOfAppend
    <3>3. CopyProjects(p) = Projects(p)
      <4>1. CopyProjects(p) = (/\ Unique(names) /\ Unique(names \o added)
                               /\ Unique(wanted \o added)
                               /\ ToSet(names \o added) = ToSet(wanted \o added))
        BY <1>2 DEF CopyProjects, names, wanted, added
      <4>2. Projects(p) = (/\ Unique(names) /\ Unique(wanted) /\ Updated \notin ToSet(wanted)
                           /\ ToSet(names) = ToSet(wanted))
        BY <1>2, <2>4 DEF Projects, names, wanted
      <4>3. Updated \notin ToSet(names) /\ Updated \notin ToSet(wanted) =>
              (ToSet(names) \cup {Updated} = ToSet(wanted) \cup {Updated}
                 <=> ToSet(names) = ToSet(wanted))
        OBVIOUS
      <4> QED
        BY <3>2, <4>1, <4>2, <4>3
    <3>4. InsertProjects(p) = Projects(p)
      BY <1>2, <2>2, <2>3, <2>4 DEF InsertProjects, Projects, names, wanted
    <3> QED
      BY <3>3, <3>4
  <2>5. CASE ~p.framework
    <3>1. names \o added = names /\ wanted \o added = wanted
      BY <2>1, <2>5
    <3>2. CopyProjects(p) = Projects(p)
      BY <1>2, <2>5, <3>1 DEF CopyProjects, Projects, names, wanted, added
    <3>3. InsertProjects(p) = Projects(p)
      BY <1>2, <2>2, <2>3, <2>5 DEF InsertProjects, Projects, names, wanted
    <3> QED
      BY <3>2, <3>3
  <2> QED
    BY <2>4, <2>5
<1> QED
  BY <1>1, <1>2

-----------------------------------------------------------------------------
(* They give every column of a row the same value.                         *)

Schema(p) == p.schema \o FrameworkColumns(p)

\* The schema of the staging table: what is declared, then the framework's column.
LEMMA SchemaTypes ==
    ASSUME NEW p \in Payloads
    PROVE  /\ Schema(p) \in Seq(Symbols \X DeclaredColumns)
           /\ Len(p.schema) \in Nat \ {0}
           /\ Len(Schema(p)) = Len(p.schema) + (IF p.framework THEN 1 ELSE 0)
           /\ DOMAIN Schema(p) = 1..Len(Schema(p))
           /\ \A i \in 1..Len(p.schema) : Schema(p)[i] = p.schema[i]
           /\ p.framework => Schema(p)[Len(p.schema) + 1][1] = Updated
<1> DEFINE T == Symbols \X DeclaredColumns
           last == <<Updated, Column("timestamptz", FALSE, 0, 0)>>
<1>1. p.schema \in Seq(T)
  <2>1. STRING \X DeclaredColumns \subseteq T
    BY DEF Symbols
  <2> QED
    BY <2>1, PayloadTypes, SeqMonotonic
<1>2. last \in T /\ last[1] = Updated
  <2>1. Column("timestamptz", FALSE, 0, 0) \in DeclaredColumns
    BY DEF Column, DeclaredColumns, DeclaredFamilies
  <2>2. Updated \in Symbols
    BY DEF Symbols
  <2> QED
    BY <2>1, <2>2
<1>3. Len(p.schema) \in Nat \ {0} /\ DOMAIN p.schema = 1..Len(p.schema)
  <2>1. p.schema # <<>>
    BY LoadAssumption
  <2> QED
    BY <1>1, <2>1, LenProperties, EmptySeq
<1> HIDE DEF T, last
<1>4. CASE p.framework
  <2>1. Schema(p) = p.schema \o <<last>>
    BY <1>4 DEF Schema, FrameworkColumns, last
  <2> QED
    BY <1>1, <1>2, <1>3, <1>4, <2>1, OneMore DEF T
<1>5. CASE ~p.framework
  <2>1. Schema(p) = p.schema
    BY <1>1, <1>5, ConcatEmptySeq DEF Schema, FrameworkColumns
  <2> QED
    BY <1>1, <1>3, <1>5, <2>1 DEF T
<1> QED
  BY <1>4, <1>5

\* A name that is unique is found where it is.
LEMMA FoundWhereItIs ==
    ASSUME NEW names, Unique(names), NEW i \in DOMAIN names
    PROVE  IndexOf(names, names[i]) = i
  BY DEF IndexOf, Unique

\* iter_rows() and from_petl() give every column of the table the same value.
LEMMA RowsAgree ==
    ASSUME NEW p \in Payloads, CopyProjects(p), NEW row \in Yields[p.source],
           NEW i \in 1..Len(Schema(p))
    PROVE  /\ CopyRow(p, row)[i] = InsertRow(p, row)[Schema(p)[i][1]]
           /\ IsValue(CopyRow(p, row)[i])
<1> DEFINE contract == Contract(p)
           names == Names(contract)
           n == Len(contract)
           added == Names(FrameworkColumns(p))
           output == names \o added
           name == Schema(p)[i][1]
           index == IndexOf(output, name)
<1>1. Projects(p)
  BY ProjectionsAgree
<1>2. /\ Known(p) /\ Unique(names) /\ ToSet(names) = ToSet(Names(p.schema))
      /\ p.framework => Updated \notin ToSet(Names(p.schema))
  BY <1>1 DEF Projects
<1>3. /\ contract \in Seq(STRING \X (1..Len(p.columns))) /\ n \in Nat
      /\ names \in Seq(STRING) /\ Len(names) = n /\ DOMAIN contract = 1..n /\ DOMAIN names = 1..n
      /\ \A k \in 1..n : names[k] = contract[k][1] /\ contract[k][2] \in 1..Len(p.columns)
  <2>1. contract \in Seq(STRING \X (1..Len(p.columns)))
    BY <1>2, ContractTypes
  <2>2. \A k \in 1..n : contract[k] \in STRING \X (1..Len(p.columns))
    BY <2>1, ElementOfSeq
  <2>3. \A k \in 1..n : contract[k][2] \in 1..Len(p.columns)
    BY <2>2
  <2> QED
    BY <2>1, <2>3, NamesOfPairs
<1>4. /\ DOMAIN output = 1..(n + (IF p.framework THEN 1 ELSE 0))
      /\ \A k \in 1..n : output[k] = names[k]
      /\ p.framework => output[n + 1] = Updated
      /\ Unique(output)
  <2>1. Unique(output)
    BY DEF CopyProjects
  <2>2. added = IF p.framework THEN <<Updated>> ELSE <<>>
    BY PayloadTypes
  <2>3. names \in Seq(Symbols) /\ Updated \in Symbols
    <3>1. STRING \subseteq Symbols /\ Updated \in Symbols
      BY DEF Symbols
    <3> QED
      BY <1>3, <3>1, SeqMonotonic
  <2> HIDE DEF names, added, n
  <2>4. CASE p.framework
    BY <1>3, <2>1, <2>2, <2>3, <2>4, OneMore
  <2>5. CASE ~p.framework
    <3>1. output = names
      BY <2>2, <2>3, <2>5, ConcatEmptySeq
    <3> QED
      BY <1>3, <2>1, <2>5, <3>1
  <2> QED
    BY <2>4, <2>5
<1>5. ASSUME NEW k \in DOMAIN output, output[k] = name
      PROVE  CopyRow(p, row)[i] = IF k > n THEN Stamp ELSE row[contract[k][2]]
  <2>1. IndexOf(output, name) = k
    BY <1>4, <1>5, FoundWhereItIs
  <2>2. i \in DOMAIN Schema(p)
    BY SchemaTypes
  <2> DEFINE projected == [j \in DOMAIN output |->
                             IF j > n THEN Stamp ELSE row[contract[j][2]]]
  <2>3. CopyRow(p, row)[i] = projected[IndexOf(output, name)]
    BY <2>2 DEF CopyRow, Schema
  <2> HIDE DEF output, name, n, contract
  <2> QED
    BY <1>5, <2>1, <2>3
<1>6. name \in ToSet(Names(p.schema)) \cup ToSet(added) =>
        InsertRow(p, row)[name] =
          IF p.framework /\ name = Updated THEN Stamp
          ELSE row[contract[CHOOSE k \in DOMAIN contract : contract[k][1] = name][2]]
  BY DEF InsertRow
<1>7. \A k \in 1..Len(p.columns) : IsValue(row[k])
  <2>1. DOMAIN row = DOMAIN p.columns /\ DOMAIN p.columns = 1..Len(p.columns)
    BY LoadAssumption, PayloadTypes
  <2> QED
    BY <2>1, ValueAssumption
<1>8. CASE i <= Len(p.schema)
  <2>1. name = Names(p.schema)[i] /\ i \in DOMAIN Names(p.schema)
    <3>1. /\ Len(p.schema) \in Nat /\ Len(Schema(p)) \in Nat
          /\ p.schema \in Seq(STRING \X DeclaredColumns)
      BY SchemaTypes, PayloadTypes
    <3>2. i \in 1..Len(p.schema)
      BY <1>8, <3>1
    <3>3. Schema(p)[i] = p.schema[i]
      BY <3>2, SchemaTypes
    <3>4. p.schema[i][1] = Names(p.schema)[i] /\ i \in DOMAIN Names(p.schema)
      BY <3>1, <3>2, NamesOfPairs
    <3> QED
      BY <3>3, <3>4
  <2>2. name \in ToSet(Names(p.schema))
    BY <2>1 DEF ToSet
  <2> HIDE DEF name
  <2>3. PICK k \in 1..n : names[k] = name
    BY <1>2, <1>3, <2>2 DEF ToSet
  <2>4. CopyRow(p, row)[i] = row[contract[k][2]]
    <3>1. k \in DOMAIN output /\ output[k] = name /\ ~(k > n)
      BY <1>3, <1>4, <2>3
    <3> HIDE DEF output, n, contract
    <3> QED
      BY <1>5, <3>1
  <2>5. (CHOOSE j \in DOMAIN contract : contract[j][1] = name) = k
    <3>1. \A j \in DOMAIN contract : contract[j][1] = name => j = k
      BY <1>2, <1>3, <2>3 DEF Unique
    <3>2. k \in DOMAIN contract /\ contract[k][1] = name
      BY <1>3, <2>3
    <3> QED
      BY <3>1, <3>2
  <2>6. InsertRow(p, row)[name] = row[contract[k][2]]
    BY <1>2, <1>6, <2>2, <2>5
  <2>7. IsValue(row[contract[k][2]])
    BY <1>3, <1>7
  <2> QED
    BY <2>4, <2>6, <2>7 DEF name
<1>9. CASE i = Len(p.schema) + 1 /\ p.framework
  <2>1. name = Updated /\ added = <<Updated>>
    BY <1>9, SchemaTypes, PayloadTypes
  <2>2. name \in ToSet(added)
    BY <2>1 DEF ToSet
  <2>3. InsertRow(p, row)[name] = Stamp
    BY <1>6, <1>9, <2>1, <2>2
  <2>4. CopyRow(p, row)[i] = Stamp
    <3>1. n + 1 \in DOMAIN output /\ output[n + 1] = name /\ n + 1 > n
      BY <1>3, <1>4, <1>9, <2>1
    <3> HIDE DEF output, n, contract, name
    <3> QED
      BY <1>5, <3>1
  <2>5. IsValue(Stamp)
    BY ValueAssumption
  <2> QED
    BY <2>3, <2>4, <2>5
<1>10. i <= Len(p.schema) \/ (i = Len(p.schema) + 1 /\ p.framework)
  <2>1. Len(p.schema) \in Nat /\ p.framework \in BOOLEAN
    BY SchemaTypes, PayloadTypes
  <2>2. CASE p.framework
    <3>1. Len(Schema(p)) = Len(p.schema) + 1
      BY <2>2, SchemaTypes
    <3> QED
      BY <2>1, <2>2, <3>1
  <2>3. CASE ~p.framework
    <3>1. Len(Schema(p)) = Len(p.schema) + 0
      BY <2>3, SchemaTypes
    <3> QED
      BY <2>1, <3>1
  <2> QED
    BY <2>1, <2>2, <2>3
<1> QED
  BY <1>8, <1>9, <1>10

-----------------------------------------------------------------------------
(* Text is escaped symbol by symbol.                                       *)

ReplacementStep(text, character, by) ==
    [x \in Seq(Symbols) \X (1..Len(text)) |->
       x[1] \o (IF text[x[2]] = character THEN by ELSE <<text[x[2]]>>)]

\* Replace() goes through the text symbol by symbol.
Replacing(text, character, by) ==
    Solutions(Len(text), Seq(Symbols), <<>>, ReplacementStep(text, character, by))

\* A replaced symbol makes a text of symbols.
LEMMA StepTyped ==
    ASSUME NEW text \in Seq(Symbols), NEW character, NEW by \in Seq(Symbols)
    PROVE  ReplacementStep(text, character, by)
             \in [Seq(Symbols) \X (1..Len(text)) -> Seq(Symbols)]
<1>1. ASSUME NEW s \in Seq(Symbols), NEW n \in 1..Len(text)
      PROVE  s \o (IF text[n] = character THEN by ELSE <<text[n]>>) \in Seq(Symbols)
  <2>1. text[n] \in Symbols
    BY ElementOfSeq
  <2>2. <<text[n]>> \in Seq(Symbols)
    BY <2>1
  <2> QED
    BY <2>2, ConcatProperties
<1> QED
  BY <1>1 DEF ReplacementStep

ReplacementLaw(f, text, character, by) ==
    /\ f \in [0..Len(text) -> Seq(Symbols)] /\ f[0] = <<>>
    /\ \A n \in 1..Len(text) :
         f[n] = f[n - 1] \o (IF text[n] = character THEN by ELSE <<text[n]>>)

\* What the steps come to is determined.
LEMMA ReplacingLaw ==
    ASSUME NEW text \in Seq(Symbols), NEW character, NEW by \in Seq(Symbols),
           NEW f \in Replacing(text, character, by)
    PROVE  ReplacementLaw(f, text, character, by)
<1> DEFINE step == ReplacementStep(text, character, by)
<1>1. /\ f \in [0..Len(text) -> Seq(Symbols)] /\ f[0] = <<>>
      /\ \A n \in 1..Len(text) : f[n] = step[<<f[n - 1], n>>]
  BY DEF Replacing, Solutions
<1>2. Len(text) \in Nat
  BY LenProperties
<1>3. ASSUME NEW n \in 1..Len(text)
      PROVE  f[n] = f[n - 1] \o (IF text[n] = character THEN by ELSE <<text[n]>>)
  <2>1. n - 1 \in 0..Len(text)
    BY <1>2
  <2>2. <<f[n - 1], n>> \in Seq(Symbols) \X (1..Len(text))
    BY <1>1, <2>1
  <2>3. step[<<f[n - 1], n>>] = f[n - 1] \o (IF text[n] = character THEN by ELSE <<text[n]>>)
    BY <2>2 DEF ReplacementStep
  <2> QED
    BY <1>1, <2>3
<1> QED
  BY <1>1, <1>3 DEF ReplacementLaw

\* Replace() is what the steps come to.
LEMMA ReplaceEquation ==
    ASSUME NEW text \in Seq(Symbols), NEW character, NEW by \in Seq(Symbols)
    PROVE  \E f \in Replacing(text, character, by) : Replace(text, character, by) = f[Len(text)]
<1> DEFINE N == Len(text)
           put(n) == IF text[n] = character THEN by ELSE <<text[n]>>
           body(g) == [n \in 0..N |-> IF n = 0 THEN <<>> ELSE g[n - 1] \o put(n)]
           replaced == CHOOSE g : g = body(g)
<1>1. N \in Nat
  BY LenProperties
<1>2. PICK f : f \in Replacing(text, character, by)
  <2>1. <<>> \in Seq(Symbols)
    OBVIOUS
  <2>2. Replacing(text, character, by) # {}
    <3> HIDE DEF N
    <3> QED
      BY <1>1, <2>1, StepTyped, RecursionHasSolution DEF N, Replacing
  <2> QED
    BY <2>2
<1>3. /\ f \in [0..N -> Seq(Symbols)] /\ f[0] = <<>>
      /\ \A n \in 1..N : f[n] = f[n - 1] \o put(n)
  <2>1. ReplacementLaw(f, text, character, by)
    BY <1>2, ReplacingLaw
  <2> QED
    BY <2>1 DEF ReplacementLaw
<1> HIDE DEF put, N
<1>4. f = body(f)
  <2>1. ASSUME NEW n \in 0..N PROVE f[n] = IF n = 0 THEN <<>> ELSE f[n - 1] \o put(n)
    <3>1. CASE n = 0
      BY <1>3, <3>1
    <3>2. CASE n # 0
      <4>1. n \in 1..N
        BY <1>1, <3>2
      <4> QED
        BY <1>3, <3>2, <4>1
    <3> QED
      BY <3>1, <3>2
  <2>2. f = [n \in 0..N |-> f[n]]
    BY <1>3
  <2> QED
    BY <2>1, <2>2
<1>5. replaced = body(replaced)
  BY <1>4
<1> HIDE DEF replaced
<1>6. /\ replaced[0] = <<>>
      /\ \A n \in 1..N : replaced[n] = replaced[n - 1] \o put(n)
  <2>1. \A n \in 0..N : replaced[n] = IF n = 0 THEN <<>> ELSE replaced[n - 1] \o put(n)
    BY <1>5
  <2>2. 0 \in 0..N /\ \A n \in 1..N : n \in 0..N /\ n # 0
    BY <1>1
  <2>3. replaced[0] = <<>>
    BY <2>1, <2>2
  <2>4. ASSUME NEW n \in 1..N PROVE replaced[n] = replaced[n - 1] \o put(n)
    BY <2>1, <2>2
  <2> QED
    BY <2>3, <2>4
<1> DEFINE Same == {n \in Nat : n <= N => replaced[n] = f[n]}
<1>7. Nat \subseteq Same
  <2>1. 0 \in Same
    BY <1>3, <1>6
  <2>2. ASSUME NEW n \in Nat, n \in Same PROVE n + 1 \in Same
    <3> SUFFICES ASSUME n + 1 <= N PROVE replaced[n + 1] = f[n + 1]
      OBVIOUS
    <3>1. n + 1 \in 1..N /\ (n + 1) - 1 = n /\ replaced[n] = f[n]
      BY <1>1, <2>2
    <3> HIDE DEF Same
    <3> QED
      BY <1>3, <1>6, <3>1
  <2> HIDE DEF Same
  <2> QED
    BY <2>1, <2>2, SetInduction
<1>8. replaced[N] = f[N]
  BY <1>1, <1>7
<1>9. Replace(text, character, by) = replaced[N]
  BY DEF Replace, replaced, put, N
<1> QED
  BY <1>2, <1>8, <1>9 DEF N

\* A text and one more symbol.
Then(text, x) == text \o <<x>>

\* It is the text, longer by the symbol.
LEMMA ThenProperties ==
    ASSUME NEW S, NEW text \in Seq(S), NEW x \in S
    PROVE  /\ Then(text, x) \in Seq(S) /\ Then(text, x) = Append(text, x)
           /\ Len(text) \in Nat /\ Len(Then(text, x)) = Len(text) + 1
           /\ Then(text, x)[Len(text) + 1] = x
           /\ \A i \in 1..Len(text) : Then(text, x)[i] = text[i]
<1>1. text \o <<x>> = Append(text, x)
  BY AppendIsConcat
<1> QED
  BY <1>1, OneMore DEF Then

\* At the end of two texts.
LEMMA ThenOfConcat ==
    ASSUME NEW S, NEW s \in Seq(S), NEW t \in Seq(S), NEW x \in S
    PROVE  s \o Then(t, x) = Then(s \o t, x)
<1>1. <<x>> \in Seq(S)
  OBVIOUS
<1> QED
  BY <1>1, ConcatAssociative DEF Then

\* Texts that end alike were alike before.
LEMMA ThenIsInjective ==
    ASSUME NEW S, NEW s \in Seq(S), NEW t \in Seq(S), NEW x \in S, NEW y \in S,
           Then(s, x) = Then(t, y)
    PROVE  s = t /\ x = y
<1>1. \A u \in Seq(S), z \in S : Then(u, z) = Append(u, z)
  BY ThenProperties
<1>2. Append(s, x) = Append(t, y)
  BY <1>1
<1> QED
  BY <1>2, AppendInjective

\* One symbol after the other.
LEMMA ReplaceOneMore ==
    ASSUME NEW text \in Seq(Symbols), NEW x \in Symbols, NEW character, NEW by \in Seq(Symbols)
    PROVE  /\ Replace(text, character, by) \in Seq(Symbols)
           /\ x = character => Replace(Then(text, x), character, by)
                                 = Replace(text, character, by) \o by
           /\ x # character => Replace(Then(text, x), character, by)
                                 = Then(Replace(text, character, by), x)
<1> DEFINE more == text \o <<x>>
           n == Len(text)
<1>1. /\ more \in Seq(Symbols) /\ n \in Nat /\ Len(more) = n + 1 /\ more[n + 1] = x
      /\ \A i \in 1..n : more[i] = text[i]
  <2> HIDE DEF more, n
  <2> QED
    BY OneMore DEF more, n
<1> HIDE DEF more
<1>2. PICK f \in Replacing(text, character, by) : Replace(text, character, by) = f[n]
  BY ReplaceEquation
<1>3. PICK g \in Replacing(more, character, by) : Replace(more, character, by) = g[n + 1]
  BY <1>1, ReplaceEquation
<1>4. /\ f \in [0..n -> Seq(Symbols)] /\ f[0] = <<>>
      /\ \A i \in 1..n : f[i] = f[i - 1] \o (IF text[i] = character THEN by ELSE <<text[i]>>)
  <2>1. ReplacementLaw(f, text, character, by)
    BY <1>2, ReplacingLaw
  <2> QED
    BY <2>1 DEF ReplacementLaw
<1>5. /\ g[0] = <<>>
      /\ \A i \in 1..(n + 1) :
           g[i] = g[i - 1] \o (IF more[i] = character THEN by ELSE <<more[i]>>)
  <2>1. /\ g[0] = <<>>
        /\ \A i \in 1..Len(more) :
             g[i] = g[i - 1] \o (IF more[i] = character THEN by ELSE <<more[i]>>)
    <3>1. ReplacementLaw(g, more, character, by)
      BY <1>1, <1>3, ReplacingLaw
    <3> QED
      BY <3>1 DEF ReplacementLaw
  <2> QED
    BY <1>1, <2>1
<1> DEFINE Same == {i \in Nat : i <= n => g[i] = f[i]}
<1> HIDE DEF n
<1>6. Nat \subseteq Same
  <2>1. 0 \in Same
    BY <1>4, <1>5
  <2>2. ASSUME NEW i \in Nat, i \in Same PROVE i + 1 \in Same
    <3> SUFFICES ASSUME i + 1 <= n PROVE g[i + 1] = f[i + 1]
      OBVIOUS
    <3>1. /\ i + 1 \in 1..n /\ i + 1 \in 1..(n + 1) /\ (i + 1) - 1 = i /\ g[i] = f[i]
          /\ more[i + 1] = text[i + 1]
      BY <1>1, <2>2
    <3> HIDE DEF Same
    <3>2. g[i + 1] = g[i] \o (IF more[i + 1] = character THEN by ELSE <<more[i + 1]>>)
      BY <1>5, <3>1
    <3>3. f[i + 1] = f[i] \o (IF text[i + 1] = character THEN by ELSE <<text[i + 1]>>)
      BY <1>4, <3>1
    <3> QED
      BY <3>1, <3>2, <3>3
  <2> HIDE DEF Same
  <2> QED
    BY <2>1, <2>2, SetInduction
<1>7. g[n] = f[n]
  BY <1>1, <1>6
<1>8. g[n + 1] = g[n] \o (IF x = character THEN by ELSE <<x>>)
  <2>1. n + 1 \in 1..(n + 1) /\ (n + 1) - 1 = n
    BY <1>1
  <2> QED
    BY <1>1, <1>5, <2>1
<1>9. f[n] \in Seq(Symbols)
  BY <1>1, <1>4
<1>10. Then(text, x) = more
  BY DEF Then, more
<1> QED
  BY <1>2, <1>3, <1>7, <1>8, <1>9, <1>10 DEF Then

\* Nothing is replaced in no text.
LEMMA ReplaceInNothing ==
    ASSUME NEW character, NEW by \in Seq(Symbols)
    PROVE  Replace(<<>>, character, by) = <<>>
<1>1. <<>> \in Seq(Symbols) /\ Len(<<>>) = 0
  OBVIOUS
<1>2. PICK f \in Replacing(<<>>, character, by) : Replace(<<>>, character, by) = f[0]
  BY <1>1, ReplaceEquation
<1>3. ReplacementLaw(f, <<>>, character, by)
  BY <1>1, <1>2, ReplacingLaw
<1> QED
  BY <1>2, <1>3 DEF ReplacementLaw

\* What was replaced is a text.
LEMMA ReplaceTyped ==
    ASSUME NEW text \in Seq(Symbols), NEW character, NEW by \in Seq(Symbols)
    PROVE  Replace(text, character, by) \in Seq(Symbols)
<1>1. "\\" \in Symbols
  BY DEF Symbols
<1> QED
  BY <1>1, ReplaceOneMore

\* A symbol that is not replaced.
LEMMA ReplaceOther ==
    ASSUME NEW text \in Seq(Symbols), NEW x \in Symbols, NEW character,
           NEW by \in Seq(Symbols), x # character
    PROVE  Replace(Then(text, x), character, by) = Then(Replace(text, character, by), x)
  BY ReplaceOneMore

\* Two of them.
LEMMA ReplaceOthers ==
    ASSUME NEW text \in Seq(Symbols), NEW x \in Symbols, NEW y \in Symbols, NEW character,
           NEW by \in Seq(Symbols), x # character, y # character
    PROVE  Replace(Then(Then(text, x), y), character, by)
             = Then(Then(Replace(text, character, by), x), y)
<1>1. Then(text, x) \in Seq(Symbols)
  BY ThenProperties
<1> QED
  BY <1>1, ReplaceOther

Two(x, y) == <<x, y>>

\* Two symbols, one after the other.
LEMMA TwoProperties ==
    ASSUME NEW S, NEW x \in S, NEW y \in S
    PROVE  /\ Two(x, y) \in Seq(S)
           /\ \A s \in Seq(S) : s \o Two(x, y) = Then(Then(s, x), y)
<1>1. <<>> \in Seq(S) /\ Two(x, y) = Append(Append(<<>>, x), y) /\ Two(x, y) \in Seq(S)
  BY DEF Two
<1>2. /\ \A s \in Seq(S), z \in S : Then(s, z) = Append(s, z)
      /\ Then(<<>>, x) = Append(<<>>, x) /\ Then(<<>>, x) \in Seq(S)
  <2>1. \A s \in Seq(S), z \in S : Then(s, z) = Append(s, z)
    BY ThenProperties
  <2>2. \A s \in Seq(S), z \in S : Then(s, z) \in Seq(S)
    BY ThenProperties
  <2> QED
    BY <1>1, <2>1, <2>2
<1>3. Then(Then(<<>>, x), y) = Append(Then(<<>>, x), y)
  BY <1>2
<1>4. Two(x, y) = Then(Then(<<>>, x), y)
  BY <1>1, <1>2, <1>3
<1>5. ASSUME NEW s \in Seq(S) PROVE s \o Two(x, y) = Then(Then(s, x), y)
  <2>1. s \o Then(Then(<<>>, x), y) = Then(s \o Then(<<>>, x), y)
    BY <1>2, ThenOfConcat
  <2>2. s \o Then(<<>>, x) = Then(s \o <<>>, x)
    <3>1. PICK e \in Seq(S) : e = <<>>
      BY EmptySeq, Zenon
    <3>2. s \o Then(e, x) = Then(s \o e, x)
      BY ThenOfConcat
    <3> QED
      BY <3>1, <3>2
  <2>3. s \o <<>> = s
    BY ConcatEmptySeq
  <2> QED
    BY <1>4, <2>1, <2>2, <2>3
<1> QED
  BY <1>1, <1>5

\* A symbol that is replaced by two.
LEMMA ReplaceHit ==
    ASSUME NEW text \in Seq(Symbols), NEW character \in Symbols, NEW x \in Symbols,
           NEW y \in Symbols
    PROVE  Replace(Then(text, character), character, Two(x, y))
             = Then(Then(Replace(text, character, Two(x, y)), x), y)
<1>1. Two(x, y) \in Seq(Symbols)
  BY TwoProperties
<1>2. Replace(text, character, Two(x, y)) \in Seq(Symbols)
  BY <1>1, ReplaceTyped
<1>3. Replace(Then(text, character), character, Two(x, y))
        = Replace(text, character, Two(x, y)) \o Two(x, y)
  BY <1>1, ReplaceOneMore
<1>4. Replace(text, character, Two(x, y)) \o Two(x, y)
        = Then(Then(Replace(text, character, Two(x, y)), x), y)
  <2>1. \A s \in Seq(Symbols) : s \o Two(x, y) = Then(Then(s, x), y)
    BY TwoProperties, ZenonT(40)
  <2> QED
    BY <1>2, <2>1
<1> QED
  BY <1>3, <1>4

Special   == {"\\", "TAB", "LF", "CR"}
Letter(x) == IF x = "TAB" THEN "t" ELSE IF x = "LF" THEN "n" ELSE IF x = "CR" THEN "r" ELSE x

ThenEscaped(text, x) ==
    IF x \in Special THEN Then(Then(text, "\\"), Letter(x)) ELSE Then(text, x)

\* Escaping goes through the text symbol by symbol, too: none of its four replacements
\* touches what another has put in.
LEMMA EscapeOneMore ==
    ASSUME NEW text \in Seq(Symbols), NEW x \in Symbols
    PROVE  /\ _escape_copytext_text(text) \in Seq(Symbols)
           /\ _escape_copytext_text(Then(text, x)) = ThenEscaped(_escape_copytext_text(text), x)
           /\ Letter(x) \in Symbols /\ "\\" \in Symbols
<1> DEFINE s1 == Replace(text, "\\", Two("\\", "\\"))
           s2 == Replace(s1, "TAB", Two("\\", "t"))
           s3 == Replace(s2, "LF", Two("\\", "n"))
           s4 == Replace(s3, "CR", Two("\\", "r"))
           t1 == Replace(Then(text, x), "\\", Two("\\", "\\"))
           t2 == Replace(t1, "TAB", Two("\\", "t"))
           t3 == Replace(t2, "LF", Two("\\", "n"))
           t4 == Replace(t3, "CR", Two("\\", "r"))
<1>1. /\ "\\" \in Symbols /\ "t" \in Symbols /\ "n" \in Symbols /\ "r" \in Symbols
      /\ Two("\\", "\\") \in Seq(Symbols) /\ Two("\\", "t") \in Seq(Symbols)
      /\ Two("\\", "n") \in Seq(Symbols) /\ Two("\\", "r") \in Seq(Symbols)
  <2>1. "\\" \in Symbols /\ "t" \in Symbols /\ "n" \in Symbols /\ "r" \in Symbols
    BY DEF Symbols
  <2> QED
    BY <2>1, TwoProperties
<1>2. _escape_copytext_text(text) = s4 /\ _escape_copytext_text(Then(text, x)) = t4
  BY DEF _escape_copytext_text, Two
<1> HIDE DEF s1, s2, s3, s4, t1, t2, t3, t4
<1>3. s1 \in Seq(Symbols)
  BY <1>1, ReplaceTyped DEF s1
<1>4. s2 \in Seq(Symbols)
  BY <1>1, <1>3, ReplaceTyped DEF s2
<1>5. s3 \in Seq(Symbols)
  BY <1>1, <1>4, ReplaceTyped DEF s3
<1>6. s4 \in Seq(Symbols)
  BY <1>1, <1>5, ReplaceTyped DEF s4
<1>7. t4 = ThenEscaped(s4, x)
  <2>1. CASE x = "\\"
    <3>1. t1 = Then(Then(s1, "\\"), "\\")
      BY <1>1, <2>1, ReplaceHit DEF t1, s1
    <3>2. t2 = Then(Then(s2, "\\"), "\\")
      BY <1>1, <1>3, <2>1, <3>1, ReplaceOthers DEF t2, s2
    <3>3. t3 = Then(Then(s3, "\\"), "\\")
      BY <1>1, <1>4, <2>1, <3>2, ReplaceOthers DEF t3, s3
    <3>4. t4 = Then(Then(s4, "\\"), "\\")
      BY <1>1, <1>5, <2>1, <3>3, ReplaceOthers DEF t4, s4
    <3> QED
      BY <2>1, <3>4 DEF ThenEscaped, Letter, Special
  <2>2. CASE x = "TAB"
    <3>1. t1 = Then(s1, x)
      BY <1>1, <2>2, ReplaceOther DEF t1, s1
    <3>2. t2 = Then(Then(s2, "\\"), "t")
      BY <1>1, <1>3, <2>2, <3>1, ReplaceHit DEF t2, s2
    <3>3. t3 = Then(Then(s3, "\\"), "t")
      BY <1>1, <1>4, <2>2, <3>2, ReplaceOthers DEF t3, s3
    <3>4. t4 = Then(Then(s4, "\\"), "t")
      BY <1>1, <1>5, <2>2, <3>3, ReplaceOthers DEF t4, s4
    <3> QED
      BY <2>2, <3>4 DEF ThenEscaped, Letter, Special
  <2>3. CASE x = "LF"
    <3>1. t1 = Then(s1, x)
      BY <1>1, <2>3, ReplaceOther DEF t1, s1
    <3>2. t2 = Then(s2, x)
      BY <1>1, <1>3, <2>3, <3>1, ReplaceOther DEF t2, s2
    <3>3. t3 = Then(Then(s3, "\\"), "n")
      BY <1>1, <1>4, <2>3, <3>2, ReplaceHit DEF t3, s3
    <3>4. t4 = Then(Then(s4, "\\"), "n")
      BY <1>1, <1>5, <2>3, <3>3, ReplaceOthers DEF t4, s4
    <3> QED
      BY <2>3, <3>4 DEF ThenEscaped, Letter, Special
  <2>4. CASE x = "CR"
    <3>1. t1 = Then(s1, x)
      BY <1>1, <2>4, ReplaceOther DEF t1, s1
    <3>2. t2 = Then(s2, x)
      BY <1>1, <1>3, <2>4, <3>1, ReplaceOther DEF t2, s2
    <3>3. t3 = Then(s3, x)
      BY <1>1, <1>4, <2>4, <3>2, ReplaceOther DEF t3, s3
    <3>4. t4 = Then(Then(s4, "\\"), "r")
      BY <1>1, <1>5, <2>4, <3>3, ReplaceHit DEF t4, s4
    <3> QED
      BY <2>4, <3>4 DEF ThenEscaped, Letter, Special
  <2>5. CASE x \notin Special
    <3>5. x # "\\" /\ x # "TAB" /\ x # "LF" /\ x # "CR"
      BY <2>5 DEF Special
    <3>1. t1 = Then(s1, x)
      BY <1>1, <3>5, ReplaceOther DEF t1, s1
    <3>2. t2 = Then(s2, x)
      BY <1>1, <1>3, <3>5, <3>1, ReplaceOther DEF t2, s2
    <3>3. t3 = Then(s3, x)
      BY <1>1, <1>4, <3>5, <3>2, ReplaceOther DEF t3, s3
    <3>4. t4 = Then(s4, x)
      BY <1>1, <1>5, <3>5, <3>3, ReplaceOther DEF t4, s4
    <3> QED
      BY <2>5, <3>4 DEF ThenEscaped
  <2> QED
    BY <2>1, <2>2, <2>3, <2>4, <2>5 DEF Special
<1>8. Letter(x) \in Symbols
  BY <1>1 DEF Letter
<1> QED
  BY <1>1, <1>2, <1>6, <1>7, <1>8

\* No text has nothing to escape.
LEMMA EscapeOfNothing == _escape_copytext_text(<<>>) = <<>>
<1>1. /\ Two("\\", "\\") \in Seq(Symbols) /\ Two("\\", "t") \in Seq(Symbols)
      /\ Two("\\", "n") \in Seq(Symbols) /\ Two("\\", "r") \in Seq(Symbols)
  <2>1. "\\" \in Symbols /\ "t" \in Symbols /\ "n" \in Symbols /\ "r" \in Symbols
    BY DEF Symbols
  <2> QED
    BY <2>1, TwoProperties
<1>2. /\ Replace(<<>>, "\\", Two("\\", "\\")) = <<>> /\ Replace(<<>>, "TAB", Two("\\", "t")) = <<>>
      /\ Replace(<<>>, "LF", Two("\\", "n")) = <<>> /\ Replace(<<>>, "CR", Two("\\", "r")) = <<>>
  BY <1>1, ReplaceInNothing
<1> QED
  BY <1>2 DEF _escape_copytext_text, Two

\* A text is empty, or one with one more symbol.
LEMMA EmptyOrThen ==
    ASSUME NEW S, NEW text \in Seq(S)
    PROVE  text = <<>> \/ \E s \in Seq(S), x \in S : text = Then(s, x)
<1>1. text # <<>> => \E s \in Seq(S), x \in S : text = Append(s, x)
  BY SequenceEmptyOrAppend
<1>2. \A s \in Seq(S), x \in S : Then(s, x) = Append(s, x)
  BY ThenProperties
<1> QED
  BY <1>1, <1>2

\* A text with one more symbol is not empty.
LEMMA ThenIsNotEmpty ==
    ASSUME NEW S, NEW text \in Seq(S), NEW x \in S
    PROVE  Then(text, x) # <<>>
<1>1. Len(Then(text, x)) = Len(text) + 1 /\ Len(text) \in Nat
  BY ThenProperties
<1> QED
  BY <1>1

\* Texts of one and two symbols.
LEMMA ShortTexts ==
    ASSUME NEW S, NEW x \in S, NEW y \in S
    PROVE  <<x>> = Then(<<>>, x) /\ <<x, y>> = Then(Then(<<>>, x), y)
           /\ <<>> \in Seq(S) /\ Then(<<>>, x) \in Seq(S)
<1>1. <<x>> = Append(<<>>, x) /\ <<x>> \in Seq(S)
  OBVIOUS
<1>2. <<x, y>> = Append(<<x>>, y)
  OBVIOUS
<1>3. \A s \in Seq(S), z \in S : Then(s, z) = Append(s, z) /\ Then(s, z) \in Seq(S)
  BY ThenProperties
<1>4. PICK e \in Seq(S) : e = <<>>
  BY EmptySeq, Zenon
<1>5. Then(e, x) = Append(e, x) /\ Then(<<x>>, y) = Append(<<x>>, y)
  BY <1>1, <1>3
<1> QED
  BY <1>1, <1>2, <1>4, <1>5

\* What stands for null, or is refused, as symbols.
LEMMA NullAndError ==
    /\ Null = Then(Then(<<>>, "\\"), "N") /\ Error = Then(<<>>, "ERROR")
    /\ Null \in Seq(Symbols) /\ Error \in Seq(Symbols)
    /\ Then(<<>>, "\\") \in Seq(Symbols) /\ <<>> \in Seq(Symbols)
    /\ "N" \in Symbols /\ "\\" \in Symbols /\ "ERROR" \in Symbols
<1>1. /\ "N" \in Symbols /\ "\\" \in Symbols /\ "ERROR" \in Symbols
  BY DEF Symbols
<1>2. /\ <<"\\", "N">> = Then(Then(<<>>, "\\"), "N") /\ <<"ERROR">> = Then(<<>>, "ERROR")
      /\ <<>> \in Seq(Symbols) /\ Then(<<>>, "\\") \in Seq(Symbols)
      /\ Then(<<>>, "ERROR") \in Seq(Symbols)
  BY <1>1, ShortTexts
<1>3. Then(Then(<<>>, "\\"), "N") \in Seq(Symbols)
  BY <1>1, <1>2, ThenProperties
<1> QED
  BY <1>1, <1>2, <1>3 DEF Null, Error

\* An escaped text is never taken for null, and one of symbols never for an error.
LEMMA EscapedIsText ==
    ASSUME NEW text \in Seq(Symbols)
    PROVE  /\ _escape_copytext_text(text) # Null
           /\ (\A i \in DOMAIN text : text[i] # "ERROR") => _escape_copytext_text(text) # Error
<1> DEFINE esc(t) == _escape_copytext_text(t)
<1>1. \A t \in Seq(Symbols), x \in Symbols :
        /\ esc(t) \in Seq(Symbols) /\ esc(Then(t, x)) = ThenEscaped(esc(t), x)
        /\ Letter(x) \in Symbols
  BY EscapeOneMore
<1>2. esc(<<>>) = <<>>
  BY EscapeOfNothing
<1>3. /\ \A s, t \in Seq(Symbols), x, y \in Symbols : Then(s, x) = Then(t, y) => s = t /\ x = y
      /\ \A s \in Seq(Symbols), x \in Symbols : Then(s, x) # <<>> /\ Then(s, x) \in Seq(Symbols)
  <2>1. \A s, t \in Seq(Symbols), x, y \in Symbols : Then(s, x) = Then(t, y) => s = t /\ x = y
    BY ThenIsInjective
  <2>2. \A s \in Seq(Symbols), x \in Symbols : Then(s, x) # <<>>
    BY ThenIsNotEmpty
  <2>3. \A s \in Seq(Symbols), x \in Symbols : Then(s, x) \in Seq(Symbols)
    BY ThenProperties
  <2> QED
    BY <2>1, <2>2, <2>3
<1>4. PICK e \in Seq(Symbols) : e = <<>>
  BY EmptySeq, Zenon
<1>5. /\ Null = Then(Then(e, "\\"), "N") /\ Error = Then(e, "ERROR")
      /\ Then(e, "\\") \in Seq(Symbols)
      /\ "N" \in Symbols /\ "\\" \in Symbols /\ "ERROR" \in Symbols
  BY <1>4, NullAndError
<1> HIDE DEF esc
<1>6. CASE text = <<>>
  BY <1>2, <1>3, <1>4, <1>5, <1>6 DEF esc
<1>7. CASE text # <<>>
  <2>1. PICK s \in Seq(Symbols), x \in Symbols : text = Then(s, x)
    BY <1>7, EmptyOrThen
  <2>2. esc(s) \in Seq(Symbols) /\ esc(text) = ThenEscaped(esc(s), x) /\ Letter(x) \in Symbols
    BY <1>1, <2>1
  <2>3. CASE x \in Special
    <3>1. esc(text) = Then(Then(esc(s), "\\"), Letter(x))
      BY <2>2, <2>3 DEF ThenEscaped
    <3>2. Then(esc(s), "\\") \in Seq(Symbols) /\ Then(esc(s), "\\") # <<>>
      BY <1>3, <1>5, <2>2
    <3>3. Letter(x) # "N"
      BY <2>3 DEF Special, Letter
    <3>4. esc(text) # Null
      BY <1>3, <1>5, <2>2, <3>1, <3>2, <3>3
    <3>5. esc(text) # Error
      <4>1. Then(Then(esc(s), "\\"), Letter(x)) = Then(e, "ERROR") => Then(esc(s), "\\") = e
        <5> DEFINE u == Then(esc(s), "\\")
        <5>1. u \in Seq(Symbols)
          BY <3>2
        <5> HIDE DEF u, esc
        <5>2. Then(u, Letter(x)) = Then(e, "ERROR") => u = e
          BY ONLY <1>3, <1>5, <2>2, <5>1, e \in Seq(Symbols)
        <5> QED
          BY <5>2 DEF u
      <4> QED
        BY <1>4, <1>5, <3>1, <3>2, <4>1
    <3> QED
      BY <3>4, <3>5 DEF esc
  <2>4. CASE x \notin Special
    <3>1. esc(text) = Then(esc(s), x)
      BY <2>2, <2>4 DEF ThenEscaped
    <3>2. esc(s) # Then(e, "\\")
      <4>1. CASE s = <<>>
        BY <1>2, <1>3, <1>4, <1>5, <4>1
      <4>2. CASE s # <<>>
        <5>1. PICK t \in Seq(Symbols), y \in Symbols : s = Then(t, y)
          BY <4>2, EmptyOrThen
        <5>2. esc(t) \in Seq(Symbols) /\ esc(s) = ThenEscaped(esc(t), y) /\ Letter(y) \in Symbols
          BY <1>1, <5>1
        <5>3. CASE y \in Special
          <6>1. esc(s) = Then(Then(esc(t), "\\"), Letter(y))
            BY <5>2, <5>3 DEF ThenEscaped
          <6>2. Then(esc(t), "\\") \in Seq(Symbols) /\ Then(esc(t), "\\") # <<>>
            BY <1>3, <1>5, <5>2
          <6>3. esc(s) = Then(e, "\\") => Then(esc(t), "\\") = e
            BY <1>3, <1>5, <5>2, <6>1, <6>2
          <6> QED
            BY <1>4, <6>2, <6>3
        <5>4. CASE y \notin Special
          <6>1. esc(s) = Then(esc(t), y) /\ y # "\\"
            BY <5>2, <5>4 DEF ThenEscaped, Special
          <6>2. esc(s) = Then(e, "\\") => y = "\\"
            BY <1>3, <1>5, <5>2, <6>1
          <6> QED
            BY <6>1, <6>2
        <5> QED
          BY <5>3, <5>4
      <4> QED
        BY <4>1, <4>2
    <3>3. esc(text) # Null
      BY <1>3, <1>5, <2>2, <3>1, <3>2
    <3>4. ASSUME \A i \in DOMAIN text : text[i] # "ERROR" PROVE esc(text) # Error
      <4>1. x # "ERROR"
        <5>1. Len(s) \in Nat /\ Len(text) = Len(s) + 1 /\ text[Len(s) + 1] = x
          BY <2>1, ThenProperties
        <5>2. DOMAIN text = 1..Len(text)
          BY LenProperties
        <5>3. Len(s) + 1 \in DOMAIN text
          BY <5>1, <5>2
        <5> QED
          BY <3>4, <5>1, <5>3
      <4> QED
        BY <1>3, <1>5, <2>2, <3>1, <4>1
    <3> QED
      BY <3>3, <3>4 DEF esc
  <2> QED
    BY <2>3, <2>4
<1> QED
  BY <1>6, <1>7

-----------------------------------------------------------------------------
(* PostgreSQL reads what COPY wrote.                                       *)

State(done, line, raw, text, escape) ==
    [table |-> done, line |-> line, raw |-> raw, text |-> text, escape |-> escape]

\* What a field is that was written as raw and means text.
Ended(raw, text, family) ==
    IF raw = Null THEN NullField
    ELSE IF family = "bytes" /\ SubSeq(text, 1, 2) = <<"\\", "x">> THEN SubSeq(text, 3, Len(text))
    ELSE text

\* PostgreSQL, from one state, reads a text and is in another.
Steps(f, from, text, to, columns) ==
    /\ f[0] = from /\ f[Len(text)] = to
    /\ \A n \in 1..Len(text) : f[n] = ReadCharacter(f[n - 1], text[n], columns)

Reads(from, text, to, columns) == \E f : Steps(f, from, text, to, columns)

\* Reading nothing changes nothing.
LEMMA ReadsNothing ==
    ASSUME NEW from, NEW columns
    PROVE  Reads(from, <<>>, from, columns)
<1>1. Steps([n \in {0} |-> from], from, <<>>, from, columns)
  BY DEF Steps
<1> QED
  BY <1>1 DEF Reads

\* Two texts.
LEMMA ReadsOn ==
    ASSUME NEW from, NEW via, NEW to, NEW columns, NEW S, NEW s \in Seq(S), NEW t \in Seq(S),
           Reads(from, s, via, columns), Reads(via, t, to, columns)
    PROVE  Reads(from, s \o t, to, columns)
<1>1. PICK f : Steps(f, from, s, via, columns)
  BY DEF Reads
<1>2. PICK g : Steps(g, via, t, to, columns)
  BY DEF Reads
<1> DEFINE m == Len(s)
           k == Len(t)
           both == s \o t
           h == [n \in 0..(m + k) |-> IF n <= m THEN f[n] ELSE g[n - m]]
<1>3. /\ m \in Nat /\ k \in Nat /\ Len(both) = m + k
      /\ \A n \in 1..(m + k) : both[n] = IF n <= m THEN s[n] ELSE t[n - m]
  BY LenProperties, ConcatProperties
<1>4. /\ f[0] = from /\ f[m] = via
      /\ \A n \in 1..m : f[n] = ReadCharacter(f[n - 1], s[n], columns)
  BY <1>1 DEF Steps
<1>5. /\ g[0] = via /\ g[k] = to
      /\ \A n \in 1..k : g[n] = ReadCharacter(g[n - 1], t[n], columns)
  BY <1>2 DEF Steps
<1> HIDE DEF m, k, both
<1>6. \A n \in 0..m : h[n] = f[n]
  BY <1>3
<1>7. \A n \in 0..k : h[m + n] = g[n]
  <2> SUFFICES ASSUME NEW n \in 0..k PROVE h[m + n] = g[n]
    OBVIOUS
  <2>1. CASE n = 0
    BY <1>3, <1>4, <1>5, <1>6, <2>1
  <2>2. CASE n # 0
    <3>1. m + n \in 0..(m + k) /\ ~(m + n <= m) /\ (m + n) - m = n
      BY <1>3, <2>2
    <3> QED
      BY <3>1
  <2> QED
    BY <2>1, <2>2
<1> HIDE DEF h
<1>8. ASSUME NEW n \in 1..(m + k) PROVE h[n] = ReadCharacter(h[n - 1], both[n], columns)
  <2>1. CASE n <= m
    <3>1. n \in 1..m /\ n \in 0..m /\ n - 1 \in 0..m
      BY <1>3, <2>1
    <3>2. h[n] = f[n] /\ h[n - 1] = f[n - 1] /\ both[n] = s[n]
      BY <1>3, <1>6, <2>1, <3>1
    <3> QED
      BY <1>4, <3>1, <3>2
  <2>2. CASE ~(n <= m)
    <3>1. PICK j \in 1..k : n = m + j /\ n - m = j
      <4>1. n - m \in 1..k /\ n = m + (n - m)
        BY <1>3, <2>2
      <4> QED
        BY <4>1
    <3>2. j \in 0..k /\ j - 1 \in 0..k /\ n - 1 = m + (j - 1)
      BY <1>3, <3>1
    <3>3. h[n] = g[j] /\ h[n - 1] = g[j - 1] /\ both[n] = t[j]
      BY <1>3, <1>7, <2>2, <3>1, <3>2
    <3> QED
      BY <1>5, <3>1, <3>3
  <2> QED
    BY <2>1, <2>2
<1>9. h[0] = from /\ h[m + k] = to
  BY <1>3, <1>4, <1>5, <1>6, <1>7
<1>10. Steps(h, from, both, to, columns)
  BY <1>3, <1>8, <1>9 DEF Steps
<1> QED
  BY <1>10 DEF Reads, both

\* Reading one character.
LEMMA ReadsCharacter ==
    ASSUME NEW from, NEW to, NEW columns, NEW c, to = ReadCharacter(from, c, columns)
    PROVE  Reads(from, <<c>>, to, columns)
<1> DEFINE f == [n \in 0..1 |-> IF n = 0 THEN from ELSE to]
<1>1. Len(<<c>>) = 1 /\ <<c>>[1] = c /\ \A n \in 1..1 : n = 1
  OBVIOUS
<1>2. f[0] = from /\ f[1] = to
  OBVIOUS
<1> HIDE DEF f
<1>3. Steps(f, from, <<c>>, to, columns)
  BY <1>1, <1>2 DEF Steps
<1> QED
  BY <1>3 DEF Reads

\* The reader of a whole file goes through the same states.
LEMMA CopyFromReads ==
    ASSUME NEW S, NEW text \in Seq(S), NEW to, NEW columns, Reads(Reading, text, to, columns)
    PROVE  CopyFrom(text, columns) = to.table
<1> DEFINE N == Len(text)
           body(g) == [n \in 0..N |->
                         IF n = 0 THEN Reading ELSE ReadCharacter(g[n - 1], text[n], columns)]
           reading == CHOOSE g : g = body(g)
<1>1. N \in Nat
  BY LenProperties
<1>2. PICK f : Steps(f, Reading, text, to, columns)
  BY DEF Reads
<1>3. /\ f[0] = Reading /\ f[N] = to
      /\ \A n \in 1..N : f[n] = ReadCharacter(f[n - 1], text[n], columns)
  BY <1>2 DEF Steps
<1> DEFINE h == [n \in 0..N |-> f[n]]
<1> HIDE DEF N
<1>4. h = body(h)
  <2>1. ASSUME NEW n \in 0..N
        PROVE  h[n] = IF n = 0 THEN Reading ELSE ReadCharacter(h[n - 1], text[n], columns)
    <3>1. CASE n = 0
      BY <1>3, <3>1
    <3>2. CASE n # 0
      <4>1. n \in 1..N /\ n - 1 \in 0..N
        BY <1>1, <3>2
      <4>2. h[n] = f[n] /\ h[n - 1] = f[n - 1]
        BY <4>1
      <4> HIDE DEF h
      <4> QED
        BY <1>3, <3>2, <4>1, <4>2
    <3> QED
      BY <3>1, <3>2
  <2>2. h = [n \in 0..N |-> h[n]]
    OBVIOUS
  <2> HIDE DEF h
  <2> QED
    BY <2>1, <2>2
<1>5. reading = body(reading)
  <2> HIDE DEF h
  <2> QED
    BY <1>4
<1> HIDE DEF reading, h
<1>6. /\ reading[0] = Reading
      /\ \A n \in 1..N : reading[n] = ReadCharacter(reading[n - 1], text[n], columns)
  <2>1. \A n \in 0..N :
          reading[n] = IF n = 0 THEN Reading ELSE ReadCharacter(reading[n - 1], text[n], columns)
    BY <1>5
  <2>2. 0 \in 0..N /\ \A n \in 1..N : n \in 0..N /\ n # 0
    BY <1>1
  <2>3. reading[0] = Reading
    BY <2>1, <2>2
  <2>4. ASSUME NEW n \in 1..N
        PROVE  reading[n] = ReadCharacter(reading[n - 1], text[n], columns)
    BY <2>1, <2>2
  <2> QED
    BY <2>3, <2>4
<1> DEFINE Same == {n \in Nat : n <= N => reading[n] = f[n]}
<1>7. Nat \subseteq Same
  <2>1. 0 \in Same
    BY <1>3, <1>6
  <2>2. ASSUME NEW n \in Nat, n \in Same PROVE n + 1 \in Same
    <3> SUFFICES ASSUME n + 1 <= N PROVE reading[n + 1] = f[n + 1]
      OBVIOUS
    <3>1. n + 1 \in 1..N /\ (n + 1) - 1 = n /\ reading[n] = f[n]
      BY <1>1, <2>2
    <3> HIDE DEF Same
    <3>2. /\ f[n + 1] = ReadCharacter(f[n], text[n + 1], columns)
          /\ reading[n + 1] = ReadCharacter(reading[n], text[n + 1], columns)
      BY <1>3, <1>6, <3>1
    <3> QED
      BY <3>1, <3>2
  <2> HIDE DEF Same
  <2> QED
    BY <2>1, <2>2, SetInduction
<1>8. reading[N] = to
  BY <1>1, <1>3, <1>7
<1>9. CopyFrom(text, columns) = reading[N].table
  BY DEF CopyFrom, reading, N
<1> QED
  BY <1>8, <1>9

\* What one character does.
Goes(from, c, to, columns) == to = ReadCharacter(from, c, columns)

\* A character that is not special.
LEMMA ReadsOrdinary ==
    ASSUME NEW done, NEW line, NEW raw \in Seq(Symbols), NEW text \in Seq(Symbols),
           NEW columns, NEW c \in Symbols, c \notin {"\\", "TAB", "LF"}
    PROVE  Goes(State(done, line, raw, text, FALSE), c,
                State(done, line, Then(raw, c), Then(text, c), FALSE), columns)
<1>1. \A s \in Seq(Symbols), y \in Symbols : Then(s, y) = Append(s, y)
  BY ThenProperties
<1> QED
  BY <1>1 DEF Goes, ReadCharacter, State

\* A backslash escapes what follows.
LEMMA ReadsBackslash ==
    ASSUME NEW done, NEW line, NEW raw \in Seq(Symbols), NEW text \in Seq(Symbols), NEW columns
    PROVE  Goes(State(done, line, raw, text, FALSE), "\\",
                State(done, line, Then(raw, "\\"), text, TRUE), columns)
<1>1. "\\" \in Symbols
  BY DEF Symbols
<1>2. Then(raw, "\\") = Append(raw, "\\")
  BY <1>1, ThenProperties
<1> QED
  BY <1>2 DEF Goes, ReadCharacter, State

\* An escaped character is what it stands for.
LEMMA ReadsEscaped ==
    ASSUME NEW done, NEW line, NEW raw \in Seq(Symbols), NEW text \in Seq(Symbols),
           NEW columns, NEW c \in Symbols, NEW x \in Symbols, Escaped(c) = x
    PROVE  Goes(State(done, line, raw, text, TRUE), c,
                State(done, line, Then(raw, c), Then(text, x), FALSE), columns)
<1>1. \A s \in Seq(Symbols), y \in Symbols : Then(s, y) = Append(s, y)
  BY ThenProperties
<1> QED
  BY <1>1 DEF Goes, ReadCharacter, State

\* One more character.
LEMMA GoesOn ==
    ASSUME NEW from, NEW via, NEW to, NEW columns, NEW text \in Seq(Symbols), NEW c \in Symbols,
           Reads(from, text, via, columns), Goes(via, c, to, columns)
    PROVE  Reads(from, Then(text, c), to, columns)
<1>1. <<c>> \in Seq(Symbols)
  OBVIOUS
<1>2. Reads(via, <<c>>, to, columns)
  BY ReadsCharacter DEF Goes
<1> QED
  BY <1>1, <1>2, ReadsOn DEF Then

\* The reader has the text back when it has read it escaped.
TextRead(text, done, line, columns) ==
    Reads(State(done, line, <<>>, <<>>, FALSE), _escape_copytext_text(text),
          State(done, line, _escape_copytext_text(text), text, FALSE), columns)

\* One more symbol, escaped if it is special.
LEMMA TextReadOneMore ==
    ASSUME NEW text \in Seq(Symbols), NEW x \in Symbols, NEW done, NEW line, NEW columns,
           TextRead(text, done, line, columns)
    PROVE  TextRead(Then(text, x), done, line, columns)
<1> DEFINE esc == _escape_copytext_text(text)
           from == State(done, line, <<>>, <<>>, FALSE)
<1>1. /\ esc \in Seq(Symbols) /\ Letter(x) \in Symbols /\ "\\" \in Symbols
      /\ _escape_copytext_text(Then(text, x)) = ThenEscaped(esc, x)
  BY EscapeOneMore
<1>2. Reads(from, esc, State(done, line, esc, text, FALSE), columns)
  BY DEF TextRead
<1> HIDE DEF esc, from
<1>3. CASE x \in Special
  <2> DEFINE via == State(done, line, Then(esc, "\\"), text, TRUE)
             to == State(done, line, Then(Then(esc, "\\"), Letter(x)), Then(text, x), FALSE)
  <2>1. Then(esc, "\\") \in Seq(Symbols)
    BY <1>1, ThenProperties
  <2>2. Goes(State(done, line, esc, text, FALSE), "\\", via, columns)
    BY <1>1, ReadsBackslash
  <2>3. Escaped(Letter(x)) = x
    BY <1>3 DEF Special, Letter, Escaped
  <2>4. Goes(via, Letter(x), to, columns)
    BY <1>1, <2>1, <2>3, ReadsEscaped
  <2> HIDE DEF via, to
  <2>5. Reads(from, Then(esc, "\\"), via, columns)
    BY <1>1, <1>2, <2>2, GoesOn
  <2>6. Reads(from, Then(Then(esc, "\\"), Letter(x)), to, columns)
    BY <1>1, <2>1, <2>4, <2>5, GoesOn
  <2>7. _escape_copytext_text(Then(text, x)) = Then(Then(esc, "\\"), Letter(x))
    BY <1>1, <1>3 DEF ThenEscaped
  <2> QED
    BY <2>6, <2>7 DEF TextRead, from, to
<1>4. CASE x \notin Special
  <2> DEFINE to == State(done, line, Then(esc, x), Then(text, x), FALSE)
  <2>1. Goes(State(done, line, esc, text, FALSE), x, to, columns)
    BY <1>1, <1>4, ReadsOrdinary DEF Special
  <2> HIDE DEF to
  <2>2. Reads(from, Then(esc, x), to, columns)
    BY <1>1, <1>2, <2>1, GoesOn
  <2>3. _escape_copytext_text(Then(text, x)) = Then(esc, x)
    BY <1>1, <1>4 DEF ThenEscaped
  <2> QED
    BY <2>2, <2>3 DEF TextRead, from, to
<1> QED
  BY <1>3, <1>4

\* A text of any length.
LEMMA TextsReadBack ==
    ASSUME NEW text \in Seq(Symbols), NEW done, NEW line, NEW columns
    PROVE  TextRead(text, done, line, columns)
<1> DEFINE Good ==
      {n \in Nat : \A t \in Seq(Symbols) : Len(t) = n => TextRead(t, done, line, columns)}
<1>1. TextRead(<<>>, done, line, columns)
  <2>1. _escape_copytext_text(<<>>) = <<>>
    BY EscapeOfNothing
  <2>2. Reads(State(done, line, <<>>, <<>>, FALSE), <<>>,
              State(done, line, <<>>, <<>>, FALSE), columns)
    BY ReadsNothing
  <2> QED
    BY <2>1, <2>2 DEF TextRead
<1>2. 0 \in Good
  <2>1. \A t \in Seq(Symbols) : Len(t) = 0 => t = <<>>
    BY EmptySeq
  <2> QED
    BY <1>1, <2>1
<1>3. ASSUME NEW n \in Nat, n \in Good PROVE n + 1 \in Good
  <2> SUFFICES ASSUME NEW t \in Seq(Symbols), Len(t) = n + 1 PROVE TextRead(t, done, line, columns)
    OBVIOUS
  <2>1. PICK s \in Seq(Symbols), x \in Symbols : t = Then(s, x)
    <3>1. t # <<>>
      OBVIOUS
    <3> QED
      BY <3>1, EmptyOrThen
  <2>2. Len(s) = n
    <3>1. Len(s) \in Nat /\ Len(t) = Len(s) + 1
      BY <2>1, ThenProperties
    <3> QED
      BY <3>1
  <2>3. TextRead(s, done, line, columns)
    BY <1>3, <2>2
  <2> HIDE DEF Good
  <2> QED
    BY <2>1, <2>3, TextReadOneMore
<1> HIDE DEF Good
<1>4. Nat \subseteq Good
  BY <1>2, <1>3, SetInduction
<1>5. Len(text) \in Good
  BY <1>4, LenProperties
<1> QED
  BY <1>5 DEF Good

\* A field, read to its end, is what INSERT stores.
FieldRead(field, stored, family, done, line, columns) ==
    \E text \in Seq(Symbols) :
        /\ Reads(State(done, line, <<>>, <<>>, FALSE), field,
                 State(done, line, field, text, FALSE), columns)
        /\ Ended(field, text, family) = stored

\* Null is null in a column of any family.
LEMMA NullReadsBack ==
    ASSUME NEW family, NEW done, NEW line, NEW columns
    PROVE  FieldRead(Null, NullField, family, done, line, columns) /\ Null # Error
<1>1. PICK e \in Seq(Symbols) : e = <<>>
  BY EmptySeq, Zenon
<1>2. /\ Null = Then(Then(e, "\\"), "N") /\ Error = Then(e, "ERROR")
      /\ Then(e, "\\") \in Seq(Symbols)
      /\ "N" \in Symbols /\ "\\" \in Symbols /\ "ERROR" \in Symbols
  BY <1>1, NullAndError
<1>3. Null # Error
  <2>1. Then(Then(e, "\\"), "N") = Then(e, "ERROR") => "N" = "ERROR"
    BY <1>2, ThenIsInjective
  <2> QED
    BY <1>2, <2>1
<1> DEFINE from == State(done, line, e, e, FALSE)
           via == State(done, line, Then(e, "\\"), e, TRUE)
           to == State(done, line, Null, Then(e, "N"), FALSE)
<1>4. Goes(from, "\\", via, columns)
  BY <1>2, ReadsBackslash
<1>5. Goes(via, "N", to, columns)
  <2>1. Escaped("N") = "N"
    BY DEF Escaped
  <2> QED
    BY <1>2, <2>1, ReadsEscaped
<1> HIDE DEF from, via, to
<1>6. Reads(from, e, from, columns)
  BY <1>1, ReadsNothing
<1>7. Reads(from, Then(e, "\\"), via, columns)
  BY <1>2, <1>4, <1>6, GoesOn
<1>8. Reads(from, Null, to, columns)
  BY <1>2, <1>5, <1>7, GoesOn
<1>9. Then(e, "N") \in Seq(Symbols)
  BY <1>2, ThenProperties
<1>10. Ended(Null, Then(e, "N"), family) = NullField
  BY DEF Ended
<1> QED
  BY <1>1, <1>3, <1>8, <1>9, <1>10 DEF FieldRead, from, to

\* A text is itself, and never null or an error.
LEMMA TextReadsBack ==
    ASSUME NEW text \in Seq(STRING), \A i \in DOMAIN text : text[i] # "ERROR",
           NEW done, NEW line, NEW columns
    PROVE  /\ FieldRead(_escape_copytext_text(text), text, "text", done, line, columns)
           /\ _escape_copytext_text(text) # Error
           /\ _escape_copytext_text(text) \in Seq(Symbols)
<1>1. text \in Seq(Symbols)
  <2>1. STRING \subseteq Symbols
    BY DEF Symbols
  <2> QED
    BY <2>1, SeqMonotonic
<1>2. /\ _escape_copytext_text(text) # Null /\ _escape_copytext_text(text) # Error
      /\ TextRead(text, done, line, columns)
  BY <1>1, EscapedIsText, TextsReadBack
<1>3. _escape_copytext_text(text) \in Seq(Symbols)
  <2>1. "\\" \in Symbols
    BY DEF Symbols
  <2> QED
    BY <1>1, <2>1, EscapeOneMore
<1>4. Ended(_escape_copytext_text(text), text, "text") = text
  BY <1>2 DEF Ended
<1> QED
  BY <1>1, <1>2, <1>3, <1>4 DEF FieldRead, TextRead

\* What is rendered as one symbol is that symbol.
LEMMA RenderedReadsBack ==
    ASSUME NEW r \in STRING, r \notin {"\\", "TAB", "LF", "CR", "ERROR"},
           NEW family, family # "bytes", NEW done, NEW line, NEW columns
    PROVE  FieldRead(<<r>>, <<r>>, family, done, line, columns) /\ <<r>> # Error
           /\ <<r>> \in Seq(Symbols)
<1>1. PICK e \in Seq(Symbols) : e = <<>>
  BY EmptySeq, Zenon
<1>2. r \in Symbols /\ "\\" \in Symbols /\ "N" \in Symbols
  BY DEF Symbols
<1>3. <<r>> = Then(e, r)
  BY <1>1, <1>2, ShortTexts
<1> DEFINE from == State(done, line, e, e, FALSE)
           to == State(done, line, Then(e, r), Then(e, r), FALSE)
<1>4. Goes(from, r, to, columns)
  BY <1>2, ReadsOrdinary
<1> HIDE DEF from, to
<1>5. Reads(from, e, from, columns)
  BY <1>1, ReadsNothing
<1>6. Reads(from, Then(e, r), to, columns)
  BY <1>2, <1>4, <1>5, GoesOn
<1>7. Then(e, r) \in Seq(Symbols)
  BY <1>2, ThenProperties
<1>8. Then(e, r) # Null /\ <<r>> # Error
  BY <1>3 DEF Null, Error
<1>9. Ended(Then(e, r), Then(e, r), family) = Then(e, r)
  BY <1>8 DEF Ended
<1> QED
  BY <1>1, <1>3, <1>6, <1>7, <1>8, <1>9 DEF FieldRead, from, to

Parted(s, a, b, c) == SubSeq(s, 1, 2) = <<a, b>> /\ SubSeq(s, 3, Len(s)) = <<c>>

\* Of three symbols the first two, and the last.
LEMMA PartsOfThree ==
    ASSUME NEW S, NEW a \in S, NEW b \in S, NEW c \in S, NEW s \in Seq(S),
           Len(s) = 3, s[1] = a, s[2] = b, s[3] = c
    PROVE  Parted(s, a, b, c)
<1>1. SubSeq(s, 1, 2) = <<a, b>>
  <2>1. \A i \in 1..2 : s[i] \in S
    OBVIOUS
  <2>2. /\ SubSeq(s, 1, 2) \in Seq(S) /\ Len(SubSeq(s, 1, 2)) = 2
        /\ \A i \in 1..2 : SubSeq(s, 1, 2)[i] = s[i]
    <3>1. /\ SubSeq(s, 1, 2) \in Seq(S)
          /\ Len(SubSeq(s, 1, 2)) = IF 1 <= 2 THEN 2 - 1 + 1 ELSE 0
          /\ \A i \in 1..(2 - 1 + 1) : SubSeq(s, 1, 2)[i] = s[1 + i - 1]
      BY ONLY <2>1, SubSeqProperties
    <3>2. \A i \in 1..2 : i \in 1..(2 - 1 + 1) /\ 1 + i - 1 = i
      OBVIOUS
    <3> QED
      BY ONLY <3>1, <3>2
  <2>3. <<a, b>> \in Seq(S) /\ Len(<<a, b>>) = 2 /\ <<a, b>>[1] = a /\ <<a, b>>[2] = b
    OBVIOUS
  <2>4. \A i \in 1..2 : SubSeq(s, 1, 2)[i] = <<a, b>>[i]
    BY <2>2, <2>3
  <2> QED
    BY ONLY <2>2, <2>3, <2>4, SeqEqual
<1>2. SubSeq(s, 3, 3) = <<c>>
  <2>1. \A i \in 3..3 : s[i] \in S
    OBVIOUS
  <2>2. /\ SubSeq(s, 3, 3) \in Seq(S) /\ Len(SubSeq(s, 3, 3)) = 1
        /\ \A i \in 1..1 : SubSeq(s, 3, 3)[i] = c
    <3>1. /\ SubSeq(s, 3, 3) \in Seq(S)
          /\ Len(SubSeq(s, 3, 3)) = IF 3 <= 3 THEN 3 - 3 + 1 ELSE 0
          /\ \A i \in 1..(3 - 3 + 1) : SubSeq(s, 3, 3)[i] = s[3 + i - 1]
      BY ONLY <2>1, SubSeqProperties
    <3>2. \A i \in 1..1 : i \in 1..(3 - 3 + 1) /\ 3 + i - 1 = 3
      OBVIOUS
    <3> QED
      BY <3>1, <3>2
  <2>3. <<c>> \in Seq(S) /\ Len(<<c>>) = 1 /\ <<c>>[1] = c
    OBVIOUS
  <2>4. \A i \in 1..1 : SubSeq(s, 3, 3)[i] = <<c>>[i]
    BY <2>2, <2>3
  <2> QED
    BY ONLY <2>2, <2>3, <2>4, SeqEqual
<1> QED
  BY <1>1, <1>2 DEF Parted

\* Bytes: the backslash of the dump is escaped, and the dump is undone.
LEMMA DumpReadsBack ==
    ASSUME NEW r \in STRING, r \notin {"\\", "TAB", "LF", "CR", "ERROR"},
           NEW done, NEW line, NEW columns
    PROVE  LET dump == <<"\\", "\\", "x">> \o <<r>> IN
           /\ FieldRead(dump, <<r>>, "bytes", done, line, columns)
           /\ dump # Error /\ dump \in Seq(Symbols)
<1> DEFINE dump == <<"\\", "\\", "x">> \o <<r>>
<1>1. PICK e \in Seq(Symbols) : e = <<>>
  BY EmptySeq, Zenon
<1>2. r \in Symbols /\ "\\" \in Symbols /\ "x" \in Symbols
  BY DEF Symbols
<1> DEFINE a == Then(e, "\\")
           b == Then(a, "\\")
           c == Then(b, "x")
           d == Then(c, r)
           m == Then(a, "x")
           text == Then(m, r)
<1>3. /\ a \in Seq(Symbols) /\ b \in Seq(Symbols) /\ c \in Seq(Symbols) /\ d \in Seq(Symbols)
      /\ m \in Seq(Symbols) /\ text \in Seq(Symbols)
  <2> \A s \in Seq(Symbols), x \in Symbols : Then(s, x) \in Seq(Symbols)
    BY ThenProperties
  <2>1. a \in Seq(Symbols)
    BY <1>2
  <2>2. b \in Seq(Symbols) /\ m \in Seq(Symbols)
    BY <1>2, <2>1
  <2>3. c \in Seq(Symbols) /\ text \in Seq(Symbols)
    BY <1>2, <2>2
  <2>4. d \in Seq(Symbols)
    BY <1>2, <2>3
  <2> QED
    BY <2>1, <2>2, <2>3, <2>4
<1>4. a = <<"\\">> /\ b = <<"\\", "\\">> /\ m = <<"\\", "x">>
  BY <1>1, <1>2, ShortTexts
<1>5. dump = d
  <2>1. <<"\\", "\\", "x">> = Append(b, "x")
    <3>1. <<"\\", "\\", "x">> = Append(<<"\\", "\\">>, "x")
      OBVIOUS
    <3> HIDE DEF b
    <3> QED
      BY <1>4, <3>1
  <2>2. c = Append(b, "x")
    BY <1>2, <1>3, ThenProperties
  <2> QED
    BY <2>1, <2>2 DEF Then
<1>6. Len(text) = 3 /\ text[1] = "\\" /\ text[2] = "x" /\ text[3] = r
  <2>1. Len(m) = 2 /\ m[1] = "\\" /\ m[2] = "x"
    BY <1>4
  <2> HIDE DEF m
  <2>2. /\ Len(Then(m, r)) = Len(m) + 1 /\ Then(m, r)[Len(m) + 1] = r
        /\ \A i \in 1..Len(m) : Then(m, r)[i] = m[i]
    BY <1>2, <1>3, ThenProperties
  <2> QED
    BY <2>1, <2>2
<1>7. Len(dump) = 4
  <2>1. /\ Len(a) = 1 /\ Len(b) = Len(a) + 1 /\ Len(c) = Len(b) + 1 /\ Len(d) = Len(c) + 1
    <3>1. Len(a) = 1
      BY <1>4
    <3>2. \A s \in Seq(Symbols), y \in Symbols : Len(Then(s, y)) = Len(s) + 1
      BY ThenProperties
    <3> QED
      BY <1>2, <1>3, <3>1, <3>2
  <2> HIDE DEF dump, a, b, c, d
  <2> QED
    BY <1>5, <2>1
<1>8. dump # Error /\ dump # Null
  <2>1. Len(Error) = 1
    BY DEF Error
  <2>2. Len(Null) = 2
    BY DEF Null
  <2> DEFINE y == Error
             z == Null
  <2>3. Len(y) # Len(dump) /\ Len(z) # Len(dump)
    <3> HIDE DEF dump
    <3> QED
      BY ONLY <1>7, <2>1, <2>2
  <2> HIDE DEF dump, y, z
  <2>4. dump # y /\ dump # z
    BY ONLY <2>3
  <2> QED
    BY ONLY <2>4 DEF y, z
<1>9. Ended(dump, text, "bytes") = <<r>>
  <2>1. Parted(text, "\\", "x", r)
    <3> HIDE DEF text
    <3> QED
      BY <1>2, <1>3, <1>6, PartsOfThree
  <2> HIDE DEF text, dump
  <2> QED
    BY <1>8, <2>1 DEF Ended, Parted
<1> HIDE DEF a, b, c, d, m, text, dump
<1> DEFINE from == State(done, line, e, e, FALSE)
           s1 == State(done, line, a, e, TRUE)
           s2 == State(done, line, b, a, FALSE)
           s3 == State(done, line, c, m, FALSE)
           s4 == State(done, line, d, text, FALSE)
<1>10. Goes(from, "\\", s1, columns)
  BY <1>2, ReadsBackslash DEF a
<1>11. Goes(s1, "\\", s2, columns)
  <2>1. Escaped("\\") = "\\"
    BY DEF Escaped
  <2> QED
    BY <1>2, <1>3, <2>1, ReadsEscaped DEF a, b
<1>12. Goes(s2, "x", s3, columns)
  BY <1>2, <1>3, ReadsOrdinary DEF c, m
<1>13. Goes(s3, r, s4, columns)
  BY <1>2, <1>3, ReadsOrdinary DEF d, text
<1> HIDE DEF from, s1, s2, s3, s4
<1>14. Reads(from, e, from, columns)
  BY <1>1, ReadsNothing
<1>15. Reads(from, a, s1, columns)
  BY <1>2, <1>10, <1>14, GoesOn DEF a
<1>16. Reads(from, b, s2, columns)
  BY <1>2, <1>3, <1>11, <1>15, GoesOn DEF b
<1>17. Reads(from, c, s3, columns)
  BY <1>2, <1>3, <1>12, <1>16, GoesOn DEF c
<1>18. Reads(from, d, s4, columns)
  BY <1>2, <1>3, <1>13, <1>17, GoesOn DEF d
<1>19. FieldRead(dump, <<r>>, "bytes", done, line, columns)
  BY <1>1, <1>3, <1>5, <1>9, <1>18 DEF FieldRead, from, s4
<1> QED
  BY <1>3, <1>5, <1>8, <1>19 DEF dump

\* What COPY writes of a value that INSERT takes, is read back as what INSERT stores of it.
LEMMA InsertedReadsBack ==
    ASSUME NEW v, IsValue(v), NEW column \in DeclaredColumns, Inserts(v, column),
           NEW done, NEW line, NEW columns
    PROVE  /\ Field(v, column) \in Seq(Symbols) /\ Field(v, column) # Error
           /\ FieldRead(Field(v, column), Stored(v), column.family, done, line, columns)
<1> DEFINE w == _normalize_value(v)
           family == column.family
<1>1. Field(v, column) = Writes(w, column)
  BY FieldsAgree DEF WritesWhatInserts
<1>2. _validate_declared_value_family(w, column)
  BY DEF Inserts
<1>3. Type(w) # "NoneType" => IsWritable(w)
  BY NormalizedIsHeld
<1>4. Stored(v) = IF Type(w) = "NoneType" THEN NullField
                  ELSE IF Type(w) \in Strings THEN Holds(w) ELSE Rendered(w)
  BY DEF Stored
<1>5. family \in DeclaredFamilies
  BY DEF DeclaredColumns
<1> HIDE DEF w
<1>6. CASE Type(w) = "NoneType"
  <2>1. Field(v, column) = Null /\ Stored(v) = NullField
    BY <1>1, <1>4, <1>6 DEF Writes
  <2>2. Null \in Seq(Symbols)
    BY NullAndError
  <2> HIDE DEF family
  <2> QED
    BY <2>1, <2>2, NullReadsBack DEF family
<1>7. CASE Type(w) # "NoneType" /\ family = "text"
  <2>1. Type(w) \in Strings
    BY <1>2, <1>7 DEF _validate_declared_value_family
  <2>2. Field(v, column) = _escape_copytext_text(Holds(w)) /\ Stored(v) = Holds(w)
    BY <1>1, <1>4, <1>7, <2>1 DEF Writes
  <2>3. Holds(w) \in Seq(STRING) /\ \A i \in DOMAIN Holds(w) : Holds(w)[i] # "ERROR"
    BY <1>3, <1>7, <2>1 DEF IsWritable, Strings
  <2> QED
    BY <1>7, <2>2, <2>3, TextReadsBack
<1>8. CASE Type(w) # "NoneType" /\ family # "text"
  <2>1. Type(w) \notin Strings
    <3>1. CASE family \in {"smallint", "integer", "bigint"}
      BY <1>2, <1>8, <3>1 DEF _validate_declared_value_family, Strings
    <3>2. CASE family = "numeric"
      BY <1>2, <1>8, <3>2 DEF _validate_declared_value_family, _validate_numeric_value, Strings
    <3>3. CASE family = "bytes"
      BY <1>2, <1>8, <3>3 DEF _validate_declared_value_family, BytesLike, Strings
    <3>4. CASE family \in {"timestamp", "timestamptz"}
      BY <1>2, <1>8, <3>4 DEF _validate_declared_value_family, Datetimes, Strings
    <3>5. CASE family \in {"bool", "float", "date"}
      BY <1>2, <1>8, <3>5 DEF _validate_declared_value_family, Strings
    <3> QED
      BY <1>5, <1>8, <3>1, <3>2, <3>3, <3>4, <3>5 DEF DeclaredFamilies
  <2> DEFINE r == ToString(Holds(w))
  <2>2. r \in STRING /\ r \notin {"\\", "TAB", "LF", "CR", "ERROR"}
    BY <1>3, <1>8, <2>1 DEF IsWritable, Strings
  <2>3. Stored(v) = <<r>> /\ Rendered(w) = <<r>>
    BY <1>4, <1>8, <2>1 DEF Rendered
  <2> HIDE DEF r
  <2>4. CASE family = "bytes"
    <3>1. Field(v, column) = <<"\\", "\\", "x">> \o <<r>>
      BY <1>1, <1>8, <2>3, <2>4 DEF Writes
    <3> QED
      BY <2>2, <2>3, <2>4, <3>1, DumpReadsBack
  <2>5. CASE family # "bytes"
    <3>1. Field(v, column) = <<r>>
      BY <1>1, <1>8, <2>3, <2>5 DEF Writes
    <3> HIDE DEF family
    <3>2. /\ FieldRead(<<r>>, <<r>>, family, done, line, columns)
          /\ <<r>> # Error /\ <<r>> \in Seq(Symbols)
      BY <2>2, <2>5, RenderedReadsBack
    <3> QED
      BY <2>3, <3>1, <3>2 DEF family
  <2> QED
    BY <2>4, <2>5
<1> QED
  BY <1>6, <1>7, <1>8

\* What COPY writes of a value that it accepts, is read back.
LEMMA FieldReadsBack ==
    ASSUME NEW v, IsValue(v), NEW column \in DeclaredColumns, Accepts(v, column),
           NEW done, NEW line, NEW columns
    PROVE  /\ Field(v, column) \in Seq(Symbols) /\ Field(v, column) # Error
           /\ FieldRead(Field(v, column), Loads(v, column), column.family, done, line, columns)
<1>1. CASE Signals(v, column)
  <2>1. Field(v, column) = Null /\ Loads(v, column) = NullField
    BY <1>1, FieldsAgree DEF Loads
  <2>2. Null \in Seq(Symbols)
    BY NullAndError
  <2> QED
    BY <2>1, <2>2, NullReadsBack
<1>2. CASE ~Signals(v, column)
  <2>1. Inserts(v, column) /\ Loads(v, column) = Stored(v)
    BY <1>2 DEF Accepts, Loads
  <2> QED
    BY <2>1, InsertedReadsBack
<1> QED
  BY <1>1, <1>2

\* A field is a text, and an error if the value is not accepted.
LEMMA FieldTyped ==
    ASSUME NEW v, IsValue(v), NEW column \in DeclaredColumns
    PROVE  /\ Field(v, column) \in Seq(Symbols)
           /\ Field(v, column) = Error <=> ~Accepts(v, column)
<1>1. CASE Accepts(v, column)
  BY <1>1, FieldReadsBack
<1>2. CASE ~Accepts(v, column)
  <2>1. Field(v, column) = Error
    BY <1>2, FieldsAgree DEF WritesWhatInserts, Accepts
  <2> QED
    BY <1>2, <2>1, NullAndError
<1> QED
  BY <1>1, <1>2

\* A line is made field by field.
LineLaw(f, fields) ==
    /\ f \in [0..Len(fields) -> Seq(Symbols)] /\ f[0] = <<>>
    /\ \A n \in 1..Len(fields) :
         f[n] = f[n - 1] \o (IF n = 1 THEN <<>> ELSE <<"TAB">>) \o fields[n]

LineStep(fields) ==
    [x \in Seq(Symbols) \X (1..Len(fields)) |->
       x[1] \o (IF x[2] = 1 THEN <<>> ELSE <<"TAB">>) \o fields[x[2]]]

\* A line with one more field is a text.
LEMMA LineStepTyped ==
    ASSUME NEW fields \in Seq(Seq(Symbols))
    PROVE  LineStep(fields) \in [Seq(Symbols) \X (1..Len(fields)) -> Seq(Symbols)]
<1>1. ASSUME NEW s \in Seq(Symbols), NEW n \in 1..Len(fields)
      PROVE  s \o (IF n = 1 THEN <<>> ELSE <<"TAB">>) \o fields[n] \in Seq(Symbols)
  <2>1. fields[n] \in Seq(Symbols)
    BY ElementOfSeq
  <2>2. "TAB" \in Symbols
    BY DEF Symbols
  <2>3. (IF n = 1 THEN <<>> ELSE <<"TAB">>) \in Seq(Symbols)
    BY <2>2
  <2>4. \A t, u \in Seq(Symbols) : t \o u \in Seq(Symbols)
    BY ConcatProperties
  <2> HIDE <2>2
  <2> QED
    BY <2>1, <2>3, <2>4
<1> QED
  BY <1>1 DEF LineStep

\* A row has a line.
LEMMA LineSolution ==
    ASSUME NEW fields \in Seq(Seq(Symbols))
    PROVE  \E f : LineLaw(f, fields)
<1>1. Len(fields) \in Nat
  BY LenProperties
<1>2. <<>> \in Seq(Symbols)
  OBVIOUS
<1>3. Solutions(Len(fields), Seq(Symbols), <<>>, LineStep(fields)) # {}
  BY <1>1, <1>2, LineStepTyped, RecursionHasSolution
<1>4. PICK f : f \in Solutions(Len(fields), Seq(Symbols), <<>>, LineStep(fields))
  BY <1>3
<1> DEFINE step == LineStep(fields)
<1>5. /\ f \in [0..Len(fields) -> Seq(Symbols)] /\ f[0] = <<>>
      /\ \A n \in 1..Len(fields) : f[n] = step[<<f[n - 1], n>>]
  BY <1>4 DEF Solutions
<1>6. ASSUME NEW n \in 1..Len(fields)
      PROVE  f[n] = f[n - 1] \o (IF n = 1 THEN <<>> ELSE <<"TAB">>) \o fields[n]
  <2>1. n - 1 \in 0..Len(fields)
    BY <1>1
  <2>2. <<f[n - 1], n>> \in Seq(Symbols) \X (1..Len(fields))
    BY <1>5, <2>1
  <2>3. step[<<f[n - 1], n>>] = f[n - 1] \o (IF n = 1 THEN <<>> ELSE <<"TAB">>) \o fields[n]
    BY <2>2 DEF LineStep
  <2> QED
    BY <1>5, <2>3
<1> QED
  BY <1>5, <1>6 DEF LineLaw

\* The fields of a row.
FieldsOf(row, columns) == [i \in DOMAIN columns |-> Field(row[i], columns[i])]

\* Line() is an error if a value is refused, and made field by field if none is.
LEMMA LineEquation ==
    ASSUME NEW columns \in Seq(DeclaredColumns), NEW row,
           \A i \in 1..Len(columns) : IsValue(row[i])
    PROVE  /\ FieldsOf(row, columns) \in Seq(Seq(Symbols))
           /\ Len(FieldsOf(row, columns)) = Len(columns)
           /\ (\E i \in 1..Len(columns) : ~Accepts(row[i], columns[i])) =>
                Line(row, columns) = Error
           /\ (\A i \in 1..Len(columns) : Accepts(row[i], columns[i])) =>
                \E f : /\ LineLaw(f, FieldsOf(row, columns))
                       /\ Line(row, columns) = Append(f[Len(columns)], "LF")
<1> DEFINE N == Len(columns)
           fields == FieldsOf(row, columns)
<1>1. N \in Nat /\ DOMAIN columns = 1..N /\ \A i \in 1..N : columns[i] \in DeclaredColumns
  BY LenProperties, ElementOfSeq
<1>2. /\ fields = [i \in 1..N |-> Field(row[i], columns[i])]
      /\ \A i \in 1..N : /\ Field(row[i], columns[i]) \in Seq(Symbols)
                         /\ Field(row[i], columns[i]) = Error <=> ~Accepts(row[i], columns[i])
  <2>1. fields = [i \in 1..N |-> Field(row[i], columns[i])]
    BY <1>1 DEF FieldsOf
  <2> HIDE DEF fields, N
  <2>2. \A i \in 1..N : /\ Field(row[i], columns[i]) \in Seq(Symbols)
                        /\ Field(row[i], columns[i]) = Error <=> ~Accepts(row[i], columns[i])
    BY <1>1, FieldTyped DEF N
  <2> QED
    BY <2>1, <2>2
<1> HIDE DEF fields, N
<1>3. fields \in Seq(Seq(Symbols)) /\ Len(fields) = N /\ DOMAIN fields = 1..N
  <2>1. fields \in [1..N -> Seq(Symbols)]
    BY <1>2
  <2> QED
    BY <1>1, <2>1
<1>4. ASSUME NEW i \in 1..N, ~Accepts(row[i], columns[i]) PROVE Line(row, columns) = Error
  <2>1. \E j \in DOMAIN fields : fields[j] = Error
    BY <1>2, <1>3, <1>4
  <2> QED
    BY <2>1 DEF Line, fields, FieldsOf
<1>5. ASSUME \A i \in 1..N : Accepts(row[i], columns[i])
      PROVE  \E f : LineLaw(f, fields) /\ Line(row, columns) = Append(f[N], "LF")
  <2> DEFINE body(g) == [n \in 0..N |->
                           IF n = 0 THEN <<>>
                           ELSE g[n - 1] \o (IF n = 1 THEN <<>> ELSE <<"TAB">>) \o fields[n]]
             line == CHOOSE g : g = body(g)
             put(s, n) == s \o (IF n = 1 THEN <<>> ELSE <<"TAB">>) \o fields[n]
  <2>1. ~(\E j \in DOMAIN fields : fields[j] = Error)
    BY <1>2, <1>3, <1>5
  <2>2. Line(row, columns) = Append(line[N], "LF")
    BY <2>1 DEF Line, fields, FieldsOf, N
  <2>3. PICK f : LineLaw(f, fields)
    BY <1>3, LineSolution
  <2>4. /\ f \in [0..N -> Seq(Symbols)] /\ f[0] = <<>>
        /\ \A n \in 1..N : f[n] = put(f[n - 1], n)
    BY <1>3, <2>3 DEF LineLaw
  <2>5. \A g : body(g) = [n \in 0..N |-> IF n = 0 THEN <<>> ELSE put(g[n - 1], n)]
    OBVIOUS
  <2> HIDE DEF put
  <2>6. f = body(f)
    <3>1. ASSUME NEW n \in 0..N PROVE f[n] = IF n = 0 THEN <<>> ELSE put(f[n - 1], n)
      <4>1. CASE n = 0
        BY <2>4, <4>1
      <4>2. CASE n # 0
        <5>1. n \in 1..N
          BY <1>1, <4>2
        <5> QED
          BY <2>4, <4>2, <5>1
      <4> QED
        BY <4>1, <4>2
    <3>2. f = [n \in 0..N |-> f[n]]
      BY <2>4
    <3> HIDE DEF body
    <3> QED
      BY <2>5, <3>1, <3>2
  <2> HIDE DEF body
  <2>7. line = body(line)
    BY <2>6
  <2> HIDE DEF line
  <2>8. \A n \in 0..N : line[n] = IF n = 0 THEN <<>> ELSE put(line[n - 1], n)
    BY <2>5, <2>7
  <2>9. line[0] = <<>> /\ \A n \in 1..N : line[n] = put(line[n - 1], n)
    <3>1. 0 \in 0..N /\ \A n \in 1..N : n \in 0..N /\ n # 0
      BY <1>1
    <3>2. line[0] = <<>>
      BY <2>8, <3>1
    <3>3. \A n \in 1..N : line[n] = put(line[n - 1], n)
      BY <2>8, <3>1
    <3> QED
      BY <3>2, <3>3
  <2> DEFINE Same == {n \in Nat : n <= N => line[n] = f[n]}
  <2>10. Nat \subseteq Same
    <3>1. 0 \in Same
      BY <2>4, <2>9
    <3>2. ASSUME NEW n \in Nat, n \in Same PROVE n + 1 \in Same
      <4> SUFFICES ASSUME n + 1 <= N PROVE line[n + 1] = f[n + 1]
        OBVIOUS
      <4>1. n + 1 \in 1..N /\ (n + 1) - 1 = n /\ line[n] = f[n]
        BY <1>1, <3>2
      <4> HIDE DEF Same
      <4> QED
        BY <2>4, <2>9, <4>1
    <3> HIDE DEF Same
    <3> QED
      BY <3>1, <3>2, SetInduction
  <2>11. line[N] = f[N]
    BY <1>1, <2>10
  <2> QED
    BY <2>2, <2>3, <2>11
<1> QED
  BY <1>3, <1>4, <1>5 DEF fields, N

\* The first n.
Taken(s, n) == [i \in 1..n |-> s[i]]

\* One more at a time, up to all.
LEMMA TakenProperties ==
    ASSUME NEW S, NEW s \in Seq(S)
    PROVE  /\ Taken(s, 0) = <<>> /\ Taken(s, Len(s)) = s
           /\ \A n \in 0..Len(s) : Taken(s, n) \in Seq(S) /\ Len(Taken(s, n)) = n
           /\ \A n \in 1..Len(s) : Append(Taken(s, n - 1), s[n]) = Taken(s, n)
<1>1. /\ Len(s) \in Nat /\ DOMAIN s = 1..Len(s) /\ \A i \in 1..Len(s) : s[i] \in S
      /\ s = [i \in 1..Len(s) |-> s[i]]
  BY LenProperties, ElementOfSeq
<1>2. Taken(s, Len(s)) = s
  BY <1>1 DEF Taken
<1>3. ASSUME NEW n \in 0..Len(s) PROVE Taken(s, n) \in Seq(S) /\ Len(Taken(s, n)) = n
  <2>1. Taken(s, n) \in [1..n -> S] /\ n \in Nat
    BY <1>1 DEF Taken
  <2> QED
    BY <2>1
<1>4. Taken(s, 0) = <<>>
  <2>1. 0 \in 0..Len(s)
    BY <1>1
  <2>2. Taken(s, 0) \in Seq(S) /\ Len(Taken(s, 0)) = 0
    BY <1>3, <2>1
  <2> QED
    BY <2>2, EmptySeq
<1>5. ASSUME NEW n \in 1..Len(s) PROVE Append(Taken(s, n - 1), s[n]) = Taken(s, n)
  <2>1. n - 1 \in 0..Len(s) /\ n \in 0..Len(s) /\ s[n] \in S /\ (n - 1) + 1 = n /\ n \in Nat
    BY <1>1
  <2>2. /\ Taken(s, n - 1) \in Seq(S) /\ Len(Taken(s, n - 1)) = n - 1
        /\ Taken(s, n) \in Seq(S) /\ Len(Taken(s, n)) = n
    BY <1>3, <2>1
  <2> DEFINE t == Taken(s, n - 1)
             u == Append(t, s[n])
  <2>3. /\ \A i \in 1..(n - 1) : t[i] = s[i]
        /\ \A i \in 1..n : Taken(s, n)[i] = s[i]
    BY DEF Taken
  <2> HIDE DEF t
  <2>4. /\ u \in Seq(S) /\ Len(u) = n /\ \A i \in 1..(n - 1) : u[i] = t[i]
        /\ u[n] = s[n]
    BY <2>1, <2>2, AppendProperties DEF t
  <2> HIDE DEF u
  <2>5. ASSUME NEW i \in 1..n PROVE u[i] = Taken(s, n)[i]
    <3>1. i \in 1..(n - 1) \/ i = n
      BY <2>1
    <3> QED
      BY <2>3, <2>4, <3>1
  <2>6. u = Taken(s, n)
    BY <2>2, <2>4, <2>5, SeqEqual
  <2> QED
    BY <2>6 DEF u, t
<1> QED
  BY <1>2, <1>3, <1>4, <1>5

\* A tab ends a field.
LEMMA ReadsTab ==
    ASSUME NEW done, NEW line, NEW raw \in Seq(Symbols), NEW text \in Seq(Symbols), NEW columns,
           NEW field, field = Ended(raw, text, columns[Len(line) + 1].family)
    PROVE  Goes(State(done, line, raw, text, FALSE), "TAB",
                State(done, Append(line, field), <<>>, <<>>, FALSE), columns)
<1>1. "TAB" \in Symbols
  BY DEF Symbols
<1>2. Ends(State(done, line, raw, text, FALSE), columns) = field
  BY DEF Ends, Ended, State
<1> QED
  BY <1>1, <1>2 DEF Goes, ReadCharacter, State

\* A line feed ends a field and a line.
LEMMA ReadsLineFeed ==
    ASSUME NEW done, NEW line, NEW raw \in Seq(Symbols), NEW text \in Seq(Symbols), NEW columns,
           NEW field, field = Ended(raw, text, columns[Len(line) + 1].family)
    PROVE  Goes(State(done, line, raw, text, FALSE), "LF",
                State(Append(done, Append(line, field)), <<>>, <<>>, <<>>, FALSE), columns)
<1>1. "LF" \in Symbols
  BY DEF Symbols
<1>2. Ends(State(done, line, raw, text, FALSE), columns) = field
  BY DEF Ends, Ended, State
<1> QED
  BY <1>1, <1>2 DEF Goes, ReadCharacter, State, Reading

\* So far: fields before the last, and the last, that has not ended.
SoFar(text, field, stored, n, done, columns) ==
    /\ text \in Seq(Symbols)
    /\ \E t \in Seq(Symbols) :
         /\ Reads(State(done, <<>>, <<>>, <<>>, FALSE), text,
                  State(done, Taken(stored, n - 1), field, t, FALSE), columns)
         /\ Ended(field, t, columns[n].family) = stored[n]

\* A tab and one more field.
LEMMA OneMoreField ==
    ASSUME NEW S, NEW stored \in Seq(S), NEW columns, NEW done,
           NEW n \in 1..Len(stored), n > 1,
           NEW text, NEW last \in Seq(Symbols), NEW field \in Seq(Symbols),
           SoFar(text, last, stored, n - 1, done, columns),
           FieldRead(field, stored[n], columns[n].family, done, Taken(stored, n - 1), columns)
    PROVE  SoFar(text \o <<"TAB">> \o field, field, stored, n, done, columns)
<1> DEFINE from == State(done, <<>>, <<>>, <<>>, FALSE)
<1>1. PICK t \in Seq(Symbols) :
        /\ Reads(from, text, State(done, Taken(stored, n - 1 - 1), last, t, FALSE), columns)
        /\ Ended(last, t, columns[n - 1].family) = stored[n - 1]
  BY DEF SoFar
<1>2. PICK u \in Seq(Symbols) :
        /\ Reads(State(done, Taken(stored, n - 1), <<>>, <<>>, FALSE), field,
                 State(done, Taken(stored, n - 1), field, u, FALSE), columns)
        /\ Ended(field, u, columns[n].family) = stored[n]
  BY DEF FieldRead
<1>3. /\ n - 1 \in 1..Len(stored) /\ n - 1 - 1 \in 0..Len(stored) /\ (n - 1 - 1) + 1 = n - 1
      /\ text \in Seq(Symbols) /\ "TAB" \in Symbols
  BY LenProperties DEF SoFar, Symbols
<1> DEFINE line == Taken(stored, n - 1 - 1)
<1>4. Len(line) + 1 = n - 1 /\ Append(line, stored[n - 1]) = Taken(stored, n - 1)
  <2>1. Len(line) = n - 1 - 1
    <3> DEFINE k == n - 1 - 1
    <3>1. k \in 0..Len(stored)
      BY <1>3
    <3> HIDE DEF k
    <3>2. Len(Taken(stored, k)) = k
      BY <3>1, TakenProperties
    <3> QED
      BY ONLY <3>2 DEF k
  <2>2. Append(Taken(stored, n - 1 - 1), stored[n - 1]) = Taken(stored, n - 1)
    BY <1>3, TakenProperties
  <2> QED
    BY <1>3, <2>1, <2>2
<1> DEFINE via == State(done, line, last, t, FALSE)
           over == State(done, Taken(stored, n - 1), <<>>, <<>>, FALSE)
           to == State(done, Taken(stored, n - 1), field, u, FALSE)
<1> HIDE DEF line
<1>5. Goes(via, "TAB", over, columns)
  <2>1. stored[n - 1] = Ended(last, t, columns[Len(line) + 1].family)
    BY <1>1, <1>4
  <2>2. Goes(via, "TAB", State(done, Append(line, stored[n - 1]), <<>>, <<>>, FALSE), columns)
    BY <2>1, ReadsTab
  <2> QED
    BY <1>4, <2>2
<1>6. Reads(from, text, via, columns) /\ Reads(over, field, to, columns)
  BY <1>1, <1>2 DEF line
<1> HIDE DEF from, via, over, to
<1>7. Reads(from, Then(text, "TAB"), over, columns)
  BY <1>3, <1>5, <1>6, GoesOn
<1>8. Then(text, "TAB") \in Seq(Symbols)
  BY <1>3, ThenProperties
<1>9. Reads(from, Then(text, "TAB") \o field, to, columns)
  BY <1>6, <1>7, <1>8, ReadsOn
<1>10. Then(text, "TAB") \o field \in Seq(Symbols)
  BY <1>8, ConcatProperties
<1>11. Then(text, "TAB") \o field = text \o <<"TAB">> \o field
  BY DEF Then
<1> QED
  BY <1>2, <1>9, <1>10, <1>11 DEF SoFar, from, to

-----------------------------------------------------------------------------
(* A line is read back as the row that COPY has accepted.                  *)

\* A row as the table then holds it.
StoredRow(row, columns) == [i \in DOMAIN columns |-> Loads(row[i], columns[i])]

\* A line up to any of its fields.
LEMMA LineSoFar ==
    ASSUME NEW columns \in Seq(DeclaredColumns), NEW row, NEW done, NEW f,
           \A i \in 1..Len(columns) : IsValue(row[i]) /\ Accepts(row[i], columns[i]),
           LineLaw(f, FieldsOf(row, columns)), NEW n \in 1..Len(columns)
    PROVE  SoFar(f[n], FieldsOf(row, columns)[n], StoredRow(row, columns), n, done, columns)
<1> DEFINE N == Len(columns)
           fields == FieldsOf(row, columns)
           S == {Loads(row[i], columns[i]) : i \in 1..N}
           stored == StoredRow(row, columns)
<1>1. N \in Nat /\ DOMAIN columns = 1..N /\ \A i \in 1..N : columns[i] \in DeclaredColumns
  BY LenProperties, ElementOfSeq
<1>2. stored \in Seq(S) /\ Len(stored) = N /\ \A i \in 1..N : stored[i] = Loads(row[i], columns[i])
  <2>1. stored = [i \in 1..N |-> Loads(row[i], columns[i])]
    BY <1>1 DEF StoredRow
  <2> HIDE DEF stored, N
  <2>2. stored \in [1..N -> S]
    BY <2>1
  <2> HIDE DEF S
  <2> QED
    BY <1>1, <2>1, <2>2
<1>3. fields \in Seq(Seq(Symbols)) /\ Len(fields) = N
  BY LineEquation
<1>4. /\ f[0] = <<>>
      /\ \A k \in 1..N : f[k] = f[k - 1] \o (IF k = 1 THEN <<>> ELSE <<"TAB">>) \o fields[k]
  BY <1>3 DEF LineLaw
<1>5. \A k \in 1..N : fields[k] = Field(row[k], columns[k])
  BY <1>1 DEF FieldsOf
<1> HIDE DEF fields, stored, S, N
<1>6. ASSUME NEW k \in 1..N, NEW line
      PROVE  /\ fields[k] \in Seq(Symbols)
             /\ FieldRead(fields[k], stored[k], columns[k].family, done, line, columns)
  BY <1>1, <1>2, <1>5, FieldReadsBack DEF N
<1> DEFINE Good == {k \in Nat : k \in 1..N => SoFar(f[k], fields[k], stored, k, done, columns)}
<1>7. 0 \in Good
  BY <1>1
<1>8. ASSUME NEW k \in Nat, k \in Good PROVE k + 1 \in Good
  <2> SUFFICES ASSUME k + 1 \in 1..N
               PROVE  SoFar(f[k + 1], fields[k + 1], stored, k + 1, done, columns)
    OBVIOUS
  <2>1. CASE k = 0
    <3>1. 1 \in 1..N /\ (k + 1) = 1 /\ 1 - 1 = 0
      BY <2>1
    <3>2. fields[1] \in Seq(Symbols)
      BY <1>6, <3>1
    <3>3. f[1] = fields[1]
      <4>1. f[1] = f[0] \o <<>> \o fields[1]
        BY <1>4, <3>1
      <4>2. \A s \in Seq(Symbols) : <<>> \o s = s /\ <<>> \o <<>> \o s = s
        <5>1. PICK e \in Seq(Symbols) : e = <<>>
          BY EmptySeq, Zenon
        <5>2. \A s \in Seq(Symbols) : e \o s = s
          BY <5>1, ConcatEmptySeq
        <5>3. e \o e = e
          BY <5>2
        <5> QED
          BY <5>1, <5>2, <5>3
      <4> QED
        BY <1>4, <3>2, <4>1, <4>2
    <3>4. Taken(stored, 0) = <<>>
      BY <1>2, TakenProperties
    <3>5. FieldRead(fields[1], stored[1], columns[1].family, done, <<>>, columns)
      BY <1>6, <3>1
    <3>6. SoFar(f[1], fields[1], stored, 1, done, columns)
      BY <3>1, <3>2, <3>3, <3>4, <3>5 DEF SoFar, FieldRead
    <3> QED
      BY <3>1, <3>6
  <2>2. CASE k # 0
    <3>1. /\ k \in 1..N /\ k + 1 \in 1..N /\ k + 1 > 1 /\ k + 1 # 1 /\ (k + 1) - 1 = k
          /\ SoFar(f[k], fields[k], stored, k, done, columns)
      BY <1>1, <1>8, <2>2
    <3> HIDE DEF Good
    <3>2. f[k + 1] = f[k] \o <<"TAB">> \o fields[k + 1]
      BY <1>4, <3>1
    <3>3. fields[k] \in Seq(Symbols) /\ fields[k + 1] \in Seq(Symbols)
      BY <1>6, <3>1
    <3>4. FieldRead(fields[k + 1], stored[k + 1], columns[k + 1].family, done,
                    Taken(stored, k), columns)
      BY <1>6, <3>1
    <3>5. k + 1 \in 1..Len(stored) /\ stored \in Seq(S)
      BY <1>2, <3>1
    <3>6. SoFar(f[k] \o <<"TAB">> \o fields[k + 1], fields[k + 1], stored, k + 1, done, columns)
      BY <3>1, <3>3, <3>4, <3>5, OneMoreField
    <3> QED
      BY <3>2, <3>6
  <2> QED
    BY <2>1, <2>2
<1> HIDE DEF Good
<1>9. Nat \subseteq Good
  BY <1>7, <1>8, SetInduction
<1>10. n \in Good /\ n \in 1..N
  BY <1>1, <1>9 DEF N
<1> QED
  BY <1>10 DEF Good, fields, stored

\* A whole line, which is never taken for an error.
LEMMA LineReadsBack ==
    ASSUME NEW columns \in Seq(DeclaredColumns), columns # <<>>, NEW row, NEW done,
           \A i \in 1..Len(columns) : IsValue(row[i]),
           \A i \in 1..Len(columns) : Accepts(row[i], columns[i])
    PROVE  /\ Line(row, columns) \in Seq(Symbols) /\ Line(row, columns) # Error
           /\ Reads(State(done, <<>>, <<>>, <<>>, FALSE), Line(row, columns),
                    State(Append(done, StoredRow(row, columns)), <<>>, <<>>, <<>>, FALSE), columns)
<1> DEFINE N == Len(columns)
           stored == StoredRow(row, columns)
           fields == FieldsOf(row, columns)
           S == {Loads(row[i], columns[i]) : i \in 1..N}
<1>1. N \in Nat \ {0} /\ DOMAIN columns = 1..N /\ N \in 1..N
  <2>1. N \in Nat /\ N # 0 /\ DOMAIN columns = 1..N
    BY LenProperties, EmptySeq
  <2> QED
    BY <2>1
<1>2. PICK f : LineLaw(f, fields) /\ Line(row, columns) = Append(f[N], "LF")
  BY LineEquation
<1>3. SoFar(f[N], fields[N], stored, N, done, columns)
  BY <1>1, <1>2, LineSoFar
<1>4. stored \in Seq(S) /\ Len(stored) = N
  <2>1. stored = [i \in 1..N |-> Loads(row[i], columns[i])]
    BY <1>1 DEF StoredRow
  <2> HIDE DEF stored, N
  <2>2. stored \in [1..N -> S]
    BY <2>1
  <2> HIDE DEF S
  <2> QED
    BY <1>1, <2>1, <2>2
<1>5. fields[N] \in Seq(Symbols)
  BY <1>1, LineEquation, ElementOfSeq
<1> HIDE DEF N, stored, fields, S
<1> DEFINE from == State(done, <<>>, <<>>, <<>>, FALSE)
<1>6. PICK t \in Seq(Symbols) :
        /\ Reads(from, f[N], State(done, Taken(stored, N - 1), fields[N], t, FALSE), columns)
        /\ Ended(fields[N], t, columns[N].family) = stored[N]
  BY <1>3 DEF SoFar
<1>7. f[N] \in Seq(Symbols) /\ "LF" \in Symbols /\ "ERROR" \in Symbols
  BY <1>3 DEF SoFar, Symbols
<1> DEFINE line == Taken(stored, N - 1)
<1>8. Len(line) + 1 = N /\ Append(line, stored[N]) = stored
  <2>1. N - 1 \in 0..Len(stored) /\ N \in 1..Len(stored) /\ (N - 1) + 1 = N
    BY <1>1, <1>4
  <2>2. Len(Taken(stored, N - 1)) = N - 1
    BY <1>4, <2>1, TakenProperties
  <2>3. /\ Append(Taken(stored, N - 1), stored[N]) = Taken(stored, N)
        /\ Taken(stored, Len(stored)) = stored
    BY <1>4, <2>1, TakenProperties
  <2> QED
    BY <1>4, <2>1, <2>2, <2>3
<1> HIDE DEF line
<1> DEFINE via == State(done, line, fields[N], t, FALSE)
           to == State(Append(done, stored), <<>>, <<>>, <<>>, FALSE)
<1>9. Goes(via, "LF", to, columns)
  <2>1. stored[N] = Ended(fields[N], t, columns[Len(line) + 1].family)
    BY <1>6, <1>8
  <2>2. Goes(via, "LF", State(Append(done, Append(line, stored[N])), <<>>, <<>>, <<>>, FALSE),
             columns)
    BY <1>5, <2>1, ReadsLineFeed
  <2> QED
    BY <1>8, <2>2
<1>10. Reads(from, f[N], via, columns)
  BY <1>6 DEF line
<1> HIDE DEF from, via, to
<1>11. Reads(from, Then(f[N], "LF"), to, columns)
  BY <1>7, <1>9, <1>10, GoesOn
<1>12. Then(f[N], "LF") = Append(f[N], "LF") /\ Then(f[N], "LF") \in Seq(Symbols)
  <2>1. \A s \in Seq(Symbols), x \in Symbols : Then(s, x) = Append(s, x)
    BY ThenProperties
  <2>2. \A s \in Seq(Symbols), x \in Symbols : Then(s, x) \in Seq(Symbols)
    BY ThenProperties
  <2> QED
    BY <1>7, <2>1, <2>2
<1>13. Then(f[N], "LF") # Error
  <2>1. PICK e \in Seq(Symbols) : e = <<>>
    BY EmptySeq, Zenon
  <2>2. Error = Then(e, "ERROR")
    BY <2>1, NullAndError
  <2>3. Then(f[N], "LF") = Then(e, "ERROR") => "LF" = "ERROR"
    BY <1>7, ThenIsInjective
  <2> QED
    BY <2>2, <2>3
<1> QED
  BY <1>2, <1>11, <1>12, <1>13 DEF from, to, stored

-----------------------------------------------------------------------------
(* The source so far, and the two loaders.                                 *)

\* COPY takes a row.
Takes(p, row) ==
    \A i \in 1..Len(Schema(p)) : Accepts(CopyRow(p, row)[i], TableColumns(p)[i])

\* What the table then holds of it.
Row(p, row) == StoredRow(CopyRow(p, row), TableColumns(p))

\* The columns of a staging table, of which there is one at least.
LEMMA ColumnTypes ==
    ASSUME NEW p \in Payloads
    PROVE  /\ TableColumns(p) \in Seq(DeclaredColumns) /\ TableColumns(p) # <<>>
           /\ Len(TableColumns(p)) = Len(Schema(p)) /\ Len(Schema(p)) \in Nat
           /\ DOMAIN TableColumns(p) = 1..Len(Schema(p))
           /\ \A i \in 1..Len(Schema(p)) : TableColumns(p)[i] = Schema(p)[i][2]
<1> DEFINE n == Len(Schema(p))
<1>1. /\ Schema(p) \in Seq(Symbols \X DeclaredColumns) /\ DOMAIN Schema(p) = 1..n
      /\ n \in Nat
  BY SchemaTypes, LenProperties
<1>2. n # 0
  <2>1. Len(p.schema) \in Nat \ {0} /\ n = Len(p.schema) + (IF p.framework THEN 1 ELSE 0)
    BY SchemaTypes
  <2> HIDE DEF n
  <2>2. CASE p.framework
    BY <2>1, <2>2
  <2>3. CASE ~p.framework
    BY <2>1, <2>3
  <2> QED
    BY <2>2, <2>3
<1>3. TableColumns(p) = [i \in 1..n |-> Schema(p)[i][2]]
  BY <1>1 DEF TableColumns, Schema
<1>4. \A i \in 1..n : Schema(p)[i][2] \in DeclaredColumns
  <2>1. \A i \in 1..n : Schema(p)[i] \in Symbols \X DeclaredColumns
    BY <1>1, ElementOfSeq
  <2> QED
    BY <2>1
<1> HIDE DEF n
<1>5. TableColumns(p) \in [1..n -> DeclaredColumns]
  BY <1>3, <1>4
<1>6. TableColumns(p) \in Seq(DeclaredColumns) /\ Len(TableColumns(p)) = n
  BY <1>1, <1>5
<1>7. TableColumns(p) # <<>>
  BY <1>2, <1>6
<1> QED
  BY <1>1, <1>3, <1>6, <1>7 DEF n

\* COPY writes what is taken, and what it writes is read back.
RowCopied(p, row) ==
    LET line == Line(CopyRow(p, row), TableColumns(p))
    IN /\ line = Error <=> ~Takes(p, row)
       /\ line # Error =>
            /\ line \in Seq(Symbols)
            /\ \A done : Reads(State(done, <<>>, <<>>, <<>>, FALSE), line,
                               State(Append(done, Row(p, row)), <<>>, <<>>, <<>>, FALSE),
                               TableColumns(p))

\* This is so for every row of a source that is projected.
LEMMA CopiedRow ==
    ASSUME NEW p \in Payloads, CopyProjects(p), NEW row \in Yields[p.source]
    PROVE  RowCopied(p, row)
<1> DEFINE copied == CopyRow(p, row)
           columns == TableColumns(p)
<1>1. columns \in Seq(DeclaredColumns) /\ columns # <<>> /\ Len(columns) = Len(Schema(p))
  BY ColumnTypes
<1>2. \A i \in 1..Len(Schema(p)) : IsValue(copied[i])
  BY RowsAgree
<1>3. Takes(p, row) <=> \A i \in 1..Len(columns) : Accepts(copied[i], columns[i])
  BY <1>1 DEF Takes
<1> HIDE DEF copied, columns
<1>4. CASE Takes(p, row)
  <2>1. /\ \A i \in 1..Len(columns) : IsValue(copied[i])
        /\ \A i \in 1..Len(columns) : Accepts(copied[i], columns[i])
    BY <1>1, <1>2, <1>3, <1>4
  <2>2. Line(copied, columns) \in Seq(Symbols) /\ Line(copied, columns) # Error
    BY <1>1, <2>1, LineReadsBack
  <2>3. \A done : Reads(State(done, <<>>, <<>>, <<>>, FALSE), Line(copied, columns),
                        State(Append(done, StoredRow(copied, columns)), <<>>, <<>>, <<>>, FALSE),
                        columns)
    BY <1>1, <2>1, LineReadsBack
  <2> QED
    BY <1>4, <2>2, <2>3 DEF RowCopied, Row, copied, columns
<1>5. CASE ~Takes(p, row)
  <2>1. Line(copied, columns) = Error
    BY <1>1, <1>2, <1>3, <1>5, LineEquation
  <2> QED
    BY <1>5, <2>1 DEF RowCopied, copied, columns
<1> QED
  BY <1>4, <1>5

\* A source so far: the rows that it has yielded, of which COPY has refused none but the
\* last, and a spool that is read back.
Copied(p, rs, spool, refused) ==
    /\ rs \in Seq(Yields[p.source]) /\ refused \in 0..Len(rs) /\ spool \in Seq(Symbols)
    /\ \A k \in 1..Len(rs) : Takes(p, rs[k]) <=> k # refused
    /\ refused = 0 =>
         Reads(Reading, spool, State([k \in DOMAIN rs |-> Row(p, rs[k])], <<>>, <<>>, <<>>, FALSE),
               TableColumns(p))

\* Before the first row.
LEMMA NothingCopied ==
    ASSUME NEW p \in Payloads
    PROVE  Copied(p, <<>>, <<>>, 0)
<1>1. [k \in DOMAIN <<>> |-> Row(p, <<>>[k])] = <<>>
  OBVIOUS
<1>2. Reads(Reading, <<>>, Reading, TableColumns(p))
  BY ReadsNothing
<1>3. Reading = State(<<>>, <<>>, <<>>, <<>>, FALSE)
  BY DEF Reading, State
<1>4. /\ <<>> \in Seq(Yields[p.source]) /\ <<>> \in Seq(Symbols) /\ 0 \in 0..Len(<<>>)
      /\ \A k \in 1..Len(<<>>) : FALSE
  OBVIOUS
<1> QED
  BY <1>1, <1>2, <1>3, <1>4 DEF Copied

\* One more row, taken or refused.
LEMMA OneMoreCopied ==
    ASSUME NEW p \in Payloads, CopyProjects(p), NEW rs, NEW spool, Copied(p, rs, spool, 0),
           NEW row \in Yields[p.source], NEW line, line = Line(CopyRow(p, row), TableColumns(p))
    PROVE  /\ line = Error => Copied(p, Append(rs, row), spool, Len(Append(rs, row)))
           /\ line # Error => Copied(p, Append(rs, row), spool \o line, 0)
<1> DEFINE more == Append(rs, row)
           n == Len(rs)
           columns == TableColumns(p)
           held == [k \in DOMAIN rs |-> Row(p, rs[k])]
           longer == [k \in DOMAIN more |-> Row(p, more[k])]
<1>1. /\ rs \in Seq(Yields[p.source]) /\ spool \in Seq(Symbols)
      /\ \A k \in 1..n : Takes(p, rs[k]) <=> k # 0
      /\ Reads(Reading, spool, State(held, <<>>, <<>>, <<>>, FALSE), columns)
  BY DEF Copied
<1>2. /\ n \in Nat /\ more \in Seq(Yields[p.source]) /\ Len(more) = n + 1
      /\ DOMAIN rs = 1..n /\ DOMAIN more = 1..(n + 1)
      /\ \A k \in 1..n : more[k] = rs[k]
      /\ more[n + 1] = row
  <2>1. /\ more \in Seq(Yields[p.source]) /\ Len(more) = n + 1
        /\ \A k \in 1..n : more[k] = rs[k]
        /\ more[n + 1] = row
    BY <1>1, AppendProperties
  <2> QED
    BY <1>1, <2>1, LenProperties
<1> HIDE DEF more, n
<1>3. /\ line = Error <=> ~Takes(p, row)
      /\ line # Error =>
           /\ line \in Seq(Symbols)
           /\ Reads(State(held, <<>>, <<>>, <<>>, FALSE), line,
                    State(Append(held, Row(p, row)), <<>>, <<>>, <<>>, FALSE), columns)
  <2>1. RowCopied(p, row)
    BY CopiedRow
  <2> QED
    BY <2>1 DEF RowCopied
<1>4. \A k \in 1..n : k # 0 /\ k # n + 1 /\ Takes(p, more[k])
  BY <1>1, <1>2
<1>5. ASSUME line = Error PROVE Copied(p, more, spool, Len(more))
  <2>1. \A k \in 1..(n + 1) : Takes(p, more[k]) <=> k # n + 1
    <3> SUFFICES ASSUME NEW k \in 1..(n + 1) PROVE Takes(p, more[k]) <=> k # n + 1
      OBVIOUS
    <3>1. k \in 1..n \/ k = n + 1
      BY <1>2
    <3> QED
      BY <1>2, <1>3, <1>4, <1>5, <3>1
  <2>2. n + 1 \in 0..(n + 1) /\ n + 1 # 0
    BY <1>2
  <2> QED
    BY <1>1, <1>2, <2>1, <2>2 DEF Copied
<1>6. ASSUME line # Error PROVE Copied(p, more, spool \o line, 0)
  <2>1. \A k \in 1..(n + 1) : Takes(p, more[k]) <=> k # 0
    <3> SUFFICES ASSUME NEW k \in 1..(n + 1) PROVE Takes(p, more[k]) <=> k # 0
      OBVIOUS
    <3>1. (k \in 1..n \/ k = n + 1) /\ k # 0
      BY <1>2
    <3> QED
      BY <1>2, <1>3, <1>4, <1>6, <3>1
  <2>2. Append(held, Row(p, row)) = longer
    <3> DEFINE S == {Row(p, more[k]) : k \in 1..(n + 1)}
    <3>1. held = [k \in 1..n |-> Row(p, more[k])] /\ longer = [k \in 1..(n + 1) |-> Row(p, more[k])]
      BY <1>2
    <3>2. 1..n \subseteq 1..(n + 1) /\ n + 1 \in 1..(n + 1) /\ n + 1 \in Nat
      BY <1>2
    <3>3. held \in [1..n -> S] /\ longer \in [1..(n + 1) -> S] /\ Row(p, row) \in S
      BY <1>2, <3>1, <3>2
    <3> HIDE DEF held, longer, S
    <3>4. held \in Seq(S) /\ longer \in Seq(S) /\ Len(held) = n /\ Len(longer) = n + 1
      BY <1>2, <3>2, <3>3
    <3> DEFINE u == Append(held, Row(p, row))
    <3>5. /\ u \in Seq(S) /\ Len(u) = n + 1 /\ \A k \in 1..n : u[k] = held[k]
          /\ u[n + 1] = Row(p, row)
      BY <3>3, <3>4, AppendProperties
    <3> HIDE DEF u
    <3>6. ASSUME NEW k \in 1..(n + 1) PROVE u[k] = longer[k]
      <4>1. k \in 1..n \/ k = n + 1
        BY <1>2
      <4> QED
        BY <1>2, <3>1, <3>5, <4>1
    <3>7. u = longer
      BY <3>4, <3>5, <3>6, SeqEqual
    <3> QED
      BY <3>7 DEF u
  <2> HIDE DEF longer, held, columns
  <2>3. line \in Seq(Symbols)
    BY <1>3, <1>6
  <2>4. Reads(Reading, spool \o line, State(longer, <<>>, <<>>, <<>>, FALSE), columns)
    BY <1>1, <1>3, <1>6, <2>2, <2>3, ReadsOn
  <2>5. spool \o line \in Seq(Symbols) /\ 0 \in 0..(n + 1)
    BY <1>1, <1>2, <2>3, ConcatProperties
  <2> QED
    BY <1>2, <2>1, <2>4, <2>5 DEF Copied, longer, columns
<1> QED
  BY <1>5, <1>6 DEF more

\* A declared payload, a part of its source, and the two loaders.
LoadInv ==
    payload \in Payloads => Copied(payload, source, copytext, refusedAt)

\* The loaders start in their invariant.
LEMMA LoadInvInit == LoadInit => LoadInv
  BY NothingCopied DEF LoadInit, LoadInv

\* Taking a row keeps it, and nothing else touches it.
LEMMA LoadInvStep == Described /\ LoadInv /\ [LoadNext]_<<vars, load, file>> => LoadInv'
<1> SUFFICES ASSUME Described, LoadInv, [LoadNext]_<<vars, load, file>>, payload' \in Payloads
             PROVE  Copied(payload, source, copytext, refusedAt)'
  BY DEF LoadInv
<1>1. CASE TakeRow
  <2>1. /\ payload' = payload /\ payload \in Payloads /\ CopyProjects(payload)
        /\ refusedAt = 0 /\ Copied(payload, source, copytext, 0)
    BY <1>1 DEF TakeRow, LoadInv
  <2>2. PICK row \in Yields[payload.source] :
          LET line == Line(CopyRow(payload, row), TableColumns(payload)) IN
          /\ source' = Append(source, row)
          /\ IF line = Error
             THEN refusedAt' = Len(source') /\ UNCHANGED copytext
             ELSE copytext' = copytext \o line /\ UNCHANGED refusedAt
    BY <1>1 DEF TakeRow
  <2> DEFINE line == Line(CopyRow(payload, row), TableColumns(payload))
  <2>3. /\ line = Error => Copied(payload, Append(source, row), copytext, Len(Append(source, row)))
        /\ line # Error => Copied(payload, Append(source, row), copytext \o line, 0)
    BY <2>1, OneMoreCopied
  <2> HIDE DEF line
  <2>4. CASE line = Error
    <3>1. /\ source' = Append(source, row) /\ refusedAt' = Len(Append(source, row))
          /\ copytext' = copytext
      BY <2>2, <2>4 DEF line
    <3>2. Copied(payload', source', copytext', refusedAt')
      BY <2>1, <2>3, <2>4, <3>1
    <3> QED
      BY <3>2
  <2>5. CASE line # Error
    <3>1. source' = Append(source, row) /\ refusedAt' = 0 /\ copytext' = copytext \o line
      BY <2>1, <2>2, <2>5 DEF line
    <3>2. Copied(payload', source', copytext', refusedAt')
      BY <2>1, <2>3, <2>5, <3>1
    <3> QED
      BY <3>2
  <2> QED
    BY <2>4, <2>5
<1>2. CASE ~TakeRow
  <2>1. payload' = payload /\ payload \in Payloads
    BY <1>2 DEF LoadNext, Infer, WriteRow, write_neutral_terminator, Truncate, ReadRow, load
  <2>2. payload.mode = "declared"
    BY <2>1, LoadAssumption
  <2>3. UNCHANGED <<source, copytext, refusedAt>>
    BY <1>2, <2>2 DEF LoadNext, Infer, WriteRow, write_neutral_terminator, Truncate, ReadRow, load
  <2>4. Copied(payload', source', copytext', refusedAt')
    BY <2>1, <2>3 DEF LoadInv
  <2> QED
    BY <2>4
<1> QED
  BY <1>1, <1>2

\* INSERT takes a row if COPY does, and stores what COPY reads back, unless there is a
\* signaling NaN in it.
LEMMA RefusalsAgree ==
    ASSUME payload \in Payloads, CopyProjects(payload), NEW row \in Yields[payload.source],
           ~Signaling(payload, row)
    PROVE  /\ Refuses(row) <=> ~Takes(payload, row)
           /\ [i \in DOMAIN Schema(payload) |->
                 Stored(InsertRow(payload, row)[Schema(payload)[i][1]])] = Row(payload, row)
<1> DEFINE schema == Schema(payload)
           n == Len(schema)
           mapping == InsertRow(payload, row)
           copied == CopyRow(payload, row)
           columns == TableColumns(payload)
<1>1. DOMAIN schema = 1..n /\ DOMAIN columns = 1..n /\ \A i \in 1..n : columns[i] = schema[i][2]
  BY SchemaTypes, ColumnTypes
<1>2. \A i \in 1..n : copied[i] = mapping[schema[i][1]]
  BY RowsAgree
<1>3. Refuses(row) <=> \E i \in DOMAIN schema : ~Inserts(mapping[schema[i][1]], schema[i][2])
  BY DEF Refuses, Schema
<1>8. \A i \in DOMAIN columns : ~Signals(copied[i], columns[i])
  BY DEF Signaling
<1>4. Takes(payload, row) <=> \A i \in 1..n : Inserts(copied[i], columns[i])
  BY <1>1, <1>8 DEF Takes, Accepts
<1>5. Row(payload, row) = [i \in DOMAIN columns |-> Stored(copied[i])]
  BY <1>8 DEF Row, StoredRow, Loads
<1> HIDE DEF schema, n, mapping, copied, columns
<1>6. Refuses(row) <=> ~Takes(payload, row)
  BY <1>1, <1>2, <1>3, <1>4
<1>7. [i \in DOMAIN schema |-> Stored(mapping[schema[i][1]])] = Row(payload, row)
  BY <1>1, <1>2, <1>5
<1> QED
  BY <1>6, <1>7 DEF schema, mapping

\* In it, they agree.
LEMMA LoadInvAgrees == Described /\ LoadInv => LoadersAgree
<1> SUFFICES ASSUME Described, LoadInv, payload.mode = "declared"
             PROVE  /\ CopyProjects(payload) = InsertProjects(payload)
                    /\ CopyProjects(payload) /\ (\A r \in DOMAIN source : ~Signaling(payload, source[r])) =>
                         /\ refusedAt = InsertRefusedAt
                         /\ refusedAt = 0 => CopyFrom(copytext, TableColumns(payload)) = Inserted
  BY DEF LoadersAgree
<1>1. payload \in Payloads
  <2>1. \A d \in Inspected : d.mode = "schema"
    BY InspectedAssumption
  <2>2. \A p \in Stagings : p.mode = "staging"
    BY StagingAssumption
  <2>3. payload \in {Inferred, Framed} \cup Payloads \cup Stagings \cup Inspected
    BY DEF Described
  <2> QED
    BY ONLY <2>1, <2>2, <2>3, payload.mode = "declared" DEF Inferred, Framed
<1>2. CopyProjects(payload) = InsertProjects(payload)
  BY <1>1, ProjectionsAgree
<1>3. ASSUME CopyProjects(payload), \A r \in DOMAIN source : ~Signaling(payload, source[r])
      PROVE  /\ refusedAt = InsertRefusedAt
             /\ refusedAt = 0 => CopyFrom(copytext, TableColumns(payload)) = Inserted
  <2> DEFINE n == Len(source)
             held == [k \in DOMAIN source |-> Row(payload, source[k])]
  <2>1. Copied(payload, source, copytext, refusedAt)
    BY <1>1 DEF LoadInv
  <2>2. /\ source \in Seq(Yields[payload.source]) /\ refusedAt \in 0..n /\ copytext \in Seq(Symbols)
        /\ \A k \in 1..n : Takes(payload, source[k]) <=> k # refusedAt
        /\ refusedAt = 0 =>
             Reads(Reading, copytext, State(held, <<>>, <<>>, <<>>, FALSE), TableColumns(payload))
    BY <2>1 DEF Copied
  <2>3. n \in Nat /\ DOMAIN source = 1..n /\ \A k \in 1..n : source[k] \in Yields[payload.source]
    BY <2>2, LenProperties, ElementOfSeq
  <2>4. \A k \in 1..n :
          /\ Refuses(source[k]) <=> k = refusedAt
          /\ [i \in DOMAIN Schema(payload) |->
                Stored(InsertRow(payload, source[k])[Schema(payload)[i][1]])]
               = Row(payload, source[k])
    BY <1>1, <1>3, <2>2, <2>3, RefusalsAgree
  <2> HIDE DEF n
  <2>5. refusedAt = InsertRefusedAt
    <3> DEFINE refused == {i \in DOMAIN source : Refuses(source[i])}
    <3>1. refused = {i \in 1..n : i = refusedAt}
      BY <2>3, <2>4
    <3>2. InsertRefusedAt = IF refused = {} THEN 0
                            ELSE CHOOSE i \in refused : \A j \in refused : i <= j
      BY DEF InsertRefusedAt
    <3> HIDE DEF refused
    <3>3. CASE refusedAt = 0
      <4>1. refused = {}
        BY <2>3, <3>1, <3>3
      <4> QED
        BY <3>2, <3>3, <4>1
    <3>4. CASE refusedAt # 0
      <4>1. refused = {refusedAt} /\ refusedAt \in Nat
        BY <2>2, <2>3, <3>1, <3>4
      <4>2. (CHOOSE i \in {refusedAt} : \A j \in {refusedAt} : i <= j) = refusedAt
        BY <4>1
      <4> QED
        BY <3>2, <4>1, <4>2
    <3> QED
      BY <3>3, <3>4
  <2>6. Inserted = held
    <3>1. Inserted = [r \in DOMAIN source |->
                        [i \in DOMAIN Schema(payload) |->
                           Stored(InsertRow(payload, source[r])[Schema(payload)[i][1]])]]
      BY DEF Inserted, Schema
    <3> QED
      BY <2>3, <2>4, <3>1
  <2>7. ASSUME refusedAt = 0 PROVE CopyFrom(copytext, TableColumns(payload)) = held
    <3> HIDE DEF held
    <3>1. CopyFrom(copytext, TableColumns(payload)) = State(held, <<>>, <<>>, <<>>, FALSE).table
      BY <2>2, <2>7, CopyFromReads
    <3>2. State(held, <<>>, <<>>, <<>>, FALSE).table = held
      BY DEF State
    <3> QED
      BY <3>1, <3>2
  <2> QED
    BY <2>5, <2>6, <2>7
<1> QED
  BY <1>2, <1>3

\* INSERT and COPY project a source alike, refuse the same row of it, and store the same
\* table; but for a source with a signaling NaN.
THEOREM LoadersAlwaysAgree == LoadSpec => []LoadersAgree
<1>1. LoadSpec => []LoadInv
  <2>1. LoadInit => LoadInv
    BY LoadInvInit
  <2>2. Described /\ LoadInv /\ [LoadNext]_<<vars, load, file>> => LoadInv'
    BY LoadInvStep
  <2> QED
    BY <2>1, <2>2, DescriptionStays, PTL DEF LoadSpec
<1> QED
  BY <1>1, DescriptionStays, LoadInvAgrees, PTL

-----------------------------------------------------------------------------
(* A number is accepted if and only if its column keeps all of it.         *)

\* The zeros at the end of a number.
LEMMA ZerosAtTheEnd ==
    ASSUME NEW digits \in Seq(0..9), digits # <<>>, digits[1] # 0
    PROVE  LET zeros == TrailingZeros(digits)
           IN /\ zeros \in Nat /\ zeros < Len(digits) /\ digits[Len(digits) - zeros] # 0
              /\ \A i \in (Len(digits) - zeros + 1)..Len(digits) : digits[i] = 0
<1> DEFINE L == Len(digits)
           Zero(n) == \A i \in (L - n + 1)..L : digits[i] = 0
           Ending(n) == Zero(n) /\ (n < L => digits[L - n] # 0)
<1>1. L \in Nat /\ L >= 1
  BY LenProperties, EmptySeq
<1>2. TrailingZeros(digits) = CHOOSE n \in 0..L : Ending(n)
  BY DEF TrailingZeros
<1> HIDE DEF L
<1>3. ~Zero(L)
  <2>1. 1 \in (L - L + 1)..L
    BY <1>1
  <2> QED
    BY <2>1
<1>4. \E n \in 0..L : Ending(n)
  <2> SUFFICES ASSUME \A n \in 0..L : ~Ending(n) PROVE FALSE
    OBVIOUS
  <2> DEFINE S == {n \in Nat : n <= L => Zero(n)}
  <2>1. 0 \in S
    BY <1>1
  <2>2. ASSUME NEW n \in Nat, n \in S PROVE n + 1 \in S
    <3> SUFFICES ASSUME n + 1 <= L, NEW i \in (L - (n + 1) + 1)..L PROVE digits[i] = 0
      OBVIOUS
    <3>1. n \in 0..L /\ n < L /\ n <= L
      BY <1>1
    <3>2. Zero(n)
      BY <2>2, <3>1
    <3>3. digits[L - n] = 0
      BY <3>1, <3>2
    <3>4. i = L - n \/ i \in (L - n + 1)..L
      BY <1>1
    <3> QED
      BY <3>2, <3>3, <3>4
  <2>3. Nat \subseteq S
    <3> HIDE DEF S
    <3> QED
      BY <2>1, <2>2, SetInduction
  <2>4. L \in S
    <3> HIDE DEF S
    <3> QED
      BY <1>1, <2>3
  <2> QED
    BY <1>1, <1>3, <2>4
<1> DEFINE zeros == TrailingZeros(digits)
<1>5. zeros \in 0..L /\ Ending(zeros)
  <2> HIDE DEF Ending
  <2> QED
    BY <1>2, <1>4
<1> HIDE DEF zeros
<1>6. zeros # L
  BY <1>3, <1>5
<1>7. zeros \in Nat /\ zeros < L
  BY <1>1, <1>5, <1>6
<1> QED
  BY <1>5, <1>7 DEF zeros, L

\* A Decimal fits if and only if the column keeps its number.
LEMMA FitsWhatIsKept ==
    ASSUME NEW v, NEW column \in DeclaredColumns, column.precision # 0,
           Digits(v) \in Seq(0..9), Digits(v) # <<>>, Digits(v)[1] = 0 => Len(Digits(v)) = 1,
           Holds(v).exponent \in Int
    PROVE  FitsNumeric(v, column) <=> Kept(Numeral(10, Digits(v)), Holds(v).exponent, column)
<1> DEFINE d == Digits(v)
           L == Len(d)
           N == Numeral(10, d)
           e == Holds(v).exponent
           s == column.scale
           p == column.precision
           ten(k) == Power(10, k)
<1>1. /\ s \in Nat /\ p \in Nat /\ s <= p /\ e \in Int
      /\ d \in Seq(0..9) /\ d # <<>> /\ (d[1] = 0 => L = 1)
  BY DEF DeclaredColumns
<1>2. Kept(N, e, column) <=>
        IF e + s >= 0 THEN N * ten(e + s) < ten(p)
        ELSE N % ten(-(e + s)) = 0 /\ N \div ten(-(e + s)) < ten(p)
  BY DEF Kept
<1>3. FitsNumeric(v, column) <=> FractionalDigits(v) <= s /\ IntegerDigits(v) <= p - s
  BY DEF FitsNumeric
<1>4. IsZero(v) <=> \A i \in DOMAIN d : d[i] = 0
  BY DEF IsZero
<1>5. ~IsZero(v) =>
        /\ FractionalDigits(v) = AtLeastZero(-(e + Stripped(v)))
        /\ IntegerDigits(v) = AtLeastZero(L + e)
  BY DEF FractionalDigits, IntegerDigits
<1>6. IsZero(v) => FractionalDigits(v) = 0 /\ IntegerDigits(v) = 0
  BY DEF FractionalDigits, IntegerDigits
<1>7. Stripped(v) = IF e >= 0 THEN 0
                    ELSE IF TrailingZeros(d) < -e THEN TrailingZeros(d) ELSE -e
  BY DEF Stripped
<1>8. L \in Nat /\ L >= 1 /\ DOMAIN d = 1..L
  BY LenProperties, EmptySeq
<1>9. \A k \in Nat : ten(k) \in Nat /\ ten(k) >= 1
  BY PowerIsPositive
<1> HIDE DEF d, L, N, e, s, p, ten
<1>10. CASE d[1] = 0
  <2>1. L = 1 /\ IsZero(v)
    <3>1. L = 1
      BY <1>1, <1>10
    <3>2. \A i \in DOMAIN d : d[i] = 0
      BY <1>8, <1>10, <3>1
    <3> QED
      BY <1>4, <3>1, <3>2
  <2>2. FitsNumeric(v, column)
    BY <1>1, <1>3, <1>6, <2>1
  <2>3. N = 0
    <3>1. 0..9 \subseteq Nat
      OBVIOUS
    <3>2. d \in Seq(Nat)
      BY <1>1, <3>1, SeqMonotonic
    <3> QED
      BY <1>10, <2>1, <3>2, NumeralOfOne DEF L, N
  <2>4. Kept(N, e, column)
    <3>1. CASE e + s >= 0
      <4>1. ten(e + s) \in Nat /\ ten(p) >= 1 /\ ten(p) \in Nat
        <5>1. p \in Nat /\ e + s \in Nat
          BY <1>1, <3>1
        <5> QED
          BY ONLY <1>9, <5>1
      <4>2. Kept(N, e, column) <=> N * ten(e + s) < ten(p)
        BY <1>2, <3>1
      <4>3. N * ten(e + s) = 0
        BY <2>3, <4>1
      <4> QED
        BY <4>1, <4>2, <4>3
    <3>2. CASE ~(e + s >= 0)
      <4> DEFINE q == ten(-(e + s))
      <4>1. -(e + s) \in Nat
        BY <1>1, <3>2
      <4>2. q \in Nat /\ q >= 1 /\ q # 0 /\ ten(p) >= 1 /\ ten(p) \in Nat
        <5>1. p \in Nat
          BY <1>1
        <5>2. ten(-(e + s)) \in Nat /\ ten(-(e + s)) >= 1
          BY ONLY <1>9, <4>1
        <5>3. ten(p) >= 1 /\ ten(p) \in Nat
          BY ONLY <1>9, <5>1
        <5>4. q \in Nat /\ q >= 1
          BY ONLY <5>2 DEF q
        <5> HIDE DEF q
        <5> QED
          BY ONLY <5>3, <5>4
      <4>3. Kept(N, e, column) <=> N % q = 0 /\ N \div q < ten(p)
        BY <1>2, <3>2
      <4> HIDE DEF q
      <4>4. 0 * q = 0
        BY <4>2
      <4>5. 0 % q = 0
        BY <4>2, <4>4, MultipleLeavesNothing
      <4>6. 0 \div q = 0
        BY <4>2, <4>4, QuotientIs
      <4>7. N % q = 0 /\ N \div q = 0
        BY <2>3, <4>5, <4>6
      <4> QED
        BY <4>2, <4>3, <4>7
    <3> QED
      BY <3>1, <3>2
  <2> QED
    BY <2>2, <2>4 DEF N, d, e
<1>11. CASE d[1] # 0
  <2> DEFINE z == TrailingZeros(d)
  <2>1. /\ z \in Nat /\ z < L /\ d[L - z] # 0
        /\ \A i \in (L - z + 1)..L : d[i] = 0
    BY <1>1, <1>11, ZerosAtTheEnd DEF L
  <2>2. N \in Nat /\ N < ten(L) /\ N >= ten(L - 1)
    <3> DEFINE b == 10
    <3>1. b \in Nat /\ b >= 2 /\ d \in Seq(0..(b - 1))
      BY <1>1
    <3> HIDE DEF b
    <3>2. /\ Numeral(b, d) \in Nat /\ Numeral(b, d) < Power(b, Len(d))
          /\ Numeral(b, d) >= Power(b, Len(d) - 1)
      BY <1>1, <1>11, <3>1, NumeralBounds
    <3> QED
      BY <3>2 DEF b, N, L, ten
  <2>3. \A k \in Nat : N % ten(k) = 0 <=> k <= z
    <3> SUFFICES ASSUME NEW k \in Nat PROVE N % ten(k) = 0 <=> k <= z
      OBVIOUS
    <3> DEFINE b == 10
    <3>1. b \in Nat /\ b >= 2 /\ d \in Seq(0..(b - 1))
      BY <1>1
    <3> HIDE DEF b, z
    <3>2. /\ z < Len(d) /\ d[Len(d) - z] # 0
          /\ \A i \in (Len(d) - z + 1)..Len(d) : d[i] = 0
      BY <2>1 DEF L
    <3>3. Numeral(b, d) % Power(b, k) = 0 <=> k <= z
      BY <2>1, <3>1, <3>2, NumeralDivides
    <3> QED
      BY <3>3 DEF b, N, ten
  <2>4. \A k, m \in Nat : /\ N * ten(k) < ten(m) <=> L + k <= m
                          /\ N \div ten(k) < ten(m) <=> L - k <= m
    <3> SUFFICES ASSUME NEW k \in Nat, NEW m \in Nat
                 PROVE  /\ N * ten(k) < ten(m) <=> L + k <= m
                        /\ N \div ten(k) < ten(m) <=> L - k <= m
      OBVIOUS
    <3> QED
      BY <1>8, <2>2, ShiftedBelow DEF ten
  <2>5. ~IsZero(v)
    BY <1>4, <1>8, <1>11
  <2> HIDE DEF z
  <2>6. FractionalDigits(v) <= s <=> e + s >= 0 \/ -(e + s) <= z
    <3>1. FractionalDigits(v) = AtLeastZero(-(e + Stripped(v)))
      BY <1>5, <2>5
    <3>2. Stripped(v) = IF e >= 0 THEN 0 ELSE IF z < -e THEN z ELSE -e
      BY <1>7 DEF z
    <3> QED
      BY <1>1, <2>1, <3>1, <3>2 DEF AtLeastZero
  <2>7. IntegerDigits(v) <= p - s <=> L + e <= p - s
    <3>1. IntegerDigits(v) = AtLeastZero(L + e)
      BY <1>5, <2>5
    <3> QED
      BY <1>1, <1>8, <3>1 DEF AtLeastZero
  <2>8. CASE e + s >= 0
    <3>1. e + s \in Nat /\ (L + (e + s) <= p <=> L + e <= p - s)
      BY <1>1, <1>8, <2>8
    <3>2. N * ten(e + s) < ten(p) <=> L + (e + s) <= p
      BY <1>1, <2>4, <3>1
    <3>3. Kept(N, e, column) <=> L + e <= p - s
      BY <1>2, <2>8, <3>1, <3>2
    <3>4. FitsNumeric(v, column) <=> L + e <= p - s
      BY <1>3, <2>6, <2>7, <2>8
    <3> QED
      BY <3>3, <3>4 DEF N, d, e
  <2>9. CASE ~(e + s >= 0)
    <3> DEFINE k == -(e + s)
    <3>1. k \in Nat /\ (L - k <= p <=> L + e <= p - s)
      BY <1>1, <1>8, <2>9
    <3>2. Kept(N, e, column) <=> N % ten(k) = 0 /\ N \div ten(k) < ten(p)
      BY <1>2, <2>9
    <3> HIDE DEF k
    <3>3. Kept(N, e, column) <=> k <= z /\ L + e <= p - s
      BY <1>1, <2>3, <2>4, <3>1, <3>2
    <3>4. FitsNumeric(v, column) <=> k <= z /\ L + e <= p - s
      BY <1>3, <2>6, <2>7, <2>9 DEF k
    <3> QED
      BY <3>3, <3>4 DEF N, d, e
  <2> QED
    BY <2>8, <2>9
<1> QED
  BY <1>10, <1>11

\* So does an integer.
LEMMA IntegersFit ==
    ASSUME NEW n \in Int, NEW column \in DeclaredColumns, column.precision # 0
    PROVE  FitsNumeric(Value("Decimal", AsDecimal(n)), column) <=> Kept(Magnitude(n), 0, column)
<1> DEFINE m == Magnitude(n)
           l == DigitsOf(m)
           d == InDigits(10, m, l)
           v == Value("Decimal", AsDecimal(n))
<1>1. m \in Nat
  BY DEF Magnitude
<1>2. Digits(v) = d /\ Holds(v).exponent = 0
  BY DEF Digits, Holds, Value, AsDecimal
<1> HIDE DEF m, v
<1>3. l \in 1..(m + 1) /\ m < Power(10, l) /\ (l > 1 => m >= Power(10, l - 1))
  <2> DEFINE Has(k) == m < Power(10, k) /\ (k > 1 => m >= Power(10, k - 1))
  <2>1. \E k \in 1..(m + 1) : Has(k)
    BY <1>1, NumberOfDigits
  <2>2. l = CHOOSE k \in 1..(m + 1) : Has(k)
    BY DEF DigitsOf
  <2> HIDE DEF Has, l
  <2>3. l \in 1..(m + 1) /\ Has(l)
    BY <2>1, <2>2
  <2> QED
    BY <2>3 DEF Has, l
<1> HIDE DEF l
<1>4. l \in Nat /\ l >= 1
  BY <1>1, <1>3
<1>5. d \in Seq(0..9) /\ Len(d) = l /\ Numeral(10, d) = m
  <2> DEFINE b == 10
  <2>1. b \in Nat /\ b >= 2 /\ m < Power(b, l) /\ d = InDigits(b, m, l)
    BY <1>3
  <2>2. 0..(b - 1) = 0..9
    OBVIOUS
  <2> HIDE DEF b, d
  <2>3. d \in Seq(0..(b - 1)) /\ Len(d) = l /\ Numeral(b, d) = m
    BY <1>1, <1>4, <2>1, DigitsReadBack
  <2> QED
    BY <2>2, <2>3 DEF b
<1>6. d[1] = (m \div Power(10, l - 1)) % 10
  <2>1. 1 \in 1..l
    BY <1>4
  <2> QED
    BY <2>1 DEF InDigits
<1> HIDE DEF d
<1>7. d # <<>>
  BY <1>4, <1>5, EmptySeq
<1>8. d[1] = 0 => Len(d) = 1
  <2> SUFFICES ASSUME l > 1 PROVE d[1] # 0
    BY <1>4, <1>5
  <2> DEFINE q == Power(10, l - 1)
             x == m \div q
  <2>1. l - 1 \in Nat /\ (l - 1) + 1 = l
    BY <1>4
  <2>2. q \in Nat /\ q >= 1 /\ Power(10, l) = 10 * q
    <3>1. Power(10, l - 1) \in Nat /\ Power(10, l - 1) >= 1
      BY <2>1, PowerIsPositive
    <3>2. Power(10, (l - 1) + 1) = 10 * Power(10, l - 1)
      BY <2>1, PowerNext
    <3> QED
      BY <2>1, <3>1, <3>2
  <2>3. m >= q /\ m < 10 * q
    BY <1>3, <2>2
  <2>4. d[1] = x % 10
    BY <1>6
  <2> HIDE DEF q
  <2>5. x \in Nat /\ x * q <= m /\ m < x * q + q
    <3>1. q # 0
      BY <2>2
    <3> QED
      BY <1>1, <2>2, <3>1, Quotient
  <2> HIDE DEF x
  <2>6. x # 0 /\ x < 10
    <3>1. x * q \in Nat /\ 0 * q = 0
      BY <2>2, <2>5
    <3>2. x # 0
      <4> SUFFICES ASSUME x = 0 PROVE FALSE
        OBVIOUS
      <4>1. m < 0 + q
        BY <2>5, <3>1
      <4> QED
        BY <1>1, <2>2, <2>3, <4>1
    <3>3. x * q < 10 * q
      BY <1>1, <2>2, <2>3, <2>5, <3>1
    <3>4. x < 10
      BY <2>2, <2>5, <3>3, MultiplesReflect
    <3> QED
      BY <3>2, <3>4
  <2> QED
    BY <2>4, <2>5, <2>6
<1>9. FitsNumeric(v, column) <=> Kept(Numeral(10, d), 0, column)
  <2>1. /\ Digits(v) \in Seq(0..9) /\ Digits(v) # <<>> /\ Holds(v).exponent \in Int
        /\ Digits(v)[1] = 0 => Len(Digits(v)) = 1
    BY <1>2, <1>5, <1>7, <1>8
  <2>2. FitsNumeric(v, column) <=> Kept(Numeral(10, Digits(v)), Holds(v).exponent, column)
    BY <2>1, FitsWhatIsKept
  <2> QED
    BY <1>2, <2>2
<1> QED
  BY <1>5, <1>9 DEF v, m

\* An integer is in range if and only if it does not wrap.
LEMMA RangeIsWhatIsKept ==
    ASSUME NEW n \in Int, NEW family \in {"smallint", "integer", "bigint"}
    PROVE  InRange(n, family) <=> Wrapped(n, family) = n
<1> DEFINE half == Power(2, Bits[family] - 1)
<1>1. Bits[family] - 1 \in Nat
  BY BitsAssumption
<1>2. half \in Nat /\ half >= 1
  BY <1>1, PowerIsPositive
<1>3. InRange(n, family) <=> -half <= n /\ n <= half - 1
  BY DEF InRange
<1>4. Wrapped(n, family) = ((n + half) % (2 * half)) - half
  BY DEF Wrapped
<1> HIDE DEF half
<1> DEFINE u == n + half
           all == 2 * half
<1>5. u \in Int /\ all \in Nat /\ all # 0
  BY <1>2
<1>6. Wrapped(n, family) = n <=> u % all = u
  <2> DEFINE r == u % all
  <2>1. Wrapped(n, family) = r - half
    BY <1>4
  <2>2. r \in Int
    <3> HIDE DEF u, all
    <3> QED
      BY <1>5
  <2> HIDE DEF r
  <2>3. r - half = n <=> r = n + half
    BY <1>2, <2>2
  <2> QED
    BY <2>1, <2>3 DEF r
<1>7. InRange(n, family) <=> 0 <= u /\ u < all
  BY <1>2, <1>3
<1> HIDE DEF u, all
<1>8. u % all = u <=> 0 <= u /\ u < all
  <2>1. u % all \in Nat /\ u % all < all
    BY <1>5
  <2>2. ASSUME 0 <= u, u < all PROVE u % all = u
    BY <1>5, <2>2
  <2> QED
    BY <1>5, <2>1, <2>2
<1> QED
  BY <1>6, <1>7, <1>8

\* A number in a column that holds a part of the numbers is accepted if and only if all
\* of it is kept.
LEMMA AcceptedIfKept ==
    ASSUME NEW v, IsValue(v), NEW column \in DeclaredColumns,
           NEW w, w = _normalize_value(v), Bounded(w, column)
    PROVE  Inserts(v, column) <=> IsKept(w, column)
<1>1. DOMAIN Bits = {"smallint", "integer", "bigint"}
  BY BitsAssumption
<1>2. Type(w) # "NoneType" /\ Type(w) \in {"int", "Decimal"}
  BY DEF Bounded
<1>3. IsNumeral(w)
  BY <1>2, NormalizedIsHeld DEF IsHeld
<1>4. Type(w) = "int" => Holds(w) \in Int
  BY <1>3 DEF IsNumeral
<1>5. Inserts(v, column) <=> _validate_declared_value_family(w, column)
  BY DEF Inserts
<1>6. CASE column.family \in {"smallint", "integer", "bigint"}
  <2>1. Type(w) = "int" /\ column.family # "numeric"
    BY <1>6 DEF Bounded
  <2>2. _validate_declared_value_family(w, column) <=> InRange(Holds(w), column.family)
    BY <1>6, <2>1 DEF _validate_declared_value_family
  <2>3. InRange(Holds(w), column.family) <=> Wrapped(Holds(w), column.family) = Holds(w)
    BY <1>4, <1>6, <2>1, RangeIsWhatIsKept
  <2>4. IsKept(w, column) <=> Wrapped(Holds(w), column.family) = Holds(w)
    BY <1>1, <1>6, <2>1 DEF IsKept
  <2> QED
    BY <1>5, <2>2, <2>3, <2>4
<1>7. CASE column.family = "numeric"
  <2>1. column.precision # 0 /\ column.family \notin {"smallint", "integer", "bigint"}
    BY <1>1, <1>7 DEF Bounded
  <2>2. _validate_declared_value_family(w, column) <=> _validate_numeric_value(w, column)
    BY <1>2, <1>7, <2>1 DEF _validate_declared_value_family
  <2>3. CASE Type(w) = "int"
    <3>1. _validate_numeric_value(w, column)
            <=> FitsNumeric(Value("Decimal", AsDecimal(Holds(w))), column)
      BY <2>3 DEF _validate_numeric_value
    <3>2. FitsNumeric(Value("Decimal", AsDecimal(Holds(w))), column)
            <=> Kept(Magnitude(Holds(w)), 0, column)
      BY <1>4, <2>1, <2>3, IntegersFit
    <3>3. IsKept(w, column) <=> Kept(Magnitude(Holds(w)), 0, column)
      BY <1>1, <1>7, <2>1, <2>3 DEF IsKept
    <3> QED
      BY <1>5, <2>2, <3>1, <3>2, <3>3
  <2>4. CASE Type(w) = "Decimal"
    <3>1. Holds(w).special = ""
      BY <1>1, <2>1, <2>4 DEF Bounded
    <3>2. /\ Digits(w) \in Seq(0..9) /\ Digits(w) # <<>> /\ Holds(w).exponent \in Int
          /\ Digits(w)[1] = 0 => Len(Digits(w)) = 1
      BY <1>3, <2>4, <3>1 DEF IsNumeral, Digits
    <3>3. _validate_numeric_value(w, column) <=> FitsNumeric(w, column)
      BY <2>4, <3>1 DEF _validate_numeric_value
    <3>4. FitsNumeric(w, column) <=> Kept(Numeral(10, Digits(w)), Holds(w).exponent, column)
      BY <2>1, <3>2, FitsWhatIsKept
    <3>5. IsKept(w, column) <=> Kept(Numeral(10, Digits(w)), Holds(w).exponent, column)
      BY <1>1, <1>7, <2>1, <2>4 DEF IsKept, Digits
    <3> QED
      BY <1>5, <2>2, <3>3, <3>4, <3>5
  <2> QED
    BY <1>2, <2>3, <2>4
<1> QED
  BY <1>1, <1>6, <1>7 DEF Bounded

\* Only a source that is projected is read.
Projected == payload \in Payloads /\ source # <<>> => CopyProjects(payload)

\* A row is taken only by a load that can project it.
LEMMA ProjectedStep == Described /\ Projected /\ [LoadNext]_<<vars, load, file>> => Projected'
<1> SUFFICES ASSUME Described, Projected, [LoadNext]_<<vars, load, file>>,
                    payload' \in Payloads, source' # <<>>
             PROVE  CopyProjects(payload')
  BY DEF Projected
<1>1. CASE TakeRow
  BY <1>1 DEF TakeRow
<1>2. CASE ~TakeRow
  <2>1. payload' = payload /\ payload \in Payloads
    BY <1>2 DEF LoadNext, Infer, WriteRow, write_neutral_terminator, Truncate, ReadRow, load
  <2>2. payload.mode = "declared"
    BY <2>1, LoadAssumption
  <2>3. source' = source
    BY <1>2, <2>2 DEF LoadNext, Infer, WriteRow, write_neutral_terminator, Truncate, ReadRow, load
  <2> QED
    BY <2>1, <2>3 DEF Projected
<1> QED
  BY <1>1, <1>2

\* A signaling NaN is not among the numbers.
LEMMA BoundedIsQuiet ==
    ASSUME NEW v, NEW column, Bounded(_normalize_value(v), column)
    PROVE  ~Signals(v, column)
<1> SUFFICES ASSUME Signals(v, column) PROVE FALSE
  OBVIOUS
<1>1. Type(v) = "Decimal" /\ Holds(v).special = "snan" /\ column.family = "numeric"
  BY DEF Signals
<1>2. _normalize_value(v) = v
  BY <1>1 DEF _normalize_value, _NORMALIZATION_NOOP_TYPES, is_missing
<1> QED
  BY <1>1, <1>2, BitsAssumption DEF Bounded

\* In the invariant of the loaders, they accept what their columns keep.
LEMMA LoadInvIsExact == Described /\ LoadInv /\ Projected => AcceptedIsExact
<1> DEFINE columns == TableColumns(payload)
           row(r) == CopyRow(payload, source[r])
           number(r) == [i \in DOMAIN columns |-> _normalize_value(row(r)[i])]
           numbers(r) == {i \in DOMAIN columns : Bounded(number(r)[i], columns[i])}
<1> SUFFICES ASSUME Described, LoadInv, Projected, payload.mode = "declared", NEW r \in DOMAIN source
             PROVE  /\ r # refusedAt => \A i \in numbers(r) : IsKept(number(r)[i], columns[i])
                    /\ r = refusedAt /\ numbers(r) = DOMAIN columns =>
                         \E i \in numbers(r) : ~IsKept(number(r)[i], columns[i])
  BY DEF AcceptedIsExact
<1>1. payload \in Payloads
  <2>1. \A d \in Inspected : d.mode = "schema"
    BY InspectedAssumption
  <2>2. \A p \in Stagings : p.mode = "staging"
    BY StagingAssumption
  <2>3. payload \in {Inferred, Framed} \cup Payloads \cup Stagings \cup Inspected
    BY DEF Described
  <2> QED
    BY ONLY <2>1, <2>2, <2>3, payload.mode = "declared" DEF Inferred, Framed
<1>2. Copied(payload, source, copytext, refusedAt)
  BY <1>1 DEF LoadInv
<1>3. /\ r \in 1..Len(source) /\ source[r] \in Yields[payload.source] /\ source # <<>>
      /\ Takes(payload, source[r]) <=> r # refusedAt
  <2>1. /\ source \in Seq(Yields[payload.source])
        /\ \A k \in 1..Len(source) : Takes(payload, source[k]) <=> k # refusedAt
    BY <1>2 DEF Copied
  <2>2. r \in 1..Len(source)
    BY <2>1, LenProperties
  <2>3. source[r] \in Yields[payload.source]
    BY <2>1, <2>2, ElementOfSeq
  <2>4. source # <<>>
    BY <2>2, EmptySeq
  <2> QED
    BY <2>1, <2>2, <2>3, <2>4
<1>4. CopyProjects(payload)
  BY <1>1, <1>3 DEF Projected
<1> DEFINE n == Len(Schema(payload))
<1>5. /\ DOMAIN columns = 1..n /\ Len(columns) = n /\ \A i \in 1..n : columns[i] \in DeclaredColumns
  <2>1. columns \in Seq(DeclaredColumns) /\ Len(columns) = n /\ DOMAIN columns = 1..n
    BY <1>1, ColumnTypes
  <2>2. \A i \in 1..Len(columns) : columns[i] \in DeclaredColumns
    BY <2>1, ElementOfSeq
  <2> QED
    BY <2>1, <2>2
<1>6. \A i \in 1..n : IsValue(row(r)[i])
  BY <1>1, <1>3, <1>4, RowsAgree
<1>7. Takes(payload, source[r]) <=> \A i \in 1..n : Accepts(row(r)[i], columns[i])
  BY <1>5 DEF Takes
<1> HIDE DEF columns, row, n
<1>8. ASSUME NEW i \in numbers(r)
      PROVE  i \in 1..n /\ (Accepts(row(r)[i], columns[i]) <=> IsKept(number(r)[i], columns[i]))
  <2> DEFINE w == _normalize_value(row(r)[i])
  <2>1. i \in 1..n /\ number(r)[i] = w /\ Bounded(w, columns[i])
    BY <1>5, <1>8
  <2>2. IsValue(row(r)[i]) /\ columns[i] \in DeclaredColumns
    BY <1>5, <1>6, <2>1
  <2> HIDE DEF w, number, numbers
  <2>3. Inserts(row(r)[i], columns[i]) <=> IsKept(w, columns[i])
    BY <2>1, <2>2, AcceptedIfKept DEF w
  <2>4. ~Signals(row(r)[i], columns[i])
    BY <2>1, BoundedIsQuiet DEF w
  <2> QED
    BY <2>1, <2>3, <2>4 DEF Accepts
<1> HIDE DEF number, numbers
<1>9. ASSUME r # refusedAt, NEW i \in numbers(r) PROVE IsKept(number(r)[i], columns[i])
  BY <1>3, <1>7, <1>8, <1>9
<1>10. ASSUME r = refusedAt, numbers(r) = DOMAIN columns
       PROVE  \E i \in numbers(r) : ~IsKept(number(r)[i], columns[i])
  <2>1. PICK i \in 1..n : ~Accepts(row(r)[i], columns[i])
    BY <1>3, <1>7, <1>10
  <2> QED
    BY <1>5, <1>8, <1>10, <2>1
<1> QED
  BY <1>9, <1>10

\* A number is accepted if and only if its column keeps all of it.
THEOREM NumbersAreKept == LoadSpec => []AcceptedIsExact
<1>1. LoadSpec => []Projected
  <2>1. LoadInit => Projected
    BY DEF LoadInit, Projected
  <2> QED
    BY <2>1, ProjectedStep, DescriptionStays, PTL DEF LoadSpec
<1>2. LoadSpec => []LoadInv
  BY LoadInvInit, LoadInvStep, DescriptionStays, PTL DEF LoadSpec
<1> QED
  BY <1>1, <1>2, DescriptionStays, LoadInvIsExact, PTL

-----------------------------------------------------------------------------
(* Powers of two, and the bytes of an integer. *)

\* Powers of two.
LEMMA PowerZero == Power2(0) = 1
  BY PowerBegins DEF Power2

\* Each is twice the one before.
LEMMA PowerTwice ==
    ASSUME NEW n \in Nat
    PROVE  Power2(n) \in Nat /\ Power2(n + 1) = 2 * Power2(n)
  BY PowerNext DEF Power2

\* None is below its exponent.
LEMMA PowerPositive ==
    ASSUME NEW n \in Nat
    PROVE  Power2(n) \in Nat /\ Power2(n) >= 1 /\ n < Power2(n)
  BY PowerIsPositive DEF Power2

\* The power of a sum is the product of the powers.
LEMMA PowerSum ==
    ASSUME NEW a \in Nat, NEW b \in Nat
    PROVE  Power2(a + b) = Power2(a) * Power2(b)
  BY PowerAdds DEF Power2

\* They grow with the exponent.
LEMMA PowerOrder ==
    ASSUME NEW a \in Nat, NEW b \in Nat, a <= b
    PROVE  Power2(a) <= Power2(b)
  BY PowerIsMonotonic DEF Power2

\* A byte.
LEMMA BaseFacts ==
    /\ ByteBits \in Nat /\ ByteBits >= 4 /\ ByteBits - 1 \in Nat
    /\ Base \in Nat /\ Base >= 4 /\ Base = 2 * Power2(ByteBits - 1)
    /\ Base \div 2 = Power2(ByteBits - 1)
<1>1. ByteBits \in Nat /\ ByteBits >= 4 /\ ByteBits - 1 \in Nat /\ (ByteBits - 1) + 1 = ByteBits
  BY ByteAssumption
<1>2. Base \in Nat /\ ByteBits < Base
  BY <1>1, PowerPositive DEF Base
<1>3. Base = 2 * Power2(ByteBits - 1) /\ Power2(ByteBits - 1) \in Nat
  BY <1>1, PowerTwice DEF Base
<1>4. Base \div 2 = Power2(ByteBits - 1)
  BY <1>3
<1> QED
  BY <1>1, <1>2, <1>3, <1>4

\* What bit_length() returns.
BitsOf(m, b) == m < Power2(b) /\ (b = 0 \/ m >= Power2(b - 1))

\* bit_length() is enough bits for the magnitude.
LEMMA BitLength ==
    ASSUME NEW n \in Int
    PROVE  LET m == IF n < 0 THEN -n ELSE n
           IN m \in Nat /\ bit_length(n) \in Nat /\ m < Power2(bit_length(n))
<1> DEFINE S == {m \in Nat : \E b \in 0..m : BitsOf(m, b)}
<1>1. 0 \in S
  BY PowerZero DEF BitsOf
<1>2. ASSUME NEW m \in Nat, m \in S PROVE m + 1 \in S
  <2>1. PICK b \in 0..m : BitsOf(m, b)
    BY <1>2
  <2>2. b \in Nat /\ b + 1 \in 0..(m + 1) /\ b \in 0..(m + 1) /\ (b + 1) - 1 = b
    OBVIOUS
  <2>3. /\ Power2(b) \in Nat /\ Power2(b + 1) = 2 * Power2(b) /\ Power2(b) >= 1
    BY <2>2, PowerTwice, PowerPositive
  <2>4. CASE m + 1 < Power2(b)
    <3>1. BitsOf(m + 1, b)
      <4>1. CASE b = 0
        BY <2>4, <4>1 DEF BitsOf
      <4>2. CASE b # 0
        <5>1. b - 1 \in Nat
          BY <2>2, <4>2
        <5>2. Power2(b - 1) \in Nat /\ m >= Power2(b - 1)
          BY <2>1, <4>2, <5>1, PowerTwice DEF BitsOf
        <5>3. m + 1 >= Power2(b - 1)
          BY <5>2
        <5> QED
          BY <2>4, <5>3 DEF BitsOf
      <4> QED
        BY <4>1, <4>2
    <3> QED
      BY <2>2, <3>1
  <2>5. CASE ~(m + 1 < Power2(b))
    <3>1. m < Power2(b)
      BY <2>1 DEF BitsOf
    <3>2. m + 1 < Power2(b + 1) /\ m + 1 >= Power2(b)
      BY <2>3, <2>5, <3>1
    <3>3. BitsOf(m + 1, b + 1)
      BY <2>2, <3>2 DEF BitsOf
    <3> QED
      BY <2>2, <3>3
  <2> QED
    BY <2>4, <2>5
<1>3. Nat \subseteq S
  <2> HIDE DEF S
  <2> QED
    BY <1>1, <1>2, SetInduction
<1> DEFINE m == IF n < 0 THEN -n ELSE n
<1>4. m \in Nat
  OBVIOUS
<1>5. bit_length(n) = CHOOSE b \in 0..m : BitsOf(m, b)
  BY DEF bit_length, BitsOf
<1> HIDE DEF m
<1>6. \E b \in 0..m : BitsOf(m, b)
  BY <1>3, <1>4
<1>7. bit_length(n) \in 0..m /\ BitsOf(m, bit_length(n))
  BY <1>5, <1>6
<1> QED
  BY <1>4, <1>7 DEF BitsOf, m

\* As many bytes as _min_signed_bytes() says are enough.
LEMMA EnoughBytes ==
    ASSUME NEW v \in Int
    PROVE  _min_signed_bytes(v) \in Nat /\ _min_signed_bytes(v) >= 1 /\ Fits(v, _min_signed_bytes(v))
<1> DEFINE n == IF v >= 0 THEN v ELSE -v - 1
           b == bit_length(n)
           L == _min_signed_bytes(v)
<1>1. n \in Nat
  OBVIOUS
<1>2. b \in Nat /\ n < Power2(b)
  <2> HIDE DEF n
  <2> QED
    BY <1>1, BitLength
<1>3. L = (b \div ByteBits) + 1
  BY DEF _min_signed_bytes
<1> HIDE DEF b, L, n
<1>4. b \div ByteBits \in Nat /\ b < (b \div ByteBits) * ByteBits + ByteBits
  BY <1>2, BaseFacts, Quotient
<1>5. L \in Nat /\ L >= 1
  BY <1>3, <1>4
<1>6. L * ByteBits = (b \div ByteBits) * ByteBits + ByteBits
  <2>1. ((b \div ByteBits) + 1) * ByteBits = (b \div ByteBits) * ByteBits + 1 * ByteBits
    BY <1>4, BaseFacts, Multiples
  <2> QED
    BY <1>3, <2>1, BaseFacts
<1>7. ByteBits * L = L * ByteBits /\ L * ByteBits \in Int
  BY <1>5, BaseFacts, Multiples
<1>8. ByteBits * L - 1 \in Nat /\ b <= ByteBits * L - 1
  BY <1>2, <1>4, <1>6, <1>7
<1>9. Power2(b) <= Power2(ByteBits * L - 1) /\ Power2(b) \in Nat /\ Power2(ByteBits * L - 1) \in Nat
  BY <1>2, <1>8, PowerOrder, PowerPositive
<1> DEFINE p == Power2(ByteBits * L - 1)
<1>10. n < p /\ p \in Nat
  BY <1>1, <1>2, <1>9
<1> HIDE DEF p
<1>11. v >= -p /\ v <= p - 1
  BY <1>10 DEF n
<1>12. Fits(v, L)
  BY <1>11 DEF Fits, p
<1> QED
  BY <1>5, <1>12 DEF L

\* An integer that fits is read back from its bytes.
LEMMA BytesReadBack ==
    ASSUME NEW v \in Int, NEW L \in Nat, L >= 1, Fits(v, L)
    PROVE  /\ to_bytes(v, L) \in Seq(Nat) /\ Len(to_bytes(v, L)) = L
           /\ from_bytes(to_bytes(v, L)) = v
<1> DEFINE P == Power(Base, L - 1)
           all == Power2(ByteBits * L)
           half == Power2(ByteBits * L - 1)
           u == IF v >= 0 THEN v ELSE v + all
           bytes == to_bytes(v, L)
<1>1. ByteBits * L - 1 \in Nat /\ (ByteBits * L - 1) + 1 = ByteBits * L /\ ByteBits * L \in Nat
  <2>1. 1 * ByteBits <= L * ByteBits
    BY BaseFacts, MultiplesOrder
  <2>2. ByteBits * L = L * ByteBits /\ ByteBits * L \in Int
    BY BaseFacts, Multiples
  <2> QED
    BY <2>1, <2>2, BaseFacts
<1>2. half \in Nat /\ half >= 1 /\ all = 2 * half
  BY <1>1, PowerTwice, PowerPositive
<1>3. v >= -half /\ v <= half - 1
  BY DEF Fits
<1>4. u \in Nat /\ u < all /\ (v < 0 <=> u >= half)
  <2> HIDE DEF half, all
  <2> QED
    BY <1>2, <1>3
<1>5. all = Power(Base, L) /\ Base = Power2(ByteBits)
  <2>1. Power(Power(2, ByteBits), L) = Power(2, ByteBits * L)
    BY BaseFacts, PowerOfPower
  <2> QED
    BY <2>1 DEF Base, Power2
<1>6. P \in Nat /\ P # 0 /\ P >= 1 /\ all = Base * P
  <2>1. L - 1 \in Nat /\ (L - 1) + 1 = L
    OBVIOUS
  <2>2. Power(Base, L - 1) \in Nat /\ Power(Base, L - 1) >= 1
    <3>1. Base \in Nat /\ Base >= 2
      BY BaseFacts
    <3> QED
      BY <2>1, <3>1, PowerIsPositive
  <2>3. Power(Base, (L - 1) + 1) = Base * Power(Base, L - 1)
    BY <2>1, BaseFacts, PowerNext
  <2> QED
    BY <1>5, <2>1, <2>2, <2>3
<1>7. bytes = InDigits(Base, u, L)
  BY DEF to_bytes
<1>8. bytes[1] = (u \div P) % Base
  <2>1. 1 \in 1..L
    OBVIOUS
  <2> QED
    BY <1>7, <2>1 DEF InDigits
<1> HIDE DEF P, all, half, u, bytes
<1>9. /\ bytes \in Seq(0..(Base - 1)) /\ Len(bytes) = L /\ Numeral(Base, bytes) = u
  BY <1>4, <1>5, <1>7, BaseFacts, DigitsReadBack
<1>10. bytes \in Seq(Nat)
  <2>1. 0..(Base - 1) \subseteq Nat
    BY BaseFacts
  <2> QED
    BY <1>9, <2>1, SeqMonotonic
<1>11. bytes[1] >= Base \div 2 <=> u >= half
  <2> DEFINE q == u \div P
             H == Power2(ByteBits - 1)
  <2>2. P \in Nat /\ P # 0 /\ P >= 1 /\ all = Base * P
    BY <1>6
  <2>3. H \in Nat /\ Base \div 2 = H /\ Base = 2 * H /\ Base \in Nat /\ Base # 0
    BY BaseFacts, PowerTwice
  <2>4. half = H * P
    <3>1. all = (2 * H) * P
      BY <2>2, <2>3
    <3> HIDE DEF H
    <3>2. (2 * H) * P = 2 * (H * P) /\ H * P \in Int
      BY <2>2, <2>3, Multiples
    <3> QED
      BY <1>2, <3>1, <3>2
  <2>5. bytes[1] = q % Base
    BY <1>8
  <2> HIDE DEF H
  <2>6. q \in Nat /\ q * P <= u /\ u < q * P + P
    BY <1>4, <2>2, Quotient
  <2> HIDE DEF q
  <2>7. q < Base
    <3>1. q * P < Base * P
      <4>1. q * P \in Int /\ Base * P \in Int
        BY <2>2, <2>3, <2>6, Multiples
      <4> QED
        BY <1>4, <2>2, <2>6, <4>1
    <3> QED
      BY <2>2, <2>3, <2>6, <3>1, MultiplesReflect
  <2>8. q % Base = q
    BY <2>3, <2>6, <2>7
  <2>9. H <= q => H * P <= u
    <3>1. H <= q => H * P <= q * P
      BY <2>2, <2>3, <2>6, MultiplesOrder
    <3>2. H * P \in Int /\ q * P \in Int
      BY <2>2, <2>3, <2>6, Multiples
    <3> QED
      BY <1>4, <2>6, <3>1, <3>2
  <2>10. H * P <= u => H <= q
    <3> SUFFICES ASSUME H * P <= u PROVE H <= q
      OBVIOUS
    <3>1. (q + 1) * P = q * P + 1 * P /\ H * P \in Int /\ q * P \in Int /\ (q + 1) * P \in Int
      BY <2>2, <2>3, <2>6, Multiples
    <3>2. H * P < (q + 1) * P
      BY <1>4, <2>2, <2>6, <3>1
    <3>3. H < q + 1
      BY <2>2, <2>3, <2>6, <3>2, MultiplesReflect
    <3> QED
      BY <2>3, <2>6, <3>3
  <2> QED
    BY <2>3, <2>4, <2>5, <2>6, <2>8, <2>9, <2>10
<1>12. from_bytes(bytes) = IF bytes[1] >= Base \div 2 THEN u - all ELSE u
  BY <1>9 DEF from_bytes, all
<1>13. from_bytes(bytes) = v
  <2>1. CASE v >= 0
    <3>1. ~(bytes[1] >= Base \div 2) /\ u = v
      BY <1>4, <1>11, <2>1 DEF u
    <3> QED
      BY <1>12, <3>1
  <2>2. CASE ~(v >= 0)
    <3>1. bytes[1] >= Base \div 2
      BY <1>4, <1>11, <2>2
    <3>2. u = v + all
      BY <2>2 DEF u
    <3>3. all \in Int
      BY <1>2
    <3> QED
      BY <1>12, <3>1, <3>2, <3>3
  <2> QED
    BY <2>1, <2>2
<1> QED
  BY <1>9, <1>10, <1>13 DEF bytes

-----------------------------------------------------------------------------
(* A row of the neutral spool, written and read. *)

\* What the spool can hold, and how: a tag alone, or a tag, a length and as many bytes.
Alone(v) == v[1] \in {_TAG_NULL, _TAG_FALSE, _TAG_TRUE} /\ v[2] = <<>>

Payload(v) == IF v[1] = _TAG_INT THEN to_bytes(v[2], _min_signed_bytes(v[2])) ELSE v[2]

Sized(v, w) ==
    /\ v[1] \in {_TAG_INT, _TAG_STR}
    /\ Payload(v) \in Seq(Nat)
    /\ Len(w) = 2 + Len(Payload(v)) /\ w[1] = v[1] /\ w[2] = Len(Payload(v))
    /\ \A i \in 1..Len(Payload(v)) : w[2 + i] = Payload(v)[i]
    /\ v[1] = _TAG_INT => from_bytes(Payload(v)) = v[2] /\ Len(Payload(v)) >= 1

\* A value of a spool is a tag and, for an integer or a text, what it holds.
LEMMA SpoolValueIs ==
    ASSUME NEW v \in SpoolValues
    PROVE  /\ v = <<v[1], v[2]>> /\ v[1] \in Nat
           /\ \/ Alone(v)
              \/ v[1] = _TAG_INT /\ v[2] \in Int
              \/ v[1] = _TAG_STR /\ v[2] \in Seq(Nat)
<1>1. CASE v \in {_TAG_NULL, _TAG_FALSE, _TAG_TRUE} \X {<<>>}
  BY <1>1 DEF Alone, _TAG_NULL, _TAG_FALSE, _TAG_TRUE
<1>2. CASE v \in {_TAG_INT} \X Int
  BY <1>2 DEF _TAG_INT
<1>3. CASE v \in {_TAG_STR} \X Seq(Nat)
  BY <1>3 DEF _TAG_STR
<1> QED
  BY <1>1, <1>2, <1>3 DEF SpoolValues

\* A tag, a length and bytes in one sequence.
LEMMA TagLengthBytes ==
    ASSUME NEW tag \in Nat, NEW length \in Nat, NEW bytes \in Seq(Nat)
    PROVE  LET w == <<tag, length>> \o bytes
           IN /\ w \in Seq(Nat) /\ Len(w) = 2 + Len(bytes) /\ w[1] = tag /\ w[2] = length
              /\ \A i \in 1..Len(bytes) : w[2 + i] = bytes[i]
<1> DEFINE head == <<tag, length>>
           w == head \o bytes
<1>1. head \in Seq(Nat) /\ Len(head) = 2 /\ head[1] = tag /\ head[2] = length
  OBVIOUS
<1> HIDE DEF head
<1>2. Len(bytes) \in Nat
  BY LenProperties
<1>3. /\ w \in Seq(Nat) /\ Len(w) = 2 + Len(bytes)
      /\ \A i \in 1..(2 + Len(bytes)) : w[i] = IF i <= 2 THEN head[i] ELSE bytes[i - 2]
  <2>1. /\ w \in Seq(Nat) /\ Len(w) = Len(head) + Len(bytes)
        /\ \A i \in 1..(Len(head) + Len(bytes)) :
             w[i] = IF i <= Len(head) THEN head[i] ELSE bytes[i - Len(head)]
    BY <1>1, ConcatProperties
  <2>2. Len(head) = 2
    BY <1>1
  <2> HIDE DEF w
  <2> QED
    BY ONLY <2>1, <2>2
<1> HIDE DEF w
<1>4. 1 \in 1..(2 + Len(bytes)) /\ 2 \in 1..(2 + Len(bytes))
  BY <1>2
<1>5. w[1] = tag /\ w[2] = length
  BY <1>1, <1>3, <1>4
<1>6. ASSUME NEW i \in 1..Len(bytes) PROVE w[2 + i] = bytes[i]
  <2>1. 2 + i \in 1..(2 + Len(bytes)) /\ ~(2 + i <= 2) /\ (2 + i) - 2 = i
    BY <1>2
  <2> QED
    BY <1>3, <2>1
<1> QED
  BY <1>3, <1>5, <1>6 DEF w, head

\* What _write_value() writes.
LEMMA ValueIsWritten ==
    ASSUME NEW v \in SpoolValues, IsSpoolable(v)
    PROVE  /\ _write_value(v) \in Seq(Nat) /\ Len(_write_value(v)) >= 1
           /\ _write_value(v) # OverflowError
           /\ \/ Alone(v) /\ Len(_write_value(v)) = 1 /\ _write_value(v)[1] = v[1]
              \/ Sized(v, _write_value(v))
<1> DEFINE w == _write_value(v)
<1>1. CASE Alone(v)
  <2>1. w = <<v[1]>>
    BY <1>1 DEF _write_value, Alone, _TAG_NULL, _TAG_FALSE, _TAG_TRUE, _TAG_INT
  <2>2. v[1] \in Nat
    BY SpoolValueIs
  <2> HIDE DEF w
  <2>3. w \in Seq(Nat) /\ Len(w) = 1 /\ w[1] = v[1] /\ w # <<>>
    BY <2>1, <2>2
  <2> QED
    BY <1>1, <2>3 DEF OverflowError, w
<1>2. CASE v[1] = _TAG_INT /\ v[2] \in Int
  <2> DEFINE length == _min_signed_bytes(v[2])
             bytes == to_bytes(v[2], length)
  <2>1. length \in Nat /\ length >= 1 /\ Fits(v[2], length)
    BY <1>2, EnoughBytes
  <2>2. MaxLength \in Int /\ length <= MaxLength
    BY <1>2, BaseFacts DEF IsSpoolable, MaxLength
  <2>3. v[1] \notin {_TAG_NULL, _TAG_FALSE, _TAG_TRUE}
    BY <1>2 DEF _TAG_INT, _TAG_NULL, _TAG_FALSE, _TAG_TRUE
  <2>4. w = <<_TAG_INT, length>> \o bytes
    <3>1. ~(length > MaxLength \/ ~Fits(v[2], length))
      BY <2>1, <2>2
    <3> QED
      BY <1>2, <2>3, <3>1 DEF _write_value
  <2>5. bytes \in Seq(Nat) /\ Len(bytes) = length /\ from_bytes(bytes) = v[2]
    BY <1>2, <2>1, BytesReadBack
  <2>6. Payload(v) = bytes
    BY <1>2 DEF Payload
  <2>7. _TAG_INT \in Nat
    BY DEF _TAG_INT
  <2> HIDE DEF w, bytes, length
  <2>8. /\ w \in Seq(Nat) /\ Len(w) = 2 + length /\ w[1] = _TAG_INT /\ w[2] = length
        /\ \A i \in 1..length : w[2 + i] = bytes[i]
    BY <2>1, <2>4, <2>5, <2>7, TagLengthBytes
  <2>9. w # <<>>
    BY <2>1, <2>8, EmptySeq
  <2>10. Sized(v, w)
    BY <1>2, <2>1, <2>5, <2>6, <2>8 DEF Sized
  <2> QED
    BY <2>1, <2>8, <2>9, <2>10 DEF OverflowError, w
<1>3. CASE v[1] = _TAG_STR /\ v[2] \in Seq(Nat)
  <2> DEFINE bytes == v[2]
  <2>1. v[1] \notin {_TAG_NULL, _TAG_FALSE, _TAG_TRUE} /\ v[1] # _TAG_INT /\ v[1] \in Nat
    BY <1>3 DEF _TAG_INT, _TAG_STR, _TAG_NULL, _TAG_FALSE, _TAG_TRUE
  <2>2. w = <<v[1], Len(bytes)>> \o bytes
    BY <2>1 DEF _write_value
  <2>3. Payload(v) = bytes /\ bytes \in Seq(Nat) /\ Len(bytes) \in Nat
    BY <1>3, <2>1, LenProperties DEF Payload
  <2> HIDE DEF w, bytes
  <2>4. /\ w \in Seq(Nat) /\ Len(w) = 2 + Len(bytes) /\ w[1] = v[1] /\ w[2] = Len(bytes)
        /\ \A i \in 1..Len(bytes) : w[2 + i] = bytes[i]
    BY <2>1, <2>2, <2>3, TagLengthBytes
  <2>5. w # <<>>
    BY <2>3, <2>4, EmptySeq
  <2>6. Sized(v, w)
    BY <1>3, <2>1, <2>3, <2>4 DEF Sized
  <2> QED
    BY <2>3, <2>4, <2>5, <2>6 DEF OverflowError, w
<1> QED
  BY <1>1, <1>2, <1>3, SpoolValueIs

\* Rows that can be written.
Spoolable(row) == row \in Seq(SpoolValues) /\ \A i \in 1..Len(row) : IsSpoolable(row[i])

\* Each value of such a row is written as bytes.
LEMMA ElementIsWritten ==
    ASSUME NEW row, Spoolable(row), NEW k \in 1..Len(row)
    PROVE  /\ row[k] \in SpoolValues /\ IsSpoolable(row[k])
           /\ _write_value(row[k]) \in Seq(Nat) /\ Len(_write_value(row[k])) >= 1
           /\ _write_value(row[k]) # OverflowError
<1>1. row[k] \in SpoolValues /\ IsSpoolable(row[k])
  <2>1. row \in Seq(SpoolValues)
    BY DEF Spoolable
  <2>2. row[k] \in SpoolValues
    BY <2>1, ElementOfSeq
  <2> QED
    BY <2>2 DEF Spoolable
<1> QED
  BY <1>1, ValueIsWritten

\* Its bytes, value by value.
WrittenLaw(f, row) ==
    /\ f \in [0..Len(row) -> Seq(Nat)] /\ f[0] = <<_ROW_START>>
    /\ \A k \in 1..Len(row) : f[k] = f[k - 1] \o _write_value(row[k])

\* _write_values() is a row's bytes.
LEMMA WrittenEquation ==
    ASSUME NEW row, Spoolable(row)
    PROVE  \E f : WrittenLaw(f, row) /\ _write_values(row) = f[Len(row)]
<1> DEFINE M == Len(row)
           step == [x \in (Seq(Nat)) \X (1..M) |-> x[1] \o _write_value(row[x[2]])]
           body(g) == [k \in 0..M |-> IF k = 0 THEN <<_ROW_START>> ELSE g[k - 1] \o _write_value(row[k])]
           whole == CHOOSE g : g = body(g)
<1>1. M \in Nat
  BY LenProperties DEF Spoolable
<1>2. \A x \in Seq(Nat), k \in 1..M : x \o _write_value(row[k]) \in Seq(Nat)
  BY ElementIsWritten, ConcatProperties
<1>3. <<_ROW_START>> \in Seq(Nat)
  BY BaseFacts DEF _ROW_START
<1>4. step \in [(Seq(Nat)) \X (1..M) -> Seq(Nat)]
  <2> HIDE DEF M
  <2> QED
    BY <1>2
<1>5. PICK f : f \in Solutions(M, Seq(Nat), <<_ROW_START>>, step)
  <2> HIDE DEF step, M
  <2> QED
    BY <1>1, <1>3, <1>4, RecursionHasSolution
<1>6. /\ f \in [0..M -> Seq(Nat)] /\ f[0] = <<_ROW_START>>
      /\ \A k \in 1..M : f[k] = step[<<f[k - 1], k>>]
  <2> HIDE DEF step, M
  <2> QED
    BY <1>5 DEF Solutions
<1>7. \A k \in 1..M : f[k] = f[k - 1] \o _write_value(row[k])
  <2> SUFFICES ASSUME NEW k \in 1..M PROVE f[k] = f[k - 1] \o _write_value(row[k])
    OBVIOUS
  <2> HIDE DEF M
  <2>1. k - 1 \in 0..M
    BY <1>1
  <2>2. f[k - 1] \in Seq(Nat)
    BY <1>6, <2>1
  <2>3. <<f[k - 1], k>> \in (Seq(Nat)) \X (1..M)
    BY <2>2
  <2> QED
    BY <1>6, <2>3
<1>8. f = body(f)
  <2>1. ASSUME NEW k \in 0..M
        PROVE  f[k] = IF k = 0 THEN <<_ROW_START>> ELSE f[k - 1] \o _write_value(row[k])
    <3> HIDE DEF M
    <3>1. CASE k = 0
      BY <1>6, <3>1
    <3>2. CASE k # 0
      <4>1. k \in 1..M
        BY <1>1, <3>2
      <4> QED
        BY <1>7, <3>2, <4>1
    <3> QED
      BY <3>1, <3>2
  <2>2. f = [k \in 0..M |-> f[k]]
    BY <1>6
  <2> HIDE DEF M
  <2> QED
    BY <2>1, <2>2
<1>9. _write_values(row) = whole[M]
  BY DEF _write_values
<1> HIDE DEF body
<1>10. whole = body(whole)
  BY <1>8
<1> HIDE DEF whole, M
<1>11. \A k \in 0..M : whole[k] = IF k = 0 THEN <<_ROW_START>> ELSE whole[k - 1] \o _write_value(row[k])
  BY <1>10 DEF body
<1> DEFINE Same == {k \in Nat : k <= M => whole[k] = f[k]}
<1>12. 0 \in Same
  <2>1. 0 \in 0..M
    BY <1>1
  <2> QED
    BY <1>6, <1>11, <2>1
<1>13. ASSUME NEW k \in Nat, k \in Same PROVE k + 1 \in Same
  <2> SUFFICES ASSUME k + 1 <= M PROVE whole[k + 1] = f[k + 1]
    OBVIOUS
  <2>1. k + 1 \in 0..M /\ k + 1 \in 1..M /\ k + 1 # 0 /\ (k + 1) - 1 = k /\ whole[k] = f[k]
    BY <1>1, <1>13
  <2>2. whole[k + 1] = whole[k] \o _write_value(row[k + 1])
    BY <1>11, <2>1
  <2>3. f[k + 1] = f[k] \o _write_value(row[k + 1])
    BY <1>7, <2>1
  <2> QED
    BY <2>1, <2>2, <2>3
<1>14. Nat \subseteq Same
  <2> HIDE DEF Same
  <2> QED
    BY <1>12, <1>13, SetInduction
<1>15. whole[M] = f[M]
  BY <1>1, <1>14
<1> QED
  BY <1>6, <1>7, <1>9, <1>15 DEF WrittenLaw, M

\* A row is written, and every value of it behind those before it.
LEMMA RowIsWritten ==
    ASSUME NEW row, Spoolable(row)
    PROVE  \E f : /\ WrittenLaw(f, row) /\ Len(row) \in Nat
                  /\ write_neutral_row(row) = f[Len(row)]
                  /\ write_neutral_row(row) # OverflowError
                  /\ write_neutral_row(row) \in Seq(Nat) /\ Len(write_neutral_row(row)) >= 1
                  /\ write_neutral_row(row)[1] = _ROW_START
                  /\ \A k \in 0..Len(row) :
                       /\ f[k] \in Seq(Nat) /\ Len(f[k]) \in Nat
                       /\ Len(f[k]) <= Len(write_neutral_row(row))
                       /\ \A i \in 1..Len(f[k]) : write_neutral_row(row)[i] = f[k][i]
<1>1. PICK f : WrittenLaw(f, row) /\ _write_values(row) = f[Len(row)]
  BY WrittenEquation
<1> DEFINE N == Len(row)
<1>2. write_neutral_row(row) = f[N]
  <2>1. ~\E k \in 1..Len(row) : _write_value(row[k]) = OverflowError
    BY ElementIsWritten
  <2> QED
    BY <1>1, <2>1 DEF write_neutral_row
<1>3. /\ f \in [0..N -> Seq(Nat)] /\ f[0] = <<_ROW_START>>
      /\ \A k \in 1..N : f[k] = f[k - 1] \o _write_value(row[k])
  BY <1>1 DEF WrittenLaw
<1>4. N \in Nat
  BY LenProperties DEF Spoolable
<1> HIDE DEF N
<1>5. \A k \in 0..N : f[k] \in Seq(Nat) /\ Len(f[k]) \in Nat
  BY <1>3, LenProperties
\* Each is where the next one begins.
<1> DEFINE Begins(j, k) == /\ Len(f[j]) <= Len(f[k])
                           /\ \A i \in 1..Len(f[j]) : f[k][i] = f[j][i]
           S == {k \in Nat : k <= N => \A j \in 0..k : Begins(j, k)}
<1>6. 0 \in S
  <2>1. \A j \in 0..0 : j = 0
    OBVIOUS
  <2>2. Begins(0, 0)
    BY <1>4, <1>5
  <2> HIDE DEF Begins
  <2> QED
    BY <2>1, <2>2
<1>7. ASSUME NEW k \in Nat, k \in S PROVE k + 1 \in S
  <2> SUFFICES ASSUME k + 1 <= N, NEW j \in 0..(k + 1) PROVE Begins(j, k + 1)
    OBVIOUS
  <2>1. k \in 0..N /\ k + 1 \in 0..N /\ k + 1 \in 1..N /\ (k + 1) - 1 = k
    BY <1>4
  <2>2. f[k + 1] = f[k] \o _write_value(row[k + 1])
    BY <1>3, <2>1
  <2>3. _write_value(row[k + 1]) \in Seq(Nat)
    BY <2>1, ElementIsWritten DEF N
  <2> DEFINE w == _write_value(row[k + 1])
  <2> HIDE DEF w
  <2>4. /\ Len(w) \in Nat /\ Len(f[k + 1]) = Len(f[k]) + Len(w)
        /\ \A i \in 1..(Len(f[k]) + Len(w)) :
             f[k + 1][i] = IF i <= Len(f[k]) THEN f[k][i] ELSE w[i - Len(f[k])]
    <3>1. w \in Seq(Nat) /\ f[k] \in Seq(Nat) /\ f[k + 1] = f[k] \o w
      BY <1>5, <2>1, <2>2, <2>3 DEF w
    <3> DEFINE before == f[k]
               after == f[k + 1]
    <3>2. before \in Seq(Nat) /\ after = before \o w
      BY <3>1
    <3> HIDE DEF before, after
    <3>3. /\ Len(after) = Len(before) + Len(w)
          /\ \A i \in 1..(Len(before) + Len(w)) :
               after[i] = IF i <= Len(before) THEN before[i] ELSE w[i - Len(before)]
      BY <3>1, <3>2, ConcatProperties
    <3>4. Len(w) \in Nat
      BY <3>1, LenProperties
    <3> QED
      BY <3>3, <3>4 DEF before, after
  <2>5. Begins(k, k + 1)
    <3>1. Len(f[k]) \in Nat
      BY <1>5, <2>1
    <3> QED
      BY <2>4, <3>1
  <2>6. CASE j = k + 1
    BY <1>5, <2>1, <2>6
  <2>7. CASE j # k + 1
    <3>1. j \in 0..k /\ j \in 0..N
      BY <1>4, <2>7
    <3>2. Begins(j, k)
      BY <1>7, <2>1, <3>1
    <3>3. Len(f[j]) <= Len(f[k + 1])
      BY <1>5, <2>1, <2>5, <3>1, <3>2
    <3>4. ASSUME NEW i \in 1..Len(f[j]) PROVE f[k + 1][i] = f[j][i]
      <4>1. i \in 1..Len(f[k])
        BY <1>5, <2>1, <3>1, <3>2
      <4> QED
        BY <2>5, <3>2, <4>1
    <3> QED
      BY <3>3, <3>4
  <2> QED
    BY <2>6, <2>7
<1>8. Nat \subseteq S
  <2> HIDE DEF S
  <2> QED
    BY <1>6, <1>7, SetInduction
<1>9. \A j \in 0..N : Begins(j, N)
  BY <1>4, <1>8
<1>10. 0 \in 0..N /\ N \in 0..N
  BY <1>4
<1>11. Len(f[0]) = 1 /\ f[0][1] = _ROW_START
  BY <1>3
<1>12. Len(f[N]) >= 1 /\ f[N][1] = _ROW_START /\ Len(f[N]) \in Nat
  BY <1>5, <1>9, <1>10, <1>11
<1>13. f[N] # OverflowError
  <2>1. Len(<<>>) = 0
    OBVIOUS
  <2> QED
    BY <1>12, <2>1 DEF OverflowError
<1> QED
  BY <1>1, <1>2, <1>4, <1>5, <1>9, <1>10, <1>12, <1>13 DEF N

\* Where a reader may be: what it has read are values.
Cursors == [at : Nat \ {0}, failed : BOOLEAN, row : Seq(SpoolValues), ended : BOOLEAN]

Adds(c, v, n) == [c EXCEPT !.row = Append(@, v), !.at = @ + n]

\* A reader that adds a value moves on.
LEMMA CursorAdds ==
    ASSUME NEW c \in Cursors, NEW v \in SpoolValues, NEW n \in Nat
    PROVE  /\ Adds(c, v, n) \in Cursors
           /\ Adds(c, v, n).at = c.at + n /\ Adds(c, v, n).row = Append(c.row, v)
           /\ Adds(c, v, n).failed = c.failed /\ Adds(c, v, n).ended = c.ended
<1>1. c.at \in Nat \ {0} /\ c.failed \in BOOLEAN /\ c.row \in Seq(SpoolValues) /\ c.ended \in BOOLEAN
  BY DEF Cursors
<1>2. c.at + n \in Nat \ {0}
  BY <1>1
<1>3. Append(c.row, v) \in Seq(SpoolValues)
  BY <1>1, AppendProperties
<1>4. /\ Adds(c, v, n).at = c.at + n /\ Adds(c, v, n).row = Append(c.row, v)
      /\ Adds(c, v, n).failed = c.failed /\ Adds(c, v, n).ended = c.ended
  BY DEF Adds, Cursors
<1>5. Adds(c, v, n) \in Cursors
  <2> DEFINE r == Append(c.row, v)
             y == c.at + n
  <2>1. Adds(c, v, n) = [c EXCEPT !.row = r, !.at = y]
    BY DEF Adds
  <2>2. r \in Seq(SpoolValues) /\ y \in Nat \ {0}
    BY <1>2, <1>3
  <2> HIDE DEF r, y
  <2> QED
    BY <2>1, <2>2 DEF Cursors
<1> QED
  BY <1>4, <1>5

\* A reader that fails stays where it is.
LEMMA CursorFails ==
    ASSUME NEW c \in Cursors
    PROVE  Fails(c) \in Cursors /\ Fails(c).failed
  BY DEF Cursors, Fails

\* What _read_value() makes of what it finds.
LEMMA ValueIsRead ==
    ASSUME NEW spool \in Seq(Nat), NEW c \in Cursors
    PROVE  LET tag   == spool[c.at]
               size  == spool[c.at + 1]
               bytes == SubSeq(spool, c.at + 2, c.at + 1 + size)
           IN _read_value(spool, c) =
                IF c.failed \/ c.at > Len(spool) THEN Fails(c)
                ELSE IF tag \in {_TAG_NULL, _TAG_FALSE, _TAG_TRUE}
                     THEN Adds(c, <<tag, <<>>>>, 1)
                ELSE IF /\ tag \in {_TAG_INT, _TAG_STR} /\ c.at + 1 <= Len(spool)
                        /\ ~(tag = _TAG_INT /\ size = 0) /\ c.at + 1 + size <= Len(spool)
                     THEN Adds(c, <<tag, IF tag = _TAG_INT THEN from_bytes(bytes) ELSE bytes>>, 2 + size)
                ELSE Fails(c)
<1> DEFINE begun == _read_exact(spool, 1, c)
           tag   == spool[c.at]
           sized == _read_exact(spool, 2, begun)
           size  == spool[c.at + 1]
           whole == _read_exact(spool, 2 + size, sized)
           bytes == SubSeq(spool, c.at + 2, c.at + 1 + size)
           alone == tag \in {_TAG_NULL, _TAG_FALSE, _TAG_TRUE}
           long  == tag \in {_TAG_INT, _TAG_STR}
           value == <<tag, IF tag = _TAG_INT THEN from_bytes(bytes) ELSE bytes>>
<1>1. /\ c.at \in Nat \ {0} /\ c.failed \in BOOLEAN /\ Len(spool) \in Nat
      /\ Fails(c).failed /\ Fails(c).at = c.at
      /\ c.at <= Len(spool) => tag \in Nat
      /\ c.at + 1 <= Len(spool) => size \in Nat
  <2>1. c.at \in Nat \ {0} /\ c.failed \in BOOLEAN /\ Len(spool) \in Nat
    BY LenProperties DEF Cursors
  <2>2. Fails(c).failed /\ Fails(c).at = c.at
    BY DEF Cursors, Fails
  <2>3. \A i \in 1..Len(spool) : spool[i] \in Nat
    BY ElementOfSeq
  <2> QED
    BY <2>1, <2>2, <2>3
<1>2. _read_value(spool, c) =
        CASE c.failed \/ begun.failed -> Fails(c)
          [] ~c.failed /\ ~begun.failed /\ alone -> Adds(c, <<tag, <<>>>>, 1)
          [] ~c.failed /\ ~begun.failed /\ long ->
               IF sized.failed THEN sized
               ELSE IF tag = _TAG_INT /\ size = 0 THEN Fails(c)
               ELSE IF whole.failed THEN whole
               ELSE Adds(c, value, 2 + size)
          [] OTHER -> Fails(c)
  BY DEF _read_value, Adds
<1>3. begun = IF c.at > Len(spool) THEN Fails(c) ELSE c
  <2>1. c.at + 1 - 1 = c.at
    BY <1>1
  <2> QED
    BY <2>1 DEF _read_exact
<1>4. c.at <= Len(spool) => sized = IF c.at + 1 <= Len(spool) THEN c ELSE Fails(c)
  <2>1. c.at <= Len(spool) => begun = c /\ c.at + 2 - 1 = c.at + 1
    BY <1>1, <1>3
  <2> HIDE DEF begun
  <2>2. (c.at + 1 > Len(spool)) <=> ~(c.at + 1 <= Len(spool))
    BY <1>1
  <2> QED
    BY <2>1, <2>2 DEF _read_exact
<1>5. c.at + 1 <= Len(spool) => whole = IF c.at + 1 + size <= Len(spool) THEN c ELSE Fails(c)
  <2> SUFFICES ASSUME c.at + 1 <= Len(spool)
               PROVE  whole = IF c.at + 1 + size <= Len(spool) THEN c ELSE Fails(c)
    OBVIOUS
  <2>1. sized = c
    BY <1>1, <1>4
  <2>2. size \in Nat
    BY <1>1
  <2> HIDE DEF sized, size
  <2>3. c.at + (2 + size) - 1 = c.at + 1 + size
    <3>1. \A a, n \in Nat : a + (2 + n) - 1 = a + 1 + n
      OBVIOUS
    <3>2. c.at \in Nat
      BY <1>1
    <3> QED
      BY ONLY <2>2, <3>1, <3>2
  <2>4. (c.at + 1 + size > Len(spool)) <=> ~(c.at + 1 + size <= Len(spool))
    <3>1. \A a, n, l \in Nat : (a + 1 + n > l) <=> ~(a + 1 + n <= l)
      OBVIOUS
    <3>2. c.at \in Nat /\ Len(spool) \in Nat
      BY <1>1
    <3> QED
      BY ONLY <2>2, <3>1, <3>2
  <2> QED
    BY <2>1, <2>3, <2>4 DEF _read_exact
<1>6. ~(alone /\ long)
  <2> HIDE DEF tag
  <2> QED
    BY DEF _TAG_INT, _TAG_STR, _TAG_NULL, _TAG_FALSE, _TAG_TRUE
<1> HIDE DEF begun, sized, whole, alone, long, value, tag, size, bytes
<1>7. CASE c.failed \/ c.at > Len(spool)
  <2>1. _read_value(spool, c) = Fails(c)
    BY <1>1, <1>2, <1>3, <1>7
  <2> QED
    BY <1>7, <2>1
<1>8. CASE ~(c.failed \/ c.at > Len(spool)) /\ alone
  <2>1. _read_value(spool, c) = Adds(c, <<tag, <<>>>>, 1)
    BY <1>1, <1>2, <1>3, <1>6, <1>8
  <2> QED
    BY <1>8, <2>1 DEF alone, tag
<1>9. CASE ~(c.failed \/ c.at > Len(spool)) /\ ~alone
  <2>0. ~c.failed /\ ~begun.failed /\ c.at <= Len(spool)
    BY <1>1, <1>3, <1>9
  <2> DEFINE enough == /\ long /\ c.at + 1 <= Len(spool)
                       /\ ~(tag = _TAG_INT /\ size = 0) /\ c.at + 1 + size <= Len(spool)
  <2>1. CASE enough
    <3>1. ~sized.failed /\ ~whole.failed
      BY <1>4, <1>5, <2>0, <2>1
    <3>2. _read_value(spool, c) = Adds(c, value, 2 + size)
      BY <1>2, <1>9, <2>0, <2>1, <3>1
    <3> QED
      BY <1>9, <2>1, <3>2 DEF alone, long, value, tag, size, bytes
  <2>2. CASE ~enough
    <3>1. _read_value(spool, c) = Fails(c)
      <4>1. CASE ~long
        BY <1>2, <1>9, <2>0, <4>1
      <4>2. CASE long
        <5>1. _read_value(spool, c) =
                IF sized.failed THEN sized
                ELSE IF tag = _TAG_INT /\ size = 0 THEN Fails(c)
                ELSE IF whole.failed THEN whole
                ELSE Adds(c, value, 2 + size)
          BY <1>2, <1>9, <2>0, <4>2
        <5>2. CASE ~(c.at + 1 <= Len(spool))
          BY <1>1, <1>4, <2>0, <5>1, <5>2
        <5>3. CASE c.at + 1 <= Len(spool) /\ tag = _TAG_INT /\ size = 0
          BY <1>1, <1>4, <2>0, <5>1, <5>3
        <5>4. CASE c.at + 1 <= Len(spool) /\ ~(tag = _TAG_INT /\ size = 0)
          <6>1. ~(c.at + 1 + size <= Len(spool))
            BY <2>2, <4>2, <5>4
          <6>2. sized = c /\ whole = Fails(c)
            BY <1>4, <1>5, <2>0, <5>4, <6>1
          <6> QED
            BY <1>1, <2>0, <5>1, <5>4, <6>2
        <5> QED
          BY <5>2, <5>3, <5>4
      <4> QED
        BY <4>1, <4>2
    <3> QED
      BY <1>9, <2>2, <3>1 DEF alone, long, tag, size
  <2> QED
    BY <2>1, <2>2
<1> QED
  BY <1>7, <1>8, <1>9

\* Bytes are those of an integer.
LEMMA BytesAreANumber ==
    ASSUME NEW bytes \in Seq(Nat)
    PROVE  from_bytes(bytes) \in Int
<1>1. PICK f : NumeralLaw(f, Base, bytes) /\ Numeral(Base, bytes) = f[Len(bytes)]
  BY BaseFacts, NumeralEquation
<1>2. Len(bytes) \in Nat /\ Len(bytes) \in 0..Len(bytes)
  BY LenProperties
<1>3. Numeral(Base, bytes) \in Nat
  BY <1>1, <1>2 DEF NumeralLaw
<1>4. ByteBits * Len(bytes) \in Nat
  BY <1>2, BaseFacts
<1>5. Power2(ByteBits * Len(bytes)) \in Nat
  BY <1>4, PowerPositive
<1> QED
  BY <1>3, <1>5 DEF from_bytes

\* A part of a spool is bytes.
LEMMA PartOfSpool ==
    ASSUME NEW spool \in Seq(Nat), NEW from \in Nat \ {0}, NEW size \in Nat,
           from + 1 + size <= Len(spool)
    PROVE  LET bytes == SubSeq(spool, from + 2, from + 1 + size)
           IN /\ bytes \in Seq(Nat) /\ Len(bytes) = size
              /\ \A i \in 1..size : bytes[i] = spool[from + 1 + i]
<1> DEFINE m == from + 2
           n == from + 1 + size
           bytes == SubSeq(spool, m, n)
<1>1. Len(spool) \in Nat /\ \A i \in 1..Len(spool) : spool[i] \in Nat
  BY LenProperties, ElementOfSeq
<1>2. m \in 1..(Len(spool) + 1) /\ n \in (m - 1)..Len(spool) /\ n - m + 1 = size
  BY <1>1
<1> HIDE DEF m, n
<1>3. /\ bytes \in Seq(Nat) /\ Len(bytes) = n - m + 1
      /\ \A i \in 1..(n - m + 1) : bytes[i] = spool[m + i - 1]
  <2>1. \A k \in 1..(Len(spool) + 1) : \A l \in (k - 1)..Len(spool) :
          /\ SubSeq(spool, k, l) \in Seq(Nat) /\ Len(SubSeq(spool, k, l)) = l - k + 1
          /\ \A i \in 1..l - k + 1 : SubSeq(spool, k, l)[i] = spool[k + i - 1]
    BY SubSeqProperties
  <2> QED
    BY ONLY <1>2, <2>1
<1>4. \A i \in 1..size : m + i - 1 = from + 1 + i
  BY DEF m
<1> QED
  BY <1>2, <1>3, <1>4 DEF m, n

\* After a value, and after a failure.
LEMMA ReaderStays ==
    ASSUME NEW spool \in Seq(Nat), NEW c \in Cursors
    PROVE  _read_value(spool, c) \in Cursors /\ (c.failed => _read_value(spool, c).failed)
<1> DEFINE tag == spool[c.at]
           size == spool[c.at + 1]
           bytes == SubSeq(spool, c.at + 2, c.at + 1 + size)
<1>1. c.at \in Nat \ {0} /\ Len(spool) \in Nat /\ \A i \in 1..Len(spool) : spool[i] \in Nat
  BY LenProperties, ElementOfSeq DEF Cursors
<1>2. CASE _read_value(spool, c) = Fails(c)
  BY <1>2, CursorFails
<1>3. CASE /\ ~c.failed /\ tag \in {_TAG_NULL, _TAG_FALSE, _TAG_TRUE}
           /\ _read_value(spool, c) = Adds(c, <<tag, <<>>>>, 1)
  <2>1. <<tag, <<>>>> \in SpoolValues
    BY <1>3 DEF SpoolValues
  <2> HIDE DEF tag
  <2> QED
    BY <1>3, <2>1, CursorAdds
<1>4. CASE /\ ~c.failed /\ tag \in {_TAG_INT, _TAG_STR}
           /\ c.at + 1 <= Len(spool) /\ c.at + 1 + size <= Len(spool)
           /\ _read_value(spool, c)
                = Adds(c, <<tag, IF tag = _TAG_INT THEN from_bytes(bytes) ELSE bytes>>, 2 + size)
  <2>1. size \in Nat
    BY <1>1, <1>4
  <2> HIDE DEF tag, size
  <2>2. bytes \in Seq(Nat)
    BY <1>1, <1>4, <2>1, PartOfSpool
  <2>3. from_bytes(bytes) \in Int
    BY <2>2, BytesAreANumber
  <2> DEFINE x == IF tag = _TAG_INT THEN from_bytes(bytes) ELSE bytes
             v == <<tag, x>>
  <2> HIDE DEF bytes
  <2>4. v \in SpoolValues
    <3>1. CASE tag = _TAG_INT
      BY <2>3, <3>1 DEF SpoolValues
    <3>2. CASE tag # _TAG_INT /\ tag = _TAG_STR
      BY <2>2, <3>2 DEF SpoolValues
    <3> QED
      BY <1>4, <3>1, <3>2
  <2>5. 2 + size \in Nat
    BY <2>1
  <2> HIDE DEF v
  <2>6. Adds(c, v, 2 + size) \in Cursors
    BY <2>4, <2>5, CursorAdds
  <2> QED
    BY <1>4, <2>6 DEF v
<1>5. \/ _read_value(spool, c) = Fails(c)
      \/ /\ ~c.failed /\ tag \in {_TAG_NULL, _TAG_FALSE, _TAG_TRUE}
         /\ _read_value(spool, c) = Adds(c, <<tag, <<>>>>, 1)
      \/ /\ ~c.failed /\ tag \in {_TAG_INT, _TAG_STR}
         /\ c.at + 1 <= Len(spool) /\ c.at + 1 + size <= Len(spool)
         /\ _read_value(spool, c)
              = Adds(c, <<tag, IF tag = _TAG_INT THEN from_bytes(bytes) ELSE bytes>>, 2 + size)
  <2>1. _read_value(spool, c) =
          IF c.failed \/ c.at > Len(spool) THEN Fails(c)
          ELSE IF tag \in {_TAG_NULL, _TAG_FALSE, _TAG_TRUE} THEN Adds(c, <<tag, <<>>>>, 1)
          ELSE IF /\ tag \in {_TAG_INT, _TAG_STR} /\ c.at + 1 <= Len(spool)
                  /\ ~(tag = _TAG_INT /\ size = 0) /\ c.at + 1 + size <= Len(spool)
               THEN Adds(c, <<tag, IF tag = _TAG_INT THEN from_bytes(bytes) ELSE bytes>>, 2 + size)
          ELSE Fails(c)
    BY ValueIsRead
  <2> HIDE DEF tag, size, bytes
  <2> QED
    BY <2>1
<1> HIDE DEF tag, size, bytes
<1> QED
  BY <1>2, <1>3, <1>4, <1>5

\* A value is read back, or it is not all there.
LEMMA ValueIsReadBack ==
    ASSUME NEW spool \in Seq(Nat), NEW c \in Cursors, ~c.failed,
           NEW v \in SpoolValues, IsSpoolable(v),
           NEW w, w = _write_value(v),
           \A i \in 1..Len(w) : c.at + i - 1 <= Len(spool) => spool[c.at + i - 1] = w[i]
    PROVE  _read_value(spool, c) =
             IF c.at + Len(w) - 1 <= Len(spool) THEN Adds(c, v, Len(w)) ELSE Fails(c)
<1> DEFINE tag == spool[c.at]
           size == spool[c.at + 1]
           bytes == SubSeq(spool, c.at + 2, c.at + 1 + size)
<1>1. c.at \in Nat \ {0} /\ Len(spool) \in Nat
  BY LenProperties DEF Cursors
<1>2. v = <<v[1], v[2]>>
  BY SpoolValueIs
<1>3. /\ w \in Seq(Nat) /\ Len(w) \in Nat /\ Len(w) >= 1
      /\ \/ Alone(v) /\ Len(w) = 1 /\ w[1] = v[1]
         \/ Sized(v, w)
  <2>1. w \in Seq(Nat) /\ Len(w) >= 1
    BY ValueIsWritten
  <2>2. \/ Alone(v) /\ Len(w) = 1 /\ w[1] = v[1]
        \/ Sized(v, w)
    BY ValueIsWritten
  <2> QED
    BY <2>1, <2>2, LenProperties
<1>4. c.at <= Len(spool) => tag = w[1]
  <2>1. 1 \in 1..Len(w) /\ c.at + 1 - 1 = c.at
    BY <1>1, <1>3
  <2> QED
    BY <2>1
<1>5. _read_value(spool, c) =
        IF c.failed \/ c.at > Len(spool) THEN Fails(c)
        ELSE IF tag \in {_TAG_NULL, _TAG_FALSE, _TAG_TRUE} THEN Adds(c, <<tag, <<>>>>, 1)
        ELSE IF /\ tag \in {_TAG_INT, _TAG_STR} /\ c.at + 1 <= Len(spool)
                /\ ~(tag = _TAG_INT /\ size = 0) /\ c.at + 1 + size <= Len(spool)
             THEN Adds(c, <<tag, IF tag = _TAG_INT THEN from_bytes(bytes) ELSE bytes>>, 2 + size)
        ELSE Fails(c)
  BY ValueIsRead
<1>6. CASE c.at > Len(spool)
  <2>1. ~(c.at + Len(w) - 1 <= Len(spool))
    BY <1>1, <1>3, <1>6
  <2> QED
    BY <1>5, <1>6, <2>1
<1>7. CASE c.at <= Len(spool) /\ Alone(v) /\ Len(w) = 1 /\ w[1] = v[1]
  <2>1. c.at + Len(w) - 1 <= Len(spool) /\ ~(c.at > Len(spool))
    BY <1>1, <1>7
  <2>2. tag = v[1] /\ tag \in {_TAG_NULL, _TAG_FALSE, _TAG_TRUE} /\ v = <<tag, <<>>>>
    BY <1>2, <1>4, <1>7 DEF Alone
  <2> HIDE DEF tag, size, bytes
  <2> QED
    BY <1>5, <1>7, <2>1, <2>2
<1>8. CASE c.at <= Len(spool) /\ Sized(v, w)
  <2> DEFINE p == Payload(v)
  <2>1. /\ v[1] \in {_TAG_INT, _TAG_STR} /\ p \in Seq(Nat) /\ Len(p) \in Nat
        /\ Len(w) = 2 + Len(p) /\ w[1] = v[1] /\ w[2] = Len(p)
        /\ \A i \in 1..Len(p) : w[2 + i] = p[i]
        /\ v[1] = _TAG_INT => from_bytes(p) = v[2] /\ Len(p) >= 1
        /\ v[1] # _TAG_INT => p = v[2]
    BY <1>8, LenProperties DEF Sized, Payload
  <2> HIDE DEF p
  <2>2. tag = v[1] /\ tag \notin {_TAG_NULL, _TAG_FALSE, _TAG_TRUE}
    BY <1>4, <1>8, <2>1 DEF _TAG_INT, _TAG_STR, _TAG_NULL, _TAG_FALSE, _TAG_TRUE
  <2>3. c.at + 1 <= Len(spool) => size = Len(p)
    <3>1. 2 \in 1..Len(w) /\ c.at + 2 - 1 = c.at + 1
      BY <1>1, <2>1
    <3> QED
      BY <2>1, <3>1
  <2>4. CASE c.at + Len(w) - 1 <= Len(spool)
    <3>1. c.at + 1 <= Len(spool) /\ size = Len(p) /\ c.at + 1 + size <= Len(spool)
      <4>1. Len(p) \in Nat /\ Len(w) = 2 + Len(p)
        BY <2>1
      <4>2. c.at + 1 <= Len(spool) /\ c.at + 1 + Len(p) <= Len(spool)
        <5>1. \A a, l, n \in Nat : a + (2 + n) - 1 <= l => a + 1 <= l /\ a + 1 + n <= l
          OBVIOUS
        <5>2. c.at \in Nat
          BY <1>1
        <5> QED
          BY ONLY <1>1, <2>4, <4>1, <5>1, <5>2
      <4> QED
        BY <2>3, <4>2
    <3>2. /\ bytes \in Seq(Nat) /\ Len(bytes) = Len(p)
          /\ \A i \in 1..Len(p) : bytes[i] = spool[c.at + 1 + i]
      <4>1. size \in Nat
        BY <2>1, <3>1
      <4> HIDE DEF size
      <4>2. /\ bytes \in Seq(Nat) /\ Len(bytes) = size
            /\ \A i \in 1..size : bytes[i] = spool[c.at + 1 + i]
        BY <1>1, <3>1, <4>1, PartOfSpool
      <4> HIDE DEF bytes
      <4> QED
        BY ONLY <3>1, <4>2
    <3>3. ASSUME NEW i \in 1..Len(p) PROVE bytes[i] = p[i]
      <4>1. 2 + i \in 1..Len(w) /\ c.at + (2 + i) - 1 = c.at + 1 + i /\ c.at + 1 + i <= Len(spool)
        <5>1. Len(p) \in Nat /\ Len(w) = 2 + Len(p)
          BY <2>1
        <5>2. i \in 1..Len(p)
          OBVIOUS
        <5> DEFINE a == c.at
                   l == Len(spool)
                   n == Len(p)
        <5>3. a \in Nat /\ l \in Nat /\ n \in Nat /\ a + (2 + n) - 1 <= l
          BY <1>1, <2>4, <5>1
        <5> HIDE DEF a, l, n
        <5>4. i \in 1..n
          BY <5>2 DEF n
        <5>5. 2 + i \in 1..(2 + n)
          BY ONLY <5>3, <5>4
        <5>6. a + (2 + i) - 1 = a + 1 + i /\ a + 1 + i <= l
          BY ONLY <5>3, <5>4
        <5> QED
          BY ONLY <5>1, <5>5, <5>6 DEF a, l, n
      <4>2. spool[c.at + (2 + i) - 1] = w[2 + i]
        BY <4>1
      <4> HIDE DEF bytes
      <4> QED
        BY <2>1, <3>2, <4>1, <4>2
    <3>4. bytes = p
      <4> HIDE DEF bytes
      <4> QED
        BY <2>1, <3>2, <3>3, SeqEqual
    <3> HIDE DEF tag, size, bytes
    <3>5. v = <<tag, IF tag = _TAG_INT THEN from_bytes(bytes) ELSE bytes>>
      BY <1>2, <2>1, <2>2, <3>4
    <3>6. ~(tag = _TAG_INT /\ size = 0) /\ ~(c.at > Len(spool)) /\ tag \in {_TAG_INT, _TAG_STR}
      BY <1>1, <1>8, <2>1, <2>2, <3>1
    <3>7. _read_value(spool, c) =
            Adds(c, <<tag, IF tag = _TAG_INT THEN from_bytes(bytes) ELSE bytes>>, 2 + size)
      BY <1>5, <2>2, <3>1, <3>6
    <3> QED
      BY <2>1, <2>4, <3>1, <3>5, <3>7
  <2>5. CASE ~(c.at + Len(w) - 1 <= Len(spool))
    <3>1. ~(c.at + 1 <= Len(spool) /\ c.at + 1 + size <= Len(spool))
      <4> HIDE DEF size
      <4> QED
        BY <1>1, <2>1, <2>3, <2>5
    <3> HIDE DEF tag, size, bytes
    <3>2. _read_value(spool, c) = Fails(c)
      BY <1>5, <2>2, <3>1
    <3> QED
      BY <2>5, <3>2
  <2> QED
    BY <2>4, <2>5
<1> QED
  BY <1>1, <1>3, <1>6, <1>7, <1>8

ReadLaw(f, spool, c, n) ==
    /\ f \in [0..n -> Cursors] /\ f[0] = c
    /\ \A k \in 1..n : f[k] = _read_value(spool, f[k - 1])

\* _read_values() is one value after another.
LEMMA ReadEquation ==
    ASSUME NEW spool \in Seq(Nat), NEW c \in Cursors, NEW n \in Nat
    PROVE  \E f : ReadLaw(f, spool, c, n) /\ _read_values(spool, c, n) = f[n]
<1> DEFINE M == n
           step == [x \in (Cursors) \X (1..M) |-> _read_value(spool, x[1])]
           body(g) == [k \in 0..M |-> IF k = 0 THEN c ELSE _read_value(spool, g[k - 1])]
           whole == CHOOSE g : g = body(g)
<1>1. M \in Nat
  OBVIOUS
<1>2. \A x \in Cursors, k \in 1..M : _read_value(spool, x) \in Cursors
  BY ReaderStays
<1>3. c \in Cursors
  OBVIOUS
<1>4. step \in [(Cursors) \X (1..M) -> Cursors]
  <2> HIDE DEF M
  <2> QED
    BY <1>2
<1>5. PICK f : f \in Solutions(M, Cursors, c, step)
  <2> HIDE DEF step, M
  <2> QED
    BY <1>1, <1>3, <1>4, RecursionHasSolution
<1>6. /\ f \in [0..M -> Cursors] /\ f[0] = c
      /\ \A k \in 1..M : f[k] = step[<<f[k - 1], k>>]
  <2> HIDE DEF step, M
  <2> QED
    BY <1>5 DEF Solutions
<1>7. \A k \in 1..M : f[k] = _read_value(spool, f[k - 1])
  <2> SUFFICES ASSUME NEW k \in 1..M PROVE f[k] = _read_value(spool, f[k - 1])
    OBVIOUS
  <2> HIDE DEF M
  <2>1. k - 1 \in 0..M
    BY <1>1
  <2>2. f[k - 1] \in Cursors
    BY <1>6, <2>1
  <2>3. <<f[k - 1], k>> \in (Cursors) \X (1..M)
    BY <2>2
  <2> QED
    BY <1>6, <2>3
<1>8. f = body(f)
  <2>1. ASSUME NEW k \in 0..M
        PROVE  f[k] = IF k = 0 THEN c ELSE _read_value(spool, f[k - 1])
    <3> HIDE DEF M
    <3>1. CASE k = 0
      BY <1>6, <3>1
    <3>2. CASE k # 0
      <4>1. k \in 1..M
        BY <1>1, <3>2
      <4> QED
        BY <1>7, <3>2, <4>1
    <3> QED
      BY <3>1, <3>2
  <2>2. f = [k \in 0..M |-> f[k]]
    BY <1>6
  <2> HIDE DEF M
  <2> QED
    BY <2>1, <2>2
<1>9. _read_values(spool, c, n) = whole[M]
  BY DEF _read_values
<1> HIDE DEF body
<1>10. whole = body(whole)
  BY <1>8
<1> HIDE DEF whole, M
<1>11. \A k \in 0..M : whole[k] = IF k = 0 THEN c ELSE _read_value(spool, whole[k - 1])
  BY <1>10 DEF body
<1> DEFINE Same == {k \in Nat : k <= M => whole[k] = f[k]}
<1>12. 0 \in Same
  <2>1. 0 \in 0..M
    BY <1>1
  <2> QED
    BY <1>6, <1>11, <2>1
<1>13. ASSUME NEW k \in Nat, k \in Same PROVE k + 1 \in Same
  <2> SUFFICES ASSUME k + 1 <= M PROVE whole[k + 1] = f[k + 1]
    OBVIOUS
  <2>1. k + 1 \in 0..M /\ k + 1 \in 1..M /\ k + 1 # 0 /\ (k + 1) - 1 = k /\ whole[k] = f[k]
    BY <1>1, <1>13
  <2>2. whole[k + 1] = _read_value(spool, whole[k])
    BY <1>11, <2>1
  <2>3. f[k + 1] = _read_value(spool, f[k])
    BY <1>7, <2>1
  <2> QED
    BY <2>1, <2>2, <2>3
<1>14. Nat \subseteq Same
  <2> HIDE DEF Same
  <2> QED
    BY <1>12, <1>13, SetInduction
<1>15. whole[M] = f[M]
  BY <1>1, <1>14
<1> QED
  BY <1>6, <1>7, <1>9, <1>15 DEF ReadLaw, M

\* A row is read back, or it is not all there.
LEMMA RowIsReadBack ==
    ASSUME NEW row, Spoolable(row), NEW spool \in Seq(Nat), NEW from \in Nat \ {0},
           \A i \in 1..Len(write_neutral_row(row)) :
             from + i - 1 <= Len(spool) => spool[from + i - 1] = write_neutral_row(row)[i]
    PROVE  LET cursor == read_neutral_row(spool, from, Len(row))
               end    == from + Len(write_neutral_row(row))
           IN /\ end - 1 <= Len(spool) =>
                   ~cursor.failed /\ ~cursor.ended /\ cursor.row = row /\ cursor.at = end
              /\ ~(end - 1 <= Len(spool)) => cursor.failed
<1> DEFINE w == write_neutral_row(row)
           N == Len(row)
           cursor == read_neutral_row(spool, from, N)
           c == [Cursor(spool, from) EXCEPT !.at = from + 1]
<1>1. PICK f : /\ WrittenLaw(f, row) /\ N \in Nat /\ w = f[N]
               /\ w \in Seq(Nat) /\ Len(w) >= 1 /\ w[1] = _ROW_START
               /\ \A k \in 0..N :
                    /\ f[k] \in Seq(Nat) /\ Len(f[k]) \in Nat /\ Len(f[k]) <= Len(w)
                    /\ \A i \in 1..Len(f[k]) : w[i] = f[k][i]
  BY RowIsWritten
<1>2. f[0] = <<_ROW_START>> /\ \A k \in 1..N : f[k] = f[k - 1] \o _write_value(row[k])
  BY <1>1 DEF WrittenLaw
<1>3. Len(w) \in Nat /\ Len(spool) \in Nat
  BY <1>1, LenProperties
<1>4. \A i \in 1..Len(w) : from + i - 1 <= Len(spool) => spool[from + i - 1] = w[i]
  OBVIOUS
<1> HIDE DEF w, N
<1>5. c \in Cursors /\ ~c.failed /\ ~c.ended /\ c.at = from + 1 /\ c.row = <<>>
  <2> DEFINE d == Cursor(spool, from)
             e == from + 1
  <2>1. <<>> \in Seq(SpoolValues)
    BY EmptySeq
  <2>2. d \in Cursors /\ ~d.failed /\ ~d.ended /\ d.row = <<>>
    BY <2>1 DEF Cursor, Cursors
  <2>3. c = [d EXCEPT !.at = e]
    OBVIOUS
  <2>4. e \in Nat \ {0}
    OBVIOUS
  <2> HIDE DEF c, d, e
  <2>5. c \in Cursors /\ ~c.failed /\ ~c.ended /\ c.at = e /\ c.row = <<>>
    BY <2>2, <2>3, <2>4 DEF Cursors
  <2> QED
    BY <2>5 DEF e
<1>6. CASE ~(from <= Len(spool))
  <2>1. from + 1 - 1 > Len(spool)
    BY <1>3, <1>6
  <2>2. _read_exact(spool, 1, Cursor(spool, from)) = Fails(Cursor(spool, from))
    BY <2>1 DEF _read_exact, Cursor
  <2>3. Fails(Cursor(spool, from)).failed
    BY DEF Fails, Cursor
  <2>4. cursor.failed
    BY <2>2, <2>3 DEF read_neutral_row
  <2>5. ~(from + Len(w) - 1 <= Len(spool))
    BY <1>1, <1>3, <1>6
  <2> QED
    BY <2>4, <2>5 DEF w, N
<1>7. CASE from <= Len(spool)
  <2>1. cursor = _read_values(spool, c, N)
    <3>1. ~(from + 1 - 1 > Len(spool))
      BY <1>3, <1>7
    <3>2. _read_exact(spool, 1, Cursor(spool, from)) = Cursor(spool, from)
      BY <3>1 DEF _read_exact, Cursor
    <3>3. spool[from] = _ROW_START
      <4>1. 1 \in 1..Len(w) /\ from + 1 - 1 = from
        BY <1>1, <1>3
      <4> QED
        BY <1>1, <1>4, <1>7, <4>1
    <3>4. _ROW_START # _TERMINATOR
      BY BaseFacts DEF _ROW_START, _TERMINATOR
    <3>5. ~Cursor(spool, from).failed
      BY DEF Cursor
    <3> QED
      BY <3>2, <3>3, <3>4, <3>5 DEF read_neutral_row
  <2>2. PICK r : ReadLaw(r, spool, c, N) /\ _read_values(spool, c, N) = r[N]
    <3> HIDE DEF c
    <3> QED
      BY <1>1, <1>5, ReadEquation
  <2>3. r \in [0..N -> Cursors] /\ r[0] = c /\ \A k \in 1..N : r[k] = _read_value(spool, r[k - 1])
    BY <2>2 DEF ReadLaw
  <2> HIDE DEF c, cursor
  \* The first k values, or a failure.
  <2> DEFINE There(k) == from + Len(f[k]) - 1 <= Len(spool)
             Good(k) == /\ ~r[k].failed /\ ~r[k].ended /\ r[k].row = Taken(row, k)
                        /\ r[k].at = from + Len(f[k])
             S == {k \in Nat : k <= N => (There(k) => Good(k)) /\ (~There(k) => r[k].failed)}
  <2>4. row \in Seq(SpoolValues)
    BY DEF Spoolable
  <2>5. 0 \in S
    <3>1. Len(f[0]) = 1
      BY <1>2
    <3>2. There(0)
      BY <1>3, <1>7, <3>1
    <3>3. Taken(row, 0) = <<>>
      BY <2>4, TakenProperties
    <3>4. Good(0)
      BY <1>5, <2>3, <3>1, <3>3
    <3> HIDE DEF There, Good
    <3> QED
      BY <3>2, <3>4
  <2>6. ASSUME NEW k \in Nat, k \in S PROVE k + 1 \in S
    <3> SUFFICES ASSUME k + 1 <= N
                 PROVE  (There(k + 1) => Good(k + 1)) /\ (~There(k + 1) => r[k + 1].failed)
      OBVIOUS
    <3> DEFINE v == row[k + 1]
               u == _write_value(v)
    <3>1. k \in 0..N /\ k + 1 \in 0..N /\ k + 1 \in 1..N /\ (k + 1) - 1 = k
      BY <1>1
    <3>2. r[k + 1] = _read_value(spool, r[k]) /\ r[k] \in Cursors
      BY <2>3, <3>1
    <3>3. v \in SpoolValues /\ IsSpoolable(v) /\ u \in Seq(Nat) /\ Len(u) \in Nat /\ Len(u) >= 1
      <4>1. v \in SpoolValues /\ IsSpoolable(v) /\ u \in Seq(Nat) /\ Len(u) >= 1
        BY <3>1, ElementIsWritten DEF N
      <4> QED
        BY <4>1, LenProperties
    <3>4. f[k + 1] = f[k] \o u /\ f[k] \in Seq(Nat)
      BY <1>1, <1>2, <3>1
    <3> HIDE DEF u, v
    <3>5. /\ Len(f[k + 1]) = Len(f[k]) + Len(u) /\ Len(f[k]) \in Nat
          /\ \A i \in 1..Len(u) : f[k + 1][Len(f[k]) + i] = u[i]
      <4> DEFINE before == f[k]
      <4>1. before \in Seq(Nat) /\ Len(before) \in Nat
        BY <3>4, LenProperties
      <4> HIDE DEF before
      <4>2. /\ Len(before \o u) = Len(before) + Len(u)
            /\ \A i \in 1..(Len(before) + Len(u)) :
                 (before \o u)[i] = IF i <= Len(before) THEN before[i] ELSE u[i - Len(before)]
        BY <3>3, <4>1, ConcatProperties
      <4>3. ASSUME NEW i \in 1..Len(u) PROVE (before \o u)[Len(before) + i] = u[i]
        <5>1. /\ Len(before) + i \in 1..(Len(before) + Len(u)) /\ ~(Len(before) + i <= Len(before))
              /\ (Len(before) + i) - Len(before) = i
          BY <3>3, <4>1
        <5> QED
          BY <4>2, <5>1
      <4> QED
        BY <3>4, <4>1, <4>2, <4>3 DEF before
    <3>6. CASE There(k)
      <4>1. Good(k)
        BY <2>6, <3>1, <3>6
      <4>2. ASSUME NEW i \in 1..Len(u), r[k].at + i - 1 <= Len(spool)
            PROVE  spool[r[k].at + i - 1] = u[i]
        <5>1. r[k].at = from + Len(f[k])
          BY <4>1
        <5>2. Len(f[k]) + i \in 1..Len(f[k + 1]) /\ Len(f[k + 1]) \in Nat /\ Len(f[k + 1]) <= Len(w)
          <6>1. Len(f[k + 1]) \in Nat /\ Len(f[k + 1]) <= Len(w)
            BY <1>1, <3>1
          <6> QED
            BY ONLY <3>3, <3>5, <6>1, i \in 1..Len(u)
        <5>3. Len(f[k]) + i \in 1..Len(w)
          BY ONLY <1>3, <5>2
        <5>4. w[Len(f[k]) + i] = u[i]
          BY <1>1, <3>1, <3>5, <5>2
        <5>5. from + (Len(f[k]) + i) - 1 = r[k].at + i - 1
          BY ONLY <3>3, <3>5, <5>1, from \in Nat \ {0}, i \in 1..Len(u)
        <5>6. spool[from + (Len(f[k]) + i) - 1] = w[Len(f[k]) + i]
          BY <1>4, <4>2, <5>3, <5>5
        <5> QED
          BY <5>4, <5>5, <5>6
      <4>3. r[k + 1] = IF r[k].at + Len(u) - 1 <= Len(spool) THEN Adds(r[k], v, Len(u))
                       ELSE Fails(r[k])
        <5> DEFINE b == r[k]
        <5>1. b \in Cursors /\ ~b.failed
          BY <3>2, <4>1
        <5>2. \A i \in 1..Len(u) : b.at + i - 1 <= Len(spool) => spool[b.at + i - 1] = u[i]
          BY <4>2
        <5>3. u = _write_value(v)
          BY DEF u
        <5> HIDE DEF b
        <5>4. _read_value(spool, b) =
                IF b.at + Len(u) - 1 <= Len(spool) THEN Adds(b, v, Len(u)) ELSE Fails(b)
          BY <3>3, <5>1, <5>2, <5>3, ValueIsReadBack
        <5> QED
          BY <3>2, <5>4 DEF b
      <4>4. r[k].at + Len(u) - 1 = from + Len(f[k + 1]) - 1 /\ r[k].at + Len(u) = from + Len(f[k + 1])
        BY <3>3, <3>5, <4>1
      <4>5. CASE There(k + 1)
        <5>1. r[k + 1] = Adds(r[k], v, Len(u))
          BY <4>3, <4>4, <4>5
        <5> DEFINE b == r[k]
        <5>2. b \in Cursors
          BY <3>2
        <5> HIDE DEF b
        <5>3. /\ Adds(b, v, Len(u)).at = b.at + Len(u) /\ Adds(b, v, Len(u)).row = Append(b.row, v)
              /\ Adds(b, v, Len(u)).failed = b.failed /\ Adds(b, v, Len(u)).ended = b.ended
          BY <3>3, <5>2, CursorAdds
        <5>4. Append(Taken(row, k), v) = Taken(row, k + 1)
          <6>1. \A j \in 1..Len(row) : Append(Taken(row, j - 1), row[j]) = Taken(row, j)
            BY <2>4, TakenProperties
          <6> QED
            BY <3>1, <6>1 DEF v, N
        <5>5. Good(k + 1)
          BY <4>1, <4>4, <5>1, <5>3, <5>4 DEF b
        <5> QED
          BY <4>5, <5>5
      <4>6. CASE ~There(k + 1)
        <5>1. r[k + 1] = Fails(r[k])
          BY <4>3, <4>4, <4>6
        <5>2. r[k + 1].failed
          BY <3>2, <5>1, CursorFails
        <5> QED
          BY <4>6, <5>2
      <4> QED
        BY <4>5, <4>6
    <3>7. CASE ~There(k)
      <4>1. r[k].failed
        BY <2>6, <3>1, <3>7
      <4>2. r[k + 1].failed
        BY <3>2, <4>1, ReaderStays
      <4>3. ~There(k + 1)
        BY <1>3, <3>3, <3>5, <3>7
      <4> QED
        BY <4>2, <4>3
    <3> QED
      BY <3>6, <3>7
  <2>7. Nat \subseteq S
    <3> HIDE DEF S
    <3> QED
      BY <2>5, <2>6, SetInduction
  <2>8. (There(N) => Good(N)) /\ (~There(N) => r[N].failed)
    BY <1>1, <2>7
  <2>9. Taken(row, N) = row
    BY <2>4, TakenProperties DEF N
  <2>10. cursor = r[N] /\ Len(f[N]) = Len(w)
    BY <1>1, <2>1, <2>2
  <2>11. (from + Len(w) - 1 <= Len(spool) => ~cursor.failed /\ ~cursor.ended /\ cursor.row = row
                                             /\ cursor.at = from + Len(w))
         /\ (~(from + Len(w) - 1 <= Len(spool)) => cursor.failed)
    BY <2>8, <2>9, <2>10
  <2> QED
    BY <2>11 DEF cursor, w, N
<1> QED
  BY <1>6, <1>7

-----------------------------------------------------------------------------
(* The file of the neutral spool: written, cut, read. *)

\* Rows laid out one after another, and where each of them ends.
Laid(rs, bytes, ends) ==
    /\ bytes \in Seq(Nat) /\ ends \in [0..Len(rs) -> Nat]
    /\ ends[0] = 0 /\ ends[Len(rs)] = Len(bytes)
    /\ \A k \in 1..Len(rs) :
         /\ ends[k] = ends[k - 1] + Len(write_neutral_row(rs[k])) /\ ends[k] <= Len(bytes)
         /\ \A i \in 1..Len(write_neutral_row(rs[k])) :
              bytes[ends[k - 1] + i] = write_neutral_row(rs[k])[i]

\* All of the file is there unless its end is lost.
Survives(spool, bytes, lost) ==
    /\ spool \in Seq(Nat) /\ Len(spool) <= Len(bytes) + 1
    /\ lost \in BOOLEAN /\ (~lost => Len(spool) = Len(bytes) + 1)
    /\ \A i \in 1..Len(spool) : spool[i] = Append(bytes, _TERMINATOR)[i]

\* The reader has the first rows and is where they end.
ReadSoFar(rs, back, ends, from) ==
    /\ Len(back) \in 0..Len(rs) /\ back = Taken(rs, Len(back))
    /\ from = ends[Len(back)] + 1

FileOf(rs, bytes, ends, spool, state, lost, from, back) ==
    \/ /\ state = "write" /\ spool = bytes /\ lost = FALSE /\ from = 1 /\ back = <<>>
    \/ /\ state \in {"read", "done", "short"} /\ rs # <<>>
       /\ Survives(spool, bytes, lost) /\ ReadSoFar(rs, back, ends, from)
       /\ state = "done" => back = rs
       /\ state = "short" => lost

FileInv(rs, spool, state, lost, from, back) ==
    /\ rs \in Seq(Frames) /\ \A i, j \in 1..Len(rs) : Len(rs[i]) = Len(rs[j])
    /\ \E bytes, ends :
         Laid(rs, bytes, ends) /\ FileOf(rs, bytes, ends, spool, state, lost, from, back)

\* Rows of the spool can be written.
LEMMA FramesAreSpoolable ==
    ASSUME NEW row \in Frames
    PROVE  Spoolable(row)
<1>1. row \in Seq(SpoolValues) /\ \A i \in DOMAIN row : IsSpoolable(row[i])
  BY FrameAssumption
<1>2. DOMAIN row = 1..Len(row)
  BY <1>1, LenProperties
<1> QED
  BY <1>1, <1>2 DEF Spoolable

\* Every row of a frame is written as bytes.
LEMMA FrameIsWritten ==
    ASSUME NEW row \in Frames
    PROVE  /\ write_neutral_row(row) \in Seq(Nat) /\ write_neutral_row(row) # OverflowError
           /\ Len(write_neutral_row(row)) \in Nat
<1>1. Spoolable(row)
  BY FramesAreSpoolable
<1>2. write_neutral_row(row) \in Seq(Nat) /\ write_neutral_row(row) # OverflowError
  BY <1>1, RowIsWritten
<1> QED
  BY <1>2, LenProperties

\* No rows, no bytes.
LEMMA FileBegins == FileInv(<<>>, <<>>, "write", FALSE, 1, <<>>)
<1> DEFINE ends == [k \in 0..0 |-> 0]
<1>1. Len(<<>>) = 0 /\ <<>> \in Seq(Nat) /\ <<>> \in Seq(Frames)
  BY EmptySeq
<1>2. ends \in [0..0 -> Nat] /\ ends[0] = 0
  OBVIOUS
<1> HIDE DEF ends
<1>3. Laid(<<>>, <<>>, ends)
  BY <1>1, <1>2 DEF Laid
<1>4. FileOf(<<>>, <<>>, ends, <<>>, "write", FALSE, 1, <<>>)
  BY DEF FileOf
<1>5. \A i, j \in 1..Len(<<>>) : Len(<<>>[i]) = Len(<<>>[j])
  BY <1>1
<1>6. \E all, over :
        Laid(<<>>, all, over) /\ FileOf(<<>>, all, over, <<>>, "write", FALSE, 1, <<>>)
  BY ONLY <1>3, <1>4
<1> QED
  BY ONLY <1>1, <1>5, <1>6 DEF FileInv

\* One more row.
LEMMA FileGrows ==
    ASSUME NEW rs, NEW spool, NEW lost, NEW from, NEW back,
           FileInv(rs, spool, "write", lost, from, back),
           NEW row \in Frames, rs # <<>> => Len(row) = Len(rs[1])
    PROVE  FileInv(Append(rs, row), spool \o write_neutral_row(row), "write", lost, from, back)
<1> DEFINE w == write_neutral_row(row)
           n == Len(rs)
           more == Append(rs, row)
<1>1. rs \in Seq(Frames) /\ \A i, j \in 1..n : Len(rs[i]) = Len(rs[j])
  BY DEF FileInv
<1>2. PICK bytes, ends :
        Laid(rs, bytes, ends) /\ FileOf(rs, bytes, ends, spool, "write", lost, from, back)
  BY DEF FileInv
<1>3. spool = bytes /\ lost = FALSE /\ from = 1 /\ back = <<>>
  BY <1>2 DEF FileOf
<1>4. /\ n \in Nat /\ more \in Seq(Frames) /\ Len(more) = n + 1
      /\ more[n + 1] = row /\ \A i \in 1..n : more[i] = rs[i]
  BY <1>1, AppendProperties, LenProperties
<1>5. w \in Seq(Nat) /\ Len(w) \in Nat
  BY FrameIsWritten
<1>6. /\ bytes \in Seq(Nat) /\ Len(bytes) \in Nat /\ ends \in [0..n -> Nat]
      /\ ends[0] = 0 /\ ends[n] = Len(bytes)
      /\ \A k \in 1..n :
           /\ ends[k] = ends[k - 1] + Len(write_neutral_row(rs[k])) /\ ends[k] <= Len(bytes)
           /\ \A i \in 1..Len(write_neutral_row(rs[k])) :
                bytes[ends[k - 1] + i] = write_neutral_row(rs[k])[i]
  BY <1>2, LenProperties DEF Laid
<1> DEFINE all == bytes \o w
           over == [k \in 0..(n + 1) |-> IF k = n + 1 THEN Len(bytes) + Len(w) ELSE ends[k]]
<1>7. \A i, j \in 1..(n + 1) : Len(more[i]) = Len(more[j])
  <2>1. ASSUME NEW i \in 1..(n + 1) PROVE Len(more[i]) = Len(row)
    <3>1. CASE i = n + 1
      BY <1>4, <3>1
    <3>2. CASE i # n + 1
      <4>1. i \in 1..n /\ 1 \in 1..n /\ n # 0
        BY <1>4, <3>2
      <4>2. rs # <<>>
        BY <1>1, <4>1, EmptySeq
      <4> HIDE DEF more, n
      <4> QED
        BY <1>1, <1>4, <4>1, <4>2
    <3> QED
      BY <3>1, <3>2
  <2> QED
    BY <2>1
<1> HIDE DEF w, n, more
<1>8. /\ all \in Seq(Nat) /\ Len(all) = Len(bytes) + Len(w)
      /\ \A i \in 1..(Len(bytes) + Len(w)) :
           all[i] = IF i <= Len(bytes) THEN bytes[i] ELSE w[i - Len(bytes)]
  BY <1>5, <1>6, ConcatProperties
<1>9. /\ over \in [0..(n + 1) -> Nat] /\ over[0] = 0 /\ over[n + 1] = Len(bytes) + Len(w)
      /\ \A k \in 0..n : over[k] = ends[k]
  BY <1>4, <1>5, <1>6
<1> HIDE DEF all, over
<1>10. ASSUME NEW k \in 1..(n + 1)
       PROVE  /\ over[k] = over[k - 1] + Len(write_neutral_row(more[k])) /\ over[k] <= Len(all)
              /\ \A i \in 1..Len(write_neutral_row(more[k])) :
                   all[over[k - 1] + i] = write_neutral_row(more[k])[i]
  <2>1. CASE k = n + 1
    <3>1. write_neutral_row(more[k]) = w /\ over[k] = Len(bytes) + Len(w) /\ over[k - 1] = Len(bytes)
      <4>1. k - 1 = n /\ n \in 0..n
        BY <1>4, <2>1
      <4> QED
        BY <1>4, <1>6, <1>9, <2>1, <4>1 DEF w
    <3>2. ASSUME NEW i \in 1..Len(w) PROVE all[Len(bytes) + i] = w[i]
      <4>1. /\ Len(bytes) + i \in 1..(Len(bytes) + Len(w)) /\ ~(Len(bytes) + i <= Len(bytes))
            /\ (Len(bytes) + i) - Len(bytes) = i
        BY <1>5, <1>6
      <4> QED
        BY <1>8, <4>1
    <3>3. over[k] <= Len(all)
      BY <1>5, <1>6, <1>8, <3>1
    <3> QED
      BY <3>1, <3>2, <3>3
  <2>2. CASE k # n + 1
    <3>1. k \in 1..n /\ k \in 0..n /\ k - 1 \in 0..n
      BY <1>4, <2>2
    <3>2. more[k] = rs[k] /\ over[k] = ends[k] /\ over[k - 1] = ends[k - 1] /\ ends[k - 1] \in Nat
      BY <1>4, <1>6, <1>9, <3>1
    <3>3. rs[k] \in Frames
      BY <1>1, <3>1, ElementOfSeq DEF n
    <3> DEFINE u == write_neutral_row(rs[k])
    <3>4. Len(u) \in Nat
      BY <3>3, FrameIsWritten
    <3>5. /\ ends[k] = ends[k - 1] + Len(u) /\ ends[k] <= Len(bytes)
          /\ \A i \in 1..Len(u) : bytes[ends[k - 1] + i] = u[i]
      BY <1>6, <3>1
    <3> HIDE DEF u
    <3>6. ASSUME NEW i \in 1..Len(u) PROVE all[ends[k - 1] + i] = u[i]
      <4>1. /\ ends[k - 1] + i \in 1..(Len(bytes) + Len(w)) /\ ends[k - 1] + i <= Len(bytes)
        <5> DEFINE a == ends[k - 1]
                   b == ends[k]
                   l == Len(bytes)
                   m == Len(u)
        <5>1. a \in Nat /\ b = a + m /\ b <= l /\ l \in Nat /\ m \in Nat /\ i \in 1..m
          BY <1>6, <3>2, <3>4, <3>5
        <5> HIDE DEF a, b, l, m
        <5>2. a + i \in 1..l /\ a + i <= l
          BY ONLY <5>1
        <5> DEFINE v == Len(w)
        <5>3. v \in Nat
          BY <1>5
        <5> HIDE DEF v
        <5>4. a + i \in 1..(l + v) /\ a + i <= l
          BY ONLY <5>1, <5>2, <5>3
        <5> QED
          BY ONLY <5>4 DEF a, l, v
      <4> QED
        BY <1>8, <3>5, <4>1
    <3>7. ends[k] <= Len(all)
      <4>1. ends[k] \in Nat
        BY <1>6, <3>1
      <4> QED
        BY <1>5, <1>6, <1>8, <3>5, <4>1
    <3> QED
      BY <3>2, <3>5, <3>6, <3>7 DEF u
  <2> QED
    BY <2>1, <2>2
<1>11. Laid(more, all, over)
  BY <1>4, <1>8, <1>9, <1>10 DEF Laid
<1>12. FileOf(more, all, over, spool \o w, "write", lost, from, back)
  BY <1>3 DEF FileOf, all
<1>13. FileInv(more, spool \o w, "write", lost, from, back)
  BY <1>4, <1>7, <1>11, <1>12 DEF FileInv
<1> QED
  BY <1>13 DEF more, w

\* The terminator.
LEMMA FileEnds ==
    ASSUME NEW rs, rs # <<>>, NEW spool, NEW lost, NEW from, NEW back,
           FileInv(rs, spool, "write", lost, from, back)
    PROVE  FileInv(rs, Append(spool, _TERMINATOR), "read", lost, from, back)
<1>1. rs \in Seq(Frames) /\ \A i, j \in 1..Len(rs) : Len(rs[i]) = Len(rs[j])
  BY DEF FileInv
<1>2. PICK bytes, ends :
        Laid(rs, bytes, ends) /\ FileOf(rs, bytes, ends, spool, "write", lost, from, back)
  BY DEF FileInv
<1>3. spool = bytes /\ lost = FALSE /\ from = 1 /\ back = <<>>
  BY <1>2 DEF FileOf
<1>4. bytes \in Seq(Nat) /\ ends[0] = 0
  BY <1>2 DEF Laid
<1>5. _TERMINATOR \in Nat
  BY BaseFacts DEF _TERMINATOR
<1>6. Append(bytes, _TERMINATOR) \in Seq(Nat) /\ Len(Append(bytes, _TERMINATOR)) = Len(bytes) + 1
      /\ Len(bytes) \in Nat
  BY <1>4, <1>5, AppendProperties, LenProperties
<1> DEFINE whole == Append(bytes, _TERMINATOR)
<1> HIDE DEF whole
<1>7. Survives(Append(spool, _TERMINATOR), bytes, lost)
  <2>1. whole = Append(bytes, _TERMINATOR) /\ whole = Append(spool, _TERMINATOR)
    BY <1>3 DEF whole
  <2>2. whole \in Seq(Nat) /\ Len(whole) = Len(bytes) + 1 /\ Len(whole) <= Len(bytes) + 1
    BY <1>6 DEF whole
  <2>3. lost \in BOOLEAN
    BY <1>3
  <2> QED
    BY <2>1, <2>2, <2>3 DEF Survives
<1>8. ReadSoFar(rs, back, ends, from)
  <2>1. Len(back) = 0 /\ 0 \in 0..Len(rs)
    BY <1>1, <1>3, LenProperties, EmptySeq
  <2>2. Taken(rs, 0) = <<>>
    BY <1>1, TakenProperties
  <2> QED
    BY <1>3, <1>4, <2>1, <2>2 DEF ReadSoFar
<1>9. FileOf(rs, bytes, ends, Append(spool, _TERMINATOR), "read", lost, from, back)
  BY <1>7, <1>8 DEF FileOf
<1> QED
  BY <1>1, <1>2, <1>9 DEF FileInv

\* A loss of its end.
LEMMA FileIsCut ==
    ASSUME NEW rs, NEW spool, NEW lost, NEW from, NEW back,
           FileInv(rs, spool, "read", lost, from, back),
           NEW n \in 0..(Len(spool) - 1)
    PROVE  FileInv(rs, SubSeq(spool, 1, n), "read", TRUE, from, back)
<1>1. rs \in Seq(Frames) /\ \A i, j \in 1..Len(rs) : Len(rs[i]) = Len(rs[j])
  BY DEF FileInv
<1>2. PICK bytes, ends :
        Laid(rs, bytes, ends) /\ FileOf(rs, bytes, ends, spool, "read", lost, from, back)
  BY DEF FileInv
<1>3. rs # <<>> /\ Survives(spool, bytes, lost) /\ ReadSoFar(rs, back, ends, from)
  BY <1>2 DEF FileOf
<1>4. /\ spool \in Seq(Nat) /\ Len(spool) <= Len(bytes) + 1 /\ Len(spool) \in Nat
      /\ \A i \in 1..Len(spool) : spool[i] = Append(bytes, _TERMINATOR)[i]
  BY <1>3, LenProperties DEF Survives
<1>5. Len(bytes) \in Nat
  BY <1>2, LenProperties DEF Laid
<1> DEFINE less == SubSeq(spool, 1, n)
<1>6. less \in Seq(Nat) /\ Len(less) = n /\ \A i \in 1..n : less[i] = spool[i]
  <2>1. n \in Nat /\ n <= Len(spool) /\ \A i \in 1..n : spool[i] \in Nat
    BY <1>4, ElementOfSeq
  <2> QED
    BY <2>1, SubSeqProperties
<1> HIDE DEF less
<1>7. Survives(less, bytes, TRUE)
  <2>1. n <= Len(bytes) + 1 /\ \A i \in 1..n : i \in 1..Len(spool)
    BY <1>4, <1>5
  <2> QED
    BY <1>4, <1>6, <2>1 DEF Survives
<1>8. FileOf(rs, bytes, ends, less, "read", TRUE, from, back)
  BY <1>3, <1>7 DEF FileOf
<1> QED
  BY <1>1, <1>2, <1>8 DEF FileInv, less

\* The end of the rows.
LEMMA EndIsRead ==
    ASSUME NEW spool \in Seq(Nat), NEW from \in Nat \ {0}, NEW n
    PROVE  LET cursor == read_neutral_row(spool, from, n)
           IN /\ from > Len(spool) => cursor.failed
              /\ from <= Len(spool) /\ spool[from] = _TERMINATOR => ~cursor.failed /\ cursor.ended
<1> DEFINE c == Cursor(spool, from)
           cursor == read_neutral_row(spool, from, n)
           marked == _read_exact(spool, 1, c)
<1>1. Len(spool) \in Nat /\ c.at + 1 - 1 = from
  BY LenProperties DEF Cursor
<1>2. Fails(c).failed /\ ~c.failed
  BY DEF Fails, Cursor
<1>3. marked = IF from > Len(spool) THEN Fails(c) ELSE c
  <2> HIDE DEF c
  <2> QED
    BY <1>1 DEF _read_exact
<1>4. cursor = IF marked.failed THEN marked
               ELSE IF spool[from] = _TERMINATOR THEN [marked EXCEPT !.ended = TRUE]
               ELSE IF spool[from] # _ROW_START THEN Fails(marked)
               ELSE _read_values(spool, [marked EXCEPT !.at = from + 1], n)
  BY DEF read_neutral_row
<1>5. [c EXCEPT !.ended = TRUE].ended /\ ~[c EXCEPT !.ended = TRUE].failed
  BY DEF Cursor
<1> HIDE DEF c, cursor, marked
<1>6. ASSUME from > Len(spool) PROVE cursor.failed
  BY <1>2, <1>3, <1>4, <1>6
<1>7. ASSUME from <= Len(spool), spool[from] = _TERMINATOR PROVE ~cursor.failed /\ cursor.ended
  <2>1. marked = c
    BY <1>1, <1>3, <1>7
  <2> QED
    BY <1>2, <1>4, <1>5, <1>7, <2>1
<1> QED
  BY <1>6, <1>7 DEF cursor

\* The next row, or the end of them, or the lack of one or the other.
LEMMA FileIsRead ==
    ASSUME NEW rs, NEW spool, NEW lost, NEW from, NEW back,
           FileInv(rs, spool, "read", lost, from, back)
    PROVE  LET cursor == read_neutral_row(spool, from, Len(rs[1]))
           IN /\ cursor.failed => FileInv(rs, spool, "short", lost, from, back)
              /\ ~cursor.failed /\ cursor.ended => FileInv(rs, spool, "done", lost, from, back)
              /\ ~cursor.failed /\ ~cursor.ended =>
                   FileInv(rs, spool, "read", lost, cursor.at, Append(back, cursor.row))
<1> DEFINE cursor == read_neutral_row(spool, from, Len(rs[1]))
           n == Len(rs)
           k == Len(back)
<1>1. rs \in Seq(Frames) /\ \A i, j \in 1..n : Len(rs[i]) = Len(rs[j])
  BY DEF FileInv
<1>2. PICK bytes, ends :
        Laid(rs, bytes, ends) /\ FileOf(rs, bytes, ends, spool, "read", lost, from, back)
  BY DEF FileInv
<1>3. rs # <<>> /\ Survives(spool, bytes, lost) /\ ReadSoFar(rs, back, ends, from)
  BY <1>2 DEF FileOf
<1>4. /\ spool \in Seq(Nat) /\ Len(spool) <= Len(bytes) + 1 /\ Len(spool) \in Nat
      /\ lost \in BOOLEAN /\ (~lost => Len(spool) = Len(bytes) + 1)
      /\ \A i \in 1..Len(spool) : spool[i] = Append(bytes, _TERMINATOR)[i]
  BY <1>3, LenProperties DEF Survives
<1>5. /\ bytes \in Seq(Nat) /\ Len(bytes) \in Nat /\ ends \in [0..n -> Nat] /\ ends[n] = Len(bytes)
      /\ \A j \in 1..n :
           /\ ends[j] = ends[j - 1] + Len(write_neutral_row(rs[j])) /\ ends[j] <= Len(bytes)
           /\ \A i \in 1..Len(write_neutral_row(rs[j])) :
                bytes[ends[j - 1] + i] = write_neutral_row(rs[j])[i]
  BY <1>2, LenProperties DEF Laid
<1>6. n \in Nat /\ n # 0 /\ \A i \in 1..n : rs[i] \in Frames
  BY <1>1, <1>3, LenProperties, ElementOfSeq, EmptySeq
<1>7. k \in 0..n /\ back = Taken(rs, k) /\ from = ends[k] + 1
  BY <1>3 DEF ReadSoFar
<1>8. from \in Nat \ {0} /\ ends[k] \in Nat
  BY <1>5, <1>7
<1>9. /\ \A i \in 1..Len(bytes) : Append(bytes, _TERMINATOR)[i] = bytes[i]
      /\ Append(bytes, _TERMINATOR)[Len(bytes) + 1] = _TERMINATOR
  <2>1. _TERMINATOR \in Nat
    BY BaseFacts DEF _TERMINATOR
  <2> QED
    BY <1>5, <2>1, AppendProperties
<1>10. /\ rs \in Seq(Frames) /\ Taken(rs, n) = rs
       /\ \A j \in 1..n : Append(Taken(rs, j - 1), rs[j]) = Taken(rs, j)
       /\ \A j \in 0..n : Len(Taken(rs, j)) = j
  BY <1>1, TakenProperties
<1>11. /\ Survives(spool, bytes, lost) /\ ReadSoFar(rs, back, ends, from) /\ lost \in BOOLEAN
       /\ Laid(rs, bytes, ends)
  BY <1>2, <1>3, <1>4
<1> HIDE DEF cursor, n, k
<1>12. CASE k = n
  <2>1. from = Len(bytes) + 1 /\ back = rs
    BY <1>5, <1>7, <1>10, <1>12
  <2>2. CASE Len(spool) = Len(bytes) + 1
    <3>1. from <= Len(spool) /\ spool[from] = _TERMINATOR
      BY <1>4, <1>5, <1>9, <2>1, <2>2
    <3>2. ~cursor.failed /\ cursor.ended
      BY <1>4, <1>8, <3>1, EndIsRead DEF cursor
    <3>3. FileOf(rs, bytes, ends, spool, "done", lost, from, back)
      BY <1>3, <1>11, <2>1 DEF FileOf
    <3>4. FileInv(rs, spool, "done", lost, from, back)
      BY <1>1, <1>11, <3>3 DEF FileInv, n
    <3> QED
      BY <3>2, <3>4 DEF cursor
  <2>3. CASE Len(spool) # Len(bytes) + 1
    <3>1. from > Len(spool) /\ lost
      BY <1>4, <1>5, <2>1, <2>3
    <3>2. cursor.failed
      BY <1>4, <1>8, <3>1, EndIsRead DEF cursor
    <3>3. FileOf(rs, bytes, ends, spool, "short", lost, from, back)
      BY <1>3, <1>11, <3>1 DEF FileOf
    <3>4. FileInv(rs, spool, "short", lost, from, back)
      BY <1>1, <1>11, <3>3 DEF FileInv, n
    <3> QED
      BY <3>2, <3>4 DEF cursor
  <2> QED
    BY <2>2, <2>3
<1>13. CASE k # n
  <2> DEFINE row == rs[k + 1]
             w == write_neutral_row(row)
  <2>1. k + 1 \in 1..n /\ k + 1 \in 0..n /\ (k + 1) - 1 = k /\ 1 \in 1..n
    BY <1>6, <1>7, <1>13
  <2>2. row \in Frames /\ Len(rs[1]) = Len(row) /\ Spoolable(row) /\ Len(w) \in Nat
    BY <1>1, <1>6, <2>1, FramesAreSpoolable, FrameIsWritten
  <2>3. /\ ends[k + 1] = ends[k] + Len(w) /\ ends[k + 1] <= Len(bytes)
        /\ \A i \in 1..Len(w) : bytes[ends[k] + i] = w[i]
    <3> DEFINE j == k + 1
    <3>1. j \in 1..n /\ j - 1 = k
      BY <2>1
    <3> HIDE DEF j
    <3>2. /\ ends[j] = ends[k] + Len(write_neutral_row(rs[j])) /\ ends[j] <= Len(bytes)
          /\ \A i \in 1..Len(write_neutral_row(rs[j])) :
               bytes[ends[k] + i] = write_neutral_row(rs[j])[i]
      BY <1>5, <3>1
    <3> QED
      BY <3>2 DEF j
  <2>4. row = rs[k + 1]
    OBVIOUS
  <2> HIDE DEF row
  <2>5. ASSUME NEW i \in 1..Len(w), from + i - 1 <= Len(spool)
        PROVE  spool[from + i - 1] = w[i]
    <3>1. from + i - 1 = ends[k] + i /\ ends[k] + i \in 1..Len(bytes) /\ ends[k] + i \in 1..Len(spool)
      <4>1. i \in 1..Len(w) /\ from + i - 1 <= Len(spool)
        BY <2>5
      <4> DEFINE a == ends[k]
                 b == ends[k + 1]
                 l == Len(bytes)
                 m == Len(w)
                 s == Len(spool)
      <4>2. /\ a \in Nat /\ b = a + m /\ b <= l /\ l \in Nat /\ m \in Nat /\ s \in Nat
            /\ from = a + 1 /\ i \in 1..m /\ from + i - 1 <= s
        BY <1>4, <1>5, <1>7, <1>8, <2>2, <2>3, <4>1
      <4> HIDE DEF a, b, l, m, s
      <4>3. from + i - 1 = a + i /\ a + i \in 1..l /\ a + i \in 1..s
        BY ONLY <4>2
      <4> QED
        BY <4>3 DEF a, l, s
    <3> HIDE DEF w
    <3> QED
      BY <1>4, <1>9, <2>3, <3>1
  <2>6. cursor = read_neutral_row(spool, from, Len(row))
    BY <2>2 DEF cursor
  <2>7. /\ from + Len(w) - 1 <= Len(spool) =>
             ~cursor.failed /\ ~cursor.ended /\ cursor.row = row /\ cursor.at = from + Len(w)
        /\ ~(from + Len(w) - 1 <= Len(spool)) => cursor.failed
    BY <1>4, <1>8, <2>2, <2>5, <2>6, RowIsReadBack
  <2> HIDE DEF w
  <2>8. CASE from + Len(w) - 1 <= Len(spool)
    <3> DEFINE longer == Append(back, cursor.row)
    <3>1. longer = Taken(rs, k + 1) /\ Len(longer) = k + 1
      BY <1>7, <1>10, <2>1, <2>4, <2>7, <2>8
    <3>2. cursor.at = ends[k + 1] + 1
      BY <1>7, <1>8, <2>2, <2>3, <2>7, <2>8
    <3> HIDE DEF longer
    <3>3. ReadSoFar(rs, longer, ends, cursor.at)
      BY <2>1, <3>1, <3>2 DEF ReadSoFar, n
    <3>4. FileOf(rs, bytes, ends, spool, "read", lost, cursor.at, longer)
      BY <1>3, <1>11, <3>3 DEF FileOf
    <3>5. FileInv(rs, spool, "read", lost, cursor.at, longer)
      BY <1>1, <1>11, <3>4 DEF FileInv, n
    <3> QED
      BY <2>7, <2>8, <3>5 DEF cursor, longer
  <2>9. CASE ~(from + Len(w) - 1 <= Len(spool))
    <3>1. cursor.failed
      BY <2>7, <2>9
    <3>2. lost
      BY <1>4, <1>5, <1>7, <1>8, <2>2, <2>3, <2>9
    <3>3. FileOf(rs, bytes, ends, spool, "short", lost, from, back)
      BY <1>3, <1>11, <3>2 DEF FileOf
    <3>4. FileInv(rs, spool, "short", lost, from, back)
      BY <1>1, <1>11, <3>3 DEF FileInv, n
    <3> QED
      BY <3>1, <3>4 DEF cursor
  <2> QED
    BY <2>8, <2>9
<1> QED
  BY <1>12, <1>13

\* A spool is in its file's invariant; other payloads have none.
SpoolInv ==
    IF payload = Framed THEN FileInv(source, neutral, spooling, cut, position, readback)
    ELSE spooling = "write"

\* Nothing but a spool's own steps touches its file, and a payload's mode says what it is.
LEMMA SpoolInvStep == Described /\ SpoolInv /\ [LoadNext]_<<vars, load, file>> => SpoolInv'
<1> SUFFICES ASSUME Described, SpoolInv, [LoadNext]_<<vars, load, file>> PROVE SpoolInv'
  OBVIOUS
<1>1. payload' = payload
  BY DEF LoadNext, Infer, TakeRow, WriteRow, write_neutral_terminator, Truncate, ReadRow, load
<1>2. payload.mode = "framed" <=> payload = Framed
  <2>1. \A d \in Inspected : d.mode = "schema"
    BY InspectedAssumption
  <2>2. \A p \in Stagings : p.mode = "staging"
    BY StagingAssumption
  <2>3. \A p \in Payloads : p.mode = "declared"
    BY LoadAssumption
  <2>4. payload \in {Inferred, Framed} \cup Payloads \cup Stagings \cup Inspected
    BY DEF Described
  <2> QED
    BY ONLY <2>1, <2>2, <2>3, <2>4 DEF Inferred, Framed
<1>3. CASE payload = Framed
  <2>1. FileInv(source, neutral, spooling, cut, position, readback)
    BY <1>3 DEF SpoolInv
  <2> SUFFICES FileInv(source, neutral, spooling, cut, position, readback)'
    BY <1>1, <1>3 DEF SpoolInv, Framed
  <2>2. payload.mode = "framed"
    BY <1>2, <1>3
  <2>3. CASE UNCHANGED <<source, neutral, spooling, cut, position, readback>>
    <3>1. FileInv(source', neutral', spooling', cut', position', readback')
      BY <2>1, <2>3
    <3> QED
      BY <3>1
  <2>4. CASE WriteRow
    <3>1. PICK row \in Frames :
            /\ source # <<>> => Len(row) = Len(source[1])
            /\ IF write_neutral_row(row) = OverflowError
               THEN spooling' = "refused" /\ UNCHANGED <<source, neutral>>
               ELSE /\ source' = Append(source, row)
                    /\ neutral' = neutral \o write_neutral_row(row)
                    /\ UNCHANGED spooling
      BY <2>4 DEF WriteRow
    <3>2. /\ source' = Append(source, row) /\ neutral' = neutral \o write_neutral_row(row)
          /\ spooling' = spooling
      BY <3>1, FrameIsWritten
    <3>3. spooling = "write" /\ UNCHANGED <<cut, position, readback>>
      BY <2>4 DEF WriteRow
    <3>4. FileInv(source, neutral, "write", cut, position, readback)
      BY <2>1, <3>3
    <3>5. FileInv(Append(source, row), neutral \o write_neutral_row(row), "write",
                  cut, position, readback)
      BY <3>1, <3>4, FileGrows
    <3>6. FileInv(source', neutral', spooling', cut', position', readback')
      BY <3>2, <3>3, <3>5
    <3> QED
      BY <3>6
  <2>5. CASE write_neutral_terminator
    <3>1. /\ spooling = "write" /\ source # <<>> /\ neutral' = Append(neutral, _TERMINATOR)
          /\ spooling' = "read" /\ UNCHANGED <<source, cut, position, readback>>
      BY <2>5 DEF write_neutral_terminator, load
    <3>2. FileInv(source, neutral, "write", cut, position, readback)
      BY <2>1, <3>1
    <3>3. FileInv(source, Append(neutral, _TERMINATOR), "read", cut, position, readback)
      BY <3>1, <3>2, FileEnds
    <3>4. FileInv(source', neutral', spooling', cut', position', readback')
      BY <3>1, <3>3
    <3> QED
      BY <3>4
  <2>6. CASE Truncate
    <3>1. PICK n \in 0..(Len(neutral) - 1) : neutral' = SubSeq(neutral, 1, n)
      BY <2>6 DEF Truncate
    <3>2. spooling = "read" /\ cut' = TRUE /\ UNCHANGED <<source, spooling, position, readback>>
      BY <2>6 DEF Truncate, load
    <3>3. FileInv(source, neutral, "read", cut, position, readback)
      BY <2>1, <3>2
    <3>4. FileInv(source, SubSeq(neutral, 1, n), "read", TRUE, position, readback)
      BY <3>3, FileIsCut
    <3>5. FileInv(source', neutral', spooling', cut', position', readback')
      BY <3>1, <3>2, <3>4
    <3> QED
      BY <3>5
  <2>7. CASE ReadRow
    <3> DEFINE cursor == read_neutral_row(neutral, position, Len(source[1]))
    <3>1. spooling = "read" /\ UNCHANGED <<source, neutral, cut>>
      BY <2>7 DEF ReadRow, load
    <3>2. IF cursor.failed THEN spooling' = "short" /\ UNCHANGED <<position, readback>>
          ELSE IF cursor.ended THEN spooling' = "done" /\ UNCHANGED <<position, readback>>
          ELSE /\ readback' = Append(readback, cursor.row)
               /\ position' = cursor.at
               /\ UNCHANGED spooling
      BY <2>7 DEF ReadRow
    <3>3. FileInv(source, neutral, "read", cut, position, readback)
      BY <2>1, <3>1
    <3>4. /\ cursor.failed => FileInv(source, neutral, "short", cut, position, readback)
          /\ ~cursor.failed /\ cursor.ended =>
               FileInv(source, neutral, "done", cut, position, readback)
          /\ ~cursor.failed /\ ~cursor.ended =>
               FileInv(source, neutral, "read", cut, cursor.at, Append(readback, cursor.row))
      BY <3>3, FileIsRead
    <3> HIDE DEF cursor
    <3>5. FileInv(source', neutral', spooling', cut', position', readback')
      BY <3>1, <3>2, <3>4
    <3> QED
      BY <3>5
  <2>8. ~Infer /\ ~TakeRow
    BY <2>2 DEF Infer, TakeRow
  <2> QED
    BY <2>3, <2>4, <2>5, <2>6, <2>7, <2>8 DEF LoadNext, load, file
<1>4. CASE payload # Framed
  <2>1. spooling = "write" /\ payload.mode # "framed"
    BY <1>2, <1>4 DEF SpoolInv
  <2>2. spooling' = spooling
    BY <2>1 DEF LoadNext, Infer, TakeRow, WriteRow, write_neutral_terminator, Truncate, ReadRow, file
  <2> QED
    BY <1>1, <1>4, <2>1, <2>2 DEF SpoolInv, Framed
<1> QED
  BY <1>3, <1>4

\* The second pass reads what the first has written, or fails, and only where the end of
\* the file is lost.
THEOREM SpoolsReadBack == LoadSpec => []SpoolReadsBack
<1>1. LoadInit => SpoolInv
  <2> SUFFICES ASSUME LoadInit PROVE SpoolInv
    OBVIOUS
  <2>1. /\ source = <<>> /\ neutral = <<>> /\ spooling = "write" /\ cut = FALSE
        /\ position = 1 /\ readback = <<>>
    BY DEF LoadInit
  <2>2. FileInv(source, neutral, spooling, cut, position, readback)
    BY <2>1, FileBegins
  <2> QED
    BY <2>1, <2>2 DEF SpoolInv
<1>2. Described /\ SpoolInv /\ [LoadNext]_<<vars, load, file>> => SpoolInv'
  BY SpoolInvStep
<1>3. SpoolInv => SpoolReadsBack
  <2> SUFFICES ASSUME SpoolInv PROVE SpoolReadsBack
    OBVIOUS
  <2>1. CASE payload = Framed
    <3>1. PICK bytes, ends :
            FileOf(source, bytes, ends, neutral, spooling, cut, position, readback)
      BY <2>1 DEF SpoolInv, FileInv
    <3> QED
      BY <3>1 DEF FileOf, SpoolReadsBack
  <2>2. CASE payload # Framed
    BY <2>2 DEF SpoolInv, SpoolReadsBack
  <2> QED
    BY <2>1, <2>2
<1> QED
  BY <1>1, <1>2, <1>3, DescriptionStays, PTL DEF LoadSpec
=============================================================================
