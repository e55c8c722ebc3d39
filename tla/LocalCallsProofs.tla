-------------------------- MODULE LocalCallsProofs --------------------------
(***************************************************************************)
(* Proofs about LocalCalls and the MathCompute in it, for all arguments:   *)
(* what gcd, is_prime, factorial and fibonacci answer is right by the      *)
(* definitions of the four notions; and about its Metrics, for any number  *)
(* of calls: the samples are those of the table, the percentiles theirs.   *)
(***************************************************************************)
EXTENDS LocalCalls, FiniteSetTheorems, FunctionTheorems, WellFoundedInduction, TLAPS

-----------------------------------------------------------------------------
(* Divisibility *)

LEMMA Division ==
    ASSUME NEW n \in Int, NEW d \in Int, d > 0
    PROVE  /\ n \div d \in Int /\ n % d \in Int
           /\ 0 <= n % d /\ n % d < d
           /\ n = d * (n \div d) + (n % d)
OBVIOUS

LEMMA MultipleIsDivisible ==
    ASSUME NEW d \in Int, d > 0, NEW k \in Int
    PROVE  Divides(d, d * k)
BY DEF Divides

LEMMA DivisibleIsMultiple ==
    ASSUME NEW n \in Int, NEW d \in Int, d > 0, Divides(d, n)
    PROVE  \E k \in Int : n = d * k
<1>1. n = d * (n \div d)
  BY Division DEF Divides
<1>2. QED BY <1>1, Division

\* What divides u and v divides v + u * q and v - u * q.
LEMMA DividesCombination ==
    ASSUME NEW d \in Int, d > 0, NEW u \in Int, NEW v \in Int, NEW q \in Int,
           Divides(d, u), Divides(d, v)
    PROVE  Divides(d, u * q + v) /\ Divides(d, v - u * q)
<1>1. PICK j \in Int : u = d * j
  BY DivisibleIsMultiple
<1>2. PICK k \in Int : v = d * k
  BY DivisibleIsMultiple
<1>3. j * q \in Int /\ u * q = d * (j * q)
  BY <1>1
<1>4. /\ u * q + v = d * (j * q + k) /\ v - u * q = d * (k - j * q)
  BY <1>2, <1>3
<1>5. j * q + k \in Int /\ k - j * q \in Int
  BY <1>3
<1>6. Divides(d, d * (j * q + k)) /\ Divides(d, d * (k - j * q))
  BY <1>5, MultipleIsDivisible
<1>7. QED BY <1>4, <1>6

\* One round of Euclid's loop keeps the common divisors.
LEMMA EuclidStep ==
    ASSUME NEW u \in Nat, NEW v \in Nat, v # 0, NEW d \in Nat \ {0}
    PROVE  Divides(d, u) /\ Divides(d, v) <=> Divides(d, v) /\ Divides(d, u % v)
<1> DEFINE q == u \div v
           r == u % v
<1>1. q \in Int /\ r \in Int /\ u = v * q + r
  BY Division
<1>2. r = u - v * q /\ v * q \in Int
  BY <1>1
<1> d \in Int /\ d > 0 /\ u \in Int /\ v \in Int
  OBVIOUS
<1> HIDE DEF q, r
<1>3. ASSUME Divides(d, v), Divides(d, r) PROVE Divides(d, u)
  <2>1. Divides(d, v * q + r)
    <3>1. r \in Int /\ q \in Int
      BY <1>1
    <3>2. QED BY <3>1, <1>3, DividesCombination
  <2>2. QED BY <1>1, <2>1
<1>4. ASSUME Divides(d, v), Divides(d, u) PROVE Divides(d, r)
  <2>1. Divides(d, u - v * q)
    <3>1. q \in Int
      BY <1>1
    <3>2. QED BY <3>1, <1>4, DividesCombination
  <2>2. QED BY <1>2, <2>1
<1>5. QED BY <1>3, <1>4 DEF r

\* A number that no number up to its root divides has no divisor.
LEMMA RootSuffices ==
    ASSUME NEW n \in Int, n > 1, NEW j \in Int, j > 1, j * j > n,
           \A d \in 2 .. (j - 1) : ~Divides(d, n),
           NEW e \in 2 .. (n - 1)
    PROVE  ~Divides(e, n)
<1> SUFFICES ASSUME Divides(e, n) PROVE FALSE
  OBVIOUS
<1>1. PICK k \in Int : n = e * k
  BY DivisibleIsMultiple
<1>2. k > 1
  <2>1. CASE k <= 0
    BY <1>1, <2>1
  <2>2. CASE k = 1
    BY <1>1, <2>2
  <2>3. QED BY <2>1, <2>2
<1>3. e >= j
  OBVIOUS
<1>4. k < j
  <2> SUFFICES ASSUME k >= j PROVE FALSE
    OBVIOUS
  <2>1. e * k >= j * k /\ j * k \in Int
    BY <1>2, <1>3
  <2>2. j * k >= j * j /\ j * j \in Int
    BY <1>2
  <2>3. QED BY <1>1, <2>1, <2>2
<1>5. n = k * e /\ e \in Int /\ k \in 2 .. (j - 1)
  BY <1>1, <1>2, <1>4
<1>6. Divides(k, k * e)
  <2>1. k \in Int /\ k > 0 /\ e \in Int
    BY <1>2, <1>5
  <2>2. QED BY ONLY <2>1, MultipleIsDivisible
<1>7. QED BY <1>5, <1>6

-----------------------------------------------------------------------------
(* The loops *)

\* The loop of gcd keeps the common divisors of its two variables; that of
\* is_prime has found no divisor yet.
LoopInv ==
    /\ op = "gcd" =>
          /\ phase \in {"loop", "number"}
          /\ x >= 0 /\ y >= 0
          /\ \A d \in Nat \ {0} :
                Divides(d, x) /\ Divides(d, y)
                    <=> Divides(d, Abs(a)) /\ Divides(d, Abs(b))
          /\ phase = "number" => y = 0
    /\ op = "is_prime" =>
          /\ phase \in {"loop", "true", "false"}
          /\ i > 1
          /\ phase # "false" => a > 1 /\ \A d \in 2 .. (i - 1) : ~Divides(d, a)
          /\ phase = "true" => i * i > a
          /\ phase = "false" => a < 2 \/ (i * i <= a /\ Divides(i, a))

MathInv == MathTypeOK /\ LoopInv

LEMMA AbsIsNat == ASSUME NEW n \in Int PROVE Abs(n) \in Nat
BY DEF Abs

LEMMA ComputeStep == ASSUME MathInv, Compute PROVE MathInv'
<1> USE InputsAssumption, AbsIsNat
    DEF MathInv, MathTypeOK, LoopInv, Operations, Enter
<1>1. ASSUME NEW p \in Pairs, Modulo(p[1], p[2]) PROVE MathInv'
  <2>1. p[1] \in Int /\ p[2] \in Int
    OBVIOUS
  <2>2. p[2] # 0 => Remainder(p[1], p[2]) \in Int
    BY <2>1, Division DEF Remainder, Abs
  <2>3. QED BY <1>1, <2>1, <2>2 DEF Modulo
<1>2. ASSUME NEW p \in Pairs, Gcd(p[1], p[2]) PROVE MathInv'
  <2>1. p[1] \in Int /\ p[2] \in Int
    OBVIOUS
  <2>2. Abs(p[1]) \in Nat /\ Abs(p[2]) \in Nat
    BY <2>1
  <2>3. Abs(a)' = Abs(a') /\ Abs(b)' = Abs(b')
    BY DEF Abs
  <2>4. QED BY <1>2, <2>1, <2>2, <2>3 DEF Gcd, Divides
<1>3. ASSUME NEW n \in Inputs, Factorial(n) PROVE MathInv'
  BY <1>3 DEF Factorial
<1>4. ASSUME NEW n \in Inputs, Fibonacci(n) PROVE MathInv'
  BY <1>4 DEF Fibonacci
<1>5. ASSUME NEW n \in Inputs, IsPrime(n) PROVE MathInv'
  BY <1>5 DEF IsPrime
<1>6. QED BY <1>1, <1>2, <1>3, <1>4, <1>5 DEF Compute

LEMMA LoopStep == ASSUME MathInv, Loop PROVE MathInv'
<1> USE DEF MathInv, MathTypeOK, LoopInv, Operations, Ends
<1>1. CASE op = "factorial" /\ FactorialLoop
  BY <1>1 DEF Loop, FactorialLoop
<1>2. CASE op = "fibonacci" /\ FibonacciLoop
  BY <1>2 DEF Loop, FibonacciLoop
<1>3. CASE op = "is_prime" /\ IsPrimeLoop
  <2>1. /\ op' = op /\ a' = a /\ b' = b /\ phase = "loop"
    BY DEF Loop
  <2>2. CASE i * i <= a /\ a % i # 0 /\ i' = i + 1 /\ UNCHANGED <<phase, x, y>>
    BY <1>3, <2>1, <2>2 DEF Divides
  <2>3. CASE \/ i * i <= a /\ a % i = 0 /\ Ends("false")
             \/ i * i > a /\ Ends("true")
    BY <1>3, <2>1, <2>3 DEF Divides
  <2>4. QED BY <1>3, <2>2, <2>3 DEF IsPrimeLoop
<1>4. CASE op = "gcd" /\ GcdLoop
  <2>1. /\ op' = op /\ a' = a /\ b' = b /\ phase = "loop"
    BY DEF Loop
  <2>2. Abs(a)' = Abs(a) /\ Abs(b)' = Abs(b)
    BY <2>1 DEF Abs
  <2>3. CASE y # 0 /\ y' = x % y /\ x' = y /\ UNCHANGED <<phase, i>>
    <3>1. y' \in Int /\ y' >= 0 /\ x' \in Int /\ x' >= 0
      BY <1>4, <2>3, Division
    <3>2. \A d \in Nat \ {0} : Divides(d, x) /\ Divides(d, y)
                                   <=> Divides(d, x') /\ Divides(d, y')
      BY <1>4, <2>3, EuclidStep
    <3>3. \A d \in Nat \ {0} :
              Divides(d, x') /\ Divides(d, y')
                  <=> Divides(d, Abs(a)) /\ Divides(d, Abs(b))
      BY <1>4, <3>2
    <3>4. \A d \in Nat \ {0} : /\ Divides(d, x)' = Divides(d, x')
                               /\ Divides(d, y)' = Divides(d, y')
                               /\ Divides(d, Abs(a))' = Divides(d, Abs(a))
                               /\ Divides(d, Abs(b))' = Divides(d, Abs(b))
      BY <2>2 DEF Divides
    <3>5. QED BY <1>4, <2>1, <2>3, <3>1, <3>3, <3>4
  <2>4. CASE y = 0 /\ Ends("number")
    BY <1>4, <2>1, <2>2, <2>4 DEF Divides
  <2>5. QED BY <1>4, <2>3, <2>4 DEF GcdLoop
<1>5. QED BY <1>1, <1>2, <1>3, <1>4 DEF Loop

\* The calls of the server, its restarts among them, use mathCompute as its
\* specification allows.
THEOREM ImplementsMath == Spec => MathSpec
<1>1. Init => MathInit
  BY DEF Init
<1>2. [Next]_vars => [MathNext]_mathVars
  BY DEF Next, vars, MathNext, mathVars, CallMath, Step, MathReturns,
         CallUnknown, Answer, Cancel, Restart, Tick
<1>3. QED BY <1>1, <1>2, PTL DEF Spec, MathSpec

LEMMA MathInvHolds == MathSpec => []MathInv
<1>1. MathInit => MathInv
  BY DEF MathInit, MathInv, MathTypeOK, LoopInv, Operations
<1>2. MathInv /\ [MathNext]_mathVars => MathInv'
  <2> SUFFICES ASSUME MathInv, [MathNext]_mathVars PROVE MathInv'
    OBVIOUS
  <2>1. CASE Return \/ Stop
    BY <2>1 DEF Return, Stop, Enter, MathInv, MathTypeOK, LoopInv, Operations
  <2>2. CASE UNCHANGED mathVars
    BY <2>2 DEF mathVars, MathInv, MathTypeOK, LoopInv, Divides, Abs
  <2>3. QED BY ComputeStep, LoopStep, <2>1, <2>2 DEF MathNext
<1>3. QED BY <1>1, <1>2, PTL DEF MathSpec

\* gcd answers the greatest common divisor of any two integers, zeros and
\* negative ones included.
THEOREM GcdCorrect == Spec => []GcdIsGreatest
<1>1. MathInv => GcdIsGreatest
  <2> SUFFICES ASSUME MathInv, op = "gcd", phase = "number"
               PROVE  IF a = 0 /\ b = 0 THEN x = 0
                      ELSE /\ x > 0
                           /\ Divides(x, Abs(a)) /\ Divides(x, Abs(b))
                           /\ \A d \in 1 .. (Abs(a) + Abs(b)) :
                                 Divides(d, Abs(a)) /\ Divides(d, Abs(b))
                                     => Divides(d, x)
    BY DEF GcdIsGreatest
  <2>1. x \in Nat /\ y = 0 /\ a \in Int /\ b \in Int
    BY DEF MathInv, MathTypeOK, LoopInv
  <2>2. Abs(a) \in Nat /\ Abs(b) \in Nat
    BY <2>1, AbsIsNat
  <2>3. \A d \in Nat \ {0} : Divides(d, 0)
    BY DEF Divides
  <2>4. \A d \in Nat \ {0} :
            Divides(d, x) <=> Divides(d, Abs(a)) /\ Divides(d, Abs(b))
    BY <2>1, <2>3 DEF MathInv, LoopInv
  <2>5. \A n \in Nat : Divides(n + 1, n) => n = 0
    BY DEF Divides
  <2>6. CASE a = 0 /\ b = 0
    <3>1. Divides(x + 1, x)
      BY <2>1, <2>3, <2>4, <2>6 DEF Abs
    <3>2. QED BY <2>1, <2>5, <2>6, <3>1
  <2>7. CASE a # 0 \/ b # 0
    <3>1. x # 0
      <4> SUFFICES ASSUME x = 0 PROVE FALSE
        OBVIOUS
      <4>1. Divides(Abs(a) + 1, Abs(a)) /\ Divides(Abs(b) + 1, Abs(b))
        BY <2>2, <2>3, <2>4
      <4>2. Abs(a) = 0 /\ Abs(b) = 0
        BY <2>2, <2>5, <4>1
      <4>3. QED BY <2>1, <2>7, <4>2 DEF Abs
    <3>2. Divides(x, x)
      BY <2>1, <3>1, MultipleIsDivisible
    <3>3. \A d \in 1 .. (Abs(a) + Abs(b)) : d \in Nat \ {0}
      BY <2>2
    <3>4. QED BY <2>1, <2>4, <2>7, <3>1, <3>2, <3>3
  <2>8. QED BY <2>6, <2>7
<1>2. QED BY <1>1, MathInvHolds, ImplementsMath, PTL

\* is_prime answers true exactly for the integers above one without a divisor,
\* though it tries only those up to the root.
THEOREM PrimeCorrect == Spec => []PrimeHasNoDivisor
<1>1. MathInv => PrimeHasNoDivisor
  <2> SUFFICES ASSUME MathInv, op = "is_prime"
               PROVE  /\ phase = "true" =>
                            a > 1 /\ \A d \in 2 .. (a - 1) : ~Divides(d, a)
                      /\ phase = "false" =>
                            a < 2 \/ \E d \in 2 .. (a - 1) : Divides(d, a)
    BY DEF PrimeHasNoDivisor
  <2>1. a \in Int /\ i \in Int /\ i > 1
    BY DEF MathInv, MathTypeOK, LoopInv
  <2>2. CASE phase = "true"
    <3>1. /\ a > 1 /\ i * i > a
          /\ \A d \in 2 .. (i - 1) : ~Divides(d, a)
      BY <2>2 DEF MathInv, LoopInv
    <3>2. QED BY <2>1, <2>2, <3>1, RootSuffices
  <2>3. CASE phase = "false" /\ a >= 2
    <3>1. i * i <= a /\ Divides(i, a)
      BY <2>1, <2>3 DEF MathInv, LoopInv
    <3>2. i * i >= 2 * i
      BY <2>1
    <3>3. i \in 2 .. (a - 1)
      BY <2>1, <3>1, <3>2
    <3>4. QED BY <2>3, <3>1, <3>3
  <2>4. QED BY <2>1, <2>2, <2>3
<1>2. QED BY <1>1, MathInvHolds, ImplementsMath, PTL

-----------------------------------------------------------------------------
(* What fibonacci counts *)

\* The sets of numbers up to k of which no two are neighbours.
Free(k) == {S \in SUBSET (1 .. k) : \A j \in S : j + 1 \notin S}

LEMMA FreeIsFinite ==
    ASSUME NEW k \in Int
    PROVE  IsFiniteSet(Free(k)) /\ Cardinality(Free(k)) \in Nat
<1>1. IsFiniteSet(SUBSET (1 .. k))
  <2>1. IsFiniteSet(1 .. k)
    BY FS_Interval
  <2>2. QED BY <2>1, FS_SUBSET
<1>2. Free(k) \in SUBSET SUBSET (1 .. k)
  BY DEF Free
<1>3. IsFiniteSet(Free(k))
  BY <1>1, <1>2, FS_Subset
<1>4. QED BY <1>3, FS_CardinalityType

LEMMA FreeOfNone ==
    ASSUME NEW k \in Int, k <= 0
    PROVE  Cardinality(Free(k)) = 1
<1>1. 1 .. k = {}
  OBVIOUS
<1>2. Free(k) = {{}}
  BY <1>1 DEF Free
<1>3. QED BY <1>2, FS_Singleton

\* Those that have k are those without k and its neighbour, with k added.
LEMMA FreeGrows ==
    ASSUME NEW k \in Nat, k >= 1
    PROVE  Cardinality(Free(k)) = Cardinality(Free(k - 1)) + Cardinality(Free(k - 2))
<1> DEFINE A == Free(k - 1)
           B == Free(k - 2)
           With == {S \in Free(k) : k \in S}
           add == [S \in B |-> S \cup {k}]
<1>1. /\ IsFiniteSet(A) /\ IsFiniteSet(B)
      /\ Cardinality(A) \in Nat /\ Cardinality(B) \in Nat
  BY FreeIsFinite
<1>2. \A S \in B : /\ k \notin S /\ S \cup {k} \in With
  <2> SUFFICES ASSUME NEW S \in B PROVE k \notin S /\ S \cup {k} \in With
    OBVIOUS
  <2>1. /\ \A j \in S : j \in Nat /\ 1 <= j /\ j <= k - 2
        /\ \A j \in S : j + 1 \notin S
    BY DEF Free
  <2>2. S \cup {k} \in SUBSET (1 .. k)
    BY <2>1
  <2>3. \A j \in S \cup {k} : j + 1 \notin S \cup {k}
    BY <2>1
  <2>4. QED BY <2>1, <2>2, <2>3 DEF Free
<1>3. \A T \in With : T \ {k} \in B
  <2> SUFFICES ASSUME NEW T \in With PROVE T \ {k} \in B
    OBVIOUS
  <2>1. /\ \A j \in T : j \in Nat /\ 1 <= j /\ j <= k
        /\ \A j \in T : j + 1 \notin T
        /\ k \in T
    BY DEF Free
  <2>2. \A j \in T \ {k} : j \in 1 .. k - 2
    <3> SUFFICES ASSUME NEW j \in T \ {k} PROVE j <= k - 2
      BY <2>1
    <3>1. j + 1 # k
      BY <2>1
    <3>2. QED BY <2>1, <3>1
  <2>3. QED BY <2>1, <2>2 DEF Free
<1>4. add \in Bijection(B, With)
  <2>1. add \in [B -> With]
    BY <1>2
  <2>2. ASSUME NEW S \in B, NEW T \in B, add[S] = add[T] PROVE S = T
    <3>1. S \cup {k} = T \cup {k} /\ k \notin S /\ k \notin T
      BY <1>2, <2>2
    <3>2. QED BY <3>1
  <2>3. ASSUME NEW T \in With PROVE \E S \in B : add[S] = T
    <3>1. T \ {k} \in B /\ (T \ {k}) \cup {k} = T
      BY <1>3
    <3>2. QED BY <3>1
  <2> HIDE DEF add, B, With
  <2>4. QED BY <2>1, <2>2, <2>3 DEF Bijection, Injection, Surjection, IsInjective
<1>5. IsFiniteSet(With) /\ Cardinality(With) = Cardinality(B)
  <2>1. ExistsBijection(B, With)
    BY <1>4 DEF ExistsBijection
  <2> HIDE DEF B, With
  <2>2. QED BY <1>1, <2>1, FS_Bijection
<1>6. Free(k) = A \cup With /\ A \cap With = {}
  <2>1. ASSUME NEW S \in Free(k), k \notin S PROVE S \in A
    BY <2>1 DEF Free
  <2>2. ASSUME NEW S \in A PROVE S \in Free(k) /\ k \notin S
    BY <2>2 DEF Free
  <2>3. QED BY <2>1, <2>2
<1>7. Cardinality(A \cup With) = Cardinality(A) + Cardinality(With)
  <2> HIDE DEF A, With, B
  <2>1. Cardinality(A \cap With) = 0
    BY <1>6, FS_EmptySet
  <2>2. Cardinality(A \cup With) = Cardinality(A) + Cardinality(With) - Cardinality(A \cap With)
    BY <1>1, <1>5, FS_Union
  <2>3. QED BY <1>1, <1>5, <2>1, <2>2
<1>8. QED BY <1>5, <1>6, <1>7

-----------------------------------------------------------------------------
(* What factorial counts *)

Perms(n) ==
    {f \in [1 .. n -> 1 .. n] : \A j, k \in 1 .. n : f[j] = f[k] => j = k}

LEMMA PermsOfFew ==
    ASSUME NEW n \in {0, 1}
    PROVE  IsFiniteSet(Perms(n)) /\ Cardinality(Perms(n)) = 1
<1> DEFINE id == [j \in 1 .. n |-> j]
<1>1. \A j \in 1 .. n : j = 1
  OBVIOUS
<1>2. id \in Perms(n)
  BY DEF Perms
<1>3. ASSUME NEW f \in Perms(n) PROVE f = id
  <2>1. f \in [1 .. n -> 1 .. n]
    BY DEF Perms
  <2>2. \A j \in 1 .. n : f[j] = j
    BY <1>1, <2>1
  <2>3. QED BY <2>1, <2>2
<1> HIDE DEF id
<1>4. Perms(n) = {id}
  BY <1>2, <1>3
<1>5. QED BY <1>4, FS_Singleton

\* A permutation of n things without the last: the place where n was has what
\* was at the place n.
Without(f, n) == [j \in 1 .. n - 1 |-> IF f[j] = n THEN f[n] ELSE f[j]]

LEMMA WithoutIsPerm ==
    ASSUME NEW n \in Nat, n >= 1, NEW f \in Perms(n)
    PROVE  Without(f, n) \in Perms(n - 1) /\ f[n] \in 1 .. n
<1>1. /\ f \in [1 .. n -> 1 .. n] /\ n \in 1 .. n
      /\ \A j, k \in 1 .. n : f[j] = f[k] => j = k
  BY DEF Perms
<1>2. \A j \in 1 .. n - 1 : j \in 1 .. n /\ j # n
  OBVIOUS
<1> DEFINE g == Without(f, n)
<1>3. \A j \in 1 .. n - 1 : g[j] = IF f[j] = n THEN f[n] ELSE f[j]
  BY DEF Without
<1>4. g = [j \in 1 .. n - 1 |-> g[j]]
  BY DEF Without
<1> HIDE DEF g
<1>5. ASSUME NEW j \in 1 .. n - 1 PROVE g[j] \in 1 .. n - 1
  <2>1. f[j] \in 1 .. n /\ f[n] \in 1 .. n /\ f[j] # f[n]
    BY <1>1, <1>2
  <2>2. g[j] \in 1 .. n /\ g[j] # n
    BY <1>3, <2>1
  <2>3. QED BY <2>2
<1>6. g \in [1 .. n - 1 -> 1 .. n - 1]
  BY <1>4, <1>5
<1>7. ASSUME NEW j \in 1 .. n - 1, NEW k \in 1 .. n - 1, g[j] = g[k]
      PROVE  j = k
  <2>1. j \in 1 .. n /\ j # n /\ k \in 1 .. n /\ k # n
    BY <1>2
  <2>2. f[j] # f[n] /\ f[k] # f[n]
    BY <1>1, <2>1
  <2>3. f[j] = f[k]
    BY <1>3, <1>7, <2>2
  <2>4. QED BY <1>1, <2>1, <2>3
<1>8. QED BY <1>1, <1>6, <1>7 DEF Perms, g

\* It is all there is to know, next to what was at the place n.
LEMMA WithoutDetermines ==
    ASSUME NEW n \in Nat, n >= 1, NEW f \in Perms(n), NEW h \in Perms(n),
           f[n] = h[n], Without(f, n) = Without(h, n)
    PROVE  f = h
<1>1. \A p \in Perms(n) : /\ p \in [1 .. n -> 1 .. n]
                          /\ \A j \in 1 .. n - 1 : p[j] # p[n]
  <2>1. n \in 1 .. n /\ \A j \in 1 .. n - 1 : j \in 1 .. n /\ j # n
    OBVIOUS
  <2>2. QED BY <2>1 DEF Perms
<1>2. ASSUME NEW j \in 1 .. n PROVE f[j] = h[j]
  <2>1. CASE j = n
    BY <2>1
  <2>2. CASE j # n
    <3>1. j \in 1 .. n - 1
      BY <2>2
    <3>2. /\ Without(f, n)[j] = IF f[j] = n THEN f[n] ELSE f[j]
          /\ Without(h, n)[j] = IF h[j] = n THEN h[n] ELSE h[j]
      BY <3>1 DEF Without
    <3>3. f[j] # f[n] /\ h[j] # h[n]
      BY <1>1, <3>1
    <3>4. QED BY <3>2, <3>3
  <2>3. QED BY <2>1, <2>2
<1>3. QED BY <1>1, <1>2

\* Any permutation of the others, and any place for what n gives way to, will do.
LEMMA WithoutReaches ==
    ASSUME NEW n \in Nat, n >= 1, NEW v \in 1 .. n, NEW g \in Perms(n - 1)
    PROVE  \E f \in Perms(n) : f[n] = v /\ Without(f, n) = g
<1> DEFINE f == [j \in 1 .. n |-> IF j = n THEN v
                                  ELSE IF g[j] = v THEN n ELSE g[j]]
<1>1. /\ g \in [1 .. n - 1 -> 1 .. n - 1]
      /\ \A j, k \in 1 .. n - 1 : g[j] = g[k] => j = k
  BY DEF Perms
<1>2. \A j \in 1 .. n : j = n \/ j \in 1 .. n - 1
  OBVIOUS
<1>3. /\ f[n] = v
      /\ \A j \in 1 .. n - 1 : f[j] = IF g[j] = v THEN n ELSE g[j]
  OBVIOUS
<1>4. \A j \in 1 .. n - 1 : g[j] \in 1 .. n /\ g[j] # n
  BY <1>1
<1>5. f \in [1 .. n -> 1 .. n]
  <2>1. \A j \in 1 .. n : f[j] \in 1 .. n
    BY <1>2, <1>3, <1>4
  <2>2. QED BY <2>1
<1> HIDE DEF f
<1>6. ASSUME NEW j \in 1 .. n, NEW k \in 1 .. n, f[j] = f[k]
      PROVE  j = k
  <2>1. CASE j = n /\ k = n
    BY <2>1
  <2>2. CASE j = n /\ k \in 1 .. n - 1
    BY <1>3, <1>4, <1>6, <2>2
  <2>3. CASE j \in 1 .. n - 1 /\ k = n
    BY <1>3, <1>4, <1>6, <2>3
  <2>4. CASE j \in 1 .. n - 1 /\ k \in 1 .. n - 1
    <3>1. g[j] = g[k]
      BY <1>3, <1>4, <1>6, <2>4
    <3>2. QED BY <1>1, <2>4, <3>1
  <2>5. QED BY <1>2, <2>1, <2>2, <2>3, <2>4
<1>7. f \in Perms(n)
  BY <1>5, <1>6 DEF Perms
<1>8. \A j \in 1 .. n - 1 : (IF f[j] = n THEN f[n] ELSE f[j]) = g[j]
  BY <1>3, <1>4
<1>9. Without(f, n) = g
  BY <1>1, <1>8 DEF Without
<1>10. QED BY <1>3, <1>7, <1>9

LEMMA PermsGrow ==
    ASSUME NEW n \in Nat, n >= 1, IsFiniteSet(Perms(n - 1))
    PROVE  /\ IsFiniteSet(Perms(n))
           /\ Cardinality(Perms(n)) = n * Cardinality(Perms(n - 1))
<1> DEFINE S == Perms(n)
           T == (1 .. n) \X Perms(n - 1)
           parts == [f \in S |-> <<f[n], Without(f, n)>>]
<1>1. parts \in [S -> T]
  BY WithoutIsPerm
<1>2. \A f, h \in S : parts[f] = parts[h] => f = h
  BY WithoutDetermines
<1>3. \A t \in T : \E f \in S : parts[f] = t
  <2> SUFFICES ASSUME NEW t \in T PROVE \E f \in S : parts[f] = t
    OBVIOUS
  <2>1. t[1] \in 1 .. n /\ t[2] \in Perms(n - 1) /\ t = <<t[1], t[2]>>
    OBVIOUS
  <2>2. PICK f \in Perms(n) : f[n] = t[1] /\ Without(f, n) = t[2]
    BY <2>1, WithoutReaches
  <2>3. QED BY <2>1, <2>2
<1>4. IsFiniteSet(T) /\ Cardinality(T) = n * Cardinality(Perms(n - 1))
  <2>1. IsFiniteSet(1 .. n) /\ Cardinality(1 .. n) = n
    BY FS_Interval
  <2>2. QED BY <2>1, FS_Product
<1> HIDE DEF S, T, parts
<1>5. parts \in Bijection(S, T)
  BY <1>1, <1>2, <1>3 DEF Bijection, Injection, Surjection, IsInjective
<1>6. ExistsBijection(T, S)
  <2>1. ExistsBijection(S, T)
    BY <1>5 DEF ExistsBijection
  <2>2. QED BY <2>1, Fun_ExistsBijSymmetric
<1>7. IsFiniteSet(S) /\ Cardinality(S) = Cardinality(T)
  BY <1>4, <1>6, FS_Bijection
<1>8. QED BY <1>4, <1>7 DEF S

\* The i-th number of Fibonacci.
Fib(n) == IF n = 0 THEN 0 ELSE Cardinality(Free(n - 2))

LEMMA FibGrows ==
    ASSUME NEW n \in Nat
    PROVE  /\ Fib(n) \in Nat
           /\ Fib(n + 2) = Fib(n) + Fib(n + 1)
<1>1. /\ n - 2 \in Int /\ Cardinality(Free(n - 2)) \in Nat
      /\ (n + 1) - 2 = n - 1 /\ (n + 2) - 2 = n
  BY FreeIsFinite
<1>2. /\ Fib(n + 1) = Cardinality(Free(n - 1))
      /\ Fib(n + 2) = Cardinality(Free(n))
  BY <1>1 DEF Fib
<1>3. CASE n = 0
  BY <1>2, <1>3, FreeOfNone DEF Fib
<1>4. CASE n # 0
  <2>1. Cardinality(Free(n)) = Cardinality(Free(n - 1)) + Cardinality(Free(n - 2))
    BY <1>4, FreeGrows
  <2>2. Cardinality(Free(n - 1)) \in Nat
    BY FreeIsFinite
  <2>3. QED BY <1>1, <1>2, <1>4, <2>1, <2>2 DEF Fib
<1>5. QED BY <1>1, <1>2, <1>3, <1>4 DEF Fib

\* The product of factorial is the number of the permutations of i - 1 things,
\* and x and y are the i-th number of Fibonacci and the next one.
FactorialInv ==
    op = "factorial" /\ phase \in {"loop", "number"} =>
        /\ a >= 0 /\ i >= 2 /\ (i = 2 \/ i <= a + 1)
        /\ IsFiniteSet(Perms(i - 1)) /\ x = Cardinality(Perms(i - 1))
        /\ phase = "number" => i > a

FibonacciInv ==
    op = "fibonacci" /\ phase \in {"loop", "number"} =>
        /\ 0 <= i /\ i <= a
        /\ x = Fib(i) /\ y = Fib(i + 1)
        /\ phase = "number" => i = a

CountInv == FactorialInv /\ FibonacciInv

LEMMA CountEnters ==
    ASSUME MathTypeOK, Compute
    PROVE  CountInv'
<1>1. ASSUME NEW n \in Inputs, Factorial(n) PROVE CountInv'
  <2>1. n \in Int /\ op' = "factorial" /\ a' = n /\ x' = 1 /\ i' = 2
        /\ phase' = IF n < 0 \/ n > FactorialMax THEN "threw" ELSE "loop"
    BY <1>1, InputsAssumption DEF Factorial, Enter
  <2>2. 2 - 1 = 1 /\ IsFiniteSet(Perms(1)) /\ Cardinality(Perms(1)) = 1
    BY PermsOfFew
  <2>3. QED BY <2>1, <2>2 DEF CountInv, FactorialInv, FibonacciInv
<1>2. ASSUME NEW n \in Inputs, Fibonacci(n) PROVE CountInv'
  <2>1. n \in Int /\ op' = "fibonacci" /\ a' = n /\ x' = 0 /\ y' = 1 /\ i' = 0
        /\ phase' = IF n < 0 \/ n > FibonacciMax THEN "threw" ELSE "loop"
    BY <1>2, InputsAssumption DEF Fibonacci, Enter
  <2>2. Fib(0) = 0 /\ Fib(0 + 1) = 1
    BY FreeOfNone DEF Fib
  <2>3. QED BY <2>1, <2>2 DEF CountInv, FactorialInv, FibonacciInv
<1>3. ASSUME op' \in {"modulo", "gcd", "is_prime"} PROVE CountInv'
  BY <1>3 DEF CountInv, FactorialInv, FibonacciInv
<1>4. QED
  BY <1>1, <1>2, <1>3 DEF Compute, Modulo, Gcd, IsPrime, Enter

LEMMA CountLoops ==
    ASSUME MathTypeOK, CountInv, Loop
    PROVE  CountInv'
<1>1. /\ op' = op /\ a' = a /\ phase = "loop"
      /\ a \in Int /\ i \in Int /\ x \in Int /\ y \in Int
  BY DEF Loop, MathTypeOK
<1>2. CASE op = "factorial" /\ FactorialLoop
  <2>1. /\ a >= 0 /\ i >= 2 /\ (i = 2 \/ i <= a + 1)
        /\ IsFiniteSet(Perms(i - 1)) /\ x = Cardinality(Perms(i - 1))
    BY <1>1, <1>2 DEF CountInv, FactorialInv
  <2>2. CASE i <= a /\ x' = x * i /\ i' = i + 1 /\ phase' = phase
    <3>1. /\ IsFiniteSet(Perms(i))
          /\ Cardinality(Perms(i)) = i * Cardinality(Perms(i - 1))
      BY <1>1, <2>1, PermsGrow
    <3>2. x' = Cardinality(Perms(i)) /\ i' - 1 = i
      BY <1>1, <2>1, <2>2, <3>1
    <3>3. i' >= 2 /\ i' <= a' + 1 /\ a' >= 0
      BY <1>1, <2>1, <2>2
    <3>4. QED
      BY <1>1, <1>2, <2>2, <3>1, <3>2, <3>3 DEF CountInv, FactorialInv, FibonacciInv
  <2>3. CASE i > a /\ phase' = "number" /\ UNCHANGED <<x, i>>
    BY <1>1, <1>2, <2>1, <2>3 DEF CountInv, FactorialInv, FibonacciInv
  <2>4. QED BY <1>2, <2>2, <2>3 DEF FactorialLoop, Ends
<1>3. CASE op = "fibonacci" /\ FibonacciLoop
  <2>1. 0 <= i /\ i <= a /\ x = Fib(i) /\ y = Fib(i + 1)
    BY <1>1, <1>3 DEF CountInv, FibonacciInv
  <2>2. CASE i < a /\ x' = y /\ y' = x + y /\ i' = i + 1 /\ phase' = phase
    <3>1. Fib(i + 2) = Fib(i) + Fib(i + 1) /\ (i + 1) + 1 = i + 2
      BY <1>1, <2>1, FibGrows
    <3>2. x' = Fib(i') /\ y' = Fib(i' + 1) /\ 0 <= i' /\ i' <= a'
      BY <1>1, <2>1, <2>2, <3>1
    <3>3. QED
      BY <1>1, <1>3, <2>2, <3>2 DEF CountInv, FactorialInv, FibonacciInv
  <2>3. CASE i >= a /\ phase' = "number" /\ UNCHANGED <<x, y, i>>
    BY <1>1, <1>3, <2>1, <2>3 DEF CountInv, FactorialInv, FibonacciInv
  <2>4. QED BY <1>3, <2>2, <2>3 DEF FibonacciLoop, Ends
<1>4. CASE op \in {"is_prime", "gcd"}
  BY <1>1, <1>4 DEF CountInv, FactorialInv, FibonacciInv
<1>5. QED BY <1>2, <1>3, <1>4 DEF Loop

\* factorial answers the number of permutations of its argument, fibonacci that
\* of the sets without neighbours, whatever the argument is that is accepted.
THEOREM CountCorrect == Spec => []CountsAsDefined
<1>1. MathInit => CountInv
  BY DEF MathInit, CountInv, FactorialInv, FibonacciInv
<1>2. MathInv /\ CountInv /\ [MathNext]_mathVars => CountInv'
  <2> SUFFICES ASSUME MathInv, CountInv, [MathNext]_mathVars PROVE CountInv'
    OBVIOUS
  <2>1. CASE Return \/ Stop
    BY <2>1 DEF Return, Stop, Enter, CountInv, FactorialInv, FibonacciInv
  <2>2. CASE UNCHANGED mathVars
    BY <2>2 DEF mathVars, CountInv, FactorialInv, FibonacciInv
  <2>3. QED BY CountEnters, CountLoops, <2>1, <2>2 DEF MathNext, MathInv
<1>3. MathInv /\ CountInv => CountsAsDefined
  <2> SUFFICES ASSUME MathInv, CountInv, phase = "number" PROVE CountsAsDefined
    BY DEF CountsAsDefined
  <2>1. a \in Int /\ i \in Int
    BY DEF MathInv, MathTypeOK
  <2>2. CASE op = "factorial"
    <3>1. /\ a >= 0 /\ i >= 2 /\ (i = 2 \/ i <= a + 1) /\ i > a
          /\ x = Cardinality(Perms(i - 1))
      BY <2>2 DEF CountInv, FactorialInv
    <3>2. x = Cardinality(Perms(a))
      <4>1. CASE i = a + 1
        BY <2>1, <3>1, <4>1
      <4>2. CASE i # a + 1
        <5>1. a = 0 /\ i - 1 = 1
          BY <2>1, <3>1, <4>2
        <5>2. QED BY <3>1, <5>1, PermsOfFew
      <4>3. QED BY <4>1, <4>2
    <3>3. QED BY <2>2, <3>2 DEF CountsAsDefined, Perms
  <2>3. CASE op = "fibonacci"
    <3>1. x = Fib(a)
      BY <2>3 DEF CountInv, FibonacciInv
    <3>2. QED BY <2>3, <3>1 DEF CountsAsDefined, Fib, Free
  <2>4. QED BY <2>2, <2>3 DEF CountsAsDefined
<1>4. QED
  BY <1>1, <1>2, <1>3, MathInvHolds, ImplementsMath, PTL DEF MathSpec

-----------------------------------------------------------------------------
(* Induction up to a number, over the set of those that have the property *)

LEMMA LeastNumber ==
    ASSUME NEW T, T \subseteq Nat, T # {}
    PROVE  \E m \in T : \A n \in T : m <= n
<1>1. PICK m \in T : \A n \in T : <<n, m>> \notin OpToRel(<, Nat)
  BY NatLessThanWellFounded, WFMin
<1>2. ASSUME NEW n \in T PROVE m <= n
  <2>1. m \in Nat /\ n \in Nat /\ <<n, m>> \in Nat \X Nat
    BY <1>1
  <2>2. ~(n < m)
    BY <1>1, <2>1 DEF OpToRel
  <2>3. QED BY <2>1, <2>2
<1>3. QED BY <1>1, <1>2

LEMMA InductionUpTo ==
    ASSUME NEW L \in Nat, NEW S, 0 \in S,
           \A n \in 1 .. L : n - 1 \in S => n \in S
    PROVE  \A n \in 0 .. L : n \in S
<1> DEFINE T == (0 .. L) \ S
<1> SUFFICES ASSUME T # {} PROVE FALSE
  OBVIOUS
<1>1. PICK m \in T : \A n \in T : m <= n
  <2>1. T \subseteq Nat
    OBVIOUS
  <2> HIDE DEF T
  <2>2. QED BY <2>1, LeastNumber
<1>2. m \in 1 .. L
  BY <1>1
<1>3. m - 1 \in S
  BY <1>1, <1>2
<1>4. QED BY <1>1, <1>2, <1>3

LEMMA GreatestNumber ==
    ASSUME NEW L \in Nat, NEW R, R \subseteq 1 .. L, R # {}
    PROVE  \E m \in R : \A n \in R : n <= m
<1> DEFINE T == {k \in 0 .. L : L - k \in R}
<1>1. ASSUME NEW n \in R PROVE L - n \in T
  <2>1. n \in Int /\ 1 <= n /\ n <= L
    BY <1>1
  <2>2. L - n \in 0 .. L /\ L - (L - n) = n
    BY <2>1
  <2>3. QED BY <1>1, <2>2
<1>2. T \subseteq Nat /\ T # {}
  <2>1. T \subseteq Nat
    OBVIOUS
  <2> HIDE DEF T
  <2>2. QED BY <1>1, <2>1
<1>3. PICK m \in T : \A n \in T : m <= n
  <2> HIDE DEF T
  <2>1. QED BY <1>2, LeastNumber
<1>4. L - m \in R /\ m \in Int
  BY <1>3
<1>5. ASSUME NEW n \in R PROVE n <= L - m
  <2>1. m <= L - n /\ n \in Int
    BY <1>1, <1>3
  <2>2. QED BY <1>4, <2>1
<1>6. QED BY <1>4, <1>5

-----------------------------------------------------------------------------
(* The samples of a tool *)

SampleSet == [value : Nat, ts : Nat]
MetricSet == [count : Nat, totalMs : Nat, samples : Seq(SampleSet)]
RowSet    == [call : Executed, ts : Nat]

\* prune drops the first d samples, which are older than the window.
LEMMA PruneDrops ==
    ASSUME NEW p \in Seq(SampleSet), now \in Nat
    PROVE  \E d \in 0 .. Len(p) :
              /\ Prune(p) = SubSeq(p, d + 1, Len(p))
              /\ \A k \in 1 .. d : p[k].ts < now - Window
              /\ d < Len(p) => ~(p[d + 1].ts < now - Window)
<1> DEFINE Old(k) == p[k].ts < now - Window
           Stops(n) == n < Len(p) => ~Old(n + 1)
           T == {n \in 0 .. Len(p) : Stops(n)}
           P(n) == (\A k \in 1 .. n : Old(k)) /\ Stops(n)
           d == CHOOSE n \in 0 .. Len(p) : P(n)
<1>1. Len(p) \in Nat
  OBVIOUS
<1>2. Len(p) \in T /\ T \subseteq Nat
  BY <1>1
<1>3. PICK m \in T : \A n \in T : m <= n
  <2> HIDE DEF T
  <2>1. QED BY <1>2, LeastNumber
<1>4. ASSUME NEW k \in 1 .. m PROVE Old(k)
  <2>1. k - 1 \in 0 .. Len(p) /\ k - 1 < m /\ (k - 1) + 1 = k
    BY <1>1, <1>3
  <2>2. m \in Nat /\ k - 1 \in Int
    BY <1>1, <1>2, <1>3
  <2>3. k - 1 \notin T
    <3> HIDE DEF T
    <3>1. QED BY <1>3, <2>1, <2>2
  <2>4. QED BY <2>1, <2>3
<1>5. m \in 0 .. Len(p) /\ P(m)
  BY <1>3, <1>4
<1> HIDE DEF Old, Stops
<1>6. d \in 0 .. Len(p) /\ P(d)
  <2> HIDE DEF P
  <2>1. QED BY <1>5
<1>7. Prune(p) = SubSeq(p, d + 1, Len(p))
  BY DEF Prune, Old, Stops
<1> HIDE DEF d
<1>8. QED BY <1>6, <1>7 DEF Old, Stops


\* The rows of tool t among those of rs from m + 1 to l.
RowsAt(t, m, l, rs) == {k \in m + 1 .. l : rs[k].call.tool = t}

Sample(row) == [value |-> row.call.ms, ts |-> row.ts]

\* e gives the rows of the samples q: those of R that are within the window at
\* the last of R, in their order.
Enumerates(e, q, R, rs) ==
    /\ e \in [1 .. Len(q) -> R]
    /\ \A n \in 1 .. Len(q) : q[n] = Sample(rs[e[n]])
    /\ \A n, k \in 1 .. Len(q) : n < k => e[n] < e[k]
    /\ \A r \in R : (\E n \in 1 .. Len(q) : e[n] = r)
                        <=> \A j \in R : rs[r].ts >= rs[j].ts - Window

\* The metric of tool t is right after the first l rows.
Tells(metric, t, m, l, rs) ==
    /\ metric.count = Cardinality(RowsAt(t, m, l, rs))
    /\ \E e : Enumerates(e, metric.samples, RowsAt(t, m, l, rs), rs)

\* Rows are inserted as time goes on.
InOrder(rs, n) ==
    /\ rs \in Seq(RowSet)
    /\ \A j, k \in 1 .. Len(rs) : j <= k => rs[j].ts <= rs[k].ts
    /\ \A k \in 1 .. Len(rs) : rs[k].ts <= n

LEMMA Transitive == \A u, v, w \in Int : u <= v /\ v <= w => u <= w
OBVIOUS

\* A sample more, at the time of the last row.
LEMMA SampleAdded ==
    ASSUME now \in Nat, NEW rs, InOrder(rs, now), NEW l \in Nat, l + 1 <= Len(rs),
           NEW m \in Nat, m <= l, NEW t \in Tools,
           rs[l + 1].call.tool = t, rs[l + 1].ts = now,
           NEW q \in Seq(SampleSet), NEW e, Enumerates(e, q, RowsAt(t, m, l, rs), rs)
    PROVE  LET q2 == Prune(Append(q, Sample(rs[l + 1])))
           IN  /\ q2 \in Seq(SampleSet)
               /\ \E f : Enumerates(f, q2, RowsAt(t, m, l + 1, rs), rs)
<1> DEFINE s == Sample(rs[l + 1])
           p == Append(q, s)
           L == Len(q)
           R == RowsAt(t, m, l, rs)
           R2 == RowsAt(t, m, l + 1, rs)
           q2 == Prune(p)
<1>1. /\ Len(rs) \in Nat /\ rs \in Seq(RowSet) /\ l + 1 \in 1 .. Len(rs)
      /\ \A k \in 1 .. Len(rs) : rs[k] \in RowSet
  BY DEF InOrder
<1>2. s \in SampleSet /\ s.ts = now /\ L \in Nat
  BY <1>1 DEF Sample, RowSet, SampleSet, Executed
<1> HIDE DEF s
<1>3. /\ p \in Seq(SampleSet) /\ Len(p) = L + 1 /\ p[L + 1] = s
      /\ \A k \in 1 .. L : p[k] = q[k]
  BY <1>2
<1> HIDE DEF p
<1>4. PICK d \in 0 .. Len(p) :
        /\ q2 = SubSeq(p, d + 1, Len(p))
        /\ \A k \in 1 .. d : p[k].ts < now - Window
        /\ d < Len(p) => ~(p[d + 1].ts < now - Window)
  <2> HIDE DEF q2
  <2>1. \A u \in Seq(SampleSet) : \E d \in 0 .. Len(u) :
           /\ Prune(u) = SubSeq(u, d + 1, Len(u))
           /\ \A k \in 1 .. d : u[k].ts < now - Window
           /\ d < Len(u) => ~(u[d + 1].ts < now - Window)
    BY PruneDrops
  <2>2. q2 = Prune(p)
    BY DEF q2
  <2>3. QED BY ONLY <1>3, <2>1, <2>2
<1>5. /\ d \in Nat /\ L \in Nat /\ d <= L /\ Len(p) = L + 1
      /\ Window \in Nat /\ now \in Nat /\ now - Window \in Int
  <2>1. d \in Nat /\ d <= L + 1 /\ Window \in Nat
    BY <1>2, <1>3, <1>4, WindowAssumption
  <2>2. d # L + 1
    <3> SUFFICES ASSUME d = L + 1 PROVE FALSE
      OBVIOUS
    <3>1. p[L + 1].ts < now - Window
      BY <1>4, <2>1
    <3>2. QED BY <1>2, <1>3, <2>1, <3>1
  <2>3. now - Window \in Int
    BY <2>1
  <2>4. QED BY <1>2, <1>3, <2>1, <2>2, <2>3
<1> HIDE DEF q2, L
<1>6. /\ q2 \in Seq(SampleSet) /\ Len(q2) = L + 1 - d
      /\ \A n \in 1 .. L + 1 - d : q2[n] = p[d + n]
  <2>1. d + 1 \in 1 .. Len(p) + 1 /\ Len(p) \in Nat
    BY <1>3, <1>5
  <2>2. /\ q2 \in Seq(SampleSet) /\ Len(q2) = Len(p) - (d + 1) + 1
        /\ \A n \in 1 .. Len(p) - (d + 1) + 1 : q2[n] = p[(d + 1) + n - 1]
    BY <1>2, <1>3, <1>4, <1>5, <2>1
  <2>3. Len(p) - (d + 1) + 1 = L + 1 - d
    BY <1>3, <1>5
  <2>4. \A n \in 1 .. L + 1 - d : (d + 1) + n - 1 = d + n
    BY <1>5
  <2>5. QED BY <2>2, <2>3, <2>4
\* The rows
<1>7. R \subseteq 1 .. l /\ R2 = R \cup {l + 1} /\ l + 1 \notin R
  BY DEF RowsAt
<1>8. /\ \A r \in R2 : r \in 1 .. Len(rs) /\ r \in Nat /\ rs[r].ts \in Nat
                       /\ rs[r].ts <= now
      /\ \A r \in R : r < l + 1
  <2>1. \A r \in R2 : r \in 1 .. Len(rs)
    BY <1>1, <1>7
  <2>2. \A r \in 1 .. Len(rs) : rs[r].ts \in Nat /\ r \in Nat
    BY <1>1 DEF RowSet
  <2>3. \A r \in R : r < l + 1
    BY <1>7
  <2>4. QED BY <2>1, <2>2, <2>3 DEF InOrder
<1>9. \A r \in R2 : (\A j \in R2 : rs[r].ts >= rs[j].ts - Window)
                       <=> rs[r].ts >= now - Window
  <2>1. l + 1 \in R2 /\ rs[l + 1].ts = now
    BY <1>7
  <2> HIDE DEF R2
  <2>2. ASSUME NEW r \in R2, NEW j \in R2, rs[r].ts >= now - Window
        PROVE  rs[r].ts >= rs[j].ts - Window
    <3>1. /\ rs[r].ts \in Int /\ rs[j].ts \in Int /\ rs[j].ts <= now
          /\ rs[r].ts >= now - Window
      BY <1>8, <2>2
    <3>2. \A u, v, w, z \in Int : v <= w /\ u >= w - z => u >= v - z
      OBVIOUS
    <3>3. QED BY ONLY <1>5, <3>1, <3>2
  <2>3. QED BY <2>1, <2>2
<1>10. /\ e \in [1 .. L -> R]
       /\ \A n \in 1 .. L : p[n] = Sample(rs[e[n]])
       /\ \A n, k \in 1 .. L : n < k => e[n] < e[k]
       /\ \A r \in R : (\E n \in 1 .. L : e[n] = r)
                          <=> \A j \in R : rs[r].ts >= rs[j].ts - Window
  BY <1>3 DEF Enumerates, L
<1> HIDE DEF R, R2
<1>11. ASSUME NEW n \in 1 .. L PROVE p[n].ts = rs[e[n]].ts
  <2>1. p[n] = Sample(rs[e[n]])
    BY <1>10
  <2>2. QED BY <2>1 DEF Sample
<1> DEFINE f == [n \in 1 .. L + 1 - d |-> IF d + n <= L THEN e[d + n] ELSE l + 1]
<1>12. ASSUME NEW n \in 1 .. L + 1 - d
       PROVE  /\ n \in Nat /\ d + n \in 1 .. L + 1
              /\ d + n \in 1 .. L => f[n] = e[d + n] /\ f[n] \in R /\ n < L + 1 - d
              /\ d + n \notin 1 .. L => f[n] = l + 1 /\ n = L + 1 - d /\ d + n = L + 1
  <2>1. n \in Nat /\ d + n \in 1 .. L + 1
    BY <1>5, <1>12
  <2>2. CASE d + n \in 1 .. L
    BY <1>5, <1>10, <2>1, <2>2
  <2>3. CASE d + n \notin 1 .. L
    <3>1. d + n = L + 1 /\ n = L + 1 - d /\ ~(d + n <= L)
      BY <1>5, <2>1, <2>3
    <3>2. QED BY <1>12, <2>3, <3>1
  <2>4. QED BY <2>1, <2>2, <2>3
<1>13. f \in [1 .. L + 1 - d -> R2]
  BY <1>7, <1>12
<1>14. ASSUME NEW n \in 1 .. L + 1 - d PROVE q2[n] = Sample(rs[f[n]])
  <2>1. CASE d + n \in 1 .. L
    BY <1>6, <1>10, <1>12, <1>14, <2>1
  <2>2. CASE d + n \notin 1 .. L
    BY <1>3, <1>6, <1>12, <1>14, <2>2 DEF s
  <2>3. QED BY <2>1, <2>2
<1>15. ASSUME NEW n \in 1 .. L + 1 - d, NEW k \in 1 .. L + 1 - d, n < k
       PROVE  f[n] < f[k]
  <2>1. d + n \in 1 .. L /\ f[n] = e[d + n] /\ f[n] \in R /\ k \in Nat /\ n \in Nat
    <3>1. k \in Nat /\ n \in Nat /\ n < k /\ k <= L + 1 - d
      BY <1>5, <1>12, <1>15
    <3>2. n # L + 1 - d
      BY <1>5, <3>1
    <3>3. QED BY <1>12, <1>15, <3>1, <3>2
  <2>2. CASE d + k \in 1 .. L
    <3>1. f[k] = e[d + k] /\ d + n < d + k
      BY <1>5, <1>12, <1>15, <2>1, <2>2
    <3>2. QED BY <1>10, <2>1, <2>2, <3>1
  <2>3. CASE d + k \notin 1 .. L
    BY <1>8, <1>12, <1>15, <2>1, <2>3
  <2>4. QED BY <2>2, <2>3
<1> HIDE DEF f
<1>16. ASSUME NEW n \in 1 .. L + 1 - d PROVE rs[f[n]].ts >= now - Window
  <2>1. CASE d + n \in 1 .. L
    <3>1. d + 1 \in 1 .. L /\ d + 1 <= d + n /\ d < Len(p)
      <4>1. n \in Nat /\ 1 <= n /\ d + n <= L
        BY <1>5, <1>16, <2>1
      <4>2. d + 1 <= L /\ d + 1 \in Nat /\ d + 1 >= 1 /\ d + 1 <= d + n
        BY ONLY <1>5, <4>1
      <4>3. QED BY ONLY <1>5, <4>2
    <3>2. rs[e[d + 1]].ts >= now - Window
      <4>1. e[d + 1] \in R2
        BY <1>7, <1>10, <3>1
      <4>2. rs[e[d + 1]].ts \in Nat /\ ~(rs[e[d + 1]].ts < now - Window)
        BY <1>4, <1>8, <1>11, <3>1, <4>1
      <4>3. \A u, w \in Int : ~(u < w) => u >= w
        OBVIOUS
      <4>4. QED BY ONLY <1>5, <4>2, <4>3
    <3>3. e[d + 1] <= e[d + n] /\ e[d + n] \in R2 /\ e[d + 1] \in R2
      <4>1. e[d + n] \in R /\ e[d + 1] \in R
        BY <1>10, <2>1, <3>1
      <4>2. d + 1 = d + n \/ d + 1 < d + n
        BY <1>5, <1>12, <1>16, <3>1
      <4>3. e[d + n] \in R2 /\ e[d + 1] \in R2
        BY <1>7, <4>1
      <4>4. CASE d + 1 = d + n
        BY <1>8, <4>3, <4>4
      <4>5. CASE d + 1 < d + n
        <5>1. e[d + 1] < e[d + n]
          BY <1>10, <2>1, <3>1, <4>5
        <5>2. e[d + 1] \in Int /\ e[d + n] \in Int
          BY <1>8, <4>3
        <5>3. \A u, w \in Int : u < w => u <= w
          OBVIOUS
        <5>4. QED BY ONLY <4>3, <5>1, <5>2, <5>3, Zenon
      <4>6. QED BY <4>2, <4>3, <4>4, <4>5
    <3>4. rs[e[d + 1]].ts <= rs[e[d + n]].ts
      BY <1>8, <3>3 DEF InOrder
    <3>5. rs[e[d + n]].ts \in Nat /\ rs[e[d + 1]].ts \in Nat
      BY <1>8, <3>3
    <3>6. \A u, v, w \in Int : u >= w /\ u <= v => v >= w
      OBVIOUS
    <3>7. now - Window \in Int
      BY <1>5
    <3>8. rs[e[d + n]].ts >= now - Window
      BY ONLY <3>2, <3>4, <3>5, <3>6, <3>7
    <3>9. QED BY <1>12, <1>16, <2>1, <3>8
  <2>2. CASE d + n \notin 1 .. L
    BY <1>5, <1>12, <1>16, <2>2
  <2>3. QED BY <2>1, <2>2
<1>17. ASSUME NEW r \in R2, rs[r].ts >= now - Window
       PROVE  \E n \in 1 .. L + 1 - d : f[n] = r
  <2>1. CASE r = l + 1
    <3>1. L + 1 - d \in 1 .. L + 1 - d /\ d + (L + 1 - d) \notin 1 .. L
      BY <1>5
    <3>2. QED BY <1>12, <2>1, <3>1
  <2>2. CASE r \in R
    <3>1. ASSUME NEW j \in R PROVE rs[r].ts >= rs[j].ts - Window
      <4>1. j \in R2
        BY <1>7
      <4>2. QED BY <1>9, <1>17, <4>1
    <3>2. PICK n \in 1 .. L : e[n] = r
      BY <1>10, <2>2, <3>1
    <3>3. n \in Nat /\ ~(n <= d)
      <4>1. n \in Nat
        BY <1>2, <3>2
      <4> SUFFICES ASSUME n <= d PROVE FALSE
        BY <4>1
      <4>2. p[n].ts < now - Window
        BY <1>4, <1>5, <3>2, <4>1
      <4>3. p[n].ts = rs[r].ts /\ rs[r].ts \in Int
        <5>1. n \in 1 .. L /\ e[n] = r /\ r \in R2
          BY <3>2
        <5>2. p[n].ts = rs[e[n]].ts
          BY ONLY <1>11, <5>1
        <5>3. QED BY <1>8, <5>1, <5>2
      <4>4. \A u, w \in Int : u < w /\ u >= w => FALSE
        OBVIOUS
      <4>5. QED BY ONLY <1>5, <1>17, <4>2, <4>3, <4>4
    <3>4. n - d \in 1 .. L + 1 - d /\ d + (n - d) = n
      BY <1>5, <3>2, <3>3
    <3>5. f[n - d] = e[n]
      BY <1>12, <3>2, <3>4
    <3>6. QED BY <3>2, <3>4, <3>5
  <2>3. QED BY <1>7, <1>17, <2>1, <2>2
<1>18. Enumerates(f, q2, R2, rs)
  BY <1>6, <1>9, <1>13, <1>14, <1>15, <1>16, <1>17 DEF Enumerates
<1>19. QED BY <1>6, <1>18 DEF q2, p, s, R2

\* The metrics ms with the call c recorded.
RecordCall(ms, c) == [ms EXCEPT ![c.tool] = RecordToolExecution(@, c.ms)]

\* A call more, of a tool or of another.
LEMMA CallRecorded ==
    ASSUME now \in Nat, NEW rs, InOrder(rs, now), NEW l \in Nat, l + 1 <= Len(rs),
           NEW m \in Nat, m <= l, NEW c \in Executed,
           rs[l + 1].call = c, rs[l + 1].ts = now,
           NEW ms \in [Tools -> MetricSet], \A t \in Tools : Tells(ms[t], t, m, l, rs)
    PROVE  /\ RecordCall(ms, c) \in [Tools -> MetricSet]
           /\ \A t \in Tools : Tells(RecordCall(ms, c)[t], t, m, l + 1, rs)
<1> DEFINE s == Sample(rs[l + 1])
           u == c.tool
           M == RecordToolExecution(ms[u], c.ms)
           ms2 == RecordCall(ms, c)
           q == ms[u].samples
           R == RowsAt(u, m, l, rs)
           R2 == RowsAt(u, m, l + 1, rs)
<1>1. /\ u \in Tools /\ c.ms \in Nat /\ s = [value |-> c.ms, ts |-> now]
      /\ ms[u].count \in Nat /\ ms[u].totalMs \in Nat /\ q \in Seq(SampleSet)
  BY DEF Executed, MetricSet, Sample
<1>2. PICK e : Enumerates(e, q, R, rs)
  BY <1>1 DEF Tells
<1>3. /\ Prune(Append(q, s)) \in Seq(SampleSet)
      /\ \E f : Enumerates(f, Prune(Append(q, s)), R2, rs)
  <2> HIDE DEF q, u, s, R, R2
  <2>1. rs[l + 1].call.tool = u
    BY DEF u
  <2>2. Enumerates(e, q, RowsAt(u, m, l, rs), rs)
    BY <1>2 DEF R
  <2>3. QED BY <1>1, <2>1, <2>2, SampleAdded DEF R2, s
<1>4. M = [count |-> ms[u].count + 1, totalMs |-> ms[u].totalMs + c.ms,
           samples |-> Prune(Append(q, s))]
  BY <1>1 DEF RecordToolExecution
<1>5. M \in MetricSet
  <2> DEFINE p == Prune(Append(q, s))
             n == ms[u].count + 1
             k == ms[u].totalMs + c.ms
  <2>1. n \in Nat /\ k \in Nat
    <3>1. \A v, w \in Nat : v + 1 \in Nat /\ v + w \in Nat
      OBVIOUS
    <3>2. QED BY ONLY <1>1, <3>1, Zenon
  <2>2. p \in Seq(SampleSet) /\ M = [count |-> n, totalMs |-> k, samples |-> p]
    BY <1>3, <1>4
  <2> HIDE DEF M, p, n, k
  <2>3. QED BY ONLY <2>1, <2>2 DEF MetricSet
<1>6. /\ ms2 \in [Tools -> MetricSet] /\ ms2[u] = M
      /\ \A t \in Tools : t # u => ms2[t] = ms[t]
  <2> HIDE DEF M
  <2>1. ms2 = [ms EXCEPT ![u] = M]
    BY DEF M, RecordCall
  <2>2. QED BY <1>1, <1>5, <2>1
<1>7. Cardinality(R2) = Cardinality(R) + 1
  <2>1. R2 = R \cup {l + 1} /\ l + 1 \notin R /\ R \subseteq 1 .. l
    BY DEF RowsAt
  <2>2. IsFiniteSet(1 .. l)
    <3>1. 1 \in Int /\ l \in Int
      OBVIOUS
    <3>2. QED BY ONLY <3>1, FS_Interval
  <2> HIDE DEF R, R2
  <2>3. IsFiniteSet(R)
    BY <2>1, <2>2, FS_Subset
  <2>4. QED BY <2>1, <2>3, FS_AddElement
<1>8. Tells(M, u, m, l + 1, rs)
  <2>1. ms[u].count = Cardinality(R)
    BY <1>1 DEF Tells
  <2>2. M.count = Cardinality(R2) /\ M.samples = Prune(Append(q, s))
    <3> HIDE DEF M, q, s, R, R2
    <3>1. QED BY <1>4, <1>7, <2>1
  <2> HIDE DEF M, q, s
  <2>3. QED BY <1>3, <2>2 DEF Tells
<1> HIDE DEF ms2, M
<1>9. ASSUME NEW t \in Tools, t # u PROVE Tells(ms2[t], t, m, l + 1, rs)
  <2>1. RowsAt(t, m, l + 1, rs) = RowsAt(t, m, l, rs)
    BY <1>9 DEF RowsAt
  <2>2. ms2[t] = ms[t] /\ Tells(ms[t], t, m, l, rs)
    BY <1>6, <1>9
  <2>3. QED BY <2>1, <2>2 DEF Tells
<1>10. QED BY <1>6, <1>8, <1>9 DEF ms2

\* The metrics when n of the calls were recorded, as RecordAll defines it.
RecordStep(f, n, calls) ==
    IF n = 0 THEN tools
    ELSE RecordCall(f[n - 1], calls[n])

LEMMA RecordedExists ==
    ASSUME NEW calls, NEW L \in Nat
    PROVE  \E f : f = [n \in 0 .. L |-> RecordStep(f, n, calls)]
<1> DEFINE S == {k \in 0 .. L : \E f : f = [n \in 0 .. k |-> RecordStep(f, n, calls)]}
<1>1. 0 \in S
  <2> DEFINE f == [n \in 0 .. 0 |-> tools]
  <2>1. \A n \in 0 .. 0 : RecordStep(f, n, calls) = tools
    BY DEF RecordStep
  <2>2. f = [n \in 0 .. 0 |-> RecordStep(f, n, calls)]
    <3> HIDE DEF RecordStep
    <3>1. f = [n \in 0 .. 0 |-> tools]
      OBVIOUS
    <3> HIDE DEF f
    <3>2. QED BY <2>1, <3>1
  <2> HIDE DEF f
  <2>3. \E g : g = [n \in 0 .. 0 |-> RecordStep(g, n, calls)]
    BY <2>2
  <2>4. 0 \in 0 .. L
    OBVIOUS
  <2>5. QED BY ONLY <2>3, <2>4, Zenon
<1>2. ASSUME NEW k \in 1 .. L, k - 1 \in S PROVE k \in S
  <2>1. PICK f : f = [n \in 0 .. k - 1 |-> RecordStep(f, n, calls)]
    BY <1>2
  <2> DEFINE g == [n \in 0 .. k |-> IF n = k THEN RecordStep(f, n, calls) ELSE f[n]]
  <2>2. ASSUME NEW n \in 0 .. k PROVE g[n] = RecordStep(g, n, calls)
    <3>1. g[n] = RecordStep(f, n, calls)
      <4>1. CASE n = k
        BY <4>1
      <4>2. CASE n # k
        <5>1. n \in 0 .. k - 1 /\ g[n] = f[n]
          BY <4>2
        <5>2. f[n] = RecordStep(f, n, calls)
          BY <2>1, <5>1
        <5>3. QED BY <5>1, <5>2
      <4>3. QED BY <4>1, <4>2
    <3>2. RecordStep(f, n, calls) = RecordStep(g, n, calls)
      <4>1. CASE n = 0
        BY <4>1 DEF RecordStep
      <4>2. CASE n # 0
        <5>1. n - 1 \in 0 .. k /\ n - 1 # k
          BY <4>2
        <5>2. g[n - 1] = f[n - 1]
          BY <5>1
        <5> HIDE DEF g
        <5>3. QED BY <5>2 DEF RecordStep
      <4>3. QED BY <4>1, <4>2
    <3>3. QED BY <3>1, <3>2
  <2>3. g = [n \in 0 .. k |-> g[n]]
    OBVIOUS
  <2> HIDE DEF g
  <2>4. g = [n \in 0 .. k |-> RecordStep(g, n, calls)]
    BY <2>2, <2>3
  <2>5. QED BY <2>4
<1>3. \A k \in 0 .. L : k \in S
  <2> HIDE DEF S
  <2>1. QED BY <1>1, <1>2, InductionUpTo
<1>4. L \in S
  BY <1>3
<1>5. QED BY <1>4

\* The rows that AddRows inserts.
RowsOfCalls(calls, time) == [n \in 1 .. Len(calls) |-> [call |-> calls[n], ts |-> time]]

LEMMA RowsInserted ==
    ASSUME now \in Nat, NEW rs, InOrder(rs, now), NEW calls \in Seq(Executed)
    PROVE  LET rs2 == rs \o RowsOfCalls(calls, now)
           IN  /\ InOrder(rs2, now)
               /\ Len(rs) \in Nat /\ Len(rs2) = Len(rs) + Len(calls)
               /\ \A k \in 1 .. Len(rs) : rs2[k] = rs[k]
               /\ \A n \in 1 .. Len(calls) :
                     rs2[Len(rs) + n] = [call |-> calls[n], ts |-> now]
<1> DEFINE q == RowsOfCalls(calls, now)
           rs2 == rs \o q
           L == Len(rs)
           N == Len(calls)
<1>1. L \in Nat /\ N \in Nat /\ rs \in Seq(RowSet)
  BY DEF InOrder
<1>2. /\ q \in Seq(RowSet) /\ Len(q) = N
      /\ \A n \in 1 .. N : q[n] = [call |-> calls[n], ts |-> now]
  <2>1. \A n \in 1 .. N : calls[n] \in Executed
    OBVIOUS
  <2>2. \A n \in 1 .. N : [call |-> calls[n], ts |-> now] \in RowSet
    BY <2>1 DEF RowSet
  <2> HIDE DEF RowSet, N
  <2>3. q = [n \in 1 .. N |-> [call |-> calls[n], ts |-> now]]
    BY DEF RowsOfCalls, N
  <2> HIDE DEF q
  <2>4. q \in [1 .. N -> RowSet]
    BY <2>2, <2>3
  <2>5. q \in Seq(RowSet) /\ Len(q) = N
    BY <1>1, <2>4
  <2>6. QED BY <2>3, <2>5
<1> HIDE DEF q, N
<1>3. /\ rs2 \in Seq(RowSet) /\ Len(rs2) = L + N
      /\ \A k \in 1 .. L : rs2[k] = rs[k]
      /\ \A n \in 1 .. N : rs2[L + n] = q[n]
  <2>2. q \in Seq(RowSet) /\ N = Len(q)
    BY <1>2
  <2>3. /\ rs2 \in Seq(RowSet) /\ Len(rs2) = L + Len(q)
        /\ \A k \in 1 .. L : rs2[k] = rs[k]
        /\ \A n \in 1 .. Len(q) : rs2[L + n] = q[n]
    BY ONLY <1>1, <2>2
  <2> HIDE DEF rs2, L
  <2>4. QED BY ONLY <2>2, <2>3, Zenon
<1> HIDE DEF rs2
<1>4. ASSUME NEW k \in 1 .. L + N
      PROVE  \/ k \in 1 .. L /\ rs2[k] = rs[k]
             \/ ~(k <= L) /\ rs2[k].ts = now
  <2>1. CASE k <= L
    BY <1>1, <1>3, <2>1
  <2>2. CASE ~(k <= L)
    <3>1. k - L \in 1 .. N /\ L + (k - L) = k
      BY <1>1, <2>2
    <3>2. rs2[k] = q[k - L]
      BY <1>3, <3>1
    <3>3. QED BY <1>2, <2>2, <3>1, <3>2
  <2>3. QED BY <2>1, <2>2
<1>5. ASSUME NEW k \in 1 .. L + N PROVE rs2[k].ts <= now /\ rs2[k].ts \in Nat
  <2>1. rs2[k] \in RowSet
    BY <1>1, <1>3, <1>5
  <2>2. QED BY <1>4, <1>5, <2>1 DEF InOrder, RowSet
<1>6. ASSUME NEW j \in 1 .. L + N, NEW k \in 1 .. L + N, j <= k
      PROVE  rs2[j].ts <= rs2[k].ts
  <2>1. CASE k \in 1 .. L /\ rs2[k] = rs[k]
    <3>1. j \in 1 .. L
      BY <1>1, <1>6, <2>1
    <3>2. rs2[j] = rs[j]
      BY <1>3, <3>1
    <3>3. QED BY <1>6, <2>1, <3>1, <3>2 DEF InOrder
  <2>2. CASE ~(k <= L) /\ rs2[k].ts = now
    BY <1>5, <1>6, <2>2
  <2>3. QED BY <1>4, <1>6, <2>1, <2>2
<1>7. InOrder(rs2, now)
  BY <1>3, <1>5, <1>6 DEF InOrder
<1>8. QED BY <1>1, <1>2, <1>3, <1>7 DEF rs2, q, N

\* All the calls of an answer, recorded in turn: the metrics are right after each.
LEMMA AllRecorded ==
    ASSUME now \in Nat, InOrder(rows, now), kept \in 0 .. Len(rows),
           tools \in [Tools -> MetricSet],
           \A t \in Tools : Tells(tools[t], t, kept, Len(rows), rows),
           NEW calls \in Seq(Executed), RecordAll(calls)
    PROVE  /\ InOrder(rows', now) /\ kept' \in 0 .. Len(rows')
           /\ tools' \in [Tools -> MetricSet]
           /\ \A t \in Tools : Tells(tools'[t], t, kept', Len(rows'), rows')
<1> DEFINE rs == rows \o RowsOfCalls(calls, now)
           L == Len(rows)
           N == Len(calls)
           f == CHOOSE g : g = [n \in 0 .. N |-> RecordStep(g, n, calls)]
           Right(n) == /\ f[n] \in [Tools -> MetricSet]
                       /\ \A t \in Tools : Tells(f[n][t], t, kept, L + n, rs)
           S == {n \in 0 .. N : Right(n)}
<1>1. rows' = rs /\ tools' = f[N] /\ kept' = kept
  BY DEF RecordAll, AddRows, RowsOfCalls, RecordStep, RecordCall
<1>2. N \in Nat /\ \A n \in 1 .. N : calls[n] \in Executed
  OBVIOUS
<1>3. /\ InOrder(rs, now) /\ L \in Nat /\ Len(rs) = L + N
      /\ \A k \in 1 .. L : rs[k] = rows[k]
      /\ \A n \in 1 .. N : rs[L + n] = [call |-> calls[n], ts |-> now]
  BY RowsInserted
<1>4. kept \in Nat /\ kept <= L
  BY <1>3
<1> HIDE DEF rs, L, N
<1>5. f = [n \in 0 .. N |-> RecordStep(f, n, calls)]
  <2>1. \E g : g = [n \in 0 .. N |-> RecordStep(g, n, calls)]
    BY <1>2, RecordedExists
  <2>2. QED BY ONLY <2>1, Zenon
<1> HIDE DEF f
<1>6. Right(0)
  <2>1. f[0] = tools
    BY <1>2, <1>5 DEF RecordStep
  <2>2. ASSUME NEW t \in Tools PROVE Tells(tools[t], t, kept, L + 0, rs)
    <3>1. RowsAt(t, kept, L + 0, rs) = RowsAt(t, kept, L, rows)
      BY <1>3, <1>4 DEF RowsAt
    <3>2. \A r \in RowsAt(t, kept, L, rows) : rs[r] = rows[r]
      BY <1>3, <1>4 DEF RowsAt
    <3>3. Tells(tools[t], t, kept, L, rows)
      BY DEF L
    <3>4. PICK e : Enumerates(e, tools[t].samples, RowsAt(t, kept, L, rows), rows)
      BY <3>3 DEF Tells
    <3>5. Enumerates(e, tools[t].samples, RowsAt(t, kept, L, rows), rs)
      BY <3>2, <3>4 DEF Enumerates
    <3>6. QED BY <3>1, <3>3, <3>5 DEF Tells
  <2>3. QED BY <2>1, <2>2
<1>7. ASSUME NEW n \in 1 .. N, n - 1 \in S PROVE n \in S
  <2>1. /\ n - 1 \in 0 .. N /\ n \in 0 .. N /\ n # 0
        /\ L + (n - 1) \in Nat /\ (L + (n - 1)) + 1 = L + n /\ L + n <= Len(rs)
        /\ kept <= L + (n - 1)
    BY <1>2, <1>3, <1>4
  <2>2. Right(n - 1)
    <3>1. /\ f[n - 1] \in [Tools -> MetricSet]
          /\ \A t \in Tools : Tells(f[n - 1][t], t, kept, L + (n - 1), rs)
      BY ONLY <1>7, Zenon
    <3>2. QED BY <3>1
  <2>3. rs[L + n].call = calls[n] /\ rs[L + n].ts = now /\ calls[n] \in Executed
    <3>1. rs[L + n] = [call |-> calls[n], ts |-> now]
      BY <1>3
    <3>2. QED BY <1>2, <3>1
  <2>4. f[n] = RecordCall(f[n - 1], calls[n])
    BY <1>5, <2>1 DEF RecordStep
  <2>5. Right(n)
    <3> DEFINE g == f[n - 1]
               c == calls[n]
               l == L + (n - 1)
    <3>1. g \in [Tools -> MetricSet] /\ \A t \in Tools : Tells(g[t], t, kept, l, rs)
      BY <2>2
    <3>2. /\ l \in Nat /\ l + 1 = L + n /\ l + 1 <= Len(rs) /\ kept <= l
          /\ c \in Executed /\ rs[l + 1].call = c /\ rs[l + 1].ts = now
      BY <2>1, <2>3
    <3> HIDE DEF g, c, l
    <3>3. /\ RecordCall(g, c) \in [Tools -> MetricSet]
          /\ \A t \in Tools : Tells(RecordCall(g, c)[t], t, kept, l + 1, rs)
      BY <1>3, <1>4, <3>1, <3>2, CallRecorded
    <3>4. QED BY <2>4, <3>2, <3>3 DEF g, c
  <2>6. QED BY <2>1, <2>5
<1>8. \A n \in 0 .. N : n \in S
  <2>1. 0 \in S
    BY <1>2, <1>6
  <2> HIDE DEF S
  <2>2. QED BY <1>2, <1>7, <2>1, InductionUpTo
<1>9. Right(N)
  BY <1>2, <1>8
<1>10. kept \in 0 .. Len(rs)
  BY <1>2, <1>3, <1>4
<1>11. QED BY <1>1, <1>3, <1>9, <1>10

LEMMA RowsTyped ==
    ASSUME NEW rs \in Seq(RowSet)
    PROVE  \A k \in 1 .. Len(rs) :
              k \in Nat /\ rs[k].call \in Executed /\ rs[k].ts \in Nat
<1>1. \A k \in 1 .. Len(rs) : rs[k] \in RowSet /\ k \in Nat
  OBVIOUS
<1>2. \A r \in RowSet : r.call \in Executed /\ r.ts \in Nat
  BY DEF RowSet
<1>3. QED BY <1>1, <1>2

\* A set of numbers that are enumerated in their order: how many they are, and
\* how many up to each.
LEMMA EnumeratedIsCounted ==
    ASSUME NEW N \in Nat, NEW D, NEW e \in [1 .. N -> D],
           \A v \in D : \E n \in 1 .. N : e[n] = v,
           \A n, k \in 1 .. N : n < k => e[n] # e[k]
    PROVE  Cardinality(D) = N
<1>1. e \in Bijection(1 .. N, D)
  <2>1. \A n, k \in 1 .. N : e[n] = e[k] => n = k
    OBVIOUS
  <2>2. QED BY <2>1 DEF Bijection, Injection, Surjection, IsInjective
<1>2. ExistsBijection(1 .. N, D)
  BY <1>1 DEF ExistsBijection
<1>3. IsFiniteSet(1 .. N) /\ Cardinality(1 .. N) = N
  BY FS_Interval
<1>4. QED BY <1>2, <1>3, FS_Bijection

Upto(D, v) == {j \in D : j <= v}

LEMMA RankIsPlace ==
    ASSUME NEW N \in Nat, NEW D, D \subseteq Nat, NEW e \in [1 .. N -> D],
           \A v \in D : \E n \in 1 .. N : e[n] = v,
           \A n, k \in 1 .. N : n < k => e[n] < e[k],
           NEW k \in 1 .. N
    PROVE  Cardinality(Upto(D, e[k])) = k
<1> DEFINE E == Upto(D, e[k])
           f == [n \in 1 .. k |-> e[n]]
<1>1. \A n \in 1 .. N : e[n] \in Nat /\ e[n] \in D /\ n \in Nat
  <2>1. \A n \in 1 .. N : e[n] \in D /\ n \in Nat
    OBVIOUS
  <2>2. QED BY <2>1
<1>2. \A n \in 1 .. k : n \in 1 .. N /\ f[n] = e[n] /\ (n = k \/ n < k)
  OBVIOUS
<1>3. f \in [1 .. k -> E]
  <2>1. ASSUME NEW n \in 1 .. k PROVE f[n] \in E
    BY <1>1, <1>2 DEF Upto
  <2> HIDE DEF E
  <2>2. QED BY <2>1
<1>4. ASSUME NEW v \in E PROVE \E n \in 1 .. k : f[n] = v
  <2>1. v \in D /\ v <= e[k]
    BY DEF Upto
  <2>2. PICK n \in 1 .. N : e[n] = v
    BY <2>1
  <2>3. ~(k < n)
    BY <1>1, <2>1, <2>2
  <2>4. n \in 1 .. k
    BY <2>3
  <2>5. QED BY <1>2, <2>2, <2>4
<1>5. ASSUME NEW n \in 1 .. k, NEW m \in 1 .. k, n < m PROVE f[n] # f[m]
  <2>1. e[n] < e[m] /\ e[n] \in Nat /\ e[m] \in Nat
    BY <1>1, <1>2, <1>5
  <2>2. QED BY <1>2, <2>1
<1> HIDE DEF E, f
<1>6. k \in Nat
  OBVIOUS
<1>7. Cardinality(E) = k
  BY ONLY <1>3, <1>4, <1>5, <1>6, EnumeratedIsCounted
<1>8. QED BY <1>7 DEF E

MetricsInv ==
    /\ now \in Nat /\ InOrder(rows, now) /\ kept \in 0 .. Len(rows)
    /\ tools \in [Tools -> MetricSet]
    /\ \A t \in Tools : Tells(tools[t], t, kept, Len(rows), rows)

LEMMA MetricsTellRows == MetricsInv => SamplesAreRecentRows
<1> SUFFICES ASSUME MetricsInv, NEW t \in Tools
             PROVE  LET s      == tools[t].samples
                        last   == CHOOSE k \in RowsOf(t) : \A j \in RowsOf(t) : j <= k
                        recent == {k \in RowsOf(t) : rows[k].ts >= rows[last].ts - Window}
                    IN  /\ tools[t].count = Cardinality(RowsOf(t))
                        /\ Len(s) = Cardinality(recent)
                        /\ \A k \in recent :
                              s[Cardinality({j \in recent : j <= k})] =
                                  [value |-> rows[k].call.ms, ts |-> rows[k].ts]
  BY DEF SamplesAreRecentRows
<1> DEFINE s == tools[t].samples
           R == RowsOf(t)
           last == CHOOSE k \in R : \A j \in R : j <= k
           recent == {k \in R : rows[k].ts >= rows[last].ts - Window}
           N == Len(s)
           L == Len(rows)
<1>1. R = RowsAt(t, kept, L, rows)
  BY DEF RowsOf, RowsAt
<1>2. /\ L \in Nat /\ kept \in Nat /\ Window \in Nat
      /\ rows \in Seq(RowSet) /\ s \in Seq(SampleSet) /\ N \in Nat
  BY WindowAssumption DEF MetricsInv, InOrder, MetricSet
<1>3. /\ tools[t].count = Cardinality(R)
      /\ \E e : Enumerates(e, s, R, rows)
  BY <1>1 DEF MetricsInv, Tells
<1>4. PICK e : Enumerates(e, s, R, rows)
  BY <1>3
<1>5. R \subseteq 1 .. L
  BY <1>1, <1>2 DEF RowsAt
<1>6. \A k \in R : k \in Nat /\ k \in 1 .. L /\ rows[k].ts \in Nat
  <2>1. \A k \in 1 .. L : k \in Nat /\ rows[k].ts \in Nat
    BY <1>2, RowsTyped DEF L
  <2>2. QED BY <1>5, <2>1
<1> HIDE DEF R, s, N, L
<1>7. /\ e \in [1 .. N -> R]
      /\ \A n \in 1 .. N : s[n] = Sample(rows[e[n]])
      /\ \A n, k \in 1 .. N : n < k => e[n] < e[k]
      /\ \A r \in R : (\E n \in 1 .. N : e[n] = r)
                         <=> \A j \in R : rows[r].ts >= rows[j].ts - Window
  BY <1>4 DEF Enumerates, N
<1>8. ASSUME NEW r \in R
      PROVE  r \in recent <=> \A j \in R : rows[r].ts >= rows[j].ts - Window
  <2>1. PICK m \in R : \A j \in R : j <= m
    BY <1>2, <1>5, GreatestNumber
  <2>2. last \in R /\ \A j \in R : j <= last
    BY <2>1
  <2> HIDE DEF last
  <2>3. \A j \in R : rows[j].ts <= rows[last].ts
    BY <1>6, <2>2 DEF MetricsInv, InOrder, L
  <2>4. r \in recent <=> rows[r].ts >= rows[last].ts - Window
    OBVIOUS
  <2>5. ASSUME NEW j \in R, rows[r].ts >= rows[last].ts - Window
        PROVE  rows[r].ts >= rows[j].ts - Window
    <3>1. /\ rows[r].ts \in Nat /\ rows[last].ts \in Nat /\ rows[j].ts \in Nat
          /\ rows[j].ts <= rows[last].ts
      BY <1>6, <2>2, <2>3
    <3>2. \A u, v, w, d \in Nat : w <= v /\ u >= v - d => u >= w - d
      OBVIOUS
    <3>3. QED BY ONLY <1>2, <2>5, <3>1, <3>2
  <2>6. QED BY <2>2, <2>4, <2>5
<1>9. recent \subseteq R
  OBVIOUS
<1> HIDE DEF recent
<1>10. ASSUME NEW n \in 1 .. N PROVE e[n] \in recent
  BY <1>7, <1>8
<1>11. e \in [1 .. N -> recent]
  BY <1>7, <1>10
<1>12. ASSUME NEW v \in recent PROVE \E n \in 1 .. N : e[n] = v
  BY <1>7, <1>8, <1>9
<1>13. recent \subseteq Nat
  BY <1>6, <1>9
<1>14. \A n, k \in 1 .. N : n < k => e[n] # e[k]
  <2>1. \A n \in 1 .. N : e[n] \in Nat
    BY <1>11, <1>13
  <2>2. QED BY <1>7, <2>1
<1>15. Cardinality(recent) = N
  BY ONLY <1>2, <1>11, <1>12, <1>14, EnumeratedIsCounted
<1>16. ASSUME NEW k \in recent
       PROVE  s[Cardinality({j \in recent : j <= k})] =
                  [value |-> rows[k].call.ms, ts |-> rows[k].ts]
  <2>1. PICK n \in 1 .. N : e[n] = k
    BY <1>12
  <2>2. Cardinality(Upto(recent, e[n])) = n
    BY <1>2, <1>7, <1>11, <1>12, <1>13, RankIsPlace
  <2>3. s[n] = Sample(rows[k])
    BY <1>7, <2>1
  <2>4. QED BY <2>1, <2>2, <2>3 DEF Sample, Upto
<1>17. QED BY <1>3, <1>15, <1>16 DEF recent, last, R, s, N

\* A process that has recorded nothing.
LEMMA NothingTold ==
    ASSUME NEW t, NEW m \in Int, NEW rs
    PROVE  Tells(NoMetric, t, m, m, rs)
<1>1. RowsAt(t, m, m, rs) = {}
  BY DEF RowsAt
<1>2. Cardinality({}) = 0
  BY FS_EmptySet
<1> DEFINE e == [n \in 1 .. 0 |-> 0]
<1>3. Enumerates(e, <<>>, {}, rs)
  BY DEF Enumerates
<1> HIDE DEF e
<1>4. QED BY <1>1, <1>2, <1>3 DEF Tells, NoMetric

CallsInv ==
    /\ MetricsInv
    /\ start \in 0 .. now
    /\ summaries \in Seq(Executed)
    /\ made \in 0 .. MaxCalls
    /\ restarts \in 0 .. MaxRestarts

LEMMA CallsInit == Init => CallsInv
<1> SUFFICES ASSUME Init PROVE CallsInv
  OBVIOUS
<1>1. now = 0 /\ rows = <<>> /\ kept = 0 /\ tools = [t \in Tools |-> NoMetric]
  BY DEF Init, MetricsInit
<1>2. InOrder(rows, now) /\ Len(rows) = 0
  BY <1>1 DEF InOrder
<1>3. NoMetric \in MetricSet
  BY DEF NoMetric, MetricSet
<1>4. \A t \in Tools : Tells(tools[t], t, kept, Len(rows), rows)
  BY <1>1, <1>2, NothingTold
<1>5. MetricsInv
  BY <1>1, <1>2, <1>3, <1>4 DEF MetricsInv
<1>6. QED BY <1>1, <1>5, CallsAssumption DEF Init, CallsInv

LEMMA MetricsKept ==
    ASSUME MetricsInv, UNCHANGED <<metricsVars, now>>
    PROVE  MetricsInv'
<1>1. now' = now /\ rows' = rows /\ tools' = tools /\ kept' = kept
  BY DEF metricsVars
<1>2. QED BY <1>1 DEF MetricsInv

LEMMA Summarized ==
    ASSUME summaries \in Seq(Executed), NEW tool \in Tools,
           NEW status \in {"completed", "failed"}, NEW ms \in Nat,
           Summarize(tool, status, ms)
    PROVE  summaries' \in Seq(Executed)
<1> DEFINE c == [tool |-> tool, status |-> status, ms |-> ms]
<1>1. c \in Executed
  BY DEF Executed
<1>2. summaries' = Append(summaries, c)
  BY DEF Summarize
<1> HIDE DEF c
<1>3. QED BY <1>1, <1>2

LEMMA CallsNext == CallsInv /\ [Next]_vars => CallsInv'
<1> SUFFICES ASSUME CallsInv, [Next]_vars PROVE CallsInv'
  OBVIOUS
<1>1. /\ MetricsInv /\ now \in Nat /\ start \in 0 .. now /\ summaries \in Seq(Executed)
      /\ made \in 0 .. MaxCalls /\ restarts \in 0 .. MaxRestarts
      /\ MaxCalls \in Nat /\ MaxRestarts \in Nat
      /\ "math_compute" \in Tools /\ "fs_write" \in Tools
  BY CallsAssumption DEF CallsInv, MetricsInv
<1>2. CASE CallMath
  BY <1>1, <1>2, MetricsKept DEF CallMath, CallsInv
<1>3. CASE Step
  BY <1>1, <1>3, MetricsKept DEF Step, callVars, CallsInv
<1>4. CASE MathReturns
  <2>1. now - start \in Nat
    BY <1>1
  <2>2. summaries' \in Seq(Executed)
    BY <1>1, <1>4, <2>1, Summarized DEF MathReturns
  <2>3. /\ UNCHANGED <<metricsVars, now, made, restarts>> /\ start' = 0
    BY <1>4 DEF MathReturns
  <2>4. QED BY <1>1, <2>2, <2>3, MetricsKept DEF CallsInv
<1>5. CASE CallUnknown
  <2>1. summaries' \in Seq(Executed)
    BY <1>1, <1>5, Summarized DEF CallUnknown
  <2>2. /\ UNCHANGED <<metricsVars, now, start, restarts>>
        /\ made < MaxCalls /\ made' = made + 1
    BY <1>5 DEF CallUnknown
  <2>3. QED BY <1>1, <2>1, <2>2, MetricsKept DEF CallsInv
<1>6. CASE Answer
  <2>1. PICK n \in 0 .. Len(summaries) : RecordAll(SubSeq(summaries, 1, n))
    BY <1>6 DEF Answer
  <2>2. SubSeq(summaries, 1, n) \in Seq(Executed)
    BY <1>1
  <2>3. /\ InOrder(rows', now) /\ kept' \in 0 .. Len(rows')
        /\ tools' \in [Tools -> MetricSet]
        /\ \A t \in Tools : Tells(tools'[t], t, kept', Len(rows'), rows')
    BY <1>1, <2>1, <2>2, AllRecorded DEF MetricsInv
  <2>4. /\ UNCHANGED <<now, start, made, restarts>> /\ summaries' = <<>>
    BY <1>6 DEF Answer
  <2>5. MetricsInv'
    BY <1>1, <2>3, <2>4 DEF MetricsInv
  <2>6. QED BY <1>1, <2>4, <2>5 DEF CallsInv
<1>7. CASE Cancel
  BY <1>1, <1>7, MetricsKept DEF Cancel, CallsInv
<1>8. CASE Restart
  <2>1. /\ tools' = [t \in Tools |-> NoMetric] /\ kept' = Len(rows) /\ rows' = rows
        /\ now' = now /\ made' = made /\ start' = 0 /\ summaries' = <<>>
        /\ restarts < MaxRestarts /\ restarts' = restarts + 1
    BY <1>8 DEF Restart, RestartMetrics
  <2>2. InOrder(rows, now) /\ Len(rows) \in Nat
    BY <1>1 DEF MetricsInv, InOrder
  <2>3. NoMetric \in MetricSet
    BY DEF NoMetric, MetricSet
  <2>4. \A t \in Tools : Tells(NoMetric, t, Len(rows), Len(rows), rows)
    BY <2>2, NothingTold
  <2>5. \A t \in Tools : Tells(tools'[t], t, kept', Len(rows'), rows')
    BY <2>1, <2>4
  <2>6. MetricsInv'
    BY <1>1, <2>1, <2>2, <2>3, <2>5 DEF MetricsInv
  <2>7. QED BY <1>1, <2>1, <2>6 DEF CallsInv
<1>9. CASE Tick
  <2>1. /\ now' = now + 1 /\ rows' = rows /\ tools' = tools /\ kept' = kept
        /\ UNCHANGED <<start, summaries, made, restarts>>
    BY <1>9 DEF Tick, metricsVars, callVars
  <2>2. InOrder(rows, now + 1)
    <3>1. InOrder(rows, now) /\ Len(rows) \in Nat
      BY <1>1 DEF MetricsInv, InOrder
    <3>2. \A k \in 1 .. Len(rows) : rows[k].ts \in Nat
      BY <3>1, RowsTyped DEF InOrder
    <3>3. \A k \in 1 .. Len(rows) : rows[k].ts <= now + 1
      BY <1>1, <3>1, <3>2 DEF InOrder
    <3>4. QED BY <3>1, <3>3 DEF InOrder
  <2>3. MetricsInv'
    BY <1>1, <2>1, <2>2 DEF MetricsInv
  <2>4. QED BY <1>1, <2>1, <2>3 DEF CallsInv
<1>10. CASE UNCHANGED vars
  BY <1>1, <1>10, MetricsKept DEF vars, callVars, CallsInv
<1>11. QED
  BY <1>2, <1>3, <1>4, <1>5, <1>6, <1>7, <1>8, <1>9, <1>10 DEF Next

LEMMA CallsInvHolds == Spec => []CallsInv
BY CallsInit, CallsNext, PTL DEF Spec

\* Every variable of the local calls has its type.
THEOREM LocalTypeCorrect == Spec => []TypeOK
<1>1. CallsInv /\ MathInv => TypeOK
  <2> SUFFICES ASSUME CallsInv, MathInv PROVE TypeOK
    OBVIOUS
  <2>1. \A k \in 1 .. Len(rows) : rows[k].call \in Executed /\ rows[k].ts \in Nat
    BY RowsTyped DEF CallsInv, MetricsInv, InOrder
  <2>2. ASSUME NEW t \in Tools
        PROVE  /\ tools[t].count \in Nat /\ tools[t].totalMs \in Nat
               /\ \A k \in 1 .. Len(tools[t].samples) :
                     tools[t].samples[k] \in [value : Nat, ts : Nat]
    <3>1. tools[t] \in MetricSet
      BY DEF CallsInv, MetricsInv
    <3>2. tools[t].count \in Nat /\ tools[t].totalMs \in Nat
      BY <3>1 DEF MetricSet
    <3>3. tools[t].samples \in Seq(SampleSet)
      BY <3>1 DEF MetricSet
    <3>4. \A k \in 1 .. Len(tools[t].samples) : tools[t].samples[k] \in SampleSet
      BY <3>3
    <3>5. QED BY <3>2, <3>4 DEF SampleSet
  <2>3. MetricsTypeOK
    BY <2>1, <2>2 DEF CallsInv, MetricsInv, MetricsTypeOK
  <2>4. QED BY <2>3 DEF TypeOK, CallsInv, MathInv
<1>2. QED BY <1>1, CallsInvHolds, ImplementsMath, MathInvHolds, PTL

\* A tool's count is that of the process's rows of it and its samples are those
\* of them that were within the window at the last, in their order, for any
\* number of calls, times and restarts.
THEOREM SamplesCorrect == Spec => []SamplesAreRecentRows
<1>1. CallsInv => SamplesAreRecentRows
  BY MetricsTellRows DEF CallsInv
<1>2. QED BY <1>1, CallsInvHolds, PTL

-----------------------------------------------------------------------------
(* The percentiles *)

\* p puts the first n of the values v in order.
Sorts(p, v, n) ==
    /\ p \in Bijection(1 .. n, 1 .. n)
    /\ \A j, k \in 1 .. n : j < k => v[p[j]] <= v[p[k]]

\* The value at n is inserted behind those that are no larger.
LEMMA SorterGrows ==
    ASSUME NEW v \in Seq(Nat), NEW n \in 1 .. Len(v), NEW p, Sorts(p, v, n - 1)
    PROVE  \E g : Sorts(g, v, n)
<1> DEFINE T == {m \in 0 .. n - 1 : \A k \in 1 .. n - 1 : k > m => v[p[k]] > v[n]}
<1>1. n \in Nat /\ n >= 1 /\ n - 1 \in Nat /\ v[n] \in Nat
  OBVIOUS
<1>2. /\ p \in [1 .. n - 1 -> 1 .. n - 1]
      /\ \A w \in 1 .. n - 1 : \E k \in 1 .. n - 1 : p[k] = w
      /\ \A j, k \in 1 .. n - 1 : j < k => v[p[j]] <= v[p[k]]
  BY DEF Sorts, Bijection, Surjection, Injection
<1>3. \A k \in 1 .. n - 1 : k \in Nat /\ p[k] \in 1 .. n - 1 /\ v[p[k]] \in Nat
  <2>1. ASSUME NEW k \in 1 .. n - 1 PROVE k \in Nat /\ p[k] \in 1 .. n - 1
    BY <1>2
  <2>2. \A w \in 1 .. n - 1 : v[w] \in Nat
    BY <1>1
  <2>3. QED BY <2>1, <2>2
<1>4. PICK m \in T : \A k \in T : m <= k
  <2>1. n - 1 \in T /\ T \subseteq Nat
    BY <1>1
  <2> HIDE DEF T
  <2>2. QED BY <2>1, LeastNumber
<1>5. /\ m \in Nat /\ m <= n - 1
      /\ \A k \in 1 .. n - 1 : k > m => v[p[k]] > v[n]
  BY <1>1, <1>4
<1>6. ASSUME NEW k \in 1 .. n - 1, k <= m PROVE v[p[k]] <= v[n]
  <2>1. m - 1 \in 0 .. n - 1 /\ m - 1 < m /\ m \in 1 .. n - 1
    BY <1>1, <1>5, <1>6
  <2>2. m - 1 \notin T
    <3> HIDE DEF T
    <3>1. QED BY <1>4, <1>5, <2>1
  <2>3. PICK h \in 1 .. n - 1 : h > m - 1 /\ ~(v[p[h]] > v[n])
    BY <2>1, <2>2
  <2>4. h = m
    BY <1>5, <2>3
  <2>5. v[p[m]] <= v[n]
    BY <1>1, <1>3, <2>1, <2>3, <2>4
  <2>6. v[p[k]] <= v[p[m]]
    <3>1. k = m \/ k < m
      BY <1>5, <1>6
    <3>2. CASE k = m
      BY <1>3, <2>1, <3>2
    <3>3. CASE k < m
      BY <1>2, <1>6, <2>1, <3>3
    <3>4. QED BY <3>1, <3>2, <3>3
  <2>7. v[p[k]] \in Nat /\ v[p[m]] \in Nat
    BY <1>3, <1>6, <2>1
  <2>8. \A u, w, z \in Nat : u <= w /\ w <= z => u <= z
    OBVIOUS
  <2>9. QED BY ONLY <1>1, <2>5, <2>6, <2>7, <2>8
<1> HIDE DEF T
<1> DEFINE g == [k \in 1 .. n |-> IF k <= m THEN p[k]
                                 ELSE IF k = m + 1 THEN n ELSE p[k - 1]]
<1>7. ASSUME NEW k \in 1 .. n
      PROVE  \/ k <= m /\ k \in 1 .. n - 1 /\ g[k] = p[k]
             \/ k = m + 1 /\ g[k] = n
             \/ k > m + 1 /\ k - 1 \in 1 .. n - 1 /\ g[k] = p[k - 1]
  <2>1. k \in Nat /\ 1 <= k /\ k <= n
    BY <1>1
  <2>2. CASE k <= m
    BY <1>5, <2>1, <2>2
  <2>3. CASE k = m + 1
    BY <1>5, <2>1, <2>3
  <2>4. CASE ~(k <= m) /\ k # m + 1
    <3>1. k > m + 1 /\ k - 1 \in 1 .. n - 1
      BY <1>1, <1>5, <2>1, <2>4
    <3>2. QED BY <2>4, <3>1
  <2>5. QED BY <2>2, <2>3, <2>4
<1>8. /\ m + 1 \in 1 .. n /\ g[m + 1] = n
      /\ \A k \in 1 .. n - 1 : k <= m => k \in 1 .. n /\ g[k] = p[k]
      /\ \A k \in 1 .. n - 1 : ~(k <= m) => k + 1 \in 1 .. n /\ g[k + 1] = p[k]
  <2>1. m + 1 \in 1 .. n /\ ~(m + 1 <= m)
    BY <1>1, <1>5
  <2>2. \A k \in 1 .. n - 1 : k \in 1 .. n
    BY <1>1
  <2>3. ASSUME NEW k \in 1 .. n - 1, ~(k <= m)
        PROVE  k + 1 \in 1 .. n /\ g[k + 1] = p[k]
    <3>1. k + 1 \in 1 .. n /\ ~(k + 1 <= m) /\ k + 1 # m + 1 /\ (k + 1) - 1 = k
      BY <1>1, <1>3, <1>5, <2>3
    <3>2. QED BY <3>1
  <2>4. QED BY <2>1, <2>2, <2>3
<1> HIDE DEF g
<1>9. g \in [1 .. n -> 1 .. n]
  <2>1. ASSUME NEW k \in 1 .. n PROVE g[k] \in 1 .. n
    <3>1. 1 .. n - 1 \subseteq 1 .. n /\ n \in 1 .. n
      BY <1>1
    <3>2. QED BY <1>3, <1>7, <2>1, <3>1
  <2>2. g = [k \in 1 .. n |-> g[k]]
    BY DEF g
  <2>3. QED BY <2>1, <2>2
<1>10. ASSUME NEW w \in 1 .. n PROVE \E k \in 1 .. n : g[k] = w
  <2>1. CASE w = n
    BY <1>8, <2>1
  <2>2. CASE w # n
    <3>1. w \in 1 .. n - 1
      BY <1>1, <2>2
    <3>2. PICK k \in 1 .. n - 1 : p[k] = w
      BY <1>2, <3>1
    <3>3. QED BY <1>8, <3>2
  <2>3. QED BY <2>1, <2>2
<1>11. g \in Bijection(1 .. n, 1 .. n)
  <2>1. g \in Surjection(1 .. n, 1 .. n)
    BY <1>9, <1>10 DEF Surjection
  <2>2. IsFiniteSet(1 .. n)
    BY <1>1, FS_Interval
  <2>3. g \in Injection(1 .. n, 1 .. n)
    BY <2>1, <2>2, FS_Surjection
  <2>4. QED BY <2>1, <2>3 DEF Bijection
<1>12. ASSUME NEW j \in 1 .. n, NEW k \in 1 .. n, j < k
       PROVE  v[g[j]] <= v[g[k]]
  <2>1. CASE k <= m /\ k \in 1 .. n - 1 /\ g[k] = p[k]
    <3>1. j <= m /\ j \in 1 .. n - 1
      BY <1>1, <1>5, <1>12, <2>1
    <3>2. g[j] = p[j]
      BY <1>8, <3>1
    <3>3. QED BY <1>2, <1>12, <2>1, <3>1, <3>2
  <2>2. CASE k = m + 1 /\ g[k] = n
    <3>1. j <= m /\ j \in 1 .. n - 1
      BY <1>1, <1>5, <1>12, <2>2
    <3>2. g[j] = p[j]
      BY <1>8, <3>1
    <3>3. QED BY <1>6, <2>2, <3>1, <3>2
  <2>3. CASE k > m + 1 /\ k - 1 \in 1 .. n - 1 /\ g[k] = p[k - 1]
    <3>1. k - 1 > m
      BY <1>5, <2>3
    <3>2. v[g[k]] > v[n] /\ v[g[k]] \in Nat
      BY <1>3, <1>5, <2>3, <3>1
    <3>3. CASE j <= m /\ j \in 1 .. n - 1 /\ g[j] = p[j]
      <4>1. v[g[j]] <= v[n] /\ v[g[j]] \in Nat
        BY <1>3, <1>6, <3>3
      <4>2. v[n] \in Int /\ v[n] <= v[g[k]]
        BY <1>1, <3>2
      <4>3. v[g[j]] \in Int /\ v[g[k]] \in Int
        BY <3>2, <4>1
      <4>4. QED BY ONLY <4>1, <4>2, <4>3, Transitive
    <3>4. CASE j = m + 1 /\ g[j] = n
      BY <1>1, <3>2, <3>4
    <3>5. CASE j > m + 1 /\ j - 1 \in 1 .. n - 1 /\ g[j] = p[j - 1]
      <4>1. j - 1 < k - 1
        BY <1>12
      <4>2. QED BY <1>2, <2>3, <3>5, <4>1
    <3>6. QED BY <1>7, <3>3, <3>4, <3>5
  <2>4. QED BY <1>7, <2>1, <2>2, <2>3
<1>13. Sorts(g, v, n)
  BY <1>11, <1>12 DEF Sorts
<1>14. QED BY <1>13

LEMMA SorterExists ==
    ASSUME NEW v \in Seq(Nat)
    PROVE  \E p : Sorts(p, v, Len(v))
<1> DEFINE S == {n \in 0 .. Len(v) : \E p : Sorts(p, v, n)}
<1>1. 0 \in S
  <2> DEFINE e == [k \in 1 .. 0 |-> 0]
  <2>1. e \in Bijection(1 .. 0, 1 .. 0)
    BY DEF Bijection, Surjection, Injection, IsInjective
  <2>2. Sorts(e, v, 0)
    <3> HIDE DEF e
    <3>1. QED BY <2>1 DEF Sorts
  <2>3. QED BY <2>2
<1>2. ASSUME NEW n \in 1 .. Len(v), n - 1 \in S PROVE n \in S
  <2>1. PICK p : Sorts(p, v, n - 1)
    BY <1>2
  <2>2. \E g : Sorts(g, v, n)
    BY <2>1, SorterGrows
  <2>3. n \in 0 .. Len(v)
    OBVIOUS
  <2>4. QED BY <2>2, <2>3
<1>3. Len(v) \in Nat
  OBVIOUS
<1>4. \A n \in 0 .. Len(v) : n \in S
  <2> HIDE DEF S
  <2>1. QED BY <1>1, <1>2, <1>3, InductionUpTo
<1>5. Len(v) \in S
  BY <1>3, <1>4
<1>6. QED BY <1>5

\* The places of the values v that are no larger than w.
AtMost(v, w) == {k \in 1 .. Len(v) : v[k] <= w}

\* NearestRank, of values.
NearestValue(v, w, pc) ==
    /\ \E k \in 1 .. Len(v) : v[k] = w
    /\ 100 * Cardinality(AtMost(v, w)) >= pc * Len(v)
    /\ \A k \in 1 .. Len(v) :
          v[k] < w => 100 * Cardinality(AtMost(v, v[k])) < pc * Len(v)

LEMMA PercentileIsNearestValue ==
    ASSUME NEW v \in Seq(Nat), v # <<>>, NEW pc \in {50, 95, 99}
    PROVE  NearestValue(v, Percentile(v, pc), pc)
<1> DEFINE N == Len(v)
           p == CHOOSE q \in Bijection(1 .. N, 1 .. N) :
                   \A j, k \in 1 .. N : j < k => v[q[j]] <= v[q[k]]
           idx == (pc * N + 99) \div 100
           w == Percentile(v, pc)
<1>1. N \in Nat /\ N >= 1
  OBVIOUS
<1>2. Sorts(p, v, N)
  <2>1. \E q : Sorts(q, v, N)
    BY SorterExists
  <2>2. \E q \in Bijection(1 .. N, 1 .. N) :
           \A j, k \in 1 .. N : j < k => v[q[j]] <= v[q[k]]
    BY <2>1 DEF Sorts
  <2> HIDE DEF N
  <2>3. QED BY <2>2 DEF Sorts
<1>3. /\ idx \in 1 .. N
      /\ 100 * idx >= pc * N /\ 100 * (idx - 1) < pc * N
  BY <1>1
<1>4. w = v[p[idx]]
  <2>1. Sorted(v) = [k \in 1 .. N |-> v[p[k]]]
    BY DEF Sorted
  <2>2. w = Sorted(v)[idx]
    <3>1. ~(idx < 1)
      BY <1>3
    <3> HIDE DEF idx
    <3>2. QED BY <3>1 DEF Percentile, idx
  <2> HIDE DEF w, p, idx, N
  <2>3. QED BY <1>3, <2>1, <2>2
<1> HIDE DEF w, p, idx
<1>5. /\ p \in [1 .. N -> 1 .. N]
      /\ \A j, k \in 1 .. N : p[j] = p[k] => j = k
      /\ \A k \in 1 .. N : \E j \in 1 .. N : p[j] = k
      /\ \A j, k \in 1 .. N : j < k => v[p[j]] <= v[p[k]]
  <2>1. /\ p \in Injection(1 .. N, 1 .. N) /\ p \in Surjection(1 .. N, 1 .. N)
        /\ \A j, k \in 1 .. N : j < k => v[p[j]] <= v[p[k]]
    BY <1>2 DEF Sorts, Bijection
  <2> HIDE DEF N
  <2>2. p \in [1 .. N -> 1 .. N] /\ \A j, k \in 1 .. N : p[j] = p[k] => j = k
    BY ONLY <2>1 DEF Injection, IsInjective
  <2>3. \A k \in 1 .. N : \E j \in 1 .. N : p[j] = k
    BY ONLY <2>1 DEF Surjection
  <2>4. QED BY <2>1, <2>2, <2>3
<1>6. \A k \in 1 .. N : v[k] \in Nat /\ v[p[k]] \in Nat /\ p[k] \in 1 .. N /\ k \in Nat
  <2>1. \A k \in 1 .. N : v[k] \in Nat /\ k \in Nat
    OBVIOUS
  <2> HIDE DEF N
  <2>2. p \in [1 .. N -> 1 .. N]
    BY <1>5
  <2>3. \A k \in 1 .. N : p[k] \in 1 .. N
    BY ONLY <2>2, Zenon
  <2>4. QED BY <2>1, <2>3
<1> HIDE DEF N
<1>7. w \in Nat /\ idx \in 1 .. N /\ idx \in Nat /\ p[idx] \in 1 .. N
  BY <1>3, <1>4, <1>6
<1>8. \A u : AtMost(v, u) = {k \in 1 .. N : v[k] <= u}
  BY DEF AtMost, N
<1>9. \A u : IsFiniteSet(AtMost(v, u)) /\ Cardinality(AtMost(v, u)) \in Nat
  <2>1. IsFiniteSet(1 .. N)
    BY <1>1, FS_Interval
  <2>2. ASSUME NEW u PROVE IsFiniteSet(AtMost(v, u))
    <3>1. AtMost(v, u) \subseteq 1 .. N
      BY <1>8
    <3>2. QED BY <2>1, <3>1, FS_Subset
  <2>3. QED BY <2>2, FS_CardinalityType
\* The first idx of the sorted are no larger than the last of them.
<1>10. idx <= Cardinality(AtMost(v, w))
  <2> DEFINE f == [j \in 1 .. idx |-> p[j]]
  <2>1. \A j \in 1 .. idx : j \in 1 .. N /\ f[j] = p[j] /\ (j = idx \/ j < idx)
    BY <1>1, <1>3, <1>7
  <2>2. ASSUME NEW j \in 1 .. idx PROVE f[j] \in AtMost(v, w)
    <3>1. v[p[j]] <= v[p[idx]]
      <4>1. CASE j = idx
        BY <1>6, <1>7, <4>1
      <4>2. CASE j < idx
        BY <1>5, <1>7, <2>1, <2>2, <4>2
      <4>3. QED BY <2>1, <2>2, <4>1, <4>2
    <3>2. QED BY <1>4, <1>6, <1>8, <2>1, <3>1
  <2>3. f \in [1 .. idx -> AtMost(v, w)]
    BY <2>2
  <2>4. \A j, k \in 1 .. idx : f[j] = f[k] => j = k
    BY <1>5, <2>1
  <2> HIDE DEF f
  <2>5. f \in Injection(1 .. idx, AtMost(v, w))
    BY <2>3, <2>4 DEF Injection, IsInjective
  <2>6. Cardinality(1 .. idx) = idx
    BY <1>7, FS_Interval
  <2>7. QED BY <1>9, <2>5, <2>6, FS_Injection
\* What is no larger than a smaller one is before it.
<1>11. ASSUME NEW k \in 1 .. N, v[k] < w
       PROVE  Cardinality(AtMost(v, v[k])) <= idx - 1
  <2> DEFINE A == AtMost(v, v[k])
             f == [u \in A |-> CHOOSE j \in 1 .. N : p[j] = u]
  <2>1. ASSUME NEW u \in A
        PROVE  f[u] \in 1 .. idx - 1 /\ p[f[u]] = u
    <3>1. u \in 1 .. N /\ v[u] <= v[k]
      BY <1>8
    <3>2. f[u] \in 1 .. N /\ p[f[u]] = u
      BY <1>5, <3>1
    <3> HIDE DEF f, A
    <3>3. ~(idx <= f[u])
      <4> SUFFICES ASSUME idx <= f[u] PROVE FALSE
        OBVIOUS
      <4>1. idx = f[u] \/ idx < f[u]
        BY <1>6, <1>7, <3>2
      <4>2. v[p[idx]] <= v[p[f[u]]]
        <5>1. CASE idx = f[u]
          BY <1>6, <1>7, <5>1
        <5>2. CASE idx < f[u]
          BY <1>5, <1>7, <3>2, <5>2
        <5>3. QED BY <4>1, <5>1, <5>2
      <4>3. w <= v[u] /\ v[u] \in Nat /\ v[k] \in Nat
        BY <1>4, <1>6, <1>11, <3>1, <3>2, <4>2
      <4>4. QED BY <1>7, <1>11, <3>1, <4>3
    <3>4. QED BY <1>1, <1>7, <3>2, <3>3
  <2>2. f \in [A -> 1 .. idx - 1]
    <3>1. f = [u \in A |-> f[u]]
      OBVIOUS
    <3> HIDE DEF f, A
    <3>2. QED BY <2>1, <3>1
  <2> HIDE DEF f, A
  <2>3. f \in Injection(A, 1 .. idx - 1)
    BY <2>1, <2>2 DEF Injection, IsInjective
  <2>4. IsFiniteSet(1 .. idx - 1) /\ Cardinality(1 .. idx - 1) = idx - 1
    BY <1>7, FS_Interval
  <2>5. QED BY <2>3, <2>4, FS_Injection DEF A
<1>12. \E k \in 1 .. N : v[k] = w
  BY <1>4, <1>7
<1>13. 100 * Cardinality(AtMost(v, w)) >= pc * N
  <2>1. pc * N \in Nat /\ Cardinality(AtMost(v, w)) \in Nat
    BY <1>1, <1>9
  <2>2. \A c, d, m \in Nat : d <= c /\ 100 * d >= m => 100 * c >= m
    OBVIOUS
  <2>3. QED BY <1>3, <1>7, <1>10, <2>1, <2>2
<1>14. ASSUME NEW k \in 1 .. N, v[k] < w
       PROVE  100 * Cardinality(AtMost(v, v[k])) < pc * N
  <2>1. pc * N \in Nat /\ Cardinality(AtMost(v, v[k])) \in Nat
    BY <1>1, <1>9
  <2>2. Cardinality(AtMost(v, v[k])) <= idx - 1
    BY <1>11, <1>14
  <2>3. \A c, d, m \in Nat : c <= d - 1 /\ 100 * (d - 1) < m => 100 * c < m
    OBVIOUS
  <2>4. QED BY <1>3, <1>7, <2>1, <2>2, <2>3
<1>15. QED BY <1>12, <1>13, <1>14 DEF NearestValue, w, N

LEMMA SamplesRanked ==
    ASSUME NEW q \in Seq(SampleSet), q # <<>>, NEW pc \in {50, 95, 99}
    PROVE  NearestRank(q, Percentile([k \in 1 .. Len(q) |-> q[k].value], pc), pc)
<1> DEFINE vals == [k \in 1 .. Len(q) |-> q[k].value]
           w == Percentile(vals, pc)
<1>1. \A k \in 1 .. Len(q) : q[k].value \in Nat
  <2>1. \A k \in 1 .. Len(q) : q[k] \in SampleSet
    OBVIOUS
  <2>2. \A u \in SampleSet : u.value \in Nat
    BY DEF SampleSet
  <2>3. QED BY <2>1, <2>2
<1>2. Len(q) \in Nat /\ Len(q) # 0
  OBVIOUS
<1>3. /\ vals \in Seq(Nat) /\ Len(vals) = Len(q) /\ vals # <<>>
      /\ \A k \in 1 .. Len(q) : vals[k] = q[k].value
  <2>1. vals \in [1 .. Len(q) -> Nat]
    BY <1>1
  <2>2. vals \in Seq(Nat) /\ Len(vals) = Len(q)
    BY <1>2, <2>1
  <2>3. \A k \in 1 .. Len(q) : vals[k] = q[k].value
    OBVIOUS
  <2> HIDE DEF vals
  <2>4. QED BY <1>2, <2>2, <2>3
<1> HIDE DEF vals
<1>4. /\ \E k \in 1 .. Len(vals) : vals[k] = w
      /\ 100 * Cardinality(AtMost(vals, w)) >= pc * Len(vals)
      /\ \A k \in 1 .. Len(vals) : vals[k] < w =>
            100 * Cardinality(AtMost(vals, vals[k])) < pc * Len(vals)
  <2>1. NearestValue(vals, Percentile(vals, pc), pc)
    BY <1>3, PercentileIsNearestValue
  <2>2. NearestValue(vals, w, pc)
    BY <2>1
  <2> HIDE DEF w
  <2>3. QED BY <2>2 DEF NearestValue
<1> HIDE DEF w
<1>5. ASSUME NEW u PROVE Cardinality(AtMost(vals, u)) = Rank(q, u)
  <2>1. AtMost(vals, u) = {k \in 1 .. Len(q) : q[k].value <= u}
    BY <1>3 DEF AtMost
  <2>2. QED BY <2>1 DEF Rank
<1>6. NearestRank(q, w, pc)
  <2>1. \E k \in 1 .. Len(q) : q[k].value = w
    <3>1. PICK k \in 1 .. Len(vals) : vals[k] = w
      BY <1>4
    <3>2. k \in 1 .. Len(q) /\ q[k].value = w
      BY ONLY <1>3, <3>1
    <3>3. QED BY <3>2
  <2>2. 100 * Rank(q, w) >= pc * Len(q)
    BY ONLY <1>3, <1>4, <1>5
  <2>3. ASSUME NEW k \in 1 .. Len(q), q[k].value < w
        PROVE  100 * Rank(q, q[k].value) < pc * Len(q)
    BY ONLY <1>3, <1>4, <1>5, <2>3
  <2>4. QED BY ONLY <2>1, <2>2, <2>3 DEF NearestRank
<1>7. QED BY ONLY <1>6 DEF w, vals

\* p50, p95 and p99 are the nearest ranks of any number of samples.
THEOREM PercentilesCorrect == Spec => []PercentilesAreNearestRank
<1>1. CallsInv => PercentilesAreNearestRank
  <2> SUFFICES ASSUME CallsInv PROVE PercentilesAreNearestRank
    OBVIOUS
  <2>1. ASSUME NEW t \in Tools, tools[t].samples # <<>>, NEW pc \in {50, 95, 99}
        PROVE  LET q == tools[t].samples
               IN  NearestRank(q, Percentile([k \in 1 .. Len(q) |-> q[k].value], pc), pc)
    <3> DEFINE q == tools[t].samples
    <3>1. q \in Seq(SampleSet)
      BY DEF CallsInv, MetricsInv, MetricSet
    <3>2. q # <<>>
      BY <2>1
    <3> HIDE DEF q
    <3>3. NearestRank(q, Percentile([k \in 1 .. Len(q) |-> q[k].value], pc), pc)
      BY <3>1, <3>2, SamplesRanked
    <3>4. QED BY <3>3 DEF q
  <2>2. \A t \in Tools :
           LET q     == tools[t].samples
               stats == Stats(q)
           IN  q # <<>> => /\ NearestRank(q, stats.p50, 50)
                           /\ NearestRank(q, stats.p95, 95)
                           /\ NearestRank(q, stats.p99, 99)
    BY <2>1 DEF Stats
  <2>3. QED BY ONLY <2>2 DEF PercentilesAreNearestRank
<1>2. QED BY <1>1, CallsInvHolds, PTL
=============================================================================
