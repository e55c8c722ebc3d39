---------------------------- MODULE MathCompute -----------------------------
(***************************************************************************)
(* The operations of math_compute that loop: mathCompute                   *)
(* (src/src/tools/math-compute.ts), whose loops the scripts that           *)
(* PodExecutor builds for a pod (src/src/sandbox/pod-executor.ts) repeat.  *)
(*                                                                         *)
(* The arguments are integers: the code rounds them down first.  A step is *)
(* one test of a loop with its body.                                       *)
(***************************************************************************)
EXTENDS Integers, FiniteSets

CONSTANTS
    Inputs,         \* the argument of an operation of one
    Pairs,          \* the arguments of an operation of two
    FactorialMax,   \* 1000
    FibonacciMax    \* 10_000

ASSUME InputsAssumption == Inputs \subseteq Int /\ Pairs \subseteq Int \X Int

VARIABLES
    phase,      \* the loop runs, or how the call has ended
    op,         \* the operation
    a, b,       \* its arguments
    x, y, i     \* the loop's variables; x is the result

mathVars == <<phase, op, a, b, x, y, i>>

Operations == {"none", "modulo", "factorial", "fibonacci", "is_prime", "gcd"}

MathTypeOK ==
    /\ phase \in {"idle", "loop", "number", "true", "false", "threw"}
    /\ op \in Operations
    /\ a \in Int /\ b \in Int
    /\ x \in Int /\ y \in Int /\ i \in Int

MathInit ==
    /\ phase = "idle" /\ op = "none"
    /\ a = 0 /\ b = 0 /\ x = 0 /\ y = 0 /\ i = 0

-----------------------------------------------------------------------------
Abs(n) == IF n < 0 THEN -n ELSE n

\* The operator % of JavaScript: the result has the sign of the dividend.
Remainder(p, q) == IF p < 0 THEN -(Abs(p) % Abs(q)) ELSE p % Abs(q)

Enter(o, p, q, next, x0, y0, i0) ==
    /\ op' = o /\ a' = p /\ b' = q
    /\ phase' = next
    /\ x' = x0 /\ y' = y0 /\ i' = i0

\* Mutant: zero is not refused; the result is NaN.
ModuloUnchecked(p, q) ==
    IF q = 0 THEN Enter("modulo", p, q, "NaN", 0, 0, 0)
             ELSE Enter("modulo", p, q, "number", Remainder(p, q), 0, 0)

Modulo(p, q) ==
    IF q = 0 THEN Enter("modulo", p, q, "threw", 0, 0, 0)
             ELSE Enter("modulo", p, q, "number", Remainder(p, q), 0, 0)

Factorial(n) ==
    Enter("factorial", n, 0,
          IF n < 0 \/ n > FactorialMax THEN "threw" ELSE "loop", 1, 0, 2)

Fibonacci(n) ==
    Enter("fibonacci", n, 0,
          IF n < 0 \/ n > FibonacciMax THEN "threw" ELSE "loop", 0, 1, 0)

IsPrime(n) == Enter("is_prime", n, 0, IF n < 2 THEN "false" ELSE "loop", 0, 0, 2)

Gcd(p, q) == Enter("gcd", p, q, "loop", Abs(p), Abs(q), 0)

\* mathCompute is called.
Compute ==
    /\ phase = "idle"
    /\ \/ \E p \in Pairs : Modulo(p[1], p[2]) \/ Gcd(p[1], p[2])
       \/ \E n \in Inputs : Factorial(n) \/ Fibonacci(n) \/ IsPrime(n)

-----------------------------------------------------------------------------
Ends(how) == phase' = how /\ UNCHANGED <<x, y, i>>

\* Mutant: the last factor is left out.
FactorialLoopShort ==
    \/ i < a /\ x' = x * i /\ i' = i + 1 /\ UNCHANGED <<phase, y>>
    \/ i >= a /\ Ends("number")

\* for (let i = 2n; i <= BigInt(n); i++) f *= i
FactorialLoop ==
    \/ i <= a /\ x' = x * i /\ i' = i + 1 /\ UNCHANGED <<phase, y>>
    \/ i > a /\ Ends("number")

\* for (let i = 0; i < n; i++) { const t = x + y; x = y; y = t; }
FibonacciLoop ==
    \/ i < a /\ x' = y /\ y' = x + y /\ i' = i + 1 /\ UNCHANGED phase
    \/ i >= a /\ Ends("number")

\* Mutant: i < Math.sqrt(n).
IsPrimeLoopShort ==
    \/ i * i < a /\ a % i = 0 /\ Ends("false")
    \/ i * i < a /\ a % i # 0 /\ i' = i + 1 /\ UNCHANGED <<phase, x, y>>
    \/ i * i >= a /\ Ends("true")

\* Mutant: i is not incremented.
IsPrimeLoopStuck ==
    \/ i * i <= a /\ a % i = 0 /\ Ends("false")
    \/ i * i <= a /\ a % i # 0 /\ UNCHANGED <<phase, x, y, i>>
    \/ i * i > a /\ Ends("true")

\* for (let i = 2; i <= Math.sqrt(n); i++) { if (n % i === 0) return "false"; }
IsPrimeLoop ==
    \/ i * i <= a /\ a % i = 0 /\ Ends("false")
    \/ i * i <= a /\ a % i # 0 /\ i' = i + 1 /\ UNCHANGED <<phase, x, y>>
    \/ i * i > a /\ Ends("true")

\* Mutant: x is assigned before the remainder is taken.
GcdLoopSwapped ==
    \/ y # 0 /\ x' = y /\ y' = x' % y /\ UNCHANGED <<phase, i>>
    \/ y = 0 /\ Ends("number")

\* while (y) { const t = y; y = x % y; x = t; }
GcdLoop ==
    \/ y # 0 /\ y' = x % y /\ x' = y /\ UNCHANGED <<phase, i>>
    \/ y = 0 /\ Ends("number")

Loop ==
    /\ phase = "loop"
    /\ \/ op = "factorial" /\ FactorialLoop
       \/ op = "fibonacci" /\ FibonacciLoop
       \/ op = "is_prime" /\ IsPrimeLoop
       \/ op = "gcd" /\ GcdLoop
    /\ UNCHANGED <<op, a, b>>

\* The process that computes ends.
Stop == Enter("none", 0, 0, "idle", 0, 0, 0)

\* The caller has the result, or the error.
Return ==
    /\ phase \in {"number", "true", "false", "threw"}
    /\ Stop

MathNext == Compute \/ Loop \/ Return \/ Stop

MathSpec == MathInit /\ [][MathNext]_mathVars

-----------------------------------------------------------------------------
(* Properties: the results against what they are by definition *)

Divides(d, n) == n % d = 0

\* The result of gcd is a common divisor, and every common divisor divides it;
\* that of two zeros is zero.
GcdIsGreatest ==
    op = "gcd" /\ phase = "number" =>
        IF a = 0 /\ b = 0 THEN x = 0
        ELSE /\ x > 0 /\ Divides(x, Abs(a)) /\ Divides(x, Abs(b))
             /\ \A d \in 1 .. (Abs(a) + Abs(b)) :
                    Divides(d, Abs(a)) /\ Divides(d, Abs(b)) => Divides(d, x)

\* is_prime tries no divisor above the square root, and finds out whether there
\* is one at all.
PrimeHasNoDivisor ==
    op = "is_prime" =>
        /\ phase = "true" =>
              a > 1 /\ \A d \in 2 .. (a - 1) : ~Divides(d, a)
        /\ phase = "false" =>
              a < 2 \/ \E d \in 2 .. (a - 1) : Divides(d, a)

\* factorial counts the permutations of n things, fibonacci the sets of numbers
\* below n - 1 of which no two are neighbours.
CountsAsDefined ==
    phase = "number" =>
        /\ op = "factorial" =>
              x = Cardinality({f \in [1 .. a -> 1 .. a] :
                                  \A j, k \in 1 .. a : f[j] = f[k] => j = k})
        /\ op = "fibonacci" =>
              x = IF a = 0 THEN 0
                  ELSE Cardinality({S \in SUBSET (1 .. (a - 2)) :
                                        \A k \in S : k + 1 \notin S})
=============================================================================
