--------------------------- MODULE ChatPageProofs ---------------------------
(***************************************************************************)
(* Proofs about ChatPage and its rate limiter, for any messages, sessions, *)
(* limits and windows, any order of answers, and any failures.             *)
(***************************************************************************)
EXTENDS ChatPage, TLAPS, FiniteSetTheorems, WellFoundedInduction

-----------------------------------------------------------------------------
(* Induction up to a number, over the set of those that have the property *)

LEMMA LeastNumber ==
    ASSUME NEW T, T \subseteq Nat, T # {}
    PROVE  \E m \in T : \A n \in T : m <= n
<1>1. PICK m \in T : \A n \in T : <<n, m>> \notin OpToRel(<, Nat)
  BY NatLessThanWellFounded, WFMin
<1>2. ASSUME NEW n \in T PROVE m <= n
  <2>1. m \in Nat /\ n \in Nat /\ <<n, m>> \in Nat \X Nat
    BY <1>1
  <2>2. ~(n < m)
    BY <1>1, <2>1 DEF OpToRel
  <2>3. QED BY <2>1, <2>2
<1>3. QED BY <1>1, <1>2

LEMMA InductionUpTo ==
    ASSUME NEW L \in Nat, NEW S, 0 \in S,
           \A n \in 1 .. L : n - 1 \in S => n \in S
    PROVE  \A n \in 0 .. L : n \in S
<1> DEFINE T == (0 .. L) \ S
<1> SUFFICES ASSUME T # {} PROVE FALSE
  OBVIOUS
<1>1. PICK m \in T : \A n \in T : m <= n
  <2>1. T \subseteq Nat
    OBVIOUS
  <2> HIDE DEF T
  <2>2. QED BY <2>1, LeastNumber
<1>2. m \in 1 .. L
  BY <1>1
<1>3. m - 1 \in S
  BY <1>1, <1>2
<1>4. QED BY <1>1, <1>2, <1>3

-----------------------------------------------------------------------------
(* The rate limiter *)

\* What is kept of the first n of times.
KeptStep(times, f, n) ==
    IF n = 0 THEN <<>>
    ELSE IF now - times[n] < RateWindow THEN Append(f[n - 1], times[n])
    ELSE f[n - 1]

LEMMA KeptExists ==
    ASSUME NEW q, NEW L \in Nat
    PROVE  \E f : f = [n \in 0 .. L |-> KeptStep(q, f, n)]
<1> DEFINE S == {k \in 0 .. L : \E f : f = [n \in 0 .. k |-> KeptStep(q, f, n)]}
<1>1. 0 \in S
  <2> DEFINE f == [n \in 0 .. 0 |-> <<>>]
  <2>1. f = [n \in 0 .. 0 |-> KeptStep(q, f, n)]
    BY DEF KeptStep
  <2>2. QED BY <2>1
<1>2. ASSUME NEW k \in 1 .. L, k - 1 \in S PROVE k \in S
  <2>1. PICK f : f = [n \in 0 .. k - 1 |-> KeptStep(q, f, n)]
    BY <1>2
  <2> DEFINE g == [n \in 0 .. k |-> IF n = k THEN KeptStep(q, f, n) ELSE f[n]]
  <2>2. ASSUME NEW n \in 0 .. k PROVE g[n] = KeptStep(q, g, n)
    <3>1. CASE n = 0
      <4>1. g[n] = f[0]
        BY <3>1
      <4>2. f[0] = KeptStep(q, f, 0)
        BY <2>1
      <4>3. QED BY <3>1, <4>1, <4>2 DEF KeptStep
    <3>2. CASE n # 0
      <4>1. n - 1 \in 0 .. k - 1 /\ n - 1 \in 0 .. k /\ n - 1 # k
        BY <3>2
      <4>2. g[n - 1] = f[n - 1]
        BY <4>1
      <4>3. g[n] = KeptStep(q, f, n)
        <5>1. CASE n = k
          BY <5>1
        <5>2. CASE n # k
          <6>1. n \in 0 .. k - 1
            BY <5>2
          <6>2. g[n] = f[n]
            BY <5>2
          <6>3. f[n] = KeptStep(q, f, n)
            BY <2>1, <6>1
          <6>4. QED BY <6>2, <6>3
        <5>3. QED BY <5>1, <5>2
      <4>4. KeptStep(q, f, n) = KeptStep(q, g, n)
        BY <4>2 DEF KeptStep
      <4>5. QED BY <4>3, <4>4
    <3>3. QED BY <3>1, <3>2
  <2>3. g = [n \in 0 .. k |-> g[n]]
    OBVIOUS
  <2> HIDE DEF g
  <2>4. g = [n \in 0 .. k |-> KeptStep(q, g, n)]
    BY <2>2, <2>3
  <2>5. QED BY <2>4
<1>3. \A k \in 0 .. L : k \in S
  <2> HIDE DEF S
  <2>1. QED BY <1>1, <1>2, InductionUpTo
<1>4. L \in S
  BY <1>3
<1>5. QED BY <1>4

LEMMA RecentIsKept ==
    ASSUME NEW q, Len(q) \in Nat
    PROVE  \E f : /\ Recent(q) = f[Len(q)]
                  /\ \A n \in 0 .. Len(q) : f[n] = KeptStep(q, f, n)
<1> DEFINE kept == CHOOSE f : f = [n \in 0 .. Len(q) |-> KeptStep(q, f, n)]
<1>1. kept = [n \in 0 .. Len(q) |-> KeptStep(q, kept, n)]
  BY KeptExists
<1>2. Recent(q) = kept[Len(q)]
  BY DEF Recent, KeptStep
<1> HIDE DEF kept
<1>3. QED BY <1>1, <1>2

\* r is what is left of the first k of times without the first c of them: those
\* that are not in the window any more.
KeepsLast(times, k, r, c) ==
    /\ c \in 0 .. k
    /\ r \in Seq(0 .. MaxTime) /\ Len(r) = k - c
    /\ \A i \in 1 .. k - c : r[i] = times[c + i]
    /\ \A i \in 1 .. c : ~(now - times[i] < RateWindow)
    /\ \A i \in c + 1 .. k : now - times[i] < RateWindow

LEMMA KeepsNext ==
    ASSUME NEW q \in Seq(0 .. MaxTime), now \in 0 .. MaxTime,
           \A i, j \in 1 .. Len(q) : i <= j => q[i] <= q[j],
           NEW k \in 1 .. Len(q), NEW r, NEW c, KeepsLast(q, k - 1, r, c)
    PROVE  IF now - q[k] < RateWindow THEN KeepsLast(q, k, Append(r, q[k]), c)
           ELSE KeepsLast(q, k, r, k)
<1>1. /\ Len(q) \in Nat /\ k \in Nat /\ now \in Int /\ RateWindow \in Nat
      /\ \A i \in 1 .. Len(q) : q[i] \in 0 .. MaxTime /\ q[i] \in Int
  BY RateAssumption
<1>2. CASE now - q[k] < RateWindow
  <2> DEFINE t == q[k]
  <2>1. t \in 0 .. MaxTime
    BY <1>1
  <2> DEFINE s == Append(r, t)
  <2>2. /\ r \in Seq(0 .. MaxTime) /\ Len(r) = k - 1 - c /\ c \in 0 .. k - 1
    BY DEF KeepsLast
  <2> HIDE DEF t
  <2>3. /\ s \in Seq(0 .. MaxTime) /\ Len(s) = k - c /\ s[k - c] = t
        /\ \A i \in 1 .. k - 1 - c : s[i] = r[i]
    BY <1>1, <2>1, <2>2
  <2> HIDE DEF s
  <2>4. ASSUME NEW i \in 1 .. k - c PROVE s[i] = q[c + i]
    <3>1. CASE i = k - c
      BY <1>1, <2>2, <2>3, <3>1 DEF t
    <3>2. CASE i # k - c
      <4>1. i \in 1 .. k - 1 - c
        BY <1>1, <2>2, <3>2
      <4>2. QED BY <2>3, <4>1 DEF KeepsLast
    <3>3. QED BY <3>1, <3>2
  <2>5. ASSUME NEW i \in c + 1 .. k PROVE now - q[i] < RateWindow
    <3>1. i = k \/ i \in c + 1 .. k - 1
      BY <1>1, <2>2
    <3>2. QED BY <1>2, <3>1 DEF KeepsLast
  <2>6. c \in 0 .. k /\ \A i \in 1 .. c : ~(now - q[i] < RateWindow)
    BY <1>1, <2>2 DEF KeepsLast
  <2>7. KeepsLast(q, k, s, c)
    BY <2>3, <2>4, <2>5, <2>6 DEF KeepsLast
  <2>8. QED BY <1>2, <2>7 DEF s, t
<1>3. CASE ~(now - q[k] < RateWindow)
  <2>1. /\ r \in Seq(0 .. MaxTime) /\ Len(r) = k - 1 - c /\ c \in 0 .. k - 1
    BY DEF KeepsLast
  <2>2. ASSUME NEW i \in 1 .. k PROVE ~(now - q[i] < RateWindow)
    <3>1. q[i] <= q[k] /\ q[i] \in Int /\ q[k] \in Int
      BY <1>1
    <3>2. QED BY <1>1, <1>3, <3>1
  <2>3. c = k - 1
    <3>1. CASE c # k - 1
      <4>1. k - 1 \in c + 1 .. k - 1 /\ k - 1 \in 1 .. k
        BY <1>1, <2>1, <3>1
      <4>2. now - q[k - 1] < RateWindow
        BY <4>1 DEF KeepsLast
      <4>3. QED BY <2>2, <4>1, <4>2
    <3>2. QED BY <3>1
  <2>4. Len(r) = 0 /\ k - k = 0 /\ k \in 0 .. k
    BY <1>1, <2>1, <2>3
  <2>5. \A i \in 1 .. 0 : r[i] = q[k + i]
    OBVIOUS
  <2>6. \A i \in k + 1 .. k : now - q[i] < RateWindow
    BY <1>1
  <2>7. KeepsLast(q, k, r, k)
    BY <2>1, <2>2, <2>4, <2>5, <2>6 DEF KeepsLast
  <2>8. QED BY <1>3, <2>7
<1>4. QED BY <1>2, <1>3

\* Of times that do not decrease, filter keeps the last ones.
LEMMA RecentKeepsLast ==
    ASSUME NEW q \in Seq(0 .. MaxTime), now \in 0 .. MaxTime,
           \A i, j \in 1 .. Len(q) : i <= j => q[i] <= q[j]
    PROVE  \E c : KeepsLast(q, Len(q), Recent(q), c)
<1> DEFINE L == Len(q)
<1>1. L \in Nat
  OBVIOUS
<1>2. PICK f : /\ Recent(q) = f[L]
               /\ \A n \in 0 .. L : f[n] = KeptStep(q, f, n)
  BY <1>1, RecentIsKept
<1> DEFINE S == {n \in 0 .. L : \E c : KeepsLast(q, n, f[n], c)}
<1>3. 0 \in S
  <2>1. f[0] = <<>>
    BY <1>1, <1>2 DEF KeptStep
  <2>2. <<>> \in Seq(0 .. MaxTime) /\ Len(<<>>) = 0 - 0
    OBVIOUS
  <2>3. KeepsLast(q, 0, <<>>, 0)
    BY <2>2 DEF KeepsLast
  <2>4. QED BY <1>1, <2>1, <2>3
<1>4. ASSUME NEW k \in 1 .. L, k - 1 \in S PROVE k \in S
  <2>1. PICK c : KeepsLast(q, k - 1, f[k - 1], c)
    BY <1>4
  <2>2. IF now - q[k] < RateWindow
        THEN KeepsLast(q, k, Append(f[k - 1], q[k]), c)
        ELSE KeepsLast(q, k, f[k - 1], k)
    BY <2>1, KeepsNext
  <2>3. f[k] = IF now - q[k] < RateWindow THEN Append(f[k - 1], q[k])
               ELSE f[k - 1]
    <3>1. k \in 0 .. L /\ k # 0
      BY <1>1
    <3>2. QED BY <1>2, <3>1 DEF KeptStep
  <2>4. \E d : KeepsLast(q, k, f[k], d)
    BY <2>2, <2>3
  <2>5. QED BY <1>1, <2>4
<1> HIDE DEF S
<1>5. \A n \in 0 .. L : n \in S
  BY <1>1, <1>3, <1>4, InductionUpTo
<1>6. L \in S
  BY <1>1, <1>5
<1>7. QED BY <1>2, <1>6 DEF S

\* Behind what is left of the hits are the last requests, and those before them
\* are out of the window.
HitsAreLatest ==
    /\ \A i, j \in 1 .. Len(handled) : i <= j => handled[i].at <= handled[j].at
    /\ \A i \in 1 .. Len(handled) : handled[i].at <= now
    /\ Len(hits) <= Len(handled)
    /\ \A i \in 1 .. Len(hits) :
          hits[i] = handled[Len(handled) - Len(hits) + i].at
    /\ \A i \in 1 .. Len(handled) - Len(hits) :
          ~(now - handled[i].at < RateWindow)

LimiterInv == LimiterTypeOK /\ HitsAreLatest /\ RefusedExactlyOverLimit

LEMMA RequestsTyped ==
    ASSUME LimiterInv
    PROVE  /\ Len(handled) \in Nat /\ Len(hits) \in Nat
           /\ \A i \in 1 .. Len(handled) :
                 /\ handled[i] \in [at : 0 .. MaxTime, refused : BOOLEAN]
                 /\ handled[i].at \in 0 .. MaxTime /\ handled[i].at \in Int
<1> DEFINE R == [at : 0 .. MaxTime, refused : BOOLEAN]
<1>1. handled \in Seq(R) /\ hits \in Seq(0 .. MaxTime)
  BY DEF LimiterInv, LimiterTypeOK
<1>2. /\ Len(handled) \in Nat /\ Len(hits) \in Nat
      /\ \A i \in 1 .. Len(handled) : handled[i] \in R
  <2> HIDE DEF R
  <2>1. QED BY <1>1
<1>3. \A x \in R : x.at \in 0 .. MaxTime /\ x.at \in Int
  BY RateAssumption
<1>4. QED BY <1>2, <1>3

LEMMA LimiterStarts ==
    ASSUME LimiterInit
    PROVE  LimiterInv
<1>1. /\ hits = <<>> /\ Len(hits) = 0 /\ handled = <<>> /\ Len(handled) = 0
      /\ now = 0
  BY DEF LimiterInit
<1>2. LimiterTypeOK
  BY <1>1, RateAssumption DEF LimiterTypeOK
<1>3. HitsAreLatest
  BY <1>1 DEF HitsAreLatest
<1>4. RefusedExactlyOverLimit
  BY <1>1 DEF RefusedExactlyOverLimit
<1>5. QED BY <1>2, <1>3, <1>4 DEF LimiterInv

LEMMA LimiterTicks ==
    ASSUME LimiterInv, Tick
    PROVE  LimiterInv'
<1>1. /\ now' = now + 1 /\ now < MaxTime /\ hits' = hits /\ handled' = handled
      /\ now \in 0 .. MaxTime /\ RateWindow \in Nat /\ MaxTime \in Nat
  BY RateAssumption DEF Tick, LimiterInv, LimiterTypeOK
<1>2. LimiterTypeOK'
  <2>1. now' \in 0 .. MaxTime
    BY <1>1
  <2>2. QED BY <1>1, <2>1 DEF LimiterInv, LimiterTypeOK
<1>3. HitsAreLatest'
  <2>1. /\ Len(handled) \in Nat /\ Len(hits) \in Nat
        /\ \A i \in 1 .. Len(handled) : handled[i].at \in Int
    BY RequestsTyped
  <2>2. \A i \in 1 .. Len(handled) : handled[i].at <= now + 1
    BY <1>1, <2>1 DEF LimiterInv, HitsAreLatest
  <2>3. ASSUME NEW i \in 1 .. Len(handled) - Len(hits)
        PROVE  ~(now' - handled[i].at < RateWindow)
    <3>1. i \in 1 .. Len(handled) /\ ~(now - handled[i].at < RateWindow)
      BY <2>1 DEF LimiterInv, HitsAreLatest
    <3>2. handled[i].at \in Int
      BY <2>1, <3>1
    <3>3. QED BY <1>1, <3>1, <3>2
  <2>4. \A i \in 1 .. Len(handled) : handled[i].at <= now'
    BY <1>1, <2>2
  <2>5. QED BY <1>1, <2>3, <2>4 DEF LimiterInv, HitsAreLatest
<1>4. RefusedExactlyOverLimit'
  BY <1>1 DEF LimiterInv, RefusedExactlyOverLimit
<1>5. QED BY <1>2, <1>3, <1>4 DEF LimiterInv

\* A request: with c of the hits gone, those in the window are the last
\* Len(hits) - c that were handled.
LEMMA LimiterHandles ==
    ASSUME LimiterInv, NEW refused \in BOOLEAN, RateLimited(refused)
    PROVE  LimiterInv'
<1> DEFINE n == Len(handled)
           m == Len(hits)
           r == Recent(hits)
           e == [at |-> now, refused |-> refused]
<1>1. /\ n \in Nat /\ m \in Nat /\ m <= n
      /\ now \in 0 .. MaxTime /\ now \in Int
      /\ hits \in Seq(0 .. MaxTime)
      /\ handled \in Seq([at : 0 .. MaxTime, refused : BOOLEAN])
      /\ RateWindow \in Nat /\ RateLimit \in Nat
      /\ \A i \in 1 .. n : handled[i] \in [at : 0 .. MaxTime, refused : BOOLEAN]
      /\ \A i \in 1 .. n : handled[i].at \in 0 .. MaxTime /\ handled[i].at \in Int
  <2>1. n \in Nat /\ m \in Nat /\ m <= n /\ now \in Int
    BY RequestsTyped, RateAssumption DEF LimiterInv, LimiterTypeOK, HitsAreLatest
  <2>2. QED
    BY <2>1, RequestsTyped, RateAssumption DEF LimiterInv, LimiterTypeOK
<1>2. /\ \A i, j \in 1 .. n : i <= j => handled[i].at <= handled[j].at
      /\ \A i \in 1 .. n : handled[i].at <= now
      /\ \A i \in 1 .. m : hits[i] = handled[n - m + i].at
      /\ \A i \in 1 .. n - m : ~(now - handled[i].at < RateWindow)
  BY DEF LimiterInv, HitsAreLatest
<1>3. \A i, j \in 1 .. m : i <= j => hits[i] <= hits[j]
  <2>1. SUFFICES ASSUME NEW i \in 1 .. m, NEW j \in 1 .. m, i <= j
                 PROVE  hits[i] <= hits[j]
    OBVIOUS
  <2>2. n - m + i \in 1 .. n /\ n - m + j \in 1 .. n /\ n - m + i <= n - m + j
    BY <1>1, <2>1
  <2>3. QED BY <1>2, <2>2
<1>4. PICK c : KeepsLast(hits, m, r, c)
  BY <1>1, <1>3, RecentKeepsLast
<1>5. /\ hits' = Append(r, now) /\ refused = (Len(hits') > RateLimit)
      /\ handled' = Append(handled, e) /\ now' = now
  BY DEF RateLimited
<1>6. /\ c \in 0 .. m /\ r \in Seq(0 .. MaxTime) /\ Len(r) = m - c
      /\ \A i \in 1 .. m - c : r[i] = hits[c + i]
      /\ \A i \in 1 .. c : ~(now - hits[i] < RateWindow)
      /\ \A i \in c + 1 .. m : now - hits[i] < RateWindow
  BY <1>4 DEF KeepsLast
<1>7. e \in [at : 0 .. MaxTime, refused : BOOLEAN] /\ e.at = now
      /\ e.refused = refused
  BY <1>1
<1> HIDE DEF r, e
<1>8. /\ Len(hits') = m - c + 1 /\ hits' \in Seq(0 .. MaxTime)
      /\ hits'[m - c + 1] = now
      /\ \A i \in 1 .. m - c : hits'[i] = r[i]
  BY <1>1, <1>5, <1>6
<1>9. /\ Len(handled') = n + 1
      /\ handled' \in Seq([at : 0 .. MaxTime, refused : BOOLEAN])
      /\ handled'[n + 1] = e
      /\ \A i \in 1 .. n : handled'[i] = handled[i]
  BY <1>1, <1>5, <1>7
<1>10. \A i \in 1 .. n - m + c : ~(now - handled[i].at < RateWindow)
  <2>1. SUFFICES ASSUME NEW i \in 1 .. n - m + c
                 PROVE  ~(now - handled[i].at < RateWindow)
    OBVIOUS
  <2>2. CASE i <= n - m
    BY <1>1, <1>2, <1>6, <2>1, <2>2
  <2>3. CASE i > n - m
    <3>1. i - (n - m) \in 1 .. c /\ i - (n - m) \in 1 .. m
          /\ n - m + (i - (n - m)) = i
      BY <1>1, <1>6, <2>1, <2>3
    <3>2. hits[i - (n - m)] = handled[i].at
      BY <1>2, <3>1
    <3>3. QED BY <1>6, <3>1, <3>2
  <2>4. QED BY <1>1, <1>6, <2>1, <2>2, <2>3
<1>11. \A i \in n - m + c + 1 .. n : now - handled[i].at < RateWindow
  <2>1. SUFFICES ASSUME NEW i \in n - m + c + 1 .. n
                 PROVE  now - handled[i].at < RateWindow
    OBVIOUS
  <2>2. i - (n - m) \in c + 1 .. m /\ i - (n - m) \in 1 .. m
        /\ n - m + (i - (n - m)) = i
    BY <1>1, <1>6, <2>1
  <2>3. hits[i - (n - m)] = handled[i].at
    BY <1>2, <2>2
  <2>4. QED BY <1>6, <2>2, <2>3
<1>12. LimiterTypeOK'
  BY <1>1, <1>5, <1>8, <1>9 DEF LimiterTypeOK
<1>13. HitsAreLatest'
  <2>1. \A i, j \in 1 .. n + 1 : i <= j => handled'[i].at <= handled'[j].at
    <3>1. SUFFICES ASSUME NEW i \in 1 .. n + 1, NEW j \in 1 .. n + 1, i <= j
                   PROVE  handled'[i].at <= handled'[j].at
      OBVIOUS
    <3>2. CASE j \in 1 .. n
      <4>1. i \in 1 .. n
        BY <1>1, <3>1, <3>2
      <4>2. QED BY <1>2, <1>9, <3>1, <3>2, <4>1
    <3>3. CASE j = n + 1 /\ i \in 1 .. n
      BY <1>2, <1>7, <1>9, <3>3
    <3>4. CASE j = n + 1 /\ i = n + 1
      BY <1>1, <1>7, <1>9, <3>4
    <3>5. QED BY <1>1, <3>1, <3>2, <3>3, <3>4
  <2>2. \A i \in 1 .. n + 1 : handled'[i].at <= now
    <3>1. SUFFICES ASSUME NEW i \in 1 .. n + 1 PROVE handled'[i].at <= now
      OBVIOUS
    <3>2. CASE i = n + 1
      BY <1>1, <1>7, <1>9, <3>2
    <3>3. CASE i # n + 1
      <4>1. i \in 1 .. n
        BY <1>1, <3>1, <3>3
      <4>2. QED BY <1>2, <1>9, <4>1
    <3>4. QED BY <3>2, <3>3
  <2>3. m - c + 1 <= n + 1 /\ n + 1 - (m - c + 1) = n - m + c
    BY <1>1, <1>6
  <2>4. \A i \in 1 .. m - c + 1 : hits'[i] = handled'[n - m + c + i].at
    <3>1. SUFFICES ASSUME NEW i \in 1 .. m - c + 1
                   PROVE  hits'[i] = handled'[n - m + c + i].at
      OBVIOUS
    <3>2. CASE i = m - c + 1
      <4>1. n - m + c + i = n + 1
        BY <1>1, <1>6, <3>2
      <4>2. QED BY <1>7, <1>8, <1>9, <3>2, <4>1
    <3>3. CASE i # m - c + 1
      <4>1. /\ i \in 1 .. m - c /\ c + i \in 1 .. m
            /\ n - m + (c + i) = n - m + c + i /\ n - m + c + i \in 1 .. n
        BY <1>1, <1>6, <3>1, <3>3
      <4>2. hits'[i] = hits[c + i]
        BY <1>6, <1>8, <4>1
      <4>3. hits[c + i] = handled[n - m + c + i].at
        BY <1>2, <4>1
      <4>4. QED BY <1>9, <4>1, <4>2, <4>3
    <3>4. QED BY <3>2, <3>3
  <2>5. \A i \in 1 .. n - m + c : ~(now - handled'[i].at < RateWindow)
    <3>1. \A i \in 1 .. n - m + c : i \in 1 .. n
      BY <1>1, <1>6
    <3>2. QED BY <1>9, <1>10, <3>1
  <2>6. /\ Len(hits') = m - c + 1 /\ Len(handled') = n + 1
        /\ Len(handled') - Len(hits') = n - m + c
    BY <1>1, <1>6, <1>8, <1>9
  <2>7. /\ \A i, j \in 1 .. Len(handled') :
              i <= j => handled'[i].at <= handled'[j].at
        /\ \A i \in 1 .. Len(handled') : handled'[i].at <= now'
    BY <1>5, <1>9, <2>1, <2>2
  <2>8. /\ \A i \in 1 .. Len(hits') :
              hits'[i] = handled'[Len(handled') - Len(hits') + i].at
        /\ \A i \in 1 .. Len(handled') - Len(hits') :
              ~(now' - handled'[i].at < RateWindow)
    BY <1>5, <2>4, <2>5, <2>6
  <2>9. QED BY <2>3, <2>6, <2>7, <2>8 DEF HitsAreLatest
<1>14. RefusedExactlyOverLimit'
  <2> DEFINE W(i) == {k \in 1 .. i - 1 : handled[k].at > handled[i].at - RateWindow}
             V(i) == {k \in 1 .. i - 1 : handled'[k].at > handled'[i].at - RateWindow}
  <2>1. ASSUME NEW i \in 1 .. n
        PROVE  handled'[i].refused = (Cardinality(V(i)) >= RateLimit)
    <3>1. \A k \in 1 .. i - 1 : k \in 1 .. n
      BY <1>1, <2>1
    <3>2. V(i) = W(i)
      BY <1>9, <2>1, <3>1
    <3>3. handled[i].refused = (Cardinality(W(i)) >= RateLimit)
      BY <2>1 DEF LimiterInv, RefusedExactlyOverLimit
    <3>4. QED BY <1>9, <2>1, <3>2, <3>3
  <2>2. handled'[n + 1].refused = (Cardinality(V(n + 1)) >= RateLimit)
    <3>1. V(n + 1) = n - m + c + 1 .. n
      <4>1. ASSUME NEW k \in 1 .. n
            PROVE  k \in V(n + 1) <=> k \in n - m + c + 1 .. n
        <5>1. k \in V(n + 1) <=> handled[k].at > now - RateWindow
          BY <1>1, <1>7, <1>9, <4>1
        <5>2. handled[k].at > now - RateWindow <=> now - handled[k].at < RateWindow
          BY <1>1, <4>1
        <5>3. CASE k \in 1 .. n - m + c
          BY <1>1, <1>6, <1>10, <5>1, <5>2, <5>3
        <5>4. CASE k \in n - m + c + 1 .. n
          BY <1>11, <5>1, <5>2, <5>4
        <5>5. QED BY <1>1, <1>6, <4>1, <5>3, <5>4
      <4>2. V(n + 1) \subseteq 1 .. n /\ n - m + c + 1 .. n \subseteq 1 .. n
        BY <1>1, <1>6
      <4> HIDE DEF V
      <4>3. QED BY <4>1, <4>2
    <3>2. Cardinality(V(n + 1)) = m - c
      <4> HIDE DEF V
      <4>1. n - m + c + 1 \in Int /\ n \in Int
        BY <1>1, <1>6
      <4>2. Cardinality(n - m + c + 1 .. n) =
            IF n - m + c + 1 > n THEN 0 ELSE n - (n - m + c + 1) + 1
        BY <4>1, FS_Interval
      <4>3. QED BY <1>1, <1>6, <3>1, <4>2
    <3> HIDE DEF V
    <3>3. refused <=> m - c + 1 > RateLimit
      BY <1>5, <1>8
    <3>4. m - c + 1 > RateLimit <=> m - c >= RateLimit
      BY <1>1, <1>6
    <3>5. handled'[n + 1].refused = refused
      BY <1>7, <1>9
    <3>6. QED BY <3>2, <3>3, <3>4, <3>5
  <2>3. \A i \in 1 .. n + 1 : i \in 1 .. n \/ i = n + 1
    BY <1>1
  <2>4. \A i \in 1 .. n + 1 :
          handled'[i].refused = (Cardinality(V(i)) >= RateLimit)
    <3> HIDE DEF V
    <3>1. QED BY <2>1, <2>2, <2>3
  <2>5. QED BY <1>9, <2>4 DEF RefusedExactlyOverLimit
<1>15. QED BY <1>12, <1>13, <1>14 DEF LimiterInv

LEMMA LimiterRests ==
    ASSUME LimiterInv, UNCHANGED limiterVars
    PROVE  LimiterInv'
BY DEF LimiterInv, LimiterTypeOK, HitsAreLatest, RefusedExactlyOverLimit,
       limiterVars

-----------------------------------------------------------------------------
(* The page: what a step does to the messages it shows and to the lock *)

HistoryGets == [open : 1 .. MaxOpens, session : Sessions, read : BOOLEAN,
                rows : Seq(Rows)]

\* A loading bubble is one that send has added for an answer.
LoadingIsForAnAnswer ==
    \A i \in DOMAIN messages :
        messages[i].text = "loading" =>
            messages[i] = Bubble(messages[i].msg, "assistant", "loading")

\* What the page shows, whom it waits for and whether it is locked.
ShownOK ==
    /\ messages \in Seq(Items)
    /\ session \in Sessions
    /\ sending \in BOOLEAN
    /\ pending \in SUBSET Messages
    /\ sentTo \in [Messages -> Sessions \cup {None}]
    /\ LoadingIsForAnAnswer
    /\ BubblesInTheirSession
    /\ LockedWhileWaiting

\* What the page asks the server for.
RequestsOK ==
    /\ opens \in 1 .. MaxOpens
    /\ histories \subseteq HistoryGets
    /\ \A h \in histories : h.open \in 1 .. opens
    /\ deletions \in SUBSET [session : Sessions, open : Sessions, done : BOOLEAN]
    /\ deletes \in 0 .. MaxDeletes
    /\ lost \in 0 .. MaxLost

\* The server's tables.
TablesOK ==
    /\ post \in [Messages -> Statuses \cup {"unsent", "sent", "running"}]
    /\ rows \in [Sessions -> Seq(Rows)]

PageInv == LimiterInv /\ ShownOK /\ RequestsOK /\ TablesOK

shownVars == <<messages, session, sentTo, sending, pending>>

\* The page is emptied, and perhaps forgets what it waits for.
Empties ==
    /\ messages' = <<>>
    /\ session' \in Sessions
    /\ \/ UNCHANGED <<pending, sending>>
       \/ pending' = {} /\ sending' = FALSE
    /\ UNCHANGED sentTo

Replaces(q) ==
    /\ messages' = [i \in 1 .. Len(q) |-> Loaded(q[i])]
    /\ UNCHANGED <<session, sentTo, sending, pending>>

Asks(m) ==
    /\ ~sending /\ sending' = TRUE
    /\ pending' = pending \cup {m}
    /\ messages' = messages \o <<Bubble(m, "user", "text"),
                                 Bubble(m, "assistant", "loading")>>
    /\ sentTo' = [sentTo EXCEPT ![m] = session]
    /\ UNCHANGED session

Settles(m, text) ==
    /\ m \in pending
    /\ Settle(m, text)
    /\ UNCHANGED <<session, sentTo>>

ShownStep ==
    \/ Empties
    \/ \E q \in Seq(Rows) : Replaces(q)
    \/ \E m \in Messages : Asks(m)
    \/ \E m \in Messages, text \in {"text", "blank", "error"} : Settles(m, text)
    \/ UNCHANGED shownVars

LEMMA NextShows ==
    ASSUME ShownOK, RequestsOK, Next
    PROVE  ShownStep
<1>1. CASE NewChat
  <2>1. PICK s \in NewSession : LoadHistory(s)
    BY <1>1 DEF NewChat
  <2>2. s \in Sessions
    BY <2>1 DEF NewSession
  <2>3. Empties
    BY <1>1, <2>1, <2>2 DEF NewChat, LoadHistory, Empties
  <2>4. QED BY <2>3 DEF ShownStep
<1>2. CASE Remount
  <2>1. Empties
    BY <1>2 DEF Remount, Empties, ShownOK
  <2>2. QED BY <2>1 DEF ShownStep
<1>3. CASE TimePasses
  BY <1>3 DEF TimePasses, pageVars, userVars, ShownStep, shownVars
<1>4. ASSUME NEW s \in Sessions, SelectSession(s) PROVE ShownStep
  <2>1. Empties
    BY <1>4 DEF SelectSession, LoadHistory, Empties
  <2>2. QED BY <2>1 DEF ShownStep
<1>5. ASSUME NEW s \in Sessions, Delete(s) PROVE ShownStep
  BY <1>5 DEF Delete, pageVars, ShownStep, shownVars
<1>6. ASSUME NEW h \in histories, ReadHistory(h) PROVE ShownStep
  BY <1>6 DEF ReadHistory, pageVars, ShownStep, shownVars
<1>7. ASSUME NEW h \in histories, HistoryAnswered(h) PROVE ShownStep
  <2>1. h.rows \in Seq(Rows)
    BY <1>7 DEF RequestsOK, HistoryGets
  <2>2. CASE UNCHANGED messages
    BY <1>7, <2>2 DEF HistoryAnswered, ShownStep, shownVars
  <2>3. CASE messages' = [i \in 1 .. Len(h.rows) |-> Loaded(h.rows[i])]
    <3>1. Replaces(h.rows)
      BY <1>7, <2>3 DEF HistoryAnswered, Replaces
    <3>2. QED BY <2>1, <3>1 DEF ShownStep
  <2>4. CASE messages' = <<>>
    <3>1. Empties
      BY <1>7, <2>4 DEF HistoryAnswered, Empties, ShownOK
    <3>2. QED BY <3>1 DEF ShownStep
  <2>5. QED BY <1>7, <2>2, <2>3, <2>4 DEF HistoryAnswered
<1>8. ASSUME NEW m \in Messages, Send(m) PROVE ShownStep
  <2>1. Asks(m)
    BY <1>8 DEF Send, Asks
  <2>2. QED BY <2>1 DEF ShownStep
<1>9. ASSUME NEW m \in Messages, Accept(m) \/ Complete(m) PROVE ShownStep
  BY <1>9 DEF Accept, Complete, pageVars, userVars, ShownStep, shownVars
<1>10. ASSUME NEW m \in Messages, Answered(m) PROVE ShownStep
  <2>1. CASE post[m] = "200"
    <3>1. Settles(m, "text")
      BY <1>10, <2>1 DEF Answered, Settles
    <3>2. QED BY <3>1 DEF ShownStep
  <2>2. CASE post[m] # "200"
    <3>1. Settles(m, "blank")
      BY <1>10, <2>2 DEF Answered, Settles
    <3>2. QED BY <3>1 DEF ShownStep
  <2>3. QED BY <2>1, <2>2
<1>11. ASSUME NEW m \in Messages, FetchFails(m) PROVE ShownStep
  <2>1. Settles(m, "error")
    BY <1>11 DEF FetchFails, Settles
  <2>2. QED BY <2>1 DEF ShownStep
<1>12. ASSUME NEW d \in deletions, DeleteRows(d) PROVE ShownStep
  BY <1>12 DEF DeleteRows, pageVars, ShownStep, shownVars
<1>13. ASSUME NEW d \in deletions, DeleteAnswered(d) PROVE ShownStep
  <2>1. CASE UNCHANGED <<session, messages>>
    BY <1>13, <2>1 DEF DeleteAnswered, ShownStep, shownVars
  <2>2. CASE \E s \in NewSession : LoadHistory(s)
    <3>1. PICK s \in NewSession : LoadHistory(s)
      BY <2>2
    <3>2. s \in Sessions
      BY <3>1 DEF NewSession
    <3>3. Empties
      BY <1>13, <3>1, <3>2 DEF DeleteAnswered, LoadHistory, Empties
    <3>4. QED BY <3>3 DEF ShownStep
  <2>3. QED BY <1>13, <2>1, <2>2 DEF DeleteAnswered
<1>14. QED BY <1>1, <1>2, <1>3, <1>4, <1>5, <1>6, <1>7, <1>8, <1>9, <1>10, <1>11,
             <1>12, <1>13 DEF Next

LEMMA BubbleIsItem ==
    ASSUME NEW m \in Messages, NEW role \in {"user", "assistant"},
           NEW text \in {"text", "loading", "blank", "error"}
    PROVE  /\ Bubble(m, role, text) \in Items
           /\ Bubble(m, role, text).msg = m
           /\ Bubble(m, role, text).role = role
           /\ Bubble(m, role, text).text = text
           /\ Bubble(m, role, text).bubble
BY DEF Bubble, Items

LEMMA EmptiesShown ==
    ASSUME ShownOK, Empties
    PROVE  ShownOK'
<1>1. messages' = <<>> /\ DOMAIN messages' = {}
  BY DEF Empties
<1>2. messages' \in Seq(Items)
  BY <1>1
<1>3. LoadingIsForAnAnswer' /\ BubblesInTheirSession'
  BY <1>1 DEF LoadingIsForAnAnswer, BubblesInTheirSession
<1>4. /\ pending' \in SUBSET Messages /\ sending' \in BOOLEAN
      /\ sending' = (pending' # {})
      /\ \A m, n \in pending' : m = n
  <2>1. CASE UNCHANGED <<pending, sending>>
    BY <2>1 DEF ShownOK, LockedWhileWaiting
  <2>2. CASE pending' = {} /\ sending' = FALSE
    BY <2>2
  <2>3. QED BY <2>1, <2>2 DEF Empties
<1>5. LockedWhileWaiting'
  BY <1>1, <1>4 DEF LockedWhileWaiting
<1>6. QED BY <1>2, <1>3, <1>4, <1>5 DEF ShownOK, Empties

LEMMA ReplacesShown ==
    ASSUME ShownOK, NEW q \in Seq(Rows), Replaces(q)
    PROVE  ShownOK'
<1>1. Len(q) \in Nat /\ \A i \in 1 .. Len(q) : q[i] \in Rows
  OBVIOUS
<1>2. \A r \in Rows : /\ Loaded(r) \in Items
                      /\ Loaded(r).text = "text" /\ ~Loaded(r).bubble
  BY DEF Loaded, Items, Rows
<1>3. /\ messages' = [i \in 1 .. Len(q) |-> Loaded(q[i])]
      /\ UNCHANGED <<session, sentTo, sending, pending>>
  BY DEF Replaces
<1>4. /\ \A i \in 1 .. Len(q) : messages'[i] = Loaded(q[i])
      /\ DOMAIN messages' = 1 .. Len(q)
  BY <1>3
<1>5. \A i \in DOMAIN messages' : /\ messages'[i] \in Items
                                  /\ messages'[i].text = "text"
                                  /\ ~messages'[i].bubble
  BY <1>1, <1>2, <1>4
<1>6. messages' \in Seq(Items)
  BY <1>1, <1>2, <1>3
<1>7. LoadingIsForAnAnswer'
  BY <1>5 DEF LoadingIsForAnAnswer
<1>8. BubblesInTheirSession'
  BY <1>5 DEF BubblesInTheirSession, IsBubble
<1>9. LockedWhileWaiting'
  BY <1>3, <1>5 DEF LockedWhileWaiting, ShownOK
<1>10. QED BY <1>3, <1>6, <1>7, <1>8, <1>9 DEF ShownOK

LEMMA AsksShown ==
    ASSUME ShownOK, NEW m \in Messages, Asks(m)
    PROVE  ShownOK'
<1> DEFINE u == Bubble(m, "user", "text")
           a == Bubble(m, "assistant", "loading")
           n == Len(messages)
<1>1. /\ u \in Items /\ u.msg = m /\ u.text = "text"
      /\ a \in Items /\ a.msg = m /\ a.text = "loading"
  BY BubbleIsItem
<1>2. /\ pending = {} /\ pending' = {m} /\ sending' = TRUE /\ session' = session
      /\ messages' = messages \o <<u, a>>
      /\ sentTo' = [sentTo EXCEPT ![m] = session]
  BY DEF Asks, ShownOK, LockedWhileWaiting
<1>3. messages \in Seq(Items) /\ n \in Nat
  BY DEF ShownOK
<1> HIDE DEF u, a
<1>4. /\ messages' \in Seq(Items)
      /\ DOMAIN messages' = 1 .. n + 2 /\ DOMAIN messages = 1 .. n
      /\ messages'[n + 1] = u /\ messages'[n + 2] = a
      /\ \A i \in 1 .. n : messages'[i] = messages[i]
  <2>1. <<u, a>> \in Seq(Items) /\ Len(<<u, a>>) = 2
    BY <1>1
  <2>2. /\ messages' \in Seq(Items) /\ Len(messages') = n + 2
        /\ \A i \in 1 .. n : messages'[i] = messages[i]
    BY <1>2, <1>3, <2>1
  <2>3. messages'[n + 1] = u /\ messages'[n + 2] = a
    BY <1>2, <1>3, <2>1
  <2>4. QED BY <1>3, <2>2, <2>3
<1>5. \A i \in DOMAIN messages' : i \in 1 .. n \/ i = n + 1 \/ i = n + 2
  BY <1>3, <1>4
<1>6. \A i \in 1 .. n : messages[i] \in Items /\ messages[i].msg \in Messages
  <2>1. \A i \in 1 .. n : messages[i] \in Items
    BY <1>3
  <2>2. \A x \in Items : x.msg \in Messages
    BY DEF Items
  <2>3. QED BY <2>1, <2>2
<1>7. LoadingIsForAnAnswer'
  <2>1. \A i \in 1 .. n : messages'[i].text = "loading" =>
            messages'[i] = Bubble(messages'[i].msg, "assistant", "loading")
    BY <1>4 DEF ShownOK, LoadingIsForAnAnswer
  <2>2. a = Bubble(a.msg, "assistant", "loading")
    BY <1>1 DEF a
  <2>3. QED BY <1>1, <1>4, <1>5, <2>1, <2>2 DEF LoadingIsForAnAnswer
<1>8. sentTo'[m] = session /\ \A k \in Messages : k # m => sentTo'[k] = sentTo[k]
  BY <1>2 DEF ShownOK
<1>9. BubblesInTheirSession'
  <2>1. ASSUME NEW i \in 1 .. n, messages'[i].bubble
        PROVE  sentTo'[messages'[i].msg] = session
    <3>1. messages'[i] = messages[i] /\ messages[i].msg \in Messages
      BY <1>4, <1>6
    <3>2. sentTo[messages[i].msg] = session
      BY <1>4, <2>1, <3>1 DEF ShownOK, BubblesInTheirSession, IsBubble
    <3>3. QED BY <1>8, <3>1, <3>2
  <2>2. QED
    BY <1>1, <1>2, <1>4, <1>5, <1>8, <2>1 DEF BubblesInTheirSession, IsBubble
<1>10. LockedWhileWaiting'
  <2>1. \A i \in 1 .. n : messages'[i].text # "loading"
    BY <1>2, <1>4 DEF ShownOK, LockedWhileWaiting
  <2>2. \A i \in DOMAIN messages' :
            messages'[i].text = "loading" => messages'[i].msg \in pending'
    BY <1>1, <1>2, <1>4, <1>5, <2>1
  <2>3. sending' = (pending' # {}) /\ \A k, l \in pending' : k = l
    BY <1>2
  <2>4. QED BY <2>2, <2>3 DEF LockedWhileWaiting
<1>11. QED BY <1>2, <1>4, <1>7, <1>9, <1>10 DEF ShownOK

LEMMA SettlesShown ==
    ASSUME ShownOK, NEW m \in Messages, NEW text \in {"text", "blank", "error"},
           Settles(m, text)
    PROVE  ShownOK'
<1> DEFINE a == Bubble(m, "assistant", "loading")
           b == Bubble(m, "assistant", text)
           n == Len(messages)
<1>1. /\ b \in Items /\ b.msg = m /\ b.text = text /\ b.text # "loading"
      /\ b.bubble /\ a.msg = m /\ a.bubble
  BY BubbleIsItem
<1>2. /\ m \in pending /\ pending' = pending \ {m} /\ sending' = FALSE
      /\ UNCHANGED <<session, sentTo>>
      /\ messages' = [i \in 1 .. n |-> IF messages[i] = a THEN b ELSE messages[i]]
  BY DEF Settles, Settle, SetBubble
<1>3. messages \in Seq(Items) /\ n \in Nat /\ DOMAIN messages = 1 .. n
      /\ \A i \in 1 .. n : messages[i] \in Items
  BY DEF ShownOK
<1> HIDE DEF a, b
<1>4. /\ DOMAIN messages' = 1 .. n
      /\ \A i \in 1 .. n :
            messages'[i] = IF messages[i] = a THEN b ELSE messages[i]
  BY <1>2
<1>5. messages' \in Seq(Items)
  <2>1. \A i \in 1 .. n : (IF messages[i] = a THEN b ELSE messages[i]) \in Items
    BY <1>1, <1>3
  <2>2. QED BY <1>2, <1>3, <2>1
<1>6. pending' = {} /\ \A k \in pending : k = m
  BY <1>2 DEF ShownOK, LockedWhileWaiting
<1>7. \A i \in 1 .. n : messages'[i].text # "loading"
  <2>1. SUFFICES ASSUME NEW i \in 1 .. n, messages'[i].text = "loading"
                 PROVE  FALSE
    OBVIOUS
  <2>2. messages[i] # a /\ messages'[i] = messages[i]
    BY <1>1, <1>4, <2>1
  <2>3. /\ messages[i] = Bubble(messages[i].msg, "assistant", "loading")
        /\ messages[i].msg \in pending
    BY <1>3, <2>1, <2>2
    DEF ShownOK, LoadingIsForAnAnswer, LockedWhileWaiting
  <2>4. QED BY <1>6, <2>2, <2>3 DEF a
<1>8. LoadingIsForAnAnswer'
  BY <1>4, <1>7 DEF LoadingIsForAnAnswer
<1>9. BubblesInTheirSession'
  <2>1. ASSUME NEW i \in 1 .. n, messages'[i].bubble
        PROVE  sentTo[messages'[i].msg] = session
    <3>1. messages[i].bubble /\ messages[i].msg = messages'[i].msg
      BY <1>1, <1>4, <2>1
    <3>2. QED BY <1>3, <3>1 DEF ShownOK, BubblesInTheirSession, IsBubble
  <2>2. QED BY <1>2, <1>4, <2>1 DEF BubblesInTheirSession, IsBubble
<1>10. LockedWhileWaiting'
  BY <1>2, <1>4, <1>6, <1>7 DEF LockedWhileWaiting
<1>11. QED BY <1>2, <1>5, <1>6, <1>8, <1>9, <1>10 DEF ShownOK

LEMMA ShownStepOK ==
    ASSUME ShownOK, ShownStep
    PROVE  ShownOK'
<1>1. CASE UNCHANGED shownVars
  BY <1>1 DEF ShownOK, LoadingIsForAnAnswer, BubblesInTheirSession, IsBubble,
              LockedWhileWaiting, shownVars
<1>2. QED BY <1>1, EmptiesShown, ReplacesShown, AsksShown, SettlesShown
          DEF ShownStep

-----------------------------------------------------------------------------
(* The types of what the page asks and of the server's tables *)

LEMMA OpensOnce ==
    ASSUME RequestsOK, opens < MaxOpens, NEW s \in Sessions, NEW H,
           H \subseteq histories,
           opens' = opens + 1, histories' = H \cup {Asked(opens', s)}
    PROVE  /\ opens' \in 1 .. MaxOpens
           /\ histories' \subseteq HistoryGets
           /\ \A h \in histories' : h.open \in 1 .. opens'
<1>1. opens' \in 1 .. MaxOpens /\ opens \in Nat
  BY PageAssumption DEF RequestsOK
<1>2. Asked(opens', s) \in HistoryGets /\ Asked(opens', s).open = opens'
  BY <1>1 DEF Asked, HistoryGets
<1>3. \A h \in H : h \in HistoryGets /\ h.open \in 1 .. opens
  BY DEF RequestsOK
<1>4. \A h \in H : h.open \in 1 .. opens'
  BY <1>1, <1>3
<1>5. QED BY <1>1, <1>2, <1>3, <1>4

LEMMA LosesOne ==
    ASSUME RequestsOK, lost < MaxLost, lost' = lost + 1
    PROVE  lost' \in 0 .. MaxLost
BY PageAssumption DEF RequestsOK

requestVars == <<opens, histories, deletions, deletes, lost>>

LEMMA RequestsStay ==
    ASSUME RequestsOK, TablesOK, ShownOK, Next
    PROVE  RequestsOK'
<1>1. CASE NewChat
  <2>1. PICK s \in NewSession : LoadHistory(s)
    BY <1>1 DEF NewChat
  <2>2. s \in Sessions
    BY <2>1 DEF NewSession
  <2>3. UNCHANGED <<deletions, deletes, lost>>
    BY <1>1 DEF NewChat
  <2>4. QED BY <2>1, <2>2, <2>3, OpensOnce DEF LoadHistory, RequestsOK
<1>2. CASE Remount
  <2>1. UNCHANGED <<deletions, deletes, lost>>
    BY <1>2 DEF Remount
  <2>2. /\ opens < MaxOpens /\ opens' = opens + 1 /\ session \in Sessions
        /\ histories' = {Asked(opens', session)}
    BY <1>2 DEF Remount, ShownOK
  <2>3. PICK H : H = {}
    OBVIOUS
  <2>4. H \subseteq histories /\ histories' = H \cup {Asked(opens', session)}
    BY <2>2, <2>3
  <2>5. /\ opens' \in 1 .. MaxOpens
        /\ histories' \subseteq HistoryGets
        /\ \A h \in histories' : h.open \in 1 .. opens'
    BY <2>2, <2>4, OpensOnce
  <2>6. QED BY <2>1, <2>5 DEF RequestsOK
<1>3. CASE TimePasses
  BY <1>3 DEF TimePasses, pageVars, userVars, RequestsOK
<1>4. ASSUME NEW s \in Sessions, SelectSession(s) PROVE RequestsOK'
  <2>1. UNCHANGED <<deletions, deletes, lost>> /\ LoadHistory(s)
    BY <1>4 DEF SelectSession
  <2>2. QED BY <2>1, OpensOnce DEF LoadHistory, RequestsOK
<1>5. ASSUME NEW s \in Sessions, Delete(s) PROVE RequestsOK'
  <2>1. UNCHANGED <<opens, histories, lost>>
    BY <1>5 DEF Delete, pageVars
  <2>2. deletes' \in 0 .. MaxDeletes
    BY <1>5, PageAssumption DEF Delete, RequestsOK
  <2>3. [session |-> s, open |-> session, done |-> FALSE] \in
            [session : Sessions, open : Sessions, done : BOOLEAN]
    BY DEF ShownOK
  <2>4. deletions' \in SUBSET [session : Sessions, open : Sessions, done : BOOLEAN]
    BY <1>5, <2>3 DEF Delete, RequestsOK
  <2>5. QED BY <2>1, <2>2, <2>4 DEF RequestsOK
<1>6. ASSUME NEW h \in histories, ReadHistory(h) PROVE RequestsOK'
  <2> DEFINE g == [h EXCEPT !.read = TRUE, !.rows = GetMessages(h.session)]
  <2>1. h \in HistoryGets /\ h.open \in 1 .. opens
    BY <1>6 DEF RequestsOK
  <2>2. h.session \in Sessions
    BY <2>1 DEF HistoryGets
  <2>3. GetMessages(h.session) \in Seq(Rows)
    BY <2>2 DEF GetMessages, TablesOK
  <2>4. g \in HistoryGets /\ g.open = h.open
    BY <2>1, <2>3 DEF HistoryGets
  <2>5. /\ histories' = (histories \ {h}) \cup {g}
        /\ UNCHANGED <<opens, deletions, deletes, lost>>
    BY <1>6 DEF ReadHistory, pageVars
  <2> HIDE DEF g
  <2>6. QED BY <2>1, <2>4, <2>5 DEF RequestsOK
<1>7. ASSUME NEW h \in histories, HistoryAnswered(h) PROVE RequestsOK'
  <2>1. /\ histories' = histories \ {h}
        /\ UNCHANGED <<opens, deletions, deletes>>
    BY <1>7 DEF HistoryAnswered
  <2>2. lost' \in 0 .. MaxLost
    <3>1. lost' = lost \/ (lost < MaxLost /\ lost' = lost + 1)
      BY <1>7 DEF HistoryAnswered
    <3>2. QED BY <3>1, LosesOne DEF RequestsOK
  <2>3. QED BY <2>1, <2>2 DEF RequestsOK
<1>8. ASSUME NEW m \in Messages, Send(m) \/ Accept(m) \/ Complete(m) \/ Answered(m)
      PROVE  RequestsOK'
  <2>1. UNCHANGED requestVars
    BY <1>8 DEF Send, Accept, Complete, Answered, pageVars, userVars, requestVars
  <2>2. QED BY <2>1 DEF RequestsOK, requestVars
<1>9. ASSUME NEW m \in Messages, FetchFails(m) PROVE RequestsOK'
  <2>1. UNCHANGED <<opens, histories, deletions, deletes>>
    BY <1>9 DEF FetchFails
  <2>2. lost' \in 0 .. MaxLost
    BY <1>9, LosesOne DEF FetchFails
  <2>3. QED BY <2>1, <2>2 DEF RequestsOK
<1>10. ASSUME NEW d \in deletions, DeleteRows(d) PROVE RequestsOK'
  <2>1. d \in [session : Sessions, open : Sessions, done : BOOLEAN]
    BY <1>10 DEF RequestsOK
  <2>2. [d EXCEPT !.done = TRUE] \in
            [session : Sessions, open : Sessions, done : BOOLEAN]
    BY <2>1
  <2>3. /\ deletions' = (deletions \ {d}) \cup {[d EXCEPT !.done = TRUE]}
        /\ UNCHANGED <<opens, histories, deletes, lost>>
    BY <1>10 DEF DeleteRows, pageVars
  <2>4. QED BY <2>2, <2>3 DEF RequestsOK
<1>11. ASSUME NEW d \in deletions, DeleteAnswered(d) PROVE RequestsOK'
  <2>1. /\ deletions' \in SUBSET [session : Sessions, open : Sessions, done : BOOLEAN]
        /\ UNCHANGED deletes
    BY <1>11 DEF DeleteAnswered, RequestsOK
  <2>2. CASE (\E s \in NewSession : LoadHistory(s)) /\ UNCHANGED lost
    <3>1. PICK s \in NewSession : LoadHistory(s)
      BY <2>2
    <3>2. s \in Sessions
      BY <3>1 DEF NewSession
    <3>3. QED BY <2>1, <2>2, <3>1, <3>2, OpensOnce DEF LoadHistory, RequestsOK
  <2>3. CASE UNCHANGED <<opens, histories, lost>>
    BY <2>1, <2>3 DEF RequestsOK
  <2>4. CASE lost < MaxLost /\ lost' = lost + 1 /\ UNCHANGED <<opens, histories>>
    <3>1. lost' \in 0 .. MaxLost
      BY <2>4, LosesOne
    <3>2. QED BY <2>1, <2>4, <3>1 DEF RequestsOK
  <2>5. QED BY <1>11, <2>2, <2>3, <2>4 DEF DeleteAnswered
<1>12. QED BY <1>1, <1>2, <1>3, <1>4, <1>5, <1>6, <1>7, <1>8, <1>9, <1>10, <1>11
           DEF Next

LEMMA AddMessageTyped ==
    ASSUME rows \in [Sessions -> Seq(Rows)], NEW s, NEW m \in Messages,
           NEW role \in {"user", "assistant"}, AddMessage(s, role, m)
    PROVE  rows' \in [Sessions -> Seq(Rows)]
<1>1. [role |-> role, msg |-> m] \in Rows
  BY DEF Rows
<1>2. \A t \in Sessions : Append(rows[t], [role |-> role, msg |-> m]) \in Seq(Rows)
  BY <1>1
<1>3. QED BY <1>2 DEF AddMessage

LEMMA TablesStay ==
    ASSUME TablesOK, Next
    PROVE  TablesOK'
<1>1. ASSUME NEW m \in Messages, Accept(m) PROVE TablesOK'
  <2>1. post' \in [Messages -> Statuses \cup {"unsent", "sent", "running"}]
    BY <1>1 DEF Accept, TablesOK, Statuses
  <2>2. UNCHANGED rows \/ AddMessage(sentTo[m], "user", m)
    BY <1>1 DEF Accept
  <2>3. QED BY <2>1, <2>2, AddMessageTyped DEF TablesOK
<1>2. ASSUME NEW m \in Messages, Complete(m) PROVE TablesOK'
  <2>1. post' \in [Messages -> Statuses \cup {"unsent", "sent", "running"}]
    BY <1>2 DEF Complete, TablesOK, Statuses
  <2>2. UNCHANGED rows \/ AddMessage(sentTo[m], "assistant", m)
    BY <1>2 DEF Complete
  <2>3. QED BY <2>1, <2>2, AddMessageTyped DEF TablesOK
<1>3. ASSUME NEW m \in Messages, Send(m) PROVE TablesOK'
  BY <1>3 DEF Send, TablesOK
<1>4. ASSUME NEW d \in deletions, DeleteRows(d) PROVE TablesOK'
  <2>1. <<>> \in Seq(Rows)
    OBVIOUS
  <2>2. QED BY <1>4, <2>1 DEF DeleteRows, DeleteSession, TablesOK
<1>5. CASE UNCHANGED <<post, rows>>
  BY <1>5 DEF TablesOK
<1>6. ASSUME NEW m \in Messages, Answered(m) \/ FetchFails(m) PROVE TablesOK'
  BY <1>5, <1>6 DEF Answered, FetchFails
<1>7. ASSUME NEW s \in Sessions, SelectSession(s) \/ Delete(s) PROVE TablesOK'
  BY <1>5, <1>7 DEF SelectSession, Delete
<1>8. ASSUME NEW h \in histories, ReadHistory(h) \/ HistoryAnswered(h)
      PROVE  TablesOK'
  BY <1>5, <1>8 DEF ReadHistory, HistoryAnswered
<1>9. ASSUME NEW d \in deletions, DeleteAnswered(d) PROVE TablesOK'
  BY <1>5, <1>9 DEF DeleteAnswered
<1>10. CASE NewChat \/ Remount \/ TimePasses
  BY <1>5, <1>10 DEF NewChat, Remount, TimePasses
<1>11. QED BY <1>1, <1>2, <1>3, <1>4, <1>6, <1>7, <1>8, <1>9, <1>10 DEF Next

LEMMA LimiterStays ==
    ASSUME LimiterInv, Next
    PROVE  LimiterInv'
<1>1. CASE TimePasses
  BY <1>1, LimiterTicks DEF TimePasses
<1>2. ASSUME NEW m \in Messages, Accept(m) PROVE LimiterInv'
  BY <1>2, LimiterHandles DEF Accept
<1>3. CASE UNCHANGED limiterVars
  BY <1>3, LimiterRests
<1>4. ASSUME NEW m \in Messages,
             Send(m) \/ Complete(m) \/ Answered(m) \/ FetchFails(m)
      PROVE  LimiterInv'
  BY <1>3, <1>4 DEF Send, Complete, Answered, FetchFails, limiterVars
<1>5. ASSUME NEW s \in Sessions, SelectSession(s) \/ Delete(s) PROVE LimiterInv'
  BY <1>3, <1>5 DEF SelectSession, Delete, limiterVars
<1>6. ASSUME NEW h \in histories, ReadHistory(h) \/ HistoryAnswered(h)
      PROVE  LimiterInv'
  BY <1>3, <1>6 DEF ReadHistory, HistoryAnswered, limiterVars
<1>7. ASSUME NEW d \in deletions, DeleteRows(d) \/ DeleteAnswered(d)
      PROVE  LimiterInv'
  BY <1>3, <1>7 DEF DeleteRows, DeleteAnswered, limiterVars
<1>8. CASE NewChat \/ Remount
  BY <1>3, <1>8 DEF NewChat, Remount, limiterVars
<1>9. QED BY <1>1, <1>2, <1>4, <1>5, <1>6, <1>7, <1>8 DEF Next

-----------------------------------------------------------------------------
(* The theorems *)

LEMMA PageStarts ==
    ASSUME Init
    PROVE  PageInv
<1>1. LimiterInv
  BY LimiterStarts DEF Init
<1>2. ShownOK
  <2>1. messages = <<>> /\ messages \in Seq(Items) /\ DOMAIN messages = {}
    BY DEF Init
  <2>2. LoadingIsForAnAnswer /\ BubblesInTheirSession /\ LockedWhileWaiting
    BY <2>1 DEF Init, LoadingIsForAnAnswer, BubblesInTheirSession,
                LockedWhileWaiting
  <2>3. sentTo \in [Messages -> Sessions \cup {None}]
    BY DEF Init
  <2>4. session \in Sessions /\ sending \in BOOLEAN /\ pending \in SUBSET Messages
    BY DEF Init
  <2>5. QED BY <2>1, <2>2, <2>3, <2>4 DEF ShownOK
<1>3. RequestsOK
  <2>1. /\ opens = 1 /\ 1 \in 1 .. MaxOpens /\ session \in Sessions
        /\ histories = {Asked(1, session)}
    BY PageAssumption DEF Init
  <2>2. Asked(1, session) \in HistoryGets /\ Asked(1, session).open = 1
    BY <2>1 DEF Asked, HistoryGets
  <2>3. deletions = {} /\ deletes \in 0 .. MaxDeletes /\ lost \in 0 .. MaxLost
    BY PageAssumption DEF Init
  <2>4. QED BY <2>1, <2>2, <2>3 DEF RequestsOK
<1>4. TablesOK
  BY DEF Init, TablesOK
<1>5. QED BY <1>1, <1>2, <1>3, <1>4 DEF PageInv

LEMMA PageStays ==
    ASSUME PageInv, [Next]_vars
    PROVE  PageInv'
<1>1. LimiterInv /\ ShownOK /\ RequestsOK /\ TablesOK
  BY DEF PageInv
<1>2. LimiterInv' /\ ShownOK' /\ RequestsOK' /\ TablesOK'
  <2>1. CASE Next
    BY <1>1, <2>1, NextShows, ShownStepOK, RequestsStay, TablesStay, LimiterStays
  <2>2. CASE UNCHANGED vars
    <3>1. LimiterInv'
      BY <1>1, <2>2, LimiterRests DEF vars
    <3>2. ShownOK'
      BY <1>1, <2>2, ShownStepOK
      DEF ShownStep, shownVars, vars, pageVars, userVars
    <3>3. RequestsOK' /\ TablesOK'
      BY <1>1, <2>2 DEF RequestsOK, TablesOK, vars, pageVars, userVars
    <3>4. QED BY <3>1, <3>2, <3>3
  <2>3. QED BY <2>1, <2>2
<1>3. QED BY <1>2 DEF PageInv

THEOREM PageInvariant == Spec => []PageInv
<1>1. QED BY PageStarts, PageStays, PTL DEF Spec

\* Every variable of the page, of the limiter and of the tables has its type.
THEOREM PageTypeCorrect == Spec => []TypeOK
<1>1. PageInv => TypeOK
  <2>1. \A h \in HistoryGets : /\ h.session \in Sessions /\ h.read \in BOOLEAN
                               /\ h.rows \in Seq(Rows)
    BY DEF HistoryGets
  <2>2. QED
    BY <2>1 DEF PageInv, LimiterInv, ShownOK, RequestsOK, TablesOK, TypeOK
<1>2. QED BY <1>1, PageInvariant, PTL

\* Whatever sessions are opened and however late an answer is, what send has
\* written is shown in the session it was sent to.
THEOREM BubblesCorrect == Spec => []BubblesInTheirSession
<1>1. PageInv => BubblesInTheirSession
  BY DEF PageInv, ShownOK
<1>2. QED BY <1>1, PageInvariant, PTL

\* The input is locked exactly while the page waits for the answer to one
\* message, and only the bubble of that message shows that it is loading.
THEOREM LockCorrect == Spec => []LockedWhileWaiting
<1>1. PageInv => LockedWhileWaiting
  BY DEF PageInv, ShownOK
<1>2. QED BY <1>1, PageInvariant, PTL

\* isRateLimited refuses a request exactly if RateLimit others came within the
\* window before it, for every limit and window.
THEOREM LimiterCorrect == Spec => []RefusedExactlyOverLimit
<1>1. PageInv => RefusedExactlyOverLimit
  BY DEF PageInv, LimiterInv
<1>2. QED BY <1>1, PageInvariant, PTL
=============================================================================
