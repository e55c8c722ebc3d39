---------------------------- MODULE RateLimiter -----------------------------
(***************************************************************************)
(* isRateLimited of src/src/routes/chat.ts, for the requests of one client *)
(* address: a sliding window over the times of its requests.               *)
(***************************************************************************)
EXTENDS Integers, Sequences, FiniteSets

CONSTANTS
    RateLimit,      \* RATE_LIMIT
    RateWindow,     \* RATE_WINDOW_MS, in ticks of the clock
    MaxTime         \* bound on the clock

ASSUME RateAssumption == /\ RateLimit \in Nat
                         /\ RateWindow \in Nat
                         /\ MaxTime \in Nat

VARIABLES
    now,        \* Date.now()
    hits,       \* rateCounts of the address
    handled     \* history: when each request came, and whether it was refused

limiterVars == <<now, hits, handled>>

LimiterTypeOK ==
    /\ now \in 0 .. MaxTime
    /\ hits \in Seq(0 .. MaxTime)
    /\ handled \in Seq([at : 0 .. MaxTime, refused : BOOLEAN])

LimiterInit == now = 0 /\ hits = <<>> /\ handled = <<>>

\* Mutant: a hit is kept one tick longer.
RecentAndLast(times) ==
    SelectSeq(times, LAMBDA t : now - t <= RateWindow)

\* The times that are in the window: kept[n] is what filter keeps of the first n.
Recent(times) ==
    LET kept[n \in 0 .. Len(times)] ==
            IF n = 0 THEN <<>>
            ELSE IF now - times[n] < RateWindow THEN Append(kept[n - 1], times[n])
            ELSE kept[n - 1]
    IN  kept[Len(times)]

\* Mutant: the list keeps the time a hit runs out.
PushExpiry(refused) ==
    /\ hits' = Append(SelectSeq(hits, LAMBDA t : now < t), now + RateWindow)
    /\ refused = (Len(hits') > RateLimit)
    /\ handled' = Append(handled, [at |-> now, refused |-> refused])
    /\ UNCHANGED now

\* A request comes: it counts, whether it is refused or not.
RateLimited(refused) ==
    /\ hits' = Append(Recent(hits), now)
    /\ refused = (Len(hits') > RateLimit)
    /\ handled' = Append(handled, [at |-> now, refused |-> refused])
    /\ UNCHANGED now

Tick == now < MaxTime /\ now' = now + 1 /\ UNCHANGED <<hits, handled>>

\* chat.ts: "Simple sliding-window rate limiter: 20 requests per 60s per IP".
\* A request is refused exactly if RateLimit others, refused ones included, came
\* in the window before it, though the times are pruned at every request.
RefusedExactlyOverLimit ==
    \A i \in 1 .. Len(handled) :
        handled[i].refused =
            (Cardinality({k \in 1 .. i - 1 :
                     handled[k].at > handled[i].at - RateWindow}) >= RateLimit)
=============================================================================
