-------------------------- MODULE LeasePoolProofs ---------------------------
(* Why the lease manager implements PodPool: what each of its steps does   *)
(* to the calls of acquirePod that processJob has made.  Why a reservation *)
(* that nobody relies on comes with a lease that will expire.  And why a   *)
(* worker that runs alone wastes no pod: a call waits only while every pod *)
(* is reserved or a releaser is scanning for it.                           *)
EXTENDS LeaseProofs, FiniteSetTheorems

USE DEF NoPod, NoVersion, At

-----------------------------------------------------------------------------
(* Steps of the pool *)

SameView(i) == /\ CallState(i)' = CallState(i)
               /\ LostOrGrantedPod(i)' = LostOrGrantedPod(i)

PoolStep == [Pool!PoolNext]_(Pool!poolVars)

\* The record of a job decides what the pool sees of it.
LEMMA SameRecord ==
    ASSUME NEW i, local'[i] = local[i], everExpired' = everExpired
    PROVE  SameView(i)
  BY DEF SameView, CallState, LostOrGrantedPod

LEMMA SilentStep ==
    ASSUME \A i \in Jobs : SameView(i), everExpired' = everExpired
    PROVE  PoolStep
  BY DEF PoolStep, SameView, Pool!poolVars

LEMMA AskStep ==
    ASSUME NEW j \in Jobs, \A i \in Jobs \ {j} : SameView(i),
           everExpired' = everExpired,
           CallState(j) = "idle", CallState(j)' = "waiting"
    PROVE  PoolStep
  <1>1. LostOrGrantedPod(j) = NoPod /\ LostOrGrantedPod(j)' = NoPod
    BY DEF LostOrGrantedPod
  <1>2. Pool!Ask(j)
    BY <1>1 DEF Pool!Ask, SameView
  <1> QED
    BY <1>2 DEF PoolStep, Pool!PoolNext

LEMMA RefuseStep ==
    ASSUME NEW j \in Jobs, \A i \in Jobs \ {j} : SameView(i),
           everExpired' = everExpired,
           CallState(j) = "waiting", CallState(j)' = "refused"
    PROVE  PoolStep
  <1>1. LostOrGrantedPod(j) = NoPod /\ LostOrGrantedPod(j)' = NoPod
    BY DEF LostOrGrantedPod
  <1>2. Pool!Refuse(j)
    BY <1>1 DEF Pool!Refuse, SameView
  <1> QED
    BY <1>2 DEF PoolStep, Pool!PoolNext

LEMMA ReturnStep ==
    ASSUME NEW j \in Jobs, \A i \in Jobs \ {j} : SameView(i),
           everExpired' = everExpired,
           CallState(j) = "granted", CallState(j)' = "returned"
    PROVE  PoolStep
  <1>1. LostOrGrantedPod(j)' = NoPod
    BY DEF LostOrGrantedPod
  <1>2. Pool!Return(j)
    BY <1>1 DEF Pool!Return, SameView
  <1> QED
    BY <1>2 DEF PoolStep, Pool!PoolNext

LEMMA GrantStep ==
    ASSUME NEW j \in Jobs, NEW p \in Pods, \A i \in Jobs \ {j} : SameView(i),
           everExpired' = everExpired,
           p \in everExpired \/ \A i \in Jobs : LostOrGrantedPod(i) # p,
           CallState(j) = "waiting", CallState(j)' = "granted",
           local'[j].pod = p
    PROVE  PoolStep
  <1>1. LostOrGrantedPod(j)' = p
    BY DEF LostOrGrantedPod
  <1>2. Pool!Grant(j, p)
    BY <1>1 DEF Pool!Grant, SameView
  <1> QED
    BY <1>2 DEF PoolStep, Pool!PoolNext

\* An expired lease takes the pod from a lost job, and from no other.
LEMMA ExpireStep ==
    ASSUME NEW p \in Pods, Expire(p)
    PROVE  PoolStep
  <1>1. local' = local /\ everExpired' = everExpired \cup {p}
    BY DEF Expire
  <1>2. \A i \in Jobs : CallState(i)' = CallState(i)
    BY <1>1 DEF CallState
  <1>3. CASE p \in everExpired
    <2>1. everExpired' = everExpired
      BY <1>1, <1>3
    <2> QED
      BY <1>1, <2>1, SameRecord, SilentStep
  <1>4. CASE p \notin everExpired
    <2>1. ASSUME NEW i \in Jobs
          PROVE  LostOrGrantedPod(i)' =
                    IF CallState(i) = "lost" /\ LostOrGrantedPod(i) = p
                    THEN NoPod ELSE LostOrGrantedPod(i)
      <3>1. NoPod \notin Pods
        BY DEF Pods
      <3> QED
        BY <1>1, <1>2, <1>4, <3>1 DEF LostOrGrantedPod
    <2>2. Pool!Lapse(p)
      BY <1>1, <1>2, <1>4, <2>1 DEF Pool!Lapse
    <2> QED
      BY <2>2 DEF PoolStep, Pool!PoolNext
  <1> QED
    BY <1>3, <1>4

LEMMA LostRecord ==
    ASSUME NEW i
    PROVE  /\ Abandoned(i).pc = "dead"
           /\ Abandoned(i).pod = IF Holding(i, local[i].pod) THEN local[i].pod
                                                            ELSE NoPod
  BY DEF Abandoned

\* A crash loses the calls of its worker that were under way, and keeps the
\* pods of those that had one.
LEMMA CrashStep ==
    ASSUME Typed, NEW w \in Workers, Crash(w)
    PROVE  PoolStep
  <1> DEFINE S == {i \in Jobs : proc[i] = w /\ local[i].pc \in Unsettled}
  <1>1. everExpired' = everExpired
    BY DEF Crash
  <1>2. \A i \in Jobs : local'[i] = IF i \in S THEN Abandoned(i) ELSE local[i]
    BY ThreadsAssumption DEF Crash, Threads
  <1>3. \A i \in Jobs \ S : SameView(i)
    BY <1>1, <1>2, SameRecord
  <1>4. \A i \in S : /\ i \in Jobs /\ local[i].pc \in Unsettled
                      /\ local'[i] = Abandoned(i)
    BY <1>2
  <1> HIDE DEF S
  <1>5. ASSUME NEW i \in S
        PROVE  /\ CallState(i) \in {"waiting", "granted", "returned"}
               /\ CallState(i)' = "lost"
               /\ CallState(i) = "granted" <=> Holding(i, local[i].pod)
    <2>1. local'[i].pc = "dead"
      <3>1. local'[i] = Abandoned(i)
        BY <1>4, <1>5
      <3> QED
        BY <3>1, LostRecord
    <2>2. CallState(i)' = "lost"
      BY <2>1 DEF CallState
    <2>3. local[i].pc \in Unsettled
      BY <1>4, <1>5
    <2> QED
      BY <2>2, <2>3 DEF CallState, Unsettled, Holding
  <1>6. ASSUME NEW i \in S
        PROVE  LostOrGrantedPod(i)' = IF LostOrGrantedPod(i) \in everExpired
                                      THEN NoPod ELSE LostOrGrantedPod(i)
    <2> DEFINE p == IF Holding(i, local[i].pod) THEN local[i].pod ELSE NoPod
    <2>1. local'[i].pod = p
      <3>1. local'[i] = Abandoned(i)
        BY <1>4, <1>6
      <3> QED
        BY <3>1, LostRecord
    <2>2. LostOrGrantedPod(i) = p
      BY <1>5, <1>6 DEF LostOrGrantedPod
    <2> QED
      BY <1>1, <1>5, <1>6, <2>1, <2>2 DEF LostOrGrantedPod
  <1>7. S \in SUBSET Jobs
    BY <1>4
  <1>8. Pool!Lose(S)
    BY <1>1, <1>3, <1>5, <1>6, <1>7 DEF Pool!Lose, SameView
  <1> QED
    BY <1>7, <1>8 DEF PoolStep, Pool!PoolNext

-----------------------------------------------------------------------------
(* The forms a step takes *)

\* Job t goes on to next.  Either the pool sees nothing of it, or t begins to
\* wait, is refused, gets the pod whose lease it has found free, or returns
\* its pod.
ScansOn(l, next) ==
    \/ /\ l.pc \in {"read", "put"} /\ l.waiter = NoJob
       /\ next.pc \in {"read", "put", "queued"} /\ next.waiter = NoJob
    \/ /\ l.pc \in {"read", "put", "handoff"} /\ l.waiter # NoJob
       /\ \/ next.pc \in {"read", "put"} /\ next.waiter # NoJob
          \/ next.pc = "done"

Asks(l, next) == /\ l.pc = "new"
                 /\ next.pc \in {"read", "queued"} /\ next.waiter = NoJob

Obtains(l, next) == /\ l.pc = "put" /\ l.waiter = NoJob
                    /\ next.pc = "running" /\ next.pod = l.pod

Releases(l, next) == /\ l.pc \in {"running", "clearRead"}
                     /\ next.pc \in {"clearRead", "clearPut"}
                     /\ next.pod = l.pod

Returns(l, next) == /\ l.pc \in {"clearRead", "clearPut"}
                    /\ \/ next.pc = "done"
                       \/ next.pc = "handoff" /\ next.pod = l.pod

TimesOut(l, next) == l.pc = "queued" /\ next.pc = "rejected"

Works(l, next) == \/ ScansOn(l, next) \/ Asks(l, next) \/ Obtains(l, next)
                  \/ Releases(l, next) \/ Returns(l, next) \/ TimesOut(l, next)

\* What a step of job t does to the leases.
LeaseWork(t) ==
    /\ \A q \in Pods \ {local[t].pod} : lease'[q] = lease[q]
    /\ \/ lease' = lease
       \/ local[t].pc = "put" /\ ~Busy(local[t].pod)
       \/ local[t].pc = "clearPut" /\ lease'[local[t].pod].holder = NoJob
       \/ local[t].pc = "handoff" /\ UnconditionalPut

Working(t, next) == /\ Moves(t, next)
                    /\ Works(local[t], next)
                    /\ local[t].pc = "put" /\ next.pc = "running"
                          => ~Busy(local[t].pod)
                    /\ LeaseWork(t)

\* Job t gives its pod to job x, if that still waits.
Giving(t, x) == /\ Grants(t, Done, x, local[t].pod)
                /\ local[t].waiter # NoJob
                /\ \/ local[t].pc = "put" /\ ~Busy(local[t].pod)
                   \/ local[t].pc = "handoff" /\ UnconditionalPut
                /\ LeaseWork(t)

\* A watchdog touches only expired leases, and may give their pods to a job.
Guarding == /\ \A q \in Pods \ everExpired : lease'[q] = lease[q]
            /\ \/ \A i \in Jobs : local'[i] = local[i]
               \/ \E x \in Jobs, p \in everExpired : \A i \in Jobs :
                     local'[i] = IF i = x /\ local[x].pc = "queued"
                                 THEN At("running", p, NoVersion, NoJob)
                                 ELSE local[i]

Quiet == /\ everExpired' = everExpired
         /\ \/ \E t \in Jobs : \E next : Working(t, next)
            \/ \E t, x \in Jobs : Giving(t, x)
            \/ Guarding

\* Where the scan of job t leads, which is not waiting yet.
LEMMA ScanMoves ==
    ASSUME Typed, NEW t \in Jobs, NEW w, NEW i, NEW held, NEW queue,
           Scan(t, w, i, held, queue)
    PROVE  \E next : /\ Moves(t, next)
                     /\ \/ next.pc = "read" /\ next.waiter = local[t].waiter
                        \/ /\ local[t].waiter = NoJob
                           /\ next.pc = "queued" /\ next.waiter = NoJob
                        \/ local[t].waiter # NoJob /\ next.pc = "done"
  <1>1. t \in Threads
    BY DEF Threads
  <1>2. CASE \E p \in First(held, i) :
               Goto(t, At("read", p, NoVersion, local[t].waiter))
    BY <1>1, <1>2, GotoMoves
  <1>3. CASE local[t].waiter = NoJob
               /\ Goto(t, At("queued", NoPod, NoVersion, NoJob))
    BY <1>1, <1>3, GotoMoves
  <1>4. CASE local[t].waiter # NoJob /\ Goto(t, Done)
    BY <1>1, <1>4, GotoMoves DEF Done
  <1> QED
    BY <1>2, <1>3, <1>4 DEF Scan

LEMMA ScanOnWorks ==
    ASSUME Typed, NEW t \in Jobs, local[t].pc \in {"read", "put"}, ScanOn(t),
           LeaseWork(t)
    PROVE  \E next : Working(t, next)
  <1>1. PICK next :
          /\ Moves(t, next)
          /\ \/ next.pc = "read" /\ next.waiter = local[t].waiter
             \/ /\ local[t].waiter = NoJob
                /\ next.pc = "queued" /\ next.waiter = NoJob
             \/ local[t].waiter # NoJob /\ next.pc = "done"
    BY ScanMoves DEF ScanOn
  <1>2. Works(local[t], next) /\ next.pc # "running"
    BY <1>1 DEF Works, ScansOn
  <1> QED
    BY <1>1, <1>2 DEF Working

LEMMA StartQuiet ==
    ASSUME Typed, NEW t \in Jobs, NEW w \in Workers, Start(t, w)
    PROVE  Quiet
  <1>1. /\ local[t].pc = "new" /\ local[t].waiter = NoJob
        /\ UNCHANGED <<lease, everExpired>>
        /\ Scan(t, w, 1, inMemoryHeld[w], waiters[w])
    BY DEF Start, Typed, ControlOK, JobOK
  <1>2. PICK next : /\ Moves(t, next)
                    /\ next.pc \in {"read", "queued"} /\ next.waiter = NoJob
    BY <1>1, ScanMoves
  <1>3. Working(t, next)
    BY <1>1, <1>2 DEF Working, Works, Asks, LeaseWork
  <1> QED
    BY <1>1, <1>3 DEF Quiet

LEMMA ReadLeaseQuiet ==
    ASSUME Typed, NEW t \in Jobs, ReadLease(t)
    PROVE  Quiet
  <1> DEFINE next == [local[t] EXCEPT !.pc = "put", !.seen = lease[local[t].pod].rv]
  <1>1. PICK ok \in BOOLEAN : GetLease(ok) /\ (Goto(t, next) \/ ScanOn(t))
    BY DEF ReadLease
  <1>2. /\ UNCHANGED <<lease, everExpired>> /\ local[t].pc = "read"
        /\ t \in Threads /\ local[t] \in Locals
    BY <1>1, GetEffect DEF ReadLease, Threads, Typed, TypeOK
  <1>3. CASE Goto(t, next)
    <2>1. next.pc = "put" /\ next.waiter = local[t].waiter
      BY <1>2 DEF Locals
    <2> HIDE DEF next
    <2>2. Moves(t, next)
      BY <1>2, <1>3, GotoMoves
    <2>3. Working(t, next)
      BY <1>2, <2>1, <2>2 DEF Working, Works, ScansOn, LeaseWork
    <2> QED
      BY <1>2, <2>3 DEF Quiet
  <1>4. CASE ScanOn(t)
    <2>1. LeaseWork(t)
      BY <1>2 DEF LeaseWork
    <2> QED
      BY <1>2, <1>4, <2>1, ScanOnWorks DEF Quiet
  <1> QED
    BY <1>1, <1>3, <1>4

LEMMA TryPutQuiet ==
    ASSUME Typed, VersionsOK, NEW t \in Jobs, TryPut(t)
    PROVE  Quiet
  <1> DEFINE p == local[t].pod
  <1> DEFINE x == local[t].waiter
  <1>1. PICK ok \in BOOLEAN :
          /\ PutLease(p, Context(t), local[t].seen, ok)
          /\ \/ ok /\ Acquired(t)
             \/ ~ok /\ ScanOn(t)
    BY DEF TryPut
  <1>2. /\ everExpired' = everExpired /\ t \in Threads
        /\ local[t].pc = "put" /\ p \in Pods
        /\ Context(t) \in Jobs \cup {NoJob}
        /\ x \in Jobs \cup {NoJob} /\ local[t].seen \in 1 .. lease[p].rv
        /\ local[t].seen = lease[p].rv => ~Busy(p)
    BY DEF TryPut, Typed, TypeOK, ControlOK, JobOK, Threads, Locals, Context,
           VersionsOK
  <1>3. Admitted(p, local[t].seen) => ~Busy(p)
    BY <1>2 DEF Admitted
  <1>4. /\ \A q \in Pods \ {p} : lease'[q] = lease[q]
        /\ (lease' = lease /\ ~ok) \/ ~Busy(p)
    BY <1>1, <1>2, <1>3, PutHolders
  <1>5. LeaseWork(t)
    BY <1>2, <1>4 DEF LeaseWork
  <1>6. CASE ScanOn(t)
    BY <1>2, <1>5, <1>6, ScanOnWorks DEF Quiet
  <1>7. CASE ok /\ x = NoJob /\ Goto(t, At("running", p, NoVersion, NoJob))
    <2> DEFINE next == At("running", p, NoVersion, NoJob)
    <2>1. Moves(t, next)
      BY <1>2, <1>7, GotoMoves
    <2>2. Working(t, next)
      BY <1>2, <1>4, <1>5, <1>7, <2>1 DEF Working, Works, Obtains
    <2> QED
      BY <1>2, <2>2 DEF Quiet
  <1>8. CASE ok /\ x # NoJob /\ ResolveWaiter(t, Done, x, p)
    <2>1. x \in Jobs /\ Grants(t, Done, x, p)
      BY <1>2, <1>8, ResolveGrants
    <2>2. Giving(t, x)
      BY <1>2, <1>4, <1>5, <1>8, <2>1 DEF Giving
    <2> QED
      BY <1>2, <2>1, <2>2 DEF Quiet
  <1> QED
    BY <1>1, <1>6, <1>7, <1>8 DEF Acquired

LEMMA ReleaseQuiet ==
    ASSUME Typed, NEW t \in Jobs, Release(t)
    PROVE  Quiet
  <1> DEFINE next == [local[t] EXCEPT !.pc = "clearRead"]
  <1>1. /\ UNCHANGED <<lease, everExpired>> /\ local[t].pc = "running"
        /\ t \in Threads /\ local[t] \in Locals /\ Goto(t, next)
    BY DEF Release, Threads, Typed, TypeOK
  <1>2. next.pc = "clearRead" /\ next.pod = local[t].pod
    BY <1>1 DEF Locals
  <1> HIDE DEF next
  <1>3. Moves(t, next)
    BY <1>1, GotoMoves
  <1>4. Working(t, next)
    BY <1>1, <1>2, <1>3 DEF Working, Works, Releases, LeaseWork
  <1> QED
    BY <1>1, <1>4 DEF Quiet

LEMMA ClearedQuiet ==
    ASSUME Typed, NEW t \in Jobs, local[t].pc \in {"clearRead", "clearPut"},
           Cleared(t), LeaseWork(t), everExpired' = everExpired
    PROVE  Quiet
  <1>1. t \in Threads /\ t \notin Sweeps
    BY ThreadsAssumption DEF Threads
  <1>2. PICK next : /\ Goto(t, next)
                    /\ \/ next.pc = "done"
                       \/ next.pc = "handoff" /\ next.pod = local[t].pod
    BY <1>1 DEF Cleared, Done
  <1>3. Moves(t, next)
    BY <1>1, <1>2, GotoMoves
  <1>4. Working(t, next)
    BY <1>2, <1>3 DEF Working, Works, Returns
  <1> QED
    BY <1>4 DEF Quiet

LEMMA ClearReadQuiet ==
    ASSUME Typed, NEW t \in Jobs, ClearRead(t)
    PROVE  Quiet
  <1> DEFINE next == [local[t] EXCEPT !.pc = "clearPut",
                                      !.seen = lease[local[t].pod].rv]
  <1>1. PICK ok \in BOOLEAN : GetLease(ok) /\ (Goto(t, next) \/ Cleared(t))
    BY DEF ClearRead
  <1>2. /\ UNCHANGED <<lease, everExpired>> /\ local[t].pc = "clearRead"
        /\ t \in Threads /\ local[t] \in Locals
    BY <1>1, GetEffect DEF ClearRead, Threads, Typed, TypeOK
  <1>3. LeaseWork(t)
    BY <1>2 DEF LeaseWork
  <1>4. CASE Goto(t, next)
    <2>1. next.pc = "clearPut" /\ next.pod = local[t].pod
      BY <1>2 DEF Locals
    <2> HIDE DEF next
    <2>2. Moves(t, next)
      BY <1>2, <1>4, GotoMoves
    <2>3. Working(t, next)
      BY <1>2, <1>3, <2>1, <2>2 DEF Working, Works, Releases
    <2> QED
      BY <1>2, <2>3 DEF Quiet
  <1> QED
    BY <1>1, <1>2, <1>3, <1>4, ClearedQuiet

LEMMA ClearPutQuiet ==
    ASSUME Typed, NEW t \in Jobs, ClearPut(t)
    PROVE  Quiet
  <1> DEFINE p == local[t].pod
  <1> DEFINE rv == local[t].seen
  <1>1. PICK ok \in BOOLEAN : PutLease(p, NoJob, rv, ok)
    BY DEF ClearPut
  <1>2. /\ everExpired' = everExpired /\ local[t].pc = "clearPut"
        /\ Cleared(t) /\ p \in Pods
    BY DEF ClearPut, Typed, ControlOK, JobOK
  <1>3. /\ \A q \in Pods \ {p} : lease'[q] = lease[q]
        /\ lease' = lease \/ lease'[p].holder = NoJob
    <2>1. NoJob \in Jobs \cup {NoJob}
      OBVIOUS
    <2> HIDE DEF p, rv
    <2> QED
      BY <1>1, <1>2, <2>1, PutHolders
  <1>4. LeaseWork(t)
    BY <1>2, <1>3 DEF LeaseWork
  <1> QED
    BY <1>2, <1>4, ClearedQuiet

LEMMA ReleaseHandoffQuiet ==
    ASSUME Typed, NEW t \in Jobs, ReleaseHandoff(t)
    PROVE  Quiet
  <1> DEFINE p == local[t].pod
  <1> DEFINE x == local[t].waiter
  <1>1. PICK ok \in BOOLEAN :
          /\ PutLease(p, x, NoVersion, ok)
          /\ \/ ok /\ ResolveWaiter(t, Done, x, p)
             \/ /\ ~ok
                /\ Scan(t, proc[t], 1, inMemoryHeld[proc[t]] \ {p},
                        <<x>> \o waiters[proc[t]])
    BY DEF ReleaseHandoff
  <1>2. /\ everExpired' = everExpired /\ t \in Threads
        /\ local[t].pc = "handoff" /\ p \in Pods /\ x \in Jobs /\ x # NoJob
    BY ThreadsAssumption
    DEF ReleaseHandoff, Typed, TypeOK, ControlOK, JobOK, Threads, Locals
  <1>3. /\ \A q \in Pods \ {p} : lease'[q] = lease[q]
        /\ (lease' = lease /\ ~ok) \/ UnconditionalPut
    <2>1. x \in Jobs \cup {NoJob}
      BY <1>2
    <2> QED
      BY <1>1, <1>2, <2>1, PutHolders DEF Admitted
  <1>4. LeaseWork(t)
    BY <1>2, <1>3 DEF LeaseWork
  <1>5. CASE ok /\ ResolveWaiter(t, Done, x, p)
    <2>1. Grants(t, Done, x, p)
      BY <1>2, <1>5, ResolveGrants
    <2>2. Giving(t, x)
      BY <1>2, <1>3, <1>4, <1>5, <2>1 DEF Giving
    <2> QED
      BY <1>2, <2>2 DEF Quiet
  <1>6. CASE Scan(t, proc[t], 1, inMemoryHeld[proc[t]] \ {p},
                  <<x>> \o waiters[proc[t]])
    <2>1. PICK next :
            /\ Moves(t, next)
            /\ \/ next.pc = "read" /\ next.waiter = x
               \/ next.pc = "done"
      BY <1>2, <1>6, ScanMoves
    <2>2. Works(local[t], next) /\ next.pc # "running"
      BY <1>2, <2>1 DEF Works, ScansOn
    <2>3. Working(t, next)
      BY <1>4, <2>1, <2>2 DEF Working
    <2> QED
      BY <1>2, <2>3 DEF Quiet
  <1> QED
    BY <1>1, <1>5, <1>6

LEMMA TimeoutQuiet ==
    ASSUME Typed, NEW t \in Jobs, Timeout(t)
    PROVE  Quiet
  <1> DEFINE next == At("rejected", NoPod, NoVersion, NoJob)
  <1>1. /\ UNCHANGED <<lease, everExpired>> /\ t \in Threads
        /\ \/ local' = local
           \/ local' = [local EXCEPT ![t] =
                 IF @.pc = "queued" THEN next ELSE @]
    BY DEF Timeout, Threads
  <1>2. CASE local' = local \/ local[t].pc # "queued"
    <2>1. \A i \in Jobs : local'[i] = local[i]
      BY <1>1, <1>2 DEF Typed, TypeOK, Threads
    <2> QED
      BY <1>1, <2>1 DEF Quiet, Guarding
  <1>3. CASE local' # local /\ local[t].pc = "queued"
    <2>1. Moves(t, next)
      BY <1>1, <1>3 DEF Moves, Typed, TypeOK
    <2>2. Working(t, next)
      BY <1>1, <1>3, <2>1 DEF Working, Works, TimesOut, LeaseWork
    <2> QED
      BY <1>1, <2>2 DEF Quiet
  <1> QED
    BY <1>2, <1>3

LEMMA WatchdogQuiet ==
    ASSUME Typed, ExpiryOK, NEW t \in Sweeps, WatchdogStep(t)
    PROVE  Quiet
  <1> DEFINE p == local[t].pod
  <1>1. t \in Threads /\ t \notin Jobs
    BY ThreadsAssumption DEF Threads
  <1>2. ASSUME everExpired' = everExpired,
               \A u \in Threads \ {t} : local'[u] = local[u],
               \A q \in Pods \ everExpired : lease'[q] = lease[q]
        PROVE  Quiet
    BY <1>1, <1>2 DEF Quiet, Guarding, Threads
  <1>3. ASSUME NEW next, Goto(t, next), UNCHANGED <<lease, everExpired>>
        PROVE  Quiet
    BY <1>1, <1>2, <1>3, GotoMoves DEF Moves
  <1>4. CASE WatchdogTick(t) \/ WatchdogCheck(t) \/ WatchdogFree(t)
    <2>1. UNCHANGED <<lease, everExpired>>
      BY <1>4 DEF WatchdogTick, WatchdogCheck, WatchdogFree, GetLease
    <2>2. \E next : Goto(t, next)
      BY <1>4 DEF WatchdogTick, WatchdogCheck, WatchdogFree
    <2> QED
      BY <1>3, <2>1, <2>2
  <1>5. CASE ClearRead(t)
    <2>1. UNCHANGED <<lease, everExpired>> /\ local[t].pc = "clearRead"
      BY <1>5 DEF ClearRead, GetLease
    <2>2. CASE Cleared(t)
      BY <1>1, <1>2, <2>1, <2>2, ClearedEffect
    <2>3. CASE \E next : Goto(t, next)
      BY <1>3, <2>1, <2>3
    <2> QED
      BY <1>5, <2>2, <2>3 DEF ClearRead
  <1>6. CASE ClearPut(t)
    <2> DEFINE rv == local[t].seen
    <2>1. PICK ok \in BOOLEAN : PutLease(p, NoJob, rv, ok)
      BY <1>6 DEF ClearPut
    <2>2. /\ everExpired' = everExpired /\ local[t].pc = "clearPut"
          /\ Cleared(t) /\ p \in Pods /\ p \in everExpired
          /\ NoJob \in Jobs \cup {NoJob}
      BY <1>1, <1>6 DEF ClearPut, Typed, ControlOK, WatchdogOK, ExpiryOK
    <2>3. \A q \in Pods \ {p} : lease'[q] = lease[q]
      <3> HIDE DEF p, rv
      <3> QED
        BY <2>1, <2>2, PutHolders
    <2> QED
      BY <1>1, <1>2, <2>2, <2>3, ClearedEffect
  <1>7. CASE WatchdogHandoff(t)
    <2> DEFINE x == local[t].waiter
    <2>1. PICK ok \in BOOLEAN :
            /\ PutLease(p, x, NoVersion, ok)
            /\ \/ ResolveWaiter(t, NextCheck(p), x, p)
               \/ Goto(t, NextCheck(p))
      BY <1>7 DEF WatchdogHandoff
    <2>2. /\ everExpired' = everExpired /\ local[t].pc = "handoff"
          /\ p \in Pods /\ p \in everExpired /\ x \in Jobs
          /\ x \in Jobs \cup {NoJob}
      BY <1>1, <1>7 DEF WatchdogHandoff, Typed, TypeOK, ControlOK, WatchdogOK,
         Locals, ExpiryOK
    <2>3. \A q \in Pods \ {p} : lease'[q] = lease[q]
      BY <2>1, <2>2, PutHolders
    <2>4. CASE Goto(t, NextCheck(p))
      BY <1>1, <1>2, <2>2, <2>3, <2>4, GotoMoves DEF Moves
    <2>5. CASE ResolveWaiter(t, NextCheck(p), x, p)
      <3>1. Grants(t, NextCheck(p), x, p)
        BY <1>1, <2>2, <2>5, ResolveGrants
      <3>2. \A i \in Jobs : local'[i] = IF i = x /\ local[x].pc = "queued"
                                        THEN At("running", p, NoVersion, NoJob)
                                        ELSE local[i]
        BY <1>1, <3>1 DEF Grants, Threads
      <3> QED
        BY <2>2, <2>3, <3>2 DEF Quiet, Guarding
    <2> QED
      BY <2>1, <2>4, <2>5
  <1> QED
    BY <1>4, <1>5, <1>6, <1>7 DEF WatchdogStep

LEMMA NextForms ==
    ASSUME Typed, VersionsOK, ExpiryOK, [Next]_vars
    PROVE  Quiet \/ (\E p \in Pods : Expire(p)) \/ (\E w \in Workers : Crash(w))
  <1>1. ASSUME NEW j \in Jobs, JobStep(j) PROVE Quiet
    BY <1>1, ReadLeaseQuiet, TryPutQuiet, ReleaseQuiet, ClearReadQuiet,
       ClearPutQuiet, ReleaseHandoffQuiet DEF JobStep
  <1>2. CASE UNCHANGED vars
    BY <1>2 DEF vars, Quiet, Guarding
  <1> QED
    BY <1>1, <1>2, StartQuiet, TimeoutQuiet, WatchdogQuiet DEF Next

-----------------------------------------------------------------------------
(* Lost jobs and handoffs *)

\* Job t writes pod q's lease only if nobody else relies on it: a lost job or a
\* releaser keeps the lease it had.
LEMMA LostKeepsLease ==
    ASSUME PoolInv, NEW t \in Jobs, LeaseWork(t),
           NEW i \in Jobs \ {t}, NEW q \in Pods \ everExpired,
           local[i].pc = "dead", local[i].pod = q
    PROVE  lease'[q] = lease[q]
  <1>1. lease[q].holder = i /\ i # NoJob /\ ~lease[q].expired
    BY ThreadsAssumption DEF PoolInv, IInv, LostNamedInLease, ExpiryOK
  <1>2. CASE local[t].pod # q
    BY <1>2 DEF LeaseWork
  <1>3. CASE local[t].pod = q
    <2>1. ~(local[t].pc = "put" /\ ~Busy(q))
      BY <1>1 DEF Busy
    <2>2. local[t].pc # "clearPut"
      BY <1>1, <1>3 DEF PoolInv, IInv, LeaseNamesHolder, Holding
    <2>3. ~(local[t].pc = "handoff" /\ UnconditionalPut)
      BY <1>1, <1>3 DEF PoolInv, HandoffFindsOwnLease
    <2> QED
      BY <1>3, <2>1, <2>2, <2>3 DEF LeaseWork
  <1> QED
    BY <1>2, <1>3

LEMMA HandoffKeepsLease ==
    ASSUME SafeDeployment, UnconditionalPut, PoolInv, NEW t \in Jobs, LeaseWork(t),
           NEW j \in Jobs \ {t}, NEW q \in Pods \ everExpired,
           local[j].pc = "handoff", local[j].pod = q
    PROVE  lease'[q] = lease[q] \/ lease'[q].holder = NoJob
  <1>1. ASSUME local[t].pc \in {"put", "handoff"}, local[t].pod = q PROVE FALSE
    <2>1. Claims(t, q) /\ Claims(j, q)
      BY <1>1 DEF Claims
    <2>2. proc[t] \in Workers /\ proc[j] \in Workers
      BY <1>1 DEF PoolInv, IInv, TypeOK, ControlOK, JobOK
    <2>3. proc[t] = proc[j]
      BY <2>2 DEF SafeDeployment
    <2> QED
      BY <2>1, <2>3 DEF PoolInv, IInv, ReservationsExclusive
  <1> QED
    BY <1>1 DEF LeaseWork

LEMMA RunningOnly ==
    ASSUME NEW p
    PROVE  At("running", p, NoVersion, NoJob).pc \notin {"dead", "handoff"}
  OBVIOUS

LEMMA LostStep ==
    ASSUME PoolInv, [Next]_vars
    PROVE  LostNamedInLease'
  <1>1. /\ Typed /\ VersionsOK /\ ExpiryOK /\ LeaseNamesHolder /\ LostNamedInLease
    BY DEF PoolInv, IInv, Typed
  <1>2. ASSUME NEW p \in Pods, Expire(p) PROVE LostNamedInLease'
    <2>1. /\ local' = local /\ everExpired' = everExpired \cup {p}
          /\ \A q \in Pods : lease'[q].holder = lease[q].holder
      BY <1>1, <1>2 DEF Expire, Typed, TypeOK, Leases
    <2> QED
      BY <1>1, <2>1 DEF LostNamedInLease
  <1>3. ASSUME NEW w \in Workers, Crash(w) PROVE LostNamedInLease'
    <2>1. UNCHANGED <<lease, everExpired>>
      BY <1>3 DEF Crash
    <2>2. \A i \in Jobs : local'[i] = local[i] \/ local'[i] = Abandoned(i)
      BY <1>3, ThreadsAssumption DEF Crash, Threads
    <2>3. ASSUME NEW i \in Jobs, NEW q \in Pods \ everExpired,
                 local'[i] = Abandoned(i), local'[i].pod = q
          PROVE  lease[q].holder = i
      <3>1. q # NoPod
        BY DEF Pods
      <3>2. Holding(i, q)
        BY <2>3, <3>1, LostRecord
      <3> QED
        BY <1>1, <3>2 DEF LeaseNamesHolder
    <2> QED
      BY <1>1, <2>1, <2>2, <2>3 DEF LostNamedInLease
  <1>4. CASE Quiet
    <2> SUFFICES ASSUME NEW i \in Jobs, NEW q \in Pods \ everExpired,
                        local'[i].pc = "dead", local'[i].pod = q
                 PROVE  lease'[q].holder = i
      BY <1>4 DEF LostNamedInLease, Quiet
    <2>1. ASSUME local'[i] = local[i], lease'[q] = lease[q]
          PROVE  lease'[q].holder = i
      BY <1>1, <2>1 DEF LostNamedInLease
    <2>2. ASSUME NEW t \in Jobs, NEW next, Working(t, next)
          PROVE  lease'[q].holder = i
      <3>1. next.pc # "dead"
        BY <2>2 DEF Working, Works, ScansOn, Asks, Obtains, Releases, Returns,
           TimesOut
      <3>2. i # t /\ local'[i] = local[i]
        BY <2>2, <3>1 DEF Working, Moves, Threads
      <3> QED
        BY <2>1, <2>2, <3>2, LostKeepsLease DEF Working
    <2>3. ASSUME NEW t \in Jobs, NEW x \in Jobs, Giving(t, x)
          PROVE  lease'[q].holder = i
      <3>1. i # t /\ local'[i] = local[i]
        BY <2>3 DEF Giving, Grants, Threads, Done
      <3> QED
        BY <2>1, <2>3, <3>1, LostKeepsLease DEF Giving
    <2>4. CASE Guarding
      <3>1. local'[i] = local[i]
        BY <2>4, RunningOnly DEF Guarding
      <3> QED
        BY <2>1, <2>4, <3>1 DEF Guarding
    <2> QED
      BY <1>4, <2>2, <2>3, <2>4 DEF Quiet
  <1> QED
    BY <1>1, <1>2, <1>3, <1>4, NextForms

LEMMA HandoffStep ==
    ASSUME SafeDeployment, PoolInv, [Next]_vars
    PROVE  HandoffFindsOwnLease'
  <1>1. /\ Typed /\ VersionsOK /\ ExpiryOK /\ LeaseNamesHolder
        /\ HandoffFindsOwnLease
    BY DEF PoolInv, IInv, Typed
  <1> SUFFICES ASSUME UnconditionalPut PROVE HandoffFindsOwnLease'
    BY DEF HandoffFindsOwnLease
  <1>2. ASSUME NEW p \in Pods, Expire(p) PROVE HandoffFindsOwnLease'
    <2>1. /\ local' = local /\ everExpired' = everExpired \cup {p}
          /\ \A q \in Pods : lease'[q].holder = lease[q].holder
      BY <1>1, <1>2 DEF Expire, Typed, TypeOK, Leases
    <2> QED
      BY <1>1, <2>1 DEF HandoffFindsOwnLease
  <1>3. ASSUME NEW w \in Workers, Crash(w) PROVE HandoffFindsOwnLease'
    <2>1. UNCHANGED <<lease, everExpired>>
      BY <1>3 DEF Crash
    <2>2. \A i \in Jobs : local'[i] = local[i] \/ local'[i] = Abandoned(i)
      BY <1>3, ThreadsAssumption DEF Crash, Threads
    <2>3. \A i \in Jobs : local'[i].pc = "handoff" => local'[i] = local[i]
      BY <2>2, LostRecord
    <2> QED
      BY <1>1, <2>1, <2>3 DEF HandoffFindsOwnLease
  <1>4. CASE Quiet
    <2> SUFFICES ASSUME NEW j \in Jobs, NEW q \in Pods \ everExpired,
                        local'[j].pc = "handoff", local'[j].pod = q
                 PROVE  lease'[q].holder \in {j, NoJob}
      BY <1>4 DEF HandoffFindsOwnLease, Quiet
    <2>1. ASSUME local'[j] = local[j],
                 lease'[q] = lease[q] \/ lease'[q].holder = NoJob
          PROVE  lease'[q].holder \in {j, NoJob}
      BY <1>1, <2>1 DEF HandoffFindsOwnLease
    <2>2. ASSUME NEW t \in Jobs, NEW next, Working(t, next)
          PROVE  lease'[q].holder \in {j, NoJob}
      <3>1. CASE j = t
        <4>1. local'[t] = next
          BY <2>2 DEF Working, Moves, Threads
        <4>2. Returns(local[t], next)
          BY <2>2, <3>1, <4>1 DEF Working, Works, ScansOn, Asks, Obtains,
             Releases, TimesOut
        <4>3. Holding(t, q) /\ local[t].pc \in {"clearRead", "clearPut"}
          BY <3>1, <4>1, <4>2 DEF Returns, Holding
        <4>4. lease[q].holder = t
          BY <1>1, <4>3 DEF LeaseNamesHolder
        <4>5. lease' = lease \/ lease'[q].holder = NoJob
          BY <2>2, <4>3 DEF Working, LeaseWork, Holding
        <4> QED
          BY <3>1, <4>4, <4>5
      <3>2. CASE j # t
        <4>1. local'[j] = local[j]
          BY <2>2, <3>2 DEF Working, Moves, Threads
        <4> QED
          BY <2>1, <2>2, <3>2, <4>1, HandoffKeepsLease DEF Working
      <3> QED
        BY <3>1, <3>2
    <2>3. ASSUME NEW t \in Jobs, NEW x \in Jobs, Giving(t, x)
          PROVE  lease'[q].holder \in {j, NoJob}
      <3>1. j # t /\ local'[j] = local[j]
        BY <2>3 DEF Giving, Grants, Threads, Done
      <3> QED
        BY <2>1, <2>3, <3>1, HandoffKeepsLease DEF Giving
    <2>4. CASE Guarding
      <3>1. local'[j] = local[j]
        BY <2>4, RunningOnly DEF Guarding
      <3> QED
        BY <2>1, <2>4, <3>1 DEF Guarding
    <2> QED
      BY <1>4, <2>2, <2>3, <2>4 DEF Quiet
  <1> QED
    BY <1>1, <1>2, <1>3, <1>4, NextForms

LEMMA InitPoolInv == Init => PoolInv
  <1> SUFFICES ASSUME Init PROVE PoolInv
    OBVIOUS
  <1>1. IInv
    BY InitIInv
  <1>2. \A j \in Jobs : local[j].pc = "new"
    BY DEF Init, Threads
  <1> QED
    BY <1>1, <1>2 DEF PoolInv, LostNamedInLease, HandoffFindsOwnLease

LEMMA NextPoolInv == SafeDeployment /\ PoolInv /\ [Next]_vars => PoolInv'
  <1> SUFFICES ASSUME SafeDeployment, PoolInv, [Next]_vars PROVE PoolInv'
    OBVIOUS
  <1>1. IInv'
    BY NextIInv DEF PoolInv
  <1> QED
    BY <1>1, LostStep, HandoffStep DEF PoolInv

-----------------------------------------------------------------------------
(* The refinement *)

\* A pod whose lease is free, and has not expired, is nobody's at the pool; nor
\* is one that a releaser keeps for a waiter.
LEMMA FreePodUngranted ==
    ASSUME PoolInv, NEW p \in Pods \ everExpired, ~Busy(p)
    PROVE  \A i \in Jobs : LostOrGrantedPod(i) # p
  <1> SUFFICES ASSUME NEW i \in Jobs, LostOrGrantedPod(i) = p PROVE FALSE
    OBVIOUS
  <1>1. p # NoPod
    BY DEF Pods
  <1>2. Holding(i, p) \/ (local[i].pc = "dead" /\ local[i].pod = p)
    BY <1>1 DEF LostOrGrantedPod, CallState, Holding
  <1>3. lease[p].holder = i
    BY <1>2 DEF PoolInv, IInv, LeaseNamesHolder, LostNamedInLease
  <1>4. i # NoJob /\ ~lease[p].expired
    BY ThreadsAssumption DEF PoolInv, IInv, ExpiryOK
  <1> QED
    BY <1>3, <1>4 DEF Busy

LEMMA HandedPodUngranted ==
    ASSUME SafeDeployment, UnconditionalPut, PoolInv, NEW t \in Jobs,
           NEW p \in Pods \ everExpired,
           local[t].pc = "handoff", local[t].pod = p
    PROVE  \A i \in Jobs : LostOrGrantedPod(i) # p
  <1> SUFFICES ASSUME NEW i \in Jobs, LostOrGrantedPod(i) = p PROVE FALSE
    OBVIOUS
  <1>1. p # NoPod
    BY DEF Pods
  <1>2. Holding(i, p) \/ (local[i].pc = "dead" /\ local[i].pod = p)
    BY <1>1 DEF LostOrGrantedPod, CallState, Holding
  <1>3. lease[p].holder = i
    BY <1>2 DEF PoolInv, IInv, LeaseNamesHolder, LostNamedInLease
  <1>4. lease[p].holder \in {t, NoJob} /\ i # NoJob
    BY ThreadsAssumption DEF PoolInv, HandoffFindsOwnLease
  <1>5. i # t
    BY <1>2 DEF Holding
  <1> QED
    BY <1>3, <1>4, <1>5

LEMMA WorkingStep ==
    ASSUME PoolInv, NEW t \in Jobs, NEW next, Working(t, next),
           everExpired' = everExpired
    PROVE  PoolStep
  <1>1. local'[t] = next /\ \A i \in Jobs \ {t} : local'[i] = local[i]
    BY DEF Working, Moves, Threads
  <1>2. \A i \in Jobs \ {t} : SameView(i)
    BY <1>1, SameRecord
  <1>3. JobOK(t, local[t])
    BY DEF PoolInv, IInv, ControlOK
  <1>4. CASE ScansOn(local[t], next)
    <2>1. SameView(t)
      BY <1>1, <1>4 DEF ScansOn, SameView, CallState, LostOrGrantedPod
    <2> QED
      BY <1>2, <2>1, SilentStep
  <1>5. CASE Asks(local[t], next)
    <2>1. CallState(t) = "idle" /\ CallState(t)' = "waiting"
      BY <1>1, <1>5 DEF Asks, CallState
    <2> QED
      BY <1>2, <2>1, AskStep
  <1>6. CASE Obtains(local[t], next)
    <2>1. CallState(t) = "waiting" /\ CallState(t)' = "granted"
      BY <1>1, <1>6 DEF Obtains, CallState
    <2>2. local[t].pod \in Pods /\ ~Busy(local[t].pod)
      BY <1>3, <1>6 DEF Obtains, Working, JobOK
    <2>3. \/ local[t].pod \in everExpired
          \/ \A i \in Jobs : LostOrGrantedPod(i) # local[t].pod
      BY <2>2, FreePodUngranted
    <2> QED
      BY <1>1, <1>2, <1>6, <2>1, <2>2, <2>3, GrantStep DEF Obtains
  <1>7. CASE Releases(local[t], next)
    <2>1. SameView(t)
      BY <1>1, <1>7 DEF Releases, SameView, CallState, LostOrGrantedPod
    <2> QED
      BY <1>2, <2>1, SilentStep
  <1>8. CASE Returns(local[t], next)
    <2>1. CallState(t) = "granted" /\ CallState(t)' = "returned"
      BY <1>1, <1>8 DEF Returns, CallState
    <2> QED
      BY <1>2, <2>1, ReturnStep
  <1>9. CASE TimesOut(local[t], next)
    <2>1. local[t].waiter = NoJob
      BY <1>3, <1>9 DEF TimesOut, JobOK
    <2>2. CallState(t) = "waiting" /\ CallState(t)' = "refused"
      BY <1>1, <1>9, <2>1 DEF TimesOut, CallState
    <2> QED
      BY <1>2, <2>2, RefuseStep
  <1> QED
    BY <1>4, <1>5, <1>6, <1>7, <1>8, <1>9 DEF Working, Works

\* Job x gets pod p if it still waits, and nobody else's call changes.
LEMMA PassedStep ==
    ASSUME PoolInv, NEW x \in Jobs, NEW p \in Pods, everExpired' = everExpired,
           \A i \in Jobs \ {x} : SameView(i),
           local'[x] = IF local[x].pc = "queued"
                       THEN At("running", p, NoVersion, NoJob) ELSE local[x],
           p \in everExpired \/ \A i \in Jobs : LostOrGrantedPod(i) # p
    PROVE  PoolStep
  <1>1. CASE local[x].pc # "queued"
    <2>1. SameView(x)
      BY <1>1, SameRecord
    <2> QED
      BY <2>1, SilentStep
  <1>2. CASE local[x].pc = "queued"
    <2>1. local[x].waiter = NoJob
      BY <1>2 DEF PoolInv, IInv, ControlOK, JobOK
    <2>2. local'[x].pc = "running" /\ local'[x].pod = p
      BY <1>2
    <2>3. CallState(x) = "waiting" /\ CallState(x)' = "granted"
      BY <1>2, <2>1, <2>2 DEF CallState
    <2> QED
      BY <2>2, <2>3, GrantStep
  <1> QED
    BY <1>1, <1>2

LEMMA GivingStep ==
    ASSUME SafeDeployment, PoolInv, NEW t \in Jobs, NEW x \in Jobs, Giving(t, x),
           everExpired' = everExpired
    PROVE  PoolStep
  <1> DEFINE p == local[t].pod
  <1>1. /\ local[t].pc \in {"put", "handoff"} /\ local[t].waiter # NoJob
        /\ p \in Pods
    BY DEF Giving, PoolInv, IInv, ControlOK, JobOK
  <1>2. p \in everExpired \/ \A i \in Jobs : LostOrGrantedPod(i) # p
    BY <1>1, FreePodUngranted, HandedPodUngranted DEF Giving
  <1>3. SameView(t)
    <2>1. local'[t] = Done
      BY DEF Giving, Grants, Threads
    <2> QED
      BY <1>1, <2>1 DEF Done, SameView, CallState, LostOrGrantedPod
  <1>4. \A i \in Jobs \ {t, x} : SameView(i)
    <2>1. \A i \in Jobs \ {t, x} : local'[i] = local[i]
      BY DEF Giving, Grants, Threads
    <2> QED
      BY <2>1, SameRecord
  <1>5. CASE x = t
    <2>1. \A i \in Jobs : SameView(i)
      BY <1>3, <1>4, <1>5
    <2> QED
      BY <2>1, SilentStep
  <1>6. CASE x # t
    <2>1. local'[x] = IF local[x].pc = "queued"
                      THEN At("running", p, NoVersion, NoJob) ELSE local[x]
      BY <1>6 DEF Giving, Grants, Threads
    <2>2. \A i \in Jobs \ {x} : SameView(i)
      BY <1>3, <1>4
    <2> HIDE DEF p
    <2> QED
      BY <1>1, <1>2, <2>1, <2>2, PassedStep
  <1> QED
    BY <1>5, <1>6

LEMMA GuardingStep ==
    ASSUME PoolInv, Guarding, everExpired' = everExpired
    PROVE  PoolStep
  <1>1. CASE \A i \in Jobs : local'[i] = local[i]
    BY <1>1, SameRecord, SilentStep
  <1>2. ASSUME NEW x \in Jobs, NEW p \in everExpired,
               \A i \in Jobs : local'[i] =
                   IF i = x /\ local[x].pc = "queued"
                   THEN At("running", p, NoVersion, NoJob) ELSE local[i]
        PROVE  PoolStep
    <2>1. \A i \in Jobs \ {x} : local'[i] = local[i]
      BY <1>2
    <2>2. \A i \in Jobs \ {x} : SameView(i)
      BY <2>1, SameRecord
    <2>3. p \in Pods
      BY DEF PoolInv, IInv, TypeOK
    <2> QED
      BY <1>2, <2>2, <2>3, PassedStep
  <1> QED
    BY <1>1, <1>2 DEF Guarding

LEMMA InitPool == Init => Pool!PoolInit
  <1> SUFFICES ASSUME Init PROVE Pool!PoolInit
    OBVIOUS
  <1>1. \A j \in Jobs : local[j].pc = "new"
    BY DEF Init, Threads
  <1>2. \A j \in Jobs : CallState(j) = "idle" /\ LostOrGrantedPod(j) = NoPod
    BY <1>1 DEF CallState, LostOrGrantedPod
  <1> QED
    BY <1>2 DEF Init, Pool!PoolInit

LEMMA NextPool ==
    ASSUME SafeDeployment, PoolInv, [Next]_vars
    PROVE  PoolStep
  <1>1. Typed /\ VersionsOK /\ ExpiryOK
    BY DEF PoolInv, IInv, Typed
  <1> QED
    BY <1>1, NextForms, WorkingStep, GivingStep, GuardingStep, ExpireStep,
       CrashStep DEF Quiet

\* What PodPool assumes of its constants.
LEMMA PoolAssumptions == NoPod \notin Pods
  BY DEF Pods

\* The lease manager implements the abstract pool that processJob relies on:
\* with all its leases, reservations, queues and watchdogs, and whatever fails
\* and crashes, a call is granted one pod or refused, gives it back once, and
\* gets no pod that another call has, or had when its worker was lost.
THEOREM PoolImplemented == ASSUME SafeDeployment PROVE Spec => ImplementsPodPool
  <1>1. Init => PoolInv /\ Pool!PoolInit
    BY InitPoolInv, InitPool
  <1>2. PoolInv /\ [Next]_vars => PoolInv'
    BY NextPoolInv
  <1>3. PoolInv /\ [Next]_vars => [Pool!PoolNext]_(Pool!poolVars)
    BY NextPool DEF PoolStep
  <1> QED
    BY <1>1, <1>2, <1>3, PTL DEF Spec, ImplementsPodPool, Pool!PoolSpec

-----------------------------------------------------------------------------
(* Reservations that no call relies on *)

\* A step that makes no reservation of pod p in worker w, and after which every
\* job of w that relied on it still does, leaks none.
LEMMA LeakedBefore ==
    ASSUME NEW w, NEW p, Leaked(w, p)',
           p \in inMemoryHeld'[w] => p \in inMemoryHeld[w],
           \A i \in Jobs : proc[i] = w /\ Claims(i, p)
                              => proc'[i] = w /\ Claims(i, p)'
    PROVE  Leaked(w, p)
  BY DEF Leaked

\* The lease of a leaked pod stays orphaned: nobody may write it, and the job it
\* names is not given the pod.
LEMMA OrphanKept ==
    ASSUME SafeDeployment, PoolInv, Quiet, NEW w \in Workers,
           NEW p \in Pods \ everExpired, Leaked(w, p), Orphaned(p)
    PROVE  Orphaned(p)'
  <1> DEFINE h == lease[p].holder
  <1>1. h \in Jobs /\ h # NoJob /\ Busy(p)
    BY DEF Orphaned, Busy, PoolInv, IInv, ExpiryOK, TypeOK, Leases
  <1>2. ASSUME NEW t \in Jobs, local[t].pc = "handoff", local[t].pod = p,
               UnconditionalPut
        PROVE  FALSE
    <2>1. proc[t] \in Workers
      BY <1>2 DEF PoolInv, IInv, TypeOK, ControlOK, JobOK
    <2>2. proc[t] = w /\ Claims(t, p)
      BY <1>2, <2>1 DEF SafeDeployment, Claims
    <2> QED
      BY <2>2 DEF Leaked
  <1>3. ASSUME NEW t \in Jobs, LeaseWork(t)
        PROVE  lease'[p] = lease[p]
    <2>1. CASE local[t].pod # p
      BY <1>3, <2>1 DEF LeaseWork
    <2>2. CASE local[t].pod = p
      <3>1. local[t].pc # "clearPut"
        BY <2>2 DEF Orphaned, Holding, PoolInv, IInv, LeaseNamesHolder
      <3> QED
        BY <1>1, <1>2, <1>3, <2>2, <3>1 DEF LeaseWork
    <2> QED
      BY <2>1, <2>2
  <1>4. ASSUME NEW t \in Jobs, NEW next, Working(t, next)
        PROVE  lease'[p] = lease[p] /\ ~Holding(h, p)'
    <2>1. lease'[p] = lease[p]
      BY <1>3, <1>4 DEF Working
    <2>2. h \in Threads /\ local'[h] = IF h = t THEN next ELSE local[h]
      BY <1>1, <1>4 DEF Working, Moves, Threads
    <2>3. CASE h # t
      BY <2>1, <2>2, <2>3 DEF Holding, Orphaned
    <2>4. CASE h = t
      <3>1. ~(local[h].pc \in {"running", "clearRead", "clearPut"} /\ local[h].pod = p)
        BY DEF Orphaned, Holding
      <3>2. Works(local[h], next) /\ (local[h].pc = "put" /\ next.pc = "running"
                                        => ~Busy(local[h].pod))
        BY <1>4, <2>4 DEF Working
      <3>3. ~(next.pc \in {"running", "clearRead", "clearPut"} /\ next.pod = p)
        BY <1>1, <3>1, <3>2
        DEF Works, ScansOn, Asks, Obtains, Releases, Returns, TimesOut
      <3> QED
        BY <2>1, <2>2, <2>4, <3>3 DEF Holding
    <2> QED
      BY <2>3, <2>4
  <1>5. ASSUME NEW t \in Jobs, NEW x \in Jobs, Giving(t, x)
        PROVE  lease'[p] = lease[p] /\ ~Holding(h, p)'
    <2>1. lease'[p] = lease[p]
      BY <1>3, <1>5 DEF Giving
    <2>2. local[t].pod # p
      BY <1>1, <1>2, <1>5 DEF Giving
    <2>3. h \in Threads /\ local'[h] = IF h = t THEN Done
               ELSE IF h = x /\ local[x].pc = "queued"
                    THEN At("running", local[t].pod, NoVersion, NoJob) ELSE local[h]
      BY <1>1, <1>5 DEF Giving, Grants, Threads
    <2> QED
      BY <2>1, <2>2, <2>3 DEF Holding, Orphaned, Done
  <1>6. ASSUME Guarding
        PROVE  lease'[p] = lease[p] /\ ~Holding(h, p)'
    <2>1. lease'[p] = lease[p]
      BY <1>6 DEF Guarding
    <2>2. CASE \A i \in Jobs : local'[i] = local[i]
      BY <1>1, <2>1, <2>2 DEF Orphaned, Holding
    <2>3. CASE \E x \in Jobs, q \in everExpired : \A i \in Jobs :
                  local'[i] = IF i = x /\ local[x].pc = "queued"
                              THEN At("running", q, NoVersion, NoJob)
                              ELSE local[i]
      BY <1>1, <2>1, <2>3 DEF Orphaned, Holding
    <2> QED
      BY <1>6, <2>2, <2>3 DEF Guarding
  <1>7. lease'[p] = lease[p] /\ ~Holding(h, p)'
    BY <1>4, <1>5, <1>6 DEF Quiet
  <1> QED
    BY <1>1, <1>7 DEF Orphaned, Holding

\* A job that goes on in its pod, or moves without one, leaks nothing.
LEMMA OwnLeaks ==
    ASSUME NEW t \in Threads, NEW next, Moves(t, next),
           UNCHANGED <<proc, inMemoryHeld>>,
           NEW w, NEW p, Leaked(w, p)',
           t \in Jobs /\ Claims(t, p)
              => /\ next.pod = p
                 /\ next.pc \in {"put", "clearRead", "clearPut", "handoff"}
    PROVE  Leaked(w, p)
  <1>1. ASSUME NEW i \in Jobs, Claims(i, p) PROVE Claims(i, p)'
    <2>1. i \in Threads /\ local'[i] = IF i = t THEN next ELSE local[i]
      BY DEF Moves, Threads
    <2> QED
      BY <1>1, <2>1 DEF Claims
  <1> QED
    BY <1>1, LeakedBefore

\* A scan gives up only the reservation of its own thread, which relies on the
\* pod it reserves.
LEMMA ScanLeaks ==
    ASSUME Typed, NEW t \in Jobs, proc' = proc, NEW queue,
           ScanOutcome(t, proc[t], inMemoryHeld[proc[t]] \ {local[t].pod}, queue),
           NEW w \in Workers, NEW p \in Pods, Leaked(w, p)'
    PROVE  Leaked(w, p)
  <1>1. w \in Procs /\ \A i \in Jobs : i \in Threads
    BY DEF Procs, Threads
  <1>2. \A i \in Jobs \ {t} : local'[i] = local[i]
    BY <1>1 DEF ScanOutcome
  <1>3. CASE proc[t] # w
    <2>1. inMemoryHeld'[w] = inMemoryHeld[w]
      BY <1>1, <1>3 DEF ScanOutcome
    <2> QED
      BY <1>2, <1>3, <2>1, LeakedBefore DEF Claims
  <1>4. CASE proc[t] = w
    <2>1. p \in inMemoryHeld'[w] /\ ~Claims(t, p)'
      BY <1>4 DEF Leaked
    <2>2. p \in inMemoryHeld[w] \ {local[t].pod}
      <3>1. CASE inMemoryHeld'[w] = inMemoryHeld[w] \ {local[t].pod}
        BY <2>1, <3>1
      <3>2. CASE \E q \in Pods :
                    /\ local'[t] = At("read", q, NoVersion, local[t].waiter)
                    /\ inMemoryHeld'[w] = (inMemoryHeld[w] \ {local[t].pod}) \cup {q}
        BY <2>1, <3>2 DEF Claims
      <3> QED
        BY <1>4, <3>1, <3>2 DEF ScanOutcome
    <2>3. ~Claims(t, p)
      BY <2>2 DEF Claims
    <2> QED
      BY <1>2, <2>2, <2>3, LeakedBefore DEF Claims
  <1> QED
    BY <1>3, <1>4

\* A releaser that got its pod for job x: if x is not waiting any more, the
\* lease it wrote names x, and x does not run there.
LEMMA GrantLeaks ==
    ASSUME PoolInv, NEW t \in Jobs, NEW x \in Jobs, proc[x] = proc[t],
           UNCHANGED <<proc, inMemoryHeld>>,
           local[t].pc \in {"put", "handoff"},
           Grants(t, Done, x, local[t].pod), lease'[local[t].pod].holder = x,
           NEW w \in Workers, NEW p \in Pods \ everExpired, Leaked(w, p)'
    PROVE  Leaked(w, p) \/ Orphaned(p)'
  <1>1. \A i \in Jobs : local'[i] =
           IF i = t THEN Done
           ELSE IF i = x /\ local[x].pc = "queued"
                THEN At("running", local[t].pod, NoVersion, NoJob) ELSE local[i]
    BY DEF Grants, Threads
  <1>2. CASE p # local[t].pod \/ proc[t] # w
    <2>1. \A i \in Jobs : proc[i] = w /\ Claims(i, p) => Claims(i, p)'
      BY <1>1, <1>2 DEF Claims
    <2> QED
      BY <2>1, LeakedBefore
  <1>3. CASE p = local[t].pod /\ proc[t] = w
    <2>1. ~(x # t /\ local[x].pc = "queued")
      <3> SUFFICES ASSUME x # t /\ local[x].pc = "queued" PROVE FALSE
        OBVIOUS
      <3>1. Claims(x, p)'
        BY <1>1, <1>3 DEF Claims
      <3> QED
        BY <1>3, <3>1 DEF Leaked
    <2>2. Claims(t, p)
      BY <1>3 DEF Claims
    <2>3. ~Holding(x, p)'
      <3> SUFFICES ASSUME Holding(x, p)' PROVE FALSE
        OBVIOUS
      <3>1. x # t /\ local'[x] = local[x]
        BY <1>1, <2>1 DEF Holding, Done
      <3>2. Claims(x, p)
        BY <3>1 DEF Holding, Claims
      <3> QED
        BY <1>3, <2>2, <3>1, <3>2 DEF PoolInv, IInv, ReservationsExclusive
    <2>4. x # NoJob
      BY ThreadsAssumption
    <2> QED
      BY <1>3, <2>3, <2>4 DEF Orphaned
  <1> QED
    BY <1>2, <1>3

LEMMA ClearedLeaks ==
    ASSUME Typed, NEW t \in Jobs, Cleared(t), proc' = proc,
           local[t].pc \in {"clearRead", "clearPut"},
           NEW w \in Workers, NEW p \in Pods, Leaked(w, p)'
    PROVE  Leaked(w, p)
  <1> DEFINE v == ProcOf(t)
  <1>1. /\ t \in Threads /\ t \notin Sweeps /\ v = proc[t] /\ v \in Procs
        /\ w \in Procs /\ inMemoryHeld \in [Procs -> SUBSET Pods]
    BY ThreadsAssumption
    DEF Typed, TypeOK, ControlOK, JobOK, ProcOf, Procs, Threads
  <1>2. CASE /\ inMemoryHeld' = [inMemoryHeld EXCEPT ![v] = @ \ {local[t].pod}]
             /\ Goto(t, Done)
    <2>1. Moves(t, Done)
      BY <1>1, <1>2, GotoMoves
    <2>2. \A i \in Jobs \ {t} : local'[i] = local[i]
      BY <2>1 DEF Moves, Threads
    <2>3. p \in inMemoryHeld[w] /\ (v = w => p # local[t].pod)
      BY <1>1, <1>2 DEF Leaked
    <2> QED
      BY <1>1, <2>2, <2>3, LeakedBefore DEF Claims
  <1>3. CASE /\ Goto(t, At("handoff", local[t].pod, NoVersion, Head(waiters[v])))
             /\ UNCHANGED inMemoryHeld
    <2> DEFINE next == At("handoff", local[t].pod, NoVersion, Head(waiters[v]))
    <2>1. Moves(t, next)
      BY <1>1, <1>3, GotoMoves
    <2>2. Claims(t, p) => next.pod = p /\ next.pc = "handoff"
      BY DEF Claims
    <2> HIDE DEF next
    <2> QED
      BY <1>1, <1>3, <2>1, <2>2, OwnLeaks
  <1> QED
    BY <1>1, <1>2, <1>3 DEF Cleared

LEMMA JobLeaks ==
    ASSUME PoolInv, NEW t \in Jobs, JobStep(t),
           NEW w \in Workers, NEW p \in Pods \ everExpired, Leaked(w, p)'
    PROVE  Leaked(w, p) \/ Orphaned(p)'
  <1>1. /\ Typed /\ t \in Threads /\ local[t] \in Locals
        /\ UNCHANGED <<proc, everExpired>>
    BY DEF PoolInv, IInv, Typed, TypeOK, Threads, JobStep, ReadLease, TryPut,
       Release, ClearRead, ClearPut, ReleaseHandoff
  <1>2. ASSUME ScanOn(t), local[t].pc \in {"read", "put"} PROVE Leaked(w, p)
    BY <1>1, <1>2, ScanOnEffect, ScanLeaks
  <1>3. ASSUME NEW next, Goto(t, next), UNCHANGED inMemoryHeld,
               next.pod = local[t].pod,
               next.pc \in {"put", "clearRead", "clearPut"}
        PROVE  Leaked(w, p)
    <2>1. Moves(t, next)
      BY <1>1, <1>3, GotoMoves
    <2>2. Claims(t, p) => next.pod = p
      BY <1>3 DEF Claims
    <2> QED
      BY <1>1, <1>3, <2>1, <2>2, OwnLeaks
  <1>4. CASE ReadLease(t)
    <2> DEFINE next == [local[t] EXCEPT !.pc = "put", !.seen = lease[local[t].pod].rv]
    <2>1. /\ local[t].pc = "read"
          /\ ScanOn(t) \/ (Goto(t, next) /\ UNCHANGED inMemoryHeld)
      BY <1>4 DEF ReadLease
    <2>2. next.pod = local[t].pod /\ next.pc = "put"
      BY <1>1 DEF Locals
    <2> HIDE DEF next
    <2> QED
      BY <1>2, <1>3, <2>1, <2>2
  <1>5. CASE Release(t)
    <2> DEFINE next == [local[t] EXCEPT !.pc = "clearRead"]
    <2>1. Goto(t, next) /\ UNCHANGED inMemoryHeld
      BY <1>5 DEF Release
    <2>2. next.pod = local[t].pod /\ next.pc = "clearRead"
      BY <1>1 DEF Locals
    <2> HIDE DEF next
    <2> QED
      BY <1>3, <2>1, <2>2
  <1>6. CASE ClearRead(t)
    <2> DEFINE next == [local[t] EXCEPT !.pc = "clearPut",
                                        !.seen = lease[local[t].pod].rv]
    <2>1. /\ local[t].pc = "clearRead"
          /\ Cleared(t) \/ (Goto(t, next) /\ UNCHANGED inMemoryHeld)
      BY <1>6 DEF ClearRead
    <2>2. next.pod = local[t].pod /\ next.pc = "clearPut"
      BY <1>1 DEF Locals
    <2> HIDE DEF next
    <2> QED
      BY <1>1, <1>3, <2>1, <2>2, ClearedLeaks
  <1>7. CASE ClearPut(t)
    BY <1>1, <1>7, ClearedLeaks DEF ClearPut
  <1>8. ASSUME NEW x \in Jobs, NEW rv, NEW ok \in BOOLEAN, ok,
               PutLease(local[t].pod, x, rv, ok), UNCHANGED inMemoryHeld,
               local[t].pc \in {"put", "handoff"}, local[t].waiter = x,
               ResolveWaiter(t, Done, x, local[t].pod)
        PROVE  Leaked(w, p) \/ Orphaned(p)'
    <2>1. proc[x] = proc[t] /\ local[t].pod \in Pods /\ x \in Jobs \cup {NoJob}
      BY <1>1, <1>8, ThreadsAssumption DEF Typed, ControlOK, JobOK
    <2>2. lease'[local[t].pod].holder = x
      <3> DEFINE q == local[t].pod
      <3> HIDE DEF q
      <3>1. PutLease(q, x, rv, ok) /\ q \in Pods
        BY <1>8, <2>1 DEF q
      <3>2. lease'[q].holder = x
        BY <1>1, <1>8, <2>1, <3>1, PutHolders
      <3> QED
        BY <3>2 DEF q
    <2>3. Grants(t, Done, x, local[t].pod)
      BY <1>1, <1>8, <2>1, ResolveGrants
    <2> QED
      BY <1>1, <1>8, <2>1, <2>2, <2>3, GrantLeaks
  <1>9. CASE TryPut(t)
    <2>1. local[t].pc = "put"
      BY <1>9 DEF TryPut
    <2>2. PICK ok \in BOOLEAN :
            /\ PutLease(local[t].pod, Context(t), local[t].seen, ok)
            /\ \/ ok /\ Acquired(t) /\ UNCHANGED inMemoryHeld
               \/ ~ok /\ ScanOn(t)
      BY <1>9 DEF TryPut
    <2>3. CASE ok /\ Acquired(t) /\ UNCHANGED inMemoryHeld
      <3>1. CASE Goto(t, At("running", local[t].pod, NoVersion, NoJob))
        <4> DEFINE next == At("running", local[t].pod, NoVersion, NoJob)
        <4>1. Moves(t, next)
          BY <1>1, <3>1, GotoMoves
        <4>2. \A i \in Jobs : Claims(i, p) => Claims(i, p)'
          BY <4>1 DEF Moves, Claims, Threads
        <4> QED
          BY <1>1, <2>3, <4>2, LeakedBefore
      <3>2. CASE /\ local[t].waiter # NoJob
                 /\ ResolveWaiter(t, Done, local[t].waiter, local[t].pod)
        <4>1. local[t].waiter \in Jobs /\ Context(t) = local[t].waiter
          BY <1>1, <3>2 DEF Locals, Context
        <4> QED
          BY <1>8, <2>1, <2>2, <2>3, <3>2, <4>1
      <3> QED
        BY <2>3, <3>1, <3>2 DEF Acquired
    <2> QED
      BY <1>2, <2>1, <2>2, <2>3
  <1>10. CASE ReleaseHandoff(t)
    <2>1. local[t].pc = "handoff" /\ local[t].waiter \in Jobs
      BY <1>1, <1>10 DEF ReleaseHandoff, Locals, Typed, ControlOK, JobOK
    <2>2. PICK ok \in BOOLEAN :
            /\ PutLease(local[t].pod, local[t].waiter, NoVersion, ok)
            /\ \/ /\ ok /\ UNCHANGED inMemoryHeld
                  /\ ResolveWaiter(t, Done, local[t].waiter, local[t].pod)
               \/ Scan(t, proc[t], 1, inMemoryHeld[proc[t]] \ {local[t].pod},
                       <<local[t].waiter>> \o waiters[proc[t]])
      BY <1>10 DEF ReleaseHandoff
    <2>3. CASE Scan(t, proc[t], 1, inMemoryHeld[proc[t]] \ {local[t].pod},
                    <<local[t].waiter>> \o waiters[proc[t]])
      <3> DEFINE queue == <<local[t].waiter>> \o waiters[proc[t]]
      <3>1. ScanOutcome(t, proc[t], inMemoryHeld[proc[t]] \ {local[t].pod}, queue)
        BY <1>1, <2>1, <2>3, HandoffScanEffect
      <3> HIDE DEF queue
      <3> QED
        BY <1>1, <3>1, ScanLeaks
    <2>4. CASE /\ ok /\ UNCHANGED inMemoryHeld
               /\ ResolveWaiter(t, Done, local[t].waiter, local[t].pod)
      BY <1>8, <2>1, <2>2, <2>4
    <2> QED
      BY <2>2, <2>3, <2>4
  <1> QED
    BY <1>4, <1>5, <1>6, <1>7, <1>9, <1>10 DEF JobStep

\* A sweep drops and makes reservations only of pods whose lease has expired.
LEMMA SweepLeaks ==
    ASSUME PoolInv, NEW t \in Sweeps, WatchdogStep(t),
           NEW w \in Workers, NEW p \in Pods \ everExpired, Leaked(w, p)'
    PROVE  Leaked(w, p)
  <1> DEFINE q == local[t].pod
  <1>1. /\ Typed /\ t \in Threads /\ t \notin Jobs /\ proc' = proc
        /\ inMemoryHeld \in [Procs -> SUBSET Pods] /\ w \in Procs
        /\ ProcOf(t) \in Procs
    BY SweepThread DEF PoolInv, IInv, Typed, TypeOK, Procs, WatchdogStep,
       WatchdogTick, WatchdogCheck, ClearRead, ClearPut, WatchdogFree,
       WatchdogHandoff
  <1>2. ASSUME p \in inMemoryHeld'[w] => p \in inMemoryHeld[w],
               \A i \in Jobs : local'[i] = local[i] \/ local[i].pc = "queued"
        PROVE  Leaked(w, p)
    BY <1>1, <1>2, LeakedBefore DEF Claims
  <1>3. ASSUME NEW next, Goto(t, next)
        PROVE  \A i \in Jobs : local'[i] = local[i]
    BY <1>1, <1>3, GotoMoves DEF Moves, Threads
  <1>4. CASE WatchdogTick(t) \/ WatchdogCheck(t)
    <2>1. inMemoryHeld' = inMemoryHeld /\ \E next : Goto(t, next)
      BY <1>4 DEF WatchdogTick, WatchdogCheck
    <2> QED
      BY <1>2, <1>3, <2>1
  <1>5. CASE ClearRead(t) \/ ClearPut(t)
    <2>1. CASE Cleared(t)
      <3>1. inMemoryHeld' = inMemoryHeld
        BY <1>1, <2>1 DEF Cleared
      <3>2. \A i \in Jobs : local'[i] = local[i]
        BY <1>1, <2>1, ClearedEffect DEF Threads
      <3> QED
        BY <1>2, <3>1, <3>2
    <2>2. CASE inMemoryHeld' = inMemoryHeld /\ \E next : Goto(t, next)
      BY <1>2, <1>3, <2>2
    <2> QED
      BY <1>5, <2>1, <2>2 DEF ClearRead, ClearPut
  <1>6. CASE WatchdogFree(t)
    <2>1. /\ inMemoryHeld' = [inMemoryHeld EXCEPT ![ProcOf(t)] = @ \ {q}]
          /\ \E next : Goto(t, next)
      BY <1>6 DEF WatchdogFree
    <2>2. p \in inMemoryHeld'[w] => p \in inMemoryHeld[w]
      BY <1>1, <2>1
    <2> QED
      BY <1>2, <1>3, <2>1, <2>2
  <1>7. CASE WatchdogHandoff(t)
    <2> DEFINE x == local[t].waiter
    <2>1. /\ local[t].pc = "handoff" /\ q \in everExpired /\ x \in Jobs
      BY <1>1, <1>7 DEF WatchdogHandoff, PoolInv, IInv, ExpiryOK, Typed, TypeOK,
         ControlOK, WatchdogOK, Locals
    <2>2. /\ \/ ResolveWaiter(t, NextCheck(q), x, q)
             \/ Goto(t, NextCheck(q))
          /\ \/ inMemoryHeld' = [inMemoryHeld EXCEPT ![ProcOf(t)] = @ \cup {q}]
             \/ inMemoryHeld' = inMemoryHeld
      BY <1>7 DEF WatchdogHandoff
    <2>3. p \in inMemoryHeld'[w] => p \in inMemoryHeld[w]
      BY <1>1, <2>1, <2>2
    <2>4. CASE ResolveWaiter(t, NextCheck(q), x, q)
      <3>1. Grants(t, NextCheck(q), x, q)
        BY <1>1, <2>1, <2>4, ResolveGrants
      <3>2. \A i \in Jobs : local'[i] = local[i] \/ local[i].pc = "queued"
        BY <1>1, <3>1 DEF Grants, Threads
      <3> QED
        BY <1>2, <2>3, <3>2
    <2> QED
      BY <1>2, <1>3, <2>2, <2>3, <2>4
  <1> QED
    BY <1>4, <1>5, <1>6, <1>7 DEF WatchdogStep

LEMMA LeaksStep ==
    ASSUME SafeDeployment, PoolInv, LeaksNamedInLease, [Next]_vars
    PROVE  LeaksNamedInLease'
  <1> SUFFICES ASSUME NEW w \in Workers, NEW p \in Pods \ everExpired',
                      Leaked(w, p)'
               PROVE  Orphaned(p)'
    BY DEF LeaksNamedInLease
  <1>1. Typed /\ VersionsOK /\ ExpiryOK
    BY DEF PoolInv, IInv, Typed
  <1>2. ASSUME Quiet, Leaked(w, p) \/ Orphaned(p)'
        PROVE  Orphaned(p)'
    <2>1. p \in Pods \ everExpired
      BY <1>2 DEF Quiet
    <2> QED
      BY <1>2, <2>1, OrphanKept DEF LeaksNamedInLease
  <1>3. ASSUME NEW j \in Jobs, NEW v \in Workers, Start(j, v) PROVE Orphaned(p)'
    <2>1. /\ proc' = [proc EXCEPT ![j] = v] /\ local[j].pc = "new"
          /\ proc \in [Jobs -> Workers \cup {NoProc}]
          /\ ScanOutcome(j, v, inMemoryHeld[v], waiters[v])
          /\ w \in Procs
      BY <1>1, <1>3, StartEffect DEF Start, Typed, TypeOK, Procs
    <2>2. \A i \in Jobs : Claims(i, p) => i # j
      BY <2>1 DEF Claims
    <2>3. \A i \in Jobs \ {j} : local'[i] = local[i] /\ proc'[i] = proc[i]
      BY <2>1 DEF ScanOutcome, Threads
    <2>4. p \in inMemoryHeld'[w] => p \in inMemoryHeld[w]
      <3>1. CASE v # w
        BY <2>1, <3>1 DEF ScanOutcome
      <3>2. CASE v = w
        <4>1. proc'[j] = w
          BY <2>1, <3>2
        <4>2. ~Claims(j, p)'
          BY <4>1 DEF Leaked
        <4>3. CASE inMemoryHeld'[w] = inMemoryHeld[w]
          BY <4>3
        <4>4. CASE \E q \in Pods :
                      /\ local'[j] = At("read", q, NoVersion, local[j].waiter)
                      /\ inMemoryHeld'[w] = inMemoryHeld[w] \cup {q}
          BY <4>2, <4>4 DEF Claims
        <4> QED
          BY <2>1, <3>2, <4>3, <4>4 DEF ScanOutcome
      <3> QED
        BY <3>1, <3>2
    <2>5. Leaked(w, p)
      <3>1. \A i \in Jobs : proc[i] = w /\ Claims(i, p)
                               => proc'[i] = w /\ Claims(i, p)'
        BY <2>2, <2>3 DEF Claims
      <3> QED
        BY <2>4, <3>1, LeakedBefore
    <2> QED
      BY <1>1, <1>2, <1>3, <2>5, StartQuiet
  <1>4. ASSUME NEW j \in Jobs, JobStep(j) PROVE Orphaned(p)'
    <2>1. Quiet
      BY <1>1, <1>4, ReadLeaseQuiet, TryPutQuiet, ReleaseQuiet, ClearReadQuiet,
         ClearPutQuiet, ReleaseHandoffQuiet DEF JobStep
    <2>2. p \in Pods \ everExpired
      BY <2>1 DEF Quiet
    <2> QED
      BY <1>2, <1>4, <2>1, <2>2, JobLeaks
  <1>5. ASSUME NEW j \in Jobs, Timeout(j) PROVE Orphaned(p)'
    <2>1. /\ UNCHANGED <<proc, inMemoryHeld>>
          /\ \A i \in Jobs : local'[i] = local[i] \/ local[i].pc = "queued"
      BY <1>1, <1>5 DEF Timeout, Typed, TypeOK, Threads
    <2>2. Leaked(w, p)
      BY <2>1, LeakedBefore DEF Claims
    <2> QED
      BY <1>1, <1>2, <1>5, <2>2, TimeoutQuiet
  <1>6. ASSUME NEW t \in Sweeps, WatchdogStep(t) PROVE Orphaned(p)'
    <2>1. Quiet
      BY <1>1, <1>6, WatchdogQuiet
    <2>2. p \in Pods \ everExpired
      BY <2>1 DEF Quiet
    <2> QED
      BY <1>2, <1>6, <2>1, <2>2, SweepLeaks
  <1>7. ASSUME NEW q \in Pods, Expire(q) PROVE Orphaned(p)'
    <2>1. /\ UNCHANGED <<proc, inMemoryHeld, local>>
          /\ p \in Pods \ everExpired /\ lease'[p].holder = lease[p].holder
      BY <1>1, <1>7 DEF Expire, Typed, TypeOK, Leases
    <2>2. Leaked(w, p)
      BY <2>1, LeakedBefore DEF Claims
    <2> QED
      BY <2>1, <2>2 DEF LeaksNamedInLease, Orphaned, Holding
  <1>8. ASSUME NEW v \in Workers, Crash(v) PROVE Orphaned(p)'
    <2>1. /\ UNCHANGED <<proc, everExpired, lease>> /\ v \in Procs /\ w \in Procs
          /\ inMemoryHeld' = [inMemoryHeld EXCEPT ![v] = {}]
          /\ inMemoryHeld \in [Procs -> SUBSET Pods]
      BY <1>1, <1>8 DEF Crash, Typed, TypeOK, Procs
    <2>2. v # w /\ p \in inMemoryHeld[w]
      BY <2>1 DEF Leaked
    <2>3. \A i \in Jobs : proc[i] = w => local'[i] = local[i]
      BY <1>8, <2>2, ThreadsAssumption DEF Crash, Threads
    <2>4. Leaked(w, p)
      BY <2>1, <2>2, <2>3, LeakedBefore DEF Claims
    <2>5. Orphaned(p)
      BY <2>1, <2>4 DEF LeaksNamedInLease
    <2>6. \A i \in Jobs : local'[i] = local[i] \/ local'[i] = Abandoned(i)
      BY <1>8, ThreadsAssumption DEF Crash, Threads
    <2>7. lease[p].holder \in Jobs
      BY <1>1, <2>1, <2>5 DEF Orphaned, Typed, TypeOK, Leases
    <2> QED
      BY <2>1, <2>5, <2>6, <2>7, LostRecord DEF Orphaned, Holding
  <1>9. CASE UNCHANGED vars
    <2>1. Leaked(w, p) /\ p \in Pods \ everExpired
      BY <1>9 DEF vars, Leaked, Claims
    <2> QED
      BY <1>9, <2>1 DEF vars, LeaksNamedInLease, Orphaned, Holding
  <1> QED
    BY <1>3, <1>4, <1>5, <1>6, <1>7, <1>8, <1>9 DEF Next

\* A reservation that no call of its worker relies on is one of a pod whose lease
\* is orphaned, whatever handoffs are refused, calls fail and workers crash: the
\* watchdog, which frees the pods of such leases once their TTL is over, finds
\* every pod that inMemoryHeld has lost.
THEOREM LeaksAreOrphans ==
    ASSUME SafeDeployment PROVE Spec => []LeaksNamedInLease
  <1>1. Init => PoolInv /\ LeaksNamedInLease
    <2>1. Init => \A w \in Workers : inMemoryHeld[w] = {}
      BY DEF Init, Procs
    <2> QED
      BY <2>1, InitPoolInv DEF LeaksNamedInLease, Leaked
  <1>2. PoolInv /\ LeaksNamedInLease /\ [Next]_vars
           => PoolInv' /\ LeaksNamedInLease'
    BY NextPoolInv, LeaksStep
  <1> QED
    BY <1>1, <1>2, PTL DEF Spec

-----------------------------------------------------------------------------
(* The steps of a worker that is alone *)

\* Worker w has run alone and undisturbed, and does so in this step.
Calm(w) == w \in Workers /\ QueueInv /\ Alone(w) /\ Alone(w)'

LEMMA AloneBefore ==
    ASSUME Typed, NEW w \in Workers, Alone(w)', [Next]_vars
    PROVE  Alone(w)
  <1>1. /\ faults \in Nat /\ crashes \in Nat /\ MaxFaults \in Nat
        /\ proc \in [Jobs -> Workers \cup {NoProc}]
    BY OptionsAssumption DEF Typed, TypeOK
  <1> DEFINE Before == /\ everExpired \subseteq everExpired'
                       /\ faults' = faults \/ faults' = faults + 1
                       /\ crashes' = crashes \/ crashes' = crashes + 1
                       /\ \A j \in Jobs : proc'[j] = proc[j] \/ proc[j] = NoProc
  <1>2. ASSUME NEW ok, GetLease(ok) PROVE faults' = faults \/ faults' = faults + 1
    BY <1>2 DEF GetLease, Fault
  <1>3. ASSUME NEW p, NEW h, NEW rv, NEW ok, PutLease(p, h, rv, ok)
        PROVE  faults' = faults \/ faults' = faults + 1
    BY <1>3 DEF PutLease, Fault
  <1>4. ASSUME NEW t, ReadLease(t) \/ ClearRead(t) \/ WatchdogCheck(t) PROVE Before
    BY <1>2, <1>4 DEF ReadLease, ClearRead, WatchdogCheck
  <1>5. ASSUME NEW t, TryPut(t) \/ ClearPut(t) \/ ReleaseHandoff(t)
                      \/ WatchdogHandoff(t)
        PROVE  Before
    BY <1>3, <1>5 DEF TryPut, ClearPut, ReleaseHandoff, WatchdogHandoff
  <1>6. ASSUME NEW t, Release(t) \/ WatchdogTick(t) \/ WatchdogFree(t) \/ Timeout(t)
        PROVE  Before
    BY <1>6 DEF Release, WatchdogTick, WatchdogFree, Timeout
  <1>7. ASSUME NEW j \in Jobs, NEW v \in Workers, Start(j, v) PROVE Before
    <2>1. proc[j] = NoProc
      BY <1>7 DEF Start, Typed, ControlOK, JobOK
    <2> QED
      BY <1>1, <1>7, <2>1 DEF Start
  <1>8. ASSUME NEW p, Expire(p) PROVE Before
    BY <1>8 DEF Expire
  <1>9. ASSUME NEW v, Crash(v) PROVE Before
    BY <1>9 DEF Crash
  <1>10. CASE UNCHANGED vars
    BY <1>10 DEF vars, Alone
  <1>11. CASE Before
    BY <1>1, <1>11 DEF Alone
  <1> HIDE DEF Before
  <1> QED
    BY <1>4, <1>5, <1>6, <1>7, <1>8, <1>9, <1>10, <1>11
    DEF Next, JobStep, WatchdogStep

Stays(w)  == inMemoryHeld'[w] = inMemoryHeld[w] /\ waiters'[w] = waiters[w]
Others(t) == \A u \in Threads \ {t} : local'[u] = local[u]
Holds     == {"running", "clearRead", "clearPut"}
Reserves  == {"read", "put"} \cup Holds

\* Job j reserves its first pod, or joins the queue.
Enters(j, w) ==
    /\ local[j].pc = "new" /\ lease' = lease /\ Others(j)
    /\ \/ \E p \in Pods \ inMemoryHeld[w] :
             /\ local'[j] = At("read", p, NoVersion, NoJob)
             /\ inMemoryHeld'[w] = inMemoryHeld[w] \cup {p}
             /\ waiters'[w] = waiters[w]
       \/ /\ inMemoryHeld'[w] = Pods /\ inMemoryHeld[w] = Pods
          /\ local'[j] = At("queued", NoPod, NoVersion, NoJob)

\* Job j goes on in the pod it has reserved; its lease is written when it is
\* found free.
Proceeds(j, w) ==
    /\ Stays(w) /\ Others(j)
    /\ local[j].pc \in Reserves /\ local'[j].pc \in Reserves
    /\ local'[j].pod = local[j].pod /\ local'[j].waiter = local[j].waiter
    /\ local[j].pc \in Holds => local'[j].pc \in Holds
    /\ \/ /\ lease' = lease
          /\ local'[j].pc \in {"put", "clearPut"}
                => local'[j].seen = lease[local[j].pod].rv
       \/ /\ local[j].pc = "put" /\ local'[j].pc = "running"
          /\ \A q \in Pods \ {local[j].pod} : lease'[q] = lease[q]

\* Job j has cleared its lease.
Clears(j, w) ==
    /\ Others(j) /\ local[j].pc = "clearPut"
    /\ \A q \in Pods \ {local[j].pod} : lease'[q] = lease[q]
    /\ lease'[local[j].pod].holder = NoJob
    /\ \/ /\ waiters'[w] = <<>>
          /\ inMemoryHeld'[w] = inMemoryHeld[w] \ {local[j].pod}
          /\ local'[j] = Done
       \/ /\ waiters[w] # <<>> /\ waiters'[w] = Tail(waiters[w])
          /\ inMemoryHeld'[w] = inMemoryHeld[w]
          /\ local'[j] = At("handoff", local[j].pod, NoVersion, Head(waiters[w]))

\* Job j has got a pod for its waiter, by a handoff or by a scan after one.
Gives(j, w) ==
    /\ local[j].pc \in {"put", "handoff"} /\ local[j].waiter # NoJob
    /\ \A q \in Pods \ {local[j].pod} : lease'[q] = lease[q]
    /\ inMemoryHeld'[w] = inMemoryHeld[w]
    /\ waiters'[w] = IF local[j].pc = "put" THEN Rest(waiters[w]) ELSE waiters[w]
    /\ Grants(j, Done, local[j].waiter, local[j].pod)

\* Job j's handoff is refused: it puts the waiter back and scans for it.
Retries(j, w) ==
    /\ local[j].pc = "handoff" /\ local[j].waiter # NoJob
    /\ lease' = lease /\ Others(j)
    /\ waiters'[w] = <<local[j].waiter>> \o waiters[w]
    /\ \E q \in (Pods \ inMemoryHeld[w]) \cup {local[j].pod} :
          /\ local'[j] = At("read", q, NoVersion, local[j].waiter)
          /\ inMemoryHeld'[w] = (inMemoryHeld[w] \ {local[j].pod}) \cup {q}

\* Job j leaves the queue at its deadline.
Leaves(j, w) ==
    /\ lease' = lease /\ inMemoryHeld'[w] = inMemoryHeld[w] /\ Others(j)
    /\ \E k \in 1 .. Len(waiters[w]) : waiters'[w] = Splice(waiters[w], k)
    /\ \/ local'[j] = local[j]
       \/ local[j].pc = "queued"
          /\ local'[j] = At("rejected", NoPod, NoVersion, NoJob)

Rests(w) == lease' = lease /\ Stays(w) /\ \A i \in Jobs : local'[i] = local[i]

AloneStep(w) ==
    \/ Rests(w)
    \/ \E j \in Jobs : \/ Enters(j, w) \/ Proceeds(j, w) \/ Clears(j, w)
                       \/ Gives(j, w) \/ Retries(j, w) \/ Leaves(j, w)

-----------------------------------------------------------------------------
(* Facts about such a worker *)

LEMMA CalmTyped ==
    ASSUME NEW w, Calm(w)
    PROVE  /\ Typed /\ w \in Workers /\ w \in Procs
           /\ inMemoryHeld \in [Procs -> SUBSET Pods]
           /\ waiters \in [Procs -> Seq(Jobs)] /\ waiters[w] \in Seq(Jobs)
           /\ local \in [Threads -> Locals]
           /\ \A j \in Jobs : j \in Threads /\ JobOK(j, local[j])
  BY DEF Calm, QueueInv, IInv, Typed, TypeOK, ControlOK, Procs, Threads

\* A job that has begun is the worker's, and shares no reservation.
LEMMA WorkersJob ==
    ASSUME NEW w, Calm(w), NEW j \in Jobs, local[j].pc # "new"
    PROVE  proc[j] = w
  BY CalmTyped DEF Calm, Alone, JobOK

LEMMA OwnReservation ==
    ASSUME NEW w, Calm(w), NEW i \in Jobs, NEW j \in Jobs,
           local[i].pc \in Reserves \cup {"handoff"},
           local[j].pc \in Reserves \cup {"handoff"},
           local[i].pod = local[j].pod
    PROVE  i = j /\ local[i].pod \in inMemoryHeld[w] /\ local[i].pod \in Pods
  <1> DEFINE p == local[i].pod
  <1>1. proc[i] = w /\ proc[j] = w
    BY WorkersJob DEF Reserves, Holds
  <1>2. Claims(i, p) /\ Claims(j, p)
    BY DEF Claims, Reserves, Holds
  <1>3. p \in Pods /\ p \notin everExpired
    BY CalmTyped DEF Calm, Alone, JobOK, Reserves, Holds
  <1> QED
    BY <1>1, <1>2, <1>3 DEF Calm, QueueInv, IInv, ReservationsExclusive

\* The lease of a pod that j has reserved, and does not hold yet, is free.
LEMMA ReservedIsFree ==
    ASSUME NEW w, Calm(w), NEW j \in Jobs, local[j].pc \in {"read", "put", "handoff"}
    PROVE  lease[local[j].pod].holder = NoJob
  BY CalmTyped DEF Calm, QueueInv, AloneInv, LeasesReserved, JobOK

LEMMA NoFault ==
    ASSUME NEW w, Calm(w), NEW ok \in BOOLEAN, GetLease(ok)
    PROVE  ok /\ lease' = lease
  BY DEF Calm, Alone, GetLease, Fault

\* An admitted PUT succeeds, and one that is not changes nothing.
LEMMA PutSucceeds ==
    ASSUME NEW w, Calm(w), NEW p \in Pods,
           NEW h \in Jobs \cup {NoJob}, NEW rv, NEW ok \in BOOLEAN,
           PutLease(p, h, rv, ok)
    PROVE  /\ ok <=> Admitted(p, rv)
           /\ ~ok => lease' = lease
           /\ \A q \in Pods \ {p} : lease'[q] = lease[q]
           /\ ok => lease'[p].holder = h
  <1>1. (ok /\ Admitted(p, rv) /\ Write(p, h)) \/ (~ok /\ ~Admitted(p, rv) /\ lease' = lease)
    BY DEF Calm, Alone, PutLease, Fault
  <1>2. Write(p, h) => lease'[p].holder = h /\ \A q \in Pods \ {p} : lease'[q] = lease[q]
    BY CalmTyped DEF Typed, TypeOK, Write
  <1> QED
    BY <1>1, <1>2

\* Whoever writes with the version it has read is not refused.
LEMMA CurrentAdmitted ==
    ASSUME NEW w, Calm(w), NEW j \in Jobs, local[j].pc \in {"put", "clearPut"}
    PROVE  Admitted(local[j].pod, local[j].seen)
  <1>1. j \in Threads /\ local[j].seen = lease[local[j].pod].rv
    BY CalmTyped DEF Calm, QueueInv, AloneInv, VersionsCurrent
  <1>2. local[j].seen \in 1 .. lease[local[j].pod].rv /\ lease[local[j].pod].rv \in Nat
    BY <1>1, CalmTyped
    DEF Calm, QueueInv, IInv, VersionsOK, JobOK, Typed, TypeOK, Leases
  <1> QED
    BY <1>1, <1>2 DEF Admitted

-----------------------------------------------------------------------------
(* What the actions do then *)

\* Where the scan of job j leads in worker w, when held is what it has left.
LEMMA ScanPlaces ==
    ASSUME NEW w, Calm(w), NEW j \in Jobs, NEW held \in SUBSET Pods, NEW queue,
           Scan(j, w, 1, held, queue)
    PROVE  /\ Others(j)
           /\ \/ \E p \in Pods \ held :
                    /\ local'[j] = At("read", p, NoVersion, local[j].waiter)
                    /\ inMemoryHeld'[w] = held \cup {p} /\ waiters'[w] = queue
              \/ /\ held = Pods /\ inMemoryHeld'[w] = held
                 /\ \/ /\ local[j].waiter = NoJob
                       /\ local'[j] = At("queued", NoPod, NoVersion, NoJob)
                    \/ local[j].waiter # NoJob
  <1>1. Free(held, 1) = Pods \ held /\ First(held, 1) \subseteq Pods \ held
    BY DEF Free, First, Pods
  <1>2. ASSUME NEW next, Goto(j, next) PROVE local'[j] = next /\ Others(j)
    BY <1>2, CalmTyped DEF Goto, Others
  <1>3. CASE \E p \in First(held, 1) :
               /\ inMemoryHeld' = [inMemoryHeld EXCEPT ![w] = held \cup {p}]
               /\ waiters' = [waiters EXCEPT ![w] = queue]
               /\ Goto(j, At("read", p, NoVersion, local[j].waiter))
    <2>1. PICK p \in Pods \ held :
               /\ inMemoryHeld' = [inMemoryHeld EXCEPT ![w] = held \cup {p}]
               /\ waiters' = [waiters EXCEPT ![w] = queue]
               /\ Goto(j, At("read", p, NoVersion, local[j].waiter))
      BY <1>1, <1>3
    <2>2. inMemoryHeld'[w] = held \cup {p} /\ waiters'[w] = queue
      BY <2>1, CalmTyped
    <2> QED
      BY <1>2, <2>1, <2>2
  <1>4. CASE /\ Free(held, 1) = {} /\ local[j].waiter = NoJob
             /\ inMemoryHeld' = [inMemoryHeld EXCEPT ![w] = held]
             /\ Goto(j, At("queued", NoPod, NoVersion, NoJob))
    <2>1. held = Pods /\ inMemoryHeld'[w] = held
      BY <1>1, <1>4, CalmTyped
    <2> QED
      BY <1>2, <1>4, <2>1
  <1>5. CASE /\ Free(held, 1) = {} /\ local[j].waiter # NoJob
             /\ inMemoryHeld' = [inMemoryHeld EXCEPT ![w] = held]
             /\ Goto(j, Done)
    <2>1. held = Pods /\ inMemoryHeld'[w] = held
      BY <1>1, <1>5, CalmTyped
    <2> QED
      BY <1>2, <1>5, <2>1
  <1> QED
    BY <1>3, <1>4, <1>5 DEF Scan

LEMMA EntersStep ==
    ASSUME NEW w, Calm(w), NEW j \in Jobs, NEW v \in Workers, Start(j, v)
    PROVE  Enters(j, w)
  <1>1. /\ local[j].pc = "new" /\ lease' = lease /\ local[j].waiter = NoJob
        /\ Scan(j, v, 1, inMemoryHeld[v], waiters[v])
        /\ proc'[j] = v
    BY CalmTyped DEF Start, JobOK, Typed, TypeOK
  <1>2. v = w
    BY <1>1, ThreadsAssumption DEF Calm, Alone, Procs
  <1> DEFINE held == inMemoryHeld[w]
  <1> DEFINE queue == waiters[w]
  <1>3. held \in SUBSET Pods /\ Scan(j, w, 1, held, queue)
    BY <1>1, <1>2, CalmTyped
  <1> HIDE DEF held, queue
  <1>4. /\ Others(j)
        /\ \/ \E p \in Pods \ held :
                 /\ local'[j] = At("read", p, NoVersion, NoJob)
                 /\ inMemoryHeld'[w] = held \cup {p} /\ waiters'[w] = queue
           \/ /\ held = Pods /\ inMemoryHeld'[w] = held
              /\ local'[j] = At("queued", NoPod, NoVersion, NoJob)
    BY <1>1, <1>3, ScanPlaces
  <1> QED
    BY <1>1, <1>4 DEF Enters, held, queue

LEMMA ReadProceeds ==
    ASSUME NEW w, Calm(w), NEW j \in Jobs, ReadLease(j)
    PROVE  Proceeds(j, w)
  <1> DEFINE next == [local[j] EXCEPT !.pc = "put", !.seen = lease[local[j].pod].rv]
  <1>1. PICK ok \in BOOLEAN :
          /\ GetLease(ok)
          /\ \/ Goto(j, next) /\ UNCHANGED <<inMemoryHeld, waiters, timer>>
             \/ (~ok \/ Busy(local[j].pod)) /\ ScanOn(j)
    BY DEF ReadLease
  <1>2. /\ local[j] \in Locals /\ local[j].pc = "read"
        /\ ok /\ lease' = lease /\ ~Busy(local[j].pod)
    BY <1>1, NoFault, ReservedIsFree, CalmTyped DEF ReadLease, Busy
  <1>3. Goto(j, next) /\ UNCHANGED <<inMemoryHeld, waiters>>
    BY <1>1, <1>2
  <1>4. /\ next.pc = "put" /\ next.pod = local[j].pod
        /\ next.waiter = local[j].waiter /\ next.seen = lease[local[j].pod].rv
    BY <1>2 DEF Locals
  <1> HIDE DEF next
  <1>5. local'[j] = next /\ Others(j)
    BY <1>3, CalmTyped DEF Goto, Others
  <1> QED
    BY <1>2, <1>3, <1>4, <1>5 DEF Proceeds, Stays, Reserves, Holds

LEMMA ReleaseProceeds ==
    ASSUME NEW w, Calm(w), NEW j \in Jobs, Release(j) \/ ClearRead(j)
    PROVE  Proceeds(j, w)
  <1>1. local[j] \in Locals
    BY CalmTyped
  <1>2. ASSUME NEW next, Goto(j, next), next.pc \in Holds,
               UNCHANGED <<lease, inMemoryHeld, waiters>>,
               local[j].pc \in Holds, next.pod = local[j].pod,
               next.waiter = local[j].waiter,
               next.pc = "clearPut" => next.seen = lease[local[j].pod].rv
        PROVE  Proceeds(j, w)
    <2>1. local'[j] = next /\ Others(j)
      BY <1>2, CalmTyped DEF Goto, Others
    <2> QED
      BY <1>2, <2>1 DEF Proceeds, Stays, Reserves, Holds
  <1>3. CASE Release(j)
    <2> DEFINE next == [local[j] EXCEPT !.pc = "clearRead"]
    <2>1. next.pc = "clearRead" /\ next.pod = local[j].pod
          /\ next.waiter = local[j].waiter
      BY <1>1 DEF Locals
    <2>2. /\ Goto(j, next) /\ UNCHANGED <<lease, inMemoryHeld, waiters>>
          /\ local[j].pc = "running"
      BY <1>3 DEF Release
    <2> HIDE DEF next
    <2> QED
      BY <1>2, <2>1, <2>2 DEF Holds
  <1>4. CASE ClearRead(j)
    <2> DEFINE next == [local[j] EXCEPT !.pc = "clearPut",
                                        !.seen = lease[local[j].pod].rv]
    <2>1. PICK ok \in BOOLEAN :
            /\ GetLease(ok)
            /\ \/ Goto(j, next) /\ UNCHANGED <<inMemoryHeld, waiters>>
               \/ ~ok /\ Cleared(j)
      BY <1>4 DEF ClearRead
    <2>2. /\ Goto(j, next) /\ UNCHANGED <<lease, inMemoryHeld, waiters>>
          /\ local[j].pc = "clearRead"
      BY <1>4, <2>1, NoFault DEF ClearRead
    <2>3. /\ next.pc = "clearPut" /\ next.pod = local[j].pod
          /\ next.waiter = local[j].waiter /\ next.seen = lease[local[j].pod].rv
      BY <1>1 DEF Locals
    <2> HIDE DEF next
    <2> QED
      BY <1>2, <2>2, <2>3 DEF Holds
  <1> QED
    BY <1>3, <1>4

LEMMA PutStep ==
    ASSUME NEW w, Calm(w), NEW j \in Jobs, TryPut(j)
    PROVE  Proceeds(j, w) \/ Gives(j, w)
  <1> DEFINE p == local[j].pod
  <1>1. PICK ok \in BOOLEAN :
          /\ PutLease(p, Context(j), local[j].seen, ok)
          /\ \/ ok /\ Acquired(j) /\ UNCHANGED <<inMemoryHeld, timer>>
             \/ ~ok /\ ScanOn(j)
    BY DEF TryPut
  <1>2. /\ local[j].pc = "put" /\ p \in Pods /\ ProcOf(j) = w
        /\ Context(j) \in Jobs \cup {NoJob} /\ local[j].waiter \in Jobs \cup {NoJob}
    <2>1. local[j].pc = "put" /\ local[j] \in Locals /\ JobOK(j, local[j])
      BY CalmTyped DEF TryPut
    <2> QED
      BY <2>1, WorkersJob DEF JobOK, Locals, Context, ProcOf
  <1>3. ok /\ \A q \in Pods \ {p} : lease'[q] = lease[q]
    <2> DEFINE c == Context(j)
    <2> DEFINE rv == local[j].seen
    <2>1. Admitted(p, rv) /\ c \in Jobs \cup {NoJob} /\ PutLease(p, c, rv, ok)
      BY <1>1, <1>2, CurrentAdmitted
    <2> HIDE DEF c, rv, p
    <2>2. p \in Pods
      BY <1>2 DEF p
    <2> QED
      BY <2>1, <2>2, PutSucceeds
  <1>4. Acquired(j) /\ inMemoryHeld' = inMemoryHeld
    BY <1>1, <1>3
  <1>5. CASE local[j].waiter = NoJob
    <2>1. Goto(j, At("running", p, NoVersion, NoJob)) /\ waiters' = waiters
      BY <1>4, <1>5 DEF Acquired
    <2>2. local'[j] = At("running", p, NoVersion, NoJob) /\ Others(j)
      BY <2>1, CalmTyped DEF Goto, Others
    <2>3. local'[j].pc = "running" /\ local'[j].pod = p /\ local'[j].waiter = NoJob
      BY <2>2
    <2> QED
      BY <1>2, <1>3, <1>4, <1>5, <2>1, <2>2, <2>3
      DEF Proceeds, Stays, Reserves, Holds
  <1>6. CASE local[j].waiter # NoJob
    <2>1. /\ waiters' = [waiters EXCEPT ![w] = Rest(@)]
          /\ ResolveWaiter(j, Done, local[j].waiter, p)
      BY <1>2, <1>4, <1>6 DEF Acquired
    <2>2. waiters'[w] = Rest(waiters[w])
      BY <2>1, CalmTyped
    <2>3. Grants(j, Done, local[j].waiter, p)
      BY <1>2, <1>6, <2>1, ResolveGrants, CalmTyped
    <2> QED
      BY <1>2, <1>3, <1>4, <1>6, <2>2, <2>3 DEF Gives
  <1> QED
    BY <1>5, <1>6

LEMMA ClearsStep ==
    ASSUME NEW w, Calm(w), NEW j \in Jobs, ClearPut(j)
    PROVE  Clears(j, w)
  <1> DEFINE p == local[j].pod
  <1> DEFINE rv == local[j].seen
  <1>1. PICK ok \in BOOLEAN : PutLease(p, NoJob, rv, ok)
    BY DEF ClearPut
  <1>2. /\ local[j].pc = "clearPut" /\ p \in Pods
        /\ Cleared(j) /\ ProcOf(j) = w /\ j \notin Sweeps
    BY WorkersJob, CalmTyped, ThreadsAssumption DEF ClearPut, JobOK, ProcOf
  <1>3. /\ \A q \in Pods \ {p} : lease'[q] = lease[q]
        /\ lease'[p].holder = NoJob
    <2>1. Admitted(p, rv) /\ NoJob \in Jobs \cup {NoJob}
      BY <1>2, CurrentAdmitted
    <2> HIDE DEF p, rv
    <2> QED
      BY <1>1, <1>2, <2>1, PutSucceeds
  <1>4. ASSUME NEW next, Goto(j, next) PROVE local'[j] = next /\ Others(j)
    BY <1>4, CalmTyped DEF Goto, Others
  <1>5. CASE waiters[w] = <<>>
    <2>1. /\ inMemoryHeld' = [inMemoryHeld EXCEPT ![w] = @ \ {p}]
          /\ Goto(j, Done) /\ UNCHANGED waiters
      BY <1>2, <1>5 DEF Cleared
    <2>2. inMemoryHeld'[w] = inMemoryHeld[w] \ {p} /\ waiters'[w] = <<>>
      BY <1>5, <2>1, CalmTyped
    <2> QED
      BY <1>2, <1>3, <1>4, <2>1, <2>2 DEF Clears
  <1>6. CASE waiters[w] # <<>>
    <2>1. /\ waiters' = [waiters EXCEPT ![w] = Tail(@)] /\ UNCHANGED inMemoryHeld
          /\ Goto(j, At("handoff", p, NoVersion, Head(waiters[w])))
      BY <1>2, <1>6 DEF Cleared
    <2>2. waiters'[w] = Tail(waiters[w])
      BY <2>1, CalmTyped
    <2> QED
      BY <1>2, <1>3, <1>4, <1>6, <2>1, <2>2 DEF Clears
  <1> QED
    BY <1>5, <1>6

LEMMA HandoffGives ==
    ASSUME NEW w, Calm(w), NEW j \in Jobs, ReleaseHandoff(j)
    PROVE  Gives(j, w) \/ Retries(j, w)
  <1> DEFINE p == local[j].pod
  <1> DEFINE x == local[j].waiter
  <1> DEFINE held == inMemoryHeld[w] \ {p}
  <1> DEFINE queue == <<x>> \o waiters[w]
  <1>1. /\ local[j].pc = "handoff" /\ p \in Pods /\ proc[j] = w
        /\ x \in Jobs \cup {NoJob} /\ x # NoJob /\ held \in SUBSET Pods
        /\ p \notin held
    <2>1. local[j].pc = "handoff" /\ local[j] \in Locals /\ JobOK(j, local[j])
      BY CalmTyped DEF ReleaseHandoff
    <2>2. proc[j] = w
      BY <2>1, WorkersJob
    <2>3. inMemoryHeld[w] \in SUBSET Pods
      BY CalmTyped
    <2> QED
      BY <2>1, <2>2, <2>3 DEF JobOK, Locals
  <1>2. PICK ok \in BOOLEAN :
          /\ PutLease(p, x, NoVersion, ok)
          /\ \/ /\ ok
                /\ ResolveWaiter(j, Done, x, p)
                /\ UNCHANGED <<inMemoryHeld, waiters, timer>>
             \/ /\ ~ok
                /\ Scan(j, w, 1, held, queue)
    BY <1>1 DEF ReleaseHandoff
  <1>3. /\ ~ok => lease' = lease
        /\ \A q \in Pods \ {p} : lease'[q] = lease[q]
    <2>1. PutLease(p, x, NoVersion, ok) /\ x \in Jobs \cup {NoJob} /\ p \in Pods
      BY <1>1, <1>2
    <2> HIDE DEF p, x
    <2> QED
      BY <2>1, PutSucceeds
  <1>4. CASE ok
    <2>1. Grants(j, Done, x, p)
      <3>1. ResolveWaiter(j, Done, local[j].waiter, p) /\ local[j].waiter # NoJob
        BY <1>1, <1>2, <1>4
      <3> QED
        BY <1>1, <3>1, ResolveGrants, CalmTyped
    <2>2. inMemoryHeld' = inMemoryHeld /\ waiters' = waiters
      BY <1>2, <1>4
    <2> QED
      BY <1>1, <1>3, <2>1, <2>2 DEF Gives
  <1>5. CASE ~ok
    <2>1. Scan(j, w, 1, held, queue)
      BY <1>2, <1>5
    <2>2. held # Pods
      BY <1>1
    <2>3. /\ Others(j)
          /\ \E q \in Pods \ held :
                /\ local'[j] = At("read", q, NoVersion, local[j].waiter)
                /\ inMemoryHeld'[w] = held \cup {q} /\ waiters'[w] = queue
      <3>1. held \in SUBSET Pods
        BY <1>1
      <3> HIDE DEF held, queue, p, x, At, NoVersion
      <3>2. /\ Others(j)
            /\ \/ \E q \in Pods \ held :
                     /\ local'[j] = At("read", q, NoVersion, local[j].waiter)
                     /\ inMemoryHeld'[w] = held \cup {q} /\ waiters'[w] = queue
               \/ held = Pods
        BY <2>1, <3>1, ScanPlaces
      <3> QED
        BY <2>2, <3>2
    <2>4. lease' = lease
      BY <1>3, <1>5
    <2>5. Pods \ held = (Pods \ inMemoryHeld[w]) \cup {p}
      BY <1>1
    <2> QED
      BY <1>1, <2>3, <2>4, <2>5 DEF Retries
  <1> QED
    BY <1>4, <1>5

LEMMA TimeoutLeaves ==
    ASSUME NEW w, Calm(w), NEW j \in Jobs, Timeout(j)
    PROVE  Rests(w) \/ Leaves(j, w)
  <1>1. proc[j] = w
    BY ThreadsAssumption
    DEF Timeout, Calm, QueueInv, IInv, ControlOK, Alone, Procs
  <1>2. lease' = lease /\ inMemoryHeld' = inMemoryHeld
    BY DEF Timeout
  <1>3. CASE UNCHANGED <<waiters, local>>
    BY <1>2, <1>3 DEF Rests, Stays
  <1>4. ASSUME NEW i \in 1 .. Len(waiters[w]),
               waiters' = [waiters EXCEPT ![w] = Splice(@, i)],
               local' = [local EXCEPT ![j] = IF @.pc = "queued"
                     THEN At("rejected", NoPod, NoVersion, NoJob) ELSE @]
        PROVE  Leaves(j, w)
    <2>1. waiters'[w] = Splice(waiters[w], i)
      BY <1>4, CalmTyped
    <2>2. /\ Others(j)
          /\ \/ local'[j] = local[j]
             \/ local[j].pc = "queued"
                /\ local'[j] = At("rejected", NoPod, NoVersion, NoJob)
      BY <1>4, CalmTyped DEF Others
    <2> QED
      BY <1>2, <1>4, <2>1, <2>2 DEF Leaves
  <1> QED
    BY <1>1, <1>3, <1>4 DEF Timeout

\* No lease has expired, so that the sweeps of the watchdog find nothing.
LEMMA SweepRests ==
    ASSUME NEW w, Calm(w), NEW t \in Sweeps, WatchdogStep(t)
    PROVE  Rests(w)
  <1>1. local[t].pc \notin {"clearRead", "clearPut", "unannotate", "handoff"}
    BY DEF Calm, QueueInv, IInv, ExpiryOK, Alone
  <1>2. WatchdogTick(t) \/ WatchdogCheck(t)
    BY <1>1 DEF WatchdogStep, ClearRead, ClearPut, WatchdogFree, WatchdogHandoff
  <1>3. /\ lease' = lease /\ inMemoryHeld' = inMemoryHeld /\ waiters' = waiters
        /\ \E next : Goto(t, next)
    <2>1. CASE WatchdogTick(t)
      BY <2>1 DEF WatchdogTick
    <2>2. CASE WatchdogCheck(t)
      BY <2>2 DEF WatchdogCheck, GetLease
    <2> QED
      BY <1>2, <2>1, <2>2
  <1>4. \A i \in Jobs : local'[i] = local[i]
    BY <1>3, CalmTyped, ThreadsAssumption DEF Goto
  <1> QED
    BY <1>3, <1>4 DEF Rests, Stays

LEMMA AloneNext ==
    ASSUME NEW w, Calm(w), [Next]_vars
    PROVE  AloneStep(w)
  <1>1. CASE UNCHANGED vars
    BY <1>1 DEF vars, AloneStep, Rests, Stays
  <1>2. ASSUME NEW j \in Jobs, NEW v \in Workers, Start(j, v) PROVE AloneStep(w)
    BY <1>2, EntersStep DEF AloneStep
  <1>3. ASSUME NEW j \in Jobs, JobStep(j) PROVE AloneStep(w)
    BY <1>3, ReadProceeds, PutStep, ReleaseProceeds, ClearsStep, HandoffGives
    DEF JobStep, AloneStep
  <1>4. ASSUME NEW j \in Jobs, Timeout(j) PROVE AloneStep(w)
    BY <1>4, TimeoutLeaves DEF AloneStep
  <1>5. ASSUME NEW t \in Sweeps, WatchdogStep(t) PROVE AloneStep(w)
    BY <1>5, SweepRests DEF AloneStep
  <1>6. ASSUME NEW p \in Pods, Expire(p) PROVE FALSE
    BY <1>6 DEF Expire, Calm, Alone
  <1>7. ASSUME NEW v, Crash(v) PROVE FALSE
    BY <1>7 DEF Crash, Calm, Alone
  <1> QED
    BY <1>1, <1>2, <1>3, <1>4, <1>5, <1>6, <1>7 DEF Next

-----------------------------------------------------------------------------
(* The leases, their versions, and the queue *)

\* What LeasesReserved says of pod p after a step.
LeaseFits(p, w) ==
    /\ p \in inMemoryHeld'[w]
    /\ \A i \in Jobs : local'[i].pc \in {"read", "put", "handoff"}
                          => local'[i].pod # p

LEMMA LeasesReservedStep ==
    ASSUME NEW w, Calm(w), AloneStep(w)
    PROVE  LeasesReserved(w)'
  <1> SUFFICES ASSUME NEW p \in Pods, lease'[p].holder # NoJob
               PROVE  LeaseFits(p, w)
    BY DEF LeasesReserved, LeaseFits
  <1>1. ASSUME lease'[p] = lease[p]
        PROVE  /\ p \in inMemoryHeld[w]
               /\ \A i \in Jobs : local[i].pc \in {"read", "put", "handoff"}
                                     => local[i].pod # p
    BY <1>1 DEF Calm, QueueInv, AloneInv, LeasesReserved
  <1>2. ASSUME NEW j \in Jobs, Others(j),
               local'[j].pc \in {"read", "put", "handoff"} => local'[j].pod # p,
               lease'[p] = lease[p], p \in inMemoryHeld'[w]
        PROVE  LeaseFits(p, w)
    <2>1. \A i \in Jobs \ {j} : local'[i] = local[i]
      BY <1>2 DEF Others, Threads
    <2> QED
      BY <1>1, <1>2, <2>1 DEF LeaseFits
  <1>3. CASE Rests(w)
    BY <1>1, <1>3 DEF Rests, Stays, LeaseFits
  <1>4. ASSUME NEW j \in Jobs, Enters(j, w) PROVE LeaseFits(p, w)
    <2>1. /\ Others(j) /\ lease'[p] = lease[p]
          /\ inMemoryHeld[w] \subseteq inMemoryHeld'[w]
      BY <1>4 DEF Enters
    <2>2. local'[j].pc \in {"read", "put", "handoff"} => local'[j].pod # p
      <3>1. CASE local'[j] = At("queued", NoPod, NoVersion, NoJob)
        BY <3>1
      <3>2. ASSUME NEW q \in Pods \ inMemoryHeld[w],
                   local'[j] = At("read", q, NoVersion, NoJob)
            PROVE  local'[j].pod # p
        <4>1. local'[j].pod = q
          BY <3>2
        <4> QED
          BY <1>1, <2>1, <3>2, <4>1
      <3> HIDE DEF At
      <3> QED
        BY <1>4, <3>1, <3>2 DEF Enters
    <2> QED
      BY <1>1, <1>2, <2>1, <2>2
  <1>5. ASSUME NEW j \in Jobs, Proceeds(j, w) PROVE LeaseFits(p, w)
    <2>1. /\ Others(j) /\ inMemoryHeld'[w] = inMemoryHeld[w]
          /\ local[j].pc \in Reserves /\ local'[j].pc \in Reserves
          /\ local'[j].pod = local[j].pod
          /\ local[j].pc \in Holds => local'[j].pc \in Holds
      BY <1>5 DEF Proceeds, Stays
    <2>2. CASE lease' = lease
      <3>1. local'[j].pc \in {"read", "put", "handoff"} => local'[j].pod # p
        BY <1>1, <2>1, <2>2 DEF Reserves, Holds
      <3> QED
        BY <1>1, <1>2, <2>1, <2>2, <3>1
    <2>3. CASE local'[j].pc = "running" /\ p # local[j].pod /\ lease'[p] = lease[p]
      BY <1>1, <1>2, <2>1, <2>3
    <2>4. CASE local'[j].pc = "running" /\ p = local[j].pod
      <3>1. p \in inMemoryHeld'[w]
        BY <2>1, <2>4, OwnReservation
      <3>2. \A i \in Jobs \ {j} :
               /\ local'[i] = local[i]
               /\ local[i].pc \in {"read", "put", "handoff"} => local[i].pod # p
        BY <2>1, <2>4, OwnReservation DEF Others, Threads, Reserves
      <3>3. ASSUME NEW i \in Jobs, local'[i].pc \in {"read", "put", "handoff"}
            PROVE  local'[i].pod # p
        <4>1. i # j
          BY <2>4, <3>3
        <4> QED
          BY <3>2, <3>3, <4>1
      <3> QED
        BY <3>1, <3>3 DEF LeaseFits
    <2> QED
      BY <1>5, <2>2, <2>3, <2>4 DEF Proceeds
  <1>6. ASSUME NEW j \in Jobs, Clears(j, w) PROVE LeaseFits(p, w)
    <2>1. p # local[j].pod
      BY <1>6 DEF Clears
    <2>2. lease'[p] = lease[p] /\ Others(j)
      BY <1>6, <2>1 DEF Clears
    <2>3. /\ p \in inMemoryHeld'[w]
          /\ local'[j].pc \in {"read", "put", "handoff"} => local'[j].pod # p
      BY <1>1, <1>6, <2>1, <2>2 DEF Clears, Done
    <2> QED
      BY <1>2, <2>2, <2>3
  <1>7. ASSUME NEW j \in Jobs, Gives(j, w) PROVE LeaseFits(p, w)
    <2>1. /\ local[j].pc \in {"put", "handoff"}
          /\ inMemoryHeld'[w] = inMemoryHeld[w]
          /\ p # local[j].pod => lease'[p] = lease[p]
      BY <1>7 DEF Gives
    <2>2. \A i \in Jobs : local'[i].pc \notin {"done", "running"}
                             => i # j /\ local'[i] = local[i]
      <3> SUFFICES ASSUME NEW i \in Jobs
                   PROVE  local'[i].pc \notin {"done", "running"}
                             => i # j /\ local'[i] = local[i]
        OBVIOUS
      <3>1. local'[i] = IF i = j THEN Done
                        ELSE IF i = local[j].waiter /\ local[local[j].waiter].pc = "queued"
                             THEN At("running", local[j].pod, NoVersion, NoJob)
                             ELSE local[i]
        BY <1>7 DEF Gives, Grants, Threads
      <3> QED
        BY <3>1 DEF Done
    <2>3. CASE p = local[j].pod
      <3>1. p \in inMemoryHeld[w]
        <4>1. local[j].pc \in Reserves \cup {"handoff"}
          BY <2>1 DEF Reserves
        <4> QED
          BY <2>3, <4>1, OwnReservation
      <3>2. \A i \in Jobs \ {j} : local[i].pc \in {"read", "put", "handoff"}
                                     => local[i].pod # p
        BY <2>1, <2>3, OwnReservation DEF Reserves
      <3> QED
        BY <2>1, <2>2, <3>1, <3>2 DEF LeaseFits
    <2>4. CASE p # local[j].pod
      BY <1>1, <2>1, <2>2, <2>4 DEF LeaseFits
    <2> QED
      BY <2>3, <2>4
  <1>8. ASSUME NEW j \in Jobs, Retries(j, w) PROVE LeaseFits(p, w)
    <2>1. lease'[p] = lease[p] /\ Others(j) /\ local[j].pc = "handoff"
      BY <1>8 DEF Retries
    <2>2. p \in inMemoryHeld[w] /\ local[j].pod # p
      BY <1>1, <2>1
    <2>3. /\ p \in inMemoryHeld'[w]
          /\ local'[j].pc \in {"read", "put", "handoff"} => local'[j].pod # p
      BY <1>8, <2>2 DEF Retries
    <2> QED
      BY <1>2, <2>1, <2>3
  <1>9. ASSUME NEW j \in Jobs, Leaves(j, w) PROVE LeaseFits(p, w)
    <2>1. lease'[p] = lease[p] /\ Others(j) /\ inMemoryHeld'[w] = inMemoryHeld[w]
      BY <1>9 DEF Leaves
    <2>2. local'[j].pc \in {"read", "put", "handoff"} => local'[j].pod # p
      BY <1>1, <1>9, <2>1 DEF Leaves
    <2> QED
      BY <1>1, <1>2, <2>1, <2>2
  <1> QED
    BY <1>3, <1>4, <1>5, <1>6, <1>7, <1>8, <1>9 DEF AloneStep

LEMMA VersionsCurrentStep ==
    ASSUME NEW w, Calm(w), AloneStep(w)
    PROVE  VersionsCurrent'
  <1> SUFFICES ASSUME NEW i \in Jobs, local'[i].pc \in {"put", "clearPut"}
               PROVE  local'[i].seen = lease'[local'[i].pod].rv
    BY DEF VersionsCurrent
  <1>1. ASSUME local'[i] = local[i], lease' = lease
        PROVE  local'[i].seen = lease'[local'[i].pod].rv
    BY <1>1 DEF Calm, QueueInv, AloneInv, VersionsCurrent
  <1>2. ASSUME NEW j \in Jobs \ {i}, local'[i] = local[i],
               local[j].pc \in Reserves \cup {"handoff"},
               \A q \in Pods \ {local[j].pod} : lease'[q] = lease[q]
        PROVE  local'[i].seen = lease'[local'[i].pod].rv
    <2>1. local[i].pod \in Pods /\ local[i].pod # local[j].pod
      <3>1. local[i].pc \in Reserves \cup {"handoff"}
        BY <1>2 DEF Reserves, Holds
      <3> QED
        BY <1>2, <3>1, OwnReservation
    <2>2. lease'[local[i].pod] = lease[local[i].pod]
      BY <1>2, <2>1
    <2> QED
      BY <1>2, <2>2 DEF Calm, QueueInv, AloneInv, VersionsCurrent
  <1>3. CASE Rests(w)
    BY <1>1, <1>3 DEF Rests
  <1>4. ASSUME NEW j \in Jobs, Others(j), lease' = lease,
               local'[j].pc \in {"put", "clearPut"}
                   => local'[j] = local[j] \/ local'[j].seen = lease[local'[j].pod].rv
        PROVE  local'[i].seen = lease'[local'[i].pod].rv
    BY <1>1, <1>4 DEF Others, Threads
  <1>5. ASSUME NEW j \in Jobs, Enters(j, w) \/ Retries(j, w) \/ Leaves(j, w)
        PROVE  local'[i].seen = lease'[local'[i].pod].rv
    <2>1. Others(j) /\ lease' = lease
      BY <1>5 DEF Enters, Retries, Leaves
    <2>2. CASE Enters(j, w)
      <3>1. ASSUME NEW q, local'[j] = At("read", q, NoVersion, NoJob)
            PROVE  local'[j].pc = "read"
        BY <3>1
      <3>2. ASSUME local'[j] = At("queued", NoPod, NoVersion, NoJob)
            PROVE  local'[j].pc = "queued"
        BY <3>2
      <3> HIDE DEF At
      <3>3. local'[j].pc \in {"read", "queued"}
        BY <2>2, <3>1, <3>2 DEF Enters
      <3> QED
        BY <1>4, <2>1, <3>3
    <2>3. CASE Retries(j, w)
      <3>1. local'[j].pc = "read"
        BY <2>3 DEF Retries
      <3> QED
        BY <1>4, <2>1, <3>1
    <2>4. CASE Leaves(j, w)
      <3>1. CASE local'[j] = At("rejected", NoPod, NoVersion, NoJob)
        <4>1. local'[j].pc = "rejected"
          BY <3>1
        <4> QED
          BY <1>4, <2>1, <4>1
      <3>2. CASE local'[j] = local[j]
        BY <1>4, <2>1, <3>2
      <3> HIDE DEF At
      <3> QED
        BY <2>4, <3>1, <3>2 DEF Leaves
    <2> QED
      BY <1>5, <2>2, <2>3, <2>4
  <1>6. ASSUME NEW j \in Jobs, Proceeds(j, w)
        PROVE  local'[i].seen = lease'[local'[i].pod].rv
    <2>1. Others(j) /\ local[j].pc \in Reserves /\ local'[j].pod = local[j].pod
      BY <1>6 DEF Proceeds
    <2>2. CASE /\ lease' = lease
               /\ local'[j].pc \in {"put", "clearPut"}
                     => local'[j].seen = lease[local[j].pod].rv
      BY <1>4, <2>1, <2>2
    <2>3. CASE /\ local'[j].pc = "running"
               /\ \A q \in Pods \ {local[j].pod} : lease'[q] = lease[q]
      <3>1. i # j /\ local'[i] = local[i]
        BY <2>1, <2>3 DEF Others, Threads
      <3> QED
        BY <1>2, <2>1, <2>3, <3>1
    <2> QED
      BY <1>6, <2>2, <2>3 DEF Proceeds
  <1>7. ASSUME NEW j \in Jobs, Clears(j, w)
        PROVE  local'[i].seen = lease'[local'[i].pod].rv
    <2>1. /\ Others(j) /\ local[j].pc = "clearPut"
          /\ \A q \in Pods \ {local[j].pod} : lease'[q] = lease[q]
          /\ local'[j].pc \in {"done", "handoff"}
      BY <1>7 DEF Clears, Done
    <2>2. i # j /\ local'[i] = local[i]
      BY <2>1 DEF Others, Threads
    <2> QED
      BY <1>2, <2>1, <2>2 DEF Reserves, Holds
  <1>8. ASSUME NEW j \in Jobs, Gives(j, w)
        PROVE  local'[i].seen = lease'[local'[i].pod].rv
    <2>1. /\ local[j].pc \in {"put", "handoff"}
          /\ \A q \in Pods \ {local[j].pod} : lease'[q] = lease[q]
      BY <1>8 DEF Gives
    <2>2. i # j /\ local'[i] = local[i]
      BY <1>8 DEF Gives, Grants, Done, Threads
    <2> QED
      BY <1>2, <2>1, <2>2 DEF Reserves
  <1> QED
    BY <1>3, <1>5, <1>6, <1>7, <1>8 DEF AloneStep

\* The searchers, as a calm state shows them.
LEMMA SearchersAre ==
    ASSUME NEW w, Typed, Alone(w)
    PROVE  Searchers(w) = {i \in Jobs : /\ local[i].waiter # NoJob
                                        /\ local[i].pc \in {"read", "put"}}
  BY DEF Searchers, JobsOf, Alone, Typed, ControlOK, JobOK

\* How long a queue is after a step.
LEMMA QueueLengths ==
    ASSUME NEW S, NEW q \in Seq(S)
    PROVE  /\ Len(q) \in Nat
           /\ q # <<>> => Len(Tail(q)) = Len(q) - 1
           /\ Rest(q) = <<>> \/ Len(Rest(q)) = Len(q) - 1
           /\ \A x \in S : Len(<<x>> \o q) = Len(q) + 1
           /\ \A k \in 1 .. Len(q) : Len(Splice(q, k)) = Len(q) - 1
  <1>1. ASSUME NEW k \in 1 .. Len(q) PROVE Len(Splice(q, k)) = Len(q) - 1
    <2> DEFINE a == SubSeq(q, 1, k - 1)
    <2> DEFINE b == SubSeq(q, k + 1, Len(q))
    <2>1. /\ a \in Seq(S) /\ b \in Seq(S) /\ Len(q) \in Nat
          /\ Len(a) = k - 1 /\ Len(b) = Len(q) - k
      OBVIOUS
    <2>2. Splice(q, k) = a \o b
      BY DEF Splice
    <2> HIDE DEF a, b
    <2>3. Len(a \o b) = Len(a) + Len(b)
      BY <2>1
    <2> QED
      BY <2>1, <2>2, <2>3
  <1>2. /\ Len(q) \in Nat
        /\ q # <<>> => Len(Tail(q)) = Len(q) - 1
        /\ Rest(q) = <<>> \/ Len(Rest(q)) = Len(q) - 1
    BY DEF Rest
  <1>3. \A x \in S : Len(<<x>> \o q) = Len(q) + 1
    OBVIOUS
  <1> QED
    BY <1>1, <1>2, <1>3

\* The queue is no longer than the searchers are many, or no pod is left.
Room(held, queue, searchers) ==
    held # Pods => Len(queue) <= Cardinality(searchers)

LEMMA RoomStep ==
    ASSUME NEW w, Calm(w), AloneStep(w), IInv', IsFiniteSet(Jobs)
    PROVE  Room(inMemoryHeld'[w], waiters'[w], Searchers(w)')
  <1> DEFINE T == Searchers(w)
  <1> DEFINE U == Searchers(w)'
  <1> DEFINE q == waiters[w]
  <1> DEFINE r == waiters'[w]
  <1> DEFINE n == Cardinality(T)
  <1> DEFINE Seeks(l) == l.waiter # NoJob /\ l.pc \in {"read", "put"}
  <1>1. T = {i \in Jobs : Seeks(local[i])}
    BY SearchersAre, CalmTyped DEF Calm
  <1>2. U = {i \in Jobs : Seeks(local'[i])}
    <2>1. Typed'
      BY DEF IInv, Typed
    <2>2. Alone(w)'
      BY DEF Calm
    <2> QED
      BY <2>1, <2>2 DEF Searchers, JobsOf, Alone, Typed, ControlOK, JobOK
  <1>3. IsFiniteSet(T) /\ n \in Nat
    <2>1. T \in SUBSET Jobs
      BY <1>1
    <2> HIDE DEF T
    <2> QED
      BY <2>1, FS_Subset, FS_CardinalityType
  <1>4. /\ Len(q) \in Nat /\ q \in Seq(Jobs)
        /\ inMemoryHeld[w] # Pods => Len(q) <= n
    BY CalmTyped, QueueLengths DEF Calm, QueueInv, WorkConserving
  <1> HIDE DEF T, U, q, r, n
  <1>5. ASSUME U = T, inMemoryHeld'[w] # Pods => inMemoryHeld[w] # Pods,
               Len(r) <= Len(q), Len(r) \in Nat
        PROVE  Room(inMemoryHeld'[w], r, U)
    BY <1>3, <1>4, <1>5 DEF Room, n
  <1>6. ASSUME NEW j \in Jobs, Others(j), Seeks(local'[j]) <=> Seeks(local[j])
        PROVE  U = T
    <2>1. \A i \in Jobs \ {j} : local'[i] = local[i]
      BY <1>6 DEF Others, Threads
    <2> QED
      BY <1>1, <1>2, <1>6, <2>1
  <1>7. ASSUME Rests(w) PROVE Room(inMemoryHeld'[w], r, U)
    <2>1. U = T
      BY <1>1, <1>2, <1>7 DEF Rests
    <2>2. inMemoryHeld'[w] = inMemoryHeld[w] /\ r = q
      BY <1>7 DEF Rests, Stays, q, r
    <2> QED
      BY <1>4, <1>5, <2>1, <2>2
  <1>8. ASSUME NEW j \in Jobs, Enters(j, w)
        PROVE  Room(inMemoryHeld'[w], r, U)
    <2>1. CASE inMemoryHeld'[w] = Pods
      BY <2>1 DEF Room
    <2>2. ASSUME NEW p \in Pods \ inMemoryHeld[w],
                 local'[j] = At("read", p, NoVersion, NoJob), r = q
          PROVE  Room(inMemoryHeld'[w], r, U)
      <3>1. Others(j) /\ local[j].pc = "new" /\ local'[j].waiter = NoJob
        BY <1>8, <2>2 DEF Enters
      <3>2. U = T
        BY <1>6, <3>1
      <3> QED
        BY <1>4, <1>5, <2>2, <3>2
    <2> HIDE DEF At
    <2> QED
      BY <1>8, <2>1, <2>2 DEF Enters, q, r
  <1>9. ASSUME NEW j \in Jobs, Proceeds(j, w)
        PROVE  Room(inMemoryHeld'[w], r, U)
    <2>1. /\ Others(j) /\ local[j].pc \in Reserves /\ local'[j].pc \in Reserves
          /\ local'[j].waiter = local[j].waiter
          /\ inMemoryHeld'[w] = inMemoryHeld[w] /\ r = q
      BY <1>9 DEF Proceeds, Stays, q, r
    <2>2. JobOK(j, local[j]) /\ JobOK(j, local[j])'
      BY CalmTyped DEF IInv, ControlOK
    <2>3. /\ Seeks(local[j]) <=> local[j].waiter # NoJob
          /\ Seeks(local'[j]) <=> local'[j].waiter # NoJob
      BY <2>1, <2>2 DEF JobOK, Reserves, Holds
    <2>4. U = T
      BY <1>6, <2>1, <2>3
    <2> QED
      BY <1>4, <1>5, <2>1, <2>4
  <1>10. ASSUME NEW j \in Jobs, Clears(j, w)
         PROVE  Room(inMemoryHeld'[w], r, U)
    <2>1. Others(j) /\ local[j].pc = "clearPut"
      BY <1>10 DEF Clears
    <2>2. local'[j].pc \in {"done", "handoff"}
      BY <1>10 DEF Clears, Done
    <2>3. U = T
      BY <1>6, <2>1, <2>2
    <2>4. CASE r = <<>>
      BY <1>3, <2>3, <2>4 DEF Room, n
    <2>5. CASE q # <<>> /\ r = Tail(q) /\ inMemoryHeld'[w] = inMemoryHeld[w]
      <3>1. Len(r) = Len(q) - 1 /\ Len(r) \in Nat
        BY <1>4, <2>5, QueueLengths
      <3> QED
        BY <1>4, <1>5, <2>3, <2>5, <3>1
    <2> QED
      BY <1>10, <2>4, <2>5 DEF Clears, q, r
  <1>11. ASSUME NEW j \in Jobs, Gives(j, w)
         PROVE  Room(inMemoryHeld'[w], r, U)
    <2> DEFINE x == local[j].waiter
    <2>1. /\ local[j].pc \in {"put", "handoff"} /\ x # NoJob
          /\ inMemoryHeld'[w] = inMemoryHeld[w]
          /\ r = IF local[j].pc = "put" THEN Rest(q) ELSE q
      BY <1>11 DEF Gives, q, r
    <2>2. ~Seeks(local'[j])
      BY <1>11 DEF Gives, Grants, Done, Threads
    <2>3. ASSUME NEW i \in Jobs \ {j}
          PROVE  Seeks(local'[i]) <=> Seeks(local[i])
      <3>1. local'[i] = IF i = x /\ local[x].pc = "queued"
                        THEN At("running", local[j].pod, NoVersion, NoJob)
                        ELSE local[i]
        BY <1>11, <2>3 DEF Gives, Grants, Threads
      <3> QED
        BY <3>1
    <2>4. CASE local[j].pc = "handoff"
      <3>1. U = T
        BY <1>1, <1>2, <2>2, <2>3, <2>4
      <3> QED
        BY <1>4, <1>5, <2>1, <2>4, <3>1
    <2>5. CASE local[j].pc = "put"
      <3>1. j \in T /\ U = T \ {j}
        BY <1>1, <1>2, <2>1, <2>2, <2>3, <2>5
      <3>2. Cardinality(U) = n - 1 /\ Cardinality(U) \in Nat
        BY <1>3, <3>1, FS_RemoveElement, FS_CardinalityType DEF n
      <3>3. r = Rest(q)
        BY <2>1, <2>5
      <3>4. r = <<>> \/ Len(r) = Len(q) - 1
        BY <1>4, <3>3, QueueLengths
      <3> QED
        BY <1>3, <1>4, <2>1, <3>2, <3>4 DEF Room
    <2> QED
      BY <2>1, <2>4, <2>5
  <1>12. ASSUME NEW j \in Jobs, Retries(j, w)
         PROVE  Room(inMemoryHeld'[w], r, U)
    <2> DEFINE x == local[j].waiter
    <2>1. /\ local[j].pc = "handoff" /\ x # NoJob /\ x \in Jobs
          /\ Others(j) /\ r = <<x>> \o q
      BY <1>12, CalmTyped DEF Retries, q, r, Locals
    <2>2. PICK p \in (Pods \ inMemoryHeld[w]) \cup {local[j].pod} :
              /\ local'[j] = At("read", p, NoVersion, x)
              /\ inMemoryHeld'[w] = (inMemoryHeld[w] \ {local[j].pod}) \cup {p}
      BY <1>12 DEF Retries
    <2>3. inMemoryHeld'[w] # Pods => inMemoryHeld[w] # Pods
      <3>1. local[j].pod \in Pods
        BY <2>1, CalmTyped DEF JobOK
      <3> SUFFICES ASSUME inMemoryHeld[w] = Pods PROVE inMemoryHeld'[w] = Pods
        OBVIOUS
      <3>2. p = local[j].pod
        BY <2>2
      <3> QED
        BY <2>2, <3>1, <3>2
    <2>4. j \notin T /\ U = T \cup {j}
      <3>1. Seeks(local'[j]) /\ ~Seeks(local[j])
        BY <2>1, <2>2
      <3>2. \A i \in Jobs \ {j} : local'[i] = local[i]
        BY <2>1 DEF Others, Threads
      <3> QED
        BY <1>1, <1>2, <3>1, <3>2
    <2>5. Cardinality(U) = n + 1
      BY <1>3, <2>4, FS_AddElement DEF n
    <2>6. Len(r) = Len(q) + 1
      BY <1>4, <2>1, QueueLengths
    <2> QED
      BY <1>3, <1>4, <2>3, <2>5, <2>6 DEF Room
  <1>13. ASSUME NEW j \in Jobs, Leaves(j, w)
         PROVE  Room(inMemoryHeld'[w], r, U)
    <2>1. Others(j) /\ inMemoryHeld'[w] = inMemoryHeld[w]
      BY <1>13 DEF Leaves
    <2>2. Seeks(local'[j]) <=> Seeks(local[j])
      <3>1. CASE /\ local[j].pc = "queued"
                 /\ local'[j] = At("rejected", NoPod, NoVersion, NoJob)
        BY <3>1
      <3> QED
        BY <1>13, <3>1 DEF Leaves
    <2>3. U = T
      BY <1>6, <2>1, <2>2
    <2>4. PICK k \in 1 .. Len(q) : r = Splice(q, k)
      BY <1>13 DEF Leaves, q, r
    <2>5. Len(r) = Len(q) - 1 /\ Len(r) \in Nat
      BY <1>4, <2>4, QueueLengths
    <2> QED
      BY <1>4, <1>5, <2>1, <2>3, <2>5
  <1> USE DEF r, U
  <1> QED
    BY <1>7, <1>8, <1>9, <1>10, <1>11, <1>12, <1>13 DEF AloneStep

-----------------------------------------------------------------------------
(* A worker that is alone wastes no pod *)

LEMMA InitQueueInv == ASSUME Init PROVE QueueInv
  <1>1. IInv
    BY InitIInv
  <1>2. \A w \in Workers : waiters[w] = <<>>
    BY DEF Init, Procs
  <1>3. \A w \in Workers : Searchers(w) = {}
    BY DEF Init, Searchers, JobsOf, Threads
  <1>4. /\ \A p \in Pods : lease[p].holder = NoJob
        /\ \A j \in Jobs : local[j].pc = "new"
    BY DEF Init, Threads
  <1>5. Len(<<>>) = 0 /\ Cardinality({}) = 0
    BY FS_EmptySet
  <1>6. WorkConserving
    <2> SUFFICES ASSUME NEW w \in Workers
                 PROVE  Len(waiters[w]) <= Cardinality(Searchers(w))
      BY DEF WorkConserving
    <2>1. Len(waiters[w]) = 0 /\ Cardinality(Searchers(w)) = 0
      BY <1>2, <1>3, <1>5
    <2> QED
      BY <2>1
  <1> QED
    BY <1>1, <1>4, <1>6 DEF QueueInv, AloneInv, LeasesReserved, VersionsCurrent

LEMMA NextQueueInv ==
    ASSUME SafeDeployment, IsFiniteSet(Jobs), QueueInv, [Next]_vars
    PROVE  QueueInv'
  <1>1. IInv'
    BY NextIInv DEF QueueInv
  <1>2. ASSUME NEW w \in Workers, Alone(w)'
        PROVE  Calm(w) /\ AloneStep(w)
    <2>1. Calm(w)
      BY <1>2, AloneBefore DEF Calm, QueueInv, IInv, Typed
    <2> QED
      BY <2>1, AloneNext
  <1>3. ASSUME NEW w \in Workers, Alone(w)'
        PROVE  LeasesReserved(w)' /\ VersionsCurrent'
    BY <1>2, <1>3, LeasesReservedStep, VersionsCurrentStep
  <1>4. ASSUME NEW w \in Workers, Alone(w)'
        PROVE  Room(inMemoryHeld'[w], waiters'[w], Searchers(w)')
    BY <1>1, <1>2, <1>4, RoomStep
  <1>5. WorkConserving'
    BY <1>4 DEF WorkConserving, Room
  <1> QED
    BY <1>1, <1>3, <1>5 DEF QueueInv, AloneInv

\* A worker that has run alone and undisturbed keeps a call waiting only while
\* every pod is reserved or a releaser is scanning for it: acquirePod's scan and
\* its enqueue leave no gap, nor does releasePod between the clearing and the
\* handoff, nor its retry when the API server refuses the handoff, as that of a
\* Lease does.
THEOREM WorkConserved ==
    ASSUME SafeDeployment, IsFiniteSet(Jobs) PROVE Spec => []WorkConserving
  <1>1. Init => QueueInv
    BY InitQueueInv
  <1>2. QueueInv /\ [Next]_vars => QueueInv'
    BY NextQueueInv
  <1>3. QueueInv => WorkConserving
    BY DEF QueueInv
  <1> QED
    BY <1>1, <1>2, <1>3, PTL DEF Spec
=============================================================================
