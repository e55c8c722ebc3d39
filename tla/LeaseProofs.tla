---------------------------- MODULE LeaseProofs -----------------------------
(* Proofs about LeaseManager, for any pods, workers, servers and jobs. *)
EXTENDS LeaseProperties, TLAPS

USE DEF NoPod, NoVersion

-----------------------------------------------------------------------------
(* Sequences: what the queue operations keep *)

LEMMA SeqMonotone ==
    ASSUME NEW S, NEW T, S \subseteq T, NEW q \in Seq(S)
    PROVE  q \in Seq(T)
  OBVIOUS

LEMMA PushedSeq ==
    ASSUME NEW S, NEW q \in Seq(S), NEW x \in S
    PROVE  Append(q, x) \in Seq(S) /\ <<x>> \o q \in Seq(S)
  OBVIOUS

LEMMA ShiftedSeq ==
    ASSUME NEW S, NEW q \in Seq(S)
    PROVE  /\ Rest(q) \in Seq(S)
           /\ q # <<>> => Head(q) \in S /\ Tail(q) \in Seq(S)
  BY DEF Rest

LEMMA SplicedSeq ==
    ASSUME NEW S, NEW q \in Seq(S), NEW i \in 1 .. Len(q)
    PROVE  Splice(q, i) \in Seq(S)
  BY DEF Splice

-----------------------------------------------------------------------------
(* Steps that several actions share *)

Typed == TypeOK /\ ControlOK

USE DEF At

\* A sweep is a thread of the process whose watchdog it is.
LEMMA SweepThread ==
    ASSUME NEW t \in Sweeps
    PROVE  /\ t \in Threads /\ t \notin Jobs
           /\ ProcOf(t) = t[1] /\ t[1] \in Procs
  BY ThreadsAssumption DEF Threads, Sweeps, ProcOf

LEMMA GotoEffect ==
    ASSUME local \in [Threads -> Locals],
           NEW t \in Threads, NEW next \in Locals, Goto(t, next)
    PROVE  /\ local' \in [Threads -> Locals]
           /\ \A u \in Threads : local'[u] = IF u = t THEN next ELSE local[u]
  BY DEF Goto

LEMMA ResolveEffect ==
    ASSUME local \in [Threads -> Locals],
           NEW t \in Threads, NEW next \in Locals, NEW x \in Jobs, NEW p \in Pods,
           local[t].pc # "queued", ResolveWaiter(t, next, x, p)
    PROVE  /\ local' \in [Threads -> Locals]
           /\ \A u \in Threads : local'[u] =
                 IF u = t THEN next
                 ELSE IF u = x /\ local[x].pc = "queued"
                      THEN At("running", p, NoVersion, NoJob) ELSE local[u]
  <1>1. x \in Threads
    BY DEF Threads
  <1>2. At("running", p, NoVersion, NoJob) \in Locals
    BY DEF Locals, JobPCs
  <1> QED
    BY <1>1, <1>2 DEF ResolveWaiter

LEMMA GetEffect ==
    ASSUME TypeOK, NEW ok, GetLease(ok)
    PROVE  lease' = lease /\ faults' \in 0 .. MaxFaults
  BY OptionsAssumption DEF TypeOK, GetLease, Fault

LEMMA PutEffect ==
    ASSUME TypeOK, NEW p \in Pods, NEW h \in Jobs \cup {NoJob}, NEW rv, NEW ok \in BOOLEAN,
           PutLease(p, h, rv, ok)
    PROVE  /\ lease' \in [Pods -> Leases]
           /\ faults' \in 0 .. MaxFaults
           /\ \/ lease' = lease
              \/ /\ Admitted(p, rv)
                 /\ \A q \in Pods : lease'[q] =
                       IF q = p THEN [holder |-> h, rv |-> lease[p].rv + 1,
                                      expired |-> FALSE]
                                ELSE lease[q]
           /\ ok => /\ Admitted(p, rv)
                    /\ lease'[p].holder = h
  <1>1. (lease' = lease /\ ~ok) \/ (Admitted(p, rv) /\ Write(p, h))
    BY DEF PutLease
  <1>2. faults' \in 0 .. MaxFaults
    BY OptionsAssumption DEF TypeOK, PutLease, Fault
  <1>3. ok => Admitted(p, rv) /\ Write(p, h)
    BY DEF PutLease
  <1>4. ASSUME Write(p, h)
        PROVE  /\ lease' \in [Pods -> Leases]
               /\ \A q \in Pods : lease'[q] =
                     IF q = p THEN [holder |-> h, rv |-> lease[p].rv + 1,
                                    expired |-> FALSE]
                              ELSE lease[q]
    BY <1>4 DEF TypeOK, Write, Leases
  <1>5. CASE lease' = lease /\ ~ok
    BY <1>2, <1>5 DEF TypeOK
  <1>6. CASE Admitted(p, rv) /\ Write(p, h)
    BY <1>2, <1>4, <1>6
  <1> QED
    BY <1>1, <1>3, <1>5, <1>6

\* A step of thread t that leaves the other threads where they are.
LEMMA OwnStepTyped ==
    ASSUME Typed, proc' = proc,
           NEW t \in Threads, NEW next \in Locals,
           t \in Jobs => JobOK(t, next),
           t \in Sweeps => WatchdogOK(t, next),
           \A u \in Threads : local'[u] = IF u = t THEN next ELSE local[u]
    PROVE  /\ \A j \in Jobs : JobOK(j, local[j])'
           /\ \A u \in Sweeps : WatchdogOK(u, local[u])'
  <1>1. ASSUME NEW j \in Jobs PROVE JobOK(j, local[j])'
    BY DEF Typed, ControlOK, JobOK, Threads
  <1>2. ASSUME NEW u \in Sweeps PROVE WatchdogOK(u, local[u])'
    BY DEF Typed, ControlOK, WatchdogOK, Threads
  <1> QED
    BY <1>1, <1>2

\* A step of thread t that may have granted pod p to job x.
LEMMA GrantStepTyped ==
    ASSUME Typed, proc' = proc,
           NEW t \in Threads, NEW next \in Locals,
           t \in Jobs => JobOK(t, next),
           t \in Sweeps => WatchdogOK(t, next),
           NEW x \in Jobs, NEW p \in Pods,
           \A u \in Threads : local'[u] =
                 IF u = t THEN next
                 ELSE IF u = x /\ local[x].pc = "queued"
                      THEN At("running", p, NoVersion, NoJob) ELSE local[u]
    PROVE  /\ \A j \in Jobs : JobOK(j, local[j])'
           /\ \A u \in Sweeps : WatchdogOK(u, local[u])'
  <1>1. ASSUME NEW j \in Jobs PROVE JobOK(j, local[j])'
    <2>1. CASE j = t \/ j # x \/ local[x].pc # "queued"
      BY <2>1 DEF Typed, ControlOK, JobOK, Threads
    <2>2. CASE j # t /\ j = x /\ local[x].pc = "queued"
      <3>1. local'[j] = At("running", p, NoVersion, NoJob)
        BY <2>2 DEF Threads
      <3>2. proc[j] # NoProc
        BY <2>2 DEF Typed, ControlOK, JobOK
      <3> QED
        BY <3>1, <3>2 DEF JobOK, JobPCs
    <2> QED
      BY <2>1, <2>2
  <1>2. ASSUME NEW u \in Sweeps PROVE WatchdogOK(u, local[u])'
    <2>1. u # x /\ u \in Threads
      BY ThreadsAssumption DEF Threads
    <2> QED
      BY <2>1 DEF Typed, ControlOK, WatchdogOK
  <1> QED
    BY <1>1, <1>2

\* What tryAcquireAny's loop does in job t: it reserves a pod, or queues or ends.
ScanOutcome(t, w, held, queue) ==
    /\ inMemoryHeld' \in [Procs -> SUBSET Pods]
    /\ waiters' \in [Procs -> Seq(Jobs)]
    /\ \A v \in Procs : waiters'[v] =
          IF v # w THEN waiters[v]
          ELSE IF local'[t].pc = "queued" THEN Append(queue, t) ELSE queue
    /\ local' \in [Threads -> Locals]
    /\ \A u \in Threads \ {t} : local'[u] = local[u]
    /\ timer' \in [Jobs -> Timers]
    /\ \A j \in Jobs \ {t} : timer'[j] = timer[j]
    /\ \A v \in Procs \ {w} : inMemoryHeld'[v] = inMemoryHeld[v]
    /\ \/ \E p \in Pods :
             /\ local'[t] = At("read", p, NoVersion, local[t].waiter)
             /\ p \notin held /\ inMemoryHeld'[w] = held \cup {p}
       \/ /\ \/ local'[t] = At("queued", NoPod, NoVersion, NoJob)
             \/ local'[t] = Done
          /\ inMemoryHeld'[w] = held

LEMMA ScanEffect ==
    ASSUME Typed, NEW t \in Jobs, NEW w \in Workers, NEW i \in Nat,
           NEW held \in SUBSET Pods, NEW queue \in Seq(Jobs),
           Scan(t, w, i, held, queue)
    PROVE  ScanOutcome(t, w, held, queue)
  <1> t \in Threads /\ w \in Procs
    BY DEF Threads, Procs
  <1>1. CASE \E p \in First(held, i) :
               /\ inMemoryHeld' = [inMemoryHeld EXCEPT ![w] = held \cup {p}]
               /\ waiters' = [waiters EXCEPT ![w] = queue]
               /\ Goto(t, At("read", p, NoVersion, local[t].waiter))
               /\ UNCHANGED timer
    <2>1. PICK p \in First(held, i) :
               /\ inMemoryHeld' = [inMemoryHeld EXCEPT ![w] = held \cup {p}]
               /\ waiters' = [waiters EXCEPT ![w] = queue]
               /\ Goto(t, At("read", p, NoVersion, local[t].waiter))
               /\ UNCHANGED timer
      BY <1>1
    <2>2. p \in Pods \ held
      BY DEF First, Free
    <2>3. At("read", p, NoVersion, local[t].waiter) \in Locals
      BY <2>2 DEF Typed, TypeOK, Locals, JobPCs
    <2>4. /\ local' \in [Threads -> Locals]
          /\ \A u \in Threads : local'[u] =
               IF u = t THEN At("read", p, NoVersion, local[t].waiter) ELSE local[u]
      BY <2>1, <2>3, GotoEffect DEF Typed, TypeOK
    <2> QED
      BY <2>1, <2>2, <2>4 DEF Typed, TypeOK, ScanOutcome
  <1>2. ASSUME NEW next \in {At("queued", NoPod, NoVersion, NoJob), Done},
               Goto(t, next),
               inMemoryHeld' = [inMemoryHeld EXCEPT ![w] = held],
               waiters' = [waiters EXCEPT ![w] =
                     IF next.pc = "queued" THEN Append(queue, t) ELSE queue],
               timer' = [timer EXCEPT ![t] =
                     IF next.pc = "queued" THEN "armed" ELSE @]
        PROVE  /\ inMemoryHeld' \in [Procs -> SUBSET Pods]
               /\ waiters' \in [Procs -> Seq(Jobs)]
               /\ \A v \in Procs : waiters'[v] =
                     IF v # w THEN waiters[v]
                     ELSE IF local'[t].pc = "queued" THEN Append(queue, t) ELSE queue
               /\ local' \in [Threads -> Locals]
               /\ \A u \in Threads \ {t} : local'[u] = local[u]
               /\ timer' \in [Jobs -> Timers]
               /\ \A j \in Jobs \ {t} : timer'[j] = timer[j]
               /\ \A v \in Procs \ {w} : inMemoryHeld'[v] = inMemoryHeld[v]
               /\ local'[t] = next
               /\ inMemoryHeld'[w] = held
    <2>1. next \in Locals
      BY <1>2 DEF Locals, JobPCs, Done
    <2>2. /\ local' \in [Threads -> Locals]
          /\ \A u \in Threads : local'[u] = IF u = t THEN next ELSE local[u]
      BY <1>2, <2>1, GotoEffect DEF Typed, TypeOK
    <2>3. Append(queue, t) \in Seq(Jobs)
      BY PushedSeq
    <2>4. timer' \in [Jobs -> Timers]
      BY <1>2 DEF Typed, TypeOK, Timers
    <2> QED
      BY <1>2, <2>2, <2>3, <2>4 DEF Typed, TypeOK
  <1>3. CASE /\ inMemoryHeld' = [inMemoryHeld EXCEPT ![w] = held]
             /\ waiters' = [waiters EXCEPT ![w] = Append(queue, t)]
             /\ Goto(t, At("queued", NoPod, NoVersion, NoJob))
             /\ timer' = [timer EXCEPT ![t] = "armed"]
    BY <1>3, <1>2 DEF ScanOutcome
  <1>4. CASE /\ inMemoryHeld' = [inMemoryHeld EXCEPT ![w] = held]
             /\ waiters' = [waiters EXCEPT ![w] = queue]
             /\ Goto(t, Done)
             /\ UNCHANGED timer
    <2>1. timer' = [timer EXCEPT ![t] = IF Done.pc = "queued" THEN "armed" ELSE @]
      BY <1>4 DEF Done, Typed, TypeOK
    <2>2. Done.pc # "queued"
      BY DEF Done
    <2> QED
      BY <1>4, <1>2, <2>1, <2>2 DEF ScanOutcome
  <1> QED
    BY <1>1, <1>3, <1>4 DEF Scan

LEMMA ScanTyped ==
    ASSUME Typed, proc' = proc, NEW t \in Jobs, local[t].pc # "new",
           NEW i \in Nat, NEW held \in SUBSET Pods,
           NEW queue \in Seq(JobsOf(proc[t])),
           local[t].waiter # NoJob => proc[local[t].waiter] = proc[t],
           Scan(t, proc[t], i, held, queue)
    PROVE  /\ inMemoryHeld' \in [Procs -> SUBSET Pods]
           /\ waiters' \in [Procs -> Seq(Jobs)]
           /\ local' \in [Threads -> Locals]
           /\ timer' \in [Jobs -> Timers]
           /\ ControlOK'
  <1>1. proc[t] \in Workers /\ proc[t] # NoProc /\ proc[t] \in Procs
    BY ThreadsAssumption DEF Typed, TypeOK, ControlOK, JobOK, Procs
  <1>2. queue \in Seq(Jobs)
    BY SeqMonotone DEF JobsOf
  <1>3. t \in Threads /\ t \notin Sweeps
    BY ThreadsAssumption DEF Threads
  <1>4. /\ inMemoryHeld' \in [Procs -> SUBSET Pods]
        /\ waiters' \in [Procs -> Seq(Jobs)]
        /\ local' \in [Threads -> Locals]
        /\ timer' \in [Jobs -> Timers]
        /\ \A v \in Procs : waiters'[v] =
              IF v # proc[t] THEN waiters[v]
              ELSE IF local'[t].pc = "queued" THEN Append(queue, t) ELSE queue
        /\ \A u \in Threads \ {t} : local'[u] = local[u]
        /\ \A j \in Jobs \ {t} : timer'[j] = timer[j]
        /\ \/ \E p \in Pods : local'[t] = At("read", p, NoVersion, local[t].waiter)
           \/ local'[t] = At("queued", NoPod, NoVersion, NoJob)
           \/ local'[t] = Done
    <2>1. ScanOutcome(t, proc[t], held, queue)
      BY <1>1, <1>2, ScanEffect
    <2> QED
      BY <2>1 DEF ScanOutcome
  <1>5. JobOK(t, local'[t])
    <2>1. CASE \E p \in Pods : local'[t] = At("read", p, NoVersion, local[t].waiter)
      <3>1. PICK p \in Pods : local'[t] = At("read", p, NoVersion, local[t].waiter)
        BY <2>1
      <3> QED
        BY <1>1, <3>1 DEF JobOK, JobPCs
    <2>2. CASE \/ local'[t] = At("queued", NoPod, NoVersion, NoJob)
               \/ local'[t] = Done
      BY <1>1, <2>2 DEF JobOK, JobPCs, Done
    <2> QED
      BY <1>4, <2>1, <2>2
  <1>6. /\ \A j \in Jobs : JobOK(j, local[j])'
        /\ \A u \in Sweeps : WatchdogOK(u, local[u])'
    <2>1. local'[t] \in Locals
      BY <1>3, <1>4
    <2> QED
      BY <1>3, <1>4, <1>5, <2>1, OwnStepTyped
  <1>7. ASSUME NEW v \in Procs PROVE waiters'[v] \in Seq(JobsOf(v)')
    <2>1. JobsOf(v)' = JobsOf(v)
      BY DEF JobsOf
    <2>2. CASE v = proc[t]
      <3>1. t \in JobsOf(proc[t])
        BY DEF JobsOf
      <3>2. Append(queue, t) \in Seq(JobsOf(proc[t]))
        BY <3>1, PushedSeq
      <3> QED
        BY <1>4, <2>1, <2>2, <3>2
    <2>3. CASE v # proc[t]
      BY <1>4, <2>1, <2>3 DEF Typed, ControlOK
    <2> QED
      BY <2>2, <2>3
  <1>8. \A j \in Jobs : (timer[j] # "unset" => proc[j] \in Workers)'
    BY <1>1, <1>4 DEF Typed, ControlOK
  <1> QED
    BY <1>4, <1>6, <1>7, <1>8 DEF ControlOK

LEMMA ScanOnTyped ==
    ASSUME Typed, proc' = proc, NEW t \in Jobs, local[t].pc \in {"read", "put"},
           ScanOn(t)
    PROVE  /\ inMemoryHeld' \in [Procs -> SUBSET Pods]
           /\ waiters' \in [Procs -> Seq(Jobs)]
           /\ local' \in [Threads -> Locals]
           /\ timer' \in [Jobs -> Timers]
           /\ ControlOK'
  <1>1. /\ proc[t] \in Procs /\ local[t].pod \in Pods
        /\ local[t].waiter # NoJob => proc[local[t].waiter] = proc[t]
    BY DEF Typed, TypeOK, ControlOK, JobOK, Procs
  <1>2. inMemoryHeld[proc[t]] \ {local[t].pod} \in SUBSET Pods
    BY <1>1 DEF Typed, TypeOK
  <1>3. local[t].pod + 1 \in Nat
    BY <1>1 DEF Pods
  <1>4. waiters[proc[t]] \in Seq(JobsOf(proc[t]))
    BY <1>1 DEF Typed, ControlOK
  <1>5. Scan(t, proc[t], local[t].pod + 1,
             inMemoryHeld[proc[t]] \ {local[t].pod}, waiters[proc[t]])
    BY DEF ScanOn, ProcOf
  <1> QED
    BY <1>1, <1>2, <1>3, <1>4, <1>5, ScanTyped

\* A step that keeps the control state as it is, except for thread t.
LEMMA QueuesTyped ==
    ASSUME Typed, proc' = proc, timer' \in [Jobs -> Timers],
           \A j \in Jobs : timer[j] = "unset" => timer'[j] = "unset",
           waiters' \in [Procs -> Seq(Jobs)],
           \A w \in Procs : waiters'[w] \in Seq(JobsOf(w)),
           \A j \in Jobs : JobOK(j, local[j])',
           \A u \in Sweeps : WatchdogOK(u, local[u])'
    PROVE  ControlOK'
  <1>1. \A w \in Procs : JobsOf(w)' = JobsOf(w)
    BY DEF JobsOf
  <1> QED
    BY <1>1 DEF Typed, TypeOK, ControlOK

LEMMA StartTyped ==
    ASSUME Typed, NEW j \in Jobs, NEW w \in Workers, Start(j, w)
    PROVE  Typed'
  <1>1. /\ proc[j] = NoProc /\ proc' = [proc EXCEPT ![j] = w]
        /\ local[j].waiter = NoJob /\ w \in Procs /\ NoProc \notin Procs
        /\ j \in Threads /\ j \notin Sweeps
        /\ proc \in [Jobs -> Workers \cup {NoProc}]
    BY ThreadsAssumption
    DEF Typed, TypeOK, ControlOK, JobOK, Start, Procs, Threads
  <1>2. /\ inMemoryHeld' \in [Procs -> SUBSET Pods]
        /\ waiters' \in [Procs -> Seq(Jobs)]
        /\ local' \in [Threads -> Locals]
        /\ timer' \in [Jobs -> Timers]
        /\ \A v \in Procs : waiters'[v] =
              IF v # w THEN waiters[v]
              ELSE IF local'[j].pc = "queued" THEN Append(waiters[w], j) ELSE waiters[w]
        /\ \A u \in Threads \ {j} : local'[u] = local[u]
        /\ \A i \in Jobs \ {j} : timer'[i] = timer[i]
        /\ \/ \E p \in Pods : local'[j] = At("read", p, NoVersion, NoJob)
           \/ local'[j] = At("queued", NoPod, NoVersion, NoJob)
           \/ local'[j] = Done
    <2>1. inMemoryHeld[w] \in SUBSET Pods /\ waiters[w] \in Seq(Jobs) /\ 1 \in Nat
      BY <1>1 DEF Typed, TypeOK
    <2>2. Scan(j, w, 1, inMemoryHeld[w], waiters[w])
      BY DEF Start
    <2> DEFINE held == inMemoryHeld[w]
    <2> DEFINE queue == waiters[w]
    <2>3. /\ held \in SUBSET Pods /\ queue \in Seq(Jobs)
          /\ Scan(j, w, 1, held, queue)
      BY <2>1, <2>2
    <2> HIDE DEF held, queue
    <2>4. ScanOutcome(j, w, held, queue)
      BY <2>1, <2>3, ScanEffect
    <2> QED
      BY <1>1, <2>4 DEF queue, ScanOutcome
  <1>3. proc' \in [Jobs -> Workers \cup {NoProc}]
    BY <1>1
  <1>4. ASSUME NEW i \in Jobs PROVE JobOK(i, local[i])'
    <2>1. CASE i = j
      BY <1>1, <1>2, <2>1 DEF JobOK, JobPCs, Done
    <2>2. CASE i # j
      <3>1. local'[i] = local[i] /\ proc'[i] = proc[i]
        BY <1>1, <1>2, <2>2 DEF Threads
      <3>2. local[i].waiter # NoJob => /\ local[i].waiter # j
                                      /\ local[i].waiter \in Jobs
        BY <1>1 DEF Typed, TypeOK, ControlOK, JobOK, Locals, Threads
      <3> QED
        BY <1>1, <3>1, <3>2 DEF Typed, ControlOK, JobOK
    <2> QED
      BY <2>1, <2>2
  <1>5. ASSUME NEW u \in Sweeps PROVE WatchdogOK(u, local[u])'
    <2>1. local'[u] = local[u] /\ u[1] # NoProc /\ u \in Threads
      BY <1>1, <1>2, SweepThread
    <2>2. local[u].waiter # NoJob => /\ local[u].waiter # j
                                    /\ local[u].waiter \in Jobs
      BY <1>1, <2>1 DEF Typed, TypeOK, ControlOK, WatchdogOK, Locals, Threads
    <2> QED
      BY <1>1, <2>1, <2>2 DEF Typed, ControlOK, WatchdogOK
  <1>6. ASSUME NEW v \in Procs PROVE (waiters[v] \in Seq(JobsOf(v)))'
    <2>1. JobsOf(v) \subseteq JobsOf(v)'
      BY <1>1 DEF JobsOf
    <2>2. waiters[v] \in Seq(JobsOf(v)')
      BY <2>1, SeqMonotone DEF Typed, ControlOK
    <2>3. CASE v = w
      <3>1. j \in JobsOf(v)'
        BY <1>1, <2>3 DEF JobsOf
      <3>2. Append(waiters[w], j) \in Seq(JobsOf(v)')
        BY <2>2, <2>3, <3>1, PushedSeq
      <3> QED
        BY <1>2, <2>2, <2>3, <3>2
    <2>4. CASE v # w
      BY <1>2, <2>2, <2>4
    <2> QED
      BY <2>3, <2>4
  <1>7. \A i \in Jobs : (timer[i] # "unset" => proc[i] \in Workers)'
    BY <1>1, <1>2 DEF Typed, ControlOK
  <1>8. UNCHANGED <<lease, everExpired, faults, crashes>>
    BY DEF Start
  <1> QED
    BY <1>2, <1>3, <1>4, <1>5, <1>6, <1>7, <1>8 DEF Typed, TypeOK, ControlOK

LEMMA ReadLeaseTyped ==
    ASSUME Typed, NEW t \in Jobs, ReadLease(t)
    PROVE  Typed'
  <1>1. PICK ok \in BOOLEAN :
          /\ GetLease(ok)
          /\ \/ /\ ok /\ ~Busy(local[t].pod)
                /\ Goto(t, [local[t] EXCEPT !.pc = "put",
                                     !.seen = lease[local[t].pod].rv])
                /\ UNCHANGED <<inMemoryHeld, waiters, timer>>
             \/ ScanOn(t)
    BY DEF ReadLease
  <1>2. /\ lease' = lease /\ faults' \in 0 .. MaxFaults
        /\ UNCHANGED <<proc, everExpired, crashes>>
        /\ local[t].pc = "read" /\ t \in Threads /\ t \notin Sweeps
    BY <1>1, GetEffect, ThreadsAssumption DEF ReadLease, Typed, Threads
  <1>3. CASE ScanOn(t)
    BY <1>2, <1>3, ScanOnTyped DEF Typed, TypeOK
  <1>4. CASE /\ Goto(t, [local[t] EXCEPT !.pc = "put",
                                   !.seen = lease[local[t].pod].rv])
             /\ UNCHANGED <<inMemoryHeld, waiters, timer>>
    <2> DEFINE next == [local[t] EXCEPT !.pc = "put", !.seen = lease[local[t].pod].rv]
    <2>1. local[t] \in Locals /\ local[t].pod \in Pods /\ JobOK(t, local[t])
      BY <1>2 DEF Typed, TypeOK, ControlOK, JobOK
    <2>2. next \in Locals /\ JobOK(t, next)
      BY <1>2, <2>1 DEF Typed, TypeOK, JobOK, Locals, Leases, JobPCs
    <2> HIDE DEF next
    <2>3. /\ local' \in [Threads -> Locals]
          /\ \A u \in Threads : local'[u] = IF u = t THEN next ELSE local[u]
      BY <1>2, <1>4, <2>2, GotoEffect DEF Typed, TypeOK, next
    <2>4. /\ \A j \in Jobs : JobOK(j, local[j])'
          /\ \A u \in Sweeps : WatchdogOK(u, local[u])'
      BY <1>2, <2>2, <2>3, OwnStepTyped
    <2>5. ControlOK'
      BY <1>2, <1>4, <2>4, QueuesTyped DEF Typed, TypeOK, ControlOK
    <2> QED
      BY <1>2, <1>4, <2>3, <2>5 DEF Typed, TypeOK
  <1> QED
    BY <1>1, <1>3, <1>4

LEMMA TryPutTyped ==
    ASSUME Typed, NEW t \in Jobs, TryPut(t)
    PROVE  Typed'
  <1> DEFINE p == local[t].pod
  <1> DEFINE x == local[t].waiter
  <1>1. PICK ok \in BOOLEAN :
          /\ PutLease(p, Context(t), local[t].seen, ok)
          /\ \/ ok /\ Acquired(t) /\ UNCHANGED <<inMemoryHeld, timer>>
             \/ ~ok /\ ScanOn(t)
    BY DEF TryPut
  <1>2. /\ UNCHANGED <<proc, everExpired, crashes>>
        /\ local[t].pc = "put" /\ local[t].pod \in Pods /\ JobOK(t, local[t])
        /\ local[t] \in Locals /\ Context(t) \in Jobs
        /\ t \in Threads /\ t \notin Sweeps /\ proc[t] \in Procs
        /\ proc[t] # NoProc
    BY ThreadsAssumption
    DEF TryPut, Typed, TypeOK, ControlOK, JobOK, Locals, Context, Threads, Procs
  <1>3. lease' \in [Pods -> Leases] /\ faults' \in 0 .. MaxFaults
    BY <1>1, <1>2, PutEffect DEF Typed
  <1>4. CASE ScanOn(t)
    BY <1>2, <1>3, <1>4, ScanOnTyped DEF Typed, TypeOK
  <1>5. CASE /\ x = NoJob /\ Goto(t, At("running", p, NoVersion, NoJob))
             /\ UNCHANGED <<waiters, inMemoryHeld, timer>>
    <2> DEFINE next == At("running", p, NoVersion, NoJob)
    <2>1. next \in Locals /\ JobOK(t, next)
      BY <1>2 DEF JobOK, Locals, JobPCs
    <2> HIDE DEF next
    <2>2. /\ local' \in [Threads -> Locals]
          /\ \A u \in Threads : local'[u] = IF u = t THEN next ELSE local[u]
      BY <1>2, <1>5, <2>1, GotoEffect DEF Typed, TypeOK, next
    <2>3. /\ \A j \in Jobs : JobOK(j, local[j])'
          /\ \A u \in Sweeps : WatchdogOK(u, local[u])'
      BY <1>2, <2>1, <2>2, OwnStepTyped
    <2>4. ControlOK'
      BY <1>2, <1>5, <2>3, QueuesTyped DEF Typed, TypeOK, ControlOK
    <2> QED
      BY <1>2, <1>3, <1>5, <2>2, <2>4 DEF Typed, TypeOK
  <1>6. CASE /\ x # NoJob /\ ResolveWaiter(t, Done, x, p)
             /\ waiters' = [waiters EXCEPT ![proc[t]] = Rest(@)]
             /\ UNCHANGED <<inMemoryHeld, timer>>
    <2>1. Done \in Locals /\ JobOK(t, Done) /\ x \in Jobs /\ p \in Pods
          /\ local[t].pc # "queued"
      BY <1>2, <1>6 DEF JobOK, Locals, JobPCs, Done
    <2>2. /\ local' \in [Threads -> Locals]
          /\ \A u \in Threads : local'[u] =
               IF u = t THEN Done
               ELSE IF u = x /\ local[x].pc = "queued"
                    THEN At("running", p, NoVersion, NoJob) ELSE local[u]
      BY <1>2, <1>6, <2>1, ResolveEffect DEF Typed, TypeOK
    <2>3. /\ \A j \in Jobs : JobOK(j, local[j])'
          /\ \A u \in Sweeps : WatchdogOK(u, local[u])'
      BY <1>2, <2>1, <2>2, GrantStepTyped
    <2>4. /\ Rest(waiters[proc[t]]) \in Seq(JobsOf(proc[t]))
          /\ Rest(waiters[proc[t]]) \in Seq(Jobs)
      BY <1>2, ShiftedSeq DEF Typed, TypeOK, ControlOK
    <2>5. /\ waiters' \in [Procs -> Seq(Jobs)]
          /\ \A w \in Procs : waiters'[w] \in Seq(JobsOf(w))
      BY <1>2, <1>6, <2>4 DEF Typed, TypeOK, ControlOK
    <2>6. ControlOK'
      BY <1>2, <1>6, <2>3, <2>5, QueuesTyped DEF Typed, TypeOK
    <2> QED
      BY <1>2, <1>3, <1>6, <2>2, <2>5, <2>6 DEF Typed, TypeOK
  <1> QED
    BY <1>1, <1>4, <1>5, <1>6 DEF Acquired, ProcOf

LEMMA TimeoutTyped ==
    ASSUME Typed, NEW j \in Jobs, Timeout(j)
    PROVE  Typed'
  <1> DEFINE w == proc[j]
  <1>1. /\ proc[j] \in Workers /\ proc[j] \in Procs /\ proc[j] # NoProc
        /\ timer' = [timer EXCEPT ![j] = "fired"]
        /\ UNCHANGED <<lease, inMemoryHeld, proc, everExpired, faults, crashes>>
        /\ j \in Threads /\ j \notin Sweeps
    BY ThreadsAssumption DEF Timeout, Typed, ControlOK, Procs, Threads
  <1>2. /\ timer' \in [Jobs -> Timers]
        /\ \A i \in Jobs : timer[i] = "unset" => timer'[i] = "unset"
    BY <1>1 DEF Timeout, Typed, TypeOK, Timers
  <1>3. CASE UNCHANGED <<waiters, local>>
    <2>1. ControlOK'
      BY <1>1, <1>2, <1>3, QueuesTyped
      DEF Typed, TypeOK, ControlOK, JobOK, WatchdogOK
    <2> QED
      BY <1>1, <1>2, <1>3, <2>1 DEF Typed, TypeOK
  <1>4. ASSUME NEW i \in 1 .. Len(waiters[w]),
               waiters' = [waiters EXCEPT ![w] = Splice(@, i)],
               local' = [local EXCEPT ![j] = IF @.pc = "queued"
                       THEN At("rejected", NoPod, NoVersion, NoJob) ELSE @]
        PROVE  Typed'
    <2> DEFINE next == IF local[j].pc = "queued"
                       THEN At("rejected", NoPod, NoVersion, NoJob) ELSE local[j]
    <2>1. next \in Locals /\ JobOK(j, next)
      BY <1>1 DEF Typed, TypeOK, ControlOK, JobOK, Locals, JobPCs
    <2>2. Goto(j, next)
      BY <1>1, <1>4 DEF Goto, Typed, TypeOK
    <2> HIDE DEF next
    <2>3. /\ local' \in [Threads -> Locals]
          /\ \A u \in Threads : local'[u] = IF u = j THEN next ELSE local[u]
      BY <1>1, <2>1, <2>2, GotoEffect DEF Typed, TypeOK
    <2>4. /\ \A k \in Jobs : JobOK(k, local[k])'
          /\ \A u \in Sweeps : WatchdogOK(u, local[u])'
      BY <1>1, <2>1, <2>3, OwnStepTyped
    <2>5. /\ Splice(waiters[w], i) \in Seq(JobsOf(w))
          /\ Splice(waiters[w], i) \in Seq(Jobs)
      BY <1>1, <1>4, SplicedSeq DEF Typed, TypeOK, ControlOK
    <2>6. /\ waiters' \in [Procs -> Seq(Jobs)]
          /\ \A v \in Procs : waiters'[v] \in Seq(JobsOf(v))
      BY <1>1, <1>4, <2>5 DEF Typed, TypeOK, ControlOK
    <2>7. ControlOK'
      BY <1>1, <1>2, <2>4, <2>6, QueuesTyped
    <2> QED
      BY <1>1, <1>2, <2>3, <2>6, <2>7 DEF Typed, TypeOK
  <1> QED
    BY <1>3, <1>4 DEF Timeout

LEMMA ClearedTyped ==
    ASSUME Typed, proc' = proc, timer' = timer, NEW t \in Threads,
           local[t].pc \in {"clearRead", "clearPut"}, Cleared(t)
    PROVE  /\ inMemoryHeld' \in [Procs -> SUBSET Pods]
           /\ waiters' \in [Procs -> Seq(Jobs)]
           /\ local' \in [Threads -> Locals]
           /\ ControlOK'
  <1> DEFINE w == ProcOf(t)
  <1> DEFINE p == local[t].pod
  <1>0. w \in Procs
    BY SweepThread DEF Typed, TypeOK, ControlOK, JobOK, ProcOf, Threads, Procs
  <1>1. /\ w \in Procs /\ p \in Pods /\ local \in [Threads -> Locals]
        /\ t \in Jobs => JobOK(t, local[t]) /\ t \notin Sweeps /\ proc[t] # NoProc
        /\ t \in Sweeps => t \notin Jobs
        /\ waiters[w] \in Seq(Jobs) /\ waiters[w] \in Seq(JobsOf(w))
    BY <1>0, ThreadsAssumption
    DEF Typed, TypeOK, ControlOK, JobOK, WatchdogOK, Threads
  <1>2. ASSUME NEW next \in Locals, Goto(t, next),
               t \in Jobs => JobOK(t, next), t \in Sweeps => WatchdogOK(t, next)
        PROVE  /\ local' \in [Threads -> Locals]
               /\ \A k \in Jobs : JobOK(k, local[k])'
               /\ \A u \in Sweeps : WatchdogOK(u, local[u])'
    <2>1. /\ local' \in [Threads -> Locals]
          /\ \A u \in Threads : local'[u] = IF u = t THEN next ELSE local[u]
      BY <1>1, <1>2, GotoEffect
    <2> QED
      BY <1>2, <2>1, OwnStepTyped
  <1>3. CASE /\ t \in Jobs /\ waiters[w] = <<>>
             /\ inMemoryHeld' = [inMemoryHeld EXCEPT ![w] = @ \ {p}]
             /\ Goto(t, Done)
             /\ UNCHANGED waiters
    <2>1. Done \in Locals /\ JobOK(t, Done)
      BY <1>1, <1>3 DEF Done, JobOK, Locals, JobPCs
    <2>2. /\ local' \in [Threads -> Locals]
          /\ \A k \in Jobs : JobOK(k, local[k])'
          /\ \A u \in Sweeps : WatchdogOK(u, local[u])'
      BY <1>1, <1>2, <1>3, <2>1
    <2>3. inMemoryHeld' \in [Procs -> SUBSET Pods]
      BY <1>1, <1>3 DEF Typed, TypeOK
    <2>4. ControlOK'
      BY <1>3, <2>2, QueuesTyped DEF Typed, TypeOK, ControlOK
    <2> QED
      BY <1>3, <2>2, <2>3, <2>4 DEF Typed, TypeOK
  <1>4. CASE /\ t \in Jobs /\ waiters[w] # <<>>
             /\ waiters' = [waiters EXCEPT ![w] = Tail(@)]
             /\ Goto(t, At("handoff", p, NoVersion, Head(waiters[w])))
             /\ UNCHANGED inMemoryHeld
    <2> DEFINE next == At("handoff", p, NoVersion, Head(waiters[w]))
    <2>1. /\ Head(waiters[w]) \in JobsOf(w)
          /\ Tail(waiters[w]) \in Seq(JobsOf(w)) /\ Tail(waiters[w]) \in Seq(Jobs)
      BY <1>1, <1>4, ShiftedSeq
    <2>2. /\ Head(waiters[w]) \in Jobs /\ Head(waiters[w]) # NoJob
          /\ proc[Head(waiters[w])] = proc[t]
      BY <1>4, <2>1, ThreadsAssumption DEF JobsOf, ProcOf
    <2>3. next \in Locals /\ JobOK(t, next)
      BY <1>1, <1>4, <2>2 DEF JobOK, Locals, JobPCs
    <2>4. /\ local' \in [Threads -> Locals]
          /\ \A k \in Jobs : JobOK(k, local[k])'
          /\ \A u \in Sweeps : WatchdogOK(u, local[u])'
      BY <1>1, <1>2, <1>4, <2>3
    <2>5. /\ waiters' \in [Procs -> Seq(Jobs)]
          /\ \A v \in Procs : waiters'[v] \in Seq(JobsOf(v))
      BY <1>1, <1>4, <2>1 DEF Typed, TypeOK, ControlOK
    <2>6. ControlOK'
      BY <2>4, <2>5, QueuesTyped DEF Typed, TypeOK
    <2> QED
      BY <1>4, <2>4, <2>5, <2>6 DEF Typed, TypeOK
  <1>5. CASE /\ t \in Sweeps
             /\ Goto(t, At("unannotate", p, NoVersion, NoJob))
             /\ UNCHANGED <<inMemoryHeld, waiters>>
    <2> DEFINE next == At("unannotate", p, NoVersion, NoJob)
    <2>1. next \in Locals /\ WatchdogOK(t, next)
      BY <1>1, <1>5 DEF WatchdogOK, Locals, WatchdogPCs
    <2>2. /\ local' \in [Threads -> Locals]
          /\ \A k \in Jobs : JobOK(k, local[k])'
          /\ \A u \in Sweeps : WatchdogOK(u, local[u])'
      BY <1>1, <1>2, <1>5, <2>1
    <2>3. ControlOK'
      BY <1>5, <2>2, QueuesTyped DEF Typed, TypeOK, ControlOK
    <2> QED
      BY <1>5, <2>2, <2>3 DEF Typed, TypeOK
  <1> QED
    BY <1>3, <1>4, <1>5 DEF Cleared

LEMMA ReleaseTyped ==
    ASSUME Typed, NEW j \in Jobs, Release(j)
    PROVE  Typed'
  <1> DEFINE next == [local[j] EXCEPT !.pc = "clearRead"]
  <1>1. /\ j \in Threads /\ j \notin Sweeps /\ JobOK(j, local[j])
        /\ local[j] \in Locals /\ local[j].pc = "running" /\ Goto(j, next)
        /\ UNCHANGED <<lease, inMemoryHeld, waiters, proc, timer, everExpired,
                        faults, crashes>>
    BY ThreadsAssumption DEF Release, Typed, TypeOK, ControlOK, Threads
  <1>2. next \in Locals /\ JobOK(j, next)
    BY <1>1 DEF JobOK, Locals, JobPCs
  <1> HIDE DEF next
  <1>3. /\ local' \in [Threads -> Locals]
        /\ \A u \in Threads : local'[u] = IF u = j THEN next ELSE local[u]
    BY <1>1, <1>2, GotoEffect DEF Typed, TypeOK
  <1>4. /\ \A k \in Jobs : JobOK(k, local[k])'
        /\ \A u \in Sweeps : WatchdogOK(u, local[u])'
    BY <1>1, <1>2, <1>3, OwnStepTyped
  <1>5. ControlOK'
    BY <1>1, <1>4, QueuesTyped DEF Typed, TypeOK, ControlOK
  <1> QED
    BY <1>1, <1>3, <1>5 DEF Typed, TypeOK

LEMMA ClearReadTyped ==
    ASSUME Typed, NEW t \in Threads, ClearRead(t)
    PROVE  Typed'
  <1> DEFINE next == [local[t] EXCEPT !.pc = "clearPut",
                                      !.seen = lease[local[t].pod].rv]
  <1>1. PICK ok \in BOOLEAN :
          /\ GetLease(ok)
          /\ \/ Goto(t, next) /\ UNCHANGED <<inMemoryHeld, waiters>>
             \/ Cleared(t)
    BY DEF ClearRead
  <1>2. /\ lease' = lease /\ faults' \in 0 .. MaxFaults
        /\ UNCHANGED <<proc, timer, everExpired, crashes>>
        /\ local[t].pc = "clearRead"
    BY <1>1, GetEffect DEF ClearRead, Typed
  <1>3. CASE Cleared(t)
    BY <1>2, <1>3, ClearedTyped DEF Typed, TypeOK
  <1>4. CASE Goto(t, next) /\ UNCHANGED <<inMemoryHeld, waiters>>
    <2>1. /\ t \in Jobs => JobOK(t, local[t]) /\ t \notin Sweeps
          /\ t \in Sweeps => WatchdogOK(t, local[t]) /\ t \notin Jobs
          /\ local[t] \in Locals /\ local[t].pod \in Pods
          /\ lease[local[t].pod].rv \in Nat
      BY <1>2, ThreadsAssumption
      DEF Typed, TypeOK, ControlOK, JobOK, WatchdogOK, Threads, Leases
    <2>2. /\ next \in Locals
          /\ t \in Jobs => JobOK(t, next)
          /\ t \in Sweeps => WatchdogOK(t, next)
      BY <1>2, <2>1 DEF JobOK, WatchdogOK, Locals, JobPCs, WatchdogPCs
    <2> HIDE DEF next
    <2>3. /\ local' \in [Threads -> Locals]
          /\ \A u \in Threads : local'[u] = IF u = t THEN next ELSE local[u]
      BY <1>4, <2>2, GotoEffect DEF Typed, TypeOK
    <2>4. /\ \A k \in Jobs : JobOK(k, local[k])'
          /\ \A u \in Sweeps : WatchdogOK(u, local[u])'
      BY <1>2, <2>2, <2>3, OwnStepTyped
    <2>5. ControlOK'
      BY <1>2, <1>4, <2>4, QueuesTyped DEF Typed, TypeOK, ControlOK
    <2> QED
      BY <1>2, <1>4, <2>3, <2>5 DEF Typed, TypeOK
  <1> QED
    BY <1>1, <1>3, <1>4

LEMMA ClearPutTyped ==
    ASSUME Typed, NEW t \in Threads, ClearPut(t)
    PROVE  Typed'
  <1>1. PICK ok \in BOOLEAN : PutLease(local[t].pod, NoJob, local[t].seen, ok)
    BY DEF ClearPut
  <1>2. /\ UNCHANGED <<proc, timer, everExpired, crashes>>
        /\ local[t].pc = "clearPut" /\ Cleared(t) /\ local[t].pod \in Pods
    BY DEF ClearPut, Typed, ControlOK, JobOK, WatchdogOK, Threads
  <1>3. lease' \in [Pods -> Leases] /\ faults' \in 0 .. MaxFaults
    BY <1>1, <1>2, PutEffect DEF Typed
  <1> QED
    BY <1>2, <1>3, ClearedTyped DEF Typed, TypeOK

LEMMA ReleaseHandoffTyped ==
    ASSUME Typed, NEW j \in Jobs, ReleaseHandoff(j)
    PROVE  Typed'
  <1> DEFINE w == proc[j]
  <1> DEFINE p == local[j].pod
  <1> DEFINE x == local[j].waiter
  <1>1. PICK ok \in BOOLEAN :
          /\ PutLease(p, x, NoVersion, ok)
          /\ \/ /\ ok
                /\ ResolveWaiter(j, Done, x, p)
                /\ UNCHANGED <<inMemoryHeld, waiters, timer>>
             \/ /\ ~ok
                /\ Scan(j, w, 1, inMemoryHeld[w] \ {p}, <<x>> \o waiters[w])
    BY DEF ReleaseHandoff
  <1>2. /\ UNCHANGED <<proc, everExpired, crashes>>
        /\ local[j].pc = "handoff" /\ p \in Pods /\ JobOK(j, local[j])
        /\ x \in Jobs /\ proc[x] = w /\ w \in Procs
        /\ j \in Threads /\ j \notin Sweeps /\ w # NoProc
    BY ThreadsAssumption
    DEF ReleaseHandoff, Typed, TypeOK, ControlOK, JobOK, Locals, Threads, Procs
  <1>3. lease' \in [Pods -> Leases] /\ faults' \in 0 .. MaxFaults
    BY <1>1, <1>2, PutEffect DEF Typed
  <1>4. CASE /\ ResolveWaiter(j, Done, x, p)
             /\ UNCHANGED <<inMemoryHeld, waiters, timer>>
    <2>1. Done \in Locals /\ JobOK(j, Done) /\ local[j].pc # "queued"
      BY <1>2 DEF Done, JobOK, Locals, JobPCs
    <2>2. /\ local' \in [Threads -> Locals]
          /\ \A u \in Threads : local'[u] =
               IF u = j THEN Done
               ELSE IF u = x /\ local[x].pc = "queued"
                    THEN At("running", p, NoVersion, NoJob) ELSE local[u]
      BY <1>2, <1>4, <2>1, ResolveEffect DEF Typed, TypeOK
    <2>3. /\ \A k \in Jobs : JobOK(k, local[k])'
          /\ \A u \in Sweeps : WatchdogOK(u, local[u])'
      BY <1>2, <2>1, <2>2, GrantStepTyped
    <2>4. ControlOK'
      BY <1>2, <1>4, <2>3, QueuesTyped DEF Typed, TypeOK, ControlOK
    <2> QED
      BY <1>2, <1>3, <1>4, <2>2, <2>4 DEF Typed, TypeOK
  <1>5. CASE Scan(j, w, 1, inMemoryHeld[w] \ {p}, <<x>> \o waiters[w])
    <2>1. x \in JobsOf(w)
      BY <1>2 DEF JobsOf
    <2>2. <<x>> \o waiters[w] \in Seq(JobsOf(w))
      BY <1>2, <2>1, PushedSeq DEF Typed, ControlOK
    <2>3. inMemoryHeld[w] \ {p} \in SUBSET Pods
      BY <1>2 DEF Typed, TypeOK
    <2>4. /\ inMemoryHeld' \in [Procs -> SUBSET Pods]
          /\ waiters' \in [Procs -> Seq(Jobs)]
          /\ local' \in [Threads -> Locals]
          /\ timer' \in [Jobs -> Timers]
          /\ ControlOK'
      BY <1>2, <1>5, <2>2, <2>3, ScanTyped
    <2> QED
      BY <1>2, <1>3, <2>4 DEF Typed, TypeOK
  <1> QED
    BY <1>1, <1>4, <1>5

LEMMA NextCheckTyped ==
    ASSUME NEW t \in Sweeps, NEW p \in Pods \cup {NoPod}
    PROVE  NextCheck(p) \in Locals /\ WatchdogOK(t, NextCheck(p))
  BY NumPodsAssumption
  DEF NextCheck, Sleep, Locals, WatchdogOK, WatchdogPCs, Pods

\* Watchdog steps that touch neither a queue nor a timer.
LEMMA WatchdogStepTyped ==
    ASSUME Typed, UNCHANGED <<proc, waiters, timer>>, NEW t \in Sweeps,
           NEW next \in Locals, WatchdogOK(t, next), Goto(t, next)
    PROVE  local' \in [Threads -> Locals] /\ ControlOK'
  <1>1. t \in Threads /\ t \notin Jobs
    BY ThreadsAssumption DEF Threads
  <1>2. /\ local' \in [Threads -> Locals]
        /\ \A u \in Threads : local'[u] = IF u = t THEN next ELSE local[u]
    BY <1>1, GotoEffect DEF Typed, TypeOK
  <1>3. /\ \A k \in Jobs : JobOK(k, local[k])'
        /\ \A u \in Sweeps : WatchdogOK(u, local[u])'
    BY <1>1, <1>2, OwnStepTyped
  <1> QED
    BY <1>2, <1>3, QueuesTyped DEF Typed, TypeOK, ControlOK

LEMMA WatchdogTickTyped ==
    ASSUME Typed, NEW t \in Sweeps, WatchdogTick(t)
    PROVE  Typed'
  <1>1. local' \in [Threads -> Locals] /\ ControlOK'
    BY NextCheckTyped, WatchdogStepTyped DEF WatchdogTick
  <1> QED
    BY <1>1 DEF WatchdogTick, Typed, TypeOK

LEMMA WatchdogCheckTyped ==
    ASSUME Typed, NEW t \in Sweeps, WatchdogCheck(t)
    PROVE  Typed'
  <1> DEFINE p == local[t].pod
  <1>1. PICK ok \in BOOLEAN :
          /\ GetLease(ok)
          /\ Goto(t, IF ok /\ Zombie(p)
                     THEN At("clearRead", p, NoVersion, NoJob)
                     ELSE NextCheck(p))
    BY DEF WatchdogCheck
  <1>2. /\ UNCHANGED <<inMemoryHeld, waiters, proc, timer, everExpired, crashes>>
        /\ p \in Pods /\ lease' = lease /\ faults' \in 0 .. MaxFaults
    BY <1>1, GetEffect DEF WatchdogCheck, Typed, ControlOK, WatchdogOK
  <1>3. LET next == At("clearRead", p, NoVersion, NoJob)
        IN  next \in Locals /\ WatchdogOK(t, next)
    BY <1>2 DEF Locals, WatchdogOK, WatchdogPCs
  <1>4. NextCheck(p) \in Locals /\ WatchdogOK(t, NextCheck(p))
    BY <1>2, NextCheckTyped
  <1>5. local' \in [Threads -> Locals] /\ ControlOK'
    BY <1>1, <1>2, <1>3, <1>4, WatchdogStepTyped
  <1> QED
    BY <1>2, <1>5 DEF Typed, TypeOK

LEMMA WatchdogFreeTyped ==
    ASSUME Typed, NEW t \in Sweeps, WatchdogFree(t)
    PROVE  Typed'
  <1> DEFINE w == t[1]
  <1> DEFINE p == local[t].pod
  <1>1. /\ UNCHANGED <<lease, proc, timer, everExpired, faults, crashes>>
        /\ inMemoryHeld' = [inMemoryHeld EXCEPT ![w] = @ \ {p}] /\ p \in Pods
        /\ waiters[w] \in Seq(Jobs) /\ waiters[w] \in Seq(JobsOf(w))
        /\ t \in Threads /\ t \notin Jobs /\ w \in Procs
    BY SweepThread DEF WatchdogFree, Typed, TypeOK, ControlOK, WatchdogOK
  <1>2. inMemoryHeld' \in [Procs -> SUBSET Pods]
    BY <1>1 DEF Typed, TypeOK
  <1>3. CASE waiters[w] = <<>> /\ Goto(t, NextCheck(p)) /\ UNCHANGED waiters
    <2>1. local' \in [Threads -> Locals] /\ ControlOK'
      BY <1>1, <1>3, NextCheckTyped, WatchdogStepTyped
    <2> QED
      BY <1>1, <1>2, <1>3, <2>1 DEF Typed, TypeOK
  <1>4. CASE /\ waiters[w] # <<>>
             /\ waiters' = [waiters EXCEPT ![w] = Tail(@)]
             /\ Goto(t, At("handoff", p, NoVersion, Head(waiters[w])))
    <2> DEFINE next == At("handoff", p, NoVersion, Head(waiters[w]))
    <2>1. /\ Head(waiters[w]) \in JobsOf(w)
          /\ Tail(waiters[w]) \in Seq(JobsOf(w)) /\ Tail(waiters[w]) \in Seq(Jobs)
      BY <1>1, <1>4, ShiftedSeq
    <2>2. /\ Head(waiters[w]) \in Jobs /\ Head(waiters[w]) # NoJob
          /\ proc[Head(waiters[w])] = w
      BY <2>1, ThreadsAssumption DEF JobsOf
    <2>3. next \in Locals /\ WatchdogOK(t, next)
      BY <1>1, <2>2 DEF WatchdogOK, Locals, WatchdogPCs
    <2> HIDE DEF next
    <2>4. /\ local' \in [Threads -> Locals]
          /\ \A u \in Threads : local'[u] = IF u = t THEN next ELSE local[u]
      BY <1>1, <1>4, <2>3, GotoEffect DEF Typed, TypeOK, next
    <2>5. /\ \A k \in Jobs : JobOK(k, local[k])'
          /\ \A u \in Sweeps : WatchdogOK(u, local[u])'
      BY <1>1, <2>3, <2>4, OwnStepTyped
    <2>6. /\ waiters' \in [Procs -> Seq(Jobs)]
          /\ \A v \in Procs : waiters'[v] \in Seq(JobsOf(v))
      BY <1>1, <1>4, <2>1 DEF Typed, TypeOK, ControlOK
    <2>7. ControlOK'
      BY <1>1, <2>5, <2>6, QueuesTyped DEF Typed, TypeOK
    <2> QED
      BY <1>1, <1>2, <2>4, <2>6, <2>7 DEF Typed, TypeOK
  <1> QED
    BY <1>3, <1>4, SweepThread DEF WatchdogFree

LEMMA WatchdogHandoffTyped ==
    ASSUME Typed, NEW t \in Sweeps, WatchdogHandoff(t)
    PROVE  Typed'
  <1> DEFINE w == t[1]
  <1> DEFINE p == local[t].pod
  <1> DEFINE x == local[t].waiter
  <1>1. PICK ok \in BOOLEAN :
          /\ PutLease(p, x, NoVersion, ok)
          /\ \/ /\ inMemoryHeld' = [inMemoryHeld EXCEPT ![w] = @ \cup {p}]
                /\ ResolveWaiter(t, NextCheck(p), x, p)
                /\ UNCHANGED waiters
             \/ /\ waiters' = [waiters EXCEPT ![w] = <<x>> \o @]
                /\ Goto(t, NextCheck(p))
                /\ UNCHANGED inMemoryHeld
    BY SweepThread DEF WatchdogHandoff
  <1>2. /\ UNCHANGED <<proc, timer, everExpired, crashes>>
        /\ local[t].pc = "handoff" /\ p \in Pods
        /\ x \in Jobs /\ proc[x] = w
        /\ t \in Threads /\ t \notin Jobs /\ w \in Procs
        /\ waiters[w] \in Seq(Jobs) /\ waiters[w] \in Seq(JobsOf(w))
    BY SweepThread
    DEF WatchdogHandoff, Typed, TypeOK, ControlOK, WatchdogOK, Locals
  <1>3. lease' \in [Pods -> Leases] /\ faults' \in 0 .. MaxFaults
    <2>1. p \in Pods /\ x \in Jobs \cup {NoJob} /\ TypeOK
      BY <1>2 DEF Typed
    <2>2. PutLease(p, x, NoVersion, ok)
      BY <1>1
    <2> QED
      BY <2>1, <2>2, PutEffect
  <1>4. NextCheck(p) \in Locals /\ WatchdogOK(t, NextCheck(p))
    BY <1>2, NextCheckTyped
  <1>5. CASE /\ inMemoryHeld' = [inMemoryHeld EXCEPT ![w] = @ \cup {p}]
             /\ ResolveWaiter(t, NextCheck(p), x, p)
             /\ UNCHANGED waiters
    <2>1. /\ local' \in [Threads -> Locals]
          /\ \A u \in Threads : local'[u] =
               IF u = t THEN NextCheck(p)
               ELSE IF u = x /\ local[x].pc = "queued"
                    THEN At("running", p, NoVersion, NoJob) ELSE local[u]
      BY <1>2, <1>4, <1>5, ResolveEffect DEF Typed, TypeOK
    <2>2. /\ \A k \in Jobs : JobOK(k, local[k])'
          /\ \A u \in Sweeps : WatchdogOK(u, local[u])'
      BY <1>2, <1>4, <2>1, GrantStepTyped
    <2>3. inMemoryHeld' \in [Procs -> SUBSET Pods]
      BY <1>2, <1>5 DEF Typed, TypeOK
    <2>4. ControlOK'
      BY <1>2, <1>5, <2>2, QueuesTyped DEF Typed, TypeOK, ControlOK
    <2> QED
      BY <1>2, <1>3, <1>5, <2>1, <2>3, <2>4 DEF Typed, TypeOK
  <1>6. CASE /\ waiters' = [waiters EXCEPT ![w] = <<x>> \o @]
             /\ Goto(t, NextCheck(p))
             /\ UNCHANGED inMemoryHeld
    <2>1. /\ local' \in [Threads -> Locals]
          /\ \A u \in Threads : local'[u] = IF u = t THEN NextCheck(p) ELSE local[u]
      BY <1>2, <1>4, <1>6, GotoEffect DEF Typed, TypeOK
    <2>2. /\ \A k \in Jobs : JobOK(k, local[k])'
          /\ \A u \in Sweeps : WatchdogOK(u, local[u])'
      BY <1>2, <1>4, <2>1, OwnStepTyped
    <2>3. x \in JobsOf(w)
      BY <1>2 DEF JobsOf
    <2>4. /\ <<x>> \o waiters[w] \in Seq(JobsOf(w))
          /\ <<x>> \o waiters[w] \in Seq(Jobs)
      BY <1>2, <2>3, PushedSeq
    <2>5. /\ waiters' \in [Procs -> Seq(Jobs)]
          /\ \A v \in Procs : waiters'[v] \in Seq(JobsOf(v))
      BY <1>2, <1>6, <2>4 DEF Typed, TypeOK, ControlOK
    <2>6. ControlOK'
      BY <1>2, <2>2, <2>5, QueuesTyped DEF Typed, TypeOK
    <2> QED
      BY <1>2, <1>3, <1>6, <2>1, <2>5, <2>6 DEF Typed, TypeOK
  <1> QED
    BY <1>1, <1>5, <1>6

LEMMA ExpireTyped ==
    ASSUME Typed, NEW p \in Pods, Expire(p)
    PROVE  Typed'
  <1>1. /\ lease' = [lease EXCEPT ![p].expired = TRUE]
        /\ everExpired' = everExpired \cup {p}
        /\ UNCHANGED <<inMemoryHeld, waiters, proc, local, timer, faults, crashes>>
    BY DEF Expire
  <1>2. lease' \in [Pods -> Leases] /\ everExpired' \in SUBSET Pods
    BY <1>1 DEF Typed, TypeOK, Leases
  <1>3. ControlOK'
    BY <1>1 DEF Typed, ControlOK, JobOK, WatchdogOK, JobsOf
  <1> QED
    BY <1>1, <1>2, <1>3 DEF Typed, TypeOK

LEMMA CrashTyped ==
    ASSUME Typed, NEW w \in Workers, Crash(w)
    PROVE  Typed'
  <1> DEFINE dead(t) == Abandoned(t)
  <1>1. /\ UNCHANGED <<lease, proc, everExpired, faults>>
        /\ crashes' \in 0 .. MaxCrashes /\ w \in Procs
    BY OptionsAssumption DEF Crash, Typed, TypeOK, Procs
  <1>2. /\ inMemoryHeld' \in [Procs -> SUBSET Pods]
        /\ timer' \in [Jobs -> Timers]
        /\ \A j \in Jobs : timer[j] = "unset" => timer'[j] = "unset"
    BY DEF Crash, Typed, TypeOK, Timers
  <1>3. /\ waiters' \in [Procs -> Seq(Jobs)]
        /\ \A v \in Procs : waiters'[v] \in Seq(JobsOf(v))
    <2>1. <<>> \in Seq(Jobs) /\ \A v \in Procs : <<>> \in Seq(JobsOf(v))
      OBVIOUS
    <2>2. waiters' = [waiters EXCEPT ![w] = <<>>]
      BY DEF Crash
    <2>3. waiters' \in [Procs -> Seq(Jobs)]
      BY <2>1, <2>2 DEF Typed, TypeOK
    <2>4. \A v \in Procs : waiters'[v] = IF v = w THEN <<>> ELSE waiters[v]
      BY <2>2 DEF Typed, TypeOK
    <2> QED
      BY <2>1, <2>3, <2>4 DEF Typed, ControlOK
  <1>4. /\ \A t \in Threads : /\ dead(t) \in Locals /\ dead(t).pc = "dead"
                             /\ dead(t).waiter = NoJob
        /\ Sleep \in Locals
    BY DEF Locals, JobPCs, WatchdogPCs, Sleep, Abandoned, Typed, TypeOK
  <1>5. /\ local' \in [Threads -> Locals]
        /\ \A t \in Threads : local'[t] =
              IF t \in Sweeps /\ t[1] = w THEN Sleep
              ELSE IF t \in Jobs /\ proc[t] = w /\ local[t].pc \in Unsettled
                   THEN dead(t) ELSE local[t]
    BY <1>4 DEF Crash, Typed, TypeOK
  <1>6. ASSUME NEW j \in Jobs PROVE JobOK(j, local[j])'
    <2>1. /\ j \in Threads /\ j \notin Sweeps /\ JobOK(j, local[j])
          /\ proc[j] = w => proc[j] # NoProc
      BY <1>1, ThreadsAssumption DEF Typed, ControlOK, Threads
    <2>2. CASE local'[j] = dead(j) /\ proc[j] = w
      BY <1>1, <1>4, <2>1, <2>2 DEF JobOK, JobPCs
    <2>3. CASE local'[j] = local[j]
      BY <1>1, <2>1, <2>3 DEF JobOK
    <2> QED
      BY <1>5, <2>1, <2>2, <2>3
  <1>7. ASSUME NEW t \in Sweeps PROVE WatchdogOK(t, local[t])'
    <2>1. t \in Threads /\ t \notin Jobs /\ WatchdogOK(t, local[t])
      BY ThreadsAssumption DEF Typed, ControlOK, Threads
    <2>2. local'[t] = Sleep \/ local'[t] = local[t]
      BY <1>5, <2>1
    <2> QED
      BY <1>1, <2>1, <2>2 DEF WatchdogOK, WatchdogPCs, Sleep
  <1>8. ControlOK'
    BY <1>1, <1>2, <1>3, <1>6, <1>7, QueuesTyped
  <1> QED
    BY <1>1, <1>2, <1>3, <1>5, <1>8 DEF Typed, TypeOK

-----------------------------------------------------------------------------
(* The type invariant *)

LEMMA InitTyped == Init => Typed
  <1> SUFFICES ASSUME Init PROVE Typed
    OBVIOUS
  <1>1. /\ At("new", NoPod, NoVersion, NoJob) \in Locals /\ Sleep \in Locals
        /\ [holder |-> NoJob, rv |-> 1, expired |-> FALSE] \in Leases
    BY DEF Locals, Leases, JobPCs, WatchdogPCs, Sleep
  <1>2. TypeOK
    BY <1>1, OptionsAssumption DEF Init, TypeOK, Timers
  <1>3. ControlOK
    BY ThreadsAssumption
    DEF Init, ControlOK, JobOK, WatchdogOK, Sleep, Threads, JobPCs, WatchdogPCs
  <1> QED
    BY <1>2, <1>3 DEF Typed

LEMMA NextTyped == Typed /\ [Next]_vars => Typed'
  <1> SUFFICES ASSUME Typed, [Next]_vars PROVE Typed'
    OBVIOUS
  <1>1. ASSUME NEW j \in Jobs, NEW w \in Workers, Start(j, w) PROVE Typed'
    BY <1>1, StartTyped
  <1>2. ASSUME NEW j \in Jobs, JobStep(j) PROVE Typed'
    BY <1>2, ReadLeaseTyped, TryPutTyped, ReleaseTyped, ClearReadTyped,
       ClearPutTyped, ReleaseHandoffTyped DEF JobStep, Threads
  <1>3. ASSUME NEW j \in Jobs, Timeout(j) PROVE Typed'
    BY <1>3, TimeoutTyped
  <1>4. ASSUME NEW t \in Sweeps, WatchdogStep(t) PROVE Typed'
    BY <1>4, WatchdogTickTyped, WatchdogCheckTyped, ClearReadTyped,
       ClearPutTyped, WatchdogFreeTyped, WatchdogHandoffTyped
    DEF WatchdogStep, Threads
  <1>5. ASSUME NEW p \in Pods, Expire(p) PROVE Typed'
    BY <1>5, ExpireTyped
  <1>6. ASSUME NEW w \in Workers, Crash(w) PROVE Typed'
    BY <1>6, CrashTyped
  <1>7. CASE UNCHANGED vars
    BY <1>7 DEF vars, Typed, TypeOK, ControlOK, JobOK, WatchdogOK, JobsOf
  <1> QED
    BY <1>1, <1>2, <1>3, <1>4, <1>5, <1>6, <1>7 DEF Next

\* The variables of the lease manager keep their types, whatever the number of
\* pods, processes, jobs, faults and crashes.
THEOREM TypeCorrect == Spec => []TypeOK
  <1>1. Typed => TypeOK
    BY DEF Typed
  <1> QED
    BY <1>1, InitTyped, NextTyped, PTL DEF Spec

-----------------------------------------------------------------------------
(* Why two jobs never share a pod whose lease has not expired *)

\* Thread t moves to next, and the others stay; or job x may be granted pod p.
Moves(t, next) ==
    \A u \in Threads : local'[u] = IF u = t THEN next ELSE local[u]
Grants(t, next, x, p) ==
    \A u \in Threads : local'[u] =
        IF u = t THEN next
        ELSE IF u = x /\ local[x].pc = "queued"
             THEN At("running", p, NoVersion, NoJob) ELSE local[u]

LEMMA GotoMoves ==
    ASSUME Typed, NEW t \in Threads, NEW next, Goto(t, next)
    PROVE  Moves(t, next)
  BY DEF Typed, TypeOK, Goto, Moves

LEMMA ResolveGrants ==
    ASSUME Typed, NEW t \in Threads, NEW next, NEW x \in Jobs, NEW p,
           local[t].pc # "queued", ResolveWaiter(t, next, x, p)
    PROVE  Grants(t, next, x, p)
  <1>1. x \in Threads
    BY DEF Threads
  <1> QED
    BY <1>1 DEF Typed, TypeOK, ResolveWaiter, Grants

-----------------------------------------------------------------------------
(* What a step does to a lease and to a thread's place, in any action *)

LeaseMove(p) ==
    \/ lease'[p] = lease[p]
    \/ lease'[p].rv = lease[p].rv + 1 /\ ~lease'[p].expired
    \/ /\ lease'[p].rv = lease[p].rv /\ lease'[p].holder = lease[p].holder
       /\ lease'[p].expired /\ p \in everExpired'

WorkPCs  == {"clearRead", "clearPut", "unannotate", "handoff"}
MovePCs  == {"put", "clearRead", "clearPut", "unannotate", "handoff"}

LocalMove(u) ==
    \/ local'[u] = local[u]
    \/ local'[u].pc \notin MovePCs
    \/ /\ lease' = lease /\ local'[u].pod = local[u].pod
       /\ local[u].pod \in Pods
       /\ local'[u].seen = lease[local[u].pod].rv
       /\ \/ local'[u].pc = "put" /\ ~Busy(local[u].pod)
          \/ local'[u].pc = "clearPut" /\ local[u].pc = "clearRead"
    \/ /\ local'[u].pc \in {"clearRead", "unannotate", "handoff"} /\ local'[u].pod = local[u].pod
       /\ \/ u \in Jobs
          \/ local[u].pc \in WorkPCs
          \/ local[u].pod \in Pods /\ Zombie(local[u].pod)

Move == /\ \A p \in Pods : LeaseMove(p)
        /\ \A u \in Threads : LocalMove(u)
        /\ everExpired \subseteq everExpired'

LEMMA PutLeaseMove ==
    ASSUME Typed, NEW p \in Pods, NEW h \in Jobs \cup {NoJob}, NEW rv,
           NEW ok \in BOOLEAN, PutLease(p, h, rv, ok)
    PROVE  \A q \in Pods : LeaseMove(q)
  <1>1. \/ lease' = lease
        \/ \A q \in Pods : lease'[q] =
              IF q = p THEN [holder |-> h, rv |-> lease[p].rv + 1,
                             expired |-> FALSE]
                       ELSE lease[q]
    BY PutEffect DEF Typed
  <1> QED
    BY <1>1 DEF LeaseMove

LEMMA ScanMove ==
    ASSUME NEW t \in Jobs, NEW w, NEW held, NEW queue,
           ScanOutcome(t, w, held, queue)
    PROVE  \A u \in Threads : LocalMove(u)
  <1>1. local'[t].pc \notin MovePCs
    <2>1. CASE \E p \in Pods : local'[t] = At("read", p, NoVersion, local[t].waiter)
      BY <2>1 DEF MovePCs
    <2>2. CASE \/ local'[t] = At("queued", NoPod, NoVersion, NoJob)
               \/ local'[t] = Done
      BY <2>2 DEF Done, MovePCs
    <2> QED
      BY <2>1, <2>2 DEF ScanOutcome
  <1>2. \A u \in Threads \ {t} : local'[u] = local[u]
    BY DEF ScanOutcome
  <1> QED
    BY <1>1, <1>2 DEF LocalMove

LEMMA ScanEnds ==
    ASSUME NEW t \in Jobs, NEW w, NEW held, NEW queue,
           ScanOutcome(t, w, held, queue)
    PROVE  local'[t].pc \in {"read", "queued", "done"}
  <1>1. CASE \E p \in Pods : local'[t] = At("read", p, NoVersion, local[t].waiter)
    BY <1>1
  <1>2. CASE \/ local'[t] = At("queued", NoPod, NoVersion, NoJob)
             \/ local'[t] = Done
    BY <1>2 DEF Done
  <1> QED
    BY <1>1, <1>2 DEF ScanOutcome

LEMMA ScanOnEffect ==
    ASSUME Typed, NEW t \in Jobs, local[t].pc \in {"read", "put"}, ScanOn(t)
    PROVE  ScanOutcome(t, proc[t], inMemoryHeld[proc[t]] \ {local[t].pod},
                       waiters[proc[t]])
  <1> DEFINE w == proc[t]
  <1> DEFINE held == inMemoryHeld[w] \ {local[t].pod}
  <1>1. w \in Workers /\ w \in Procs /\ local[t].pod \in Pods
    BY DEF Typed, TypeOK, ControlOK, JobOK, Procs
  <1>2. /\ held \in SUBSET Pods /\ waiters[w] \in Seq(Jobs)
        /\ local[t].pod + 1 \in Nat
    BY <1>1 DEF Typed, TypeOK, Pods
  <1>3. Scan(t, w, local[t].pod + 1, held, waiters[w])
    BY DEF ScanOn, ProcOf
  <1> HIDE DEF held, w
  <1>4. ScanOutcome(t, w, held, waiters[w])
    BY <1>1, <1>2, <1>3, ScanEffect
  <1> QED
    BY <1>4 DEF held, w

LEMMA HandoffScanEffect ==
    ASSUME Typed, NEW j \in Jobs, local[j].pc = "handoff",
           Scan(j, proc[j], 1, inMemoryHeld[proc[j]] \ {local[j].pod},
                <<local[j].waiter>> \o waiters[proc[j]])
    PROVE  ScanOutcome(j, proc[j], inMemoryHeld[proc[j]] \ {local[j].pod},
                       <<local[j].waiter>> \o waiters[proc[j]])
  <1> DEFINE w == proc[j]
  <1> DEFINE held == inMemoryHeld[w] \ {local[j].pod}
  <1> DEFINE queue == <<local[j].waiter>> \o waiters[w]
  <1>1. w \in Workers /\ w \in Procs /\ local[j].waiter \in Jobs
    BY DEF Typed, TypeOK, ControlOK, JobOK, Procs, Locals, Threads
  <1>2. held \in SUBSET Pods /\ queue \in Seq(Jobs) /\ 1 \in Nat
    BY <1>1, PushedSeq DEF Typed, TypeOK
  <1>3. Scan(j, w, 1, held, queue)
    OBVIOUS
  <1> HIDE DEF held, w, queue
  <1>4. ScanOutcome(j, w, held, queue)
    BY <1>1, <1>2, <1>3, ScanEffect
  <1> QED
    BY <1>4 DEF held, w, queue

LEMMA StartEffect ==
    ASSUME Typed, NEW j \in Jobs, NEW w \in Workers, Start(j, w)
    PROVE  ScanOutcome(j, w, inMemoryHeld[w], waiters[w])
  <1>1. w \in Procs
    BY DEF Procs
  <1>2. inMemoryHeld[w] \in SUBSET Pods /\ waiters[w] \in Seq(Jobs) /\ 1 \in Nat
    BY <1>1 DEF Typed, TypeOK
  <1>3. Scan(j, w, 1, inMemoryHeld[w], waiters[w])
    BY DEF Start
  <1> QED
    BY <1>2, <1>3, ScanEffect

\* Where Cleared takes thread t.
ClearedNext(t) ==
    \/ t \in Jobs /\ waiters[ProcOf(t)] = <<>> /\ local'[t] = Done
    \/ /\ t \in Jobs /\ waiters[ProcOf(t)] # <<>>
       /\ local'[t] = At("handoff", local[t].pod, NoVersion,
                         Head(waiters[ProcOf(t)]))
    \/ t \in Sweeps /\ local'[t] = At("unannotate", local[t].pod, NoVersion, NoJob)

LEMMA ClearedEffect ==
    ASSUME Typed, NEW t \in Threads, Cleared(t)
    PROVE  /\ ClearedNext(t)
           /\ \A u \in Threads \ {t} : local'[u] = local[u]
  <1>1. ASSUME NEW next, Goto(t, next)
        PROVE  local'[t] = next /\ \A u \in Threads \ {t} : local'[u] = local[u]
    BY <1>1, GotoMoves DEF Moves
  <1> QED
    BY <1>1 DEF Cleared, ClearedNext

LEMMA OwnMove ==
    ASSUME NEW t \in Threads, NEW next, Moves(t, next),
           next.pc \notin MovePCs
    PROVE  \A u \in Threads : LocalMove(u)
  BY DEF Moves, LocalMove

LEMMA GrantMove ==
    ASSUME NEW t \in Threads, NEW next, NEW x \in Jobs, NEW p,
           Grants(t, next, x, p), next.pc \notin MovePCs
    PROVE  \A u \in Threads : LocalMove(u)
  <1>1. At("running", p, NoVersion, NoJob).pc \notin MovePCs
    BY DEF MovePCs
  <1> QED
    BY <1>1 DEF Grants, LocalMove

LEMMA ClearedMove ==
    ASSUME Typed, NEW t \in Threads, local[t].pc \in {"clearRead", "clearPut"},
           Cleared(t)
    PROVE  \A u \in Threads : LocalMove(u)
  <1>1. \A u \in Threads \ {t} : LocalMove(u)
    BY ClearedEffect DEF LocalMove
  <1>2. ASSUME local'[t] = Done PROVE LocalMove(t)
    BY <1>2 DEF LocalMove, Done, MovePCs
  <1>3. ASSUME NEW pc \in {"handoff", "unannotate"}, NEW x,
               local'[t] = At(pc, local[t].pod, NoVersion, x)
        PROVE  LocalMove(t)
    <2>1. local'[t].pc \in {"clearRead", "unannotate", "handoff"}
          /\ local'[t].pod = local[t].pod /\ local[t].pc \in WorkPCs
      BY <1>3 DEF WorkPCs
    <2> QED
      BY <2>1 DEF LocalMove
  <1>5. LocalMove(t)
    BY <1>2, <1>3, ClearedEffect DEF ClearedNext
  <1> QED
    BY <1>1, <1>5

LEMMA ReadLeaseMove ==
    ASSUME Typed, NEW t \in Jobs, ReadLease(t)
    PROVE  Move
  <1> DEFINE p == local[t].pod
  <1> DEFINE next == [local[t] EXCEPT !.pc = "put", !.seen = lease[p].rv]
  <1>1. PICK ok \in BOOLEAN :
          /\ GetLease(ok)
          /\ \/ ~Busy(p) /\ Goto(t, next)
             \/ ScanOn(t)
    BY DEF ReadLease
  <1>2. /\ lease' = lease /\ everExpired' = everExpired /\ t \in Threads
        /\ local[t].pc = "read" /\ p \in Pods /\ local[t] \in Locals
    BY <1>1, GetEffect DEF ReadLease, Typed, TypeOK, ControlOK, JobOK, Threads
  <1>3. CASE ScanOn(t)
    BY <1>2, <1>3, ScanOnEffect, ScanMove DEF Move, LeaseMove
  <1>4. CASE ~Busy(p) /\ Goto(t, next)
    <2>1. Moves(t, next)
      BY <1>2, <1>4, GotoMoves
    <2>2. next.pc = "put" /\ next.pod = p /\ next.seen = lease[p].rv
      BY <1>2 DEF Locals
    <2>3. \A u \in Threads : LocalMove(u)
      BY <1>2, <1>4, <2>1, <2>2 DEF Moves, LocalMove
    <2> QED
      BY <1>2, <2>3 DEF Move, LeaseMove
  <1> QED
    BY <1>1, <1>3, <1>4

LEMMA TryPutMove ==
    ASSUME Typed, NEW t \in Jobs, TryPut(t)
    PROVE  Move
  <1> DEFINE p == local[t].pod
  <1> DEFINE x == local[t].waiter
  <1>1. PICK ok \in BOOLEAN :
          /\ PutLease(p, Context(t), local[t].seen, ok)
          /\ \/ Acquired(t)
             \/ ScanOn(t)
    BY DEF TryPut
  <1>2. /\ everExpired' = everExpired /\ t \in Threads
        /\ local[t].pc = "put" /\ p \in Pods /\ x \in Jobs \cup {NoJob}
        /\ Context(t) \in Jobs
    BY DEF TryPut, Typed, TypeOK, ControlOK, JobOK, Threads, Locals, Context
  <1>3. \A q \in Pods : LeaseMove(q)
    BY <1>1, <1>2, PutLeaseMove
  <1>4. CASE ScanOn(t)
    BY <1>2, <1>3, <1>4, ScanOnEffect, ScanMove DEF Move
  <1>5. CASE Goto(t, At("running", p, NoVersion, NoJob))
    <2>1. At("running", p, NoVersion, NoJob).pc \notin MovePCs
      BY DEF MovePCs
    <2> QED
      BY <1>2, <1>3, <1>5, <2>1, GotoMoves, OwnMove DEF Move
  <1>6. CASE x # NoJob /\ ResolveWaiter(t, Done, x, p)
    <2>1. Done.pc \notin MovePCs
      BY DEF MovePCs, Done
    <2>2. Grants(t, Done, x, p)
      BY <1>2, <1>6, ResolveGrants
    <2> QED
      BY <1>2, <1>3, <1>6, <2>1, <2>2, GrantMove DEF Move
  <1> QED
    BY <1>1, <1>4, <1>5, <1>6 DEF Acquired

LEMMA ReleaseHandoffMove ==
    ASSUME Typed, NEW j \in Jobs, ReleaseHandoff(j)
    PROVE  Move
  <1> DEFINE p == local[j].pod
  <1> DEFINE x == local[j].waiter
  <1>1. PICK ok \in BOOLEAN :
          /\ PutLease(p, x, NoVersion, ok)
          /\ \/ ResolveWaiter(j, Done, x, p)
             \/ Scan(j, proc[j], 1, inMemoryHeld[proc[j]] \ {p},
                     <<x>> \o waiters[proc[j]])
    BY DEF ReleaseHandoff
  <1>2. /\ everExpired' = everExpired /\ j \in Threads
        /\ local[j].pc = "handoff" /\ p \in Pods /\ x \in Jobs
    BY DEF ReleaseHandoff, Typed, TypeOK, ControlOK, JobOK, Threads, Locals
  <1>3. \A q \in Pods : LeaseMove(q)
    BY <1>1, <1>2, PutLeaseMove
  <1>4. CASE ResolveWaiter(j, Done, x, p)
    <2>1. Done.pc \notin MovePCs
      BY DEF MovePCs, Done
    <2>2. Grants(j, Done, x, p)
      BY <1>2, <1>4, ResolveGrants
    <2> QED
      BY <1>2, <1>3, <2>1, <2>2, GrantMove DEF Move
  <1>5. CASE Scan(j, proc[j], 1, inMemoryHeld[proc[j]] \ {p},
                  <<x>> \o waiters[proc[j]])
    BY <1>2, <1>3, <1>5, HandoffScanEffect, ScanMove DEF Move
  <1> QED
    BY <1>1, <1>4, <1>5

LEMMA ClearReadMove ==
    ASSUME Typed, NEW t \in Threads, ClearRead(t)
    PROVE  Move
  <1> DEFINE p == local[t].pod
  <1> DEFINE next == [local[t] EXCEPT !.pc = "clearPut", !.seen = lease[p].rv]
  <1>1. PICK ok \in BOOLEAN : GetLease(ok) /\ (Goto(t, next) \/ Cleared(t))
    BY DEF ClearRead
  <1>2. /\ lease' = lease /\ everExpired' = everExpired
        /\ local[t].pc = "clearRead" /\ local[t] \in Locals /\ p \in Pods
    BY <1>1, GetEffect
    DEF ClearRead, Typed, TypeOK, ControlOK, JobOK, WatchdogOK, Threads
  <1>3. CASE Cleared(t)
    BY <1>2, <1>3, ClearedMove DEF Move, LeaseMove
  <1>4. CASE Goto(t, next)
    <2>1. next.pc = "clearPut" /\ next.pod = p /\ next.seen = lease[p].rv
      BY <1>2 DEF Locals
    <2> HIDE DEF next
    <2>2. \A u \in Threads : LocalMove(u)
      BY <1>2, <1>4, <2>1, GotoMoves DEF Moves, LocalMove
    <2> QED
      BY <1>2, <2>2 DEF Move, LeaseMove
  <1> QED
    BY <1>1, <1>3, <1>4

LEMMA ClearPutMove ==
    ASSUME Typed, NEW t \in Threads, ClearPut(t)
    PROVE  Move
  <1>1. PICK ok \in BOOLEAN : PutLease(local[t].pod, NoJob, local[t].seen, ok)
    BY DEF ClearPut
  <1>2. /\ everExpired' = everExpired /\ local[t].pc = "clearPut"
        /\ Cleared(t) /\ local[t].pod \in Pods
    BY DEF ClearPut, Typed, ControlOK, JobOK, WatchdogOK, Threads
  <1> QED
    BY <1>1, <1>2, PutLeaseMove, ClearedMove DEF Move

LEMMA OwnActionMove ==
    ASSUME Typed, NEW t \in Threads, NEW next, Goto(t, next),
           next.pc \notin MovePCs, lease' = lease, everExpired' = everExpired
    PROVE  Move
  BY GotoMoves, OwnMove DEF Move, LeaseMove

LEMMA NextCheckMoves == ASSUME NEW p PROVE NextCheck(p).pc \notin MovePCs
  BY DEF NextCheck, Sleep, MovePCs

LEMMA WatchdogMove ==
    ASSUME Typed, NEW t \in Sweeps,
           WatchdogTick(t) \/ WatchdogCheck(t) \/ WatchdogFree(t)
             \/ WatchdogHandoff(t)
    PROVE  Move
  <1> DEFINE p == local[t].pod
  <1>1. t \in Threads
    BY DEF Threads
  <1>2. CASE WatchdogTick(t)
    BY <1>1, <1>2, NextCheckMoves, OwnActionMove DEF WatchdogTick
  <1>3. CASE WatchdogCheck(t)
    <2>1. PICK ok \in BOOLEAN :
            /\ GetLease(ok)
            /\ Goto(t, IF ok /\ Zombie(p)
                       THEN At("clearRead", p, NoVersion, NoJob)
                       ELSE NextCheck(p))
      BY <1>3 DEF WatchdogCheck
    <2>2. lease' = lease /\ everExpired' = everExpired
      BY <1>3, <2>1, GetEffect DEF WatchdogCheck, Typed
    <2>3. CASE ok /\ Zombie(p)
      <3>1. Moves(t, At("clearRead", p, NoVersion, NoJob))
        BY <1>1, <2>1, <2>3, GotoMoves
      <3>2. \A u \in Threads : LocalMove(u)
        BY <1>3, <2>3, <3>1
        DEF Moves, LocalMove, WatchdogCheck, Typed, ControlOK, WatchdogOK
      <3> QED
        BY <2>2, <3>2 DEF Move, LeaseMove
    <2>4. CASE ~(ok /\ Zombie(p))
      BY <1>1, <2>1, <2>2, <2>4, NextCheckMoves, OwnActionMove
    <2> QED
      BY <2>3, <2>4
  <1>4. CASE WatchdogFree(t)
    <2>1. /\ lease' = lease /\ everExpired' = everExpired
          /\ local[t].pc = "unannotate"
          /\ \/ Goto(t, NextCheck(p))
             \/ Goto(t, At("handoff", p, NoVersion, Head(waiters[ProcOf(t)])))
      BY <1>4 DEF WatchdogFree
    <2>2. CASE Goto(t, NextCheck(p))
      BY <1>1, <2>1, <2>2, NextCheckMoves, OwnActionMove
    <2>3. CASE Goto(t, At("handoff", p, NoVersion, Head(waiters[ProcOf(t)])))
      <3>1. Moves(t, At("handoff", p, NoVersion, Head(waiters[ProcOf(t)])))
        BY <1>1, <2>3, GotoMoves
      <3>2. \A u \in Threads : LocalMove(u)
        BY <2>1, <3>1 DEF Moves, LocalMove, WorkPCs
      <3> QED
        BY <2>1, <3>2 DEF Move, LeaseMove
    <2> QED
      BY <2>1, <2>2, <2>3
  <1>5. CASE WatchdogHandoff(t)
    <2> DEFINE x == local[t].waiter
    <2>1. PICK ok \in BOOLEAN :
            /\ PutLease(p, x, NoVersion, ok)
            /\ ResolveWaiter(t, NextCheck(p), x, p) \/ Goto(t, NextCheck(p))
      BY <1>5 DEF WatchdogHandoff
    <2>2. /\ everExpired' = everExpired /\ local[t].pc = "handoff"
          /\ p \in Pods /\ x \in Jobs
      BY <1>1, <1>5
      DEF WatchdogHandoff, Typed, TypeOK, ControlOK, WatchdogOK, Locals
    <2>3. \A q \in Pods : LeaseMove(q)
      <3>1. x \in Jobs \cup {NoJob}
        BY <2>2
      <3> QED
        BY <2>1, <2>2, <3>1, PutLeaseMove
    <2>4. \A u \in Threads : LocalMove(u)
      BY <1>1, <2>1, <2>2, NextCheckMoves, GotoMoves, OwnMove, ResolveGrants,
         GrantMove
    <2> QED
      BY <2>2, <2>3, <2>4 DEF Move
  <1> QED
    BY <1>2, <1>3, <1>4, <1>5

LEMMA NextMove == ASSUME Typed, [Next]_vars PROVE Move
  <1>1. ASSUME NEW j \in Jobs, NEW w \in Workers, Start(j, w) PROVE Move
    <2>1. lease' = lease /\ everExpired' = everExpired
      BY <1>1 DEF Start
    <2> QED
      BY <1>1, <2>1, StartEffect, ScanMove DEF Move, LeaseMove
  <1>2. ASSUME NEW j \in Jobs, Release(j) PROVE Move
    <2> DEFINE next == [local[j] EXCEPT !.pc = "clearRead"]
    <2>1. /\ lease' = lease /\ everExpired' = everExpired
          /\ j \in Threads /\ local[j] \in Locals /\ Goto(j, next)
      BY <1>2 DEF Release, Threads, Typed, TypeOK
    <2>2. next.pc = "clearRead" /\ next.pod = local[j].pod
      BY <2>1 DEF Locals
    <2> HIDE DEF next
    <2>3. \A u \in Threads : LocalMove(u)
      BY <2>1, <2>2, GotoMoves DEF Moves, LocalMove
    <2> QED
      BY <2>1, <2>3 DEF Move, LeaseMove
  <1>3. ASSUME NEW j \in Jobs, JobStep(j) PROVE Move
    BY <1>2, <1>3, ReadLeaseMove, TryPutMove, ClearReadMove, ClearPutMove,
       ReleaseHandoffMove DEF JobStep, Threads
  <1>4. ASSUME NEW j \in Jobs, Timeout(j) PROVE Move
    <2>1. /\ lease' = lease /\ everExpired' = everExpired
          /\ \/ local' = local
             \/ local' = [local EXCEPT ![j] = IF @.pc = "queued"
                    THEN At("rejected", NoPod, NoVersion, NoJob) ELSE @]
      BY <1>4 DEF Timeout
    <2>2. \A u \in Threads : local'[u] \in
             {local[u], At("rejected", NoPod, NoVersion, NoJob)}
      BY <2>1 DEF Typed, TypeOK
    <2>3. At("rejected", NoPod, NoVersion, NoJob).pc \notin MovePCs
      BY DEF MovePCs
    <2> QED
      BY <2>1, <2>2, <2>3 DEF Move, LeaseMove, LocalMove
  <1>5. ASSUME NEW t \in Sweeps, WatchdogStep(t) PROVE Move
    BY <1>5, WatchdogMove, ClearReadMove, ClearPutMove DEF WatchdogStep, Threads
  <1>6. ASSUME NEW p \in Pods, Expire(p) PROVE Move
    <2>1. /\ lease' = [lease EXCEPT ![p].expired = TRUE] /\ local' = local
          /\ everExpired' = everExpired \cup {p}
      BY <1>6 DEF Expire
    <2>2. \A q \in Pods : LeaseMove(q)
      BY <2>1 DEF LeaseMove, Typed, TypeOK, Leases
    <2> QED
      BY <2>1, <2>2 DEF Move, LocalMove
  <1>7. ASSUME NEW w \in Workers, Crash(w) PROVE Move
    <2>1. lease' = lease /\ everExpired' = everExpired
      BY <1>7 DEF Crash
    <2>2. \A u \in Threads : local'[u] \in {local[u], Sleep, Abandoned(u)}
      BY <1>7 DEF Crash
    <2>3. /\ Sleep.pc \notin MovePCs
          /\ \A u \in Threads : Abandoned(u).pc \notin MovePCs
      BY DEF MovePCs, Sleep, Abandoned
    <2> QED
      BY <2>1, <2>2, <2>3 DEF Move, LeaseMove, LocalMove
  <1>8. CASE UNCHANGED vars
    BY <1>8 DEF vars, Move, LeaseMove, LocalMove
  <1> QED
    BY <1>1, <1>3, <1>4, <1>5, <1>6, <1>7, <1>8 DEF Next

\* A stale version never looks current, and a current one means a free lease.
LEMMA VersionsStep ==
    ASSUME Typed, Typed', VersionsOK, Move
    PROVE  VersionsOK'
  <1>1. \A p \in Pods : lease[p] \in Leases /\ lease'[p] \in Leases
    BY DEF Typed, TypeOK
  <1>2. \A p \in Pods : lease'[p].rv >= 1
    BY <1>1 DEF VersionsOK, Move, LeaseMove, Leases
  <1>3. ASSUME NEW u \in Threads, local'[u].pc \in {"put", "clearPut"}
        PROVE  /\ local'[u].seen \in 1 .. lease'[local'[u].pod].rv
               /\ local'[u].pc = "put" /\ local'[u].seen = lease'[local'[u].pod].rv
                     => ~Busy(local[u].pod)'
    <2> DEFINE p == local[u].pod
    <2>1. LocalMove(u)
      BY DEF Move
    <2>2. CASE local'[u] = local[u]
      <3>1. p \in Pods
        BY <1>3, <2>2 DEF Typed, ControlOK, JobOK, WatchdogOK, Threads
      <3>2. /\ LeaseMove(p)
            /\ lease[p].rv \in Nat /\ lease[p].expired \in BOOLEAN
            /\ local[u].seen \in 1 .. lease[p].rv
            /\ local[u].pc = "put" /\ local[u].seen = lease[p].rv => ~Busy(p)
        BY <1>1, <1>3, <2>2, <3>1 DEF Move, VersionsOK, Leases
      <3>3. CASE lease'[p] = lease[p]
        BY <2>2, <3>2, <3>3 DEF Busy
      <3>4. CASE lease'[p].rv = lease[p].rv + 1
        BY <2>2, <3>2, <3>4
      <3>5. CASE lease'[p].rv = lease[p].rv /\ lease'[p].expired
        BY <2>2, <3>2, <3>5 DEF Busy
      <3> QED
        BY <3>2, <3>3, <3>4, <3>5 DEF LeaseMove
    <2>3. CASE local'[u] # local[u]
      <3>1. /\ lease' = lease /\ local'[u].pod = p /\ p \in Pods
            /\ local'[u].seen = lease[p].rv
            /\ local'[u].pc = "put" => ~Busy(p)
        BY <1>3, <2>1, <2>3 DEF LocalMove, MovePCs
      <3>2. lease[p].rv \in Nat /\ lease[p].rv >= 1
        BY <1>1, <3>1 DEF VersionsOK, Leases
      <3> QED
        BY <3>1, <3>2 DEF Busy
    <2> QED
      BY <2>2, <2>3
  <1> QED
    BY <1>2, <1>3 DEF VersionsOK

LEMMA ExpiryStep ==
    ASSUME Typed, Typed', ExpiryOK, Move
    PROVE  ExpiryOK'
  <1>1. ASSUME NEW p \in Pods, lease'[p].expired PROVE p \in everExpired'
    BY <1>1 DEF ExpiryOK, Move, LeaseMove
  <1>2. ASSUME NEW t \in Sweeps,
               local'[t].pc \in {"clearRead", "clearPut", "unannotate", "handoff"}
        PROVE  local'[t].pod \in everExpired'
    <2>1. t \in Threads /\ t \notin Jobs /\ LocalMove(t)
      BY ThreadsAssumption DEF Move, Threads
    <2>2. CASE local'[t] = local[t]
      BY <1>2, <2>1, <2>2 DEF ExpiryOK, Move
    <2>3. CASE local'[t].pc = "clearPut" /\ local[t].pc = "clearRead"
                 /\ local'[t].pod = local[t].pod
      BY <2>1, <2>3 DEF ExpiryOK, Move
    <2>4. CASE local[t].pc \in WorkPCs /\ local'[t].pod = local[t].pod
      BY <2>1, <2>4 DEF ExpiryOK, Move, WorkPCs
    <2>5. CASE /\ local[t].pod \in Pods /\ Zombie(local[t].pod)
               /\ local'[t].pod = local[t].pod
      BY <2>1, <2>5 DEF ExpiryOK, Move, Zombie
    <2>6. local'[t].pc \in MovePCs /\ local'[t].pc # "put"
      BY <1>2 DEF MovePCs
    <2> QED
      BY <2>1, <2>2, <2>3, <2>4, <2>5, <2>6 DEF LocalMove
  <1> QED
    BY <1>1, <1>2 DEF ExpiryOK

-----------------------------------------------------------------------------
(* Reservations *)

\* A step after which no job relies on a reservation it did not rely on before.
ClaimsKeptBy(j, p) ==
    Claims(j, p)' => /\ Claims(j, p) /\ proc'[j] = proc[j]
                     /\ p \in inMemoryHeld[proc[j]]
                           => p \in inMemoryHeld'[proc[j]]

LEMMA ClaimsKept ==
    ASSUME ReservationsExclusive, everExpired \subseteq everExpired',
           \A p \in Pods \ everExpired', j \in Jobs : ClaimsKeptBy(j, p)
    PROVE  ReservationsExclusive'
  <1>1. ASSUME NEW p \in Pods \ everExpired', NEW i \in Jobs, Claims(i, p)'
        PROVE  /\ Claims(i, p) /\ proc'[i] = proc[i]
               /\ p \in inMemoryHeld'[proc'[i]]
    BY <1>1 DEF ReservationsExclusive, ClaimsKeptBy
  <1>2. ASSUME NEW p \in Pods \ everExpired', NEW i \in Jobs, NEW j \in Jobs,
               Claims(i, p)', Claims(j, p)', proc'[i] = proc'[j]
        PROVE  i = j
    <2>1. Claims(i, p) /\ Claims(j, p) /\ proc[i] = proc[j]
      BY <1>1, <1>2
    <2> QED
      BY <2>1 DEF ReservationsExclusive
  <1> QED
    BY <1>1, <1>2 DEF ReservationsExclusive

\* The scan of job t, which has given up at most its own reservation, in held.
LEMMA ClaimReserved ==
    ASSUME Typed, ReservationsExclusive, everExpired' = everExpired,
           NEW t \in Jobs, NEW w \in Procs, NEW held, NEW queue,
           ScanOutcome(t, w, held, queue),
           proc'[t] = w, \A j \in Jobs \ {t} : proc'[j] = proc[j],
           \A p \in inMemoryHeld[w] \ held : proc[t] = w /\ Claims(t, p)
    PROVE  ReservationsExclusive'
  <1>1. ASSUME NEW p \in Pods \ everExpired, NEW j \in Jobs \ {t}, Claims(j, p)'
        PROVE  /\ Claims(j, p) /\ p \in inMemoryHeld'[proc[j]]
               /\ proc[j] = w => p \in held
    <2>1. local'[j] = local[j]
      BY DEF ScanOutcome, Threads
    <2>2. Claims(j, p) /\ p \in inMemoryHeld[proc[j]]
      BY <1>1, <2>1 DEF Claims, ReservationsExclusive
    <2>3. proc[j] \in Procs
      BY <2>2 DEF Claims, Typed, TypeOK, ControlOK, JobOK, Procs
    <2>4. CASE proc[j] = w
      <3>1. p \in held
        BY <1>1, <2>2, <2>4 DEF ReservationsExclusive
      <3> QED
        BY <2>2, <2>4, <3>1 DEF ScanOutcome
    <2>5. CASE proc[j] # w
      BY <2>2, <2>3, <2>5 DEF ScanOutcome
    <2> QED
      BY <2>2, <2>4, <2>5
  <1>2. ASSUME NEW p \in Pods, Claims(t, p)'
        PROVE  p \notin held /\ p \in inMemoryHeld'[w]
    <2>1. PICK q \in Pods : /\ local'[t] = At("read", q, NoVersion, local[t].waiter)
                            /\ q \notin held /\ inMemoryHeld'[w] = held \cup {q}
      <3>1. local'[t] # Done /\ local'[t] # At("queued", NoPod, NoVersion, NoJob)
        BY <1>2 DEF Claims, Done
      <3> QED
        BY <3>1 DEF ScanOutcome
    <2>2. p = q
      BY <1>2, <2>1 DEF Claims
    <2> QED
      BY <2>1, <2>2
  <1>3. ASSUME NEW p \in Pods \ everExpired', NEW i \in Jobs, Claims(i, p)'
        PROVE  p \in inMemoryHeld'[proc'[i]]
    BY <1>1, <1>2, <1>3
  <1>4. ASSUME NEW p \in Pods \ everExpired', NEW i \in Jobs, NEW j \in Jobs,
               Claims(i, p)', Claims(j, p)', proc'[i] = proc'[j]
        PROVE  i = j
    <2>1. CASE i # t /\ j # t
      <3>1. Claims(i, p) /\ Claims(j, p) /\ proc[i] = proc[j]
        BY <1>1, <1>4, <2>1
      <3> QED
        BY <3>1 DEF ReservationsExclusive
    <2>2. CASE i = t \/ j = t
      BY <1>1, <1>2, <1>4, <2>2
    <2> QED
      BY <2>1, <2>2
  <1> QED
    BY <1>3, <1>4 DEF ReservationsExclusive

\* Thread t hands its reservation to job x and is done.
LEMMA ClaimPassed ==
    ASSUME Typed, ReservationsExclusive, NEW t \in Jobs, NEW x \in Jobs, NEW p,
           UNCHANGED <<proc, everExpired, inMemoryHeld>>,
           proc[x] = proc[t], Claims(t, p), Grants(t, Done, x, p)
    PROVE  ReservationsExclusive'
  <1>1. ASSUME NEW j \in Jobs, NEW q, Claims(j, q)'
        PROVE  j # t /\ (Claims(j, q) \/ (j = x /\ q = p))
    BY <1>1 DEF Grants, Claims, Done, Threads
  <1>2. ASSUME NEW q \in Pods \ everExpired, NEW j \in Jobs, Claims(j, q)'
        PROVE  q \in inMemoryHeld'[proc'[j]]
    BY <1>1, <1>2 DEF ReservationsExclusive
  <1>3. ASSUME NEW q \in Pods \ everExpired, NEW i \in Jobs, NEW j \in Jobs,
               Claims(i, q)', Claims(j, q)', proc'[i] = proc'[j]
        PROVE  i = j
    BY <1>1, <1>3 DEF ReservationsExclusive
  <1> QED
    BY <1>2, <1>3 DEF ReservationsExclusive

\* Job t leaves clearRead or clearPut, and keeps its claim only for a handoff.
LEMMA ClearedClaims ==
    ASSUME Typed, ReservationsExclusive, NEW t \in Threads,
           local[t].pc \in {"clearRead", "clearPut"}, Cleared(t),
           UNCHANGED <<proc, everExpired>>
    PROVE  ReservationsExclusive'
  <1> DEFINE q == local[t].pod
  <1>1. /\ ClearedNext(t)
        /\ \A u \in Threads \ {t} : local'[u] = local[u]
    BY ClearedEffect
  <1>2. ASSUME NEW p \in Pods \ everExpired, NEW j \in Jobs, Claims(j, p)'
        PROVE  ClaimsKeptBy(j, p)
    <2>1. CASE j = t
      <3>1. local'[t] # Done
        BY <1>2, <2>1 DEF Claims, Done
      <3>2. t \in Jobs /\ waiters[ProcOf(t)] # <<>> /\ local'[t].pod = q
        BY <1>1, <2>1, <3>1, ThreadsAssumption DEF ClearedNext
      <3>3. inMemoryHeld' = inMemoryHeld
        BY <3>2, ThreadsAssumption DEF Cleared, Procs
      <3>4. Claims(j, p)
        BY <1>2, <2>1, <3>2 DEF Claims
      <3> QED
        BY <3>3, <3>4 DEF ClaimsKeptBy
    <2>2. CASE j # t
      <3>1. Claims(j, p)
        BY <1>1, <1>2, <2>2 DEF Claims, Threads
      <3>2. CASE UNCHANGED inMemoryHeld
        BY <3>1, <3>2 DEF ClaimsKeptBy
      <3>3. CASE /\ t \in Jobs
                 /\ inMemoryHeld' = [inMemoryHeld EXCEPT ![proc[t]] = @ \ {q}]
        <4>1. proc[j] = proc[t] => p # q
          BY <1>2, <2>2, <3>1, <3>3 DEF ReservationsExclusive, Claims
        <4>2. inMemoryHeld \in [Procs -> SUBSET Pods]
          BY DEF Typed, TypeOK
        <4> QED
          BY <3>1, <3>3, <4>1, <4>2 DEF ClaimsKeptBy
      <3> QED
        BY <3>2, <3>3 DEF Cleared, ProcOf
    <2> QED
      BY <2>1, <2>2
  <1>3. \A p \in Pods \ everExpired', j \in Jobs : ClaimsKeptBy(j, p)
    BY <1>2 DEF ClaimsKeptBy
  <1> QED
    BY <1>3, ClaimsKept

\* A step that only moves thread t, which keeps its pod or leaves it.
LEMMA OwnClaims ==
    ASSUME ReservationsExclusive, NEW t \in Threads, NEW next, Moves(t, next),
           UNCHANGED <<proc, inMemoryHeld, everExpired>>,
           \A p : t \in Jobs /\ Claims(t, p)' => Claims(t, p)
    PROVE  ReservationsExclusive'
  <1>1. \A j \in Jobs, p \in Pods : ClaimsKeptBy(j, p)
    BY DEF Moves, Claims, ClaimsKeptBy, Threads
  <1> QED
    BY <1>1, ClaimsKept

LEMMA ClearLeaseClaims ==
    ASSUME Typed, ReservationsExclusive, NEW t \in Threads,
           ClearRead(t) \/ ClearPut(t)
    PROVE  ReservationsExclusive'
  <1> DEFINE p == local[t].pod
  <1> DEFINE next == [local[t] EXCEPT !.pc = "clearPut", !.seen = lease[p].rv]
  <1>1. /\ UNCHANGED <<proc, everExpired>>
        /\ local[t].pc \in {"clearRead", "clearPut"} /\ local[t] \in Locals
        /\ \/ /\ Goto(t, next) /\ UNCHANGED inMemoryHeld
           \/ Cleared(t)
    BY DEF ClearRead, ClearPut, Typed, TypeOK
  <1>2. CASE Goto(t, next) /\ UNCHANGED inMemoryHeld
    <2>1. next.pod = p
      BY <1>1 DEF Locals
    <2>2. Moves(t, next)
      BY <1>2, GotoMoves
    <2>3. \A q : Claims(t, q)' => Claims(t, q)
      BY <1>1, <2>1, <2>2 DEF Claims, Moves
    <2> QED
      BY <1>1, <1>2, <2>2, <2>3, OwnClaims
  <1> QED
    BY <1>1, <1>2, ClearedClaims

LEMMA JobClaims ==
    ASSUME Typed, ReservationsExclusive, NEW t \in Jobs, JobStep(t)
    PROVE  ReservationsExclusive'
  <1> DEFINE p == local[t].pod
  <1> DEFINE x == local[t].waiter
  <1>1. /\ t \in Threads /\ local[t] \in Locals /\ JobOK(t, local[t])
        /\ local[t].pc # "new" => proc[t] \in Procs
    BY DEF Threads, Typed, TypeOK, ControlOK, JobOK, Procs
  <1>2. ASSUME local[t].pc \in {"read", "put"}, ScanOn(t),
               UNCHANGED <<proc, everExpired>>
        PROVE  ReservationsExclusive'
    <2>1. ScanOutcome(t, proc[t], inMemoryHeld[proc[t]] \ {p}, waiters[proc[t]])
      BY <1>2, ScanOnEffect
    <2>2. \A q \in inMemoryHeld[proc[t]] \ (inMemoryHeld[proc[t]] \ {p}) :
             Claims(t, q)
      BY <1>2 DEF Claims
    <2> QED
      BY <1>1, <1>2, <2>1, <2>2, ClaimReserved
  <1>3. CASE ReadLease(t)
    <2> DEFINE next == [local[t] EXCEPT !.pc = "put", !.seen = lease[p].rv]
    <2>1. /\ UNCHANGED <<proc, everExpired>> /\ local[t].pc = "read"
          /\ (Goto(t, next) /\ UNCHANGED inMemoryHeld) \/ ScanOn(t)
      BY <1>3 DEF ReadLease
    <2>2. CASE Goto(t, next) /\ UNCHANGED inMemoryHeld
      <3>1. next.pod = p
        BY <1>1 DEF Locals
      <3>2. Moves(t, next)
        BY <1>1, <2>2, GotoMoves
      <3>3. \A q : Claims(t, q)' => Claims(t, q)
        BY <1>1, <2>1, <3>1, <3>2 DEF Claims, Moves
      <3> QED
        BY <1>1, <2>1, <2>2, <3>2, <3>3, OwnClaims
    <2> QED
      BY <1>2, <2>1, <2>2
  <1>4. CASE TryPut(t)
    <2>1. /\ UNCHANGED <<proc, everExpired>> /\ local[t].pc = "put"
          /\ (Acquired(t) /\ UNCHANGED inMemoryHeld) \/ ScanOn(t)
      BY <1>4 DEF TryPut
    <2>2. CASE UNCHANGED inMemoryHeld /\ Goto(t, At("running", p, NoVersion, NoJob))
      <3>1. Moves(t, At("running", p, NoVersion, NoJob))
        BY <1>1, <2>2, GotoMoves
      <3>2. \A q : Claims(t, q)' => Claims(t, q)
        BY <1>1, <2>1, <3>1 DEF Claims, Moves
      <3> QED
        BY <1>1, <2>1, <2>2, <3>1, <3>2, OwnClaims
    <2>3. CASE UNCHANGED inMemoryHeld /\ x # NoJob /\ ResolveWaiter(t, Done, x, p)
      <3>1. /\ x \in Jobs /\ proc[x] = proc[t] /\ Claims(t, p)
            /\ local[t].pc # "queued"
        BY <1>1, <2>1, <2>3 DEF Locals, JobOK, Claims
      <3>2. Grants(t, Done, x, p)
        BY <1>1, <2>3, <3>1, ResolveGrants
      <3> QED
        BY <2>1, <2>3, <3>1, <3>2, ClaimPassed
    <2> QED
      BY <1>2, <2>1, <2>2, <2>3 DEF Acquired
  <1>5. CASE Release(t)
    <2> DEFINE next == [local[t] EXCEPT !.pc = "clearRead"]
    <2>1. /\ UNCHANGED <<proc, inMemoryHeld, everExpired>> /\ Goto(t, next)
          /\ local[t].pc = "running"
      BY <1>5 DEF Release
    <2>2. next.pod = p
      BY <1>1 DEF Locals
    <2>3. Moves(t, next)
      BY <1>1, <2>1, GotoMoves
    <2>4. \A q : Claims(t, q)' => Claims(t, q)
      BY <1>1, <2>1, <2>2, <2>3 DEF Claims, Moves
    <2> QED
      BY <1>1, <2>1, <2>3, <2>4, OwnClaims
  <1>6. CASE ReleaseHandoff(t)
    <2>1. /\ UNCHANGED <<proc, everExpired>> /\ local[t].pc = "handoff"
          /\ x \in Jobs /\ proc[x] = proc[t] /\ Claims(t, p)
          /\ \/ UNCHANGED inMemoryHeld /\ ResolveWaiter(t, Done, x, p)
             \/ Scan(t, proc[t], 1, inMemoryHeld[proc[t]] \ {p},
                     <<x>> \o waiters[proc[t]])
      BY <1>1, <1>6 DEF ReleaseHandoff, JobOK, Locals, Claims
    <2>2. CASE UNCHANGED inMemoryHeld /\ ResolveWaiter(t, Done, x, p)
      BY <1>1, <2>1, <2>2, ResolveGrants, ClaimPassed
    <2>3. CASE Scan(t, proc[t], 1, inMemoryHeld[proc[t]] \ {p},
                    <<x>> \o waiters[proc[t]])
      <3>1. ScanOutcome(t, proc[t], inMemoryHeld[proc[t]] \ {p},
                        <<x>> \o waiters[proc[t]])
        BY <2>1, <2>3, HandoffScanEffect
      <3>2. \A q \in inMemoryHeld[proc[t]] \ (inMemoryHeld[proc[t]] \ {p}) :
               Claims(t, q)
        BY <2>1
      <3> QED
        BY <1>1, <2>1, <3>1, <3>2, ClaimReserved
    <2> QED
      BY <2>1, <2>2, <2>3
  <1> QED
    BY <1>1, <1>3, <1>4, <1>5, <1>6, ClearLeaseClaims DEF JobStep

LEMMA WatchdogClaims ==
    ASSUME Typed, ReservationsExclusive, ExpiryOK, NEW t \in Sweeps, WatchdogStep(t)
    PROVE  ReservationsExclusive'
  <1> DEFINE p == local[t].pod
  <1> DEFINE x == local[t].waiter
  <1>1. t \in Threads /\ t \notin Jobs
    BY ThreadsAssumption DEF Threads
  <1>2. CASE WatchdogTick(t) \/ WatchdogCheck(t)
    <2>1. PICK next : Goto(t, next)
      BY <1>2 DEF WatchdogTick, WatchdogCheck
    <2>2. UNCHANGED <<proc, inMemoryHeld, everExpired>>
      BY <1>2 DEF WatchdogTick, WatchdogCheck
    <2> QED
      BY <1>1, <2>1, <2>2, GotoMoves, OwnClaims
  <1>3. CASE WatchdogFree(t)
    <2>1. /\ UNCHANGED <<proc, everExpired>> /\ p \in everExpired
          /\ inMemoryHeld' = [inMemoryHeld EXCEPT ![ProcOf(t)] = @ \ {p}]
          /\ inMemoryHeld \in [Procs -> SUBSET Pods]
      BY <1>3 DEF WatchdogFree, ExpiryOK, Typed, TypeOK
    <2>2. \A u \in Threads \ {t} : local'[u] = local[u]
      <3>1. PICK next : Goto(t, next)
        BY <1>3 DEF WatchdogFree
      <3> QED
        BY <1>1, <3>1, GotoMoves DEF Moves
    <2>3. \A q \in Pods \ everExpired', j \in Jobs : ClaimsKeptBy(j, q)
      BY <1>1, <2>1, <2>2 DEF ClaimsKeptBy, Claims, Threads
    <2> QED
      BY <2>1, <2>3, ClaimsKept
  <1>4. CASE WatchdogHandoff(t)
    <2>1. /\ UNCHANGED <<proc, everExpired>> /\ p \in everExpired
          /\ x \in Jobs /\ local[t].pc # "queued"
          /\ inMemoryHeld \in [Procs -> SUBSET Pods]
          /\ \/ inMemoryHeld' = [inMemoryHeld EXCEPT ![ProcOf(t)] = @ \cup {p}]
             \/ inMemoryHeld' = inMemoryHeld
          /\ \/ ResolveWaiter(t, NextCheck(p), x, p)
             \/ Goto(t, NextCheck(p))
      BY <1>1, <1>4
      DEF WatchdogHandoff, ExpiryOK, Typed, TypeOK, ControlOK, WatchdogOK, Locals
    <2>2. \A u \in Jobs : local'[u] = local[u] \/ local'[u].pod = p
      <3>1. Moves(t, NextCheck(p)) \/ Grants(t, NextCheck(p), x, p)
        BY <1>1, <2>1, GotoMoves, ResolveGrants
      <3> QED
        BY <1>1, <3>1 DEF Moves, Grants, Threads
    <2>3. ASSUME NEW q \in Pods \ everExpired', NEW j \in Jobs
          PROVE  ClaimsKeptBy(j, q)
      <3>1. Claims(j, q)' => Claims(j, q)
        BY <2>1, <2>2 DEF Claims
      <3>2. \A w \in Procs : q \in inMemoryHeld[w] => q \in inMemoryHeld'[w]
        BY <2>1
      <3>3. Claims(j, q) => proc[j] \in Procs
        BY DEF Claims, Typed, TypeOK, ControlOK, JobOK, Procs
      <3> QED
        BY <2>1, <3>1, <3>2, <3>3 DEF ClaimsKeptBy
    <2> QED
      BY <2>1, <2>3, ClaimsKept
  <1> QED
    BY <1>1, <1>2, <1>3, <1>4, ClearLeaseClaims DEF WatchdogStep

\* In no step do two jobs come to rely on one reservation.
LEMMA ReservationsStep ==
    ASSUME Typed, ReservationsExclusive, ExpiryOK, [Next]_vars
    PROVE  ReservationsExclusive'
  <1>1. ASSUME NEW j \in Jobs, NEW w \in Workers, Start(j, w)
        PROVE  ReservationsExclusive'
    <2>1. ScanOutcome(j, w, inMemoryHeld[w], waiters[w])
      BY <1>1, StartEffect
    <2>2. /\ everExpired' = everExpired /\ w \in Procs
          /\ proc' = [proc EXCEPT ![j] = w] /\ proc \in [Jobs -> Workers \cup {NoProc}]
      BY <1>1 DEF Start, Procs, Typed, TypeOK
    <2>3. proc'[j] = w /\ \A i \in Jobs \ {j} : proc'[i] = proc[i]
      BY <2>2
    <2> QED
      BY <2>1, <2>2, <2>3, ClaimReserved
  <1>2. ASSUME NEW j \in Jobs, JobStep(j) PROVE ReservationsExclusive'
    BY <1>2, JobClaims
  <1>3. ASSUME NEW j \in Jobs, Timeout(j) PROVE ReservationsExclusive'
    <2>1. /\ UNCHANGED <<proc, inMemoryHeld, everExpired>>
          /\ \/ local' = local
             \/ local' = [local EXCEPT ![j] = IF @.pc = "queued"
                    THEN At("rejected", NoPod, NoVersion, NoJob) ELSE @]
      BY <1>3 DEF Timeout
    <2>2. \A i \in Jobs : local'[i] \in
             {local[i], At("rejected", NoPod, NoVersion, NoJob)}
      BY <2>1 DEF Typed, TypeOK, Threads
    <2>3. \A p \in Pods, i \in Jobs : ClaimsKeptBy(i, p)
      BY <2>1, <2>2 DEF ClaimsKeptBy, Claims
    <2> QED
      BY <2>1, <2>3, ClaimsKept
  <1>4. ASSUME NEW t \in Sweeps, WatchdogStep(t) PROVE ReservationsExclusive'
    BY <1>4, WatchdogClaims
  <1>5. ASSUME NEW p \in Pods, Expire(p) PROVE ReservationsExclusive'
    <2>1. /\ UNCHANGED <<proc, local, inMemoryHeld>>
          /\ everExpired \subseteq everExpired'
      BY <1>5 DEF Expire
    <2>2. \A q \in Pods, i \in Jobs : ClaimsKeptBy(i, q)
      BY <2>1 DEF ClaimsKeptBy, Claims
    <2> QED
      BY <2>1, <2>2, ClaimsKept
  <1>6. ASSUME NEW w \in Workers, Crash(w) PROVE ReservationsExclusive'
    <2>1. /\ UNCHANGED <<proc, everExpired>>
          /\ inMemoryHeld' = [inMemoryHeld EXCEPT ![w] = {}]
          /\ inMemoryHeld \in [Procs -> SUBSET Pods]
      BY <1>6 DEF Crash, Typed, TypeOK
    <2>2. ASSUME NEW i \in Jobs, NEW p \in Pods, Claims(i, p)'
          PROVE  Claims(i, p) /\ proc[i] # w
      <3>1. local'[i] = IF proc[i] = w /\ local[i].pc \in Unsettled
                        THEN Abandoned(i) ELSE local[i]
        BY <1>6, ThreadsAssumption DEF Crash, Threads
      <3>2. local'[i] = local[i] /\ ~(proc[i] = w /\ local[i].pc \in Unsettled)
        BY <2>2, <3>1 DEF Claims, Abandoned
      <3> QED
        BY <2>2, <3>2 DEF Claims, Unsettled
    <2>3. \A p \in Pods, i \in Jobs : ClaimsKeptBy(i, p)
      BY <2>1, <2>2 DEF ClaimsKeptBy
    <2> QED
      BY <2>1, <2>3, ClaimsKept
  <1>7. CASE UNCHANGED vars
    <2>1. \A p \in Pods, i \in Jobs : ClaimsKeptBy(i, p)
      BY <1>7 DEF vars, ClaimsKeptBy, Claims
    <2> QED
      BY <1>7, <2>1, ClaimsKept DEF vars
  <1> QED
    BY <1>1, <1>2, <1>3, <1>4, <1>5, <1>6, <1>7 DEF Next

-----------------------------------------------------------------------------
(* The holder in the Lease object *)

\* A step after which pod p's holder is its holder from before.
HolderKept(j, p) ==
    Holding(j, p)' => Holding(j, p) /\ lease'[p].holder = lease[p].holder

\* A step that may take the lease only of pods other than p.
LEMMA PutHolders ==
    ASSUME Typed, NEW p \in Pods, NEW h \in Jobs \cup {NoJob}, NEW rv,
           NEW ok \in BOOLEAN, PutLease(p, h, rv, ok)
    PROVE  /\ \A q \in Pods \ {p} : lease'[q] = lease[q]
           /\ \/ lease' = lease /\ ~ok
              \/ Admitted(p, rv) /\ lease'[p].holder = h
  <1>1. PutLease(p, h, rv, ok) => (lease' = lease /\ ~ok) \/ (Admitted(p, rv) /\ Write(p, h))
    BY DEF PutLease
  <1>2. ASSUME Write(p, h)
        PROVE  /\ \A q \in Pods \ {p} : lease'[q] = lease[q]
               /\ lease'[p].holder = h
    BY <1>2 DEF Write, Typed, TypeOK
  <1> QED
    BY <1>1, <1>2

\* What a job's step does to the pods held by jobs: the pod of the job may pass
\* to job x, the others stay with whom they were.
LEMMA TryPutHolders ==
    ASSUME Typed, VersionsOK, ExpiryOK, LeaseNamesHolder,
           NEW t \in Jobs, TryPut(t)
    PROVE  LeaseNamesHolder'
  <1> DEFINE p == local[t].pod
  <1> DEFINE x == local[t].waiter
  <1>1. PICK ok \in BOOLEAN :
          /\ PutLease(p, Context(t), local[t].seen, ok)
          /\ \/ ok /\ Acquired(t)
             \/ ~ok /\ ScanOn(t)
    BY DEF TryPut
  <1>2. /\ everExpired' = everExpired /\ t \in Threads
        /\ local[t].pc = "put" /\ p \in Pods /\ Context(t) \in Jobs
        /\ x \in Jobs \cup {NoJob} /\ local[t].seen \in 1 .. lease[p].rv
        /\ local[t].seen = lease[p].rv => ~Busy(p)
    BY DEF TryPut, Typed, TypeOK, ControlOK, JobOK, Threads, Locals, Context,
           VersionsOK
  <1>3. Admitted(p, local[t].seen) => ~Busy(p)
    BY <1>2 DEF Admitted
  <1>4. /\ \A q \in Pods \ {p} : lease'[q] = lease[q]
        /\ (lease' = lease /\ ~ok) \/ (~Busy(p) /\ lease'[p].holder = Context(t))
    <2>1. Context(t) \in Jobs \cup {NoJob}
      BY <1>2
    <2> QED
      BY <1>1, <1>2, <1>3, <2>1, PutHolders
  <1>5. ASSUME NEW j \in Jobs, NEW q \in Pods, Holding(j, q)'
        PROVE  Holding(j, q) \/ (ok /\ j = Context(t) /\ q = p)
    <2>1. CASE ScanOn(t)
      <3>1. ScanOutcome(t, proc[t], inMemoryHeld[proc[t]] \ {p}, waiters[proc[t]])
        BY <1>2, <2>1, ScanOnEffect
      <3>2. local'[t].pc \in {"read", "queued", "done"}
        BY <3>1, ScanEnds
      <3>3. j # t
        BY <1>5, <3>2 DEF Holding
      <3> QED
        BY <1>5, <3>1, <3>3 DEF ScanOutcome, Holding, Threads
    <2>2. CASE ok /\ x = NoJob /\ Goto(t, At("running", p, NoVersion, NoJob))
      <3>1. Moves(t, At("running", p, NoVersion, NoJob)) /\ Context(t) = t
        BY <1>2, <2>2, GotoMoves DEF Context
      <3> QED
        BY <1>5, <2>2, <3>1 DEF Moves, Holding, Threads
    <2>3. CASE ok /\ x # NoJob /\ ResolveWaiter(t, Done, x, p)
      <3>1. Grants(t, Done, x, p) /\ Context(t) = x
        BY <1>2, <2>3, ResolveGrants DEF Context
      <3> QED
        BY <1>5, <2>3, <3>1 DEF Grants, Holding, Threads, Done
    <2> QED
      BY <1>1, <2>1, <2>2, <2>3 DEF Acquired
  <1>6. ASSUME NEW q \in Pods \ everExpired, NEW j \in Jobs, Holding(j, q)'
        PROVE  lease'[q].holder = j
    <2>1. CASE Holding(j, q)
      <3>1. lease[q].holder = j /\ j # NoJob /\ ~lease[q].expired
        BY <1>6, <2>1, ThreadsAssumption DEF LeaseNamesHolder, ExpiryOK
      <3>2. Busy(q)
        BY <3>1 DEF Busy
      <3> QED
        BY <1>4, <3>1, <3>2
    <2>2. CASE ok /\ j = Context(t) /\ q = p
      BY <1>4, <2>2
    <2> QED
      BY <1>5, <1>6, <2>1, <2>2
  <1> QED
    BY <1>2, <1>6 DEF LeaseNamesHolder

LEMMA ClearPutHolders ==
    ASSUME Typed, ExpiryOK, LeaseNamesHolder, NEW t \in Threads, ClearPut(t)
    PROVE  LeaseNamesHolder'
  <1> DEFINE p == local[t].pod
  <1>1. PICK ok \in BOOLEAN : PutLease(p, NoJob, local[t].seen, ok)
    BY DEF ClearPut
  <1>2. /\ everExpired' = everExpired /\ local[t].pc = "clearPut"
        /\ Cleared(t) /\ p \in Pods
    BY DEF ClearPut, Typed, ControlOK, JobOK, WatchdogOK, Threads
  <1>3. \A q \in Pods \ {p} : lease'[q] = lease[q]
    <2> DEFINE rv == local[t].seen
    <2>1. /\ NoJob \in Jobs \cup {NoJob} /\ p \in Pods
          /\ PutLease(p, NoJob, rv, ok)
      BY <1>1, <1>2
    <2> HIDE DEF p, rv
    <2> QED
      BY <2>1, PutHolders
  <1>4. /\ \A u \in Threads \ {t} : local'[u] = local[u]
        /\ local'[t].pc \in {"done", "handoff", "unannotate"}
    <2>1. ClearedNext(t) /\ \A u \in Threads \ {t} : local'[u] = local[u]
      BY <1>2, ClearedEffect
    <2> QED
      BY <2>1 DEF ClearedNext, Done
  <1>5. ASSUME NEW q \in Pods \ everExpired, NEW j \in Jobs, Holding(j, q)'
        PROVE  lease'[q].holder = j
    <2>1. j # t
      BY <1>4, <1>5 DEF Holding
    <2>2. Holding(j, q)
      BY <1>4, <1>5, <2>1 DEF Holding, Threads
    <2>3. lease[q].holder = j
      BY <1>5, <2>2 DEF LeaseNamesHolder
    <2>4. q # p
      <3>1. CASE t \in Jobs
        <4>1. q = p => Holding(t, q)
          BY <1>2 DEF Holding
        <4> QED
          BY <1>5, <2>1, <2>3, <3>1, <4>1 DEF LeaseNamesHolder
      <3>2. CASE t \in Sweeps
        BY <1>2, <3>2 DEF ExpiryOK
      <3> QED
        BY <3>1, <3>2 DEF Threads
    <2> QED
      BY <1>3, <2>3, <2>4
  <1> QED
    BY <1>2, <1>5 DEF LeaseNamesHolder

LEMMA ReleaseHandoffHolders ==
    ASSUME SafeDeployment, Typed, ReservationsExclusive, LeaseNamesHolder,
           NEW t \in Jobs, ReleaseHandoff(t)
    PROVE  LeaseNamesHolder'
  <1> DEFINE p == local[t].pod
  <1> DEFINE x == local[t].waiter
  <1>1. PICK ok \in BOOLEAN :
          /\ PutLease(p, x, NoVersion, ok)
          /\ \/ ok /\ ResolveWaiter(t, Done, x, p)
             \/ /\ ~ok
                /\ Scan(t, proc[t], 1, inMemoryHeld[proc[t]] \ {p},
                        <<x>> \o waiters[proc[t]])
    BY DEF ReleaseHandoff
  <1>2. /\ everExpired' = everExpired /\ t \in Threads
        /\ local[t].pc = "handoff" /\ p \in Pods /\ x \in Jobs
        /\ Claims(t, p) /\ proc[t] \in Workers
    BY DEF ReleaseHandoff, Typed, TypeOK, ControlOK, JobOK, Threads, Locals, Claims
  <1>3. /\ \A q \in Pods \ {p} : lease'[q] = lease[q]
        /\ (lease' = lease /\ ~ok) \/ (UnconditionalPut /\ lease'[p].holder = x)
    <2>1. x \in Jobs \cup {NoJob}
      BY <1>2
    <2> QED
      BY <1>1, <1>2, <2>1, PutHolders DEF Admitted
  <1>4. ASSUME NEW j \in Jobs, NEW q \in Pods, Holding(j, q)'
        PROVE  j # t /\ (Holding(j, q) \/ (ok /\ j = x /\ q = p))
    <2>1. CASE ok /\ ResolveWaiter(t, Done, x, p)
      <3>1. Grants(t, Done, x, p)
        BY <1>2, <2>1, ResolveGrants
      <3> QED
        BY <1>4, <2>1, <3>1 DEF Grants, Holding, Threads, Done
    <2>2. CASE Scan(t, proc[t], 1, inMemoryHeld[proc[t]] \ {p},
                    <<x>> \o waiters[proc[t]])
      <3>1. ScanOutcome(t, proc[t], inMemoryHeld[proc[t]] \ {p},
                        <<x>> \o waiters[proc[t]])
        BY <1>2, <2>2, HandoffScanEffect
      <3>2. local'[t].pc \in {"read", "queued", "done"}
        BY <3>1, ScanEnds
      <3>3. j # t
        BY <1>4, <3>2 DEF Holding
      <3> QED
        BY <1>4, <3>1, <3>3 DEF ScanOutcome, Holding, Threads
    <2> QED
      BY <1>1, <2>1, <2>2
  <1>5. ASSUME UnconditionalPut, NEW q \in Pods \ everExpired, NEW j \in Jobs \ {t},
               Holding(j, q)
        PROVE  q # p
    <2>1. Claims(j, q) /\ proc[j] \in Workers
      BY <1>5 DEF Holding, Claims, Typed, TypeOK, ControlOK, JobOK
    <2>2. proc[j] = proc[t]
      BY <1>2, <1>5, <2>1 DEF SafeDeployment
    <2> QED
      BY <1>2, <1>5, <2>1, <2>2 DEF ReservationsExclusive
  <1>6. ASSUME NEW q \in Pods \ everExpired, NEW j \in Jobs, Holding(j, q)'
        PROVE  lease'[q].holder = j
    <2>1. CASE Holding(j, q)
      <3>1. lease[q].holder = j
        BY <1>6, <2>1 DEF LeaseNamesHolder
      <3> QED
        BY <1>3, <1>4, <1>5, <1>6, <2>1, <3>1
    <2>2. CASE ok /\ j = x /\ q = p
      BY <1>3, <2>2
    <2> QED
      BY <1>4, <1>6, <2>1, <2>2
  <1> QED
    BY <1>2, <1>6 DEF LeaseNamesHolder

LEMMA HoldersKept ==
    ASSUME LeaseNamesHolder, everExpired \subseteq everExpired',
           \A p \in Pods \ everExpired', j \in Jobs : HolderKept(j, p)
    PROVE  LeaseNamesHolder'
  BY DEF LeaseNamesHolder, HolderKept

\* A step of thread t's own that leaves the leases alone, after which t holds
\* no pod that it did not hold.
LEMMA OwnHolders ==
    ASSUME LeaseNamesHolder, NEW t \in Threads, UNCHANGED <<lease, everExpired>>,
           \A u \in Threads \ {t} : local'[u] = local[u],
           \A p \in Pods : t \in Jobs /\ Holding(t, p)' => Holding(t, p)
    PROVE  LeaseNamesHolder'
  <1>1. ASSUME NEW j \in Jobs, NEW p \in Pods, Holding(j, p)' PROVE Holding(j, p)
    <2>1. CASE j = t
      BY <1>1, <2>1
    <2>2. CASE j # t
      BY <1>1, <2>2 DEF Holding, Threads
    <2> QED
      BY <2>1, <2>2
  <1>2. \A p \in Pods \ everExpired', j \in Jobs : HolderKept(j, p)
    BY <1>1 DEF HolderKept
  <1> QED
    BY <1>2, HoldersKept

LEMMA ScanHolders ==
    ASSUME LeaseNamesHolder, UNCHANGED <<lease, everExpired>>,
           NEW t \in Jobs, NEW w, NEW held, NEW queue,
           ScanOutcome(t, w, held, queue)
    PROVE  LeaseNamesHolder'
  <1>1. t \in Threads /\ \A u \in Threads \ {t} : local'[u] = local[u]
    BY DEF Threads, ScanOutcome
  <1>2. local'[t].pc \in {"read", "queued", "done"}
    BY ScanEnds
  <1>3. \A p \in Pods : ~Holding(t, p)'
    BY <1>2 DEF Holding
  <1> QED
    BY <1>1, <1>3, OwnHolders

LEMMA ReadLeaseHolders ==
    ASSUME Typed, LeaseNamesHolder, NEW t \in Jobs, ReadLease(t)
    PROVE  LeaseNamesHolder'
  <1> DEFINE next == [local[t] EXCEPT !.pc = "put", !.seen = lease[local[t].pod].rv]
  <1>1. PICK ok \in BOOLEAN : GetLease(ok) /\ (Goto(t, next) \/ ScanOn(t))
    BY DEF ReadLease
  <1>2. /\ UNCHANGED <<lease, everExpired>> /\ local[t].pc = "read"
        /\ t \in Threads /\ local[t] \in Locals
    BY <1>1, GetEffect DEF ReadLease, Threads, Typed, TypeOK
  <1>3. CASE Goto(t, next)
    <2>1. next.pc = "put"
      BY <1>2 DEF Locals
    <2> HIDE DEF next
    <2>2. local'[t].pc = "put" /\ \A u \in Threads \ {t} : local'[u] = local[u]
      BY <1>2, <1>3, <2>1, GotoMoves DEF Moves
    <2>3. \A p \in Pods : ~Holding(t, p)'
      BY <2>2 DEF Holding
    <2> QED
      BY <1>2, <2>2, <2>3, OwnHolders
  <1>4. CASE ScanOn(t)
    <2>1. ScanOutcome(t, proc[t], inMemoryHeld[proc[t]] \ {local[t].pod},
                      waiters[proc[t]])
      BY <1>2, <1>4, ScanOnEffect
    <2> QED
      BY <1>2, <2>1, ScanHolders
  <1> QED
    BY <1>1, <1>3, <1>4

LEMMA ReleaseHolders ==
    ASSUME Typed, LeaseNamesHolder, NEW t \in Jobs, Release(t)
    PROVE  LeaseNamesHolder'
  <1> DEFINE next == [local[t] EXCEPT !.pc = "clearRead"]
  <1>1. /\ UNCHANGED <<lease, everExpired>> /\ local[t].pc = "running"
        /\ t \in Threads /\ local[t] \in Locals /\ Goto(t, next)
    BY DEF Release, Threads, Typed, TypeOK
  <1>2. next.pod = local[t].pod
    BY <1>1 DEF Locals
  <1> HIDE DEF next
  <1>3. local'[t] = next /\ \A u \in Threads \ {t} : local'[u] = local[u]
    BY <1>1, GotoMoves DEF Moves
  <1>4. \A p \in Pods : Holding(t, p)' => Holding(t, p)
    BY <1>1, <1>2, <1>3 DEF Holding
  <1> QED
    BY <1>1, <1>3, <1>4, OwnHolders

LEMMA ClearReadHolders ==
    ASSUME Typed, LeaseNamesHolder, NEW t \in Threads, ClearRead(t)
    PROVE  LeaseNamesHolder'
  <1> DEFINE next == [local[t] EXCEPT !.pc = "clearPut",
                                      !.seen = lease[local[t].pod].rv]
  <1>1. PICK ok \in BOOLEAN : GetLease(ok) /\ (Goto(t, next) \/ Cleared(t))
    BY DEF ClearRead
  <1>2. /\ UNCHANGED <<lease, everExpired>> /\ local[t].pc = "clearRead"
        /\ local[t] \in Locals
    BY <1>1, GetEffect DEF ClearRead, Typed, TypeOK
  <1>3. CASE Goto(t, next)
    <2>1. next.pod = local[t].pod
      BY <1>2 DEF Locals
    <2> HIDE DEF next
    <2>2. local'[t] = next /\ \A u \in Threads \ {t} : local'[u] = local[u]
      BY <1>3, GotoMoves DEF Moves
    <2>3. \A p \in Pods : Holding(t, p)' => Holding(t, p)
      BY <1>2, <2>1, <2>2 DEF Holding
    <2> QED
      BY <1>2, <2>2, <2>3, OwnHolders
  <1>4. CASE Cleared(t)
    <2>1. ClearedNext(t) /\ \A u \in Threads \ {t} : local'[u] = local[u]
      BY <1>4, ClearedEffect
    <2>2. local'[t].pc \in {"done", "handoff", "unannotate"}
      BY <2>1 DEF ClearedNext, Done
    <2>3. \A p \in Pods : ~Holding(t, p)'
      BY <2>2 DEF Holding
    <2> QED
      BY <1>2, <2>1, <2>3, OwnHolders
  <1> QED
    BY <1>1, <1>3, <1>4

LEMMA WatchdogHandoffHolders ==
    ASSUME Typed, ExpiryOK, LeaseNamesHolder, NEW t \in Sweeps, WatchdogHandoff(t)
    PROVE  LeaseNamesHolder'
  <1> DEFINE p == local[t].pod
  <1> DEFINE x == local[t].waiter
  <1>1. PICK ok \in BOOLEAN :
          /\ PutLease(p, x, NoVersion, ok)
          /\ \/ ResolveWaiter(t, NextCheck(p), x, p)
             \/ Goto(t, NextCheck(p))
    BY DEF WatchdogHandoff
  <1>2. /\ everExpired' = everExpired /\ t \in Threads /\ t \notin Jobs
        /\ local[t].pc = "handoff" /\ p \in Pods /\ x \in Jobs
        /\ p \in everExpired
    BY ThreadsAssumption DEF WatchdogHandoff, Typed, TypeOK, ControlOK, WatchdogOK,
       Threads, Locals, ExpiryOK
  <1>3. \A q \in Pods \ {p} : lease'[q] = lease[q]
    <2>1. x \in Jobs \cup {NoJob}
      BY <1>2
    <2> QED
      BY <1>1, <1>2, <2>1, PutHolders
  <1>4. Moves(t, NextCheck(p)) \/ Grants(t, NextCheck(p), x, p)
    BY <1>1, <1>2, GotoMoves, ResolveGrants
  <1>5. ASSUME NEW q \in Pods \ everExpired, NEW j \in Jobs, Holding(j, q)'
        PROVE  Holding(j, q)
    BY <1>2, <1>4, <1>5 DEF Moves, Grants, Holding, Threads
  <1>6. \A q \in Pods \ everExpired', j \in Jobs : HolderKept(j, q)
    BY <1>2, <1>3, <1>5 DEF HolderKept
  <1> QED
    BY <1>2, <1>6, HoldersKept

LEMMA WatchdogHolders ==
    ASSUME Typed, ExpiryOK, LeaseNamesHolder, NEW t \in Sweeps, WatchdogStep(t)
    PROVE  LeaseNamesHolder'
  <1>1. t \in Threads /\ t \notin Jobs
    BY ThreadsAssumption DEF Threads
  <1>2. ASSUME NEW next, Goto(t, next), UNCHANGED <<lease, everExpired>>
        PROVE  LeaseNamesHolder'
    <2>1. \A u \in Threads \ {t} : local'[u] = local[u]
      BY <1>1, <1>2, GotoMoves DEF Moves
    <2> QED
      BY <1>1, <1>2, <2>1, OwnHolders
  <1>3. CASE WatchdogTick(t)
    BY <1>2, <1>3 DEF WatchdogTick
  <1>4. CASE WatchdogCheck(t)
    <2>1. PICK ok \in BOOLEAN :
            /\ GetLease(ok)
            /\ Goto(t, IF ok /\ Zombie(local[t].pod)
                       THEN At("clearRead", local[t].pod, NoVersion, NoJob)
                       ELSE NextCheck(local[t].pod))
      BY <1>4 DEF WatchdogCheck
    <2>2. UNCHANGED <<lease, everExpired>>
      BY <1>4, <2>1 DEF WatchdogCheck, GetLease
    <2> QED
      BY <1>2, <2>1, <2>2
  <1>5. CASE WatchdogFree(t)
    BY <1>2, <1>5 DEF WatchdogFree
  <1> QED
    BY <1>1, <1>3, <1>4, <1>5, ClearReadHolders, ClearPutHolders,
       WatchdogHandoffHolders DEF WatchdogStep

\* Every step leaves each unexpired lease with the job that holds the pod.
LEMMA HoldersStep ==
    ASSUME SafeDeployment, Typed, VersionsOK, ExpiryOK, ReservationsExclusive,
           LeaseNamesHolder, [Next]_vars
    PROVE  LeaseNamesHolder'
  <1>1. ASSUME NEW j \in Jobs, NEW w \in Workers, Start(j, w)
        PROVE  LeaseNamesHolder'
    <2>1. ScanOutcome(j, w, inMemoryHeld[w], waiters[w])
      BY <1>1, StartEffect
    <2>2. UNCHANGED <<lease, everExpired>>
      BY <1>1 DEF Start
    <2> QED
      BY <2>1, <2>2, ScanHolders
  <1>2. ASSUME NEW j \in Jobs, JobStep(j) PROVE LeaseNamesHolder'
    <2>1. j \in Threads
      BY DEF Threads
    <2> QED
      BY <1>2, <2>1, ReadLeaseHolders, TryPutHolders, ReleaseHolders,
         ClearReadHolders, ClearPutHolders, ReleaseHandoffHolders DEF JobStep
  <1>3. ASSUME NEW j \in Jobs, Timeout(j) PROVE LeaseNamesHolder'
    <2>1. /\ UNCHANGED <<lease, everExpired>>
          /\ \/ local' = local
             \/ local' = [local EXCEPT ![j] = IF @.pc = "queued"
                    THEN At("rejected", NoPod, NoVersion, NoJob) ELSE @]
      BY <1>3 DEF Timeout
    <2>2. \A i \in Jobs : local'[i] \in
             {local[i], At("rejected", NoPod, NoVersion, NoJob)}
      BY <2>1 DEF Typed, TypeOK, Threads
    <2>3. \A p \in Pods \ everExpired', i \in Jobs : HolderKept(i, p)
      BY <2>1, <2>2 DEF HolderKept, Holding
    <2> QED
      BY <2>1, <2>3, HoldersKept
  <1>4. ASSUME NEW t \in Sweeps, WatchdogStep(t) PROVE LeaseNamesHolder'
    BY <1>4, WatchdogHolders
  <1>5. ASSUME NEW p \in Pods, Expire(p) PROVE LeaseNamesHolder'
    <2>1. /\ local' = local /\ everExpired \subseteq everExpired'
          /\ \A q \in Pods : lease'[q].holder = lease[q].holder
      BY <1>5 DEF Expire, Typed, TypeOK, Leases
    <2>2. \A q \in Pods \ everExpired', i \in Jobs : HolderKept(i, q)
      BY <2>1 DEF HolderKept, Holding
    <2> QED
      BY <2>1, <2>2, HoldersKept
  <1>6. ASSUME NEW w \in Workers, Crash(w) PROVE LeaseNamesHolder'
    <2>1. UNCHANGED <<lease, everExpired>>
      BY <1>6 DEF Crash
    <2>2. \A i \in Jobs : local'[i] = local[i] \/ local'[i].pc = "dead"
      BY <1>6, ThreadsAssumption DEF Crash, Threads, Abandoned
    <2>3. \A p \in Pods \ everExpired', i \in Jobs : HolderKept(i, p)
      BY <2>1, <2>2 DEF HolderKept, Holding
    <2> QED
      BY <2>1, <2>3, HoldersKept
  <1>7. CASE UNCHANGED vars
    <2>1. \A p \in Pods \ everExpired', i \in Jobs : HolderKept(i, p)
      BY <1>7 DEF vars, HolderKept, Holding
    <2> QED
      BY <1>7, <2>1, HoldersKept DEF vars
  <1> QED
    BY <1>1, <1>2, <1>3, <1>4, <1>5, <1>6, <1>7 DEF Next

-----------------------------------------------------------------------------
(* The theorems *)

LEMMA InitIInv == Init => IInv
  <1> SUFFICES ASSUME Init PROVE IInv
    OBVIOUS
  <1>1. TypeOK /\ ControlOK
    BY InitTyped DEF Typed
  <1>2. /\ \A j \in Jobs : local[j].pc = "new"
        /\ \A t \in Sweeps : local[t].pc = "sleep"
    BY ThreadsAssumption DEF Init, Threads, Sleep, Procs
  <1>3. VersionsOK
    BY <1>2 DEF Init, VersionsOK, Threads
  <1>4. ExpiryOK
    BY <1>2 DEF Init, ExpiryOK
  <1>5. ReservationsExclusive /\ LeaseNamesHolder
    BY <1>2 DEF ReservationsExclusive, Claims, LeaseNamesHolder, Holding
  <1> QED
    BY <1>1, <1>3, <1>4, <1>5 DEF IInv

LEMMA NextIInv == SafeDeployment /\ IInv /\ [Next]_vars => IInv'
  <1> SUFFICES ASSUME SafeDeployment, IInv, [Next]_vars PROVE IInv'
    OBVIOUS
  <1>1. Typed /\ VersionsOK /\ ExpiryOK /\ ReservationsExclusive /\ LeaseNamesHolder
    BY DEF IInv, Typed
  <1>2. Typed' /\ Move
    BY <1>1, NextTyped, NextMove
  <1>3. VersionsOK' /\ ExpiryOK'
    BY <1>1, <1>2, VersionsStep, ExpiryStep
  <1>4. ReservationsExclusive' /\ LeaseNamesHolder'
    BY <1>1, ReservationsStep, HoldersStep
  <1> QED
    BY <1>2, <1>3, <1>4 DEF IInv, Typed

LEMMA IInvExclusive == IInv => Exclusive
  BY DEF IInv, LeaseNamesHolder, Exclusive

\* A worker never gives one reservation to two of its calls, and a call that
\* goes on to use one has it, for any number of pods, workers and jobs, with
\* faults and crashes: the claim of the comment in releasePod on inMemoryHeld.
THEOREM ReservationsCorrect == Spec => []ReservationsExclusive
  <1> DEFINE RInv == Typed /\ ExpiryOK /\ ReservationsExclusive
  <1>1. Init => RInv
    BY InitIInv DEF IInv, Typed
  <1>2. RInv /\ [Next]_vars => RInv'
    BY NextTyped, NextMove, ExpiryStep, ReservationsStep
  <1>3. RInv => ReservationsExclusive
    OBVIOUS
  <1> QED
    BY <1>1, <1>2, <1>3, PTL DEF Spec

\* The Lease object names the call that has the pod, until the call has
\* cleared it: no write of another worker, of a releaser or of a watchdog lands
\* on a lease that has not expired.  It needs the API server to refuse a PUT
\* without a version, or the deployment to run one worker.
THEOREM HolderCorrect == ASSUME SafeDeployment PROVE Spec => []LeaseNamesHolder
  <1>1. Init => IInv
    BY InitIInv
  <1>2. IInv /\ [Next]_vars => IInv'
    BY NextIInv
  <1>3. IInv => LeaseNamesHolder
    BY DEF IInv
  <1> QED
    BY <1>1, <1>2, <1>3, PTL DEF Spec

\* Two tool calls never share a pod whose lease has not expired, for any number
\* of pods, workers, API servers and calls, whatever fails and crashes.
THEOREM Exclusion == ASSUME SafeDeployment PROVE Spec => []Exclusive
  <1>1. Init => IInv
    BY InitIInv
  <1>2. IInv /\ [Next]_vars => IInv'
    BY NextIInv
  <1>3. IInv => Exclusive
    BY IInvExclusive
  <1> QED
    BY <1>1, <1>2, <1>3, PTL DEF Spec
=============================================================================
