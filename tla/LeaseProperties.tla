-------------------------- MODULE LeaseProperties ---------------------------
(* What is claimed of LeaseManager, and the inductive invariant behind it. *)
EXTENDS LeaseManager

\* tests/integration/api.test.ts: two calls never share a pod.  Between the
\* grant of a pod and the end of its release no other job has been given it,
\* whatever the workers, watchdogs, faults and crashes do, as long as the pod's
\* lease has never expired.
Exclusive ==
    \A p \in Pods \ everExpired : \A i, j \in Jobs :
        Holding(i, p) /\ Holding(j, p) => i = j

\* The same for every pod: what the comment on inMemoryHeld claims, that the
\* lease is the authoritative lock for multi-replica safety.
AlwaysExclusive ==
    \A p \in Pods : \A i, j \in Jobs :
        Holding(i, p) /\ Holding(j, p) => i = j

\* The Lease object names the job that has the pod, from the grant until the
\* release has cleared it: no stale write of another process lands on it.
LeaseNamesHolder ==
    \A p \in Pods \ everExpired : \A j \in Jobs :
        Holding(j, p) => lease[p].holder = j

\* Thread t relies on its process's reservation of pod p.
Claims(t, p) ==
    /\ local[t].pc \in {"read", "put", "running", "clearRead", "clearPut",
                        "handoff"}
    /\ local[t].pod = p

\* releasePod's comment: the reservation prevents a concurrent tryAcquireAny
\* from stealing the pod mid-handoff.  Two threads of a worker never rely on
\* the same reservation, and a thread that relies on one has it.
ReservationsExclusive ==
    \A p \in Pods \ everExpired : \A i \in Jobs :
        Claims(i, p) =>
            /\ p \in inMemoryHeld[proc[i]]
            /\ \A j \in Jobs : Claims(j, p) /\ proc[j] = proc[i] => i = j

JobsOf(w) == {j \in Jobs : proc[j] = w}

\* Worker w has run alone and undisturbed so far: no other worker had a job, no
\* call failed, no process crashed and no lease outlived its TTL while held.
Alone(w) == /\ \A j \in Jobs : proc[j] \in {w, NoProc}
            /\ everExpired = {}
            /\ faults = 0
            /\ crashes = 0

\* The releasers of worker w that, refused at their handoff, scan for a waiter.
Searchers(w) == {j \in JobsOf(w) : /\ local[j].waiter # NoJob
                                   /\ local[j].pc \in {"read", "put"}}

\* No wakeup is lost between a scan that finds nothing and the enqueue, between
\* a release and a handoff, or when the API server refuses a handoff and the
\* waiter goes back into the queue: as long as a worker is undisturbed, some pod
\* is unreserved only if as many releasers are scanning as jobs are waiting.
WorkConserving ==
    \A w \in Workers : Alone(w) /\ inMemoryHeld[w] # Pods
                          => Len(waiters[w]) <= Cardinality(Searchers(w))

\* Worker w has reserved pod p, and no thread of it relies on that and will give
\* the pod up.
Leaked(w, p) ==
    p \in inMemoryHeld[w] /\ ~\E j \in Jobs : proc[j] = w /\ Claims(j, p)

\* Pod p's lease names a job that does not run there, and that does not clear it.
Orphaned(p) == /\ lease[p].holder # NoJob
               /\ ~Holding(lease[p].holder, p)

\* A pod whose reservation is leaked is one the watchdog frees: its lease stays
\* orphaned until its TTL is over.  So no pod is lost to a worker for good by
\* handoffs that fail, deadlines that pass meanwhile, and releasers that wake
\* another waiter than the one they scanned for.
LeaksNamedInLease ==
    \A w \in Workers, p \in Pods \ everExpired : Leaked(w, p) => Orphaned(p)

\* A releaser whose handoff failed may acquire the pod for a waiter that was
\* rejected meanwhile: nobody will release it.  The lease it wrote expires, and
\* the worker's watchdog takes the reservation with it.
LeakedReservationRecovered ==
    \A w \in Workers, p \in Pods : Leaked(w, p) ~> ~Leaked(w, p)

\* README, "Queue behavior": every queued call is answered, with a pod or, at
\* its deadline, with the capacity error.  A job is queued once, so that each is
\* answered if there comes a time from which on none is waiting.
EveryWaiterAnswered ==
    <>[](\A j \in Jobs : local[j].pc # "queued")

\* README, "Lease model": the lease of a worker that crashed in mid-execution is
\* recovered.  So is every lease whose holder will never clear it: one whose
\* clearing failed, or one that was written for a job that does not run there.
AbandonedLeaseRecovered ==
    \A p \in Pods : \A j \in Jobs :
        (lease[p].holder = j /\ local[j].pc \in {"done", "rejected", "dead"})
            ~> lease[p].holder # j

\* What processJob sees of a job's use of the pool.
CallState(j) ==
    LET pc == local[j].pc
    IN  CASE pc = "new" -> "idle"
          [] pc = "rejected" -> "refused"
          [] pc = "dead" -> "lost"
          [] pc \in {"running", "clearRead", "clearPut"} -> "granted"
          [] pc \in {"read", "put", "queued"} /\ local[j].waiter = NoJob
                -> "waiting"
          [] OTHER -> "returned"

\* The pod that is kept for a job: the one it was granted, and after its worker
\* crashed the one it was running in, until the lease expires.
LostOrGrantedPod(j) ==
    IF \/ CallState(j) = "granted"
       \/ CallState(j) = "lost" /\ local[j].pod \notin everExpired
    THEN local[j].pod ELSE NoPod

Pool == INSTANCE PodPool WITH
            call   <- [j \in Jobs |-> CallState(j)],
            grant  <- [j \in Jobs |-> LostOrGrantedPod(j)],
            lapsed <- everExpired

\* LeaseManager implements the abstract pool: each of its steps is a step of
\* PodPool or changes nothing processJob can see.
ImplementsPodPool == Pool!PoolSpec

-----------------------------------------------------------------------------
(* The inductive invariant.  Exclusive holds because a pod's lease is written *)
(* with the version that was read when it was free, and it is cleared only by *)
(* its holder, unless it expired.                                             *)

\* Which local variables are set where; a releaser's or a watchdog's waiter, and
\* the jobs in a process's queue, are jobs of that process.
JobOK(j, l) ==
    /\ l.pc \in JobPCs
    /\ l.pc = "new" <=> proc[j] = NoProc
    /\ l.pc \in {"read", "put", "running", "clearRead", "clearPut", "handoff"}
          => l.pod \in Pods
    /\ l.pc = "handoff" => l.waiter # NoJob
    /\ l.waiter # NoJob => /\ l.pc \in {"read", "put", "handoff"}
                           /\ proc[l.waiter] = proc[j]

WatchdogOK(t, l) ==
    /\ l.pc \in WatchdogPCs
    /\ l.pc # "sleep" => l.pod \in Pods
    /\ l.pc = "handoff" <=> l.waiter # NoJob
    /\ l.waiter # NoJob => proc[l.waiter] = t[1]

ControlOK ==
    /\ \A j \in Jobs : JobOK(j, local[j])
    /\ \A t \in Sweeps : WatchdogOK(t, local[t])
    /\ \A w \in Procs : waiters[w] \in Seq(JobsOf(w))
    /\ \A j \in Jobs : timer[j] # "unset" => proc[j] \in Workers

\* A thread that is about to write a lease has read some version of it, and if
\* that is the current one the lease is free.
VersionsOK ==
    /\ \A p \in Pods : lease[p].rv >= 1
    /\ \A t \in Threads :
          local[t].pc \in {"put", "clearPut"} =>
              /\ local[t].seen \in 1 .. lease[local[t].pod].rv
              /\ local[t].pc = "put" /\ local[t].seen = lease[local[t].pod].rv
                    => ~Busy(local[t].pod)

\* The watchdog works only on leases that have expired.
ExpiryOK ==
    /\ \A p \in Pods : lease[p].expired => p \in everExpired
    /\ \A t \in Sweeps :
          local[t].pc \in {"clearRead", "clearPut", "unannotate", "handoff"}
              => local[t].pod \in everExpired

IInv == /\ TypeOK
        /\ ControlOK
        /\ VersionsOK
        /\ ExpiryOK
        /\ ReservationsExclusive
        /\ LeaseNamesHolder

\* Either the API server refuses a PUT without a version, or one worker runs.
SafeDeployment == UnconditionalPut => \E w : Workers = {w}

\* A lost job's lease still names it, until it expires: a releaser that writes
\* a lease without a version finds its own job in it, or no one.
LostNamedInLease ==
    \A j \in Jobs : \A p \in Pods \ everExpired :
        local[j].pc = "dead" /\ local[j].pod = p => lease[p].holder = j

HandoffFindsOwnLease ==
    UnconditionalPut =>
        \A j \in Jobs : \A p \in Pods \ everExpired :
            local[j].pc = "handoff" /\ local[j].pod = p
                => lease[p].holder \in {j, NoJob}

\* What the refinement of PodPool needs.
PoolInv == IInv /\ LostNamedInLease /\ HandoffFindsOwnLease

-----------------------------------------------------------------------------
(* The inductive invariant of a worker that is alone.  A lease that is held   *)
(* names a job whose pod is reserved and not scanned by anyone, and whoever   *)
(* writes a lease has read its last version: no read finds a lease taken, and *)
(* no write but a handoff is refused.                                         *)

LeasesReserved(w) ==
    \A p \in Pods : lease[p].holder # NoJob =>
        /\ p \in inMemoryHeld[w]
        /\ \A j \in Jobs : local[j].pc \in {"read", "put", "handoff"}
                              => local[j].pod # p

VersionsCurrent ==
    \A j \in Jobs : local[j].pc \in {"put", "clearPut"}
                       => local[j].seen = lease[local[j].pod].rv

AloneInv(w) == Alone(w) => LeasesReserved(w) /\ VersionsCurrent

QueueInv == IInv /\ WorkConserving /\ \A w \in Workers : AloneInv(w)
=============================================================================
