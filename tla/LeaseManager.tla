---------------------------- MODULE LeaseManager ----------------------------
(***************************************************************************)
(* The pod pool of src/src/sandbox/lease-manager.ts, as the tool workers   *)
(* and the API servers run it against one Kubernetes API server.           *)
(*                                                                         *)
(* Every sandbox pod has a Lease object.  A worker process serves its tool *)
(* calls (jobs) concurrently on one event loop: tryAcquireAny reserves a   *)
(* pod in inMemoryHeld and then takes its lease, a job that finds no pod   *)
(* waits in the FIFO queue waiters, releasePod hands the pod to the first  *)
(* waiter, and a watchdog timer clears the leases that are past their TTL. *)
(* An API server constructs a LeaseManager too, for /pods; it runs no jobs *)
(* but its watchdog runs.                                                  *)
(*                                                                         *)
(* A step runs from the answer of one API call to the next await: that is  *)
(* what the event loop makes atomic.  A call to the API server and the     *)
(* effect it has there happen in the step that receives its answer.        *)
(***************************************************************************)
EXTENDS Integers, Sequences, FiniteSets

CONSTANTS
    NumPods,            \* POD_NAMES has NumPods entries, scanned in order
    Workers,            \* worker processes
    Servers,            \* API server processes: a watchdog and no jobs
    Jobs,               \* tool calls
    NoJob,              \* an empty holderIdentity, or no waiter
    NoProc,             \* the process of a job that is not delivered yet
    UnconditionalPut,   \* does the API server accept a PUT without version?
    SlowJobs,           \* may a job still run when its lease's TTL is over?
    MaxSweeps,          \* bound on the watchdog's sweeps pending at a time
    MaxFaults,          \* bound on failed API calls
    MaxCrashes          \* bound on worker crashes

Procs   == Workers \cup Servers
Sweeps  == Procs \X (1 .. MaxSweeps)    \* the sweeps of the watchdogs
Threads == Jobs \cup Sweeps
Pods    == 1 .. NumPods         \* POD_NAMES, by position
NoPod   == 0
NoVersion == 0                  \* no resourceVersion in the request

ASSUME NumPodsAssumption   == NumPods \in Nat
ASSUME ThreadsAssumption   == /\ Jobs \cap Sweeps = {}
                              /\ Workers \cap Servers = {}
                              /\ NoJob \notin Jobs
                              /\ NoProc \notin Procs
ASSUME OptionsAssumption   == /\ UnconditionalPut \in BOOLEAN
                              /\ SlowJobs \in BOOLEAN
                              /\ MaxSweeps \in Nat
                              /\ MaxFaults \in Nat
                              /\ MaxCrashes \in Nat

VARIABLES
    lease,          \* the Lease object of each pod, at the API server
    inMemoryHeld,   \* inMemoryHeld of each process
    waiters,        \* the FIFO queue of each process
    proc,           \* the worker a job was delivered to
    local,          \* where each thread is, and its local variables
    timer,          \* the setTimeout of a job that was queued
    everExpired,    \* history: pods whose lease has expired while it was held
    faults,         \* API calls that have failed
    crashes         \* worker crashes

vars == <<lease, inMemoryHeld, waiters, proc, local, timer, everExpired,
          faults, crashes>>

JobPCs      == {"new", "read", "put", "queued", "running", "clearRead",
                "clearPut", "handoff", "done", "rejected", "dead"}
WatchdogPCs == {"sleep", "check", "clearRead", "clearPut", "unannotate",
                "handoff"}
Timers      == {"unset", "armed", "fired"}

Leases == [holder : Jobs \cup {NoJob}, rv : Nat, expired : BOOLEAN]
Locals == [pc : JobPCs \cup WatchdogPCs, pod : Pods \cup {NoPod}, seen : Nat,
           waiter : Jobs \cup {NoJob}]

\* The types of the variables.
TypeOK ==
    /\ lease \in [Pods -> Leases]
    /\ inMemoryHeld \in [Procs -> SUBSET Pods]
    /\ waiters \in [Procs -> Seq(Jobs)]
    /\ proc \in [Jobs -> Workers \cup {NoProc}]
    /\ local \in [Threads -> Locals]
    /\ timer \in [Jobs -> Timers]
    /\ everExpired \in SUBSET Pods
    /\ faults \in 0 .. MaxFaults
    /\ crashes \in 0 .. MaxCrashes

-----------------------------------------------------------------------------
(* Threads *)

ProcOf(t) == IF t \in Jobs THEN proc[t] ELSE t[1]

At(pc, p, rv, w) == [pc |-> pc, pod |-> p, seen |-> rv, waiter |-> w]
Done  == At("done", NoPod, NoVersion, NoJob)
Sleep == At("sleep", NoPod, NoVersion, NoJob)

Goto(t, next) == local' = [local EXCEPT ![t] = next]

\* Mutant: the waiter is taken off the queue, and never resolved.
ForgetWaiter(t, next, j, p) == Goto(t, next)

\* The waiter's promise is resolved with pod p: it has an effect only if the
\* promise is still pending.  t, who resolves it, continues at next.
ResolveWaiter(t, next, j, p) ==
    local' = [local EXCEPT ![t] = next,
                 ![j] = IF local[j].pc = "queued"
                        THEN At("running", p, NoVersion, NoJob) ELSE @]

\* The job whose identity tryAcquireAny writes: the caller's own, or that of
\* the waiter a releaser scans for.
Context(t) == IF local[t].waiter = NoJob THEN t ELSE local[t].waiter

Rest(q) == IF q = <<>> THEN <<>> ELSE Tail(q)     \* the array after shift()
Splice(q, i) == SubSeq(q, 1, i - 1) \o SubSeq(q, i + 1, Len(q))

-----------------------------------------------------------------------------
(* The API server *)

\* A PUT carries the version that was read, and is refused if the object has
\* changed since; without a version it is the resource's policy.
Admitted(p, rv) == IF rv = NoVersion THEN UnconditionalPut ELSE rv = lease[p].rv

Write(p, h) == lease' = [lease EXCEPT ![p] =
                   [holder |-> h, rv |-> @.rv + 1, expired |-> FALSE]]

Fault == faults < MaxFaults /\ faults' = faults + 1

GetLease(ok) == /\ UNCHANGED lease
                /\ IF ok THEN UNCHANGED faults ELSE Fault

\* replaceNamespacedLease: an answer that is lost leaves the object written.
PutLease(p, h, rv, ok) ==
    \/ ok /\ Admitted(p, rv) /\ Write(p, h) /\ UNCHANGED faults
    \/ ~ok /\ ~Admitted(p, rv) /\ UNCHANGED <<lease, faults>>
    \/ ~ok /\ Fault /\ UNCHANGED lease
    \/ ~ok /\ Fault /\ Admitted(p, rv) /\ Write(p, h)

\* Mutant: tryAcquireLease does not look at the holder.
NeverBusy(p) == FALSE
\* Mutant: the watchdog's comparison with the TTL is the wrong way round.
LiveLease(p) == lease[p].holder # NoJob /\ ~lease[p].expired

\* tryAcquireLease returns false for a lease that is held and not expired.
Busy(p) == lease[p].holder # NoJob /\ ~lease[p].expired
\* The watchdog's test.
Zombie(p) == lease[p].holder # NoJob /\ lease[p].expired

-----------------------------------------------------------------------------
(* acquirePod *)

\* Mutants: the scan does not look at inMemoryHeld; it misses its first pod.
FreeOrHeld(held, i) == {p \in Pods : i <= p}
FreeAfter(held, i) == {p \in Pods : i < p /\ p \notin held}

\* The pods from position i on that are not reserved, and the first of them.
Free(held, i) == {p \in Pods : i <= p /\ p \notin held}
First(held, i) == {p \in Free(held, i) : \A q \in Free(held, i) : p <= q}

\* tryAcquireAny's loop in process w from position i on, where held and queue
\* are what the step has made of inMemoryHeld and waiters.  The next pod that is
\* not reserved is reserved and its lease read.  With none left, acquirePod
\* enqueues the job and arms its timer; a releaser returns, leaving its waiter
\* in the queue.
Scan(t, w, i, held, queue) ==
    \/ \E p \in First(held, i) :
          /\ inMemoryHeld' = [inMemoryHeld EXCEPT ![w] = held \cup {p}]
          /\ waiters' = [waiters EXCEPT ![w] = queue]
          /\ Goto(t, At("read", p, NoVersion, local[t].waiter))
          /\ UNCHANGED timer
    \/ /\ Free(held, i) = {} /\ local[t].waiter = NoJob
       /\ inMemoryHeld' = [inMemoryHeld EXCEPT ![w] = held]
       /\ waiters' = [waiters EXCEPT ![w] = Append(queue, t)]
       /\ Goto(t, At("queued", NoPod, NoVersion, NoJob))
       /\ timer' = [timer EXCEPT ![t] = "armed"]
    \/ /\ Free(held, i) = {} /\ local[t].waiter # NoJob
       /\ inMemoryHeld' = [inMemoryHeld EXCEPT ![w] = held]
       /\ waiters' = [waiters EXCEPT ![w] = queue]
       /\ Goto(t, Done)
       /\ UNCHANGED timer

\* Mutant: the scan goes on and the reservation is kept.
ScanOnReserved(t) == Scan(t, ProcOf(t), local[t].pod + 1,
                          inMemoryHeld[ProcOf(t)], waiters[ProcOf(t)])

\* tryAcquireLease returned false: the reservation is dropped, the scan goes on.
ScanOn(t) ==
    LET w == ProcOf(t)
        p == local[t].pod
    IN  Scan(t, w, p + 1, inMemoryHeld[w] \ {p}, waiters[w])

\* tryAcquireLease returned true: acquirePod returns the pod; a releaser takes
\* the head off the queue and resolves the waiter it scanned for.
Acquired(t) ==
    LET w == ProcOf(t)
        p == local[t].pod
    IN  \/ /\ local[t].waiter = NoJob
           /\ Goto(t, At("running", p, NoVersion, NoJob))
           /\ UNCHANGED waiters
        \/ /\ local[t].waiter # NoJob
           /\ waiters' = [waiters EXCEPT ![w] = Rest(@)]
           /\ ResolveWaiter(t, Done, local[t].waiter, p)

\* A worker receives the job, and acquirePod scans the pods.
Start(j, w) ==
    /\ local[j].pc = "new"
    /\ proc' = [proc EXCEPT ![j] = w]
    /\ Scan(j, w, 1, inMemoryHeld[w], waiters[w])
    /\ UNCHANGED <<lease, everExpired, faults, crashes>>

\* tryAcquireLease reads the lease.
ReadLease(t) ==
    /\ local[t].pc = "read"
    /\ \E ok \in BOOLEAN :
          /\ GetLease(ok)
          /\ LET p == local[t].pod
             IN  \/ /\ ok /\ ~Busy(p)
                    /\ Goto(t, [local[t] EXCEPT !.pc = "put",
                                                !.seen = lease[p].rv])
                    /\ UNCHANGED <<inMemoryHeld, waiters, timer>>
                 \/ (~ok \/ Busy(p)) /\ ScanOn(t)
    /\ UNCHANGED <<proc, everExpired, crashes>>

\* tryAcquireLease writes the lease with the version it read.
TryPut(t) ==
    /\ local[t].pc = "put"
    /\ \E ok \in BOOLEAN :
          /\ PutLease(local[t].pod, Context(t), local[t].seen, ok)
          /\ \/ ok /\ Acquired(t) /\ UNCHANGED <<inMemoryHeld, timer>>
             \/ ~ok /\ ScanOn(t)
    /\ UNCHANGED <<proc, everExpired, crashes>>

\* The deadline of a queued job: its callback rejects the job if it is in the
\* queue at that moment, and otherwise returns.
Timeout(j) ==
    LET w == proc[j]
    IN  /\ timer[j] = "armed"
        /\ timer' = [timer EXCEPT ![j] = "fired"]
        /\ \/ \E i \in 1 .. Len(waiters[w]) :
                 /\ waiters[w][i] = j
                 /\ \A k \in 1 .. (i - 1) : waiters[w][k] # j
                 /\ waiters' = [waiters EXCEPT ![w] = Splice(@, i)]
                 /\ local' = [local EXCEPT ![j] = IF @.pc = "queued"
                       THEN At("rejected", NoPod, NoVersion, NoJob) ELSE @]
           \/ /\ \A i \in 1 .. Len(waiters[w]) : waiters[w][i] # j
              /\ UNCHANGED <<waiters, local>>
        /\ UNCHANGED <<lease, inMemoryHeld, proc, everExpired, faults, crashes>>

-----------------------------------------------------------------------------
(* releasePod, and clearLease, which the watchdog calls too *)

\* The tool has ended, its result is published: releasePod calls clearLease.
Release(j) ==
    /\ local[j].pc = "running"
    /\ Goto(j, [local[j] EXCEPT !.pc = "clearRead"])
    /\ UNCHANGED <<lease, inMemoryHeld, waiters, proc, timer, everExpired,
                   faults, crashes>>

\* clearLease has returned, with or without success.  releasePod takes the
\* first waiter and writes the lease for it, or drops the reservation; the
\* watchdog goes on to clearAnnotations.
Cleared(t) ==
    LET w == ProcOf(t)
        p == local[t].pod
    IN  \/ /\ t \in Jobs /\ waiters[w] = <<>>
           /\ inMemoryHeld' = [inMemoryHeld EXCEPT ![w] = @ \ {p}]
           /\ Goto(t, Done)
           /\ UNCHANGED waiters
        \/ /\ t \in Jobs /\ waiters[w] # <<>>
           /\ waiters' = [waiters EXCEPT ![w] = Tail(@)]
           /\ Goto(t, At("handoff", p, NoVersion, Head(waiters[w])))
           /\ UNCHANGED inMemoryHeld
        \/ /\ t \in Sweeps
           /\ Goto(t, At("unannotate", p, NoVersion, NoJob))
           /\ UNCHANGED <<inMemoryHeld, waiters>>

\* clearLease reads the lease, for its version and nothing else.
ClearRead(t) ==
    /\ local[t].pc = "clearRead"
    /\ \E ok \in BOOLEAN :
          /\ GetLease(ok)
          /\ \/ /\ ok
                /\ Goto(t, [local[t] EXCEPT !.pc = "clearPut",
                                            !.seen = lease[local[t].pod].rv])
                /\ UNCHANGED <<inMemoryHeld, waiters>>
             \/ ~ok /\ Cleared(t)
    /\ UNCHANGED <<proc, timer, everExpired, crashes>>

\* clearLease writes an empty holder.
ClearPut(t) ==
    /\ local[t].pc = "clearPut"
    /\ \E ok \in BOOLEAN : PutLease(local[t].pod, NoJob, local[t].seen, ok)
    /\ Cleared(t)
    /\ UNCHANGED <<proc, timer, everExpired, crashes>>

\* releasePod writes the lease for the waiter, without a version.  If that
\* fails it drops the reservation, puts the waiter back at the head of the
\* queue and scans all pods on its behalf.
ReleaseHandoff(j) ==
    LET w == proc[j]
        p == local[j].pod
        x == local[j].waiter
    IN  /\ local[j].pc = "handoff"
        /\ \E ok \in BOOLEAN :
              /\ PutLease(p, x, NoVersion, ok)
              /\ \/ /\ ok
                    /\ ResolveWaiter(j, Done, x, p)
                    /\ UNCHANGED <<inMemoryHeld, waiters, timer>>
                 \/ /\ ~ok
                    /\ Scan(j, w, 1, inMemoryHeld[w] \ {p},
                            <<x>> \o waiters[w])
        /\ UNCHANGED <<proc, everExpired, crashes>>

-----------------------------------------------------------------------------
(* The watchdog of each process *)

\* Mutant: the loop goes one pod too far.
NextCheckPastEnd(p) == IF p <= NumPods THEN At("check", p + 1, NoVersion, NoJob)
                                       ELSE Sleep

\* The loop's next pod, or the end of the sweep.
NextCheck(p) == IF p + 1 \in Pods THEN At("check", p + 1, NoVersion, NoJob)
                                  ELSE Sleep

\* The interval timer starts a sweep over the pods, whether or not the sweeps it
\* started before are over.
WatchdogTick(t) ==
    /\ local[t].pc = "sleep"
    /\ Goto(t, NextCheck(0))
    /\ UNCHANGED <<lease, inMemoryHeld, waiters, proc, timer, everExpired,
                   faults, crashes>>

\* Read the lease; if it is held and past its TTL, clear it.
WatchdogCheck(t) ==
    LET p == local[t].pod
    IN  /\ local[t].pc = "check"
        /\ \E ok \in BOOLEAN :
              /\ GetLease(ok)
              /\ Goto(t, IF ok /\ Zombie(p)
                         THEN At("clearRead", p, NoVersion, NoJob)
                         ELSE NextCheck(p))
        /\ UNCHANGED <<inMemoryHeld, waiters, proc, timer, everExpired, crashes>>

\* The lease is cleared and clearAnnotations has returned: drop the pod's
\* reservation, whoever made it, and take the first waiter.
WatchdogFree(t) ==
    LET w == ProcOf(t)
        p == local[t].pod
    IN  /\ local[t].pc = "unannotate"
        /\ inMemoryHeld' = [inMemoryHeld EXCEPT ![w] = @ \ {p}]
        /\ \/ /\ waiters[w] = <<>>
              /\ Goto(t, NextCheck(p))
              /\ UNCHANGED waiters
           \/ /\ waiters[w] # <<>>
              /\ waiters' = [waiters EXCEPT ![w] = Tail(@)]
              /\ Goto(t, At("handoff", p, NoVersion, Head(waiters[w])))
        /\ UNCHANGED <<lease, proc, timer, everExpired, faults, crashes>>

\* Write the lease for the waiter, without a version and without a reservation
\* until it has succeeded.  If it fails the waiter goes back to the head.
WatchdogHandoff(t) ==
    LET w == ProcOf(t)
        p == local[t].pod
        x == local[t].waiter
    IN  /\ local[t].pc = "handoff"
        /\ \E ok \in BOOLEAN :
              /\ PutLease(p, x, NoVersion, ok)
              /\ \/ /\ ok
                    /\ inMemoryHeld' = [inMemoryHeld EXCEPT ![w] = @ \cup {p}]
                    /\ ResolveWaiter(t, NextCheck(p), x, p)
                    /\ UNCHANGED waiters
                 \/ /\ ~ok
                    /\ waiters' = [waiters EXCEPT ![w] = <<x>> \o @]
                    /\ Goto(t, NextCheck(p))
                    /\ UNCHANGED inMemoryHeld
        /\ UNCHANGED <<proc, timer, everExpired, crashes>>

-----------------------------------------------------------------------------
(* Time and failures *)

\* Job j has been given pod p and has not cleared its lease yet: its tool runs
\* there, or may do.
Holding(j, p) == /\ local[j].pc \in {"running", "clearRead", "clearPut"}
                 /\ local[j].pod = p

\* A lease's TTL is over.  LEASE_TTL_SECONDS is meant to exceed the time a job
\* holds its pod: then only a lease whose holder does not run there expires.
Expire(p) ==
    /\ lease[p].holder # NoJob /\ ~lease[p].expired
    /\ SlowJobs \/ ~Holding(lease[p].holder, p)
    /\ lease' = [lease EXCEPT ![p].expired = TRUE]
    /\ everExpired' = everExpired \cup {p}
    /\ UNCHANGED <<inMemoryHeld, waiters, proc, local, timer, faults, crashes>>

Unsettled == {"read", "put", "queued", "running", "clearRead", "clearPut",
              "handoff"}

\* A job that was lost; its record keeps the pod in which its tool was running.
Abandoned(j) == At("dead", IF Holding(j, local[j].pod) THEN local[j].pod
                           ELSE NoPod, NoVersion, NoJob)

\* A worker process ends at any point and is restarted with an empty
\* LeaseManager; its leases stay as they are and its jobs are not redelivered.
Crash(w) ==
    /\ crashes < MaxCrashes
    /\ crashes' = crashes + 1
    /\ inMemoryHeld' = [inMemoryHeld EXCEPT ![w] = {}]
    /\ waiters' = [waiters EXCEPT ![w] = <<>>]
    /\ local' = [t \in Threads |->
          IF t \in Sweeps /\ t[1] = w THEN Sleep
          ELSE IF t \in Jobs /\ proc[t] = w /\ local[t].pc \in Unsettled
               THEN Abandoned(t)
               ELSE local[t]]
    /\ timer' = [j \in Jobs |-> IF proc[j] = w THEN "unset" ELSE timer[j]]
    /\ UNCHANGED <<lease, proc, everExpired, faults>>

-----------------------------------------------------------------------------
Init ==
    /\ lease = [p \in Pods |-> [holder |-> NoJob, rv |-> 1, expired |-> FALSE]]
    /\ inMemoryHeld = [w \in Procs |-> {}]
    /\ waiters = [w \in Procs |-> <<>>]
    /\ proc = [j \in Jobs |-> NoProc]
    /\ local = [t \in Threads |->
          IF t \in Jobs THEN At("new", NoPod, NoVersion, NoJob) ELSE Sleep]
    /\ timer = [j \in Jobs |-> "unset"]
    /\ everExpired = {}
    /\ faults = 0
    /\ crashes = 0

\* The steps a job's thread takes once it was delivered.
JobStep(j) == ReadLease(j) \/ TryPut(j) \/ Release(j) \/ ClearRead(j)
              \/ ClearPut(j) \/ ReleaseHandoff(j)

WatchdogStep(t) == WatchdogTick(t) \/ WatchdogCheck(t) \/ ClearRead(t)
                   \/ ClearPut(t) \/ WatchdogFree(t) \/ WatchdogHandoff(t)

Next == \/ \E j \in Jobs, w \in Workers : Start(j, w)
        \/ \E j \in Jobs : JobStep(j) \/ Timeout(j)
        \/ \E t \in Sweeps : WatchdogStep(t)
        \/ \E p \in Pods : Expire(p)
        \/ \E w \in Workers : Crash(w)

Spec == Init /\ [][Next]_vars

\* The event loop runs every continuation, API calls answer, a tool is stopped
\* by its timeout, timers fire, and the clock passes the TTL.
Fairness == /\ \A j \in Jobs : WF_vars(JobStep(j)) /\ WF_vars(Timeout(j))
            /\ \A t \in Sweeps : WF_vars(WatchdogStep(t))
            /\ \A p \in Pods : WF_vars(Expire(p))

FairSpec == Spec /\ Fairness
=============================================================================
