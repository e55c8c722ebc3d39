------------------------------ MODULE ToolCall ------------------------------
(***************************************************************************)
(* One tool call from the API server to a pod and back, in the redis mode  *)
(* of the API server: RedisExecutor.execute (src/src/executor/redis.ts),   *)
(* the stream and the result channels (src/src/queue/redis-client.ts) and  *)
(* the worker (src/src/worker/index.ts), over the pod pool of PodPool.     *)
(*                                                                         *)
(* The API server's SUBSCRIBE and XADD travel on two connections, so Redis *)
(* handles them in any order.  Pub/sub keeps nothing: a result published   *)
(* when nobody listens is gone.  The stream is read by the consumer group  *)
(* of the workers; an entry is delivered to one of them, once.             *)
(***************************************************************************)
EXTENDS PodPool, Sequences

CONSTANTS
    Workers,        \* worker processes
    NoWorker,       \* the worker of a job that is not delivered
    SlowTools,      \* may a tool run longer than TOOL_TIMEOUT_MS?
    ServerFails,    \* may the API server crash, its commands and connections fail?
    MaxFaults,      \* bound on failed Redis commands and dropped connections
    MaxCrashes      \* bound on crashes

ASSUME ToolCallAssumption == /\ NoWorker \notin Workers
                             /\ SlowTools \in BOOLEAN
                             /\ ServerFails \in BOOLEAN
                             /\ MaxFaults \in Nat /\ MaxCrashes \in Nat

VARIABLES
    caller,     \* where RedisExecutor.execute is, for each call
    promise,    \* waitForResult's promise
    listening,  \* is its SUBSCRIBE in effect at Redis?
    inbox,      \* messages that are on their way to its "message" handler
    stream,     \* the entries of the stream tool-calls
    cursor,     \* how many of them the consumer group has delivered
    job,        \* where processJob is, for each call
    worker,     \* the worker its entry was delivered to
    podName,    \* processJob's variable
    verdict,    \* the status of the result, or that processJob or its XACK threw
    commands,   \* the commands that run in each pod
    faults,     \* failed commands and dropped connections
    crashes     \* crashes of workers and of the API server

apiVars    == <<caller, promise, listening>>
streamVars == <<stream, cursor>>
workerVars == <<job, worker, podName, verdict, commands>>
vars == <<poolVars, apiVars, inbox, streamVars, workerVars, faults, crashes>>

NoGroup == -1
Settled == {"completed", "failed", "timedOut", "error"}

TypeOK ==
    /\ call \in [Jobs -> {"idle", "waiting", "granted", "returned", "refused",
                          "lost"}]
    /\ grant \in [Jobs -> Pods \cup {NoPod}]
    /\ lapsed \in SUBSET Pods
    /\ caller \in [Jobs -> {"idle", "publishing", "published", "awaiting",
                            "threw", "lost"}]
    /\ promise \in [Jobs -> {"none", "pending"} \cup Settled]
    /\ listening \in [Jobs -> BOOLEAN]
    /\ inbox \in [Jobs -> Seq({"completed", "failed"})]
    /\ stream \in Seq(Jobs)
    /\ cursor \in {NoGroup} \cup (0 .. Len(stream))
    /\ job \in [Jobs -> {"none", "acquiring", "running", "publish", "release",
                         "notify", "catch", "finally", "settled", "acked",
                         "dead"}]
    /\ worker \in [Jobs -> Workers \cup {NoWorker}]
    /\ podName \in [Jobs -> Pods \cup {NoPod}]
    /\ verdict \in [Jobs -> {"none", "completed", "failed", "threw"}]
    /\ commands \in [Pods -> SUBSET Jobs]
    /\ faults \in 0 .. MaxFaults
    /\ crashes \in 0 .. MaxCrashes

ToolCallInit ==
    /\ PoolInit
    /\ caller = [c \in Jobs |-> "idle"]
    /\ promise = [c \in Jobs |-> "none"]
    /\ listening = [c \in Jobs |-> FALSE]
    /\ inbox = [c \in Jobs |-> <<>>]
    /\ stream = <<>>
    /\ cursor = NoGroup
    /\ job = [c \in Jobs |-> "none"]
    /\ worker = [c \in Jobs |-> NoWorker]
    /\ podName = [c \in Jobs |-> NoPod]
    /\ verdict = [c \in Jobs |-> "none"]
    /\ commands = [p \in Pods |-> {}]
    /\ faults = 0
    /\ crashes = 0

Fault == faults < MaxFaults /\ faults' = faults + 1

-----------------------------------------------------------------------------
(* The API server *)

\* waitForResult sends its SUBSCRIBE and arms its timer, publishToolCall sends
\* its XADD: no await is between them.
Execute(c) ==
    /\ caller[c] = "idle"
    /\ caller' = [caller EXCEPT ![c] = "publishing"]
    /\ promise' = [promise EXCEPT ![c] = "pending"]
    /\ UNCHANGED <<poolVars, listening, inbox, streamVars, workerVars, faults,
                   crashes>>

\* Redis appends the entry; publishToolCall has not returned yet.
AddEntry(c) ==
    /\ caller[c] = "publishing"
    /\ stream' = Append(stream, c)
    /\ caller' = [caller EXCEPT ![c] = "published"]
    /\ UNCHANGED <<poolVars, promise, listening, inbox, cursor, workerVars,
                   faults, crashes>>

\* publishToolCall returns and execute awaits the result, or it fails, with or
\* without an entry: execute throws and nobody awaits the result's promise.
Published(c) ==
    /\ \/ /\ caller[c] = "published"
          /\ caller' = [caller EXCEPT ![c] = "awaiting"]
          /\ UNCHANGED faults
       \/ /\ caller[c] \in {"publishing", "published"}
          /\ ServerFails /\ Fault
          /\ caller' = [caller EXCEPT ![c] = "threw"]
    /\ UNCHANGED <<poolVars, promise, listening, inbox, streamVars, workerVars,
                   crashes>>

\* The API server ends: its calls are lost and its connections closed.
ServerEnds(pr) ==
    /\ caller' = [c \in Jobs |->
          IF \/ caller[c] \in {"publishing", "published"}
             \/ caller[c] = "awaiting" /\ promise[c] = "pending"
          THEN "lost" ELSE caller[c]]
    /\ promise' = [c \in Jobs |-> IF pr[c] = "pending" THEN "none" ELSE pr[c]]
    /\ listening' = [c \in Jobs |-> FALSE]
    /\ inbox' = [c \in Jobs |-> <<>>]

\* The promise is rejected.  No handler is attached to it before execute awaits
\* it: then the rejection is unhandled, and Node ends the process.
Reject(c, why) ==
    LET pr == [promise EXCEPT ![c] = why]
    IN  \/ /\ caller[c] = "awaiting"
           /\ promise' = pr
           /\ listening' = [listening EXCEPT ![c] = FALSE]
           /\ UNCHANGED <<caller, inbox>>
        \/ /\ caller[c] # "awaiting"
           /\ ServerEnds(pr)

\* The SUBSCRIBE is in effect, or fails and rejects the promise.
Subscribe(c) ==
    /\ promise[c] = "pending" /\ ~listening[c]
    /\ \/ /\ listening' = [listening EXCEPT ![c] = TRUE]
          /\ UNCHANGED <<caller, promise, inbox, faults>>
       \/ ServerFails /\ Fault /\ Reject(c, "error")
    /\ UNCHANGED <<poolVars, streamVars, workerVars, crashes>>

\* The connection is lost; the client library connects and subscribes again.
Disconnect(c) ==
    /\ listening[c]
    /\ ServerFails /\ Fault
    /\ listening' = [listening EXCEPT ![c] = FALSE]
    /\ UNCHANGED <<poolVars, caller, promise, inbox, streamVars, workerVars,
                   crashes>>

\* waitForResult's "message" handler.
Message(c) ==
    /\ inbox[c] # <<>>
    /\ inbox' = [inbox EXCEPT ![c] = Tail(@)]
    /\ \/ /\ promise[c] = "pending"
          /\ promise' = [promise EXCEPT ![c] = Head(inbox[c])]
          /\ listening' = [listening EXCEPT ![c] = FALSE]
       \/ promise[c] # "pending" /\ UNCHANGED <<promise, listening>>
    /\ UNCHANGED <<poolVars, caller, streamVars, workerVars, faults, crashes>>

\* Mutant: the callback of subscribe clears the timer, error or not.
TimeoutUnlessListening(c) ==
    /\ promise[c] = "pending" /\ ~listening[c]
    /\ caller[c] \in {"awaiting", "threw"}
    /\ Reject(c, "timedOut")
    /\ UNCHANGED <<poolVars, streamVars, workerVars, faults, crashes>>

\* waitForResult's timer, TOOL_TIMEOUT_MS after Execute: the XADD has been
\* answered or given up by then.
Timeout(c) ==
    /\ promise[c] = "pending"
    /\ caller[c] \in {"awaiting", "threw"}
    /\ Reject(c, "timedOut")
    /\ UNCHANGED <<poolVars, streamVars, workerVars, faults, crashes>>

\* The API server is stopped and started again.
ServerCrash ==
    /\ ServerFails /\ crashes < MaxCrashes
    /\ crashes' = crashes + 1
    /\ ServerEnds(promise)
    /\ UNCHANGED <<poolVars, streamVars, workerVars, faults>>

-----------------------------------------------------------------------------
(* The workers: reading the stream *)

\* Mutant: the group begins one entry too far.
GroupPastEnd ==
    /\ cursor = NoGroup
    /\ cursor' = Len(stream) + 1
    /\ UNCHANGED <<poolVars, apiVars, inbox, stream, workerVars, faults, crashes>>

\* ensureConsumerGroup, when a worker starts: the first creates the group, with
\* "$" behind the last entry; for the others it is there.
EnsureGroup ==
    /\ cursor = NoGroup
    /\ cursor' = Len(stream)
    /\ UNCHANGED <<poolVars, apiVars, inbox, stream, workerVars, faults, crashes>>

\* XREADGROUP delivers the next entry to a worker.  processJob asks for a pod;
\* a reply that is lost leaves the entry delivered and never processed.
Deliver(c, w) ==
    /\ cursor # NoGroup
    /\ cursor < Len(stream) /\ stream[cursor + 1] = c
    /\ cursor' = cursor + 1
    /\ worker' = [worker EXCEPT ![c] = w]
    /\ \/ /\ job' = [job EXCEPT ![c] = "acquiring"]
          /\ Ask(c)
          /\ UNCHANGED faults
       \/ /\ Fault
          /\ job' = [job EXCEPT ![c] = "dead"]
          /\ UNCHANGED poolVars
    /\ UNCHANGED <<apiVars, inbox, stream, podName, verdict, commands, crashes>>

-----------------------------------------------------------------------------
(* The workers: processJob *)

JobGoto(c, pc) == job' = [job EXCEPT ![c] = pc]

\* PUBLISH reaches who listens at that moment.  A failed one may have been
\* executed: only its reply is lost.
Publish(c, status, ok) ==
    LET sent == inbox' = [inbox EXCEPT ![c] = IF listening[c]
                                              THEN Append(@, status) ELSE @]
    IN  \/ ok /\ sent /\ UNCHANGED faults
        \/ ~ok /\ Fault /\ (sent \/ UNCHANGED inbox)

\* The command has ended.  Mutant: run returns before.
LeaveCommand(c) == UNCHANGED commands
StopCommand(c) == commands' = [commands EXCEPT ![podName[c]] = @ \ {c}]

\* podName = null, against a second release.  Mutant: the line is missing.
KeepPod(c) == UNCHANGED podName
ForgetPod(c) == podName' = [podName EXCEPT ![c] = NoPod]

\* The finally block releases a pod only if one is still named.  Mutant: it does
\* not release any.
NoSafetyNet(c) == "settled"
AfterCatch(c) == IF podName[c] = NoPod THEN "settled" ELSE "finally"

\* acquirePod returns a pod, and the command is started there.
Acquired(c) ==
    /\ job[c] = "acquiring"
    /\ \E p \in Pods :
          /\ Grant(c, p)
          /\ podName' = [podName EXCEPT ![c] = p]
          /\ commands' = [commands EXCEPT ![p] = @ \cup {c}]
    /\ JobGoto(c, "running")
    /\ UNCHANGED <<apiVars, inbox, streamVars, worker, verdict, faults, crashes>>

\* acquirePod throws its QueueTimeoutError.
NotAcquired(c) ==
    /\ job[c] = "acquiring"
    /\ Refuse(c)
    /\ JobGoto(c, "catch")
    /\ UNCHANGED <<apiVars, inbox, streamVars, worker, podName, verdict,
                   commands, faults, crashes>>

\* PodExecutor.run returns an exit code, or throws: there is no command for the
\* tool, the exec fails, or the timer wins the race and the command goes on.
Ran(c) ==
    /\ job[c] = "running"
    /\ \/ /\ \E s \in {"completed", "failed"} : verdict' = [verdict EXCEPT ![c] = s]
          /\ JobGoto(c, "publish")
       \/ verdict' = [verdict EXCEPT ![c] = "failed"] /\ JobGoto(c, "catch")
    /\ \/ StopCommand(c)
       \/ /\ SlowTools /\ job'[c] = "catch"
          /\ UNCHANGED commands
    /\ UNCHANGED <<poolVars, apiVars, inbox, streamVars, worker, podName,
                   faults, crashes>>

\* A command whose job no longer waits for it ends.
CommandEnds(c, p) ==
    /\ c \in commands[p] /\ job[c] # "running"
    /\ commands' = [commands EXCEPT ![p] = @ \ {c}]
    /\ UNCHANGED <<poolVars, apiVars, inbox, streamVars, job, worker, podName,
                   verdict, faults, crashes>>

\* Step 1: publish the result.
PublishResult(c) ==
    /\ job[c] = "publish"
    /\ \E ok \in BOOLEAN : /\ Publish(c, verdict[c], ok)
                           /\ JobGoto(c, IF ok THEN "release" ELSE "catch")
    /\ UNCHANGED <<poolVars, apiVars, streamVars, worker, podName, verdict,
                   commands, crashes>>

\* Step 2: release the pod, and forget its name.
ReleasePod(c) ==
    /\ job[c] = "release"
    /\ Return(c)
    /\ ForgetPod(c)
    /\ JobGoto(c, "notify")
    /\ UNCHANGED <<apiVars, inbox, streamVars, worker, verdict, commands,
                   faults, crashes>>

\* Step 3: publish that the pod is freed, which nobody subscribes to.
NotifyFreed(c) ==
    /\ job[c] = "notify"
    /\ \/ JobGoto(c, "settled") /\ UNCHANGED faults
       \/ JobGoto(c, "catch") /\ Fault
    /\ UNCHANGED <<poolVars, apiVars, inbox, streamVars, worker, podName,
                   verdict, commands, crashes>>

\* The catch block publishes a failed result, and the finally block is next.  If
\* the PUBLISH fails processJob will throw.
Catch(c) ==
    /\ job[c] = "catch"
    /\ \E ok \in BOOLEAN :
          /\ Publish(c, "failed", ok)
          /\ verdict' = [verdict EXCEPT ![c] = IF ok THEN @ ELSE "threw"]
    /\ JobGoto(c, AfterCatch(c))
    /\ UNCHANGED <<poolVars, apiVars, streamVars, worker, podName, commands,
                   crashes>>

\* The finally block releases the pod that is still named.
Finally(c) ==
    /\ job[c] = "finally"
    /\ Return(c)
    /\ ForgetPod(c)
    /\ JobGoto(c, "settled")
    /\ UNCHANGED <<apiVars, inbox, streamVars, worker, verdict, commands,
                   faults, crashes>>

\* A worker's process ends.  Its entries stay pending in the group, where nobody
\* reads them; its commands go on.
WorkerEnds(w) ==
    LET S == {c \in Jobs : worker[c] = w /\ job[c] \notin {"acked", "dead"}}
    IN  /\ job' = [c \in Jobs |-> IF c \in S THEN "dead" ELSE job[c]]
        /\ podName' = [c \in Jobs |-> IF c \in S THEN NoPod ELSE podName[c]]
        /\ Lose({c \in S : call[c] # "refused"})
        /\ UNCHANGED <<apiVars, inbox, streamVars, worker, verdict, commands>>

\* XACK, whether processJob returned or threw.
Ack(c) ==
    /\ job[c] = "settled"
    /\ JobGoto(c, "acked")
    /\ UNCHANGED <<poolVars, apiVars, inbox, streamVars, worker, podName,
                   verdict, commands, faults, crashes>>

\* The XACK fails.  The one after processJob has returned is tried once more, in
\* the catch handler; a failure there is an unhandled rejection, and Node ends
\* the process.
AckFails(c) ==
    /\ job[c] = "settled"
    /\ Fault
    /\ \/ /\ verdict[c] # "threw"
          /\ verdict' = [verdict EXCEPT ![c] = "threw"]
          /\ UNCHANGED <<poolVars, apiVars, inbox, streamVars, job, worker,
                         podName, commands>>
       \/ verdict[c] = "threw" /\ WorkerEnds(worker[c])
    /\ UNCHANGED crashes

\* A worker ends by SIGTERM or otherwise.
WorkerCrash(w) ==
    /\ crashes < MaxCrashes
    /\ crashes' = crashes + 1
    /\ WorkerEnds(w)
    /\ UNCHANGED faults

-----------------------------------------------------------------------------
\* The lock of a pod lapses: the lease of a call whose worker crashed expires.
\* LEASE_TTL_SECONDS exceeds the time that a live call holds its pod.
LockLapses(p) ==
    /\ \E c \in Jobs : call[c] = "lost" /\ grant[c] = p
    /\ Lapse(p)
    /\ UNCHANGED <<apiVars, inbox, streamVars, workerVars, faults, crashes>>

AwaitResult(c) == AddEntry(c) \/ Published(c) \/ Subscribe(c) \/ Message(c)
                  \/ Timeout(c)

ProcessJob(c) == Acquired(c) \/ NotAcquired(c) \/ Ran(c) \/ PublishResult(c)
                 \/ ReleasePod(c) \/ NotifyFreed(c) \/ Catch(c) \/ Finally(c)
                 \/ Ack(c)

ToolCallNext ==
    \/ \E c \in Jobs : Execute(c) \/ AwaitResult(c) \/ Disconnect(c)
                      \/ ProcessJob(c) \/ AckFails(c)
    \/ \E c \in Jobs, w \in Workers : Deliver(c, w)
    \/ \E c \in Jobs, p \in Pods : CommandEnds(c, p)
    \/ \E w \in Workers : WorkerCrash(w)
    \/ \E p \in Pods : LockLapses(p)
    \/ EnsureGroup
    \/ ServerCrash

ToolCallSpec == ToolCallInit /\ [][ToolCallNext]_vars

\* Redis answers, both event loops run their continuations and timers, workers
\* read the stream, acquirePod answers and a tool ends or is timed out.
ToolCallFairness ==
    /\ \A c \in Jobs :
          /\ WF_vars(AwaitResult(c))
          /\ WF_vars(ProcessJob(c) \/ \E w \in Workers : Deliver(c, w))
    /\ WF_vars(EnsureGroup)

FairToolCallSpec == ToolCallSpec /\ ToolCallFairness

-----------------------------------------------------------------------------
(* Properties *)

\* processJob's "prevent double-release in finally" and "Safety net": whenever
\* it is about to call releasePod, the pod it names is one it still has, so it
\* never releases a pod that meanwhile belongs to another call.
ReleasesOwnPod ==
    \A c \in Jobs : job[c] \in {"release", "finally"} =>
        call[c] = "granted" /\ podName[c] = grant[c]

\* tests/integration/api.test.ts: two calls never share a pod.  The commands of
\* two calls never run in one pod at a time, not even that of a worker that
\* crashed and that of the next call, unless the pod's lock has lapsed.
CommandsExclusive ==
    \A p \in Pods \ lapsed : \A c, d \in commands[p] : c = d

\* Every pod that a call is given comes back to the pool, whichever of the
\* publishes fail on the way.
EveryPodReturned == \A c \in Jobs : call[c] = "granted" ~> call[c] # "granted"

\* README, "Queue behavior": a call that was published gets an answer, at its
\* deadline the capacity error.  It is checked for an API server whose own
\* commands do not fail: one that does may end it by an unhandled rejection.
EveryCallAnswered ==
    \A c \in Jobs : (caller[c] = "awaiting" /\ promise[c] = "pending")
                        ~> promise[c] \in Settled
=============================================================================
