--------------------------- MODULE ToolCallProofs ---------------------------
(***************************************************************************)
(* Proofs about ToolCall, for any number of calls, pods and workers and    *)
(* any bound on failed commands and crashes.                               *)
(***************************************************************************)
EXTENDS ToolCall, TLAPS

\* The steps of the API server, of Redis and of its connections touch no pod.
Outside(c) == Execute(c) \/ AwaitResult(c) \/ Disconnect(c)

LEMMA OutsideKeeps ==
    ASSUME NEW c \in Jobs, Outside(c) \/ EnsureGroup \/ ServerCrash
    PROVE  UNCHANGED <<poolVars, workerVars>>
BY DEF Outside, AwaitResult, Execute, AddEntry, Published, Subscribe,
       Disconnect, Message, Timeout, ServerCrash, EnsureGroup

-----------------------------------------------------------------------------
(* Types *)

\* The variables of the callers.
CallersTypeOK ==
    /\ caller \in [Jobs -> {"idle", "publishing", "published", "awaiting",
                            "threw", "lost"}]
    /\ promise \in [Jobs -> {"none", "pending"} \cup Settled]
    /\ listening \in [Jobs -> BOOLEAN]
    /\ inbox \in [Jobs -> Seq({"completed", "failed"})]
    /\ stream \in Seq(Jobs)
    /\ cursor \in {NoGroup} \cup (0 .. Len(stream))
    /\ faults \in 0 .. MaxFaults
    /\ crashes \in 0 .. MaxCrashes

\* The variables of the pool and of processJob.
JobsTypeOK ==
    /\ call \in [Jobs -> {"idle", "waiting", "granted", "returned", "refused",
                          "lost"}]
    /\ grant \in [Jobs -> Pods \cup {NoPod}]
    /\ lapsed \in SUBSET Pods
    /\ job \in [Jobs -> {"none", "acquiring", "running", "publish", "release",
                         "notify", "catch", "finally", "settled", "acked",
                         "dead"}]
    /\ worker \in [Jobs -> Workers \cup {NoWorker}]
    /\ podName \in [Jobs -> Pods \cup {NoPod}]
    /\ verdict \in [Jobs -> {"none", "completed", "failed", "threw"}]
    /\ commands \in [Pods -> SUBSET Jobs]

LEMMA TypeParts == TypeOK <=> CallersTypeOK /\ JobsTypeOK
BY DEF TypeOK, CallersTypeOK, JobsTypeOK

\* A failed command is counted within its bound.
LEMMA FaultCounts ==
    ASSUME CallersTypeOK, Fault PROVE faults' \in 0 .. MaxFaults
BY ToolCallAssumption DEF CallersTypeOK, Fault

LEMMA RejectKeepsTypes ==
    ASSUME CallersTypeOK, NEW c \in Jobs, NEW why \in Settled, Reject(c, why)
    PROVE  /\ caller' \in [Jobs -> {"idle", "publishing", "published",
                                    "awaiting", "threw", "lost"}]
           /\ promise' \in [Jobs -> {"none", "pending"} \cup Settled]
           /\ listening' \in [Jobs -> BOOLEAN]
           /\ inbox' \in [Jobs -> Seq({"completed", "failed"})]
<1> USE DEF CallersTypeOK, Settled
<1>1. CASE caller[c] = "awaiting"
  BY <1>1 DEF Reject
<1>2. CASE caller[c] # "awaiting"
  <2> DEFINE pr == [promise EXCEPT ![c] = why]
  <2>1. ServerEnds(pr)
    BY <1>2 DEF Reject
  <2>2. pr \in [Jobs -> {"none", "pending"} \cup Settled]
    OBVIOUS
  <2> HIDE DEF pr
  <2>3. QED BY <2>1, <2>2 DEF ServerEnds
<1>3. QED BY <1>1, <1>2

LEMMA OutsideTypes ==
    ASSUME CallersTypeOK, NEW c \in Jobs, Outside(c) \/ EnsureGroup \/ ServerCrash
    PROVE  CallersTypeOK'
<1> USE DEF CallersTypeOK, apiVars, streamVars
<1>1. CASE Execute(c)
  BY <1>1 DEF Execute
<1>2. CASE AddEntry(c)
  <2>1. stream' \in Seq(Jobs) /\ Len(stream') = Len(stream) + 1
    BY <1>2 DEF AddEntry
  <2>2. cursor' \in {NoGroup} \cup (0 .. Len(stream'))
    BY <1>2, <2>1 DEF AddEntry, NoGroup
  <2>3. QED BY <1>2, <2>1, <2>2 DEF AddEntry
<1>3. CASE Published(c)
  BY <1>3, FaultCounts DEF Published
<1>4. CASE Subscribe(c)
  <2>1. CASE listening' = [listening EXCEPT ![c] = TRUE]
             /\ UNCHANGED <<caller, promise, inbox, faults>>
    BY <1>4, <2>1 DEF Subscribe
  <2>2. CASE Fault /\ Reject(c, "error")
    BY <1>4, <2>2, FaultCounts, RejectKeepsTypes DEF Subscribe, Settled
  <2>3. QED BY <1>4, <2>1, <2>2 DEF Subscribe
<1>5. CASE Disconnect(c)
  BY <1>5, FaultCounts DEF Disconnect
<1>6. CASE Message(c)
  <2>1. /\ Head(inbox[c]) \in {"completed", "failed"}
        /\ Tail(inbox[c]) \in Seq({"completed", "failed"})
    BY <1>6 DEF Message
  <2>2. QED BY <1>6, <2>1 DEF Message, Settled
<1>7. CASE Timeout(c)
  BY <1>7, RejectKeepsTypes DEF Timeout, Settled
<1>8. CASE EnsureGroup
  <2>1. Len(stream) \in Nat
    OBVIOUS
  <2>2. QED BY <1>8, <2>1 DEF EnsureGroup
<1>9. CASE ServerCrash
  BY <1>9, ToolCallAssumption DEF ServerCrash, ServerEnds
<1>10. QED
  BY <1>1, <1>2, <1>3, <1>4, <1>5, <1>6, <1>7, <1>8, <1>9
     DEF Outside, AwaitResult

\* What the workers publish is a result, and goes to who listens.
LEMMA PublishTypes ==
    ASSUME CallersTypeOK, NEW c \in Jobs, NEW s \in {"completed", "failed"},
           NEW ok \in BOOLEAN, Publish(c, s, ok)
    PROVE  /\ inbox' \in [Jobs -> Seq({"completed", "failed"})]
           /\ faults' \in 0 .. MaxFaults
<1>1. Append(inbox[c], s) \in Seq({"completed", "failed"})
  BY DEF CallersTypeOK
<1>2. QED BY <1>1, FaultCounts DEF Publish, CallersTypeOK

-----------------------------------------------------------------------------
(* The inductive invariant *)

\* What processJob knows of the pool at each of its steps.
JobOK(c) ==
    /\ job[c] = "none" => call[c] = "idle" /\ podName[c] = NoPod
    /\ job[c] = "acquiring" => call[c] = "waiting" /\ podName[c] = NoPod
    /\ job[c] \in {"running", "publish", "release", "finally"} =>
           call[c] = "granted" /\ podName[c] = grant[c] /\ grant[c] \in Pods
    /\ job[c] = "notify" => call[c] = "returned" /\ podName[c] = NoPod
    /\ job[c] = "catch" =>
           \/ podName[c] = NoPod /\ call[c] \in {"refused", "returned"}
           \/ call[c] = "granted" /\ podName[c] = grant[c] /\ grant[c] \in Pods
    /\ job[c] = "publish" => verdict[c] \in {"completed", "failed"}
    /\ call[c] = "lost" => job[c] = "dead"

\* Every call has one entry, and nothing is known of those not delivered yet.
StreamOK ==
    /\ \A i, j \in 1 .. Len(stream) : stream[i] = stream[j] => i = j
    /\ \A i \in 1 .. Len(stream) : caller[stream[i]] \notin {"idle", "publishing"}
    /\ \A i \in 1 .. Len(stream) : i > cursor => job[stream[i]] = "none"
    /\ \A c \in Jobs : caller[c] \in {"idle", "publishing"} => job[c] = "none"

\* A pod whose lock holds is granted once, and runs the command of that call.
PodsOK ==
    /\ \A c, d \in Jobs : grant[c] = grant[d] /\ grant[c] \in Pods \ lapsed => c = d
    /\ ~SlowTools =>
          \A p \in Pods \ lapsed : \A c \in commands[p] :
              grant[c] = p /\ job[c] \in {"running", "dead"}

ToolCallInv == TypeOK /\ StreamOK /\ PodsOK /\ \A c \in Jobs : JobOK(c)

LEMMA JobTypes ==
    ASSUME TypeOK, NEW c \in Jobs, JobOK(c), ProcessJob(c)
    PROVE  TypeOK'
<1> USE DEF TypeOK, JobGoto, streamVars, apiVars
<1>1. CASE Acquired(c)
  BY <1>1 DEF Acquired, Grant
<1>2. CASE NotAcquired(c)
  BY <1>2 DEF NotAcquired, Refuse
<1>3. CASE Ran(c)
  <2>1. commands' \in [Pods -> SUBSET Jobs]
    <3>1. commands' = commands \/ StopCommand(c)
      BY <1>3 DEF Ran
    <3>2. commands[podName[c]] \in SUBSET Jobs
      BY <1>3 DEF Ran, JobOK
    <3>3. CASE StopCommand(c)
      BY <3>2, <3>3 DEF StopCommand
    <3>4. QED BY <3>1, <3>3
  <2>2. /\ verdict' \in [Jobs -> {"none", "completed", "failed", "threw"}]
        /\ \E pc \in {"publish", "catch"} : job' = [job EXCEPT ![c] = pc]
    <3>1. CASE /\ \E s \in {"completed", "failed"} :
                      verdict' = [verdict EXCEPT ![c] = s]
               /\ JobGoto(c, "publish")
      BY <3>1
    <3>2. CASE verdict' = [verdict EXCEPT ![c] = "failed"] /\ JobGoto(c, "catch")
      BY <3>2
    <3>3. QED BY ONLY <1>3, <3>1, <3>2 DEF Ran
  <2>3. UNCHANGED <<poolVars, apiVars, inbox, streamVars, worker, podName,
                    faults, crashes>>
    BY <1>3 DEF Ran
  <2>4. QED BY <2>1, <2>2, <2>3 DEF poolVars
<1>4. CASE PublishResult(c)
  <2>1. PICK ok \in BOOLEAN :
            /\ Publish(c, verdict[c], ok)
            /\ JobGoto(c, IF ok THEN "release" ELSE "catch")
    BY <1>4 DEF PublishResult
  <2>2. verdict[c] \in {"completed", "failed"}
    BY <1>4 DEF PublishResult, JobOK
  <2>3. CallersTypeOK
    BY TypeParts
  <2>4. inbox' \in [Jobs -> Seq({"completed", "failed"})] /\ faults' \in 0 .. MaxFaults
    BY ONLY <2>1, <2>2, <2>3, PublishTypes
  <2>5. \E pc \in {"release", "catch"} : job' = [job EXCEPT ![c] = pc]
    BY <2>1
  <2>6. QED
    BY <1>4, <2>4, <2>5 DEF PublishResult, poolVars
<1>5. CASE ReleasePod(c)
  <2>1. /\ call' \in [Jobs -> {"idle", "waiting", "granted", "returned",
                               "refused", "lost"}]
        /\ grant' \in [Jobs -> Pods \cup {NoPod}]
        /\ podName' \in [Jobs -> Pods \cup {NoPod}]
    BY <1>5 DEF ReleasePod, Return, ForgetPod
  <2>2. job' \in [Jobs -> {"none", "acquiring", "running", "publish", "release",
                           "notify", "catch", "finally", "settled", "acked",
                           "dead"}]
    BY <1>5 DEF ReleasePod
  <2>3. UNCHANGED <<lapsed, apiVars, inbox, streamVars, worker, verdict,
                    commands, faults, crashes>>
    BY ONLY <1>5 DEF ReleasePod, Return
  <2>4. QED BY <2>1, <2>2, <2>3
<1>6. CASE NotifyFreed(c)
  <2>1. faults' \in 0 .. MaxFaults
    BY <1>6, ToolCallAssumption DEF NotifyFreed, Fault
  <2>2. \E pc \in {"settled", "catch"} : job' = [job EXCEPT ![c] = pc]
    BY <1>6 DEF NotifyFreed
  <2>3. QED BY <1>6, <2>1, <2>2 DEF NotifyFreed, poolVars
<1>7. CASE Catch(c)
  <2>1. PICK ok \in BOOLEAN :
            /\ Publish(c, "failed", ok)
            /\ verdict' = [verdict EXCEPT ![c] = IF ok THEN @ ELSE "threw"]
    BY <1>7 DEF Catch
  <2>2. inbox' \in [Jobs -> Seq({"completed", "failed"})] /\ faults' \in 0 .. MaxFaults
    BY <2>1, PublishTypes, TypeParts
  <2>3. verdict' \in [Jobs -> {"none", "completed", "failed", "threw"}]
    BY <2>1
  <2>4. job' \in [Jobs -> {"none", "acquiring", "running", "publish", "release",
                           "notify", "catch", "finally", "settled", "acked",
                           "dead"}]
    BY <1>7 DEF Catch, AfterCatch
  <2>5. QED BY <1>7, <2>2, <2>3, <2>4 DEF Catch, poolVars
<1>8. CASE Finally(c)
  BY <1>8 DEF Finally, Return, ForgetPod
<1>9. CASE Ack(c)
  BY <1>9 DEF Ack, poolVars
<1>10. QED
  BY <1>1, <1>2, <1>3, <1>4, <1>5, <1>6, <1>7, <1>8, <1>9 DEF ProcessJob

\* A command ends, an entry is delivered, a pod's lock lapses.
LEMMA OtherTypes ==
    ASSUME TypeOK,
           \/ \E c \in Jobs, w \in Workers : Deliver(c, w)
           \/ \E c \in Jobs, p \in Pods : CommandEnds(c, p)
           \/ \E p \in Pods : LockLapses(p)
    PROVE  TypeOK'
<1> USE DEF TypeOK, streamVars, apiVars, workerVars, poolVars
<1>1. ASSUME NEW c \in Jobs, NEW w \in Workers, Deliver(c, w)
      PROVE  TypeOK'
  <2>1. cursor' \in {NoGroup} \cup (0 .. Len(stream'))
    <3>1. Len(stream) \in Nat
      OBVIOUS
    <3>2. QED BY <1>1, <3>1 DEF Deliver, NoGroup
  <2>2. faults' \in 0 .. MaxFaults
    BY <1>1, ToolCallAssumption DEF Deliver, Fault
  <2>3. UNCHANGED <<apiVars, inbox, stream, podName, verdict, commands, crashes>>
    BY ONLY <1>1 DEF Deliver
  <2>4. worker' = [worker EXCEPT ![c] = w]
    BY <1>1 DEF Deliver
  <2>5. CASE job' = [job EXCEPT ![c] = "acquiring"] /\ Ask(c)
    BY <2>1, <2>2, <2>3, <2>4, <2>5 DEF Ask
  <2>6. CASE job' = [job EXCEPT ![c] = "dead"] /\ UNCHANGED poolVars
    BY <2>1, <2>2, <2>3, <2>4, <2>6
  <2>7. QED BY <1>1, <2>5, <2>6 DEF Deliver
<1>2. ASSUME NEW c \in Jobs, NEW p \in Pods, CommandEnds(c, p)
      PROVE  TypeOK'
  <2>1. commands' \in [Pods -> SUBSET Jobs]
    BY <1>2 DEF CommandEnds
  <2>2. QED BY <1>2, <2>1 DEF CommandEnds
<1>3. ASSUME NEW p \in Pods, LockLapses(p)
      PROVE  TypeOK'
  BY <1>3 DEF LockLapses, Lapse
<1>4. QED BY <1>1, <1>2, <1>3

-----------------------------------------------------------------------------
(* The steps keep the invariant *)

\* What each step of processJob does to the call's job, and what it does not.
LEMMA JobKeeps ==
    ASSUME NEW c \in Jobs, ProcessJob(c)
    PROVE  /\ UNCHANGED <<caller, stream, cursor>>
           /\ job[c] # "none"
           /\ \E pc \in {"acquiring", "running", "publish", "release", "notify",
                         "catch", "finally", "settled", "acked", "dead"} :
                  job' = [job EXCEPT ![c] = pc]
<1> USE DEF apiVars, streamVars, JobGoto
<1>1. CASE Acquired(c)
  BY <1>1 DEF Acquired
<1>2. CASE NotAcquired(c)
  BY <1>2 DEF NotAcquired
<1>3. CASE Ran(c)
  BY <1>3 DEF Ran
<1>4. CASE PublishResult(c)
  BY <1>4 DEF PublishResult
<1>5. CASE ReleasePod(c)
  BY <1>5 DEF ReleasePod
<1>6. CASE NotifyFreed(c)
  BY <1>6 DEF NotifyFreed
<1>7. CASE Catch(c)
  BY <1>7 DEF Catch, AfterCatch
<1>8. CASE Finally(c)
  BY <1>8 DEF Finally
<1>9. CASE Ack(c)
  BY <1>9 DEF Ack
<1>10. QED
  BY <1>1, <1>2, <1>3, <1>4, <1>5, <1>6, <1>7, <1>8, <1>9 DEF ProcessJob

LEMMA JobKeepsStream ==
    ASSUME TypeOK, StreamOK, NEW c \in Jobs, ProcessJob(c)
    PROVE  StreamOK'
<1>1. \A d \in Jobs : job[d] = "none" => job'[d] = "none"
  BY JobKeeps DEF TypeOK
<1>2. \A i \in 1 .. Len(stream) : stream[i] \in Jobs
  BY DEF TypeOK
<1>3. QED BY <1>1, <1>2, JobKeeps DEF StreamOK

\* The job of another call is not touched.
LEMMA JobKeepsOthers ==
    ASSUME TypeOK, NEW c \in Jobs, ProcessJob(c), NEW d \in Jobs, d # c
    PROVE  /\ job'[d] = job[d] /\ call'[d] = call[d] /\ grant'[d] = grant[d]
           /\ podName'[d] = podName[d] /\ verdict'[d] = verdict[d]
<1> USE DEF TypeOK, JobGoto, poolVars
<1>0. job'[d] = job[d]
  BY JobKeeps
<1>1. CASE Acquired(c)
  BY <1>0, <1>1 DEF Acquired, Grant
<1>2. CASE NotAcquired(c)
  BY <1>0, <1>2 DEF NotAcquired, Refuse
<1>3. CASE Ran(c)
  BY <1>0, <1>3 DEF Ran
<1>4. CASE PublishResult(c)
  BY <1>0, <1>4 DEF PublishResult
<1>5. CASE ReleasePod(c)
  BY <1>0, <1>5 DEF ReleasePod, Return, ForgetPod
<1>6. CASE NotifyFreed(c)
  BY <1>0, <1>6 DEF NotifyFreed
<1>7. CASE Catch(c)
  BY <1>0, <1>7 DEF Catch
<1>8. CASE Finally(c)
  BY <1>0, <1>8 DEF Finally, Return, ForgetPod
<1>9. CASE Ack(c)
  BY <1>0, <1>9 DEF Ack
<1>10. QED
  BY <1>1, <1>2, <1>3, <1>4, <1>5, <1>6, <1>7, <1>8, <1>9 DEF ProcessJob

\* A step of processJob leaves the call where its next step expects it.
LEMMA JobKeepsOwn ==
    ASSUME TypeOK, NEW c \in Jobs, JobOK(c), ProcessJob(c)
    PROVE  JobOK(c)'
<1> USE DEF TypeOK, JobOK, JobGoto, poolVars
<1>0. NoPod \notin Pods
  BY NoPodAssumption
<1>1. CASE Acquired(c)
  BY <1>1 DEF Acquired, Grant
<1>2. CASE NotAcquired(c)
  BY <1>2 DEF NotAcquired, Refuse
<1>3. CASE Ran(c)
  <2>1. CASE /\ \E s \in {"completed", "failed"} :
                    verdict' = [verdict EXCEPT ![c] = s]
             /\ JobGoto(c, "publish")
    BY <1>3, <2>1 DEF Ran
  <2>2. CASE verdict' = [verdict EXCEPT ![c] = "failed"] /\ JobGoto(c, "catch")
    BY <1>3, <2>2 DEF Ran
  <2>3. QED BY ONLY <1>3, <2>1, <2>2 DEF Ran
<1>4. CASE PublishResult(c)
  BY <1>4 DEF PublishResult
<1>5. CASE ReleasePod(c)
  BY <1>5 DEF ReleasePod, Return, ForgetPod
<1>6. CASE NotifyFreed(c)
  BY <1>6 DEF NotifyFreed
<1>7. CASE Catch(c)
  BY <1>0, <1>7 DEF Catch, AfterCatch
<1>8. CASE Finally(c)
  BY <1>8 DEF Finally, Return, ForgetPod
<1>9. CASE Ack(c)
  BY <1>9 DEF Ack
<1>10. QED
  BY <1>1, <1>2, <1>3, <1>4, <1>5, <1>6, <1>7, <1>8, <1>9 DEF ProcessJob

\* The commands of the pods change only where c's command starts or stops.
LEMMA JobKeepsPods ==
    ASSUME TypeOK, PodsOK, NEW c \in Jobs, JobOK(c), ProcessJob(c)
    PROVE  PodsOK'
<1> DEFINE Running(p, d) == grant[d] = p /\ job[d] \in {"running", "dead"}
<1>0. NoPod \notin Pods
  BY NoPodAssumption
<1>1. CASE Acquired(c)
  <2>1. PICK p \in Pods : Grant(c, p) /\ commands' = [commands EXCEPT ![p] = @ \cup {c}]
    BY <1>1 DEF Acquired
  <2>2. /\ grant' = [grant EXCEPT ![c] = p] /\ lapsed' = lapsed
        /\ p \in lapsed \/ \A i \in Jobs : grant[i] # p
        /\ job' = [job EXCEPT ![c] = "running"]
        /\ job[c] = "acquiring"
    BY <1>1, <2>1 DEF Grant, Acquired, JobGoto
  <2>3. \A d, e \in Jobs :
            grant'[d] = grant'[e] /\ grant'[d] \in Pods \ lapsed' => d = e
    BY <2>2 DEF PodsOK, TypeOK
  <2>4. ASSUME ~SlowTools, NEW q \in Pods \ lapsed', NEW d \in commands'[q]
        PROVE  Running(q, d)'
    <3>1. CASE d \in commands[q]
      <4>1. Running(q, d) /\ d \in Jobs
        BY <2>2, <2>4, <3>1 DEF PodsOK, TypeOK
      <4>2. d # c
        BY <2>2, <4>1
      <4>3. QED BY <2>2, <4>1, <4>2 DEF TypeOK
    <3>2. CASE d \notin commands[q]
      <4>1. q = p /\ d = c
        BY <2>1, <3>2, <2>4 DEF TypeOK
      <4>2. QED BY <2>2, <4>1 DEF TypeOK
    <3>3. QED BY <3>1, <3>2
  <2>5. QED BY <2>3, <2>4 DEF PodsOK
<1>2. CASE Ran(c)
  <2>1. grant' = grant /\ lapsed' = lapsed /\ job[c] = "running"
    BY <1>2 DEF Ran, poolVars
  <2>2. grant[c] = podName[c] /\ grant[c] \in Pods
    BY <2>1 DEF JobOK
  <2>3. ASSUME ~SlowTools, NEW q \in Pods \ lapsed', NEW d \in commands'[q]
        PROVE  Running(q, d)'
    <3>1. commands' = [commands EXCEPT ![podName[c]] = @ \ {c}]
      BY <1>2, <2>3 DEF Ran, StopCommand
    <3>2. d \in commands[q]
      BY <2>3, <3>1, <2>2 DEF TypeOK
    <3>3. Running(q, d) /\ d \in Jobs
      BY <2>1, <2>3, <3>2 DEF PodsOK, TypeOK
    <3>4. d # c
      BY <2>2, <2>3, <3>1, <3>3 DEF TypeOK
    <3>5. QED
      BY <1>2, <2>1, <3>3, <3>4, JobKeepsOthers
  <2>4. QED BY <2>1, <2>3 DEF PodsOK
<1>3. CASE ReleasePod(c) \/ Finally(c)
  <2>1. /\ grant' = [grant EXCEPT ![c] = NoPod] /\ lapsed' = lapsed
        /\ commands' = commands /\ job[c] \in {"release", "finally"}
    BY <1>3 DEF ReleasePod, Finally, Return
  <2>2. \A d, e \in Jobs :
            grant'[d] = grant'[e] /\ grant'[d] \in Pods \ lapsed' => d = e
    BY <1>0, <2>1 DEF PodsOK, TypeOK
  <2>3. ASSUME ~SlowTools, NEW q \in Pods \ lapsed', NEW d \in commands'[q]
        PROVE  Running(q, d)'
    <3>1. Running(q, d) /\ d \in Jobs
      BY <2>1, <2>3 DEF PodsOK, TypeOK
    <3>2. d # c
      BY <2>1, <3>1
    <3>3. QED BY <3>1, <3>2, JobKeepsOthers
  <2>4. QED BY <2>2, <2>3 DEF PodsOK
<1>4. CASE \/ NotAcquired(c) \/ PublishResult(c) \/ NotifyFreed(c)
           \/ Catch(c) \/ Ack(c)
  <2>1. grant' = grant /\ lapsed' = lapsed /\ commands' = commands
    BY <1>4 DEF NotAcquired, Refuse, PublishResult, NotifyFreed, Catch, Ack,
                poolVars
  <2>2. job[c] \in {"acquiring", "publish", "notify", "catch", "settled"}
    BY <1>4 DEF NotAcquired, PublishResult, NotifyFreed, Catch, Ack
  <2>3. ASSUME ~SlowTools, NEW q \in Pods \ lapsed', NEW d \in commands'[q]
        PROVE  Running(q, d)'
    <3>1. Running(q, d) /\ d \in Jobs
      BY <2>1, <2>3 DEF PodsOK, TypeOK
    <3>2. d # c
      BY <2>2, <3>1
    <3>3. QED BY <3>1, <3>2, JobKeepsOthers
  <2>4. QED BY <2>1, <2>3 DEF PodsOK
<1>5. QED BY <1>1, <1>2, <1>3, <1>4 DEF ProcessJob

\* The API server learns of no pod, and its calls only move forward.
LEMMA OutsideKeepsInv ==
    ASSUME ToolCallInv, NEW c \in Jobs, Outside(c) \/ EnsureGroup \/ ServerCrash
    PROVE  ToolCallInv'
<1> USE DEF ToolCallInv
<1>1. TypeOK'
  <2>1. CallersTypeOK /\ JobsTypeOK
    BY TypeParts
  <2>2. CallersTypeOK'
    BY <2>1, OutsideTypes
  <2>3. JobsTypeOK'
    BY <2>1, OutsideKeeps DEF JobsTypeOK, poolVars, workerVars
  <2>4. QED BY <2>2, <2>3 DEF TypeOK, CallersTypeOK, JobsTypeOK
<1>2. UNCHANGED <<call, grant, lapsed, job, podName, verdict, commands>>
  BY OutsideKeeps DEF poolVars, workerVars
<1>3. PodsOK' /\ \A d \in Jobs : JobOK(d)'
  BY <1>2 DEF PodsOK, JobOK
<1>4. StreamOK'
  <2>1. CASE AddEntry(c)
    <3>1. /\ stream \in Seq(Jobs) /\ stream' = Append(stream, c)
          /\ caller[c] = "publishing"
          /\ caller' = [caller EXCEPT ![c] = "published"]
          /\ cursor' = cursor
      BY <2>1 DEF AddEntry, TypeOK
    <3>2. /\ Len(stream') = Len(stream) + 1 /\ stream'[Len(stream) + 1] = c
          /\ \A i \in 1 .. Len(stream) : stream'[i] = stream[i]
          /\ \A i \in 1 .. Len(stream) : stream[i] \in Jobs
          /\ Len(stream) \in Nat
      BY <3>1
    <3>3. \A i \in 1 .. Len(stream) : stream[i] # c
      BY <3>1 DEF StreamOK
    <3>4. \A i, j \in 1 .. Len(stream') : stream'[i] = stream'[j] => i = j
      BY <3>2, <3>3 DEF StreamOK
    <3>5. \A i \in 1 .. Len(stream') : caller'[stream'[i]] \notin {"idle", "publishing"}
      <4>1. \A d \in Jobs : caller'[d] = IF d = c THEN "published" ELSE caller[d]
        BY <3>1 DEF TypeOK
      <4>2. ASSUME NEW i \in 1 .. Len(stream')
            PROVE  caller'[stream'[i]] \notin {"idle", "publishing"}
        <5>1. CASE i = Len(stream) + 1
          BY <3>2, <4>1, <5>1
        <5>2. CASE i # Len(stream) + 1
          <6>1. i \in 1 .. Len(stream) /\ stream'[i] = stream[i]
            BY <3>2, <5>2
          <6>2. QED BY <3>2, <3>3, <4>1, <6>1 DEF StreamOK
        <5>3. QED BY <5>1, <5>2
      <4>3. QED BY <4>2
    <3>6. \A i \in 1 .. Len(stream') : i > cursor' => job'[stream'[i]] = "none"
      <4>1. job'[c] = "none"
        BY <1>2, <3>1 DEF StreamOK
      <4>2. ASSUME NEW i \in 1 .. Len(stream'), i > cursor'
            PROVE  job'[stream'[i]] = "none"
        <5>1. CASE i = Len(stream) + 1
          BY <3>2, <4>1, <5>1
        <5>2. CASE i # Len(stream) + 1
          <6>1. i \in 1 .. Len(stream) /\ i > cursor /\ stream'[i] = stream[i]
            BY <3>1, <3>2, <4>2, <5>2
          <6>2. QED BY <1>2, <6>1 DEF StreamOK
        <5>3. QED BY <5>1, <5>2
      <4>3. QED BY <4>2
    <3>7. \A d \in Jobs : caller'[d] \in {"idle", "publishing"} => job'[d] = "none"
      BY <1>2, <3>1 DEF StreamOK, TypeOK
    <3>8. QED BY <3>4, <3>5, <3>6, <3>7 DEF StreamOK
  <2>2. CASE ~AddEntry(c)
    <3>1. stream' = stream
      BY <2>2 DEF Outside, AwaitResult, Execute, Published, Subscribe, Disconnect,
                  Message, Timeout, ServerCrash, EnsureGroup, streamVars
    <3>2. \A d \in Jobs : caller'[d] \in {"idle", "publishing"} =>
              caller[d] \in {"idle", "publishing"}
      BY <2>2 DEF Outside, AwaitResult, Execute, Published, Subscribe, Disconnect,
                  Message, Timeout, Reject, ServerEnds, ServerCrash, EnsureGroup,
                  apiVars, TypeOK
    <3>3. cursor' = cursor \/ EnsureGroup
      BY <2>2 DEF Outside, AwaitResult, Execute, Published, Subscribe, Disconnect,
                  Message, Timeout, ServerCrash, streamVars
    <3>4. \A i \in 1 .. Len(stream) : stream[i] \in Jobs
      BY DEF TypeOK
    <3>5. \A i \in 1 .. Len(stream') : i > cursor' => job'[stream'[i]] = "none"
      BY <1>2, <3>1, <3>3 DEF StreamOK, EnsureGroup, TypeOK
    <3>6. QED BY <1>2, <3>1, <3>2, <3>4, <3>5 DEF StreamOK
  <2>3. QED BY <2>1, <2>2
<1>5. QED BY <1>1, <1>3, <1>4

\* The delivered entry is that of a call of which no worker knows.
LEMMA DeliverKeepsInv ==
    ASSUME ToolCallInv, NEW c \in Jobs, NEW w \in Workers, Deliver(c, w)
    PROVE  ToolCallInv'
<1> USE DEF ToolCallInv
<1>1. TypeOK'
  BY OtherTypes
<1>2. /\ cursor < Len(stream) /\ stream[cursor + 1] = c /\ cursor' = cursor + 1
      /\ cursor + 1 \in 1 .. Len(stream)
      /\ UNCHANGED <<caller, stream, grant, lapsed, podName, verdict, commands>>
  BY DEF Deliver, Ask, poolVars, apiVars, NoGroup, TypeOK
<1>3. job[c] = "none" /\ caller[c] \notin {"idle", "publishing"}
  <2>1. cursor \in Int
    BY DEF TypeOK, NoGroup
  <2>2. cursor + 1 > cursor
    BY <2>1
  <2>3. QED BY <1>2, <2>2 DEF StreamOK
<1>4. call[c] = "idle" /\ podName[c] = NoPod
  BY <1>3 DEF JobOK
<1>5. \/ /\ job' = [job EXCEPT ![c] = "acquiring"]
         /\ call' = [call EXCEPT ![c] = "waiting"]
      \/ /\ job' = [job EXCEPT ![c] = "dead"]
         /\ call' = call
  BY DEF Deliver, Ask, poolVars
<1>6. ASSUME NEW d \in Jobs PROVE JobOK(d)'
  <2>1. CASE d = c
    BY <1>2, <1>4, <1>5, <2>1 DEF JobOK, TypeOK
  <2>2. CASE d # c
    <3>1. /\ job'[d] = job[d] /\ call'[d] = call[d] /\ grant'[d] = grant[d]
          /\ podName'[d] = podName[d] /\ verdict'[d] = verdict[d]
      BY <1>2, <1>5, <2>2 DEF TypeOK
    <3>2. QED BY <3>1 DEF JobOK
  <2>3. QED BY <2>1, <2>2
<1>7. PodsOK'
  <2>1. ASSUME ~SlowTools, NEW q \in Pods \ lapsed, NEW d \in commands[q]
        PROVE  grant[d] = q /\ job'[d] \in {"running", "dead"}
    <3>1. d \in Jobs /\ grant[d] = q /\ job[d] \in {"running", "dead"}
      BY <2>1 DEF PodsOK, TypeOK
    <3>2. d # c
      BY <1>3, <3>1
    <3>3. QED BY <1>5, <3>1, <3>2 DEF TypeOK
  <2>2. QED BY <1>2, <2>1 DEF PodsOK
<1>8. StreamOK'
  <2>1. \A i \in 1 .. Len(stream) : stream[i] \in Jobs /\ i \in Nat
    BY DEF TypeOK
  <2>2. \A i \in 1 .. Len(stream) : i > cursor + 1 => stream[i] # c /\ i > cursor
    <3>1. cursor \in Int
      BY DEF TypeOK, NoGroup
    <3>2. QED BY <1>2, <2>1, <3>1 DEF StreamOK
  <2>3. \A i \in 1 .. Len(stream) : i > cursor + 1 => job'[stream[i]] = "none"
    BY <1>5, <2>1, <2>2 DEF StreamOK, TypeOK
  <2>4. \A d \in Jobs : caller[d] \in {"idle", "publishing"} => job'[d] = "none"
    BY <1>3, <1>5 DEF StreamOK, TypeOK
  <2>5. QED BY <1>2, <2>3, <2>4 DEF StreamOK
<1>9. QED BY <1>1, <1>6, <1>7, <1>8

LEMMA CommandEndsKeepsInv ==
    ASSUME ToolCallInv, NEW c \in Jobs, NEW p \in Pods, CommandEnds(c, p)
    PROVE  ToolCallInv'
<1> USE DEF ToolCallInv
<1>1. TypeOK'
  BY OtherTypes
<1>2. /\ \A q \in Pods : commands'[q] \subseteq commands[q]
      /\ UNCHANGED <<caller, stream, cursor, call, grant, lapsed, job, podName,
                     verdict>>
  BY DEF CommandEnds, poolVars, apiVars, streamVars, TypeOK
<1>3. PodsOK'
  BY <1>2 DEF PodsOK
<1>4. StreamOK' /\ \A d \in Jobs : JobOK(d)'
  BY <1>2 DEF StreamOK, JobOK
<1>5. QED BY <1>1, <1>3, <1>4

\* A worker that ends leaves its pods granted to calls that are lost.
LEMMA CrashKeepsInv ==
    ASSUME ToolCallInv, NEW w, WorkerEnds(w),
           faults' \in 0 .. MaxFaults, crashes' \in 0 .. MaxCrashes
    PROVE  ToolCallInv'
<1> USE DEF ToolCallInv
<1> DEFINE S == {c \in Jobs : worker[c] = w /\ job[c] \notin {"acked", "dead"}}
           L == {c \in S : call[c] # "refused"}
<1>1. TypeOK'
  <2>1. /\ job' \in [Jobs -> {"none", "acquiring", "running", "publish",
                              "release", "notify", "catch", "finally",
                              "settled", "acked", "dead"}]
        /\ podName' \in [Jobs -> Pods \cup {NoPod}]
    BY DEF WorkerEnds, TypeOK
  <2>2. /\ call' \in [Jobs -> {"idle", "waiting", "granted", "returned",
                               "refused", "lost"}]
        /\ grant' \in [Jobs -> Pods \cup {NoPod}]
        /\ lapsed' = lapsed
    BY DEF WorkerEnds, Lose, TypeOK
  <2>3. UNCHANGED <<apiVars, inbox, streamVars, worker, verdict, commands>>
    BY DEF WorkerEnds
  <2>4. QED BY <2>1, <2>2, <2>3 DEF TypeOK, apiVars, streamVars
<1>2. /\ \A c \in Jobs : job'[c] = IF c \in S THEN "dead" ELSE job[c]
      /\ \A c \in Jobs : podName'[c] = IF c \in S THEN NoPod ELSE podName[c]
      /\ \A c \in Jobs : call'[c] = IF c \in L THEN "lost" ELSE call[c]
      /\ \A c \in L : call[c] \in {"waiting", "granted", "returned"}
      /\ \A c \in Jobs : \/ grant'[c] = grant[c]
                         \/ grant[c] \in lapsed /\ grant'[c] = NoPod
      /\ \A c \in Jobs : c \notin L => grant'[c] = grant[c]
      /\ UNCHANGED <<caller, stream, cursor, lapsed, verdict, commands>>
  BY DEF WorkerEnds, Lose, apiVars, streamVars
<1> HIDE DEF S, L
<1>3. L \subseteq S
  BY DEF L
<1>4. \A c \in S : job[c] # "none" /\ c \in Jobs
  <2> SUFFICES ASSUME NEW c \in S PROVE job[c] # "none" /\ c \in Jobs
    OBVIOUS
  <2>1. c \in Jobs /\ (c \in L \/ call[c] = "refused")
    BY DEF S, L
  <2>2. call[c] # "idle"
    BY <1>2, <2>1
  <2>3. QED BY <2>1, <2>2 DEF JobOK
<1>5. ASSUME NEW c \in Jobs PROVE JobOK(c)'
  <2>1. CASE c \in S
    BY <1>2, <2>1 DEF JobOK
  <2>2. CASE c \notin S
    <3>1. /\ job'[c] = job[c] /\ call'[c] = call[c] /\ grant'[c] = grant[c]
          /\ podName'[c] = podName[c] /\ verdict'[c] = verdict[c]
      BY <1>2, <1>3, <2>2
    <3>2. QED BY <3>1 DEF JobOK
  <2>3. QED BY <2>1, <2>2
<1>6. PodsOK'
  <2>1. \A c \in Jobs : grant'[c] \in Pods \ lapsed => grant'[c] = grant[c]
    BY <1>2, NoPodAssumption
  <2>2. \A c, d \in Jobs :
            grant'[c] = grant'[d] /\ grant'[c] \in Pods \ lapsed => c = d
    BY <2>1 DEF PodsOK
  <2>3. ASSUME ~SlowTools, NEW q \in Pods \ lapsed, NEW d \in commands[q]
        PROVE  grant'[d] = q /\ job'[d] \in {"running", "dead"}
    <3>1. d \in Jobs /\ grant[d] = q /\ job[d] \in {"running", "dead"}
      BY <2>3 DEF PodsOK, TypeOK
    <3>2. grant[d] \notin lapsed
      BY <3>1
    <3>3. QED BY <1>2, <3>1, <3>2
  <2>4. QED BY <1>2, <2>2, <2>3 DEF PodsOK
<1>7. StreamOK'
  <2>1. \A c \in Jobs : job[c] = "none" => job'[c] = "none"
    BY <1>2, <1>4
  <2>2. \A i \in 1 .. Len(stream) : stream[i] \in Jobs
    BY DEF TypeOK
  <2>3. QED BY <1>2, <2>1, <2>2 DEF StreamOK
<1>8. QED BY <1>1, <1>5, <1>6, <1>7

LEMMA AckFailsKeepsInv ==
    ASSUME ToolCallInv, NEW c \in Jobs, AckFails(c)
    PROVE  ToolCallInv'
<1>1. faults' \in 0 .. MaxFaults /\ crashes' = crashes /\ crashes \in 0 .. MaxCrashes
  BY ToolCallAssumption DEF AckFails, Fault, ToolCallInv, TypeOK
<1>2. CASE WorkerEnds(worker[c])
  <2> DEFINE w == worker[c]
  <2>1. WorkerEnds(w)
    BY <1>2
  <2> HIDE DEF w
  <2>2. QED BY <1>1, <2>1, CrashKeepsInv
<1>3. CASE /\ verdict' = [verdict EXCEPT ![c] = "threw"]
           /\ UNCHANGED <<poolVars, apiVars, inbox, streamVars, job, worker,
                          podName, commands>>
  <2>1. job[c] = "settled" /\ \A d \in Jobs \ {c} : verdict'[d] = verdict[d]
    BY <1>3 DEF AckFails, ToolCallInv, TypeOK
  <2>2. TypeOK'
    BY <1>1, <1>3 DEF ToolCallInv, TypeOK, poolVars, apiVars, streamVars
  <2>3. UNCHANGED <<caller, stream, cursor, call, grant, lapsed, job, podName,
                    commands>>
    BY <1>3 DEF poolVars, apiVars, streamVars
  <2>4. StreamOK' /\ PodsOK'
    BY <2>3 DEF ToolCallInv, StreamOK, PodsOK
  <2>5. \A d \in Jobs : JobOK(d)'
    BY <2>1, <2>3 DEF ToolCallInv, JobOK
  <2>6. QED BY <2>2, <2>4, <2>5 DEF ToolCallInv
<1>4. QED BY <1>2, <1>3 DEF AckFails

\* A pod whose lock lapses is taken only from calls that are lost.
LEMMA LapseKeepsInv ==
    ASSUME ToolCallInv, NEW p \in Pods, LockLapses(p)
    PROVE  ToolCallInv'
<1> USE DEF ToolCallInv
<1>1. TypeOK'
  BY OtherTypes
<1>2. /\ lapsed' = lapsed \cup {p}
      /\ \A c \in Jobs : grant'[c] = IF call[c] = "lost" /\ grant[c] = p
                                     THEN NoPod ELSE grant[c]
      /\ UNCHANGED <<caller, stream, cursor, call, job, podName, verdict, commands>>
  BY DEF LockLapses, Lapse, apiVars, streamVars, workerVars
<1>3. \A c \in Jobs : JobOK(c)'
  BY <1>2 DEF JobOK
<1>4. PodsOK'
  <2>1. \A c \in Jobs : grant'[c] \in Pods \ lapsed' => grant'[c] = grant[c]
    BY <1>2, NoPodAssumption
  <2>2. \A c, d \in Jobs :
            grant'[c] = grant'[d] /\ grant'[c] \in Pods \ lapsed' => c = d
    BY <1>2, <2>1 DEF PodsOK
  <2>3. ASSUME ~SlowTools, NEW q \in Pods \ lapsed', NEW d \in commands[q]
        PROVE  grant'[d] = q /\ job[d] \in {"running", "dead"}
    BY <1>2, <2>3 DEF PodsOK, TypeOK
  <2>4. QED BY <1>2, <2>2, <2>3 DEF PodsOK
<1>5. StreamOK'
  BY <1>2 DEF StreamOK
<1>6. QED BY <1>1, <1>3, <1>4, <1>5

-----------------------------------------------------------------------------
(* The theorems *)

LEMMA InitInv == ToolCallInit => ToolCallInv
<1> SUFFICES ASSUME ToolCallInit PROVE ToolCallInv
  OBVIOUS
<1> USE DEF ToolCallInit, PoolInit
<1>1. TypeOK
  <2>1. inbox \in [Jobs -> Seq({"completed", "failed"})]
    OBVIOUS
  <2>2. stream \in Seq(Jobs) /\ cursor \in {NoGroup} \cup (0 .. Len(stream))
    OBVIOUS
  <2>3. QED BY <2>1, <2>2, ToolCallAssumption DEF TypeOK
<1>2. StreamOK
  BY DEF StreamOK
<1>3. PodsOK
  BY NoPodAssumption DEF PodsOK
<1>4. \A c \in Jobs : JobOK(c)
  BY DEF JobOK
<1>5. QED BY <1>1, <1>2, <1>3, <1>4 DEF ToolCallInv

LEMMA NextInv == ToolCallInv /\ [ToolCallNext]_vars => ToolCallInv'
<1> SUFFICES ASSUME ToolCallInv, [ToolCallNext]_vars PROVE ToolCallInv'
  OBVIOUS
<1>1. ASSUME NEW c \in Jobs, ProcessJob(c) PROVE ToolCallInv'
  <2>1. TypeOK /\ StreamOK /\ PodsOK /\ \A d \in Jobs : JobOK(d)
    BY DEF ToolCallInv
  <2>2. TypeOK'
    BY <1>1, <2>1, JobTypes
  <2>3. StreamOK'
    BY <1>1, <2>1, JobKeepsStream
  <2>4. PodsOK'
    BY <1>1, <2>1, JobKeepsPods
  <2>5. ASSUME NEW d \in Jobs PROVE JobOK(d)'
    <3>1. CASE d = c
      BY <1>1, <2>1, <3>1, JobKeepsOwn
    <3>2. CASE d # c
      <4>1. /\ job'[d] = job[d] /\ call'[d] = call[d] /\ grant'[d] = grant[d]
            /\ podName'[d] = podName[d] /\ verdict'[d] = verdict[d]
        BY <1>1, <2>1, <3>2, JobKeepsOthers
      <4>2. QED BY <2>1, <4>1 DEF JobOK
    <3>3. QED BY <3>1, <3>2
  <2>6. QED BY <2>2, <2>3, <2>4, <2>5 DEF ToolCallInv
<1>2. ASSUME NEW c \in Jobs, Outside(c) PROVE ToolCallInv'
  BY <1>2, OutsideKeepsInv
<1>3. CASE EnsureGroup \/ ServerCrash
  <2>1. CASE Jobs = {}
    <3>1. UNCHANGED <<call, grant, lapsed, job, podName, verdict, commands>>
          /\ stream' = stream
      BY <1>3 DEF EnsureGroup, ServerCrash, poolVars, workerVars, streamVars
    <3>2. TypeOK'
      BY <1>3, <2>1, ToolCallAssumption
         DEF ToolCallInv, TypeOK, EnsureGroup, ServerCrash, ServerEnds, poolVars,
             workerVars, streamVars, apiVars
    <3>3. StreamOK'
      BY <2>1, <3>1 DEF ToolCallInv, TypeOK, StreamOK
    <3>4. QED BY <2>1, <3>1, <3>2, <3>3 DEF ToolCallInv, PodsOK
  <2>2. CASE Jobs # {}
    BY <1>3, <2>2, OutsideKeepsInv
  <2>3. QED BY <2>1, <2>2
<1>4. CASE UNCHANGED vars
  <2>1. UNCHANGED <<call, grant, lapsed, caller, promise, listening, inbox,
                    stream, cursor, job, worker, podName, verdict, commands,
                    faults, crashes>>
    BY <1>4 DEF vars, poolVars, apiVars, streamVars, workerVars
  <2>2. QED BY <2>1 DEF ToolCallInv, TypeOK, StreamOK, PodsOK, JobOK
<1>5. ASSUME NEW w \in Workers, WorkerCrash(w) PROVE ToolCallInv'
  <2>1. /\ WorkerEnds(w)
        /\ faults' \in 0 .. MaxFaults /\ crashes' \in 0 .. MaxCrashes
    BY <1>5, ToolCallAssumption DEF WorkerCrash, ToolCallInv, TypeOK
  <2>2. QED BY <2>1, CrashKeepsInv
<1>6. QED
  BY <1>1, <1>2, <1>3, <1>4, <1>5, DeliverKeepsInv, CommandEndsKeepsInv,
     AckFailsKeepsInv, LapseKeepsInv DEF ToolCallNext, Outside

LEMMA InvHolds == ToolCallSpec => []ToolCallInv
BY InitInv, NextInv, PTL DEF ToolCallSpec

\* The variables of a tool call keep their types: the consumer group never
\* reads past the stream, and no more faults happen than are allowed.
THEOREM TypeCorrect == ToolCallSpec => []TypeOK
<1>1. ToolCallInv => TypeOK
  BY DEF ToolCallInv
<1>2. QED BY InvHolds, <1>1, PTL

\* processJob (worker/index.ts) never releases a pod that it does not hold,
\* whichever of its publishes fail and whoever crashes.
THEOREM ReleasesCorrect == ToolCallSpec => []ReleasesOwnPod
<1>1. ToolCallInv => ReleasesOwnPod
  BY DEF ToolCallInv, JobOK, ReleasesOwnPod
<1>2. QED BY InvHolds, <1>1, PTL

\* When every tool ends within TOOL_TIMEOUT_MS, a pod whose lock has not lapsed
\* runs the command of one call at most.
THEOREM CommandsCorrect == ToolCallSpec => [](~SlowTools => CommandsExclusive)
<1>1. ToolCallInv => (~SlowTools => CommandsExclusive)
  <2> SUFFICES ASSUME ToolCallInv, ~SlowTools, NEW p \in Pods \ lapsed,
                      NEW c \in commands[p], NEW d \in commands[p]
               PROVE  c = d
    BY DEF CommandsExclusive
  <2>1. c \in Jobs /\ d \in Jobs
    BY DEF ToolCallInv, TypeOK
  <2>2. grant[c] = p /\ grant[d] = p
    BY DEF ToolCallInv, PodsOK
  <2>3. QED BY <2>1, <2>2 DEF ToolCallInv, PodsOK
<1>2. QED BY InvHolds, <1>1, PTL

\* What the tool calls do to the pods is what the pool allows: each step is one
\* of PodPool's, or leaves the pool alone.
THEOREM UsesPool == ToolCallSpec => PoolSpec
<1>1. ToolCallInit => PoolInit
  BY DEF ToolCallInit
<1>2. [ToolCallNext]_vars => [PoolNext]_poolVars
  <2> SUFFICES ASSUME [ToolCallNext]_vars PROVE [PoolNext]_poolVars
    OBVIOUS
  <2>1. ASSUME NEW c \in Jobs, ProcessJob(c) PROVE [PoolNext]_poolVars
    <3>1. CASE Acquired(c)
      BY <3>1 DEF Acquired, PoolNext
    <3>2. CASE NotAcquired(c)
      BY <3>2 DEF NotAcquired, PoolNext
    <3>3. CASE ReleasePod(c) \/ Finally(c)
      BY <3>3 DEF ReleasePod, Finally, PoolNext
    <3>4. CASE \/ Ran(c) \/ PublishResult(c) \/ NotifyFreed(c) \/ Catch(c)
               \/ Ack(c)
      BY <3>4 DEF Ran, PublishResult, NotifyFreed, Catch, Ack
    <3>5. QED BY <2>1, <3>1, <3>2, <3>3, <3>4 DEF ProcessJob
  <2>2. ASSUME NEW c \in Jobs, Outside(c) PROVE UNCHANGED poolVars
    BY <2>2, OutsideKeeps
  <2>3. ASSUME NEW c \in Jobs, NEW w \in Workers, Deliver(c, w)
        PROVE  [PoolNext]_poolVars
    BY <2>3 DEF Deliver, PoolNext
  <2>4. ASSUME \/ \E w \in Workers : WorkerCrash(w)
               \/ \E c \in Jobs : AckFails(c)
        PROVE  [PoolNext]_poolVars
    <3>1. CASE \E w : WorkerEnds(w)
      <4>1. PICK S \in SUBSET Jobs : Lose(S)
        BY <3>1 DEF WorkerEnds
      <4>2. QED BY <4>1 DEF PoolNext
    <3>2. CASE UNCHANGED poolVars
      BY <3>2
    <3>3. QED BY <2>4, <3>1, <3>2 DEF WorkerCrash, AckFails
  <2>5. ASSUME NEW p \in Pods, LockLapses(p) PROVE [PoolNext]_poolVars
    BY <2>5 DEF LockLapses, PoolNext
  <2>6. CASE \/ \E c \in Jobs, p \in Pods : CommandEnds(c, p)
             \/ EnsureGroup \/ ServerCrash \/ UNCHANGED vars
    BY <2>6 DEF CommandEnds, EnsureGroup, ServerCrash, vars
  <2>7. QED
    BY <2>1, <2>2, <2>3, <2>4, <2>5, <2>6 DEF ToolCallNext, Outside
<1>3. QED BY <1>1, <1>2, PTL DEF ToolCallSpec, PoolSpec
=============================================================================
