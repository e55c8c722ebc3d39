------------------------------ MODULE PodPool -------------------------------
(***************************************************************************)
(* What the lease manager promises to the worker's processJob, with no     *)
(* lease, reservation, queue or watchdog in it: a call of acquirePod is    *)
(* granted a pod or refused, a granted pod is returned once, and a pod     *)
(* whose lock never lapsed is granted to one job at a time, and to no one  *)
(* after its job was lost with its worker.                                 *)
(***************************************************************************)
EXTENDS Integers

CONSTANTS Pods, Jobs, NoPod

ASSUME NoPodAssumption == NoPod \notin Pods

VARIABLES
    call,       \* the state of each job's use of the pool
    grant,      \* the pod it has been given
    lapsed      \* pods whose lock has timed out while it was taken

poolVars == <<call, grant, lapsed>>

PoolInit == /\ call = [j \in Jobs |-> "idle"]
            /\ grant = [j \in Jobs |-> NoPod]
            /\ lapsed = {}

Ask(j) == /\ call[j] = "idle"
          /\ call' = [call EXCEPT ![j] = "waiting"]
          /\ UNCHANGED <<grant, lapsed>>

Grant(j, p) == /\ call[j] = "waiting"
               /\ p \in lapsed \/ \A i \in Jobs : grant[i] # p
               /\ call' = [call EXCEPT ![j] = "granted"]
               /\ grant' = [grant EXCEPT ![j] = p]
               /\ UNCHANGED lapsed

Refuse(j) == /\ call[j] = "waiting"
             /\ call' = [call EXCEPT ![j] = "refused"]
             /\ UNCHANGED <<grant, lapsed>>

Return(j) == /\ call[j] = "granted"
             /\ call' = [call EXCEPT ![j] = "returned"]
             /\ grant' = [grant EXCEPT ![j] = NoPod]
             /\ UNCHANGED lapsed

\* The lock of pod p times out: it frees the pod of a job that was lost.
Lapse(p) == /\ p \notin lapsed
            /\ lapsed' = lapsed \cup {p}
            /\ grant' = [j \in Jobs |-> IF call[j] = "lost" /\ grant[j] = p
                                      THEN NoPod ELSE grant[j]]
            /\ UNCHANGED call

\* The worker dies, with all its calls that are under way.
Lose(S) == /\ \A j \in S : call[j] \in {"waiting", "granted", "returned"}
           /\ call' = [j \in Jobs |-> IF j \in S THEN "lost" ELSE call[j]]
           /\ grant' = [j \in Jobs |-> IF j \in S /\ grant[j] \in lapsed
                                     THEN NoPod ELSE grant[j]]
           /\ UNCHANGED lapsed

PoolNext == \/ \E j \in Jobs : Ask(j) \/ Refuse(j) \/ Return(j)
            \/ \E j \in Jobs, p \in Pods : Grant(j, p)
            \/ \E p \in Pods : Lapse(p)
            \/ \E S \in SUBSET Jobs : Lose(S)

PoolSpec == PoolInit /\ [][PoolNext]_poolVars
=============================================================================
