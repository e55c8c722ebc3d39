----------------------------- MODULE LocalCalls -----------------------------
(***************************************************************************)
(* Tool calls in the local mode of the API server: LocalExecutor.execute   *)
(* (src/src/executor/local.ts) with math_compute, and what POST /chat      *)
(* (src/src/routes/chat.ts) records of them when the answer is complete.   *)
(*                                                                         *)
(* mathCompute is synchronous: while its loop runs, the server runs nothing*)
(* else.  Time goes on.  One chat is in progress; its calls run in turn.   *)
(***************************************************************************)
EXTENDS MathCompute, Metrics

CONSTANTS
    MaxCalls,       \* bound on the calls
    MaxTime,        \* bound on the clock
    MaxRestarts     \* bound on restarts of the server

ASSUME CallsAssumption ==
    /\ {"math_compute", "fs_write"} \subseteq Tools
    /\ MaxCalls \in Nat /\ MaxTime \in Nat /\ MaxRestarts \in Nat

VARIABLES
    start,      \* execute's variable: when the call began
    summaries,  \* the calls of the chat in progress
    made,       \* how many calls were made
    restarts    \* how many times the server was started again

callVars == <<start, summaries, made, restarts>>
vars == <<mathVars, metricsVars, now, callVars>>

TypeOK ==
    /\ MathTypeOK
    /\ MetricsTypeOK
    /\ start \in 0 .. now
    /\ summaries \in Seq(Executed)
    /\ made \in 0 .. MaxCalls
    /\ restarts \in 0 .. MaxRestarts

Init ==
    /\ MathInit
    /\ MetricsInit
    /\ start = 0 /\ summaries = <<>> /\ made = 0 /\ restarts = 0

-----------------------------------------------------------------------------
Idle == phase = "idle"

Summarize(tool, status, ms) ==
    summaries' = Append(summaries, [tool |-> tool, status |-> status, ms |-> ms])

\* dispatch calls mathCompute.
CallMath ==
    /\ made < MaxCalls
    /\ Compute
    /\ made' = made + 1 /\ start' = now
    /\ UNCHANGED <<metricsVars, now, summaries, restarts>>

Step == Loop /\ UNCHANGED <<metricsVars, now, callVars>>

\* execute returns: what mathCompute throws is a failed result.
MathReturns ==
    /\ Return
    /\ Summarize("math_compute", IF phase = "threw" THEN "failed" ELSE "completed",
                 now - start)
    /\ start' = 0
    /\ UNCHANGED <<metricsVars, now, made, restarts>>

\* A tool with no case in dispatch, which fs_write is: execute fails at once.
CallUnknown ==
    /\ Idle /\ made < MaxCalls
    /\ made' = made + 1
    /\ Summarize("fs_write", "failed", 0)
    /\ UNCHANGED <<mathVars, metricsVars, now, start, restarts>>

\* The prompt has ended: its calls are recorded, all or up to one whose insert
\* fails.
Answer ==
    /\ Idle /\ summaries # <<>>
    /\ \E n \in 0 .. Len(summaries) : RecordAll(SubSeq(summaries, 1, n))
    /\ summaries' = <<>>
    /\ UNCHANGED <<mathVars, now, start, made, restarts>>

\* The request is cancelled: nothing of it is recorded.
Cancel ==
    /\ Idle /\ summaries # <<>>
    /\ summaries' = <<>>
    /\ UNCHANGED <<mathVars, metricsVars, now, start, made, restarts>>

\* The server ends, in a computation or not, and starts again.
Restart ==
    /\ restarts < MaxRestarts
    /\ restarts' = restarts + 1
    /\ RestartMetrics
    /\ Stop
    /\ start' = 0 /\ summaries' = <<>>
    /\ UNCHANGED <<now, made>>

Tick ==
    /\ now < MaxTime
    /\ now' = now + 1
    /\ UNCHANGED <<mathVars, metricsVars, callVars>>

Next == \/ CallMath \/ Step \/ MathReturns \/ CallUnknown
        \/ Answer \/ Cancel \/ Restart \/ Tick

Spec == Init /\ [][Next]_vars

\* The processor runs the loop of a computation to its end.
FairSpec == Spec /\ WF_vars(Step) /\ WF_vars(MathReturns)

-----------------------------------------------------------------------------
(* Properties, next to those of MathCompute and Metrics *)

\* Every computation ends, and with it the call: the server is not held up for
\* good, whatever the integers are.
EveryComputationEnds == phase = "loop" ~> Idle
=============================================================================
