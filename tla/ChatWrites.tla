----------------------------- MODULE ChatWrites -----------------------------
(***************************************************************************)
(* A chat whose agent writes files: ChatSession and Approval composed, as  *)
(* PiClient's tool fs_write (src/src/pi/client.ts) joins them.             *)
(*                                                                         *)
(* The writes of Approval are tool calls of ChatSession; the other calls    *)
(* need no approval.  A prompt is held up by its write until a user or the *)
(* timer has decided on it; the requests that wait for its agent are held  *)
(* up with it.  Cancelling the request answers it, and touches neither the *)
(* write nor its approval.                                                 *)
(***************************************************************************)
EXTENDS Approval, ChatSession

ASSUME WritesAssumption == Writes \subseteq Calls

vars == <<approvalVars, sessionVars>>

TypeOK == ApprovalTypeOK /\ SessionTypeOK

Init == ApprovalInit /\ SessionInit

\* Mutant: a rejected write is not recorded, and the agent goes on.
InToolUnlessRejected(a) ==
    /\ prompting[a] # None
    /\ Current(a) \in Writes
    /\ tool[Current(a)] \notin {"idle", "rejected"}

\* Agent a is in the execute function of fs_write.
InTool(a) ==
    /\ prompting[a] # None
    /\ Current(a) \in Writes
    /\ tool[Current(a)] # "idle"

\* The agent calls fs_write.  One that was aborted calls no more tools.
CallWrite(a) ==
    /\ prompting[a] # None /\ request[prompting[a]] = "running"
    /\ Current(a) \in Writes
    /\ Request(Current(a))
    /\ UNCHANGED sessionVars

\* execute was told that the write is rejected, or has its result: it records
\* the tool call and returns to the agent.  Or the executor threw, and so does
\* execute, which records nothing.
WriteReturns(a) ==
    /\ InTool(a)
    /\ \/ tool[Current(a)] \in {"written", "rejected"} /\ RecordToolCall(a)
       \/ tool[Current(a)] = "threw" /\ ToolThrows(a)
    /\ UNCHANGED approvalVars

\* A tool that needs no approval has ended.
OtherToolReturns(a) ==
    /\ prompting[a] # None /\ Current(a) \notin Writes
    /\ RecordToolCall(a) \/ ToolThrows(a)
    /\ UNCHANGED approvalVars

\* The prompt ends or throws: not while the agent's tool runs, also if it was
\* aborted.
PromptEnds(a) ==
    /\ ~InTool(a)
    /\ AgentEnd(a) \/ PromptFails(a)
    /\ UNCHANGED approvalVars

SessionStep ==
    /\ \/ \E r \in Requests, s \in Sessions : Chat(r, s) \/ NotSaved(r, s)
       \/ \E r \in Requests : Limited(r) \/ Created(r) \/ Resume(r) \/ Cancel(r)
    /\ UNCHANGED approvalVars

ApprovalStep ==
    /\ \/ \E x \in Writes : Timeout(x) \/ Write(x)
       \/ \E t \in Tabs : Connect(t) \/ Drop(t) \/ Show(t)
       \/ \E t \in Tabs, d \in BOOLEAN : Click(t, d)
       \/ \E p \in posts : Approve(p[1], p[2], p[3])
    /\ UNCHANGED sessionVars

Next ==
    \/ SessionStep
    \/ ApprovalStep
    \/ \E a \in Requests : CallWrite(a) \/ WriteReturns(a)
                           \/ OtherToolReturns(a) \/ PromptEnds(a)

Spec == Init /\ [][Next]_vars

\* What the server does without anybody's doing: a timer fires, an approved write
\* is executed, an agent is created or fails, its tool returns, its prompt ends,
\* and the event loop runs a continuation.
ServerStep ==
    \/ (\E x \in Writes : Timeout(x) \/ Write(x)) /\ UNCHANGED sessionVars
    \/ (\E r \in Requests : Created(r) \/ Resume(r)) /\ UNCHANGED approvalVars
    \/ \E a \in Requests : WriteReturns(a) \/ PromptEnds(a)

\* The server goes on while it has something to do.  No user has to decide.
FairSpec == Spec /\ WF_vars(ServerStep)

-----------------------------------------------------------------------------
(* Properties, next to those of Approval and ChatSession *)

\* routes/chat.ts answers with the tool calls of the request: if the session's
\* agent was made with it, no write it asked for is still to be decided or on its
\* way, and its answer tells just those that were rejected or have a result: one
\* that was approved and whose executor threw is not told, written or not.
AnswerTellsItsWrites ==
    \A r \in Requests : request[r] = "200" /\ agent[r] = r =>
        \A x \in Writes : x[1] = r /\ tool[x] # "idle" =>
            /\ tool[x] \in Decided
            /\ x \in returned[r] <=> tool[x] # "threw"
=============================================================================
