-------------------------- MODULE ChatWritesProofs --------------------------
(***************************************************************************)
(* Proofs about Approval, for any number of writes and tabs, any order of  *)
(* decisions, timers and messages, and any number of lost connections; and *)
(* about ChatWrites: the composition behaves, for each of its parts, as    *)
(* that part's specification allows, so that what is proved of the parts   *)
(* holds of it; and what it says itself about the writes of an answer.     *)
(***************************************************************************)
EXTENDS ChatWrites, ChatSessionProofs, TLAPS

-----------------------------------------------------------------------------
(* Approval *)

\* The variables of Approval keep their types: the ApprovalManager's map, the
\* broadcaster's messages and each tab's modal name writes and nothing else.
THEOREM ApprovalTypeCorrect == ApprovalSpec => []ApprovalTypeOK
<1>1. ApprovalInit => ApprovalTypeOK
  BY ApprovalAssumption DEF ApprovalInit, ApprovalTypeOK
<1>2. ApprovalTypeOK /\ [ApprovalNext]_approvalVars => ApprovalTypeOK'
  <2> SUFFICES ASSUME ApprovalTypeOK, [ApprovalNext]_approvalVars
               PROVE  ApprovalTypeOK'
    OBVIOUS
  <2> USE ApprovalAssumption DEF ApprovalTypeOK, Decided
  <2>1. ASSUME NEW x \in Writes, Request(x) PROVE ApprovalTypeOK'
    BY <2>1 DEF Request, Broadcast
  <2>2. ASSUME NEW x \in Writes, Timeout(x) PROVE ApprovalTypeOK'
    BY <2>2 DEF Timeout, Resolve
  <2>3. ASSUME NEW x \in Writes, Write(x) PROVE ApprovalTypeOK'
    BY <2>3 DEF Write
  <2>4. ASSUME NEW t \in Tabs, Connect(t) PROVE ApprovalTypeOK'
    BY <2>4 DEF Connect
  <2>5. ASSUME NEW t \in Tabs, Drop(t) PROVE ApprovalTypeOK'
    BY <2>5 DEF Drop
  <2>6. ASSUME NEW t \in Tabs, Show(t) PROVE ApprovalTypeOK'
    <3>1. channel[t] \in Seq(Writes) /\ channel[t] # <<>>
      BY <2>6 DEF Show
    <3>2. Head(channel[t]) \in Writes /\ Tail(channel[t]) \in Seq(Writes)
      BY <3>1
    <3>3. QED BY <2>6, <3>2 DEF Show
  <2>7. ASSUME NEW t \in Tabs, NEW d \in BOOLEAN, Click(t, d)
        PROVE ApprovalTypeOK'
    <3>1. modal[t] \in Writes
      BY <2>7 DEF Click
    <3>2. QED BY <2>7, <3>1 DEF Click
  <2>8. ASSUME NEW p \in posts, Approve(p[1], p[2], p[3]) PROVE ApprovalTypeOK'
    <3>1. p[2] \in Writes /\ p[3] \in BOOLEAN
      OBVIOUS
    <3>2. posts' \in SUBSET (Tabs \X Writes \X BOOLEAN)
      BY <2>8 DEF Approve
    <3>3. UNCHANGED <<connected, channel, modal, clicks, drops>>
      BY <2>8 DEF Approve
    <3>4. CASE p[2] \notin pending
      BY <2>8, <3>2, <3>3, <3>4 DEF Approve, Respond
    <3>5. CASE p[2] \in pending
      <4>1. /\ pending' = pending \ {p[2]}
            /\ accepted' = [accepted EXCEPT ![p[2]] = @ \cup {p[3]}]
        BY <2>8, <3>5 DEF Approve, Respond
      <4>2. tool' = [tool EXCEPT ![p[2]] = tool'[p[2]]]
        BY <2>8, <3>5 DEF Approve, Respond, Resolve
      <4>3. tool'[p[2]] \in {"idle", "waiting", "writing"} \cup Decided
        BY <2>8, <3>1, <3>5 DEF Approve, Respond, Resolve
      <4>4. accepted[p[2]] \cup {p[3]} \in SUBSET BOOLEAN
        BY <3>1
      <4>5. accepted' \in [Writes -> SUBSET BOOLEAN]
        BY <3>1, <4>1, <4>4
      <4>6. QED BY <3>1, <3>2, <3>3, <4>1, <4>2, <4>3, <4>5
    <3>6. QED BY <3>4, <3>5
  <2>9. CASE UNCHANGED approvalVars
    BY <2>9 DEF approvalVars
  <2>10. QED
    BY <2>1, <2>2, <2>3, <2>4, <2>5, <2>6, <2>7, <2>8, <2>9 DEF ApprovalNext
<1>3. QED BY <1>1, <1>2, PTL DEF ApprovalSpec

-----------------------------------------------------------------------------
\* A decision on its way is one that a user made; the map holds the writes whose
\* tool waits, and no decision on them has been accepted.
DecisionsInv ==
    /\ \A p \in posts : p[3] \in clicks[p[2]]
    /\ \A x \in Writes :
          /\ x \in pending <=> tool[x] = "waiting"
          /\ tool[x] \in {"idle", "waiting"} => accepted[x] = {}

ApprovalInv ==
    /\ ApprovalTypeOK
    /\ DecisionsInv
    /\ WrittenOnlyIfApproved
    /\ AcceptedTakesEffect

LEMMA ApprovalInvHolds == ApprovalSpec => []ApprovalInv
<1>1. ApprovalInit => DecisionsInv /\ WrittenOnlyIfApproved /\ AcceptedTakesEffect
  BY DEF ApprovalInit, DecisionsInv, WrittenOnlyIfApproved, AcceptedTakesEffect
<1> DEFINE Inv == DecisionsInv /\ WrittenOnlyIfApproved /\ AcceptedTakesEffect
<1>2. ApprovalTypeOK /\ Inv /\ [ApprovalNext]_approvalVars => Inv'
  <2> SUFFICES ASSUME ApprovalTypeOK, Inv, [ApprovalNext]_approvalVars
               PROVE  Inv'
    OBVIOUS
  <2> USE DEF ApprovalTypeOK, Decided, DecisionsInv, WrittenOnlyIfApproved,
              AcceptedTakesEffect
  <2>1. ASSUME NEW x \in Writes, Request(x) PROVE Inv'
    BY <2>1 DEF Request
  <2>2. ASSUME NEW x \in Writes, Timeout(x) PROVE Inv'
    BY <2>2 DEF Timeout, Resolve
  <2>3. ASSUME NEW x \in Writes, Write(x) PROVE Inv'
    BY <2>3 DEF Write
  <2>4. ASSUME NEW t \in Tabs, Connect(t) \/ Drop(t) \/ Show(t) PROVE Inv'
    BY <2>4 DEF Connect, Drop, Show
  <2>5. ASSUME NEW t \in Tabs, NEW d \in BOOLEAN, Click(t, d) PROVE Inv'
    <3>1. /\ modal[t] \in Writes
          /\ UNCHANGED <<tool, pending, accepted>>
          /\ posts' = posts \cup {<<t, modal[t], d>>}
          /\ clicks' = [clicks EXCEPT ![modal[t]] = @ \cup {d}]
      BY <2>5 DEF Click
    <3>2. \A x \in Writes : clicks[x] \subseteq clicks'[x]
      BY <3>1
    <3>3. d \in clicks'[modal[t]]
      BY <3>1
    <3>4. DecisionsInv'
      BY <3>1, <3>2, <3>3
    <3>5. WrittenOnlyIfApproved' /\ AcceptedTakesEffect'
      BY <3>1, <3>2
    <3>6. QED BY <3>4, <3>5
  <2>6. ASSUME NEW p \in posts, Approve(p[1], p[2], p[3]) PROVE Inv'
    <3>1. p[2] \in Writes /\ p[3] \in BOOLEAN /\ p[3] \in clicks[p[2]]
      OBVIOUS
    <3>2. CASE p[2] \notin pending
      BY <2>6, <3>2 DEF Approve, Respond
    <3>3. CASE p[2] \in pending
      <4>1. /\ tool[p[2]] = "waiting" /\ accepted[p[2]] = {}
            /\ tool' = [tool EXCEPT ![p[2]] = IF p[3] THEN "writing"
                                                      ELSE "rejected"]
            /\ accepted' = [accepted EXCEPT ![p[2]] = {p[3]}]
            /\ pending' = pending \ {p[2]}
            /\ posts' \subseteq posts /\ clicks' = clicks
        BY <2>6, <3>1, <3>3 DEF Approve, Respond, Resolve
      <4>2. QED BY <3>1, <4>1
    <3>4. QED BY <3>2, <3>3
  <2>7. CASE UNCHANGED approvalVars
    BY <2>7 DEF approvalVars
  <2> HIDE DEF Inv, ApprovalTypeOK
  <2>8. QED
    BY <2>1, <2>2, <2>3, <2>4, <2>5, <2>6, <2>7 DEF ApprovalNext
<1>3. QED
  BY <1>1, <1>2, ApprovalTypeCorrect, PTL DEF ApprovalSpec, ApprovalInv

\* fs_write "always requires human approval before executing": a write that is
\* executed is one that a user approved, however many tabs show the request.
THEOREM OnlyApprovedIsWritten == ApprovalSpec => []WrittenOnlyIfApproved
BY ApprovalInvHolds, PTL DEF ApprovalInv

\* The decision that POST /approve answers with ok takes effect, against any
\* other decision and the timer.
THEOREM AcceptedDecisionHolds == ApprovalSpec => []AcceptedTakesEffect
BY ApprovalInvHolds, PTL DEF ApprovalInv

-----------------------------------------------------------------------------
(* ChatWrites *)

\* Whatever chats, cancellations and failures do, the writes they ask for are
\* asked for, decided on and executed as Approval says.
THEOREM ImplementsApproval == Spec => ApprovalSpec
<1>1. Init => ApprovalInit
  BY DEF Init
<1>2. [Next]_vars => [ApprovalNext]_approvalVars
  <2>1. SessionStep => UNCHANGED approvalVars
    BY DEF SessionStep
  <2>2. ApprovalStep => ApprovalNext
    BY DEF ApprovalStep, ApprovalNext
  <2>3. ASSUME NEW a \in Requests, CallWrite(a) PROVE ApprovalNext
    BY <2>3 DEF CallWrite, ApprovalNext
  <2>4. ASSUME NEW a \in Requests,
               WriteReturns(a) \/ OtherToolReturns(a) \/ PromptEnds(a)
        PROVE  UNCHANGED approvalVars
    BY <2>4 DEF WriteReturns, OtherToolReturns, PromptEnds
  <2>5. UNCHANGED vars => UNCHANGED approvalVars
    BY DEF vars
  <2>6. QED BY <2>1, <2>2, <2>3, <2>4, <2>5 DEF Next
<1>3. QED BY <1>1, <1>2, PTL DEF Spec, ApprovalSpec

\* Whatever users decide, and when, the requests go on as ChatSession says.
THEOREM ImplementsSession == Spec => SessionSpec
<1>1. Init => SessionInit
  BY DEF Init
<1>2. [Next]_vars => [SessionNext]_sessionVars
  <2>1. SessionStep => SessionNext
    BY DEF SessionStep, SessionNext
  <2>2. ApprovalStep => UNCHANGED sessionVars
    BY DEF ApprovalStep
  <2>3. ASSUME NEW a \in Requests, CallWrite(a) PROVE UNCHANGED sessionVars
    BY <2>3 DEF CallWrite
  <2>4. ASSUME NEW a \in Requests,
               WriteReturns(a) \/ OtherToolReturns(a) \/ PromptEnds(a)
        PROVE  SessionNext
    BY <2>4 DEF WriteReturns, OtherToolReturns, PromptEnds, SessionNext
  <2>5. UNCHANGED vars => UNCHANGED sessionVars
    BY DEF vars
  <2>6. QED BY <2>1, <2>2, <2>3, <2>4, <2>5 DEF Next
<1>3. QED BY <1>1, <1>2, PTL DEF Spec, SessionSpec

\* The variables of both parts keep their types in the composition.
THEOREM TypeCorrect == Spec => []TypeOK
BY ImplementsApproval, ImplementsSession, ApprovalTypeCorrect,
   SessionTypeCorrect, PTL DEF TypeOK

\* What is proved of Approval and of ChatSession holds of a chat that writes.
THEOREM PartsCorrect ==
    Spec => /\ []WrittenOnlyIfApproved /\ []AcceptedTakesEffect
            /\ []EntriesAreInProgress  /\ []ReturnsOwnCalls
BY ImplementsApproval, ImplementsSession, OnlyApprovedIsWritten,
   AcceptedDecisionHolds, EntriesCorrect, OwnCallsReturned, PTL

-----------------------------------------------------------------------------
\* What execute is told before it records the call.
Recorded == {"written", "rejected"}

\* A write that was asked for is in the array of the agent's tools, rejected or
\* with its result, or its executor threw, or its agent is still in it; an array
\* has no other writes.  No prompt of an answered request runs.
WritesInv ==
    /\ \A x \in Writes :
          /\ request[x[1]] \in Before \cup Waits => tool[x] = "idle"
          /\ tool[x] # "idle" =>
                \/ /\ agent[x[1]] \in Requests
                   /\ x \in summaries[agent[x[1]]] /\ tool[x] \in Recorded
                \/ tool[x] = "threw"
                \/ \E a \in Requests : prompting[a] = x[1] /\ x = Current(a)
          /\ \A b \in Requests : x \in summaries[b] => tool[x] \in Recorded
    /\ \A r, a \in Requests : request[r] = "200" => prompting[a] # r

Inv == TypeOK /\ AgentsInv /\ WritesInv /\ AnswerTellsItsWrites

LEMMA WritesAreCalls ==
    \A x \in Writes : x[1] \in Requests /\ x[2] \in Nat /\ x = <<x[1], x[2]>>
BY WritesAssumption, ChatAssumption

\* What happens to the writes alone neither asks for a write nor undoes one.
LEMMA ApprovalStepKeeps ==
    ASSUME ApprovalTypeOK, ApprovalStep, NEW x \in Writes
    PROVE  /\ tool'[x] = "idle" <=> tool[x] = "idle"
           /\ tool[x] \in Decided => tool'[x] = tool[x]
<1> USE DEF ApprovalTypeOK, Decided
<1>1. ASSUME NEW y \in Writes, Timeout(y) \/ Write(y)
      PROVE  /\ tool'[x] = "idle" <=> tool[x] = "idle"
             /\ tool[x] \in Decided => tool'[x] = tool[x]
  BY <1>1 DEF Timeout, Write, Resolve
<1>2. ASSUME NEW t \in Tabs, \/ Connect(t) \/ Drop(t) \/ Show(t)
                             \/ \E d \in BOOLEAN : Click(t, d)
      PROVE  tool' = tool
  BY <1>2 DEF Connect, Drop, Show, Click
<1>3. ASSUME NEW p \in posts, Approve(p[1], p[2], p[3])
      PROVE  /\ tool'[x] = "idle" <=> tool[x] = "idle"
             /\ tool[x] \in Decided => tool'[x] = tool[x]
  <2>1. p[2] \in Writes
    OBVIOUS
  <2>2. QED BY <1>3, <2>1 DEF Approve, Respond, Resolve
<1>4. QED BY <1>1, <1>2, <1>3 DEF ApprovalStep

LEMMA WritesStep ==
    ASSUME Inv, [Next]_vars
    PROVE  WritesInv' /\ AnswerTellsItsWrites'
<1> USE ChatAssumption, WritesAreCalls
    DEF Inv, TypeOK, SessionTypeOK, WritesInv, AnswerTellsItsWrites
<1>1. CASE SessionStep
  <2>1. tool' = tool /\ UNCHANGED <<summaries, returned, calls>>
    BY <1>1 DEF SessionStep, approvalVars, Chat, NotSaved, Limited, Created,
                Resume, Cancel
  <2>2. ASSUME NEW r \in Requests, NEW s \in Sessions, Chat(r, s) \/ NotSaved(r, s)
        PROVE  WritesInv' /\ AnswerTellsItsWrites'
    <3>1. /\ request[r] = "new" /\ prompting' = prompting
          /\ \A q \in Requests \ {r} : request'[q] = request[q] /\ agent'[q] = agent[q]
      BY <2>2 DEF Chat, NotSaved
    <3>2. request'[r] # "200"
      BY <2>2 DEF Chat, NotSaved, AwaitIdle
    <3>3. \A x \in Writes : x[1] = r => tool[x] = "idle"
      BY <3>1 DEF Before
    <3>4. \A b \in Requests : Current(b)' = Current(b)
      BY <2>1, <3>1 DEF Current
    <3>5. QED BY <2>1, <3>1, <3>2, <3>3, <3>4
  <2>3. ASSUME NEW r \in Requests, Limited(r) \/ Cancel(r)
        PROVE  WritesInv' /\ AnswerTellsItsWrites'
    BY <2>1, <2>3 DEF Limited, Cancel, Abort, Before, Waits, Current
  <2>4. ASSUME NEW r \in Requests, Created(r)
        PROVE  WritesInv' /\ AnswerTellsItsWrites'
    BY <2>1, <2>4 DEF Created, Prompt, SendResponse, Before, Waits, Current,
                      AgentsInv
  <2>5. ASSUME NEW r \in Requests, Resume(r)
        PROVE  WritesInv' /\ AnswerTellsItsWrites'
    BY <2>1, <2>5 DEF Resume, Prompt, SendResponse, Before, Waits, Current,
                      AgentsInv
  <2>6. QED BY <1>1, <2>2, <2>3, <2>4, <2>5 DEF SessionStep
<1>2. CASE ApprovalStep
  <2>1. UNCHANGED sessionVars
    BY <1>2 DEF ApprovalStep
  <2>2. QED
    BY <1>2, <2>1, ApprovalStepKeeps DEF sessionVars, Current, Decided, Recorded
<1>3. ASSUME NEW a \in Requests, CallWrite(a)
      PROVE  WritesInv' /\ AnswerTellsItsWrites'
  <2>1. /\ UNCHANGED sessionVars
        /\ Current(a) \in Writes /\ request[prompting[a]] = "running"
        /\ prompting[a] \in Requests
        /\ tool[Current(a)] = "idle"
        /\ tool' = [tool EXCEPT ![Current(a)] = "waiting"]
    BY <1>3 DEF CallWrite, Request
  <2>2. Current(a)[1] = prompting[a]
    BY DEF Current
  <2>3. \A b \in Requests : Current(a) \notin summaries[b]
    BY <2>1 DEF Recorded
  <2>4. /\ \A x \in Writes \ {Current(a)} : tool'[x] = tool[x]
        /\ tool'[Current(a)] = "waiting"
    BY <2>1 DEF ApprovalTypeOK
  <2>5. \A b \in Requests : Current(b)' = Current(b)
    BY <2>1 DEF sessionVars, Current
  <2>6. WritesInv'
    <3>1. \A x \in Writes :
              request'[x[1]] \in Before \cup Waits => tool'[x] = "idle"
      BY <2>1, <2>2, <2>4 DEF sessionVars, Before, Waits
    <3>2. \A x \in Writes : tool'[x] # "idle" =>
              \/ /\ agent'[x[1]] \in Requests
                 /\ x \in summaries'[agent'[x[1]]] /\ tool'[x] \in Recorded
              \/ tool'[x] = "threw"
              \/ \E b \in Requests : prompting'[b] = x[1] /\ x = Current(b)'
      BY <2>1, <2>2, <2>4, <2>5 DEF sessionVars
    <3>3. \A x \in Writes : \A b \in Requests :
              x \in summaries'[b] => tool'[x] \in Recorded
      BY <2>1, <2>3, <2>4 DEF sessionVars
    <3>4. QED BY <2>1, <3>1, <3>2, <3>3 DEF sessionVars
  <2>7. AnswerTellsItsWrites'
    BY <2>1, <2>2, <2>4 DEF sessionVars
  <2>8. QED BY <2>6, <2>7
<1>4. ASSUME NEW a \in Requests, WriteReturns(a) \/ OtherToolReturns(a)
      PROVE  WritesInv' /\ AnswerTellsItsWrites'
  <2>1. /\ tool' = tool
        /\ \/ /\ RecordToolCall(a)
              /\ Current(a) \in Writes => tool[Current(a)] \in Recorded
           \/ /\ ToolThrows(a)
              /\ Current(a) \in Writes => tool[Current(a)] = "threw"
    BY <1>4 DEF WriteReturns, OtherToolReturns, approvalVars, Recorded
  <2>2. /\ prompting[a] \in Requests /\ agent[prompting[a]] = a
        /\ UNCHANGED <<request, agent, prompting, returned>>
        /\ calls' = [calls EXCEPT ![prompting[a]] = @ + 1]
        /\ summaries' = [summaries EXCEPT ![a] = summaries'[a]]
        /\ summaries'[a] \in {summaries[a], summaries[a] \cup {Current(a)}}
        /\ tool[Current(a)] # "threw" /\ Current(a) \in Writes
              => Current(a) \in summaries'[a] /\ tool[Current(a)] \in Recorded
        /\ Current(a) \in Writes /\ Current(a) \in summaries'[a] =>
              tool[Current(a)] \in Recorded
    <3>1. CASE RecordToolCall(a)
      BY <2>1, <3>1 DEF RecordToolCall, ToolThrows, AgentsInv, Recorded
    <3>2. CASE ToolThrows(a)
      BY <2>1, <3>2 DEF RecordToolCall, ToolThrows, AgentsInv, Recorded
    <3>3. QED BY <2>1, <3>1, <3>2
  <2>3. ASSUME NEW x \in Writes, tool[x] # "idle"
        PROVE  \/ /\ agent[x[1]] \in Requests
                  /\ x \in summaries'[agent[x[1]]] /\ tool[x] \in Recorded
               \/ tool[x] = "threw"
               \/ \E b \in Requests : prompting[b] = x[1] /\ x = Current(b)'
    <3>1. CASE /\ agent[x[1]] \in Requests
               /\ x \in summaries[agent[x[1]]] /\ tool[x] \in Recorded
      <4>1. CASE agent[x[1]] = a
        BY <2>2, <3>1, <4>1
      <4>2. CASE agent[x[1]] # a
        <5>1. summaries'[agent[x[1]]] = summaries[agent[x[1]]]
          BY <2>2, <3>1, <4>2
        <5>2. QED BY <3>1, <5>1
      <4>3. QED BY <4>1, <4>2
    <3>2. ASSUME NEW b \in Requests, prompting[b] = x[1], x = Current(b),
                 tool[x] # "threw"
          PROVE  \/ /\ agent[x[1]] \in Requests
                    /\ x \in summaries'[agent[x[1]]] /\ tool[x] \in Recorded
                 \/ x = Current(b)'
      <4>1. CASE a = b
        BY <2>2, <3>2, <4>1
      <4>2. CASE a # b
        <5>1. prompting[a] # prompting[b]
          BY <2>2, <3>2, <4>2 DEF AgentsInv
        <5>2. QED BY <2>2, <3>2, <5>1 DEF Current
      <4>3. QED BY <4>1, <4>2
    <3>3. QED BY <2>2, <2>3, <3>1, <3>2
  <2>4. \A x \in Writes : \A b \in Requests :
            x \in summaries'[b] => tool[x] \in Recorded
    BY <2>2
  <2>5. QED BY <2>1, <2>2, <2>3, <2>4
<1>5. ASSUME NEW a \in Requests, PromptEnds(a)
      PROVE  WritesInv' /\ AnswerTellsItsWrites'
  <2>1. /\ tool' = tool /\ ~InTool(a)
        /\ AgentEnd(a) \/ PromptFails(a)
    BY <1>5 DEF PromptEnds, approvalVars
  <2>2. /\ prompting[a] \in Requests /\ agent[prompting[a]] = a
        /\ UNCHANGED <<agent, summaries, calls>>
        /\ prompting' = [prompting EXCEPT ![a] = None]
    BY <2>1 DEF AgentEnd, PromptFails, ChatFails, PromptOver, AgentsInv
  <2>3. \A x \in Writes : \A b \in Requests :
            tool[x] # "idle" /\ prompting[b] = x[1] /\ x = Current(b) => b # a
    BY <2>1, <2>2 DEF InTool
  <2>4. \A r \in Requests :
            /\ request'[r] \in Before \cup Waits => request[r] \in Before \cup Waits
            /\ \/ request'[r] = "200" => request[r] = "200" /\ returned'[r] = returned[r]
               \/ /\ r = prompting[a] /\ returned'[r] = summaries[r]
                  /\ request'[r] = "200"
    BY <2>1, <2>2 DEF AgentEnd, PromptFails, ChatFails, PromptOver, ToolCallsOf,
                      Before, Waits
  <2>5. WritesInv'
    <3>1. \A x \in Writes :
              request'[x[1]] \in Before \cup Waits => tool'[x] = "idle"
      BY <2>1, <2>4
    <3>2. \A x \in Writes : tool'[x] # "idle" =>
              \/ /\ agent'[x[1]] \in Requests
                 /\ x \in summaries'[agent'[x[1]]] /\ tool'[x] \in Recorded
              \/ tool'[x] = "threw"
              \/ \E b \in Requests : prompting'[b] = x[1] /\ x = Current(b)'
      BY <2>1, <2>2, <2>3 DEF Current
    <3>3. \A r, b \in Requests : request'[r] = "200" => prompting'[b] # r
      BY <2>2, <2>4 DEF AgentsInv
    <3>4. QED BY <2>1, <2>2, <3>1, <3>2, <3>3
  <2>6. AnswerTellsItsWrites'
    <3> SUFFICES ASSUME NEW r \in Requests, request'[r] = "200", agent[r] = r,
                        NEW x \in Writes, x[1] = r, tool[x] # "idle"
                 PROVE  /\ tool[x] \in Decided
                        /\ x \in returned'[r] <=> tool[x] # "threw"
      BY <2>1, <2>2
    <3>1. CASE request[r] = "200" /\ returned'[r] = returned[r]
      BY <3>1
    <3>2. CASE r = prompting[a] /\ returned'[r] = summaries[r]
      <4>1. \A b \in Requests : prompting[b] = r => b = a
        BY <2>2, <3>2 DEF AgentsInv
      <4>2. \/ x \in summaries[r] /\ tool[x] \in Recorded
            \/ tool[x] = "threw"
        BY <2>3, <4>1
      <4>3. x \in summaries[r] => tool[x] # "threw"
        BY DEF Recorded
      <4>4. QED BY <3>2, <4>2, <4>3 DEF Recorded, Decided
    <3>3. QED BY <2>4, <3>1, <3>2
  <2>7. QED BY <2>5, <2>6
<1>6. CASE UNCHANGED vars
  BY <1>6 DEF vars, approvalVars, sessionVars, Current
<1>7. QED
  BY <1>1, <1>2, <1>3, <1>4, <1>5, <1>6 DEF Next

\* The answer of the request that made the session's agent tells every write that
\* was rejected or has its result, and none whose executor threw; no write it
\* asked for is still to be decided or under way.
THEOREM WritesToldCorrect == Spec => []AnswerTellsItsWrites
<1>1. Init => WritesInv /\ AnswerTellsItsWrites
  BY WritesAreCalls DEF Init, ApprovalInit, SessionInit, WritesInv,
                        AnswerTellsItsWrites
<1>2. TypeOK /\ AgentsInv /\ WritesInv /\ AnswerTellsItsWrites /\ [Next]_vars
      => WritesInv' /\ AnswerTellsItsWrites'
  BY WritesStep DEF Inv
<1>3. QED
  BY <1>1, <1>2, TypeCorrect, ImplementsSession, AgentsCorrect, PTL DEF Spec
=============================================================================
