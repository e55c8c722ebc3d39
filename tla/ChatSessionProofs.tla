------------------------- MODULE ChatSessionProofs --------------------------
(***************************************************************************)
(* Proofs about ChatSession, for any number of requests and sessions, any  *)
(* calls their prompts make, and any cancellations and failures.           *)
(***************************************************************************)
EXTENDS ChatSession, TLAPS

\* The variables of ChatSession keep their types; among them: what is returned
\* and recorded are calls, and entries and agents are named by requests.
THEOREM SessionTypeCorrect == SessionSpec => []SessionTypeOK
<1> USE ChatAssumption
<1>1. SessionInit => SessionTypeOK
  BY DEF SessionInit, SessionTypeOK
<1>2. SessionTypeOK /\ [SessionNext]_sessionVars => SessionTypeOK'
  <2> SUFFICES ASSUME SessionTypeOK, [SessionNext]_sessionVars
               PROVE  SessionTypeOK'
    OBVIOUS
  <2> USE DEF SessionTypeOK, InProgress, Responses
  <2>1. ASSUME NEW r \in Requests, NEW s \in Sessions, Chat(r, s)
        PROVE  SessionTypeOK'
    BY <2>1 DEF Chat, Register, AwaitIdle
  <2>2. ASSUME NEW r \in Requests, Limited(r) PROVE SessionTypeOK'
    BY <2>2 DEF Limited
  <2>3. ASSUME NEW r \in Requests, Created(r) PROVE SessionTypeOK'
    BY <2>3 DEF Created, Prompt, SendResponse, Complete
  <2>4. ASSUME NEW r \in Requests, Resume(r) PROVE SessionTypeOK'
    BY <2>4 DEF Resume, Prompt, SendResponse, Complete
  <2>5. ASSUME NEW r \in Requests, Cancel(r) PROVE SessionTypeOK'
    BY <2>5 DEF Cancel, Abort
  <2>6. ASSUME NEW a \in Requests, RecordToolCall(a) PROVE SessionTypeOK'
    <3>1. prompting[a] \in Requests
      BY <2>6 DEF RecordToolCall
    <3>2. QED BY <2>6, <3>1 DEF RecordToolCall
  <2>7. ASSUME NEW a \in Requests, ToolThrows(a) PROVE SessionTypeOK'
    BY <2>7 DEF ToolThrows
  <2>8. ASSUME NEW a \in Requests, NEW st \in Responses, PromptOver(a, st)
        PROVE  /\ request' \in [Requests -> {"new"} \cup InProgress \cup Responses]
               /\ prompting' \in [Requests -> Requests \cup {None}]
               /\ prompting[a] \in Requests
    BY <2>8 DEF PromptOver
  <2>9. ASSUME NEW a \in Requests, AgentEnd(a) PROVE SessionTypeOK'
    <3>1. CASE request[prompting[a]] = "running"
      <4>1. PromptOver(a, "200")
        BY <2>9, <3>1 DEF AgentEnd
      <4>2. QED BY <2>8, <2>9, <3>1, <4>1
                DEF AgentEnd, PromptOver, ToolCallsOf, Complete
    <3>2. CASE request[prompting[a]] # "running"
      BY <2>9, <3>2 DEF AgentEnd, PromptOver
    <3>3. QED BY <3>1, <3>2
  <2>10. ASSUME NEW a \in Requests, PromptFails(a) PROVE SessionTypeOK'
    <3>1. PICK saved \in SUBSET ToolCallsOf(prompting[a]) : ChatFails(a, saved)
      BY <2>10 DEF PromptFails
    <3>2. QED BY <2>8, <2>10, <3>1
              DEF PromptFails, ChatFails, PromptOver, ToolCallsOf, Complete
  <2>11. ASSUME NEW r \in Requests, NEW s \in Sessions, NotSaved(r, s)
         PROVE  SessionTypeOK'
    BY <2>11 DEF NotSaved, Register
  <2>12. CASE UNCHANGED sessionVars
    BY <2>12 DEF sessionVars
  <2>13. QED
    BY <2>1, <2>2, <2>3, <2>4, <2>5, <2>6, <2>7, <2>9, <2>10, <2>11, <2>12
    DEF SessionNext
<1>3. QED BY <1>1, <1>2, PTL DEF SessionSpec

-----------------------------------------------------------------------------
(* CancellationManager's entries *)

\* A request is cancelled after it was registered.
EntriesInv ==
    /\ EntriesAreInProgress
    /\ \A r \in Requests : request[r] = "new" => r \notin aborted

\* Every path out of runChat deletes the request's entry and every request in
\* progress that was not cancelled can be; the entries that are left behind are
\* exactly those of the requests that never got there, because addMessage threw
\* before the try.
THEOREM EntriesCorrect == SessionSpec => []EntriesAreInProgress
<1>1. SessionInit => EntriesInv
  BY DEF SessionInit, EntriesInv, EntriesAreInProgress, InProgress
<1>2. SessionTypeOK /\ EntriesInv /\ [SessionNext]_sessionVars => EntriesInv'
  <2> SUFFICES ASSUME SessionTypeOK, EntriesInv, [SessionNext]_sessionVars
               PROVE  EntriesInv'
    OBVIOUS
  <2> USE DEF SessionTypeOK, EntriesInv, EntriesAreInProgress, InProgress
  <2>1. ASSUME NEW r \in Requests, NEW s \in Sessions, Chat(r, s)
        PROVE  EntriesInv'
    BY <2>1 DEF Chat, Register, AwaitIdle
  <2>2. ASSUME NEW r \in Requests, Limited(r) PROVE EntriesInv'
    BY <2>2 DEF Limited
  <2>3. ASSUME NEW r \in Requests, Created(r) PROVE EntriesInv'
    BY <2>3 DEF Created, Prompt, SendResponse, Complete
  <2>4. ASSUME NEW r \in Requests, Resume(r) PROVE EntriesInv'
    BY <2>4 DEF Resume, Prompt, SendResponse, Complete
  <2>5. ASSUME NEW r \in Requests, Cancel(r) PROVE EntriesInv'
    BY <2>5 DEF Cancel, Abort
  <2>6. ASSUME NEW a \in Requests, RecordToolCall(a) PROVE EntriesInv'
    BY <2>6 DEF RecordToolCall
  <2>7. ASSUME NEW a \in Requests, ToolThrows(a) PROVE EntriesInv'
    BY <2>7 DEF ToolThrows
  <2>8. ASSUME NEW a \in Requests, AgentEnd(a) PROVE EntriesInv'
    <3>1. CASE request[prompting[a]] = "running"
      BY <2>8, <3>1 DEF AgentEnd, PromptOver, Complete
    <3>2. CASE request[prompting[a]] # "running"
      BY <2>8, <3>2 DEF AgentEnd, PromptOver
    <3>3. QED BY <3>1, <3>2
  <2>9. ASSUME NEW a \in Requests, PromptFails(a) PROVE EntriesInv'
    BY <2>9 DEF PromptFails, ChatFails, PromptOver, Complete
  <2>10. ASSUME NEW r \in Requests, NEW s \in Sessions, NotSaved(r, s)
         PROVE  EntriesInv'
    BY <2>10 DEF NotSaved, Register
  <2>11. CASE UNCHANGED sessionVars
    BY <2>11 DEF sessionVars
  <2>12. QED
    BY <2>1, <2>2, <2>3, <2>4, <2>5, <2>6, <2>7, <2>8, <2>9, <2>10, <2>11
    DEF SessionNext
<1>3. QED
  BY <1>1, <1>2, SessionTypeCorrect, PTL DEF SessionSpec, EntriesInv

-----------------------------------------------------------------------------
(* Whose calls a response contains *)

Before == {"new", "creating"}
Waits  == {"waitForIdle", "idle"}

\* The request that made an agent is the first to prompt it.  The request whose
\* prompt runs uses that agent; a request that runs is the one whose prompt does.
AgentsInv ==
    /\ \A s \in Sessions :
          sessions[s] # None => agent[sessions[s]] = sessions[s]
    /\ \A r \in Requests :
          /\ agent[r] # None => agent[agent[r]] = agent[r]
          /\ agent[r] = r => request[r] \notin Before \cup Waits
          /\ request[r] \in Waits \cup {"running"} => agent[r] # None
          /\ request[r] = "running" => prompting[agent[r]] = r
    /\ \A a \in Requests :
          prompting[a] # None => /\ agent[prompting[a]] = a
                                 /\ request[prompting[a]] \notin Before \cup Waits

\* The agent's tools push calls of other requests to an array only when the
\* request whose array it is has been answered.
CallsInv ==
    \A r \in Requests : \A c \in summaries[r] :
        c[1] = r \/ request[r] \notin Before \cup InProgress

\* Every step keeps the relations between sessions, agents and prompts.
LEMMA AgentsStep ==
    ASSUME SessionTypeOK, AgentsInv, [SessionNext]_sessionVars
    PROVE  AgentsInv'
<1> USE ChatAssumption
    DEF SessionTypeOK, AgentsInv, InProgress, Before, Waits
<1>1. ASSUME NEW r \in Requests, NEW s \in Sessions, Chat(r, s)
      PROVE  AgentsInv'
  BY <1>1 DEF Chat, Register, AwaitIdle
<1>2. ASSUME NEW r \in Requests, Limited(r) PROVE AgentsInv'
  BY <1>2 DEF Limited
<1>3. ASSUME NEW r \in Requests, Created(r) PROVE AgentsInv'
  BY <1>3 DEF Created, Prompt, SendResponse
<1>4. ASSUME NEW r \in Requests, Resume(r) PROVE AgentsInv'
  BY <1>4 DEF Resume, Prompt, SendResponse
<1>5. ASSUME NEW r \in Requests, Cancel(r) PROVE AgentsInv'
  BY <1>5 DEF Cancel, Abort
<1>6. ASSUME NEW a \in Requests, RecordToolCall(a) PROVE AgentsInv'
  BY <1>6 DEF RecordToolCall
<1>7. ASSUME NEW a \in Requests, ToolThrows(a) PROVE AgentsInv'
  BY <1>7 DEF ToolThrows
<1>8. ASSUME NEW a \in Requests, AgentEnd(a) PROVE AgentsInv'
  BY <1>8 DEF AgentEnd, PromptOver
<1>9. ASSUME NEW a \in Requests, PromptFails(a) PROVE AgentsInv'
  BY <1>9 DEF PromptFails, ChatFails, PromptOver
<1>10. ASSUME NEW r \in Requests, NEW s \in Sessions, NotSaved(r, s)
       PROVE  AgentsInv'
  BY <1>10 DEF NotSaved
<1>11. CASE UNCHANGED sessionVars
  BY <1>11 DEF sessionVars
<1>12. QED
  BY <1>1, <1>2, <1>3, <1>4, <1>5, <1>6, <1>7, <1>8, <1>9, <1>10, <1>11
  DEF SessionNext

\* A request that was answered stays so.
LEMMA AnsweredStays ==
    ASSUME SessionTypeOK, [SessionNext]_sessionVars, NEW q \in Requests,
           request[q] \notin Before \cup InProgress
    PROVE  request'[q] = request[q]
BY ChatAssumption
   DEF SessionTypeOK, SessionNext, sessionVars, Before, InProgress, Chat,
       Limited, Created, Prompt, SendResponse, Resume, Cancel, Abort,
       RecordToolCall, ToolThrows, NotSaved, AgentEnd, PromptFails, ChatFails,
       PromptOver, AwaitIdle

LEMMA CallsStep ==
    ASSUME SessionTypeOK, AgentsInv, CallsInv, [SessionNext]_sessionVars
    PROVE  CallsInv'
<1> SUFFICES ASSUME NEW q \in Requests, NEW c \in summaries'[q], c[1] # q
             PROVE  request'[q] \notin Before \cup InProgress
  BY DEF CallsInv
<1>1. CASE c \in summaries[q]
  BY <1>1, AnsweredStays DEF CallsInv
<1>2. CASE c \notin summaries[q]
  <2>1. PICK a \in Requests : RecordToolCall(a)
    BY <1>2 DEF SessionNext, sessionVars, Chat, NotSaved, Limited, Created,
                Resume, Cancel, ToolThrows, AgentEnd, PromptFails, ChatFails,
                PromptOver
  <2>2. q = a /\ c = Current(a) /\ prompting[a] \in Requests
    BY <1>2, <2>1 DEF RecordToolCall, SessionTypeOK
  <2>3. prompting[a] # a
    BY <2>2 DEF Current
  <2>4. agent[a] = a /\ request[a] # "running"
    BY <2>2, <2>3, ChatAssumption DEF AgentsInv, SessionTypeOK
  <2>5. request[a] \notin Before \cup InProgress
    BY <2>2, <2>4 DEF AgentsInv, Before, Waits, InProgress
  <2>6. QED BY <2>1, <2>2, <2>5 DEF RecordToolCall
<1>3. QED BY <1>1, <1>2

LEMMA ReturnsStep ==
    ASSUME SessionTypeOK, CallsInv, ReturnsOwnCalls, [SessionNext]_sessionVars
    PROVE  ReturnsOwnCalls'
<1> SUFFICES ASSUME NEW q \in Requests, NEW c \in returned'[q]
             PROVE  c[1] = q
  BY DEF ReturnsOwnCalls
<1>1. CASE c \in returned[q]
  BY <1>1 DEF ReturnsOwnCalls
<1>2. CASE c \notin returned[q]
  <2>1. PICK a \in Requests : AgentEnd(a)
    BY <1>2 DEF SessionNext, sessionVars, Chat, NotSaved, Limited, Created,
                Resume, Cancel, RecordToolCall, ToolThrows, PromptFails,
                ChatFails, PromptOver
  <2>2. q = prompting[a] /\ request[q] = "running" /\ c \in summaries[q]
    BY <1>2, <2>1 DEF AgentEnd, ToolCallsOf, SessionTypeOK
  <2>3. QED BY <2>2 DEF CallsInv, InProgress, Before
<1>3. QED BY <1>1, <1>2

LEMMA AgentsCorrect == SessionSpec => []AgentsInv
<1>1. SessionInit => AgentsInv
  BY ChatAssumption DEF SessionInit, AgentsInv, Before, Waits
<1>2. SessionTypeOK /\ AgentsInv /\ [SessionNext]_sessionVars => AgentsInv'
  BY AgentsStep
<1>3. QED BY <1>1, <1>2, SessionTypeCorrect, PTL DEF SessionSpec

\* No response contains a tool call of another request, although the agent's
\* tools push the calls of all its requests to one array.
THEOREM OwnCallsReturned == SessionSpec => []ReturnsOwnCalls
<1>1. SessionInit => CallsInv /\ ReturnsOwnCalls
  BY DEF SessionInit, CallsInv, ReturnsOwnCalls
<1>2. /\ SessionTypeOK /\ AgentsInv
      /\ CallsInv /\ ReturnsOwnCalls /\ [SessionNext]_sessionVars
      => (CallsInv /\ ReturnsOwnCalls)'
  BY CallsStep, ReturnsStep
<1>3. QED BY <1>1, <1>2, SessionTypeCorrect, AgentsCorrect, PTL DEF SessionSpec
=============================================================================
