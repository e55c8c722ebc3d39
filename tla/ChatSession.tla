---------------------------- MODULE ChatSession -----------------------------
(***************************************************************************)
(* POST /chat (src/src/routes/chat.ts) and POST /cancel, over PiClient     *)
(* (src/src/pi/client.ts) and CancellationManager.                         *)
(*                                                                         *)
(* PiClient keeps one agent per chat session.  The agent's tools are made  *)
(* with the first request and push their summaries to the array of that    *)
(* request; each request returns a copy of its own array.  An agent is     *)
(* named here by the request that created it.                              *)
(*                                                                         *)
(* A step runs up to the next await.  The agent is a library: it takes one *)
(* prompt at a time and throws at a second one, and an aborted prompt ends *)
(* when its tool has ended.                                                *)
(***************************************************************************)
EXTENDS Integers, FiniteSets

CONSTANTS
    Requests,   \* POST /chat requests
    Sessions,   \* sessionIds
    None,       \* no request
    Calls       \* the tool calls its prompt may make, numbered for each request

ASSUME ChatAssumption == None \notin Requests /\ Calls \subseteq Requests \X Nat

VARIABLES
    request,    \* where runChat is, or the status of the response
    sessionOf,  \* the sessionId of each request
    sessions,   \* PiClient's map from sessionId to agent
    agent,      \* the agent a request uses
    prompting,  \* the request whose prompt runs in each agent
    calls,      \* how many tool calls each request's prompt has made
    summaries,  \* the array toolCallSummaries of each request
    returned,   \* the toolCalls of each response
    recorded,   \* the tool calls in executionStore
    entries,    \* CancellationManager's entries
    aborted     \* requests whose AbortController was aborted

sessionVars ==
    <<request, sessionOf, sessions, agent, prompting, calls, summaries,
      returned, recorded, entries, aborted>>

\* getOrCreateSession awaits the new agent, or awaits that the agent is idle,
\* which it has been told in state idle.
InProgress == {"creating", "waitForIdle", "idle", "running"}

\* "500" comes from the catch block of the route, "unsaved" is the 500 of
\* server.ts: the user's message could not be stored, which happens before try.
Responses == {"200", "429", "499", "500", "unsaved"}

SessionTypeOK ==
    /\ request \in [Requests -> {"new"} \cup InProgress \cup Responses]
    /\ sessionOf \in [Requests -> Sessions \cup {None}]
    /\ sessions \in [Sessions -> Requests \cup {None}]
    /\ agent \in [Requests -> Requests \cup {None}]
    /\ prompting \in [Requests -> Requests \cup {None}]
    /\ calls \in [Requests -> Nat]
    /\ summaries \in [Requests -> SUBSET Calls]
    /\ returned \in [Requests -> SUBSET Calls]
    /\ recorded \in SUBSET Calls
    /\ entries \in SUBSET Requests
    /\ aborted \in SUBSET Requests

SessionInit ==
    /\ request = [r \in Requests |-> "new"]
    /\ sessionOf = [r \in Requests |-> None]
    /\ sessions = [s \in Sessions |-> None]
    /\ agent = [r \in Requests |-> None]
    /\ prompting = [r \in Requests |-> None]
    /\ calls = [r \in Requests |-> 0]
    /\ summaries = [r \in Requests |-> {}]
    /\ returned = [r \in Requests |-> {}]
    /\ recorded = {}
    /\ entries = {}
    /\ aborted = {}

-----------------------------------------------------------------------------
\* register(requestId, sessionId).  Mutant: the arguments are swapped.
RegisterSession(r, s) == entries' = entries \cup {s}
Register(r, s) == entries' = entries \cup {r}

\* Mutant: the finally block is missing.
NoComplete(r) == UNCHANGED entries
\* The finally block: complete(requestId).
Complete(r) == entries' = entries \ {r}

SendResponse(r, status) == /\ request' = [request EXCEPT ![r] = status]
                      /\ Complete(r)

\* waitForIdle returns at once if the agent is idle.  Mutant: it waits for the
\* next end of a prompt.
AwaitNextEnd(a) == "waitForIdle"
AwaitIdle(a) == IF prompting[a] = None THEN "idle" ELSE "waitForIdle"

\* The rate limiter refuses the request before it leaves a trace here; which
\* requests it refuses is left open.
Limited(r) ==
    /\ request[r] = "new"
    /\ request' = [request EXCEPT ![r] = "429"]
    /\ UNCHANGED <<sessionOf, sessions, agent, prompting, calls, summaries,
                   returned, recorded, entries, aborted>>

\* POST /chat registers the request and stores the user's message.
\* getOrCreateSession finds the session's agent, idle or not, or begins to create
\* one.
Chat(r, s) ==
    LET a == sessions[s]
    IN  /\ request[r] = "new"
        /\ sessionOf' = [sessionOf EXCEPT ![r] = s]
        /\ Register(r, s)
        /\ agent' = [agent EXCEPT ![r] = a]
        /\ request' = [request EXCEPT ![r] =
              IF a = None THEN "creating" ELSE AwaitIdle(a)]
        /\ UNCHANGED <<sessions, prompting, calls, summaries, returned,
                       recorded, aborted>>

\* The message cannot be stored: addMessage throws after register and before the
\* try whose finally block would complete the request.
NotSaved(r, s) ==
    /\ request[r] = "new"
    /\ sessionOf' = [sessionOf EXCEPT ![r] = s]
    /\ Register(r, s)
    /\ request' = [request EXCEPT ![r] = "unsaved"]
    /\ UNCHANGED <<sessions, agent, prompting, calls, summaries, returned,
                   recorded, aborted>>

\* runChat attaches its listeners to the agent and to the signal, and prompts.
Prompt(r, a) ==
    \/ /\ prompting[a] = None
       /\ prompting' = [prompting EXCEPT ![a] = r]
       /\ request' = [request EXCEPT ![r] = "running"]
       /\ UNCHANGED entries
    \/ prompting[a] # None /\ SendResponse(r, "500") /\ UNCHANGED prompting

\* The agent was created, or could not be.  It replaces whatever agent the
\* session has by now.
Created(r) ==
    /\ request[r] = "creating"
    /\ \/ /\ sessions' = [sessions EXCEPT ![sessionOf[r]] = r]
          /\ agent' = [agent EXCEPT ![r] = r]
          /\ Prompt(r, r)
       \/ SendResponse(r, "500") /\ UNCHANGED <<sessions, agent, prompting>>
    /\ UNCHANGED <<sessionOf, calls, summaries, returned, recorded, aborted>>

\* waitForIdle has returned.
Resume(r) ==
    /\ request[r] = "idle"
    /\ Prompt(r, agent[r])
    /\ UNCHANGED <<sessionOf, sessions, agent, calls, summaries, returned,
                   recorded, aborted>>

\* The tool call of agent a that is under way, or its next one.
Current(a) == <<prompting[a], calls[prompting[a]] + 1>>

\* A tool of agent a has ended: recordToolCall pushes its summary to the array
\* of the request with which the agent's tools were made.
RecordToolCall(a) ==
    LET r == prompting[a]
    IN  /\ r # None /\ Current(a) \in Calls
        /\ calls' = [calls EXCEPT ![r] = @ + 1]
        /\ summaries' = [summaries EXCEPT ![a] = @ \cup {Current(a)}]
        /\ UNCHANGED <<request, sessionOf, sessions, agent, prompting, returned,
                       recorded, entries, aborted>>

\* The executor throws, for one because its XADD failed: the tool throws before
\* recordToolCall, and the agent takes that for the tool's result.
ToolThrows(a) ==
    LET r == prompting[a]
    IN  /\ r # None /\ Current(a) \in Calls
        /\ calls' = [calls EXCEPT ![r] = @ + 1]
        /\ UNCHANGED <<request, sessionOf, sessions, agent, prompting, summaries,
                       returned, recorded, entries, aborted>>

\* Mutant: a request returns the array its agent's tools push to.
ToolCallsOfAgent(r) == summaries[agent[r]]
\* The toolCalls of the response: a copy of the request's own array.
ToolCallsOf(r) == summaries[r]

\* The prompt of agent a is over, all who wait for the agent go on, and the
\* prompt's request is answered.
PromptOver(a, status) ==
    LET r == prompting[a]
    IN  /\ r # None
        /\ prompting' = [prompting EXCEPT ![a] = None]
        /\ request' = [q \in Requests |->
              IF q = r THEN status
              ELSE IF request[q] = "waitForIdle" /\ agent[q] = a THEN "idle"
              ELSE request[q]]
        /\ UNCHANGED <<sessionOf, sessions, agent, calls, summaries, aborted>>

\* agent_end: the prompt's request gets its response and its tool calls are
\* recorded, unless it was cancelled.
AgentEnd(a) ==
    LET r == prompting[a]
    IN  \/ /\ r # None /\ request[r] = "running"
           /\ PromptOver(a, "200")
           /\ returned' = [returned EXCEPT ![r] = ToolCallsOf(r)]
           /\ recorded' = recorded \cup ToolCallsOf(r)
           /\ Complete(r)
        \/ /\ r # None /\ request[r] # "running"
           /\ PromptOver(a, request[r])
           /\ UNCHANGED <<returned, recorded, entries>>

\* The request fails with its prompt, or with an insert after it: the calls in
\* saved are those that were recorded before the insert that threw.
ChatFails(a, saved) ==
    LET r == prompting[a]
    IN  /\ request[r] = "running"
        /\ PromptOver(a, "500")
        /\ recorded' = recorded \cup saved
        /\ Complete(r)
        /\ UNCHANGED returned

\* The prompt throws, or executionStore.add or addMessage does.
PromptFails(a) ==
    /\ prompting[a] # None
    /\ \E saved \in SUBSET ToolCallsOf(prompting[a]) : ChatFails(a, saved)

\* cancel(requestId) aborts the request's signal.  The listener is attached when
\* the prompt has begun: it rejects runChat's promise.  A signal that was aborted
\* before has no listener to call.
Abort(r) ==
    /\ aborted' = aborted \cup {r}
    /\ entries' = entries \ {r}
    /\ request' = [request EXCEPT ![r] = IF @ = "running" THEN "499" ELSE @]

\* POST /cancel answers that the request is cancelled; one that has no entry is
\* answered with 404.
Cancel(r) ==
    /\ r \in entries
    /\ Abort(r)
    /\ UNCHANGED <<sessionOf, sessions, agent, prompting, calls, summaries,
                   returned, recorded>>

SessionNext ==
    \/ \E r \in Requests, s \in Sessions : Chat(r, s) \/ NotSaved(r, s)
    \/ \E r \in Requests : Limited(r) \/ Created(r) \/ Resume(r) \/ Cancel(r)
    \/ \E a \in Requests : \/ RecordToolCall(a) \/ ToolThrows(a)
                           \/ AgentEnd(a) \/ PromptFails(a)

SessionSpec == SessionInit /\ [][SessionNext]_sessionVars

\* An agent is created or fails, a prompt ends or throws, and the event loop
\* runs every continuation.
SessionFairness ==
    /\ \A r \in Requests : WF_sessionVars(Created(r) \/ Resume(r))
    /\ \A a \in Requests : WF_sessionVars(AgentEnd(a) \/ PromptFails(a))

FairSessionSpec == SessionSpec /\ SessionFairness

-----------------------------------------------------------------------------
(* Properties *)

\* A request has an entry in CancellationManager until it has its response or
\* is cancelled, on every path out of runChat: no request in progress is out of
\* reach of POST /cancel, and the only entries that are left behind are those of
\* requests whose message could not be stored, which never get to runChat.
EntriesAreInProgress ==
    entries = {r \in Requests : request[r] \in InProgress \cup {"unsaved"}} \ aborted

\* The toolCalls of a response, which are recorded under its requestId, are
\* calls of that request, whichever requests of its session ran before.
ReturnsOwnCalls == \A r \in Requests : \A c \in returned[r] : c[1] = r

\* Every request gets a response, also one that waits for the agent of its
\* session while other requests use it, fail or are cancelled: again and again
\* no request is in progress, since one that was answered does not come back.
EveryChatAnswered ==
    []<>(\A r \in Requests : request[r] \notin InProgress)

\* routes/chat.ts: "Record each tool call in execution store + metrics", each
\* that a tool has told of.
EveryCallRecorded ==
    \A r \in Requests : request[r] = "200" =>
        \A a \in Requests : \A c \in summaries[a] : c[1] = r => c \in recorded
=============================================================================
