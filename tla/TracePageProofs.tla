-------------------------- MODULE TracePageProofs ---------------------------
(***************************************************************************)
(* Proofs about TracePage, for any number of requests, sessions, calls,    *)
(* visits and failures: what the page shows is of the session that is open *)
(* and it is never stuck at "Loading".                                     *)
(***************************************************************************)
EXTENDS TracePage, ChatSessionProofs, FiniteSetTheorems, WellFoundedInduction

-----------------------------------------------------------------------------
(* The server *)

LEMMA StepIsSessionStep == [Next]_vars => [SessionNext]_sessionVars
<1>1. \A a \in Requests : Unanswered(a) => PromptFails(a)
  BY DEF Unanswered, PromptFails
<1>2. QED
  BY <1>1 DEF Next, vars, Ask, ToolCallUpdate, Answer, Unseen, Receive, Connect,
     Drop, ReadMessages, Answered, TimerFires, OpenTrace, SessionNext

\* What the page and its connection do leaves POST /chat alone: each step of
\* the whole is a step of ChatSession or changes none of its variables.
THEOREM TraceRefinesSession == Spec => SessionSpec
<1>1. Init => SessionInit
  BY DEF Init
<1>2. [Next]_vars => [SessionNext]_sessionVars
  BY StepIsSessionStep
<1>3. QED BY <1>1, <1>2, PTL DEF Spec, SessionSpec

\* The request of a call was registered for session s.
Of(c, s)     == request[c[1]] # "new" /\ sessionOf[c[1]] = s
OfNext(c, s) == request'[c[1]] # "new" /\ sessionOf'[c[1]] = s

\* A request is registered once, for one session.
LEMMA OfStable ==
    ASSUME SessionTypeOK, [SessionNext]_sessionVars, NEW c \in Calls, NEW s,
           Of(c, s)
    PROVE  OfNext(c, s)
<1> DEFINE r == c[1]
<1>1. r \in Requests
  BY ChatAssumption
<1>2. request[r] # "new" /\ sessionOf[r] = s
  BY DEF Of
<1> HIDE DEF r
<1>3. request'[r] # "new" /\ sessionOf'[r] = s
  BY <1>1, <1>2
     DEF SessionTypeOK, SessionNext, sessionVars, Chat, NotSaved, Limited,
         Created, Prompt, SendResponse, Resume, Cancel, Abort, RecordToolCall,
         ToolThrows, AgentEnd, PromptFails, ChatFails, PromptOver, AwaitIdle
<1>4. QED BY <1>3 DEF OfNext, r

\* A request in progress has a session, and so has one whose prompt goes on
\* after it was cancelled.
SessionsKnown ==
    /\ \A r \in Requests : request[r] \in InProgress => sessionOf[r] \in Sessions
    /\ \A a \in Requests :
          prompting[a] # None => sessionOf[prompting[a]] \in Sessions

LEMMA KnownStep ==
    ASSUME SessionTypeOK, SessionsKnown, [SessionNext]_sessionVars
    PROVE  SessionsKnown'
<1> USE ChatAssumption DEF SessionTypeOK, SessionsKnown, InProgress
<1>1. ASSUME NEW r \in Requests, NEW s \in Sessions, Chat(r, s)
      PROVE  SessionsKnown'
  BY <1>1 DEF Chat, AwaitIdle
<1>2. ASSUME NEW r \in Requests, Limited(r) PROVE SessionsKnown'
  BY <1>2 DEF Limited
<1>3. ASSUME NEW r \in Requests, Created(r) PROVE SessionsKnown'
  BY <1>3 DEF Created, Prompt, SendResponse
<1>4. ASSUME NEW r \in Requests, Resume(r) PROVE SessionsKnown'
  BY <1>4 DEF Resume, Prompt, SendResponse
<1>5. ASSUME NEW r \in Requests, Cancel(r) PROVE SessionsKnown'
  BY <1>5 DEF Cancel, Abort
<1>6. ASSUME NEW a \in Requests, RecordToolCall(a) PROVE SessionsKnown'
  BY <1>6 DEF RecordToolCall
<1>7. ASSUME NEW a \in Requests, AgentEnd(a) PROVE SessionsKnown'
  BY <1>7 DEF AgentEnd, PromptOver
<1>8. ASSUME NEW a \in Requests, PromptFails(a) PROVE SessionsKnown'
  BY <1>8 DEF PromptFails, ChatFails, PromptOver
<1>9. ASSUME NEW a \in Requests, ToolThrows(a) PROVE SessionsKnown'
  BY <1>9 DEF ToolThrows
<1>10. ASSUME NEW r \in Requests, NEW s \in Sessions, NotSaved(r, s)
       PROVE  SessionsKnown'
  BY <1>10 DEF NotSaved
<1>11. CASE UNCHANGED sessionVars
  BY <1>11 DEF sessionVars
<1>12. QED
  BY <1>1, <1>2, <1>3, <1>4, <1>5, <1>6, <1>7, <1>8, <1>9, <1>10, <1>11
  DEF SessionNext

\* The calls of a request are finitely many at any time.
CallsFinite ==
    \A r \in Requests : IsFiniteSet(summaries[r]) /\ IsFiniteSet(returned[r])

LEMMA FiniteStep ==
    ASSUME SessionTypeOK, CallsFinite, [SessionNext]_sessionVars
    PROVE  CallsFinite'
<1> SUFFICES ASSUME NEW r \in Requests
             PROVE  IsFiniteSet(summaries'[r]) /\ IsFiniteSet(returned'[r])
  BY DEF CallsFinite
<1>1. IsFiniteSet(summaries[r]) /\ IsFiniteSet(returned[r])
  BY DEF CallsFinite
<1>2. CASE UNCHANGED <<summaries, returned>>
  BY <1>1, <1>2
<1>3. ASSUME NEW a \in Requests, RecordToolCall(a)
      PROVE  IsFiniteSet(summaries'[r]) /\ IsFiniteSet(returned'[r])
  <2>1. returned' = returned
        /\ \/ summaries'[r] = summaries[r]
           \/ summaries'[r] = summaries[r] \cup {Current(a)}
    BY <1>3 DEF RecordToolCall, SessionTypeOK
  <2>2. QED BY <1>1, <2>1, FS_AddElement
<1>4. ASSUME NEW a \in Requests, AgentEnd(a)
      PROVE  IsFiniteSet(summaries'[r]) /\ IsFiniteSet(returned'[r])
  <2>1. summaries' = summaries
        /\ (returned'[r] = returned[r] \/ returned'[r] = summaries[r])
    BY <1>4 DEF AgentEnd, PromptOver, ToolCallsOf, SessionTypeOK
  <2>2. QED BY <1>1, <2>1
<1>5. QED
  BY <1>2, <1>3, <1>4
     DEF SessionNext, sessionVars, Chat, NotSaved, Limited, Created, Resume,
         Cancel, ToolThrows, PromptFails, ChatFails, PromptOver

\* SetToSeq lists each element of a finite set at one place.
LEMMA ListedOnce ==
    ASSUME NEW S, IsFiniteSet(S)
    PROVE  /\ Cardinality(S) \in Nat
           /\ SetToSeq(S) \in [1 .. Cardinality(S) -> S]
           /\ \A i, j \in 1 .. Cardinality(S) :
                 SetToSeq(S)[i] = SetToSeq(S)[j] => i = j
           /\ \A c \in S : \E i \in 1 .. Cardinality(S) : SetToSeq(S)[i] = c
<1> DEFINE n == Cardinality(S)
<1>1. n \in Nat /\ ExistsBijection(1 .. n, S)
  BY FS_CardinalityType
<1>2. PICK f \in Bijection(1 .. n, S) : TRUE
  BY <1>1 DEF ExistsBijection
<1>3. f \in [1 .. n -> S] /\ IsInjective(f)
  BY <1>2 DEF Bijection, Injection, IsInjective
<1> DEFINE g == SetToSeq(S)
<1>4. g \in [1 .. n -> S] /\ IsInjective(g)
  BY <1>3 DEF SetToSeq
<1> HIDE DEF g
<1>5. g \in Injection(1 .. n, S)
  BY <1>4 DEF Injection, IsInjective
<1>6. IsFiniteSet(1 .. n) /\ Cardinality(1 .. n) = n
  BY <1>1, FS_Interval
<1>7. g \in Surjection(1 .. n, S)
  BY <1>5, <1>6, FS_Injection
<1>8. \A c \in S : \E i \in 1 .. n : g[i] = c
  BY <1>7 DEF Surjection
<1>9. \A i, j \in 1 .. n : g[i] = g[j] => i = j
  BY <1>4 DEF IsInjective
<1>10. QED BY <1>1, <1>4, <1>8, <1>9 DEF g

-----------------------------------------------------------------------------
(* What the page knows *)

\* The page is told only of calls of the session the event names, and what it
\* shows beside the messages is of the session that is open.
LiveInv ==
    /\ open \in Sessions
    /\ live \in Seq(Calls)
    /\ inbox \in Seq(Events)
    /\ \A i \in 1 .. Len(inbox) :
          inbox[i].type = "tool_call_update" => Of(inbox[i].call, inbox[i].session)
    /\ \A i \in 1 .. Len(live) : Of(live[i], open)

\* The queue q of events after the step.
EventsNext(q) ==
    /\ q \in Seq(Events)
    /\ \A i \in 1 .. Len(q) :
          q[i].type = "tool_call_update" => OfNext(q[i].call, q[i].session)

\* The calls in l are of session s after the step.
LiveNext(l, s) ==
    l \in Seq(Calls) /\ \A i \in 1 .. Len(l) : OfNext(l[i], s)

LEMMA EventsStay ==
    ASSUME SessionTypeOK, [SessionNext]_sessionVars, LiveInv
    PROVE  EventsNext(inbox) /\ LiveNext(live, open)
<1>1. ASSUME NEW i \in 1 .. Len(inbox), inbox[i].type = "tool_call_update"
      PROVE  OfNext(inbox[i].call, inbox[i].session)
  <2>1. inbox[i] \in Events
    BY DEF LiveInv
  <2>2. inbox[i].call \in Calls
    BY <2>1 DEF Events
  <2>3. QED BY <1>1, <2>2, OfStable DEF LiveInv
<1>2. ASSUME NEW i \in 1 .. Len(live)
      PROVE  OfNext(live[i], open)
  <2>1. live[i] \in Calls
    BY DEF LiveInv
  <2>2. QED BY <2>1, OfStable DEF LiveInv
<1>3. QED BY <1>1, <1>2 DEF EventsNext, LiveNext, LiveInv

\* A step that leaves the queue, and the page's calls, right.
LEMMA LiveKept ==
    ASSUME open' \in Sessions, LiveNext(live', open'), EventsNext(inbox')
    PROVE  LiveInv'
  BY DEF LiveInv, LiveNext, EventsNext, Of, OfNext

LEMMA EventsAppended ==
    ASSUME NEW q, EventsNext(q), NEW e, EventsNext(e)
    PROVE  EventsNext(q \o e)
<1>1. /\ q \o e \in Seq(Events) /\ Len(q) \in Nat /\ Len(e) \in Nat
      /\ Len(q \o e) = Len(q) + Len(e)
      /\ \A i \in 1 .. Len(q) : (q \o e)[i] = q[i]
      /\ \A i \in 1 .. Len(e) : (q \o e)[Len(q) + i] = e[i]
  BY DEF EventsNext
<1> DEFINE qe == q \o e
<1> HIDE DEF qe
<1>2. ASSUME NEW i \in 1 .. Len(qe), qe[i].type = "tool_call_update"
      PROVE  OfNext(qe[i].call, qe[i].session)
  <2>1. CASE i <= Len(q)
    <3>1. i \in 1 .. Len(q) /\ qe[i] = q[i]
      BY <1>1, <2>1 DEF qe
    <3>2. QED BY <1>2, <3>1 DEF EventsNext
  <2>2. CASE ~(i <= Len(q))
    <3>1. i - Len(q) \in 1 .. Len(e) /\ Len(q) + (i - Len(q)) = i
      BY <1>1, <2>2 DEF qe
    <3>2. qe[i] = e[i - Len(q)]
      BY <1>1, <3>1 DEF qe
    <3>3. QED BY <1>2, <3>1, <3>2 DEF EventsNext
  <2>3. QED BY <2>1, <2>2
<1>3. QED BY <1>1, <1>2 DEF EventsNext, qe

\* The call that is under way is of a request that was registered.
LEMMA CurrentOf ==
    ASSUME SessionTypeOK, AgentsInv, SessionsKnown,
           NEW a \in Requests, prompting[a] # None
    PROVE  /\ prompting[a] \in Requests
           /\ request[prompting[a]] # "new"
           /\ sessionOf[prompting[a]] \in Sessions
  BY DEF SessionTypeOK, AgentsInv, SessionsKnown, Before

\* A broadcast adds right events to the queue, if the page is connected.
LEMMA BroadcastKeeps ==
    ASSUME SessionTypeOK, [SessionNext]_sessionVars, LiveInv,
           NEW e, EventsNext(e), Broadcast(e), UNCHANGED pageVars
    PROVE  LiveInv'
<1>1. EventsNext(inbox) /\ LiveNext(live, open)
  BY EventsStay
<1>2. EventsNext(inbox \o e)
  BY <1>1, EventsAppended
<1>3. EventsNext(inbox')
  BY <1>1, <1>2 DEF Broadcast
<1>4. LiveNext(live', open') /\ open' \in Sessions
  BY <1>1 DEF pageVars, LiveInv
<1>5. QED BY <1>3, <1>4, LiveKept

LEMMA UpdateStep ==
    ASSUME SessionTypeOK, AgentsInv, SessionsKnown, LiveInv,
           NEW a \in Requests, ToolCallUpdate(a)
    PROVE  LiveInv'
<1> DEFINE c == Current(a)
<1> DEFINE s == sessionOf[prompting[a]]
<1> DEFINE e == [type |-> "tool_call_update", call |-> c, session |-> s]
<1>1. [SessionNext]_sessionVars
  BY DEF ToolCallUpdate, SessionNext
<1>2. /\ prompting[a] \in Requests /\ request[prompting[a]] # "new"
      /\ c \in Calls /\ c[1] = prompting[a]
      /\ UNCHANGED <<request, sessionOf>>
  BY CurrentOf DEF ToolCallUpdate, RecordToolCall, Current
<1>3. s \in Sessions
  BY CurrentOf DEF ToolCallUpdate, RecordToolCall
<1>4. e \in Events /\ e.call = c /\ e.session = s
  BY <1>2, <1>3 DEF Events
<1>5. OfNext(c, s)
  BY <1>2 DEF OfNext
<1>6. Broadcast(<<e>>) /\ UNCHANGED pageVars
  BY DEF ToolCallUpdate
<1> HIDE DEF e, c, s
<1>7. EventsNext(<<e>>)
  BY <1>4, <1>5 DEF EventsNext
<1>8. QED BY <1>1, <1>6, <1>7, BroadcastKeeps

\* The broadcast of executions that were stored names calls of a session.
LEMMA ExecutionsTold ==
    ASSUME SessionTypeOK, [SessionNext]_sessionVars, LiveInv,
           NEW S \in SUBSET Calls, IsFiniteSet(S), NEW s \in Sessions,
           ExecutionUpdates(S, s), UNCHANGED pageVars
    PROVE  LiveInv'
<1> DEFINE e == [i \in 1 .. Cardinality(S) |->
                    [type |-> "execution_update", call |-> SetToSeq(S)[i],
                     session |-> s]]
<1>1. Cardinality(S) \in Nat /\ SetToSeq(S) \in [1 .. Cardinality(S) -> S]
  BY ListedOnce
<1>2. ASSUME NEW i \in 1 .. Cardinality(S) PROVE SetToSeq(S)[i] \in Calls
  BY <1>1
<1>3. \A c \in Calls :
          [type |-> "execution_update", call |-> c, session |-> s] \in Events
  BY DEF Events
<1>4. /\ e \in Seq(Events) /\ Len(e) = Cardinality(S)
      /\ \A i \in 1 .. Cardinality(S) : e[i].type = "execution_update"
  BY <1>1, <1>2, <1>3
<1>5. Broadcast(e)
  BY DEF ExecutionUpdates
<1> HIDE DEF e
<1>6. EventsNext(e)
  BY <1>4 DEF EventsNext
<1>7. QED BY <1>5, <1>6, BroadcastKeeps

LEMMA AnswerStep ==
    ASSUME SessionTypeOK, AgentsInv, SessionsKnown, LiveInv, NEW a \in Requests,
           Answer(a), SessionTypeOK', CallsFinite'
    PROVE  LiveInv'
<1> DEFINE r == prompting[a]
<1> DEFINE s == sessionOf[r]
<1> DEFINE S == returned'[r]
<1>1. [SessionNext]_sessionVars
  BY DEF Answer, SessionNext
<1>2. UNCHANGED pageVars
  BY DEF Answer
<1>3. CASE request[r] = "running" /\ ExecutionUpdates(S, s)
  <2>1. r \in Requests /\ s \in Sessions
    BY CurrentOf DEF Answer, AgentEnd, SessionTypeOK
  <2>2. IsFiniteSet(S) /\ S \in SUBSET Calls
    BY <2>1 DEF CallsFinite, SessionTypeOK
  <2> HIDE DEF S, s
  <2>3. QED BY <1>1, <1>2, <1>3, <2>1, <2>2, ExecutionsTold
<1>4. CASE UNCHANGED inbox
  <2>1. EventsNext(inbox) /\ LiveNext(live, open)
    BY <1>1, EventsStay
  <2>2. QED BY <1>2, <1>4, <2>1, LiveKept DEF pageVars, LiveInv
<1>5. QED BY <1>3, <1>4 DEF Answer

LEMMA UnansweredStep ==
    ASSUME SessionTypeOK, AgentsInv, SessionsKnown, CallsFinite, LiveInv,
           NEW a \in Requests, Unanswered(a)
    PROVE  LiveInv'
<1> DEFINE r == prompting[a]
<1> DEFINE s == sessionOf[r]
<1>1. r \in Requests /\ s \in Sessions
  BY CurrentOf DEF Unanswered
<1>2. PICK S \in SUBSET summaries[r] : ChatFails(a, S) /\ ExecutionUpdates(S, s)
  BY DEF Unanswered, ToolCallsOf
<1>3. [SessionNext]_sessionVars
  BY <1>2 DEF Unanswered, PromptFails, ToolCallsOf, SessionNext
<1>4. IsFiniteSet(S) /\ S \in SUBSET Calls
  <2>1. IsFiniteSet(summaries[r]) /\ summaries[r] \in SUBSET Calls
    BY <1>1 DEF CallsFinite, SessionTypeOK
  <2>2. QED BY <2>1, FS_Subset
<1>5. UNCHANGED pageVars
  BY DEF Unanswered
<1> HIDE DEF s
<1>6. QED BY <1>1, <1>2, <1>3, <1>4, <1>5, ExecutionsTold

LEMMA ReceiveStep ==
    ASSUME SessionTypeOK, LiveInv, Receive
    PROVE  LiveInv'
<1> DEFINE e == Head(inbox)
<1>1. [SessionNext]_sessionVars /\ open' = open /\ inbox' = Tail(inbox)
  BY DEF Receive
<1>2. EventsNext(inbox) /\ LiveNext(live, open) /\ open \in Sessions
  BY <1>1, EventsStay DEF LiveInv
<1>3. /\ 1 \in 1 .. Len(inbox) /\ e = inbox[1] /\ Len(inbox) \in Nat
      /\ Tail(inbox) \in Seq(Events) /\ Len(Tail(inbox)) = Len(inbox) - 1
      /\ \A i \in 1 .. Len(Tail(inbox)) : Tail(inbox)[i] = inbox[i + 1]
  BY DEF LiveInv, Receive
<1>4. \A i \in 1 .. Len(Tail(inbox)) : i + 1 \in 1 .. Len(inbox)
  BY <1>3
<1>5. EventsNext(Tail(inbox))
  BY <1>2, <1>3, <1>4 DEF EventsNext
<1>6. CASE live' = live
  BY <1>1, <1>2, <1>5, <1>6, LiveKept
<1>7. CASE /\ e.session = open /\ e.type = "tool_call_update"
           /\ live' = Append(live, e.call)
  <2>1. e \in Events
    BY <1>3 DEF LiveInv
  <2>2. e.call \in Calls /\ OfNext(e.call, open)
    BY <1>2, <1>3, <1>7, <2>1 DEF EventsNext, Events
  <2> DEFINE c == e.call
  <2> HIDE DEF c
  <2>3. c \in Calls /\ OfNext(c, open) /\ live' = Append(live, c)
    BY <1>7, <2>2 DEF c
  <2>4. /\ Append(live, c) \in Seq(Calls) /\ Len(live) \in Nat
        /\ Len(Append(live, c)) = Len(live) + 1
        /\ Append(live, c)[Len(live) + 1] = c
        /\ \A i \in 1 .. Len(live) : Append(live, c)[i] = live[i]
    BY <1>2, <2>3 DEF LiveNext
  <2> DEFINE l == Append(live, c)
  <2> HIDE DEF l
  <2>5. ASSUME NEW i \in 1 .. Len(l) PROVE OfNext(l[i], open)
    <3>1. CASE i = Len(live) + 1
      BY <2>3, <2>4, <3>1 DEF l
    <3>2. CASE i # Len(live) + 1
      <4>1. i \in 1 .. Len(live) /\ l[i] = live[i]
        BY <2>4, <3>2 DEF l
      <4>2. QED BY <1>2, <4>1 DEF LiveNext
    <3>3. QED BY <3>1, <3>2
  <2>6. LiveNext(live', open') /\ open' \in Sessions /\ EventsNext(inbox')
    BY <1>1, <1>2, <1>5, <2>3, <2>4, <2>5 DEF LiveNext, l
  <2>7. QED BY <2>6, LiveKept
<1>8. QED BY <1>6, <1>7 DEF Receive

LEMMA LiveStep ==
    ASSUME SessionTypeOK, AgentsInv, SessionsKnown, CallsFinite, LiveInv,
           [Next]_vars, SessionTypeOK', CallsFinite'
    PROVE  LiveInv'
<1>1. EventsNext(inbox) /\ LiveNext(live, open) /\ open \in Sessions
  BY StepIsSessionStep, EventsStay DEF LiveInv
<1>2. EventsNext(<<>>) /\ LiveNext(<<>>, open')
  BY DEF EventsNext, LiveNext
<1>3. CASE UNCHANGED <<open, live>> /\ (UNCHANGED inbox \/ inbox' = <<>>)
  BY <1>1, <1>2, <1>3, LiveKept
<1>4. ASSUME NEW s \in Sessions, OpenTrace(s) PROVE LiveInv'
  <2>1. open' \in Sessions /\ live' = <<>> /\ inbox' = inbox
    BY <1>4 DEF OpenTrace, Clear
  <2>2. QED BY <1>1, <1>2, <2>1, LiveKept
<1>5. ASSUME NEW a \in Requests, ToolCallUpdate(a) \/ Answer(a) \/ Unanswered(a)
      PROVE  LiveInv'
  BY <1>5, UpdateStep, AnswerStep, UnansweredStep
<1>6. CASE Receive
  BY <1>6, ReceiveStep
<1>7. ASSUME NEW r \in Requests, NEW s \in Sessions, Ask(r, s)
      PROVE  UNCHANGED <<open, live, inbox>>
  BY <1>7 DEF Ask, pageVars, netVars
<1>8. CASE Unseen \/ Connect \/ Drop \/ UNCHANGED vars
  BY <1>3, <1>8 DEF Unseen, Connect, Drop, vars, pageVars, netVars
<1>9. ASSUME NEW f \in fetches, ReadMessages(f) \/ Answered(f)
      PROVE  UNCHANGED <<open, live, inbox>>
  BY <1>9 DEF ReadMessages, Answered, pageVars
<1>10. ASSUME NEW t \in timers, TimerFires(t)
       PROVE  UNCHANGED <<open, live, inbox>>
  BY <1>10 DEF TimerFires, pageVars
<1>11. QED
  BY <1>3, <1>4, <1>5, <1>6, <1>7, <1>8, <1>9, <1>10 DEF Next

\* The tool calls the page shows beside the messages are of the session that is
\* open: no event that was on its way, and no call of a request that goes on in
\* the session that was left, ends up in the other one's trace.
THEOREM LiveCallsCorrect == Spec => []LiveInTheirSession
<1> DEFINE IInv == SessionsKnown /\ CallsFinite /\ LiveInv
<1>1. Init => IInv
  BY FS_EmptySet, ChatAssumption
     DEF Init, SessionInit, SessionsKnown, InProgress, CallsFinite, LiveInv
<1>2. /\ SessionTypeOK /\ SessionTypeOK' /\ AgentsInv
      /\ IInv /\ [Next]_vars
      => IInv'
  BY StepIsSessionStep, KnownStep, FiniteStep, LiveStep
<1>3. IInv => LiveInTheirSession
  BY DEF LiveInv, LiveInTheirSession, Of
<1>4. QED
  BY <1>1, <1>2, <1>3, TraceRefinesSession, SessionTypeCorrect, AgentsCorrect,
     PTL DEF Spec

-----------------------------------------------------------------------------
(* The page's fetches *)

\* The answer to the session that is open is on its way while the page loads.
LoadingInv ==
    /\ visits \in Nat /\ visits >= 1
    /\ \A f \in fetches : DOMAIN f = {"session", "visit", "cause", "read", "rows"}
    /\ LoadingEnds

LEMMA LoadingStep ==
    ASSUME LoadingInv, [Next]_vars
    PROVE  LoadingInv'
<1> DEFINE Shape(f) == DOMAIN f = {"session", "visit", "cause", "read", "rows"}
<1>1. \A s, v, c : Shape(Fetch(s, v, c)) /\ Fetch(s, v, c).visit = v
  BY DEF Fetch
<1>2. ASSUME UNCHANGED <<visits, loading>>, fetches \subseteq fetches',
             \A f \in fetches' \ fetches : Shape(f)
      PROVE  LoadingInv'
  BY <1>2 DEF LoadingInv, LoadingEnds
<1>3. ASSUME NEW s, OpenTrace(s) PROVE LoadingInv'
  <2>1. /\ visits' = visits + 1
        /\ fetches' = fetches \cup {Fetch(s, visits', <<>>)}
    BY <1>3 DEF OpenTrace
  <2>2. Fetch(s, visits', <<>>) \in fetches' /\ Fetch(s, visits', <<>>).visit = visits'
    BY <1>1, <2>1
  <2>3. \A f \in fetches' : Shape(f)
    BY <1>1, <2>1 DEF LoadingInv
  <2>4. QED BY <2>1, <2>2, <2>3 DEF LoadingInv, LoadingEnds
<1>4. ASSUME NEW f \in fetches, ReadMessages(f) PROVE LoadingInv'
  <2> DEFINE g == [f EXCEPT !.read = TRUE, !.rows = rows[f.session]]
  <2>1. Shape(g) /\ g.visit = f.visit
    BY DEF LoadingInv
  <2>2. fetches' = (fetches \ {f}) \cup {g} /\ UNCHANGED <<visits, loading>>
    BY <1>4 DEF ReadMessages, pageVars
  <2> HIDE DEF g
  <2>3. \A h \in fetches' : Shape(h)
    BY <2>1, <2>2 DEF LoadingInv
  <2>4. ASSUME loading PROVE \E h \in fetches' : h.visit = visits
    <3>1. PICK h \in fetches : h.visit = visits
      BY <2>4 DEF LoadingInv, LoadingEnds
    <3>2. CASE h = f
      <4>1. g \in fetches' /\ g.visit = visits
        BY <2>1, <2>2, <3>1, <3>2
      <4>2. QED BY <4>1
    <3>3. CASE h # f
      <4>1. h \in fetches'
        BY <2>2, <3>1, <3>3
      <4>2. QED BY <3>1, <4>1
    <3>4. QED BY <3>2, <3>3
  <2>5. QED BY <2>2, <2>3, <2>4 DEF LoadingInv, LoadingEnds
<1>5. ASSUME NEW f \in fetches, Answered(f) PROVE LoadingInv'
  <2>1. /\ fetches' = fetches \ {f} /\ visits' = visits
        /\ loading' = (loading /\ f.visit = 0)
    BY <1>5 DEF Answered, LoadingAfter
  <2>2. ASSUME loading' PROVE \E h \in fetches' : h.visit = visits
    <3>1. loading /\ f.visit = 0
      BY <2>1, <2>2
    <3>2. PICK h \in fetches : h.visit = visits
      BY <3>1 DEF LoadingInv, LoadingEnds
    <3>3. h # f
      BY <3>1, <3>2 DEF LoadingInv
    <3>4. QED BY <2>1, <3>2, <3>3
  <2>3. QED BY <2>1, <2>2 DEF LoadingInv, LoadingEnds
<1>6. CASE Receive
  BY <1>1, <1>2, <1>6 DEF Receive
<1>7. ASSUME NEW t \in timers, TimerFires(t) PROVE LoadingInv'
  BY <1>1, <1>2, <1>7 DEF TimerFires, pageVars
<1>8. ASSUME UNCHANGED <<fetches, visits, loading>> PROVE LoadingInv'
  BY <1>2, <1>8
<1>9. CASE Unseen \/ Connect \/ Drop \/ UNCHANGED vars
  BY <1>8, <1>9 DEF Unseen, Connect, Drop, vars, pageVars, netVars
<1>10. ASSUME NEW r, NEW s, Ask(r, s) PROVE LoadingInv'
  BY <1>8, <1>10 DEF Ask, pageVars, netVars
<1>11. ASSUME NEW a, ToolCallUpdate(a) \/ Answer(a) \/ Unanswered(a)
       PROVE  LoadingInv'
  BY <1>8, <1>11 DEF ToolCallUpdate, Answer, Unanswered, pageVars
<1>12. QED
  BY <1>3, <1>4, <1>5, <1>6, <1>7, <1>9, <1>10, <1>11 DEF Next

\* The page says "Loading" only while the answer to its latest visit is on its
\* way, whichever fetches fail and in whatever order they are answered.
THEOREM LoadingCorrect == Spec => []LoadingEnds
<1>1. Init => LoadingInv
  <2>1. ASSUME Init PROVE LoadingInv
    <3> DEFINE f == Fetch(open, 1, <<>>)
    <3>1. DOMAIN f = {"session", "visit", "cause", "read", "rows"} /\ f.visit = 1
      BY DEF Fetch
    <3>2. visits = 1 /\ fetches = {f}
      BY <2>1 DEF Init
    <3> HIDE DEF f
    <3>3. QED BY <3>1, <3>2 DEF LoadingInv, LoadingEnds
  <2>2. QED BY <2>1
<1>2. LoadingInv /\ [Next]_vars => LoadingInv'
  BY LoadingStep
<1>3. LoadingInv => LoadingEnds
  BY DEF LoadingInv
<1>4. QED BY <1>1, <1>2, <1>3, PTL DEF Spec

-----------------------------------------------------------------------------
(* The types *)

FetchOK(f, v) ==
    /\ DOMAIN f = {"session", "visit", "cause", "read", "rows"}
    /\ f.session \in Sessions /\ f.visit \in 0 .. v
    /\ f.read \in BOOLEAN /\ f.rows \in Seq(Rows)

PageTypes ==
    /\ rows \in [Sessions -> Seq(Rows)]
    /\ visits \in 1 .. MaxVisits
    /\ messages \in Seq(Rows)
    /\ loading \in BOOLEAN
    /\ connected \in BOOLEAN
    /\ timers \in SUBSET (Sessions \X Calls)
    /\ \A f \in fetches : FetchOK(f, visits)
    /\ lost \in 0 .. MaxLost

LEMMA NewFetch ==
    ASSUME NEW s \in Sessions, NEW n \in Nat, NEW v \in 0 .. n, NEW c
    PROVE  FetchOK(Fetch(s, v, c), n)
BY DEF Fetch, FetchOK

\* A row that is stored.
LEMMA RowAdded ==
    ASSUME PageTypes, NEW s \in Sessions, NEW role \in {"user", "assistant"},
           NEW r \in Requests, NEW cs \in SUBSET Calls, AddMessage(s, role, r, cs)
    PROVE  rows' \in [Sessions -> Seq(Rows)]
<1> DEFINE row == [role |-> role, request |-> r, calls |-> cs]
<1>1. row \in Rows
  BY DEF Rows
<1>2. rows[s] \in Seq(Rows)
  BY DEF PageTypes
<1> HIDE DEF row
<1>3. Append(rows[s], row) \in Seq(Rows)
  BY <1>1, <1>2
<1>4. rows' = [rows EXCEPT ![s] = Append(rows[s], row)]
  BY DEF AddMessage, row, PageTypes
<1>5. QED BY <1>3, <1>4 DEF PageTypes

LEMMA PageTypesStep ==
    ASSUME SessionTypeOK, SessionTypeOK', AgentsInv, SessionsKnown, LiveInv,
           PageTypes, [Next]_vars
    PROVE  PageTypes'
<1>1. visits \in Nat /\ open \in Sessions
  BY TraceAssumption DEF PageTypes, LiveInv
<1>2. ASSUME UNCHANGED <<visits, messages, loading, connected, timers, lost>>,
             rows' \in [Sessions -> Seq(Rows)],
             \A f \in fetches' \ fetches : FetchOK(f, visits)
      PROVE  PageTypes'
  <2>1. \A f \in fetches' : FetchOK(f, visits)
    BY <1>2 DEF PageTypes
  <2>2. QED BY <1>2, <2>1 DEF PageTypes
<1>3. ASSUME NEW r \in Requests, NEW s \in Sessions, Ask(r, s) PROVE PageTypes'
  <2>1. AddMessage(s, "user", r, {}) /\ UNCHANGED <<pageVars, netVars>>
    BY <1>3 DEF Ask
  <2>2. rows' \in [Sessions -> Seq(Rows)]
    BY <2>1, RowAdded
  <2>3. QED BY <1>2, <2>1, <2>2 DEF pageVars, netVars
<1>4. ASSUME NEW a \in Requests, ToolCallUpdate(a) \/ Unanswered(a)
      PROVE  PageTypes'
  BY <1>2, <1>4 DEF ToolCallUpdate, Unanswered, pageVars, PageTypes
<1>5. ASSUME NEW a \in Requests, Answer(a) PROVE PageTypes'
  <2> DEFINE r == prompting[a]
  <2> DEFINE s == sessionOf[r]
  <2>1. r \in Requests /\ s \in Sessions
    BY <1>5, CurrentOf DEF Answer, AgentEnd
  <2>2. returned'[r] \in SUBSET Calls
    BY <2>1 DEF SessionTypeOK
  <2>3. CASE AddMessage(s, "assistant", r, returned'[r])
    <3> DEFINE cs == returned'[r]
    <3> HIDE DEF cs, r, s
    <3>1. rows' \in [Sessions -> Seq(Rows)]
      BY <2>1, <2>2, <2>3, RowAdded DEF cs
    <3>2. QED BY <1>2, <1>5, <3>1 DEF Answer, pageVars
  <2>4. CASE UNCHANGED rows
    BY <1>2, <1>5, <2>4 DEF Answer, pageVars, PageTypes
  <2>5. QED BY <1>5, <2>3, <2>4 DEF Answer
<1>6. ASSUME NEW f \in fetches, ReadMessages(f) PROVE PageTypes'
  <2> DEFINE g == [f EXCEPT !.read = TRUE, !.rows = rows[f.session]]
  <2>1. FetchOK(f, visits) /\ rows[f.session] \in Seq(Rows)
    BY DEF PageTypes, FetchOK
  <2>2. FetchOK(g, visits)
    BY <2>1 DEF FetchOK
  <2> HIDE DEF g
  <2>3. /\ fetches' = (fetches \ {f}) \cup {g}
        /\ UNCHANGED <<pageVars, connected, timers, lost, rows>>
    BY <1>6 DEF ReadMessages, g
  <2>4. QED BY <1>2, <2>2, <2>3 DEF pageVars, PageTypes
<1>7. ASSUME NEW f \in fetches, Answered(f) PROVE PageTypes'
  <2>1. messages' \in Seq(Rows)
    <3>1. messages' \in {f.rows, messages, <<>>}
      BY <1>7 DEF Answered
    <3>2. f.rows \in Seq(Rows) /\ messages \in Seq(Rows) /\ <<>> \in Seq(Rows)
      BY DEF PageTypes, FetchOK
    <3>3. QED BY <3>1, <3>2
  <2>2. lost' \in 0 .. MaxLost
    BY <1>7, TraceAssumption DEF Answered, PageTypes
  <2>3. loading' \in BOOLEAN /\ fetches' \subseteq fetches
    BY <1>7 DEF Answered, LoadingAfter
  <2>4. QED
    BY <1>7, <2>1, <2>2, <2>3 DEF Answered, PageTypes
<1>8. CASE Receive
  <2> DEFINE e == Head(inbox)
  <2>1. e \in Events
    BY <1>8 DEF Receive, LiveInv
  <2>2. e.call \in Calls
    BY <2>1 DEF Events
  <2>3. timers' \in SUBSET (Sessions \X Calls)
    BY <1>1, <1>8, <2>2 DEF Receive, PageTypes
  <2>4. \A f \in fetches' \ fetches : FetchOK(f, visits)
    <3>1. \A c : FetchOK(Fetch(open, 0, c), visits)
      BY <1>1, NewFetch
    <3>2. QED BY <1>8, <3>1 DEF Receive
  <2>5. \A f \in fetches' : FetchOK(f, visits)
    BY <2>4 DEF PageTypes
  <2>6. QED BY <1>8, <2>3, <2>5 DEF Receive, PageTypes
<1>9. ASSUME NEW s \in Sessions, OpenTrace(s) PROVE PageTypes'
  <2>1. visits' = visits + 1 /\ visits' \in 1 .. MaxVisits
    BY <1>1, <1>9, TraceAssumption DEF OpenTrace, PageTypes
  <2>2. FetchOK(Fetch(s, visits', <<>>), visits')
    BY <1>1, <2>1, NewFetch
  <2>3. \A f \in fetches : FetchOK(f, visits')
    BY <1>1, <2>1 DEF PageTypes, FetchOK
  <2>4. \A f \in fetches' : FetchOK(f, visits')
    BY <1>9, <2>2, <2>3 DEF OpenTrace
  <2>5. messages' \in Seq(Rows) /\ loading' \in BOOLEAN
    BY <1>9 DEF OpenTrace, Clear
  <2>6. QED BY <1>9, <2>1, <2>4, <2>5 DEF OpenTrace, PageTypes
<1>10. ASSUME NEW t \in timers, TimerFires(t) PROVE PageTypes'
  <2>1. t[1] \in Sessions
    BY DEF PageTypes
  <2>2. FetchOK(Fetch(t[1], 0, <<"timer", t[2]>>), visits)
    BY <1>1, <2>1, NewFetch
  <2>3. \A f \in fetches' : FetchOK(f, visits)
    BY <1>10, <2>2 DEF TimerFires, PageTypes
  <2>4. QED BY <1>10, <2>3 DEF TimerFires, PageTypes, pageVars
<1>11. CASE Unseen \/ UNCHANGED vars
  BY <1>2, <1>11 DEF Unseen, vars, pageVars, netVars, PageTypes
<1>12. CASE Connect
  BY <1>12 DEF Connect, pageVars, PageTypes
<1>13. CASE Drop
  <2>1. lost' \in 0 .. MaxLost
    BY <1>13, TraceAssumption DEF Drop, PageTypes
  <2>2. /\ UNCHANGED <<rows, visits, messages, loading, timers, fetches>>
        /\ connected' = FALSE
    BY <1>13 DEF Drop, pageVars
  <2>3. QED BY <2>1, <2>2 DEF PageTypes
<1>14. QED
  BY <1>3, <1>4, <1>5, <1>6, <1>7, <1>8, <1>9, <1>10, <1>11, <1>12, <1>13
     DEF Next

\* What holds of the server's requests and the page at any time.
PageInv == SessionsKnown /\ CallsFinite /\ LiveInv /\ PageTypes

LEMMA PageInvariant == Spec => []PageInv
<1>1. Init => PageInv
  <2> SUFFICES ASSUME Init PROVE PageInv
    OBVIOUS
  <2>1. SessionsKnown /\ CallsFinite /\ LiveInv
    BY FS_EmptySet, ChatAssumption
       DEF Init, SessionInit, SessionsKnown, InProgress, CallsFinite, LiveInv
  <2>2. open \in Sessions /\ visits = 1 /\ fetches = {Fetch(open, 1, <<>>)}
    BY DEF Init
  <2>3. FetchOK(Fetch(open, 1, <<>>), 1)
    BY <2>2, NewFetch
  <2>4. PageTypes
    <3>1. visits \in 1 .. MaxVisits /\ lost \in 0 .. MaxLost
      BY TraceAssumption DEF Init
    <3>2. \A f \in fetches : FetchOK(f, visits)
      BY <2>2, <2>3
    <3>3. /\ rows \in [Sessions -> Seq(Rows)] /\ messages \in Seq(Rows)
          /\ loading \in BOOLEAN /\ connected \in BOOLEAN
          /\ timers \in SUBSET (Sessions \X Calls)
      <4>1. <<>> \in Seq(Rows)
        OBVIOUS
      <4>2. rows = [s \in Sessions |-> <<>>] /\ messages = <<>>
        BY DEF Init
      <4>3. rows \in [Sessions -> Seq(Rows)]
        BY <4>1, <4>2
      <4>4. QED BY <4>1, <4>2, <4>3 DEF Init
    <3>4. QED BY <3>1, <3>2, <3>3 DEF PageTypes
  <2>5. QED BY <2>1, <2>4 DEF PageInv
<1>2. /\ SessionTypeOK /\ SessionTypeOK' /\ AgentsInv
      /\ PageInv /\ [Next]_vars
      => PageInv'
  BY StepIsSessionStep, KnownStep, FiniteStep, LiveStep, PageTypesStep
     DEF PageInv
<1>3. QED
  BY <1>1, <1>2, TraceRefinesSession, SessionTypeCorrect, AgentsCorrect,
     PTL DEF Spec

\* Among the types: what is shown, stored and told are calls and rows of known
\* requests, and every fetch asks for a session.
THEOREM TraceTypeCorrect == Spec => []TypeOK
<1>1. SessionTypeOK /\ PageInv => TypeOK
  BY DEF PageInv, LiveInv, PageTypes, FetchOK, TypeOK
<1>2. QED
  BY <1>1, PageInvariant, TraceRefinesSession, SessionTypeCorrect, PTL

-----------------------------------------------------------------------------
(* Induction up to a number, over the set of those that have the property *)

LEMMA LeastNumber ==
    ASSUME NEW T, T \subseteq Nat, T # {}
    PROVE  \E m \in T : \A n \in T : m <= n
<1>1. PICK m \in T : \A n \in T : <<n, m>> \notin OpToRel(<, Nat)
  BY NatLessThanWellFounded, WFMin
<1>2. ASSUME NEW n \in T PROVE m <= n
  <2>1. m \in Nat /\ n \in Nat /\ <<n, m>> \in Nat \X Nat
    BY <1>1
  <2>2. ~(n < m)
    BY <1>1, <2>1 DEF OpToRel
  <2>3. QED BY <2>1, <2>2
<1>3. QED BY <1>1, <1>2

LEMMA InductionUpTo ==
    ASSUME NEW L \in Nat, NEW S, 0 \in S,
           \A n \in 1 .. L : n - 1 \in S => n \in S
    PROVE  \A n \in 0 .. L : n \in S
<1> DEFINE T == (0 .. L) \ S
<1> SUFFICES ASSUME T # {} PROVE FALSE
  OBVIOUS
<1>1. PICK m \in T : \A n \in T : m <= n
  <2>1. T \subseteq Nat
    OBVIOUS
  <2> HIDE DEF T
  <2>2. QED BY <2>1, LeastNumber
<1>2. m \in 1 .. L
  BY <1>1
<1>3. m - 1 \in S
  BY <1>1, <1>2
<1>4. QED BY <1>1, <1>2, <1>3

-----------------------------------------------------------------------------
(* What the page shows: each item once *)

\* Lists joined into one, as FlattenSeq does it.
JoinStep(q, f, n) == IF n = 1 THEN q[n] ELSE f[n - 1] \o q[n]

LEMMA JoinExists ==
    ASSUME NEW q, NEW L \in Nat
    PROVE  \E f : f = [n \in 1 .. L |-> JoinStep(q, f, n)]
<1> DEFINE S == {k \in 0 .. L : \E f : f = [n \in 1 .. k |-> JoinStep(q, f, n)]}
<1>1. 0 \in S
  <2> DEFINE f == [n \in 1 .. 0 |-> <<>>]
  <2>1. f = [n \in 1 .. 0 |-> JoinStep(q, f, n)]
    OBVIOUS
  <2> HIDE DEF f
  <2>2. \E g : g = [n \in 1 .. 0 |-> JoinStep(q, g, n)]
    BY <2>1
  <2>3. 0 \in 0 .. L
    OBVIOUS
  <2>4. QED BY ONLY <2>2, <2>3, Zenon
<1>2. ASSUME NEW k \in 1 .. L, k - 1 \in S PROVE k \in S
  <2>1. PICK f : f = [n \in 1 .. k - 1 |-> JoinStep(q, f, n)]
    BY <1>2
  <2> DEFINE g == [n \in 1 .. k |-> IF n = k THEN JoinStep(q, f, n) ELSE f[n]]
  <2>2. ASSUME NEW n \in 1 .. k PROVE g[n] = JoinStep(q, g, n)
    <3>1. g[n] = JoinStep(q, f, n)
      <4>1. CASE n = k
        BY <4>1
      <4>2. CASE n # k
        <5>1. n \in 1 .. k - 1 /\ g[n] = f[n]
          BY <4>2
        <5>2. f[n] = JoinStep(q, f, n)
          BY <2>1, <5>1
        <5>3. QED BY <5>1, <5>2
      <4>3. QED BY <4>1, <4>2
    <3>2. JoinStep(q, f, n) = JoinStep(q, g, n)
      <4>1. CASE n = 1
        BY <4>1 DEF JoinStep
      <4>2. CASE n # 1
        <5>1. n - 1 \in 1 .. k /\ n - 1 # k
          BY <4>2
        <5>2. g[n - 1] = f[n - 1]
          BY <5>1
        <5>3. QED BY <5>2 DEF JoinStep
      <4>3. QED BY <4>1, <4>2
    <3>3. QED BY <3>1, <3>2
  <2>3. g = [n \in 1 .. k |-> g[n]]
    OBVIOUS
  <2> HIDE DEF g
  <2>4. g = [n \in 1 .. k |-> JoinStep(q, g, n)]
    BY <2>2, <2>3
  <2>5. QED BY <2>4
<1>3. \A k \in 0 .. L : k \in S
  <2> HIDE DEF S
  <2>1. QED BY <1>1, <1>2, InductionUpTo
<1>4. L \in S
  BY <1>3
<1>5. QED BY <1>4

\* s holds the elements of the first k lists of q, each at one place if they
\* differ.
Joined(q, k, s, T) ==
    /\ s \in Seq(T)
    /\ \A j \in 1 .. k : \A i \in 1 .. Len(q[j]) :
          \E n \in 1 .. Len(s) : s[n] = q[j][i]
    /\ \A n \in 1 .. Len(s) : \E j \in 1 .. k : \E i \in 1 .. Len(q[j]) : s[n] = q[j][i]
    /\ \A m, n \in 1 .. Len(s) : s[m] = s[n] => m = n

\* No two places of the lists of q hold the same.
Distinct(q) ==
    \A j, l \in 1 .. Len(q) : \A i \in 1 .. Len(q[j]), m \in 1 .. Len(q[l]) :
        q[j][i] = q[l][m] => j = l /\ i = m

LEMMA JoinedNext ==
    ASSUME NEW T, NEW q \in Seq(Seq(T)), Distinct(q), NEW k \in 1 .. Len(q),
           NEW s, Joined(q, k - 1, s, T)
    PROVE  Joined(q, k, s \o q[k], T)
<1> DEFINE p == q[k]
           t == s \o p
<1>1. /\ Len(q) \in Nat /\ k \in Nat /\ p \in Seq(T) /\ s \in Seq(T)
      /\ Len(p) \in Nat /\ Len(s) \in Nat
  BY DEF Joined
<1>2. /\ t \in Seq(T) /\ Len(t) = Len(s) + Len(p)
      /\ \A n \in 1 .. Len(s) : t[n] = s[n]
      /\ \A n \in 1 .. Len(p) : t[Len(s) + n] = p[n]
  <2> HIDE DEF p
  <2>1. QED BY <1>1
<1> HIDE DEF t
<1>3. \A n \in 1 .. Len(t) : \/ n \in 1 .. Len(s) /\ t[n] = s[n]
                             \/ /\ n - Len(s) \in 1 .. Len(p)
                                /\ t[n] = p[n - Len(s)]
  <2> SUFFICES ASSUME NEW n \in 1 .. Len(t)
               PROVE  \/ n \in 1 .. Len(s) /\ t[n] = s[n]
                      \/ n - Len(s) \in 1 .. Len(p) /\ t[n] = p[n - Len(s)]
    OBVIOUS
  <2>1. CASE n <= Len(s)
    BY <1>1, <1>2, <2>1
  <2>2. CASE ~(n <= Len(s))
    <3>1. n - Len(s) \in 1 .. Len(p) /\ Len(s) + (n - Len(s)) = n
      BY <1>1, <1>2, <2>2
    <3>2. t[n] = p[n - Len(s)]
      BY <1>2, <3>1
    <3>3. QED BY <3>1, <3>2
  <2>3. QED BY <2>1, <2>2
<1>4. ASSUME NEW j \in 1 .. k, NEW i \in 1 .. Len(q[j])
      PROVE  \E n \in 1 .. Len(t) : t[n] = q[j][i]
  <2>1. CASE j = k
    <3>1. Len(s) + i \in 1 .. Len(t) /\ t[Len(s) + i] = q[j][i]
      BY <1>1, <1>2, <1>4, <2>1
    <3>2. QED BY <3>1
  <2>2. CASE j # k
    <3>1. j \in 1 .. k - 1
      BY <1>1, <1>4, <2>2
    <3>2. PICK n \in 1 .. Len(s) : s[n] = q[j][i]
      BY <1>4, <3>1 DEF Joined
    <3>3. n \in 1 .. Len(t) /\ t[n] = q[j][i]
      BY <1>1, <1>2, <3>2
    <3>4. QED BY <3>3
  <2>3. QED BY <2>1, <2>2
<1>5. ASSUME NEW n \in 1 .. Len(s)
      PROVE  \E j \in 1 .. k - 1 : \E i \in 1 .. Len(q[j]) : s[n] = q[j][i]
  BY <1>5 DEF Joined
<1>6. \A j \in 1 .. k - 1 : j \in 1 .. k /\ j \in 1 .. Len(q) /\ j # k
  BY <1>1
<1>7. ASSUME NEW n \in 1 .. Len(t)
      PROVE  \E j \in 1 .. k : \E i \in 1 .. Len(q[j]) : t[n] = q[j][i]
  <2>1. CASE n \in 1 .. Len(s) /\ t[n] = s[n]
    BY <1>5, <1>6, <2>1
  <2>2. CASE n - Len(s) \in 1 .. Len(p) /\ t[n] = p[n - Len(s)]
    <3>1. k \in 1 .. k
      BY <1>1
    <3>2. QED BY <2>2, <3>1
  <2>3. QED BY <1>3, <1>7, <2>1, <2>2
\* What was there is of another list than p.
<1>8. ASSUME NEW n \in 1 .. Len(s), NEW i \in 1 .. Len(p)
      PROVE  s[n] # p[i]
  <2>1. PICK j \in 1 .. k - 1 : \E h \in 1 .. Len(q[j]) : s[n] = q[j][h]
    BY <1>5, <1>8
  <2>2. PICK l \in 1 .. Len(q[j]) : s[n] = q[j][l]
    BY <2>1
  <2>3. j \in 1 .. Len(q) /\ j # k
    BY <1>6, <2>1
  <2>4. q[j][l] # q[k][i]
    BY <1>8, <2>2, <2>3 DEF Distinct
  <2>5. QED BY <2>2, <2>4
<1>9. ASSUME NEW m \in 1 .. Len(t), NEW n \in 1 .. Len(t), t[m] = t[n]
      PROVE  m = n
  <2>1. CASE /\ m \in 1 .. Len(s) /\ t[m] = s[m]
             /\ n \in 1 .. Len(s) /\ t[n] = s[n]
    BY <1>9, <2>1 DEF Joined
  <2>2. CASE /\ m - Len(s) \in 1 .. Len(p) /\ t[m] = p[m - Len(s)]
             /\ n - Len(s) \in 1 .. Len(p) /\ t[n] = p[n - Len(s)]
    <3>1. m - Len(s) = n - Len(s)
      <4>1. \A i, l \in 1 .. Len(p) : p[i] = p[l] => i = l
        BY DEF Distinct
      <4> HIDE DEF p
      <4>2. QED BY <1>9, <2>2, <4>1
    <3>2. m \in Int /\ n \in Int
      BY <1>1, <1>9
    <3>3. QED BY <1>1, <3>1, <3>2
  <2>3. CASE /\ m \in 1 .. Len(s) /\ t[m] = s[m]
             /\ n - Len(s) \in 1 .. Len(p) /\ t[n] = p[n - Len(s)]
    BY <1>8, <1>9, <2>3
  <2>4. CASE /\ n \in 1 .. Len(s) /\ t[n] = s[n]
             /\ m - Len(s) \in 1 .. Len(p) /\ t[m] = p[m - Len(s)]
    BY <1>8, <1>9, <2>4
  <2>5. QED BY <1>3, <1>9, <2>1, <2>2, <2>3, <2>4
<1>10. QED BY <1>2, <1>4, <1>7, <1>9 DEF Joined, t

\* FlattenSeq keeps all elements, and no two places of its result hold the same
\* if no two places of the lists do.
LEMMA FlattenJoins ==
    ASSUME NEW T, NEW q \in Seq(Seq(T)), Distinct(q)
    PROVE  Joined(q, Len(q), FlattenSeq(q), T)
<1> DEFINE L == Len(q)
<1>1. L \in Nat
  OBVIOUS
<1>2. CASE L = 0
  <2>1. q = <<>> /\ FlattenSeq(q) = <<>>
    BY <1>2 DEF FlattenSeq
  <2>2. <<>> \in Seq(T) /\ Len(<<>>) = 0 /\ 1 .. 0 = {}
    OBVIOUS
  <2>3. Joined(q, 0, <<>>, T)
    BY <2>2 DEF Joined
  <2>4. QED BY <1>2, <2>1, <2>3
<1>3. CASE L # 0
  <2> DEFINE flatten == CHOOSE f : f = [n \in 1 .. L |-> JoinStep(q, f, n)]
  <2>1. flatten = [n \in 1 .. L |-> JoinStep(q, flatten, n)]
    BY <1>1, JoinExists
  <2>2. FlattenSeq(q) = flatten[L]
    BY <1>3 DEF FlattenSeq, JoinStep
  <2> HIDE DEF flatten
  <2> DEFINE S == {0} \cup {n \in 1 .. L : Joined(q, n, flatten[n], T)}
  <2>3. ASSUME NEW k \in 1 .. L, k - 1 \in S PROVE k \in S
    <3>1. flatten[k] = JoinStep(q, flatten, k)
      BY <2>1
    <3>2. CASE k = 1
      <4>1. <<>> \in Seq(T) /\ Len(<<>>) = 0 /\ q[1] \in Seq(T)
        BY <3>2
      <4>2. Joined(q, 0, <<>>, T)
        BY <4>1 DEF Joined
      <4>3. Joined(q, 1, <<>> \o q[1], T)
        <5>1. 1 \in 1 .. Len(q) /\ 1 - 1 = 0
          BY <1>1, <1>3
        <5>2. QED BY <4>2, <5>1, JoinedNext
      <4>4. <<>> \o q[1] = q[1]
        BY <4>1
      <4>5. flatten[1] = q[1]
        BY <3>1, <3>2 DEF JoinStep
      <4>6. QED BY <3>2, <4>3, <4>4, <4>5
    <3>3. CASE k # 1
      <4>1. Joined(q, k - 1, flatten[k - 1], T)
        BY <1>1, <2>3, <3>3
      <4>2. flatten[k] = flatten[k - 1] \o q[k]
        BY <3>1, <3>3 DEF JoinStep
      <4>3. Joined(q, k, flatten[k - 1] \o q[k], T)
        BY <4>1, JoinedNext
      <4>4. QED BY <4>2, <4>3
    <3>4. QED BY <3>2, <3>3
  <2> HIDE DEF S
  <2>4. 0 \in S
    BY DEF S
  <2>5. \A n \in 0 .. L : n \in S
    BY <1>1, <2>3, <2>4, InductionUpTo
  <2>6. L \in S
    BY <1>1, <2>5
  <2>7. QED BY <1>1, <1>3, <2>2, <2>6 DEF S
<1>4. QED BY <1>2, <1>3

\* What the page makes of its rows.
ItemSet == [kind : {"user", "assistant", "tool_call"}, request : Requests,
            number : Nat]

\* One row of the table: its tool calls are those of its request.
RowOK(m) ==
    /\ m \in Rows
    /\ m.role = "user" => m.calls = {}
    /\ IsFiniteSet(m.calls)
    /\ \A c \in m.calls : c[1] = m.request

LEMMA CallItemInjective ==
    ASSUME NEW c \in Calls, NEW d \in Calls
    PROVE  /\ CallItem(c) \in ItemSet /\ CallItem(c).kind = "tool_call"
           /\ CallItem(c).request = c[1]
           /\ CallItem(c) = CallItem(d) => c = d
<1>1. c \in Requests \X Nat /\ d \in Requests \X Nat
  BY ChatAssumption
<1>2. c = <<c[1], c[2]>> /\ d = <<d[1], d[2]>>
  BY <1>1
<1>3. /\ CallItem(c).kind = "tool_call"
      /\ CallItem(c).request = c[1] /\ CallItem(c).number = c[2]
      /\ CallItem(d).request = d[1] /\ CallItem(d).number = d[2]
  BY DEF CallItem, Item
<1>4. CallItem(c) \in ItemSet
  BY <1>1 DEF CallItem, Item, ItemSet
<1>5. CallItem(c) = CallItem(d) => c = d
  BY <1>2, <1>3
<1>6. QED BY <1>3, <1>4, <1>5

\* The items of a row: they tell its request and its role, and show its calls.
LEMMA RowItems ==
    ASSUME NEW m, RowOK(m)
    PROVE  /\ ItemsOf(m) \in Seq(ItemSet)
           /\ \A i \in 1 .. Len(ItemsOf(m)) :
                 /\ ItemsOf(m)[i].request = m.request
                 /\ ItemsOf(m)[i].kind = "user" <=> m.role = "user"
                 /\ ItemsOf(m)[i].kind = "tool_call"
                       => \E c \in m.calls : ItemsOf(m)[i] = CallItem(c)
           /\ \A i, j \in 1 .. Len(ItemsOf(m)) :
                 ItemsOf(m)[i] = ItemsOf(m)[j] => i = j
           /\ \A c \in m.calls :
                 \E i \in 1 .. Len(ItemsOf(m)) : ItemsOf(m)[i] = CallItem(c)
<1>1. /\ m \in Rows /\ m.request \in Requests /\ m.calls \subseteq Calls
      /\ m.role \in {"user", "assistant"}
  BY DEF RowOK, Rows
<1> DEFINE I(kind) == Item(kind, m.request, 0)
<1>2. \A kind \in {"user", "assistant"} :
          /\ I(kind) \in ItemSet /\ I(kind).request = m.request
          /\ I(kind).kind = kind
  BY <1>1 DEF Item, ItemSet
<1>3. CASE m.role = "user"
  <2> DEFINE u == I("user")
  <2>1. u \in ItemSet /\ u.request = m.request /\ u.kind = "user"
    BY <1>2
  <2>2. ItemsOf(m) = <<u>> /\ m.calls = {}
    BY <1>3 DEF ItemsOf, RowOK
  <2> HIDE DEF u
  <2> DEFINE l == <<u>>
  <2>3. l \in Seq(ItemSet) /\ Len(l) = 1 /\ l[1] = u
    BY <2>1
  <2> HIDE DEF l
  <2>4. \A i \in 1 .. Len(l) : i = 1 /\ l[i] = u
    BY <2>3
  <2>5. ItemsOf(m) = l
    BY <2>2 DEF l
  <2>6. QED BY <1>3, <2>1, <2>2, <2>3, <2>4, <2>5
<1>4. CASE m.role = "assistant"
  <2> DEFINE n == Cardinality(m.calls)
             f == SetToSeq(m.calls)
             cs == [i \in 1 .. n |-> CallItem(f[i])]
             a == I("assistant")
             l == cs \o <<a>>
  <2>1. /\ n \in Nat /\ f \in [1 .. n -> m.calls]
        /\ \A i, j \in 1 .. n : f[i] = f[j] => i = j
        /\ \A c \in m.calls : \E i \in 1 .. n : f[i] = c
    BY ListedOnce DEF RowOK
  <2>2. a \in ItemSet /\ a.request = m.request /\ a.kind = "assistant"
    BY <1>2
  <2>3. ItemsOf(m) = l
    BY <1>4 DEF ItemsOf
  <2> HIDE DEF n, f, a
  <2>4. \A i \in 1 .. n : f[i] \in m.calls /\ f[i] \in Calls
    BY <1>1, <2>1
  <2>5. \A i \in 1 .. n : /\ CallItem(f[i]) \in ItemSet
                          /\ CallItem(f[i]).kind = "tool_call"
                          /\ CallItem(f[i]).request = m.request
    BY <2>4, CallItemInjective DEF RowOK
  <2>6. cs \in Seq(ItemSet) /\ Len(cs) = n /\ \A i \in 1 .. n : cs[i] = CallItem(f[i])
    BY <2>1, <2>5
  <2> HIDE DEF cs
  <2>7. /\ l \in Seq(ItemSet) /\ Len(l) = n + 1 /\ l[n + 1] = a
        /\ \A i \in 1 .. n : l[i] = cs[i]
    BY <2>1, <2>2, <2>6
  <2> HIDE DEF l
  <2>8. \A i \in 1 .. Len(l) : \/ i \in 1 .. n /\ l[i] = CallItem(f[i])
                               \/ i = n + 1 /\ l[i] = a
    BY <2>1, <2>6, <2>7
  <2>9. ASSUME NEW i \in 1 .. Len(l)
        PROVE  /\ l[i].request = m.request
               /\ l[i].kind # "user"
               /\ l[i].kind = "tool_call" => \E c \in m.calls : l[i] = CallItem(c)
    <3>1. CASE i \in 1 .. n /\ l[i] = CallItem(f[i])
      BY <2>4, <2>5, <3>1
    <3>2. CASE l[i] = a
      BY <2>2, <3>2
    <3>3. QED BY <2>8, <2>9, <3>1, <3>2
  <2>10. ASSUME NEW i \in 1 .. Len(l), NEW j \in 1 .. Len(l), l[i] = l[j]
         PROVE  i = j
    <3>1. CASE /\ i \in 1 .. n /\ l[i] = CallItem(f[i])
               /\ j \in 1 .. n /\ l[j] = CallItem(f[j])
      <4>1. f[i] = f[j]
        BY <2>4, <2>10, <3>1, CallItemInjective
      <4>2. QED BY <2>1, <3>1, <4>1
    <3>2. CASE i \in 1 .. n /\ l[i] = CallItem(f[i]) /\ l[j] = a
      BY <2>2, <2>5, <2>10, <3>2
    <3>3. CASE j \in 1 .. n /\ l[j] = CallItem(f[j]) /\ l[i] = a
      BY <2>2, <2>5, <2>10, <3>3
    <3>4. QED BY <2>8, <2>10, <3>1, <3>2, <3>3
  <2>11. ASSUME NEW c \in m.calls
         PROVE  \E i \in 1 .. Len(l) : l[i] = CallItem(c)
    <3>1. PICK i \in 1 .. n : f[i] = c
      BY <2>1, <2>11
    <3>2. i \in 1 .. Len(l) /\ l[i] = CallItem(c)
      BY <2>1, <2>6, <2>7, <3>1
    <3>3. QED BY <3>2
  <2>12. QED BY <1>4, <2>3, <2>7, <2>9, <2>10, <2>11
<1>5. QED BY <1>1, <1>3, <1>4

\* A row for each request and role.
RowsOK(q) ==
    /\ q \in Seq(Rows)
    /\ \A i \in 1 .. Len(q) : RowOK(q[i])
    /\ \A i, j \in 1 .. Len(q) :
          q[i].role = q[j].role /\ q[i].request = q[j].request => i = j

OnceEach(q) == \A i, j \in 1 .. Len(q) : q[i] = q[j] => i = j

LEMMA Concatenated ==
    \A S : \A f, l \in Seq(S) :
        /\ f \o l \in Seq(S) /\ Len(f \o l) = Len(f) + Len(l)
        /\ \A i \in 1 .. Len(f) : (f \o l)[i] = f[i]
        /\ \A i \in 1 .. Len(l) : (f \o l)[Len(f) + i] = l[i]
  OBVIOUS

\* What buildItems returns has each item once, and every live call.
ItemsComplete ==
    /\ IsInjective(Items)
    /\ \A i \in DOMAIN live : Contains(Items, CallItem(live[i]))

LEMMA ItemsOnce ==
    ASSUME RowsOK(messages), live \in Seq(Calls), OnceEach(live)
    PROVE  ItemsComplete
<1> DEFINE n == Len(messages)
           k == Len(live)
           g == [i \in DOMAIN messages |-> ItemsOf(messages[i])]
           h == [i \in DOMAIN live |-> Uncommitted(live[i])]
           q == g \o h
<1>1. /\ n \in Nat /\ DOMAIN messages = 1 .. n /\ messages \in Seq(Rows)
      /\ k \in Nat /\ DOMAIN live = 1 .. k
      /\ \A i \in 1 .. n : RowOK(messages[i])
      /\ \A i \in 1 .. k : live[i] \in Calls
  BY DEF RowsOK
<1>2. \A i \in 1 .. n : ItemsOf(messages[i]) \in Seq(ItemSet)
  BY <1>1, RowItems
<1>3. \A c \in Calls : Uncommitted(c) \in Seq(ItemSet)
  <2> SUFFICES ASSUME NEW c \in Calls PROVE Uncommitted(c) \in Seq(ItemSet)
    OBVIOUS
  <2> DEFINE e == CallItem(c)
  <2>1. e \in ItemSet
    BY CallItemInjective
  <2> HIDE DEF e
  <2>2. <<>> \in Seq(ItemSet) /\ <<e>> \in Seq(ItemSet)
    BY <2>1
  <2>3. QED BY <2>2 DEF Uncommitted, e
<1> DEFINE Lists == Seq(ItemSet)
<1>4. /\ g \in Seq(Lists) /\ Len(g) = n /\ h \in Seq(Lists) /\ Len(h) = k
      /\ \A i \in 1 .. n : g[i] = ItemsOf(messages[i])
      /\ \A i \in 1 .. k : h[i] = Uncommitted(live[i])
  <2>1. \A i \in 1 .. n : ItemsOf(messages[i]) \in Lists
    BY <1>2
  <2>2. \A i \in 1 .. k : Uncommitted(live[i]) \in Lists
    BY <1>1, <1>3
  <2> HIDE DEF Lists
  <2>3. QED BY <1>1, <2>1, <2>2
<1> HIDE DEF g, h
<1>5. /\ q \in Seq(Lists) /\ Len(q) = n + k
      /\ \A i \in 1 .. n : q[i] = ItemsOf(messages[i])
      /\ \A i \in 1 .. k : q[n + i] = Uncommitted(live[i])
  <2> HIDE DEF Lists
  <2>1. g \in Seq(Lists) /\ h \in Seq(Lists) /\ Len(g) = n /\ Len(h) = k
    BY <1>4
  <2> HIDE DEF n, k
  <2>2. /\ q \in Seq(Lists) /\ Len(q) = Len(g) + Len(h)
        /\ \A i \in 1 .. Len(g) : q[i] = g[i]
        /\ \A i \in 1 .. Len(h) : q[Len(g) + i] = h[i]
    <3>1. g \in Seq(Lists) /\ h \in Seq(Lists)
      BY <2>1
    <3>2. \A f, l \in Seq(Lists) :
        /\ f \o l \in Seq(Lists) /\ Len(f \o l) = Len(f) + Len(l)
        /\ \A i \in 1 .. Len(f) : (f \o l)[i] = f[i]
        /\ \A i \in 1 .. Len(l) : (f \o l)[Len(f) + i] = l[i]
      BY Concatenated
    <3> HIDE DEF Lists
    <3>3. q \in Seq(Lists)
      BY ONLY <3>1, <3>2
    <3>4. Len(q) = Len(g) + Len(h)
      BY ONLY <3>1, <3>2
    <3>5. \A i \in 1 .. Len(g) : q[i] = g[i]
      BY ONLY <3>1, <3>2
    <3>6. QED BY ONLY <3>1, <3>2, <3>3, <3>4, <3>5
  <2> HIDE DEF q
  <2>3. QED BY <1>4, <2>1, <2>2
<1>6. Items = FlattenSeq(q)
  BY DEF Items, g, h
<1> HIDE DEF q
\* Each list is that of a message or of a live call.
<1>7. \A j \in 1 .. Len(q) : \/ j \in 1 .. n /\ q[j] = ItemsOf(messages[j])
                             \/ /\ j - n \in 1 .. k
                                /\ q[j] = Uncommitted(live[j - n])
  <2> SUFFICES ASSUME NEW j \in 1 .. Len(q), ~(j \in 1 .. n)
               PROVE  j - n \in 1 .. k /\ q[j] = Uncommitted(live[j - n])
    BY <1>5
  <2>1. j - n \in 1 .. k /\ n + (j - n) = j
    BY <1>1, <1>5
  <2>2. QED BY <1>5, <2>1
<1>8. ASSUME NEW c \in Calls, NEW i \in 1 .. Len(Uncommitted(c))
      PROVE  i = 1 /\ Uncommitted(c)[i] = CallItem(c) /\ c \notin Committed
  <2> DEFINE e == CallItem(c)
  <2> HIDE DEF e
  <2>1. CASE c \in Committed
    <3>1. Uncommitted(c) = <<>>
      BY <2>1 DEF Uncommitted
    <3>2. QED BY <1>8, <3>1
  <2>2. CASE c \notin Committed
    <3>1. Uncommitted(c) = <<e>>
      BY <2>2 DEF Uncommitted, e
    <3>2. i = 1 /\ Uncommitted(c)[i] = e
      BY <1>8, <3>1
    <3>3. QED BY <2>2, <3>2 DEF e
  <2>3. QED BY <2>1, <2>2
\* An item of a message is none of a live call that is in no message.
<1>9. ASSUME NEW j \in 1 .. n, NEW i \in 1 .. Len(ItemsOf(messages[j])),
             NEW c \in Calls, c \notin Committed
      PROVE  ItemsOf(messages[j])[i] # CallItem(c)
  <2> SUFFICES ASSUME ItemsOf(messages[j])[i] = CallItem(c) PROVE FALSE
    OBVIOUS
  <2>1. ItemsOf(messages[j])[i].kind = "tool_call" /\ RowOK(messages[j])
    BY <1>1, <1>9, CallItemInjective
  <2>2. PICK d \in messages[j].calls : ItemsOf(messages[j])[i] = CallItem(d)
    BY <1>9, <2>1, RowItems
  <2>3. d \in Calls /\ d \in Committed
    BY <1>1, <1>9, <2>1, <2>2 DEF RowOK, Rows, Committed
  <2>4. QED BY <1>9, <2>2, <2>3, CallItemInjective
<1>10. Distinct(q)
  <2> SUFFICES ASSUME NEW j \in 1 .. Len(q), NEW l \in 1 .. Len(q),
                      NEW i \in 1 .. Len(q[j]), NEW m \in 1 .. Len(q[l]),
                      q[j][i] = q[l][m]
               PROVE  j = l /\ i = m
    BY DEF Distinct
  <2>1. CASE /\ j \in 1 .. n /\ q[j] = ItemsOf(messages[j])
             /\ l \in 1 .. n /\ q[l] = ItemsOf(messages[l])
    <3>1. RowOK(messages[j]) /\ RowOK(messages[l])
      BY <1>1, <2>1
    <3>2. /\ q[j][i].request = messages[j].request
          /\ q[l][m].request = messages[l].request
          /\ q[j][i].kind = "user" <=> messages[j].role = "user"
          /\ q[l][m].kind = "user" <=> messages[l].role = "user"
      BY <2>1, <3>1, RowItems
    <3>3. /\ messages[j].role \in {"user", "assistant"}
          /\ messages[l].role \in {"user", "assistant"}
      BY <3>1 DEF RowOK, Rows
    <3>4. j = l
      BY <2>1, <3>2, <3>3 DEF RowsOK
    <3>5. QED BY <2>1, <3>1, <3>4, RowItems
  <2>2. CASE /\ j \in 1 .. n /\ q[j] = ItemsOf(messages[j])
             /\ l - n \in 1 .. k /\ q[l] = Uncommitted(live[l - n])
    <3>1. /\ live[l - n] \in Calls /\ live[l - n] \notin Committed
          /\ q[l][m] = CallItem(live[l - n])
      BY <1>1, <1>8, <2>2
    <3>2. QED BY <1>9, <2>2, <3>1
  <2>3. CASE /\ l \in 1 .. n /\ q[l] = ItemsOf(messages[l])
             /\ j - n \in 1 .. k /\ q[j] = Uncommitted(live[j - n])
    <3>1. /\ live[j - n] \in Calls /\ live[j - n] \notin Committed
          /\ q[j][i] = CallItem(live[j - n])
      BY <1>1, <1>8, <2>3
    <3>2. QED BY <1>9, <2>3, <3>1
  <2>4. CASE /\ j - n \in 1 .. k /\ q[j] = Uncommitted(live[j - n])
             /\ l - n \in 1 .. k /\ q[l] = Uncommitted(live[l - n])
    <3>1. /\ live[j - n] \in Calls /\ i = 1 /\ q[j][i] = CallItem(live[j - n])
          /\ live[l - n] \in Calls /\ m = 1 /\ q[l][m] = CallItem(live[l - n])
      BY <1>1, <1>8, <2>4
    <3>2. live[j - n] = live[l - n]
      BY <3>1, CallItemInjective
    <3>3. j - n = l - n
      BY <2>4, <3>2 DEF OnceEach
    <3>4. j \in Int /\ l \in Int
      OBVIOUS
    <3>5. QED BY <1>1, <3>1, <3>3, <3>4
  <2>5. QED BY <1>7, <2>1, <2>2, <2>3, <2>4
<1>11. Joined(q, Len(q), Items, ItemSet)
  BY <1>5, <1>6, <1>10, FlattenJoins
<1>12. IsInjective(Items)
  <2>1. Items \in Seq(ItemSet) /\ DOMAIN Items = 1 .. Len(Items)
    BY <1>11 DEF Joined
  <2>2. QED BY <1>11, <2>1 DEF Joined, IsInjective
<1>13. \A j \in 1 .. Len(q) : \A i \in 1 .. Len(q[j]) :
          \E x \in 1 .. Len(Items) : Items[x] = q[j][i]
  BY <1>11 DEF Joined
<1>14. ASSUME NEW i \in DOMAIN live PROVE Contains(Items, CallItem(live[i]))
  <2> DEFINE c == live[i]
  <2>1. i \in 1 .. k /\ c \in Calls
    BY <1>1, <1>14
  <2> HIDE DEF c
  <2>2. CASE c \in Committed
    <3>1. PICK j \in 1 .. n : c \in messages[j].calls
      BY <1>1, <2>2 DEF Committed
    <3>2. PICK m \in 1 .. Len(ItemsOf(messages[j])) :
              ItemsOf(messages[j])[m] = CallItem(c)
      BY <1>1, <3>1, RowItems
    <3>3. q[j] = ItemsOf(messages[j]) /\ j \in 1 .. Len(q)
      BY <1>1, <1>5, <3>1
    <3>4. m \in 1 .. Len(q[j]) /\ q[j][m] = CallItem(c)
      BY <3>2, <3>3
    <3>5. \E x \in 1 .. Len(Items) : Items[x] = CallItem(c)
      BY <1>13, <3>3, <3>4
    <3>6. QED BY <3>5 DEF Contains, c
  <2>3. CASE c \notin Committed
    <3> DEFINE e == CallItem(c)
    <3> HIDE DEF e
    <3>1. n \in Nat /\ k \in Nat /\ Len(q) = n + k
      BY <1>1, <1>5
    <3> HIDE DEF n, k
    <3>7. n + i \in 1 .. Len(q)
      BY <2>1, <3>1
    <3> USE DEF n, k
    <3>2. q[n + i] = Uncommitted(c)
      BY <1>5, <2>1 DEF c
    <3>3. Uncommitted(c) = <<e>>
      BY <2>3 DEF Uncommitted, e
    <3>4. 1 \in 1 .. Len(q[n + i]) /\ q[n + i][1] = e
      BY <3>2, <3>3
    <3>5. \E x \in 1 .. Len(Items) : Items[x] = e
      BY <1>13, <3>7, <3>4
    <3>6. QED BY <3>5 DEF Contains, c, e
  <2>4. QED BY <2>2, <2>3
<1>15. QED BY <1>12, <1>14 DEF ItemsComplete

\* The page shows them all or none.
LEMMA TimelineOnce ==
    ASSUME ItemsComplete
    PROVE  EachCallShownOnce
<1>1. CASE loading \/ messages = <<>>
  <2>1. Timeline = <<>>
    BY <1>1 DEF Timeline
  <2>2. IsInjective(<<>>) /\ \A e : ~Contains(<<>>, e)
    BY DEF IsInjective, Contains
  <2>3. QED BY <1>1, <2>1, <2>2 DEF EachCallShownOnce
<1>2. CASE ~loading /\ messages # <<>>
  <2>1. Timeline = Items
    BY <1>2 DEF Timeline
  <2>2. QED BY <1>2, <2>1 DEF EachCallShownOnce, ItemsComplete
<1>3. QED BY <1>1, <1>2

\* The request of a row was registered, and has its answer if the row is one.
RowKnown(w) ==
    /\ request[w.request] # "new"
    /\ w.role = "assistant" => request[w.request] = "200"
RowKnownNext(w) ==
    /\ request'[w.request] # "new"
    /\ w.role = "assistant" => request'[w.request] = "200"

\* Each session's table has one row for each request and role, and so has what
\* was read of it; no call is live twice.
StoredInv ==
    \A s \in Sessions :
        RowsOK(rows[s]) /\ \A i \in 1 .. Len(rows[s]) : RowKnown(rows[s][i])
ReadInv ==
    /\ RowsOK(messages) /\ \A f \in fetches : RowsOK(f.rows)
    /\ OnceEach(live)

LEMMA RowKnownStays ==
    ASSUME SessionTypeOK, [SessionNext]_sessionVars, NEW w \in Rows, RowKnown(w)
    PROVE  RowKnownNext(w)
<1> DEFINE r == w.request
<1>1. r \in Requests /\ request[r] # "new"
  BY DEF Rows, RowKnown
<1> HIDE DEF r
<1>2. request'[r] # "new"
  BY <1>1
     DEF SessionTypeOK, SessionNext, sessionVars, Chat, NotSaved, Limited,
         Created, Prompt, SendResponse, Resume, Cancel, Abort, RecordToolCall,
         ToolThrows, AgentEnd, PromptFails, ChatFails, PromptOver, AwaitIdle
<1>3. request[r] = "200" => request'[r] = "200"
  BY <1>1
     DEF SessionTypeOK, SessionNext, sessionVars, Chat, NotSaved, Limited,
         Created, Prompt, SendResponse, Resume, Cancel, Abort, RecordToolCall,
         ToolThrows, AgentEnd, PromptFails, ChatFails, PromptOver, AwaitIdle
<1>4. QED BY <1>2, <1>3 DEF RowKnown, RowKnownNext, r

\* A row for a request and a role that have none yet.
LEMMA RowAppended ==
    ASSUME NEW q, RowsOK(q), NEW w, RowOK(w),
           \A i \in 1 .. Len(q) : ~(q[i].role = w.role /\ q[i].request = w.request)
    PROVE  /\ RowsOK(Append(q, w))
           /\ \A i \in 1 .. Len(Append(q, w)) :
                 \/ i \in 1 .. Len(q) /\ Append(q, w)[i] = q[i]
                 \/ Append(q, w)[i] = w
<1> DEFINE l == Append(q, w)
           n == Len(q)
<1>1. q \in Seq(Rows) /\ w \in Rows /\ n \in Nat
  BY DEF RowsOK, RowOK
<1>2. /\ l \in Seq(Rows) /\ Len(l) = n + 1 /\ l[n + 1] = w
      /\ \A i \in 1 .. n : l[i] = q[i]
  BY <1>1
<1> HIDE DEF l, n
<1>3. \A i \in 1 .. Len(l) : \/ i \in 1 .. n /\ l[i] = q[i]
                             \/ i = n + 1 /\ l[i] = w
  BY <1>1, <1>2
<1>4. \A i \in 1 .. Len(l) : RowOK(l[i])
  BY <1>3 DEF RowsOK, n
<1>5. ASSUME NEW i \in 1 .. Len(l), NEW j \in 1 .. Len(l),
             l[i].role = l[j].role, l[i].request = l[j].request
      PROVE  i = j
  <2>1. CASE i \in 1 .. n /\ l[i] = q[i] /\ j \in 1 .. n /\ l[j] = q[j]
    BY <1>5, <2>1 DEF RowsOK, n
  <2>2. CASE i \in 1 .. n /\ l[i] = q[i] /\ l[j] = w
    BY <1>5, <2>2 DEF n
  <2>3. CASE j \in 1 .. n /\ l[j] = q[j] /\ l[i] = w
    BY <1>5, <2>3 DEF n
  <2>4. QED BY <1>3, <1>5, <2>1, <2>2, <2>3
<1>6. RowsOK(l)
  BY <1>2, <1>4, <1>5 DEF RowsOK
<1>7. QED BY <1>3, <1>6 DEF l, n

\* The row that POST /chat stores.
LEMMA StoreStep ==
    ASSUME SessionTypeOK, [SessionNext]_sessionVars, PageTypes, StoredInv,
           NEW s \in Sessions, NEW role, NEW r, NEW cs,
           AddMessage(s, role, r, cs),
           RowOK([role |-> role, request |-> r, calls |-> cs]),
           RowKnownNext([role |-> role, request |-> r, calls |-> cs]),
           \A i \in 1 .. Len(rows[s]) :
              ~(rows[s][i].role = role /\ rows[s][i].request = r)
    PROVE  StoredInv'
<1> DEFINE w == [role |-> role, request |-> r, calls |-> cs]
<1>1. /\ RowOK(w) /\ RowKnownNext(w)
      /\ \A i \in 1 .. Len(rows[s]) :
            ~(rows[s][i].role = w.role /\ rows[s][i].request = w.request)
  OBVIOUS
<1>2. rows' = [rows EXCEPT ![s] = Append(rows[s], w)]
  BY DEF AddMessage, PageTypes
<1> HIDE DEF w
<1>3. ASSUME NEW t \in Sessions
      PROVE  /\ RowsOK(rows[t])
             /\ \A i \in 1 .. Len(rows[t]) : RowKnownNext(rows[t][i])
  <2>1. RowsOK(rows[t]) /\ \A i \in 1 .. Len(rows[t]) : RowKnown(rows[t][i])
    BY DEF StoredInv
  <2>2. ASSUME NEW i \in 1 .. Len(rows[t]) PROVE rows[t][i] \in Rows
    BY <2>1 DEF RowsOK, RowOK
  <2>3. QED BY <2>1, <2>2, RowKnownStays
<1> DEFINE q == rows[s]
<1> DEFINE l == Append(q, w)
<1>4. /\ RowsOK(l)
      /\ \A i \in 1 .. Len(l) : \/ i \in 1 .. Len(q) /\ l[i] = q[i]
                                \/ l[i] = w
  <2>1. RowsOK(q)
    BY <1>3
  <2>2. \A i \in 1 .. Len(q) : ~(q[i].role = w.role /\ q[i].request = w.request)
    BY <1>1
  <2> HIDE DEF q
  <2>3. QED BY <1>1, <2>1, <2>2, RowAppended
<1>5. ASSUME NEW i \in 1 .. Len(l) PROVE RowKnownNext(l[i])
  <2>1. CASE i \in 1 .. Len(q) /\ l[i] = q[i]
    BY <1>3, <2>1
  <2>2. CASE l[i] = w
    BY <1>1, <2>2
  <2>3. QED BY <1>4, <1>5, <2>1, <2>2
<1> HIDE DEF l, q
<1>6. ASSUME NEW t \in Sessions
      PROVE  /\ RowsOK(rows'[t])
             /\ \A i \in 1 .. Len(rows'[t]) : RowKnownNext(rows'[t][i])
  <2>1. CASE t = s
    <3>1. rows'[t] = l
      BY <1>2, <2>1 DEF PageTypes, l, q
    <3>2. QED BY <1>4, <1>5, <3>1
  <2>2. CASE t # s
    <3>1. rows'[t] = rows[t]
      BY <1>2, <2>2 DEF PageTypes
    <3>2. QED BY <1>3, <3>1
  <2>3. QED BY <2>1, <2>2
<1>7. QED BY <1>6 DEF StoredInv, RowKnown, RowKnownNext

LEMMA StoredStays ==
    ASSUME SessionTypeOK, [SessionNext]_sessionVars, StoredInv, UNCHANGED rows
    PROVE  StoredInv'
<1>1. ASSUME NEW t \in Sessions
      PROVE  /\ RowsOK(rows[t])
             /\ \A i \in 1 .. Len(rows[t]) : RowKnownNext(rows[t][i])
  <2>1. RowsOK(rows[t]) /\ \A i \in 1 .. Len(rows[t]) : RowKnown(rows[t][i])
    BY DEF StoredInv
  <2>2. ASSUME NEW i \in 1 .. Len(rows[t]) PROVE rows[t][i] \in Rows
    BY <2>1 DEF RowsOK, RowOK
  <2>3. QED BY <2>1, <2>2, RowKnownStays
<1>2. QED BY <1>1 DEF StoredInv, RowKnown, RowKnownNext

\* POST /chat stores the user's message once for each request, and its answer
\* once: a prompt that ends again has no request that still runs.
LEMMA StoredStep ==
    ASSUME SessionTypeOK, SessionTypeOK', AgentsInv, SessionsKnown,
           CallsFinite', ReturnsOwnCalls', PageTypes, StoredInv, [Next]_vars
    PROVE  StoredInv'
<1>1. [SessionNext]_sessionVars
  BY StepIsSessionStep
<1>2. ASSUME NEW s \in Sessions, NEW i \in 1 .. Len(rows[s])
      PROVE  RowKnown(rows[s][i])
  BY DEF StoredInv
<1>3. ASSUME NEW r \in Requests, NEW s \in Sessions, Ask(r, s)
      PROVE  StoredInv'
  <2> DEFINE w == [role |-> "user", request |-> r, calls |-> {}]
  <2>1. AddMessage(s, "user", r, {}) /\ Chat(r, s)
    BY <1>3 DEF Ask
  <2>2. request[r] = "new" /\ request'[r] # "new"
    BY <2>1 DEF Chat, AwaitIdle, SessionTypeOK
  <2>3. RowOK(w)
    BY FS_EmptySet DEF RowOK, Rows
  <2>4. RowKnownNext(w)
    BY <2>2 DEF RowKnownNext
  <2>5. \A i \in 1 .. Len(rows[s]) :
            ~(rows[s][i].role = "user" /\ rows[s][i].request = r)
    BY <1>2, <2>2 DEF RowKnown
  <2>6. QED BY <1>1, <2>1, <2>3, <2>4, <2>5, StoreStep
<1>4. ASSUME NEW a \in Requests, Answer(a) PROVE StoredInv'
  <2> DEFINE r == prompting[a]
             s == sessionOf[r]
             cs == returned'[r]
             w == [role |-> "assistant", request |-> r, calls |-> cs]
  <2>1. CASE request[r] = "running" /\ AddMessage(s, "assistant", r, cs)
    <3>1. r \in Requests /\ s \in Sessions
      BY <1>4, CurrentOf DEF Answer, AgentEnd
    <3>2. /\ cs \in SUBSET Calls /\ IsFiniteSet(cs)
          /\ \A c \in cs : c[1] = r
      BY <3>1 DEF SessionTypeOK, CallsFinite, ReturnsOwnCalls
    <3>3. request'[r] = "200"
      BY <1>4, <2>1, <3>1 DEF Answer, AgentEnd, PromptOver
    <3> HIDE DEF r, s, cs
    <3>4. RowOK(w)
      BY <3>1, <3>2 DEF RowOK, Rows
    <3>5. RowKnownNext(w)
      BY <3>3 DEF RowKnownNext
    <3>6. \A i \in 1 .. Len(rows[s]) :
              ~(rows[s][i].role = "assistant" /\ rows[s][i].request = r)
      BY <1>2, <2>1, <3>1 DEF RowKnown
    <3>7. QED BY <1>1, <2>1, <3>1, <3>4, <3>5, <3>6, StoreStep
  <2>2. CASE UNCHANGED rows
    BY <1>1, <2>2, StoredStays
  <2>3. QED BY <1>4, <2>1, <2>2 DEF Answer
<1>5. CASE UNCHANGED rows
  BY <1>1, <1>5, StoredStays
<1>6. QED
  BY <1>3, <1>4, <1>5
     DEF Next, vars, ToolCallUpdate, Unanswered, Unseen, Receive, Connect, Drop,
         ReadMessages, Answered, TimerFires, OpenTrace

LEMMA NewLive ==
    ASSUME NEW q \in Seq(Calls), OnceEach(q), NEW c \in Calls, ~Contains(q, c)
    PROVE  OnceEach(Append(q, c))
<1> DEFINE l == Append(q, c)
           n == Len(q)
<1>1. /\ n \in Nat /\ Len(l) = n + 1 /\ l[n + 1] = c
      /\ \A i \in 1 .. n : l[i] = q[i]
  OBVIOUS
<1> HIDE DEF l, n
<1>2. \A i \in 1 .. Len(l) : i \in 1 .. n \/ i = n + 1
  BY <1>1
<1>3. \A i \in 1 .. n : q[i] # c
  BY DEF Contains, n
<1>4. ASSUME NEW i \in 1 .. Len(l), NEW j \in 1 .. Len(l), l[i] = l[j]
      PROVE  i = j
  <2>1. CASE i \in 1 .. n /\ j \in 1 .. n
    BY <1>1, <1>4, <2>1 DEF OnceEach, n
  <2>2. CASE i = n + 1 /\ j = n + 1
    BY <2>2
  <2>3. CASE i \in 1 .. n /\ j = n + 1
    BY <1>1, <1>3, <1>4, <2>3
  <2>4. CASE i = n + 1 /\ j \in 1 .. n
    BY <1>1, <1>3, <1>4, <2>4
  <2>5. QED BY <1>2, <2>1, <2>2, <2>3, <2>4
<1>5. QED BY <1>4 DEF OnceEach, l

LEMMA NothingRead == RowsOK(<<>>)
<1>1. <<>> \in Seq(Rows) /\ 1 .. Len(<<>>) = {}
  OBVIOUS
<1>2. QED BY <1>1 DEF RowsOK

LEMMA ReadStep ==
    ASSUME LiveInv, PageTypes, StoredInv, ReadInv, [Next]_vars
    PROVE  ReadInv'
<1>1. ASSUME UNCHANGED messages, OnceEach(live'),
             \A f \in fetches' \ fetches : RowsOK(f.rows)
      PROVE  ReadInv'
  BY <1>1 DEF ReadInv, RowsOK, OnceEach
<1>2. \A s, v, c : RowsOK(Fetch(s, v, c).rows)
  BY NothingRead DEF Fetch
<1>3. OnceEach(live) /\ RowsOK(messages)
  BY DEF ReadInv
<1>4. CASE UNCHANGED <<messages, live, fetches>>
  BY <1>1, <1>3, <1>4
<1>5. ASSUME NEW f \in fetches, ReadMessages(f) PROVE ReadInv'
  <2> DEFINE g == [f EXCEPT !.read = TRUE, !.rows = rows[f.session]]
  <2>1. FetchOK(f, visits)
    BY DEF PageTypes
  <2>2. g.rows = rows[f.session] /\ RowsOK(rows[f.session])
    BY <2>1 DEF FetchOK, StoredInv
  <2>3. /\ fetches' = (fetches \ {f}) \cup {g}
        /\ UNCHANGED <<messages, live>>
    BY <1>5 DEF ReadMessages, pageVars
  <2> HIDE DEF g
  <2>4. QED BY <1>1, <1>3, <2>2, <2>3
<1>6. ASSUME NEW f \in fetches, Answered(f) PROVE ReadInv'
  <2>1. RowsOK(f.rows)
    BY DEF ReadInv
  <2>2. RowsOK(messages')
    <3>1. messages' \in {f.rows, messages, <<>>}
      BY <1>6 DEF Answered
    <3>2. QED BY <1>3, <2>1, <3>1, NothingRead
  <2>3. fetches' \subseteq fetches /\ live' = live
    BY <1>6 DEF Answered
  <2>4. QED BY <2>2, <2>3 DEF ReadInv
<1>7. CASE Receive
  <2> DEFINE c == Head(inbox).call
  <2>1. c \in Calls
    <3>1. Head(inbox) \in Events
      BY <1>7 DEF Receive, LiveInv
    <3>2. QED BY <3>1 DEF Events
  <2>2. live' = live \/ (~Contains(live, c) /\ live' = Append(live, c))
    BY <1>7 DEF Receive
  <2> HIDE DEF c
  <2>3. OnceEach(live')
    BY <1>3, <2>1, <2>2, NewLive DEF LiveInv
  <2>4. UNCHANGED messages /\ \A f \in fetches' \ fetches : RowsOK(f.rows)
    BY <1>2, <1>7 DEF Receive
  <2>5. QED BY <1>1, <2>3, <2>4
<1>8. ASSUME NEW t \in timers, TimerFires(t) PROVE ReadInv'
  BY <1>1, <1>2, <1>3, <1>8 DEF TimerFires, pageVars
<1>9. ASSUME NEW s \in Sessions, OpenTrace(s) PROVE ReadInv'
  <2>1. messages' = <<>> /\ live' = <<>>
    BY <1>9 DEF OpenTrace, Clear
  <2>2. \A f \in fetches' : RowsOK(f.rows)
    BY <1>2, <1>9 DEF OpenTrace, ReadInv
  <2>3. OnceEach(<<>>)
    BY DEF OnceEach
  <2>4. QED BY <2>1, <2>2, <2>3, NothingRead DEF ReadInv
<1>10. QED
  BY <1>4, <1>5, <1>6, <1>7, <1>8, <1>9
     DEF Next, vars, pageVars, netVars, Ask, ToolCallUpdate, Answer,
         Unanswered, Unseen, Connect, Drop

\* The trace shows every item once, and, once it is loaded and the session has
\* a message, every call the page was told of: live calls give way to the stored
\* ones whichever answer comes last.  A page that loads or has no message shows
\* none.
THEOREM ItemsCorrect == Spec => []EachCallShownOnce
<1>1. Init => StoredInv /\ ReadInv
  <2> SUFFICES ASSUME Init PROVE StoredInv /\ ReadInv
    OBVIOUS
  <2>1. /\ rows = [s \in Sessions |-> <<>>] /\ messages = <<>> /\ live = <<>>
        /\ fetches = {Fetch(open, 1, <<>>)}
    BY DEF Init
  <2>2. \A s \in Sessions : rows[s] = <<>>
    BY <2>1
  <2>3. Fetch(open, 1, <<>>).rows = <<>> /\ Len(<<>>) = 0
    BY DEF Fetch
  <2>4. StoredInv
    BY <2>2, <2>3, NothingRead DEF StoredInv
  <2>5. ReadInv
    BY <2>1, <2>3, NothingRead DEF ReadInv, OnceEach
  <2>6. QED BY <2>4, <2>5
<1>2. /\ SessionTypeOK /\ SessionTypeOK' /\ AgentsInv /\ ReturnsOwnCalls'
      /\ PageInv /\ PageInv'
      /\ StoredInv /\ ReadInv /\ [Next]_vars
      => (StoredInv /\ ReadInv)'
  BY StoredStep, ReadStep DEF PageInv
<1>3. PageInv /\ ReadInv => EachCallShownOnce
  BY ItemsOnce, TimelineOnce DEF PageInv, LiveInv, ReadInv
<1>4. QED
  BY <1>1, <1>2, <1>3, PageInvariant, TraceRefinesSession,
     SessionTypeCorrect, AgentsCorrect, OwnCallsReturned, PTL DEF Spec
=============================================================================
