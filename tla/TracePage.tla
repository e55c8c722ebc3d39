----------------------------- MODULE TracePage ------------------------------
(***************************************************************************)
(* The trace of a session (frontend/src/pages/TraceDetailPage.tsx), kept   *)
(* up to date while requests of the session are in progress: ChatSession   *)
(* with what POST /chat stores and broadcasts, and one browser.            *)
(*                                                                         *)
(* The page shows the session's messages, with the tool calls stored in    *)
(* them, and the tool calls it was told of that are in no message yet.  It *)
(* asks for the messages when it opens, 1.5 s after it was told of a tool  *)
(* call, and when it is told that an execution was stored.  The answers    *)
(* come in any order and replace the messages; none is tied to the session *)
(* that is open by then.  Which item is selected is left out.              *)
(***************************************************************************)
EXTENDS ChatSession, SequencesExt

CONSTANTS
    MaxVisits,  \* bound on the times a session is opened
    MaxLost     \* bound on failed fetches and lost connections

ASSUME TraceAssumption == MaxVisits \in Nat \ {0} /\ MaxLost \in Nat

VARIABLES
    rows,       \* the rows of each session in the table chat_messages
    open,       \* the session in the page's URL
    visits,     \* how many times the effect that loads it has run
    messages,   \* messages
    live,       \* liveToolCalls
    loading,    \* loading
    connected,  \* the page's WebSocket is open
    inbox,      \* events on their way to the page
    timers,     \* the timers of the page, with the session they will ask for
    fetches,    \* the GETs of messages that are not answered yet
    lost        \* how many fetches and connections have failed

pageVars == <<open, visits, messages, live, loading>>
netVars  == <<connected, inbox, timers, fetches, lost>>
vars     == <<sessionVars, pageVars, netVars, rows>>

Rows   == [role : {"user", "assistant"}, request : Requests,
           calls : SUBSET Calls]
Events == [type : {"tool_call_update", "execution_update"}, call : Calls,
           session : Sessions]

TypeOK ==
    /\ SessionTypeOK
    /\ rows \in [Sessions -> Seq(Rows)]
    /\ open \in Sessions
    /\ visits \in 1 .. MaxVisits
    /\ messages \in Seq(Rows)
    /\ live \in Seq(Calls)
    /\ loading \in BOOLEAN
    /\ connected \in BOOLEAN
    /\ inbox \in Seq(Events)
    /\ timers \in SUBSET (Sessions \X Calls)
    /\ \A f \in fetches : /\ f.session \in Sessions
                          /\ f.visit \in 0 .. visits
                          /\ f.read \in BOOLEAN
                          /\ f.rows \in Seq(Rows)
    /\ lost \in 0 .. MaxLost

-----------------------------------------------------------------------------
(* The API server *)

Broadcast(events) == inbox' = IF connected THEN inbox \o events ELSE inbox

\* ChatStore.addMessage
AddMessage(s, role, r, cs) ==
    rows' = [rows EXCEPT ![s] =
                Append(@, [role |-> role, request |-> r, calls |-> cs])]

\* POST /chat stores the user's message before runChat.
Ask(r, s) ==
    /\ Chat(r, s)
    /\ AddMessage(s, "user", r, {})
    /\ UNCHANGED <<pageVars, netVars>>

\* recordToolCall broadcasts the call, also one of a cancelled request.
ToolCallUpdate(a) ==
    /\ RecordToolCall(a)
    /\ Broadcast(<<[type |-> "tool_call_update", call |-> Current(a),
                    session |-> sessionOf[prompting[a]]]>>)
    /\ UNCHANGED <<pageVars, connected, timers, fetches, lost, rows>>

\* Each execution that is stored is broadcast.
ExecutionUpdates(cs, s) ==
    Broadcast([i \in 1 .. Cardinality(cs) |->
        [type |-> "execution_update", call |-> SetToSeq(cs)[i], session |-> s]])

\* The prompt has ended: POST /chat stores and broadcasts the executions, and
\* stores the answer with its tool calls, unless the request was cancelled.
Answer(a) ==
    LET r == prompting[a]
        s == sessionOf[r]
    IN  /\ AgentEnd(a)
        /\ \/ /\ request[r] = "running"
              /\ ExecutionUpdates(returned'[r], s)
              /\ AddMessage(s, "assistant", r, returned'[r])
           \/ request[r] # "running" /\ UNCHANGED <<inbox, rows>>
        /\ UNCHANGED <<pageVars, connected, timers, fetches, lost>>

\* The prompt throws, or an insert after it, when the executions in saved have
\* been stored and broadcast: no answer is stored.
Unanswered(a) ==
    LET r == prompting[a]
    IN  /\ r # None
        /\ \E saved \in SUBSET ToolCallsOf(r) :
              /\ ChatFails(a, saved)
              /\ ExecutionUpdates(saved, sessionOf[r])
        /\ UNCHANGED <<pageVars, connected, timers, fetches, lost, rows>>

\* The other steps of ChatSession tell the page nothing.
Unseen ==
    /\ \/ \E r \in Requests : \/ Limited(r) \/ Created(r) \/ Resume(r) \/ Cancel(r)
                              \/ ToolThrows(r)
       \/ \E r \in Requests, s \in Sessions : NotSaved(r, s)
    /\ UNCHANGED <<pageVars, netVars, rows>>

\* GET /chats/:sessionId
ReadMessages(f) ==
    /\ f \in fetches /\ ~f.read
    /\ fetches' = (fetches \ {f}) \cup
          {[f EXCEPT !.read = TRUE, !.rows = rows[f.session]]}
    /\ UNCHANGED <<sessionVars, pageVars, connected, inbox, timers, lost, rows>>

-----------------------------------------------------------------------------
(* The page *)

\* A GET for session s: the effect's, with the number of its visit, or that of a
\* timer or an event, with its tool call.
Fetch(s, visit, cause) ==
    [session |-> s, visit |-> visit, cause |-> cause, read |-> FALSE, rows |-> <<>>]

\* Mutant: the tool calls of the session that was open stay.
KeepLive(s) ==
    /\ open' = s
    /\ messages' = <<>>
    /\ loading' = TRUE
    /\ UNCHANGED live

\* The effect that depends on sessionId empties the page.
Clear(s) ==
    /\ open' = s
    /\ messages' = <<>>
    /\ live' = <<>>
    /\ loading' = TRUE

\* The user opens the trace of another session: the same component goes on, with
\* its connection, its timers and the answers it waits for.
OpenTrace(s) ==
    /\ s # open /\ visits < MaxVisits
    /\ visits' = visits + 1
    /\ Clear(s)
    /\ fetches' = fetches \cup {Fetch(s, visits', <<>>)}
    /\ UNCHANGED <<sessionVars, connected, inbox, timers, lost, rows>>

\* Mutant: an answer ends the loading, a failure does not.
LoadingAfterFailure(f) == loading /\ (f.visit = 0 \/ lost' > lost)

\* The effect's fetch ends the loading, answered or failed, whichever session is
\* loading by then.
LoadingAfter(f) == loading /\ f.visit = 0

\* An answer replaces the messages.  The fetch may fail: an error status with a
\* body has no messages, which empties the page; anything else is ignored.
Answered(f) ==
    /\ f \in fetches
    /\ fetches' = fetches \ {f}
    /\ \/ f.read /\ messages' = f.rows /\ UNCHANGED lost
       \/ lost < MaxLost /\ lost' = lost + 1 /\ messages' \in {messages, <<>>}
    /\ loading' = LoadingAfter(f)
    /\ UNCHANGED <<sessionVars, open, visits, live, connected, inbox, timers, rows>>

\* The page's handler of WebSocket events.
Receive ==
    /\ inbox # <<>>
    /\ inbox' = Tail(inbox)
    /\ LET e == Head(inbox)
       IN  \/ /\ e.session = open /\ e.type = "tool_call_update"
              /\ live' = IF Contains(live, e.call) THEN live
                         ELSE Append(live, e.call)
              /\ timers' = timers \cup {<<open, e.call>>}
              /\ UNCHANGED fetches
           \/ /\ e.session = open /\ e.type = "execution_update"
              /\ fetches' = fetches \cup {Fetch(open, 0, <<e.type, e.call>>)}
              /\ UNCHANGED <<live, timers>>
           \/ e.session # open /\ UNCHANGED <<live, timers, fetches>>
    /\ UNCHANGED <<sessionVars, open, visits, messages, loading, connected, lost,
                   rows>>

\* setTimeout(fetchMessages, 1500), with the session that was open then.
TimerFires(t) ==
    /\ t \in timers
    /\ timers' = timers \ {t}
    /\ fetches' = fetches \cup {Fetch(t[1], 0, <<"timer", t[2]>>)}
    /\ UNCHANGED <<sessionVars, pageVars, connected, inbox, lost, rows>>

\* useWebSocket connects, and again after the connection was lost.
Connect ==
    /\ ~connected
    /\ connected' = TRUE
    /\ UNCHANGED <<sessionVars, pageVars, inbox, timers, fetches, lost, rows>>

Drop ==
    /\ connected /\ lost < MaxLost
    /\ connected' = FALSE
    /\ inbox' = <<>>
    /\ lost' = lost + 1
    /\ UNCHANGED <<sessionVars, pageVars, timers, fetches, rows>>

-----------------------------------------------------------------------------
Init ==
    /\ SessionInit
    /\ rows = [s \in Sessions |-> <<>>]
    /\ open \in Sessions
    /\ visits = 1
    /\ messages = <<>>
    /\ live = <<>>
    /\ loading = TRUE
    /\ connected = FALSE
    /\ inbox = <<>>
    /\ timers = {}
    /\ fetches = {Fetch(open, 1, <<>>)}
    /\ lost = 0

Next ==
    \/ \E r \in Requests, s \in Sessions : Ask(r, s)
    \/ \E a \in Requests : ToolCallUpdate(a) \/ Answer(a) \/ Unanswered(a)
    \/ Unseen \/ Receive \/ Connect \/ Drop
    \/ \E f \in fetches : ReadMessages(f) \/ Answered(f)
    \/ \E t \in timers : TimerFires(t)
    \/ \E s \in Sessions : OpenTrace(s)

Spec == Init /\ [][Next]_vars

-----------------------------------------------------------------------------
(* What the page shows *)

Item(kind, r, n) == [kind |-> kind, request |-> r, number |-> n]
CallItem(c) == Item("tool_call", c[1], c[2])

Committed == UNION {messages[i].calls : i \in DOMAIN messages}

\* Mutant: a call that is in a message already is shown as a live one, too.
AllLive(c) == <<CallItem(c)>>
\* The item of a live tool call, if it is in no message yet.
Uncommitted(c) == IF c \in Committed THEN <<>> ELSE <<CallItem(c)>>

ItemsOf(m) ==
    IF m.role = "user" THEN <<Item("user", m.request, 0)>>
    ELSE [i \in 1 .. Cardinality(m.calls) |-> CallItem(SetToSeq(m.calls)[i])]
         \o <<Item("assistant", m.request, 0)>>

\* buildItems(messages, liveToolCalls)
Items == FlattenSeq([i \in DOMAIN messages |-> ItemsOf(messages[i])]
                    \o [i \in DOMAIN live |-> Uncommitted(live[i])])

\* The page returns early, with no item, while it loads and without a message.
Timeline == IF loading \/ messages = <<>> THEN <<>> ELSE Items

-----------------------------------------------------------------------------
(* Properties *)

\* No item appears twice, and a page with a timeline shows every call it was told
\* of: a live call gives way to the stored one, whichever answer comes last, also
\* if its request was cancelled or failed or shares its agent with others.  A
\* page that loads or has no message shows no call, told of or not.
EachCallShownOnce ==
    /\ IsInjective(Timeline)
    /\ \A i \in DOMAIN live :
          Contains(Timeline, CallItem(live[i])) <=> ~loading /\ messages # <<>>

\* The live calls are of the session that is open, whatever was on its way when
\* it was opened.
LiveInTheirSession == \A i \in DOMAIN live : sessionOf[live[i][1]] = open

\* The page says "Loading" only while the answer to the session that is open is
\* on its way: it is never stuck there, whichever fetch fails or comes first.
LoadingEnds == loading => \E f \in fetches : f.visit = visits
=============================================================================
