------------------------------ MODULE ChatPage ------------------------------
(***************************************************************************)
(* A user at the web app (frontend/src/pages/ChatPage.tsx, App.tsx and     *)
(* components/Sidebar.tsx), and what its fetches do at the API server:     *)
(* POST /chat with its rate limiter and ChatStore, and the /chats routes.  *)
(*                                                                         *)
(* Opening a session clears the page and asks for the session's history.   *)
(* Answers come in any order, and none is tied to the session that is open *)
(* when it comes.  When the page is left, nobody listens to the answers    *)
(* that are still on their way.                                            *)
(*                                                                         *)
(* activeRequestRef is set and reset in one step of the event loop: cancel *)
(* always finds it null and does nothing, so it is no action here.         *)
(***************************************************************************)
EXTENDS RateLimiter, FiniteSets

CONSTANTS
    Messages,   \* messages the user may send
    Sessions,   \* session ids
    None,       \* no session
    MaxOpens,   \* bound on the times a session is opened
    MaxDeletes, \* bound on the deletions
    MaxLost     \* bound on failed fetches

ASSUME PageAssumption == /\ None \notin Sessions
                         /\ MaxOpens \in Nat \ {0}
                         /\ MaxDeletes \in Nat
                         /\ MaxLost \in Nat

VARIABLES
    session,    \* sessionId, in App
    messages,   \* messages, in ChatPage
    sending,    \* sending, in ChatPage
    opens,      \* how many times the effect that loads the history has run
    histories,  \* the GETs of histories the page waits for
    pending,    \* the POSTs of messages the page waits for
    sentTo,     \* the session a message was sent to
    post,       \* the POST of a message at the API server
    rows,       \* the rows of each session in the table chat_messages
    deletions,  \* the DELETEs that are not answered yet
    deletes,    \* how many sessions the user has deleted
    lost        \* how many fetches have failed

pageVars == <<session, messages, sending, opens>>
userVars == <<histories, pending, sentTo, deletions, deletes, lost>>
vars == <<limiterVars, pageVars, userVars, post, rows>>

\* "unsaved" is the 500 of a message that could not be stored.
Statuses == {"200", "429", "500", "unsaved"}
Rows     == [role : {"user", "assistant"}, msg : Messages]
Items    == [msg : Messages, role : {"user", "assistant"}, bubble : BOOLEAN,
             text : {"text", "loading", "blank", "error"}]

\* The types of the variables.
TypeOK ==
    /\ LimiterTypeOK
    /\ session \in Sessions
    /\ messages \in Seq(Items)
    /\ sending \in BOOLEAN
    /\ opens \in 1 .. MaxOpens
    /\ \A h \in histories : /\ h.open \in 1 .. opens
                            /\ h.session \in Sessions
                            /\ h.read \in BOOLEAN
                            /\ h.rows \in Seq(Rows)
    /\ pending \in SUBSET Messages
    /\ sentTo \in [Messages -> Sessions \cup {None}]
    /\ post \in [Messages -> Statuses \cup {"unsent", "sent", "running"}]
    /\ rows \in [Sessions -> Seq(Rows)]
    /\ deletions \in SUBSET [session : Sessions, open : Sessions,
                             done : BOOLEAN]
    /\ deletes \in 0 .. MaxDeletes
    /\ lost \in 0 .. MaxLost

-----------------------------------------------------------------------------
(* ChatStore.  Its statements select the rows of one session. *)

AddMessage(s, role, m) ==
    rows' = [rows EXCEPT ![s] = Append(@, [role |-> role, msg |-> m])]

GetMessages(s) == rows[s]

DeleteSession(s) == rows' = [rows EXCEPT ![s] = <<>>]

-----------------------------------------------------------------------------
(* The page *)

Asked(k, s) == [open |-> k, session |-> s, read |-> FALSE, rows |-> <<>>]

\* Mutant: the messages of the session that was open stay.
KeepMessages(s) ==
    /\ opens < MaxOpens
    /\ opens' = opens + 1
    /\ session' = s
    /\ messages' = messages
    /\ histories' = histories \cup {Asked(opens', s)}

\* The effect that depends on sessionId.
LoadHistory(s) ==
    /\ opens < MaxOpens
    /\ opens' = opens + 1
    /\ session' = s
    /\ messages' = <<>>
    /\ histories' = histories \cup {Asked(opens', s)}

\* handleNewChat: an id that was never used.
NewSession == {s \in Sessions \ {session} : \A m \in Messages : sentTo[m] # s}

NewChat ==
    /\ \E s \in NewSession : LoadHistory(s)
    /\ UNCHANGED <<limiterVars, sending, pending, sentTo, deletions,
                   deletes, lost, post, rows>>

\* The sidebar lists the sessions with a message of the user, and those it was
\* told of before they were deleted.
Listed == {sentTo[m] : m \in {n \in Messages : post[n] \in
                                    {"running", "200", "500"}}}

SelectSession(s) ==
    /\ s \in Listed \ {session}
    /\ LoadHistory(s)
    /\ UNCHANGED <<limiterVars, sending, pending, sentTo, deletions,
                   deletes, lost, post, rows>>

\* The user goes to another page and back: a new instance of ChatPage, which
\* knows nothing of what the last one waits for.
Remount ==
    /\ opens < MaxOpens
    /\ opens' = opens + 1
    /\ messages' = <<>>
    /\ sending' = FALSE
    /\ histories' = {Asked(opens', session)}
    /\ pending' = {}
    /\ UNCHANGED <<limiterVars, session, sentTo, deletions, deletes, lost, post,
                   rows>>

Loaded(r) == [msg |-> r.msg, role |-> r.role, bubble |-> FALSE, text |-> "text"]

\* The answer to GET /chats/:sessionId replaces the messages, whatever they are.
\* The fetch may fail: an error status with a body has no messages, which empties
\* the page; anything else is ignored.
HistoryAnswered(h) ==
    /\ h \in histories
    /\ histories' = histories \ {h}
    /\ \/ /\ h.read
          /\ messages' = [i \in 1 .. Len(h.rows) |-> Loaded(h.rows[i])]
          /\ UNCHANGED lost
       \/ lost < MaxLost /\ lost' = lost + 1 /\ messages' \in {messages, <<>>}
    /\ UNCHANGED <<limiterVars, session, sending, opens, pending, sentTo,
                   deletions, deletes, post, rows>>

Bubble(m, role, text) ==
    [msg |-> m, role |-> role, bubble |-> TRUE, text |-> text]

\* send: the message and a loading bubble for its answer.
Send(m) ==
    /\ post[m] = "unsent" /\ ~sending
    /\ sending' = TRUE
    /\ messages' = messages \o <<Bubble(m, "user", "text"),
                                 Bubble(m, "assistant", "loading")>>
    /\ post' = [post EXCEPT ![m] = "sent"]
    /\ sentTo' = [sentTo EXCEPT ![m] = session]
    /\ pending' = pending \cup {m}
    /\ UNCHANGED <<limiterVars, session, opens, histories, deletions,
                   deletes, lost, rows>>

SetBubble(m, text) ==
    messages' = [i \in 1 .. Len(messages) |->
        IF messages[i] = Bubble(m, "assistant", "loading")
        THEN Bubble(m, "assistant", text) ELSE messages[i]]

\* Mutant: what the catch block does is missing.
NoCatch(m, text) ==
    /\ pending' = pending \ {m}
    /\ sending' = FALSE
    /\ IF text = "error" THEN UNCHANGED messages ELSE SetBubble(m, text)

\* send goes on: its loading bubble, if it is still there, gets the text, and the
\* finally block runs.
Settle(m, text) ==
    pending' = pending \ {m} /\ SetBubble(m, text) /\ sending' = FALSE

\* The response to POST /chat.  fetch does not throw at an error status: the
\* bubble gets data.message, which such a response does not have.
Answered(m) ==
    /\ m \in pending /\ post[m] \in Statuses
    /\ Settle(m, IF post[m] = "200" THEN "text" ELSE "blank")
    /\ UNCHANGED <<limiterVars, session, opens, histories, sentTo,
                   deletions, deletes, lost, post, rows>>

\* The fetch fails; the server may have got the request all the same.
FetchFails(m) ==
    /\ m \in pending
    /\ lost < MaxLost
    /\ lost' = lost + 1
    /\ Settle(m, "error")
    /\ UNCHANGED <<limiterVars, session, opens, histories, sentTo,
                   deletions, deletes, post, rows>>

\* The sidebar's deleteSession, with the session that is open at that time.
Delete(s) ==
    /\ s \in Listed
    /\ deletes < MaxDeletes
    /\ deletes' = deletes + 1
    /\ deletions' = deletions \cup
          {[session |-> s, open |-> session, done |-> FALSE]}
    /\ UNCHANGED <<limiterVars, pageVars, histories, pending, sentTo,
                   lost, post, rows>>

\* DELETE is answered: if the session was open when it was sent, handleNewChat.
\* A failure ends deleteSession, whether the server got the request or not.
DeleteAnswered(d) ==
    /\ d \in deletions
    /\ deletions' = deletions \ {d}
    /\ \/ /\ d.done /\ d.session = d.open
          /\ \E s \in NewSession : LoadHistory(s)
          /\ UNCHANGED lost
       \/ /\ d.done /\ d.session # d.open
          /\ UNCHANGED <<session, messages, opens, histories, lost>>
       \/ /\ lost < MaxLost /\ lost' = lost + 1
          /\ UNCHANGED <<session, messages, opens, histories>>
    /\ UNCHANGED <<limiterVars, sending, pending, sentTo, deletes, post, rows>>

-----------------------------------------------------------------------------
(* The API server *)

\* GET /chats/:sessionId
ReadHistory(h) ==
    /\ h \in histories /\ ~h.read
    /\ histories' = (histories \ {h}) \cup
          {[h EXCEPT !.read = TRUE, !.rows = GetMessages(h.session)]}
    /\ UNCHANGED <<limiterVars, pageVars, pending, sentTo, deletions,
                   deletes, lost, post, rows>>

\* POST /chat up to runChat: refused, or the user's message is stored, or cannot
\* be.
Accept(m) ==
    /\ post[m] = "sent"
    /\ \E refused \in BOOLEAN :
          /\ RateLimited(refused)
          /\ \/ /\ refused
                /\ post' = [post EXCEPT ![m] = "429"]
                /\ UNCHANGED rows
             \/ /\ ~refused
                /\ post' = [post EXCEPT ![m] = "unsaved"]
                /\ UNCHANGED rows
             \/ /\ ~refused
                /\ post' = [post EXCEPT ![m] = "running"]
                /\ AddMessage(sentTo[m], "user", m)
    /\ UNCHANGED <<pageVars, userVars>>

\* runChat has returned, and the answer is stored; or it has thrown.
Complete(m) ==
    /\ post[m] = "running"
    /\ \/ /\ post' = [post EXCEPT ![m] = "200"]
          /\ AddMessage(sentTo[m], "assistant", m)
       \/ post' = [post EXCEPT ![m] = "500"] /\ UNCHANGED rows
    /\ UNCHANGED <<limiterVars, pageVars, userVars>>

\* DELETE /chats/:sessionId
DeleteRows(d) ==
    /\ d \in deletions /\ ~d.done
    /\ DeleteSession(d.session)
    /\ deletions' = (deletions \ {d}) \cup {[d EXCEPT !.done = TRUE]}
    /\ UNCHANGED <<limiterVars, pageVars, histories, pending, sentTo,
                   deletes, lost, post>>

TimePasses == Tick /\ UNCHANGED <<pageVars, userVars, post, rows>>

-----------------------------------------------------------------------------
Init ==
    /\ LimiterInit
    /\ session \in Sessions
    /\ messages = <<>>
    /\ sending = FALSE
    /\ opens = 1
    /\ histories = {Asked(1, session)}
    /\ pending = {}
    /\ sentTo = [m \in Messages |-> None]
    /\ post = [m \in Messages |-> "unsent"]
    /\ rows = [s \in Sessions |-> <<>>]
    /\ deletions = {}
    /\ deletes = 0
    /\ lost = 0

Next ==
    \/ NewChat \/ Remount \/ TimePasses
    \/ \E s \in Sessions : SelectSession(s) \/ Delete(s)
    \/ \E h \in histories : ReadHistory(h) \/ HistoryAnswered(h)
    \/ \E m \in Messages : Send(m) \/ Accept(m) \/ Complete(m) \/ Answered(m)
                           \/ FetchFails(m)
    \/ \E d \in deletions : DeleteRows(d) \/ DeleteAnswered(d)

Spec == Init /\ [][Next]_vars

-----------------------------------------------------------------------------
(* Properties *)

IsBubble(i) == messages[i].bubble

\* send adds its bubbles to the messages of the session it posts to: whatever
\* was opened and answered since, a message or an answer that is written by send
\* is never shown in another session.
BubblesInTheirSession ==
    \A i \in DOMAIN messages : IsBubble(i) => sentTo[messages[i].msg] = session

\* The input is locked exactly while the page waits for one answer, also when
\* the session it belongs to was left, and a loading bubble is that of the
\* answer it waits for.
LockedWhileWaiting ==
    /\ sending = (pending # {})
    /\ \A m, n \in pending : m = n
    /\ \A i \in DOMAIN messages :
          messages[i].text = "loading" => messages[i].msg \in pending
=============================================================================
