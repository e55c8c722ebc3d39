------------------------------ MODULE Approval ------------------------------
(***************************************************************************)
(* The human in the loop of fs_write: the tool (src/src/pi/client.ts), the *)
(* ApprovalManager (src/src/approval/manager.ts), POST /approve            *)
(* (src/src/routes/approve.ts), the broadcaster (src/src/ws/broadcaster.ts)*)
(* and the web app's modal (src/frontend/src/App.tsx).                     *)
(*                                                                         *)
(* Several writes may wait at once, of several chats; every browser tab    *)
(* gets every permission request, and shows one of them at a time.         *)
(***************************************************************************)
EXTENDS Integers, Sequences

CONSTANTS
    Writes,     \* calls of the tool fs_write, each with its approvalId
    Tabs,       \* browser tabs with the web app
    NoWrite,    \* no modal is open
    MaxDrops    \* bound on lost WebSocket connections

ASSUME ApprovalAssumption == NoWrite \notin Writes /\ MaxDrops \in Nat

VARIABLES
    tool,       \* where the execute function of each write is
    pending,    \* ApprovalManager's map, by approvalId
    connected,  \* the broadcaster's clients
    channel,    \* permission requests on their way to each tab
    modal,      \* the app's state pendingApproval in each tab
    posts,      \* POST /approve requests on their way to the server
    clicks,     \* history: the user's decisions on each write
    accepted,   \* history: the decisions that POST /approve answered with ok
    drops       \* lost connections

approvalVars ==
    <<tool, pending, connected, channel, modal, posts, clicks, accepted, drops>>

\* How an execute ends; the write of one that threw may have happened.
Decided == {"written", "threw", "rejected"}

ApprovalTypeOK ==
    /\ tool \in [Writes -> {"idle", "waiting", "writing"} \cup Decided]
    /\ pending \in SUBSET Writes
    /\ connected \in SUBSET Tabs
    /\ channel \in [Tabs -> Seq(Writes)]
    /\ modal \in [Tabs -> Writes \cup {NoWrite}]
    /\ posts \in SUBSET (Tabs \X Writes \X BOOLEAN)
    /\ clicks \in [Writes -> SUBSET BOOLEAN]
    /\ accepted \in [Writes -> SUBSET BOOLEAN]
    /\ drops \in 0 .. MaxDrops

ApprovalInit ==
    /\ tool = [x \in Writes |-> "idle"]
    /\ pending = {}
    /\ connected = {}
    /\ channel = [t \in Tabs |-> <<>>]
    /\ modal = [t \in Tabs |-> NoWrite]
    /\ posts = {}
    /\ clicks = [x \in Writes |-> {}]
    /\ accepted = [x \in Writes |-> {}]
    /\ drops = 0

-----------------------------------------------------------------------------
(* The server *)

\* Mutant: the request is sent without its data.
BroadcastEmpty(x) ==
    channel' = [t \in Tabs |-> IF t \in connected
                               THEN Append(channel[t], NoWrite) ELSE channel[t]]

\* A copy of the message goes to every client whose connection is open.
Broadcast(x) ==
    channel' = [t \in Tabs |-> IF t \in connected THEN Append(channel[t], x)
                                                  ELSE channel[t]]

\* execute broadcasts the permission request and waits for the response.
Request(x) ==
    /\ tool[x] = "idle"
    /\ tool' = [tool EXCEPT ![x] = "waiting"]
    /\ pending' = pending \cup {x}
    /\ Broadcast(x)
    /\ UNCHANGED <<connected, modal, posts, clicks, accepted, drops>>

\* Mutant: every answer is taken for an approval.
ResolveTrue(x, approved) ==
    tool' = [tool EXCEPT ![x] = IF @ # "waiting" THEN @ ELSE "writing"]

\* The response of waitForResponse: execute goes on to write, or ends.
Resolve(x, approved) ==
    tool' = [tool EXCEPT ![x] = IF @ # "waiting" THEN @
                                ELSE IF approved THEN "writing" ELSE "rejected"]

\* respond: the first decision counts, any other finds nothing pending.
Respond(x, approved) ==
    \/ /\ x \in pending
       /\ pending' = pending \ {x}
       /\ Resolve(x, approved)
       /\ accepted' = [accepted EXCEPT ![x] = @ \cup {approved}]
    \/ x \notin pending /\ UNCHANGED <<pending, tool, accepted>>

\* POST /approve/:approvalId arrives; the app ignores its status.
Approve(t, x, approved) ==
    /\ <<t, x, approved>> \in posts
    /\ posts' = posts \ {<<t, x, approved>>}
    /\ Respond(x, approved)
    /\ UNCHANGED <<connected, channel, modal, clicks, drops>>

\* Mutant: the timer deletes the entry without resolving the promise.
TimeoutSilently(x) ==
    /\ x \in pending
    /\ pending' = pending \ {x}
    /\ UNCHANGED <<tool, connected, channel, modal, posts, clicks, accepted,
                   drops>>

\* Mutant: the timer rejects, and leaves the entry.
TimeoutKeepsEntry(x) ==
    /\ x \in pending
    /\ tool[x] = "waiting"
    /\ Resolve(x, FALSE)
    /\ UNCHANGED <<pending, connected, channel, modal, posts, clicks, accepted,
                   drops>>

\* waitForResponse's timer rejects what is still pending.
Timeout(x) ==
    /\ x \in pending
    /\ pending' = pending \ {x}
    /\ Resolve(x, FALSE)
    /\ UNCHANGED <<connected, channel, modal, posts, clicks, accepted,
                   drops>>

\* The approved write is executed, or the executor throws.
Write(x) ==
    /\ tool[x] = "writing"
    /\ \E end \in {"written", "threw"} : tool' = [tool EXCEPT ![x] = end]
    /\ UNCHANGED <<pending, connected, channel, modal, posts, clicks, accepted,
                   drops>>

-----------------------------------------------------------------------------
(* The browser *)

\* useWebSocket connects; what was broadcast before is not sent again.
Connect(t) ==
    /\ t \notin connected
    /\ connected' = connected \cup {t}
    /\ UNCHANGED <<tool, pending, channel, modal, posts, clicks, accepted,
                   drops>>

\* The connection is lost with what is on its way; the app keeps its state.
Drop(t) ==
    /\ t \in connected /\ drops < MaxDrops
    /\ drops' = drops + 1
    /\ connected' = connected \ {t}
    /\ channel' = [channel EXCEPT ![t] = <<>>]
    /\ UNCHANGED <<tool, pending, modal, posts, clicks, accepted>>

\* The app shows the request, in place of the one it was showing.
Show(t) ==
    /\ channel[t] # <<>>
    /\ modal' = [modal EXCEPT ![t] = Head(channel[t])]
    /\ channel' = [channel EXCEPT ![t] = Tail(@)]
    /\ UNCHANGED <<tool, pending, connected, posts, clicks, accepted,
                   drops>>

\* The user approves or rejects: the modal closes and the decision is posted.
Click(t, approved) ==
    LET x == modal[t]
    IN  /\ x # NoWrite
        /\ modal' = [modal EXCEPT ![t] = NoWrite]
        /\ posts' = posts \cup {<<t, x, approved>>}
        /\ clicks' = [clicks EXCEPT ![x] = @ \cup {approved}]
        /\ UNCHANGED <<tool, pending, connected, channel, accepted,
                   drops>>

ApprovalNext ==
    \/ \E x \in Writes : Request(x) \/ Timeout(x) \/ Write(x)
    \/ \E t \in Tabs : Connect(t) \/ Drop(t) \/ Show(t)
    \/ \E t \in Tabs, d \in BOOLEAN : Click(t, d)
    \/ \E p \in posts : Approve(p[1], p[2], p[3])

ApprovalSpec == ApprovalInit /\ [][ApprovalNext]_approvalVars

\* The server's timer fires and an approved write is executed.  Nothing makes a
\* user click, a browser connect or its request arrive.
ApprovalFairness ==
    \A x \in Writes : WF_approvalVars(Timeout(x) \/ Write(x))

-----------------------------------------------------------------------------
(* Properties *)

\* The description of fs_write: it always requires human approval before
\* executing.  Only a write that a user approved, that very one, is executed.
WrittenOnlyIfApproved ==
    \A x \in Writes :
        tool[x] \in {"writing", "written", "threw"} => TRUE \in clicks[x]

\* A decision that POST /approve answers with ok is the one that takes effect,
\* also if the timer or a decision from another tab comes at the same time.
AcceptedTakesEffect ==
    \A x \in Writes : /\ TRUE \in accepted[x] =>
                            tool[x] \in {"writing", "written", "threw"}
                      /\ FALSE \in accepted[x] => tool[x] = "rejected"

\* The model waits at most for the timer: no write is left without an answer,
\* whoever is connected.
EveryWriteAnswered ==
    \A x \in Writes : tool[x] = "waiting" ~> tool[x] \in Decided
=============================================================================
