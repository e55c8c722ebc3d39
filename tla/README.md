# distributed-llm-toolcalling: a verification project

TLA+ models of the program that runs the tool calls of an LLM agent in a pool of Kubernetes
pods: what an API server, tool workers, Redis, the Kubernetes API server and a browser do
together, model-checked with TLC, and theorems about the lease manager, the tool call, the
approvals, the chat session, the two pages and the arithmetic that the TLA+ proof system
checks for every number of pods, workers, jobs, requests, tabs and integers. Paths below are
relative to the repository.

## The system

| Component | State it keeps | Operations | Hard behaviour |
|---|---|---|---|
| `LeaseManager` (`src/sandbox/lease-manager.ts`), in every worker and in the API server | `inMemoryHeld`, `waiters`, the Lease object of each pod at the API server | `acquirePod`, `releasePod`, the deadline of a waiter, the watchdog, `listLeaseStates` | jobs interleave at every `await`; replicas race for a Lease; the handoff to a waiter, also a refused one; crashes, lost answers, expiry; sweeps of the watchdog overlap |
| Worker (`src/worker/index.ts`) | the consumer group's position and pending entries, `podName` of each job | `runWorker`, `processJob`, `ensureConsumerGroup`, SIGTERM | many jobs at once, a failure at any of four publishes or of the XACK, double release |
| Redis client (`src/queue/redis-client.ts`) | the stream, subscriptions | `publishToolCall`, `publishResult`, `waitForResult` | pub/sub keeps nothing; two connections have no order between them |
| `RedisExecutor` (`src/executor/redis.ts`) | the promise of the result | `execute` | a promise that is rejected before anyone awaits it |
| `PodExecutor` (`src/sandbox/pod-executor.ts`) | the commands that run in a pod | `run` | the timeout races the exec |
| `ApprovalManager`, `POST /approve` (`src/approval/manager.ts`, `src/routes/approve.ts`) | `pending` | `create`, `waitForResponse`, `respond` | the timer, two tabs and late decisions race |
| `Broadcaster`, web app (`src/ws/broadcaster.ts`, `frontend/src`) | clients; `pendingApproval` | `broadcast`; show, decide, reconnect | several requests for one modal, lost connections |
| `PiClient` (`src/pi/client.ts`) | `sessions`, one agent per session | `runChat`, `getOrCreateSession` | several requests of one session |
| `POST /chat`, `POST /cancel`, `CancellationManager` | `entries`, rate counts | register, cancel, complete | a cancellation or a failing insert at every point of a request |
| Rate limiter (`src/routes/chat.ts`) | the times of an address's requests | `isRateLimited` | pruning at the edge of the window |
| `ChatPage`, `Sidebar` (`frontend/src`), `ChatStore`, `/chats` | `messages`, `sending`, fetches on their way, the table of messages | open, leave, send, delete, each answer | answers come in any order, to a page that has moved on |
| `TraceDetailPage` (`frontend/src/pages/TraceDetailPage.tsx`) | `messages`, `liveToolCalls`, `loading`, fetches and timers | open a trace, a WebSocket event, an answer, `buildItems` | a call is told of twice, by an event and by a message, in any order; timers outlive the session they were set for |
| `LocalExecutor`, `mathCompute` (`src/executor/local.ts`, `src/tools/math-compute.ts`) | none | `execute`, `dispatch`, the loops of `math_compute` | square roots, zeros and signs at the ends of loops |
| `MetricsCollector`, `ExecutionStore` (`src/metrics/index.ts`, `src/history/store.ts`) | samples of each tool; a table that outlives the process | `recordToolExecution`, `prune`, `percentile`; `add` | an insert that fails between two calls, a restart, the edges of the window |
| `AnthropicClient`, `PodsPage`, `TracesPage`, `server.ts`, `k8s/` | configuration, what was fetched | | none that is modelled, see the end |

A request enters at `POST /chat`; `PiClient` prompts the session's agent; a tool of the
agent (for `fs_write` after a human approved it) calls `RedisExecutor.execute`, which
subscribes to `result:<id>` and adds an entry to the stream; a worker reads it and runs
`processJob`: it acquires a pod from its `LeaseManager`, runs the command there, publishes
the result, releases the pod. The workers meet only at the Lease objects; inside a worker
everything runs on one event loop, so a step of the models runs from one `await` to the
next.

What makes each part correct: two jobs never have one pod; a Lease names the job that has
its pod; no pod, reservation, waiter or call is lost; a pod is released once, by the call
that has it; a write happens only if its user approved it, and the decision that was
acknowledged is the one that counts; a request gets a response, with its own tool calls, and
can be cancelled until then; a page shows each tool call once, under its own session, and never
"Loading" for ever; what `math_compute` answers is right, and the metrics tell of the calls
that were recorded.

## Modules

| Module | Models | Instances |
|---|---|---|
| `PodPool` | what the lease manager promises: a call is granted a pod or refused, a pod whose lock has not lapsed is granted to one job | used by the two below |
| `LeaseManager` | `lease-manager.ts` in workers and API servers, over the Lease objects | `MCLeaseManager` |
| `LeaseProperties` | its properties, the refinement of `PodPool` and the inductive invariants | `MCLeaseManager` |
| `LeaseProofs` | the theorems on reservations, leases and jobs | |
| `LeasePoolProofs` | the refinement, and the theorems on the queue and on leaked reservations | |
| `ToolCall` | `execute`, the Redis stream and channels, `processJob`, on top of `PodPool` | `MCToolCall` |
| `ToolCallProofs` | its theorems | |
| `Approval` | `fs_write`'s approval from the request to the modal and back | used by `ChatWrites` |
| `ChatSession` | `POST /chat`, `POST /cancel`, `PiClient` | `MCChatSession`; used by `ChatWrites` and `TracePage` |
| `ChatWrites` | a chat whose agent writes files: `Approval` and `ChatSession` composed | `MCChatWrites` |
| `ChatSessionProofs`, `ChatWritesProofs` | the theorems of `ChatSession`, and those of `Approval` and the whole | |
| `TracePage` | the trace of a session while requests of it are in progress: `ChatSession` with a page | `MCTracePage` |
| `TracePageProofs` | its theorems | |
| `RateLimiter` | `isRateLimited` and the clock | used by `ChatPage` |
| `ChatPage` | the page with its fetches, and what they do to the limiter and to `ChatStore` | `MCChatPage` |
| `ChatPageProofs` | the theorems of the page and the limiter | |
| `MathCompute` | the operations of `math_compute` that loop | used by `LocalCalls` |
| `Metrics` | what `POST /chat` keeps of an answer's calls: the table and the metrics | used by `LocalCalls` |
| `LocalCalls` | calls in the API server's local mode, over a clock: the two composed | `MCLocalCalls` |
| `LocalCallsProofs` | its theorems | |

`ToolCall` composes the worker with the pool: it EXTENDS `PodPool` and its steps take `Ask`,
`Grant`, `Refuse`, `Return`, `Lose` and `Lapse` for the lease manager's, and `LeaseManager`
is shown to implement `PodPool`. So `ToolCall` need not repeat the leases, and the two meet
at one specification. `ChatWrites` EXTENDS its two parts and takes each of their actions in
one of its own; where `fs_write` joins them, `WriteReturns` and `PromptEnds` read the one
part to guard a step of the other. `TracePage` takes each of `ChatSession`'s steps with what
it stores and broadcasts.

### LeaseManager and the code

- `lease` is the Lease object of each pod (`holderIdentity`, `resourceVersion`, whether
  `isExpired` holds of it); a job stands for the identity it writes. `POD_NAMES` is `1 ..
  NumPods`.
- `local[t]` is where thread `t` is and what it has in its variables; a thread is a job or
  one of the sweeps of a process's watchdog. `setInterval` starts a sweep every 15 s, whether
  or not the last one is over, so a process has `MaxSweeps` of them and each starts when it
  likes (`WatchdogTick`). `read` and `put` are `tryAcquireLease`'s two calls, `queued` the
  pending promise of a waiter, `clearRead` and `clearPut` those of `clearLease`, `handoff`
  the PUT for a waiter in `releasePod` or in the watchdog, `unannotate` the watchdog's
  `clearAnnotations`. A releaser whose handoff has failed runs `tryAcquireAny` for its
  waiter: it is in `read` or `put` with `waiter` set.
- `Scan` is `tryAcquireAny`'s loop up to the next `await`, and what follows it when no pod
  is left: the enqueue, or the releaser's return.
- A call to the API server has its effect in the step that receives its answer. A failed PUT
  may have been written all the same (`PutLease`'s last disjunct).
- `Admitted` is external. A PUT with the version of an earlier read is refused if the object
  has changed. For a PUT without a version, the handoff's, it is a matter of the resource's
  policy: `UnconditionalPut` says which, and the models are checked, and where possible
  proved, for both. The Lease resource refuses it, so `FALSE` is the real API server; `TRUE`
  is kept where the code relies on the handoff's success.
- `Expire` may strike a lease whose holder does not run there, or with `SlowJobs` any lease:
  with the repository's configuration (`TOOL_TIMEOUT_MS` 30 s, `LEASE_TTL_SECONDS` 45 s,
  "must be > TOOL_TIMEOUT_MS/1000" in `.env.example`) a job clears its lease before it
  expires unless its API calls take longer than 15 s.
- `Crash` restarts a worker with an empty `LeaseManager`. Its jobs are not redelivered:
  nobody claims pending entries.
- `annotatePod` and `clearAnnotations` only write annotations, which nothing reads, and
  their errors are ignored; `clearAnnotations` stays as an `await` of the watchdog.

### ToolCall and the code

- `caller` is where `execute` is, `promise` the promise that `waitForResult` returned,
  `listening` whether Redis has the subscription, `inbox` what Redis has sent to it. Redis
  handles the SUBSCRIBE and the XADD in either order, since they are sent on two connections
  in one turn of the event loop. With `ServerFails` the server's commands and connections
  may fail and it may crash; workers' commands may fail in any case.
- `Reject` is the rejection of that promise. If `execute` awaits it, `execute` returns an
  error. If not, because the XADD is not answered yet or has failed, Node ends the process
  on the unhandled rejection (`ServerEnds`): no handler for it is in the repository.
- The timer does not fire before the XADD has been answered or given up: it is armed before,
  and takes 30 s.
- `job` is where `processJob` is: `publish`, `release` and `notify` are its steps 1 to 3,
  `catch` and `finally` its blocks. The publish in the finally block and in step 3 reach
  nobody; step 3's failure leads to the catch block, the other is caught.
- `commands` are the commands that run in each pod. `Ran` takes one out when the exec has
  ended; with `SlowTools` the timer of `run` may win, and the command stays until
  `CommandEnds`.
- `Deliver` is XREADGROUP. `cursor` is the group's position, and an entry whose reply was
  lost or whose worker has died is never read again.
- `Ack` is the XACK. One that fails is tried again in the handler of the first failure
  (worker/index.ts:150-155), which `verdict` `threw` stands for; if that fails too the
  worker ends by an unhandled rejection (`WorkerEnds`), with all its jobs.

### Approval and ChatSession and the code

- `Approval` keeps `pending`, the clients of the broadcaster, what is on its way to each
  tab, the tab's `pendingApproval` and the decisions posted. `clicks` and `accepted` are
  history variables of the properties. An approved write ends `written`, with the executor's
  result, or `threw`, for one when the XADD of `RedisExecutor` fails (redis.ts:29): then it
  may have been executed all the same.
- `ChatSession` names an agent by the request that created it: `summaries[a]` is the array
  that the tools of agent `a` push to, and `summaries[r]` the one that request `r` returns.
  `Created` covers `getOrCreateSession` after its look-up; `Prompt` the part of `runChat`
  behind it. `waitForIdle` and `idle` are a pending and a resolved `waitForIdle()`.
- Each insert of `POST /chat` may fail. `NotSaved` is that of the user's message, after the
  registration and before the `try`: Express answers 500 and the entry stays, so the model
  keeps it apart as `unsaved`. `ChatFails` is one behind `runChat`, of an execution or of the
  answer: the calls in `saved` were recorded before it, the response is a 500.
- A tool whose executor throws records nothing and its agent goes on (`ToolThrows`).
- External there: the agent takes one prompt at a time and throws at a second one; an abort
  lets its tool end. `Limited` leaves open which requests the rate limiter refuses.

### ChatWrites and the code

- A write of `Approval` is a tool call of `ChatSession`: `CallWrite` is `fs_write`'s execute
  up to its await, `WriteReturns` what follows the approval and the write: `recordToolCall`,
  or the end by the executor's throw. The other tools' calls are a step, `OtherToolReturns`.
- An aborted agent calls no further tool (external); the tool it is in goes on, and so does
  the approval: `Cancel` answers the request and changes nothing in `Approval`, since
  `runChat`'s abort listener unsubscribes, aborts the agent and rejects its own promise, and
  nothing else.
- A prompt does not end while its tool runs, so the requests that wait for the agent wait
  for the user, or for the timer.

### TracePage and the code

- `rows` is the table of messages, split into that of each session, in the order of the
  inserts; nothing that is modelled compares the rows of two sessions. `messages` and `live`
  are the page's state, `Items` what `buildItems` makes of them: the items of each message,
  then those of the live calls that are in none. A live call is told apart by its id, as in
  the page. `Timeline` is what is rendered: while it loads and while it has no message the
  page returns early (lines 395 and 401) and shows no item.
- `ExecutionUpdates` are the broadcasts of an answer's executions, or of those in front of
  the insert that failed (`Unanswered`).
- `inbox` keeps the order of one connection. `fetches` and `timers` are sets: their answers
  and their firing come in any order. `ReadMessages` is the server's half of a GET,
  `Answered` the page's. A fetch of the effect has the number of its `visit`, and ends
  `loading`. A failure is ignored, unless it is an error status with a body: `d.messages` is
  missing there, and the page is emptied.
- `OpenTrace` is a new `sessionId` in the URL. The effect clears the page and drops neither
  the timers nor the fetches of the session that was left.
- The effect, the WebSocket and the timers call `fetchMessages` with the session of their
  render. What the page shows as selected, and its layout, are left out.

### MathCompute, Metrics and LocalCalls and the code

- The arguments are integers: the operations that loop round theirs down first, and a
  fraction's `modulo` is left out. An infinite one, which the pod's executor refuses and the
  local one does not, is outside the model, and so is the rounding of integers beyond 2^53.
  `x`, `y`, `i` are the variables of the loops; a step is one test with the body behind it.
  `i * i <= a` stands for `i <= Math.sqrt(n)`.
- The operations without a loop are one operation of floating point; of these `modulo` is
  modelled, for its error.
- `Prune` takes the number of rounds of the loop that shifts samples out. `Sorted` chooses
  the permutation that puts the values in order, for `Array.sort`: numbers that are equal
  cannot be told apart. `SelectSeq` and `SortSeq`, which would be shorter, are out of the
  proof system's reach.
- `Percentile` computes the index in integers: the code's `Math.ceil((p / 100) * length)`
  was compared to it for each of the three percentiles and up to 3000 samples, without a
  difference.
- `Answer` is the loop of `POST /chat` over the calls of an answer, each inserted and then
  recorded; it may end at an insert that throws. `Cancel` and `Restart` lose the calls that
  were not recorded. The clock, `Tick`, goes on in the middle of a computation.
- `math_compute` is synchronous: while it loops, the server runs nothing else.

### ChatPage and the code

- `messages` and `sending` are the state of the component, `histories` and `pending` the
  fetches whose answers it listens to, `post` and `rows` what the server has made of the
  requests. A bubble is a message that `send` wrote, the others come from a history.
- `LoadHistory` is what a new `sessionId` does: the new value, the effect's
  `setMessages([])` and its fetch. The code renders once in between: for one frame the old
  messages stand under the new session, which the model leaves out. `Remount` is a visit to
  another page: the answers to the component that is gone change nothing, so they are
  dropped.
- A history's fetch that fails is ignored, or empties the page if it is an error status with
  a body, as in `TracePage`. A message that cannot be stored ends `unsaved` (`Accept`).
- `rows` has a session's rows in the order they were inserted, which is that of
  `created_at` up to rows of one millisecond. `Listed` over-approximates what the sidebar
  shows: it may still show a session that was deleted.
- `RateLimiter` is composed with the page: `Accept` takes its step. `Recent` is the filter of
  `isRateLimited` as a loop over the times. `runChat` between
  `Accept` and `Complete` is `ChatSession`'s.

## Runs

Passing runs explore the whole state space of their instance.

| Run | Instance | Shows |
|---|---|---|
| `LeaseReplicas` | 2 pods, 2 workers, 3 jobs, 1 crash, no unconditional PUT | `Exclusive`, `LeaseNamesHolder`, `ReservationsExclusive`, `WorkConserving`, `LeaksNamedInLease`, and each step implements `PodPool` |
| `LeaseQueue` | 1 pod, 1 worker, 3 jobs that may outlive their leases, unconditional PUT, fair | `EveryWaiterAnswered` |
| `LeaseRecovery` | 1 pod, 1 worker with 2 sweeps at a time, 2 jobs, 1 crash, 1 fault, unconditional PUT, fair | `Exclusive` on the error paths, `AbandonedLeaseRecovered`, `LeakedReservationRecovered`, `ImplementsPodPool` when leases lapse |
| `ToolCallPods` | 1 pod, 2 workers, 2 calls, 2 faults and 1 crash of a worker or the API server, tools that end within their timeout | `ReleasesOwnPod`, `CommandsExclusive` |
| `ToolCallAnswers` | 1 pod, 1 worker, 2 calls, 1 fault of the worker, tools that may outlive their timeout, fair | `EveryPodReturned`, `EveryCallAnswered` |
| `ChatWrites` | 3 requests of 1 session, a write by the first and another call by the second, 1 tab, fair | `WrittenOnlyIfApproved`, `AcceptedTakesEffect`, `EntriesAreInProgress`, `ReturnsOwnCalls`, `AnswerTellsItsWrites`, `EveryWriteAnswered`, `EveryChatAnswered` |
| `TraceUpdates` | 2 requests, 2 sessions of which one is left for the other, 1 call, 1 failed fetch or lost connection | `EachCallShownOnce`, `LiveInTheirSession`, `LoadingEnds` |
| `ChatPageFetches` | 2 messages, 2 sessions opened 3 times, 1 deletion, 1 failed fetch, a limit of 1 request in 2 ticks | `BubblesInTheirSession`, `LockedWhileWaiting`, `RefusedExactlyOverLimit` |
| `LocalCalls` | 3 calls, arguments -1 to 10 and nine pairs, 2 ticks and a window of 1, 1 restart, fair | `GcdIsGreatest`, `PrimeHasNoDivisor`, `CountsAsDefined`, `SamplesAreRecentRows`, `PercentilesAreNearestRank`, `EveryComputationEnds` |

Two pods and three jobs are what the lease manager's hard cases take: two jobs that have a
pod or release it, and a waiter that the deadline or another releaser takes; the second pod
is where the scan of a refused handoff goes. Both premises of the run are reached: a worker
that is alone has a waiter and an unreserved pod while a releaser scans, and a reservation
is leaked. In `LeaseQueue` two jobs wait for the one pod while the third has it; its leases
expire, so that the watchdog hands the pod over too. In `LeaseRecovery` the second sweep
meets the first at every step of it. One pod suffices for two calls to contend in
`ToolCall`; the second call is the one that gets the pod while the first is on its error
path. Three requests make two of them wait for one agent, of which one prompts and the other
finds it busy; the one that wrote may be cancelled while its write is pending. A second tab
and a lost connection would make that run too large: what they can do to a decision is
covered by the theorems, which hold for any number of either. In `TraceUpdates` two visits
let the answers, events and timers of one session reach the other's page, and the call is
told of by an event, a stored message and a fetch between the two; a second call would
repeat the first. 4 and 9 are the squares on which a loop that stops before the square root
errs, the pairs have zeros, signs, multiples and coprimes; three calls and two ticks put a
sample before, on and behind the window's edge. Opening a session three times lets the
history of one that was left and returned to come late; a limit of one request makes the
second refused, or accepted on the tick the first runs out. An API server's watchdog has no
reservations and no queue, like that of a worker that has just been restarted: the runs let
a crash stand for it, the proofs have both. `MaxFaults`, `MaxCrashes`, `MaxSweeps`,
`MaxDrops`, `MaxCalls`, `MaxTime`, `MaxOpens`, `MaxDeletes`, `MaxVisits`, `MaxRestarts` and
`MaxLost` bound the counters that would make the instances infinite; `FactorialMax` and
`FibonacciMax` are the code's own limits, made small. The runs with fairness use no
symmetry; the others use that of jobs, workers, calls and sessions. Deadlock is an error in
`LeaseManager`, whose watchdogs never stop; in the other modules everything ends when every
call has been made.

### Where the code does something else than it says

Each of these runs checks one property that a document, comment or test states, and TLC
finds a behaviour that violates it.

| Run | The code | The claim |
|---|---|---|
| `LeaseLostWaiter` (`EveryWaiterAnswered`) | a failed handoff scans across awaits, then `shift()`s another waiter than its own, or puts back one whose deadline has passed: it is never answered. The repository's stress test has a p95 of 30003 ms, the API server's timer, where the queue's 15 s should have answered | README.md:82 |
| `LeaseTwoJobsOnePod` (`AlwaysExclusive`) | the watchdog clears the lease it finds, not the expired one it saw | lease-manager.ts:41, api.test.ts:210 |
| `ChatRecords` (`EveryCallRecorded`) | an agent's tools push to the first request's array, so the tool calls of every later request of a session are lost | chat.ts:55 |

`LeaseLostWaiter` is a liveness property and runs under the fairness below.
README.md:233-234 concedes that queues are process-local; none of these runs relies on a
waiter of another process being woken, and `WorkConserving` is claimed of a worker that has
run alone. `EveryWaiterAnswered` has two runs: `LeaseQueue` shows that it holds where every
handoff is admitted, this one that it does not where the API server refuses it.

The models contain more behaviours that contradict a text of the repository. No run is kept
for them; each is a few steps of the module named:

- `ToolCall` with `SlowTools`: `run`'s timer wins the race (pod-executor.ts:37) and the pod
  is released while the command goes on in it; the next call's command runs beside it,
  though "two calls never share a pod" (tests/integration/api.test.ts:210). This is why
  `CommandsExclusive` is checked, and proved, for tools that end within their timeout.
- `LeaseManager`, a refused handoff whose waiter's deadline fires before the scan of line
  124 has a pod for it: the pod is taken for a job that has ended, and is out of use until
  the lease expires and the worker's watchdog comes by (`LeaksNamedInLease`,
  `LeakedReservationRecovered`).
- `LeaseManager`: the watchdog's own handoff is refused: the waiter is put back while the
  pod is free, and waits for the next release or its deadline.
- `LeaseManager` with a second watchdog, that of an API server or another worker: it clears
  the expired lease first, so that the worker's own never comes to line 299, and a
  reservation that no job will give up keeps the pod from the worker for good.
  `LeakedReservationRecovered` is therefore claimed of one watchdog.
- `ToolCall`: `AddEntry`, `Deliver`, ..., `PublishResult` before `Subscribe`: the result is
  lost, though `execute` says that it subscribes before publishing to avoid that
  (redis.ts:25-26). The call is answered by its timer.
- `ToolCall`: `Timeout` while `call` is `granted`: the error says that no pod became
  available (redis-client.ts:128).
- `ToolCall`: `Published` fails, then `Timeout`: a rejection nobody handles ends the API
  server. This is why `EveryCallAnswered` is checked with `ServerFails = FALSE`.
- `Approval`: `Request`, `Request`, `Show`, `Show`: the first request is on no screen any
  more and is rejected by the timer, though its user "will see a preview and must approve or
  reject" (pi/client.ts:275).
- `ChatSession`: `Cancel` in state `creating` or `waitForIdle`: the cancelled request
  completes with 200.
- `ChatSession`: `NotSaved`: the message could not be stored (chat.ts:50), or better-sqlite3
  refuses to bind one that is not a string. The request is answered and its entry in
  `CancellationManager` stays for good, unless somebody cancels it.
- `ChatWrites`: `Write` throws: a write that was approved, and may have happened, is in no
  response and no record.
- `ToolCall`: `AckFails` twice: an XACK that fails twice ends the worker and every job it
  runs (worker/index.ts:154).
- `ChatPage`: `SelectSession`, then `HistoryAnswered` of the session that was left: its
  messages are shown under the other session's name, though the effect is to "Load history
  when session changes" (ChatPage.tsx:212).
- `ChatPage`: `Accept` refuses, or `Complete` fails: the answer's bubble is blank, since
  fetch does not throw at an error status and the catch block's text is never used.
- `ChatPage.tsx` sets `activeRequestRef` when the response is there and resets it in the
  same step: the cancel button never cancels, and is no action of the model.
- `ChatPage`: `DeleteRows` before `Complete`: the answer is stored in a session without a
  user's message, which `getSessions` never lists.
- `TracePage`: `OpenTrace`, then `Answered` of a fetch of the session that was left: its
  trace is shown under the other session's name; and an older answer that comes last
  replaces a newer trace of the same session.
- `TracePage`: `Receive` of a call before the first answer, or with one that was read before
  the user's row: the page shows "Loading trace…" or "No messages in this session yet" while
  a call of the session runs. An error answer does the same to a page that had messages.
- `TracePage`: two requests of a session overlap: a call is shown above the answer it is
  stored with, not below the question it belongs to.
- `LocalCalls`: `CallUnknown` with `fs_write`: in local mode `dispatch` has no case for it
  (local.ts:86-101), so a write that a user approved always ends as an unknown tool.
- `Metrics`: samples are pruned when one is recorded and never when the snapshot is taken:
  the "5m" of an idle tool shows older samples. `SamplesAreRecentRows` speaks of the window
  that ends at the tool's last record.
- Nobody calls the setters of the queue's depth, its wait and the lease's acquisition, so
  the metrics always show zero there, and no `queue_update` is ever broadcast; the
  executions' `total` counts all rows also when the list is filtered; a row's `startedAt`
  and `finishedAt` are the request's, not the call's.
- `ChatSession`: two `Chat` of a new session before `Created`: two agents, two prompts at
  once, where the code means to wait for the one in progress (pi/client.ts:184).

## Fairness

Weak fairness only, and only of what a process or the clock does by itself:

- `LeaseManager`: a job's thread and a watchdog's sweep take their next step (the event loop runs
  every continuation, an API call answers or fails, the tool ends or is timed out), a timer
  fires, and a lease that is not renewed expires. Nothing makes a job arrive, a call fail or
  a process crash. `EveryWaiterAnswered` is put as `<>[]` (no job is queued): a job is queued
  once, so this says of each that it is answered, and spares TLC a formula for every job.
- `ToolCall`: Redis answers, the result's timer fires, `acquirePod` answers. The last is
  what `EveryWaiterAnswered` claims of the lease manager; it holds there without the
  handoff's failure, and `LeaseLostWaiter` is the exception. A call is answered in either
  case, by the API server's timer, but its pod's return, `EveryPodReturned`, starts at the
  grant and needs no answered waiter. Faults, crashes and lapses are not fair.
- `ChatWrites`: one condition on the whole server, which is one event loop: while it has
  something to do it goes on. A timer fires, an approved write is executed, an agent is
  created or fails, a tool returns, a prompt ends or throws, a waiting request is resumed.
  No user has to click, no browser to connect, and no posted decision to arrive.
- `LocalCalls`: the processor runs a computation to its end and the call returns.

## Proofs

All theorems hold for all values of the constants that the named assumptions allow. TLC
evaluates these assumptions in the runs.

### The lease manager

`LeaseProofs` and `LeasePoolProofs`, for any number of pods; any disjoint sets of jobs,
workers and API servers; any bound on faults and crashes:

- `TypeCorrect`: `Spec => []TypeOK`.
- `ReservationsCorrect`: `Spec => []ReservationsExclusive`, whatever the deployment.
- `HolderCorrect` and `Exclusion`: `Spec => []LeaseNamesHolder` and `Spec => []Exclusive`,
  assuming `SafeDeployment`: the API server refuses a PUT without a version, or there is one
  worker. Without it the handoff's PUT overwrites another replica's lease.
- `PoolImplemented`: `Spec => ImplementsPodPool`, assuming `SafeDeployment`.
- `WorkConserved`: `Spec => []WorkConserving`, assuming `SafeDeployment` and finitely many
  jobs. The API server may refuse every handoff. The property's proviso, `Alone`, speaks of
  the past only: no other worker has had a job, no call has failed, nothing has crashed and
  no lease has outlived its TTL. API servers and their watchdogs may run. Without it the claim
  is false: another worker's lease on a pod ends without waking anyone here, a failed read
  makes a scan pass a free pod, and a watchdog whose handoff is refused leaves its waiter.
- `LeaksAreOrphans`: `Spec => []LeaksNamedInLease`, assuming `SafeDeployment` only; faults,
  crashes, other workers and refused handoffs are in it.

`TypeOK` alone is not inductive, since a releaser in `handoff` must have a pod and a waiter;
`ControlOK` says which variables are set at which point, and that queues and handoffs hold
jobs of their own process. Two jobs of one worker are kept apart by the reservation: whoever
is past the scan has it (`ReservationsExclusive`), and only a watchdog takes it away, from a
pod whose lease has expired (`ExpiryOK`). Two jobs of different workers are kept apart by
the version: a scanner writes only with a version it read while the lease was free, and as
long as that is the current version the lease is free (`VersionsOK`); so the write that
succeeds finds no holder. While a job has the pod its lease names it (`LeaseNamesHolder`):
the others' versions are stale, the holder itself clears it last, and watchdogs touch only
expired ones. `Exclusive` follows, as a lease names one job. `IInv` is the conjunction; it
is proved of `Init`, preserved by each action, one lemma per action, and implies the
properties. `everExpired` is what makes the proviso expressible; it is a history variable
that no guard reads.

The refinement needs two facts more (`PoolInv`). A job that was lost in a crash keeps its
pod in `PodPool` until the lock lapses, so its lease must still name it
(`LostNamedInLease`); and a releaser whose handoff is a PUT without a version must not grant
what another has (`HandoffFindsOwnLease`: it finds its own lease or a free one). With them
each action is one of `Ask`, `Grant`, `Refuse`, `Return`, `Lose`, `Lapse` or a stutter: a
pod that a job is granted is granted to no one else, since the lease that names the other
holder would be the one that was just written. With `UsesPool` below, what is proved of
calls over `PodPool` holds over the lease manager.

`QueueInv` is the argument for a worker that is alone. A lease that is held is of a reserved
pod that nobody scans (`LeasesReserved`), and whoever writes a lease with a version has read
the last one (`VersionsCurrent`): so no read finds a lease taken, no versioned write is
refused, and a scan passes only over reserved pods. Then the searchers, the releasers that
scan for a waiter after a refused handoff, are counted against the queue. A job is enqueued,
and a searcher gives up, only when every pod is reserved. A releaser that drops its
reservation at a refused handoff puts one waiter back and becomes a searcher, since at least
that pod is unreserved; with no searcher in its place a reservation is given up only when
the queue is empty. A searcher that has a pod takes one off the queue,
its own waiter or another. `WorkConserving` with its count is what is inductive; "no waiter
while a pod is free" is not.

`LeaksAreOrphans` needs no invariant but `PoolInv`: a step that leaves a reservation without
a thread that relies on it is the answer to a PUT, and the lease it wrote names the waiter,
which is not in the pod. Until it expires nobody but the watchdog writes it, since whoever
reads it finds it taken and whoever read it before is refused by its version.

### The tool call

`ToolCallProofs`, for any number of calls, pods and workers and any bound on failures:

- `TypeCorrect`, and `ReleasesCorrect`: `ToolCallSpec => []ReleasesOwnPod`.
- `CommandsCorrect`: `ToolCallSpec => [](~SlowTools => CommandsExclusive)`.
- `UsesPool`: `ToolCallSpec => PoolSpec`, so a worker asks the pool for nothing but what
  `LeaseManager` is checked to give.

`JobOK` says what `processJob` knows of the pool at each of its steps: from the grant up to
the release `podName` is the pod its call was granted, and when it is reset the call has
returned it; so the finally block, which releases when `podName` is set, never releases
again what the next waiter was given. `StreamOK` is why one job stands for a call: a call
has one entry in the stream, and an entry that was not delivered has no job. `PodsOK` says
that a pod whose lock has not lapsed is granted to one call and runs no command but that
call's; a command ends before the release unless the tool outlives its timeout.

### Approvals and sessions

- `ChatWritesProofs`: `OnlyApprovedIsWritten` and `AcceptedDecisionHolds`, for any number of
  writes, tabs, lost connections and requests in flight. The invariant behind them ties each
  decision that is posted to a click, and each pending entry to an execute that waits and to
  which no decision was accepted.
- `ChatSessionProofs`: `EntriesCorrect` and `OwnCallsReturned`. The entries are those of the
  requests in progress and, since `addMessage` is called between `register` and the `try`,
  of those whose message could not be stored. A request that has not come
  is in no entry; the agent whose prompt runs is that of the prompt's request, and the
  request that made an agent is the first to prompt it (`AgentsInv`); so calls of other
  requests are pushed to an array only after the request whose array it is was answered
  (`CallsInv`).
- There, too, `ImplementsApproval` and `ImplementsSession` show that the composition
  is an `Approval` and a `ChatSession`, step by step, so `PartsCorrect` gets the theorems of
  both for it. `WritesToldCorrect`, `AnswerTellsItsWrites`, is about the two together: a
  write that was asked for is decided on, and in the array exactly if its executor did not
  throw, or its agent is still in its tool (`WritesInv`), and an agent in its tool has not
  ended the prompt whose request is answered with 200.

### The local calls

`LocalCallsProofs`: `ImplementsMath` (`Spec => MathSpec`: restarts, the clock and the
recording leave a computation alone), and with it, for all integers:

- `GcdCorrect`: the common divisors of `x` and `y` are those of `a` and `b` after each
  round, so the last `x`, whose partner is zero, divides both and is divided by all.
- `PrimeCorrect`: no number from 2 up to `i` divides `a`; divisors come in pairs around the
  square root, so none below or at it means none at all.
- `CountCorrect`: after the round of `i` the product is the number of permutations of
  `1..i`, and the pair are two numbers of Fibonacci (`CountInv`). A permutation of `1..n` is
  one of `1..n-1` and the value at `n` (`Without`, with an inverse), so there are `n` times
  as many; a set without neighbours in `1..k` holds `k`, and is one in `1..k-2` besides, or
  is one in `1..k-1`.

- `LocalTypeCorrect` (`TypeOK`), `SamplesCorrect` (`SamplesAreRecentRows`) and
  `PercentilesCorrect` (`PercentilesAreNearestRank`), from `MetricsInv`. A tool's samples
  are enumerated by rows (`Enumerates`): each sample is that of its row, the rows are in
  order, and they are just those of the tool within the window at its last. The table is
  in the order of time (`InOrder`), so what `prune` takes off the front is all that is too
  old (`SampleAdded`). A call of another tool leaves the enumeration alone
  (`CallRecorded`), and the calls of an answer, all or some, are recorded one by one
  (`AllRecorded`, by induction on how many). The property counts the rows, so it follows
  since what is enumerated in order has its place as its rank (`RankIsPlace`). That a
  permutation sorts any values, which `Sorted` needs, is by insertion of one more
  (`SorterGrows`); the first `idx` of the sorted are then no larger than the percentile,
  and a value below it can only have those in front of it below it
  (`PercentileIsNearestValue`).

### The trace page

`TracePageProofs`, for any number of requests, calls, visits and failures:

- `TraceRefinesSession`: `Spec => SessionSpec`, so what was proved of `ChatSession` holds.
- `TraceTypeCorrect`, and `LiveCallsCorrect`: `Spec => []LiveInTheirSession`. An event names
  the session of its call's request (`LiveInv`), and a request that was registered keeps its
  session; the page drops what is of another, and its live calls with the visit.
- `LoadingCorrect`: `Spec => []LoadingEnds`. The fetch of the latest visit leaves `fetches`
  only with `loading`.
- `ItemsCorrect`: `Spec => []EachCallShownOnce`. A session's table has one row for each
  request and role (`StoredInv`): the user's is stored before the request is registered, and
  the answer while it runs, which it does until that step. What was read of the table,
  however long ago, and the live calls have nothing twice either (`ReadInv`). A stored call
  is one of its row's request (`OwnCallsReturned`), so it is in no other row; a live call is
  an item of its own only if it is in no row. So the lists that `buildItems` joins have no
  item in common, and `FlattenJoins` says that such lists are joined without a repetition
  and without a loss. That is `Items`; of the `Timeline` it follows where the page renders
  them, and where it returns early there is nothing to repeat or to find.

### The chat page and the rate limiter

`ChatPageProofs`, for any limit, window, number of messages, sessions, visits, deletions:

- `BubblesCorrect`, `LockCorrect` and `PageTypeCorrect`. Each action empties what is shown,
  replaces it by rows, adds a message with the bubble of its answer, or writes that answer
  (`ShownStep`); the proofs are about these four. Besides the properties, `ShownOK` needs
  that a loading bubble is one that `send` added for an answer.
- `LimiterCorrect`: `Spec => []RefusedExactlyOverLimit`. The clock does not go back, so the
  times are in order and the loop of `isRateLimited` drops a beginning of them
  (`HitsAreLatest`): what it keeps are the times of the last requests, refused ones
  included, and all that were dropped are out of the window for good. So the length of the
  list, by which the code refuses, is the number of requests in the window.

Induction over a number, for the loops of `Recent` and `FlattenSeq`, is over the set of the
numbers that have the property (`InductionUpTo`, from `NatLessThanWellFounded` and `WFMin`):
the form that takes no operator as its parameter.

### Only model-checked

All liveness, which is beyond the proof system: `EveryWaiterAnswered`,
`AbandonedLeaseRecovered`, `LeakedReservationRecovered`, `EveryPodReturned`,
`EveryCallAnswered`, `EveryWriteAnswered`, `EveryChatAnswered` and `EveryComputationEnds`.
Every invariant and every action property of a passing run is proved. The properties that
expect a violation have none to prove.

## Plan

Done: the lease manager, which implements its abstract pool, the tool call, the approval,
the chat session and the two composed, the chat page with the rate limiter, the trace page,
the local calls and the metrics, each with theorems.

Next, in this order:

1. `ChatPage` and `ChatSession` composed: what `ChatPage` leaves open between `Accept` and
   `Complete`.
2. The titles and dates of `getSessions`.

## Not modelled

- The tools' commands, `shell_run`, `fs_read` and `env_inspect`: calls of the operating
  system.
- What the language model answers, and which tools it calls with what.
- `AnthropicClient` (`src/anthropic/client.ts`): nothing creates one, `server.ts` makes a
  `PiClient`.
- `PodsPage` and `TracesPage`, the monitor of the chat page and the selection of the trace
  page: they render what they fetched. So do `listLeaseStates`, `/health`, `/pods` and
  `/metrics`, which only read.
- `server.ts`: wiring and periodic broadcasts of what is only read; its watchdog is a
  process of `LeaseManager`.
- The manifests in `k8s/`, whose numbers are constants here; logging; rendering.
- `waitForPodFreed`, `disconnectAll`, `disposeSession` and the setters named above: called
  by nobody.
