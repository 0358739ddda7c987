# Formal models of the standalone Qianniu bridge

This directory models the bridge (`standalone_bridge.py`, `brain_ws.py`, the
native adapter) in TLA+, checks the models with TLC on small instances, and
proves their main invariants with TLAPS for every value of the constants.

The bridge sits between the Qianniu desktop client of a shop, a local gateway
(by default its own workbench) and a remote center, called the *brain*. It
captures the buyers' messages, stores them, posts them to the gateway, uploads
them to the brain, receives the brain's commands and sends replies through
Qianniu. It has about fifteen threads in one process, one SQLite database, and
every link it talks over may lose, delay or repeat things. The models are about
that: interleavings of its threads, crashes, retries, late answers.

## Inventory

Line numbers are those of `standalone_bridge.py` unless another file is named.

| Part | State | Operations | Hard because | Correct when |
|---|---|---|---|---|
| Send receipts (`StateDB`, 1557-1807) | table `sends`: status, payload, created, confirming event | claim, mark submitted / rejected / unknown, confirm by callback or echo, expire | five writers and a crash | one copy at most, a settled answer is final, open receipts settle |
| Send path (`send_text` 7606-7698, `AppBizSendAdapter` 5756-6255, `native/appbiz_adapter.cpp`) | the call's attempt, the callback's slot, tokens and receipts in the client | native call, wait, cancel, retry (Tmall only), detach | callback against deadline, late callbacks, errors before or after hand-over | a rejection is one, retries are bounded, a call is told of its own message |
| Gateway queue (`events`, `DeliveryWorker` 2353-2490) | rows with status and revision (a hash of the content) | upsert, enrich, remember, project, prune, claim, post, mark | rows rewritten while they are being sent; partial answers | nothing stranded, nothing delivered unposted, no second delivery |
| Brain queue (`brain_events`, 2711-2831, 3608-3926) | rows with status and revision; session watermark; configuration | enqueue, backfill, claim, upload, finish, requeue | four uploaders, enrichment, two transports | no revision lost or sent by two, newest content arrives |
| WebSocket channel (`brain_ws.py`) | batches waiting, owner of each event's ack, link | send frames, on ack, on command, reconnect | late and lost acks, lost links | an ack settles what it answers |
| Commands (`brain_commands`, 2049-2138; pool 3408-3537) | rows with status, result, lease; queue of 64; a lock per conversation | dispatch, claim, execute, store, report, retry, acknowledge | redelivery, inline fallback, crash | executed once, in order, result durable before it is reported |
| Session controls (1359-1434, 2951-3118, 3242-3329, 7560-7614) | `ai` or `human` with source, reason and expiry per conversation | keyword rule, operator's switch, handoff poll, drafts, session_state, expiry | read-then-write from five threads | an operator's decision is not lost; the AI is silent while a human has the session |
| Context enricher (4481-5325) | queue, per-event attempts, caches of answers | enqueue, look up, try again, conclude | a full queue blocks the thread that brings the answers; answers shared between messages and shops | every message is looked up; what is said of orders was said by a page asked on behalf of their account |
| Order log (`qn_native_orders.py`) | offset into the client's log | attach, read, find again | lines in pieces, lines cut within a character, rotation, failing calls | whole lines, all of them, as long as the offset has not strayed |
| Nicknames (`nickname_resolver.py`) | names, table of look-ups, database | scan, refresh, resolve, ingest, forget | three sources, a bounded table, failures, everything expires after a day | a name that can be found while it is looked for is found and kept |
| Page outbox (`browser_bridge.js`), handler (4396-4461) | outbox, `localStorage`, seen ids | capture, resolve a name, persist, flush, acknowledge, reconnect, reload | lost acknowledgements, overflow, two pages of one origin | what a guarded account captured is stored |
| Requests to pages (4000-4380) | table of pending requests | ask all, ask one after the other, answer, time out, disconnect | late and unfitting answers, pages that come and go | an answer counts for its request |
| Opening a chat (4255-4376, 7368-7470) | the watch on the client's selections | ask, look, give up | the client obeys late, the operator opens others | reported as open only if shown since |
| Waiting for an answer (`reception_wait.py`, `projection_status` and `session_reply_receipts` of `standalone_bridge.py`) | none of its own but the time of the last known reply: what the local copy says | since when does the buyer wait | captured in another order than said; replies known before or without their text | the deadline runs from the first message without an answer, and no answer is overlooked |
| Client launcher (5400-5755) | the client's processes, the debug port | look, launch, inject, reap, restart | two threads and a single-instance client | a client that was lost comes back |
| Native adapter (5756-6255), `appbiz_agent.js` | the script, the chosen service and its file | load, choose, restore, notice the end | process ids and addresses that come again | what is restored was chosen in this run |
| Hook recovery (`hook_recovery.py`) | stage, ages of the last tries and prompts | tick, remind, answer, repair | two threads write one state | a human is asked, not too often, and not in vain |
| Tray, launcher (`tray_app.py`, `tray_control.py`, `launcher.py`) | pid file, exit marker, processes | start, stop, restart, exit | three actors with nothing but files between them | a stop stops, a restart comes up |
| Docked panel (`docked_workbench.py`) | Edge's starter, profile and window | pass, launch, close | a closed window and a lost one look alike | closed stays closed, lost comes back |
| Upgrade (`tools/upgrade_installed.py`) | installation, backup, helper, configuration | stop, move, copy, start, verify, recover | every call may fail, also while recovering | the old program is never lost |
| Catalogue (`qn_catalog.py`) | goods stored, the sweep's page, the event that wakes it | request, wait, sweep, fail, restart | the listing shifts between pages; a request comes during a sweep | what stays on sale is found, no request is lost |
| Client support (`client_support.py`, `launcher.py` 209-286) | the page archives of every build of the client | inspect, inject one archive after the other | the client upgrades itself meanwhile; one archive fails | every complete archive gets the bridge back |
| Settings (`device_identity.py`, `config_dialog.py`, `launcher.py` 357-391, 799-820; 474-570, 2582-2819, 3791-3827) | `config.json`, the bridge's and the dialog's copies, the registration and its key | read, migrate the device, save, sync, change, register, test | two processes write one file; settings change during a registration | the center knows the seat by the settings in use |
| Downloads of updates, probes, scripts | files | download, verify, analyse | interrupted writes | not modelled |

How they interact: the capture threads call `ingest_event`, which writes
`events`, confirms receipts from echoes, queues the event for the enricher and
for the brain, applies the keyword rule and wakes the workers. The enricher
writes `events` and `brain_events` behind the workers' backs. The poller and the
WebSocket thread receive commands and hand them to the pool; a worker looks at
the session's control and executes a command through `send_text`, so a receipt
of `sends` is below a result of `brain_commands`. Every `StateDB` method is one
transaction under one lock; everything between two methods interleaves. The
pages, the client and the tray are processes of their own. PROJECT.json lists
every component with its status, and every hazard at its line with the
properties that are about it.

## Modules

| Module | Models | Uses |
|---|---|---|
| `SendOutcome` | what a receipt promises: opened once, one copy, settled for good | |
| `SendReceipts` | `sends` with all its writers, `send_text`, the adapter, Qianniu | `SendOutcome`, for `ImplementsOutcome` |
| `SendReceiptsProofs` | its invariants; that it implements `SendOutcome` | `SendReceipts` |
| `GatewayQueue`, `GatewayQueueProofs` | `events` and the `DeliveryWorker` | |
| `BrainQueue` | `brain_events`, the uploaders, both transports | |
| `CommandSetting` | the commands, threads and bounds the pool is about | |
| `CommandPool`, `CommandPoolProofs` | `brain_commands`, the pool, the receivers | `CommandSetting`; composes with `SendOutcome` |
| `SessionControl`, `SessionControlProofs` | `session_controls`, its five writers, the check before a send | |
| `PageOutbox` | the pages' outboxes, `localStorage`, connections, the handler | |
| `PageCalls`, `OpenChat`, `ChatSwitch` | requests to pages; opening a chat through a page and through the client's protocol | |
| `SendTokens` | tokens and receipts of native sends | |
| `OrderLookup`, `LogTail`, `Nicknames`, `CatalogSync` | the enricher's own queue; the log reader; nicknames; the catalogue | |
| `ReplyWait` | since when a buyer waits, by the local copy | |
| `HookRecovery`, `ClientLauncher`, `NativeAttach` | hooks, the client, the script in it | |
| `Lifecycle`, `DockPanel`, `Upgrade` | processes of the seat, the panel, the upgrade | |
| `WebuiSupport`, `Settings` | the watch on the page archives; configuration and registration | |
| `MCBrainQueue`, `MCCommandPool` | symmetry and values for TLC | |
| `MCOutbound`, `MCArrivals`, `MCCenter`, `MCInbound`, `MCBridge`, `MCSeat` | several parts side by side in one run | the parts |
| `BridgeProofs` | the upload queue; every part of `MCBridge` | `MCBridge`, the proofs about the gateway queue and the pool as instances |
| `CenterProofs` | the types of `MCCenter`; that its sends implement `SendOutcome` | the proofs about controls and receipts as instances |
| `SeatProofs`, `InboundProofs` | the parts of `MCSeat` and `MCInbound` | |

`CommandPool` does not repeat the send path. It instantiates `SendOutcome`, the
abstract specification that `SendReceipts` is shown, by TLC and by proof, to
implement.

Definitions marked "Slip" are mistakes that the code could have had; no action
uses them. Each is named in PROJECT.json as a mutant that some property rejects.

### SendReceipts

A `StateDB` method is one action. The native call, the wait and the write of the
receipt are separate actions of a caller, whose `pc` says where it stands in
`send_text`. `Central` are the requests of Tmall accounts, the only ones that
are retried (three attempts) and whose unexpected errors become `unknown` instead
of `rejected`. `copies` counts the texts Qianniu accepted and did not reject;
`doubt` are the accepted texts whose callback is still to come; `said` are the
messages that appeared in a conversation. `Manual` are messages the operator
types: an echo of one may carry the buyer and text of a request, and
`ConfirmFromEvent` then confirms the request, as the code does.

Time is the order of the claims. A sweep takes any cutoff and an echo any window
that contains its message, so the five-second slack, the 15 s and the 300 s of
the code are among the choices. Environment: Qianniu rejects a text only while
it has neither confirmed nor shown it. One assumption goes into `copies`: a
non-zero return of `sendtext` means that the text was not taken.

### GatewayQueue

Contents are numbered in the order in which a row takes them, instead of hashed;
the code compares hashes for equality only. Three constants say what the
environment does: `Enriching` (the enricher is on, the default),
`PartialAnswers` and `RejectsDuplicates` (what a foreign gateway may answer; the
bundled one stores a whole chunk or refuses it, lines 275-296). `Mine` is the
condition of every update by the worker: same revision, still `sending`.

### BrainQueue

`rev` is the revision of the row of `events`, `brain` the queue's row, which may
be behind it. An uploader claims the queue's revision but uploads the content of
the event's row (a join), so `hold` has both. Over the WebSocket the batch goes out as
frames, `owner` is the channel's table from event id to waiting batch, and
acknowledgements carry the content they answer only for the sake of the
properties: the code sees the event id. `fresh` are the rows above the session
watermark that `Register` backfills. The gateway's status of an event is not in
this module, so a writer that depends on it may act in any. `HttpNext` are the
steps without the WebSocket, retention and reconfiguration; liveness is stated
for them.

### CommandPool

`pc` of a thread is its place in `handle_command`; `locking` is a worker that has
taken a command and waits for the conversation's lock, which is held by
whichever worker is further on (`Busy`). Receivers that find the queue full go to
`claiming` themselves, without a lock. `age` is the order by `updated_at`, by
which the retries pick; `todo` is the list they read before they report. The
center may deliver any command at any time again. `Refuse` stands for the checks
that precede an execution: their outcome may differ from one delivery to the
next, since settings and session modes change.

### SessionControl

`ctl` is the table, `brain` what the center has decided, `pushed` the
`session_state` commands on their way. `apply_brain_handoff` reads the control in
one transaction (`Look`) and writes it in another (`Apply`); `hand` is where a
thread stands between them, `ingest` the same for the keyword rule, `op` for the
operator's switch, which asks the center first. The poll fetches pages that
each show another moment, applies the holds, and then releases what it did not
find. `checked` is an executor between its look at the control and the native
call. Reasons and times are left out, but a keyword's hold expires.

### PageOutbox, PageCalls, OpenChat, ChatSwitch

An envelope is an id and whether its buyer's name is still to be resolved. All
pages of `PageOutbox` have one origin: `disk` is the one `localStorage` key they
write. `wire` and `acks` are lost with the connection. In `PageCalls` an answer
fits, does not, or is an error; the handler looks a request up by its id, which
is one for all pages in `execute` and one for each in `execute_all`. `OpenChat` and
`ChatSwitch` keep what the client really showed (`seen`, `switched`) beside what
the bridge can know: the page's report, or the selections in the client's log
behind the watch's cursor. The client may obey a command of an earlier call late.

### SendTokens

`send_text` takes a token, the adapter notes it before the message is handed
over, and a callback fills the receipt of its token. A detached script leaves
the receipts behind, and a restarted bridge counts from 1 again.

### OrderLookup, LogTail, Nicknames, CatalogSync

`OrderLookup` is one buyer with messages at two shops. `_fetch_once` calls
`BrowserHub.execute`, which asks every page and takes the first answer, so the
answer of an `Attempt` is that of any shop's page; what it says is free, apart from
orders that are there or not (`buys`). `told` remembers, for the properties, for
which account was asked, which shop's page answered, and what. `hand` is the
message whose enqueuing blocks the connection's thread while the queue is full;
then answers come too late.

`LogTail` counts bytes: a line is `Width` of them, the client appends any number,
rotates, and may cut a line within a character (`MaxCuts`). A `stat` that fails
makes `run` find the file again, with the last bytes of it (`StatFails`,
`Attach`), an `open` that fails leaves the offset (`ReadFails`). `strayed` says
that the offset may be within a line, `turned` that a rotation has not been looked
at, `missed` what lies before such an offset. The bytes of replacement a cut
character adds are one; that the file is rotated between the `stat` and the `open`
of one `_consume` is left out.

In `Nicknames` names are numbered in the order the buyer took them, so that an
older one can be told from a newer. Everything there expires after a day: the
buyers that `scan_recent` sees (`recent`, `Quiet`), names of the log (`Reads(S)`
forgets those of S, be it by age or by their number), and look-ups (`Resolved(S)`).

`CatalogSync` is the thread that reads the
listing page by page while goods are taken off sale or put on at its head;
`wakeup` is the Event that a request sets, `asked` remembers for the property that
no sync has begun since. Goods without an id are listed and not stored.

### ReplyWait

The module has no process: messages are said in one order and captured in
another, a reply is known to have gone out with its text or later (`confirmed`),
and receipts tell of replies whose text may never come (`receipt`, the latest one).
`StartedAt` is `reply_wait_started_at`, over what was captured. Times are seconds and
may be equal. Left out: messages of neither side, repairs of a message's role by
the login id, the limits on the events and sessions that are read, the 30 days after
which events are deleted, drafts, and messages dated in the future.

What `tmall_delivery_guard.py` and `taobao_message_contract.py` say of a command
that a new message of the buyer supersedes (`blocked_reason`, `select_parent`) is not
modelled: no send goes through it. `execute_command` and `send_text` do not call it,
and tests state that a new question does not veto a command of the center
(`tests/test_tmall_delivery_guard.py` 73-77).

### HookRecovery, ClientLauncher, NativeAttach

`HookRecovery` keeps ages instead of moments, up to `Forever`. `tick` and the
reminder's thread are two processes that write one stage. `ClientLauncher` has
one client, a helper process that may outlive it, and another installation's
client; a client started while one runs hands over to it. In `NativeAttach` a
run of the client stands for its start time; process ids and addresses may come
again; `chosen` remembers, for the property, what the client's own calls selected
in each run.

### Lifecycle, DockPanel, Upgrade

`Lifecycle` has three actors (the tray's worker, its exit thread, the launcher),
each at a step of `stop_all` or `start_all`, and bridges that answer, take their
client with them and end. `DockPanel` measures time in passes of its loop.
`Upgrade` is sequential; every call may fail, `MaxFailures` of them do, and the
process may be killed at any step.

### WebuiSupport, Settings

In `WebuiSupport` an archive is a number, its place in path order, and is missing,
torn, bare or injected. The client may unpack a build, leave it unfinished or hold
an archive at any time. A pass of the watcher inspects, and if anything lacks the
bridge it comes to every archive there is; the first that fails ends the pass.

In `Settings` a token stands for all that is entered together (address, token, name)
and is entered once; the brain is always enabled. `file` is config.json, `raw` the
bridge's copy, `copy` what `main` or the dialog has read. `raw`, the registration
and its key are gone with the process. The center binds a token to the
device that uses it first and gives each token its agent id; it takes a repeated
migration for the first one (if it did not, a seat whose answer was lost would never
come up, as `main` gives up before the bridge). Each write of config.json is atomic.
The writes of the launcher's panel settings and of defaults are left out. With
`MayReturn` the bridge may be given settings it had before; `SettingsArrive` does not
hold then, see below.

## Runs

Every run is exhaustive over its instance. Bounds are constants named `Max...`.

| Run | Shows | Instance |
|---|---|---|
| `Outbound` | what the center asks of a seat: types, one copy, honest rejections of guarded accounts, final answers, founded confirmations; `ResultStands`: results are final, the center acknowledged the one in the table, nothing sent is reported as blocked before a crash | sends: 2 requests (one Central), 2 callers, 2 payloads, 1 manual message, 3 attempts, 1 crash; commands: a send and a chat of one conversation, 2 workers, 1 crash, no overflow |
| `Arrivals` | what is repeated until it has arrived: over HTTP a delivered row was answered at its content, and every queued revision arrives, or a newer one; stored results are reported until acknowledged; the outbox of a page empties | 2 events (one of a blocked shop), 2 uploaders, 2 contents, 1 restart; two chats, a worker, the poller; a page with 2 messages, 1 drop, 1 reload |
| `Center` | an operator's hold ends by the operator or by a thread that looked before it; one late answer an executor; the brain's decision arrives; `SendsSettle`: open receipts settle, also after a crash, and calls return; `SendReceipts` implements `SendOutcome` | one ordinary conversation with an executor, one guarded; 2 changes of the brain, 1 switch, 1 keyword, 2 answers, 1 failed poll; the sends of `Outbound` with 1 payload and no manual message |
| `Inbound` | nothing that comes in is stranded: gateway queue, look-ups, log, nicknames, catalogue | 3 events and the bundled gateway; 3 messages, queue of 1, the pages of two shops; lines of 2 bytes, files of 8, 1 rotation, 1 line cut within a character, 1 failing call; 2 buyers, one of whom is renamed, table of 1; 3 goods (one without an id), pages of 1, 1 change, 1 fault |
| `Bridge` | safety with every freedom of the environment: uploads over the WebSocket, gateway queue, inline commands, page requests, opening chats, tokens, overflow of an outbox, waiting for an answer, upgrade | 1 event, 2 uploaders, 2 contents; 2 events and a draft; a command and 2 receivers, or a worker and queue of 1; 2 pages; 2 chats, 2 calls; 2 sends; a page with an outbox of 1; 4 messages said; 3 paths, 2 failures |
| `Seat` | what was lost comes back, what was closed stays closed, humans are asked neither too often nor too late; the center is registered with by the settings in use | hooks with intervals of 1 to 3; one client; 3 bridges, 2 jobs; 3 faults of the panel; 2 runs of the client, 2 services, 1 restart; 3 archives; 2 tokens, any number of restarts and dialogs |

Two of each kind are what the interleavings need: two callers with one request,
two uploaders with one event, a command and its redelivery next to another of
its conversation, two pages of which one answers for the other, two sends whose
callbacks cross. One crash separates what was durable from what was not; the
tables after it are a state from which the same steps go on. `ResultStands` needs
a queue that does not overflow: `QueueMax` is above `MaxWaiting` there.

**Several parts in one run.** The parts of `Outbound`, `Arrivals`, `Center`, `Inbound`,
`Bridge` and `Seat` share no state in these runs. Their product would only multiply
interleavings that no property can tell apart, so a behaviour picks one `part` and stays with it: the others keep
one of their initial states. The state space is the sum of the parts' state
spaces, and a property of a part is checked in exactly the behaviours of that
part. Since `part` never changes, a fairness condition of one part may be joined
with one of another: `WF_working(In("a", A) \/ In("b", B))` says of the behaviours
of part a what `WF(A)` says, and of those of part b what `WF(B)` says.

Deadlock is checked in `Outbound`, where some action of either part is always possible.
The other models stop when their bounds are used up and every queue is empty;
their configurations turn the check off. Stranded work is the business of
`SendingIsHeld` and the liveness properties.

### Where the code and its documents disagree

Each of these runs checks one statement of a document, and TLC finds a behaviour
of the code that breaks it.

| Run | Statement | What happens |
|---|---|---|
| `GatewayEnriched` | README.md:27, delivered after the ACK | an enrichment during the post changes the revision; the row stays `sending` until a restart |
| `PoolChatTwice` | brain-workbench.md:84, once, also after a restart | an `open_chat` left `in_flight` is executed again |
| `SupportReinjects` | `client_support.py` 10, any archive that lost the bridge is injected again | the loop over the archives ends at one that cannot be injected; those behind it stay without the bridge |
| `PoolOrder` | README.md:142, per-conversation locks keep the order | a worker takes the lock only after it took its command from the queue |
| `OrderPages` | standalone_bridge.py:4147-4149, orders have to be asked of every page, or an empty answer that comes first covers the page that has some | the look-up takes the first answer of any shop's page (5088) and tells an absence of orders of a buyer who has some |
| `LogCut` | qn_native_orders.py:305, only whole lines are handled | a first read that begins within a character is encoded longer than it was read, and the offset runs into the next line (312) |

`GatewayEnriched` and `SupportReinjects` are temporal: they run under the fairness
below, and the counterexamples are behaviours in which the worker, or the watcher,
does all it can.

The limits that the passing runs put on their properties are disagreements of
the same kind:

- `CentralRejectionHonest` is about guarded accounts. For the others an error
  raised while waiting for the callback of an accepted text is recorded as
  `rejected` (7679), which README.md:82 calls an explicit refusal.
- `SendsSettle` includes receipts that a crash abandoned: the sweep makes them
  `unknown` (1673), while README.md:86 says that they stay `in_flight`. The sweep
  may also settle a receipt between two attempts (comment at 7666).
- `DeliveredIsStored` is checked without `RejectsDuplicates`: one duplicate marks
  the claim's unposted chunks as delivered (2482).
- `DeliveredIsCurrent` is checked over HTTP: over the WebSocket a late ack, which
  names only its event, settles a newer revision (`brain_ws.py` 587).
- `Register` queues what was inserted since the process started (2820), not since
  the brain was enabled, as brain-workbench.md:83 has it.
- `ResultStands` is checked without overflow: the inline fallback takes no lock
  (3483), against the docstring at 3425.
- `ResultsArrive` is checked with `Refused = {}`: a result that is refused for good
  ends every round of retries at the same place (3535), against
  brain-workbench.md:13.

- `HoldEndsByOperator` excepts a thread that looked at the control before the
  hold began: it overwrites the operator's choice (3056, 7573). It is about
  ordinary accounts; for guarded ones README.md:191 says that a pause stays until
  an explicit resumption, and not which of two writers is one.
- `LateAnswersBounded` allows one answer of each executor into a hold: the control
  is read before the send (3344).
- `GuardedLeavesStored` and `OutboxDrains` except reloads: pages of one origin
  overwrite each other's copy in `localStorage` (`browser_bridge.js` 276).
- `ReceiptIsOwn` is stated for one run of the bridge: tokens start at 1 again,
  while the client still has the receipts of the last run (5777).
- `OrdersAreTold` says of what is told of a buyer's orders that a page, asked on behalf
  of that account, said so; which shop the page is of is not promised (`OrderPages`).
  It asks for it in absences of guarded accounts only (4852), and in orders found
  only while the client's log, which names no shop, says nothing of the buyer (4893).
- `SourcesAreRead` excepts, for whole lines, an offset that has strayed: by a cut
  character (`LogCut`), by a file that is found again after a failed `stat` and cut
  into by the backfill, whose first half line is then taken for a whole one as
  `_first_chunk_done` stands (`qn_native_orders.py` 287-290, 306-309), or by a rotation
  that does not make the file smaller. What is lost by it is `missed`: the line strayed
  into, and in a rotated file what lies before the old offset. For the catalogue it is about one
  shop and a listing that fits into `MaxPages`: with two shops' pages open either
  answers each page of the sweep (`qn_catalog.py` 518).
- `WaitsAreTold`: what was answered is waited for again only within the second of a
  receipt, which answers all of its second until the reply itself is captured.
- `NicknamesAreFound` is about buyers with a message, or a look-up begun, in the last
  day, and names noted in the log in the last day: the worker looks for no others
  (`nickname_resolver.py` 442-444, 477-481, 519-521).
- `JobsAreDone` speaks of the last job that was asked: a start and a stop at once
  end in either.
- `JobsAreDone` includes `SettingsArrive`, with `MayReturn = FALSE`: settings that are
  changed and changed back while the center answers a registration go unnoticed, as
  the key is the same again (3805).
- Nothing is stated of what the dialog saved and could not tell the bridge: the
  bridge's next write of its own copy loses it (552, 567). The dialog asks for
  a restart (`launcher.py` 815).
- `ClientIsBack` speaks of archives once the client has left none of them torn or
  locked; `SupportReinjects` shows why.
- `HumansAreAsked` is checked with an interval above the time a reminder stays
  open; the setting's minimum of one minute is below it (`hook_recovery.py` 173).

## Fairness

- `SendReceipts`: a caller that is in a call takes its next step (RPCs return or
  raise, the wait has a deadline), and the sweep runs (on `/status` and before
  each send). Nothing is assumed of Qianniu.
- `GatewayQueue`: the worker's thread runs; strong fairness only of "the gateway
  answers for everything that is left", when it is posted again and again.
- `BrainQueue`: registration, enqueueing and the uploaders run. Strong fairness of
  the claim of a row, since enrichments may delay it by making it younger (there
  are finitely many); and of a complete answer of a center that is asked again
  and again. Liveness is checked over HTTP: over the WebSocket the arrival of the
  newest content fails with `DeliveredIsCurrent`.
- `CommandPool`: threads run; strong fairness of `Retry` (the poller is back at its
  loop again and again), of the lock, and, for each thread, of the center taking the
  result it reports.
- `SessionControl`: threads run and holds expire; strong fairness of the poll's
  turn, since the draft syncs of the same thread come between.
- `PageOutbox`: timers fire, pages reconnect (`scheduleReconnect` never gives up),
  the handler ingests and acknowledges. Drops and reloads are bounded.
- `OrderLookup`: the worker runs and every attempt ends, if only by its time-out.
- `LogTail`: the loop that runs every second, with failures bounded. `Nicknames`: its
  loop, and strong fairness of the scan, which is due once a minute.
- `CatalogSync`: the thread runs and its waits end, pages that are connected answer.
  Failures of calls, and restarts, are bounded.
- `HookRecovery`: `tick` is called, time passes, a reminder that nobody answers
  closes itself and a repair ends. Nothing is assumed of the human or the pages.
- `ClientLauncher`, `NativeAttach`: the loops run; a launch, an injection and a load
  end, well or badly. The client may end at any time, finitely often.
- `Lifecycle`: every actor takes its next step and an ending process ends.
- `DockPanel`: passes of the loop; Edge ends its processes and shows its window.
- `WebuiSupport`: the watcher's thread runs. `Settings`: the threads that register run.
  Neither assumes anything of the client or the center; the properties do, when they
  say "once the client has finished" or "once requests are answered".

The modules `PageCalls`, `OpenChat`, `ChatSwitch`, `SendTokens`, `ReplyWait` and
`Upgrade` state safety only.

## Proofs

Every safety property that a passing run checks is a theorem, for any values of the
constants that satisfy the assumptions the modules name: markers differ from what
they mark, bounds are naturals, and what a proof counts is finite. The narrower
assumptions, which say something of the code or of its environment, are named below
with the proof that needs them. The components' modules have their theorems; a
module of parts has those of its parts, by `StepOfPart`: a step of the
composition is a step of the part at work and leaves the others alone. Parts that
have a proof module of their own come in as instances of it, with one lemma that
maps their steps and one that discharges the assumptions.

`SendReceiptsProofs`. The five properties are not inductive. `IInv` adds what the
code relies on and nowhere says: a request has one caller at most, since the
row is inserted before the call (`Owned`); where a caller stands bounds `copies`
and `doubt` (an attempt starts with no copy; a caller that goes to `reject` has
none); a caller that saw a callback has its text for good; the table's rows are
numbered by their claims; what is final in the table never has a way back. The
step is proved action by action. `told` makes `AnswerIsFinal` an invariant. Its
second part shows that the initial state maps to that of `SendOutcome` and that
each action of `Next` maps to one action or a stutter: `Move` between open
statuses is a stutter, `Expire` is `GiveUp` of the rows it takes, a callback or an
unheard rejection is `Recall`.

`GatewayQueueProofs`. `DeliveredForGood`, `DraftsLocal` and `TypeCorrect` hold for
every value of the three flags, and need little: that the worker's batch has no
draft. `DeliveredStored` assumes `~RejectsDuplicates`: what is to be marked was
stored. `SendingHeld` assumes `~Enriching` and `~PartialAnswers`: a row that is
sending is in the batch at its revision, and is either in a chunk to be posted or
about to be marked. `GatewayEnriched` shows that the assumption on enrichment is
needed.

`CommandPoolProofs`. `ResultIsKept` assumes `MaxWaiting < QueueMax`: the queue does
not overflow, so no receiver executes anything. `Inv` says who may be where. Two
workers past their locks have commands of different conversations (`Apart`), hence
of different commands, which is what a claim relies on; what a thread holds agrees
with the table at each step (`HandsAgree`), and so does what the poller read
(`TodoAgrees`); the center's knowledge comes from the table. Before the first crash
a command in flight is in some worker's hands (`FirstRun`), so a redelivery finds
nothing to do, and a refusal was decided before there was a receipt.

Its second part needs no assumption about the queue, so it is about commands
executed inline as well. `Told` is weaker where two threads may have one
command: whatever a thread is about to report, and whatever the poller read, has a
result in the table. `ToldIsStored` and `TypeCorrect` follow; the types include that
`age` lists a command once.

`SessionControlProofs`. `TypeOK` is part of `Inv`; `CheckedBefore` is the heart: an
executor past its check of a conversation that is now held has sent nothing into
the hold, since the count begins with the hold and no check passes during it. Each
such executor sends once and must check again, so one late answer each is the bound,
with any number of them. `HoldIsKept` needs that the keyword rule goes on only with
what it saw with the AI (`KeywordSawAi`), and that a thread's view differs from the
row when it overwrites a hold, so that it looked before it. `CenterProofs` takes the
types of `MCCenter` from here and from `SendReceiptsProofs`, and from the latter that its
sends implement `SendOutcome`.

`BridgeProofs`, part by part:

- *The upload queue.* `QInv` is: types; contents numbered (`Numbered`); the queue's
  revision is not ahead of them (`QueueBehind`); a sending row is held; no two
  holders at a revision; a holder's revision is the row's if that is still sending,
  else older or equal (`HolderIsLast`); idle uploaders hold nothing. Enrichment keeps
  it because it makes a row pending with a revision nobody holds. `RequeuedForNewer`
  follows from `QueueBehind`. `CurrentOverHttp` adds for `HttpNext` that an uploader
  posts a content at least as new as the revision it claimed, which is `QueueBehind`
  at the moment of the claim, and that what it takes for acknowledged was seen by the
  center. The second fails over the WebSocket, where an acknowledgement names its
  event only. `RestInv` types the seat and the channel: an event's owner is an
  uploader that waits, and what it got is of its batch.
- *Opening a chat.* While a page is watched, what the client shows has been noted
  (`OpeningInv`). Every line of the log behind the watch's cursor was written since
  the call began, and a selection counts if it was read since (`SwitchingInv`).
- *Requests to pages.* `CallsInv` relates each call to what the pages have of it: a page
  works on what it was asked (`WorkWasSent`), and a pending request has a call that waits
  for it (`PendingIsAwaited`). `OneCounts`: the answers passed over and those to look at
  are of different pages, so a call has passed over all of them only if none fits;
  `AllCounts`: the answer to look at is that of the page last asked, and one that
  fits is kept or still to be looked at. It assumes finitely many pages.
- *Tokens.* A send that takes a token finds the counter at most at the number of
  those that began before it plus one, so every token has its receipt; in one run of
  the bridge no token is taken twice, and a receipt names the send that took its
  token. It assumes finitely many sends.
- *The upgrade.* `Kept` says what is in the place of each path, by whether it is of the
  old program, saved or created; `ForwardSteps` that while the upgrade goes on what
  was moved is what is saved, and that the path being copied was saved first;
  `RecoverySteps` that before a path is moved back its place is free. `Failures`
  counts the failing calls a step of the recovery has behind it.
- *Commands executed inline, what is sent once.* `InlineIsTold` and `SentOnce` come
  from `CommandPoolProofs`, for receivers alone and beside a worker, and from
  `GatewayQueueProofs`.
- *Waiting for an answer.* `WaitsInv`: no message is captured twice, and each one was
  said. Then of two messages one is the later (`Later` is total on what was captured),
  and capturing another changes neither (`CapturedLater`). A set of places has a least
  one, which `Least` takes from the well-foundedness of `<`; so the deadline stands
  while only messages of the buyer come (`DeadlineStep`). What is answered stays so
  since replies are only added and a receipt only grows; the exception is a reply in
  the second of the receipt, which takes the receipt's place (`AnsweredStep`).
- *The outbox of a page.* An acknowledgement a page has received is of a message in the
  database (`PageInv`). That an overflow drops no guarded envelope rests on what
  `Without` computes, which is a recursive function over the places of a sequence. The
  least place at which it goes wrong would have a predecessor where it does not: that
  is the induction, without a theorem that takes an operator.

`SeatProofs`. The service file names a run of the client and a service chosen in it, or
is of an earlier run (`FileIsHonest`), and runs are numbered as they come: so what
is restored was chosen, though process ids come again. The reminder's proof uses
`WindowAssumption`: a reminder is gone before the next one is due, as it closes
itself after two minutes and one is due every fifteen. The settings' types need that
a thread with a registration to store belongs to a bridge that runs.

`InboundProofs`. What is remembered of an account's orders, as an answer, in the cache
or as a shared result, is something a page answered when asked on its behalf
(`OrdersInv`); that it was the shop's own page is not among it, and does not hold.
The log reader stands at the end of a line, or within one before whose first break it
drops what it reads, unless its offset has strayed or a rotation has yet to be noticed
(`StandsAtLine`); lines have two bytes there, and the first read takes a line at least
(`LogAssumption`). Files found again, failing calls, cuts and rotations in any
number are among its steps. `NicksInv` keeps the table of look-ups in its bound and
has the worker go through names of its own pass only. A request to sync stands
because the event is cleared before the first page is read.

Not proved, and why:

- liveness, in every module: fairness and `ENABLED` are not within the prover's reach.
  The safety halves of `HumansAreAsked`, `OrdersAreTold`, `SourcesAreRead` and
  `NicknamesAreFound` are theorems by themselves (`RemindersSpaced`,
  `OrdersToldHonestly`, `WholeLinesRead`, `RequestsKept`, `NicknamesStay`);
- the runs that find violations, which a proof cannot help;
- `ResultStands` with a queue that overflows: it does not hold there.

No module that is proved about uses a `RECURSIVE` operator.

## Not modelled

Power loss (with WAL and `synchronous=NORMAL` the last transactions may vanish;
comment at 610-613); errors of SQLite; the migration of the old status `completed`;
`delivery_enabled=false`; the batch limits of 100 and 10 and what starves behind
them; a command id reused with another payload; more than one command per pull; the
handshake and the back-off of the WebSocket; the workbench's queries of the
catalogue and the parsing of pages; what a page's SDK looks like, offsets and
structures in the client's memory, and where windows are placed; the download and
the signatures of updates; validation and encryption of settings; profiles of AppBiz
builds and the state of the GPU, which are only reported; the probes and the scripts.

Some paths are left out of modules that have the rest of their component. In
`Lifecycle` a bridge that answers at all is taken to report itself ok before the 40
seconds of `start_all` are over (`launcher.py` 709): one that answers "not ok" for so
long is ended with an error box, as one that does not answer. And the start after
changed settings (`tray_app.py` 287-288, `launcher.py` 820), which takes no action lock,
is not among the actors. In `DockPanel` Edge is installed: a launch
without it raises and ends the process (`docked_workbench.py` 398-399); and only the
panel beside the client is run (`Snapping`), not the floating one. `SessionControl`
applies pushed session states in the order the center sent them, though two workers
may swap two commands of one conversation (3437-3450); `PoolOrder` is the run about
that. In `Upgrade` a first `stop()` that fails (`upgrade_installed.py` 186, outside the
`try`) ends refused, with the old program in its place and perhaps not running:
`OneFailureIsRecovered` is about failures after it.

An instance leaves some things out that its module has: Prune is not in the
liveness of `BrainQueue`, no run has two pages of one origin, restarts of the
bridge are not in the property of `SendTokens`. Each is named where its property is
stated. The components with status `not_modelled` in PROJECT.json have their reasons
there.

## Plan

Done: the send path, the two queues, the command pool, session controls, the
pages with their outbox and requests, the enricher's queue, the log, nicknames,
the catalogue, waiting for an answer, hooks, launcher, native adapter, the seat's
processes, the panel, the upgrade, the watch on the page archives and the
settings. Proved: every safety property of a passing run, the refinement of the
send path, and the types of every part.

Next, in this order:

1. `CommandPool` with `SendReceipts` in place of `SendOutcome`, so that an answer ok
   after a crash can be told from one with evidence (3366).
2. A refinement of `CommandPool` to "one result at most for each command".
3. The drafts' watch list and the import of the center's history, which composes
   the history's insertion with the live capture.
4. `client_updater.py`: download, check and hand over to the upgrade.
