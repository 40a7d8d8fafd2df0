# A TLA+ verification of WinVibe

WinVibe puts a human in front of the tool calls of a coding agent.  The agent's
*PreToolUse* hook starts the command line `winvibe-hookcli`, which submits the
call over HTTP to the desktop application; the application shows it in its HUD,
the user approves or denies, and the hook prints the decision on its standard
output.  This directory holds TLA+ models of the parts that keep state, the TLC
configurations that check them, and machine-checked proofs of what they check.

Paths below are relative to `src/crates/`, except `web/`, which is `src/web/`, and
`docs/`, which is `src/docs/`.  "The design" is
`docs/superpowers/specs/2026-04-20-mvp1-hook-server-hud-approval-design.md`.

To check a run, in this directory: `tlc -workers 2 -config <cfg> <MC module>`; to
check the proofs, `tlapm <module>.tla` for `ApprovalStoreLemmas` and each module whose
name ends in `Proofs`.

## 1. Inventory

| Part | State it keeps | Operations | Hard because |
|---|---|---|---|
| approval store (`winvibe-core/src/approval/store.rs`) | the active slot, the map of known approvals, the fingerprint index, the FIFO of decided ids, the revision | `enqueue`, `decide`, `cancel`, `expire_due_pending`, `snapshot`, `get` | four structures kept consistent by hand; eviction; ids that come back |
| approval runtime (`winvibe-hook-server/src/runtime.rs`) | the store behind an async lock, the watch channels behind another, the accepting flag | `submit_pre_tool_use`, `poll_decision`, `decide`, `cancel_all_pending`, `snapshot`, `begin_shutdown` | calls interleave between two locks; handlers are dropped when clients hang up; timers; shutdown |
| HTTP handlers and middleware (`winvibe-hook-server/src/handlers`, `middleware`) | none | trace, token and origin layers; outcomes to statuses | the order of the layers; error paths |
| server handle (`server.rs`) | the running server, a shutting-down flag | `start`, `shutdown` | graceful shutdown waits for open requests |
| lifecycle sink and audit (`winvibe-app/src/lifecycle_sink.rs`, `audit/`) | a channel of 256 messages, one file per day | `approval_pushed`, `approval_resolved`, `write`, `flush`, `shutdown` | spawned tasks, a bounded channel, exit |
| exit sequence (`winvibe-app/src/lib.rs`) | none of its own | the five steps on `CloseRequested` | order of steps against requests in flight |
| HUD (`web/src`, `winvibe-app/src/commands.rs`) | the last snapshot, optimistic changes, a loading flag | `snapshot`, `decide`, event listeners | answers out of order, rollback over newer state |
| hook command line (`winvibe-hookcli`) | deadline, approval id | submit, poll loop, exit code | time limits, fail-closed on every error |
| configuration file (`winvibe-app/src/config_loader.rs`, `winvibe-hookcli/src/config_loader.rs`, `winvibe-core/src/config.rs`) | a TOML file on disk | create, read, write the token back by rename, validate | several processes, crashes between steps, a rewrite of text that a user has written and may be writing |
| fingerprint and canonical JSON (`winvibe-core/src/approval/fingerprint.rs`) | none | `canonical_json`, `compute_fingerprint` | quoting and key order are written by hand |
| diagnostics (`winvibe-app/src/diagnostic`) | one file per approval id | append | best effort, beside an audit that succeeds or fails on its own |
| clean-up (`audit/cleanup.rs`, `diagnostic/cleanup.rs`) | none | list, look at the age, remove | the files are appended to meanwhile; another instance cleans too |
| redaction (`winvibe-app/src/redact`) | none | what a page may see of an approval | – |
| session hash, trace context (`winvibe-core`) | none | pure functions | – |
| contract tests, scripts | – | – | – |

How they interact: a hook process calls the handlers over HTTP; a handler calls
the runtime, which calls the store inside its first lock, touches the map of watch
channels inside its second, and calls the lifecycle sink outside both.  The sink
emits an event to the HUD page and spawns a task that sends a record to the audit
channel, which one writer task empties into the file of the day.  The page answers
an event with a `snapshot` command and a click with a `decide` command; both go to
the same runtime.  The close handler calls the runtime, the server handle and the
audit sink in turn.  Before a request reaches a handler it passes the layers of the
server: trace, token, origin.  The sink also appends to a diagnostic file per
approval, and every start of the application cleans old files away in a thread of its
own.  Application and hooks share nothing but the port and the configuration file
with the token and the address.

What makes each part correct:

* **store** – the four structures agree; at most one approval is pending; a decision
  is final while it is remembered; eviction is oldest first and only to make room;
  the revision tells readers exactly when something changed.
* **fingerprint** – equal exactly for equal requests, since a submission under a known id
  is a retry or a conflict by its fingerprint alone.
* **runtime** – nobody is told two decisions about one approval; a resolver never
  loses the wake-up of a waiting request; a resolution is announced once; a decision
  is taken only while the approval is live; an error answer means nothing was decided.
* **hook** – what it prints is what was decided about its own call, or what
  `timeout_action` says; it ends in time; it does not give up on a call that the
  user has decided; an abandoned approval blocks others only until it is due.
* **audit and exit** – a record is written at most once, lost only when the writer was
  told to stop, and on disk when a flush has answered; every close sequence ends.
* **HUD** – when all is quiet, the pending approval is on the screen, no resolved one
  is, and no optimistic card shows a decision that was not taken.
* **configuration file** – the token in the file is the server's, until the user writes
  another; a token that a hook has read stays valid as long; no start, wherever it
  dies, makes a file that can be loaded one that cannot.
* **server access** – a hook that has read the file is never turned away; only who
  holds the token that is on disk, and comes from no foreign page, gets to the runtime;
  every refusal can be traced.
* **files left behind** – audit record, HUD and hook tell the same story of an
  approval; from a record or a hook's trace one finds the diagnostic file; nothing is
  deleted before its time, and nothing that is old survives a clean-up.

## 2. Modules

| Module | Models | Extends |
|---|---|---|
| `ApprovalStore` | every method of the store, as operators from a store to a store | – |
| `Encoding` | how the fingerprint quotes strings and delimits texts | – |
| `Fingerprint` | canonical JSON and the fingerprint as operators | `Encoding` |
| `RequestIdentity` | the store where fingerprints are those of requests | `ApprovalStoreSpec`, `Fingerprint` |
| `ApprovalStoreSpec` | the store by itself, one action per method, and the clock | `ApprovalStore` |
| `ApprovalLedger` | abstract: at most one request, and a ledger of decisions of which the last few are remembered | – |
| `ApprovalStoreLemmas` | lemmas on the operators | `ApprovalStore` |
| `ApprovalRuntime` | the runtime: concurrent calls, one action per critical section | `ApprovalStore` |
| `HookSession` | hook processes from start to exit, with timers and a wire that fails | `ApprovalStore` |
| `AgentCalls` | abstract: a tool call gets at most one verdict, and the agent hears it or nothing | – |
| `AuditTrail` | resolution → spawned task → channel → writer → file, and the close sequence | – |
| `Hud` | the page, its commands and its events | `ApprovalStore` |
| `PaperTrail` | audit and diagnostic files across restarts, and their clean-up | `ApprovalStore` |
| `ConfigFile` | the file under starts, crashes, readers and users who save any text | – |
| `ServerAccess` | layers and handlers of the server, requests of hooks and of strangers | `ConfigFile` |
| `MC…` | small instances, with symmetry where it is sound | the module of that name |
| `ApprovalStoreProofs` | theorems of `ApprovalStoreSpec` and of `RequestIdentity` | `RequestIdentity`, `ApprovalStoreLemmas` |
| `ApprovalRuntimeProofs`, `HookSessionProofs`, `HudProofs`, `PaperTrailProofs` | theorems of the module of that name | that module, `ApprovalStoreLemmas` |
| `AuditTrailProofs` | theorems of the module of that name | that module |
| `ServerAccessProofs` | theorems of `ConfigFile` and of `ServerAccess` | `ServerAccess` |

`ApprovalStore` holds operators rather than actions because the code composes its
methods inside one critical section (`expire_due_pending`, then `enqueue` or
`decide`).  Five modules share it, so the store that is proved correct is the store
the other modules run.

### 2.1 How state and actions correspond to the code

**ApprovalStore.**  The record `store` has the fields of the Rust struct: `active`,
`by_id`, `fingerprint_index`, `cached_order`, `revision`.  `Option` is `NoId` or a
value, a map is a function on its keys, the `VecDeque` a sequence.  An approval
keeps the fields that steer the store: fingerprint, deadline, state, and the trace
id that is drawn at creation (the revision at that moment, which is unique).
Hashes, spans and wall-clock times are left out.  `Enqueue`, `Decide`, `Cancel`,
`ExpireDuePending` are whole methods, the eviction of `move_to_cached` included;
`EnqueueOutcome` and `DecideOutcome` are what they return.

**Encoding, Fingerprint.**  The text that is hashed is built as in the code, a sequence
of bytes: `WriteCanonical` for `write_canonical`, with `Quoted` for its strings, `Sorted`
for the sorted keys and `Separated` for the commas; `ComputeFingerprint` for the three
parts with their lengths (`Frame`).  SHA-256 stands for its input; a number, a boolean or
null for the text that is printed for it.  The JSON values are a constant, any set that
holds with a value its members; `Nesting` is how deep they nest, bounded by the parser.
So `WriteCanonical`, which calls itself on the members, is a function on that set,
`Written` the text of one value given those of its members.  `SameRequest` is the
reference: equal names, and inputs with the same `Meaning`, in which the members of an
object are a set.  `RequestIdentity` gives the store the fingerprints of some requests and
asks of all the others what a known approval answers them.

**ApprovalRuntime.**  `call[c]` is the program counter and the locals of a call.  The
two locks are never held together, so an action is one critical section:
`SubmitArrives` (reads the accepting flag), `SubmitEnqueue` (first lock),
`SubmitWatch` (second lock), `SubmitPush` (sink), then `WaitWakes` or `WaitTimesOut`;
`SubmitExisting` for an idempotent repeat; `PollCheck`, `PollSubscribe` and the same
wait; `DecideLocked`, `Notify`, `Announce`; `BeginShutdown` and `CancelAll` with the
same two follow-ups; `TakeSnapshot`.  `Disconnect` drops a handler's future at an
await, as hyper does when the client goes away.  A watch channel is named by the
approval it was made for; its sender sends at most once and is dropped with it, so
a receiver is woken exactly when its channel is no longer in the map (`HasTick`).
`events`, `told` and `late` are histories: what the sink heard, what any client was
told, which channels were installed after their approval had been resolved.

**HookSession.**  `hook[h]` is where a process is, since when, and how it ended.  A
call connects, its request is under way, it arrives (and a submission looks at the
accepting flag before the store, as two actions), is held, is answered, and its answer is
under way.  The client has the two timeouts of its agent: that of the connection, and that
of reading, which runs from the end of the request to the answer.  A message is there
within `Delay` or never, and whole: it is small, and sending it takes no time (the read
timeout of the HTTP library begins anew with every read).  When it is lost the client learns of it from its read timeout
only, and the server may have taken the decision as delivered.  A request whose client
has gone before it arrives is not served, which is a request that was lost.  The inside
of a call is `ApprovalRuntime`, whose results are used here as choices: a submission
that lost its wake-up sleeps to the end of its wait, a poll that lost the race for its
channel is answered pending at once, an expiry wakes nobody (`Woken` is about decisions
and cancellations, also of an approval that has been evicted since).  Each process reads
its own configuration; `ApproveOnTimeout` are those that found `timeout_action =
"approve"`.  `WireFails` stands for every transport error and every timeout of the
client, `Killed` for an agent that gives up.  `Tick` lets no timer be late, and lets no
time pass while client or server has something to do; it does not wait for messages.
`ImplementsCalls` maps all of it to `AgentCalls`: the verdict of a call is what became of
its approval (`resolved`), and the agent has heard what the process printed before it
ended (`Said`).

**AuditTrail.**  An approval is named by its record, whose way is `pending` →
`spawned` → `queued` → `written` or `failed`, or `lost`, or `expired`.  `closer[c]` is
where a close sequence is; every `CloseRequested` event starts one.  The channel is
tokio's: senders wait for room and get an error when the receiver is gone; messages
that are dropped with it drop their reply channel, which `flush` and `shutdown` take
for a success.  `cancelled` is a history: the approvals that `cancel_all_pending` has
cancelled.  `window.close()` belongs to the GUI library and either ends the event
loop or raises `CloseRequested` again; the model has both.

**Hud.**  `view` is the state of the reducer, `calls` the commands under way,
`announcing` the sink calls that are still to come after their lock was released,
`events` those emitted and not yet handled.  Answers come back in any order.  The
page fetches whatever an event says, so events carry no content.  `Redacted` is what a
snapshot shows of the store, `Optimistic` what a click does to the card.

**PaperTrail.**  The store is `ApprovalStore`, new with every boot; the files stay.
`files` takes a name to its entries, each with the time it was appended, so the latest
of them is the modification time.  A diagnostic file belongs to an approval id, an audit
file to the day of the decision.  Ids of traces are what links entries: that of the
hook, that which the store draws for the approval at creation, and that which it draws
for the resolution; each drawn one is named by the boot and the revision.  `resolver`
holds what `approval_resolved` is about to be called with, `spawned` the audit records
that its tasks carry.  The clean-up is one action per file that is looked at and one per
removal.  Every append can fail; the failure is logged, so nothing else happens.
`damaged` remembers the diagnostic files that have missed a write or were removed.

**ConfigFile.**  Two names refer to objects of the file system.  `fs::write` is two
actions, opening (which empties) and writing through the handle; `rename` is one.  A
text is its form, its token and its settings.  The forms are what `persist_auth_token`
and the parser tell apart: a text with lines of its own and one that begins with
`auth_token` (`full`, as the default text), such a line alone (`bare`), no mention of it
(`without`), nothing (`empty`); a mention where no line begins with it, as in a comment
(`comment`); no mention, and a last line that does not end (`unended`), or that is in a
table or in a comment (`closed`); and what is not TOML, as when two texts of different
lengths were written over each other (`garbled`).  `FormWithToken` is what the rewrite
makes of each: a `comment` comes back as it was, an `unended` text is garbled by the line
that is appended to its last one.  `Writable` are the forms that hold the token then.  The
settings are one of the valid addresses, or `Rejected` for all that `validate` refuses.
`Crash` returns a process to the beginning from any step.  The user saves any text of the
forms in `HandForms` (`Edit`), new, old or from a buffer, whether or not there is a file,
or removes it (`Remove`).  Two histories say what the user and the starts have done to
each other: `overtaken` are the processes and hooks that had read a token when the user
changed it or removed the file, and `contended` remembers that two processes were in their
start at once, or that the user changed the token while one was writing it.

**ServerAccess.**  A request is what the layers look at: token, `Origin`, `Host`, trace
header, endpoint, and what is wrong with its body or id.  The layers are nested as
`build_router` nests them, each an operator from a request to the replies it may get; a
reply is status, code, trace id and whether the runtime was asked.  `HookAsks` sends
what `HookClient` builds from the configuration its hook has read, to whichever process
has that address; `OtherAsks` sends anything at all.  What the runtime answers is left
open.

`PROJECT.json` maps every definition to its lines.

## 3. Runs

| Run | Instance | What it shows |
|---|---|---|
| `store` | 4 ids, 3 requests and some 340 to tell from them, cache of 2, ttl 1, 3 ticks, revision up to 8 | types, agreement of the structures, the revision as a change detector, refinement of the ledger; a submission is taken for the retry of a known one exactly when it is the same request |
| `runtime_submissions` | 2 submitters, 1 HUD, the closer, 2 ids | the types of concurrent calls; no resolver forgets a wake-up; each resolution announced once; a failed decide has decided nothing; the ledger |
| `runtime_polls` | 1 submitter, 1 poller, 1 HUD, the closer, 2 ids, revision up to 5 | nobody is told two decisions; no user decision on an overdue approval |
| `runtime_wakeups` | the same, revision up to 3, with fairness | waiting requests come back without their timer |
| `hook_session` | 2 processes, one that approves and one that blocks on timeout, cache of 1 | refinement of `AgentCalls`: what is printed is what was decided; the time limit, busy answers, no decision missed at the deadline |
| `audit_trail` | 2 records, channel of 2, 2 close sequences, with fairness | written once, flush covers, lost only after a stop, every close sequence ends |
| `hud` | 2 approvals, 3 commands at a time | the screen is right once all is quiet |
| `paper_trail` | 1 id, 2 payloads, 3 days, 2 boots | one story in audit, HUD and hooks; records and traces lead to diagnostics; the clean-up deletes what it should and no more |
| `server_access` | 2 applications, 1 hook, 2 tokens, 4 file objects, users who save 3 forms of text | a server's token is on disk, starts spoil nothing, hooks are served, strangers are not, replies carry their trace |
| `late_submission`, `hook_overdue`, `audit_exit` | smallest instances that show it | the design is contradicted, see section 7 |

Bounds.  *Store:* four ids and a cache of two give an eviction while an older and a
younger approval are known and an id that returns after its eviction; three payloads
give conflicts and repeats, and an index entry that an eviction removes for a younger
approval.  Revision 8 is four approvals with their resolutions.  The
requests have every key of one and every string of two characters out of double quote,
backslash, newline, comma and n (the letter of the escape), objects of two members in
both orders at two depths, arrays, and names whose boundary can shift.  With ttl 1 and three
ticks an approval can be decided before, at and after its deadline.  *Runtime:* the
hazards are races of two or three calls on one or two approvals; two submitters can
repeat, conflict with, and block each other, and one call of each other kind suffices
to race with them.  `MaxRevision` bars new submissions, not the completion of those
under way, so revision 3 still sees two approvals, the eviction of the first and all
their resolutions; revision 5 adds the resubmission of an evicted id.  A cache of one
makes every second resolution an eviction.  *Hook:* the
times keep the order of the real ones in ticks of their own: connect 1 + two messages of
1 + ttl 2 = limit 5 (5 s, 2.5 s and 300 s against 310 s), and a wait of 1 with its two
messages is a read of 3 (25 s and twice 2.5 s in 30 s), so a late answer is read and a
lost one runs into the timeout.  Both processes begin by `LastBegin`, at times that
differ or not, and their submissions arrive over the three ticks in which the first
approval lives and runs out.  The horizon of 11 is what the later one can need: 1 + 5 +
1 + 1 + 3, one tick more than it may take.
*Audit:* a channel of two is full with one message of each of two senders, and holds
a flush behind a record.  *HUD:* three commands are a snapshot that is late, one that
overtakes it and a decision; two approvals are the one on the screen and its
successor.  *Files:* audit files live for one day and diagnostic ones for none, which
keeps the order of the real ages (30 and 7) and makes both kinds expire within three
days, at different times; two boots with one submission each make the id come back, and
two payloads tell the approvals apart; a running application meets the clean-up of a
second instance at any time.  *Access:* two
processes are a race or a second start; two tokens allow one crash that wastes one, or
one that the user brings along.  Of the eight forms the user saves one whose token can be
changed, one in which a token is not read and one that the rewrite garbles; crashes add
the empty text and the one with a token line alone.  The theorems are about all eight.  There is one valid address: who
serves another one, or one that hooks cannot reach, answers no hook of this one.  What
follows a contention is left out (`Uncontended`): `contended` is never taken back, and the
properties of the tokens and the file claim nothing of such states.  Exchanges are taken
while no process is between its start and its bind, since nothing they read changes then,
and one at a time, since they change nothing; bodies vary only in requests that may pass
the layers.

Deadlock is checked except in `AuditTrail` and `PaperTrail`, whose processes really end
(the last boot, on the last day).  Symmetry is
used in safety runs only, among ids, payloads, callers of one kind, commands, and
file objects, which the models only compare.

## 4. Fairness

*Runtime* (`FairSpec`): weak fairness of each step of a call that has started, since
tokio runs every task that is ready and its locks are fair.  Nothing is assumed of
clients, of the HUD, of the clock, or of the 25 second timer: `WaitersAreWoken` is the
promise that the channel alone brings a request back.  *Audit* (`FairSpec`): weak
fairness of the writer and of the requests (each is answered within its wait); strong
fairness of the senders and of the close sequences, because the channel hands room to
its waiting senders in turn, so one that waits is not passed over for ever although
the room it waits for comes and goes.  The user and the clients owe nothing, but for one
thing: a request that is open is answered.  A client that sent half a body and stopped
would hold the drain of the server, which has no timeout, and with it the close sequence
(section 8).  The other specifications have no liveness and no fairness.

## 5. What is proved

TLAPS checks the theorems below for every set of ids, payloads, callers, processes and
files, every cache size, every ttl and every bound, within the assumptions of 5.1.
Except where a line says otherwise a theorem says `Spec => []P`, or `Spec => P` where `P`
is a property of steps, for the property `P` beside it; the runs check the same
properties on small instances.

| Module | Theorem | Property |
|---|---|---|
| `ApprovalStoreProofs` | `TypeCorrect` | `TypeOK` |
| | `AlwaysWellFormed` | `StoreWellFormed`: slot, map, FIFO and index agree |
| | `RevisionIsFaithful` | `RevisionDetectsChange`: a step moves the revision exactly when it changes what a snapshot shows, and never back |
| | `StoreImplementsLedger` | `ImplementsLedger`: every step is a step of `ApprovalLedger` or a stutter |
| | `RetriesAreTheSameRequest` | `RetryIsTheSameRequest`: what is answered with a known approval is its request |
| | `RetriesAreRecognised` | `RetryIsRecognised`: the same request, its members in any order, is never a conflict |
| | `FingerprintsAreFaithful` | two requests have the same fingerprint exactly when they are the same request |
| | `FramesAreInjective` | what is hashed determines session, tool and input |
| | `QuotesAreUnambiguous` | whatever follows a quoted string, its end and its text can be read off |
| `ApprovalRuntimeProofs` | `TypeCorrect` | `TypeOK` |
| | `AlwaysWellFormed` | `StoreWellFormed`, under composed and interleaved sections |
| | `OneVerdictPerApproval` | `ToldConsistently` |
| | `NobodyDecidesTooLate` | `NoLateUserDecision` |
| | `RuntimeImplementsLedger` | `ImplementsLedger` |
| | `NoWakeupIsLost` | `WakeupDelivered` |
| | `EveryResolutionIsAnnouncedOnce` | `AnnouncedOnce` |
| | `ErrorsDecideNothing` | `FailedDecideDecidesNothing` |
| `HookSessionProofs` | `TypeCorrect` | `TypeOK` |
| | `AgentsHearTheVerdict` | `PrintsTheVerdict`, of the proof module: the step that `ImplementsCalls` rests on |
| | `HooksEnd` | `EndsInTime` |
| | `AbandonedApprovalsBlockNobody` | `BusyOnlyWhileLive` |
| | `NoDecisionIsMissed` | `NoDecisionMissedAtDeadline`, under two inequalities (5.1) |
| | `SessionsImplementCalls` | `ImplementsCalls`: every step is a step of `AgentCalls` or a stutter |
| `AuditTrailProofs` | `TypeCorrect` | `TypeOK`: the channel keeps to its capacity |
| | `RecordsAreWrittenOnce` | `RecordsOnce` |
| | `NothingIsLostBeforeExit` | `LostOnlyAtExit` |
| | `FlushesAreHonest` | `FlushCovers` |
| `HudProofs` | `TypeCorrect` | `TypeOK` |
| | `OptimismComesTrue` | `OptimismIsSettled` |
| | `WhatIsPendingIsShown` | `PendingIsShown` |
| | `OtherCardsGo` | `DeadCardOnlyAfterExpiry` |
| `PaperTrailProofs` | `TypeCorrect` | `TypeOK` |
| | `OneStoryIsTold` | `OneStory` |
| | `AuditIsLinked` | `AuditLeadsToDiagnostics` |
| | `HookTraceIsLinked` | `HookTraceLeadsToDiagnostics` |
| | `CleanUpLeavesNothing` | `CleanUpIsThorough` |
| | `RetentionIsKept` | `RetentionKept` |
| `ServerAccessProofs` | `TypeCorrect` | `TypeOK` |
| | `TokenStaysOnDisk` | `ServingTokenIsOnDisk` |
| | `StartsLeaveReadableFiles` | `StartsSpoilNothing` |
| | `AccessImplementsConfig` | `AccessSpec => Spec`: exchanges leave the file to `ConfigFile` |
| | `EveryHookIsServed` | `HooksAreServed`, of `AccessSpec` |
| | `NobodyElseIsServed` | `OnlyHoldersAreServed`, of `AccessSpec` |
| | `EveryAnswerIsTraced` | `AnswersCarryTheTrace`, of `AccessSpec` |

`TypeCorrect`, `TokenStaysOnDisk` and `StartsLeaveReadableFiles` are about `Spec` of
`ConfigFile`; `AccessImplementsConfig` carries them over to `AccessSpec`.

### 5.1 Assumptions

They are the named `ASSUME`s of the modules, which TLC evaluates in the runs.  `MaxCached`
is a natural number and `NoId` no id (`StoreAssumption`); ttls and bounds are natural
numbers.  The configuration enforces no more (`max_cached = 0` passes), so the store and
the runtime assume no more.  `HudAssumption` and `HookAssumption` have `MaxCached > 0`,
because a cache of zero forgets a decision as it is taken (section 8).
`HookAssumption` also has the long poll shorter than the read timeout (25 and 30 seconds
in the code), and a pause that is not 0 (half a second); it bounds `Delay` by nothing.  `RuntimeAssumption` says that the closer and the HUD's calls are not the
calls of hooks.  `AuditAssumption` gives the channel room for one message (256 in the
code).  `ConfigAssumption` has more file objects than the processes can hold at a time, so
that a new file can be a new object; `AccessAssumption` keeps the names apart that
stand for special values.  `TrailAssumption` asks only that ages and bounds are natural
numbers and that the HUD's traces are not those of hooks.

`ValuesAssumption` says what a JSON value is, that its members are values again, and that
nothing nests deeper than 128, where `serde_json` stops.  `PayloadsAssumption` bounds the
texts of a request by 2^24 bytes: a body has at most 2 MB, and a byte of it is printed as
at most a few (six for a control character, which came as six).

Three theorems have hypotheses of their own.  `NoDecisionIsMissed` asks that
`ConnectTimeout + 2 * Delay + TTL <= MaxTotal` and `ConnectTimeout + 2 * Delay + MaxWait <
MaxTotal`: with the defaults 5 + 300 and 5 + 25 against 310 seconds, which leaves two and
a half seconds to a message.  Nothing in the code enforces the first (section 8), so it is
not an assumption of the module.  `FramesAreInjective` asks
that the three texts are shorter than 2^32, beyond which the `as u32` of the code cuts
their lengths off.  `QuotesAreUnambiguous` is about all texts of natural numbers.

### 5.2 The store

`StoreWellFormed` is not inductive without the types (the FIFO must be a sequence of ids
for the step that appends to it), nor are the types without it (`by_id[active]` has a
type only because the active id is known), so the invariant is their conjunction, `Inv`;
as a predicate on a store it is `Sound`.  The lemmas follow the code: the library facts
about `SubSeq` and `Append` that eviction needs (`JoinProperties`, `TrimProperties`), what
`Resolve` leaves behind (`ResolveShape`), that it preserves `Sound` (`ResolveSound`), the
same for `Enqueue`; `Decide`, `Cancel` and `ExpireDuePending` are `Resolve` of the active
approval or nothing (`DecidableIsActive`).  `StoreSteps` then says that any step creates,
resolves the active approval, or leaves the store, and the action property and the
refinement are each proved for those three cases.  The refinement maps the active
approval to the pending request and the FIFO, read through the map, to the remembered
window.

The lemmas are about stores, not about `ApprovalStoreSpec`, so the proofs about the
runtime, the hooks and the HUD cite them: what keeps a store sound, and that it keeps its
decisions (`KeepsDecisions`: an approval that is decided and still known reads as it did).

*Fingerprint.*  Natural numbers have no proper subset that holds 0 and every successor
(`Induction`, from the well-foundedness of the order), which is all the induction there
is here.  It gives the function that `FlattenSeq` chooses (`FlattenExists`), hence
`FlattenCons`, and the claim of `QuotesAreUnambiguous` by the number of characters
(`EndsAt`): no escape is the beginning of another (`EscapePrefixFree`) and none begins with
a quote (`EscapeBegins`), so two strings that print the same have the same first character,
or both end.  For frames, `BigEndianIsInjective` tells the lengths, and `Cut` takes off what
they measure.  The texts are an opaque set with an operation of their own (`TextAlgebra`),
which spares the provers the indices of sequences.

*Canonical JSON.*  Three things make `FingerprintsAreFaithful` true, each by an induction
of its own.  First, sorting leaves no choice: keys are totally ordered (`BeforeIsTotal`),
so the members of an object can be sorted (`SortedExists`, by their number) and two sorted
sequences with the same keys are the same (`SortingIsUnique`, from the first place where
they differ).  Second, `WriteCanonical` and `Meaning` exist: from a function that is right
on the values that nest less deep than n one gets the next (`MadeOneDeeper`), and
`MaxNesting` + 1 steps reach all (`RecursionWorks`).  Third, what is written can be read
back: the strengthened claim (`Cuts`) is that a value, *followed by anything that may
follow it*, determines itself and what follows.  It is needed because a value is read
inside others: of the texts alone, injectivity says nothing about where a member ends.  If
it holds of the members, it holds of pairs (`PairsCut`: a key ends at its quote) and of
lists of them (`ListsAreUnambiguous`, by their length: a comma or the closing delimiter
follows each), hence of the value (`ValuesAreUnambiguous`); a number ends at a delimiter
(`LiteralsEnd`), and the first byte tells the kind (`SameKind`).  `WrittenAsMeant` and
`MeantAsWritten` are then the two directions.  The two properties of the store follow,
because enqueue compares fingerprints and nothing else of the request (`OneAnswer`).

### 5.3 The modules that run the store

*Runtime.*  `ToldConsistently` speaks of what was told; what will be told is in the locals
of the calls that hold a verdict, and in the store.  `SaidConsistently` asks agreement of
all three, and `CallsHold` says what a call may rely on at its program counter.  With
the types and `StoreWellFormed` that is inductive (`Inv`).  Every action is first put in
one normal form, `StoreStep`, so that the refinement is proved once for all of them.  The
wake-ups and announcements need more (`FullInv`): a resolver knows the id it resolved
(`ResolversKnowTheirId`), it is on its way to take the channel out of the map
(`EveryoneWoken`), and the sink has heard of the resolution or will from it
(`Announced`); a step is one of quiet, taking, notifying, announcing.

*Hooks.*  A step moves one process from one waypoint to the next (`ProcessMoves`,
`OnlyOneMoves`), and each invariant is proved of that form once.  `resolved` remembers what
became of each approval; `HistoryAgrees` ties it to the store, and `AnswersAgree` an
answer that is under way to both, so that what is printed is the approval's own whenever
it arrives.  `InTime` bounds, at each waypoint, when the process entered it and how long
it can stay; the last round ends with the read timeout.  For the deadline, `Live` says
that the approval of a hook that is on its way runs out within the ttl of the arrival of
its submission, and that a hook whose call the user has decided, and which is about to
look at the clock or has a pending answer under way, will look at it before its deadline.
It rests on how long an approval lives (`TermsEvolve`).  For the refinement, a call of the
store decides the active approval or none (`CallsDecideOne`, also where an expiry comes
first), and only a process that ends says anything (`WhoSpeaks`, `MovesAreCalls`).

*HUD.*  `CardIsBacked`: a decision on a card is that of its approval, or a `decide`
command is under way that will make it so or take it back.  An id that is not drawn yet is
neither in the store nor on the page (`FreshIsUnknown`), so no stale card can meet a new
approval of its id.  For the two properties of the settled screen, `PageFits` says of the
card on the screen and of every snapshot on its way that it is of the present revision,
or its approval has just run out in silence, or more is to come (`Loud`: an announcement,
an event, a fetch or a newer answer; or an event was missed).  A step outdates a card
only by making something loud, and when all is quiet nothing is.

*Files left behind.*  A trace that was drawn has its boot and a revision that the store
has reached (`Past`), so the store never draws it again, whatever is evicted, resubmitted
or restarted.  `OneEnding` says of all that is claimed of an approval under its trace, by a
resolver that is about to announce, a record on its way, the audit file or an answer to
a hook, that it agrees with the other claims and with the store.  `Linked` says that the
entry a record or an answer promises was appended before it, unless the file is
`damaged`; files otherwise only grow (`FilesOnlyGrow`).  `Thorough` says what a clean-up has
behind it: a file it has passed and not removed holds an entry that was young when the
clean-up began, which stays true because what is appended later is younger.

### 5.4 The others

*Audit.*  `Begun` says that no record precedes its request; `ChannelIsRight` and
`FileIsRight` that the channel and the file name exactly the records in those states, each
once; `FlushIsBehind` that a flush in the channel stands behind every record it must
cover; `StoppedIsEmpty` that a writer that has stopped has left nothing in the channel.

*Configuration file.*  `Orderly` holds until two write at once (`contended`).  One start is
under way at most (`StartsAlone`), and a token that is read stands in a text that takes
one.  `TokensAreCurrent` says that the file holds the token of every process that has
loaded its configuration and of every hook that has, those excepted whom the user has
overtaken; for a process it may also be that the file has no token and takes none
(`Announced`).  `StartKnows` is what a start may rely on at each of its
accesses to the file system: the file it opened is empty and its own, while it writes a
token the file has none and the form it had (`StillBlank`: the user may save settings, but
not a token), and what it renames is the rewrite of such a text (`Rewritten`), which holds
the token if it is `Writable` and can be decoded unless the last line was unended.

*Server access.*  A step of `AccessSpec` is a step of `ConfigFile` or an exchange that
changes nothing else, so what was proved about the file holds.  The replies are then read
off the layers (`RouterReplies`, `HandlerReplies`): to be served is to have passed the
three of them.

## 6. What is only model-checked

* `WaitersAreWoken` and `CloseSequencesEnd`: liveness under fairness is outside the
  prover's reach.

Every other property of a passing run is also the statement of a theorem.

## 7. Where the code and the design disagree

Each is a run that TLC refutes with a trace.

| Run | The code | The design |
|---|---|---|
| `late_submission` | `submit_pre_tool_use` reads the flag before it takes the lock, and may enqueue after `cancel_all_pending` has returned | sections 3.5.1–2: no new pending approval, and every pending one is cancelled |
| `hook_overdue` | a poll expires nothing, so an approval that is left alone is never timed out; the hook reaches its own deadline and `timeout_action` is not applied | section 4.2: `TimedOut` is a final state that the server decides and returns |
| `audit_exit` | the record of an approval that the exit sequence cancels travels in a spawned task that nothing in the sequence waits for | section 3.5.4: the process may exit only when the records of the cancelled approvals are on disk |

## 8. Further observations

Met while modelling and confirmed on a model, but not kept as runs of their own:

* The watch channel is installed after the lock of the enqueue was released
  (`runtime.rs:107`).  A resolver that runs in between has nothing to signal; the
  submission then sleeps to the end of its 25 seconds.  `late` names these channels,
  and `WakeupDelivered` and `WaitersAreWoken` hold for all others.  The design (3.5.2)
  expects the answer in the same tick.
* With `max_cached = 0`, which `validate` accepts, `decide` takes a decision, evicts
  the approval, and reports `NotFound` without waking or announcing anything
  (`runtime.rs:214`).  `FailedDecideDecidesNothing` therefore asks for `max_cached > 0`.
* What `expire_due_pending` returns is dropped by `submit`, `decide` and `snapshot`
  (`runtime.rs:93`): an expiry wakes nobody, is not announced, and leaves neither a
  record nor an entry.  The design has every resolution go through the sink (3.6) and
  one record per final state (4.4).
* `cancel_all_pending` and `poll_decision` do not call `expire_due_pending`; the design
  (3.3) says that every entry does so first.
* Any error of a submit or a poll ends the hook (`pre_tool_use.rs:126`); the README
  says that it reconnects.  An approval that the user gives at that moment is lost to
  the agent and audited as given.
* The close handler prevents every `CloseRequested` and ends with `window.close()`
  (`lib.rs:161`), which, unlike `destroy()`, raises it again.  `CloseWindow` allows it.
* `flush` returns a success when the shutdown of another close sequence drops it.
* The design (4.4) says that a full audit channel drops records; the code waits for
  room, and `LostOnlyAtExit` shows that nothing is dropped.
* The page takes its first snapshot before its listeners are registered
  (`App.tsx:26`); an approval pushed in between appears with the next event only.
  `missed` marks these behaviours, and `PendingIsShown` is about the others.
* `SNAPSHOT_UPDATED` does not look at the revision (`ApprovalContext.tsx:21`); an older
  snapshot that is answered last stays until the next event (`newest`, `Undisturbed`).
* A `decide` that fails makes the card pending again even when the approval is
  unknown; the design (4.1) would clear it.
* `loading` is one flag for all commands (`useIpc.ts:29`), cleared by the first to end:
  buttons come back while a decision is under way.  The second decision then fails and
  is rolled back; `OptimismIsSettled` shows that the screen is right in the end.
* Two applications that start at once can leave in the file the token of the one that
  did not get the port (`contended`); the design lists a single-instance guard.
* A configuration that cannot be loaded ends the hook with exit code 78
  (`winvibe-hookcli/src/main.rs:33`); the design (4.2, 5.5) has 2, the code that blocks.
* `NoDecisionMissedAtDeadline` needs `ConnectTimeout + 2 * Delay + TTL <= MaxTotal`: true
  of the defaults (5 + 300 and 310 seconds) if a message takes no longer than two and a
  half seconds, and proved to suffice (`NoDecisionIsMissed`), but nothing in the
  validation relates the configured ttl to `--max-time` (`config.rs:105`).
* A hook can outlive `--max-time` by a pause, a connection and a read, 35.5 seconds with
  the constants of the code: the deadline is looked at before the pause only.
* An approval that is created and decided before its handler reaches the sink has its
  diagnostic entry `approval_resolved` before `approval_pushed` (`runtime.rs:112`), and one
  whose client hangs up in between never gets the second.
* Both clean-ups look at the age of a file and then remove it (`diagnostic/cleanup.rs:22`);
  what is appended in between goes with it.  `RetentionKept` excepts it.
* `persist_auth_token` reads the file again before it renames a new one over it
  (`config_loader.rs:74`), and an edit that the user saves in between is lost.  If it was
  one of settings, token and form survive (`TokenStaysOnDisk`,
  `StartsLeaveReadableFiles`); if it was one of the token, the server and the file may be
  left with different ones (`contended`).
* A text that mentions `auth_token` but has no line that begins with it, as when the line
  is commented out, is rewritten as it is (`config_loader.rs:77`): the application serves
  with a token that is not on disk, where the design (5.5) has it persisted, and no hook
  can authenticate.  `ServingTokenIsOnDisk` is about the forms that take a token
  (`Writable`).
* A text whose last line does not end and that does not mention `auth_token` is rewritten
  with the token line appended to that line (`config_loader.rs:89`): the application
  serves, and neither a hook nor its own next start can decode the file.  A text that
  ends in a table gets the line inside the table, where nobody reads it; the server runs
  with a token that is not on disk.  `StartsSpoilNothing` excepts the first,
  `ServingTokenIsOnDisk` both.
* A user who changes the token while a server runs, or removes the file, parts it from
  all hooks that start then; nothing watches the file.  `overtaken` excepts it.
* The server drains its open requests without a timeout (`server.rs:58-69`), and a
  request whose body never ends keeps it open.
* The token is written back before the settings are validated, so a start that fails on
  them has still changed the file.
* The server accepts `bind = "::1"`; hooks put it into their URL without brackets
  (`winvibe-hookcli/src/main.rs:37`) and reach nothing.
* Without `LOCALAPPDATA` the application looks for its file in `C:\Users\Default`
  (`winvibe-app/src/config_loader.rs:29`), the hook in its working directory
  (`winvibe-hookcli/src/config_loader.rs:32`).
* A body that axum's extractor cannot decode is refused with a plain text, not with the flat
  JSON of the design (4.1); `AnswersCarryTheTrace` therefore asks for the trace in the
  header, which those replies have too.
* `StoreFull` and `payload_too_large` are declared and mapped, and nothing raises them.

## 9. What is not modelled, and what is planned

Not modelled:

* spans and the session hash, which are copied along and never compared;
* SHA-256, the printing of numbers, the texts and hashes of records, feedback and its
  previews, the fields of a card other than id and state: data that no property tells
  apart (redaction is modelled as the state and the kind that it lets through);
* the wiring of the GUI library (windows, tray, plugins), and how it delivers events to
  the page;
* how a user's editor saves: here in one step under the name of the file, so a half-saved
  text is a text that the user saved, and who saves by renaming differs only in the object;
* a write of a configuration or of an entry that fails half-way, power loss and `fsync`: a
  crash is the end of a process; an append can fail as a whole;
* wrap-around of `now + ttl_ms` (`store.rs:101`): the clock counts milliseconds from the
  start of the process, so only a ttl near 2^64 meets it, and nothing bounds the ttl;
* contract tests and scripts, which are not part of the program.

Planned, in this order:

1. One composition of hooks, runtime and page, in which a hook's calls are the runtime's
   own actions and not its results; the interleavings of one hook with the watch channels
   are in `ApprovalRuntime` now, those of several with their timers in `HookSession`.
