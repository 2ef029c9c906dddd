# Forge: specifications of the agent and of Work Mode

Forge is a fork of VS Code (by way of Void) with an AI agent built in. Its own
logic is in `src/vs/workbench/contrib/void/` and in `scripts/forge-*.mjs`; the
rest of the repository is the upstream editor, extensions and build files. This
directory holds TLA+ modules of that logic, TLC runs on small instances, and
proofs that TLAPS checks. Paths below are relative to the repository, and
`void/` stands for `src/vs/workbench/contrib/void/`.

## 1. Inventory

| Component | State | Operations | Interacts with |
|---|---|---|---|
| Chat threads and agent runs (`void/browser/chatThreadService.ts`) | per thread: messages, current checkpoint, stream state with its interrupt, queue, paused set; per run: locals of `_runChatAgent` across its awaits | submit, queue, resume, approve, reject, stop, edit, jump, revert, dismiss; the agent loop | LLM channel, tools, MCP, text models, storage, React UI |
| LLM channel (`common/sendLLMMessageService.ts`, `electron-main/sendLLMMessageChannel.ts`, `electron-main/llmMessage/sendLLMMessage.ts` and the adapters of `sendLLMMessage.impl.ts`) | callbacks per request in the renderer, running requests, the stream's aborter and `_didAbort` in the main process | send, abort, text/final/error events | chat threads, autocomplete, applies; providers |
| MCP servers (`common/mcpService.ts`, `electron-main/mcpChannel.ts`) | configuration file, on/off settings in the storage, in each window a copy of the settings, the last configuration and what is shown, clients and "refreshing" set in the main process | edit, refresh, toggle, retry, call tool | settings, chat threads |
| Edit code service (`editCodeService.ts`, `edit_file` in `toolsService.ts`) | per file: text, diff zones with their stream state, undo stack; per zone: range, original text and the diffs found in it; per apply: the loop that sends requests | apply, edit, quick edit, accept and reject (a diff, a zone, a file), undo, stop, realign after every change | LLM channel, text models, undo service |
| Autocomplete (`autocompleteService.ts`) | per document a cache of autocompletions, pending and finished; the time of the last debounce | a call per keystroke, answers, time limit, accepting | editor, LLM channel |
| Work Mode (`scripts/forge-work.mjs`, `forge-work-daemon.mjs`, the poll in `sidebar-tsx/Sidebar.tsx`) | files `tasks.json`, `pending.json`, `pending.lock`; per process: a copy of `tasks.json` and one call | add, remove, run, tick, enqueue, claim, renew, acknowledge, approve | several windows and a scheduler, all OS processes, through files only; a claimed prompt becomes a chat thread |
| Execution engine (`void/browser/forge/execution`, `forge/brain`) | task graph, leases, workers | schedule, retry, cancel | nothing constructs it yet |
| Tools and terminals (`toolsService.ts`, `terminalToolService.ts`) | entries of persistent and of temporary terminals; per call how far it is; per shell the commands it was sent | open, run, run in a persistent one, kill, interrupt, time out | chat threads, the workbench's terminals |
| Settings and model polling (`common/voidSettingsService.ts`, `common/refreshModelService.ts`) | endpoint and models of each provider, the model chosen for each feature, changes being stored; per provider the requests and timers of its polling | set an endpoint, choose, hide, sync Apply to Chat, refresh, poll, reopen | local providers through the LLM channel; all that send requests |
| Model references (`common/voidModelService.ts`) | a text model by URI | | edit code service |
| UI, prompts, parsers, capabilities, indexer, update service | mostly derived | | |

Where it is hard:

* **Runs interleave.** JavaScript runs a handler to its next `await`, and nothing
  stops two runs of one thread, two submissions, a Stop and a tool's answer from
  meeting. The stream state is shared by all of them.
* **Stop has four meanings**: abort a request, interrupt a tool (once it is known
  how), set a flag a waiting run will look at, or, for MCP, nothing.
* **The history is also a state machine**: tool messages are overwritten in
  place, but only while they are last; checkpoints are added in between.
* **Work Mode is distributed**: processes die, locks grow stale, leases run out,
  and `tasks.json` is read and written with no lock at all.
* **Requests live in two processes.** An abort crosses texts and answers that are
  under way, and may arrive before the provider has said how to cancel.
* **Cleaning up reaches across.** Undo in one file stops the streams of all; an
  error undoes the last change of the file, whoever made it; what leaves the
  completion cache is aborted under the calls that await it.
* **Ranges must follow the text.** A diff zone is two line numbers; every write and every
  keystroke moves those of all zones, and accepting one diff must leave the others exact.
* **Cleaning up rests on timers**: a hidden terminal is closed, a polling request
  repeated and a run of a command answered by whichever timer fires first.
* **Checks are made before an await**: that nobody streams into a file, that a
  server is new, that there is room for one more request.
* **What must eventually happen**: a spinner ends, a queued message is sent, a
  request is answered, an abort arrives, an apply ends, a call of the editor returns.

What makes the modelled components correct: a thread shows what a live run
is doing, or what a failed run has left; an interrupted run stops; tool calls run once; the queue keeps its
order and is never forgotten; a lock excludes; a claim belongs to one window;
an acknowledged item does not return; scheduled work is not lost; a request has
one answer and is silent after an abort; a file that shows a stream has one, a
failed apply leaves nothing and every change can be rejected; a window shows the
server the main process has, which follows the file; requests for completions
are bounded and none is awaited in vain; rejecting a change takes back that change and
nothing else; a chosen model is one that is offered, and the list of models catches up
with the provider; a command that has run leaves no hidden terminal. `PROJECT.json` lists every hazard with
its line and the properties about it.

## 2. Modules

| Module | About |
|---|---|
| `ChatThread` | one chat thread, its runs, its user |
| `MCChatThread` | instances for TLC |
| `ChatThreadProofs` | types, `StreamOwned`, `InterruptIsFinal`, `QueueAttended` for all instances; what `chat_settled` and `chat_live` check as invariants for all with `Overlap = FALSE` |
| `PendingQueue` | what the pending queue promises, without processes, files or locks |
| `WorkMode` | windows and schedulers that share the files; implements `PendingQueue` |
| `MCWorkMode` | instances for TLC |
| `WorkModeProofs` | types, mutual exclusion, the refinement, `OneHolder` and `ScheduledNotLost` for all instances, and what follows from the refined queue |
| `LLMRequest` | what the caller of a request is promised |
| `LLMChannel` | requests across the two processes; implements `LLMRequest` |
| `LLMChannelProofs` | types, that refinement and what it rests on |
| `ApplyStream`, `MCApplyStream` | applies and edits of files, their zones and undo stacks; the instances |
| `DiffReview` | the zones and diffs of a file between streams, and their review |
| `EditCodeProofs` | what the runs check of these two, for all instances |
| `McpServers`, `McpServersProofs` | one MCP server, in every window and in the main process |
| `Autocomplete`, `AutocompleteProofs` | the calls of the editor, the cache and its requests |
| `ModelSettings`, `ModelSettingsProofs` | a local provider's models, the models chosen, the polling |
| `Terminals`, `TerminalsProofs` | the terminals commands run in |

`ChatThread`, `ApplyStream` and `Autocomplete` use a request as `LLMRequest` promises
it: texts, then one answer, unless it is aborted, which calls `onAbort` at once.
`LLMChannel` shows that the two processes keep that promise.

### ChatThread

`thread` is the `ThreadType` (messages, `currCheckpointIdx` with 0 for null)
with its `streamState` and with what `_storeAllThreads` last wrote (`disk`).
`runs` holds, for each call of `_runChatAgent` that has not returned, the await
at which it waits (`pc`) and its locals: `nAttempts`, `interruptedWhenIdle`,
`interrupted`, the pending tool, the flag that asks for another turn. `call`
follows each user message (queued, waiting for the model selection, waiting for
its content, sent), `queue` and `paused` are the maps of the same names, and
`turns` remembers which tool the model called, so that a tool call id is an
index.

An action is the code between two awaits that really wait; an `await` on a value
that is there already returns before the next event. `Submit`, `SelectDone` and
`ContentDone` are `addUserMessageAndStreamResponse`; `Prepared`, `LLMText`,
`LLMFinal`, `LLMError`, `Compacted`, `RetryElapsed`, `Superseded`, `PrepareFails` are
`_runChatAgent`; `Validated`, `ToolStarted`, `ToolFailsToStart`, `ToolResult`,
`McpResult` are `_runToolCall`; `Stop`, `Reject`, `Approve`, `Resume`, `Edit`,
`Jump`, `Revert` carry the names of their handlers. `Refresh` is what every
`_setState` does to an idle thread (await a request at the end again, cancel a
tool left running) and is part of each action that calls it, as is the drain of
the queue (`Finish`) when a run returns.

`prepareLLMChatMessages` reads the folders of the workspace for the system message, and
rejects when one is gone (directoryStrService.ts:455). Nothing catches that before the
`catch` of `_wrapRunAgentToNotify`, which only throws again, so the run ends where it is:
the stream state it set stays, and the queue is not drained. `PrepareFails` is this ending,
before the first request of a turn and when the messages are compacted; `Left` is the activity
it leaves, which has no owner any more. Stop, an edit or a restart clears it, a submission
is queued behind it.

Abstracted: texts, files, the restoring of files, titles, errors' wording. The
model's answer is a text, a text cut at the token limit ("handoff"), or a tool
call of one of four kinds: "read" (no approval), "edit" (checkpoint first),
"create" (creates an empty file: the loop is forced to go on once), "mcp" (no
validation, no interrupt). Left out: changes of the queued texts; the abort that
an edit performs while a tool is starting (the user stops first); the thread is
taken to be the current one. An abort is one step unless it has to wait for the
interrupt of a builtin tool, which is the one await it can really wait at.

### WorkMode and PendingQueue

The functions of `forge-work.mjs` are synchronous, so a process does one call at
a time; between any two of its file operations, and while `spawnSync` runs a
command, other processes go on. `proc[p]` is the call of process `p` with its
arguments, its copy of `tasks.json` (`store`), the due workflows it has yet to
handle (`todo`) and the items it is about to write (`draft`). `Open`, `Stat`,
`RemoveStaleLock` are `acquirePendingLock`; `Load`, `Save`, `Release` are the
inside of `withPendingLock` for enqueue, claim, acknowledge and remove; `Busy` is
what each caller does when it gets no lock. `side[p]` is what the poll of a
sidebar is working on: `Poll`, `RunPrompt`, `Acknowledge`, and the timer `Renew`.

Time is abstracted: a lease has a number and `Expire` may end it. Without "late"
among `Faults` a sidebar that holds a lease renews it in time (10 of 60 minutes).
An interval workflow is due at every tick, one in `Once` until it was marked. A
lock file ages past 30 s only if its creator died, as the work under the lock is
the reading and writing of a small file. `handled` and `ran` are history
variables. Left out: cron arithmetic, `history.jsonl`, the PID file, torn writes.
A window that crashes does not come back under its claimant name, which is
random.

`PendingQueue` has the operations of the queue with no steps in between.
`WorkMode!ImplementsQueue` says that the queue in `pending.json` is one, under
the mapping that is the identity on `items`, `expired` and `used`: whatever
processes interleave, die or take over a lock, each `Save` is one abstract
operation on the latest items.

### LLMChannel and LLMRequest

The renderer has `hooks` (the callbacks that are still registered) and, as history,
what each caller `heard`. `calls` and `events` are the two directions of the IPC
channel, each in order. In the main process `main[q]` is the call of `sendLLMMessage`
for request `q` with its `_aborter` and `_didAbort`, `running` is
`_infoOfRunningRequest`, and `awaiting` are the aborts at `await waitForSend`. The
kinds of requests differ in when the adapter says how to cancel: when the response
arrives, before the call returns, never, or, for model lists, that nobody can.
`Send`, `Abort`, `Deliver` are the renderer; `HandleSend` and `HandleAbort` the channel;
`SetupDone`, `SetupFails`, `Connected`, `Chunk`, `Finish` the provider. A text is its
length, up to white space at its end. Two things happen to it on the way. The wrappers of
`extractGrammar.ts`, which stand around the callbacks of a request in `Parsed`, hold back what
may be the start of a tool call or of reasoning and take back what is one: `Shown` is any text
up to what the provider has sent. And the listener of the final message looks in the text of an agent's request
(`Agents`) for a tool call the model has printed (`recoverTextualAgentToolCall`): `Recovered`
is the message as it is, or a tool call with what is left of the text, or with a status text when
nothing is left. `Told` is what the caller then hears. Left out: what a request says, `testConnection`, which answers its own call,
and the request refused before it has an id.

### ApplyStream

`doc[f]` is a file: the changes its text contains, whose half-written text it shows,
its diff zone, and the undo stack, whose elements hold a snapshot and the apply whose
request they abort. `loop[a]` is `runWriteover` or `runSearchReplace`, `open` the
requests that may still call back. Handlers call one another (an error undoes, an undo
aborts, an abort rejects a loop's promise), so their parts are functions of a state:
`Undone`, `Done`, `Failed`, `Again`, `Aborted`. `Start` is the click on Apply,
`Text...`, `Final...` and `RequestFails` what the request calls back, `CheckEdit` and
`Edit` the two halves of `edit_file`, and `Accept`, `Reject`, `Undo`, `Stop` the user.
Accept and Reject are enabled while a stream is under way, as their keybindings are.
`disturbed` remembers the applies whose file somebody else changed while they streamed:
their callbacks still write and undo, and what then holds is less. Left out: where
changes lie in the text and which of them are accepted (`DiffReview`), redo, edits by hand,
and the setting `autoAcceptLLMChanges`, which is off by default. `edit_file`'s creating
of a missing file is I/O before the check.

### DiffReview

`ApplyStream` knows that a file has a zone, `DiffReview` what is in it, once no stream is
under way. `file` is the text as lines, `zone[i]` the range and `originalCode` of a diff
area, `diffs[i]` what `findDiffs` last made of them. The diff library is external: `FindDiffs`
takes any longest matching of equal lines in order (`Longest`, `Matchings`), which is what jsdiff promises, and
`Gaps` is the code's own pass over the result (`helpers/findDiffs.ts`): what stands between two
adjacent kept lines, unless it is nothing, is one diff. `Splice` is the
model's `applyEdits`; `Realigned` is `_realignAllDiffAreasLines` with its six overlaps;
`WriteURIText` is `_writeURIText`, which realigns first and skips the write when the text equals
the whole file. `DiffAccepted` and `DiffRejected` are `acceptDiff` and `rejectDiff` with the three
kinds of edits each, `AcceptedAll` and `RejectedAll` the bar's buttons, `QuickEdit` a
Ctrl+K edit when it is done, `ApplyFile` an Apply on the whole file under "keep-conflicts"
or "reject-conflicts", `Typed` a change by the user, which realigns by
`_onUserChangeContent`. Every action ends with `_refreshStylesAndDiffsInURI`
(`Refreshed`). Left out: the writes in the middle of a stream, the mounted Ctrl+K input,
which takes no line of the file, and styles.

### McpServers

One server name: names do not interact. `file` is its entry in mcp.json (a version, none,
or a file that cannot be parsed), `stored` the on/off setting in the application's
storage. A window has `on` (its copy of that setting), `last` (`_lastMCPConfig`), `shown`,
whether it is `watching` the file,
and the calls of `_refreshMCPServers` that await the file (`reads`) or the storage
(`pending`, which toggles await too). In the main process `info` is the entry of
`infoOfClientId`, `refreshing` the server's membership in `_refreshingServerNames`,
`jobs` the calls that await a client's closing or connecting. `running` are connected
clients that somebody can still close; `lost` remembers that one was not among them any
more. `Open` is a window's start, which removes outdated
entries from the file before it watches it: on a file that cannot be parsed this throws, and the
window neither watches nor refreshes (mcpService.ts:120). Only the outcome of connecting is modelled (a client; none; a client whose tools
could not be listed, which stays connected), SSE being part of it. `client.close` is
taken not to reject. `excused` records the circumstances under which the code does lose
a client or a change (section 6), so that the properties say that there are no others.

### Autocomplete

`calls[c]` is one call of `_provideInlineCompletionItems` at one of its awaits, `cache[d]`
the ids of a document's `LRUCache` in order, `item` the autocompletions, `inFlight` the
requests without an answer. `Type` is the synchronous first half (cache hit, or the start of
the debounce), `DebounceEnds` the second, with its four outcomes. `Cancel` is what
deleting from the cache does: the item goes, its request is aborted, the promise rejected
and every call that awaits it returns. A text is a length, so that what is typed either
goes on with a completion or not. What is shown of a completion is left out, and so is the
enabling setting, off by which nothing happens.

### ModelSettings

`endpoint`, `models` and `auto`, `sync`, `chosen` are the fields of the settings' state for
one local provider. A change takes effect at once; what follows it (the listeners of
`onDidChangeState`, the hook that copies Chat's model to Apply) runs when it has been
stored: `pending` are those that are not, in order, and `Stored` ends one. `poll` are the
provider's requests (`Asked`, then `Responded`) and timers, `recorded` the `timeoutId` of
`refreshModelService.ts`: a timer that is not recorded can no longer be cancelled.
`Respond`, `Success`, `Error`, `TimerFires` are a poll, `Start` what begins one, `JustEnabled`
what the listener compares with `prevVals` (`watched`). `ToggleAutoRefresh`, `ToggleSync`,
`Choose`, `ToggleHidden`, `EnterEndpoint`, `Refresh`, `Reopen` are the user; `Serve` is the
environment: which models answer at an address. `steady` remembers whether polling was on
since the window opened. `Validated` is `_validatedModelState`: what may be chosen is what
is not hidden, and a choice that is not offered becomes the first offer. Left out: API keys,
models the user adds, overrides, model capabilities, the migration of old settings.

### Terminals

A terminal is named after the call that creates it: `state` is how far its process is
("starting", "ready", "integrated" once shell integration is there, "stuck" if it never
comes up, "closed", "aborted"). `listed` and `temporary` are the two maps of
`terminalToolService.ts`, `exiting` the persistent terminals whose exit has not been told
yet, `shell` the commands that were sent to each terminal, `printing` the hidden terminals whose
command prints more often than the inactivity timer waits: `Prints` and `FallsSilent` are the
command, and while it prints, `TimerRestarts` keeps the timer of its run from firing. A call is "open"
(`createPersistentTerminal`: an id is chosen, then the terminal is awaited), "run" or
"runIn" (`runCommand`): `CapabilityAwaited`, `SentText`, then `CommandFinished`, `TimedOut` or
`Interrupt`, whichever is first. `ClosedByUser`, `ProcessReady`, `NeverReady`,
`ShellIntegrates`, `OnExit` are the workbench, modelled from what the service calls and
listens to. The shell of a hidden terminal may exit like that of any other (`ClosedByUser`).
The read after a timeout throws when there is no xterm (terminalToolService.ts:220), which is
before the process exists (terminalInstance.ts:511-543) and so before any text was sent. `Behaviors` names what goes beyond the calm case, so that a property can say
what it needs. Left out: terminals adopted when the window starts, focusing, renaming by
the user, what is read of the output and how it is cut.

## 3. Runs

Bounds are constants named `Max...`; every run is exhaustive within them.

| Run | Shows |
|---|---|
| `chat_overlap` | all operations, every failure but that of a drained message's content, the user at any moment, two runs alive: `StreamOwned`, `QueueAttended`, `InterruptIsFinal` |
| `chat_settled` | new work only on a settled thread, with approvals, edits, jumps, restarts: `OneTask`, `AwaitedRequestIsLast`, `NoToolLeftRunning`, `CarriedOutOnce`, `SnapshotComplete` |
| `chat_live` | three messages queued, drained and resumed, with a failing provider and failing preparations: `QueueOrder`, `CheckpointBeforeUser`, and under fairness `QueuedIsSent`, `ActivityEnds` |
| `work_queue` | two windows with every operation, crashes, stale locks, expired leases: `LockExclusive`, `OneHolder`, `ScheduledNotLost`, `ImplementsQueue` |
| `llm_channel` | two requests of every kind, aborted at any time and twice: `GoesOnUnseen`, `ImplementsRequest`, and under fairness `Answered`, `AbortArrives` |
| `apply` | two applies and an edit on two files, every answer, the user at any moment: `StreamHasLoop`, `OneStreamPerFile`, `FailedLeavesNothing`, `Reviewable` |
| `diff_review` | two zones in a file of three lines, every text, every diff accepted or rejected, the user editing: `RejectIsExact`, `AcceptIsRejectOfRest`, `RejectAllRestores`, `ZoneKeepsItsLines` |
| `mcp` | two windows, three clients, two calls at a time in the main process: `ShownIsTrue`, `NoClientLost`, `FollowsFile` |
| `autocomplete` | three calls at a time on one document with a cache of three: `RequestsBounded`, `AwaitsPending`, and under fairness `CallReturns` |
| `models` | one provider at two addresses or none, overlapping requests and stores: `ChosenIsOffered`, `SyncedIsSame`, and under fairness `ListCatchesUp` |
| `terminals` | three calls, everything users and the workbench do: `HiddenReaped`, and under fairness `RunReturns` |
| `finding_stop` | a disagreement, see section 6 |

Why the bounds suffice for the cases meant: two run slots are what overlapping
needs; two user messages give one running and one queued, and `chat_live` takes
three to have an order in the queue; one turn that keeps the loop going lets
every kind of tool be called, answered, stopped and followed by a last request,
two (`chat_settled`) let an approved call be followed by a second one; one or two
interventions are enough for every pair "stop, then ...". Errors of the provider and
of a tool's parameters are left to the other runs: in `chat_settled` the failures
are a tool that does not start, a message whose content cannot be computed and a request
that cannot be prepared. `ChatRetries` is 2 where
the code says 3: first, repeated and last attempt all occur. In `work_queue` two
calls, two leases and seven item ids (never exhausted) let every pair of
operations of two processes interleave at every file operation, an item be
claimed twice, and a process die at each step and its lock be broken by the
other. With two processes, one of them dead, a stale lock has one breaker;
see `LockExclusion` below for three.

In `llm_channel` two texts per request let an abort fall before, between and after them, and
`MaxAborts` lets one be under way while the other request is sent, answered or aborted next; the text
of one request is taken apart, that of the other is not, and in both a tool call may be printed. In `apply`
three rounds (the code allows three requests of `N_RETRIES` 4, the model two of 3) give a
first, a repeated and a refused attempt; `MaxUndo` bounds the stack only where the user
accepts or rejects. In `mcp` one operation beside the two windows' own starts is what
finishes; as the file may be broken to begin with, it can be the repair of a file on which one or both
windows have started, while a refresh by such a window after another change takes two and is left to
the proof; two windows' refreshes already overlap, drop each other's calls and cross with
it, and three clients with two calls at work never run out. In `autocomplete` the
cache holds one more than the limit of pending requests, so that both eviction and the limit
occur, and ids are used again when nothing refers to them any more. Documents share nothing
but the debounce, so one is enough.

In `diff_review` three lines of one atom or none, new texts of up to two lines and two zones
give every kind of diff, every overlap of a change with a zone, and a zone above or below the
one that is reviewed. Three cases are constants that the run leaves out, because there the code
does not do what it says (section 6): an edit across two zones ("across"), an edit around a zone
("replaceAround"), and a text equal to the whole file (`Copies`); and `RejectIsExact` excepts the
insertion at the end of a zone. In `models` three requests or timers at a time are the window's
own, the user's and the one the listener starts; `MaxChanges` 3 counts everything users and
servers do, and the bounds hold up nobody but them. In `terminals` three calls are two terminals
and a run in one of them, or three runs.

`Overlap = FALSE` is an assumption about the user: new work starts when
everything in flight has settled, Stop is pressed while the thread shows activity.
Properties that hold only then are in `chat_settled` and `chat_live`; section 6
lists what happens otherwise.

Deadlock is not checked: a thread nobody writes to and a queue nobody fills stop.

**Fairness** (`chat_live`, `finding_stop`): `RunStep(r)` and `CallStep(u)` are weakly
fair, which says that the program's awaits end: a provider answers or errs, tools
and file operations return, timers fire. `LLMText` is not fair (a stream may send
no text) and no user operation is: nobody has to approve or resume. That is why
`QueuedIsSent` leaves room for a paused thread and one that waits for approval. That an await ends
includes that it fails: a preparation may, and what it leaves is excepted by both liveness
properties (`Left`), as nothing but the user clears it.
In `llm_channel` both processes handle what reaches them, and a provider that was asked answers or
fails; no abort and no text is fair. In `autocomplete` only the two timers are fair: that a call returns does not rest on the
model's answer. In `models` timers fire, requests are answered (a local provider that is down
refuses) and changes get stored; nobody has to change or serve anything. In `terminals` the timer
of a persistent terminal fires, that of a foreground run once its terminal stays silent, and a process
comes up unless it is one that never does; no command has to finish, and none has to stop printing.
`apply`, `diff_review` and `mcp` check no liveness.

Where the types are proved (section 4) a run does not check them again, except `chat_overlap`.

Each property of a passing run has a mutant: a definition of the model changed as
a plausible bug would (`MayDrain_Stale`, `LockFree_Ignored`, ...), under which TLC
finds the property violated.

## 4. Proofs

TLC's instances are small; these hold for every value of the constants that meets
the named assumptions of the modules.

* `ChatThreadProofs`: `TypeCorrect`, `StreamOwnedAlways`, `QueueAttendedAlways`,
  `InterruptFinal`. `StreamOwned` alone is not inductive. The invariant `IInv` adds
  what a run knows where it waits (`RunOK`: the tool it works on, that an attempt is
  left where a request may follow, by which interrupt it was reached), and that a
  stream state either is quiet (nothing, an error, or a wait for the user), shows
  a live run at its `pc`, or is what a failed run has left (`LeftOver`), which no step of another run
  takes for its own. For the queue `Attended` says more than `QueueAttended`: a queue that is not empty belongs
  to a thread that is paused, shows something or has a message on its way, whatever runs are alive. It has to,
  as a run whose preparation fails returns without a look at the queue: what it showed, it leaves. A run
  that returns otherwise drains the queue, and nothing else makes the thread quiet without pausing it. It is
  proved for `"content" \notin Faults`: when the content of a drained message cannot be
  read, what is left in the queue does wait unattended (section 6). The
  lemmas on `Refresh`, `AddMessage`, `UpdateLatestTool`, `JumpTo` say that editing
  the history keeps what is shown or turns nothing into a wait for the user;
  `RunMoves` and `FinishGood` say so of a run that goes on or returns, and each action
  is an instance of one of them. `Inductive` is the step.
* `ChatThreadProofs`, second part: `SettledAlways` and, from it, `OneTaskAlways`,
  `AwaitedRequestIsLastAlways`, `NoToolLeftRunningAlways`, `CarriedOutOnceAlways`,
  `SnapshotCompleteAlways`, all for `~Overlap` and whatever the other constants are. None of these
  properties is inductive. `SInv` says, of the history, of the one on disk and of each one a
  submission has read before its await (`SnapshotOK`): a tool that runs is last, no call
  was carried out twice, the request at the end not at all, ids are those of turns. Two parts
  are about cutting: no user message stands behind a request (`UserApart`, for Edit) and the
  user does not stand on one (`StandsOK`, for Revert and the cut after the await), so that a
  cut never brings an old request to the end. `AwaitsOK` ties the wait for the user to the request at the
  end and to nothing else going on, `RunningOK` a running tool to a run that was not stopped,
  `WorkOK` a run to a call that has no outcome yet. Messages are written over the last one or
  added (`Written`), and `WrittenOK` and `PrefixOK` say when that keeps a history in order; each action
  is a few of these writes and cuts.
  What a failed run has left needs a fact of its own, `LeftAloneAlways`: as long as it is shown, no run and no
  message on its way is there, so that nothing but the user goes on from it.
* `ChatThreadProofs`, third part: `QueueOrderAlways` and `CheckpointBeforeUserAlways`, on top of
  `SInv` and so for `~Overlap`. What both need is where user messages come from: `Inherits` says that
  every user message of a new history stood in the old one, behind the same message; `Tells` says so of
  a thread and of its disk, `Grows` adds that checkpoints stay where they are. Every operation on a
  thread grows it or cuts it, so each step of a run comes down to `On` (it goes on) or `Back` (it
  returns, and may take the next message from the queue). For the order, `QInv` says that
  messages are submitted by their numbers (`Fresh`), that the queue rises and whatever was taken from it is
  before what is left in it (`Rises`, `Behind`), and, of the history, of the one on disk and of each one a
  submission has read, that its queued messages rise and are before all these (`Past`). For the checkpoints,
  `MInv` says where the user stands in each of them (`StandsOn`: on a checkpoint, or beyond the end
  of a history that ends with one) and that a thread which shows nothing, or whose run was told to stop,
  ends with a checkpoint (`FlagsRest`); one that shows what a failed run has left is not beyond the end of its
  history (`LeftInside`). `CheckpointBeforeUserAlways` assumes that the user has neither the
  button that rejects a request nor a restart, as `chat_live` does: the button leaves a rejected tool, and a
  restart whatever was stored, at the end of an idle thread (section 6). Stop, which also rejects, is allowed.
* `WorkModeProofs`: `WorkTypeCorrect`, from an invariant that also says which
  arguments a call carries (`Legal`): the workflow at hand while it is enqueued or
  its command runs, a lease in a claim, and that only windows do more than tick.
  `LockExclusion` assumes `"stale" \notin Faults`: its invariant `LockInv` adds that no
  lock is aged and nobody is about to delete one. The assumption is needed for more
  than two processes: two that found the lock of a third stale can both delete,
  the second the lock the first has just created.
* `WorkModeProofs`, second part: `QueueImplemented` (`ImplementsQueue`), `OneHolderAlways`,
  `ScheduledAlwaysKept`. For the refinement `QueueInv` says that ids are unique, that under
  the lock the draft a process is about to write is the latest `pending.json` with one
  abstract operation applied, and that the lease of a claim not yet written is nobody
  else's. `HolderInv` says that while a lease runs the item is claimed by its holder or
  gone. Both assume `"stale" \notin Faults`, as they rest on the lock. `ScheduledInv` does not:
  every copy of `tasks.json`, also an old one in a process, has the workflow switched on
  unless it was handled.
* `WorkModeProofs`, third part: of the abstract queue, `QueueInvariant` (types, unique ids, one
  waiting item per workflow), `QueueForgets` (`GoneStaysGone`) and `QueueKeepsClaims` (`ActiveClaimKept`);
  and by `QueueImplemented` the same of the file that processes share: `PendingWaitsOnce`,
  `PendingForgets`, `PendingKeepsClaims`. A fact about the small abstract queue thus becomes one about every
  interleaving of reads, writes, crashes and locks.
* `LLMChannelProofs`: `ChannelTypeCorrect`, `ChannelOneAnswer`, `ChannelEntryWhileRunning`,
  `ChannelGoesOnUnseen`, `ChannelImplementsRequest`. `RequestOK(q)` relates the four places a
  request leaves traces in: hooks, what was heard, what is under way in each direction,
  and the call in the main process; `EventsOK` and `CallsOK` say what may follow what on
  the way. What was shown is at most what was sent, unless a tool call was recovered, and
  texts grow (`Grows`) for requests that are not taken apart.
* `AutocompleteProofs`: `AutocompleteTypeCorrect`, `AutocompleteRequestsBounded`,
  `AutocompleteAwaitsPending`. The last follows from `PendingInFlight` (what is pending
  in the cache has a request) and from what a call and an item are. The bound counts, so `CInv` says
  that a cache is a sequence without repetition, whose pending places are, one to one, the requests
  that have no answer; a request is sent only after the oldest of too many was cancelled. `Without`
  keeps the others in their order, and the oldest of `Waiting` exists by the least-number principle.
* `McpServersProofs`: `McpTypeCorrect`, `McpNoClientLost`, `McpShownIsTrue`, `McpFollowsFile`. For the
  clients the invariant says that those in use are known (`Referred`), that a server that connects has no
  client (`ConnectClear`), and that calls of the main process do not share one (`Alone`). For what
  a window shows, `SInv` says that "refreshing" is backed by a call of the main process, and that the last event
  sent to a window tells what the main process has. For the file, `FInv` follows an entry on its
  way: the newest refresh of a window has read the file's entry, and a call at work serves the
  last entry of some window that watches the file, unless one of the excuses has been noted.
* `EditCodeProofs`: `TypeCorrect`, `StreamsHaveLoops`, `NothingIsLeft`, `AllIsReviewable`,
  `StreamsExclude`. Handlers of this component call one another, and the model composes them as
  functions of a state; so the invariant is a predicate `Good(s)` of a state, and there is one lemma for each
  part (`Undone`, `Done`, `Failed`, `Again`, `Aborted`) saying which conjuncts it keeps. They
  are: a stream that is shown has its loop and its request (`OpenOK`, `StreamOK`); a loop that waits is based on
  the text it has read and its change is on top of the undo stack (`WaitOK`); an
  apply that has not succeeded has left its change in no text, no undo snapshot and no loop's base, but
  for the partial text of its own stream (`AbsentOK`); texts and undo snapshots hold at most one zone,
  and what a file keeps outside it was accepted or disturbed (`FilesOK`). Disturbed applies
  are excepted where the properties except them.
* `EditCodeProofs`, second part, on `DiffReview`: `ZonesStayGood` and, from it,
  `RejectIsExactAlways`, `AcceptIsRejectOfRestAlways`, `ZoneKeepsItsLinesAlways` and
  `RejectAllRestoresAlways`, for any lines, texts and number of zones. They assume of the
  constants what the run does, `Copies = FALSE` and no edit across two zones or around one. The
  invariant needs it: after a skipped write or an edit around a zone a zone may reach past the
  end of the file, and an edit across two zones makes them overlap (section 6). Let in one by one
  on the bounds of the run, each makes TLC refute `RejectAllRestores`; a skipped write and an
  edit around a zone also `RejectIsExact`, a skipped write and an edit across zones also
  `ZoneKeepsItsLines`. Against `AcceptIsRejectOfRest` TLC found nothing, in a search that it
  finished only for edits around a zone.
  The properties are not inductive but follow from one invariant, `ReviewInv`: zones lie in the
  file and apart, their originals are not empty, and what is shown is a longest matching's gaps
  (`GoodZones`, `DiffsOf`). It is kept because every write, however its range begins and ends, is
  a replacement of whole lines (`Put`, `Splice...`), because `Realigned` moves a zone as such a
  replacement moves its lines (`RealignMoves`, `ApartKeeps`), and because what rejecting a diff
  writes lies in its zone (`RejectEdits`). `RejectIsExact` then is an equality of two replacements
  (`TakenBackIsPut`). For `RejectAllRestores`, reverting one zone does not change what the file
  reads as with each zone as its original (`RevertedReads`), and without zones that is the file.
  For `AcceptIsRejectOfRest`, the zone's code is taken back line by line from its end
  (`LineTakenBack`): above the line the zone is as it was, below it is already the new original,
  and where a kept line or the accepted diff is, the two agree (`JoinSame`). The functions by
  which the last two are defined are shown to exist, and the inductions over them are done, by
  taking the least number that fails in a set of numbers (`UpTo`, from well-foundedness of `<`).
* `ModelSettingsProofs`: `TypeCorrect`, `ChosenAlwaysOffered`, `SyncedAlwaysSame`. `Offered` says of the settings
  now that every choice is among the offers, which `Validated` restores after each change, and `Same`
  that a difference between Chat's and Apply's model is always accompanied by a change whose hook is yet to run.
* `TerminalsProofs`: `TerminalsTypeCorrect`, `HiddenAlwaysReaped` for all `Behaviors`, from
  what a call knows at each await (`CallsOK`), and `LiveAlwaysListed` when `Behaviors` is empty
  (`Calm`): every persistent terminal that lives is found by its id.

Only model-checked, and why:

* the liveness properties (fairness and `ENABLED` are out of the prover's reach);
* `LockExclusive`, and what rests on it, when locks go stale: false for more than two processes.

## 5. Not modelled

The execution engine (`forge/execution`, `forge/brain`) has no entry point: `AgentRuntime`,
`ForgeRunnerService` and `BrainManager` are constructed by nobody, and the panel that shows
them is in no bundle. A model would describe code that does not run. Prompt conversion, the
parsers of partial texts, indexer, update service and React components are text, I/O or
rendering; of the conversion's I/O `ChatThread` has the failure. The wrappers that take reasoning tags
and XML tool calls out of a stream (`llmMessage/extractGrammar.ts`) work on texts character by
character; `LLMChannel` has that they shorten what is shown (`Shown`), section 6 says where they do more. Of the settings, what concerns MCP servers and
the models of a polled provider is modelled; the rest is assignments. The map of text model
references is small and stands alone. The tools that only read files answer or fail. The upstream
editor, its extensions and the build files, which are nearly all of the repository's lines, are
outside this project.

## 6. Disagreements between the code and what is said of it

Checked by a run:

| Run | Said | Done |
|---|---|---|
| `finding_stop` | README.md:251: Stop cancels the active run "instead of sending another model message" | during an MCP call the interrupt is empty (chatThreadService.ts:796): the run sends a request when the tool answers |

Met while modelling, without a run of their own:

* A folder of the workspace that is gone makes the preparation of every request throw
  (chatThreadService.ts:902, :996; directoryStrService.ts:455). The run ends, and the thread goes on showing
  activity with a Stop button; what is queued waits until the user presses it, and then until
  the user resumes, where :1448 is to drain the queue when a run has ended.
* Approving adds a checkpoint first (chatThreadService.ts:882), so the outcome of the tool is
  appended beside its request and both reach the provider, where :1039 says that
  "tool-call/result adjacency remains valid".
* The queue is only in memory, where FORGE_CODEBASE_GUIDE.md:111-115 says that
  "later queued messages" are kept when the application closes.
* A tick writes back the copy of `tasks.json` it read before its commands ran
  (forge-work.mjs:321, :357): what was added meanwhile is gone.
* A second submission while the first awaits the model selection starts a second
  run instead of being queued (guide:27).
* An edit leaves the thread in the paused set, so messages queued during the new
  run are not drained; a drained message whose content throws is lost,
  and the rest of the queue then waits unattended (guide:93).
* `resumeAgent` does not cut the history at the current checkpoint (:1507), and
  queued messages are not looked at between stages of a run (guide:97).
* After a rejection a user message may follow without a checkpoint (:117).
* Two Stops while a tool is starting leave two rejected messages.
* `/work-remove` ignores a busy lock, and a tick with an old copy restores a removed
  workflow; `/work-approve` takes no claim, so two windows may run one command twice;
  "completed" is acknowledged when the agent run has merely started.
* Two processes that break one stale lock may both enter; a half-written
  `tasks.json` reads as an empty store; two daemons started at once both run.
* Undo in one file stops the streams of all files (editCodeService.ts:692 goes through
  every diff area); a request whose zone was accepted away goes on, and its error then
  undoes somebody else's change.
* `edit_file` looks for a stream before it awaits the saving of the file
  (toolsService.ts:589): an apply that starts in between is written over.
* An answer that comes before its abort leaves the entry in `_infoOfRunningRequest`, and
  `onAbort` stays among the hooks, for every request.
* A final message may be shorter than the text shown before it: a tool call that an agent printed is
  cut out of it (sendLLMMessageService.ts:360-397), and what a wrapper took for text may turn out to be a
  call. A caller that keeps the longer of the two would show what is being run as advice.
* A window that starts while mcp.json cannot be parsed never watches it: mcpService.ts:120 throws
  (JSON.parse, :215) and the `catch` at :128 ends the start. Repairing the file then has no effect in that window
  until it is opened again, or a server is saved or retried in it.
* mcpService.ts:339 "set isOn to any new servers": `_lastMCPConfig` is empty when a window
  starts, so every server is turned on again by each window that opens; :344 "delete isOn for
  any servers that no longer show up": the settings are merged and nothing is deleted
  (voidSettingsService.ts:575).
* A refresh that meets another one of the same server is dropped with the configuration it
  carried (mcpChannel.ts:133); a second window "adds" a server that runs, and the first
  client is written over without being closed (:144), as it is by a toggle that overlaps;
  a client whose tools cannot be listed stays connected (:224); an entry removed while the
  previous refresh awaits the settings is not seen as removed (mcpService.ts:337).
* scripts/forge-mcp-server.mjs:83: several windows "cannot run the same prompt twice"; an
  acknowledgement that meets a busy lock is dropped (Sidebar.tsx:109), and the prompt is
  run again after its lease.
* prompts.ts:59: "You may output multiple SEARCH/REPLACE blocks"; the second block runs a
  check that reads `endLine` before its declaration (editCodeService.ts:1846, :1892) and
  throws: the apply shows a stream for ever and its promise stays open.
* editCodeService.ts:2227 of rejecting an insertion: "(we want to delete this whole line)"; at the
  end of a zone (:2235) the text of the last inserted line stays. :911 "make the diffArea have the
  same range as the change": its `endLine` is one line more (:915).
* With "reject-conflicts" the range and the original are read before the other changes are
  rejected (:1277, :1534 "to make sure no sync errors"), so that the final write may leave
  lines behind, and rejecting the new zone restores what was rejected. `_writeURIText` compares
  the text for a range with the whole file and skips the write, after the zones have been
  realigned for it (:648). An edit across two zones makes both claim the same lines.
* refreshModelService.ts:133 "if a relevant feature flag changes, start refreshing models": the
  listener waits for an event that names the setting, and `_onDidChangeState` is fired without a
  value (:137, voidSettingsService.ts:236), so polling starts with the next window. Two requests
  that overlap start two timers of which one is known (:205; :203 "cancel any existing poll").
  A hidden model comes back visible when it was not served for a while.
* voidSettingsService.ts:408 "if sync is turned on, sync": the model chosen for Apply is overwritten
  by every choice for Chat, without a look at the setting (:407, :452), and a crash between the two
  stores leaves the two apart.
* terminalToolService.ts:64 asks `Number.isInteger` of a text, so the entry of a terminal that
  exited stays (:82 "when exit, remove"); an id is chosen before an await (:166), so two
  terminals opened at once get the same one and the first cannot be reached; a run takes the
  first command that finishes in its terminal for its own (:306); its timers start when the text
  has been sent (:318), so a process that never comes up holds the run for ever, where
  prompts.ts:218 promises an end after inactivity; a foreground command that keeps printing (a server, a
  `tail -f`) never times out, as each output starts the timer anew (:334). A late exit or a late interrupt removes the
  entry of a newer terminal with the same id, after a reload a living terminal's id is given
  again, and a Stop during a run settles it only when its timer fires.
* extractGrammar.ts:46 adds text that was shown before the first tag a second time (:36); a
  call handles one tag, so that an answer that arrives together with the end of the reasoning
  can be lost (:109); the reasoning of a complete answer is looked for where the tags were
  taken out (:96) and is empty.
* A completion found in the cache does not count as typing, so the debounce of an
  earlier call goes on and sends its request (autocompleteService.ts:724, "if more typing
  happened, then do not go forwards"); the cache removes the oldest entry, not the
  "least recently used item" (:89); `freeInlineCompletions` takes a pending request
  with the same text for accepted and cancels it.

## 7. Plan

What is left, in this order:

1. Torn writes and the PID file in `WorkMode`.
2. The wrapper that takes reasoning tags out of a stream, as a function of the cuts between texts.
