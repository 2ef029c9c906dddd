------------------------------ MODULE ChatThread ------------------------------
(***************************************************************************)
(* One chat thread of ChatThreadService (browser/chatThreadService.ts):    *)
(* its message history, its stream state, its queue of user messages, and  *)
(* the agent runs that work on it.                                         *)
(*                                                                         *)
(* JavaScript runs a handler without interruption up to its next await, so *)
(* an action is the code between two awaits that really wait (a reply of   *)
(* the model, a tool, a timer, a file).  An await on a promise that is     *)
(* already resolved returns before the next event is served and does not   *)
(* end an action.  Nothing stops two runs of one thread from being alive   *)
(* together, so the runs are a function over Runs and the thread is shared.*)
(***************************************************************************)
EXTENDS Integers, Sequences, FiniteSets, SequencesExt

CONSTANTS
  Runs,              \* slots for calls of _runChatAgent that have not returned
  NoRun,
  MaxUsers,          \* bound: user messages submitted in a behaviour
  MaxTurns,          \* bound: model turns that keep the loop going
  MaxInterventions,  \* bound: stops, rejections, jumps, edits, restarts...
  ChatRetries,       \* CHAT_RETRIES
  Tools,             \* kinds of tool the model may call
  AutoApprove,       \* values the auto-approve setting may have
  UserOps,           \* operations the user performs
  Faults,            \* failures the environment may inject
  Overlap            \* TRUE: the user also acts while earlier work is settling

Kinds == {"read", "edit", "create", "mcp"}
Ops == {"submit", "resume", "stop", "approve", "reject", "edit", "jump",
        "revert", "dequeue", "dismiss", "refresh", "restart"}
FaultKinds == {"content", "prepare", "params", "toolStart", "tool", "llm",
               "overflow", "refused"}

ASSUME ChatAssumption ==
  /\ NoRun \notin Runs
  /\ MaxUsers \in Nat /\ MaxTurns \in Nat /\ MaxInterventions \in Nat
  /\ ChatRetries \in Nat \ {0}
  /\ Tools \subseteq Kinds /\ AutoApprove \subseteq BOOLEAN
  /\ UserOps \subseteq Ops /\ Faults \subseteq FaultKinds
  /\ Overlap \in BOOLEAN

Users == 1 .. MaxUsers
Turns == 1 .. MaxTurns

VARIABLES
  thread,        \* messages, currCheckpointIdx (0: null), stream, disk
  runs,          \* the local variables of each run and where it waits
  call,          \* what became of each user message
  queue,         \* queuedMessages[threadId]
  paused,        \* threadId \in pausedQueueThreads
  turns,         \* what the model did in each turn; a tool call id is an index
  interventions
vars == <<thread, runs, call, queue, paused, turns, interventions>>

-----------------------------------------------------------------------------
\* Messages

ToolTypes == {"invalid_params", "tool_request", "running_now", "tool_error",
              "success", "rejected"}
Message ==
  [role : {"user"}, type : {"sent"}, id : Users]
    \cup [role : {"tool"}, type : ToolTypes, id : Turns]
    \cup [role : {"checkpoint"}, type : {"user_edit", "tool_edit"}, id : {0}]
    \cup [role : {"assistant", "interrupted_streaming_tool"}, type : {"text"},
          id : {0}]

UserMsg(u) == [role |-> "user", type |-> "sent", id |-> u]
ToolMsg(type, id) == [role |-> "tool", type |-> type, id |-> id]
Checkpoint(type) == [role |-> "checkpoint", type |-> type, id |-> 0]
Assistant == [role |-> "assistant", type |-> "text", id |-> 0]
InterruptedTool ==
  [role |-> "interrupted_streaming_tool", type |-> "text", id |-> 0]

\* The last message is a tool message that _updateLatestTool may overwrite.
EndsWithTool(ms) ==
  ms # <<>> /\ Last(ms).role = "tool" /\ Last(ms).type # "invalid_params"
EndsWithRequest(ms) == EndsWithTool(ms) /\ Last(ms).type = "tool_request"

-----------------------------------------------------------------------------
\* Stream state: which run shows what, and what its interrupt would do

Stream ==
  [isRunning : {"no", "LLM", "tool", "awaiting_user", "idle"},
   interrupt : {"none", "not_needed", "idle", "llm", "tool"},
   owner : Runs \cup {NoRun}, error : BOOLEAN]

NotRunning(err) == [isRunning |-> "no", interrupt |-> "none",
                    owner |-> NoRun, error |-> err]
AwaitingUser == [isRunning |-> "awaiting_user", interrupt |-> "none",
                 owner |-> NoRun, error |-> FALSE]
StreamOf(isRunning, interrupt, r) ==
  [isRunning |-> isRunning, interrupt |-> interrupt, owner |-> r,
   error |-> FALSE]

\* Activity that a failed run has left behind: nothing will clear it but the user.
Left(s) == s.isRunning \in {"LLM", "idle"} /\ s.owner = NoRun

Snapshot == [messages : Seq(Message), currCheckpointIdx : Nat]
Thread == [messages : Seq(Message), currCheckpointIdx : Nat,
           stream : Stream, disk : Snapshot]

\* Mutant: waiting for approval does not count as activity.
Running_NotAwaiting(t) == t.stream.isRunning \notin {"no", "awaiting_user"}
Running(t) == t.stream.isRunning # "no"
SetStream(t, s) == [t EXCEPT !.stream = s]

\* A change of the messages that is also written by _storeAllThreads.
Store(t, ms) ==
  [t EXCEPT !.messages = ms,
            !.disk = [messages |-> ms,
                      currCheckpointIdx |-> t.currCheckpointIdx]]

\* Mutant: a request anywhere in the history is awaited again.
Refresh_AnyRequest(t) ==
  IF /\ ~Running(t) /\ ~t.stream.error
     /\ \E i \in 1 .. Len(t.messages) : t.messages[i].type = "tool_request"
  THEN SetStream(t, AwaitingUser) ELSE t

\* What every _setState does to a thread that shows no activity: a request at
\* the end is awaited again, a tool left running at the end is cancelled.
Refresh(t) ==
  IF Running(t) \/ t.stream.error \/ ~EndsWithTool(t.messages) THEN t
  ELSE IF EndsWithRequest(t.messages) THEN SetStream(t, AwaitingUser)
  ELSE IF Last(t.messages).type = "running_now"
       THEN Store(t, [t.messages EXCEPT ![Len(t.messages)].type = "rejected"])
       ELSE t

AddMessage(t, m) == Refresh(Store(t, Append(t.messages, m)))
AddUserCheckpoint(t) == AddMessage(t, Checkpoint("user_edit"))

\* _addUserMessageAndStreamResponse up to the await of the message's content.
EnterContent(t) == IF t.messages = <<>> THEN AddUserCheckpoint(t) ELSE t

\* Mutant: the outcome is always appended.
UpdateLatestTool_Append(t, m) == AddMessage(t, m)
UpdateLatestTool(t, m) ==
  IF EndsWithTool(t.messages)
  THEN Refresh(Store(t, [t.messages EXCEPT ![Len(t.messages)] = m]))
  ELSE AddMessage(t, m)

-----------------------------------------------------------------------------
\* Runs

PCs == {"off", "validate", "callTool", "toolResult", "mcp", "prep", "llm",
        "compact", "retry"}
Run == [pc : PCs, tool : Turns \cup {0}, first : BOOLEAN,
        interruptedWhenIdle : BOOLEAN, interrupted : BOOLEAN,
        stopPending : BOOLEAN, attempts : 0 .. ChatRetries, force : BOOLEAN,
        stopped : BOOLEAN]   \* history: the user stopped the thread meanwhile

Off == [pc |-> "off", tool |-> 0, first |-> FALSE,
        interruptedWhenIdle |-> FALSE, interrupted |-> FALSE,
        stopPending |-> FALSE, attempts |-> 0, force |-> FALSE,
        stopped |-> FALSE]

Live(r) == runs[r].pc # "off"

\* What the user is shown while a run waits at each of its awaits.
StreamAt(r, pc) ==
  CASE pc \in {"prep", "retry"} -> StreamOf("idle", "idle", r)
    [] pc = "validate" -> StreamOf("idle", "not_needed", r)
    [] pc \in {"callTool", "toolResult"} -> StreamOf("tool", "tool", r)
    [] pc = "mcp" -> StreamOf("tool", "not_needed", r)
    [] OTHER -> StreamOf("LLM", "llm", r)

\* The top of the message loop.
Loop(run) == [run EXCEPT !.pc = "prep", !.attempts = 0, !.tool = 0,
                         !.first = FALSE, !.interrupted = FALSE]
AtLoop(t, r) == SetStream(t, StreamAt(r, "prep"))

\* Step 3 of _runToolCall, up to the first await.
ToolPC(kind) == IF kind = "mcp" THEN "mcp" ELSE "callTool"
BeginTool(t, r, id, kind) ==
  SetStream(UpdateLatestTool(t, ToolMsg("running_now", id)),
            StreamAt(r, ToolPC(kind)))

Move(r, t, run) ==
  /\ thread' = t
  /\ runs' = [runs EXCEPT ![r] = run]
  /\ UNCHANGED <<call, queue, paused, interventions>>

SetStage(u, stage) == [call EXCEPT ![u].stage = stage]

\* Mutant: the stream state is read before the run has cleared it.
MayDrain_Stale(t, p) == ~Running(thread) /\ ~p /\ queue # <<>>
MayDrain(t, p) == ~Running(t) /\ ~p /\ queue # <<>>

\* A run returns, and _wrapRunAgentToNotify looks at the queue.
Finish(r, t, p) ==
  /\ runs' = [runs EXCEPT ![r] = Off]
  /\ paused' = p
  /\ IF MayDrain(t, p)
     THEN /\ queue' = Tail(queue)
          /\ call' = SetStage(Head(queue), "content")
          /\ thread' = EnterContent(t)
     ELSE thread' = t /\ UNCHANGED <<queue, call>>
  /\ UNCHANGED interventions

\* Mutants: the stream state is kept; no checkpoint is added.
Ended_StreamKept(t) == AddUserCheckpoint(t)
Ended_NoCheckpoint(t) == SetStream(t, NotRunning(FALSE))

\* The end of _runChatAgent after the message loop.
Ended(t) == AddUserCheckpoint(SetStream(t, NotRunning(FALSE)))

-----------------------------------------------------------------------------
\* User messages: submitted, queued, waiting for their content, sent

Stages == {"unused", "queued", "select", "content", "sent", "removed",
           "failed", "lost"}
NoBase == [messages |-> <<>>, currCheckpointIdx |-> 0]
\* viaQueue is a history variable: the message has been queued.
Call == [stage : Stages, base : Snapshot, viaQueue : BOOLEAN]
IsNext(u) ==
  call[u].stage = "unused" /\ \A v \in 1 .. (u - 1) : call[v].stage # "unused"
Waiting(u) == call[u].stage \in {"select", "content"}

\* With Overlap = FALSE the user starts new work only when all is settled.
MayStart == Overlap \/ ~((\E r \in Runs : Live(r)) \/ (\E u \in Users : Waiting(u)))

Intervene(op) ==
  /\ op \in UserOps
  /\ interventions < MaxInterventions
  /\ interventions' = interventions + 1

\* Mutant: the message is put at the front.
Enqueue_Front(u) == <<u>> \o queue
Enqueue(u) == Append(queue, u)

\* addUserMessageAndStreamResponse up to the await of the model selection:
\* the thread object read here is the one truncated after the await.
Submit(u) ==
  /\ "submit" \in UserOps /\ IsNext(u)
  /\ IF Running(thread)
     THEN /\ queue' = Enqueue(u)
          /\ call' = [call EXCEPT ![u].stage = "queued", ![u].viaQueue = TRUE]
          /\ UNCHANGED paused
     ELSE /\ MayStart
          /\ paused' = FALSE
          /\ call' = [call EXCEPT ![u].stage = "select", ![u].base =
               IF thread.currCheckpointIdx = 0 THEN NoBase
               ELSE [messages |-> thread.messages,
                     currCheckpointIdx |-> thread.currCheckpointIdx]]
          /\ UNCHANGED queue
  /\ UNCHANGED <<thread, runs, turns, interventions>>

\* messages.slice(0, n): n may be beyond the end.
Slice(ms, n) == IF n > Len(ms) THEN ms ELSE SubSeq(ms, 1, n)

\* Messages up to and including the checkpoint the user stands on.
UpToCheckpoint(t) == Slice(t.messages, t.currCheckpointIdx)

SelectDone(u) ==
  /\ call[u].stage = "select"
  /\ LET base == call[u].base
         t == IF base.currCheckpointIdx = 0 THEN thread
              ELSE Refresh(Store([thread EXCEPT
                     !.currCheckpointIdx = base.currCheckpointIdx],
                     UpToCheckpoint(base)))
     IN thread' = EnterContent(t)
  /\ call' = [call EXCEPT ![u].stage = "content", ![u].base = NoBase]
  /\ UNCHANGED <<runs, queue, paused, turns, interventions>>

\* The content is known: the message joins the history and a run starts.
ContentDone(u, r) ==
  /\ call[u].stage = "content" /\ ~Live(r)
  /\ LET t == [AddMessage(thread, UserMsg(u)) EXCEPT !.currCheckpointIdx = 0]
     IN thread' = AtLoop(AddUserCheckpoint(Refresh(t)), r)
  /\ call' = SetStage(u, "sent")
  /\ runs' = [runs EXCEPT ![r] = Loop(Off)]
  /\ UNCHANGED <<queue, paused, turns, interventions>>

\* chat_userMessageContent throws (a selected folder is gone).
ContentFails(u) ==
  /\ "content" \in Faults
  /\ call[u].stage = "content"
  /\ call' = SetStage(u, "failed")
  /\ UNCHANGED <<thread, runs, queue, paused, turns, interventions>>

Resume(u) ==
  /\ "resume" \in UserOps /\ IsNext(u) /\ MayStart
  /\ paused /\ ~Running(thread)
  /\ paused' = FALSE
  /\ thread' = EnterContent(thread)
  /\ call' = SetStage(u, "content")
  /\ UNCHANGED <<runs, queue, turns, interventions>>

RemoveQueued(i) ==
  /\ Intervene("dequeue")
  /\ queue' = RemoveAt(queue, i)
  /\ call' = SetStage(queue[i], "removed")
  /\ UNCHANGED <<thread, runs, paused, turns>>

-----------------------------------------------------------------------------
\* Approval, rejection and Stop

\* Mutant: the latest request is looked for in the whole history.
MayApprove_AnyRequest ==
  /\ EndsWithTool(thread.messages)
  /\ \E i \in 1 .. Len(thread.messages) : thread.messages[i].type = "tool_request"
MayApprove == EndsWithRequest(thread.messages)

Approve(r) ==
  /\ "approve" \in UserOps /\ ~Live(r)
  /\ MayApprove
  /\ LET id == Last(thread.messages).id IN
     /\ thread' = BeginTool(AddUserCheckpoint(thread), r, id, turns[id])
     /\ runs' = [runs EXCEPT ![r] = [Off EXCEPT !.pc = ToolPC(turns[id]),
                                                !.tool = id, !.first = TRUE]]
  /\ UNCHANGED <<call, queue, paused, turns, interventions>>

RejectLatest(t) ==
  IF EndsWithTool(t.messages)
  THEN SetStream(UpdateLatestTool(t, ToolMsg("rejected", Last(t.messages).id)),
                 NotRunning(FALSE))
  ELSE t

MarkStopped == [r \in Runs |-> [runs[r] EXCEPT !.stopped = Live(r)]]

\* The buttons are shown under every message of type tool_request; the handler
\* only asks that the last message be a tool's.
Reject ==
  /\ Intervene("reject")
  /\ \E i \in 1 .. Len(thread.messages) :
       thread.messages[i].role = "tool" /\ thread.messages[i].type = "tool_request"
  /\ EndsWithTool(thread.messages)
  /\ thread' = RejectLatest(thread)
  /\ paused' = TRUE
  /\ runs' = MarkStopped
  /\ UNCHANGED <<call, queue, turns>>

\* abortRunning up to its await.  cut: a tool call was being streamed.
Halt(t, cut) ==
  AddUserCheckpoint(
    CASE t.stream.isRunning = "LLM" ->
           LET t1 == AddMessage(t, Assistant)
           IN IF cut THEN AddMessage(t1, InterruptedTool) ELSE t1
      [] t.stream.isRunning = "tool" ->
           UpdateLatestTool(t, ToolMsg("rejected", runs[t.stream.owner].tool))
      [] t.stream.isRunning = "awaiting_user" -> RejectLatest(t)
      [] OTHER -> t)

\* The interrupt of a builtin tool is unknown until callTool has returned.
Unresolved(s) == s.interrupt = "tool" /\ runs[s.owner].pc = "callTool"

\* What calling the interrupt does to the runs.  An aborted request makes its
\* run return at once: the run finds the stream state already cleared.
InterruptRuns(s) ==
  LET marked == MarkStopped IN
  IF Left(s) THEN marked
  ELSE CASE s.interrupt = "idle" ->
              [marked EXCEPT ![s.owner].interruptedWhenIdle = TRUE]
         [] s.interrupt = "tool" -> [marked EXCEPT ![s.owner].interrupted = TRUE]
         [] s.interrupt = "llm" /\ runs[s.owner].pc = "llm" ->
              [marked EXCEPT ![s.owner] = Off]
         [] OTHER -> marked

\* The button is shown while the thread is active, the slash command always.
Stop(cut) ==
  /\ Intervene("stop")
  /\ Overlap \/ Running(thread)
  /\ cut => thread.stream.isRunning = "LLM"
  /\ LET t == Halt(thread, cut) IN
     IF Unresolved(t.stream)
     THEN /\ thread' = t
          /\ runs' = [MarkStopped EXCEPT ![t.stream.owner].stopPending = TRUE]
          /\ UNCHANGED paused
     ELSE /\ thread' = SetStream(t, NotRunning(FALSE))
          /\ runs' = InterruptRuns(t.stream)
          /\ paused' = TRUE
  /\ UNCHANGED <<call, queue, turns>>

-----------------------------------------------------------------------------
\* Editing a message, checkpoints, and the rest of the user's operations

\* The edit box first stops the thread, then cuts the history at the message
\* (not stored on disk) and sends the new text.  While a tool is being started
\* the stop waits; the user is then taken to stop first and edit afterwards.
Edit(u, i, cut) ==
  /\ Intervene("edit") /\ IsNext(u)
  /\ cut => thread.stream.isRunning = "LLM"
  /\ thread.messages[i].role = "user"
  /\ LET t == Halt(thread, cut)
         halted == SetStream(t, NotRunning(FALSE)) IN
     /\ ~Unresolved(t.stream)
     /\ runs' = InterruptRuns(t.stream)
     /\ Overlap \/ \A r \in Runs : runs'[r].pc = "off"
     /\ thread' = EnterContent(Refresh(
                    [halted EXCEPT !.messages = Slice(t.messages, i - 1)]))
  /\ Overlap \/ \A v \in Users : ~Waiting(v)
  /\ paused' = TRUE
  /\ call' = SetStage(u, "content")
  /\ UNCHANGED <<queue, turns>>

\* _makeUsStandOnCheckpoint: the index is computed from the thread as it was
\* before the checkpoint was added.
StandOnCheckpoint(t) ==
  IF t.currCheckpointIdx # 0 THEN t
  ELSE LET t1 == IF t.messages # <<>> /\ Last(t.messages).role = "checkpoint"
                 THEN t ELSE AddUserCheckpoint(t)
       IN Refresh([t1 EXCEPT !.currCheckpointIdx = Len(t.messages)])

CheckpointsUpTo(ms, i) == {k \in 1 .. Len(ms) : k <= i /\ ms[k].role = "checkpoint"}

\* jumpToCheckpointBeforeMessageIdx on an idle thread; the files it restores are
\* not part of this module.  User modifications are written into the checkpoint
\* left behind, which stores the thread.
JumpTo(t0, i) ==
  LET t == StandOnCheckpoint(t0)
      from == t.currCheckpointIdx
      before == CheckpointsUpTo(t.messages, i)
  IN IF before = {} \/ from = Max(before) THEN t
     ELSE LET t1 == IF from \in CheckpointsUpTo(t.messages, from)
                    THEN Refresh(Store(t, t.messages)) ELSE t
          IN Refresh([t1 EXCEPT !.currCheckpointIdx = Max(before)])

Jump(i) ==
  /\ Intervene("jump")
  /\ ~Running(thread)
  /\ thread.messages[i].role = "checkpoint"
  /\ thread' = JumpTo(thread, i)
  /\ UNCHANGED <<runs, call, queue, paused, turns>>

Revert(i) ==
  /\ Intervene("revert")
  /\ ~Running(thread)
  /\ thread.messages[i].role = "user"
  /\ LET t == JumpTo(thread, i) IN
     thread' = Refresh(Store(t, UpToCheckpoint(t)))
  /\ UNCHANGED <<runs, call, queue, paused, turns>>

DismissError ==
  /\ Intervene("dismiss")
  /\ thread.stream.error
  /\ thread' = SetStream(thread, NotRunning(FALSE))
  /\ UNCHANGED <<runs, call, queue, paused, turns>>

\* Any other change of the state of the current thread (a selection is staged,
\* a message box is focused, the thread is switched to).
TouchThread ==
  /\ "refresh" \in UserOps
  /\ thread' = Refresh(thread)
  /\ UNCHANGED <<runs, call, queue, paused, turns, interventions>>

\* The window closes and the thread is opened again: only what was stored is
\* left, and switching to the thread refreshes it.
Restart ==
  /\ Intervene("restart")
  /\ LET d == thread.disk IN
     thread' = Refresh([thread EXCEPT
                 !.messages = d.messages,
                 !.currCheckpointIdx = d.currCheckpointIdx,
                 !.stream = NotRunning(FALSE)])
  /\ runs' = [r \in Runs |-> Off]
  /\ call' = [u \in Users |->
       IF Waiting(u) \/ call[u].stage = "queued"
       THEN [call[u] EXCEPT !.stage = "lost", !.base = NoBase] ELSE call[u]]
  /\ queue' = <<>>
  /\ paused' = FALSE
  /\ UNCHANGED turns

-----------------------------------------------------------------------------
\* _runChatAgent and _runToolCall

\* Mutant: the flag that the idle interrupt sets is not looked at.
IdleInterrupted_Ignored(r) == FALSE
IdleInterrupted(r) == runs[r].interruptedWhenIdle

\* Mutant: one attempt too many.
MayRetry_OffByOne(run) == run.attempts <= ChatRetries
MayRetry(run) == run.attempts < ChatRetries

\* A request is sent; the promise of its answer is awaited.
Send(r, run) ==
  Move(r, SetStream(thread, StreamAt(r, "llm")),
       [run EXCEPT !.pc = "llm", !.attempts = @ + 1])

\* prepareLLMChatMessages has returned.  sendLLMMessage may refuse (no model
\* is selected): the error it shows is cleared where the loop ends.
Prepared(r) ==
  /\ runs[r].pc = "prep"
  /\ \/ /\ IdleInterrupted(r)
        /\ Finish(r, SetStream(thread, NotRunning(FALSE)), paused)
     \/ /\ ~IdleInterrupted(r)
        /\ Send(r, runs[r])
     \/ /\ ~IdleInterrupted(r) /\ "refused" \in Faults
        /\ Finish(r, Ended(SetStream(thread, NotRunning(TRUE))), paused)
  /\ UNCHANGED turns

\* prepareLLMChatMessages throws (a folder of the workspace is gone), before the
\* loop's first request or when the messages are compacted.  Nothing in the run
\* catches it and nothing looks at the queue: what the run showed is left.
PrepareFails(r) ==
  /\ "prepare" \in Faults
  /\ runs[r].pc \in {"prep", "compact"}
  /\ runs' = [runs EXCEPT ![r] = Off]
  /\ thread' = IF thread.stream.owner = r
               THEN [thread EXCEPT !.stream.owner = NoRun] ELSE thread
  /\ UNCHANGED <<call, queue, paused, turns, interventions>>

\* Text arrives: whatever the stream state was, it shows this run now.
LLMText(r) ==
  /\ runs[r].pc = "llm"
  /\ thread' = SetStream(thread, StreamAt(r, "llm"))
  /\ UNCHANGED <<runs, call, queue, paused, turns, interventions>>

\* The answer finds that the thread is not streaming any more.
Superseded(r) ==
  /\ runs[r].pc = "llm"
  /\ thread.stream.isRunning # "LLM"
  /\ Finish(r, thread, paused)
  /\ UNCHANGED turns

LLMError(r) ==
  /\ "llm" \in Faults
  /\ runs[r].pc = "llm" /\ thread.stream.isRunning = "LLM"
  /\ \/ /\ MayRetry(runs[r])
        /\ Move(r, SetStream(thread, StreamAt(r, "retry")),
                [runs[r] EXCEPT !.pc = "retry"])
     \/ /\ MayRetry(runs[r]) /\ "overflow" \in Faults
        /\ Move(r, thread, [runs[r] EXCEPT !.pc = "compact"])
     \/ /\ ~MayRetry(runs[r])
        /\ \E cut \in BOOLEAN :
             LET t1 == AddMessage(thread, Assistant)
                 t2 == IF cut THEN AddMessage(t1, InterruptedTool) ELSE t1
             IN Finish(r, AddUserCheckpoint(SetStream(t2, NotRunning(TRUE))),
                       TRUE)
  /\ UNCHANGED turns

\* The messages have been compacted after a context overflow.
Compacted(r) ==
  /\ runs[r].pc = "compact"
  /\ Move(r, SetStream(thread, StreamAt(r, "retry")),
          [runs[r] EXCEPT !.pc = "retry"])
  /\ UNCHANGED turns

RetryElapsed(r) ==
  /\ runs[r].pc = "retry"
  /\ IF IdleInterrupted(r)
     THEN Finish(r, SetStream(thread, NotRunning(FALSE)), paused)
     ELSE Send(r, runs[r])
  /\ UNCHANGED turns

\* Steps 1 to 3 of _runToolCall once the parameters are valid.  A checkpoint is
\* added before an edit if the file has a model.
RequestOrCall(r, t, id, kind) ==
  \E auto \in AutoApprove, loaded \in BOOLEAN :
    LET t1 == IF kind = "edit" /\ loaded
              THEN AddMessage(t, Checkpoint("tool_edit")) ELSE t
        t2 == IF kind = "read" THEN t1
              ELSE AddMessage(t1, ToolMsg("tool_request", id))
    IN IF kind = "read" \/ auto
       THEN Move(r, BeginTool(t2, r, id, kind),
                 [runs[r] EXCEPT !.pc = ToolPC(kind), !.tool = id])
       ELSE Finish(r, SetStream(t2, AwaitingUser), paused)

\* The model has answered.  A turn that ends at the token limit or calls a tool
\* keeps the loop going; any other ends it, unless an empty file was created.
LLMFinal(r) ==
  /\ runs[r].pc = "llm" /\ thread.stream.isRunning = "LLM"
  /\ LET t == SetStream(AddMessage(thread, Assistant), StreamAt(r, "validate"))
         id == Len(turns) + 1
     IN \/ /\ id \in Turns
           /\ turns' = Append(turns, "handoff")
           /\ \E cut \in BOOLEAN :
                LET t1 == IF cut THEN AddMessage(t, InterruptedTool) ELSE t
                IN Move(r, AtLoop(t1, r), Loop(runs[r]))
        \/ /\ id \in Turns
           /\ \E kind \in Tools :
                /\ turns' = Append(turns, kind)
                /\ IF kind = "mcp" THEN RequestOrCall(r, t, id, kind)
                   ELSE Move(r, t, [runs[r] EXCEPT !.pc = "validate",
                                                   !.tool = id])
        \/ /\ runs[r].force
           /\ Move(r, AtLoop(t, r), [Loop(runs[r]) EXCEPT !.force = FALSE])
           /\ UNCHANGED turns
        \/ /\ ~runs[r].force
           /\ Finish(r, Ended(t), paused)
           /\ UNCHANGED turns

\* What the loop does after a tool call that was not interrupted.
Continue(r, t) ==
  Move(r, AtLoop(t, r),
       [Loop(runs[r]) EXCEPT
          !.force = @ \/ (turns[runs[r].tool] = "create" /\ ~runs[r].first)])

Validated(r) ==
  /\ runs[r].pc = "validate"
  /\ LET id == runs[r].tool IN
     \/ RequestOrCall(r, thread, id, turns[id])
     \/ /\ "params" \in Faults
        /\ Continue(r, AddMessage(thread, ToolMsg("invalid_params", id)))
  /\ UNCHANGED turns

\* callTool has returned the promise of the result, and how to interrupt it; an
\* abort that waited for this interrupts the tool before the run goes on.
ToolStarted(r) ==
  /\ runs[r].pc = "callTool"
  /\ runs' = [runs EXCEPT ![r].pc = "toolResult",
                          ![r].interrupted = runs[r].stopPending,
                          ![r].stopPending = FALSE]
  /\ IF runs[r].stopPending
     THEN thread' = SetStream(thread, NotRunning(FALSE)) /\ paused' = TRUE
     ELSE UNCHANGED <<thread, paused>>
  /\ UNCHANGED <<call, queue, turns, interventions>>

\* callTool throws: an abort that waited finds nothing to interrupt, and the
\* run goes on.
ToolFailsToStart(r) ==
  /\ "toolStart" \in Faults
  /\ runs[r].pc = "callTool"
  /\ thread' = AtLoop(UpdateLatestTool(thread,
                        ToolMsg("tool_error", runs[r].tool)), r)
  /\ runs' = [runs EXCEPT ![r] =
       [Loop(runs[r]) EXCEPT
          !.stopPending = FALSE,
          !.force = @ \/ (turns[runs[r].tool] = "create" /\ ~runs[r].first)]]
  /\ paused' = (paused \/ runs[r].stopPending)
  /\ UNCHANGED <<call, queue, turns, interventions>>

\* The result, or the error, of a tool that was not interrupted.
ToolAnswer(r) ==
  \E type \in {"success"} \cup (IF "tool" \in Faults THEN {"tool_error"} ELSE {}) :
    Continue(r, UpdateLatestTool(thread, ToolMsg(type, runs[r].tool)))

\* A builtin tool has answered.  An interrupted tool ends the run, except when
\* it is the approved tool the run began with.
ToolResult(r) ==
  /\ runs[r].pc = "toolResult"
  /\ LET silent == SetStream(thread, NotRunning(FALSE)) IN
     \/ ~runs[r].interrupted /\ ToolAnswer(r)
     \/ /\ runs[r].interrupted /\ runs[r].first
        /\ Move(r, AtLoop(AddUserCheckpoint(silent), r), Loop(runs[r]))
     \/ /\ runs[r].interrupted /\ ~runs[r].first
        /\ Finish(r, silent, paused)
  /\ UNCHANGED turns

\* An MCP server has answered; its call cannot be interrupted.
McpResult(r) ==
  /\ runs[r].pc = "mcp"
  /\ ToolAnswer(r)
  /\ UNCHANGED turns

-----------------------------------------------------------------------------
Init ==
  /\ thread = [messages |-> <<>>, currCheckpointIdx |-> 0,
               stream |-> NotRunning(FALSE), disk |-> NoBase]
  /\ runs = [r \in Runs |-> Off]
  /\ call = [u \in Users |->
             [stage |-> "unused", base |-> NoBase, viaQueue |-> FALSE]]
  /\ queue = <<>>
  /\ paused = FALSE
  /\ turns = <<>>
  /\ interventions = 0

RunStep(r) ==
  \/ Prepared(r) \/ PrepareFails(r) \/ Superseded(r) \/ LLMError(r) \/ Compacted(r)
  \/ RetryElapsed(r) \/ LLMFinal(r) \/ Validated(r) \/ ToolStarted(r)
  \/ ToolFailsToStart(r) \/ ToolResult(r) \/ McpResult(r)

CallStep(u) ==
  SelectDone(u) \/ ContentFails(u) \/ \E r \in Runs : ContentDone(u, r)

UserStep ==
  \/ \E u \in Users : Submit(u) \/ Resume(u)
  \/ \E i \in 1 .. Len(queue) : RemoveQueued(i)
  \/ \E r \in Runs : Approve(r)
  \/ Reject \/ DismissError \/ TouchThread \/ Restart
  \/ \E cut \in BOOLEAN : Stop(cut)
  \/ \E i \in 1 .. Len(thread.messages) :
       \/ Jump(i) \/ Revert(i)
       \/ \E u \in Users, cut \in BOOLEAN : Edit(u, i, cut)

Next ==
  \/ \E r \in Runs : RunStep(r) \/ LLMText(r)
  \/ \E u \in Users : CallStep(u)
  \/ UserStep

Spec == Init /\ [][Next]_vars

\* The awaits of the program end: the provider answers or reports an error, a
\* tool and a file operation return, a timer fires.  Nothing is asked of the user.
Fairness ==
  /\ \A r \in Runs : WF_vars(RunStep(r))
  /\ \A u \in Users : WF_vars(CallStep(u))
FairSpec == Spec /\ Fairness

-----------------------------------------------------------------------------
\* Properties

\* Every variable keeps its type; a tool call id is the number of a turn in
\* which the model called a tool.
TypeOK ==
  /\ thread \in Thread
  /\ runs \in [Runs -> Run]
  /\ call \in [Users -> Call]
  /\ queue \in Seq(Users)
  /\ paused \in BOOLEAN
  /\ turns \in Seq(Tools \cup {"handoff"}) /\ Len(turns) <= MaxTurns
  /\ interventions \in 0 .. MaxInterventions

\* A thread that shows activity shows what a run that is still alive is doing
\* right now, and the interrupt it offers is that run's.  So no spinner is left
\* behind by a run that has returned, whatever runs overlap and whoever clears
\* or overwrites the stream state (_setStreamState in _runChatAgent,
\* _runToolCall and abortRunning); only a run that the preparation of a request
\* made fail leaves one.
StreamOwned ==
  LET s == thread.stream IN
  s.isRunning \in {"LLM", "tool", "idle"} =>
    \/ Left(s)
    \/ /\ s.owner \in Runs
       /\ Live(s.owner)
       /\ s = StreamAt(s.owner, runs[s.owner].pc)

\* Queued messages never wait unattended: when nothing is in flight and the
\* thread shows no activity, a queue that is not empty belongs to a paused
\* thread, where the user is offered to continue (_wrapRunAgentToNotify,
\* _drainQueuedMessage, resumeAgent).
QueueAttended ==
  queue # <<>> =>
    \/ paused \/ Running(thread)
    \/ (\E r \in Runs : Live(r)) \/ (\E u \in Users : Waiting(u))

\* A run whose idle wait or whose tool was interrupted does nothing more than
\* return: it neither sends another request nor calls another tool
\* (interruptedWhenIdle after both awaits, interrupted in _runToolCall).
InterruptIsFinal ==
  [][\A r \in Runs :
       runs[r].interruptedWhenIdle \/ (runs[r].interrupted /\ ~runs[r].first)
         => runs'[r].pc \in {"off", runs[r].pc}]_vars

\* One task at a time: two runs, two messages on their way into the history, or
\* a run and such a message never coexist.
OneTask ==
  /\ \A r, s \in Runs : Live(r) /\ Live(s) => r = s
  /\ \A u, v \in Users : Waiting(u) /\ Waiting(v) => u = v
  /\ \A r \in Runs, u \in Users : ~(Live(r) /\ Waiting(u))

\* While the thread waits for the user, the request it waits for is the last
\* message; otherwise approving has no effect and only Stop ends the wait.
AwaitedRequestIsLast ==
  thread.stream.isRunning = "awaiting_user" => EndsWithRequest(thread.messages)

\* When no run is alive no tool message is left in the state running_now: each
\* was replaced by its outcome, or cancelled when the window was reopened.
NoToolLeftRunning ==
  (\A r \in Runs : ~Live(r)) =>
    \A i \in 1 .. Len(thread.messages) : thread.messages[i].type # "running_now"

\* A tool call is carried out once, and its progress is not left beside its
\* outcome: no two messages say of one call that it runs or that it has answered
\* (approveLatestToolRequest, _updateLatestTool, the cancellation in _setState).
CarriedOutOnce ==
  \A i, j \in 1 .. Len(thread.messages) :
    /\ thread.messages[i].role = "tool" /\ thread.messages[j].role = "tool"
    /\ thread.messages[i].id = thread.messages[j].id
    /\ {thread.messages[i].type, thread.messages[j].type}
         \subseteq {"running_now", "success", "tool_error"}
    => i = j

\* Messages that went through the queue stand in the history in the order in
\* which they were queued.
QueueOrder ==
  \A i, j \in 1 .. Len(thread.messages) :
    LET m == thread.messages[i]  n == thread.messages[j] IN
    /\ m.role = "user" /\ n.role = "user" /\ i < j
    /\ call[m.id].viaQueue /\ call[n.id].viaQueue
    => m.id < n.id

\* A checkpoint stands directly before every user message, unless a request was
\* rejected by its button or the thread was opened again: both may leave an idle
\* thread that ends with something else (rejectLatestToolRequest adds none).
CheckpointBeforeUser ==
  \A i \in 1 .. Len(thread.messages) :
    thread.messages[i].role = "user" =>
      i > 1 /\ thread.messages[i - 1].role = "checkpoint"

\* The history that a submission cuts back to the user's checkpoint after its
\* await holds nothing said after the submission read it.
SnapshotComplete ==
  \A u \in Users :
    call[u].stage = "select" /\ call[u].base # NoBase =>
      \A i \in 1 .. Len(thread.messages) :
        i > Len(call[u].base.messages) => thread.messages[i].role = "checkpoint"

\* A run the user stopped sends no further request.
StopIsHonoured ==
  [][\A r \in Runs :
       runs[r].stopped /\ runs[r].pc # "llm" => runs'[r].pc # "llm"]_vars

\* A queued message is sent, unless it is removed, the thread is paused, the
\* user is asked to approve a tool, or a run failed and left its activity, which
\* the user has to stop.
QueuedIsSent ==
  \A u \in Users :
    call[u].stage = "queued" ~>
      (call[u].stage # "queued" \/ paused
         \/ thread.stream.isRunning = "awaiting_user" \/ Left(thread.stream))

\* A thread does not show activity for ever, unless a failed run has left it.
ActivityEnds ==
  thread.stream.isRunning \in {"LLM", "tool", "idle"} ~>
    (thread.stream.isRunning \in {"no", "awaiting_user"} \/ Left(thread.stream))
=============================================================================
