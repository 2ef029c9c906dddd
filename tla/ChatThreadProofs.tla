-------------------------- MODULE ChatThreadProofs --------------------------
(***************************************************************************)
(* Theorems about ChatThread, for every number of runs, messages, turns,   *)
(* interventions and retries, every set of tools and every environment:    *)
(* first what holds whatever the user does when, then what holds while new *)
(* work starts on a settled thread only (~Overlap), and at the end what    *)
(* that says of the order of the messages.                                 *)
(***************************************************************************)
EXTENDS ChatThread, TLAPS, WellFoundedInduction, SequenceTheorems

-----------------------------------------------------------------------------
\* What the operators on threads return

\* Setting the stream state of a thread gives a thread that shows it.
LEMMA SetStreamType ==
  ASSUME NEW t \in Thread, NEW s \in Stream
  PROVE  SetStream(t, s) \in Thread /\ SetStream(t, s).stream = s
BY DEF SetStream, Thread

\* Storing messages leaves what is shown alone.
LEMMA StoreType ==
  ASSUME NEW t \in Thread, NEW ms \in Seq(Message)
  PROVE  /\ Store(t, ms) \in Thread
         /\ Store(t, ms).stream = t.stream
         /\ Store(t, ms).messages = ms
BY DEF Store, Thread, Snapshot

\* Messages of each kind are messages.
LEMMA MessageTypes ==
  /\ \A type \in ToolTypes, id \in Turns : ToolMsg(type, id) \in Message
  /\ \A u \in Users : UserMsg(u) \in Message
  /\ Checkpoint("user_edit") \in Message
  /\ Checkpoint("tool_edit") \in Message
  /\ Assistant \in Message
  /\ InterruptedTool \in Message
BY DEF ToolMsg, UserMsg, Checkpoint, Assistant, InterruptedTool, Message

\* A history that ends with a tool message is not empty, and the message keeps
\* its type when only the state of the call changes.
LEMMA LastTool ==
  ASSUME NEW ms \in Seq(Message), EndsWithTool(ms)
  PROVE  /\ Len(ms) \in 1 .. Len(ms)
         /\ Last(ms).id \in Turns
         /\ \A m \in Message : [ms EXCEPT ![Len(ms)] = m] \in Seq(Message)
         /\ [ms EXCEPT ![Len(ms)].type = "rejected"] \in Seq(Message)
<1>1. Len(ms) \in 1 .. Len(ms)
  BY DEF EndsWithTool
<1>2. Last(ms) = ms[Len(ms)] /\ Last(ms) \in Message
  BY <1>1 DEF Last
<1>3. Last(ms) \in [role : {"tool"}, type : ToolTypes, id : Turns]
  BY <1>2 DEF EndsWithTool, Message
<1>4. ASSUME NEW m \in Message
      PROVE  [ms EXCEPT ![Len(ms)] = m] \in Seq(Message)
  BY <1>1
<1>5. [Last(ms) EXCEPT !.type = "rejected"] \in Message
  BY <1>3 DEF Message, ToolTypes
<1>6. [ms EXCEPT ![Len(ms)].type = "rejected"]
        = [ms EXCEPT ![Len(ms)] = [Last(ms) EXCEPT !.type = "rejected"]]
  BY <1>2
<1> QED
  BY <1>1, <1>3, <1>4, <1>5, <1>6

\* The stream states that runs set.
LEMMA StreamTypes ==
  /\ \A err \in BOOLEAN : NotRunning(err) \in Stream
  /\ AwaitingUser \in Stream
  /\ \A r \in Runs, pc \in PCs : StreamAt(r, pc) \in Stream
BY DEF NotRunning, AwaitingUser, StreamAt, StreamOf, Stream, PCs

\* A refresh keeps what is shown, or turns nothing into waiting for the user.
LEMMA RefreshType ==
  ASSUME NEW t \in Thread
  PROVE  /\ Refresh(t) \in Thread
         /\ \/ Refresh(t).stream = t.stream
            \/ ~Running(t) /\ Refresh(t).stream = AwaitingUser
<1>1. t.messages \in Seq(Message)
  BY DEF Thread
<1>2. CASE Running(t) \/ t.stream.error \/ ~EndsWithTool(t.messages)
  BY <1>2 DEF Refresh
<1>3. CASE ~(Running(t) \/ t.stream.error \/ ~EndsWithTool(t.messages))
  <2>1. CASE EndsWithRequest(t.messages)
    BY <1>3, <2>1, SetStreamType, StreamTypes DEF Refresh
  <2>2. CASE ~EndsWithRequest(t.messages)
    <3> DEFINE ms == [t.messages EXCEPT ![Len(t.messages)].type = "rejected"]
    <3>1. ms \in Seq(Message)
      BY <1>1, <1>3, LastTool
    <3>2. Store(t, ms) \in Thread /\ Store(t, ms).stream = t.stream
      BY <3>1, StoreType
    <3>3. Refresh(t) \in {t, Store(t, ms)}
      BY <1>3, <2>2 DEF Refresh
    <3> QED
      BY <3>2, <3>3
  <2> QED
    BY <2>1, <2>2
<1> QED
  BY <1>2, <1>3

\* The stream state of t1 is that of t, up to a refresh.
SameStream(t1, t) ==
  \/ t1.stream = t.stream
  \/ ~Running(t) /\ t1.stream = AwaitingUser

\* Adding a message.
LEMMA AddMessageType ==
  ASSUME NEW t \in Thread, NEW m \in Message
  PROVE  AddMessage(t, m) \in Thread /\ SameStream(AddMessage(t, m), t)
<1>1. Append(t.messages, m) \in Seq(Message)
  BY DEF Thread
<1>2. /\ Store(t, Append(t.messages, m)) \in Thread
      /\ Store(t, Append(t.messages, m)).stream = t.stream
  BY <1>1, StoreType
<1> QED
  BY <1>2, RefreshType DEF AddMessage, SameStream, Running

\* Adding the user's checkpoint.
LEMMA AddUserCheckpointType ==
  ASSUME NEW t \in Thread
  PROVE  AddUserCheckpoint(t) \in Thread /\ SameStream(AddUserCheckpoint(t), t)
BY AddMessageType, MessageTypes DEF AddUserCheckpoint

\* Entering the wait for a message's content.
LEMMA EnterContentType ==
  ASSUME NEW t \in Thread
  PROVE  EnterContent(t) \in Thread /\ SameStream(EnterContent(t), t)
BY AddUserCheckpointType DEF EnterContent, SameStream

\* Replacing the latest tool message.
LEMMA UpdateLatestToolType ==
  ASSUME NEW t \in Thread, NEW m \in Message
  PROVE  UpdateLatestTool(t, m) \in Thread /\ SameStream(UpdateLatestTool(t, m), t)
<1>1. CASE EndsWithTool(t.messages)
  <2> DEFINE ms == [t.messages EXCEPT ![Len(t.messages)] = m]
  <2>1. ms \in Seq(Message)
    BY <1>1, LastTool DEF Thread
  <2>2. Store(t, ms) \in Thread /\ Store(t, ms).stream = t.stream
    BY <2>1, StoreType
  <2>3. UpdateLatestTool(t, m) = Refresh(Store(t, ms))
    BY <1>1 DEF UpdateLatestTool
  <2> QED
    BY <2>2, <2>3, RefreshType DEF SameStream, Running
<1>2. CASE ~EndsWithTool(t.messages)
  BY <1>2, AddMessageType DEF UpdateLatestTool
<1> QED
  BY <1>1, <1>2

\* The histories that are cut.
LEMMA SliceType ==
  ASSUME NEW ms \in Seq(Message), NEW n \in Nat
  PROVE  Slice(ms, n) \in Seq(Message)
BY DEF Slice

\* What is left of a history that is cut back to the current checkpoint.
LEMMA UpToCheckpointType ==
  ASSUME NEW t, t.messages \in Seq(Message), t.currCheckpointIdx \in Nat
  PROVE  UpToCheckpoint(t) \in Seq(Message)
BY SliceType DEF UpToCheckpoint

\* A set of positions that is not empty has a largest one.
LEMMA MaxPosition ==
  ASSUME NEW n \in Nat, NEW S, S \subseteq 1 .. n, S # {}
  PROVE  Max(S) \in S
<1> DEFINE D == {n - k : k \in S}
           R == OpToRel(<, Nat)
<1>1. D \subseteq Nat /\ D # {}
  <2>1. ASSUME NEW k \in S
        PROVE  n - k \in Nat
    <3>1. k \in 1 .. n
      OBVIOUS
    <3> QED
      BY <3>1
  <2> QED
    BY <2>1
<1>2. \A e, d \in Nat : e < d => <<e, d>> \in R
  BY DEF OpToRel
<1>3. PICK d \in D : \A e \in D : ~(e < d)
  <2>1. IsWellFoundedOn(R, Nat)
    BY NatLessThanWellFounded
  <2> HIDE DEF R, D
  <2>2. \E d \in D : \A e \in D : ~(<<e, d>> \in R)
    BY <1>1, <2>1, WFMin
  <2> QED
    BY <1>1, <1>2, <2>2
<1>4. PICK k \in S : d = n - k
  BY <1>3
<1>5. \A j \in S : k >= j
  <2> TAKE j \in S
  <2>1. n - j \in D /\ n - j \in Nat /\ d \in Nat
    BY <1>1, <1>3
  <2> QED
    BY <1>3, <1>4, <2>1
<1> QED
  BY <1>5 DEF Max

\* Standing on a checkpoint, and jumping to one.
LEMMA SetIndexType ==
  ASSUME NEW t \in Thread, NEW i \in Nat
  PROVE  LET t1 == Refresh([t EXCEPT !.currCheckpointIdx = i])
         IN t1 \in Thread /\ SameStream(t1, t)
<1> DEFINE t0 == [t EXCEPT !.currCheckpointIdx = i]
<1>1. t0 \in Thread /\ t0.stream = t.stream
  BY DEF Thread
<1> QED
  BY <1>1, RefreshType DEF SameStream, Running

\* Keeping what is shown, step by step.
LEMMA SameStreamTrans ==
  ASSUME NEW t1, NEW t2, NEW t3, SameStream(t1, t2), SameStream(t2, t3)
  PROVE  SameStream(t1, t3)
BY DEF SameStream, Running, AwaitingUser

\* Standing on a checkpoint leaves what is shown alone.
LEMMA StandOnCheckpointType ==
  ASSUME NEW t \in Thread
  PROVE  /\ StandOnCheckpoint(t) \in Thread
         /\ SameStream(StandOnCheckpoint(t), t)
<1> DEFINE t1 == IF t.messages # <<>> /\ Last(t.messages).role = "checkpoint"
                 THEN t ELSE AddUserCheckpoint(t)
<1>1. t1 \in Thread /\ SameStream(t1, t)
  BY AddUserCheckpointType DEF SameStream
<1>2. Len(t.messages) \in Nat
  BY DEF Thread
<1>3. LET t2 == Refresh([t1 EXCEPT !.currCheckpointIdx = Len(t.messages)])
      IN t2 \in Thread /\ SameStream(t2, t1)
  BY <1>1, <1>2, SetIndexType
<1>4. CASE t.currCheckpointIdx # 0
  BY <1>4 DEF StandOnCheckpoint, SameStream
<1>5. CASE t.currCheckpointIdx = 0
  BY <1>1, <1>3, <1>5, SameStreamTrans DEF StandOnCheckpoint
<1> QED
  BY <1>4, <1>5

\* So does a jump.
LEMMA JumpToType ==
  ASSUME NEW t0 \in Thread, NEW i \in Nat
  PROVE  JumpTo(t0, i) \in Thread /\ SameStream(JumpTo(t0, i), t0)
<1> DEFINE t == StandOnCheckpoint(t0)
           before == CheckpointsUpTo(t.messages, i)
           t1 == IF t.currCheckpointIdx
                      \in CheckpointsUpTo(t.messages, t.currCheckpointIdx)
                 THEN Refresh(Store(t, t.messages)) ELSE t
           t2 == Refresh([t1 EXCEPT !.currCheckpointIdx = Max(before)])
<1>1. t \in Thread /\ SameStream(t, t0)
  BY StandOnCheckpointType
<1>2. t.messages \in Seq(Message)
  BY <1>1 DEF Thread
<1>3. t1 \in Thread /\ SameStream(t1, t)
  <2>1. Store(t, t.messages) \in Thread /\ Store(t, t.messages).stream = t.stream
    BY <1>1, <1>2, StoreType
  <2> QED
    BY <1>1, <2>1, RefreshType DEF SameStream, Running
<1>4. ASSUME before # {}
      PROVE  t2 \in Thread /\ SameStream(t2, t1)
  <2>1. before \subseteq 1 .. Len(t.messages) /\ Len(t.messages) \in Nat
    BY <1>2 DEF CheckpointsUpTo
  <2> HIDE DEF before
  <2>2. Max(before) \in before
    BY <1>4, <2>1, MaxPosition
  <2>3. Max(before) \in 1 .. Len(t.messages)
    BY <2>1, <2>2
  <2>4. Max(before) \in Nat
    BY <2>1, <2>3
  <2> QED
    BY <1>3, <2>4, SetIndexType
<1>5. JumpTo(t0, i) = t \/ (before # {} /\ JumpTo(t0, i) = t2)
  BY DEF JumpTo
<1> QED
  BY <1>1, <1>3, <1>4, <1>5, SameStreamTrans

-----------------------------------------------------------------------------
\* The inductive invariant

Quiet == {NotRunning(TRUE), NotRunning(FALSE), AwaitingUser}

\* What a run leaves when the preparation of its request fails.
LeftOver == {StreamOf("idle", "idle", NoRun), StreamOf("LLM", "llm", NoRun)}
Still == Quiet \cup LeftOver

\* The stream state s is quiet or left over, or it shows what a live run of rs
\* is doing.
Shows(s, rs) ==
  \/ s \in Still
  \/ \E r \in Runs : rs[r].pc # "off" /\ s = StreamAt(r, rs[r].pc)

\* What a run knows where it waits: the tool it works on, that an attempt is
\* left where a request may follow, and by which interrupt it was reached.
RunOK(run) ==
  /\ run \in Run
  /\ run.pc \in {"validate", "callTool", "toolResult", "mcp"} => run.tool \in Turns
  /\ run.pc \in {"prep", "compact", "retry"} => run.attempts < ChatRetries
  /\ run.interruptedWhenIdle => run.pc \in {"prep", "retry"}
  /\ run.interrupted => run.pc = "toolResult"

\* TypeOK and StreamOwned, strengthened to be inductive.
IInv ==
  /\ TypeOK
  /\ Shows(thread.stream, runs)
  /\ \A r \in Runs : RunOK(runs[r])

\* What changes in a step, and what stays typed.
Good ==
  /\ thread' \in Thread /\ runs' \in [Runs -> Run]
  /\ Shows(thread'.stream, runs')
  /\ \A r \in Runs : RunOK(runs'[r])

Rest ==
  /\ call' \in [Users -> Call] /\ queue' \in Seq(Users) /\ paused' \in BOOLEAN
  /\ interventions' \in 0 .. MaxInterventions

\* Quiet states, states left over and the states of runs, told apart.
LEMMA StreamFacts ==
  /\ \A s \in Quiet : /\ s.isRunning \in {"no", "awaiting_user"}
                     /\ s.interrupt = "none" /\ ~Left(s)
  /\ \A s \in LeftOver : /\ s.isRunning \in {"LLM", "idle"} /\ Left(s)
                        /\ s.interrupt \in {"idle", "llm"} /\ s.owner \notin Runs
  /\ Still \subseteq Stream
  /\ \A r \in Runs, pc \in PCs :
       LET s == StreamAt(r, pc) IN
       /\ s.isRunning \in {"LLM", "tool", "idle"}
       /\ s.owner = r /\ ~Left(s)
       /\ s.interrupt = "idle" <=> pc \in {"prep", "retry"}
       /\ s.interrupt = "tool" <=> pc \in {"callTool", "toolResult"}
       /\ s.isRunning = "tool" <=> pc \in {"callTool", "toolResult", "mcp"}
       /\ s.isRunning = "LLM" <=> pc \in {"off", "llm", "compact"}
<1>1. \A s \in Quiet : /\ s.isRunning \in {"no", "awaiting_user"}
                      /\ s.interrupt = "none" /\ ~Left(s)
  BY DEF Quiet, NotRunning, AwaitingUser, Left
<1>2. /\ \A s \in LeftOver : /\ s.isRunning \in {"LLM", "idle"} /\ Left(s)
                            /\ s.interrupt \in {"idle", "llm"} /\ s.owner \notin Runs
      /\ LeftOver \subseteq Stream
  BY ChatAssumption DEF LeftOver, StreamOf, Left, Stream
<1>4. Still \subseteq Stream
  BY <1>2, StreamTypes DEF Still, Quiet
<1>3. ASSUME NEW r \in Runs, NEW pc \in PCs
      PROVE  LET s == StreamAt(r, pc) IN
             /\ s.isRunning \in {"LLM", "tool", "idle"}
             /\ s.owner = r /\ ~Left(s)
             /\ s.interrupt = "idle" <=> pc \in {"prep", "retry"}
             /\ s.interrupt = "tool" <=> pc \in {"callTool", "toolResult"}
             /\ s.isRunning = "tool" <=> pc \in {"callTool", "toolResult", "mcp"}
             /\ s.isRunning = "LLM" <=> pc \in {"off", "llm", "compact"}
  <2>1. CASE pc \in {"prep", "retry"}
    BY <2>1, ChatAssumption DEF StreamAt, StreamOf, Left
  <2>2. CASE pc = "validate"
    BY <2>2, ChatAssumption DEF StreamAt, StreamOf, Left
  <2>3. CASE pc \in {"callTool", "toolResult"}
    BY <2>3, ChatAssumption DEF StreamAt, StreamOf, Left
  <2>4. CASE pc = "mcp"
    BY <2>4, ChatAssumption DEF StreamAt, StreamOf, Left
  <2>5. CASE pc \in {"off", "llm", "compact"}
    BY <2>5, ChatAssumption DEF StreamAt, StreamOf, Left
  <2> QED
    BY <1>3, <2>1, <2>2, <2>3, <2>4, <2>5 DEF PCs
<1> QED
  BY <1>1, <1>2, <1>3, <1>4

\* The invariant implies what the runs of TLC check.
LEMMA IInvImplies ==
  IInv => TypeOK /\ StreamOwned
<1> SUFFICES ASSUME IInv PROVE StreamOwned
  BY DEF IInv
<1>1. CASE thread.stream \in Still
  BY <1>1, StreamFacts DEF StreamOwned, Still
<1>2. CASE \E r \in Runs : runs[r].pc # "off"
                           /\ thread.stream = StreamAt(r, runs[r].pc)
  <2>1. PICK r \in Runs : runs[r].pc # "off"
                          /\ thread.stream = StreamAt(r, runs[r].pc)
    BY <1>2
  <2>2. runs[r].pc \in PCs
    BY DEF IInv, TypeOK, Run
  <2> QED
    BY <2>1, <2>2, StreamFacts DEF StreamOwned, Live
<1> QED
  BY <1>1, <1>2 DEF IInv, Shows

\* Running is said of no quiet state but of the wait for the user.
LEMMA QuietSame ==
  ASSUME NEW t1, NEW t, SameStream(t1, t), t.stream \in Quiet
  PROVE  t1.stream \in Quiet
BY DEF SameStream, Quiet

\* An edit of the history that keeps what is shown keeps Shows.
LEMMA ShowsSame ==
  ASSUME NEW t1, NEW t, NEW rs, SameStream(t1, t), Shows(t.stream, rs)
  PROVE  Shows(t1.stream, rs)
BY DEF SameStream, Shows, Still, Quiet

\* At least one attempt is made.
LEMMA ChatRetriesPositive == ChatRetries \in Nat /\ 0 < ChatRetries
BY ChatAssumption

\* A slot that is free.
LEMMA OffOK == RunOK(Off)
BY ChatRetriesPositive DEF RunOK, Off, Run, PCs

\* A run at the top of the loop.
LEMMA LoopOK ==
  ASSUME NEW run \in Run, ~run.interruptedWhenIdle
  PROVE  /\ RunOK(Loop(run)) /\ Loop(run).pc = "prep"
         /\ \A f \in BOOLEAN : /\ RunOK([Loop(run) EXCEPT !.force = f])
                               /\ [Loop(run) EXCEPT !.force = f].pc = "prep"
<1>1. /\ Loop(run) \in Run /\ Loop(run).pc = "prep" /\ Loop(run).attempts = 0
      /\ ~Loop(run).interruptedWhenIdle /\ ~Loop(run).interrupted
  <2>1. 0 \in 0 .. ChatRetries
    BY ChatRetriesPositive
  <2> QED
    BY <2>1 DEF Loop, Run, PCs
<1>2. ASSUME NEW f \in BOOLEAN
      PROVE  LET l == [Loop(run) EXCEPT !.force = f] IN
             /\ l \in Run /\ l.pc = "prep" /\ l.attempts = 0
             /\ ~l.interruptedWhenIdle /\ ~l.interrupted
  BY <1>1 DEF Run
<1>3. \A l \in Run : l.pc = "prep" /\ l.attempts = 0 /\ ~l.interruptedWhenIdle
                      /\ ~l.interrupted => RunOK(l)
  BY ChatRetriesPositive DEF RunOK
<1> QED
  BY <1>1, <1>2, <1>3

\* A step that moves one run and lets the thread show it is good.
LEMMA RunMoves ==
  ASSUME IInv, NEW r \in Runs, NEW t \in Thread, NEW run, RunOK(run), run.pc # "off",
         t.stream = StreamAt(r, run.pc),
         thread' = t, runs' = [runs EXCEPT ![r] = run]
  PROVE  Good
<1>1. runs' \in [Runs -> Run] /\ \A s \in Runs : RunOK(runs'[s])
  BY DEF IInv, TypeOK, RunOK
<1>2. runs'[r] = run
  BY DEF IInv, TypeOK
<1> QED
  BY <1>1, <1>2 DEF Good, Shows

\* A run that goes on and is shown.
LEMMA MoveGood ==
  ASSUME IInv, NEW r \in Runs, NEW t \in Thread, NEW run, RunOK(run), run.pc # "off",
         t.stream = StreamAt(r, run.pc), Move(r, t, run)
  PROVE  Good /\ Rest
<1>1. Good
  BY RunMoves DEF Move
<1> QED
  BY <1>1 DEF Move, Rest, IInv, TypeOK

\* A step in which a run returns is good if the thread shows no run, or another.
LEMMA FinishGood ==
  ASSUME IInv, NEW r \in Runs, NEW t \in Thread, NEW p \in BOOLEAN,
         Shows(t.stream, [runs EXCEPT ![r] = Off]), Finish(r, t, p)
  PROVE  Good /\ Rest
<1>1. runs' \in [Runs -> Run] /\ \A s \in Runs : RunOK(runs'[s])
  BY OffOK DEF IInv, TypeOK, RunOK, Finish
<1>2. thread' \in Thread /\ SameStream(thread', t)
  BY EnterContentType DEF Finish, SameStream
<1>3. Shows(thread'.stream, runs')
  BY <1>2, ShowsSame DEF Finish
<1>4. paused' \in BOOLEAN
  BY DEF Finish
<1>5. CASE MayDrain(t, p)
  <2>1. queue \in Seq(Users) /\ queue # <<>>
    BY <1>5 DEF MayDrain, IInv, TypeOK
  <2>2. Head(queue) \in Users /\ Tail(queue) \in Seq(Users)
    BY <2>1
  <2>3. call' \in [Users -> Call]
    BY <1>5, <2>2 DEF Finish, SetStage, IInv, TypeOK, Call, Stages
  <2> QED
    BY <1>1, <1>2, <1>3, <1>4, <1>5, <2>2, <2>3
       DEF Finish, Good, Rest, IInv, TypeOK
<1>6. CASE ~MayDrain(t, p)
  BY <1>1, <1>2, <1>3, <1>4, <1>6 DEF Finish, Good, Rest, IInv, TypeOK
<1> QED
  BY <1>5, <1>6

\* A run that returns and leaves the thread quiet.
LEMMA FinishQuiet ==
  ASSUME IInv, NEW r \in Runs, NEW t \in Thread, NEW p \in BOOLEAN,
         t.stream \in Quiet, Finish(r, t, p)
  PROVE  Good /\ Rest
BY FinishGood DEF Shows, Still

\* A step that leaves a quiet thread behind is good if the runs are.
LEMMA QuietGood ==
  ASSUME thread' \in Thread, thread'.stream \in Quiet, runs' \in [Runs -> Run],
         \A r \in Runs : RunOK(runs'[r])
  PROVE  Good
BY DEF Good, Shows, Still

-----------------------------------------------------------------------------
\* The steps of a run keep the invariant

\* What the invariant says of one run.
LEMMA IInvFacts ==
  ASSUME IInv, NEW r \in Runs
  PROVE  /\ thread \in Thread /\ thread.messages \in Seq(Message)
         /\ thread.stream \in Stream
         /\ runs[r] \in Run /\ RunOK(runs[r])
         /\ paused \in BOOLEAN
         /\ runs[r].pc \notin {"prep", "retry"} => ~runs[r].interruptedWhenIdle
         /\ runs[r].pc # "toolResult" => ~runs[r].interrupted
BY DEF IInv, TypeOK, RunOK, Run, Thread

\* Where a run waits for its tool.
LEMMA ToolPCs ==
  \A kind : ToolPC(kind) \in {"mcp", "callTool"} /\ ToolPC(kind) \in PCs
BY DEF ToolPC, PCs

\* The thread at the top of the message loop.
LEMMA AtLoopType ==
  ASSUME NEW t \in Thread, NEW r \in Runs
  PROVE  AtLoop(t, r) \in Thread /\ AtLoop(t, r).stream = StreamAt(r, "prep")
BY SetStreamType, StreamTypes DEF AtLoop, PCs

\* The thread when a tool begins.
LEMMA BeginToolType ==
  ASSUME NEW t \in Thread, NEW r \in Runs, NEW id \in Turns, NEW kind
  PROVE  /\ BeginTool(t, r, id, kind) \in Thread
         /\ BeginTool(t, r, id, kind).stream = StreamAt(r, ToolPC(kind))
<1>1. UpdateLatestTool(t, ToolMsg("running_now", id)) \in Thread
  BY UpdateLatestToolType, MessageTypes DEF ToolTypes
<1> QED
  BY <1>1, SetStreamType, StreamTypes, ToolPCs DEF BeginTool

\* The thread when its activity is cleared.
LEMMA NotRunningType ==
  ASSUME NEW t \in Thread, NEW err \in BOOLEAN
  PROVE  /\ SetStream(t, NotRunning(err)) \in Thread
         /\ SetStream(t, NotRunning(err)).stream = NotRunning(err)
         /\ SetStream(t, NotRunning(err)).stream \in Quiet
BY SetStreamType, StreamTypes DEF Quiet

\* The thread when it waits for the user.
LEMMA AwaitingType ==
  ASSUME NEW t \in Thread
  PROVE  /\ SetStream(t, AwaitingUser) \in Thread
         /\ SetStream(t, AwaitingUser).stream \in Quiet
BY SetStreamType, StreamTypes DEF Quiet

\* The thread after the message loop.
LEMMA EndedType ==
  ASSUME NEW t \in Thread
  PROVE  Ended(t) \in Thread /\ Ended(t).stream \in Quiet
<1>1. /\ SetStream(t, NotRunning(FALSE)) \in Thread
      /\ SetStream(t, NotRunning(FALSE)).stream \in Quiet
  BY NotRunningType
<1> QED
  BY <1>1, AddUserCheckpointType, QuietSame DEF Ended

\* Steps that do not touch the model's turns.
TurnsOK == turns \in Seq(Tools \cup {"handoff"}) /\ Len(turns) <= MaxTurns

\* What a step has to keep besides the model's turns.
LEMMA StepKeepsIInv ==
  ASSUME IInv, Good, Rest, TurnsOK'
  PROVE  IInv'
BY DEF IInv, TypeOK, Good, Rest, TurnsOK

LEMMA TurnsKept ==
  ASSUME IInv, UNCHANGED turns
  PROVE  TurnsOK'
BY DEF IInv, TypeOK, TurnsOK

LEMMA SendGood ==
  ASSUME IInv, NEW r \in Runs, runs[r].pc \in {"prep", "retry"},
         ~IdleInterrupted(r), Send(r, runs[r])
  PROVE  Good /\ Rest
<1> DEFINE run == [runs[r] EXCEPT !.pc = "llm", !.attempts = @ + 1]
           t == SetStream(thread, StreamAt(r, "llm"))
<1>1. t \in Thread /\ t.stream = StreamAt(r, "llm")
  BY IInvFacts, SetStreamType, StreamTypes DEF PCs
<1>2. runs[r].attempts + 1 \in 0 .. ChatRetries
  <2>1. runs[r].attempts \in 0 .. ChatRetries /\ runs[r].attempts < ChatRetries
    BY IInvFacts DEF RunOK, Run
  <2> QED
    BY <2>1, ChatRetriesPositive
<1>3. RunOK(run) /\ run.pc = "llm"
  <2>1. ~runs[r].interruptedWhenIdle /\ ~runs[r].interrupted /\ runs[r] \in Run
    BY IInvFacts DEF IdleInterrupted
  <2>2. run \in Run /\ run.pc = "llm" /\ ~run.interruptedWhenIdle /\ ~run.interrupted
    BY <1>2, <2>1 DEF Run, PCs
  <2> QED
    BY <2>2 DEF RunOK
<1>4. Move(r, t, run)
  BY DEF Send
<1> HIDE DEF run, t
<1> QED
  BY <1>1, <1>3, <1>4, MoveGood

LEMMA PreparedGood ==
  ASSUME IInv, NEW r \in Runs, Prepared(r)
  PROVE  IInv'
<1>1. Good /\ Rest
  <2>1. CASE IdleInterrupted(r)
             /\ Finish(r, SetStream(thread, NotRunning(FALSE)), paused)
    BY <2>1, IInvFacts, NotRunningType, FinishQuiet
  <2>2. CASE ~IdleInterrupted(r) /\ Send(r, runs[r])
    BY <2>2, SendGood DEF Prepared
  <2>3. CASE Finish(r, Ended(SetStream(thread, NotRunning(TRUE))), paused)
    <3>1. SetStream(thread, NotRunning(TRUE)) \in Thread
      BY IInvFacts, NotRunningType
    <3> QED
      BY <2>3, <3>1, IInvFacts, EndedType, FinishQuiet
  <2> QED
    BY <2>1, <2>2, <2>3 DEF Prepared
<1> QED
  BY <1>1, StepKeepsIInv, TurnsKept DEF Prepared

\* A run that is not shown may go.
LEMMA ShowsWithout ==
  ASSUME IInv, NEW r \in Runs, thread.stream # StreamAt(r, runs[r].pc)
  PROVE  Shows(thread.stream, [runs EXCEPT ![r] = Off])
<1>1. CASE thread.stream \in Still
  BY <1>1 DEF Shows
<1>2. CASE \E s \in Runs : runs[s].pc # "off" /\ thread.stream = StreamAt(s, runs[s].pc)
  <2>1. PICK s \in Runs : runs[s].pc # "off" /\ thread.stream = StreamAt(s, runs[s].pc)
    BY <1>2
  <2>2. [runs EXCEPT ![r] = Off][s] = runs[s]
    BY <2>1 DEF IInv, TypeOK
  <2> QED
    BY <2>1, <2>2 DEF Shows
<1> QED
  BY <1>1, <1>2 DEF IInv, Shows

\* A stream state without its owner.
LEMMA Disowned ==
  ASSUME NEW r \in Runs, NEW a \in {"LLM", "idle"}, NEW b \in {"llm", "idle"},
         StreamOf(a, b, r) \in Stream
  PROVE  [StreamOf(a, b, r) EXCEPT !.owner = NoRun] = StreamOf(a, b, NoRun)
<1> DEFINE s == [StreamOf(a, b, r) EXCEPT !.owner = NoRun]
<1>1. s \in Stream /\ StreamOf(a, b, NoRun) \in Stream
  BY DEF StreamOf, Stream
<1>2. \A x, y \in Stream :
        /\ x.isRunning = y.isRunning /\ x.interrupt = y.interrupt
        /\ x.owner = y.owner /\ x.error = y.error
        => x = y
  BY DEF Stream
<1> QED
  BY <1>1, <1>2 DEF StreamOf, Stream

\* What the failure of the preparation leaves on show has no owner any more; what
\* another run shows stays.
LEMMA PrepareFailsShows ==
  ASSUME IInv, NEW r \in Runs, PrepareFails(r)
  PROVE  \E s \in Stream :
           /\ thread' = SetStream(thread, s)
           /\ s.isRunning = thread.stream.isRunning
           /\ \/ s \in LeftOver
              \/ s = thread.stream /\ s # StreamAt(r, runs[r].pc)
<1>1. /\ runs[r].pc \in {"prep", "compact"} /\ runs[r].pc \in PCs
      /\ thread \in Thread /\ thread.stream \in Stream
      /\ \A s \in Runs : runs[s].pc \in PCs
  BY DEF PrepareFails, PCs, IInv, TypeOK, Run, Thread
<1>2. CASE thread.stream.owner = r
  <2> DEFINE s == [thread.stream EXCEPT !.owner = NoRun]
  <2>1. thread' = SetStream(thread, s)
    BY <1>1, <1>2 DEF PrepareFails, SetStream, Thread
  <2>2. s \in Stream /\ s.isRunning = thread.stream.isRunning
    BY <1>1 DEF Stream
  <2>3. thread.stream = StreamAt(r, runs[r].pc)
    <3>1. thread.stream \notin Still
      BY <1>2, ChatAssumption DEF Still, Quiet, LeftOver, NotRunning, AwaitingUser,
                                  StreamOf
    <3> QED
      BY <1>1, <1>2, <3>1, StreamFacts DEF IInv, Shows
  <2>4. s \in LeftOver
    <3>1. CASE runs[r].pc = "prep"
      <4>1. thread.stream = StreamOf("idle", "idle", r)
        BY <2>3, <3>1 DEF StreamAt
      <4> QED
        BY <1>1, <4>1, Disowned DEF LeftOver
    <3>2. CASE runs[r].pc = "compact"
      <4>1. thread.stream = StreamOf("LLM", "llm", r)
        BY <2>3, <3>2 DEF StreamAt
      <4> QED
        BY <1>1, <4>1, Disowned DEF LeftOver
    <3> QED
      BY <1>1, <3>1, <3>2
  <2> QED
    BY <2>1, <2>2, <2>4
<1>3. CASE thread.stream.owner # r
  <2>1. thread' = SetStream(thread, thread.stream)
    BY <1>1, <1>3 DEF PrepareFails, SetStream, Thread
  <2>2. thread.stream # StreamAt(r, runs[r].pc)
    BY <1>1, <1>3, StreamFacts
  <2> QED
    BY <1>1, <2>1, <2>2
<1> QED
  BY <1>2, <1>3

\* The failure of the preparation keeps the invariant.
LEMMA PrepareFailsGood ==
  ASSUME IInv, NEW r \in Runs, PrepareFails(r)
  PROVE  IInv'
<1>1. runs' = [runs EXCEPT ![r] = Off] /\ thread \in Thread
  BY DEF PrepareFails, IInv, TypeOK
<1>2. runs' \in [Runs -> Run] /\ \A s \in Runs : RunOK(runs'[s])
  BY <1>1, OffOK DEF IInv, TypeOK, RunOK
<1>3. PICK s \in Stream :
        /\ thread' = SetStream(thread, s)
        /\ \/ s \in LeftOver
           \/ s = thread.stream /\ s # StreamAt(r, runs[r].pc)
  BY PrepareFailsShows
<1>4. thread' \in Thread /\ Shows(thread'.stream, runs')
  <2>1. thread' \in Thread /\ thread'.stream = s
    BY <1>1, <1>3, SetStreamType
  <2>2. CASE s \in LeftOver
    BY <2>1, <2>2 DEF Shows, Still
  <2>3. CASE s = thread.stream /\ s # StreamAt(r, runs[r].pc)
    BY <1>1, <2>1, <2>3, ShowsWithout
  <2> QED
    BY <1>3, <2>1, <2>2, <2>3
<1>5. Rest
  BY DEF Rest, PrepareFails, IInv, TypeOK
<1>6. Good
  BY <1>2, <1>4 DEF Good
<1> QED
  BY <1>5, <1>6, StepKeepsIInv, TurnsKept DEF PrepareFails

LEMMA SupersededGood ==
  ASSUME IInv, NEW r \in Runs, Superseded(r)
  PROVE  IInv'
<1>1. runs[r].pc = "llm" /\ thread.stream.isRunning # "LLM"
      /\ Finish(r, thread, paused)
  BY DEF Superseded
<1>2. \A s \in Runs : runs[s].pc \in PCs
  BY DEF IInv, RunOK, Run
<1>3. Shows(thread.stream, [runs EXCEPT ![r] = Off])
  <2>1. thread.stream # StreamAt(r, runs[r].pc)
    BY <1>1, <1>2, StreamFacts
  <2> QED
    BY <2>1, ShowsWithout
<1> QED
  BY <1>1, <1>3, IInvFacts, FinishGood, StepKeepsIInv, TurnsKept DEF Superseded

LEMMA LLMTextGood ==
  ASSUME IInv, NEW r \in Runs, LLMText(r)
  PROVE  IInv'
<1>1. thread' \in Thread /\ thread'.stream = StreamAt(r, "llm")
  BY IInvFacts, SetStreamType, StreamTypes DEF LLMText, PCs
<1>2. Good
  BY <1>1 DEF Good, Shows, LLMText, IInv, TypeOK
<1>3. Rest
  BY DEF Rest, LLMText, IInv, TypeOK
<1> QED
  BY <1>2, <1>3, StepKeepsIInv, TurnsKept DEF LLMText

LEMMA AssistantType ==
  ASSUME NEW t \in Thread, NEW cut \in BOOLEAN
  PROVE  LET t1 == AddMessage(t, Assistant)
             t2 == IF cut THEN AddMessage(t1, InterruptedTool) ELSE t1
         IN /\ t1 \in Thread /\ t2 \in Thread
            /\ SameStream(t1, t) /\ SameStream(t2, t)
<1> DEFINE t1 == AddMessage(t, Assistant)
<1>1. t1 \in Thread /\ SameStream(t1, t)
  BY AddMessageType, MessageTypes
<1>2. /\ AddMessage(t1, InterruptedTool) \in Thread
      /\ SameStream(AddMessage(t1, InterruptedTool), t1)
  BY <1>1, AddMessageType, MessageTypes
<1>3. SameStream(AddMessage(t1, InterruptedTool), t)
  BY <1>1, <1>2, SameStreamTrans
<1> QED
  BY <1>1, <1>2, <1>3

LEMMA LLMErrorGood ==
  ASSUME IInv, NEW r \in Runs, LLMError(r)
  PROVE  IInv'
<1>1. runs[r].pc = "llm" /\ runs[r] \in Run /\ thread \in Thread
      /\ thread.stream.isRunning = "LLM"
      /\ ~runs[r].interruptedWhenIdle /\ ~runs[r].interrupted
  BY IInvFacts DEF LLMError
<1>2. ASSUME NEW pc \in {"retry", "compact"}, MayRetry(runs[r])
      PROVE  LET run == [runs[r] EXCEPT !.pc = pc]
             IN RunOK(run) /\ run.pc = pc
  BY <1>1, <1>2 DEF RunOK, Run, PCs, MayRetry
<1>3. Good /\ Rest
  <2>1. CASE MayRetry(runs[r])
             /\ Move(r, SetStream(thread, StreamAt(r, "retry")),
                     [runs[r] EXCEPT !.pc = "retry"])
    <3>1. LET t == SetStream(thread, StreamAt(r, "retry"))
          IN t \in Thread /\ t.stream = StreamAt(r, "retry")
      BY <1>1, SetStreamType, StreamTypes DEF PCs
    <3> QED
      BY <1>2, <2>1, <3>1, MoveGood
  <2>2. CASE MayRetry(runs[r])
             /\ Move(r, thread, [runs[r] EXCEPT !.pc = "compact"])
    <3> DEFINE run == [runs[r] EXCEPT !.pc = "compact"]
    <3>1. RunOK(run) /\ run.pc = "compact"
      BY <1>2, <2>2
    <3>2. runs' = [runs EXCEPT ![r] = run] /\ thread' = thread
      BY <2>2 DEF Move
    <3>3. runs' \in [Runs -> Run] /\ \A s \in Runs : RunOK(runs'[s])
      BY <3>1, <3>2 DEF IInv, TypeOK, RunOK
    <3>5. Shows(thread.stream, runs')
      <4>1. CASE thread.stream \in Still
        BY <4>1 DEF Shows
      <4>2. CASE \E s \in Runs : runs[s].pc # "off"
                                 /\ thread.stream = StreamAt(s, runs[s].pc)
        <5>1. PICK s \in Runs : runs[s].pc # "off"
                                /\ thread.stream = StreamAt(s, runs[s].pc)
          BY <4>2
        <5>2. CASE s = r
          <6>1. runs'[s].pc = "compact" /\ runs[s].pc = "llm"
            BY <1>1, <3>1, <3>2, <5>2 DEF IInv, TypeOK
          <6>2. thread.stream = StreamAt(s, runs'[s].pc)
            BY <5>1, <6>1 DEF StreamAt
          <6> QED
            BY <6>1, <6>2 DEF Shows
        <5>3. CASE s # r
          <6>1. runs'[s] = runs[s]
            BY <3>2, <5>3 DEF IInv, TypeOK
          <6> QED
            BY <5>1, <6>1 DEF Shows
        <5> QED
          BY <5>2, <5>3
      <4> QED
        BY <4>1, <4>2 DEF IInv, Shows
    <3>6. Good
      BY <1>1, <3>2, <3>3, <3>5 DEF Good
    <3> QED
      BY <2>2, <3>6 DEF Move, Rest, IInv, TypeOK
  <2>3. ASSUME NEW cut \in BOOLEAN,
               LET t1 == AddMessage(thread, Assistant)
                   t2 == IF cut THEN AddMessage(t1, InterruptedTool) ELSE t1
               IN Finish(r, AddUserCheckpoint(SetStream(t2, NotRunning(TRUE))), TRUE)
        PROVE  Good /\ Rest
    <3> DEFINE t1 == AddMessage(thread, Assistant)
               t2 == IF cut THEN AddMessage(t1, InterruptedTool) ELSE t1
               t3 == SetStream(t2, NotRunning(TRUE))
    <3>1. t2 \in Thread
      BY <1>1, AssistantType
    <3>2. t3 \in Thread /\ t3.stream \in Quiet
      BY <3>1, NotRunningType
    <3>3. AddUserCheckpoint(t3) \in Thread /\ AddUserCheckpoint(t3).stream \in Quiet
      BY <3>2, AddUserCheckpointType, QuietSame
    <3>4. Finish(r, AddUserCheckpoint(t3), TRUE)
      BY <2>3
    <3> HIDE DEF t3
    <3> QED
      BY <3>3, <3>4, FinishQuiet
  <2> QED
    BY <2>1, <2>2, <2>3 DEF LLMError
<1> QED
  BY <1>3, StepKeepsIInv, TurnsKept DEF LLMError

LEMMA CompactedGood ==
  ASSUME IInv, NEW r \in Runs, Compacted(r)
  PROVE  IInv'
<1> DEFINE run == [runs[r] EXCEPT !.pc = "retry"]
           t == SetStream(thread, StreamAt(r, "retry"))
<1>1. runs[r].pc = "compact" /\ runs[r] \in Run /\ RunOK(runs[r])
      /\ ~runs[r].interruptedWhenIdle /\ ~runs[r].interrupted
  BY IInvFacts DEF Compacted
<1>2. RunOK(run) /\ run.pc = "retry"
  BY <1>1 DEF RunOK, Run, PCs
<1>3. t \in Thread /\ t.stream = StreamAt(r, "retry")
  BY IInvFacts, SetStreamType, StreamTypes DEF PCs
<1>4. Move(r, t, run)
  BY DEF Compacted
<1> HIDE DEF run, t
<1> QED
  BY <1>2, <1>3, <1>4, MoveGood, StepKeepsIInv, TurnsKept DEF Compacted

LEMMA RetryElapsedGood ==
  ASSUME IInv, NEW r \in Runs, RetryElapsed(r)
  PROVE  IInv'
<1>1. Good /\ Rest
  <2>1. CASE IdleInterrupted(r)
    BY <2>1, IInvFacts, NotRunningType, FinishQuiet DEF RetryElapsed
  <2>2. CASE ~IdleInterrupted(r)
    BY <2>2, SendGood DEF RetryElapsed
  <2> QED
    BY <2>1, <2>2
<1> QED
  BY <1>1, StepKeepsIInv, TurnsKept DEF RetryElapsed

\* The outcome of asking for approval, or of calling the tool at once.
LEMMA RequestOrCallGood ==
  ASSUME IInv, NEW r \in Runs, runs[r].pc \in {"llm", "validate"},
         NEW t \in Thread, NEW id \in Turns, NEW kind, RequestOrCall(r, t, id, kind)
  PROVE  Good /\ Rest
<1>1. PICK auto \in AutoApprove, loaded \in BOOLEAN :
        LET t1 == IF kind = "edit" /\ loaded
                  THEN AddMessage(t, Checkpoint("tool_edit")) ELSE t
            t2 == IF kind = "read" THEN t1
                  ELSE AddMessage(t1, ToolMsg("tool_request", id))
        IN IF kind = "read" \/ auto
           THEN Move(r, BeginTool(t2, r, id, kind),
                     [runs[r] EXCEPT !.pc = ToolPC(kind), !.tool = id])
           ELSE Finish(r, SetStream(t2, AwaitingUser), paused)
  BY DEF RequestOrCall
<1> DEFINE t1 == IF kind = "edit" /\ loaded
                 THEN AddMessage(t, Checkpoint("tool_edit")) ELSE t
           t2 == IF kind = "read" THEN t1
                 ELSE AddMessage(t1, ToolMsg("tool_request", id))
           run == [runs[r] EXCEPT !.pc = ToolPC(kind), !.tool = id]
<1>2. t1 \in Thread
  BY AddMessageType, MessageTypes
<1>3. t2 \in Thread
  BY <1>2, AddMessageType, MessageTypes DEF ToolTypes
<1>4. CASE kind = "read" \/ auto
  <2>1. RunOK(run) /\ run.pc = ToolPC(kind)
    <3>1. /\ runs[r] \in Run
          /\ ~runs[r].interruptedWhenIdle /\ ~runs[r].interrupted
      BY IInvFacts
    <3> QED
      BY <3>1, ToolPCs DEF RunOK, Run
  <2>2. Move(r, BeginTool(t2, r, id, kind), run)
    BY <1>1, <1>4
  <2>3. ToolPC(kind) # "off"
    BY ToolPCs
  <2> HIDE DEF run, t2
  <2> QED
    BY <1>3, <2>1, <2>2, <2>3, BeginToolType, MoveGood
<1>5. CASE ~(kind = "read" \/ auto)
  <2>1. Finish(r, SetStream(t2, AwaitingUser), paused)
    BY <1>1, <1>5
  <2> HIDE DEF t2
  <2> QED
    BY <1>3, <2>1, AwaitingType, IInvFacts, FinishQuiet
<1> QED
  BY <1>4, <1>5

LEMMA LLMFinalGood ==
  ASSUME IInv, NEW r \in Runs, LLMFinal(r)
  PROVE  IInv'
<1> DEFINE t == SetStream(AddMessage(thread, Assistant), StreamAt(r, "validate"))
           id == Len(turns) + 1
<1>1. /\ runs[r].pc = "llm" /\ runs[r] \in Run
      /\ ~runs[r].interruptedWhenIdle /\ ~runs[r].interrupted
  BY IInvFacts DEF LLMFinal
<1>2. t \in Thread /\ t.stream = StreamAt(r, "validate")
  BY IInvFacts, AssistantType, SetStreamType, StreamTypes DEF PCs
<1>3. TurnsOK
  BY DEF TurnsOK, IInv, TypeOK
<1>4. ASSUME NEW kind \in Tools \cup {"handoff"}, id \in Turns,
             turns' = Append(turns, kind)
      PROVE  TurnsOK'
  BY <1>3, <1>4, ChatAssumption DEF TurnsOK, Turns
<1>5. CASE /\ id \in Turns
           /\ turns' = Append(turns, "handoff")
           /\ \E cut \in BOOLEAN :
                LET t1 == IF cut THEN AddMessage(t, InterruptedTool) ELSE t
                IN Move(r, AtLoop(t1, r), Loop(runs[r]))
  <2> HIDE DEF t
  <2>1. PICK cut \in BOOLEAN :
          LET t1 == IF cut THEN AddMessage(t, InterruptedTool) ELSE t
          IN Move(r, AtLoop(t1, r), Loop(runs[r]))
    BY <1>5
  <2> DEFINE t1 == IF cut THEN AddMessage(t, InterruptedTool) ELSE t
  <2>2. t1 \in Thread
    BY <1>2, AddMessageType, MessageTypes
  <2>3. Move(r, AtLoop(t1, r), Loop(runs[r]))
    BY <2>1
  <2> HIDE DEF t1
  <2>4. Good /\ Rest
    BY <1>1, <2>2, <2>3, AtLoopType, LoopOK, MoveGood
  <2> QED
    BY <1>4, <1>5, <2>4, StepKeepsIInv
<1>6. CASE /\ id \in Turns
           /\ \E kind \in Tools :
                /\ turns' = Append(turns, kind)
                /\ IF kind = "mcp" THEN RequestOrCall(r, t, id, kind)
                   ELSE Move(r, t, [runs[r] EXCEPT !.pc = "validate", !.tool = id])
  <2> HIDE DEF t
  <2>1. PICK kind \in Tools :
          /\ turns' = Append(turns, kind)
          /\ IF kind = "mcp" THEN RequestOrCall(r, t, id, kind)
             ELSE Move(r, t, [runs[r] EXCEPT !.pc = "validate", !.tool = id])
    BY <1>6
  <2>2. Good /\ Rest
    <3>1. CASE kind = "mcp"
      BY <1>1, <1>2, <1>6, <2>1, <3>1, RequestOrCallGood
    <3>2. CASE kind # "mcp"
      <4> DEFINE run == [runs[r] EXCEPT !.pc = "validate", !.tool = id]
      <4>1. RunOK(run) /\ run.pc = "validate"
        BY <1>1, <1>6 DEF RunOK, Run, PCs
      <4>2. Move(r, t, run)
        BY <2>1, <3>2
      <4> HIDE DEF run
      <4> QED
        BY <1>2, <4>1, <4>2, MoveGood
    <3> QED
      BY <3>1, <3>2
  <2> QED
    BY <1>4, <1>6, <2>1, <2>2, StepKeepsIInv
<1>7. CASE /\ Move(r, AtLoop(t, r), [Loop(runs[r]) EXCEPT !.force = FALSE])
           /\ UNCHANGED turns
  <2> HIDE DEF t
  <2>1. Good /\ Rest
    BY <1>1, <1>2, <1>7, AtLoopType, LoopOK, MoveGood
  <2> QED
    BY <1>7, <2>1, TurnsKept, StepKeepsIInv
<1>8. CASE Finish(r, Ended(t), paused) /\ UNCHANGED turns
  <2> HIDE DEF t
  <2>1. Good /\ Rest
    BY <1>2, <1>8, IInvFacts, EndedType, FinishQuiet
  <2> QED
    BY <1>8, <2>1, TurnsKept, StepKeepsIInv
<1> QED
  BY <1>5, <1>6, <1>7, <1>8 DEF LLMFinal

LEMMA ContinueGood ==
  ASSUME IInv, NEW r \in Runs, runs[r].pc \notin {"prep", "retry"},
         NEW t \in Thread, Continue(r, t)
  PROVE  Good /\ Rest
<1>1. runs[r] \in Run /\ ~runs[r].interruptedWhenIdle
  BY IInvFacts
<1> DEFINE f == Loop(runs[r]).force
                  \/ (turns[runs[r].tool] = "create" /\ ~runs[r].first)
           run == [Loop(runs[r]) EXCEPT !.force = f]
<1>2. f \in BOOLEAN
  OBVIOUS
<1>3. RunOK(run) /\ run.pc = "prep"
  BY <1>1, <1>2, LoopOK
<1>4. Move(r, AtLoop(t, r), run)
  BY DEF Continue
<1> HIDE DEF run
<1> QED
  BY <1>3, <1>4, AtLoopType, MoveGood

LEMMA ValidatedGood ==
  ASSUME IInv, NEW r \in Runs, Validated(r)
  PROVE  IInv'
<1>1. runs[r].pc = "validate" /\ runs[r].tool \in Turns /\ thread \in Thread
  BY IInvFacts DEF Validated, RunOK
<1>2. CASE RequestOrCall(r, thread, runs[r].tool, turns[runs[r].tool])
  BY <1>1, <1>2, RequestOrCallGood, StepKeepsIInv, TurnsKept DEF Validated
<1>3. CASE Continue(r, AddMessage(thread, ToolMsg("invalid_params", runs[r].tool)))
  <2>1. AddMessage(thread, ToolMsg("invalid_params", runs[r].tool)) \in Thread
    BY <1>1, AddMessageType, MessageTypes DEF ToolTypes
  <2> QED
    BY <1>1, <1>3, <2>1, ContinueGood, StepKeepsIInv, TurnsKept DEF Validated
<1> QED
  BY <1>2, <1>3 DEF Validated

LEMMA ToolAnswerGood ==
  ASSUME IInv, NEW r \in Runs, runs[r].pc \in {"toolResult", "mcp"}, ToolAnswer(r)
  PROVE  Good /\ Rest
<1>1. PICK type \in {"success", "tool_error"} :
        Continue(r, UpdateLatestTool(thread, ToolMsg(type, runs[r].tool)))
  BY DEF ToolAnswer
<1>2. runs[r].tool \in Turns /\ thread \in Thread
  BY IInvFacts DEF RunOK
<1>3. UpdateLatestTool(thread, ToolMsg(type, runs[r].tool)) \in Thread
  BY <1>2, UpdateLatestToolType, MessageTypes DEF ToolTypes
<1> QED
  BY <1>1, <1>3, ContinueGood

LEMMA McpResultGood ==
  ASSUME IInv, NEW r \in Runs, McpResult(r)
  PROVE  IInv'
BY ToolAnswerGood, StepKeepsIInv, TurnsKept DEF McpResult

LEMMA ToolResultGood ==
  ASSUME IInv, NEW r \in Runs, ToolResult(r)
  PROVE  IInv'
<1> DEFINE silent == SetStream(thread, NotRunning(FALSE))
<1>1. silent \in Thread /\ silent.stream \in Quiet /\ runs[r] \in Run
      /\ runs[r].pc = "toolResult" /\ ~runs[r].interruptedWhenIdle
  BY IInvFacts, NotRunningType DEF ToolResult
<1>2. Good /\ Rest
  <2>1. CASE ToolAnswer(r)
    BY <1>1, <2>1, ToolAnswerGood
  <2>2. CASE Move(r, AtLoop(AddUserCheckpoint(silent), r), Loop(runs[r]))
    <3> HIDE DEF silent
    <3>1. AddUserCheckpoint(silent) \in Thread
      BY <1>1, AddUserCheckpointType
    <3> QED
      BY <1>1, <2>2, <3>1, AtLoopType, LoopOK, MoveGood
  <2>3. CASE Finish(r, silent, paused)
    <3> HIDE DEF silent
    <3> QED
      BY <1>1, <2>3, IInvFacts, FinishQuiet
  <2> QED
    BY <2>1, <2>2, <2>3 DEF ToolResult
<1> QED
  BY <1>2, StepKeepsIInv, TurnsKept DEF ToolResult

LEMMA ToolFailsToStartGood ==
  ASSUME IInv, NEW r \in Runs, ToolFailsToStart(r)
  PROVE  IInv'
<1>1. runs[r].pc = "callTool" /\ runs[r] \in Run /\ runs[r].tool \in Turns
      /\ thread \in Thread /\ ~runs[r].interruptedWhenIdle
  BY IInvFacts DEF ToolFailsToStart, RunOK
<1> DEFINE t == UpdateLatestTool(thread, ToolMsg("tool_error", runs[r].tool))
           f == Loop(runs[r]).force
                  \/ (turns[runs[r].tool] = "create" /\ ~runs[r].first)
           run == [Loop(runs[r]) EXCEPT !.stopPending = FALSE, !.force = f]
<1>2. t \in Thread
  BY <1>1, UpdateLatestToolType, MessageTypes DEF ToolTypes
<1>3. RunOK(run) /\ run.pc = "prep"
  <2>1. RunOK(Loop(runs[r])) /\ Loop(runs[r]).pc = "prep"
    BY <1>1, LoopOK
  <2>2. f \in BOOLEAN
    OBVIOUS
  <2> HIDE DEF f
  <2> QED
    BY <2>1, <2>2 DEF RunOK, Run
<1>4. thread' = AtLoop(t, r) /\ runs' = [runs EXCEPT ![r] = run]
  BY DEF ToolFailsToStart
<1> HIDE DEF t, run
<1>5. Good
  <2>1. AtLoop(t, r) \in Thread /\ AtLoop(t, r).stream = StreamAt(r, "prep")
    BY <1>2, AtLoopType
  <2> QED
    BY <1>3, <1>4, <2>1, RunMoves
<1>6. Rest
  BY <1>1 DEF Rest, ToolFailsToStart, IInv, TypeOK, Run
<1> QED
  BY <1>5, <1>6, StepKeepsIInv, TurnsKept DEF ToolFailsToStart

LEMMA ToolStartedGood ==
  ASSUME IInv, NEW r \in Runs, ToolStarted(r)
  PROVE  IInv'
<1> DEFINE run == [runs[r] EXCEPT !.pc = "toolResult",
                     !.interrupted = runs[r].stopPending, !.stopPending = FALSE]
<1>1. runs[r].pc = "callTool" /\ runs[r] \in Run /\ RunOK(runs[r])
      /\ thread \in Thread /\ ~runs[r].interruptedWhenIdle
  BY IInvFacts DEF ToolStarted
<1>2. RunOK(run) /\ run.pc = "toolResult"
  BY <1>1 DEF RunOK, Run, PCs
<1>3. runs' = [runs EXCEPT ![r] = run]
  BY <1>1 DEF ToolStarted, IInv, TypeOK, Run
<1> HIDE DEF run
<1>4. runs' \in [Runs -> Run] /\ \A s \in Runs : RunOK(runs'[s])
  BY <1>2, <1>3 DEF IInv, TypeOK, RunOK
<1>5. Good
  <2>1. CASE runs[r].stopPending
    <3>1. thread' = SetStream(thread, NotRunning(FALSE))
      BY <2>1 DEF ToolStarted
    <3> QED
      BY <1>1, <1>4, <3>1, NotRunningType, QuietGood
  <2>2. CASE ~runs[r].stopPending
    <3>1. thread' = thread
      BY <2>2 DEF ToolStarted
    <3>2. Shows(thread.stream, runs')
      <4>1. CASE thread.stream \in Still
        BY <4>1 DEF Shows
      <4>2. CASE \E s \in Runs : runs[s].pc # "off"
                                 /\ thread.stream = StreamAt(s, runs[s].pc)
        <5>1. PICK s \in Runs : runs[s].pc # "off"
                                /\ thread.stream = StreamAt(s, runs[s].pc)
          BY <4>2
        <5>2. CASE s = r
          <6>1. runs'[r].pc = "toolResult"
            BY <1>2, <1>3 DEF IInv, TypeOK
          <6>2. StreamAt(r, "toolResult") = StreamAt(r, "callTool")
            BY DEF StreamAt
          <6> QED
            BY <1>1, <5>1, <5>2, <6>1, <6>2 DEF Shows
        <5>3. CASE s # r
          <6>1. runs'[s] = runs[s]
            BY <1>3, <5>3 DEF IInv, TypeOK
          <6> QED
            BY <5>1, <6>1 DEF Shows
        <5> QED
          BY <5>2, <5>3
      <4> QED
        BY <4>1, <4>2 DEF IInv, Shows
    <3> QED
      BY <1>1, <1>4, <3>1, <3>2 DEF Good
  <2> QED
    BY <2>1, <2>2
<1>6. Rest
  BY DEF Rest, ToolStarted, IInv, TypeOK
<1> QED
  BY <1>5, <1>6, StepKeepsIInv, TurnsKept DEF ToolStarted

LEMMA RunStepGood ==
  ASSUME IInv, NEW r \in Runs, RunStep(r)
  PROVE  IInv'
BY PreparedGood, PrepareFailsGood, SupersededGood, LLMErrorGood, CompactedGood, RetryElapsedGood,
   LLMFinalGood, ValidatedGood, ToolStartedGood, ToolFailsToStartGood,
   ToolResultGood, McpResultGood DEF RunStep

-----------------------------------------------------------------------------
\* The steps of messages and of the user keep the invariant

\* Steps that leave the runs alone.
LEMMA RunsKept ==
  ASSUME IInv, thread' \in Thread, SameStream(thread', thread), UNCHANGED runs
  PROVE  Good
<1>1. Shows(thread'.stream, runs')
  BY ShowsSame DEF IInv
<1> QED
  BY <1>1 DEF Good, IInv, TypeOK

LEMMA QuietStep ==
  ASSUME IInv, thread' \in Thread, thread'.stream \in Quiet, UNCHANGED runs
  PROVE  Good
BY QuietGood DEF IInv, TypeOK

LEMMA IntervenesOK ==
  ASSUME IInv, NEW op, Intervene(op)
  PROVE  interventions' \in 0 .. MaxInterventions
BY ChatAssumption DEF Intervene, IInv, TypeOK

LEMMA StageType ==
  ASSUME IInv, NEW u \in Users, NEW stage \in Stages
  PROVE  SetStage(u, stage) \in [Users -> Call]
BY DEF SetStage, IInv, TypeOK, Call

LEMMA SubmitGood ==
  ASSUME IInv, NEW u \in Users, Submit(u)
  PROVE  IInv'
<1>1. Good
  BY RunsKept DEF Submit, SameStream, IInv, TypeOK
<1>2. Rest
  <2>1. CASE Running(thread)
    <3>1. call' \in [Users -> Call]
      <4>1. call' = [call EXCEPT ![u].stage = "queued", ![u].viaQueue = TRUE]
        BY <2>1 DEF Submit
      <4> QED
        BY <4>1 DEF IInv, TypeOK, Call, Stages
    <3>2. queue' \in Seq(Users)
      <4>1. queue' = Append(queue, u) /\ queue \in Seq(Users)
        BY <2>1 DEF Submit, Enqueue, IInv, TypeOK
      <4> QED
        BY <4>1
    <3> QED
      BY <2>1, <3>1, <3>2 DEF Submit, Rest, IInv, TypeOK
  <2>2. CASE ~Running(thread)
    <3> DEFINE base == IF thread.currCheckpointIdx = 0 THEN NoBase
                       ELSE [messages |-> thread.messages,
                             currCheckpointIdx |-> thread.currCheckpointIdx]
    <3>1. base \in Snapshot
      BY DEF Snapshot, NoBase, IInv, TypeOK, Thread
    <3>2. call' = [call EXCEPT ![u].stage = "select", ![u].base = base]
      BY <2>2 DEF Submit
    <3> HIDE DEF base
    <3>3. call' \in [Users -> Call]
      BY <3>1, <3>2 DEF IInv, TypeOK, Call, Stages
    <3> QED
      BY <2>2, <3>3 DEF Submit, Rest, IInv, TypeOK
  <2> QED
    BY <2>1, <2>2
<1> QED
  BY <1>1, <1>2, StepKeepsIInv, TurnsKept DEF Submit

LEMMA ResumeGood ==
  ASSUME IInv, NEW u \in Users, Resume(u)
  PROVE  IInv'
<1>1. thread' \in Thread /\ SameStream(thread', thread)
  BY EnterContentType DEF Resume, IInv, TypeOK
<1>2. Rest
  BY StageType DEF Resume, Rest, IInv, TypeOK, Stages
<1> QED
  BY <1>1, <1>2, RunsKept, StepKeepsIInv, TurnsKept DEF Resume

LEMMA RemoveQueuedGood ==
  ASSUME IInv, NEW i \in 1 .. Len(queue), RemoveQueued(i)
  PROVE  IInv'
<1>1. queue[i] \in Users /\ RemoveAt(queue, i) \in Seq(Users)
  <2>1. queue \in Seq(Users)
    BY DEF IInv, TypeOK
  <2>2. SubSeq(queue, 1, i - 1) \in Seq(Users)
    BY <2>1
  <2>3. SubSeq(queue, i + 1, Len(queue)) \in Seq(Users)
    BY <2>1
  <2> QED
    BY <2>1, <2>2, <2>3 DEF RemoveAt
<1>2. Rest
  BY <1>1, StageType, IntervenesOK DEF RemoveQueued, Rest, IInv, TypeOK, Stages
<1>3. Good
  BY RunsKept DEF RemoveQueued, SameStream, IInv, TypeOK
<1> QED
  BY <1>2, <1>3, StepKeepsIInv, TurnsKept DEF RemoveQueued

LEMMA SelectDoneShows ==
  ASSUME IInv, NEW u \in Users, SelectDone(u)
  PROVE  thread' \in Thread /\ SameStream(thread', thread)
<1> DEFINE base == call[u].base
           t0 == [thread EXCEPT !.currCheckpointIdx = base.currCheckpointIdx]
           t1 == Refresh(Store(t0, UpToCheckpoint(base)))
           t == IF base.currCheckpointIdx = 0 THEN thread ELSE t1
<1>1. base.messages \in Seq(Message) /\ base.currCheckpointIdx \in Nat
      /\ thread \in Thread
  BY DEF IInv, TypeOK, Call, Snapshot
<1>2. UpToCheckpoint(base) \in Seq(Message)
  BY <1>1, UpToCheckpointType
<1>3. t0 \in Thread /\ t0.stream = thread.stream
  BY <1>1 DEF Thread
<1>4. /\ Store(t0, UpToCheckpoint(base)) \in Thread
      /\ Store(t0, UpToCheckpoint(base)).stream = thread.stream
  BY <1>2, <1>3, StoreType
<1>5. t1 \in Thread /\ SameStream(t1, thread)
  BY <1>4, RefreshType DEF SameStream, Running
<1>6. t \in Thread /\ SameStream(t, thread)
  BY <1>1, <1>5 DEF SameStream
<1>7. thread' = EnterContent(t)
  BY DEF SelectDone
<1> HIDE DEF t
<1>8. thread' \in Thread /\ SameStream(thread', t)
  BY <1>6, <1>7, EnterContentType
<1> QED
  BY <1>6, <1>8, SameStreamTrans

LEMMA SelectDoneGood ==
  ASSUME IInv, NEW u \in Users, SelectDone(u)
  PROVE  IInv'
<1>1. Good
  BY SelectDoneShows, RunsKept DEF SelectDone
<1>2. Rest
  <2>1. NoBase \in Snapshot
    BY DEF NoBase, Snapshot
  <2>2. call' \in [Users -> Call]
    BY <2>1 DEF SelectDone, IInv, TypeOK, Call, Stages
  <2> QED
    BY <2>2 DEF SelectDone, Rest, IInv, TypeOK
<1> QED
  BY <1>1, <1>2, StepKeepsIInv, TurnsKept DEF SelectDone

LEMMA ContentDoneGood ==
  ASSUME IInv, NEW u \in Users, NEW r \in Runs, ContentDone(u, r)
  PROVE  IInv'
<1> DEFINE t0 == AddMessage(thread, UserMsg(u))
           t1 == [t0 EXCEPT !.currCheckpointIdx = 0]
           t2 == AddUserCheckpoint(Refresh(t1))
<1>1. t0 \in Thread
  BY AddMessageType, MessageTypes DEF IInv, TypeOK
<1>2. t1 \in Thread
  BY <1>1 DEF Thread
<1>3. t2 \in Thread
  BY <1>2, RefreshType, AddUserCheckpointType
<1>4. thread' = AtLoop(t2, r) /\ runs' = [runs EXCEPT ![r] = Loop(Off)]
  BY DEF ContentDone
<1> HIDE DEF t2
<1>5. RunOK(Loop(Off)) /\ Loop(Off).pc = "prep"
  BY OffOK, LoopOK DEF RunOK, Off
<1>6. Good
  <2>1. AtLoop(t2, r) \in Thread /\ AtLoop(t2, r).stream = StreamAt(r, "prep")
    BY <1>3, AtLoopType
  <2> QED
    BY <1>4, <1>5, <2>1, RunMoves
<1>7. Rest
  BY StageType DEF ContentDone, Rest, IInv, TypeOK, Stages
<1> QED
  BY <1>6, <1>7, StepKeepsIInv, TurnsKept DEF ContentDone

LEMMA ContentFailsGood ==
  ASSUME IInv, NEW u \in Users, ContentFails(u)
  PROVE  IInv'
<1>1. Rest
  BY StageType DEF ContentFails, Rest, IInv, TypeOK, Stages
<1>2. Good
  BY RunsKept DEF ContentFails, SameStream, IInv, TypeOK
<1> QED
  BY <1>1, <1>2, StepKeepsIInv, TurnsKept DEF ContentFails

LEMMA ApproveGood ==
  ASSUME IInv, NEW r \in Runs, Approve(r)
  PROVE  IInv'
<1> DEFINE id == Last(thread.messages).id
           t == AddUserCheckpoint(thread)
           run == [Off EXCEPT !.pc = ToolPC(turns[id]), !.tool = id, !.first = TRUE]
<1>1. t \in Thread
  BY AddUserCheckpointType DEF IInv, TypeOK
<1>2. id \in Turns
  BY LastTool DEF Approve, MayApprove, EndsWithRequest, IInv, TypeOK, Thread
<1>3. /\ thread' = BeginTool(t, r, id, turns[id])
      /\ runs' = [runs EXCEPT ![r] = run]
  BY DEF Approve
<1>4. RunOK(run) /\ run.pc = ToolPC(turns[id])
  BY <1>2, ToolPCs, OffOK DEF RunOK, Off, Run
<1>5. ToolPC(turns[id]) # "off"
  BY ToolPCs
<1> HIDE DEF t, run, id
<1>6. Good
  <2>1. /\ BeginTool(t, r, id, turns[id]) \in Thread
        /\ BeginTool(t, r, id, turns[id]).stream = StreamAt(r, run.pc)
    BY <1>1, <1>2, <1>4, BeginToolType
  <2>2. run.pc # "off"
    BY <1>4, <1>5
  <2> QED
    BY <1>3, <1>4, <2>1, <2>2, RunMoves
<1>7. Rest
  BY DEF Approve, Rest, IInv, TypeOK
<1> QED
  BY <1>6, <1>7, StepKeepsIInv, TurnsKept DEF Approve

LEMMA MarkStoppedOK ==
  ASSUME IInv
  PROVE  /\ MarkStopped \in [Runs -> Run]
         /\ \A r \in Runs : RunOK(MarkStopped[r]) /\ MarkStopped[r].pc = runs[r].pc
BY DEF MarkStopped, IInv, TypeOK, RunOK, Run, Live

LEMMA RejectLatestType ==
  ASSUME NEW t \in Thread
  PROVE  /\ RejectLatest(t) \in Thread
         /\ RejectLatest(t).stream \in Quiet \/ RejectLatest(t) = t
<1>1. CASE EndsWithTool(t.messages)
  <2>1. Last(t.messages).id \in Turns
    BY <1>1, LastTool DEF Thread
  <2>2. UpdateLatestTool(t, ToolMsg("rejected", Last(t.messages).id)) \in Thread
    BY <2>1, UpdateLatestToolType, MessageTypes DEF ToolTypes
  <2> QED
    BY <1>1, <2>2, NotRunningType DEF RejectLatest
<1>2. CASE ~EndsWithTool(t.messages)
  BY <1>2 DEF RejectLatest
<1> QED
  BY <1>1, <1>2

LEMMA RejectQuiet ==
  ASSUME IInv, Reject
  PROVE  thread' \in Thread /\ thread'.stream \in Quiet
<1>1. thread \in Thread /\ EndsWithTool(thread.messages)
  BY DEF IInv, TypeOK, Reject
<1>2. Last(thread.messages).id \in Turns
  BY <1>1, LastTool DEF Thread
<1>3. UpdateLatestTool(thread, ToolMsg("rejected", Last(thread.messages).id))
        \in Thread
  BY <1>1, <1>2, UpdateLatestToolType, MessageTypes DEF ToolTypes
<1> QED
  BY <1>1, <1>3, NotRunningType DEF RejectLatest, Reject

LEMMA RejectGood ==
  ASSUME IInv, Reject
  PROVE  IInv'
<1>1. Good
  BY RejectQuiet, MarkStoppedOK, QuietGood DEF Reject
<1>2. Rest
  BY IntervenesOK DEF Reject, Rest, IInv, TypeOK
<1> QED
  BY <1>1, <1>2, StepKeepsIInv, TurnsKept DEF Reject

\* An abort up to its await shows what was shown before, or nothing.
LEMMA HaltType ==
  ASSUME IInv, NEW cut \in BOOLEAN
  PROVE  LET t == Halt(thread, cut) IN
         t \in Thread /\ (SameStream(t, thread) \/ t.stream \in Quiet)
<1> DEFINE t1 == AddMessage(thread, Assistant)
           ended == IF cut THEN AddMessage(t1, InterruptedTool) ELSE t1
           tool == UpdateLatestTool(thread,
                     ToolMsg("rejected", runs[thread.stream.owner].tool))
           h == CASE thread.stream.isRunning = "LLM" -> ended
                  [] thread.stream.isRunning = "tool" -> tool
                  [] thread.stream.isRunning = "awaiting_user" -> RejectLatest(thread)
                  [] OTHER -> thread
<1>1. thread \in Thread /\ Shows(thread.stream, runs)
  BY DEF IInv, TypeOK
<1>2. h \in Thread /\ (SameStream(h, thread) \/ h.stream \in Quiet)
  <2>1. CASE thread.stream.isRunning = "LLM"
    <3>1. h = ended
      BY <2>1
    <3> QED
      BY <1>1, <3>1, AssistantType
  <2>2. CASE thread.stream.isRunning = "tool"
    <3>1. PICK r \in Runs : runs[r].pc # "off" /\ thread.stream = StreamAt(r, runs[r].pc)
      BY <1>1, <2>2, StreamFacts DEF Shows, Still
    <3>2. runs[r].pc \in PCs
      BY DEF IInv, RunOK, Run
    <3>3. thread.stream.owner = r /\ runs[r].pc \in {"callTool", "toolResult", "mcp"}
      BY <2>2, <3>1, <3>2, StreamFacts
    <3>4. runs[thread.stream.owner].tool \in Turns
      BY <3>3 DEF IInv, RunOK
    <3>5. tool \in Thread /\ SameStream(tool, thread)
      BY <1>1, <3>4, UpdateLatestToolType, MessageTypes DEF ToolTypes
    <3>6. h = tool
      BY <2>2
    <3> QED
      BY <3>5, <3>6
  <2>3. CASE thread.stream.isRunning = "awaiting_user"
    <3>1. h = RejectLatest(thread)
      BY <2>3
    <3> QED
      BY <1>1, <3>1, RejectLatestType DEF SameStream
  <2>4. CASE thread.stream.isRunning \notin {"LLM", "tool", "awaiting_user"}
    <3>1. h = thread
      BY <2>4
    <3> QED
      BY <1>1, <3>1 DEF SameStream
  <2> QED
    BY <2>1, <2>2, <2>3, <2>4
<1>3. Halt(thread, cut) = AddUserCheckpoint(h)
  BY DEF Halt
<1> HIDE DEF h
<1>4. AddUserCheckpoint(h) \in Thread /\ SameStream(AddUserCheckpoint(h), h)
  BY <1>2, AddUserCheckpointType
<1> QED
  BY <1>2, <1>3, <1>4, QuietSame, SameStreamTrans

\* The interrupt of a state that shows a live run, or nothing.
LEMMA InterruptRunsOK ==
  ASSUME IInv, NEW s, Shows(s, runs), ~Unresolved(s)
  PROVE  /\ InterruptRuns(s) \in [Runs -> Run]
         /\ \A q \in Runs : RunOK(InterruptRuns(s)[q])
<1> DEFINE m == MarkStopped
<1>1. m \in [Runs -> Run] /\ \A q \in Runs : RunOK(m[q]) /\ m[q].pc = runs[q].pc
  BY MarkStoppedOK
<1>2. CASE s \in Still
  <2>1. s.interrupt = "none" \/ Left(s)
    BY <1>2, StreamFacts DEF Still
  <2>2. InterruptRuns(s) = m
    BY <2>1 DEF InterruptRuns
  <2> QED
    BY <1>1, <2>2
<1>3. CASE \E r \in Runs : runs[r].pc # "off" /\ s = StreamAt(r, runs[r].pc)
  <2>1. PICK r \in Runs : runs[r].pc # "off" /\ s = StreamAt(r, runs[r].pc)
    BY <1>3
  <2>2. runs[r].pc \in PCs
    BY DEF IInv, RunOK, Run
  <2>3. s.owner = r /\ ~Left(s)
    BY <2>1, <2>2, StreamFacts
  <2> HIDE DEF m
  <2>4. \A run : RunOK(run) =>
          /\ [m EXCEPT ![r] = run] \in [Runs -> Run]
          /\ \A q \in Runs : RunOK([m EXCEPT ![r] = run][q])
    BY <1>1 DEF RunOK
  <2>5. CASE s.interrupt = "idle"
    <3>1. runs[r].pc \in {"prep", "retry"}
      BY <2>1, <2>2, <2>5, StreamFacts
    <3>2. RunOK([m[r] EXCEPT !.interruptedWhenIdle = TRUE])
      BY <1>1, <3>1 DEF RunOK, Run
    <3>3. InterruptRuns(s) = [m EXCEPT ![r] = [m[r] EXCEPT !.interruptedWhenIdle = TRUE]]
      BY <1>1, <2>3, <2>5 DEF InterruptRuns, m
    <3> QED
      BY <2>4, <3>2, <3>3
  <2>6. CASE s.interrupt = "tool"
    <3>1. runs[r].pc = "toolResult"
      BY <2>1, <2>2, <2>3, <2>6, StreamFacts DEF Unresolved
    <3>2. RunOK([m[r] EXCEPT !.interrupted = TRUE])
      BY <1>1, <3>1 DEF RunOK, Run
    <3>3. InterruptRuns(s) = [m EXCEPT ![r] = [m[r] EXCEPT !.interrupted = TRUE]]
      BY <1>1, <2>3, <2>6 DEF InterruptRuns, m
    <3> QED
      BY <2>4, <3>2, <3>3
  <2>7. CASE s.interrupt \notin {"idle", "tool"}
    <3>1. InterruptRuns(s) \in {m, [m EXCEPT ![r] = Off]}
      BY <2>3, <2>7 DEF InterruptRuns, m
    <3> QED
      BY <1>1, <2>4, <3>1, OffOK
  <2> QED
    BY <2>5, <2>6, <2>7
<1> QED
  BY <1>2, <1>3 DEF Shows

LEMMA HaltShows ==
  ASSUME IInv, NEW cut \in BOOLEAN
  PROVE  Halt(thread, cut) \in Thread /\ Shows(Halt(thread, cut).stream, runs)
BY HaltType, ShowsSame DEF IInv, Shows, Still

LEMMA StopGood ==
  ASSUME IInv, NEW cut \in BOOLEAN, Stop(cut)
  PROVE  IInv'
<1> DEFINE t == Halt(thread, cut)
<1>1. t \in Thread /\ Shows(t.stream, runs)
  BY HaltShows
<1>2. CASE Unresolved(t.stream)
  <2>1. thread' = t /\ UNCHANGED paused
        /\ runs' = [MarkStopped EXCEPT ![t.stream.owner].stopPending = TRUE]
    BY <1>2 DEF Stop
  <2> HIDE DEF t
  <2>2. /\ runs' \in [Runs -> Run]
        /\ \A r \in Runs : RunOK(runs'[r]) /\ runs'[r].pc = runs[r].pc
    <3> DEFINE m == MarkStopped
    <3>1. m \in [Runs -> Run] /\ \A r \in Runs : RunOK(m[r]) /\ m[r].pc = runs[r].pc
      BY MarkStoppedOK
    <3> HIDE DEF m
    <3>2. ASSUME NEW r \in Runs
          PROVE  runs'[r] = m[r] \/ runs'[r] = [m[r] EXCEPT !.stopPending = TRUE]
      BY <2>1, <3>1 DEF m
    <3>3. \A run : RunOK(run) => LET q == [run EXCEPT !.stopPending = TRUE]
                                IN RunOK(q) /\ q.pc = run.pc
      BY DEF RunOK, Run
    <3>4. \A r \in Runs : RunOK(runs'[r]) /\ runs'[r].pc = runs[r].pc
      BY <3>1, <3>2, <3>3
    <3>5. DOMAIN runs' = Runs /\ runs' = [r \in Runs |-> runs'[r]]
      BY <2>1, <3>1 DEF m
    <3> QED
      BY <3>4, <3>5 DEF RunOK
  <2>3. Shows(thread'.stream, runs')
    BY <1>1, <2>1, <2>2 DEF Shows
  <2>4. Good
    BY <1>1, <2>1, <2>2, <2>3 DEF Good
  <2>5. Rest
    BY <2>1, IntervenesOK DEF Stop, Rest, IInv, TypeOK
  <2> QED
    BY <2>4, <2>5, StepKeepsIInv, TurnsKept DEF Stop
<1>3. CASE ~Unresolved(t.stream)
  <2>1. thread' = SetStream(t, NotRunning(FALSE)) /\ runs' = InterruptRuns(t.stream)
        /\ paused' = TRUE
    BY <1>3 DEF Stop
  <2> HIDE DEF t
  <2>2. thread' \in Thread /\ thread'.stream \in Quiet
    BY <1>1, <2>1, NotRunningType
  <2>3. Good
    BY <1>1, <1>3, <2>1, <2>2, InterruptRunsOK, QuietGood
  <2>4. Rest
    BY <2>1, IntervenesOK DEF Stop, Rest, IInv, TypeOK
  <2> QED
    BY <2>3, <2>4, StepKeepsIInv, TurnsKept DEF Stop
<1> QED
  BY <1>2, <1>3

LEMMA EditQuiet ==
  ASSUME IInv, NEW u \in Users, NEW i \in 1 .. Len(thread.messages),
         NEW cut \in BOOLEAN, Edit(u, i, cut)
  PROVE  thread' \in Thread /\ thread'.stream \in Quiet
<1> DEFINE t == Halt(thread, cut)
           halted == SetStream(t, NotRunning(FALSE))
           t1 == [halted EXCEPT !.messages = Slice(t.messages, i - 1)]
<1>1. t \in Thread
  BY HaltShows
<1>2. halted \in Thread /\ halted.stream \in Quiet
  BY <1>1, NotRunningType
<1>3. Slice(t.messages, i - 1) \in Seq(Message)
  <2>1. t.messages \in Seq(Message)
    BY <1>1 DEF Thread
  <2>2. i - 1 \in Nat
    OBVIOUS
  <2> QED
    BY <2>1, <2>2, SliceType
<1>4. t1 \in Thread /\ t1.stream = halted.stream
  BY <1>2, <1>3 DEF Thread
<1>5. thread' = EnterContent(Refresh(t1))
  BY DEF Edit
<1> HIDE DEF t, t1, halted
<1>6. Refresh(t1) \in Thread /\ Refresh(t1).stream \in Quiet
  <2>1. SameStream(Refresh(t1), t1)
    BY <1>4, RefreshType DEF SameStream
  <2> QED
    BY <1>2, <1>4, <2>1, RefreshType, QuietSame
<1> QED
  BY <1>5, <1>6, EnterContentType, QuietSame

LEMMA EditGood ==
  ASSUME IInv, NEW u \in Users, NEW i \in 1 .. Len(thread.messages),
         NEW cut \in BOOLEAN, Edit(u, i, cut)
  PROVE  IInv'
<1> DEFINE t == Halt(thread, cut)
<1>1. t \in Thread /\ Shows(t.stream, runs)
  BY HaltShows
<1>2. ~Unresolved(t.stream) /\ runs' = InterruptRuns(t.stream) /\ paused' = TRUE
  BY DEF Edit
<1> HIDE DEF t
<1>3. Good
  BY <1>1, <1>2, EditQuiet, InterruptRunsOK, QuietGood
<1>4. Rest
  BY StageType, IntervenesOK DEF Edit, Rest, IInv, TypeOK, Stages
<1> QED
  BY <1>3, <1>4, StepKeepsIInv, TurnsKept DEF Edit

LEMMA JumpGood ==
  ASSUME IInv, NEW i \in 1 .. Len(thread.messages), Jump(i)
  PROVE  IInv'
<1>1. thread \in Thread /\ i \in Nat
  BY DEF IInv, TypeOK, Thread
<1>2. Good
  BY <1>1, JumpToType, RunsKept DEF Jump
<1>3. Rest
  BY IntervenesOK DEF Jump, Rest, IInv, TypeOK
<1> QED
  BY <1>2, <1>3, StepKeepsIInv, TurnsKept DEF Jump

LEMMA RevertShows ==
  ASSUME IInv, NEW i \in 1 .. Len(thread.messages), Revert(i)
  PROVE  thread' \in Thread /\ SameStream(thread', thread)
<1> DEFINE t == JumpTo(thread, i)
<1>1. thread \in Thread /\ i \in Nat
  BY DEF IInv, TypeOK, Thread
<1>2. t \in Thread /\ SameStream(t, thread)
  BY <1>1, JumpToType
<1>3. thread' = Refresh(Store(t, UpToCheckpoint(t)))
  BY DEF Revert
<1> HIDE DEF t
<1>4. UpToCheckpoint(t) \in Seq(Message)
  BY <1>2, UpToCheckpointType DEF Thread
<1>5. /\ Store(t, UpToCheckpoint(t)) \in Thread
      /\ Store(t, UpToCheckpoint(t)).stream = t.stream
  BY <1>2, <1>4, StoreType
<1>6. thread' \in Thread /\ SameStream(thread', t)
  BY <1>3, <1>5, RefreshType DEF SameStream, Running
<1> QED
  BY <1>2, <1>6, SameStreamTrans

LEMMA RevertGood ==
  ASSUME IInv, NEW i \in 1 .. Len(thread.messages), Revert(i)
  PROVE  IInv'
<1>1. Good
  BY RevertShows, RunsKept DEF Revert
<1>2. Rest
  BY IntervenesOK DEF Revert, Rest, IInv, TypeOK
<1> QED
  BY <1>1, <1>2, StepKeepsIInv, TurnsKept DEF Revert

LEMMA DismissErrorGood ==
  ASSUME IInv, DismissError
  PROVE  IInv'
<1>1. Good
  BY NotRunningType, QuietStep DEF DismissError, IInv, TypeOK
<1>2. Rest
  BY IntervenesOK DEF DismissError, Rest, IInv, TypeOK
<1> QED
  BY <1>1, <1>2, StepKeepsIInv, TurnsKept DEF DismissError

LEMMA TouchThreadGood ==
  ASSUME IInv, TouchThread
  PROVE  IInv'
<1>1. thread' \in Thread /\ SameStream(thread', thread)
  BY RefreshType DEF TouchThread, SameStream, IInv, TypeOK
<1>2. Good
  BY <1>1, RunsKept DEF TouchThread
<1>3. Rest
  BY DEF TouchThread, Rest, IInv, TypeOK
<1> QED
  BY <1>2, <1>3, StepKeepsIInv, TurnsKept DEF TouchThread

LEMMA RestartQuiet ==
  ASSUME IInv, Restart
  PROVE  thread' \in Thread /\ thread'.stream \in Quiet
<1> DEFINE t == [thread EXCEPT !.messages = thread.disk.messages,
                               !.currCheckpointIdx = thread.disk.currCheckpointIdx,
                               !.stream = NotRunning(FALSE)]
<1>1. t \in Thread /\ t.stream \in Quiet
  BY StreamTypes DEF IInv, TypeOK, Thread, Snapshot, Quiet
<1>2. thread' = Refresh(t)
  BY DEF Restart
<1> HIDE DEF t
<1>3. SameStream(Refresh(t), t)
  BY <1>1, RefreshType DEF SameStream
<1> QED
  BY <1>1, <1>2, <1>3, RefreshType, QuietSame

LEMMA RestartGood ==
  ASSUME IInv, Restart
  PROVE  IInv'
<1>1. runs' \in [Runs -> Run] /\ \A r \in Runs : RunOK(runs'[r])
  BY OffOK DEF Restart, RunOK
<1>2. Good
  BY <1>1, RestartQuiet, QuietGood
<1>3. Rest
  <2>1. NoBase \in Snapshot
    BY DEF NoBase, Snapshot
  <2>2. call' \in [Users -> Call]
    <3>1. call' = [u \in Users |->
            IF Waiting(u) \/ call[u].stage = "queued"
            THEN [call[u] EXCEPT !.stage = "lost", !.base = NoBase] ELSE call[u]]
      BY DEF Restart
    <3> QED
      BY <2>1, <3>1 DEF IInv, TypeOK, Call, Stages
  <2>3. queue' \in Seq(Users)
    <3>1. queue' = <<>>
      BY DEF Restart
    <3> QED
      BY <3>1
  <2>4. paused' \in BOOLEAN /\ interventions' \in 0 .. MaxInterventions
    BY IntervenesOK DEF Restart
  <2> QED
    BY <2>2, <2>3, <2>4 DEF Rest
<1> QED
  BY <1>2, <1>3, StepKeepsIInv, TurnsKept DEF Restart

LEMMA NextGood ==
  ASSUME IInv, Next
  PROVE  IInv'
<1>1. CASE \E r \in Runs : RunStep(r) \/ LLMText(r)
  BY <1>1, RunStepGood, LLMTextGood
<1>2. CASE \E u \in Users : CallStep(u)
  BY <1>2, SelectDoneGood, ContentFailsGood, ContentDoneGood DEF CallStep
<1>3. CASE UserStep
  BY <1>3, SubmitGood, ResumeGood, RemoveQueuedGood, ApproveGood, RejectGood,
     DismissErrorGood, TouchThreadGood, RestartGood, StopGood, JumpGood,
     RevertGood, EditGood DEF UserStep
<1> QED
  BY <1>1, <1>2, <1>3 DEF Next

LEMMA InitGood ==
  ASSUME Init
  PROVE  IInv
<1>1. NoBase \in Snapshot
  BY DEF NoBase, Snapshot
<1>2. thread \in Thread /\ thread.stream \in Quiet
  <2>1. NotRunning(FALSE) \in Stream
    BY StreamTypes
  <2>2. <<>> \in Seq(Message)
    OBVIOUS
  <2> QED
    BY <1>1, <2>1, <2>2 DEF Init, Thread, Quiet
<1>3. runs \in [Runs -> Run] /\ \A r \in Runs : RunOK(runs[r])
  BY OffOK DEF Init, RunOK
<1>4. call \in [Users -> Call]
  BY <1>1 DEF Init, Call, Stages
<1>5. TypeOK
  <2>1. queue \in Seq(Users)
    <3>1. queue = <<>>
      BY DEF Init
    <3> QED
      BY <3>1
  <2>2. turns \in Seq(Tools \cup {"handoff"}) /\ Len(turns) <= MaxTurns
    BY ChatAssumption DEF Init
  <2>3. interventions \in 0 .. MaxInterventions
    BY ChatAssumption DEF Init
  <2> QED
    BY <1>2, <1>3, <1>4, <2>1, <2>2, <2>3 DEF TypeOK, Init
<1> QED
  BY <1>2, <1>3, <1>5 DEF IInv, Shows, Still

-----------------------------------------------------------------------------
\* Theorems

\* The inductive invariant holds in every behaviour.
THEOREM Inductive == Spec => []IInv
<1>1. IInv /\ [Next]_vars => IInv'
  <2> SUFFICES ASSUME IInv, [Next]_vars PROVE IInv'
    OBVIOUS
  <2>1. CASE Next
    BY <2>1, NextGood
  <2>2. CASE UNCHANGED vars
    BY <2>2 DEF vars, IInv, TypeOK, Shows
  <2> QED
    BY <2>1, <2>2
<1> QED
  BY <1>1, InitGood, PTL DEF Spec

\* Every variable of the thread keeps its type, whatever the user and the
\* environment do and whatever runs overlap.
THEOREM TypeCorrect == Spec => []TypeOK
<1>1. IInv => TypeOK
  BY IInvImplies
<1> QED
  BY <1>1, Inductive, PTL

\* No run leaves its stream state behind when it returns, but one that the
\* preparation of a request made fail, and the interrupt the thread offers is that
\* of the run it shows.
THEOREM StreamOwnedAlways == Spec => []StreamOwned
<1>1. IInv => StreamOwned
  BY IInvImplies
<1> QED
  BY <1>1, Inductive, PTL

-----------------------------------------------------------------------------
\* An interrupt is final

\* A step of one run leaves the other runs alone.
LEMMA OtherRuns ==
  ASSUME IInv, NEW r \in Runs, RunStep(r), NEW q \in Runs, q # r
  PROVE  runs'[q] = runs[q]
<1>1. ASSUME NEW run, runs' = [runs EXCEPT ![r] = run]
      PROVE  runs'[q] = runs[q]
  BY <1>1 DEF IInv, TypeOK
<1>2. ASSUME NEW t, NEW run, Move(r, t, run)
      PROVE  runs'[q] = runs[q]
  BY <1>1, <1>2 DEF Move
<1>3. ASSUME NEW t, NEW p, Finish(r, t, p)
      PROVE  runs'[q] = runs[q]
  BY <1>1, <1>3 DEF Finish
<1>4. ASSUME NEW t, NEW id, NEW kind, RequestOrCall(r, t, id, kind)
      PROVE  runs'[q] = runs[q]
  BY <1>2, <1>3, <1>4 DEF RequestOrCall
<1>5. ASSUME NEW t, Continue(r, t)
      PROVE  runs'[q] = runs[q]
  BY <1>2, <1>5 DEF Continue
<1>6. ASSUME ToolAnswer(r)
      PROVE  runs'[q] = runs[q]
  BY <1>5, <1>6 DEF ToolAnswer
<1>7. ASSUME Send(r, runs[r])
      PROVE  runs'[q] = runs[q]
  BY <1>2, <1>7 DEF Send
<1>8. CASE Prepared(r)
  BY <1>3, <1>7, <1>8 DEF Prepared
<1>9. CASE Superseded(r)
  BY <1>3, <1>9 DEF Superseded
<1>10. CASE LLMError(r)
  BY <1>2, <1>3, <1>10 DEF LLMError
<1>11. CASE Compacted(r)
  BY <1>2, <1>11 DEF Compacted
<1>12. CASE RetryElapsed(r)
  BY <1>3, <1>7, <1>12 DEF RetryElapsed
<1>13. CASE LLMFinal(r)
  BY <1>2, <1>3, <1>4, <1>13 DEF LLMFinal
<1>14. CASE Validated(r)
  BY <1>4, <1>5, <1>14 DEF Validated
<1>15. CASE ToolStarted(r)
  BY <1>15 DEF ToolStarted, IInv, TypeOK
<1>16. CASE ToolFailsToStart(r)
  BY <1>16 DEF ToolFailsToStart, IInv, TypeOK
<1>17. CASE ToolResult(r)
  BY <1>2, <1>3, <1>6, <1>17 DEF ToolResult
<1>18. CASE McpResult(r)
  BY <1>6, <1>18 DEF McpResult
<1>19. CASE PrepareFails(r)
  BY <1>1, <1>19 DEF PrepareFails
<1> QED
  BY <1>8, <1>9, <1>10, <1>11, <1>12, <1>13, <1>14, <1>15, <1>16, <1>17, <1>18,
     <1>19 DEF RunStep

LEMMA StopsAt ==
  ASSUME IInv, NEW s, NEW q \in Runs
  PROVE  /\ MarkStopped[q].pc = runs[q].pc
         /\ InterruptRuns(s)[q].pc \in {"off", runs[q].pc}
<1> DEFINE m == MarkStopped
<1>1. m \in [Runs -> Run] /\ m[q].pc = runs[q].pc /\ m[q] \in Run
  BY MarkStoppedOK
<1>2. \A o : /\ [m EXCEPT ![o].interruptedWhenIdle = TRUE][q].pc = m[q].pc
             /\ [m EXCEPT ![o].interrupted = TRUE][q].pc = m[q].pc
             /\ [m EXCEPT ![o] = Off][q].pc \in {"off", m[q].pc}
  <2> HIDE DEF m
  <2> QED
    BY <1>1 DEF Run, Off
<1>3. InterruptRuns(s) \in {m, [m EXCEPT ![s.owner].interruptedWhenIdle = TRUE],
                            [m EXCEPT ![s.owner].interrupted = TRUE],
                            [m EXCEPT ![s.owner] = Off]}
  BY DEF InterruptRuns
<1> HIDE DEF m
<1>4. InterruptRuns(s)[q].pc \in {"off", m[q].pc}
  BY <1>2, <1>3
<1> QED
  BY <1>1, <1>4 DEF m

\* What the step of an interrupted run may be.
Interrupted(q) ==
  runs[q].interruptedWhenIdle \/ (runs[q].interrupted /\ ~runs[q].first)

LEMMA InterruptedEnds ==
  ASSUME IInv, Next, NEW q \in Runs, Interrupted(q)
  PROVE  runs'[q].pc \in {"off", runs[q].pc}
<1>1. \/ runs[q].pc \in {"prep", "retry"} /\ runs[q].interruptedWhenIdle
      \/ runs[q].pc = "toolResult" /\ runs[q].interrupted /\ ~runs[q].first
  BY DEF Interrupted, IInv, RunOK
<1>2. ASSUME NEW t, NEW p, Finish(q, t, p)
      PROVE  runs'[q].pc = "off"
  BY <1>2 DEF Finish, Off, IInv, TypeOK
<1>3. ASSUME NEW r \in Runs, RunStep(r)
      PROVE  runs'[q].pc \in {"off", runs[q].pc}
  <2>1. CASE r # q
    BY <1>3, <2>1, OtherRuns
  <2>2. CASE r = q
    <3>1. CASE runs[q].pc = "prep"
      <4>1. Prepared(q) \/ PrepareFails(q)
        BY <1>3, <2>2, <3>1 DEF RunStep, Superseded, LLMError, Compacted,
           RetryElapsed, LLMFinal, Validated, ToolStarted, ToolFailsToStart,
           ToolResult, McpResult
      <4> QED
        <5>1. CASE Prepared(q)
          BY <1>1, <1>2, <3>1, <5>1 DEF Prepared, IdleInterrupted
        <5>2. CASE PrepareFails(q)
          BY <5>2 DEF PrepareFails, Off, IInv, TypeOK
        <5> QED
          BY <4>1, <5>1, <5>2
    <3>2. CASE runs[q].pc = "retry"
      <4>1. RetryElapsed(q)
        BY <1>3, <2>2, <3>2 DEF RunStep, Superseded, LLMError, Compacted,
           Prepared, PrepareFails, LLMFinal, Validated, ToolStarted,
           ToolFailsToStart, ToolResult, McpResult
      <4> QED
        BY <1>1, <1>2, <3>2, <4>1 DEF RetryElapsed, IdleInterrupted
    <3>3. CASE runs[q].pc = "toolResult"
      <4>1. ToolResult(q)
        BY <1>3, <2>2, <3>3 DEF RunStep, Superseded, LLMError, Compacted,
           Prepared, PrepareFails, LLMFinal, Validated, ToolStarted,
           ToolFailsToStart, RetryElapsed, McpResult
      <4> QED
        BY <1>1, <1>2, <3>3, <4>1 DEF ToolResult
    <3> QED
      BY <1>1, <3>1, <3>2, <3>3
  <2> QED
    BY <2>1, <2>2
<1>4. ASSUME NEW r \in Runs, ~Live(r), NEW run, runs' = [runs EXCEPT ![r] = run]
      PROVE  runs'[q].pc = runs[q].pc
  BY <1>1, <1>4 DEF Live, IInv, TypeOK
<1>5. CASE \E r \in Runs : RunStep(r) \/ LLMText(r)
  BY <1>3, <1>5 DEF LLMText
<1>6. CASE \E u \in Users : CallStep(u)
  BY <1>4, <1>6 DEF CallStep, SelectDone, ContentFails, ContentDone
<1>7. CASE \E r \in Runs : Approve(r)
  BY <1>4, <1>7 DEF Approve
<1>8. CASE Reject
  BY <1>8, StopsAt DEF Reject
<1>9. ASSUME NEW cut \in BOOLEAN, Stop(cut)
      PROVE  runs'[q].pc \in {"off", runs[q].pc}
  <2> DEFINE s == Halt(thread, cut).stream
  <2>1. CASE Unresolved(s)
    <3>1. runs' = [MarkStopped EXCEPT ![s.owner].stopPending = TRUE]
      BY <1>9, <2>1 DEF Stop
    <3> HIDE DEF s
    <3>2. MarkStopped \in [Runs -> Run] /\ MarkStopped[q] \in Run
      BY MarkStoppedOK
    <3>3. runs'[q].pc = MarkStopped[q].pc
      BY <3>1, <3>2 DEF Run
    <3> QED
      BY <3>3, StopsAt
  <2>2. CASE ~Unresolved(s)
    <3>1. runs' = InterruptRuns(s)
      BY <1>9, <2>2 DEF Stop
    <3> QED
      BY <3>1, StopsAt
  <2> QED
    BY <2>1, <2>2
<1>10. ASSUME NEW u \in Users, NEW i, NEW cut, Edit(u, i, cut)
       PROVE  runs'[q].pc \in {"off", runs[q].pc}
  BY <1>10, StopsAt DEF Edit
<1>11. CASE Restart
  BY <1>11 DEF Restart, Off
<1>12. CASE \/ \E u \in Users : Submit(u) \/ Resume(u)
            \/ \E i \in 1 .. Len(queue) : RemoveQueued(i)
            \/ DismissError \/ TouchThread
            \/ \E i \in 1 .. Len(thread.messages) : Jump(i) \/ Revert(i)
  BY <1>12 DEF Submit, Resume, RemoveQueued, DismissError, TouchThread, Jump, Revert
<1> QED
  BY <1>5, <1>6, <1>7, <1>8, <1>9, <1>10, <1>11, <1>12 DEF Next, UserStep

\* A run whose idle wait, or whose tool, was interrupted does nothing more than
\* return, whichever run or user acts in between.
THEOREM InterruptFinal == Spec => InterruptIsFinal
<1>1. IInv /\ [Next]_vars =>
        [\A r \in Runs :
           runs[r].interruptedWhenIdle \/ (runs[r].interrupted /\ ~runs[r].first)
             => runs'[r].pc \in {"off", runs[r].pc}]_vars
  BY InterruptedEnds DEF Interrupted
<1> QED
  BY <1>1, Inductive, PTL DEF Spec, InterruptIsFinal

-----------------------------------------------------------------------------
\* Queued messages are attended

\* The queue holds messages that are queued, each once.
QueueOK ==
  \A i, j \in 1 .. Len(queue) :
    call[queue[i]].stage = "queued" /\ (queue[i] = queue[j] => i = j)

\* A step after which the thread shows the run r, or nothing and is paused, or
\* that leaves the thread as it was.
KeepsShowing(r) ==
  \/ \E x : \E pc \in PCs : thread' = SetStream(x, StreamAt(r, pc))
  \/ paused' = TRUE /\ thread' = SetStream(thread, NotRunning(FALSE))
  \/ UNCHANGED <<thread, paused>>

\* A run that takes a step goes on, or returns, or its preparation fails.
LEMMA GoesOnOrReturns ==
  ASSUME IInv, NEW r \in Runs, RunStep(r)
  PROVE  \/ /\ runs'[r].pc # "off"
            /\ UNCHANGED <<call, queue>>
            /\ KeepsShowing(r)
         \/ \E t, p : Finish(r, t, p)
         \/ PrepareFails(r)
<1> DEFINE Goes == runs'[r].pc # "off" /\ UNCHANGED <<call, queue>> /\ KeepsShowing(r)
           Returns == \E t, p : Finish(r, t, p)
<1>1. runs[r] \in Run
  BY DEF IInv, TypeOK
<1>2. ASSUME NEW x, NEW pc \in PCs, NEW run, run.pc # "off",
             Move(r, SetStream(x, StreamAt(r, pc)), run)
      PROVE  Goes
  BY <1>2 DEF Move, KeepsShowing, IInv, TypeOK
<1>20. ASSUME NEW x, NEW run, run.pc # "off", Move(r, AtLoop(x, r), run)
      PROVE  Goes
  <2>1. "prep" \in PCs
    BY DEF PCs
  <2> QED
    BY <1>2, <1>20, <2>1 DEF AtLoop
<1>3. Loop(runs[r]).pc # "off" /\ \A f : [Loop(runs[r]) EXCEPT !.force = f].pc # "off"
  BY <1>1 DEF Loop, Run
<1>4. ASSUME NEW t, NEW id, NEW kind, RequestOrCall(r, t, id, kind)
      PROVE  Goes \/ Returns
  <2>1. [runs[r] EXCEPT !.pc = ToolPC(kind), !.tool = id].pc # "off"
    BY <1>1, ToolPCs DEF Run
  <2> QED
    BY <1>2, <1>4, <2>1, ToolPCs DEF RequestOrCall, BeginTool
<1>5. ASSUME NEW t, Continue(r, t)
      PROVE  Goes
  BY <1>3, <1>5, <1>20 DEF Continue
<1>6. ASSUME ToolAnswer(r)
      PROVE  Goes
  BY <1>5, <1>6 DEF ToolAnswer
<1>7. ASSUME Send(r, runs[r])
      PROVE  Goes
  <2>1. [runs[r] EXCEPT !.pc = "llm", !.attempts = @ + 1].pc # "off"
    BY <1>1 DEF Run
  <2> QED
    BY <1>2, <1>7, <2>1 DEF Send, PCs
<1>8. \A pc : [runs[r] EXCEPT !.pc = pc].pc = pc
  BY <1>1 DEF Run
<1>9. CASE Prepared(r)
  BY <1>7, <1>9 DEF Prepared
<1>10. CASE Superseded(r)
  BY <1>10 DEF Superseded
<1>11. CASE LLMError(r)
  <2>1. CASE Move(r, SetStream(thread, StreamAt(r, "retry")),
                  [runs[r] EXCEPT !.pc = "retry"])
    BY <1>2, <1>8, <2>1 DEF PCs
  <2>2. CASE Move(r, thread, [runs[r] EXCEPT !.pc = "compact"])
    BY <1>8, <2>2 DEF Move, KeepsShowing, IInv, TypeOK
  <2> QED
    BY <1>11, <2>1, <2>2 DEF LLMError
<1>12. CASE Compacted(r)
  BY <1>2, <1>8, <1>12 DEF Compacted, PCs
<1>13. CASE RetryElapsed(r)
  BY <1>7, <1>13 DEF RetryElapsed
<1>14. CASE LLMFinal(r)
  <2>1. \A id : [runs[r] EXCEPT !.pc = "validate", !.tool = id].pc # "off"
    BY <1>1 DEF Run
  <2> QED
    BY <1>2, <1>3, <1>4, <1>14, <1>20, <2>1 DEF LLMFinal, PCs
<1>15. CASE Validated(r)
  BY <1>4, <1>5, <1>15 DEF Validated
<1>16. CASE ToolStarted(r)
  BY <1>1, <1>16 DEF ToolStarted, KeepsShowing, IInv, TypeOK, Run
<1>17. CASE ToolFailsToStart(r)
  <2> DEFINE f == Loop(runs[r]).force
                    \/ (turns[runs[r].tool] = "create" /\ ~runs[r].first)
  <2>1. [Loop(runs[r]) EXCEPT !.stopPending = FALSE, !.force = f].pc # "off"
    BY <1>1 DEF Loop, Run
  <2>2. runs' = [runs EXCEPT ![r] =
                   [Loop(runs[r]) EXCEPT !.stopPending = FALSE, !.force = f]]
    BY <1>17 DEF ToolFailsToStart
  <2> HIDE DEF f
  <2> QED
    BY <1>17, <2>1, <2>2
       DEF ToolFailsToStart, KeepsShowing, AtLoop, PCs, IInv, TypeOK
<1>18. CASE ToolResult(r)
  BY <1>3, <1>6, <1>18, <1>20 DEF ToolResult
<1>19. CASE McpResult(r)
  BY <1>6, <1>19 DEF McpResult
<1> QED
  BY <1>9, <1>10, <1>11, <1>12, <1>13, <1>14, <1>15, <1>16, <1>17, <1>18, <1>19
     DEF RunStep

LEMMA StageOf ==
  ASSUME IInv, NEW u \in Users, NEW stage
  PROVE  /\ SetStage(u, stage)[u].stage = stage
         /\ \A v \in Users : v # u => SetStage(u, stage)[v] = call[v]
BY DEF SetStage, IInv, TypeOK, Call

\* Changing the stage of a message that is not queued.
LEMMA QueueOKStage ==
  ASSUME IInv, QueueOK, NEW u \in Users, call[u].stage # "queued", UNCHANGED queue,
         \A v \in Users : v # u => call'[v].stage = call[v].stage
  PROVE  QueueOK'
BY DEF QueueOK, IInv, TypeOK

LEMMA QueueOKShorter ==
  ASSUME IInv, QueueOK, NEW k \in 1 .. Len(queue), queue' = RemoveAt(queue, k),
         \A v \in Users : v # queue[k] => call'[v] = call[v]
  PROVE  QueueOK'
<1>1. queue \in Seq(Users) /\ k \in Nat /\ Len(queue) \in Nat
  BY DEF IInv, TypeOK
<1>2. /\ Len(queue') = Len(queue) - 1
      /\ \A i \in 1 .. Len(queue') : queue'[i] = IF i < k THEN queue[i] ELSE queue[i + 1]
  <2> DEFINE A == SubSeq(queue, 1, k - 1)
             B == SubSeq(queue, k + 1, Len(queue))
  <2>1. /\ A \in Seq(Users) /\ Len(A) = k - 1
        /\ \A i \in 1 .. k - 1 : A[i] = queue[i]
    BY <1>1
  <2>2. /\ B \in Seq(Users) /\ Len(B) = Len(queue) - k
        /\ \A i \in 1 .. Len(queue) - k : B[i] = queue[i + k]
    BY <1>1
  <2>3. queue' = A \o B
    BY DEF RemoveAt
  <2> HIDE DEF A, B
  <2>4. Len(queue') = Len(queue) - 1
    <3>1. Len(A \o B) = Len(A) + Len(B)
      <4>1. A \in Seq(Users) /\ B \in Seq(Users)
        BY <2>1, <2>2
      <4> QED
        BY <4>1, ConcatProperties
    <3>2. Len(A) + Len(B) = Len(queue) - 1
      BY <1>1, <2>1, <2>2
    <3> QED
      BY <2>3, <3>1, <3>2
  <2>5. ASSUME NEW i \in 1 .. Len(queue) - 1
        PROVE  queue'[i] = IF i < k THEN queue[i] ELSE queue[i + 1]
    <3>1. CASE i < k
      BY <1>1, <2>1, <2>2, <2>3, <3>1
    <3>2. CASE ~(i < k)
      <4>1. queue'[i] = B[i - (k - 1)]
        BY <1>1, <2>1, <2>2, <2>3, <3>2
      <4>2. i - (k - 1) \in 1 .. Len(queue) - k
        BY <1>1, <3>2
      <4>3. (i - (k - 1)) + k = i + 1
        BY <1>1
      <4> QED
        BY <2>2, <3>2, <4>1, <4>2, <4>3
    <3> QED
      BY <3>1, <3>2
  <2> QED
    BY <2>4, <2>5
<1> DEFINE old(i) == IF i < k THEN i ELSE i + 1
<1>3. \A i \in 1 .. Len(queue') :
        old(i) \in 1 .. Len(queue) /\ old(i) # k /\ queue'[i] = queue[old(i)]
  BY <1>1, <1>2
<1>4. \A i, j \in 1 .. Len(queue') : old(i) = old(j) => i = j
  BY <1>1, <1>2
<1>5. \A i \in 1 .. Len(queue') : call'[queue'[i]].stage = "queued"
  <2> HIDE DEF old
  <2> QED
    BY <1>1, <1>3 DEF QueueOK
<1>6. \A i, j \in 1 .. Len(queue') : queue'[i] = queue'[j] => i = j
  <2> HIDE DEF old
  <2> QED
    BY <1>3, <1>4 DEF QueueOK
<1> QED
  BY <1>5, <1>6 DEF QueueOK

\* The queue after a run has returned.
LEMMA QueueOKFinish ==
  ASSUME IInv, QueueOK, NEW r \in Runs, NEW t, NEW p, Finish(r, t, p)
  PROVE  QueueOK'
<1>1. CASE MayDrain(t, p)
  <2>1. queue \in Seq(Users) /\ queue # <<>> /\ 1 \in 1 .. Len(queue)
    BY <1>1 DEF MayDrain, IInv, TypeOK
  <2>2. Head(queue) = queue[1] /\ queue[1] \in Users
    BY <2>1
  <2>3. Tail(queue) = RemoveAt(queue, 1)
    BY <2>1 DEF RemoveAt
  <2>4. queue' = RemoveAt(queue, 1) /\ call' = SetStage(queue[1], "content")
    BY <1>1, <2>2, <2>3 DEF Finish
  <2>5. \A v \in Users : v # queue[1] => call'[v] = call[v]
    BY <2>2, <2>4, StageOf
  <2> QED
    BY <2>1, <2>4, <2>5, QueueOKShorter
<1>2. CASE ~MayDrain(t, p)
  BY <1>2 DEF Finish, QueueOK
<1> QED
  BY <1>1, <1>2

LEMMA QueueOKNext ==
  ASSUME IInv, QueueOK, Next
  PROVE  QueueOK'
<1>1. ASSUME UNCHANGED <<call, queue>>
      PROVE  QueueOK'
  BY <1>1 DEF QueueOK
<1>2. ASSUME NEW u \in Users, NEW stage, call[u].stage # "queued", UNCHANGED queue,
             call' = SetStage(u, stage)
      PROVE  QueueOK'
  <2>1. \A v \in Users : v # u => call'[v].stage = call[v].stage
    BY <1>2, StageOf
  <2> QED
    BY <1>2, <2>1, QueueOKStage
<1>3. CASE \E r \in Runs : RunStep(r) \/ LLMText(r)
  BY <1>1, <1>3, GoesOnOrReturns, QueueOKFinish DEF LLMText, PrepareFails
<1>4. ASSUME NEW u \in Users, Submit(u)
      PROVE  QueueOK'
  <2>1. call[u].stage = "unused"
    BY <1>4 DEF Submit, IsNext
  <2>2. CASE Running(thread)
    <3>1. queue' = Append(queue, u) /\ queue \in Seq(Users)
      BY <1>4, <2>2 DEF Submit, Enqueue, IInv, TypeOK
    <3>2. /\ call'[u].stage = "queued"
          /\ \A v \in Users : v # u => call'[v] = call[v]
      <4>1. call' = [call EXCEPT ![u].stage = "queued", ![u].viaQueue = TRUE]
        BY <1>4, <2>2 DEF Submit
      <4> QED
        BY <4>1 DEF IInv, TypeOK, Call
    <3>3. \A i \in 1 .. Len(queue) : queue[i] \in Users /\ queue[i] # u
      BY <2>1, <3>1 DEF QueueOK
    <3>4. /\ Len(queue') = Len(queue) + 1 /\ queue'[Len(queue) + 1] = u
          /\ \A i \in 1 .. Len(queue) : queue'[i] = queue[i]
      BY <3>1
    <3>5. Len(queue) \in Nat
      BY <3>1
    <3>6. \A i \in 1 .. Len(queue') :
            call'[queue'[i]].stage = "queued"
      BY <3>2, <3>3, <3>4, <3>5 DEF QueueOK
    <3>7. \A i, j \in 1 .. Len(queue') : queue'[i] = queue'[j] => i = j
      BY <3>3, <3>4, <3>5 DEF QueueOK
    <3> QED
      BY <3>6, <3>7 DEF QueueOK
  <2>3. CASE ~Running(thread)
    <3> DEFINE base == IF thread.currCheckpointIdx = 0 THEN NoBase
                       ELSE [messages |-> thread.messages,
                             currCheckpointIdx |-> thread.currCheckpointIdx]
    <3>1. call' = [call EXCEPT ![u].stage = "select", ![u].base = base]
          /\ UNCHANGED queue
      BY <1>4, <2>3 DEF Submit
    <3> HIDE DEF base
    <3>2. \A v \in Users : v # u => call'[v].stage = call[v].stage
      BY <3>1 DEF IInv, TypeOK
    <3> QED
      BY <2>1, <3>1, <3>2, QueueOKStage
  <2> QED
    BY <2>2, <2>3
<1>5. ASSUME NEW u \in Users, Resume(u)
      PROVE  QueueOK'
  BY <1>2, <1>5 DEF Resume, IsNext
<1>6. ASSUME NEW u \in Users, SelectDone(u)
      PROVE  QueueOK'
  <2>1. \A v \in Users : v # u => call'[v].stage = call[v].stage
    BY <1>6 DEF SelectDone, IInv, TypeOK
  <2> QED
    BY <1>6, <2>1, QueueOKStage DEF SelectDone
<1>7. ASSUME NEW u \in Users, ContentFails(u) \/ \E r \in Runs : ContentDone(u, r)
      PROVE  QueueOK'
  BY <1>2, <1>7 DEF ContentFails, ContentDone
<1>8. ASSUME NEW i \in 1 .. Len(queue), RemoveQueued(i)
      PROVE  QueueOK'
  <2>1. queue[i] \in Users
    BY DEF IInv, TypeOK
  <2>2. \A v \in Users : v # queue[i] => call'[v] = call[v]
    BY <1>8, <2>1, StageOf DEF RemoveQueued
  <2> QED
    BY <1>8, <2>2, QueueOKShorter DEF RemoveQueued
<1>9. ASSUME NEW u \in Users, NEW i, NEW cut, Edit(u, i, cut)
      PROVE  QueueOK'
  BY <1>2, <1>9 DEF Edit, IsNext
<1>10. CASE Restart
  <2>1. queue' = <<>>
    BY <1>10 DEF Restart
  <2> QED
    BY <2>1 DEF QueueOK
<1>11. CASE \/ \E r \in Runs : Approve(r)
            \/ Reject \/ DismissError \/ TouchThread
            \/ \E cut \in BOOLEAN : Stop(cut)
            \/ \E i \in 1 .. Len(thread.messages) : Jump(i) \/ Revert(i)
  BY <1>1, <1>11 DEF Approve, Reject, DismissError, TouchThread, Stop, Jump, Revert
<1> QED
  BY <1>3, <1>4, <1>5, <1>6, <1>7, <1>8, <1>9, <1>10, <1>11
     DEF Next, CallStep, UserStep

\* A thread with an error shows no activity.
LEMMA ErrorIsIdle ==
  ASSUME IInv, thread.stream.error
  PROVE  ~Running(thread)
<1>1. \A r \in Runs : \A pc : StreamAt(r, pc).error = FALSE
  BY DEF StreamAt, StreamOf
<1>2. thread.stream \in Still
  BY <1>1 DEF IInv, Shows
<1> QED
  BY <1>2 DEF Still, Quiet, LeftOver, StreamOf, NotRunning, AwaitingUser, Running

\* A state whose interrupt is that of a builtin tool shows activity.
LEMMA UnresolvedRuns ==
  ASSUME IInv, NEW t, Shows(t.stream, runs), Unresolved(t.stream)
  PROVE  Running(t)
<1>1. t.stream.interrupt = "tool"
  BY DEF Unresolved
<1>2. PICK r \in Runs : runs[r].pc # "off" /\ t.stream = StreamAt(r, runs[r].pc)
  BY <1>1, StreamFacts DEF Shows, Still
<1>3. runs[r].pc \in PCs
  BY DEF IInv, RunOK, Run
<1>4. t.stream.isRunning \in {"LLM", "tool", "idle"}
  BY <1>2, <1>3, StreamFacts
<1> QED
  BY <1>4 DEF Running

\* QueueAttended, strengthened to be inductive: a run that is not shown is not
\* counted on, since the failure of a preparation ends it without a look at the
\* queue.
Attended ==
  queue # <<>> => paused \/ Running(thread) \/ \E u \in Users : Waiting(u)

\* A thread whose stream state was set shows it.
LEMMA ShownBySetStream ==
  ASSUME NEW t, NEW s, SetStream(t, s) \in Thread
  PROVE  SetStream(t, s).stream = s
BY DEF SetStream, Thread

LEMMA AttendedNext ==
  ASSUME "content" \notin Faults, IInv, QueueOK, Attended, Next
  PROVE  Attended'
<1>1. ASSUME NEW r \in Runs, NEW x, NEW pc \in PCs,
             thread' = SetStream(x, StreamAt(r, pc))
      PROVE  Attended'
  <2>1. SetStream(x, StreamAt(r, pc)) \in Thread
    BY <1>1, NextGood DEF IInv, TypeOK
  <2>2. thread'.stream = StreamAt(r, pc)
    BY <1>1, <2>1, ShownBySetStream
  <2> QED
    BY <2>2, StreamFacts DEF Attended, Running
<1>2. ASSUME NEW u \in Users, call'[u].stage \in {"select", "content"}
      PROVE  Attended'
  BY <1>2 DEF Attended, Waiting
<1>3. ASSUME NEW r \in Runs, RunStep(r)
      PROVE  Attended'
  <2>1. CASE UNCHANGED <<call, queue>> /\ KeepsShowing(r)
    BY <1>1, <2>1 DEF KeepsShowing, Attended, Running, Waiting
  <2>2. ASSUME NEW t, NEW p, Finish(r, t, p)
        PROVE  Attended'
    <3>1. CASE MayDrain(t, p)
      <4>1. Head(queue) \in Users /\ call' = SetStage(Head(queue), "content")
        BY <2>2, <3>1 DEF Finish, MayDrain, IInv, TypeOK
      <4> QED
        BY <1>2, <4>1, StageOf
    <3>2. CASE ~MayDrain(t, p)
      BY <2>2, <3>2 DEF Finish, MayDrain, Attended
    <3> QED
      BY <3>1, <3>2
  <2>3. CASE PrepareFails(r)
    <3>1. thread'.stream.isRunning = thread.stream.isRunning
      BY <2>3 DEF PrepareFails, IInv, TypeOK, Thread, Stream
    <3> QED
      BY <2>3, <3>1 DEF PrepareFails, Attended, Running, Waiting
  <2> QED
    BY <1>3, <2>1, <2>2, <2>3, GoesOnOrReturns
<1>4. ASSUME NEW r \in Runs, LLMText(r)
      PROVE  Attended'
  BY <1>1, <1>4 DEF LLMText, PCs
<1>5. ASSUME NEW u \in Users, Submit(u)
      PROVE  Attended'
  <2>1. CASE Running(thread)
    BY <1>5, <2>1 DEF Submit, Attended, Running
  <2>2. CASE ~Running(thread)
    <3>1. call'[u].stage = "select"
      BY <1>5, <2>2 DEF Submit, IInv, TypeOK, Call
    <3> QED
      BY <1>2, <3>1
  <2> QED
    BY <2>1, <2>2
<1>6. ASSUME NEW u \in Users, SelectDone(u)
      PROVE  Attended'
  <2>1. call'[u].stage = "content"
    BY <1>6 DEF SelectDone, IInv, TypeOK, Call
  <2> QED
    BY <1>2, <2>1
<1>7. ASSUME NEW u \in Users, NEW r \in Runs, ContentDone(u, r)
      PROVE  Attended'
  BY <1>1, <1>7 DEF ContentDone, AtLoop, PCs
<1>8. ASSUME NEW u \in Users, ContentFails(u)
      PROVE  Attended'
  BY <1>8 DEF ContentFails
<1>9. ASSUME NEW u \in Users, Resume(u)
      PROVE  Attended'
  <2>1. call'[u].stage = "content"
    BY <1>9, StageOf DEF Resume
  <2> QED
    BY <1>2, <2>1
<1>10. ASSUME NEW i \in 1 .. Len(queue), RemoveQueued(i)
       PROVE  Attended'
  <2>1. queue[i] \in Users /\ queue # <<>> /\ call[queue[i]].stage = "queued"
    BY DEF QueueOK, IInv, TypeOK
  <2>2. \A v \in Users : Waiting(v) => Waiting(v)'
    BY <1>10, <2>1, StageOf DEF RemoveQueued, Waiting
  <2> QED
    BY <1>10, <2>1, <2>2 DEF RemoveQueued, Attended
<1>11. ASSUME NEW r \in Runs, Approve(r)
       PROVE  Attended'
  BY <1>1, <1>11, ToolPCs DEF Approve, BeginTool
<1>12. CASE Reject
  BY <1>12 DEF Reject, Attended
<1>13. ASSUME NEW cut \in BOOLEAN, Stop(cut)
       PROVE  Attended'
  <2> DEFINE t == Halt(thread, cut)
  <2>1. CASE Unresolved(t.stream)
    <3>1. thread' = t
      BY <1>13, <2>1 DEF Stop
    <3>2. Running(t)
      BY <2>1, HaltShows, UnresolvedRuns
    <3> HIDE DEF t
    <3> QED
      BY <3>1, <3>2 DEF Attended, Running
  <2>2. CASE ~Unresolved(t.stream)
    <3>1. paused' = TRUE
      BY <1>13, <2>2 DEF Stop
    <3> QED
      BY <3>1 DEF Attended
  <2> QED
    BY <2>1, <2>2
<1>14. ASSUME NEW u \in Users, NEW i, NEW cut, Edit(u, i, cut)
       PROVE  Attended'
  BY <1>14 DEF Edit, Attended
<1>15. CASE Restart
  BY <1>15 DEF Restart, Attended
<1>16. ASSUME ~Running(thread), UNCHANGED <<runs, call, queue, paused>>
       PROVE  Attended'
  BY <1>16 DEF Attended, Running, Waiting
<1>17. CASE DismissError
  BY <1>16, <1>17, ErrorIsIdle DEF DismissError
<1>18. ASSUME NEW i, Jump(i) \/ Revert(i)
       PROVE  Attended'
  BY <1>16, <1>18 DEF Jump, Revert
<1>19. CASE TouchThread
  <2>1. SameStream(thread', thread)
    BY <1>19, RefreshType DEF TouchThread, SameStream, IInv, TypeOK
  <2> QED
    BY <1>16, <1>19, <2>1 DEF TouchThread, SameStream, Attended, Running,
       Waiting
<1> QED
  BY <1>3, <1>4, <1>5, <1>6, <1>7, <1>8, <1>9, <1>10, <1>11, <1>12, <1>13, <1>14,
     <1>15, <1>17, <1>18, <1>19 DEF Next, CallStep, UserStep

\* Unless the content of a message cannot be read, queued messages are never
\* left behind in a thread that does nothing and offers nothing.
THEOREM QueueAttendedAlways ==
  ASSUME "content" \notin Faults
  PROVE  Spec => []QueueAttended
<1>1. Init => QueueOK /\ Attended
  BY DEF Init, QueueOK, Attended
<1>2. IInv /\ QueueOK /\ Attended /\ [Next]_vars => (QueueOK /\ Attended)'
  <2>1. ASSUME IInv, QueueOK, Attended, Next
        PROVE  (QueueOK /\ Attended)'
    BY <2>1, QueueOKNext, AttendedNext
  <2>2. ASSUME QueueOK, Attended, UNCHANGED vars
        PROVE  (QueueOK /\ Attended)'
    BY <2>2 DEF vars, QueueOK, Attended, Running, Waiting
  <2> QED
    BY <2>1, <2>2
<1>3. Attended => QueueAttended
  BY DEF Attended, QueueAttended
<1> QED
  BY <1>1, <1>2, <1>3, Inductive, PTL DEF Spec

-----------------------------------------------------------------------------
\* What a chat thread keeps when the user starts new work only on a settled
\* thread (Overlap = FALSE): one task at a time, an awaited request that is the
\* last message, tool calls that are carried out once and leave nothing running.

-----------------------------------------------------------------------------
\* Histories

CarriedTypes == {"running_now", "success", "tool_error"}
EndsWith(ms, type) == Len(ms) > 0 /\ ms[Len(ms)].type = type
IsCarried(m, id) == m.type \in CarriedTypes /\ m.id = id

\* A tool that runs is the last message.
RunningLast(ms) ==
  \A i \in 1 .. Len(ms) : ms[i].type = "running_now" => i = Len(ms)

\* No user message stands directly behind a request: cutting the history there
\* does not bring the request to its end.
UserApart(ms) ==
  \A i \in 1 .. Len(ms) :
    i > 1 /\ ms[i].role = "user" => ms[i - 1].type # "tool_request"

CarriedOnce(ms) ==
  \A i, j \in 1 .. Len(ms) :
    ms[i].type \in CarriedTypes /\ IsCarried(ms[j], ms[i].id) => i = j

\* The request at the end has not been carried out.
RequestOpen(ms) ==
  EndsWith(ms, "tool_request") =>
    \A i \in 1 .. Len(ms) : ~IsCarried(ms[i], ms[Len(ms)].id)

\* Tool call ids are those of the first n turns.
KnownIds(ms, n) == \A i \in 1 .. Len(ms) : ms[i].role = "tool" => ms[i].id <= n

\* The user does not stand on a request, and cutting the history where the user
\* stands does not bring one to its end.
StandsOK(ms, idx) ==
  /\ idx \in 1 .. Len(ms) => ms[idx].type # "tool_request"
  /\ idx > Len(ms) => ~EndsWith(ms, "tool_request")

SnapshotOK(s, n) ==
  /\ RunningLast(s.messages) /\ UserApart(s.messages) /\ CarriedOnce(s.messages)
  /\ RequestOpen(s.messages) /\ KnownIds(s.messages, n)
  /\ StandsOK(s.messages, s.currCheckpointIdx)

ThreadOK(t, n) == t \in Thread /\ SnapshotOK(t, n) /\ SnapshotOK(t.disk, n)

\* The messages of a tool have its types, and no others do.
LEMMA ToolMessages ==
  ASSUME NEW m \in Message
  PROVE  /\ m.role = "tool" <=> m.type \in ToolTypes
         /\ m.role = "tool" => m.id \in Turns
         /\ m.role = "user" => m.type = "sent"
         /\ m.id \in Int
BY DEF Message, ToolTypes, Turns, Users

\* What the module says of the end of a history.
LEMMA Ends ==
  ASSUME NEW ms \in Seq(Message)
  PROVE  /\ EndsWithRequest(ms) <=> EndsWith(ms, "tool_request")
         /\ EndsWithTool(ms) => Len(ms) > 0 /\ ms[Len(ms)].role = "tool"
         /\ EndsWith(ms, "running_now") => EndsWithTool(ms)
         /\ Len(ms) > 0 => Last(ms) = ms[Len(ms)] /\ ms[Len(ms)] \in Message
<1>1. Len(ms) \in Nat /\ (ms # <<>> <=> Len(ms) > 0)
  BY EmptySeq
<1>2. Len(ms) > 0 => Last(ms) = ms[Len(ms)] /\ ms[Len(ms)] \in Message
  BY <1>1 DEF Last
<1>3. Len(ms) > 0 /\ ms[Len(ms)].type \in {"tool_request", "running_now"} => ms[Len(ms)].role = "tool"
  BY <1>2, ToolMessages DEF ToolTypes
<1> QED
  BY <1>1, <1>2, <1>3 DEF EndsWithRequest, EndsWithTool, EndsWith

\* new is old with m added, or written over the message at the end.
Written(new, old, m) ==
  /\ Len(new) \in {Len(old), Len(old) + 1} /\ Len(new) > 0
  /\ Len(new) = Len(old) => EndsWithTool(old) /\ m.role = "tool"
  /\ new[Len(new)] = m
  /\ \A i \in 1 .. Len(new) - 1 : new[i] = old[i]

\* What may be written: nothing behind a tool that runs, no user message behind
\* a request, and nothing of a call that has been carried out.
Fits(m, new, s, n) ==
  /\ Len(new) = Len(s.messages) + 1 => ~EndsWith(s.messages, "running_now")
  /\ m.role = "user" => ~EndsWith(s.messages, "tool_request")
  /\ m.role = "tool" => m.id <= n
  /\ m.type \in CarriedTypes \cup {"tool_request"} =>
       \A i \in 1 .. Len(new) - 1 : ~IsCarried(s.messages[i], m.id)
  /\ m.type = "tool_request" => s.currCheckpointIdx < Len(new)

LEMMA WrittenOK ==
  ASSUME NEW n \in Nat, NEW s, s.messages \in Seq(Message), s.currCheckpointIdx \in Nat,
         SnapshotOK(s, n), NEW new \in Seq(Message), NEW m \in Message,
         Written(new, s.messages, m), Fits(m, new, s, n)
  PROVE  /\ RunningLast(new) /\ UserApart(new) /\ CarriedOnce(new)
         /\ RequestOpen(new) /\ KnownIds(new, n) /\ StandsOK(new, s.currCheckpointIdx)
<1> DEFINE old == s.messages
           k == Len(new)
<1>1. k \in Nat /\ k > 0 /\ Len(old) \in Nat /\ k \in {Len(old), Len(old) + 1}
  BY DEF Written
<1>2. new[k] = m /\ \A i \in 1 .. k - 1 : new[i] = old[i] /\ i \in 1 .. Len(old)
  BY <1>1 DEF Written
<1>3. \A i \in 1 .. k : i = k \/ i \in 1 .. k - 1
  BY <1>1
<1>4. RunningLast(new)
  <2> SUFFICES ASSUME NEW i \in 1 .. k - 1, new[i].type = "running_now" PROVE FALSE
    BY <1>3 DEF RunningLast
  <2>1. old[i].type = "running_now" /\ i \in 1 .. Len(old)
    BY <1>2
  <2>2. i = Len(old)
    BY <2>1 DEF SnapshotOK, RunningLast
  <2>3. EndsWith(old, "running_now") /\ k = Len(old) + 1
    BY <1>1, <2>1, <2>2 DEF EndsWith
  <2> QED BY <2>3 DEF Fits
<1>5. UserApart(new)
  <2> SUFFICES ASSUME NEW i \in 1 .. k, i > 1, new[i].role = "user"
               PROVE  new[i - 1].type # "tool_request"
    BY DEF UserApart
  <2>1. i - 1 \in 1 .. k - 1
    BY <1>1
  <2>2. CASE i = k
    <3>1. m.role = "user"
      BY <1>2, <2>2
    <3>2. Len(old) > 0
      BY <1>1, <2>1
    <3>3. ~EndsWith(old, "tool_request")
      BY <3>1 DEF Fits
    <3>4. k # Len(old)
      BY <3>1 DEF Written
    <3> QED BY <1>1, <1>2, <2>1, <2>2, <3>2, <3>3, <3>4 DEF EndsWith
  <2>3. CASE i \in 1 .. k - 1
    BY <1>2, <2>1, <2>3 DEF SnapshotOK, UserApart
  <2> QED BY <1>3, <2>2, <2>3
<1>6. \A i \in 1 .. k - 1 : m.type \in CarriedTypes \cup {"tool_request"} => ~IsCarried(new[i], m.id)
  BY <1>2 DEF Fits
<1>7. CarriedOnce(new)
  <2> SUFFICES ASSUME NEW i \in 1 .. k, NEW j \in 1 .. k,
                      new[i].type \in CarriedTypes, IsCarried(new[j], new[i].id)
               PROVE  i = j
    BY DEF CarriedOnce
  <2>1. CASE i \in 1 .. k - 1 /\ j \in 1 .. k - 1
    BY <1>2, <2>1 DEF SnapshotOK, CarriedOnce
  <2>2. CASE i = k /\ j \in 1 .. k - 1
    BY <1>2, <1>6, <2>2
  <2>3. CASE j = k /\ i \in 1 .. k - 1
    BY <1>2, <1>6, <2>3 DEF IsCarried
  <2> QED BY <1>3, <2>1, <2>2, <2>3
<1>8. RequestOpen(new)
  <2> SUFFICES ASSUME m.type = "tool_request", NEW i \in 1 .. k PROVE ~IsCarried(new[i], m.id)
    BY <1>2 DEF RequestOpen, EndsWith
  <2>1. CASE i = k
    BY <1>2, <2>1 DEF IsCarried, CarriedTypes
  <2> QED BY <1>3, <1>6, <2>1
<1>9. KnownIds(new, n)
  BY <1>2, <1>3 DEF KnownIds, SnapshotOK, Fits
<1>10. StandsOK(new, s.currCheckpointIdx)
  <2> DEFINE idx == s.currCheckpointIdx
  <2>1. m.type = "tool_request" => idx < k
    BY DEF Fits
  <2>2. CASE idx \in 1 .. k - 1
    <3>1. idx \in 1 .. Len(old) /\ new[idx] = old[idx]
      BY <1>2, <2>2
    <3>2. new[idx].type # "tool_request" /\ ~(idx > k)
      BY <1>1, <2>2, <3>1 DEF SnapshotOK, StandsOK
    <3> QED BY <3>2 DEF StandsOK
  <2>3. CASE idx = 0
    BY <1>1, <2>3 DEF StandsOK
  <2>4. CASE idx >= k
    BY <1>1, <1>2, <2>1, <2>4 DEF StandsOK, EndsWith
  <2> QED BY <1>1, <2>2, <2>3, <2>4
<1> QED
  BY <1>4, <1>5, <1>7, <1>8, <1>9, <1>10

\* A history cut behind a message that is no request.
LEMMA PrefixOK ==
  ASSUME NEW n \in Nat, NEW s, s.messages \in Seq(Message), s.currCheckpointIdx \in Nat,
         SnapshotOK(s, n), NEW k \in 0 .. Len(s.messages),
         k > 0 => s.messages[k].type # "tool_request",
         NEW new, new = SubSeq(s.messages, 1, k)
  PROVE  /\ new \in Seq(Message) /\ Len(new) = k
         /\ RunningLast(new) /\ UserApart(new) /\ CarriedOnce(new)
         /\ RequestOpen(new) /\ KnownIds(new, n) /\ StandsOK(new, s.currCheckpointIdx)
         /\ ~EndsWith(new, "tool_request")
         /\ \A i \in 1 .. Len(new) : new[i] = s.messages[i]
<1> DEFINE old == s.messages
<1>1. k \in Nat /\ Len(old) \in Nat /\ k <= Len(old)
  OBVIOUS
<1>2. new \in Seq(Message) /\ Len(new) = k /\ \A i \in 1 .. k : new[i] = old[i]
  BY <1>1
<1>3. \A i \in 1 .. k : i \in 1 .. Len(old)
  BY <1>1
<1>4. ~EndsWith(new, "tool_request")
  <2> SUFFICES ASSUME k > 0 PROVE new[k].type # "tool_request"
    BY <1>2 DEF EndsWith
  <2> QED BY <1>1, <1>2
<1>5. RunningLast(new)
  <2> SUFFICES ASSUME NEW i \in 1 .. k, new[i].type = "running_now" PROVE i = k
    BY <1>2 DEF RunningLast
  <2>1. i = Len(old)
    BY <1>2, <1>3 DEF SnapshotOK, RunningLast
  <2> QED BY <1>1, <2>1
<1>6. UserApart(new)
  <2> SUFFICES ASSUME NEW i \in 1 .. k, i > 1, new[i].role = "user"
               PROVE  new[i - 1].type # "tool_request"
    BY <1>2 DEF UserApart
  <2>1. i - 1 \in 1 .. k
    BY <1>1
  <2> QED BY <1>2, <1>3, <2>1 DEF SnapshotOK, UserApart
<1>7. CarriedOnce(new)
  BY <1>2, <1>3 DEF SnapshotOK, CarriedOnce
<1>8. KnownIds(new, n)
  BY <1>2, <1>3 DEF SnapshotOK, KnownIds
<1>9. StandsOK(new, s.currCheckpointIdx)
  BY <1>2, <1>3, <1>4 DEF SnapshotOK, StandsOK
<1> QED
  BY <1>2, <1>4, <1>5, <1>6, <1>7, <1>8, <1>9 DEF RequestOpen

-----------------------------------------------------------------------------
\* What the operators on threads do to a history

\* t1 is t with m written, and shows the same.
Puts(t1, t, m) ==
  /\ Written(t1.messages, t.messages, m)
  /\ t1.currCheckpointIdx = t.currCheckpointIdx
  /\ t1.stream = t.stream

\* Nothing at the end that a refresh would look at.
AtRest(t) ==
  Running(t) \/ ~(EndsWith(t.messages, "tool_request") \/ EndsWith(t.messages, "running_now"))

LEMMA RefreshRests ==
  ASSUME NEW t \in Thread, AtRest(t)
  PROVE  Refresh(t) = t
<1>1. t.messages \in Seq(Message)
  BY DEF Thread
<1>2. CASE EndsWithTool(t.messages) /\ ~Running(t)
  <2>1. ~EndsWithRequest(t.messages) /\ Last(t.messages).type # "running_now"
    BY <1>1, <1>2, Ends DEF AtRest, EndsWith
  <2> QED BY <2>1 DEF Refresh
<1> QED BY <1>2 DEF Refresh

LEMMA StorePuts ==
  ASSUME NEW n \in Nat, NEW t, ThreadOK(t, n), NEW ms \in Seq(Message), NEW m \in Message,
         Written(ms, t.messages, m), Fits(m, ms, t, n)
  PROVE  ThreadOK(Store(t, ms), n) /\ Puts(Store(t, ms), t, m) /\ Store(t, ms).messages = ms
<1> DEFINE t1 == Store(t, ms)
<1>1. t \in Thread /\ t.messages \in Seq(Message) /\ t.currCheckpointIdx \in Nat
  BY DEF ThreadOK, Thread
<1>2. /\ t1 \in Thread /\ t1.messages = ms /\ t1.stream = t.stream
      /\ t1.currCheckpointIdx = t.currCheckpointIdx
      /\ t1.disk.messages = ms /\ t1.disk.currCheckpointIdx = t.currCheckpointIdx
  BY <1>1, StoreType DEF Store, Thread
<1>3. /\ RunningLast(ms) /\ UserApart(ms) /\ CarriedOnce(ms)
      /\ RequestOpen(ms) /\ KnownIds(ms, n) /\ StandsOK(ms, t.currCheckpointIdx)
  BY <1>1, WrittenOK DEF ThreadOK
<1> HIDE DEF t1
<1> QED BY <1>2, <1>3 DEF ThreadOK, SnapshotOK, Puts, t1

\* A message is added: a refresh finds nothing to do, unless it is a request or
\* a tool that runs, which are added to threads that show activity.
LEMMA AddPuts ==
  ASSUME NEW n \in Nat, NEW t, ThreadOK(t, n), NEW m \in Message,
         Fits(m, Append(t.messages, m), t, n),
         Running(t) \/ m.type \notin {"tool_request", "running_now"}
  PROVE  /\ ThreadOK(AddMessage(t, m), n) /\ Puts(AddMessage(t, m), t, m)
         /\ AddMessage(t, m).messages = Append(t.messages, m)
<1> DEFINE ms == Append(t.messages, m)
<1>1. t.messages \in Seq(Message)
  BY DEF ThreadOK, Thread
<1>2. ms \in Seq(Message) /\ Written(ms, t.messages, m)
  BY <1>1 DEF Written
<1> HIDE DEF ms
<1>3. ThreadOK(Store(t, ms), n) /\ Puts(Store(t, ms), t, m) /\ Store(t, ms).messages = ms
  BY <1>2, StorePuts DEF ms
<1>4. AtRest(Store(t, ms))
  BY <1>3 DEF AtRest, Puts, Written, EndsWith, Running
<1>5. AddMessage(t, m) = Store(t, ms)
  BY <1>3, <1>4, RefreshRests DEF AddMessage, ThreadOK, ms
<1> QED BY <1>3, <1>5 DEF ms

\* The user's checkpoint fits everywhere but behind a tool that runs.
LEMMA CheckpointPuts ==
  ASSUME NEW n \in Nat, NEW t, ThreadOK(t, n), ~EndsWith(t.messages, "running_now")
  PROVE  /\ ThreadOK(AddUserCheckpoint(t), n)
         /\ Puts(AddUserCheckpoint(t), t, Checkpoint("user_edit"))
         /\ AddUserCheckpoint(t).messages = Append(t.messages, Checkpoint("user_edit"))
<1> DEFINE m == Checkpoint("user_edit")
<1>1. m \in Message /\ m.role = "checkpoint" /\ m.type = "user_edit"
  BY MessageTypes DEF Checkpoint
<1> HIDE DEF m
<1>2. Fits(m, Append(t.messages, m), t, n)
  BY <1>1 DEF Fits, CarriedTypes
<1> QED BY <1>1, <1>2, AddPuts DEF AddUserCheckpoint, m

\* A tool message is written: over the one at the end, if there is one.
OnlyRunning(ms, id) ==
  \A i \in 1 .. Len(ms) : IsCarried(ms[i], id) => ms[i].type = "running_now"

LEMMA UpdateStores ==
  ASSUME NEW n \in Nat, NEW t, ThreadOK(t, n), NEW m \in Message,
         m.role = "tool", m.type # "tool_request", m.id <= n,
         m.type \in CarriedTypes => OnlyRunning(t.messages, m.id)
  PROVE  \E ms \in Seq(Message) :
           /\ Written(ms, t.messages, m) /\ Fits(m, ms, t, n)
           /\ UpdateLatestTool(t, m) = Refresh(Store(t, ms))
<1> DEFINE old == t.messages
<1>1. t \in Thread /\ old \in Seq(Message) /\ Len(old) \in Nat
  BY DEF ThreadOK, Thread
<1>2. ASSUME m.type \in CarriedTypes, NEW i \in 1 .. Len(old), IsCarried(old[i], m.id)
      PROVE  i = Len(old) /\ EndsWithTool(old)
  <2>1. old[i].type = "running_now"
    BY <1>2 DEF OnlyRunning
  <2>2. i = Len(old)
    BY <2>1 DEF ThreadOK, SnapshotOK, RunningLast
  <2>3. EndsWith(old, "running_now")
    BY <1>1, <2>1, <2>2 DEF EndsWith
  <2> QED BY <1>1, <2>2, <2>3, Ends
<1>3. CASE EndsWithTool(old)
  <2> DEFINE ms == [old EXCEPT ![Len(old)] = m]
  <2>1. Len(old) > 0
    BY <1>1, <1>3, Ends
  <2>2. ms \in Seq(Message) /\ Len(ms) = Len(old)
    BY <1>1, <2>1
  <2>3. Written(ms, old, m)
    BY <1>1, <1>3, <2>1, <2>2 DEF Written
  <2> HIDE DEF ms
  <2>4. Fits(m, ms, t, n)
    BY <1>1, <1>2, <2>2 DEF Fits
  <2>5. UpdateLatestTool(t, m) = Refresh(Store(t, ms))
    BY <1>3 DEF UpdateLatestTool, ms
  <2> QED BY <2>2, <2>3, <2>4, <2>5
<1>4. CASE ~EndsWithTool(old)
  <2> DEFINE ms == Append(old, m)
  <2>1. ms \in Seq(Message) /\ Len(ms) = Len(old) + 1 /\ Written(ms, old, m)
    BY <1>1 DEF Written
  <2>2. UpdateLatestTool(t, m) = Refresh(Store(t, ms))
    BY <1>4 DEF UpdateLatestTool, AddMessage
  <2> HIDE DEF ms
  <2>3. ~EndsWith(old, "running_now")
    BY <1>1, <1>4, Ends
  <2>4. m.type \in CarriedTypes => \A i \in 1 .. Len(ms) - 1 : ~IsCarried(old[i], m.id)
    BY <1>1, <1>2, <1>4, <2>1
  <2>5. Fits(m, ms, t, n)
    BY <2>3, <2>4 DEF Fits
  <2> QED BY <2>1, <2>2, <2>5
<1> QED BY <1>3, <1>4

\* A tool message other than that of a tool that runs.
LEMMA UpdatePuts ==
  ASSUME NEW n \in Nat, NEW t, ThreadOK(t, n), NEW m \in Message,
         m.role = "tool", m.type \notin {"tool_request", "running_now"}, m.id <= n,
         m.type \in CarriedTypes => OnlyRunning(t.messages, m.id)
  PROVE  ThreadOK(UpdateLatestTool(t, m), n) /\ Puts(UpdateLatestTool(t, m), t, m)
<1>1. PICK ms \in Seq(Message) :
        /\ Written(ms, t.messages, m) /\ Fits(m, ms, t, n)
        /\ UpdateLatestTool(t, m) = Refresh(Store(t, ms))
  BY UpdateStores
<1>2. ThreadOK(Store(t, ms), n) /\ Puts(Store(t, ms), t, m) /\ Store(t, ms).messages = ms
  BY <1>1, StorePuts
<1>3. AtRest(Store(t, ms))
  BY <1>1, <1>2 DEF AtRest, Written, EndsWith
<1>4. Refresh(Store(t, ms)) = Store(t, ms)
  BY <1>2, <1>3, RefreshRests DEF ThreadOK
<1> QED BY <1>1, <1>2, <1>4

\* What has been carried out in new, has been in old.
CarriedFrom(new, old) ==
  \A j \in 1 .. Len(new) :
    new[j].type \in CarriedTypes => \E i \in 1 .. Len(old) : new[j] = old[i]

LEMMA CarriedTrans ==
  ASSUME NEW a, NEW b, NEW c, CarriedFrom(a, b), CarriedFrom(b, c)
  PROVE  CarriedFrom(a, c)
BY DEF CarriedFrom

LEMMA CarriedSelf ==
  ASSUME NEW a PROVE CarriedFrom(a, a)
BY DEF CarriedFrom

LEMMA OnlyRunningFrom ==
  ASSUME NEW new, NEW old, NEW id, CarriedFrom(new, old), OnlyRunning(old, id)
  PROVE  OnlyRunning(new, id)
BY DEF CarriedFrom, OnlyRunning, IsCarried

LEMMA WrittenFrom ==
  ASSUME NEW new, NEW old \in Seq(Message), NEW m, Written(new, old, m), m.type \notin CarriedTypes
  PROVE  CarriedFrom(new, old)
<1> SUFFICES ASSUME NEW j \in 1 .. Len(new), new[j].type \in CarriedTypes
             PROVE  \E i \in 1 .. Len(old) : new[j] = old[i]
  BY DEF CarriedFrom
<1>1. Len(old) \in Nat /\ Len(new) \in {Len(old), Len(old) + 1}
  BY DEF Written
<1>2. j # Len(new)
  BY DEF Written
<1>3. j \in 1 .. Len(new) - 1 /\ j \in 1 .. Len(old)
  BY <1>1, <1>2
<1> QED BY <1>3 DEF Written

\* The user's messages stay where they are.
KeepsUsers(new, old) ==
  \A i \in 1 .. Len(old) : old[i].role = "user" => i \in 1 .. Len(new) /\ new[i] = old[i]

LEMMA WrittenKeepsUsers ==
  ASSUME NEW new, NEW old \in Seq(Message), NEW m, Written(new, old, m)
  PROVE  KeepsUsers(new, old)
<1> SUFFICES ASSUME NEW i \in 1 .. Len(old), old[i].role = "user"
             PROVE  i \in 1 .. Len(new) /\ new[i] = old[i]
  BY DEF KeepsUsers
<1>1. Len(old) \in Nat /\ Len(new) \in {Len(old), Len(old) + 1}
  BY DEF Written
<1>2. Len(new) = Len(old) => i # Len(old)
  BY Ends DEF Written
<1>3. i \in 1 .. Len(new) - 1
  BY <1>1, <1>2
<1> QED BY <1>1, <1>3 DEF Written

LEMMA KeepsTrans ==
  ASSUME NEW a, NEW b, NEW c, KeepsUsers(a, b), KeepsUsers(b, c)
  PROVE  KeepsUsers(a, c)
BY DEF KeepsUsers

\* What is shown is no part of the history.
LEMMA SetStreamOK ==
  ASSUME NEW n \in Nat, NEW t, ThreadOK(t, n), NEW s \in Stream
  PROVE  /\ ThreadOK(SetStream(t, s), n)
         /\ SetStream(t, s).messages = t.messages
         /\ SetStream(t, s).currCheckpointIdx = t.currCheckpointIdx
         /\ SetStream(t, s).stream = s
<1> DEFINE t1 == SetStream(t, s)
<1>1. t1 \in Thread /\ t1.stream = s
  BY SetStreamType DEF ThreadOK
<1>2. t1.messages = t.messages /\ t1.currCheckpointIdx = t.currCheckpointIdx /\ t1.disk = t.disk
  BY DEF SetStream, ThreadOK, Thread
<1> HIDE DEF t1
<1> QED BY <1>1, <1>2 DEF ThreadOK, SnapshotOK, t1

\* The history is the same, but for a checkpoint in an empty one.
LEMMA EnterContentOK ==
  ASSUME NEW n \in Nat, NEW t, ThreadOK(t, n)
  PROVE  LET t1 == EnterContent(t) IN
         /\ ThreadOK(t1, n)
         /\ t1.stream = t.stream /\ t1.currCheckpointIdx = t.currCheckpointIdx
         /\ \A type \in {"tool_request", "running_now"} :
              EndsWith(t1.messages, type) <=> EndsWith(t.messages, type)
         /\ CarriedFrom(t1.messages, t.messages)
<1>1. CASE t.messages = <<>>
  <2> DEFINE m == Checkpoint("user_edit")
             t1 == AddUserCheckpoint(t)
  <2>1. \A type : ~EndsWith(t.messages, type)
    BY <1>1 DEF EndsWith
  <2>2. ThreadOK(t1, n) /\ Puts(t1, t, m)
    BY <2>1, CheckpointPuts
  <2>3. m.type = "user_edit"
    BY DEF Checkpoint
  <2>4. t.messages \in Seq(Message)
    BY DEF ThreadOK, Thread
  <2> HIDE DEF m, t1
  <2>5. CarriedFrom(t1.messages, t.messages)
    BY <2>2, <2>3, <2>4, WrittenFrom DEF Puts, CarriedTypes
  <2>6. EnterContent(t) = t1
    BY <1>1 DEF EnterContent, t1
  <2> QED BY <2>1, <2>2, <2>3, <2>5, <2>6 DEF Puts, Written, EndsWith
<1>2. CASE t.messages # <<>>
  BY <1>2, CarriedSelf DEF EnterContent
<1> QED BY <1>1, <1>2

-----------------------------------------------------------------------------
\* The inductive invariant

WorkPCs == {"validate", "callTool", "toolResult", "mcp"}

BaseOK(c, n) ==
  /\ SnapshotOK(c.base, n)
  /\ \A i \in 1 .. Len(c.base.messages) : c.base.messages[i].type # "running_now"

LiveIn(rs) == {r \in Runs : rs[r].pc # "off"}
WaitingIn(cs) == {u \in Users : cs[u].stage \in {"select", "content"}}
Single(rs, cs) ==
  /\ \A r, s \in LiveIn(rs) : r = s
  /\ \A u, v \in WaitingIn(cs) : u = v
  /\ LiveIn(rs) = {} \/ WaitingIn(cs) = {}

\* The thread waits for the user just when a request is the last message, and
\* then nothing else is going on.
AwaitsOK(t, rs, cs) ==
  /\ t.stream.isRunning = "awaiting_user" <=> EndsWith(t.messages, "tool_request")
  /\ EndsWith(t.messages, "tool_request") => LiveIn(rs) = {} /\ WaitingIn(cs) = {}

\* While a run is alive the user does not stand beyond the end.
StandsInside(t, rs) == LiveIn(rs) # {} => t.currCheckpointIdx <= Len(t.messages)

\* A tool that runs at the end is shown, and nobody has stopped it.
RunningOK(t, rs) ==
  EndsWith(t.messages, "running_now") =>
    /\ t.stream.isRunning = "tool"
    /\ ~rs[t.stream.owner].stopPending /\ ~rs[t.stream.owner].interrupted

\* The call a run works on has not been carried out, and a Stop is remembered
\* only while the tool is being started.
WorkOK(t, run, n) ==
  /\ run.pc \in WorkPCs => run.tool <= n /\ OnlyRunning(t.messages, run.tool)
  /\ run.stopPending => run.pc = "callTool"

Settled(t, rs, cs, n) ==
  /\ ThreadOK(t, n)
  /\ \A u \in Users : BaseOK(cs[u], n)
  /\ Single(rs, cs)
  /\ AwaitsOK(t, rs, cs)
  /\ StandsInside(t, rs)
  /\ RunningOK(t, rs)
  /\ \A r \in Runs : WorkOK(t, rs[r], n)

SInv == Settled(thread, runs, call, Len(turns))

\* What the invariants say of a thread on which a run is alive.
LEMMA SoleRun ==
  ASSUME IInv, SInv, NEW r \in Runs, Live(r)
  PROVE  /\ LiveIn(runs) = {r} /\ WaitingIn(call) = {}
         /\ ~EndsWith(thread.messages, "tool_request")
         /\ thread.stream.isRunning # "awaiting_user"
         /\ thread.currCheckpointIdx <= Len(thread.messages)
         /\ thread.stream \in Still \/ thread.stream = StreamAt(r, runs[r].pc)
         /\ EndsWith(thread.messages, "running_now") =>
              /\ thread.stream = StreamAt(r, runs[r].pc)
              /\ runs[r].pc \in {"callTool", "toolResult", "mcp"}
              /\ ~runs[r].stopPending /\ ~runs[r].interrupted
         /\ WorkOK(thread, runs[r], Len(turns))
<1>1. r \in LiveIn(runs)
  BY DEF LiveIn, Live
<1>2. LiveIn(runs) = {r} /\ WaitingIn(call) = {}
  BY <1>1 DEF SInv, Settled, Single
<1>3. ~EndsWith(thread.messages, "tool_request") /\ thread.stream.isRunning # "awaiting_user"
  BY <1>1 DEF SInv, Settled, AwaitsOK
<1>4. thread.currCheckpointIdx <= Len(thread.messages)
  BY <1>1 DEF SInv, Settled, StandsInside
<1>5. thread.stream \in Still \/ thread.stream = StreamAt(r, runs[r].pc)
  BY <1>2 DEF IInv, Shows, LiveIn
<1>6. ASSUME EndsWith(thread.messages, "running_now")
      PROVE  /\ thread.stream = StreamAt(r, runs[r].pc)
             /\ runs[r].pc \in {"callTool", "toolResult", "mcp"}
             /\ ~runs[r].stopPending /\ ~runs[r].interrupted
  <2>1. /\ thread.stream.isRunning = "tool"
        /\ ~runs[thread.stream.owner].stopPending /\ ~runs[thread.stream.owner].interrupted
    BY <1>6 DEF SInv, Settled, RunningOK
  <2>2. thread.stream = StreamAt(r, runs[r].pc)
    BY <1>5, <2>1, StreamFacts DEF Still
  <2>3. runs[r].pc \in PCs
    BY DEF IInv, TypeOK, Run
  <2> QED BY <2>1, <2>2, <2>3, StreamFacts
<1>7. WorkOK(thread, runs[r], Len(turns))
  BY DEF SInv, Settled
<1> QED BY <1>2, <1>3, <1>4, <1>5, <1>6, <1>7

\* A refresh keeps the invariant of a history: it awaits a request at the end,
\* or takes back a tool that runs.
LEMMA RefreshOK ==
  ASSUME NEW n \in Nat, NEW t, ThreadOK(t, n)
  PROVE  LET t1 == Refresh(t) IN
         /\ ThreadOK(t1, n)
         /\ t1.currCheckpointIdx = t.currCheckpointIdx
         /\ Len(t1.messages) = Len(t.messages)
         /\ CarriedFrom(t1.messages, t.messages)
         /\ EndsWith(t1.messages, "tool_request") <=> EndsWith(t.messages, "tool_request")
         /\ EndsWith(t1.messages, "running_now") => EndsWith(t.messages, "running_now")
         /\ EndsWith(t1.messages, "running_now") => Running(t) \/ t.stream.error
         /\ t1.stream \in {t.stream, AwaitingUser}
         /\ EndsWith(t.messages, "tool_request") /\ ~t.stream.error /\ ~Running(t)
              => t1.stream = AwaitingUser
         /\ ~EndsWith(t.messages, "tool_request") => t1.stream = t.stream
<1> DEFINE old == t.messages
           t1 == Refresh(t)
<1>1. t \in Thread /\ old \in Seq(Message) /\ Len(old) \in Nat
  BY DEF ThreadOK, Thread
<1>2. CASE Running(t) \/ t.stream.error \/ ~EndsWithTool(old)
  <2>1. t1 = t
    BY <1>2 DEF Refresh
  <2>2. ~EndsWithTool(old) => ~EndsWith(old, "running_now") /\ ~EndsWith(old, "tool_request")
    BY <1>1, Ends DEF EndsWithRequest
  <2> HIDE DEF t1
  <2> QED BY <1>2, <2>1, <2>2, CarriedSelf DEF t1
<1>3. CASE ~(Running(t) \/ t.stream.error \/ ~EndsWithTool(old)) /\ EndsWithRequest(old)
  <2>1. t1 = SetStream(t, AwaitingUser)
    BY <1>3 DEF Refresh
  <2>2. /\ ThreadOK(t1, n) /\ t1.messages = old /\ t1.stream = AwaitingUser
        /\ t1.currCheckpointIdx = t.currCheckpointIdx
    BY <2>1, SetStreamOK, StreamTypes
  <2>3. EndsWith(old, "tool_request") /\ ~EndsWith(old, "running_now")
    BY <1>1, <1>3, Ends DEF EndsWith
  <2> HIDE DEF t1
  <2> QED BY <2>2, <2>3, CarriedSelf DEF t1
<1>4. CASE /\ ~(Running(t) \/ t.stream.error \/ ~EndsWithTool(old)) /\ ~EndsWithRequest(old)
           /\ Last(old).type = "running_now"
  <2> DEFINE m == [old[Len(old)] EXCEPT !.type = "rejected"]
             ms == [old EXCEPT ![Len(old)].type = "rejected"]
  <2>1. Len(old) > 0 /\ old[Len(old)] \in Message /\ old[Len(old)].role = "tool"
        /\ old[Len(old)].type = "running_now"
    BY <1>1, <1>4, Ends
  <2>2. m \in Message /\ m.role = "tool" /\ m.type = "rejected" /\ m.id = old[Len(old)].id
    BY <2>1 DEF Message, ToolTypes
  <2>3. ms \in Seq(Message)
    BY <1>1, <1>4, LastTool
  <2>4. Len(ms) = Len(old) /\ ms[Len(old)] = m /\ \A i \in 1 .. Len(old) - 1 : ms[i] = old[i]
    BY <1>1, <2>1
  <2>5. t1 = Store(t, ms)
    BY <1>4 DEF Refresh
  <2> HIDE DEF m, ms, t1
  <2>6. Written(ms, old, m)
    BY <1>4, <2>1, <2>2, <2>4 DEF Written
  <2>7. m.id <= n
    BY <1>1, <2>1, <2>2 DEF ThreadOK, SnapshotOK, KnownIds
  <2>8. Fits(m, ms, t, n)
    BY <1>1, <2>2, <2>4, <2>7 DEF Fits, CarriedTypes
  <2>9. ThreadOK(t1, n) /\ Puts(t1, t, m) /\ t1.messages = ms
    BY <2>2, <2>3, <2>5, <2>6, <2>8, StorePuts
  <2>10. CarriedFrom(ms, old)
    BY <1>1, <2>2, <2>6, WrittenFrom DEF CarriedTypes
  <2>11. ~EndsWith(old, "tool_request")
    BY <2>1 DEF EndsWith
  <2>12. ~EndsWith(ms, "tool_request") /\ ~EndsWith(ms, "running_now")
    BY <2>2, <2>4 DEF EndsWith
  <2> QED BY <2>4, <2>9, <2>10, <2>11, <2>12 DEF Puts, t1
<1>5. CASE /\ ~(Running(t) \/ t.stream.error \/ ~EndsWithTool(old)) /\ ~EndsWithRequest(old)
           /\ Last(old).type # "running_now"
  <2>1. t1 = t
    BY <1>5 DEF Refresh
  <2>2. ~EndsWith(old, "running_now") /\ ~EndsWith(old, "tool_request")
    BY <1>1, <1>5, Ends DEF EndsWith
  <2> HIDE DEF t1
  <2> QED BY <2>1, <2>2, CarriedSelf DEF t1
<1> QED BY <1>2, <1>3, <1>4, <1>5

\* Nothing awaited and nothing running at the end.
Clear(ms) == ~EndsWith(ms, "tool_request") /\ ~EndsWith(ms, "running_now")

\* t1 goes on from t with messages of which none is carried out.
Extends(t1, t) ==
  /\ t1.currCheckpointIdx = t.currCheckpointIdx
  /\ Len(t.messages) <= Len(t1.messages)
  /\ CarriedFrom(t1.messages, t.messages)
  /\ KeepsUsers(t1.messages, t.messages)

LEMMA ExtendsTrans ==
  ASSUME NEW a, NEW b, NEW c, Extends(a, b), Extends(b, c),
         Len(a.messages) \in Nat, Len(b.messages) \in Nat, Len(c.messages) \in Nat
  PROVE  Extends(a, c)
BY CarriedTrans, KeepsTrans DEF Extends

LEMMA LenNat ==
  ASSUME NEW n, NEW t, ThreadOK(t, n)
  PROVE  t.messages \in Seq(Message) /\ Len(t.messages) \in Nat /\ t.currCheckpointIdx \in Nat
BY DEF ThreadOK, Thread

LEMMA PutsExtends ==
  ASSUME NEW n, NEW t, ThreadOK(t, n), NEW t1, NEW m, Puts(t1, t, m)
  PROVE  /\ \A type : EndsWith(t1.messages, type) <=> m.type = type
         /\ Len(t.messages) <= Len(t1.messages)
         /\ KeepsUsers(t1.messages, t.messages)
         /\ m.type \notin CarriedTypes => Extends(t1, t)
<1>1. t.messages \in Seq(Message) /\ Len(t.messages) \in Nat
  BY LenNat
<1>2. \A type : EndsWith(t1.messages, type) <=> m.type = type
  BY DEF Puts, Written, EndsWith
<1>3. Len(t.messages) <= Len(t1.messages)
  BY <1>1 DEF Puts, Written
<1>4. KeepsUsers(t1.messages, t.messages)
  BY <1>1, WrittenKeepsUsers DEF Puts
<1>5. m.type \notin CarriedTypes => CarriedFrom(t1.messages, t.messages)
  BY <1>1, WrittenFrom DEF Puts
<1> QED BY <1>2, <1>3, <1>4, <1>5 DEF Extends, Puts

\* What the model said, and checkpoints.
LEMMA PlainPuts ==
  ASSUME NEW n \in Nat, NEW t, ThreadOK(t, n), ~EndsWith(t.messages, "running_now"),
         NEW m \in {Assistant, InterruptedTool, Checkpoint("tool_edit"), Checkpoint("user_edit")}
  PROVE  LET t1 == AddMessage(t, m) IN
         ThreadOK(t1, n) /\ t1.stream = t.stream /\ Clear(t1.messages) /\ Extends(t1, t)
<1>1. /\ m \in Message /\ m.role \notin {"user", "tool"}
      /\ m.type \notin CarriedTypes \cup {"tool_request"}
  BY MessageTypes DEF Checkpoint, Assistant, InterruptedTool, CarriedTypes
<1>2. Fits(m, Append(t.messages, m), t, n)
  BY <1>1 DEF Fits
<1>3. ThreadOK(AddMessage(t, m), n) /\ Puts(AddMessage(t, m), t, m)
  BY <1>1, <1>2, AddPuts DEF CarriedTypes
<1> QED BY <1>1, <1>3, PutsExtends DEF Clear, Puts, CarriedTypes

LEMMA CheckpointClear ==
  ASSUME NEW n \in Nat, NEW t, ThreadOK(t, n), ~EndsWith(t.messages, "running_now")
  PROVE  LET t1 == AddUserCheckpoint(t) IN
         ThreadOK(t1, n) /\ t1.stream = t.stream /\ Clear(t1.messages) /\ Extends(t1, t)
BY PlainPuts DEF AddUserCheckpoint

\* The end of the message loop.
LEMMA EndedClear ==
  ASSUME NEW n \in Nat, NEW t, ThreadOK(t, n), ~EndsWith(t.messages, "running_now")
  PROVE  /\ ThreadOK(Ended(t), n) /\ Clear(Ended(t).messages)
         /\ Ended(t).stream = NotRunning(FALSE)
<1> DEFINE t0 == SetStream(t, NotRunning(FALSE))
<1>1. ThreadOK(t0, n) /\ t0.messages = t.messages /\ t0.stream = NotRunning(FALSE)
  BY SetStreamOK, StreamTypes
<1> HIDE DEF t0
<1> QED BY <1>1, CheckpointClear DEF Ended, t0

LEMMA SnapshotMonotone ==
  ASSUME NEW m \in Nat, NEW n \in Nat, m <= n, NEW s, s.messages \in Seq(Message), SnapshotOK(s, m)
  PROVE  SnapshotOK(s, n)
<1>1. ASSUME NEW i \in 1 .. Len(s.messages), s.messages[i].role = "tool"
      PROVE  s.messages[i].id <= n
  <2>1. s.messages[i].id \in Int /\ s.messages[i].id <= m
    BY <1>1, ToolMessages DEF SnapshotOK, KnownIds
  <2> QED BY <2>1
<1> QED BY <1>1 DEF SnapshotOK, KnownIds

LEMMA ThreadMonotone ==
  ASSUME NEW m \in Nat, NEW n \in Nat, m <= n, NEW t, ThreadOK(t, m)
  PROVE  ThreadOK(t, n)
BY SnapshotMonotone DEF ThreadOK, Thread, Snapshot

LEMMA BaseMonotone ==
  ASSUME NEW m \in Nat, NEW n \in Nat, m <= n, NEW c \in Call, BaseOK(c, m)
  PROVE  BaseOK(c, n)
BY SnapshotMonotone DEF BaseOK, Call, Snapshot

-----------------------------------------------------------------------------
\* The steps of a run

\* A run that goes on.
LEMMA GoesOn ==
  ASSUME IInv, SInv, NEW r \in Runs, Live(r), NEW t, NEW run, run.pc # "off",
         thread' = t, runs' = [runs EXCEPT ![r] = run], UNCHANGED call,
         Len(turns') \in Nat, Len(turns) <= Len(turns'),
         ThreadOK(t, Len(turns')),
         ~EndsWith(t.messages, "tool_request"), t.stream.isRunning # "awaiting_user",
         t.currCheckpointIdx <= Len(t.messages),
         EndsWith(t.messages, "running_now") =>
           /\ t.stream.isRunning = "tool" /\ t.stream.owner = r
           /\ ~run.stopPending /\ ~run.interrupted,
         WorkOK(t, run, Len(turns'))
  PROVE  SInv'
<1>1. runs \in [Runs -> Run] /\ call \in [Users -> Call] /\ Len(turns) \in Nat
  BY DEF IInv, TypeOK
<1>2. LiveIn(runs) = {r} /\ WaitingIn(call) = {}
  BY SoleRun
<1>3. runs'[r] = run /\ \A s \in Runs : s # r => runs'[s] = runs[s]
  BY <1>1
<1>4. LiveIn(runs') = {r}
  BY <1>2, <1>3 DEF LiveIn
<1>5. \A u \in Users : BaseOK(call'[u], Len(turns'))
  BY <1>1, BaseMonotone DEF SInv, Settled
<1>6. Single(runs', call')
  BY <1>2, <1>4 DEF Single
<1>7. AwaitsOK(t, runs', call') /\ StandsInside(t, runs') /\ RunningOK(t, runs')
  BY <1>3 DEF AwaitsOK, StandsInside, RunningOK
<1>8. \A s \in Runs : WorkOK(t, runs'[s], Len(turns'))
  <2> SUFFICES ASSUME NEW s \in Runs, s # r PROVE runs'[s].pc = "off" /\ ~runs'[s].stopPending
    BY <1>3 DEF WorkOK, WorkPCs
  <2>1. runs'[s].pc = "off" /\ runs'[s] = runs[s]
    BY <1>3, <1>4 DEF LiveIn
  <2> QED BY <2>1 DEF SInv, Settled, WorkOK
<1> QED BY <1>5, <1>6, <1>7, <1>8 DEF SInv, Settled

\* A run that goes on without a tool.
LEMMA MovesOn ==
  ASSUME IInv, SInv, NEW r \in Runs, Live(r), NEW t, NEW run,
         run.pc \notin WorkPCs \cup {"off"}, ~run.stopPending, Move(r, t, run),
         Len(turns') \in Nat, Len(turns) <= Len(turns'),
         ThreadOK(t, Len(turns')), Clear(t.messages), t.stream.isRunning # "awaiting_user",
         t.currCheckpointIdx <= Len(t.messages)
  PROVE  SInv'
BY GoesOn DEF Move, Clear, WorkOK

\* A run that returns, and the queue it drains.
LEMMA Returns ==
  ASSUME IInv, SInv, NEW r \in Runs, Live(r), NEW t, NEW p, Finish(r, t, p),
         Len(turns') \in Nat, Len(turns) <= Len(turns'),
         ThreadOK(t, Len(turns')), ~EndsWith(t.messages, "running_now"),
         t.stream.isRunning = "awaiting_user" <=> EndsWith(t.messages, "tool_request")
  PROVE  SInv'
<1>1. /\ runs \in [Runs -> Run] /\ call \in [Users -> Call] /\ Len(turns) \in Nat
      /\ queue \in Seq(Users)
  BY DEF IInv, TypeOK
<1>2. LiveIn(runs) = {r} /\ WaitingIn(call) = {}
  BY SoleRun
<1>3. \A s \in Runs : runs'[s].pc = "off" /\ ~runs'[s].stopPending
  <2>1. \A s \in Runs : runs'[s] = IF s = r THEN Off ELSE runs[s]
    BY <1>1 DEF Finish
  <2>2. \A s \in Runs : s # r => runs[s].pc = "off" /\ ~runs[s].stopPending
    BY <1>2 DEF LiveIn, SInv, Settled, WorkOK
  <2> QED BY <2>1, <2>2 DEF Off
<1>4. LiveIn(runs') = {}
  BY <1>3 DEF LiveIn
<1>5. \A t1 : StandsInside(t1, runs') /\ \A s \in Runs : WorkOK(t1, runs'[s], Len(turns'))
  BY <1>3, <1>4 DEF StandsInside, WorkOK, WorkPCs
<1>6. CASE MayDrain(t, p)
  <2> DEFINE u == Head(queue)
  <2>1. u \in Users /\ call' = SetStage(u, "content") /\ thread' = EnterContent(t)
    BY <1>1, <1>6 DEF Finish, MayDrain
  <2>2. /\ \A v \in Users : call'[v].base = call[v].base
        /\ call'[u].stage = "content"
        /\ \A v \in Users : v # u => call'[v].stage = call[v].stage
    BY <1>1, <2>1 DEF SetStage, Call
  <2> HIDE DEF u
  <2>3. WaitingIn(call') = {u}
    BY <1>2, <2>1, <2>2 DEF WaitingIn
  <2>4. \A v \in Users : BaseOK(call'[v], Len(turns'))
    <3>1. \A v \in Users : BaseOK(call[v], Len(turns'))
      BY <1>1, BaseMonotone DEF SInv, Settled
    <3> QED BY <2>2, <3>1 DEF BaseOK
  <2>5. t.stream.isRunning = "no" /\ ~EndsWith(t.messages, "tool_request")
    BY <1>6 DEF MayDrain, Running
  <2>6. /\ ThreadOK(thread', Len(turns')) /\ thread'.stream = t.stream
        /\ ~EndsWith(thread'.messages, "tool_request")
        /\ ~EndsWith(thread'.messages, "running_now")
    BY <2>1, <2>5, EnterContentOK
  <2>7. AwaitsOK(thread', runs', call') /\ RunningOK(thread', runs')
    BY <2>5, <2>6 DEF AwaitsOK, RunningOK
  <2>8. Single(runs', call')
    BY <1>4, <2>3 DEF Single
  <2> QED BY <1>5, <2>4, <2>6, <2>7, <2>8 DEF SInv, Settled
<1>7. CASE ~MayDrain(t, p)
  <2>1. thread' = t /\ call' = call
    BY <1>7 DEF Finish
  <2>2. \A u \in Users : BaseOK(call'[u], Len(turns'))
    BY <1>1, <2>1, BaseMonotone DEF SInv, Settled
  <2>3. Single(runs', call') /\ AwaitsOK(t, runs', call') /\ RunningOK(t, runs')
    BY <1>2, <1>4, <2>1 DEF Single, AwaitsOK, RunningOK
  <2> QED BY <1>5, <2>1, <2>2, <2>3 DEF SInv, Settled
<1> QED BY <1>6, <1>7

\* A thread with a live run shows what the run does, or nothing.
LEMMA SettledFacts ==
  ASSUME IInv, SInv
  PROVE  /\ ThreadOK(thread, Len(turns)) /\ Len(turns) \in Nat
         /\ thread \in Thread /\ thread.messages \in Seq(Message)
         /\ Len(thread.messages) \in Nat /\ thread.currCheckpointIdx \in Nat
BY DEF IInv, SInv, Settled, TypeOK, ThreadOK, Thread

LEMMA SendSettled ==
  ASSUME IInv, SInv, NEW r \in Runs, runs[r].pc \in {"prep", "retry"}, Send(r, runs[r]),
         UNCHANGED turns
  PROVE  SInv'
<1> DEFINE t == SetStream(thread, StreamAt(r, "llm"))
           run == [runs[r] EXCEPT !.pc = "llm", !.attempts = @ + 1]
<1>1. ThreadOK(thread, Len(turns)) /\ Len(turns) \in Nat /\ Live(r) /\ runs[r] \in Run
  BY SettledFacts, IInvFacts DEF Live
<1>2. /\ ~EndsWith(thread.messages, "running_now") /\ ~EndsWith(thread.messages, "tool_request")
      /\ thread.currCheckpointIdx <= Len(thread.messages) /\ ~runs[r].stopPending
  BY <1>1, SoleRun DEF WorkOK
<1>3. /\ ThreadOK(t, Len(turns)) /\ t.messages = thread.messages
      /\ t.currCheckpointIdx = thread.currCheckpointIdx /\ t.stream = StreamAt(r, "llm")
  BY <1>1, SetStreamOK, StreamTypes DEF PCs
<1>4. t.stream.isRunning # "awaiting_user"
  BY <1>3, StreamFacts DEF PCs
<1>5. run.pc = "llm" /\ ~run.stopPending
  BY <1>1, <1>2 DEF Run
<1>6. Move(r, t, run)
  BY DEF Send
<1> HIDE DEF t, run
<1> QED BY <1>1, <1>2, <1>3, <1>4, <1>5, <1>6, MovesOn DEF Clear, WorkPCs

\* A run that falls silent.
LEMMA SilentSettled ==
  ASSUME IInv, SInv, NEW r \in Runs, Live(r), NEW p, UNCHANGED turns,
         Finish(r, SetStream(thread, NotRunning(FALSE)), p),
         ~EndsWith(thread.messages, "running_now")
  PROVE  SInv'
<1> DEFINE t == SetStream(thread, NotRunning(FALSE))
<1>1. ThreadOK(thread, Len(turns)) /\ Len(turns) \in Nat
  BY SettledFacts
<1>2. ~EndsWith(thread.messages, "tool_request")
  BY SoleRun
<1>3. ThreadOK(t, Len(turns)) /\ t.messages = thread.messages /\ t.stream = NotRunning(FALSE)
  BY <1>1, SetStreamOK, StreamTypes
<1>4. t.stream.isRunning # "awaiting_user"
  BY <1>3 DEF NotRunning
<1> HIDE DEF t
<1>5. Finish(r, t, p) /\ turns' = turns
  BY DEF t
<1>6. ThreadOK(t, Len(turns')) /\ Len(turns') \in Nat /\ Len(turns) <= Len(turns')
  BY <1>1, <1>3, <1>5
<1>7. t.stream.isRunning = "awaiting_user" <=> EndsWith(t.messages, "tool_request")
  BY <1>2, <1>3, <1>4
<1>8. ~EndsWith(t.messages, "running_now")
  BY <1>3
<1> QED BY <1>5, <1>6, <1>7, <1>8, Returns

\* A run that reaches the end of its loop.
LEMMA EndedSettled ==
  ASSUME IInv, SInv, NEW r \in Runs, Live(r), NEW p, NEW t, Finish(r, Ended(t), p),
         Len(turns') \in Nat, Len(turns) <= Len(turns'),
         ThreadOK(t, Len(turns')), ~EndsWith(t.messages, "running_now")
  PROVE  SInv'
<1>1. /\ ThreadOK(Ended(t), Len(turns')) /\ Clear(Ended(t).messages)
      /\ Ended(t).stream.isRunning # "awaiting_user"
  BY EndedClear DEF NotRunning
<1> QED BY <1>1, Returns DEF Clear

LEMMA PreparedSettled ==
  ASSUME IInv, SInv, NEW r \in Runs, Prepared(r)
  PROVE  SInv'
<1>1. ThreadOK(thread, Len(turns)) /\ Len(turns) \in Nat /\ Live(r) /\ runs[r].pc = "prep"
      /\ UNCHANGED turns
  BY SettledFacts DEF Prepared, Live
<1>2. ~EndsWith(thread.messages, "running_now")
  BY <1>1, SoleRun
<1>3. CASE Finish(r, SetStream(thread, NotRunning(FALSE)), paused)
  BY <1>1, <1>2, <1>3, SilentSettled
<1>4. CASE Send(r, runs[r])
  BY <1>1, <1>4, SendSettled
<1>5. CASE Finish(r, Ended(SetStream(thread, NotRunning(TRUE))), paused)
  <2> DEFINE t == SetStream(thread, NotRunning(TRUE))
  <2>1. ThreadOK(t, Len(turns)) /\ t.messages = thread.messages
    BY <1>1, SetStreamOK, StreamTypes
  <2> HIDE DEF t
  <2>2. Finish(r, Ended(t), paused)
    BY <1>5 DEF t
  <2> QED BY <1>1, <1>2, <2>1, <2>2, EndedSettled
<1> QED BY <1>3, <1>4, <1>5 DEF Prepared

\* Nobody works on the thread afterwards either.
LEMMA NobodyStarts ==
  ASSUME IInv, SInv, NEW t, NEW cs, thread' = t, call' = cs, UNCHANGED turns,
         \A r \in Runs : runs'[r].pc = "off" /\ ~runs'[r].stopPending,
         ThreadOK(t, Len(turns)), ~EndsWith(t.messages, "running_now"),
         t.stream.isRunning = "awaiting_user" <=> EndsWith(t.messages, "tool_request"),
         \A u \in Users : BaseOK(cs[u], Len(turns)),
         \A u, v \in WaitingIn(cs) : u = v,
         EndsWith(t.messages, "tool_request") => WaitingIn(cs) = {}
  PROVE  SInv'
<1>1. LiveIn(runs') = {}
  BY DEF LiveIn
<1>2. Single(runs', cs) /\ AwaitsOK(t, runs', cs) /\ StandsInside(t, runs') /\ RunningOK(t, runs')
  BY <1>1 DEF Single, AwaitsOK, StandsInside, RunningOK
<1>3. \A r \in Runs : WorkOK(t, runs'[r], Len(turns))
  BY DEF WorkOK, WorkPCs
<1> QED BY <1>2, <1>3 DEF SInv, Settled

LEMMA NoBaseOK ==
  ASSUME NEW c, c.base = NoBase, NEW n
  PROVE  BaseOK(c, n)
BY DEF BaseOK, NoBase, SnapshotOK, RunningLast, UserApart, CarriedOnce, RequestOpen, KnownIds,
       StandsOK, EndsWith

LEMMA PrepareFailsSettled ==
  ASSUME IInv, SInv, NEW r \in Runs, PrepareFails(r)
  PROVE  SInv'
<1>1. /\ runs[r].pc \in {"prep", "compact"} /\ Live(r)
      /\ runs' = [runs EXCEPT ![r] = Off] /\ call' = call /\ turns' = turns
  BY DEF PrepareFails, Live
<1>2. PICK s \in Stream :
        thread' = SetStream(thread, s) /\ s.isRunning = thread.stream.isRunning
  BY PrepareFailsShows
<1>3. ThreadOK(thread, Len(turns)) /\ Len(turns) \in Nat /\ runs \in [Runs -> Run]
  BY SettledFacts DEF IInv, TypeOK
<1>4. /\ ThreadOK(thread', Len(turns)) /\ thread'.messages = thread.messages
      /\ thread'.stream = s
  BY <1>2, <1>3, SetStreamOK
<1>5. /\ LiveIn(runs) = {r} /\ WaitingIn(call) = {}
      /\ Clear(thread.messages) /\ thread.stream.isRunning # "awaiting_user"
  BY <1>1, SoleRun DEF Clear
<1>6. \A q \in Runs : runs'[q].pc = "off" /\ ~runs'[q].stopPending
  <2>1. \A q \in Runs : runs'[q] = IF q = r THEN Off ELSE runs[q]
    BY <1>1, <1>3
  <2>2. \A q \in Runs : q # r => runs[q].pc = "off" /\ ~runs[q].stopPending
    BY <1>5 DEF LiveIn, SInv, Settled, WorkOK
  <2> QED BY <2>1, <2>2 DEF Off
<1>7. \A u \in Users : BaseOK(call[u], Len(turns))
  BY DEF SInv, Settled
<1> QED BY <1>1, <1>2, <1>4, <1>5, <1>6, <1>7, NobodyStarts DEF Clear

LEMMA LLMTextSettled ==
  ASSUME IInv, SInv, NEW r \in Runs, LLMText(r)
  PROVE  SInv'
<1> DEFINE t == SetStream(thread, StreamAt(r, "llm"))
<1>1. /\ ThreadOK(thread, Len(turns)) /\ Len(turns) \in Nat /\ Live(r) /\ runs[r].pc = "llm"
      /\ UNCHANGED <<turns, call, runs>> /\ thread' = t
  BY SettledFacts DEF LLMText, Live
<1>2. /\ ~EndsWith(thread.messages, "running_now") /\ ~EndsWith(thread.messages, "tool_request")
      /\ thread.currCheckpointIdx <= Len(thread.messages) /\ WorkOK(thread, runs[r], Len(turns))
  BY <1>1, SoleRun
<1>3. /\ ThreadOK(t, Len(turns)) /\ t.messages = thread.messages
      /\ t.currCheckpointIdx = thread.currCheckpointIdx /\ t.stream = StreamAt(r, "llm")
  BY <1>1, SetStreamOK, StreamTypes DEF PCs
<1>4. t.stream.isRunning # "awaiting_user"
  BY <1>3, StreamFacts DEF PCs
<1> DEFINE run == runs[r]
<1>5. runs' = [runs EXCEPT ![r] = run]
  BY <1>1 DEF IInv, TypeOK
<1>6. WorkOK(t, run, Len(turns))
  BY <1>2, <1>3 DEF WorkOK
<1>7. thread' = t /\ call' = call /\ turns' = turns /\ run.pc # "off"
  BY <1>1
<1> HIDE DEF t, run
<1>8. /\ Len(turns') \in Nat /\ Len(turns) <= Len(turns') /\ ThreadOK(t, Len(turns'))
      /\ WorkOK(t, run, Len(turns'))
  BY <1>1, <1>3, <1>6
<1>9. /\ ~EndsWith(t.messages, "tool_request") /\ ~EndsWith(t.messages, "running_now")
      /\ t.currCheckpointIdx <= Len(t.messages)
  BY <1>2, <1>3
<1> QED BY <1>1, <1>4, <1>5, <1>7, <1>8, <1>9, GoesOn

LEMMA SupersededSettled ==
  ASSUME IInv, SInv, NEW r \in Runs, Superseded(r)
  PROVE  SInv'
<1>1. /\ ThreadOK(thread, Len(turns)) /\ Len(turns) \in Nat /\ Live(r) /\ runs[r].pc = "llm"
      /\ UNCHANGED turns /\ Finish(r, thread, paused)
  BY SettledFacts DEF Superseded, Live
<1>2. /\ ~EndsWith(thread.messages, "running_now") /\ ~EndsWith(thread.messages, "tool_request")
      /\ thread.stream.isRunning # "awaiting_user"
  BY <1>1, SoleRun
<1> QED BY <1>1, <1>2, Returns

LEMMA LLMErrorSettled ==
  ASSUME IInv, SInv, NEW r \in Runs, LLMError(r)
  PROVE  SInv'
<1> DEFINE n == Len(turns)
<1>1. /\ ThreadOK(thread, n) /\ n \in Nat /\ Live(r) /\ runs[r].pc = "llm"
      /\ turns' = turns /\ runs[r] \in Run
  BY SettledFacts, IInvFacts DEF LLMError, Live
<1>2. /\ Clear(thread.messages) /\ thread.stream.isRunning # "awaiting_user"
      /\ thread.currCheckpointIdx <= Len(thread.messages) /\ ~runs[r].stopPending
  BY <1>1, SoleRun DEF WorkOK, Clear
<1> HIDE DEF n
<1>n. Len(turns') \in Nat /\ Len(turns) <= Len(turns') /\ Len(turns') = n
  BY <1>1 DEF n
<1>3. CASE Move(r, SetStream(thread, StreamAt(r, "retry")), [runs[r] EXCEPT !.pc = "retry"])
  <2> DEFINE t == SetStream(thread, StreamAt(r, "retry"))
             run == [runs[r] EXCEPT !.pc = "retry"]
  <2>1. /\ ThreadOK(t, n) /\ t.messages = thread.messages
        /\ t.currCheckpointIdx = thread.currCheckpointIdx /\ t.stream = StreamAt(r, "retry")
    BY <1>1, SetStreamOK, StreamTypes DEF PCs
  <2>2. t.stream.isRunning # "awaiting_user"
    BY <2>1, StreamFacts DEF PCs
  <2>3. run.pc = "retry" /\ ~run.stopPending
    BY <1>1, <1>2 DEF Run
  <2>4. Move(r, t, run)
    BY <1>3
  <2> HIDE DEF t, run
  <2> QED BY <1>1, <1>2, <1>n, <2>1, <2>2, <2>3, <2>4, MovesOn DEF WorkPCs
<1>4. CASE Move(r, thread, [runs[r] EXCEPT !.pc = "compact"])
  <2> DEFINE run == [runs[r] EXCEPT !.pc = "compact"]
  <2>1. run.pc = "compact" /\ ~run.stopPending
    BY <1>1, <1>2 DEF Run
  <2>2. Move(r, thread, run)
    BY <1>4
  <2> HIDE DEF run
  <2> QED BY <1>1, <1>2, <1>n, <2>1, <2>2, MovesOn DEF WorkPCs
<1>5. ASSUME NEW cut \in BOOLEAN,
             LET t1 == AddMessage(thread, Assistant)
                 t2 == IF cut THEN AddMessage(t1, InterruptedTool) ELSE t1
             IN Finish(r, AddUserCheckpoint(SetStream(t2, NotRunning(TRUE))), TRUE)
      PROVE  SInv'
  <2> DEFINE t1 == AddMessage(thread, Assistant)
             t2 == IF cut THEN AddMessage(t1, InterruptedTool) ELSE t1
             t3 == SetStream(t2, NotRunning(TRUE))
             t4 == AddUserCheckpoint(t3)
  <2>1. ThreadOK(t1, n) /\ Clear(t1.messages)
    BY <1>1, <1>2, PlainPuts DEF Clear
  <2>2. ThreadOK(t2, n) /\ Clear(t2.messages)
    <3> HIDE DEF t1
    <3> QED BY <1>1, <2>1, PlainPuts DEF Clear
  <2>3. ThreadOK(t3, n) /\ Clear(t3.messages) /\ t3.stream = NotRunning(TRUE)
    <3> HIDE DEF t2
    <3> QED BY <1>1, <2>2, SetStreamOK, StreamTypes
  <2>4. ThreadOK(t4, n) /\ Clear(t4.messages) /\ t4.stream.isRunning = "no"
    <3> HIDE DEF t3
    <3> QED BY <1>1, <2>3, CheckpointClear DEF Clear, NotRunning
  <2>5. Finish(r, t4, TRUE)
    BY <1>5
  <2> HIDE DEF t4
  <2> QED BY <1>1, <1>n, <2>4, <2>5, Returns DEF Clear
<1> QED BY <1>3, <1>4, <1>5 DEF LLMError

LEMMA CompactedSettled ==
  ASSUME IInv, SInv, NEW r \in Runs, Compacted(r)
  PROVE  SInv'
<1> DEFINE t == SetStream(thread, StreamAt(r, "retry"))
           run == [runs[r] EXCEPT !.pc = "retry"]
<1>1. /\ ThreadOK(thread, Len(turns)) /\ Len(turns) \in Nat /\ Live(r) /\ runs[r].pc = "compact"
      /\ turns' = turns /\ runs[r] \in Run
  BY SettledFacts, IInvFacts DEF Compacted, Live
<1>2. /\ Clear(thread.messages) /\ thread.stream.isRunning # "awaiting_user"
      /\ thread.currCheckpointIdx <= Len(thread.messages) /\ ~runs[r].stopPending
  BY <1>1, SoleRun DEF WorkOK, Clear
<1>3. /\ ThreadOK(t, Len(turns')) /\ t.messages = thread.messages
      /\ t.currCheckpointIdx = thread.currCheckpointIdx /\ t.stream = StreamAt(r, "retry")
  BY <1>1, SetStreamOK, StreamTypes DEF PCs
<1>4. t.stream.isRunning # "awaiting_user"
  BY <1>3, StreamFacts DEF PCs
<1>5. run.pc = "retry" /\ ~run.stopPending
  BY <1>1, <1>2 DEF Run
<1>6. Move(r, t, run)
  BY DEF Compacted
<1> HIDE DEF t, run
<1> QED BY <1>1, <1>2, <1>3, <1>4, <1>5, <1>6, MovesOn DEF WorkPCs

LEMMA RetryElapsedSettled ==
  ASSUME IInv, SInv, NEW r \in Runs, RetryElapsed(r)
  PROVE  SInv'
<1>1. Live(r) /\ runs[r].pc = "retry" /\ UNCHANGED turns
  BY DEF RetryElapsed, Live
<1>2. ~EndsWith(thread.messages, "running_now")
  BY <1>1, SoleRun
<1>3. CASE Finish(r, SetStream(thread, NotRunning(FALSE)), paused)
  BY <1>1, <1>2, <1>3, SilentSettled
<1>4. CASE Send(r, runs[r])
  BY <1>1, <1>4, SendSettled
<1> QED BY <1>3, <1>4 DEF RetryElapsed

\* A request is added: on a thread that shows nothing it is awaited at once.
LEMMA RequestAdded ==
  ASSUME NEW n \in Nat, NEW t, ThreadOK(t, n), NEW id \in Turns, id <= n,
         \A i \in 1 .. Len(t.messages) : ~IsCarried(t.messages[i], id),
         ~EndsWith(t.messages, "running_now"), t.currCheckpointIdx <= Len(t.messages)
  PROVE  LET t1 == AddMessage(t, ToolMsg("tool_request", id)) IN
         /\ ThreadOK(t1, n) /\ EndsWith(t1.messages, "tool_request")
         /\ t1.currCheckpointIdx <= Len(t1.messages)
         /\ CarriedFrom(t1.messages, t.messages)
<1> DEFINE m == ToolMsg("tool_request", id)
           ms == Append(t.messages, m)
           t0 == Store(t, ms)
<1>1. t.messages \in Seq(Message) /\ Len(t.messages) \in Nat /\ t.currCheckpointIdx \in Nat
  BY LenNat
<1>2. m \in Message /\ m.role = "tool" /\ m.type = "tool_request" /\ m.id = id
  BY MessageTypes DEF ToolMsg, ToolTypes
<1>3. /\ ms \in Seq(Message) /\ Written(ms, t.messages, m) /\ Len(ms) = Len(t.messages) + 1
      /\ \A i \in 1 .. Len(ms) - 1 : i \in 1 .. Len(t.messages)
  BY <1>1, <1>2 DEF Written
<1>4. AddMessage(t, m) = Refresh(t0)
  BY DEF AddMessage
<1> HIDE DEF m, ms
<1>5. Fits(m, ms, t, n)
  BY <1>1, <1>2, <1>3 DEF Fits
<1>6. ThreadOK(t0, n) /\ Puts(t0, t, m) /\ t0.messages = ms
  BY <1>2, <1>3, <1>5, StorePuts
<1>7. EndsWith(t0.messages, "tool_request") /\ CarriedFrom(t0.messages, t.messages)
  BY <1>1, <1>2, <1>3, <1>6, WrittenFrom DEF Written, EndsWith, CarriedTypes
<1> HIDE DEF t0
<1>8. LET t1 == Refresh(t0) IN
      /\ ThreadOK(t1, n) /\ EndsWith(t1.messages, "tool_request")
      /\ t1.currCheckpointIdx = t0.currCheckpointIdx
      /\ Len(t1.messages) = Len(t0.messages) /\ CarriedFrom(t1.messages, t0.messages)
  BY <1>6, <1>7, RefreshOK
<1>9. t0.currCheckpointIdx <= Len(t0.messages)
  BY <1>1, <1>3, <1>6 DEF Puts
<1> QED BY <1>4, <1>7, <1>8, <1>9, CarriedTrans DEF m

\* A tool is called: its message says so, unless the thread had been stopped.
LEMMA BeginToolOK ==
  ASSUME NEW n \in Nat, NEW t, ThreadOK(t, n), NEW id \in Turns, id <= n,
         OnlyRunning(t.messages, id), t.currCheckpointIdx <= Len(t.messages),
         NEW r \in Runs, NEW kind
  PROVE  LET t1 == BeginTool(t, r, id, kind) IN
         /\ ThreadOK(t1, n) /\ ~EndsWith(t1.messages, "tool_request")
         /\ t1.currCheckpointIdx <= Len(t1.messages)
         /\ OnlyRunning(t1.messages, id)
         /\ t1.stream.isRunning = "tool" /\ t1.stream.owner = r
<1> DEFINE m == ToolMsg("running_now", id)
<1>1. t.messages \in Seq(Message) /\ Len(t.messages) \in Nat /\ t.currCheckpointIdx \in Nat
  BY LenNat
<1>2. m \in Message /\ m.role = "tool" /\ m.type = "running_now" /\ m.id = id
  BY MessageTypes DEF ToolMsg, ToolTypes
<1> HIDE DEF m
<1>3. PICK ms \in Seq(Message) :
        /\ Written(ms, t.messages, m) /\ Fits(m, ms, t, n)
        /\ UpdateLatestTool(t, m) = Refresh(Store(t, ms))
  BY <1>2, UpdateStores
<1> DEFINE t0 == Store(t, ms)
           t1 == Refresh(t0)
           t2 == SetStream(t1, StreamAt(r, ToolPC(kind)))
<1>4. ThreadOK(t0, n) /\ Puts(t0, t, m) /\ t0.messages = ms
  BY <1>2, <1>3, StorePuts
<1>5. OnlyRunning(ms, id) /\ ~EndsWith(ms, "tool_request")
  <2>1. ms[Len(ms)] = m /\ Len(ms) \in Nat
    BY <1>3 DEF Written
  <2>2. \A i \in 1 .. Len(ms) - 1 : ms[i] = t.messages[i] /\ ~IsCarried(t.messages[i], id)
    BY <1>2, <1>3 DEF Written, Fits, CarriedTypes
  <2>3. \A i \in 1 .. Len(ms) : i = Len(ms) \/ i \in 1 .. Len(ms) - 1
    BY <2>1
  <2> QED BY <1>2, <2>1, <2>2, <2>3 DEF OnlyRunning, EndsWith
<1>6. Len(t.messages) <= Len(t0.messages) /\ t0.currCheckpointIdx = t.currCheckpointIdx
  BY <1>1, <1>3, <1>4 DEF Written, Puts
<1>7. t0.currCheckpointIdx <= Len(t0.messages)
  BY <1>1, <1>4, <1>6
<1> HIDE DEF t0
<1>8. /\ ThreadOK(t1, n) /\ ~EndsWith(t1.messages, "tool_request")
      /\ t1.currCheckpointIdx <= Len(t1.messages) /\ OnlyRunning(t1.messages, id)
  BY <1>4, <1>5, <1>7, RefreshOK, OnlyRunningFrom
<1> HIDE DEF t1
<1>9. /\ ThreadOK(t2, n) /\ t2.messages = t1.messages
      /\ t2.currCheckpointIdx = t1.currCheckpointIdx /\ t2.stream = StreamAt(r, ToolPC(kind))
  BY <1>8, SetStreamOK, StreamTypes, ToolPCs
<1>10. t2.stream.isRunning = "tool" /\ t2.stream.owner = r
  BY <1>9, StreamFacts, ToolPCs
<1>11. BeginTool(t, r, id, kind) = t2
  BY <1>3 DEF BeginTool, t0, t1, m
<1> HIDE DEF t2
<1> QED BY <1>8, <1>9, <1>10, <1>11

\* The loop starts over.
LEMMA LoopSettled ==
  ASSUME IInv, SInv, NEW r \in Runs, Live(r), NEW t, NEW run, run.pc = "prep", ~run.stopPending,
         thread' = AtLoop(t, r), runs' = [runs EXCEPT ![r] = run], UNCHANGED call,
         Len(turns') \in Nat, Len(turns) <= Len(turns'), ThreadOK(t, Len(turns')),
         Clear(t.messages), t.currCheckpointIdx <= Len(t.messages)
  PROVE  SInv'
<1> DEFINE t1 == SetStream(t, StreamAt(r, "prep"))
<1>1. /\ ThreadOK(t1, Len(turns')) /\ t1.messages = t.messages
      /\ t1.currCheckpointIdx = t.currCheckpointIdx /\ t1.stream = StreamAt(r, "prep")
  BY SetStreamOK, StreamTypes DEF PCs
<1>2. t1.stream.isRunning # "awaiting_user"
  BY <1>1, StreamFacts DEF PCs
<1>3. thread' = t1
  BY DEF AtLoop
<1>4. WorkOK(t1, run, Len(turns'))
  BY DEF WorkOK, WorkPCs
<1> HIDE DEF t1
<1> QED BY <1>1, <1>2, <1>3, <1>4, GoesOn DEF Clear

\* A run that is not starting a tool begins its loop again.
LEMMA LoopRun ==
  ASSUME NEW run \in Run
  PROVE  /\ Loop(run).pc = "prep" /\ Loop(run).stopPending = run.stopPending
         /\ \A f : LET run1 == [Loop(run) EXCEPT !.force = f]
                   IN run1.pc = "prep" /\ run1.stopPending = run.stopPending
BY DEF Loop, Run

LEMMA RequestOrCallSettled ==
  ASSUME IInv, SInv, NEW r \in Runs, runs[r].pc \in {"llm", "validate"}, NEW t, NEW id \in Turns, NEW kind,
         RequestOrCall(r, t, id, kind),
         Len(turns') \in Nat, Len(turns) <= Len(turns'), ThreadOK(t, Len(turns')), id <= Len(turns'),
         Clear(t.messages), t.currCheckpointIdx <= Len(t.messages), OnlyRunning(t.messages, id)
  PROVE  SInv'
<1> DEFINE n == Len(turns')
<1>1. runs[r] \in Run /\ ~runs[r].stopPending /\ ~runs[r].interrupted /\ Live(r)
  BY IInvFacts, SoleRun DEF WorkOK, Live
<1>n. n \in Nat /\ Len(turns) <= n /\ ThreadOK(t, n) /\ id <= n /\ Len(turns') = n
  OBVIOUS
<1> HIDE DEF n
<1>2. PICK auto \in AutoApprove, loaded \in BOOLEAN :
        LET t1 == IF kind = "edit" /\ loaded THEN AddMessage(t, Checkpoint("tool_edit")) ELSE t
            t2 == IF kind = "read" THEN t1 ELSE AddMessage(t1, ToolMsg("tool_request", id))
        IN IF kind = "read" \/ auto
           THEN Move(r, BeginTool(t2, r, id, kind),
                     [runs[r] EXCEPT !.pc = ToolPC(kind), !.tool = id])
           ELSE Finish(r, SetStream(t2, AwaitingUser), paused)
  BY DEF RequestOrCall
<1> DEFINE t1 == IF kind = "edit" /\ loaded THEN AddMessage(t, Checkpoint("tool_edit")) ELSE t
           t2 == IF kind = "read" THEN t1 ELSE AddMessage(t1, ToolMsg("tool_request", id))
           t3 == BeginTool(t2, r, id, kind)
           run == [runs[r] EXCEPT !.pc = ToolPC(kind), !.tool = id]
           t4 == SetStream(t2, AwaitingUser)
<1>3. /\ ThreadOK(t1, n) /\ Clear(t1.messages) /\ t1.currCheckpointIdx <= Len(t1.messages)
      /\ OnlyRunning(t1.messages, id)
  <2>1. CASE kind = "edit" /\ loaded
    <3> DEFINE u == AddMessage(t, Checkpoint("tool_edit"))
    <3>1. ThreadOK(u, n) /\ Clear(u.messages) /\ Extends(u, t)
      BY <1>n, PlainPuts DEF Clear
    <3>2. t1 = u
      BY <2>1
    <3> HIDE DEF u, t1
    <3>3. u.currCheckpointIdx <= Len(u.messages)
      BY <1>n, <3>1, LenNat DEF Extends
    <3> QED BY <3>1, <3>2, <3>3, OnlyRunningFrom DEF Extends
  <2>2. CASE ~(kind = "edit" /\ loaded)
    BY <1>n, <2>2
  <2> QED BY <2>1, <2>2
<1>4. \A i \in 1 .. Len(t1.messages) : ~IsCarried(t1.messages[i], id)
  <2> HIDE DEF t1
  <2> SUFFICES ASSUME NEW i \in 1 .. Len(t1.messages), IsCarried(t1.messages[i], id) PROVE FALSE
    OBVIOUS
  <2>1. t1.messages[i].type = "running_now"
    BY <1>3 DEF OnlyRunning
  <2>2. i = Len(t1.messages)
    BY <1>3, <2>1 DEF ThreadOK, SnapshotOK, RunningLast
  <2> QED BY <1>3, <2>1, <2>2 DEF Clear, EndsWith
<1> HIDE DEF t1
<1>5. /\ ThreadOK(t2, n) /\ t2.currCheckpointIdx <= Len(t2.messages)
      /\ OnlyRunning(t2.messages, id)
      /\ kind # "read" => EndsWith(t2.messages, "tool_request")
  <2>1. CASE kind = "read"
    BY <1>3, <2>1
  <2>2. CASE kind # "read"
    <3> DEFINE u == AddMessage(t1, ToolMsg("tool_request", id))
    <3>1. /\ ThreadOK(u, n) /\ EndsWith(u.messages, "tool_request")
          /\ u.currCheckpointIdx <= Len(u.messages) /\ CarriedFrom(u.messages, t1.messages)
      BY <1>n, <1>3, <1>4, RequestAdded DEF Clear
    <3>2. t2 = u
      BY <2>2
    <3> HIDE DEF u, t2
    <3> QED BY <1>3, <3>1, <3>2, OnlyRunningFrom
  <2> QED BY <2>1, <2>2
<1>6. CASE kind = "read" \/ auto
  <2>1. Move(r, t3, run)
    BY <1>2, <1>6 DEF t1
  <2>2. run.pc = ToolPC(kind) /\ run.tool = id /\ run.stopPending = runs[r].stopPending
        /\ run.interrupted = runs[r].interrupted
    BY <1>1 DEF Run
  <2>3. ~run.stopPending /\ ~run.interrupted /\ run.pc # "off" /\ run.tool <= n
    BY <1>1, <1>n, <2>2, ToolPCs
  <2>4. /\ ThreadOK(t3, n) /\ ~EndsWith(t3.messages, "tool_request")
        /\ t3.currCheckpointIdx <= Len(t3.messages)
        /\ OnlyRunning(t3.messages, id)
        /\ t3.stream.isRunning = "tool" /\ t3.stream.owner = r
    <3> HIDE DEF t2
    <3> QED BY <1>n, <1>5, BeginToolOK
  <2> HIDE DEF t3, run
  <2>5. WorkOK(t3, run, n)
    BY <2>2, <2>3, <2>4 DEF WorkOK
  <2>6. thread' = t3 /\ runs' = [runs EXCEPT ![r] = run] /\ UNCHANGED call
    BY <2>1 DEF Move
  <2> QED BY <1>n, <2>3, <2>4, <2>5, <2>6, <1>1, GoesOn
<1>7. CASE ~(kind = "read" \/ auto)
  <2>1. Finish(r, t4, paused)
    BY <1>2, <1>7 DEF t1
  <2>2. /\ ThreadOK(t4, n) /\ EndsWith(t4.messages, "tool_request")
        /\ t4.stream = AwaitingUser
    <3> HIDE DEF t2
    <3> QED BY <1>n, <1>5, <1>7, SetStreamOK, StreamTypes
  <2> HIDE DEF t4
  <2>3. t4.stream.isRunning = "awaiting_user" /\ ~EndsWith(t4.messages, "running_now")
    BY <2>2 DEF AwaitingUser, EndsWith
  <2> QED BY <1>n, <2>1, <2>2, <2>3, <1>1, Returns
<1> QED BY <1>6, <1>7

LEMMA LLMFinalSettled ==
  ASSUME IInv, SInv, NEW r \in Runs, LLMFinal(r)
  PROVE  SInv'
<1> DEFINE t0 == AddMessage(thread, Assistant)
           t == SetStream(t0, StreamAt(r, "validate"))
           n == Len(turns)
           id == n + 1
<1>1. /\ ThreadOK(thread, n) /\ n \in Nat /\ id \in Nat /\ runs[r].pc = "llm" /\ runs[r] \in Run
      /\ Live(r) /\ turns \in Seq(Tools \cup {"handoff"})
  <2>1. ThreadOK(thread, n) /\ n \in Nat /\ id \in Nat
    BY SettledFacts
  <2>2. runs[r].pc = "llm" /\ runs[r] \in Run /\ Live(r)
    BY IInvFacts DEF LLMFinal, Live
  <2>3. turns \in Seq(Tools \cup {"handoff"})
    BY DEF IInv, TypeOK
  <2> QED BY <2>1, <2>2, <2>3
<1>2. /\ Clear(thread.messages) /\ thread.stream.isRunning # "awaiting_user"
      /\ thread.currCheckpointIdx <= Len(thread.messages) /\ ~runs[r].stopPending
  BY <1>1, SoleRun DEF WorkOK, Clear
<1>3. ThreadOK(t0, n) /\ Clear(t0.messages) /\ t0.currCheckpointIdx <= Len(t0.messages)
  <2>1. ThreadOK(t0, n) /\ Clear(t0.messages) /\ Extends(t0, thread)
    BY <1>1, <1>2, PlainPuts DEF Clear
  <2> HIDE DEF t0
  <2> QED BY <1>1, <1>2, <2>1, LenNat DEF Extends
<1> HIDE DEF t0
<1>4. /\ ThreadOK(t, n) /\ Clear(t.messages) /\ t.currCheckpointIdx <= Len(t.messages)
      /\ t.stream = StreamAt(r, "validate")
  <2>1. StreamAt(r, "validate") \in Stream
    BY StreamTypes DEF PCs
  <2>2. /\ ThreadOK(t, n) /\ t.messages = t0.messages
        /\ t.currCheckpointIdx = t0.currCheckpointIdx /\ t.stream = StreamAt(r, "validate")
    BY <1>1, <1>3, <2>1, SetStreamOK
  <2> HIDE DEF t
  <2> QED BY <1>3, <2>2
<1>5. t.stream.isRunning # "awaiting_user"
  BY <1>4, StreamFacts DEF PCs
<1> HIDE DEF t
<1>6. ThreadOK(t, id)
  BY <1>1, <1>4, ThreadMonotone
<1>7. OnlyRunning(t.messages, id)
  <2> SUFFICES ASSUME NEW i \in 1 .. Len(t.messages), IsCarried(t.messages[i], id) PROVE FALSE
    BY DEF OnlyRunning
  <2>1. t.messages \in Seq(Message) /\ t.messages[i] \in Message
    BY <1>4, LenNat
  <2>2. t.messages[i].role = "tool" /\ t.messages[i].id = id
    BY <2>1, ToolMessages DEF IsCarried, CarriedTypes, ToolTypes
  <2>3. t.messages[i].id <= n
    BY <1>4, <2>2 DEF ThreadOK, SnapshotOK, KnownIds
  <2> QED BY <1>1, <2>2, <2>3
<1>8. ASSUME NEW kind, turns' = Append(turns, kind), kind \in Tools \cup {"handoff"}
      PROVE  Len(turns') = id /\ Len(turns') \in Nat /\ Len(turns) <= Len(turns')
  BY <1>1, <1>8
<1>9. CASE /\ id \in Turns
           /\ turns' = Append(turns, "handoff")
           /\ \E cut \in BOOLEAN :
                LET t1 == IF cut THEN AddMessage(t, InterruptedTool) ELSE t
                IN Move(r, AtLoop(t1, r), Loop(runs[r]))
  <2>1. PICK cut \in BOOLEAN :
          LET t1 == IF cut THEN AddMessage(t, InterruptedTool) ELSE t
          IN Move(r, AtLoop(t1, r), Loop(runs[r]))
    BY <1>9
  <2> DEFINE t1 == IF cut THEN AddMessage(t, InterruptedTool) ELSE t
             u == AddMessage(t, InterruptedTool)
  <2>2. ThreadOK(u, id) /\ Clear(u.messages) /\ Extends(u, t)
    BY <1>1, <1>4, <1>6, PlainPuts DEF Clear
  <2>3. t1 \in {t, u}
    OBVIOUS
  <2>4. Move(r, AtLoop(t1, r), Loop(runs[r]))
    BY <2>1
  <2> HIDE DEF t1, u
  <2>5. u.currCheckpointIdx <= Len(u.messages)
    BY <1>4, <1>6, <2>2, LenNat DEF Extends
  <2>6. ThreadOK(t1, id) /\ Clear(t1.messages) /\ t1.currCheckpointIdx <= Len(t1.messages)
    BY <1>4, <1>6, <2>2, <2>3, <2>5
  <2> DEFINE run == Loop(runs[r])
  <2>7. run.pc = "prep" /\ ~run.stopPending
    BY <1>1, <1>2, LoopRun
  <2>8. thread' = AtLoop(t1, r) /\ runs' = [runs EXCEPT ![r] = run] /\ UNCHANGED call
    BY <2>4 DEF Move
  <2> HIDE DEF run
  <2>9. Len(turns') = id /\ Len(turns') \in Nat /\ Len(turns) <= Len(turns')
    BY <1>8, <1>9
  <2>10. ThreadOK(t1, Len(turns'))
    BY <2>6, <2>9
  <2> QED BY <1>1, <2>6, <2>7, <2>8, <2>9, <2>10, LoopSettled
<1>10. CASE /\ id \in Turns
            /\ \E kind \in Tools :
                 /\ turns' = Append(turns, kind)
                 /\ IF kind = "mcp" THEN RequestOrCall(r, t, id, kind)
                    ELSE Move(r, t, [runs[r] EXCEPT !.pc = "validate", !.tool = id])
  <2>1. PICK kind \in Tools :
          /\ turns' = Append(turns, kind)
          /\ IF kind = "mcp" THEN RequestOrCall(r, t, id, kind)
             ELSE Move(r, t, [runs[r] EXCEPT !.pc = "validate", !.tool = id])
    BY <1>10
  <2>2. Len(turns') = id /\ Len(turns') \in Nat /\ Len(turns) <= Len(turns')
    BY <1>8, <2>1
  <2>3. ThreadOK(t, Len(turns'))
    BY <1>6, <2>2
  <2>4. CASE kind = "mcp"
    <3>1. RequestOrCall(r, t, id, kind)
      BY <2>1, <2>4
    <3> DEFINE i == id
    <3>2. i \in Turns /\ RequestOrCall(r, t, i, kind) /\ OnlyRunning(t.messages, i) /\ i <= Len(turns')
      BY <1>1, <1>7, <1>10, <2>2, <3>1
    <3> HIDE DEF i
    <3> QED BY <1>1, <1>4, <2>2, <2>3, <3>2, RequestOrCallSettled
  <2>5. CASE kind # "mcp"
    <3> DEFINE run == [runs[r] EXCEPT !.pc = "validate", !.tool = id]
    <3>1. run.pc = "validate" /\ run.tool = id /\ ~run.stopPending
      BY <1>1, <1>2 DEF Run
    <3>2. Move(r, t, run)
      BY <2>1, <2>5
    <3> HIDE DEF run
    <3>3. WorkOK(t, run, Len(turns'))
      BY <1>1, <1>7, <2>2, <3>1 DEF WorkOK
    <3>4. thread' = t /\ runs' = [runs EXCEPT ![r] = run] /\ UNCHANGED call
      BY <3>2 DEF Move
    <3> QED BY <1>1, <1>4, <1>5, <2>2, <2>3, <3>1, <3>3, <3>4, GoesOn DEF Clear
  <2> QED BY <2>4, <2>5
<1>11. CASE /\ Move(r, AtLoop(t, r), [Loop(runs[r]) EXCEPT !.force = FALSE])
            /\ UNCHANGED turns
  <2> DEFINE run == [Loop(runs[r]) EXCEPT !.force = FALSE]
  <2>1. run.pc = "prep" /\ ~run.stopPending
    BY <1>1, <1>2, LoopRun
  <2>2. thread' = AtLoop(t, r) /\ runs' = [runs EXCEPT ![r] = run] /\ UNCHANGED call
    BY <1>11 DEF Move
  <2> HIDE DEF run
  <2>3. turns' = turns /\ Len(turns') \in Nat /\ Len(turns) <= Len(turns') /\ ThreadOK(t, Len(turns'))
    BY <1>1, <1>4, <1>11
  <2> QED BY <1>1, <1>4, <2>1, <2>2, <2>3, LoopSettled
<1>12. CASE Finish(r, Ended(t), paused) /\ UNCHANGED turns
  <2>1. turns' = turns /\ Len(turns') \in Nat /\ Len(turns) <= Len(turns') /\ ThreadOK(t, Len(turns'))
    BY <1>1, <1>4, <1>12
  <2>2. ~EndsWith(t.messages, "running_now")
    BY <1>4 DEF Clear
  <2> QED BY <1>1, <1>12, <2>1, <2>2, EndedSettled
<1> QED
  BY <1>9, <1>10, <1>11, <1>12 DEF LLMFinal, t, t0

LEMMA ContinueSettled ==
  ASSUME IInv, SInv, NEW r \in Runs, runs[r].pc \notin {"off", "callTool"}, NEW t, Continue(r, t),
         UNCHANGED turns, ThreadOK(t, Len(turns)),
         Clear(t.messages), t.currCheckpointIdx <= Len(t.messages)
  PROVE  SInv'
<1> DEFINE f == Loop(runs[r]).force
                  \/ (turns[runs[r].tool] = "create" /\ ~runs[r].first)
           run == [Loop(runs[r]) EXCEPT !.force = f]
<1>1. Live(r) /\ runs[r] \in Run /\ Len(turns) \in Nat
  BY SettledFacts, IInvFacts DEF Live
<1>2. ~runs[r].stopPending
  BY <1>1, SoleRun DEF WorkOK
<1>3. thread' = AtLoop(t, r) /\ runs' = [runs EXCEPT ![r] = run] /\ call' = call
  BY DEF Continue, Move
<1>4. run.pc = "prep" /\ ~run.stopPending
  <2> HIDE DEF f
  <2> QED BY <1>1, <1>2, LoopRun
<1>5. Len(turns') \in Nat /\ Len(turns) <= Len(turns') /\ ThreadOK(t, Len(turns'))
  BY <1>1
<1> HIDE DEF run
<1> QED BY <1>1, <1>3, <1>4, <1>5, LoopSettled

LEMMA ValidatedSettled ==
  ASSUME IInv, SInv, NEW r \in Runs, Validated(r)
  PROVE  SInv'
<1> DEFINE n == Len(turns)
           id == runs[r].tool
<1>1. ThreadOK(thread, n) /\ n \in Nat
  BY SettledFacts
<1>2. runs[r].pc = "validate" /\ Live(r) /\ id \in Turns /\ UNCHANGED turns
  BY IInvFacts DEF Validated, Live, RunOK
<1>3. /\ Clear(thread.messages) /\ thread.currCheckpointIdx <= Len(thread.messages)
      /\ id <= n /\ OnlyRunning(thread.messages, id)
  BY <1>2, SoleRun DEF WorkOK, Clear, WorkPCs
<1> HIDE DEF n, id
<1>4. Len(turns') = n /\ Len(turns) = n
  BY <1>2 DEF n
<1>5. CASE RequestOrCall(r, thread, id, turns[id])
  BY <1>1, <1>2, <1>3, <1>4, <1>5, RequestOrCallSettled
<1>6. CASE Continue(r, AddMessage(thread, ToolMsg("invalid_params", id)))
  <2> DEFINE m == ToolMsg("invalid_params", id)
             t == AddMessage(thread, m)
  <2>1. m \in Message /\ m.role = "tool" /\ m.type = "invalid_params" /\ m.id = id
    BY <1>2, MessageTypes DEF ToolMsg, ToolTypes
  <2> HIDE DEF m
  <2>2. Fits(m, Append(thread.messages, m), thread, n)
    BY <1>3, <2>1 DEF Fits, CarriedTypes, Clear
  <2>3. ThreadOK(t, n) /\ Puts(t, thread, m)
    <3>1. m.type \notin {"tool_request", "running_now"}
      BY <2>1
    <3> QED BY <1>1, <2>1, <2>2, <3>1, AddPuts
  <2> HIDE DEF t
  <2>4. Clear(t.messages) /\ Len(thread.messages) <= Len(t.messages)
    <3>1. ThreadOK(thread, n)
      BY <1>1
    <3>2. /\ \A type : EndsWith(t.messages, type) <=> m.type = type
          /\ Len(thread.messages) <= Len(t.messages)
      BY <2>3, <3>1, PutsExtends
    <3> QED BY <2>1, <3>2 DEF Clear
  <2>5. t.currCheckpointIdx <= Len(t.messages)
    BY <1>1, <1>3, <2>3, <2>4, LenNat DEF Puts
  <2>6. Continue(r, t)
    BY <1>6 DEF t, m
  <2> QED BY <1>2, <1>4, <2>3, <2>4, <2>5, <2>6, ContinueSettled
<1> QED BY <1>5, <1>6 DEF Validated, id

\* The outcome of a tool is written.
LEMMA OutcomeOK ==
  ASSUME IInv, SInv, NEW r \in Runs, runs[r].pc \in {"callTool", "toolResult", "mcp"},
         NEW type \in {"success", "tool_error"}
  PROVE  LET t == UpdateLatestTool(thread, ToolMsg(type, runs[r].tool)) IN
         /\ ThreadOK(t, Len(turns)) /\ Clear(t.messages) /\ t.currCheckpointIdx <= Len(t.messages)
<1> DEFINE n == Len(turns)
           id == runs[r].tool
           m == ToolMsg(type, id)
           t == UpdateLatestTool(thread, m)
<1>1. ThreadOK(thread, n) /\ n \in Nat
  BY SettledFacts
<1>2. Live(r) /\ id \in Turns
  BY IInvFacts DEF Live, RunOK
<1>3. /\ thread.currCheckpointIdx <= Len(thread.messages)
      /\ id <= n /\ OnlyRunning(thread.messages, id)
  BY <1>2, SoleRun DEF WorkOK, WorkPCs
<1> HIDE DEF n, id
<1>4. m \in Message /\ m.role = "tool" /\ m.type = type /\ m.id = id
  BY <1>2, MessageTypes DEF ToolMsg, ToolTypes
<1> HIDE DEF m
<1>5. ThreadOK(t, n) /\ Puts(t, thread, m)
  BY <1>1, <1>3, <1>4, UpdatePuts
<1>6. t = UpdateLatestTool(thread, ToolMsg(type, runs[r].tool))
  BY DEF m, id
<1> HIDE DEF t
<1>7. Clear(t.messages) /\ Len(thread.messages) <= Len(t.messages)
  BY <1>1, <1>4, <1>5, PutsExtends DEF Clear
<1>8. t.currCheckpointIdx <= Len(t.messages)
  BY <1>1, <1>3, <1>5, <1>7, LenNat DEF Puts
<1> QED BY <1>5, <1>6, <1>7, <1>8 DEF n

LEMMA ToolAnswerSettled ==
  ASSUME IInv, SInv, NEW r \in Runs, runs[r].pc \in {"toolResult", "mcp"}, ToolAnswer(r),
         UNCHANGED turns
  PROVE  SInv'
<1>1. PICK type \in {"success", "tool_error"} :
        Continue(r, UpdateLatestTool(thread, ToolMsg(type, runs[r].tool)))
  BY DEF ToolAnswer
<1> DEFINE t == UpdateLatestTool(thread, ToolMsg(type, runs[r].tool))
<1>2. ThreadOK(t, Len(turns)) /\ Clear(t.messages) /\ t.currCheckpointIdx <= Len(t.messages)
  BY OutcomeOK
<1> HIDE DEF t
<1>3. Continue(r, t)
  BY <1>1 DEF t
<1> QED BY <1>2, <1>3, ContinueSettled

LEMMA McpResultSettled ==
  ASSUME IInv, SInv, NEW r \in Runs, McpResult(r)
  PROVE  SInv'
BY ToolAnswerSettled DEF McpResult

LEMMA ToolResultSettled ==
  ASSUME IInv, SInv, NEW r \in Runs, ToolResult(r)
  PROVE  SInv'
<1> DEFINE n == Len(turns)
           silent == SetStream(thread, NotRunning(FALSE))
<1>1. runs[r].pc = "toolResult" /\ runs[r] \in Run /\ UNCHANGED turns /\ Live(r)
  BY IInvFacts DEF ToolResult, Live
<1>2. ThreadOK(thread, n) /\ n \in Nat
  BY SettledFacts
<1>3. /\ thread.currCheckpointIdx <= Len(thread.messages)
      /\ runs[r].interrupted => ~EndsWith(thread.messages, "running_now")
      /\ ~runs[r].stopPending
  BY <1>1, SoleRun DEF WorkOK
<1> HIDE DEF n
<1>4. CASE ToolAnswer(r)
  BY <1>1, <1>4, ToolAnswerSettled
<1>5. CASE runs[r].interrupted /\ Finish(r, silent, paused)
  BY <1>1, <1>3, <1>5, SilentSettled
<1>6. CASE runs[r].interrupted /\ Move(r, AtLoop(AddUserCheckpoint(silent), r), Loop(runs[r]))
  <2> DEFINE t == AddUserCheckpoint(silent)
             run == Loop(runs[r])
  <2>1. /\ ThreadOK(silent, n) /\ silent.messages = thread.messages
        /\ silent.currCheckpointIdx = thread.currCheckpointIdx
    BY <1>2, SetStreamOK, StreamTypes
  <2> HIDE DEF silent
  <2>2. ThreadOK(t, n) /\ Clear(t.messages) /\ Extends(t, silent)
    BY <1>2, <1>3, <1>6, <2>1, CheckpointClear
  <2> HIDE DEF t
  <2>3. t.currCheckpointIdx <= Len(t.messages)
    BY <1>3, <2>1, <2>2, LenNat DEF Extends
  <2>4. run.pc = "prep" /\ ~run.stopPending
    BY <1>1, <1>3, LoopRun
  <2>5. thread' = AtLoop(t, r) /\ runs' = [runs EXCEPT ![r] = run] /\ call' = call
    BY <1>6 DEF Move, t
  <2>6. Len(turns') \in Nat /\ Len(turns) <= Len(turns') /\ ThreadOK(t, Len(turns'))
    BY <1>1, <1>2, <2>2 DEF n
  <2> HIDE DEF run
  <2> QED BY <1>1, <2>2, <2>3, <2>4, <2>5, <2>6, LoopSettled
<1> QED BY <1>4, <1>5, <1>6 DEF ToolResult

LEMMA ToolFailsToStartSettled ==
  ASSUME IInv, SInv, NEW r \in Runs, ToolFailsToStart(r)
  PROVE  SInv'
<1> DEFINE t == UpdateLatestTool(thread, ToolMsg("tool_error", runs[r].tool))
           f == Loop(runs[r]).force
                  \/ (turns[runs[r].tool] = "create" /\ ~runs[r].first)
           run == [Loop(runs[r]) EXCEPT !.stopPending = FALSE, !.force = f]
<1>1. runs[r].pc = "callTool" /\ runs[r] \in Run /\ turns' = turns /\ call' = call /\ Live(r)
  BY IInvFacts DEF ToolFailsToStart, Live
<1>2. ThreadOK(t, Len(turns)) /\ Clear(t.messages) /\ t.currCheckpointIdx <= Len(t.messages)
  BY <1>1, OutcomeOK
<1>3. Len(turns) \in Nat
  BY SettledFacts
<1>4. run.pc = "prep" /\ ~run.stopPending
  <2> HIDE DEF f
  <2> QED BY <1>1 DEF Loop, Run
<1>5. thread' = AtLoop(t, r) /\ runs' = [runs EXCEPT ![r] = run]
  BY DEF ToolFailsToStart
<1> HIDE DEF t, run
<1>6. Len(turns') \in Nat /\ Len(turns) <= Len(turns') /\ ThreadOK(t, Len(turns'))
  BY <1>1, <1>2, <1>3
<1> QED BY <1>1, <1>2, <1>4, <1>5, <1>6, LoopSettled

LEMMA ToolStartedSettled ==
  ASSUME IInv, SInv, NEW r \in Runs, ToolStarted(r)
  PROVE  SInv'
<1> DEFINE run == [runs[r] EXCEPT !.pc = "toolResult",
                     !.interrupted = runs[r].stopPending, !.stopPending = FALSE]
           n == Len(turns)
<1>1. runs[r].pc = "callTool" /\ runs[r] \in Run /\ turns' = turns /\ call' = call /\ Live(r)
  BY IInvFacts DEF ToolStarted, Live
<1>2. ThreadOK(thread, n) /\ n \in Nat
  BY SettledFacts
<1>3. /\ thread.currCheckpointIdx <= Len(thread.messages)
      /\ ~EndsWith(thread.messages, "tool_request") /\ thread.stream.isRunning # "awaiting_user"
      /\ EndsWith(thread.messages, "running_now") =>
           thread.stream = StreamAt(r, "callTool") /\ ~runs[r].stopPending
      /\ runs[r].tool <= n /\ OnlyRunning(thread.messages, runs[r].tool)
  BY <1>1, SoleRun DEF WorkOK, WorkPCs
<1>4. /\ run.pc = "toolResult" /\ run.tool = runs[r].tool
      /\ ~run.stopPending /\ run.interrupted = runs[r].stopPending
  BY <1>1 DEF Run
<1>5. runs' = [runs EXCEPT ![r] = run]
  BY <1>1 DEF ToolStarted, IInv, TypeOK, Run
<1> HIDE DEF run, n
<1>6. Len(turns') = n /\ Len(turns) = n
  BY <1>1 DEF n
<1>7. CASE runs[r].stopPending
  <2> DEFINE t == SetStream(thread, NotRunning(FALSE))
  <2>1. /\ ThreadOK(t, n) /\ t.messages = thread.messages
        /\ t.currCheckpointIdx = thread.currCheckpointIdx /\ t.stream = NotRunning(FALSE)
    BY <1>2, SetStreamOK, StreamTypes
  <2>2. thread' = t
    BY <1>7 DEF ToolStarted
  <2> HIDE DEF t
  <2>3. t.stream.isRunning # "awaiting_user"
    BY <2>1 DEF NotRunning
  <2>4. WorkOK(t, run, n)
    BY <1>3, <1>4, <2>1 DEF WorkOK
  <2>5. /\ ~EndsWith(t.messages, "tool_request") /\ ~EndsWith(t.messages, "running_now")
        /\ t.currCheckpointIdx <= Len(t.messages)
    BY <1>3, <1>7, <2>1
  <2>6. Len(turns') \in Nat /\ Len(turns) <= Len(turns') /\ ThreadOK(t, Len(turns'))
        /\ WorkOK(t, run, Len(turns'))
    BY <1>2, <1>6, <2>1, <2>4
  <2>7. run.pc # "off"
    BY <1>4
  <2> QED BY <1>1, <1>5, <2>2, <2>3, <2>5, <2>6, <2>7, GoesOn
<1>8. CASE ~runs[r].stopPending
  <2>1. thread' = thread
    BY <1>8 DEF ToolStarted
  <2>2. WorkOK(thread, run, n)
    BY <1>3, <1>4 DEF WorkOK
  <2>3. EndsWith(thread.messages, "running_now") =>
          thread.stream.isRunning = "tool" /\ thread.stream.owner = r
    BY <1>3, StreamFacts DEF PCs
  <2>4. Len(turns') \in Nat /\ Len(turns) <= Len(turns') /\ ThreadOK(thread, Len(turns'))
        /\ WorkOK(thread, run, Len(turns'))
    BY <1>2, <1>6, <2>2
  <2>5. run.pc # "off" /\ ~run.stopPending /\ ~run.interrupted
    BY <1>4, <1>8
  <2> QED BY <1>1, <1>3, <1>5, <2>1, <2>3, <2>4, <2>5, GoesOn
<1> QED BY <1>7, <1>8

LEMMA RunStepSettled ==
  ASSUME IInv, SInv, NEW r \in Runs, RunStep(r)
  PROVE  SInv'
BY PreparedSettled, PrepareFailsSettled, SupersededSettled, LLMErrorSettled, CompactedSettled, RetryElapsedSettled,
   LLMFinalSettled, ValidatedSettled, ToolStartedSettled, ToolFailsToStartSettled,
   ToolResultSettled, McpResultSettled DEF RunStep

-----------------------------------------------------------------------------
\* Messages on their way into the history

\* While nobody works on the thread, it shows what it asks for or what a failed
\* run has left.
LEMMA NobodyWorks ==
  ASSUME IInv, SInv, LiveIn(runs) = {}
  PROVE  /\ thread.stream \in Still /\ ~EndsWith(thread.messages, "running_now")
         /\ \A r \in Runs : runs[r].pc = "off" /\ ~runs[r].stopPending
<1>1. thread.stream \in Still
  BY DEF IInv, Shows, LiveIn
<1>2. ~EndsWith(thread.messages, "running_now")
  BY <1>1, StreamFacts DEF SInv, Settled, RunningOK, Still
<1>3. \A r \in Runs : runs[r].pc = "off" /\ ~runs[r].stopPending
  BY DEF LiveIn, SInv, Settled, WorkOK
<1> QED BY <1>1, <1>2, <1>3

LEMMA WaitingFacts ==
  ASSUME IInv, SInv, NEW u \in Users, Waiting(u)
  PROVE  /\ LiveIn(runs) = {} /\ WaitingIn(call) = {u}
         /\ Clear(thread.messages) /\ thread.stream.isRunning # "awaiting_user"
<1>1. u \in WaitingIn(call)
  BY DEF Waiting, WaitingIn
<1>2. LiveIn(runs) = {} /\ WaitingIn(call) = {u}
  BY <1>1 DEF SInv, Settled, Single
<1>3. ~EndsWith(thread.messages, "tool_request") /\ thread.stream.isRunning # "awaiting_user"
  BY <1>1 DEF SInv, Settled, AwaitsOK
<1>4. ~EndsWith(thread.messages, "running_now")
  BY <1>2, NobodyWorks
<1> QED BY <1>2, <1>3, <1>4 DEF Clear

\* What a change of the stage of one message changes.
LEMMA StageSettled ==
  ASSUME IInv, SInv, NEW u \in Users, NEW stage, NEW cs, cs = SetStage(u, stage)
  PROVE  /\ \A v \in Users : BaseOK(cs[v], Len(turns))
         /\ stage \in {"select", "content"} => WaitingIn(cs) = WaitingIn(call) \cup {u}
         /\ stage \notin {"select", "content"} => WaitingIn(cs) = WaitingIn(call) \ {u}
<1>1. call \in [Users -> Call] /\ \A v \in Users : call[v] \in Call
  BY DEF IInv, TypeOK
<1>2. /\ cs[u].stage = stage /\ cs[u].base = call[u].base
      /\ \A v \in Users : v # u => cs[v] = call[v]
  BY <1>1 DEF SetStage, Call
<1>3. \A v \in Users : cs[v].base = call[v].base
  BY <1>2
<1>4. \A v \in Users : BaseOK(cs[v], Len(turns))
  BY <1>3 DEF SInv, Settled, BaseOK
<1> QED BY <1>2, <1>4 DEF WaitingIn

LEMMA ContentFailsSettled ==
  ASSUME IInv, SInv, NEW u \in Users, ContentFails(u)
  PROVE  SInv'
<1> DEFINE cs == SetStage(u, "failed")
<1>1. Waiting(u) /\ call' = cs /\ thread' = thread /\ runs' = runs /\ turns' = turns
  BY DEF ContentFails, Waiting
<1>2. /\ LiveIn(runs) = {} /\ WaitingIn(call) = {u}
      /\ Clear(thread.messages) /\ thread.stream.isRunning # "awaiting_user"
  BY <1>1, WaitingFacts
<1>3. (\A v \in Users : BaseOK(cs[v], Len(turns))) /\ WaitingIn(cs) = {}
  BY <1>2, StageSettled
<1>4. \A r \in Runs : runs'[r].pc = "off" /\ ~runs'[r].stopPending
  BY <1>1, <1>2, NobodyWorks
<1> HIDE DEF cs
<1> QED BY <1>1, <1>2, <1>3, <1>4, SettledFacts, NobodyStarts DEF Clear

\* The history up to where the user stands.
LEMMA UpToOK ==
  ASSUME NEW n \in Nat, NEW s, s.messages \in Seq(Message), s.currCheckpointIdx \in Nat,
         SnapshotOK(s, n), NEW new, new = UpToCheckpoint(s)
  PROVE  /\ new \in Seq(Message) /\ Len(new) <= Len(s.messages)
         /\ RunningLast(new) /\ UserApart(new) /\ CarriedOnce(new)
         /\ RequestOpen(new) /\ KnownIds(new, n) /\ StandsOK(new, s.currCheckpointIdx)
         /\ ~EndsWith(new, "tool_request")
         /\ \A i \in 1 .. Len(new) : new[i] = s.messages[i]
         /\ s.currCheckpointIdx <= Len(s.messages) => s.currCheckpointIdx <= Len(new)
<1> DEFINE idx == s.currCheckpointIdx
           k == IF idx > Len(s.messages) THEN Len(s.messages) ELSE idx
<1>1. /\ k \in 0 .. Len(s.messages) /\ k <= Len(s.messages)
      /\ idx <= Len(s.messages) => idx <= k
  OBVIOUS
<1>2. k > 0 => s.messages[k].type # "tool_request"
  BY DEF SnapshotOK, StandsOK, EndsWith
<1>3. new = SubSeq(s.messages, 1, k)
  BY DEF UpToCheckpoint, Slice
<1> DEFINE ms == SubSeq(s.messages, 1, k)
<1>m. ms = SubSeq(s.messages, 1, k) /\ new = ms
  BY <1>3
<1> HIDE DEF k, ms
<1>4. ms \in Seq(Message) /\ Len(ms) = k
  BY <1>1, <1>2, <1>m, PrefixOK
<1>7. RunningLast(ms) /\ UserApart(ms) /\ CarriedOnce(ms)
  BY <1>1, <1>2, <1>m, PrefixOK
<1>8. RequestOpen(ms) /\ KnownIds(ms, n) /\ ~EndsWith(ms, "tool_request")
  BY <1>1, <1>2, <1>m, PrefixOK
<1>9. StandsOK(ms, s.currCheckpointIdx)
  BY <1>1, <1>2, <1>m, PrefixOK
<1>5. \A i \in 1 .. Len(ms) : ms[i] = s.messages[i]
  BY <1>1, <1>2, <1>m, PrefixOK
<1> QED BY <1>1, <1>4, <1>5, <1>7, <1>8, <1>9, <1>m

\* A history in order is stored.
LEMMA StoreOK ==
  ASSUME NEW n \in Nat, NEW t \in Thread, NEW ms \in Seq(Message),
         RunningLast(ms), UserApart(ms), CarriedOnce(ms), RequestOpen(ms), KnownIds(ms, n),
         StandsOK(ms, t.currCheckpointIdx)
  PROVE  /\ ThreadOK(Store(t, ms), n) /\ Store(t, ms).messages = ms
         /\ Store(t, ms).stream = t.stream
         /\ Store(t, ms).currCheckpointIdx = t.currCheckpointIdx
<1> DEFINE t1 == Store(t, ms)
<1>1. /\ t1 \in Thread /\ t1.messages = ms /\ t1.stream = t.stream
      /\ t1.currCheckpointIdx = t.currCheckpointIdx
      /\ t1.disk.messages = ms /\ t1.disk.currCheckpointIdx = t.currCheckpointIdx
  BY StoreType DEF Store, Thread
<1> HIDE DEF t1
<1>2. SnapshotOK(t1, n) /\ SnapshotOK(t1.disk, n)
  BY <1>1 DEF SnapshotOK
<1>3. ThreadOK(t1, n)
  BY <1>1, <1>2 DEF ThreadOK
<1> QED BY <1>1, <1>3 DEF t1

\* The user is put where nothing awaited stands.
LEMMA StandOK ==
  ASSUME NEW n \in Nat, NEW t, ThreadOK(t, n), NEW idx \in Nat, StandsOK(t.messages, idx)
  PROVE  LET t1 == [t EXCEPT !.currCheckpointIdx = idx] IN
         /\ ThreadOK(t1, n) /\ t1.messages = t.messages /\ t1.stream = t.stream
         /\ t1.currCheckpointIdx = idx
<1> DEFINE t1 == [t EXCEPT !.currCheckpointIdx = idx]
<1>1. /\ t1 \in Thread /\ t1.messages = t.messages /\ t1.stream = t.stream
      /\ t1.currCheckpointIdx = idx /\ t1.disk = t.disk
  BY DEF ThreadOK, Thread
<1> HIDE DEF t1
<1> QED BY <1>1 DEF ThreadOK, SnapshotOK, t1

LEMMA SelectDoneSettled ==
  ASSUME IInv, SInv, NEW u \in Users, SelectDone(u)
  PROVE  SInv'
<1> DEFINE n == Len(turns)
           base == call[u].base
           t0 == [thread EXCEPT !.currCheckpointIdx = base.currCheckpointIdx]
           t1 == Store(t0, UpToCheckpoint(base))
           t2 == IF base.currCheckpointIdx = 0 THEN thread ELSE Refresh(t1)
           cs == [call EXCEPT ![u].stage = "content", ![u].base = NoBase]
<1>1. /\ Waiting(u) /\ call' = cs /\ thread' = EnterContent(t2) /\ runs' = runs /\ turns' = turns
  BY DEF SelectDone, Waiting
<1>2. /\ LiveIn(runs) = {} /\ WaitingIn(call) = {u}
      /\ Clear(thread.messages) /\ thread.stream.isRunning # "awaiting_user"
  BY <1>1, WaitingFacts
<1>3. \A r \in Runs : runs'[r].pc = "off" /\ ~runs'[r].stopPending
  BY <1>1, <1>2, NobodyWorks
<1>4. call \in [Users -> Call] /\ call[u] \in Call /\ base \in Snapshot
  BY DEF IInv, TypeOK, Call
<1>5. ThreadOK(thread, n) /\ n \in Nat /\ thread \in Thread
  BY SettledFacts
<1>6. /\ base.messages \in Seq(Message) /\ base.currCheckpointIdx \in Nat
      /\ SnapshotOK(base, n)
      /\ \A i \in 1 .. Len(base.messages) : base.messages[i].type # "running_now"
  BY <1>4 DEF SInv, Settled, BaseOK, Snapshot
<1>7. (\A v \in Users : BaseOK(cs[v], n)) /\ WaitingIn(cs) = {u}
  <2>1. /\ cs[u].base = NoBase /\ cs[u].stage = "content"
        /\ \A v \in Users : v # u => cs[v] = call[v]
    BY <1>4 DEF Call
  <2> HIDE DEF cs
  <2>2. \A v \in Users : BaseOK(cs[v], n)
    BY <2>1, NoBaseOK DEF SInv, Settled
  <2> QED BY <1>2, <2>1, <2>2 DEF WaitingIn
<1> HIDE DEF n, base, cs
<1>8. ThreadOK(t2, n) /\ Clear(t2.messages) /\ t2.stream = thread.stream
  <2>1. CASE base.currCheckpointIdx = 0
    BY <1>2, <1>5, <2>1
  <2>2. CASE base.currCheckpointIdx # 0
    <3> DEFINE ms == UpToCheckpoint(base)
    <3>1. /\ ms \in Seq(Message) /\ Len(ms) <= Len(base.messages)
          /\ RunningLast(ms) /\ UserApart(ms) /\ CarriedOnce(ms)
          /\ RequestOpen(ms) /\ KnownIds(ms, n) /\ StandsOK(ms, base.currCheckpointIdx)
          /\ ~EndsWith(ms, "tool_request")
          /\ \A i \in 1 .. Len(ms) : ms[i] = base.messages[i]
      BY <1>5, <1>6, UpToOK
    <3> HIDE DEF ms
    <3>2. ~EndsWith(ms, "running_now")
      BY <1>6, <3>1 DEF EndsWith
    <3>3. t0 \in Thread /\ t0.currCheckpointIdx = base.currCheckpointIdx /\ t0.stream = thread.stream
      BY <1>5, <1>6 DEF Thread
    <3> HIDE DEF t0
    <3>4. t1 = Store(t0, ms)
      BY DEF ms
    <3>5. ThreadOK(t1, n) /\ t1.messages = ms /\ t1.stream = thread.stream
      BY <1>5, <3>1, <3>3, <3>4, StoreOK
    <3> HIDE DEF t1
    <3>6. Refresh(t1) = t1
      BY <3>1, <3>2, <3>5, RefreshRests DEF AtRest, ThreadOK
    <3> QED BY <2>2, <3>1, <3>2, <3>5, <3>6 DEF Clear
  <2> QED BY <2>1, <2>2
<1> HIDE DEF t2
<1> DEFINE t == EnterContent(t2)
<1>9. /\ ThreadOK(t, n) /\ t.stream = thread.stream
      /\ ~EndsWith(t.messages, "tool_request") /\ ~EndsWith(t.messages, "running_now")
  BY <1>5, <1>8, EnterContentOK DEF Clear
<1> HIDE DEF t
<1>10. thread' = t
  BY <1>1 DEF t
<1>11. ThreadOK(t, Len(turns)) /\ \A v \in Users : BaseOK(cs[v], Len(turns))
  BY <1>7, <1>9 DEF n
<1> QED BY <1>1, <1>2, <1>3, <1>7, <1>9, <1>10, <1>11, NobodyStarts

LEMMA ContentDoneSettled ==
  ASSUME IInv, SInv, NEW u \in Users, NEW r \in Runs, ContentDone(u, r)
  PROVE  SInv'
<1> DEFINE n == Len(turns)
           m == UserMsg(u)
           t0 == AddMessage(thread, m)
           t1 == [t0 EXCEPT !.currCheckpointIdx = 0]
           t2 == AddUserCheckpoint(t1)
           t3 == SetStream(t2, StreamAt(r, "prep"))
           cs == SetStage(u, "sent")
           run == Loop(Off)
<1>1. /\ Waiting(u) /\ call' = cs /\ runs' = [runs EXCEPT ![r] = run] /\ turns' = turns
      /\ thread' = AtLoop(AddUserCheckpoint(Refresh(t1)), r)
  BY DEF ContentDone, Waiting
<1>2. /\ LiveIn(runs) = {} /\ WaitingIn(call) = {u}
      /\ Clear(thread.messages) /\ thread.stream.isRunning # "awaiting_user"
  BY <1>1, WaitingFacts
<1>3. (\A v \in Users : BaseOK(cs[v], n)) /\ WaitingIn(cs) = {}
  BY <1>2, StageSettled
<1> HIDE DEF cs
<1>4. ThreadOK(thread, n) /\ n \in Nat /\ runs \in [Runs -> Run]
  BY SettledFacts DEF IInv, TypeOK
<1>5. m \in Message /\ m.role = "user" /\ m.type = "sent"
  BY MessageTypes DEF UserMsg
<1> HIDE DEF m, n
<1>6. ThreadOK(t0, n) /\ Puts(t0, thread, m)
  <2>1. Fits(m, Append(thread.messages, m), thread, n)
    BY <1>2, <1>5 DEF Fits, CarriedTypes, Clear
  <2>2. m.type \notin {"tool_request", "running_now"}
    BY <1>5
  <2> QED BY <1>4, <1>5, <2>1, <2>2, AddPuts
<1> HIDE DEF t0
<1>7. Clear(t0.messages) /\ Len(t0.messages) \in Nat
  BY <1>5, <1>6, LenNat DEF Puts, Written, Clear, EndsWith
<1>8. ThreadOK(t1, n) /\ t1.messages = t0.messages /\ t1.currCheckpointIdx = 0
  <2>1. StandsOK(t0.messages, 0)
    BY <1>7 DEF StandsOK
  <2> QED BY <1>4, <1>6, <2>1, StandOK
<1> HIDE DEF t1
<1>9. Refresh(t1) = t1
  BY <1>7, <1>8, RefreshRests DEF AtRest, ThreadOK, Clear
<1>10. ThreadOK(t2, n) /\ Clear(t2.messages) /\ t2.currCheckpointIdx = 0
  BY <1>4, <1>7, <1>8, CheckpointClear DEF Clear, Extends
<1> HIDE DEF t2
<1>11. /\ ThreadOK(t3, n) /\ t3.messages = t2.messages /\ t3.currCheckpointIdx = 0
       /\ t3.stream = StreamAt(r, "prep")
  <2>1. StreamAt(r, "prep") \in Stream
    BY StreamTypes DEF PCs
  <2> QED BY <1>4, <1>10, <2>1, SetStreamOK
<1>12. thread' = t3
  BY <1>1, <1>9 DEF AtLoop, t2
<1> HIDE DEF t3
<1>13. run.pc = "prep" /\ ~run.stopPending
  BY DEF Loop, Off
<1> HIDE DEF run
<1>14. /\ runs'[r] = run /\ \A q \in Runs : q # r => runs'[q].pc = "off" /\ ~runs'[q].stopPending
  BY <1>1, <1>2, <1>4, NobodyWorks
<1>15. LiveIn(runs') = {r}
  BY <1>13, <1>14 DEF LiveIn
<1>16. Single(runs', cs)
  BY <1>3, <1>15 DEF Single
<1>17. t3.stream.isRunning # "awaiting_user"
  BY <1>11, StreamFacts DEF PCs
<1>18. AwaitsOK(t3, runs', cs) /\ StandsInside(t3, runs') /\ RunningOK(t3, runs')
  <2>1. Len(t3.messages) \in Nat
    BY <1>11, LenNat
  <2> QED BY <1>10, <1>11, <1>17, <2>1 DEF AwaitsOK, StandsInside, RunningOK, Clear
<1>19. \A q \in Runs : WorkOK(t3, runs'[q], n)
  BY <1>13, <1>14 DEF WorkOK, WorkPCs
<1> QED BY <1>1, <1>3, <1>11, <1>12, <1>16, <1>18, <1>19 DEF SInv, Settled, n

LEMMA CallStepSettled ==
  ASSUME IInv, SInv, NEW u \in Users, CallStep(u)
  PROVE  SInv'
BY SelectDoneSettled, ContentFailsSettled, ContentDoneSettled DEF CallStep

-----------------------------------------------------------------------------
\* The user's steps

\* Only what became of the messages changes.
LEMMA CallOnly ==
  ASSUME IInv, SInv, NEW cs, call' = cs, UNCHANGED <<thread, runs, turns>>,
         \A u \in Users : BaseOK(cs[u], Len(turns)), WaitingIn(cs) \subseteq WaitingIn(call)
  PROVE  SInv'
<1>1. thread' = thread /\ runs' = runs /\ turns' = turns
  OBVIOUS
<1>2. Single(runs, cs) /\ AwaitsOK(thread, runs, cs)
  BY DEF SInv, Settled, Single, AwaitsOK
<1> QED BY <1>1, <1>2 DEF SInv, Settled

\* The user changes the history or what is shown, and may end runs.
LEMMA UserActs ==
  ASSUME IInv, SInv, NEW t, thread' = t, UNCHANGED <<call, turns>>,
         \A r \in Runs : /\ runs'[r].pc \in {"off", runs[r].pc}
                         /\ runs'[r].pc # "off" => runs'[r].tool = runs[r].tool
                         /\ runs'[r].stopPending => runs'[r].pc = "callTool",
         ThreadOK(t, Len(turns)), CarriedFrom(t.messages, thread.messages),
         ~EndsWith(t.messages, "tool_request"), t.stream.isRunning # "awaiting_user",
         LiveIn(runs) # {} => t.currCheckpointIdx <= Len(t.messages),
         EndsWith(t.messages, "running_now") =>
           thread.stream = t.stream /\ runs' = runs /\ EndsWith(thread.messages, "running_now")
  PROVE  SInv'
<1>1. call' = call /\ turns' = turns
  OBVIOUS
<1>2. LiveIn(runs') \subseteq LiveIn(runs)
  BY DEF LiveIn
<1>3. Single(runs', call) /\ AwaitsOK(t, runs', call) /\ StandsInside(t, runs')
  BY <1>2 DEF SInv, Settled, Single, AwaitsOK, StandsInside
<1>4. RunningOK(t, runs')
  BY DEF SInv, Settled, RunningOK
<1>5. ASSUME NEW r \in Runs PROVE WorkOK(t, runs'[r], Len(turns))
  <2>1. CASE runs'[r].pc \in WorkPCs
    <3>1. runs'[r].pc = runs[r].pc /\ runs'[r].tool = runs[r].tool
      BY <2>1 DEF WorkPCs
    <3>2. runs[r].tool <= Len(turns) /\ OnlyRunning(thread.messages, runs[r].tool)
      BY <2>1, <3>1 DEF SInv, Settled, WorkOK
    <3> QED BY <3>1, <3>2, OnlyRunningFrom DEF WorkOK
  <2>2. CASE runs'[r].pc \notin WorkPCs
    BY <2>2 DEF WorkOK
  <2> QED BY <2>1, <2>2
<1>6. \A u \in Users : BaseOK(call[u], Len(turns))
  BY DEF SInv, Settled
<1> QED BY <1>1, <1>3, <1>4, <1>5, <1>6 DEF SInv, Settled

LEMMA SameRuns ==
  ASSUME SInv
  PROVE  \A r \in Runs : runs[r].stopPending => runs[r].pc = "callTool"
BY DEF SInv, Settled, WorkOK

\* Nobody works on the thread and no message is on its way.
LEMMA StartsSettled ==
  ASSUME IInv, SInv, ~Overlap, MayStart
  PROVE  /\ LiveIn(runs) = {} /\ WaitingIn(call) = {}
         /\ ~EndsWith(thread.messages, "running_now")
         /\ \A r \in Runs : runs[r].pc = "off" /\ ~runs[r].stopPending
<1>1. LiveIn(runs) = {} /\ WaitingIn(call) = {}
  BY DEF MayStart, LiveIn, WaitingIn, Live, Waiting
<1> QED BY <1>1, NobodyWorks

LEMMA SubmitSettled ==
  ASSUME IInv, SInv, ~Overlap, NEW u \in Users, Submit(u)
  PROVE  SInv'
<1>1. /\ call \in [Users -> Call] /\ \A v \in Users : call[v] \in Call
      /\ call[u].stage = "unused" /\ thread' = thread /\ runs' = runs /\ turns' = turns
  BY DEF IInv, TypeOK, Submit, IsNext
<1>2. CASE Running(thread)
  <2> DEFINE cs == [call EXCEPT ![u].stage = "queued", ![u].viaQueue = TRUE]
  <2>1. call' = cs
    BY <1>2 DEF Submit
  <2>2. /\ cs[u].stage = "queued" /\ cs[u].base = call[u].base
        /\ \A v \in Users : v # u => cs[v] = call[v]
    BY <1>1 DEF Call
  <2> HIDE DEF cs
  <2>3. \A v \in Users : cs[v].base = call[v].base
    BY <2>2
  <2>4. \A v \in Users : BaseOK(cs[v], Len(turns))
    BY <2>3 DEF SInv, Settled, BaseOK
  <2>5. WaitingIn(cs) \subseteq WaitingIn(call)
    BY <2>2 DEF WaitingIn
  <2> QED BY <1>1, <2>1, <2>4, <2>5, CallOnly
<1>3. CASE ~Running(thread)
  <2> DEFINE base == IF thread.currCheckpointIdx = 0 THEN NoBase
                     ELSE [messages |-> thread.messages,
                           currCheckpointIdx |-> thread.currCheckpointIdx]
             cs == [call EXCEPT ![u].stage = "select", ![u].base = base]
  <2>1. call' = cs /\ MayStart
    BY <1>3 DEF Submit
  <2>2. /\ LiveIn(runs) = {} /\ WaitingIn(call) = {}
        /\ ~EndsWith(thread.messages, "running_now")
        /\ \A r \in Runs : runs[r].pc = "off" /\ ~runs[r].stopPending
    BY <2>1, StartsSettled
  <2>3. thread.stream.isRunning = "no"
    BY <1>3 DEF Running
  <2>4. ~EndsWith(thread.messages, "tool_request")
    BY <2>3 DEF SInv, Settled, AwaitsOK
  <2>5. ThreadOK(thread, Len(turns)) /\ Len(thread.messages) \in Nat
    BY SettledFacts
  <2>6. \A i \in 1 .. Len(thread.messages) : thread.messages[i].type # "running_now"
    BY <2>2, <2>5 DEF ThreadOK, SnapshotOK, RunningLast, EndsWith
  <2>7. /\ cs[u].stage = "select" /\ cs[u].base = base
        /\ \A v \in Users : v # u => cs[v] = call[v]
    BY <1>1 DEF Call
  <2> HIDE DEF cs
  <2>8. BaseOK(cs[u], Len(turns))
    <3>1. CASE thread.currCheckpointIdx = 0
      BY <2>7, <3>1, NoBaseOK
    <3>2. CASE thread.currCheckpointIdx # 0
      <4>1. /\ cs[u].base.messages = thread.messages
            /\ cs[u].base.currCheckpointIdx = thread.currCheckpointIdx
        BY <2>7, <3>2
      <4> QED BY <2>5, <2>6, <4>1 DEF BaseOK, ThreadOK, SnapshotOK
    <3> QED BY <3>1, <3>2
  <2> HIDE DEF base
  <2>9. \A v \in Users : BaseOK(cs[v], Len(turns))
    BY <2>7, <2>8 DEF SInv, Settled
  <2>10. WaitingIn(cs) = {u}
    BY <2>2, <2>7 DEF WaitingIn
  <2> QED BY <1>1, <2>1, <2>2, <2>3, <2>4, <2>5, <2>9, <2>10, NobodyStarts
<1> QED BY <1>2, <1>3

LEMMA ResumeSettled ==
  ASSUME IInv, SInv, ~Overlap, NEW u \in Users, Resume(u)
  PROVE  SInv'
<1> DEFINE t == EnterContent(thread)
           cs == SetStage(u, "content")
<1>1. /\ MayStart /\ thread.stream.isRunning = "no" /\ thread' = t /\ call' = cs
      /\ runs' = runs /\ turns' = turns
  BY DEF Resume, Running
<1>2. /\ LiveIn(runs) = {} /\ WaitingIn(call) = {}
      /\ ~EndsWith(thread.messages, "running_now")
      /\ \A r \in Runs : runs[r].pc = "off" /\ ~runs[r].stopPending
  BY <1>1, StartsSettled
<1>3. ~EndsWith(thread.messages, "tool_request")
  BY <1>1 DEF SInv, Settled, AwaitsOK
<1>4. /\ ThreadOK(t, Len(turns)) /\ t.stream = thread.stream
      /\ ~EndsWith(t.messages, "tool_request") /\ ~EndsWith(t.messages, "running_now")
  BY <1>2, <1>3, SettledFacts, EnterContentOK
<1>5. (\A v \in Users : BaseOK(cs[v], Len(turns))) /\ WaitingIn(cs) = {u}
  BY <1>2, StageSettled
<1> HIDE DEF t, cs
<1> QED BY <1>1, <1>2, <1>4, <1>5, NobodyStarts

LEMMA RemoveQueuedSettled ==
  ASSUME IInv, SInv, NEW i \in 1 .. Len(queue), RemoveQueued(i)
  PROVE  SInv'
<1> DEFINE u == queue[i]
           cs == SetStage(u, "removed")
<1>1. u \in Users /\ call' = cs /\ UNCHANGED <<thread, runs, turns>>
  BY DEF RemoveQueued, IInv, TypeOK
<1> HIDE DEF u
<1>2. (\A v \in Users : BaseOK(cs[v], Len(turns))) /\ WaitingIn(cs) = WaitingIn(call) \ {u}
  BY <1>1, StageSettled
<1>3. WaitingIn(cs) \subseteq WaitingIn(call)
  BY <1>2
<1> HIDE DEF cs
<1> QED BY <1>1, <1>2, <1>3, CallOnly

LEMMA ApproveSettled ==
  ASSUME IInv, SInv, NEW r \in Runs, Approve(r)
  PROVE  SInv'
<1> DEFINE n == Len(turns)
           id == Last(thread.messages).id
           t0 == AddUserCheckpoint(thread)
           t == BeginTool(t0, r, id, turns[id])
           run == [Off EXCEPT !.pc = ToolPC(turns[id]), !.tool = id, !.first = TRUE]
<1>1. /\ EndsWithRequest(thread.messages) /\ thread' = t /\ runs' = [runs EXCEPT ![r] = run]
      /\ call' = call /\ turns' = turns
  BY DEF Approve, MayApprove
<1>2. /\ ThreadOK(thread, n) /\ n \in Nat /\ thread.messages \in Seq(Message)
      /\ Len(thread.messages) \in Nat /\ thread.currCheckpointIdx \in Nat
  BY SettledFacts
<1>3. /\ EndsWith(thread.messages, "tool_request") /\ Last(thread.messages) = thread.messages[Len(thread.messages)]
      /\ Len(thread.messages) > 0 /\ thread.messages[Len(thread.messages)] \in Message
  BY <1>1, <1>2, Ends DEF EndsWith
<1>4. LiveIn(runs) = {} /\ WaitingIn(call) = {}
  BY <1>3 DEF SInv, Settled, AwaitsOK
<1>5. ~EndsWith(thread.messages, "running_now") /\ \A q \in Runs : runs[q].pc = "off" /\ ~runs[q].stopPending
  BY <1>4, NobodyWorks
<1>6. id \in Turns /\ id <= n /\ OnlyRunning(thread.messages, id)
  <2>1. thread.messages[Len(thread.messages)].role = "tool"
    BY <1>3, ToolMessages DEF EndsWith, ToolTypes
  <2>2. Len(thread.messages) \in 1 .. Len(thread.messages)
    BY <1>2, <1>3
  <2> QED BY <1>2, <1>3, <2>1, <2>2, ToolMessages
       DEF ThreadOK, SnapshotOK, KnownIds, RequestOpen, OnlyRunning
<1>7. thread.currCheckpointIdx <= Len(thread.messages)
  BY <1>2, <1>3 DEF ThreadOK, SnapshotOK, StandsOK
<1> HIDE DEF n, id
<1>8. ThreadOK(t0, n) /\ Extends(t0, thread)
  BY <1>2, <1>5, CheckpointClear
<1> HIDE DEF t0
<1>9. t0.currCheckpointIdx <= Len(t0.messages) /\ OnlyRunning(t0.messages, id)
  BY <1>2, <1>6, <1>7, <1>8, LenNat, OnlyRunningFrom DEF Extends
<1>10. /\ ThreadOK(t, n) /\ ~EndsWith(t.messages, "tool_request")
       /\ t.currCheckpointIdx <= Len(t.messages)
       /\ OnlyRunning(t.messages, id)
       /\ t.stream.isRunning = "tool" /\ t.stream.owner = r
  BY <1>2, <1>6, <1>8, <1>9, BeginToolOK
<1> HIDE DEF t
<1>11. /\ run.pc = ToolPC(turns[id]) /\ run.tool = id /\ ~run.stopPending /\ ~run.interrupted
       /\ run.pc # "off"
  BY ToolPCs DEF Off
<1> HIDE DEF run
<1>12. runs'[r] = run /\ \A q \in Runs : q # r => runs'[q].pc = "off" /\ ~runs'[q].stopPending
  BY <1>1, <1>5 DEF IInv, TypeOK
<1>13. LiveIn(runs') = {r}
  BY <1>11, <1>12 DEF LiveIn
<1>14. Single(runs', call) /\ AwaitsOK(t, runs', call) /\ StandsInside(t, runs') /\ RunningOK(t, runs')
  BY <1>4, <1>10, <1>11, <1>12, <1>13 DEF Single, AwaitsOK, StandsInside, RunningOK
<1>15. \A q \in Runs : WorkOK(t, runs'[q], n)
  BY <1>6, <1>10, <1>11, <1>12 DEF WorkOK, WorkPCs
<1>16. \A u \in Users : BaseOK(call[u], n)
  BY DEF SInv, Settled, n
<1> QED BY <1>1, <1>10, <1>14, <1>15, <1>16 DEF SInv, Settled, n

\* The latest tool message becomes a rejection.
LEMMA RejectLatestOK ==
  ASSUME NEW n \in Nat, NEW t, ThreadOK(t, n), EndsWithTool(t.messages)
  PROVE  LET t1 == RejectLatest(t) IN
         /\ ThreadOK(t1, n) /\ t1.stream = NotRunning(FALSE)
         /\ Clear(t1.messages) /\ Extends(t1, t)
<1> DEFINE id == Last(t.messages).id
           m == ToolMsg("rejected", id)
           t0 == UpdateLatestTool(t, m)
           t1 == SetStream(t0, NotRunning(FALSE))
<1>1. t.messages \in Seq(Message) /\ Len(t.messages) \in Nat
  BY LenNat
<1>2. /\ Len(t.messages) \in 1 .. Len(t.messages) /\ id \in Turns
      /\ t.messages[Len(t.messages)].role = "tool" /\ Last(t.messages) = t.messages[Len(t.messages)]
  BY <1>1, Ends, LastTool
<1>3. id <= n
  BY <1>2 DEF ThreadOK, SnapshotOK, KnownIds
<1>4. RejectLatest(t) = t1
  BY DEF RejectLatest
<1> HIDE DEF id
<1>5. m \in Message /\ m.role = "tool" /\ m.type = "rejected" /\ m.id = id
  BY <1>2, MessageTypes DEF ToolMsg, ToolTypes
<1> HIDE DEF m
<1>6. ThreadOK(t0, n) /\ Puts(t0, t, m)
  BY <1>3, <1>5, UpdatePuts DEF CarriedTypes
<1> HIDE DEF t0
<1>7. Extends(t0, t) /\ \A type : EndsWith(t0.messages, type) <=> m.type = type
  BY <1>5, <1>6, PutsExtends DEF CarriedTypes
<1>8. Clear(t0.messages)
  BY <1>5, <1>7 DEF Clear
<1>9. /\ ThreadOK(t1, n) /\ t1.messages = t0.messages
      /\ t1.currCheckpointIdx = t0.currCheckpointIdx /\ t1.stream = NotRunning(FALSE)
  BY <1>6, SetStreamOK, StreamTypes
<1> HIDE DEF t1
<1> QED BY <1>4, <1>7, <1>8, <1>9 DEF Extends

LEMMA StoppedRuns ==
  ASSUME IInv, SInv
  PROVE  \A r \in Runs : /\ MarkStopped[r].pc = runs[r].pc /\ MarkStopped[r].tool = runs[r].tool
                         /\ MarkStopped[r].stopPending = runs[r].stopPending
                         /\ MarkStopped[r].stopPending => MarkStopped[r].pc = "callTool"
<1> SUFFICES ASSUME NEW r \in Runs
             PROVE  /\ MarkStopped[r].pc = runs[r].pc /\ MarkStopped[r].tool = runs[r].tool
                    /\ MarkStopped[r].stopPending = runs[r].stopPending
                    /\ MarkStopped[r].stopPending => MarkStopped[r].pc = "callTool"
  OBVIOUS
<1>1. runs[r] \in Run /\ (runs[r].stopPending => runs[r].pc = "callTool")
  BY SameRuns, IInvFacts
<1> QED BY <1>1 DEF MarkStopped, Run

LEMMA RejectSettled ==
  ASSUME IInv, SInv, Reject
  PROVE  SInv'
<1> DEFINE t == RejectLatest(thread)
<1>1. /\ EndsWithTool(thread.messages) /\ thread' = t /\ runs' = MarkStopped
      /\ UNCHANGED <<call, turns>>
  BY DEF Reject
<1>2. /\ ThreadOK(thread, Len(turns)) /\ Len(turns) \in Nat
      /\ Len(thread.messages) \in Nat /\ thread.currCheckpointIdx \in Nat
  BY SettledFacts
<1>3. /\ ThreadOK(t, Len(turns)) /\ t.stream = NotRunning(FALSE)
      /\ Clear(t.messages) /\ Extends(t, thread)
  BY <1>1, <1>2, RejectLatestOK
<1> HIDE DEF t
<1>4. LiveIn(runs) # {} => t.currCheckpointIdx <= Len(t.messages)
  BY <1>2, <1>3, LenNat DEF Extends, SInv, Settled, StandsInside
<1>5. t.stream.isRunning # "awaiting_user"
  BY <1>3 DEF NotRunning
<1>6. \A r \in Runs : /\ runs'[r].pc \in {"off", runs[r].pc}
                      /\ runs'[r].pc # "off" => runs'[r].tool = runs[r].tool
                      /\ runs'[r].stopPending => runs'[r].pc = "callTool"
  BY <1>1, StoppedRuns
<1> QED BY <1>1, <1>3, <1>4, <1>5, <1>6, UserActs DEF Clear, Extends

LEMMA DismissErrorSettled ==
  ASSUME IInv, SInv, DismissError
  PROVE  SInv'
<1> DEFINE t == SetStream(thread, NotRunning(FALSE))
<1>1. /\ thread.stream.error /\ thread' = t /\ runs' = runs /\ UNCHANGED <<call, turns>>
  BY DEF DismissError
<1>2. thread.stream.isRunning = "no"
  BY <1>1, ErrorIsIdle DEF Running
<1>3. ~EndsWith(thread.messages, "tool_request") /\ ~EndsWith(thread.messages, "running_now")
  BY <1>2 DEF SInv, Settled, AwaitsOK, RunningOK
<1>4. /\ ThreadOK(thread, Len(turns)) /\ Len(turns) \in Nat
  BY SettledFacts
<1>5. /\ ThreadOK(t, Len(turns)) /\ t.messages = thread.messages
      /\ t.currCheckpointIdx = thread.currCheckpointIdx /\ t.stream = NotRunning(FALSE)
  BY <1>4, SetStreamOK, StreamTypes
<1> HIDE DEF t
<1>6. LiveIn(runs) # {} => t.currCheckpointIdx <= Len(t.messages)
  BY <1>5 DEF SInv, Settled, StandsInside
<1>7. t.stream.isRunning # "awaiting_user"
  BY <1>5 DEF NotRunning
<1>8. CarriedFrom(t.messages, thread.messages)
  BY <1>5, CarriedSelf
<1>9. \A r \in Runs : /\ runs'[r].pc \in {"off", runs[r].pc}
                      /\ runs'[r].pc # "off" => runs'[r].tool = runs[r].tool
                      /\ runs'[r].stopPending => runs'[r].pc = "callTool"
  BY <1>1, SameRuns
<1> QED BY <1>1, <1>3, <1>5, <1>6, <1>7, <1>8, <1>9, UserActs

LEMMA TouchThreadSettled ==
  ASSUME IInv, SInv, TouchThread
  PROVE  SInv'
<1> DEFINE t == Refresh(thread)
<1>1. thread' = t /\ runs' = runs /\ call' = call /\ turns' = turns
  BY DEF TouchThread
<1>2. /\ ThreadOK(thread, Len(turns)) /\ Len(turns) \in Nat
  BY SettledFacts
<1>3. /\ ThreadOK(t, Len(turns)) /\ t.currCheckpointIdx = thread.currCheckpointIdx
      /\ Len(t.messages) = Len(thread.messages) /\ CarriedFrom(t.messages, thread.messages)
      /\ EndsWith(t.messages, "tool_request") <=> EndsWith(thread.messages, "tool_request")
      /\ EndsWith(t.messages, "running_now") => EndsWith(thread.messages, "running_now")
      /\ t.stream \in {thread.stream, AwaitingUser}
      /\ ~EndsWith(thread.messages, "tool_request") => t.stream = thread.stream
  BY <1>2, RefreshOK
<1> HIDE DEF t
<1>4. CASE EndsWith(thread.messages, "tool_request")
  <2>1. LiveIn(runs) = {} /\ WaitingIn(call) = {} /\ thread.stream.isRunning = "awaiting_user"
    BY <1>4 DEF SInv, Settled, AwaitsOK
  <2>2. ~EndsWith(thread.messages, "running_now") /\ \A r \in Runs : runs[r].pc = "off" /\ ~runs[r].stopPending
    BY <2>1, NobodyWorks
  <2>3. t.stream.isRunning = "awaiting_user"
    BY <1>3, <2>1 DEF AwaitingUser
  <2>4. \A u \in Users : BaseOK(call[u], Len(turns))
    BY DEF SInv, Settled
  <2> QED BY <1>1, <1>3, <1>4, <2>1, <2>2, <2>3, <2>4, NobodyStarts
<1>5. CASE ~EndsWith(thread.messages, "tool_request")
  <2>1. t.stream = thread.stream /\ t.stream.isRunning # "awaiting_user"
    BY <1>3, <1>5 DEF SInv, Settled, AwaitsOK
  <2>2. LiveIn(runs) # {} => t.currCheckpointIdx <= Len(t.messages)
    BY <1>3 DEF SInv, Settled, StandsInside
  <2>3. \A r \in Runs : /\ runs'[r].pc \in {"off", runs[r].pc}
                        /\ runs'[r].pc # "off" => runs'[r].tool = runs[r].tool
                        /\ runs'[r].stopPending => runs'[r].pc = "callTool"
    BY <1>1, SameRuns
  <2> QED BY <1>1, <1>3, <1>5, <2>1, <2>2, <2>3, UserActs
<1> QED BY <1>4, <1>5

LEMMA RestartSettled ==
  ASSUME IInv, SInv, Restart
  PROVE  SInv'
<1> DEFINE n == Len(turns)
           d == thread.disk
           t0 == [thread EXCEPT !.messages = d.messages,
                                !.currCheckpointIdx = d.currCheckpointIdx,
                                !.stream = NotRunning(FALSE)]
           t == Refresh(t0)
           cs == [u \in Users |->
                    IF Waiting(u) \/ call[u].stage = "queued"
                    THEN [call[u] EXCEPT !.stage = "lost", !.base = NoBase] ELSE call[u]]
<1>1. thread' = t /\ call' = cs /\ runs' = [r \in Runs |-> Off] /\ turns' = turns
  BY DEF Restart
<1>2. ThreadOK(thread, n) /\ n \in Nat
  BY SettledFacts
<1> HIDE DEF n
<1>3. t0 \in Thread /\ t0.messages = d.messages /\ t0.currCheckpointIdx = d.currCheckpointIdx
      /\ t0.disk = d /\ t0.stream = NotRunning(FALSE)
  BY <1>2, StreamTypes DEF ThreadOK, Thread, Snapshot
<1> HIDE DEF t0
<1>4. ThreadOK(t0, n)
  BY <1>2, <1>3 DEF ThreadOK, SnapshotOK
<1>5. ~Running(t0) /\ ~t0.stream.error /\ t0.stream.isRunning = "no"
  BY <1>3 DEF Running, NotRunning
<1>6. /\ ThreadOK(t, n)
      /\ EndsWith(t.messages, "tool_request") <=> EndsWith(t0.messages, "tool_request")
      /\ ~EndsWith(t.messages, "running_now")
      /\ EndsWith(t0.messages, "tool_request") => t.stream = AwaitingUser
      /\ ~EndsWith(t0.messages, "tool_request") => t.stream = t0.stream
  BY <1>2, <1>4, <1>5, RefreshOK
<1> HIDE DEF t
<1>7. t.stream.isRunning = "awaiting_user" <=> EndsWith(t.messages, "tool_request")
  BY <1>5, <1>6 DEF AwaitingUser
<1>8. \A u \in Users : cs[u].stage \notin {"select", "content"} /\ (cs[u] = call[u] \/ cs[u].base = NoBase)
  <2> SUFFICES ASSUME NEW u \in Users
               PROVE  cs[u].stage \notin {"select", "content"} /\ (cs[u] = call[u] \/ cs[u].base = NoBase)
    OBVIOUS
  <2>1. call[u] \in Call
    BY DEF IInv, TypeOK
  <2> QED BY <2>1 DEF Waiting, Call
<1> HIDE DEF cs
<1>9. WaitingIn(cs) = {}
  BY <1>8 DEF WaitingIn
<1>10. \A u \in Users : BaseOK(cs[u], Len(turns))
  BY <1>8, NoBaseOK DEF SInv, Settled
<1>11. \A r \in Runs : runs'[r].pc = "off" /\ ~runs'[r].stopPending
  BY <1>1 DEF Off
<1>12. ThreadOK(t, Len(turns))
  BY <1>6 DEF n
<1> QED BY <1>1, <1>6, <1>7, <1>9, <1>10, <1>11, <1>12, NobodyStarts

\* abortRunning leaves a checkpoint at the end.
LEMMA HaltOK ==
  ASSUME IInv, SInv, NEW cut \in BOOLEAN
  PROVE  LET t == Halt(thread, cut) IN
         /\ ThreadOK(t, Len(turns)) /\ Clear(t.messages) /\ Extends(t, thread)
         /\ t.stream.isRunning # "awaiting_user"
<1> DEFINE n == Len(turns)
           s == thread.stream
           l1 == AddMessage(thread, Assistant)
           l2 == IF cut THEN AddMessage(l1, InterruptedTool) ELSE l1
           x == CASE s.isRunning = "LLM" -> l2
                  [] s.isRunning = "tool" ->
                       UpdateLatestTool(thread, ToolMsg("rejected", runs[s.owner].tool))
                  [] s.isRunning = "awaiting_user" -> RejectLatest(thread)
                  [] OTHER -> thread
           t == AddUserCheckpoint(x)
<1>1. Halt(thread, cut) = t
  BY DEF Halt
<1>2. /\ ThreadOK(thread, n) /\ n \in Nat /\ thread.messages \in Seq(Message)
      /\ Len(thread.messages) \in Nat
  BY SettledFacts
<1>3. s.isRunning # "tool" => ~EndsWith(thread.messages, "running_now")
  BY DEF SInv, Settled, RunningOK
<1>4. Extends(thread, thread)
  BY <1>2, CarriedSelf DEF Extends, KeepsUsers
<1>5. /\ ThreadOK(x, n) /\ ~EndsWith(x.messages, "running_now") /\ Extends(x, thread)
      /\ x.stream.isRunning # "awaiting_user"
  <2>1. CASE s.isRunning = "LLM"
    <3>1. ThreadOK(l1, n) /\ l1.stream = s /\ Clear(l1.messages) /\ Extends(l1, thread)
      BY <1>2, <1>3, <2>1, PlainPuts
    <3> HIDE DEF l1
    <3> DEFINE l3 == AddMessage(l1, InterruptedTool)
    <3>2. ThreadOK(l3, n) /\ l3.stream = l1.stream /\ Clear(l3.messages) /\ Extends(l3, l1)
      BY <1>2, <3>1, PlainPuts DEF Clear
    <3>3. l2 \in {l1, l3}
      OBVIOUS
    <3> HIDE DEF l3, l2
    <3>4. Extends(l3, thread)
      BY <1>2, <3>1, <3>2, LenNat, ExtendsTrans
    <3>5. x = l2
      BY <2>1
    <3> HIDE DEF x
    <3> QED BY <2>1, <3>1, <3>2, <3>3, <3>4, <3>5 DEF Clear
  <2>2. CASE s.isRunning = "tool"
    <3> DEFINE id == runs[s.owner].tool
               m == ToolMsg("rejected", id)
               u == UpdateLatestTool(thread, m)
    <3>1. x = u
      BY <2>2
    <3>2. PICK r \in Runs : runs[r].pc # "off" /\ s = StreamAt(r, runs[r].pc)
      BY <2>2, StreamFacts DEF IInv, Shows, Still
    <3>3. runs[r].pc \in PCs /\ RunOK(runs[r])
      BY DEF IInv, TypeOK, Run
    <3>4. s.owner = r /\ runs[r].pc \in {"callTool", "toolResult", "mcp"}
      BY <2>2, <3>2, <3>3, StreamFacts
    <3>5. id \in Turns /\ id <= n
      BY <3>3, <3>4 DEF RunOK, SInv, Settled, WorkOK, WorkPCs
    <3> HIDE DEF id
    <3>6. m \in Message /\ m.role = "tool" /\ m.type = "rejected" /\ m.id = id
      BY <3>5, MessageTypes DEF ToolMsg, ToolTypes
    <3> HIDE DEF m, x, n
    <3>7. ThreadOK(u, n) /\ Puts(u, thread, m)
      BY <1>2, <3>5, <3>6, UpdatePuts DEF CarriedTypes
    <3> HIDE DEF u
    <3>8. Extends(u, thread) /\ \A type : EndsWith(u.messages, type) <=> m.type = type
      BY <1>2, <3>6, <3>7, PutsExtends DEF CarriedTypes
    <3>9. u.stream = s
      BY <3>7 DEF Puts
    <3> QED BY <2>2, <3>1, <3>6, <3>7, <3>8, <3>9
  <2>3. CASE s.isRunning = "awaiting_user"
    <3> DEFINE u == RejectLatest(thread)
    <3>1. x = u
      BY <2>3
    <3>2. EndsWithTool(thread.messages)
      BY <1>2, <2>3, Ends DEF SInv, Settled, AwaitsOK, EndsWithRequest
    <3>3. ThreadOK(u, n) /\ u.stream = NotRunning(FALSE) /\ Clear(u.messages) /\ Extends(u, thread)
      BY <1>2, <3>2, RejectLatestOK
    <3> HIDE DEF u, x
    <3> QED BY <3>1, <3>3 DEF Clear, NotRunning
  <2>4. CASE s.isRunning \notin {"LLM", "tool", "awaiting_user"}
    <3>1. x = thread
      BY <2>4
    <3> HIDE DEF x
    <3> QED BY <1>2, <1>3, <1>4, <2>4, <3>1
  <2> QED BY <2>1, <2>2, <2>3, <2>4
<1> HIDE DEF x
<1>6. ThreadOK(t, n) /\ t.stream = x.stream /\ Clear(t.messages) /\ Extends(t, x)
  BY <1>2, <1>5, CheckpointClear
<1> HIDE DEF t
<1>7. Extends(t, thread)
  BY <1>2, <1>5, <1>6, LenNat, ExtendsTrans
<1> QED BY <1>1, <1>5, <1>6, <1>7

\* An interrupt ends a run or leaves it where it is.
LEMMA InterruptedRuns ==
  ASSUME IInv, SInv, NEW s
  PROVE  \A r \in Runs : LET q == InterruptRuns(s)[r] IN
           /\ q.pc \in {"off", runs[r].pc}
           /\ q.pc # "off" => q.tool = runs[r].tool
           /\ q.stopPending => q.pc = "callTool"
<1> SUFFICES ASSUME NEW r \in Runs
             PROVE  LET q == InterruptRuns(s)[r] IN
                    /\ q.pc \in {"off", runs[r].pc}
                    /\ q.pc # "off" => q.tool = runs[r].tool
                    /\ q.stopPending => q.pc = "callTool"
  OBVIOUS
<1> DEFINE marked == MarkStopped
           a == [marked EXCEPT ![s.owner].interruptedWhenIdle = TRUE]
           b == [marked EXCEPT ![s.owner].interrupted = TRUE]
           c == [marked EXCEPT ![s.owner] = Off]
<1>1. /\ MarkStopped[r].pc = runs[r].pc /\ MarkStopped[r].tool = runs[r].tool
      /\ MarkStopped[r].stopPending => MarkStopped[r].pc = "callTool"
  BY StoppedRuns
<1>2. MarkStopped \in [Runs -> Run]
  BY MarkStoppedOK
<1> HIDE DEF marked
<1>3. \A q \in {marked[r], a[r], b[r]} :
        q.pc = marked[r].pc /\ q.tool = marked[r].tool /\ q.stopPending = marked[r].stopPending
  BY <1>2 DEF Run, marked
<1>4. c[r] \in {marked[r], Off}
  BY <1>2 DEF marked
<1>5. InterruptRuns(s) \in {marked, a, b, c}
  BY DEF InterruptRuns, marked
<1> HIDE DEF a, b, c
<1>6. InterruptRuns(s)[r] \in {marked[r], a[r], b[r], Off}
  BY <1>4, <1>5
<1>7. Off.pc = "off" /\ ~Off.stopPending
  BY DEF Off
<1> QED BY <1>1, <1>3, <1>6, <1>7 DEF marked

LEMMA StopSettled ==
  ASSUME IInv, SInv, NEW cut \in BOOLEAN, Stop(cut)
  PROVE  SInv'
<1> DEFINE n == Len(turns)
           h == Halt(thread, cut)
           t == SetStream(h, NotRunning(FALSE))
<1>1. /\ ThreadOK(h, n) /\ Clear(h.messages) /\ Extends(h, thread)
      /\ h.stream.isRunning # "awaiting_user" /\ n \in Nat /\ Shows(h.stream, runs)
  BY HaltOK, HaltShows, SettledFacts
<1>2. call' = call /\ turns' = turns
  BY DEF Stop
<1>3. LiveIn(runs) # {} => h.currCheckpointIdx <= Len(h.messages)
  BY <1>1, LenNat, SettledFacts DEF Extends, SInv, Settled, StandsInside
<1>4. CASE Unresolved(h.stream)
  <2>1. thread' = h /\ runs' = [MarkStopped EXCEPT ![h.stream.owner].stopPending = TRUE]
    BY <1>4 DEF Stop
  <2>2. h.stream.interrupt = "tool" /\ runs[h.stream.owner].pc = "callTool"
    BY <1>4 DEF Unresolved
  <2> HIDE DEF h
  <2>3. ASSUME NEW r \in Runs
        PROVE  /\ runs'[r].pc = runs[r].pc /\ runs'[r].tool = runs[r].tool
               /\ runs'[r].stopPending => runs'[r].pc = "callTool"
    <3>1. MarkStopped \in [Runs -> Run]
      BY MarkStoppedOK
    <3>2. /\ MarkStopped[r].pc = runs[r].pc /\ MarkStopped[r].tool = runs[r].tool
          /\ MarkStopped[r].stopPending => MarkStopped[r].pc = "callTool"
      BY StoppedRuns
    <3>3. CASE r = h.stream.owner
      <4>1. runs'[r].pc = MarkStopped[r].pc /\ runs'[r].tool = MarkStopped[r].tool
        BY <2>1, <3>1, <3>3 DEF Run
      <4> QED BY <2>2, <3>2, <3>3, <4>1
    <3>4. CASE r # h.stream.owner
      BY <2>1, <3>1, <3>2, <3>4
    <3> QED BY <3>3, <3>4
  <2> QED BY <1>1, <1>2, <1>3, <2>1, <2>3, UserActs DEF Clear, Extends
<1>5. CASE ~Unresolved(h.stream)
  <2>1. thread' = t /\ runs' = InterruptRuns(h.stream)
    BY <1>5 DEF Stop
  <2> HIDE DEF h
  <2>2. /\ ThreadOK(t, n) /\ t.messages = h.messages
        /\ t.currCheckpointIdx = h.currCheckpointIdx /\ t.stream = NotRunning(FALSE)
    BY <1>1, SetStreamOK, StreamTypes
  <2> HIDE DEF t
  <2>3. t.stream.isRunning # "awaiting_user"
    BY <2>2 DEF NotRunning
  <2>4. \A r \in Runs : /\ runs'[r].pc \in {"off", runs[r].pc}
                        /\ runs'[r].pc # "off" => runs'[r].tool = runs[r].tool
                        /\ runs'[r].stopPending => runs'[r].pc = "callTool"
    BY <2>1, InterruptedRuns
  <2>5. /\ CarriedFrom(t.messages, thread.messages) /\ ~EndsWith(t.messages, "tool_request")
        /\ ~EndsWith(t.messages, "running_now")
        /\ LiveIn(runs) # {} => t.currCheckpointIdx <= Len(t.messages)
    BY <1>1, <1>3, <2>2 DEF Clear, Extends
  <2> QED BY <1>2, <2>1, <2>2, <2>3, <2>4, <2>5, UserActs
<1> QED BY <1>4, <1>5

\* The user is made to stand on a checkpoint.
LEMMA StandOnCheckpointOK ==
  ASSUME NEW n \in Nat, NEW t, ThreadOK(t, n), Clear(t.messages)
  PROVE  LET t1 == StandOnCheckpoint(t) IN
         /\ ThreadOK(t1, n) /\ Clear(t1.messages) /\ t1.stream = t.stream
         /\ CarriedFrom(t1.messages, t.messages)
         /\ t.currCheckpointIdx <= Len(t.messages) => t1.currCheckpointIdx <= Len(t1.messages)
<1> DEFINE t1 == IF t.messages # <<>> /\ Last(t.messages).role = "checkpoint"
                 THEN t ELSE AddUserCheckpoint(t)
           k == Len(t.messages)
           t2 == [t1 EXCEPT !.currCheckpointIdx = k]
<1>1. t.messages \in Seq(Message) /\ k \in Nat /\ t.currCheckpointIdx \in Nat
  BY LenNat
<1>2. CASE t.currCheckpointIdx # 0
  <2>1. StandOnCheckpoint(t) = t
    BY <1>2 DEF StandOnCheckpoint
  <2> QED BY <2>1, CarriedSelf
<1>3. CASE t.currCheckpointIdx = 0
  <2>1. StandOnCheckpoint(t) = Refresh(t2)
    BY <1>3 DEF StandOnCheckpoint
  <2>2. /\ ThreadOK(t1, n) /\ Clear(t1.messages) /\ t1.stream = t.stream
        /\ CarriedFrom(t1.messages, t.messages)
        /\ StandsOK(t1.messages, k) /\ k <= Len(t1.messages)
    <3>1. CASE t1 = t
      <4>1. k > 0 => t.messages[k].type # "tool_request"
        BY DEF Clear, EndsWith
      <4>2. StandsOK(t.messages, k)
        BY <1>1, <4>1 DEF StandsOK
      <4> HIDE DEF t1
      <4> QED BY <1>1, <3>1, <4>2, CarriedSelf
    <3>2. CASE t1 = AddUserCheckpoint(t)
      <4> DEFINE u == AddUserCheckpoint(t)
      <4>1. /\ ThreadOK(u, n) /\ u.stream = t.stream /\ Clear(u.messages) /\ Extends(u, t)
            /\ u.messages = Append(t.messages, Checkpoint("user_edit"))
        BY CheckpointClear, CheckpointPuts DEF Clear
      <4> HIDE DEF t1, u
      <4>2. Len(u.messages) = k + 1 /\ \A i \in 1 .. k : u.messages[i] = t.messages[i]
        BY <1>1, <4>1
      <4>3. k > 0 => u.messages[k].type # "tool_request"
        BY <1>1, <4>2 DEF Clear, EndsWith
      <4>4. StandsOK(u.messages, k)
        BY <1>1, <4>2, <4>3 DEF StandsOK
      <4>5. t1 = u
        BY <3>2 DEF u
      <4> QED BY <1>1, <4>1, <4>2, <4>4, <4>5 DEF Extends
    <3> QED BY <3>1, <3>2
  <2> HIDE DEF t1, k
  <2>3. /\ ThreadOK(t2, n) /\ t2.messages = t1.messages /\ t2.stream = t1.stream
        /\ t2.currCheckpointIdx = k
    <3>1. k \in Nat /\ ThreadOK(t1, n) /\ StandsOK(t1.messages, k)
      BY <1>1, <2>2
    <3> QED BY <3>1, StandOK
  <2> HIDE DEF t2
  <2>4. Refresh(t2) = t2
    BY <2>2, <2>3, RefreshRests DEF AtRest, ThreadOK, Clear
  <2> QED BY <2>1, <2>2, <2>3, <2>4
<1> QED BY <1>2, <1>3

LEMMA JumpToOK ==
  ASSUME NEW n \in Nat, NEW t0, ThreadOK(t0, n), Clear(t0.messages), NEW i
  PROVE  LET t1 == JumpTo(t0, i) IN
         /\ ThreadOK(t1, n) /\ Clear(t1.messages) /\ t1.stream = t0.stream
         /\ CarriedFrom(t1.messages, t0.messages)
         /\ t0.currCheckpointIdx <= Len(t0.messages) => t1.currCheckpointIdx <= Len(t1.messages)
<1> DEFINE t == StandOnCheckpoint(t0)
           from == t.currCheckpointIdx
           before == CheckpointsUpTo(t.messages, i)
           k == Max(before)
           stored == Refresh(Store(t, t.messages))
           t1 == IF from \in CheckpointsUpTo(t.messages, from) THEN stored ELSE t
           t2 == [t1 EXCEPT !.currCheckpointIdx = k]
<1>1. /\ ThreadOK(t, n) /\ Clear(t.messages) /\ t.stream = t0.stream
      /\ CarriedFrom(t.messages, t0.messages)
      /\ t0.currCheckpointIdx <= Len(t0.messages) => t.currCheckpointIdx <= Len(t.messages)
  BY StandOnCheckpointOK
<1>2. JumpTo(t0, i) = IF before = {} \/ from = k THEN t ELSE Refresh(t2)
  BY DEF JumpTo
<1> HIDE DEF t
<1>3. t.messages \in Seq(Message) /\ Len(t.messages) \in Nat /\ t \in Thread
  BY <1>1, LenNat DEF ThreadOK
<1>4. CASE before = {} \/ from = k
  <2>1. JumpTo(t0, i) = t
    BY <1>2, <1>4
  <2> QED BY <1>1, <2>1
<1>5. CASE ~(before = {} \/ from = k)
  <2>1. k \in before
    <3>1. before \subseteq 1 .. Len(t.messages)
      BY DEF CheckpointsUpTo
    <3> HIDE DEF before
    <3> QED BY <1>3, <1>5, <3>1, MaxPosition
  <2>2. k \in 1 .. Len(t.messages) /\ t.messages[k].role = "checkpoint"
    BY <2>1 DEF CheckpointsUpTo
  <2> HIDE DEF k, before
  <2>3. k \in Nat /\ k <= Len(t.messages) /\ t.messages[k] \in Message
    BY <1>3, <2>2
  <2>4. t.messages[k].type # "tool_request"
    BY <2>2, <2>3, ToolMessages DEF ToolTypes
  <2>5. StandsOK(t.messages, k)
    BY <1>3, <2>3, <2>4 DEF StandsOK
  <2>6. ThreadOK(stored, n) /\ stored.messages = t.messages /\ stored.stream = t.stream
    <3> DEFINE u == Store(t, t.messages)
    <3>1. ThreadOK(u, n) /\ u.messages = t.messages /\ u.stream = t.stream
      BY <1>1, <1>3, StoreOK DEF ThreadOK, SnapshotOK
    <3> HIDE DEF u
    <3>2. Refresh(u) = u
      BY <1>1, <3>1, RefreshRests DEF AtRest, ThreadOK, Clear
    <3> QED BY <3>1, <3>2 DEF u
  <2> HIDE DEF stored
  <2>7. ThreadOK(t1, n) /\ t1.messages = t.messages /\ t1.stream = t.stream
    BY <1>1, <2>6
  <2> HIDE DEF t1
  <2>8. /\ ThreadOK(t2, n) /\ t2.messages = t1.messages /\ t2.stream = t1.stream
        /\ t2.currCheckpointIdx = k
    BY <2>3, <2>5, <2>7, StandOK
  <2> HIDE DEF t2
  <2>9. Refresh(t2) = t2
    BY <1>1, <2>7, <2>8, RefreshRests DEF AtRest, ThreadOK, Clear
  <2>10. JumpTo(t0, i) = t2
    BY <1>2, <1>5, <2>9
  <2> QED BY <1>1, <2>3, <2>7, <2>8, <2>10
<1> QED BY <1>4, <1>5

\* A jump is made, and what it leads to, on a thread that shows nothing.
LEMMA IdleFacts ==
  ASSUME IInv, SInv, ~Running(thread)
  PROVE  Clear(thread.messages) /\ thread.stream.isRunning = "no"
BY DEF Running, Clear, SInv, Settled, AwaitsOK, RunningOK

LEMMA IdleActs ==
  ASSUME IInv, SInv, NEW t, thread' = t, UNCHANGED <<runs, call, turns>>,
         thread.stream.isRunning = "no", t.stream = thread.stream,
         ThreadOK(t, Len(turns)), Clear(t.messages), CarriedFrom(t.messages, thread.messages),
         thread.currCheckpointIdx <= Len(thread.messages) => t.currCheckpointIdx <= Len(t.messages)
  PROVE  SInv'
<1>1. \A r \in Runs : /\ runs'[r].pc \in {"off", runs[r].pc}
                      /\ runs'[r].pc # "off" => runs'[r].tool = runs[r].tool
                      /\ runs'[r].stopPending => runs'[r].pc = "callTool"
  BY SameRuns
<1>2. LiveIn(runs) # {} => t.currCheckpointIdx <= Len(t.messages)
  BY DEF SInv, Settled, StandsInside
<1>3. t.stream.isRunning # "awaiting_user"
  OBVIOUS
<1>4. call' = call /\ turns' = turns
  OBVIOUS
<1> QED BY <1>1, <1>2, <1>3, <1>4, UserActs DEF Clear

LEMMA JumpSettled ==
  ASSUME IInv, SInv, NEW i \in 1 .. Len(thread.messages), Jump(i)
  PROVE  SInv'
<1> DEFINE t == JumpTo(thread, i)
<1>1. ~Running(thread) /\ thread' = t /\ UNCHANGED <<runs, call, turns>>
  BY DEF Jump
<1>2. Clear(thread.messages) /\ thread.stream.isRunning = "no"
  BY <1>1, IdleFacts
<1>3. /\ ThreadOK(t, Len(turns)) /\ Clear(t.messages) /\ t.stream = thread.stream
      /\ CarriedFrom(t.messages, thread.messages)
      /\ thread.currCheckpointIdx <= Len(thread.messages) => t.currCheckpointIdx <= Len(t.messages)
  BY <1>2, SettledFacts, JumpToOK
<1> HIDE DEF t
<1> QED BY <1>1, <1>2, <1>3, IdleActs

LEMMA RevertSettled ==
  ASSUME IInv, SInv, NEW i \in 1 .. Len(thread.messages), Revert(i)
  PROVE  SInv'
<1> DEFINE n == Len(turns)
           t == JumpTo(thread, i)
           ms == UpToCheckpoint(t)
           t1 == Store(t, ms)
<1>1. ~Running(thread) /\ thread' = Refresh(t1) /\ UNCHANGED <<runs, call, turns>>
  BY DEF Revert
<1>2. /\ Clear(thread.messages) /\ thread.stream.isRunning = "no"
      /\ ThreadOK(thread, n) /\ n \in Nat
  BY <1>1, IdleFacts, SettledFacts
<1>3. /\ ThreadOK(t, n) /\ Clear(t.messages) /\ t.stream = thread.stream
      /\ CarriedFrom(t.messages, thread.messages)
      /\ thread.currCheckpointIdx <= Len(thread.messages) => t.currCheckpointIdx <= Len(t.messages)
  BY <1>2, JumpToOK
<1> HIDE DEF t, n
<1>4. t \in Thread /\ t.messages \in Seq(Message) /\ t.currCheckpointIdx \in Nat /\ SnapshotOK(t, n)
      /\ Len(t.messages) \in Nat
  BY <1>3, LenNat DEF ThreadOK
<1>5. ms = UpToCheckpoint(t)
  OBVIOUS
<1> HIDE DEF ms
<1>6. /\ ms \in Seq(Message) /\ Len(ms) <= Len(t.messages)
      /\ RunningLast(ms) /\ UserApart(ms) /\ CarriedOnce(ms)
      /\ RequestOpen(ms) /\ KnownIds(ms, n) /\ StandsOK(ms, t.currCheckpointIdx)
      /\ ~EndsWith(ms, "tool_request")
      /\ \A j \in 1 .. Len(ms) : ms[j] = t.messages[j]
      /\ t.currCheckpointIdx <= Len(t.messages) => t.currCheckpointIdx <= Len(ms)
  BY <1>2, <1>4, <1>5, UpToOK
<1>7. Len(ms) \in Nat /\ \A j \in 1 .. Len(ms) : j \in 1 .. Len(t.messages)
  BY <1>4, <1>6
<1>8. ~EndsWith(ms, "running_now")
  <2> SUFFICES ASSUME EndsWith(ms, "running_now") PROVE FALSE
    OBVIOUS
  <2>1. Len(ms) \in 1 .. Len(ms) /\ ms[Len(ms)].type = "running_now"
    BY <1>7 DEF EndsWith
  <2>2. t.messages[Len(ms)].type = "running_now" /\ Len(ms) \in 1 .. Len(t.messages)
    BY <1>6, <1>7, <2>1
  <2>3. Len(ms) = Len(t.messages)
    BY <1>4, <2>2 DEF SnapshotOK, RunningLast
  <2> QED BY <1>3, <1>4, <2>2, <2>3 DEF Clear, EndsWith
<1>9. CarriedFrom(ms, t.messages)
  BY <1>6, <1>7 DEF CarriedFrom
<1>10. /\ ThreadOK(t1, n) /\ t1.messages = ms /\ t1.stream = t.stream
       /\ t1.currCheckpointIdx = t.currCheckpointIdx
  BY <1>2, <1>4, <1>6, StoreOK
<1> HIDE DEF t1
<1>11. Refresh(t1) = t1
  BY <1>6, <1>8, <1>10, RefreshRests DEF AtRest, ThreadOK
<1>12. CarriedFrom(t1.messages, thread.messages)
  BY <1>3, <1>9, <1>10, CarriedTrans
<1>13. /\ thread' = t1 /\ t1.stream = thread.stream /\ ThreadOK(t1, Len(turns)) /\ Clear(t1.messages)
       /\ thread.currCheckpointIdx <= Len(thread.messages) => t1.currCheckpointIdx <= Len(t1.messages)
  BY <1>1, <1>3, <1>6, <1>8, <1>10, <1>11 DEF Clear, n
<1> QED BY <1>1, <1>2, <1>12, <1>13, IdleActs

LEMMA EditSettled ==
  ASSUME IInv, SInv, ~Overlap, NEW u \in Users, NEW i \in 1 .. Len(thread.messages),
         NEW cut \in BOOLEAN, Edit(u, i, cut)
  PROVE  SInv'
<1> DEFINE n == Len(turns)
           t == Halt(thread, cut)
           halted == SetStream(t, NotRunning(FALSE))
           k == i - 1
           ms == SubSeq(t.messages, 1, k)
           t1 == [halted EXCEPT !.messages = ms]
           t2 == EnterContent(t1)
           cs == SetStage(u, "content")
<1>1. /\ thread.messages[i].role = "user" /\ runs' = InterruptRuns(t.stream)
      /\ \A r \in Runs : runs'[r].pc = "off"
      /\ \A v \in Users : ~Waiting(v)
      /\ call' = cs /\ turns' = turns
      /\ thread' = EnterContent(Refresh([halted EXCEPT !.messages = Slice(t.messages, i - 1)]))
  BY DEF Edit
<1>2. /\ ThreadOK(t, n) /\ Clear(t.messages) /\ Extends(t, thread) /\ n \in Nat
  BY HaltOK, SettledFacts
<1>3. WaitingIn(call) = {}
  BY <1>1 DEF WaitingIn, Waiting
<1>4. (\A v \in Users : BaseOK(cs[v], Len(turns))) /\ WaitingIn(cs) = {u}
  BY <1>3, StageSettled
<1>5. \A r \in Runs : runs'[r].pc = "off" /\ ~runs'[r].stopPending
  BY <1>1, InterruptedRuns
<1> HIDE DEF t, n, cs
<1>6. t.messages \in Seq(Message) /\ Len(t.messages) \in Nat /\ t.currCheckpointIdx \in Nat
      /\ SnapshotOK(t, n)
  BY <1>2, LenNat DEF ThreadOK
<1>7. i \in 1 .. Len(t.messages) /\ t.messages[i].role = "user"
  BY <1>1, <1>2 DEF Extends, KeepsUsers
<1>8. k \in 0 .. Len(t.messages) /\ k <= Len(t.messages)
      /\ (k > 0 => i > 1 /\ k = i - 1 /\ k \in 1 .. Len(t.messages))
  BY <1>6, <1>7
<1>9. Slice(t.messages, i - 1) = ms
  BY <1>6, <1>8 DEF Slice
<1>10. k > 0 => t.messages[k].type # "tool_request"
  BY <1>6, <1>7, <1>8 DEF SnapshotOK, UserApart
<1>11. ms = SubSeq(t.messages, 1, k)
  OBVIOUS
<1>12. /\ ThreadOK(halted, n) /\ halted.messages = t.messages
       /\ halted.currCheckpointIdx = t.currCheckpointIdx /\ halted.stream = NotRunning(FALSE)
  BY <1>2, SetStreamOK, StreamTypes
<1> HIDE DEF k, ms, halted
<1>13. ms \in Seq(Message) /\ Len(ms) = k
  BY <1>2, <1>6, <1>8, <1>10, <1>11, PrefixOK
<1>14. RunningLast(ms) /\ UserApart(ms) /\ CarriedOnce(ms)
  BY <1>2, <1>6, <1>8, <1>10, <1>11, PrefixOK
<1>15. RequestOpen(ms) /\ KnownIds(ms, n) /\ ~EndsWith(ms, "tool_request")
  BY <1>2, <1>6, <1>8, <1>10, <1>11, PrefixOK
<1>16. StandsOK(ms, t.currCheckpointIdx)
  BY <1>2, <1>6, <1>8, <1>10, <1>11, PrefixOK
<1>17. \A j \in 1 .. Len(ms) : ms[j] = t.messages[j]
  BY <1>2, <1>6, <1>8, <1>10, <1>11, PrefixOK
<1>18. ~EndsWith(ms, "running_now")
  <2> SUFFICES ASSUME EndsWith(ms, "running_now") PROVE FALSE
    OBVIOUS
  <2>1. k \in 1 .. Len(ms) /\ k \in 1 .. Len(t.messages) /\ ms[k].type = "running_now"
    BY <1>6, <1>8, <1>13 DEF EndsWith
  <2>2. t.messages[k].type = "running_now"
    BY <1>17, <2>1
  <2>3. k = Len(t.messages)
    BY <1>6, <2>1, <2>2 DEF SnapshotOK, RunningLast
  <2> QED BY <1>2, <1>6, <2>1, <2>2, <2>3 DEF Clear, EndsWith
<1>19. /\ t1 \in Thread /\ t1.messages = ms /\ t1.disk = halted.disk
       /\ t1.currCheckpointIdx = t.currCheckpointIdx /\ t1.stream = NotRunning(FALSE)
  BY <1>12, <1>13 DEF ThreadOK, Thread
<1>20. thread' = EnterContent(Refresh(t1))
  BY <1>1, <1>9
<1> HIDE DEF t1
<1>21. SnapshotOK(t1, n)
  BY <1>14, <1>15, <1>16, <1>19 DEF SnapshotOK
<1>22. ThreadOK(t1, n)
  BY <1>12, <1>19, <1>21 DEF ThreadOK
<1>23. Refresh(t1) = t1
  BY <1>15, <1>18, <1>19, RefreshRests DEF AtRest
<1>24. /\ ThreadOK(t2, n) /\ t2.stream = t1.stream
       /\ ~EndsWith(t2.messages, "tool_request") /\ ~EndsWith(t2.messages, "running_now")
  BY <1>2, <1>15, <1>18, <1>19, <1>22, EnterContentOK
<1> HIDE DEF t2
<1>25. thread' = t2
  BY <1>20, <1>23 DEF t2
<1>26. t2.stream.isRunning = "no"
  BY <1>19, <1>24 DEF NotRunning
<1>27. ThreadOK(t2, Len(turns))
  BY <1>24 DEF n
<1> QED BY <1>1, <1>4, <1>5, <1>24, <1>25, <1>26, <1>27, NobodyStarts

LEMMA NextSettled ==
  ASSUME IInv, SInv, ~Overlap, Next
  PROVE  SInv'
<1>1. ASSUME NEW r \in Runs, RunStep(r) \/ LLMText(r) PROVE SInv'
  BY <1>1, RunStepSettled, LLMTextSettled
<1>2. ASSUME NEW u \in Users, CallStep(u) PROVE SInv'
  BY <1>2, CallStepSettled
<1>3. CASE UserStep
  <2>1. ASSUME NEW u \in Users, Submit(u) \/ Resume(u) PROVE SInv'
    BY <2>1, SubmitSettled, ResumeSettled
  <2>2. ASSUME NEW i \in 1 .. Len(queue), RemoveQueued(i) PROVE SInv'
    BY <2>2, RemoveQueuedSettled
  <2>3. ASSUME NEW r \in Runs, Approve(r) PROVE SInv'
    BY <2>3, ApproveSettled
  <2>4. CASE Reject \/ DismissError \/ TouchThread \/ Restart
    BY <2>4, RejectSettled, DismissErrorSettled, TouchThreadSettled, RestartSettled
  <2>5. ASSUME NEW cut \in BOOLEAN, Stop(cut) PROVE SInv'
    BY <2>5, StopSettled
  <2>6. ASSUME NEW i \in 1 .. Len(thread.messages), Jump(i) \/ Revert(i) PROVE SInv'
    BY <2>6, JumpSettled, RevertSettled
  <2>7. ASSUME NEW i \in 1 .. Len(thread.messages), NEW u \in Users, NEW cut \in BOOLEAN,
               Edit(u, i, cut)
        PROVE  SInv'
    BY <2>7, EditSettled
  <2> QED BY <1>3, <2>1, <2>2, <2>3, <2>4, <2>5, <2>6, <2>7 DEF UserStep
<1> QED BY <1>1, <1>2, <1>3 DEF Next

LEMMA InitSettled ==
  ASSUME Init
  PROVE  SInv
<1>1. /\ thread = [messages |-> <<>>, currCheckpointIdx |-> 0,
                   stream |-> NotRunning(FALSE), disk |-> NoBase]
      /\ runs = [r \in Runs |-> Off] /\ turns = <<>>
      /\ call = [u \in Users |->
                   [stage |-> "unused", base |-> NoBase, viaQueue |-> FALSE]]
  BY DEF Init
<1>2. thread \in Thread
  BY InitGood DEF IInv, TypeOK
<1>3. ThreadOK(thread, Len(turns))
  BY <1>1, <1>2 DEF ThreadOK, SnapshotOK, NoBase, RunningLast, UserApart, CarriedOnce,
                    RequestOpen, KnownIds, StandsOK, EndsWith
<1>4. \A u \in Users : BaseOK(call[u], Len(turns)) /\ call[u].stage = "unused"
  BY <1>1, NoBaseOK
<1>5. \A r \in Runs : runs[r].pc = "off" /\ ~runs[r].stopPending
  BY <1>1 DEF Off
<1>6. LiveIn(runs) = {} /\ WaitingIn(call) = {}
  BY <1>4, <1>5 DEF LiveIn, WaitingIn
<1>7. \A type : ~EndsWith(thread.messages, type)
  BY <1>1 DEF EndsWith
<1>8. thread.stream.isRunning = "no"
  BY <1>1 DEF NotRunning
<1> QED BY <1>3, <1>4, <1>5, <1>6, <1>7, <1>8
        DEF SInv, Settled, Single, AwaitsOK, StandsInside, RunningOK, WorkOK, WorkPCs

-----------------------------------------------------------------------------
\* Settled threads stay settled

\* The conclusions of the invariant, for a single state.
LEMMA SettledImplies ==
  ASSUME IInv, SInv
  PROVE  OneTask /\ AwaitedRequestIsLast /\ NoToolLeftRunning /\ CarriedOutOnce
<1>1. thread \in Thread /\ thread.messages \in Seq(Message) /\ SnapshotOK(thread, Len(turns))
  BY SettledFacts, LenNat DEF ThreadOK
<1>2. OneTask
  <2>1. \A r \in Runs : Live(r) <=> r \in LiveIn(runs)
    BY DEF Live, LiveIn
  <2>2. \A u \in Users : Waiting(u) <=> u \in WaitingIn(call)
    BY DEF Waiting, WaitingIn
  <2>3. Single(runs, call)
    BY DEF SInv, Settled
  <2> QED BY <2>1, <2>2, <2>3 DEF OneTask, Single
<1>3. AwaitedRequestIsLast
  <2>1. thread.stream.isRunning = "awaiting_user" => EndsWith(thread.messages, "tool_request")
    BY DEF SInv, Settled, AwaitsOK
  <2> QED BY <1>1, <2>1, Ends DEF AwaitedRequestIsLast
<1>4. NoToolLeftRunning
  <2> SUFFICES ASSUME \A r \in Runs : ~Live(r), NEW i \in 1 .. Len(thread.messages),
                      thread.messages[i].type = "running_now"
               PROVE  FALSE
    BY DEF NoToolLeftRunning
  <2>1. LiveIn(runs) = {}
    BY DEF Live, LiveIn
  <2>2. ~EndsWith(thread.messages, "running_now")
    BY <2>1, NobodyWorks
  <2>3. i = Len(thread.messages)
    BY <1>1 DEF SnapshotOK, RunningLast
  <2> QED BY <1>1, <2>2, <2>3 DEF EndsWith
<1>5. CarriedOutOnce
  <2> SUFFICES ASSUME NEW i \in 1 .. Len(thread.messages), NEW j \in 1 .. Len(thread.messages),
                      thread.messages[i].id = thread.messages[j].id,
                      {thread.messages[i].type, thread.messages[j].type}
                        \subseteq {"running_now", "success", "tool_error"}
               PROVE  i = j
    BY DEF CarriedOutOnce
  <2>1. thread.messages[i].type \in CarriedTypes /\ IsCarried(thread.messages[j], thread.messages[i].id)
    BY DEF CarriedTypes, IsCarried
  <2> QED BY <1>1, <2>1 DEF SnapshotOK, CarriedOnce
<1> QED BY <1>2, <1>3, <1>4, <1>5

\* The invariant: when new work starts only on a settled thread, every history,
\* the one on disk and the ones read before an await included, stays in order.
THEOREM SettledAlways ==
  ASSUME ~Overlap
  PROVE  Spec => [](IInv /\ SInv)
<1>1. Init => SInv
  BY InitSettled
<1>2. IInv /\ SInv /\ [Next]_vars => SInv'
  <2>1. ASSUME IInv, SInv, Next PROVE SInv'
    BY <2>1, NextSettled
  <2>2. ASSUME SInv, UNCHANGED vars PROVE SInv'
    <3>1. thread' = thread /\ runs' = runs /\ call' = call /\ turns' = turns
      BY <2>2 DEF vars
    <3>2. SInv' <=> Settled(thread', runs', call', Len(turns'))
      BY DEF SInv
    <3> QED BY <2>2, <3>1, <3>2 DEF SInv
  <2> QED BY <2>1, <2>2
<1> QED BY <1>1, <1>2, Inductive, PTL DEF Spec

\* One task at a time: no two runs, and no run beside a message on its way into
\* the history, if the user starts new work only on a settled thread.
THEOREM OneTaskAlways ==
  ASSUME ~Overlap
  PROVE  Spec => []OneTask
<1>1. IInv /\ SInv => OneTask
  BY SettledImplies
<1> QED BY <1>1, SettledAlways, PTL

\* While the thread waits for the user's approval, the request it waits for is
\* the last message, so that approving it or rejecting it has an effect.
THEOREM AwaitedRequestIsLastAlways ==
  ASSUME ~Overlap
  PROVE  Spec => []AwaitedRequestIsLast
<1>1. IInv /\ SInv => AwaitedRequestIsLast
  BY SettledImplies
<1> QED BY <1>1, SettledAlways, PTL

\* When no run is alive no tool message says that a tool runs: Stop, Reject,
\* Edit and reopening the window leave none behind.
THEOREM NoToolLeftRunningAlways ==
  ASSUME ~Overlap
  PROVE  Spec => []NoToolLeftRunning
<1>1. IInv /\ SInv => NoToolLeftRunning
  BY SettledImplies
<1> QED BY <1>1, SettledAlways, PTL

\* No tool call is carried out twice, whatever is stopped, edited, reverted to,
\* cut back behind an await or cancelled when the window is reopened.
THEOREM CarriedOutOnceAlways ==
  ASSUME ~Overlap
  PROVE  Spec => []CarriedOutOnce
<1>1. IInv /\ SInv => CarriedOutOnce
  BY SettledImplies
<1> QED BY <1>1, SettledAlways, PTL

-----------------------------------------------------------------------------
\* User messages stay where they were said

\* Every user message of new stood in old, behind the same message.
Inherits(new, old) ==
  \A i \in 1 .. Len(new) :
    new[i].role = "user" =>
      /\ i \in 1 .. Len(old) /\ new[i] = old[i]
      /\ i > 1 => new[i - 1] = old[i - 1]

\* t1 has no user message, on disk either, that t did not have.
Tells(t1, t) ==
  /\ t1 \in Thread
  /\ Inherits(t1.messages, t.messages)
  /\ t1.disk = t.disk \/ Inherits(t1.disk.messages, t.messages)

\* The checkpoints of old are where they were.
Stays(new, old) ==
  \A i \in 1 .. Len(old) :
    old[i].role = "checkpoint" => i \in 1 .. Len(new) /\ new[i].role = "checkpoint"

\* t1 is t with messages written, or changed at the end.
Grows(t1, t) ==
  /\ Tells(t1, t) /\ Stays(t1.messages, t.messages)
  /\ t1.currCheckpointIdx = t.currCheckpointIdx

\* Nothing said anew, through any number of steps.
LEMMA InheritsSelf ==
  ASSUME NEW a PROVE Inherits(a, a)
BY DEF Inherits

LEMMA InheritsTrans ==
  ASSUME NEW a, NEW b, NEW c, Inherits(a, b), Inherits(b, c)
  PROVE  Inherits(a, c)
<1> SUFFICES ASSUME NEW i \in 1 .. Len(a), a[i].role = "user"
             PROVE  /\ i \in 1 .. Len(c) /\ a[i] = c[i]
                    /\ i > 1 => a[i - 1] = c[i - 1]
  BY DEF Inherits
<1>1. i \in 1 .. Len(b) /\ a[i] = b[i] /\ (i > 1 => a[i - 1] = b[i - 1])
  BY DEF Inherits
<1>2. i \in 1 .. Len(c) /\ b[i] = c[i] /\ (i > 1 => b[i - 1] = c[i - 1])
  BY <1>1 DEF Inherits
<1> QED BY <1>1, <1>2

LEMMA TellsSelf ==
  ASSUME NEW t \in Thread PROVE Tells(t, t)
BY InheritsSelf DEF Tells

LEMMA TellsTrans ==
  ASSUME NEW a, NEW b, NEW c, Tells(a, b), Tells(b, c)
  PROVE  Tells(a, c)
<1>1. Inherits(a.messages, c.messages)
  BY InheritsTrans DEF Tells
<1>2. CASE a.disk = b.disk
  BY <1>1, <1>2 DEF Tells
<1>3. CASE Inherits(a.disk.messages, b.messages)
  <2>1. Inherits(a.disk.messages, c.messages)
    BY <1>3, InheritsTrans DEF Tells
  <2> QED BY <1>1, <2>1 DEF Tells
<1> QED BY <1>2, <1>3 DEF Tells

LEMMA GrowsSelf ==
  ASSUME NEW t \in Thread PROVE Grows(t, t)
BY TellsSelf DEF Grows, Stays

LEMMA GrowsTrans ==
  ASSUME NEW a, NEW b, NEW c, Grows(a, b), Grows(b, c)
  PROVE  Grows(a, c)
<1>1. Tells(a, c)
  BY TellsTrans DEF Grows
<1>2. Stays(a.messages, c.messages)
  BY DEF Grows, Stays
<1> QED BY <1>1, <1>2 DEF Grows

\* A message written that is not the user's, and a history that is cut.
LEMMA WrittenInherits ==
  ASSUME NEW new, NEW old \in Seq(Message), NEW m, m.role # "user", Written(new, old, m)
  PROVE  Inherits(new, old) /\ Stays(new, old)
<1>1. Len(old) \in Nat /\ Len(new) \in {Len(old), Len(old) + 1}
  BY DEF Written
<1>2. ASSUME NEW i \in 1 .. Len(new), new[i].role = "user"
      PROVE  /\ i \in 1 .. Len(old) /\ new[i] = old[i]
             /\ i > 1 => new[i - 1] = old[i - 1]
  <2>1. i # Len(new)
    BY <1>2 DEF Written
  <2>2. i \in 1 .. Len(new) - 1 /\ i \in 1 .. Len(old)
    BY <1>1, <2>1
  <2>3. i > 1 => i - 1 \in 1 .. Len(new) - 1
    BY <1>1, <2>2
  <2> QED BY <2>2, <2>3 DEF Written
<1>3. ASSUME NEW i \in 1 .. Len(old), old[i].role = "checkpoint"
      PROVE  i \in 1 .. Len(new) /\ new[i].role = "checkpoint"
  <2>1. Len(new) = Len(old) => i # Len(old)
    BY <1>3, Ends DEF Written
  <2>2. i \in 1 .. Len(new) - 1 /\ i \in 1 .. Len(new)
    BY <1>1, <2>1
  <2> QED BY <1>3, <2>2 DEF Written
<1> QED BY <1>2, <1>3 DEF Inherits, Stays

LEMMA SliceInherits ==
  ASSUME NEW ms \in Seq(Message), NEW n \in Nat
  PROVE  Slice(ms, n) \in Seq(Message) /\ Inherits(Slice(ms, n), ms)
<1>1. CASE n > Len(ms)
  BY <1>1, InheritsSelf DEF Slice
<1>2. CASE ~(n > Len(ms))
  <2> DEFINE new == SubSeq(ms, 1, n)
  <2>1. /\ Len(ms) \in Nat /\ n <= Len(ms)
        /\ new \in Seq(Message) /\ Len(new) = n /\ \A i \in 1 .. n : new[i] = ms[i]
    BY <1>2
  <2> HIDE DEF new
  <2>2. Inherits(new, ms)
    BY <2>1 DEF Inherits
  <2> QED BY <1>2, <2>1, <2>2 DEF Slice, new
<1> QED BY <1>1, <1>2

LEMMA StoreTells ==
  ASSUME NEW t \in Thread, NEW ms \in Seq(Message), Inherits(ms, t.messages)
  PROVE  Tells(Store(t, ms), t) /\ Store(t, ms).messages = ms
<1>1. Store(t, ms) \in Thread /\ Store(t, ms).messages = ms
  BY StoreType
<1>2. Store(t, ms).disk.messages = ms
  BY DEF Store, Thread
<1> QED BY <1>1, <1>2 DEF Tells

LEMMA StoreGrows ==
  ASSUME NEW t \in Thread, NEW ms \in Seq(Message),
         Inherits(ms, t.messages), Stays(ms, t.messages)
  PROVE  Grows(Store(t, ms), t) /\ Store(t, ms).messages = ms
<1>1. Tells(Store(t, ms), t) /\ Store(t, ms).messages = ms
  BY StoreTells
<1>2. Store(t, ms).currCheckpointIdx = t.currCheckpointIdx
  BY DEF Store, Thread
<1> QED BY <1>1, <1>2 DEF Grows

\* What the operations on a thread write is not the user's.
LEMMA RefreshGrows ==
  ASSUME NEW t \in Thread
  PROVE  Grows(Refresh(t), t)
<1>1. t.messages \in Seq(Message)
  BY DEF Thread
<1>2. CASE Running(t) \/ t.stream.error \/ ~EndsWithTool(t.messages)
  BY <1>2, GrowsSelf DEF Refresh
<1>3. CASE ~(Running(t) \/ t.stream.error \/ ~EndsWithTool(t.messages)) /\ EndsWithRequest(t.messages)
  <2>1. Refresh(t) = SetStream(t, AwaitingUser)
    BY <1>3 DEF Refresh
  <2>2. Refresh(t) \in Thread
    BY RefreshType
  <2>3. /\ Refresh(t).messages = t.messages /\ Refresh(t).disk = t.disk
        /\ Refresh(t).currCheckpointIdx = t.currCheckpointIdx
    BY <2>1 DEF SetStream, Thread
  <2> QED BY <2>2, <2>3, InheritsSelf DEF Grows, Tells, Stays
<1>4. CASE ~(Running(t) \/ t.stream.error \/ ~EndsWithTool(t.messages)) /\ ~EndsWithRequest(t.messages)
  <2> DEFINE ms == [t.messages EXCEPT ![Len(t.messages)].type = "rejected"]
             k == Len(t.messages)
  <2>1. Refresh(t) \in {t, Store(t, ms)}
    BY <1>4 DEF Refresh
  <2>2. /\ k \in Nat /\ k > 0 /\ t.messages[k].role = "tool"
        /\ ms \in Seq(Message) /\ Len(ms) = k
    BY <1>1, <1>4, Ends, LastTool
  <2>3. ms[k].role = "tool"
    BY <1>1, <2>2 DEF Message
  <2>4. \A i \in 1 .. k : i # k => ms[i] = t.messages[i]
    BY <1>1
  <2> HIDE DEF ms
  <2>5. Stays(ms, t.messages)
    BY <2>2, <2>4 DEF Stays
  <2>6. Inherits(ms, t.messages)
    <3> SUFFICES ASSUME NEW i \in 1 .. k, ms[i].role = "user"
                 PROVE  ms[i] = t.messages[i] /\ (i > 1 => ms[i - 1] = t.messages[i - 1])
      BY <2>2 DEF Inherits
    <3>1. i # k
      BY <2>3
    <3>2. i > 1 => i - 1 \in 1 .. k /\ i - 1 # k
      BY <2>2
    <3> QED BY <2>4, <3>1, <3>2
  <2> QED BY <2>1, <2>2, <2>5, <2>6, StoreGrows, GrowsSelf
<1> QED BY <1>2, <1>3, <1>4

LEMMA SetStreamGrows ==
  ASSUME NEW t \in Thread, NEW s \in Stream
  PROVE  /\ Grows(SetStream(t, s), t)
         /\ SetStream(t, s).messages = t.messages
         /\ SetStream(t, s).currCheckpointIdx = t.currCheckpointIdx
<1>1. SetStream(t, s) \in Thread
  BY SetStreamType
<1>2. /\ SetStream(t, s).messages = t.messages /\ SetStream(t, s).disk = t.disk
      /\ SetStream(t, s).currCheckpointIdx = t.currCheckpointIdx
  BY DEF SetStream, Thread
<1> QED BY <1>1, <1>2, InheritsSelf DEF Grows, Tells, Stays

LEMMA AddGrows ==
  ASSUME NEW t \in Thread, NEW m \in Message, m.role # "user"
  PROVE  Grows(AddMessage(t, m), t)
<1> DEFINE ms == Append(t.messages, m)
<1>1. t.messages \in Seq(Message)
  BY DEF Thread
<1>2. ms \in Seq(Message) /\ Written(ms, t.messages, m)
  BY <1>1 DEF Written
<1> HIDE DEF ms
<1>3. Inherits(ms, t.messages) /\ Stays(ms, t.messages)
  BY <1>1, <1>2, WrittenInherits
<1>4. Grows(Store(t, ms), t)
  BY <1>2, <1>3, StoreGrows
<1>5. Grows(Refresh(Store(t, ms)), Store(t, ms))
  BY <1>4, RefreshGrows DEF Grows, Tells
<1> QED BY <1>4, <1>5, GrowsTrans DEF AddMessage, ms

\* The messages the program itself adds.
LEMMA OtherMessages ==
  /\ \A type \in ToolTypes, id \in Turns :
       ToolMsg(type, id) \in Message /\ ToolMsg(type, id).role = "tool"
  /\ Checkpoint("user_edit") \in Message /\ Checkpoint("user_edit").role = "checkpoint"
  /\ Checkpoint("tool_edit") \in Message /\ Checkpoint("tool_edit").role = "checkpoint"
  /\ Assistant \in Message /\ Assistant.role = "assistant"
  /\ InterruptedTool \in Message /\ InterruptedTool.role = "interrupted_streaming_tool"
BY MessageTypes DEF ToolMsg, Checkpoint, Assistant, InterruptedTool

LEMMA CheckpointGrows ==
  ASSUME NEW t \in Thread
  PROVE  Grows(AddUserCheckpoint(t), t)
<1> DEFINE m == Checkpoint("user_edit")
<1>1. m \in Message /\ m.role # "user"
  BY OtherMessages
<1> HIDE DEF m
<1>2. Grows(AddMessage(t, m), t)
  BY <1>1, AddGrows
<1> QED BY <1>2 DEF AddUserCheckpoint, m

LEMMA EnterGrows ==
  ASSUME NEW t \in Thread
  PROVE  Grows(EnterContent(t), t)
BY CheckpointGrows, GrowsSelf DEF EnterContent

LEMMA UpdateGrows ==
  ASSUME NEW t \in Thread, NEW m \in Message, m.role = "tool"
  PROVE  Grows(UpdateLatestTool(t, m), t)
<1>1. CASE EndsWithTool(t.messages)
  <2> DEFINE ms == [t.messages EXCEPT ![Len(t.messages)] = m]
  <2>1. t.messages \in Seq(Message) /\ Len(t.messages) \in 1 .. Len(t.messages)
    BY <1>1, LastTool DEF Thread
  <2>2. ms \in Seq(Message) /\ Written(ms, t.messages, m)
    BY <1>1, <2>1 DEF Written
  <2>3. UpdateLatestTool(t, m) = Refresh(Store(t, ms))
    BY <1>1 DEF UpdateLatestTool
  <2> HIDE DEF ms
  <2>4. Inherits(ms, t.messages) /\ Stays(ms, t.messages)
    BY <2>1, <2>2, WrittenInherits
  <2>5. Grows(Store(t, ms), t)
    BY <2>2, <2>4, StoreGrows
  <2>6. Grows(Refresh(Store(t, ms)), Store(t, ms))
    BY <2>5, RefreshGrows DEF Grows, Tells
  <2> QED BY <2>3, <2>5, <2>6, GrowsTrans
<1>2. CASE ~EndsWithTool(t.messages)
  BY <1>2, AddGrows DEF UpdateLatestTool
<1> QED BY <1>1, <1>2

\* The history ends with a checkpoint, or has not begun.
Rests(ms) == ms = <<>> \/ (Len(ms) > 0 /\ ms[Len(ms)].role = "checkpoint")

\* A checkpoint added stands at the end.
LEMMA CheckpointRests ==
  ASSUME NEW t \in Thread
  PROVE  /\ Rests(AddUserCheckpoint(t).messages) /\ AddUserCheckpoint(t).messages # <<>>
         /\ AddUserCheckpoint(t).stream = t.stream
<1> DEFINE m == Checkpoint("user_edit")
           ms == Append(t.messages, m)
           t1 == Store(t, ms)
<1>1. t.messages \in Seq(Message) /\ m \in Message /\ m.role = "checkpoint"
  BY OtherMessages DEF Thread
<1> HIDE DEF m
<1>2. ms \in Seq(Message) /\ Len(ms) > 0 /\ ms[Len(ms)] = m
  BY <1>1
<1> HIDE DEF ms
<1>3. t1 \in Thread /\ t1.messages = ms /\ t1.stream = t.stream
  BY <1>2, StoreType
<1> HIDE DEF t1
<1>4. ~EndsWithTool(ms)
  BY <1>1, <1>2, Ends
<1>5. Refresh(t1) = t1
  BY <1>3, <1>4 DEF Refresh
<1>6. AddUserCheckpoint(t) = t1
  BY <1>5 DEF AddUserCheckpoint, AddMessage, t1, ms, m
<1> QED BY <1>1, <1>2, <1>3, <1>6 DEF Rests

\* So does what a message with content is waited for on.
LEMMA EnterRests ==
  ASSUME NEW t \in Thread, Rests(t.messages)
  PROVE  Rests(EnterContent(t).messages) /\ EnterContent(t).messages # <<>>
BY CheckpointRests DEF EnterContent

\* A run that ends leaves a checkpoint.
LEMMA EndedGrows ==
  ASSUME NEW t \in Thread
  PROVE  Grows(Ended(t), t) /\ Rests(Ended(t).messages)
<1> DEFINE t1 == SetStream(t, NotRunning(FALSE))
<1>1. Grows(t1, t) /\ t1 \in Thread
  BY SetStreamGrows, SetStreamType, StreamTypes
<1> HIDE DEF t1
<1>2. Grows(AddUserCheckpoint(t1), t1) /\ Rests(AddUserCheckpoint(t1).messages)
  BY <1>1, CheckpointGrows, CheckpointRests
<1> QED BY <1>1, <1>2, GrowsTrans DEF Ended, t1

\* What a run shows is activity.
LEMMA StreamAtRuns ==
  ASSUME NEW t \in Thread, NEW r \in Runs, NEW pc \in PCs
  PROVE  /\ Grows(SetStream(t, StreamAt(r, pc)), t)
         /\ Running(SetStream(t, StreamAt(r, pc)))
<1>1. StreamAt(r, pc) \in Stream /\ StreamAt(r, pc).isRunning # "no"
  BY StreamTypes, StreamFacts
<1>2. SetStream(t, StreamAt(r, pc)).stream = StreamAt(r, pc)
  BY <1>1, SetStreamType
<1> QED BY <1>1, <1>2, SetStreamGrows DEF Running

LEMMA AtLoopGrows ==
  ASSUME NEW t \in Thread, NEW r \in Runs
  PROVE  Grows(AtLoop(t, r), t) /\ Running(AtLoop(t, r))
BY StreamAtRuns DEF AtLoop, PCs

LEMMA BeginToolGrows ==
  ASSUME NEW t \in Thread, NEW r \in Runs, NEW id \in Turns, NEW kind
  PROVE  Grows(BeginTool(t, r, id, kind), t) /\ Running(BeginTool(t, r, id, kind))
<1> DEFINE m == ToolMsg("running_now", id)
           t1 == UpdateLatestTool(t, m)
<1>1. m \in Message /\ m.role = "tool"
  BY OtherMessages DEF ToolTypes
<1> HIDE DEF m
<1>2. Grows(t1, t) /\ t1 \in Thread
  BY <1>1, UpdateGrows, UpdateLatestToolType
<1> HIDE DEF t1
<1>3. Grows(SetStream(t1, StreamAt(r, ToolPC(kind))), t1) /\ Running(SetStream(t1, StreamAt(r, ToolPC(kind))))
  BY <1>2, ToolPCs, StreamAtRuns
<1> QED BY <1>2, <1>3, GrowsTrans DEF BeginTool, t1, m

-----------------------------------------------------------------------------
\* What the steps of a run leave

\* The run was told to stop and has not returned.
Flagged(run) == run.interruptedWhenIdle \/ run.interrupted \/ run.stopPending

\* A thread that shows nothing ends with a checkpoint, and so does one whose run
\* was told to stop.
FlagsRest ==
  /\ Running(thread) \/ Rests(thread.messages)
  /\ \A r \in Runs : Flagged(runs[r]) => Rests(thread.messages)

\* A run that goes on or whose preparation fails, and one that returns.
On(r) ==
  /\ Grows(thread', thread) /\ UNCHANGED <<call, queue>>
  /\ \A s \in Runs : s # r => runs'[s] = runs[s]
  /\ FlagsRest =>
       /\ Running(thread') \/ Rests(thread'.messages)
       /\ Flagged(runs'[r]) => Rests(thread'.messages)
Back(r) ==
  \E t, p :
    /\ Finish(r, t, p) /\ Grows(t, thread)
    /\ FlagsRest => Running(t) \/ Rests(t.messages)

\* What each action of a run comes down to.
LEMMA MoveOn ==
  ASSUME IInv, NEW r \in Runs, NEW t, NEW run, Move(r, t, run),
         Grows(t, thread), Running(t), ~Flagged(run)
  PROVE  On(r)
<1>1. runs \in [Runs -> Run]
  BY DEF IInv, TypeOK
<1>2. thread' = t /\ runs' = [runs EXCEPT ![r] = run] /\ UNCHANGED <<call, queue>>
  BY DEF Move
<1>3. runs'[r] = run /\ \A s \in Runs : s # r => runs'[s] = runs[s]
  BY <1>1, <1>2
<1> QED BY <1>2, <1>3 DEF On

LEMMA FinishBack ==
  ASSUME NEW r \in Runs, NEW t, NEW p, Finish(r, t, p), Grows(t, thread),
         FlagsRest => Running(t) \/ Rests(t.messages)
  PROVE  Back(r)
BY DEF Back

\* Where a run that was told to stop waits.
LEMMA WhereFlagged ==
  ASSUME IInv, SInv, NEW r \in Runs
  PROVE  /\ runs[r].interruptedWhenIdle => runs[r].pc \in {"prep", "retry"}
         /\ runs[r].interrupted => runs[r].pc = "toolResult"
         /\ runs[r].stopPending => runs[r].pc = "callTool"
<1>1. WorkOK(thread, runs[r], Len(turns)) /\ RunOK(runs[r])
  BY DEF IInv, SInv, Settled
<1> QED BY <1>1 DEF WorkOK, RunOK

LEMMA LoopFlags ==
  ASSUME NEW run \in Run
  PROVE  /\ Loop(run).interruptedWhenIdle = run.interruptedWhenIdle
         /\ Loop(run).stopPending = run.stopPending /\ Loop(run).interrupted = FALSE
         /\ \A f : Flagged([Loop(run) EXCEPT !.force = f]) <=> Flagged(Loop(run))
<1>1. /\ Loop(run).interruptedWhenIdle = run.interruptedWhenIdle
      /\ Loop(run).stopPending = run.stopPending /\ Loop(run).interrupted = FALSE
  BY DEF Loop, Run
<1>2. ASSUME NEW f
      PROVE  LET q == [Loop(run) EXCEPT !.force = f] IN
             /\ q.interruptedWhenIdle = Loop(run).interruptedWhenIdle
             /\ q.stopPending = Loop(run).stopPending /\ q.interrupted = Loop(run).interrupted
  BY DEF Loop, Run
<1> QED BY <1>1, <1>2 DEF Flagged

\* A request is sent by a run nobody told to stop.
LEMMA SendOn ==
  ASSUME IInv, SInv, NEW r \in Runs, ~Flagged(runs[r]), Send(r, runs[r])
  PROVE  On(r)
<1> DEFINE run == [runs[r] EXCEPT !.pc = "llm", !.attempts = @ + 1]
           t == SetStream(thread, StreamAt(r, "llm"))
<1>1. Move(r, t, run)
  BY DEF Send
<1>2. runs[r] \in Run /\ thread \in Thread
  BY IInvFacts
<1>3. ~Flagged(run)
  BY <1>2 DEF Flagged, Run
<1>4. Grows(t, thread) /\ Running(t)
  BY <1>2, StreamAtRuns DEF PCs
<1> HIDE DEF run, t
<1> QED BY <1>1, <1>3, <1>4, MoveOn

\* A run told to stop leaves the thread as the user's Stop left it.
LEMMA SilentBack ==
  ASSUME IInv, SInv, NEW r \in Runs, Flagged(runs[r]), NEW p, Finish(r, SetStream(thread, NotRunning(FALSE)), p)
  PROVE  Back(r)
<1> DEFINE t == SetStream(thread, NotRunning(FALSE))
<1>1. Grows(t, thread) /\ t.messages = thread.messages
  BY IInvFacts, SetStreamGrows, StreamTypes
<1>2. FlagsRest => Rests(t.messages)
  BY <1>1 DEF FlagsRest
<1> HIDE DEF t
<1> QED BY <1>1, <1>2, FinishBack DEF t

LEMMA PreparedGrows ==
  ASSUME IInv, SInv, NEW r \in Runs, Prepared(r)
  PROVE  On(r) \/ Back(r)
<1>1. CASE IdleInterrupted(r) /\ Finish(r, SetStream(thread, NotRunning(FALSE)), paused)
  BY <1>1, SilentBack DEF IdleInterrupted, Flagged
<1>2. CASE ~IdleInterrupted(r) /\ Send(r, runs[r])
  <2>1. ~Flagged(runs[r])
    BY <1>2, WhereFlagged DEF Flagged, IdleInterrupted, Prepared
  <2> QED BY <1>2, <2>1, SendOn
<1>3. CASE Finish(r, Ended(SetStream(thread, NotRunning(TRUE))), paused)
  <2> DEFINE t1 == SetStream(thread, NotRunning(TRUE))
             t == Ended(t1)
  <2>1. t1 \in Thread /\ Grows(t1, thread)
    BY IInvFacts, SetStreamGrows, SetStreamType, StreamTypes
  <2> HIDE DEF t1
  <2>2. Grows(t, thread) /\ Rests(t.messages)
    BY <2>1, EndedGrows, GrowsTrans
  <2> HIDE DEF t
  <2> QED BY <1>3, <2>2, FinishBack DEF t, t1
<1> QED BY <1>1, <1>2, <1>3 DEF Prepared

\* A preparation that fails leaves the history and the flags of the others alone.
LEMMA PrepareFailsGrows ==
  ASSUME IInv, SInv, NEW r \in Runs, PrepareFails(r)
  PROVE  On(r)
<1>1. /\ runs' = [runs EXCEPT ![r] = Off] /\ UNCHANGED <<call, queue>>
      /\ runs \in [Runs -> Run] /\ thread \in Thread
  BY DEF PrepareFails, IInv, TypeOK
<1>2. PICK s \in Stream :
        thread' = SetStream(thread, s) /\ s.isRunning = thread.stream.isRunning
  BY PrepareFailsShows
<1>3. Grows(thread', thread) /\ thread'.messages = thread.messages /\ thread'.stream = s
  BY <1>1, <1>2, SetStreamGrows, SetStreamType
<1>4. ~Flagged(runs'[r]) /\ \A s1 \in Runs : s1 # r => runs'[s1] = runs[s1]
  BY <1>1 DEF Flagged, Off
<1>5. FlagsRest => Running(thread') \/ Rests(thread'.messages)
  BY <1>2, <1>3 DEF FlagsRest, Running
<1> QED BY <1>1, <1>3, <1>4, <1>5 DEF On

LEMMA SupersededGrows ==
  ASSUME IInv, SInv, NEW r \in Runs, Superseded(r)
  PROVE  Back(r)
<1>1. Finish(r, thread, paused) /\ thread \in Thread
  BY IInvFacts DEF Superseded
<1>2. FlagsRest => Running(thread) \/ Rests(thread.messages)
  BY DEF FlagsRest
<1> QED BY <1>1, <1>2, GrowsSelf, FinishBack

LEMMA LLMTextGrows ==
  ASSUME IInv, SInv, NEW r \in Runs, LLMText(r)
  PROVE  On(r)
<1>1. Grows(thread', thread) /\ Running(thread')
  BY IInvFacts, StreamAtRuns DEF LLMText, PCs
<1>2. ~Flagged(runs[r])
  BY WhereFlagged DEF LLMText, Flagged
<1>3. runs' = runs /\ UNCHANGED <<call, queue>>
  BY DEF LLMText
<1> QED BY <1>1, <1>2, <1>3 DEF On

\* What the model said so far is kept.
LEMMA SaidGrows ==
  ASSUME NEW t \in Thread, NEW cut \in BOOLEAN
  PROVE  LET t1 == AddMessage(t, Assistant)
             t2 == IF cut THEN AddMessage(t1, InterruptedTool) ELSE t1
         IN t2 \in Thread /\ Grows(t2, t)
<1> DEFINE t1 == AddMessage(t, Assistant)
           t2 == IF cut THEN AddMessage(t1, InterruptedTool) ELSE t1
<1>1. t1 \in Thread /\ Grows(t1, t)
  BY OtherMessages, AddGrows, AddMessageType
<1> HIDE DEF t1
<1>2. AddMessage(t1, InterruptedTool) \in Thread /\ Grows(AddMessage(t1, InterruptedTool), t1)
  BY <1>1, OtherMessages, AddGrows, AddMessageType
<1>3. t2 \in Thread /\ Grows(t2, t)
  BY <1>1, <1>2, GrowsTrans
<1> QED BY <1>3 DEF t1, t2

LEMMA LLMErrorGrows ==
  ASSUME IInv, SInv, NEW r \in Runs, LLMError(r)
  PROVE  On(r) \/ Back(r)
<1>1. runs[r].pc = "llm" /\ thread.stream.isRunning = "LLM" /\ thread \in Thread /\ runs[r] \in Run
  BY IInvFacts DEF LLMError
<1>2. ~Flagged(runs[r])
  BY <1>1, WhereFlagged DEF Flagged
<1>3. CASE Move(r, SetStream(thread, StreamAt(r, "retry")), [runs[r] EXCEPT !.pc = "retry"])
  <2> DEFINE run == [runs[r] EXCEPT !.pc = "retry"]
             t == SetStream(thread, StreamAt(r, "retry"))
  <2>1. ~Flagged(run)
    BY <1>1, <1>2 DEF Flagged, Run
  <2>2. Grows(t, thread) /\ Running(t)
    BY <1>1, StreamAtRuns DEF PCs
  <2> HIDE DEF run, t
  <2> QED BY <1>3, <2>1, <2>2, MoveOn DEF run, t
<1>4. CASE Move(r, thread, [runs[r] EXCEPT !.pc = "compact"])
  <2> DEFINE run == [runs[r] EXCEPT !.pc = "compact"]
  <2>1. ~Flagged(run)
    BY <1>1, <1>2 DEF Flagged, Run
  <2>2. Grows(thread, thread) /\ Running(thread)
    BY <1>1, GrowsSelf DEF Running
  <2> HIDE DEF run
  <2> QED BY <1>4, <2>1, <2>2, MoveOn DEF run
<1>5. ASSUME NEW cut \in BOOLEAN,
             LET t1 == AddMessage(thread, Assistant)
                 t2 == IF cut THEN AddMessage(t1, InterruptedTool) ELSE t1
             IN Finish(r, AddUserCheckpoint(SetStream(t2, NotRunning(TRUE))), TRUE)
      PROVE  Back(r)
  <2> DEFINE t1 == AddMessage(thread, Assistant)
             t2 == IF cut THEN AddMessage(t1, InterruptedTool) ELSE t1
             t3 == SetStream(t2, NotRunning(TRUE))
             t4 == AddUserCheckpoint(t3)
  <2>1. t2 \in Thread /\ Grows(t2, thread)
    BY <1>1, SaidGrows
  <2> HIDE DEF t2
  <2>2. t3 \in Thread /\ Grows(t3, t2)
    BY <2>1, SetStreamGrows, SetStreamType, StreamTypes
  <2> HIDE DEF t3
  <2>3. Grows(t4, t3) /\ Rests(t4.messages)
    BY <2>2, CheckpointGrows, CheckpointRests
  <2>4. Finish(r, t4, TRUE)
    BY <1>5 DEF t3, t2
  <2> HIDE DEF t4
  <2>5. Grows(t4, thread)
    BY <2>1, <2>2, <2>3, GrowsTrans
  <2> QED BY <2>3, <2>4, <2>5, FinishBack
<1> QED BY <1>3, <1>4, <1>5 DEF LLMError

LEMMA CompactedGrows ==
  ASSUME IInv, SInv, NEW r \in Runs, Compacted(r)
  PROVE  On(r)
<1> DEFINE run == [runs[r] EXCEPT !.pc = "retry"]
           t == SetStream(thread, StreamAt(r, "retry"))
<1>1. runs[r].pc = "compact" /\ Move(r, t, run) /\ thread \in Thread /\ runs[r] \in Run
  BY IInvFacts DEF Compacted
<1>2. ~Flagged(run)
  BY <1>1, WhereFlagged DEF Flagged, Run
<1>3. Grows(t, thread) /\ Running(t)
  BY <1>1, StreamAtRuns DEF PCs
<1> HIDE DEF run, t
<1> QED BY <1>1, <1>2, <1>3, MoveOn

LEMMA RetryElapsedGrows ==
  ASSUME IInv, SInv, NEW r \in Runs, RetryElapsed(r)
  PROVE  On(r) \/ Back(r)
<1>1. CASE IdleInterrupted(r)
  BY <1>1, SilentBack DEF IdleInterrupted, Flagged, RetryElapsed
<1>2. CASE ~IdleInterrupted(r)
  <2>1. ~Flagged(runs[r])
    BY <1>2, WhereFlagged DEF Flagged, IdleInterrupted, RetryElapsed
  <2> QED BY <1>2, <2>1, SendOn DEF RetryElapsed
<1> QED BY <1>1, <1>2

LEMMA RequestOrCallGrows ==
  ASSUME IInv, NEW r \in Runs, ~Flagged(runs[r]), NEW t \in Thread, Grows(t, thread),
         NEW id \in Turns, NEW kind, RequestOrCall(r, t, id, kind)
  PROVE  On(r) \/ Back(r)
<1> PICK auto \in AutoApprove, loaded \in BOOLEAN :
      LET t1 == IF kind = "edit" /\ loaded
                THEN AddMessage(t, Checkpoint("tool_edit")) ELSE t
          t2 == IF kind = "read" THEN t1
                ELSE AddMessage(t1, ToolMsg("tool_request", id))
      IN IF kind = "read" \/ auto
         THEN Move(r, BeginTool(t2, r, id, kind),
                   [runs[r] EXCEPT !.pc = ToolPC(kind), !.tool = id])
         ELSE Finish(r, SetStream(t2, AwaitingUser), paused)
  BY DEF RequestOrCall
<1> DEFINE c == Checkpoint("tool_edit")
           m == ToolMsg("tool_request", id)
           t1 == IF kind = "edit" /\ loaded THEN AddMessage(t, c) ELSE t
           t2 == IF kind = "read" THEN t1 ELSE AddMessage(t1, m)
           t3 == BeginTool(t2, r, id, kind)
           t4 == SetStream(t2, AwaitingUser)
           run == [runs[r] EXCEPT !.pc = ToolPC(kind), !.tool = id]
<1>1. c \in Message /\ c.role # "user" /\ m \in Message /\ m.role # "user"
  BY OtherMessages DEF ToolTypes
<1> HIDE DEF c, m
<1>2. t1 \in Thread /\ Grows(t1, t)
  BY <1>1, AddGrows, AddMessageType, GrowsSelf
<1> HIDE DEF t1
<1>3. t2 \in Thread /\ Grows(t2, t1)
  BY <1>1, <1>2, AddGrows, AddMessageType, GrowsSelf
<1>4. IF kind = "read" \/ auto THEN Move(r, t3, run) ELSE Finish(r, t4, paused)
  BY DEF t1, c, m
<1> HIDE DEF t2
<1>5. Grows(t2, thread)
  BY <1>2, <1>3, GrowsTrans
<1>6. CASE Move(r, t3, run)
  <2>1. ~Flagged(run)
    BY IInvFacts DEF Flagged, Run
  <2>2. Grows(t3, t2) /\ Running(t3)
    BY <1>3, BeginToolGrows
  <2> HIDE DEF t3, run
  <2>3. Grows(t3, thread)
    BY <1>5, <2>2, GrowsTrans
  <2> QED BY <1>6, <2>1, <2>2, <2>3, MoveOn
<1>7. CASE Finish(r, t4, paused)
  <2>1. Grows(t4, t2) /\ t4.stream = AwaitingUser
    BY <1>3, SetStreamGrows, SetStreamType, StreamTypes
  <2> HIDE DEF t4
  <2>2. Running(t4)
    BY <2>1 DEF Running, AwaitingUser
  <2>3. Grows(t4, thread)
    BY <1>5, <2>1, GrowsTrans
  <2> QED BY <1>7, <2>2, <2>3, FinishBack
<1> QED BY <1>4, <1>6, <1>7

LEMMA LLMFinalGrows ==
  ASSUME IInv, SInv, NEW r \in Runs, LLMFinal(r)
  PROVE  On(r) \/ Back(r)
<1> DEFINE t0 == AddMessage(thread, Assistant)
           t == SetStream(t0, StreamAt(r, "validate"))
           id == Len(turns) + 1
<1>1. runs[r].pc = "llm" /\ thread \in Thread /\ runs[r] \in Run
  BY IInvFacts DEF LLMFinal
<1>2. ~Flagged(runs[r])
  BY <1>1, WhereFlagged DEF Flagged
<1>3. t0 \in Thread /\ Grows(t0, thread)
  BY <1>1, OtherMessages, AddGrows, AddMessageType
<1> HIDE DEF t0
<1>4. t \in Thread /\ Grows(t, t0) /\ Running(t)
  BY <1>3, StreamAtRuns, SetStreamType, StreamTypes DEF PCs
<1>5. /\ Loop(runs[r]).interruptedWhenIdle = FALSE /\ Loop(runs[r]).stopPending = FALSE
      /\ Loop(runs[r]).interrupted = FALSE /\ ~Flagged(Loop(runs[r]))
      /\ \A f : ~Flagged([Loop(runs[r]) EXCEPT !.force = f])
  BY <1>1, <1>2, LoopFlags DEF Flagged, Run
<1>6. \/ id \in Turns /\ \E cut \in BOOLEAN :
           Move(r, AtLoop(IF cut THEN AddMessage(t, InterruptedTool) ELSE t, r), Loop(runs[r]))
      \/ id \in Turns /\ \E kind \in Tools :
           \/ RequestOrCall(r, t, id, kind)
           \/ Move(r, t, [runs[r] EXCEPT !.pc = "validate", !.tool = id])
      \/ Move(r, AtLoop(t, r), [Loop(runs[r]) EXCEPT !.force = FALSE])
      \/ Finish(r, Ended(t), paused)
  BY DEF LLMFinal, t0
<1> HIDE DEF t, id
<1>7. Grows(t, thread)
  BY <1>3, <1>4, GrowsTrans
<1>8. ASSUME NEW t1 \in Thread, Grows(t1, thread), NEW run, ~Flagged(run), Move(r, AtLoop(t1, r), run)
      PROVE  On(r)
  <2> DEFINE t2 == AtLoop(t1, r)
  <2>1. Grows(t2, t1) /\ Running(t2)
    BY <1>8, AtLoopGrows
  <2>2. Move(r, t2, run)
    BY <1>8
  <2> HIDE DEF t2
  <2>3. Grows(t2, thread)
    BY <1>8, <2>1, GrowsTrans
  <2> QED BY <1>8, <2>1, <2>2, <2>3, MoveOn
<1>9. ASSUME NEW cut \in BOOLEAN,
             Move(r, AtLoop(IF cut THEN AddMessage(t, InterruptedTool) ELSE t, r), Loop(runs[r]))
      PROVE  On(r)
  <2> DEFINE t1 == IF cut THEN AddMessage(t, InterruptedTool) ELSE t
             run == Loop(runs[r])
  <2>1. AddMessage(t, InterruptedTool) \in Thread /\ Grows(AddMessage(t, InterruptedTool), t)
    BY <1>4, OtherMessages, AddGrows, AddMessageType
  <2>2. t1 \in Thread /\ Grows(t1, thread)
    BY <1>4, <1>7, <2>1, GrowsTrans
  <2>3. Move(r, AtLoop(t1, r), run) /\ ~Flagged(run)
    BY <1>5, <1>9
  <2> HIDE DEF t1, run
  <2> QED BY <1>8, <2>2, <2>3
<1>10. ASSUME Move(r, t, [runs[r] EXCEPT !.pc = "validate", !.tool = id])
       PROVE  On(r)
  <2> DEFINE run == [runs[r] EXCEPT !.pc = "validate", !.tool = id]
  <2>1. ~Flagged(run)
    BY <1>1, <1>2 DEF Flagged, Run
  <2>2. Move(r, t, run)
    BY <1>10
  <2> HIDE DEF run
  <2> QED BY <1>4, <1>7, <2>1, <2>2, MoveOn
<1>11. ASSUME Move(r, AtLoop(t, r), [Loop(runs[r]) EXCEPT !.force = FALSE])
       PROVE  On(r)
  BY <1>4, <1>5, <1>7, <1>8, <1>11
<1>12. ASSUME Finish(r, Ended(t), paused)
       PROVE  Back(r)
  <2> DEFINE t1 == Ended(t)
  <2>1. Grows(t1, t) /\ Rests(t1.messages) /\ Finish(r, t1, paused)
    BY <1>4, <1>12, EndedGrows
  <2> HIDE DEF t1
  <2>2. Grows(t1, thread)
    BY <1>7, <2>1, GrowsTrans
  <2> QED BY <2>1, <2>2, FinishBack
<1>13. ASSUME id \in Turns, NEW kind, RequestOrCall(r, t, id, kind)
       PROVE  On(r) \/ Back(r)
  BY <1>2, <1>4, <1>7, <1>13, RequestOrCallGrows
<1> QED BY <1>6, <1>9, <1>10, <1>11, <1>12, <1>13

LEMMA ContinueOn ==
  ASSUME IInv, NEW r \in Runs, ~runs[r].interruptedWhenIdle, ~runs[r].stopPending,
         NEW t \in Thread, Grows(t, thread), Continue(r, t)
  PROVE  On(r)
<1> DEFINE f == Loop(runs[r]).force
                  \/ (turns[runs[r].tool] = "create" /\ ~runs[r].first)
           run == [Loop(runs[r]) EXCEPT !.force = f]
           t1 == AtLoop(t, r)
<1>1. runs[r] \in Run
  BY IInvFacts
<1>2. Move(r, t1, run)
  BY DEF Continue
<1> HIDE DEF f
<1>3. ~Flagged(run)
  BY <1>1, LoopFlags DEF Flagged
<1>4. Grows(t1, t) /\ Running(t1)
  BY AtLoopGrows
<1> HIDE DEF run, t1
<1>5. Grows(t1, thread)
  BY <1>4, GrowsTrans
<1> QED BY <1>2, <1>3, <1>4, <1>5, MoveOn

LEMMA ValidatedGrows ==
  ASSUME IInv, SInv, NEW r \in Runs, Validated(r)
  PROVE  On(r) \/ Back(r)
<1> DEFINE id == runs[r].tool
<1>1. runs[r].pc = "validate" /\ thread \in Thread /\ runs[r] \in Run
  BY IInvFacts DEF Validated
<1>2. ~Flagged(runs[r])
  BY <1>1, WhereFlagged DEF Flagged
<1>3. id \in Turns
  BY <1>1, IInvFacts DEF RunOK
<1>4. CASE RequestOrCall(r, thread, id, turns[id])
  BY <1>1, <1>2, <1>3, <1>4, GrowsSelf, RequestOrCallGrows
<1>5. CASE Continue(r, AddMessage(thread, ToolMsg("invalid_params", id)))
  <2> DEFINE m == ToolMsg("invalid_params", id)
             t == AddMessage(thread, m)
  <2>1. m \in Message /\ m.role # "user"
    BY <1>3, OtherMessages DEF ToolTypes
  <2> HIDE DEF m
  <2>2. t \in Thread /\ Grows(t, thread)
    BY <1>1, <2>1, AddGrows, AddMessageType
  <2>3. Continue(r, t)
    BY <1>5 DEF m
  <2> HIDE DEF t
  <2> QED BY <1>2, <2>2, <2>3, ContinueOn DEF Flagged
<1> QED BY <1>4, <1>5 DEF Validated

LEMMA ToolAnswerOn ==
  ASSUME IInv, SInv, NEW r \in Runs, runs[r].pc \in {"toolResult", "mcp"}, ToolAnswer(r)
  PROVE  On(r)
<1>1. thread \in Thread /\ runs[r].tool \in Turns
  BY IInvFacts DEF RunOK
<1>2. ~runs[r].interruptedWhenIdle /\ ~runs[r].stopPending
  BY WhereFlagged
<1>3. PICK type \in {"success", "tool_error"} :
        Continue(r, UpdateLatestTool(thread, ToolMsg(type, runs[r].tool)))
  BY DEF ToolAnswer
<1> DEFINE m == ToolMsg(type, runs[r].tool)
           t == UpdateLatestTool(thread, m)
<1>4. m \in Message /\ m.role = "tool"
  BY <1>1, OtherMessages DEF ToolTypes
<1> HIDE DEF m
<1>5. t \in Thread /\ Grows(t, thread)
  BY <1>1, <1>4, UpdateGrows, UpdateLatestToolType
<1>6. Continue(r, t)
  BY <1>3 DEF m
<1> HIDE DEF t
<1> QED BY <1>2, <1>5, <1>6, ContinueOn

LEMMA ToolResultGrows ==
  ASSUME IInv, SInv, NEW r \in Runs, ToolResult(r)
  PROVE  On(r) \/ Back(r)
<1> DEFINE silent == SetStream(thread, NotRunning(FALSE))
<1>1. runs[r].pc = "toolResult" /\ thread \in Thread /\ runs[r] \in Run
  BY IInvFacts DEF ToolResult
<1>2. CASE ToolAnswer(r)
  BY <1>1, <1>2, ToolAnswerOn
<1>3. CASE Move(r, AtLoop(AddUserCheckpoint(silent), r), Loop(runs[r]))
  <2> DEFINE t1 == AddUserCheckpoint(silent)
             t2 == AtLoop(t1, r)
             run == Loop(runs[r])
  <2>1. silent \in Thread /\ Grows(silent, thread)
    BY <1>1, SetStreamGrows, SetStreamType, StreamTypes
  <2>2. Move(r, t2, run)
    BY <1>3
  <2> HIDE DEF silent
  <2>3. t1 \in Thread /\ Grows(t1, silent)
    BY <2>1, CheckpointGrows, AddUserCheckpointType
  <2> HIDE DEF t1
  <2>4. Grows(t2, t1) /\ Running(t2)
    BY <2>3, AtLoopGrows
  <2> HIDE DEF t2
  <2>5. Grows(t2, thread)
    BY <2>1, <2>3, <2>4, GrowsTrans
  <2>6. ~Flagged(run)
    BY <1>1, WhereFlagged, LoopFlags DEF Flagged
  <2> HIDE DEF run
  <2> QED BY <2>2, <2>4, <2>5, <2>6, MoveOn
<1>4. CASE runs[r].interrupted /\ Finish(r, silent, paused)
  BY <1>4, SilentBack DEF Flagged
<1> QED BY <1>2, <1>3, <1>4 DEF ToolResult

LEMMA ToolFailsToStartGrows ==
  ASSUME IInv, SInv, NEW r \in Runs, ToolFailsToStart(r)
  PROVE  On(r)
<1> DEFINE f == Loop(runs[r]).force
                  \/ (turns[runs[r].tool] = "create" /\ ~runs[r].first)
           m == ToolMsg("tool_error", runs[r].tool)
           t == UpdateLatestTool(thread, m)
           t1 == AtLoop(t, r)
           run == [Loop(runs[r]) EXCEPT !.stopPending = FALSE, !.force = f]
<1>1. /\ runs[r].pc = "callTool" /\ thread \in Thread /\ runs[r] \in Run
      /\ runs[r].tool \in Turns /\ runs \in [Runs -> Run]
  BY IInvFacts DEF RunOK, ToolFailsToStart, IInv, TypeOK
<1>2. thread' = t1 /\ runs' = [runs EXCEPT ![r] = run] /\ UNCHANGED <<call, queue>>
  BY DEF ToolFailsToStart
<1>3. m \in Message /\ m.role = "tool"
  BY <1>1, OtherMessages DEF ToolTypes
<1> HIDE DEF f, m
<1>4. t \in Thread /\ Grows(t, thread)
  BY <1>1, <1>3, UpdateGrows, UpdateLatestToolType
<1> HIDE DEF t
<1>5. Grows(t1, t) /\ Running(t1)
  BY <1>4, AtLoopGrows
<1> HIDE DEF t1
<1>6. Grows(t1, thread)
  BY <1>4, <1>5, GrowsTrans
<1>7. ~runs[r].interruptedWhenIdle
  BY <1>1, WhereFlagged
<1>8. ~Flagged(run)
  BY <1>1, <1>7 DEF Flagged, Loop, Run
<1> HIDE DEF run
<1>9. runs'[r] = run /\ \A s \in Runs : s # r => runs'[s] = runs[s]
  BY <1>1, <1>2
<1> QED BY <1>2, <1>5, <1>6, <1>8, <1>9 DEF On

LEMMA ToolStartedGrows ==
  ASSUME IInv, SInv, NEW r \in Runs, ToolStarted(r)
  PROVE  On(r)
<1>1. /\ runs[r].pc = "callTool" /\ thread \in Thread /\ runs[r] \in Run
      /\ runs \in [Runs -> Run]
  BY IInvFacts DEF ToolStarted, IInv, TypeOK
<1>2. runs' = [runs EXCEPT ![r] = [runs[r] EXCEPT !.pc = "toolResult",
                                     !.interrupted = runs[r].stopPending, !.stopPending = FALSE]]
      /\ UNCHANGED <<call, queue>>
  BY <1>1 DEF ToolStarted
<1>3. /\ \A s \in Runs : s # r => runs'[s] = runs[s]
      /\ runs'[r].interruptedWhenIdle = runs[r].interruptedWhenIdle
      /\ runs'[r].stopPending = FALSE /\ runs'[r].interrupted = runs[r].stopPending
  BY <1>1, <1>2 DEF Run
<1>4. Flagged(runs'[r]) => Flagged(runs[r])
  BY <1>3 DEF Flagged
<1>5. Grows(thread', thread) /\ thread'.messages = thread.messages
  BY <1>1, SetStreamGrows, StreamTypes, GrowsSelf DEF ToolStarted
<1>6. thread' = thread \/ Flagged(runs[r])
  BY DEF ToolStarted, Flagged
<1>7. FlagsRest => /\ Running(thread') \/ Rests(thread'.messages)
                   /\ Flagged(runs'[r]) => Rests(thread'.messages)
  BY <1>4, <1>5, <1>6 DEF FlagsRest
<1> QED BY <1>2, <1>3, <1>5, <1>7 DEF On

\* A step of a run writes no user message but the one it takes from the queue.
LEMMA RunStepGrows ==
  ASSUME IInv, SInv, NEW r \in Runs, RunStep(r) \/ LLMText(r)
  PROVE  On(r) \/ Back(r)
<1>1. CASE McpResult(r)
  BY <1>1, ToolAnswerOn DEF McpResult
<1> QED
  BY <1>1, PreparedGrows, PrepareFailsGrows, SupersededGrows, LLMErrorGrows, CompactedGrows, RetryElapsedGrows,
     LLMFinalGrows, ValidatedGrows, ToolStartedGrows, ToolFailsToStartGrows, ToolResultGrows,
     LLMTextGrows DEF RunStep

-----------------------------------------------------------------------------
\* Nobody works on a thread that shows what a failed run has left

\* No run is alive beside what was left, and no message is on its way.
LeftAlone == Left(thread.stream) => LiveIn(runs) = {} /\ WaitingIn(call) = {}

\* What is left is told from everything a run or the user makes the thread show.
LEMMA NotLeft ==
  ASSUME NEW t
  PROVE  /\ t.stream \in Quiet => ~Left(t.stream)
         /\ \A r \in Runs, pc \in PCs : t.stream = StreamAt(r, pc) => ~Left(t.stream)
         /\ \A t0 : SameStream(t, t0) /\ Left(t.stream) => t.stream = t0.stream /\ Running(t0)
<1>1. \A s \in Quiet : ~Left(s)
  BY StreamFacts
<1>2. \A r \in Runs, pc \in PCs : ~Left(StreamAt(r, pc))
  BY StreamFacts
<1>3. AwaitingUser \in Quiet
  BY DEF Quiet
<1>4. Left(t.stream) => t.stream.isRunning # "no"
  BY DEF Left
<1> QED BY <1>1, <1>2, <1>3, <1>4 DEF SameStream, Running

\* No operation of the user leaves activity, and none but the queueing of a
\* message keeps it.
LEMMA UserLeavesLeft ==
  ASSUME IInv, UserStep, Left(thread'.stream)
  PROVE  /\ thread' = thread /\ runs' = runs /\ Left(thread.stream)
         /\ WaitingIn(call') \subseteq WaitingIn(call)
<1> DEFINE Stays1 == /\ thread' = thread /\ runs' = runs /\ Left(thread.stream)
                     /\ WaitingIn(call') \subseteq WaitingIn(call)
<1>1. thread \in Thread /\ call \in [Users -> Call] /\ queue \in Seq(Users)
  BY DEF IInv, TypeOK
<1>2. ~Running(thread) => ~SameStream(thread', thread)
  BY NotLeft
<1>3. ASSUME NEW u \in Users, Submit(u) PROVE Stays1
  <2>1. thread' = thread /\ runs' = runs
    BY <1>3 DEF Submit
  <2>2. Running(thread)
    BY <2>1 DEF Left, Running
  <2>3. call' = [call EXCEPT ![u].stage = "queued", ![u].viaQueue = TRUE]
    BY <1>3, <2>2 DEF Submit
  <2>4. \A v \in Users : call'[v].stage \in {"select", "content"} =>
          call[v].stage \in {"select", "content"}
    BY <1>1, <2>3 DEF Call
  <2> QED BY <2>1, <2>4 DEF WaitingIn
<1>4. ASSUME NEW u \in Users, Resume(u) PROVE FALSE
  BY <1>1, <1>2, <1>4, EnterContentType DEF Resume
<1>5. ASSUME NEW i \in 1 .. Len(queue), RemoveQueued(i) PROVE Stays1
  <2>1. thread' = thread /\ runs' = runs /\ call' = SetStage(queue[i], "removed")
    BY <1>5 DEF RemoveQueued
  <2>2. queue[i] \in Users
    BY <1>1
  <2>3. \A v \in Users : call'[v].stage \in {"select", "content"} =>
          call[v].stage \in {"select", "content"}
    BY <2>1, <2>2, StageOf
  <2> QED BY <2>1, <2>3 DEF WaitingIn
<1>6. ASSUME NEW r \in Runs, Approve(r) PROVE FALSE
  <2> DEFINE id == Last(thread.messages).id
  <2>1. thread' = BeginTool(AddUserCheckpoint(thread), r, id, turns[id])
    BY <1>6 DEF Approve
  <2>2. id \in Turns
    BY <1>1, <1>6, LastTool DEF Approve, MayApprove, EndsWithRequest, Thread
  <2>3. thread'.stream = StreamAt(r, ToolPC(turns[id]))
    BY <1>1, <2>1, <2>2, AddUserCheckpointType, BeginToolType
  <2> QED BY <2>3, NotLeft, ToolPCs
<1>7. CASE Reject
  BY <1>7, RejectQuiet, NotLeft
<1>8. CASE DismissError
  BY <1>1, <1>8, NotRunningType, NotLeft DEF DismissError
<1>9. CASE TouchThread
  <2>1. thread' = Refresh(thread) /\ runs' = runs /\ call' = call
    BY <1>9 DEF TouchThread
  <2>2. SameStream(thread', thread)
    BY <1>1, <2>1, RefreshType DEF SameStream
  <2>3. Running(thread)
    BY <1>2, <2>2
  <2>4. thread' = thread
    BY <2>1, <2>3 DEF Refresh
  <2> QED BY <2>1, <2>4
<1>10. CASE Restart
  BY <1>10, RestartQuiet, NotLeft
<1>11. ASSUME NEW cut \in BOOLEAN, Stop(cut) PROVE FALSE
  <2> DEFINE t == Halt(thread, cut)
  <2>1. t \in Thread /\ (SameStream(t, thread) \/ t.stream \in Quiet)
    BY HaltType
  <2>2. CASE Unresolved(t.stream)
    <3>1. thread' = t /\ t.stream.interrupt = "tool"
      BY <1>11, <2>2 DEF Stop, Unresolved
    <3> HIDE DEF t
    <3>2. thread.stream = t.stream /\ Left(thread.stream)
      BY <2>1, <3>1, NotLeft
    <3>3. thread.stream \in LeftOver
      <4>1. \A r \in Runs : runs[r].pc \in PCs
        BY DEF IInv, RunOK, Run
      <4> QED BY <3>2, <4>1, StreamFacts DEF IInv, Shows, Still
    <3> QED BY <3>1, <3>2, <3>3, StreamFacts
  <2>3. CASE ~Unresolved(t.stream)
    <3>1. thread' = SetStream(t, NotRunning(FALSE))
      BY <1>11, <2>3 DEF Stop
    <3> QED BY <2>1, <3>1, NotRunningType, NotLeft
  <2> QED BY <2>2, <2>3
<1>12. ASSUME NEW i \in 1 .. Len(thread.messages), Jump(i) PROVE FALSE
  <2>1. i \in Nat /\ thread' = JumpTo(thread, i) /\ ~Running(thread)
    BY <1>1, <1>12 DEF Jump, Thread
  <2> QED BY <1>1, <1>2, <2>1, JumpToType
<1>13. ASSUME NEW i \in 1 .. Len(thread.messages), Revert(i) PROVE FALSE
  BY <1>2, <1>13, RevertShows DEF Revert
<1>14. ASSUME NEW i \in 1 .. Len(thread.messages), NEW u \in Users, NEW cut \in BOOLEAN,
              Edit(u, i, cut)
       PROVE  FALSE
  BY <1>14, EditQuiet, NotLeft
<1> QED
  BY <1>3, <1>4, <1>5, <1>6, <1>7, <1>8, <1>9, <1>10, <1>11, <1>12, <1>13, <1>14 DEF UserStep

\* A message on its way leaves none either.
LEMMA CallLeavesNone ==
  ASSUME IInv, LeftAlone, NEW u \in Users, CallStep(u)
  PROVE  ~Left(thread'.stream)
<1>1. Waiting(u)
  BY DEF CallStep, SelectDone, ContentFails, ContentDone, Waiting
<1>2. ~Left(thread.stream)
  BY <1>1 DEF LeftAlone, WaitingIn, Waiting
<1>3. CASE SelectDone(u)
  BY <1>2, <1>3, SelectDoneShows, NotLeft
<1>4. CASE ContentFails(u)
  BY <1>2, <1>4 DEF ContentFails
<1>5. ASSUME NEW r \in Runs, ContentDone(u, r) PROVE ~Left(thread'.stream)
  <2>1. "prep" \in PCs
    BY DEF PCs
  <2>2. thread' \in Thread
    BY <1>5, ContentDoneGood DEF IInv, TypeOK
  <2>3. thread'.stream = StreamAt(r, "prep")
    BY <1>5, <2>2, ShownBySetStream DEF ContentDone, AtLoop
  <2> QED BY <2>1, <2>3, NotLeft
<1> QED BY <1>3, <1>4, <1>5 DEF CallStep

\* When a run leaves its activity nobody else is at work.
LEMMA RunLeavesAlone ==
  ASSUME IInv, IInv', SInv, LeftAlone, NEW r \in Runs, RunStep(r) \/ LLMText(r),
         Left(thread'.stream)
  PROVE  LiveIn(runs') = {} /\ WaitingIn(call') = {}
<1>1. Live(r)
  BY DEF RunStep, LLMText, Prepared, PrepareFails, Superseded, LLMError, Compacted, RetryElapsed,
         LLMFinal, Validated, ToolStarted, ToolFailsToStart, ToolResult, McpResult, Live
<1>2. LiveIn(runs) = {r} /\ WaitingIn(call) = {} /\ ~Left(thread.stream)
  BY <1>1, SoleRun DEF LeftAlone
<1>3. thread \in Thread /\ thread' \in Thread /\ runs \in [Runs -> Run]
  BY DEF IInv, TypeOK
<1>4. ASSUME NEW x, NEW pc \in PCs, thread' = SetStream(x, StreamAt(r, pc)) PROVE FALSE
  <2>1. thread'.stream = StreamAt(r, pc)
    BY <1>3, <1>4, ShownBySetStream
  <2> QED BY <2>1, NotLeft
<1>5. RunStep(r)
  BY <1>4 DEF LLMText, PCs
<1>6. ~KeepsShowing(r)
  BY <1>2, <1>3, <1>4, NotRunningType, NotLeft DEF KeepsShowing
<1>7. (\E t, p : Finish(r, t, p)) \/ PrepareFails(r)
  BY <1>5, <1>6, GoesOnOrReturns
<1>8. runs' = [runs EXCEPT ![r] = Off]
  BY <1>7 DEF Finish, PrepareFails
<1>9. LiveIn(runs') = {}
  BY <1>2, <1>3, <1>8 DEF LiveIn, Off
<1>10. CASE On(r)
  BY <1>2, <1>9, <1>10 DEF On
<1>11. CASE Back(r)
  <2>1. PICK t, p : Finish(r, t, p) /\ Grows(t, thread)
    BY <1>11 DEF Back
  <2>2. ~MayDrain(t, p)
    <3> SUFFICES ASSUME MayDrain(t, p) PROVE FALSE
      OBVIOUS
    <3>1. t \in Thread
      BY <2>1 DEF Grows, Tells
    <3>2. thread' = EnterContent(t) /\ ~Running(t)
      BY <2>1 DEF Finish, MayDrain
    <3> QED BY <3>1, <3>2, EnterContentType, NotLeft
  <2> QED BY <1>2, <1>9, <2>1, <2>2 DEF Finish
<1> QED BY <1>5, <1>10, <1>11, RunStepGrows

\* The invariant, with nobody at work beside what was left.
THEOREM LeftAloneAlways ==
  ASSUME ~Overlap
  PROVE  Spec => [](IInv /\ SInv /\ LeftAlone)
<1>1. Init => LeftAlone
  BY DEF Init, LeftAlone, Left, NotRunning
<1>2. IInv /\ IInv' /\ SInv /\ LeftAlone /\ [Next]_vars => LeftAlone'
  <2>1. ASSUME IInv, IInv', SInv, LeftAlone, Next, Left(thread'.stream)
        PROVE  LiveIn(runs') = {} /\ WaitingIn(call') = {}
    <3>1. ASSUME NEW r \in Runs, RunStep(r) \/ LLMText(r)
          PROVE  LiveIn(runs') = {} /\ WaitingIn(call') = {}
      BY <2>1, <3>1, RunLeavesAlone
    <3>2. ASSUME NEW u \in Users, CallStep(u) PROVE FALSE
      BY <2>1, <3>2, CallLeavesNone
    <3>3. CASE UserStep
      <4>1. /\ runs' = runs /\ Left(thread.stream)
            /\ WaitingIn(call') \subseteq WaitingIn(call)
        BY <2>1, <3>3, UserLeavesLeft
      <4> QED BY <2>1, <4>1 DEF LeftAlone
    <3> QED BY <2>1, <3>1, <3>2, <3>3 DEF Next
  <2>2. ASSUME LeftAlone, UNCHANGED vars PROVE LeftAlone'
    BY <2>2 DEF vars, LeftAlone
  <2> QED BY <2>1, <2>2 DEF LeftAlone
<1> QED BY <1>1, <1>2, SettledAlways, PTL DEF Spec

-----------------------------------------------------------------------------
\* What a submission read stays the end of what was said

\* What new has and old has not are checkpoints.
Added(new, old) ==
  \A i \in 1 .. Len(new) :
    \/ new[i].role = "checkpoint"
    \/ i \in 1 .. Len(old) /\ new[i].role = old[i].role

LEMMA AddedTrans ==
  ASSUME NEW a, NEW b, NEW c, Added(a, b), Added(b, c)
  PROVE  Added(a, c)
BY DEF Added

LEMMA AddedSelf ==
  ASSUME NEW a PROVE Added(a, a)
BY DEF Added

LEMMA RefreshAdds ==
  ASSUME NEW t \in Thread
  PROVE  Added(Refresh(t).messages, t.messages)
<1>1. t.messages \in Seq(Message)
  BY DEF Thread
<1>2. CASE Refresh(t).messages = t.messages
  BY <1>2, AddedSelf
<1>3. CASE Refresh(t).messages # t.messages
  <2> DEFINE ms == [t.messages EXCEPT ![Len(t.messages)].type = "rejected"]
  <2>1. Refresh(t) = Store(t, ms) /\ EndsWithTool(t.messages)
    BY <1>3 DEF Refresh, SetStream, Thread
  <2>2. Len(ms) = Len(t.messages) /\ \A i \in 1 .. Len(ms) : ms[i].role = t.messages[i].role
    BY <1>1 DEF Message
  <2>3. Refresh(t).messages = ms
    BY <2>1 DEF Store, Thread
  <2> HIDE DEF ms
  <2> QED BY <2>2, <2>3 DEF Added
<1> QED BY <1>2, <1>3

LEMMA CheckpointAdds ==
  ASSUME NEW t \in Thread
  PROVE  Added(AddUserCheckpoint(t).messages, t.messages)
<1> DEFINE m == Checkpoint("user_edit")
           ms == Append(t.messages, m)
<1>1. t.messages \in Seq(Message) /\ m \in Message /\ m.role = "checkpoint"
  BY MessageTypes DEF Thread, Checkpoint
<1> HIDE DEF m
<1>2. ms \in Seq(Message) /\ Added(ms, t.messages)
  BY <1>1 DEF Added
<1> HIDE DEF ms
<1>3. Store(t, ms) \in Thread /\ Store(t, ms).messages = ms
  BY <1>2, StoreType
<1>4. Added(Refresh(Store(t, ms)).messages, ms)
  BY <1>3, RefreshAdds
<1>5. AddUserCheckpoint(t) = Refresh(Store(t, ms))
  BY DEF AddUserCheckpoint, AddMessage, ms, m
<1> QED BY <1>2, <1>4, <1>5, AddedTrans

LEMMA StandOnAdds ==
  ASSUME NEW t \in Thread
  PROVE  Added(StandOnCheckpoint(t).messages, t.messages)
<1> DEFINE t1 == IF t.messages # <<>> /\ Last(t.messages).role = "checkpoint"
                 THEN t ELSE AddUserCheckpoint(t)
           k == Len(t.messages)
           t2 == [t1 EXCEPT !.currCheckpointIdx = k]
<1>1. CASE t.currCheckpointIdx # 0
  BY <1>1, AddedSelf DEF StandOnCheckpoint
<1>2. CASE t.currCheckpointIdx = 0
  <2>1. StandOnCheckpoint(t) = Refresh(t2)
    BY <1>2 DEF StandOnCheckpoint
  <2>2. t1 \in Thread /\ Added(t1.messages, t.messages)
    BY AddUserCheckpointType, CheckpointAdds, AddedSelf
  <2>3. k \in Nat
    BY DEF Thread
  <2> HIDE DEF t1, k
  <2>4. t2 \in Thread /\ t2.messages = t1.messages
    BY <2>2, <2>3 DEF Thread
  <2>5. Added(Refresh(t2).messages, t2.messages)
    BY <2>4, RefreshAdds
  <2> QED BY <2>1, <2>2, <2>4, <2>5, AddedTrans
<1> QED BY <1>1, <1>2

LEMMA JumpToAdds ==
  ASSUME NEW t0 \in Thread, NEW i
  PROVE  Added(JumpTo(t0, i).messages, t0.messages)
<1> DEFINE t == StandOnCheckpoint(t0)
           from == t.currCheckpointIdx
           before == CheckpointsUpTo(t.messages, i)
           k == Max(before)
           stored == Refresh(Store(t, t.messages))
           t1 == IF from \in CheckpointsUpTo(t.messages, from) THEN stored ELSE t
           t2 == [t1 EXCEPT !.currCheckpointIdx = k]
<1>1. t \in Thread /\ Added(t.messages, t0.messages)
  BY StandOnCheckpointType, StandOnAdds
<1>2. JumpTo(t0, i) = IF before = {} \/ from = k THEN t ELSE Refresh(t2)
  BY DEF JumpTo
<1> HIDE DEF t
<1>3. t.messages \in Seq(Message) /\ Len(t.messages) \in Nat
  BY <1>1 DEF Thread
<1>4. CASE before = {} \/ from = k
  <2>1. JumpTo(t0, i) = t
    BY <1>2, <1>4
  <2> QED BY <1>1, <2>1
<1>5. CASE ~(before = {} \/ from = k)
  <2>1. k \in Nat
    <3>1. before \subseteq 1 .. Len(t.messages)
      BY DEF CheckpointsUpTo
    <3> HIDE DEF before
    <3>2. k \in before
      BY <1>3, <1>5, <3>1, MaxPosition
    <3> HIDE DEF k
    <3>3. k \in 1 .. Len(t.messages)
      BY <3>1, <3>2
    <3> QED BY <1>3, <3>3
  <2> HIDE DEF k, before
  <2>2. stored \in Thread /\ Added(stored.messages, t.messages)
    <3> DEFINE u == Store(t, t.messages)
    <3>1. u \in Thread /\ u.messages = t.messages
      BY <1>1, <1>3, StoreType
    <3> HIDE DEF u
    <3>2. Refresh(u) \in Thread /\ Added(Refresh(u).messages, u.messages)
      BY <3>1, RefreshType, RefreshAdds
    <3> QED BY <3>1, <3>2 DEF u
  <2> HIDE DEF stored
  <2>3. t1 \in Thread /\ Added(t1.messages, t.messages)
    BY <1>1, <2>2, AddedSelf
  <2> HIDE DEF t1
  <2>4. t2 \in Thread /\ t2.messages = t1.messages
    BY <2>1, <2>3 DEF Thread
  <2> HIDE DEF t2
  <2>5. Added(Refresh(t2).messages, t2.messages)
    BY <2>4, RefreshAdds
  <2>6. JumpTo(t0, i) = Refresh(t2)
    BY <1>2, <1>5
  <2>7. Added(Refresh(t2).messages, t.messages)
    BY <2>3, <2>4, <2>5, AddedTrans
  <2> QED BY <1>1, <2>6, <2>7, AddedTrans
<1> QED BY <1>4, <1>5

\* No submission begins, and no history grows but by checkpoints.
LEMMA AddedComplete ==
  ASSUME IInv, SnapshotComplete, Added(thread'.messages, thread.messages),
         \A u \in Users : call'[u].stage = "select" =>
           call[u].stage = "select" /\ call'[u].base = call[u].base
  PROVE  SnapshotComplete'
<1> SUFFICES ASSUME NEW u \in Users, call'[u].stage = "select", call'[u].base # NoBase,
                    NEW i \in 1 .. Len(thread'.messages), i > Len(call'[u].base.messages),
                    thread'.messages[i].role # "checkpoint"
             PROVE  FALSE
  BY DEF SnapshotComplete
<1>1. call[u].stage = "select" /\ call'[u].base = call[u].base
  OBVIOUS
<1>2. i \in 1 .. Len(thread.messages) /\ thread.messages[i].role # "checkpoint"
  BY DEF Added
<1> QED BY <1>1, <1>2 DEF SnapshotComplete

\* No submission waits for the file edits afterwards.
LEMMA NoneWaits ==
  ASSUME \A u \in Users : call'[u].stage # "select"
  PROVE  SnapshotComplete'
BY DEF SnapshotComplete

\* A stage that is set to anything else leaves the other submissions alone.
LEMMA StageSelects ==
  ASSUME IInv, NEW u, NEW stage, stage # "select", call' = SetStage(u, stage)
  PROVE  \A v \in Users : call'[v].stage = "select" =>
           call[v].stage = "select" /\ call'[v].base = call[v].base
<1>1. call \in [Users -> Call] /\ \A v \in Users : call[v] \in Call
  BY DEF IInv, TypeOK
<1> SUFFICES ASSUME NEW v \in Users, call'[v].stage = "select"
             PROVE  call[v].stage = "select" /\ call'[v].base = call[v].base
  OBVIOUS
<1>2. CASE v = u
  BY <1>1, <1>2 DEF SetStage, Call
<1>3. CASE v # u
  BY <1>1, <1>3 DEF SetStage
<1> QED BY <1>2, <1>3

LEMMA RunStepComplete ==
  ASSUME IInv, SInv, NEW r \in Runs, RunStep(r) \/ LLMText(r)
  PROVE  SnapshotComplete'
<1>1. Live(r)
  BY DEF RunStep, LLMText, Prepared, PrepareFails, Superseded, LLMError, Compacted, RetryElapsed,
         LLMFinal, Validated, ToolStarted, ToolFailsToStart, ToolResult, McpResult, Live
<1>2. WaitingIn(call) = {}
  BY <1>1, SoleRun
<1>3. \A v \in Users : call[v].stage # "select"
  BY <1>2 DEF WaitingIn
<1>4. ASSUME call' = call PROVE SnapshotComplete'
  BY <1>3, <1>4, NoneWaits
<1>5. ASSUME NEW t, NEW p, Finish(r, t, p) PROVE SnapshotComplete'
  <2>1. call' = call \/ call' = SetStage(Head(queue), "content")
    BY <1>5 DEF Finish
  <2>2. CASE call' = SetStage(Head(queue), "content")
    <3>1. \A v \in Users : call'[v].stage = "select" => call[v].stage = "select"
      BY <2>2, StageSelects
    <3> QED BY <1>3, <3>1, NoneWaits
  <2> QED BY <1>4, <2>1, <2>2
<1>6. CASE RunStep(r)
  BY <1>4, <1>5, <1>6, GoesOnOrReturns DEF PrepareFails
<1>7. CASE LLMText(r)
  BY <1>4, <1>7 DEF LLMText
<1> QED BY <1>6, <1>7

LEMMA CallStepComplete ==
  ASSUME IInv, SInv, NEW u \in Users, CallStep(u)
  PROVE  SnapshotComplete'
<1>1. Waiting(u)
  BY DEF CallStep, SelectDone, ContentFails, ContentDone, Waiting
<1>2. WaitingIn(call) = {u}
  BY <1>1, WaitingFacts
<1>3. \A v \in Users : v # u => call[v].stage # "select"
  BY <1>2 DEF WaitingIn
<1>4. call \in [Users -> Call] /\ \A v \in Users : call[v] \in Call
  BY DEF IInv, TypeOK
<1>5. /\ call'[u].stage # "select"
      /\ \A v \in Users : v # u => call'[v] = call[v]
  <2>1. CASE SelectDone(u)
    BY <1>4, <2>1 DEF SelectDone, Call
  <2>2. CASE ContentFails(u)
    BY <1>4, <2>2 DEF ContentFails, SetStage, Call
  <2>3. ASSUME NEW r \in Runs, ContentDone(u, r)
        PROVE  call'[u].stage # "select" /\ \A v \in Users : v # u => call'[v] = call[v]
    BY <1>4, <2>3 DEF ContentDone, SetStage, Call
  <2> QED BY <2>1, <2>2, <2>3 DEF CallStep
<1>6. \A v \in Users : call'[v].stage # "select"
  BY <1>3, <1>5
<1> QED BY <1>6, NoneWaits

\* While a message is on its way the thread shows no activity.
LEMMA WaitingShows ==
  ASSUME IInv, SInv, LeftAlone, NEW u \in Users, Waiting(u)
  PROVE  ~Running(thread)
<1>1. /\ LiveIn(runs) = {} /\ WaitingIn(call) = {u}
      /\ thread.stream.isRunning # "awaiting_user"
  BY WaitingFacts
<1>2. thread.stream \in Still /\ ~Left(thread.stream)
  BY <1>1, NobodyWorks DEF LeftAlone
<1> QED BY <1>1, <1>2, StreamFacts DEF Still, Running

LEMMA SubmitComplete ==
  ASSUME IInv, SInv, ~Overlap, SnapshotComplete, NEW u \in Users, Submit(u)
  PROVE  SnapshotComplete'
<1>1. call \in [Users -> Call] /\ \A v \in Users : call[v] \in Call
  BY DEF IInv, TypeOK
<1>2. CASE Running(thread)
  <2>1. thread' = thread /\ call' = [call EXCEPT ![u].stage = "queued", ![u].viaQueue = TRUE]
    BY <1>2 DEF Submit
  <2>2. \A v \in Users : call'[v].stage = "select" =>
          call[v].stage = "select" /\ call'[v].base = call[v].base
    <3> SUFFICES ASSUME NEW v \in Users, call'[v].stage = "select"
                 PROVE  call[v].stage = "select" /\ call'[v].base = call[v].base
      OBVIOUS
    <3>1. CASE v = u
      BY <1>1, <2>1, <3>1 DEF Call
    <3>2. CASE v # u
      BY <1>1, <2>1, <3>2
    <3> QED BY <3>1, <3>2
  <2> QED BY <2>1, <2>2, AddedSelf, AddedComplete
<1>3. CASE ~Running(thread)
  <2> DEFINE b == IF thread.currCheckpointIdx = 0 THEN NoBase
                  ELSE [messages |-> thread.messages,
                        currCheckpointIdx |-> thread.currCheckpointIdx]
  <2>1. /\ MayStart /\ thread' = thread
        /\ call' = [call EXCEPT ![u].stage = "select", ![u].base = b]
    BY <1>3 DEF Submit
  <2>2. \A v \in Users : call[v].stage # "select"
    BY <2>1 DEF MayStart, Waiting
  <2>3. b # NoBase => b.messages = thread.messages
    OBVIOUS
  <2> HIDE DEF b
  <2>4. /\ call'[u].base = b
        /\ \A v \in Users : call'[v].stage = "select" => v = u
    BY <1>1, <2>1, <2>2 DEF Call
  <2>5. thread.messages \in Seq(Message)
    BY DEF IInv, TypeOK, Thread
  <2> SUFFICES ASSUME NEW v \in Users, call'[v].stage = "select", call'[v].base # NoBase,
                      NEW i \in 1 .. Len(thread.messages), i > Len(call'[v].base.messages)
               PROVE  FALSE
    BY <2>1 DEF SnapshotComplete
  <2> QED BY <2>3, <2>4, <2>5
<1> QED BY <1>2, <1>3

LEMMA RejectComplete ==
  ASSUME IInv, SnapshotComplete, Reject
  PROVE  SnapshotComplete'
<1> DEFINE m == ToolMsg("rejected", Last(thread.messages).id)
           ms == [thread.messages EXCEPT ![Len(thread.messages)] = m]
           t == Refresh(Store(thread, ms))
<1>1. /\ EndsWithTool(thread.messages) /\ call' = call
      /\ thread' = SetStream(UpdateLatestTool(thread, m), NotRunning(FALSE))
  BY DEF Reject, RejectLatest
<1>2. UpdateLatestTool(thread, m) = t
  BY <1>1 DEF UpdateLatestTool
<1>3. thread \in Thread /\ thread.messages \in Seq(Message)
  BY DEF IInv, TypeOK, Thread
<1>4. /\ Len(thread.messages) \in 1 .. Len(thread.messages)
      /\ thread.messages[Len(thread.messages)].role = "tool" /\ Last(thread.messages).id \in Turns
  BY <1>1, <1>3, Ends, LastTool
<1>5. m \in Message /\ m.role = "tool"
  BY <1>4, MessageTypes DEF ToolMsg, ToolTypes
<1> HIDE DEF m
<1>6. ms \in Seq(Message) /\ Added(ms, thread.messages)
  BY <1>3, <1>4, <1>5 DEF Added
<1> HIDE DEF ms
<1>7. Store(thread, ms) \in Thread /\ Store(thread, ms).messages = ms
  BY <1>3, <1>6, StoreType
<1>8. t \in Thread /\ Added(t.messages, ms)
  BY <1>7, RefreshType, RefreshAdds
<1> HIDE DEF t
<1>9. thread'.messages = t.messages
  BY <1>1, <1>2, <1>8 DEF SetStream, Thread
<1>10. Added(thread'.messages, thread.messages)
  BY <1>6, <1>8, <1>9, AddedTrans
<1> QED BY <1>1, <1>10, AddedComplete

LEMMA RevertComplete ==
  ASSUME IInv, SnapshotComplete, NEW i \in 1 .. Len(thread.messages), Revert(i)
  PROVE  SnapshotComplete'
<1> DEFINE t == JumpTo(thread, i)
           ms == UpToCheckpoint(t)
<1>1. thread' = Refresh(Store(t, ms)) /\ call' = call
  BY DEF Revert
<1>2. thread \in Thread /\ t \in Thread /\ Added(t.messages, thread.messages)
  BY JumpToType, JumpToAdds DEF IInv, TypeOK
<1> HIDE DEF t
<1>3. t.messages \in Seq(Message) /\ t.currCheckpointIdx \in Nat
  BY <1>2 DEF Thread
<1>4. ms \in Seq(Message) /\ Added(ms, t.messages)
  BY <1>3 DEF UpToCheckpoint, Slice, Added
<1> HIDE DEF ms
<1>5. Store(t, ms) \in Thread /\ Store(t, ms).messages = ms
  BY <1>2, <1>4, StoreType
<1>6. Added(thread'.messages, ms)
  BY <1>1, <1>5, RefreshAdds
<1>7. Added(thread'.messages, thread.messages)
  BY <1>2, <1>4, <1>6, AddedTrans
<1> QED BY <1>1, <1>7, AddedComplete

LEMMA NextComplete ==
  ASSUME IInv, SInv, LeftAlone, ~Overlap, SnapshotComplete, Next
  PROVE  SnapshotComplete'
<1>1. thread \in Thread /\ call \in [Users -> Call] /\ \A v \in Users : call[v] \in Call
  BY DEF IInv, TypeOK
<1>2. ASSUME NEW r \in Runs, RunStep(r) \/ LLMText(r) PROVE SnapshotComplete'
  BY <1>2, RunStepComplete
<1>3. ASSUME NEW u \in Users, CallStep(u) PROVE SnapshotComplete'
  BY <1>3, CallStepComplete
<1>4. CASE UserStep
  <2>1. ASSUME NEW u \in Users, Submit(u) PROVE SnapshotComplete'
    BY <2>1, SubmitComplete
  <2>2. ASSUME NEW u \in Users, Resume(u) PROVE SnapshotComplete'
    <3>1. MayStart /\ call' = SetStage(u, "content")
      BY <2>2 DEF Resume
    <3>2. \A v \in Users : call[v].stage # "select"
      BY <3>1 DEF MayStart, Waiting
    <3>3. \A v \in Users : call'[v].stage = "select" => call[v].stage = "select"
      BY <3>1, StageSelects
    <3> QED BY <3>2, <3>3, NoneWaits
  <2>3. ASSUME NEW i \in 1 .. Len(queue), RemoveQueued(i) PROVE SnapshotComplete'
    <3>1. call' = SetStage(queue[i], "removed") /\ thread' = thread
      BY <2>3 DEF RemoveQueued
    <3>2. \A v \in Users : call'[v].stage = "select" =>
            call[v].stage = "select" /\ call'[v].base = call[v].base
      BY <3>1, StageSelects
    <3> QED BY <3>1, <3>2, AddedSelf, AddedComplete
  <2>4. ASSUME NEW r \in Runs, Approve(r) PROVE SnapshotComplete'
    <3>1. EndsWithRequest(thread.messages) /\ call' = call
      BY <2>4 DEF Approve, MayApprove
    <3>2. EndsWith(thread.messages, "tool_request")
      BY <1>1, <3>1, Ends DEF Thread
    <3>3. WaitingIn(call) = {}
      BY <3>2 DEF SInv, Settled, AwaitsOK
    <3> QED BY <3>1, <3>3, NoneWaits DEF WaitingIn
  <2>5. CASE Reject
    BY <2>5, RejectComplete
  <2>6. CASE DismissError
    <3>1. thread'.messages = thread.messages /\ call' = call
      BY <1>1, <2>6 DEF DismissError, SetStream, Thread
    <3> QED BY <3>1, AddedSelf, AddedComplete
  <2>7. CASE TouchThread
    <3>1. thread' = Refresh(thread) /\ call' = call
      BY <2>7 DEF TouchThread
    <3>2. Added(thread'.messages, thread.messages)
      BY <1>1, <3>1, RefreshAdds
    <3> QED BY <3>1, <3>2, AddedComplete
  <2>8. CASE Restart
    <3>1. call' = [u \in Users |->
            IF Waiting(u) \/ call[u].stage = "queued"
            THEN [call[u] EXCEPT !.stage = "lost", !.base = NoBase] ELSE call[u]]
      BY <2>8 DEF Restart
    <3>2. \A u \in Users : call'[u].stage # "select"
      BY <1>1, <3>1 DEF Waiting, Call
    <3> QED BY <3>2, NoneWaits
  <2>9. ASSUME NEW cut \in BOOLEAN, Stop(cut) PROVE SnapshotComplete'
    <3>1. Running(thread) /\ call' = call
      BY <2>9 DEF Stop
    <3>2. \A v \in Users : ~Waiting(v)
      BY <3>1, WaitingShows
    <3> QED BY <3>1, <3>2, NoneWaits DEF Waiting
  <2>10. ASSUME NEW i \in 1 .. Len(thread.messages), Jump(i) PROVE SnapshotComplete'
    <3>1. thread' = JumpTo(thread, i) /\ call' = call
      BY <2>10 DEF Jump
    <3>2. Added(thread'.messages, thread.messages)
      BY <1>1, <3>1, JumpToAdds
    <3> QED BY <3>1, <3>2, AddedComplete
  <2>11. ASSUME NEW i \in 1 .. Len(thread.messages), Revert(i) PROVE SnapshotComplete'
    BY <2>11, RevertComplete
  <2>12. ASSUME NEW i \in 1 .. Len(thread.messages), NEW u \in Users, NEW cut \in BOOLEAN,
                Edit(u, i, cut)
         PROVE  SnapshotComplete'
    <3>1. call' = SetStage(u, "content") /\ \A v \in Users : ~Waiting(v)
      BY <2>12 DEF Edit
    <3>2. \A v \in Users : call'[v].stage = "select" => call[v].stage = "select"
      BY <3>1, StageSelects
    <3> QED BY <3>1, <3>2, NoneWaits DEF Waiting
  <2> QED BY <1>4, <2>1, <2>2, <2>3, <2>4, <2>5, <2>6, <2>7, <2>8, <2>9, <2>10, <2>11, <2>12
          DEF UserStep
<1> QED BY <1>2, <1>3, <1>4 DEF Next

\* What a submission cuts back to the user's checkpoint after its await holds
\* nothing said after the submission read the history.
THEOREM SnapshotCompleteAlways ==
  ASSUME ~Overlap
  PROVE  Spec => []SnapshotComplete
<1>1. Init => SnapshotComplete
  BY DEF Init, SnapshotComplete
<1>2. IInv /\ SInv /\ LeftAlone /\ SnapshotComplete /\ [Next]_vars => SnapshotComplete'
  <2>1. ASSUME IInv, SInv, LeftAlone, SnapshotComplete, Next PROVE SnapshotComplete'
    BY <2>1, NextComplete
  <2>2. ASSUME SnapshotComplete, UNCHANGED vars PROVE SnapshotComplete'
    BY <2>2 DEF vars, SnapshotComplete
  <2> QED BY <2>1, <2>2
<1> QED BY <1>1, <1>2, LeftAloneAlways, PTL DEF Spec

-----------------------------------------------------------------------------
\* What the user's operations leave

\* Rejecting, and stopping, write no user message and keep the checkpoints.
LEMMA RejectLatestGrows ==
  ASSUME NEW t \in Thread
  PROVE  Grows(RejectLatest(t), t)
<1>1. CASE EndsWithTool(t.messages)
  <2> DEFINE m == ToolMsg("rejected", Last(t.messages).id)
             t1 == UpdateLatestTool(t, m)
  <2>1. m \in Message /\ m.role = "tool"
    BY <1>1, LastTool, OtherMessages DEF Thread, ToolTypes
  <2> HIDE DEF m
  <2>2. t1 \in Thread /\ Grows(t1, t)
    BY <2>1, UpdateGrows, UpdateLatestToolType
  <2> HIDE DEF t1
  <2>3. Grows(SetStream(t1, NotRunning(FALSE)), t1)
    BY <2>2, SetStreamGrows, StreamTypes
  <2>4. RejectLatest(t) = SetStream(t1, NotRunning(FALSE))
    BY <1>1 DEF RejectLatest, t1, m
  <2> QED BY <2>2, <2>3, <2>4, GrowsTrans
<1>2. CASE ~EndsWithTool(t.messages)
  BY <1>2, GrowsSelf DEF RejectLatest
<1> QED BY <1>1, <1>2

LEMMA HaltGrows ==
  ASSUME IInv, NEW cut \in BOOLEAN
  PROVE  LET t == Halt(thread, cut) IN
         t \in Thread /\ Grows(t, thread) /\ Rests(t.messages) /\ t.messages # <<>>
<1> DEFINE t1 == AddMessage(thread, Assistant)
           said == IF cut THEN AddMessage(t1, InterruptedTool) ELSE t1
           tool == UpdateLatestTool(thread,
                     ToolMsg("rejected", runs[thread.stream.owner].tool))
           h == CASE thread.stream.isRunning = "LLM" -> said
                  [] thread.stream.isRunning = "tool" -> tool
                  [] thread.stream.isRunning = "awaiting_user" -> RejectLatest(thread)
                  [] OTHER -> thread
<1>1. thread \in Thread /\ Shows(thread.stream, runs)
  BY DEF IInv, TypeOK
<1>2. h \in Thread /\ Grows(h, thread)
  <2>1. CASE thread.stream.isRunning = "LLM"
    <3>1. h = said
      BY <2>1
    <3> QED BY <1>1, <3>1, SaidGrows
  <2>2. CASE thread.stream.isRunning = "tool"
    <3>1. PICK r \in Runs : runs[r].pc # "off" /\ thread.stream = StreamAt(r, runs[r].pc)
      BY <1>1, <2>2, StreamFacts DEF Shows, Still
    <3>2. runs[r].pc \in PCs
      BY DEF IInv, RunOK, Run
    <3>3. thread.stream.owner = r /\ runs[r].pc \in {"callTool", "toolResult", "mcp"}
      BY <2>2, <3>1, <3>2, StreamFacts
    <3>4. runs[thread.stream.owner].tool \in Turns
      BY <3>3 DEF IInv, RunOK
    <3> DEFINE m == ToolMsg("rejected", runs[thread.stream.owner].tool)
    <3>5. m \in Message /\ m.role = "tool"
      BY <3>4, OtherMessages DEF ToolTypes
    <3>6. h = UpdateLatestTool(thread, m)
      BY <2>2
    <3> HIDE DEF m, h
    <3> QED BY <1>1, <3>5, <3>6, UpdateLatestToolType, UpdateGrows
  <2>3. CASE thread.stream.isRunning = "awaiting_user"
    <3>1. h = RejectLatest(thread)
      BY <2>3
    <3> QED BY <1>1, <3>1, RejectLatestType, RejectLatestGrows
  <2>4. CASE thread.stream.isRunning \notin {"LLM", "tool", "awaiting_user"}
    <3>1. h = thread
      BY <2>4
    <3> QED BY <1>1, <3>1, GrowsSelf
  <2> QED BY <2>1, <2>2, <2>3, <2>4
<1>3. Halt(thread, cut) = AddUserCheckpoint(h)
  BY DEF Halt
<1> HIDE DEF h
<1>4. Grows(AddUserCheckpoint(h), h)
  BY <1>2, CheckpointGrows
<1>5. Grows(AddUserCheckpoint(h), thread)
  BY <1>2, <1>4, GrowsTrans
<1> QED BY <1>2, <1>3, <1>5, CheckpointRests, AddUserCheckpointType

\* The user stands somewhere else.
LEMMA StandTells ==
  ASSUME NEW t \in Thread, NEW i \in Nat
  PROVE  LET t1 == Refresh([t EXCEPT !.currCheckpointIdx = i])
         IN t1 \in Thread /\ Tells(t1, t)
<1> DEFINE t0 == [t EXCEPT !.currCheckpointIdx = i]
<1>1. t0 \in Thread /\ t0.messages = t.messages /\ t0.disk = t.disk
  BY DEF Thread
<1> HIDE DEF t0
<1>2. Tells(t0, t)
  BY <1>1, InheritsSelf DEF Tells
<1>3. Tells(Refresh(t0), t0) /\ Refresh(t0) \in Thread
  BY <1>1, RefreshGrows, RefreshType DEF Grows
<1> QED BY <1>2, <1>3, TellsTrans DEF t0

\* A jump writes no user message.
LEMMA JumpToTells ==
  ASSUME NEW t0 \in Thread, NEW i
  PROVE  JumpTo(t0, i) \in Thread /\ Tells(JumpTo(t0, i), t0)
<1> DEFINE t == StandOnCheckpoint(t0)
           from == t.currCheckpointIdx
           before == CheckpointsUpTo(t.messages, i)
           k == Max(before)
           stored == Refresh(Store(t, t.messages))
           t1 == IF from \in CheckpointsUpTo(t.messages, from) THEN stored ELSE t
           t2 == Refresh([t1 EXCEPT !.currCheckpointIdx = k])
<1>1. t \in Thread /\ Tells(t, t0)
  <2> DEFINE s == IF t0.messages # <<>> /\ Last(t0.messages).role = "checkpoint"
                  THEN t0 ELSE AddUserCheckpoint(t0)
             n == Len(t0.messages)
  <2>1. CASE t0.currCheckpointIdx # 0
    BY <2>1, TellsSelf DEF StandOnCheckpoint
  <2>2. CASE t0.currCheckpointIdx = 0
    <3>1. t = Refresh([s EXCEPT !.currCheckpointIdx = n])
      BY <2>2 DEF StandOnCheckpoint
    <3>2. s \in Thread /\ Tells(s, t0)
      BY CheckpointGrows, AddUserCheckpointType, TellsSelf DEF Grows
    <3>3. n \in Nat
      BY DEF Thread
    <3> HIDE DEF s, n, t
    <3>4. t \in Thread /\ Tells(t, s)
      BY <3>1, <3>2, <3>3, StandTells
    <3> QED BY <3>2, <3>4, TellsTrans
  <2> QED BY <2>1, <2>2
<1>2. JumpTo(t0, i) = IF before = {} \/ from = k THEN t ELSE t2
  BY DEF JumpTo
<1> HIDE DEF t
<1>3. t.messages \in Seq(Message) /\ Len(t.messages) \in Nat
  BY <1>1 DEF Thread
<1>4. ASSUME before # {} PROVE k \in Nat
  <2>1. before \subseteq 1 .. Len(t.messages)
    BY DEF CheckpointsUpTo
  <2> HIDE DEF before
  <2>2. k \in before
    BY <1>3, <1>4, <2>1, MaxPosition
  <2> HIDE DEF k
  <2>3. k \in 1 .. Len(t.messages)
    BY <2>1, <2>2
  <2> QED BY <1>3, <2>3
<1>5. stored \in Thread /\ Tells(stored, t)
  <2> DEFINE u == Store(t, t.messages)
  <2>1. u \in Thread /\ Tells(u, t)
    BY <1>1, <1>3, StoreTells, InheritsSelf DEF Tells
  <2> HIDE DEF u
  <2>2. Refresh(u) \in Thread /\ Tells(Refresh(u), u)
    BY <2>1, RefreshGrows, RefreshType DEF Grows
  <2> QED BY <2>1, <2>2, TellsTrans DEF u
<1> HIDE DEF stored
<1>6. t1 \in Thread /\ Tells(t1, t)
  BY <1>1, <1>5, TellsSelf
<1> HIDE DEF t1, k
<1>7. ASSUME before # {} PROVE t2 \in Thread /\ Tells(t2, t1)
  BY <1>4, <1>6, <1>7, StandTells
<1> HIDE DEF t2, before
<1>8. Tells(t1, t0)
  BY <1>1, <1>6, TellsTrans
<1>9. ASSUME before # {} PROVE t2 \in Thread /\ Tells(t2, t0)
  BY <1>7, <1>8, <1>9, TellsTrans
<1> QED BY <1>1, <1>2, <1>9

\* A history is cut, and the thread stored.
LEMMA CutTells ==
  ASSUME NEW t \in Thread, NEW ms \in Seq(Message), Inherits(ms, t.messages)
  PROVE  Refresh(Store(t, ms)) \in Thread /\ Tells(Refresh(Store(t, ms)), t)
<1> DEFINE u == Store(t, ms)
<1>1. u \in Thread /\ Tells(u, t)
  BY StoreTells DEF Tells
<1> HIDE DEF u
<1>2. Refresh(u) \in Thread /\ Tells(Refresh(u), u)
  BY <1>1, RefreshGrows, RefreshType DEF Grows
<1> QED BY <1>1, <1>2, TellsTrans DEF u

-----------------------------------------------------------------------------
\* Queued messages are sent in their order

\* The message was taken from the queue and waits for its content.
Drained(c) == c.stage = "content" /\ c.viaQueue

\* Queued messages of the history ms stand in their order, before all those that
\* are taken from the queue or still in it.
Past(ms, cs, q) ==
  /\ \A i, j \in 1 .. Len(ms) :
       /\ ms[i].role = "user" /\ ms[j].role = "user" /\ i < j
       /\ cs[ms[i].id].viaQueue /\ cs[ms[j].id].viaQueue
       => ms[i].id < ms[j].id
  /\ \A i \in 1 .. Len(ms) :
       ms[i].role = "user" =>
         /\ cs[ms[i].id].stage = "sent"
         /\ cs[ms[i].id].viaQueue =>
              /\ \A k \in 1 .. Len(q) : ms[i].id < q[k]
              /\ \A v \in Users : Drained(cs[v]) => ms[i].id < v

\* Messages are submitted in the order of their numbers, and queued at once.
Fresh(cs) ==
  \A u \in Users :
    /\ cs[u].stage \in {"unused", "select"} => ~cs[u].viaQueue
    /\ cs[u].stage = "unused" => \A v \in Users : u < v => cs[v].stage = "unused"
Rises(q) == \A i, j \in 1 .. Len(q) : i < j => q[i] < q[j]
Behind(cs, q) == \A v \in Users, k \in 1 .. Len(q) : Drained(cs[v]) => v < q[k]

\* QueueOrder, strengthened to be inductive.
QInv ==
  /\ Fresh(call) /\ Rises(queue) /\ Behind(call, queue)
  /\ Past(thread.messages, call, queue) /\ Past(thread.disk.messages, call, queue)
  /\ \A u \in Users : Past(call[u].base.messages, call, queue)

\* What a step may do to the submissions and to the queue.
Moves(cs, q, cs2, q2) ==
  /\ \A u \in Users : cs[u].stage = "sent" => cs2[u].stage = "sent" /\ cs2[u].viaQueue = cs[u].viaQueue
  /\ \A k \in 1 .. Len(q2) : \/ \E j \in 1 .. Len(q) : q2[k] = q[j]
                             \/ q2[k] \in Users /\ cs[q2[k]].stage = "unused"
  /\ \A v \in Users : Drained(cs2[v]) => Drained(cs[v]) \/ \E j \in 1 .. Len(q) : v = q[j]

LEMMA UserIds ==
  ASSUME NEW ms \in Seq(Message), NEW i \in 1 .. Len(ms), ms[i].role = "user"
  PROVE  ms[i].id \in Users
<1>1. ms[i] \in Message
  OBVIOUS
<1> QED BY <1>1 DEF Message

\* What keeps a history in order with the queue.
LEMMA PastInherited ==
  ASSUME NEW old, NEW new, NEW cs, NEW q, Past(old, cs, q), Inherits(new, old)
  PROVE  Past(new, cs, q)
<1>1. \A i \in 1 .. Len(new) : new[i].role = "user" =>
        i \in 1 .. Len(old) /\ new[i] = old[i]
  BY DEF Inherits
<1> QED BY <1>1 DEF Past

LEMMA PastMoves ==
  ASSUME NEW ms \in Seq(Message), NEW cs, NEW q, NEW cs2, NEW q2,
         Past(ms, cs, q), Fresh(cs), Moves(cs, q, cs2, q2)
  PROVE  Past(ms, cs2, q2)
<1>1. \A i \in 1 .. Len(ms) : ms[i].role = "user" =>
        /\ ms[i].id \in Users /\ cs[ms[i].id].stage = "sent"
        /\ cs2[ms[i].id].stage = "sent" /\ cs2[ms[i].id].viaQueue = cs[ms[i].id].viaQueue
  BY UserIds DEF Past, Moves
<1>2. ASSUME NEW i \in 1 .. Len(ms), ms[i].role = "user", cs[ms[i].id].viaQueue,
             NEW k \in 1 .. Len(q2)
      PROVE  ms[i].id < q2[k]
  <2>1. CASE \E j \in 1 .. Len(q) : q2[k] = q[j]
    BY <1>2, <2>1 DEF Past
  <2>2. CASE q2[k] \in Users /\ cs[q2[k]].stage = "unused"
    <3>1. ms[i].id \in Users /\ cs[ms[i].id].stage = "sent"
      BY <1>1, <1>2
    <3>2. ~(q2[k] < ms[i].id)
      BY <2>2, <3>1 DEF Fresh
    <3>3. q2[k] # ms[i].id
      BY <2>2, <3>1
    <3> QED BY <2>2, <3>1, <3>2, <3>3 DEF Users
  <2> QED BY <2>1, <2>2 DEF Moves
<1>3. ASSUME NEW i \in 1 .. Len(ms), ms[i].role = "user", cs[ms[i].id].viaQueue,
             NEW v \in Users, Drained(cs2[v])
      PROVE  ms[i].id < v
  BY <1>3 DEF Past, Moves
<1>4. ASSUME NEW i \in 1 .. Len(ms), NEW j \in 1 .. Len(ms),
             ms[i].role = "user", ms[j].role = "user", i < j,
             cs2[ms[i].id].viaQueue, cs2[ms[j].id].viaQueue
      PROVE  ms[i].id < ms[j].id
  BY <1>1, <1>4 DEF Past
<1> QED BY <1>1, <1>2, <1>3, <1>4 DEF Past

\* A history that has nothing but what is known to be in order.
Known(ms) == \E old \in Seq(Message) : Past(old, call, queue) /\ Inherits(ms, old)

\* The step of QInv, from what it changes.
LEMMA QMoves ==
  ASSUME QInv, Fresh(call'), Rises(queue'), Behind(call', queue'),
         Moves(call, queue, call', queue'),
         thread' \in Thread, \A u \in Users : call'[u].base.messages \in Seq(Message),
         Known(thread'.messages), Known(thread'.disk.messages),
         \A u \in Users : Known(call'[u].base.messages)
  PROVE  QInv'
<1>1. ASSUME NEW ms \in Seq(Message), Known(ms)
      PROVE  Past(ms, call', queue')
  <2>1. PICK old \in Seq(Message) : Past(old, call, queue) /\ Inherits(ms, old)
    BY <1>1 DEF Known
  <2>2. Past(ms, call, queue)
    BY <2>1, PastInherited
  <2> QED BY <2>2, PastMoves DEF QInv
<1>2. thread'.messages \in Seq(Message) /\ thread'.disk.messages \in Seq(Message)
  BY DEF Thread, Snapshot
<1>3. Past(thread'.messages, call', queue') /\ Past(thread'.disk.messages, call', queue')
  BY <1>1, <1>2
<1>4. \A u \in Users : Past(call'[u].base.messages, call', queue')
  BY <1>1
<1> QED BY <1>3, <1>4 DEF QInv

LEMMA KnownTells ==
  ASSUME NEW t, NEW t1, Known(t.messages), Known(t.disk.messages), Tells(t1, t)
  PROVE  Known(t1.messages) /\ Known(t1.disk.messages)
<1>1. \A ms : Inherits(ms, t.messages) => Known(ms)
  BY InheritsTrans DEF Known
<1> QED BY <1>1 DEF Tells

LEMMA QKnown ==
  ASSUME IInv, QInv
  PROVE  /\ Known(thread.messages) /\ Known(thread.disk.messages) /\ Known(<<>>)
         /\ \A u \in Users : Known(call[u].base.messages)
<1>1. /\ thread.messages \in Seq(Message) /\ thread.disk.messages \in Seq(Message)
      /\ \A u \in Users : call[u].base.messages \in Seq(Message)
  BY DEF IInv, TypeOK, Thread, Call, Snapshot
<1>2. Known(<<>>)
  <2>1. Past(<<>>, call, queue) /\ Inherits(<<>>, <<>>)
    BY DEF Past, Inherits
  <2>2. <<>> \in Seq(Message)
    BY EmptySeq
  <2> QED BY <2>1, <2>2 DEF Known
<1> QED BY <1>1, <1>2, InheritsSelf DEF Known, QInv

LEMMA BasesTyped ==
  ASSUME IInv
  PROVE  \A u \in Users : call[u].base.messages \in Seq(Message)
BY DEF IInv, TypeOK, Call, Snapshot

LEMMA FreshStage ==
  ASSUME IInv, Fresh(call), NEW u \in Users, \A v \in Users : v # u => call'[v] = call[v],
         call'[u].stage # "unused", call'[u].stage = "select" => ~call'[u].viaQueue,
         call[u].stage = "unused" => \A v \in 1 .. (u - 1) : call[v].stage # "unused"
  PROVE  Fresh(call')
<1>1. \A v \in Users : v \in Int /\ v > 0 /\ (v < u => v \in 1 .. (u - 1))
  BY DEF Users
<1> SUFFICES ASSUME NEW a \in Users
             PROVE  /\ call'[a].stage \in {"unused", "select"} => ~call'[a].viaQueue
                    /\ call'[a].stage = "unused" => \A b \in Users : a < b => call'[b].stage = "unused"
  BY DEF Fresh
<1>2. call'[a].stage \in {"unused", "select"} => ~call'[a].viaQueue
  BY DEF Fresh
<1>3. ASSUME call'[a].stage = "unused", NEW b \in Users, a < b
      PROVE  call'[b].stage = "unused"
  <2>1. a # u /\ call[a].stage = "unused"
    BY <1>3
  <2>2. call[b].stage = "unused"
    BY <1>3, <2>1 DEF Fresh
  <2>3. b # u
    BY <1>1, <1>3, <2>1, <2>2
  <2> QED BY <2>2, <2>3
<1> QED BY <1>2, <1>3

\* Nothing is said, and nobody submits.
LEMMA QStill ==
  ASSUME IInv, QInv, thread' \in Thread, Tells(thread', thread), UNCHANGED <<call, queue>>
  PROVE  QInv'
<1>1. Moves(call, queue, call', queue')
  BY DEF Moves
<1>2. Known(thread'.messages) /\ Known(thread'.disk.messages)
  BY QKnown, KnownTells
<1> QED BY <1>1, <1>2, QKnown, QMoves, BasesTyped DEF QInv

\* One submission goes on, and the queue stays.
LEMMA QOne ==
  ASSUME IInv, QInv, NEW u \in Users, call[u].stage # "sent", UNCHANGED queue,
         \A v \in Users : v # u => call'[v] = call[v],
         call'[u].stage # "unused", call'[u].stage = "select" => ~call'[u].viaQueue,
         call[u].stage = "unused" => \A v \in 1 .. (u - 1) : call[v].stage # "unused",
         ~Drained(call'[u]), call'[u].base.messages \in Seq(Message),
         Known(call'[u].base.messages),
         thread' \in Thread, Known(thread'.messages), Known(thread'.disk.messages)
  PROVE  QInv'
<1>1. Fresh(call')
  BY FreshStage DEF QInv
<1>2. Behind(call', queue') /\ Rises(queue')
  BY DEF QInv, Behind
<1>3. Moves(call, queue, call', queue')
  BY DEF Moves
<1>4. \A v \in Users : call'[v].base.messages \in Seq(Message) /\ Known(call'[v].base.messages)
  BY QKnown, BasesTyped
<1> QED BY <1>1, <1>2, <1>3, <1>4, QMoves

\* A message leaves the queue.
LEMMA Removed ==
  ASSUME NEW q \in Seq(Users), NEW k \in 1 .. Len(q)
  PROVE  /\ Len(RemoveAt(q, k)) = Len(q) - 1
         /\ \A i \in 1 .. Len(RemoveAt(q, k)) :
              RemoveAt(q, k)[i] = IF i < k THEN q[i] ELSE q[i + 1]
<1>1. k \in Nat /\ Len(q) \in Nat
  OBVIOUS
<1> DEFINE A == SubSeq(q, 1, k - 1)
           B == SubSeq(q, k + 1, Len(q))
<1>2. /\ A \in Seq(Users) /\ Len(A) = k - 1
      /\ \A i \in 1 .. k - 1 : A[i] = q[i]
  BY <1>1
<1>3. /\ B \in Seq(Users) /\ Len(B) = Len(q) - k
      /\ \A i \in 1 .. Len(q) - k : B[i] = q[i + k]
  BY <1>1
<1>4. RemoveAt(q, k) = A \o B
  BY DEF RemoveAt
<1> HIDE DEF A, B
<1>5. Len(A \o B) = Len(A) + Len(B)
  BY <1>2, <1>3, ConcatProperties
<1>6. Len(RemoveAt(q, k)) = Len(q) - 1
  BY <1>1, <1>2, <1>3, <1>4, <1>5
<1>7. ASSUME NEW i \in 1 .. Len(q) - 1
      PROVE  RemoveAt(q, k)[i] = IF i < k THEN q[i] ELSE q[i + 1]
  <2>1. CASE i < k
    BY <1>1, <1>2, <1>3, <1>4, <2>1
  <2>2. CASE ~(i < k)
    <3>1. RemoveAt(q, k)[i] = B[i - (k - 1)]
      BY <1>1, <1>2, <1>3, <1>4, <2>2
    <3>2. i - (k - 1) \in 1 .. Len(q) - k /\ (i - (k - 1)) + k = i + 1
      BY <1>1, <2>2
    <3> QED BY <1>3, <2>2, <3>1, <3>2
  <2> QED BY <2>1, <2>2
<1> QED BY <1>6, <1>7

LEMMA QShorter ==
  ASSUME IInv, QInv, QueueOK, NEW k \in 1 .. Len(queue), queue' = RemoveAt(queue, k),
         call' = SetStage(queue[k], "removed") \/ (k = 1 /\ call' = SetStage(queue[k], "content")),
         thread' \in Thread, Tells(thread', thread)
  PROVE  QInv'
<1> DEFINE u == queue[k]
<1>1. queue \in Seq(Users) /\ u \in Users /\ Len(queue) \in Nat /\ k \in Nat
  BY DEF IInv, TypeOK
<1>2. call[u].stage = "queued"
  BY DEF QueueOK
<1>3. /\ \A v \in Users : v # u => call'[v] = call[v]
      /\ call'[u].stage \in {"removed", "content"} /\ (call'[u].stage = "content" => k = 1)
      /\ call'[u].base = call[u].base
  BY <1>1 DEF SetStage, IInv, TypeOK, Call
<1>4. Fresh(call')
  BY <1>1, <1>2, <1>3, FreshStage DEF QInv
<1>5. /\ Len(queue') = Len(queue) - 1
      /\ \A i \in 1 .. Len(queue') : queue'[i] = IF i < k THEN queue[i] ELSE queue[i + 1]
  BY <1>1, Removed
<1>6. \A i \in 1 .. Len(queue') :
        \E j \in 1 .. Len(queue) : queue'[i] = queue[j] /\ j >= i /\ (k = 1 => j > 1)
  BY <1>1, <1>5
<1>7. Rises(queue')
  <2> SUFFICES ASSUME NEW i \in 1 .. Len(queue'), NEW j \in 1 .. Len(queue'), i < j
               PROVE  queue'[i] < queue'[j]
    BY DEF Rises
  <2> DEFINE a == IF i < k THEN i ELSE i + 1
             b == IF j < k THEN j ELSE j + 1
  <2>1. a \in 1 .. Len(queue) /\ b \in 1 .. Len(queue) /\ a < b
    BY <1>1, <1>5
  <2>2. queue'[i] = queue[a] /\ queue'[j] = queue[b]
    BY <1>5
  <2> HIDE DEF a, b
  <2> QED BY <2>1, <2>2 DEF QInv, Rises
<1>8. Behind(call', queue')
  <2> SUFFICES ASSUME NEW v \in Users, NEW i \in 1 .. Len(queue'), Drained(call'[v])
               PROVE  v < queue'[i]
    BY DEF Behind
  <2>1. PICK j \in 1 .. Len(queue) : queue'[i] = queue[j] /\ (k = 1 => j > 1)
    BY <1>6
  <2>2. CASE v # u
    <3>1. Drained(call[v])
      BY <1>3, <2>2
    <3> QED BY <2>1, <3>1 DEF QInv, Behind
  <2>3. CASE v = u
    <3>1. k = 1
      BY <1>3, <2>3 DEF Drained
    <3>2. queue[1] < queue[j] /\ v = queue[1]
      BY <1>1, <2>1, <2>3, <3>1 DEF QInv, Rises
    <3> QED BY <2>1, <3>2
  <2> QED BY <2>2, <2>3
<1>9. Moves(call, queue, call', queue')
  <2>1. \A v \in Users : call[v].stage = "sent" => call'[v] = call[v]
    BY <1>2, <1>3
  <2>2. \A v \in Users : Drained(call'[v]) => Drained(call[v]) \/ \E j \in 1 .. Len(queue) : v = queue[j]
    BY <1>3
  <2>3. \A i \in 1 .. Len(queue') : \E j \in 1 .. Len(queue) : queue'[i] = queue[j]
    BY <1>6
  <2> QED BY <2>1, <2>2, <2>3 DEF Moves
<1>10. \A v \in Users : call'[v].base = call[v].base
  BY <1>3
<1>11. Known(thread'.messages) /\ Known(thread'.disk.messages)
  BY QKnown, KnownTells
<1> QED BY <1>4, <1>7, <1>8, <1>9, <1>10, <1>11, QKnown, QMoves, BasesTyped

\* A run goes on, or returns and takes the next message from the queue.
LEMMA RunStepInOrder ==
  ASSUME IInv, IInv', SInv, QueueOK, QInv, NEW r \in Runs, RunStep(r) \/ LLMText(r)
  PROVE  QInv'
<1>1. thread' \in Thread
  BY DEF IInv, TypeOK
<1>2. CASE On(r)
  BY <1>1, <1>2, QStill DEF On, Grows
<1>3. ASSUME NEW t, NEW p, Finish(r, t, p), Grows(t, thread)
      PROVE  QInv'
  <2>1. t \in Thread /\ Tells(t, thread)
    BY <1>3 DEF Grows, Tells
  <2>2. CASE MayDrain(t, p)
    <3>1. queue' = Tail(queue) /\ call' = SetStage(Head(queue), "content") /\ thread' = EnterContent(t)
      BY <1>3, <2>2 DEF Finish
    <3>2. queue \in Seq(Users) /\ queue # <<>> /\ 1 \in 1 .. Len(queue)
      BY <2>2 DEF MayDrain, IInv, TypeOK
    <3>3. Tail(queue) = RemoveAt(queue, 1) /\ Head(queue) = queue[1]
      BY <3>2 DEF RemoveAt
    <3>4. Tells(thread', t)
      BY <2>1, <3>1, EnterGrows DEF Grows
    <3>5. Tells(thread', thread)
      BY <2>1, <3>4, TellsTrans
    <3> QED BY <1>1, <3>1, <3>2, <3>3, <3>5, QShorter
  <2>3. CASE ~MayDrain(t, p)
    BY <1>1, <1>3, <2>1, <2>3, QStill DEF Finish
  <2> QED BY <2>2, <2>3
<1> QED BY <1>2, <1>3, RunStepGrows DEF Back

LEMMA SelectDoneInOrder ==
  ASSUME IInv, IInv', QInv, NEW u \in Users, SelectDone(u)
  PROVE  QInv'
<1> DEFINE base == call[u].base
           ms == UpToCheckpoint(base)
           t0 == [thread EXCEPT !.currCheckpointIdx = base.currCheckpointIdx]
           t1 == Store(t0, ms)
           t == IF base.currCheckpointIdx = 0 THEN thread ELSE Refresh(t1)
<1>1. /\ thread \in Thread /\ thread' \in Thread /\ call \in [Users -> Call] /\ call[u] \in Call
      /\ base.messages \in Seq(Message) /\ base.currCheckpointIdx \in Nat
  BY DEF IInv, TypeOK, Call, Snapshot
<1>2. thread' = EnterContent(t)
  BY DEF SelectDone
<1>3. ms \in Seq(Message) /\ Inherits(ms, base.messages)
  BY <1>1, SliceInherits DEF UpToCheckpoint
<1>4. Known(base.messages)
  BY QKnown
<1>5. Known(ms)
  BY <1>3, <1>4, InheritsTrans DEF Known
<1> HIDE DEF ms
<1>6. t0 \in Thread
  BY <1>1 DEF Thread
<1> HIDE DEF t0
<1>7. t1 \in Thread /\ t1.messages = ms /\ t1.disk.messages = ms
  BY <1>3, <1>6, StoreType DEF Store, Thread
<1> HIDE DEF t1
<1>8. Refresh(t1) \in Thread /\ Known(Refresh(t1).messages) /\ Known(Refresh(t1).disk.messages)
  BY <1>5, <1>7, RefreshType, RefreshGrows, KnownTells DEF Grows
<1>9. t \in Thread /\ Known(t.messages) /\ Known(t.disk.messages)
  BY <1>1, <1>8, QKnown
<1> HIDE DEF t
<1>10. Known(thread'.messages) /\ Known(thread'.disk.messages)
  BY <1>2, <1>9, EnterGrows, KnownTells DEF Grows
<1>11. call' = [call EXCEPT ![u].stage = "content", ![u].base = NoBase] /\ queue' = queue
       /\ call[u].stage = "select"
  BY DEF SelectDone
<1>12. /\ \A v \in Users : v # u => call'[v] = call[v]
       /\ call'[u].stage = "content" /\ call'[u].viaQueue = call[u].viaQueue
       /\ call'[u].base.messages = <<>>
  BY <1>1, <1>11 DEF Call, NoBase
<1>13. ~Drained(call'[u])
  BY <1>11, <1>12 DEF QInv, Fresh, Drained
<1>14. Known(<<>>) /\ <<>> \in Seq(Message)
  BY QKnown, EmptySeq
<1> QED BY <1>1, <1>10, <1>11, <1>12, <1>13, <1>14, QOne

LEMMA ContentDoneInOrder ==
  ASSUME IInv, IInv', SInv, QInv, NEW u \in Users, NEW r \in Runs, ContentDone(u, r)
  PROVE  QInv'
<1> DEFINE m == UserMsg(u)
           A == Append(thread.messages, m)
           t0 == Store(thread, A)
           t1 == [Refresh(t0) EXCEPT !.currCheckpointIdx = 0]
           t2 == Refresh(t1)
           t3 == AddUserCheckpoint(t2)
<1>1. /\ call[u].stage = "content" /\ call' = SetStage(u, "sent") /\ queue' = queue
      /\ thread' = AtLoop(t3, r)
  BY DEF ContentDone, AddMessage
<1>2. /\ call \in [Users -> Call] /\ call[u] \in Call /\ thread \in Thread
      /\ thread.messages \in Seq(Message) /\ Len(thread.messages) \in Nat
  BY DEF IInv, TypeOK, Thread
<1>3. /\ \A v \in Users : v # u => call'[v] = call[v]
      /\ call'[u].stage = "sent" /\ call'[u].viaQueue = call[u].viaQueue
      /\ call'[u].base = call[u].base
  BY <1>1, <1>2 DEF SetStage, Call
<1>4. Moves(call, queue, call', queue')
  BY <1>1, <1>3 DEF Moves, Drained
<1>5. \A v \in Users : ~Drained(call'[v])
  <2>1. WaitingIn(call) = {u}
    BY <1>1, WaitingFacts DEF Waiting
  <2> QED BY <1>3, <2>1 DEF WaitingIn, Drained
<1>6. m \in Message /\ m.role = "user" /\ m.id = u
  BY MessageTypes DEF UserMsg
<1> HIDE DEF m
<1>7. /\ A \in Seq(Message) /\ Len(A) = Len(thread.messages) + 1 /\ A[Len(A)] = m
      /\ \A i \in 1 .. Len(thread.messages) : A[i] = thread.messages[i]
  BY <1>2, <1>6
<1> HIDE DEF A
<1>8. \A ms \in Seq(Message) : Past(ms, call, queue) => Past(ms, call', queue')
  BY <1>4, PastMoves DEF QInv
<1>9. Past(thread.messages, call, queue) /\ Past(thread.messages, call', queue')
  BY <1>2, <1>8 DEF QInv
<1>10. Past(A, call', queue')
  <2>1. \A i \in 1 .. Len(A) : i = Len(A) \/ i \in 1 .. Len(thread.messages)
    BY <1>2, <1>7
  <2>2. call[u].viaQueue => \A k \in 1 .. Len(queue) : u < queue[k]
    BY <1>1 DEF QInv, Behind, Drained
  <2>3. ASSUME NEW i \in 1 .. Len(thread.messages), thread.messages[i].role = "user",
               call'[thread.messages[i].id].viaQueue, call[u].viaQueue
        PROVE  thread.messages[i].id < u
    <3>1. thread.messages[i].id \in Users /\ call[thread.messages[i].id].stage = "sent"
      BY <1>2, <1>9, <2>3, UserIds DEF Past
    <3>2. call[thread.messages[i].id].viaQueue
      BY <1>1, <1>3, <2>3, <3>1
    <3> QED BY <1>1, <1>9, <2>3, <3>2 DEF Past, Drained
  <2>4. ASSUME NEW i \in 1 .. Len(A), NEW j \in 1 .. Len(A), A[i].role = "user", A[j].role = "user",
               i < j, call'[A[i].id].viaQueue, call'[A[j].id].viaQueue
        PROVE  A[i].id < A[j].id
    <3>1. i \in 1 .. Len(thread.messages)
      BY <1>2, <1>7, <2>4
    <3>2. CASE j = Len(A)
      BY <1>3, <1>6, <1>7, <2>3, <2>4, <3>1, <3>2
    <3>3. CASE j \in 1 .. Len(thread.messages)
      BY <1>7, <1>9, <2>4, <3>1, <3>3 DEF Past
    <3> QED BY <2>1, <3>2, <3>3
  <2>5. ASSUME NEW i \in 1 .. Len(A), A[i].role = "user"
        PROVE  /\ call'[A[i].id].stage = "sent"
               /\ call'[A[i].id].viaQueue => \A k \in 1 .. Len(queue') : A[i].id < queue'[k]
    <3>1. CASE i = Len(A)
      BY <1>1, <1>3, <1>6, <1>7, <2>2, <3>1
    <3>2. CASE i \in 1 .. Len(thread.messages)
      BY <1>7, <1>9, <2>5, <3>2 DEF Past
    <3> QED BY <2>1, <3>1, <3>2
  <2> QED BY <1>5, <2>4, <2>5 DEF Past
<1>11. t0 \in Thread /\ t0.messages = A /\ t0.disk.messages = A
  BY <1>2, <1>7, StoreType DEF Store, Thread
<1> HIDE DEF t0
<1>12. t1 \in Thread /\ Tells(t1, t0)
  <2> DEFINE x == Refresh(t0)
  <2>1. x \in Thread /\ Tells(x, t0)
    BY <1>11, RefreshType, RefreshGrows DEF Grows
  <2> HIDE DEF x
  <2>2. /\ [x EXCEPT !.currCheckpointIdx = 0] \in Thread
        /\ [x EXCEPT !.currCheckpointIdx = 0].messages = x.messages
        /\ [x EXCEPT !.currCheckpointIdx = 0].disk = x.disk
    BY <2>1 DEF Thread
  <2>3. Tells([x EXCEPT !.currCheckpointIdx = 0], x)
    BY <2>2, InheritsSelf DEF Tells
  <2> QED BY <2>1, <2>2, <2>3, TellsTrans DEF x
<1> HIDE DEF t1
<1>13. t2 \in Thread /\ Tells(t2, t1)
  BY <1>12, RefreshType, RefreshGrows DEF Grows
<1> HIDE DEF t2
<1>14. t3 \in Thread /\ Tells(t3, t2)
  BY <1>13, AddUserCheckpointType, CheckpointGrows DEF Grows
<1> HIDE DEF t3
<1>15. Tells(thread', t3)
  BY <1>1, <1>14, AtLoopGrows DEF Grows
<1>16. Tells(thread', t0)
  BY <1>12, <1>13, <1>14, <1>15, TellsTrans
<1>17. Past(thread'.messages, call', queue') /\ Past(thread'.disk.messages, call', queue')
  BY <1>10, <1>11, <1>16, PastInherited DEF Tells
<1>18. \A v \in Users : call'[v].base = call[v].base /\ Past(call[v].base.messages, call', queue')
  BY <1>3, <1>8, BasesTyped DEF QInv
<1>19. Fresh(call')
  BY <1>1, <1>3, FreshStage DEF QInv
<1>20. Rises(queue') /\ Behind(call', queue')
  BY <1>1, <1>5 DEF QInv, Behind
<1> QED BY <1>17, <1>18, <1>19, <1>20 DEF QInv

LEMMA CallStepInOrder ==
  ASSUME IInv, IInv', SInv, QInv, NEW u \in Users, CallStep(u)
  PROVE  QInv'
<1>1. CASE SelectDone(u)
  BY <1>1, SelectDoneInOrder
<1>2. CASE ContentFails(u)
  <2>1. thread' = thread /\ queue' = queue /\ call' = SetStage(u, "failed") /\ call[u].stage = "content"
    BY <1>2 DEF ContentFails
  <2>2. /\ \A v \in Users : v # u => call'[v] = call[v]
        /\ call'[u].stage = "failed" /\ call'[u].base = call[u].base
    BY <2>1 DEF SetStage, IInv, TypeOK, Call
  <2>3. thread' \in Thread
    BY DEF IInv, TypeOK
  <2> QED BY <2>1, <2>2, <2>3, QKnown, QOne, BasesTyped DEF Drained
<1>3. ASSUME NEW r \in Runs, ContentDone(u, r) PROVE QInv'
  BY <1>3, ContentDoneInOrder
<1> QED BY <1>1, <1>2, <1>3 DEF CallStep

LEMMA SubmitInOrder ==
  ASSUME IInv, IInv', QueueOK, QInv, NEW u \in Users, Submit(u)
  PROVE  QInv'
<1>1. /\ call \in [Users -> Call] /\ call[u] \in Call /\ queue \in Seq(Users)
      /\ thread \in Thread /\ thread' = thread
  BY DEF IInv, TypeOK, Submit
<1>2. call[u].stage = "unused" /\ \A v \in 1 .. (u - 1) : call[v].stage # "unused"
  BY DEF Submit, IsNext
<1>3. ~call[u].viaQueue
  BY <1>2 DEF QInv, Fresh
<1>4. CASE Running(thread)
  <2>1. queue' = Append(queue, u) /\ call' = [call EXCEPT ![u].stage = "queued", ![u].viaQueue = TRUE]
    BY <1>4 DEF Submit, Enqueue
  <2>2. /\ \A v \in Users : v # u => call'[v] = call[v]
        /\ call'[u].stage = "queued" /\ call'[u].base = call[u].base
    BY <1>1, <2>1 DEF Call
  <2>3. /\ Len(queue) \in Nat /\ Len(queue') = Len(queue) + 1 /\ queue'[Len(queue) + 1] = u
        /\ \A i \in 1 .. Len(queue) : queue'[i] = queue[i]
    BY <1>1, <2>1
  <2>4. Moves(call, queue, call', queue')
    <3>1. \A k \in 1 .. Len(queue') : \/ \E j \in 1 .. Len(queue) : queue'[k] = queue[j]
                                      \/ queue'[k] = u
      BY <2>3
    <3> QED BY <1>2, <2>2, <3>1 DEF Moves, Drained
  <2>5. Fresh(call')
    BY <1>2, <2>2, FreshStage DEF QInv
  <2>6. \A v \in Users : call[v].stage # "unused" => v < u
    <3> SUFFICES ASSUME NEW v \in Users, call[v].stage # "unused" PROVE v < u
      OBVIOUS
    <3>1. ~(u < v)
      BY <1>2 DEF QInv, Fresh
    <3>2. u # v
      BY <1>2
    <3> QED BY <3>1, <3>2 DEF Users
  <2>7. \A i \in 1 .. Len(queue) : queue[i] \in Users /\ queue[i] < u
    <3> SUFFICES ASSUME NEW i \in 1 .. Len(queue) PROVE queue[i] \in Users /\ queue[i] < u
      OBVIOUS
    <3>1. queue[i] \in Users /\ call[queue[i]].stage = "queued"
      BY <1>1 DEF QueueOK
    <3> QED BY <2>6, <3>1
  <2>8. Rises(queue')
    <3> SUFFICES ASSUME NEW i \in 1 .. Len(queue'), NEW j \in 1 .. Len(queue'), i < j
                 PROVE  queue'[i] < queue'[j]
      BY DEF Rises
    <3>1. i \in 1 .. Len(queue) /\ (j \in 1 .. Len(queue) \/ j = Len(queue) + 1)
      BY <2>3
    <3>2. CASE j \in 1 .. Len(queue)
      BY <2>3, <3>1, <3>2 DEF QInv, Rises
    <3>3. CASE j = Len(queue) + 1
      BY <2>3, <2>7, <3>1, <3>3
    <3> QED BY <3>1, <3>2, <3>3
  <2>9. Behind(call', queue')
    <3> SUFFICES ASSUME NEW v \in Users, NEW k \in 1 .. Len(queue'), Drained(call'[v])
                 PROVE  v < queue'[k]
      BY DEF Behind
    <3>1. v # u /\ Drained(call[v]) /\ call[v].stage # "unused"
      BY <2>2 DEF Drained
    <3>2. k \in 1 .. Len(queue) \/ k = Len(queue) + 1
      BY <2>3
    <3>3. CASE k \in 1 .. Len(queue)
      BY <2>3, <3>1, <3>3 DEF QInv, Behind
    <3>4. CASE k = Len(queue) + 1
      BY <2>3, <2>6, <3>1, <3>4
    <3> QED BY <3>2, <3>3, <3>4
  <2>10. \A v \in Users : call'[v].base = call[v].base
    BY <2>2
  <2> QED BY <1>1, <2>4, <2>5, <2>8, <2>9, <2>10, QKnown, QMoves, BasesTyped
<1>5. CASE ~Running(thread)
  <2> DEFINE b == IF thread.currCheckpointIdx = 0 THEN NoBase
                  ELSE [messages |-> thread.messages,
                        currCheckpointIdx |-> thread.currCheckpointIdx]
  <2>1. call' = [call EXCEPT ![u].stage = "select", ![u].base = b] /\ queue' = queue
    BY <1>5 DEF Submit
  <2>2. b.messages \in {<<>>, thread.messages}
    BY DEF NoBase
  <2> HIDE DEF b
  <2>3. /\ \A v \in Users : v # u => call'[v] = call[v]
        /\ call'[u].stage = "select" /\ call'[u].base = b /\ call'[u].viaQueue = call[u].viaQueue
    BY <1>1, <2>1 DEF Call
  <2>4. call'[u].base.messages \in Seq(Message) /\ Known(call'[u].base.messages)
    BY <1>1, <2>2, <2>3, QKnown, EmptySeq DEF Thread
  <2>5. Known(thread'.messages) /\ Known(thread'.disk.messages)
    BY <1>1, QKnown
  <2>6. ~Drained(call'[u])
    BY <2>3 DEF Drained
  <2> QED BY <1>1, <1>2, <1>3, <2>1, <2>3, <2>4, <2>5, <2>6, QOne
<1> QED BY <1>4, <1>5

\* A message that was not submitted before goes to the model at once.
LEMMA StartInOrder ==
  ASSUME IInv, IInv', QInv, NEW u \in Users, IsNext(u), call' = SetStage(u, "content"),
         UNCHANGED queue, Tells(thread', thread)
  PROVE  QInv'
<1>1. call \in [Users -> Call] /\ call[u] \in Call /\ thread' \in Thread
  BY DEF IInv, TypeOK
<1>2. call[u].stage = "unused" /\ \A v \in 1 .. (u - 1) : call[v].stage # "unused"
  BY DEF IsNext
<1>3. /\ \A v \in Users : v # u => call'[v] = call[v]
      /\ call'[u].stage = "content" /\ call'[u].base = call[u].base
      /\ call'[u].viaQueue = call[u].viaQueue
  BY <1>1 DEF SetStage, Call
<1>4. ~Drained(call'[u])
  BY <1>2, <1>3 DEF QInv, Fresh, Drained
<1>5. Known(thread'.messages) /\ Known(thread'.disk.messages)
  BY QKnown, KnownTells
<1>6. call'[u].base.messages \in Seq(Message) /\ Known(call'[u].base.messages)
  BY <1>3, QKnown, BasesTyped
<1> QED BY <1>1, <1>2, <1>3, <1>4, <1>5, <1>6, QOne

LEMMA EditInOrder ==
  ASSUME IInv, IInv', QInv, NEW i \in 1 .. Len(thread.messages), NEW u \in Users,
         NEW cut \in BOOLEAN, Edit(u, i, cut)
  PROVE  QInv'
<1> DEFINE t == Halt(thread, cut)
           halted == SetStream(t, NotRunning(FALSE))
           ms == Slice(t.messages, i - 1)
           t0 == [halted EXCEPT !.messages = ms]
           t1 == Refresh(t0)
<1>1. thread' = EnterContent(t1) /\ IsNext(u) /\ call' = SetStage(u, "content") /\ queue' = queue
  BY DEF Edit
<1>2. t \in Thread /\ Tells(t, thread)
  BY HaltGrows DEF Grows
<1>3. i - 1 \in Nat
  BY DEF IInv, TypeOK, Thread
<1> HIDE DEF t
<1>4. halted \in Thread /\ Tells(halted, t) /\ halted.messages = t.messages
  BY <1>2, SetStreamGrows, SetStreamType, StreamTypes DEF Grows
<1> HIDE DEF halted
<1>5. t.messages \in Seq(Message)
  BY <1>2 DEF Thread
<1>6. ms \in Seq(Message) /\ Inherits(ms, halted.messages)
  BY <1>3, <1>4, <1>5, SliceInherits
<1> HIDE DEF ms
<1>7. t0 \in Thread /\ t0.messages = ms /\ t0.disk = halted.disk
  BY <1>4, <1>6 DEF Thread
<1> HIDE DEF t0
<1>8. Tells(t0, halted)
  BY <1>6, <1>7 DEF Tells
<1>9. t1 \in Thread /\ Tells(t1, t0)
  BY <1>7, RefreshType, RefreshGrows DEF Grows
<1> HIDE DEF t1
<1>10. Tells(thread', t1)
  BY <1>1, <1>9, EnterGrows DEF Grows
<1>11. Tells(thread', thread)
  BY <1>2, <1>4, <1>8, <1>9, <1>10, TellsTrans
<1> QED BY <1>1, <1>11, StartInOrder

LEMMA RestartInOrder ==
  ASSUME IInv, IInv', QInv, Restart
  PROVE  QInv'
<1> DEFINE d == thread.disk
           t == [thread EXCEPT !.messages = d.messages,
                               !.currCheckpointIdx = d.currCheckpointIdx,
                               !.stream = NotRunning(FALSE)]
<1>1. /\ thread \in Thread /\ thread' \in Thread /\ d \in Snapshot
      /\ call \in [Users -> Call] /\ \A v \in Users : call[v] \in Call
  BY DEF IInv, TypeOK, Thread
<1>2. /\ thread' = Refresh(t) /\ queue' = <<>>
      /\ call' = [v \in Users |->
           IF Waiting(v) \/ call[v].stage = "queued"
           THEN [call[v] EXCEPT !.stage = "lost", !.base = NoBase] ELSE call[v]]
  BY DEF Restart
<1>3. t \in Thread /\ t.messages = d.messages /\ t.disk = d
  BY <1>1, StreamTypes DEF Thread, Snapshot
<1> HIDE DEF t
<1>4. Known(t.messages) /\ Known(t.disk.messages)
  BY <1>3, QKnown
<1>5. Known(thread'.messages) /\ Known(thread'.disk.messages)
  BY <1>2, <1>3, <1>4, RefreshGrows, KnownTells DEF Grows
<1>6. \A v \in Users :
        \/ /\ call[v].stage \in {"select", "content", "queued"}
           /\ call'[v].stage = "lost" /\ call'[v].base.messages = <<>>
        \/ call[v].stage \notin {"select", "content", "queued"} /\ call'[v] = call[v]
  BY <1>1, <1>2 DEF Waiting, Call, NoBase
<1>11. \A k \in 1 .. Len(queue') : FALSE
  <2>1. Len(queue') = 0
    BY <1>2
  <2> QED BY <2>1
<1>7. Moves(call, queue, call', queue')
  BY <1>6, <1>11 DEF Moves, Drained
<1>8. Fresh(call')
  BY <1>6 DEF QInv, Fresh
<1>9. Rises(queue') /\ Behind(call', queue')
  BY <1>11 DEF Rises, Behind
<1>10. \A v \in Users : call'[v].base.messages \in Seq(Message) /\ Known(call'[v].base.messages)
  BY <1>6, QKnown, BasesTyped, EmptySeq
<1> QED BY <1>1, <1>5, <1>7, <1>8, <1>9, <1>10, QMoves

LEMMA UserStepInOrder ==
  ASSUME IInv, IInv', SInv, QueueOK, QInv, UserStep
  PROVE  QInv'
<1>1. thread \in Thread /\ thread' \in Thread
  BY DEF IInv, TypeOK
<1>2. ASSUME NEW u \in Users, Submit(u) PROVE QInv'
  BY <1>2, SubmitInOrder
<1>3. ASSUME NEW u \in Users, Resume(u) PROVE QInv'
  BY <1>1, <1>3, StartInOrder, EnterGrows DEF Resume, Grows
<1>4. ASSUME NEW i \in 1 .. Len(queue), RemoveQueued(i) PROVE QInv'
  BY <1>1, <1>4, QShorter, TellsSelf DEF RemoveQueued
<1>5. ASSUME NEW r \in Runs, Approve(r) PROVE QInv'
  <2> DEFINE id == Last(thread.messages).id
             t == AddUserCheckpoint(thread)
  <2>1. thread' = BeginTool(t, r, id, turns[id]) /\ EndsWithTool(thread.messages)
        /\ UNCHANGED <<call, queue>>
    BY <1>5 DEF Approve, MayApprove, EndsWithRequest
  <2>2. id \in Turns
    BY <1>1, <2>1, LastTool DEF Thread
  <2>3. t \in Thread /\ Tells(t, thread)
    BY <1>1, AddUserCheckpointType, CheckpointGrows DEF Grows
  <2> HIDE DEF id, t
  <2>4. Tells(thread', t)
    BY <2>1, <2>2, <2>3, BeginToolGrows DEF Grows
  <2>5. Tells(thread', thread)
    BY <2>3, <2>4, TellsTrans
  <2> QED BY <1>1, <2>1, <2>5, QStill
<1>6. CASE Reject
  BY <1>1, <1>6, RejectLatestGrows, QStill DEF Reject, Grows
<1>7. CASE DismissError
  BY <1>1, <1>7, SetStreamGrows, StreamTypes, QStill DEF DismissError, Grows
<1>8. CASE TouchThread
  BY <1>1, <1>8, RefreshGrows, QStill DEF TouchThread, Grows
<1>9. CASE Restart
  BY <1>9, RestartInOrder
<1>10. ASSUME NEW cut \in BOOLEAN, Stop(cut) PROVE QInv'
  <2> DEFINE t == Halt(thread, cut)
  <2>1. thread' \in {t, SetStream(t, NotRunning(FALSE))} /\ UNCHANGED <<call, queue>>
    BY <1>10 DEF Stop
  <2>2. t \in Thread /\ Tells(t, thread)
    BY HaltGrows DEF Grows
  <2> HIDE DEF t
  <2>3. Tells(thread', t)
    BY <2>1, <2>2, SetStreamGrows, StreamTypes, TellsSelf DEF Grows
  <2>4. Tells(thread', thread)
    BY <2>2, <2>3, TellsTrans
  <2> QED BY <1>1, <2>1, <2>4, QStill
<1>11. ASSUME NEW i \in 1 .. Len(thread.messages), Jump(i) PROVE QInv'
  BY <1>1, <1>11, JumpToTells, QStill DEF Jump
<1>12. ASSUME NEW i \in 1 .. Len(thread.messages), Revert(i) PROVE QInv'
  <2> DEFINE t == JumpTo(thread, i)
             ms == UpToCheckpoint(t)
  <2>1. thread' = Refresh(Store(t, ms)) /\ UNCHANGED <<call, queue>>
    BY <1>12 DEF Revert
  <2>2. t \in Thread /\ Tells(t, thread)
    BY <1>1, JumpToTells
  <2> HIDE DEF t
  <2>3. ms \in Seq(Message) /\ Inherits(ms, t.messages)
    BY <2>2, SliceInherits DEF UpToCheckpoint, Thread
  <2> HIDE DEF ms
  <2>4. Tells(thread', t)
    BY <2>1, <2>2, <2>3, CutTells
  <2>5. Tells(thread', thread)
    BY <2>2, <2>4, TellsTrans
  <2> QED BY <1>1, <2>1, <2>5, QStill
<1>13. ASSUME NEW i \in 1 .. Len(thread.messages), NEW u \in Users, NEW cut \in BOOLEAN,
              Edit(u, i, cut)
       PROVE  QInv'
  BY <1>13, EditInOrder
<1> QED BY <1>2, <1>3, <1>4, <1>5, <1>6, <1>7, <1>8, <1>9, <1>10, <1>11, <1>12, <1>13
        DEF UserStep

\* Messages that went through the queue stand in the history in the order in
\* which they were queued, also in what is on disk and in what a submission cuts.
THEOREM QueueOrderAlways ==
  ASSUME ~Overlap
  PROVE  Spec => []QueueOrder
<1>1. Init => QueueOK /\ QInv
  BY DEF Init, NoBase, QueueOK, QInv, Fresh, Rises, Behind, Past, Drained
<1>2. IInv /\ IInv' /\ SInv /\ QueueOK /\ QInv /\ [Next]_vars => (QueueOK /\ QInv)'
  <2>1. ASSUME IInv, IInv', SInv, QueueOK, QInv, Next
        PROVE  (QueueOK /\ QInv)'
    <3>1. QueueOK'
      BY <2>1, QueueOKNext
    <3>2. QInv'
      BY <2>1, RunStepInOrder, CallStepInOrder, UserStepInOrder DEF Next
    <3> QED BY <3>1, <3>2
  <2>2. ASSUME QueueOK, QInv, UNCHANGED vars
        PROVE  (QueueOK /\ QInv)'
    <3>1. thread' = thread /\ call' = call /\ queue' = queue
      BY <2>2 DEF vars
    <3>2. QueueOK'
      BY <2>2, <3>1 DEF QueueOK
    <3>3. QInv'
      BY <2>2, <3>1 DEF QInv
    <3> QED BY <3>2, <3>3
  <2> QED BY <2>1, <2>2
<1>3. QInv => QueueOrder
  BY DEF QInv, Past, QueueOrder
<1> QED BY <1>1, <1>2, <1>3, SettledAlways, PTL DEF Spec

-----------------------------------------------------------------------------
\* A checkpoint before every user message

Marked(ms) ==
  \A i \in 1 .. Len(ms) :
    ms[i].role = "user" => i > 1 /\ ms[i - 1].role = "checkpoint"

\* What the user stands on: nothing, a checkpoint, or, past the end, a history
\* that ends with one.
StandsOn(ms, idx) ==
  /\ idx # 0 => Len(ms) > 0
  /\ idx \in 1 .. Len(ms) => ms[idx].role = "checkpoint"
  /\ idx > Len(ms) => Rests(ms)

Stood(s) == Marked(s.messages) /\ StandsOn(s.messages, s.currCheckpointIdx)

\* CheckpointBeforeUser, strengthened to be inductive.
MInv ==
  /\ Stood(thread) /\ FlagsRest
  /\ \A u \in Users : Stood(call[u].base)
  /\ \A u \in Users : call[u].stage = "content" => Len(thread.messages) > 0

\* A checkpoint goes with the message behind it.
LEMMA MarkedInherited ==
  ASSUME NEW new, NEW old, Marked(old), Inherits(new, old)
  PROVE  Marked(new)
BY DEF Marked, Inherits

\* A user whose thread shows what a failed run has left stands within its history.
LeftInside == Left(thread.stream) => thread.currCheckpointIdx <= Len(thread.messages)

\* A history that rests has nothing at its end that a refresh would look at.
LEMMA RestsRefresh ==
  ASSUME NEW t \in Thread, Rests(t.messages)
  PROVE  Refresh(t) = t
<1>1. t.messages \in Seq(Message)
  BY DEF Thread
<1>2. ~EndsWithTool(t.messages)
  BY <1>1, Ends, EmptySeq DEF Rests
<1> QED BY <1>2 DEF Refresh

\* A history that grows under a user who stands within it.
LEMMA GrowsStood ==
  ASSUME NEW t \in Thread, NEW t1, Stood(t), Grows(t1, t),
         t.currCheckpointIdx <= Len(t.messages)
  PROVE  Stood(t1)
<1>1. /\ Len(t.messages) \in Nat /\ t.currCheckpointIdx \in Nat /\ t1 \in Thread
      /\ t1.currCheckpointIdx = t.currCheckpointIdx
  BY DEF Grows, Tells, Thread
<1>2. Len(t1.messages) \in Nat
  BY <1>1 DEF Thread
<1>3. Marked(t1.messages)
  BY MarkedInherited DEF Stood, Grows, Tells
<1>4. CASE t.currCheckpointIdx = 0
  BY <1>1, <1>2, <1>3, <1>4 DEF Stood, StandsOn
<1>5. CASE t.currCheckpointIdx # 0
  <2> DEFINE i == t.currCheckpointIdx
  <2>1. i \in 1 .. Len(t.messages)
    BY <1>1, <1>5
  <2>2. t.messages[i].role = "checkpoint"
    BY <2>1 DEF Stood, StandsOn
  <2>3. i \in 1 .. Len(t1.messages) /\ t1.messages[i].role = "checkpoint"
    BY <2>1, <2>2 DEF Grows, Stays
  <2>4. StandsOn(t1.messages, i)
    BY <1>2, <2>3 DEF StandsOn
  <2> QED BY <1>1, <1>3, <2>4 DEF Stood
<1> QED BY <1>4, <1>5

LEMMA GrowsInside ==
  ASSUME NEW t \in Thread, NEW t1, Stood(t), Grows(t1, t),
         t.currCheckpointIdx <= Len(t.messages)
  PROVE  t1.currCheckpointIdx <= Len(t1.messages)
<1>1. /\ Len(t.messages) \in Nat /\ t.currCheckpointIdx \in Nat /\ Len(t1.messages) \in Nat
      /\ t1.currCheckpointIdx = t.currCheckpointIdx
  BY DEF Grows, Tells, Thread
<1>2. CASE t.currCheckpointIdx = 0
  BY <1>1, <1>2
<1>3. CASE t.currCheckpointIdx # 0
  <2>1. t.currCheckpointIdx \in 1 .. Len(t.messages)
    BY <1>1, <1>3
  <2>2. t.messages[t.currCheckpointIdx].role = "checkpoint"
    BY <2>1 DEF Stood, StandsOn
  <2>3. t.currCheckpointIdx \in 1 .. Len(t1.messages)
    BY <2>1, <2>2 DEF Grows, Stays
  <2> QED BY <1>1, <2>3
<1> QED BY <1>2, <1>3

\* A message begins to wait for its content on a thread that rests.
LEMMA EnterStood ==
  ASSUME NEW t \in Thread, Stood(t), Rests(t.messages)
  PROVE  LET t1 == EnterContent(t) IN
         Stood(t1) /\ Rests(t1.messages) /\ Len(t1.messages) > 0
<1>1. /\ EnterContent(t) \in Thread /\ Grows(EnterContent(t), t)
      /\ Rests(EnterContent(t).messages) /\ EnterContent(t).messages # <<>>
  BY EnterContentType, EnterGrows, EnterRests
<1>2. Len(EnterContent(t).messages) > 0
  BY <1>1, EmptySeq DEF Thread
<1>3. CASE t.messages = <<>>
  <2>1. t.currCheckpointIdx = 0
    BY <1>3 DEF Stood, StandsOn
  <2>2. t.currCheckpointIdx <= Len(t.messages)
    BY <1>3, <2>1
  <2> QED BY <1>1, <1>2, <2>2, GrowsStood
<1>4. CASE t.messages # <<>>
  BY <1>1, <1>2, <1>4 DEF EnterContent
<1> QED BY <1>3, <1>4

\* What is left of a history that is cut back to where the user stands.
LEMMA CutStood ==
  ASSUME NEW s, s.messages \in Seq(Message), s.currCheckpointIdx \in Nat \ {0}, Stood(s)
  PROVE  LET ms == UpToCheckpoint(s) IN
         /\ ms \in Seq(Message) /\ Len(ms) > 0 /\ Rests(ms) /\ Marked(ms)
         /\ StandsOn(ms, s.currCheckpointIdx)
<1> DEFINE i == s.currCheckpointIdx
           ms == UpToCheckpoint(s)
<1>1. i \in Nat /\ i > 0 /\ Len(s.messages) \in Nat /\ Len(s.messages) > 0
  BY DEF Stood, StandsOn
<1>2. ms \in Seq(Message) /\ Inherits(ms, s.messages)
  BY SliceInherits DEF UpToCheckpoint
<1>3. Marked(ms)
  BY <1>2, MarkedInherited DEF Stood
<1>4. CASE i > Len(s.messages)
  <2>1. ms = s.messages
    BY <1>4 DEF UpToCheckpoint, Slice
  <2> QED BY <1>1, <1>2, <1>3, <1>4, <2>1 DEF Stood, StandsOn
<1>5. CASE ~(i > Len(s.messages))
  <2>1. ms = SubSeq(s.messages, 1, i)
    BY <1>5 DEF UpToCheckpoint, Slice
  <2>2. i \in 1 .. Len(s.messages)
    BY <1>1, <1>5
  <2>3. Len(ms) = i /\ ms[i] = s.messages[i]
    BY <2>1, <2>2
  <2>4. s.messages[i].role = "checkpoint"
    BY <2>2 DEF Stood, StandsOn
  <2> HIDE DEF ms
  <2>5. Rests(ms)
    BY <1>1, <2>3, <2>4 DEF Rests
  <2>6. StandsOn(ms, i)
    BY <1>1, <2>3, <2>4 DEF StandsOn
  <2> QED BY <1>1, <1>2, <1>3, <2>3, <2>5, <2>6 DEF ms
<1> QED BY <1>4, <1>5

\* Jumping on a thread that rests moves where the user stands, and nothing else.
LEMMA JumpToStood ==
  ASSUME NEW t0 \in Thread, Stood(t0), Rests(t0.messages), Len(t0.messages) > 0, NEW i
  PROVE  LET t == JumpTo(t0, i) IN
         t \in Thread /\ t.messages = t0.messages /\ t.currCheckpointIdx # 0 /\ Stood(t)
<1> DEFINE s == StandOnCheckpoint(t0)
           from == s.currCheckpointIdx
           before == CheckpointsUpTo(s.messages, i)
           k == Max(before)
           s1 == IF from \in CheckpointsUpTo(s.messages, from)
                 THEN Refresh(Store(s, s.messages)) ELSE s
           s2 == Refresh([s1 EXCEPT !.currCheckpointIdx = k])
           n == Len(t0.messages)
<1>1. /\ t0.messages \in Seq(Message) /\ n \in Nat /\ n > 0
      /\ t0.messages # <<>> /\ Last(t0.messages) = t0.messages[n]
      /\ t0.messages[n].role = "checkpoint"
  BY EmptySeq, Ends DEF Thread, Rests
<1>2. ASSUME NEW t \in Thread, t.messages = t0.messages, NEW j \in 1 .. n,
             t0.messages[j].role = "checkpoint"
      PROVE  LET t1 == Refresh([t EXCEPT !.currCheckpointIdx = j]) IN
             t1 \in Thread /\ t1.messages = t0.messages /\ t1.currCheckpointIdx # 0 /\ Stood(t1)
  <2> DEFINE t2 == [t EXCEPT !.currCheckpointIdx = j]
  <2>1. t2 \in Thread /\ t2.messages = t0.messages /\ t2.currCheckpointIdx = j
    BY <1>2 DEF Thread
  <2> HIDE DEF t2
  <2>2. Refresh(t2) = t2
    BY <2>1, RestsRefresh
  <2>3. StandsOn(t2.messages, j) /\ j # 0
    BY <1>1, <1>2, <2>1 DEF StandsOn
  <2>4. Stood(t2)
    BY <2>1, <2>3 DEF Stood
  <2> QED BY <2>1, <2>2, <2>3, <2>4 DEF t2
<1>3. s \in Thread /\ s.messages = t0.messages /\ s.currCheckpointIdx # 0 /\ Stood(s)
  <2>1. CASE t0.currCheckpointIdx # 0
    BY <2>1 DEF StandOnCheckpoint
  <2>2. CASE t0.currCheckpointIdx = 0
    <3>1. s = Refresh([t0 EXCEPT !.currCheckpointIdx = n])
      BY <1>1, <2>2 DEF StandOnCheckpoint
    <3>2. n \in 1 .. n
      BY <1>1
    <3> HIDE DEF s, n
    <3> QED BY <1>1, <1>2, <3>1, <3>2
  <2> QED BY <2>1, <2>2
<1>4. JumpTo(t0, i) = IF before = {} \/ from = k THEN s ELSE s2
  BY DEF JumpTo
<1> HIDE DEF s
<1>5. s1 \in Thread /\ s1.messages = t0.messages
  <2> DEFINE x == Store(s, s.messages)
  <2>1. x \in Thread /\ x.messages = t0.messages
    BY <1>1, <1>3, StoreType
  <2> HIDE DEF x
  <2>2. Refresh(x) = x
    BY <2>1, RestsRefresh
  <2> QED BY <1>3, <2>1, <2>2 DEF x
<1> HIDE DEF s1
<1>6. ASSUME before # {}
      PROVE  k \in 1 .. n /\ t0.messages[k].role = "checkpoint"
  <2>1. before \subseteq 1 .. n /\ \A j \in before : t0.messages[j].role = "checkpoint"
    BY <1>3 DEF CheckpointsUpTo
  <2> HIDE DEF before
  <2>2. k \in before
    BY <1>1, <1>6, <2>1, MaxPosition
  <2> HIDE DEF k
  <2> QED BY <2>1, <2>2
<1> HIDE DEF k, before
<1>7. ASSUME before # {}
      PROVE  s2 \in Thread /\ s2.messages = t0.messages /\ s2.currCheckpointIdx # 0 /\ Stood(s2)
  <2> HIDE DEF n
  <2> QED BY <1>2, <1>5, <1>6, <1>7
<1> HIDE DEF s2
<1> QED BY <1>3, <1>4, <1>7

-----------------------------------------------------------------------------
\* Every step keeps it

\* Nobody is told to stop where nobody works.
LEMMA NobodyFlagged ==
  ASSUME IInv, SInv, LiveIn(runs) = {}
  PROVE  \A r \in Runs : ~Flagged(runs[r])
<1>1. \A r \in Runs : runs[r].pc = "off"
  BY NobodyWorks
<1> QED BY <1>1, WhereFlagged DEF Flagged

\* While the thread shows activity the user stands within its history.
LEMMA RunningInside ==
  ASSUME IInv, SInv, MInv, LeftInside, Running(thread)
  PROVE  thread.currCheckpointIdx <= Len(thread.messages)
<1>1. thread.messages \in Seq(Message) /\ thread.currCheckpointIdx \in Nat
  BY DEF IInv, TypeOK, Thread
<1>2. CASE LiveIn(runs) # {}
  BY <1>2 DEF SInv, Settled, StandsInside
<1>3. CASE Left(thread.stream)
  BY <1>3 DEF LeftInside
<1>4. CASE LiveIn(runs) = {} /\ ~Left(thread.stream)
  <2>1. thread.stream \in Quiet
    BY <1>4, NobodyWorks, StreamFacts DEF Still
  <2>2. thread.stream.isRunning = "awaiting_user"
    BY <2>1 DEF Running, Quiet, NotRunning, AwaitingUser
  <2>3. EndsWith(thread.messages, "tool_request")
    BY <2>2 DEF SInv, Settled, AwaitsOK
  <2>4. EndsWithTool(thread.messages)
    BY <1>1, <2>3, Ends DEF EndsWithRequest
  <2>5. ~Rests(thread.messages)
    BY <1>1, <2>4, Ends, EmptySeq DEF Rests
  <2>6. ~(thread.currCheckpointIdx > Len(thread.messages))
    BY <2>5 DEF MInv, Stood, StandsOn
  <2> QED BY <1>1, <2>6
<1> QED BY <1>2, <1>3, <1>4

LEMMA RunStepMarks ==
  ASSUME IInv, SInv, MInv, NEW r \in Runs, RunStep(r) \/ LLMText(r)
  PROVE  MInv'
<1>1. thread \in Thread /\ runs \in [Runs -> Run] /\ call \in [Users -> Call]
  BY DEF IInv, TypeOK
<1>2. Live(r)
  BY DEF Live, RunStep, LLMText, Prepared, PrepareFails, Superseded, LLMError, Compacted, RetryElapsed,
         LLMFinal, Validated, ToolStarted, ToolFailsToStart, ToolResult, McpResult
<1>3. /\ LiveIn(runs) = {r} /\ WaitingIn(call) = {}
      /\ thread.currCheckpointIdx <= Len(thread.messages)
  BY <1>2, SoleRun
<1>4. \A u \in Users : call[u].stage # "content"
  BY <1>3 DEF WaitingIn
<1>5. \A s \in Runs : s # r => ~Flagged(runs[s])
  <2>1. \A s \in Runs : s # r => runs[s].pc = "off"
    BY <1>3 DEF LiveIn
  <2> QED BY <2>1, WhereFlagged DEF Flagged
<1>6. CASE On(r)
  <2>1. Stood(thread')
    BY <1>1, <1>3, <1>6, GrowsStood DEF On, MInv
  <2>2. Running(thread') \/ Rests(thread'.messages)
    BY <1>6 DEF On, MInv
  <2>3. \A s \in Runs : Flagged(runs'[s]) => Rests(thread'.messages)
    BY <1>5, <1>6 DEF On, MInv
  <2>4. call' = call
    BY <1>6 DEF On
  <2> QED BY <1>4, <2>1, <2>2, <2>3, <2>4 DEF MInv, FlagsRest
<1>7. ASSUME NEW t, NEW p, Finish(r, t, p), Grows(t, thread), Running(t) \/ Rests(t.messages)
      PROVE  MInv'
  <2>1. t \in Thread /\ Stood(t)
    BY <1>1, <1>3, <1>7, GrowsStood DEF Grows, Tells, MInv
  <2>2. \A s \in Runs : ~Flagged(runs'[s])
    <3>1. runs' = [runs EXCEPT ![r] = Off]
      BY <1>7 DEF Finish
    <3>2. runs'[r] = Off /\ \A s \in Runs : s # r => runs'[s] = runs[s]
      BY <1>1, <3>1
    <3> QED BY <1>5, <3>2 DEF Flagged, Off
  <2>3. CASE MayDrain(t, p)
    <3>1. call' = SetStage(Head(queue), "content") /\ thread' = EnterContent(t)
      BY <1>7, <2>3 DEF Finish
    <3>2. Rests(t.messages)
      BY <1>7, <2>3 DEF MayDrain
    <3>3. Stood(thread') /\ Rests(thread'.messages) /\ Len(thread'.messages) > 0
      BY <2>1, <3>1, <3>2, EnterStood
    <3>4. \A u \in Users : call'[u].base = call[u].base
      BY <1>1, <3>1 DEF SetStage, Call
    <3> QED BY <2>2, <3>3, <3>4 DEF MInv, FlagsRest
  <2>4. CASE ~MayDrain(t, p)
    <3>1. thread' = t /\ call' = call
      BY <1>7, <2>4 DEF Finish
    <3> QED BY <1>4, <1>7, <2>1, <2>2, <3>1 DEF MInv, FlagsRest
  <2> QED BY <2>3, <2>4
<1> QED BY <1>6, <1>7, RunStepGrows DEF Back, MInv

\* While a message waits the thread rests, and nobody works on it.
LEMMA WaitingRests ==
  ASSUME IInv, SInv, LeftAlone, MInv, NEW u \in Users, Waiting(u)
  PROVE  /\ Rests(thread.messages) /\ WaitingIn(call) = {u}
         /\ \A r \in Runs : ~Flagged(runs[r])
BY WaitingFacts, WaitingShows, NobodyFlagged DEF MInv, FlagsRest

\* A submission cuts the history where the user stands, and waits for its content.
LEMMA SelectDoneMarks ==
  ASSUME IInv, SInv, LeftAlone, MInv, NEW u \in Users, SelectDone(u)
  PROVE  MInv'
<1> DEFINE base == call[u].base
           ms == UpToCheckpoint(base)
           t0 == [thread EXCEPT !.currCheckpointIdx = base.currCheckpointIdx]
           t1 == Store(t0, ms)
           t == IF base.currCheckpointIdx = 0 THEN thread ELSE Refresh(t1)
<1>1. /\ thread \in Thread /\ call \in [Users -> Call] /\ call[u] \in Call
      /\ base.messages \in Seq(Message) /\ base.currCheckpointIdx \in Nat
  BY DEF IInv, TypeOK, Call, Snapshot
<1>2. thread' = EnterContent(t) /\ Waiting(u) /\ runs' = runs
      /\ call' = [call EXCEPT ![u].stage = "content", ![u].base = NoBase]
  BY DEF SelectDone, Waiting
<1>3. Rests(thread.messages) /\ \A r \in Runs : ~Flagged(runs[r])
  BY <1>2, WaitingRests
<1>4. ASSUME base.currCheckpointIdx # 0
      PROVE  Refresh(t1) \in Thread /\ Stood(Refresh(t1)) /\ Rests(Refresh(t1).messages)
  <2>1. /\ ms \in Seq(Message) /\ Rests(ms) /\ Marked(ms)
        /\ StandsOn(ms, base.currCheckpointIdx)
    <3> HIDE DEF base, ms
    <3>1. Stood(base)
      BY DEF MInv, base
    <3> QED BY <1>1, <1>4, <3>1, CutStood DEF ms
  <2> HIDE DEF ms
  <2>2. t0 \in Thread /\ t0.currCheckpointIdx = base.currCheckpointIdx
    BY <1>1 DEF Thread
  <2> HIDE DEF t0
  <2>3. t1 \in Thread /\ t1.messages = ms /\ t1.currCheckpointIdx = base.currCheckpointIdx
    BY <2>1, <2>2, StoreType DEF Store, Thread
  <2> HIDE DEF t1
  <2>4. Refresh(t1) = t1
    BY <2>1, <2>3, RestsRefresh
  <2> QED BY <2>1, <2>3, <2>4 DEF Stood
<1> HIDE DEF t1
<1>5. t \in Thread /\ Stood(t) /\ Rests(t.messages)
  BY <1>1, <1>3, <1>4 DEF MInv
<1> HIDE DEF t
<1>6. Stood(thread') /\ Rests(thread'.messages) /\ Len(thread'.messages) > 0
  BY <1>2, <1>5, EnterStood
<1>7. \A v \in Users : call'[v].base = NoBase \/ call'[v].base = call[v].base
  BY <1>1, <1>2 DEF Call
<1>8. Stood(NoBase)
  BY DEF NoBase, Stood, Marked, StandsOn
<1> QED BY <1>6, <1>7, <1>8 DEF MInv, FlagsRest

LEMMA ContentDoneMarks ==
  ASSUME IInv, SInv, LeftAlone, MInv, NEW u \in Users, NEW r \in Runs, ContentDone(u, r)
  PROVE  MInv'
<1> DEFINE m == UserMsg(u)
           A == Append(thread.messages, m)
           t0 == Store(thread, A)
           t1 == [Refresh(t0) EXCEPT !.currCheckpointIdx = 0]
           t2 == Refresh(t1)
           t3 == AddUserCheckpoint(t2)
<1>1. /\ call[u].stage = "content" /\ call' = SetStage(u, "sent") /\ Waiting(u)
      /\ thread' = AtLoop(t3, r) /\ runs' = [runs EXCEPT ![r] = Loop(Off)]
  BY DEF ContentDone, AddMessage, Waiting
<1>2. /\ call \in [Users -> Call] /\ thread \in Thread /\ runs \in [Runs -> Run]
      /\ thread.messages \in Seq(Message) /\ Len(thread.messages) \in Nat
  BY DEF IInv, TypeOK, Thread
<1>3. Rests(thread.messages) /\ WaitingIn(call) = {u} /\ \A s \in Runs : ~Flagged(runs[s])
  BY <1>1, WaitingRests
<1>4. Len(thread.messages) > 0 /\ thread.messages[Len(thread.messages)].role = "checkpoint"
  BY <1>1, <1>3, EmptySeq DEF MInv, Rests
<1>5. m \in Message /\ m.role = "user"
  BY MessageTypes DEF UserMsg
<1> HIDE DEF m
<1>6. /\ A \in Seq(Message) /\ Len(A) = Len(thread.messages) + 1
      /\ \A i \in 1 .. Len(thread.messages) : A[i] = thread.messages[i]
  BY <1>2, <1>5
<1> HIDE DEF A
<1>7. Marked(A)
  <2> SUFFICES ASSUME NEW i \in 1 .. Len(A), A[i].role = "user"
               PROVE  i > 1 /\ A[i - 1].role = "checkpoint"
    BY DEF Marked
  <2>1. CASE i = Len(A)
    <3>1. i - 1 = Len(thread.messages) /\ i > 1
      BY <1>2, <1>4, <1>6, <2>1
    <3> QED BY <1>2, <1>4, <1>6, <3>1
  <2>2. CASE i # Len(A)
    <3>1. i \in 1 .. Len(thread.messages) /\ thread.messages[i].role = "user"
      BY <1>2, <1>6, <2>2
    <3>2. i > 1 /\ thread.messages[i - 1].role = "checkpoint"
      BY <3>1 DEF MInv, Stood, Marked
    <3>3. i - 1 \in 1 .. Len(thread.messages)
      BY <1>2, <3>1, <3>2
    <3> QED BY <1>6, <3>2, <3>3
  <2> QED BY <2>1, <2>2
<1>8. t0 \in Thread /\ t0.messages = A
  BY <1>2, <1>6, StoreType
<1> HIDE DEF t0
<1>9. t1 \in Thread /\ Marked(t1.messages) /\ t1.currCheckpointIdx = 0
  <2> DEFINE x == Refresh(t0)
  <2>1. x \in Thread /\ Marked(x.messages)
    BY <1>7, <1>8, RefreshType, RefreshGrows, MarkedInherited DEF Grows, Tells
  <2> HIDE DEF x
  <2>2. /\ [x EXCEPT !.currCheckpointIdx = 0] \in Thread
        /\ [x EXCEPT !.currCheckpointIdx = 0].messages = x.messages
        /\ [x EXCEPT !.currCheckpointIdx = 0].currCheckpointIdx = 0
    BY <2>1 DEF Thread
  <2> QED BY <2>1, <2>2 DEF x
<1> HIDE DEF t1
<1>10. t2 \in Thread /\ Grows(t2, t1)
  BY <1>9, RefreshType, RefreshGrows
<1> HIDE DEF t2
<1>11. t3 \in Thread /\ Grows(t3, t2)
  BY <1>10, AddUserCheckpointType, CheckpointGrows
<1> HIDE DEF t3
<1>12. Grows(thread', t3) /\ Running(thread')
  BY <1>1, <1>11, AtLoopGrows
<1>13. Grows(thread', t1)
  BY <1>10, <1>11, <1>12, GrowsTrans
<1>14. Stood(t1) /\ t1.currCheckpointIdx <= Len(t1.messages)
  BY <1>9 DEF Stood, StandsOn, Thread
<1>15. Stood(thread')
  BY <1>9, <1>13, <1>14, GrowsStood
<1>16. \A s \in Runs : ~Flagged(runs'[s])
  <2>1. runs'[r] = Loop(Off) /\ \A s \in Runs : s # r => runs'[s] = runs[s]
    BY <1>1, <1>2
  <2>2. ~Flagged(Loop(Off))
    BY DEF Flagged, Loop, Off
  <2> QED BY <1>3, <2>1, <2>2
<1>17. \A v \in Users : call'[v].base = call[v].base /\ call'[v].stage # "content"
  <2>1. \A v \in Users : v # u => call'[v] = call[v] /\ call[v].stage # "content"
    BY <1>1, <1>2, <1>3 DEF SetStage, WaitingIn
  <2>2. call'[u].base = call[u].base /\ call'[u].stage = "sent"
    BY <1>1, <1>2 DEF SetStage, Call
  <2> QED BY <2>1, <2>2
<1> QED BY <1>12, <1>15, <1>16, <1>17 DEF MInv, FlagsRest

LEMMA CallStepMarks ==
  ASSUME IInv, SInv, LeftAlone, MInv, NEW u \in Users, CallStep(u)
  PROVE  MInv'
<1>1. CASE ContentFails(u)
  <2>1. thread' = thread /\ runs' = runs /\ call' = SetStage(u, "failed")
    BY <1>1 DEF ContentFails
  <2>2. \A v \in Users : /\ call'[v].base = call[v].base
                         /\ call'[v].stage = "content" => call[v].stage = "content"
    BY <2>1 DEF SetStage, IInv, TypeOK, Call
  <2> QED BY <2>1, <2>2 DEF MInv, FlagsRest
<1> QED BY <1>1, SelectDoneMarks, ContentDoneMarks DEF CallStep

\* A thread that rests and was left to rest.
LEMMA RestingMarks ==
  ASSUME MInv, Stood(thread'), Rests(thread'.messages),
         \A u \in Users : Stood(call'[u].base),
         \A u \in Users : call'[u].stage = "content" => Len(thread'.messages) > 0
  PROVE  MInv'
BY DEF MInv, FlagsRest

\* What the user does, one operation at a time.
LEMMA ApproveMarks ==
  ASSUME IInv, SInv, MInv, LeftInside, NEW r \in Runs, Approve(r)
  PROVE  MInv'
<1> DEFINE id == Last(thread.messages).id
           t == AddUserCheckpoint(thread)
           run == [Off EXCEPT !.pc = ToolPC(turns[id]), !.tool = id, !.first = TRUE]
<1>1. /\ thread' = BeginTool(t, r, id, turns[id]) /\ EndsWithRequest(thread.messages)
      /\ runs' = [runs EXCEPT ![r] = run] /\ call' = call
  BY DEF Approve, MayApprove
<1>2. thread \in Thread /\ thread.messages \in Seq(Message) /\ runs \in [Runs -> Run]
  BY DEF IInv, TypeOK, Thread
<1>3. id \in Turns
  BY <1>1, <1>2, LastTool DEF EndsWithRequest
<1>4. EndsWith(thread.messages, "tool_request")
  BY <1>1, <1>2, Ends
<1>5. LiveIn(runs) = {} /\ WaitingIn(call) = {} /\ Running(thread)
  BY <1>4 DEF SInv, Settled, AwaitsOK, Running
<1>6. (\A s \in Runs : ~Flagged(runs[s])) /\ \A u \in Users : call[u].stage # "content"
  BY <1>5, NobodyFlagged DEF WaitingIn
<1>7. t \in Thread /\ Grows(t, thread)
  BY <1>2, AddUserCheckpointType, CheckpointGrows
<1>8. ~Flagged(run)
  BY DEF Flagged, Off
<1>9. \A s \in Runs : ~Flagged(runs'[s])
  <2> HIDE DEF run
  <2>1. runs'[r] = run /\ \A s \in Runs : s # r => runs'[s] = runs[s]
    BY <1>1, <1>2
  <2> QED BY <1>6, <1>8, <2>1
<1> HIDE DEF id, t, run
<1>10. Grows(thread', t) /\ Running(thread')
  BY <1>1, <1>3, <1>7, BeginToolGrows
<1>11. Grows(thread', thread)
  BY <1>7, <1>10, GrowsTrans
<1>12. Stood(thread')
  BY <1>2, <1>5, <1>11, RunningInside, GrowsStood DEF MInv
<1> QED BY <1>1, <1>6, <1>9, <1>10, <1>12 DEF MInv, FlagsRest

LEMMA StopMarks ==
  ASSUME ~Overlap, IInv, SInv, MInv, LeftInside, NEW cut \in BOOLEAN, Stop(cut)
  PROVE  MInv'
<1> DEFINE t == Halt(thread, cut)
<1>1. thread' \in {t, SetStream(t, NotRunning(FALSE))} /\ call' = call /\ Running(thread)
  BY DEF Stop
<1>2. t \in Thread /\ Grows(t, thread) /\ Rests(t.messages) /\ t.messages # <<>>
  BY HaltGrows
<1> HIDE DEF t
<1>3. Stood(t)
  BY <1>1, <1>2, RunningInside, GrowsStood DEF MInv, IInv, TypeOK
<1>4. Len(t.messages) > 0
  BY <1>2, EmptySeq DEF Thread
<1>5. thread'.messages = t.messages /\ thread'.currCheckpointIdx = t.currCheckpointIdx
  BY <1>1, <1>2, SetStreamGrows, StreamTypes
<1>6. Stood(thread') /\ Rests(thread'.messages) /\ Len(thread'.messages) > 0
  BY <1>2, <1>3, <1>4, <1>5 DEF Stood
<1> QED BY <1>1, <1>6, RestingMarks DEF MInv

LEMMA EditMarks ==
  ASSUME IInv, MInv, NEW i \in 1 .. Len(thread.messages), NEW u \in Users,
         NEW cut \in BOOLEAN, Edit(u, i, cut)
  PROVE  MInv'
<1> DEFINE t == Halt(thread, cut)
           halted == SetStream(t, NotRunning(FALSE))
           ms == Slice(t.messages, i - 1)
           t0 == [halted EXCEPT !.messages = ms]
           t1 == Refresh(t0)
           old == thread.messages
<1>1. thread' = EnterContent(t1) /\ call' = SetStage(u, "content") /\ old[i].role = "user"
  BY DEF Edit
<1>2. t \in Thread /\ Grows(t, thread) /\ t.messages \in Seq(Message)
  BY HaltGrows DEF Thread
<1>3. /\ thread \in Thread /\ old \in Seq(Message) /\ Len(old) \in Nat /\ call \in [Users -> Call]
      /\ thread.currCheckpointIdx \in Nat
  BY DEF IInv, TypeOK, Thread
<1>4. i > 1 /\ old[i - 1].role = "checkpoint"
  BY <1>1 DEF MInv, Stood, Marked
<1>5. i - 1 \in 1 .. Len(old) /\ i - 1 \in Nat
  BY <1>3, <1>4
<1>6. i - 1 \in 1 .. Len(t.messages) /\ t.messages[i - 1].role = "checkpoint"
  BY <1>2, <1>4, <1>5 DEF Grows, Stays
<1> HIDE DEF t
<1>7. /\ halted \in Thread /\ halted.messages = t.messages
      /\ halted.currCheckpointIdx = thread.currCheckpointIdx
  BY <1>2, SetStreamGrows, SetStreamType, StreamTypes DEF Grows
<1> HIDE DEF halted
<1>8. /\ ms \in Seq(Message) /\ Len(ms) = i - 1
      /\ \A j \in 1 .. i - 1 : ms[j] = t.messages[j]
      /\ Inherits(ms, t.messages)
  <2>1. ms = SubSeq(t.messages, 1, i - 1)
    BY <1>2, <1>6 DEF Slice
  <2>2. ms \in Seq(Message) /\ Inherits(ms, t.messages)
    BY <1>2, <1>5, SliceInherits
  <2> HIDE DEF ms
  <2> QED BY <1>2, <1>6, <2>1, <2>2
<1> HIDE DEF ms
<1>9. Rests(ms) /\ Len(ms) > 0
  BY <1>4, <1>6, <1>8 DEF Rests
<1>10. Marked(ms)
  <2>1. Marked(t.messages)
    BY <1>2, MarkedInherited DEF MInv, Stood, Grows, Tells
  <2> QED BY <1>8, <2>1, MarkedInherited
<1>11. StandsOn(ms, thread.currCheckpointIdx)
  <2> DEFINE k == thread.currCheckpointIdx
  <2>1. ASSUME k \in 1 .. Len(ms) PROVE ms[k].role = "checkpoint"
    <3>1. k \in 1 .. Len(old)
      BY <1>3, <1>5, <1>8, <2>1
    <3>2. old[k].role = "checkpoint"
      BY <3>1 DEF MInv, Stood, StandsOn
    <3>3. t.messages[k].role = "checkpoint"
      BY <1>2, <3>1, <3>2 DEF Grows, Stays
    <3> QED BY <1>8, <2>1, <3>3
  <2> QED BY <1>9, <2>1 DEF StandsOn
<1>12. t0 \in Thread /\ t0.messages = ms /\ t0.currCheckpointIdx = thread.currCheckpointIdx
  BY <1>7, <1>8 DEF Thread
<1> HIDE DEF t0
<1>13. t1 = t0
  BY <1>9, <1>12, RestsRefresh
<1> HIDE DEF t1
<1>14. Stood(t1) /\ Rests(t1.messages) /\ t1 \in Thread
  BY <1>9, <1>10, <1>11, <1>12, <1>13 DEF Stood
<1>15. Stood(thread') /\ Rests(thread'.messages) /\ Len(thread'.messages) > 0
  BY <1>1, <1>14, EnterStood
<1>16. \A v \in Users : call'[v].base = call[v].base
  BY <1>1, <1>3 DEF SetStage, Call
<1> QED BY <1>15, <1>16, RestingMarks DEF MInv

LEMMA JumpMarks ==
  ASSUME IInv, MInv, NEW i \in 1 .. Len(thread.messages), Jump(i) \/ Revert(i)
  PROVE  MInv'
<1> DEFINE t == JumpTo(thread, i)
           ms == UpToCheckpoint(t)
           t1 == Store(t, ms)
<1>1. ~Running(thread) /\ call' = call /\ thread' \in {t, Refresh(t1)}
  BY DEF Jump, Revert
<1>2. thread \in Thread /\ Len(thread.messages) > 0
  BY DEF IInv, TypeOK, Thread
<1>3. /\ t \in Thread /\ Stood(t) /\ Rests(t.messages) /\ Len(t.messages) > 0
      /\ t.currCheckpointIdx # 0
  BY <1>1, <1>2, JumpToStood DEF MInv, FlagsRest
<1> HIDE DEF t
<1>4. /\ ms \in Seq(Message) /\ Len(ms) > 0 /\ Rests(ms) /\ Marked(ms)
      /\ StandsOn(ms, t.currCheckpointIdx)
  BY <1>3, CutStood DEF Thread
<1> HIDE DEF ms
<1>5. t1 \in Thread /\ t1.messages = ms /\ t1.currCheckpointIdx = t.currCheckpointIdx
  BY <1>3, <1>4, StoreType DEF Store, Thread
<1> HIDE DEF t1
<1>6. Refresh(t1) = t1
  BY <1>4, <1>5, RestsRefresh
<1>7. Stood(thread') /\ Rests(thread'.messages) /\ Len(thread'.messages) > 0
  BY <1>1, <1>3, <1>4, <1>5, <1>6 DEF Stood
<1> QED BY <1>1, <1>7, RestingMarks DEF MInv

LEMMA UserStepMarks ==
  ASSUME ~Overlap, "reject" \notin UserOps, "restart" \notin UserOps,
         IInv, SInv, MInv, LeftInside, UserStep
  PROVE  MInv'
<1>1. thread \in Thread /\ call \in [Users -> Call] /\ \A v \in Users : call[v] \in Call
  BY DEF IInv, TypeOK
<1>2. ASSUME NEW u \in Users, Submit(u) PROVE MInv'
  <2>1. thread' = thread /\ runs' = runs
    BY <1>2 DEF Submit
  <2>2. \A v \in Users : call'[v].stage = "content" => call[v].stage = "content"
    BY <1>1, <1>2 DEF Submit, Call
  <2>3. Stood(NoBase)
    BY DEF NoBase, Stood, Marked, StandsOn
  <2>4. Stood([messages |-> thread.messages, currCheckpointIdx |-> thread.currCheckpointIdx])
    BY DEF MInv, Stood
  <2>5. \A v \in Users :
          call'[v].base \in {call[v].base, NoBase,
            [messages |-> thread.messages, currCheckpointIdx |-> thread.currCheckpointIdx]}
    BY <1>1, <1>2 DEF Submit, Call
  <2>6. \A v \in Users : Stood(call'[v].base)
    BY <2>3, <2>4, <2>5 DEF MInv
  <2> QED BY <2>1, <2>2, <2>6 DEF MInv, FlagsRest
<1>3. ASSUME NEW u \in Users, Resume(u) PROVE MInv'
  <2>1. thread' = EnterContent(thread) /\ call' = SetStage(u, "content") /\ ~Running(thread)
    BY <1>3 DEF Resume
  <2>2. Stood(thread') /\ Rests(thread'.messages) /\ Len(thread'.messages) > 0
    BY <1>1, <2>1, EnterStood DEF MInv, FlagsRest
  <2>3. \A v \in Users : call'[v].base = call[v].base
    BY <1>1, <2>1 DEF SetStage, Call
  <2> QED BY <2>2, <2>3, RestingMarks DEF MInv
<1>4. ASSUME NEW i \in 1 .. Len(queue), RemoveQueued(i) PROVE MInv'
  <2>1. thread' = thread /\ runs' = runs /\ call' = SetStage(queue[i], "removed")
    BY <1>4 DEF RemoveQueued
  <2>2. \A v \in Users : /\ call'[v].base = call[v].base
                         /\ call'[v].stage = "content" => call[v].stage = "content"
    BY <1>1, <2>1 DEF SetStage, Call
  <2> QED BY <2>1, <2>2 DEF MInv, FlagsRest
<1>5. CASE DismissError
  <2>1. ~Running(thread) /\ thread' = SetStream(thread, NotRunning(FALSE)) /\ call' = call
    BY <1>5, ErrorIsIdle DEF DismissError
  <2>2. thread'.messages = thread.messages /\ thread'.currCheckpointIdx = thread.currCheckpointIdx
    BY <1>1, <2>1, SetStreamGrows, StreamTypes
  <2>3. Stood(thread') /\ Rests(thread'.messages)
    BY <2>1, <2>2 DEF MInv, FlagsRest, Stood
  <2> QED BY <2>1, <2>2, <2>3, RestingMarks DEF MInv
<1>6. CASE TouchThread
  <2>1. thread' = Refresh(thread) /\ runs' = runs /\ call' = call
    BY <1>6 DEF TouchThread
  <2>2. Refresh(thread) = thread
    <3>1. CASE Running(thread)
      BY <3>1 DEF Refresh
    <3>2. CASE ~Running(thread)
      BY <1>1, <3>2, RestsRefresh DEF MInv, FlagsRest
    <3> QED BY <3>1, <3>2
  <2> QED BY <2>1, <2>2 DEF MInv, FlagsRest
<1>7. ~Reject /\ ~Restart
  BY DEF Reject, Restart, Intervene
<1> QED
  BY <1>2, <1>3, <1>4, <1>5, <1>6, <1>7, ApproveMarks, StopMarks, EditMarks, JumpMarks
     DEF UserStep

\* Where the user stands when a run fails, nothing is taken away.
LEMMA LeftInsideNext ==
  ASSUME IInv, SInv, LeftAlone, MInv, LeftInside, Next
  PROVE  LeftInside'
<1> SUFFICES ASSUME Left(thread'.stream)
             PROVE  thread'.currCheckpointIdx <= Len(thread'.messages)
  BY DEF LeftInside
<1>1. thread \in Thread
  BY DEF IInv, TypeOK
<1>2. ASSUME NEW r \in Runs, RunStep(r) \/ LLMText(r)
      PROVE  thread'.currCheckpointIdx <= Len(thread'.messages)
  <2>1. Live(r)
    BY <1>2 DEF Live, RunStep, LLMText, Prepared, PrepareFails, Superseded, LLMError, Compacted,
         RetryElapsed, LLMFinal, Validated, ToolStarted, ToolFailsToStart, ToolResult, McpResult
  <2>2. thread.currCheckpointIdx <= Len(thread.messages)
    BY <2>1, SoleRun
  <2>3. Grows(thread', thread)
    <3>1. CASE On(r)
      BY <3>1 DEF On
    <3>2. CASE Back(r)
      <4>1. PICK t, p : Finish(r, t, p) /\ Grows(t, thread)
        BY <3>2 DEF Back
      <4>2. t \in Thread
        BY <4>1 DEF Grows, Tells
      <4>3. thread' \in {t, EnterContent(t)}
        BY <4>1 DEF Finish
      <4> QED BY <4>1, <4>2, <4>3, EnterGrows, GrowsTrans
    <3> QED BY <1>2, <3>1, <3>2, RunStepGrows
  <2> QED BY <1>1, <2>2, <2>3, GrowsInside DEF MInv
<1>3. ASSUME NEW u \in Users, CallStep(u) PROVE FALSE
  BY <1>3, CallLeavesNone
<1>4. CASE UserStep
  BY <1>4, UserLeavesLeft DEF LeftInside
<1> QED BY <1>2, <1>3, <1>4 DEF Next

\* A checkpoint stands before every user message of a thread whose requests are
\* rejected by Stop, not by their own button, and that is not opened again: the
\* button leaves the rejected tool at the end of an idle thread, and what was
\* stored may end anywhere.
THEOREM CheckpointBeforeUserAlways ==
  ASSUME ~Overlap, "reject" \notin UserOps, "restart" \notin UserOps
  PROVE  Spec => []CheckpointBeforeUser
<1>1. Init => MInv /\ LeftInside
  <2> SUFFICES ASSUME Init PROVE MInv /\ LeftInside
    OBVIOUS
  <2>1. /\ thread.messages = <<>> /\ thread.currCheckpointIdx = 0
        /\ \A r \in Runs : runs[r] = Off
        /\ \A u \in Users : call[u].stage = "unused" /\ call[u].base = NoBase
    BY DEF Init
  <2>2. Stood(thread) /\ Stood(NoBase) /\ Rests(thread.messages)
    BY <2>1 DEF NoBase, Stood, Marked, StandsOn, Rests
  <2>3. ~Left(thread.stream)
    BY DEF Init, NotRunning, Left
  <2> QED BY <2>1, <2>2, <2>3 DEF MInv, FlagsRest, LeftInside
<1>2. /\ IInv /\ SInv /\ LeftAlone /\ MInv /\ LeftInside /\ [Next]_vars
      => MInv' /\ LeftInside'
  <2>1. ASSUME IInv, SInv, LeftAlone, MInv, LeftInside, Next
        PROVE  MInv' /\ LeftInside'
    BY <2>1, RunStepMarks, CallStepMarks, UserStepMarks, LeftInsideNext DEF Next
  <2>2. ASSUME MInv, LeftInside, UNCHANGED vars
        PROVE  MInv' /\ LeftInside'
    <3>1. thread' = thread /\ call' = call /\ runs' = runs
      BY <2>2 DEF vars
    <3> QED BY <2>2, <3>1 DEF MInv, FlagsRest, LeftInside
  <2> QED BY <2>1, <2>2
<1>3. MInv => CheckpointBeforeUser
  BY DEF MInv, Stood, Marked, CheckpointBeforeUser
<1> QED BY <1>1, <1>2, <1>3, LeftAloneAlways, PTL DEF Spec
=============================================================================
