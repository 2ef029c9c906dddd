---------------------------- MODULE WorkModeProofs ----------------------------
(***************************************************************************)
(* Work Mode for any number of windows, schedulers, workflows, items and   *)
(* leases: its types, the mutual exclusion that pending.lock gives as long *)
(* as no lock file is taken for stale, and what rests on it: the queue in  *)
(* pending.json implements PendingQueue, and an item has one holder.  A    *)
(* workflow scheduled once is not lost, whatever locks go stale.           *)
(***************************************************************************)
EXTENDS WorkMode, TLAPS

\* Types are kept because a process has the arguments its next step uses: the
\* workflow at hand, the lease of a claim; and only windows do more than tick.
UsesWorkflow(f) ==
  \/ f.pc = "command" \/ f.call \in {"add", "remove"}
  \/ f.call \in {"tick", "enqueue"}
       /\ f.pc \in {"open", "stat", "rm", "reopen", "load", "save", "release"}
Legal(p) ==
  {f \in Process :
     /\ UsesWorkflow(f) => f.w \in Workflows
     /\ f.pc \in {"each", "command"} => f.call \notin {"add", "remove"}
     /\ f.call = "claim" => f.lease \in Leases
     /\ f.call \notin {"none", "tick"} => p \in Windows}
IInv == TypeOK /\ \A p \in Procs : proc[p] \in Legal(p)

LEMMA IdleLegal == ASSUME NEW p PROVE Idle \in Legal(p) /\ Dead \in Legal(p)
<1>1. Idle \in Process
  BY DEF Idle, Process, PCs, Calls, Store
<1>2. Dead \in Process
  BY <1>1 DEF Dead, Process, PCs
<1> QED BY <1>1, <1>2 DEF Idle, Dead, Legal, UsesWorkflow

LEMMA HandleFields ==
  ASSUME NEW f \in Process, NEW store \in Store, NEW todo \in SUBSET Workflows
  PROVE  LET h == Handle(f, store, todo) IN
         /\ h \in Process
         /\ h.pc \in {"each", "saveTasks"} /\ h.call = f.call /\ h.w = NoOne
         /\ h.lease = f.lease /\ h.item = f.item
<1> DEFINE pc == IF todo = {} THEN "saveTasks" ELSE "each"
           h == [f EXCEPT !.store = store, !.todo = todo, !.w = NoOne, !.pc = pc]
<1>1. pc \in {"each", "saveTasks"} /\ pc \in PCs
  BY DEF PCs
<1>2. Handle(f, store, todo) = h
  BY DEF Handle
<1> HIDE DEF pc
<1>3. h \in Process
  BY <1>1 DEF Process
<1>4. h.pc = pc /\ h.call = f.call /\ h.w = NoOne /\ h.lease = f.lease /\ h.item = f.item
  BY DEF Process
<1> HIDE DEF h
<1> QED BY <1>1, <1>2, <1>3, <1>4

LEMMA HandleLegal ==
  ASSUME NEW p, NEW f \in Legal(p), f.call \notin {"add", "remove"},
         NEW store \in Store, NEW todo \in SUBSET Workflows
  PROVE  Handle(f, store, todo) \in Legal(p)
<1> DEFINE h == Handle(f, store, todo)
<1>1. /\ h \in Process
      /\ h.pc \in {"each", "saveTasks"} /\ h.call = f.call /\ h.w = NoOne
      /\ h.lease = f.lease
  BY HandleFields DEF Legal
<1> HIDE DEF h
<1>2. ~UsesWorkflow(h)
  BY <1>1 DEF UsesWorkflow
<1>3. h \in Legal(p)
  BY <1>1, <1>2 DEF Legal
<1> QED BY <1>3 DEF h

LEMMA MarkType ==
  ASSUME NEW store \in Store, NEW w
  PROVE  Mark(store, w) \in Store
BY DEF Mark, Store

LEMMA SkipBusyLegal ==
  ASSUME NEW p, NEW f \in Legal(p), f.call = "tick"
  PROVE  SkipBusy(f) \in Legal(p)
<1>1. f.store \in Store /\ f.todo \ {f.w} \in SUBSET Workflows
  BY DEF Legal, Process
<1> QED BY <1>1, HandleLegal DEF SkipBusy

\* A step that gives one process a legal record.
LEMMA SetLegal ==
  ASSUME IInv, NEW p \in Procs, NEW f \in Legal(p), Set(p, f)
  PROVE  proc' \in [Procs -> Process] /\ \A q \in Procs : proc'[q] \in Legal(q)
BY DEF IInv, TypeOK, Set, Legal

\* A call starts with a legal record, and changes nothing that is shared.
LEMMA CallInv ==
  ASSUME IInv, WorkAssumption, NEW p \in Procs, NEW name, NEW f,
         [f EXCEPT !.call = name] \in Legal(p), Call(p, name, f)
  PROVE  IInv'
<1>1. proc' \in [Procs -> Process] /\ \A q \in Procs : proc'[q] \in Legal(q)
  BY SetLegal DEF Call
<1>2. ops' \in 0 .. MaxOps
  BY DEF Call, IInv, TypeOK, WorkAssumption
<1> QED BY <1>1, <1>2 DEF Call, IInv, TypeOK, history

\* What the calls of a window and of a scheduler start with.
LEMMA WriteLegal ==
  ASSUME NEW p \in Windows, NEW store \in Store, NEW w \in Workflows,
         NEW name \in {"add", "remove"}
  PROVE  [[Handle(Idle, store, {}) EXCEPT !.w = w] EXCEPT !.call = name]
           \in Legal(p)
<1> DEFINE h == Handle(Idle, store, {})
           f == [h EXCEPT !.w = w]
           g == [f EXCEPT !.call = name]
<1>1. h \in Process /\ h.pc = "saveTasks"
  <2>1. Idle \in Process /\ {} \in SUBSET Workflows
    BY IdleLegal DEF Legal
  <2>2. h \in Process
    BY <2>1, HandleFields
  <2>3. h.pc = "saveTasks"
    BY <2>1 DEF Handle, Process
  <2> QED BY <2>2, <2>3
<1> HIDE DEF h
<1>2. f \in Process /\ f.pc = "saveTasks" /\ f.w = w
  BY <1>1 DEF Process
<1> HIDE DEF f
<1>3. g \in Process /\ g.pc = "saveTasks" /\ g.w = w /\ g.call = name
  BY <1>2 DEF Process, Calls
<1> HIDE DEF g
<1>4. g \in Legal(p)
  BY <1>3 DEF Legal
<1> QED BY <1>4 DEF g, f, h

LEMMA RunLegal ==
  ASSUME NEW p, NEW store \in Store, NEW todo \in SUBSET Workflows,
         NEW name \in {"run", "enqueue", "tick"}, name # "tick" => p \in Windows
  PROVE  [Handle(Idle, store, todo) EXCEPT !.call = name] \in Legal(p)
<1> DEFINE h == Handle(Idle, store, todo)
           g == [h EXCEPT !.call = name]
<1>1. h \in Process /\ h.pc \in {"each", "saveTasks"}
  <2>1. Idle \in Process
    BY IdleLegal DEF Legal
  <2> QED BY <2>1, HandleFields
<1> HIDE DEF h
<1>2. g \in Process /\ g.pc \in {"each", "saveTasks"} /\ g.call = name
  BY <1>1 DEF Process, Calls
<1> HIDE DEF g
<1>3. g \in Legal(p)
  BY <1>2 DEF Legal, UsesWorkflow
<1> QED BY <1>3 DEF g, h

LEMMA ApproveLegal ==
  ASSUME NEW p \in Windows, NEW store \in Store, NEW todo \in SUBSET Workflows,
         NEW item \in ItemIds
  PROVE  [[Handle(Idle, store, todo) EXCEPT !.item = item]
            EXCEPT !.call = "approve"] \in Legal(p)
<1> DEFINE h == Handle(Idle, store, todo)
           f == [h EXCEPT !.item = item]
           g == [f EXCEPT !.call = "approve"]
<1>1. h \in Process /\ h.pc \in {"each", "saveTasks"}
  <2>1. Idle \in Process
    BY IdleLegal DEF Legal
  <2> QED BY <2>1, HandleFields
<1> HIDE DEF h
<1>2. f \in Process /\ f.pc \in {"each", "saveTasks"}
  BY <1>1 DEF Process
<1> HIDE DEF f
<1>3. g \in Process /\ g.pc \in {"each", "saveTasks"} /\ g.call = "approve"
  BY <1>2 DEF Process, Calls
<1> HIDE DEF g
<1>4. g \in Legal(p)
  BY <1>3 DEF Legal, UsesWorkflow
<1> QED BY <1>4 DEF g, f, h

LEMMA WindowIsProc == Windows \subseteq Procs
BY DEF Procs

LEMMA AddInv ==
  ASSUME IInv, WorkAssumption, NEW p \in Windows, NEW w \in Workflows, Add(p, w)
  PROVE  IInv'
<1> DEFINE store == [tasks EXCEPT ![w] = "on"]
           f == [Handle(Idle, store, {}) EXCEPT !.w = w]
<1>1. store \in Store
  BY DEF IInv, TypeOK, Store
<1>2. Call(p, "add", f)
  BY DEF Add
<1> HIDE DEF store
<1>3. [f EXCEPT !.call = "add"] \in Legal(p)
  BY <1>1, WriteLegal
<1> HIDE DEF f
<1> QED BY <1>2, <1>3, CallInv, WindowIsProc

LEMMA RemoveInv ==
  ASSUME IInv, WorkAssumption, NEW p \in Windows, NEW w \in Workflows, Remove(p, w)
  PROVE  IInv'
<1> DEFINE store == [tasks EXCEPT ![w] = "absent"]
           f == [Handle(Idle, store, {}) EXCEPT !.w = w]
<1>1. store \in Store
  BY DEF IInv, TypeOK, Store
<1>2. Call(p, "remove", f)
  BY DEF Remove
<1> HIDE DEF store
<1>3. [f EXCEPT !.call = "remove"] \in Legal(p)
  BY <1>1, WriteLegal
<1> HIDE DEF f
<1> QED BY <1>2, <1>3, CallInv, WindowIsProc

LEMMA RunInv ==
  ASSUME IInv, WorkAssumption, NEW p \in Windows, NEW w \in Workflows, Run(p, w)
  PROVE  IInv'
<1> DEFINE f == Handle(Idle, tasks, {w})
<1>1. tasks \in Store /\ {w} \in SUBSET Workflows
  BY DEF IInv, TypeOK
<1>2. Call(p, "run", f) \/ Call(p, "enqueue", f)
  BY DEF Run
<1>3. /\ [f EXCEPT !.call = "run"] \in Legal(p)
      /\ [f EXCEPT !.call = "enqueue"] \in Legal(p)
  BY <1>1, RunLegal
<1> HIDE DEF f
<1> QED BY <1>2, <1>3, CallInv, WindowIsProc

LEMMA TickInv ==
  ASSUME IInv, WorkAssumption, NEW p \in Procs, Tick(p)
  PROVE  IInv'
<1> DEFINE due == {w \in Workflows : tasks[w] = "on"}
           f == Handle(Idle, tasks, due)
<1>1. tasks \in Store /\ due \in SUBSET Workflows
  BY DEF IInv, TypeOK
<1>2. Call(p, "tick", f)
  BY DEF Tick
<1> HIDE DEF due
<1>3. [f EXCEPT !.call = "tick"] \in Legal(p)
  BY <1>1, RunLegal
<1> HIDE DEF f
<1> QED BY <1>2, <1>3, CallInv

LEMMA ApproveInv ==
  ASSUME IInv, WorkAssumption, NEW p \in Windows, NEW x \in items, Approve(p, x)
  PROVE  IInv'
<1> DEFINE f == [Handle(Idle, tasks, {x.workflow}) EXCEPT !.item = x.id]
<1>1. x.workflow \in Workflows /\ x.id \in ItemIds /\ tasks \in Store
  BY DEF IInv, TypeOK, Item
<1>2. Call(p, "approve", f)
  BY DEF Approve
<1>3. {x.workflow} \in SUBSET Workflows
  BY <1>1
<1>4. [f EXCEPT !.call = "approve"] \in Legal(p)
  BY <1>1, <1>3, ApproveLegal
<1> HIDE DEF f
<1> QED BY <1>2, <1>4, CallInv, WindowIsProc

\* The steps that handle the workflows.
LEMMA StartInv ==
  ASSUME IInv, NEW p \in Procs, Start(p)
  PROVE  IInv'
<1>1. PICK w \in proc[p].todo :
        LET f == [proc[p] EXCEPT !.w = w] IN
        \/ Set(p, [f EXCEPT !.pc = "command"]) /\ UNCHANGED handled
        \/ /\ Set(p, Handle(f, Mark(f.store, w), {}))
           /\ handled' = handled \cup {w}
        \/ Set(p, [f EXCEPT !.pc = "open"]) /\ UNCHANGED handled
  BY DEF Start
<1> DEFINE f == [proc[p] EXCEPT !.w = w]
<1>2. proc[p] \in Legal(p) /\ w \in Workflows /\ proc[p].pc = "each"
  BY DEF IInv, TypeOK, Legal, Process, Start
<1>3. f \in Legal(p) /\ f.call \notin {"add", "remove"} /\ f.w = w
  BY <1>2 DEF Legal, UsesWorkflow, Process
<1> HIDE DEF f
<1>4. Handle(f, Mark(f.store, w), {}) \in Legal(p)
  <2>1. f.store \in Store /\ {} \in SUBSET Workflows
    BY <1>3 DEF Legal, Process
  <2>2. Mark(f.store, w) \in Store
    BY <2>1, MarkType
  <2> QED BY <1>3, <2>1, <2>2, HandleLegal
<1>5. [f EXCEPT !.pc = "command"] \in Legal(p) /\ [f EXCEPT !.pc = "open"] \in Legal(p)
  BY <1>2, <1>3 DEF Legal, UsesWorkflow, Process, PCs
<1>6. proc' \in [Procs -> Process] /\ \A q \in Procs : proc'[q] \in Legal(q)
  BY <1>1, <1>4, <1>5, SetLegal DEF f
<1>7. handled' \subseteq Workflows
  BY <1>1, <1>2 DEF IInv, TypeOK
<1> QED BY <1>6, <1>7 DEF Start, IInv, TypeOK

LEMMA CommandEndsInv ==
  ASSUME IInv, NEW p \in Procs, CommandEnds(p)
  PROVE  IInv'
<1> DEFINE f == proc[p]
<1>1. f \in Legal(p) /\ f.w \in Workflows /\ f.call \notin {"add", "remove"}
  BY DEF IInv, CommandEnds, Legal, UsesWorkflow
<1>2. f.store \in Store /\ f.todo \ {f.w} \in SUBSET Workflows
  BY <1>1 DEF Legal, Process
<1>3. Mark(f.store, f.w) \in Store
  BY <1>2, MarkType
<1>4. /\ Set(p, Handle(f, Mark(f.store, f.w), f.todo \ {f.w}))
      /\ handled' = handled \cup {f.w}
  BY DEF CommandEnds
<1> HIDE DEF f
<1>5. Handle(f, Mark(f.store, f.w), f.todo \ {f.w}) \in Legal(p)
  BY <1>1, <1>2, <1>3, HandleLegal
<1>6. proc' \in [Procs -> Process] /\ \A q \in Procs : proc'[q] \in Legal(q)
  BY <1>4, <1>5, SetLegal
<1>7. handled' \subseteq Workflows
  BY <1>1, <1>4 DEF IInv, TypeOK
<1> QED BY <1>6, <1>7 DEF CommandEnds, IInv, TypeOK

LEMMA SaveTasksInv ==
  ASSUME IInv, NEW p \in Procs, SaveTasks(p)
  PROVE  IInv'
<1> DEFINE f == proc[p]
<1>1. f \in Legal(p) /\ f.store \in Store
  BY DEF IInv, Legal, Process
<1>2. [f EXCEPT !.pc = "open"] \in Legal(p) \/ f.call \notin {"remove", "approve"}
  BY <1>1 DEF Legal, UsesWorkflow, Process, PCs
<1>3. \/ Set(p, [f EXCEPT !.pc = "open"]) /\ f.call \in {"remove", "approve"}
      \/ Set(p, Idle)
  BY DEF SaveTasks
<1>4. proc' \in [Procs -> Process] /\ \A q \in Procs : proc'[q] \in Legal(q)
  BY <1>2, <1>3, SetLegal, IdleLegal
<1>5. tasks' \in Store
  BY <1>1 DEF SaveTasks
<1> QED BY <1>4, <1>5 DEF SaveTasks, IInv, TypeOK

\* The steps at the lock file.
PcLegal == {"open", "stat", "rm", "reopen", "load", "save", "release"}
LEMMA AdvanceLegal ==
  ASSUME NEW p, NEW f \in Legal(p), f.pc \in PcLegal, NEW pc \in PcLegal
  PROVE  [f EXCEPT !.pc = pc] \in Legal(p)
<1> DEFINE g == [f EXCEPT !.pc = pc]
<1>1. g \in Process /\ g.pc = pc /\ g.call = f.call /\ g.w = f.w /\ g.lease = f.lease
  BY DEF Legal, Process, PCs, PcLegal
<1> HIDE DEF g
<1>2. g \in Legal(p)
  BY <1>1 DEF Legal, UsesWorkflow, PcLegal
<1> QED BY <1>2 DEF g

LEMMA BusyInv ==
  ASSUME IInv, NEW p \in Procs, Busy(p)
  PROVE  /\ proc' \in [Procs -> Process] /\ \A q \in Procs : proc'[q] \in Legal(q)
         /\ side' \in [Windows -> Side]
<1>1. proc[p] \in Legal(p)
  BY DEF IInv
<1>2. proc[p].call = "tick" => SkipBusy(proc[p]) \in Legal(p)
  BY <1>1, SkipBusyLegal
<1>3. \E f \in Legal(p) : Set(p, f)
  BY <1>2, IdleLegal DEF Busy
<1>4. Free \in Side
  BY DEF Free, Side
<1>5. side' \in [Windows -> Side]
  BY <1>4 DEF Busy, IInv, TypeOK
<1> QED BY <1>3, <1>5, SetLegal

LEMMA OpenInv ==
  ASSUME IInv, NEW p \in Procs, Open(p)
  PROVE  IInv'
<1>1. proc[p] \in Legal(p) /\ proc[p].pc \in PcLegal
  BY DEF IInv, Open, PcLegal
<1>2. /\ [proc[p] EXCEPT !.pc = "load"] \in Legal(p)
      /\ [proc[p] EXCEPT !.pc = "stat"] \in Legal(p)
  BY <1>1, AdvanceLegal DEF PcLegal
<1>3. CASE Set(p, [proc[p] EXCEPT !.pc = "load"]) /\ lock' = p /\ aged' = FALSE
           /\ UNCHANGED side
  <2>1. proc' \in [Procs -> Process] /\ \A q \in Procs : proc'[q] \in Legal(q)
    BY <1>2, <1>3, SetLegal
  <2> QED BY <1>3, <2>1 DEF Open, IInv, TypeOK, history
<1>4. CASE Set(p, [proc[p] EXCEPT !.pc = "stat"]) /\ UNCHANGED <<lock, aged, side>>
  <2>1. proc' \in [Procs -> Process] /\ \A q \in Procs : proc'[q] \in Legal(q)
    BY <1>2, <1>4, SetLegal
  <2> QED BY <1>4, <2>1 DEF Open, IInv, TypeOK, history
<1>5. CASE Busy(p) /\ UNCHANGED <<lock, aged>>
  BY <1>5, BusyInv DEF Open, IInv, TypeOK, history
<1> QED BY <1>3, <1>4, <1>5 DEF Open

LEMMA StatInv ==
  ASSUME IInv, NEW p \in Procs, Stat(p)
  PROVE  IInv'
<1>1. proc[p] \in Legal(p) /\ proc[p].pc \in PcLegal
  BY DEF IInv, Stat, PcLegal
<1>2. [proc[p] EXCEPT !.pc = "rm"] \in Legal(p)
  BY <1>1, AdvanceLegal DEF PcLegal
<1>3. CASE Set(p, [proc[p] EXCEPT !.pc = "rm"]) /\ UNCHANGED side
  <2>1. proc' \in [Procs -> Process] /\ \A q \in Procs : proc'[q] \in Legal(q)
    BY <1>2, <1>3, SetLegal
  <2> QED BY <1>3, <2>1 DEF Stat, IInv, TypeOK, history
<1>4. CASE Busy(p)
  BY <1>4, BusyInv DEF Stat, IInv, TypeOK, history
<1> QED BY <1>3, <1>4 DEF Stat

LEMMA RemoveStaleLockInv ==
  ASSUME IInv, NEW p \in Procs, RemoveStaleLock(p)
  PROVE  IInv'
<1>1. proc[p] \in Legal(p) /\ proc[p].pc \in PcLegal
  BY DEF IInv, RemoveStaleLock, PcLegal
<1>2. [proc[p] EXCEPT !.pc = "reopen"] \in Legal(p)
  BY <1>1, AdvanceLegal DEF PcLegal
<1>3. proc' \in [Procs -> Process] /\ \A q \in Procs : proc'[q] \in Legal(q)
  BY <1>2, SetLegal DEF RemoveStaleLock
<1> QED BY <1>3 DEF RemoveStaleLock, IInv, TypeOK, history

\* What is read and written under the lock.
LEMMA WriteFoundLegal ==
  ASSUME NEW p, NEW f \in Legal(p), f.pc \in PcLegal, NEW draft \in SUBSET Item,
         NEW found \in BOOLEAN
  PROVE  Write(f, draft) \in Legal(p) /\ Found(f, found) \in Legal(p)
<1>1. \A g : g \in Process /\ g.pc \in PcLegal /\ g.call = f.call /\ g.w = f.w
             /\ g.lease = f.lease => g \in Legal(p)
  BY DEF Legal, UsesWorkflow, PcLegal
<1>2. /\ Write(f, draft) \in Process /\ Write(f, draft).pc \in PcLegal
      /\ Write(f, draft).call = f.call /\ Write(f, draft).w = f.w
      /\ Write(f, draft).lease = f.lease
  BY DEF Write, Legal, Process, PCs, PcLegal
<1>3. /\ Found(f, found) \in Process /\ Found(f, found).pc \in PcLegal
      /\ Found(f, found).call = f.call /\ Found(f, found).w = f.w
      /\ Found(f, found).lease = f.lease
  BY DEF Found, Legal, Process, PCs, PcLegal
<1> QED BY <1>1, <1>2, <1>3

LEMMA FreshType ==
  ASSUME ItemIds \ Taken # {}
  PROVE  Fresh \in ItemIds \ Taken
BY DEF Fresh

LEMMA LoadInv ==
  ASSUME IInv, NEW p \in Procs, Load(p)
  PROVE  IInv'
<1> DEFINE f == proc[p]
           mine == {x \in items : x.id = f.item}
           queued == items \cup {[id |-> Fresh, workflow |-> f.w, claim |-> NoClaim]}
           claimed == (items \ mine) \cup
                        {[x EXCEPT !.claim = ClaimOf(p, f.lease)] : x \in mine}
           kept == {x \in items : x.workflow # f.w}
<1>1. f \in Legal(p) /\ f.pc \in PcLegal /\ items \subseteq Item
  BY DEF IInv, TypeOK, Load, PcLegal
<1>2. f.call \in {"tick", "enqueue"} => queued \in SUBSET Item
  <2>1. Fresh \in ItemIds
    BY FreshType DEF Load
  <2>2. f.call \in {"tick", "enqueue"} => f.w \in Workflows
    BY <1>1 DEF Legal, UsesWorkflow, Load
  <2> QED BY <1>1, <2>1, <2>2 DEF Item
<1>3. f.call = "claim" => claimed \in SUBSET Item
  <2> SUFFICES ASSUME f.call = "claim", NEW x \in mine
               PROVE  [x EXCEPT !.claim = ClaimOf(p, f.lease)] \in Item
    BY <1>1
  <2>1. p \in Windows /\ f.lease \in Leases
    BY <1>1 DEF Legal
  <2>2. ClaimOf(p, f.lease) \in [by : Windows, lease : Leases]
    BY <2>1 DEF ClaimOf
  <2> QED BY <1>1, <2>2 DEF Item
<1>4. items \ mine \in SUBSET Item /\ kept \in SUBSET Item
  BY <1>1
<1>5. \/ Set(p, Found(f, TRUE)) \/ Set(p, Found(f, FALSE))
      \/ f.call \in {"tick", "enqueue"} /\ Set(p, Write(f, queued))
      \/ f.call = "claim" /\ Set(p, Write(f, claimed))
      \/ Set(p, Write(f, items \ mine)) \/ Set(p, Write(f, kept))
  BY DEF Load
<1> HIDE DEF f, mine, queued, claimed, kept
<1>6. PICK g \in Legal(p) : Set(p, g)
  BY <1>1, <1>2, <1>3, <1>4, <1>5, WriteFoundLegal
<1>7. proc' \in [Procs -> Process] /\ \A q \in Procs : proc'[q] \in Legal(q)
  BY <1>6, SetLegal
<1> QED BY <1>7 DEF Load, IInv, TypeOK, history

LEMMA SaveInv ==
  ASSUME IInv, NEW p \in Procs, Save(p)
  PROVE  IInv'
<1>1. proc[p] \in Legal(p) /\ proc[p].pc \in PcLegal
  BY DEF IInv, Save, PcLegal
<1>2. proc[p].draft \subseteq Item
  BY <1>1 DEF Legal, Process
<1>3. Found(proc[p], TRUE) \in Legal(p)
  BY <1>1, WriteFoundLegal
<1>4. proc' \in [Procs -> Process] /\ \A q \in Procs : proc'[q] \in Legal(q)
  BY <1>3, SetLegal DEF Save
<1>5. items' \subseteq Item /\ used' \subseteq ItemIds
  BY <1>2 DEF Save, IInv, TypeOK, Item
<1> QED BY <1>4, <1>5 DEF Save, IInv, TypeOK, history

LEMMA ReleaseInv ==
  ASSUME IInv, NEW p \in Procs, Release(p)
  PROVE  IInv'
<1> DEFINE f == proc[p]
           g == [f EXCEPT !.draft = {}, !.found = FALSE]
           queued == f.call \in {"tick", "enqueue"}
<1>1. f \in Legal(p) /\ f.pc = "release"
  BY DEF IInv, Release
<1>2. queued => f.w \in Workflows
  BY <1>1 DEF Legal, UsesWorkflow
<1>3. queued => Handle(g, Mark(f.store, f.w), f.todo \ {f.w}) \in Legal(p)
  <2> SUFFICES ASSUME queued
               PROVE  Handle(g, Mark(f.store, f.w), f.todo \ {f.w}) \in Legal(p)
    OBVIOUS
  <2>1. /\ g \in Process /\ g.pc = f.pc /\ g.call = f.call /\ g.w = f.w
        /\ g.lease = f.lease
    BY <1>1 DEF Legal, Process
  <2>2. f.store \in Store /\ f.todo \ {f.w} \in SUBSET Workflows
    BY <1>1 DEF Legal, Process
  <2> HIDE DEF g
  <2>3. g \in Legal(p) /\ g.call \notin {"add", "remove"}
    BY <1>1, <2>1 DEF Legal, UsesWorkflow
  <2>4. Mark(f.store, f.w) \in Store
    BY <2>2, MarkType
  <2> QED BY <2>2, <2>3, <2>4, HandleLegal
<1>4. \/ queued /\ Set(p, Handle(g, Mark(f.store, f.w), f.todo \ {f.w}))
      \/ Set(p, Idle)
  BY DEF Release
<1>5. handled' \subseteq Workflows
  BY <1>2 DEF Release, IInv, TypeOK
<1>6. side' \in [Windows -> Side]
  <2>1. side \in [Windows -> Side] /\ Free \in Side
    BY DEF IInv, TypeOK, Free, Side
  <2>2. f.item \in ItemIds \cup {0} /\ f.lease \in Leases \cup {0}
    BY <1>1 DEF Legal, Process
  <2>3. CASE f.call = "claim" /\ f.found
    <3>1. p \in Windows
      BY <1>1, <2>3 DEF Legal
    <3> DEFINE new == [item |-> f.item, lease |-> f.lease,
                       stage |-> IF side[p].stage = "free" THEN "claimed"
                                 ELSE side[p].stage]
    <3>2. new \in Side
      BY <2>1, <2>2, <3>1 DEF Side
    <3>3. side' = [side EXCEPT ![p] = new]
      BY <2>3, <2>1, <3>1 DEF Release
    <3> HIDE DEF new
    <3> QED BY <2>1, <3>2, <3>3
  <2>4. CASE f.call = "ack"
    BY <2>1, <2>4 DEF Release
  <2>5. CASE ~(f.call = "claim" /\ f.found) /\ f.call # "ack"
    BY <2>1, <2>5 DEF Release
  <2> QED BY <2>3, <2>4, <2>5
<1> HIDE DEF f, g, queued
<1>7. proc' \in [Procs -> Process] /\ \A q \in Procs : proc'[q] \in Legal(q)
  BY <1>3, <1>4, IdleLegal, SetLegal
<1> QED BY <1>5, <1>6, <1>7 DEF Release, IInv, TypeOK

\* The poll of a sidebar.
LEMMA SideCallLegal ==
  ASSUME NEW p \in Windows, NEW item \in ItemIds \cup {0}, NEW lease \in Leases
  PROVE  /\ [[Idle EXCEPT !.call = "claim", !.item = item, !.lease = lease]
               EXCEPT !.pc = "open"] \in Legal(p)
         /\ [[Idle EXCEPT !.call = "ack", !.item = item] EXCEPT !.pc = "open"]
               \in Legal(p)
<1> DEFINE f == [[Idle EXCEPT !.call = "claim", !.item = item, !.lease = lease]
                   EXCEPT !.pc = "open"]
           g == [[Idle EXCEPT !.call = "ack", !.item = item] EXCEPT !.pc = "open"]
<1>1. Idle \in Process
  BY IdleLegal DEF Legal
<1>2. f \in Process /\ f.pc = "open" /\ f.call = "claim" /\ f.lease = lease
  BY <1>1 DEF Process, PCs, Calls
<1>3. g \in Process /\ g.pc = "open" /\ g.call = "ack"
  BY <1>1 DEF Process, PCs, Calls
<1> HIDE DEF f, g
<1>4. f \in Legal(p) /\ g \in Legal(p)
  BY <1>2, <1>3 DEF Legal, UsesWorkflow
<1> QED BY <1>4 DEF f, g

LEMMA StartClaimInv ==
  ASSUME IInv, WorkAssumption, NEW p \in Windows, NEW id \in ItemIds \cup {0},
         StartClaim(p, id)
  PROVE  IInv'
<1>1. leases + 1 \in Leases /\ leases' \in 0 .. MaxLeases
  BY DEF IInv, TypeOK, StartClaim, Leases, WorkAssumption
<1>2. [[Idle EXCEPT !.call = "claim", !.item = id, !.lease = leases + 1]
         EXCEPT !.pc = "open"] \in Legal(p)
  BY <1>1, SideCallLegal
<1>3. proc' \in [Procs -> Process] /\ \A q \in Procs : proc'[q] \in Legal(q)
  BY <1>2, SetLegal, WindowIsProc DEF StartClaim, SideCall
<1> QED BY <1>1, <1>3 DEF StartClaim, SideCall, IInv, TypeOK, history

LEMMA PollInv ==
  ASSUME IInv, WorkAssumption, NEW p \in Windows, NEW x \in items, Poll(p, x)
  PROVE  IInv'
<1>1. x.id \in ItemIds
  BY DEF IInv, TypeOK, Item
<1> QED BY <1>1, StartClaimInv DEF Poll

LEMMA RenewInv ==
  ASSUME IInv, WorkAssumption, NEW p \in Windows, Renew(p)
  PROVE  IInv'
<1>1. side[p].item \in ItemIds \cup {0}
  BY DEF IInv, TypeOK, Side
<1> QED BY <1>1, StartClaimInv DEF Renew

LEMMA RunPromptInv ==
  ASSUME IInv, NEW p \in Windows, RunPrompt(p)
  PROVE  IInv'
<1>1. [side[p] EXCEPT !.stage = "ran"] \in Side
  BY DEF IInv, TypeOK, Side
<1>2. side' \in [Windows -> Side]
  BY <1>1 DEF RunPrompt, IInv, TypeOK
<1>3. ran' \in [ItemIds -> SUBSET Windows]
  BY DEF RunPrompt, IInv, TypeOK
<1> QED BY <1>2, <1>3 DEF RunPrompt, IInv, TypeOK

LEMMA AcknowledgeInv ==
  ASSUME IInv, WorkAssumption, NEW p \in Windows, Acknowledge(p)
  PROVE  IInv'
<1> DEFINE f == [[Idle EXCEPT !.call = "ack", !.item = side[p].item] EXCEPT !.pc = "open"]
<1>1. side[p].item \in ItemIds \cup {0}
  BY DEF IInv, TypeOK, Side
<1>2. Idle \in Process
  BY IdleLegal DEF Legal
<1>3. f \in Process /\ f.pc = "open" /\ f.call = "ack"
  BY <1>1, <1>2 DEF Process, PCs, Calls
<1>4. Set(p, f)
  BY DEF Acknowledge, SideCall
<1> HIDE DEF f
<1>5. f \in Legal(p)
  BY <1>3 DEF Legal, UsesWorkflow
<1>6. proc' \in [Procs -> Process] /\ \A q \in Procs : proc'[q] \in Legal(q)
  BY <1>4, <1>5, SetLegal, WindowIsProc
<1> QED BY <1>6 DEF Acknowledge, SideCall, IInv, TypeOK, history

\* Time and failures.
LEMMA FaultInv ==
  ASSUME IInv, WorkAssumption
  PROVE  /\ \A x \in items : Expire(x) => IInv'
         /\ LockAges => IInv'
         /\ \A p \in Procs : Crash(p) => IInv'
<1>1. ASSUME NEW x \in items, Expire(x)
      PROVE  IInv'
  <2>1. x.claim.lease \in Leases
    BY <1>1 DEF IInv, TypeOK, Item, Expire, Active
  <2> QED BY <1>1, <2>1 DEF Expire, IInv, TypeOK, history
<1>2. ASSUME LockAges
      PROVE  IInv'
  BY <1>2 DEF LockAges, IInv, TypeOK, history
<1>3. ASSUME NEW p \in Procs, Crash(p)
      PROVE  IInv'
  <2>1. proc' \in [Procs -> Process] /\ \A q \in Procs : proc'[q] \in Legal(q)
    BY <1>3, IdleLegal, SetLegal DEF Crash
  <2>2. Free \in Side
    BY DEF Free, Side
  <2>3. side' \in [Windows -> Side]
    BY <1>3, <2>2 DEF Crash, IInv, TypeOK
  <2> QED BY <1>3, <2>1, <2>3 DEF Crash, IInv, TypeOK, history
<1> QED BY <1>1, <1>2, <1>3

LEMMA WorkInductive == Spec => []IInv
<1>1. Init => IInv
  <2> SUFFICES ASSUME Init
               PROVE  IInv
    OBVIOUS
  <2>1. Idle \in Process /\ \A p \in Procs : Idle \in Legal(p)
    BY IdleLegal DEF Legal
  <2>2. Free \in Side
    BY DEF Free, Side
  <2>3. tasks \in Store
    BY DEF Init, Store
  <2>4. 0 \in 0 .. MaxOps /\ 0 \in 0 .. MaxLeases
    BY WorkAssumption DEF WorkAssumption
  <2> QED BY <2>1, <2>2, <2>3, <2>4 DEF Init, IInv, TypeOK
<1>2. IInv /\ [Next]_vars => IInv'
  <2> SUFFICES ASSUME IInv, [Next]_vars
               PROVE  IInv'
    OBVIOUS
  <2> USE WorkAssumption
  <2>1. ASSUME NEW p \in Procs, Step(p)
        PROVE  IInv'
    BY <2>1, StartInv, CommandEndsInv, SaveTasksInv, OpenInv, StatInv,
       RemoveStaleLockInv, LoadInv, SaveInv, ReleaseInv DEF Step
  <2>2. ASSUME NEW p \in Windows, NEW w \in Workflows,
               Add(p, w) \/ Remove(p, w) \/ Run(p, w)
        PROVE  IInv'
    BY <2>2, AddInv, RemoveInv, RunInv
  <2>3. ASSUME NEW p \in Windows, NEW x \in items, Approve(p, x) \/ Poll(p, x)
        PROVE  IInv'
    BY <2>3, ApproveInv, PollInv
  <2>4. ASSUME NEW p \in Windows, Renew(p) \/ RunPrompt(p) \/ Acknowledge(p)
        PROVE  IInv'
    BY <2>4, RenewInv, RunPromptInv, AcknowledgeInv
  <2>5. CASE UNCHANGED vars
    BY <2>5 DEF vars, IInv, TypeOK
  <2> QED BY <2>1, <2>2, <2>3, <2>4, <2>5, TickInv, FaultInv DEF Next
<1> QED BY <1>1, <1>2, PTL DEF Spec

\* Every variable of Work Mode keeps its type (forge-work.mjs, Sidebar.tsx).
THEOREM WorkTypeCorrect == Spec => []TypeOK
<1>1. IInv => TypeOK
  BY DEF IInv
<1> QED BY <1>1, WorkInductive, PTL

-----------------------------------------------------------------------------
(***************************************************************************)
(* Mutual exclusion, for any number of processes, if no lock file is taken *)
(* for stale.  It is inductive with two facts: no lock is aged, and nobody *)
(* is about to delete one.                                                 *)
(***************************************************************************)
LockInv ==
  /\ aged = FALSE
  /\ \A p \in Procs : proc[p].pc \notin {"rm", "reopen"}
  /\ LockExclusive

Outside == {"idle", "dead", "each", "command", "saveTasks", "open", "stat"}

\* A process that goes on outside the lock disturbs nobody.
LEMMA OutsideLock ==
  ASSUME TypeOK, LockInv, NEW p \in Procs, NEW f, Set(p, f), f.pc \in Outside,
         UNCHANGED <<lock, aged>>
  PROVE  LockInv'
BY DEF TypeOK, LockInv, LockExclusive, InCriticalSection, Set, Outside

\* A process that stays under the lock keeps it.
LEMMA UnderLock ==
  ASSUME TypeOK, LockInv, NEW p \in Procs, InCriticalSection(p),
         NEW f, Set(p, f), f.pc \in {"save", "release"}, UNCHANGED <<lock, aged>>
  PROVE  LockInv'
BY DEF TypeOK, LockInv, LockExclusive, InCriticalSection, Set

\* The steps that do not touch the lock file.
LEMMA HandleOutside ==
  ASSUME NEW f \in Process, NEW store \in Store, NEW todo \in SUBSET Workflows
  PROVE  Handle(f, store, todo).pc \in Outside
BY HandleFields DEF Outside

LEMMA IdleOutside == Idle \in Process /\ Idle.pc \in Outside /\ Dead.pc \in Outside
<1>1. Idle \in Process
  BY IdleLegal DEF Legal
<1> QED BY <1>1 DEF Idle, Dead, Outside

LEMMA CallOutside ==
  ASSUME TypeOK, LockInv, NEW p \in Procs, NEW name, NEW f \in Process,
         f.pc \in Outside, Call(p, name, f)
  PROVE  LockInv'
<1>1. [f EXCEPT !.call = name].pc \in Outside
  BY DEF Process
<1> QED BY <1>1, OutsideLock DEF Call

LEMMA CallsOutside ==
  ASSUME TypeOK, LockInv
  PROVE  /\ \A p \in Procs : Tick(p) => LockInv'
         /\ \A p \in Windows, w \in Workflows :
              Add(p, w) \/ Remove(p, w) \/ Run(p, w) => LockInv'
         /\ \A p \in Windows, x \in items : Approve(p, x) => LockInv'
<1>1. tasks \in Store
  BY DEF TypeOK
<1> DEFINE h(store, todo) == Handle(Idle, store, todo)
<1>2. \A store \in Store, todo \in SUBSET Workflows :
        h(store, todo) \in Process /\ h(store, todo).pc \in Outside
  BY IdleOutside, HandleFields, HandleOutside
<1> HIDE DEF h
<1>3. ASSUME NEW p \in Procs, Tick(p)
      PROVE  LockInv'
  <2>1. PICK todo \in SUBSET Workflows : Call(p, "tick", h(tasks, todo))
    BY <1>3 DEF Tick, h
  <2> QED BY <1>1, <1>2, <2>1, CallOutside
<1>4. ASSUME NEW p \in Windows, NEW w \in Workflows, Run(p, w)
      PROVE  LockInv'
  <2>1. Call(p, "run", h(tasks, {w})) \/ Call(p, "enqueue", h(tasks, {w}))
    BY <1>4 DEF Run, h
  <2>2. {w} \in SUBSET Workflows
    OBVIOUS
  <2> QED BY <1>1, <1>2, <2>1, <2>2, CallOutside, WindowIsProc
<1>5. ASSUME NEW p \in Windows, NEW w \in Workflows, Add(p, w) \/ Remove(p, w)
      PROVE  LockInv'
  <2>1. PICK store \in Store, name \in {"add", "remove"} :
          Call(p, name, [h(store, {}) EXCEPT !.w = w])
    <3>1. /\ [tasks EXCEPT ![w] = "on"] \in Store
          /\ [tasks EXCEPT ![w] = "absent"] \in Store
      BY <1>1 DEF Store
    <3> QED BY <1>5, <3>1 DEF Add, Remove, h
  <2>2. h(store, {}) \in Process /\ h(store, {}).pc \in Outside
    BY <1>2
  <2>3. /\ [h(store, {}) EXCEPT !.w = w] \in Process
        /\ [h(store, {}) EXCEPT !.w = w].pc \in Outside
    BY <2>2 DEF Process
  <2> QED BY <2>1, <2>3, CallOutside, WindowIsProc
<1>6. ASSUME NEW p \in Windows, NEW x \in items, Approve(p, x)
      PROVE  LockInv'
  <2>1. {x.workflow} \in SUBSET Workflows /\ x.id \in ItemIds
    BY DEF TypeOK, Item
  <2>2. h(tasks, {x.workflow}) \in Process /\ h(tasks, {x.workflow}).pc \in Outside
    BY <1>1, <1>2, <2>1
  <2>3. Call(p, "approve", [h(tasks, {x.workflow}) EXCEPT !.item = x.id])
    BY <1>6 DEF Approve, h
  <2>4. /\ [h(tasks, {x.workflow}) EXCEPT !.item = x.id] \in Process
        /\ [h(tasks, {x.workflow}) EXCEPT !.item = x.id].pc \in Outside
    BY <2>1, <2>2 DEF Process
  <2> QED BY <2>3, <2>4, CallOutside, WindowIsProc
<1> QED BY <1>3, <1>4, <1>5, <1>6

LEMMA HandlingOutside ==
  ASSUME TypeOK, LockInv, NEW p \in Procs, Start(p) \/ CommandEnds(p) \/ SaveTasks(p)
  PROVE  LockInv'
<1> DEFINE f == proc[p]
<1>1. f \in Process /\ f.store \in Store /\ f.todo \in SUBSET Workflows
  BY DEF TypeOK, Process
<1>2. CASE Start(p)
  <2>1. PICK w \in f.todo :
          \/ Set(p, [[f EXCEPT !.w = w] EXCEPT !.pc = "command"])
          \/ Set(p, Handle([f EXCEPT !.w = w], Mark([f EXCEPT !.w = w].store, w), {}))
          \/ Set(p, [[f EXCEPT !.w = w] EXCEPT !.pc = "open"])
    BY <1>2 DEF Start
  <2>2. [f EXCEPT !.w = w] \in Process /\ [f EXCEPT !.w = w].store = f.store
    BY <1>1 DEF Process
  <2>3. Mark(f.store, w) \in Store /\ {} \in SUBSET Workflows
    BY <1>1, MarkType
  <2>4. Handle([f EXCEPT !.w = w], Mark([f EXCEPT !.w = w].store, w), {}).pc \in Outside
    BY <2>2, <2>3, HandleOutside
  <2>5. /\ [[f EXCEPT !.w = w] EXCEPT !.pc = "command"].pc \in Outside
        /\ [[f EXCEPT !.w = w] EXCEPT !.pc = "open"].pc \in Outside
    BY <2>2 DEF Process, Outside
  <2> QED BY <1>2, <2>1, <2>4, <2>5, OutsideLock DEF Start
<1>3. CASE CommandEnds(p)
  <2>1. Mark(f.store, f.w) \in Store /\ f.todo \ {f.w} \in SUBSET Workflows
    BY <1>1, MarkType
  <2>2. Handle(f, Mark(f.store, f.w), f.todo \ {f.w}).pc \in Outside
    BY <1>1, <2>1, HandleOutside
  <2> QED BY <1>3, <2>2, OutsideLock DEF CommandEnds
<1>4. CASE SaveTasks(p)
  <2>1. [f EXCEPT !.pc = "open"].pc \in Outside
    BY <1>1 DEF Process, Outside
  <2> QED BY <1>4, <2>1, IdleOutside, OutsideLock DEF SaveTasks
<1> QED BY <1>2, <1>3, <1>4

LEMMA BusyOutside ==
  ASSUME TypeOK, LockInv, NEW p \in Procs, Busy(p), UNCHANGED <<lock, aged>>
  PROVE  LockInv'
<1> DEFINE f == proc[p]
<1>1. f \in Process /\ f.store \in Store /\ f.todo \ {f.w} \in SUBSET Workflows
  BY DEF TypeOK, Process
<1>2. SkipBusy(f).pc \in Outside
  BY <1>1, HandleOutside DEF SkipBusy
<1> QED BY <1>2, IdleOutside, OutsideLock DEF Busy

\* The steps that do.
LEMMA LockSteps ==
  ASSUME TypeOK, LockInv, WorkAssumption, NEW p \in Procs,
         Open(p) \/ Stat(p) \/ RemoveStaleLock(p) \/ Load(p) \/ Save(p) \/ Release(p)
  PROVE  LockInv'
<1> DEFINE f == proc[p]
<1>1. f \in Process /\ f.pc \notin {"rm", "reopen"} /\ aged = FALSE
  BY DEF TypeOK, LockInv
<1>2. CASE Open(p)
  <2>1. CASE LockFree /\ lock' = p /\ aged' = FALSE /\ Set(p, [f EXCEPT !.pc = "load"])
    <3>1. \A q \in Procs : ~InCriticalSection(q)
      BY <2>1 DEF LockInv, LockExclusive, LockFree, WorkAssumption
    <3>2. [f EXCEPT !.pc = "load"].pc = "load"
      BY <1>1 DEF Process
    <3> QED BY <2>1, <3>1, <3>2
          DEF TypeOK, LockInv, LockExclusive, InCriticalSection, Set
  <2>2. CASE Set(p, [f EXCEPT !.pc = "stat"]) /\ UNCHANGED <<lock, aged>>
    <3>1. [f EXCEPT !.pc = "stat"].pc \in Outside
      BY <1>1 DEF Process, Outside
    <3> QED BY <2>2, <3>1, OutsideLock
  <2>3. CASE Busy(p) /\ UNCHANGED <<lock, aged>>
    BY <2>3, BusyOutside
  <2> QED BY <1>2, <2>1, <2>2, <2>3 DEF Open
<1>3. CASE Stat(p)
  BY <1>1, <1>3, BusyOutside DEF Stat
<1>4. CASE RemoveStaleLock(p)
  BY <1>1, <1>4 DEF RemoveStaleLock
<1>5. CASE Load(p)
  <2>1. InCriticalSection(p)
    BY <1>5 DEF Load, InCriticalSection
  <2>2. PICK draft, found : Set(p, Write(f, draft)) \/ Set(p, Found(f, found))
    BY <1>5 DEF Load
  <2>3. Write(f, draft).pc = "save" /\ Found(f, found).pc = "release"
    BY <1>1 DEF Write, Found, Process
  <2> QED BY <1>5, <2>1, <2>2, <2>3, UnderLock DEF Load
<1>6. CASE Save(p)
  <2>1. InCriticalSection(p)
    BY <1>6 DEF Save, InCriticalSection
  <2>2. Found(f, TRUE).pc = "release"
    BY <1>1 DEF Found, Process
  <2> QED BY <1>6, <2>1, <2>2, UnderLock DEF Save
<1>7. CASE Release(p)
  <2> DEFINE g == [f EXCEPT !.draft = {}, !.found = FALSE]
  <2>1. PICK h : Set(p, h) /\ h.pc \in Outside
    <3>1. g \in Process
      BY <1>1 DEF Process
    <3>2. Mark(f.store, f.w) \in Store /\ f.todo \ {f.w} \in SUBSET Workflows
      BY <1>1, MarkType DEF Process
    <3>3. Set(p, Idle) \/ Set(p, Handle(g, Mark(f.store, f.w), f.todo \ {f.w}))
      BY <1>7 DEF Release
    <3> HIDE DEF g
    <3> QED BY <3>1, <3>2, <3>3, IdleOutside, HandleOutside
  <2>2. \A q \in Procs : InCriticalSection(q) => q = p
    BY <1>7 DEF LockInv, LockExclusive, InCriticalSection, Release
  <2>3. aged' = FALSE
    BY <1>7 DEF Release
  <2> QED BY <2>1, <2>2, <2>3
        DEF TypeOK, LockInv, LockExclusive, InCriticalSection, Set, Outside
<1> QED BY <1>2, <1>3, <1>4, <1>5, <1>6, <1>7

LEMMA SideOutside ==
  ASSUME TypeOK, LockInv, NEW p \in Windows
  PROVE  /\ \A x \in items : Poll(p, x) => LockInv'
         /\ Renew(p) \/ RunPrompt(p) \/ Acknowledge(p) => LockInv'
<1>1. ASSUME NEW f \in Process, SideCall(p, f)
      PROVE  LockInv'
  <2>1. [f EXCEPT !.pc = "open"].pc \in Outside
    BY DEF Process, Outside
  <2> QED BY <1>1, <2>1, OutsideLock, WindowIsProc DEF SideCall
<1>2. ASSUME NEW id \in ItemIds \cup {0}, StartClaim(p, id)
      PROVE  LockInv'
  <2> DEFINE f == [Idle EXCEPT !.call = "claim", !.item = id, !.lease = leases + 1]
  <2>1. leases + 1 \in Leases
    BY <1>2, WorkAssumption DEF StartClaim, TypeOK, Leases, WorkAssumption
  <2>2. f \in Process
    BY <2>1, IdleOutside DEF Process, Calls
  <2>3. SideCall(p, f)
    BY <1>2 DEF StartClaim
  <2> HIDE DEF f
  <2> QED BY <1>1, <2>2, <2>3
<1>3. ASSUME NEW x \in items, Poll(p, x)
      PROVE  LockInv'
  <2>1. x.id \in ItemIds
    BY DEF TypeOK, Item
  <2> QED BY <1>2, <1>3, <2>1 DEF Poll
<1>4. side[p].item \in ItemIds \cup {0}
  BY DEF TypeOK, Side
<1>5. ASSUME Renew(p)
      PROVE  LockInv'
  BY <1>2, <1>4, <1>5 DEF Renew
<1>6. ASSUME RunPrompt(p)
      PROVE  LockInv'
  BY <1>6 DEF RunPrompt, LockInv, LockExclusive, InCriticalSection
<1>7. ASSUME Acknowledge(p)
      PROVE  LockInv'
  <2>1. [Idle EXCEPT !.call = "ack", !.item = side[p].item] \in Process
    BY <1>4, IdleOutside DEF Process, Calls
  <2> QED BY <1>1, <1>7, <2>1 DEF Acknowledge
<1> QED BY <1>3, <1>5, <1>6, <1>7

LEMMA LockInductive ==
  ASSUME "stale" \notin Faults
  PROVE  Spec => []LockInv
<1>1. Init => LockInv
  <2>1. Idle.pc = "idle"
    BY DEF Idle
  <2> QED BY <2>1 DEF Init, LockInv, LockExclusive, InCriticalSection
<1>2. TypeOK /\ LockInv /\ [Next]_vars => LockInv'
  <2> SUFFICES ASSUME TypeOK, LockInv, [Next]_vars
               PROVE  LockInv'
    OBVIOUS
  <2>1. ASSUME NEW p \in Procs, Step(p)
        PROVE  LockInv'
    BY <2>1, HandlingOutside, LockSteps, WorkAssumption DEF Step
  <2>2. ASSUME NEW p \in Procs, Crash(p)
        PROVE  LockInv'
    BY <2>2, IdleOutside, OutsideLock DEF Crash
  <2>3. ASSUME NEW x \in items, Expire(x)
        PROVE  LockInv'
    BY <2>3 DEF Expire, LockInv, LockExclusive, InCriticalSection
  <2>4. ~LockAges
    BY DEF LockAges
  <2>5. CASE UNCHANGED vars
    BY <2>5 DEF vars, LockInv, LockExclusive, InCriticalSection
  <2> QED BY <2>1, <2>2, <2>3, <2>4, <2>5, CallsOutside, SideOutside DEF Next
<1> QED BY <1>1, <1>2, WorkTypeCorrect, PTL DEF Spec

\* One process at a time works on pending.json, if no lock file gets old enough
\* to be taken for stale (acquirePendingLock, withPendingLock).
THEOREM LockExclusion ==
  ASSUME "stale" \notin Faults
  PROVE  Spec => []LockExclusive
<1>1. LockInv => LockExclusive
  BY DEF LockInv
<1> QED BY <1>1, LockInductive, PTL

-----------------------------------------------------------------------------
(***************************************************************************)
(* The queue.  A process that is about to write pending.json has the       *)
(* latest items with one change; ids are unique; and the lease of a claim  *)
(* that is not yet written is nobody else's.                               *)
(***************************************************************************)
IdsOK ==
  /\ \A x, y \in items : x.id = y.id => x = y
  /\ \A x \in items : x.id \in used

\* What was called, where that decides what is written.
CallOK(f) ==
  /\ f.pc \in {"each", "command"} => f.call \in {"tick", "run", "enqueue", "approve"}
  /\ f.pc \in PcLegal => f.call \in {"tick", "enqueue", "claim", "ack", "approve", "remove"}

Claiming(p) == proc[p].call = "claim"
LeasesOK ==
  /\ \A l \in expired : l <= leases
  /\ \A x \in items : x.claim.lease <= leases
  /\ \A p \in Procs : Claiming(p) => proc[p].lease <= leases
  /\ \A p, q \in Procs : Claiming(p) /\ Claiming(q) /\ p # q => proc[p].lease # proc[q].lease
  /\ \A p \in Procs : Claiming(p) /\ proc[p].pc # "release" =>
       /\ proc[p].lease \notin expired
       /\ \A x \in items : x.claim.lease # proc[p].lease

\* The draft is the items after one operation of PendingQueue.
Enqueued(f) ==
  \E id \in ItemIds \ used :
    /\ f.draft = items \cup {[id |-> id, workflow |-> f.w, claim |-> NoClaim]}
    /\ \A x \in items : x.workflow = f.w => x.claim # NoClaim
Claimed(p, f) ==
  \E x \in items :
    /\ x.id = f.item /\ Claimable(x, p)
    /\ f.draft = (items \ {x}) \cup {[x EXCEPT !.claim = ClaimOf(p, f.lease)]}
Acknowledged(f) == \E x \in items : f.draft = items \ {x}
Dropped(f) == f.draft = {x \in items : x.workflow # f.w}

DraftOK(p) ==
  LET f == proc[p] IN
  f.pc = "save" =>
    \/ f.call \in {"tick", "enqueue"} /\ f.w \in Workflows /\ Enqueued(f)
    \/ f.call = "claim" /\ Claimed(p, f)
    \/ f.call \in {"ack", "approve"} /\ Acknowledged(f)
    \/ f.call = "remove" /\ f.w \in Workflows /\ Dropped(f)

QueueInv ==
  /\ IdsOK /\ LeasesOK
  /\ \A p \in Procs : CallOK(proc[p]) /\ DraftOK(p)

-----------------------------------------------------------------------------
(***************************************************************************)
(* The holders.  While the lease of a sidebar runs, the item it works on   *)
(* is either gone or still claimed by it, under that lease or the one it   *)
(* is just renewing the claim with; and whoever has just written a claim   *)
(* finds nobody working on that item under a lease that runs.              *)
(***************************************************************************)
Holds(p) == side[p] # Free /\ side[p].lease \notin expired
Wrote(p) == Claiming(p) /\ proc[p].pc = "release" /\ proc[p].found

HolderInv ==
  /\ \A p \in Windows : side[p] # Free => side[p].item \in used
  /\ \A p \in Procs : Claiming(p) => proc[p].item \in used
  /\ \A p \in Windows : side[p] # Free /\ Claiming(p) => proc[p].item = side[p].item
  /\ \A p \in Procs : Wrote(p) =>
       \A x \in items : x.id = proc[p].item => x.claim = ClaimOf(p, proc[p].lease)
  /\ \A p \in Windows : Holds(p) =>
       \A x \in items : x.id = side[p].item =>
         x.claim.by = p /\ (x.claim.lease = side[p].lease \/ Wrote(p))
  /\ \A p, q \in Windows : Holds(p) /\ Wrote(q) /\ p # q => side[p].item # proc[q].item
  /\ OneHolder

-----------------------------------------------------------------------------
(***************************************************************************)
(* Most steps: process p goes on as f, and nothing is written.             *)
(***************************************************************************)
GoesOn(p, f) ==
  /\ Set(p, f) /\ f.pc # "save" /\ CallOK(f)
  /\ f.call = "claim" =>
       /\ Claiming(p) /\ proc[p].pc # "release"
       /\ f.item = proc[p].item /\ f.lease = proc[p].lease
       /\ f.pc = "release" => ~f.found
Queues == <<items, expired, used, leases>>
Quiet(p) == (\E f : GoesOn(p, f)) /\ UNCHANGED Queues

\* Who is meant by proc'.
LEMMA SetProc ==
  ASSUME IInv, NEW p \in Procs, NEW f, Set(p, f)
  PROVE  proc'[p] = f /\ \A q \in Procs \ {p} : proc'[q] = proc[q]
BY DEF IInv, TypeOK, Set

LEMMA ProcessQueue ==
  ASSUME IInv, QueueInv, NEW p \in Procs, NEW f, Set(p, f), UNCHANGED Queues, CallOK(f),
         f.call = "claim" => /\ Claiming(p) /\ f.lease = proc[p].lease
                             /\ f.pc # "release" => proc[p].pc # "release",
         DraftOK(p)'
  PROVE  QueueInv'
<1>1. proc'[p] = f /\ \A q \in Procs \ {p} : proc'[q] = proc[q]
  BY SetProc
<1>2. items' = items /\ expired' = expired /\ used' = used /\ leases' = leases
  BY DEF Queues
<1>3. IdsOK'
  BY <1>2 DEF QueueInv, IdsOK
<1>4. LeasesOK'
  <2>1. /\ \A l \in expired : l <= leases
        /\ \A x \in items : x.claim.lease <= leases
    BY DEF QueueInv, LeasesOK
  <2>2. \A q \in Procs : Claiming(q)' =>
          /\ Claiming(q) /\ proc'[q].lease = proc[q].lease
          /\ proc'[q].pc # "release" => proc[q].pc # "release"
    BY <1>1 DEF Claiming
  <2> QED BY <1>2, <2>1, <2>2 DEF QueueInv, LeasesOK, Claiming
<1>5. \A q \in Procs : CallOK(proc[q])'
  BY <1>1 DEF QueueInv, CallOK
<1>6. ASSUME NEW q \in Procs \ {p}
      PROVE  DraftOK(q)'
  <2>1. proc'[q] = proc[q] /\ DraftOK(q)
    BY <1>1 DEF QueueInv
  <2> QED BY <1>2, <2>1 DEF DraftOK, Enqueued, Claimed, Acknowledged, Dropped, Claimable, Active
<1> QED BY <1>3, <1>4, <1>5, <1>6 DEF QueueInv

LEMMA QuietQueue ==
  ASSUME IInv, QueueInv, NEW p \in Procs, Quiet(p)
  PROVE  QueueInv'
<1>1. PICK f : GoesOn(p, f)
  BY DEF Quiet
<1>2. DraftOK(p)'
  BY <1>1, SetProc DEF DraftOK, GoesOn
<1> QED BY <1>1, <1>2, ProcessQueue DEF GoesOn, Quiet

\* Idle processes, dead ones, and those that handle workflows are not writing.
LEMMA RestsOK ==
  ASSUME NEW p \in Procs, NEW f \in {Idle, Dead}, Set(p, f)
  PROVE  GoesOn(p, f)
<1>1. Idle \in Process /\ Idle.pc = "idle" /\ Idle.call = "none"
  BY IdleLegal DEF Legal, Idle
<1>2. Dead.pc = "dead" /\ Dead.call = "none"
  BY <1>1 DEF Dead, Process
<1> QED BY <1>1, <1>2 DEF GoesOn, CallOK, PcLegal

LEMMA HandlesOK ==
  ASSUME NEW p \in Procs, NEW f \in Process, NEW store \in Store, NEW todo \in SUBSET Workflows,
         f.call \in {"tick", "run", "enqueue", "approve"}, Set(p, Handle(f, store, todo))
  PROVE  GoesOn(p, Handle(f, store, todo))
<1>1. /\ Handle(f, store, todo).pc \in {"each", "saveTasks"}
      /\ Handle(f, store, todo).call = f.call
  BY HandleFields
<1> QED BY <1>1 DEF GoesOn, CallOK, PcLegal

LEMMA CallQuiet ==
  ASSUME NEW p \in Procs, NEW name, NEW f \in Process, Call(p, name, f),
         \/ f.pc = "saveTasks" /\ name \in {"add", "remove"}
         \/ f.pc \in {"each", "saveTasks"} /\ name \in {"tick", "run", "enqueue", "approve"}
  PROVE  Quiet(p)
<1> DEFINE g == [f EXCEPT !.call = name]
<1>1. g.pc = f.pc /\ g.call = name
  BY DEF Process
<1>2. Set(p, g) /\ UNCHANGED Queues
  BY DEF Call, Queues
<1> HIDE DEF g
<1>3. GoesOn(p, g)
  BY <1>1, <1>2 DEF GoesOn, CallOK, PcLegal
<1> QED BY <1>2, <1>3 DEF Quiet

LEMMA CallsQuiet ==
  ASSUME TypeOK
  PROVE  /\ \A p \in Procs : Tick(p) => Quiet(p)
         /\ \A p \in Windows, w \in Workflows :
              Add(p, w) \/ Remove(p, w) \/ Run(p, w) => Quiet(p)
         /\ \A p \in Windows, x \in items : Approve(p, x) => Quiet(p)
<1>1. tasks \in Store
  BY DEF TypeOK
<1> DEFINE h(store, todo) == Handle(Idle, store, todo)
<1>2. \A store \in Store, todo \in SUBSET Workflows :
        h(store, todo) \in Process /\ h(store, todo).pc \in {"each", "saveTasks"}
  BY IdleOutside, HandleFields
<1>3. \A store \in Store : h(store, {}).pc = "saveTasks"
  BY IdleOutside DEF Handle, Process
<1> HIDE DEF h
<1>4. ASSUME NEW p \in Procs, Tick(p)
      PROVE  Quiet(p)
  <2>1. PICK todo \in SUBSET Workflows : Call(p, "tick", h(tasks, todo))
    BY <1>4 DEF Tick, h
  <2> QED BY <1>1, <1>2, <2>1, CallQuiet
<1>5. ASSUME NEW p \in Windows, NEW w \in Workflows, Run(p, w)
      PROVE  Quiet(p)
  <2>1. Call(p, "run", h(tasks, {w})) \/ Call(p, "enqueue", h(tasks, {w}))
    BY <1>5 DEF Run, h
  <2>2. {w} \in SUBSET Workflows
    OBVIOUS
  <2> QED BY <1>1, <1>2, <2>1, <2>2, CallQuiet, WindowIsProc
<1>6. ASSUME NEW p \in Windows, NEW w \in Workflows, Add(p, w) \/ Remove(p, w)
      PROVE  Quiet(p)
  <2>1. PICK store \in Store, name \in {"add", "remove"} :
          Call(p, name, [h(store, {}) EXCEPT !.w = w])
    <3>1. /\ [tasks EXCEPT ![w] = "on"] \in Store
          /\ [tasks EXCEPT ![w] = "absent"] \in Store
      BY <1>1 DEF Store
    <3> QED BY <1>6, <3>1 DEF Add, Remove, h
  <2>2. h(store, {}) \in Process /\ h(store, {}).pc = "saveTasks"
    BY <1>2, <1>3
  <2>3. /\ [h(store, {}) EXCEPT !.w = w] \in Process
        /\ [h(store, {}) EXCEPT !.w = w].pc = "saveTasks"
    BY <2>2 DEF Process
  <2> QED BY <2>1, <2>3, CallQuiet, WindowIsProc
<1>7. ASSUME NEW p \in Windows, NEW x \in items, Approve(p, x)
      PROVE  Quiet(p)
  <2>1. {x.workflow} \in SUBSET Workflows /\ x.id \in ItemIds
    BY DEF TypeOK, Item
  <2>2. /\ h(tasks, {x.workflow}) \in Process
        /\ h(tasks, {x.workflow}).pc \in {"each", "saveTasks"}
    BY <1>1, <1>2, <2>1
  <2>3. Call(p, "approve", [h(tasks, {x.workflow}) EXCEPT !.item = x.id])
    BY <1>7 DEF Approve, h
  <2>4. /\ [h(tasks, {x.workflow}) EXCEPT !.item = x.id] \in Process
        /\ [h(tasks, {x.workflow}) EXCEPT !.item = x.id].pc \in {"each", "saveTasks"}
    BY <2>1, <2>2 DEF Process
  <2> QED BY <2>3, <2>4, CallQuiet, WindowIsProc
<1> QED BY <1>4, <1>5, <1>6, <1>7

LEMMA HandlingQuiet ==
  ASSUME IInv, QueueInv, NEW p \in Procs, Start(p) \/ CommandEnds(p) \/ SaveTasks(p)
  PROVE  Quiet(p)
<1> DEFINE f == proc[p]
<1>1. f \in Process /\ f.store \in Store /\ f.todo \in SUBSET Workflows /\ CallOK(f)
  BY DEF IInv, TypeOK, Process, QueueInv
<1>2. UNCHANGED Queues
  BY DEF Start, CommandEnds, SaveTasks, Queues
<1>3. CASE Start(p)
  <2>1. f.call \in {"tick", "run", "enqueue", "approve"}
    BY <1>1, <1>3 DEF Start, CallOK
  <2>2. PICK w \in f.todo :
          \/ Set(p, [[f EXCEPT !.w = w] EXCEPT !.pc = "command"])
          \/ Set(p, Handle([f EXCEPT !.w = w], Mark([f EXCEPT !.w = w].store, w), {}))
          \/ /\ [f EXCEPT !.w = w].call \notin {"approve", "run"}
             /\ Set(p, [[f EXCEPT !.w = w] EXCEPT !.pc = "open"])
    BY <1>3 DEF Start
  <2> DEFINE g == [f EXCEPT !.w = w]
  <2>3. g \in Process /\ g.store = f.store /\ g.call = f.call
    BY <1>1 DEF Process
  <2>4. Mark(f.store, w) \in Store /\ {} \in SUBSET Workflows
    BY <1>1, MarkType
  <2>5. /\ [g EXCEPT !.pc = "command"].pc = "command" /\ [g EXCEPT !.pc = "command"].call = f.call
        /\ [g EXCEPT !.pc = "open"].pc = "open" /\ [g EXCEPT !.pc = "open"].call = f.call
    BY <2>3 DEF Process
  <2> HIDE DEF f, g
  <2>6. \A h : h.pc = "command" /\ h.call = f.call /\ Set(p, h) => GoesOn(p, h)
    BY <2>1 DEF GoesOn, CallOK, PcLegal
  <2>7. \A h : h.pc = "open" /\ h.call = f.call /\ f.call \notin {"approve", "run"} /\ Set(p, h)
               => GoesOn(p, h)
    BY <2>1 DEF GoesOn, CallOK, PcLegal
  <2>8. \E h : GoesOn(p, h)
    <3>1. CASE Set(p, [g EXCEPT !.pc = "command"])
      BY <2>5, <2>6, <3>1
    <3>2. CASE Set(p, Handle(g, Mark(f.store, w), {}))
      BY <2>1, <2>3, <2>4, <3>2, HandlesOK
    <3>3. CASE g.call \notin {"approve", "run"} /\ Set(p, [g EXCEPT !.pc = "open"])
      BY <2>3, <2>5, <2>7, <3>3
    <3> QED BY <2>2, <2>3, <3>1, <3>2, <3>3 DEF g
  <2> QED BY <1>2, <2>8 DEF Quiet
<1>4. CASE CommandEnds(p)
  <2>1. f.call \in {"tick", "run", "enqueue", "approve"}
    BY <1>1, <1>4 DEF CommandEnds, CallOK
  <2>2. Mark(f.store, f.w) \in Store /\ f.todo \ {f.w} \in SUBSET Workflows
    BY <1>1, MarkType
  <2>3. Set(p, Handle(f, Mark(f.store, f.w), f.todo \ {f.w}))
    BY <1>4 DEF CommandEnds
  <2>4. GoesOn(p, Handle(f, Mark(f.store, f.w), f.todo \ {f.w}))
    BY <1>1, <2>1, <2>2, <2>3, HandlesOK
  <2> QED BY <1>2, <2>4 DEF Quiet
<1>5. CASE SaveTasks(p)
  <2> DEFINE g == [f EXCEPT !.pc = "open"]
  <2>1. g.pc = "open" /\ g.call = f.call
    BY <1>1 DEF Process
  <2>2. (Set(p, g) /\ f.call \in {"remove", "approve"}) \/ Set(p, Idle)
    BY <1>5 DEF SaveTasks
  <2> HIDE DEF f, g
  <2>3. Set(p, g) /\ f.call \in {"remove", "approve"} => GoesOn(p, g)
    BY <2>1 DEF GoesOn, CallOK, PcLegal
  <2>4. Set(p, Idle) => GoesOn(p, Idle)
    BY RestsOK
  <2> QED BY <1>2, <2>2, <2>3, <2>4 DEF Quiet
<1> QED BY <1>3, <1>4, <1>5

\* At the lock file.
LEMMA AdvanceOK ==
  ASSUME IInv, QueueInv, NEW p \in Procs, proc[p].pc \in PcLegal \ {"release"},
         NEW pc \in {"open", "stat", "rm", "reopen", "load"}, Set(p, [proc[p] EXCEPT !.pc = pc])
  PROVE  GoesOn(p, [proc[p] EXCEPT !.pc = pc])
<1> DEFINE g == [proc[p] EXCEPT !.pc = pc]
<1>1. proc[p] \in Process /\ CallOK(proc[p])
  BY DEF IInv, TypeOK, QueueInv
<1>2. g.pc = pc /\ g.call = proc[p].call /\ g.item = proc[p].item /\ g.lease = proc[p].lease
  BY <1>1 DEF Process
<1>3. Set(p, g)
  OBVIOUS
<1> HIDE DEF g
<1>4. GoesOn(p, g)
  BY <1>1, <1>2, <1>3 DEF GoesOn, CallOK, PcLegal, Claiming
<1> QED BY <1>4 DEF g

LEMMA BusyOK ==
  ASSUME IInv, NEW p \in Procs, Busy(p)
  PROVE  \E f : GoesOn(p, f)
<1>1. proc[p] \in Process /\ proc[p].store \in Store /\ proc[p].todo \ {proc[p].w} \in SUBSET Workflows
  BY DEF IInv, TypeOK, Process
<1>2. CASE proc[p].call = "tick" /\ Set(p, SkipBusy(proc[p]))
  BY <1>1, <1>2, HandlesOK DEF SkipBusy
<1>3. CASE Set(p, Idle)
  BY <1>3, RestsOK
<1> QED BY <1>2, <1>3 DEF Busy

LEMMA LockFileQuiet ==
  ASSUME IInv, QueueInv, NEW p \in Procs, Open(p) \/ Stat(p) \/ RemoveStaleLock(p)
  PROVE  Quiet(p)
<1>1. UNCHANGED Queues
  BY DEF Open, Stat, RemoveStaleLock, Queues
<1>2. proc[p].pc \in PcLegal \ {"release"}
  BY DEF Open, Stat, RemoveStaleLock, PcLegal
<1>3. \/ \E pc \in {"open", "stat", "rm", "reopen", "load"} : Set(p, [proc[p] EXCEPT !.pc = pc])
      \/ Busy(p)
  BY DEF Open, Stat, RemoveStaleLock
<1> QED BY <1>1, <1>2, <1>3, AdvanceOK, BusyOK DEF Quiet

LEMMA ReleaseQuiet ==
  ASSUME IInv, QueueInv, NEW p \in Procs, Release(p)
  PROVE  Quiet(p)
<1> DEFINE f == proc[p]
           g == [f EXCEPT !.draft = {}, !.found = FALSE]
<1>1. f \in Process
  BY DEF IInv, TypeOK
<1>2. g \in Process /\ g.call = f.call
  BY <1>1 DEF Process
<1>3. Mark(f.store, f.w) \in Store /\ f.todo \ {f.w} \in SUBSET Workflows
  BY <1>1, MarkType DEF Process
<1>4. UNCHANGED Queues
  BY DEF Release, Queues
<1>5. \/ f.call \in {"tick", "enqueue"} /\ Set(p, Handle(g, Mark(f.store, f.w), f.todo \ {f.w}))
      \/ Set(p, Idle)
  BY DEF Release
<1> HIDE DEF f, g
<1>6. \E h : GoesOn(p, h)
  BY <1>2, <1>3, <1>5, HandlesOK, RestsOK
<1> QED BY <1>4, <1>6 DEF Quiet

LEMMA SideQuiet ==
  ASSUME IInv, NEW p \in Procs
  PROVE  /\ Crash(p) => Quiet(p)
         /\ p \in Windows => (Acknowledge(p) => Quiet(p))
<1>1. ASSUME Crash(p)
      PROVE  Quiet(p)
  BY <1>1, RestsOK DEF Crash, Quiet, Queues
<1>2. ASSUME p \in Windows, Acknowledge(p)
      PROVE  Quiet(p)
  <2> DEFINE f == [[Idle EXCEPT !.call = "ack", !.item = side[p].item] EXCEPT !.pc = "open"]
  <2>1. side[p].item \in ItemIds \cup {0}
    BY <1>2 DEF IInv, TypeOK, Side
  <2>2. f.pc = "open" /\ f.call = "ack"
    BY <2>1, IdleOutside DEF Process
  <2>3. Set(p, f) /\ UNCHANGED Queues
    BY <1>2 DEF Acknowledge, SideCall, Queues
  <2> HIDE DEF f
  <2>4. GoesOn(p, f)
    BY <2>2, <2>3 DEF GoesOn, CallOK, PcLegal
  <2> QED BY <2>3, <2>4 DEF Quiet
<1> QED BY <1>1, <1>2

\* Under the lock: what is read is either left alone, or changed by the one
\* operation that was called.
LEMMA LoadCases ==
  ASSUME IInv, QueueInv, NEW p \in Procs, Load(p)
  PROVE  \/ Quiet(p)
         \/ \E draft : /\ Set(p, Write(proc[p], draft)) /\ UNCHANGED Queues
                       /\ DraftOK(p)'
<1> DEFINE f == proc[p]
           mine == {x \in items : x.id = f.item}
           queued == items \cup {[id |-> Fresh, workflow |-> f.w, claim |-> NoClaim]}
           claimed == (items \ mine) \cup
                        {[x EXCEPT !.claim = ClaimOf(p, f.lease)] : x \in mine}
           kept == {x \in items : x.workflow # f.w}
<1>1. f \in Process /\ f \in Legal(p) /\ CallOK(f) /\ f.pc = "load"
  BY DEF IInv, TypeOK, QueueInv, Load
<1>2. f.call \in {"tick", "enqueue", "claim", "ack", "approve", "remove"}
  BY <1>1 DEF CallOK, PcLegal
<1>3. f.call \in {"tick", "enqueue", "remove"} => f.w \in Workflows
  BY <1>1 DEF Legal, UsesWorkflow
<1>4. UNCHANGED Queues
  BY DEF Load, Queues
<1>5. \A b \in BOOLEAN : Set(p, Found(f, b)) /\ (f.call = "claim" => b = FALSE) => Quiet(p)
  <2> SUFFICES ASSUME NEW b \in BOOLEAN, Set(p, Found(f, b)), f.call = "claim" => b = FALSE
               PROVE  Quiet(p)
    OBVIOUS
  <2>1. /\ Found(f, b).pc = "release" /\ Found(f, b).call = f.call /\ Found(f, b).item = f.item
        /\ Found(f, b).lease = f.lease /\ Found(f, b).found = b
    BY <1>1 DEF Found, Process
  <2>2. GoesOn(p, Found(f, b))
    BY <1>1, <1>2, <2>1 DEF GoesOn, CallOK, PcLegal, Claiming
  <2> QED BY <1>4, <2>2 DEF Quiet
<1>6. ASSUME NEW draft, Set(p, Write(f, draft))
      PROVE  /\ proc'[p].pc = "save" /\ proc'[p].call = f.call /\ proc'[p].w = f.w
             /\ proc'[p].item = f.item /\ proc'[p].lease = f.lease /\ proc'[p].draft = draft
  <2>1. proc'[p] = Write(f, draft)
    BY <1>6, SetProc
  <2> QED BY <1>1, <2>1 DEF Write, Process
<1>7. items' = items /\ used' = used /\ expired' = expired
  BY <1>4 DEF Queues
<1>8. CASE f.call \in {"tick", "enqueue"}
  <2>1. CASE Set(p, Found(f, TRUE))
    BY <1>5, <1>8, <2>1
  <2>2. CASE Waiting(f.w) = {} /\ Set(p, Write(f, queued))
    <3>1. Fresh \in ItemIds \ used
      BY FreshType DEF Load, Taken
    <3>2. \A x \in items : x.workflow = f.w => x.claim # NoClaim
      BY <2>2 DEF Waiting, Active
    <3>3. Enqueued(proc[p])' /\ proc'[p].w \in Workflows
      BY <1>3, <1>6, <1>7, <1>8, <2>2, <3>1, <3>2 DEF Enqueued
    <3>4. DraftOK(p)'
      BY <1>6, <1>8, <2>2, <3>3 DEF DraftOK
    <3> QED BY <1>4, <2>2, <3>4
  <2> QED BY <1>8, <2>1, <2>2 DEF Load
<1>9. CASE f.call = "claim"
  <2>1. CASE Set(p, Found(f, FALSE))
    BY <1>5, <2>1
  <2>2. CASE (\E x \in mine : Claimable(x, p)) /\ Set(p, Write(f, claimed))
    <3>1. PICK x \in mine : Claimable(x, p)
      BY <2>2
    <3>2. mine = {x}
      BY <3>1 DEF QueueInv, IdsOK
    <3>3. claimed = (items \ {x}) \cup {[x EXCEPT !.claim = ClaimOf(p, f.lease)]}
      BY <3>2
    <3>4. x \in items' /\ Claimable(x, p)' /\ x.id = f.item
      BY <1>7, <3>1 DEF Claimable, Active
    <3> HIDE DEF claimed, mine
    <3>5. Claimed(p, proc[p])'
      BY <1>6, <1>7, <2>2, <3>3, <3>4 DEF Claimed
    <3>6. DraftOK(p)'
      BY <1>6, <1>9, <2>2, <3>5 DEF DraftOK
    <3> QED BY <1>4, <2>2, <3>6
  <2> QED BY <1>9, <2>1, <2>2 DEF Load
<1>10. CASE f.call \in {"ack", "approve"}
  <2>1. CASE Set(p, Found(f, FALSE))
    BY <1>5, <1>10, <2>1
  <2>2. CASE mine # {} /\ Set(p, Write(f, items \ mine))
    <3>1. PICK x \in items : mine = {x}
      BY <2>2 DEF QueueInv, IdsOK
    <3> HIDE DEF mine
    <3>2. Acknowledged(proc[p])'
      BY <1>6, <1>7, <2>2, <3>1 DEF Acknowledged
    <3>3. DraftOK(p)'
      BY <1>6, <1>10, <2>2, <3>2 DEF DraftOK
    <3> QED BY <1>4, <2>2, <3>3
  <2> QED BY <1>10, <2>1, <2>2 DEF Load
<1>11. CASE f.call = "remove"
  <2>1. Set(p, Write(f, kept))
    BY <1>11 DEF Load
  <2>2. Dropped(proc[p])' /\ proc'[p].w \in Workflows
    BY <1>3, <1>6, <1>7, <1>11, <2>1 DEF Dropped
  <2>3. DraftOK(p)'
    BY <1>6, <1>11, <2>1, <2>2 DEF DraftOK
  <2> QED BY <1>4, <2>1, <2>3
<1> QED BY <1>2, <1>8, <1>9, <1>10, <1>11

LEMMA LoadQueue ==
  ASSUME IInv, QueueInv, NEW p \in Procs, Load(p)
  PROVE  QueueInv'
<1>1. CASE Quiet(p)
  BY <1>1, QuietQueue
<1>2. ASSUME NEW draft, Set(p, Write(proc[p], draft)), UNCHANGED Queues, DraftOK(p)'
      PROVE  QueueInv'
  <2> DEFINE f == Write(proc[p], draft)
  <2>1. proc[p] \in Process /\ CallOK(proc[p]) /\ proc[p].pc = "load"
    BY DEF IInv, TypeOK, QueueInv, Load
  <2>2. f.pc = "save" /\ f.call = proc[p].call /\ f.lease = proc[p].lease
    BY <2>1 DEF Write, Process
  <2> HIDE DEF f
  <2>3. CallOK(f)
    BY <2>1, <2>2 DEF CallOK, PcLegal
  <2> QED BY <1>2, <2>1, <2>2, <2>3, ProcessQueue DEF f, Claiming
<1> QED BY <1>1, <1>2, LoadCases

\* Writing pending.json is one operation of PendingQueue.
LEMMA SaveOperates ==
  ASSUME IInv, QueueInv, NEW p \in Procs, Save(p)
  PROVE  \/ \E w \in Workflows, id \in ItemIds : Queue!Enqueue(w, id) /\ ~Claiming(p)
         \/ /\ p \in Windows /\ Claiming(p) /\ proc[p].lease \in Leases
            /\ \E x \in items : x.id = proc[p].item /\ Queue!Claim(x, p, proc[p].lease)
         \/ \E x \in items : Queue!Acknowledge(x) /\ ~Claiming(p)
         \/ \E w \in Workflows : Queue!Drop(w) /\ ~Claiming(p)
<1> DEFINE f == proc[p]
<1>1. f.pc = "save" /\ f \in Legal(p) /\ DraftOK(p)
  BY DEF IInv, QueueInv, Save
<1>2. items' = f.draft /\ used' = used \cup {x.id : x \in f.draft} /\ expired' = expired
  BY DEF Save
<1>3. \A x \in items : x.id \in used
  BY DEF QueueInv, IdsOK
<1>4. CASE f.call \in {"tick", "enqueue"} /\ f.w \in Workflows /\ Enqueued(f)
  <2>1. PICK id \in ItemIds \ used :
          /\ f.draft = items \cup {[id |-> id, workflow |-> f.w, claim |-> NoClaim]}
          /\ \A x \in items : x.workflow = f.w => x.claim # NoClaim
    BY <1>4 DEF Enqueued
  <2>2. used' = used \cup {id}
    <3> DEFINE new == [id |-> id, workflow |-> f.w, claim |-> NoClaim]
    <3>1. new.id = id /\ f.draft = items \cup {new}
      BY <2>1
    <3> HIDE DEF new, f
    <3>2. \A i : i \in {x.id : x \in f.draft} <=> i = id \/ \E x \in items : i = x.id
      BY <3>1
    <3> QED BY <1>2, <1>3, <3>2
  <2>3. Queue!Enqueue(f.w, id)
    BY <1>2, <2>1, <2>2 DEF Queue!Enqueue
  <2> QED BY <1>4, <2>3 DEF Claiming
<1>5. CASE f.call = "claim" /\ Claimed(p, f)
  <2>1. PICK x \in items :
          /\ x.id = f.item /\ Claimable(x, p)
          /\ f.draft = (items \ {x}) \cup {[x EXCEPT !.claim = ClaimOf(p, f.lease)]}
    BY <1>5 DEF Claimed
  <2>2. x \in Item
    BY DEF IInv, TypeOK
  <2>3. [x EXCEPT !.claim = ClaimOf(p, f.lease)].id = x.id
    BY <2>2 DEF Item
  <2>4. used' = used
    <3> DEFINE new == [x EXCEPT !.claim = ClaimOf(p, f.lease)]
    <3>1. new.id = x.id /\ f.draft = (items \ {x}) \cup {new}
      BY <2>1, <2>3
    <3> HIDE DEF new, f
    <3>2. \A i : i \in {y.id : y \in f.draft} => \E y \in items : i = y.id
      BY <3>1
    <3> QED BY <1>2, <1>3, <3>2
  <2>5. p \in Windows /\ f.lease \in Leases
    BY <1>1, <1>5 DEF Legal
  <2>6. f.lease \notin expired
    BY <1>1, <1>5 DEF QueueInv, LeasesOK, Claiming
  <2>7. Queue!Claim(x, p, f.lease)
    BY <1>2, <2>1, <2>4, <2>6 DEF Queue!Claim, Queue!Active, Claimable, Active, ClaimOf
  <2> QED BY <1>5, <2>1, <2>5, <2>7 DEF Claiming
<1>6. CASE f.call \in {"ack", "approve"} /\ Acknowledged(f)
  <2>1. PICK x \in items : f.draft = items \ {x}
    BY <1>6 DEF Acknowledged
  <2>2. used' = used
    BY <1>2, <1>3, <2>1
  <2>3. Queue!Acknowledge(x)
    BY <1>2, <2>1, <2>2 DEF Queue!Acknowledge
  <2> QED BY <1>6, <2>3 DEF Claiming
<1>7. CASE f.call = "remove" /\ f.w \in Workflows /\ Dropped(f)
  <2>1. f.draft = {x \in items : x.workflow # f.w}
    BY <1>7 DEF Dropped
  <2>2. used' = used
    BY <1>2, <1>3, <2>1
  <2>3. Queue!Drop(f.w)
    BY <1>2, <2>1, <2>2 DEF Queue!Drop
  <2> QED BY <1>7, <2>3 DEF Claiming
<1> QED BY <1>1, <1>4, <1>5, <1>6, <1>7 DEF DraftOK

\* The process that writes goes on to release the lock.
LEMMA SaveFields ==
  ASSUME IInv, NEW p \in Procs, Save(p)
  PROVE  /\ proc'[p].pc = "release" /\ proc'[p].call = proc[p].call
         /\ proc'[p].item = proc[p].item /\ proc'[p].lease = proc[p].lease
         /\ proc'[p].found = TRUE
         /\ \A q \in Procs \ {p} : proc'[q] = proc[q]
<1>1. proc[p] \in Process
  BY DEF IInv, TypeOK
<1>2. proc'[p] = Found(proc[p], TRUE) /\ \A q \in Procs \ {p} : proc'[q] = proc[q]
  BY SetProc DEF Save
<1> QED BY <1>1, <1>2 DEF Found, Process

LEMMA SaveQueue ==
  ASSUME IInv, LockInv, QueueInv, NEW p \in Procs, Save(p)
  PROVE  QueueInv'
<1>1. /\ proc'[p].pc = "release" /\ proc'[p].call = proc[p].call /\ proc'[p].lease = proc[p].lease
      /\ \A q \in Procs \ {p} : proc'[q] = proc[q]
  BY SaveFields
<1>2. proc[p].pc = "save" /\ leases' = leases /\ expired' = expired
  BY DEF Save
<1>3. /\ \A l \in expired : l <= leases
      /\ \A x \in items : x.claim.lease <= leases
      /\ \A q \in Procs : Claiming(q) => proc[q].lease <= leases
      /\ \A q, r \in Procs : Claiming(q) /\ Claiming(r) /\ q # r => proc[q].lease # proc[r].lease
      /\ \A q \in Procs : Claiming(q) /\ proc[q].pc # "release" =>
           /\ proc[q].lease \notin expired
           /\ \A x \in items : x.claim.lease # proc[q].lease
  BY DEF QueueInv, LeasesOK
<1>4. \A q \in Procs : Claiming(q)' <=> Claiming(q)
  BY <1>1 DEF Claiming
<1>5. \A q \in Procs : proc'[q].lease = proc[q].lease
  BY <1>1
<1>6. IdsOK' /\ \A x \in items' : \/ x.claim = NoClaim \/ x \in items
                                  \/ Claiming(p) /\ x.claim.lease = proc[p].lease
  <2>1. CASE \E w \in Workflows, id \in ItemIds : Queue!Enqueue(w, id)
    BY <2>1 DEF Queue!Enqueue, QueueInv, IdsOK
  <2>2. CASE /\ p \in Windows /\ Claiming(p)
             /\ \E x \in items : x.id = proc[p].item /\ Queue!Claim(x, p, proc[p].lease)
    <3>1. PICK x \in items : Queue!Claim(x, p, proc[p].lease)
      BY <2>2
    <3> DEFINE y == [x EXCEPT !.claim = [by |-> p, lease |-> proc[p].lease]]
    <3>2. x \in Item
      BY DEF IInv, TypeOK
    <3>3. y.id = x.id /\ y.claim.lease = proc[p].lease
      BY <3>2 DEF Item
    <3>4. items' = (items \ {x}) \cup {y} /\ used' = used
      BY <3>1 DEF Queue!Claim
    <3> HIDE DEF y
    <3>5. IdsOK'
      BY <3>3, <3>4 DEF QueueInv, IdsOK
    <3> QED BY <2>2, <3>3, <3>4, <3>5
  <2>3. CASE \E x \in items : Queue!Acknowledge(x)
    BY <2>3 DEF Queue!Acknowledge, QueueInv, IdsOK
  <2>4. CASE \E w \in Workflows : Queue!Drop(w)
    BY <2>4 DEF Queue!Drop, QueueInv, IdsOK
  <2> QED BY <2>1, <2>2, <2>3, <2>4, SaveOperates
<1>7. leases \in Nat /\ NoClaim.lease = 0 /\ \A q \in Procs : Claiming(q) => proc[q].lease \in 1 .. MaxLeases
  BY WorkAssumption DEF IInv, TypeOK, NoClaim, Claiming, Legal, Leases, WorkAssumption
<1>8. LeasesOK'
  <2>1. \A x \in items' : x.claim.lease <= leases'
    BY <1>2, <1>3, <1>6, <1>7
  <2>2. \A q \in Procs : Claiming(q)' => proc'[q].lease <= leases'
    BY <1>2, <1>3, <1>4, <1>5
  <2>3. \A q, r \in Procs : Claiming(q)' /\ Claiming(r)' /\ q # r => proc'[q].lease # proc'[r].lease
    BY <1>3, <1>4, <1>5
  <2>4. ASSUME NEW q \in Procs, Claiming(q)', proc'[q].pc # "release"
        PROVE  proc'[q].lease \notin expired' /\ \A x \in items' : x.claim.lease # proc'[q].lease
    <3>1. q # p /\ Claiming(q) /\ proc[q].pc # "release"
      BY <1>1, <1>4, <2>4
    <3>2. proc[q].lease # 0
      BY <1>7, <3>1
    <3>3. \A x \in items' : x.claim.lease # proc[q].lease
      BY <1>3, <1>6, <1>7, <3>1, <3>2
    <3> QED BY <1>2, <1>3, <1>5, <3>1, <3>3
  <2> QED BY <1>2, <1>3, <2>1, <2>2, <2>3, <2>4 DEF LeasesOK
<1>9. ASSUME NEW q \in Procs
      PROVE  CallOK(proc[q])' /\ DraftOK(q)'
  <2>1. CASE q = p
    BY <1>1, <1>2, <2>1 DEF QueueInv, CallOK, DraftOK, PcLegal
  <2>2. CASE q # p
    <3>1. proc[q].pc # "save"
      BY <1>2, <2>2 DEF LockInv, LockExclusive, InCriticalSection
    <3> QED BY <1>1, <2>2, <3>1 DEF QueueInv, CallOK, DraftOK
  <2> QED BY <2>1, <2>2
<1> QED BY <1>6, <1>8, <1>9 DEF QueueInv

\* A claim starts with a lease that nobody has had.
LEMMA StartClaimFields ==
  ASSUME IInv, NEW p \in Windows, NEW id \in ItemIds \cup {0}, StartClaim(p, id)
  PROVE  /\ proc'[p].pc = "open" /\ proc'[p].call = "claim"
         /\ proc'[p].item = id /\ proc'[p].lease = leases + 1
         /\ \A q \in Procs \ {p} : proc'[q] = proc[q]
         /\ leases' = leases + 1 /\ UNCHANGED <<items, expired, used, side>>
<1> DEFINE f == [Idle EXCEPT !.call = "claim", !.item = id, !.lease = leases + 1]
           g == [f EXCEPT !.pc = "open"]
<1>1. leases + 1 \in Leases
  BY WorkAssumption DEF IInv, TypeOK, StartClaim, Leases, WorkAssumption
<1>2. f \in Process /\ f.call = "claim" /\ f.item = id /\ f.lease = leases + 1
  BY <1>1, IdleOutside DEF Process, Calls
<1>3. Set(p, g) /\ UNCHANGED <<items, expired, used, side>> /\ leases' = leases + 1
  BY DEF StartClaim, SideCall
<1> HIDE DEF f
<1>4. g.pc = "open" /\ g.call = "claim" /\ g.item = id /\ g.lease = leases + 1
  BY <1>2 DEF Process
<1> HIDE DEF g
<1>5. proc'[p] = g /\ \A q \in Procs \ {p} : proc'[q] = proc[q]
  BY <1>3, SetProc, WindowIsProc
<1> QED BY <1>3, <1>4, <1>5

LEMMA StartClaimQueue ==
  ASSUME IInv, QueueInv, NEW p \in Windows, NEW id \in ItemIds \cup {0}, StartClaim(p, id)
  PROVE  QueueInv'
<1>1. /\ proc'[p].pc = "open" /\ proc'[p].call = "claim" /\ proc'[p].lease = leases + 1
      /\ \A q \in Procs \ {p} : proc'[q] = proc[q]
      /\ leases' = leases + 1 /\ UNCHANGED <<items, expired, used, side>>
  BY StartClaimFields
<1>2. /\ leases \in Nat /\ expired \subseteq Nat
      /\ \A x \in items : x.claim.lease \in Nat
      /\ \A q \in Procs : Claiming(q) => proc[q].lease \in Nat
  <2>1. \A x \in items : x.claim.lease \in Nat
    BY DEF IInv, TypeOK, Item, NoClaim, Leases
  <2> QED BY <2>1, WorkAssumption DEF IInv, TypeOK, Claiming, Legal, Leases, WorkAssumption
<1>3. IdsOK'
  BY <1>1 DEF QueueInv, IdsOK
<1>4. LeasesOK'
  <2>1. /\ \A l \in expired : l <= leases
        /\ \A x \in items : x.claim.lease <= leases
        /\ \A q \in Procs : Claiming(q) => proc[q].lease <= leases
        /\ \A q, r \in Procs : Claiming(q) /\ Claiming(r) /\ q # r => proc[q].lease # proc[r].lease
        /\ \A q \in Procs : Claiming(q) /\ proc[q].pc # "release" =>
             /\ proc[q].lease \notin expired
             /\ \A x \in items : x.claim.lease # proc[q].lease
    BY DEF QueueInv, LeasesOK
  <2>2. \A q \in Procs \ {p} : Claiming(q)' => Claiming(q) /\ proc'[q] = proc[q]
    BY <1>1 DEF Claiming
  <2>3. \A l \in expired' : l <= leases'
    BY <1>1, <1>2, <2>1
  <2>4. \A x \in items' : x.claim.lease <= leases'
    BY <1>1, <1>2, <2>1
  <2>5. \A q \in Procs : Claiming(q)' => proc'[q].lease <= leases'
    BY <1>1, <1>2, <2>1, <2>2
  <2>6. \A q, r \in Procs : Claiming(q)' /\ Claiming(r)' /\ q # r => proc'[q].lease # proc'[r].lease
    BY <1>1, <1>2, <2>1, <2>2
  <2>7. \A q \in Procs : Claiming(q)' /\ proc'[q].pc # "release" =>
          /\ proc'[q].lease \notin expired'
          /\ \A x \in items' : x.claim.lease # proc'[q].lease
    BY <1>1, <1>2, <2>1, <2>2
  <2> QED BY <2>3, <2>4, <2>5, <2>6, <2>7 DEF LeasesOK
<1>5. ASSUME NEW q \in Procs
      PROVE  CallOK(proc[q])' /\ DraftOK(q)'
  <2>1. CASE q = p
    BY <1>1, <2>1 DEF CallOK, DraftOK, PcLegal
  <2>2. CASE q # p
    <3>1. proc'[q] = proc[q] /\ DraftOK(q) /\ CallOK(proc[q])
      BY <1>1, <2>2 DEF QueueInv
    <3> QED BY <1>1, <3>1
          DEF DraftOK, CallOK, Enqueued, Claimed, Acknowledged, Dropped, Claimable, Active
  <2> QED BY <2>1, <2>2
<1> QED BY <1>3, <1>4, <1>5 DEF QueueInv

LEMMA ExpireQueue ==
  ASSUME IInv, QueueInv, NEW x \in items, Expire(x)
  PROVE  QueueInv'
<1>1. /\ expired' = expired \cup {x.claim.lease}
      /\ UNCHANGED <<items, used, leases, proc>>
  BY DEF Expire
<1>2. IdsOK'
  BY <1>1 DEF QueueInv, IdsOK
<1>3. LeasesOK'
  BY <1>1 DEF QueueInv, LeasesOK, Claiming
<1>4. ASSUME NEW q \in Procs
      PROVE  CallOK(proc[q])' /\ DraftOK(q)'
  <2>1. DraftOK(q) /\ CallOK(proc[q])
    BY DEF QueueInv
  <2>2. \A y \in items : Claimable(y, q) => Claimable(y, q)'
    BY <1>1 DEF Claimable, Active
  <2>3. Claimed(q, proc[q]) => Claimed(q, proc[q])'
    BY <1>1, <2>2 DEF Claimed
  <2> QED BY <1>1, <2>1, <2>3 DEF DraftOK, CallOK, Enqueued, Acknowledged, Dropped
<1> QED BY <1>2, <1>3, <1>4 DEF QueueInv

\* What each step is for the queue.
LEMMA StepKinds ==
  ASSUME IInv, QueueInv, Next, "stale" \notin Faults
  PROVE  \/ \E p \in Procs : Quiet(p) \/ Load(p) \/ Save(p)
         \/ \E p \in Windows, id \in ItemIds \cup {0} : StartClaim(p, id)
         \/ \E p \in Windows : RunPrompt(p)
         \/ \E x \in items : Expire(x)
<1>1. ASSUME NEW p \in Procs, Step(p)
      PROVE  Quiet(p) \/ Load(p) \/ Save(p)
  BY <1>1, HandlingQuiet, LockFileQuiet, ReleaseQuiet DEF Step
<1>2. ASSUME NEW p \in Procs, Tick(p) \/ Crash(p)
      PROVE  Quiet(p)
  BY <1>2, CallsQuiet, SideQuiet DEF IInv
<1>3. ASSUME NEW p \in Windows, NEW w \in Workflows, Add(p, w) \/ Remove(p, w) \/ Run(p, w)
      PROVE  Quiet(p)
  BY <1>3, CallsQuiet DEF IInv
<1>4. ASSUME NEW p \in Windows, NEW x \in items, Approve(p, x)
      PROVE  Quiet(p)
  BY <1>4, CallsQuiet DEF IInv
<1>5. ASSUME NEW p \in Windows, NEW x \in items, Poll(p, x)
      PROVE  \E id \in ItemIds \cup {0} : StartClaim(p, id)
  <2>1. x.id \in ItemIds
    BY DEF IInv, TypeOK, Item
  <2> QED BY <1>5, <2>1 DEF Poll
<1>6. ASSUME NEW p \in Windows, Renew(p)
      PROVE  \E id \in ItemIds \cup {0} : StartClaim(p, id)
  <2>1. side[p].item \in ItemIds \cup {0}
    BY DEF IInv, TypeOK, Side
  <2> QED BY <1>6, <2>1 DEF Renew
<1>7. ASSUME NEW p \in Windows, Acknowledge(p)
      PROVE  Quiet(p)
  BY <1>7, SideQuiet, WindowIsProc
<1>8. ~LockAges
  BY DEF LockAges
<1> QED BY <1>1, <1>2, <1>3, <1>4, <1>5, <1>6, <1>7, <1>8, WindowIsProc DEF Next

LEMMA QueueNext ==
  ASSUME IInv, LockInv, QueueInv, [Next]_vars, "stale" \notin Faults
  PROVE  QueueInv'
<1>1. ASSUME NEW p \in Windows, RunPrompt(p)
      PROVE  QueueInv'
  <2>1. UNCHANGED <<items, used, expired, leases, proc>>
    BY <1>1 DEF RunPrompt
  <2> QED BY <2>1 DEF QueueInv, IdsOK, LeasesOK, Claiming, CallOK, DraftOK, Enqueued, Claimed,
                      Acknowledged, Dropped, Claimable, Active
<1>2. CASE UNCHANGED vars
  <2>1. UNCHANGED <<items, used, expired, leases, proc>>
    BY <1>2 DEF vars
  <2> QED BY <2>1 DEF QueueInv, IdsOK, LeasesOK, Claiming, CallOK, DraftOK, Enqueued, Claimed,
                      Acknowledged, Dropped, Claimable, Active
<1> QED BY <1>1, <1>2, StepKinds, QuietQueue, LoadQueue, SaveQueue, StartClaimQueue, ExpireQueue

LEMMA QueueInductive ==
  ASSUME "stale" \notin Faults
  PROVE  Spec => []QueueInv
<1>1. Init => QueueInv
  <2> SUFFICES ASSUME Init
               PROVE  QueueInv
    OBVIOUS
  <2>1. Idle.pc = "idle" /\ Idle.call = "none"
    BY DEF Idle
  <2>2. \A p \in Procs : proc[p] = Idle
    BY DEF Init
  <2> QED BY <2>1, <2>2 DEF Init, QueueInv, IdsOK, LeasesOK, Claiming, CallOK, DraftOK, PcLegal
<1>2. IInv /\ LockInv /\ QueueInv /\ [Next]_vars => QueueInv'
  BY QueueNext
<1> QED BY <1>1, <1>2, WorkInductive, LockInductive, PTL DEF Spec

\* The queue in pending.json is PendingQueue: under the lock, whatever processes
\* interleave, die or find it busy, each writing is one operation on the latest
\* items (withPendingLock).
THEOREM QueueImplemented ==
  ASSUME "stale" \notin Faults
  PROVE  Spec => ImplementsQueue
<1>1. Init => Queue!Init
  BY DEF Init, Queue!Init
<1>2. IInv /\ QueueInv /\ [Next]_vars => [Queue!Next]_(Queue!vars)
  <2> SUFFICES ASSUME IInv, QueueInv, [Next]_vars
               PROVE  Queue!Next \/ UNCHANGED <<items, expired, used>>
    BY DEF Queue!vars
  <2>1. ASSUME NEW p \in Procs, Quiet(p) \/ Load(p)
        PROVE  UNCHANGED <<items, expired, used>>
    BY <2>1 DEF Quiet, Queues, Load
  <2>2. ASSUME NEW p \in Procs, Save(p)
        PROVE  Queue!Next
    BY <2>2, SaveOperates DEF Queue!Next
  <2>3. ASSUME NEW p \in Windows, NEW id \in ItemIds \cup {0}, StartClaim(p, id)
        PROVE  UNCHANGED <<items, expired, used>>
    BY <2>3 DEF StartClaim, SideCall
  <2>4. ASSUME NEW p \in Windows, RunPrompt(p)
        PROVE  UNCHANGED <<items, expired, used>>
    BY <2>4 DEF RunPrompt
  <2>5. ASSUME NEW x \in items, Expire(x)
        PROVE  Queue!Next
    <3>1. x.claim.lease \in Leases
      BY <2>5 DEF IInv, TypeOK, Item, Expire, Active
    <3> QED BY <2>5, <3>1 DEF Expire, Queue!Next, Queue!Expire
  <2>6. CASE UNCHANGED vars
    BY <2>6 DEF vars
  <2> QED BY <2>1, <2>2, <2>3, <2>4, <2>5, <2>6, StepKinds
<1> QED BY <1>1, <1>2, WorkInductive, QueueInductive, PTL
      DEF Spec, ImplementsQueue, Queue!Spec

-----------------------------------------------------------------------------
(***************************************************************************)
(* What the abstract queue promises, and what pending.json keeps because   *)
(* it behaves like it.                                                     *)
(***************************************************************************)
\* Nobody's claim is a claim of a window.
LEMMA NobodyClaims == NoClaim \notin Queue!Claims
BY WorkAssumption DEF Queue!Claims, NoClaim, Procs

\* The inductive invariant: that an id is new follows from Ids \subseteq used,
\* and that a claim concerns one item from the ids being different.
AbstractInv == Queue!TypeOK /\ Queue!IdsIdentify /\ Queue!WaitsOnce

LEMMA AbstractInit == Queue!Init => AbstractInv
BY DEF Queue!Init, AbstractInv, Queue!TypeOK, Queue!IdsIdentify, Queue!WaitsOnce, Queue!Ids

\* An item queued while every item of its workflow has been claimed.
LEMMA AbstractEnqueue ==
  ASSUME AbstractInv, NEW w \in Workflows, NEW id \in ItemIds, Queue!Enqueue(w, id)
  PROVE  AbstractInv'
<1> DEFINE new == [id |-> id, workflow |-> w, claim |-> NoClaim]
<1>1. new \in Queue!Items /\ new.id = id /\ new.workflow = w /\ new.claim = NoClaim
  BY DEF Queue!Items
<1>2. items' = items \cup {new} /\ used' = used \cup {id} /\ expired' = expired
  BY DEF Queue!Enqueue
<1>3. \A x \in items : x.id # id
  BY DEF Queue!Enqueue, AbstractInv, Queue!IdsIdentify, Queue!Ids
<1> HIDE DEF new
<1>4. Queue!TypeOK'
  BY <1>1, <1>2 DEF AbstractInv, Queue!TypeOK
<1>5. Queue!IdsIdentify'
  <2>1. ASSUME NEW x \in items', NEW y \in items', x.id = y.id
        PROVE  x = y
    BY <1>1, <1>2, <1>3, <2>1 DEF AbstractInv, Queue!IdsIdentify
  <2>2. Queue!Ids' \subseteq used'
    BY <1>1, <1>2 DEF AbstractInv, Queue!IdsIdentify, Queue!Ids
  <2> QED BY <2>1, <2>2 DEF Queue!IdsIdentify
<1>6. Queue!WaitsOnce'
  <2>1. \A x \in items : x.workflow = w => x.claim # NoClaim
    BY DEF Queue!Enqueue
  <2>2. ASSUME NEW x \in items', NEW y \in items', x.workflow = y.workflow,
               x.claim = NoClaim, y.claim = NoClaim
        PROVE  x = y
    BY <1>1, <1>2, <2>1, <2>2 DEF AbstractInv, Queue!WaitsOnce
  <2> QED BY <2>2 DEF Queue!WaitsOnce
<1> QED BY <1>4, <1>5, <1>6 DEF AbstractInv

\* Claiming changes one item, and keeps its id and its workflow.
LEMMA AbstractClaimChanges ==
  ASSUME Queue!TypeOK, NEW x \in items, NEW p \in Windows, NEW lease \in Leases,
         Queue!Claim(x, p, lease)
  PROVE  \E new \in Queue!Items :
           /\ items' = (items \ {x}) \cup {new}
           /\ new.id = x.id /\ new.workflow = x.workflow
           /\ new.claim = [by |-> p, lease |-> lease]
<1> DEFINE new == [x EXCEPT !.claim = [by |-> p, lease |-> lease]]
<1>1. x \in Queue!Items
  BY DEF Queue!TypeOK
<1>2. [by |-> p, lease |-> lease] \in Queue!Claims
  BY DEF Queue!Claims
<1>3. new \in Queue!Items
  BY <1>1, <1>2 DEF Queue!Items
<1>4. new.id = x.id /\ new.workflow = x.workflow
  BY <1>1 DEF Queue!Items
<1>5. new.claim = [by |-> p, lease |-> lease]
  BY <1>1 DEF Queue!Items
<1>6. items' = (items \ {x}) \cup {new}
  BY DEF Queue!Claim
<1> QED BY <1>3, <1>4, <1>5, <1>6

LEMMA AbstractClaim ==
  ASSUME AbstractInv,
         NEW x \in items, NEW p \in Windows, NEW lease \in Leases,
         Queue!Claim(x, p, lease)
  PROVE  AbstractInv'
<1>1. PICK new \in Queue!Items :
        /\ items' = (items \ {x}) \cup {new}
        /\ new.id = x.id /\ new.workflow = x.workflow
        /\ new.claim = [by |-> p, lease |-> lease]
  BY AbstractClaimChanges DEF AbstractInv
<1>2. new.claim # NoClaim
  BY <1>1, NobodyClaims DEF Queue!Claims
<1>3. used' = used /\ expired' = expired
  BY DEF Queue!Claim
<1>4. Queue!TypeOK'
  BY <1>1, <1>3 DEF AbstractInv, Queue!TypeOK
<1>5. Queue!IdsIdentify'
  <2>1. ASSUME NEW y \in items', NEW z \in items', y.id = z.id
        PROVE  y = z
    BY <1>1, <2>1 DEF AbstractInv, Queue!IdsIdentify
  <2>2. Queue!Ids' \subseteq used'
    BY <1>1, <1>3 DEF AbstractInv, Queue!IdsIdentify, Queue!Ids
  <2> QED BY <2>1, <2>2 DEF Queue!IdsIdentify
<1>6. Queue!WaitsOnce'
  BY <1>1, <1>2 DEF AbstractInv, Queue!WaitsOnce
<1> QED BY <1>4, <1>5, <1>6 DEF AbstractInv

\* Items that leave, and leases that run out, disturb nothing.
LEMMA AbstractFewer ==
  ASSUME AbstractInv, items' \subseteq items, used' = used, expired' \subseteq Leases
  PROVE  AbstractInv'
BY DEF AbstractInv, Queue!TypeOK, Queue!IdsIdentify, Queue!WaitsOnce, Queue!Ids

LEMMA AbstractNext ==
  ASSUME AbstractInv, [Queue!Next]_(Queue!vars)
  PROVE  AbstractInv'
<1>1. ASSUME NEW w \in Workflows, NEW id \in ItemIds, Queue!Enqueue(w, id)
      PROVE  AbstractInv'
  BY <1>1, AbstractEnqueue
<1>2. ASSUME NEW x \in items, NEW p \in Windows, NEW lease \in Leases,
             Queue!Claim(x, p, lease)
      PROVE  AbstractInv'
  BY <1>2, AbstractClaim
<1>3. ASSUME NEW x \in items, Queue!Acknowledge(x)
      PROVE  AbstractInv'
  BY <1>3, AbstractFewer DEF Queue!Acknowledge, AbstractInv, Queue!TypeOK
<1>4. ASSUME NEW w \in Workflows, Queue!Drop(w)
      PROVE  AbstractInv'
  BY <1>4, AbstractFewer DEF Queue!Drop, AbstractInv, Queue!TypeOK
<1>5. ASSUME NEW lease \in Leases, Queue!Expire(lease)
      PROVE  AbstractInv'
  BY <1>5, AbstractFewer DEF Queue!Expire, AbstractInv, Queue!TypeOK
<1>6. CASE UNCHANGED Queue!vars
  BY <1>6, AbstractFewer DEF Queue!vars, AbstractInv, Queue!TypeOK
<1> QED BY <1>1, <1>2, <1>3, <1>4, <1>5, <1>6 DEF Queue!Next

\* The queue keeps its type, its ids identify, and a workflow waits once.
THEOREM QueueInvariant ==
  Queue!Spec => [](Queue!TypeOK /\ Queue!IdsIdentify /\ Queue!WaitsOnce)
<1>1. Queue!Init => AbstractInv
  BY AbstractInit
<1>2. AbstractInv /\ [Queue!Next]_(Queue!vars) => AbstractInv'
  BY AbstractNext
<1>3. AbstractInv => Queue!TypeOK /\ Queue!IdsIdentify /\ Queue!WaitsOnce
  BY DEF AbstractInv
<1> QED BY <1>1, <1>2, <1>3, PTL DEF Queue!Spec

\* An item that was acknowledged, or dropped with its workflow, never returns:
\* an acknowledged prompt is not run again from the queue.
THEOREM QueueForgets == Queue!Spec => Queue!GoneStaysGone
<1> DEFINE Kept == \A id \in used : id \notin Queue!Ids => id \notin Queue!Ids'
<1>1. AbstractInv /\ [Queue!Next]_(Queue!vars) => [Kept]_(Queue!vars)
  <2> SUFFICES ASSUME AbstractInv, [Queue!Next]_(Queue!vars)
               PROVE  [Kept]_(Queue!vars)
    OBVIOUS
  <2>1. ASSUME NEW w \in Workflows, NEW id \in ItemIds, Queue!Enqueue(w, id)
        PROVE  Kept
    BY <2>1 DEF Queue!Enqueue, Queue!Ids
  <2>2. ASSUME NEW x \in items, NEW p \in Windows, NEW lease \in Leases,
               Queue!Claim(x, p, lease)
        PROVE  Kept
    <3>1. PICK new \in Queue!Items :
            items' = (items \ {x}) \cup {new} /\ new.id = x.id
      BY <2>2, AbstractClaimChanges DEF AbstractInv
    <3> QED BY <3>1 DEF Queue!Ids
  <2>3. ASSUME items' \subseteq items
        PROVE  Kept
    BY <2>3 DEF Queue!Ids
  <2>4. ASSUME NEW x \in items, Queue!Acknowledge(x)
        PROVE  Kept
    BY <2>3, <2>4 DEF Queue!Acknowledge
  <2>5. ASSUME NEW w \in Workflows, Queue!Drop(w)
        PROVE  Kept
    BY <2>3, <2>5 DEF Queue!Drop
  <2>6. ASSUME NEW lease \in Leases, Queue!Expire(lease)
        PROVE  Kept
    BY <2>3, <2>6 DEF Queue!Expire
  <2> HIDE DEF Kept
  <2> QED BY <2>1, <2>2, <2>4, <2>5, <2>6 DEF Queue!Next
<1>2. Queue!Spec => []AbstractInv
  BY AbstractInit, AbstractNext, PTL DEF Queue!Spec
<1> QED BY <1>1, <1>2, PTL DEF Queue!Spec, Queue!GoneStaysGone

\* Nobody takes an item over while its lease runs: two windows do not hold an
\* active claim on one item.
THEOREM QueueKeepsClaims == Queue!Spec => Queue!ActiveClaimKept
<1> DEFINE Kept == \A x \in items, y \in items' :
      x.id = y.id /\ Queue!Active(x) => y.claim # NoClaim /\ y.claim.by = x.claim.by
<1>1. AbstractInv /\ [Queue!Next]_(Queue!vars) => [Kept]_(Queue!vars)
  <2> SUFFICES ASSUME AbstractInv, [Queue!Next]_(Queue!vars)
               PROVE  [Kept]_(Queue!vars)
    OBVIOUS
  <2>1. ASSUME NEW w \in Workflows, NEW id \in ItemIds, Queue!Enqueue(w, id)
        PROVE  Kept
    <3> DEFINE new == [id |-> id, workflow |-> w, claim |-> NoClaim]
    <3>1. items' = items \cup {new} /\ new.id = id
      BY <2>1 DEF Queue!Enqueue
    <3>2. \A x \in items : x.id # id
      BY <2>1 DEF Queue!Enqueue, AbstractInv, Queue!IdsIdentify, Queue!Ids
    <3> HIDE DEF new
    <3> QED BY <3>1, <3>2 DEF AbstractInv, Queue!IdsIdentify, Queue!Active
  <2>2. ASSUME NEW x \in items, NEW p \in Windows, NEW lease \in Leases,
               Queue!Claim(x, p, lease)
        PROVE  Kept
    <3>1. PICK new \in Queue!Items :
            /\ items' = (items \ {x}) \cup {new} /\ new.id = x.id
            /\ new.claim = [by |-> p, lease |-> lease]
      BY <2>2, AbstractClaimChanges DEF AbstractInv
    <3>2. new.claim # NoClaim /\ new.claim.by = p
      BY <3>1, NobodyClaims DEF Queue!Claims
    <3>3. Queue!Active(x) => x.claim.by = p
      BY <2>2 DEF Queue!Claim
    <3> QED BY <3>1, <3>2, <3>3 DEF AbstractInv, Queue!IdsIdentify, Queue!Active
  <2>3. ASSUME items' \subseteq items
        PROVE  Kept
    BY <2>3 DEF AbstractInv, Queue!IdsIdentify, Queue!Active
  <2>4. ASSUME NEW x \in items, Queue!Acknowledge(x)
        PROVE  Kept
    BY <2>3, <2>4 DEF Queue!Acknowledge
  <2>5. ASSUME NEW w \in Workflows, Queue!Drop(w)
        PROVE  Kept
    BY <2>3, <2>5 DEF Queue!Drop
  <2>6. ASSUME NEW lease \in Leases, Queue!Expire(lease)
        PROVE  Kept
    BY <2>3, <2>6 DEF Queue!Expire
  <2> HIDE DEF Kept
  <2> QED BY <2>1, <2>2, <2>4, <2>5, <2>6 DEF Queue!Next
<1>2. Queue!Spec => []AbstractInv
  BY AbstractInit, AbstractNext, PTL DEF Queue!Spec
<1> QED BY <1>1, <1>2, PTL DEF Queue!Spec, Queue!ActiveClaimKept

\* Pending items keep their ids, and a workflow waits in pending.json once,
\* however the windows and the schedulers interleave (enqueuePending).
THEOREM PendingWaitsOnce ==
  ASSUME "stale" \notin Faults
  PROVE  Spec => [](Queue!IdsIdentify /\ Queue!WaitsOnce)
<1> QED BY QueueImplemented, QueueInvariant, PTL DEF ImplementsQueue

\* An acknowledged item, or one whose workflow was removed, does not come back
\* to pending.json: no late writing of an old copy restores it (ackPendingWork).
THEOREM PendingForgets ==
  ASSUME "stale" \notin Faults
  PROVE  Spec => Queue!GoneStaysGone
<1> QED BY QueueImplemented, QueueForgets, PTL DEF ImplementsQueue

\* An item of pending.json keeps its claimant while the lease runs
\* (claimPendingWork).
THEOREM PendingKeepsClaims ==
  ASSUME "stale" \notin Faults
  PROVE  Spec => Queue!ActiveClaimKept
<1> QED BY QueueImplemented, QueueKeepsClaims, PTL DEF ImplementsQueue

-----------------------------------------------------------------------------
(***************************************************************************)
(* One holder.  Most steps write neither pending.json nor a claim.         *)
(***************************************************************************)
SideKept(p) == \A q \in Windows : side'[q] = side[q] \/ (q = p /\ side'[q] = Free)
ClaimKept(p) ==
  /\ Claiming(p)' => Claiming(p) /\ proc'[p].item = proc[p].item
  /\ ~Wrote(p)'
  /\ \A q \in Procs \ {p} : proc'[q] = proc[q]

\* Only windows claim, and items have ids other than the 0 of a free sidebar.
LEMMA HolderTypes ==
  ASSUME IInv
  PROVE  /\ \A p \in Procs : Claiming(p) => p \in Windows
         /\ \A i \in used : i # 0
         /\ Free.item = 0
BY DEF IInv, TypeOK, Claiming, Legal, ItemIds, Free

LEMMA KeptHolder ==
  ASSUME IInv, HolderInv, NEW p \in Procs, ClaimKept(p), SideKept(p),
         Wrote(p) => side'[p] = Free, UNCHANGED <<items, expired, used>>
  PROVE  HolderInv'
<1>1. items' = items /\ expired' = expired /\ used' = used
  OBVIOUS
<1>2. \A q \in Procs : Claiming(q)' => Claiming(q) /\ proc'[q].item = proc[q].item
  BY DEF ClaimKept, Claiming
<1>3. \A q \in Procs : Wrote(q)' => Wrote(q) /\ proc'[q] = proc[q]
  BY DEF ClaimKept, Wrote, Claiming
<1>4. \A q \in Windows : side'[q] # Free => side'[q] = side[q]
  BY DEF SideKept
<1>5. \A q \in Windows : Holds(q)' => /\ side'[q] = side[q] /\ Holds(q)
                                      /\ Wrote(q) => Wrote(q)'
  <2> SUFFICES ASSUME NEW q \in Windows, Holds(q)'
               PROVE  side'[q] = side[q] /\ Holds(q) /\ (Wrote(q) => Wrote(q)')
    OBVIOUS
  <2>1. side'[q] = side[q] /\ side'[q] # Free /\ Holds(q)
    BY <1>1, <1>4 DEF Holds
  <2>2. CASE q = p
    BY <2>1, <2>2
  <2>3. CASE q # p
    <3>1. proc'[q] = proc[q]
      BY <2>3, WindowIsProc DEF ClaimKept
    <3> QED BY <2>1, <3>1 DEF Wrote, Claiming
  <2> QED BY <2>2, <2>3
<1>6. \A q \in Windows : side[q] # Free => side[q].item # 0
  BY HolderTypes DEF HolderInv
<1>7. OneHolder'
  <2> SUFFICES ASSUME NEW q \in Windows, NEW r \in Windows, q # r,
                      side'[q] # Free, side'[q].item = side'[r].item
               PROVE  side'[q].lease \in expired' \/ side'[r].lease \in expired'
    BY DEF OneHolder
  <2>1. side'[q] = side[q] /\ side[q].item # 0
    BY <1>4, <1>6
  <2>2. side'[r] = side[r]
    BY <1>4, <2>1, HolderTypes
  <2> QED BY <1>1, <2>1, <2>2 DEF HolderInv, OneHolder
<1>8. /\ \A q \in Windows : side'[q] # Free => side'[q].item \in used'
      /\ \A q \in Procs : Claiming(q)' => proc'[q].item \in used'
      /\ \A q \in Windows : side'[q] # Free /\ Claiming(q)' => proc'[q].item = side'[q].item
  BY <1>1, <1>2, <1>4, WindowIsProc DEF HolderInv
<1>9. \A q \in Procs : Wrote(q)' =>
        \A x \in items' : x.id = proc'[q].item => x.claim = ClaimOf(q, proc'[q].lease)
  BY <1>1, <1>3 DEF HolderInv
<1>10. \A q \in Windows : Holds(q)' =>
         \A x \in items' : x.id = side'[q].item =>
           x.claim.by = q /\ (x.claim.lease = side'[q].lease \/ Wrote(q)')
  BY <1>1, <1>5 DEF HolderInv
<1>11. \A q, r \in Windows : Holds(q)' /\ Wrote(r)' /\ q # r => side'[q].item # proc'[r].item
  BY <1>3, <1>5, WindowIsProc DEF HolderInv
<1> QED BY <1>7, <1>8, <1>9, <1>10, <1>11 DEF HolderInv

LEMMA QuietHolder ==
  ASSUME IInv, HolderInv, NEW p \in Procs, Quiet(p), SideKept(p), Wrote(p) => side'[p] = Free
  PROVE  HolderInv'
<1>1. PICK f : GoesOn(p, f)
  BY DEF Quiet
<1>2. proc'[p] = f /\ \A q \in Procs \ {p} : proc'[q] = proc[q]
  BY <1>1, SetProc DEF GoesOn
<1>3. ClaimKept(p)
  BY <1>1, <1>2 DEF GoesOn, ClaimKept, Wrote, Claiming
<1> QED BY <1>3, KeptHolder DEF Quiet, Queues

LEMMA LoadHolder ==
  ASSUME IInv, QueueInv, HolderInv, NEW p \in Procs, Load(p)
  PROVE  HolderInv'
<1>1. proc[p].pc = "load" /\ side' = side
  BY DEF Load
<1>2. ~Wrote(p) /\ SideKept(p)
  BY <1>1 DEF Wrote, SideKept
<1>3. CASE Quiet(p)
  BY <1>2, <1>3, QuietHolder
<1>4. ASSUME NEW draft, Set(p, Write(proc[p], draft)), UNCHANGED Queues
      PROVE  HolderInv'
  <2>1. proc[p] \in Process
    BY DEF IInv, TypeOK
  <2> DEFINE f == Write(proc[p], draft)
  <2>2. f.pc = "save" /\ f.call = proc[p].call /\ f.item = proc[p].item
    BY <2>1 DEF Write, Process
  <2> HIDE DEF f
  <2>3. proc'[p] = f /\ \A q \in Procs \ {p} : proc'[q] = proc[q]
    BY <1>4, SetProc DEF f
  <2>4. ClaimKept(p)
    BY <2>2, <2>3 DEF ClaimKept, Claiming, Wrote
  <2> QED BY <1>2, <1>4, <2>4, KeptHolder DEF Queues
<1> QED BY <1>3, <1>4, LoadCases

\* A claim is written only over one that has run out, or one's own.
LEMMA SaveHolder ==
  ASSUME IInv, LockInv, QueueInv, HolderInv, NEW p \in Procs, Save(p)
  PROVE  HolderInv'
<1>1. /\ proc'[p].pc = "release" /\ proc'[p].call = proc[p].call
      /\ proc'[p].item = proc[p].item /\ proc'[p].lease = proc[p].lease
      /\ proc'[p].found = TRUE
      /\ \A q \in Procs \ {p} : proc'[q] = proc[q]
  BY SaveFields
<1>2. proc[p].pc = "save" /\ UNCHANGED <<side, expired>>
  BY DEF Save
<1>3. \A q \in Procs : ~Wrote(q)
  BY <1>2 DEF Wrote, LockInv, LockExclusive, InCriticalSection
<1>4. \A q \in Procs : Claiming(q)' <=> Claiming(q)
  BY <1>1 DEF Claiming
<1>5. \A q \in Procs : Wrote(q)' <=> q = p /\ Claiming(p)
  BY <1>1, <1>3 DEF Wrote, Claiming
<1>6. \A q \in Windows : Holds(q)' <=> Holds(q)
  BY <1>2 DEF Holds
<1>7. \A q \in Windows : Holds(q) => side[q].item \in used /\
        \A x \in items : x.id = side[q].item => x.claim.by = q /\ x.claim.lease = side[q].lease
  BY <1>3, WindowIsProc DEF HolderInv, Holds
<1>8. used \subseteq used'
  BY DEF Save
<1>9. OneHolder'
  BY <1>2 DEF HolderInv, OneHolder
<1>10. /\ \A q \in Windows : side'[q] # Free => side'[q].item \in used'
       /\ \A q \in Procs : Claiming(q)' => proc'[q].item \in used'
       /\ \A q \in Windows : side'[q] # Free /\ Claiming(q)' => proc'[q].item = side'[q].item
  BY <1>1, <1>2, <1>4, <1>8, WindowIsProc DEF HolderInv
<1>11. CASE ~Claiming(p)
  <2>1. \A x \in items' : x \in items \/ x.id \notin used
    BY <1>11, SaveOperates DEF Queue!Enqueue, Queue!Acknowledge, Queue!Drop
  <2>2. \A q \in Procs : ~Wrote(q)'
    BY <1>5, <1>11
  <2>3. \A q \in Windows : Holds(q)' =>
          \A x \in items' : x.id = side'[q].item =>
            x.claim.by = q /\ (x.claim.lease = side'[q].lease \/ Wrote(q)')
    BY <1>2, <1>6, <1>7, <2>1
  <2> QED BY <1>9, <1>10, <2>2, <2>3, WindowIsProc DEF HolderInv
<1>12. CASE Claiming(p)
  <2>1. p \in Windows
    BY <1>12, HolderTypes
  <2>2. PICK x \in items : x.id = proc[p].item /\ Queue!Claim(x, p, proc[p].lease)
    BY <1>12, SaveOperates
  <2> DEFINE y == [x EXCEPT !.claim = [by |-> p, lease |-> proc[p].lease]]
  <2>3. x \in Item
    BY DEF IInv, TypeOK
  <2>4. y.id = x.id /\ y.claim = ClaimOf(p, proc[p].lease)
    BY <2>3 DEF Item, ClaimOf
  <2>5. y.claim.by = p
    BY <2>4 DEF ClaimOf
  <2>6. items' = (items \ {x}) \cup {y}
    BY <2>2 DEF Queue!Claim
  <2> HIDE DEF y
  <2>7. \A z \in items : z.id = x.id => z = x
    BY DEF QueueInv, IdsOK
  <2>8. ASSUME NEW q \in Windows, Holds(q), side[q].item = x.id
        PROVE  q = p
    <3>1. x.claim.by = q /\ x.claim.lease \notin expired
      BY <1>7, <2>8 DEF Holds
    <3>2. x.claim # NoClaim
      BY <3>1, WorkAssumption, WindowIsProc DEF WorkAssumption, NoClaim
    <3> QED BY <2>2, <3>1, <3>2 DEF Queue!Claim, Queue!Active
  <2>9. \A q \in Procs : Wrote(q)' =>
          \A z \in items' : z.id = proc'[q].item => z.claim = ClaimOf(q, proc'[q].lease)
    BY <1>1, <1>5, <2>2, <2>4, <2>6, <2>7
  <2>10. \A q \in Windows : Holds(q)' =>
           \A z \in items' : z.id = side'[q].item =>
             z.claim.by = q /\ (z.claim.lease = side'[q].lease \/ Wrote(q)')
    <3> SUFFICES ASSUME NEW q \in Windows, Holds(q), NEW z \in items', z.id = side[q].item
                 PROVE  z.claim.by = q /\ (z.claim.lease = side[q].lease \/ Wrote(q)')
      BY <1>2, <1>6
    <3>1. CASE z = y
      BY <1>5, <1>12, <2>1, <2>4, <2>5, <2>8, <3>1, WindowIsProc
    <3>2. CASE z \in items
      BY <1>7, <3>2
    <3> QED BY <2>6, <3>1, <3>2
  <2>11. \A q, r \in Windows : Holds(q)' /\ Wrote(r)' /\ q # r => side'[q].item # proc'[r].item
    BY <1>1, <1>2, <1>5, <1>6, <2>2, <2>8, WindowIsProc
  <2> QED BY <1>9, <1>10, <2>9, <2>10, <2>11 DEF HolderInv
<1> QED BY <1>11, <1>12

\* A claim that was written becomes the sidebar's.
LEMMA ReleaseHolder ==
  ASSUME IInv, LockInv, QueueInv, HolderInv, NEW p \in Procs, Release(p)
  PROVE  HolderInv'
<1> DEFINE f == proc[p]
<1>1. f.pc = "release"
  BY DEF Release
<1>2. CASE ~(f.call = "claim" /\ f.found)
  <2>1. SideKept(p)
    BY <1>2 DEF Release, SideKept, IInv, TypeOK
  <2>2. ~Wrote(p)
    BY <1>2 DEF Wrote, Claiming
  <2> QED BY <2>1, <2>2, QuietHolder, ReleaseQuiet
<1>3. CASE f.call = "claim" /\ f.found
  <2> DEFINE new == [item |-> f.item, lease |-> f.lease,
                     stage |-> IF side[p].stage = "free" THEN "claimed" ELSE side[p].stage]
  <2>1. Wrote(p) /\ Claiming(p) /\ p \in Windows
    BY <1>1, <1>3, HolderTypes DEF Wrote, Claiming
  <2>2. new.item = f.item /\ new.lease = f.lease
    OBVIOUS
  <2>3. side' = [side EXCEPT ![p] = new]
    BY <1>3 DEF Release
  <2> HIDE DEF new
  <2>4. side'[p] = new /\ \A q \in Windows \ {p} : side'[q] = side[q]
    BY <2>1, <2>3 DEF IInv, TypeOK
  <2>5. UNCHANGED <<items, expired, used>> /\ Set(p, Idle)
    BY <1>3 DEF Release
  <2>6. proc'[p] = Idle /\ \A q \in Procs \ {p} : proc'[q] = proc[q]
    BY <2>5, SetProc
  <2>7. ~Claiming(p)' /\ ~Wrote(p)'
    BY <2>6 DEF Claiming, Wrote, Idle
  <2>8. \A q \in Procs \ {p} : ~Wrote(q)
    BY <1>1 DEF Wrote, LockInv, LockExclusive, InCriticalSection
  <2>9. \A q \in Procs : ~Wrote(q)'
    BY <2>6, <2>7, <2>8 DEF Wrote, Claiming
  <2>10. f.item \in used /\ f.item # 0
    BY <2>1, HolderTypes DEF HolderInv
  <2>11. \A x \in items : x.id = f.item => x.claim.by = p /\ x.claim.lease = f.lease
    <3>1. \A x \in items : x.id = f.item => x.claim = ClaimOf(p, f.lease)
      BY <2>1 DEF HolderInv
    <3>2. ClaimOf(p, f.lease).by = p /\ ClaimOf(p, f.lease).lease = f.lease
      BY DEF ClaimOf
    <3> QED BY <3>1, <3>2
  <2>12. \A q \in Windows \ {p} : Holds(q) => side[q].item # f.item
    BY <2>1 DEF HolderInv
  <2>13. \A q \in Windows \ {p} : Holds(q)' => Holds(q) /\ ~Wrote(q)
    BY <2>4, <2>5, <2>8, WindowIsProc DEF Holds
  <2>14. /\ \A q \in Windows : side'[q] # Free => side'[q].item \in used'
         /\ \A q \in Procs : Claiming(q)' => proc'[q].item \in used'
         /\ \A q \in Windows : side'[q] # Free /\ Claiming(q)' => proc'[q].item = side'[q].item
    <3>1. \A q \in Procs \ {p} : Claiming(q)' => Claiming(q)
      BY <2>6 DEF Claiming
    <3> QED BY <2>2, <2>4, <2>5, <2>6, <2>7, <2>10, <3>1, WindowIsProc DEF HolderInv
  <2>15. ASSUME NEW q \in Windows, Holds(q)', NEW x \in items', x.id = side'[q].item
         PROVE  x.claim.by = q /\ x.claim.lease = side'[q].lease
    <3>1. CASE q = p
      BY <2>2, <2>4, <2>5, <2>11, <2>15, <3>1
    <3>2. CASE q # p
      BY <2>4, <2>5, <2>13, <2>15, <3>2 DEF HolderInv
    <3> QED BY <3>1, <3>2
  <2>16. OneHolder'
    <3> SUFFICES ASSUME NEW q \in Windows, NEW r \in Windows, q # r,
                        side'[q] # Free, side'[q].item = side'[r].item
                 PROVE  side'[q].lease \in expired' \/ side'[r].lease \in expired'
      BY DEF OneHolder
    <3>1. CASE q # p /\ r # p
      BY <2>4, <2>5, <3>1 DEF HolderInv, OneHolder
    <3>2. CASE q = p
      <4>1. side'[r] = side[r] /\ side[r].item = f.item
        BY <2>2, <2>4, <3>2
      <4>2. side[r] # Free
        BY <2>10, <4>1, HolderTypes
      <4> QED BY <2>5, <2>12, <3>2, <4>1, <4>2 DEF Holds
    <3>3. CASE r = p
      <4>1. side'[q] = side[q] /\ side[q].item = f.item /\ side[q] # Free
        BY <2>2, <2>4, <3>3
      <4> QED BY <2>5, <2>12, <3>3, <4>1 DEF Holds
    <3> QED BY <3>1, <3>2, <3>3
  <2> QED BY <2>9, <2>14, <2>15, <2>16, WindowIsProc DEF HolderInv
<1> QED BY <1>2, <1>3

LEMMA StartClaimHolder ==
  ASSUME IInv, HolderInv, NEW p \in Windows, NEW id \in used, StartClaim(p, id),
         side[p] # Free => id = side[p].item
  PROVE  HolderInv'
<1>1. id \in ItemIds \cup {0}
  BY DEF IInv, TypeOK
<1>2. /\ proc'[p].pc = "open" /\ proc'[p].item = id
      /\ \A q \in Procs \ {p} : proc'[q] = proc[q]
      /\ UNCHANGED <<items, expired, used, side>>
  BY <1>1, StartClaimFields
<1>3. ~Wrote(p) /\ ~Wrote(p)'
  BY <1>2 DEF Wrote, Claiming, StartClaim, SideCall, Idle
<1>4. \A q \in Procs : Wrote(q)' => Wrote(q) /\ proc'[q] = proc[q]
  BY <1>2, <1>3 DEF Wrote, Claiming
<1>5. \A q \in Windows : Holds(q)' => Holds(q) /\ (Wrote(q) => Wrote(q)')
  BY <1>2, <1>3, WindowIsProc DEF Holds, Wrote, Claiming
<1>6. /\ \A q \in Windows : side'[q] # Free => side'[q].item \in used'
      /\ \A q \in Procs : Claiming(q)' => proc'[q].item \in used'
      /\ \A q \in Windows : side'[q] # Free /\ Claiming(q)' => proc'[q].item = side'[q].item
  <2>1. \A q \in Procs \ {p} : Claiming(q)' => Claiming(q)
    BY <1>2 DEF Claiming
  <2> QED BY <1>2, <2>1, WindowIsProc DEF HolderInv
<1>7. \A q \in Procs : Wrote(q)' =>
        \A x \in items' : x.id = proc'[q].item => x.claim = ClaimOf(q, proc'[q].lease)
  BY <1>2, <1>4 DEF HolderInv
<1>8. \A q \in Windows : Holds(q)' =>
        \A x \in items' : x.id = side'[q].item =>
          x.claim.by = q /\ (x.claim.lease = side'[q].lease \/ Wrote(q)')
  BY <1>2, <1>5 DEF HolderInv
<1>9. \A q, r \in Windows : Holds(q)' /\ Wrote(r)' /\ q # r => side'[q].item # proc'[r].item
  BY <1>2, <1>4, <1>5, WindowIsProc DEF HolderInv
<1>10. OneHolder'
  BY <1>2 DEF HolderInv, OneHolder
<1> QED BY <1>6, <1>7, <1>8, <1>9, <1>10 DEF HolderInv

\* Time goes by, and a prompt is run.
LEMMA TimeHolder ==
  ASSUME IInv, HolderInv
  PROVE  /\ \A x \in items : Expire(x) => HolderInv'
         /\ \A p \in Windows : RunPrompt(p) => HolderInv'
<1>1. ASSUME NEW x \in items, Expire(x)
      PROVE  HolderInv'
  <2>1. expired \subseteq expired' /\ UNCHANGED <<items, used, side, proc>>
    BY <1>1 DEF Expire
  <2>2. \A q \in Windows : Holds(q)' => Holds(q)
    BY <2>1 DEF Holds
  <2>3. OneHolder'
    BY <2>1 DEF HolderInv, OneHolder
  <2> QED BY <2>1, <2>2, <2>3 DEF HolderInv, Wrote, Claiming
<1>2. ASSUME NEW p \in Windows, RunPrompt(p)
      PROVE  HolderInv'
  <2>1. UNCHANGED <<items, used, expired, proc>> /\ side[p].stage = "claimed"
    BY <1>2 DEF RunPrompt
  <2>2. \A q \in Windows : side'[q].item = side[q].item /\ side'[q].lease = side[q].lease
    BY <1>2 DEF RunPrompt, IInv, TypeOK, Side
  <2>3. \A q \in Windows : side'[q] # Free => side[q] # Free
    BY <1>2, <2>1 DEF RunPrompt, IInv, TypeOK, Free
  <2>4. \A q \in Windows : Holds(q)' => Holds(q)
    BY <2>1, <2>2, <2>3 DEF Holds
  <2>5. OneHolder'
    BY <2>1, <2>2, <2>3 DEF HolderInv, OneHolder
  <2> QED BY <2>1, <2>2, <2>3, <2>4, <2>5 DEF HolderInv, Wrote, Claiming
<1> QED BY <1>1, <1>2

LEMMA HolderNext ==
  ASSUME IInv, LockInv, QueueInv, HolderInv, [Next]_vars, "stale" \notin Faults
  PROVE  HolderInv'
<1>1. ASSUME NEW p \in Procs, Quiet(p), side' = side, ~Wrote(p)
      PROVE  HolderInv'
  BY <1>1, QuietHolder DEF SideKept
<1>2. ASSUME NEW p \in Procs, Step(p)
      PROVE  HolderInv'
  <2>1. CASE Start(p) \/ CommandEnds(p) \/ SaveTasks(p)
    <3>1. side' = side /\ ~Wrote(p)
      BY <2>1 DEF Start, CommandEnds, SaveTasks, Wrote
    <3> QED BY <1>1, <2>1, <3>1, HandlingQuiet
  <2>2. CASE Open(p) \/ Stat(p) \/ RemoveStaleLock(p)
    <3>1. ~Wrote(p)
      BY <2>2 DEF Open, Stat, RemoveStaleLock, Wrote
    <3>2. SideKept(p)
      BY <2>2 DEF Open, Stat, RemoveStaleLock, Busy, SideKept, IInv, TypeOK
    <3> QED BY <2>2, <3>1, <3>2, QuietHolder, LockFileQuiet
  <2> QED BY <1>2, <2>1, <2>2, LoadHolder, SaveHolder, ReleaseHolder DEF Step
<1>3. ASSUME NEW p \in Procs, Crash(p)
      PROVE  HolderInv'
  <2>1. SideKept(p)
    BY <1>3 DEF Crash, SideKept, IInv, TypeOK
  <2>2. Wrote(p) => side'[p] = Free
    BY <1>3, HolderTypes DEF Crash, Wrote, IInv, TypeOK
  <2> QED BY <1>3, <2>1, <2>2, QuietHolder, SideQuiet
<1>4. ASSUME NEW p \in Procs, NEW name, NEW f, Call(p, name, f)
      PROVE  side' = side /\ ~Wrote(p)
  BY <1>4 DEF Call, Wrote, Idle
<1>5. ASSUME NEW p \in Procs, Tick(p)
      PROVE  HolderInv'
  BY <1>1, <1>4, <1>5, CallsQuiet DEF Tick, IInv
<1>6. ASSUME NEW p \in Windows, NEW w \in Workflows, Add(p, w) \/ Remove(p, w) \/ Run(p, w)
      PROVE  HolderInv'
  <2>1. side' = side /\ ~Wrote(p)
    BY <1>4, <1>6, WindowIsProc DEF Add, Remove, Run
  <2> QED BY <1>1, <1>6, <2>1, CallsQuiet, WindowIsProc DEF IInv
<1>7. ASSUME NEW p \in Windows, NEW x \in items, Approve(p, x)
      PROVE  HolderInv'
  <2>1. side' = side /\ ~Wrote(p)
    BY <1>4, <1>7, WindowIsProc DEF Approve
  <2> QED BY <1>1, <1>7, <2>1, CallsQuiet, WindowIsProc DEF IInv
<1>8. ASSUME NEW p \in Windows, NEW x \in items, Poll(p, x)
      PROVE  HolderInv'
  <2>1. x.id \in used
    BY DEF QueueInv, IdsOK
  <2> QED BY <1>8, <2>1, StartClaimHolder DEF Poll
<1>9. ASSUME NEW p \in Windows, Renew(p)
      PROVE  HolderInv'
  <2>1. side[p].item \in used
    BY <1>9 DEF Renew, HolderInv
  <2> QED BY <1>9, <2>1, StartClaimHolder DEF Renew
<1>10. ASSUME NEW p \in Windows, Acknowledge(p)
       PROVE  HolderInv'
  <2>1. side' = side /\ ~Wrote(p)
    BY <1>10 DEF Acknowledge, SideCall, Wrote, Idle
  <2> QED BY <1>1, <1>10, <2>1, SideQuiet, WindowIsProc
<1>11. ~LockAges
  BY DEF LockAges
<1>12. CASE UNCHANGED vars
  BY <1>12 DEF vars, HolderInv, OneHolder, Holds, Wrote, Claiming
<1> QED BY <1>2, <1>3, <1>5, <1>6, <1>7, <1>8, <1>9, <1>10, <1>11, <1>12, TimeHolder DEF Next

\* Two sidebars work on one item only when a lease has run out: claims are
\* checked and written under the lock, and renewed on the latest items
\* (claimPendingWork, the poll in Sidebar.tsx).
THEOREM OneHolderAlways ==
  ASSUME "stale" \notin Faults
  PROVE  Spec => []OneHolder
<1>1. Init => HolderInv
  <2> SUFFICES ASSUME Init
               PROVE  HolderInv
    OBVIOUS
  <2>1. /\ \A p \in Procs : ~Claiming(p) /\ ~Wrote(p)
        /\ \A p \in Windows : side[p] = Free /\ ~Holds(p)
    BY DEF Init, Claiming, Wrote, Holds, Idle
  <2> QED BY <2>1, WindowIsProc DEF HolderInv, OneHolder
<1>2. IInv /\ LockInv /\ QueueInv /\ HolderInv /\ [Next]_vars => HolderInv'
  BY HolderNext
<1>3. HolderInv => OneHolder
  BY DEF HolderInv
<1> QED BY <1>1, <1>2, <1>3, WorkInductive, LockInductive, QueueInductive, PTL DEF Spec

-----------------------------------------------------------------------------
(***************************************************************************)
(* Scheduled work, whatever locks go stale.  What holds of tasks.json      *)
(* holds of every copy of it, as a copy is marked only when the workflow   *)
(* was handled.                                                            *)
(***************************************************************************)
Known(store) == \A w \in Once : store[w] = "off" => w \in handled
ScheduledInv == Known(tasks) /\ \A p \in Procs : Known(proc[p].store)

LEMMA KnownStep ==
  ASSUME IInv, ScheduledInv, NEW p \in Procs, NEW f, Set(p, f), Known(f.store)',
         handled \subseteq handled', tasks' \in {tasks, proc[p].store}
  PROVE  ScheduledInv'
<1>1. proc'[p] = f /\ \A q \in Procs \ {p} : proc'[q] = proc[q]
  BY SetProc
<1>2. Known(tasks)'
  BY DEF ScheduledInv, Known
<1>3. ASSUME NEW q \in Procs
      PROVE  Known(proc[q].store)'
  <2>1. CASE q = p
    BY <1>1, <2>1
  <2>2. CASE q # p
    BY <1>1, <2>2 DEF ScheduledInv, Known
  <2> QED BY <2>1, <2>2
<1> QED BY <1>2, <1>3 DEF ScheduledInv

LEMMA HandleStore ==
  ASSUME NEW f \in Process, NEW store, NEW todo
  PROVE  Handle(f, store, todo).store = store
BY DEF Handle, Process

LEMMA MarkKnown ==
  ASSUME NEW store \in Store, NEW w \in Workflows, Known(store),
         handled' = handled \cup {w}
  PROVE  Known(Mark(store, w))'
<1>1. Once \subseteq Workflows
  BY WorkAssumption DEF WorkAssumption
<1>2. \A v \in Workflows : v # w => Mark(store, w)[v] = store[v]
  BY DEF Mark, Store
<1>3. \A v \in Once : Mark(store, w)[v] = "off" => v = w \/ store[v] = "off"
  BY <1>1, <1>2
<1> QED BY <1>3 DEF Known

LEMMA IdleKnown ==
  /\ Idle \in Process
  /\ \A store : (\A w \in Workflows : store[w] = "absent") => Known(store)
  /\ \A w \in Workflows : Idle.store[w] = "absent" /\ Dead.store[w] = "absent"
<1>1. Idle \in Process
  BY IdleOutside
<1>2. \A w \in Workflows : Idle.store[w] = "absent" /\ Dead.store[w] = "absent"
  BY <1>1 DEF Idle, Dead, Process
<1>3. Once \subseteq Workflows
  BY WorkAssumption DEF WorkAssumption
<1> QED BY <1>1, <1>2, <1>3 DEF Known

LEMMA RestKnown ==
  ASSUME IInv, ScheduledInv, NEW p \in Procs, NEW f \in {Idle, Dead}, Set(p, f),
         handled \subseteq handled', tasks' \in {tasks, proc[p].store}
  PROVE  ScheduledInv'
<1>1. \A w \in Once : f.store[w] = "absent"
  BY IdleKnown, WorkAssumption DEF WorkAssumption
<1>2. Known(f.store)'
  BY <1>1 DEF Known
<1> QED BY <1>2, KnownStep

\* A step that keeps the copy.
LEMMA SameKnown ==
  ASSUME IInv, ScheduledInv, NEW p \in Procs, NEW f, Set(p, f), f.store = proc[p].store,
         UNCHANGED handled, tasks' \in {tasks, proc[p].store}
  PROVE  ScheduledInv'
<1>1. Known(f.store)'
  BY DEF ScheduledInv, Known
<1> QED BY <1>1, KnownStep

LEMMA CallKnown ==
  ASSUME IInv, ScheduledInv, NEW p \in Procs, NEW name, NEW f \in Process, Call(p, name, f),
         Known(f.store)
  PROVE  ScheduledInv'
<1> DEFINE g == [f EXCEPT !.call = name]
<1>1. g.store = f.store
  BY DEF Process
<1>2. Set(p, g) /\ tasks' = tasks /\ handled' = handled
  BY DEF Call, history
<1> HIDE DEF g
<1>3. Known(g.store)'
  BY <1>1, <1>2 DEF Known
<1> QED BY <1>2, <1>3, KnownStep

LEMMA CallsKnown ==
  ASSUME IInv, ScheduledInv
  PROVE  /\ \A p \in Procs : Tick(p) => ScheduledInv'
         /\ \A p \in Windows, w \in Workflows :
              Add(p, w) \/ Remove(p, w) \/ Run(p, w) => ScheduledInv'
         /\ \A p \in Windows, x \in items : Approve(p, x) => ScheduledInv'
<1>1. tasks \in Store /\ Known(tasks) /\ Once \subseteq Workflows
  BY WorkAssumption DEF IInv, TypeOK, ScheduledInv, WorkAssumption
<1> DEFINE h(store, todo) == Handle(Idle, store, todo)
<1>2. \A store \in Store, todo \in SUBSET Workflows :
        h(store, todo) \in Process /\ h(store, todo).store = store
  BY IdleOutside, HandleFields, HandleStore
<1> HIDE DEF h
<1>3. ASSUME NEW p \in Procs, Tick(p)
      PROVE  ScheduledInv'
  <2>1. PICK todo \in SUBSET Workflows : Call(p, "tick", h(tasks, todo))
    BY <1>3 DEF Tick, h
  <2> QED BY <1>1, <1>2, <2>1, CallKnown
<1>4. ASSUME NEW p \in Windows, NEW w \in Workflows, Run(p, w)
      PROVE  ScheduledInv'
  <2>1. Call(p, "run", h(tasks, {w})) \/ Call(p, "enqueue", h(tasks, {w}))
    BY <1>4 DEF Run, h
  <2>2. {w} \in SUBSET Workflows
    OBVIOUS
  <2> QED BY <1>1, <1>2, <2>1, <2>2, CallKnown, WindowIsProc
<1>5. ASSUME NEW p \in Windows, NEW w \in Workflows, Add(p, w) \/ Remove(p, w)
      PROVE  ScheduledInv'
  <2>1. PICK store \in Store : /\ \E name : Call(p, name, [h(store, {}) EXCEPT !.w = w])
                               /\ Known(store)
    <3>1. \A s \in {"on", "absent"} : /\ [tasks EXCEPT ![w] = s] \in Store
                                      /\ Known([tasks EXCEPT ![w] = s])
      BY <1>1 DEF Store, Known
    <3> QED BY <1>5, <3>1 DEF Add, Remove, h
  <2>2. h(store, {}) \in Process /\ h(store, {}).store = store
    BY <1>2
  <2>3. /\ [h(store, {}) EXCEPT !.w = w] \in Process
        /\ [h(store, {}) EXCEPT !.w = w].store = store
    BY <2>2 DEF Process
  <2> QED BY <2>1, <2>3, CallKnown, WindowIsProc
<1>6. ASSUME NEW p \in Windows, NEW x \in items, Approve(p, x)
      PROVE  ScheduledInv'
  <2>1. {x.workflow} \in SUBSET Workflows /\ x.id \in ItemIds
    BY DEF IInv, TypeOK, Item
  <2>2. h(tasks, {x.workflow}) \in Process /\ h(tasks, {x.workflow}).store = tasks
    BY <1>1, <1>2, <2>1
  <2>3. Call(p, "approve", [h(tasks, {x.workflow}) EXCEPT !.item = x.id])
    BY <1>6 DEF Approve, h
  <2>4. /\ [h(tasks, {x.workflow}) EXCEPT !.item = x.id] \in Process
        /\ [h(tasks, {x.workflow}) EXCEPT !.item = x.id].store = tasks
    BY <2>1, <2>2 DEF Process
  <2> QED BY <1>1, <2>3, <2>4, CallKnown, WindowIsProc
<1> QED BY <1>3, <1>4, <1>5, <1>6

LEMMA StepKnown ==
  ASSUME IInv, ScheduledInv, NEW p \in Procs, Step(p)
  PROVE  ScheduledInv'
<1> DEFINE f == proc[p]
<1>1. /\ f \in Process /\ f \in Legal(p) /\ f.store \in Store /\ f.todo \in SUBSET Workflows
      /\ Known(f.store)
  BY DEF IInv, TypeOK, Process, ScheduledInv
<1>2. ASSUME NEW w \in Workflows, NEW g \in Process, NEW todo, g.store = f.store,
             Set(p, Handle(g, Mark(f.store, w), todo)), handled' = handled \cup {w}, tasks' = tasks
      PROVE  ScheduledInv'
  <2>1. PICK store \in Store : store = f.store /\ Known(store)
    BY <1>1
  <2>2. PICK h : h = Handle(g, Mark(store, w), todo)
    OBVIOUS
  <2>3. h.store = Mark(store, w) /\ Set(p, h)
    BY <1>2, <2>1, <2>2, HandleStore
  <2>4. Known(Mark(store, w))'
    BY <1>2, <2>1, MarkKnown
  <2>5. Known(h.store)'
    BY <2>3, <2>4
  <2> QED BY <1>2, <2>3, <2>5, KnownStep
<1>3. CASE Start(p)
  <2>1. PICK w \in f.todo :
          \/ /\ handled' = handled
             /\ \E pc : Set(p, [[f EXCEPT !.w = w] EXCEPT !.pc = pc])
          \/ /\ Set(p, Handle([f EXCEPT !.w = w], Mark([f EXCEPT !.w = w].store, w), {}))
             /\ handled' = handled \cup {w}
    BY <1>3 DEF Start
  <2> DEFINE g == [f EXCEPT !.w = w]
  <2>2. g \in Process /\ g.store = f.store /\ w \in Workflows /\ tasks' = tasks
    BY <1>1, <1>3 DEF Process, Start
  <2>3. \A pc : [g EXCEPT !.pc = pc].store = f.store
    BY <2>2 DEF Process
  <2> HIDE DEF g
  <2> QED BY <1>2, <2>1, <2>2, <2>3, SameKnown DEF g
<1>4. CASE CommandEnds(p)
  <2>1. /\ Set(p, Handle(f, Mark(f.store, f.w), f.todo \ {f.w}))
        /\ handled' = handled \cup {f.w} /\ tasks' = tasks
    BY <1>4 DEF CommandEnds
  <2>2. f.w \in Workflows
    BY <1>1, <1>4 DEF CommandEnds, Legal, UsesWorkflow
  <2> QED BY <1>1, <1>2, <2>1, <2>2
<1>5. CASE SaveTasks(p)
  <2>1. [f EXCEPT !.pc = "open"].store = f.store
    BY <1>1 DEF Process
  <2>2. /\ Set(p, [f EXCEPT !.pc = "open"]) \/ Set(p, Idle)
        /\ tasks' = f.store /\ handled' = handled
    BY <1>5 DEF SaveTasks
  <2> QED BY <2>1, <2>2, SameKnown, RestKnown
<1>6. CASE Open(p) \/ Stat(p) \/ RemoveStaleLock(p)
  <2>1. /\ handled' = handled /\ tasks' = tasks
        /\ Busy(p) \/ \E pc : Set(p, [f EXCEPT !.pc = pc])
    BY <1>6 DEF Open, Stat, RemoveStaleLock, history
  <2>2. \A pc : [f EXCEPT !.pc = pc].store = f.store
    BY <1>1 DEF Process
  <2>3. SkipBusy(f).store = f.store
    BY <1>1, HandleStore DEF SkipBusy
  <2>4. Busy(p) => Set(p, SkipBusy(f)) \/ Set(p, Idle)
    BY DEF Busy
  <2> QED BY <2>1, <2>2, <2>3, <2>4, SameKnown, RestKnown
<1>7. CASE Load(p) \/ Save(p)
  <2>1. /\ handled' = handled /\ tasks' = tasks
        /\ \E draft, found : Set(p, Write(f, draft)) \/ Set(p, Found(f, found))
    BY <1>7 DEF Load, Save, history
  <2>2. \A draft, found : Write(f, draft).store = f.store /\ Found(f, found).store = f.store
    BY <1>1 DEF Write, Found, Process
  <2> QED BY <2>1, <2>2, SameKnown
<1>8. CASE Release(p)
  <2> DEFINE g == [f EXCEPT !.draft = {}, !.found = FALSE]
  <2>1. g \in Process /\ g.store = f.store
    BY <1>1 DEF Process
  <2>2. /\ tasks' = tasks
        /\ \/ /\ f.call \in {"tick", "enqueue"} /\ handled' = handled \cup {f.w}
              /\ Set(p, Handle(g, Mark(f.store, f.w), f.todo \ {f.w}))
           \/ Set(p, Idle) /\ handled' = handled
    BY <1>8 DEF Release
  <2>3. f.call \in {"tick", "enqueue"} => f.w \in Workflows
    BY <1>1, <1>8 DEF Release, Legal, UsesWorkflow
  <2> HIDE DEF g
  <2> QED BY <1>2, <2>1, <2>2, <2>3, RestKnown
<1> QED BY <1>3, <1>4, <1>5, <1>6, <1>7, <1>8 DEF Step

\* A workflow scheduled once is not switched off unhandled (tickWorkflows).
THEOREM ScheduledAlwaysKept == Spec => []ScheduledNotLost
<1>1. Init => ScheduledInv
  <2> SUFFICES ASSUME Init
               PROVE  ScheduledInv
    OBVIOUS
  <2>1. Known(tasks)
    BY WorkAssumption DEF Init, Known, WorkAssumption
  <2>2. \A p \in Procs : proc[p] = Idle
    BY DEF Init
  <2> QED BY <2>1, <2>2, IdleKnown DEF ScheduledInv
<1>2. IInv /\ ScheduledInv /\ [Next]_vars => ScheduledInv'
  <2> SUFFICES ASSUME IInv, ScheduledInv, [Next]_vars
               PROVE  ScheduledInv'
    OBVIOUS
  <2>1. ASSUME UNCHANGED <<tasks, proc, handled>>
        PROVE  ScheduledInv'
    BY <2>1 DEF ScheduledInv, Known
  <2>2. ASSUME NEW p \in Procs, Crash(p)
        PROVE  ScheduledInv'
    BY <2>2, RestKnown DEF Crash, history
  <2>3. ASSUME NEW p \in Windows, NEW f, SideCall(p, f), f \in Process, f.store = Idle.store
        PROVE  ScheduledInv'
    <3>1. [f EXCEPT !.pc = "open"].store = Idle.store
      BY <2>3 DEF Process
    <3>2. proc[p].store = Idle.store
      BY <2>3 DEF SideCall
    <3> QED BY <2>3, <3>1, <3>2, SameKnown, WindowIsProc DEF SideCall, history
  <2>4. ASSUME NEW p \in Windows, NEW id \in ItemIds \cup {0}, StartClaim(p, id)
        PROVE  ScheduledInv'
    <3> DEFINE f == [Idle EXCEPT !.call = "claim", !.item = id, !.lease = leases + 1]
    <3>1. leases + 1 \in Leases
      BY <2>4, WorkAssumption DEF IInv, TypeOK, StartClaim, Leases, WorkAssumption
    <3>2. f \in Process /\ f.store = Idle.store
      BY <3>1, IdleOutside DEF Process, Calls
    <3>3. SideCall(p, f)
      BY <2>4 DEF StartClaim
    <3> HIDE DEF f
    <3> QED BY <2>3, <3>2, <3>3
  <2>5. ASSUME NEW p \in Windows, Acknowledge(p)
        PROVE  ScheduledInv'
    <3> DEFINE f == [Idle EXCEPT !.call = "ack", !.item = side[p].item]
    <3>1. f \in Process /\ f.store = Idle.store
      BY IdleOutside DEF Process, Calls, IInv, TypeOK, Side
    <3>2. SideCall(p, f)
      BY <2>5 DEF Acknowledge
    <3> HIDE DEF f
    <3> QED BY <2>3, <3>1, <3>2
  <2>6. ASSUME NEW p \in Windows, (\E x \in items : Poll(p, x)) \/ Renew(p)
        PROVE  ScheduledInv'
    <3>1. \E id \in ItemIds \cup {0} : StartClaim(p, id)
      BY <2>6 DEF Poll, Renew, IInv, TypeOK, Item, Side
    <3> QED BY <2>4, <3>1
  <2>7. ASSUME NEW p \in Windows, RunPrompt(p)
        PROVE  ScheduledInv'
    BY <2>1, <2>7 DEF RunPrompt
  <2>8. ASSUME (\E x \in items : Expire(x)) \/ LockAges \/ UNCHANGED vars
        PROVE  ScheduledInv'
    BY <2>1, <2>8 DEF Expire, LockAges, vars, history
  <2> QED BY <2>2, <2>5, <2>6, <2>7, <2>8, CallsKnown, StepKnown DEF Next
<1>3. ScheduledInv => ScheduledNotLost
  BY DEF ScheduledInv, Known, ScheduledNotLost
<1> QED BY <1>1, <1>2, <1>3, WorkInductive, PTL DEF Spec
=============================================================================
