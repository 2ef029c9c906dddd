------------------------------- MODULE WorkMode -------------------------------
(***************************************************************************)
(* Work Mode (scripts/forge-work.mjs, forge-work-daemon.mjs, and the poll  *)
(* in sidebar-tsx/Sidebar.tsx): processes that share two files,            *)
(* tasks.json with the workflows and pending.json with the queued items.   *)
(*                                                                         *)
(* The functions of forge-work.mjs are synchronous, so a process performs  *)
(* one operation at a time, but other processes go on between any two of   *)
(* its file operations and while a command runs.  tasks.json is read and   *)
(* written without a lock; pending.json under pending.lock.                *)
(***************************************************************************)
EXTENDS Integers, FiniteSets

CONSTANTS
  Windows,      \* Forge windows, each with its MCP server and its sidebar
  Daemons,      \* schedulers
  NoOne,
  Kind,         \* Kind[w]: "prompt", "gated" or "command" (unattended)
  Once,         \* workflows scheduled once; the others are due at every tick
  MaxOps,       \* bound: ticks and calls of add, remove and run
  MaxItems,     \* bound: items queued; no run of TLC reaches it
  MaxLeases,    \* bound: claims and renewals
  WindowOps,    \* operations a window performs beside the sidebar's poll
  Faults        \* "crash", "stale" (orphaned locks age), "late" (renewals)

Procs == Windows \cup Daemons
Workflows == DOMAIN Kind
Kinds == {"prompt", "gated", "command"}
ItemIds == 1 .. MaxItems
Leases == 1 .. MaxLeases
NoClaim == [by |-> NoOne, lease |-> 0]

ASSUME WorkAssumption ==
  /\ Windows \cap Daemons = {} /\ NoOne \notin Procs
  /\ Kind \in [Workflows -> Kinds]
  /\ Once \subseteq Workflows
  /\ MaxOps \in Nat /\ MaxItems \in Nat /\ MaxLeases \in Nat
  /\ WindowOps \subseteq {"add", "remove", "run", "enqueue", "approve", "tick"}
  /\ Faults \subseteq {"crash", "stale", "late"}

VARIABLES
  tasks,     \* tasks.json: each workflow absent, enabled ("on") or "off"
  items,     \* the items of pending.json
  lock,      \* who created pending.lock, or NoOne if the file does not exist
  aged,      \* pending.lock is older than LOCK_STALE_MS
  proc,      \* what each process is doing
  side,      \* the item a window's sidebar works on
  expired,   \* leases that have run out
  used,      \* ids of items ever queued
  leases,    \* how many leases were given out
  ops,
  handled,   \* history: workflows that were queued or executed
  ran        \* history: ran[i] is the set of windows that ran item i
vars == <<tasks, items, lock, aged, proc, side, expired, used, leases, ops,
          handled, ran>>
history == <<handled, ran>>

Store == [Workflows -> {"absent", "on", "off"}]
Item == [id : ItemIds, workflow : Workflows,
         claim : [by : Windows, lease : Leases] \cup {NoClaim}]

PCs == {"idle", "dead", "each", "command", "saveTasks",
        "open", "stat", "rm", "reopen", "load", "save", "release"}
Calls == {"none", "tick", "add", "remove", "run", "enqueue", "approve",
          "claim", "ack"}

\* call: what was called; w, item, lease: its arguments; store: its copy of
\* tasks.json; todo: workflows it has yet to handle; draft: the items it will
\* write; found: the part under the lock returned something.
Process ==
  [pc : PCs, call : Calls, w : Workflows \cup {NoOne}, item : ItemIds \cup {0},
   lease : Leases \cup {0}, store : Store, todo : SUBSET Workflows,
   draft : SUBSET Item, found : BOOLEAN]
Idle == [pc |-> "idle", call |-> "none", w |-> NoOne, item |-> 0, lease |-> 0,
         store |-> [w \in Workflows |-> "absent"], todo |-> {}, draft |-> {},
         found |-> FALSE]
Dead == [Idle EXCEPT !.pc = "dead"]

Side == [item : ItemIds \cup {0}, lease : Leases \cup {0},
         stage : {"free", "claimed", "ran"}]
Free == [item |-> 0, lease |-> 0, stage |-> "free"]

Active(x) == x.claim # NoClaim /\ x.claim.lease \notin expired
InCriticalSection(p) == proc[p].pc \in {"load", "save", "release"}

Set(p, f) == proc' = [proc EXCEPT ![p] = f]

-----------------------------------------------------------------------------
\* The functions that start with a copy of tasks.json

Call(p, name, f) ==
  /\ proc[p] = Idle
  /\ IF p \in Daemons THEN name = "tick" ELSE name \in WindowOps
  /\ ops < MaxOps /\ ops' = ops + 1
  /\ Set(p, [f EXCEPT !.call = name])
  /\ UNCHANGED <<tasks, items, lock, aged, side, expired, used, leases>>
  /\ UNCHANGED history

\* Handling goes on with the next workflow, or ends by writing the copy back.
Handle(f, store, todo) ==
  [f EXCEPT !.store = store, !.todo = todo, !.w = NoOne,
            !.pc = IF todo = {} THEN "saveTasks" ELSE "each"]

\* tickWorkflows: what is due is decided once, from the copy.
Tick(p) ==
  Call(p, "tick", Handle(Idle, tasks, {w \in Workflows : tasks[w] = "on"}))

Add(p, w) ==
  /\ tasks[w] = "absent"
  /\ Call(p, "add", [Handle(Idle, [tasks EXCEPT ![w] = "on"], {}) EXCEPT !.w = w])

Remove(p, w) ==
  Call(p, "remove",
       [Handle(Idle, [tasks EXCEPT ![w] = "absent"], {}) EXCEPT !.w = w])

\* runWorkflow; a gated command is refused without approval, unless queued.
Run(p, w) ==
  /\ tasks[w] # "absent"
  /\ \/ Kind[w] # "gated" /\ Call(p, "run", Handle(Idle, tasks, {w}))
     \/ Call(p, "enqueue", Handle(Idle, tasks, {w}))

\* /work-approve: the gated command of a pending item runs, then the item is
\* acknowledged.  No claim is taken.
Approve(p, x) ==
  /\ Kind[x.workflow] = "gated" /\ ~Active(x) /\ tasks[x.workflow] # "absent"
  /\ Call(p, "approve",
          [Handle(Idle, tasks, {x.workflow}) EXCEPT !.item = x.id])

\* markScheduled
Mark(store, w) == [store EXCEPT ![w] = IF w \in Once THEN "off" ELSE @]

\* One workflow of a tick or of a run: its command is started, its prompt is
\* returned to the agent that called, or it is to be queued.
Start(p) ==
  /\ proc[p].pc = "each"
  /\ \E w \in proc[p].todo :
       LET f == [proc[p] EXCEPT !.w = w] IN
       IF Kind[w] = "command" \/ f.call = "approve"
       THEN Set(p, [f EXCEPT !.pc = "command"]) /\ UNCHANGED handled
       ELSE IF f.call = "run"
       THEN /\ Set(p, Handle(f, Mark(f.store, w), {}))
            /\ handled' = handled \cup {w}
       ELSE Set(p, [f EXCEPT !.pc = "open"]) /\ UNCHANGED handled
  /\ UNCHANGED <<tasks, items, lock, aged, side, expired, used, leases, ops,
                 ran>>

CommandEnds(p) ==
  /\ proc[p].pc = "command"
  /\ LET f == proc[p] IN
     /\ Set(p, Handle(f, Mark(f.store, f.w), f.todo \ {f.w}))
     /\ handled' = handled \cup {f.w}
  /\ UNCHANGED <<tasks, items, lock, aged, side, expired, used, leases, ops,
                 ran>>

SaveTasks(p) ==
  /\ proc[p].pc = "saveTasks"
  /\ tasks' = proc[p].store
  /\ LET f == proc[p] IN
     Set(p, IF f.call \in {"remove", "approve"}
            THEN [f EXCEPT !.pc = "open"] ELSE Idle)
  /\ UNCHANGED <<items, lock, aged, side, expired, used, leases, ops,
                 handled, ran>>

-----------------------------------------------------------------------------
\* pending.lock

\* Mutant: a queue that is busy counts as a workflow that was queued.
SkipBusy_Marked(f) == Handle(f, Mark(f.store, f.w), f.todo \ {f.w})
SkipBusy(f) == Handle(f, f.store, f.todo \ {f.w})

\* The lock was not obtained.  tick reports the workflow as busy; claim returns
\* null; the error of enqueue and ack, and the result of remove, are ignored.
Busy(p) ==
  LET f == proc[p] IN
  /\ Set(p, IF f.call = "tick" THEN SkipBusy(f) ELSE Idle)
  /\ side' = IF f.call = "ack" THEN [side EXCEPT ![p] = Free] ELSE side

\* Mutant: a lock file that exists is no obstacle.
LockFree_Ignored == TRUE
LockFree == lock = NoOne

\* openSync with 'wx', the first time and after a stale lock was deleted.
Open(p) ==
  /\ proc[p].pc \in {"open", "reopen"}
  /\ \/ /\ LockFree
        /\ lock' = p /\ aged' = FALSE
        /\ Set(p, [proc[p] EXCEPT !.pc = "load"])
        /\ UNCHANGED side
     \/ /\ lock # NoOne
        /\ IF proc[p].pc = "open"
           THEN Set(p, [proc[p] EXCEPT !.pc = "stat"]) /\ UNCHANGED side
           ELSE Busy(p)
        /\ UNCHANGED <<lock, aged>>
  /\ UNCHANGED <<tasks, items, expired, used, leases, ops>>
  /\ UNCHANGED history

Stat(p) ==
  /\ proc[p].pc = "stat"
  /\ IF lock # NoOne /\ aged
     THEN Set(p, [proc[p] EXCEPT !.pc = "rm"]) /\ UNCHANGED side
     ELSE Busy(p)
  /\ UNCHANGED <<tasks, items, lock, aged, expired, used, leases, ops>>
  /\ UNCHANGED history

RemoveStaleLock(p) ==
  /\ proc[p].pc = "rm"
  /\ lock' = NoOne /\ aged' = FALSE
  /\ Set(p, [proc[p] EXCEPT !.pc = "reopen"])
  /\ UNCHANGED <<tasks, items, side, expired, used, leases, ops>>
  /\ UNCHANGED history

\* An id that no item has had.
Taken == used \cup {x.id : x \in UNION {proc[p].draft : p \in Procs}}
Fresh == CHOOSE id \in ItemIds \ Taken : TRUE

\* Mutant: claimed items count as queued as well; none is looked for.
Waiting_None(w) == {}
Waiting(w) == {x \in items : x.workflow = w /\ ~Active(x)}

\* Mutant: an item is claimed whoever holds it.
Claimable_Always(x, p) == TRUE
Claimable(x, p) == Active(x) => x.claim.by = p

ClaimOf(p, lease) == [by |-> p, lease |-> lease]

Write(f, draft) == [f EXCEPT !.draft = draft, !.found = TRUE, !.pc = "save"]
Found(f, found) == [f EXCEPT !.found = found, !.pc = "release"]

\* The callback reads the items and decides what it will write.
Load(p) ==
  /\ proc[p].pc = "load"
  /\ ItemIds \ Taken # {}
  /\ LET f == proc[p]
         mine == {x \in items : x.id = f.item}
     IN Set(p,
          CASE f.call \in {"tick", "enqueue"} ->
                 IF Waiting(f.w) # {} THEN Found(f, TRUE)
                 ELSE Write(f, items \cup {[id |-> Fresh, workflow |-> f.w,
                                            claim |-> NoClaim]})
            [] f.call = "claim" ->
                 IF \E x \in mine : Claimable(x, p)
                 THEN Write(f, (items \ mine) \cup
                        {[x EXCEPT !.claim = ClaimOf(p, f.lease)] : x \in mine})
                 ELSE Found(f, FALSE)
            [] f.call \in {"ack", "approve"} ->
                 IF mine # {} THEN Write(f, items \ mine) ELSE Found(f, FALSE)
            [] OTHER -> Write(f, {x \in items : x.workflow # f.w}))
  /\ UNCHANGED <<tasks, items, lock, aged, side, expired, used, leases, ops>>
  /\ UNCHANGED history

Save(p) ==
  /\ proc[p].pc = "save"
  /\ items' = proc[p].draft
  /\ used' = used \cup {x.id : x \in proc[p].draft}
  /\ Set(p, Found(proc[p], TRUE))
  /\ UNCHANGED <<tasks, lock, aged, side, expired, leases, ops>>
  /\ UNCHANGED history

\* The lock file is deleted, whoever created it, and the function returns.
Release(p) ==
  /\ proc[p].pc = "release"
  /\ lock' = NoOne /\ aged' = FALSE
  /\ LET f == proc[p] IN
     /\ Set(p, IF f.call \in {"tick", "enqueue"}
               THEN Handle([f EXCEPT !.draft = {}, !.found = FALSE],
                           Mark(f.store, f.w), f.todo \ {f.w})
               ELSE Idle)
     /\ handled' = IF f.call \in {"tick", "enqueue"}
                   THEN handled \cup {f.w} ELSE handled
     /\ side' = CASE f.call = "claim" /\ f.found ->
                       [side EXCEPT ![p] =
                          [item |-> f.item, lease |-> f.lease,
                           stage |-> IF @.stage = "free" THEN "claimed"
                                     ELSE @.stage]]
                  [] f.call = "ack" -> [side EXCEPT ![p] = Free]
                  [] OTHER -> side
  /\ UNCHANGED <<tasks, items, expired, used, leases, ops, ran>>

-----------------------------------------------------------------------------
\* The poll of a sidebar, through the MCP server of its window

SideCall(p, f) ==
  /\ proc[p] = Idle
  /\ Set(p, [f EXCEPT !.pc = "open"])
  /\ UNCHANGED <<tasks, items, lock, aged, side, expired, used, ops>>
  /\ UNCHANGED history

StartClaim(p, id) ==
  /\ leases < MaxLeases /\ leases' = leases + 1
  /\ SideCall(p, [Idle EXCEPT !.call = "claim", !.item = id, !.lease = leases + 1])

\* An item that was listed as pending is claimed.
Poll(p, x) ==
  /\ side[p] = Free
  /\ Kind[x.workflow] = "prompt" /\ ~Active(x)
  /\ StartClaim(p, x.id)

\* The timer that renews the claim until the item is acknowledged.
Renew(p) ==
  /\ side[p] # Free
  /\ StartClaim(p, side[p].item)

\* The prompt is sent to a new chat thread; the agent run is not awaited.
RunPrompt(p) ==
  /\ side[p].stage = "claimed"
  /\ side' = [side EXCEPT ![p].stage = "ran"]
  /\ ran' = [ran EXCEPT ![side[p].item] = @ \cup {p}]
  /\ UNCHANGED <<tasks, items, lock, aged, proc, expired, used, leases, ops,
                 handled>>

Acknowledge(p) ==
  /\ side[p].stage = "ran"
  /\ UNCHANGED leases
  /\ SideCall(p, [Idle EXCEPT !.call = "ack", !.item = side[p].item])

-----------------------------------------------------------------------------
\* Time and failures

\* A lease runs out.  The sidebar that works on an item renews its claim every
\* ten minutes of a lease of sixty: without "late" it does so in time.
Expire(x) ==
  /\ Active(x)
  /\ \/ "late" \in Faults
     \/ \A p \in Windows :
          /\ side[p].lease # x.claim.lease
          /\ ~(proc[p].call = "claim" /\ proc[p].lease = x.claim.lease)
  /\ expired' = expired \cup {x.claim.lease}
  /\ UNCHANGED <<tasks, items, lock, aged, proc, side, used, leases, ops>>
  /\ UNCHANGED history

\* A lock file gets older than 30 s when its process died; a process that lives
\* reads and writes a small file meanwhile.
LockAges ==
  /\ "stale" \in Faults
  /\ lock # NoOne /\ proc[lock] = Dead /\ ~aged
  /\ aged' = TRUE
  /\ UNCHANGED <<tasks, items, lock, proc, side, expired, used, leases, ops>>
  /\ UNCHANGED history

\* A process dies; its lock file and its claims stay.
Crash(p) ==
  /\ "crash" \in Faults
  /\ proc[p] # Dead
  /\ Set(p, Dead)
  /\ side' = IF p \in Windows THEN [side EXCEPT ![p] = Free] ELSE side
  /\ UNCHANGED <<tasks, items, lock, aged, expired, used, leases, ops>>
  /\ UNCHANGED history

-----------------------------------------------------------------------------
Init ==
  /\ tasks \in [Workflows -> {"absent", "on"}]
  /\ items = {} /\ lock = NoOne /\ aged = FALSE
  /\ proc = [p \in Procs |-> Idle]
  /\ side = [p \in Windows |-> Free]
  /\ expired = {} /\ used = {} /\ leases = 0 /\ ops = 0
  /\ handled = {}
  /\ ran = [i \in ItemIds |-> {}]

Step(p) ==
  \/ Start(p) \/ CommandEnds(p) \/ SaveTasks(p)
  \/ Open(p) \/ Stat(p) \/ RemoveStaleLock(p) \/ Load(p) \/ Save(p) \/ Release(p)

Next ==
  \/ \E p \in Procs : Step(p) \/ Tick(p) \/ Crash(p)
  \/ \E p \in Windows :
       \/ \E w \in Workflows : Add(p, w) \/ Remove(p, w) \/ Run(p, w)
       \/ \E x \in items : Approve(p, x) \/ Poll(p, x)
       \/ Renew(p) \/ RunPrompt(p) \/ Acknowledge(p)
  \/ \E x \in items : Expire(x)
  \/ LockAges

Spec == Init /\ [][Next]_vars

-----------------------------------------------------------------------------
\* Properties

\* Every variable keeps its type.
TypeOK ==
  /\ tasks \in Store /\ items \subseteq Item
  /\ lock \in Procs \cup {NoOne} /\ aged \in BOOLEAN
  /\ proc \in [Procs -> Process] /\ side \in [Windows -> Side]
  /\ expired \subseteq Leases /\ used \subseteq ItemIds
  /\ leases \in 0 .. MaxLeases /\ ops \in 0 .. MaxOps
  /\ handled \subseteq Workflows
  /\ ran \in [ItemIds -> SUBSET Windows]

\* One process at a time is between reading and releasing pending.json, and the
\* lock file is its own (withPendingLock), if no lock is taken to be stale.
LockExclusive ==
  /\ \A p, q \in Procs : InCriticalSection(p) /\ InCriticalSection(q) => p = q
  /\ \A p \in Procs : InCriticalSection(p) => lock = p

\* Two sidebars work on one item only when the lease of one of them has run out
\* while it worked (claimPendingWork, the poll in Sidebar.tsx).
OneHolder ==
  \A p, q \in Windows :
    side[p] # Free /\ side[p].item = side[q].item =>
      p = q \/ side[p].lease \in expired \/ side[q].lease \in expired

\* A workflow scheduled once is not switched off in tasks.json before it was
\* queued or executed: a busy queue leaves it due (tickWorkflows), and no copy
\* of tasks.json written late can switch it off.
ScheduledNotLost ==
  \A w \in Once : tasks[w] = "off" => w \in handled

\* The pending queue is the abstract one: under the lock, the operations of all
\* processes take effect one at a time on the latest items.
Queue == INSTANCE PendingQueue WITH Procs <- Windows
ImplementsQueue == Queue!Spec

=============================================================================
