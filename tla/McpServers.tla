---- MODULE McpServers ----
(* One MCP server of mcp.json: mcpService in every window, which reads the     *)
(* file and keeps the on/off setting, and mcpChannel in the main process,      *)
(* which runs the client. Calls and events travel in order; while the file,    *)
(* the settings' storage or a client is awaited, anything else may happen.     *)
EXTENDS Naturals, Sequences, FiniteSets

CONSTANTS
    Windows,      \* numbered in the order they open
    Clients,      \* identities of running clients
    NoClient,
    Slots,        \* bound: calls the main process works on at a time
    MaxVersion,   \* bound: entries the file can have for the server
    MaxOps        \* bound: edits, toggles and retries

ASSUME McpAssumption ==
    /\ Windows \subseteq Nat /\ MaxVersion \in Nat /\ MaxOps \in Nat
    /\ IsFiniteSet(Clients) /\ IsFiniteSet(Slots)
    /\ Cardinality(Clients) > Cardinality(Slots)
    /\ NoClient \notin Clients

VARIABLES
    file,         \* the server's entry in mcp.json: 0 for none, or Broken
    stored,       \* mcpUserStateOfName[server] in the application's storage
    opened,       \* the windows that run
    watching,     \* those whose start came to watching the file
    on,           \* mcpUserStateOfName[server] in a window's settings
    last,         \* _lastMCPConfig: the entry the window refreshed last
    shown,        \* state.mcpServerOfName[server]
    reads,        \* _refreshMCPServers that await the file; TRUE when forced
    pending,      \* refreshes and toggles that await the settings' storage
    calls,        \* calls under way from a window to the main process
    events,       \* onAdd, onUpdate and onDelete events under way to a window
    info,         \* infoOfClientId[server]
    refreshing,   \* _refreshingServerNames contains the server
    jobs,         \* the calls the main process works on
    running,      \* connected clients that info or a job refers to
    lost,         \* history: a client went on running with nothing to refer to it
    excused,      \* history: what was met that can lose a client, a change of the file
    ops           \* bound

diskVars == <<file, stored, ops>>
windowVars == <<opened, watching, on, last, reads, pending>>
mainVars == <<info, refreshing, jobs, running, lost>>
vars == <<diskVars, windowVars, shown, calls, events, mainVars, excused>>

Versions == 0..MaxVersion
Broken == MaxVersion + 1
Switch == {"unset", "on", "off"}
Refreshes == {"added", "removed", "updated"}
Statuses == {"none", "success", "error", "offline"}
View == [status : Statuses \cup {"loading"}, version : Versions]
Entry == [status : Statuses, version : Versions, client : Clients \cup {NoClient}]
Pending == [op : {"added", "removed", "same", "toggle"}, version : Versions, flag : BOOLEAN]
Call == [op : Refreshes \cup {"toggle"}, version : Versions, on : BOOLEAN]
Job == [op : Refreshes \cup {"toggle"}, version : Versions, on : BOOLEAN,
        stage : {"close", "connect"}, closing : Clients \cup {NoClient}]

Nothing == [status |-> "none", version |-> 0]
Loading == [status |-> "loading", version |-> 0]
Server(status, v, c) == [status |-> status, version |-> v, client |-> c]
NoEntry == Server("none", 0, NoClient)
ViewOf(e) == [status |-> e.status, version |-> e.version]
Idle == [op |-> "idle"]

(* One type invariant: state and messages have their types, and the clients    *)
(* that run are those the entry or a call in progress can still close.         *)
TypeOK ==
    /\ file \in 0..Broken /\ stored \in Switch
    /\ opened \subseteq Windows /\ watching \subseteq opened
    /\ on \in [Windows -> Switch] /\ last \in [Windows -> Versions]
    /\ shown \in [Windows -> View] /\ reads \in [Windows -> Seq(BOOLEAN)]
    /\ pending \in [Windows -> Seq(Pending)] /\ calls \in [Windows -> Seq(Call)]
    /\ events \in [Windows -> Seq(View)]
    /\ info \in Entry /\ refreshing \in BOOLEAN
    /\ jobs \in [Slots -> Job \cup {Idle}] /\ running \subseteq Clients
    /\ lost \in BOOLEAN
    /\ excused \subseteq {"client", "change"} /\ ops \in 0..MaxOps

Init ==
    /\ file \in ({0, 1} \cap Versions) \cup {Broken} /\ stored = "unset"
    /\ opened = {} /\ watching = {}
    /\ on = [w \in Windows |-> "unset"] /\ last = [w \in Windows |-> 0]
    /\ shown = [w \in Windows |-> Nothing]
    /\ reads = [w \in Windows |-> <<>>] /\ pending = [w \in Windows |-> <<>>]
    /\ calls = [w \in Windows |-> <<>>] /\ events = [w \in Windows |-> <<>>]
    /\ info = NoEntry /\ refreshing = FALSE /\ jobs = [s \in Slots |-> Idle]
    /\ running = {} /\ lost = FALSE /\ excused = {} /\ ops = 0

------------------------------------------------------------------------------
(* The windows.                                                                *)

\* A window starts: it listens to the main process and reads its settings from
\* the storage. It watches the file and refreshes only when the file can be
\* read: _removeCocoIndexMCPServers, which comes first, throws when it cannot,
\* and _initialize gives up there.
Open(w) ==
    /\ w \notin opened /\ \A u \in Windows : u < w => u \in opened
    /\ opened' = opened \cup {w}
    /\ on' = [on EXCEPT ![w] = stored]
    /\ \/ file = Broken /\ UNCHANGED <<watching, reads>>
       \/ /\ file # Broken
          /\ watching' = watching \cup {w}
          /\ reads' = [reads EXCEPT ![w] = Append(@, FALSE)]
    /\ UNCHANGED <<diskVars, last, pending, shown, calls, events, mainVars, excused>>

\* The file changes and the watcher of every window that has one starts a
\* refresh; the window that wrote it, if one did, starts one of its own.
FileBecomes(v, writers) ==
    /\ ops < MaxOps /\ ops' = ops + 1
    /\ v # file /\ file' = v
    /\ reads' = [w \in Windows |->
          reads[w] \o (IF w \in watching THEN <<FALSE>> ELSE <<>>)
                   \o (IF w \in writers THEN <<FALSE>> ELSE <<>>)]
    /\ UNCHANGED <<stored, opened, watching, on, last, pending, shown, calls, events, mainVars, excused>>

Edit(v) == FileBecomes(v, {})

\* addOrUpdateServer and removeServer, which read the file first and give up
\* when they cannot.
Save(w, v) ==
    /\ w \in opened /\ file # Broken /\ v # Broken
    /\ v = 0 => shown[w] # Nothing
    /\ FileBecomes(v, {w})

\* The settings of the window, in memory and in the storage they are written to.
SettingBecomes(w, value) ==
    /\ on' = [on EXCEPT ![w] = value]
    /\ stored' = value

\* A refresh tells what changed by an entry that another one, which awaits the
\* settings' storage, is about to replace; or it is one of a window that does
\* not watch the file, and will not hear of the file's next change.
Outdated(w) ==
    IF \/ w \notin watching
       \/ \E i \in DOMAIN pending[w] : pending[w][i].op # "toggle" /\ pending[w][i].version # last[w]
    THEN {"change"} ELSE {}

\* _refreshMCPServers once it has the file: what was added and removed is told
\* by the entry of the last refresh, before the settings' storage is awaited.
Read(w) ==
    /\ reads[w] # <<>>
    /\ reads' = [reads EXCEPT ![w] = Tail(@)]
    /\ IF file = Broken THEN UNCHANGED <<on, stored, pending, excused>>
       ELSE LET op == IF last[w] = 0 /\ file # 0 THEN "added"
                      ELSE IF last[w] # 0 /\ file = 0 THEN "removed"
                      ELSE "same"
            IN /\ SettingBecomes(w, IF op = "added" THEN "on" ELSE on[w])
               /\ pending' = [pending EXCEPT ![w] =
                     Append(@, [op |-> op, version |-> file, flag |-> Head(reads[w])])]
               /\ excused' = excused \cup Outdated(w)
    /\ UNCHANGED <<file, ops, opened, watching, last, shown, calls, events, mainVars>>

\* Mutant: only a retry updates a server that the file had before.
Change_OnlyForced(w, p) ==
    IF p.op # "same" THEN p.op
    ELSE IF p.version # 0 /\ p.flag THEN "updated"
    ELSE "none"

\* What a refresh asks of the main process, found after the settings' storage.
Change(w, p) ==
    IF p.op # "same" THEN p.op
    ELSE IF p.version # 0 /\ (p.flag \/ p.version # last[w]) THEN "updated"
    ELSE "none"

\* Mutant: the server is shown as loading before it is known to have changed.
Refresh_ShowsLoadingFirst(w) ==
    /\ pending[w] # <<>>
    /\ LET p == Head(pending[w])
           op == Change(w, p)
       IN /\ p.op # "toggle"
          /\ last' = [last EXCEPT ![w] = p.version]
          /\ shown' = [shown EXCEPT ![w] = IF p.version # 0 THEN Loading ELSE @]
          /\ calls' = IF op = "none" THEN calls ELSE
                [calls EXCEPT ![w] =
                    Append(@, [op |-> op, version |-> p.version, on |-> on[w] # "off"])]
    /\ pending' = [pending EXCEPT ![w] = Tail(@)]
    /\ UNCHANGED <<diskVars, opened, watching, on, reads, events, mainVars, excused>>

Refresh(w) ==
    /\ pending[w] # <<>>
    /\ LET p == Head(pending[w])
           op == Change(w, p)
       IN /\ p.op # "toggle"
          /\ last' = [last EXCEPT ![w] = p.version]
          /\ shown' = [shown EXCEPT ![w] = IF op \in {"added", "updated"} THEN Loading ELSE @]
          /\ calls' = IF op = "none" THEN calls ELSE
                [calls EXCEPT ![w] =
                    Append(@, [op |-> op, version |-> p.version, on |-> on[w] # "off"])]
    /\ pending' = [pending EXCEPT ![w] = Tail(@)]
    /\ UNCHANGED <<diskVars, opened, watching, on, reads, events, mainVars, excused>>

\* toggleServerIsOn, from the switch beside a server that is shown.
Toggle(w) ==
    /\ ops < MaxOps /\ ops' = ops + 1
    /\ shown[w] # Nothing
    /\ shown' = [shown EXCEPT ![w] = Loading]
    /\ SettingBecomes(w, IF on[w] = "on" THEN "off" ELSE "on")
    /\ pending' = [pending EXCEPT ![w] =
          Append(@, [op |-> "toggle", version |-> 0, flag |-> on[w] # "on"])]
    /\ UNCHANGED <<file, opened, watching, last, reads, calls, events, mainVars, excused>>

Toggled(w) ==
    /\ pending[w] # <<>>
    /\ LET p == Head(pending[w])
       IN /\ p.op = "toggle"
          /\ calls' = [calls EXCEPT ![w] =
                Append(@, [op |-> "toggle", version |-> 0, on |-> p.flag])]
    /\ pending' = [pending EXCEPT ![w] = Tail(@)]
    /\ UNCHANGED <<diskVars, opened, watching, on, last, reads, shown, events, mainVars, excused>>

\* retryServer, from the button beside a server with an error.
Retry(w) ==
    /\ ops < MaxOps /\ ops' = ops + 1
    /\ shown[w].status = "error"
    /\ file \notin {0, Broken}
    /\ SettingBecomes(w, "on")
    /\ reads' = [reads EXCEPT ![w] = Append(@, TRUE)]
    /\ UNCHANGED <<file, opened, watching, last, pending, shown, calls, events, mainVars, excused>>

\* _setMCPServerState, for an event of the main process.
Deliver(w) ==
    /\ events[w] # <<>>
    /\ shown' = [shown EXCEPT ![w] = Head(events[w])]
    /\ events' = [events EXCEPT ![w] = Tail(@)]
    /\ UNCHANGED <<diskVars, windowVars, calls, mainVars, excused>>

------------------------------------------------------------------------------
(* The main process.                                                           *)

Fire(views) ==
    events' = [w \in Windows |-> IF w \in opened THEN events[w] \o views ELSE events[w]]

\* The clients of cs that run and that the entry or a call still refers to;
\* one that does not is lost, and can never be closed again.
Keep(cs) ==
    LET kept == cs \cap ({info'.client} \cup {jobs'[s].closing : s \in {t \in Slots : jobs'[t] # Idle}})
    IN /\ running' = kept
       /\ lost' = (lost \/ kept # cs)

\* What follows _closeClient in a refresh or a toggle: the entry is deleted, or
\* the server is left off, or a client is created.
Deletes(j) == j.op \in {"removed", "updated"}
Connects(j) == j.op # "removed" /\ j.on

AfterClose(s, j, cs) ==
    /\ info' = IF j.op # "removed" /\ ~j.on THEN Server("offline", j.version, NoClient)
               ELSE IF Deletes(j) THEN NoEntry
               ELSE info
    /\ jobs' = [jobs EXCEPT ![s] =
          IF Connects(j) THEN [j EXCEPT !.stage = "connect", !.closing = NoClient] ELSE Idle]
    /\ refreshing' = IF j.op = "toggle" THEN refreshing ELSE Connects(j)
    /\ Fire((IF Deletes(j) THEN <<Nothing>> ELSE <<>>)
              \o (IF j.op # "removed" /\ ~j.on THEN <<ViewOf(info')>> ELSE <<>>))
    /\ Keep(cs)

\* A refresh returns early when one is in progress, a toggle when there is no
\* entry.
Refused(c) == IF c.op = "toggle" THEN info = NoEntry ELSE refreshing

Free == {s \in Slots : jobs[s] = Idle}
Busy == Free # Slots

\* A server is added that has an entry, or a call is made beside another one:
\* the first can lose a client, the second a change of the file too.
Meets(c) ==
    (IF Busy \/ (c.op = "added" /\ info # NoEntry) THEN {"client"} ELSE {})
      \cup (IF Busy THEN {"change"} ELSE {})

\* Mutant: the client of an updated server is not closed.
JobOf_LeavesOpen(c) ==
    [op |-> c.op, on |-> c.on, stage |-> "close",
     version |-> IF c.op = "toggle" THEN info.version ELSE c.version,
     closing |-> IF c.op \in {"added", "updated"} THEN NoClient ELSE info.client]

JobOf(c) ==
    [op |-> c.op, on |-> c.on, stage |-> "close",
     version |-> IF c.op = "toggle" THEN info.version ELSE c.version,
     closing |-> IF c.op = "added" THEN NoClient ELSE info.client]

Receive(w) ==
    /\ calls[w] # <<>>
    /\ calls' = [calls EXCEPT ![w] = Tail(@)]
    /\ LET c == Head(calls[w])
           j == JobOf(c)
       IN \/ /\ Refused(c)
             /\ excused' = excused \cup {"change"}
             /\ UNCHANGED <<events, mainVars>>
          \/ /\ ~Refused(c)
             /\ excused' = excused \cup Meets(c)
             /\ Free # {}
             /\ LET s == CHOOSE t \in Free : TRUE
                IN IF j.closing = NoClient THEN AfterClose(s, j, running)
                     ELSE /\ jobs' = [jobs EXCEPT ![s] = j]
                          /\ refreshing' = (refreshing \/ c.op # "toggle")
                          /\ UNCHANGED <<events, info, running, lost>>
    /\ UNCHANGED <<diskVars, windowVars, shown>>

Closed(s) ==
    /\ jobs[s] # Idle /\ jobs[s].stage = "close"
    /\ AfterClose(s, jobs[s], running \ {jobs[s].closing})
    /\ UNCHANGED <<diskVars, windowVars, shown, calls, excused>>

\* _createClient returns: the entry is written over whatever is there.
Created(s, e, cs) ==
    /\ jobs[s] # Idle /\ jobs[s].stage = "connect"
    /\ info' = e
    /\ jobs' = [jobs EXCEPT ![s] = Idle]
    /\ refreshing' = (refreshing /\ jobs[s].op = "toggle")
    /\ Fire(<<ViewOf(e)>>)
    /\ Keep(cs)
    /\ UNCHANGED <<diskVars, windowVars, shown, calls>>

NewClient == CHOOSE c \in Clients : c \notin running

Connected(s) ==
    /\ Created(s, Server("success", jobs[s].version, NewClient), running \cup {NewClient})
    /\ UNCHANGED excused

ConnectFails(s) ==
    /\ Created(s, Server("error", jobs[s].version, NoClient), running)
    /\ UNCHANGED excused

\* The client connects and cannot list its tools: the entry has no client.
ListToolsFails(s) ==
    /\ Created(s, Server("error", jobs[s].version, NoClient), running \cup {NewClient})
    /\ excused' = excused \cup {"client"}

------------------------------------------------------------------------------

Window(w) == Read(w) \/ Refresh(w) \/ Toggled(w) \/ Deliver(w)
Main(s) == Closed(s) \/ Connected(s) \/ ConnectFails(s) \/ ListToolsFails(s)
User(w) == Open(w) \/ Toggle(w) \/ Retry(w) \/ \E v \in Versions : Save(w, v)

Next ==
    \/ \E w \in Windows : Window(w) \/ Receive(w) \/ User(w)
    \/ \E s \in Slots : Main(s)
    \/ \E v \in 0..Broken : Edit(v)

Spec == Init /\ [][Next]_vars

------------------------------------------------------------------------------
(* Properties.                                                                 *)

\* A window never shows a server as loading with nothing under way that will
\* tell it what became of it, also when its own call was dropped because
\* another was in progress or found no entry; and what else it shows is, once
\* the events have arrived, what the main process has, whichever window asked.
ShownIsTrue ==
    \A w \in opened :
        IF shown[w] = Loading
        THEN \/ events[w] # <<>> \/ calls[w] # <<>> \/ Busy
             \/ \E i \in DOMAIN pending[w] : pending[w][i].op = "toggle"
        ELSE events[w] = <<>> => shown[w] \in {Nothing, ViewOf(info)}

\* A client is only left running with nothing to close it when a server was
\* added that was there already, when calls overlapped, or when its tools
\* could not be listed.
NoClientLost == lost => "client" \in excused

Quiet ==
    /\ \A w \in Windows :
          /\ reads[w] = <<>> /\ pending[w] = <<>> /\ calls[w] = <<>>
    /\ ~Busy

\* Once all is done the main process runs the entry the file has, whatever the
\* order the windows found the file's changes in, as long as one window watches
\* it, unless the main process returned early from a call, two calls overlapped,
\* a window told a change by an outdated entry, or one that does not watch the
\* file refreshed, because the user saved or retried a server there.
FollowsFile ==
    (Quiet /\ watching # {} /\ file # Broken /\ "change" \notin excused) =>
        info.version = file

====
