--------------------------- MODULE McpServersProofs ---------------------------
(* The types of the MCP service, that it loses no client but in the ways       *)
(* NoClientLost names, that what a window shows is true, and that the main     *)
(* process follows the file, for any number of windows, calls at work,         *)
(* entries and clients.                                                        *)
EXTENDS McpServers, FiniteSetTheorems, TLAPS

------------------------------------------------------------------------------
(* The inductive invariant.                                                    *)

BusySlots == {s \in Slots : jobs[s] # Idle}
Closings == {jobs[s].closing : s \in BusySlots}

\* What runs is in the entry or about to be closed by a call.
Referred == running \subseteq {info.client} \cup Closings

\* A call that connects has closed what it had to.
ConnectClear == \A s \in BusySlots : jobs[s].stage = "connect" => jobs[s].closing = NoClient

\* As long as no two calls overlapped and no server was added twice, the one
\* call at work knows the client of the entry, or nothing runs.
Alone ==
    "client" \notin excused =>
        /\ ~lost
        /\ \A s, t \in BusySlots : s = t
        /\ running \subseteq {info.client}
        /\ \A s \in BusySlots : IF jobs[s].stage = "close" THEN jobs[s].closing = info.client
                                ELSE running = {}

IInv == TypeOK /\ Referred /\ ConnectClear /\ Alone

------------------------------------------------------------------------------
(* Sequences of the windows.                                                   *)

LEMMA QueueAppend ==
  ASSUME NEW S, NEW f \in [Windows -> Seq(S)], NEW w \in Windows, NEW x \in S
  PROVE  [f EXCEPT ![w] = Append(@, x)] \in [Windows -> Seq(S)]
<1>1. Append(f[w], x) \in Seq(S)
  OBVIOUS
<1> QED BY <1>1

LEMMA QueueTail ==
  ASSUME NEW S, NEW f \in [Windows -> Seq(S)], NEW w \in Windows, f[w] # <<>>
  PROVE  /\ [f EXCEPT ![w] = Tail(@)] \in [Windows -> Seq(S)]
         /\ Head(f[w]) \in S
<1>1. Tail(f[w]) \in Seq(S) /\ Head(f[w]) \in S
  OBVIOUS
<1> QED BY <1>1

\* What Fire puts on the way.
LEMMA FireType ==
  ASSUME TypeOK, NEW views \in Seq(View), Fire(views)
  PROVE  events' \in [Windows -> Seq(View)]
<1>1. \A w \in Windows : events[w] \in Seq(View)
  BY DEF TypeOK
<1>2. \A w \in Windows : events[w] \o views \in Seq(View)
  BY <1>1
<1> HIDE DEF View
<1> QED BY <1>1, <1>2 DEF Fire

\* The types the steps of a window leave to those of the main process.
MainTypes ==
    /\ info \in Entry /\ refreshing \in BOOLEAN
    /\ jobs \in [Slots -> Job \cup {Idle}] /\ running \subseteq Clients
    /\ lost \in BOOLEAN

\* A step of a window or of the user says nothing to the main process.
LEMMA WindowFrame ==
  ASSUME IInv, TypeOK', UNCHANGED mainVars, "client" \in excused => "client" \in excused'
  PROVE  IInv'
BY DEF IInv, mainVars, Referred, ConnectClear, Alone, BusySlots, Closings

LEMMA MainFrame ==
  ASSUME TypeOK, UNCHANGED mainVars
  PROVE  MainTypes'
BY DEF TypeOK, MainTypes, mainVars

------------------------------------------------------------------------------
(* The windows' steps.                                                         *)

LEMMA OpenStep ==
  ASSUME IInv, NEW w \in Windows, Open(w)
  PROVE  IInv'
<1> USE DEF IInv
<1>1. /\ opened' = opened \cup {w} /\ on' = [on EXCEPT ![w] = stored]
      /\ watching' = watching \/ watching' = watching \cup {w}
      /\ reads' = reads \/ reads' = [reads EXCEPT ![w] = Append(@, FALSE)]
      /\ UNCHANGED <<file, stored, ops, last, pending, shown, calls, events, mainVars, excused>>
  BY DEF Open, diskVars
<1>2. reads' \in [Windows -> Seq(BOOLEAN)]
  <2>1. reads \in [Windows -> Seq(BOOLEAN)] /\ FALSE \in BOOLEAN
    BY DEF TypeOK
  <2>2. [reads EXCEPT ![w] = Append(@, FALSE)] \in [Windows -> Seq(BOOLEAN)]
    BY <2>1, QueueAppend
  <2> QED BY <1>1, <2>1, <2>2
<1>3. TypeOK'
  BY <1>1, <1>2, MainFrame DEF TypeOK, MainTypes
<1> QED BY <1>1, <1>3, WindowFrame

\* The refreshes that a change of the file starts in a window.
LEMMA FileReads ==
  ASSUME NEW v, NEW writers, FileBecomes(v, writers), NEW w \in Windows, reads[w] \in Seq(BOOLEAN)
  PROVE  /\ reads'[w] \in Seq(BOOLEAN)
         /\ w \in watching => reads'[w] # <<>>
         /\ w \notin watching /\ w \notin writers => reads'[w] = reads[w]
<1> DEFINE heard == IF w \in watching THEN <<FALSE>> ELSE <<>>
           own == IF w \in writers THEN <<FALSE>> ELSE <<>>
<1>1. reads'[w] = reads[w] \o heard \o own
  BY DEF FileBecomes
<1>2. heard \in Seq(BOOLEAN) /\ own \in Seq(BOOLEAN)
  <2>1. \A x \in BOOLEAN : <<x>> \in Seq(BOOLEAN)
    OBVIOUS
  <2>2. <<FALSE>> \in Seq(BOOLEAN) /\ <<>> \in Seq(BOOLEAN)
    BY <2>1
  <2> QED BY <2>2
<1>3. w \in watching => Len(heard) = 1
  OBVIOUS
<1>4. w \notin watching /\ w \notin writers => heard = <<>> /\ own = <<>>
  OBVIOUS
<1> HIDE DEF heard, own
<1>5. /\ reads[w] \o heard \in Seq(BOOLEAN)
      /\ Len(reads[w] \o heard) = Len(reads[w]) + Len(heard)
      /\ Len(reads[w]) \in Nat /\ Len(heard) \in Nat /\ Len(own) \in Nat
  BY <1>2
<1>6. /\ reads'[w] \in Seq(BOOLEAN)
      /\ Len(reads'[w]) = Len(reads[w]) + Len(heard) + Len(own)
  BY <1>1, <1>2, <1>5
<1>7. w \in watching => reads'[w] # <<>>
  BY <1>3, <1>5, <1>6
<1>8. reads[w] \o <<>> = reads[w]
  OBVIOUS
<1> QED BY <1>1, <1>4, <1>6, <1>7, <1>8

LEMMA FileStep ==
  ASSUME IInv, NEW v \in 0..Broken, NEW writers, FileBecomes(v, writers)
  PROVE  IInv'
<1> USE DEF IInv
<1>1. /\ ops < MaxOps /\ ops' = ops + 1 /\ file' = v
      /\ UNCHANGED <<stored, opened, watching, on, last, pending, shown, calls, events, mainVars, excused>>
  BY DEF FileBecomes
<1>2. ops' \in 0..MaxOps
  BY <1>1, McpAssumption DEF TypeOK
<1>3. reads' \in [Windows -> Seq(BOOLEAN)]
  <2>1. \A w \in Windows : reads[w] \in Seq(BOOLEAN)
    BY DEF TypeOK
  <2>2. \A w \in Windows : reads'[w] \in Seq(BOOLEAN)
    BY <2>1, FileReads
  <2> QED BY <2>2 DEF FileBecomes
<1>4. TypeOK'
  BY <1>1, <1>2, <1>3, MainFrame DEF TypeOK, MainTypes
<1> QED BY <1>1, <1>4, WindowFrame

LEMMA ReadStep ==
  ASSUME IInv, NEW w \in Windows, Read(w)
  PROVE  IInv'
<1> USE DEF IInv
<1>1. /\ reads[w] # <<>> /\ reads' = [reads EXCEPT ![w] = Tail(@)]
      /\ UNCHANGED <<file, ops, opened, watching, last, shown, calls, events, mainVars>>
  BY DEF Read
<1>2. reads' \in [Windows -> Seq(BOOLEAN)] /\ Head(reads[w]) \in BOOLEAN
  BY <1>1, QueueTail DEF TypeOK
<1>3. /\ on' \in [Windows -> Switch] /\ stored' \in Switch
      /\ pending' \in [Windows -> Seq(Pending)]
      /\ excused' \subseteq {"client", "change"} /\ ("client" \in excused => "client" \in excused')
  <2>1. CASE file = Broken
    BY <2>1 DEF Read, TypeOK
  <2>2. CASE file # Broken
    <3>1. PICK op \in {"added", "removed", "same"} :
            /\ SettingBecomes(w, IF op = "added" THEN "on" ELSE on[w])
            /\ pending' = [pending EXCEPT ![w] =
                  Append(@, [op |-> op, version |-> file, flag |-> Head(reads[w])])]
            /\ excused' = excused \cup Outdated(w)
      BY <2>2 DEF Read
    <3>2. file \in Versions
      BY <2>2, McpAssumption DEF TypeOK, Versions, Broken
    <3>3. [op |-> op, version |-> file, flag |-> Head(reads[w])] \in Pending
      BY <1>2, <3>2 DEF Pending
    <3>4. pending' \in [Windows -> Seq(Pending)]
      BY <3>1, <3>3, QueueAppend DEF TypeOK
    <3>5. on' \in [Windows -> Switch] /\ stored' \in Switch
      BY <3>1 DEF SettingBecomes, TypeOK, Switch
    <3>6. Outdated(w) \subseteq {"change"}
      BY DEF Outdated
    <3> QED BY <3>1, <3>4, <3>5, <3>6 DEF TypeOK
  <2> QED BY <2>1, <2>2
<1>4. TypeOK'
  BY <1>1, <1>2, <1>3, MainFrame DEF TypeOK, MainTypes
<1> QED BY <1>1, <1>3, <1>4, WindowFrame

LEMMA RefreshStep ==
  ASSUME IInv, NEW w \in Windows, Refresh(w)
  PROVE  IInv'
<1> USE DEF IInv
<1>1. /\ pending[w] # <<>> /\ pending' = [pending EXCEPT ![w] = Tail(@)]
      /\ UNCHANGED <<file, stored, ops, opened, watching, on, reads, events, mainVars, excused>>
  BY DEF Refresh, diskVars
<1>2. pending' \in [Windows -> Seq(Pending)] /\ Head(pending[w]) \in Pending
  BY <1>1, QueueTail DEF TypeOK
<1>3. PICK p \in Pending : p = Head(pending[w])
  BY <1>2
<1>4. /\ p.op # "toggle" /\ p.version \in Versions
      /\ last' = [last EXCEPT ![w] = p.version]
      /\ shown' = [shown EXCEPT ![w] = IF Change(w, p) \in {"added", "updated"} THEN Loading ELSE @]
      /\ calls' = IF Change(w, p) = "none" THEN calls ELSE
            [calls EXCEPT ![w] =
                Append(@, [op |-> Change(w, p), version |-> p.version, on |-> on[w] # "off"])]
  BY <1>3 DEF Refresh, Pending
<1>5. Change(w, p) \in Refreshes \cup {"none"}
  <2>1. p.op \in {"added", "removed", "same"}
    BY <1>4 DEF Pending
  <2> QED BY <2>1 DEF Change, Refreshes
<1>6. calls' \in [Windows -> Seq(Call)]
  <2>1. CASE Change(w, p) = "none"
    BY <1>4, <2>1 DEF TypeOK
  <2>2. CASE Change(w, p) # "none"
    <3>1. [op |-> Change(w, p), version |-> p.version, on |-> on[w] # "off"] \in Call
      BY <1>4, <1>5, <2>2 DEF Call
    <3> QED BY <1>4, <2>2, <3>1, QueueAppend DEF TypeOK
  <2> QED BY <2>1, <2>2
<1>7. shown' \in [Windows -> View] /\ last' \in [Windows -> Versions]
  <2>1. Loading \in View
    BY McpAssumption DEF Loading, View, Versions
  <2> QED BY <1>4, <2>1 DEF TypeOK
<1>8. TypeOK'
  BY <1>1, <1>2, <1>6, <1>7, MainFrame DEF TypeOK, MainTypes
<1> QED BY <1>1, <1>8, WindowFrame

LEMMA ToggleStep ==
  ASSUME IInv, NEW w \in Windows, Toggle(w)
  PROVE  IInv'
<1> USE DEF IInv
<1>1. /\ ops < MaxOps /\ ops' = ops + 1
      /\ shown' = [shown EXCEPT ![w] = Loading]
      /\ SettingBecomes(w, IF on[w] = "on" THEN "off" ELSE "on")
      /\ pending' = [pending EXCEPT ![w] =
            Append(@, [op |-> "toggle", version |-> 0, flag |-> on[w] # "on"])]
      /\ UNCHANGED <<file, opened, watching, last, reads, calls, events, mainVars, excused>>
  BY DEF Toggle
<1>2. ops' \in 0..MaxOps /\ on' \in [Windows -> Switch] /\ stored' \in Switch
  BY <1>1, McpAssumption DEF TypeOK, SettingBecomes, Switch
<1>3. [op |-> "toggle", version |-> 0, flag |-> on[w] # "on"] \in Pending
  BY McpAssumption DEF Pending, Versions
<1>4. pending' \in [Windows -> Seq(Pending)]
  BY <1>1, <1>3, QueueAppend DEF TypeOK
<1>5. shown' \in [Windows -> View]
  <2>1. Loading \in View
    BY McpAssumption DEF Loading, View, Versions
  <2> QED BY <1>1, <2>1 DEF TypeOK
<1>6. TypeOK'
  BY <1>1, <1>2, <1>4, <1>5, MainFrame DEF TypeOK, MainTypes
<1> QED BY <1>1, <1>6, WindowFrame

LEMMA ToggledStep ==
  ASSUME IInv, NEW w \in Windows, Toggled(w)
  PROVE  IInv'
<1> USE DEF IInv
<1>1. /\ pending[w] # <<>> /\ pending' = [pending EXCEPT ![w] = Tail(@)]
      /\ calls' = [calls EXCEPT ![w] =
            Append(@, [op |-> "toggle", version |-> 0, on |-> Head(pending[w]).flag])]
      /\ UNCHANGED <<file, stored, ops, opened, watching, on, last, reads, shown, events, mainVars, excused>>
  BY DEF Toggled, diskVars
<1>2. pending' \in [Windows -> Seq(Pending)] /\ Head(pending[w]) \in Pending
  BY <1>1, QueueTail DEF TypeOK
<1>3. [op |-> "toggle", version |-> 0, on |-> Head(pending[w]).flag] \in Call
  <2>1. Head(pending[w]).flag \in BOOLEAN
    BY <1>2 DEF Pending
  <2> QED BY <2>1, McpAssumption DEF Call, Versions
<1>4. calls' \in [Windows -> Seq(Call)]
  BY <1>1, <1>3, QueueAppend DEF TypeOK
<1>5. TypeOK'
  BY <1>1, <1>2, <1>4, MainFrame DEF TypeOK, MainTypes
<1> QED BY <1>1, <1>5, WindowFrame

LEMMA RetryStep ==
  ASSUME IInv, NEW w \in Windows, Retry(w)
  PROVE  IInv'
<1> USE DEF IInv
<1>1. /\ ops < MaxOps /\ ops' = ops + 1 /\ SettingBecomes(w, "on")
      /\ reads' = [reads EXCEPT ![w] = Append(@, TRUE)]
      /\ UNCHANGED <<file, opened, watching, last, pending, shown, calls, events, mainVars, excused>>
  BY DEF Retry
<1>2. ops' \in 0..MaxOps /\ on' \in [Windows -> Switch] /\ stored' \in Switch
  BY <1>1, McpAssumption DEF TypeOK, SettingBecomes, Switch
<1>3. reads' \in [Windows -> Seq(BOOLEAN)]
  BY <1>1, QueueAppend DEF TypeOK
<1>4. TypeOK'
  BY <1>1, <1>2, <1>3, MainFrame DEF TypeOK, MainTypes
<1> QED BY <1>1, <1>4, WindowFrame

LEMMA DeliverStep ==
  ASSUME IInv, NEW w \in Windows, Deliver(w)
  PROVE  IInv'
<1> USE DEF IInv
<1>1. /\ events[w] # <<>> /\ shown' = [shown EXCEPT ![w] = Head(events[w])]
      /\ events' = [events EXCEPT ![w] = Tail(@)]
      /\ UNCHANGED <<file, stored, ops, opened, watching, on, last, reads, pending, calls, mainVars, excused>>
  BY DEF Deliver, diskVars, windowVars
<1>2. events' \in [Windows -> Seq(View)] /\ Head(events[w]) \in View
  BY <1>1, QueueTail DEF TypeOK
<1>3. TypeOK'
  BY <1>1, <1>2, MainFrame DEF TypeOK, MainTypes
<1> QED BY <1>1, <1>3, WindowFrame

------------------------------------------------------------------------------
(* The main process's steps.                                                   *)

\* A step of the main process: what it has to show.
LEMMA MainStep ==
  ASSUME TypeOK, UNCHANGED <<diskVars, windowVars, shown>>, MainTypes',
         calls' \in [Windows -> Seq(Call)], events' \in [Windows -> Seq(View)],
         excused' \subseteq {"client", "change"}
  PROVE  TypeOK'
BY DEF TypeOK, MainTypes, diskVars, windowVars

\* Whatever runs after Keep is referred to.
LEMMA KeepReferred ==
  ASSUME NEW cs, Keep(cs)
  PROVE  Referred' /\ running' \subseteq cs
BY DEF Keep, Referred, Closings, BusySlots

\* Keeping nothing loses nothing.
LEMMA KeepNothing ==
  ASSUME Keep({})
  PROVE  running' = {} /\ (lost' => lost)
BY DEF Keep

\* What follows the closing of a client.
LEMMA AfterCloseProperties ==
  ASSUME TypeOK, ConnectClear, NEW s \in Slots, NEW j \in Job, NEW cs \in SUBSET running,
         AfterClose(s, j, cs)
  PROVE  /\ MainTypes' /\ events' \in [Windows -> Seq(View)]
         /\ Referred' /\ ConnectClear'
         /\ running' \subseteq cs
         /\ \A t \in Slots \ {s} : jobs'[t] = jobs[t]
         /\ s \in BusySlots' => jobs'[s].stage = "connect"
         /\ cs = {} => (lost' => lost)
<1>1. /\ info' = IF j.op # "removed" /\ ~j.on THEN Server("offline", j.version, NoClient)
                 ELSE IF Deletes(j) THEN NoEntry ELSE info
      /\ jobs' = [jobs EXCEPT ![s] =
            IF Connects(j) THEN [j EXCEPT !.stage = "connect", !.closing = NoClient] ELSE Idle]
      /\ refreshing' = IF j.op = "toggle" THEN refreshing ELSE Connects(j)
      /\ Fire((IF Deletes(j) THEN <<Nothing>> ELSE <<>>)
                \o (IF j.op # "removed" /\ ~j.on THEN <<ViewOf(info')>> ELSE <<>>))
      /\ Keep(cs)
  BY DEF AfterClose
<1>2. info' \in Entry
  BY <1>1, McpAssumption DEF TypeOK, Server, NoEntry, Entry, Statuses, Job, Versions
<1>3. refreshing' \in BOOLEAN
  BY <1>1 DEF TypeOK, Connects, Job
<1> DEFINE k == [j EXCEPT !.stage = "connect", !.closing = NoClient]
<1>4. k \in Job /\ k.stage = "connect" /\ k.closing = NoClient
  BY DEF Job
<1>5. /\ jobs' \in [Slots -> Job \cup {Idle}]
      /\ \A t \in Slots \ {s} : jobs'[t] = jobs[t]
      /\ jobs'[s] \in {k, Idle}
  <2> HIDE DEF k
  <2>1. jobs' = [jobs EXCEPT ![s] = IF Connects(j) THEN k ELSE Idle]
    BY <1>1 DEF k
  <2> QED BY <1>4, <2>1 DEF TypeOK
<1>6. running' \subseteq cs /\ Referred'
  BY <1>1, KeepReferred
<1>7. cs \subseteq Clients /\ lost' \in BOOLEAN
  BY <1>1 DEF TypeOK, Keep
<1>8. events' \in [Windows -> Seq(View)]
  <2>1. Nothing \in View
    BY McpAssumption DEF Nothing, View, Statuses, Versions
  <2>2. ViewOf(info') \in View
    BY <1>2 DEF ViewOf, View, Entry
  <2>3. /\ (IF Deletes(j) THEN <<Nothing>> ELSE <<>>) \in Seq(View)
        /\ (IF j.op # "removed" /\ ~j.on THEN <<ViewOf(info')>> ELSE <<>>) \in Seq(View)
    BY <2>1, <2>2
  <2>4. (IF Deletes(j) THEN <<Nothing>> ELSE <<>>)
          \o (IF j.op # "removed" /\ ~j.on THEN <<ViewOf(info')>> ELSE <<>>) \in Seq(View)
    BY <2>3
  <2> QED BY <1>1, <2>4, FireType
<1>9. ConnectClear' /\ (s \in BusySlots' => jobs'[s].stage = "connect")
  <2> HIDE DEF k
  <2> QED BY <1>4, <1>5 DEF ConnectClear, BusySlots
<1>10. cs = {} => (lost' => lost)
  BY <1>1, KeepNothing
<1> QED BY <1>2, <1>3, <1>5, <1>6, <1>7, <1>8, <1>9, <1>10 DEF MainTypes

LEMMA ClosedStep ==
  ASSUME IInv, NEW s \in Slots, Closed(s)
  PROVE  IInv'
<1> USE DEF IInv
<1>1. /\ jobs[s] # Idle /\ jobs[s].stage = "close"
      /\ AfterClose(s, jobs[s], running \ {jobs[s].closing})
      /\ UNCHANGED <<diskVars, windowVars, shown, calls, excused>>
  BY DEF Closed
<1>2. jobs[s] \in Job
  BY <1>1 DEF TypeOK
<1>3. /\ MainTypes' /\ events' \in [Windows -> Seq(View)]
      /\ Referred' /\ ConnectClear'
      /\ running' \subseteq running \ {jobs[s].closing}
      /\ \A t \in Slots \ {s} : jobs'[t] = jobs[t]
      /\ s \in BusySlots' => jobs'[s].stage = "connect"
      /\ running \ {jobs[s].closing} = {} => (lost' => lost)
  BY <1>1, <1>2, AfterCloseProperties
<1>4. TypeOK'
  BY <1>1, <1>3, MainStep DEF TypeOK
<1>5. Alone'
  <2> SUFFICES ASSUME "client" \notin excused PROVE Alone'
    BY <1>1 DEF Alone
  <2>1. running \ {jobs[s].closing} = {}
    BY <1>1 DEF Alone, BusySlots
  <2>2. BusySlots' \subseteq {s}
    BY <1>1, <1>3 DEF Alone, BusySlots
  <2> QED BY <1>1, <1>3, <2>1, <2>2 DEF Alone, BusySlots
<1> QED BY <1>3, <1>4, <1>5

LEMMA ReceiveStep ==
  ASSUME IInv, NEW w \in Windows, Receive(w)
  PROVE  IInv'
<1> USE DEF IInv
<1>1. /\ calls[w] # <<>> /\ calls' = [calls EXCEPT ![w] = Tail(@)]
      /\ UNCHANGED <<diskVars, windowVars, shown>>
  BY DEF Receive
<1>2. calls' \in [Windows -> Seq(Call)] /\ Head(calls[w]) \in Call
  BY <1>1, QueueTail DEF TypeOK
<1>3. PICK c \in Call : c = Head(calls[w])
  BY <1>2
<1>4. CASE excused' = excused \cup {"change"} /\ UNCHANGED <<events, mainVars>>
  <2>1. TypeOK'
    BY <1>1, <1>2, <1>4, MainFrame, MainStep DEF TypeOK
  <2> QED BY <1>4, <2>1, WindowFrame
<1>5. CASE /\ excused' = excused \cup Meets(c)
           /\ Free # {}
           /\ ~Refused(c)
           /\ LET s == CHOOSE t \in Free : TRUE
              IN IF JobOf(c).closing = NoClient THEN AfterClose(s, JobOf(c), running)
                 ELSE /\ jobs' = [jobs EXCEPT ![s] = JobOf(c)]
                      /\ refreshing' = (refreshing \/ c.op # "toggle")
                      /\ UNCHANGED <<events, info, running, lost>>
  <2>1. PICK s \in Free :
          IF JobOf(c).closing = NoClient THEN AfterClose(s, JobOf(c), running)
          ELSE /\ jobs' = [jobs EXCEPT ![s] = JobOf(c)]
               /\ refreshing' = (refreshing \/ c.op # "toggle")
               /\ UNCHANGED <<events, info, running, lost>>
    BY <1>5
  <2>2. s \in Slots /\ jobs[s] = Idle
    BY <2>1 DEF Free
  <2>3. /\ JobOf(c) \in Job /\ JobOf(c).stage = "close"
        /\ JobOf(c).closing = IF c.op = "added" THEN NoClient ELSE info.client
    BY DEF JobOf, Job, Call, TypeOK, Entry
  <2>4. excused' \subseteq {"client", "change"} /\ excused \subseteq excused'
    BY <1>5 DEF Meets, TypeOK
  <2>5. "client" \notin excused' => /\ BusySlots = {} /\ "client" \notin excused
                                    /\ c.op = "added" => info = NoEntry
    BY <1>5 DEF Meets, Busy, Free, BusySlots
  <2>6. NoEntry.client = NoClient
    BY DEF NoEntry, Server
  <2>7. "client" \notin excused' => JobOf(c).closing = info.client
    BY <2>3, <2>5, <2>6
  <2> DEFINE j == JobOf(c)
  <2> HIDE DEF j
  <2>8. CASE JobOf(c).closing = NoClient
    <3>1. AfterClose(s, j, running) /\ j \in Job
      BY <2>1, <2>3, <2>8 DEF j
    <3>2. /\ MainTypes' /\ events' \in [Windows -> Seq(View)]
          /\ Referred' /\ ConnectClear'
          /\ running' \subseteq running
          /\ \A t \in Slots \ {s} : jobs'[t] = jobs[t]
          /\ s \in BusySlots' => jobs'[s].stage = "connect"
          /\ running = {} => (lost' => lost)
      BY <2>2, <3>1, AfterCloseProperties
    <3>3. TypeOK'
      BY <1>1, <1>2, <2>4, <3>2, MainStep
    <3>4. Alone'
      <4> SUFFICES ASSUME "client" \notin excused' PROVE Alone'
        BY DEF Alone
      <4>1. running \subseteq {NoClient} /\ running \subseteq Clients /\ ~lost
        BY <2>5, <2>7, <2>8 DEF Alone, TypeOK
      <4>2. running = {}
        BY <4>1, McpAssumption
      <4>3. BusySlots' \subseteq {s}
        BY <2>5, <3>2 DEF BusySlots
      <4> QED BY <3>2, <4>1, <4>2, <4>3 DEF Alone, BusySlots
    <3> QED BY <3>2, <3>3, <3>4
  <2>9. CASE JobOf(c).closing # NoClient
    <3>1. /\ jobs' = [jobs EXCEPT ![s] = j] /\ j \in Job /\ j.stage = "close"
          /\ "client" \notin excused' => j.closing = info.client
          /\ refreshing' = (refreshing \/ c.op # "toggle")
          /\ UNCHANGED <<events, info, running, lost>>
      BY <2>1, <2>3, <2>7, <2>9 DEF j
    <3>2. /\ jobs' \in [Slots -> Job \cup {Idle}]
          /\ jobs'[s] = j
          /\ \A t \in Slots \ {s} : jobs'[t] = jobs[t]
      BY <2>2, <3>1 DEF TypeOK
    <3>3. MainTypes'
      BY <3>1, <3>2 DEF MainTypes, TypeOK
    <3>4. TypeOK'
      <4>1. events' \in [Windows -> Seq(View)]
        BY <3>1 DEF TypeOK
      <4> QED BY <1>1, <1>2, <2>4, <3>3, <4>1, MainStep
    <3>5. Referred'
      BY <2>2, <3>1, <3>2 DEF Referred, Closings, BusySlots
    <3>6. ConnectClear'
      BY <3>1, <3>2 DEF ConnectClear, BusySlots
    <3>7. Alone'
      <4> SUFFICES ASSUME "client" \notin excused' PROVE Alone'
        BY DEF Alone
      <4>1. BusySlots' \subseteq {s}
        BY <2>5, <3>2 DEF BusySlots
      <4> QED BY <2>5, <3>1, <3>2, <4>1 DEF Alone, BusySlots
    <3> QED BY <3>4, <3>5, <3>6, <3>7
  <2> QED BY <2>8, <2>9
<1> QED BY <1>3, <1>4, <1>5 DEF Receive

\* There is a client left: those that run are the entry's and the other calls'.
LEMMA FreshClient ==
  ASSUME IInv, NEW s \in Slots, jobs[s] # Idle, jobs[s].stage = "connect"
  PROVE  NewClient \in Clients \ running
<1> USE DEF IInv
<1> DEFINE T == BusySlots \ {s}
           R == {jobs[t].closing : t \in T}
<1>1. running \subseteq R \cup {info.client}
  <2>1. jobs[s].closing = NoClient /\ s \in BusySlots
    BY DEF ConnectClear, BusySlots
  <2>2. running \subseteq Clients /\ NoClient \notin Clients
    BY McpAssumption DEF TypeOK
  <2> QED BY <2>1, <2>2 DEF Referred, Closings
<1>2. IsFiniteSet(T) /\ Cardinality(T) + 1 <= Cardinality(Slots) /\ Cardinality(T) \in Nat
  <2>1. IsFiniteSet(Slots) /\ Cardinality(Slots) \in Nat
    BY McpAssumption, FS_CardinalityType
  <2>2. IsFiniteSet(Slots \ {s}) /\ Cardinality(Slots \ {s}) = Cardinality(Slots) - 1
    BY <2>1, FS_RemoveElement
  <2>3. T \in SUBSET (Slots \ {s})
    BY DEF BusySlots
  <2>4. IsFiniteSet(T) /\ Cardinality(T) <= Cardinality(Slots \ {s})
    <3> HIDE DEF T
    <3> QED BY <2>2, <2>3, FS_Subset
  <2>5. Cardinality(T) \in Nat
    <3> HIDE DEF T
    <3> QED BY <2>4, FS_CardinalityType
  <2> HIDE DEF T
  <2> QED BY <2>1, <2>2, <2>4, <2>5
<1>3. IsFiniteSet(R) /\ Cardinality(R) <= Cardinality(T)
  <2> DEFINE f == [t \in T |-> jobs[t].closing]
  <2>1. f \in Surjection(T, R)
    BY DEF Surjection
  <2> HIDE DEF f, T, R
  <2> QED BY <1>2, <2>1, FS_Surjection
<1>4. Cardinality(R \cup {info.client}) < Cardinality(Clients) /\ IsFiniteSet(R \cup {info.client})
  <2> HIDE DEF T, R
  <2>1. Cardinality(R) \in Nat /\ Cardinality(Clients) \in Nat /\ Cardinality(Slots) \in Nat
    BY <1>3, FS_CardinalityType, McpAssumption
  <2>2. /\ IsFiniteSet(R \cup {info.client})
        /\ Cardinality(R \cup {info.client}) <= Cardinality(R) + 1
    BY <1>3, <2>1, FS_AddElement
  <2>3. Cardinality(R \cup {info.client}) \in Nat
    BY <2>2, FS_CardinalityType
  <2> QED BY <1>2, <1>3, <2>1, <2>2, <2>3, McpAssumption
<1>5. ~(Clients \subseteq R \cup {info.client})
  <2> HIDE DEF R
  <2>1. ASSUME Clients \subseteq R \cup {info.client} PROVE FALSE
    <3>1. Cardinality(Clients) <= Cardinality(R \cup {info.client})
      BY <1>4, <2>1, FS_Subset
    <3>2. Cardinality(R \cup {info.client}) \in Nat /\ Cardinality(Clients) \in Nat
      BY <1>4, FS_CardinalityType, McpAssumption
    <3> QED BY <1>4, <3>1, <3>2
  <2> QED BY <2>1
<1>6. \E c \in Clients : c \notin running
  BY <1>1, <1>5
<1> QED BY <1>6 DEF NewClient

LEMMA CreatedStep ==
  ASSUME IInv, NEW s \in Slots, NEW e \in Entry, NEW cs \in SUBSET Clients, Created(s, e, cs),
         excused' \subseteq {"client", "change"}, excused \subseteq excused',
         "client" \notin excused' => cs \subseteq {e.client} \cup running
  PROVE  IInv'
<1> USE DEF IInv
<1>1. /\ jobs[s] # Idle /\ jobs[s].stage = "connect" /\ info' = e
      /\ jobs' = [jobs EXCEPT ![s] = Idle]
      /\ refreshing' = (refreshing /\ jobs[s].op = "toggle")
      /\ Fire(<<ViewOf(e)>>) /\ Keep(cs)
      /\ UNCHANGED <<diskVars, windowVars, shown, calls>>
  BY DEF Created
<1>2. /\ jobs' \in [Slots -> Job \cup {Idle}] /\ jobs'[s] = Idle
      /\ \A t \in Slots \ {s} : jobs'[t] = jobs[t]
  BY <1>1 DEF TypeOK
<1>3. running' \subseteq cs /\ Referred'
  BY <1>1, KeepReferred
<1>4. MainTypes'
  <2>1. lost' \in BOOLEAN
    BY <1>1 DEF Keep
  <2> QED BY <1>1, <1>2, <1>3, <2>1 DEF MainTypes, TypeOK
<1>5. events' \in [Windows -> Seq(View)]
  <2>1. <<ViewOf(e)>> \in Seq(View)
    BY DEF ViewOf, View, Entry
  <2> QED BY <1>1, <2>1, FireType
<1>6. TypeOK'
  <2>1. calls' \in [Windows -> Seq(Call)]
    BY <1>1 DEF TypeOK
  <2> QED BY <1>1, <1>4, <1>5, <2>1, MainStep
<1>7. ConnectClear'
  BY <1>2 DEF ConnectClear, BusySlots
<1>8. Alone'
  <2> SUFFICES ASSUME "client" \notin excused' PROVE Alone'
    BY DEF Alone
  <2>1. /\ ~lost /\ running = {} /\ BusySlots = {s}
    BY <1>1 DEF Alone, BusySlots
  <2>2. BusySlots' = {}
    BY <1>2, <2>1 DEF BusySlots
  <2>3. cs \subseteq {info'.client}
    BY <1>1, <2>1
  <2>4. ~lost'
    BY <1>1, <2>1, <2>3 DEF Keep
  <2> QED BY <1>3, <2>2, <2>3, <2>4 DEF Alone
<1> QED BY <1>3, <1>6, <1>7, <1>8

LEMMA ConnectionStep ==
  ASSUME IInv, NEW s \in Slots, Connected(s) \/ ConnectFails(s) \/ ListToolsFails(s)
  PROVE  IInv'
<1> USE DEF IInv
<1>1. jobs[s] # Idle /\ jobs[s].stage = "connect"
  BY DEF Connected, ConnectFails, ListToolsFails, Created
<1>2. NewClient \in Clients \ running /\ jobs[s].version \in Versions
  BY <1>1, FreshClient DEF TypeOK, Job
<1>3. \A c \in Clients \cup {NoClient} : \A status \in {"success", "error"} :
         /\ Server(status, jobs[s].version, c) \in Entry
         /\ Server(status, jobs[s].version, c).client = c
  BY <1>2 DEF Server, Entry, Statuses
<1>4. running \cup {NewClient} \in SUBSET Clients /\ running \in SUBSET Clients
  BY <1>2 DEF TypeOK
<1>5. excused \subseteq {"client", "change"}
  BY DEF TypeOK
<1>6. CASE Connected(s)
  <2> DEFINE e == Server("success", jobs[s].version, NewClient)
  <2>1. e \in Entry /\ e.client = NewClient
    BY <1>2, <1>3
  <2>2. Created(s, e, running \cup {NewClient}) /\ UNCHANGED excused
    BY <1>6 DEF Connected
  <2> HIDE DEF e
  <2> QED BY <1>4, <1>5, <2>1, <2>2, CreatedStep
<1>7. CASE ConnectFails(s)
  <2> DEFINE e == Server("error", jobs[s].version, NoClient)
  <2>1. e \in Entry
    BY <1>3
  <2>2. Created(s, e, running) /\ UNCHANGED excused
    BY <1>7 DEF ConnectFails
  <2> HIDE DEF e
  <2> QED BY <1>4, <1>5, <2>1, <2>2, CreatedStep
<1>8. CASE ListToolsFails(s)
  <2> DEFINE e == Server("error", jobs[s].version, NoClient)
  <2>1. e \in Entry
    BY <1>3
  <2>2. Created(s, e, running \cup {NewClient}) /\ excused' = excused \cup {"client"}
    BY <1>8 DEF ListToolsFails
  <2> HIDE DEF e
  <2> QED BY <1>4, <1>5, <2>1, <2>2, CreatedStep
<1> QED BY <1>6, <1>7, <1>8

------------------------------------------------------------------------------
(* The theorems.                                                               *)

LEMMA Initial ==
  ASSUME Init
  PROVE  IInv
<1>1. TypeOK
  <2>1. Nothing \in View /\ NoEntry \in Entry /\ file \in 0..Broken /\ 0 \in Versions /\ 0 \in 0..MaxOps
    BY McpAssumption
       DEF Init, Nothing, View, NoEntry, Server, Entry, Statuses, Versions, Broken
  <2>2. /\ reads \in [Windows -> Seq(BOOLEAN)] /\ pending \in [Windows -> Seq(Pending)]
        /\ calls \in [Windows -> Seq(Call)] /\ events \in [Windows -> Seq(View)]
    <3>1. \A S : <<>> \in Seq(S)
      OBVIOUS
    <3> QED BY <3>1 DEF Init
  <2>3. /\ MainTypes /\ excused \subseteq {"client", "change"} /\ ops \in 0..MaxOps
    BY <2>1 DEF Init, MainTypes
  <2>4. /\ stored \in Switch /\ opened \subseteq Windows /\ watching \subseteq opened /\ on \in [Windows -> Switch]
        /\ last \in [Windows -> Versions] /\ shown \in [Windows -> View]
    BY <2>1 DEF Init, Switch
  <2> QED BY <2>1, <2>2, <2>3, <2>4 DEF TypeOK, MainTypes
<1>2. BusySlots = {}
  BY DEF Init, BusySlots
<1> QED BY <1>1, <1>2 DEF Init, IInv, Referred, ConnectClear, Alone

LEMMA Inductive ==
  ASSUME IInv, [Next]_vars
  PROVE  IInv'
<1>1. CASE UNCHANGED vars
  BY <1>1 DEF vars, diskVars, windowVars, mainVars, IInv, TypeOK, Referred, ConnectClear, Alone,
              BusySlots, Closings
<1>2. ASSUME NEW w \in Windows, Window(w) \/ Receive(w) PROVE IInv'
  BY <1>2, ReadStep, RefreshStep, ToggledStep, DeliverStep, ReceiveStep DEF Window
<1>3. ASSUME NEW w \in Windows, User(w) PROVE IInv'
  <2>1. ASSUME NEW v \in Versions, Save(w, v) PROVE IInv'
    <3>1. v \in 0..Broken /\ FileBecomes(v, {w})
      BY <2>1, McpAssumption DEF Save, Versions, Broken
    <3> QED BY <3>1, FileStep
  <2> QED BY <1>3, <2>1, OpenStep, ToggleStep, RetryStep DEF User
<1>4. ASSUME NEW s \in Slots, Main(s) PROVE IInv'
  BY <1>4, ClosedStep, ConnectionStep DEF Main
<1>5. ASSUME NEW v \in 0..Broken, Edit(v) PROVE IInv'
  BY <1>5, FileStep DEF Edit
<1> QED BY <1>1, <1>2, <1>3, <1>4, <1>5 DEF Next

LEMMA Invariant == Spec => []IInv
BY Initial, Inductive, PTL DEF Spec

(* Settings, messages and calls at work have their types, and what runs are    *)
(* clients: one that is created is never one that runs already.                *)
THEOREM McpTypeCorrect == Spec => []TypeOK
<1>1. IInv => TypeOK
  BY DEF IInv
<1> QED BY <1>1, Invariant, PTL

(* A client runs on with nothing to close it only where a server was added     *)
(* twice, calls overlapped, or its tools could not be listed.                  *)
THEOREM McpNoClientLost == Spec => []NoClientLost
<1>1. IInv => NoClientLost
  BY DEF IInv, Alone, NoClientLost
<1> QED BY <1>1, Invariant, PTL

------------------------------------------------------------------------------
(* What a window shows. A step of a window leaves the others alone, and one of *)
(* the main process either tells all of them or has a call at work.            *)

True(view) == view \in {Nothing, ViewOf(info)}
HasToggle(xs) == \E i \in DOMAIN xs : xs[i].op = "toggle"
Awakens(xs) == \E i \in DOMAIN xs : xs[i].op \in {"added", "updated"}

\* Nothing is under way to or from a window that is not open; the last event on
\* the way tells what the main process has; and a window that shows something
\* of a server with no entry has asked for one.
WindowOK(w) ==
    /\ w \notin opened => /\ reads[w] = <<>> /\ pending[w] = <<>> /\ calls[w] = <<>>
                          /\ events[w] = <<>> /\ shown[w] = Nothing
    /\ events[w] # <<>> => True(events[w][Len(events[w])])
    /\ (shown[w] # Nothing /\ events[w] = <<>> /\ BusySlots = {} /\ info = NoEntry) => Awakens(calls[w])
    /\ shown[w] = Loading => events[w] # <<>> \/ calls[w] # <<>> \/ BusySlots # {} \/ HasToggle(pending[w])
    /\ shown[w] # Loading /\ events[w] = <<>> => True(shown[w])

RefreshHasJob == refreshing => \E s \in BusySlots : jobs[s].op # "toggle"

SInv == RefreshHasJob /\ \A w \in Windows : WindowOK(w)

LEMMA Views ==
  ASSUME TypeOK
  PROVE  /\ Loading # Nothing /\ ~True(Loading) /\ ViewOf(NoEntry) = Nothing
         /\ True(Nothing) /\ (info = NoEntry => \A v : True(v) => v = Nothing)
<1>1. Loading # Nothing
  BY DEF Loading, Nothing
<1>2. ViewOf(info) # Loading
  BY DEF TypeOK, Entry, Statuses, ViewOf, Loading
<1>3. ViewOf(NoEntry) = Nothing
  BY DEF ViewOf, NoEntry, Server, Nothing
<1> QED BY <1>1, <1>2, <1>3 DEF True

LEMMA BusyIs == Busy <=> BusySlots # {}
BY DEF Busy, Free, BusySlots

\* What is appended to a sequence and what is taken from it.
LEMMA Appended ==
  ASSUME NEW S, NEW xs \in Seq(S), NEW x \in S
  PROVE  /\ Append(xs, x) \in Seq(S) /\ Append(xs, x) # <<>>
         /\ Len(xs) \in Nat /\ DOMAIN xs = 1..Len(xs)
         /\ Len(Append(xs, x)) = Len(xs) + 1 /\ DOMAIN Append(xs, x) = 1..(Len(xs) + 1)
         /\ \A i \in 1..Len(xs) : Append(xs, x)[i] = xs[i]
         /\ Append(xs, x)[Len(xs) + 1] = x
OBVIOUS

LEMMA Tailed ==
  ASSUME NEW S, NEW xs \in Seq(S), xs # <<>>
  PROVE  /\ Tail(xs) \in Seq(S) /\ Head(xs) \in S /\ Head(xs) = xs[1]
         /\ Len(xs) \in Nat /\ Len(xs) >= 1 /\ DOMAIN xs = 1..Len(xs)
         /\ Len(Tail(xs)) = Len(xs) - 1 /\ DOMAIN Tail(xs) = 1..(Len(xs) - 1)
         /\ \A i \in 1..(Len(xs) - 1) : Tail(xs)[i] = xs[i + 1]
         /\ \A i \in 2..Len(xs) : i - 1 \in 1..(Len(xs) - 1) /\ xs[i] = Tail(xs)[i - 1]
<1>1. /\ Tail(xs) \in Seq(S) /\ Head(xs) \in S /\ Head(xs) = xs[1]
      /\ Len(xs) \in Nat /\ Len(xs) >= 1 /\ DOMAIN xs = 1..Len(xs)
      /\ Len(Tail(xs)) = Len(xs) - 1 /\ DOMAIN Tail(xs) = 1..(Len(xs) - 1)
      /\ \A i \in 1..(Len(xs) - 1) : Tail(xs)[i] = xs[i + 1]
  OBVIOUS
<1>2. ASSUME NEW i \in 2..Len(xs)
      PROVE  i - 1 \in 1..(Len(xs) - 1) /\ xs[i] = Tail(xs)[i - 1]
  <2>1. i - 1 \in 1..(Len(xs) - 1) /\ (i - 1) + 1 = i
    BY <1>1
  <2> QED BY <1>1, <2>1
<1> QED BY <1>1, <1>2

LEMMA AppendHas ==
  ASSUME NEW S, NEW xs \in Seq(S), NEW x \in S
  PROVE  /\ HasToggle(xs) \/ x.op = "toggle" => HasToggle(Append(xs, x))
         /\ Awakens(xs) \/ x.op \in {"added", "updated"} => Awakens(Append(xs, x))
BY Appended DEF HasToggle, Awakens

LEMMA TailHas ==
  ASSUME NEW S, NEW xs \in Seq(S), xs # <<>>
  PROVE  /\ HasToggle(xs) /\ Head(xs).op # "toggle" => HasToggle(Tail(xs))
         /\ Awakens(xs) /\ Head(xs).op \notin {"added", "updated"} => Awakens(Tail(xs))
<1>1. ASSUME NEW i \in DOMAIN xs
      PROVE  xs[i] = Head(xs) \/ \E k \in DOMAIN Tail(xs) : Tail(xs)[k] = xs[i]
  <2>1. i = 1 \/ i \in 2..Len(xs)
    BY Tailed
  <2> QED BY <2>1, Tailed
<1> QED BY <1>1 DEF HasToggle, Awakens

LEMMA TailLast ==
  ASSUME NEW S, NEW xs \in Seq(S), xs # <<>>
  PROVE  \/ Tail(xs) = <<>> /\ Len(xs) = 1
         \/ Tail(xs) # <<>> /\ Tail(xs)[Len(Tail(xs))] = xs[Len(xs)]
<1> DEFINE t == Tail(xs)
<1>1. /\ t \in Seq(S) /\ Len(xs) \in Nat /\ Len(xs) >= 1 /\ Len(t) = Len(xs) - 1
      /\ \A i \in 1..(Len(xs) - 1) : t[i] = xs[i + 1]
  BY Tailed
<1> HIDE DEF t
<1>2. CASE Len(xs) = 1
  <2>1. Len(t) = 0
    BY <1>1, <1>2
  <2>2. t = <<>>
    BY <1>1, <2>1
  <2> QED BY <1>2, <2>2 DEF t
<1>3. CASE Len(xs) # 1
  <2>1. Len(xs) - 1 \in 1..(Len(xs) - 1) /\ (Len(xs) - 1) + 1 = Len(xs) /\ Len(t) # 0
    BY <1>1, <1>3
  <2>2. t[Len(t)] = xs[Len(xs)] /\ t # <<>>
    BY <1>1, <2>1
  <2> QED BY <2>2 DEF t
<1> QED BY <1>2, <1>3

\* A window whose own state, entry and calls at work stay as they are.
LEMMA WindowKept ==
  ASSUME NEW w \in Windows, WindowOK(w), info' = info, jobs' = jobs,
         shown'[w] = shown[w], events'[w] = events[w], calls'[w] = calls[w],
         pending'[w] = pending[w], opened \subseteq opened',
         w \notin opened' => reads'[w] = reads[w]
  PROVE  WindowOK(w)'
BY DEF WindowOK, True, BusySlots

\* One that is told.
LEMMA WindowTold ==
  ASSUME TypeOK', NEW w \in opened', events'[w] # <<>>, True(events[w][Len(events[w])])'
  PROVE  WindowOK(w)'
BY DEF WindowOK

\* One that waits for a call at work.
LEMMA WindowWaits ==
  ASSUME NEW w \in opened, WindowOK(w), opened' = opened, info' = info, BusySlots' # {},
         shown'[w] = shown[w], events'[w] = events[w]
  PROVE  WindowOK(w)'
BY DEF WindowOK, True

\* One that is not open.
LEMMA WindowClosed ==
  ASSUME NEW w \in Windows, w \notin opened, WindowOK(w), opened' = opened,
         TypeOK,
         UNCHANGED <<reads[w], pending[w], calls[w], events[w], shown[w]>>
  PROVE  WindowOK(w)'
<1>1. Loading # Nothing
  BY Views
<1> QED BY <1>1 DEF WindowOK, True

------------------------------------------------------------------------------
(* The steps, and what they do to the windows.                                 *)

LEMMA MainKept ==
  ASSUME RefreshHasJob, UNCHANGED mainVars
  PROVE  RefreshHasJob' /\ info' = info /\ jobs' = jobs /\ BusySlots' = BusySlots
BY DEF RefreshHasJob, mainVars, BusySlots

LEMMA OpenShown ==
  ASSUME TypeOK, SInv, NEW w \in Windows, Open(w)
  PROVE  SInv'
<1>1. /\ w \notin opened /\ opened' = opened \cup {w}
      /\ reads' = reads \/ reads' = [reads EXCEPT ![w] = Append(@, FALSE)]
      /\ UNCHANGED <<pending, shown, calls, events, mainVars>>
  BY DEF Open
<1>2. RefreshHasJob' /\ info' = info /\ jobs' = jobs
  BY <1>1, MainKept DEF SInv
<1>3. ASSUME NEW u \in Windows PROVE WindowOK(u)'
  <2>1. u \notin opened' => reads'[u] = reads[u]
    BY <1>1 DEF TypeOK
  <2> QED BY <1>1, <1>2, <2>1, WindowKept DEF SInv
<1> QED BY <1>2, <1>3 DEF SInv

LEMMA FileShown ==
  ASSUME TypeOK, SInv, NEW v, NEW writers, writers \subseteq opened, FileBecomes(v, writers)
  PROVE  SInv'
<1>1. UNCHANGED <<opened, pending, shown, calls, events, mainVars>>
  BY DEF FileBecomes
<1>2. RefreshHasJob' /\ info' = info /\ jobs' = jobs
  BY <1>1, MainKept DEF SInv
<1>3. ASSUME NEW u \in Windows PROVE WindowOK(u)'
  <2>1. u \notin opened' => reads'[u] = reads[u]
    BY <1>1, FileReads DEF TypeOK
  <2> QED BY <1>1, <1>2, <2>1, WindowKept DEF SInv
<1> QED BY <1>2, <1>3 DEF SInv

\* Something is under way to or from a window only when it is open.
LEMMA OpenIfUnderWay ==
  ASSUME SInv, NEW w \in Windows,
         reads[w] # <<>> \/ pending[w] # <<>> \/ calls[w] # <<>> \/ events[w] # <<>> \/ shown[w] # Nothing
  PROVE  w \in opened /\ WindowOK(w)
BY DEF SInv, WindowOK

LEMMA ReadShown ==
  ASSUME TypeOK, SInv, NEW w \in Windows, Read(w)
  PROVE  SInv'
<1>1. /\ reads[w] # <<>> /\ reads' = [reads EXCEPT ![w] = Tail(@)]
      /\ UNCHANGED <<file, ops, opened, watching, last, shown, calls, events, mainVars>>
  BY DEF Read
<1>2. RefreshHasJob' /\ info' = info /\ jobs' = jobs /\ BusySlots' = BusySlots
  BY <1>1, MainKept DEF SInv
<1>3. w \in opened /\ WindowOK(w)
  BY <1>1, OpenIfUnderWay
<1>4. /\ \A u \in Windows : u # w => pending'[u] = pending[u]
      /\ HasToggle(pending[w]) => HasToggle(pending'[w])
  <2>1. CASE file = Broken
    BY <2>1 DEF Read
  <2>2. CASE file # Broken
    <3>1. PICK op \in {"added", "removed", "same"} :
            pending' = [pending EXCEPT ![w] =
                  Append(@, [op |-> op, version |-> file, flag |-> Head(reads[w])])]
      BY <2>2 DEF Read
    <3> DEFINE p == [op |-> op, version |-> file, flag |-> Head(reads[w])]
    <3>2. Head(reads[w]) \in BOOLEAN /\ file \in Versions
      BY <1>1, <2>2, QueueTail, McpAssumption DEF TypeOK, Versions, Broken
    <3>3. p \in Pending
      BY <3>2 DEF Pending
    <3>4. pending' = [pending EXCEPT ![w] = Append(@, p)]
      BY <3>1
    <3> HIDE DEF p
    <3>5. pending'[w] = Append(pending[w], p) /\ pending[w] \in Seq(Pending)
      BY <3>4 DEF TypeOK
    <3> QED BY <3>3, <3>4, <3>5, AppendHas DEF TypeOK
  <2> QED BY <2>1, <2>2
<1>5. ASSUME NEW u \in Windows, u # w PROVE WindowOK(u)'
  <2>1. reads'[u] = reads[u]
    BY <1>1, <1>5 DEF TypeOK
  <2> QED BY <1>1, <1>2, <1>4, <1>5, <2>1, WindowKept DEF SInv
<1>6. WindowOK(w)'
  BY <1>1, <1>2, <1>3, <1>4 DEF WindowOK, True
<1> QED BY <1>2, <1>5, <1>6 DEF SInv

LEMMA RefreshShown ==
  ASSUME TypeOK, SInv, NEW w \in Windows, Refresh(w)
  PROVE  SInv'
<1>1. /\ pending[w] # <<>> /\ pending' = [pending EXCEPT ![w] = Tail(@)]
      /\ UNCHANGED <<file, stored, ops, opened, watching, on, reads, events, mainVars, excused>>
  BY DEF Refresh, diskVars
<1>2. RefreshHasJob' /\ info' = info /\ jobs' = jobs /\ BusySlots' = BusySlots
  BY <1>1, MainKept DEF SInv
<1>3. w \in opened /\ WindowOK(w)
  BY <1>1, OpenIfUnderWay
<1>4. PICK p \in Pending : p = Head(pending[w])
  BY <1>1, QueueTail DEF TypeOK
<1>5. /\ p.op # "toggle" /\ p.version \in Versions
      /\ shown' = [shown EXCEPT ![w] = IF Change(w, p) \in {"added", "updated"} THEN Loading ELSE @]
      /\ calls' = IF Change(w, p) = "none" THEN calls ELSE
            [calls EXCEPT ![w] =
                Append(@, [op |-> Change(w, p), version |-> p.version, on |-> on[w] # "off"])]
  BY <1>4 DEF Refresh, Pending
<1>6. Change(w, p) \in Refreshes \cup {"none"}
  <2>1. p.op \in {"added", "removed", "same"}
    BY <1>5 DEF Pending
  <2> QED BY <2>1 DEF Change, Refreshes
<1>7. HasToggle(pending[w]) => HasToggle(pending'[w])
  <2>1. pending'[w] = Tail(pending[w]) /\ pending[w] \in Seq(Pending)
    BY <1>1 DEF TypeOK
  <2> QED BY <1>1, <1>4, <1>5, <2>1, TailHas
<1>8. /\ \A u \in Windows : u # w => shown'[u] = shown[u] /\ calls'[u] = calls[u] /\ pending'[u] = pending[u]
      /\ \/ shown'[w] = shown[w]
         \/ shown'[w] = Loading /\ Awakens(calls'[w])
      /\ calls[w] # <<>> => calls'[w] # <<>>
      /\ Awakens(calls[w]) => Awakens(calls'[w])
  <2>1. CASE Change(w, p) = "none"
    BY <1>1, <1>5, <2>1 DEF TypeOK
  <2>2. CASE Change(w, p) # "none"
    <3> DEFINE c == [op |-> Change(w, p), version |-> p.version, on |-> on[w] # "off"]
    <3>1. c \in Call /\ c.op = Change(w, p)
      BY <1>5, <1>6, <2>2 DEF Call
    <3>2. calls' = [calls EXCEPT ![w] = Append(@, c)]
      BY <1>5, <2>2
    <3> HIDE DEF c
    <3>3. /\ calls'[w] = Append(calls[w], c) /\ calls[w] \in Seq(Call)
          /\ \A u \in Windows : u # w => calls'[u] = calls[u]
      BY <3>2 DEF TypeOK
    <3>4. calls'[w] # <<>> /\ (Awakens(calls[w]) => Awakens(calls'[w]))
      BY <3>1, <3>3, AppendHas, Appended
    <3>5. Change(w, p) \in {"added", "updated"} => Awakens(calls'[w])
      BY <3>1, <3>3, AppendHas
    <3> QED BY <1>1, <1>5, <3>3, <3>4, <3>5 DEF TypeOK
  <2> QED BY <2>1, <2>2
<1>9. ASSUME NEW u \in Windows, u # w PROVE WindowOK(u)'
  BY <1>1, <1>2, <1>8, <1>9, WindowKept DEF SInv
<1>10. WindowOK(w)'
  <2>1. Awakens(calls'[w]) => calls'[w] # <<>>
    BY DEF Awakens
  <2> QED BY <1>1, <1>2, <1>3, <1>7, <1>8, <2>1 DEF WindowOK, True
<1> QED BY <1>2, <1>9, <1>10 DEF SInv

LEMMA ToggleShown ==
  ASSUME TypeOK, SInv, NEW w \in Windows, Toggle(w)
  PROVE  SInv'
<1> DEFINE p == [op |-> "toggle", version |-> 0, flag |-> on[w] # "on"]
<1>1. /\ shown[w] # Nothing /\ shown' = [shown EXCEPT ![w] = Loading]
      /\ pending' = [pending EXCEPT ![w] = Append(@, p)]
      /\ UNCHANGED <<file, opened, watching, last, reads, calls, events, mainVars, excused>>
  BY DEF Toggle
<1>2. RefreshHasJob' /\ info' = info /\ jobs' = jobs /\ BusySlots' = BusySlots
  BY <1>1, MainKept DEF SInv
<1>3. w \in opened /\ WindowOK(w)
  BY <1>1, OpenIfUnderWay
<1>4. p \in Pending /\ p.op = "toggle"
  BY McpAssumption DEF Pending, Versions
<1> HIDE DEF p
<1>5. /\ \A u \in Windows : u # w => pending'[u] = pending[u] /\ shown'[u] = shown[u]
      /\ pending'[w] = Append(pending[w], p) /\ pending[w] \in Seq(Pending)
      /\ shown'[w] = Loading
  BY <1>1 DEF TypeOK
<1>6. HasToggle(pending'[w])
  BY <1>4, <1>5, AppendHas
<1>7. ASSUME NEW u \in Windows, u # w PROVE WindowOK(u)'
  BY <1>1, <1>2, <1>5, <1>7, WindowKept DEF SInv
<1>8. WindowOK(w)'
  BY <1>1, <1>2, <1>3, <1>5, <1>6 DEF WindowOK, True
<1> QED BY <1>2, <1>7, <1>8 DEF SInv

LEMMA ToggledShown ==
  ASSUME TypeOK, SInv, NEW w \in Windows, Toggled(w)
  PROVE  SInv'
<1> DEFINE c == [op |-> "toggle", version |-> 0, on |-> Head(pending[w]).flag]
<1>1. /\ pending[w] # <<>> /\ pending' = [pending EXCEPT ![w] = Tail(@)]
      /\ calls' = [calls EXCEPT ![w] = Append(@, c)]
      /\ UNCHANGED <<file, stored, ops, opened, watching, on, last, reads, shown, events, mainVars, excused>>
  BY DEF Toggled, diskVars
<1>2. RefreshHasJob' /\ info' = info /\ jobs' = jobs /\ BusySlots' = BusySlots
  BY <1>1, MainKept DEF SInv
<1>3. w \in opened /\ WindowOK(w)
  BY <1>1, OpenIfUnderWay
<1>4. c \in Call
  <2>1. Head(pending[w]) \in Pending
    BY <1>1, QueueTail DEF TypeOK
  <2>2. Head(pending[w]).flag \in BOOLEAN
    BY <2>1 DEF Pending
  <2> QED BY <2>2, McpAssumption DEF Call, Versions
<1> HIDE DEF c
<1>5. /\ \A u \in Windows : u # w => pending'[u] = pending[u] /\ calls'[u] = calls[u]
      /\ calls'[w] = Append(calls[w], c) /\ calls[w] \in Seq(Call)
  BY <1>1 DEF TypeOK
<1>6. calls'[w] # <<>> /\ (Awakens(calls[w]) => Awakens(calls'[w]))
  BY <1>4, <1>5, AppendHas, Appended
<1>7. ASSUME NEW u \in Windows, u # w PROVE WindowOK(u)'
  BY <1>1, <1>2, <1>5, <1>7, WindowKept DEF SInv
<1>8. WindowOK(w)'
  BY <1>1, <1>2, <1>3, <1>6 DEF WindowOK, True
<1> QED BY <1>2, <1>7, <1>8 DEF SInv

LEMMA RetryShown ==
  ASSUME TypeOK, SInv, NEW w \in Windows, Retry(w)
  PROVE  SInv'
<1>1. /\ shown[w].status = "error" /\ reads' = [reads EXCEPT ![w] = Append(@, TRUE)]
      /\ UNCHANGED <<file, opened, watching, last, pending, shown, calls, events, mainVars, excused>>
  BY DEF Retry
<1>2. RefreshHasJob' /\ info' = info /\ jobs' = jobs
  BY <1>1, MainKept DEF SInv
<1>3. w \in opened
  BY <1>1, OpenIfUnderWay DEF Nothing
<1>4. ASSUME NEW u \in Windows PROVE WindowOK(u)'
  <2>1. u \notin opened' => reads'[u] = reads[u]
    BY <1>1, <1>3 DEF TypeOK
  <2> QED BY <1>1, <1>2, <2>1, WindowKept DEF SInv
<1> QED BY <1>2, <1>4 DEF SInv

LEMMA DeliverShown ==
  ASSUME TypeOK, SInv, NEW w \in Windows, Deliver(w)
  PROVE  SInv'
<1>1. /\ events[w] # <<>> /\ shown' = [shown EXCEPT ![w] = Head(events[w])]
      /\ events' = [events EXCEPT ![w] = Tail(@)]
      /\ UNCHANGED <<file, stored, ops, opened, watching, on, last, reads, pending, calls, mainVars, excused>>
  BY DEF Deliver, diskVars, windowVars
<1>2. RefreshHasJob' /\ info' = info /\ jobs' = jobs /\ BusySlots' = BusySlots
  BY <1>1, MainKept DEF SInv
<1>3. w \in opened /\ WindowOK(w)
  BY <1>1, OpenIfUnderWay
<1>4. /\ \A u \in Windows : u # w => shown'[u] = shown[u] /\ events'[u] = events[u]
      /\ shown'[w] = events[w][1] /\ events'[w] = Tail(events[w])
      /\ events[w] \in Seq(View)
  BY <1>1, Tailed DEF TypeOK
<1>5. \/ events'[w] = <<>> /\ True(shown'[w])
      \/ events'[w] # <<>> /\ events'[w][Len(events'[w])] = events[w][Len(events[w])]
  <2>1. \/ Tail(events[w]) = <<>> /\ Len(events[w]) = 1
        \/ Tail(events[w]) # <<>> /\ Tail(events[w])[Len(Tail(events[w]))] = events[w][Len(events[w])]
    BY <1>1, <1>4, TailLast
  <2>2. True(events[w][Len(events[w])])
    BY <1>1, <1>3 DEF WindowOK
  <2> QED BY <1>4, <2>1, <2>2
<1>6. ASSUME NEW u \in Windows, u # w PROVE WindowOK(u)'
  BY <1>1, <1>2, <1>4, <1>6, WindowKept DEF SInv
<1>7. WindowOK(w)'
  BY <1>1, <1>2, <1>3, <1>5, Views DEF WindowOK, True
<1> QED BY <1>2, <1>6, <1>7 DEF SInv

------------------------------------------------------------------------------
(* The main process tells every open window, or a call is at work.             *)

LEMMA Fired ==
  ASSUME TypeOK, SInv, NEW v \in View, NEW views \in Seq(View), Fire(Append(views, v)),
         NEW w \in opened
  PROVE  events'[w] # <<>> /\ events'[w][Len(events'[w])] = v
<1> DEFINE es == events[w]
           xs == Append(views, v)
<1>1. w \in Windows /\ es \in Seq(View) /\ xs \in Seq(View)
  BY DEF TypeOK
<1>2. xs = Append(views, v) /\ events'[w] = es \o xs
  BY <1>1 DEF Fire
<1>3. Len(xs) = Len(views) + 1 /\ xs[Len(views) + 1] = v /\ Len(views) \in Nat /\ Len(es) \in Nat
  BY <1>2
<1> HIDE DEF es, xs
<1>4. /\ Len(es \o xs) = Len(es) + Len(xs)
      /\ (es \o xs)[Len(es) + Len(xs)] = xs[Len(xs)]
  BY <1>1, <1>3
<1>5. es \o xs # <<>>
  BY <1>1, <1>3, <1>4
<1> QED BY <1>2, <1>3, <1>4, <1>5

LEMMA FiredNothing ==
  ASSUME TypeOK, Fire(<<>>)
  PROVE  \A w \in Windows : events'[w] = events[w]
<1>1. \A w \in Windows : events[w] \in Seq(View) /\ events[w] \o <<>> = events[w]
  BY DEF TypeOK
<1> QED BY <1>1 DEF Fire

\* Those that are not open are told nothing.
LEMMA FiredClosed ==
  ASSUME NEW views, Fire(views), NEW w \in Windows, w \notin opened
  PROVE  events'[w] = events[w]
BY DEF Fire

\* What follows the closing of a client either tells all windows or has a call
\* at work, which connects.
LEMMA AfterCloseShown ==
  ASSUME TypeOK, TypeOK', SInv, NEW s \in Slots, NEW j \in Job, NEW cs, AfterClose(s, j, cs),
         jobs[s] = Idle \/ jobs[s].op = j.op,
         UNCHANGED <<windowVars, shown>>,
         \A w \in Windows : w \notin opened => calls'[w] = calls[w]
  PROVE  SInv'
<1>1. /\ info' = IF j.op # "removed" /\ ~j.on THEN Server("offline", j.version, NoClient)
                 ELSE IF Deletes(j) THEN NoEntry ELSE info
      /\ jobs' = [jobs EXCEPT ![s] =
            IF Connects(j) THEN [j EXCEPT !.stage = "connect", !.closing = NoClient] ELSE Idle]
      /\ refreshing' = IF j.op = "toggle" THEN refreshing ELSE Connects(j)
      /\ Fire((IF Deletes(j) THEN <<Nothing>> ELSE <<>>)
                \o (IF j.op # "removed" /\ ~j.on THEN <<ViewOf(info')>> ELSE <<>>))
  BY DEF AfterClose
<1> DEFINE k == [j EXCEPT !.stage = "connect", !.closing = NoClient]
<1>2. k \in Job /\ k.op = j.op /\ k # Idle
  <2>1. k \in Job /\ k.op = j.op
    BY DEF Job
  <2> HIDE DEF k
  <2> QED BY <2>1 DEF Job, Idle, Refreshes
<1>3. jobs' = [jobs EXCEPT ![s] = IF Connects(j) THEN k ELSE Idle]
  BY <1>1
<1> HIDE DEF k
<1>4. /\ \A t \in Slots : t # s => jobs'[t] = jobs[t]
      /\ jobs'[s] = IF Connects(j) THEN k ELSE Idle
  BY <1>3 DEF TypeOK
<1>5. RefreshHasJob'
  <2>1. CASE j.op = "toggle"
    <3>1. SUFFICES ASSUME refreshing PROVE \E t \in BusySlots' : jobs'[t].op # "toggle"
      BY <1>1, <2>1 DEF RefreshHasJob
    <3>2. PICK t \in BusySlots : jobs[t].op # "toggle"
      BY <3>1 DEF SInv, RefreshHasJob
    <3> QED BY <1>4, <2>1, <3>2 DEF BusySlots
  <2>2. CASE j.op # "toggle"
    BY <1>1, <1>2, <1>4, <2>2 DEF RefreshHasJob, BusySlots
  <2> QED BY <2>1, <2>2
<1>6. Nothing \in View /\ ViewOf(info') \in View /\ <<>> \in Seq(View)
  <2>1. info' \in Entry
    BY DEF TypeOK
  <2> QED BY <2>1, McpAssumption DEF Nothing, View, Statuses, Versions, ViewOf, Entry
<1>7. CASE j.op # "removed" /\ ~j.on
  <2>1. PICK views \in Seq(View) : Fire(Append(views, ViewOf(info')))
    <3>1. /\ Fire((IF Deletes(j) THEN <<Nothing>> ELSE <<>>) \o <<ViewOf(info')>>)
          /\ (IF Deletes(j) THEN <<Nothing>> ELSE <<>>) \in Seq(View)
      BY <1>1, <1>6, <1>7
    <3>2. \A xs \in Seq(View) : xs \o <<ViewOf(info')>> = Append(xs, ViewOf(info'))
      BY <1>6
    <3> QED BY <3>1, <3>2
  <2>2. ASSUME NEW w \in opened PROVE WindowOK(w)'
    <3>1. events'[w] # <<>> /\ events'[w][Len(events'[w])] = ViewOf(info')
      BY <1>6, <2>1, Fired
    <3>2. w \in opened'
      BY DEF windowVars
    <3> QED BY <3>1, <3>2, WindowTold DEF True
  <2>3. ASSUME NEW w \in Windows, w \notin opened PROVE WindowOK(w)'
    <3>1. events'[w] = events[w]
      BY <2>1, <2>3, FiredClosed
    <3> QED BY <2>3, <3>1, WindowClosed DEF windowVars, SInv
  <2> QED BY <1>5, <2>2, <2>3 DEF SInv
<1>8. CASE ~(j.op # "removed" /\ ~j.on) /\ Deletes(j)
  <2>1. Fire(Append(<<>>, Nothing))
    <3>1. Fire(<<Nothing>> \o <<>>)
      BY <1>1, <1>8
    <3>2. <<Nothing>> \o <<>> = Append(<<>>, Nothing)
      OBVIOUS
    <3> QED BY <3>1, <3>2
  <2>2. ASSUME NEW w \in opened PROVE WindowOK(w)'
    <3>1. events'[w] # <<>> /\ events'[w][Len(events'[w])] = Nothing
      BY <1>6, <2>1, Fired
    <3>2. w \in opened'
      BY DEF windowVars
    <3> QED BY <3>1, <3>2, WindowTold DEF True
  <2>3. ASSUME NEW w \in Windows, w \notin opened PROVE WindowOK(w)'
    <3>1. events'[w] = events[w]
      BY <2>1, <2>3, FiredClosed
    <3> QED BY <2>3, <3>1, WindowClosed DEF windowVars, SInv
  <2> QED BY <1>5, <2>2, <2>3 DEF SInv
<1>9. CASE ~(j.op # "removed" /\ ~j.on) /\ ~Deletes(j)
  <2>1. j.op # "removed" /\ j.on /\ Connects(j)
    BY <1>9 DEF Deletes, Connects
  <2>2. s \in BusySlots' /\ info' = info
    BY <1>1, <1>2, <1>4, <1>9, <2>1 DEF BusySlots
  <2>3. Fire(<<>>)
    <3>1. Fire(<<>> \o <<>>)
      BY <1>1, <1>9
    <3> QED BY <3>1
  <2>4. ASSUME NEW w \in opened PROVE WindowOK(w)'
    <3>1. w \in Windows /\ events'[w] = events[w]
      BY <2>3, FiredNothing DEF TypeOK
    <3> QED BY <2>2, <3>1, WindowWaits DEF windowVars, SInv
  <2>5. ASSUME NEW w \in Windows, w \notin opened PROVE WindowOK(w)'
    <3>1. events'[w] = events[w]
      BY <2>3, <2>5, FiredClosed
    <3> QED BY <2>5, <3>1, WindowClosed DEF windowVars, SInv
  <2> QED BY <1>5, <2>4, <2>5 DEF SInv
<1> QED BY <1>7, <1>8, <1>9

LEMMA ClosedShown ==
  ASSUME TypeOK, TypeOK', SInv, NEW s \in Slots, Closed(s)
  PROVE  SInv'
<1>1. /\ jobs[s] # Idle /\ AfterClose(s, jobs[s], running \ {jobs[s].closing})
      /\ UNCHANGED <<diskVars, windowVars, shown, calls, excused>>
  BY DEF Closed
<1>2. jobs[s] \in Job
  BY <1>1 DEF TypeOK
<1> QED BY <1>1, <1>2, AfterCloseShown

LEMMA CreatedShown ==
  ASSUME TypeOK, TypeOK', SInv, NEW s \in Slots, NEW e, NEW cs, Created(s, e, cs)
  PROVE  SInv'
<1>1. /\ jobs[s] # Idle /\ info' = e /\ jobs' = [jobs EXCEPT ![s] = Idle]
      /\ refreshing' = (refreshing /\ jobs[s].op = "toggle")
      /\ Fire(<<ViewOf(e)>>)
      /\ UNCHANGED <<diskVars, windowVars, shown, calls>>
  BY DEF Created
<1>2. /\ \A t \in Slots : t # s => jobs'[t] = jobs[t]
  BY <1>1 DEF TypeOK
<1>3. RefreshHasJob'
  <2>1. SUFFICES ASSUME refreshing, jobs[s].op = "toggle"
                 PROVE  \E t \in BusySlots' : jobs'[t].op # "toggle"
    BY <1>1 DEF RefreshHasJob
  <2>2. PICK t \in BusySlots : jobs[t].op # "toggle"
    BY <2>1 DEF SInv, RefreshHasJob
  <2> QED BY <1>2, <2>1, <2>2 DEF BusySlots
<1>4. ViewOf(e) \in View /\ <<>> \in Seq(View)
  <2>1. e \in Entry
    BY <1>1 DEF TypeOK
  <2> QED BY <2>1 DEF View, Statuses, ViewOf, Entry
<1>5. Fire(Append(<<>>, ViewOf(e)))
  <2>1. <<ViewOf(e)>> = Append(<<>>, ViewOf(e))
    OBVIOUS
  <2> QED BY <1>1, <2>1
<1>6. ASSUME NEW w \in opened PROVE WindowOK(w)'
  <2>1. events'[w] # <<>> /\ events'[w][Len(events'[w])] = ViewOf(info')
    BY <1>1, <1>4, <1>5, Fired
  <2>2. w \in opened'
    BY <1>1 DEF windowVars
  <2> QED BY <2>1, <2>2, WindowTold DEF True
<1>7. ASSUME NEW w \in Windows, w \notin opened PROVE WindowOK(w)'
  <2>1. events'[w] = events[w]
    BY <1>5, <1>7, FiredClosed
  <2> QED BY <1>1, <1>7, <2>1, WindowClosed DEF windowVars, SInv
<1> QED BY <1>3, <1>6, <1>7 DEF SInv

LEMMA ReceiveShown ==
  ASSUME TypeOK, TypeOK', SInv, NEW w \in Windows, Receive(w)
  PROVE  SInv'
<1>1. /\ calls[w] # <<>> /\ calls' = [calls EXCEPT ![w] = Tail(@)]
      /\ UNCHANGED <<diskVars, windowVars, shown>>
  BY DEF Receive
<1>2. w \in opened /\ WindowOK(w)
  BY <1>1, OpenIfUnderWay
<1>3. PICK c \in Call : c = Head(calls[w])
  BY <1>1, QueueTail DEF TypeOK
<1>4. /\ \A u \in Windows : u # w => calls'[u] = calls[u]
      /\ calls'[w] = Tail(calls[w]) /\ calls[w] \in Seq(Call)
  BY <1>1 DEF TypeOK
<1>5. CASE Refused(c) /\ UNCHANGED <<events, mainVars>>
  <2>1. RefreshHasJob' /\ info' = info /\ jobs' = jobs /\ BusySlots' = BusySlots
    BY <1>5, MainKept DEF SInv
  <2>2. ASSUME NEW u \in Windows, u # w PROVE WindowOK(u)'
    BY <1>1, <1>4, <1>5, <2>1, <2>2, WindowKept DEF SInv, windowVars
  <2>3. c.op # "toggle" => BusySlots # {}
    BY <1>5 DEF Refused, SInv, RefreshHasJob
  <2>4. c.op = "toggle" => info = NoEntry /\ (Awakens(calls[w]) => Awakens(calls'[w]))
    <3>1. c.op = "toggle" /\ Awakens(calls[w]) => Awakens(Tail(calls[w]))
      BY <1>1, <1>3, <1>4, TailHas
    <3> QED BY <1>4, <1>5, <3>1 DEF Refused
  <2>5. Awakens(calls'[w]) => calls'[w] # <<>>
    BY DEF Awakens
  <2>6. WindowOK(w)'
    BY <1>1, <1>2, <1>5, <2>1, <2>3, <2>4, <2>5, Views DEF WindowOK, True, windowVars
  <2> QED BY <2>1, <2>2, <2>6 DEF SInv
<1>6. CASE /\ Free # {}
           /\ ~Refused(c)
           /\ LET s == CHOOSE t \in Free : TRUE
              IN IF JobOf(c).closing = NoClient THEN AfterClose(s, JobOf(c), running)
                 ELSE /\ jobs' = [jobs EXCEPT ![s] = JobOf(c)]
                      /\ refreshing' = (refreshing \/ c.op # "toggle")
                      /\ UNCHANGED <<events, info, running, lost>>
  <2>1. PICK s \in Free :
          IF JobOf(c).closing = NoClient THEN AfterClose(s, JobOf(c), running)
          ELSE /\ jobs' = [jobs EXCEPT ![s] = JobOf(c)]
               /\ refreshing' = (refreshing \/ c.op # "toggle")
               /\ UNCHANGED <<events, info, running, lost>>
    BY <1>6
  <2>2. s \in Slots /\ jobs[s] = Idle
    BY <2>1 DEF Free
  <2>3. JobOf(c) \in Job /\ JobOf(c).op = c.op
    BY DEF JobOf, Job, Call, TypeOK, Entry
  <2> DEFINE j == JobOf(c)
  <2>4. j \in Job /\ j.op = c.op
    BY <2>3
  <2>5. \A u \in Windows : u \notin opened => calls'[u] = calls[u]
    BY <1>2, <1>4
  <2>6. CASE j.closing = NoClient
    <3>1. AfterClose(s, j, running)
      BY <2>1, <2>6
    <3> HIDE DEF j
    <3> QED BY <1>1, <2>2, <2>4, <2>5, <3>1, AfterCloseShown
  <2>7. CASE j.closing # NoClient
    <3>1. /\ jobs' = [jobs EXCEPT ![s] = j]
          /\ refreshing' = (refreshing \/ c.op # "toggle")
          /\ UNCHANGED <<events, info, running, lost>>
      BY <2>1, <2>7
    <3> HIDE DEF j
    <3>2. j # Idle
      BY <2>4 DEF Job, Idle, Refreshes
    <3>3. jobs'[s] = j /\ (\A t \in Slots : t # s => jobs'[t] = jobs[t])
      BY <2>2, <3>1 DEF TypeOK
    <3>4. s \in BusySlots' /\ BusySlots \subseteq BusySlots'
      BY <2>2, <3>2, <3>3 DEF BusySlots
    <3>5. RefreshHasJob'
      BY <2>2, <2>4, <3>1, <3>3, <3>4 DEF SInv, RefreshHasJob, BusySlots
    <3>6. ASSUME NEW u \in opened PROVE WindowOK(u)'
      <4>1. u \in Windows
        BY DEF TypeOK
      <4> QED BY <1>1, <3>1, <3>4, <4>1, WindowWaits DEF windowVars, SInv
    <3>7. ASSUME NEW u \in Windows, u \notin opened PROVE WindowOK(u)'
      BY <1>1, <2>5, <3>1, <3>7, WindowClosed DEF windowVars, SInv
    <3> QED BY <3>5, <3>6, <3>7 DEF SInv
  <2> QED BY <2>6, <2>7
<1> QED BY <1>3, <1>5, <1>6 DEF Receive

LEMMA InitialShown ==
  ASSUME Init
  PROVE  SInv
<1>1. BusySlots = {}
  BY DEF Init, BusySlots
<1>2. Loading # Nothing
  BY DEF Loading, Nothing
<1> QED BY <1>1, <1>2 DEF Init, SInv, RefreshHasJob, WindowOK, True

LEMMA NextShown ==
  ASSUME TypeOK, TypeOK', SInv, [Next]_vars
  PROVE  SInv'
<1>1. CASE UNCHANGED vars
  BY <1>1 DEF vars, diskVars, windowVars, mainVars, SInv, RefreshHasJob, WindowOK, True, BusySlots
<1>2. ASSUME NEW w \in Windows, Window(w) \/ Receive(w) PROVE SInv'
  BY <1>2, ReadShown, RefreshShown, ToggledShown, DeliverShown, ReceiveShown DEF Window
<1>3. ASSUME NEW w \in Windows, User(w) PROVE SInv'
  <2>1. ASSUME NEW v \in Versions, Save(w, v) PROVE SInv'
    <3>1. FileBecomes(v, {w}) /\ {w} \subseteq opened
      BY <2>1 DEF Save
    <3> QED BY <3>1, FileShown
  <2> QED BY <1>3, <2>1, OpenShown, ToggleShown, RetryShown DEF User
<1>4. ASSUME NEW s \in Slots, Main(s) PROVE SInv'
  BY <1>4, ClosedShown, CreatedShown DEF Main, Connected, ConnectFails, ListToolsFails
<1>5. ASSUME NEW v \in 0..Broken, Edit(v) PROVE SInv'
  BY <1>5, FileShown DEF Edit
<1> QED BY <1>1, <1>2, <1>3, <1>4, <1>5 DEF Next

LEMMA ShownInvariant == Spec => []SInv
<1>1. Init => SInv
  BY InitialShown
<1>2. IInv /\ IInv' /\ SInv /\ [Next]_vars => SInv'
  BY NextShown DEF IInv
<1> QED BY <1>1, <1>2, Invariant, PTL DEF Spec

(* A window that shows a server as loading will be told what became of it,     *)
(* and what else it shows is what the main process has once the events have    *)
(* arrived, for any number of windows that ask at once.                        *)
THEOREM McpShownIsTrue == Spec => []ShownIsTrue
<1>1. IInv /\ SInv => ShownIsTrue
  <2> SUFFICES ASSUME IInv, SInv, NEW w \in opened
               PROVE  IF shown[w] = Loading
                      THEN \/ events[w] # <<>> \/ calls[w] # <<>> \/ Busy
                           \/ \E i \in DOMAIN pending[w] : pending[w][i].op = "toggle"
                      ELSE events[w] = <<>> => shown[w] \in {Nothing, ViewOf(info)}
    BY DEF ShownIsTrue
  <2>1. w \in Windows
    BY DEF IInv, TypeOK
  <2> QED BY <2>1, BusyIs DEF SInv, WindowOK, True, HasToggle
<1> QED BY <1>1, Invariant, ShownInvariant, PTL

------------------------------------------------------------------------------
(* What the windows ask for. Once a window has read the file, its newest       *)
(* refresh has the entry of the file; the last refresh it asked of the main    *)
(* process has the entry it refreshed last; and one window's is served. This   *)
(* is said of the windows that watch the file; the others ask for nothing.     *)

IsRefresh(x) == x.op # "toggle"
HasRefresh(xs) == \E i \in DOMAIN xs : IsRefresh(xs[i])
LastSays(xs, v) ==
    \A i \in DOMAIN xs :
        IsRefresh(xs[i]) /\ (\A k \in DOMAIN xs : k > i => ~IsRefresh(xs[k])) => xs[i].version = v

\* What a refresh tells of the entry v after the entry u.
Told(u, v) == IF u = 0 /\ v # 0 THEN "added" ELSE IF u # 0 /\ v = 0 THEN "removed" ELSE "same"

\* The refreshes that await the storage tell what changes when it is their turn.
InStep(xs, u) ==
    \A i \in DOMAIN xs : IsRefresh(xs[i]) =>
        /\ xs[i].op = Told(u, xs[i].version)
        /\ (\E k \in DOMAIN xs : k > i /\ IsRefresh(xs[k])) => xs[i].version = u

\* The refresh of one window has come to its end, or there is none.
Newest(xs, u, v) == LastSays(xs, v) /\ (~HasRefresh(xs) => u = v)

Follows(w) == (w \in watching /\ file # Broken /\ reads[w] = <<>>) => Newest(pending[w], last[w], file)

RemovedIsNone(xs) == \A i \in DOMAIN xs : xs[i].op = "removed" => xs[i].version = 0

\* What the main process has, or will have when its call is done.
Serves(v) == IF BusySlots = {} THEN info.version = v ELSE \A s \in BusySlots : jobs[s].version = v

JobOK(s) ==
    /\ jobs[s].op = "toggle" => jobs[s].version = info.version
    /\ jobs[s].op = "removed" => jobs[s].version = 0

\* A window that does not watch the file has not refreshed.
Unheard(w) == w \notin watching => last[w] = 0 /\ ~HasRefresh(pending[w]) /\ ~HasRefresh(calls[w])

\* With one call at a time and no change told by an outdated entry.
OneByOne ==
    /\ \A s, t \in BusySlots : s = t
    /\ \A s \in BusySlots : JobOK(s)
    /\ \A w \in Windows : /\ InStep(pending[w], last[w]) /\ LastSays(calls[w], last[w])
                          /\ Unheard(w)
    /\ watching = {} => Serves(0)
    /\ watching # {} => \/ \E w \in Windows : HasRefresh(calls[w])
                        \/ \E w \in watching : Serves(last[w])

FInv ==
    /\ \A w \in Windows : Follows(w) /\ RemovedIsNone(pending[w]) /\ RemovedIsNone(calls[w])
    /\ "change" \notin excused => OneByOne

LEMMA AppendRefreshes ==
  ASSUME NEW S, NEW xs \in Seq(S), NEW x \in S
  PROVE  /\ HasRefresh(Append(xs, x)) <=> HasRefresh(xs) \/ IsRefresh(x)
         /\ IsRefresh(x) => LastSays(Append(xs, x), x.version)
         /\ \A v : ~IsRefresh(x) /\ LastSays(xs, v) => LastSays(Append(xs, x), v)
         /\ \A u : ~IsRefresh(x) /\ InStep(xs, u) => InStep(Append(xs, x), u)
         /\ \A u : /\ IsRefresh(x) /\ InStep(xs, u) /\ x.op = Told(u, x.version)
                   /\ \A i \in DOMAIN xs : IsRefresh(xs[i]) => xs[i].version = u
                   => InStep(Append(xs, x), u)
         /\ RemovedIsNone(xs) /\ (x.op = "removed" => x.version = 0) => RemovedIsNone(Append(xs, x))
<1> DEFINE ys == Append(xs, x)
           n == Len(xs)
<1>1. /\ n \in Nat /\ DOMAIN xs = 1..n /\ DOMAIN ys = 1..(n + 1)
      /\ \A i \in 1..n : ys[i] = xs[i]
      /\ ys[n + 1] = x
  BY Appended
<1>2. \A i \in 1..(n + 1) : i \in 1..n \/ i = n + 1
  BY <1>1
<1>3. 1..n \subseteq 1..(n + 1) /\ n + 1 \in 1..(n + 1) /\ \A i \in 1..n : n + 1 > i
  BY <1>1
<1> HIDE DEF ys, n
<1>4. HasRefresh(ys) <=> HasRefresh(xs) \/ IsRefresh(x)
  BY <1>1, <1>2, <1>3 DEF HasRefresh
<1>5. IsRefresh(x) => LastSays(ys, x.version)
  BY <1>1, <1>2, <1>3 DEF LastSays
<1>6. ASSUME NEW v, ~IsRefresh(x), LastSays(xs, v) PROVE LastSays(ys, v)
  <2> SUFFICES ASSUME NEW i \in 1..(n + 1), IsRefresh(ys[i]),
                      \A k \in 1..(n + 1) : k > i => ~IsRefresh(ys[k])
               PROVE  ys[i].version = v
    BY <1>1 DEF LastSays
  <2>1. i \in 1..n
    BY <1>1, <1>2, <1>6
  <2>2. \A k \in 1..n : k > i => ~IsRefresh(xs[k])
    BY <1>1, <1>3
  <2> QED BY <1>1, <1>6, <2>1, <2>2 DEF LastSays
<1>7. ASSUME NEW u, ~IsRefresh(x), InStep(xs, u) PROVE InStep(ys, u)
  <2> SUFFICES ASSUME NEW i \in 1..(n + 1), IsRefresh(ys[i])
               PROVE  /\ ys[i].op = Told(u, ys[i].version)
                      /\ (\E k \in 1..(n + 1) : k > i /\ IsRefresh(ys[k])) => ys[i].version = u
    BY <1>1 DEF InStep
  <2>1. i \in 1..n
    BY <1>1, <1>2, <1>7
  <2>2. (\E k \in 1..(n + 1) : k > i /\ IsRefresh(ys[k])) => \E k \in 1..n : k > i /\ IsRefresh(xs[k])
    BY <1>1, <1>2, <1>7
  <2> QED BY <1>1, <1>7, <2>1, <2>2 DEF InStep
<1>8. ASSUME NEW u, InStep(xs, u), x.op = Told(u, x.version),
             \A i \in DOMAIN xs : IsRefresh(xs[i]) => xs[i].version = u
      PROVE  InStep(ys, u)
  <2> SUFFICES ASSUME NEW i \in 1..(n + 1), IsRefresh(ys[i])
               PROVE  /\ ys[i].op = Told(u, ys[i].version)
                      /\ (\E k \in 1..(n + 1) : k > i /\ IsRefresh(ys[k])) => ys[i].version = u
    BY <1>1 DEF InStep
  <2>1. CASE i \in 1..n
    BY <1>1, <1>8, <2>1 DEF InStep
  <2>2. CASE i = n + 1
    <3>1. \A k \in 1..(n + 1) : ~(k > i)
      BY <1>1, <2>2
    <3> QED BY <1>1, <1>8, <2>2, <3>1
  <2> QED BY <1>2, <2>1, <2>2
<1>9. RemovedIsNone(xs) /\ (x.op = "removed" => x.version = 0) => RemovedIsNone(ys)
  BY <1>1, <1>2 DEF RemovedIsNone
<1> QED BY <1>4, <1>5, <1>6, <1>7, <1>8, <1>9 DEF ys

LEMMA TailRefreshes ==
  ASSUME NEW S, NEW xs \in Seq(S), xs # <<>>
  PROVE  /\ HasRefresh(Tail(xs)) => HasRefresh(xs)
         /\ HasRefresh(xs) <=> IsRefresh(Head(xs)) \/ HasRefresh(Tail(xs))
         /\ \A v : LastSays(xs, v) => LastSays(Tail(xs), v)
         /\ \A v : LastSays(xs, v) /\ IsRefresh(Head(xs)) /\ ~HasRefresh(Tail(xs)) => Head(xs).version = v
         /\ \A u : InStep(xs, u) => InStep(Tail(xs), u)
         /\ \A u : InStep(xs, u) /\ IsRefresh(Head(xs)) => Head(xs).op = Told(u, Head(xs).version)
         /\ \A u : InStep(xs, u) /\ IsRefresh(Head(xs)) /\ HasRefresh(Tail(xs)) => Head(xs).version = u
         /\ \A u : ~HasRefresh(Tail(xs)) => InStep(Tail(xs), u)
         /\ RemovedIsNone(xs) => RemovedIsNone(Tail(xs)) /\ (Head(xs).op = "removed" => Head(xs).version = 0)
<1> DEFINE ys == Tail(xs)
           n == Len(xs)
           x == Head(xs)
<1>1. /\ n \in Nat /\ n >= 1 /\ DOMAIN xs = 1..n /\ DOMAIN ys = 1..(n - 1) /\ x = xs[1]
      /\ \A i \in 1..(n - 1) : ys[i] = xs[i + 1]
      /\ \A i \in 2..n : i - 1 \in 1..(n - 1) /\ xs[i] = ys[i - 1]
  BY Tailed
<1> HIDE DEF ys, n, x
<1>2. \A i \in 1..n : i = 1 \/ i \in 2..n
  BY <1>1
<1>3. \A i \in 1..(n - 1) : i + 1 \in 1..n /\ i + 1 > 1
  BY <1>1
<1>4. 1 \in 1..n
  BY <1>1
<1>5. HasRefresh(ys) => HasRefresh(xs) /\ \E k \in 1..n : k > 1 /\ IsRefresh(xs[k])
  BY <1>1, <1>3 DEF HasRefresh
<1>6. HasRefresh(xs) <=> IsRefresh(x) \/ HasRefresh(ys)
  BY <1>1, <1>2, <1>4, <1>5 DEF HasRefresh
<1>7. ASSUME NEW v, LastSays(xs, v) PROVE LastSays(ys, v)
  <2> SUFFICES ASSUME NEW i \in 1..(n - 1), IsRefresh(ys[i]),
                      \A k \in 1..(n - 1) : k > i => ~IsRefresh(ys[k])
               PROVE  ys[i].version = v
    BY <1>1 DEF LastSays
  <2>1. \A k \in 1..n : k > i + 1 => ~IsRefresh(xs[k])
    <3> SUFFICES ASSUME NEW k \in 1..n, k > i + 1 PROVE ~IsRefresh(xs[k])
      OBVIOUS
    <3>1. k \in 2..n /\ k - 1 > i
      BY <1>1
    <3> QED BY <1>1, <3>1
  <2> QED BY <1>1, <1>3, <1>7, <2>1 DEF LastSays
<1>8. ASSUME NEW v, LastSays(xs, v), IsRefresh(x), ~HasRefresh(ys) PROVE x.version = v
  <2>1. \A k \in 1..n : k > 1 => ~IsRefresh(xs[k])
    <3> SUFFICES ASSUME NEW k \in 1..n, k > 1 PROVE ~IsRefresh(xs[k])
      OBVIOUS
    <3>1. k \in 2..n
      BY <1>1
    <3> QED BY <1>1, <1>8, <3>1 DEF HasRefresh
  <2> QED BY <1>1, <1>4, <1>8, <2>1 DEF LastSays
<1>9. ASSUME NEW u, InStep(xs, u) PROVE InStep(ys, u)
  <2> SUFFICES ASSUME NEW i \in 1..(n - 1), IsRefresh(ys[i])
               PROVE  /\ ys[i].op = Told(u, ys[i].version)
                      /\ (\E k \in 1..(n - 1) : k > i /\ IsRefresh(ys[k])) => ys[i].version = u
    BY <1>1 DEF InStep
  <2>1. ASSUME NEW k \in 1..(n - 1), k > i, IsRefresh(ys[k])
        PROVE  \E l \in 1..n : l > i + 1 /\ IsRefresh(xs[l])
    <3>1. k + 1 \in 1..n /\ k + 1 > i + 1 /\ xs[k + 1] = ys[k]
      BY <1>1, <1>3, <2>1
    <3> QED BY <2>1, <3>1
  <2> QED BY <1>1, <1>3, <1>9, <2>1 DEF InStep
<1>10. ASSUME NEW u, InStep(xs, u), IsRefresh(x)
       PROVE  x.op = Told(u, x.version) /\ (HasRefresh(ys) => x.version = u)
  BY <1>1, <1>4, <1>5, <1>10 DEF InStep
<1>11. ASSUME NEW u, ~HasRefresh(ys) PROVE InStep(ys, u)
  BY <1>11 DEF InStep, HasRefresh
<1>12. ASSUME RemovedIsNone(xs) PROVE RemovedIsNone(ys) /\ (x.op = "removed" => x.version = 0)
  <2>1. \A i \in 1..n : xs[i].op = "removed" => xs[i].version = 0
    BY <1>1, <1>12 DEF RemovedIsNone
  <2>2. \A i \in 1..(n - 1) : ys[i].op = "removed" => ys[i].version = 0
    BY <1>1, <1>3, <2>1
  <2> QED BY <1>1, <1>4, <2>1, <2>2 DEF RemovedIsNone
<1> QED BY <1>5, <1>6, <1>7, <1>8, <1>9, <1>10, <1>11, <1>12 DEF ys, x

------------------------------------------------------------------------------
(* The steps of the windows.                                                   *)

\* The main process goes on with what it has.
LEMMA ServesKept ==
  ASSUME UNCHANGED mainVars
  PROVE  /\ BusySlots' = BusySlots /\ jobs' = jobs /\ info' = info
         /\ \A v : Serves(v)' <=> Serves(v)
BY DEF mainVars, BusySlots, Serves

\* A step that leaves what windows refresh and ask for alone.
LEMMA WindowsKept ==
  ASSUME TypeOK, FInv, UNCHANGED <<pending, last, calls, mainVars>>,
         excused' = excused, watching \subseteq watching', watching' \subseteq Windows,
         \A w \in watching' : reads'[w] = <<>> => w \in watching /\ reads[w] = <<>> /\ file' = file
  PROVE  FInv'
<1>1. /\ BusySlots' = BusySlots /\ jobs' = jobs /\ info' = info
      /\ \A v : Serves(v)' <=> Serves(v)
  BY ServesKept
<1>2. ASSUME NEW w \in Windows
      PROVE  Follows(w)' /\ RemovedIsNone(pending[w])' /\ RemovedIsNone(calls[w])'
  <2>1. Broken' = Broken
    BY DEF Broken
  <2>2. Follows(w)'
    BY <2>1 DEF FInv, Follows
  <2> QED BY <2>2 DEF FInv, RemovedIsNone
<1>3. ASSUME "change" \notin excused PROVE OneByOne'
  <2>1. OneByOne
    BY <1>3 DEF FInv
  <2>2. \A s \in BusySlots : JobOK(s)'
    BY <1>1, <2>1 DEF OneByOne, JobOK
  <2>3. \A w \in Windows : InStep(pending[w], last[w])' /\ LastSays(calls[w], last[w])' /\ Unheard(w)'
    BY <2>1 DEF OneByOne, Unheard
  <2>4. watching' = {} => Serves(0)'
    BY <1>1, <2>1 DEF OneByOne
  <2>5. watching' # {} => \/ \E w \in Windows : HasRefresh(calls'[w])
                          \/ \E w \in watching' : Serves(last[w])'
    <3>1. CASE watching # {}
      <4>1. \A w \in watching : w \in watching' /\ (Serves(last[w]) => Serves(last[w])')
        BY <1>1 DEF Serves
      <4> QED BY <2>1, <3>1, <4>1 DEF OneByOne
    <3>2. CASE watching = {} /\ watching' # {}
      <4>1. PICK w \in watching' : TRUE
        BY <3>2
      <4>2. last'[w] = 0
        BY <2>1, <3>2, <4>1 DEF OneByOne, Unheard
      <4>3. Serves(last[w])'
        BY <1>1, <2>1, <3>2, <4>2 DEF OneByOne, Serves
      <4> QED BY <4>1, <4>3
    <3> QED BY <3>1, <3>2
  <2> QED BY <1>1, <2>1, <2>2, <2>3, <2>4, <2>5 DEF OneByOne
<1> QED BY <1>2, <1>3 DEF FInv

LEMMA OpenFollows ==
  ASSUME TypeOK, TypeOK', FInv, NEW w \in Windows, Open(w)
  PROVE  FInv'
<1>1. UNCHANGED <<file, last, pending, calls, mainVars, excused>>
  BY DEF Open, diskVars
<1>2. watching' \subseteq Windows
  BY DEF TypeOK
<1>3. CASE UNCHANGED <<watching, reads>>
  BY <1>1, <1>2, <1>3, WindowsKept
<1>4. CASE watching' = watching \cup {w} /\ reads' = [reads EXCEPT ![w] = Append(@, FALSE)]
  <2>1. reads'[w] = Append(reads[w], FALSE) /\ reads[w] \in Seq(BOOLEAN)
    BY <1>4 DEF TypeOK
  <2>2. reads'[w] # <<>>
    <3>1. \A xs \in Seq(BOOLEAN) : \A x \in BOOLEAN : Append(xs, x) # <<>>
      BY Appended
    <3> QED BY <2>1, <3>1
  <2>3. ASSUME NEW u \in watching', reads'[u] = <<>>
        PROVE  u \in watching /\ reads[u] = <<>> /\ file' = file
    BY <1>1, <1>4, <2>2, <2>3 DEF TypeOK
  <2>4. watching \subseteq watching'
    BY <1>4
  <2> QED BY <1>1, <1>2, <2>3, <2>4, WindowsKept
<1> QED BY <1>3, <1>4 DEF Open

LEMMA FileFollows ==
  ASSUME TypeOK, TypeOK', FInv, NEW v, NEW writers, FileBecomes(v, writers)
  PROVE  FInv'
<1>1. UNCHANGED <<watching, last, pending, calls, mainVars, excused>>
  BY DEF FileBecomes
<1>2. ASSUME NEW u \in watching' PROVE reads'[u] # <<>>
  <2>1. u \in Windows /\ u \in watching /\ reads[u] \in Seq(BOOLEAN)
    BY <1>1 DEF TypeOK
  <2> QED BY <2>1, FileReads
<1>3. watching' \subseteq Windows
  BY DEF TypeOK
<1> QED BY <1>1, <1>2, <1>3, WindowsKept

LEMMA RetryFollows ==
  ASSUME TypeOK, TypeOK', FInv, NEW w \in Windows, Retry(w)
  PROVE  FInv'
<1>1. /\ reads' = [reads EXCEPT ![w] = Append(@, TRUE)]
      /\ UNCHANGED <<file, opened, watching, last, pending, calls, mainVars, excused>>
  BY DEF Retry
<1>2. reads'[w] = Append(reads[w], TRUE) /\ reads[w] \in Seq(BOOLEAN)
  BY <1>1 DEF TypeOK
<1>3. reads'[w] # <<>>
  <2>1. \A xs \in Seq(BOOLEAN) : \A x \in BOOLEAN : Append(xs, x) # <<>>
    BY Appended
  <2> QED BY <1>2, <2>1
<1>4. ASSUME NEW u \in watching', reads'[u] = <<>>
      PROVE  u \in watching /\ reads[u] = <<>> /\ file' = file
  BY <1>1, <1>3, <1>4 DEF TypeOK
<1>5. watching' \subseteq Windows
  BY DEF TypeOK
<1> QED BY <1>1, <1>4, <1>5, WindowsKept

LEMMA DeliverFollows ==
  ASSUME TypeOK, TypeOK', FInv, NEW w \in Windows, Deliver(w)
  PROVE  FInv'
<1>1. UNCHANGED <<file, opened, watching, reads, last, pending, calls, mainVars, excused>>
  BY DEF Deliver, diskVars, windowVars
<1>2. watching' \subseteq Windows
  BY DEF TypeOK
<1> QED BY <1>1, <1>2, WindowsKept

\* A step of one window that goes on or asks the main process.
LEMMA OneByOneStep ==
  ASSUME TypeOK, OneByOne, UNCHANGED <<mainVars, watching>>, NEW w \in Windows,
         \A u \in Windows : u # w => /\ pending'[u] = pending[u] /\ calls'[u] = calls[u]
                                     /\ last'[u] = last[u],
         InStep(pending'[w], last'[w]), LastSays(calls'[w], last'[w]), Unheard(w)',
         HasRefresh(calls[w]) => HasRefresh(calls'[w]),
         last'[w] = last[w] \/ HasRefresh(calls'[w])
  PROVE  OneByOne'
<1>1. /\ BusySlots' = BusySlots /\ jobs' = jobs /\ info' = info
      /\ \A v : Serves(v)' <=> Serves(v)
  BY ServesKept
<1>2. \A s \in BusySlots : JobOK(s)'
  BY <1>1 DEF OneByOne, JobOK
<1>3. ASSUME NEW u \in Windows
      PROVE  InStep(pending[u], last[u])' /\ LastSays(calls[u], last[u])' /\ Unheard(u)'
  <2>1. CASE u = w
    BY <2>1 DEF InStep, LastSays
  <2>2. CASE u # w
    BY <2>2 DEF OneByOne, InStep, LastSays, Unheard
  <2> QED BY <2>1, <2>2
<1>4. watching' = {} => Serves(0)'
  BY <1>1 DEF OneByOne
<1>5. ASSUME watching' # {}
      PROVE  \/ \E u \in Windows : HasRefresh(calls'[u])
             \/ \E u \in watching' : Serves(last[u])'
  <2>1. CASE \E u \in Windows : HasRefresh(calls[u])
    BY <2>1
  <2>2. ASSUME NEW u \in watching, Serves(last[u]), last'[u] = last[u]
        PROVE  Serves(last[u])'
    BY <1>1, <2>2 DEF Serves
  <2>3. \A u \in watching : last'[u] = last[u] \/ HasRefresh(calls'[w])
    BY DEF TypeOK
  <2> QED BY <1>5, <2>1, <2>2, <2>3 DEF OneByOne
<1> QED BY <1>1, <1>2, <1>3, <1>4, <1>5 DEF OneByOne

LEMMA ToggleFollows ==
  ASSUME TypeOK, FInv, NEW w \in Windows, Toggle(w)
  PROVE  FInv'
<1> DEFINE p == [op |-> "toggle", version |-> 0, flag |-> on[w] # "on"]
<1>1. /\ pending' = [pending EXCEPT ![w] = Append(@, p)]
      /\ UNCHANGED <<file, opened, watching, last, reads, calls, mainVars, excused>>
  BY DEF Toggle
<1>2. p \in Pending /\ ~IsRefresh(p) /\ p.op # "removed"
  BY McpAssumption DEF Pending, Versions, IsRefresh
<1> HIDE DEF p
<1>3. /\ \A u \in Windows : u # w => pending'[u] = pending[u]
      /\ pending'[w] = Append(pending[w], p) /\ pending[w] \in Seq(Pending)
  BY <1>1 DEF TypeOK
<1>4. /\ HasRefresh(pending'[w]) <=> HasRefresh(pending[w])
      /\ \A v : LastSays(pending[w], v) => LastSays(pending'[w], v)
      /\ \A u : InStep(pending[w], u) => InStep(pending'[w], u)
      /\ RemovedIsNone(pending[w]) => RemovedIsNone(pending'[w])
  BY <1>2, <1>3, AppendRefreshes
<1>5. ASSUME NEW u \in Windows
      PROVE  Follows(u)' /\ RemovedIsNone(pending[u])' /\ RemovedIsNone(calls[u])'
  <2>1. Broken' = Broken
    BY DEF Broken
  <2>2. Follows(u)'
    BY <1>1, <1>3, <1>4, <2>1 DEF FInv, Follows, Newest
  <2>3. RemovedIsNone(pending'[u]) /\ RemovedIsNone(calls'[u])
    BY <1>1, <1>3, <1>4 DEF FInv
  <2> QED BY <1>1, <2>2, <2>3 DEF FInv, RemovedIsNone
<1>6. ASSUME "change" \notin excused PROVE OneByOne'
  BY <1>1, <1>3, <1>4, <1>6, OneByOneStep DEF FInv, OneByOne, Unheard
<1> QED BY <1>1, <1>5, <1>6 DEF FInv

LEMMA ToggledFollows ==
  ASSUME TypeOK, FInv, NEW w \in Windows, Toggled(w)
  PROVE  FInv'
<1> DEFINE c == [op |-> "toggle", version |-> 0, on |-> Head(pending[w]).flag]
<1>1. /\ pending[w] # <<>> /\ pending' = [pending EXCEPT ![w] = Tail(@)]
      /\ Head(pending[w]).op = "toggle"
      /\ calls' = [calls EXCEPT ![w] = Append(@, c)]
      /\ UNCHANGED <<file, opened, watching, last, reads, mainVars, excused>>
  BY DEF Toggled, diskVars
<1>2. c \in Call /\ ~IsRefresh(c) /\ c.op # "removed"
  <2>1. Head(pending[w]) \in Pending
    BY <1>1, QueueTail DEF TypeOK
  <2>2. Head(pending[w]).flag \in BOOLEAN
    BY <2>1 DEF Pending
  <2> QED BY <2>2, McpAssumption DEF Call, Versions, IsRefresh
<1> HIDE DEF c
<1>3. /\ \A u \in Windows : u # w => pending'[u] = pending[u] /\ calls'[u] = calls[u]
      /\ pending'[w] = Tail(pending[w]) /\ pending[w] \in Seq(Pending)
      /\ calls'[w] = Append(calls[w], c) /\ calls[w] \in Seq(Call)
  BY <1>1 DEF TypeOK
<1>4. /\ HasRefresh(calls'[w]) <=> HasRefresh(calls[w])
      /\ \A v : LastSays(calls[w], v) => LastSays(calls'[w], v)
      /\ RemovedIsNone(calls[w]) => RemovedIsNone(calls'[w])
  BY <1>2, <1>3, AppendRefreshes
<1>5. /\ HasRefresh(pending'[w]) <=> HasRefresh(pending[w])
      /\ \A v : LastSays(pending[w], v) => LastSays(pending'[w], v)
      /\ \A u : InStep(pending[w], u) => InStep(pending'[w], u)
      /\ RemovedIsNone(pending[w]) => RemovedIsNone(pending'[w])
  <2>1. ~IsRefresh(Head(pending[w]))
    BY <1>1 DEF IsRefresh
  <2> QED BY <1>1, <1>3, <2>1, TailRefreshes
<1>6. ASSUME NEW u \in Windows
      PROVE  Follows(u)' /\ RemovedIsNone(pending[u])' /\ RemovedIsNone(calls[u])'
  <2>1. Broken' = Broken
    BY DEF Broken
  <2>2. Follows(u)'
    BY <1>1, <1>3, <1>5, <2>1 DEF FInv, Follows, Newest
  <2>3. RemovedIsNone(pending'[u]) /\ RemovedIsNone(calls'[u])
    BY <1>3, <1>4, <1>5 DEF FInv
  <2> QED BY <1>1, <2>2, <2>3 DEF FInv, RemovedIsNone
<1>7. ASSUME "change" \notin excused PROVE OneByOne'
  BY <1>1, <1>3, <1>4, <1>5, <1>7, OneByOneStep DEF FInv, OneByOne, Unheard
<1> QED BY <1>1, <1>6, <1>7 DEF FInv

LEMMA ReadFollows ==
  ASSUME TypeOK, FInv, NEW w \in Windows, Read(w)
  PROVE  FInv'
<1>1. /\ reads[w] # <<>> /\ reads' = [reads EXCEPT ![w] = Tail(@)]
      /\ UNCHANGED <<file, ops, opened, watching, last, shown, calls, events, mainVars>>
  BY DEF Read
<1>2. Broken' = Broken /\ \A u \in Windows : u # w => reads'[u] = reads[u]
  BY <1>1 DEF Broken, TypeOK
<1>3. CASE file = Broken
  <2>1. UNCHANGED <<pending, excused>>
    BY <1>3 DEF Read
  <2>2. ASSUME NEW u \in Windows PROVE Follows(u)' /\ RemovedIsNone(pending'[u])
    BY <1>1, <1>2, <1>3, <2>1 DEF Follows, FInv
  <2>3. ASSUME "change" \notin excused PROVE OneByOne'
    BY <1>1, <2>1, <2>3, OneByOneStep DEF FInv, OneByOne, Unheard
  <2> QED BY <1>1, <2>1, <2>2, <2>3 DEF FInv, RemovedIsNone
<1>4. CASE file # Broken
  <2> DEFINE op == Told(last[w], file)
             p == [op |-> op, version |-> file, flag |-> Head(reads[w])]
  <2>1. op \in {"added", "removed", "same"}
    BY DEF Told
  <2>2. Head(reads[w]) \in BOOLEAN /\ file \in Versions
    BY <1>1, <1>4, QueueTail, McpAssumption DEF TypeOK, Versions, Broken
  <2>3. p \in Pending /\ IsRefresh(p) /\ p.version = file /\ p.op = Told(last[w], file)
    <3> HIDE DEF op
    <3>1. p \in Pending /\ p.version = file /\ p.op = op
      BY <2>1, <2>2 DEF Pending
    <3> QED BY <2>1, <3>1 DEF op, IsRefresh
  <2>4. pending' = [pending EXCEPT ![w] = Append(@, p)] /\ excused' = excused \cup Outdated(w)
    BY <1>4 DEF Read, Told
  <2> HIDE DEF op, p
  <2>5. /\ \A u \in Windows : u # w => pending'[u] = pending[u]
        /\ pending'[w] = Append(pending[w], p) /\ pending[w] \in Seq(Pending)
    BY <2>4 DEF TypeOK
  <2>6. /\ HasRefresh(pending'[w]) /\ LastSays(pending'[w], file)
        /\ RemovedIsNone(pending[w]) /\ (p.op = "removed" => p.version = 0) => RemovedIsNone(pending'[w])
        /\ \A u : /\ InStep(pending[w], u) /\ p.op = Told(u, p.version)
                  /\ \A i \in DOMAIN pending[w] : IsRefresh(pending[w][i]) => pending[w][i].version = u
                  => InStep(pending'[w], u)
    BY <2>3, <2>5, AppendRefreshes
  <2>7. ASSUME NEW u \in Windows PROVE Follows(u)'
    <3>1. CASE u = w
      BY <1>1, <2>6, <3>1 DEF Follows, Newest
    <3>2. CASE u # w
      BY <1>1, <1>2, <2>5, <3>2 DEF FInv, Follows
    <3> QED BY <3>1, <3>2
  <2>8. ASSUME NEW u \in Windows PROVE RemovedIsNone(pending'[u])
    <3>1. p.op = "removed" => p.version = 0
      BY <2>3 DEF Told
    <3> QED BY <2>5, <2>6, <3>1 DEF FInv
  <2>9. ASSUME "change" \notin excused' PROVE OneByOne'
    <3>1. OneByOne /\ "change" \notin Outdated(w)
      BY <2>4, <2>9 DEF FInv
    <3>2. \A i \in DOMAIN pending[w] : IsRefresh(pending[w][i]) => pending[w][i].version = last[w]
      BY <3>1 DEF Outdated, IsRefresh
    <3>3. InStep(pending'[w], last[w])
      BY <2>3, <2>6, <3>1, <3>2 DEF OneByOne
    <3>4. w \in watching
      BY <3>1 DEF Outdated
    <3> QED BY <1>1, <2>5, <3>1, <3>3, <3>4, OneByOneStep DEF OneByOne, Unheard
  <2> QED BY <1>1, <2>7, <2>9, <2>8 DEF FInv, RemovedIsNone
<1> QED BY <1>3, <1>4

LEMMA RefreshFollows ==
  ASSUME TypeOK, FInv, NEW w \in Windows, Refresh(w)
  PROVE  FInv'
<1>1. /\ pending[w] # <<>> /\ pending' = [pending EXCEPT ![w] = Tail(@)]
      /\ UNCHANGED <<file, opened, watching, reads, mainVars, excused>>
  BY DEF Refresh, diskVars
<1>2. PICK p \in Pending : p = Head(pending[w])
  BY <1>1, QueueTail DEF TypeOK
<1>3. /\ p.op # "toggle" /\ p.version \in Versions
      /\ last' = [last EXCEPT ![w] = p.version]
      /\ calls' = IF Change(w, p) = "none" THEN calls ELSE
            [calls EXCEPT ![w] =
                Append(@, [op |-> Change(w, p), version |-> p.version, on |-> on[w] # "off"])]
  BY <1>2 DEF Refresh, Pending
<1>4. /\ p.op \in {"added", "removed", "same"}
      /\ Change(w, p) \in Refreshes \cup {"none"} /\ IsRefresh(p)
  <2>1. p.op \in {"added", "removed", "same"}
    BY <1>3 DEF Pending
  <2> QED BY <1>3, <2>1 DEF Change, Refreshes, IsRefresh
<1>5. /\ \A u \in Windows : u # w => pending'[u] = pending[u] /\ last'[u] = last[u]
      /\ pending'[w] = Tail(pending[w]) /\ pending[w] \in Seq(Pending) /\ last'[w] = p.version
  BY <1>1, <1>3 DEF TypeOK
<1>6. /\ \A v : LastSays(pending[w], v) => LastSays(pending'[w], v)
      /\ \A v : LastSays(pending[w], v) /\ ~HasRefresh(pending'[w]) => p.version = v
      /\ \A u : InStep(pending[w], u) => /\ InStep(pending'[w], u) /\ p.op = Told(u, p.version)
                                         /\ HasRefresh(pending'[w]) => p.version = u
      /\ \A u : ~HasRefresh(pending'[w]) => InStep(pending'[w], u)
      /\ RemovedIsNone(pending[w]) => RemovedIsNone(pending'[w]) /\ (p.op = "removed" => p.version = 0)
  BY <1>1, <1>2, <1>4, <1>5, TailRefreshes
<1>7. ASSUME OneByOne PROVE w \in watching
  <2>1. HasRefresh(pending[w])
    BY <1>1, <1>2, <1>4, <1>5, TailRefreshes
  <2> QED BY <1>7, <2>1 DEF OneByOne, Unheard
<1>8. ASSUME NEW u \in Windows
      PROVE  Follows(u)' /\ RemovedIsNone(pending[u])'
  <2>1. Broken' = Broken
    BY DEF Broken
  <2>2. Follows(u)'
    BY <1>1, <1>5, <1>6, <2>1 DEF FInv, Follows, Newest
  <2>3. RemovedIsNone(pending'[u])
    BY <1>5, <1>6 DEF FInv
  <2> QED BY <2>2, <2>3 DEF RemovedIsNone
<1>9. CASE Change(w, p) = "none"
  <2>1. calls' = calls /\ p.op = "same" /\ (p.version = 0 \/ p.version = last[w])
    BY <1>3, <1>4, <1>9 DEF Change
  <2>2. ASSUME NEW u \in Windows PROVE RemovedIsNone(calls[u])'
    BY <2>1 DEF FInv, RemovedIsNone
  <2>3. ASSUME "change" \notin excused PROVE OneByOne'
    <3>1. OneByOne
      BY <2>3 DEF FInv
    <3>2. p.op = Told(last[w], p.version) /\ InStep(pending'[w], last[w])
      BY <1>6, <3>1 DEF OneByOne
    <3>3. last'[w] = last[w]
      BY <1>5, <2>1, <3>2 DEF Told
    <3> QED BY <1>1, <1>5, <1>7, <2>1, <3>1, <3>2, <3>3, OneByOneStep DEF OneByOne, Unheard
  <2> QED BY <1>1, <1>8, <2>2, <2>3 DEF FInv
<1>10. CASE Change(w, p) # "none"
  <2> DEFINE c == [op |-> Change(w, p), version |-> p.version, on |-> on[w] # "off"]
  <2>1. c \in Call /\ c.op = Change(w, p) /\ c.version = p.version
    BY <1>3, <1>4, <1>10 DEF Call
  <2>2. IsRefresh(c)
    BY <1>3, <2>1 DEF IsRefresh, Change
  <2>3. calls' = [calls EXCEPT ![w] = Append(@, c)]
    BY <1>3, <1>10
  <2> HIDE DEF c
  <2>4. /\ calls'[w] = Append(calls[w], c) /\ calls[w] \in Seq(Call)
        /\ \A u \in Windows : u # w => calls'[u] = calls[u]
    BY <2>3 DEF TypeOK
  <2>5. /\ HasRefresh(calls'[w]) /\ LastSays(calls'[w], p.version)
        /\ RemovedIsNone(calls[w]) /\ (c.op = "removed" => c.version = 0) => RemovedIsNone(calls'[w])
    BY <2>1, <2>2, <2>4, AppendRefreshes
  <2>6. ASSUME "change" \notin excused PROVE OneByOne'
    <3>1. OneByOne
      BY <2>6 DEF FInv
    <3>2. InStep(pending'[w], last'[w])
      BY <1>5, <1>6, <3>1 DEF OneByOne
    <3> QED BY <1>1, <1>5, <1>7, <2>4, <2>5, <3>1, <3>2, OneByOneStep DEF Unheard
  <2>7. ASSUME NEW u \in Windows PROVE RemovedIsNone(calls[u])'
    <3>1. c.op = "removed" => p.op = "removed" /\ c.version = p.version
      BY <2>1 DEF Change
    <3>2. c.op = "removed" => c.version = 0
      BY <1>6, <3>1 DEF FInv
    <3>3. RemovedIsNone(calls'[u])
      BY <2>4, <2>5, <3>2 DEF FInv
    <3> QED BY <3>3 DEF RemovedIsNone
  <2> QED BY <1>1, <1>8, <2>6, <2>7 DEF FInv
<1> QED BY <1>9, <1>10

------------------------------------------------------------------------------
(* The steps of the main process.                                              *)

\* A step that leaves what the windows do alone, and serves what was served.
LEMMA MainFollows ==
  ASSUME TypeOK, FInv, UNCHANGED <<file, windowVars, calls>>, excused \subseteq excused',
         "change" \notin excused' => /\ \A s, t \in BusySlots' : s = t
                                     /\ \A s \in BusySlots' : JobOK(s)'
                                     /\ \A v : Serves(v) => Serves(v)'
  PROVE  FInv'
<1>1. /\ watching' = watching /\ reads' = reads /\ pending' = pending /\ last' = last
      /\ file' = file /\ calls' = calls
  BY DEF windowVars
<1>2. ASSUME NEW w \in Windows
      PROVE  Follows(w)' /\ RemovedIsNone(pending[w])' /\ RemovedIsNone(calls[w])'
  <2>1. Broken' = Broken
    BY DEF Broken
  <2>2. Follows(w)'
    BY <1>1, <2>1 DEF FInv, Follows
  <2> QED BY <1>1, <2>2 DEF FInv, RemovedIsNone
<1>3. ASSUME "change" \notin excused' PROVE OneByOne'
  <2>1. OneByOne
    BY <1>3 DEF FInv
  <2>2. \A w \in Windows : InStep(pending[w], last[w])' /\ LastSays(calls[w], last[w])' /\ Unheard(w)'
    BY <1>1, <2>1 DEF OneByOne, Unheard
  <2>3. watching' = {} => Serves(0)'
    BY <1>1, <1>3, <2>1 DEF OneByOne
  <2>4. ASSUME NEW u \in watching, Serves(last[u]) PROVE Serves(last[u])'
    <3>1. \A v : Serves(v) => Serves(v)'
      BY <1>3
    <3>2. PICK v : v = last[u]
      OBVIOUS
    <3>3. Serves(v)'
      BY <2>4, <3>1, <3>2
    <3> QED BY <1>1, <3>2, <3>3 DEF Serves
  <2>5. watching' # {} => \/ \E w \in Windows : HasRefresh(calls'[w])
                          \/ \E w \in watching' : Serves(last[w])'
    BY <1>1, <2>1, <2>4 DEF OneByOne
  <2> QED BY <1>3, <2>2, <2>3, <2>5 DEF OneByOne
<1> QED BY <1>2, <1>3 DEF FInv

\* With no other call at work, what follows the closing of a client leaves the
\* entry of the call, or a call at work that will.
LEMMA AfterCloseServes ==
  ASSUME TypeOK, NEW s \in Slots, NEW j \in Job, NEW cs, AfterClose(s, j, cs), BusySlots \subseteq {s},
         j.op = "toggle" => j.version = info.version,
         j.op = "removed" => j.version = 0
  PROVE  BusySlots' \subseteq {s} /\ (\A t \in BusySlots' : JobOK(t)') /\ Serves(j.version)'
<1>1. /\ info' = IF j.op # "removed" /\ ~j.on THEN Server("offline", j.version, NoClient)
                 ELSE IF Deletes(j) THEN NoEntry ELSE info
      /\ jobs' = [jobs EXCEPT ![s] =
            IF Connects(j) THEN [j EXCEPT !.stage = "connect", !.closing = NoClient] ELSE Idle]
  BY DEF AfterClose
<1> DEFINE k == [j EXCEPT !.stage = "connect", !.closing = NoClient]
<1>2. k.op = j.op /\ k.version = j.version /\ k # Idle
  <2>1. k \in Job /\ k.op = j.op /\ k.version = j.version
    BY DEF Job
  <2> HIDE DEF k
  <2> QED BY <2>1 DEF Job, Idle, Refreshes
<1>3. jobs' = [jobs EXCEPT ![s] = IF Connects(j) THEN k ELSE Idle]
  BY <1>1
<1> HIDE DEF k
<1>4. /\ \A t \in Slots : t # s => jobs'[t] = jobs[t]
      /\ jobs'[s] = IF Connects(j) THEN k ELSE Idle
  BY <1>3 DEF TypeOK
<1>5. BusySlots' \subseteq {s}
  BY <1>4 DEF BusySlots
<1>6. CASE Connects(j)
  <2>1. jobs'[s] = k /\ BusySlots' = {s}
    BY <1>2, <1>4, <1>5, <1>6 DEF BusySlots
  <2>2. j.op = "toggle" => info' = info
    BY <1>1, <1>6 DEF Connects, Deletes
  <2>3. JobOK(s)'
    BY <1>2, <2>1, <2>2 DEF JobOK
  <2> QED BY <1>2, <2>1, <2>3 DEF Serves
<1>7. CASE ~Connects(j)
  <2>1. BusySlots' = {}
    BY <1>4, <1>5, <1>7 DEF BusySlots
  <2>2. info'.version = j.version
    BY <1>1, <1>7 DEF Connects, Deletes, Server, NoEntry
  <2> QED BY <2>1, <2>2 DEF Serves
<1> QED BY <1>5, <1>6, <1>7

\* The one call at work.
LEMMA OnlyOne ==
  ASSUME FInv, "change" \notin excused, NEW s \in Slots, jobs[s] # Idle
  PROVE  BusySlots = {s} /\ JobOK(s) /\ \A v : Serves(v) => v = jobs[s].version
<1>1. s \in BusySlots
  BY DEF BusySlots
<1> QED BY <1>1 DEF FInv, OneByOne, Serves

LEMMA ClosedFollows ==
  ASSUME TypeOK, FInv, NEW s \in Slots, Closed(s)
  PROVE  FInv'
<1>1. /\ jobs[s] # Idle /\ AfterClose(s, jobs[s], running \ {jobs[s].closing})
      /\ UNCHANGED <<file, windowVars, calls, excused>>
  BY DEF Closed, diskVars
<1>2. PICK j \in Job : j = jobs[s]
  BY <1>1 DEF TypeOK
<1>3. ASSUME "change" \notin excused
      PROVE  /\ \A t, u \in BusySlots' : t = u
             /\ \A t \in BusySlots' : JobOK(t)'
             /\ \A v : Serves(v) => Serves(v)'
  <2>1. BusySlots = {s} /\ JobOK(s) /\ \A v : Serves(v) => v = j.version
    BY <1>1, <1>2, <1>3, OnlyOne
  <2>2. (j.op = "toggle" => j.version = info.version) /\ (j.op = "removed" => j.version = 0)
    BY <1>2, <2>1 DEF JobOK
  <2>3. AfterClose(s, j, running \ {j.closing})
    BY <1>1, <1>2
  <2>4. BusySlots' \subseteq {s} /\ (\A t \in BusySlots' : JobOK(t)') /\ Serves(j.version)'
    BY <2>1, <2>2, <2>3, AfterCloseServes
  <2> QED BY <2>1, <2>4
<1> QED BY <1>1, <1>3, MainFollows

LEMMA CreatedFollows ==
  ASSUME TypeOK, FInv, NEW s \in Slots, NEW e, NEW cs, Created(s, e, cs),
         e.version = jobs[s].version, excused \subseteq excused'
  PROVE  FInv'
<1>1. /\ jobs[s] # Idle /\ info' = e /\ jobs' = [jobs EXCEPT ![s] = Idle]
      /\ UNCHANGED <<file, windowVars, calls>>
  BY DEF Created, diskVars
<1>2. ASSUME "change" \notin excused'
      PROVE  BusySlots' = {} /\ \A v : Serves(v) => Serves(v)'
  <2>1. BusySlots = {s} /\ \A v : Serves(v) => v = jobs[s].version
    BY <1>1, <1>2, OnlyOne
  <2>2. BusySlots' = {}
    BY <1>1, <2>1 DEF BusySlots, TypeOK
  <2> QED BY <1>1, <2>1, <2>2 DEF Serves
<1> QED BY <1>1, <1>2, MainFollows

\* A call that is taken with no other at work.
LEMMA AcceptedServes ==
  ASSUME TypeOK, NEW c \in Call, NEW s \in Free, BusySlots = {},
         c.op = "removed" => c.version = 0,
         IF JobOf(c).closing = NoClient THEN AfterClose(s, JobOf(c), running)
         ELSE jobs' = [jobs EXCEPT ![s] = JobOf(c)] /\ info' = info
  PROVE  /\ \A t, u \in BusySlots' : t = u
         /\ \A t \in BusySlots' : JobOK(t)'
         /\ IsRefresh(c) => Serves(c.version)'
         /\ ~IsRefresh(c) => \A v : Serves(v) => Serves(v)'
<1>1. s \in Slots
  BY DEF Free
<1>2. PICK j \in Job : /\ j = JobOf(c) /\ j.op = c.op
                       /\ j.version = IF c.op = "toggle" THEN info.version ELSE c.version
  <2>1. JobOf(c) \in Job
    BY DEF JobOf, Job, Call, TypeOK, Entry
  <2>2. /\ JobOf(c).op = c.op
        /\ JobOf(c).version = IF c.op = "toggle" THEN info.version ELSE c.version
    BY DEF JobOf
  <2> QED BY <2>1, <2>2
<1>3. IF j.closing = NoClient THEN AfterClose(s, j, running)
      ELSE jobs' = [jobs EXCEPT ![s] = j] /\ info' = info
  BY <1>2
<1>4. (j.op = "toggle" => j.version = info.version) /\ (j.op = "removed" => j.version = 0)
  BY <1>2
<1>5. BusySlots' \subseteq {s} /\ (\A t \in BusySlots' : JobOK(t)') /\ Serves(j.version)'
  <2>1. CASE j.closing = NoClient
    <3>1. AfterClose(s, j, running)
      BY <1>3, <2>1
    <3> QED BY <1>1, <1>2, <1>4, <3>1, AfterCloseServes
  <2>2. CASE j.closing # NoClient
    <3>1. jobs' = [jobs EXCEPT ![s] = j] /\ info' = info
      BY <1>3, <2>2
    <3>2. jobs'[s] = j /\ (\A t \in Slots : t # s => jobs'[t] = jobs[t])
      BY <1>1, <3>1 DEF TypeOK
    <3>3. j # Idle
      BY <1>2 DEF Job, Idle, Refreshes
    <3>4. BusySlots' = {s}
      BY <1>1, <3>2, <3>3 DEF BusySlots
    <3>5. JobOK(s)'
      BY <1>4, <3>1, <3>2 DEF JobOK
    <3> QED BY <3>2, <3>4, <3>5 DEF Serves
  <2> QED BY <2>1, <2>2
<1>6. IsRefresh(c) => Serves(c.version)'
  <2>1. IsRefresh(c) => j.version = c.version
    BY <1>2 DEF IsRefresh
  <2> QED BY <1>5, <2>1 DEF Serves
<1>7. ASSUME ~IsRefresh(c), NEW v, Serves(v) PROVE Serves(v)'
  <2>1. v = j.version
    BY <1>2, <1>7 DEF IsRefresh, Serves
  <2> QED BY <1>5, <2>1
<1> QED BY <1>5, <1>6, <1>7

LEMMA ReceiveFollows ==
  ASSUME TypeOK, FInv, NEW w \in Windows, Receive(w)
  PROVE  FInv'
<1>1. /\ calls[w] # <<>> /\ calls' = [calls EXCEPT ![w] = Tail(@)]
      /\ watching' = watching /\ reads' = reads /\ pending' = pending /\ last' = last /\ file' = file
  BY DEF Receive, diskVars, windowVars
<1>2. PICK c \in Call : c = Head(calls[w])
  BY <1>1, QueueTail DEF TypeOK
<1>3. /\ \A u \in Windows : u # w => calls'[u] = calls[u]
      /\ calls'[w] = Tail(calls[w]) /\ calls[w] \in Seq(Call)
  BY <1>1 DEF TypeOK
<1>4. /\ HasRefresh(calls[w]) <=> IsRefresh(c) \/ HasRefresh(calls'[w])
      /\ \A v : LastSays(calls[w], v) => LastSays(calls'[w], v)
      /\ \A v : LastSays(calls[w], v) /\ IsRefresh(c) /\ ~HasRefresh(calls'[w]) => c.version = v
      /\ RemovedIsNone(calls[w]) => RemovedIsNone(calls'[w]) /\ (c.op = "removed" => c.version = 0)
  BY <1>1, <1>2, <1>3, TailRefreshes
<1>5. ASSUME NEW u \in Windows
      PROVE  Follows(u)' /\ RemovedIsNone(pending[u])' /\ RemovedIsNone(calls[u])'
  <2>1. Broken' = Broken
    BY DEF Broken
  <2>2. Follows(u)'
    BY <1>1, <2>1 DEF FInv, Follows
  <2>3. RemovedIsNone(pending'[u]) /\ RemovedIsNone(calls'[u])
    BY <1>1, <1>3, <1>4 DEF FInv
  <2> QED BY <1>1, <2>2, <2>3 DEF FInv, RemovedIsNone
<1>6. CASE excused' = excused \cup {"change"}
  BY <1>5, <1>6 DEF FInv
<1>7. CASE /\ excused' = excused \cup Meets(c)
           /\ Free # {}
           /\ LET s == CHOOSE t \in Free : TRUE
              IN IF JobOf(c).closing = NoClient THEN AfterClose(s, JobOf(c), running)
                 ELSE /\ jobs' = [jobs EXCEPT ![s] = JobOf(c)]
                      /\ refreshing' = (refreshing \/ c.op # "toggle")
                      /\ UNCHANGED <<events, info, running, lost>>
  <2>1. PICK s \in Free :
          IF JobOf(c).closing = NoClient THEN AfterClose(s, JobOf(c), running)
          ELSE jobs' = [jobs EXCEPT ![s] = JobOf(c)] /\ info' = info
    BY <1>7
  <2>2. ASSUME "change" \notin excused' PROVE OneByOne'
    <3>1. OneByOne /\ BusySlots = {}
      BY <1>7, <2>2, BusyIs DEF FInv, Meets
    <3>2. c.op = "removed" => c.version = 0
      BY <1>4 DEF FInv
    <3>3. /\ \A t, u \in BusySlots' : t = u
          /\ \A t \in BusySlots' : JobOK(t)'
          /\ IsRefresh(c) => Serves(c.version)'
          /\ ~IsRefresh(c) => \A v : Serves(v) => Serves(v)'
      BY <2>1, <3>1, <3>2, AcceptedServes
    <3>4. ASSUME NEW u \in Windows
          PROVE  InStep(pending[u], last[u])' /\ LastSays(calls[u], last[u])' /\ Unheard(u)'
      <4>1. InStep(pending'[u], last'[u]) /\ LastSays(calls'[u], last'[u])
        BY <1>1, <1>3, <1>4, <3>1 DEF OneByOne
      <4>2. HasRefresh(calls'[u]) => HasRefresh(calls[u])
        BY <1>3, <1>4
      <4> QED BY <1>1, <3>1, <4>1, <4>2 DEF InStep, LastSays, OneByOne, Unheard
    <3>5. IsRefresh(c) => w \in watching
      BY <1>4, <3>1 DEF OneByOne, Unheard
    <3>6. ASSUME ~IsRefresh(c), NEW v, Serves(v) PROVE Serves(v)'
      BY <3>3, <3>6
    <3>7. watching' = {} => Serves(0)'
      BY <1>1, <3>1, <3>5, <3>6 DEF OneByOne
    <3>8. ASSUME watching # {}
          PROVE  \/ \E u \in Windows : HasRefresh(calls'[u])
                 \/ \E u \in watching : Serves(last[u])'
      <4>1. CASE IsRefresh(c)
        <5>1. HasRefresh(calls'[w]) \/ c.version = last[w]
          BY <1>4, <3>1, <4>1 DEF OneByOne
        <5>2. c.version = last[w] => Serves(last[w])'
          BY <1>1, <3>3, <4>1 DEF Serves
        <5> QED BY <3>5, <4>1, <5>1, <5>2
      <4>2. CASE ~IsRefresh(c)
        <5>1. ASSUME NEW u \in Windows, HasRefresh(calls[u]) PROVE HasRefresh(calls'[u])
          BY <1>3, <1>4, <4>2, <5>1
        <5>2. ASSUME NEW u \in watching, Serves(last[u]) PROVE Serves(last[u])'
          <6>1. PICK v : v = last[u]
            OBVIOUS
          <6>2. Serves(v)'
            BY <3>6, <4>2, <5>2, <6>1
          <6> QED BY <1>1, <6>1, <6>2 DEF Serves
        <5> QED BY <3>1, <3>8, <5>1, <5>2 DEF OneByOne
      <4> QED BY <4>1, <4>2
    <3> QED BY <1>1, <3>3, <3>4, <3>7, <3>8 DEF OneByOne
  <2> QED BY <1>5, <2>2 DEF FInv
<1> QED BY <1>2, <1>6, <1>7 DEF Receive

LEMMA InitialFollows ==
  ASSUME Init
  PROVE  FInv
<1>1. BusySlots = {} /\ watching = {} /\ info.version = 0 /\ ~HasRefresh(<<>>)
  BY DEF Init, BusySlots, NoEntry, Server, HasRefresh
<1>2. \A w \in Windows : pending[w] = <<>> /\ calls[w] = <<>> /\ last[w] = 0
  BY DEF Init
<1>3. \A v : RemovedIsNone(<<>>) /\ InStep(<<>>, v) /\ LastSays(<<>>, v)
  BY DEF RemovedIsNone, InStep, LastSays
<1>4. OneByOne
  BY <1>1, <1>2, <1>3 DEF OneByOne, Serves, Unheard
<1> QED BY <1>1, <1>2, <1>3, <1>4 DEF FInv, Follows

LEMMA NextFollows ==
  ASSUME TypeOK, TypeOK', FInv, [Next]_vars
  PROVE  FInv'
<1>1. CASE UNCHANGED vars
  <2>1. UNCHANGED <<file, windowVars, calls, excused, mainVars>>
    BY <1>1 DEF vars, diskVars
  <2>2. /\ BusySlots' = BusySlots /\ jobs' = jobs /\ info' = info
        /\ \A v : Serves(v)' <=> Serves(v)
    BY <2>1, ServesKept
  <2>3. \A s \in BusySlots : JobOK(s) => JobOK(s)'
    BY <2>2 DEF JobOK
  <2> QED BY <2>1, <2>2, <2>3, MainFollows DEF FInv, OneByOne
<1>2. ASSUME NEW w \in Windows, Window(w) \/ Receive(w) PROVE FInv'
  BY <1>2, ReadFollows, RefreshFollows, ToggledFollows, DeliverFollows, ReceiveFollows DEF Window
<1>3. ASSUME NEW w \in Windows, User(w) PROVE FInv'
  <2>1. ASSUME NEW v \in Versions, Save(w, v) PROVE FInv'
    <3>1. FileBecomes(v, {w})
      BY <2>1 DEF Save
    <3> QED BY <3>1, FileFollows
  <2> QED BY <1>3, <2>1, OpenFollows, ToggleFollows, RetryFollows DEF User
<1>4. ASSUME NEW s \in Slots, Main(s) PROVE FInv'
  <2>1. CASE Closed(s)
    BY <2>1, ClosedFollows
  <2>2. ASSUME NEW e, NEW cs, Created(s, e, cs), e.version = jobs[s].version, excused \subseteq excused'
        PROVE  FInv'
    BY <2>2, CreatedFollows
  <2>3. \A status, c : Server(status, jobs[s].version, c).version = jobs[s].version
    BY DEF Server
  <2>4. CASE Connected(s)
    BY <2>2, <2>3, <2>4 DEF Connected
  <2>5. CASE ConnectFails(s)
    BY <2>2, <2>3, <2>5 DEF ConnectFails
  <2>6. CASE ListToolsFails(s)
    BY <2>2, <2>3, <2>6 DEF ListToolsFails
  <2> QED BY <1>4, <2>1, <2>4, <2>5, <2>6 DEF Main
<1>5. ASSUME NEW v \in 0..Broken, Edit(v) PROVE FInv'
  BY <1>5, FileFollows DEF Edit
<1> QED BY <1>1, <1>2, <1>3, <1>4, <1>5 DEF Next

LEMMA FollowsInvariant == Spec => []FInv
<1>1. Init => FInv
  BY InitialFollows
<1>2. IInv /\ IInv' /\ FInv /\ [Next]_vars => FInv'
  BY NextFollows DEF IInv
<1> QED BY <1>1, <1>2, Invariant, PTL DEF Spec

(* Once all is done the main process runs the entry the file has, for any      *)
(* number of windows, of entries and of changes, as long as one window watches *)
(* the file, unless it returned early from a call, two calls overlapped, a     *)
(* window told a change by an outdated entry, or one that does not watch the   *)
(* file refreshed.                                                             *)
THEOREM McpFollowsFile == Spec => []FollowsFile
<1>1. TypeOK /\ FInv => FollowsFile
  <2> SUFFICES ASSUME TypeOK, FInv, Quiet, watching # {}, file # Broken, "change" \notin excused
               PROVE  info.version = file
    BY DEF FollowsFile
  <2>1. BusySlots = {}
    BY BusyIs DEF Quiet
  <2>2. ASSUME NEW w \in Windows PROVE ~HasRefresh(calls[w]) /\ ~HasRefresh(pending[w])
    BY DEF Quiet, HasRefresh
  <2>3. PICK w \in watching : Serves(last[w])
    BY <2>2 DEF FInv, OneByOne
  <2>4. w \in Windows
    BY <2>3 DEF TypeOK
  <2>5. info.version = last[w]
    BY <2>1, <2>3 DEF Serves
  <2> QED BY <2>2, <2>4, <2>5 DEF FInv, Follows, Newest, Quiet
<1> QED BY <1>1, McpTypeCorrect, FollowsInvariant, PTL
=============================================================================
