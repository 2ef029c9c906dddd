--------------------------- MODULE LLMChannelProofs ---------------------------
(* The safety properties of the channel, for any number of requests: types,    *)
(* one answer, an entry for what runs, silence after an abort, and that the    *)
(* two processes implement LLMRequest.                                         *)
EXTENDS LLMChannel, TLAPS

------------------------------------------------------------------------------
(* The inductive invariant.                                                    *)

NoEvent(q) == \A i \in DOMAIN events : events[i].q # q

\* n may follow the text m: what is not parsed on its way only grows.
Grows(q, m, n) == q \in Parsed \/ m <= n

\* What a caller was shown and told of a request.
Hearing == [text : 0..MaxText, tool : BOOLEAN, told : SUBSET (Answers \cup {"abort"})]

\* The state of a request in the main process.
Work == [stage : Active \cup {"idle", "done"}, sent : 0..MaxText,
         didAbort : BOOLEAN, aborter : BOOLEAN]

\* The stages in which a request has not shown anything yet.
Unseen(q) ==
    \/ main[q].stage \in {"idle", "setup", "connecting"}
    \/ main[q].stage = "streaming" /\ kind[q] \notin {"late", "sync"}

\* What is known of one request: what its stage says of its events, of the way to
\* cancel it and of its entry, and that an answer or an abort was the end of it.
RequestOK(q) ==
    /\ kind[q] = "unsent" =>
          /\ q \notin hooks /\ main[q].stage = "idle" /\ heard[q].told = {}
    /\ Unseen(q) => NoEvent(q) /\ heard[q].text = 0
    /\ main[q].stage = "idle" => ~main[q].aborter
    /\ main[q].stage = "setup" => kind[q] # "sync"
    /\ (main[q].stage \in {"connecting", "streaming"} /\ kind[q] = "sync") => main[q].aborter
    /\ (main[q].stage = "streaming" /\ kind[q] = "late") => main[q].aborter
    /\ (main[q].didAbort /\ main[q].stage \in Active) => NoEvent(q) /\ heard[q].text = 0
    /\ (kind[q] \in Aborters /\ main[q].stage \in Active /\ ~main[q].didAbort) => q \in running
    /\ "abort" \in heard[q].told => q \notin hooks
    /\ heard[q].told \cap Answers # {} => main[q].stage = "done" /\ NoEvent(q)
    /\ heard[q].tool \/ heard[q].text <= main[q].sent
    /\ heard[q].tool => "final" \in heard[q].told

\* Events under way: an answer is the last of its request, and texts grow.
EventsOK ==
    /\ \A i \in DOMAIN events :
          /\ events[i].what \in Answers => main[events[i].q].stage = "done"
          /\ events[i].what # "error" =>
                /\ Grows(events[i].q, heard[events[i].q].text, events[i].n)
                /\ events[i].n <= main[events[i].q].sent
    /\ \A i, j \in DOMAIN events : (i < j /\ events[i].q = events[j].q) =>
          /\ events[i].what = "text"
          /\ events[j].what # "error" => Grows(events[i].q, events[i].n, events[j].n)

\* Calls under way: a request is sent once.
CallsOK ==
    /\ \A i \in DOMAIN calls :
          /\ kind[calls[i].q] # "unsent"
          /\ calls[i].op = "send" => main[calls[i].q].stage = "idle"
    /\ \A i, j \in DOMAIN calls :
          (i # j /\ calls[i].op = "send" /\ calls[j].op = "send") => calls[i].q # calls[j].q

IInv == TypeOK /\ EventsOK /\ CallsOK /\ \A q \in Requests : RequestOK(q)

------------------------------------------------------------------------------
(* What an action leaves alone.                                                *)

\* A request of which nothing changed but, perhaps, that events arrived.
LEMMA RequestFrame ==
  ASSUME NEW q \in Requests, RequestOK(q),
         kind'[q] = kind[q], main'[q] = main[q], heard'[q] = heard[q],
         q \in hooks' => q \in hooks, q \in running => q \in running',
         NoEvent(q) => NoEvent(q)'
  PROVE  RequestOK(q)'
BY DEF RequestOK, Unseen

\* What Emit returns.
LEMMA EmitProperties ==
  ASSUME TypeOK, NEW q \in Requests, NEW what \in Answers \cup {"text"}, NEW n \in 0..MaxText
  PROVE  /\ Emit(q, what, n) \in Seq(Event)
         /\ \A i \in DOMAIN events : i \in DOMAIN Emit(q, what, n) /\ Emit(q, what, n)[i] = events[i]
         /\ \A i \in DOMAIN Emit(q, what, n) :
               \/ i \in DOMAIN events
               \/ i = Len(events) + 1 /\ Emit(q, what, n)[i] = [q |-> q, what |-> what, n |-> n]
         /\ main[q].didAbort => Emit(q, what, n) = events
<1> DEFINE e == [q |-> q, what |-> what, n |-> n]
<1>1. e \in Event
  BY DEF Event
<1>2. events \in Seq(Event)
  BY DEF TypeOK
<1>3. CASE main[q].didAbort
  BY <1>2, <1>3 DEF Emit
<1>4. CASE ~main[q].didAbort
  <2>1. Emit(q, what, n) = Append(events, e)
    BY <1>4 DEF Emit
  <2> HIDE DEF e
  <2> QED BY <1>1, <1>2, <1>4, <2>1 DEF e
<1> QED BY <1>3, <1>4

\* The events after a step that fires at most one, of request q.
Fired(q, what, n) ==
    /\ events' = Emit(q, what, n)
    /\ what = "text" => main[q].stage \in Active
    /\ what # "error" => n \in Shown(q, main'[q].sent)

LEMMA EventsGrow ==
  ASSUME TypeOK, EventsOK, NEW q \in Requests, RequestOK(q),
         NEW what \in Answers \cup {"text"}, NEW n \in 0..MaxText, Fired(q, what, n),
         main[q].stage # "done",
         what \in Answers => main'[q].stage = "done",
         main' \in [Requests -> Work],
         main'[q].sent >= main[q].sent, UNCHANGED heard,
         \A r \in Requests \ {q} : main'[r] = main[r]
  PROVE  /\ events' \in Seq(Event)
         /\ EventsOK'
         /\ \A r \in Requests \ {q} : NoEvent(r) => NoEvent(r)'
<1> DEFINE es == Emit(q, what, n)
           e == [q |-> q, what |-> what, n |-> n]
<1>1. /\ es \in Seq(Event)
      /\ \A i \in DOMAIN events : i \in DOMAIN es /\ es[i] = events[i]
      /\ \A i \in DOMAIN es : i \in DOMAIN events \/ (i = Len(events) + 1 /\ es[i] = e)
  BY EmitProperties
<1>2. e.q = q /\ e.what = what /\ e.n = n
  OBVIOUS
<1> HIDE DEF es, e
<1>3. events' = es
  BY DEF Fired, es
<1>4. events \in Seq(Event) /\ DOMAIN events = 1..Len(events) /\ Len(events) \in Nat
  BY DEF TypeOK
<1>5. DOMAIN es = 1..Len(es) /\ Len(es) \in Nat
  BY <1>1
<1>6. ASSUME NEW i \in DOMAIN events
      PROVE  /\ events[i] \in Event
             /\ events[i].q = q => events[i].what = "text"
  <2>1. events[i] \in Event
    BY <1>4
  <2>2. events[i].q = q => events[i].what \notin Answers
    BY DEF EventsOK
  <2> QED BY <2>1, <2>2 DEF Event
<1>7. ASSUME NEW i \in DOMAIN es
      PROVE  /\ es[i].what \in Answers => main'[es[i].q].stage = "done"
             /\ es[i].what # "error" =>
                  Grows(es[i].q, heard[es[i].q].text, es[i].n) /\ es[i].n <= main'[es[i].q].sent
  <2>1. CASE i \in DOMAIN events
    <3>1. es[i] = events[i] /\ events[i] \in Event
      BY <1>1, <1>6, <2>1
    <3>2. CASE events[i].q = q
      <4>1. events[i].what = "text"
        BY <1>6, <2>1, <3>2
      <4>2. Grows(q, heard[q].text, events[i].n) /\ events[i].n <= main[q].sent
        BY <2>1, <3>2, <4>1 DEF EventsOK
      <4>3. events[i].n \in Nat /\ main[q].sent \in Nat /\ main'[q].sent \in Nat /\ heard[q].text \in Nat
        <5>1. events[i].n \in Nat
          BY <3>1 DEF Event
        <5>2. main[q].sent \in Nat /\ main'[q].sent \in Nat
          BY DEF TypeOK, Work
        <5>3. heard[q].text \in Nat
          BY DEF TypeOK
        <5> QED BY <5>1, <5>2, <5>3
      <4> QED BY <3>1, <3>2, <4>1, <4>2, <4>3 DEF Answers, Grows
    <3>3. CASE events[i].q # q
      <4>1. events[i].q \in Requests \ {q}
        BY <3>1, <3>3 DEF Event
      <4> QED BY <2>1, <3>1, <4>1 DEF EventsOK
    <3> QED BY <3>2, <3>3
  <2>2. CASE i \notin DOMAIN events
    <3>1. es[i] = e
      BY <1>1, <2>2
    <3>2. heard[q].text \in Nat /\ main[q].sent \in Nat /\ main'[q].sent \in Nat /\ heard[q].text <= main[q].sent
      BY DEF TypeOK, RequestOK, Work, Answers
    <3>3. what # "error" => n <= main'[q].sent /\ (q \in Parsed \/ n = main'[q].sent)
      BY <3>2 DEF Fired, Shown
    <3> QED BY <1>2, <3>1, <3>2, <3>3 DEF Grows
  <2> QED BY <2>1, <2>2
<1>8. ASSUME NEW i \in DOMAIN es, NEW j \in DOMAIN es, i < j, es[i].q = es[j].q
      PROVE  /\ es[i].what = "text"
             /\ es[j].what # "error" => Grows(es[i].q, es[i].n, es[j].n)
  <2>1. CASE j \in DOMAIN events
    <3>1. i \in DOMAIN events
      BY <1>4, <1>5, <1>8, <2>1
    <3> QED BY <1>1, <1>8, <2>1, <3>1 DEF EventsOK
  <2>2. CASE j \notin DOMAIN events
    <3>1. es[j] = e /\ j = Len(events) + 1
      BY <1>1, <2>2
    <3>2. i \in DOMAIN events /\ es[i] = events[i]
      BY <1>1, <1>4, <1>5, <1>8, <3>1
    <3>3. es[i].q = q /\ es[i].what = "text"
      BY <1>2, <1>6, <1>8, <3>1, <3>2
    <3>4. es[i].n <= main[q].sent /\ es[i].n \in Nat
      BY <1>6, <3>2, <3>3 DEF EventsOK, Event
    <3>5. what # "error" => q \in Parsed \/ n = main'[q].sent
      BY DEF Fired, Shown
    <3>6. main[q].sent \in Nat /\ main'[q].sent \in Nat
      BY DEF TypeOK, Work
    <3> QED BY <1>2, <3>1, <3>3, <3>4, <3>5, <3>6 DEF Grows
  <2> QED BY <2>1, <2>2
<1>9. EventsOK'
  BY <1>3, <1>7, <1>8 DEF EventsOK
<1>10. ASSUME NEW r \in Requests \ {q}, NoEvent(r)
       PROVE  NoEvent(r)'
  BY <1>1, <1>2, <1>3, <1>10 DEF NoEvent
<1> QED BY <1>1, <1>3, <1>9, <1>10

\* A step that neither fires nor delivers an event, and takes no request back to work.
LEMMA EventsFrame ==
  ASSUME TypeOK, EventsOK, UNCHANGED events, TypeOK',
         \A r \in Requests : /\ heard'[r].text = heard[r].text
                             /\ main'[r].sent = main[r].sent
                             /\ main[r].stage = "done" => main'[r].stage = "done"
  PROVE  EventsOK' /\ \A r \in Requests : NoEvent(r) => NoEvent(r)'
<1>1. \A i \in DOMAIN events : events[i].q \in Requests
  <2>1. \A i \in DOMAIN events : events[i] \in Event
    BY DEF TypeOK
  <2> QED BY <2>1 DEF Event
<1>2. EventsOK'
  BY <1>1 DEF EventsOK, Grows
<1> QED BY <1>2 DEF NoEvent

\* A step of a request that is at work leaves the calls under way alone.
LEMMA CallsFrame ==
  ASSUME TypeOK, CallsOK, UNCHANGED <<kind, calls>>,
         \A r \in Requests : main[r].stage = "idle" => main'[r].stage = "idle"
  PROVE  CallsOK'
<1>1. \A i \in DOMAIN calls : calls[i].q \in Requests
  <2>1. \A i \in DOMAIN calls : calls[i] \in Message
    BY DEF TypeOK
  <2> QED BY <2>1 DEF Message
<1> QED BY <1>1 DEF CallsOK

\* What Append does to the calls under way.
LEMMA CallsAppend ==
  ASSUME NEW s \in Seq(Message), NEW c \in Message
  PROVE  /\ Append(s, c) \in Seq(Message)
         /\ \A i \in DOMAIN Append(s, c) :
               \/ i \in DOMAIN s /\ Append(s, c)[i] = s[i]
               \/ i \notin DOMAIN s /\ i = Len(s) + 1 /\ Append(s, c)[i] = c
<1> HIDE DEF Message
<1> QED OBVIOUS

\* What Tail does to a sequence.
LEMMA TailProperties ==
  ASSUME NEW S, NEW s \in Seq(S), s # <<>>
  PROVE  /\ Tail(s) \in Seq(S)
         /\ Head(s) \in S /\ Head(s) = s[1] /\ 1 \in DOMAIN s
         /\ \A i \in DOMAIN Tail(s) : i \in Nat /\ i > 0 /\ i + 1 \in DOMAIN s /\ Tail(s)[i] = s[i + 1]
OBVIOUS

------------------------------------------------------------------------------
(* The renderer's steps.                                                       *)

LEMMA SendStep ==
  ASSUME IInv, NEW q \in Requests, Send(q)
  PROVE  IInv'
<1> USE DEF IInv
<1> DEFINE c == [op |-> "send", q |-> q]
<1>1. c \in Message /\ c.q = q
  BY DEF Message
<1>2. /\ calls' = Append(calls, c) /\ hooks' = hooks \cup {q}
      /\ UNCHANGED <<heard, events, main, running, awaiting>>
  BY DEF Send, mainVars
<1> HIDE DEF c
<1>3. PICK k \in Kinds : kind' = [kind EXCEPT ![q] = k]
  BY DEF Send
<1>4. /\ kind[q] = "unsent" /\ kind'[q] = k /\ k # "unsent"
      /\ \A r \in Requests \ {q} : kind'[r] = kind[r]
  BY <1>3 DEF Send, TypeOK, Kinds
<1>5. TypeOK'
  <2>1. calls' \in Seq(Message)
    BY <1>1, <1>2, CallsAppend DEF TypeOK
  <2>2. kind' \in [Requests -> Kinds \cup {"unsent"}]
    BY <1>3 DEF TypeOK
  <2> QED BY <1>2, <2>1, <2>2 DEF TypeOK
<1>6. EventsOK'
  BY <1>2 DEF EventsOK
<1>7. CallsOK'
  <2>1. \A i \in DOMAIN calls : calls[i] \in Message /\ calls[i].q \in Requests /\ calls[i].q # q
    <3>1. \A i \in DOMAIN calls : calls[i] \in Message
      BY DEF TypeOK
    <3> QED BY <1>4, <3>1 DEF CallsOK, Message
  <2>2. \A i \in DOMAIN calls' : \/ i \in DOMAIN calls /\ calls'[i] = calls[i]
                                 \/ i \notin DOMAIN calls /\ i = Len(calls) + 1 /\ calls'[i] = c
    BY <1>1, <1>2, CallsAppend DEF TypeOK
  <2>3. main[q].stage = "idle"
    BY <1>4 DEF RequestOK
  <2> QED BY <1>1, <1>2, <1>4, <2>1, <2>2, <2>3 DEF CallsOK
<1>8. ASSUME NEW r \in Requests PROVE RequestOK(r)'
  <2>1. CASE r = q
    BY <1>2, <1>4, <2>1 DEF RequestOK, Unseen, NoEvent, Active
  <2>2. CASE r # q
    <3>1. NoEvent(r) => NoEvent(r)'
      BY <1>2 DEF NoEvent
    <3> QED BY <1>2, <1>4, <2>2, <3>1, RequestFrame
  <2> QED BY <2>1, <2>2
<1> QED BY <1>5, <1>6, <1>7, <1>8

LEMMA AbortStep ==
  ASSUME IInv, NEW q \in Requests, Abort(q)
  PROVE  IInv'
<1> USE DEF IInv
<1> DEFINE c == [op |-> "abort", q |-> q]
<1>1. c \in Message /\ c.q = q /\ c.op = "abort"
  BY DEF Message
<1>2. /\ calls' = Append(calls, c) /\ hooks' = hooks \ {q}
      /\ heard' = [heard EXCEPT ![q].told = @ \cup {"abort"}]
      /\ kind[q] \in Aborters
      /\ UNCHANGED <<kind, events, main, running, awaiting>>
  BY DEF Abort, mainVars
<1> HIDE DEF c
<1>3. /\ heard'[q].text = heard[q].text /\ heard'[q].tool = heard[q].tool
      /\ heard'[q].told = heard[q].told \cup {"abort"}
      /\ \A r \in Requests \ {q} : heard'[r] = heard[r]
  BY <1>2 DEF TypeOK
<1>4. TypeOK'
  <2>1. calls' \in Seq(Message)
    BY <1>1, <1>2, CallsAppend DEF TypeOK
  <2>2. heard' \in [Requests -> Hearing]
    <3>1. heard[q] \in Hearing
      BY DEF TypeOK, Hearing
    <3>2. [heard[q] EXCEPT !.told = @ \cup {"abort"}] \in Hearing
      BY <3>1 DEF Hearing
    <3> QED BY <1>2, <3>2 DEF TypeOK, Hearing
  <2> QED BY <1>2, <2>1, <2>2 DEF TypeOK, Hearing
<1>5. EventsOK' /\ \A r \in Requests : NoEvent(r) => NoEvent(r)'
  BY <1>2, <1>3, <1>4, EventsFrame
<1>6. CallsOK'
  <2>1. \A i \in DOMAIN calls' : \/ i \in DOMAIN calls /\ calls'[i] = calls[i]
                                 \/ i \notin DOMAIN calls /\ i = Len(calls) + 1 /\ calls'[i] = c
    BY <1>1, <1>2, CallsAppend DEF TypeOK
  <2>2. kind[q] # "unsent"
    BY <1>2 DEF Aborters, Kinds
  <2> QED BY <1>1, <1>2, <2>1, <2>2 DEF CallsOK
<1>7. ASSUME NEW r \in Requests PROVE RequestOK(r)'
  <2>1. CASE r = q
    <3>1. kind[q] # "unsent"
      BY <1>2 DEF Aborters, Kinds
    <3>2. heard'[q].told \cap Answers = heard[q].told \cap Answers
      BY <1>3 DEF Answers
    <3> QED BY <1>2, <1>3, <1>5, <2>1, <3>1, <3>2 DEF RequestOK, Unseen
  <2>2. CASE r # q
    BY <1>2, <1>3, <1>5, <2>2, RequestFrame
  <2> QED BY <2>1, <2>2
<1> QED BY <1>4, <1>5, <1>6, <1>7

\* What the listener makes of a final text, and of any other event.
LEMMA RecoveredProperties ==
  ASSUME NEW e \in Event, e.n \in 0..MaxText, NEW r \in Recovered(e)
  PROVE  /\ r.text \in 0..MaxText /\ r.tool \in BOOLEAN
         /\ ~r.tool => r.text = e.n
         /\ e.what # "final" => r.text = e.n /\ ~r.tool
         /\ r.tool => e.q \in Agents
<1>1. CASE r = [text |-> e.n, tool |-> FALSE]
  BY <1>1
<1>2. CASE e.what = "final" /\ e.q \in Agents /\ r \in [text : 0..MaxText, tool : {TRUE}]
  BY <1>2
<1> QED BY <1>1, <1>2 DEF Recovered

LEMMA DeliverStep ==
  ASSUME IInv, Deliver
  PROVE  IInv'
<1> USE DEF IInv
<1>1. /\ events' \in Seq(Event) /\ events[1] \in Event /\ events[1] = Head(events)
      /\ 1 \in DOMAIN events
      /\ \A i \in DOMAIN events' : i \in Nat /\ i > 0 /\ i + 1 \in DOMAIN events /\ events'[i] = events[i + 1]
  BY TailProperties DEF TypeOK, Deliver
<1>2. PICK e \in Event : e = events[1] /\ e = Head(events)
  BY <1>1
<1>3. PICK q \in Requests : q = e.q
  BY DEF Event
<1>4. /\ \E r \in Recovered(e) : heard' = Told(e, r)
      /\ \/ e.what \in Answers /\ kind[q] # "list" /\ hooks' = hooks \ {q}
         \/ UNCHANGED hooks
      /\ UNCHANGED <<kind, calls, main, running, awaiting>>
  BY <1>2, <1>3 DEF Deliver, mainVars
<1>5. q \in Requests /\ e.what \in Answers \cup {"text"} /\ e.n \in 0..MaxText
  BY DEF Event
<1>6. /\ heard' \in [Requests -> Hearing]
      /\ \A r \in Requests \ {q} : heard'[r] = heard[r]
      /\ heard'[q].text = heard[q].text \/ heard'[q].tool \/ heard'[q].text = e.n
      /\ e.what = "text" => heard'[q].text \in {heard[q].text, e.n}
      /\ e.what = "error" => heard'[q].text = heard[q].text
      /\ heard'[q].told \subseteq heard[q].told \cup ({e.what} \cap Answers)
      /\ "abort" \in heard'[q].told => "abort" \in heard[q].told
      /\ heard'[q].tool => "final" \in heard'[q].told
  <2>1. PICK r \in Recovered(e) : heard' = Told(e, r)
    BY <1>4
  <2>2. r.text \in 0..MaxText /\ r.tool \in BOOLEAN /\ (~r.tool => r.text = e.n)
        /\ (e.what # "final" => r.text = e.n /\ ~r.tool)
    BY <1>5, RecoveredProperties
  <2>3. heard[q] \in Hearing /\ (heard[q].tool => "final" \in heard[q].told)
    BY <1>5 DEF TypeOK, Hearing, RequestOK
  <2>4. heard \in [Requests -> Hearing]
    BY DEF TypeOK, Hearing
  <2>5. CASE q \notin hooks
    BY <1>3, <2>1, <2>3, <2>4, <2>5 DEF Told
  <2>6. CASE q \in hooks /\ e.what = "error"
    <3> DEFINE h == [heard[q] EXCEPT !.told = @ \cup {"error"}]
    <3>1. heard' = [heard EXCEPT ![q] = h]
      BY <1>3, <2>1, <2>6 DEF Told
    <3>2. /\ h \in Hearing /\ h.text = heard[q].text /\ h.tool = heard[q].tool
          /\ h.told = heard[q].told \cup {"error"}
      BY <2>3 DEF Hearing, Answers
    <3> HIDE DEF h
    <3>3. heard'[q] = h /\ heard' \in [Requests -> Hearing]
          /\ \A t \in Requests \ {q} : heard'[t] = heard[t]
      BY <2>4, <3>1, <3>2
    <3> QED BY <2>3, <2>6, <3>2, <3>3 DEF Answers
  <2>7. CASE q \in hooks /\ e.what # "error"
    <3> DEFINE h == [text |-> r.text, tool |-> r.tool,
                     told |-> heard[q].told \cup ({e.what} \cap Answers)]
    <3>1. heard' = [heard EXCEPT ![q] = h]
      BY <1>3, <2>1, <2>7 DEF Told
    <3>2. h \in Hearing
      BY <2>2, <2>3 DEF Hearing
    <3>3. heard'[q] = h /\ heard' \in [Requests -> Hearing]
          /\ \A t \in Requests \ {q} : heard'[t] = heard[t]
      BY <2>4, <3>1, <3>2
    <3>4. h.tool => "final" \in h.told
      BY <1>5, <2>2 DEF Answers
    <3> QED BY <2>2, <2>7, <3>3, <3>4 DEF Answers
  <2> QED BY <2>5, <2>6, <2>7
<1>7. TypeOK'
  BY <1>4, <1>1, <1>2, <1>3, <1>6 DEF TypeOK, Hearing
<1>8. /\ heard[q].tool \/ heard[q].text <= main[q].sent
      /\ e.what # "error" => e.n <= main[q].sent
      /\ e.what \in Answers => main[q].stage = "done"
  BY <1>1, <1>2, <1>3, <1>5 DEF EventsOK, RequestOK
<1>9. EventsOK'
  <2>1. \A i, j \in DOMAIN events' : (i < j /\ events'[i].q = events'[j].q) =>
          /\ events'[i].what = "text"
          /\ events'[j].what # "error" => Grows(events'[i].q, events'[i].n, events'[j].n)
    BY <1>1, <1>2, <1>3 DEF EventsOK
  <2>2. ASSUME NEW i \in DOMAIN events'
        PROVE  /\ events'[i].what \in Answers => main'[events'[i].q].stage = "done"
               /\ events'[i].what # "error" =>
                     /\ Grows(events'[i].q, heard'[events'[i].q].text, events'[i].n)
                     /\ events'[i].n <= main'[events'[i].q].sent
    <3>1. /\ i + 1 \in DOMAIN events /\ 1 < i + 1 /\ events'[i] = events[i + 1]
          /\ events[i + 1] \in Event
      BY <1>1, <1>2, <1>3 DEF TypeOK
    <3> DEFINE f == events[i + 1]
    <3>2. /\ f.what \in Answers => main[f.q].stage = "done"
          /\ f.what # "error" => Grows(f.q, heard[f.q].text, f.n) /\ f.n <= main[f.q].sent
      BY <3>1 DEF EventsOK
    <3>3. f.q = q => /\ e.what = "text" /\ (f.what # "error" => Grows(q, e.n, f.n))
      BY <1>1, <1>2, <1>3, <3>1 DEF EventsOK
    <3>4. f.q \in Requests
      BY <3>1 DEF Event
    <3> HIDE DEF f
    <3>5. f.what # "error" => Grows(f.q, heard'[f.q].text, f.n)
      BY <1>6, <3>2, <3>3, <3>4 DEF Grows
    <3> QED BY <1>4, <3>1, <3>2, <3>5 DEF f
  <2> QED BY <2>1, <2>2 DEF EventsOK
<1>10. CallsOK'
  BY <1>4 DEF CallsOK
<1>11. \A r \in Requests : NoEvent(r) => NoEvent(r)'
  BY <1>1, <1>2, <1>3 DEF NoEvent
<1>12. ~NoEvent(q)
  BY <1>1, <1>2, <1>3 DEF NoEvent
<1>13. e.what \in Answers => NoEvent(q)'
  <2>1. ASSUME e.what \in Answers, NEW i \in DOMAIN events' PROVE events'[i].q # q
    <3>1. i + 1 \in DOMAIN events /\ 1 < i + 1 /\ events'[i] = events[i + 1]
      BY <1>1, <1>2, <1>3
    <3> QED BY <1>1, <1>2, <1>3, <2>1, <3>1 DEF EventsOK, Answers
  <2> QED BY <2>1 DEF NoEvent
<1>14. ASSUME NEW r \in Requests PROVE RequestOK(r)'
  <2>1. CASE r = q
    <3>1. ~Unseen(q) /\ kind[q] # "unsent" /\ ~(main[q].didAbort /\ main[q].stage \in Active)
      BY <1>5, <1>12 DEF RequestOK, Unseen
    <3>2. heard'[q].tool \/ heard'[q].text <= main'[q].sent
      <4>1. e.what # "error" => heard'[q].tool \/ heard'[q].text \in {heard[q].text, e.n}
        BY <1>6
      <4>2. ~heard[q].tool
        BY <1>12 DEF RequestOK, Answers
      <4>3. CASE e.what = "error"
        BY <1>4, <1>6, <1>8, <4>2, <4>3
      <4>4. CASE e.what # "error"
        BY <1>4, <1>8, <4>1, <4>2, <4>4
      <4> QED BY <4>3, <4>4
    <3>3. heard'[q].told \cap Answers # {} => main[q].stage = "done" /\ NoEvent(q)'
      BY <1>5, <1>6, <1>8, <1>11, <1>13 DEF RequestOK
    <3>4. "abort" \in heard'[q].told => q \notin hooks'
      BY <1>4, <1>5, <1>6 DEF RequestOK
    <3> QED BY <1>4, <1>6, <2>1, <3>1, <3>2, <3>3, <3>4 DEF RequestOK, Unseen
  <2>2. CASE r # q
    BY <1>4, <1>6, <1>11, <2>2, RequestFrame
  <2> QED BY <2>1, <2>2
<1> QED BY <1>7, <1>9, <1>10, <1>14

------------------------------------------------------------------------------
(* The main process's steps.                                                   *)

\* A step of one request in the main process.
LEMMA MainUpdate ==
  ASSUME TypeOK, NEW q \in Requests, NEW m \in Work, main' = [main EXCEPT ![q] = m]
  PROVE  /\ main' \in [Requests -> Work]
         /\ main'[q] = m
         /\ \A r \in Requests \ {q} : main'[r] = main[r]
<1>1. main \in [Requests -> Work]
  BY DEF TypeOK, Work
<1> HIDE DEF Work
<1> QED BY <1>1 DEF TypeOK

\* Taking a call off the queue: what CallsOK says of the others, and of the one taken.
LEMMA CallsTail ==
  ASSUME TypeOK, CallsOK, calls # <<>>, calls' = Tail(calls), UNCHANGED kind,
         NEW q \in Requests, q = Head(calls).q,
         \A r \in Requests \ {q} : main'[r].stage = main[r].stage,
         Head(calls).op = "send" \/ main'[q].stage = main[q].stage \/ main[q].stage # "idle"
  PROVE  /\ calls' \in Seq(Message)
         /\ CallsOK'
         /\ kind[q] # "unsent"
         /\ Head(calls).op = "send" => main[q].stage = "idle"
<1>1. /\ Tail(calls) \in Seq(Message)
      /\ Head(calls) \in Message /\ Head(calls) = calls[1] /\ 1 \in DOMAIN calls
      /\ \A i \in DOMAIN Tail(calls) :
            i \in Nat /\ i > 0 /\ i + 1 \in DOMAIN calls /\ Tail(calls)[i] = calls[i + 1]
  BY TailProperties DEF TypeOK
<1>2. kind[q] # "unsent" /\ (Head(calls).op = "send" => main[q].stage = "idle")
  BY <1>1 DEF CallsOK
<1>3. ASSUME NEW i \in DOMAIN calls'
      PROVE  /\ kind'[calls'[i].q] # "unsent"
             /\ calls'[i].op = "send" => main'[calls'[i].q].stage = "idle"
  <2>1. i + 1 \in DOMAIN calls /\ i + 1 # 1 /\ calls'[i] = calls[i + 1]
    BY <1>1
  <2>2. calls[i + 1] \in Message
    BY <2>1 DEF TypeOK
  <2>3. calls[i + 1].q \in Requests
    BY <2>2 DEF Message
  <2> DEFINE c == calls[i + 1]
  <2>4. kind[c.q] # "unsent" /\ (c.op = "send" => main[c.q].stage = "idle")
    BY <2>1 DEF CallsOK
  <2>5. c.op = "send" /\ Head(calls).op = "send" => c.q # q
    BY <1>1, <2>1 DEF CallsOK
  <2> HIDE DEF c
  <2> QED BY <2>1, <2>3, <2>4, <2>5 DEF c
<1>4. \A i, j \in DOMAIN calls' :
          (i # j /\ calls'[i].op = "send" /\ calls'[j].op = "send") => calls'[i].q # calls'[j].q
  BY <1>1 DEF CallsOK
<1> QED BY <1>1, <1>2, <1>3, <1>4 DEF CallsOK

LEMMA ConnectedStep ==
  ASSUME IInv, NEW q \in Requests, Connected(q)
  PROVE  IInv'
<1> USE DEF IInv
<1> DEFINE m == [main[q] EXCEPT !.stage = "streaming", !.aborter = @ \/ kind[q] = "late"]
<1>1. main[q] \in Work
  BY DEF TypeOK, Work
<1>2. /\ m \in Work /\ m.stage = "streaming" /\ m.sent = main[q].sent
      /\ m.didAbort = main[q].didAbort /\ m.aborter = (main[q].aborter \/ kind[q] = "late")
  BY <1>1 DEF Work, Active
<1>3. main[q].stage = "connecting" /\ main' = [main EXCEPT ![q] = m]
      /\ UNCHANGED <<kind, hooks, heard, calls, events, running, awaiting>>
  BY <1>1 DEF Connected, TypeOK
<1> HIDE DEF m
<1>4. /\ main' \in [Requests -> Work] /\ main'[q] = m
      /\ \A r \in Requests \ {q} : main'[r] = main[r]
  BY <1>2, <1>3, MainUpdate
<1>5. TypeOK'
  BY <1>3, <1>4 DEF TypeOK, Work
<1>6. EventsOK' /\ \A r \in Requests : NoEvent(r) => NoEvent(r)'
  BY <1>2, <1>3, <1>4, <1>5, EventsFrame
<1>7. CallsOK'
  BY <1>3, <1>4, CallsFrame
<1>8. ASSUME NEW r \in Requests PROVE RequestOK(r)'
  <2>1. CASE r = q
    BY <1>2, <1>3, <1>4, <1>6, <2>1 DEF RequestOK, Unseen, Active
  <2>2. CASE r # q
    BY <1>3, <1>4, <1>6, <2>2, RequestFrame
  <2> QED BY <2>1, <2>2
<1> QED BY <1>5, <1>6, <1>7, <1>8

LEMMA ChunkStep ==
  ASSUME IInv, NEW q \in Requests, Chunk(q)
  PROVE  IInv'
<1> USE DEF IInv
<1> DEFINE m == [main[q] EXCEPT !.sent = @ + 1]
           k == main[q].sent + 1
<1>1. main[q] \in Work
  BY DEF TypeOK, Work
<1>2. /\ main[q].stage = "streaming" /\ kind[q] \in {"late", "sync"} /\ main[q].sent < MaxText
      /\ main' = [main EXCEPT ![q] = m]
      /\ UNCHANGED <<kind, hooks, heard, calls, running, awaiting>>
  BY <1>1 DEF Chunk, TypeOK
<1>0. PICK n \in Shown(q, k) : events' = Emit(q, "text", n)
  BY DEF Chunk
<1>3. /\ m \in Work /\ m.stage = main[q].stage /\ m.sent = k /\ k \in 0..MaxText
      /\ m.didAbort = main[q].didAbort /\ m.aborter = main[q].aborter
  BY <1>1, <1>2, ChannelAssumption DEF Work
<1>4. /\ main' \in [Requests -> Work] /\ main'[q] = m
      /\ \A r \in Requests \ {q} : main'[r] = main[r]
  <2> HIDE DEF m, k
  <2> QED BY <1>2, <1>3, MainUpdate
<1>5. main[q].sent \in Nat /\ main'[q].sent = k /\ k >= main[q].sent
  BY <1>1, <1>3, <1>4 DEF Work
<1> HIDE DEF m, k
<1>11. n \in 0..MaxText
  BY <1>0, <1>3, ChannelAssumption DEF Shown
<1>6. Fired(q, "text", n)
  BY <1>0, <1>2, <1>3, <1>4 DEF Fired, Active
<1>7. events' \in Seq(Event) /\ EventsOK' /\ \A r \in Requests \ {q} : NoEvent(r) => NoEvent(r)'
  BY <1>2, <1>4, <1>5, <1>6, <1>11, EventsGrow DEF Answers
<1>8. TypeOK'
  BY <1>2, <1>4, <1>7 DEF TypeOK, Work
<1>9. CallsOK'
  BY <1>2, <1>3, <1>4, CallsFrame
<1>10. ASSUME NEW r \in Requests PROVE RequestOK(r)'
  <2>1. CASE r = q
    <3>1. main[q].didAbort => NoEvent(q)'
      <4>1. main[q].didAbort => events' = events /\ NoEvent(q)
        BY <1>0, <1>2 DEF Emit, RequestOK, Active
      <4> QED BY <4>1 DEF NoEvent
    <3>2. heard[q].text \in Nat /\ (heard[q].tool \/ heard[q].text <= main[q].sent)
      BY DEF RequestOK, TypeOK
    <3> QED BY <1>2, <1>3, <1>4, <1>5, <2>1, <3>1, <3>2 DEF RequestOK, Unseen, Active
  <2>2. CASE r # q
    BY <1>2, <1>4, <1>7, <2>2, RequestFrame
  <2> QED BY <2>1, <2>2
<1> QED BY <1>7, <1>8, <1>9, <1>10

LEMMA FinishStep ==
  ASSUME IInv, NEW q \in Requests, Finish(q)
  PROVE  IInv'
<1> USE DEF IInv
<1> DEFINE m == [main[q] EXCEPT !.stage = "done"]
           k == main[q].sent
<1>1. main[q] \in Work
  BY DEF TypeOK, Work
<1>0. main[q].stage \in {"streaming", "connecting"}
  BY DEF Finish
<1>2. PICK what \in Answers, n \in 0..MaxText :
         events' = Emit(q, what, n) /\ (what # "error" => n \in Shown(q, k))
  <2>1. k \in 0..MaxText /\ 0 \in 0..MaxText
    BY <1>1, ChannelAssumption DEF Work
  <2>2. \A n \in Shown(q, k) : n \in 0..MaxText
    BY <2>1, ChannelAssumption DEF Shown
  <2> QED BY <2>1, <2>2 DEF Finish, Answers
<1>3. /\ main' = [main EXCEPT ![q] = m]
      /\ UNCHANGED <<kind, hooks, heard, calls, running, awaiting>>
  BY <1>1 DEF Finish, TypeOK
<1>4. /\ m \in Work /\ m.stage = "done" /\ m.sent = k /\ k \in Nat
      /\ m.didAbort = main[q].didAbort
  BY <1>1 DEF Work
<1> HIDE DEF m
<1>5. /\ main' \in [Requests -> Work] /\ main'[q] = m
      /\ \A r \in Requests \ {q} : main'[r] = main[r]
  BY <1>3, <1>4, MainUpdate
<1>6. Fired(q, what, n)
  BY <1>2, <1>4, <1>5 DEF Fired, Answers
<1>7. events' \in Seq(Event) /\ EventsOK' /\ \A r \in Requests \ {q} : NoEvent(r) => NoEvent(r)'
  <2>1. main'[q].stage = "done" /\ main'[q].sent >= main[q].sent /\ main[q].stage # "done"
    BY <1>0, <1>4, <1>5
  <2> QED BY <1>2, <1>3, <1>4, <1>5, <1>6, <2>1, EventsGrow
<1>8. TypeOK'
  BY <1>3, <1>5, <1>7 DEF TypeOK, Work
<1>9. CallsOK'
  BY <1>0, <1>3, <1>5, CallsFrame
<1>10. ASSUME NEW r \in Requests PROVE RequestOK(r)'
  <2>1. CASE r = q
    BY <1>0, <1>3, <1>4, <1>5, <2>1 DEF RequestOK, Unseen, Active
  <2>2. CASE r # q
    BY <1>3, <1>5, <1>7, <2>2, RequestFrame
  <2> QED BY <2>1, <2>2
<1> QED BY <1>7, <1>8, <1>9, <1>10

\* What the end of the setup does to the request, and to an abort that awaited it.
LEMMA SetupProperties ==
  ASSUME IInv, NEW q \in Requests, NEW s \in {"connecting", "done"}, SetupEnds(q, s)
  PROVE  /\ main' \in [Requests -> Work] /\ running' \subseteq Requests /\ awaiting' \subseteq Requests
         /\ main[q].stage = "setup" /\ kind[q] # "sync" /\ kind[q] # "unsent"
         /\ main'[q].stage \in {s, "done"} /\ main'[q].sent = main[q].sent
         /\ main'[q].didAbort \/ (main'[q].didAbort = main[q].didAbort /\ running' = running)
         /\ \A r \in Requests \ {q} : main'[r] = main[r] /\ (r \in running => r \in running')
         /\ UNCHANGED <<kind, hooks, heard, calls>>
<1> USE DEF IInv
<1> DEFINE m == [main[q] EXCEPT !.stage = s]
<1>1. main[q] \in Work
  BY DEF TypeOK, Work
<1>2. m \in Work /\ m.stage = s /\ m.sent = main[q].sent /\ m.didAbort = main[q].didAbort
  BY <1>1 DEF Work, Active
<1>3. main[q].stage = "setup" /\ kind[q] # "sync" /\ kind[q] # "unsent"
  BY DEF SetupEnds, RequestOK
<1>4. /\ IF q \in awaiting THEN AbortRuns(q, m) ELSE main' = [main EXCEPT ![q] = m] /\ UNCHANGED running
      /\ awaiting' = awaiting \ {q} /\ UNCHANGED <<kind, hooks, heard, calls>>
  BY DEF SetupEnds
<1> HIDE DEF m
<1>5. CASE q \in awaiting
  <2>1. main' = [main EXCEPT ![q] = Aborted(m)] /\ running' = running \ {q}
    BY <1>4, <1>5 DEF AbortRuns
  <2>2. /\ Aborted(m) \in Work /\ Aborted(m).stage \in {s, "done"}
        /\ Aborted(m).sent = m.sent /\ Aborted(m).didAbort
    BY <1>2 DEF Aborted, Work
  <2>3. /\ main' \in [Requests -> Work] /\ main'[q] = Aborted(m)
        /\ \A r \in Requests \ {q} : main'[r] = main[r]
    BY <2>1, <2>2, MainUpdate
  <2> QED BY <1>2, <1>3, <1>4, <2>1, <2>2, <2>3 DEF TypeOK
<1>6. CASE q \notin awaiting
  <2>1. main' = [main EXCEPT ![q] = m] /\ UNCHANGED running
    BY <1>4, <1>6
  <2>2. /\ main' \in [Requests -> Work] /\ main'[q] = m
        /\ \A r \in Requests \ {q} : main'[r] = main[r]
    BY <1>2, <2>1, MainUpdate
  <2> QED BY <1>2, <1>3, <1>4, <2>1, <2>2 DEF TypeOK
<1> QED BY <1>5, <1>6

LEMMA SetupDoneStep ==
  ASSUME IInv, NEW q \in Requests, SetupDone(q)
  PROVE  IInv'
<1> USE DEF IInv
<1>1. SetupEnds(q, "connecting") /\ UNCHANGED events
  BY DEF SetupDone
<1>2. /\ main' \in [Requests -> Work] /\ running' \subseteq Requests /\ awaiting' \subseteq Requests
      /\ main[q].stage = "setup" /\ kind[q] # "sync" /\ kind[q] # "unsent"
      /\ main'[q].stage \in {"connecting", "done"} /\ main'[q].sent = main[q].sent
      /\ main'[q].didAbort \/ (main'[q].didAbort = main[q].didAbort /\ running' = running)
      /\ \A r \in Requests \ {q} : main'[r] = main[r] /\ (r \in running => r \in running')
      /\ UNCHANGED <<kind, hooks, heard, calls>>
  BY <1>1, SetupProperties
<1>3. TypeOK'
  BY <1>1, <1>2 DEF TypeOK, Work
<1>4. EventsOK' /\ \A r \in Requests : NoEvent(r) => NoEvent(r)'
  BY <1>1, <1>2, <1>3, EventsFrame
<1>5. CallsOK'
  BY <1>2, CallsFrame
<1>6. ASSUME NEW r \in Requests PROVE RequestOK(r)'
  <2>1. CASE r = q
    <3>1. NoEvent(q) /\ heard[q].text = 0 /\ heard[q].told \cap Answers = {}
      BY <1>2 DEF RequestOK, Unseen
    <3> QED BY <1>2, <1>4, <2>1, <3>1 DEF RequestOK, Unseen, Active
  <2>2. CASE r # q
    BY <1>2, <1>4, <2>2, RequestFrame
  <2> QED BY <2>1, <2>2
<1> QED BY <1>3, <1>4, <1>5, <1>6

LEMMA SetupFailsStep ==
  ASSUME IInv, NEW q \in Requests, SetupFails(q)
  PROVE  IInv'
<1> USE DEF IInv
<1>1. SetupEnds(q, "done") /\ events' = Emit(q, "error", 0)
  BY DEF SetupFails
<1>2. /\ main' \in [Requests -> Work] /\ running' \subseteq Requests /\ awaiting' \subseteq Requests
      /\ main[q].stage = "setup" /\ kind[q] # "sync" /\ kind[q] # "unsent"
      /\ main'[q].stage = "done" /\ main'[q].sent = main[q].sent
      /\ \A r \in Requests \ {q} : main'[r] = main[r] /\ (r \in running => r \in running')
      /\ UNCHANGED <<kind, hooks, heard, calls>>
  BY <1>1, SetupProperties
<1>3. Fired(q, "error", 0) /\ 0 \in 0..MaxText
  BY <1>1, ChannelAssumption DEF Fired
<1>4. events' \in Seq(Event) /\ EventsOK' /\ \A r \in Requests \ {q} : NoEvent(r) => NoEvent(r)'
  <2>1. main'[q].sent >= main[q].sent
    BY <1>2 DEF TypeOK
  <2> QED BY <1>2, <1>3, <2>1, EventsGrow DEF Answers
<1>5. TypeOK'
  BY <1>2, <1>4 DEF TypeOK, Work
<1>6. CallsOK'
  BY <1>2, CallsFrame
<1>7. ASSUME NEW r \in Requests PROVE RequestOK(r)'
  <2>1. CASE r = q
    <3>1. heard[q].told \cap Answers = {}
      BY <1>2 DEF RequestOK
    <3> QED BY <1>2, <2>1, <3>1 DEF RequestOK, Unseen, Active
  <2>2. CASE r # q
    BY <1>2, <1>4, <2>2, RequestFrame
  <2> QED BY <2>1, <2>2
<1> QED BY <1>4, <1>5, <1>6, <1>7

LEMMA HandleSendStep ==
  ASSUME IInv, HandleSend
  PROVE  IInv'
<1> USE DEF IInv
<1>1. PICK q \in Requests : q = Head(calls).q
  <2>1. Head(calls) \in Message
    BY TailProperties DEF HandleSend, TypeOK
  <2> QED BY <2>1 DEF Message
<1>2. /\ calls # <<>> /\ calls' = Tail(calls) /\ Head(calls).op = "send"
      /\ running' = IF kind[q] = "list" THEN running ELSE running \cup {q}
      /\ UNCHANGED <<kind, hooks, heard, awaiting>>
  BY <1>1 DEF HandleSend
<1>3. main[q] \in Work
  BY DEF TypeOK, Work
<1>4. \/ /\ \E s \in (IF kind[q] \in {"late", "none"} THEN {"setup", "connecting"} ELSE {"connecting"}) :
               main' = [main EXCEPT ![q].stage = s, ![q].aborter = kind[q] = "sync"]
         /\ UNCHANGED events
      \/ /\ main' = [main EXCEPT ![q].stage = "done"]
         /\ events' = Emit(q, "error", 0)
  BY <1>1 DEF HandleSend
<1>5. PICK m \in Work :
        /\ main' = [main EXCEPT ![q] = m] /\ m.sent = main[q].sent /\ m.didAbort = main[q].didAbort
        /\ \/ /\ m.stage \in {"setup", "connecting"} /\ m.aborter = (kind[q] = "sync")
              /\ m.stage = "setup" => kind[q] # "sync"
              /\ UNCHANGED events
           \/ m.stage = "done" /\ events' = Emit(q, "error", 0)
  <2>1. CASE main' = [main EXCEPT ![q].stage = "done"] /\ events' = Emit(q, "error", 0)
    <3> DEFINE m == [main[q] EXCEPT !.stage = "done"]
    <3>1. m \in Work /\ m.stage = "done" /\ m.sent = main[q].sent /\ m.didAbort = main[q].didAbort
      BY <1>3 DEF Work
    <3>2. main' = [main EXCEPT ![q] = m]
      BY <1>3, <2>1 DEF TypeOK
    <3> QED BY <2>1, <3>1, <3>2
  <2>2. ASSUME NEW s \in (IF kind[q] \in {"late", "none"} THEN {"setup", "connecting"} ELSE {"connecting"}),
               main' = [main EXCEPT ![q].stage = s, ![q].aborter = kind[q] = "sync"], UNCHANGED events
        PROVE  \E m \in Work :
                 /\ main' = [main EXCEPT ![q] = m] /\ m.sent = main[q].sent
                 /\ m.didAbort = main[q].didAbort
                 /\ m.stage \in {"setup", "connecting"} /\ m.aborter = (kind[q] = "sync")
                 /\ m.stage = "setup" => kind[q] # "sync"
                 /\ UNCHANGED events
    <3> DEFINE m == [main[q] EXCEPT !.stage = s, !.aborter = kind[q] = "sync"]
    <3>1. s \in {"setup", "connecting"} /\ (s = "setup" => kind[q] # "sync")
      OBVIOUS
    <3>2. /\ m \in Work /\ m.stage = s /\ m.aborter = (kind[q] = "sync")
          /\ m.sent = main[q].sent /\ m.didAbort = main[q].didAbort
      BY <1>3, <3>1 DEF Work, Active
    <3>3. main' = [main EXCEPT ![q] = m]
      BY <1>3, <2>2 DEF TypeOK
    <3> HIDE DEF m
    <3> QED BY <2>2, <3>1, <3>2, <3>3
  <2> QED BY <1>4, <2>1, <2>2
<1>6. /\ main' \in [Requests -> Work] /\ main'[q] = m
      /\ \A r \in Requests \ {q} : main'[r] = main[r]
  BY <1>5, MainUpdate
<1>7. /\ calls' \in Seq(Message) /\ CallsOK'
      /\ kind[q] # "unsent" /\ main[q].stage = "idle"
  <2>1. \A r \in Requests \ {q} : main'[r].stage = main[r].stage
    BY <1>6
  <2> QED BY <1>1, <1>2, <2>1, CallsTail
<1>8. /\ NoEvent(q) /\ heard[q].text = 0 /\ heard[q].told \cap Answers = {}
      /\ "abort" \in heard[q].told => q \notin hooks
      /\ heard[q].tool \/ heard[q].text <= main[q].sent
  BY <1>7 DEF RequestOK, Unseen
<1>9. \A r \in Requests \ {q} : r \in running => r \in running'
  BY <1>2
<1>10. running' \subseteq Requests /\ (kind[q] \in Aborters => q \in running')
  BY <1>2 DEF TypeOK, Aborters
<1>11. CASE UNCHANGED events /\ m.stage # "done"
  <2>1. /\ m.stage \in {"setup", "connecting"} /\ m.aborter = (kind[q] = "sync")
        /\ m.stage = "setup" => kind[q] # "sync"
    BY <1>5, <1>11
  <2>2. TypeOK'
    BY <1>2, <1>6, <1>7, <1>10, <1>11 DEF TypeOK, Work
  <2>3. EventsOK' /\ \A r \in Requests : NoEvent(r) => NoEvent(r)'
    BY <1>2, <1>5, <1>6, <1>7, <1>11, <2>2, EventsFrame
  <2>4. ASSUME NEW r \in Requests PROVE RequestOK(r)'
    <3>1. CASE r = q
      BY <1>2, <1>5, <1>6, <1>7, <1>8, <1>10, <2>1, <2>3, <3>1 DEF RequestOK, Unseen, Active
    <3>2. CASE r # q
      BY <1>2, <1>6, <1>9, <2>3, <3>2, RequestFrame
    <3> QED BY <3>1, <3>2
  <2> QED BY <1>7, <2>2, <2>3, <2>4
<1>12. CASE m.stage = "done" /\ events' = Emit(q, "error", 0)
  <2>1. Fired(q, "error", 0) /\ 0 \in 0..MaxText
    BY <1>12, ChannelAssumption DEF Fired
  <2>2. events' \in Seq(Event) /\ EventsOK' /\ \A r \in Requests \ {q} : NoEvent(r) => NoEvent(r)'
    <3>1. main'[q].sent >= main[q].sent /\ main'[q].stage = "done" /\ main[q].stage # "done"
      BY <1>3, <1>5, <1>6, <1>7, <1>12 DEF Work
    <3> QED BY <1>2, <1>6, <2>1, <3>1, EventsGrow DEF Answers
  <2>3. TypeOK'
    BY <1>2, <1>6, <1>7, <1>10, <2>2 DEF TypeOK, Work
  <2>4. ASSUME NEW r \in Requests PROVE RequestOK(r)'
    <3>1. CASE r = q
      BY <1>2, <1>5, <1>6, <1>7, <1>8, <1>12, <3>1 DEF RequestOK, Unseen, Active
    <3>2. CASE r # q
      BY <1>2, <1>6, <1>9, <2>2, <3>2, RequestFrame
    <3> QED BY <3>1, <3>2
  <2> QED BY <1>7, <2>2, <2>3, <2>4
<1> QED BY <1>5, <1>11, <1>12

\* Carrying out an abort whose request is not in setup.
LEMMA AbortRunsProperties ==
  ASSUME IInv, NEW q \in Requests, main[q].stage # "setup", AbortRuns(q, main[q])
  PROVE  /\ main' \in [Requests -> Work] /\ running' \subseteq Requests
         /\ main'[q].stage \in {main[q].stage, "done"} /\ main'[q].sent = main[q].sent
         /\ main[q].stage = "idle" => main'[q].stage = "idle"
         /\ main'[q].didAbort
         /\ main'[q].aborter = main[q].aborter
         /\ main[q].aborter => main'[q].stage = "done"
         /\ \A r \in Requests \ {q} : main'[r] = main[r] /\ (r \in running => r \in running')
<1> USE DEF IInv
<1> DEFINE m == Aborted(main[q])
<1>1. main[q] \in Work
  BY DEF TypeOK, Work
<1>2. /\ m \in Work /\ m.stage = (IF main[q].aborter THEN "done" ELSE main[q].stage)
      /\ m.sent = main[q].sent /\ m.didAbort /\ m.aborter = main[q].aborter
  BY <1>1 DEF Aborted, Work
<1>3. main' = [main EXCEPT ![q] = m] /\ running' = running \ {q}
  BY DEF AbortRuns
<1> HIDE DEF m
<1>4. /\ main' \in [Requests -> Work] /\ main'[q] = m
      /\ \A r \in Requests \ {q} : main'[r] = main[r]
  BY <1>2, <1>3, MainUpdate
<1>5. main[q].stage = "idle" => ~main[q].aborter
  BY DEF RequestOK
<1> QED BY <1>2, <1>3, <1>4, <1>5 DEF TypeOK

LEMMA HandleAbortStep ==
  ASSUME IInv, HandleAbort
  PROVE  IInv'
<1> USE DEF IInv
<1>1. PICK q \in Requests : q = Head(calls).q
  <2>1. Head(calls) \in Message
    BY TailProperties DEF HandleAbort, TypeOK
  <2> QED BY <2>1 DEF Message
<1>2. /\ calls # <<>> /\ calls' = Tail(calls)
      /\ UNCHANGED <<kind, hooks, heard, events>>
  BY DEF HandleAbort
<1>3. \/ UNCHANGED mainVars
      \/ q \in running /\ awaiting' = awaiting \cup {q} /\ UNCHANGED <<main, running>>
      \/ main[q].stage # "setup" /\ AbortRuns(q, main[q]) /\ UNCHANGED awaiting
  BY <1>1 DEF HandleAbort
<1>4. CASE UNCHANGED <<main, running>> /\ awaiting' \subseteq Requests
  <2>1. calls' \in Seq(Message) /\ CallsOK'
    BY <1>1, <1>2, <1>4, CallsTail
  <2>2. TypeOK'
    BY <1>2, <1>4, <2>1 DEF TypeOK
  <2>3. EventsOK' /\ \A r \in Requests : NoEvent(r) => NoEvent(r)'
    BY <1>2, <1>4, <2>2, EventsFrame
  <2>4. \A r \in Requests : RequestOK(r)'
    BY <1>2, <1>4, <2>3, RequestFrame
  <2> QED BY <2>1, <2>2, <2>3, <2>4
<1>5. CASE main[q].stage # "setup" /\ AbortRuns(q, main[q]) /\ UNCHANGED awaiting
  <2>1. /\ main' \in [Requests -> Work] /\ running' \subseteq Requests
        /\ main'[q].stage \in {main[q].stage, "done"} /\ main'[q].sent = main[q].sent
        /\ main[q].stage = "idle" => main'[q].stage = "idle"
        /\ main'[q].didAbort
        /\ main'[q].aborter = main[q].aborter
        /\ main[q].aborter => main'[q].stage = "done"
        /\ \A r \in Requests \ {q} : main'[r] = main[r] /\ (r \in running => r \in running')
    BY <1>5, AbortRunsProperties
  <2>2. calls' \in Seq(Message) /\ CallsOK' /\ kind[q] # "unsent"
    <3>1. main'[q].stage = main[q].stage \/ main[q].stage # "idle"
      BY <2>1
    <3> QED BY <1>1, <1>2, <2>1, <3>1, CallsTail
  <2>3. TypeOK'
    BY <1>2, <1>5, <2>1, <2>2 DEF TypeOK, Work
  <2>4. EventsOK' /\ \A r \in Requests : NoEvent(r) => NoEvent(r)'
    BY <1>2, <2>1, <2>3, EventsFrame
  <2>5. ASSUME NEW r \in Requests PROVE RequestOK(r)'
    <3>1. CASE r = q
      <4>1. main[q].stage \in Active => \/ Unseen(q) \/ main[q].aborter
        BY <2>3 DEF RequestOK, Unseen, Active, TypeOK, Kinds
      <4>2. main'[q].stage # "done" => main'[q].stage = main[q].stage /\ ~main[q].aborter
        BY <2>1
      <4>3. main'[q].stage \in Active => NoEvent(q) /\ heard[q].text = 0
        BY <4>1, <4>2 DEF RequestOK, Active
      <4>4. Unseen(q)' => Unseen(q)
        BY <1>2, <4>2 DEF Unseen
      <4> QED BY <1>2, <1>5, <2>1, <2>2, <2>4, <3>1, <4>2, <4>3, <4>4 DEF RequestOK
    <3>2. CASE r # q
      BY <1>2, <2>1, <2>4, <3>2, RequestFrame
    <3> QED BY <3>1, <3>2
  <2> QED BY <2>2, <2>3, <2>4, <2>5
<1>6. awaiting \subseteq Requests
  BY DEF TypeOK
<1> QED BY <1>3, <1>4, <1>5, <1>6 DEF mainVars

------------------------------------------------------------------------------
(* The theorems.                                                               *)

LEMMA Initial ==
  ASSUME Init
  PROVE  IInv
<1>1. TypeOK
  <2>1. 0 \in 0..MaxText
    BY ChannelAssumption
  <2> QED BY <2>1 DEF Init, TypeOK
<1>2. EventsOK /\ CallsOK
  BY DEF Init, EventsOK, CallsOK
<1>3. ASSUME NEW q \in Requests PROVE RequestOK(q)
  BY DEF Init, RequestOK, Unseen, NoEvent, Active
<1> QED BY <1>1, <1>2, <1>3 DEF IInv

LEMMA Inductive ==
  ASSUME IInv, [Next]_vars
  PROVE  IInv'
<1>1. CASE UNCHANGED vars
  BY <1>1 DEF vars, mainVars, IInv, TypeOK, EventsOK, CallsOK, RequestOK, Unseen, NoEvent
<1>2. ASSUME NEW q \in Requests, Send(q) \/ Abort(q) \/ Provider(q) PROVE IInv'
  BY <1>2, SendStep, AbortStep, SetupDoneStep, SetupFailsStep, ConnectedStep, ChunkStep, FinishStep
     DEF Provider
<1> QED BY <1>1, <1>2, DeliverStep, HandleSendStep, HandleAbortStep DEF Next

LEMMA Invariant == Spec => []IInv
BY Initial, Inductive, PTL DEF Spec

(* The state of the two processes has its types: queues of calls and events    *)
(* about known requests, and texts no longer than the provider sends.          *)
THEOREM ChannelTypeCorrect == Spec => []TypeOK
<1>1. IInv => TypeOK
  BY DEF IInv
<1> QED BY <1>1, Invariant, PTL

(* A request gets one answer, heard or under way, whoever reports it: the      *)
(* checks of sendLLMMessage, its catch or the stream.                          *)
THEOREM ChannelOneAnswer == Spec => []OneAnswer
<1>1. ASSUME IInv PROVE OneAnswer
  <2>1. ASSUME NEW i \in DOMAIN events PROVE heard[events[i].q].told \cap Answers = {}
    <3>1. events[i] \in Event
      BY <1>1 DEF IInv, TypeOK
    <3>2. events[i].q \in Requests /\ ~NoEvent(events[i].q)
      BY <3>1 DEF Event, NoEvent
    <3> QED BY <1>1, <3>2 DEF IInv, RequestOK
  <2>2. \A i, j \in DOMAIN events : (i < j /\ events[i].q = events[j].q) => events[i].what = "text"
    BY <1>1 DEF IInv, EventsOK
  <2> QED BY <2>1, <2>2 DEF OneAnswer
<1> QED BY <1>1, Invariant, PTL

(* A request that can still produce something is in _infoOfRunningRequest, so  *)
(* that an abort finds it.                                                     *)
THEOREM ChannelEntryWhileRunning == Spec => []EntryWhileRunning
<1>1. IInv => EntryWhileRunning
  BY DEF IInv, RequestOK, EntryWhileRunning
<1> QED BY <1>1, Invariant, PTL

(* What goes on upstream after its abort never showed its caller anything.     *)
THEOREM ChannelGoesOnUnseen == Spec => []GoesOnUnseen
<1>1. IInv => GoesOnUnseen
  BY DEF IInv, RequestOK, GoesOnUnseen, NoEvent
<1> QED BY <1>1, Invariant, PTL

\* A delivered event is a text or the end of a request that has not ended.
LEMMA DeliverImplements ==
  ASSUME IInv, Deliver
  PROVE  [Request!Next]_(Request!vars)
<1> USE DEF IInv
<1>1. PICK e \in Event : e = events[1] /\ e = Head(events) /\ 1 \in DOMAIN events
  BY TailProperties DEF TypeOK, Deliver
<1>2. PICK q \in Requests : q = e.q
  BY DEF Event
<1>3. UNCHANGED kind
  BY DEF Deliver
<1>4. PICK r \in Recovered(e) : heard' = Told(e, r)
  BY <1>1 DEF Deliver
<1>5. e.what \in {"text", "final", "error"} /\ e.n \in 0..MaxText
  BY DEF Event, Answers
<1>6. /\ r.text \in 0..MaxText /\ r.tool \in BOOLEAN /\ (~r.tool => r.text = e.n)
      /\ e.what # "final" => r.text = e.n /\ ~r.tool
      /\ r.tool => q \in Agents
  BY <1>2, <1>5, RecoveredProperties
<1>7. CASE q \notin hooks
  BY <1>2, <1>3, <1>4, <1>7 DEF Told, Request!vars
<1>8. CASE q \in hooks
  <2>1. ~NoEvent(q) /\ kind[q] # "unsent" /\ "abort" \notin heard[q].told
    BY <1>1, <1>2, <1>8 DEF NoEvent, RequestOK
  <2>2. heard[q].told = {} /\ ~heard[q].tool
    <3>1. heard[q].told \subseteq Answers \cup {"abort"}
      BY DEF TypeOK
    <3>2. heard[q].told \cap Answers = {}
      BY <2>1 DEF RequestOK
    <3>3. heard[q].told = {}
      BY <2>1, <3>1, <3>2
    <3> QED BY <3>3 DEF RequestOK
  <2>3. e.what # "error" => q \in Parsed \/ heard[q].text <= e.n
    BY <1>1, <1>2 DEF EventsOK, Grows
  <2>4. e.what # "error" => e.n \in Request!Follows(q)
    BY <1>5, <2>3 DEF Request!Follows
  <2>5. heard[q] \in Hearing
    BY DEF TypeOK, Hearing
  <2>6. q \in {t \in Requests : kind[t] # "unsent"} /\ UNCHANGED {t \in Requests : kind[t] # "unsent"}
    BY <1>3, <2>1
  <2>7. CASE e.what = "text"
    <3> DEFINE h == [text |-> r.text, tool |-> r.tool,
                     told |-> heard[q].told \cup ({e.what} \cap Answers)]
    <3>1. heard' = [heard EXCEPT ![q] = h]
      BY <1>2, <1>4, <1>8, <2>7 DEF Told
    <3>2. h = [heard[q] EXCEPT !.text = e.n]
      BY <1>6, <2>2, <2>5, <2>7 DEF Answers, Hearing
    <3>3. heard' = [heard EXCEPT ![q].text = e.n]
      BY <3>1, <3>2
    <3> QED BY <2>2, <2>4, <2>6, <2>7, <3>3 DEF Request!Next, Request!Show
  <2>8. CASE e.what = "final"
    <3> DEFINE f == [text |-> r.text, tool |-> r.tool]
    <3>1. heard' = [heard EXCEPT ![q] = [text |-> r.text, tool |-> r.tool, told |-> {"final"}]]
      <4>1. heard[q].told \cup ({e.what} \cap Answers) = {"final"}
        BY <2>2, <2>8 DEF Answers
      <4> QED BY <1>2, <1>4, <1>8, <2>8, <4>1 DEF Told
    <3>2. f \in [text : Request!Follows(q), tool : {FALSE}]
                   \cup (IF q \in Agents THEN [text : 0..MaxText, tool : {TRUE}] ELSE {})
      <4>1. CASE r.tool
        <5>1. r.text \in 0..MaxText
          BY <1>5, <1>6, ChannelAssumption
        <5> QED BY <1>6, <4>1, <5>1
      <4>2. CASE ~r.tool
        BY <1>6, <2>4, <2>8, <4>2
      <4> QED BY <4>1, <4>2
    <3>3. Request!Final(q)
      <4>1. f.text = r.text /\ f.tool = r.tool
        OBVIOUS
      <4> HIDE DEF f
      <4> QED BY <3>1, <3>2, <4>1 DEF Request!Final
    <3> QED BY <2>2, <2>6, <3>3 DEF Request!Next, Request!End
  <2>9. CASE e.what = "error"
    <3>1. heard' = [heard EXCEPT ![q].told = {"error"}]
      BY <1>2, <1>4, <1>8, <2>2, <2>9 DEF Told
    <3> QED BY <2>2, <2>6, <3>1 DEF Request!Next, Request!End
  <2> QED BY <1>5, <2>7, <2>8, <2>9
<1> QED BY <1>7, <1>8

\* Every step of the two processes is a step of LLMRequest, or none.
LEMMA StepImplements ==
  ASSUME IInv, [Next]_vars
  PROVE  [Request!Next]_(Request!vars)
<1>1. ASSUME UNCHANGED <<kind, heard>> PROVE UNCHANGED Request!vars
  BY <1>1 DEF Request!vars
<1>2. ASSUME NEW q \in Requests, Send(q) PROVE Request!Next
  <2>1. PICK k \in Kinds : kind' = [kind EXCEPT ![q] = k]
    BY <1>2 DEF Send
  <2>2. k # "unsent" /\ kind[q] = "unsent" /\ kind \in [Requests -> Kinds \cup {"unsent"}] /\ heard' = heard
    BY <1>2 DEF Send, Kinds, IInv, TypeOK
  <2>3. {r \in Requests : kind'[r] # "unsent"} = {r \in Requests : kind[r] # "unsent"} \cup {q}
    BY <2>1, <2>2
  <2> QED BY <2>2, <2>3 DEF Request!Next, Request!Open
<1>3. ASSUME NEW q \in Requests, Abort(q) PROVE Request!Next
  <2>1. heard' = [heard EXCEPT ![q].told = @ \cup {"abort"}] /\ UNCHANGED kind /\ kind[q] # "unsent"
    BY <1>3 DEF Abort, Aborters, Kinds
  <2> QED BY <2>1 DEF Request!Next, Request!Aborted
<1>4. ASSUME NEW q \in Requests, Provider(q) PROVE UNCHANGED <<kind, heard>>
  BY <1>4 DEF Provider, SetupDone, SetupFails, SetupEnds, Connected, Chunk, Finish
<1>5. HandleSend \/ HandleAbort => UNCHANGED <<kind, heard>>
  BY DEF HandleSend, HandleAbort
<1> QED BY <1>1, <1>2, <1>3, <1>4, <1>5, DeliverImplements DEF Next, vars

(* Whatever the order of calls, events, aborts and failures, what a caller     *)
(* sees of a request is what LLMRequest allows.                                *)
THEOREM ChannelImplementsRequest == Spec => ImplementsRequest
<1>1. Init => Request!Init
  BY DEF Init, Request!Init, Request!Silence
<1> QED BY <1>1, Invariant, StepImplements, PTL DEF Spec, ImplementsRequest, Request!Spec

===============================================================================
