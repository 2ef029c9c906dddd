---- MODULE LLMChannel ----
(* The channel between the windows and the providers: sendLLMMessageService in *)
(* the renderer, sendLLMMessageChannel, sendLLMMessage and the providers'      *)
(* implementations in the main process, with calls and events under way        *)
(* between the two.                                                            *)
EXTENDS Naturals, Sequences, FiniteSets

CONSTANTS
    Requests,    \* request ids
    Agents,      \* those of a chat in agent mode: a tool call may be printed in the final text
    Parsed,      \* those of a model without a tool format of its own, or with its
                 \* reasoning in the text: it is taken apart while it streams
    MaxText,     \* bound: texts a provider sends for a request
    MaxAborts    \* bound: aborts under way

ASSUME ChannelAssumption == MaxText \in Nat /\ MaxAborts \in Nat

(* A provider tells how to cancel it when its response arrives ("late":        *)
(* OpenAI-compatible and Gemini chat, Ollama autocomplete), before the call    *)
(* returns ("sync": Anthropic), or never ("none": Mistral and OpenAI           *)
(* autocomplete). "list" asks for a list of models.                            *)
Kinds == {"late", "sync", "none", "list"}
Aborters == Kinds \ {"list"}
Answers == {"final", "error"}

VARIABLES
    kind,        \* what each request asks of which sort of provider
    hooks,       \* llmMessageHooks.onText/onFinalMessage/onError, listHooks
    heard,       \* history: the text each caller was shown, the callbacks called
    calls,       \* channel.call: renderer to main process, in order
    events,      \* events fired in the main process that the renderer has yet to get
    main,        \* sendLLMMessage of each request, with the provider's stream
    running,     \* _infoOfRunningRequest
    awaiting     \* the aborts that await waitForSend

vars == <<kind, hooks, heard, calls, events, main, running, awaiting>>
mainVars == <<main, running, awaiting>>

Active == {"setup", "connecting", "streaming"}

Message == [op : {"send", "abort"}, q : Requests]
Event == [q : Requests, what : Answers \cup {"text"}, n : 0..MaxText]

\* Types, with queues as sequences.
TypeOK ==
    /\ kind \in [Requests -> Kinds \cup {"unsent"}]
    /\ hooks \subseteq Requests
    /\ heard \in [Requests -> [text : 0..MaxText, tool : BOOLEAN,
                               told : SUBSET (Answers \cup {"abort"})]]
    /\ calls \in Seq(Message)
    /\ events \in Seq(Event)
    /\ main \in [Requests -> [stage : Active \cup {"idle", "done"}, sent : 0..MaxText,
                              didAbort : BOOLEAN, aborter : BOOLEAN]]
    /\ running \subseteq Requests
    /\ awaiting \subseteq Requests

Init ==
    /\ kind = [q \in Requests |-> "unsent"]
    /\ hooks = {}
    /\ heard = [q \in Requests |-> [text |-> 0, tool |-> FALSE, told |-> {}]]
    /\ calls = <<>>
    /\ events = <<>>
    /\ main = [q \in Requests |-> [stage |-> "idle", sent |-> 0, didAbort |-> FALSE, aborter |-> FALSE]]
    /\ running = {}
    /\ awaiting = {}

-----------------------------------------------------------------------------
(* The renderer *)

Send(q) ==
    /\ kind[q] = "unsent"
    /\ \E k \in Kinds : kind' = [kind EXCEPT ![q] = k]
    /\ hooks' = hooks \cup {q}
    /\ calls' = Append(calls, [op |-> "send", q |-> q])
    /\ UNCHANGED <<heard, events, mainVars>>

AbortsUnderWay == {i \in DOMAIN calls : calls[i].op = "abort"}

\* Mutant: the hooks of an aborted request stay
Abort_HooksStay(q) ==
    /\ kind[q] \in Aborters
    /\ Cardinality(AbortsUnderWay) < MaxAborts
    /\ heard' = [heard EXCEPT ![q].told = @ \cup {"abort"}]
    /\ calls' = Append(calls, [op |-> "abort", q |-> q])
    /\ UNCHANGED <<kind, hooks, events, mainVars>>

\* onAbort stays among the hooks for ever, so that it is called whenever an id is aborted
Abort(q) ==
    /\ kind[q] \in Aborters
    /\ Cardinality(AbortsUnderWay) < MaxAborts
    /\ heard' = [heard EXCEPT ![q].told = @ \cup {"abort"}]
    /\ calls' = Append(calls, [op |-> "abort", q |-> q])
    /\ hooks' = hooks \ {q}
    /\ UNCHANGED <<kind, events, mainVars>>

\* recoverTextualAgentToolCall: a tool call printed in the final text of an agent is
\* handed on beside what is left of the text or, if that is nothing, a status text
Recovered(e) ==
    {[text |-> e.n, tool |-> FALSE]}
        \cup (IF e.what = "final" /\ e.q \in Agents /\ kind[e.q] \in {"late", "sync"}
              THEN [text : 0..MaxText, tool : {TRUE}] ELSE {})

\* What a caller that still has its hooks hears of an event, handed on as r
Told(e, r) ==
    IF e.q \notin hooks THEN heard
    ELSE IF e.what = "error" THEN [heard EXCEPT ![e.q].told = @ \cup {"error"}]
    ELSE [heard EXCEPT ![e.q] = [text |-> r.text, tool |-> r.tool,
                                 told |-> @.told \cup ({e.what} \cap Answers)]]

\* An answer clears the hooks once the callback has returned
Deliver ==
    /\ events # <<>>
    /\ LET e == Head(events)
       IN /\ \E r \in Recovered(e) : heard' = Told(e, r)
          /\ \/ e.what \in Answers /\ kind[e.q] # "list" /\ hooks' = hooks \ {e.q}
             \/ UNCHANGED hooks     \* a text, a list of models, a callback that throws
    /\ events' = Tail(events)
    /\ UNCHANGED <<kind, calls, mainVars>>

-----------------------------------------------------------------------------
(* The main process *)

\* Mutant: nobody looks at _didAbort
Emit_Always(q, what, n) == Append(events, [q |-> q, what |-> what, n |-> n])

\* onText, onFinalMessage and onError of sendLLMMessage
Emit(q, what, n) == IF main[q].didAbort THEN events ELSE Append(events, [q |-> q, what |-> what, n |-> n])

\* The provider is asked, or refuses before it is: an unknown provider, a model without autocomplete
HandleSend ==
    /\ calls # <<>> /\ Head(calls).op = "send"
    /\ LET q == Head(calls).q
       IN /\ running' = IF kind[q] = "list" THEN running ELSE running \cup {q}
          /\ \/ /\ \E s \in (IF kind[q] \in {"late", "none"} THEN {"setup", "connecting"} ELSE {"connecting"}) :
                       main' = [main EXCEPT ![q].stage = s, ![q].aborter = kind[q] = "sync"]
                /\ UNCHANGED events
             \/ /\ main' = [main EXCEPT ![q].stage = "done"]
                /\ events' = Emit(q, "error", 0)
    /\ calls' = Tail(calls)
    /\ UNCHANGED <<kind, hooks, heard, awaiting>>

\* onAbort: cancel the stream if it is known how, then mute the request
Aborted(m) == [m EXCEPT !.stage = IF m.aborter THEN "done" ELSE @, !.didAbort = TRUE]

\* The rest of _callAbort, once waitForSend has resolved
AbortRuns(q, m) ==
    /\ main' = [main EXCEPT ![q] = Aborted(m)]
    /\ running' = running \ {q}

\* _callAbort: an id that is not running is ignored, one in setup is awaited
HandleAbort ==
    /\ calls # <<>> /\ Head(calls).op = "abort"
    /\ LET q == Head(calls).q
       IN \/ /\ q \notin running
             /\ UNCHANGED mainVars
          \/ /\ q \in running /\ main[q].stage = "setup"
             /\ awaiting' = awaiting \cup {q}
             /\ UNCHANGED <<main, running>>
          \/ /\ q \in running /\ main[q].stage # "setup"
             /\ AbortRuns(q, main[q])
             /\ UNCHANGED awaiting
    /\ calls' = Tail(calls)
    /\ UNCHANGED <<kind, hooks, heard, events>>

\* Mutant: waitForSend never resolves for an abort that awaits it
SetupEnds_NobodyWaits(q, s) ==
    /\ main[q].stage = "setup"
    /\ main' = [main EXCEPT ![q].stage = s]
    /\ UNCHANGED <<kind, hooks, heard, calls, running, awaiting>>

\* sendChat returns, the request is under way, and the aborts that waited for it go on
SetupEnds(q, s) ==
    /\ main[q].stage = "setup"
    /\ LET m == [main[q] EXCEPT !.stage = s]
       IN IF q \in awaiting THEN AbortRuns(q, m)
                            ELSE main' = [main EXCEPT ![q] = m] /\ UNCHANGED running
    /\ awaiting' = awaiting \ {q}
    /\ UNCHANGED <<kind, hooks, heard, calls>>

\* Mutant: sendLLMMessage without its catch
SetupFails_Silent(q) == SetupEnds(q, "done") /\ UNCHANGED events

SetupDone(q) == SetupEnds(q, "connecting") /\ UNCHANGED events
SetupFails(q) == SetupEnds(q, "done") /\ events' = Emit(q, "error", 0)

\* The response arrives, and with it, for most, the way to cancel it
Connected(q) ==
    /\ main[q].stage = "connecting"
    /\ main' = [main EXCEPT ![q].stage = "streaming", ![q].aborter = @ \/ kind[q] = "late"]
    /\ UNCHANGED <<kind, hooks, heard, calls, events, running, awaiting>>

\* extractToolsWrapper and extractReasoningWrapper hold back, or take back, what looks
\* like the start of a tool call or of reasoning
Shown(q, n) == IF q \in Parsed THEN 0..n ELSE {n}

Chunk(q) ==
    /\ main[q].stage = "streaming" /\ kind[q] \in {"late", "sync"}
    /\ main[q].sent < MaxText
    /\ main' = [main EXCEPT ![q].sent = @ + 1]
    /\ \E n \in Shown(q, main[q].sent + 1) : events' = Emit(q, "text", n)
    /\ UNCHANGED <<kind, hooks, heard, calls, running, awaiting>>

\* The stream ends, breaks, was empty, or never came to be
Finish(q) ==
    /\ \/ /\ main[q].stage = "streaming"
          /\ \E n \in Shown(q, main[q].sent) : events' = Emit(q, "final", n)
       \/ /\ main[q].stage \in {"connecting", "streaming"}
          /\ events' = Emit(q, "error", 0)
    /\ main' = [main EXCEPT ![q].stage = "done"]
    /\ UNCHANGED <<kind, hooks, heard, calls, running, awaiting>>

Provider(q) == SetupDone(q) \/ SetupFails(q) \/ Connected(q) \/ Chunk(q) \/ Finish(q)

Next == \/ \E q \in Requests : Send(q) \/ Abort(q) \/ Provider(q)
        \/ Deliver \/ HandleSend \/ HandleAbort

Spec == Init /\ [][Next]_vars

(* The two processes go on handling what reaches them, and a provider that is  *)
(* asked answers, fails or times out. Nobody has to abort.                     *)
FairSpec == /\ Spec
            /\ WF_vars(Deliver) /\ WF_vars(HandleSend) /\ WF_vars(HandleAbort)
            /\ \A q \in Requests : WF_vars(SetupDone(q) \/ SetupFails(q))
                                   /\ WF_vars(Connected(q)) /\ WF_vars(Finish(q))

-----------------------------------------------------------------------------
(* Properties *)

(* A request gets one answer: of final messages and errors, heard or under     *)
(* way, there is never a second, nor text behind one, although answers come    *)
(* from sendLLMMessage's own checks, from its catch and from the streams'      *)
(* handlers. A caller's promise is settled by whichever comes first.           *)
OneAnswer ==
    /\ \A i, j \in DOMAIN events :
          (i < j /\ events[i].q = events[j].q) => events[i].what = "text"
    /\ \A i \in DOMAIN events : heard[events[i].q].told \cap Answers = {}

(* A request that can still produce something for its caller is known to       *)
(* _infoOfRunningRequest, so that an abort finds it: the entry is made when    *)
(* the call arrives and must outlive an abort that awaits the setup.           *)
EntryWhileRunning ==
    \A q \in Requests : (kind[q] \in Aborters /\ main[q].stage \in Active /\ ~main[q].didAbort)
                         => q \in running

(* What goes on upstream after its abort is a request whose provider had not   *)
(* said how to cancel it: it never showed its caller anything, and is not      *)
(* about to. A stream that was already being shown is cancelled.               *)
GoesOnUnseen ==
    \A q \in Requests : (main[q].didAbort /\ main[q].stage \in Active)
                         => heard[q].text = 0 /\ \A i \in DOMAIN events : events[i].q # q

(* Every request of the two processes, with its calls and events in flight,    *)
(* its answer racing its abort, keeps the promise of LLMRequest.               *)
Request == INSTANCE LLMRequest WITH sent <- {q \in Requests : kind[q] # "unsent"}
ImplementsRequest == Request!Spec

(* Every request ends for its caller: an answer comes, unless it aborted.      *)
Answered == \A q \in Requests : kind[q] # "unsent" ~> heard[q].told # {}

(* An abort is carried out in the main process, whenever it arrives: before    *)
(* the request is set up, while it streams or after its answer.                *)
AbortArrives == \A q \in Requests : "abort" \in heard[q].told ~> main[q].didAbort

-----------------------------------------------------------------------------
====
