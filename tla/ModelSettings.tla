---- MODULE ModelSettings ----
(* The settings of models, and the polling of a local provider (Ollama, vLLM,   *)
(* LM Studio) for the models it serves. A change of the settings takes effect   *)
(* at once; its listeners and hooks run when it has been stored.                *)
EXTENDS Naturals, Sequences, SequencesExt, FiniteSets

CONSTANTS
    Names,       \* models the provider may serve
    Others,      \* models of other providers, always there to be chosen
    Endpoints,   \* addresses the user may enter; "" disables the provider
    UserOps,     \* what the user changes
    MaxPolls,    \* bound: requests and timers at a time
    MaxPending,  \* bound: changes that are being stored
    MaxChanges,  \* bound: what the user and the servers do
    NoModel, Down, Unwatched

ASSUME SettingsAssumption ==
    /\ "" \in Endpoints
    /\ IsFiniteSet(Names)
    /\ Names \cap Others = {} /\ NoModel \notin Names \cup Others
    /\ UserOps \subseteq {"autoRefresh", "sync", "choose", "hide", "endpoint", "refresh", "close"}
    /\ Unwatched \notin Endpoints
    /\ MaxPolls \in Nat \ {0} /\ MaxPending \in Nat /\ MaxChanges \in Nat

VARIABLES
    auto,        \* globalSettings.autoRefreshModels
    sync,        \* globalSettings.syncApplyToChat
    endpoint,    \* settingsOfProvider[provider].endpoint
    models,      \* its models, in order, with isHidden: all of type 'autodetected'
    chosen,      \* modelSelectionOfFeature
    pending,     \* the hooks of the changes that are being stored, in order
    poll,        \* the requests without an answer and the timers
    recorded,    \* timeoutId: the timer that can be cancelled, or 0
    shown,       \* the state that the settings page shows
    watched,     \* prevVals: the endpoint as the listener last saw it
    served,      \* what answers at each address: the environment's
    steady,      \* history: auto has been on since the window opened
    changes      \* bounded counter

settings == <<auto, sync, endpoint, models, chosen>>
polling == <<poll, recorded, shown>>
vars == <<settings, pending, polling, watched, served, steady, changes>>

Features == {"Chat", "Apply"}
Slots == 1..MaxPolls
Idle == [at |-> "idle"]
Timer == [at |-> "timer"]

Polls == {Idle, Timer}
         \cup [at : {"asked"}, manual : BOOLEAN, endpoint : Endpoints]
         \cup [at : {"answered"}, manual : BOOLEAN, list : {Down} \cup SUBSET Names]
Models == Seq([name : Names, hidden : BOOLEAN])
Hooks == {"none", "sync", "toggled"}

TypeOK ==
    /\ auto \in BOOLEAN /\ sync \in BOOLEAN /\ endpoint \in Endpoints
    /\ models \in Models
    /\ chosen \in [Features -> Names \cup Others \cup {NoModel}]
    /\ pending \in Seq(Hooks) /\ Len(pending) <= MaxPending
    /\ poll \in [Slots -> Polls]
    /\ recorded \in {0} \cup {p \in Slots : poll[p] = Timer}
    /\ shown \in {"init", "refreshing", "finished", "error"}
    /\ watched \in Endpoints \cup {Unwatched}
    /\ served \in [Endpoints -> {Down} \cup SUBSET Names]
    /\ steady \in BOOLEAN /\ changes \in 0..MaxChanges

-----------------------------------------------------------------------------
(* Settings *)

NamesOf(ms) == [i \in DOMAIN ms |-> ms[i].name]

Visible(e, ms) == {i \in DOMAIN ms : e # "" /\ ~ms[i].hidden}
Some(S) == CHOOSE p \in S : \A q \in S : p <= q

\* _modelOptions: the visible models of the providers that are filled in
Options(e, ms) == Others \cup {ms[i].name : i \in Visible(e, ms)}

FirstOption(e, ms) ==
    IF Others # {} THEN CHOOSE m \in Others : TRUE ELSE ms[Some(Visible(e, ms))].name

\* _validatedModelState: a selection that is not offered any more becomes the first that is
Validated(e, ms, ch) ==
    [f \in Features |-> IF ch[f] \in Options(e, ms) THEN ch[f]
                        ELSE IF Options(e, ms) = {} THEN NoModel ELSE FirstOption(e, ms)]

\* Mutant: only a choice of the user's is validated.
SetProvider_Unvalidated(e, ms) ==
    /\ endpoint' = e
    /\ models' = ms
    /\ UNCHANGED <<auto, sync, chosen>>

\* A change of the provider's settings, which is stored and then announced
SetProvider(e, ms) ==
    /\ endpoint' = e
    /\ models' = ms
    /\ chosen' = Validated(e, ms, chosen)
    /\ UNCHANGED <<auto, sync>>

Counted == changes < MaxChanges /\ changes' = changes + 1

Announce(hook) ==
    /\ Len(pending) < MaxPending
    /\ pending' = Append(pending, hook)

\* Mutant: models that are not served any more are kept.
Swapped_Adds(ms, list) ==
    LET new == SetToSeq(list \ ToSet(NamesOf(ms)))
    IN ms \o [i \in DOMAIN new |-> [name |-> new[i], hidden |-> FALSE]]

\* _modelsWithSwappedInNewModels: what was hidden and is still there stays hidden
Swapped(ms, list) ==
    LET new == SetToSeq(list)
    IN [i \in DOMAIN new |-> [name |-> new[i], hidden |-> [name |-> new[i], hidden |-> TRUE] \in ToSet(ms)]]

-----------------------------------------------------------------------------
(* Polling *)

Free(ps) == {p \in Slots : ps[p] = Idle}

Asked(manual) == [at |-> "asked", manual |-> manual, endpoint |-> endpoint]

\* _clearProviderTimeout
Cleared == IF recorded = 0 THEN poll ELSE [poll EXCEPT ![recorded] = Idle]

\* startRefreshingModels
Start(manual) ==
    /\ Free(Cleared) # {}
    /\ poll' = [Cleared EXCEPT ![Some(Free(Cleared))] = Asked(manual)]
    /\ recorded' = 0
    /\ shown' = IF manual THEN "refreshing" ELSE shown

\* initializeAutoPollingAndOnChange, as run when the window opens
FirstPolls == [p \in Slots |-> IF auto /\ p = 1 THEN Asked(FALSE) ELSE Idle]
FirstWatched == IF auto THEN endpoint ELSE Unwatched

\* The server answers with what it serves now
Respond(p) ==
    /\ poll[p].at = "asked"
    /\ poll' = [poll EXCEPT ![p] = [at |-> "answered", manual |-> @.manual, list |-> served[@.endpoint]]]
    /\ UNCHANGED <<settings, pending, recorded, shown, watched, served, steady, changes>>

\* autoPoll: the request makes room for the next timer
Resumed(p) ==
    /\ poll' = [poll EXCEPT ![p] = IF auto THEN Timer ELSE Idle]
    /\ recorded' = IF auto THEN p ELSE recorded

\* _setRefreshState: only what the user asked for is shown
ShownAfter(p) == IF poll[p].manual THEN IF poll[p].list = Down THEN "error" ELSE "finished" ELSE shown

\* onSuccess: setAutodetectedModels. _didFillInProviderSettings is set, too, and
\* computed again from the endpoint by _validatedModelState.
Success(p) ==
    /\ poll[p].at = "answered" /\ poll[p].list # Down
    /\ SetProvider(endpoint, Swapped(models, poll[p].list))
    /\ Announce("none")
    /\ shown' = ShownAfter(p)
    /\ Resumed(p)
    /\ UNCHANGED <<watched, served, steady, changes>>

\* onError
Error(p) ==
    /\ poll[p].at = "answered" /\ poll[p].list = Down
    /\ shown' = ShownAfter(p)
    /\ Resumed(p)
    /\ UNCHANGED <<settings, pending, watched, served, steady, changes>>

\* The timer fires; the recorded one is cleared, whichever it is
TimerFires(p) ==
    /\ poll[p] = Timer
    /\ poll' = [(IF recorded = 0 THEN poll ELSE [poll EXCEPT ![recorded] = Idle])
                  EXCEPT ![p] = Asked(FALSE)]
    /\ recorded' = 0
    /\ UNCHANGED <<settings, pending, shown, watched, served, steady, changes>>

-----------------------------------------------------------------------------
(* When a change has been stored: onDidChangeState is fired, then the hooks run *)

\* Mutant: turning the synchronisation on does not synchronise.
Synced_OnChoice(hook) == hook = "sync"

\* _onUpdate_syncApplyToChat runs, without looking at sync, when a model was
\* chosen for the chat, and when a global setting was changed and sync is on
Synced(hook) == hook = "sync" \/ (hook = "toggled" /\ sync)

\* The listener that looks at the endpoint: it refreshes only what was just enabled
JustEnabled == watched = "" /\ endpoint # ""

Stored ==
    /\ pending # <<>>
    /\ LET hook == Head(pending)
       IN IF Synced(hook)
          THEN /\ chosen' = Validated(endpoint, models, [chosen EXCEPT !["Apply"] = chosen["Chat"]])
               /\ pending' = Append(Tail(pending), "none")
          ELSE /\ UNCHANGED chosen
               /\ pending' = Tail(pending)
    /\ IF JustEnabled THEN Start(FALSE) ELSE UNCHANGED polling
    /\ watched' = IF watched = Unwatched THEN Unwatched ELSE endpoint
    /\ UNCHANGED <<auto, sync, endpoint, models, served, steady, changes>>

-----------------------------------------------------------------------------
(* The user, and the environment *)

\* AutoDetectLocalModelsToggle. The listener that was to start the polling compares
\* the event's value with a setting's name, but the event carries no value.
ToggleAutoRefresh ==
    /\ "autoRefresh" \in UserOps
    /\ auto' = ~auto
    /\ steady' = FALSE
    /\ Announce("toggled")
    /\ Counted
    /\ UNCHANGED <<sync, endpoint, models, chosen, polling, watched, served>>

ToggleSync ==
    /\ "sync" \in UserOps
    /\ sync' = ~sync
    /\ Announce("toggled")
    /\ Counted
    /\ UNCHANGED <<auto, endpoint, models, chosen, polling, watched, served, steady>>

\* setModelSelectionOfFeature, from a dropdown; that of Apply is hidden while it is synchronised
Choose(f, m) ==
    /\ "choose" \in UserOps
    /\ f = "Apply" => ~sync
    /\ m \in Options(endpoint, models) \ {chosen[f]}
    /\ chosen' = Validated(endpoint, models, [chosen EXCEPT ![f] = m])
    /\ Announce(IF f = "Chat" THEN "sync" ELSE "none")
    /\ Counted
    /\ UNCHANGED <<auto, sync, endpoint, models, polling, watched, served, steady>>

\* toggleModelHidden
ToggleHidden(i) ==
    /\ "hide" \in UserOps
    /\ SetProvider(endpoint, [models EXCEPT ![i].hidden = ~@])
    /\ Announce("none")
    /\ Counted
    /\ UNCHANGED <<polling, watched, served, steady>>

EnterEndpoint(e) ==
    /\ "endpoint" \in UserOps
    /\ e # endpoint
    /\ SetProvider(e, models)
    /\ Announce("none")
    /\ Counted
    /\ UNCHANGED <<polling, watched, served, steady>>

\* RefreshModelButton, which is disabled while it shows a refresh. So that the bound
\* on requests holds up nobody but the user, a slot is left for what Stored starts.
Refresh ==
    /\ "refresh" \in UserOps
    /\ Cardinality(Free(Cleared)) > 1
    /\ shown # "refreshing"
    /\ Start(TRUE)
    /\ Counted
    /\ UNCHANGED <<settings, pending, watched, served, steady>>

\* The window is closed, with everything stored, and opened again
Reopen ==
    /\ "close" \in UserOps
    /\ pending = <<>>
    /\ poll' = FirstPolls /\ recorded' = 0 /\ shown' = "init"
    /\ watched' = FirstWatched
    /\ steady' = auto
    /\ chosen' = Validated(endpoint, models, chosen)
    /\ Counted
    /\ UNCHANGED <<auto, sync, endpoint, models, pending, served>>

Serve(e, list) ==
    /\ e # "" /\ list # served[e]
    /\ served' = [served EXCEPT ![e] = list]
    /\ Counted
    /\ UNCHANGED <<settings, pending, polling, watched, steady>>

Init ==
    /\ auto \in BOOLEAN
    /\ sync = TRUE
    /\ endpoint \in Endpoints
    /\ models = <<>>
    /\ chosen = Validated(endpoint, models, [f \in Features |-> NoModel])
    /\ pending = <<>>
    /\ poll = FirstPolls /\ recorded = 0 /\ shown = "init"
    /\ watched = FirstWatched
    /\ served \in {[e \in Endpoints |-> IF e = "" THEN Down ELSE l] : l \in {{}, Names}}
    /\ steady = auto /\ changes = 0

PollStep(p) == Respond(p) \/ Success(p) \/ Error(p) \/ TimerFires(p)

Next ==
    \/ \E p \in Slots : PollStep(p)
    \/ Stored
    \/ ToggleAutoRefresh \/ ToggleSync \/ Refresh \/ Reopen
    \/ \E f \in Features, m \in Names \cup Others : Choose(f, m)
    \/ \E i \in DOMAIN models : ToggleHidden(i)
    \/ \E e \in Endpoints : EnterEndpoint(e)
    \/ \E e \in Endpoints, list \in {Down} \cup SUBSET Names : Serve(e, list)

(* Timers fire, requests are answered, and what is written is stored. *)
Spec == Init /\ [][Next]_vars /\ WF_vars(Stored) /\ \A p \in Slots : WF_vars(PollStep(p))

-----------------------------------------------------------------------------
(* Properties *)

(* What is chosen for each feature can be chosen: a model that is no longer     *)
(* served, or was hidden, or whose provider was disabled, is given up.          *)
ChosenIsOffered ==
    \A f \in Features :
       IF Options(endpoint, models) = {} THEN chosen[f] = NoModel
       ELSE chosen[f] \in Options(endpoint, models)

(* With syncApplyToChat the two features use the same model, as soon as what    *)
(* was changed has been stored: also when a poll takes the model away.          *)
SyncedIsSame ==
    sync /\ ToSet(pending) \subseteq {"none"} => chosen["Apply"] = chosen["Chat"]

Listed == ToSet(NamesOf(models)) = served[endpoint]

(* While the polling goes on, the models become those the endpoint serves,      *)
(* whatever late answers of other requests and endpoints said.                  *)
ListCatchesUp == (<>[](steady /\ served[endpoint] # Down)) => []<>Listed

====
