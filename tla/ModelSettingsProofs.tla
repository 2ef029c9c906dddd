------------------------- MODULE ModelSettingsProofs -------------------------
(***************************************************************************)
(* The chosen models, for any number of models, addresses, requests,       *)
(* timers and changes that are being stored.                               *)
(***************************************************************************)
EXTENDS ModelSettings, FiniteSetTheorems, SequenceTheorems,
        WellFoundedInduction, TLAPS

-----------------------------------------------------------------------------
\* Sequences and the sets of their elements

LEMMA SetOfAppend ==
  ASSUME NEW S, NEW s \in Seq(S), NEW x \in S
  PROVE  ToSet(Append(s, x)) = ToSet(s) \cup {x}
<1> DEFINE t == Append(s, x)
<1>1. /\ t \in Seq(S) /\ Len(t) = Len(s) + 1 /\ Len(s) \in Nat
      /\ \A i \in 1 .. Len(s) : t[i] = s[i]
      /\ t[Len(s) + 1] = x
  BY AppendProperties
<1>2. DOMAIN s = 1 .. Len(s) /\ DOMAIN t = 1 .. Len(s) + 1
  BY <1>1, LenProperties
<1> HIDE DEF t
<1>3. \A i \in DOMAIN t : i \in DOMAIN s \/ i = Len(s) + 1
  BY <1>1, <1>2
<1>4. ToSet(t) \subseteq ToSet(s) \cup {x}
  BY <1>1, <1>2, <1>3 DEF ToSet
<1>5. ToSet(s) \cup {x} \subseteq ToSet(t)
  BY <1>1, <1>2 DEF ToSet
<1> QED BY <1>4, <1>5 DEF t

LEMMA SetOfTail ==
  ASSUME NEW S, NEW s \in Seq(S), s # <<>>
  PROVE  /\ Tail(s) \in Seq(S) /\ Head(s) \in S /\ Len(Tail(s)) = Len(s) - 1
         /\ ToSet(s) = ToSet(Tail(s)) \cup {Head(s)}
<1> DEFINE t == Tail(s)
<1>1. /\ t \in Seq(S) /\ Len(t) = Len(s) - 1 /\ Len(s) \in Nat \ {0} /\ Head(s) \in S
      /\ \A i \in 1 .. Len(t) : t[i] = s[i + 1]
  BY HeadTailProperties, EmptySeq
<1>2. DOMAIN s = 1 .. Len(s) /\ DOMAIN t = 1 .. Len(s) - 1
  BY <1>1, LenProperties
<1>3. Head(s) = s[1] /\ 1 \in DOMAIN s
  BY <1>1, <1>2
<1> HIDE DEF t
<1>4. \A i \in DOMAIN s : i = 1 \/ (i - 1 \in DOMAIN t /\ t[i - 1] = s[i])
  BY <1>1, <1>2
<1>5. \A i \in DOMAIN t : i + 1 \in DOMAIN s /\ t[i] = s[i + 1]
  BY <1>1, <1>2
<1>6. ToSet(s) \subseteq ToSet(t) \cup {Head(s)}
  <2> SUFFICES ASSUME NEW i \in DOMAIN s PROVE s[i] \in ToSet(t) \cup {Head(s)}
    BY DEF ToSet
  <2>1. CASE i = 1
    BY <1>3, <2>1
  <2>2. CASE i # 1
    BY <1>4, <2>2 DEF ToSet
  <2> QED BY <2>1, <2>2
<1>7. ToSet(t) \cup {Head(s)} \subseteq ToSet(s)
  BY <1>3, <1>5 DEF ToSet
<1> QED BY <1>1, <1>6, <1>7 DEF t

\* The elements of a finite set in some order.
LEMMA SetToSeqOf ==
  ASSUME NEW S, IsFiniteSet(S)
  PROVE  SetToSeq(S) \in Seq(S)
<1>1. Cardinality(S) \in Nat /\ ExistsBijection(1 .. Cardinality(S), S)
  BY FS_CardinalityType
<1>2. PICK g \in Bijection(1 .. Cardinality(S), S) : TRUE
  BY <1>1 DEF ExistsBijection
<1>3. g \in [1 .. Cardinality(S) -> S] /\ IsInjective(g)
  BY <1>2 DEF Bijection, Injection, IsInjective
<1>4. SetToSeq(S) \in [1 .. Cardinality(S) -> S]
  BY <1>3 DEF SetToSeq
<1> QED BY <1>1, <1>4

-----------------------------------------------------------------------------
\* The least of some numbers, and of some of their slots.
LEMMA SomeOf ==
  ASSUME NEW S, S \subseteq Nat, S # {}
  PROVE  Some(S) \in S
<1> DEFINE R == OpToRel(<, Nat)
<1>1. \A e, d \in Nat : e < d => <<e, d>> \in R
  BY DEF OpToRel
<1>2. IsWellFoundedOn(R, Nat)
  BY NatLessThanWellFounded
<1> HIDE DEF R
<1>3. \E d \in S : \A e \in S : ~(<<e, d>> \in R)
  BY <1>2, WFMin
<1>4. PICK d \in S : \A e \in S : ~(e < d)
  BY <1>1, <1>3
<1>5. \A e \in S : d <= e
  <2> TAKE e \in S
  <2>1. e \in Nat /\ d \in Nat /\ ~(e < d)
    BY <1>4
  <2> QED BY <2>1
<1> QED BY <1>4, <1>5 DEF Some

-----------------------------------------------------------------------------
\* What is offered

Choosable == Names \cup Others
Model == [name : Names, hidden : BOOLEAN]

LEMMA ModelsElements ==
  ASSUME NEW ms \in Models
  PROVE  /\ DOMAIN ms = 1 .. Len(ms) /\ Len(ms) \in Nat
         /\ \A i \in DOMAIN ms : ms[i] \in Model /\ ms[i].name \in Names /\ ms[i].hidden \in BOOLEAN
<1>1. ms \in Seq(Model)
  BY DEF Models, Model
<1>2. DOMAIN ms = 1 .. Len(ms) /\ Len(ms) \in Nat
  BY <1>1, LenProperties
<1>3. \A i \in DOMAIN ms : ms[i] \in Model
  BY <1>1, <1>2, ElementOfSeq
<1>4. \A m \in Model : m.name \in Names /\ m.hidden \in BOOLEAN
  BY DEF Model
<1> QED BY <1>2, <1>3, <1>4

LEMMA OptionsType ==
  ASSUME NEW e \in Endpoints, NEW ms \in Models
  PROVE  /\ Options(e, ms) \subseteq Choosable
         /\ Options(e, ms) # {} => FirstOption(e, ms) \in Options(e, ms)
<1>1. DOMAIN ms = 1 .. Len(ms) /\ Len(ms) \in Nat /\ \A i \in DOMAIN ms : ms[i].name \in Names
  BY ModelsElements
<1>2. Options(e, ms) \subseteq Choosable
  <2>1. \A i \in Visible(e, ms) : ms[i].name \in Names
    BY <1>1 DEF Visible
  <2> QED BY <2>1 DEF Options, Choosable
<1>3. CASE Others # {}
  <2>1. FirstOption(e, ms) = CHOOSE m \in Others : TRUE
    BY <1>3 DEF FirstOption
  <2>2. \E m \in Others : TRUE
    BY <1>3
  <2>3. (CHOOSE m \in Others : TRUE) \in Others
    BY <2>2, Zenon
  <2>4. FirstOption(e, ms) \in Options(e, ms)
    BY <2>1, <2>3 DEF Options
  <2> QED BY <1>2, <2>4
<1>4. CASE Others = {} /\ Options(e, ms) # {}
  <2>1. Visible(e, ms) # {}
    <3>1. PICK o : o \in Options(e, ms) /\ o \notin Others
      BY <1>4
    <3>2. \E i \in Visible(e, ms) : o = ms[i].name
      BY <3>1 DEF Options
    <3> QED BY <3>2
  <2>3. Visible(e, ms) \subseteq Nat
    <3>1. Visible(e, ms) \subseteq DOMAIN ms
      BY DEF Visible
    <3>2. 1 .. Len(ms) \subseteq Nat
      OBVIOUS
    <3> QED BY <1>1, <3>1, <3>2
  <2> DEFINE V == Visible(e, ms)
  <2> HIDE DEF V
  <2>2. Some(V) \in V
    BY <2>1, <2>3, SomeOf DEF V
  <2>4. FirstOption(e, ms) = ms[Some(V)].name
    BY <1>4 DEF FirstOption, V
  <2>5. \A i \in V : ms[i].name \in Options(e, ms)
    BY DEF Options, V
  <2> QED BY <1>2, <2>2, <2>4, <2>5
<1>5. CASE Options(e, ms) = {}
  BY <1>2, <1>5
<1> QED BY <1>3, <1>4, <1>5

\* A selection that is validated is offered; what is the same stays the same.
OfferedBy(e, ms, ch) ==
  \A f \in Features :
     IF Options(e, ms) = {} THEN ch[f] = NoModel ELSE ch[f] \in Options(e, ms)

LEMMA ValidatedOffered ==
  ASSUME NEW e \in Endpoints, NEW ms \in Models, NEW ch
  PROVE  /\ Validated(e, ms, ch) \in [Features -> Choosable \cup {NoModel}]
         /\ OfferedBy(e, ms, Validated(e, ms, ch))
         /\ ch["Apply"] = ch["Chat"] =>
              Validated(e, ms, ch)["Apply"] = Validated(e, ms, ch)["Chat"]
<1> DEFINE os == Options(e, ms)
           v == Validated(e, ms, ch)
<1>1. os \subseteq Choosable /\ (os # {} => FirstOption(e, ms) \in os)
  BY OptionsType
<1>2. v = [f \in Features |-> IF ch[f] \in os THEN ch[f]
                              ELSE IF os = {} THEN NoModel ELSE FirstOption(e, ms)]
  BY DEF Validated
<1> HIDE DEF v
<1>3. os = Options(e, ms)
  OBVIOUS
<1> HIDE DEF os
<1>4. \A f \in Features : v[f] = IF ch[f] \in os THEN ch[f]
                                 ELSE IF os = {} THEN NoModel ELSE FirstOption(e, ms)
  BY <1>2
<1>5. v \in [Features -> Choosable \cup {NoModel}]
  <2>1. \A f \in Features : v[f] \in Choosable \cup {NoModel}
    BY <1>1, <1>4
  <2> QED BY <1>2, <2>1
<1>6. OfferedBy(e, ms, v)
  BY <1>1, <1>3, <1>4 DEF OfferedBy
<1>7. ch["Apply"] = ch["Chat"] => v["Apply"] = v["Chat"]
  BY <1>4 DEF Features
<1> QED BY <1>5, <1>6, <1>7 DEF v

LEMMA FunctionIsSeq == ASSUME NEW S, NEW n \in Nat, NEW f \in [1 .. n -> S] PROVE f \in Seq(S)
  OBVIOUS

LEMMA ModelOf ==
  ASSUME NEW n \in Names, NEW x, NEW S
  PROVE  [name |-> n, hidden |-> x \in S] \in Model
<1>1. CASE x \in S
  <2>1. (x \in S) = TRUE
    BY <1>1
  <2> QED BY <2>1 DEF Model
<1>2. CASE x \notin S
  <2>1. (x \in S) = FALSE
    BY <1>2
  <2> QED BY <2>1 DEF Model
<1> QED BY <1>1, <1>2

LEMMA Bounds == MaxPending \in Nat /\ MaxChanges \in Nat
BY SettingsAssumption DEF SettingsAssumption

LEMMA SwappedType ==
  ASSUME NEW ms \in Models, NEW list \in SUBSET Names
  PROVE  Swapped(ms, list) \in Models
<1>1. IsFiniteSet(list)
  BY FS_Subset, SettingsAssumption DEF SettingsAssumption
<1> DEFINE new == SetToSeq(list)
<1>2. new \in Seq(list)
  BY <1>1, SetToSeqOf
<1>3. Swapped(ms, list) = [i \in DOMAIN new |-> [name |-> new[i],
                             hidden |-> [name |-> new[i], hidden |-> TRUE] \in ToSet(ms)]]
  BY DEF Swapped
<1> HIDE DEF new
<1>4. DOMAIN new = 1 .. Len(new) /\ Len(new) \in Nat
  BY <1>2, LenProperties
<1>5. \A i \in DOMAIN new : new[i] \in Names
  BY <1>2, <1>4, ElementOfSeq
<1> DEFINE swapped == Swapped(ms, list)
           M(i) == [name |-> new[i], hidden |-> [name |-> new[i], hidden |-> TRUE] \in ToSet(ms)]
<1>7. swapped = [i \in DOMAIN new |-> M(i)]
  BY <1>3
<1>8. \A i \in DOMAIN new : M(i) \in Model
  BY <1>5, ModelOf
<1> HIDE DEF M, swapped
<1>9. swapped \in [1 .. Len(new) -> Model]
  BY <1>4, <1>7, <1>8
<1>10. swapped \in Seq(Model)
  BY <1>4, <1>9, FunctionIsSeq
<1>11. Models = Seq(Model)
  BY DEF Models, Model
<1> QED BY <1>10, <1>11 DEF swapped

-----------------------------------------------------------------------------
\* The parts of the type invariant

SettingsOK ==
  /\ auto \in BOOLEAN /\ sync \in BOOLEAN /\ endpoint \in Endpoints
  /\ models \in Models
  /\ chosen \in [Features -> Choosable \cup {NoModel}]
PollingOK ==
  /\ poll \in [Slots -> Polls]
  /\ recorded \in {0} \cup {p \in Slots : poll[p] = Timer}
  /\ shown \in {"init", "refreshing", "finished", "error"}
PendingOK == pending \in Seq(Hooks) /\ Len(pending) <= MaxPending
RestOK ==
  /\ watched \in Endpoints \cup {Unwatched}
  /\ served \in [Endpoints -> {Down} \cup SUBSET Names]
  /\ steady \in BOOLEAN /\ changes \in 0 .. MaxChanges

LEMMA TypeParts == TypeOK <=> SettingsOK /\ PollingOK /\ PendingOK /\ RestOK
BY DEF TypeOK, SettingsOK, PollingOK, PendingOK, RestOK, Choosable

LEMMA PollKinds ==
  /\ Idle \in Polls /\ Timer \in Polls /\ Timer # Idle /\ Timer.at = "timer"
  /\ \A m \in BOOLEAN, e \in Endpoints : [at |-> "asked", manual |-> m, endpoint |-> e] \in Polls
  /\ \A m \in BOOLEAN, l \in {Down} \cup SUBSET Names :
       [at |-> "answered", manual |-> m, list |-> l] \in Polls
  /\ \A q \in Polls : q.at = "asked" => q.manual \in BOOLEAN /\ q.endpoint \in Endpoints
  /\ \A q \in Polls : q.at = "answered" => q.manual \in BOOLEAN /\ q.list \in {Down} \cup SUBSET Names
<1>1. Idle \in Polls /\ Timer \in Polls
  BY DEF Polls
<1>2. Timer.at = "timer" /\ Idle.at = "idle" /\ Timer # Idle
  BY DEF Timer, Idle
<1>3. \A m \in BOOLEAN, e \in Endpoints : [at |-> "asked", manual |-> m, endpoint |-> e] \in Polls
  BY DEF Polls
<1>4. \A m \in BOOLEAN, l \in {Down} \cup SUBSET Names :
        [at |-> "answered", manual |-> m, list |-> l] \in Polls
  BY DEF Polls
<1>5. \A q \in Polls : q.at = "asked" => q.manual \in BOOLEAN /\ q.endpoint \in Endpoints
  BY <1>2 DEF Polls
<1>6. \A q \in Polls : q.at = "answered" => q.manual \in BOOLEAN /\ q.list \in {Down} \cup SUBSET Names
  BY <1>2 DEF Polls
<1> QED BY <1>1, <1>2, <1>3, <1>4, <1>5, <1>6

LEMMA ClearedType == ASSUME PollingOK PROVE Cleared \in [Slots -> Polls]
BY PollKinds DEF PollingOK, Cleared

LEMMA StartType ==
  ASSUME PollingOK, endpoint \in Endpoints, NEW manual \in BOOLEAN, Start(manual)
  PROVE  PollingOK'
<1>1. Cleared \in [Slots -> Polls]
  BY ClearedType
<1>2. Asked(manual) \in Polls
  BY PollKinds DEF Asked
<1>3. poll' = [Cleared EXCEPT ![Some(Free(Cleared))] = Asked(manual)]
  BY DEF Start
<1>4. poll' \in [Slots -> Polls]
  BY <1>1, <1>2, <1>3
<1>5. recorded' = 0 /\ shown' \in {"init", "refreshing", "finished", "error"}
  BY DEF Start, PollingOK
<1> QED BY <1>4, <1>5 DEF PollingOK

\* The slot of a request that was answered is taken by the next timer, or free.
LEMMA ResumedType ==
  ASSUME PollingOK, NEW p \in Slots, poll[p].at = "answered", auto \in BOOLEAN,
         Resumed(p), shown' = ShownAfter(p)
  PROVE  PollingOK'
<1>1. poll' \in [Slots -> Polls]
  BY PollKinds DEF PollingOK, Resumed
<1>2. recorded # p
  BY PollKinds DEF PollingOK, Slots
<1>3. recorded' \in {0} \cup {q \in Slots : poll'[q] = Timer}
  BY <1>2 DEF PollingOK, Resumed
<1>4. shown' \in {"init", "refreshing", "finished", "error"}
  BY DEF PollingOK, ShownAfter
<1> QED BY <1>1, <1>3, <1>4 DEF PollingOK

LEMMA RespondType ==
  ASSUME PollingOK, RestOK, NEW p \in Slots, Respond(p)
  PROVE  PollingOK'
<1>1. poll[p] \in Polls /\ poll[p].at = "asked"
  BY DEF PollingOK, Respond
<1>2. poll[p].manual \in BOOLEAN /\ served[poll[p].endpoint] \in {Down} \cup SUBSET Names
  BY <1>1, PollKinds DEF RestOK
<1> DEFINE a == [at |-> "answered", manual |-> poll[p].manual, list |-> served[poll[p].endpoint]]
<1>3. a \in Polls
  BY <1>2, PollKinds
<1>4. poll' = [poll EXCEPT ![p] = a]
  BY DEF Respond
<1> HIDE DEF a
<1>5. poll' \in [Slots -> Polls]
  BY <1>3, <1>4 DEF PollingOK
<1>6. recorded # p
  BY <1>1, PollKinds DEF PollingOK, Slots
<1>7. recorded' = recorded /\ shown' = shown
  BY DEF Respond, polling
<1> QED BY <1>4, <1>5, <1>6, <1>7 DEF PollingOK

LEMMA FiresType ==
  ASSUME PollingOK, endpoint \in Endpoints, NEW p \in Slots, TimerFires(p)
  PROVE  PollingOK'
<1>1. Asked(FALSE) \in Polls
  BY PollKinds DEF Asked
<1>2. Cleared \in [Slots -> Polls] /\ poll' = [Cleared EXCEPT ![p] = Asked(FALSE)]
  BY ClearedType DEF TimerFires, Cleared
<1>3. recorded' = 0 /\ shown' = shown
  BY DEF TimerFires
<1> QED BY <1>1, <1>2, <1>3 DEF PollingOK

-----------------------------------------------------------------------------
\* The hooks that are pending

LEMMA AppendedHook ==
  ASSUME NEW s \in Seq(Hooks), NEW hook \in Hooks, NEW t, t = Append(s, hook)
  PROVE  /\ t \in Seq(Hooks) /\ Len(s) \in Nat /\ Len(t) = Len(s) + 1
         /\ ToSet(t) = ToSet(s) \cup {hook}
<1>1. ToSet(Append(s, hook)) = ToSet(s) \cup {hook}
  BY SetOfAppend
<1>2. Append(s, hook) \in Seq(Hooks) /\ Len(s) \in Nat /\ Len(Append(s, hook)) = Len(s) + 1
  OBVIOUS
<1> QED BY <1>1, <1>2, Zenon

LEMMA AnnounceType ==
  ASSUME PendingOK, NEW hook \in Hooks, Announce(hook)
  PROVE  PendingOK' /\ ToSet(pending') = ToSet(pending) \cup {hook}
<1>1. pending \in Seq(Hooks) /\ Len(pending) < MaxPending /\ pending' = Append(pending, hook)
  BY DEF PendingOK, Announce
<1>2. pending' \in Seq(Hooks) /\ Len(pending) \in Nat /\ Len(pending') = Len(pending) + 1
  BY <1>1, AppendedHook
<1>3. MaxPending \in Nat
  BY Bounds
<1>4. ToSet(pending') = ToSet(pending) \cup {hook}
  BY <1>1, AppendedHook
<1>5. PendingOK'
  BY <1>1, <1>2, <1>3 DEF PendingOK
<1> QED BY <1>4, <1>5

LEMMA CountedType ==
  ASSUME changes \in 0 .. MaxChanges, Counted
  PROVE  changes' \in 0 .. MaxChanges
<1>1. MaxChanges \in Nat
  BY Bounds
<1>2. changes \in Nat /\ changes < MaxChanges /\ changes' = changes + 1
  BY <1>1 DEF Counted
<1> QED BY <1>1, <1>2

-----------------------------------------------------------------------------
\* What the steps keep

Offered == OfferedBy(endpoint, models, chosen)
Same == SyncedIsSame

\* When a choice is validated against what is offered now, it is offered.
LEMMA ValidatedStep ==
  ASSUME endpoint' \in Endpoints, models' \in Models, NEW ch,
         chosen' = Validated(endpoint', models', ch)
  PROVE  /\ chosen' \in [Features -> Choosable \cup {NoModel}]
         /\ Offered'
         /\ ch["Apply"] = ch["Chat"] => chosen'["Apply"] = chosen'["Chat"]
BY ValidatedOffered DEF Offered

\* A change that announces nothing but itself keeps the selections in step.
LEMMA SameKept ==
  ASSUME Same, sync' = sync, ToSet(pending') \subseteq {"none"} => ToSet(pending) \subseteq {"none"},
         chosen["Apply"] = chosen["Chat"] => chosen'["Apply"] = chosen'["Chat"]
  PROVE  Same'
BY DEF Same, SyncedIsSame

IInv == TypeOK /\ Offered /\ Same

\* A change of the provider's settings
LEMMA ProviderStep ==
  ASSUME IInv, NEW e \in Endpoints, NEW ms \in Models,
         SetProvider(e, ms), Announce("none")
  PROVE  SettingsOK' /\ PendingOK' /\ Offered' /\ Same'
<1>1. SettingsOK /\ PendingOK /\ Same
  BY TypeParts DEF IInv
<1>2. /\ endpoint' = e /\ models' = ms /\ auto' = auto /\ sync' = sync
      /\ chosen' = Validated(endpoint', models', chosen)
  BY DEF SetProvider
<1>7. endpoint' \in Endpoints /\ models' \in Models
  BY <1>2
<1>3. /\ chosen' \in [Features -> Choosable \cup {NoModel}] /\ Offered'
      /\ chosen["Apply"] = chosen["Chat"] => chosen'["Apply"] = chosen'["Chat"]
  BY <1>2, <1>7, ValidatedStep
<1>4. PendingOK' /\ ToSet(pending') = ToSet(pending) \cup {"none"}
  BY <1>1, AnnounceType DEF Hooks
<1>5. SettingsOK'
  BY <1>1, <1>2, <1>3 DEF SettingsOK
<1>6. Same'
  BY <1>1, <1>2, <1>3, <1>4, SameKept
<1> QED BY <1>3, <1>4, <1>5, <1>6

LEMMA StoredStep ==
  ASSUME IInv, Stored
  PROVE  IInv'
<1>1. SettingsOK /\ PollingOK /\ PendingOK /\ RestOK /\ Offered /\ Same
  BY TypeParts DEF IInv
<1>2. pending # <<>> /\ pending \in Seq(Hooks) /\ Len(pending) \in Nat /\ MaxPending \in Nat
  BY <1>1, Bounds, LenProperties DEF Stored, PendingOK
<1> DEFINE rest == Tail(pending)
           hook == Head(pending)
<1>3. /\ rest \in Seq(Hooks) /\ hook \in Hooks /\ Len(rest) = Len(pending) - 1
      /\ ToSet(pending) = ToSet(rest) \cup {hook}
  BY <1>2, SetOfTail
<1>4. /\ UNCHANGED <<auto, sync, endpoint, models, served, steady, changes>>
      /\ watched' = IF watched = Unwatched THEN Unwatched ELSE endpoint
  BY DEF Stored
<1>5. PollingOK'
  <2>1. CASE JustEnabled
    BY <1>1, <2>1, StartType DEF Stored, SettingsOK
  <2>2. CASE ~JustEnabled
    BY <1>1, <2>2 DEF Stored, polling, PollingOK
  <2> QED BY <2>1, <2>2
<1>6. RestOK'
  BY <1>1, <1>4 DEF RestOK, SettingsOK
<1>7. SettingsOK' /\ PendingOK' /\ Offered' /\ Same'
  <2>1. CASE Synced(hook)
    <3> DEFINE ch == [chosen EXCEPT !["Apply"] = chosen["Chat"]]
    <3>1. chosen' = Validated(endpoint', models', ch) /\ pending' = Append(rest, "none")
      BY <1>4, <2>1 DEF Stored
    <3>2. ch["Apply"] = ch["Chat"]
      BY <1>1 DEF SettingsOK, Features
    <3>3. endpoint' \in Endpoints /\ models' \in Models
      BY <1>1, <1>4 DEF SettingsOK
    <3> HIDE DEF ch
    <3>4. chosen' \in [Features -> Choosable \cup {NoModel}] /\ Offered' /\ chosen'["Apply"] = chosen'["Chat"]
      BY <3>1, <3>2, <3>3, ValidatedStep
    <3>7. "none" \in Hooks
      BY DEF Hooks
    <3>5. pending' \in Seq(Hooks) /\ Len(pending') = Len(rest) + 1
      BY <1>3, <3>1, <3>7, AppendedHook
    <3>6. PendingOK'
      <4>1. Len(pending') = Len(pending) /\ Len(pending) <= MaxPending
        BY <1>1, <1>2, <1>3, <3>5 DEF PendingOK
      <4> QED BY <3>5, <4>1 DEF PendingOK
    <3> QED BY <1>1, <1>4, <3>4, <3>6 DEF SettingsOK, Same, SyncedIsSame
  <2>2. CASE ~Synced(hook)
    <3>1. chosen' = chosen /\ pending' = rest
      BY <2>2 DEF Stored
    <3>2. PendingOK'
      <4>1. Len(pending') <= MaxPending
        BY <1>1, <1>2, <1>3, <3>1 DEF PendingOK
      <4> QED BY <1>3, <3>1, <4>1 DEF PendingOK
    <3>3. hook = "none" \/ (hook = "toggled" /\ ~sync)
      BY <1>1, <1>3, <2>2 DEF Synced, Hooks, SettingsOK
    <3>4. Same'
      <4>1. CASE hook = "none"
        BY <1>1, <1>3, <1>4, <3>1, <4>1, SameKept
      <4>2. CASE ~sync
        BY <1>4, <4>2 DEF Same, SyncedIsSame
      <4> QED BY <3>3, <4>1, <4>2
    <3>5. SettingsOK' /\ Offered'
      BY <1>1, <1>4, <3>1 DEF SettingsOK, Offered
    <3> QED BY <3>2, <3>4, <3>5
  <2> QED BY <2>1, <2>2
<1>8. TypeOK'
  <2>1. (SettingsOK /\ PollingOK /\ PendingOK /\ RestOK)'
    BY <1>5, <1>6, <1>7
  <2> QED BY <2>1, TypeParts, PTL
<1> QED BY <1>7, <1>8 DEF IInv

\* The steps of the polling
LEMMA PollStepKept ==
  ASSUME IInv, NEW p \in Slots, PollStep(p)
  PROVE  IInv'
<1>1. SettingsOK /\ PollingOK /\ PendingOK /\ RestOK /\ Offered /\ Same
  BY TypeParts DEF IInv
<1>2. endpoint \in Endpoints /\ models \in Models /\ auto \in BOOLEAN
  BY <1>1 DEF SettingsOK
<1>3. CASE Success(p)
  <2>1. poll[p].at = "answered" /\ poll[p] \in Polls /\ poll[p].list # Down
    BY <1>1, <1>3 DEF Success, PollingOK
  <2>2. poll[p].list \in SUBSET Names
    BY <2>1, PollKinds
  <2>3. Swapped(models, poll[p].list) \in Models
    BY <1>2, <2>2, SwappedType
  <2>4. SettingsOK' /\ PendingOK' /\ Offered' /\ Same'
    BY <1>2, <1>3, <2>3, ProviderStep DEF Success
  <2>5. PollingOK'
    BY <1>1, <1>2, <1>3, <2>1, ResumedType DEF Success
  <2>6. RestOK'
    BY <1>1, <1>3 DEF Success, RestOK
  <2>7. TypeOK'
    <3>1. (SettingsOK /\ PollingOK /\ PendingOK /\ RestOK)'
      BY <2>4, <2>5, <2>6
    <3> QED BY <3>1, TypeParts, PTL
  <2> QED BY <2>4, <2>7 DEF IInv
<1>4. CASE Respond(p) \/ Error(p) \/ TimerFires(p)
  <2>1. UNCHANGED <<settings, pending, watched, served, steady, changes>>
    BY <1>4 DEF Respond, Error, TimerFires
  <2>2. PollingOK'
    <3>1. CASE Respond(p)
      BY <1>1, <3>1, RespondType
    <3>2. CASE Error(p)
      BY <1>1, <1>2, <3>2, ResumedType DEF Error
    <3>3. CASE TimerFires(p)
      BY <1>1, <1>2, <3>3, FiresType
    <3> QED BY <1>4, <3>1, <3>2, <3>3
  <2>3. SettingsOK' /\ PendingOK' /\ Offered' /\ Same' /\ RestOK'
    BY <1>1, <2>1 DEF settings, SettingsOK, PendingOK, RestOK, Offered, Same, SyncedIsSame
  <2>4. TypeOK'
    <3>1. (SettingsOK /\ PollingOK /\ PendingOK /\ RestOK)'
      BY <2>2, <2>3
    <3> QED BY <3>1, TypeParts, PTL
  <2> QED BY <2>3, <2>4 DEF IInv
<1> QED BY <1>3, <1>4 DEF PollStep, Success, Respond, Error, TimerFires

\* What the user does to the settings
LEMMA UserStepKept ==
  ASSUME IInv,
         \/ ToggleAutoRefresh \/ ToggleSync
         \/ \E f \in Features, m \in Names \cup Others : Choose(f, m)
         \/ \E i \in DOMAIN models : ToggleHidden(i)
         \/ \E e \in Endpoints : EnterEndpoint(e)
  PROVE  IInv'
<1>1. SettingsOK /\ PollingOK /\ PendingOK /\ RestOK /\ Offered /\ Same
  BY TypeParts DEF IInv
<1>2. endpoint \in Endpoints /\ models \in Models /\ auto \in BOOLEAN /\ sync \in BOOLEAN
  BY <1>1 DEF SettingsOK
<1>3. UNCHANGED <<polling, watched, served>> /\ Counted
  BY DEF ToggleAutoRefresh, ToggleSync, Choose, ToggleHidden, EnterEndpoint
<1>4. steady' = steady \/ steady' = FALSE
  BY DEF ToggleAutoRefresh, ToggleSync, Choose, ToggleHidden, EnterEndpoint
<1>5. changes \in 0 .. MaxChanges
  BY <1>1 DEF RestOK
<1>6. changes' \in 0 .. MaxChanges
  BY <1>3, <1>5, CountedType
<1>7. PollingOK' /\ RestOK'
  BY <1>1, <1>3, <1>4, <1>6 DEF PollingOK, RestOK, polling
<1>8. SettingsOK' /\ PendingOK' /\ Offered' /\ Same'
  <2>1. CASE ToggleAutoRefresh \/ ToggleSync
    <3>1. /\ Announce("toggled") /\ auto' \in BOOLEAN /\ sync' \in BOOLEAN
          /\ UNCHANGED <<endpoint, models, chosen>>
      BY <1>2, <2>1 DEF ToggleAutoRefresh, ToggleSync
    <3>2. "toggled" \in Hooks /\ "toggled" \notin {"none"}
      BY DEF Hooks
    <3>3. PendingOK' /\ ToSet(pending') = ToSet(pending) \cup {"toggled"}
      BY <1>1, <3>1, <3>2, AnnounceType
    <3>4. SettingsOK' /\ Offered'
      BY <1>1, <3>1 DEF SettingsOK, Offered
    <3>5. ~(ToSet(pending') \subseteq {"none"})
      BY <3>2, <3>3
    <3> QED BY <3>3, <3>4, <3>5 DEF Same, SyncedIsSame
  <2>2. ASSUME NEW f \in Features, NEW m \in Names \cup Others, Choose(f, m)
        PROVE  SettingsOK' /\ PendingOK' /\ Offered' /\ Same'
    <3> DEFINE hook == IF f = "Chat" THEN "sync" ELSE "none"
    <3>1. /\ chosen' = Validated(endpoint', models', [chosen EXCEPT ![f] = m])
          /\ UNCHANGED <<auto, sync, endpoint, models>> /\ Announce(hook)
          /\ (f = "Apply" => ~sync)
      BY <2>2 DEF Choose
    <3>2. hook \in Hooks /\ (hook = "sync" \/ f = "Apply")
      BY DEF Hooks, Features
    <3> HIDE DEF hook
    <3>3. PendingOK' /\ ToSet(pending') = ToSet(pending) \cup {hook}
      BY <1>1, <3>1, <3>2, AnnounceType
    <3>4. endpoint' \in Endpoints /\ models' \in Models
      BY <1>2, <3>1
    <3>5. chosen' \in [Features -> Choosable \cup {NoModel}] /\ Offered'
      BY <3>1, <3>4, ValidatedStep
    <3>6. SettingsOK'
      BY <1>1, <3>1, <3>5 DEF SettingsOK
    <3>7. Same'
      <4>1. CASE hook = "sync"
        BY <3>3, <4>1 DEF Same, SyncedIsSame
      <4>2. CASE f = "Apply"
        BY <3>1, <4>2 DEF Same, SyncedIsSame
      <4> QED BY <3>2, <4>1, <4>2
    <3> QED BY <3>3, <3>5, <3>6, <3>7
  <2>3. ASSUME NEW i \in DOMAIN models, ToggleHidden(i)
        PROVE  SettingsOK' /\ PendingOK' /\ Offered' /\ Same'
    <3> DEFINE ms == [models EXCEPT ![i].hidden = ~@]
    <3>1. SetProvider(endpoint, ms) /\ Announce("none")
      BY <2>3 DEF ToggleHidden
    <3>2. ms \in Models
      <4>1. DOMAIN models = 1 .. Len(models) /\ Len(models) \in Nat
            /\ \A j \in DOMAIN models : models[j] \in Model
        BY <1>2, ModelsElements
      <4>2. [models[i] EXCEPT !.hidden = ~@] \in Model
        BY <4>1 DEF Model
      <4>3. ms = [models EXCEPT ![i] = [models[i] EXCEPT !.hidden = ~@]]
        OBVIOUS
      <4>4. models \in [1 .. Len(models) -> Model]
        BY <1>2, <4>1 DEF Models, Model
      <4>5. ms \in [1 .. Len(models) -> Model]
        BY <4>1, <4>2, <4>3, <4>4
      <4> HIDE DEF ms
      <4>6. ms \in Seq(Model)
        BY <4>1, <4>5, FunctionIsSeq
      <4> QED BY <4>6 DEF Models, Model
    <3> HIDE DEF ms
    <3> QED BY <1>2, <3>1, <3>2, ProviderStep
  <2>4. ASSUME NEW e \in Endpoints, EnterEndpoint(e)
        PROVE  SettingsOK' /\ PendingOK' /\ Offered' /\ Same'
    BY <1>2, <2>4, ProviderStep DEF EnterEndpoint
  <2> QED BY <2>1, <2>2, <2>3, <2>4
<1>9. TypeOK'
  <2>1. (SettingsOK /\ PollingOK /\ PendingOK /\ RestOK)'
    BY <1>7, <1>8
  <2> QED BY <2>1, TypeParts, PTL
<1> QED BY <1>8, <1>9 DEF IInv

LEMMA FirstType ==
  ASSUME endpoint \in Endpoints
  PROVE  FirstPolls \in [Slots -> Polls] /\ FirstWatched \in Endpoints \cup {Unwatched}
<1>1. Asked(FALSE) \in Polls /\ Idle \in Polls
  BY PollKinds DEF Asked
<1> QED BY <1>1 DEF FirstPolls, FirstWatched

\* A refresh, a window that is opened again, and what the servers do
LEMMA OtherStepKept ==
  ASSUME IInv,
         \/ Refresh \/ Reopen
         \/ \E e \in Endpoints, list \in {Down} \cup SUBSET Names : Serve(e, list)
  PROVE  IInv'
<1>1. SettingsOK /\ PollingOK /\ PendingOK /\ RestOK /\ Offered /\ Same
  BY TypeParts DEF IInv
<1>2. endpoint \in Endpoints /\ models \in Models /\ auto \in BOOLEAN
  BY <1>1 DEF SettingsOK
<1>3. Counted /\ changes \in 0 .. MaxChanges
  BY <1>1 DEF Refresh, Reopen, Serve, RestOK
<1>4. changes' \in 0 .. MaxChanges
  BY <1>3, CountedType
<1>5. SettingsOK' /\ PollingOK' /\ PendingOK' /\ RestOK' /\ Offered' /\ Same'
  <2>1. CASE Refresh
    <3>1. Start(TRUE) /\ UNCHANGED <<settings, pending, watched, served, steady>>
      BY <2>1 DEF Refresh
    <3>2. PollingOK'
      BY <1>1, <1>2, <3>1, StartType
    <3> QED BY <1>1, <1>4, <3>1, <3>2
            DEF settings, SettingsOK, PendingOK, RestOK, Offered, Same, SyncedIsSame
  <2>2. CASE Reopen
    <3>1. /\ poll' = FirstPolls /\ recorded' = 0 /\ shown' = "init" /\ watched' = FirstWatched
          /\ steady' = auto /\ chosen' = Validated(endpoint', models', chosen)
          /\ UNCHANGED <<auto, sync, endpoint, models, pending, served>>
      BY <2>2 DEF Reopen
    <3>2. endpoint' \in Endpoints /\ models' \in Models
      BY <1>2, <3>1
    <3>3. /\ chosen' \in [Features -> Choosable \cup {NoModel}] /\ Offered'
          /\ chosen["Apply"] = chosen["Chat"] => chosen'["Apply"] = chosen'["Chat"]
      BY <3>1, <3>2, ValidatedStep
    <3>4. Same'
      BY <1>1, <3>1, <3>3, SameKept
    <3>5. PollingOK'
      BY <1>2, <3>1, FirstType DEF PollingOK
    <3>6. RestOK'
      BY <1>1, <1>2, <1>4, <3>1, FirstType DEF RestOK
    <3>7. SettingsOK' /\ PendingOK'
      BY <1>1, <3>1, <3>3 DEF SettingsOK, PendingOK
    <3> QED BY <3>3, <3>4, <3>5, <3>6, <3>7
  <2>3. ASSUME NEW e \in Endpoints, NEW list \in {Down} \cup SUBSET Names, Serve(e, list)
        PROVE  SettingsOK' /\ PollingOK' /\ PendingOK' /\ RestOK' /\ Offered' /\ Same'
    <3>1. /\ served' = [served EXCEPT ![e] = list]
          /\ UNCHANGED <<settings, pending, polling, watched, steady>>
      BY <2>3 DEF Serve
    <3>2. RestOK'
      BY <1>1, <1>4, <3>1 DEF RestOK
    <3> QED BY <1>1, <3>1, <3>2
            DEF settings, polling, SettingsOK, PollingOK, PendingOK, Offered, Same, SyncedIsSame
  <2> QED BY <2>1, <2>2, <2>3
<1>6. TypeOK'
  <2>1. (SettingsOK /\ PollingOK /\ PendingOK /\ RestOK)'
    BY <1>5
  <2> QED BY <2>1, TypeParts, PTL
<1> QED BY <1>5, <1>6 DEF IInv

-----------------------------------------------------------------------------
\* The theorems

LEMMA InitHolds == Init => IInv
<1> SUFFICES ASSUME Init PROVE IInv
  OBVIOUS
<1>1. /\ auto \in BOOLEAN /\ sync = TRUE /\ endpoint \in Endpoints /\ models = <<>> /\ pending = <<>>
      /\ poll = FirstPolls /\ recorded = 0 /\ shown = "init" /\ watched = FirstWatched
      /\ steady = auto /\ changes = 0
      /\ chosen = Validated(endpoint, models, [f \in Features |-> NoModel])
  BY DEF Init
<1>2. models \in Models
  BY <1>1 DEF Models
<1>3. /\ chosen \in [Features -> Choosable \cup {NoModel}]
      /\ Offered /\ chosen["Apply"] = chosen["Chat"]
  <2> DEFINE ch == [f \in Features |-> NoModel]
  <2>1. ch["Apply"] = ch["Chat"]
    BY DEF Features
  <2> HIDE DEF ch
  <2>2. chosen = Validated(endpoint, models, ch)
    BY <1>1 DEF ch
  <2> QED BY <1>1, <1>2, <2>1, <2>2, ValidatedOffered DEF Offered
<1>4. SettingsOK
  BY <1>1, <1>2, <1>3 DEF SettingsOK
<1>5. PollingOK
  BY <1>1, FirstType DEF PollingOK
<1>6. PendingOK
  <2>1. pending \in Seq(Hooks) /\ Len(pending) = 0
    BY <1>1
  <2>2. 0 <= MaxPending
    BY Bounds
  <2> QED BY <2>1, <2>2 DEF PendingOK
<1>7. served \in [Endpoints -> {Down} \cup SUBSET Names]
  BY DEF Init
<1>8. RestOK
  <2>1. 0 \in 0 .. MaxChanges
    BY Bounds
  <2> QED BY <1>1, <1>7, <2>1, FirstType DEF RestOK
<1> QED BY <1>3, <1>4, <1>5, <1>6, <1>8, TypeParts DEF IInv, Same, SyncedIsSame

LEMMA NextKeeps == IInv /\ [Next]_vars => IInv'
<1>1. IInv /\ UNCHANGED vars => IInv'
  BY DEF vars, settings, polling, IInv, TypeOK, Offered, Same, SyncedIsSame
<1>2. IInv /\ Next => IInv'
  BY PollStepKept, StoredStep, UserStepKept, OtherStepKept DEF Next
<1> QED BY <1>1, <1>2

LEMMA Invariance == Spec => []IInv
BY InitHolds, NextKeeps, PTL DEF Spec

\* Of any models, addresses, requests, timers and changes that are being stored,
\* the types.
THEOREM TypeCorrect == Spec => []TypeOK
<1>1. IInv => TypeOK
  BY DEF IInv
<1> QED BY <1>1, Invariance, PTL

\* What is chosen for each feature is offered, whatever the late answers of the
\* polling did to the models (_validatedModelState runs at every change).
THEOREM ChosenAlwaysOffered == Spec => []ChosenIsOffered
<1>1. IInv => ChosenIsOffered
  BY DEF IInv, Offered, OfferedBy, ChosenIsOffered
<1> QED BY <1>1, Invariance, PTL

\* Once everything is stored, Apply has the model of the chat if the two are
\* synchronised: no order of changes, hooks and polls separates them.
THEOREM SyncedAlwaysSame == Spec => []SyncedIsSame
<1>1. IInv => SyncedIsSame
  BY DEF IInv, Same
<1> QED BY <1>1, Invariance, PTL
=============================================================================
