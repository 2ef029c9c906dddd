--------------------------- MODULE TerminalsProofs ---------------------------
(***************************************************************************)
(* Proofs about Terminals: types and HiddenReaped whatever users and the   *)
(* workbench do, and LiveIsListed in the calm case.                        *)
(***************************************************************************)
EXTENDS Terminals, FiniteSetTheorems, TLAPS

-----------------------------------------------------------------------------
(* The invariant: what a call of each kind knows at each of its awaits.    *)

RunOK(c) ==
    /\ call[c].at \in {"creating"} \cup Running \cup Over
    /\ call[c].at \in {"creating", "preparing", "sending"} => shell[c] = <<>> /\ call[c].out = "none"
    /\ call[c].at \in Running => /\ call[c].term = c /\ state[c] # "none"
                                 /\ c \in temporary \/ state[c] \in Gone
    /\ call[c].at \in Over => state[c] \in Gone /\ c \notin temporary

OpenOK(c) ==
    /\ call[c].at \in {"creating", "settled"} /\ call[c].id \in Ids
    /\ call[c].at = "settled" => state[c] # "none"

\* t is a terminal whose opening returned i
Opened(t, i) == t \in Calls /\ IsPersistent(t) /\ call[t].at = "settled" /\ call[t].id = i

RunInOK(c) ==
    /\ call[c].at \in Running \cup Over /\ call[c].id \in Ids
    /\ Opened(call[c].term, call[c].id)

CallOK(c) ==
    /\ call[c].op = "none" <=> call[c].at = "idle"
    /\ call[c].at \in {"idle", "creating"} =>
          state[c] = "none" /\ shell[c] = <<>> /\ c \notin temporary /\ call[c].out = "none"
    /\ call[c].op \in {"none", "open"} => call[c].term = None
    /\ call[c].op = "run" => RunOK(c)
    /\ call[c].op = "open" => OpenOK(c)
    /\ call[c].op = "runIn" => RunInOK(c)
    /\ c \in temporary => call[c].op = "run"

ListedOK == \A i \in Ids : listed[i] # None => Opened(listed[i], i)

CallsOK == \A c \in Calls : CallOK(c)

IInv == TypeOK /\ CallsOK /\ ListedOK

-----------------------------------------------------------------------------
(* What steps have in common.                                              *)

\* Openings that returned do not change.
OpenedKept == \A t \in Calls : IsPersistent(t) /\ call[t].at = "settled" => call'[t] = call[t]

\* What may happen to a terminal and its commands without its call taking a step.
TerminalKept(c) ==
    /\ state[c] = "none" <=> state'[c] = "none"
    /\ state[c] \in Gone => state'[c] \in Gone
    /\ call[c].at \in {"idle", "creating"} => shell'[c] = shell[c]
    /\ call[c].op = "run" /\ call[c].at \in {"preparing", "sending"} => shell'[c] = shell[c]
    /\ c \in temporary' => c \in temporary
    /\ c \in temporary => c \in temporary' \/ state'[c] \in Gone

\* A call that takes no step and whose terminal is kept stays as it should be.
LEMMA Frame ==
    ASSUME NEW c \in Calls, CallOK(c), OpenedKept, call'[c] = call[c], TerminalKept(c)
    PROVE  CallOK(c)'
<1>1. call[c].op = "run" /\ RunOK(c) => RunOK(c)'
  BY DEF RunOK, TerminalKept, Running, Over, Gone
<1>2. OpenOK(c) => OpenOK(c)'
  BY DEF OpenOK, TerminalKept
<1>3. RunInOK(c) => RunInOK(c)'
  BY DEF RunInOK, Opened, IsPersistent, OpenedKept
<1>4. QED
  BY <1>1, <1>2, <1>3 DEF CallOK, TerminalKept

\* Terminals that were opened stay where they are listed.
LEMMA ListedFrame ==
    ASSUME ListedOK, OpenedKept, \A i \in Ids : listed'[i] \in {listed[i], None}
    PROVE  ListedOK'
BY DEF ListedOK, Opened, IsPersistent, OpenedKept

\* Disposing keeps the type of the terminals, creates none and revives none.
LEMMA DisposesKeeps ==
    ASSUME TypeOK, NEW T \in SUBSET Calls, Disposes(T)
    PROVE  /\ state' \in [Calls -> Live \cup Gone \cup {"none"}]
           /\ \A t \in Calls : /\ state[t] = "none" <=> state'[t] = "none"
                               /\ state[t] \in Gone => state'[t] \in Gone
                               /\ t \in T /\ state[t] # "none" => state'[t] \in Gone
                               /\ t \notin T => state'[t] = state[t]
           /\ exiting' \subseteq {t \in Calls : state'[t] \in Gone}
<1>1. \A t \in Calls : state[t] \in Live \cup Gone \cup {"none"}
  BY DEF TypeOK
<1>2. \A t \in Calls : state'[t] = IF t \notin T \/ state[t] \notin Live THEN state[t]
                                  ELSE IF state[t] \in BecameReady THEN "closed" ELSE "aborted"
  BY DEF Disposes
<1>3. \A t \in Calls : /\ state[t] = "none" <=> state'[t] = "none"
                       /\ state[t] \in Gone => state'[t] \in Gone
                       /\ t \in T /\ state[t] # "none" => state'[t] \in Gone
                       /\ t \notin T => state'[t] = state[t]
                       /\ state'[t] \in Live \cup Gone \cup {"none"}
  BY <1>1, <1>2 DEF Live, Gone
<1>4. state' \in [Calls -> Live \cup Gone \cup {"none"}]
  BY <1>3 DEF Disposes
<1>5. exiting' \subseteq {t \in Calls : state'[t] \in Gone}
  <2>1. exiting' = exiting \cup {t \in T : IsPersistent(t) /\ state[t] \in Live}
    BY DEF Disposes
  <2>2. \A t \in exiting : t \in Calls /\ state[t] \in Gone
    BY DEF TypeOK
  <2>3. \A t \in Calls : state[t] \in Live => state[t] # "none"
    BY DEF Live
  <2>4. QED
    BY <1>3, <2>1, <2>2, <2>3
<1>6. QED
  BY <1>3, <1>4, <1>5

-----------------------------------------------------------------------------
(* The steps.                                                              *)

LEMMA InitOK == Init => IInv
<1> SUFFICES ASSUME Init PROVE IInv
  OBVIOUS
<1>1. Cardinality(Calls) \in Nat
  BY CallsAssumption, FS_CardinalityType
<1>2. Fresh \in CallType
  BY <1>1 DEF Fresh, CallType
<1>3. TypeOK
  BY <1>2 DEF Init, TypeOK
<1>4. CallsOK
  BY DEF Init, CallsOK, CallOK, Fresh
<1>5. ListedOK
  BY DEF Init, ListedOK
<1>6. QED
  BY <1>3, <1>4, <1>5 DEF IInv

\* Steps of a terminal's process alone.
LEMMA ProcessSteps ==
    ASSUME IInv, NEW t \in Calls, ProcessReady(t) \/ NeverReady(t) \/ ShellIntegrates(t)
    PROVE  IInv'
<1>1. PICK s \in {"ready", "stuck", "integrated"} : state' = [state EXCEPT ![t] = s]
  BY DEF ProcessReady, NeverReady, ShellIntegrates
<1>2. state[t] \in {"starting", "ready"}
  BY DEF ProcessReady, NeverReady, ShellIntegrates
<1>3. UNCHANGED <<exiting, listed, temporary, call, shell, printing>>
  BY DEF ProcessReady, NeverReady, ShellIntegrates
<1>4. TypeOK'
  <2>1. state' \in [Calls -> Live \cup Gone \cup {"none"}]
    BY <1>1 DEF IInv, TypeOK, Live
  <2>2. exiting' \subseteq {u \in Calls : state'[u] \in Gone}
    BY <1>1, <1>2, <1>3 DEF IInv, TypeOK, Gone
  <2>3. QED
    BY <2>1, <2>2, <1>3 DEF IInv, TypeOK
<1>5. \A c \in Calls : TerminalKept(c)
  BY <1>1, <1>2, <1>3 DEF TerminalKept, IInv, TypeOK, Gone
<1>6. CallsOK'
  BY <1>3, <1>5, Frame DEF IInv, CallsOK, OpenedKept
<1>7. ListedOK'
  BY <1>3 DEF IInv, ListedOK, Opened, IsPersistent
<1>8. QED
  BY <1>4, <1>6, <1>7 DEF IInv

\* Steps that dispose terminals and change no call: a user closes one, one is
\* killed, a run is stopped.
LEMMA DisposingSteps ==
    ASSUME IInv, NEW T \in SUBSET Calls, Disposes(T), UNCHANGED <<call, shell, printing>>,
           temporary' \subseteq temporary,
           \A c \in temporary \ temporary' : c \in T,
           listed' \in [Ids -> Calls \cup {None}], \A i \in Ids : listed'[i] \in {listed[i], None}
    PROVE  IInv'
<1>1. TypeOK
  BY DEF IInv
<1>2. OpenedKept
  BY DEF OpenedKept
<1>3. TypeOK'
  BY <1>1, DisposesKeeps DEF TypeOK
<1>4. ASSUME NEW c \in Calls
      PROVE  CallOK(c)'
  <2>1. CallOK(c)
    BY DEF IInv, CallsOK
  <2>2. c \in temporary => state[c] # "none" \/ call[c].at = "creating"
    BY <2>1 DEF CallOK, RunOK, Running, Over, Gone
  <2>3. c \in temporary => c \in temporary' \/ state'[c] \in Gone \/ call[c].at = "creating"
    BY <1>1, <2>2, DisposesKeeps
  <2>4. call[c].at # "creating" \/ c \notin temporary
    BY <2>1 DEF CallOK
  <2>5. QED
    BY <1>1, <1>2, <2>1, <2>3, <2>4, DisposesKeeps, Frame DEF TerminalKept
<1>5. ListedOK'
  BY <1>2, ListedFrame DEF IInv
<1>6. QED
  BY <1>3, <1>4, <1>5 DEF IInv, CallsOK

\* The exit of a terminal is told.
LEMMA OnExitStep == ASSUME IInv, NEW t \in Calls, OnExit(t) PROVE IInv'
<1>1. TypeOK'
  BY DEF IInv, TypeOK, OnExit
<1>2. \A c \in Calls : TerminalKept(c)
  BY DEF TerminalKept, OnExit
<1>3. OpenedKept /\ UNCHANGED call
  BY DEF OpenedKept, OnExit
<1>4. CallsOK'
  BY <1>2, <1>3, Frame DEF IInv, CallsOK
<1>5. \A i \in Ids : listed'[i] \in {listed[i], None}
  BY DEF OnExit
<1>6. ListedOK'
  BY <1>3, <1>5, ListedFrame DEF IInv
<1>7. QED
  BY <1>1, <1>4, <1>6 DEF IInv

\* A call that takes a step of its own and touches no terminal, none of the maps.
LEMMA CallSteps ==
    ASSUME IInv, NEW c \in Calls, NEW r \in CallType,
           call' = [call EXCEPT ![c] = r], UNCHANGED <<state, exiting, listed, temporary, printing>>,
           shell' \in [Calls -> Seq(Calls)],
           ~ Opened(c, call[c].id), CallOK(c)',
           \A d \in Calls \ {c} : /\ call[d].at \in {"idle", "creating"} => shell'[d] = shell[d]
                                  /\ call[d].op = "run" /\ call[d].at \in {"preparing", "sending"}
                                       => shell'[d] = shell[d]
    PROVE  IInv'
<1>1. TypeOK'
  BY DEF IInv, TypeOK
<1>2. /\ call'[c] = r
      /\ \A d \in Calls \ {c} : call'[d] = call[d]
  BY DEF IInv, TypeOK
<1>3. OpenedKept
  BY <1>2 DEF OpenedKept, Opened
<1>4. ASSUME NEW d \in Calls \ {c}
      PROVE  CallOK(d)'
  <2>1. CallOK(d)
    BY DEF IInv, CallsOK
  <2>2. TerminalKept(d)
    BY DEF TerminalKept
  <2>3. QED
    BY <1>2, <1>3, <2>1, <2>2, Frame
<1>5. ListedOK'
  BY <1>3, ListedFrame DEF IInv
<1>6. QED
  BY <1>1, <1>4, <1>5 DEF IInv, CallsOK

LEMMA IdsAreNumbers == Ids \subseteq 0 .. Cardinality(Calls)
BY CallsAssumption, FS_CardinalityType DEF Ids

LEMMA CreatePersistentStep ==
    ASSUME IInv, NEW c \in Calls, CreatePersistent(c) PROVE IInv'
<1>1. PICK i \in Ids :
         call' = [call EXCEPT ![c].op = "open", ![c].at = "creating", ![c].id = i]
  BY DEF CreatePersistent
<1> DEFINE r == [call[c] EXCEPT !.op = "open", !.at = "creating", !.id = i]
<1>2. call[c] \in CallType /\ call[c].at = "idle" /\ CallOK(c)
  BY DEF IInv, TypeOK, CallsOK, CreatePersistent
<1>3. r \in CallType
  BY <1>2, IdsAreNumbers DEF CallType
<1>4. call' = [call EXCEPT ![c] = r]
  BY <1>1 DEF IInv, TypeOK
<1>5. call'[c] = r /\ UNCHANGED <<state, exiting, listed, temporary, shell, printing>>
  BY <1>4 DEF IInv, TypeOK, CreatePersistent
<1>6. /\ r.op = "open" /\ r.at = "creating" /\ r.id = i /\ r.term = call[c].term
      /\ r.out = call[c].out
  BY <1>2 DEF CallType
<1>7. CallOK(c)'
  BY <1>2, <1>5, <1>6 DEF CallOK, OpenOK
<1>8. ~ Opened(c, call[c].id)
  BY <1>2 DEF Opened
<1>9. shell' \in [Calls -> Seq(Calls)]
  BY <1>5 DEF IInv, TypeOK
<1>10. QED
  BY <1>3, <1>4, <1>5, <1>7, <1>8, <1>9, CallSteps

LEMMA RunTemporaryStep ==
    ASSUME IInv, NEW c \in Calls, RunTemporary(c) PROVE IInv'
<1> DEFINE r == [call[c] EXCEPT !.op = "run", !.at = "creating"]
<1>1. call[c] \in CallType /\ call[c].at = "idle" /\ CallOK(c)
  BY DEF IInv, TypeOK, CallsOK, RunTemporary
<1>2. r \in CallType /\ r.op = "run" /\ r.at = "creating" /\ r.out = call[c].out
  BY <1>1 DEF CallType
<1>3. call' = [call EXCEPT ![c] = r] /\ UNCHANGED <<state, exiting, listed, temporary, shell, printing>>
  BY DEF RunTemporary, IInv, TypeOK
<1>4. call'[c] = r
  BY <1>3 DEF IInv, TypeOK
<1>5. CallOK(c)'
  BY <1>1, <1>2, <1>3, <1>4 DEF CallOK, RunOK, Running, Over
<1>6. ~ Opened(c, call[c].id)
  BY <1>1 DEF Opened
<1>7. shell' \in [Calls -> Seq(Calls)]
  BY <1>3 DEF IInv, TypeOK
<1>8. QED
  BY <1>2, <1>3, <1>5, <1>6, <1>7, CallSteps

LEMMA RunPersistentStep ==
    ASSUME IInv, NEW c \in Calls, NEW i \in Ids, RunPersistent(c, i) PROVE IInv'
<1> DEFINE r == [call[c] EXCEPT !.op = "runIn", !.at = "preparing", !.id = i, !.term = listed[i]]
<1>1. call[c] \in CallType /\ call[c].at = "idle" /\ CallOK(c)
  BY DEF IInv, TypeOK, CallsOK, RunPersistent
<1>2. listed[i] \in Calls /\ Opened(listed[i], i)
  BY DEF RunPersistent, IInv, TypeOK, ListedOK, Opened
<1>3. r \in CallType /\ r.op = "runIn" /\ r.at = "preparing" /\ r.id = i /\ r.term = listed[i]
  BY <1>1, <1>2, IdsAreNumbers DEF CallType, Running
<1>4. call' = [call EXCEPT ![c] = r] /\ UNCHANGED <<state, exiting, listed, temporary, shell, printing>>
  BY DEF RunPersistent, IInv, TypeOK
<1>5. call'[c] = r
  BY <1>4 DEF IInv, TypeOK
<1>6. listed[i] # c
  BY <1>1, <1>2 DEF Opened
<1>7. Opened(listed[i], i)'
  BY <1>2, <1>4, <1>6 DEF Opened, IsPersistent, IInv, TypeOK
<1>8. RunInOK(c)'
  BY <1>3, <1>4, <1>5, <1>7 DEF RunInOK, Opened, IsPersistent, Running
<1>9. CallOK(c)'
  BY <1>1, <1>3, <1>4, <1>5, <1>8 DEF CallOK
<1>10. ~ Opened(c, call[c].id)
  BY <1>1 DEF Opened
<1>11. shell' \in [Calls -> Seq(Calls)]
  BY <1>4 DEF IInv, TypeOK
<1>12. QED
  BY <1>3, <1>4, <1>9, <1>10, <1>11, CallSteps

\* A call that goes on keeps what it is and what it runs in.
LEMMA GoesOn ==
    ASSUME IInv, NEW c \in Calls, NEW r \in CallType, call' = [call EXCEPT ![c] = r],
           UNCHANGED <<state, exiting, listed, temporary, printing>>,
           r.op = call[c].op, r.term = call[c].term, r.id = call[c].id,
           call[c].at \in Running, r.at \in Running \cup Over,
           call[c].op = "run" =>
               IF r.at \in Over THEN c \notin temporary
               ELSE r.at = "waiting" \/ (r.out = call[c].out /\ UNCHANGED shell
                                         /\ call[c].at = "preparing" /\ r.at = "sending")
    PROVE  ~ Opened(c, call[c].id) /\ CallOK(c)'
<1>1. CallOK(c) /\ call[c] \in CallType
  BY DEF IInv, TypeOK, CallsOK
<1>2. call'[c] = r /\ \A d \in Calls \ {c} : call'[d] = call[d]
  BY DEF IInv, TypeOK
<1>3. call[c].op \in {"run", "runIn"}
  BY <1>1 DEF CallOK, OpenOK, Running, CallType
<1>4. ~ Opened(c, call[c].id)
  BY <1>3 DEF Opened, IsPersistent
<1>5. ASSUME call[c].op = "run" PROVE RunOK(c)'
  <2>1. RunOK(c)
    BY <1>1, <1>5 DEF CallOK
  <2>2. CASE r.at \in Over
    BY <1>2, <1>5, <2>1, <2>2 DEF RunOK, Running, Over
  <2>3. CASE r.at \in Running
    BY <1>2, <1>5, <2>1, <2>3 DEF RunOK, Running, Over
  <2>4. QED
    BY <2>2, <2>3
<1>6. ASSUME call[c].op = "runIn" PROVE RunInOK(c)'
  <2>1. RunInOK(c)
    BY <1>1, <1>6 DEF CallOK
  <2>2. call[c].term # c
    BY <1>6, <2>1 DEF RunInOK, Opened, IsPersistent
  <2>3. QED
    BY <1>2, <2>1, <2>2 DEF RunInOK, Opened, IsPersistent
<1>7. CallOK(c)'
  BY <1>1, <1>2, <1>3, <1>5, <1>6 DEF CallOK, Running, Over
<1>8. QED
  BY <1>4, <1>7

LEMMA CapabilityAwaitedStep ==
    ASSUME IInv, NEW c \in Calls, CapabilityAwaited(c) PROVE IInv'
<1> DEFINE r == [call[c] EXCEPT !.at = "sending", !.hears = state[call[c].term] = "integrated"]
<1>1. call[c] \in CallType /\ call[c].at = "preparing"
  BY DEF IInv, TypeOK, CapabilityAwaited
<1>2. /\ r \in CallType /\ r.op = call[c].op /\ r.term = call[c].term /\ r.id = call[c].id
      /\ r.at = "sending" /\ r.out = call[c].out
  BY <1>1 DEF CallType, Running
<1>3. call' = [call EXCEPT ![c] = r] /\ UNCHANGED <<state, exiting, listed, temporary, shell, printing>>
  BY DEF CapabilityAwaited, IInv, TypeOK
<1>4. ~ Opened(c, call[c].id) /\ CallOK(c)'
  BY <1>1, <1>2, <1>3, GoesOn DEF Running, Over
<1>5. shell' \in [Calls -> Seq(Calls)]
  BY <1>3 DEF IInv, TypeOK
<1>6. QED
  BY <1>2, <1>3, <1>4, <1>5, CallSteps

LEMMA SentTextStep ==
    ASSUME IInv, NEW c \in Calls, SentText(c) PROVE IInv'
<1> DEFINE t == call[c].term
           r == [call[c] EXCEPT !.at = IF call[c].out = "none" THEN "waiting" ELSE "settled"]
<1>1. call[c] \in CallType /\ call[c].at = "sending" /\ CallOK(c)
  BY DEF IInv, TypeOK, CallsOK, SentText
<1>2. /\ r \in CallType /\ r.op = call[c].op /\ r.term = call[c].term /\ r.id = call[c].id
      /\ r.at = IF call[c].out = "none" THEN "waiting" ELSE "settled"
  BY <1>1 DEF CallType, Running, Over
<1>3. call' = [call EXCEPT ![c] = r] /\ UNCHANGED <<state, exiting, listed, temporary, printing>>
  BY DEF SentText, IInv, TypeOK
<1>4. call[c].op = "run" => call[c].out = "none" /\ t = c
  BY <1>1 DEF CallOK, RunOK, Running
<1> HIDE DEF r
<1>5. ~ Opened(c, call[c].id) /\ CallOK(c)'
  <2>1. call[c].at \in Running /\ r.at \in Running \cup Over
    BY <1>1, <1>2 DEF Running, Over
  <2>2. call[c].op = "run" => r.at = "waiting" /\ r.at \notin Over
    BY <1>2, <1>4 DEF Over
  <2>3. QED
    BY <1>2, <1>3, <2>1, <2>2, GoesOn
<1>6. call[c].op \in {"run", "runIn"}
  BY <1>1 DEF CallOK, OpenOK, CallType
<1>7. call[c].op = "runIn" => Opened(t, call[c].id)
  BY <1>1 DEF CallOK, RunInOK
<1>8. shell' = shell \/ shell' = [shell EXCEPT ![t] = Append(@, c)]
  BY DEF SentText
<1>9. t \in Calls
  BY <1>4, <1>6, <1>7 DEF Opened
<1>10. Append(shell[t], c) \in Seq(Calls)
  BY <1>9 DEF IInv, TypeOK
<1>11. shell' \in [Calls -> Seq(Calls)]
  BY <1>8, <1>9, <1>10 DEF IInv, TypeOK
<1>12. ASSUME NEW d \in Calls \ {c},
              call[d].at \in {"idle", "creating"} \/ call[d].op = "run"
       PROVE  shell'[d] = shell[d]
  <2>1. d # t
    BY <1>4, <1>6, <1>7, <1>12 DEF Opened, IsPersistent
  <2>2. QED
    BY <1>8, <2>1 DEF IInv, TypeOK
<1>13. QED
  BY <1>2, <1>3, <1>5, <1>11, <1>12, CallSteps

\* A terminal is there: its creating call goes on, or returns.
LEMMA CreatedSteps ==
    ASSUME IInv, NEW c \in Calls, CreatedPersistent(c) \/ CreatedTemporary(c)
    PROVE  IInv'
<1>1. call[c] \in CallType /\ call[c].at = "creating" /\ CallOK(c)
  BY DEF IInv, TypeOK, CallsOK, CreatedPersistent, CreatedTemporary
<1>2. state[c] = "none" /\ c \notin temporary /\ c \notin exiting
  BY <1>1 DEF CallOK, IInv, TypeOK, Gone
<1>3. state' = [state EXCEPT ![c] = "starting"] /\ UNCHANGED <<exiting, shell, printing>>
  BY DEF CreatedPersistent, CreatedTemporary
<1>4. \A d \in Calls \ {c} : call'[d] = call[d] /\ state'[d] = state[d]
                             /\ (d \in temporary' <=> d \in temporary)
  BY DEF CreatedPersistent, CreatedTemporary, IInv, TypeOK
<1>5. OpenedKept
  BY <1>1, <1>4 DEF OpenedKept
<1>6. ASSUME NEW d \in Calls \ {c} PROVE CallOK(d)'
  <2>1. CallOK(d)
    BY DEF IInv, CallsOK
  <2>2. TerminalKept(d)
    BY <1>3, <1>4 DEF TerminalKept
  <2>3. QED
    BY <1>4, <1>5, <2>1, <2>2, Frame
<1>7. state'[c] = "starting"
  BY <1>3 DEF IInv, TypeOK
<1>8. /\ state' \in [Calls -> Live \cup Gone \cup {"none"}]
      /\ exiting' \subseteq {t \in Calls : state'[t] \in Gone}
  <2>1. \A t \in Calls : t \in exiting => t # c /\ state[t] \in Gone
    BY <1>2 DEF IInv, TypeOK
  <2>2. QED
    BY <1>3, <1>4, <2>1 DEF IInv, TypeOK, Live
<1>9. CASE CreatedPersistent(c)
  <2> DEFINE r == [call[c] EXCEPT !.at = "settled"]
  <2>1. call' = [call EXCEPT ![c] = r] /\ listed' = [listed EXCEPT ![call[c].id] = c]
        /\ UNCHANGED <<temporary, printing>>
    BY <1>9 DEF CreatedPersistent, IInv, TypeOK
  <2>2. r \in CallType /\ r.op = "open" /\ r.at = "settled" /\ r.id = call[c].id
        /\ r.term = call[c].term
    BY <1>1, <1>9 DEF CallType, Over, CreatedPersistent
  <2> HIDE DEF r
  <2>3. call'[c] = r /\ call' \in [Calls -> CallType]
    BY <2>1, <2>2 DEF IInv, TypeOK
  <2>4. call[c].id \in Ids /\ call[c].term = None
    BY <1>1, <1>9 DEF CallOK, OpenOK, CreatedPersistent
  <2>5. OpenOK(c)'
    BY <1>7, <2>2, <2>3, <2>4 DEF OpenOK
  <2>6. CallOK(c)'
    BY <1>2, <2>1, <2>2, <2>3, <2>4, <2>5 DEF CallOK
  <2>7. Opened(c, call[c].id)'
    BY <2>2, <2>3, <1>1, <1>9 DEF Opened, IsPersistent, CreatedPersistent
  <2>8. ListedOK'
    <3>1. call'[c].id = call[c].id
      BY <2>2, <2>3
    <3> SUFFICES ASSUME NEW i \in Ids, listed'[i] # None PROVE Opened(listed[i], i)'
      BY DEF ListedOK
    <3>2. CASE i = call[c].id
      <4>1. listed'[i] = c
        BY <2>1, <3>2 DEF IInv, TypeOK
      <4>2. QED
        BY <4>1, <2>2, <2>3, <3>1, <3>2 DEF Opened, IsPersistent
    <3>3. CASE i # call[c].id
      <4>1. listed'[i] = listed[i]
        BY <2>1, <3>3 DEF IInv, TypeOK
      <4>2. QED
        BY <4>1, <1>5 DEF Opened, IsPersistent, OpenedKept, IInv, ListedOK
    <3>4. QED
      BY <3>2, <3>3
  <2>9. listed' \in [Ids -> Calls \cup {None}]
    BY <2>1 DEF IInv, TypeOK
  <2>10. TypeOK'
    BY <1>3, <1>8, <2>1, <2>3, <2>9 DEF IInv, TypeOK
  <2>11. QED
    BY <1>6, <2>6, <2>8, <2>10 DEF IInv, CallsOK
<1>10. CASE CreatedTemporary(c)
  <2> DEFINE r == [call[c] EXCEPT !.at = "preparing", !.term = c]
  <2>1. call' = [call EXCEPT ![c] = r] /\ UNCHANGED <<listed, printing>>
        /\ temporary' = temporary \cup {c}
    BY <1>10 DEF CreatedTemporary, IInv, TypeOK
  <2>2. r \in CallType /\ r.op = "run" /\ r.at = "preparing" /\ r.term = c /\ r.out = call[c].out
    BY <1>1, <1>10 DEF CallType, Running, CreatedTemporary
  <2> HIDE DEF r
  <2>3. call'[c] = r /\ call' \in [Calls -> CallType]
    BY <2>1, <2>2 DEF IInv, TypeOK
  <2>4. shell[c] = <<>> /\ call[c].out = "none"
    BY <1>1 DEF CallOK
  <2>5. RunOK(c)'
    BY <1>3, <1>7, <2>1, <2>2, <2>3, <2>4 DEF RunOK, Running, Over
  <2>6. CallOK(c)'
    BY <2>2, <2>3, <2>5 DEF CallOK
  <2>7. ListedOK'
    BY <1>5, <2>1, ListedFrame DEF IInv
  <2>8. TypeOK'
    BY <1>3, <1>8, <2>1, <2>3 DEF IInv, TypeOK
  <2>9. QED
    BY <1>6, <2>6, <2>7, <2>8 DEF IInv, CallsOK
<1>11. QED
  BY <1>9, <1>10

\* A user closes a terminal, one is killed, a run is stopped.
LEMMA ClosedStep == ASSUME IInv, NEW t \in Calls, ClosedByUser(t) PROVE IInv'
BY DisposingSteps DEF ClosedByUser, IInv, TypeOK

LEMMA KillStep == ASSUME IInv, NEW i \in Ids, KillPersistent(i) PROVE IInv'
<1>1. listed[i] \in Calls
  BY DEF KillPersistent, IInv, TypeOK
<1>2. Disposes({listed[i]}) /\ {listed[i]} \in SUBSET Calls
  BY <1>1 DEF KillPersistent
<1>3. listed' \in [Ids -> Calls \cup {None}] /\ \A j \in Ids : listed'[j] \in {listed[j], None}
  BY DEF KillPersistent, IInv, TypeOK
<1>4. UNCHANGED <<temporary, call, shell, printing>>
  BY DEF KillPersistent
<1>5. QED
  BY <1>2, <1>3, <1>4, DisposingSteps

LEMMA InterruptStep == ASSUME IInv, NEW c \in Calls, Interrupt(c) PROVE IInv'
<1>1. CallOK(c) /\ call[c] \in CallType
  BY DEF IInv, TypeOK, CallsOK
<1>2. call[c].at \in Running \/ call[c].op = "runIn"
  BY DEF Interrupt
<1>3. call[c].op \in {"run", "runIn"}
  BY <1>1, <1>2 DEF CallOK, OpenOK, Running, CallType
<1>4. call[c].op = "run" => call[c].term = c
  BY <1>1, <1>2 DEF CallOK, RunOK
<1>5. call[c].op = "runIn" => call[c].term \in Calls /\ c \notin temporary
  BY <1>1 DEF CallOK, RunInOK, Opened
<1>6. {call[c].term} \in SUBSET Calls /\ Disposes({call[c].term})
  BY <1>3, <1>4, <1>5 DEF Interrupt
<1>7. temporary' \subseteq temporary /\ \A d \in temporary \ temporary' : d \in {call[c].term}
  BY <1>3, <1>4, <1>5 DEF Interrupt
<1>8. listed' \in [Ids -> Calls \cup {None}] /\ \A j \in Ids : listed'[j] \in {listed[j], None}
  BY DEF Interrupt, IInv, TypeOK
<1>9. UNCHANGED <<call, shell, printing>>
  BY DEF Interrupt
<1>10. QED
  BY <1>6, <1>7, <1>8, <1>9, DisposingSteps

LEMMA TimedOutStep == ASSUME IInv, NEW c \in Calls, TimedOut(c) PROVE IInv'
<1>1. call[c] \in CallType /\ call[c].at = "waiting" /\ CallOK(c)
  BY DEF IInv, TypeOK, CallsOK, TimedOut
<1>2. CASE ReadBy(c) = None
  <2> DEFINE r == [call[c] EXCEPT !.at = "failed"]
  <2>1. r \in CallType /\ r.op = call[c].op /\ r.term = call[c].term /\ r.id = call[c].id
        /\ r.at = "failed"
    BY <1>1 DEF CallType, Over
  <2>2. call' = [call EXCEPT ![c] = r] /\ UNCHANGED <<state, exiting, listed, temporary, shell, printing>>
    BY <1>2 DEF TimedOut, IInv, TypeOK
  <2>3. call[c].op = "run" => c \notin temporary
    BY <1>2, CallsAssumption DEF ReadBy
  <2> HIDE DEF r
  <2>4. ~ Opened(c, call[c].id) /\ CallOK(c)'
    BY <1>1, <2>1, <2>2, <2>3, GoesOn DEF Running, Over
  <2>5. shell' \in [Calls -> Seq(Calls)]
    BY <2>2 DEF IInv, TypeOK
  <2>6. QED
    BY <2>1, <2>2, <2>4, <2>5, CallSteps
<1>3. CASE ReadBy(c) # None
  <2> DEFINE o == IF ReadBy(c) = call[c].term THEN "screen" ELSE "other"
             r == [call[c] EXCEPT !.at = "settled", !.out = o]
             T == IF call[c].op = "run" THEN {c} ELSE {}
  <2>1. call' = [call EXCEPT ![c] = r] /\ UNCHANGED <<listed, shell, printing>>
        /\ Disposes(T) /\ temporary' = temporary \ {c}
    BY <1>3 DEF TimedOut, IInv, TypeOK
  <2>2. r \in CallType /\ r.op = call[c].op /\ r.term = call[c].term /\ r.id = call[c].id
        /\ r.at = "settled"
    BY <1>1 DEF CallType, Over
  <2>3. T \in SUBSET Calls /\ (call[c].op = "run" => c \in T) /\ \A d \in T : d = c
    OBVIOUS
  <2> HIDE DEF r, T
  <2>4. call'[c] = r /\ call' \in [Calls -> CallType] /\ \A d \in Calls \ {c} : call'[d] = call[d]
    BY <2>1, <2>2 DEF IInv, TypeOK
  <2>5. call[c].op \in {"run", "runIn"}
    BY <1>1 DEF CallOK, OpenOK, CallType
  <2>6. OpenedKept
    BY <2>4, <2>5 DEF OpenedKept, IsPersistent
  <2>7. TypeOK'
    BY <2>1, <2>3, <2>4, DisposesKeeps DEF IInv, TypeOK
  <2>8. ASSUME call[c].op = "run" PROVE CallOK(c)'
    <3>1. state[c] # "none"
      BY <1>1, <2>8 DEF CallOK, RunOK, Running
    <3>2. state'[c] \in Gone
      BY <2>1, <2>3, <2>8, <3>1, DisposesKeeps DEF IInv
    <3>3. QED
      BY <2>1, <2>2, <2>4, <2>8, <3>2 DEF CallOK, RunOK, Running, Over
  <2>9. ASSUME call[c].op = "runIn" PROVE CallOK(c)'
    <3>1. RunInOK(c)
      BY <1>1, <2>9 DEF CallOK
    <3>2. RunInOK(c)'
      BY <2>2, <2>4, <2>6, <3>1 DEF RunInOK, Opened, OpenedKept, IsPersistent, Over
    <3>3. QED
      BY <1>1, <2>1, <2>2, <2>4, <2>9, <3>2 DEF CallOK
  <2>10. ASSUME NEW d \in Calls \ {c} PROVE CallOK(d)'
    <3>1. CallOK(d)
      BY DEF IInv, CallsOK
    <3>2. TerminalKept(d)
      BY <2>1, <2>3, DisposesKeeps DEF TerminalKept, IInv
    <3>3. QED
      BY <2>4, <2>6, <3>1, <3>2, Frame
  <2>11. ListedOK'
    BY <2>1, <2>6, ListedFrame DEF IInv
  <2>12. QED
    BY <2>5, <2>7, <2>8, <2>9, <2>10, <2>11 DEF IInv, CallsOK
<1>4. QED
  BY <1>2, <1>3

LEMMA CommandFinishedStep == ASSUME IInv, NEW t \in Calls, CommandFinished(t) PROVE IInv'
<1> DEFINE heard == {c \in Calls : /\ call[c].term = t /\ call[c].hears
                                   /\ call[c].at \in {"sending", "waiting"}
                                   /\ call[c].out = "none"}
           done == {c \in heard : call[c].at = "waiting"}
           hidden == {c \in done : call[c].op = "run"}
           r(c) == [call[c] EXCEPT !.out = IF c = Head(shell[t]) THEN "own" ELSE "other",
                                   !.at = IF c \in done THEN "settled" ELSE @]
<1>1. /\ shell[t] # <<>> /\ shell' = [shell EXCEPT ![t] = Tail(@)]
      /\ call' = [c \in Calls |-> IF c \notin heard THEN call[c] ELSE r(c)]
      /\ Disposes(hidden) /\ temporary' = temporary \ hidden /\ UNCHANGED <<listed, printing>>
  BY DEF CommandFinished
<1>2. ASSUME NEW c \in Calls
      PROVE  /\ CallOK(c) /\ call[c] \in CallType
             /\ c \notin heard => call'[c] = call[c]
             /\ c \in heard => call'[c] = r(c)
  BY <1>1 DEF IInv, TypeOK, CallsOK
<1>3. ASSUME NEW c \in heard
      PROVE  /\ r(c) \in CallType /\ r(c).op = call[c].op /\ r(c).term = call[c].term
             /\ r(c).id = call[c].id
             /\ r(c).at = IF c \in done THEN "settled" ELSE call[c].at
  <2>1. call[c] \in CallType
    BY <1>2
  <2>2. QED
    BY <2>1 DEF CallType, Over
<1>4. call' \in [Calls -> CallType]
  BY <1>1, <1>2, <1>3
<1>5. shell[t] \in Seq(Calls) /\ Tail(shell[t]) \in Seq(Calls)
  <2>1. shell[t] \in Seq(Calls) /\ shell[t] # <<>>
    BY <1>1 DEF IInv, TypeOK
  <2>2. QED
    BY <2>1
<1>6. shell' \in [Calls -> Seq(Calls)] /\ \A c \in Calls \ {t} : shell'[c] = shell[c]
  BY <1>1, <1>5 DEF IInv, TypeOK
<1>7. \A c \in heard : c \in Calls /\ call[c].term = t /\ call[c].at \in {"sending", "waiting"}
  OBVIOUS
<1>8. /\ hidden \in SUBSET Calls
      /\ \A c \in hidden : c \in heard /\ call[c].op = "run" /\ call[c].at = "waiting"
      /\ \A c \in heard : call[c].op = "run" /\ call[c].at = "waiting" => c \in hidden /\ c \in done
      /\ \A c \in heard : c \in done <=> call[c].at = "waiting"
  OBVIOUS
<1> HIDE DEF heard, done, hidden, r
<1>9. TypeOK'
  BY <1>1, <1>4, <1>6, <1>8, DisposesKeeps DEF IInv, TypeOK
<1>10. OpenedKept
  BY <1>2, <1>7 DEF OpenedKept
<1>11. ASSUME NEW c \in Calls,
              call[c].at \in {"idle", "creating"}
                \/ (call[c].op = "run" /\ call[c].at \in {"preparing", "sending"})
       PROVE  c # t
  BY <1>1, <1>2, <1>11 DEF CallOK, RunOK
<1>12. ASSUME NEW c \in Calls, c \notin heard PROVE CallOK(c)'
  <2>1. CallOK(c) /\ call'[c] = call[c] /\ c \notin hidden
    BY <1>2, <1>8, <1>12
  <2>2. TerminalKept(c)
    BY <1>1, <1>6, <1>8, <1>11, <2>1, DisposesKeeps DEF TerminalKept, IInv
  <2>3. QED
    BY <1>10, <2>1, <2>2, Frame
<1>13. ASSUME NEW c \in heard, call[c].op = "run" PROVE CallOK(c)'
  <2>1. c \in Calls /\ CallOK(c) /\ RunOK(c) /\ call[c].term = t
    BY <1>2, <1>7, <1>13 DEF CallOK
  <2>2. call[c].at \in Running /\ c = t
    BY <1>7, <2>1 DEF RunOK, Running
  <2>3. call[c].at = "waiting"
    BY <1>7, <1>11, <1>13, <2>1, <2>2
  <2>4. c \in hidden /\ c \in done
    BY <1>8, <1>13, <2>3
  <2>5. state[c] # "none"
    BY <2>1, <2>2 DEF RunOK
  <2>6. state'[c] \in Gone
    BY <1>1, <1>8, <2>1, <2>4, <2>5, DisposesKeeps DEF IInv
  <2>7. call'[c].op = "run" /\ call'[c].at = "settled"
    BY <1>2, <1>3, <1>13, <2>1, <2>4
  <2>8. c \notin temporary'
    BY <1>1, <2>4
  <2>9. QED
    BY <2>6, <2>7, <2>8 DEF CallOK, RunOK, Running, Over
<1>14. ASSUME NEW c \in heard, call[c].op = "runIn" PROVE CallOK(c)'
  <2>1. c \in Calls /\ CallOK(c) /\ RunInOK(c)
    BY <1>2, <1>7, <1>14 DEF CallOK
  <2>2. /\ call'[c].op = "runIn" /\ call'[c].term = call[c].term /\ call'[c].id = call[c].id
        /\ call'[c].at \in {"settled", "sending"}
    BY <1>2, <1>3, <1>7, <1>8, <1>14, <2>1
  <2>3. RunInOK(c)'
    BY <1>10, <2>1, <2>2 DEF RunInOK, Opened, OpenedKept, IsPersistent, Running, Over
  <2>4. c \notin temporary'
    BY <1>1, <1>14, <2>1 DEF CallOK
  <2>5. QED
    BY <2>2, <2>3, <2>4 DEF CallOK
<1>15. \A c \in heard : call[c].op \in {"run", "runIn"}
  <2> SUFFICES ASSUME NEW c \in heard PROVE call[c].op \in {"run", "runIn"}
    OBVIOUS
  <2>1. c \in Calls /\ CallOK(c) /\ call[c] \in CallType /\ call[c].at \in {"sending", "waiting"}
    BY <1>2, <1>7
  <2>2. QED
    BY <2>1 DEF CallOK, OpenOK, CallType
<1>16. CallsOK'
  BY <1>12, <1>13, <1>14, <1>15 DEF CallsOK
<1>17. ListedOK'
  BY <1>1, <1>10, ListedFrame DEF IInv
<1>18. QED
  BY <1>9, <1>16, <1>17 DEF IInv

\* Printing disturbs nothing but the timer.
LEMMA PrintingSteps ==
    ASSUME IInv, NEW t \in Calls, Prints(t) \/ FallsSilent(t) PROVE IInv'
<1>1. UNCHANGED <<state, exiting, listed, temporary, call, shell>> /\ printing' \subseteq Calls
  BY DEF Prints, FallsSilent, IInv, TypeOK
<1>2. TypeOK'
  BY <1>1 DEF IInv, TypeOK
<1>3. CallsOK' /\ ListedOK'
  BY <1>1 DEF IInv, CallsOK, CallOK, RunOK, OpenOK, RunInOK, Opened, ListedOK, IsPersistent
<1>4. QED
  BY <1>2, <1>3 DEF IInv

LEMMA Inductive == IInv /\ [Next]_vars => IInv'
<1> SUFFICES ASSUME IInv, [Next]_vars PROVE IInv'
  OBVIOUS
<1>1. ASSUME NEW c \in Calls, CreatePersistent(c) PROVE IInv'
  BY <1>1, CreatePersistentStep
<1>2. ASSUME NEW c \in Calls, CreatedPersistent(c) \/ CreatedTemporary(c) PROVE IInv'
  BY <1>2, CreatedSteps
<1>3. ASSUME NEW c \in Calls, RunTemporary(c) PROVE IInv'
  BY <1>3, RunTemporaryStep
<1>4. ASSUME NEW c \in Calls, NEW i \in Ids, RunPersistent(c, i) PROVE IInv'
  BY <1>4, RunPersistentStep
<1>5. ASSUME NEW c \in Calls, CapabilityAwaited(c) PROVE IInv'
  BY <1>5, CapabilityAwaitedStep
<1>6. ASSUME NEW c \in Calls, SentText(c) PROVE IInv'
  BY <1>6, SentTextStep
<1>7. ASSUME NEW c \in Calls, TimedOut(c) PROVE IInv'
  BY <1>7, TimedOutStep
<1>8. ASSUME NEW c \in Calls, Interrupt(c) PROVE IInv'
  BY <1>8, InterruptStep
<1>9. ASSUME NEW i \in Ids, KillPersistent(i) PROVE IInv'
  BY <1>9, KillStep
<1>10. ASSUME NEW t \in Calls, ProcessReady(t) \/ NeverReady(t) \/ ShellIntegrates(t) PROVE IInv'
  BY <1>10, ProcessSteps
<1>11. ASSUME NEW t \in Calls, CommandFinished(t) PROVE IInv'
  BY <1>11, CommandFinishedStep
<1>12. ASSUME NEW t \in Calls, ClosedByUser(t) PROVE IInv'
  BY <1>12, ClosedStep
<1>13. ASSUME NEW t \in Calls, OnExit(t) PROVE IInv'
  BY <1>13, OnExitStep
<1>14. ASSUME NEW t \in Calls, Prints(t) \/ FallsSilent(t) PROVE IInv'
  BY <1>14, PrintingSteps
<1>15. CASE UNCHANGED vars
  BY <1>15 DEF vars, IInv, TypeOK, CallsOK, CallOK, RunOK, OpenOK, RunInOK, Opened, ListedOK,
               IsPersistent
<1>16. QED
  BY <1>1, <1>2, <1>3, <1>4, <1>5, <1>6, <1>7, <1>8, <1>9, <1>10, <1>11, <1>12, <1>13, <1>14,
     <1>15 DEF Next

LEMMA Invariance == Spec => []IInv
BY InitOK, Inductive, PTL DEF Spec

\* Every variable has its type in every reachable state.
THEOREM TerminalsTypeCorrect == Spec => []TypeOK
BY Invariance, PTL DEF IInv

\* A foreground run, however it ended, left no hidden terminal and no entry of
\* temporaryTerminalInstanceOfId, whatever else happened to terminals meanwhile.
THEOREM HiddenAlwaysReaped == Spec => []HiddenReaped
<1>1. IInv => HiddenReaped
  BY DEF IInv, CallsOK, CallOK, RunOK, HiddenReaped
<1>2. QED
  BY <1>1, Invariance, PTL

-----------------------------------------------------------------------------
(* The calm case: one terminal is opened at a time, its predecessors' exits *)
(* were told, and runs are stopped while their terminal lives.  What is     *)
(* listed then needs that two terminals with one id never meet: neither     *)
(* both alive, nor one alive and the exit of the other to be told.          *)

Calm == Behaviors \cap {"overlap", "late exit", "late interrupt"} = {}

Holds(t) == IsPersistent(t) /\ (call[t].at = "creating" \/ state[t] \in Live)

Apart == \A t, u \in Calls :
            t # u /\ Holds(t) /\ (Holds(u) \/ u \in exiting) => call[t].id # call[u].id

LInv == LiveIsListed /\ Apart

\* Openings are as they were.
OpensKept == \A t \in Calls : /\ IsPersistent(t)' <=> IsPersistent(t)
                              /\ IsPersistent(t) => call'[t] = call[t]

LEMMA CalmFrame ==
    ASSUME LInv, OpensKept,
           \A t \in Calls : IsPersistent(t) /\ state'[t] \in Live => state[t] \in Live,
           \A t \in exiting' : t \in exiting \/ (IsPersistent(t) /\ state[t] \in Live),
           exiting' \subseteq Calls, \A t \in exiting : IsPersistent(t),
           \A t \in Calls : /\ IsPersistent(t) /\ call[t].at = "settled" /\ state'[t] \in Live
                           => listed'[call[t].id] = listed[call[t].id]
    PROVE  LInv'
<1>1. \A t \in Calls : Holds(t)' => Holds(t) /\ call'[t] = call[t]
  BY DEF Holds, OpensKept
<1>2. \A t \in exiting' : call'[t] = call[t] /\ (t \in exiting \/ Holds(t))
  BY DEF Holds, OpensKept
<1>3. Apart'
  BY <1>1, <1>2 DEF LInv, Apart
<1>4. LiveIsListed'
  BY DEF LInv, LiveIsListed, OpensKept
<1>5. QED
  BY <1>3, <1>4 DEF LInv

\* Those whose exit is to be told are openings that returned.
ExitingOK == exiting \subseteq {t \in Calls : IsPersistent(t)}

LEMMA DisposesExiting ==
    ASSUME TypeOK, NEW T \in SUBSET Calls, Disposes(T)
    PROVE  /\ \A t \in Calls : state'[t] \in Live => state[t] \in Live /\ t \notin T
           /\ \A t \in exiting' : t \in exiting \/ (IsPersistent(t) /\ state[t] \in Live)
           /\ exiting' \subseteq Calls
<1>1. \A t \in Calls : state'[t] = IF t \notin T \/ state[t] \notin Live THEN state[t]
                                  ELSE IF state[t] \in BecameReady THEN "closed" ELSE "aborted"
  BY DEF Disposes
<1>2. \A t \in Calls : state'[t] \in Live => state[t] \in Live /\ t \notin T
  BY <1>1 DEF Live
<1>3. exiting' = exiting \cup {t \in T : IsPersistent(t) /\ state[t] \in Live}
  BY DEF Disposes
<1>4. QED
  BY <1>2, <1>3 DEF TypeOK

LEMMA CalmStep ==
    ASSUME Calm, IInv, IInv', ExitingOK, LInv, [Next]_vars
    PROVE  LInv' /\ ExitingOK'
<1> USE DEF IInv
<1>1. ASSUME NEW c \in Calls, CreatePersistent(c) PROVE LInv' /\ ExitingOK'
  <2>1. PICK i \in Ids :
           /\ ValidNewId(i)
           /\ call' = [call EXCEPT ![c].op = "open", ![c].at = "creating", ![c].id = i]
    BY <1>1 DEF CreatePersistent
  <2>2. /\ call[c].at = "idle" /\ exiting = {} /\ UNCHANGED <<state, exiting, listed>>
        /\ \A d \in Calls : call[d].op = "open" => call[d].at # "creating"
    BY <1>1 DEF CreatePersistent, Calm
  <2>3. /\ call'[c].op = "open" /\ call'[c].at = "creating" /\ call'[c].id = i
        /\ \A d \in Calls \ {c} : call'[d] = call[d]
    BY <2>1 DEF TypeOK, CallType
  <2>4. LiveIsListed'
    BY <2>2, <2>3 DEF LInv, LiveIsListed, IsPersistent
  <2>5. ASSUME NEW t \in Calls \ {c}, Holds(t)' PROVE call[t].id # i
    <3>1. IsPersistent(t) /\ state[t] \in Live /\ call[t].at # "creating"
      BY <2>2, <2>3, <2>5 DEF Holds, IsPersistent
    <3>2. call[t].at = "settled" /\ call[t].id \in Ids
      BY <3>1 DEF CallsOK, CallOK, OpenOK, IsPersistent
    <3>3. listed[call[t].id] = t
      BY <3>1, <3>2 DEF LInv, LiveIsListed
    <3>4. QED
      BY <2>1, <3>3, CallsAssumption DEF ValidNewId
  <2>6. \A t \in Calls \ {c} : Holds(t)' => Holds(t) /\ call'[t] = call[t]
    BY <2>2, <2>3 DEF Holds, IsPersistent
  <2>7. Apart'
    BY <2>2, <2>3, <2>5, <2>6 DEF LInv, Apart
  <2>8. ExitingOK'
    BY <2>2 DEF ExitingOK
  <2>9. QED
    BY <2>4, <2>7, <2>8 DEF LInv
<1>2. ASSUME NEW c \in Calls, CreatedPersistent(c) PROVE LInv' /\ ExitingOK'
  <2>1. /\ IsPersistent(c) /\ call[c].at = "creating" /\ state' = [state EXCEPT ![c] = "starting"]
        /\ listed' = [listed EXCEPT ![call[c].id] = c] /\ call' = [call EXCEPT ![c].at = "settled"]
        /\ exiting' = exiting
    BY <1>2 DEF CreatedPersistent, IsPersistent
  <2>2. /\ \A d \in Calls : call'[d].op = call[d].op /\ call'[d].id = call[d].id
        /\ \A d \in Calls \ {c} : call'[d] = call[d] /\ state'[d] = state[d]
    BY <2>1 DEF TypeOK, CallType
  <2>3. Holds(c) /\ \A d \in Calls : Holds(d)' => Holds(d)
    BY <2>1, <2>2 DEF Holds, IsPersistent
  <2>4. Apart'
    BY <2>1, <2>2, <2>3 DEF LInv, Apart
  <2>5. call[c].id \in Ids
    BY <2>1 DEF CallsOK, CallOK, OpenOK, IsPersistent
  <2>6. ASSUME NEW t \in Calls, IsPersistent(t)', call'[t].at = "settled", state'[t] \in Live
        PROVE  listed'[call'[t].id] = t
    <3>1. CASE t = c
      BY <2>1, <2>2, <2>5, <3>1 DEF TypeOK
    <3>2. CASE t # c
      <4>1. IsPersistent(t) /\ call[t].at = "settled" /\ state[t] \in Live
        BY <2>2, <2>6, <3>2 DEF IsPersistent
      <4>2. call[t].id # call[c].id
        BY <2>3, <3>2, <4>1 DEF LInv, Apart, Holds
      <4>3. listed[call[t].id] = t /\ call[t].id \in Ids
        BY <4>1 DEF LInv, LiveIsListed, CallsOK, CallOK, OpenOK, IsPersistent
      <4>4. QED
        BY <2>1, <2>2, <4>2, <4>3 DEF TypeOK
    <3>3. QED
      BY <3>1, <3>2
  <2>7. LiveIsListed'
    BY <2>6 DEF LiveIsListed
  <2>8. ExitingOK'
    BY <2>1, <2>2 DEF ExitingOK, IsPersistent
  <2>9. QED
    BY <2>4, <2>7, <2>8 DEF LInv
<1>3. ASSUME NEW c \in Calls,
             RunTemporary(c) \/ CreatedTemporary(c) \/ (\E i \in Ids : RunPersistent(c, i))
               \/ CapabilityAwaited(c) \/ SentText(c)
      PROVE  LInv' /\ ExitingOK'
  <2>1. ~ IsPersistent(c)
    BY <1>3 DEF RunTemporary, CreatedTemporary, RunPersistent, CapabilityAwaited, SentText,
                CallsOK, CallOK, OpenOK, IsPersistent
  <2>2. /\ UNCHANGED <<exiting, listed>>
        /\ \A d \in Calls \ {c} : state'[d] = state[d] /\ call'[d] = call[d]
        /\ call'[c].op # "open"
    <3>1. call[c] \in CallType /\ call[c].op # "open"
      BY <2>1 DEF TypeOK, IsPersistent
    <3>2. CASE RunTemporary(c)
      BY <3>1, <3>2 DEF RunTemporary, TypeOK, CallType
    <3>3. CASE CreatedTemporary(c)
      BY <3>1, <3>3 DEF CreatedTemporary, TypeOK, CallType
    <3>4. CASE \E i \in Ids : RunPersistent(c, i)
      BY <3>1, <3>4 DEF RunPersistent, TypeOK, CallType
    <3>5. CASE CapabilityAwaited(c)
      BY <3>1, <3>5 DEF CapabilityAwaited, TypeOK, CallType
    <3>6. CASE SentText(c)
      BY <3>1, <3>6 DEF SentText, TypeOK, CallType
    <3>7. QED
      BY <1>3, <3>2, <3>3, <3>4, <3>5, <3>6
  <2>3. OpensKept
    BY <2>1, <2>2 DEF OpensKept, IsPersistent
  <2>4. LInv'
    BY <2>1, <2>2, <2>3, CalmFrame DEF TypeOK, ExitingOK
  <2>5. ExitingOK'
    BY <2>2, <2>3 DEF ExitingOK, OpensKept
  <2>6. QED
    BY <2>4, <2>5
<1>4. ASSUME NEW T \in SUBSET Calls, Disposes(T), OpensKept,
             \A t \in Calls \ T : /\ IsPersistent(t) /\ call[t].at = "settled" /\ state[t] \in Live
                                 => listed'[call[t].id] = listed[call[t].id]
      PROVE  LInv' /\ ExitingOK'
  <2>1. /\ \A t \in Calls : state'[t] \in Live => state[t] \in Live /\ t \notin T
        /\ \A t \in exiting' : t \in exiting \/ (IsPersistent(t) /\ state[t] \in Live)
        /\ exiting' \subseteq Calls
    BY <1>4, DisposesExiting
  <2>2. LInv'
    BY <1>4, <2>1, CalmFrame DEF ExitingOK
  <2>3. ExitingOK'
    BY <1>4, <2>1 DEF ExitingOK, OpensKept
  <2>4. QED
    BY <2>2, <2>3
<1>5. ASSUME NEW c \in Calls, TimedOut(c) PROVE LInv' /\ ExitingOK'
  <2>1. ~ IsPersistent(c) /\ UNCHANGED listed /\ \A d \in Calls \ {c} : call'[d] = call[d]
    BY <1>5 DEF TimedOut, CallsOK, CallOK, OpenOK, IsPersistent, TypeOK
  <2>2. call'[c].op # "open"
    BY <1>5, <2>1 DEF TimedOut, TypeOK, CallType, IsPersistent
  <2>3. OpensKept
    BY <2>1, <2>2 DEF OpensKept, IsPersistent
  <2>4. CASE ReadBy(c) = None
    <3>1. UNCHANGED <<state, exiting>>
      BY <1>5, <2>4 DEF TimedOut
    <3>2. LInv'
      BY <2>1, <2>3, <3>1, CalmFrame DEF TypeOK, ExitingOK
    <3>3. QED
      BY <2>3, <3>1, <3>2 DEF ExitingOK, OpensKept
  <2>5. CASE ReadBy(c) # None
    <3>1. PICK T \in SUBSET Calls : Disposes(T)
      BY <1>5, <2>5 DEF TimedOut
    <3>2. QED
      BY <1>4, <2>1, <2>3, <3>1
  <2>6. QED
    BY <2>4, <2>5
<1>6. ASSUME NEW t \in Calls, CommandFinished(t) PROVE LInv' /\ ExitingOK'
  <2>1. UNCHANGED listed /\ \E T \in SUBSET Calls : Disposes(T)
    BY <1>6 DEF CommandFinished
  <2>2. \A c \in Calls : IsPersistent(c) => call[c].at \notin {"sending", "waiting"}
    BY DEF CallsOK, CallOK, OpenOK, IsPersistent
  <2>3. \A c \in Calls : IsPersistent(c) => call'[c] = call[c]
    BY <1>6, <2>2 DEF CommandFinished
  <2>4. ASSUME NEW c \in Calls PROVE call'[c].op = call[c].op
    <3>1. call[c] \in CallType
      BY DEF TypeOK
    <3> DEFINE heard == {d \in Calls : /\ call[d].term = t /\ call[d].hears
                                       /\ call[d].at \in {"sending", "waiting"}
                                       /\ call[d].out = "none"}
               done == {d \in heard : call[d].at = "waiting"}
               r == [call[c] EXCEPT !.out = IF c = Head(shell[t]) THEN "own" ELSE "other",
                                    !.at = IF c \in done THEN "settled" ELSE @]
    <3>2. call'[c] = IF c \notin heard THEN call[c] ELSE r
      BY <1>6 DEF CommandFinished
    <3>3. r.op = call[c].op
      BY <3>1 DEF CallType
    <3> HIDE DEF heard, r
    <3>4. QED
      BY <3>2, <3>3
  <2>5. OpensKept
    BY <2>3, <2>4 DEF OpensKept, IsPersistent
  <2>6. QED
    BY <1>4, <2>1, <2>5
<1>7. ASSUME NEW c \in Calls, Interrupt(c) PROVE LInv' /\ ExitingOK'
  <2>1. /\ call[c].at \in Running /\ state[call[c].term] \in Live /\ UNCHANGED call
        /\ Disposes({call[c].term})
    BY <1>7 DEF Interrupt, Calm
  <2>2. OpensKept
    BY <2>1 DEF OpensKept, IsPersistent
  <2>3. CallOK(c) /\ call[c].op \in {"run", "runIn"}
    BY <2>1 DEF CallsOK, CallOK, OpenOK, Running, TypeOK, CallType
  <2>4. CASE call[c].op = "run"
    <3>1. call[c].term \in Calls /\ UNCHANGED listed
      BY <1>7, <2>1, <2>3, <2>4 DEF CallOK, RunOK, Interrupt
    <3>2. QED
      BY <1>4, <2>1, <2>2, <3>1
  <2>5. CASE call[c].op = "runIn"
    <3>1. Opened(call[c].term, call[c].id) /\ listed' = [listed EXCEPT ![call[c].id] = None]
      BY <1>7, <2>3, <2>5 DEF CallOK, RunInOK, Interrupt
    <3>2. listed[call[c].id] = call[c].term
      BY <2>1, <3>1 DEF Opened, LInv, LiveIsListed
    <3>3. ASSUME NEW t \in Calls \ {call[c].term},
                 IsPersistent(t), call[t].at = "settled", state[t] \in Live
          PROVE  listed'[call[t].id] = listed[call[t].id]
      <4>1. listed[call[t].id] = t /\ call[t].id \in Ids
        BY <3>3 DEF LInv, LiveIsListed, CallsOK, CallOK, OpenOK, IsPersistent
      <4>2. call[t].id # call[c].id
        BY <3>2, <4>1
      <4>3. QED
        BY <3>1, <4>1, <4>2 DEF TypeOK
    <3>4. {call[c].term} \in SUBSET Calls
      BY <3>1 DEF Opened
    <3>5. QED
      BY <1>4, <2>1, <2>2, <3>3, <3>4
  <2>6. QED
    BY <2>3, <2>4, <2>5
<1>8. ASSUME NEW i \in Ids, KillPersistent(i) PROVE LInv' /\ ExitingOK'
  <2>1. /\ listed[i] \in Calls /\ Disposes({listed[i]}) /\ UNCHANGED call
        /\ listed' = [listed EXCEPT ![i] = None]
    BY <1>8 DEF KillPersistent, TypeOK
  <2>2. OpensKept
    BY <2>1 DEF OpensKept, IsPersistent
  <2>3. ASSUME NEW t \in Calls \ {listed[i]},
               IsPersistent(t), call[t].at = "settled", state[t] \in Live
        PROVE  listed'[call[t].id] = listed[call[t].id]
    <3>1. listed[call[t].id] = t
      BY <2>3 DEF LInv, LiveIsListed
    <3>2. call[t].id # i
      BY <2>3, <3>1
    <3>3. QED
      BY <2>1, <3>2 DEF TypeOK
  <2>4. {listed[i]} \in SUBSET Calls
    BY <2>1
  <2>5. QED
    BY <1>4, <2>1, <2>2, <2>3, <2>4
<1>9. ASSUME NEW t \in Calls, ProcessReady(t) \/ NeverReady(t) \/ ShellIntegrates(t)
      PROVE  LInv' /\ ExitingOK'
  <2>1. UNCHANGED <<exiting, listed, call>>
    BY <1>9 DEF ProcessReady, NeverReady, ShellIntegrates
  <2>2. \A u \in Calls : state'[u] \in Live => state[u] \in Live
    BY <1>9 DEF ProcessReady, NeverReady, ShellIntegrates, TypeOK, Live
  <2>3. OpensKept
    BY <2>1 DEF OpensKept, IsPersistent
  <2>4. LInv'
    BY <2>1, <2>2, <2>3, CalmFrame DEF TypeOK, ExitingOK
  <2>5. QED
    BY <2>1, <2>3, <2>4 DEF ExitingOK, OpensKept
<1>10. ASSUME NEW t \in Calls, ClosedByUser(t) PROVE LInv' /\ ExitingOK'
  <2>1. {t} \in SUBSET Calls /\ Disposes({t}) /\ OpensKept /\ UNCHANGED listed
    BY <1>10 DEF ClosedByUser, OpensKept, IsPersistent
  <2>2. QED
    BY <1>4, <2>1
<1>11. ASSUME NEW t \in Calls, OnExit(t) PROVE LInv' /\ ExitingOK'
  <2>1. /\ t \in exiting /\ exiting' = exiting \ {t} /\ UNCHANGED <<state, call>>
        /\ \A i \in Ids : listed'[i] = IF i \in IdOfName(t) THEN None ELSE listed[i]
    BY <1>11 DEF OnExit
  <2>2. OpensKept
    BY <2>1 DEF OpensKept, IsPersistent
  <2>3. state[t] \in Gone
    BY <2>1 DEF TypeOK
  <2>4. ASSUME NEW u \in Calls, IsPersistent(u), call[u].at = "settled", state[u] \in Live
        PROVE  listed'[call[u].id] = listed[call[u].id]
    <3>1. u # t
      BY <2>3, <2>4 DEF Gone, Live
    <3>2. call[u].id # call[t].id
      BY <2>1, <2>4, <3>1 DEF LInv, Apart, Holds
    <3>3. call[u].id \notin IdOfName(t)
      BY <3>2 DEF IdOfName
    <3>4. call[u].id \in Ids
      BY <2>4 DEF CallsOK, CallOK, OpenOK, IsPersistent
    <3>5. QED
      BY <2>1, <3>3, <3>4
  <2>5. LInv'
    BY <2>1, <2>2, <2>4, CalmFrame DEF TypeOK, ExitingOK
  <2>6. QED
    BY <2>1, <2>2, <2>5 DEF ExitingOK, OpensKept
<1>12. ASSUME NEW t \in Calls, Prints(t) \/ FallsSilent(t) PROVE LInv' /\ ExitingOK'
  <2>1. UNCHANGED <<state, exiting, listed, call>>
    BY <1>12 DEF Prints, FallsSilent
  <2>2. QED
    BY <2>1 DEF LInv, LiveIsListed, Apart, Holds, IsPersistent, ExitingOK
<1>13. CASE UNCHANGED vars
  BY <1>13 DEF vars, LInv, LiveIsListed, Apart, Holds, IsPersistent, ExitingOK
<1>14. QED
  BY <1>1, <1>2, <1>3, <1>5, <1>6, <1>7, <1>8, <1>9, <1>10, <1>11, <1>12, <1>13 DEF Next

\* In the calm case a persistent terminal that lives is listed under its id, for
\* any number of terminals.
THEOREM LiveAlwaysListed == ASSUME Calm PROVE Spec => []LiveIsListed
<1>1. Init => LInv /\ ExitingOK
  BY DEF Init, LInv, LiveIsListed, Apart, Holds, IsPersistent, Fresh, ExitingOK
<1>2. IInv /\ IInv' /\ (LInv /\ ExitingOK) /\ [Next]_vars => (LInv /\ ExitingOK)'
  BY CalmStep
<1>3. LInv => LiveIsListed
  BY DEF LInv
<1>4. QED
  BY <1>1, <1>2, <1>3, Invariance, PTL DEF Spec
=============================================================================
