------------------------------ MODULE Terminals ------------------------------
(***************************************************************************)
(* The terminals the agent's tools run commands in                         *)
(* (browser/terminalToolService.ts): persistent ones, found by the small   *)
(* number in their title, and hidden ones that serve a single command.     *)
(*                                                                         *)
(* A call is one use of the service: "open" creates a persistent terminal, *)
(* "run" runs a command in a hidden one, "runIn" in a persistent one.  A   *)
(* terminal is named after the call that creates it.  The workbench's      *)
(* terminal (its process, shell integration, the event of its exit) is     *)
(* modelled from what the service calls and listens to.                    *)
(***************************************************************************)
EXTENDS Naturals, Sequences, FiniteSets

CONSTANTS
    Calls,      \* the uses of the service; each happens once
    None,       \* no terminal
    Behaviors   \* what users and the workbench do beyond the calm case:
                \* "overlap": a terminal is opened while another is being created
                \* "late exit": the exit of a terminal is told after another opened
                \* "late interrupt": a run is stopped when its terminal is gone
                \* "never ready": the process of a terminal does not come up

ASSUME BehaviorsAssumption ==
    Behaviors \subseteq {"overlap", "late exit", "late interrupt", "never ready"}

ASSUME CallsAssumption == IsFiniteSet(Calls) /\ None \notin Calls

VARIABLES
    state,      \* of each terminal
    exiting,    \* persistent terminals that are gone and whose onExit has not fired
    listed,     \* persistentTerminalInstanceOfId
    temporary,  \* temporaryTerminalInstanceOfId, whose ids are unique to their calls
    call,       \* how far each call is
    shell,      \* the commands each terminal was sent and has not finished
    printing    \* hidden terminals that print more often than the timer waits

vars == <<state, exiting, listed, temporary, call, shell, printing>>

Ids == 1 .. Cardinality(Calls)
Live == {"starting", "ready", "integrated", "stuck"}   \* of states
BecameReady == {"ready", "integrated", "closed"}
Gone == {"closed", "aborted"}                          \* aborted: before it was ready
Running == {"preparing", "sending", "waiting"}         \* of calls
Over == {"settled", "failed"}

Fresh == [op |-> "none", at |-> "idle", id |-> 0, term |-> None,
          hears |-> FALSE, out |-> "none"]

Init ==
    /\ state = [t \in Calls |-> "none"]
    /\ exiting = {}
    /\ listed = [i \in Ids |-> None]
    /\ temporary = {}
    /\ call = [c \in Calls |-> Fresh]
    /\ shell = [t \in Calls |-> <<>>]
    /\ printing = {}

-----------------------------------------------------------------------------
(* The workbench's terminals.                                              *)

IsPersistent(t) == call[t].op = "open"

\* terminal.dispose() for every terminal of T, which does nothing a second time
Disposes(T) ==
    /\ state' = [t \in Calls |->
                   IF t \notin T \/ state[t] \notin Live THEN state[t]
                   ELSE IF state[t] \in BecameReady THEN "closed" ELSE "aborted"]
    /\ exiting' = exiting \cup {t \in T : IsPersistent(t) /\ state[t] \in Live}

ProcessReady(t) ==
    /\ state[t] = "starting"
    /\ state' = [state EXCEPT ![t] = "ready"]
    /\ UNCHANGED <<exiting, listed, temporary, call, shell, printing>>

NeverReady(t) ==
    /\ "never ready" \in Behaviors
    /\ state[t] = "starting"
    /\ state' = [state EXCEPT ![t] = "stuck"]
    /\ UNCHANGED <<exiting, listed, temporary, call, shell, printing>>

\* the shell's integration script ran: the terminal detects commands
ShellIntegrates(t) ==
    /\ state[t] = "ready"
    /\ state' = [state EXCEPT ![t] = "integrated"]
    /\ UNCHANGED <<exiting, listed, temporary, call, shell, printing>>

\* the user closes a terminal, or its shell exits, that of a hidden one too
ClosedByUser(t) ==
    /\ state[t] \in Live
    /\ Disposes({t})
    /\ UNCHANGED <<listed, temporary, call, shell, printing>>

\* The command of a foreground run prints, more often than every eight seconds
\* (for ever, if it is a server) ...
Prints(t) ==
    /\ call[t].op = "run" /\ call[t].at = "waiting"
    /\ state[t] \in Live /\ t \notin printing
    /\ printing' = printing \cup {t}
    /\ UNCHANGED <<state, exiting, listed, temporary, call, shell>>

\* ... or pauses for longer
FallsSilent(t) ==
    /\ t \in printing
    /\ printing' = printing \ {t}
    /\ UNCHANGED <<state, exiting, listed, temporary, call, shell>>

\* The listener on a terminal's exit.  idOfPersistentTerminalName tests the
\* text of the number with Number.isInteger: it knows "Void Agent" alone.
IdOfName(t) == IF call[t].id = 1 THEN {1} ELSE {}

OnExit(t) ==
    /\ t \in exiting
    /\ exiting' = exiting \ {t}
    /\ listed' = [i \in Ids |-> IF i \in IdOfName(t) THEN None ELSE listed[i]]
    /\ UNCHANGED <<state, temporary, call, shell, printing>>

-----------------------------------------------------------------------------
(* Opening and killing persistent terminals.                               *)

\* getValidNewTerminalId: the first that is free
ValidNewId(i) == listed[i] = None /\ \A j \in 1 .. (i - 1) : listed[j] # None

\* the id is chosen before the terminal is created ...
CreatePersistent(c) ==
    /\ call[c].at = "idle"
    /\ "overlap" \in Behaviors \/ \A d \in Calls : call[d].op = "open" => call[d].at # "creating"
    /\ "late exit" \in Behaviors \/ exiting = {}
    /\ \E i \in Ids :
          /\ ValidNewId(i)
          /\ call' = [call EXCEPT ![c].op = "open", ![c].at = "creating", ![c].id = i]
    /\ UNCHANGED <<state, exiting, listed, temporary, shell, printing>>

\* ... and listed when it is there
CreatedPersistent(c) ==
    /\ call[c].op = "open" /\ call[c].at = "creating"
    /\ state' = [state EXCEPT ![c] = "starting"]
    /\ listed' = [listed EXCEPT ![call[c].id] = c]
    /\ call' = [call EXCEPT ![c].at = "settled"]
    /\ UNCHANGED <<exiting, temporary, shell, printing>>

KillPersistent(i) ==
    /\ listed[i] # None
    /\ Disposes({listed[i]})
    /\ listed' = [listed EXCEPT ![i] = None]
    /\ UNCHANGED <<temporary, call, shell, printing>>

-----------------------------------------------------------------------------
(* Running a command.                                                      *)

RunTemporary(c) ==
    /\ call[c].at = "idle"
    /\ call' = [call EXCEPT ![c].op = "run", ![c].at = "creating"]
    /\ UNCHANGED <<state, exiting, listed, temporary, shell, printing>>

CreatedTemporary(c) ==
    /\ call[c].op = "run" /\ call[c].at = "creating"
    /\ state' = [state EXCEPT ![c] = "starting"]
    /\ temporary' = temporary \cup {c}
    /\ call' = [call EXCEPT ![c].at = "preparing", ![c].term = c]
    /\ UNCHANGED <<exiting, listed, shell, printing>>

RunPersistent(c, i) ==
    /\ call[c].at = "idle"
    /\ listed[i] # None
    /\ call' = [call EXCEPT ![c].op = "runIn", ![c].at = "preparing", ![c].id = i,
                            ![c].term = listed[i]]
    /\ UNCHANGED <<state, exiting, listed, temporary, shell, printing>>

\* Mutant: there is no limit on the wait for the capability
CapabilityAwaited_Unbounded(c) ==
    /\ call[c].at = "preparing"
    /\ state[call[c].term] = "integrated"
    /\ call' = [call EXCEPT ![c].at = "sending", ![c].hears = TRUE]
    /\ UNCHANGED <<state, exiting, listed, temporary, shell, printing>>

\* _waitForCommandDetectionCapability, for ten seconds at most; from here on the
\* run listens for the end of a command, any command, of its terminal
CapabilityAwaited(c) ==
    /\ call[c].at = "preparing"
    /\ call' = [call EXCEPT ![c].at = "sending",
                            ![c].hears = state[call[c].term] = "integrated"]
    /\ UNCHANGED <<state, exiting, listed, temporary, shell, printing>>

\* sendText waits for the process; what finished meanwhile already answered the run
SentText(c) ==
    LET t == call[c].term
    IN  /\ call[c].at = "sending"
        /\ state[t] \in BecameReady
        /\ shell' = IF state[t] \in Gone THEN shell ELSE [shell EXCEPT ![t] = Append(@, c)]
        /\ call' = [call EXCEPT ![c].at = IF call[c].out = "none" THEN "waiting" ELSE "settled"]
        /\ UNCHANGED <<state, exiting, listed, temporary, printing>>

\* onCommandFinished: every run that listens on the terminal takes the output
CommandFinished(t) ==
    LET heard == {c \in Calls : /\ call[c].term = t /\ call[c].hears
                                /\ call[c].at \in {"sending", "waiting"}
                                /\ call[c].out = "none"}
        done  == {c \in heard : call[c].at = "waiting"}
        hidden == {c \in done : call[c].op = "run"}
    IN  /\ shell[t] # <<>> /\ state[t] \in Live
        /\ shell' = [shell EXCEPT ![t] = Tail(@)]
        /\ call' = [c \in Calls |->
                      IF c \notin heard THEN call[c]
                      ELSE [call[c] EXCEPT !.out = IF c = Head(shell[t]) THEN "own" ELSE "other",
                                           !.at = IF c \in done THEN "settled" ELSE @]]
        /\ Disposes(hidden)
        /\ temporary' = temporary \ hidden
        /\ UNCHANGED <<listed, printing>>

\* readTerminal, which looks the terminal up by its id again
ReadBy(c) == IF call[c].op = "run" THEN (IF c \in temporary THEN c ELSE None)
                                   ELSE listed[call[c].id]

\* every output of its terminal restarts the timer of a foreground run
TimerRestarts(c) == call[c].op = "run" /\ c \in printing /\ state[c] \in Live

\* Mutant: interrupt() forgets the entry of the hidden terminal and does not dispose it
TimedOut_KeepsTerminal(c) ==
    /\ call[c].at = "waiting" /\ ~TimerRestarts(c)
    /\ call' = [call EXCEPT ![c].at = IF ReadBy(c) = None THEN "failed" ELSE "settled"]
    /\ temporary' = temporary \ {c}
    /\ UNCHANGED <<state, exiting, listed, shell, printing>>

\* The timer of a run: eight seconds without output, or five in a persistent
\* terminal whatever it prints.  The read needs xterm, which a terminal has
\* before its process and so before any text was sent to it.
TimedOut(c) ==
    /\ call[c].at = "waiting" /\ ~TimerRestarts(c)
    /\ IF ReadBy(c) = None
       THEN /\ call' = [call EXCEPT ![c].at = "failed"]
            /\ UNCHANGED <<state, exiting, temporary>>
       ELSE /\ call' = [call EXCEPT ![c].at = "settled",
                          ![c].out = IF ReadBy(c) = call[c].term THEN "screen" ELSE "other"]
            /\ Disposes(IF call[c].op = "run" THEN {c} ELSE {})
            /\ temporary' = temporary \ {c}
    /\ UNCHANGED <<listed, shell, printing>>

\* interrupt(), which the run's caller keeps
Interrupt(c) ==
    /\ \/ /\ call[c].at \in Running
          /\ "late interrupt" \in Behaviors \/ state[call[c].term] \in Live
       \/ /\ "late interrupt" \in Behaviors
          /\ call[c].op = "runIn" /\ call[c].at \in Over
    /\ Disposes({call[c].term})
    /\ temporary' = temporary \ {c}
    /\ listed' = IF call[c].op = "run" THEN listed ELSE [listed EXCEPT ![call[c].id] = None]
    /\ UNCHANGED <<call, shell, printing>>

-----------------------------------------------------------------------------
Next ==
    \/ \E c \in Calls :
          \/ CreatePersistent(c) \/ CreatedPersistent(c)
          \/ RunTemporary(c) \/ CreatedTemporary(c)
          \/ \E i \in Ids : RunPersistent(c, i)
          \/ CapabilityAwaited(c) \/ SentText(c) \/ TimedOut(c) \/ Interrupt(c)
    \/ \E i \in Ids : KillPersistent(i)
    \/ \E t \in Calls :
          \/ ProcessReady(t) \/ NeverReady(t) \/ ShellIntegrates(t)
          \/ CommandFinished(t) \/ ClosedByUser(t) \/ OnExit(t)
          \/ Prints(t) \/ FallsSilent(t)

\* Timers fire, that of a foreground run once its terminal stays silent, and a
\* process that is not stuck comes up.  Nothing makes a command stop printing.
Fairness ==
    \A c \in Calls : /\ WF_vars(CapabilityAwaited(c))
                     /\ WF_vars(SentText(c))
                     /\ WF_vars(TimedOut(c))
                     /\ WF_vars(ProcessReady(c))

Spec == Init /\ [][Next]_vars

FairSpec == Spec /\ Fairness

-----------------------------------------------------------------------------
(* Properties.                                                             *)

CallType == [op : {"none", "open", "run", "runIn"},
             at : {"idle", "creating"} \cup Running \cup Over,
             id : 0 .. Cardinality(Calls), term : Calls \cup {None},
             hears : BOOLEAN, out : {"none", "own", "screen", "other"}]

\* Every variable has its type, and only the exit of what is gone is to be told.
TypeOK ==
    /\ state \in [Calls -> Live \cup Gone \cup {"none"}]
    /\ exiting \subseteq {t \in Calls : state[t] \in Gone}
    /\ listed \in [Ids -> Calls \cup {None}]
    /\ temporary \subseteq Calls
    /\ call \in [Calls -> CallType]
    /\ shell \in [Calls -> Seq(Calls)]
    /\ printing \subseteq Calls

\* However a foreground run ended (its command, its timer, a stop in between),
\* neither its hidden terminal nor the entry of it is left behind.
HiddenReaped ==
    \A c \in Calls : call[c].op = "run" /\ call[c].at \in Over =>
                        state[c] \in Gone /\ c \notin temporary

\* In the calm case, a persistent terminal that lives can be reached by the id
\* its opening returned: no other opening, exit or stop takes its entry.
LiveIsListed ==
    \A t \in Calls : IsPersistent(t) /\ call[t].at = "settled" /\ state[t] \in Live =>
                        listed[call[t].id] = t

\* A run comes to an end, whether or not its shell tells of commands, unless its
\* terminal went away before it was ready, its process never comes up, or, of a
\* foreground run, its command never stops printing: each output restarts the timer.
RunReturns ==
    \A c \in Calls : call[c].at \in Running ~>
                        \/ call[c].at \in Over
                        \/ /\ call[c].at \in Running
                           /\ \/ state[call[c].term] \in {"aborted", "stuck"}
                              \/ TimerRestarts(c)

=============================================================================
