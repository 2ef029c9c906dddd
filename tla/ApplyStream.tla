---- MODULE ApplyStream ----
(* The edit code service: Apply buttons whose answers stream into a file       *)
(* (ClickApply, by rewriting or by search/replace blocks), the chat agent's     *)
(* edit_file, and the user who stops, accepts, rejects and undoes. A request    *)
(* calls back as LLMRequest promises: until it has its answer or is aborted.    *)
EXTENDS Naturals, Sequences, SequencesExt

CONSTANTS
    Files,       \* open files
    Applies,     \* calls of startApplying
    Edits,       \* edit_file calls of the agent
    NRetries,    \* N_RETRIES
    Answers,     \* what a search/replace answer may be, but for one block that fits
    MaxUndo,     \* bound: undo elements when the user accepts or rejects
    UserOps,     \* what the user does
    NoOne        \* neither an apply nor an edit

ASSUME ApplyAssumption == /\ NRetries \in Nat \ {0, 1}
                          /\ Answers \subseteq {"mismatch", "empty", "many"}
                          /\ MaxUndo \in Nat
                          /\ NoOne \notin Applies \cup Edits /\ Applies \cap Edits = {}
                          /\ Files # {}

VARIABLES
    doc,         \* each file: its text, its diff zone, its undo stack
    loop,        \* the call of runWriteover or runSearchReplace of each apply
    open,        \* the applies whose request may still call back
    tool,        \* the edit_file calls
    disturbed    \* history: applies whose file something else changed while they streamed

vars == <<doc, loop, open, tool, disturbed>>

Authors == Applies \cup Edits

(* The text of a file is the set of changes that are in it in full, and whose  *)
(* half-written text it shows. A DiffZone knows the text it replaced and, as    *)
(* an object, the loop that streams into it. "kept" are the changes nobody can  *)
(* reject any more: accepted, or part of what a later zone takes for original.  *)
Zone == [loop : Applies \cup {NoOne}, streaming : BOOLEAN, original : SUBSET Authors]
Snapshots == [changes : SUBSET Authors, partial : Applies \cup {NoOne},
              kept : SUBSET Authors, zones : SUBSET Zone]
Element == [by : Applies \cup {NoOne}, before : Snapshots]
Doc == [text : Snapshots, undo : Seq(Element)]
Loop == [pc : {"unused", "waiting", "applied", "failed"}, file : Files, base : SUBSET Authors, n : 0..(NRetries - 1), many : BOOLEAN]

\* Types: at most one diff zone in a file, fewer requests than N_RETRIES.
TypeOK ==
    /\ doc \in [Files -> Doc]
    /\ \A f \in Files : \A z1, z2 \in doc[f].text.zones : z1 = z2
    /\ loop \in [Applies -> Loop]
    /\ open \subseteq Applies
    /\ tool \in [Edits -> [pc : {"idle", "checked", "done", "refused"}, file : Files]]
    /\ disturbed \subseteq Applies

Init ==
    /\ doc = [f \in Files |-> [text |-> [changes |-> {}, partial |-> NoOne, kept |-> {}, zones |-> {}],
                               undo |-> <<>>]]
    /\ loop = [a \in Applies |-> [pc |-> "unused", file |-> CHOOSE f \in Files : TRUE, base |-> {},
                                  n |-> 0, many |-> FALSE]]
    /\ open = {}
    /\ tool = [e \in Edits |-> [pc |-> "idle", file |-> CHOOSE f \in Files : TRUE]]
    /\ disturbed = {}

-----------------------------------------------------------------------------
(* Handlers run to their end, one inside another, so that their parts are      *)
(* functions of the state s they find.                                         *)

State == [doc |-> doc, loop |-> loop, open |-> open, disturbed |-> disturbed]

Becomes(s) == doc' = s.doc /\ loop' = s.loop /\ open' = s.open /\ disturbed' = s.disturbed

\* Somebody changes file f, whoever streams into it
Disturbed(f) == [State EXCEPT !.disturbed = @ \cup {a \in Applies : loop[a].pc = "waiting" /\ loop[a].file = f}]

Streaming(d) == \E z \in d.text.zones : z.streaming

\* Mutant: nobody asks.
MayStart_Anyway(f) == TRUE

\* _uriIsStreaming, as startApplying looks at it
MayStart(f) == ~Streaming(doc[f])

\* What is left of a text when its diff zone is rejected
Original(t) == IF t.zones = {} THEN t.changes ELSE (CHOOSE z \in t.zones : TRUE).original
Rejected(t) == [t EXCEPT !.changes = Original(t), !.partial = IF t.zones = {} THEN @ ELSE NoOne,
                         !.zones = {}]

\* And when it is accepted: nobody can reject what is in the text
Accepted(t) == [t EXCEPT !.zones = {}, !.kept = @ \cup t.changes]

\* A snapshot is never streaming when it is restored, and its zone is a new object
Snapshot(t) == [t EXCEPT !.zones = {[z EXCEPT !.loop = NoOne, !.streaming = FALSE] : z \in @}]

\* _addToHistory before the text becomes t
Pushed(d, who, t) == [text |-> t, undo |-> Append(d.undo, [by |-> who, before |-> Snapshot(d.text)])]

\* onAbort: the loop's promise is rejected
Aborted(s, a) == [s EXCEPT !.open = @ \ {a},
                           !.loop[a].pc = IF @ = "waiting" THEN "failed" ELSE @]

AbortedAll(s, as) == [s EXCEPT !.open = @ \ as,
                               !.loop = [a \in Applies |-> IF a \in as /\ @[a].pc = "waiting"
                                                           THEN [@[a] EXCEPT !.pc = "failed"] ELSE @[a]]]

Stopped(d) == [d EXCEPT !.text.zones = {[z EXCEPT !.streaming = FALSE] : z \in @}]

\* The loops of all zones that stream, in whatever file
StreamLoops(s) == {a \in Applies : \E f \in Files : \E z \in s.doc[f].text.zones : z.loop = a /\ z.streaming}

\* Mutant: the request is aborted, the text stays.
Undone_TextStays(s, f) ==
    IF s.doc[f].undo = <<>> THEN s
    ELSE LET top == Last(s.doc[f].undo)
             s1  == IF top.by = NoOne THEN s ELSE Aborted(s, top.by)
         IN [AbortedAll(s1, StreamLoops(s1)) EXCEPT
               !.doc = [g \in Files |-> IF g = f THEN [Stopped(s.doc[f]) EXCEPT !.undo = Front(@)]
                                        ELSE Stopped(s.doc[g])]]

(* _undoRedoService.undo: the latest element aborts its own request (onWillUndo), then *)
(* _restoreVoidFileSnapshot stops every zone that streams and puts the snapshot back.  *)
Undone(s, f) ==
    IF s.doc[f].undo = <<>> THEN s
    ELSE LET top == Last(s.doc[f].undo)
             s1  == IF top.by = NoOne THEN s ELSE Aborted(s, top.by)
             hit == {a \in StreamLoops(s1) : s1.loop[a].pc = "waiting"}
             s2  == AbortedAll(s1, StreamLoops(s1))
         IN [s2 EXCEPT !.doc = [g \in Files |-> IF g = f THEN [text |-> top.before, undo |-> Front(s.doc[f].undo)]
                                                ELSE Stopped(s.doc[g])],
                       !.disturbed = @ \cup hit]

\* Mutant: the stream state is left as it is.
Done_StillStreaming(s, a) == s

\* onDone, of a zone that may have been deleted meanwhile
Done(s, a) == [s EXCEPT !.doc[s.loop[a].file].text.zones =
                   {IF z.loop = a THEN [z EXCEPT !.streaming = FALSE] ELSE z : z \in @}]

\* onError
Failed(s, a) == Undone(Done(s, a), s.loop[a].file)

\* The whole file is written
Write(s, a, changes) == [s EXCEPT !.doc[s.loop[a].file].text.changes = changes,
                                  !.doc[s.loop[a].file].text.partial = NoOne]

\* The next round of the loop: another request, or one too many, which throws
Again(s, a) ==
    IF s.loop[a].n + 1 < NRetries
    THEN [s EXCEPT !.loop[a].n = @ + 1, !.open = @ \cup {a}]
    ELSE LET s1 == Failed([s EXCEPT !.open = @ \ {a}], a)
         IN [s1 EXCEPT !.loop[a].pc = "failed"]

-----------------------------------------------------------------------------
(* An apply *)

(* _startStreamingDiffZone with 'reject-conflicts': the text the answer will   *)
(* be based on, and the zone's original, are read before the older zone is     *)
(* rejected.                                                                   *)
Start(a, f) ==
    /\ loop[a].pc = "unused" /\ MayStart(f)
    /\ LET d == doc[f]
           t == [Rejected(d.text) EXCEPT
                   !.kept = @ \cup (d.text.changes \ Original(d.text)),
                   !.zones = {[loop |-> a, streaming |-> TRUE, original |-> d.text.changes]}]
       IN Becomes([State EXCEPT
                     !.doc[f] = Pushed(d, a, t),
                     !.loop[a] = [pc |-> "waiting", file |-> f, base |-> d.text.changes, n |-> 1, many |-> FALSE],
                     !.open = @ \cup {a}])
    /\ UNCHANGED tool

MayAnswer(a, what) == a \in open /\ ~loop[a].many /\ what \in Answers

\* onText: text is written into the file as it comes
Text(a) ==
    /\ a \in open /\ ~loop[a].many
    /\ Becomes([State EXCEPT !.doc[loop[a].file].text.partial = a])
    /\ UNCHANGED tool

\* onText sees a block that is not in the file: revert, abort, ask again
TextMismatch(a) ==
    /\ MayAnswer(a, "mismatch")
    /\ Becomes(Again(Write(State, a, loop[a].base), a))
    /\ UNCHANGED tool

(* onText sees a second block: hasOverlap reads endLine before its declaration *)
(* and throws, at this and at every later text.                                *)
TextManyBlocks(a) ==
    /\ MayAnswer(a, "many")
    /\ Becomes([State EXCEPT !.doc[loop[a].file].text.partial = a, !.loop[a].many = TRUE])
    /\ UNCHANGED tool

\* onFinalMessage: what the answer makes of the text the apply started from
Final(a) ==
    /\ a \in open /\ ~loop[a].many
    /\ LET s == Done(Write(State, a, loop[a].base \cup {a}), a)
       IN Becomes([s EXCEPT !.loop[a].pc = "applied", !.open = @ \ {a}])
    /\ UNCHANGED tool

\* The final message shows a block that is not in the file: another round, but for the undo
FinalMismatch(a) ==
    /\ MayAnswer(a, "mismatch")
    /\ LET s == Failed(Write([State EXCEPT !.open = @ \ {a}], a, loop[a].base), a)
       IN Becomes(IF s.loop[a].pc = "waiting" THEN Again(s, a) ELSE s)
    /\ UNCHANGED tool

FinalEmpty(a) ==
    /\ MayAnswer(a, "empty")
    /\ Becomes(Failed(Write([State EXCEPT !.open = @ \ {a}], a, loop[a].base), a))
    /\ UNCHANGED tool

\* onText throws inside onFinalMessage: neither onDone nor the promise is reached
FinalManyBlocks(a) ==
    /\ a \in open /\ loop[a].many
    /\ Becomes([State EXCEPT !.open = @ \ {a}])
    /\ UNCHANGED tool

RequestFails(a) ==
    /\ a \in open
    /\ Becomes(Failed([State EXCEPT !.open = @ \ {a}], a))
    /\ UNCHANGED tool

Ends(a) == Final(a) \/ FinalMismatch(a) \/ FinalEmpty(a) \/ FinalManyBlocks(a) \/ RequestFails(a)
Streams(a) == Text(a) \/ TextMismatch(a) \/ TextManyBlocks(a)

-----------------------------------------------------------------------------
(* edit_file *)

\* The file must not be streaming; then the tool awaits callBeforeApplyOrEdit
CheckEdit(e, f) ==
    /\ tool[e].pc = "idle"
    /\ tool' = [tool EXCEPT ![e] = [pc |-> IF Streaming(doc[f]) THEN "refused" ELSE "checked", file |-> f]]
    /\ UNCHANGED <<doc, loop, open, disturbed>>

\* Mutant: the older zone's changes count as original.
Edited_ConflictsLost(d, e) ==
    Pushed(d, NoOne,
           [d.text EXCEPT !.changes = @ \cup {e},
                          !.zones = {[loop |-> NoOne, streaming |-> FALSE, original |-> d.text.changes]}])

\* 'keep-conflicts': the original is the text without the older zone's changes
Edited(d, e) ==
    Pushed(d, NoOne,
           [d.text EXCEPT !.changes = @ \cup {e},
                          !.zones = {[loop |-> NoOne, streaming |-> FALSE, original |-> Original(d.text)]}])

\* instantlyApplySearchReplaceBlocks: in full, or undone
Edit(e) ==
    /\ tool[e].pc = "checked"
    /\ LET f == tool[e].file
           s == [Disturbed(f) EXCEPT !.doc[f] = Edited(doc[f], e)]
       IN \/ Becomes(s)
          \/ Becomes(Undone(s, f))
    /\ tool' = [tool EXCEPT ![e].pc = "done"]

-----------------------------------------------------------------------------
(* The user *)

MayPush(f) == doc[f].text.zones # {} /\ Len(doc[f].undo) < MaxUndo

\* acceptOrRejectAllDiffAreas, which looks at no stream state
Accept(f) ==
    /\ "accept" \in UserOps /\ MayPush(f)
    /\ Becomes([Disturbed(f) EXCEPT !.doc[f] = Pushed(@, NoOne, Accepted(@.text))])
    /\ UNCHANGED tool

Reject(f) ==
    /\ "reject" \in UserOps /\ MayPush(f)
    /\ Becomes([Disturbed(f) EXCEPT !.doc[f] = Pushed(@, NoOne, Rejected(@.text))])
    /\ UNCHANGED tool

Undo(f) ==
    /\ "undo" \in UserOps /\ doc[f].undo # <<>>
    /\ Becomes(Undone(State, f))
    /\ UNCHANGED tool

\* interruptURIStreaming: undo, then stop what still streams
Stop(f) ==
    /\ "stop" \in UserOps /\ Streaming(doc[f])
    /\ LET s == Undone(State, f)
       IN Becomes([AbortedAll(s, {a \in Applies : \E z \in s.doc[f].text.zones : z.loop = a /\ z.streaming})
                     EXCEPT !.doc[f] = Stopped(@)])
    /\ UNCHANGED tool

Next == \/ \E a \in Applies : Streams(a) \/ Ends(a) \/ \E f \in Files : Start(a, f)
        \/ \E e \in Edits : Edit(e) \/ \E f \in Files : CheckEdit(e, f)
        \/ \E f \in Files : Accept(f) \/ Reject(f) \/ Undo(f) \/ Stop(f)

Spec == Init /\ [][Next]_vars

-----------------------------------------------------------------------------
(* Properties *)

(* A file that shows a stream has a loop that waits: the Stop button, edit_file *)
(* and startApplying go by this flag, and nothing else ever clears it.          *)
StreamHasLoop ==
    \A f \in Files : \A z \in doc[f].text.zones :
        z.streaming => z.loop # NoOne /\ loop[z.loop].pc = "waiting" /\ loop[z.loop].file = f

(* An apply does not start on a file another one is still working on, hung or  *)
(* between two requests, unless accepting, rejecting or editing took its zone   *)
(* away, which the check of _uriIsStreaming goes by.                            *)
OneStreamPerFile ==
    [][\A a, b \in Applies :
          (loop[a].pc = "unused" /\ loop'[a].pc # "unused" /\ loop[b].pc = "waiting" /\ loop'[a].file = loop[b].file)
          => b \in disturbed]_vars

(* An apply that failed, was stopped or was undone leaves nothing of itself in *)
(* its file, neither in full nor in part.                                      *)
FailedLeavesNothing ==
    \A a \in Applies \ disturbed : loop[a].pc = "failed" =>
        \A f \in Files : a \notin doc[f].text.changes /\ doc[f].text.partial # a

(* A change in a file can be rejected, until it is accepted or taken over: the  *)
(* zone the user sees does not count it as original.                            *)
Reviewable ==
    \A f \in Files : \A x \in doc[f].text.changes \ (doc[f].text.kept \cup disturbed) :
        \E z \in doc[f].text.zones : x \notin z.original

-----------------------------------------------------------------------------
====
