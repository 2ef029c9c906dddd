--------------------------- MODULE EditCodeProofs ---------------------------
(***************************************************************************)
(* The edit code service. First its streams, for any number of files,      *)
(* applies, edits and retries: what streams has a loop, what failed leaves *)
(* nothing, and what is in a file can be reviewed. Then the review of what *)
(* they left, for any file, zones, texts and diffs: each diff and each     *)
(* zone can be decided on its own.                                         *)
(***************************************************************************)
EXTENDS ApplyStream, DiffReview, FiniteSetTheorems, SequenceTheorems, WellFoundedInduction, TLAPS

-----------------------------------------------------------------------------
\* The inductive invariant, of a state s of the handlers

States == [doc : [Files -> Doc], loop : [Applies -> Loop],
           open : SUBSET Applies, disturbed : SUBSET Applies]

Waits(s, a) == s.loop[a].pc = "waiting"
FileOf(s, a) == s.loop[a].file

\* Nothing that is neither kept nor disturbed hides in a text: a zone does not
\* count it as original, and without a zone there is none of it.
Settled(t, D) ==
  /\ \A y, z \in t.zones : y = z
  /\ \A z \in t.zones : z.original \subseteq t.kept \cup D
  /\ t.zones = {} => t.changes \subseteq t.kept \cup D

Quiet(t) == \A z \in t.zones : ~z.streaming

UndoOK(s, f, x) ==
  /\ Settled(x.before, s.disturbed) /\ Quiet(x.before)
  /\ x.by # NoOne => s.loop[x.by].pc # "unused" /\ s.loop[x.by].file = f

FilesOK(s) ==
  \A f \in Files :
    /\ Settled(s.doc[f].text, s.disturbed)
    /\ \A i \in DOMAIN s.doc[f].undo : UndoOK(s, f, s.doc[f].undo[i])

OpenOK(s) == \A a \in s.open : Waits(s, a)

StreamOK(s) ==
  \A f \in Files : \A z \in s.doc[f].text.zones :
    z.streaming => z.loop # NoOne /\ Waits(s, z.loop) /\ s.loop[z.loop].file = f

Home(s, a) == s.doc[s.loop[a].file]

\* A loop that waits shows its stream, and undoing the last change of its file
\* stops it, unless it is disturbed; the text it was started from was kept then,
\* and is in what was pushed since.
Shown(s, a) == \E z \in Home(s, a).text.zones : z.loop = a /\ z.streaming
OnTop(s, a) == Home(s, a).undo # <<>> /\ Home(s, a).undo[Len(Home(s, a).undo)].by = a
Based(s, a) ==
  /\ s.loop[a].base \subseteq Home(s, a).text.kept \cup s.disturbed
  /\ \E i \in DOMAIN Home(s, a).undo :
       /\ Home(s, a).undo[i].by = a
       /\ \A j \in DOMAIN Home(s, a).undo :
            j > i => s.loop[a].base \subseteq Home(s, a).undo[j].before.kept \cup s.disturbed

WaitOK(s, X) ==
  \A a \in Applies : Waits(s, a) =>
    /\ Based(s, a)
    /\ a \notin s.disturbed => OnTop(s, a) /\ (a \notin X => Shown(s, a))

\* An undisturbed apply that did not succeed is in no text, but for the part of
\* it that its file shows while it waits.
Without(t, a) == a \notin t.changes /\ \A z \in t.zones : a \notin z.original
Absent(s, a) ==
  /\ \A f \in Files :
       /\ Without(s.doc[f].text, a)
       /\ s.doc[f].text.partial = a => Waits(s, a) /\ s.loop[a].file = f
       /\ \A i \in DOMAIN s.doc[f].undo :
            Without(s.doc[f].undo[i].before, a) /\ s.doc[f].undo[i].before.partial # a
  /\ \A b \in Applies : a \notin s.loop[b].base
AbsentOK(s, Y) ==
  \A a \in Applies \ (s.disturbed \cup Y) : s.loop[a].pc # "applied" => Absent(s, a)

\* The handlers pass through states in which the loops X do not show their
\* streams, and the changes of Y are being written.
GoodBut(s, X, Y) ==
  s \in States /\ FilesOK(s) /\ OpenOK(s) /\ StreamOK(s) /\ WaitOK(s, X) /\ AbsentOK(s, Y)
Good(s) == GoodBut(s, {}, {})

-----------------------------------------------------------------------------
\* Types

LEMMA Assumed ==
  /\ NoOne \notin Applies /\ NoOne \notin Edits /\ Applies \cap Edits = {}
  /\ NRetries \in Nat /\ NRetries > 1 /\ Files # {}
BY ApplyAssumption DEF ApplyAssumption

LEMMA StatesDef ==
  ASSUME NEW s \in States
  PROVE  /\ s.doc \in [Files -> Doc] /\ s.loop \in [Applies -> Loop]
         /\ s.open \subseteq Applies /\ s.disturbed \subseteq Applies
         /\ \A f \in Files : s.doc[f] \in Doc /\ s.doc[f].text \in Snapshots /\ s.doc[f].undo \in Seq(Element)
         /\ \A a \in Applies : s.loop[a] \in Loop /\ s.loop[a].file \in Files
                               /\ s.loop[a].base \subseteq Authors /\ s.loop[a].n \in 0 .. (NRetries - 1)
<1>1. /\ s.doc \in [Files -> Doc] /\ s.loop \in [Applies -> Loop]
      /\ s.open \subseteq Applies /\ s.disturbed \subseteq Applies
  BY DEF States
<1>2. \A d \in Doc : d.text \in Snapshots /\ d.undo \in Seq(Element)
  BY DEF Doc
<1>3. \A l \in Loop : l.file \in Files /\ l.base \subseteq Authors /\ l.n \in 0 .. (NRetries - 1)
  BY DEF Loop
<1> QED BY <1>1, <1>2, <1>3

LEMMA PushSeq ==
  ASSUME NEW u \in Seq(Element), NEW x \in Element, NEW v, v = Append(u, x)
  PROVE  /\ v \in Seq(Element) /\ Len(u) \in Nat /\ Len(v) = Len(u) + 1
         /\ DOMAIN u = 1 .. Len(u) /\ DOMAIN v = 1 .. (Len(u) + 1) /\ v # <<>>
         /\ \A i \in DOMAIN u : v[i] = u[i]
         /\ v[Len(u) + 1] = x
OBVIOUS

LEMMA PopSeq ==
  ASSUME NEW u \in Seq(Element), u # <<>>, NEW v, v = Front(u)
  PROVE  /\ v \in Seq(Element) /\ Len(u) \in Nat /\ Len(u) >= 1 /\ Len(v) = Len(u) - 1
         /\ DOMAIN u = 1 .. Len(u) /\ DOMAIN v = 1 .. (Len(u) - 1)
         /\ \A i \in DOMAIN v : v[i] = u[i]
         /\ Last(u) = u[Len(u)] /\ u[Len(u)] \in Element /\ Len(u) \in DOMAIN u
<1>1. Len(u) \in Nat /\ Len(u) >= 1 /\ DOMAIN u = 1 .. Len(u) /\ \A i \in DOMAIN u : u[i] \in Element
  OBVIOUS
<1>2. v = SubSeq(u, 1, Len(u) - 1) /\ Last(u) = u[Len(u)]
  BY DEF Front, Last
<1>3. v \in Seq(Element) /\ Len(v) = Len(u) - 1 /\ \A i \in 1 .. Len(v) : v[i] = u[i]
  BY <1>1, <1>2
<1>4. DOMAIN v = 1 .. Len(v)
  BY <1>3
<1> QED BY <1>1, <1>2, <1>3, <1>4

LEMMA TextFields ==
  ASSUME NEW t \in Snapshots
  PROVE  /\ t.changes \subseteq Authors /\ t.kept \subseteq Authors /\ t.zones \subseteq Zone
         /\ t.partial \in Applies \cup {NoOne}
         /\ \A z \in t.zones : z.original \subseteq Authors /\ z.streaming \in BOOLEAN /\ z.loop \in Applies \cup {NoOne}
BY DEF Snapshots, Zone

\* A snapshot keeps all but the streams.
LEMMA SnapshotFields ==
  ASSUME NEW t \in Snapshots
  PROVE  LET u == Snapshot(t)
         IN /\ u \in Snapshots /\ Quiet(u)
            /\ u.changes = t.changes /\ u.partial = t.partial /\ u.kept = t.kept
            /\ \A y \in u.zones : \E z \in t.zones : y.loop = NoOne /\ ~y.streaming /\ y.original = z.original
            /\ u.zones = {} => t.zones = {}
            /\ (\A y, z \in t.zones : y = z) => (\A y, z \in u.zones : y = z)
<1> DEFINE u == Snapshot(t)
           S(z) == [z EXCEPT !.loop = NoOne, !.streaming = FALSE]
           zs == {S(z) : z \in t.zones}
<1>1. t.zones \subseteq Zone
  BY TextFields
<1>2. \A z \in Zone : S(z) \in Zone /\ S(z).loop = NoOne /\ ~S(z).streaming /\ S(z).original = z.original
  BY DEF Zone
<1>4. u = [t EXCEPT !.zones = zs]
  BY DEF Snapshot
<1> HIDE DEF S, u
<1>5. zs \subseteq Zone /\ \A y \in zs : \E z \in t.zones : y.loop = NoOne /\ ~y.streaming /\ y.original = z.original
  BY <1>1, <1>2
<1>6. zs = {} => t.zones = {}
  OBVIOUS
<1>9. (\A y, z \in t.zones : y = z) => (\A y, z \in zs : y = z)
  OBVIOUS
<1> HIDE DEF zs
<1>7. u \in Snapshots /\ u.changes = t.changes /\ u.partial = t.partial /\ u.kept = t.kept /\ u.zones = zs
  BY <1>4, <1>5 DEF Snapshots
<1>8. Quiet(u)
  BY <1>5, <1>7 DEF Quiet
<1> QED BY <1>5, <1>6, <1>7, <1>8, <1>9 DEF u

LEMMA SettledSnapshot ==
  ASSUME NEW t \in Snapshots, NEW D, Settled(t, D)
  PROVE  Settled(Snapshot(t), D) /\ Quiet(Snapshot(t))
<1> DEFINE u == Snapshot(t)
<1>1. /\ Quiet(u) /\ u.changes = t.changes /\ u.kept = t.kept
      /\ \A y \in u.zones : \E z \in t.zones : y.loop = NoOne /\ ~y.streaming /\ y.original = z.original
      /\ u.zones = {} => t.zones = {}
  BY SnapshotFields
<1>2. \A y, z \in u.zones : y = z
  BY SnapshotFields DEF Settled
<1> HIDE DEF u
<1>3. \A z \in u.zones : z.original \subseteq u.kept \cup D
  BY <1>1 DEF Settled
<1>4. u.zones = {} => u.changes \subseteq u.kept \cup D
  BY <1>1 DEF Settled
<1> QED BY <1>1, <1>2, <1>3, <1>4 DEF Settled, u

LEMMA WithoutSnapshot ==
  ASSUME NEW t \in Snapshots, NEW a, Without(t, a)
  PROVE  Without(Snapshot(t), a)
BY SnapshotFields DEF Without

LEMMA SettledMore ==
  ASSUME NEW t, NEW D, NEW E, D \subseteq E, Settled(t, D)
  PROVE  Settled(t, E)
BY DEF Settled

\* Stopping the streams of a file
LEMMA StoppedFields ==
  ASSUME NEW d \in Doc
  PROVE  LET e == Stopped(d)
         IN /\ e \in Doc /\ e.undo = d.undo /\ Quiet(e.text)
            /\ e.text.changes = d.text.changes /\ e.text.partial = d.text.partial /\ e.text.kept = d.text.kept
            /\ \A y \in e.text.zones : \E z \in d.text.zones : y.loop = z.loop /\ ~y.streaming /\ y.original = z.original
            /\ e.text.zones = {} => d.text.zones = {}
            /\ (\A y, z \in d.text.zones : y = z) => (\A y, z \in e.text.zones : y = z)
            /\ Quiet(d.text) => e.text.zones = d.text.zones
<1> DEFINE e == Stopped(d)
           S(z) == [z EXCEPT !.streaming = FALSE]
           zs == {S(z) : z \in d.text.zones}
<1>1. d.text \in Snapshots /\ d.text.zones \subseteq Zone
  BY TextFields DEF Doc
<1>2. \A z \in Zone : S(z) \in Zone /\ S(z).loop = z.loop /\ ~S(z).streaming /\ S(z).original = z.original
  BY DEF Zone
<1>3. \A z \in Zone : ~z.streaming => S(z) = z
  BY DEF Zone
<1>4. e = [d EXCEPT !.text.zones = zs]
  BY DEF Stopped
<1> HIDE DEF S, e
<1>5. zs \subseteq Zone /\ \A y \in zs : \E z \in d.text.zones : y.loop = z.loop /\ ~y.streaming /\ y.original = z.original
  BY <1>1, <1>2
<1>6. zs = {} => d.text.zones = {}
  OBVIOUS
<1>7. (\A y, z \in d.text.zones : y = z) => (\A y, z \in zs : y = z)
  OBVIOUS
<1>8. ASSUME Quiet(d.text) PROVE zs = d.text.zones
  <2>1. \A z \in d.text.zones : S(z) = z
    BY <1>1, <1>3, <1>8 DEF Quiet
  <2> QED BY <2>1
<1> HIDE DEF zs
<1>9. /\ e \in Doc /\ e.undo = d.undo /\ e.text.zones = zs
      /\ e.text.changes = d.text.changes /\ e.text.partial = d.text.partial /\ e.text.kept = d.text.kept
  BY <1>1, <1>4, <1>5 DEF Snapshots, Doc
<1>10. Quiet(e.text)
  BY <1>5, <1>9 DEF Quiet
<1> QED BY <1>5, <1>6, <1>7, <1>8, <1>9, <1>10 DEF e

-----------------------------------------------------------------------------
\* What the parts of the handlers change

SameLoop(l, k) == l.file = k.file /\ l.base = k.base /\ l.n = k.n /\ l.many = k.many

LEMMA LoopPc ==
  ASSUME NEW l \in Loop, NEW pc \in {"unused", "waiting", "applied", "failed"}
  PROVE  [l EXCEPT !.pc = pc] \in Loop /\ [l EXCEPT !.pc = pc].pc = pc /\ SameLoop([l EXCEPT !.pc = pc], l)
BY DEF Loop, SameLoop

LEMMA LoopPcs == ASSUME NEW l \in Loop PROVE l.pc \in {"unused", "waiting", "applied", "failed"}
BY DEF Loop

LEMMA AbortedFields ==
  ASSUME NEW s \in States, NEW b \in Applies, NEW u, u = Aborted(s, b)
  PROVE  /\ u \in States /\ u.doc = s.doc /\ u.open = s.open \ {b} /\ u.disturbed = s.disturbed
         /\ \A a \in Applies : /\ SameLoop(u.loop[a], s.loop[a])
                               /\ u.loop[a].pc = IF Waits(s, a) /\ a = b THEN "failed" ELSE s.loop[a].pc
<1> DEFINE pc == IF s.loop[b].pc = "waiting" THEN "failed" ELSE s.loop[b].pc
           l == [s.loop[b] EXCEPT !.pc = pc]
<1>1. s.loop \in [Applies -> Loop] /\ s.loop[b] \in Loop /\ s.open \subseteq Applies
  BY StatesDef
<1>9. pc \in {"unused", "waiting", "applied", "failed"}
  BY <1>1, LoopPcs
<1> HIDE DEF pc
<1>2. l \in Loop /\ l.pc = pc /\ SameLoop(l, s.loop[b])
  BY <1>1, <1>9, LoopPc
<1>3. u = [s EXCEPT !.open = s.open \ {b}, !.loop = [s.loop EXCEPT ![b] = l]]
  BY DEF Aborted, pc
<1> HIDE DEF l
<1>4. [s.loop EXCEPT ![b] = l] \in [Applies -> Loop]
  BY <1>1, <1>2
<1>5. /\ u \in States /\ u.doc = s.doc /\ u.open = s.open \ {b} /\ u.disturbed = s.disturbed
      /\ u.loop = [s.loop EXCEPT ![b] = l]
  BY <1>1, <1>3, <1>4 DEF States
<1>6. \A a \in Applies : u.loop[a] = IF a = b THEN l ELSE s.loop[a]
  BY <1>1, <1>5
<1>7. \A a \in Applies : SameLoop(u.loop[a], s.loop[a])
  BY <1>2, <1>6 DEF SameLoop
<1>8. \A a \in Applies : u.loop[a].pc = IF Waits(s, a) /\ a = b THEN "failed" ELSE s.loop[a].pc
  BY <1>2, <1>6 DEF Waits, pc
<1> QED BY <1>5, <1>7, <1>8

LEMMA AbortedAllFields ==
  ASSUME NEW s \in States, NEW as \in SUBSET Applies, NEW u, u = AbortedAll(s, as)
  PROVE  /\ u \in States /\ u.doc = s.doc /\ u.open = s.open \ as /\ u.disturbed = s.disturbed
         /\ \A a \in Applies : /\ SameLoop(u.loop[a], s.loop[a])
                               /\ u.loop[a].pc = IF Waits(s, a) /\ a \in as THEN "failed" ELSE s.loop[a].pc
<1> DEFINE L(a) == IF a \in as /\ s.loop[a].pc = "waiting" THEN [s.loop[a] EXCEPT !.pc = "failed"] ELSE s.loop[a]
           ls == [a \in Applies |-> L(a)]
<1>1. s.loop \in [Applies -> Loop] /\ (\A a \in Applies : s.loop[a] \in Loop) /\ s.open \subseteq Applies
  BY StatesDef
<1>2. \A a \in Applies : /\ L(a) \in Loop /\ SameLoop(L(a), s.loop[a])
                         /\ L(a).pc = IF Waits(s, a) /\ a \in as THEN "failed" ELSE s.loop[a].pc
  <2> TAKE a \in Applies
  <2>1. CASE a \in as /\ s.loop[a].pc = "waiting"
    BY <1>1, <2>1, LoopPc DEF Waits
  <2>2. CASE ~(a \in as /\ s.loop[a].pc = "waiting")
    BY <1>1, <2>2 DEF Waits, SameLoop
  <2> QED BY <2>1, <2>2
<1>3. u = [s EXCEPT !.open = s.open \ as, !.loop = ls]
  BY DEF AbortedAll
<1> HIDE DEF L
<1>4. ls \in [Applies -> Loop] /\ \A a \in Applies : ls[a] = L(a)
  BY <1>2
<1> HIDE DEF ls
<1>5. /\ u \in States /\ u.doc = s.doc /\ u.open = s.open \ as /\ u.disturbed = s.disturbed
      /\ u.loop = ls
  BY <1>1, <1>3, <1>4 DEF States
<1> QED BY <1>2, <1>4, <1>5

LEMMA UndoneFields ==
  ASSUME NEW s \in States, NEW f \in Files, s.doc[f].undo # <<>>,
         NEW u, u = Undone(s, f), NEW top, top = Last(s.doc[f].undo)
  PROVE  /\ u \in States /\ top \in Element
         /\ u.doc[f].text = top.before /\ u.doc[f].undo = Front(s.doc[f].undo)
         /\ \A g \in Files : g # f => u.doc[g] = Stopped(s.doc[g])
         /\ u.open = s.open \ ({top.by} \cup StreamLoops(s))
         /\ u.disturbed = s.disturbed \cup {a \in StreamLoops(s) : Waits(s, a) /\ a # top.by}
         /\ \A a \in Applies :
              /\ SameLoop(u.loop[a], s.loop[a])
              /\ u.loop[a].pc = IF Waits(s, a) /\ a \in {top.by} \cup StreamLoops(s)
                                THEN "failed" ELSE s.loop[a].pc
<1> DEFINE s1 == IF top.by = NoOne THEN s ELSE Aborted(s, top.by)
           as == StreamLoops(s1)
           hit == {a \in as : s1.loop[a].pc = "waiting"}
           s2 == AbortedAll(s1, as)
           D(g) == IF g = f THEN [text |-> top.before, undo |-> Front(s.doc[f].undo)] ELSE Stopped(s.doc[g])
           ds == [g \in Files |-> D(g)]
<1>1. /\ s.doc \in [Files -> Doc] /\ s.open \subseteq Applies /\ s.doc[f].undo \in Seq(Element)
      /\ \A g \in Files : s.doc[g] \in Doc
  BY StatesDef
<1>2. /\ top \in Element /\ Front(s.doc[f].undo) \in Seq(Element)
      /\ top.before \in Snapshots /\ top.by \in Applies \cup {NoOne}
  <2>1. top \in Element /\ Front(s.doc[f].undo) \in Seq(Element)
    BY <1>1, PopSeq
  <2> QED BY <2>1 DEF Element
<1>3. /\ s1 \in States /\ s1.doc = s.doc /\ s1.open = s.open \ {top.by} /\ s1.disturbed = s.disturbed
      /\ \A a \in Applies : /\ SameLoop(s1.loop[a], s.loop[a])
                            /\ s1.loop[a].pc = IF Waits(s, a) /\ a = top.by THEN "failed" ELSE s.loop[a].pc
  <2>1. CASE top.by = NoOne
    <3>1. s1 = s /\ NoOne \notin Applies /\ \A a \in Applies : a # top.by
      BY <2>1, Assumed
    <3>2. s.open = s.open \ {top.by}
      BY <1>1, <2>1, <3>1
    <3> HIDE DEF s1
    <3> QED BY <3>1, <3>2 DEF SameLoop
  <2>2. CASE top.by # NoOne
    <3>1. top.by \in Applies /\ s1 = Aborted(s, top.by)
      BY <1>2, <2>2
    <3> HIDE DEF s1
    <3> QED BY <3>1, AbortedFields
  <2> QED BY <2>1, <2>2
<1>4. u = [s2 EXCEPT !.doc = ds, !.disturbed = s2.disturbed \cup hit]
  BY DEF Undone
<1> HIDE DEF s1
<1>5. as = StreamLoops(s) /\ as \subseteq Applies
  BY <1>3 DEF StreamLoops
<1>6. hit = {a \in StreamLoops(s) : Waits(s, a) /\ a # top.by}
  <2>1. \A a \in as : s1.loop[a].pc = "waiting" <=> Waits(s, a) /\ a # top.by
    BY <1>3, <1>5 DEF Waits
  <2> QED BY <1>5, <2>1
<1> HIDE DEF as, hit
<1>7. /\ s2 \in States /\ s2.doc = s.doc /\ s2.open = s1.open \ as /\ s2.disturbed = s.disturbed
      /\ \A a \in Applies : /\ SameLoop(s2.loop[a], s1.loop[a])
                            /\ s2.loop[a].pc = IF Waits(s1, a) /\ a \in as THEN "failed" ELSE s1.loop[a].pc
  BY <1>3, <1>5, AbortedAllFields
<1> HIDE DEF s2
<1>8. \A g \in Files : D(g) \in Doc
  BY <1>1, <1>2, StoppedFields DEF Doc
<1>9. D(f).text = top.before /\ D(f).undo = Front(s.doc[f].undo) /\ \A g \in Files : g # f => D(g) = Stopped(s.doc[g])
  OBVIOUS
<1> HIDE DEF D
<1>10. ds \in [Files -> Doc] /\ \A g \in Files : ds[g] = D(g)
  BY <1>8
<1> HIDE DEF ds
<1>11. s2.disturbed \subseteq Applies /\ hit \subseteq Applies
  BY <1>5, <1>6, <1>7, StatesDef
<1>12. /\ u \in States /\ u.doc = ds /\ u.loop = s2.loop /\ u.open = s2.open
       /\ u.disturbed = s2.disturbed \cup hit
  BY <1>4, <1>7, <1>10, <1>11 DEF States
<1>13. u.open = s.open \ ({top.by} \cup StreamLoops(s))
  BY <1>3, <1>5, <1>7, <1>12
<1>14. \A a \in Applies : SameLoop(u.loop[a], s.loop[a])
  <2> TAKE a \in Applies
  <2>1. SameLoop(s1.loop[a], s.loop[a]) /\ SameLoop(s2.loop[a], s1.loop[a]) /\ u.loop[a] = s2.loop[a]
    BY <1>3, <1>7, <1>12
  <2> QED BY <2>1 DEF SameLoop
<1>15. \A a \in Applies : u.loop[a].pc = IF Waits(s, a) /\ a \in {top.by} \cup StreamLoops(s)
                                         THEN "failed" ELSE s.loop[a].pc
  BY <1>3, <1>5, <1>7, <1>12 DEF Waits
<1> QED BY <1>2, <1>6, <1>7, <1>9, <1>10, <1>12, <1>13, <1>14, <1>15

-----------------------------------------------------------------------------
\* Undoing

LEMMA SettledStopped ==
  ASSUME NEW d \in Doc, NEW D, Settled(d.text, D)
  PROVE  Settled(Stopped(d).text, D)
<1> DEFINE e == Stopped(d)
<1>1. /\ e.text.changes = d.text.changes /\ e.text.kept = d.text.kept
      /\ \A y \in e.text.zones : \E z \in d.text.zones : y.original = z.original
      /\ e.text.zones = {} => d.text.zones = {}
  BY StoppedFields
<1>2. \A y, z \in e.text.zones : y = z
  BY StoppedFields DEF Settled
<1> HIDE DEF e
<1>3. \A z \in e.text.zones : z.original \subseteq e.text.kept \cup D
  BY <1>1 DEF Settled
<1>4. e.text.zones = {} => e.text.changes \subseteq e.text.kept \cup D
  BY <1>1 DEF Settled
<1> QED BY <1>2, <1>3, <1>4 DEF Settled, e

LEMMA WithoutStopped ==
  ASSUME NEW d \in Doc, NEW a, Without(d.text, a)
  PROVE  Without(Stopped(d).text, a)
BY StoppedFields DEF Without

\* After an undo nothing streams, and only disturbed loops wait.
LEMMA UndoneGood ==
  ASSUME NEW X, NEW Y, NEW s, GoodBut(s, X, Y), NEW f \in Files, s.doc[f].undo # <<>>,
         \A a \in X : s.loop[a].file = f,
         NEW u, u = Undone(s, f)
  PROVE  /\ GoodBut(u, {}, Y)
         /\ \A g \in Files : Quiet(u.doc[g].text)
         /\ \A a \in Applies : /\ SameLoop(u.loop[a], s.loop[a])
                               /\ u.loop[a].pc \in {s.loop[a].pc, "failed"}
                               /\ Waits(u, a) => Waits(s, a) /\ a \in u.disturbed
                               /\ u.loop[a].pc # s.loop[a].pc => Waits(s, a)
         /\ u.open \subseteq s.open /\ s.disturbed \subseteq u.disturbed
<1> DEFINE top == Last(s.doc[f].undo)
           n == Len(s.doc[f].undo)
           out == {top.by} \cup StreamLoops(s)
<1>1. s \in States /\ FilesOK(s) /\ OpenOK(s) /\ StreamOK(s) /\ WaitOK(s, X) /\ AbsentOK(s, Y)
  BY DEF GoodBut
<1>2. /\ \A g \in Files : s.doc[g] \in Doc /\ s.doc[g].undo \in Seq(Element)
      /\ \A a \in Applies : s.loop[a].file \in Files
  BY <1>1, StatesDef
<1>3. /\ u \in States /\ top \in Element
      /\ u.doc[f].text = top.before /\ u.doc[f].undo = Front(s.doc[f].undo)
      /\ \A g \in Files : g # f => u.doc[g] = Stopped(s.doc[g])
      /\ u.open = s.open \ out
      /\ u.disturbed = s.disturbed \cup {a \in StreamLoops(s) : Waits(s, a) /\ a # top.by}
      /\ \A a \in Applies :
           /\ SameLoop(u.loop[a], s.loop[a])
           /\ u.loop[a].pc = IF Waits(s, a) /\ a \in out THEN "failed" ELSE s.loop[a].pc
  BY <1>1, UndoneFields
<1>4. /\ n \in Nat /\ n >= 1 /\ n \in DOMAIN s.doc[f].undo /\ top = s.doc[f].undo[n]
      /\ DOMAIN s.doc[f].undo = 1 .. n /\ DOMAIN u.doc[f].undo = 1 .. (n - 1)
      /\ \A i \in DOMAIN u.doc[f].undo : u.doc[f].undo[i] = s.doc[f].undo[i]
  BY <1>2, <1>3, PopSeq
<1>5. \A g \in Files : g # f => u.doc[g].undo = s.doc[g].undo
  BY <1>2, <1>3, StoppedFields
<1>6. UndoOK(s, f, top)
  BY <1>1, <1>4 DEF FilesOK
<1> HIDE DEF top, n
<1>7. s.disturbed \subseteq u.disturbed /\ u.open \subseteq s.open
  BY <1>3
<1>8. \A a \in Applies : /\ u.loop[a].pc \in {s.loop[a].pc, "failed"}
                         /\ u.loop[a].pc # s.loop[a].pc => Waits(s, a)
                         /\ Waits(u, a) => Waits(s, a) /\ a \notin out
                         /\ u.loop[a].file = s.loop[a].file /\ u.loop[a].base = s.loop[a].base
  <2> TAKE a \in Applies
  <2>1. SameLoop(u.loop[a], s.loop[a]) /\ u.loop[a].pc = IF Waits(s, a) /\ a \in out THEN "failed" ELSE s.loop[a].pc
    BY <1>3
  <2> HIDE DEF out
  <2> QED BY <2>1 DEF SameLoop, Waits
\* An undisturbed loop that waits is stopped, and disturbed unless the change was its own.
<1>9. ASSUME NEW a \in Applies, Waits(s, a), a \notin s.disturbed
      PROVE  a \in out /\ (s.loop[a].file # f => a \in u.disturbed)
  <2>1. OnTop(s, a) /\ (a \notin X => Shown(s, a))
    BY <1>1, <1>9 DEF WaitOK
  <2>2. CASE s.loop[a].file = f
    <3>1. s.doc[f].undo[n].by = a
      BY <2>1, <2>2 DEF OnTop, Home, n
    <3> QED BY <1>4, <2>2, <3>1
  <2>3. CASE s.loop[a].file # f
    <3>1. Shown(s, a)
      BY <2>1, <2>3
    <3>2. a \in StreamLoops(s)
      BY <1>2, <3>1 DEF Shown, Home, StreamLoops
    <3>3. a # top.by
      BY <1>6, <2>3, Assumed DEF UndoOK
    <3> QED BY <1>3, <1>9, <3>2, <3>3
  <2> QED BY <2>2, <2>3
<1> HIDE DEF out
<1>10. \A a \in Applies : Waits(u, a) => Waits(s, a) /\ a \in u.disturbed
  BY <1>7, <1>8, <1>9
<1>11. FilesOK(u)
  <2> SUFFICES ASSUME NEW g \in Files
               PROVE  /\ Settled(u.doc[g].text, u.disturbed)
                      /\ \A i \in DOMAIN u.doc[g].undo : UndoOK(u, g, u.doc[g].undo[i])
    BY DEF FilesOK
  <2>1. Settled(u.doc[g].text, s.disturbed)
    <3>1. CASE g = f
      BY <1>3, <1>6, <3>1 DEF UndoOK
    <3>2. CASE g # f
      BY <1>1, <1>2, <1>3, <3>2, SettledStopped DEF FilesOK
    <3> QED BY <3>1, <3>2
  <2>2. Settled(u.doc[g].text, u.disturbed)
    BY <1>7, <2>1, SettledMore
  <2>3. ASSUME NEW i \in DOMAIN u.doc[g].undo
        PROVE  UndoOK(u, g, u.doc[g].undo[i])
    <3> DEFINE x == u.doc[g].undo[i]
    <3>1. i \in DOMAIN s.doc[g].undo /\ x = s.doc[g].undo[i]
      <4>1. CASE g = f
        BY <1>4, <4>1
      <4>2. CASE g # f
        BY <1>5, <4>2
      <4> QED BY <4>1, <4>2
    <3>2. UndoOK(s, g, x) /\ x \in Element
      BY <1>1, <1>2, <3>1 DEF FilesOK
    <3> HIDE DEF x
    <3>3. Settled(x.before, u.disturbed)
      BY <1>7, <3>2, SettledMore DEF UndoOK
    <3>4. x.by \in Applies \cup {NoOne}
      BY <3>2 DEF Element
    <3>5. x.by # NoOne => u.loop[x.by].pc # "unused" /\ u.loop[x.by].file = g
      BY <1>8, <3>2, <3>4 DEF UndoOK
    <3> QED BY <3>2, <3>3, <3>5 DEF UndoOK, x
  <2> QED BY <2>2, <2>3
<1>12. OpenOK(u)
  <2> SUFFICES ASSUME NEW a \in u.open PROVE Waits(u, a)
    BY DEF OpenOK
  <2>1. a \in s.open /\ a \notin out /\ a \in Applies /\ Waits(s, a)
    BY <1>1, <1>3, StatesDef DEF OpenOK
  <2> QED BY <1>3, <2>1 DEF Waits
<1>13. \A g \in Files : Quiet(u.doc[g].text)
  <2> TAKE g \in Files
  <2>1. CASE g = f
    BY <1>3, <1>6, <2>1 DEF UndoOK
  <2>2. CASE g # f
    BY <1>2, <1>3, <2>2, StoppedFields
  <2> QED BY <2>1, <2>2
<1>14. StreamOK(u)
  BY <1>13 DEF StreamOK, Quiet
<1>15. ASSUME NEW a \in Applies, Waits(u, a) PROVE Based(u, a)
  <2> DEFINE h == s.loop[a].file
             b == s.loop[a].base
  <2>1. Waits(s, a) /\ a \notin out /\ h \in Files /\ u.loop[a].file = h /\ u.loop[a].base = b
    BY <1>2, <1>8, <1>15
  <2>2. Based(s, a)
    BY <1>1, <2>1 DEF WaitOK
  <2>3. PICK i \in DOMAIN s.doc[h].undo :
          /\ s.doc[h].undo[i].by = a
          /\ \A j \in DOMAIN s.doc[h].undo : j > i => b \subseteq s.doc[h].undo[j].before.kept \cup s.disturbed
    BY <2>2 DEF Based, Home
  <2>4. b \subseteq s.doc[h].text.kept \cup s.disturbed
    BY <2>2 DEF Based, Home
  <2> HIDE DEF h, b
  <2>5. CASE h = f
    <3>1. i # n /\ i \in 1 .. n
      BY <1>4, <2>1, <2>3, <2>5 DEF out
    <3>2. i \in DOMAIN u.doc[f].undo /\ n > i
      BY <1>4, <3>1
    <3>3. b \subseteq top.before.kept \cup s.disturbed
      BY <1>4, <2>3, <2>5, <3>2
    <3>4. b \subseteq u.doc[f].text.kept \cup u.disturbed
      BY <1>3, <1>7, <3>3
    <3>5. u.doc[f].undo[i].by = a
      BY <1>4, <2>3, <2>5, <3>2
    <3>6. \A j \in DOMAIN u.doc[f].undo : j \in DOMAIN s.doc[f].undo
      BY <1>4
    <3>7. \A j \in DOMAIN u.doc[f].undo : j > i => b \subseteq u.doc[f].undo[j].before.kept \cup u.disturbed
      BY <1>4, <1>7, <2>3, <2>5, <3>6
    <3> QED BY <2>1, <2>5, <3>2, <3>4, <3>5, <3>7 DEF Based, Home
  <2>6. CASE h # f
    <3>1. u.doc[h].undo = s.doc[h].undo /\ u.doc[h].text.kept = s.doc[h].text.kept
      BY <1>2, <1>3, <1>5, <2>1, <2>6, StoppedFields
    <3>2. b \subseteq u.doc[h].text.kept \cup u.disturbed
      BY <1>7, <2>4, <3>1
    <3>3. \A j \in DOMAIN u.doc[h].undo : j > i => b \subseteq u.doc[h].undo[j].before.kept \cup u.disturbed
      BY <1>7, <2>3, <3>1
    <3> QED BY <2>1, <2>3, <3>1, <3>2, <3>3 DEF Based, Home
  <2> QED BY <2>5, <2>6
<1>16. WaitOK(u, {})
  BY <1>10, <1>15 DEF WaitOK
<1>17. AbsentOK(u, Y)
  <2> SUFFICES ASSUME NEW a \in Applies, a \notin u.disturbed, a \notin Y, u.loop[a].pc # "applied"
               PROVE  Absent(u, a)
    BY DEF AbsentOK
  <2>1. a \notin s.disturbed /\ s.loop[a].pc # "applied"
    BY <1>7, <1>8 DEF Waits
  <2>2. Absent(s, a)
    BY <1>1, <2>1 DEF AbsentOK
  <2>3. \A b \in Applies : a \notin u.loop[b].base
    BY <1>8, <2>2 DEF Absent
  <2>4. ASSUME NEW g \in Files
        PROVE  /\ Without(u.doc[g].text, a) /\ u.doc[g].text.partial # a
               /\ \A i \in DOMAIN u.doc[g].undo :
                    Without(u.doc[g].undo[i].before, a) /\ u.doc[g].undo[i].before.partial # a
    <3>1. CASE g = f
      <4>1. \A i \in DOMAIN u.doc[f].undo : i \in DOMAIN s.doc[f].undo
        BY <1>4
      <4>2. Without(top.before, a) /\ top.before.partial # a
        BY <1>4, <2>2 DEF Absent
      <4>3. ASSUME NEW i \in DOMAIN u.doc[f].undo
            PROVE  Without(u.doc[f].undo[i].before, a) /\ u.doc[f].undo[i].before.partial # a
        BY <1>4, <2>2, <4>1 DEF Absent
      <4> QED BY <1>3, <3>1, <4>2, <4>3
    <3>2. CASE g # f
      <4>1. Without(u.doc[g].text, a)
        <5>1. Without(s.doc[g].text, a)
          BY <2>2 DEF Absent
        <5>2. s.doc[g] \in Doc /\ u.doc[g] = Stopped(s.doc[g])
          BY <1>2, <1>3, <3>2
        <5> QED BY <5>1, <5>2, WithoutStopped
      <4>2. u.doc[g].text.partial = s.doc[g].text.partial
        BY <1>2, <1>3, <3>2, StoppedFields
      <4>3. u.doc[g].text.partial # a
        BY <1>9, <2>1, <2>2, <3>2, <4>2 DEF Absent
      <4> QED BY <1>5, <2>2, <3>2, <4>1, <4>3 DEF Absent
    <3> QED BY <3>1, <3>2
  <2> QED BY <2>3, <2>4 DEF Absent
<1>18. GoodBut(u, {}, Y)
  BY <1>3, <1>11, <1>12, <1>14, <1>16, <1>17 DEF GoodBut
<1>19. \A a \in Applies : SameLoop(u.loop[a], s.loop[a])
  BY <1>3
<1> QED BY <1>7, <1>8, <1>10, <1>13, <1>18, <1>19 DEF Good

-----------------------------------------------------------------------------
\* Writing, and the end of a stream

\* An apply that is not used yet is not used by what another one does.
Keeps(s, u) == \A a \in Applies : s.loop[a].pc = "unused" => u.loop[a].pc = "unused"

LEMMA KeepsTrans == ASSUME NEW s, NEW u, NEW v, Keeps(s, u), Keeps(u, v) PROVE Keeps(s, v)
BY DEF Keeps

\* The zones of a text, of which some may have stopped
StoppedZones(old, new, X) ==
  /\ \A y, z \in new : y = z
  /\ \A y \in new : \E z \in old : y.loop = z.loop /\ y.original = z.original /\ (y.streaming => z.streaming)
  /\ new = {} => old = {}
  /\ \A z \in old : z.streaming /\ z.loop \notin X => z \in new

\* What a handler does to a file, as predicates of the states before and after it:
\* only its text is rewritten, some streams stop, nothing new hides in it.
Rewritten(s, u, f) ==
  /\ u \in States /\ u.disturbed = s.disturbed /\ \A a \in u.open : Waits(s, a)
  /\ \A a \in Applies : /\ u.loop[a].pc = s.loop[a].pc /\ u.loop[a].file = s.loop[a].file
                        /\ u.loop[a].base = s.loop[a].base
  /\ \A g \in Files : g # f => u.doc[g] = s.doc[g]
  /\ u.doc[f].undo = s.doc[f].undo /\ u.doc[f].text.kept = s.doc[f].text.kept
ZonesStop(s, u, f, Z) == StoppedZones(s.doc[f].text.zones, u.doc[f].text.zones, Z)
WellWritten(s, u, f, Y) ==
  /\ u.doc[f].text.zones = {} => u.doc[f].text.changes \subseteq u.doc[f].text.kept \cup s.disturbed
  /\ \A b \in Applies \ (s.disturbed \cup Y) : s.loop[b].pc # "applied" =>
       b \notin u.doc[f].text.changes /\ (u.doc[f].text.partial = b => Waits(s, b) /\ s.loop[b].file = f)

\* The text of a file is rewritten, or its zone stops; nothing is pushed.
LEMMA TextChange ==
  ASSUME NEW X, NEW Y, NEW Z, X \subseteq Z, NEW s, GoodBut(s, X, Y), NEW f \in Files, NEW u,
         Rewritten(s, u, f), ZonesStop(s, u, f, Z), WellWritten(s, u, f, Y)
  PROVE  GoodBut(u, Z, Y)
<1>21. /\ u \in States /\ u.disturbed = s.disturbed /\ \A a \in u.open : Waits(s, a)
      /\ \A a \in Applies : /\ u.loop[a].pc = s.loop[a].pc /\ u.loop[a].file = s.loop[a].file
                            /\ u.loop[a].base = s.loop[a].base
  BY DEF Rewritten
<1>22. /\ \A g \in Files : g # f => u.doc[g] = s.doc[g]
      /\ u.doc[f].undo = s.doc[f].undo /\ u.doc[f].text.kept = s.doc[f].text.kept
  BY DEF Rewritten
<1>23. StoppedZones(s.doc[f].text.zones, u.doc[f].text.zones, Z)
  BY DEF ZonesStop
<1>24. u.doc[f].text.zones = {} => u.doc[f].text.changes \subseteq u.doc[f].text.kept \cup s.disturbed
  BY DEF WellWritten
<1>25. \A b \in Applies \ (s.disturbed \cup Y) : s.loop[b].pc # "applied" =>
        b \notin u.doc[f].text.changes /\ (u.doc[f].text.partial = b => Waits(s, b) /\ s.loop[b].file = f)
  BY DEF WellWritten
<1> USE <1>21, <1>22, <1>23, <1>24, <1>25
<1>1. s \in States /\ FilesOK(s) /\ OpenOK(s) /\ StreamOK(s) /\ WaitOK(s, X) /\ AbsentOK(s, Y)
  BY DEF GoodBut
<1>2. /\ \A g \in Files : s.doc[g].undo \in Seq(Element)
      /\ \A a \in Applies : s.loop[a].file \in Files
  BY <1>1, StatesDef
<1>3. \A g \in Files : u.doc[g].undo = s.doc[g].undo /\ u.doc[g].text.kept = s.doc[g].text.kept
  OBVIOUS
<1>4. \A a \in Applies : Waits(u, a) <=> Waits(s, a)
  BY DEF Waits
<1>5. FilesOK(u)
  <2> SUFFICES ASSUME NEW g \in Files
               PROVE  /\ Settled(u.doc[g].text, u.disturbed)
                      /\ \A i \in DOMAIN u.doc[g].undo : UndoOK(u, g, u.doc[g].undo[i])
    BY DEF FilesOK
  <2>1. Settled(u.doc[g].text, u.disturbed)
    <3>1. CASE g # f
      BY <1>1, <3>1 DEF FilesOK
    <3>2. CASE g = f
      <4>1. \A z \in s.doc[f].text.zones : z.original \subseteq s.doc[f].text.kept \cup s.disturbed
        BY <1>1 DEF FilesOK, Settled
      <4>2. \A y \in u.doc[f].text.zones : y.original \subseteq u.doc[f].text.kept \cup s.disturbed
        BY <4>1 DEF StoppedZones
      <4>3. \A y, z \in u.doc[f].text.zones : y = z
        BY DEF StoppedZones
      <4> QED BY <3>2, <4>2, <4>3 DEF Settled
    <3> QED BY <3>1, <3>2
  <2>2. ASSUME NEW i \in DOMAIN u.doc[g].undo
        PROVE  UndoOK(u, g, u.doc[g].undo[i])
    <3> DEFINE x == u.doc[g].undo[i]
    <3>1. x = s.doc[g].undo[i] /\ i \in DOMAIN s.doc[g].undo
      BY <1>3
    <3>2. UndoOK(s, g, x) /\ x \in Element
      BY <1>1, <1>2, <3>1 DEF FilesOK
    <3> HIDE DEF x
    <3>4. x.by \in Applies \cup {NoOne}
      BY <3>2 DEF Element
    <3>3. x.by # NoOne => u.loop[x.by].pc # "unused" /\ u.loop[x.by].file = g
      BY <3>2, <3>4 DEF UndoOK
    <3> QED BY <3>2, <3>3 DEF UndoOK, x
  <2> QED BY <2>1, <2>2
<1>6. OpenOK(u)
  BY <1>4, StatesDef DEF OpenOK
<1>7. StreamOK(u)
  <2> SUFFICES ASSUME NEW g \in Files, NEW y \in u.doc[g].text.zones, y.streaming
               PROVE  y.loop # NoOne /\ Waits(u, y.loop) /\ u.loop[y.loop].file = g
    BY DEF StreamOK
  <2>1. PICK z \in s.doc[g].text.zones : y.loop = z.loop /\ z.streaming
    <3>1. CASE g = f
      BY <3>1 DEF StoppedZones
    <3>2. CASE g # f
      BY <3>2
    <3> QED BY <3>1, <3>2
  <2>2. z.loop # NoOne /\ Waits(s, z.loop) /\ s.loop[z.loop].file = g
    BY <1>1, <2>1 DEF StreamOK
  <2>3. z.loop \in Applies
    BY <1>1, <2>2, StatesDef, TextFields
  <2> QED BY <1>4, <2>1, <2>2, <2>3
<1>8. WaitOK(u, Z)
  <2> SUFFICES ASSUME NEW a \in Applies, Waits(u, a)
               PROVE  Based(u, a) /\ (a \notin u.disturbed => OnTop(u, a) /\ (a \notin Z => Shown(u, a)))
    BY DEF WaitOK
  <2> DEFINE h == s.loop[a].file
  <2>1. h \in Files /\ u.loop[a].file = h /\ u.loop[a].base = s.loop[a].base
    BY <1>2
  <2>2. u.doc[h].undo = s.doc[h].undo /\ u.doc[h].text.kept = s.doc[h].text.kept
    BY <1>3, <2>1
  <2>3. Based(s, a) /\ (a \notin s.disturbed => OnTop(s, a) /\ (a \notin Z => Shown(s, a)))
    BY <1>1, <1>4 DEF WaitOK
  <2>3a. /\ Home(u, a).undo = Home(s, a).undo /\ Home(u, a).text.kept = Home(s, a).text.kept
         /\ u.loop[a].base = s.loop[a].base /\ u.disturbed = s.disturbed
    BY <2>1, <2>2 DEF Home
  <2>4. Based(u, a)
    BY <2>3, <2>3a DEF Based
  <2>5. OnTop(s, a) => OnTop(u, a)
    BY <2>3a DEF OnTop
  <2>6. ASSUME a \notin Z, Shown(s, a) PROVE Shown(u, a)
    <3>1. PICK z \in s.doc[h].text.zones : z.loop = a /\ z.streaming
      BY <2>6 DEF Shown, Home
    <3>2. z \in u.doc[h].text.zones
      BY <2>1, <2>6, <3>1 DEF StoppedZones
    <3> QED BY <2>1, <3>1, <3>2 DEF Shown, Home
  <2> QED BY <2>3, <2>4, <2>5, <2>6
<1>9. AbsentOK(u, Y)
  <2> SUFFICES ASSUME NEW a \in Applies, a \notin s.disturbed, a \notin Y, s.loop[a].pc # "applied"
               PROVE  Absent(u, a)
    BY DEF AbsentOK
  <2>1. Absent(s, a)
    BY <1>1 DEF AbsentOK
  <2>2. \A b \in Applies : a \notin u.loop[b].base
    BY <2>1 DEF Absent
  <2>3. ASSUME NEW g \in Files
        PROVE  /\ Without(u.doc[g].text, a)
               /\ u.doc[g].text.partial = a => Waits(u, a) /\ u.loop[a].file = g
    <3>1. CASE g # f
      BY <1>4, <2>1, <3>1 DEF Absent
    <3>2. CASE g = f
      <4>1. a \notin u.doc[f].text.changes
        OBVIOUS
      <4>2. \A z \in s.doc[f].text.zones : a \notin z.original
        BY <2>1 DEF Absent, Without
      <4>3. \A z \in u.doc[f].text.zones : a \notin z.original
        BY <4>2 DEF StoppedZones
      <4>4. u.doc[f].text.partial = a => Waits(u, a) /\ u.loop[a].file = f
        BY <1>4
      <4> QED BY <3>2, <4>1, <4>3, <4>4 DEF Without
    <3> QED BY <3>1, <3>2
  <2>4. ASSUME NEW g \in Files, NEW i \in DOMAIN u.doc[g].undo
        PROVE  Without(u.doc[g].undo[i].before, a) /\ u.doc[g].undo[i].before.partial # a
    BY <1>3, <2>1 DEF Absent
  <2> QED BY <2>2, <2>3, <2>4 DEF Absent
<1> QED BY <1>5, <1>6, <1>7, <1>8, <1>9 DEF GoodBut

\* A loop ends: it succeeded, or what it leaves is not its own any more.
LEMMA LoopEnds ==
  ASSUME NEW a \in Applies, NEW X \in SUBSET {a}, NEW Y \in SUBSET {a}, NEW s, GoodBut(s, X, Y),
         NEW u \in States, u.doc = s.doc, u.disturbed = s.disturbed, u.open = s.open \ {a},
         \A b \in Applies : /\ b # a => u.loop[b].pc = s.loop[b].pc
                            /\ u.loop[b].file = s.loop[b].file /\ u.loop[b].base = s.loop[b].base,
         \/ u.loop[a].pc = "applied"
         \/ u.loop[a].pc = "failed" /\ Y = {} /\ (s.loop[a].pc = "failed" \/ a \in s.disturbed),
         \A g \in Files : \A z \in s.doc[g].text.zones : z.streaming => z.loop # a
  PROVE  Good(u)
<1>1. s \in States /\ FilesOK(s) /\ OpenOK(s) /\ StreamOK(s) /\ WaitOK(s, X) /\ AbsentOK(s, Y)
  BY DEF GoodBut
<1>2. /\ \A g \in Files : s.doc[g].undo \in Seq(Element) /\ s.doc[g].text \in Snapshots
      /\ s.open \subseteq Applies
  BY <1>1, StatesDef
<1>3. ~Waits(u, a) /\ u.loop[a].pc # "unused" /\ \A b \in Applies : b # a => (Waits(u, b) <=> Waits(s, b))
  BY DEF Waits
<1>4. FilesOK(u)
  <2> SUFFICES ASSUME NEW g \in Files, NEW i \in DOMAIN s.doc[g].undo
               PROVE  UndoOK(u, g, s.doc[g].undo[i])
    BY <1>1 DEF FilesOK
  <2> DEFINE x == s.doc[g].undo[i]
  <2>1. UndoOK(s, g, x) /\ x \in Element
    BY <1>1, <1>2 DEF FilesOK
  <2> HIDE DEF x
  <2>3. x.by \in Applies \cup {NoOne}
    BY <2>1 DEF Element
  <2>2. x.by # NoOne => u.loop[x.by].pc # "unused" /\ u.loop[x.by].file = g
    BY <1>3, <2>1, <2>3 DEF UndoOK
  <2> QED BY <2>1, <2>2 DEF UndoOK, x
<1>5. OpenOK(u)
  BY <1>1, <1>2, <1>3 DEF OpenOK
<1>6. StreamOK(u)
  <2> SUFFICES ASSUME NEW g \in Files, NEW z \in s.doc[g].text.zones, z.streaming
               PROVE  z.loop # NoOne /\ Waits(u, z.loop) /\ u.loop[z.loop].file = g
    BY DEF StreamOK
  <2>1. z.loop # NoOne /\ Waits(s, z.loop) /\ s.loop[z.loop].file = g /\ z.loop # a
    BY <1>1 DEF StreamOK
  <2>2. z.loop \in Applies
    BY <1>2, <2>1, TextFields
  <2> QED BY <1>3, <2>1, <2>2
<1>7. WaitOK(u, {})
  <2> SUFFICES ASSUME NEW b \in Applies, Waits(u, b)
               PROVE  Based(u, b) /\ (b \notin u.disturbed => OnTop(u, b) /\ Shown(u, b))
    BY DEF WaitOK
  <2>1. b # a /\ Waits(s, b) /\ u.loop[b].file = s.loop[b].file /\ u.loop[b].base = s.loop[b].base
    BY <1>3
  <2>2. Based(s, b) /\ (b \notin s.disturbed => OnTop(s, b) /\ Shown(s, b))
    BY <1>1, <2>1 DEF WaitOK
  <2>3. Home(u, b) = Home(s, b)
    BY <2>1 DEF Home
  <2>4. Based(u, b)
    BY <2>1, <2>2, <2>3 DEF Based
  <2>5. OnTop(s, b) => OnTop(u, b)
    BY <2>3 DEF OnTop
  <2>6. Shown(s, b) => Shown(u, b)
    BY <2>3 DEF Shown
  <2> QED BY <2>2, <2>4, <2>5, <2>6
<1>8. AbsentOK(u, {})
  <2> SUFFICES ASSUME NEW b \in Applies, b \notin s.disturbed, u.loop[b].pc # "applied"
               PROVE  Absent(u, b)
    BY DEF AbsentOK
  <2>1. s.loop[b].pc # "applied" /\ b \notin Y /\ (Waits(s, b) => Waits(u, b))
    BY <1>3 DEF Waits
  <2>2. Absent(s, b)
    BY <1>1, <2>1 DEF AbsentOK
  <2> QED BY <2>1, <2>2 DEF Absent
<1> QED BY <1>4, <1>5, <1>6, <1>7, <1>8 DEF Good, GoodBut

LEMMA DoneFields ==
  ASSUME NEW s \in States, NEW a \in Applies, NEW f, f = FileOf(s, a),
         NEW u, u = Done(s, a)
  PROVE  /\ u \in States /\ u.loop = s.loop /\ u.open = s.open /\ u.disturbed = s.disturbed
         /\ \A g \in Files : g # f => u.doc[g] = s.doc[g]
         /\ u.doc[f].undo = s.doc[f].undo /\ u.doc[f].text.changes = s.doc[f].text.changes
         /\ u.doc[f].text.partial = s.doc[f].text.partial /\ u.doc[f].text.kept = s.doc[f].text.kept
         /\ \A z \in u.doc[f].text.zones : z.loop = a => ~z.streaming
<1> DEFINE Z(z) == IF z.loop = a THEN [z EXCEPT !.streaming = FALSE] ELSE z
           old == s.doc[f].text.zones
           zs == {Z(z) : z \in old}
           d == [s.doc[f] EXCEPT !.text.zones = zs]
<1>1. /\ f \in Files /\ s.doc \in [Files -> Doc] /\ s.doc[f] \in Doc /\ s.doc[f].text \in Snapshots
      /\ old \subseteq Zone
  BY StatesDef, TextFields DEF FileOf
<1>2. \A z \in Zone : /\ Z(z) \in Zone /\ Z(z).loop = z.loop /\ Z(z).original = z.original
                      /\ (Z(z).streaming => z.streaming) /\ (z.loop = a => ~Z(z).streaming)
                      /\ (z.loop # a => Z(z) = z)
  BY DEF Zone
<1>3. u = [s EXCEPT !.doc = [s.doc EXCEPT ![f] = d]]
  BY DEF Done, FileOf
<1> HIDE DEF Z
<1>4. zs \subseteq Zone /\ \A z \in zs : z.loop = a => ~z.streaming
  BY <1>1, <1>2
<1> HIDE DEF zs
<1>6. /\ d \in Doc /\ d.undo = s.doc[f].undo /\ d.text.zones = zs
      /\ d.text.changes = s.doc[f].text.changes /\ d.text.partial = s.doc[f].text.partial
      /\ d.text.kept = s.doc[f].text.kept
  BY <1>1, <1>4 DEF Doc, Snapshots
<1> HIDE DEF d
<1>7. [s.doc EXCEPT ![f] = d] \in [Files -> Doc]
  BY <1>1, <1>6
<1>8. /\ u \in States /\ u.doc = [s.doc EXCEPT ![f] = d]
      /\ u.loop = s.loop /\ u.open = s.open /\ u.disturbed = s.disturbed
  BY <1>3, <1>7 DEF States
<1>9. u.doc[f] = d /\ \A g \in Files : g # f => u.doc[g] = s.doc[g]
  BY <1>1, <1>8
<1> QED BY <1>4, <1>6, <1>8, <1>9

LEMMA DoneZones ==
  ASSUME NEW s \in States, NEW a \in Applies, NEW f, f = FileOf(s, a),
         NEW u, u = Done(s, a)
  PROVE  (\A y, z \in s.doc[f].text.zones : y = z) =>
            StoppedZones(s.doc[f].text.zones, u.doc[f].text.zones, {a})
<1> DEFINE Z(z) == IF z.loop = a THEN [z EXCEPT !.streaming = FALSE] ELSE z
           old == s.doc[f].text.zones
           zs == {Z(z) : z \in old}
           d == [s.doc[f] EXCEPT !.text.zones = zs]
<1>1. /\ f \in Files /\ s.doc \in [Files -> Doc] /\ s.doc[f] \in Doc /\ s.doc[f].text \in Snapshots
      /\ old \subseteq Zone
  BY StatesDef, TextFields DEF FileOf
<1>2. \A z \in Zone : /\ Z(z) \in Zone /\ Z(z).loop = z.loop /\ Z(z).original = z.original
                      /\ (Z(z).streaming => z.streaming) /\ (z.loop = a => ~Z(z).streaming)
                      /\ (z.loop # a => Z(z) = z)
  BY DEF Zone
<1>3. u = [s EXCEPT !.doc = [s.doc EXCEPT ![f] = d]]
  BY DEF Done, FileOf
<1> HIDE DEF Z
<1>4. zs \subseteq Zone /\ \A z \in zs : z.loop = a => ~z.streaming
  BY <1>1, <1>2
<1>5. (\A y, z \in old : y = z) => StoppedZones(old, zs, {a})
  <2> SUFFICES ASSUME \A y, z \in old : y = z PROVE StoppedZones(old, zs, {a})
    OBVIOUS
  <2>1. \A y, z \in zs : y = z
    OBVIOUS
  <2>2. \A y \in zs : \E z \in old : y.loop = z.loop /\ y.original = z.original /\ (y.streaming => z.streaming)
    BY <1>1, <1>2
  <2>3. zs = {} => old = {}
    OBVIOUS
  <2>4. \A z \in old : z.loop # a => z \in zs
    BY <1>1, <1>2
  <2> HIDE DEF zs, old
  <2> QED BY <2>1, <2>2, <2>3, <2>4 DEF StoppedZones
<1> HIDE DEF zs, old
<1>6. /\ d \in Doc /\ d.undo = s.doc[f].undo /\ d.text.zones = zs
      /\ d.text.changes = s.doc[f].text.changes /\ d.text.partial = s.doc[f].text.partial
      /\ d.text.kept = s.doc[f].text.kept
  BY <1>1, <1>4 DEF Doc, Snapshots, old
<1> HIDE DEF d
<1>7. [s.doc EXCEPT ![f] = d] \in [Files -> Doc]
  BY <1>1, <1>6
<1>8. /\ u \in States /\ u.doc = [s.doc EXCEPT ![f] = d]
      /\ u.loop = s.loop /\ u.open = s.open /\ u.disturbed = s.disturbed
  BY <1>3, <1>7 DEF States
<1>9. u.doc[f] = d /\ \A g \in Files : g # f => u.doc[g] = s.doc[g]
  BY <1>1, <1>8
<1> QED BY <1>5, <1>6, <1>9 DEF old

Same(s, u) ==
  /\ u.loop = s.loop /\ u.open = s.open /\ u.disturbed = s.disturbed
  /\ \A g \in Files : u.doc[g].undo = s.doc[g].undo
Streamless(u, a) == \A g \in Files : \A z \in u.doc[g].text.zones : z.streaming => z.loop # a

LEMMA SameWaits ==
  ASSUME NEW s, NEW u, Same(s, u)
  PROVE  /\ \A b \in Applies : Waits(u, b) <=> Waits(s, b)
         /\ Keeps(s, u)
BY DEF Same, Waits, Keeps

\* onDone: the stream of the loop is over, wherever its zone is.
LEMMA DoneGood ==
  ASSUME NEW X, NEW Y, NEW s, GoodBut(s, X, Y), NEW a \in Applies, NEW u, u = Done(s, a)
  PROVE  GoodBut(u, X \cup {a}, Y) /\ Streamless(u, a) /\ Same(s, u)
<1> DEFINE f == FileOf(s, a)
<1>1. s \in States /\ FilesOK(s) /\ OpenOK(s) /\ StreamOK(s) /\ AbsentOK(s, Y)
  BY DEF GoodBut
<1>0. f = FileOf(s, a)
  OBVIOUS
<1>2. f \in Files
  BY <1>1, StatesDef DEF FileOf
<1> HIDE DEF f
<1>3. /\ u \in States /\ u.loop = s.loop /\ u.open = s.open /\ u.disturbed = s.disturbed
      /\ \A g \in Files : g # f => u.doc[g] = s.doc[g]
      /\ u.doc[f].undo = s.doc[f].undo /\ u.doc[f].text.changes = s.doc[f].text.changes
      /\ u.doc[f].text.partial = s.doc[f].text.partial /\ u.doc[f].text.kept = s.doc[f].text.kept
      /\ \A z \in u.doc[f].text.zones : z.loop = a => ~z.streaming
  BY <1>0, <1>1, DoneFields
<1>4. Settled(s.doc[f].text, s.disturbed)
  BY <1>1, <1>2 DEF FilesOK
<1>5. StoppedZones(s.doc[f].text.zones, u.doc[f].text.zones, {a})
  BY <1>0, <1>1, <1>4, DoneZones DEF Settled
<1>6. ZonesStop(s, u, f, X \cup {a})
  BY <1>5 DEF StoppedZones, ZonesStop
<1>7. u.doc[f].text.zones = {} => u.doc[f].text.changes \subseteq u.doc[f].text.kept \cup s.disturbed
  BY <1>3, <1>4, <1>5 DEF Settled, StoppedZones
<1>8. \A b \in Applies \ (s.disturbed \cup Y) : s.loop[b].pc # "applied" =>
        b \notin u.doc[f].text.changes /\ (u.doc[f].text.partial = b => Waits(s, b) /\ s.loop[b].file = f)
  BY <1>1, <1>2, <1>3 DEF AbsentOK, Absent, Without
<1>9. WellWritten(s, u, f, Y)
  BY <1>7, <1>8 DEF WellWritten
<1>10. \A b \in u.open : Waits(s, b)
  BY <1>1, <1>3 DEF OpenOK
<1>11. Rewritten(s, u, f)
  BY <1>3, <1>10 DEF Rewritten
<1>12. GoodBut(u, X \cup {a}, Y)
  BY <1>2, <1>6, <1>9, <1>11, TextChange
<1>13. Streamless(u, a)
  <2> SUFFICES ASSUME NEW g \in Files, NEW z \in u.doc[g].text.zones, z.streaming, z.loop = a PROVE FALSE
    BY DEF Streamless
  <2>1. g # f
    BY <1>3
  <2>2. z \in s.doc[g].text.zones
    BY <1>3, <2>1
  <2>3. s.loop[z.loop].file = g
    BY <1>1, <2>2 DEF StreamOK
  <2> QED BY <1>0, <2>1, <2>3 DEF FileOf
<1>14. \A g \in Files : u.doc[g].undo = s.doc[g].undo
  BY <1>3
<1>15. Same(s, u)
  BY <1>3, <1>14 DEF Same
<1> QED BY <1>12, <1>13, <1>15

LEMMA WriteFields ==
  ASSUME NEW s \in States, NEW a \in Applies, NEW c \in SUBSET Authors, NEW f, f = FileOf(s, a),
         NEW u, u = Write(s, a, c)
  PROVE  /\ u \in States /\ u.loop = s.loop /\ u.open = s.open /\ u.disturbed = s.disturbed
         /\ \A g \in Files : g # f => u.doc[g] = s.doc[g]
         /\ u.doc[f].undo = s.doc[f].undo /\ u.doc[f].text.changes = c
         /\ u.doc[f].text.partial = NoOne /\ u.doc[f].text.kept = s.doc[f].text.kept
         /\ u.doc[f].text.zones = s.doc[f].text.zones
<1> DEFINE d == [s.doc[f] EXCEPT !.text = [s.doc[f].text EXCEPT !.changes = c, !.partial = NoOne]]
<1>1. /\ f \in Files /\ s.doc \in [Files -> Doc] /\ s.doc[f] \in Doc /\ s.doc[f].text \in Snapshots
  BY StatesDef DEF FileOf
<1>2. u = [s EXCEPT !.doc = [s.doc EXCEPT ![f] = d]]
  <2> DEFINE b == [s.doc[f] EXCEPT !.text.changes = c]
             v == [s EXCEPT !.doc = [s.doc EXCEPT ![f] = b]]
  <2>1. u = [v EXCEPT !.doc[f].text.partial = NoOne]
    BY DEF Write, FileOf
  <2>2. d = [b EXCEPT !.text.partial = NoOne]
    BY <1>1 DEF Doc
  <2> HIDE DEF b, d
  <2>3. v.doc = [s.doc EXCEPT ![f] = b] /\ v.doc[f] = b
    BY <1>1 DEF States
  <2>4. [v.doc EXCEPT ![f] = d] = [s.doc EXCEPT ![f] = d]
    BY <1>1, <2>3
  <2>5. u = [v EXCEPT !.doc = [v.doc EXCEPT ![f] = d]]
    BY <2>1, <2>2, <2>3
  <2> QED BY <1>1, <2>4, <2>5 DEF States
<1>3. /\ d \in Doc /\ d.undo = s.doc[f].undo /\ d.text.zones = s.doc[f].text.zones
      /\ d.text.changes = c /\ d.text.partial = NoOne /\ d.text.kept = s.doc[f].text.kept
  BY <1>1 DEF Doc, Snapshots
<1> HIDE DEF d
<1>4. [s.doc EXCEPT ![f] = d] \in [Files -> Doc]
  BY <1>1, <1>3
<1>5. /\ u \in States /\ u.doc = [s.doc EXCEPT ![f] = d]
      /\ u.loop = s.loop /\ u.open = s.open /\ u.disturbed = s.disturbed
  BY <1>2, <1>4 DEF States
<1>6. u.doc[f] = d /\ \A g \in Files : g # f => u.doc[g] = s.doc[g]
  BY <1>1, <1>5
<1> QED BY <1>3, <1>5, <1>6

LEMMA SameZones ==
  ASSUME NEW zs, \A y, z \in zs : y = z, NEW X
  PROVE  StoppedZones(zs, zs, X)
BY DEF StoppedZones

\* What is written into a file: settled, and of no absent apply.
FitsIn(s, a, c) == s.doc[FileOf(s, a)].text.zones = {} => c \subseteq s.doc[FileOf(s, a)].text.kept \cup s.disturbed
NothingOf(s, Y, c) == \A b \in Applies \ (s.disturbed \cup Y) : s.loop[b].pc # "applied" => b \notin c

LEMMA AbsentMore ==
  ASSUME NEW s, NEW Y, NEW Z, Y \subseteq Z, AbsentOK(s, Y)
  PROVE  AbsentOK(s, Z)
BY DEF AbsentOK

\* The file is written.
LEMMA WriteGood ==
  ASSUME NEW X, NEW Y, NEW s, GoodBut(s, X, Y), NEW a \in Applies, NEW c \in SUBSET Authors,
         FitsIn(s, a, c), NothingOf(s, Y, c), NEW u, u = Write(s, a, c)
  PROVE  GoodBut(u, X, Y) /\ Same(s, u)
<1> DEFINE f == FileOf(s, a)
<1>1. s \in States /\ FilesOK(s) /\ OpenOK(s)
  BY DEF GoodBut
<1>0. f = FileOf(s, a)
  OBVIOUS
<1>2. f \in Files
  BY <1>1, StatesDef DEF FileOf
<1>3. s.doc[f].text.zones = {} => c \subseteq s.doc[f].text.kept \cup s.disturbed
  BY DEF FitsIn
<1> HIDE DEF f
<1>4. /\ u \in States /\ u.loop = s.loop /\ u.open = s.open /\ u.disturbed = s.disturbed
      /\ \A g \in Files : g # f => u.doc[g] = s.doc[g]
      /\ u.doc[f].undo = s.doc[f].undo /\ u.doc[f].text.changes = c
      /\ u.doc[f].text.partial = NoOne /\ u.doc[f].text.kept = s.doc[f].text.kept
      /\ u.doc[f].text.zones = s.doc[f].text.zones
  BY <1>0, <1>1, WriteFields
<1>5. StoppedZones(s.doc[f].text.zones, s.doc[f].text.zones, X)
  BY <1>1, <1>2, SameZones DEF FilesOK, Settled
<1>6. ZonesStop(s, u, f, X)
  BY <1>4, <1>5 DEF ZonesStop
<1>7. u.doc[f].text.zones = {} => u.doc[f].text.changes \subseteq u.doc[f].text.kept \cup s.disturbed
  BY <1>3, <1>4
<1>8. \A b \in Applies \ (s.disturbed \cup Y) : s.loop[b].pc # "applied" =>
        b \notin u.doc[f].text.changes /\ (u.doc[f].text.partial = b => Waits(s, b) /\ s.loop[b].file = f)
  BY <1>4, Assumed DEF NothingOf
<1>9. WellWritten(s, u, f, Y)
  BY <1>7, <1>8 DEF WellWritten
<1>10. \A b \in u.open : Waits(s, b)
  BY <1>1, <1>4 DEF OpenOK
<1>11. Rewritten(s, u, f)
  BY <1>4, <1>10 DEF Rewritten
<1>12. X \subseteq X
  OBVIOUS
<1>13. GoodBut(u, X, Y)
  BY <1>2, <1>6, <1>9, <1>11, <1>12, TextChange
<1>14. \A g \in Files : u.doc[g].undo = s.doc[g].undo
  BY <1>4
<1>15. Same(s, u)
  BY <1>4, <1>14 DEF Same
<1> QED BY <1>13, <1>15

\* Only requests and counters of the loops change.
LoopsTouched(s, u) ==
  /\ u \in States /\ u.doc = s.doc /\ u.disturbed = s.disturbed
  /\ \A a \in u.open : Waits(s, a)
  /\ \A a \in Applies : /\ u.loop[a].pc = s.loop[a].pc /\ u.loop[a].file = s.loop[a].file
                        /\ u.loop[a].base = s.loop[a].base

LEMMA LoopChange ==
  ASSUME NEW s, Good(s), NEW u, LoopsTouched(s, u)
  PROVE  Good(u) /\ Keeps(s, u)
<1>1. s \in States /\ FilesOK(s) /\ AbsentOK(s, {}) /\ GoodBut(s, {}, {})
  BY DEF Good, GoodBut
<1>2. PICK f \in Files : TRUE
  BY Assumed
<1>3. u.doc = s.doc
  BY DEF LoopsTouched
<1>4. StoppedZones(s.doc[f].text.zones, s.doc[f].text.zones, {})
  BY <1>1, SameZones DEF FilesOK, Settled
<1>5. ZonesStop(s, u, f, {})
  BY <1>3, <1>4 DEF ZonesStop
<1>6. s.doc[f].text.zones = {} => s.doc[f].text.changes \subseteq s.doc[f].text.kept \cup s.disturbed
  BY <1>1 DEF FilesOK, Settled
<1>7. \A b \in Applies \ (s.disturbed \cup {}) : s.loop[b].pc # "applied" =>
        b \notin s.doc[f].text.changes /\ (s.doc[f].text.partial = b => Waits(s, b) /\ s.loop[b].file = f)
  BY <1>1 DEF AbsentOK, Absent, Without
<1>8. WellWritten(s, u, f, {})
  BY <1>3, <1>6, <1>7 DEF WellWritten
<1>9. Rewritten(s, u, f)
  BY <1>3 DEF Rewritten, LoopsTouched
<1>10. {} \subseteq {}
  OBVIOUS
<1>11. GoodBut(u, {}, {})
  BY <1>1, <1>5, <1>8, <1>9, <1>10, TextChange
<1>12. Keeps(s, u)
  BY DEF LoopsTouched, Keeps
<1> QED BY <1>11, <1>12 DEF Good

-----------------------------------------------------------------------------
\* The ends of an apply, and its further rounds

HasUndo(s, f) == s.doc[f].undo # <<>>
AllStopped(s, u) ==
  /\ \A g \in Files : Quiet(u.doc[g].text)
  /\ \A a \in Applies : /\ SameLoop(u.loop[a], s.loop[a])
                        /\ u.loop[a].pc \in {s.loop[a].pc, "failed"}
                        /\ Waits(u, a) => Waits(s, a) /\ a \in u.disturbed
                        /\ u.loop[a].pc # s.loop[a].pc => Waits(s, a)
  /\ u.open \subseteq s.open /\ s.disturbed \subseteq u.disturbed

LEMMA UndoneStops ==
  ASSUME NEW X, NEW Y, NEW s, GoodBut(s, X, Y), NEW f \in Files, HasUndo(s, f),
         \A a \in X : FileOf(s, a) = f, NEW u, u = Undone(s, f)
  PROVE  GoodBut(u, {}, Y) /\ AllStopped(s, u)
<1>1. s.doc[f].undo # <<>> /\ \A a \in X : s.loop[a].file = f
  BY DEF HasUndo, FileOf
<1> QED BY <1>1, UndoneGood DEF AllStopped

LEMMA StoppedKeeps ==
  ASSUME NEW s, NEW u, AllStopped(s, u)
  PROVE  Keeps(s, u)
BY DEF AllStopped, Keeps, Waits

\* The request of a loop does not call back any more.
Closed(s, a) == [s EXCEPT !.open = @ \ {a}]

LEMMA ClosedGood ==
  ASSUME NEW s, Good(s), NEW a \in Applies
  PROVE  /\ Good(Closed(s, a))
         /\ Closed(s, a).loop = s.loop /\ a \notin Closed(s, a).open
         /\ \A b \in Applies : Waits(Closed(s, a), b) <=> Waits(s, b)
<1> DEFINE u == Closed(s, a)
<1>1. s \in States /\ OpenOK(s)
  BY DEF Good, GoodBut
<1>2. u \in States /\ u.doc = s.doc /\ u.loop = s.loop /\ u.disturbed = s.disturbed /\ u.open = s.open \ {a}
  BY <1>1 DEF States, Closed
<1> HIDE DEF u
<1>3. \A b \in u.open : Waits(s, b)
  BY <1>1, <1>2 DEF OpenOK
<1>4. LoopsTouched(s, u)
  BY <1>2, <1>3 DEF LoopsTouched
<1>5. Good(u)
  BY <1>4, LoopChange
<1>6. \A b \in Applies : Waits(u, b) <=> Waits(s, b)
  BY <1>2 DEF Waits
<1>7. a \notin u.open
  BY <1>2
<1> QED BY <1>2, <1>5, <1>6, <1>7 DEF u

LEMMA BasedUndo ==
  ASSUME NEW s, Good(s), NEW a \in Applies, Waits(s, a)
  PROVE  HasUndo(s, FileOf(s, a)) /\ FileOf(s, a) \in Files
<1> DEFINE f == s.loop[a].file
<1>1. s \in States /\ WaitOK(s, {})
  BY DEF Good, GoodBut
<1>2. f \in Files /\ s.doc[f].undo \in Seq(Element) /\ DOMAIN <<>> = {}
  BY <1>1, StatesDef
<1>3. Based(s, a)
  BY <1>1 DEF WaitOK
<1>4. \E i \in DOMAIN s.doc[f].undo : TRUE
  BY <1>3 DEF Based, Home
<1> HIDE DEF f
<1>5. s.doc[f].undo # <<>>
  BY <1>2, <1>4
<1> QED BY <1>2, <1>5 DEF f, HasUndo, FileOf

\* onError: the apply is undone, and with it whatever streams.
LEMMA FailedGood ==
  ASSUME NEW s, Good(s), NEW a \in Applies, Waits(s, a), NEW u, u = Failed(s, a)
  PROVE  Good(u) /\ AllStopped(s, u)
<1> DEFINE d == Done(s, a)
           f == FileOf(s, a)
<1>1. GoodBut(s, {}, {})
  BY DEF Good
<1>2. GoodBut(d, {} \cup {a}, {}) /\ Same(s, d)
  BY <1>1, DoneGood
<1>3. {} \cup {a} = {a}
  OBVIOUS
<1>4. GoodBut(d, {a}, {})
  BY <1>2, <1>3
<1>5. u = Undone(d, f)
  BY <1>2 DEF Failed, FileOf, Same
<1>6. HasUndo(s, f) /\ f \in Files
  BY BasedUndo
<1>7. FileOf(d, a) = f
  BY <1>2 DEF FileOf, Same
<1> HIDE DEF d, f
<1>8. HasUndo(d, f)
  BY <1>2, <1>6 DEF HasUndo, Same
<1>9. GoodBut(u, {}, {}) /\ AllStopped(d, u)
  BY <1>4, <1>5, <1>6, <1>7, <1>8, UndoneStops
<1>10. AllStopped(s, u)
  BY <1>2, <1>9 DEF AllStopped, Same, Waits
<1> QED BY <1>9, <1>10 DEF Good

PcSet(s, a, pc) == [s EXCEPT !.loop[a].pc = pc]

Pcs == {"unused", "waiting", "applied", "failed"}

LEMMA PcSetFields ==
  ASSUME NEW s \in States, NEW a \in Applies, NEW pc \in Pcs,
         NEW u, u = PcSet(s, a, pc)
  PROVE  /\ u \in States /\ u.doc = s.doc /\ u.disturbed = s.disturbed /\ u.open = s.open
         /\ u.loop[a].pc = pc
         /\ \A b \in Applies : (b # a => u.loop[b].pc = s.loop[b].pc) /\ SameLoop(u.loop[b], s.loop[b])
<1> DEFINE l == [s.loop[a] EXCEPT !.pc = pc]
<1>1. s.loop \in [Applies -> Loop] /\ s.loop[a] \in Loop
  BY StatesDef
<1>2. l \in Loop /\ l.pc = pc /\ SameLoop(l, s.loop[a])
  BY <1>1, LoopPc DEF Pcs
<1>3. u = [s EXCEPT !.loop = [s.loop EXCEPT ![a] = l]]
  BY DEF PcSet
<1> HIDE DEF l
<1>4. [s.loop EXCEPT ![a] = l] \in [Applies -> Loop]
  BY <1>1, <1>2
<1>5. /\ u \in States /\ u.doc = s.doc /\ u.disturbed = s.disturbed /\ u.open = s.open
      /\ u.loop = [s.loop EXCEPT ![a] = l]
  BY <1>3, <1>4 DEF States
<1>6. u.loop[a] = l /\ \A b \in Applies : b # a => u.loop[b] = s.loop[b]
  BY <1>1, <1>5
<1>7. \A b \in Applies : SameLoop(u.loop[b], s.loop[b])
  BY <1>2, <1>6 DEF SameLoop
<1> QED BY <1>2, <1>5, <1>6, <1>7

\* The loop of an apply ends with a pc.
Ends1(s, u, a) ==
  /\ u \in States /\ u.doc = s.doc /\ u.disturbed = s.disturbed /\ u.open = s.open \ {a}
  /\ \A b \in Applies : /\ b # a => u.loop[b].pc = s.loop[b].pc
                        /\ u.loop[b].file = s.loop[b].file /\ u.loop[b].base = s.loop[b].base

LEMMA PcSetEnds ==
  ASSUME NEW s \in States, NEW a \in Applies, NEW pc \in Pcs,
         NEW v, v = PcSet(s, a, pc),
         NEW u, (a \notin s.open /\ u = v) \/ u = Closed(v, a)
  PROVE  Ends1(s, u, a) /\ u.loop[a].pc = pc
<1>1. /\ v \in States /\ v.doc = s.doc /\ v.disturbed = s.disturbed /\ v.open = s.open
      /\ v.loop[a].pc = pc
      /\ \A b \in Applies : (b # a => v.loop[b].pc = s.loop[b].pc) /\ SameLoop(v.loop[b], s.loop[b])
  BY PcSetFields
<1>2. /\ u \in States /\ u.doc = v.doc /\ u.disturbed = v.disturbed /\ u.loop = v.loop
      /\ u.open = s.open \ {a}
  <2>1. CASE a \notin s.open /\ u = v
    <3>1. s.open = s.open \ {a}
      BY <2>1
    <3> QED BY <1>1, <2>1, <3>1
  <2>2. CASE u = Closed(v, a)
    BY <1>1, <2>2 DEF Closed, States
  <2> QED BY <2>1, <2>2
<1> QED BY <1>1, <1>2 DEF Ends1, SameLoop

LEMMA EndGood ==
  ASSUME NEW a \in Applies, NEW X \in SUBSET {a}, NEW Y \in SUBSET {a}, NEW s, GoodBut(s, X, Y),
         NEW u, Ends1(s, u, a), Streamless(s, a),
         \/ u.loop[a].pc = "applied"
         \/ u.loop[a].pc = "failed" /\ Y = {} /\ (s.loop[a].pc = "failed" \/ a \in s.disturbed)
  PROVE  Good(u)
<1>1. /\ u \in States /\ u.doc = s.doc /\ u.disturbed = s.disturbed /\ u.open = s.open \ {a}
      /\ \A b \in Applies : /\ b # a => u.loop[b].pc = s.loop[b].pc
                            /\ u.loop[b].file = s.loop[b].file /\ u.loop[b].base = s.loop[b].base
  BY DEF Ends1
<1>2. \A g \in Files : \A z \in s.doc[g].text.zones : z.streaming => z.loop # a
  BY DEF Streamless
<1> QED BY <1>1, <1>2, LoopEnds

LEMMA QuietStreamless ==
  ASSUME NEW s, NEW u, NEW a \in Applies, AllStopped(s, u)
  PROVE  Streamless(u, a)
BY DEF AllStopped, Quiet, Streamless

\* Another round, or one too many
LEMMA AgainGood ==
  ASSUME NEW s, Good(s), NEW a \in Applies, Waits(s, a), NEW u, u = Again(s, a)
  PROVE  Good(u) /\ Keeps(s, u)
<1>1. s \in States /\ OpenOK(s)
  BY DEF Good, GoodBut
<1>2. CASE s.loop[a].n + 1 < NRetries
  <2> DEFINE l == [s.loop[a] EXCEPT !.n = @ + 1]
  <2>1. s.loop \in [Applies -> Loop] /\ s.loop[a] \in Loop /\ s.loop[a].n \in 0 .. (NRetries - 1) /\ s.open \subseteq Applies
    BY <1>1, StatesDef
  <2>2. s.loop[a].n + 1 \in 0 .. (NRetries - 1)
    BY <1>2, <2>1, Assumed
  <2>3. l \in Loop /\ l.pc = s.loop[a].pc /\ l.file = s.loop[a].file /\ l.base = s.loop[a].base
    BY <2>1, <2>2 DEF Loop
  <2>4. u = [s EXCEPT !.loop = [s.loop EXCEPT ![a] = l], !.open = s.open \cup {a}]
    BY <1>1, <1>2, <2>1 DEF Again, States
  <2> HIDE DEF l
  <2>5. [s.loop EXCEPT ![a] = l] \in [Applies -> Loop]
    BY <2>1, <2>3
  <2>6. /\ u \in States /\ u.doc = s.doc /\ u.disturbed = s.disturbed /\ u.open = s.open \cup {a}
        /\ u.loop = [s.loop EXCEPT ![a] = l]
    <3> DEFINE k == [s.loop EXCEPT ![a] = l]
               o == s.open \cup {a}
    <3>1. k \in [Applies -> Loop] /\ o \subseteq Applies /\ u = [s EXCEPT !.loop = k, !.open = o]
      BY <2>1, <2>4, <2>5
    <3> HIDE DEF k, o
    <3>2. u \in States /\ u.doc = s.doc /\ u.disturbed = s.disturbed /\ u.open = o /\ u.loop = k
      BY <1>1, <3>1 DEF States
    <3> QED BY <3>2 DEF k, o
  <2>7. \A b \in Applies : /\ u.loop[b].pc = s.loop[b].pc /\ u.loop[b].file = s.loop[b].file
                           /\ u.loop[b].base = s.loop[b].base
    BY <2>1, <2>3, <2>6
  <2>8. \A b \in u.open : Waits(s, b)
    BY <1>1, <2>6 DEF OpenOK
  <2>9. LoopsTouched(s, u)
    BY <2>6, <2>7, <2>8 DEF LoopsTouched
  <2> QED BY <2>9, LoopChange
<1>3. CASE ~(s.loop[a].n + 1 < NRetries)
  <2> DEFINE s0 == Closed(s, a)
             s1 == Failed(s0, a)
  <2>1. Good(s0) /\ s0.loop = s.loop /\ a \notin s0.open /\ \A b \in Applies : Waits(s0, b) <=> Waits(s, b)
    BY ClosedGood
  <2>2. u = PcSet(s1, a, "failed")
    BY <1>3 DEF Again, PcSet, Closed
  <2> HIDE DEF s0
  <2>3. Waits(s0, a)
    BY <2>1
  <2>4. Good(s1) /\ AllStopped(s0, s1)
    BY <2>1, <2>3, FailedGood
  <2> HIDE DEF s1
  <2>5. s1 \in States /\ a \notin s1.open
    BY <2>1, <2>4 DEF Good, GoodBut, AllStopped
  <2>6. Ends1(s1, u, a) /\ u.loop[a].pc = "failed"
    BY <2>2, <2>5, PcSetEnds DEF Pcs
  <2>7. s1.loop[a].pc = "failed" \/ a \in s1.disturbed
    BY <2>3, <2>4 DEF AllStopped, Waits
  <2>8. Streamless(s1, a)
    BY <2>4, QuietStreamless
  <2>9. GoodBut(s1, {}, {}) /\ {} \in SUBSET {a}
    BY <2>4 DEF Good
  <2>10. Good(u)
    BY <2>6, <2>7, <2>8, <2>9, EndGood
  <2>11. Keeps(s0, s1) /\ Keeps(s, s0)
    BY <2>1, <2>4, StoppedKeeps DEF Keeps
  <2>12. Keeps(s1, u)
    <3>1. s1.loop[a].pc # "unused"
      BY <2>3, <2>4 DEF AllStopped, Waits
    <3> QED BY <2>6, <3>1 DEF Keeps, Ends1
  <2> QED BY <2>10, <2>11, <2>12, KeepsTrans
<1> QED BY <1>2, <1>3

-----------------------------------------------------------------------------
\* The answers

PartialSet(s, a, f) == [s EXCEPT !.doc[f].text.partial = a]

LEMMA PartialFields ==
  ASSUME NEW s \in States, NEW a \in Applies, NEW f \in Files, NEW u, u = PartialSet(s, a, f)
  PROVE  /\ u \in States /\ u.loop = s.loop /\ u.open = s.open /\ u.disturbed = s.disturbed
         /\ \A g \in Files : g # f => u.doc[g] = s.doc[g]
         /\ u.doc[f].undo = s.doc[f].undo /\ u.doc[f].text.changes = s.doc[f].text.changes
         /\ u.doc[f].text.partial = a /\ u.doc[f].text.kept = s.doc[f].text.kept
         /\ u.doc[f].text.zones = s.doc[f].text.zones
<1> DEFINE d == [s.doc[f] EXCEPT !.text = [s.doc[f].text EXCEPT !.partial = a]]
<1>1. /\ s.doc \in [Files -> Doc] /\ s.doc[f] \in Doc /\ s.doc[f].text \in Snapshots
  BY StatesDef
<1>2. u = [s EXCEPT !.doc = [s.doc EXCEPT ![f] = d]]
  BY <1>1 DEF Doc, States, PartialSet
<1>3. /\ d \in Doc /\ d.undo = s.doc[f].undo /\ d.text.zones = s.doc[f].text.zones
      /\ d.text.changes = s.doc[f].text.changes /\ d.text.partial = a /\ d.text.kept = s.doc[f].text.kept
  BY <1>1 DEF Doc, Snapshots
<1> HIDE DEF d
<1>4. [s.doc EXCEPT ![f] = d] \in [Files -> Doc]
  BY <1>1, <1>3
<1>5. /\ u \in States /\ u.doc = [s.doc EXCEPT ![f] = d]
      /\ u.loop = s.loop /\ u.open = s.open /\ u.disturbed = s.disturbed
  BY <1>2, <1>4 DEF States
<1>6. u.doc[f] = d
  BY <1>1, <1>5
<1>7. \A g \in Files : g # f => u.doc[g] = s.doc[g]
  BY <1>1, <1>5
<1> QED BY <1>3, <1>5, <1>6, <1>7

\* Part of the answer is written into the file.
LEMMA TextGood ==
  ASSUME NEW s, Good(s), NEW a \in Applies, Waits(s, a), NEW u, u = PartialSet(s, a, FileOf(s, a))
  PROVE  Good(u) /\ Keeps(s, u)
<1> DEFINE f == FileOf(s, a)
<1>1. s \in States /\ FilesOK(s) /\ OpenOK(s) /\ AbsentOK(s, {}) /\ GoodBut(s, {}, {})
  BY DEF Good, GoodBut
<1>2. f \in Files /\ s.loop[a].file = f
  BY <1>1, StatesDef DEF FileOf
<1>3. u = PartialSet(s, a, f)
  OBVIOUS
<1> HIDE DEF f
<1>4. /\ u \in States /\ u.loop = s.loop /\ u.open = s.open /\ u.disturbed = s.disturbed
      /\ \A g \in Files : g # f => u.doc[g] = s.doc[g]
      /\ u.doc[f].undo = s.doc[f].undo /\ u.doc[f].text.changes = s.doc[f].text.changes
      /\ u.doc[f].text.partial = a /\ u.doc[f].text.kept = s.doc[f].text.kept
      /\ u.doc[f].text.zones = s.doc[f].text.zones
  BY <1>1, <1>2, <1>3, PartialFields
<1>5. StoppedZones(s.doc[f].text.zones, s.doc[f].text.zones, {})
  BY <1>1, <1>2, SameZones DEF FilesOK, Settled
<1>6. ZonesStop(s, u, f, {})
  BY <1>4, <1>5 DEF ZonesStop
<1>7. u.doc[f].text.zones = {} => u.doc[f].text.changes \subseteq u.doc[f].text.kept \cup s.disturbed
  BY <1>1, <1>2, <1>4 DEF FilesOK, Settled
<1>8. \A b \in Applies \ (s.disturbed \cup {}) : s.loop[b].pc # "applied" => b \notin s.doc[f].text.changes
  BY <1>1, <1>2 DEF AbsentOK, Absent, Without
<1>9. \A b \in Applies \ (s.disturbed \cup {}) : s.loop[b].pc # "applied" =>
        b \notin u.doc[f].text.changes /\ (u.doc[f].text.partial = b => Waits(s, b) /\ s.loop[b].file = f)
  BY <1>2, <1>4, <1>8
<1>10. WellWritten(s, u, f, {})
  BY <1>7, <1>9 DEF WellWritten
<1>11. \A b \in u.open : Waits(s, b)
  BY <1>1, <1>4 DEF OpenOK
<1>12. Rewritten(s, u, f)
  BY <1>4, <1>11 DEF Rewritten
<1>13. {} \subseteq {}
  OBVIOUS
<1>14. GoodBut(u, {}, {})
  BY <1>1, <1>2, <1>6, <1>10, <1>12, <1>13, TextChange
<1> QED BY <1>4, <1>14 DEF Good, Keeps

ManySet(s, a) == [s EXCEPT !.loop[a].many = TRUE]

\* The second block of an answer is never handled.
LEMMA ManyGood ==
  ASSUME NEW s, Good(s), NEW a \in Applies, NEW u, u = ManySet(s, a)
  PROVE  Good(u) /\ Keeps(s, u)
<1> DEFINE l == [s.loop[a] EXCEPT !.many = TRUE]
<1>1. s \in States /\ OpenOK(s) /\ s.loop \in [Applies -> Loop] /\ s.loop[a] \in Loop
  BY StatesDef DEF Good, GoodBut
<1>2. l \in Loop /\ l.pc = s.loop[a].pc /\ l.file = s.loop[a].file /\ l.base = s.loop[a].base
  BY <1>1 DEF Loop
<1>3. u = [s EXCEPT !.loop = [s.loop EXCEPT ![a] = l]]
  BY DEF ManySet
<1> HIDE DEF l
<1>4. [s.loop EXCEPT ![a] = l] \in [Applies -> Loop]
  BY <1>1, <1>2
<1>5. /\ u \in States /\ u.doc = s.doc /\ u.disturbed = s.disturbed /\ u.open = s.open
      /\ u.loop = [s.loop EXCEPT ![a] = l]
  BY <1>1, <1>3, <1>4 DEF States
<1>6. \A b \in Applies : u.loop[b].pc = s.loop[b].pc /\ u.loop[b].file = s.loop[b].file /\ u.loop[b].base = s.loop[b].base
  BY <1>1, <1>2, <1>5
<1>7. \A b \in u.open : Waits(s, b)
  BY <1>1, <1>5 DEF OpenOK
<1>8. LoopsTouched(s, u)
  BY <1>5, <1>6, <1>7 DEF LoopsTouched
<1> QED BY <1>8, LoopChange

BaseOf(s, a) == s.loop[a].base

LEMMA BaseFits ==
  ASSUME NEW s, Good(s), NEW a \in Applies, Waits(s, a), NEW x \in {{}, {a}}
  PROVE  /\ BaseOf(s, a) \cup x \in SUBSET Authors
         /\ FitsIn(s, a, BaseOf(s, a) \cup x)
         /\ NothingOf(s, x, BaseOf(s, a) \cup x)
<1> DEFINE base == s.loop[a].base
           t == Home(s, a).text
<1>1. s \in States /\ WaitOK(s, {}) /\ AbsentOK(s, {})
  BY DEF Good, GoodBut
<1>2. base \subseteq Authors /\ x \subseteq {a} /\ a \in Authors
  BY <1>1, StatesDef DEF Authors
<1>3. base \subseteq t.kept \cup s.disturbed
  BY <1>1 DEF WaitOK, Based
<1>4. a \notin s.disturbed => t.zones # {}
  BY <1>1 DEF WaitOK, Shown
<1>5. \A b \in Applies : b \notin s.disturbed /\ s.loop[b].pc # "applied" => b \notin base
  BY <1>1 DEF AbsentOK, Absent
<1> HIDE DEF base
<1>6. NothingOf(s, x, base \cup x)
  BY <1>5 DEF NothingOf
<1>7. t = s.doc[FileOf(s, a)].text
  BY DEF Home, FileOf
<1> HIDE DEF t
<1>8. t.zones = {} => base \cup x \subseteq t.kept \cup s.disturbed
  BY <1>2, <1>3, <1>4
<1>9. FitsIn(s, a, base \cup x)
  BY <1>7, <1>8 DEF FitsIn
<1>10. base = BaseOf(s, a)
  BY DEF BaseOf, base
<1> QED BY <1>2, <1>6, <1>9, <1>10

\* The file is set back to what the apply started from.
LEMMA BaseGood ==
  ASSUME NEW s, Good(s), NEW a \in Applies, Waits(s, a), NEW u, u = Write(s, a, BaseOf(s, a))
  PROVE  Good(u) /\ Same(s, u)
<1> DEFINE c == BaseOf(s, a) \cup {}
<1>1. c \in SUBSET Authors /\ FitsIn(s, a, c) /\ NothingOf(s, {}, c)
  BY BaseFits
<1>2. c = BaseOf(s, a)
  OBVIOUS
<1> HIDE DEF c
<1>3. GoodBut(s, {}, {}) /\ u = Write(s, a, c)
  BY <1>2 DEF Good
<1>4. GoodBut(u, {}, {}) /\ Same(s, u)
  BY <1>1, <1>3, WriteGood
<1> QED BY <1>4 DEF Good

\* A block that is not in the file, while the answer streams
LEMMA MismatchGood ==
  ASSUME NEW s, Good(s), NEW a \in Applies, Waits(s, a), NEW u, u = Again(Write(s, a, BaseOf(s, a)), a)
  PROVE  Good(u) /\ Keeps(s, u)
<1> DEFINE w == Write(s, a, BaseOf(s, a))
<1>1. Good(w) /\ Same(s, w)
  BY BaseGood
<1> HIDE DEF w
<1>2. Waits(w, a) /\ Keeps(s, w)
  BY <1>1, SameWaits
<1>3. Good(u) /\ Keeps(w, u)
  BY <1>1, <1>2, AgainGood DEF w
<1> QED BY <1>2, <1>3, KeepsTrans

\* The answer is good for nothing: the request is over, and the apply undone.
LEMMA EmptyGood ==
  ASSUME NEW s, Good(s), NEW a \in Applies, Waits(s, a),
         NEW u, u = Failed(Write(Closed(s, a), a, BaseOf(s, a)), a)
  PROVE  Good(u) /\ Keeps(s, u)
<1> DEFINE c == Closed(s, a)
           w == Write(c, a, BaseOf(c, a))
<1>1. Good(c) /\ c.loop = s.loop /\ \A b \in Applies : Waits(c, b) <=> Waits(s, b)
  BY ClosedGood
<1>2. u = Failed(w, a)
  BY <1>1 DEF BaseOf
<1>3. Keeps(s, c)
  BY <1>1 DEF Keeps
<1> HIDE DEF c
<1>4. Good(w) /\ Same(c, w)
  BY <1>1, BaseGood
<1> HIDE DEF w
<1>5. Waits(w, a) /\ Keeps(c, w)
  BY <1>1, <1>4, SameWaits
<1>6. Good(u) /\ AllStopped(w, u)
  BY <1>2, <1>4, <1>5, FailedGood
<1>7. Keeps(w, u)
  BY <1>6, StoppedKeeps
<1> QED BY <1>3, <1>5, <1>6, <1>7, KeepsTrans

LEMMA FinalMismatchGood ==
  ASSUME NEW s, Good(s), NEW a \in Applies, Waits(s, a),
         NEW v, v = Failed(Write(Closed(s, a), a, BaseOf(s, a)), a),
         NEW u, u = IF Waits(v, a) THEN Again(v, a) ELSE v
  PROVE  Good(u) /\ Keeps(s, u)
<1>1. Good(v) /\ Keeps(s, v)
  BY EmptyGood
<1>2. CASE Waits(v, a)
  <2>1. u = Again(v, a)
    BY <1>2
  <2>2. Good(u) /\ Keeps(v, u)
    BY <1>1, <1>2, <2>1, AgainGood
  <2> QED BY <1>1, <2>2, KeepsTrans
<1>3. CASE ~Waits(v, a)
  BY <1>1, <1>3
<1> QED BY <1>2, <1>3

LEMMA RequestFailsGood ==
  ASSUME NEW s, Good(s), NEW a \in Applies, Waits(s, a), NEW u, u = Failed(Closed(s, a), a)
  PROVE  Good(u) /\ Keeps(s, u)
<1> DEFINE c == Closed(s, a)
<1>1. Good(c) /\ c.loop = s.loop /\ \A b \in Applies : Waits(c, b) <=> Waits(s, b)
  BY ClosedGood
<1>2. u = Failed(c, a)
  OBVIOUS
<1> HIDE DEF c
<1>3. Good(u) /\ AllStopped(c, u)
  BY <1>1, <1>2, FailedGood
<1>4. Keeps(c, u) /\ Keeps(s, c)
  BY <1>1, <1>3, StoppedKeeps DEF Keeps
<1> QED BY <1>3, <1>4, KeepsTrans

\* The apply succeeds: its change is in the file, where its zone shows it.
LEMMA FinalGood ==
  ASSUME NEW s, Good(s), NEW a \in Applies, Waits(s, a),
         NEW d, d = Done(Write(s, a, BaseOf(s, a) \cup {a}), a),
         NEW u, u = Closed(PcSet(d, a, "applied"), a)
  PROVE  Good(u) /\ Keeps(s, u)
<1> DEFINE c == BaseOf(s, a) \cup {a}
           w == Write(s, a, c)
<1>1. c \in SUBSET Authors /\ FitsIn(s, a, c) /\ NothingOf(s, {a}, c)
  BY BaseFits
<1>2. d = Done(w, a)
  OBVIOUS
<1> HIDE DEF c
<1>3. GoodBut(s, {}, {a})
  <2>1. AbsentOK(s, {}) /\ {} \subseteq {a}
    BY DEF Good, GoodBut
  <2>2. AbsentOK(s, {a})
    BY <2>1, AbsentMore
  <2> QED BY <2>2 DEF Good, GoodBut
<1>4. GoodBut(w, {}, {a}) /\ Same(s, w)
  BY <1>1, <1>3, WriteGood
<1> HIDE DEF w
<1>5. GoodBut(d, {} \cup {a}, {a}) /\ Streamless(d, a) /\ Same(w, d)
  BY <1>2, <1>4, DoneGood
<1>6. {} \cup {a} = {a} /\ {a} \in SUBSET {a}
  OBVIOUS
<1>7. GoodBut(d, {a}, {a})
  BY <1>5, <1>6
<1>8. d \in States
  BY <1>7 DEF GoodBut
<1>9. Ends1(d, u, a) /\ u.loop[a].pc = "applied"
  BY <1>8, PcSetEnds DEF Pcs
<1>10. Good(u)
  BY <1>5, <1>6, <1>7, <1>9, EndGood
<1>11. Waits(d, a) /\ Keeps(s, w) /\ Keeps(w, d)
  BY <1>4, <1>5, SameWaits
<1>12. Keeps(d, u)
  BY <1>9, <1>11 DEF Keeps, Ends1, Waits
<1> QED BY <1>10, <1>11, <1>12, KeepsTrans

-----------------------------------------------------------------------------
\* What is pushed onto the undo stack of a file

LEMMA PushedFields ==
  ASSUME NEW d \in Doc, NEW who \in Applies \cup {NoOne}, NEW t \in Snapshots, NEW e, e = Pushed(d, who, t)
  PROVE  /\ e \in Doc /\ e.text = t /\ e.undo # <<>> /\ Len(d.undo) \in Nat
         /\ Len(e.undo) = Len(d.undo) + 1
         /\ DOMAIN d.undo = 1 .. Len(d.undo) /\ DOMAIN e.undo = 1 .. (Len(d.undo) + 1)
         /\ \A i \in DOMAIN d.undo : e.undo[i] = d.undo[i]
         /\ e.undo[Len(d.undo) + 1].by = who /\ e.undo[Len(d.undo) + 1].before = Snapshot(d.text)
<1> DEFINE x == [by |-> who, before |-> Snapshot(d.text)]
           v == Append(d.undo, x)
<1>1. d.text \in Snapshots /\ d.undo \in Seq(Element)
  BY DEF Doc
<1>2. Snapshot(d.text) \in Snapshots
  BY <1>1, SnapshotFields
<1>3. x \in Element /\ x.by = who /\ x.before = Snapshot(d.text)
  BY <1>2 DEF Element
<1>4. e = [text |-> t, undo |-> v]
  BY DEF Pushed
<1> HIDE DEF x
<1>5. v = Append(d.undo, x)
  OBVIOUS
<1> HIDE DEF v
<1>6. /\ v \in Seq(Element) /\ Len(d.undo) \in Nat /\ Len(v) = Len(d.undo) + 1
      /\ DOMAIN d.undo = 1 .. Len(d.undo) /\ DOMAIN v = 1 .. (Len(d.undo) + 1) /\ v # <<>>
      /\ \A i \in DOMAIN d.undo : v[i] = d.undo[i]
      /\ v[Len(d.undo) + 1] = x
  BY <1>1, <1>3, <1>5, PushSeq
<1>7. e \in Doc /\ e.text = t /\ e.undo = v
  BY <1>4, <1>6 DEF Doc
<1> QED BY <1>3, <1>6, <1>7

\* Something is pushed: file f gets the text t. A loop who starts, if it is one.
Pushes(s, u, f, who, t) ==
  /\ u \in States /\ u.disturbed = s.disturbed
  /\ \A g \in Files : g # f => u.doc[g] = s.doc[g]
  /\ u.doc[f] = Pushed(s.doc[f], who, t)
  /\ \A b \in Applies : b # who => u.loop[b] = s.loop[b]
  /\ \A b \in u.open : Waits(u, b)
Starts(s, u, f, who, t) ==
  who # NoOne =>
    /\ s.loop[who].pc = "unused" /\ u.loop[who].pc = "waiting" /\ u.loop[who].file = f
    /\ u.loop[who].base \subseteq t.kept \cup s.disturbed
    /\ u.loop[who].base \subseteq s.doc[f].text.changes
    /\ \E z \in t.zones : z.loop = who /\ z.streaming
Follows(t, old, D, who) ==
  /\ Settled(t, D) /\ old.kept \subseteq t.kept /\ t.partial \in {old.partial, NoOne}
  /\ \A b \in Applies : Without(old, b) => Without(t, b)
  /\ \A z \in t.zones : z.streaming => z.loop = who /\ who # NoOne
Unwatched(s, f) == \A b \in Applies : Waits(s, b) /\ s.loop[b].file = f => b \in s.disturbed

LEMMA PushGood ==
  ASSUME NEW s, Good(s), NEW f \in Files, NEW who \in Applies \cup {NoOne}, NEW t \in Snapshots,
         NEW u, Pushes(s, u, f, who, t), Starts(s, u, f, who, t),
         Follows(t, s.doc[f].text, s.disturbed, who), Unwatched(s, f)
  PROVE  Good(u) /\ HasUndo(u, f)
<1> DEFINE old == s.doc[f].text
           was == s.doc[f].undo
           now == u.doc[f].undo
           n == Len(was)
<1>1. s \in States /\ FilesOK(s) /\ OpenOK(s) /\ StreamOK(s) /\ WaitOK(s, {}) /\ AbsentOK(s, {})
  BY DEF Good, GoodBut
<1>2. /\ u \in States /\ u.disturbed = s.disturbed
      /\ \A g \in Files : g # f => u.doc[g] = s.doc[g]
      /\ \A b \in Applies : b # who => u.loop[b] = s.loop[b]
      /\ \A b \in u.open : Waits(u, b)
  BY DEF Pushes
<1>3. /\ u.doc[f].text = t /\ now # <<>> /\ n \in Nat /\ Len(now) = n + 1
      /\ DOMAIN was = 1 .. n /\ DOMAIN now = 1 .. (n + 1)
      /\ \A i \in DOMAIN was : now[i] = was[i]
      /\ now[n + 1].by = who /\ now[n + 1].before = Snapshot(old)
  <2> DEFINE d == s.doc[f]
             e == u.doc[f]
  <2>1. d \in Doc /\ e = Pushed(d, who, t)
    BY <1>1, StatesDef DEF Pushes
  <2> HIDE DEF d, e
  <2>2. /\ e.text = t /\ e.undo # <<>> /\ Len(d.undo) \in Nat
        /\ Len(e.undo) = Len(d.undo) + 1
        /\ DOMAIN d.undo = 1 .. Len(d.undo) /\ DOMAIN e.undo = 1 .. (Len(d.undo) + 1)
        /\ \A i \in DOMAIN d.undo : e.undo[i] = d.undo[i]
        /\ e.undo[Len(d.undo) + 1].by = who /\ e.undo[Len(d.undo) + 1].before = Snapshot(d.text)
    BY <2>1, PushedFields
  <2> QED BY <2>2 DEF d, e
<1>4. old \in Snapshots /\ \A g \in Files : s.doc[g].undo \in Seq(Element) /\ s.doc[g].text \in Snapshots
  BY <1>1, StatesDef
<1>5. \A b \in Applies : s.loop[b].file \in Files /\ u.loop[b].file \in Files
  BY <1>1, <1>2, StatesDef
<1>6. /\ Settled(t, s.disturbed) /\ old.kept \subseteq t.kept /\ t.partial \in {old.partial, NoOne}
      /\ \A b \in Applies : Without(old, b) => Without(t, b)
      /\ \A z \in t.zones : z.streaming => z.loop = who /\ who # NoOne
  BY DEF Follows
<1>7. who # NoOne =>
        /\ s.loop[who].pc = "unused" /\ u.loop[who].pc = "waiting" /\ u.loop[who].file = f
        /\ u.loop[who].base \subseteq t.kept \cup s.disturbed
        /\ u.loop[who].base \subseteq old.changes
        /\ \E z \in t.zones : z.loop = who /\ z.streaming
  BY DEF Starts
<1>8. \A b \in Applies : Waits(s, b) => b # who
  BY <1>7, Assumed DEF Waits
<1>9. Snapshot(old).kept = old.kept /\ Snapshot(old).partial = old.partial
  BY <1>4, SnapshotFields
<1> HIDE DEF old, was, now, n
<1>10. FilesOK(u)
  <2> SUFFICES ASSUME NEW g \in Files
               PROVE  /\ Settled(u.doc[g].text, s.disturbed)
                      /\ \A i \in DOMAIN u.doc[g].undo : UndoOK(u, g, u.doc[g].undo[i])
    BY <1>2 DEF FilesOK
  <2>1. \A x : x \in Element /\ UndoOK(s, g, x) => UndoOK(u, g, x)
    <3> SUFFICES ASSUME NEW x, x \in Element, UndoOK(s, g, x) PROVE UndoOK(u, g, x)
      OBVIOUS
    <3>1. x.by \in Applies \cup {NoOne}
      BY DEF Element
    <3>2. x.by # NoOne => x.by \in Applies /\ x.by # who /\ s.loop[x.by].pc # "unused" /\ s.loop[x.by].file = g
      BY <1>7, <3>1 DEF UndoOK
    <3>3. x.by # NoOne => u.loop[x.by].pc # "unused" /\ u.loop[x.by].file = g
      BY <1>2, <3>2
    <3>4. Settled(x.before, u.disturbed) /\ Quiet(x.before)
      BY <1>2 DEF UndoOK
    <3> QED BY <3>3, <3>4 DEF UndoOK
  <2>2. \A i \in DOMAIN s.doc[g].undo : s.doc[g].undo[i] \in Element /\ UndoOK(s, g, s.doc[g].undo[i])
    BY <1>1, <1>4 DEF FilesOK
  <2>3. CASE g # f
    BY <1>1, <1>2, <2>1, <2>2, <2>3 DEF FilesOK
  <2>4. CASE g = f
    <3>1. Settled(Snapshot(old), s.disturbed) /\ Quiet(Snapshot(old))
      <4>1. Settled(old, s.disturbed)
        BY <1>1 DEF FilesOK, old
      <4> QED BY <1>4, <4>1, SettledSnapshot
    <3>2. UndoOK(u, f, now[n + 1])
      BY <1>2, <1>3, <1>7, <3>1 DEF UndoOK
    <3>3. \A i \in DOMAIN was : UndoOK(u, f, was[i])
      BY <2>1, <2>2, <2>4 DEF was
    <3>4. \A i \in DOMAIN now : UndoOK(u, f, now[i])
      <4> TAKE i \in DOMAIN now
      <4>1. i \in DOMAIN was \/ i = n + 1
        BY <1>3
      <4> QED BY <1>3, <3>2, <3>3, <4>1
    <3> QED BY <1>3, <1>6, <2>4, <3>4 DEF now
  <2> QED BY <2>3, <2>4
<1>11. OpenOK(u)
  BY <1>2 DEF OpenOK
<1>12. StreamOK(u)
  <2> SUFFICES ASSUME NEW g \in Files, NEW z \in u.doc[g].text.zones, z.streaming
               PROVE  z.loop # NoOne /\ Waits(u, z.loop) /\ u.loop[z.loop].file = g
    BY DEF StreamOK
  <2>1. CASE g = f
    BY <1>3, <1>6, <1>7, <2>1 DEF Waits
  <2>2. CASE g # f
    <3>1. z \in s.doc[g].text.zones
      BY <1>2, <2>2
    <3>2. z.loop # NoOne /\ Waits(s, z.loop) /\ s.loop[z.loop].file = g
      BY <1>1, <3>1 DEF StreamOK
    <3>3. z.loop \in Applies
      BY <1>4, <3>1, <3>2, TextFields
    <3>4. u.loop[z.loop] = s.loop[z.loop]
      BY <1>2, <1>8, <3>2, <3>3
    <3> QED BY <3>2, <3>4 DEF Waits
  <2> QED BY <2>1, <2>2
<1>13. WaitOK(u, {})
  <2> SUFFICES ASSUME NEW a \in Applies, Waits(u, a)
               PROVE  Based(u, a) /\ (a \notin u.disturbed => OnTop(u, a) /\ Shown(u, a))
    BY DEF WaitOK
  <2>1. CASE a = who
    <3>1. who # NoOne
      BY <2>1, Assumed
    <3>2. u.loop[a].file = f /\ u.loop[a].base \subseteq u.doc[f].text.kept \cup u.disturbed
      BY <1>2, <1>3, <1>7, <2>1, <3>1
    <3>3. n + 1 \in DOMAIN now /\ now[n + 1].by = a /\ \A j \in DOMAIN now : ~(j > n + 1)
      BY <1>3, <2>1
    <3>4. Based(u, a)
      BY <3>2, <3>3 DEF Based, Home, now
    <3>5. OnTop(u, a)
      BY <1>3, <3>2, <3>3 DEF OnTop, Home, now
    <3>6. Shown(u, a)
      BY <1>3, <1>7, <2>1, <3>1, <3>2 DEF Shown, Home
    <3> QED BY <3>4, <3>5, <3>6
  <2>2. CASE a # who
    <3> DEFINE h == s.loop[a].file
               b == s.loop[a].base
    <3>1. u.loop[a] = s.loop[a] /\ Waits(s, a) /\ h \in Files
      BY <1>2, <1>5, <2>2 DEF Waits
    <3>2. Based(s, a) /\ (a \notin s.disturbed => OnTop(s, a) /\ Shown(s, a))
      BY <1>1, <3>1 DEF WaitOK
    <3>3. u.loop[a].file = h /\ u.loop[a].base = b
      BY <3>1
    <3>4. h = f => a \in s.disturbed
      BY <3>1 DEF Unwatched
    <3>5. b \subseteq s.doc[h].text.kept \cup s.disturbed
      BY <3>2 DEF Based, Home
    <3>6. PICK i \in DOMAIN s.doc[h].undo :
            /\ s.doc[h].undo[i].by = a
            /\ \A j \in DOMAIN s.doc[h].undo : j > i => b \subseteq s.doc[h].undo[j].before.kept \cup s.disturbed
      BY <3>2 DEF Based, Home
    <3>11. Home(s, a) = s.doc[h]
      BY DEF Home
    <3> HIDE DEF h, b
    <3>7. Home(u, a) = u.doc[h]
      BY <3>3 DEF Home
    <3>8. CASE h = f
      <4>1. b \subseteq u.doc[f].text.kept \cup u.disturbed
        BY <1>2, <1>3, <1>6, <3>5, <3>8 DEF old
      <4>2. i \in DOMAIN was /\ was[i].by = a /\ \A j \in DOMAIN was : j > i => b \subseteq was[j].before.kept \cup s.disturbed
        BY <3>6, <3>8 DEF was
      <4>3. i \in DOMAIN now /\ now[i].by = a
        BY <1>3, <4>2
      <4>4. b \subseteq now[n + 1].before.kept \cup s.disturbed
        BY <1>3, <1>9, <3>5, <3>8 DEF old
      <4>5. ASSUME NEW j \in DOMAIN now, j > i PROVE b \subseteq now[j].before.kept \cup u.disturbed
        <5>1. j \in DOMAIN was \/ j = n + 1
          BY <1>3
        <5> QED BY <1>2, <1>3, <4>2, <4>4, <4>5, <5>1
      <4>6. Based(u, a)
        BY <3>3, <3>7, <3>8, <4>1, <4>3, <4>5 DEF Based, now
      <4> QED BY <1>2, <3>4, <3>8, <4>6
    <3>9. CASE h # f
      <4>1. Home(u, a) = Home(s, a)
        BY <1>2, <3>1, <3>7, <3>9, <3>11
      <4>2. Based(u, a)
        BY <1>2, <3>1, <3>2, <4>1 DEF Based
      <4>3. OnTop(s, a) => OnTop(u, a)
        BY <4>1 DEF OnTop
      <4>4. Shown(s, a) => Shown(u, a)
        BY <4>1 DEF Shown
      <4> QED BY <1>2, <3>2, <4>2, <4>3, <4>4
    <3> QED BY <3>8, <3>9
  <2> QED BY <2>1, <2>2
<1>14. AbsentOK(u, {})
  <2> SUFFICES ASSUME NEW a \in Applies, a \notin s.disturbed, u.loop[a].pc # "applied"
               PROVE  Absent(u, a)
    BY <1>2 DEF AbsentOK
  <2>1. s.loop[a].pc # "applied"
    BY <1>2, <1>7, Assumed
  <2>2. Absent(s, a)
    BY <1>1, <2>1 DEF AbsentOK
  <2>3. Without(old, a) /\ Without(t, a)
    BY <1>6, <2>2 DEF Absent, old
  <2>4. \A b \in Applies : a \notin u.loop[b].base
    <3> TAKE b \in Applies
    <3>1. CASE b = who
      BY <1>7, <2>3, <3>1, Assumed DEF Without
    <3>2. CASE b # who
      BY <1>2, <2>2, <3>2 DEF Absent
    <3> QED BY <3>1, <3>2
  <2>5. \A g \in Files : s.doc[g].text.partial = a => u.loop[a] = s.loop[a] /\ Waits(s, a) /\ s.loop[a].file = g
    BY <1>2, <1>8, <2>2 DEF Absent
  <2>6. ASSUME NEW g \in Files
        PROVE  /\ Without(u.doc[g].text, a)
               /\ u.doc[g].text.partial = a => Waits(u, a) /\ u.loop[a].file = g
    <3>1. CASE g # f
      <4>1. u.doc[g] = s.doc[g]
        BY <1>2, <3>1
      <4> QED BY <2>2, <2>5, <4>1 DEF Absent, Waits
    <3>2. CASE g = f
      <4>1. u.doc[f].text.partial = a => old.partial = a
        BY <1>3, <1>6, Assumed
      <4> QED BY <1>3, <2>3, <2>5, <3>2, <4>1 DEF Waits, old
    <3> QED BY <3>1, <3>2
  <2>7. ASSUME NEW g \in Files, NEW i \in DOMAIN u.doc[g].undo
        PROVE  Without(u.doc[g].undo[i].before, a) /\ u.doc[g].undo[i].before.partial # a
    <3>1. CASE g # f
      <4>1. u.doc[g] = s.doc[g]
        BY <1>2, <3>1
      <4> QED BY <2>2, <4>1 DEF Absent
    <3>2. CASE g = f
      <4>1. old.partial # a
        <5>1. Waits(s, a) /\ s.loop[a].file = f => FALSE
          BY DEF Unwatched
        <5> QED BY <2>5, <5>1 DEF old
      <4>2. Without(Snapshot(old), a) /\ Snapshot(old).partial # a
        BY <1>4, <1>9, <2>3, <4>1, WithoutSnapshot
      <4>3. i \in DOMAIN was \/ i = n + 1
        BY <1>3, <3>2 DEF now
      <4>4. i \in DOMAIN was => Without(was[i].before, a) /\ was[i].before.partial # a
        BY <2>2 DEF Absent, was
      <4>5. Without(now[i].before, a) /\ now[i].before.partial # a
        BY <1>3, <4>2, <4>3, <4>4
      <4> QED BY <3>2, <4>5 DEF now
    <3> QED BY <3>1, <3>2
  <2> QED BY <2>4, <2>6, <2>7 DEF Absent
<1>15. HasUndo(u, f)
  BY <1>3 DEF HasUndo, now
<1> QED BY <1>2, <1>10, <1>11, <1>12, <1>13, <1>14, <1>15 DEF Good, GoodBut

-----------------------------------------------------------------------------
\* The texts that are pushed

LEMMA OriginalKept ==
  ASSUME NEW t \in Snapshots, NEW D, Settled(t, D)
  PROVE  /\ Original(t) \subseteq Authors /\ Original(t) \subseteq t.kept \cup D
         /\ \A b : Without(t, b) => b \notin Original(t)
<1>1. CASE t.zones = {}
  <2>1. Original(t) = t.changes
    BY <1>1 DEF Original
  <2> QED BY <1>1, <2>1, TextFields DEF Settled, Without
<1>2. CASE t.zones # {}
  <2>1. (CHOOSE z \in t.zones : TRUE) \in t.zones
    BY <1>2
  <2>2. PICK z \in t.zones : Original(t) = z.original
    BY <1>2, <2>1 DEF Original
  <2>3. z.original \subseteq Authors
    BY TextFields
  <2> QED BY <2>2, <2>3 DEF Settled, Without
<1> QED BY <1>1, <1>2

LEMMA RejectedFields ==
  ASSUME NEW t \in Snapshots
  PROVE  LET u == Rejected(t)
         IN /\ u \in Snapshots /\ u.changes = Original(t) /\ u.zones = {} /\ u.kept = t.kept
            /\ u.partial \in {t.partial, NoOne}
<1> DEFINE u == Rejected(t)
           o == Original(t)
           p == IF t.zones = {} THEN t.partial ELSE NoOne
<1>1. o \subseteq Authors
  <2>1. CASE t.zones = {}
    BY <2>1, TextFields DEF Original
  <2>2. CASE t.zones # {}
    <3>1. (CHOOSE z \in t.zones : TRUE) \in t.zones
      BY <2>2
    <3>2. PICK z \in t.zones : o = z.original
      BY <2>2, <3>1 DEF Original
    <3> QED BY <3>2, TextFields
  <2> QED BY <2>1, <2>2
<1>2. p \in Applies \cup {NoOne} /\ p \in {t.partial, NoOne}
  BY TextFields
<1>3. u = [t EXCEPT !.changes = o, !.partial = p, !.zones = {}]
  BY DEF Rejected
<1> HIDE DEF o, p
<1>4. {} \in SUBSET Zone /\ o \in SUBSET Authors
  BY <1>1
<1>5. u \in Snapshots /\ u.changes = o /\ u.zones = {} /\ u.kept = t.kept /\ u.partial = p
  BY <1>2, <1>3, <1>4 DEF Snapshots
<1> QED BY <1>2, <1>5 DEF o

LEMMA RejectFollows ==
  ASSUME NEW old \in Snapshots, NEW D, Settled(old, D)
  PROVE  Rejected(old) \in Snapshots /\ Follows(Rejected(old), old, D, NoOne)
<1> DEFINE t == Rejected(old)
<1>1. /\ t \in Snapshots /\ t.changes = Original(old) /\ t.zones = {} /\ t.kept = old.kept
      /\ t.partial \in {old.partial, NoOne}
  BY RejectedFields
<1>2. /\ Original(old) \subseteq old.kept \cup D /\ \A b : Without(old, b) => b \notin Original(old)
  BY OriginalKept
<1> HIDE DEF t
<1>3. Settled(t, D)
  BY <1>1, <1>2 DEF Settled
<1>4. \A b \in Applies : Without(old, b) => Without(t, b)
  BY <1>1, <1>2 DEF Without
<1>5. \A z \in t.zones : FALSE
  BY <1>1
<1> QED BY <1>1, <1>3, <1>4, <1>5 DEF Follows, t

LEMMA AcceptFollows ==
  ASSUME NEW old \in Snapshots, NEW D
  PROVE  Accepted(old) \in Snapshots /\ Follows(Accepted(old), old, D, NoOne)
<1> DEFINE t == Accepted(old)
<1>1. old.kept \cup old.changes \in SUBSET Authors /\ {} \in SUBSET Zone
  BY TextFields
<1>2. /\ t \in Snapshots /\ t.changes = old.changes /\ t.zones = {} /\ t.kept = old.kept \cup old.changes
      /\ t.partial = old.partial
  BY <1>1 DEF Accepted, Snapshots
<1> HIDE DEF t
<1>3. Settled(t, D)
  BY <1>2 DEF Settled
<1>4. \A b \in Applies : Without(old, b) => Without(t, b)
  BY <1>2 DEF Without
<1>5. \A z \in t.zones : FALSE
  BY <1>2
<1> QED BY <1>2, <1>3, <1>4, <1>5 DEF Follows, t

ZoneOf(a, streams, o) == [loop |-> a, streaming |-> streams, original |-> o]

EditedText(t, e) == [t EXCEPT !.changes = @ \cup {e}, !.zones = {ZoneOf(NoOne, FALSE, Original(t))}]

LEMMA EditFollows ==
  ASSUME NEW old \in Snapshots, NEW D, Settled(old, D), NEW e \in Edits
  PROVE  EditedText(old, e) \in Snapshots /\ Follows(EditedText(old, e), old, D, NoOne)
<1> DEFINE t == EditedText(old, e)
           z == ZoneOf(NoOne, FALSE, Original(old))
<1>1. /\ Original(old) \subseteq Authors /\ Original(old) \subseteq old.kept \cup D
      /\ \A b : Without(old, b) => b \notin Original(old)
  BY OriginalKept
<1>2. z \in Zone /\ z.loop = NoOne /\ ~z.streaming /\ z.original = Original(old)
  <2> DEFINE o == Original(old)
  <2>1. o \in SUBSET Authors
    BY <1>1
  <2> HIDE DEF o
  <2>2. z = [loop |-> NoOne, streaming |-> FALSE, original |-> o]
    BY DEF ZoneOf, o
  <2> HIDE DEF z
  <2> QED BY <2>1, <2>2 DEF Zone, o
<1>3. t = [old EXCEPT !.changes = old.changes \cup {e}, !.zones = {z}]
  BY DEF EditedText
<1> HIDE DEF z
<1>4. old.changes \cup {e} \in SUBSET Authors /\ {z} \in SUBSET Zone
  BY <1>2, TextFields DEF Authors
<1>5. /\ t \in Snapshots /\ t.changes = old.changes \cup {e} /\ t.zones = {z} /\ t.kept = old.kept
      /\ t.partial = old.partial
  BY <1>3, <1>4 DEF Snapshots
<1> HIDE DEF t
<1>6. Settled(t, D)
  BY <1>1, <1>2, <1>5 DEF Settled
<1>7. \A b \in Applies : b # e
  BY Assumed
<1>8. \A b \in Applies : Without(old, b) => Without(t, b)
  BY <1>1, <1>2, <1>5, <1>7 DEF Without
<1>9. \A y \in t.zones : ~y.streaming
  BY <1>2, <1>5
<1> QED BY <1>5, <1>6, <1>8, <1>9 DEF Follows, t

StartedText(t, a) ==
  [Rejected(t) EXCEPT !.kept = @ \cup (t.changes \ Original(t)), !.zones = {ZoneOf(a, TRUE, t.changes)}]

LEMMA StartFollows ==
  ASSUME NEW old \in Snapshots, NEW D, Settled(old, D), NEW a \in Applies
  PROVE  /\ StartedText(old, a) \in Snapshots /\ Follows(StartedText(old, a), old, D, a)
         /\ old.changes \subseteq StartedText(old, a).kept \cup D
         /\ \E z \in StartedText(old, a).zones : z.loop = a /\ z.streaming
<1> DEFINE t == StartedText(old, a)
           r == Rejected(old)
           z == ZoneOf(a, TRUE, old.changes)
           k == r.kept \cup (old.changes \ Original(old))
<1>1. /\ Original(old) \subseteq old.kept \cup D
      /\ \A b : Without(old, b) => b \notin Original(old)
  BY OriginalKept
<1>2. z \in Zone /\ z.loop = a /\ z.streaming /\ z.original = old.changes
  <2>1. old.changes \in SUBSET Authors
    BY TextFields
  <2> DEFINE o == old.changes
  <2>2. z = [loop |-> a, streaming |-> TRUE, original |-> o]
    BY DEF ZoneOf
  <2> HIDE DEF o, z
  <2>3. o \in SUBSET Authors
    BY <2>1 DEF o
  <2> QED BY <2>2, <2>3 DEF Zone, o
<1>3. r \in Snapshots /\ r.changes = Original(old) /\ r.kept = old.kept /\ r.partial \in {old.partial, NoOne}
  BY RejectedFields
<1>4. t = [r EXCEPT !.kept = k, !.zones = {z}]
  BY DEF StartedText
<1> HIDE DEF z, r
<1>5. k \in SUBSET Authors /\ {z} \in SUBSET Zone /\ k = old.kept \cup (old.changes \ Original(old))
  BY <1>2, <1>3, TextFields
<1> HIDE DEF k
<1>6. /\ t \in Snapshots /\ t.changes = Original(old) /\ t.zones = {z} /\ t.kept = k
      /\ t.partial \in {old.partial, NoOne}
  BY <1>3, <1>4, <1>5 DEF Snapshots
<1> HIDE DEF t
<1>7. old.changes \subseteq k \cup D
  BY <1>1, <1>5
<1>8. Settled(t, D)
  BY <1>2, <1>6, <1>7 DEF Settled
<1>9. \A b \in Applies : Without(old, b) => Without(t, b)
  BY <1>1, <1>2, <1>6 DEF Without
<1>10. \A y \in t.zones : y.loop = a /\ a # NoOne
  BY <1>2, <1>6, Assumed
<1>11. old.kept \subseteq t.kept
  BY <1>5, <1>6
<1>12. \E y \in t.zones : y.loop = a /\ y.streaming
  BY <1>2, <1>6
<1> QED BY <1>6, <1>7, <1>8, <1>9, <1>10, <1>11, <1>12 DEF Follows, t

-----------------------------------------------------------------------------
\* The actions of the agent and of the user

PutDoc(s, f, d) == [s EXCEPT !.doc[f] = d]

LEMMA PutDocFields ==
  ASSUME NEW s \in States, NEW f \in Files, NEW d \in Doc, NEW u, u = PutDoc(s, f, d)
  PROVE  /\ u \in States /\ u.loop = s.loop /\ u.open = s.open /\ u.disturbed = s.disturbed
         /\ u.doc[f] = d /\ \A g \in Files : g # f => u.doc[g] = s.doc[g]
<1>1. s.doc \in [Files -> Doc]
  BY StatesDef
<1>2. u = [s EXCEPT !.doc = [s.doc EXCEPT ![f] = d]]
  BY DEF PutDoc
<1>3. [s.doc EXCEPT ![f] = d] \in [Files -> Doc]
  BY <1>1
<1>4. /\ u \in States /\ u.doc = [s.doc EXCEPT ![f] = d]
      /\ u.loop = s.loop /\ u.open = s.open /\ u.disturbed = s.disturbed
  BY <1>2, <1>3 DEF States
<1> QED BY <1>1, <1>4

\* Nobody's loop is touched: something is pushed.
LEMMA PutGood ==
  ASSUME NEW s, Good(s), NEW f \in Files, NEW t \in Snapshots,
         Follows(t, s.doc[f].text, s.disturbed, NoOne), Unwatched(s, f),
         NEW u, u = PutDoc(s, f, Pushed(s.doc[f], NoOne, t))
  PROVE  Good(u) /\ HasUndo(u, f) /\ Keeps(s, u)
<1> DEFINE d == s.doc[f]
           e == Pushed(d, NoOne, t)
<1>1. s \in States /\ OpenOK(s)
  BY DEF Good, GoodBut
<1>2. d \in Doc /\ NoOne \in Applies \cup {NoOne}
  BY <1>1, StatesDef
<1> HIDE DEF d
<1>3. e \in Doc
  BY <1>2, PushedFields
<1> HIDE DEF e
<1>4. u = PutDoc(s, f, e)
  BY DEF d, e
<1>5. /\ u \in States /\ u.loop = s.loop /\ u.open = s.open /\ u.disturbed = s.disturbed
      /\ u.doc[f] = e /\ \A g \in Files : g # f => u.doc[g] = s.doc[g]
  BY <1>1, <1>3, <1>4, PutDocFields
<1>6. \A b \in u.open : Waits(u, b)
  BY <1>1, <1>5 DEF OpenOK, Waits
<1>7. Pushes(s, u, f, NoOne, t)
  BY <1>5, <1>6 DEF Pushes, d, e
<1>8. Starts(s, u, f, NoOne, t)
  BY DEF Starts
<1>9. Good(u) /\ HasUndo(u, f)
  BY <1>2, <1>7, <1>8, PushGood
<1>10. Keeps(s, u)
  BY <1>5 DEF Keeps
<1> QED BY <1>9, <1>10

Watching(s, f) == {a \in Applies : s.loop[a].pc = "waiting" /\ s.loop[a].file = f}
More(s, as) == [s EXCEPT !.disturbed = @ \cup as]

LEMMA MoreFields ==
  ASSUME NEW s \in States, NEW as \in SUBSET Applies, NEW u, u = More(s, as)
  PROVE  u \in States /\ u.doc = s.doc /\ u.loop = s.loop /\ u.open = s.open /\ u.disturbed = s.disturbed \cup as
BY DEF States, More

\* Whoever streams into the file is disturbed.
LEMMA DisturbedGood ==
  ASSUME NEW s, Good(s), NEW f \in Files, NEW u, u = More(s, Watching(s, f))
  PROVE  Good(u) /\ Unwatched(u, f) /\ Keeps(s, u) /\ u.doc = s.doc
<1> DEFINE as == Watching(s, f)
<1>1. s \in States /\ FilesOK(s) /\ OpenOK(s) /\ StreamOK(s) /\ WaitOK(s, {}) /\ AbsentOK(s, {})
  BY DEF Good, GoodBut
<1>2. as \in SUBSET Applies /\ \A b \in Applies : Waits(s, b) /\ s.loop[b].file = f => b \in as
  BY DEF Watching, Waits
<1> HIDE DEF as
<1>3. u \in States /\ u.doc = s.doc /\ u.loop = s.loop /\ u.open = s.open /\ u.disturbed = s.disturbed \cup as
  BY <1>1, <1>2, MoreFields DEF as
<1>4. /\ s.disturbed \subseteq u.disturbed
      /\ \A b \in Applies : Waits(u, b) <=> Waits(s, b)
  BY <1>3 DEF Waits
<1>5. FilesOK(u)
  <2> SUFFICES ASSUME NEW g \in Files
               PROVE  /\ Settled(u.doc[g].text, u.disturbed)
                      /\ \A i \in DOMAIN u.doc[g].undo : UndoOK(u, g, u.doc[g].undo[i])
    BY DEF FilesOK
  <2>1. Settled(s.doc[g].text, u.disturbed)
    BY <1>1, <1>4, SettledMore DEF FilesOK
  <2>2. ASSUME NEW x, UndoOK(s, g, x) PROVE UndoOK(u, g, x)
    <3>1. Settled(x.before, u.disturbed)
      BY <1>4, <2>2, SettledMore DEF UndoOK
    <3> QED BY <1>3, <2>2, <3>1 DEF UndoOK
  <2> QED BY <1>1, <1>3, <2>1, <2>2 DEF FilesOK
<1>6. OpenOK(u)
  BY <1>1, <1>3 DEF OpenOK, Waits
<1>7. StreamOK(u)
  BY <1>1, <1>3 DEF StreamOK, Waits
<1>8. WaitOK(u, {})
  <2> SUFFICES ASSUME NEW a \in Applies, Waits(u, a)
               PROVE  Based(u, a) /\ (a \notin u.disturbed => OnTop(u, a) /\ Shown(u, a))
    BY DEF WaitOK
  <2>1. Based(s, a) /\ (a \notin s.disturbed => OnTop(s, a) /\ Shown(s, a))
    BY <1>1, <1>4 DEF WaitOK
  <2>2. Home(u, a) = Home(s, a) /\ u.loop[a].base = s.loop[a].base
    BY <1>3 DEF Home
  <2>3. Based(u, a)
    BY <1>4, <2>1, <2>2 DEF Based
  <2>4. (OnTop(s, a) => OnTop(u, a)) /\ (Shown(s, a) => Shown(u, a))
    BY <2>2 DEF OnTop, Shown
  <2> QED BY <1>4, <2>1, <2>3, <2>4
<1>9. AbsentOK(u, {})
  <2> SUFFICES ASSUME NEW a \in Applies, a \notin u.disturbed, u.loop[a].pc # "applied"
               PROVE  Absent(u, a)
    BY DEF AbsentOK
  <2>1. Absent(s, a)
    BY <1>1, <1>3, <1>4 DEF AbsentOK
  <2> QED BY <1>3, <1>4, <2>1 DEF Absent
<1>10. Unwatched(u, f)
  BY <1>2, <1>3, <1>4 DEF Unwatched
<1> QED BY <1>3, <1>5, <1>6, <1>7, <1>8, <1>9, <1>10 DEF Good, GoodBut, Keeps

LEMMA UndoneOrSame ==
  ASSUME NEW s, Good(s), NEW f \in Files, NEW u, u = Undone(s, f)
  PROVE  Good(u) /\ Keeps(s, u) /\ (HasUndo(s, f) => AllStopped(s, u))
<1>1. CASE HasUndo(s, f)
  <2>1. GoodBut(s, {}, {}) /\ \A a \in {} : FileOf(s, a) = f
    BY DEF Good
  <2>2. GoodBut(u, {}, {}) /\ AllStopped(s, u)
    BY <1>1, <2>1, UndoneStops
  <2> QED BY <2>2, StoppedKeeps DEF Good
<1>2. CASE ~HasUndo(s, f)
  <2>1. u = s
    BY <1>2 DEF Undone, HasUndo
  <2> QED BY <1>2, <2>1 DEF Keeps
<1> QED BY <1>1, <1>2

\* What streams has something to undo.
LEMMA StreamingUndo ==
  ASSUME NEW s, Good(s), NEW f \in Files, Streaming(s.doc[f])
  PROVE  HasUndo(s, f)
<1>1. s \in States /\ StreamOK(s)
  BY DEF Good, GoodBut
<1>2. PICK z \in s.doc[f].text.zones : z.streaming
  BY DEF Streaming
<1>3. z.loop # NoOne /\ Waits(s, z.loop) /\ s.loop[z.loop].file = f
  BY <1>1, <1>2 DEF StreamOK
<1>4. z.loop \in Applies
  <2>1. s.doc[f].text \in Snapshots
    BY <1>1, StatesDef
  <2> QED BY <1>3, <2>1, TextFields
<1> QED BY <1>3, <1>4, BasedUndo DEF FileOf

\* interruptURIStreaming: when all is undone, nothing streams that could be stopped.
StreamsIn(s, f) == {a \in Applies : \E z \in s.doc[f].text.zones : z.loop = a /\ z.streaming}

Nobody(as) == \A a : a \notin as

LEMMA NobodyAborted ==
  ASSUME NEW s \in States, NEW as, Nobody(as), NEW v, v = AbortedAll(s, as)
  PROVE  /\ v \in States /\ v.doc = s.doc /\ v.open = s.open /\ v.disturbed = s.disturbed
         /\ \A a \in Applies : /\ v.loop[a].pc = s.loop[a].pc /\ v.loop[a].file = s.loop[a].file
                               /\ v.loop[a].base = s.loop[a].base
<1> DEFINE ls == [a \in Applies |-> IF a \in as /\ s.loop[a].pc = "waiting" THEN [s.loop[a] EXCEPT !.pc = "failed"] ELSE s.loop[a]]
<1>1. s.loop \in [Applies -> Loop] /\ s.open \subseteq Applies
  BY StatesDef
<1>2. ls \in [Applies -> Loop] /\ \A a \in Applies : ls[a] = s.loop[a]
  BY <1>1 DEF Nobody
<1>3. v = [s EXCEPT !.open = s.open \ as, !.loop = ls]
  BY DEF AbortedAll
<1> HIDE DEF ls
<1>4. v \in States /\ v.doc = s.doc /\ v.open = s.open \ as /\ v.disturbed = s.disturbed /\ v.loop = ls
  BY <1>1, <1>2, <1>3 DEF States
<1>5. s.open \ as = s.open
  BY <1>1 DEF Nobody
<1> QED BY <1>2, <1>4, <1>5

LEMMA StopGood ==
  ASSUME NEW s, Good(s), NEW f \in Files, \A g \in Files : Quiet(s.doc[g].text),
         NEW v, v = AbortedAll(s, StreamsIn(s, f)),
         NEW u, u = PutDoc(v, f, Stopped(s.doc[f]))
  PROVE  Good(u) /\ Keeps(s, u)
<1> DEFINE d == s.doc[f]
           e == Stopped(d)
<1>1. s \in States /\ FilesOK(s) /\ OpenOK(s) /\ AbsentOK(s, {}) /\ GoodBut(s, {}, {})
  BY DEF Good, GoodBut
<1>2. Nobody(StreamsIn(s, f))
  BY DEF StreamsIn, Quiet, Nobody
<1>4. /\ v \in States /\ v.doc = s.doc /\ v.open = s.open /\ v.disturbed = s.disturbed
      /\ \A a \in Applies : /\ v.loop[a].pc = s.loop[a].pc /\ v.loop[a].file = s.loop[a].file
                            /\ v.loop[a].base = s.loop[a].base
  BY <1>1, <1>2, NobodyAborted
<1>5. d \in Doc /\ Quiet(d.text)
  BY <1>1, StatesDef
<1> HIDE DEF d
<1>6. /\ e \in Doc /\ e.undo = d.undo
      /\ e.text.changes = d.text.changes /\ e.text.partial = d.text.partial /\ e.text.kept = d.text.kept
      /\ e.text.zones = d.text.zones
  BY <1>5, StoppedFields
<1> HIDE DEF e
<1>7. /\ u \in States /\ u.loop = v.loop /\ u.open = v.open /\ u.disturbed = v.disturbed
      /\ u.doc[f] = e /\ \A g \in Files : g # f => u.doc[g] = v.doc[g]
  BY <1>4, <1>6, PutDocFields DEF d, e
<1>8. /\ \A a \in Applies : /\ u.loop[a].pc = s.loop[a].pc /\ u.loop[a].file = s.loop[a].file
                            /\ u.loop[a].base = s.loop[a].base
      /\ \A a \in u.open : Waits(s, a)
  BY <1>1, <1>4, <1>7 DEF OpenOK
<1>9. Rewritten(s, u, f)
  BY <1>4, <1>6, <1>7, <1>8 DEF Rewritten, d
<1>10. StoppedZones(d.text.zones, d.text.zones, {})
  BY <1>1, SameZones DEF FilesOK, Settled, d
<1>11. ZonesStop(s, u, f, {})
  BY <1>6, <1>7, <1>10 DEF ZonesStop, d
<1>12. e.text.zones = {} => e.text.changes \subseteq e.text.kept \cup s.disturbed
  BY <1>1, <1>6 DEF FilesOK, Settled, d
<1>13. \A b \in Applies \ (s.disturbed \cup {}) : s.loop[b].pc # "applied" =>
        b \notin d.text.changes /\ (d.text.partial = b => Waits(s, b) /\ s.loop[b].file = f)
  BY <1>1 DEF AbsentOK, Absent, Without, d
<1>14. WellWritten(s, u, f, {})
  BY <1>6, <1>7, <1>12, <1>13 DEF WellWritten
<1>15. {} \subseteq {}
  OBVIOUS
<1>16. GoodBut(u, {}, {})
  BY <1>1, <1>9, <1>11, <1>14, <1>15, TextChange
<1> QED BY <1>8, <1>16 DEF Good, Keeps

-----------------------------------------------------------------------------
\* The invariant and the steps

Tools == [Edits -> [pc : {"idle", "checked", "done", "refused"}, file : Files]]
IInv == Good(State) /\ tool \in Tools

LEMMA StateOf == State.doc = doc /\ State.loop = loop /\ State.open = open /\ State.disturbed = disturbed
BY DEF State

LEMMA BecomesState ==
  ASSUME NEW u, u \in States, Becomes(u)
  PROVE  State' = u
BY DEF Becomes, State, States

LEMMA BecomesGood ==
  ASSUME NEW u, Good(u) /\ Keeps(State, u), Becomes(u)
  PROVE  Good(State)' /\ Keeps(State, State')
<1>1. u \in States
  BY DEF Good, GoodBut
<1>2. State' = u
  BY <1>1, BecomesState
<1>3. Good(State')
  BY <1>2
<1> QED BY <1>2, <1>3

LEMMA OpenWaits ==
  ASSUME IInv, NEW a \in Applies, a \in open
  PROVE  Waits(State, a)
BY DEF IInv, Good, GoodBut, OpenOK, State

LEMMA TextStep ==
  ASSUME IInv, NEW a \in Applies, Text(a)
  PROVE  Good(State)' /\ Keeps(State, State')
<1> DEFINE u == PartialSet(State, a, FileOf(State, a))
<1>1. Good(State) /\ Waits(State, a)
  BY OpenWaits DEF IInv, Text
<1>2. Good(u) /\ Keeps(State, u)
  BY <1>1, TextGood
<1>3. Becomes(u)
  BY StateOf DEF Text, PartialSet, FileOf
<1> HIDE DEF u
<1> QED BY <1>2, <1>3, BecomesGood

LEMMA TextManyStep ==
  ASSUME IInv, NEW a \in Applies, TextManyBlocks(a)
  PROVE  Good(State)' /\ Keeps(State, State')
<1> DEFINE v == PartialSet(State, a, FileOf(State, a))
           u == ManySet(v, a)
<1>1. Good(State) /\ Waits(State, a)
  BY OpenWaits DEF IInv, TextManyBlocks, MayAnswer
<1>2. Good(v) /\ Keeps(State, v)
  BY <1>1, TextGood
<1>3. Becomes(u)
  BY StateOf DEF TextManyBlocks, PartialSet, ManySet, FileOf
<1> HIDE DEF v
<1>4. Good(u) /\ Keeps(v, u)
  BY <1>2, ManyGood
<1> HIDE DEF u
<1>5. Keeps(State, u)
  BY <1>2, <1>4, KeepsTrans
<1> QED BY <1>3, <1>4, <1>5, BecomesGood

LEMMA TextMismatchStep ==
  ASSUME IInv, NEW a \in Applies, TextMismatch(a)
  PROVE  Good(State)' /\ Keeps(State, State')
<1> DEFINE u == Again(Write(State, a, BaseOf(State, a)), a)
<1>1. Good(State) /\ Waits(State, a)
  BY OpenWaits DEF IInv, TextMismatch, MayAnswer
<1>2. Good(u) /\ Keeps(State, u)
  BY <1>1, MismatchGood
<1>3. Becomes(u)
  BY StateOf DEF TextMismatch, BaseOf
<1> HIDE DEF u
<1> QED BY <1>2, <1>3, BecomesGood

LEMMA FinalStep ==
  ASSUME IInv, NEW a \in Applies, Final(a)
  PROVE  Good(State)' /\ Keeps(State, State')
<1> DEFINE d == Done(Write(State, a, BaseOf(State, a) \cup {a}), a)
           u == Closed(PcSet(d, a, "applied"), a)
<1>1. Good(State) /\ Waits(State, a)
  BY OpenWaits DEF IInv, Final
<1>2. Good(u) /\ Keeps(State, u)
  BY <1>1, FinalGood
<1>3. Becomes([d EXCEPT !.loop[a].pc = "applied", !.open = @ \ {a}])
  BY StateOf DEF Final, BaseOf
<1> HIDE DEF d
<1>4. u = [d EXCEPT !.loop[a].pc = "applied", !.open = @ \ {a}]
  BY DEF PcSet, Closed
<1> HIDE DEF u
<1>5. Becomes(u)
  BY <1>3, <1>4
<1> QED BY <1>2, <1>5, BecomesGood

LEMMA FinalMismatchStep ==
  ASSUME IInv, NEW a \in Applies, FinalMismatch(a)
  PROVE  Good(State)' /\ Keeps(State, State')
<1> DEFINE v == Failed(Write(Closed(State, a), a, BaseOf(State, a)), a)
           u == IF Waits(v, a) THEN Again(v, a) ELSE v
<1>1. Good(State) /\ Waits(State, a)
  BY OpenWaits DEF IInv, FinalMismatch, MayAnswer
<1>2. Good(u) /\ Keeps(State, u)
  BY <1>1, FinalMismatchGood
<1>3. Becomes(u)
  BY StateOf DEF FinalMismatch, BaseOf, Closed, Waits
<1> HIDE DEF u
<1> QED BY <1>2, <1>3, BecomesGood

LEMMA FinalEmptyStep ==
  ASSUME IInv, NEW a \in Applies, FinalEmpty(a)
  PROVE  Good(State)' /\ Keeps(State, State')
<1> DEFINE u == Failed(Write(Closed(State, a), a, BaseOf(State, a)), a)
<1>1. Good(State) /\ Waits(State, a)
  BY OpenWaits DEF IInv, FinalEmpty, MayAnswer
<1>2. Good(u) /\ Keeps(State, u)
  BY <1>1, EmptyGood
<1>3. Becomes(u)
  BY StateOf DEF FinalEmpty, BaseOf, Closed
<1> HIDE DEF u
<1> QED BY <1>2, <1>3, BecomesGood

LEMMA FinalManyStep ==
  ASSUME IInv, NEW a \in Applies, FinalManyBlocks(a)
  PROVE  Good(State)' /\ Keeps(State, State')
<1> DEFINE u == Closed(State, a)
<1>1. Good(State)
  BY DEF IInv
<1>2. Good(u) /\ u.loop = State.loop
  BY <1>1, ClosedGood
<1>3. Becomes(u)
  BY DEF FinalManyBlocks, Closed
<1> HIDE DEF u
<1>4. Keeps(State, u)
  BY <1>2 DEF Keeps
<1> QED BY <1>2, <1>3, <1>4, BecomesGood

LEMMA RequestFailsStep ==
  ASSUME IInv, NEW a \in Applies, RequestFails(a)
  PROVE  Good(State)' /\ Keeps(State, State')
<1> DEFINE u == Failed(Closed(State, a), a)
<1>1. Good(State) /\ Waits(State, a)
  BY OpenWaits DEF IInv, RequestFails
<1>2. Good(u) /\ Keeps(State, u)
  BY <1>1, RequestFailsGood
<1>3. Becomes(u)
  BY DEF RequestFails, Closed
<1> HIDE DEF u
<1> QED BY <1>2, <1>3, BecomesGood

LEMMA StartStep ==
  ASSUME IInv, NEW a \in Applies, NEW f \in Files, Start(a, f)
  PROVE  Good(State)'
<1> DEFINE s == State
           old == doc[f].text
           t == StartedText(old, a)
           e == Pushed(doc[f], a, t)
           l == [pc |-> "waiting", file |-> f, base |-> old.changes, n |-> 1, many |-> FALSE]
           u == [s EXCEPT !.doc[f] = e, !.loop[a] = l, !.open = @ \cup {a}]
<1>1. Good(s)
  BY DEF IInv
<1>2. /\ s \in States /\ FilesOK(s) /\ OpenOK(s) /\ StreamOK(s) /\ WaitOK(s, {})
      /\ s.doc = doc /\ s.loop = loop /\ s.open = open /\ s.disturbed = disturbed
  BY <1>1, StateOf DEF Good, GoodBut
<1>3. Becomes(u)
  BY DEF Start, StartedText, ZoneOf
<1>4. loop[a].pc = "unused" /\ ~Streaming(doc[f])
  BY DEF Start, MayStart
<1> HIDE DEF s
<1>5. /\ doc \in [Files -> Doc] /\ loop \in [Applies -> Loop] /\ open \subseteq Applies
      /\ doc[f] \in Doc /\ old \in Snapshots /\ old.changes \subseteq Authors
  <2>1. /\ doc \in [Files -> Doc] /\ loop \in [Applies -> Loop] /\ open \subseteq Applies
        /\ doc[f] \in Doc /\ old \in Snapshots
    BY <1>2, StatesDef
  <2> QED BY <2>1, TextFields
<1>6. Settled(old, disturbed)
  BY <1>2 DEF FilesOK
<1> HIDE DEF old
<1>7. /\ t \in Snapshots /\ Follows(t, old, disturbed, a)
      /\ old.changes \subseteq t.kept \cup disturbed
      /\ \E z \in t.zones : z.loop = a /\ z.streaming
  BY <1>5, <1>6, StartFollows
<1> HIDE DEF t
<1>8. e \in Doc /\ a \in Applies \cup {NoOne}
  BY <1>5, <1>7, PushedFields
<1> HIDE DEF e
<1>9. l \in Loop /\ l.pc = "waiting" /\ l.file = f /\ l.base = old.changes
  <2>1. 1 \in 0 .. (NRetries - 1)
    BY Assumed
  <2> QED BY <1>5, <2>1 DEF Loop
<1> HIDE DEF l
<1>10. [doc EXCEPT ![f] = e] \in [Files -> Doc] /\ [loop EXCEPT ![a] = l] \in [Applies -> Loop]
  BY <1>5, <1>8, <1>9
<1>11. u = [s EXCEPT !.doc = [doc EXCEPT ![f] = e], !.loop = [loop EXCEPT ![a] = l], !.open = open \cup {a}]
  BY <1>2
<1> HIDE DEF u
<1>12. /\ u \in States /\ u.doc = [doc EXCEPT ![f] = e] /\ u.loop = [loop EXCEPT ![a] = l]
       /\ u.open = open \cup {a} /\ u.disturbed = disturbed
  BY <1>2, <1>5, <1>10, <1>11 DEF States
<1>13. /\ u.doc[f] = e /\ \A g \in Files : g # f => u.doc[g] = s.doc[g]
       /\ u.loop[a] = l /\ \A b \in Applies : b # a => u.loop[b] = s.loop[b]
  BY <1>2, <1>5, <1>12
<1>14. \A b \in u.open : Waits(u, b)
  <2> SUFFICES ASSUME NEW b \in u.open PROVE Waits(u, b)
    OBVIOUS
  <2>1. CASE b = a
    BY <1>9, <1>13, <2>1 DEF Waits
  <2>2. CASE b # a
    <3>1. b \in open /\ b \in Applies
      BY <1>5, <1>12, <2>2
    <3>2. Waits(s, b)
      BY <1>2, <3>1 DEF OpenOK
    <3> QED BY <1>13, <2>2, <3>1, <3>2 DEF Waits
  <2> QED BY <2>1, <2>2
<1>15. Pushes(s, u, f, a, t)
  BY <1>2, <1>12, <1>13, <1>14 DEF Pushes, e
<1>16. Starts(s, u, f, a, t)
  BY <1>2, <1>4, <1>7, <1>9, <1>13 DEF Starts, old
<1>17. Follows(t, s.doc[f].text, s.disturbed, a)
  BY <1>2, <1>7 DEF old
<1>18. Unwatched(s, f)
  <2> SUFFICES ASSUME NEW b \in Applies, Waits(s, b), s.loop[b].file = f, b \notin s.disturbed PROVE FALSE
    BY DEF Unwatched
  <2>1. Shown(s, b)
    BY <1>2 DEF WaitOK
  <2> QED BY <1>2, <1>4, <2>1 DEF Shown, Home, Streaming
<1>19. Good(u)
  BY <1>1, <1>7, <1>8, <1>15, <1>16, <1>17, <1>18, PushGood
<1>20. State' = u
  BY <1>3, <1>12, BecomesState
<1> QED BY <1>19, <1>20

\* What edit_file pushes, before it is perhaps undone
LEMMA EditPushes ==
  ASSUME IInv, NEW e \in Edits, NEW f \in Files,
         NEW u, u = [Disturbed(f) EXCEPT !.doc[f] = Edited(doc[f], e)]
  PROVE  Good(u) /\ Keeps(State, u)
<1> DEFINE s == More(State, Watching(State, f))
           t == EditedText(s.doc[f].text, e)
<1>1. Good(s) /\ Unwatched(s, f) /\ Keeps(State, s) /\ s.doc = doc
  BY DisturbedGood, StateOf DEF IInv
<1>2. u = PutDoc(s, f, Pushed(s.doc[f], NoOne, t))
  BY <1>1, StateOf DEF Disturbed, Edited, EditedText, ZoneOf, PutDoc, More, Watching
<1> HIDE DEF s
<1>3. s.doc[f].text \in Snapshots /\ Settled(s.doc[f].text, s.disturbed)
  BY <1>1, StatesDef DEF Good, GoodBut, FilesOK
<1>4. t \in Snapshots /\ Follows(t, s.doc[f].text, s.disturbed, NoOne)
  BY <1>3, EditFollows
<1> HIDE DEF t
<1>5. Good(u) /\ Keeps(s, u)
  BY <1>1, <1>2, <1>4, PutGood
<1> QED BY <1>1, <1>5, KeepsTrans

LEMMA EditStep ==
  ASSUME IInv, NEW e \in Edits, Edit(e)
  PROVE  Good(State)' /\ Keeps(State, State')
<1> DEFINE f == tool[e].file
           s == [Disturbed(f) EXCEPT !.doc[f] = Edited(doc[f], e)]
<1>1. f \in Files
  BY DEF IInv, Tools
<1>2. Becomes(s) \/ Becomes(Undone(s, f))
  BY DEF Edit
<1> HIDE DEF f
<1>3. Good(s) /\ Keeps(State, s)
  BY <1>1, EditPushes
<1> HIDE DEF s
<1>4. CASE Becomes(s)
  BY <1>3, <1>4, BecomesGood
<1>5. CASE Becomes(Undone(s, f))
  <2>1. Good(Undone(s, f)) /\ Keeps(s, Undone(s, f))
    BY <1>1, <1>3, UndoneOrSame
  <2>2. Keeps(State, Undone(s, f))
    BY <1>3, <2>1, KeepsTrans
  <2> QED BY <1>5, <2>1, <2>2, BecomesGood
<1> QED BY <1>2, <1>4, <1>5

LEMMA AcceptStep ==
  ASSUME IInv, NEW f \in Files, Accept(f)
  PROVE  Good(State)' /\ Keeps(State, State')
<1> DEFINE s == More(State, Watching(State, f))
           t == Accepted(s.doc[f].text)
           u == PutDoc(s, f, Pushed(s.doc[f], NoOne, t))
<1>1. Good(s) /\ Unwatched(s, f) /\ Keeps(State, s) /\ s.doc = doc
  BY DisturbedGood, StateOf DEF IInv
<1>2. Becomes(u)
  BY <1>1, StateOf DEF Accept, Disturbed, PutDoc, More, Watching
<1> HIDE DEF s
<1>3. s.doc[f].text \in Snapshots
  BY <1>1, StatesDef DEF Good, GoodBut
<1>4. t \in Snapshots /\ Follows(t, s.doc[f].text, s.disturbed, NoOne)
  BY <1>3, AcceptFollows
<1> HIDE DEF t
<1>5. Good(u) /\ Keeps(s, u)
  BY <1>1, <1>4, PutGood
<1> HIDE DEF u
<1>6. Keeps(State, u)
  BY <1>1, <1>5, KeepsTrans
<1> QED BY <1>2, <1>5, <1>6, BecomesGood

LEMMA RejectStep ==
  ASSUME IInv, NEW f \in Files, Reject(f)
  PROVE  Good(State)' /\ Keeps(State, State')
<1> DEFINE s == More(State, Watching(State, f))
           t == Rejected(s.doc[f].text)
           u == PutDoc(s, f, Pushed(s.doc[f], NoOne, t))
<1>1. Good(s) /\ Unwatched(s, f) /\ Keeps(State, s) /\ s.doc = doc
  BY DisturbedGood, StateOf DEF IInv
<1>2. Becomes(u)
  BY <1>1, StateOf DEF Reject, Disturbed, PutDoc, More, Watching
<1> HIDE DEF s
<1>3. s.doc[f].text \in Snapshots /\ Settled(s.doc[f].text, s.disturbed)
  BY <1>1, StatesDef DEF Good, GoodBut, FilesOK
<1>4. t \in Snapshots /\ Follows(t, s.doc[f].text, s.disturbed, NoOne)
  BY <1>3, RejectFollows
<1> HIDE DEF t
<1>5. Good(u) /\ Keeps(s, u)
  BY <1>1, <1>4, PutGood
<1> HIDE DEF u
<1>6. Keeps(State, u)
  BY <1>1, <1>5, KeepsTrans
<1> QED BY <1>2, <1>5, <1>6, BecomesGood

LEMMA UndoStep ==
  ASSUME IInv, NEW f \in Files, Undo(f)
  PROVE  Good(State)' /\ Keeps(State, State')
<1> DEFINE u == Undone(State, f)
<1>1. Good(u) /\ Keeps(State, u)
  BY UndoneOrSame DEF IInv
<1>2. Becomes(u)
  BY DEF Undo
<1> HIDE DEF u
<1> QED BY <1>1, <1>2, BecomesGood

LEMMA StopStep ==
  ASSUME IInv, NEW f \in Files, Stop(f)
  PROVE  Good(State)' /\ Keeps(State, State')
<1> DEFINE s == Undone(State, f)
           v == AbortedAll(s, StreamsIn(s, f))
           u == PutDoc(v, f, Stopped(s.doc[f]))
<1>1. Good(State) /\ HasUndo(State, f)
  BY StreamingUndo, StateOf DEF IInv, Stop
<1>2. Good(s) /\ Keeps(State, s) /\ AllStopped(State, s)
  BY <1>1, UndoneOrSame
<1>3. Becomes([v EXCEPT !.doc[f] = Stopped(@)])
  BY DEF Stop, StreamsIn
<1> HIDE DEF s
<1>4. \A g \in Files : Quiet(s.doc[g].text)
  BY <1>2 DEF AllStopped
<1>5. Good(u) /\ Keeps(s, u)
  BY <1>2, <1>4, StopGood
<1>6. v.doc = s.doc
  BY DEF AbortedAll
<1>7. Becomes(u)
  BY <1>3, <1>6 DEF PutDoc
<1> HIDE DEF u
<1>8. Keeps(State, u)
  BY <1>2, <1>5, KeepsTrans
<1> QED BY <1>5, <1>7, <1>8, BecomesGood

LEMMA ToolsStep ==
  ASSUME tool \in Tools, Next
  PROVE  tool' \in Tools
<1>1. CASE UNCHANGED tool
  BY <1>1
<1>2. ASSUME NEW e \in Edits, Edit(e) PROVE tool' \in Tools
  BY <1>2 DEF Edit, Tools
<1>3. ASSUME NEW e \in Edits, NEW f \in Files, CheckEdit(e, f) PROVE tool' \in Tools
  BY <1>3 DEF CheckEdit, Tools
<1> QED BY <1>1, <1>2, <1>3 DEF Next, Streams, Text, TextMismatch, TextManyBlocks, Ends, Final, FinalMismatch,
                               FinalEmpty, FinalManyBlocks, RequestFails, Start, Accept, Reject, Undo, Stop

LEMMA CheckEditStep ==
  ASSUME IInv, NEW e \in Edits, NEW f \in Files, CheckEdit(e, f)
  PROVE  Good(State)' /\ Keeps(State, State')
<1>1. State' = State
  BY DEF CheckEdit, State
<1>2. Good(State')
  BY <1>1 DEF IInv
<1> QED BY <1>1, <1>2 DEF Keeps

LEMMA InitInv == Init => IInv
<1> SUFFICES ASSUME Init PROVE IInv
  OBVIOUS
<1> DEFINE s == State
           t == [changes |-> {}, partial |-> NoOne, kept |-> {}, zones |-> {}]
           d == [text |-> t, undo |-> <<>>]
           h == CHOOSE f \in Files : TRUE
           l == [pc |-> "unused", file |-> h, base |-> {}, n |-> 0, many |-> FALSE]
<1>1. h \in Files
  BY Assumed
<1> HIDE DEF h
<1>2. /\ doc = [f \in Files |-> d] /\ loop = [a \in Applies |-> l] /\ open = {} /\ disturbed = {}
      /\ tool = [e \in Edits |-> [pc |-> "idle", file |-> h]]
  BY DEF Init, h
<1>3. t \in Snapshots
  <2>1. {} \in SUBSET Zone /\ {} \in SUBSET Authors /\ NoOne \in Applies \cup {NoOne}
    OBVIOUS
  <2> QED BY <2>1 DEF Snapshots
<1>4. d \in Doc /\ d.text = t /\ d.undo = <<>> /\ DOMAIN d.undo = {}
  <2>1. <<>> \in Seq(Element) /\ DOMAIN <<>> = {}
    OBVIOUS
  <2> HIDE DEF t
  <2> QED BY <1>3, <2>1 DEF Doc
<1>5. l \in Loop /\ l.pc = "unused" /\ l.base = {}
  <2>1. 0 \in 0 .. (NRetries - 1) /\ {} \in SUBSET Authors
    BY Assumed
  <2> QED BY <1>1, <2>1 DEF Loop
<1>6. t.zones = {} /\ t.changes = {} /\ t.partial = NoOne
  OBVIOUS
<1> HIDE DEF t, d, l
<1>7. /\ doc \in [Files -> Doc] /\ loop \in [Applies -> Loop]
      /\ \A f \in Files : doc[f].text = t /\ DOMAIN doc[f].undo = {}
      /\ \A a \in Applies : loop[a].pc = "unused" /\ loop[a].base = {}
  BY <1>2, <1>4, <1>5
<1>8. s \in States
  BY <1>2, <1>7 DEF State, States
<1>9. s.doc = doc /\ s.loop = loop /\ s.open = {} /\ s.disturbed = {}
  BY <1>2, StateOf
<1> HIDE DEF s
<1>10. FilesOK(s)
  BY <1>6, <1>7, <1>9 DEF FilesOK, Settled
<1>11. OpenOK(s)
  BY <1>9 DEF OpenOK
<1>12. StreamOK(s)
  BY <1>6, <1>7, <1>9 DEF StreamOK
<1>13. WaitOK(s, {})
  BY <1>7, <1>9 DEF WaitOK, Waits
<1>14. AbsentOK(s, {})
  BY <1>6, <1>7, <1>9, Assumed DEF AbsentOK, Absent, Without
<1>15. tool \in Tools
  BY <1>1, <1>2 DEF Tools
<1> QED BY <1>8, <1>10, <1>11, <1>12, <1>13, <1>14, <1>15 DEF IInv, Good, GoodBut, s

\* Every step but a start keeps the unused applies unused.
LEMMA StepInv ==
  ASSUME IInv, Next
  PROVE  Good(State)' /\ (Keeps(State, State') \/ \E a \in Applies, f \in Files : Start(a, f))
<1>1. CASE \E a \in Applies : Streams(a)
  BY <1>1, TextStep, TextManyStep, TextMismatchStep DEF Streams
<1>2. CASE \E a \in Applies : Ends(a)
  BY <1>2, FinalStep, FinalMismatchStep, FinalEmptyStep, FinalManyStep, RequestFailsStep DEF Ends
<1>3. CASE \E a \in Applies, f \in Files : Start(a, f)
  BY <1>3, StartStep
<1>4. CASE \E e \in Edits : Edit(e)
  BY <1>4, EditStep
<1>5. CASE \E e \in Edits, f \in Files : CheckEdit(e, f)
  BY <1>5, CheckEditStep
<1>6. CASE \E f \in Files : Accept(f) \/ Reject(f) \/ Undo(f) \/ Stop(f)
  BY <1>6, AcceptStep, RejectStep, UndoStep, StopStep
<1> QED BY <1>1, <1>2, <1>3, <1>4, <1>5, <1>6 DEF Next

LEMMA NextInv == IInv /\ [Next]_vars => IInv'
<1> SUFFICES ASSUME IInv, [Next]_vars PROVE IInv'
  OBVIOUS
<1>1. CASE Next
  BY <1>1, StepInv, ToolsStep DEF IInv
<1>2. CASE UNCHANGED vars
  <2>1. State' = State /\ tool' = tool
    BY <1>2 DEF vars, State
  <2>2. Good(State')
    BY <2>1 DEF IInv
  <2> QED BY <2>1, <2>2 DEF IInv
<1> QED BY <1>1, <1>2

LEMMA Invariant == Spec => []IInv
BY InitInv, NextInv, PTL DEF Spec

-----------------------------------------------------------------------------
\* What follows

LEMMA GoodParts ==
  ASSUME IInv
  PROVE  /\ State \in States /\ FilesOK(State) /\ OpenOK(State) /\ StreamOK(State) /\ WaitOK(State, {})
         /\ AbsentOK(State, {}) /\ tool \in Tools
BY DEF IInv, Good, GoodBut

\* The variables have their types, and no file ever has two diff zones: the
\* zones that _startStreamingDiffZone and instantlyApply leave replace the older.
THEOREM TypeCorrect == Spec => []TypeOK
<1>1. ASSUME IInv PROVE TypeOK
  <2>1. /\ doc \in [Files -> Doc] /\ loop \in [Applies -> Loop] /\ open \subseteq Applies
        /\ disturbed \subseteq Applies /\ tool \in Tools
    BY <1>1, GoodParts, StatesDef, StateOf
  <2>2. \A f \in Files : \A z1, z2 \in doc[f].text.zones : z1 = z2
    BY <1>1, GoodParts, StateOf DEF FilesOK, Settled
  <2> QED BY <2>1, <2>2 DEF TypeOK, Tools
<1> QED BY <1>1, Invariant, PTL

\* A file that shows a stream has a loop that waits for its answer: the flag that
\* the Stop button, edit_file and startApplying go by is never left behind.
THEOREM StreamsHaveLoops == Spec => []StreamHasLoop
<1>1. ASSUME IInv PROVE StreamHasLoop
  BY <1>1, GoodParts, StateOf DEF StreamHasLoop, StreamOK, Waits
<1> QED BY <1>1, Invariant, PTL

\* An apply that failed, was stopped or was undone leaves nothing of itself in
\* any file, unless something else changed its file while it streamed.
THEOREM NothingIsLeft == Spec => []FailedLeavesNothing
<1>1. ASSUME IInv PROVE FailedLeavesNothing
  <2> SUFFICES ASSUME NEW a \in Applies, a \notin disturbed, loop[a].pc = "failed", NEW f \in Files
               PROVE  a \notin doc[f].text.changes /\ doc[f].text.partial # a
    BY DEF FailedLeavesNothing
  <2>1. Absent(State, a)
    BY <1>1, GoodParts, StateOf DEF AbsentOK
  <2> QED BY <2>1, StateOf DEF Absent, Without, Waits
<1> QED BY <1>1, Invariant, PTL

\* A change in a file that was neither accepted nor taken over by a later apply
\* can be rejected: the zone the user sees does not count it as original.
THEOREM AllIsReviewable == Spec => []Reviewable
<1>1. ASSUME IInv PROVE Reviewable
  <2> SUFFICES ASSUME NEW f \in Files, NEW x \in doc[f].text.changes, x \notin doc[f].text.kept, x \notin disturbed
               PROVE  \E z \in doc[f].text.zones : x \notin z.original
    BY DEF Reviewable
  <2>1. Settled(doc[f].text, disturbed)
    BY <1>1, GoodParts, StateOf DEF FilesOK
  <2> QED BY <2>1 DEF Settled
<1> QED BY <1>1, Invariant, PTL

\* An apply does not start on a file another one still works on, unless its zone
\* was taken away from under it.
THEOREM StreamsExclude == Spec => OneStreamPerFile
<1> DEFINE A == \A a, b \in Applies :
                  (loop[a].pc = "unused" /\ loop'[a].pc # "unused" /\ loop[b].pc = "waiting" /\ loop'[a].file = loop[b].file)
                  => b \in disturbed
<1>1. ASSUME IInv, Next PROVE A
  <2> SUFFICES ASSUME NEW a \in Applies, NEW b \in Applies, loop[a].pc = "unused", loop'[a].pc # "unused",
                      loop[b].pc = "waiting", loop'[a].file = loop[b].file
               PROVE  b \in disturbed
    OBVIOUS
  <2>1. ~Keeps(State, State')
    BY DEF Keeps, State
  <2>2. PICK c \in Applies, f \in Files : Start(c, f)
    BY <1>1, <2>1, StepInv
  <2>3. loop \in [Applies -> Loop] /\ ~Streaming(doc[f])
    BY <1>1, <2>2, GoodParts, StatesDef, StateOf DEF Start, MayStart
  <2>4. loop' = [loop EXCEPT ![c] = [pc |-> "waiting", file |-> f, base |-> doc[f].text.changes, n |-> 1, many |-> FALSE]]
    BY <2>2 DEF Start, Becomes, State
  <2>5. a = c /\ loop'[a].file = f
    BY <2>3, <2>4
  <2>6. b \notin disturbed => Shown(State, b)
    BY <1>1, GoodParts, StateOf DEF WaitOK, Waits
  <2> QED BY <2>3, <2>5, <2>6, StateOf DEF Shown, Home, Streaming
<1>2. ASSUME UNCHANGED vars PROVE A
  BY <1>2 DEF vars
<1>3. IInv /\ [Next]_vars => [A]_vars
  BY <1>1, <1>2
<1>4. IInv /\ [Next]_vars => [A]_vars
  BY <1>3
<1> QED BY <1>4, Invariant, PTL DEF Spec, OneStreamPerFile

-----------------------------------------------------------------------------
(***************************************************************************)
(* Reviewing: texts, and what replaces lines of them                       *)
(***************************************************************************)

Line == Seq(Atoms)
FileText == Seq(Line)
DiffZone == [start : Nat, end : Nat, orig : FileText]

\* Strong induction up to N, for a set of numbers.
LEMMA UpTo ==
  ASSUME NEW N \in Nat, NEW T,
         \A n \in 0..N : (0..(n - 1)) \subseteq T => n \in T
  PROVE  0..N \subseteq T
<1> DEFINE Less == {p \in Nat \X Nat : p[1] < p[2]}
<1>1. IsWellFoundedOn(Less, Nat)
  <2>1. OpToRel(<, Nat) = Less
    BY DEF OpToRel
  <2> QED BY <2>1, NatLessThanWellFounded
<1> DEFINE Missing == {n \in 0..N : n \notin T}
<1>2. SUFFICES ASSUME Missing # {} PROVE FALSE
  BY <1>2
<1>3. Missing \subseteq Nat
  OBVIOUS
<1> HIDE DEF Missing, Less
<1>4. PICK x \in Missing : \A y \in Missing : <<y, x>> \notin Less
  BY <1>1, <1>2, <1>3, WFMin
<1>5. x \in 0..N /\ x \notin T
  BY DEF Missing
<1>6. ASSUME NEW y \in 0..(x - 1) PROVE y \in T
  <2>1. <<y, x>> \in Nat \X Nat /\ <<y, x>>[1] = y /\ <<y, x>>[2] = x /\ y < x
    BY <1>5
  <2>2. <<y, x>> \in Less
    BY <2>1 DEF Less
  <2> QED BY <1>4, <1>5, <2>2 DEF Missing
<1> QED BY <1>5, <1>6

-----------------------------------------------------------------------------
\* Lines a..b of a text f give way to m
Put(f, a, b, m) ==
  [l \in 1..(Len(f) + Len(m) - (b - a + 1)) |->
     IF l < a THEN f[l] ELSE IF l < a + Len(m) THEN m[l - a + 1] ELSE f[l - Len(m) + (b - a + 1)]]

LEMMA PutType ==
  ASSUME NEW S, NEW f \in Seq(S), NEW m \in Seq(S),
         NEW a \in 1..(Len(f) + 1), NEW b \in (a - 1)..Len(f)
  PROVE  /\ Put(f, a, b, m) \in Seq(S)
         /\ Len(Put(f, a, b, m)) = Len(f) + Len(m) - (b - a + 1)
         /\ \A l \in 1..Len(Put(f, a, b, m)) :
              Put(f, a, b, m)[l] = IF l < a THEN f[l] ELSE IF l < a + Len(m) THEN m[l - a + 1]
                                   ELSE f[l - Len(m) + (b - a + 1)]
<1> DEFINE n == Len(f) + Len(m) - (b - a + 1)
<1>1. Len(f) \in Nat /\ Len(m) \in Nat /\ n \in Nat
  BY LenProperties
<1>2. \A l \in 1..n : Put(f, a, b, m)[l] \in S
  BY <1>1, LenProperties DEF Put
<1>3. Put(f, a, b, m) \in [1..n -> S]
  BY <1>1, <1>2 DEF Put
<1>4. Put(f, a, b, m) \in Seq(S)
  BY <1>1, <1>3, SeqDef
<1>5. DOMAIN Put(f, a, b, m) = 1..n
  BY DEF Put
<1>6. Len(Put(f, a, b, m)) = n
  BY <1>1, <1>4, <1>5, LenProperties
<1> QED BY <1>4, <1>6 DEF Put

\* A text p that is f with d lines from line a on replaced by the h lines m
IsPut(p, f, a, d, m, h) ==
  /\ p \in FileText
  /\ Len(p) = Len(f) + h - d
  /\ \A l \in 1..(Len(f) + h - d) :
       p[l] = IF l < a THEN f[l] ELSE IF l < a + h THEN m[l - a + 1] ELSE f[l - h + d]

\* The same for lines a..b
Replaced(p, f, a, b, m, h) == IsPut(p, f, a, b - a + 1, m, h)

LEMMA PutLines ==
  ASSUME NEW f \in FileText, NEW m \in FileText, NEW a \in 1..(Len(f) + 1), NEW b \in (a - 1)..Len(f)
  PROVE  IsPut(Put(f, a, b, m), f, a, b - a + 1, m, Len(m))
<1>1. f \in Seq(Line) /\ m \in Seq(Line)
  BY DEF FileText
<1> QED BY <1>1, PutType DEF IsPut, FileText

LEMMA PutIsConcat ==
  ASSUME NEW S, NEW f \in Seq(S), NEW m \in Seq(S),
         NEW a \in 1..(Len(f) + 1), NEW b \in (a - 1)..Len(f)
  PROVE  SubSeq(f, 1, a - 1) \o m \o SubSeq(f, b + 1, Len(f)) = Put(f, a, b, m)
<1>1. Len(f) \in Nat /\ Len(m) \in Nat
  BY LenProperties
<1> DEFINE x == SubSeq(f, 1, a - 1)
           y == SubSeq(f, b + 1, Len(f))
<1>2. x \in Seq(S) /\ Len(x) = a - 1 /\ \A i \in 1..(a - 1) : x[i] = f[i]
  <2>1. \A i \in 1..(a - 1) : f[i] \in S
    BY <1>1, ElementOfSeq
  <2> QED BY <1>1, <2>1, SubSeqProperties
<1>3. y \in Seq(S) /\ Len(y) = Len(f) - b /\ \A i \in 1..(Len(f) - b) : y[i] = f[b + i]
  <2>1. \A i \in (b + 1)..Len(f) : f[i] \in S
    BY <1>1, ElementOfSeq
  <2> HIDE DEF x, y
  <2>2. y \in Seq(S) /\ Len(y) = (IF b + 1 <= Len(f) THEN Len(f) - (b + 1) + 1 ELSE 0)
        /\ \A i \in 1..(Len(f) - (b + 1) + 1) : y[i] = f[b + 1 + i - 1]
    BY <1>1, <2>1, SubSeqProperties DEF y
  <2>3. \A i \in Nat : b + 1 + i - 1 = b + i
    BY <1>1
  <2> QED BY <1>1, <2>2, <2>3
<1> HIDE DEF x, y
<1> DEFINE u == x \o m
           w == u \o y
<1>4. u \in Seq(S) /\ Len(u) = a - 1 + Len(m)
      /\ \A i \in 1..(a - 1 + Len(m)) : u[i] = IF i <= a - 1 THEN x[i] ELSE m[i - (a - 1)]
  <2>1. x \in Seq(S) /\ m \in Seq(S)
    BY <1>2
  <2>2. u \in Seq(S) /\ Len(u) = Len(x) + Len(m)
        /\ \A i \in 1..(Len(x) + Len(m)) : u[i] = IF i <= Len(x) THEN x[i] ELSE m[i - Len(x)]
    BY <2>1, ConcatProperties, Zenon
  <2> HIDE DEF u
  <2> QED BY <2>2, <1>2
<1>5. /\ w \in Seq(S)
      /\ Len(w) = a - 1 + Len(m) + (Len(f) - b)
      /\ \A i \in 1..(a - 1 + Len(m) + (Len(f) - b)) :
           w[i] = IF i <= a - 1 + Len(m) THEN u[i] ELSE y[i - (a - 1 + Len(m))]
  <2> HIDE DEF u
  <2>1. u \in Seq(S) /\ y \in Seq(S)
    BY <1>3, <1>4
  <2>2. w \in Seq(S) /\ Len(w) = Len(u) + Len(y)
        /\ \A i \in 1..(Len(u) + Len(y)) : w[i] = IF i <= Len(u) THEN u[i] ELSE y[i - Len(u)]
    BY <2>1, ConcatProperties, Zenon
  <2> HIDE DEF w
  <2> QED BY <2>2, <1>3, <1>4
<1> HIDE DEF u, w
<1> DEFINE p == Put(f, a, b, m)
<1>6. w \in Seq(S) /\ p \in Seq(S) /\ Len(w) = Len(p)
  BY <1>1, <1>5, PutType
<1>7. ASSUME NEW l \in 1..Len(w) PROVE w[l] = p[l]
  <2>1. l \in Nat /\ 1 <= l /\ l <= Len(f) + Len(m) - (b - a + 1)
    BY <1>1, <1>5
  <2>2. p[l] = IF l < a THEN f[l] ELSE IF l < a + Len(m) THEN m[l - a + 1]
                                   ELSE f[l - Len(m) + (b - a + 1)]
    BY <2>1, <1>6, PutType
  <2>3. w[l] = IF l <= a - 1 + Len(m) THEN u[l] ELSE y[l - (a - 1 + Len(m))]
    BY <1>1, <1>5, <2>1
  <2>4. CASE l < a
    BY <1>1, <1>2, <1>4, <2>1, <2>2, <2>3, <2>4
  <2>5. CASE a <= l /\ l < a + Len(m)
    <3>1. l - (a - 1) = l - a + 1
      BY <2>1
    <3> QED BY <1>1, <1>4, <2>1, <2>2, <2>3, <2>5, <3>1
  <2>6. CASE a + Len(m) <= l
    <3>1. b + (l - (a - 1 + Len(m))) = l - Len(m) + (b - a + 1) /\ l - (a - 1 + Len(m)) \in 1..(Len(f) - b)
      BY <1>1, <2>1, <2>6
    <3>2. w[l] = y[l - (a - 1 + Len(m))]
      BY <1>1, <2>1, <2>3, <2>6
    <3>3. p[l] = f[l - Len(m) + (b - a + 1)]
      BY <1>1, <2>1, <2>2, <2>6
    <3>4. y[l - (a - 1 + Len(m))] = f[b + (l - (a - 1 + Len(m)))]
      BY <1>3, <3>1
    <3> QED BY <3>1, <3>2, <3>3, <3>4
  <2> QED BY <1>1, <2>1, <2>4, <2>5, <2>6
<1> HIDE DEF p
<1>8. w = p
  BY <1>6, <1>7, SeqEqual
<1> QED BY <1>8 DEF w, u, p, x, y

-----------------------------------------------------------------------------
\* Edits of the text

LEMMA MinPair ==
  ASSUME NEW a \in Int, NEW b \in Int, a <= b
  PROVE  Min({a, b}) = a /\ Min({b, a}) = a
<1>1. ASSUME NEW x \in {a, b}, \A y \in {a, b} : x <= y PROVE x = a
  BY <1>1
<1>2. a \in {a, b} /\ \A y \in {a, b} : a <= y
  OBVIOUS
<1>3. {a, b} = {b, a}
  OBVIOUS
<1> QED BY <1>1, <1>2, <1>3 DEF Min

\* What stands between the lines that an edit leaves alone
Mid(f, r, text) ==
  LET before == IF r.c1 = "end" THEN f[r.l1] ELSE <<>>
      after  == IF r.c2 = "end" THEN <<>> ELSE f[r.l2]
      mid    == [text EXCEPT ![1] = before \o @]
  IN [mid EXCEPT ![Len(mid)] = @ \o after]

\* What is kept of the first line in front of the text, and of the last line behind it
Left(f, r, k) == IF k = 1 /\ r.c1 = "end" THEN f[r.l1] ELSE <<>>
Right(f, r, k, n) == IF k = n /\ r.c2 # "end" THEN f[r.l2] ELSE <<>>

LEMMA MidLines ==
  ASSUME NEW f \in FileText, NEW r, NEW text \in FileText, text # <<>>,
         r.l1 \in 1..Len(f), r.l2 \in 1..Len(f)
  PROVE  /\ Mid(f, r, text) \in FileText
         /\ Len(Mid(f, r, text)) = Len(text)
         /\ \A k \in 1..Len(text) :
              Mid(f, r, text)[k] = (Left(f, r, k) \o text[k]) \o Right(f, r, k, Len(text))
<1> DEFINE before == IF r.c1 = "end" THEN f[r.l1] ELSE <<>>
           after  == IF r.c2 = "end" THEN <<>> ELSE f[r.l2]
           mid    == [text EXCEPT ![1] = before \o @]
<1>1. before \in Line /\ after \in Line
  <2>1. f[r.l1] \in Line /\ f[r.l2] \in Line /\ <<>> \in Line
    BY ElementOfSeq, EmptySeq DEF FileText, Line
  <2> QED BY <2>1
<1>2. Len(text) \in Nat \ {0} /\ \A k \in 1..Len(text) : text[k] \in Line
  BY EmptySeq, ElementOfSeq DEF FileText
<1> HIDE DEF before, after
<1>3. \A x \in Line : before \o x \in Line /\ x \o after \in Line /\ <<>> \o x = x /\ x \o <<>> = x
  BY <1>1, ConcatProperties, ConcatEmptySeq DEF Line
<1>4. /\ mid \in FileText /\ Len(mid) = Len(text)
      /\ \A j \in 1..Len(text) : mid[j] = IF j = 1 THEN before \o text[1] ELSE text[j]
  <2>1. 1 \in 1..Len(text) /\ before \o text[1] \in Line
    BY <1>2, <1>3
  <2> QED BY <2>1, ExceptSeq DEF FileText
<1> HIDE DEF mid
<1> DEFINE m == [mid EXCEPT ![Len(mid)] = @ \o after]
<1>5. /\ m \in FileText /\ Len(m) = Len(text)
      /\ \A j \in 1..Len(text) : m[j] = IF j = Len(text) THEN mid[Len(text)] \o after ELSE mid[j]
  <2>1. Len(mid) \in 1..Len(mid) /\ mid[Len(mid)] \in Line
    BY <1>2, <1>3, <1>4
  <2>2. mid[Len(mid)] \o after \in Line
    BY <1>3, <2>1
  <2> QED BY <1>4, <2>1, <2>2, ExceptSeq DEF FileText
<1>6. m = Mid(f, r, text)
  BY DEF m, mid, before, after, Mid
<1> HIDE DEF m
<1>7. ASSUME NEW k \in 1..Len(text)
      PROVE  m[k] = (Left(f, r, k) \o text[k]) \o Right(f, r, k, Len(text))
  <2>1. mid[k] \in Line
    BY <1>2, <1>3, <1>4
  <2>2. mid[k] = Left(f, r, k) \o text[k]
    BY <1>2, <1>3, <1>4 DEF before, Left
  <2>3. m[k] = mid[k] \o Right(f, r, k, Len(text))
    BY <1>3, <1>5, <2>1 DEF after, Right
  <2> QED BY <2>2, <2>3
<1> QED BY <1>5, <1>6, <1>7

LEMMA SpliceIsPut ==
  ASSUME NEW f \in FileText, NEW r, NEW text \in FileText, text # <<>>,
         r.l1 \in 1..Len(f), r.l2 \in r.l1..Len(f)
  PROVE  Splice(f, r, text) = Put(f, r.l1, r.l2, Mid(f, r, text))
<1>1. Len(f) \in Nat /\ r.l1 \in Nat /\ r.l2 \in Nat /\ r.l2 \in 1..Len(f)
  BY LenProperties DEF FileText
<1>2. Min({r.l1, Len(f)}) = r.l1 /\ Min({r.l2, Len(f)}) = r.l2 /\ ~(r.l1 > Len(f)) /\ ~(r.l2 > Len(f))
  BY <1>1, MinPair
<1> DEFINE m == Mid(f, r, text)
<1>3. m \in FileText
  BY <1>1, MidLines
<1>4. Splice(f, r, text) = SubSeq(f, 1, r.l1 - 1) \o m \o SubSeq(f, r.l2 + 1, Len(f))
  BY <1>2 DEF Splice, Mid
<1> HIDE DEF m
<1>5. r.l1 \in 1..(Len(f) + 1) /\ r.l2 \in (r.l1 - 1)..Len(f)
  BY <1>1
<1>6. SubSeq(f, 1, r.l1 - 1) \o m \o SubSeq(f, r.l2 + 1, Len(f)) = Put(f, r.l1, r.l2, m)
  BY <1>3, <1>5, PutIsConcat DEF FileText
<1> QED BY <1>4, <1>6 DEF m

\* Whole lines that are replaced give way to the text itself.
LEMMA SpliceLines ==
  ASSUME NEW f \in FileText, NEW text \in FileText, text # <<>>, NEW a \in 1..Len(f), NEW b \in a..Len(f)
  PROVE  Splice(f, WholeLines(a, b), text) = Put(f, a, b, text)
<1> DEFINE r == WholeLines(a, b)
<1>1. r.l1 = a /\ r.l2 = b /\ r.c1 = "start" /\ r.c2 = "end"
  BY DEF WholeLines, Span
<1> HIDE DEF r
<1>2. Len(f) \in Nat /\ Len(text) \in Nat /\ a \in Nat /\ b \in Nat /\ b \in 1..Len(f)
  BY LenProperties DEF FileText
<1>3. \A k \in 1..Len(text) : text[k] \in Line
  BY ElementOfSeq DEF FileText
<1>4. \A k \in 1..Len(text) : Mid(f, r, text)[k] = (<<>> \o text[k]) \o <<>>
  <2>1. r.l1 \in 1..Len(f) /\ r.l2 \in 1..Len(f)
    BY <1>1, <1>2
  <2>2. \A k \in 1..Len(text) : Mid(f, r, text)[k] = (Left(f, r, k) \o text[k]) \o Right(f, r, k, Len(text))
    BY <2>1, MidLines, Zenon
  <2>3. \A k \in 1..Len(text) : Left(f, r, k) = <<>> /\ Right(f, r, k, Len(text)) = <<>>
    BY <1>1 DEF Left, Right
  <2> QED BY <2>2, <2>3
<1>5. \A k \in 1..Len(text) : Mid(f, r, text)[k] = text[k]
  BY <1>3, <1>4, ConcatEmptySeq DEF Line
<1>6. Mid(f, r, text) \in FileText /\ Len(Mid(f, r, text)) = Len(text)
  BY <1>1, <1>2, MidLines
<1>7. Mid(f, r, text) = text
  BY <1>5, <1>6, SeqEqual DEF FileText
<1>8. Splice(f, r, text) = Put(f, a, b, Mid(f, r, text))
  BY <1>1, <1>2, SpliceIsPut
<1> QED BY <1>7, <1>8 DEF r

\* Lines that are deleted with the line breaks behind them
LEMMA SpliceDelete ==
  ASSUME NEW f \in FileText, NEW a \in 1..Len(f), NEW b \in a..(Len(f) - 1)
  PROVE  /\ Empty \in FileText /\ Len(Empty) = 1
         /\ Splice(f, Span(a, "start", b + 1, "start"), Empty) = Put(f, a, b + 1, <<f[b + 1]>>)
<1> DEFINE r == Span(a, "start", b + 1, "start")
<1>1. r.l1 = a /\ r.l2 = b + 1 /\ r.c1 = "start" /\ r.c2 = "start"
  BY DEF Span
<1> HIDE DEF r
<1>2. Len(f) \in Nat /\ a \in Nat /\ b \in Nat /\ b + 1 \in a..Len(f) /\ b + 1 \in 1..Len(f)
  BY LenProperties DEF FileText
<1>3. f[b + 1] \in Line /\ <<>> \in Line
  BY <1>2, ElementOfSeq, EmptySeq DEF FileText, Line
<1>4. Empty \in FileText /\ Len(Empty) = 1 /\ Empty[1] = <<>> /\ Empty # <<>>
  BY <1>3 DEF Empty, FileText
<1>4a. r.l1 \in 1..Len(f) /\ r.l2 \in 1..Len(f)
  BY <1>1, <1>2
<1>4b. /\ Mid(f, r, Empty) \in FileText
      /\ Len(Mid(f, r, Empty)) = Len(Empty)
      /\ \A k \in 1..Len(Empty) :
           Mid(f, r, Empty)[k] = (Left(f, r, k) \o Empty[k]) \o Right(f, r, k, Len(Empty))
  BY <1>4, <1>4a, MidLines, Zenon
<1>5. Mid(f, r, Empty)[1] = (<<>> \o <<>>) \o f[b + 1]
  <2>1. Left(f, r, 1) = <<>> /\ Right(f, r, 1, 1) = f[b + 1]
    BY <1>1 DEF Left, Right
  <2>2. 1 \in 1..Len(Empty)
    BY <1>4
  <2>3. Mid(f, r, Empty)[1] = (Left(f, r, 1) \o Empty[1]) \o Right(f, r, 1, Len(Empty))
    BY <1>4b, <2>2, Zenon
  <2> QED BY <1>4, <2>1, <2>3
<1>6. Mid(f, r, Empty)[1] = f[b + 1]
  BY <1>3, <1>5, ConcatEmptySeq DEF Line
<1>7. Mid(f, r, Empty) \in FileText /\ Len(Mid(f, r, Empty)) = 1
  BY <1>4, <1>4b
<1>8. Mid(f, r, Empty) = <<f[b + 1]>>
  <2> DEFINE m == Mid(f, r, Empty)
  <2>1. <<f[b + 1]>> \in FileText /\ Len(<<f[b + 1]>>) = 1 /\ <<f[b + 1]>>[1] = f[b + 1]
    BY <1>3 DEF FileText
  <2>2. \A k \in 1..1 : m[k] = <<f[b + 1]>>[k]
    BY <1>6, <2>1
  <2> HIDE DEF m
  <2>3. m \in FileText /\ Len(m) = 1
    BY <1>7 DEF m
  <2> QED BY <2>1, <2>2, <2>3, SeqEqual DEF FileText, m
<1>9. Splice(f, r, Empty) = Put(f, a, b + 1, Mid(f, r, Empty))
  BY <1>1, <1>2, <1>4, SpliceIsPut
<1> QED BY <1>4, <1>8, <1>9 DEF r

\* Lines that are put in front of line n
LEMMA SpliceBefore ==
  ASSUME NEW f \in FileText, NEW text \in FileText, NEW n \in 1..Len(f)
  PROVE  /\ text \o Empty \in FileText /\ Len(text \o Empty) = Len(text) + 1
         /\ Splice(f, Span(n, "start", n, "start"), text \o Empty) = Put(f, n, n, text \o <<f[n]>>)
<1> DEFINE r == Span(n, "start", n, "start")
           t == text \o Empty
           h == Len(text)
<1>1. r.l1 = n /\ r.l2 = n /\ r.c1 = "start" /\ r.c2 = "start"
  BY DEF Span
<1> HIDE DEF r
<1>2. Len(f) \in Nat /\ h \in Nat /\ n \in Nat
  BY LenProperties DEF FileText
<1>3. f[n] \in Line /\ <<>> \in Line /\ \A k \in 1..h : text[k] \in Line
  BY ElementOfSeq, EmptySeq DEF FileText, Line
<1>4. Empty \in FileText /\ Len(Empty) = 1 /\ Empty[1] = <<>>
  BY <1>3 DEF Empty, FileText
<1>5. t \in FileText /\ Len(t) = h + 1 /\ \A k \in 1..(h + 1) : t[k] = IF k <= h THEN text[k] ELSE <<>>
  <2>1. t \in FileText /\ Len(t) = Len(text) + Len(Empty)
        /\ \A k \in 1..(Len(text) + Len(Empty)) : t[k] = IF k <= Len(text) THEN text[k] ELSE Empty[k - Len(text)]
    BY <1>4, ConcatProperties, Zenon DEF FileText
  <2> HIDE DEF t
  <2>2. \A k \in 1..(h + 1) : k > h => k - h = 1
    BY <1>2
  <2> QED BY <1>2, <1>4, <2>1, <2>2
<1>6. t # <<>>
  BY <1>2, <1>5
<1> HIDE DEF t
<1> DEFINE w == text \o <<f[n]>>
<1>7. w \in FileText /\ Len(w) = h + 1 /\ \A k \in 1..(h + 1) : w[k] = IF k <= h THEN text[k] ELSE f[n]
  <2>1. <<f[n]>> \in FileText /\ Len(<<f[n]>>) = 1 /\ <<f[n]>>[1] = f[n]
    BY <1>3 DEF FileText
  <2>2. w \in FileText /\ Len(w) = Len(text) + Len(<<f[n]>>)
        /\ \A k \in 1..(Len(text) + Len(<<f[n]>>)) : w[k] = IF k <= Len(text) THEN text[k] ELSE <<f[n]>>[k - Len(text)]
    BY <2>1, ConcatProperties, Zenon DEF FileText
  <2> HIDE DEF w
  <2>3. \A k \in 1..(h + 1) : k > h => k - h = 1
    BY <1>2
  <2> QED BY <1>2, <2>1, <2>2, <2>3
<1> HIDE DEF w
<1> DEFINE m == Mid(f, r, t)
<1>7a. r.l1 \in 1..Len(f) /\ r.l2 \in 1..Len(f)
  BY <1>1, <1>2
<1>7b. /\ m \in FileText
      /\ Len(m) = Len(t)
      /\ \A k \in 1..Len(t) :
           m[k] = (Left(f, r, k) \o t[k]) \o Right(f, r, k, Len(t))
  <2>1. t \in FileText
    BY <1>5
  <2> QED BY <1>6, <1>7a, <2>1, MidLines, Zenon
<1>8. m \in FileText /\ Len(m) = h + 1
  BY <1>5, <1>7b
<1> HIDE DEF m
<1>9. ASSUME NEW k \in 1..(h + 1) PROVE m[k] = w[k]
  <2>1. m[k] = (Left(f, r, k) \o t[k]) \o Right(f, r, k, h + 1)
    BY <1>5, <1>7b
  <2>2. CASE k <= h
    <3>1. m[k] = (<<>> \o text[k]) \o <<>>
      <4>1. Left(f, r, k) = <<>> /\ t[k] = text[k] /\ Right(f, r, k, h + 1) = <<>>
        BY <1>1, <1>2, <1>5, <2>2 DEF Left, Right
      <4> QED BY <2>1, <4>1
    <3>2. m[k] = text[k]
      BY <1>2, <1>3, <2>2, <3>1, ConcatEmptySeq DEF Line
    <3> QED BY <1>7, <2>2, <3>2
  <2>3. CASE k = h + 1
    <3>1. m[k] = (<<>> \o <<>>) \o f[n]
      <4>1. Left(f, r, k) = <<>> /\ t[k] = <<>> /\ Right(f, r, k, h + 1) = f[n]
        BY <1>1, <1>2, <1>5, <2>3 DEF Left, Right
      <4> QED BY <2>1, <4>1
    <3>2. m[k] = f[n]
      BY <1>3, <3>1, ConcatEmptySeq DEF Line
    <3> QED BY <1>2, <1>7, <2>3, <3>2
  <2> QED BY <1>2, <2>2, <2>3
<1>10. m = w
  BY <1>7, <1>8, <1>9, SeqEqual DEF FileText
<1>11. Splice(f, r, t) = Put(f, n, n, m)
  BY <1>1, <1>2, <1>5, <1>6, SpliceIsPut DEF m
<1> QED BY <1>5, <1>10, <1>11 DEF r, t, w

\* Lines that are put behind line n
LEMMA SpliceBehind ==
  ASSUME NEW f \in FileText, NEW text \in FileText, NEW n \in 1..Len(f)
  PROVE  /\ Empty \o text \in FileText /\ Len(Empty \o text) = Len(text) + 1
         /\ Splice(f, Span(n, "end", n, "end"), Empty \o text) = Put(f, n, n, <<f[n]>> \o text)
<1> DEFINE r == Span(n, "end", n, "end")
           t == Empty \o text
           h == Len(text)
<1>1. r.l1 = n /\ r.l2 = n /\ r.c1 = "end" /\ r.c2 = "end"
  BY DEF Span
<1> HIDE DEF r
<1>2. Len(f) \in Nat /\ h \in Nat /\ n \in Nat
  BY LenProperties DEF FileText
<1>3. f[n] \in Line /\ <<>> \in Line /\ \A k \in 1..h : text[k] \in Line
  BY ElementOfSeq, EmptySeq DEF FileText, Line
<1>4. Empty \in FileText /\ Len(Empty) = 1 /\ Empty[1] = <<>>
  BY <1>3 DEF Empty, FileText
<1>5. t \in FileText /\ Len(t) = h + 1 /\ \A k \in 1..(h + 1) : t[k] = IF k = 1 THEN <<>> ELSE text[k - 1]
  <2>1. t \in FileText /\ Len(t) = Len(Empty) + Len(text)
        /\ \A k \in 1..(Len(Empty) + Len(text)) : t[k] = IF k <= Len(Empty) THEN Empty[k] ELSE text[k - Len(Empty)]
    BY <1>4, ConcatProperties, Zenon DEF FileText
  <2> HIDE DEF t
  <2>2. \A k \in 1..(h + 1) : k <= 1 => k = 1
    BY <1>2
  <2> QED BY <1>2, <1>4, <2>1, <2>2
<1>6. t # <<>>
  BY <1>2, <1>5
<1> HIDE DEF t
<1> DEFINE w == <<f[n]>> \o text
<1>7. w \in FileText /\ Len(w) = h + 1 /\ \A k \in 1..(h + 1) : w[k] = IF k = 1 THEN f[n] ELSE text[k - 1]
  <2>1. <<f[n]>> \in FileText /\ Len(<<f[n]>>) = 1 /\ <<f[n]>>[1] = f[n]
    BY <1>3 DEF FileText
  <2>2. w \in FileText /\ Len(w) = Len(<<f[n]>>) + Len(text)
        /\ \A k \in 1..(Len(<<f[n]>>) + Len(text)) : w[k] = IF k <= Len(<<f[n]>>) THEN <<f[n]>>[k] ELSE text[k - Len(<<f[n]>>)]
    BY <2>1, ConcatProperties, Zenon DEF FileText
  <2> HIDE DEF w
  <2>3. \A k \in 1..(h + 1) : k <= 1 => k = 1
    BY <1>2
  <2> QED BY <1>2, <2>1, <2>2, <2>3
<1> HIDE DEF w
<1> DEFINE m == Mid(f, r, t)
<1>7a. r.l1 \in 1..Len(f) /\ r.l2 \in 1..Len(f)
  BY <1>1, <1>2
<1>7b. /\ m \in FileText
      /\ Len(m) = Len(t)
      /\ \A k \in 1..Len(t) :
           m[k] = (Left(f, r, k) \o t[k]) \o Right(f, r, k, Len(t))
  <2>1. t \in FileText
    BY <1>5
  <2> QED BY <1>6, <1>7a, <2>1, MidLines, Zenon
<1>8. m \in FileText /\ Len(m) = h + 1
  BY <1>5, <1>7b
<1> HIDE DEF m
<1>9. ASSUME NEW k \in 1..(h + 1) PROVE m[k] = w[k]
  <2>1. m[k] = (Left(f, r, k) \o t[k]) \o Right(f, r, k, h + 1)
    BY <1>5, <1>7b
  <2>2. CASE k # 1
    <3>1. m[k] = (<<>> \o text[k - 1]) \o <<>>
      <4>1. Left(f, r, k) = <<>> /\ t[k] = text[k - 1] /\ Right(f, r, k, h + 1) = <<>>
        BY <1>1, <1>2, <1>5, <2>2 DEF Left, Right
      <4> QED BY <2>1, <4>1
    <3>2. text[k - 1] \in Line
      BY <1>2, <1>3, <2>2
    <3>3. m[k] = text[k - 1]
      BY <3>1, <3>2, ConcatEmptySeq DEF Line
    <3> QED BY <1>7, <2>2, <3>3
  <2>3. CASE k = 1
    <3>1. m[k] = (f[n] \o <<>>) \o <<>>
      <4>1. Left(f, r, k) = f[n] /\ t[k] = <<>> /\ Right(f, r, k, h + 1) = <<>>
        BY <1>1, <1>2, <1>5, <2>3 DEF Left, Right
      <4> QED BY <2>1, <4>1
    <3>2. m[k] = f[n]
      BY <1>3, <3>1, ConcatEmptySeq DEF Line
    <3> QED BY <1>2, <1>7, <2>3, <3>2
  <2> QED BY <1>2, <2>2, <2>3
<1>10. m = w
  BY <1>7, <1>8, <1>9, SeqEqual DEF FileText
<1>11. Splice(f, r, t) = Put(f, n, n, m)
  BY <1>1, <1>2, <1>5, <1>6, SpliceIsPut DEF m
<1> QED BY <1>5, <1>10, <1>11 DEF r, t, w

\* Two ways to say which lines an edit replaces
LEMMA PutDelete ==
  ASSUME NEW f \in FileText, NEW a \in 1..Len(f), NEW b \in a..(Len(f) - 1)
  PROVE  Put(f, a, b + 1, <<f[b + 1]>>) = Put(f, a, b, <<>>)
<1> DEFINE p == Put(f, a, b + 1, <<f[b + 1]>>)
           q == Put(f, a, b, <<>>)
           n == Len(f) - (b - a + 1)
<1>1. Len(f) \in Nat /\ n \in Nat
  BY LenProperties DEF FileText
<1>2. <<f[b + 1]>> \in FileText /\ Len(<<f[b + 1]>>) = 1 /\ <<f[b + 1]>>[1] = f[b + 1]
  BY <1>1, ElementOfSeq DEF FileText
<1>3. <<>> \in FileText /\ Len(<<>>) = 0
  BY EmptySeq DEF FileText
<1>4. p \in FileText /\ Len(p) = n
      /\ \A l \in 1..n : p[l] = IF l < a THEN f[l] ELSE IF l < a + 1 THEN f[b + 1] ELSE f[l - 1 + (b + 1 - a + 1)]
  <2>1. a \in 1..(Len(f) + 1) /\ b + 1 \in (a - 1)..Len(f) /\ Len(f) + 1 - (b + 1 - a + 1) = n
    BY <1>1
  <2>2. IsPut(p, f, a, b + 1 - a + 1, <<f[b + 1]>>, 1)
    <3> DEFINE u == <<f[b + 1]>>
               c == b + 1
    <3>1. u \in FileText /\ Len(u) = 1 /\ c \in (a - 1)..Len(f)
      BY <1>2, <2>1
    <3> HIDE DEF u, c
    <3>2. IsPut(Put(f, a, c, u), f, a, c - a + 1, u, 1)
      BY <2>1, <3>1, PutLines
    <3> QED BY <3>2 DEF u, c
  <2> HIDE DEF p
  <2>3. \A l \in 1..n : l < a + 1 /\ ~(l < a) => l - a + 1 = 1
    BY <1>1
  <2> QED BY <1>2, <2>1, <2>2, <2>3 DEF IsPut
<1>5. q \in FileText /\ Len(q) = n
      /\ \A l \in 1..n : q[l] = IF l < a THEN f[l] ELSE f[l + (b - a + 1)]
  <2>1. a \in 1..(Len(f) + 1) /\ b \in (a - 1)..Len(f) /\ Len(f) + 0 - (b - a + 1) = n
    BY <1>1
  <2>2. IsPut(q, f, a, b - a + 1, <<>>, 0)
    BY <1>3, <2>1, PutLines
  <2> HIDE DEF q
  <2>3. \A l \in 1..n : l - 0 = l /\ a + 0 = a
    BY <1>1
  <2> QED BY <2>1, <2>2, <2>3 DEF IsPut
<1> HIDE DEF p, q
<1>6. ASSUME NEW l \in 1..n PROVE p[l] = q[l]
  <2>1. l \in Nat /\ l + (b - a + 1) = l - 1 + (b + 1 - a + 1) /\ (l = a => l + (b - a + 1) = b + 1)
    BY <1>1
  <2> QED BY <1>1, <1>4, <1>5, <2>1
<1>7. p = q
  BY <1>4, <1>5, <1>6, SeqEqual DEF FileText
<1> QED BY <1>7 DEF p, q

LEMMA PutBefore ==
  ASSUME NEW f \in FileText, NEW t \in FileText, NEW n \in 1..Len(f)
  PROVE  Put(f, n, n, t \o <<f[n]>>) = Put(f, n, n - 1, t)
<1> DEFINE u == t \o <<f[n]>>
           p == Put(f, n, n, u)
           q == Put(f, n, n - 1, t)
           h == Len(t)
<1>1. Len(f) \in Nat /\ h \in Nat /\ n \in Nat
  BY LenProperties DEF FileText
<1>2. u \in FileText /\ Len(u) = h + 1 /\ \A k \in 1..(h + 1) : u[k] = IF k <= h THEN t[k] ELSE f[n]
  <2>1. <<f[n]>> \in FileText /\ Len(<<f[n]>>) = 1 /\ <<f[n]>>[1] = f[n]
    BY <1>1, ElementOfSeq DEF FileText
  <2>2. u \in FileText /\ Len(u) = Len(t) + Len(<<f[n]>>)
        /\ \A k \in 1..(Len(t) + Len(<<f[n]>>)) : u[k] = IF k <= Len(t) THEN t[k] ELSE <<f[n]>>[k - Len(t)]
    BY <2>1, ConcatProperties, Zenon DEF FileText
  <2> HIDE DEF u
  <2>3. \A k \in 1..(h + 1) : k > h => k - h = 1
    BY <1>1
  <2> QED BY <1>1, <2>1, <2>2, <2>3
<1> HIDE DEF u
<1>3. p \in FileText /\ Len(p) = Len(f) + h
      /\ \A l \in 1..(Len(f) + h) : p[l] = IF l < n THEN f[l] ELSE IF l < n + h + 1 THEN u[l - n + 1] ELSE f[l - h]
  <2>1. /\ n \in 1..(Len(f) + 1) /\ n \in (n - 1)..Len(f)
        /\ n - n + 1 = 1 /\ Len(f) + (h + 1) - 1 = Len(f) + h
    BY <1>1
  <2>2. IsPut(p, f, n, 1, u, h + 1)
    BY <1>2, <2>1, PutLines
  <2> HIDE DEF p
  <2>3. n + (h + 1) = n + h + 1 /\ \A l \in Nat : l - (h + 1) + 1 = l - h
    BY <1>1
  <2> QED BY <1>1, <2>1, <2>2, <2>3 DEF IsPut
<1>4. q \in FileText /\ Len(q) = Len(f) + h
      /\ \A l \in 1..(Len(f) + h) : q[l] = IF l < n THEN f[l] ELSE IF l < n + h THEN t[l - n + 1] ELSE f[l - h]
  <2>1. /\ n \in 1..(Len(f) + 1) /\ n - 1 \in (n - 1)..Len(f)
        /\ n - 1 - n + 1 = 0 /\ Len(f) + h - 0 = Len(f) + h
    BY <1>1
  <2>2. IsPut(q, f, n, 0, t, h)
    BY <2>1, PutLines
  <2> HIDE DEF q
  <2>3. \A l \in Nat : l - h + 0 = l - h
    BY <1>1
  <2> QED BY <1>1, <2>1, <2>2, <2>3 DEF IsPut
<1> HIDE DEF p, q
<1>5. ASSUME NEW l \in 1..(Len(f) + h) PROVE p[l] = q[l]
  <2>1. l \in Nat
    BY <1>1
  <2>2. CASE l < n
    BY <1>3, <1>4, <2>2
  <2>3. CASE n <= l /\ l < n + h
    <3>1. l - n + 1 \in 1..(h + 1) /\ l - n + 1 <= h
      BY <1>1, <2>3
    <3>2. p[l] = u[l - n + 1] /\ q[l] = t[l - n + 1]
      BY <1>1, <1>3, <1>4, <2>3
    <3> QED BY <1>2, <3>1, <3>2
  <2>4. CASE l = n + h
    <3>1. l - n + 1 = h + 1 /\ l - h = n /\ h + 1 \in 1..(h + 1) /\ ~(h + 1 <= h)
      BY <1>1, <2>4
    <3>2. p[l] = u[h + 1] /\ q[l] = f[n]
      BY <1>1, <1>3, <1>4, <2>4, <3>1
    <3> QED BY <1>2, <3>1, <3>2
  <2>5. CASE l > n + h
    BY <1>1, <1>3, <1>4, <2>5
  <2> QED BY <1>1, <2>1, <2>2, <2>3, <2>4, <2>5
<1>6. p = q
  BY <1>3, <1>4, <1>5, SeqEqual DEF FileText
<1> QED BY <1>6 DEF p, q, u

LEMMA PutBehind ==
  ASSUME NEW f \in FileText, NEW t \in FileText, NEW n \in 1..Len(f)
  PROVE  Put(f, n, n, <<f[n]>> \o t) = Put(f, n + 1, n, t)
<1> DEFINE u == <<f[n]>> \o t
           p == Put(f, n, n, u)
           q == Put(f, n + 1, n, t)
           h == Len(t)
<1>1. Len(f) \in Nat /\ h \in Nat /\ n \in Nat
  BY LenProperties DEF FileText
<1>2. u \in FileText /\ Len(u) = h + 1 /\ \A k \in 1..(h + 1) : u[k] = IF k = 1 THEN f[n] ELSE t[k - 1]
  <2>1. <<f[n]>> \in FileText /\ Len(<<f[n]>>) = 1 /\ <<f[n]>>[1] = f[n]
    BY <1>1, ElementOfSeq DEF FileText
  <2>2. u \in FileText /\ Len(u) = Len(<<f[n]>>) + Len(t)
        /\ \A k \in 1..(Len(<<f[n]>>) + Len(t)) : u[k] = IF k <= Len(<<f[n]>>) THEN <<f[n]>>[k] ELSE t[k - Len(<<f[n]>>)]
    BY <2>1, ConcatProperties, Zenon DEF FileText
  <2> HIDE DEF u
  <2>3. \A k \in 1..(h + 1) : k <= 1 => k = 1
    BY <1>1
  <2> QED BY <1>1, <2>1, <2>2, <2>3
<1> HIDE DEF u
<1>3. p \in FileText /\ Len(p) = Len(f) + h
      /\ \A l \in 1..(Len(f) + h) : p[l] = IF l < n THEN f[l] ELSE IF l < n + h + 1 THEN u[l - n + 1] ELSE f[l - h]
  <2>1. /\ n \in 1..(Len(f) + 1) /\ n \in (n - 1)..Len(f)
        /\ n - n + 1 = 1 /\ Len(f) + (h + 1) - 1 = Len(f) + h
    BY <1>1
  <2>2. IsPut(p, f, n, 1, u, h + 1)
    BY <1>2, <2>1, PutLines
  <2> HIDE DEF p
  <2>3. n + (h + 1) = n + h + 1 /\ \A l \in Nat : l - (h + 1) + 1 = l - h
    BY <1>1
  <2> QED BY <1>1, <2>1, <2>2, <2>3 DEF IsPut
<1>4. q \in FileText /\ Len(q) = Len(f) + h
      /\ \A l \in 1..(Len(f) + h) : q[l] = IF l < n + 1 THEN f[l] ELSE IF l < n + h + 1 THEN t[l - n] ELSE f[l - h]
  <2>1. /\ n + 1 \in 1..(Len(f) + 1) /\ n \in (n + 1 - 1)..Len(f)
        /\ n - (n + 1) + 1 = 0 /\ Len(f) + h - 0 = Len(f) + h
    BY <1>1
  <2>2. IsPut(q, f, n + 1, 0, t, h)
    BY <2>1, PutLines
  <2> HIDE DEF q
  <2>3. n + 1 + h = n + h + 1 /\ \A l \in Nat : l - (n + 1) + 1 = l - n /\ l - h + 0 = l - h
    BY <1>1
  <2> QED BY <1>1, <2>1, <2>2, <2>3 DEF IsPut
<1> HIDE DEF p, q
<1>5. ASSUME NEW l \in 1..(Len(f) + h) PROVE p[l] = q[l]
  <2>1. l \in Nat
    BY <1>1
  <2>2. CASE l < n
    BY <1>1, <1>3, <1>4, <2>1, <2>2
  <2>3. CASE n < l /\ l < n + h + 1
    <3>1. l - n + 1 \in 1..(h + 1) /\ l - n + 1 # 1 /\ l - n + 1 - 1 = l - n
      BY <1>1, <2>3
    <3>2. p[l] = u[l - n + 1] /\ q[l] = t[l - n]
      BY <1>1, <1>3, <1>4, <2>3
    <3> QED BY <1>2, <3>1, <3>2
  <2>4. CASE l = n
    <3>1. l - n + 1 = 1 /\ 1 \in 1..(h + 1)
      BY <1>1, <2>4
    <3>2. p[l] = u[1] /\ q[l] = f[n]
      BY <1>1, <1>3, <1>4, <2>4, <3>1
    <3> QED BY <1>2, <3>1, <3>2
  <2>5. CASE l >= n + h + 1
    BY <1>1, <1>3, <1>4, <2>5
  <2> QED BY <1>1, <2>1, <2>2, <2>3, <2>4, <2>5
<1>6. p = q
  BY <1>3, <1>4, <1>5, SeqEqual DEF FileText
<1> QED BY <1>6 DEF p, q, u

\* An edit of lines s..e of a text is an edit of the text.
LEMMA PutInside ==
  ASSUME NEW f \in FileText, NEW m \in FileText, NEW s \in 1..(Len(f) + 1), NEW e \in (s - 1)..Len(f),
         NEW a \in s..(e + 1), NEW b \in (a - 1)..e
  PROVE  Put(f, s, e, Put(SubSeq(f, s, e), a - s + 1, b - s + 1, m)) = Put(f, a, b, m)
<1> DEFINE c == SubSeq(f, s, e)
           k == e - s + 1
           h == Len(m)
           x == Put(c, a - s + 1, b - s + 1, m)
           p == Put(f, s, e, x)
           q == Put(f, a, b, m)
           d == b - a + 1
<1>1. Len(f) \in Nat /\ h \in Nat /\ k \in Nat /\ s \in Nat /\ e \in Nat /\ a \in Nat /\ b \in Nat /\ d \in Nat
  BY LenProperties DEF FileText
<1>2. c \in FileText /\ Len(c) = k /\ \A i \in 1..k : c[i] = f[s + i - 1]
  <2>1. \A i \in s..e : f[i] \in Line
    BY <1>1, ElementOfSeq DEF FileText
  <2>2. c \in FileText /\ Len(c) = (IF s <= e THEN e - s + 1 ELSE 0) /\ \A i \in 1..(e - s + 1) : c[i] = f[s + i - 1]
    BY <1>1, <2>1, SubSeqProperties DEF FileText
  <2> HIDE DEF c
  <2> QED BY <1>1, <2>2
<1> HIDE DEF c
<1>3. x \in FileText /\ Len(x) = k + h - d
      /\ \A l \in 1..(k + h - d) : x[l] = IF l < a - s + 1 THEN c[l] ELSE IF l < a - s + 1 + h THEN m[l - (a - s + 1) + 1]
                                          ELSE c[l - h + d]
  <2>1. a - s + 1 \in 1..(Len(c) + 1) /\ b - s + 1 \in (a - s + 1 - 1)..Len(c)
        /\ b - s + 1 - (a - s + 1) + 1 = d
    BY <1>1, <1>2
  <2>2. IsPut(x, c, a - s + 1, d, m, h)
    <3>1. c \in FileText
      BY <1>2
    <3> DEFINE a1 == a - s + 1
               b1 == b - s + 1
    <3>2. a1 \in 1..(Len(c) + 1) /\ b1 \in (a1 - 1)..Len(c)
      BY <2>1
    <3> HIDE DEF a1, b1
    <3>3. IsPut(Put(c, a1, b1, m), c, a1, b1 - a1 + 1, m, Len(m))
      BY <3>1, <3>2, PutLines
    <3>4. IsPut(x, c, a - s + 1, b - s + 1 - (a - s + 1) + 1, m, Len(m))
      BY <3>3 DEF a1, b1
    <3> QED BY <2>1, <3>4
  <2> HIDE DEF x, d, h, k
  <2> QED BY <1>2, <2>2 DEF IsPut
<1> HIDE DEF x
<1>4. p \in FileText /\ Len(p) = Len(f) + h - d
      /\ \A l \in 1..(Len(f) + h - d) : p[l] = IF l < s THEN f[l] ELSE IF l < s + (k + h - d) THEN x[l - s + 1]
                                               ELSE f[l - (k + h - d) + k]
  <2>1. Len(f) + (k + h - d) - k = Len(f) + h - d
    BY <1>1
  <2>2. IsPut(p, f, s, k, x, k + h - d)
    BY <1>3, PutLines
  <2> HIDE DEF p, d, h, k
  <2> QED BY <2>1, <2>2 DEF IsPut
<1>5. q \in FileText /\ Len(q) = Len(f) + h - d
      /\ \A l \in 1..(Len(f) + h - d) : q[l] = IF l < a THEN f[l] ELSE IF l < a + h THEN m[l - a + 1] ELSE f[l - h + d]
  <2>1. a \in 1..(Len(f) + 1) /\ b \in (a - 1)..Len(f)
    BY <1>1
  <2>2. IsPut(q, f, a, d, m, h)
    BY <2>1, PutLines
  <2> HIDE DEF q, d, h
  <2> QED BY <2>2 DEF IsPut
<1> HIDE DEF p, q
<1>5a. d = b - a + 1 /\ k = e - s + 1
  OBVIOUS
<1> HIDE DEF d, k, h
<1>6. ASSUME NEW l \in 1..(Len(f) + h - d) PROVE p[l] = q[l]
  <2>1. l \in Nat
    BY <1>1
  <2>2. CASE l < s
    BY <1>1, <1>4, <1>5, <2>2
  <2>3. CASE s <= l /\ l < a
    <3>1. l - s + 1 \in 1..(k + h - d) /\ l - s + 1 < a - s + 1 /\ l < s + (k + h - d) /\ l - s + 1 \in 1..k /\ s + (l - s + 1) - 1 = l
      BY <1>1, <1>5a, <2>1, <2>3
    <3>2. p[l] = x[l - s + 1] /\ q[l] = f[l]
      <4>1. p[l] = x[l - s + 1]
        <5>1. ~(l < s)
          BY <1>1, <2>1, <2>3
        <5> QED BY <1>4, <3>1, <5>1
      <4>2. q[l] = f[l]
        BY <1>5, <2>3
      <4> QED BY <4>1, <4>2
    <3> QED BY <1>2, <1>3, <3>1, <3>2
  <2>4. CASE a <= l /\ l < a + h
    <3>1. l - s + 1 \in 1..(k + h - d) /\ ~(l - s + 1 < a - s + 1) /\ l - s + 1 < a - s + 1 + h /\ l < s + (k + h - d)
          /\ l - s + 1 - (a - s + 1) + 1 = l - a + 1
      BY <1>1, <1>5a, <2>1, <2>4
    <3>2. p[l] = x[l - s + 1] /\ q[l] = m[l - a + 1]
      <4>1. q[l] = m[l - a + 1]
        <5>1. ~(l < a)
          BY <1>1, <2>1, <2>4
        <5> QED BY <1>5, <2>4, <5>1
      <4>2. p[l] = x[l - s + 1]
        <5>1. ~(l < s)
          BY <1>1, <2>1, <2>4
        <5>2. l < s + (k + h - d)
          BY <3>1
        <5> QED BY <1>4, <5>1, <5>2
      <4> QED BY <4>1, <4>2
    <3> DEFINE j == l - s + 1
               g == a - s + 1
    <3>3. j \in 1..(k + h - d) /\ ~(j < g) /\ j < g + h /\ j - g + 1 = l - a + 1
      BY <3>1
    <3> HIDE DEF j, g
    <3>4. x[j] = IF j < g THEN c[j] ELSE IF j < g + h THEN m[j - g + 1] ELSE c[j - h + d]
      BY <1>3, <3>3 DEF g
    <3>5. x[j] = m[l - a + 1]
      BY <3>3, <3>4
    <3> QED BY <3>2, <3>5 DEF j
  <2>5. CASE a + h <= l /\ l < s + (k + h - d)
    <3>1. l - s + 1 \in 1..(k + h - d) /\ ~(l - s + 1 < a - s + 1) /\ ~(l - s + 1 < a - s + 1 + h)
          /\ l - s + 1 - h + d \in 1..k /\ s + (l - s + 1 - h + d) - 1 = l - h + d
      BY <1>1, <1>5a, <2>1, <2>5
    <3>2. p[l] = x[l - s + 1] /\ q[l] = f[l - h + d]
      <4>1. p[l] = x[l - s + 1]
        <5>1. ~(l < s) /\ l < s + (k + h - d)
          BY <1>1, <1>5a, <2>1, <2>5
        <5> QED BY <1>4, <5>1
      <4>2. q[l] = f[l - h + d]
        <5>1. ~(l < a) /\ ~(l < a + h)
          BY <1>1, <1>5a, <2>1, <2>5
        <5> QED BY <1>5, <5>1
      <4> QED BY <4>1, <4>2
    <3> DEFINE j == l - s + 1
               g == a - s + 1
               i == j - h + d
    <3>3a. i = l - s + 1 - h + d
      BY <1>1, <2>1
    <3>3b. i \in 1..k /\ s + i - 1 = l - h + d
      <4> HIDE DEF i
      <4> QED BY <3>1, <3>3a
    <3>3. j \in 1..(k + h - d) /\ ~(j < g) /\ ~(j < g + h) /\ i \in 1..k /\ s + i - 1 = l - h + d
      <4> HIDE DEF i
      <4> QED BY <3>1, <3>3b
    <3> HIDE DEF j, g
    <3>4. x[j] = IF j < g THEN c[j] ELSE IF j < g + h THEN m[j - g + 1] ELSE c[j - h + d]
      BY <1>3, <3>3 DEF g
    <3>5. x[j] = c[i]
      BY <3>3, <3>4
    <3> HIDE DEF i
    <3>6. c[i] = f[s + i - 1]
      BY <1>2, <1>5a, <3>3
    <3> QED BY <3>2, <3>3, <3>5, <3>6 DEF j
  <2>6. CASE s + (k + h - d) <= l
    <3>1. a + h <= l /\ ~(l < s) /\ l - (k + h - d) + k = l - h + d
      BY <1>1, <1>5a, <2>1, <2>6
    <3> QED BY <1>1, <1>5a, <1>4, <1>5, <2>1, <2>6, <3>1
  <2>7. l < s \/ (s <= l /\ l < a) \/ (a <= l /\ l < a + h) \/ (a + h <= l /\ l < s + (k + h - d)) \/ s + (k + h - d) <= l
    BY <1>1, <2>1
  <2> QED BY <2>2, <2>3, <2>4, <2>5, <2>6, <2>7
<1>7. p = q
  BY <1>4, <1>5, <1>6, SeqEqual DEF FileText
<1> QED BY <1>7 DEF p, q, x, c

-----------------------------------------------------------------------------
\* Zones

ZoneOK(f, z) ==
  /\ z \in DiffZone
  /\ 1 <= z.start /\ z.start <= z.end /\ z.end <= Len(f)
  /\ z.orig # <<>>

LEMMA CodeLines ==
  ASSUME NEW f \in FileText, NEW z, ZoneOK(f, z)
  PROVE  /\ Code(f, z) = SubSeq(f, z.start, z.end)
         /\ Code(f, z) \in FileText
         /\ Len(Code(f, z)) = z.end - z.start + 1
         /\ \A i \in 1..(z.end - z.start + 1) : Code(f, z)[i] = f[z.start + i - 1]
<1>1. z.start \in Nat /\ z.end \in Nat /\ Len(f) \in Nat /\ 1 <= z.start /\ z.start <= z.end /\ z.end <= Len(f)
  BY LenProperties DEF ZoneOK, DiffZone, FileText
<1>2. Min({z.end, Len(f)}) = z.end
  BY <1>1, MinPair
<1>3. Code(f, z) = SubSeq(f, z.start, z.end)
  BY <1>2 DEF Code
<1>4. \A i \in z.start..z.end : f[i] \in Line
  BY <1>1, ElementOfSeq DEF FileText
<1> DEFINE s == z.start
           e == z.end
           c == SubSeq(f, s, e)
<1>5. c \in FileText /\ Len(c) = (IF s <= e THEN e - s + 1 ELSE 0) /\ \A i \in 1..(e - s + 1) : c[i] = f[s + i - 1]
  BY <1>1, <1>4, SubSeqProperties DEF FileText
<1> HIDE DEF c
<1>6. Code(f, z) = c
  BY <1>3 DEF c
<1> QED BY <1>1, <1>3, <1>5, <1>6

\* Where a zone is after lines a..b became h lines, unless they reached beyond both of its ends
Moved(y, z, a, b, h) ==
  /\ y \in DiffZone
  /\ y.orig = z.orig
  /\ y.start = IF z.end < a THEN z.start ELSE IF b < z.start THEN z.start + h - (b - a + 1)
               ELSE IF a < z.start THEN a ELSE z.start
  /\ y.end = IF z.end < a THEN z.end ELSE IF b < z.end THEN z.end + h - (b - a + 1) ELSE a + h - 1

LEMMA RealignMoves ==
  ASSUME NEW z \in DiffZone, 1 <= z.start, z.start <= z.end, NEW text \in FileText, Len(text) >= 1,
         NEW a \in Nat, 1 <= a, NEW b \in Nat, a <= b, ~(a < z.start /\ z.end < b)
  PROVE  Moved(Realigned(z, text, a, b), z, a, b, Len(text))
<1> DEFINE y == Realigned(z, text, a, b)
           h == Len(text)
<1>1. z.start \in Nat /\ z.end \in Nat /\ h \in Nat /\ h >= 1 /\ z.orig \in FileText
  BY LenProperties DEF DiffZone, FileText
<1>2. z = [start |-> z.start, end |-> z.end, orig |-> z.orig]
  BY DEF DiffZone
<1>2a. SUFFICES Moved(y, z, a, b, h)
  OBVIOUS
<1> HIDE DEF h
<1>3. CASE z.end < a
  <2>1. y = z
    BY <1>1, <1>3 DEF Realigned
  <2> QED BY <1>1, <1>3, <2>1 DEF Moved
<1>4. CASE ~(z.end < a) /\ b < z.start
  <2>1. y = [z EXCEPT !.start = z.start + (h - (b - a + 1)), !.end = z.end + (h - (b - a + 1))]
    BY <1>1, <1>4 DEF Realigned, h
  <2>2. y = [start |-> z.start + (h - (b - a + 1)), end |-> z.end + (h - (b - a + 1)), orig |-> z.orig]
    BY <1>2, <2>1
  <2>3. z.start + (h - (b - a + 1)) \in Nat /\ z.end + (h - (b - a + 1)) \in Nat
    BY <1>1, <1>4
  <2>4. y.start = z.start + (h - (b - a + 1)) /\ y.end = z.end + (h - (b - a + 1)) /\ y.orig = z.orig
    BY <2>2
  <2>5. y \in DiffZone
    BY <1>1, <2>2, <2>3 DEF DiffZone
  <2> HIDE DEF y
  <2> QED BY <1>1, <1>4, <2>4, <2>5 DEF Moved
<1>5. CASE ~(z.end < a) /\ ~(b < z.start) /\ a >= z.start /\ b <= z.end
  <2>1. y = [z EXCEPT !.end = @ + (h - (b - a + 1))]
    BY <1>1, <1>5 DEF Realigned, h
  <2>2. y = [start |-> z.start, end |-> z.end + (h - (b - a + 1)), orig |-> z.orig]
    BY <1>2, <2>1
  <2>3. z.end + (h - (b - a + 1)) \in Nat
    BY <1>1, <1>5
  <2>4. y.start = z.start /\ y.end = z.end + (h - (b - a + 1)) /\ y.orig = z.orig
    BY <2>2
  <2>5. y \in DiffZone
    BY <1>1, <2>2, <2>3 DEF DiffZone
  <2> HIDE DEF y
  <2> QED BY <1>1, <1>5, <2>4, <2>5 DEF Moved
<1>6. CASE ~(z.end < a) /\ ~(b < z.start) /\ a < z.start
  <2>1. ~(a >= z.start /\ b <= z.end) /\ ~(z.start > a /\ z.end < b) /\ a < z.start /\ z.start <= b /\ b <= z.end
    BY <1>1, <1>6
  <2>2. y = [z EXCEPT !.start = a, !.end = a + (z.end - b) + h - 1]
    BY <1>6, <2>1 DEF Realigned, h
  <2>3. y = [start |-> a, end |-> a + (z.end - b) + h - 1, orig |-> z.orig]
    BY <1>2, <2>2
  <2>4. a + (z.end - b) + h - 1 \in Nat
    BY <1>1, <2>1
  <2>5. y.start = a /\ y.end = a + (z.end - b) + h - 1 /\ y.orig = z.orig
    BY <2>3
  <2>6. y \in DiffZone
    BY <1>1, <2>3, <2>4 DEF DiffZone
  <2>7. a + (z.end - b) + h - 1 = z.end + h - (b - a + 1) /\ (~(b < z.end) => a + (z.end - b) + h - 1 = a + h - 1)
    BY <1>1, <2>1
  <2> HIDE DEF y
  <2>8. y.end = IF z.end < a THEN z.end ELSE IF b < z.end THEN z.end + h - (b - a + 1) ELSE a + h - 1
    BY <1>6, <2>5, <2>7
  <2> QED BY <1>6, <2>5, <2>6, <2>8 DEF Moved
<1>7. CASE ~(z.end < a) /\ ~(b < z.start) /\ a >= z.start /\ ~(b <= z.end)
  <2>1. ~(a >= z.start /\ b <= z.end) /\ ~(z.start > a /\ z.end < b) /\ ~(a < z.start /\ b <= z.end)
    BY <1>1, <1>7
  <2>2. y = [z EXCEPT !.end = @ + h - (z.end - a + 1)]
    BY <1>7, <2>1 DEF Realigned, h
  <2>3. y = [start |-> z.start, end |-> z.end + h - (z.end - a + 1), orig |-> z.orig]
    BY <1>2, <2>2
  <2>4. z.end + h - (z.end - a + 1) \in Nat
    BY <1>1, <1>7
  <2>5. y.start = z.start /\ y.end = z.end + h - (z.end - a + 1) /\ y.orig = z.orig
    BY <2>3
  <2>6. y \in DiffZone
    BY <1>1, <2>3, <2>4 DEF DiffZone
  <2> HIDE DEF y
  <2> QED BY <1>1, <1>7, <2>1, <2>5, <2>6 DEF Moved
<1> HIDE DEF y
<1>8. \/ z.end < a
      \/ ~(z.end < a) /\ b < z.start
      \/ ~(z.end < a) /\ ~(b < z.start) /\ a >= z.start /\ b <= z.end
      \/ ~(z.end < a) /\ ~(b < z.start) /\ a < z.start
      \/ ~(z.end < a) /\ ~(b < z.start) /\ a >= z.start /\ ~(b <= z.end)
  BY <1>1
<1> QED BY <1>3, <1>4, <1>5, <1>6, <1>7, <1>8

\* A change that reaches beyond one end of a zone at most leaves it in the file.
LEMMA MovedInFile ==
  ASSUME NEW f \in FileText, NEW p, NEW m, NEW z, ZoneOK(f, z), NEW y,
         NEW a \in 1..Len(f), NEW b \in a..Len(f), NEW h \in Nat \ {0},
         Replaced(p, f, a, b, m, h), Moved(y, z, a, b, h), ~(a < z.start /\ z.end < b)
  PROVE  ZoneOK(p, y)
<1>1. Len(f) \in Nat /\ Len(p) = Len(f) + h - (b - a + 1)
  BY LenProperties DEF FileText, IsPut, Replaced
<1>2. z.start \in Nat /\ z.end \in Nat
  BY DEF ZoneOK, DiffZone
<1>3. y \in DiffZone /\ y.orig # <<>>
  BY DEF Moved, ZoneOK
<1>4. y.start \in Nat /\ y.end \in Nat
  BY <1>3 DEF DiffZone
<1>5. 1 <= y.start
  BY <1>1, <1>2, <1>4 DEF Moved, ZoneOK
<1>6. y.start <= y.end
  BY <1>1, <1>2, <1>4 DEF Moved, ZoneOK
<1>7. y.end <= Len(p)
  BY <1>1, <1>2, <1>4 DEF Moved, ZoneOK
<1> QED BY <1>3, <1>5, <1>6, <1>7 DEF ZoneOK

\* Zones that share no line, one of which the change does not touch, share none after it.
LEMMA MovedApart ==
  ASSUME NEW f \in FileText, NEW z, ZoneOK(f, z), NEW w, ZoneOK(f, w), Apart(z, w.start, w.end), NEW y, NEW v,
         NEW a \in 1..Len(f), NEW b \in a..Len(f), NEW h \in Nat \ {0},
         Moved(y, z, a, b, h), Moved(v, w, a, b, h), Apart(z, a, b) \/ Apart(w, a, b)
  PROVE  Apart(y, v.start, v.end)
<1>1. Len(f) \in Nat /\ a \in Nat /\ b \in Nat /\ a <= b
  BY LenProperties DEF FileText
<1>2. z.start \in Nat /\ z.end \in Nat /\ w.start \in Nat /\ w.end \in Nat /\ z.start <= z.end /\ w.start <= w.end
  BY DEF ZoneOK, DiffZone
<1>3. w.end < z.start \/ z.end < w.start
  BY DEF Apart
<1>4. CASE w.end < a /\ z.end < a
  BY <1>1, <1>2, <1>3, <1>4 DEF Moved, Apart
<1>5. CASE b < w.start /\ b < z.start
  BY <1>1, <1>2, <1>3, <1>5 DEF Moved, Apart
<1>6. CASE w.end < a /\ ~(z.end < a)
  BY <1>1, <1>2, <1>3, <1>6 DEF Moved, Apart
<1>7. CASE z.end < a /\ ~(w.end < a)
  BY <1>1, <1>2, <1>3, <1>7 DEF Moved, Apart
<1>8. CASE b < w.start /\ ~(b < z.start) /\ ~(z.end < a)
  BY <1>1, <1>2, <1>3, <1>8 DEF Moved, Apart
<1>9. CASE b < z.start /\ ~(b < w.start) /\ ~(w.end < a)
  BY <1>1, <1>2, <1>3, <1>9 DEF Moved, Apart
<1>10. w.end < a \/ b < w.start \/ z.end < a \/ b < z.start
  BY DEF Apart
<1> QED BY <1>4, <1>5, <1>6, <1>7, <1>8, <1>9, <1>10

\* A change elsewhere moves a zone, whose lines stay what they were.
LEMMA ApartKeeps ==
  ASSUME NEW f \in FileText, NEW p, NEW m, NEW z, ZoneOK(f, z), NEW y,
         NEW a \in 1..Len(f), NEW b \in a..Len(f), NEW h \in Nat \ {0},
         Replaced(p, f, a, b, m, h), Moved(y, z, a, b, h), Apart(z, a, b)
  PROVE  Code(p, y) = Code(f, z)
<1>1. Len(f) \in Nat /\ p \in FileText /\ Len(p) = Len(f) + h - (b - a + 1)
  BY LenProperties DEF FileText, IsPut, Replaced
<1>2. z.start \in Nat /\ z.end \in Nat /\ z.start <= z.end /\ z.end <= Len(f) /\ 1 <= z.start
  BY DEF ZoneOK, DiffZone
<1>3. ZoneOK(p, y)
  <2>1. ~(a < z.start /\ z.end < b)
    BY <1>1, <1>2 DEF Apart
  <2> QED BY <2>1, MovedInFile
<1>4. y.start \in Nat /\ y.end \in Nat
  BY <1>3 DEF ZoneOK, DiffZone
<1> DEFINE n == z.end - z.start + 1
<1>5. y.end - y.start + 1 = n
  BY <1>1, <1>2, <1>4 DEF Moved, Apart
<1>6. Code(f, z) \in FileText /\ Len(Code(f, z)) = n /\ \A i \in 1..n : Code(f, z)[i] = f[z.start + i - 1]
  BY CodeLines
<1>7. Code(p, y) \in FileText /\ Len(Code(p, y)) = n /\ \A i \in 1..n : Code(p, y)[i] = p[y.start + i - 1]
  BY <1>1, <1>3, <1>5, CodeLines
<1>8. ASSUME NEW i \in 1..n PROVE p[y.start + i - 1] = f[z.start + i - 1]
  <2> DEFINE l == y.start + i - 1
  <2>1. l \in 1..(Len(f) + h - (b - a + 1))
    <3>1. 1 <= y.start /\ y.end <= Len(f) + h - (b - a + 1)
      BY <1>1, <1>3 DEF ZoneOK
    <3>2. i \in Nat /\ 1 <= i /\ i <= y.end - y.start + 1
      BY <1>2, <1>5
    <3> QED BY <1>1, <1>4, <3>1, <3>2
  <2>2. p[l] = IF l < a THEN f[l] ELSE IF l < a + h THEN m[l - a + 1] ELSE f[l - h + (b - a + 1)]
    BY <2>1 DEF IsPut, Replaced
  <2>3. CASE z.end < a
    <3>1. l < a /\ l = z.start + i - 1
      BY <1>1, <1>2, <2>3 DEF Moved
    <3> QED BY <2>2, <3>1
  <2>4. CASE b < z.start
    <3>1. y.start = z.start + h - (b - a + 1)
      <4>1. ~(z.end < a)
        BY <1>1, <1>2, <2>4
      <4> QED BY <2>4, <4>1 DEF Moved
    <3> DEFINE s == z.start
    <3>2. i \in Nat /\ 1 <= i /\ a \in Nat /\ b \in Nat /\ a <= b /\ h \in Nat /\ s \in Nat /\ b < s
      BY <1>1, <1>2, <2>4
    <3>3. l = s + h - (b - a + 1) + i - 1
      BY <3>1
    <3> HIDE DEF l, s
    <3>4. ~(l < a) /\ ~(l < a + h) /\ l - h + (b - a + 1) = s + i - 1
      BY <3>2, <3>3
    <3>5. p[l] = f[l - h + (b - a + 1)]
      BY <2>2, <3>4
    <3> QED BY <3>4, <3>5 DEF l, s
  <2> QED BY <2>3, <2>4 DEF Apart
<1>9. \A i \in 1..n : Code(p, y)[i] = Code(f, z)[i]
  BY <1>6, <1>7, <1>8
<1> HIDE DEF n
<1> QED BY <1>6, <1>7, <1>9, SeqEqual DEF FileText

\* Deleting the lines up to the one before a zone moves it, and changes none of its lines.
LEMMA DeleteKeeps ==
  ASSUME NEW f \in FileText, NEW p, NEW z, ZoneOK(f, z), NEW y,
         NEW a \in 1..Len(f), NEW b \in a..(Len(f) - 1),
         IsPut(p, f, a, b + 1 - a + 1, <<f[b + 1]>>, 1), Moved(y, z, a, b + 1, 1), z.start = b + 1
  PROVE  ZoneOK(p, y) /\ Code(p, y) = Code(f, z)
<1>1. Len(f) \in Nat /\ p \in FileText /\ Len(p) = Len(f) + 1 - (b + 1 - a + 1)
  BY LenProperties DEF FileText, IsPut
<1>2. z.start \in Nat /\ z.end \in Nat /\ z.start <= z.end /\ z.end <= Len(f) /\ 1 <= z.start
  BY DEF ZoneOK, DiffZone
<1>3. ZoneOK(p, y)
  <2> DEFINE c == b + 1
  <2>1. c \in a..Len(f) /\ 1 \in Nat \ {0} /\ ~(a < z.start /\ z.end < c)
    BY <1>1, <1>2
  <2>2. Replaced(p, f, a, c, <<f[b + 1]>>, 1) /\ Moved(y, z, a, c, 1)
    BY DEF Replaced
  <2> HIDE DEF c
  <2> QED BY <2>1, <2>2, MovedInFile
<1>4. y.start \in Nat /\ y.end \in Nat
  BY <1>3 DEF ZoneOK, DiffZone
<1> DEFINE n == z.end - z.start + 1
<1>5. y.start = a /\ y.end - y.start + 1 = n
  BY <1>1, <1>2, <1>4 DEF Moved
<1>6. Code(f, z) \in FileText /\ Len(Code(f, z)) = n /\ \A i \in 1..n : Code(f, z)[i] = f[z.start + i - 1]
  BY CodeLines
<1>7. Code(p, y) \in FileText /\ Len(Code(p, y)) = n /\ \A i \in 1..n : Code(p, y)[i] = p[y.start + i - 1]
  BY <1>1, <1>3, <1>5, CodeLines
<1>8. ASSUME NEW i \in 1..n PROVE p[y.start + i - 1] = f[z.start + i - 1]
  <2> DEFINE l == a + i - 1
  <2>1. l \in 1..(Len(f) + 1 - (b + 1 - a + 1)) /\ ~(l < a)
    BY <1>1, <1>2
  <2>2. p[l] = IF l < a THEN f[l] ELSE IF l < a + 1 THEN <<f[b + 1]>>[l - a + 1] ELSE f[l - 1 + (b + 1 - a + 1)]
    BY <2>1 DEF IsPut
  <2>3. CASE i = 1
    <3>1. l - a + 1 = 1 /\ l < a + 1 /\ z.start + i - 1 = b + 1
      BY <1>1, <1>2, <2>3
    <3> QED BY <1>5, <2>1, <2>2, <3>1
  <2>4. CASE i # 1
    <3>1. ~(l < a + 1) /\ l - 1 + (b + 1 - a + 1) = z.start + i - 1
      BY <1>1, <1>2, <2>4
    <3> QED BY <1>5, <2>1, <2>2, <3>1
  <2> QED BY <2>3, <2>4
<1>9. \A i \in 1..n : Code(p, y)[i] = Code(f, z)[i]
  BY <1>6, <1>7, <1>8
<1> HIDE DEF n
<1>10. Code(p, y) = Code(f, z)
  BY <1>6, <1>7, <1>9, SeqEqual DEF FileText
<1> QED BY <1>3, <1>10

-----------------------------------------------------------------------------
\* Diffs

\* Lines of a text
LEMMA SubText ==
  ASSUME NEW t \in FileText, NEW a \in 1..(Len(t) + 1), NEW b \in (a - 1)..Len(t)
  PROVE  /\ SubSeq(t, a, b) \in FileText
         /\ Len(SubSeq(t, a, b)) = b - a + 1
         /\ \A k \in 1..(b - a + 1) : SubSeq(t, a, b)[k] = t[a + k - 1]
<1>1. Len(t) \in Nat
  BY LenProperties DEF FileText
<1>2. \A k \in a..b : t[k] \in Line
  BY <1>1, ElementOfSeq DEF FileText
<1> DEFINE c == SubSeq(t, a, b)
<1>3. c \in FileText /\ Len(c) = (IF a <= b THEN b - a + 1 ELSE 0) /\ \A k \in 1..(b - a + 1) : c[k] = t[a + k - 1]
  BY <1>1, <1>2, SubSeqProperties DEF FileText
<1> HIDE DEF c
<1>4. Len(c) = b - a + 1
  BY <1>1, <1>3
<1> QED BY <1>3, <1>4 DEF c

\* Replacing a whole text
LEMMA PutAll ==
  ASSUME NEW f \in FileText, NEW m \in FileText
  PROVE  Put(f, 1, Len(f), m) = m
<1> DEFINE n == Len(f)
           p == Put(f, 1, n, m)
<1>1. n \in Nat /\ Len(m) \in Nat
  BY LenProperties DEF FileText
<1> HIDE DEF n
<1>2. IsPut(Put(f, 1, n, m), f, 1, n - 1 + 1, m, Len(m))
  <2>1. 1 \in 1..(Len(f) + 1) /\ n \in (1 - 1)..Len(f)
    BY <1>1 DEF n
  <2> QED BY <2>1, PutLines
<1> HIDE DEF p
<1>3. p \in FileText /\ Len(p) = Len(m) /\ \A l \in 1..Len(m) : p[l] = m[l]
  <2>1. p \in FileText /\ Len(p) = Len(f) + Len(m) - (n - 1 + 1)
        /\ \A l \in 1..(Len(f) + Len(m) - (n - 1 + 1)) :
             p[l] = IF l < 1 THEN f[l] ELSE IF l < 1 + Len(m) THEN m[l - 1 + 1] ELSE f[l - Len(m) + (n - 1 + 1)]
    BY <1>2 DEF IsPut, p
  <2>2. Len(f) + Len(m) - (n - 1 + 1) = Len(m)
    BY <1>1 DEF n
  <2>3. \A l \in 1..Len(m) : ~(l < 1) /\ l < 1 + Len(m) /\ l - 1 + 1 = l
    BY <1>1
  <2> QED BY <2>1, <2>2, <2>3
<1>4. p = m
  BY <1>3, SeqEqual DEF FileText
<1> QED BY <1>4 DEF p, n

\* The kept lines, with what is in front of the first and behind the last, are in the same order in both texts.
LEMMA EdgesInOrder ==
  ASSUME NEW o \in FileText, NEW n \in FileText, NEW S \in Matchings(o, n), NEW p \in Edges(S, o, n), NEW q \in Edges(S, o, n)
  PROVE  /\ p[1] \in 0..(Len(o) + 1) /\ p[2] \in 0..(Len(n) + 1)
         /\ p[1] < q[1] <=> p[2] < q[2]
         /\ p[1] = 0 <=> p[2] = 0
         /\ p[1] = Len(o) + 1 <=> p[2] = Len(n) + 1
         /\ p \in Nat \X Nat
         /\ p \in S \/ p[1] = 0 \/ p[1] = Len(o) + 1
         /\ p \in S => o[p[1]] = n[p[2]]
<1>1. Len(o) \in Nat /\ Len(n) \in Nat
  BY LenProperties DEF FileText
<1>2. /\ \A r \in S : r \in (1..Len(o)) \X (1..Len(n)) /\ o[r[1]] = n[r[2]]
      /\ \A r, s \in S : r[1] < s[1] <=> r[2] < s[2]
  BY DEF Matchings
<1>3. ASSUME NEW r \in Edges(S, o, n)
      PROVE  \/ r \in S /\ r[1] \in 1..Len(o) /\ r[2] \in 1..Len(n)
             \/ r = <<0, 0>>
             \/ r = <<Len(o) + 1, Len(n) + 1>>
  BY <1>2 DEF Edges
<1>4. \/ p \in S /\ p[1] \in 1..Len(o) /\ p[2] \in 1..Len(n)
      \/ p[1] = 0 /\ p[2] = 0
      \/ p[1] = Len(o) + 1 /\ p[2] = Len(n) + 1
  BY <1>3
<1>5. \/ q \in S /\ q[1] \in 1..Len(o) /\ q[2] \in 1..Len(n)
      \/ q[1] = 0 /\ q[2] = 0
      \/ q[1] = Len(o) + 1 /\ q[2] = Len(n) + 1
  BY <1>3
<1>6. p \in Nat \X Nat
  BY <1>1, <1>2, <1>3
<1>7. p \in S => o[p[1]] = n[p[2]]
  BY <1>2
<1>8. p \in S /\ q \in S => (p[1] < q[1] <=> p[2] < q[2])
  BY <1>2
<1>9. p[1] \in 0..(Len(o) + 1) /\ p[2] \in 0..(Len(n) + 1) /\ (p[1] = 0 <=> p[2] = 0)
      /\ (p[1] = Len(o) + 1 <=> p[2] = Len(n) + 1)
  BY <1>1, <1>4
<1>10. p[1] < q[1] <=> p[2] < q[2]
  BY <1>1, <1>4, <1>5, <1>8
<1> QED BY <1>4, <1>6, <1>7, <1>9, <1>10

\* A diff of zone z: lines o1..o2 of its original, lines n1..n2 of the file, not both of them none
IsDiff(z, d) ==
  /\ d.n1 \in Nat /\ d.n2 \in Nat /\ z.start <= d.n1 /\ d.n1 <= d.n2 + 1 /\ d.n2 <= z.end
  /\ d.o1 \in Nat /\ d.o2 \in Nat /\ 1 <= d.o1 /\ d.o1 <= d.o2 + 1 /\ d.o2 <= Len(z.orig)
  /\ ~(Deletion(d) /\ Insertion(d))
  /\ Insertion(d) /\ d.n2 = z.end => z.start < d.n1
  /\ d.o1 = 1 /\ d.o2 = Len(z.orig) => ~Deletion(d)

LEMMA ShownDiffs ==
  ASSUME NEW f \in FileText, NEW z, z # NoZone, ZoneOK(f, z), NEW D \in DiffsOf(f, z), NEW d \in D
  PROVE  IsDiff(z, d)
<1> DEFINE o == z.orig
           n == Code(f, z)
           k == z.start - 1
<1>1. o \in FileText /\ n \in FileText /\ Len(n) = z.end - k /\ Len(o) \in Nat \ {0} /\ Len(n) \in Nat
      /\ z.start \in Nat /\ z.end \in Nat /\ k \in Nat /\ z.start = k + 1 /\ k < z.end
  BY CodeLines, LenProperties, EmptySeq DEF ZoneOK, DiffZone, FileText
<1>2. D \in FindDiffs(o, n, k)
  BY DEF DiffsOf
<1> HIDE DEF o, n, k
<1>3. PICK S \in Matchings(o, n) : D = Gaps(S, o, n, k)
  BY <1>2 DEF FindDiffs, Longest
<1>4. PICK p \in Edges(S, o, n), q \in Edges(S, o, n) :
         Adjacent(Edges(S, o, n), p, q) /\ q # <<p[1] + 1, p[2] + 1>> /\ d = Gap(p, q, k)
  BY <1>3 DEF Gaps
<1>5. d.o1 = p[1] + 1 /\ d.o2 = q[1] - 1 /\ d.n1 = k + p[2] + 1 /\ d.n2 = k + q[2] - 1
  BY <1>4 DEF Gap
<1>6. p[1] < q[1]
  BY <1>4 DEF Adjacent
<1>7. /\ p[1] \in 0..(Len(o) + 1) /\ p[2] \in 0..(Len(n) + 1) /\ (p[1] = 0 <=> p[2] = 0)
      /\ (p[1] < q[1] <=> p[2] < q[2])
  BY <1>1, EdgesInOrder
<1>8. /\ q[1] \in 0..(Len(o) + 1) /\ q[2] \in 0..(Len(n) + 1) /\ q \in Nat \X Nat
      /\ (q[1] = Len(o) + 1 <=> q[2] = Len(n) + 1)
  BY <1>1, EdgesInOrder
<1>9. ~(q[1] = p[1] + 1 /\ q[2] = p[2] + 1)
  BY <1>4, <1>8
<1> DEFINE p1 == p[1]
           p2 == p[2]
           q1 == q[1]
           q2 == q[2]
           lo == Len(o)
           ln == Len(n)
           e  == z.end
           st == z.start
           do1 == d.o1
           do2 == d.o2
           dn1 == d.n1
           dn2 == d.n2
<1>10. /\ p1 \in Nat /\ p2 \in Nat /\ q1 \in Nat /\ q2 \in Nat /\ lo \in Nat /\ lo >= 1 /\ ln \in Nat /\ k \in Nat /\ e \in Nat
       /\ st = k + 1 /\ e = k + ln /\ ln >= 1
       /\ p1 < q1 /\ p2 < q2 /\ q1 <= lo + 1 /\ q2 <= ln + 1 /\ ~(q1 = p1 + 1 /\ q2 = p2 + 1)
       /\ (p1 = 0 <=> p2 = 0) /\ (q1 = lo + 1 <=> q2 = ln + 1)
       /\ do1 = p1 + 1 /\ do2 = q1 - 1 /\ dn1 = k + p2 + 1 /\ dn2 = k + q2 - 1
  <2>1. lo \in Nat /\ lo >= 1 /\ ln \in Nat /\ k \in Nat /\ e \in Nat /\ st = k + 1 /\ e = k + ln /\ ln >= 1
    BY <1>1
  <2>2. p1 \in Nat /\ p2 \in Nat /\ q1 \in Nat /\ q2 \in Nat /\ q1 <= lo + 1 /\ q2 <= ln + 1
    BY <1>1, <1>7, <1>8
  <2>3. p1 < q1 /\ p2 < q2
    BY <1>6, <1>7
  <2>4. do1 = p1 + 1 /\ do2 = q1 - 1 /\ dn1 = k + p2 + 1 /\ dn2 = k + q2 - 1
    BY <1>5
  <2>5. ~(q1 = p1 + 1 /\ q2 = p2 + 1) /\ (p1 = 0 <=> p2 = 0) /\ (q1 = lo + 1 <=> q2 = ln + 1)
    BY <1>7, <1>8, <1>9
  <2> QED BY <2>1, <2>2, <2>3, <2>4, <2>5
<1> HIDE DEF p1, p2, q1, q2, lo, ln, e, st, do1, do2, dn1, dn2
<1>11. /\ dn1 \in Nat /\ dn2 \in Nat /\ st <= dn1 /\ dn1 <= dn2 + 1 /\ dn2 <= e
       /\ do1 \in Nat /\ do2 \in Nat /\ 1 <= do1 /\ do1 <= do2 + 1 /\ do2 <= lo
  BY <1>10
<1>12. ~(dn2 < dn1 /\ do2 < do1)
  BY <1>10
<1>13. do2 < do1 /\ dn2 = e => st < dn1
  BY <1>10
<1>14. do1 = 1 /\ do2 = lo => ~(dn2 < dn1)
  BY <1>10
<1> QED BY <1>11, <1>12, <1>13, <1>14 DEF IsDiff, Deletion, Insertion, o, lo, e, st, do1, do2, dn1, dn2

\* What rejectDiff writes stays in the zone, and puts the lines of the original where the diff is.
LEMMA RejectEdits ==
  ASSUME NEW f \in FileText, NEW z, ZoneOK(f, z), NEW d, IsDiff(z, d), NEW e, e = RejectEdit(z, d)
  PROVE  /\ e.text \in FileText /\ Len(e.text) >= 1
         /\ e.range.l1 \in z.start..z.end /\ e.range.l2 \in e.range.l1..z.end
         /\ ~(Insertion(d) /\ d.n2 = z.end) =>
              Splice(f, e.range, e.text) = Put(f, d.n1, d.n2, SubSeq(z.orig, d.o1, d.o2))
<1> DEFINE t  == SubSeq(z.orig, d.o1, d.o2)
           n1 == d.n1
           n2 == d.n2
           s  == z.start
           k  == z.end
<1>1. /\ n1 \in Nat /\ n2 \in Nat /\ s \in Nat /\ k \in Nat /\ Len(f) \in Nat
      /\ 1 <= s /\ s <= k /\ k <= Len(f) /\ s <= n1 /\ n1 <= n2 + 1 /\ n2 <= k
  BY LenProperties DEF IsDiff, ZoneOK, DiffZone, FileText
<1>2. t \in FileText /\ Len(t) = d.o2 - d.o1 + 1 /\ Len(t) \in Nat
  <2>1. z.orig \in FileText /\ Len(z.orig) \in Nat
    BY LenProperties DEF ZoneOK, DiffZone, FileText
  <2>2. d.o1 \in 1..(Len(z.orig) + 1) /\ d.o2 \in (d.o1 - 1)..Len(z.orig)
    BY <2>1 DEF IsDiff
  <2> HIDE DEF t
  <2>3. t \in FileText /\ Len(t) = d.o2 - d.o1 + 1
    BY <2>1, <2>2, SubText DEF t
  <2> QED BY <2>3, LenProperties DEF FileText
<1>3. d.o1 \in Nat /\ d.o2 \in Nat
  BY DEF IsDiff
<1>3a. ~(Deletion(d) /\ Insertion(d)) /\ (Insertion(d) /\ n2 = k => s < n1)
  BY DEF IsDiff
<1>3b. (Deletion(d) <=> n2 < n1) /\ (Insertion(d) <=> d.o2 < d.o1)
  BY DEF Deletion, Insertion
<1>4. e = CASE Deletion(d) /\ n1 - 1 = k -> [range |-> Span(n1 - 1, "end", n1 - 1, "end"), text |-> Empty \o t]
            [] Deletion(d) /\ n1 - 1 # k -> [range |-> Span(n1, "start", n1, "start"), text |-> t \o Empty]
            [] Insertion(d) /\ n2 = k -> [range |-> Span(n1 - 1, "end", n2, "start"), text |-> Empty]
            [] Insertion(d) /\ n2 # k -> [range |-> Span(n1, "start", n2 + 1, "start"), text |-> Empty]
            [] OTHER -> [range |-> WholeLines(n1, n2), text |-> t]
  BY DEF RejectEdit
<1> HIDE DEF t, n1, n2, s, k
<1>5. SUFFICES /\ e.text \in FileText /\ Len(e.text) >= 1
               /\ e.range.l1 \in s..k /\ e.range.l2 \in e.range.l1..k
               /\ ~(Insertion(d) /\ n2 = k) => Splice(f, e.range, e.text) = Put(f, n1, n2, t)
  BY DEF t, n1, n2, s, k
<1>6. CASE Deletion(d) /\ n1 - 1 = k
  <2>00. Deletion(d) /\ ~Insertion(d) /\ ~(Deletion(d) /\ n1 - 1 # k)
    BY <1>3a, <1>6
  <2>0. e = [range |-> Span(n1 - 1, "end", n1 - 1, "end"), text |-> Empty \o t]
    BY <1>4, <1>6, <2>00
  <2> DEFINE n == n1 - 1
  <2>1. e.range = Span(n, "end", n, "end") /\ e.text = Empty \o t
    BY <2>0
  <2>2. n \in 1..Len(f) /\ n + 1 = n1 /\ n = n2 /\ n \in s..k /\ n \in n..k
    BY <1>1, <1>3b, <1>6
  <2> HIDE DEF n
  <2>3. /\ Empty \o t \in FileText /\ Len(Empty \o t) = Len(t) + 1
        /\ Splice(f, Span(n, "end", n, "end"), Empty \o t) = Put(f, n, n, <<f[n]>> \o t)
    BY <1>2, <2>2, SpliceBehind
  <2>4. Put(f, n, n, <<f[n]>> \o t) = Put(f, n + 1, n, t)
    BY <1>2, <2>2, PutBehind
  <2>5. e.range.l1 = n /\ e.range.l2 = n
    BY <2>1 DEF Span
  <2>6. Len(e.text) >= 1
    BY <1>2, <2>1, <2>3
  <2>7. Splice(f, e.range, e.text) = Put(f, n1, n2, t)
    BY <2>1, <2>2, <2>3, <2>4
  <2> QED BY <2>1, <2>2, <2>3, <2>5, <2>6, <2>7
<1>7. CASE Deletion(d) /\ n1 - 1 # k
  <2>0. ~(Deletion(d) /\ n1 - 1 = k) /\ (Deletion(d) /\ n1 - 1 # k)
    BY <1>7
  <2>00. e = [range |-> Span(n1, "start", n1, "start"), text |-> t \o Empty]
    BY <1>3a, <1>4, <2>0
  <2>1. e.range = Span(n1, "start", n1, "start") /\ e.text = t \o Empty
    BY <2>00
  <2>2. n1 \in 1..Len(f) /\ n1 - 1 = n2 /\ n1 \in s..k /\ n1 \in n1..k
    BY <1>1, <1>3b, <1>7
  <2>3. /\ t \o Empty \in FileText /\ Len(t \o Empty) = Len(t) + 1
        /\ Splice(f, Span(n1, "start", n1, "start"), t \o Empty) = Put(f, n1, n1, t \o <<f[n1]>>)
    BY <1>2, <2>2, SpliceBefore
  <2>4. Put(f, n1, n1, t \o <<f[n1]>>) = Put(f, n1, n1 - 1, t)
    BY <1>2, <2>2, PutBefore
  <2>5. e.range.l1 = n1 /\ e.range.l2 = n1
    BY <2>1 DEF Span
  <2>6. Len(e.text) >= 1
    BY <1>2, <2>1, <2>3
  <2>7. Splice(f, e.range, e.text) = Put(f, n1, n2, t)
    BY <2>1, <2>2, <2>3, <2>4
  <2> QED BY <2>1, <2>2, <2>3, <2>5, <2>6, <2>7
<1>7a. Empty \in FileText /\ Len(Empty) = 1
  BY EmptySeq DEF Empty, FileText, Line
<1>8. CASE Insertion(d) /\ n2 = k
  <2>1. e.range = Span(n1 - 1, "end", n2, "start") /\ e.text = Empty
    BY <1>3a, <1>4, <1>8
  <2>2. e.range.l1 = n1 - 1 /\ e.range.l2 = n2
    BY <2>1 DEF Span
  <2>3. n1 - 1 \in s..k /\ n2 \in (n1 - 1)..k
    BY <1>1, <1>3a, <1>8
  <2>4. e.range.l1 \in s..k /\ e.range.l2 \in e.range.l1..k
    BY <2>2, <2>3
  <2>5. e.text \in FileText /\ Len(e.text) >= 1
    <3>1. e.text = Empty
      BY <2>1
    <3>2. Empty \in FileText /\ Len(Empty) >= 1
      BY <1>7a
    <3> QED BY <3>1, <3>2
  <2> QED BY <1>8, <2>4, <2>5
<1>9. CASE Insertion(d) /\ n2 # k
  <2>1. e.range = Span(n1, "start", n2 + 1, "start") /\ e.text = Empty
    BY <1>3a, <1>4, <1>9
  <2>2. e.range.l1 = n1 /\ e.range.l2 = n2 + 1
    BY <2>1 DEF Span
  <2>3. n1 \in 1..Len(f) /\ n2 \in n1..(Len(f) - 1) /\ n1 \in s..k /\ n2 + 1 \in n1..k
    BY <1>1, <1>3a, <1>3b, <1>9
  <2>4. Splice(f, e.range, e.text) = Put(f, n1, n2 + 1, <<f[n2 + 1]>>)
    BY <2>1, <2>3, SpliceDelete
  <2>5. Put(f, n1, n2 + 1, <<f[n2 + 1]>>) = Put(f, n1, n2, <<>>)
    BY <2>3, PutDelete
  <2>6. t = <<>>
    <3>1. Len(t) = 0
      BY <1>2, <1>3, <1>3b, <1>9
    <3> QED BY <1>2, <3>1, EmptySeq DEF FileText
  <2>7. e.range.l1 \in s..k /\ e.range.l2 \in e.range.l1..k
    BY <2>2, <2>3
  <2>8. e.text \in FileText /\ Len(e.text) = 1
    BY <1>7a, <2>1, Zenon
  <2>9. Splice(f, e.range, e.text) = Put(f, n1, n2, t)
    BY <2>4, <2>5, <2>6
  <2> QED BY <2>7, <2>8, <2>9
<1>10. CASE ~Deletion(d) /\ ~Insertion(d)
  <2>1. e.range = WholeLines(n1, n2) /\ e.text = t
    BY <1>4, <1>10
  <2>2. e.range.l1 = n1 /\ e.range.l2 = n2
    BY <2>1 DEF WholeLines, Span
  <2>3. n1 \in 1..Len(f) /\ n2 \in n1..Len(f) /\ n1 \in s..k /\ n2 \in n1..k
    BY <1>1, <1>3b, <1>10
  <2>4. Len(t) >= 1
    BY <1>2, <1>3, <1>3b, <1>10
  <2>5. t # <<>>
    BY <1>2, <2>4, EmptySeq
  <2>6. Splice(f, WholeLines(n1, n2), t) = Put(f, n1, n2, t)
    BY <1>2, <2>3, <2>5, SpliceLines
  <2> QED BY <1>2, <2>1, <2>2, <2>3, <2>4, <2>6
<1> QED BY <1>6, <1>7, <1>8, <1>9, <1>10

\* Line d of the code of a zone, taken back in the file
LEMMA TakenBackIsPut ==
  ASSUME NEW f \in FileText, NEW z, ZoneOK(f, z), NEW d, IsDiff(z, d)
  PROVE  SubSeq(f, 1, z.start - 1) \o TakenBack(Code(f, z), z, d) \o SubSeq(f, z.end + 1, Len(f))
           = Put(f, d.n1, d.n2, SubSeq(z.orig, d.o1, d.o2))
<1> DEFINE m  == SubSeq(z.orig, d.o1, d.o2)
           n1 == d.n1
           n2 == d.n2
           s  == z.start
           k  == z.end
           c  == SubSeq(f, s, k)
<1>1. /\ n1 \in Nat /\ n2 \in Nat /\ s \in Nat /\ k \in Nat /\ Len(f) \in Nat
      /\ 1 <= s /\ s <= k /\ k <= Len(f) /\ s <= n1 /\ n1 <= n2 + 1 /\ n2 <= k
  BY LenProperties DEF IsDiff, ZoneOK, DiffZone, FileText
<1>2. m \in FileText
  <2>1. z.orig \in FileText /\ Len(z.orig) \in Nat
    BY LenProperties DEF ZoneOK, DiffZone, FileText
  <2>2. d.o1 \in 1..(Len(z.orig) + 1) /\ d.o2 \in (d.o1 - 1)..Len(z.orig)
    BY <2>1 DEF IsDiff
  <2> QED BY <2>1, <2>2, SubText
<1>3. Code(f, z) = c /\ c \in FileText /\ Len(c) = k - s + 1
  BY CodeLines
<1>4. TakenBack(c, z, d) = SubSeq(c, 1, n1 - s) \o m \o SubSeq(c, n2 - s + 2, Len(c))
  BY DEF TakenBack
<1> HIDE DEF c, m, n1, n2, s, k
<1> DEFINE a == n1 - s + 1
           b == n2 - s + 1
<1>5. a - 1 = n1 - s /\ b + 1 = n2 - s + 2 /\ a \in 1..(Len(c) + 1) /\ b \in (a - 1)..Len(c)
  BY <1>1, <1>3
<1> HIDE DEF a, b
<1>6. SubSeq(c, 1, a - 1) \o m \o SubSeq(c, b + 1, Len(c)) = Put(c, a, b, m)
  BY <1>2, <1>3, <1>5, PutIsConcat DEF FileText
<1> DEFINE x == Put(c, a, b, m)
<1>7. TakenBack(Code(f, z), z, d) = x
  BY <1>3, <1>4, <1>5, <1>6
<1>8. x \in FileText
  BY <1>2, <1>3, <1>5, PutType DEF FileText
<1>9. s \in 1..(Len(f) + 1) /\ k \in (s - 1)..Len(f)
  BY <1>1
<1>10. n1 \in s..(k + 1) /\ n2 \in (n1 - 1)..k
  BY <1>1
<1>11. x = Put(SubSeq(f, s, k), n1 - s + 1, n2 - s + 1, m)
  BY DEF a, b, c
<1> HIDE DEF x
<1>12. SubSeq(f, 1, s - 1) \o x \o SubSeq(f, k + 1, Len(f)) = Put(f, s, k, x)
  BY <1>8, <1>9, PutIsConcat DEF FileText
<1>13. Put(f, s, k, x) = Put(f, n1, n2, m)
  BY <1>2, <1>9, <1>10, <1>11, PutInside
<1>14. SubSeq(f, 1, s - 1) \o TakenBack(Code(f, z), z, d) \o SubSeq(f, k + 1, Len(f)) = Put(f, n1, n2, m)
  BY <1>7, <1>12, <1>13
<1> QED BY <1>14 DEF m, n1, n2, s, k

-----------------------------------------------------------------------------
\* States

\* Zones in a file: each has lines of it, and no two share a line.
GoodZones(f, zs) ==
  /\ f \in FileText /\ f # <<>>
  /\ zs \in [Zones -> DiffZone \cup {NoZone}]
  /\ \A i \in Zones : zs[i] # NoZone => ZoneOK(f, zs[i])
  /\ \A i, j \in Zones : i # j /\ zs[i] # NoZone /\ zs[j] # NoZone => Apart(zs[i], zs[j].start, zs[j].end)

LEMMA NotAZone == NoZone \notin DiffZone
BY ReviewAssumption DEF DiffZone, FileText, Line

\* Lines a..b are those of one zone at most, and no zone is inside them.
Local(zs, a, b) ==
  /\ \A i \in Zones : zs[i] # NoZone => ~(a < zs[i].start /\ zs[i].end < b)
  /\ \A i, j \in Zones : i # j /\ zs[i] # NoZone /\ zs[j] # NoZone => Apart(zs[i], a, b) \/ Apart(zs[j], a, b)

\* The zones ys of file p are the zones zs of file f after lines a..b became h lines.
AllMoved(f, zs, p, ys, a, b, h) ==
  \A i \in Zones :
    /\ zs[i] = NoZone <=> ys[i] = NoZone
    /\ zs[i] # NoZone => Moved(ys[i], zs[i], a, b, h)
    /\ zs[i] # NoZone /\ Apart(zs[i], a, b) => Code(p, ys[i]) = Code(f, zs[i])

LEMMA LinesRewritten ==
  ASSUME NEW f, NEW zs, GoodZones(f, zs), NEW p, NEW m, NEW text \in FileText, Len(text) >= 1,
         NEW a \in 1..Len(f), NEW b \in a..Len(f), Replaced(p, f, a, b, m, Len(text)), Local(zs, a, b)
  PROVE  /\ GoodZones(p, RealignAll(zs, text, a, b))
         /\ AllMoved(f, zs, p, RealignAll(zs, text, a, b), a, b, Len(text))
<1> DEFINE ys == RealignAll(zs, text, a, b)
           h  == Len(text)
<1>1. f \in FileText /\ Len(f) \in Nat /\ p \in FileText /\ Len(p) = Len(f) + h - (b - a + 1) /\ h \in Nat
  BY LenProperties DEF GoodZones, IsPut, Replaced, FileText
<1>2. a \in Nat /\ b \in Nat /\ 1 <= a /\ a <= b /\ h \in Nat \ {0}
  BY <1>1
<1>3. ASSUME NEW i \in Zones, zs[i] # NoZone
      PROVE  /\ ys[i] # NoZone /\ Moved(ys[i], zs[i], a, b, h) /\ ZoneOK(p, ys[i]) /\ ZoneOK(f, zs[i])
             /\ Apart(zs[i], a, b) => Code(p, ys[i]) = Code(f, zs[i])
  <2>1. ys[i] = Realigned(zs[i], text, a, b)
    BY <1>3 DEF RealignAll
  <2>2. ZoneOK(f, zs[i]) /\ zs[i] \in DiffZone /\ 1 <= zs[i].start /\ zs[i].start <= zs[i].end
    BY <1>3 DEF GoodZones, ZoneOK
  <2>2a. ~(a < zs[i].start /\ zs[i].end < b)
    BY <1>3 DEF Local
  <2>3. Moved(ys[i], zs[i], a, b, h)
    BY <2>2a, <1>1, <1>2, <1>3, <2>1, <2>2, RealignMoves
  <2> HIDE DEF ys, h
  <2>4. ZoneOK(p, ys[i])
    BY <2>2a, <1>1, <1>2, <1>3, <2>2, <2>3, MovedInFile DEF h
  <2>5. Apart(zs[i], a, b) => Code(p, ys[i]) = Code(f, zs[i])
    <3>1. SUFFICES ASSUME Apart(zs[i], a, b) PROVE Code(p, ys[i]) = Code(f, zs[i])
      OBVIOUS
    <3>2. Replaced(p, f, a, b, m, h)
      BY DEF h
    <3> DEFINE z == zs[i]
               y == ys[i]
    <3>3. Moved(y, z, a, b, h) /\ Apart(z, a, b) /\ ZoneOK(f, z)
      BY <2>2, <2>3, <3>1
    <3> HIDE DEF z, y
    <3>4. Code(p, y) = Code(f, z)
      BY <1>1, <1>2, <3>2, <3>3, ApartKeeps
    <3> QED BY <3>4 DEF y, z
  <2>6. ys[i] # NoZone
    BY <2>3, NotAZone DEF Moved
  <2> QED BY <2>2, <2>3, <2>4, <2>5, <2>6
<1>4. \A i \in Zones : zs[i] = NoZone => ys[i] = NoZone
  BY DEF RealignAll
<1> HIDE DEF h
<1>5. ys \in [Zones -> DiffZone \cup {NoZone}]
  <2>1. \A i \in Zones : ys[i] \in DiffZone \cup {NoZone}
    BY <1>3, <1>4 DEF ZoneOK
  <2>2. ys = [i \in Zones |-> ys[i]]
    BY DEF RealignAll
  <2> HIDE DEF ys
  <2> QED BY <2>1, <2>2
<1> HIDE DEF ys
<1>6. ASSUME NEW i \in Zones, NEW j \in Zones, i # j, ys[i] # NoZone, ys[j] # NoZone
      PROVE  Apart(ys[i], ys[j].start, ys[j].end)
  <2>1. zs[i] # NoZone /\ zs[j] # NoZone
    BY <1>4, <1>6
  <2>2. Apart(zs[i], a, b) \/ Apart(zs[j], a, b)
    BY <1>6, <2>1 DEF Local
  <2>3. Apart(zs[i], zs[j].start, zs[j].end)
    BY <1>6, <2>1 DEF GoodZones
  <2> QED BY <1>1, <1>2, <1>3, <2>1, <2>2, <2>3, MovedApart
<1>7. p # <<>>
  <2>1. Len(p) >= 1
    BY <1>1, <1>2
  <2> QED BY <2>1, EmptySeq
<1>8. GoodZones(p, ys)
  BY <1>1, <1>3, <1>4, <1>5, <1>6, <1>7 DEF GoodZones
<1> QED BY <1>3, <1>4, <1>8 DEF ys, h, AllMoved

\* A write that is not skipped is done, and changes nothing when it writes the whole file as it is.
LEMMA WriteSplices ==
  ASSUME NEW s, s.file \in FileText, s.file # <<>>, NEW r, NEW text, ~WriteURIText(s, r, text).skipped
  PROVE  ~s.skipped /\ WriteURIText(s, r, text).file = Splice(s.file, r, text)
<1>1. /\ WriteURIText(s, r, text).file = IF text = s.file THEN s.file ELSE Splice(s.file, r, text)
      /\ WriteURIText(s, r, text).skipped = (s.skipped \/ (text = s.file /\ r # WholeLines(1, Len(s.file))))
  BY DEF WriteURIText
<1>2. Splice(s.file, WholeLines(1, Len(s.file)), s.file) = s.file
  <2> DEFINE f == s.file
             n == Len(f)
  <2>1. n \in Nat /\ n >= 1 /\ f \in FileText
    BY LenProperties, EmptySeq DEF FileText
  <2>2. 1 \in 1..Len(f) /\ n \in 1..Len(f)
    BY <2>1
  <2> HIDE DEF n
  <2>3. Splice(f, WholeLines(1, n), f) = Put(f, 1, n, f)
    BY <2>1, <2>2, SpliceLines
  <2> QED BY <2>1, <2>3, PutAll DEF n
<1> QED BY <1>1, <1>2

\* rejectDiff on a state with good zones
LEMMA RejectedIsGood ==
  ASSUME GoodZones(file, zone), NEW i \in Live, NEW d, IsDiff(zone[i], d), NEW s, s = DiffRejected(i, d), ~s.skipped
  PROVE  /\ GoodZones(s.file, s.zone)
         /\ s.file = Splice(file, RejectEdit(zone[i], d).range, RejectEdit(zone[i], d).text)
         /\ \A j \in Live \ {i} : s.zone[j] # NoZone /\ s.zone[j].orig = zone[j].orig
                                  /\ Code(s.file, s.zone[j]) = Code(file, zone[j])
<1> DEFINE e == RejectEdit(zone[i], d)
           z == zone[i]
           w == WriteURIText(FileState, e.range, e.text)
<1>1. FileState.file = file /\ FileState.zone = zone /\ ~FileState.skipped
  BY DEF FileState
<1>2. i \in Zones /\ z # NoZone /\ ZoneOK(file, z) /\ file \in FileText /\ file # <<>> /\ z \in DiffZone
  BY DEF Live, GoodZones, ZoneOK
<1>3. s = (IF SameAsOriginal(w, i) THEN WithoutZones(w, {i}) ELSE w)
  BY DEF DiffRejected
<1>4. s.file = w.file /\ s.skipped = w.skipped
  BY <1>3 DEF WithoutZones, WriteURIText
<1>5. w.zone = RealignAll(zone, e.text, e.range.l1, e.range.l2)
  BY <1>1 DEF WriteURIText
<1>6. w.file = Splice(file, e.range, e.text)
  BY <1>1, <1>2, <1>4, WriteSplices
<1>7. e.text \in FileText /\ Len(e.text) >= 1 /\ e.range.l1 \in z.start..z.end /\ e.range.l2 \in e.range.l1..z.end
  BY <1>2, RejectEdits
<1>8. z.start \in Nat /\ z.end \in Nat /\ Len(file) \in Nat /\ 1 <= z.start /\ z.end <= Len(file)
  BY <1>2, LenProperties DEF ZoneOK, DiffZone, FileText
<1> DEFINE a == e.range.l1
           b == e.range.l2
           t == e.text
           m == Mid(file, e.range, t)
<1>9. a \in 1..Len(file) /\ b \in a..Len(file) /\ b \in 1..Len(file) /\ z.start <= a /\ b <= z.end
  BY <1>7, <1>8
<1>10. t # <<>>
  BY <1>7, EmptySeq
<1>11. w.file = Put(file, a, b, m) /\ m \in FileText /\ Len(m) = Len(t)
  BY <1>2, <1>6, <1>7, <1>9, <1>10, SpliceIsPut, MidLines
<1> HIDE DEF e, w
<1>12. IsPut(w.file, file, a, b - a + 1, m, Len(t))
  <2> HIDE DEF a, b, m, t
  <2>1. a \in 1..(Len(file) + 1) /\ b \in (a - 1)..Len(file)
    BY <1>8, <1>9
  <2>2. IsPut(Put(file, a, b, m), file, a, b - a + 1, m, Len(m))
    BY <1>2, <1>11, <2>1, PutLines
  <2> QED BY <1>11, <2>2
<1>13. ASSUME NEW j \in Zones, j # i, zone[j] # NoZone PROVE Apart(zone[j], a, b)
  <2>1. Apart(zone[j], z.start, z.end) /\ zone[j].start \in Nat /\ zone[j].end \in Nat
    BY <1>2, <1>13 DEF GoodZones, ZoneOK, DiffZone
  <2> HIDE DEF a, b
  <2> QED BY <1>8, <1>9, <2>1 DEF Apart
<1>14. ASSUME NEW j \in Zones, zone[j] # NoZone PROVE ~(a < zone[j].start /\ zone[j].end < b)
  <2>1. zone[j].start \in Nat /\ zone[j].end \in Nat /\ zone[j].start <= zone[j].end
    BY <1>14 DEF GoodZones, ZoneOK, DiffZone
  <2>2. CASE j = i
    BY <1>8, <1>9, <2>2
  <2>3. CASE j # i
    BY <1>8, <1>9, <1>13, <1>14, <2>1, <2>3 DEF Apart
  <2> QED BY <2>2, <2>3
<1>15. \A k, j \in Zones : k # j /\ zone[k] # NoZone /\ zone[j] # NoZone => Apart(zone[k], a, b) \/ Apart(zone[j], a, b)
  BY <1>13
<1> HIDE DEF a, b, t, m
<1>16. /\ GoodZones(w.file, RealignAll(zone, t, a, b))
       /\ AllMoved(file, zone, w.file, RealignAll(zone, t, a, b), a, b, Len(t))
  <2>1. t \in FileText /\ Len(t) >= 1
    BY <1>7 DEF t
  <2>2. Local(zone, a, b)
    BY <1>14, <1>15 DEF Local
  <2> DEFINE p == w.file
  <2>3. Replaced(p, file, a, b, m, Len(t))
    BY <1>12 DEF Replaced
  <2> HIDE DEF p
  <2>4. a \in 1..Len(file) /\ b \in a..Len(file)
    BY <1>9
  <2>5. /\ GoodZones(p, RealignAll(zone, t, a, b))
        /\ AllMoved(file, zone, p, RealignAll(zone, t, a, b), a, b, Len(t))
    BY <2>1, <2>2, <2>3, <2>4, LinesRewritten
  <2> QED BY <2>5 DEF p
<1>17. w.zone = RealignAll(zone, t, a, b)
  BY <1>5 DEF t, a, b
<1>18. \A j \in Live \ {i} : w.zone[j] # NoZone /\ w.zone[j].orig = zone[j].orig /\ Code(w.file, w.zone[j]) = Code(file, zone[j])
  BY <1>13, <1>16, <1>17 DEF Live, Moved, AllMoved
<1>19. GoodZones(w.file, w.zone)
  BY <1>16, <1>17
<1>20. CASE s = w
  BY <1>6, <1>18, <1>19, <1>20 DEF e
<1>21. CASE s = WithoutZones(w, {i})
  <2>1. s.file = w.file /\ s.zone = [j \in Zones |-> IF j \in {i} THEN NoZone ELSE w.zone[j]]
    BY <1>21 DEF WithoutZones, w, WriteURIText
  <2>2. GoodZones(s.file, s.zone)
    BY <1>19, <2>1 DEF GoodZones
  <2> QED BY <1>6, <1>18, <2>1, <2>2 DEF e, Live
<1> QED BY <1>3, <1>20, <1>21

\* In such a state, what rejectDiff puts back is exact.
LEMMA GoodRejectsExactly ==
  ASSUME GoodZones(file, zone), \A i \in Zones : diffs[i] \in DiffsOf(file, zone[i])
  PROVE  RejectIsExact
<1> SUFFICES ASSUME NEW i \in Live, NEW d \in diffs[i], ~AtEnd(i, d), ~DiffRejected(i, d).skipped
             PROVE  RejectTakesBack(i, d)
  BY DEF RejectIsExact, RejectTakesBack
<1> DEFINE z == zone[i]
           e == RejectEdit(z, d)
<1>1. i \in Zones /\ z # NoZone /\ ZoneOK(file, z) /\ file \in FileText
  BY DEF Live, GoodZones
<1>2. IsDiff(z, d)
  BY <1>1, ShownDiffs
<1>3. DiffRejected(i, d).file = Splice(file, e.range, e.text)
  BY <1>2, RejectedIsGood
<1>4. ~(Insertion(d) /\ d.n2 = z.end)
  BY DEF AtEnd
<1>5. Splice(file, e.range, e.text) = Put(file, d.n1, d.n2, SubSeq(z.orig, d.o1, d.o2))
  BY <1>1, <1>2, <1>4, RejectEdits
<1>6. SubSeq(file, 1, z.start - 1) \o TakenBack(Code(file, z), z, d) \o SubSeq(file, z.end + 1, Len(file))
        = Put(file, d.n1, d.n2, SubSeq(z.orig, d.o1, d.o2))
  BY <1>1, <1>2, TakenBackIsPut
<1> QED BY <1>3, <1>5, <1>6 DEF RejectTakesBack

LEMMA WithoutSome ==
  ASSUME NEW f, NEW zs, GoodZones(f, zs), NEW S
  PROVE  GoodZones(f, [i \in Zones |-> IF i \in S THEN NoZone ELSE zs[i]])
<1> DEFINE ys == [i \in Zones |-> IF i \in S THEN NoZone ELSE zs[i]]
<1>1. ys \in [Zones -> DiffZone \cup {NoZone}]
  BY DEF GoodZones
<1>2. \A i \in Zones : ys[i] # NoZone => ys[i] = zs[i] /\ zs[i] # NoZone
  OBVIOUS
<1> HIDE DEF ys
<1>3. GoodZones(f, ys)
  BY <1>1, <1>2 DEF GoodZones
<1> QED BY <1>3 DEF ys

\* Whole lines written, of one zone at most
LEMMA WholeWritten ==
  ASSUME NEW s, GoodZones(s.file, s.zone), NEW text \in FileText, Len(text) >= 1,
         NEW a \in 1..Len(s.file), NEW b \in a..Len(s.file), Local(s.zone, a, b),
         NEW w, w = WriteURIText(s, WholeLines(a, b), text), ~w.skipped
  PROVE  /\ ~s.skipped
         /\ w.file = Put(s.file, a, b, text)
         /\ Replaced(w.file, s.file, a, b, text, Len(text))
         /\ w.zone = RealignAll(s.zone, text, a, b)
         /\ GoodZones(w.file, w.zone)
         /\ AllMoved(s.file, s.zone, w.file, w.zone, a, b, Len(text))
<1>1. s.file \in FileText /\ s.file # <<>> /\ Len(s.file) \in Nat /\ text # <<>>
  BY LenProperties, EmptySeq DEF GoodZones, FileText
<1> DEFINE r == WholeLines(a, b)
<1>2. ~s.skipped /\ w.file = Splice(s.file, r, text)
  BY <1>1, WriteSplices
<1>3. Splice(s.file, r, text) = Put(s.file, a, b, text)
  BY <1>1, SpliceLines
<1>4. w.zone = RealignAll(s.zone, text, a, b)
  BY DEF WriteURIText, WholeLines, Span
<1>5. a \in 1..(Len(s.file) + 1) /\ b \in (a - 1)..Len(s.file)
  BY <1>1
<1>6. Replaced(w.file, s.file, a, b, text, Len(text))
  BY <1>1, <1>2, <1>3, <1>5, PutLines DEF Replaced
<1> DEFINE p == w.file
           f == s.file
           zs == s.zone
<1>7. Replaced(p, f, a, b, text, Len(text)) /\ GoodZones(f, zs) /\ Local(zs, a, b) /\ a \in 1..Len(f) /\ b \in a..Len(f)
  BY <1>6
<1> HIDE DEF p, f, zs
<1>8. /\ GoodZones(p, RealignAll(zs, text, a, b))
      /\ AllMoved(f, zs, p, RealignAll(zs, text, a, b), a, b, Len(text))
  BY <1>7, LinesRewritten
<1> QED BY <1>2, <1>3, <1>4, <1>6, <1>8 DEF p, f, zs

LEMMA NotTwo ==
  ASSUME NEW i \in Zones, NEW j \in Zones, i # j, NEW S \in SUBSET Zones, i \in S, j \in S
  PROVE  ~(Cardinality(S) <= 1)
<1>1. IsFiniteSet(Zones)
  BY ReviewAssumption, FS_Interval DEF Zones
<1>2. IsFiniteSet(S)
  BY <1>1, FS_Subset
<1>3. Cardinality({i, j}) = 2 /\ IsFiniteSet({i, j})
  <2>1. IsFiniteSet({i}) /\ Cardinality({i}) = 1
    BY FS_Singleton
  <2>2. {i, j} = {i} \cup {j} /\ j \notin {i}
    OBVIOUS
  <2> QED BY <2>1, <2>2, FS_AddElement
<1>4. Cardinality({i, j}) <= Cardinality(S)
  BY <1>2, FS_Subset
<1>5. Cardinality(S) \in Nat
  BY <1>2, FS_CardinalityType
<1> QED BY <1>3, <1>4, <1>5

LEMMA OneZoneIsLocal ==
  ASSUME NEW a, NEW b, InOneZone(a, b), \A i \in Live : ~Around(i, a, b)
  PROVE  Local(zone, a, b)
<1>1. \A i \in Zones : zone[i] # NoZone => ~(a < zone[i].start /\ zone[i].end < b)
  BY DEF Around, Live
<1>2. ASSUME NEW i \in Zones, NEW j \in Zones, i # j, zone[i] # NoZone, zone[j] # NoZone,
             ~Apart(zone[i], a, b), ~Apart(zone[j], a, b)
      PROVE FALSE
  <2> DEFINE S == {k \in Live : ~Apart(zone[k], a, b)}
  <2>1. S \in SUBSET Zones /\ i \in S /\ j \in S
    BY <1>2 DEF Live
  <2>2. Cardinality(S) <= 1
    BY DEF InOneZone
  <2> HIDE DEF S
  <2> QED BY <1>2, <2>1, <2>2, NotTwo
<1> QED BY <1>1, <1>2 DEF Local

\* What the user types or deletes in good zones leaves good zones.
LEMMA TypedIsGood ==
  ASSUME GoodZones(file, zone), NEW r, NEW text \in FileText, Len(text) >= 1, NEW a \in 1..Len(file), NEW b \in a..Len(file),
         r.l1 = a, r.l2 = b, Local(zone, a, b), NEW m,
         Replaced(Splice(file, r, text), file, a, b, m, Len(text)), NEW s, s = Typed(r, text)
  PROVE  GoodZones(s.file, s.zone)
<1> DEFINE p == Splice(file, r, text)
           ys == RealignAll(zone, text, a, b)
           w == [FileState EXCEPT !.file = Splice(@, r, text), !.zone = RealignAll(@, text, r.l1, r.l2)]
           S == {i \in Zones : SameAsOriginal(w, i)}
<1>1. w = [file |-> p, zone |-> ys, skipped |-> FALSE]
  <2>1. FileState = [file |-> file, zone |-> zone, skipped |-> FALSE]
    BY DEF FileState
  <2>2. w = [FileState EXCEPT !.file = Splice(file, r, text), !.zone = RealignAll(zone, text, r.l1, r.l2)]
    BY <2>1
  <2>3. RealignAll(zone, text, r.l1, r.l2) = ys
    OBVIOUS
  <2> HIDE DEF w, p, ys
  <2>4. w = [FileState EXCEPT !.file = p, !.zone = ys]
    BY <2>2, <2>3 DEF p
  <2> QED BY <2>1, <2>4
<1>2. s = [w EXCEPT !.zone = [i \in Zones |-> IF i \in S THEN NoZone ELSE @[i]]]
  BY DEF Typed, WithoutZones
<1> HIDE DEF S, w, p, ys
<1>3. s.file = p /\ s.zone = [i \in Zones |-> IF i \in S THEN NoZone ELSE ys[i]]
  BY <1>1, <1>2
<1>4. GoodZones(p, ys)
  <2>1. Replaced(p, file, a, b, m, Len(text))
    BY DEF p
  <2> QED BY <2>1, LinesRewritten DEF ys
<1>5. GoodZones(p, [i \in Zones |-> IF i \in S THEN NoZone ELSE ys[i]])
  BY <1>4, WithoutSome
<1> QED BY <1>3, <1>5

\* Where zone j is after the user has changed other lines
LEMMA TypedKeeps ==
  ASSUME GoodZones(file, zone), NEW j \in Live, NEW r, NEW text, NEW y, y = Realigned(zone[j], text, r.l1, r.l2),
         y # NoZone, y.orig = zone[j].orig, Code(Splice(file, r, text), y) = Code(file, zone[j])
  PROVE  KeepsLines(j, Typed(r, text))
<1> DEFINE p == Splice(file, r, text)
           ys == RealignAll(zone, text, r.l1, r.l2)
           w == [FileState EXCEPT !.file = Splice(@, r, text), !.zone = RealignAll(@, text, r.l1, r.l2)]
           S == {i \in Zones : SameAsOriginal(w, i)}
           s == Typed(r, text)
<1>1. w = [file |-> p, zone |-> ys, skipped |-> FALSE]
  <2>1. FileState = [file |-> file, zone |-> zone, skipped |-> FALSE]
    BY DEF FileState
  <2>2. w = [FileState EXCEPT !.file = Splice(file, r, text), !.zone = RealignAll(zone, text, r.l1, r.l2)]
    BY <2>1
  <2>3. RealignAll(zone, text, r.l1, r.l2) = ys
    OBVIOUS
  <2> HIDE DEF w, p, ys
  <2>4. w = [FileState EXCEPT !.file = p, !.zone = ys]
    BY <2>2, <2>3 DEF p
  <2> QED BY <2>1, <2>4
<1>2. s = [w EXCEPT !.zone = [i \in Zones |-> IF i \in S THEN NoZone ELSE @[i]]]
  BY DEF Typed, WithoutZones
<1>3. ys[j] = y /\ j \in Zones /\ zone[j] # NoZone
  BY DEF RealignAll, Live
<1>4. j \in S <=> SameAsOriginal(w, j)
  BY <1>3
<1> HIDE DEF S, w, p, ys, s
<1>5. s.file = p /\ s.zone[j] = IF j \in S THEN NoZone ELSE y
  BY <1>1, <1>2, <1>3
<1>6. j \in S => SameAsOriginal(FileState, j)
  BY <1>1, <1>3, <1>4 DEF SameAsOriginal, FileState, p
<1> QED BY <1>3, <1>5, <1>6 DEF KeepsLines, p, s

LEMMA TextsAreTexts ==
  ASSUME NEW n \in Nat, NEW text \in Texts(n)
  PROVE  text \in FileText /\ Len(text) \in 1..n /\ text # <<>>
<1>1. PICK k \in 1..n : text \in [1..k -> Lines]
  BY DEF Texts
<1>2. Lines \subseteq Line
  <2>1. <<>> \in Seq(Atoms)
    BY EmptySeq
  <2>2. \A a \in Atoms : <<a>> \in Seq(Atoms)
    OBVIOUS
  <2> QED BY <2>1, <2>2 DEF Lines, Line
<1>3. text \in FileText /\ Len(text) = k
  <2>1. k \in Nat
    OBVIOUS
  <2>2. text \in [1..k -> Line]
    BY <1>1, <1>2
  <2>3. text \in FileText
    BY <2>1, <2>2, SeqDef DEF FileText
  <2> QED BY <1>1, <2>1, <2>3, LenProperties DEF FileText
<1> QED BY <1>3, EmptySeq

LEMMA EmptyText == Empty \in FileText /\ Len(Empty) = 1
BY EmptySeq DEF Empty, FileText, Line

\* In good zones, what happens elsewhere in the file leaves a zone with its lines.
LEMMA GoodZonesKeepTheirLines ==
  ASSUME GoodZones(file, zone), \A i \in Zones : diffs[i] \in DiffsOf(file, zone[i])
  PROVE  ZoneKeepsItsLines
<1>1. file \in FileText /\ file # <<>> /\ Len(file) \in Nat
  BY LenProperties DEF GoodZones, FileText
<1>2. ASSUME NEW j \in Live
      PROVE  /\ j \in Zones /\ zone[j] # NoZone /\ ZoneOK(file, zone[j]) /\ zone[j] \in DiffZone
             /\ zone[j].start \in Nat /\ zone[j].end \in Nat /\ 1 <= zone[j].start /\ zone[j].start <= zone[j].end
             /\ zone[j].end <= Len(file)
  BY DEF Live, GoodZones, ZoneOK, DiffZone
<1>3. ASSUME NEW j \in Live, NEW i \in Live \ {j}, NEW d \in diffs[i] PROVE KeepsLines(j, DiffAccepted(i, d))
  <2>1. FileState.file = file /\ FileState.zone = zone
    BY DEF FileState
  <2>2. zone \in [Zones -> DiffZone \cup {NoZone}] /\ i \in Zones /\ j \in Zones /\ zone[j] # NoZone
    BY DEF GoodZones, Live
  <2>3. \/ DiffAccepted(i, d) = WithoutZones(FileState, {i})
        \/ \E orig : DiffAccepted(i, d) = [FileState EXCEPT !.zone[i].orig = orig]
    BY DEF DiffAccepted
  <2>4. CASE DiffAccepted(i, d) = WithoutZones(FileState, {i})
    BY <2>1, <2>2, <2>4 DEF WithoutZones, KeepsLines, FileState
  <2>5. CASE \E orig : DiffAccepted(i, d) = [FileState EXCEPT !.zone[i].orig = orig]
    <3>1. PICK orig : DiffAccepted(i, d) = [FileState EXCEPT !.zone[i].orig = orig]
      BY <2>5
    <3>2. DiffAccepted(i, d).file = file /\ DiffAccepted(i, d).zone = [zone EXCEPT ![i].orig = orig]
      BY <3>1 DEF FileState
    <3>3. DiffAccepted(i, d).zone[j] = zone[j]
      BY <2>2, <3>2
    <3> QED BY <2>2, <3>2, <3>3 DEF KeepsLines
  <2> QED BY <2>3, <2>4, <2>5
<1>4. ASSUME NEW j \in Live, NEW i \in Live \ {j}, NEW d \in diffs[i] PROVE KeepsLines(j, DiffRejected(i, d))
  <2>1. CASE DiffRejected(i, d).skipped
    BY <2>1 DEF KeepsLines
  <2>2. CASE ~DiffRejected(i, d).skipped
    <3>1. IsDiff(zone[i], d)
      BY <1>1, <1>2, ShownDiffs
    <3>2. j \in Live \ {i}
      OBVIOUS
    <3>3. /\ DiffRejected(i, d).zone[j] # NoZone /\ DiffRejected(i, d).zone[j].orig = zone[j].orig
          /\ Code(DiffRejected(i, d).file, DiffRejected(i, d).zone[j]) = Code(file, zone[j])
      BY <2>2, <3>1, <3>2, RejectedIsGood
    <3> QED BY <3>3 DEF KeepsLines
  <2> QED BY <2>1, <2>2
<1>5. ASSUME NEW j \in Live, NEW a \in 1..Len(file), NEW b \in a..Len(file), Apart(zone[j], a, b),
             NEW text \in Texts(MaxNew)
      PROVE  /\ Splice(file, WholeLines(a, b), text) = Put(file, a, b, text)
             /\ Moved(Realigned(zone[j], text, a, b), zone[j], a, b, Len(text))
             /\ Code(Put(file, a, b, text), Realigned(zone[j], text, a, b)) = Code(file, zone[j])
  <2>1. text \in FileText /\ Len(text) >= 1 /\ Len(text) \in Nat /\ text # <<>>
    BY ReviewAssumption, TextsAreTexts
  <2>2. Splice(file, WholeLines(a, b), text) = Put(file, a, b, text)
    BY <1>1, <2>1, SpliceLines
  <2> DEFINE z == zone[j]
             y == Realigned(z, text, a, b)
             h == Len(text)
             p == Put(file, a, b, text)
  <2>3. ~(a < z.start /\ z.end < b) /\ a \in Nat /\ b \in Nat /\ 1 <= a /\ a <= b
    BY <1>1, <1>2, <1>5 DEF Apart
  <2>4. Moved(y, z, a, b, h)
    BY <1>2, <2>1, <2>3, RealignMoves
  <2>5. Replaced(p, file, a, b, text, h)
    <3>1. a \in 1..(Len(file) + 1) /\ b \in (a - 1)..Len(file)
      BY <1>1
    <3> QED BY <1>1, <2>1, <3>1, PutLines DEF Replaced
  <2> HIDE DEF z, y, h, p
  <2>6. Code(p, y) = Code(file, z)
    <3>1. ZoneOK(file, z) /\ Apart(z, a, b)
      BY <1>2, <1>5 DEF z
    <3>2. h \in Nat \ {0}
      BY <2>1 DEF h
    <3> QED BY <1>1, <2>4, <2>5, <3>1, <3>2, ApartKeeps
  <2> QED BY <2>2, <2>4, <2>6 DEF z, y, h, p
<1>6. ASSUME NEW j \in Live, NEW a \in 1..Len(file), NEW b \in a..Len(file), Apart(zone[j], a, b),
             NEW text \in Texts(MaxNew)
      PROVE  KeepsLines(j, Typed(WholeLines(a, b), text))
  <2> DEFINE r == WholeLines(a, b)
             y == Realigned(zone[j], text, a, b)
  <2>1. r.l1 = a /\ r.l2 = b
    BY DEF WholeLines, Span
  <2>2. y # NoZone /\ y.orig = zone[j].orig /\ Code(Splice(file, r, text), y) = Code(file, zone[j])
    BY <1>5, <1>6, NotAZone DEF Moved
  <2>3. y = Realigned(zone[j], text, r.l1, r.l2)
    BY <2>1
  <2> HIDE DEF r, y
  <2>4. KeepsLines(j, Typed(r, text))
    BY <2>2, <2>3, TypedKeeps
  <2> QED BY <2>4 DEF r
<1>7. ASSUME NEW j \in Live, NEW a \in 1..Len(file), NEW b \in a..Len(file), Apart(zone[j], a, b), b < Len(file)
      PROVE  KeepsLines(j, Deleted(a, b))
  <2> DEFINE c == b + 1
             r == Span(a, "start", c, "start")
             z == zone[j]
             y == Realigned(z, Empty, a, c)
             p == Splice(file, r, Empty)
             m == <<file[c]>>
  <2>1. r.l1 = a /\ r.l2 = c
    BY DEF Span
  <2>2. c \in a..Len(file) /\ c \in Nat /\ a \in Nat /\ 1 <= a /\ a <= c /\ b \in Nat /\ b \in a..(Len(file) - 1)
    BY <1>1, <1>7
  <2>3. p = Put(file, a, c, m)
    BY <1>1, <2>2, SpliceDelete
  <2>4. m \in FileText /\ Len(m) = 1
    <3>1. file[c] \in Line
      BY <1>1, <2>2, ElementOfSeq DEF FileText
    <3> QED BY <3>1 DEF FileText
  <2>5. Replaced(p, file, a, c, m, 1)
    <3> HIDE DEF c, m, p
    <3>1. a \in 1..(Len(file) + 1) /\ c \in (a - 1)..Len(file)
      BY <1>1, <2>2
    <3> QED BY <1>1, <2>3, <2>4, <3>1, PutLines DEF Replaced
  <2>6. ~(a < z.start /\ z.end < c)
    BY <1>1, <1>2, <1>7 DEF Apart
  <2>7. Moved(y, z, a, c, 1)
    <3>1. Len(Empty) >= 1 /\ Empty \in FileText /\ Len(Empty) = 1
      BY EmptyText
    <3>2. z \in DiffZone /\ 1 <= z.start /\ z.start <= z.end /\ c \in Nat /\ a \in Nat /\ 1 <= a /\ a <= c
      BY <1>2, <2>2
    <3> HIDE DEF c, z
    <3>3. Moved(Realigned(z, Empty, a, c), z, a, c, Len(Empty))
      BY <2>6, <3>1, <3>2, RealignMoves
    <3> QED BY <3>1, <3>3
  <2>8. Code(p, y) = Code(file, z)
    <3>1. CASE z.start = b + 1
      <4>1. IsPut(p, file, a, b + 1 - a + 1, <<file[b + 1]>>, 1) /\ Moved(y, z, a, b + 1, 1)
        BY <2>5, <2>7 DEF Replaced
      <4> HIDE DEF p, y, z
      <4> QED BY <1>1, <1>2, <2>2, <3>1, <4>1, DeleteKeeps DEF z
    <3>2. CASE z.start # b + 1
      <4>1. Apart(z, a, c)
        BY <1>1, <1>2, <1>7, <2>2, <3>2 DEF Apart
      <4> HIDE DEF p, y, z, c, m
      <4> QED BY <1>1, <1>2, <2>2, <2>5, <2>7, <4>1, ApartKeeps DEF z
    <3> QED BY <3>1, <3>2
  <2>9. y # NoZone /\ y.orig = zone[j].orig /\ y = Realigned(zone[j], Empty, r.l1, r.l2)
    BY <2>1, <2>7, NotAZone DEF Moved
  <2> HIDE DEF r, y
  <2>10. KeepsLines(j, Typed(r, Empty))
    BY <2>8, <2>9, TypedKeeps
  <2> QED BY <2>10 DEF r, Deleted
<1>8. ASSUME NEW j \in Live, NEW i \in Zones, FreshZone(i), NEW a \in 1..Len(file), NEW b \in a..Len(file),
             NEW text \in Texts(MaxNew), \A k \in Live : Apart(zone[k], a, b)
      PROVE  KeepsLines(j, QuickEdited(i, a, b, text))
  <2> DEFINE s == QuickEdited(i, a, b, text)
             new == [start |-> a, end |-> b, orig |-> SubSeq(file, a, b)]
             w == [FileState EXCEPT !.zone[i] = new]
             r == WholeLines(a, b)
  <2>1. w.file = file /\ w.zone = [zone EXCEPT ![i] = new] /\ w.skipped = FALSE
    BY DEF FileState
  <2>2. s = WriteURIText(w, r, text)
    BY DEF QuickEdited, ZoneWritten
  <2>3. r.l1 = a /\ r.l2 = b
    BY DEF WholeLines, Span
  <2> HIDE DEF w, s, r, new
  <2>4. w.zone[j] = zone[j] /\ j \in Zones /\ zone[j] # NoZone
    <3>1. i # j
      BY <1>8 DEF FreshZone
    <3> QED BY <1>2, <2>1, <3>1 DEF GoodZones
  <2>5. s.zone[j] = Realigned(zone[j], text, a, b)
    BY <2>2, <2>3, <2>4 DEF WriteURIText, RealignAll
  <2>6. CASE s.skipped
    BY <2>6 DEF KeepsLines, s
  <2>7. CASE ~s.skipped
    <3>1. s.file = Splice(file, r, text)
      BY <1>1, <2>1, <2>2, <2>7, WriteSplices
    <3>2. /\ Splice(file, r, text) = Put(file, a, b, text)
          /\ Moved(Realigned(zone[j], text, a, b), zone[j], a, b, Len(text))
          /\ Code(Put(file, a, b, text), Realigned(zone[j], text, a, b)) = Code(file, zone[j])
      BY <1>5, <1>8 DEF r
    <3>3. s.zone[j] # NoZone /\ s.zone[j].orig = zone[j].orig
      BY <2>5, <3>2, NotAZone DEF Moved
    <3>4. Code(s.file, s.zone[j]) = Code(file, zone[j])
      BY <2>5, <3>1, <3>2
    <3> QED BY <3>3, <3>4 DEF KeepsLines, s
  <2> QED BY <2>6, <2>7
<1>9. \A r \in LineRanges : r[1] \in 1..Len(file) /\ r[2] \in r[1]..Len(file)
  BY <1>1 DEF LineRanges
<1> QED BY <1>3, <1>4, <1>6, <1>7, <1>8, <1>9 DEF ZoneKeepsItsLines

-----------------------------------------------------------------------------
\* The file before its zones

\* v is what lines 1..l of the file were, if g gives the same for what is in front of it.
ReadsLine(g, f, zs, l, v) ==
  /\ (\A i \in Zones : zs[i] # NoZone => zs[i].end # l) => v = Append(g[l - 1], f[l])
  /\ \A i \in Zones : zs[i] # NoZone /\ zs[i].end = l =>
       /\ zs[i].start - 1 \in 0..(l - 1) /\ zs[i].orig \in FileText
       /\ v = g[zs[i].start - 1] \o zs[i].orig

\* g[l] is what lines 1..l of the file were, zone by zone.
ReadsBack(g, f, zs) ==
  /\ g[0] = <<>>
  /\ \A l \in 1..Len(f) : ReadsLine(g, f, zs, l, g[l])
  /\ \A l \in 0..Len(f) : g[l] \in FileText

Ending(zs, l) == {i \in Zones : zs[i] # NoZone /\ zs[i].end = l}

\* One step of the function that OriginalFile defines
ReadLine(g, f, zs, l) ==
  LET ending == Ending(zs, l)
  IN IF l = 0 THEN <<>>
     ELSE IF ending = {} THEN Append(g[l - 1], f[l])
     ELSE LET z == zs[CHOOSE i \in ending : TRUE] IN g[z.start - 1] \o z.orig

\* In good zones at most one ends at a line, and the step reads only what is in front of it.
LEMMA ReadLineStep ==
  ASSUME NEW f, NEW zs, GoodZones(f, zs), NEW l \in 1..Len(f), NEW g
  PROVE  ReadsLine(g, f, zs, l, ReadLine(g, f, zs, l))
<1>1. l # 0 /\ l \in Nat
  BY LenProperties DEF GoodZones, FileText
<1>2. (\A i \in Zones : zs[i] # NoZone => zs[i].end # l) => Ending(zs, l) = {}
  BY DEF Ending
<1>3. ASSUME NEW i \in Zones, zs[i] # NoZone, zs[i].end = l
      PROVE  /\ zs[i].start - 1 \in 0..(l - 1) /\ zs[i].orig \in FileText
             /\ ReadLine(g, f, zs, l) = g[zs[i].start - 1] \o zs[i].orig
  <2>1. zs[i].start \in Nat /\ 1 <= zs[i].start /\ zs[i].start <= l /\ zs[i].orig \in FileText
    BY <1>3 DEF GoodZones, ZoneOK, DiffZone
  <2>2. Ending(zs, l) # {}
    BY <1>3 DEF Ending
  <2>3. ASSUME NEW j \in Ending(zs, l) PROVE j = i
    <3>1. j \in Zones /\ zs[j] # NoZone /\ zs[j].end = l
      BY DEF Ending
    <3>2. zs[j].start \in Nat /\ zs[j].start <= l
      BY <3>1 DEF GoodZones, ZoneOK, DiffZone
    <3>3. ~Apart(zs[i], zs[j].start, zs[j].end)
      BY <1>1, <1>3, <2>1, <3>1, <3>2 DEF Apart
    <3> QED BY <1>3, <3>1, <3>3 DEF GoodZones
  <2>4. (CHOOSE j \in Ending(zs, l) : TRUE) = i
    BY <2>2, <2>3
  <2>5. ReadLine(g, f, zs, l) = g[zs[i].start - 1] \o zs[i].orig
    BY <1>1, <2>2, <2>4 DEF ReadLine
  <2> QED BY <1>1, <2>1, <2>5
<1>4. (\A i \in Zones : zs[i] # NoZone => zs[i].end # l) => ReadLine(g, f, zs, l) = Append(g[l - 1], f[l])
  BY <1>1, <1>2 DEF ReadLine
<1> QED BY <1>3, <1>4 DEF ReadsLine

\* g is read up to line n.
ReadUpTo(g, f, zs, n) ==
  /\ g = [l \in 0..n |-> g[l]]
  /\ \A l \in 0..n : g[l] = ReadLine(g, f, zs, l)

LEMMA ReadingExists ==
  ASSUME NEW f, NEW zs, GoodZones(f, zs)
  PROVE  \E g : ReadUpTo(g, f, zs, Len(f))
<1> DEFINE T == {n \in 0..Len(f) : \E g : ReadUpTo(g, f, zs, n)}
<1>1. f \in FileText /\ Len(f) \in Nat
  BY LenProperties DEF GoodZones, FileText
<1>2. ASSUME NEW n \in 0..Len(f), (0..(n - 1)) \subseteq T PROVE n \in T
  <2>1. n \in Nat
    BY <1>1
  <2>2. CASE n = 0
    <3> DEFINE g == [l \in 0..0 |-> <<>>]
    <3>1. g = [l \in 0..0 |-> g[l]] /\ g[0] = <<>>
      OBVIOUS
    <3> HIDE DEF g
    <3>3. ReadUpTo(g, f, zs, 0)
      BY <3>1 DEF ReadUpTo, ReadLine
    <3> QED BY <2>2, <3>3
  <2>3. CASE n # 0
    <3>1. n - 1 \in 0..(n - 1) /\ n \in 1..Len(f)
      BY <1>1, <2>1, <2>3
    <3>2. PICK k : ReadUpTo(k, f, zs, n - 1)
      BY <1>2, <3>1
    <3> DEFINE g == [l \in 0..n |-> IF l = n THEN ReadLine(k, f, zs, n) ELSE k[l]]
    <3>3. g = [l \in 0..n |-> g[l]]
      OBVIOUS
    <3>4. \A l \in 0..(n - 1) : g[l] = k[l]
      BY <2>1
    <3>5. g[n] = ReadLine(k, f, zs, n)
      BY <2>1
    <3> HIDE DEF g
    <3>6. ASSUME NEW l \in 0..n PROVE ReadLine(g, f, zs, l) = ReadLine(k, f, zs, l)
      <4>1. CASE l = 0
        BY <4>1 DEF ReadLine
      <4>2. CASE l # 0
        <5>1. l \in 1..Len(f) /\ l - 1 \in 0..(n - 1) /\ 0..(l - 1) \subseteq 0..(n - 1)
          BY <1>1, <2>1, <4>2
        <5>2. ReadsLine(g, f, zs, l, ReadLine(g, f, zs, l)) /\ ReadsLine(k, f, zs, l, ReadLine(k, f, zs, l))
          BY <5>1, ReadLineStep
        <5> DEFINE v == ReadLine(g, f, zs, l)
                   w == ReadLine(k, f, zs, l)
        <5>3. ReadsLine(g, f, zs, l, v) /\ ReadsLine(k, f, zs, l, w)
          BY <5>2
        <5> HIDE DEF v, w
        <5>4. CASE \A i \in Zones : zs[i] # NoZone => zs[i].end # l
          <6>1. v = Append(g[l - 1], f[l]) /\ w = Append(k[l - 1], f[l])
            BY <5>3, <5>4 DEF ReadsLine
          <6> QED BY <3>4, <5>1, <6>1 DEF v, w
        <5>5. CASE \E i \in Zones : zs[i] # NoZone /\ zs[i].end = l
          <6>1. PICK i \in Zones : zs[i] # NoZone /\ zs[i].end = l
            BY <5>5
          <6> DEFINE m == zs[i].start - 1
          <6>2. m \in 0..(l - 1) /\ v = g[m] \o zs[i].orig /\ w = k[m] \o zs[i].orig
            BY <5>3, <6>1 DEF ReadsLine
          <6> HIDE DEF m
          <6> QED BY <3>4, <5>1, <6>2 DEF v, w
        <5> QED BY <5>4, <5>5
      <4> QED BY <4>1, <4>2
    <3>8. ASSUME NEW l \in 0..n PROVE g[l] = ReadLine(g, f, zs, l)
      <4>1. CASE l = n
        BY <3>5, <3>6, <4>1
      <4>2. CASE l # n
        <5>1. l \in 0..(n - 1)
          BY <2>1, <4>2
        <5> QED BY <3>2, <3>4, <3>6, <5>1 DEF ReadUpTo
      <4> QED BY <4>1, <4>2
    <3> QED BY <3>3, <3>8 DEF ReadUpTo
  <2> QED BY <2>2, <2>3
<1> HIDE DEF T
<1>3. 0..Len(f) \subseteq T
  BY <1>1, <1>2, UpTo
<1> QED BY <1>1, <1>3 DEF T

\* OriginalFile is such a reading.
LEMMA OriginalReads ==
  ASSUME NEW f, NEW zs, GoodZones(f, zs)
  PROVE  \E g : ReadsBack(g, f, zs) /\ OriginalFile(f, zs) = g[Len(f)]
<1> DEFINE Body(g) == [l \in 0..Len(f) |-> ReadLine(g, f, zs, l)]
           u == CHOOSE g : g = Body(g)
<1>1. OriginalFile(f, zs) = u[Len(f)]
  BY DEF OriginalFile, ReadLine, Ending
<1>2. f \in FileText /\ Len(f) \in Nat
  BY LenProperties DEF GoodZones, FileText
<1>3. \E g : g = Body(g)
  <2>1. PICK g : ReadUpTo(g, f, zs, Len(f))
    BY ReadingExists
  <2>2. g = Body(g)
    BY <2>1 DEF ReadUpTo
  <2> QED BY <2>2
<1>4. u = Body(u)
  BY <1>3
<1> HIDE DEF u
<1>5. u = [l \in 0..Len(f) |-> u[l]] /\ \A l \in 0..Len(f) : u[l] = ReadLine(u, f, zs, l)
  BY <1>4
<1> HIDE DEF Body
<1>6. u[0] = <<>>
  BY <1>2, <1>5 DEF ReadLine
<1>7. ASSUME NEW l \in 1..Len(f) PROVE ReadsLine(u, f, zs, l, u[l])
  <2>1. u[l] = ReadLine(u, f, zs, l)
    BY <1>2, <1>5
  <2>2. ReadsLine(u, f, zs, l, ReadLine(u, f, zs, l))
    BY ReadLineStep
  <2> QED BY <2>1, <2>2
<1>8. \A l \in 0..Len(f) : u[l] \in FileText
  <2> DEFINE T == {l \in 0..Len(f) : u[l] \in FileText}
  <2>1. ASSUME NEW l \in 0..Len(f), (0..(l - 1)) \subseteq T PROVE l \in T
    <3>0. l \in Nat
      BY <1>2
    <3>1. CASE l = 0
      BY <1>6, <3>1, EmptySeq DEF FileText
    <3>2. CASE l # 0
      <4>1. l \in 1..Len(f) /\ l - 1 \in 0..(l - 1)
        BY <1>2, <3>0, <3>2
      <4>1a. ReadsLine(u, f, zs, l, u[l])
        BY <1>7, <4>1
      <4>2. CASE \A i \in Zones : zs[i] # NoZone => zs[i].end # l
        <5> DEFINE v == u[l - 1]
                   x == f[l]
        <5>1. u[l] = Append(v, x)
          BY <4>1a, <4>2 DEF ReadsLine
        <5>2. x \in Line /\ v \in FileText
          BY <1>2, <2>1, <4>1, ElementOfSeq DEF FileText
        <5> HIDE DEF v, x
        <5>3. Append(v, x) \in FileText
          BY <5>2, AppendProperties DEF FileText
        <5> QED BY <5>1, <5>3
      <4>3. CASE \E i \in Zones : zs[i] # NoZone /\ zs[i].end = l
        <5>1. PICK i \in Zones : zs[i] # NoZone /\ zs[i].end = l
          BY <4>3
        <5> DEFINE m == zs[i].start - 1
                   o == zs[i].orig
        <5>2. m \in 0..(l - 1) /\ o \in FileText /\ u[l] = u[m] \o o
          BY <4>1a, <5>1 DEF ReadsLine
        <5> HIDE DEF m, o
        <5>3. u[m] \in FileText
          BY <2>1, <5>2
        <5> DEFINE v == u[m]
        <5>4. v \in FileText /\ u[l] = v \o o
          BY <5>2, <5>3
        <5> HIDE DEF v
        <5>5. v \o o \in FileText
          BY <5>2, <5>4, ConcatProperties DEF FileText
        <5> QED BY <5>4, <5>5
      <4> QED BY <4>2, <4>3
    <3> QED BY <3>1, <3>2
  <2> HIDE DEF T
  <2>2. 0..Len(f) \subseteq T
    BY <1>2, <2>1, UpTo
  <2> QED BY <2>2 DEF T
<1>9. ReadsBack(u, f, zs)
  BY <1>5, <1>6, <1>7, <1>8 DEF ReadsBack
<1> QED BY <1>1, <1>9

\* The first lines of a text, and one more
LEMMA OneMoreLine ==
  ASSUME NEW v \in FileText, NEW o \in FileText, NEW k \in 1..Len(o)
  PROVE  Append(v \o SubSeq(o, 1, k - 1), o[k]) = v \o SubSeq(o, 1, k)
<1>1. Len(o) \in Nat /\ k \in Nat
  BY LenProperties DEF FileText
<1> DEFINE c == SubSeq(o, 1, k - 1)
           x == o[k]
<1>2. c \in FileText
  <2> DEFINE j == k - 1
  <2>1. 1 \in 1..(Len(o) + 1) /\ j \in (1 - 1)..Len(o)
    BY <1>1
  <2> HIDE DEF j
  <2>2. SubSeq(o, 1, j) \in FileText
    BY <2>1, SubText
  <2> QED BY <2>2 DEF j
<1>3. x \in Line /\ <<x>> \in FileText
  <2>1. x \in Line
    BY <1>1, ElementOfSeq DEF FileText
  <2> QED BY <2>1 DEF FileText
<1>4. SubSeq(o, 1, k) = c \o <<x>>
  <2>1. 1 \in 1..Len(o) /\ k \in 1..Len(o)
    BY <1>1
  <2> QED BY <2>1, SubSeqRecursiveSecond DEF FileText
<1> HIDE DEF c, x
<1> DEFINE u == v \o c
<1>5. u \in FileText
  BY <1>2, ConcatProperties DEF FileText
<1>6. u \o <<x>> = v \o (c \o <<x>>)
  BY <1>2, <1>3, ConcatAssociative DEF FileText
<1> HIDE DEF u
<1>7. Append(u, x) = u \o <<x>>
  BY <1>3, <1>5, AppendIsConcat DEF FileText
<1>8. Append(u, x) = v \o SubSeq(o, 1, k)
  BY <1>4, <1>6, <1>7
<1> QED BY <1>8 DEF u, c, x

\* The zones ys are the zones zs but for zone i, whose d lines became h lines.
OthersMoved(zs, ys, i, s, e, d, h) ==
  /\ ys[i] = NoZone
  /\ \A j \in Zones \ {i} :
       /\ zs[j] = NoZone <=> ys[j] = NoZone
       /\ zs[j] # NoZone =>
            /\ zs[j].start \in Nat /\ zs[j].end \in Nat /\ 1 <= zs[j].start /\ zs[j].start <= zs[j].end
            /\ ys[j].orig = zs[j].orig
            /\ \/ zs[j].end < s /\ ys[j].start = zs[j].start /\ ys[j].end = zs[j].end
               \/ e < zs[j].start /\ ys[j].start = zs[j].start - d + h /\ ys[j].end = zs[j].end - d + h

\* Reverting a zone leaves the file as it was before its zones.
LEMMA ReadingMoves ==
  ASSUME NEW f \in FileText, NEW p \in FileText, NEW zs, NEW ys, NEW i \in Zones, zs[i] # NoZone,
         NEW s \in Nat, NEW e \in Nat, NEW d \in Nat, NEW o \in FileText, NEW h \in Nat,
         zs[i].start = s, zs[i].end = e, zs[i].orig = o, h = Len(o), d = e - s + 1,
         1 <= s, s <= e, e <= Len(f), 1 <= h,
         IsPut(p, f, s, d, o, h), OthersMoved(zs, ys, i, s, e, d, h),
         NEW g, ReadsBack(g, f, zs), NEW k, ReadsBack(k, p, ys)
  PROVE  k[Len(p)] = g[Len(f)]
<1> DEFINE n == Len(p)
           v == g[s - 1]
<1>1. Len(f) \in Nat /\ n \in Nat /\ n = Len(f) + h - d
  BY LenProperties DEF IsPut, FileText
<1>2. ASSUME NEW l \in 1..n
      PROVE  p[l] = IF l < s THEN f[l] ELSE IF l < s + h THEN o[l - s + 1] ELSE f[l - h + d]
  BY <1>1, <1>2 DEF IsPut
<1>3. v \in FileText /\ g[0] = <<>> /\ k[0] = <<>> /\ g[e] = v \o o
  <2>1. s - 1 \in 0..Len(f) /\ e \in 1..Len(f)
    BY <1>1
  <2>2. ReadsLine(g, f, zs, e, g[e]) /\ v \in FileText
    BY <2>1 DEF ReadsBack
  <2>3. g[e] = g[zs[i].start - 1] \o zs[i].orig
    BY <2>2 DEF ReadsLine
  <2> QED BY <2>2, <2>3 DEF ReadsBack
<1>4. (\A l \in 1..n : ReadsLine(k, p, ys, l, k[l])) /\ \A l \in 1..Len(f) : ReadsLine(g, f, zs, l, g[l])
  BY DEF ReadsBack
<1>5. v \o SubSeq(o, 1, 0) = v /\ SubSeq(o, 1, h) = o
  <2>1. SubSeq(o, 1, 0) = <<>>
    BY SubSeqEmpty
  <2> QED BY <1>3, <2>1, ConcatEmptySeq, SubSeqFull DEF FileText
<1> HIDE DEF n, v
<1> DEFINE T == {l \in 0..n : /\ l <= s - 1 => k[l] = g[l]
                              /\ s - 1 <= l /\ l <= s + h - 1 => k[l] = v \o SubSeq(o, 1, l - s + 1)
                              /\ s + h - 1 <= l => k[l] = g[l - h + d]}
<1>6. ASSUME NEW l \in 0..n, (0..(l - 1)) \subseteq T PROVE l \in T
  <2>1. l \in Nat
    BY <1>1
  <2>2. CASE l = 0
    <3>1. ~(s + h - 1 <= l) /\ (s - 1 <= l => s - 1 = 0 /\ l - s + 1 = 0)
      BY <2>2
    <3>2. k[l] = g[l]
      BY <1>3, <2>2
    <3>3. s - 1 <= l => k[l] = v
      BY <1>3, <2>2, <3>1 DEF v
    <3>4. s - 1 <= l => k[l] = v \o SubSeq(o, 1, l - s + 1)
      BY <1>5, <3>1, <3>3
    <3> QED BY <3>1, <3>2, <3>4
  <2>3. CASE 1 <= l /\ l <= s - 1
    <3>1. l \in 1..n /\ l \in 1..Len(f) /\ l - 1 \in 0..(l - 1) /\ l < s
      BY <1>1, <2>1, <2>3
    <3>2. ReadsLine(k, p, ys, l, k[l]) /\ ReadsLine(g, f, zs, l, g[l])
      BY <1>4, <3>1
    <3>3. \A m \in 0..(l - 1) : k[m] = g[m]
      <4>1. ASSUME NEW m \in 0..(l - 1) PROVE k[m] = g[m]
        <5>1. m \in T /\ m <= s - 1
          BY <1>6, <2>1, <2>3
        <5> QED BY <5>1
      <4> QED BY <4>1
    <3>4. k[l] = g[l]
      <4>1. CASE \E j \in Zones : ys[j] # NoZone /\ ys[j].end = l
        <5>1. PICK j \in Zones : ys[j] # NoZone /\ ys[j].end = l
          BY <4>1
        <5>2. j # i /\ zs[j] # NoZone
          BY <5>1 DEF OthersMoved
        <5>3. zs[j].end = l /\ ys[j].start = zs[j].start /\ ys[j].orig = zs[j].orig
          <6>1. \/ zs[j].end < s /\ ys[j].start = zs[j].start /\ ys[j].end = zs[j].end
                \/ e < zs[j].start /\ ys[j].end = zs[j].end - d + h
            BY <5>2 DEF OthersMoved
          <6>2. zs[j].start \in Nat /\ zs[j].end \in Nat /\ zs[j].start <= zs[j].end /\ ys[j].orig = zs[j].orig
            BY <5>2 DEF OthersMoved
          <6> QED BY <2>1, <2>3, <5>1, <6>1, <6>2
        <5> DEFINE m == zs[j].start - 1
        <5>4. m \in 0..(l - 1) /\ k[l] = k[m] \o zs[j].orig /\ g[l] = g[m] \o zs[j].orig
          BY <3>2, <5>1, <5>2, <5>3 DEF ReadsLine
        <5> HIDE DEF m
        <5> QED BY <3>3, <5>4
      <4>2. CASE \A j \in Zones : ys[j] # NoZone => ys[j].end # l
        <5>1. \A j \in Zones : zs[j] # NoZone => zs[j].end # l
          <6>1. ASSUME NEW j \in Zones, zs[j] # NoZone, zs[j].end = l PROVE FALSE
            <7>1. j # i
              BY <2>1, <2>3, <6>1
            <7>2. \/ zs[j].end < s /\ ys[j].end = zs[j].end
                  \/ e < zs[j].start
              BY <6>1, <7>1 DEF OthersMoved
            <7>3. zs[j].start \in Nat /\ zs[j].start <= zs[j].end /\ ys[j] # NoZone
              BY <6>1, <7>1 DEF OthersMoved
            <7> QED BY <2>1, <2>3, <4>2, <6>1, <7>2, <7>3
          <6> QED BY <6>1
        <5>2. k[l] = Append(k[l - 1], p[l]) /\ g[l] = Append(g[l - 1], f[l])
          BY <3>2, <4>2, <5>1 DEF ReadsLine
        <5>3. p[l] = f[l]
          BY <1>2, <3>1
        <5> QED BY <3>1, <3>3, <5>2, <5>3
      <4> QED BY <4>1, <4>2
    <3>5. ~(s + h - 1 <= l) /\ (s - 1 <= l => l = s - 1 /\ l - s + 1 = 0)
      BY <2>1, <2>3
    <3>6. s - 1 <= l => k[l] = v \o SubSeq(o, 1, l - s + 1)
      BY <1>5, <3>4, <3>5 DEF v
    <3> QED BY <3>4, <3>5, <3>6
  <2>4. CASE s <= l /\ l <= s + h - 1
    <3>1. l \in 1..n /\ l - 1 \in 0..(l - 1) /\ ~(l < s) /\ l < s + h
      BY <1>1, <2>1, <2>4
    <3>2. ReadsLine(k, p, ys, l, k[l])
      BY <1>4, <3>1
    <3>3. \A j \in Zones : ys[j] # NoZone => ys[j].end # l
      <4>1. ASSUME NEW j \in Zones, ys[j] # NoZone, ys[j].end = l PROVE FALSE
        <5>1. j # i /\ zs[j] # NoZone
          BY <4>1 DEF OthersMoved
        <5>2. \/ zs[j].end < s /\ ys[j].end = zs[j].end
              \/ e < zs[j].start /\ ys[j].end = zs[j].end - d + h
          BY <5>1 DEF OthersMoved
        <5>3. zs[j].start \in Nat /\ zs[j].end \in Nat /\ zs[j].start <= zs[j].end
          BY <5>1 DEF OthersMoved
        <5> QED BY <2>1, <2>4, <4>1, <5>2, <5>3
      <4> QED BY <4>1
    <3>4. k[l] = Append(k[l - 1], p[l])
      BY <3>2, <3>3 DEF ReadsLine
    <3> DEFINE x == l - s + 1
    <3>5. x \in 1..Len(o) /\ x - 1 = l - 1 - s + 1 /\ s - 1 <= l - 1 /\ l - 1 <= s + h - 1
      BY <2>1, <2>4
    <3>6. p[l] = o[x]
      BY <1>2, <3>1
    <3>7. k[l - 1] = v \o SubSeq(o, 1, x - 1)
      <4>1. l - 1 \in T
        BY <1>6, <3>1
      <4>2. k[l - 1] = v \o SubSeq(o, 1, l - 1 - s + 1)
        BY <3>5, <4>1
      <4> QED BY <3>5, <4>2
    <3> HIDE DEF x
    <3>8. k[l] = v \o SubSeq(o, 1, x)
      <4>1. k[l] = Append(v \o SubSeq(o, 1, x - 1), o[x])
        BY <3>4, <3>6, <3>7
      <4>2. Append(v \o SubSeq(o, 1, x - 1), o[x]) = v \o SubSeq(o, 1, x)
        BY <1>3, <3>5, OneMoreLine
      <4> QED BY <4>1, <4>2
    <3>9. s + h - 1 <= l => k[l] = g[l - h + d]
      <4>1. s + h - 1 <= l => x = h /\ l - h + d = e
        BY <2>1, <2>4 DEF x
      <4> QED BY <1>3, <1>5, <3>8, <4>1
    <3>10. ~(l <= s - 1)
      BY <2>1, <2>4
    <3> QED BY <3>8, <3>9, <3>10 DEF x
  <2>5. CASE s + h <= l
    <3> DEFINE y == l - h + d
    <3>1. /\ l \in 1..n /\ l - 1 \in 0..(l - 1) /\ ~(l < s) /\ ~(l < s + h) /\ y \in 1..Len(f) /\ e < y
          /\ y - 1 = l - 1 - h + d /\ y = l - h + d
      BY <1>1, <2>1, <2>5
    <3>2. ReadsLine(k, p, ys, l, k[l]) /\ ReadsLine(g, f, zs, y, g[y])
      <4> HIDE DEF y
      <4> QED BY <1>4, <3>1
    <3> HIDE DEF y
    <3>3. \A m \in (s + h - 1)..(l - 1) : k[m] = g[m - h + d]
      <4>1. ASSUME NEW m \in (s + h - 1)..(l - 1) PROVE k[m] = g[m - h + d]
        <5>1. m \in 0..(l - 1) /\ s + h - 1 <= m
          BY <2>1
        <5>2. m \in T
          BY <1>6, <5>1
        <5> QED BY <5>1, <5>2
      <4> QED BY <4>1
    <3>4. k[l] = g[y]
      <4>1. CASE \E j \in Zones : ys[j] # NoZone /\ ys[j].end = l
        <5>1. PICK j \in Zones : ys[j] # NoZone /\ ys[j].end = l
          BY <4>1
        <5>2. j # i /\ zs[j] # NoZone
          BY <5>1 DEF OthersMoved
        <5> DEFINE a == zs[j].start
                   m == a - 1
                   x == ys[j].start - 1
                   b == zs[j].orig
        <5>3. a \in Nat /\ zs[j].end \in Nat /\ a <= zs[j].end /\ ys[j].orig = b
          BY <5>2 DEF OthersMoved
        <5>4. e < a /\ ys[j].start = a - d + h /\ ys[j].end = zs[j].end - d + h
          <6>1. \/ zs[j].end < s /\ ys[j].end = zs[j].end
                \/ e < zs[j].start /\ ys[j].start = zs[j].start - d + h /\ ys[j].end = zs[j].end - d + h
            BY <5>2 DEF OthersMoved
          <6> QED BY <2>1, <2>5, <5>1, <5>3, <6>1
        <5>5. zs[j].end = y
          <6> DEFINE c == zs[j].end
          <6>1. c \in Nat /\ l = c - d + h /\ y = l - h + d
            BY <3>1, <5>1, <5>3, <5>4
          <6> HIDE DEF c
          <6>2. c = y
            BY <2>1, <6>1
          <6> QED BY <6>2 DEF c
        <5>6. k[l] = k[x] \o b /\ g[y] = g[m] \o b /\ x \in 0..(l - 1)
          BY <3>2, <5>1, <5>2, <5>3, <5>5 DEF ReadsLine
        <5>7. x \in (s + h - 1)..(l - 1) /\ x - h + d = m
          <6> DEFINE c == ys[j].start
          <6>1. a \in Nat /\ e < a /\ c = a - d + h /\ m = a - 1
            BY <5>3, <5>4
          <6>2. x = c - 1 /\ x \in 0..(l - 1)
            BY <5>6
          <6> HIDE DEF a, x, m, c
          <6> QED BY <2>1, <6>1, <6>2
        <5> HIDE DEF x, m, b
        <5>8. k[x] = g[m]
          BY <3>3, <5>7
        <5> QED BY <5>6, <5>8
      <4>2. CASE \A j \in Zones : ys[j] # NoZone => ys[j].end # l
        <5>1. \A j \in Zones : zs[j] # NoZone => zs[j].end # y
          <6>1. ASSUME NEW j \in Zones, zs[j] # NoZone, zs[j].end = y PROVE FALSE
            <7>1. j # i
              BY <3>1, <6>1
            <7>2. \/ zs[j].end < s
                  \/ e < zs[j].start /\ ys[j].end = zs[j].end - d + h
              BY <6>1, <7>1 DEF OthersMoved
            <7>3. zs[j].start \in Nat /\ zs[j].start <= zs[j].end /\ ys[j] # NoZone
              BY <6>1, <7>1 DEF OthersMoved
            <7>4. ys[j].end = l
              BY <2>1, <3>1, <6>1, <7>2, <7>3
            <7> QED BY <4>2, <7>3, <7>4
          <6> QED BY <6>1
        <5>2. k[l] = Append(k[l - 1], p[l]) /\ g[y] = Append(g[y - 1], f[y])
          BY <3>2, <4>2, <5>1 DEF ReadsLine
        <5>3. p[l] = f[y]
          BY <1>2, <3>1
        <5> DEFINE x == l - 1
        <5>4. x \in (s + h - 1)..(l - 1) /\ x - h + d = y - 1
          BY <2>1, <2>5, <3>1
        <5> HIDE DEF x
        <5>5. k[x] = g[y - 1]
          BY <3>3, <5>4
        <5> QED BY <5>2, <5>3, <5>5 DEF x
      <4> QED BY <4>1, <4>2
    <3>5. ~(l <= s - 1) /\ ~(l <= s + h - 1)
      BY <2>1, <2>5
    <3>6. k[l] = g[l - h + d]
      BY <3>1, <3>4
    <3> QED BY <3>5, <3>6
  <2>6. l = 0 \/ (1 <= l /\ l <= s - 1) \/ (s <= l /\ l <= s + h - 1) \/ s + h <= l
    BY <2>1
  <2> QED BY <2>2, <2>3, <2>4, <2>5, <2>6
<1> HIDE DEF T
<1>7. 0..n \subseteq T
  BY <1>1, <1>6, UpTo
<1>8. n \in 0..n /\ s + h - 1 <= n /\ n - h + d = Len(f)
  BY <1>1
<1>9. n \in T
  BY <1>7, <1>8
<1>10. k[n] = g[n - h + d]
  BY <1>8, <1>9 DEF T
<1> QED BY <1>8, <1>10 DEF n

-----------------------------------------------------------------------------
\* Rejecting everything: each zone in turn

Reverted(t, i) == IF t.zone[i] = NoZone THEN t ELSE RevertZone(t, i)

\* g holds the states from s on, in which the zones are reverted one after the other, up to zone n.
Reverts(g, s, n) ==
  /\ g = [i \in 0..n |-> g[i]]
  /\ g[0] = s
  /\ \A i \in 1..n : g[i] = Reverted(g[i - 1], i)

LEMMA RevertsExist ==
  ASSUME NEW s
  PROVE  \E g : Reverts(g, s, MaxZones)
<1> DEFINE T == {n \in 0..MaxZones : \E g : Reverts(g, s, n)}
<1>1. ASSUME NEW n \in 0..MaxZones, (0..(n - 1)) \subseteq T PROVE n \in T
  <2>1. n \in Nat
    BY ReviewAssumption
  <2>2. CASE n = 0
    <3> DEFINE g == [i \in 0..0 |-> s]
    <3>1. g = [i \in 0..0 |-> g[i]] /\ g[0] = s
      OBVIOUS
    <3> HIDE DEF g
    <3>2. Reverts(g, s, 0)
      BY <3>1 DEF Reverts
    <3> QED BY <2>2, <3>2
  <2>3. CASE n # 0
    <3>1. n - 1 \in 0..(n - 1) /\ n - 1 \in Nat
      BY <2>1, <2>3
    <3>2. PICK k : Reverts(k, s, n - 1)
      BY <1>1, <3>1
    <3> DEFINE g == [i \in 0..n |-> IF i = n THEN Reverted(k[n - 1], n) ELSE k[i]]
    <3>3. g = [i \in 0..n |-> g[i]]
      OBVIOUS
    <3>4. \A i \in 0..(n - 1) : g[i] = k[i]
      BY <2>1
    <3>5. g[n] = Reverted(k[n - 1], n)
      BY <2>1
    <3> HIDE DEF g
    <3>6. \A i \in 1..n : g[i] = Reverted(g[i - 1], i)
      <4>1. ASSUME NEW i \in 1..n PROVE g[i] = Reverted(g[i - 1], i)
        <5>1. CASE i = n
          BY <3>1, <3>4, <3>5, <5>1
        <5>2. CASE i # n
          <6>1. i \in 1..(n - 1) /\ i \in 0..(n - 1) /\ i - 1 \in 0..(n - 1)
            BY <2>1, <5>2
          <6> QED BY <3>2, <3>4, <6>1 DEF Reverts
        <5> QED BY <5>1, <5>2
      <4> QED BY <4>1
    <3>7. g[0] = s
      BY <2>1, <2>3, <3>2, <3>4 DEF Reverts
    <3> QED BY <3>3, <3>6, <3>7 DEF Reverts
  <2> QED BY <2>2, <2>3
<1> HIDE DEF T
<1>2. 0..MaxZones \subseteq T
  BY <1>1, ReviewAssumption, UpTo
<1> QED BY <1>2, ReviewAssumption DEF T

\* The function that RejectedAll defines is such a sequence of states.
LEMMA RejectsInTurn ==
  ASSUME NEW s
  PROVE  \E g : Reverts(g, s, MaxZones) /\ RejectedAll(s) = g[MaxZones]
<1> DEFINE Body(g) == [i \in 0..MaxZones |-> IF i = 0 THEN s ELSE Reverted(g[i - 1], i)]
           u == CHOOSE g : g = Body(g)
<1>1. RejectedAll(s) = u[MaxZones]
  BY DEF RejectedAll, Reverted
<1>2. \E g : g = Body(g)
  <2>1. PICK g : Reverts(g, s, MaxZones)
    BY RevertsExist
  <2>2. \A i \in 0..MaxZones : g[i] = IF i = 0 THEN s ELSE Reverted(g[i - 1], i)
    <3>1. \A i \in 0..MaxZones : i = 0 \/ i \in 1..MaxZones
      BY ReviewAssumption
    <3> QED BY <2>1, <3>1 DEF Reverts
  <2>3. g = [i \in 0..MaxZones |-> g[i]]
    BY <2>1 DEF Reverts
  <2>4. g = Body(g)
    BY <2>2, <2>3
  <2> QED BY <2>4
<1>3. u = Body(u)
  BY <1>2
<1> HIDE DEF u
<1>4. /\ u = [i \in 0..MaxZones |-> u[i]]
      /\ \A i \in 0..MaxZones : u[i] = IF i = 0 THEN s ELSE Reverted(u[i - 1], i)
  BY <1>3
<1> HIDE DEF Body
<1>5. Reverts(u, s, MaxZones)
  BY <1>4, ReviewAssumption DEF Reverts
<1> QED BY <1>1, <1>5

\* One zone is reverted: its lines give way to its original, and it goes.
LEMMA RevertedZone ==
  ASSUME NEW s, GoodZones(s.file, s.zone), NEW i \in Zones, s.zone[i] # NoZone, NEW w, w = RevertZone(s, i), ~w.skipped
  PROVE  /\ ~s.skipped
         /\ GoodZones(w.file, w.zone)
         /\ w.file = Put(s.file, s.zone[i].start, s.zone[i].end, s.zone[i].orig)
         /\ w.zone = [j \in Zones |-> IF j = i THEN NoZone
                       ELSE RealignAll(s.zone, s.zone[i].orig, s.zone[i].start, s.zone[i].end)[j]]
         /\ \A j \in Zones : s.zone[j] = NoZone => w.zone[j] = NoZone
<1> DEFINE z == s.zone[i]
           a == z.start
           b == z.end
           x == WriteURIText(s, WholeLines(a, b), z.orig)
<1>1. ZoneOK(s.file, z) /\ s.file \in FileText
  BY DEF GoodZones
<1>2. /\ a \in Nat /\ b \in Nat /\ a \in 1..Len(s.file) /\ b \in a..Len(s.file) /\ z.orig \in FileText /\ Len(z.orig) >= 1
      /\ z \in DiffZone
  <2>1. Len(s.file) \in Nat /\ z.orig \in FileText /\ Len(z.orig) \in Nat /\ a \in Nat /\ b \in Nat
    BY <1>1, LenProperties DEF ZoneOK, DiffZone, FileText
  <2>2. Len(z.orig) # 0
    BY <1>1, <2>1, EmptySeq DEF ZoneOK, FileText
  <2> QED BY <1>1, <2>1, <2>2 DEF ZoneOK
<1>3. w = WithoutZones(x, {i})
  BY DEF RevertZone
<1>4. w.file = x.file /\ w.zone = [j \in Zones |-> IF j \in {i} THEN NoZone ELSE x.zone[j]] /\ w.skipped = x.skipped
  BY <1>3 DEF WithoutZones, WriteURIText
<1>5. Local(s.zone, a, b)
  <2>1. ASSUME NEW j \in Zones, s.zone[j] # NoZone, j # i PROVE Apart(s.zone[j], a, b)
    BY <2>1 DEF GoodZones
  <2>2. ASSUME NEW j \in Zones, s.zone[j] # NoZone PROVE ~(a < s.zone[j].start /\ s.zone[j].end < b)
    <3>1. s.zone[j].start \in Nat /\ s.zone[j].end \in Nat /\ s.zone[j].start <= s.zone[j].end
      BY <2>2 DEF GoodZones, ZoneOK, DiffZone
    <3>2. CASE j = i
      BY <1>2, <3>2
    <3>3. CASE j # i
      <4>1. Apart(s.zone[j], a, b)
        BY <2>1, <2>2, <3>3
      <4> HIDE DEF a, b
      <4> QED BY <1>2, <3>1, <4>1 DEF Apart
    <3> QED BY <3>2, <3>3
  <2> HIDE DEF a, b
  <2> QED BY <2>1, <2>2 DEF Local
<1>6. ~x.skipped
  BY <1>4
<1> DEFINE t == z.orig
<1>7. t \in FileText /\ Len(t) >= 1 /\ x = WriteURIText(s, WholeLines(a, b), t)
  BY <1>2
<1> HIDE DEF x, a, b, t
<1>8. /\ ~s.skipped
      /\ x.file = Put(s.file, a, b, t)
      /\ x.zone = RealignAll(s.zone, t, a, b)
      /\ GoodZones(x.file, x.zone)
  BY <1>2, <1>5, <1>6, <1>7, WholeWritten
<1>9. GoodZones(w.file, w.zone)
  <2> DEFINE f == x.file
             zs == x.zone
  <2>1. GoodZones(f, zs)
    BY <1>8
  <2> HIDE DEF f, zs
  <2>2. GoodZones(f, [j \in Zones |-> IF j \in {i} THEN NoZone ELSE zs[j]])
    BY <2>1, WithoutSome
  <2> QED BY <1>4, <2>2 DEF f, zs
<1>10. w.zone = [j \in Zones |-> IF j = i THEN NoZone ELSE RealignAll(s.zone, t, a, b)[j]]
  BY <1>4, <1>8
<1>11. \A j \in Zones : s.zone[j] = NoZone => w.zone[j] = NoZone
  BY <1>10 DEF RealignAll
<1> QED BY <1>4, <1>8, <1>9, <1>10, <1>11 DEF a, b, t

\* The file before its zones is what it was, with this zone or without it.
LEMMA RevertedReads ==
  ASSUME NEW s, GoodZones(s.file, s.zone), NEW i \in Zones, s.zone[i] # NoZone, NEW w, w = RevertZone(s, i), ~w.skipped
  PROVE  OriginalFile(w.file, w.zone) = OriginalFile(s.file, s.zone)
<1> DEFINE f  == s.file
           zs == s.zone
           p  == w.file
           ys == w.zone
           z  == zs[i]
           a  == z.start
           b  == z.end
           o  == z.orig
           h  == Len(o)
           d  == b - a + 1
<1>1. GoodZones(f, zs) /\ f \in FileText /\ Len(f) \in Nat
  BY LenProperties DEF GoodZones, FileText
<1>2. z \in DiffZone /\ a \in Nat /\ b \in Nat /\ o \in FileText /\ 1 <= a /\ a <= b /\ b <= Len(f) /\ o # <<>> /\ z # NoZone
  BY <1>1 DEF GoodZones, ZoneOK, DiffZone
<1>3. h \in Nat /\ 1 <= h /\ d \in Nat
  <2>1. h \in Nat \ {0}
    BY <1>2, EmptySeq DEF FileText
  <2> QED BY <1>2, <2>1
<1>4. /\ GoodZones(p, ys)
      /\ p = Put(f, a, b, o)
      /\ ys = [j \in Zones |-> IF j = i THEN NoZone ELSE RealignAll(zs, o, a, b)[j]]
  BY RevertedZone
<1>5. IsPut(p, f, a, d, o, h) /\ p \in FileText
  <2>1. a \in 1..(Len(f) + 1) /\ b \in (a - 1)..Len(f)
    BY <1>1, <1>2
  <2> HIDE DEF a, b, o, f, p
  <2> QED BY <1>1, <1>2, <1>4, <2>1, PutLines DEF IsPut
<1>6. ASSUME NEW j \in Zones \ {i}
      PROVE  /\ zs[j] = NoZone <=> ys[j] = NoZone
             /\ zs[j] # NoZone =>
                  /\ zs[j].start \in Nat /\ zs[j].end \in Nat /\ 1 <= zs[j].start /\ zs[j].start <= zs[j].end
                  /\ ys[j].orig = zs[j].orig
                  /\ \/ zs[j].end < a /\ ys[j].start = zs[j].start /\ ys[j].end = zs[j].end
                     \/ b < zs[j].start /\ ys[j].start = zs[j].start - d + h /\ ys[j].end = zs[j].end - d + h
  <2> HIDE DEF f, zs, p, ys, a, b, o
  <2>1. ys[j] = RealignAll(zs, o, a, b)[j]
    BY <1>4
  <2>2. CASE zs[j] = NoZone
    BY <2>1, <2>2 DEF RealignAll
  <2>3. CASE zs[j] # NoZone
    <3> DEFINE u == zs[j]
               y == ys[j]
    <3>1. y = Realigned(u, o, a, b)
      BY <2>1, <2>3 DEF RealignAll
    <3>2. u \in DiffZone /\ u.start \in Nat /\ u.end \in Nat /\ 1 <= u.start /\ u.start <= u.end
      BY <1>1, <2>3 DEF GoodZones, ZoneOK, DiffZone
    <3>3. b < u.start \/ u.end < a
      BY <1>1, <1>2, <2>3 DEF GoodZones, Apart, a, b
    <3>4. ~(a < u.start /\ u.end < b)
      BY <1>2, <3>2, <3>3
    <3>5. Moved(y, u, a, b, h)
      <4> HIDE DEF u, y, h
      <4>1. Len(o) >= 1
        BY <1>3 DEF h
      <4>2. Moved(Realigned(u, o, a, b), u, a, b, Len(o))
        BY <1>2, <3>2, <3>4, <4>1, RealignMoves
      <4> QED BY <3>1, <4>2 DEF h
    <3>6. y # NoZone /\ y.orig = u.orig
      BY <3>5, NotAZone DEF Moved
    <3> HIDE DEF u, y, h
    <3>6a. u # NoZone
      BY <2>3 DEF u
    <3>6b. SUFFICES \/ u.end < a /\ y.start = u.start /\ y.end = u.end
                    \/ b < u.start /\ y.start = u.start - d + h /\ y.end = u.end - d + h
      BY <3>2, <3>6, <3>6a DEF u, y
    <3>7. CASE u.end < a
      BY <3>5, <3>7 DEF Moved
    <3>8. CASE b < u.start
      <4>1. ~(u.end < a) /\ b < u.end
        BY <1>2, <3>2, <3>8
      <4>2. y.start = u.start + h - (b - a + 1) /\ y.end = u.end + h - (b - a + 1)
        BY <3>5, <3>8, <4>1 DEF Moved
      <4>3. y.start = u.start - d + h /\ y.end = u.end - d + h
        BY <1>2, <1>3, <3>2, <4>2
      <4> QED BY <3>8, <4>3
    <3> QED BY <3>3, <3>7, <3>8
  <2> QED BY <2>2, <2>3
<1>7. OthersMoved(zs, ys, i, a, b, d, h)
  <2>1. ys[i] = NoZone
    BY <1>4
  <2> HIDE DEF zs, ys, a, b, d, h
  <2> QED BY <1>6, <2>1 DEF OthersMoved
<1> HIDE DEF f, zs, p, ys
<1>8. PICK g : ReadsBack(g, f, zs) /\ OriginalFile(f, zs) = g[Len(f)]
  BY <1>1, OriginalReads
<1>9. PICK k : ReadsBack(k, p, ys) /\ OriginalFile(p, ys) = k[Len(p)]
  BY <1>4, OriginalReads
<1>10. z.start = a /\ z.end = b /\ z.orig = o /\ h = Len(o) /\ d = b - a + 1
  OBVIOUS
<1>11. z = zs[i]
  OBVIOUS
<1> HIDE DEF a, b, o, h, d, z
<1>12. k[Len(p)] = g[Len(f)]
  BY <1>1, <1>2, <1>3, <1>5, <1>7, <1>8, <1>9, <1>10, <1>11, ReadingMoves
<1> QED BY <1>8, <1>9, <1>12 DEF f, zs, p, ys

\* A file without zones is what it was.
LEMMA NothingToReadBack ==
  ASSUME NEW f, NEW zs, GoodZones(f, zs), \A i \in Zones : zs[i] = NoZone
  PROVE  OriginalFile(f, zs) = f
<1>1. PICK g : ReadsBack(g, f, zs) /\ OriginalFile(f, zs) = g[Len(f)]
  BY OriginalReads
<1>2. f \in FileText /\ Len(f) \in Nat
  BY LenProperties DEF GoodZones, FileText
<1> DEFINE T == {l \in 0..Len(f) : g[l] = SubSeq(f, 1, l)}
<1>3. ASSUME NEW l \in 0..Len(f), (0..(l - 1)) \subseteq T PROVE l \in T
  <2>1. l \in Nat
    BY <1>2
  <2>2. CASE l = 0
    <3>1. SubSeq(f, 1, 0) = <<>>
      BY SubSeqEmpty
    <3> QED BY <1>1, <2>2, <3>1 DEF ReadsBack
  <2>3. CASE l # 0
    <3>1. l \in 1..Len(f) /\ l - 1 \in 0..(l - 1) /\ 1 \in 1..Len(f) /\ l - 1 \in 0..Len(f)
      BY <1>2, <2>1, <2>3
    <3> DEFINE v == g[l - 1]
               x == f[l]
    <3>2. g[l] = Append(v, x)
      BY <1>1, <3>1 DEF ReadsBack, ReadsLine
    <3>3. v = SubSeq(f, 1, l - 1) /\ v \in FileText /\ x \in Line
      BY <1>1, <1>2, <1>3, <3>1, ElementOfSeq DEF ReadsBack, FileText
    <3>4. SubSeq(f, 1, l) = SubSeq(f, 1, l - 1) \o <<f[l]>>
      BY <1>2, <3>1, SubSeqRecursiveSecond DEF FileText
    <3>5. SubSeq(f, 1, l) = v \o <<x>>
      BY <3>3, <3>4
    <3> HIDE DEF v, x
    <3>6. Append(v, x) = v \o <<x>>
      BY <3>3, AppendIsConcat DEF FileText
    <3> QED BY <3>2, <3>5, <3>6
  <2> QED BY <2>2, <2>3
<1> HIDE DEF T
<1>4. 0..Len(f) \subseteq T
  BY <1>2, <1>3, UpTo
<1>5. g[Len(f)] = SubSeq(f, 1, Len(f))
  BY <1>2, <1>4 DEF T
<1> QED BY <1>1, <1>2, <1>5, SubSeqFull DEF FileText

\* All of them are reverted, unless a write was skipped.
LEMMA AllReverted ==
  ASSUME NEW s, GoodZones(s.file, s.zone), ~RejectedAll(s).skipped
  PROVE  /\ GoodZones(RejectedAll(s).file, RejectedAll(s).zone)
         /\ \A i \in Zones : RejectedAll(s).zone[i] = NoZone
         /\ RejectedAll(s).file = OriginalFile(s.file, s.zone)
<1>1. PICK g : Reverts(g, s, MaxZones) /\ RejectedAll(s) = g[MaxZones]
  BY RejectsInTurn
<1> DEFINE orig == OriginalFile(s.file, s.zone)
           Past(n) == /\ GoodZones(g[n].file, g[n].zone)
                      /\ \A i \in 1..n : g[n].zone[i] = NoZone
                      /\ OriginalFile(g[n].file, g[n].zone) = orig
           T == {n \in 0..MaxZones : ~g[n].skipped => Past(n)}
<1>2. ASSUME NEW n \in 0..MaxZones, (0..(n - 1)) \subseteq T PROVE n \in T
  <2>1. n \in Nat
    BY ReviewAssumption
  <2>2. CASE n = 0
    <3>1. g[0] = s
      BY <1>1 DEF Reverts
    <3> QED BY <2>2, <3>1
  <2>3. CASE n # 0
    <3>1. n - 1 \in 0..(n - 1) /\ n \in 1..MaxZones /\ n \in Zones
      BY <2>1, <2>3 DEF Zones
    <3> DEFINE v == g[n - 1]
               w == g[n]
    <3>2. w = Reverted(v, n)
      BY <1>1, <3>1 DEF Reverts
    <3>3. ~v.skipped => Past(n - 1)
      BY <1>2, <3>1
    <3>4. SUFFICES ASSUME ~w.skipped PROVE Past(n)
      OBVIOUS
    <3>5. CASE v.zone[n] = NoZone
      <4>1. w = v
        BY <3>2, <3>5 DEF Reverted
      <4>2. /\ GoodZones(w.file, w.zone) /\ OriginalFile(w.file, w.zone) = orig
            /\ \A i \in 1..(n - 1) : w.zone[i] = NoZone
        BY <3>3, <3>4, <4>1
      <4>3. \A i \in 1..n : i = n \/ i \in 1..(n - 1)
        BY <2>1
      <4> QED BY <3>5, <4>1, <4>2, <4>3
    <3>6. CASE v.zone[n] # NoZone
      <4>1. w = RevertZone(v, n)
        BY <3>2, <3>6 DEF Reverted
      <4>2. ~v.skipped
        <5>1. w.skipped = (v.skipped \/ (v.zone[n].orig = v.file /\ WholeLines(v.zone[n].start, v.zone[n].end) # WholeLines(1, Len(v.file))))
          BY <4>1 DEF RevertZone, WithoutZones, WriteURIText
        <5> HIDE DEF v, w
        <5> QED BY <3>4, <5>1
      <4>3. /\ GoodZones(v.file, v.zone) /\ OriginalFile(v.file, v.zone) = orig
            /\ \A i \in 1..(n - 1) : v.zone[i] = NoZone
        BY <3>3, <4>2
      <4>3a. ~w.skipped
        BY <3>4
      <4> HIDE DEF v, w, orig
      <4>4. /\ GoodZones(w.file, w.zone)
            /\ w.zone = [j \in Zones |-> IF j = n THEN NoZone
                          ELSE RealignAll(v.zone, v.zone[n].orig, v.zone[n].start, v.zone[n].end)[j]]
            /\ \A j \in Zones : v.zone[j] = NoZone => w.zone[j] = NoZone
        BY <3>1, <3>6, <4>1, <4>3, <4>3a, RevertedZone
      <4>5. w.zone[n] = NoZone
        BY <3>1, <4>4
      <4>6. \A i \in 1..n : i \in Zones /\ (i = n \/ i \in 1..(n - 1))
        <5>1. MaxZones \in Nat /\ n <= MaxZones
          BY <3>1, ReviewAssumption
        <5> QED BY <2>1, <5>1 DEF Zones
      <4>7. GoodZones(w.file, w.zone) /\ \A i \in 1..n : w.zone[i] = NoZone
        BY <4>3, <4>4, <4>5, <4>6
      <4>8. OriginalFile(w.file, w.zone) = orig
        BY <3>1, <3>6, <4>1, <4>3, <4>3a, RevertedReads
      <4> QED BY <4>7, <4>8 DEF w
    <3> QED BY <3>5, <3>6
  <2> QED BY <2>2, <2>3
<1> HIDE DEF T
<1>3. 0..MaxZones \subseteq T
  BY <1>2, ReviewAssumption, UpTo
<1>4. Past(MaxZones)
  BY <1>1, <1>3, ReviewAssumption DEF T
<1> DEFINE w == RejectedAll(s)
<1>5. GoodZones(w.file, w.zone) /\ (\A i \in Zones : w.zone[i] = NoZone) /\ OriginalFile(w.file, w.zone) = orig
  BY <1>1, <1>4 DEF Zones
<1> HIDE DEF w, orig
<1>6. OriginalFile(w.file, w.zone) = w.file
  BY <1>5, NothingToReadBack
<1> QED BY <1>5, <1>6 DEF w, orig

-----------------------------------------------------------------------------
\* The inductive invariant

ReviewInv == GoodZones(file, zone) /\ \A i \in Zones : diffs[i] \in DiffsOf(file, zone[i])

LEMMA InitGood == ReviewInit => ReviewInv
<1> SUFFICES ASSUME ReviewInit PROVE ReviewInv
  OBVIOUS
<1>1. file \in FileText /\ file # <<>>
  <2>1. MaxNew + 1 \in Nat
    BY ReviewAssumption
  <2> DEFINE n == MaxNew + 1
  <2> HIDE DEF n
  <2>2. n \in Nat /\ file \in Texts(n)
    BY <2>1 DEF ReviewInit, n
  <2> QED BY <2>2, TextsAreTexts
<1>2. GoodZones(file, zone)
  BY <1>1 DEF ReviewInit, GoodZones
<1>3. \A i \in Zones : diffs[i] = {} /\ zone[i] = NoZone
  BY DEF ReviewInit
<1> QED BY <1>2, <1>3 DEF ReviewInv, DiffsOf

LEMMA RefreshedGood ==
  ASSUME Copies = FALSE, NEW s, Refreshed(s), ~s.skipped => GoodZones(s.file, s.zone)
  PROVE  ReviewInv'
<1>1. file' = s.file /\ zone' = s.zone /\ ~s.skipped
  BY DEF Refreshed
<1>2. \A i \in Zones : diffs'[i] \in DiffsOf(s.file, s.zone[i])
  BY DEF Refreshed
<1> QED BY <1>1, <1>2 DEF ReviewInv

LEMMA AcceptedIsGood ==
  ASSUME ReviewInv, NEW i \in Live, NEW d \in diffs[i], NEW s, s = DiffAccepted(i, d)
  PROVE  GoodZones(s.file, s.zone)
<1> DEFINE z == zone[i]
           o == z.orig
           code == SubSeq(file, d.n1, d.n2)
           orig == SubSeq(o, 1, d.o1 - 1) \o code \o SubSeq(o, d.o2 + 1, Len(o))
<1>1. GoodZones(file, zone) /\ i \in Zones /\ z # NoZone /\ ZoneOK(file, z) /\ file \in FileText
  BY DEF ReviewInv, Live, GoodZones
<1>2. IsDiff(z, d)
  BY <1>1, ShownDiffs DEF ReviewInv
<1>3. FileState.file = file /\ FileState.zone = zone
  BY DEF FileState
<1>4. CASE s = WithoutZones(FileState, {i})
  <2>1. s.file = file /\ s.zone = [j \in Zones |-> IF j \in {i} THEN NoZone ELSE zone[j]]
    BY <1>4 DEF WithoutZones, FileState
  <2>2. GoodZones(file, [j \in Zones |-> IF j \in {i} THEN NoZone ELSE zone[j]])
    BY <1>1, WithoutSome
  <2> QED BY <2>1, <2>2
<1>5. CASE s = [FileState EXCEPT !.zone[i].orig = orig]
  <2> HIDE DEF orig
  <2>1. s.file = file /\ s.zone = [zone EXCEPT ![i].orig = orig]
    BY <1>5 DEF FileState
  <2>2. z \in DiffZone /\ o \in FileText /\ Len(o) \in Nat /\ Len(file) \in Nat
    BY <1>1, LenProperties DEF ZoneOK, DiffZone, FileText
  <2>3. code \in FileText /\ Len(code) = d.n2 - d.n1 + 1
    <3>1. d.n1 \in 1..(Len(file) + 1) /\ d.n2 \in (d.n1 - 1)..Len(file)
      BY <1>1, <1>2, <2>2 DEF IsDiff, ZoneOK, DiffZone
    <3> QED BY <1>1, <3>1, SubText
  <2>4. d.o1 \in 1..(Len(o) + 1) /\ d.o2 \in (d.o1 - 1)..Len(o)
    BY <1>2, <2>2 DEF IsDiff
  <2>5. d.n1 \in Nat /\ d.n2 \in Nat /\ d.o1 \in Nat /\ d.o2 \in Nat /\ d.n1 <= d.n2 + 1
        /\ (d.o1 = 1 /\ d.o2 = Len(o) => ~(d.n2 < d.n1))
    BY <1>2 DEF IsDiff, Deletion
  <2> DEFINE o1 == d.o1
             o2 == d.o2
             c == code
  <2>6. o1 \in 1..(Len(o) + 1) /\ o2 \in (o1 - 1)..Len(o) /\ c \in FileText
    BY <2>3, <2>4
  <2> HIDE DEF o, c, o1, o2
  <2>7. SubSeq(o, 1, o1 - 1) \o c \o SubSeq(o, o2 + 1, Len(o)) = Put(o, o1, o2, c)
    BY <2>2, <2>6, PutIsConcat DEF FileText
  <2>8. Put(o, o1, o2, c) \in FileText /\ Len(Put(o, o1, o2, c)) = Len(o) + Len(c) - (o2 - o1 + 1)
    BY <2>2, <2>6, PutType DEF FileText
  <2>9. orig = Put(o, o1, o2, c)
    BY <2>7 DEF orig, o, o1, o2, c
  <2>10. orig \in FileText /\ orig # <<>>
    <3>1. Len(orig) # 0
      <4>1. Len(c) \in Nat /\ Len(c) = d.n2 - d.n1 + 1
        BY <2>3, LenProperties DEF c, FileText
      <4>2. o1 = 1 /\ o2 = Len(o) => Len(c) >= 1
        BY <2>5, <4>1 DEF o1, o2
      <4>3. Len(orig) = Len(o) + Len(c) - (o2 - o1 + 1)
        BY <2>8, <2>9
      <4> HIDE DEF code
      <4> QED BY <2>2, <2>6, <4>1, <4>2, <4>3
    <3> QED BY <2>8, <2>9, <3>1, EmptySeq
  <2> DEFINE y == [z EXCEPT !.orig = orig]
  <2>11. s.zone = [zone EXCEPT ![i] = y]
    BY <2>1
  <2>12. y.start = z.start /\ y.end = z.end /\ y.orig = orig /\ y \in DiffZone
    BY <2>2, <2>10 DEF DiffZone
  <2> HIDE DEF y, z
  <2>13. ZoneOK(file, y)
    BY <1>1, <2>10, <2>12 DEF ZoneOK
  <2>14. s.zone \in [Zones -> DiffZone \cup {NoZone}] /\ s.zone[i] = y /\ \A j \in Zones \ {i} : s.zone[j] = zone[j]
    BY <1>1, <2>11, <2>12 DEF GoodZones
  <2>15. \A j \in Zones : s.zone[j] # NoZone => ZoneOK(file, s.zone[j])
    BY <1>1, <2>13, <2>14 DEF GoodZones
  <2>16. \A j \in Zones : s.zone[j] # NoZone => zone[j] # NoZone /\ s.zone[j].start = zone[j].start /\ s.zone[j].end = zone[j].end
    BY <1>1, <2>12, <2>14 DEF z
  <2>17. \A j, k \in Zones : j # k /\ s.zone[j] # NoZone /\ s.zone[k] # NoZone => Apart(s.zone[j], s.zone[k].start, s.zone[k].end)
    BY <1>1, <2>16 DEF GoodZones, Apart
  <2> QED BY <1>1, <2>1, <2>14, <2>15, <2>17 DEF GoodZones
<1> QED BY <1>4, <1>5 DEF DiffAccepted

\* A zone made of the lines of a file that no zone has, which are then rewritten
LEMMA ZoneWrittenGood ==
  ASSUME NEW s, s = [file |-> s.file, zone |-> s.zone, skipped |-> s.skipped],
         GoodZones(s.file, s.zone), ~s.skipped, NEW i \in Zones, s.zone[i] = NoZone,
         NEW a \in 1..Len(s.file), NEW b \in a..Len(s.file),
         \A j \in Zones : s.zone[j] # NoZone => Apart(s.zone[j], a, b),
         NEW orig \in FileText, orig # <<>>, NEW text \in FileText, Len(text) >= 1,
         NEW w, w = ZoneWritten(s, i, a, b, orig, text), ~w.skipped
  PROVE  GoodZones(w.file, w.zone)
<1> DEFINE z == [start |-> a, end |-> b, orig |-> orig]
           x == [s EXCEPT !.zone[i] = z]
<1>1. s.file \in FileText /\ Len(s.file) \in Nat /\ a \in Nat /\ b \in Nat /\ 1 <= a /\ a <= b /\ b <= Len(s.file)
  BY LenProperties DEF GoodZones, FileText
<1>2. z \in DiffZone /\ z.start = a /\ z.end = b /\ z.orig = orig /\ z # NoZone
  BY <1>1, NotAZone DEF DiffZone
<1>3. w = WriteURIText(x, WholeLines(a, b), text)
  BY DEF ZoneWritten
<1> DEFINE f == s.file
           zs == s.zone
           ys == [zs EXCEPT ![i] = z]
<1>4. x.file = f /\ x.zone = ys
  <2>1. x = [file |-> f, zone |-> ys, skipped |-> s.skipped]
    OBVIOUS
  <2> QED BY <2>1
<1>5. GoodZones(f, zs) /\ zs[i] = NoZone /\ f \in FileText /\ a \in 1..Len(f) /\ b \in a..Len(f) /\ b <= Len(f)
      /\ \A j \in Zones : zs[j] # NoZone => Apart(zs[j], a, b)
  BY <1>1
<1> HIDE DEF z, x, f, zs
<1>6. ys \in [Zones -> DiffZone \cup {NoZone}] /\ ys[i] = z /\ \A j \in Zones \ {i} : ys[j] = zs[j]
  BY <1>2, <1>5 DEF GoodZones
<1> HIDE DEF ys
<1>7. ZoneOK(f, z)
  BY <1>1, <1>2, <1>5 DEF ZoneOK
<1>8. ASSUME NEW j \in Zones, NEW k \in Zones, j # k, ys[j] # NoZone, ys[k] # NoZone
      PROVE  Apart(ys[j], ys[k].start, ys[k].end)
  <2>1. CASE j = i
    <3>1. k # i /\ zs[k] # NoZone /\ Apart(zs[k], a, b) /\ ys[k] = zs[k]
      BY <1>5, <1>6, <1>8, <2>1
    <3>2. zs[k].start \in Nat /\ zs[k].end \in Nat
      BY <1>5, <3>1 DEF GoodZones, ZoneOK, DiffZone
    <3> QED BY <1>1, <1>2, <1>6, <2>1, <3>1, <3>2 DEF Apart
  <2>2. CASE k = i
    BY <1>2, <1>5, <1>6, <1>8, <2>2
  <2>3. CASE j # i /\ k # i
    BY <1>5, <1>6, <1>8, <2>3 DEF GoodZones
  <2> QED BY <2>1, <2>2, <2>3
<1>9. GoodZones(f, ys)
  BY <1>5, <1>6, <1>7, <1>8 DEF GoodZones
<1>10. Local(ys, a, b)
  <2>1. \A j \in Zones : ys[j] # NoZone => j = i \/ Apart(ys[j], a, b)
    BY <1>5, <1>6
  <2>2. ASSUME NEW j \in Zones, ys[j] # NoZone PROVE ~(a < ys[j].start /\ ys[j].end < b)
    <3>1. ys[j].start \in Nat /\ ys[j].end \in Nat /\ ys[j].start <= ys[j].end
      BY <1>9, <2>2 DEF GoodZones, ZoneOK, DiffZone
    <3> QED BY <1>1, <1>2, <1>6, <2>1, <2>2, <3>1 DEF Apart
  <2> QED BY <2>1, <2>2 DEF Local
<1>11. GoodZones(x.file, x.zone) /\ a \in 1..Len(x.file) /\ b \in a..Len(x.file) /\ Local(x.zone, a, b)
  BY <1>4, <1>5, <1>9, <1>10
<1> QED BY <1>3, <1>11, WholeWritten

\* What Apply makes of the file and the zones: one zone, with the lines of the answer.
LEMMA AppliedIsGood ==
  ASSUME GoodZones(file, zone), 1 \in Zones, NEW behavior \in {"keep-conflicts", "reject-conflicts"},
         NEW text \in FileText, Len(text) >= 1, NEW w, w = Applied(1, behavior, text), ~w.skipped
  PROVE  GoodZones(w.file, w.zone)
<1> DEFINE base == ApplyBase(behavior)
           s    == base.s
           n    == Len(file)
           v    == RejectedAll(FileState)
<1>1. FileState.file = file /\ FileState.zone = zone /\ FileState.skipped = FALSE /\ file \in FileText /\ n \in Nat /\ n >= 1
  BY LenProperties, EmptySeq DEF FileState, GoodZones, FileText
<1>2. v = [file |-> v.file, zone |-> v.zone, skipped |-> v.skipped]
  <2>1. PICK g : Reverts(g, FileState, MaxZones) /\ v = g[MaxZones]
    BY RejectsInTurn
  <2> DEFINE T == {k \in 0..MaxZones : g[k] = [file |-> g[k].file, zone |-> g[k].zone, skipped |-> g[k].skipped]}
  <2>2. ASSUME NEW k \in 0..MaxZones, (0..(k - 1)) \subseteq T PROVE k \in T
    <3>1. k # 0 => k \in 1..MaxZones /\ k - 1 \in 0..(k - 1)
      <4>1. k \in Nat /\ MaxZones \in Nat
        BY ReviewAssumption
      <4> QED BY <4>1
    <3>2. CASE k = 0
      <4>1. g[0] = FileState
        BY <2>1 DEF Reverts
      <4>2. g[0] = [file |-> g[0].file, zone |-> g[0].zone, skipped |-> g[0].skipped]
        BY <4>1 DEF FileState
      <4> QED BY <3>2, <4>2
    <3>3. CASE k # 0
      <4>1. k \in 1..MaxZones /\ k - 1 \in T
        BY <2>2, <3>1, <3>3
      <4>2. g[k] = Reverted(g[k - 1], k)
        BY <2>1, <4>1 DEF Reverts
      <4> DEFINE x == g[k - 1]
                 y == g[k]
      <4>3. x = [file |-> x.file, zone |-> x.zone, skipped |-> x.skipped]
        BY <4>1
      <4> HIDE DEF x, y
      <4>4. y = Reverted(x, k)
        BY <4>2 DEF x, y
      <4>5. y = [file |-> y.file, zone |-> y.zone, skipped |-> y.skipped]
        BY <4>3, <4>4 DEF Reverted, RevertZone, WithoutZones, WriteURIText
      <4> QED BY <4>5 DEF y
    <3> QED BY <3>2, <3>3
  <2> HIDE DEF T
  <2>3. 0..MaxZones \subseteq T
    BY <2>2, ReviewAssumption, UpTo
  <2> QED BY <2>1, <2>3, ReviewAssumption DEF T
<1> HIDE DEF v
<1>3. ~v.skipped => GoodZones(v.file, v.zone) /\ \A i \in Zones : v.zone[i] = NoZone
  BY <1>1, AllReverted DEF v
<1>4. w = ZoneWritten(s, 1, 1, n, base.orig, text)
  BY DEF Applied
<1>5. CASE behavior = "keep-conflicts"
  <2> DEFINE x == WriteAll(v, file)
  <2>1. s = x /\ base.orig = v.file
    BY <1>5 DEF ApplyBase, v
  <2> HIDE DEF base
  <2>2. x.skipped = (v.skipped \/ (file = v.file /\ FALSE))
    BY DEF WriteAll, WriteURIText
  <2>3. ~x.skipped
    <3>1. w.skipped = (s.skipped \/ (text = s.file /\ WholeLines(1, n) # WholeLines(1, Len(s.file))))
      BY <1>4 DEF ZoneWritten, WriteURIText
    <3> HIDE DEF s
    <3> QED BY <2>1, <3>1
  <2>4. GoodZones(v.file, v.zone) /\ \A i \in Zones : v.zone[i] = NoZone
    BY <1>3, <2>2, <2>3
  <2>5. file # <<>> /\ v.file \in FileText /\ v.file # <<>> /\ Len(v.file) \in Nat /\ Len(v.file) >= 1
    BY <2>4, LenProperties, EmptySeq DEF GoodZones, FileText
  <2>6. x.file = file
    <3> DEFINE r == WholeLines(1, Len(v.file))
    <3>1. x = WriteURIText(v, r, file)
      BY DEF WriteAll
    <3> HIDE DEF r, x
    <3>2. x.file = Splice(v.file, r, file)
      BY <2>3, <2>5, <3>1, WriteSplices
    <3> DEFINE f == v.file
               b == Len(f)
    <3>3. 1 \in 1..Len(f) /\ b \in 1..Len(f) /\ f \in FileText
      BY <2>5
    <3> HIDE DEF f, b
    <3>4. Splice(f, WholeLines(1, b), file) = Put(f, 1, b, file)
      BY <1>1, <2>5, <3>3, SpliceLines
    <3>5. Put(f, 1, Len(f), file) = file
      BY <1>1, <3>3, PutAll
    <3> QED BY <3>2, <3>4, <3>5 DEF r, f, b
  <2>7. x.zone = [i \in Zones |-> NoZone]
    BY <2>4 DEF WriteAll, WriteURIText, RealignAll
  <2>8. x = [file |-> x.file, zone |-> x.zone, skipped |-> x.skipped]
    BY DEF WriteAll, WriteURIText
  <2> HIDE DEF x, s
  <2>9. GoodZones(x.file, x.zone) /\ \A i \in Zones : x.zone[i] = NoZone
    BY <1>1, <2>5, <2>6, <2>7 DEF GoodZones
  <2>10. 1 \in 1..Len(x.file) /\ n \in 1..Len(x.file)
    BY <1>1, <2>6
  <2>11. w = ZoneWritten(x, 1, 1, n, v.file, text)
    BY <1>4, <2>1
  <2> HIDE DEF n
  <2> QED BY <2>3, <2>5, <2>8, <2>9, <2>10, <2>11, ZoneWrittenGood
<1>6. CASE behavior = "reject-conflicts"
  <2>1. s = v /\ base.orig = file
    BY <1>6 DEF ApplyBase, v
  <2>2. w = ZoneWritten(v, 1, 1, n, file, text)
    BY <1>4, <2>1
  <2> HIDE DEF base, s, n
  <2> DEFINE z == [start |-> 1, end |-> n, orig |-> file]
             f == v.file
             x == [v EXCEPT !.zone[1] = z]
  <2>3. /\ w = WriteURIText(x, WholeLines(1, n), text)
        /\ x = [file |-> f, zone |-> [v.zone EXCEPT ![1] = z], skipped |-> v.skipped]
    BY <1>2, <2>2 DEF ZoneWritten
  <2> HIDE DEF x
  <2>4. ~v.skipped /\ ~x.skipped
    <3>1. w.skipped = (x.skipped \/ (text = x.file /\ WholeLines(1, n) # WholeLines(1, Len(x.file))))
      BY <2>3 DEF WriteURIText
    <3> QED BY <2>3, <3>1
  <2>5. GoodZones(v.file, v.zone) /\ \A i \in Zones : v.zone[i] = NoZone
    BY <1>3, <2>4
  <2>6. f \in FileText /\ f # <<>> /\ Len(f) \in Nat /\ Len(f) >= 1 /\ file # <<>>
    BY <2>5, LenProperties, EmptySeq DEF GoodZones, FileText
  <2>7. CASE n <= Len(f)
    <3>1. 1 \in 1..Len(f) /\ n \in 1..Len(f)
      BY <1>1, <2>6, <2>7
    <3> HIDE DEF f
    <3>2. \A j \in Zones : v.zone[j] # NoZone => Apart(v.zone[j], 1, n)
      BY <2>5
    <3>3. 1 \in 1..Len(v.file) /\ n \in 1..Len(v.file)
      BY <3>1 DEF f
    <3> QED BY <1>1, <1>2, <2>2, <2>4, <2>5, <2>6, <3>2, <3>3, ZoneWrittenGood
  <2>8. CASE n > Len(f)
    <3> DEFINE b == Len(f)
    <3>1. x.file = f
      BY <2>3
    <3> HIDE DEF f
    <3>2. w.file = Splice(f, WholeLines(1, n), text)
      BY <2>3, <2>6, <3>1, WriteSplices
    <3>3. Splice(f, WholeLines(1, n), text) = Splice(f, WholeLines(1, b), text)
      <4>1. Min({n, b}) = b /\ Min({b, b}) = b
        BY <1>1, <2>6, <2>8, MinPair
      <4>2. /\ WholeLines(1, n).l1 = 1 /\ WholeLines(1, n).c1 = "start" /\ WholeLines(1, n).l2 = n /\ WholeLines(1, n).c2 = "end"
            /\ WholeLines(1, b).l1 = 1 /\ WholeLines(1, b).c1 = "start" /\ WholeLines(1, b).l2 = b /\ WholeLines(1, b).c2 = "end"
        BY DEF WholeLines, Span
      <4> QED BY <4>1, <4>2 DEF Splice
    <3>4. 1 \in 1..Len(f) /\ b \in 1..Len(f) /\ text # <<>>
      BY <2>6, EmptySeq
    <3>5. w.file = text
      <4> HIDE DEF b
      <4>1. Splice(f, WholeLines(1, b), text) = Put(f, 1, b, text)
        BY <2>6, <3>4, SpliceLines
      <4>2. Put(f, 1, Len(f), text) = text
        BY <2>6, PutAll
      <4> QED BY <3>2, <3>3, <4>1, <4>2 DEF b
    <3> DEFINE h == Len(text)
               y == [start |-> 1, end |-> h, orig |-> file]
    <3>6. h \in Nat /\ h >= 1
      BY LenProperties DEF FileText
    <3>7. w.zone = [i \in Zones |-> IF i = 1 THEN y ELSE NoZone]
      <4> DEFINE xs == [v.zone EXCEPT ![1] = z]
      <4>1. w.zone = RealignAll(xs, text, 1, n)
        BY <2>3 DEF WriteURIText, WholeLines, Span
      <4>2. v.zone = [i \in Zones |-> NoZone]
        BY <2>5 DEF GoodZones
      <4>3. xs[1] = z /\ \A i \in Zones \ {1} : xs[i] = NoZone
        BY <4>2
      <4>4. Realigned(z, text, 1, n) = y
        <5>1. z.start = 1 /\ z.end = n /\ ~(z.end < 1) /\ ~(n < z.start) /\ 1 >= z.start /\ n <= z.end
              /\ ~(z.start > 1 /\ z.end < n) /\ ~(1 < z.start)
          BY <1>1
        <5>2. Realigned(z, text, 1, n) = [z EXCEPT !.end = @ + (h - (n - 1 + 1))]
          BY <5>1 DEF Realigned
        <5>3. n + (h - (n - 1 + 1)) = h
          BY <1>1, <3>6
        <5> HIDE DEF h
        <5> QED BY <5>2, <5>3
      <4>5. z # NoZone
        BY <1>1, NotAZone DEF DiffZone
      <4> HIDE DEF xs, z, y
      <4>6. \A i \in Zones : (IF xs[i] = NoZone THEN NoZone ELSE Realigned(xs[i], text, 1, n)) = IF i = 1 THEN y ELSE NoZone
        BY <4>3, <4>4, <4>5
      <4> QED BY <4>1, <4>6 DEF RealignAll
    <3>8. y \in DiffZone /\ y.start = 1 /\ y.end = h /\ y.orig = file
      BY <1>1, <3>6 DEF DiffZone
    <3> HIDE DEF y
    <3>9. ZoneOK(text, y)
      BY <2>6, <3>6, <3>8 DEF ZoneOK
    <3>10. \A i \in Zones : w.zone[i] = IF i = 1 THEN y ELSE NoZone
      BY <3>7
    <3>11. w.zone \in [Zones -> DiffZone \cup {NoZone}]
      BY <3>7, <3>8
    <3> QED BY <3>4, <3>5, <3>9, <3>10, <3>11 DEF GoodZones
  <2>9. n <= Len(f) \/ n > Len(f)
    BY <1>1, <2>6
  <2> QED BY <2>7, <2>8, <2>9
<1> QED BY <1>5, <1>6

LEMMA QuickEditedIsGood ==
  ASSUME GoodZones(file, zone), NEW i \in Zones, FreshZone(i), NEW a \in 1..Len(file), NEW b \in a..Len(file),
         \A j \in Live : Apart(zone[j], a, b), NEW text \in FileText, Len(text) >= 1,
         NEW w, w = QuickEdited(i, a, b, text), ~w.skipped
  PROVE  GoodZones(w.file, w.zone)
<1>1. /\ FileState = [file |-> FileState.file, zone |-> FileState.zone, skipped |-> FileState.skipped]
      /\ FileState.file = file /\ FileState.zone = zone /\ ~FileState.skipped
  BY DEF FileState
<1>2. file \in FileText /\ Len(file) \in Nat
  BY LenProperties DEF GoodZones, FileText
<1> DEFINE orig == SubSeq(file, a, b)
<1>3. orig \in FileText /\ orig # <<>>
  <2>1. a \in 1..(Len(file) + 1) /\ b \in (a - 1)..Len(file) /\ b - a + 1 >= 1
    BY <1>2
  <2>2. orig \in FileText /\ Len(orig) = b - a + 1
    BY <1>2, <2>1, SubText
  <2> HIDE DEF orig
  <2> QED BY <2>1, <2>2, EmptySeq
<1>4. w = ZoneWritten(FileState, i, a, b, orig, text)
  BY DEF QuickEdited
<1>5. zone[i] = NoZone /\ \A j \in Zones : zone[j] # NoZone => Apart(zone[j], a, b)
  BY DEF FreshZone, Live
<1> HIDE DEF orig
<1> DEFINE s == FileState
<1>6. /\ s = [file |-> s.file, zone |-> s.zone, skipped |-> s.skipped]
      /\ GoodZones(s.file, s.zone) /\ ~s.skipped /\ s.zone[i] = NoZone
      /\ a \in 1..Len(s.file) /\ b \in a..Len(s.file)
      /\ \A j \in Zones : s.zone[j] # NoZone => Apart(s.zone[j], a, b)
      /\ w = ZoneWritten(s, i, a, b, orig, text)
  BY <1>1, <1>4, <1>5
<1> HIDE DEF s
<1> QED BY <1>3, <1>6, ZoneWrittenGood

LEMMA TypedLinesGood ==
  ASSUME GoodZones(file, zone), NEW a \in 1..Len(file), NEW b \in a..Len(file), Local(zone, a, b),
         NEW text \in FileText, Len(text) >= 1, NEW s, s = Typed(WholeLines(a, b), text)
  PROVE  GoodZones(s.file, s.zone)
<1> DEFINE r == WholeLines(a, b)
<1>1. r.l1 = a /\ r.l2 = b
  BY DEF WholeLines, Span
<1>2. file \in FileText /\ Len(file) \in Nat /\ text # <<>>
  BY LenProperties, EmptySeq DEF GoodZones, FileText
<1>3. Splice(file, r, text) = Put(file, a, b, text)
  BY <1>2, SpliceLines
<1>4. Replaced(Splice(file, r, text), file, a, b, text, Len(text))
  <2>1. a \in 1..(Len(file) + 1) /\ b \in (a - 1)..Len(file)
    BY <1>2
  <2> QED BY <1>2, <1>3, <2>1, PutLines DEF Replaced
<1>5. s = Typed(r, text)
  OBVIOUS
<1> HIDE DEF r
<1> QED BY <1>1, <1>4, <1>5, TypedIsGood

LEMMA DeletedGood ==
  ASSUME GoodZones(file, zone), NEW a \in 1..Len(file), NEW b \in a..Len(file), b < Len(file), Local(zone, a, b + 1),
         NEW s, s = Deleted(a, b)
  PROVE  GoodZones(s.file, s.zone)
<1> DEFINE c == b + 1
           r == Span(a, "start", c, "start")
           m == <<file[c]>>
           p == Splice(file, r, Empty)
<1>1. r.l1 = a /\ r.l2 = c
  BY DEF Span
<1>2. file \in FileText /\ Len(file) \in Nat
  BY LenProperties DEF GoodZones, FileText
<1>3. c \in a..Len(file) /\ b \in a..(Len(file) - 1)
  BY <1>2
<1>4. p = Put(file, a, c, m)
  BY <1>2, <1>3, SpliceDelete
<1>5. m \in FileText /\ Len(m) = 1
  <2>1. file[c] \in Line
    BY <1>2, <1>3, ElementOfSeq DEF FileText
  <2> QED BY <2>1 DEF FileText
<1>6. Replaced(p, file, a, c, m, 1)
  <2> HIDE DEF c, m, p
  <2>1. a \in 1..(Len(file) + 1) /\ c \in (a - 1)..Len(file)
    BY <1>2, <1>3
  <2> QED BY <1>2, <1>4, <1>5, <2>1, PutLines DEF Replaced
<1>7. s = Typed(r, Empty) /\ Local(zone, a, c)
  BY DEF Deleted
<1>8. Replaced(Splice(file, r, Empty), file, a, c, m, Len(Empty)) /\ Len(Empty) >= 1 /\ Empty \in FileText
  BY <1>6, EmptyText
<1> HIDE DEF c, r, m, p
<1> QED BY <1>1, <1>3, <1>7, <1>8, TypedIsGood

\* Every step keeps the zones good, and the diffs those of the zones.
LEMMA NextGood ==
  ASSUME Copies = FALSE, TypingOps \subseteq {"replace", "deleteLines"}, ReviewInv, [ReviewNext]_reviewVars
  PROVE  ReviewInv'
<1>1. CASE UNCHANGED reviewVars
  <2>1. file' = file /\ zone' = zone /\ diffs' = diffs
    BY <1>1 DEF reviewVars
  <2> QED BY <2>1 DEF ReviewInv
<1>2. GoodZones(file, zone) /\ file \in FileText /\ Len(file) \in Nat
  BY LenProperties DEF ReviewInv, GoodZones, FileText
<1>3. \A r \in LineRanges : r[1] \in 1..Len(file) /\ r[2] \in r[1]..Len(file)
  BY <1>2 DEF LineRanges
<1>4. ASSUME NEW text \in Texts(MaxNew) PROVE text \in FileText /\ Len(text) >= 1
  BY ReviewAssumption, TextsAreTexts
<1>5. ASSUME NEW i \in Live, NEW d \in diffs[i], AcceptDiff(i, d) PROVE ReviewInv'
  BY <1>5, AcceptedIsGood, RefreshedGood DEF AcceptDiff
<1>6. ASSUME NEW i \in Live, NEW d \in diffs[i], RejectDiff(i, d) PROVE ReviewInv'
  <2> DEFINE s == DiffRejected(i, d)
  <2>1. IsDiff(zone[i], d)
    BY <1>2, ShownDiffs DEF ReviewInv, GoodZones, Live
  <2>2. ~s.skipped => GoodZones(s.file, s.zone)
    BY <1>2, <2>1, RejectedIsGood
  <2>3. Refreshed(s)
    BY <1>6 DEF RejectDiff
  <2> HIDE DEF s
  <2> QED BY <2>2, <2>3, RefreshedGood
<1>7. ASSUME AcceptAll PROVE ReviewInv'
  <2> DEFINE s == AcceptedAll(FileState)
  <2>1. s.file = file /\ s.zone = [i \in Zones |-> IF i \in Zones THEN NoZone ELSE zone[i]]
    BY DEF AcceptedAll, WithoutZones, FileState
  <2>2. Refreshed(s)
    BY <1>7 DEF AcceptAll
  <2> HIDE DEF s
  <2>3. GoodZones(s.file, s.zone)
    BY <1>2, <2>1, WithoutSome
  <2> QED BY <2>2, <2>3, RefreshedGood
<1>8. ASSUME RejectAll PROVE ReviewInv'
  <2> DEFINE s == RejectedAll(FileState)
  <2>1. FileState.file = file /\ FileState.zone = zone
    BY DEF FileState
  <2>2. ~s.skipped => GoodZones(s.file, s.zone)
    BY <1>2, <2>1, AllReverted
  <2>3. Refreshed(s)
    BY <1>8 DEF RejectAll
  <2> HIDE DEF s
  <2> QED BY <2>2, <2>3, RefreshedGood
<1>9. ASSUME NEW i \in Zones, NEW r \in LineRanges, NEW text \in Texts(MaxNew), QuickEdit(i, r[1], r[2], text)
      PROVE  ReviewInv'
  <2> DEFINE a == r[1]
             b == r[2]
             s == QuickEdited(i, a, b, text)
  <2>1. FreshZone(i) /\ (\A j \in Live : Apart(zone[j], a, b)) /\ Refreshed(s)
    BY <1>9 DEF QuickEdit
  <2>2. a \in 1..Len(file) /\ b \in a..Len(file)
    BY <1>3
  <2> HIDE DEF a, b
  <2>3. ~s.skipped => GoodZones(s.file, s.zone)
    BY <1>2, <1>4, <2>1, <2>2, QuickEditedIsGood
  <2> HIDE DEF s
  <2> QED BY <2>1, <2>3, RefreshedGood
<1>10. ASSUME NEW i \in Zones, NEW behavior \in Behaviors, NEW text \in Texts(MaxNew), ApplyFile(i, behavior, text)
       PROVE  ReviewInv'
  <2> DEFINE s == Applied(1, behavior, text)
  <2>1. 1 \in Zones /\ Refreshed(s) /\ behavior \in {"keep-conflicts", "reject-conflicts"}
    BY <1>10, ReviewAssumption DEF ApplyFile
  <2>2. ~s.skipped => GoodZones(s.file, s.zone)
    BY <1>2, <1>4, <2>1, AppliedIsGood
  <2> HIDE DEF s
  <2> QED BY <2>1, <2>2, RefreshedGood
<1>11. ASSUME NEW r \in LineRanges, NEW text \in Texts(MaxNew), TypeLines(r[1], r[2], text) PROVE ReviewInv'
  <2> DEFINE a == r[1]
             b == r[2]
             s == Typed(WholeLines(a, b), text)
  <2>1. InOneZone(a, b) /\ (\A i \in Live : ~Around(i, a, b)) /\ Refreshed(s)
    BY <1>11 DEF TypeLines
  <2>2. a \in 1..Len(file) /\ b \in a..Len(file)
    BY <1>3
  <2> HIDE DEF a, b
  <2>3. Local(zone, a, b)
    BY <2>1, OneZoneIsLocal
  <2>4. GoodZones(s.file, s.zone)
    BY <1>2, <1>4, <2>2, <2>3, TypedLinesGood
  <2> HIDE DEF s
  <2> QED BY <2>1, <2>4, RefreshedGood
<1>12. ASSUME NEW r \in LineRanges, DeleteLines(r[1], r[2]) PROVE ReviewInv'
  <2> DEFINE a == r[1]
             b == r[2]
             s == Deleted(a, b)
  <2>1. InOneZone(a, b + 1) /\ (\A i \in Live : ~Around(i, a, b + 1)) /\ Refreshed(s) /\ b < Len(file)
    BY <1>12 DEF DeleteLines
  <2>2. a \in 1..Len(file) /\ b \in a..Len(file)
    BY <1>3
  <2> HIDE DEF a, b
  <2>3. Local(zone, a, b + 1)
    BY <2>1, OneZoneIsLocal
  <2>4. GoodZones(s.file, s.zone)
    BY <1>2, <2>1, <2>2, <2>3, DeletedGood
  <2> HIDE DEF s
  <2> QED BY <2>1, <2>4, RefreshedGood
<1> QED BY <1>1, <1>5, <1>6, <1>7, <1>8, <1>9, <1>10, <1>11, <1>12 DEF ReviewNext

\* In every reachable state the zones are good, and the diffs are those of the zones.
THEOREM ZonesStayGood ==
  ASSUME Copies = FALSE, TypingOps \subseteq {"replace", "deleteLines"}
  PROVE  ReviewSpec => []ReviewInv
<1>1. ReviewInv /\ [ReviewNext]_reviewVars => ReviewInv'
  BY NextGood
<1> QED BY <1>1, InitGood, PTL DEF ReviewSpec

\* rejectDiff puts the original lines of a diff back where the diff is and changes no
\* other line of the file, unless the diff inserts lines at the end of its zone.
THEOREM RejectIsExactAlways ==
  ASSUME Copies = FALSE, TypingOps \subseteq {"replace", "deleteLines"}
  PROVE  ReviewSpec => []RejectIsExact
<1>1. ReviewInv => RejectIsExact
  BY GoodRejectsExactly DEF ReviewInv
<1> QED BY <1>1, ZonesStayGood, PTL

\* A diff accepted or rejected in another zone, and typing, deletions and quick edits
\* apart from a zone, leave the zone with its code and its original:
\* _realignAllDiffAreasLines moves its line numbers along with its lines.
THEOREM ZoneKeepsItsLinesAlways ==
  ASSUME Copies = FALSE, TypingOps \subseteq {"replace", "deleteLines"}
  PROVE  ReviewSpec => []ZoneKeepsItsLines
<1>1. ReviewInv => ZoneKeepsItsLines
  BY GoodZonesKeepTheirLines DEF ReviewInv
<1> QED BY <1>1, ZonesStayGood, PTL

\* Rejecting all the zones of a file gives the original file back, whatever the order
\* in which the zones were made: each revert moves those still to be reverted.
THEOREM RejectAllRestoresAlways ==
  ASSUME Copies = FALSE, TypingOps \subseteq {"replace", "deleteLines"}
  PROVE  ReviewSpec => []RejectAllRestores
<1>1. ReviewInv => RejectAllRestores
  <2> SUFFICES ASSUME ReviewInv, ~RejectedAll(FileState).skipped
               PROVE  RejectedAll(FileState).file = OriginalFile(file, zone)
    BY DEF RejectAllRestores
  <2>1. FileState.file = file /\ FileState.zone = zone
    BY DEF FileState
  <2> DEFINE s == FileState
  <2>2. GoodZones(s.file, s.zone) /\ ~RejectedAll(s).skipped
    BY <2>1 DEF ReviewInv
  <2> HIDE DEF s
  <2>3. RejectedAll(s).file = OriginalFile(s.file, s.zone)
    BY <2>2, AllReverted
  <2> QED BY <2>1, <2>3 DEF s
<1> QED BY <1>1, ZonesStayGood, PTL

-----------------------------------------------------------------------------
\* Accepting one diff

\* A set of numbers has a least one.
LEMMA LeastOne ==
  ASSUME NEW S, S \subseteq Nat, S # {}
  PROVE  \E x \in S : \A y \in S : x <= y
<1> DEFINE Less == {p \in Nat \X Nat : p[1] < p[2]}
<1>1. IsWellFoundedOn(Less, Nat)
  <2>1. OpToRel(<, Nat) = Less
    BY DEF OpToRel
  <2> QED BY <2>1, NatLessThanWellFounded
<1> HIDE DEF Less
<1>2. PICK x \in S : \A y \in S : <<y, x>> \notin Less
  BY <1>1, WFMin
<1>3. ASSUME NEW y \in S PROVE x <= y
  <2>1. x \in Nat /\ y \in Nat
    OBVIOUS
  <2>2. <<y, x>> \in Nat \X Nat /\ <<y, x>>[1] = y /\ <<y, x>>[2] = x
    BY <2>1
  <2>3. y < x => <<y, x>> \in Less
    BY <2>2 DEF Less
  <2> QED BY <1>2, <2>1, <2>3
<1> QED BY <1>3

\* Kept lines p and q with none between them
LEMMA NextEdge ==
  ASSUME NEW o \in FileText, NEW n \in FileText, NEW S \in Matchings(o, n), NEW p \in Edges(S, o, n), p[2] # Len(n) + 1
  PROVE  \E q \in Edges(S, o, n) : Adjacent(Edges(S, o, n), p, q)
<1> DEFINE E == Edges(S, o, n)
           end == <<Len(o) + 1, Len(n) + 1>>
           R == {r[1] : r \in {r \in E : p[1] < r[1]}}
<1>1. \A r \in E : r[1] \in 0..(Len(o) + 1) /\ r \in Nat \X Nat /\ (r[1] = Len(o) + 1 <=> r[2] = Len(n) + 1)
  BY EdgesInOrder
<1>2. Len(o) \in Nat /\ Len(n) \in Nat
  BY LenProperties DEF FileText
<1>3. end \in E /\ end[1] = Len(o) + 1
  BY DEF Edges
<1>4. p[1] < end[1]
  BY <1>1, <1>2, <1>3
<1> HIDE DEF E, end
<1>5. R \subseteq Nat /\ R # {}
  BY <1>1, <1>3, <1>4
<1>6. PICK x \in R : \A y \in R : x <= y
  BY <1>5, LeastOne
<1>7. PICK q \in E : p[1] < q[1] /\ q[1] = x
  OBVIOUS
<1>8. Adjacent(E, p, q)
  BY <1>6, <1>7 DEF Adjacent
<1> QED BY <1>8 DEF E

\* No kept line is between them, and no other one follows p.
LEMMA NoneBetween ==
  ASSUME NEW o \in FileText, NEW n \in FileText, NEW S \in Matchings(o, n),
         NEW p \in Edges(S, o, n), NEW q \in Edges(S, o, n), Adjacent(Edges(S, o, n), p, q)
  PROVE  /\ p[1] \in Nat /\ p[2] \in Nat /\ q[1] \in Nat /\ q[2] \in Nat
         /\ p[1] < q[1] /\ p[2] < q[2] /\ q[1] <= Len(o) + 1 /\ q[2] <= Len(n) + 1
         /\ \A r \in Edges(S, o, n) : (r[2] <= p[2] /\ r[1] <= p[1]) \/ (q[2] <= r[2] /\ q[1] <= r[1])
         /\ \A r \in Edges(S, o, n) : r[2] = p[2] => r = p
         /\ \A r \in Edges(S, o, n) : Adjacent(Edges(S, o, n), p, r) => r = q
<1> DEFINE E == Edges(S, o, n)
<1>1. \A r, s \in E : /\ r[1] \in Nat /\ r[2] \in Nat /\ r \in Nat \X Nat
                      /\ (r[1] < s[1] <=> r[2] < s[2])
                      /\ r[1] <= Len(o) + 1 /\ r[2] <= Len(n) + 1
  <2>1. ASSUME NEW r \in E, NEW s \in E
        PROVE  /\ r[1] \in Nat /\ r[2] \in Nat /\ r \in Nat \X Nat
               /\ (r[1] < s[1] <=> r[2] < s[2])
               /\ r[1] <= Len(o) + 1 /\ r[2] <= Len(n) + 1
    <3>1. r[1] \in 0..(Len(o) + 1) /\ r[2] \in 0..(Len(n) + 1) /\ r \in Nat \X Nat /\ (r[1] < s[1] <=> r[2] < s[2])
      BY EdgesInOrder
    <3>2. Len(o) \in Nat /\ Len(n) \in Nat
      BY LenProperties DEF FileText
    <3> QED BY <3>1, <3>2
  <2> QED BY <2>1
<1> HIDE DEF E
<1>2. p \in E /\ q \in E /\ p[1] < q[1] /\ \A r \in E : p[1] < r[1] => q[1] <= r[1]
  BY DEF E, Adjacent
<1>3. p[2] < q[2]
  BY <1>1, <1>2
<1>4. ASSUME NEW r \in E PROVE (r[2] <= p[2] /\ r[1] <= p[1]) \/ (q[2] <= r[2] /\ q[1] <= r[1])
  <2>1. p[1] < r[1] => q[1] <= r[1]
    BY <1>2
  <2>2. (p[1] < r[1] <=> p[2] < r[2]) /\ (r[1] < q[1] <=> r[2] < q[2])
    BY <1>1, <1>2
  <2>3. r[1] \in Nat /\ r[2] \in Nat /\ p[1] \in Nat /\ p[2] \in Nat /\ q[1] \in Nat /\ q[2] \in Nat
    BY <1>1, <1>2
  <2> QED BY <2>1, <2>2, <2>3
<1>5. ASSUME NEW r \in E, r[2] = p[2] PROVE r = p
  <2>1. (p[1] < r[1] <=> p[2] < r[2]) /\ (r[1] < p[1] <=> r[2] < p[2])
    BY <1>1, <1>2
  <2>2. r[1] = p[1]
    BY <1>1, <1>2, <1>5, <2>1
  <2> QED BY <1>1, <1>2, <1>5, <2>2
<1>6. ASSUME NEW r \in E, Adjacent(E, p, r) PROVE r = q
  <2>1. r[1] = q[1]
    BY <1>1, <1>2, <1>6 DEF Adjacent
  <2>2. (q[1] < r[1] <=> q[2] < r[2]) /\ (r[1] < q[1] <=> r[2] < q[2])
    BY <1>1, <1>2
  <2>3. r[2] = q[2]
    BY <1>1, <1>2, <2>1, <2>2
  <2> QED BY <1>1, <1>2, <2>1, <2>3
<1>7. p[1] \in Nat /\ p[2] \in Nat /\ q[1] \in Nat /\ q[2] \in Nat /\ q[1] <= Len(o) + 1 /\ q[2] <= Len(n) + 1
  BY <1>1, <1>2
<1> QED BY <1>2, <1>3, <1>4, <1>5, <1>6, <1>7 DEF E

\* The first c lines of a text n, and the lines of a text w behind the first m
Join(n, w, c, m) == SubSeq(n, 1, c) \o SubSeq(w, m + 1, Len(w))

IsJoin(j, n, w, c, m) ==
    /\ j \in FileText
    /\ Len(j) = c + (Len(w) - m)
    /\ \A x \in 1..(c + (Len(w) - m)) : j[x] = IF x <= c THEN n[x] ELSE w[m + (x - c)]

LEMMA JoinType ==
  ASSUME NEW n \in FileText, NEW w \in FileText, NEW c \in 0..Len(n), NEW m \in 0..Len(w)
  PROVE  IsJoin(Join(n, w, c, m), n, w, c, m)
<1>1. Len(n) \in Nat /\ Len(w) \in Nat /\ c \in Nat /\ m \in Nat
  BY LenProperties DEF FileText
<1> DEFINE u == SubSeq(n, 1, c)
           m1 == m + 1
           v == SubSeq(w, m1, Len(w))
           j == u \o v
<1>2. u \in FileText /\ Len(u) = c /\ \A x \in 1..c : u[x] = n[x]
  <2>1. 1 \in 1..(Len(n) + 1) /\ c \in (1 - 1)..Len(n)
    BY <1>1
  <2>2. u \in FileText /\ Len(u) = c - 1 + 1 /\ \A x \in 1..(c - 1 + 1) : u[x] = n[1 + x - 1]
    BY <2>1, SubText
  <2>3. c - 1 + 1 = c /\ \A x \in 1..c : 1 + x - 1 = x
    BY <1>1
  <2> HIDE DEF u
  <2> QED BY <2>2, <2>3
<1>3. v \in FileText /\ Len(v) = Len(w) - m /\ \A x \in 1..(Len(w) - m) : v[x] = w[m + x]
  <2> DEFINE lw == Len(w)
  <2>1. m1 \in 1..(Len(w) + 1) /\ lw \in (m1 - 1)..Len(w)
    BY <1>1
  <2>2. lw - m1 + 1 = lw - m /\ \A x \in 1..(lw - m) : m1 + x - 1 = m + x
    BY <1>1
  <2> HIDE DEF m1, lw
  <2>3. SubSeq(w, m1, lw) \in FileText /\ Len(SubSeq(w, m1, lw)) = lw - m1 + 1
        /\ \A x \in 1..(lw - m1 + 1) : SubSeq(w, m1, lw)[x] = w[m1 + x - 1]
    BY <2>1, SubText
  <2>4. v = SubSeq(w, m1, lw)
    BY DEF lw
  <2> HIDE DEF v
  <2>5. v \in FileText /\ Len(v) = lw - m /\ \A x \in 1..(lw - m) : v[x] = w[m + x]
    BY <2>2, <2>3, <2>4
  <2> QED BY <2>5 DEF lw
<1>4. j = Join(n, w, c, m)
  BY DEF Join
<1> HIDE DEF u, v
<1>5. j \in FileText /\ Len(j) = Len(u) + Len(v)
      /\ \A x \in 1..(Len(u) + Len(v)) : j[x] = IF x <= Len(u) THEN u[x] ELSE v[x - Len(u)]
  BY <1>2, <1>3, ConcatProperties, Zenon DEF FileText
<1> HIDE DEF j
<1>6. ASSUME NEW x \in 1..(c + (Len(w) - m)) PROVE j[x] = IF x <= c THEN n[x] ELSE w[m + (x - c)]
  <2>1. j[x] = IF x <= c THEN u[x] ELSE v[x - c]
    BY <1>2, <1>3, <1>5
  <2>2. x <= c => x \in 1..c
    BY <1>1
  <2>3. ~(x <= c) => x - c \in 1..(Len(w) - m)
    BY <1>1
  <2> QED BY <1>2, <1>3, <2>1, <2>2, <2>3
<1> QED BY <1>2, <1>3, <1>4, <1>5, <1>6 DEF IsJoin

\* Lines that are the same in both may be taken from either.
SameLines(n, w, c, m, t, c2, m2) ==
    /\ c2 = c + t /\ m2 = m + t /\ c2 <= Len(n) /\ m2 <= Len(w)
    /\ \A x \in 1..t : n[c + x] = w[m + x]

LEMMA JoinSame ==
  ASSUME NEW n \in FileText, NEW w \in FileText, NEW c \in 0..Len(n), NEW m \in 0..Len(w), NEW t \in Nat,
         NEW c2, NEW m2, SameLines(n, w, c, m, t, c2, m2)
  PROVE  Join(n, w, c2, m2) = Join(n, w, c, m)
<1>1. Len(n) \in Nat /\ Len(w) \in Nat /\ c \in Nat /\ m \in Nat
  BY LenProperties DEF FileText
<1>0. /\ c2 = c + t /\ m2 = m + t /\ c2 <= Len(n) /\ m2 <= Len(w)
      /\ \A x \in 1..t : n[c + x] = w[m + x]
  BY DEF SameLines
<1> DEFINE j == Join(n, w, c, m)
           c1 == c + t
           m1 == m + t
           k == Join(n, w, c1, m1)
           h == c + (Len(w) - m)
<1>2. j \in FileText /\ Len(j) = h /\ \A x \in 1..h : j[x] = IF x <= c THEN n[x] ELSE w[m + (x - c)]
  <2>1. IsJoin(Join(n, w, c, m), n, w, c, m)
    BY JoinType
  <2> QED BY <2>1 DEF IsJoin
<1>3. k \in FileText /\ Len(k) = h /\ \A x \in 1..h : k[x] = IF x <= c1 THEN n[x] ELSE w[m1 + (x - c1)]
  <2>1. c1 \in 0..Len(n) /\ m1 \in 0..Len(w) /\ h = c1 + (Len(w) - m1)
    BY <1>0, <1>1
  <2> HIDE DEF c1, m1, h
  <2>2. IsJoin(Join(n, w, c1, m1), n, w, c1, m1)
    BY <2>1, JoinType
  <2> QED BY <2>1, <2>2 DEF IsJoin
<1> HIDE DEF j, k
<1>4. ASSUME NEW x \in 1..h PROVE k[x] = j[x]
  <2>1. x \in Nat
    BY <1>1
  <2>2. CASE x <= c
    <3>1. x <= c1
      BY <1>1, <2>1, <2>2
    <3> QED BY <1>2, <1>3, <2>2, <3>1
  <2>3. CASE ~(x <= c) /\ x <= c1
    <3> DEFINE y == x - c
    <3>1. y \in 1..t /\ c + y = x
      BY <1>1, <2>1, <2>3
    <3>2. k[x] = n[x] /\ j[x] = w[m + y]
      BY <1>2, <1>3, <2>3
    <3> HIDE DEF y
    <3>3. n[c + y] = w[m + y]
      BY <1>0, <3>1
    <3> QED BY <3>1, <3>2, <3>3
  <2>4. CASE ~(x <= c1)
    <3>1. ~(x <= c) /\ m1 + (x - c1) = m + (x - c)
      BY <1>1, <2>1, <2>4
    <3> QED BY <1>2, <1>3, <2>4, <3>1
  <2> QED BY <2>2, <2>3, <2>4
<1> HIDE DEF h
<1>5. k = j
  BY <1>2, <1>3, <1>4, SeqEqual DEF FileText
<1>6. c2 = c1 /\ m2 = m1
  BY <1>0
<1> QED BY <1>5, <1>6 DEF k, j

\* u is lines b + 1 to m of w.
IsPart(u, w, b, m) == u \in FileText /\ Len(u) = m - b /\ \A x \in 1..(m - b) : u[x] = w[b + x]

\* The lines of j behind the first a, up to the first c, give way to u.
Inlaid(j, u, a, c) == SubSeq(j, 1, a) \o u \o SubSeq(j, c + 1, Len(j))

\* Lines of the first are replaced by those of the second that stand for them.
LEMMA JoinTaken ==
  ASSUME NEW n \in FileText, NEW w \in FileText, NEW a \in 0..Len(n), NEW c \in a..Len(n), NEW b \in 0..Len(w), NEW m \in b..Len(w),
         NEW u, IsPart(u, w, b, m), NEW j, j = Join(n, w, c, m)
  PROVE  Inlaid(j, u, a, c) = Join(n, w, a, b)
<1>1. Len(n) \in Nat /\ Len(w) \in Nat /\ c \in Nat /\ m \in Nat /\ a \in Nat /\ b \in Nat /\ c \in 0..Len(n) /\ m \in 0..Len(w)
  BY LenProperties DEF FileText
<1>2. j \in FileText /\ Len(j) = c + (Len(w) - m) /\ \A x \in 1..(c + (Len(w) - m)) : j[x] = IF x <= c THEN n[x] ELSE w[m + (x - c)]
  BY <1>1, JoinType DEF IsJoin
<1>0. u \in FileText /\ Len(u) = m - b /\ \A x \in 1..(m - b) : u[x] = w[b + x]
  BY DEF IsPart
<1> DEFINE a1 == a + 1
           p == Put(j, a1, c, u)
           k == Join(n, w, a, b)
           h == a + (Len(w) - b)
<1>3. SubSeq(j, 1, a) \o u \o SubSeq(j, c + 1, Len(j)) = p
  <2>1. a1 \in 1..(Len(j) + 1) /\ c \in (a1 - 1)..Len(j) /\ a1 - 1 = a
    BY <1>1, <1>2
  <2> HIDE DEF a1
  <2>2. SubSeq(j, 1, a1 - 1) \o u \o SubSeq(j, c + 1, Len(j)) = Put(j, a1, c, u)
    BY <1>0, <1>2, <2>1, PutIsConcat DEF FileText
  <2> QED BY <2>1, <2>2
<1>4. k \in FileText /\ Len(k) = h /\ \A x \in 1..h : k[x] = IF x <= a THEN n[x] ELSE w[b + (x - a)]
  <2>1. b \in 0..Len(w) /\ a \in 0..Len(n)
    OBVIOUS
  <2>2. IsJoin(Join(n, w, a, b), n, w, a, b)
    BY <2>1, JoinType
  <2> QED BY <2>2 DEF IsJoin
<1>5. p \in FileText /\ Len(p) = h
      /\ \A x \in 1..h : p[x] = IF x < a1 THEN j[x] ELSE IF x < a1 + (m - b) THEN u[x - a1 + 1] ELSE j[x - (m - b) + (c - a1 + 1)]
  <2>1. a1 \in 1..(Len(j) + 1) /\ c \in (a1 - 1)..Len(j)
    BY <1>1, <1>2
  <2>2. Len(j) + (m - b) - (c - a1 + 1) = h
    BY <1>1, <1>2
  <2> HIDE DEF a1, h, p
  <2>3. IsPut(p, j, a1, c - a1 + 1, u, Len(u))
    BY <1>0, <1>2, <2>1, PutLines DEF p
  <2> QED BY <1>0, <2>2, <2>3 DEF IsPut
<1> HIDE DEF p, k
<1>6. ASSUME NEW x \in 1..h PROVE p[x] = k[x]
  <2>1. x \in Nat
    BY <1>1
  <2>2. CASE x < a1
    <3>1. x <= a /\ x <= c /\ x \in 1..(c + (Len(w) - m))
      BY <1>1, <2>1, <2>2
    <3> QED BY <1>2, <1>4, <1>5, <2>2, <3>1
  <2>3. CASE ~(x < a1) /\ x < a1 + (m - b)
    <3> DEFINE y == x - a1 + 1
    <3>1. y \in 1..(m - b) /\ ~(x <= a) /\ b + y = b + (x - a)
      BY <1>1, <2>1, <2>3
    <3>2. p[x] = u[y] /\ k[x] = w[b + (x - a)]
      BY <1>4, <1>5, <2>3, <3>1
    <3> HIDE DEF y
    <3>3. u[y] = w[b + y]
      BY <1>0, <3>1
    <3> QED BY <3>1, <3>2, <3>3
  <2>4. CASE ~(x < a1 + (m - b))
    <3> DEFINE y == x - (m - b) + (c - a1 + 1)
    <3>1. y \in 1..(c + (Len(w) - m)) /\ ~(y <= c) /\ m + (y - c) = b + (x - a) /\ ~(x < a1) /\ ~(x <= a)
      BY <1>1, <2>1, <2>4
    <3>2. p[x] = j[y] /\ k[x] = w[b + (x - a)]
      BY <1>4, <1>5, <2>4, <3>1
    <3> HIDE DEF y
    <3>3. j[y] = w[m + (y - c)]
      BY <1>2, <3>1
    <3> QED BY <3>1, <3>2, <3>3
  <2> QED BY <2>2, <2>3, <2>4
<1> HIDE DEF h
<1>7. p = k
  BY <1>4, <1>5, <1>6, SeqEqual DEF FileText
<1> QED BY <1>3, <1>7 DEF k, Inlaid

\* w is o, but for the lines between kept lines a and b: those are the lines of n.
Deciding(o, n, S, a, b, w) ==
    /\ o \in FileText /\ n \in FileText /\ w \in FileText /\ S \in Matchings(o, n)
    /\ a \in Edges(S, o, n) /\ b \in Edges(S, o, n) /\ Adjacent(Edges(S, o, n), a, b)
    /\ Len(w) = Len(o) + (b[2] - a[2]) - (b[1] - a[1])
    /\ \A x \in 1..Len(w) :
         w[x] = IF x <= a[1] THEN o[x]
                ELSE IF x < a[1] + (b[2] - a[2]) THEN n[a[2] + (x - a[1])]
                ELSE o[x - (b[2] - a[2]) + (b[1] - a[1])]

\* Where a kept line p is in w
Pos(p, a, b) == IF p[1] <= a[1] THEN p[1] ELSE p[1] + (b[2] - a[2]) - (b[1] - a[1])

IsPlaced(x, p, n, w) ==
    /\ x \in Nat /\ x <= Len(w) + 1
    /\ p[2] = 0 => x = 0
    /\ p[2] = Len(n) + 1 => x = Len(w) + 1
    /\ p[2] # 0 /\ p[2] # Len(n) + 1 => x \in 1..Len(w) /\ n[p[2]] = w[x]

\* A kept line is the same line in w.
LEMMA PlacedEdge ==
  ASSUME NEW o, NEW n, NEW S, NEW a, NEW b, NEW w, Deciding(o, n, S, a, b, w), NEW p \in Edges(S, o, n)
  PROVE  IsPlaced(Pos(p, a, b), p, n, w)
<1>1. /\ o \in FileText /\ n \in FileText /\ w \in FileText /\ S \in Matchings(o, n)
      /\ a \in Edges(S, o, n) /\ b \in Edges(S, o, n) /\ Adjacent(Edges(S, o, n), a, b)
  BY DEF Deciding
<1> DEFINE lo == Len(o)
           ln == Len(n)
           lw == Len(w)
           a1 == a[1]
           a2 == a[2]
           b1 == b[1]
           b2 == b[2]
           p1 == p[1]
           p2 == p[2]
           x  == Pos(p, a, b)
<1>2. lo \in Nat /\ ln \in Nat /\ lw \in Nat
  BY <1>1, LenProperties DEF FileText
<1>3. /\ a1 \in Nat /\ a2 \in Nat /\ b1 \in Nat /\ b2 \in Nat
      /\ a1 < b1 /\ a2 < b2 /\ b1 <= lo + 1
      /\ (p2 <= a2 /\ p1 <= a1) \/ (b2 <= p2 /\ b1 <= p1)
  BY <1>1, NoneBetween
<1>4. /\ p1 \in 0..(lo + 1) /\ p2 \in 0..(ln + 1) /\ (p1 = 0 <=> p2 = 0) /\ (p1 = lo + 1 <=> p2 = ln + 1)
      /\ (p \in S \/ p1 = 0 \/ p1 = lo + 1) /\ (p \in S => o[p1] = n[p2])
  BY <1>1, EdgesInOrder
<1>5. lw = lo + (b2 - a2) - (b1 - a1)
      /\ \A y \in 1..lw : w[y] = IF y <= a1 THEN o[y] ELSE IF y < a1 + (b2 - a2) THEN n[a2 + (y - a1)]
                                 ELSE o[y - (b2 - a2) + (b1 - a1)]
  BY DEF Deciding
<1>6. x = IF p1 <= a1 THEN p1 ELSE p1 + (b2 - a2) - (b1 - a1)
  BY DEF Pos
<1>7. p2 # 0 /\ p2 # ln + 1 => o[p1] = n[p2] /\ 1 <= p1 /\ p1 <= lo
  BY <1>2, <1>4
<1> HIDE DEF lo, ln, lw, a1, a2, b1, b2, p1, p2, x
<1>8. x \in Nat /\ x <= lw + 1 /\ (p2 = 0 => x = 0) /\ (p2 = ln + 1 => x = lw + 1)
  BY <1>2, <1>3, <1>4, <1>5, <1>6
<1>9. ASSUME p2 # 0, p2 # ln + 1 PROVE x \in 1..lw /\ n[p2] = w[x]
  <2>1. CASE p1 <= a1
    <3>1. x = p1 /\ x \in 1..lw
      BY <1>2, <1>3, <1>4, <1>5, <1>6, <1>7, <1>9, <2>1
    <3>2. w[x] = o[p1]
      BY <1>5, <2>1, <3>1
    <3> QED BY <1>7, <1>9, <3>1, <3>2
  <2>2. CASE ~(p1 <= a1)
    <3>1. x = p1 + (b2 - a2) - (b1 - a1) /\ x \in 1..lw /\ ~(x <= a1) /\ ~(x < a1 + (b2 - a2))
          /\ x - (b2 - a2) + (b1 - a1) = p1
      BY <1>2, <1>3, <1>4, <1>5, <1>6, <1>7, <1>9, <2>2
    <3>2. w[x] = o[x - (b2 - a2) + (b1 - a1)]
      BY <1>5, <3>1
    <3>3. w[x] = o[p1]
      BY <3>1, <3>2
    <3> QED BY <1>7, <1>9, <3>1, <3>3
  <2> QED BY <2>1, <2>2
<1> QED BY <1>8, <1>9 DEF IsPlaced, lw, ln, p2, x

\* Between them w has the lines of n, or those of o.
GapTaken(x, y, p, q, n, w) == y - x = q[2] - p[2] /\ \A k \in 1..(q[2] - p[2] - 1) : n[p[2] + k] = w[x + k]
GapLeft(x, y, p, q, o, w)  == y - x = q[1] - p[1] /\ \A k \in 1..(q[1] - p[1] - 1) : o[p[1] + k] = w[x + k]

LEMMA PlacedGap ==
  ASSUME NEW o, NEW n, NEW S, NEW a, NEW b, NEW w, Deciding(o, n, S, a, b, w),
         NEW p \in Edges(S, o, n), NEW q \in Edges(S, o, n), Adjacent(Edges(S, o, n), p, q)
  PROVE  IF p = a THEN q = b /\ GapTaken(Pos(p, a, b), Pos(q, a, b), p, q, n, w)
                  ELSE GapLeft(Pos(p, a, b), Pos(q, a, b), p, q, o, w)
<1>1. /\ o \in FileText /\ n \in FileText /\ w \in FileText /\ S \in Matchings(o, n)
      /\ a \in Edges(S, o, n) /\ b \in Edges(S, o, n) /\ Adjacent(Edges(S, o, n), a, b)
  BY DEF Deciding
<1> DEFINE lo == Len(o)
           ln == Len(n)
           lw == Len(w)
           a1 == a[1]
           a2 == a[2]
           b1 == b[1]
           b2 == b[2]
           p1 == p[1]
           p2 == p[2]
           q1 == q[1]
           q2 == q[2]
           x  == Pos(p, a, b)
           y  == Pos(q, a, b)
<1>2. lo \in Nat /\ ln \in Nat /\ lw \in Nat
  BY <1>1, LenProperties DEF FileText
<1>3. /\ a1 \in Nat /\ a2 \in Nat /\ b1 \in Nat /\ b2 \in Nat
      /\ a1 < b1 /\ a2 < b2 /\ b1 <= lo + 1 /\ b2 <= ln + 1
      /\ (p2 <= a2 /\ p1 <= a1) \/ (b2 <= p2 /\ b1 <= p1)
      /\ (q2 <= a2 /\ q1 <= a1) \/ (b2 <= q2 /\ b1 <= q1)
      /\ (p = a => q = b)
  <2>1. p = a => q = b
    BY <1>1, NoneBetween
  <2> QED BY <1>1, <2>1, NoneBetween
<1>4. /\ p1 \in Nat /\ p2 \in Nat /\ q1 \in Nat /\ q2 \in Nat
      /\ p1 < q1 /\ p2 < q2 /\ q1 <= lo + 1 /\ q2 <= ln + 1
      /\ (a2 <= p2 /\ a1 <= p1) \/ (q2 <= a2 /\ q1 <= a1)
      /\ (a2 = p2 => a = p)
  BY <1>1, NoneBetween
<1>5. lw = lo + (b2 - a2) - (b1 - a1)
      /\ \A z \in 1..lw : w[z] = IF z <= a1 THEN o[z] ELSE IF z < a1 + (b2 - a2) THEN n[a2 + (z - a1)]
                                 ELSE o[z - (b2 - a2) + (b1 - a1)]
  BY DEF Deciding
<1>6. x = (IF p1 <= a1 THEN p1 ELSE p1 + (b2 - a2) - (b1 - a1))
      /\ y = (IF q1 <= a1 THEN q1 ELSE q1 + (b2 - a2) - (b1 - a1))
  BY DEF Pos
<1>7. p = a => p1 = a1 /\ p2 = a2 /\ q1 = b1 /\ q2 = b2
  BY <1>3
<1> HIDE DEF lo, ln, lw, a1, a2, b1, b2, p1, p2, q1, q2, x, y
<1>8. ASSUME p = a PROVE y - x = q2 - p2 /\ \A k \in 1..(q2 - p2 - 1) : n[p2 + k] = w[x + k]
  <2>1. x = a1 /\ y = a1 + (b2 - a2) /\ y - x = q2 - p2
    BY <1>3, <1>4, <1>6, <1>7, <1>8
  <2>2. ASSUME NEW k \in 1..(q2 - p2 - 1) PROVE n[p2 + k] = w[x + k]
    <3> DEFINE i == x + k
    <3>1. i \in 1..lw /\ ~(i <= a1) /\ i < a1 + (b2 - a2) /\ a2 + (i - a1) = p2 + k
      BY <1>2, <1>3, <1>5, <1>7, <1>8, <2>1
    <3> HIDE DEF i
    <3>2. w[i] = n[a2 + (i - a1)]
      BY <1>5, <3>1
    <3> QED BY <3>1, <3>2 DEF i
  <2> QED BY <2>1, <2>2
<1>9. ASSUME p # a PROVE y - x = q1 - p1 /\ \A k \in 1..(q1 - p1 - 1) : o[p1 + k] = w[x + k]
  <2>1. a2 # p2
    BY <1>4, <1>9
  <2>2. (p1 <= a1 /\ q1 <= a1) \/ (b1 <= p1 /\ b1 <= q1)
    BY <1>3, <1>4, <2>1
  <2>3. CASE p1 <= a1 /\ q1 <= a1
    <3>1. x = p1 /\ y = q1
      BY <1>6, <2>3
    <3>2. ASSUME NEW k \in 1..(q1 - p1 - 1) PROVE o[p1 + k] = w[x + k]
      <4> DEFINE i == x + k
      <4>1. i \in 1..lw /\ i <= a1 /\ i = p1 + k
        BY <1>2, <1>3, <1>4, <1>5, <2>3, <3>1
      <4> HIDE DEF i
      <4>2. w[i] = o[i]
        BY <1>5, <4>1
      <4> QED BY <4>1, <4>2 DEF i
    <3> QED BY <3>1, <3>2
  <2>4. CASE b1 <= p1 /\ b1 <= q1
    <3>1. x = p1 + (b2 - a2) - (b1 - a1) /\ y = q1 + (b2 - a2) - (b1 - a1) /\ y - x = q1 - p1
      BY <1>3, <1>4, <1>6, <2>4
    <3>2. ASSUME NEW k \in 1..(q1 - p1 - 1) PROVE o[p1 + k] = w[x + k]
      <4> DEFINE i == x + k
      <4>1. i \in 1..lw /\ ~(i <= a1) /\ ~(i < a1 + (b2 - a2)) /\ i - (b2 - a2) + (b1 - a1) = p1 + k
        BY <1>2, <1>3, <1>4, <1>5, <2>4, <3>1
      <4> HIDE DEF i
      <4>2. w[i] = o[i - (b2 - a2) + (b1 - a1)]
        BY <1>5, <4>1
      <4> QED BY <4>1, <4>2 DEF i
    <3> QED BY <3>1, <3>2
  <2> QED BY <2>2, <2>3, <2>4
<1>10. CASE p = a
  <2>1. GapTaken(x, y, p, q, n, w)
    BY <1>8, <1>10 DEF GapTaken, p2, q2
  <2> QED BY <1>3, <1>10, <2>1 DEF x, y
<1>11. CASE p # a
  <2>1. GapLeft(x, y, p, q, o, w)
    BY <1>9, <1>11 DEF GapLeft, p1, q1
  <2> QED BY <1>11, <2>1 DEF x, y
<1> QED BY <1>10, <1>11

\* v is what becomes of n when the gaps at its lines l and below are taken back
AtLine(v, l, o, n, S, a, b, w) ==
    /\ l > Len(n) + 1 => v = n
    /\ l <= 1 => v = w
    /\ \A p, q \in Edges(S, o, n) :
         Adjacent(Edges(S, o, n), p, q) /\ p[2] < l /\ l <= q[2] =>
           v = IF l = p[2] + 1 THEN Join(n, w, p[2], Pos(p, a, b)) ELSE Join(n, w, q[2] - 1, Pos(q, a, b) - 1)

\* A text is the first lines of itself.
LEMMA JoinEnds ==
  ASSUME NEW n \in FileText, NEW w \in FileText
  PROVE  Join(n, w, Len(n), Len(w)) = n /\ Join(n, w, 0, 0) = w
<1> DEFINE ln == Len(n)
           lw == Len(w)
<1>1. ln \in Nat /\ lw \in Nat /\ ln \in 0..Len(n) /\ lw \in 0..Len(w) /\ 0 \in 0..Len(n) /\ 0 \in 0..Len(w)
  BY LenProperties DEF FileText
<1>2. Join(n, w, ln, lw) = n
  <2> DEFINE j == Join(n, w, ln, lw)
  <2> HIDE DEF ln, lw
  <2>1. IsJoin(j, n, w, ln, lw)
    BY <1>1, JoinType
  <2> HIDE DEF j
  <2>2. j \in FileText /\ Len(j) = ln + (Len(w) - lw)
        /\ \A x \in 1..(ln + (Len(w) - lw)) : j[x] = IF x <= ln THEN n[x] ELSE w[lw + (x - ln)]
    BY <2>1 DEF IsJoin
  <2>3. Len(w) = lw /\ Len(n) = ln
    BY DEF ln, lw
  <2>4. Len(j) = Len(n) /\ \A x \in 1..Len(n) : j[x] = n[x]
    BY <1>1, <2>2, <2>3
  <2>5. j = n
    BY <2>2, <2>4, SeqEqual DEF FileText
  <2> QED BY <2>5 DEF j
<1>3. Join(n, w, 0, 0) = w
  <2> DEFINE j == Join(n, w, 0, 0)
  <2>1. IsJoin(j, n, w, 0, 0)
    BY <1>1, JoinType
  <2> HIDE DEF j
  <2>2. j \in FileText /\ Len(j) = 0 + (lw - 0)
        /\ \A x \in 1..(0 + (lw - 0)) : j[x] = IF x <= 0 THEN n[x] ELSE w[0 + (x - 0)]
    BY <2>1 DEF IsJoin
  <2> HIDE DEF ln
  <2>3. Len(j) = Len(w) /\ \A x \in 1..Len(w) : j[x] = w[x]
    BY <1>1, <2>2
  <2>4. j = w
    BY <2>2, <2>3, SeqEqual DEF FileText
  <2> QED BY <2>4 DEF j
<1> QED BY <1>2, <1>3

\* Before the diff between p and q is taken back, if there is one
LEMMA BeforeGap ==
  ASSUME NEW o, NEW n, NEW S, NEW a, NEW b, NEW w, Deciding(o, n, S, a, b, w),
         NEW p \in Edges(S, o, n), NEW q \in Edges(S, o, n), Adjacent(Edges(S, o, n), p, q),
         NEW l \in Nat, NEW l1, l1 = l + 1, p[2] < l, l <= q[2], NEW v, AtLine(v, l1, o, n, S, a, b, w)
  PROVE  v = Join(n, w, q[2] - 1, Pos(q, a, b) - 1)
<1>1. o \in FileText /\ n \in FileText /\ w \in FileText /\ S \in Matchings(o, n)
  BY DEF Deciding
<1> DEFINE E  == Edges(S, o, n)
           p2 == p[2]
           q2 == q[2]
           y  == Pos(q, a, b)
           ln == Len(n)
           lw == Len(w)
<1>2. p2 \in Nat /\ q2 \in Nat /\ p2 < q2 /\ q2 <= ln + 1 /\ ln \in Nat /\ lw \in Nat
  BY <1>1, NoneBetween, LenProperties DEF FileText
<1>3. IsPlaced(y, q, n, w)
  BY PlacedEdge
<1>4. CASE l < q2
  <2>1. p2 < l1 /\ l1 <= q2 /\ l1 # p2 + 1
    BY <1>2, <1>4
  <2> QED BY <2>1 DEF AtLine
<1>5. CASE l = q2 /\ q2 = ln + 1
  <2>1. l1 > ln + 1 /\ q2 - 1 = ln
    BY <1>2, <1>5
  <2>2. y - 1 = lw
    BY <1>2, <1>3, <1>5 DEF IsPlaced
  <2>3. v = n
    BY <2>1 DEF AtLine
  <2>4. Join(n, w, ln, lw) = n
    BY <1>1, JoinEnds
  <2> QED BY <2>1, <2>2, <2>3, <2>4
<1>6. CASE l = q2 /\ q2 # ln + 1
  <2>1. PICK r \in E : Adjacent(E, q, r)
    BY <1>1, <1>6, NextEdge
  <2>2. q2 < r[2] /\ r[2] \in Nat
    BY <1>1, <2>1, NoneBetween
  <2>3. q2 < l1 /\ l1 <= r[2] /\ l1 = q2 + 1
    BY <1>2, <1>6, <2>2
  <2>4. v = Join(n, w, q2, y)
    BY <2>1, <2>3 DEF AtLine
  <2>5. q2 # 0 /\ y \in 1..lw /\ n[q2] = w[y]
    BY <1>2, <1>3, <1>6 DEF IsPlaced
  <2> DEFINE c == q2 - 1
             m == y - 1
  <2>6. c \in 0..Len(n) /\ m \in 0..Len(w) /\ c + 1 = q2 /\ m + 1 = y /\ c + 1 <= Len(n) /\ m + 1 <= Len(w) /\ 1 \in Nat
    <3>1. q2 \in Nat /\ ln \in Nat /\ lw \in Nat /\ q2 # 0 /\ q2 <= ln /\ y \in 1..lw
      BY <1>2, <1>6, <2>5
    <3> HIDE DEF q2, y, ln, lw
    <3>2. c \in 0..ln /\ m \in 0..lw /\ c + 1 = q2 /\ m + 1 = y /\ c + 1 <= ln /\ m + 1 <= lw
      BY <3>1
    <3> QED BY <3>2 DEF ln, lw
  <2> HIDE DEF c, m, q2, y
  <2>7. SameLines(n, w, c, m, 1, q2, y)
    BY <2>5, <2>6 DEF SameLines
  <2>8. Join(n, w, q2, y) = Join(n, w, c, m)
    BY <1>1, <2>6, <2>7, JoinSame
  <2> QED BY <2>4, <2>6, <2>8 DEF c, m, q2, y
<1>7. l < q2 \/ (l = q2 /\ q2 = ln + 1) \/ (l = q2 /\ q2 # ln + 1)
  BY <1>2
<1> QED BY <1>4, <1>5, <1>6, <1>7

\* The diffs other than d whose lines in the file begin at a line
Others(S, o, n, k, d, x) == {e \in Gaps(S, o, n, k) \ {d} : e.n1 = x}

\* e is the gap that begins at line l.
BeginsAt(e, o, n, S, k, l) ==
    \E p, q \in Edges(S, o, n) :
       /\ Adjacent(Edges(S, o, n), p, q) /\ q # <<p[1] + 1, p[2] + 1>> /\ e = Gap(p, q, k)
       /\ l = p[2] + 1 /\ l >= 1 /\ l <= Len(n) + 1

\* Which it is between p and q
HereOnly(p, q, a, k, l) == IF l = p[2] + 1 /\ p # a /\ q # <<p[1] + 1, p[2] + 1>> THEN {Gap(p, q, k)} ELSE {}

\* At a line there is the diff of the gap that begins there, if it is one and not d.
LEMMA GapFrom ==
  ASSUME NEW o \in FileText, NEW n \in FileText, NEW S \in Matchings(o, n), NEW k \in Nat, NEW l \in Int, NEW d,
         NEW e \in Others(S, o, n, k, d, k + l)
  PROVE  BeginsAt(e, o, n, S, k, l)
<1>1. e \in Gaps(S, o, n, k) /\ e.n1 = k + l
  BY DEF Others
<1>2. PICK p \in Edges(S, o, n), q \in Edges(S, o, n) :
         Adjacent(Edges(S, o, n), p, q) /\ q # <<p[1] + 1, p[2] + 1>> /\ e = Gap(p, q, k)
  BY <1>1 DEF Gaps
<1>3. e.n1 = k + p[2] + 1
  BY <1>2 DEF Gap
<1>4. p[2] \in Nat /\ q[2] \in Nat /\ p[2] < q[2] /\ q[2] <= Len(n) + 1 /\ Len(n) \in Nat
  BY <1>2, NoneBetween, LenProperties DEF FileText
<1>5. l = p[2] + 1 /\ l >= 1 /\ l <= Len(n) + 1
  <2> DEFINE x == p[2]
             y == q[2]
             ln == Len(n)
  <2>1. x \in Nat /\ y \in Nat /\ ln \in Nat /\ x < y /\ y <= ln + 1 /\ k + l = k + x + 1
    BY <1>1, <1>3, <1>4
  <2> HIDE DEF x, y, ln
  <2>2. l = x + 1 /\ l >= 1 /\ l <= ln + 1
    BY <2>1
  <2> QED BY <2>2 DEF x, y, ln
<1> QED BY <1>2, <1>5 DEF BeginsAt

LEMMA WhichGap ==
  ASSUME NEW o \in FileText, NEW n \in FileText, NEW S \in Matchings(o, n), NEW k \in Nat,
         NEW a \in Edges(S, o, n), NEW b \in Edges(S, o, n), Adjacent(Edges(S, o, n), a, b), NEW d, d = Gap(a, b, k),
         NEW p \in Edges(S, o, n), NEW q \in Edges(S, o, n), Adjacent(Edges(S, o, n), p, q),
         NEW l \in Nat, p[2] < l, l <= q[2]
  PROVE  Others(S, o, n, k, d, k + l) = HereOnly(p, q, a, k, l)
<1> DEFINE E == Edges(S, o, n)
           G == Others(S, o, n, k, d, k + l)
<1>1. ASSUME NEW e \in G
      PROVE  l = p[2] + 1 /\ p # a /\ q # <<p[1] + 1, p[2] + 1>> /\ e = Gap(p, q, k)
  <2>1. e # d
    BY DEF Others
  <2>2. PICK r \in E, s \in E :
           /\ Adjacent(E, r, s) /\ s # <<r[1] + 1, r[2] + 1>> /\ e = Gap(r, s, k)
           /\ l = r[2] + 1
    <3>1. l \in Int /\ e \in Others(S, o, n, k, d, k + l)
      OBVIOUS
    <3>2. BeginsAt(e, o, n, S, k, l)
      BY <3>1, GapFrom
    <3> QED BY <3>2 DEF BeginsAt
  <2>3. p[2] \in Nat /\ q[2] \in Nat /\ (r[2] <= p[2] \/ q[2] <= r[2]) /\ (r[2] = p[2] => r = p)
    BY NoneBetween
  <2>4. r[2] \in Nat
    BY EdgesInOrder
  <2>5. r[2] = p[2]
    BY <2>2, <2>3, <2>4
  <2>6. r = p
    BY <2>3, <2>5
  <2>7. s = q
    BY <2>2, <2>6, NoneBetween
  <2>8. p = a => q = b
    BY NoneBetween
  <2> QED BY <2>1, <2>2, <2>6, <2>7, <2>8
<1>2. ASSUME l = p[2] + 1, p # a, q # <<p[1] + 1, p[2] + 1>> PROVE Gap(p, q, k) \in G
  <2> DEFINE e == Gap(p, q, k)
  <2>1. e \in Gaps(S, o, n, k)
    <3> HIDE DEF e
    <3>1. <<p, q>> \in {x \in E \X E : Adjacent(E, x[1], x[2]) /\ x[2] # <<x[1][1] + 1, x[1][2] + 1>>}
      BY <1>2
    <3>2. Gap(<<p, q>>[1], <<p, q>>[2], k) = e
      BY DEF e
    <3> QED BY <3>1, <3>2 DEF Gaps
  <2>2. p[2] \in Nat /\ a[2] \in Nat /\ (a[2] = p[2] => a = p)
    BY NoneBetween
  <2>3. e.n1 = k + p[2] + 1 /\ d.n1 = k + a[2] + 1
    BY DEF Gap
  <2>4. e.n1 = k + l /\ e.n1 # d.n1
    BY <1>2, <2>2, <2>3
  <2> QED BY <2>1, <2>4 DEF Others
<1>3. G = IF l = p[2] + 1 /\ p # a /\ q # <<p[1] + 1, p[2] + 1>> THEN {Gap(p, q, k)} ELSE {}
  <2> HIDE DEF G
  <2> QED BY <1>1, <1>2
<1> QED BY <1>3 DEF HereOnly

\* What a gap gives when it is taken back
LEMMA GapTakenBack ==
  ASSUME NEW o, NEW n, NEW S, NEW a, NEW b, NEW w, Deciding(o, n, S, a, b, w), NEW k \in Nat,
         NEW z, z.start = k + 1, z.orig = o,
         NEW p \in Edges(S, o, n), NEW q \in Edges(S, o, n), Adjacent(Edges(S, o, n), p, q), p # a,
         NEW v, v = Join(n, w, q[2] - 1, Pos(q, a, b) - 1)
  PROVE  TakenBack(v, z, Gap(p, q, k)) = Join(n, w, p[2], Pos(p, a, b))
<1>1. o \in FileText /\ n \in FileText /\ w \in FileText /\ S \in Matchings(o, n)
  BY DEF Deciding
<1> DEFINE p1 == p[1]
           p2 == p[2]
           q1 == q[1]
           q2 == q[2]
           x  == Pos(p, a, b)
           y  == Pos(q, a, b)
           lo == Len(o)
           ln == Len(n)
           lw == Len(w)
           g  == Gap(p, q, k)
<1>2. /\ p1 \in Nat /\ p2 \in Nat /\ q1 \in Nat /\ q2 \in Nat /\ p1 < q1 /\ p2 < q2 /\ q1 <= lo + 1 /\ q2 <= ln + 1
      /\ lo \in Nat /\ ln \in Nat /\ lw \in Nat
  BY <1>1, NoneBetween, LenProperties DEF FileText
<1>3. x \in Nat /\ y \in Nat /\ x <= lw + 1 /\ y <= lw + 1
  BY PlacedEdge DEF IsPlaced
<1>4. y - x = q1 - p1 /\ \A i \in 1..(q1 - p1 - 1) : o[p1 + i] = w[x + i]
  BY PlacedGap DEF GapLeft
<1>5. g.o1 = p1 + 1 /\ g.o2 = q1 - 1 /\ g.n1 = k + p2 + 1 /\ g.n2 = k + q2 - 1
  BY DEF Gap
<1> HIDE DEF p1, p2, q1, q2, x, y, lo, ln, lw, g
<1> DEFINE c  == q2 - 1
           m  == y - 1
           o1 == p1 + 1
           o2 == q1 - 1
           u  == SubSeq(o, o1, o2)
<1>6. g.n1 - z.start = p2 /\ g.n2 - z.start + 2 = c + 1
  BY <1>2, <1>5
<1>7. TakenBack(v, z, g) = SubSeq(v, 1, p2) \o u \o SubSeq(v, c + 1, Len(v))
  BY <1>5, <1>6 DEF TakenBack
<1>8. /\ p2 \in 0..Len(n) /\ c \in p2..Len(n) /\ x \in 0..Len(w) /\ m \in x..Len(w)
      /\ o1 \in 1..(Len(o) + 1) /\ o2 \in (o1 - 1)..Len(o) /\ o2 - o1 + 1 = m - x /\ q1 - p1 - 1 = m - x
      /\ \A i \in 1..(m - x) : o1 + i - 1 = p1 + i
  <2>1. Len(o) = lo /\ Len(n) = ln /\ Len(w) = lw
    BY DEF lo, ln, lw
  <2> QED BY <1>2, <1>3, <1>4, <2>1
<1>9. v = Join(n, w, c, m)
  BY DEF c, m, q2, y
<1> HIDE DEF c, m, o1, o2, u
<1>10. u \in FileText /\ Len(u) = o2 - o1 + 1 /\ \A i \in 1..(o2 - o1 + 1) : u[i] = o[o1 + i - 1]
  BY <1>1, <1>8, SubText DEF u
<1>11. IsPart(u, w, x, m)
  BY <1>4, <1>8, <1>10 DEF IsPart
<1>12. Inlaid(v, u, p2, c) = Join(n, w, p2, x)
  <2>1. p2 \in 0..Len(n) /\ c \in p2..Len(n) /\ x \in 0..Len(w) /\ m \in x..Len(w)
    BY <1>8
  <2> QED BY <1>1, <1>9, <1>11, <2>1, JoinTaken
<1> QED BY <1>7, <1>12 DEF g, p2, x, Inlaid

\* One of the diffs is taken back, if there is any.
OneTaken(v, z, here) == IF here = {} THEN v ELSE TakenBack(v, z, CHOOSE d \in here : TRUE)

\* One line further up: the diff that begins there is taken back, if there is one and it is not d.
LEMMA LineTakenBack ==
  ASSUME NEW o, NEW n, NEW S, NEW a, NEW b, NEW w, Deciding(o, n, S, a, b, w), NEW k \in Nat,
         NEW z, z.start = k + 1, z.orig = o, NEW d, d = Gap(a, b, k),
         NEW l \in Int, NEW l1, l1 = l + 1, NEW v, AtLine(v, l1, o, n, S, a, b, w),
         NEW here, here = Others(S, o, n, k, d, k + l),
         NEW u, u = OneTaken(v, z, here)
  PROVE  AtLine(u, l, o, n, S, a, b, w)
<1>1. /\ o \in FileText /\ n \in FileText /\ w \in FileText /\ S \in Matchings(o, n)
      /\ a \in Edges(S, o, n) /\ b \in Edges(S, o, n) /\ Adjacent(Edges(S, o, n), a, b)
  BY DEF Deciding
<1> DEFINE E  == Edges(S, o, n)
           ln == Len(n)
<1>2. ln \in Nat
  BY <1>1, LenProperties DEF FileText
<1>3. ASSUME ~(1 <= l /\ l <= ln + 1) PROVE here = {}
  <2>1. ASSUME NEW e \in here PROVE FALSE
    <3>1. e \in Others(S, o, n, k, d, k + l)
      OBVIOUS
    <3>2. BeginsAt(e, o, n, S, k, l)
      BY <1>1, <3>1, GapFrom
    <3> QED BY <1>2, <1>3, <3>2 DEF BeginsAt
  <2> QED BY <2>1
<1>0. /\ here = {} => u = v
      /\ \A e : here = {e} => u = TakenBack(v, z, e)
  BY DEF OneTaken
<1>4. l > ln + 1 => u = n
  <2> SUFFICES ASSUME l > ln + 1 PROVE u = n
    OBVIOUS
  <2>1. l1 > ln + 1 /\ ~(1 <= l /\ l <= ln + 1)
    BY <1>2
  <2> QED BY <1>0, <1>3, <2>1 DEF AtLine
<1>5. ASSUME NEW p \in E, NEW q \in E, Adjacent(E, p, q), p[2] < l, l <= q[2]
      PROVE  u = IF l = p[2] + 1 THEN Join(n, w, p[2], Pos(p, a, b)) ELSE Join(n, w, q[2] - 1, Pos(q, a, b) - 1)
  <2>1. p[2] \in Nat /\ q[2] \in Nat /\ p[1] \in Nat /\ q[1] \in Nat /\ p[2] < q[2] /\ q[2] <= ln + 1
    BY <1>1, <1>5, NoneBetween
  <2>2. l \in Nat
    BY <1>5, <2>1
  <2>3. v = Join(n, w, q[2] - 1, Pos(q, a, b) - 1)
    BY <1>5, <2>2, BeforeGap
  <2>4. here = IF l = p[2] + 1 /\ p # a /\ q # <<p[1] + 1, p[2] + 1>> THEN {Gap(p, q, k)} ELSE {}
    <3>1. here = HereOnly(p, q, a, k, l)
      BY <1>1, <1>5, <2>2, WhichGap
    <3> QED BY <3>1 DEF HereOnly
  <2>5. CASE l # p[2] + 1
    BY <1>0, <2>3, <2>4, <2>5
  <2>6. CASE l = p[2] + 1 /\ p # a /\ q # <<p[1] + 1, p[2] + 1>>
    <3>1. u = TakenBack(v, z, Gap(p, q, k))
      BY <1>0, <2>4, <2>6
    <3>2. TakenBack(v, z, Gap(p, q, k)) = Join(n, w, p[2], Pos(p, a, b))
      BY <1>5, <2>3, <2>6, GapTakenBack
    <3> QED BY <2>6, <3>1, <3>2
  <2>7. CASE l = p[2] + 1 /\ (p = a \/ q = <<p[1] + 1, p[2] + 1>>)
    <3> DEFINE x == Pos(p, a, b)
               y == Pos(q, a, b)
               c == p[2]
               t == q[2] - c - 1
    <3>1. u = v
      BY <1>0, <2>4, <2>7
    <3>2. IsPlaced(x, p, n, w) /\ IsPlaced(y, q, n, w)
      BY PlacedEdge
    <3>3. y - x = q[2] - p[2] /\ \A i \in 1..(q[2] - p[2] - 1) : n[p[2] + i] = w[x + i]
      <4>1. CASE p = a
        BY <1>5, <4>1, PlacedGap DEF GapTaken
      <4>2. CASE p # a
        <5>1. q[1] = p[1] + 1 /\ q[2] = p[2] + 1
          BY <2>7, <4>2
        <5>2. y - x = q[1] - p[1]
          BY <1>5, <4>2, PlacedGap DEF GapLeft
        <5> QED BY <2>1, <5>1, <5>2
      <4> QED BY <4>1, <4>2
    <3>4. x \in Nat /\ y \in Nat /\ y <= Len(w) + 1 /\ Len(w) \in Nat
      BY <1>1, <3>2, LenProperties DEF IsPlaced, FileText
    <3> HIDE DEF x, y
    <3>5. /\ c \in 0..Len(n) /\ x \in 0..Len(w) /\ t \in Nat /\ c + t <= Len(n) /\ x + t <= Len(w)
          /\ c + t = q[2] - 1 /\ x + t = y - 1 /\ \A i \in 1..t : n[c + i] = w[x + i]
      <4> DEFINE e == q[2]
                 lw == Len(w)
      <4>1. t = e - c - 1 /\ y - x = e - c /\ \A i \in 1..(e - c - 1) : n[c + i] = w[x + i]
        BY <3>3
      <4>2. c \in Nat /\ e \in Nat /\ c < e /\ e <= ln + 1 /\ lw \in Nat /\ y <= lw + 1
        BY <2>1, <3>4
      <4> HIDE DEF c, t, e, lw, ln
      <4>3. /\ c \in 0..ln /\ x \in 0..lw /\ t \in Nat /\ c + t <= ln /\ x + t <= lw
            /\ c + t = e - 1 /\ x + t = y - 1
        BY <1>2, <3>4, <4>1, <4>2
      <4> QED BY <4>1, <4>3 DEF e, lw, ln
    <3> DEFINE c2 == q[2] - 1
               m2 == y - 1
    <3> HIDE DEF c, t
    <3>6. SameLines(n, w, c, x, t, c2, m2) /\ c \in 0..Len(n) /\ x \in 0..Len(w) /\ t \in Nat
      BY <3>5 DEF SameLines
    <3>7. v = Join(n, w, c2, m2)
      BY <2>3 DEF y
    <3> HIDE DEF c2, m2
    <3>8. Join(n, w, c2, m2) = Join(n, w, c, x)
      BY <1>1, <3>6, JoinSame
    <3>9. u = Join(n, w, c, x)
      BY <3>1, <3>7, <3>8
    <3> QED BY <2>7, <3>9 DEF c, x
  <2> QED BY <2>5, <2>6, <2>7
<1>6. l <= 1 => u = w
  <2> SUFFICES ASSUME l <= 1 PROVE u = w
    OBVIOUS
  <2>1. CASE l = 1
    <3> DEFINE p == <<0, 0>>
    <3>1. p \in E /\ p[1] = 0 /\ p[2] = 0
      BY DEF Edges
    <3> HIDE DEF p
    <3>2. PICK q \in E : Adjacent(E, p, q)
      BY <1>1, <1>2, <3>1, NextEdge
    <3>3. q[2] \in Nat /\ 0 < q[2]
      BY <1>1, <3>1, <3>2, NoneBetween
    <3>4. p[2] < l /\ l <= q[2] /\ l = p[2] + 1
      BY <2>1, <3>1, <3>3
    <3>5. u = Join(n, w, p[2], Pos(p, a, b))
      BY <1>5, <3>1, <3>2, <3>4
    <3>6. Pos(p, a, b) = 0
      BY <3>1, PlacedEdge DEF IsPlaced
    <3>7. Join(n, w, 0, 0) = w
      BY <1>1, JoinEnds
    <3> QED BY <3>1, <3>5, <3>6, <3>7
  <2>2. CASE l # 1
    <3>1. l1 <= 1 /\ ~(1 <= l /\ l <= ln + 1)
      BY <1>2, <2>2
    <3> QED BY <1>0, <1>3, <3>1 DEF AtLine
  <2> QED BY <2>1, <2>2
<1> QED BY <1>4, <1>5, <1>6 DEF AtLine
\* The step of AllTakenBack, and its function up to N: line m - i of the file is at i.
TakenAt(v, z, D, l) == OneTaken(v, z, {d \in D : d.n1 = l})

TakesBack(g, z, D, v, m, N) ==
    /\ g = [i \in 0..N |-> g[i]]
    /\ g[0] = v
    /\ \A i \in 1..N : g[i] = TakenAt(g[i - 1], z, D, m - i)

LEMMA TakesBackAt ==
  ASSUME NEW g, NEW z, NEW D, NEW v, NEW m, NEW N, TakesBack(g, z, D, v, m, N), NEW i \in 1..N
  PROVE  g[i] = TakenAt(g[i - 1], z, D, m - i)
BY DEF TakesBack

LEMMA TakesBackExists ==
  ASSUME NEW z, NEW D, NEW v, NEW m, NEW N \in Nat
  PROVE  \E g : TakesBack(g, z, D, v, m, N)
<1> DEFINE T == {i \in 0..N : \E g : TakesBack(g, z, D, v, m, i)}
<1>1. ASSUME NEW n \in 0..N, (0..(n - 1)) \subseteq T PROVE n \in T
  <2>1. n \in Nat
    OBVIOUS
  <2>2. CASE n = 0
    <3> DEFINE g == [i \in 0..0 |-> v]
    <3>1. g = [i \in 0..0 |-> g[i]] /\ g[0] = v
      OBVIOUS
    <3> HIDE DEF g
    <3>2. TakesBack(g, z, D, v, m, 0)
      BY <3>1 DEF TakesBack
    <3> QED BY <2>2, <3>2
  <2>3. CASE n # 0
    <3>1. n - 1 \in 0..(n - 1) /\ n - 1 \in Nat
      BY <2>1, <2>3
    <3>2. PICK k : TakesBack(k, z, D, v, m, n - 1)
      BY <1>1, <3>1
    <3> DEFINE last == TakenAt(k[n - 1], z, D, m - n)
               g == [i \in 0..n |-> IF i = n THEN last ELSE k[i]]
    <3> HIDE DEF last
    <3>3. g = [i \in 0..n |-> g[i]]
      OBVIOUS
    <3>4. \A i \in 0..(n - 1) : g[i] = k[i]
      BY <2>1
    <3>5. g[n] = last
      BY <2>1
    <3> HIDE DEF g
    <3>6. \A i \in 1..n : g[i] = TakenAt(g[i - 1], z, D, m - i)
      <4>1. ASSUME NEW i \in 1..n PROVE g[i] = TakenAt(g[i - 1], z, D, m - i)
        <5>1. CASE i = n
          <6>1. g[i - 1] = k[n - 1]
            BY <3>1, <3>4, <5>1
          <6> QED BY <3>5, <5>1, <6>1 DEF last
        <5>2. CASE i # n
          <6>1. i \in 1..(n - 1) /\ i \in 0..(n - 1) /\ i - 1 \in 0..(n - 1)
            BY <2>1, <5>2
          <6>2. k[i] = TakenAt(k[i - 1], z, D, m - i)
            BY <3>2, <6>1 DEF TakesBack
          <6> QED BY <3>4, <6>1, <6>2
        <5> QED BY <5>1, <5>2
      <4> QED BY <4>1
    <3>7. g[0] = v
      BY <2>1, <2>3, <3>2, <3>4 DEF TakesBack
    <3>8. TakesBack(g, z, D, v, m, n)
      BY <3>3, <3>6, <3>7 DEF TakesBack
    <3> QED BY <3>8
  <2> QED BY <2>2, <2>3
<1> HIDE DEF T
<1>2. 0..N \subseteq T
  BY <1>1, UpTo
<1> QED BY <1>2 DEF T

\* The function that AllTakenBack defines is that one.
LEMMA TakesBackInTurn ==
  ASSUME NEW z, NEW D, NEW N, N = Len(file) + 1, N \in Nat
  PROVE  \E g : TakesBack(g, z, D, Code(file, z), N + 1, N) /\ AllTakenBack(z, D) = g[N]
<1> DEFINE v == Code(file, z)
           Body(g) == [i \in 0..N |-> IF i = 0 THEN v ELSE TakenAt(g[i - 1], z, D, N + 1 - i)]
           u == CHOOSE g : g = Body(g)
<1>1. AllTakenBack(z, D) = u[N]
  BY DEF AllTakenBack, TakenAt, OneTaken
<1> HIDE DEF v
<1>2. \E g : g = Body(g)
  <2>1. PICK g : TakesBack(g, z, D, v, N + 1, N)
    BY TakesBackExists
  <2>2. ASSUME NEW i \in 0..N PROVE g[i] = IF i = 0 THEN v ELSE TakenAt(g[i - 1], z, D, N + 1 - i)
    <3>1. CASE i = 0
      BY <2>1, <3>1 DEF TakesBack
    <3>2. CASE i # 0
      <4>1. i \in 1..N
        BY <3>2
      <4>2. g[i] = TakenAt(g[i - 1], z, D, N + 1 - i)
        BY <2>1, <4>1, TakesBackAt
      <4> QED BY <3>2, <4>2
    <3> QED BY <3>1, <3>2
  <2>3. g = [i \in 0..N |-> g[i]]
    BY <2>1 DEF TakesBack
  <2>4. g = Body(g)
    BY <2>2, <2>3
  <2> QED BY <2>4
<1>3. u = Body(u)
  BY <1>2
<1> HIDE DEF u
<1>4. /\ u = [i \in 0..N |-> u[i]]
      /\ \A i \in 0..N : u[i] = IF i = 0 THEN v ELSE TakenAt(u[i - 1], z, D, N + 1 - i)
  BY <1>3
<1> HIDE DEF Body
<1>5. TakesBack(u, z, D, v, N + 1, N)
  BY <1>4 DEF TakesBack
<1> QED BY <1>1, <1>5 DEF v

\* All diffs but d are taken back: what is left is the original with d in it.
LEMMA RestTakenBack ==
  ASSUME file \in FileText, NEW z, ZoneOK(file, z), NEW S, NEW a, NEW b, NEW w, NEW o, NEW n, NEW k, NEW d,
         o = z.orig, n = Code(file, z), k = z.start - 1, Deciding(o, n, S, a, b, w), d = Gap(a, b, k)
  PROVE  AllTakenBack(z, Gaps(S, o, n, k) \ {d}) = w
<1> DEFINE N == Len(file) + 1
           D == Gaps(S, o, n, k) \ {d}
           ln == Len(n)
<1>1. N \in Nat /\ k \in Nat /\ z.start = k + 1 /\ ln \in Nat /\ ln + k + 1 <= N
  <2>1. z.start \in Nat /\ z.end \in Nat /\ Len(file) \in Nat /\ 1 <= z.start /\ z.start <= z.end /\ z.end <= Len(file)
    BY LenProperties DEF ZoneOK, DiffZone, FileText
  <2>2. Len(n) = z.end - z.start + 1
    BY CodeLines
  <2> QED BY <2>1, <2>2
<1>2. PICK g : TakesBack(g, z, D, n, N + 1, N) /\ AllTakenBack(z, D) = g[N]
  <2> HIDE DEF D
  <2>1. N = Len(file) + 1
    OBVIOUS
  <2> HIDE DEF N
  <2> QED BY <1>1, <2>1, TakesBackInTurn
<1> HIDE DEF D
<1>3. /\ g[0] = n
      /\ \A i \in 1..N : g[i] = TakenAt(g[i - 1], z, D, N + 1 - i)
  <2> HIDE DEF N
  <2>1. TakesBack(g, z, D, n, N + 1, N)
    BY <1>2
  <2>2. N \in Nat
    BY <1>1
  <2>3. \A i \in 1..N : (N + 1) - i = N + 1 - i
    BY <2>2
  <2> QED BY <2>1, <2>3 DEF TakesBack
<1> DEFINE L(i) == N + 1 - i - k
           T == {i \in 0..N : AtLine(g[i], L(i), o, n, S, a, b, w)}
<1> HIDE DEF N, D, ln
<1>4. ASSUME NEW i \in 0..N, (0..(i - 1)) \subseteq T PROVE i \in T
  <2>1. CASE i = 0
    <3> DEFINE l == L(i)
    <3>1. l \in Nat /\ l > ln + 1 /\ ~(l <= 1)
      BY <1>1, <2>1
    <3>2. \A p, q \in Edges(S, o, n) : Adjacent(Edges(S, o, n), p, q) => ~(l <= q[2])
      <4>1. ASSUME NEW p \in Edges(S, o, n), NEW q \in Edges(S, o, n), Adjacent(Edges(S, o, n), p, q) PROVE ~(l <= q[2])
        <5>1. q[2] \in Nat /\ q[2] <= ln + 1
          BY <4>1, NoneBetween DEF Deciding, ln
        <5> HIDE DEF l
        <5> QED BY <1>1, <3>1, <5>1
      <4> QED BY <4>1
    <3> HIDE DEF l
    <3>3. AtLine(n, l, o, n, S, a, b, w)
      BY <3>1, <3>2 DEF AtLine, ln
    <3> QED BY <1>3, <2>1, <3>3 DEF l
  <2>2. CASE i # 0
    <3> DEFINE l  == L(i)
               l1 == L(i - 1)
               v  == g[i - 1]
               x  == N + 1 - i
               here == Others(S, o, n, k, d, k + l)
               u  == g[i]
    <3>1. i - 1 \in 0..(i - 1) /\ i \in 1..N /\ l \in Int /\ l1 = l + 1 /\ x = k + l
      BY <1>1, <2>2
    <3>2. AtLine(v, l1, o, n, S, a, b, w)
      BY <1>4, <3>1
    <3>3. here = {e \in D : e.n1 = x}
      BY <3>1 DEF Others, D
    <3>4. g[i] = TakenAt(v, z, D, x)
      BY <1>3, <3>1
    <3> HIDE DEF here, l, l1, x, v
    <3>5. u = OneTaken(v, z, here)
      BY <3>3, <3>4 DEF TakenAt
    <3>6. here = Others(S, o, n, k, d, k + l)
      BY DEF here
    <3> HIDE DEF u
    <3>7. z.orig = o /\ z.start = k + 1 /\ k \in Nat /\ l \in Int /\ l1 = l + 1
      BY <1>1, <3>1
    <3>8. AtLine(u, l, o, n, S, a, b, w)
      BY <3>2, <3>5, <3>6, <3>7, LineTakenBack
    <3> QED BY <3>8 DEF l, u
  <2> QED BY <2>1, <2>2
<1> HIDE DEF T
<1>5. 0..N \subseteq T
  BY <1>1, <1>4, UpTo
<1>6. N \in T
  BY <1>1, <1>5
<1>7. AtLine(g[N], L(N), o, n, S, a, b, w)
  BY <1>6 DEF T
<1>8. L(N) <= 1
  BY <1>1
<1> HIDE DEF L
<1>9. g[N] = w
  BY <1>7, <1>8 DEF AtLine
<1> QED BY <1>2, <1>9 DEF D
\* The lines of a gap are lines of the file.
GapLines(k, ln, lf, a2, b2, n1, n2) == ln + k <= lf /\ a2 < b2 /\ b2 <= ln + 1 /\ n1 = k + a2 + 1 /\ n2 = k + (b2 - 1)
GapInFile(lf, a2, b2, n1, n2) == n1 \in 1..(lf + 1) /\ n2 \in (n1 - 1)..lf /\ n2 - n1 + 1 = b2 - a2 - 1

LEMMA GapRange ==
  ASSUME NEW k \in Nat, NEW ln \in Nat, NEW lf \in Nat, NEW a2 \in Nat, NEW b2 \in Nat, NEW n1, NEW n2,
         GapLines(k, ln, lf, a2, b2, n1, n2)
  PROVE  GapInFile(lf, a2, b2, n1, n2)
BY DEF GapLines, GapInFile

\* The original that acceptDiff gives a zone
Decides(f, z, S, a, b, o, n, k, d, c, w) ==
    /\ f \in FileText /\ ZoneOK(f, z) /\ o = z.orig /\ n = Code(f, z) /\ k = z.start - 1
    /\ S \in Matchings(o, n) /\ a \in Edges(S, o, n) /\ b \in Edges(S, o, n) /\ Adjacent(Edges(S, o, n), a, b)
    /\ d = Gap(a, b, k) /\ c = SubSeq(f, d.n1, d.n2)
    /\ w = SubSeq(o, 1, d.o1 - 1) \o c \o SubSeq(o, d.o2 + 1, Len(o))

LEMMA AcceptedDecides ==
  ASSUME NEW f, NEW z, NEW S, NEW a, NEW b, NEW o, NEW n, NEW k, NEW d, NEW c, NEW w,
         Decides(f, z, S, a, b, o, n, k, d, c, w)
  PROVE  Deciding(o, n, S, a, b, w)
<1> DEFINE o1 == d.o1
           o2 == d.o2
           n1 == d.n1
           n2 == d.n2
           a1 == a[1]
           a2 == a[2]
           b1 == b[1]
           b2 == b[2]
           lo == Len(o)
           lf == Len(f)
           ln == Len(n)
<1>1. /\ z.start \in Nat /\ z.end \in Nat /\ lf \in Nat /\ 1 <= z.start /\ z.start <= z.end /\ z.end <= lf
      /\ o \in FileText /\ lo \in Nat /\ f \in FileText /\ k = z.start - 1
  BY LenProperties DEF Decides, ZoneOK, DiffZone, FileText
<1>2. n \in FileText /\ ln = z.end - z.start + 1 /\ \A i \in 1..(z.end - z.start + 1) : n[i] = f[z.start + i - 1]
  <2>1. f \in FileText /\ ZoneOK(f, z) /\ n = Code(f, z)
    BY DEF Decides
  <2> QED BY <2>1, CodeLines
<1>3. a1 \in Nat /\ a2 \in Nat /\ b1 \in Nat /\ b2 \in Nat /\ a1 < b1 /\ a2 < b2 /\ b1 <= lo + 1 /\ b2 <= ln + 1
  <2>1. S \in Matchings(o, n) /\ a \in Edges(S, o, n) /\ b \in Edges(S, o, n) /\ Adjacent(Edges(S, o, n), a, b)
    BY DEF Decides
  <2> QED BY <1>1, <1>2, <2>1, NoneBetween
<1>4. o1 = a1 + 1 /\ o2 = b1 - 1 /\ n1 = k + a2 + 1 /\ n2 = k + b2 - 1
  BY DEF Decides, Gap
<1> HIDE DEF o1, o2, n1, n2, a1, a2, b1, b2, lo, lf, ln
<1>5. /\ k \in Nat /\ z.start = k + 1 /\ ln + k <= lf /\ ln \in Nat /\ z.end - z.start + 1 = ln
      /\ n1 \in 1..(lf + 1) /\ n2 \in (n1 - 1)..lf /\ n2 - n1 + 1 = b2 - a2 - 1
      /\ o1 \in 1..(lo + 1) /\ o2 \in (o1 - 1)..lo /\ o2 - o1 + 1 = b1 - a1 - 1
  <2> DEFINE st == z.start
             en == z.end
  <2>1. st \in Nat /\ en \in Nat /\ lf \in Nat /\ lo \in Nat /\ 1 <= st /\ st <= en /\ en <= lf
        /\ ln = en - st + 1 /\ k = st - 1
    BY <1>1, <1>2
  <2> HIDE DEF st, en
  <2>2. k \in Nat /\ st = k + 1 /\ ln + k <= lf /\ ln \in Nat /\ en - st + 1 = ln
    BY <2>1
  <2>3. n1 \in 1..(lf + 1) /\ n2 \in (n1 - 1)..lf /\ n2 - n1 + 1 = b2 - a2 - 1
    <3>1. a2 \in Nat /\ b2 \in Nat /\ a2 < b2 /\ b2 <= ln + 1 /\ n1 = k + a2 + 1 /\ n2 = k + (b2 - 1)
      BY <1>3, <1>4
    <3>2. k \in Nat /\ ln \in Nat /\ lf \in Nat /\ ln + k <= lf
      BY <2>1, <2>2
    <3>3. k \in Nat /\ ln \in Nat /\ lf \in Nat /\ a2 \in Nat /\ b2 \in Nat /\ GapLines(k, ln, lf, a2, b2, n1, n2)
      BY <3>1, <3>2 DEF GapLines
    <3>4. GapInFile(lf, a2, b2, n1, n2)
      BY <3>3, GapRange
    <3> QED BY <3>4 DEF GapInFile
  <2>4. o1 \in 1..(lo + 1) /\ o2 \in (o1 - 1)..lo /\ o2 - o1 + 1 = b1 - a1 - 1
    BY <1>3, <1>4, <2>1
  <2> QED BY <2>2, <2>3, <2>4 DEF st, en
<1>6. n1 \in 1..(Len(f) + 1) /\ n2 \in (n1 - 1)..Len(f) /\ o1 \in 1..(Len(o) + 1) /\ o2 \in (o1 - 1)..Len(o)
  BY <1>5 DEF lf, lo
<1>7. c = SubSeq(f, n1, n2) /\ w = SubSeq(o, 1, o1 - 1) \o c \o SubSeq(o, o2 + 1, Len(o))
  BY DEF Decides, n1, n2, o1, o2
<1>8. c \in FileText /\ Len(c) = n2 - n1 + 1 /\ \A i \in 1..(n2 - n1 + 1) : c[i] = f[n1 + i - 1]
  BY <1>1, <1>6, <1>7, SubText
<1>9. w = Put(o, o1, o2, c)
  BY <1>1, <1>6, <1>7, <1>8, PutIsConcat DEF FileText
<1>10. IsPut(w, o, o1, o2 - o1 + 1, c, Len(c))
  <2>1. IsPut(Put(o, o1, o2, c), o, o1, o2 - o1 + 1, c, Len(c))
    BY <1>1, <1>6, <1>8, PutLines
  <2> QED BY <1>9, <2>1
<1> DEFINE A == b2 - a2
           B == b1 - a1
           lw == Len(w)
<1>11. /\ w \in FileText /\ lw = lo + (A - 1) - (B - 1)
       /\ \A x \in 1..lw : w[x] = IF x < o1 THEN o[x] ELSE IF x < o1 + (A - 1) THEN c[x - o1 + 1]
                                  ELSE o[x - (A - 1) + (B - 1)]
  <2>1. Len(c) = A - 1 /\ o2 - o1 + 1 = B - 1
    <3>1. n2 - n1 + 1 = b2 - a2 - 1 /\ o2 - o1 + 1 = b1 - a1 - 1 /\ Len(c) = n2 - n1 + 1
      BY <1>5, <1>8
    <3> QED BY <3>1
  <2>2. Len(o) = lo
    BY DEF lo
  <2> DEFINE A1 == A - 1
             B1 == B - 1
  <2>3. IsPut(w, o, o1, B1, c, A1)
    BY <1>10, <2>1
  <2> HIDE DEF A1, B1, A, B
  <2>4. /\ w \in FileText /\ lw = lo + A1 - B1
        /\ \A x \in 1..lw : w[x] = IF x < o1 THEN o[x] ELSE IF x < o1 + A1 THEN c[x - o1 + 1] ELSE o[x - A1 + B1]
    BY <2>2, <2>3 DEF IsPut
  <2> QED BY <2>4 DEF A1, B1
<1> HIDE DEF lw
<1>12. A \in Nat /\ B \in Nat /\ lw = lo + A - B
  <2>1. A \in Nat /\ B \in Nat /\ lo \in Nat
    BY <1>1, <1>3
  <2>2. lw = lo + (A - 1) - (B - 1)
    BY <1>11
  <2> HIDE DEF A, B
  <2> QED BY <2>1, <2>2
<1> HIDE DEF lw
<1>13. ASSUME NEW x \in 1..lw
       PROVE  w[x] = IF x <= a1 THEN o[x] ELSE IF x < a1 + A THEN n[a2 + (x - a1)] ELSE o[x - A + B]
  <2>1. x \in Nat /\ lw \in Int
    BY <1>1, <1>12
  <2>2. CASE x <= a1
    <3>1. x < o1
      BY <1>3, <1>4, <2>1, <2>2
    <3> QED BY <1>11, <2>2, <3>1
  <2>3. CASE ~(x <= a1) /\ x < a1 + A
    <3> DEFINE i == x - o1 + 1
               j == a2 + (x - a1)
    <3>1. ~(x < o1) /\ x < o1 + (A - 1) /\ i \in 1..(n2 - n1 + 1) /\ j \in 1..(z.end - z.start + 1)
          /\ n1 + i - 1 = z.start + j - 1
      <4> DEFINE st == z.start
                 en == z.end
      <4>1. st = k + 1 /\ en - st + 1 = ln /\ k \in Nat /\ ln \in Nat /\ n2 - n1 + 1 = b2 - a2 - 1
        BY <1>5
      <4> HIDE DEF st, en
      <4>2. ~(x < o1) /\ x < o1 + (A - 1) /\ i \in 1..(b2 - a2 - 1) /\ j \in 1..ln /\ n1 + i - 1 = st + j - 1
        <5>1. /\ a1 \in Nat /\ a2 \in Nat /\ b2 \in Nat /\ a2 < b2 /\ b2 <= ln + 1 /\ o1 = a1 + 1
              /\ n1 = k + a2 + 1 /\ st = k + 1 /\ k \in Nat /\ ln \in Nat /\ x \in Nat /\ A = b2 - a2
              /\ ~(x <= a1) /\ x < a1 + A
          BY <1>3, <1>4, <2>1, <2>3, <4>1
        <5> HIDE DEF A
        <5>2. ~(x < o1) /\ x < o1 + (A - 1)
          BY <5>1
        <5>3. i = x - a1 /\ j = a2 + (x - a1)
          BY <5>1
        <5> HIDE DEF i, j
        <5>4. i \in 1..(b2 - a2 - 1) /\ j \in 1..ln
          BY <5>1, <5>3
        <5>5. n1 + i - 1 = st + j - 1
          BY <5>1, <5>3
        <5> QED BY <5>2, <5>4, <5>5
      <4> QED BY <4>1, <4>2 DEF st, en
    <3>2. w[x] = c[i]
      BY <1>11, <3>1
    <3> HIDE DEF i, j
    <3>3. c[i] = f[n1 + i - 1] /\ n[j] = f[z.start + j - 1]
      BY <1>2, <1>8, <3>1
    <3> QED BY <2>3, <3>1, <3>2, <3>3 DEF j
  <2>4. CASE ~(x <= a1) /\ ~(x < a1 + A)
    <3>1. ~(x < o1) /\ ~(x < o1 + (A - 1)) /\ x - (A - 1) + (B - 1) = x - A + B
      BY <1>3, <1>4, <1>12, <2>1, <2>4
    <3> QED BY <1>11, <2>4, <3>1
  <2> QED BY <2>2, <2>3, <2>4
<1> QED BY <1>1, <1>2, <1>11, <1>12, <1>13 DEF Decides, Deciding, lw, lo, a1, a2, b1, b2

(* Every diff can be decided on its own: accepting one makes the original what  *)
(* the zone would hold if all the others were rejected, whichever longest       *)
(* matching findDiffs has found.                                                *)
THEOREM AcceptIsRejectOfRestAlways ==
  ASSUME Copies = FALSE, TypingOps \subseteq {"replace", "deleteLines"}
  PROVE  ReviewSpec => []AcceptIsRejectOfRest
<1>1. ReviewInv => AcceptIsRejectOfRest
  <2> SUFFICES ASSUME ReviewInv, NEW i \in Live, NEW d \in diffs[i], diffs[i] # {d}
               PROVE  DiffAccepted(i, d).zone[i].orig = AllTakenBack(zone[i], diffs[i] \ {d})
    BY DEF AcceptIsRejectOfRest
  <2> DEFINE z == zone[i]
             o == z.orig
             n == Code(file, z)
             k == z.start - 1
             c == SubSeq(file, d.n1, d.n2)
             w == SubSeq(o, 1, d.o1 - 1) \o c \o SubSeq(o, d.o2 + 1, Len(o))
  <2>1. i \in Zones /\ z # NoZone /\ ZoneOK(file, z) /\ file \in FileText /\ diffs[i] \in DiffsOf(file, z)
        /\ zone \in [Zones -> DiffZone \cup {NoZone}] /\ z \in DiffZone
    BY DEF ReviewInv, Live, GoodZones, ZoneOK
  <2>3. diffs[i] \in FindDiffs(o, n, k)
    BY <2>1 DEF DiffsOf
  <2>4. DiffAccepted(i, d).zone[i].orig = w
    <3>1. DiffAccepted(i, d) = [FileState EXCEPT !.zone[i].orig = w]
      BY DEF DiffAccepted
    <3> HIDE DEF w, z
    <3>2. DiffAccepted(i, d).zone = [zone EXCEPT ![i].orig = w]
      BY <3>1 DEF FileState
    <3>3. zone[i] \in DiffZone
      BY <2>1 DEF z
    <3> QED BY <2>1, <3>2, <3>3 DEF DiffZone
  <2>5. ZoneOK(file, z) /\ o = z.orig /\ n = Code(file, z) /\ k = z.start - 1 /\ c = SubSeq(file, d.n1, d.n2)
        /\ w = SubSeq(o, 1, d.o1 - 1) \o c \o SubSeq(o, d.o2 + 1, Len(o))
    BY <2>1
  <2> HIDE DEF z, o, n, k, c, w
  <2>6. PICK S \in Matchings(o, n) : diffs[i] = Gaps(S, o, n, k)
    BY <2>3 DEF FindDiffs, Longest
  <2>7. PICK a \in Edges(S, o, n), b \in Edges(S, o, n) : Adjacent(Edges(S, o, n), a, b) /\ d = Gap(a, b, k)
    BY <2>6 DEF Gaps
  <2>8. Deciding(o, n, S, a, b, w)
    <3>1. Decides(file, z, S, a, b, o, n, k, d, c, w)
      BY <2>1, <2>5, <2>7 DEF Decides
    <3> QED BY <3>1, AcceptedDecides
  <2>9. AllTakenBack(z, Gaps(S, o, n, k) \ {d}) = w
    <3>1. file \in FileText /\ d = Gap(a, b, k) /\ ZoneOK(file, z) /\ o = z.orig /\ n = Code(file, z) /\ k = z.start - 1
      BY <2>1, <2>5, <2>7
    <3> QED BY <2>8, <3>1, RestTakenBack
  <2> QED BY <2>4, <2>6, <2>9 DEF z
<1> QED BY <1>1, ZonesStayGood, PTL

=============================================================================
