---- MODULE DiffReview ----
(* The edit code service, between streams: diff zones in a file, the diffs in   *)
(* them, and the user who reviews them while the file changes. A zone is only   *)
(* a range of line numbers: every write and every edit must realign all zones.  *)
EXTENDS Naturals, Sequences, SequencesExt, FiniteSetsExt

CONSTANTS
    MaxZones,    \* bound: zones in a file
    Atoms,       \* what a line is made of
    MaxLines,    \* bound: lines of the file and of an original
    MaxWidth,    \* bound: atoms of a line
    MaxNew,      \* bound: lines of what an answer or the user writes
    TypingOps,   \* what the user does to the text
    Copies,      \* whether a text meant for a part of the file may be equal to the whole file
    Behaviors,   \* startBehavior of an Apply on the whole file ("accept-conflicts" is used by nobody)
    NoZone

ASSUME ReviewAssumption == /\ MaxZones \in Nat
                           /\ MaxLines \in Nat \ {0}
                           /\ MaxNew \in Nat \ {0}
                           /\ TypingOps \subseteq {"replace", "deleteLines", "replaceAround", "across"}
                           /\ Copies \in BOOLEAN
                           /\ Behaviors \subseteq {"keep-conflicts", "reject-conflicts"}
                           /\ NoZone \notin [start : Nat, end : Nat, orig : Seq(Seq(Atoms))]

VARIABLES
    file,        \* the lines of the model
    zone,        \* diffAreaOfId: the range and the originalCode of each zone
    diffs        \* _diffOfId of each zone, as of the last refresh

reviewVars == <<file, zone, diffs>>

\* diffareaids
Zones == 1..MaxZones

\* A line is a sequence of atoms, a text a sequence of at least one line
Empty == << <<>> >>
Lines == {<<>>} \cup {<<a>> : a \in Atoms}
Texts(n) == UNION {[1..k -> Lines] : k \in 1..n}

Live == {i \in Zones : zone[i] # NoZone}

-----------------------------------------------------------------------------
(* findDiffs: jsdiff's diffLines keeps as many lines as can be kept, and each   *)
(* gap between kept lines is one diff.                                          *)

\* Which lines are kept, as pairs: external code, any longest choice
Longest(SS) == LET most == Max({Cardinality(S) : S \in SS}) IN {S \in SS : Cardinality(S) = most}
Matchings(o, n) == {S \in SUBSET {p \in (1..Len(o)) \X (1..Len(n)) : o[p[1]] = n[p[2]]} :
                      \A p, q \in S : p[1] < q[1] <=> p[2] < q[2]}

\* The gaps: lines o1..o2 of the original stand where lines n1..n2 of the file are
Edges(S, o, n) == S \cup {<<0, 0>>, <<Len(o) + 1, Len(n) + 1>>}
Adjacent(E, p, q) == p[1] < q[1] /\ \A r \in E : p[1] < r[1] => q[1] <= r[1]
Gap(p, q, offset) == [o1 |-> p[1] + 1, o2 |-> q[1] - 1, n1 |-> offset + p[2] + 1, n2 |-> offset + q[2] - 1]
Gaps(S, o, n, offset) ==
    LET edges == Edges(S, o, n)
    IN {Gap(e[1], e[2], offset) :
          e \in {e \in edges \X edges : Adjacent(edges, e[1], e[2]) /\ e[2] # <<e[1][1] + 1, e[1][2] + 1>>}}

FindDiffs(o, n, offset) == {Gaps(S, o, n, offset) : S \in Longest(Matchings(o, n))}

Deletion(d) == d.n2 < d.n1
Insertion(d) == d.o2 < d.o1

-----------------------------------------------------------------------------
(* Text operations *)

\* A range from the start or the end of line l1 to the start or the end of line l2
Span(l1, c1, l2, c2) == [l1 |-> l1, c1 |-> c1, l2 |-> l2, c2 |-> c2]
WholeLines(a, b) == Span(a, "start", b, "end")

\* model.applyEdits: the range is clipped to the file, its lines are replaced by the text
Splice(f, r, text) ==
    LET past(l) == l > Len(f)
        l1      == Min({r.l1, Len(f)})
        l2      == Min({r.l2, Len(f)})
        before  == IF past(r.l1) \/ r.c1 = "end" THEN f[l1] ELSE <<>>
        after   == IF past(r.l2) \/ r.c2 = "end" THEN <<>> ELSE f[l2]
        mid     == [text EXCEPT ![1] = before \o @]
    IN SubSeq(f, 1, l1 - 1) \o [mid EXCEPT ![Len(mid)] = @ \o after] \o SubSeq(f, l2 + 1, Len(f))

\* The lines of the file in a zone
Code(f, z) == SubSeq(f, z.start, Min({z.end, Len(f)}))

\* _realignAllDiffAreasLines, for one zone and a change of lines a..b into text
Realigned(z, text, a, b) ==
    LET height == Len(text)
        delta  == height - (b - a + 1)
    IN CASE z.end < a                    -> z
         [] b < z.start                  -> [z EXCEPT !.start = @ + delta, !.end = @ + delta]
         [] a >= z.start /\ b <= z.end   -> [z EXCEPT !.end = @ + delta]
         [] z.start > a /\ z.end < b     -> [z EXCEPT !.start = a, !.end = a + height]
         [] a < z.start /\ z.start <= b /\ b <= z.end
                                         -> [z EXCEPT !.start = a, !.end = a + (z.end - b) + height - 1]
         [] OTHER                        -> [z EXCEPT !.end = @ + height - (z.end - a + 1)]

RealignAll(zs, text, a, b) == [i \in Zones |-> IF zs[i] = NoZone THEN NoZone ELSE Realigned(zs[i], text, a, b)]

(* _writeURIText: the zones are realigned first; a text equal to the whole file *)
(* is then not written, be it meant for the whole file or for a part of it.     *)
WriteURIText(s, r, text) ==
    [file    |-> IF text = s.file THEN s.file ELSE Splice(s.file, r, text),
     zone    |-> RealignAll(s.zone, text, r.l1, r.l2),
     skipped |-> s.skipped \/ (text = s.file /\ r # WholeLines(1, Len(s.file)))]

WriteAll(s, text) == WriteURIText(s, WholeLines(1, Len(s.file)), text)

\* "skipped": a write was taken for one that changes nothing
FileState == [file |-> file, zone |-> zone, skipped |-> FALSE]

\* The diffs that zone z may show
DiffsOf(f, z) == IF z = NoZone THEN {{}} ELSE FindDiffs(z.orig, Code(f, z), z.start - 1)

\* _refreshStylesAndDiffsInURI: the diffs of every zone are computed anew
Refreshed(s) ==
    /\ file' = s.file
    /\ zone' = s.zone
    /\ s.skipped => Copies
    /\ Len(file') <= MaxLines
    /\ \A i \in Zones : zone'[i] # NoZone => Len(zone'[i].orig) <= MaxLines
    /\ \A l \in DOMAIN file' : Len(file'[l]) <= MaxWidth
    /\ diffs' \in {ds \in [Zones -> UNION {DiffsOf(s.file, s.zone[i]) : i \in Zones}] :
                     \A i \in Zones : ds[i] \in DiffsOf(s.file, s.zone[i])}

\* A diff zone in which nothing differs
SameAsOriginal(s, i) == s.zone[i] # NoZone /\ s.zone[i].orig = Code(s.file, s.zone[i])

WithoutZones(s, S) == [s EXCEPT !.zone = [i \in Zones |-> IF i \in S THEN NoZone ELSE @[i]]]

-----------------------------------------------------------------------------
(* Accepting and rejecting *)

\* Mutant: the place in the original is taken from the place in the file.
DiffAccepted_ByFileLines(i, d) ==
    LET z  == zone[i]
        o1 == d.n1 - z.start + 1
        o2 == o1 + d.o2 - d.o1
    IN IF diffs[i] = {d} THEN WithoutZones(FileState, {i})
       ELSE [FileState EXCEPT !.zone[i].orig =
               SubSeq(@, 1, o1 - 1) \o SubSeq(file, d.n1, d.n2) \o SubSeq(@, o2 + 1, Len(@))]

\* acceptDiff: the file stays, the diff becomes part of the original
DiffAccepted(i, d) ==
    LET z    == zone[i]
        code == SubSeq(file, d.n1, d.n2)
        orig == SubSeq(z.orig, 1, d.o1 - 1) \o code \o SubSeq(z.orig, d.o2 + 1, Len(z.orig))
    IN IF diffs[i] = {d} THEN WithoutZones(FileState, {i}) ELSE [FileState EXCEPT !.zone[i].orig = orig]

\* Mutant: what was deleted at the end of a zone is put back like elsewhere.
RejectEdit_NoEnd(z, d) ==
    IF Deletion(d) THEN [range |-> Span(d.n1, "start", d.n1, "start"),
                         text  |-> SubSeq(z.orig, d.o1, d.o2) \o Empty]
    ELSE IF Insertion(d) THEN [range |-> Span(d.n1, "start", d.n2 + 1, "start"), text |-> Empty]
    ELSE [range |-> WholeLines(d.n1, d.n2), text |-> SubSeq(z.orig, d.o1, d.o2)]

\* writeText and toRange of rejectDiff
RejectEdit(z, d) ==
    LET original == SubSeq(z.orig, d.o1, d.o2)
    IN CASE Deletion(d) /\ d.n1 - 1 = z.end ->
              [range |-> Span(d.n1 - 1, "end", d.n1 - 1, "end"), text |-> Empty \o original]
         [] Deletion(d) /\ d.n1 - 1 # z.end ->
              [range |-> Span(d.n1, "start", d.n1, "start"), text |-> original \o Empty]
         [] Insertion(d) /\ d.n2 = z.end ->
              [range |-> Span(d.n1 - 1, "end", d.n2, "start"), text |-> Empty]
         [] Insertion(d) /\ d.n2 # z.end ->
              [range |-> Span(d.n1, "start", d.n2 + 1, "start"), text |-> Empty]
         [] OTHER ->
              [range |-> WholeLines(d.n1, d.n2), text |-> original]

\* rejectDiff: the original lines are written back; the zone goes when nothing differs
DiffRejected(i, d) ==
    LET e == RejectEdit(zone[i], d)
        s == WriteURIText(FileState, e.range, e.text)
    IN IF SameAsOriginal(s, i) THEN WithoutZones(s, {i}) ELSE s

\* Mutant: reverting one zone does not move the others.
RevertZone_NoRealign(s, i) ==
    LET z == s.zone[i] IN WithoutZones([s EXCEPT !.file = Splice(@, WholeLines(z.start, z.end), z.orig)], {i})

\* _revertDiffZone and _deleteDiffZone
RevertZone(s, i) ==
    LET z == s.zone[i] IN WithoutZones(WriteURIText(s, WholeLines(z.start, z.end), z.orig), {i})

\* acceptOrRejectAllDiffAreas
AcceptedAll(s) == WithoutZones(s, Zones)
RejectedAll(s) ==
    LET upTo[i \in 0..MaxZones] ==
          IF i = 0 THEN s
          ELSE LET t == upTo[i - 1] IN IF t.zone[i] = NoZone THEN t ELSE RevertZone(t, i)
    IN upTo[MaxZones]

AcceptDiff(i, d) == Refreshed(DiffAccepted(i, d))
RejectDiff(i, d) == Refreshed(DiffRejected(i, d))
AcceptAll == Live # {} /\ Refreshed(AcceptedAll(FileState))
RejectAll == Live # {} /\ Refreshed(RejectedAll(FileState))

-----------------------------------------------------------------------------
(* Edits. Their streams are in ApplyStream: here is what is there at their end. *)

\* A zone is made of lines a..b, and its lines are rewritten
ZoneWritten(s, i, a, b, orig, text) ==
    WriteURIText([s EXCEPT !.zone[i] = [start |-> a, end |-> b, orig |-> orig]], WholeLines(a, b), text)

\* diffareaids are given in order
FreshZone(i) == i \notin Live /\ \A j \in Live : j < i

Apart(z, a, b) == b < z.start \/ z.end < a

\* Ctrl+K on lines a..b (addCtrlKZone wants no overlap), then the final write of runWriteover
QuickEdited(i, a, b, text) == ZoneWritten(FileState, i, a, b, SubSeq(file, a, b), text)

QuickEdit(i, a, b, text) ==
    /\ FreshZone(i)
    /\ \A j \in Live : Apart(zone[j], a, b)
    /\ Refreshed(QuickEdited(i, a, b, text))

(* _startStreamingDiffZone on the whole file. "keep-conflicts" takes the        *)
(* reverted text for the original and puts the file back; "reject-conflicts"    *)
(* has read the original, and the last line, before it rejects.                 *)
ApplyBase(behavior) ==
    CASE behavior = "keep-conflicts"   -> LET s == RejectedAll(FileState)
                                          IN  [s |-> WriteAll(s, file), orig |-> s.file]
      [] behavior = "reject-conflicts" -> [s |-> RejectedAll(FileState), orig |-> file]

\* An Apply button, edit_file or rewrite_file
Applied(i, behavior, text) ==
    LET base == ApplyBase(behavior) IN ZoneWritten(base.s, i, 1, Len(file), base.orig, text)

ApplyFile(i, behavior, text) == i = 1 /\ Refreshed(Applied(i, behavior, text))

\* Mutant: only the service's own writes realign the zones.
Typed_NoRealign(r, text) ==
    LET s == [FileState EXCEPT !.file = Splice(@, r, text)] IN WithoutZones(s, {i \in Zones : SameAsOriginal(s, i)})

\* _onUserChangeContent: zones are realigned, and those without diffs deleted
Typed(r, text) ==
    LET s == [FileState EXCEPT !.file = Splice(@, r, text), !.zone = RealignAll(@, text, r.l1, r.l2)]
    IN WithoutZones(s, {i \in Zones : SameAsOriginal(s, i)})

Around(i, a, b) == a < zone[i].start /\ zone[i].end < b

\* Lines a..b are those of one zone at most
InOneZone(a, b) == Cardinality({i \in Live : ~Apart(zone[i], a, b)}) <= 1

\* The user replaces lines a..b
TypeLines(a, b, text) ==
    /\ IF \E i \in Live : Around(i, a, b) THEN "replaceAround" \in TypingOps ELSE "replace" \in TypingOps
    /\ InOneZone(a, b) \/ "across" \in TypingOps
    /\ Refreshed(Typed(WholeLines(a, b), text))

\* The user deletes lines a..b, with the line breaks behind them
Deleted(a, b) == Typed(Span(a, "start", b + 1, "start"), Empty)

DeleteLines(a, b) ==
    /\ "deleteLines" \in TypingOps
    /\ b < Len(file)
    /\ \A i \in Live : ~Around(i, a, b + 1)
    /\ InOneZone(a, b + 1) \/ "across" \in TypingOps
    /\ Refreshed(Deleted(a, b))

ReviewInit ==
    /\ file \in Texts(MaxNew + 1)
    /\ zone = [i \in Zones |-> NoZone]
    /\ diffs = [i \in Zones |-> {}]

LineRanges == {r \in (1..Len(file)) \X (1..Len(file)) : r[1] <= r[2]}

ReviewNext ==
    \/ \E i \in Live : \E d \in diffs[i] : AcceptDiff(i, d) \/ RejectDiff(i, d)
    \/ AcceptAll \/ RejectAll
    \/ \E i \in Zones, r \in LineRanges, text \in Texts(MaxNew) : QuickEdit(i, r[1], r[2], text)
    \/ \E i \in Zones, behavior \in Behaviors, text \in Texts(MaxNew) : ApplyFile(i, behavior, text)
    \/ \E r \in LineRanges, text \in Texts(MaxNew) : TypeLines(r[1], r[2], text)
    \/ \E r \in LineRanges : DeleteLines(r[1], r[2])

ReviewSpec == ReviewInit /\ [][ReviewNext]_reviewVars

-----------------------------------------------------------------------------
(* Properties *)

\* In the code of zone z, the lines of diff d replaced by the original lines they stand for
TakenBack(code, z, d) ==
    SubSeq(code, 1, d.n1 - z.start) \o SubSeq(z.orig, d.o1, d.o2) \o SubSeq(code, d.n2 - z.start + 2, Len(code))

\* The same for each diff in D, from the last one up, so that the others stay where they are
AllTakenBack(z, D) ==
    LET last == Len(file) + 1
        from[k \in 0..last] ==
          IF k = 0 THEN Code(file, z)
          ELSE LET here == {d \in D : d.n1 = last + 1 - k}
               IN IF here = {} THEN from[k - 1] ELSE TakenBack(from[k - 1], z, CHOOSE d \in here : TRUE)
    IN from[last]

\* What the file was before its zones: each is read as its original
OriginalFile(f, zs) ==
    LET upTo[l \in 0..Len(f)] ==
          LET ending == {i \in Zones : zs[i] # NoZone /\ zs[i].end = l}
          IN IF l = 0 THEN <<>>
             ELSE IF ending = {} THEN Append(upTo[l - 1], f[l])
             ELSE LET z == zs[CHOOSE i \in ending : TRUE] IN upTo[z.start - 1] \o z.orig
    IN upTo[Len(f)]

AtEnd(i, d) == Insertion(d) /\ d.n2 = zone[i].end

RejectTakesBack(i, d) ==
    LET s == DiffRejected(i, d)
    IN s.skipped \/ s.file = SubSeq(file, 1, zone[i].start - 1) \o TakenBack(Code(file, zone[i]), zone[i], d)
                             \o SubSeq(file, zone[i].end + 1, Len(file))

(* rejectDiff puts the original lines back where the diff is, and changes no    *)
(* other line of the file, but for lines inserted at the end of a zone.         *)
RejectIsExact == \A i \in Live : \A d \in diffs[i] : AtEnd(i, d) \/ RejectTakesBack(i, d)

(* acceptDiff: the new original is what the zone would hold if all the other    *)
(* diffs were rejected, so that each diff can be decided on its own.            *)
AcceptIsRejectOfRest ==
    \A i \in Live : \A d \in diffs[i] :
       diffs[i] # {d} => DiffAccepted(i, d).zone[i].orig = AllTakenBack(zone[i], diffs[i] \ {d})

\* Zone j holds the same lines after s as now
KeepsLines(j, s) ==
    \/ s.skipped
    \/ SameAsOriginal(FileState, j)
    \/ /\ s.zone[j] # NoZone
       /\ s.zone[j].orig = zone[j].orig
       /\ Code(s.file, s.zone[j]) = Code(file, zone[j])

(* What happens elsewhere in the file leaves a zone with its code and its       *)
(* original: _realignAllDiffAreasLines moves its line numbers along.            *)
ZoneKeepsItsLines ==
    \A j \in Live :
       /\ \A i \in Live \ {j} : \A d \in diffs[i] : KeepsLines(j, DiffAccepted(i, d)) /\ KeepsLines(j, DiffRejected(i, d))
       /\ \A r \in {r \in LineRanges : Apart(zone[j], r[1], r[2])} :
             /\ \A text \in Texts(MaxNew) : KeepsLines(j, Typed(WholeLines(r[1], r[2]), text))
             /\ r[2] < Len(file) => KeepsLines(j, Deleted(r[1], r[2]))
       /\ \A i \in {i \in Zones : FreshZone(i)}, r \in LineRanges, text \in Texts(MaxNew) :
             (\A k \in Live : Apart(zone[k], r[1], r[2])) => KeepsLines(j, QuickEdited(i, r[1], r[2], text))

(* Rejecting everything gives the original back, in whatever order the zones    *)
(* were made: each revert moves the zones that are still to be reverted.        *)
RejectAllRestores ==
    LET s == RejectedAll(FileState) IN s.skipped \/ s.file = OriginalFile(file, zone)

====
