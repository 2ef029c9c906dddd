-------------------------- MODULE AutocompleteProofs --------------------------
(* No call of the editor awaits an autocompletion that nobody will answer, and *)
(* no request is forgotten or made beyond the limit, for any number of calls,  *)
(* documents and autocompletions and any size of the cache.                    *)
EXTENDS Autocomplete, FiniteSetTheorems, WellFoundedInduction, TLAPS

------------------------------------------------------------------------------
(* The inductive invariant behind AwaitsPending. The cache has no part in it:  *)
(* whatever is taken from it, for whatever reason, the calls that await it     *)
(* return.                                                                     *)

CallStates == {Idle} \cup {Awaiting(i) : i \in Ids}
                \cup {Debouncing(d, n, b) : d \in Docs, n \in Texts, b \in BOOLEAN}

CallsOK == calls \in [Calls -> CallStates]
ItemsOK == item \in [Ids -> Item \cup {Unused}]

\* A pending autocompletion is one whose request has no answer.
PendingInFlight == inFlight = Pending

IInv == CallsOK /\ ItemsOK /\ PendingInFlight /\ AwaitsPending

\* The calls of cs that await something await what is in flight.
AwaitIn(cs, ids) == \A c \in Calls : cs[c].at = "answer" => cs[c].id \in ids

\* The three states of a call.
LEMMA CallShapes ==
  /\ Idle \in CallStates /\ Idle.at = "idle"
  /\ \A i \in Ids : Awaiting(i) \in CallStates /\ Awaiting(i).at = "answer" /\ Awaiting(i).id = i
  /\ \A d \in Docs, n \in Texts, b \in BOOLEAN :
        /\ Debouncing(d, n, b) \in CallStates /\ Debouncing(d, n, b).at = "debounce"
        /\ Debouncing(d, n, b).doc = d /\ Debouncing(d, n, b).prefix = n
<1>1. Idle \in CallStates /\ Idle.at = "idle"
  BY DEF CallStates, Idle
<1>2. \A i \in Ids : Awaiting(i) \in CallStates /\ Awaiting(i).at = "answer" /\ Awaiting(i).id = i
  <2>1. \A i \in Ids : Awaiting(i) \in CallStates
    BY DEF CallStates
  <2> QED BY <2>1 DEF Awaiting
<1>3. ASSUME NEW d \in Docs, NEW n \in Texts, NEW b \in BOOLEAN
      PROVE  /\ Debouncing(d, n, b) \in CallStates /\ Debouncing(d, n, b).at = "debounce"
             /\ Debouncing(d, n, b).doc = d /\ Debouncing(d, n, b).prefix = n
  <2>1. Debouncing(d, n, b) \in {Debouncing(e, m, l) : e \in Docs, m \in Texts, l \in BOOLEAN}
    OBVIOUS
  <2>2. Debouncing(d, n, b) \in CallStates
    BY <2>1 DEF CallStates
  <2> QED BY <2>2 DEF Debouncing
<1> QED BY <1>1, <1>2, <1>3

\* What is true of a call that awaits, or debounces.
LEMMA CallCases ==
  ASSUME NEW x \in CallStates
  PROVE  /\ x.at = "answer" => \E i \in Ids : x = Awaiting(i)
         /\ x.at = "debounce" =>
              \E d \in Docs, n \in Texts, b \in BOOLEAN : x = Debouncing(d, n, b)
BY DEF CallStates, Idle, Awaiting, Debouncing

\* Released leaves no call that awaits what is gone.
LEMMA ReleasedProperties ==
  ASSUME NEW cs \in [Calls -> CallStates], NEW ids, NEW gone, AwaitIn(cs, ids)
  PROVE  /\ Released(cs, gone) \in [Calls -> CallStates]
         /\ AwaitIn(Released(cs, gone), ids \ gone)
<1>1. ASSUME NEW c \in Calls
      PROVE  /\ Released(cs, gone)[c] \in CallStates
             /\ Released(cs, gone)[c].at = "answer" => Released(cs, gone)[c].id \in ids \ gone
  <2>1. Released(cs, gone)[c] = IF cs[c].at = "answer" /\ cs[c].id \in gone THEN Idle ELSE cs[c]
    BY DEF Released
  <2> QED BY <2>1, CallShapes DEF AwaitIn
<1>2. Released(cs, gone) \in [Calls -> CallStates]
  BY <1>1 DEF Released
<1> QED BY <1>1, <1>2 DEF AwaitIn

\* One call goes to another state.
LEMMA CallBecomes ==
  ASSUME CallsOK, AwaitsPending, NEW c \in Calls, NEW x \in CallStates, NEW ids,
         inFlight \subseteq ids, x.at = "answer" => x.id \in ids
  PROVE  /\ [calls EXCEPT ![c] = x] \in [Calls -> CallStates]
         /\ AwaitIn([calls EXCEPT ![c] = x], ids)
BY DEF CallsOK, AwaitsPending, AwaitIn

\* Cancelling autocompletions, whichever, keeps the invariant.
LEMMA CancelStep ==
  ASSUME IInv, NEW d, NEW ids, NEW cs \in [Calls -> CallStates], AwaitIn(cs, inFlight),
         Cancel(d, ids, cs)
  PROVE  IInv'
<1> USE DEF IInv
<1>1. item' = Dropped(ids) /\ inFlight' = inFlight \ ids /\ calls' = Released(cs, ids)
  BY DEF Cancel
<1>2. CallsOK' /\ AwaitsPending'
  BY <1>1, ReleasedProperties DEF CallsOK, AwaitsPending, AwaitIn
<1>3. ItemsOK'
  BY <1>1 DEF ItemsOK, Dropped
<1>4. PendingInFlight'
  <2>1. Unused.status = "unused"
    BY DEF Unused
  <2>2. \A i \in Ids : item'[i] = IF i \in ids THEN Unused ELSE item[i]
    BY <1>1 DEF Dropped
  <2> QED BY <1>1, <2>1, <2>2 DEF PendingInFlight, Pending
<1> QED BY <1>2, <1>3, <1>4

\* The calls as they are, and with one that returns.
LEMMA AwaitInFlight ==
  ASSUME IInv
  PROVE  /\ calls \in [Calls -> CallStates] /\ AwaitIn(calls, inFlight)
         /\ \A c \in Calls : /\ [calls EXCEPT ![c] = Idle] \in [Calls -> CallStates]
                             /\ AwaitIn([calls EXCEPT ![c] = Idle], inFlight)
<1>1. Idle \in CallStates /\ Idle.at # "answer"
  BY CallShapes
<1> QED BY <1>1, CallBecomes DEF IInv, CallsOK, AwaitsPending, AwaitIn

LEMMA TypeStep ==
  ASSUME IInv, NEW c \in Calls, NEW d \in Docs, NEW n \in Texts, Type(c, d, n)
  PROVE  IInv'
<1> USE DEF IInv
<1>1. UNCHANGED <<item, inFlight>>
  BY DEF Type
<1>2. ItemsOK' /\ PendingInFlight'
  BY <1>1 DEF ItemsOK, PendingInFlight, Pending
<1>3. CASE UsesCache(c, d, n)
  <2>1. PICK i \in Pending : calls' = [calls EXCEPT ![c] = Awaiting(i)]
    BY <1>3 DEF UsesCache
  <2>2. i \in Ids /\ i \in inFlight
    BY <2>1 DEF Pending, PendingInFlight
  <2>3. calls' \in [Calls -> CallStates] /\ AwaitIn(calls', inFlight)
    <3>1. Awaiting(i) \in CallStates /\ Awaiting(i).id \in inFlight
      BY <2>2, CallShapes
    <3>2. /\ [calls EXCEPT ![c] = Awaiting(i)] \in [Calls -> CallStates]
          /\ AwaitIn([calls EXCEPT ![c] = Awaiting(i)], inFlight)
      BY <3>1, CallBecomes
    <3> QED BY <2>1, <3>2
  <2> QED BY <1>1, <1>2, <2>3 DEF CallsOK, AwaitsPending, AwaitIn
<1>4. ASSUME NEW sameTime \in BOOLEAN, Debounces(c, d, n, sameTime)
      PROVE  IInv'
  <2>1. calls' = [b \in Calls |->
          IF b = c THEN Debouncing(d, n, TRUE)
          ELSE IF calls[b].at = "debounce" /\ ~sameTime THEN [calls[b] EXCEPT !.latest = FALSE]
          ELSE calls[b]]
    BY <1>4 DEF Debounces
  <2>2. ASSUME NEW b \in Calls
        PROVE  calls'[b] \in CallStates /\ (calls'[b].at = "answer" => calls'[b] = calls[b])
    <3>1. CASE b = c
      BY <2>1, <3>1, CallShapes
    <3>2. CASE b # c /\ calls[b].at = "debounce" /\ ~sameTime
      <4>1. calls[b] \in CallStates /\ calls[b].at = "debounce"
        BY <3>2 DEF CallsOK
      <4>2. PICK e \in Docs, m \in Texts, l \in BOOLEAN : calls[b] = Debouncing(e, m, l)
        BY <4>1, CallCases
      <4>3. [calls[b] EXCEPT !.latest = FALSE] = Debouncing(e, m, FALSE)
        <5> DEFINE R == [at : {"debounce"}, doc : Docs, prefix : Texts, latest : BOOLEAN]
                   y == [calls[b] EXCEPT !.latest = FALSE]
        <5>1. calls[b] \in R /\ calls[b].doc = e /\ calls[b].prefix = m
          BY <4>2 DEF Debouncing
        <5>2. y \in R /\ y.doc = e /\ y.prefix = m /\ y.latest = FALSE
          BY <5>1
        <5>3. \A r \in R : r = Debouncing(r.doc, r.prefix, r.latest)
          BY DEF Debouncing
        <5> HIDE DEF R, y
        <5>4. y = Debouncing(e, m, FALSE)
          BY <5>2, <5>3
        <5> QED BY <5>4 DEF y
      <4>4. calls'[b] = Debouncing(e, m, FALSE)
        BY <2>1, <3>2, <4>3
      <4>5. Debouncing(e, m, FALSE) \in CallStates /\ Debouncing(e, m, FALSE).at = "debounce"
        BY CallShapes
      <4> QED BY <4>4, <4>5
    <3>3. CASE b # c /\ ~(calls[b].at = "debounce" /\ ~sameTime)
      BY <2>1, <3>3 DEF CallsOK
    <3> QED BY <3>1, <3>2, <3>3
  <2>3. CallsOK'
    BY <2>1, <2>2 DEF CallsOK
  <2>4. AwaitsPending'
    BY <1>1, <2>2 DEF AwaitsPending
  <2> QED BY <1>2, <2>3, <2>4
<1> QED BY <1>3, <1>4 DEF Type

LEMMA RequestedStep ==
  ASSUME IInv, NEW c \in Calls, Requested(c)
  PROVE  IInv'
<1> USE DEF IInv
<1>1. PICK gone, d, new :
        /\ new \in FreeIds /\ d = calls[c].doc
        /\ item' = [Dropped(gone) EXCEPT ![new] =
              [status |-> "pending", doc |-> d, prefix |-> calls[c].prefix, len |-> 0]]
        /\ inFlight' = (inFlight \ gone) \cup {new}
        /\ calls' = Released([calls EXCEPT ![c] = Awaiting(new)], gone)
  <2> DEFINE d == calls[c].doc
             gone == Oldest(d) \cup Evicted(Deleted(d, Oldest(d))[d])
             new == CHOOSE i \in FreeIds : TRUE
  <2>1. /\ item' = [Dropped(gone) EXCEPT ![new] =
              [status |-> "pending", doc |-> d, prefix |-> calls[c].prefix, len |-> 0]]
        /\ inFlight' = (inFlight \ gone) \cup {new}
        /\ calls' = Released([calls EXCEPT ![c] = Awaiting(new)], gone)
    BY DEF Requested
  <2>2. new \in FreeIds
    BY DEF Requested
  <2> HIDE DEF gone, new
  <2> QED BY <2>1, <2>2
<1>2. new \in Ids /\ new \notin inFlight
  BY <1>1 DEF FreeIds
<1>3. calls[c].doc \in Docs /\ calls[c].prefix \in Texts
  <2>1. calls[c].at = "debounce" /\ calls[c] \in CallStates
    BY DEF Requested, CallsOK
  <2> QED BY <2>1, CallCases, CallShapes
<1> DEFINE x == [status |-> "pending", doc |-> d, prefix |-> calls[c].prefix, len |-> 0]
<1>4. x \in Item /\ x.status = "pending"
  BY <1>1, <1>3, AutocompleteAssumption DEF Item, Texts
<1>5. Dropped(gone) \in [Ids -> Item \cup {Unused}] /\ item' = [Dropped(gone) EXCEPT ![new] = x]
  BY <1>1 DEF Dropped, ItemsOK
<1> HIDE DEF x
<1>6. ItemsOK'
  BY <1>2, <1>4, <1>5 DEF ItemsOK
<1>7. PendingInFlight'
  <2>1. Unused.status = "unused"
    BY DEF Unused
  <2>2. /\ item'[new].status = "pending"
        /\ \A i \in Ids \ {new} : item'[i] = IF i \in gone THEN Unused ELSE item[i]
    BY <1>2, <1>4, <1>5 DEF Dropped
  <2> QED BY <1>1, <1>2, <2>1, <2>2 DEF PendingInFlight, Pending
<1>8. CallsOK' /\ AwaitsPending'
  <2> DEFINE cs == [calls EXCEPT ![c] = Awaiting(new)]
  <2>1. cs \in [Calls -> CallStates] /\ AwaitIn(cs, inFlight \cup {new})
    <3>1. /\ Awaiting(new) \in CallStates /\ Awaiting(new).id = new
          /\ inFlight \subseteq inFlight \cup {new}
      BY <1>2, CallShapes
    <3> QED BY <3>1, CallBecomes
  <2> HIDE DEF cs
  <2>2. /\ Released(cs, gone) \in [Calls -> CallStates]
        /\ AwaitIn(Released(cs, gone), (inFlight \cup {new}) \ gone)
    BY <2>1, ReleasedProperties
  <2>3. calls' = Released(cs, gone) /\ (inFlight \cup {new}) \ gone \subseteq inFlight'
    BY <1>1 DEF cs
  <2> QED BY <2>2, <2>3 DEF CallsOK, AwaitsPending, AwaitIn
<1> QED BY <1>6, <1>7, <1>8

LEMMA FinalStep ==
  ASSUME IInv, NEW i \in Ids, Final(i)
  PROVE  IInv'
<1> USE DEF IInv
<1>1. PICK len \in Texts : item' = [item EXCEPT ![i].status = "finished", ![i].len = len]
  BY DEF Final
<1>2. i \in inFlight /\ inFlight' = inFlight \ {i} /\ calls' = Released(calls, {i})
  BY DEF Final
<1>3. item[i] \in Item
  BY <1>2 DEF PendingInFlight, Pending, ItemsOK, Unused
<1> DEFINE x == [item[i] EXCEPT !.status = "finished", !.len = len]
<1>4. x \in Item /\ x.status = "finished"
  BY <1>3 DEF Item
<1>5. item' = [item EXCEPT ![i] = x]
  BY <1>1, <1>3 DEF ItemsOK
<1> HIDE DEF x
<1>6. ItemsOK'
  BY <1>4, <1>5 DEF ItemsOK
<1>7. PendingInFlight'
  <2>1. item'[i] = x /\ \A j \in Ids \ {i} : item'[j] = item[j]
    BY <1>5 DEF ItemsOK
  <2> QED BY <1>2, <1>4, <2>1 DEF PendingInFlight, Pending
<1>8. CallsOK' /\ AwaitsPending'
  BY <1>2, AwaitInFlight, ReleasedProperties DEF CallsOK, AwaitsPending, AwaitIn
<1> QED BY <1>6, <1>7, <1>8

------------------------------------------------------------------------------
(* The first theorem.                                                          *)

LEMMA Initial ==
  ASSUME Init
  PROVE  IInv
<1>1. Idle \in CallStates /\ Idle.at = "idle"
  BY CallShapes
<1>2. Unused.status = "unused"
  BY DEF Unused
<1> QED BY <1>1, <1>2 DEF Init, IInv, CallsOK, ItemsOK, PendingInFlight, Pending, AwaitsPending

LEMMA Inductive ==
  ASSUME IInv, [Next]_vars
  PROVE  IInv'
<1>1. CASE UNCHANGED vars
  BY <1>1 DEF vars, IInv, CallsOK, ItemsOK, PendingInFlight, Pending, AwaitsPending
<1>2. ASSUME NEW c \in Calls, DebounceEnds(c) PROVE IInv'
  <2>1. CASE TypingHappened(c)
    <3>1. calls' = [calls EXCEPT ![c] = Idle] /\ UNCHANGED <<item, inFlight>>
      BY <2>1 DEF TypingHappened
    <3>2. calls' \in [Calls -> CallStates] /\ AwaitIn(calls', inFlight)
      BY <3>1, AwaitInFlight
    <3> QED BY <3>1, <3>2 DEF IInv, CallsOK, ItemsOK, PendingInFlight, Pending, AwaitsPending, AwaitIn
  <2>2. CASE NotGenerated(c)
    BY <2>2, AwaitInFlight, CancelStep DEF NotGenerated
  <2>3. CASE Requested(c)
    BY <2>3, RequestedStep
  <2>4. CASE Refused(c)
    BY <2>4, AwaitInFlight, CancelStep DEF Refused
  <2> QED BY <1>2, <2>1, <2>2, <2>3, <2>4 DEF DebounceEnds
<1>3. ASSUME NEW i \in Ids, Fails(i) \/ TimesOut(i) PROVE IInv'
  BY <1>3, AwaitInFlight, CancelStep DEF Fails, TimesOut
<1>4. ASSUME NEW d \in Docs, NEW n \in Texts, FreeCompletions(d, n) PROVE IInv'
  BY <1>4, AwaitInFlight, CancelStep DEF FreeCompletions
<1> QED BY <1>1, <1>2, <1>3, <1>4, TypeStep, FinalStep DEF Next

(* However keystrokes, answers, failures, time limits, evictions and accepted  *)
(* completions interleave, a call of the editor that awaits an autocompletion  *)
(* awaits one whose request has no answer and was not cancelled.               *)
THEOREM AutocompleteAwaitsPending == Spec => []AwaitsPending
<1>1. IInv => AwaitsPending
  BY DEF IInv
<1> QED BY <1>1, Initial, Inductive, PTL DEF Spec

------------------------------------------------------------------------------
(* Sequences without repetition. What is taken from one leaves the others in   *)
(* their order: the places of what is kept are a bijection.                    *)

LEMMA InjectiveIs ==
  ASSUME NEW s
  PROVE  /\ IsInjective(s) <=> \A a, b \in DOMAIN s : s[a] = s[b] => a = b
         /\ ToSet(s) = {s[k] : k \in DOMAIN s}
BY DEF IsInjective, ToSet

LEMMA SetOfSequence ==
  ASSUME NEW S, NEW s \in Seq(S), IsInjective(s)
  PROVE  IsFiniteSet(ToSet(s)) /\ Cardinality(ToSet(s)) = Len(s)
<1> DEFINE n == Len(s)
           T == ToSet(s)
<1>1. n \in Nat /\ DOMAIN s = 1..n
  OBVIOUS
<1>2. (\A a, b \in 1..n : s[a] = s[b] => a = b) /\ T = {s[k] : k \in 1..n}
  BY <1>1, InjectiveIs
<1> HIDE DEF n, T
<1>3. IsFiniteSet(1..n) /\ Cardinality(1..n) = n
  BY <1>1, FS_Interval
<1> DEFINE f == [k \in 1..n |-> s[k]]
<1>4. f \in [1..n -> T] /\ \A k \in 1..n : f[k] = s[k]
  BY <1>2
<1> HIDE DEF f
<1>5. f \in Bijection(1..n, T)
  BY <1>2, <1>4 DEF Bijection, Injection, Surjection, IsInjective
<1>6. ExistsBijection(1..n, T)
  BY <1>5 DEF ExistsBijection
<1> QED BY <1>3, <1>6, FS_Bijection DEF n, T

\* The place of what is kept, of a set of places.
LEMMA Places ==
  ASSUME NEW n \in Nat, NEW kept \in SUBSET (1..n)
  PROVE  /\ Cardinality(kept) \in Nat
         /\ \A j \in 1..Cardinality(kept) : \E k \in kept : Cardinality(kept \cap 1..k) = j
         /\ \A k \in kept : Cardinality(kept \cap 1..k) \in 1..Cardinality(kept)
         /\ \A k, l \in kept : Cardinality(kept \cap 1..k) = Cardinality(kept \cap 1..l) => k = l
<1> DEFINE m == Cardinality(kept)
           Place(k) == Cardinality(kept \cap 1..k)
<1>1. IsFiniteSet(1..n)
  BY FS_Interval
<1>2. IsFiniteSet(kept) /\ m \in Nat
  BY <1>1, FS_Subset, FS_CardinalityType
<1>3. ASSUME NEW k \in kept
      PROVE  /\ IsFiniteSet(kept \cap 1..k) /\ Place(k) \in 1..m
             /\ \A l \in kept : l > k => Place(l) > Place(k)
  <2>1. \A l \in kept : IsFiniteSet(kept \cap 1..l) /\ Place(l) \in Nat /\ Place(l) <= m
    <3>1. \A l \in kept : kept \cap 1..l \in SUBSET kept
      OBVIOUS
    <3> QED BY <1>2, <3>1, FS_Subset, FS_CardinalityType
  <2>2. k \in kept \cap 1..k /\ k \in 1..n
    BY <1>3
  <2>3. Place(k) # 0
    BY <2>1, <2>2, FS_EmptySet
  <2>4. ASSUME NEW l \in kept, l > k PROVE Place(l) > Place(k)
    <3>1. kept \cap 1..k \in SUBSET (kept \cap 1..l) /\ l \in kept \cap 1..l /\ l \notin kept \cap 1..k
      <4>1. l \in 1..n /\ k \in 1..n
        OBVIOUS
      <4> QED BY <2>4, <4>1
    <3>2. Place(k) <= Place(l) /\ Place(k) # Place(l)
      BY <2>1, <3>1, FS_Subset
    <3> QED BY <2>1, <3>2
  <2> QED BY <1>2, <2>1, <2>3, <2>4
<1>4. ASSUME NEW a \in kept, NEW b \in kept, Place(a) = Place(b) PROVE a = b
  <2> HIDE DEF Place, m
  <2>1. a \in Nat /\ b \in Nat
    OBVIOUS
  <2>2. Place(a) \in Nat /\ Place(b) \in Nat
    <3>1. Place(a) \in 1..m /\ Place(b) \in 1..m
      BY <1>3
    <3>2. m \in Nat
      BY <1>2
    <3> QED BY <3>1, <3>2
  <2>3. (a > b => Place(a) > Place(b)) /\ (b > a => Place(b) > Place(a))
    BY <1>3
  <2> QED BY <1>4, <2>1, <2>2, <2>3
<1> DEFINE f == [k \in kept |-> Place(k)]
<1>5. f \in Injection(kept, 1..m)
  <2>1. f \in [kept -> 1..m] /\ \A k \in kept : f[k] = Place(k)
    BY <1>3
  <2> HIDE DEF f, Place
  <2> QED BY <1>4, <2>1 DEF Injection, IsInjective
<1>6. IsFiniteSet(1..m) /\ Cardinality(1..m) = m
  BY <1>2, FS_Interval
<1> HIDE DEF f
<1>7. f \in Surjection(kept, 1..m)
  BY <1>5, <1>6, FS_Injection
<1>8. \A j \in 1..m : \E k \in kept : f[k] = j
  BY <1>7 DEF Surjection
<1> QED BY <1>2, <1>3, <1>4, <1>8 DEF f

LEMMA WithoutProperties ==
  ASSUME NEW S, NEW s \in Seq(S), IsInjective(s), NEW ids
  PROVE  /\ Without(s, ids) \in Seq(S) /\ IsInjective(Without(s, ids))
         /\ ToSet(Without(s, ids)) = ToSet(s) \ ids
<1> DEFINE n == Len(s)
           kept == {k \in 1..n : s[k] \notin ids}
           m == Cardinality(kept)
           Place(k) == Cardinality(kept \cap 1..k)
           At(j) == CHOOSE k \in kept : Place(k) = j
           t == [j \in 1..m |-> s[At(j)]]
<1>1. n \in Nat /\ DOMAIN s = 1..n /\ (\A k \in 1..n : s[k] \in S) /\ kept \in SUBSET (1..n)
  OBVIOUS
<1>2. Without(s, ids) = t
  BY <1>1 DEF Without
<1> HIDE DEF n, kept
<1>3. /\ m \in Nat
      /\ \A j \in 1..m : \E k \in kept : Place(k) = j
      /\ \A k \in kept : Place(k) \in 1..m
      /\ \A k, l \in kept : Place(k) = Place(l) => k = l
  BY <1>1, Places
<1> HIDE DEF m, Place
<1>4. \A j \in 1..m : At(j) \in kept /\ Place(At(j)) = j
  BY <1>3
<1>5. \A a, b \in 1..n : s[a] = s[b] => a = b
  BY <1>1, InjectiveIs
<1> HIDE DEF At
<1>6. t \in Seq(S) /\ DOMAIN t = 1..m
  <2>1. \A j \in 1..m : s[At(j)] \in S
    BY <1>1, <1>4
  <2> QED BY <1>3, <2>1
<1>7. \A a, b \in DOMAIN t : t[a] = t[b] => a = b
  <2> SUFFICES ASSUME NEW a \in 1..m, NEW b \in 1..m, s[At(a)] = s[At(b)] PROVE a = b
    BY <1>6
  <2>1. At(a) = At(b)
    BY <1>1, <1>4, <1>5
  <2>2. Place(At(a)) = a /\ Place(At(b)) = b
    BY <1>4
  <2> QED BY <2>1, <2>2
<1>8. \A k \in kept : At(Place(k)) = k
  BY <1>3, <1>4
<1>9. {t[j] : j \in DOMAIN t} = {s[k] : k \in kept}
  BY <1>3, <1>4, <1>6, <1>8
<1>10. {s[k] : k \in kept} = {s[k] : k \in 1..n} \ ids
  BY <1>1 DEF kept
<1> HIDE DEF t
<1>11. IsInjective(t) /\ ToSet(t) = {t[j] : j \in DOMAIN t} /\ ToSet(s) = {s[k] : k \in DOMAIN s}
  BY <1>7, InjectiveIs
<1>12. ToSet(t) = ToSet(s) \ ids
  BY <1>1, <1>9, <1>10, <1>11
<1> QED BY <1>2, <1>6, <1>11, <1>12

------------------------------------------------------------------------------
(* The cache. A pending autocompletion is in the cache of its document, and    *)
(* the cache has no more of them than may wait.                                *)

CacheOK ==
    /\ cache \in [Docs -> Seq(Ids)]
    /\ \A d \in Docs : /\ Len(cache[d]) <= MaxCache /\ IsInjective(cache[d])
                       /\ \A i \in Cached(d) : item[i] # Unused /\ item[i].doc = d

RequestsOf(d) == {i \in inFlight : item[i].doc = d}

CInv == CacheOK /\ RequestsBounded

\* The smallest of a set of numbers.
LEMMA Smallest ==
  ASSUME NEW T \in SUBSET Nat, T # {}
  PROVE  Min(T) \in T
<1> DEFINE Less == {p \in Nat \X Nat : p[1] < p[2]}
<1>1. IsWellFoundedOn(Less, Nat)
  <2>1. OpToRel(<, Nat) = Less
    BY DEF OpToRel
  <2> QED BY <2>1, NatLessThanWellFounded
<1> HIDE DEF Less
<1>2. PICK x \in T : \A y \in T : <<y, x>> \notin Less
  BY <1>1, WFMin
<1>3. ASSUME NEW y \in T PROVE x <= y
  <2>1. <<y, x>> \in Nat \X Nat /\ <<y, x>>[1] = y /\ <<y, x>>[2] = x
    OBVIOUS
  <2>2. ~(y < x)
    BY <1>2, <2>1 DEF Less
  <2> QED BY <2>2
<1> QED BY <1>3 DEF Min

\* What the invariant says of an autocompletion in flight.
LEMMA InFlight ==
  ASSUME IInv, CInv
  PROVE  /\ inFlight \subseteq Ids /\ IsFiniteSet(Ids) /\ IsFiniteSet(inFlight)
         /\ \A i \in inFlight : /\ item[i].doc \in Docs /\ i \in Cached(item[i].doc)
                                /\ item[i] # Unused /\ item[i].status = "pending"
         /\ \A d \in Docs : Cardinality(RequestsOf(d)) <= MaxPending
<1>1. inFlight \subseteq Ids /\ \A i \in inFlight : item[i].status = "pending"
  BY DEF IInv, PendingInFlight, Pending
<1>2. IsFiniteSet(Ids)
  BY AutocompleteAssumption
<1>3. IsFiniteSet(inFlight)
  BY <1>1, <1>2, FS_Subset
<1>4. \A i \in inFlight : item[i] # Unused /\ item[i].doc \in Docs
  BY <1>1 DEF IInv, ItemsOK, Item, Unused
<1> QED BY <1>1, <1>2, <1>3, <1>4 DEF CInv, RequestsBounded, RequestsOf

\* Requests that were there leave no more of them than before.
LEMMA FewerRequests ==
  ASSUME IInv, CInv, NEW d \in Docs, RequestsOf(d)' \subseteq RequestsOf(d)
  PROVE  Cardinality(RequestsOf(d)') <= MaxPending
<1> DEFINE P == RequestsOf(d)
           Q == RequestsOf(d)'
<1>1. IsFiniteSet(P) /\ Cardinality(P) <= MaxPending
  BY InFlight, FS_Subset DEF RequestsOf
<1>2. Q \in SUBSET P
  OBVIOUS
<1> HIDE DEF P, Q
<1>3. Cardinality(Q) <= Cardinality(P) /\ Cardinality(Q) \in Nat /\ Cardinality(P) \in Nat
  BY <1>1, <1>2, FS_Subset, FS_CardinalityType
<1>4. Cardinality(Q) <= MaxPending
  BY <1>1, <1>3, AutocompleteAssumption
<1> QED BY <1>4 DEF Q

\* Nothing but what is in flight changed, or what the answers hold.
LEMMA CacheKept ==
  ASSUME IInv, CInv, cache' = cache, inFlight' \subseteq inFlight,
         \A i \in Ids : (item[i] # Unused => item'[i] # Unused /\ item'[i].doc = item[i].doc)
  PROVE  CInv'
<1>1. \A d \in Docs : ToSet(cache[d]) \subseteq Ids
  <2>1. \A d \in Docs : cache[d] \in Seq(Ids)
    BY DEF CInv, CacheOK
  <2> QED BY <2>1 DEF ToSet
<1>2. CacheOK'
  BY <1>1 DEF CInv, CacheOK, Cached
<1>3. \A i \in inFlight' : item'[i].doc = item[i].doc /\ i \in Cached(item[i].doc)
  BY InFlight
<1>4. \A i \in inFlight' : i \in ToSet(cache'[item'[i].doc])
  BY <1>3 DEF Cached
<1>5. ASSUME NEW d \in Docs PROVE Cardinality(RequestsOf(d)') <= MaxPending
  <2>1. RequestsOf(d)' \subseteq RequestsOf(d)
    BY <1>3 DEF RequestsOf
  <2> QED BY <2>1, FewerRequests
<1> QED BY <1>2, <1>4, <1>5 DEF CInv, RequestsBounded, RequestsOf, Cached

\* Autocompletions of one document leave its cache.
LEMMA DeletedCache ==
  ASSUME CacheOK, NEW d \in Docs, NEW ids
  PROVE  /\ Deleted(d, ids) \in [Docs -> Seq(Ids)]
         /\ \A e \in Docs : e # d => Deleted(d, ids)[e] = cache[e]
         /\ IsInjective(Deleted(d, ids)[d]) /\ Deleted(d, ids)[d] \in Seq(Ids)
         /\ ToSet(Deleted(d, ids)[d]) = Cached(d) \ ids
         /\ Len(Deleted(d, ids)[d]) <= Len(cache[d]) /\ Len(Deleted(d, ids)[d]) <= MaxCache
<1>1. cache[d] \in Seq(Ids) /\ IsInjective(cache[d]) /\ Len(cache[d]) <= MaxCache
  BY DEF CacheOK
<1> DEFINE t == Without(cache[d], ids)
<1>2. t \in Seq(Ids) /\ IsInjective(t) /\ ToSet(t) = Cached(d) \ ids
  BY <1>1, WithoutProperties DEF Cached
<1>3. Deleted(d, ids) = [cache EXCEPT ![d] = t]
  BY DEF Deleted
<1> HIDE DEF t
<1>4. /\ IsFiniteSet(Cached(d)) /\ Cardinality(Cached(d)) = Len(cache[d])
      /\ Cardinality(ToSet(t)) = Len(t) /\ IsFiniteSet(ToSet(t))
  BY <1>1, <1>2, SetOfSequence DEF Cached
<1>5. Len(t) <= Len(cache[d])
  BY <1>2, <1>4, FS_Subset
<1>6. Len(t) \in Nat /\ Len(cache[d]) \in Nat /\ MaxCache \in Nat
  BY <1>1, <1>2, AutocompleteAssumption
<1>7. Len(t) <= MaxCache
  BY <1>1, <1>5, <1>6
<1> QED BY <1>2, <1>3, <1>5, <1>7 DEF CacheOK

LEMMA CancelCache ==
  ASSUME IInv, CInv, NEW d \in Docs, NEW ids, NEW cs, Cancel(d, ids, cs),
         \A i \in ids : item[i] # Unused => item[i].doc = d
  PROVE  CInv'
<1>1. cache' = Deleted(d, ids) /\ item' = Dropped(ids) /\ inFlight' = inFlight \ ids
  BY DEF Cancel
<1>2. CacheOK
  BY DEF CInv
<1>3. ASSUME NEW e \in Docs
      PROVE  /\ cache'[e] \in Seq(Ids) /\ Len(cache'[e]) <= MaxCache /\ IsInjective(cache'[e])
             /\ ToSet(cache'[e]) = ToSet(cache[e]) \ ids
  <2>1. CASE e = d
    BY <1>1, <1>2, <2>1, DeletedCache DEF Cached
  <2>2. CASE e # d
    <3>1. cache'[e] = cache[e]
      BY <1>1, <1>2, <2>2, DeletedCache
    <3>2. ToSet(cache[e]) \cap ids = {}
      BY <1>2, <2>2 DEF CacheOK, Cached
    <3> QED BY <1>2, <3>1, <3>2 DEF CacheOK
  <2> QED BY <2>1, <2>2
<1>4. \A i \in Ids \ ids : item'[i] = item[i]
  BY <1>1 DEF Dropped
<1>5. \A e \in Docs : ToSet(cache[e]) \subseteq Ids
  <2>1. \A e \in Docs : cache[e] \in Seq(Ids)
    BY <1>2 DEF CacheOK
  <2> QED BY <2>1 DEF ToSet
<1>6. CacheOK'
  <2>1. cache' \in [Docs -> Seq(Ids)]
    BY <1>1, <1>2, DeletedCache
  <2>2. ASSUME NEW e \in Docs, NEW i \in ToSet(cache'[e]) PROVE item'[i] # Unused /\ item'[i].doc = e
    BY <1>2, <1>3, <1>4, <1>5, <2>2 DEF CacheOK, Cached
  <2> QED BY <1>3, <2>1, <2>2 DEF CacheOK, Cached
<1>7. \A i \in inFlight' : item'[i] = item[i] /\ i \in ToSet(cache'[item[i].doc])
  BY <1>1, <1>3, <1>4, InFlight DEF Cached
<1>8. ASSUME NEW e \in Docs PROVE Cardinality(RequestsOf(e)') <= MaxPending
  <2>1. RequestsOf(e)' \subseteq RequestsOf(e)
    BY <1>1, <1>7 DEF RequestsOf
  <2> QED BY <2>1, FewerRequests
<1> QED BY <1>6, <1>7, <1>8 DEF CInv, RequestsBounded, RequestsOf, Cached

\* The pending autocompletions of a cache are the requests of its document.
LEMMA WaitingAreRequests ==
  ASSUME IInv, CInv, NEW d \in Docs
  PROVE  /\ Waiting(d) \in SUBSET Nat
         /\ \A k \in Waiting(d) : cache[d][k] \in RequestsOf(d)
         /\ Cardinality(Waiting(d)) = Cardinality(RequestsOf(d))
         /\ IsFiniteSet(RequestsOf(d)) /\ Cardinality(RequestsOf(d)) \in Nat
<1> DEFINE s == cache[d]
           W == Waiting(d)
           R == RequestsOf(d)
<1>1. s \in Seq(Ids) /\ IsInjective(s) /\ \A i \in ToSet(s) : item[i].doc = d
  BY DEF CInv, CacheOK, Cached
<1>2. /\ DOMAIN s = 1..Len(s) /\ Len(s) \in Nat /\ \A k \in DOMAIN s : s[k] \in Ids
      /\ \A a, b \in DOMAIN s : s[a] = s[b] => a = b
      /\ ToSet(s) = {s[k] : k \in DOMAIN s}
  BY <1>1, InjectiveIs
<1>3. W = {k \in DOMAIN s : item[s[k]].status = "pending"}
  BY DEF Waiting
<1>4. W \in SUBSET Nat /\ W \in SUBSET (1..Len(s))
  BY <1>2, <1>3
<1>5. IsFiniteSet(W)
  <2>1. \A n \in Nat : IsFiniteSet(1..n)
    BY FS_Interval
  <2>2. IsFiniteSet(1..Len(s))
    BY <1>2, <2>1
  <2> QED BY <1>4, <2>2, FS_Subset
<1>6. \A k \in W : s[k] \in R
  BY <1>1, <1>2, <1>3 DEF RequestsOf, IInv, PendingInFlight, Pending
<1>7. \A i \in R : \E k \in W : s[k] = i
  <2> SUFFICES ASSUME NEW i \in R PROVE \E k \in W : s[k] = i
    OBVIOUS
  <2>1. i \in ToSet(s) /\ item[i].status = "pending"
    BY InFlight DEF RequestsOf, Cached
  <2> QED BY <1>2, <1>3, <2>1
<1> DEFINE f == [k \in W |-> s[k]]
<1>8. f \in [W -> R] /\ \A k \in W : f[k] = s[k]
  BY <1>6
<1> HIDE DEF f, s, W, R
<1>9. f \in Bijection(W, R)
  BY <1>2, <1>3, <1>7, <1>8 DEF Bijection, Injection, Surjection, IsInjective
<1>10. ExistsBijection(W, R)
  BY <1>9 DEF ExistsBijection
<1>11. IsFiniteSet(R) /\ Cardinality(R) = Cardinality(W)
  BY <1>5, <1>10, FS_Bijection
<1>12. Cardinality(R) \in Nat
  BY <1>11, FS_CardinalityType
<1> QED BY <1>4, <1>6, <1>11, <1>12 DEF s, W, R

\* The oldest pending autocompletion makes room for another request.
LEMMA OldestMakesRoom ==
  ASSUME IInv, CInv, NEW d \in Docs
  PROVE  /\ Oldest(d) \subseteq Cached(d)
         /\ IsFiniteSet(RequestsOf(d) \ Oldest(d))
         /\ Cardinality(RequestsOf(d) \ Oldest(d)) \in Nat
         /\ Cardinality(RequestsOf(d) \ Oldest(d)) < MaxPending
<1> DEFINE R == RequestsOf(d)
           n == Cardinality(R)
<1>1. /\ Waiting(d) \in SUBSET Nat /\ \A k \in Waiting(d) : cache[d][k] \in R
      /\ Cardinality(Waiting(d)) = n /\ IsFiniteSet(R) /\ n \in Nat
  BY WaitingAreRequests
<1>2. n <= MaxPending /\ R \subseteq Cached(d) /\ MaxPending \in Nat /\ MaxPending # 0
  BY InFlight, AutocompleteAssumption DEF RequestsOf
<1>3. CASE n >= MaxPending
  <2>1. Waiting(d) # {}
    BY <1>1, <1>2, <1>3, FS_EmptySet
  <2>2. PICK x \in R : Oldest(d) = {x}
    <3>1. Min(Waiting(d)) \in Waiting(d)
      BY <1>1, <2>1, Smallest
    <3>2. Oldest(d) = {cache[d][Min(Waiting(d))]}
      BY <1>1, <1>3 DEF Oldest
    <3> QED BY <1>1, <3>1, <3>2
  <2>3. IsFiniteSet(R \ {x}) /\ Cardinality(R \ {x}) = n - 1
    BY <1>1, FS_RemoveElement
  <2>4. n - 1 \in Nat /\ n - 1 < MaxPending
    <3>1. n # 0
      BY <1>2, <1>3
    <3> HIDE DEF n
    <3> QED BY <1>1, <1>2, <3>1
  <2> QED BY <1>2, <2>2, <2>3, <2>4
<1>4. CASE n < MaxPending
  <2>1. Oldest(d) = {}
    <3>1. ~(n >= MaxPending)
      BY <1>1, <1>2, <1>4
    <3> QED BY <1>1, <3>1 DEF Oldest
  <2>2. R \ Oldest(d) = R
    BY <2>1
  <2> QED BY <1>1, <1>4, <2>1, <2>2
<1> QED BY <1>1, <1>2, <1>3, <1>4

\* And what LRUCache.set evicts makes room in the cache.
LEMMA EvictedMakesRoom ==
  ASSUME CacheOK, NEW d \in Docs, NEW ids
  PROVE  LET gone == ids \cup Evicted(Deleted(d, ids)[d])
         IN  /\ Evicted(Deleted(d, ids)[d]) \subseteq Cached(d)
             /\ Len(Deleted(d, gone)[d]) < MaxCache
<1> DEFINE s == Deleted(d, ids)[d]
           gone == ids \cup Evicted(s)
           t == Deleted(d, gone)[d]
<1>1. /\ s \in Seq(Ids) /\ IsInjective(s) /\ ToSet(s) = Cached(d) \ ids /\ Len(s) <= MaxCache
      /\ t \in Seq(Ids) /\ IsInjective(t) /\ ToSet(t) = Cached(d) \ gone
  BY DeletedCache
<1>2. Len(s) \in Nat /\ Len(t) \in Nat /\ MaxCache \in Nat /\ MaxCache # 0
  BY <1>1, AutocompleteAssumption
<1> HIDE DEF s, t
<1>3. /\ IsFiniteSet(ToSet(s)) /\ Cardinality(ToSet(s)) = Len(s)
      /\ Cardinality(ToSet(t)) = Len(t)
  BY <1>1, SetOfSequence
<1>4. ToSet(t) = ToSet(s) \ Evicted(s)
  BY <1>1
<1>5. CASE Len(s) >= MaxCache
  <2>1. Evicted(s) = {Head(s)}
    BY <1>5 DEF Evicted
  <2>2. Head(s) \in ToSet(s)
    <3>1. 1 \in DOMAIN s /\ Head(s) = s[1]
      BY <1>1, <1>2, <1>5
    <3> QED BY <3>1, InjectiveIs
  <2>3. Len(t) = Len(s) - 1
    <3>1. Cardinality(ToSet(s) \ {Head(s)}) = Cardinality(ToSet(s)) - 1
      BY <1>3, <2>2, FS_RemoveElement
    <3>2. ToSet(t) = ToSet(s) \ {Head(s)}
      BY <1>4, <2>1
    <3> QED BY <1>3, <3>1, <3>2
  <2> QED BY <1>1, <1>2, <2>1, <2>2, <2>3 DEF s, t
<1>6. CASE Len(s) < MaxCache
  <2>1. Evicted(s) = {}
    BY <1>2, <1>6 DEF Evicted
  <2>2. Len(t) = Len(s)
    BY <1>3, <1>4, <2>1
  <2> QED BY <1>6, <2>1, <2>2 DEF s, t
<1> QED BY <1>2, <1>5, <1>6

\* A sequence with one more.
LEMMA AppendOne ==
  ASSUME NEW S, NEW s \in Seq(S), IsInjective(s), NEW x \in S, x \notin ToSet(s)
  PROVE  /\ Append(s, x) \in Seq(S) /\ IsInjective(Append(s, x))
         /\ ToSet(Append(s, x)) = ToSet(s) \cup {x} /\ Len(Append(s, x)) = Len(s) + 1
<1> DEFINE t == Append(s, x)
           n == Len(s)
<1>1. /\ t \in Seq(S) /\ n \in Nat /\ Len(t) = n + 1
      /\ DOMAIN s = 1..n /\ DOMAIN t = 1..(n + 1)
      /\ \A i \in 1..n : t[i] = s[i]
      /\ t[n + 1] = x
  OBVIOUS
<1> HIDE DEF t, n
<1>2. \A i \in 1..(n + 1) : i \in 1..n \/ i = n + 1
  BY <1>1
<1>3. 1..n \subseteq 1..(n + 1) /\ n + 1 \in 1..(n + 1)
  BY <1>1
<1>4. (\A a, b \in 1..n : s[a] = s[b] => a = b) /\ ToSet(s) = {s[k] : k \in 1..n}
  BY <1>1, InjectiveIs
<1>5. \A a, b \in 1..(n + 1) : t[a] = t[b] => a = b
  BY <1>1, <1>2, <1>4
<1>6. {t[k] : k \in 1..(n + 1)} = {s[k] : k \in 1..n} \cup {x}
  BY <1>1, <1>2, <1>3
<1>7. IsInjective(t) /\ ToSet(t) = {t[k] : k \in DOMAIN t}
  BY <1>1, <1>5, InjectiveIs
<1>8. ToSet(t) = ToSet(s) \cup {x}
  BY <1>1, <1>4, <1>6, <1>7
<1>9. t \in Seq(S) /\ IsInjective(t) /\ ToSet(t) = ToSet(s) \cup {x} /\ Len(t) = n + 1
  BY <1>1, <1>7, <1>8
<1> QED BY <1>9 DEF t, n

LEMMA RequestedCache ==
  ASSUME IInv, CInv, NEW c \in Calls, Requested(c)
  PROVE  CInv'
<1>1. PICK d \in Docs : d = calls[c].doc
  <2>1. calls[c].at = "debounce" /\ calls[c] \in CallStates
    BY DEF Requested, IInv, CallsOK
  <2> QED BY <2>1, CallCases, CallShapes
<1> DEFINE ids == Oldest(d)
           gone == ids \cup Evicted(Deleted(d, ids)[d])
           new == CHOOSE i \in FreeIds : TRUE
           x == [status |-> "pending", doc |-> d, prefix |-> calls[c].prefix, len |-> 0]
<1>2. /\ item' = [Dropped(gone) EXCEPT ![new] = x]
      /\ cache' = [cache EXCEPT ![d] = Append(Deleted(d, gone)[d], new)]
      /\ inFlight' = (inFlight \ gone) \cup {new}
      /\ new \in FreeIds /\ x.status = "pending" /\ x.doc = d
  BY <1>1 DEF Requested
<1>3. new \in Ids /\ item[new] = Unused /\ new \notin inFlight
  BY <1>2 DEF FreeIds
<1>4. CacheOK /\ x # Unused
  BY <1>2 DEF CInv, Unused
<1> HIDE DEF x, new
<1>5. /\ ids \subseteq Cached(d) /\ IsFiniteSet(RequestsOf(d) \ ids)
      /\ Cardinality(RequestsOf(d) \ ids) \in Nat /\ Cardinality(RequestsOf(d) \ ids) < MaxPending
  BY <1>2, OldestMakesRoom
<1> HIDE DEF ids
<1>6. Evicted(Deleted(d, ids)[d]) \subseteq Cached(d) /\ Len(Deleted(d, gone)[d]) < MaxCache
  BY <1>2, <1>4, EvictedMakesRoom
<1>7. ids \subseteq gone /\ gone \subseteq Cached(d)
  BY <1>5, <1>6
<1> HIDE DEF gone
<1>8. PICK t \in Seq(Ids) : /\ t = Deleted(d, gone)[d] /\ IsInjective(t)
                            /\ ToSet(t) = Cached(d) \ gone
  BY <1>2, <1>4, DeletedCache
<1>9. \A e \in Docs : new \notin Cached(e)
  BY <1>3, <1>4 DEF CacheOK
<1>10. /\ cache' = [cache EXCEPT ![d] = Append(t, new)]
       /\ Append(t, new) \in Seq(Ids) /\ IsInjective(Append(t, new))
       /\ ToSet(Append(t, new)) = (Cached(d) \ gone) \cup {new}
       /\ Len(Append(t, new)) <= MaxCache
  <2>1. new \notin ToSet(t)
    BY <1>2, <1>8, <1>9
  <2>2. /\ Append(t, new) \in Seq(Ids) /\ IsInjective(Append(t, new))
        /\ ToSet(Append(t, new)) = ToSet(t) \cup {new} /\ Len(Append(t, new)) = Len(t) + 1
    BY <1>3, <1>8, <2>1, AppendOne
  <2>3. Len(t) \in Nat /\ Len(t) < MaxCache
    BY <1>6, <1>8
  <2>4. Len(t) + 1 <= MaxCache
    BY <2>3, AutocompleteAssumption
  <2>5. cache' = [cache EXCEPT ![d] = Append(t, new)]
    BY <1>2, <1>8
  <2>6. ToSet(Append(t, new)) = (Cached(d) \ gone) \cup {new} /\ Len(Append(t, new)) <= MaxCache
    BY <1>8, <2>2, <2>4
  <2> QED BY <2>2, <2>5, <2>6
<1> DEFINE s == Append(t, new)
<1>11. /\ cache' = [cache EXCEPT ![d] = s] /\ s \in Seq(Ids) /\ IsInjective(s)
       /\ ToSet(s) = (Cached(d) \ gone) \cup {new} /\ Len(s) <= MaxCache
  BY <1>10
<1> HIDE DEF s
<1>12. /\ cache' \in [Docs -> Seq(Ids)] /\ cache'[d] = s
       /\ \A e \in Docs : e # d => cache'[e] = cache[e]
  <2>1. cache \in [Docs -> Seq(Ids)] /\ cache' = [cache EXCEPT ![d] = s] /\ s \in Seq(Ids)
    BY <1>4, <1>11 DEF CacheOK
  <2> QED BY <2>1
<1>13. item'[new] = x /\ \A i \in Ids \ {new} : i \notin gone => item'[i] = item[i]
  BY <1>2, <1>3 DEF Dropped
<1>14. \A e \in Docs : Cached(e) \subseteq Ids
  <2>1. \A e \in Docs : cache[e] \in Seq(Ids)
    BY <1>4 DEF CacheOK
  <2> QED BY <2>1 DEF ToSet, Cached
<1>15. CacheOK'
  <2>1. ASSUME NEW e \in Docs, NEW i \in ToSet(cache'[e]) PROVE item'[i] # Unused /\ item'[i].doc = e
    <3>1. CASE e = d /\ i = new
      BY <1>2, <1>4, <1>13, <3>1
    <3>2. CASE e = d /\ i # new
      <4>1. i \in Cached(d) /\ i \notin gone
        BY <1>11, <1>12, <2>1, <3>2
      <4> QED BY <1>2, <1>4, <1>13, <1>14, <3>2, <4>1 DEF CacheOK
    <3>3. CASE e # d
      <4>1. i \in Cached(e)
        BY <1>12, <2>1, <3>3 DEF Cached
      <4>2. i # new /\ i \notin gone /\ i \in Ids
        BY <1>2, <1>4, <1>7, <1>9, <1>14, <3>3, <4>1 DEF CacheOK
      <4> QED BY <1>4, <1>13, <4>1, <4>2 DEF CacheOK
    <3> QED BY <3>1, <3>2, <3>3
  <2>2. ASSUME NEW e \in Docs PROVE Len(cache'[e]) <= MaxCache /\ IsInjective(cache'[e])
    BY <1>4, <1>11, <1>12 DEF CacheOK
  <2> QED BY <1>12, <2>1, <2>2 DEF CacheOK, Cached
<1>16. \A i \in inFlight' : i = new \/ (i \in inFlight /\ i \notin gone /\ item'[i] = item[i])
  BY <1>2, <1>13, InFlight
<1>17. ASSUME NEW i \in inFlight' PROVE i \in ToSet(cache'[item'[i].doc])
  <2>1. CASE i = new
    BY <1>2, <1>11, <1>12, <1>13, <2>1
  <2>2. CASE i # new
    <3>1. /\ i \in inFlight /\ i \notin gone /\ item'[i] = item[i]
          /\ item[i].doc \in Docs /\ i \in Cached(item[i].doc)
      BY <1>16, <2>2, InFlight
    <3> QED BY <1>11, <1>12, <3>1 DEF Cached
  <2> QED BY <2>1, <2>2
<1>18. ASSUME NEW e \in Docs PROVE Cardinality(RequestsOf(e)') <= MaxPending
  <2>1. CASE e # d
    <3>1. RequestsOf(e)' \subseteq RequestsOf(e)
      BY <1>2, <1>13, <1>16, <2>1 DEF RequestsOf
    <3> QED BY <3>1, FewerRequests
  <2>2. CASE e = d
    <3> DEFINE Q == RequestsOf(d)'
               R == RequestsOf(d) \ ids
    <3>1. Q \ {new} \in SUBSET R /\ new \in Q
      BY <1>2, <1>7, <1>13, <1>16 DEF RequestsOf
    <3>2. IsFiniteSet(R) /\ Cardinality(R) \in Nat /\ Cardinality(R) < MaxPending /\ MaxPending \in Nat
      BY <1>5, AutocompleteAssumption
    <3> HIDE DEF Q, R
    <3>3. /\ IsFiniteSet(Q \ {new}) /\ Cardinality(Q \ {new}) <= Cardinality(R)
          /\ Cardinality(Q \ {new}) \in Nat
      BY <3>1, <3>2, FS_Subset, FS_CardinalityType
    <3>4. Q = (Q \ {new}) \cup {new}
      BY <3>1
    <3>5. Cardinality(Q) = Cardinality(Q \ {new}) + 1
      BY <3>3, <3>4, FS_AddElement
    <3>6. Cardinality(Q) <= MaxPending
      BY <3>2, <3>3, <3>5
    <3>7. RequestsOf(e)' = Q
      BY <2>2 DEF Q, RequestsOf
    <3> QED BY <3>6, <3>7
  <2> QED BY <2>1, <2>2
<1> QED BY <1>15, <1>17, <1>18 DEF CInv, RequestsBounded, RequestsOf, Cached

------------------------------------------------------------------------------

LEMMA InitialCache ==
  ASSUME Init
  PROVE  CInv
<1>1. \A d \in Docs : cache[d] = <<>> /\ Len(cache[d]) = 0 /\ ToSet(cache[d]) = {}
  BY DEF Init, ToSet
<1>2. \A d \in Docs : IsInjective(cache[d])
  BY <1>1, InjectiveIs
<1>3. CacheOK
  BY <1>1, <1>2, AutocompleteAssumption DEF CacheOK, Cached, Init
<1>4. \A d \in Docs : RequestsOf(d) = {}
  BY DEF Init, RequestsOf
<1>5. \A d \in Docs : Cardinality(RequestsOf(d)) <= MaxPending
  BY <1>4, FS_EmptySet, AutocompleteAssumption
<1> QED BY <1>3, <1>5 DEF CInv, RequestsBounded, RequestsOf, Init

LEMMA NextCache ==
  ASSUME IInv, CInv, [Next]_vars
  PROVE  CInv'
<1>1. CASE UNCHANGED <<cache, item, inFlight>>
  BY <1>1, CacheKept
<1>2. CacheOK
  BY DEF CInv
<1>3. ASSUME NEW c \in Calls, DebounceEnds(c) PROVE CInv'
  <2>1. calls[c].doc \in Docs
    <3>1. calls[c].at = "debounce" /\ calls[c] \in CallStates
      BY <1>3 DEF DebounceEnds, TypingHappened, NotGenerated, Requested, Refused, IInv, CallsOK
    <3> QED BY <3>1, CallCases, CallShapes
  <2>2. PICK d \in Docs : d = calls[c].doc
    BY <2>1
  <2>3. \A ids : ids \subseteq Cached(d) => \A i \in ids : item[i].doc = d
    BY <1>2 DEF CacheOK
  <2>4. Oldest(d) \subseteq Cached(d) /\ Evicted(Deleted(d, Oldest(d))[d]) \subseteq Cached(d)
    BY <1>2, OldestMakesRoom, EvictedMakesRoom
  <2>5. CASE NotGenerated(c)
    <3>1. PICK cs : Cancel(d, Oldest(d), cs)
      BY <2>2, <2>5 DEF NotGenerated
    <3> QED BY <2>3, <2>4, <3>1, CancelCache
  <2>6. CASE Refused(c)
    <3>1. PICK cs : Cancel(d, Oldest(d) \cup Evicted(Deleted(d, Oldest(d))[d]), cs)
      BY <2>2, <2>6 DEF Refused
    <3> QED BY <2>3, <2>4, <3>1, CancelCache
  <2>7. CASE Requested(c)
    BY <2>7, RequestedCache
  <2>8. CASE TypingHappened(c)
    BY <1>1, <2>8 DEF TypingHappened
  <2> QED BY <1>3, <2>5, <2>6, <2>7, <2>8 DEF DebounceEnds
<1>4. ASSUME NEW i \in Ids, Fails(i) \/ TimesOut(i) PROVE CInv'
  <2>1. i \in inFlight /\ Cancel(item[i].doc, {i}, calls)
    BY <1>4 DEF Fails, TimesOut, IInv, PendingInFlight
  <2>2. PICK d \in Docs : d = item[i].doc
    BY <2>1, InFlight
  <2> QED BY <2>1, <2>2, CancelCache
<1>5. ASSUME NEW i \in Ids, Final(i) PROVE CInv'
  <2>1. PICK len \in Texts : item' = [item EXCEPT ![i].status = "finished", ![i].len = len]
    BY <1>5 DEF Final
  <2>2. i \in inFlight /\ inFlight' = inFlight \ {i} /\ cache' = cache
    BY <1>5 DEF Final
  <2>3. item[i] \in Item
    BY <2>2 DEF IInv, PendingInFlight, Pending, ItemsOK, Unused
  <2> DEFINE x == [item[i] EXCEPT !.status = "finished", !.len = len]
  <2>4. x # Unused /\ x.doc = item[i].doc
    BY <2>3 DEF Item, Unused
  <2>5. item' = [item EXCEPT ![i] = x]
    BY <2>1, <2>3 DEF IInv, ItemsOK
  <2> HIDE DEF x
  <2>6. \A j \in Ids : item[j] # Unused => item'[j] # Unused /\ item'[j].doc = item[j].doc
    BY <2>4, <2>5 DEF IInv, ItemsOK
  <2> QED BY <2>2, <2>6, CacheKept
<1>6. ASSUME NEW d \in Docs, NEW n \in Texts, FreeCompletions(d, n) PROVE CInv'
  <2>1. Cancel(d, Accepted(d, n), calls) /\ \A i \in Accepted(d, n) : item[i].doc = d
    BY <1>2, <1>6 DEF FreeCompletions, Accepted, CacheOK
  <2> QED BY <2>1, CancelCache
<1>7. ASSUME NEW c \in Calls, NEW d \in Docs, NEW n \in Texts, Type(c, d, n) PROVE CInv'
  BY <1>1, <1>7 DEF Type
<1> QED BY <1>1, <1>3, <1>4, <1>5, <1>6, <1>7 DEF Next, vars

LEMMA CacheInvariant == Spec => [](IInv /\ CInv)
<1>1. Init => IInv /\ CInv
  BY Initial, InitialCache
<1>2. IInv /\ CInv /\ [Next]_vars => IInv' /\ CInv'
  BY Inductive, NextCache
<1> QED BY <1>1, <1>2, PTL DEF Spec

(* Types, and a document's cache never exceeds its size.                       *)
THEOREM AutocompleteTypeCorrect == Spec => []TypeOK
<1>1. IInv /\ CInv => TypeOK
  BY InFlight DEF IInv, CInv, CacheOK, CallsOK, CallStates, ItemsOK, TypeOK
<1> QED BY <1>1, CacheInvariant, PTL

(* However keystrokes, answers, failures, time limits, evictions and accepted  *)
(* completions interleave, a request without an answer belongs to an           *)
(* autocompletion in its document's cache, and a document has at most          *)
(* MAX_PENDING_REQUESTS of them, whatever the limits.                          *)
THEOREM AutocompleteRequestsBounded == Spec => []RequestsBounded
<1>1. CInv => RequestsBounded
  BY DEF CInv
<1> QED BY <1>1, CacheInvariant, PTL
=============================================================================
