---- MODULE Autocomplete ----
(* autocompleteService: the calls the editor makes at every keystroke, the     *)
(* debounce, the cache of autocompletions of each document and the requests    *)
(* to the model behind them. Any number of calls await at a time.              *)
EXTENDS Naturals, Sequences, FiniteSets, SequencesExt

CONSTANTS
    Docs,        \* documents
    Calls,       \* bound: calls of _provideInlineCompletionItems at a time
    Ids,         \* identities of autocompletions; one no longer used is used again
    MaxLen,      \* bound: the length of the text typed in a document
    MaxCache,    \* MAX_CACHE_SIZE (20)
    MaxPending   \* MAX_PENDING_REQUESTS (2)

ASSUME AutocompleteAssumption ==
    /\ MaxLen \in Nat /\ MaxCache \in Nat \ {0} /\ MaxPending \in Nat \ {0}
    /\ IsFiniteSet(Docs) /\ IsFiniteSet(Ids)
    /\ Cardinality(Ids) >= MaxCache * Cardinality(Docs) + 1

VARIABLES
    calls,       \* the calls, idle or awaiting something
    cache,       \* _autocompletionsOfDocument: ids, oldest first
    item,        \* the autocompletions
    inFlight     \* requests of sendLLMMessage with no answer and not aborted

vars == <<calls, cache, item, inFlight>>

\* A text is its length: what is typed in a document is one line that grows and
\* shrinks, and a completion goes on with it for len characters.
Texts == 0..MaxLen

Idle == [at |-> "idle"]
Debouncing(d, n, latest) == [at |-> "debounce", doc |-> d, prefix |-> n, latest |-> latest]
Awaiting(i) == [at |-> "answer", id |-> i]
Unused == [status |-> "unused"]
Item == [status : {"pending", "finished"}, doc : Docs, prefix : Texts, len : Texts]

Pending == {i \in Ids : item[i].status = "pending"}
Cached(d) == ToSet(cache[d])

(* Types, and a document's cache holds at most MAX_CACHE_SIZE of its own       *)
(* autocompletions, each once.                                                 *)
TypeOK ==
    /\ inFlight \subseteq Ids
    /\ calls \in [Calls -> {Idle} \cup {Awaiting(i) : i \in Ids}
                     \cup {Debouncing(d, n, b) : d \in Docs, n \in Texts, b \in BOOLEAN}]
    /\ item \in [Ids -> Item \cup {Unused}]
    /\ \A d \in Docs :
          /\ cache[d] \in Seq(Ids) /\ Len(cache[d]) <= MaxCache /\ IsInjective(cache[d])
          /\ \A i \in Cached(d) : item[i] # Unused /\ item[i].doc = d

Init ==
    /\ calls = [c \in Calls |-> Idle]
    /\ cache = [d \in Docs |-> <<>>]
    /\ item = [i \in Ids |-> Unused]
    /\ inFlight = {}

\* getAutocompletionMatchup: what was typed since goes along with the completion.
Matches(i, n) ==
    item[i].prefix <= n /\ n <= item[i].prefix + item[i].len

------------------------------------------------------------------------------
(* LRUCache.delete and set: what leaves the cache is aborted. An aborted       *)
(* request rejects its promise, and the calls that await it return.            *)

Released(cs, ids) == [c \in Calls |->
    IF cs[c].at = "answer" /\ cs[c].id \in ids THEN Idle ELSE cs[c]]

Dropped(ids) == [i \in Ids |-> IF i \in ids THEN Unused ELSE item[i]]

\* What is left of s without ids, in its order: in place j is the one that is
\* the j-th of those that are kept.
Without(s, ids) ==
    LET kept == {k \in DOMAIN s : s[k] \notin ids}
    IN [j \in 1..Cardinality(kept) |-> s[CHOOSE k \in kept : Cardinality(kept \cap 1..k) = j]]

Deleted(d, ids) == [cache EXCEPT ![d] = Without(@, ids)]

\* Mutant: an aborted request does not reject its promise.
Cancel_PromiseStays(d, ids, cs) ==
    /\ cache' = Deleted(d, ids)
    /\ item' = Dropped(ids)
    /\ inFlight' = inFlight \ ids
    /\ calls' = cs

Cancel(d, ids, cs) ==
    /\ cache' = Deleted(d, ids)
    /\ item' = Dropped(ids)
    /\ inFlight' = inFlight \ ids
    /\ calls' = Released(cs, ids)

Evicted(s) == IF Len(s) >= MaxCache THEN {Head(s)} ELSE {}

\* Where in its cache a document has pending autocompletions.
Waiting(d) == {k \in DOMAIN cache[d] : item[cache[d][k]].status = "pending"}

\* Mutant: one more request may wait.
Oldest_OffByOne(d) ==
    LET waiting == Waiting(d)
    IN IF Cardinality(waiting) > MaxPending THEN {cache[d][Min(waiting)]} ELSE {}

\* The oldest of the pending autocompletions, when there are MAX_PENDING_REQUESTS.
Oldest(d) ==
    LET waiting == Waiting(d)
    IN IF Cardinality(waiting) >= MaxPending THEN {cache[d][Min(waiting)]} ELSE {}

------------------------------------------------------------------------------
(* A keystroke. The first autocompletion of the cache that goes along with the *)
(* text is used: a finished one at once, which changes nothing, a pending one  *)
(* when it is answered.                                                        *)

UsesCache(c, d, n) ==
    \E k \in DOMAIN cache[d] :
        LET i == cache[d][k]
        IN /\ Matches(i, n) /\ \A j \in 1..(k - 1) : ~Matches(cache[d][j], n)
           /\ i \in Pending
           /\ calls' = [calls EXCEPT ![c] = Awaiting(i)]

\* Every call that debounces compares _lastCompletionStart with its own time:
\* with a later one it finds that typing happened, in any document.
Debounces(c, d, n, sameTime) ==
    /\ \A i \in Cached(d) : ~Matches(i, n)
    /\ calls' = [b \in Calls |->
          IF b = c THEN Debouncing(d, n, TRUE)
          ELSE IF calls[b].at = "debounce" /\ ~sameTime THEN [calls[b] EXCEPT !.latest = FALSE]
          ELSE calls[b]]

Type(c, d, n) ==
    /\ calls[c] = Idle
    /\ \/ UsesCache(c, d, n)
       \/ \E sameTime \in BOOLEAN : Debounces(c, d, n, sameTime)
    /\ UNCHANGED <<cache, item, inFlight>>

(* The debounce ends.                                                          *)

TypingHappened(c) ==
    /\ calls[c].at = "debounce" /\ ~calls[c].latest
    /\ calls' = [calls EXCEPT ![c] = Idle]
    /\ UNCHANGED <<cache, item, inFlight>>

\* The oldest pending request is cancelled also when nothing is generated then.
NotGenerated(c) ==
    /\ calls[c].at = "debounce" /\ calls[c].latest
    /\ LET d == calls[c].doc
       IN Cancel(d, Oldest(d), [calls EXCEPT ![c] = Idle])

FreeIds == {i \in Ids : item[i] = Unused /\ i \notin inFlight}

\* A request is sent, and the autocompletion goes to the cache.
Requested(c) ==
    /\ calls[c].at = "debounce" /\ calls[c].latest
    /\ FreeIds # {}
    /\ LET d == calls[c].doc
           kept == Deleted(d, Oldest(d))[d]
           gone == Oldest(d) \cup Evicted(kept)
           new == CHOOSE i \in FreeIds : TRUE
       IN /\ item' = [Dropped(gone) EXCEPT ![new] =
                [status |-> "pending", doc |-> d, prefix |-> calls[c].prefix, len |-> 0]]
          /\ cache' = [cache EXCEPT ![d] = Append(Deleted(d, gone)[d], new)]
          /\ inFlight' = (inFlight \ gone) \cup {new}
          /\ calls' = Released([calls EXCEPT ![c] = Awaiting(new)], gone)

\* sendLLMMessage refuses: the promise is rejected before the autocompletion
\* goes to the cache, which may evict another, and is deleted from it again.
Refused(c) ==
    /\ calls[c].at = "debounce" /\ calls[c].latest
    /\ LET d == calls[c].doc
           kept == Deleted(d, Oldest(d))[d]
           gone == Oldest(d) \cup Evicted(kept)
       IN Cancel(d, gone, [calls EXCEPT ![c] = Idle])

------------------------------------------------------------------------------
(* The answer.                                                                 *)

Final(i) ==
    /\ i \in inFlight /\ inFlight' = inFlight \ {i}
    /\ \E len \in Texts :
          item' = [item EXCEPT ![i].status = "finished", ![i].len = len]
    /\ calls' = Released(calls, {i})
    /\ UNCHANGED cache

\* The calls that awaited the answer delete the autocompletion.
Fails(i) ==
    /\ i \in inFlight
    /\ Cancel(item[i].doc, {i}, calls)

\* Mutant: the time limit looks at the wrong status.
TimesOut_WhenFinished(i) ==
    /\ item[i].status = "finished"
    /\ \E c \in Calls : calls[c] = Awaiting(i)
    /\ Cancel(item[i].doc, {i}, calls)

\* TIMEOUT_TIME has passed: the promise is rejected, and deleting the
\* autocompletion aborts the request.
TimesOut(i) ==
    /\ i \in Pending
    /\ \E c \in Calls : calls[c] = Awaiting(i)
    /\ Cancel(item[i].doc, {i}, calls)

\* freeInlineCompletions: whatever in the cache ends at the cursor is taken for
\* accepted and deleted, a pending autocompletion of the same text included.
Accepted(d, n) == {i \in Cached(d) : item[i].prefix + item[i].len = n}

FreeCompletions(d, n) ==
    /\ Accepted(d, n) # {}
    /\ Cancel(d, Accepted(d, n), calls)

------------------------------------------------------------------------------

DebounceEnds(c) == TypingHappened(c) \/ NotGenerated(c) \/ Requested(c) \/ Refused(c)

Next ==
    \/ \E c \in Calls : DebounceEnds(c)
    \/ \E c \in Calls, d \in Docs, n \in Texts : Type(c, d, n)
    \/ \E i \in Ids : Final(i) \/ Fails(i) \/ TimesOut(i)
    \/ \E d \in Docs, n \in Texts : FreeCompletions(d, n)

Spec == Init /\ [][Next]_vars

(* The timers of the debounce and of the time limit fire. Nothing is assumed   *)
(* of the model, which may never answer.                                       *)
FairSpec ==
    /\ Spec
    /\ \A c \in Calls : WF_vars(DebounceEnds(c))
    /\ \A i \in Ids : WF_vars(TimesOut(i))

------------------------------------------------------------------------------
(* Properties.                                                                 *)

\* However the calls interleave, a request without an answer belongs to an
\* autocompletion of the cache, where it can be found and cancelled, and a
\* document has at most MAX_PENDING_REQUESTS of them.
RequestsBounded ==
    /\ \A i \in inFlight : i \in Cached(item[i].doc)
    /\ \A d \in Docs : Cardinality({i \in inFlight : item[i].doc = d}) <= MaxPending

\* A call that awaits an autocompletion awaits one that will be answered: it was
\* neither cancelled, evicted, taken for accepted nor answered before.
AwaitsPending ==
    \A c \in Calls : calls[c].at = "answer" => calls[c].id \in inFlight

\* Every call of the editor returns, even when the model never answers.
CallReturns == \A c \in Calls : (calls[c] # Idle) ~> (calls[c] = Idle)
====
