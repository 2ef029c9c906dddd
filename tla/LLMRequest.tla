---- MODULE LLMRequest ----
(* What the caller of ILLMMessageService is promised about each of its        *)
(* requests, without processes, channels or providers: the text it is shown    *)
(* only grows, unless it is parsed on its way, one answer ends it, with the     *)
(* whole text or with the tool call an agent printed in it, and after the       *)
(* answer or an abort nothing is shown any more.                                *)
EXTENDS Naturals

CONSTANTS
    Requests,    \* the ids sendLLMMessage has to give
    Agents,      \* those in whose final text a tool call may be printed
    Parsed,      \* those whose text is taken apart on its way
    MaxText      \* the longest text a request is shown

VARIABLES
    sent,        \* the requests sendLLMMessage returned an id for
    heard        \* the text shown, the tool call found in it, the callbacks that ended it

vars == <<sent, heard>>

Ends == {"final", "error", "abort"}
Silence == [text |-> 0, tool |-> FALSE, told |-> {}]

TypeOK == /\ sent \subseteq Requests
          /\ heard \in [Requests -> [text : 0..MaxText, tool : BOOLEAN, told : SUBSET Ends]]

Init == /\ sent = {}
        /\ heard = [q \in Requests |-> Silence]

Open(q) == /\ q \notin sent
           /\ sent' = sent \cup {q}
           /\ UNCHANGED heard

\* The texts that may follow what a request was shown: parsing takes some back
Follows(q) == {n \in 0..MaxText : q \in Parsed \/ heard[q].text <= n}

\* onText, of a request that has not ended
Show(q) == /\ q \in sent /\ heard[q].told = {}
           /\ \E n \in Follows(q) : heard' = [heard EXCEPT ![q].text = n]
           /\ UNCHANGED sent

\* onFinalMessage, with the whole text or a tool call and what is left of the text
Final(q) == \E r \in [text : Follows(q), tool : {FALSE}]
                      \cup (IF q \in Agents THEN [text : 0..MaxText, tool : {TRUE}] ELSE {}) :
               heard' = [heard EXCEPT ![q] = [text |-> r.text, tool |-> r.tool, told |-> {"final"}]]

\* an answer: onFinalMessage, or onError
End(q) == /\ q \in sent /\ heard[q].told = {}
          /\ Final(q) \/ heard' = [heard EXCEPT ![q].told = {"error"}]
          /\ UNCHANGED sent

\* onAbort: the caller asked for it, also of a request that has its answer
Aborted(q) == /\ q \in sent
              /\ heard' = [heard EXCEPT ![q].told = @ \cup {"abort"}]
              /\ UNCHANGED sent

Next == \E q \in Requests : Open(q) \/ Show(q) \/ End(q) \/ Aborted(q)

Spec == Init /\ [][Next]_vars
====
