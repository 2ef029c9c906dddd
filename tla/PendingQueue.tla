---------------------------- MODULE PendingQueue ----------------------------
(***************************************************************************)
(* What the pending queue of Work Mode (scripts/forge-work.mjs) promises   *)
(* to the windows that share it, as operations without intermediate steps. *)
(*                                                                         *)
(* Scheduled work is queued as items.  A window claims an item for a lease *)
(* and acknowledges it when its work is done.  An active claim belongs to  *)
(* its claimant, and an acknowledged item does not come back.              *)
(***************************************************************************)

CONSTANTS
  Procs,       \* the processes that claim
  Workflows,
  ItemIds,     \* ids of items; leases have ids of their own
  Leases,
  NoClaim      \* the claim of an item nobody has claimed yet

VARIABLES
  items,       \* pending.json
  expired,     \* leases that have run out
  used         \* ids of items ever queued
vars == <<items, expired, used>>

Claims == [by : Procs, lease : Leases]
Items == [id : ItemIds, workflow : Workflows, claim : Claims \cup {NoClaim}]

Ids == {x.id : x \in items}
Active(x) == x.claim # NoClaim /\ x.claim.lease \notin expired

Enqueue(w, id) ==
  /\ id \notin used
  /\ \A x \in items : x.workflow = w => x.claim # NoClaim
  /\ items' = items \cup {[id |-> id, workflow |-> w, claim |-> NoClaim]}
  /\ used' = used \cup {id}
  /\ UNCHANGED expired

Claim(x, p, lease) ==
  /\ x \in items
  /\ Active(x) => x.claim.by = p
  /\ lease \notin expired
  /\ items' = (items \ {x}) \cup
                {[x EXCEPT !.claim = [by |-> p, lease |-> lease]]}
  /\ UNCHANGED <<expired, used>>

Acknowledge(x) ==
  /\ x \in items
  /\ items' = items \ {x}
  /\ UNCHANGED <<expired, used>>

\* The workflow is removed, and its items with it.
Drop(w) ==
  /\ items' = {x \in items : x.workflow # w}
  /\ UNCHANGED <<expired, used>>

Expire(lease) ==
  /\ expired' = expired \cup {lease}
  /\ UNCHANGED <<items, used>>

Init == items = {} /\ expired = {} /\ used = {}

Next ==
  \/ \E w \in Workflows, id \in ItemIds : Enqueue(w, id)
  \/ \E x \in items, p \in Procs, lease \in Leases : Claim(x, p, lease)
  \/ \E x \in items : Acknowledge(x)
  \/ \E w \in Workflows : Drop(w)
  \/ \E lease \in Leases : Expire(lease)

Spec == Init /\ [][Next]_vars

-----------------------------------------------------------------------------
TypeOK ==
  /\ items \subseteq Items
  /\ expired \subseteq Leases
  /\ used \subseteq ItemIds

\* A pending item has an id of its own, and one that was given out: the id
\* names the item in claim and ack.
IdsIdentify ==
  /\ \A x, y \in items : x.id = y.id => x = y
  /\ Ids \subseteq used

\* A workflow that is due again and again waits in the queue once: at most one
\* item of a workflow has never been claimed (enqueuePending looks for it).
WaitsOnce ==
  \A x, y \in items :
    x.workflow = y.workflow /\ x.claim = NoClaim /\ y.claim = NoClaim => x = y

\* An item that left the queue does not come back.
GoneStaysGone ==
  [][\A id \in used : id \notin Ids => id \notin Ids']_vars

\* An active claim is not taken over: the item keeps its claimant for as long
\* as the lease runs, or it leaves the queue (claimPendingWork).
ActiveClaimKept ==
  [][\A x \in items, y \in items' :
       x.id = y.id /\ Active(x) => y.claim # NoClaim /\ y.claim.by = x.claim.by]_vars
=============================================================================
