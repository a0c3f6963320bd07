---------------------------- MODULE AttentionRoute ----------------------------
(***************************************************************************)
(* The two programs through which the router reaches the owner, as its     *)
(* client uses them (router/attention.py): the attention broker, which     *)
(* holds one intent for each question and lends it to one holder of a      *)
(* lease, and the conversation bridge, which shows the question and takes  *)
(* the reply. Both are other processes: a call may take effect and still   *)
(* be reported as failed, when its answer is late, lost or malformed.      *)
(***************************************************************************)
EXTENDS Integers

CONSTANTS
  Questions,  \* question identifiers, in the order they are staged
  MaxLeases   \* bound: claims of one intent

ASSUME RouteAssumption == MaxLeases \in Nat

VARIABLES
  intent,  \* [Questions -> the broker's intent: state, latest lease]
  conv     \* [Questions -> state of the conversation at the bridge]

route == <<intent, conv>>

RouteInit ==
  /\ intent = [q \in Questions |-> [state |-> "none", lease |-> 0]]
  /\ conv = [q \in Questions |-> "none"]

(* _call: an answered call was permitted and took effect; of a call that   *)
(* failed the caller does not know.                                         *)
Call(answered, permitted, effect, nothing) ==
  \/ permitted /\ effect
  \/ ~answered /\ nothing

IntentBecomes(q, state) == intent' = [intent EXCEPT ![q].state = state] /\ UNCHANGED conv
ConvBecomes(q, state) == conv' = [conv EXCEPT ![q] = state] /\ UNCHANGED intent

-----------------------------------------------------------------------------
(* The broker's operations. Each is idempotent.                             *)
Submit(q, answered) ==
  Call(answered, TRUE,
       IntentBecomes(q, IF intent[q].state = "none" THEN "queued" ELSE intent[q].state),
       UNCHANGED route)

BeginDelivery(q, lease, answered) ==
  Call(answered, intent[q].state \in {"claimed", "sending"} /\ intent[q].lease = lease,
       IntentBecomes(q, "sending"), UNCHANGED route)

Release(q, lease, answered) ==
  Call(answered, intent[q].state = "claimed" /\ intent[q].lease = lease,
       IntentBecomes(q, "queued"), UNCHANGED route)

Complete(q, lease, answered) ==
  Call(answered, intent[q].state \in {"sending", "delivered", "completed"} /\ intent[q].lease = lease,
       IntentBecomes(q, IF intent[q].state = "sending" THEN "delivered" ELSE intent[q].state),
       UNCHANGED route)

(* Once the holder of a lease may be sending, nothing is cancelled.         *)
CancelIntent(q, lease, answered) ==
  Call(answered, \/ intent[q].state \in {"queued", "cancelled"}
                 \/ intent[q].state = "claimed" /\ intent[q].lease = lease,
       IntentBecomes(q, "cancelled"), UNCHANGED route)

ReleaseVisible(q, answered) ==
  Call(answered, intent[q].state \in {"delivered", "completed"},
       IntentBecomes(q, "completed"), UNCHANGED route)

(* claim_next hands a lease to a dispatcher; a lease that lapses before the *)
(* delivery began returns the intent to the queue.                          *)
ClaimNext(q) ==
  /\ intent[q].state = "queued"
  /\ intent[q].lease < MaxLeases
  /\ intent' = [intent EXCEPT ![q] = [state |-> "claimed", lease |-> @.lease + 1]]
  /\ UNCHANGED conv

LeaseLapses(q) == intent[q].state = "claimed" /\ IntentBecomes(q, "queued")

-----------------------------------------------------------------------------
(* The bridge's operations.                                                 *)
BridgeStage(q, answered) ==
  Call(answered, TRUE, ConvBecomes(q, IF conv[q] = "none" THEN "prepared" ELSE conv[q]),
       UNCHANGED route)

(* The message is shown once; a repetition reports the conversation's state. *)
BridgeDeliver(q, answered) ==
  Call(answered, conv[q] # "none",
       ConvBecomes(q, IF conv[q] = "prepared" THEN "awaiting_reply" ELSE conv[q]),
       UNCHANGED route)

BridgeCancel(q, answered) ==
  Call(answered, conv[q] # "none",
       ConvBecomes(q, IF conv[q] = "awaiting_reply" THEN "cancelled" ELSE conv[q]),
       UNCHANGED route)

(* The agent ends the conversation; the bridge lets an idle one expire.     *)
BridgeEnds(q, state) == conv[q] = "awaiting_reply" /\ ConvBecomes(q, state)

(* consume_reply_proof accepts a digest for a reply of a live conversation, *)
(* and the same digest again.                                               *)
ProofAccepted(q) == conv[q] = "awaiting_reply"

Shown(q) == conv[q] \notin {"none", "prepared"}
=============================================================================
