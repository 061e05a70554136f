------------------------ MODULE AtLeastOnceDelivery -------------------------
(***************************************************************************)
(* What the two producers of usage events, the SDK and the monitoring      *)
(* agent, promise about one event (sdk/docs/RELIABILITY.md, "Delivery      *)
(* Guarantee"; the docstrings of retry.py and sqlite_store.py): once       *)
(* accepted it is kept until the API has received it, has refused it for   *)
(* good, or a documented loss happened -- eviction by the overflow policy, *)
(* or the end of the process while the event was still in volatile memory. *)
(* Receiving an event more than once is allowed.                           *)
(*                                                                         *)
(* Nothing here knows about batches, breakers, retries or threads.         *)
(***************************************************************************)
CONSTANT Events

VARIABLES
    accepted,   \* events handed to the pipeline
    buffered,   \* accepted events held in volatile memory
    durable,    \* accepted events held on disk
    received,   \* events the ingestion API has taken at least once
    rejected,   \* events given up after an answer
    dropped     \* events lost in a documented way

vars == <<accepted, buffered, durable, received, rejected, dropped>>

Held == buffered \cup durable

Settled == received \cup rejected

Init ==
    /\ accepted = {}
    /\ buffered = {}
    /\ durable = {}
    /\ received = {}
    /\ rejected = {}
    /\ dropped = {}

(* An event is queued, maybe not for the first time; at capacity it may    *)
(* push out other volatile events.                                         *)
Accept(e, victims) ==
    /\ victims \subseteq buffered
    /\ accepted' = accepted \cup {e}
    /\ buffered' = (buffered \ victims) \cup {e}
    /\ dropped' = dropped \cup victims
    /\ UNCHANGED <<durable, received, rejected>>

(* Another copy of the event may stay behind in memory; and a copy whose   *)
(* event was settled meanwhile may still be stored.                        *)
Persist(e) ==
    /\ e \in buffered \cup Settled
    /\ buffered' \in {buffered, buffered \ {e}}
    /\ durable' = durable \cup {e}
    /\ UNCHANGED <<accepted, received, rejected, dropped>>

(* A request that is on its way may outlive the copy it was made from.     *)
Receive(e) ==
    /\ e \in Held \cup dropped \cup Settled
    /\ received' = received \cup {e}
    /\ UNCHANGED <<accepted, buffered, durable, rejected, dropped>>

Retire(e) ==
    /\ buffered' \in {buffered, buffered \ {e}}
    /\ durable' \in {durable, durable \ {e}}
    /\ UNCHANGED <<accepted, received, dropped>>

Confirm(e) ==
    /\ e \in Held \cap received
    /\ Retire(e)
    /\ UNCHANGED rejected

Reject(e) ==
    /\ e \in Held \cup Settled
    /\ Retire(e)
    /\ rejected' = rejected \cup {e}

(* The store is written anew from the copies in memory, all at once.       *)
Rewrite(rows) ==
    /\ rows \subseteq durable \cup buffered \cup Settled
    /\ durable \ rows \subseteq Settled
    /\ durable' = rows
    /\ buffered' = buffered \ rows
    /\ UNCHANGED <<accepted, received, rejected, dropped>>

(* the process, or its in-memory database, goes away                       *)
Lose(gone) ==
    /\ gone \subseteq buffered
    /\ buffered' = buffered \ gone
    /\ dropped' = dropped \cup gone
    /\ UNCHANGED <<accepted, durable, received, rejected>>

Next ==
    \/ \E e \in Events :
          \/ \E victims \in SUBSET buffered : Accept(e, victims)
          \/ Persist(e)
          \/ Receive(e)
          \/ Confirm(e)
          \/ Reject(e)
    \/ \E gone \in SUBSET buffered : Lose(gone)
    \/ \E rows \in SUBSET Events : Rewrite(rows)

Spec == Init /\ [][Next]_vars
-----------------------------------------------------------------------------
TypeOK ==
    /\ accepted \subseteq Events
    /\ buffered \subseteq accepted
    /\ durable \subseteq accepted
    /\ received \subseteq accepted
    /\ rejected \subseteq accepted
    /\ dropped \subseteq accepted

(* No event disappears without a documented reason: every accepted event   *)
(* is still held, was received, was rejected, or was dropped.              *)
NothingVanishes == accepted \subseteq Held \cup received \cup rejected \cup dropped

(* An event on disk leaves it only after the API received it or the        *)
(* pipeline gave it up on an answer: a crash or an overflow never takes it.*)
DurableUntilAnswered ==
    [][ \A e \in durable \ durable' : e \in received' \cup rejected' ]_vars
=============================================================================
