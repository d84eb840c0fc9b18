------------------------------- MODULE Intake -------------------------------
(***************************************************************************)
(* What other systems send in: external orders that are entered as         *)
(* deliveries (delivery.service.ts), and the events of providers           *)
(* (webhooks.service.ts), which change deliveries and what is billed.      *)
(*                                                                         *)
(* An event is claimed in one transaction under a lease.  Its changes, its *)
(* mark and its failure are statements of their own that look at nothing;  *)
(* an event that is sent again while it is claimed is only acknowledged.   *)
(***************************************************************************)
EXTENDS Naturals, Sequences, FiniteSets

CONSTANTS
    Deliveries,
    Keys,           \* external correlation keys
    Events,         \* [provider, to]: who sends it and the status it brings
    Calls,          \* requests in flight
    MaxExpired,     \* bound: leases of an event that end
    None

VARIABLES
    delivery,       \* the deliveries: their key and status
    billing,        \* the status of the purchase intent, the tenant and the subscription
    inbox,          \* the events: status, and whether the lease has ended
    expired,        \* how many leases of an event have ended
    run             \* the requests in flight

intakeVars == <<delivery, billing, inbox, expired, run>>
-----------------------------------------------------------------------------
Off == [at |-> "idle", key |-> None, delivery |-> None, to |-> None, event |-> None, left |-> <<>>]

Begin(c, call) == run[c] = Off /\ run' = [run EXCEPT ![c] = call]
Done(c) == run' = [run EXCEPT ![c] = Off]

Entered == {d \in Deliveries : delivery[d].status # "absent"}

\* The advisory lock of a correlation key.
KeyFree(k) == \A c \in Calls : run[c].key # k

\* createDelivery; a key that is known answers with its delivery.
ReadEntry(c, k) ==
    /\ KeyFree(k)
    /\ \A d \in Entered : delivery[d].key # k
    /\ Begin(c, [Off EXCEPT !.at = "enter", !.key = k])
    /\ UNCHANGED <<delivery, billing, inbox, expired>>

WriteEntry(c, d) ==
    /\ run[c].at = "enter" /\ d \notin Entered
    /\ delivery' = [delivery EXCEPT ![d] = [status |-> "pending", key |-> run[c].key]]
    /\ Done(c)
    /\ UNCHANGED <<billing, inbox, expired>>

\* updateDeliveryStatus and cancelDelivery read and then write, without a lock.
ReadUpdate(c, at, d, to) ==
    /\ delivery[d].status \in {"pending", "confirmed"}
    /\ Begin(c, [Off EXCEPT !.at = at, !.delivery = d, !.to = to])
    /\ UNCHANGED <<delivery, billing, inbox, expired>>

UpdateDelivery(c, d) ==
    \E to \in {"confirmed", "delivered", "canceled"} : ReadUpdate(c, "update", d, to)

CancelDelivery(c, d) == ReadUpdate(c, "cancel", d, "canceled")

WriteUpdate(c) ==
    /\ run[c].at = "update"
    /\ delivery' = [delivery EXCEPT ![run[c].delivery].status = run[c].to]
    /\ Done(c)
    /\ UNCHANGED <<billing, inbox, expired>>

\* The reason replaces the notes, and with them the correlation key: a canceled
\* external order can be entered again.
WriteCancel(c) ==
    /\ run[c].at = "cancel"
    /\ delivery' = [delivery EXCEPT ![run[c].delivery] = [status |-> "canceled", key |-> None]]
    /\ Done(c)
    /\ UNCHANGED <<billing, inbox, expired>>

\* The statements an event stands for, in their order.
Statements(e) ==
    CASE e.provider = "asaas" -> <<"intent", "tenant", "subscription">>
      [] e.provider = "ifood" -> <<"delivery">>
      [] OTHER -> <<>>

Claimable(e) == \/ inbox[e].status \in {"absent", "failed"}
                \/ inbox[e].status = "processing" /\ inbox[e].ended

\* accept: insert or load, then claim.
Accept(c, e) ==
    /\ Claimable(e)
    /\ inbox' = [inbox EXCEPT ![e] = [status |-> "processing", ended |-> FALSE]]
    /\ Begin(c, [Off EXCEPT !.at = "process", !.event = e, !.left = Statements(e)])
    /\ UNCHANGED <<delivery, billing, expired>>

\* processAsaasEvent and processIfoodEvent, a statement at a time; an event of
\* an order that has no delivery changes nothing.
Apply(c) ==
    LET e == run[c].event
        s == Head(run[c].left)
    IN  /\ run[c].at = "process" /\ run[c].left # <<>>
        /\ IF s # "delivery" THEN billing' = [billing EXCEPT ![s] = e.to] /\ UNCHANGED delivery
           ELSE /\ IF Entered = {} THEN UNCHANGED delivery
                   ELSE \E d \in Entered : delivery' = [delivery EXCEPT ![d].status = e.to]
                /\ UNCHANGED billing
        /\ run' = [run EXCEPT ![c].left = Tail(@)]
        /\ UNCHANGED <<inbox, expired>>

Report(c, status) ==
    /\ run[c].at = "process"
    /\ inbox' = [inbox EXCEPT ![run[c].event] = [status |-> status, ended |-> FALSE]]
    /\ Done(c)
    /\ UNCHANGED <<delivery, billing, expired>>

\* markWebhookProcessed, whatever became of the event meanwhile.
MarkProcessed(c) == run[c].left = <<>> /\ Report(c, "processed")

\* A statement fails.
Fail(c) == Report(c, "failed")

\* A request is lost with its server, or a transaction is undone.
Crash(c) ==
    /\ run[c] # Off
    /\ Done(c)
    /\ UNCHANGED <<delivery, billing, inbox, expired>>

\* WEBHOOK_PROCESSING_LEASE_MS has passed since the claim.
LeaseEnds(e) ==
    /\ inbox[e].status = "processing" /\ ~inbox[e].ended /\ expired[e] < MaxExpired
    /\ inbox' = [inbox EXCEPT ![e].ended = TRUE]
    /\ expired' = [expired EXCEPT ![e] = @ + 1]
    /\ UNCHANGED <<delivery, billing, run>>
-----------------------------------------------------------------------------
Init ==
    /\ delivery = [d \in Deliveries |-> [status |-> "absent", key |-> None]]
    /\ billing = [intent |-> "pending", tenant |-> "trial", subscription |-> "trial"]
    /\ inbox = [e \in Events |-> [status |-> "absent", ended |-> FALSE]]
    /\ expired = [e \in Events |-> 0]
    /\ run = [c \in Calls |-> Off]

Next ==
    \/ \E c \in Calls :
          \/ \E k \in Keys : ReadEntry(c, k)
          \/ \E d \in Deliveries : WriteEntry(c, d) \/ UpdateDelivery(c, d) \/ CancelDelivery(c, d)
          \/ \E e \in Events : Accept(c, e)
          \/ WriteUpdate(c) \/ WriteCancel(c) \/ Apply(c) \/ MarkProcessed(c) \/ Fail(c) \/ Crash(c)
    \/ \E e \in Events : LeaseEnds(e)

Spec == Init /\ [][Next]_intakeVars
-----------------------------------------------------------------------------
(*                               Properties                                *)

TypeOK ==
    /\ \A d \in Deliveries : delivery[d].status \in {"absent", "pending", "confirmed", "delivered", "canceled"}
    /\ DOMAIN billing = {"intent", "tenant", "subscription"}
    /\ inbox \in [Events -> [status : {"absent", "processing", "processed", "failed"}, ended : BOOLEAN]]
    /\ expired \in [Events -> 0..MaxExpired]
    /\ \A c \in Calls : run[c].at \in {"idle", "enter", "update", "cancel", "process"}

\* The deliveries that carry the key of an external order are one, however
\* often the order is entered.
EnteredOnce ==
    \A d, f \in Entered : delivery[d].key = delivery[f].key /\ delivery[d].key # None => d = f

\* An event has no more holders than leases of it were left to end, although a
\* holder that was given up may still report and so free the event again.
HoldersLeased ==
    \A e \in Events : Cardinality({c \in Calls : run[c].event = e}) <= expired[e] + 1
=============================================================================
