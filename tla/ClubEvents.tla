------------------------------ MODULE ClubEvents -----------------------------
(***************************************************************************)
(* The calls of the club's partner that only tell what it sold or whom it  *)
(* linked (registerClubSale and linkCustomer of club-whisky.service.ts).   *)
(* The partner repeats a call whose answer it did not get, with its key.   *)
(* The key is reserved as a row of webhook_events in the transaction that  *)
(* queues the event.                                                       *)
(***************************************************************************)
EXTENDS Naturals

CONSTANTS
    Keys,
    Payloads,       \* what a call tells, with its kind
    Calls,
    MaxEvents,      \* bound: how often one event is queued
    None

VARIABLES
    received,       \* per key: the payload of its webhook_events row, or None
    queued,         \* per key and payload: rows of outbox_events
    accepted,       \* what the partner was answered
    partner         \* the calls in flight

clubEventVars == <<received, queued, accepted, partner>>
-----------------------------------------------------------------------------
Idle == [key |-> None, payload |-> None]

Told(k, p) == [key |-> k, payload |-> p]

\* An insert of a key that a transaction has in hand waits for its end.
KeyFree(k) == \A c \in Calls : partner[c].key # k

\* Mutant: the key is reserved by a statement of its own.
ReservedAtOnce(k, p) == [received EXCEPT ![k] = p]

\* What the other transactions see of a reservation.
Reserved(k, p) == received

\* reserveIdempotency of a key that is new.
Reserve(c, k, p) ==
    /\ partner[c] = Idle /\ KeyFree(k) /\ received[k] = None
    /\ received' = Reserved(k, p)
    /\ partner' = [partner EXCEPT ![c] = Told(k, p)]
    /\ UNCHANGED <<queued, accepted>>

\* Of one that is there: a repetition, or refused as another call's.
Repeat(c, k, p) ==
    /\ partner[c] = Idle /\ KeyFree(k) /\ received[k] # None
    /\ accepted' = IF received[k] = p THEN accepted \cup {Told(k, p)} ELSE accepted
    /\ UNCHANGED <<received, queued, partner>>

\* The event, the audit and the key are committed.  The answer may be lost.
Register(c) ==
    LET k == partner[c].key
        p == partner[c].payload
    IN  /\ partner[c] # Idle /\ queued[k][p] < MaxEvents
        /\ received' = [received EXCEPT ![k] = p]
        /\ queued' = [queued EXCEPT ![k][p] = @ + 1]
        /\ accepted' \in {accepted, accepted \cup {Told(k, p)}}
        /\ partner' = [partner EXCEPT ![c] = Idle]

\* A product that is not eligible, an error, a crash: all is rolled back.
Fail(c) ==
    /\ partner[c] # Idle
    /\ partner' = [partner EXCEPT ![c] = Idle]
    /\ UNCHANGED <<received, queued, accepted>>
-----------------------------------------------------------------------------
Init ==
    /\ received = [k \in Keys |-> None]
    /\ queued = [k \in Keys |-> [p \in Payloads |-> 0]]
    /\ accepted = {}
    /\ partner = [c \in Calls |-> Idle]

Next ==
    \E c \in Calls : \/ \E k \in Keys, p \in Payloads : Reserve(c, k, p) \/ Repeat(c, k, p)
                     \/ Register(c) \/ Fail(c)

Spec == Init /\ [][Next]_clubEventVars
-----------------------------------------------------------------------------
(*                               Properties                                *)

TypeOK ==
    /\ received \in [Keys -> Payloads \cup {None}]
    /\ queued \in [Keys -> [Payloads -> 0..MaxEvents]]
    /\ accepted \subseteq [key : Keys, payload : Payloads]
    /\ partner \in [Calls -> [key : Keys, payload : Payloads] \cup {Idle}]

\* What the partner is told was accepted is queued, once and as it was told,
\* and no other call got in under its key.
AcceptedIsQueued ==
    \A told \in accepted : \A p \in Payloads :
        queued[told.key][p] = IF p = told.payload THEN 1 ELSE 0
=============================================================================
