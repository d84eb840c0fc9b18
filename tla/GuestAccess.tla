----------------------------- MODULE GuestAccess -----------------------------
(***************************************************************************)
(* Guests at a table of DiningRoom (the public side of qr.service.ts): they*)
(* are let in by the table's code, by its network or by an approval of the *)
(* staff, they order with a key they repeat, and they call the staff.      *)
(*                                                                         *)
(* Checks come before the transaction that relies on them, and what they   *)
(* read is not locked: each call is two or three steps.                    *)
(***************************************************************************)
EXTENDS DiningRoom

CONSTANTS
    Visitors,   \* calls of guests in flight
    Accesses,   \* requests to be let in by approval
    Keys,       \* idempotency keys of orders
    Calls       \* requests for the staff, all of one type

VARIABLES
    access,     \* the qr_guest_access_requests rows
    placed,     \* per key, how many times its items were added
    known,      \* the keys that have a committed receipt
    bell,       \* the service_requests rows
    visit       \* the calls in flight

guestVars == <<access, placed, known, bell, visit>>
-----------------------------------------------------------------------------
NoVisit == [at |-> "idle", service |-> None, access |-> None, guest |-> None,
            order |-> None, key |-> None]

Visit(v, call) == visit[v] = NoVisit /\ visit' = [visit EXCEPT ![v] = call]

Leave(v) == visit' = [visit EXCEPT ![v] = NoVisit]

\* requireGuestSession: the guest and the service session are both active.
Admitted(g) == guest[g].status = "active" /\ service[guest[g].service].status = "active"

\* isTableActive.
Serving(t) == table[t].status \notin {"free", "reserved", "blocked"}

\* validatePresenceCode and validatePresenceNetwork, to their insert.
ReadEntry(v, s) ==
    /\ service[s].status = "active"
    /\ Visit(v, [NoVisit EXCEPT !.at = "enter", !.service = s])
    /\ UNCHANGED <<roomVars, access, placed, known, bell>>

AddGuest(s) ==
    /\ Insertable(guest) # {}
    /\ guest' = [guest EXCEPT ![First(Insertable(guest))] = [status |-> "active", service |-> s]]

WriteEntry(v) ==
    /\ visit[v].at = "enter"
    /\ AddGuest(visit[v].service)
    /\ Leave(v)
    /\ UNCHANGED <<table, order, reservation, waiting, service, staff, access, placed, known, bell>>

RequestAccess(a, s) ==
    /\ service[s].status = "active" /\ access[a].status = "absent"
    /\ access' = [access EXCEPT ![a] = [status |-> "pending", service |-> s]]
    /\ UNCHANGED <<roomVars, placed, known, bell, visit>>

ApproveAccess(a) ==
    /\ access[a].status = "pending"
    /\ access' = [access EXCEPT ![a].status = "approved"]
    /\ UNCHANGED <<roomVars, placed, known, bell, visit>>

\* claimPresenceApproval of a request that is past its time, whatever became
\* of it.
ExpireAccess(a) ==
    /\ access[a].status # "absent" /\ service[access[a].service].status = "active"
    /\ access' = [access EXCEPT ![a].status = "expired"]
    /\ UNCHANGED <<roomVars, placed, known, bell, visit>>

ReadClaim(v, a) ==
    /\ access[a].status = "approved" /\ service[access[a].service].status = "active"
    /\ Visit(v, [NoVisit EXCEPT !.at = "claim", !.access = a, !.service = access[a].service])
    /\ UNCHANGED <<roomVars, access, placed, known, bell>>

WriteClaim(v) ==
    /\ visit[v].at = "claim"
    /\ AddGuest(visit[v].service)
    /\ access' = [access EXCEPT ![visit[v].access].status = "claimed"]
    /\ Leave(v)
    /\ UNCHANGED <<table, order, reservation, waiting, service, staff, placed, known, bell>>
-----------------------------------------------------------------------------
\* createPublicOrder: the guest is checked before the transaction.
ReadGuest(v, g, k) ==
    /\ Admitted(g) /\ Serving(service[guest[g].service].table)
    /\ Visit(v, [NoVisit EXCEPT !.at = "order", !.guest = g, !.key = k, !.service = guest[g].service,
                                !.order = service[guest[g].service].order])
    /\ UNCHANGED <<roomVars, access, placed, known, bell>>

\* Mutant: the key is not looked up.
NeverKnown(k) == FALSE

Known(k) == k \in known

\* reserveIdempotency: a known key is answered with its receipt, and one that
\* is being reserved by another transaction is waited for.
ReserveKey(v) ==
    LET k == visit[v].key
        o == visit[v].order
    IN  /\ visit[v].at = "order"
        /\ \A w \in Visitors : ~(visit[w].at = "place" /\ visit[w].key = k)
        /\ IF ~Known(k) /\ order[o].status = "open" /\ order[o].table = service[visit[v].service].table
           THEN visit' = [visit EXCEPT ![v].at = "place"]
           ELSE Leave(v)
        /\ UNCHANGED <<roomVars, access, placed, known, bell>>

\* The items, the sums (added by the database to whatever they are by now)
\* and the receipt, or a rollback that forgets the key.
PlaceOrder(v) ==
    LET k == visit[v].key
        o == visit[v].order
    IN  /\ visit[v].at = "place"
        /\ \/ /\ order[o].version < MaxVersion
              /\ order' = [order EXCEPT ![o].items = @ + 1, ![o].version = @ + 1]
              /\ placed' = [placed EXCEPT ![k] = @ + 1]
              /\ known' = known \cup {k}
           \/ UNCHANGED <<order, placed, known>>
        /\ Leave(v)
        /\ UNCHANGED <<table, reservation, waiting, service, guest, staff, access, bell>>
-----------------------------------------------------------------------------
\* createServiceRequest: no similar one of the last minute is being handled.
ReadBell(v, g) ==
    /\ Admitted(g) /\ Serving(service[guest[g].service].table)
    /\ \A d \in Calls : bell[d].status \in {"pending", "acknowledged"} =>
                            ~bell[d].recent \/ bell[d].table # service[guest[g].service].table
    /\ Visit(v, [NoVisit EXCEPT !.at = "ring", !.service = guest[g].service])
    /\ UNCHANGED <<roomVars, access, placed, known, bell>>

RingBell(v, b) ==
    /\ visit[v].at = "ring" /\ bell[b].status = "absent"
    /\ bell' = [bell EXCEPT ![b] = [status |-> "pending", table |-> service[visit[v].service].table,
                                   recent |-> TRUE]]
    /\ Leave(v)
    /\ UNCHANGED <<roomVars, access, placed, known>>

AgeBell(b) ==
    /\ bell[b].recent
    /\ bell' = [bell EXCEPT ![b].recent = FALSE]
    /\ UNCHANGED <<roomVars, access, placed, known, visit>>

\* transitionRequest.
AnswerBell(b, status) ==
    /\ bell[b].status \in IF status = "acknowledged" THEN {"pending"} ELSE {"pending", "acknowledged"}
    /\ bell' = [bell EXCEPT ![b].status = status]
    /\ UNCHANGED <<roomVars, access, placed, known, visit>>
-----------------------------------------------------------------------------
GuestInit ==
    /\ Init
    /\ access = [a \in Accesses |-> [status |-> "absent", service |-> None]]
    /\ placed = [k \in Keys |-> 0]
    /\ known = {}
    /\ bell = [b \in Calls |-> [status |-> "absent", table |-> None, recent |-> FALSE]]
    /\ visit = [v \in Visitors |-> NoVisit]

VisitNext ==
    \/ \E v \in Visitors, s \in Services : ReadEntry(v, s)
    \/ \E a \in Accesses, s \in Services : RequestAccess(a, s)
    \/ \E a \in Accesses : \/ ApproveAccess(a) \/ ExpireAccess(a)
                           \/ \E v \in Visitors : ReadClaim(v, a)
    \/ \E v \in Visitors, g \in Guests :
          \/ \E k \in Keys : guest[g].status # "absent" /\ ReadGuest(v, g, k)
          \/ guest[g].status # "absent" /\ Calls # {} /\ ReadBell(v, g)
    \/ \E v \in Visitors : \/ WriteEntry(v) \/ WriteClaim(v)
                           \/ ReserveKey(v) \/ PlaceOrder(v)
                           \/ \E b \in Calls : RingBell(v, b)
    \/ \E b \in Calls : \/ AgeBell(b)
                        \/ \E status \in {"acknowledged", "resolved"} : AnswerBell(b, status)

GuestNext == (RoomNext /\ UNCHANGED guestVars) \/ VisitNext

GuestSpec == GuestInit /\ [][GuestNext]_<<roomVars, guestVars>>
-----------------------------------------------------------------------------
(*                               Properties                                *)

GuestTypeOK ==
    /\ RoomTypeOK
    /\ \A a \in Accesses : access[a].status # "absent" => access[a].service \in Services
    /\ known \subseteq Keys
    /\ \A b \in Calls : bell[b].status # "absent" => bell[b].table \in Tables
    /\ \A v \in Visitors : visit[v] # NoVisit => visit[v].service \in Services

\* The items of an order are added once for its key, however often it is
\* sent again, by how many calls at once and after how many rollbacks.
PlacedOnce == \A k \in Keys : placed[k] = (IF k \in known THEN 1 ELSE 0)
=============================================================================
