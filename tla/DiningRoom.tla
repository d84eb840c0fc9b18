----------------------------- MODULE DiningRoom -----------------------------
(***************************************************************************)
(* The floor: tables, reservations, the waiting list, the order of each    *)
(* table and the service session that lets its guests in by QR             *)
(* (floor.service.ts, the tables of pos.repository.ts, opening and ending  *)
(* orders in orders.service.ts, the staff's side of qr.service.ts).        *)
(*                                                                         *)
(* A transaction that first locks its table rows is two steps when it      *)
(* reads between the lock and the write; the rows of staff[c].tables are   *)
(* locked meanwhile.  One that locks nothing it reads is two steps as well.*)
(***************************************************************************)
EXTENDS Naturals, FiniteSets

CONSTANTS
    Tables,         \* numbers, so that lists of tables have an order
    Orders, Services, Guests,      \* rows that can be inserted, numbers
    Reservations, Entries,         \* reservations and waiting list entries
    Starts,         \* when a reservation may begin
    Duration,       \* how long each lasts
    Staff,          \* calls in flight
    Settable,       \* statuses the staff sets by hand
    MaxVersion,     \* bounds the versions of an order
    None

VARIABLES table, order, reservation, waiting, service, guest, staff

roomVars == <<table, order, reservation, waiting, service, guest, staff>>
-----------------------------------------------------------------------------
Idle == [at |-> "idle", tables |-> {}, to |-> None, order |-> None, version |-> 0,
         reservation |-> None, status |-> None, start |-> 0, service |-> None]

Begin(c, call) == staff[c] = Idle /\ staff' = [staff EXCEPT ![c] = call]

End(c) == staff' = [staff EXCEPT ![c] = Idle]

\* Mutant: the tables are read without FOR UPDATE.
NeverWaits(ts) == TRUE

\* No other transaction holds a row of these tables, or this reservation.
Unlocked(ts) == \A c \in Staff : staff[c].tables \cap ts = {}

RowFree(r) == \A c \in Staff : staff[c].reservation # r

First(set) == CHOOSE x \in set : \A y \in set : x <= y

\* All statuses in which an order is being served act alike here.
HasOrder(t) == \E o \in Orders : order[o].status = "open" /\ order[o].table = t

Insertable(rows) == {x \in DOMAIN rows : rows[x].status = "absent"}

\* A unique index allows one open order per table.
OpenAt(t) ==
    /\ Insertable(order) # {} /\ ~HasOrder(t)
    /\ order' = [order EXCEPT ![First(Insertable(order))] =
                    [status |-> "open", table |-> t, version |-> 1, items |-> 0]]

\* assertTablesCanSeatParty, but for the number of seats.
CanSeat(ts) == ts # {} /\ \A t \in ts : table[t].status \in {"free", "reserved"}

SetTables(ts, status) ==
    table' = [t \in Tables |-> IF t \in ts THEN [table[t] EXCEPT !.status = status] ELSE table[t]]

\* The active service sessions of these tables end, and their guests go.
Ending(ts) == {s \in Services : service[s].status = "active" /\ service[s].table \in ts}

GuestsRevoked(ended) ==
    [g \in Guests |-> IF guest[g].service \in ended THEN [guest[g] EXCEPT !.status = "revoked"]
                                                    ELSE guest[g]]

EndSessions(ts, status) ==
    /\ service' = [s \in Services |-> IF s \in Ending(ts) THEN [service[s] EXCEPT !.status = status]
                                                          ELSE service[s]]
    /\ guest' = GuestsRevoked(Ending(ts))
-----------------------------------------------------------------------------
(*                     Reservations and the waiting list                   *)

Pending == {"booked", "arrived"}

ReservationNext == [booked |-> {"arrived", "no_show", "canceled"},
                    arrived |-> {"seated", "no_show", "canceled"},
                    seated |-> {}, no_show |-> {}, canceled |-> {}]

Overlap(a, b) == a < b + Duration /\ b < a + Duration

Conflict(r, ts, start) ==
    \E q \in Reservations \ {r} : /\ reservation[q].status \in Pending
                                  /\ reservation[q].tables \cap ts # {}
                                  /\ Overlap(start, reservation[q].start)

\* createReservation and updateReservation, to the conflict check.
Reserve(c, r, ts, start, status) ==
    /\ RowFree(r) /\ Unlocked(ts)
    /\ ts # {} => CanSeat(ts) /\ ~Conflict(r, ts, start)
    /\ Begin(c, [Idle EXCEPT !.at = "reserve", !.tables = ts, !.reservation = r,
                             !.start = start, !.status = status])
    /\ UNCHANGED <<table, order, reservation, waiting, service, guest>>

CreateReservation(c, r, ts, start) ==
    reservation[r].status = "absent" /\ Reserve(c, r, ts, start, "booked")

MoveReservation(c, r, ts, status) ==
    /\ reservation[r].status # "absent"
    /\ status \in {reservation[r].status} \cup ReservationNext[reservation[r].status]
    /\ Reserve(c, r, ts, reservation[r].start, status)

WriteReservation(c) ==
    /\ staff[c].at = "reserve"
    /\ reservation' = [reservation EXCEPT ![staff[c].reservation] =
                          [status |-> staff[c].status, tables |-> staff[c].tables, start |-> staff[c].start]]
    /\ End(c)
    /\ UNCHANGED <<table, order, waiting, service, guest>>

\* updateReservation that leaves the tables alone.
UpdateReservation(r, status) ==
    /\ reservation[r].status # "absent" /\ RowFree(r)
    /\ status \in ReservationNext[reservation[r].status]
    /\ reservation' = [reservation EXCEPT ![r].status = status]
    /\ UNCHANGED <<table, order, waiting, service, guest, staff>>

\* seatReservation, at other tables than the reserved ones if so requested.
SeatReservation(r, ts) ==
    /\ reservation[r].status \in Pending /\ RowFree(r) /\ Unlocked(ts)
    /\ CanSeat(ts) /\ \A t \in ts : ~HasOrder(t)
    /\ OpenAt(First(ts))
    /\ reservation' = [reservation EXCEPT ![r].status = "seated", ![r].tables = ts]
    /\ SetTables(ts, "occupied")
    /\ UNCHANGED <<waiting, service, guest, staff>>

AddEntry(e) ==
    /\ waiting[e] = "absent"
    /\ waiting' = [waiting EXCEPT ![e] = "waiting"]
    /\ UNCHANGED <<table, order, reservation, service, guest, staff>>

WaitingNext == [waiting |-> {"notified", "left", "canceled"}, notified |-> {"left", "canceled"}]

UpdateEntry(e, status) ==
    /\ waiting[e] \in DOMAIN WaitingNext /\ status \in WaitingNext[waiting[e]]
    /\ waiting' = [waiting EXCEPT ![e] = status]
    /\ UNCHANGED <<table, order, reservation, service, guest, staff>>

\* Setting the status it has passes every check: a party that is seated
\* already is seated again, at a second table.
SeatEntry(e, t) ==
    /\ waiting[e] \in {"waiting", "notified", "seated"} /\ Unlocked({t})
    /\ CanSeat({t}) /\ OpenAt(t)
    /\ waiting' = [waiting EXCEPT ![e] = "seated"]
    /\ SetTables({t}, "occupied")
    /\ UNCHANGED <<reservation, service, guest, staff>>
-----------------------------------------------------------------------------
(*                                 Tables                                  *)

\* transferTable reads the order without a lock.
ReadTransfer(c, from, to) ==
    /\ from # to /\ Unlocked({from, to})
    /\ table[from].status = "occupied" /\ CanSeat({to})
    /\ \E o \in Orders : /\ order[o].status = "open" /\ order[o].table = from
                         /\ order[o].version < MaxVersion
                         /\ Begin(c, [Idle EXCEPT !.at = "transfer", !.tables = {from, to}, !.to = to,
                                                  !.order = o, !.version = order[o].version])
    /\ UNCHANGED <<table, order, reservation, waiting, service, guest>>

\* And writes it by its id: only the unique index can refuse.
WriteTransfer(c) ==
    LET o == staff[c].order
        to == staff[c].to
        refused == order[o].status = "open" /\ HasOrder(to)
    IN  /\ staff[c].at = "transfer"
        /\ IF refused THEN UNCHANGED <<table, order, service, guest>>
           ELSE /\ order' = [order EXCEPT ![o].table = to, ![o].version = staff[c].version + 1]
                /\ table' = [t \in Tables |->
                                CASE t = to -> [table[t] EXCEPT !.status = "occupied"]
                                  [] t \in staff[c].tables \ {to} -> [table[t] EXCEPT !.status = "free"]
                                  [] OTHER -> table[t]]
                /\ EndSessions(staff[c].tables, "revoked")
        /\ End(c)
        /\ UNCHANGED <<reservation, waiting>>

ReleaseTable(t) ==
    /\ Unlocked({t}) /\ ~HasOrder(t)
    /\ SetTables({t}, "free")
    /\ EndSessions({t}, "revoked")
    /\ UNCHANGED <<order, reservation, waiting, staff>>

\* updateTable with any status.
UpdateTable(t, status) ==
    /\ Unlocked({t})
    /\ SetTables({t}, status)
    /\ UNCHANGED <<order, reservation, waiting, service, guest, staff>>

\* Archiving blocks the table, and a table being blocked is not asked for an
\* open order.
ArchiveTable(t) ==
    /\ Unlocked({t})
    /\ table' = [table EXCEPT ![t].archived = TRUE, ![t].status = "blocked"]
    /\ UNCHANGED <<order, reservation, waiting, service, guest, staff>>

RestoreTable(t) ==
    /\ Unlocked({t}) /\ table[t].archived
    /\ table' = [table EXCEPT ![t].archived = FALSE]
    /\ UNCHANGED <<order, reservation, waiting, service, guest, staff>>

\* mergeTables, and unmergeTables of such a group: the sessions end, which
\* tables form a group is layout.
MergeTables(ts) ==
    /\ Cardinality(ts) > 1 /\ Unlocked(ts)
    /\ EndSessions(ts, "revoked")
    /\ UNCHANGED <<table, order, reservation, waiting, staff>>
-----------------------------------------------------------------------------
(*                                 Orders                                  *)

OpenOrder(t) ==
    /\ Unlocked({t})
    /\ OpenAt(t)
    /\ SetTables({t}, "occupied")
    /\ UNCHANGED <<reservation, waiting, service, guest, staff>>

\* The payment that settles an order (OrderLedger has its story).
PayOrder(o) ==
    /\ order[o].status = "open" /\ order[o].version < MaxVersion
    /\ order' = [order EXCEPT ![o].status = "paid", ![o].version = @ + 1]
    /\ UNCHANGED <<table, reservation, waiting, service, guest, staff>>

\* closeOrder of a paid order and writeOffOrder of an open one.
ReadOrder(c, o) ==
    /\ order[o].status \in {"open", "paid"}
    /\ Begin(c, [Idle EXCEPT !.at = "finish", !.order = o, !.version = order[o].version,
                             !.to = order[o].table, !.status = order[o].status])
    /\ UNCHANGED <<table, order, reservation, waiting, service, guest>>

FinishOrder(c) ==
    LET o == staff[c].order
        t == staff[c].to
    IN  /\ staff[c].at = "finish" /\ Unlocked({t})
        /\ IF order[o].version # staff[c].version
           THEN UNCHANGED <<table, order, service, guest>>
           ELSE /\ order' = [order EXCEPT ![o].version = @ + 1,
                                ![o].status = IF staff[c].status = "paid" THEN "closed" ELSE "written_off"]
                /\ \/ SetTables({t}, "free")
                   \/ staff[c].status = "paid" /\ SetTables({t}, "cleaning")
                /\ EndSessions({t}, "closed")
        /\ End(c)
        /\ UNCHANGED <<reservation, waiting>>
-----------------------------------------------------------------------------
(*                       Service sessions, by the staff                    *)

\* activateTableService locks nothing of what it reads.
ReadActivation(c, t) ==
    /\ table[t].status \notin {"free", "reserved", "blocked"}
    /\ \E o \in Orders :
          /\ order[o].status = "open" /\ order[o].table = t
          /\ Begin(c, [Idle EXCEPT !.at = "activate", !.to = t, !.order = o,
                          !.service = IF Ending({t}) = {} THEN None ELSE First(Ending({t}))])
    /\ UNCHANGED <<table, order, reservation, waiting, service, guest>>

\* Mutant: the update of the session it found makes it active.
RenewedActive(s, o) ==
    /\ service' = [service EXCEPT ![s].order = o, ![s].status = "active"]
    /\ guest' = GuestsRevoked({s})

\* A session that was found goes on, for this order and with a new code.
Renewed(s, o) ==
    /\ service' = [service EXCEPT ![s].order = o]
    /\ guest' = GuestsRevoked({s})

\* Otherwise one is inserted; a unique index allows one active per table.
Activated(t, o) ==
    /\ UNCHANGED guest
    /\ IF Ending({t}) = {} /\ Insertable(service) # {}
       THEN service' = [service EXCEPT ![First(Insertable(service))] =
                           [status |-> "active", table |-> t, order |-> o]]
       ELSE UNCHANGED service

WriteActivation(c) ==
    /\ staff[c].at = "activate"
    /\ \/ staff[c].service # None /\ Renewed(staff[c].service, staff[c].order)
       \/ staff[c].service = None /\ Activated(staff[c].to, staff[c].order)
    /\ End(c)
    /\ UNCHANGED <<table, order, reservation, waiting>>

\* revokeTableService and rotate for one table; the settings, when they
\* switch the QR off, for all.
RevokeService(ts) ==
    /\ Ending(ts) # {}
    /\ EndSessions(ts, "revoked")
    /\ UNCHANGED <<table, order, reservation, waiting, staff>>
-----------------------------------------------------------------------------
Init ==
    /\ table = [t \in Tables |-> [status |-> "free", archived |-> FALSE]]
    /\ order = [o \in Orders |-> [status |-> "absent", table |-> None, version |-> 0, items |-> 0]]
    /\ reservation = [r \in Reservations |-> [status |-> "absent", tables |-> {}, start |-> 0]]
    /\ waiting = [e \in Entries |-> "absent"]
    /\ service = [s \in Services |-> [status |-> "absent", table |-> None, order |-> None]]
    /\ guest = [g \in Guests |-> [status |-> "absent", service |-> None]]
    /\ staff = [c \in Staff |-> Idle]

BookingNext ==
    \/ \E c \in Staff, r \in Reservations, ts \in SUBSET Tables :
          \/ \E start \in Starts : CreateReservation(c, r, ts, start)
          \/ \E status \in DOMAIN ReservationNext : MoveReservation(c, r, ts, status)
    \/ \E c \in Staff : WriteReservation(c)
    \/ \E r \in Reservations, status \in DOMAIN ReservationNext : UpdateReservation(r, status)
    \/ \E r \in Reservations, ts \in SUBSET Tables : SeatReservation(r, ts)
    \/ \E e \in Entries : \/ AddEntry(e)
                          \/ \E status \in {"notified", "left", "canceled"} : UpdateEntry(e, status)
                          \/ \E t \in Tables : SeatEntry(e, t)

TableNext ==
    \/ \E c \in Staff, from, to \in Tables : ReadTransfer(c, from, to)
    \/ \E c \in Staff : WriteTransfer(c)
    \/ \E t \in Tables : \/ ReleaseTable(t) \/ ArchiveTable(t) \/ RestoreTable(t)
                         \/ OpenOrder(t)
                         \/ \E status \in Settable : UpdateTable(t, status)
    \/ \E ts \in SUBSET Tables : MergeTables(ts)

OrderNext ==
    \/ \E o \in Orders : PayOrder(o)
    \/ \E c \in Staff, o \in Orders : ReadOrder(c, o)
    \/ \E c \in Staff : FinishOrder(c)

ServiceNext ==
    \/ \E c \in Staff, t \in Tables : ReadActivation(c, t)
    \/ \E c \in Staff : WriteActivation(c)
    \/ \E ts \in {{t} : t \in Tables} \cup {Tables} : RevokeService(ts)

RoomNext == BookingNext \/ TableNext \/ OrderNext \/ ServiceNext

RoomSpec == Init /\ [][RoomNext]_roomVars
-----------------------------------------------------------------------------
(*                               Properties                                *)

RoomTypeOK ==
    /\ \A t \in Tables : /\ table[t].status \in {"free", "occupied", "cleaning", "blocked"}
                         /\ table[t].archived \in BOOLEAN
    /\ \A o \in Orders : /\ order[o].status \in {"absent", "open", "paid", "closed", "written_off"}
                         /\ order[o].status # "absent" => order[o].table \in Tables
    /\ \A r \in Reservations : /\ reservation[r].status \in {"absent"} \cup DOMAIN ReservationNext
                               /\ reservation[r].tables \subseteq Tables
    /\ \A s \in Services : service[s].status # "absent" =>
          service[s].table \in Tables /\ service[s].order \in Orders
    /\ \A g \in Guests : guest[g].status # "absent" => guest[g].service \in Services

\* Two reservations that are still expected never share a table at a time,
\* however bookings, moves, arrivals and seatings are interleaved.
NoDoubleBooking ==
    \A r, q \in Reservations :
        r # q /\ reservation[r].status \in Pending /\ reservation[q].status \in Pending
              /\ reservation[r].tables \cap reservation[q].tables # {}
        => ~Overlap(reservation[r].start, reservation[q].start)

\* A service session that was closed or revoked lets nobody in again: not by
\* an activation that read it before, and not under another status.
EndedStays ==
    \A s \in Services : service[s].status \in {"closed", "revoked"} => service'[s].status = service[s].status
=============================================================================
