--------------------------- MODULE ServiceProofs ---------------------------
(***************************************************************************)
(* What is proved about the service of a branch: the safety of each of the *)
(* components that MCService runs on small instances, here for every value *)
(* of their constants.                                                     *)
(***************************************************************************)
EXTENDS GuestAccess, Kitchen, Waiters, FiniteSetTheorems, WellFoundedInduction, TLAPS

CONSTANTS Managers, Cancels, Discounts, ItemTotal, Rest

VARIABLES approval, item, discount, manager

Desk == INSTANCE Approvals
-----------------------------------------------------------------------------
\* A set of numbers that is not empty has a least one.
LEMMA LeastOf == ASSUME NEW S \in SUBSET Nat, S # {} PROVE \E x \in S : \A y \in S : x <= y
  <1> DEFINE R == OpToRel(<, Nat)
  <1>1. IsWellFoundedOn(R, Nat)
    BY NatLessThanWellFounded
  <1>2. \A y, x \in Nat : y < x => <<y, x>> \in R
    BY DEF OpToRel
  <1> HIDE DEF R
  <1>3. PICK x \in S : \A y \in S : ~ (<<y, x>> \in R)
    BY <1>1, WFMin
  <1>4. \A y \in S : ~ (y < x)
    BY <1>2, <1>3
  <1> QED BY <1>3, <1>4
-----------------------------------------------------------------------------
(*                              Reservations                               *)

Booking(c) == staff[c].at = "reserve"

Expected(r) == reservation[r].status \in Pending

\* A reservation being written will not meet an expected one.
Fits(c, q) == reservation[q].tables \cap staff[c].tables # {} /\ Expected(q)
                  => ~Overlap(staff[c].start, reservation[q].start)

BookingRow == [status : {"absent", "booked", "arrived", "seated", "no_show", "canceled"},
               tables : SUBSET Tables, start : Starts \cup {0}]

\* What a call that books holds, and no other does.
Holds(c) == Booking(c) => /\ staff[c].reservation \in Reservations
                          /\ [status |-> staff[c].status, tables |-> staff[c].tables, start |-> staff[c].start]
                                \in BookingRow

Apart(c, d) == c # d /\ Booking(c) /\ Booking(d) =>
    staff[c].reservation # staff[d].reservation /\ staff[c].tables \cap staff[d].tables = {}

RoomInv ==
    /\ reservation \in [Reservations -> BookingRow]
    /\ staff = [c \in Staff |-> staff[c]]
    /\ \A c \in Staff : Holds(c)
    /\ \A c, d \in Staff : Apart(c, d)
    /\ \A c \in Staff : Booking(c) => \A q \in Reservations \ {staff[c].reservation} : Fits(c, q)
    /\ NoDoubleBooking

\* A step of a call that does not book.
LEMMA NotBooking ==
  ASSUME RoomInv, reservation' = reservation,
         \/ staff' = staff
         \/ \E c \in Staff : \E call : staff' = [staff EXCEPT ![c] = call] /\ staff'[c].at # "reserve"
  PROVE  RoomInv'
  <1>1. /\ staff' = [c \in Staff |-> staff'[c]]
        /\ \A c \in Staff : staff'[c] = staff[c] \/ staff'[c].at # "reserve"
    BY DEF RoomInv
  <1>2. \A c \in Staff : Booking(c)' => Booking(c) /\ staff'[c] = staff[c]
    BY <1>1 DEF Booking
  <1>3. \A c \in Staff : Holds(c)'
    BY <1>2 DEF RoomInv, Holds
  <1>4. \A c, d \in Staff : Apart(c, d)'
    BY <1>2 DEF RoomInv, Apart
  <1>5. \A c \in Staff : Booking(c)' => \A q \in Reservations \ {staff'[c].reservation} : Fits(c, q)'
    BY <1>2 DEF RoomInv, Fits, Expected
  <1>6. NoDoubleBooking'
    BY DEF RoomInv, NoDoubleBooking
  <1> QED BY <1>1, <1>3, <1>4, <1>5, <1>6 DEF RoomInv

\* The check for conflicts, with the tables locked.
LEMMA ReserveSafe ==
  ASSUME RoomInv, NEW c \in Staff, NEW r \in Reservations, NEW ts \in SUBSET Tables,
         NEW start \in Starts \cup {0}, NEW status \in {"booked", "arrived", "seated", "no_show", "canceled"},
         Reserve(c, r, ts, start, status)
  PROVE  RoomInv'
  <1> DEFINE call == [Idle EXCEPT !.at = "reserve", !.tables = ts, !.reservation = r,
                                       !.start = start, !.status = status]
  <1>1. staff' = [staff EXCEPT ![c] = call] /\ reservation' = reservation
    BY DEF Reserve, Begin
  <1>2. /\ call.at = "reserve" /\ call.tables = ts /\ call.reservation = r
        /\ call.start = start /\ call.status = status
    BY DEF Idle
  <1> HIDE DEF call
  <1>3. staff' = [d \in Staff |-> staff'[d]] /\ staff'[c] = call /\ \A d \in Staff \ {c} : staff'[d] = staff[d]
    BY <1>1 DEF RoomInv
  <1>4. \A d \in Staff : staff[d].reservation # r /\ staff[d].tables \cap ts = {}
    BY DEF Reserve, RowFree, Unlocked
  <1>5. \A d \in Staff : Holds(d)'
    BY <1>2, <1>3 DEF RoomInv, Holds, Booking, BookingRow
  <1>6. \A d, e \in Staff : Apart(d, e)'
    BY <1>2, <1>3, <1>4 DEF RoomInv, Apart, Booking
  <1>7. \A q \in Reservations \ {r} : Fits(c, q)'
    <2>1. ts # {} => ~Conflict(r, ts, start)
      BY DEF Reserve
    <2> QED BY <1>1, <1>2, <1>3, <2>1 DEF Fits, Expected, Conflict
  <1>8. \A d \in Staff : Booking(d)' => \A q \in Reservations \ {staff'[d].reservation} : Fits(d, q)'
    <2>1. ASSUME NEW d \in Staff, d # c, Booking(d)', NEW q \in Reservations \ {staff'[d].reservation} PROVE Fits(d, q)'
      BY <1>1, <1>3, <2>1 DEF RoomInv, Fits, Expected, Booking
    <2> QED BY <1>2, <1>3, <1>7, <2>1
  <1>9. NoDoubleBooking'
    BY <1>1 DEF RoomInv, NoDoubleBooking
  <1> QED BY <1>1, <1>3, <1>5, <1>6, <1>8, <1>9 DEF RoomInv

\* What was checked still holds when it is written.
LEMMA WriteReservationSafe ==
  ASSUME RoomInv, NEW c \in Staff, WriteReservation(c)
  PROVE  RoomInv'
  <1> DEFINE r == staff[c].reservation
             row == [status |-> staff[c].status, tables |-> staff[c].tables, start |-> staff[c].start]
  <1>1. Booking(c) /\ r \in Reservations /\ row \in BookingRow
    BY DEF RoomInv, Holds, Booking, WriteReservation
  <1>2. reservation' = [reservation EXCEPT ![r] = row] /\ staff' = [staff EXCEPT ![c] = Idle]
    BY DEF WriteReservation, End
  <1>3. row.tables = staff[c].tables /\ row.start = staff[c].start
    OBVIOUS
  <1> HIDE DEF row
  <1>4. /\ reservation' \in [Reservations -> BookingRow] /\ reservation'[r] = row
        /\ \A q \in Reservations \ {r} : reservation'[q] = reservation[q]
    BY <1>1, <1>2 DEF RoomInv
  <1>5. staff' = [d \in Staff |-> staff'[d]] /\ staff'[c].at # "reserve" /\ \A d \in Staff \ {c} : staff'[d] = staff[d]
    BY <1>2 DEF RoomInv, Idle
  <1>6. \A d \in Staff : Holds(d)'
    BY <1>5 DEF RoomInv, Holds, Booking
  <1>7. \A d, e \in Staff : Apart(d, e)'
    BY <1>5 DEF RoomInv, Apart, Booking
  <1>8. ASSUME NEW d \in Staff, Booking(d)', NEW q \in Reservations \ {staff'[d].reservation} PROVE Fits(d, q)'
    <2>1. d # c /\ staff'[d] = staff[d] /\ Booking(d)
      BY <1>5, <1>8 DEF Booking
    <2>2. CASE q = r
      <3>1. staff[c].tables \cap staff[d].tables = {}
        BY <1>1, <2>1 DEF RoomInv, Apart
      <3> QED BY <1>3, <1>4, <2>1, <2>2, <3>1 DEF Fits
    <2>3. CASE q # r
      BY <1>4, <1>8, <2>1, <2>3 DEF RoomInv, Fits, Expected
    <2> QED BY <2>2, <2>3
  <1>9. NoDoubleBooking'
    <2>1. SUFFICES ASSUME NEW p \in Reservations, NEW q \in Reservations, p # q,
                          Expected(p)', Expected(q)', reservation'[p].tables \cap reservation'[q].tables # {}
                   PROVE  ~Overlap(reservation'[p].start, reservation'[q].start)
      BY DEF NoDoubleBooking, Expected, Pending, Overlap
    <2>2. \A q2 \in Reservations \ {r} : Fits(c, q2)
      BY <1>1 DEF RoomInv
    <2>3. CASE p = r
      <3>1. reservation[q].tables \cap staff[c].tables # {} /\ Expected(q)
        BY <1>3, <1>4, <2>1, <2>3 DEF Expected
      <3> QED BY <1>3, <1>4, <2>1, <2>2, <2>3, <3>1 DEF Fits
    <2>4. CASE q = r
      <3>1. reservation[p].tables \cap staff[c].tables # {} /\ Expected(p)
        BY <1>3, <1>4, <2>1, <2>4 DEF Expected
      <3> QED BY <1>3, <1>4, <2>1, <2>2, <2>4, <3>1 DEF Fits, Overlap
    <2>5. CASE p # r /\ q # r
      BY <1>4, <2>1, <2>5 DEF RoomInv, NoDoubleBooking, Expected
    <2> QED BY <2>3, <2>4, <2>5
  <1> QED BY <1>4, <1>5, <1>6, <1>7, <1>8, <1>9 DEF RoomInv

\* A reservation that changes and is not expected any more, or was before.
LEMMA StatusSafe ==
  ASSUME RoomInv, staff' = staff, NEW r \in Reservations, NEW row \in BookingRow,
         reservation' = [reservation EXCEPT ![r] = row],
         row.status \in Pending =>
             Expected(r) /\ row.tables = reservation[r].tables /\ row.start = reservation[r].start
  PROVE  RoomInv'
  <1>1. /\ reservation' \in [Reservations -> BookingRow]
        /\ \A q \in Reservations : Expected(q)' =>
               /\ Expected(q) /\ reservation'[q].tables = reservation[q].tables
               /\ reservation'[q].start = reservation[q].start
    BY DEF RoomInv, Expected
  <1>2. \A c, d \in Staff : Holds(c)' /\ Apart(c, d)'
    BY DEF RoomInv, Holds, Apart, Booking
  <1>3. \A c \in Staff : Booking(c)' => \A q \in Reservations \ {staff'[c].reservation} : Fits(c, q)'
    BY <1>1 DEF RoomInv, Fits, Booking
  <1>4. NoDoubleBooking'
    <2>1. SUFFICES ASSUME NEW p \in Reservations, NEW q \in Reservations, p # q,
                          Expected(p)', Expected(q)', reservation'[p].tables \cap reservation'[q].tables # {}
                   PROVE  ~Overlap(reservation'[p].start, reservation'[q].start)
      BY DEF NoDoubleBooking, Expected, Pending, Overlap
    <2> QED BY <1>1, <2>1 DEF RoomInv, NoDoubleBooking, Expected
  <1> QED BY <1>1, <1>2, <1>3, <1>4 DEF RoomInv

\* Every step keeps the reservations apart.
LEMMA RoomStep == RoomInv /\ [RoomNext]_roomVars => RoomInv'
  <1> SUFFICES ASSUME RoomInv, [RoomNext]_roomVars PROVE RoomInv'
    OBVIOUS
  <1>1. CASE UNCHANGED roomVars
    BY <1>1, NotBooking DEF roomVars
  <1>2. ASSUME NEW c \in Staff, NEW r \in Reservations, NEW ts \in SUBSET Tables, NEW start \in Starts,
               CreateReservation(c, r, ts, start)
        PROVE  RoomInv'
    BY <1>2, ReserveSafe DEF CreateReservation
  <1>3. ASSUME NEW c \in Staff, NEW r \in Reservations, NEW ts \in SUBSET Tables,
               NEW status \in DOMAIN ReservationNext, MoveReservation(c, r, ts, status)
        PROVE  RoomInv'
    <2>1. reservation[r].start \in Starts \cup {0}
      BY DEF RoomInv, BookingRow
    <2>2. status \in {"booked", "arrived", "seated", "no_show", "canceled"}
      BY DEF ReservationNext
    <2> QED BY <1>3, <2>1, <2>2, ReserveSafe DEF MoveReservation
  <1>4. ASSUME NEW c \in Staff, WriteReservation(c) PROVE RoomInv'
    BY <1>4, WriteReservationSafe
  <1>5. ASSUME NEW r \in Reservations, NEW status \in DOMAIN ReservationNext, UpdateReservation(r, status)
        PROVE  RoomInv'
    <2> DEFINE row == [reservation[r] EXCEPT !.status = status]
    <2>1. status \in {"booked", "arrived", "seated", "no_show", "canceled"}
      BY DEF ReservationNext
    <2>2. row \in BookingRow /\ row.tables = reservation[r].tables /\ row.start = reservation[r].start /\ row.status = status
      BY <2>1 DEF RoomInv, BookingRow
    <2>3. status \in Pending => Expected(r)
      <3>1. reservation[r].status \in {"booked", "arrived", "seated", "no_show", "canceled"}
        BY <1>5 DEF RoomInv, BookingRow, UpdateReservation
      <3> QED BY <1>5, <3>1 DEF UpdateReservation, ReservationNext, Pending, Expected
    <2>4. reservation' = [reservation EXCEPT ![r] = row] /\ staff' = staff
      BY <1>5 DEF UpdateReservation
    <2> HIDE DEF row
    <2> QED BY <2>2, <2>3, <2>4, StatusSafe
  <1>6. ASSUME NEW r \in Reservations, NEW ts \in SUBSET Tables, SeatReservation(r, ts) PROVE RoomInv'
    <2> DEFINE row == [reservation[r] EXCEPT !.status = "seated", !.tables = ts]
    <2>1. row \in BookingRow /\ row.status = "seated"
      BY DEF RoomInv, BookingRow
    <2>2. reservation' = [reservation EXCEPT ![r] = row] /\ staff' = staff
      BY <1>6 DEF SeatReservation, RoomInv
    <2> HIDE DEF row
    <2> QED BY <2>1, <2>2, StatusSafe DEF Pending
  <1>7. ASSUME NEW e \in Entries,
               \/ AddEntry(e)
               \/ \E status \in {"notified", "left", "canceled"} : UpdateEntry(e, status)
               \/ \E t \in Tables : SeatEntry(e, t)
        PROVE  RoomInv'
    BY <1>7, NotBooking DEF AddEntry, UpdateEntry, SeatEntry
  <1>8. ASSUME NEW c \in Staff,
               \/ \E from, to \in Tables : ReadTransfer(c, from, to)
               \/ \E o \in Orders : ReadOrder(c, o)
               \/ \E t \in Tables : ReadActivation(c, t)
        PROVE  RoomInv'
    <2>1. staff = [d \in Staff |-> staff[d]] /\ \E call : staff' = [staff EXCEPT ![c] = call]
      BY <1>8 DEF RoomInv, ReadTransfer, ReadOrder, ReadActivation, Begin
    <2>3. staff'[c].at # "reserve"
      <3>1. ASSUME NEW from \in Tables, NEW to \in Tables, ReadTransfer(c, from, to) PROVE staff'[c].at # "reserve"
        <4>1. PICK o \in Orders :
                staff' = [staff EXCEPT ![c] = [Idle EXCEPT !.at = "transfer", !.tables = {from, to}, !.to = to,
                                                  !.order = o, !.version = order[o].version]]
          BY <3>1 DEF ReadTransfer, Begin
        <4> QED BY <2>1, <4>1 DEF Idle
      <3>2. ASSUME NEW o \in Orders, ReadOrder(c, o) PROVE staff'[c].at # "reserve"
        <4>1. staff' = [staff EXCEPT ![c] = [Idle EXCEPT !.at = "finish", !.order = o, !.version = order[o].version,
                                                 !.to = order[o].table, !.status = order[o].status]]
          BY <3>2 DEF ReadOrder, Begin
        <4> QED BY <2>1, <4>1 DEF Idle
      <3>3. ASSUME NEW t \in Tables, ReadActivation(c, t) PROVE staff'[c].at # "reserve"
        <4>1. PICK o, s :
                staff' = [staff EXCEPT ![c] = [Idle EXCEPT !.at = "activate", !.to = t, !.order = o, !.service = s]]
          BY <3>3 DEF ReadActivation, Begin
        <4> QED BY <2>1, <4>1 DEF Idle
      <3> QED BY <1>8, <3>1, <3>2, <3>3
    <2>2. reservation' = reservation
      BY <1>8 DEF ReadTransfer, ReadOrder, ReadActivation
    <2> QED BY <2>1, <2>2, <2>3, NotBooking
  <1>9. ASSUME NEW c \in Staff, WriteTransfer(c) \/ FinishOrder(c) \/ WriteActivation(c)
        PROVE  RoomInv'
    <2>1. staff' = [staff EXCEPT ![c] = Idle] /\ reservation' = reservation
      BY <1>9 DEF WriteTransfer, FinishOrder, WriteActivation, End
    <2>2. staff'[c].at # "reserve"
      BY <2>1 DEF RoomInv, Idle
    <2> QED BY <2>1, <2>2, NotBooking
  <1>10. ASSUME NEW t \in Tables,
                \/ ReleaseTable(t) \/ ArchiveTable(t) \/ RestoreTable(t) \/ OpenOrder(t)
                \/ \E status \in Settable : UpdateTable(t, status)
         PROVE  RoomInv'
    BY <1>10, NotBooking DEF ReleaseTable, ArchiveTable, RestoreTable, OpenOrder, UpdateTable
  <1>11. ASSUME NEW ts, MergeTables(ts) \/ RevokeService(ts) PROVE RoomInv'
    BY <1>11, NotBooking DEF MergeTables, RevokeService
  <1>12. ASSUME NEW o \in Orders, PayOrder(o) PROVE RoomInv'
    BY <1>12, NotBooking DEF PayOrder
  <1>13. CASE BookingNext
    BY <1>2, <1>3, <1>4, <1>5, <1>6, <1>7, <1>13 DEF BookingNext
  <1>14. CASE TableNext
    BY <1>8, <1>9, <1>10, <1>11, <1>14 DEF TableNext
  <1>15. CASE OrderNext
    BY <1>8, <1>9, <1>12, <1>15 DEF OrderNext
  <1>16. CASE ServiceNext
    BY <1>8, <1>9, <1>11, <1>16 DEF ServiceNext
  <1> QED BY <1>1, <1>13, <1>14, <1>15, <1>16 DEF RoomNext

\* No table is reserved twice for one time, for any number of tables,
\* reservations and calls, and however long a reservation lasts.
THEOREM NoTableBookedTwice == RoomSpec => []NoDoubleBooking
  <1>1. Init => RoomInv
    <2> SUFFICES ASSUME Init PROVE RoomInv
      OBVIOUS
    <2>1. reservation \in [Reservations -> BookingRow] /\ \A r \in Reservations : reservation[r].status = "absent"
      BY DEF Init, BookingRow
    <2>2. staff = [c \in Staff |-> staff[c]] /\ \A c \in Staff : ~Booking(c)
      BY DEF Init, Idle, Booking
    <2>3. NoDoubleBooking
      BY <2>1 DEF NoDoubleBooking, Pending
    <2> QED BY <2>1, <2>2, <2>3 DEF RoomInv, Holds, Apart
  <1>2. RoomInv => NoDoubleBooking
    BY DEF RoomInv
  <1> QED BY <1>1, <1>2, RoomStep, PTL DEF RoomSpec
-----------------------------------------------------------------------------
(*                            Service sessions                             *)

SessionInv ==
    /\ service = [s \in Services |-> service[s]]
    /\ \A s \in Services : DOMAIN service[s] = {"status", "table", "order"}

\* Sessions end with their tables, active ones only.
LEMMA SessionsEnd ==
  ASSUME SessionInv, NEW ts, NEW status, EndSessions(ts, status)
  PROVE  SessionInv' /\ EndedStays
  BY DEF SessionInv, EndSessions, Ending, EndedStays

\* A session that goes on for another order keeps its status.
LEMMA SessionRenewed ==
  ASSUME SessionInv, NEW s, NEW o, Renewed(s, o)
  PROVE  SessionInv' /\ EndedStays
  <1>1. /\ service' = [r \in Services |-> service'[r]]
        /\ \A r \in Services : DOMAIN service'[r] = DOMAIN service[r] /\ service'[r].status = service[r].status
    BY DEF SessionInv, Renewed
  <1> QED BY <1>1 DEF SessionInv, EndedStays

\* A session is inserted where there was none.
LEMMA SessionBegins ==
  ASSUME SessionInv, Services \subseteq Nat, NEW t, NEW o, Activated(t, o)
  PROVE  SessionInv' /\ EndedStays
  <1>1. CASE service' = service
    BY <1>1 DEF SessionInv, EndedStays
  <1>2. CASE service' # service
    <2> DEFINE free == Insertable(service)
    <2>1. free \in SUBSET Nat /\ free # {} /\ free = {s \in Services : service[s].status = "absent"}
      BY <1>2 DEF Activated, Insertable, SessionInv
    <2>2. \E s \in free : \A r \in free : s <= r
      BY <2>1, LeastOf
    <2>3. First(free) \in free
      BY <2>2 DEF First
    <2>4. service' = [service EXCEPT ![First(free)] = [status |-> "active", table |-> t, order |-> o]]
      BY <1>2 DEF Activated
    <2> HIDE DEF free
    <2> QED BY <2>1, <2>3, <2>4 DEF SessionInv, EndedStays
  <1> QED BY <1>1, <1>2

\* No step gives an ended session another status.
LEMMA SessionStep ==
  Services \subseteq Nat /\ SessionInv /\ [RoomNext]_roomVars => SessionInv' /\ EndedStays
  <1> SUFFICES ASSUME Services \subseteq Nat, SessionInv, [RoomNext]_roomVars
               PROVE  SessionInv' /\ EndedStays
    OBVIOUS
  <1>1. ASSUME service' = service PROVE SessionInv' /\ EndedStays
    BY <1>1 DEF SessionInv, EndedStays
  <1>2. CASE UNCHANGED roomVars
    BY <1>1, <1>2 DEF roomVars
  <1>3. CASE BookingNext
    BY <1>1, <1>3 DEF BookingNext, CreateReservation, MoveReservation, Reserve, WriteReservation,
                      UpdateReservation, SeatReservation, AddEntry, UpdateEntry, SeatEntry
  <1>4. CASE TableNext
    BY <1>1, <1>4, SessionsEnd
       DEF TableNext, ReadTransfer, WriteTransfer, ReleaseTable, ArchiveTable,
           RestoreTable, OpenOrder, UpdateTable, MergeTables
  <1>5. CASE OrderNext
    BY <1>1, <1>5, SessionsEnd DEF OrderNext, PayOrder, ReadOrder, FinishOrder
  <1>6. CASE ServiceNext
    BY <1>1, <1>6, SessionsEnd, SessionRenewed, SessionBegins
       DEF ServiceNext, ReadActivation, WriteActivation, RevokeService
  <1> QED BY <1>2, <1>3, <1>4, <1>5, <1>6 DEF RoomNext

\* There is no session at first.
LEMMA SessionsStart == Init => SessionInv
  BY DEF Init, SessionInv

\* A service session that ended stays ended, for any number of sessions,
\* tables, orders and calls.
THEOREM EndedSessionsStay ==
  ASSUME Services \subseteq Nat
  PROVE  RoomSpec => [][EndedStays]_roomVars
  <1>1. SessionInv /\ [RoomNext]_roomVars => [EndedStays]_roomVars
    BY SessionStep
  <1> QED BY <1>1, SessionsStart, SessionStep, PTL DEF RoomSpec
-----------------------------------------------------------------------------
(*                                 Guests                                  *)

Placing(v, k) == visit[v].at = "place" /\ visit[v].key = k

\* A transaction that places an order holds its key, which no other holds and
\* no receipt bears.
VisitInv ==
    /\ visit = [v \in Visitors |-> visit[v]]
    /\ \A v \in Visitors : DOMAIN visit[v] = {"at", "service", "access", "guest", "order", "key"}
    /\ placed \in [Keys -> Nat]
    /\ \A v \in Visitors, k \in Keys : Placing(v, k) => k \notin known
    /\ \A v, w \in Visitors, k \in Keys : Placing(v, k) /\ Placing(w, k) => v = w
    /\ PlacedOnce

\* A call that begins or ends, not one that places an order.
Quiet(v) == \E call :
    /\ DOMAIN call = {"at", "service", "access", "guest", "order", "key"} /\ call.at # "place"
    /\ visit' = [visit EXCEPT ![v] = call]

\* It leaves the orders and the keys as they were.
LEMMA VisitMoves ==
  ASSUME VisitInv, UNCHANGED <<placed, known>>,
         visit' = visit \/ \E v \in Visitors : Quiet(v)
  PROVE  VisitInv'
  <1>1. /\ visit' = [v \in Visitors |-> visit'[v]]
        /\ \A v \in Visitors : DOMAIN visit'[v] = {"at", "service", "access", "guest", "order", "key"}
        /\ \A v \in Visitors : visit'[v] = visit[v] \/ visit'[v].at # "place"
    BY DEF VisitInv, Quiet
  <1>2. \A v \in Visitors, k \in Keys : Placing(v, k)' => Placing(v, k)
    BY <1>1 DEF Placing
  <1> QED BY <1>1, <1>2 DEF VisitInv, PlacedOnce

\* A key is reserved once it is unknown and nobody holds it.
LEMMA KeyReserved ==
  ASSUME VisitInv, NEW v \in Visitors, ReserveKey(v)
  PROVE  VisitInv'
  <1>1. CASE Leave(v)
    BY <1>1, VisitMoves DEF Quiet, ReserveKey, Leave, NoVisit
  <1>2. CASE ~Leave(v)
    <2>1. /\ visit' = [visit EXCEPT ![v].at = "place"] /\ visit[v].key \notin known /\ UNCHANGED <<placed, known>>
          /\ \A w \in Visitors : ~Placing(w, visit[v].key)
      BY <1>2 DEF ReserveKey, Known, Placing
    <2>2. /\ visit' = [w \in Visitors |-> visit'[w]]
          /\ \A w \in Visitors \ {v} : visit'[w] = visit[w]
          /\ DOMAIN visit'[v] = DOMAIN visit[v] /\ visit'[v].key = visit[v].key
      BY <2>1 DEF VisitInv
    <2>3. \A w \in Visitors, k \in Keys : Placing(w, k)' => Placing(w, k) \/ (w = v /\ k = visit[v].key)
      BY <2>2 DEF Placing
    <2>4. \A w \in Visitors, k \in Keys : Placing(w, k)' => k \notin known'
      BY <2>1, <2>3 DEF VisitInv
    <2>5. \A u, w \in Visitors, k \in Keys : Placing(u, k)' /\ Placing(w, k)' => u = w
      BY <2>1, <2>3 DEF VisitInv
    <2> QED BY <2>1, <2>2, <2>4, <2>5 DEF VisitInv, PlacedOnce
  <1> QED BY <1>1, <1>2

\* An order is placed with its receipt, or not at all.
LEMMA OrderPlaced ==
  ASSUME VisitInv, NEW v \in Visitors, PlaceOrder(v)
  PROVE  VisitInv'
  <1>1. CASE UNCHANGED <<placed, known>>
    BY <1>1, VisitMoves DEF Quiet, PlaceOrder, Leave, NoVisit
  <1>2. CASE ~UNCHANGED <<placed, known>>
    <2> DEFINE k == visit[v].key
    <2>1. /\ visit[v].at = "place" /\ placed' = [placed EXCEPT ![k] = @ + 1] /\ known' = known \cup {k}
          /\ visit' = [visit EXCEPT ![v] = NoVisit]
      BY <1>2 DEF PlaceOrder, Leave
    <2>2. /\ visit' = [w \in Visitors |-> visit'[w]]
          /\ \A w \in Visitors : DOMAIN visit'[w] = {"at", "service", "access", "guest", "order", "key"}
          /\ \A w \in Visitors \ {v} : visit'[w] = visit[w]
          /\ visit'[v].at = "idle"
      BY <2>1 DEF VisitInv, NoVisit
    <2>3. \A w \in Visitors, l \in Keys : Placing(w, l)' => Placing(w, l) /\ w # v
      BY <2>2 DEF Placing
    <2>4. \A w \in Visitors, l \in Keys : Placing(w, l)' => l \notin known'
      BY <2>1, <2>3 DEF VisitInv, Placing
    <2>5. \A l \in Keys : placed'[l] = (IF l \in known' THEN 1 ELSE 0)
      BY <2>1 DEF VisitInv, Placing, PlacedOnce
    <2>6. placed' \in [Keys -> Nat]
      <3>1. placed' = [l \in Keys |-> IF l = k THEN placed[l] + 1 ELSE placed[l]] /\ \A l \in Keys : placed[l] \in Nat
        BY <2>1 DEF VisitInv
      <3> QED BY <3>1
    <2> QED BY <2>2, <2>3, <2>4, <2>5, <2>6 DEF VisitInv, PlacedOnce
  <1> QED BY <1>1, <1>2

\* Every step keeps the keys and what was placed for them together.
LEMMA VisitStep == VisitInv /\ [GuestNext]_<<roomVars, guestVars>> => VisitInv'
  <1> SUFFICES ASSUME VisitInv, [GuestNext]_<<roomVars, guestVars>> PROVE VisitInv'
    OBVIOUS
  <1>1. CASE UNCHANGED guestVars
    BY <1>1, VisitMoves DEF guestVars
  <1>2. ASSUME NEW v \in Visitors,
               \/ \E s \in Services : ReadEntry(v, s)
               \/ \E a \in Accesses : ReadClaim(v, a)
               \/ \E g \in Guests : ReadBell(v, g) \/ \E k \in Keys : ReadGuest(v, g, k)
        PROVE  VisitInv'
    <2>1. Quiet(v)
      <3>1. ASSUME NEW s \in Services, ReadEntry(v, s)
            PROVE  Quiet(v)
        <4> DEFINE call == [NoVisit EXCEPT !.at = "enter", !.service = s]
        <4>1. visit' = [visit EXCEPT ![v] = call]
          BY <3>1 DEF ReadEntry, Visit
        <4>2. DOMAIN call = {"at", "service", "access", "guest", "order", "key"} /\ call.at # "place"
          BY DEF NoVisit
        <4> HIDE DEF call
        <4> QED BY <4>1, <4>2 DEF Quiet
      <3>2. ASSUME NEW a \in Accesses, ReadClaim(v, a)
            PROVE  Quiet(v)
        <4> DEFINE call == [NoVisit EXCEPT !.at = "claim", !.access = a, !.service = access[a].service]
        <4>1. visit' = [visit EXCEPT ![v] = call]
          BY <3>2 DEF ReadClaim, Visit
        <4>2. DOMAIN call = {"at", "service", "access", "guest", "order", "key"} /\ call.at # "place"
          BY DEF NoVisit
        <4> HIDE DEF call
        <4> QED BY <4>1, <4>2 DEF Quiet
      <3>3. ASSUME NEW g \in Guests, ReadBell(v, g)
            PROVE  Quiet(v)
        <4> DEFINE call == [NoVisit EXCEPT !.at = "ring", !.service = guest[g].service]
        <4>1. visit' = [visit EXCEPT ![v] = call]
          BY <3>3 DEF ReadBell, Visit
        <4>2. DOMAIN call = {"at", "service", "access", "guest", "order", "key"} /\ call.at # "place"
          BY DEF NoVisit
        <4> HIDE DEF call
        <4> QED BY <4>1, <4>2 DEF Quiet
      <3>4. ASSUME NEW g \in Guests, NEW k \in Keys, ReadGuest(v, g, k)
            PROVE  Quiet(v)
        <4> DEFINE call == [NoVisit EXCEPT !.at = "order", !.guest = g, !.key = k, !.service = guest[g].service,
                                               !.order = service[guest[g].service].order]
        <4>1. visit' = [visit EXCEPT ![v] = call]
          BY <3>4 DEF ReadGuest, Visit
        <4>2. DOMAIN call = {"at", "service", "access", "guest", "order", "key"} /\ call.at # "place"
          BY DEF NoVisit
        <4> HIDE DEF call
        <4> QED BY <4>1, <4>2 DEF Quiet
      <3> QED BY <1>2, <3>1, <3>2, <3>3, <3>4
    <2>2. UNCHANGED <<placed, known>>
      BY <1>2 DEF ReadEntry, ReadClaim, ReadBell, ReadGuest
    <2> QED BY <2>1, <2>2, VisitMoves
  <1>3. ASSUME NEW v \in Visitors,
               WriteEntry(v) \/ WriteClaim(v) \/ \E b \in Calls : RingBell(v, b)
        PROVE  VisitInv'
    <2>1. visit' = [visit EXCEPT ![v] = NoVisit] /\ UNCHANGED <<placed, known>>
      BY <1>3 DEF WriteEntry, WriteClaim, RingBell, Leave
    <2> QED BY <2>1, VisitMoves DEF Quiet, NoVisit
  <1>4. ASSUME NEW v \in Visitors, ReserveKey(v) PROVE VisitInv'
    BY <1>4, KeyReserved
  <1>5. ASSUME NEW v \in Visitors, PlaceOrder(v) PROVE VisitInv'
    BY <1>5, OrderPlaced
  <1>6. ASSUME NEW a \in Accesses,
               ApproveAccess(a) \/ ExpireAccess(a) \/ \E s \in Services : RequestAccess(a, s)
        PROVE  VisitInv'
    BY <1>6, VisitMoves DEF ApproveAccess, ExpireAccess, RequestAccess
  <1>7. ASSUME NEW b \in Calls,
               AgeBell(b) \/ \E status \in {"acknowledged", "resolved"} : AnswerBell(b, status)
        PROVE  VisitInv'
    BY <1>7, VisitMoves DEF AgeBell, AnswerBell
  <1> QED BY <1>1, <1>2, <1>3, <1>4, <1>5, <1>6, <1>7 DEF GuestNext, VisitNext

\* No key is in use at first.
LEMMA VisitsStart == GuestInit => VisitInv
  BY DEF GuestInit, NoVisit, VisitInv, Placing, PlacedOnce

\* The calls of guests leave the service sessions alone, so that an ended one
\* stays ended whatever they do.
LEMMA VisitsEndNothing ==
  Services \subseteq Nat /\ SessionInv /\ [GuestNext]_<<roomVars, guestVars>> => SessionInv' /\ EndedStays
  <1> SUFFICES ASSUME Services \subseteq Nat, SessionInv, [GuestNext]_<<roomVars, guestVars>>
               PROVE  SessionInv' /\ EndedStays
    OBVIOUS
  <1>1. CASE [RoomNext]_roomVars
    BY <1>1, SessionStep
  <1>2. CASE VisitNext
    <2>1. service' = service
      BY <1>2 DEF VisitNext, ReadEntry, AddGuest, WriteEntry, RequestAccess, ApproveAccess, ExpireAccess, ReadClaim,
                  WriteClaim, ReadGuest, ReserveKey, PlaceOrder, ReadBell, RingBell, AgeBell, AnswerBell, roomVars
    <2> QED BY <2>1 DEF SessionInv, EndedStays
  <1> QED BY <1>1, <1>2 DEF GuestNext

\* The items of an order are added once for its key, for any number of
\* guests, calls, keys and rollbacks.
THEOREM OrderPlacedOnce == GuestSpec => []PlacedOnce
  <1>1. VisitInv => PlacedOnce
    BY DEF VisitInv
  <1> QED BY <1>1, VisitsStart, VisitStep, PTL DEF GuestSpec
-----------------------------------------------------------------------------
(*                                Approvals                                *)

DeskInv == item \in [status : {"sold", "canceled"}, returned : Nat] /\ Desk!StockReturnedOnce

\* Only a cancellation touches the item, and it looks at what went back.
LEMMA DeskStep == DeskInv /\ [Desk!Next]_Desk!approvalVars => DeskInv'
  <1> SUFFICES ASSUME DeskInv, [Desk!Next]_Desk!approvalVars PROVE DeskInv'
    OBVIOUS
  <1>1. ASSUME item' = item PROVE DeskInv'
    BY <1>1 DEF DeskInv, Desk!StockReturnedOnce
  <1>2. ASSUME NEW d, Desk!CancelItem(d) PROVE DeskInv'
    BY <1>2 DEF DeskInv, Desk!StockReturnedOnce, Desk!CancelItem, Desk!Reversed
  <1>3. ASSUME NEW c \in Managers, Desk!WriteTarget(c) PROVE DeskInv'
    BY <1>1, <1>2, <1>3 DEF Desk!WriteTarget
  <1>4. CASE Desk!CancelNow
    BY <1>2, <1>4 DEF Desk!CancelNow
  <1>5. \/ item' = item \/ Desk!CancelNow
        \/ \E c \in Managers : Desk!WriteTarget(c)
    BY DEF Desk!Next, Desk!approvalVars, Desk!Request, Desk!Find, Desk!Approve, Desk!Reject, Desk!ReadTarget,
           Desk!MarkApplied, Desk!Abandon, Desk!DiscountNow
  <1> QED BY <1>1, <1>3, <1>4, <1>5

\* The item is sold at first, and nothing went back.
LEMMA DeskStarts == Desk!Init => DeskInv
  BY DEF Desk!Init, DeskInv, Desk!StockReturnedOnce

\* The stock of a canceled item goes back once, for any number of requests,
\* managers and ways in which an approval is interrupted.
THEOREM StockGoesBackOnce == Desk!Spec => []Desk!StockReturnedOnce
  <1>1. DeskInv => Desk!StockReturnedOnce
    BY DEF DeskInv
  <1> QED BY <1>1, DeskStarts, DeskStep, PTL DEF Desk!Spec
-----------------------------------------------------------------------------
(*                                 Kitchen                                 *)

\* A call that adds or sends has read a version that was; if it still is, the
\* items a sending has read are those that wait.
Reading(c) ==
    /\ cook[c].at \in {"add", "route", "send"} => cook[c].edits \in Int /\ cook[c].edits <= edits
    /\ cook[c].at = "add" => cook[c].line \in Lines
    /\ cook[c].at = "send" /\ cook[c].edits = edits => cook[c].lines = Unsent

\* A screen has read its ticket, and the ticket is as it was.
Watching(c) == cook[c].at = "cook" =>
    /\ cook[c].ticket \in Tickets /\ ticket[cook[c].ticket] # NoTicket
    /\ cook[c].seen = ticket[cook[c].ticket]

\* The batches in which item l is cooked at station s.
CookedIn(l, s) == {b \in Batches : OnTicket(l, <<b, s>>)}

Matches(l, s) ==
    /\ line[l] = "sent" => Cardinality(CookedIn(l, s)) = (IF s \in Routes[l] THEN 1 ELSE 0)
    /\ line[l] \in {"absent", "pending"} => CookedIn(l, s) = {}

KitchenInv ==
    /\ line = [l \in Lines |-> line[l]]
    /\ edits \in Int
    /\ ticket = [k \in Tickets |-> ticket[k]]
    /\ \A k \in Tickets : DOMAIN ticket[k] = {"status", "shown", "notices"}
    /\ cook = [c \in Cooks |-> cook[c]]
    /\ \A c \in Cooks : cook[c].at \in {"idle", "add", "route", "send", "cook"} /\ Reading(c) /\ Watching(c)
    /\ \A c, d \in Cooks : c # d /\ cook[c].at = "cook" /\ cook[d].at = "cook" => cook[c].ticket # cook[d].ticket
    /\ \A l \in Lines, s \in Stations : Matches(l, s)

\* Stays of the items and the tickets: what a step may do to them.
ShownKept == \A k \in Tickets : \A l \in DOMAIN ticket[k].shown :
    ticket[k].shown[l] = "served" => ticket'[k].shown[l] \in {"served", "refunded"}

\* A call that begins or goes on, and writes nothing.
LEMMA CookMoves ==
  ASSUME KitchenInv, NEW c \in Cooks, NEW call, cook' = [cook EXCEPT ![c] = call],
         UNCHANGED <<line, edits, ticket>>,
         call.at \in {"idle", "add", "route", "send", "cook"}, Reading(c)', Watching(c)',
         call.at = "cook" => \A d \in Cooks : cook[d].ticket # call.ticket
  PROVE  KitchenInv' /\ ShownKept
  <1>1. /\ cook' = [d \in Cooks |-> cook'[d]] /\ cook'[c] = call
        /\ \A d \in Cooks \ {c} : cook'[d] = cook[d]
    BY DEF KitchenInv
  <1>2. \A d \in Cooks : Reading(d)' /\ Watching(d)'
    BY <1>1 DEF KitchenInv, Reading, Watching, Unsent
  <1>3. ASSUME NEW l \in Lines, NEW s \in Stations PROVE Matches(l, s)'
    <2>1. CookedIn(l, s)' = CookedIn(l, s)
      BY DEF CookedIn, OnTicket
    <2> QED BY <2>1 DEF KitchenInv, Matches
  <1> QED BY <1>1, <1>2, <1>3 DEF KitchenInv, ShownKept

\* A call ends with another item, and a new version.
LEMMA LineAdded ==
  ASSUME KitchenInv, NEW l \in Lines, line[l] = "absent", line' = [line EXCEPT ![l] = "pending"],
         edits' = edits + 1, ticket' = ticket,
         cook' = cook \/ \E c \in Cooks : cook' = [cook EXCEPT ![c] = Resting]
  PROVE  KitchenInv' /\ ShownKept
  <1>1. /\ cook' = [d \in Cooks |-> cook'[d]]
        /\ \A d \in Cooks : cook'[d] = cook[d] \/ cook'[d].at = "idle"
    BY DEF KitchenInv, Resting
  <1>2. \A d \in Cooks : Reading(d)' /\ Watching(d)'
    BY <1>1 DEF KitchenInv, Reading, Watching
  <1>3. \A m \in Lines : line'[m] = line[m] \/ (line[m] = "absent" /\ line'[m] = "pending")
    BY DEF KitchenInv
  <1>4. ASSUME NEW m \in Lines, NEW s \in Stations PROVE Matches(m, s)'
    <2>1. CookedIn(m, s)' = CookedIn(m, s)
      BY DEF CookedIn, OnTicket
    <2> QED BY <1>3, <2>1 DEF KitchenInv, Matches
  <1> QED BY <1>1, <1>2, <1>4 DEF KitchenInv, ShownKept

\* A screen writes the ticket it holds.
LEMMA TicketWritten ==
  ASSUME KitchenInv, NEW c \in Cooks, cook[c].at = "cook", NEW row, DOMAIN row = {"status", "shown", "notices"},
         DOMAIN row.shown = DOMAIN cook[c].seen.shown,
         \A l \in DOMAIN row.shown : cook[c].seen.shown[l] = "served" => row.shown[l] \in {"served", "refunded"},
         ticket' = [ticket EXCEPT ![cook[c].ticket] = row],
         cook' = [cook EXCEPT ![c] = Resting], UNCHANGED <<line, edits>>
  PROVE  KitchenInv' /\ ShownKept
  <1> DEFINE k == cook[c].ticket
  <1>1. k \in Tickets /\ ticket[k] = cook[c].seen
    BY DEF KitchenInv, Watching
  <1>2. /\ ticket' = [m \in Tickets |-> ticket'[m]] /\ ticket'[k] = row
        /\ \A m \in Tickets \ {k} : ticket'[m] = ticket[m]
    BY <1>1 DEF KitchenInv
  <1>3. /\ cook' = [d \in Cooks |-> cook'[d]] /\ cook'[c].at = "idle"
        /\ \A d \in Cooks \ {c} : cook'[d] = cook[d]
    BY DEF KitchenInv, Resting
  <1>4. \A d \in Cooks \ {c} : cook[d].at = "cook" => cook[d].ticket # k
    BY DEF KitchenInv
  <1> HIDE DEF k
  <1>5. \A d \in Cooks : Reading(d)' /\ Watching(d)'
    <2>1. \A d \in Cooks : Reading(d)'
      BY <1>3 DEF KitchenInv, Reading, Unsent
    <2>2. ASSUME NEW d \in Cooks, cook'[d].at = "cook" PROVE Watching(d)'
      <3>1. d # c /\ cook'[d] = cook[d]
        BY <1>3, <2>2
      <3>2. /\ cook[d].ticket \in Tickets \ {k} /\ ticket[cook[d].ticket] # NoTicket
            /\ cook[d].seen = ticket[cook[d].ticket]
        BY <1>4, <2>2, <3>1 DEF KitchenInv, Watching
      <3> QED BY <1>2, <3>1, <3>2 DEF Watching
    <2>3. \A d \in Cooks : cook'[d].at # "cook" => Watching(d)'
      BY DEF Watching
    <2> QED BY <2>1, <2>2, <2>3
  <1>6. \A m \in Tickets : DOMAIN ticket'[m].shown = DOMAIN ticket[m].shown
    BY <1>1, <1>2
  <1>7. ASSUME NEW l \in Lines, NEW s \in Stations PROVE Matches(l, s)'
    <2>1. \A b \in Batches : OnTicket(l, <<b, s>>)' <=> OnTicket(l, <<b, s>>)
      BY <1>6 DEF OnTicket, Tickets
    <2>2. CookedIn(l, s)' = CookedIn(l, s)
      BY <2>1 DEF CookedIn
    <2> QED BY <2>2 DEF KitchenInv, Matches
  <1>8. ShownKept
    BY <1>1, <1>2 DEF ShownKept
  <1> QED BY <1>1, <1>2, <1>3, <1>5, <1>7, <1>8 DEF KitchenInv

\* The number of the next batch is free.
LEMMA NextIsFree ==
  ASSUME Batches \subseteq Nat, NextBatch # {}
  PROVE  Least(NextBatch) \in NextBatch
  <1>1. NextBatch \in SUBSET Nat
    BY DEF NextBatch
  <1>2. \E b \in NextBatch : \A a \in NextBatch : b <= a
    BY <1>1, LeastOf
  <1> QED BY <1>2 DEF Least

\* What waits is sent, each item to its stations, on tickets of a new batch.
LEMMA Sent ==
  ASSUME KitchenInv, Batches \subseteq Nat, NEW c \in Cooks, WriteSend(c), edits' # edits
  PROVE  KitchenInv' /\ ShownKept
  <1>1. PICK b, lines :
            /\ b \in Batches /\ b = Least(NextBatch) /\ lines = cook[c].lines
            /\ \A s \in Stations : ticket[<<b, s>>] = NoTicket
    BY NextIsFree DEF WriteSend, NextBatch
  <1>2. /\ lines = Unsent
        /\ line' = [l \in Lines |-> IF l \in Unsent THEN "sent" ELSE line[l]]
        /\ ticket' = NewTickets(lines)
        /\ edits' = edits + 1
        /\ cook' = [cook EXCEPT ![c] = Resting]
    BY <1>1 DEF WriteSend, Unchanged, Finish, KitchenInv, Reading
  <1>3. ASSUME NEW k \in Tickets
        PROVE  IF k[1] = b /\ Routed(lines)[k[2]] # {}
               THEN /\ ticket[k] = NoTicket
                    /\ ticket'[k] = [NoTicket EXCEPT !.status = "sent",
                                                          !.shown = [l \in Routed(lines)[k[2]] |-> "sent"]]
               ELSE ticket'[k] = ticket[k]
    <2>1. k = <<k[1], k[2]>> /\ k[2] \in Stations
      BY DEF Tickets
    <2>2. k[1] = b => ticket[k] = NoTicket
      BY <1>1, <2>1
    <2>3. ticket'[k] = IF k[1] = b /\ Routed(lines)[k[2]] # {}
                       THEN [NoTicket EXCEPT !.status = "sent",
                                                  !.shown = [l \in Routed(lines)[k[2]] |-> "sent"]]
                       ELSE ticket[k]
      BY <1>1, <1>2 DEF NewTickets
    <2> QED BY <2>2, <2>3
  <1>4. ticket' = [k \in Tickets |-> ticket'[k]]
    BY <1>2 DEF NewTickets
  <1>5. \A k \in Tickets : DOMAIN ticket'[k] = {"status", "shown", "notices"}
    BY <1>3 DEF KitchenInv, NoTicket
  <1>6. /\ cook' = [d \in Cooks |-> cook'[d]]
        /\ \A d \in Cooks : cook'[d] = cook[d] \/ cook'[d].at = "idle"
    BY <1>2 DEF KitchenInv, Resting
  <1>7. ASSUME NEW d \in Cooks PROVE Reading(d)' /\ Watching(d)'
    <2>1. Reading(d)'
      BY <1>2, <1>6 DEF KitchenInv, Reading
    <2>2. \A k \in Tickets : ticket[k] # NoTicket => ticket'[k] = ticket[k]
      BY <1>3
    <2>3. Watching(d)'
      <3>1. CASE cook'[d].at # "cook"
        BY <3>1 DEF Watching
      <3>2. CASE cook'[d].at = "cook"
        <4>1. cook'[d] = cook[d]
          BY <1>6, <3>2
        <4>2. /\ cook[d].ticket \in Tickets /\ ticket[cook[d].ticket] # NoTicket
              /\ cook[d].seen = ticket[cook[d].ticket]
          BY <3>2, <4>1 DEF KitchenInv, Watching
        <4> QED BY <2>2, <4>1, <4>2 DEF Watching
      <3> QED BY <3>1, <3>2
    <2> QED BY <2>1, <2>3
  <1>8. \A k \in Tickets : ticket[k] = NoTicket => DOMAIN ticket[k].shown = {}
    BY DEF NoTicket
  <1>9. ShownKept
    BY <1>3, <1>8 DEF ShownKept
  <1>10. ASSUME NEW l \in Lines, NEW s \in Stations PROVE Matches(l, s)'
    <2>1. Matches(l, s)
      BY DEF KitchenInv
    <2>2. \A a \in Batches : <<a, s>> \in Tickets /\ <<a, s>>[1] = a /\ <<a, s>>[2] = s
      BY DEF Tickets
    <2>3. Routed(lines)[s] = {m \in lines : s \in Routes[m]}
      BY DEF Routed
    <2>4. \A a \in Batches \ {b} : OnTicket(l, <<a, s>>)' <=> OnTicket(l, <<a, s>>)
      BY <1>3, <2>2 DEF OnTicket
    <2>5. ~OnTicket(l, <<b, s>>)
      BY <1>1, <1>8, <2>2 DEF OnTicket
    <2>6. OnTicket(l, <<b, s>>)' <=> l \in lines /\ s \in Routes[l]
      <3>1. CASE Routed(lines)[s] = {}
        <4>1. ticket'[<<b, s>>] = ticket[<<b, s>>]
          BY <1>1, <1>3, <2>2, <3>1
        <4>2. ~OnTicket(l, <<b, s>>)'
          BY <2>5, <4>1 DEF OnTicket
        <4> QED BY <2>3, <3>1, <4>2
      <3>2. CASE Routed(lines)[s] # {}
        <4>1. ticket'[<<b, s>>] = [NoTicket EXCEPT !.status = "sent",
                                                        !.shown = [m \in Routed(lines)[s] |-> "sent"]]
          BY <1>1, <1>3, <2>2, <3>2
        <4>2. DOMAIN ticket'[<<b, s>>].shown = Routed(lines)[s]
          BY <4>1 DEF NoTicket
        <4>3. OnTicket(l, <<b, s>>)' <=> l \in DOMAIN ticket'[<<b, s>>].shown
          BY DEF OnTicket
        <4> QED BY <2>3, <4>2, <4>3
      <3> QED BY <3>1, <3>2
    <2>7. CookedIn(l, s)' = IF l \in lines /\ s \in Routes[l] THEN CookedIn(l, s) \cup {b} ELSE CookedIn(l, s)
      <3>1. ASSUME NEW a
            PROVE  a \in CookedIn(l, s)' <=> a \in CookedIn(l, s) \/ (a = b /\ l \in lines /\ s \in Routes[l])
        <4>1. a \in CookedIn(l, s)' <=> a \in Batches /\ OnTicket(l, <<a, s>>)'
          BY DEF CookedIn
        <4>2. a \in CookedIn(l, s) <=> a \in Batches /\ OnTicket(l, <<a, s>>)
          BY DEF CookedIn
        <4> QED BY <1>1, <2>4, <2>5, <2>6, <4>1, <4>2
      <3> HIDE DEF CookedIn
      <3> QED BY <3>1
    <2>8. CASE l \in Unsent
      <3>1. line[l] = "pending" /\ line'[l] = "sent" /\ l \in lines
        BY <1>2, <2>8 DEF Unsent
      <3>2. CookedIn(l, s)' = IF s \in Routes[l] THEN {b} ELSE {}
        BY <2>1, <2>7, <3>1 DEF Matches
      <3>3. Cardinality(CookedIn(l, s)') = IF s \in Routes[l] THEN 1 ELSE 0
        BY <3>2, FS_EmptySet, FS_Singleton
      <3> QED BY <3>1, <3>3 DEF Matches
    <2>9. CASE l \notin Unsent
      <3>1. line'[l] = line[l] /\ l \notin lines
        BY <1>2, <2>9
      <3> QED BY <2>1, <2>7, <3>1 DEF Matches
    <2> QED BY <2>8, <2>9
  <1>11. line' = [l \in Lines |-> line'[l]] /\ edits' \in Int
    BY <1>2 DEF KitchenInv
  <1>12. \A d, e \in Cooks : d # e /\ cook'[d].at = "cook" /\ cook'[e].at = "cook" => cook'[d].ticket # cook'[e].ticket
    BY <1>6 DEF KitchenInv
  <1>13. \A d \in Cooks : cook'[d].at \in {"idle", "add", "route", "send", "cook"}
    BY <1>6 DEF KitchenInv
  <1> QED BY <1>4, <1>5, <1>6, <1>7, <1>9, <1>10, <1>11, <1>12, <1>13 DEF KitchenInv

\* A call that ends and writes nothing.
LEMMA CookRests ==
  ASSUME KitchenInv, NEW c \in Cooks, cook' = [cook EXCEPT ![c] = Resting], UNCHANGED <<line, edits, ticket>>
  PROVE  KitchenInv' /\ ShownKept
  <1>1. cook'[c] = Resting /\ Resting.at = "idle"
    BY DEF KitchenInv, Resting
  <1>2. Reading(c)' /\ Watching(c)'
    BY <1>1 DEF Reading, Watching
  <1> HIDE DEF Resting
  <1> QED BY <1>1, <1>2, CookMoves

\* Every step keeps the tickets and the items together.
LEMMA KitchenStep ==
  Batches \subseteq Nat /\ Reviewers = {} /\ KitchenInv /\ [KitchenNext]_kitchenVars => KitchenInv' /\ ShownKept
  <1> SUFFICES ASSUME Batches \subseteq Nat, Reviewers = {}, KitchenInv, [KitchenNext]_kitchenVars
               PROVE  KitchenInv' /\ ShownKept
    OBVIOUS
  <1>1. CASE UNCHANGED kitchenVars
    <2>1. UNCHANGED <<line, edits, ticket, cook>>
      BY <1>1 DEF kitchenVars
    <2>2. \A l \in Lines, s \in Stations : Matches(l, s)'
      BY <2>1 DEF KitchenInv, Matches, CookedIn, OnTicket
    <2>3. \A c \in Cooks : Reading(c)' /\ Watching(c)'
      BY <2>1 DEF KitchenInv, Reading, Watching, Unsent
    <2> QED BY <2>1, <2>2, <2>3 DEF KitchenInv, ShownKept
  <1>2. ASSUME NEW c \in Cooks, NEW l \in Lines, ReadAdd(c, l) PROVE KitchenInv' /\ ShownKept
    <2> DEFINE call == [Resting EXCEPT !.at = "add", !.line = l, !.edits = edits]
    <2>1. cook' = [cook EXCEPT ![c] = call] /\ UNCHANGED <<line, edits, ticket>>
      BY <1>2 DEF ReadAdd, Work
    <2>2. call.at = "add" /\ call.edits = edits /\ call.line = l
      BY DEF Resting
    <2>3. cook'[c] = call
      BY <2>1 DEF KitchenInv
    <2> HIDE DEF call
    <2>4. Reading(c)' /\ Watching(c)'
      BY <2>1, <2>2, <2>3 DEF KitchenInv, Reading, Watching
    <2> QED BY <2>1, <2>2, <2>4, CookMoves
  <1>3. ASSUME NEW c \in Cooks, ReadSend(c) PROVE KitchenInv' /\ ShownKept
    <2> DEFINE call == [Resting EXCEPT !.at = "route", !.edits = edits]
    <2>1. cook' = [cook EXCEPT ![c] = call] /\ UNCHANGED <<line, edits, ticket>>
      BY <1>3 DEF ReadSend, Work
    <2>2. call.at = "route" /\ call.edits = edits
      BY DEF Resting
    <2>3. cook'[c] = call
      BY <2>1 DEF KitchenInv
    <2> HIDE DEF call
    <2>4. Reading(c)' /\ Watching(c)'
      BY <2>1, <2>2, <2>3 DEF KitchenInv, Reading, Watching
    <2> QED BY <2>1, <2>2, <2>4, CookMoves
  <1>4. ASSUME NEW c \in Cooks, ReadPending(c) PROVE KitchenInv' /\ ShownKept
    <2>1. CASE cook' = [cook EXCEPT ![c] = Resting]
      BY <1>4, <2>1, CookRests DEF ReadPending
    <2>2. CASE cook' = [cook EXCEPT ![c] = [cook[c] EXCEPT !.at = "send", !.lines = Unsent]]
      <3> DEFINE call == [cook[c] EXCEPT !.at = "send", !.lines = Unsent]
      <3>1. UNCHANGED <<line, edits, ticket>> /\ cook'[c] = call
        BY <1>4, <2>2 DEF ReadPending, KitchenInv
      <3>2. cook[c].edits \in Int /\ cook[c].edits <= edits
        BY <1>4 DEF ReadPending, KitchenInv, Reading
      <3>3. call.at = "send" /\ call.lines = Unsent /\ call.edits = cook[c].edits
        BY <1>4 DEF ReadPending
      <3> HIDE DEF call
      <3>4. Reading(c)'
        BY <3>1, <3>2, <3>3 DEF Reading, Unsent
      <3>5. Watching(c)'
        BY <3>1, <3>3 DEF Watching
      <3> QED BY <2>2, <3>1, <3>3, <3>4, <3>5, CookMoves DEF call
    <2> QED BY <1>4, <2>1, <2>2 DEF ReadPending
  <1>5. ASSUME NEW c \in Cooks, NEW k \in Tickets, OpenTicket(c, k) PROVE KitchenInv' /\ ShownKept
    <2> DEFINE call == [Resting EXCEPT !.at = "cook", !.ticket = k, !.seen = ticket[k]]
    <2>1. cook' = [cook EXCEPT ![c] = call] /\ UNCHANGED <<line, edits, ticket>>
      BY <1>5 DEF OpenTicket, Work
    <2>2. call.at = "cook" /\ call.ticket = k /\ call.seen = ticket[k]
      BY DEF Resting
    <2>3. cook'[c] = call
      BY <2>1 DEF KitchenInv
    <2>4. \A d \in Cooks : cook[d].ticket # k
      BY <1>5 DEF OpenTicket, FreeTicket
    <2> HIDE DEF call
    <2>5. Reading(c)'
      BY <2>1, <2>2, <2>3 DEF Reading
    <2>6. Watching(c)'
      BY <1>5, <2>1, <2>2, <2>3 DEF Watching, OpenTicket
    <2> QED BY <2>1, <2>2, <2>4, <2>5, <2>6, CookMoves
  <1>6. ASSUME NEW l \in Lines, GuestAdds(l) PROVE KitchenInv' /\ ShownKept
    BY <1>6, LineAdded DEF GuestAdds
  <1>7. ASSUME NEW c \in Cooks, WriteAdd(c) PROVE KitchenInv' /\ ShownKept
    <2>1. cook' = [cook EXCEPT ![c] = Resting] /\ ticket' = ticket
      BY <1>7 DEF WriteAdd, Finish
    <2>2. CASE UNCHANGED <<line, edits>>
      BY <2>1, <2>2, CookRests
    <2>3. CASE /\ line[cook[c].line] = "absent" /\ line' = [line EXCEPT ![cook[c].line] = "pending"]
               /\ edits' = edits + 1
      <3>1. cook[c].line \in Lines
        BY <1>7 DEF KitchenInv, Reading, WriteAdd
      <3> QED BY <2>1, <2>3, <3>1, LineAdded
    <2> QED BY <1>7, <2>2, <2>3 DEF WriteAdd
  <1>8. ASSUME NEW c \in Cooks, WriteSend(c) PROVE KitchenInv' /\ ShownKept
    <2>1. CASE edits' = edits
      <3>1. edits \in Int
        BY DEF KitchenInv
      <3>2. UNCHANGED <<line, edits, ticket>> /\ cook' = [cook EXCEPT ![c] = Resting]
        BY <1>8, <2>1, <3>1 DEF WriteSend, Finish
      <3> QED BY <3>2, CookRests
    <2>2. CASE edits' # edits
      BY <1>8, <2>2, Sent
    <2> QED BY <2>1, <2>2
  <1>9. ASSUME NEW c \in Cooks, WriteItem(c) PROVE KitchenInv' /\ ShownKept
    <2> DEFINE seen == cook[c].seen
    <2>0. PICK l \in DOMAIN seen.shown :
             \E status \in CookNext[seen.shown[l]] :
                 ticket' = [ticket EXCEPT ![cook[c].ticket] =
                               [seen EXCEPT !.shown = [seen.shown EXCEPT ![l] = status],
                                            !.status = Derived([seen.shown EXCEPT ![l] = status])]]
      BY <1>9 DEF WriteItem
    <2>1. PICK status \in CookNext[seen.shown[l]] :
             ticket' = [ticket EXCEPT ![cook[c].ticket] =
                           [seen EXCEPT !.shown = [seen.shown EXCEPT ![l] = status],
                                        !.status = Derived([seen.shown EXCEPT ![l] = status])]]
      BY <2>0
    <2> DEFINE shown == [seen.shown EXCEPT ![l] = status]
               row == [seen EXCEPT !.shown = shown, !.status = Derived(shown)]
    <2>2. DOMAIN seen = {"status", "shown", "notices"}
      BY <1>9 DEF KitchenInv, Watching, WriteItem
    <2>3. DOMAIN row = {"status", "shown", "notices"} /\ row.shown = shown
      BY <2>2
    <2>4. DOMAIN shown = DOMAIN seen.shown
      OBVIOUS
    <2>5. \A m \in DOMAIN shown : seen.shown[m] = "served" => shown[m] \in {"served", "refunded"}
      BY DEF CookNext
    <2>6. ticket' = [ticket EXCEPT ![cook[c].ticket] = row]
      BY <2>1
    <2> HIDE DEF row, shown
    <2> QED BY <1>9, <2>3, <2>4, <2>5, <2>6, TicketWritten DEF WriteItem, Finish
  <1>10. ASSUME NEW c \in Cooks, WriteTicket(c) PROVE KitchenInv' /\ ShownKept
    <2> DEFINE seen == cook[c].seen
    <2>1. PICK status \in CookNext[seen.status] :
             ticket' = [ticket EXCEPT ![cook[c].ticket] = Taken(seen, status)]
      BY <1>10 DEF WriteTicket
    <2> DEFINE row == Taken(seen, status)
    <2>2. DOMAIN seen = {"status", "shown", "notices"}
      BY <1>10 DEF KitchenInv, Watching, WriteTicket
    <2>3. /\ DOMAIN row = {"status", "shown", "notices"}
          /\ row.shown = [l \in DOMAIN seen.shown |->
                            IF seen.status = "ready" /\ status = "preparing" /\ seen.shown[l] = "ready"
                            THEN "preparing" ELSE seen.shown[l]]
      BY <2>2 DEF Taken
    <2>4. ticket' = [ticket EXCEPT ![cook[c].ticket] = row]
      BY <2>1
    <2> HIDE DEF row
    <2>5. /\ DOMAIN row.shown = DOMAIN seen.shown
          /\ \A m \in DOMAIN row.shown : seen.shown[m] = "served" => row.shown[m] \in {"served", "refunded"}
      BY <2>3
    <2> QED BY <1>10, <2>3, <2>4, <2>5, TicketWritten DEF WriteTicket, Finish
  <1>11. ASSUME NEW c \in Cooks, WriteReview(c) \/ ReadTickets(c) \/ WriteCancel(c) PROVE FALSE
    BY <1>11 DEF KitchenInv, WriteReview, ReadTickets, WriteCancel
  <1>12. ASSUME NEW c \in Cooks, NEW l \in Lines, ReadReview(c, l) \/ ReadCancel(c, l) PROVE FALSE
    BY <1>12 DEF ReadReview, ReadCancel
  <1> QED BY <1>1, <1>2, <1>3, <1>4, <1>5, <1>6, <1>7, <1>8, <1>9, <1>10, <1>11, <1>12 DEF KitchenNext

\* Nothing is on a ticket at first.
LEMMA KitchenStarts == KitchenInit => KitchenInv
  <1> SUFFICES ASSUME KitchenInit PROVE KitchenInv
    OBVIOUS
  <1>1. /\ line = [l \in Lines |-> "absent"] /\ edits = 1
        /\ ticket = [k \in Tickets |-> NoTicket] /\ cook = [c \in Cooks |-> Resting]
    BY DEF KitchenInit
  <1>2. ASSUME NEW l \in Lines, NEW s \in Stations PROVE Matches(l, s)
    BY <1>1 DEF Matches, CookedIn, OnTicket, Tickets, NoTicket
  <1>3. \A c \in Cooks : cook[c].at = "idle"
    BY <1>1 DEF Resting
  <1>4. \A k \in Tickets : DOMAIN ticket[k] = {"status", "shown", "notices"}
    BY <1>1 DEF NoTicket
  <1> QED BY <1>1, <1>2, <1>3, <1>4 DEF KitchenInv, Reading, Watching

\* What the invariant says of each item is what is wanted.
LEMMA KitchenMatches == KitchenInv => TicketsMatch
  <1>1. ASSUME \A l \in Lines, s \in Stations : Matches(l, s) PROVE TicketsMatch
    BY <1>1 DEF Matches, CookedIn, TicketsMatch
  <1> QED BY <1>1 DEF KitchenInv

\* While no item is reviewed or canceled, each item that was sent is on one
\* ticket of every station that cooks it, and an item that waits is on none,
\* for any number of items, stations, calls and screens.
THEOREM EachItemCookedOnce ==
  ASSUME Batches \subseteq Nat, Reviewers = {}
  PROVE  KitchenSpec => []TicketsMatch
  <1> QED BY KitchenMatches, KitchenStarts, KitchenStep, PTL DEF KitchenSpec

\* And what a screen has served is not shown as anything earlier again.
THEOREM ServedItemsStay ==
  ASSUME Batches \subseteq Nat, Reviewers = {}
  PROVE  KitchenSpec => [][ServedStays]_kitchenVars
  <1>1. ShownKept <=> ServedStays
    BY DEF ShownKept, ServedStays
  <1>2. KitchenInv /\ [KitchenNext]_kitchenVars => [ServedStays]_kitchenVars
    BY <1>1, KitchenStep
  <1> QED BY <1>2, KitchenStarts, KitchenStep, PTL DEF KitchenSpec
-----------------------------------------------------------------------------
(*                                 Waiters                                 *)

OpRow == [at : {"idle", "assign", "copy", "claim", "help", "access", "work"}, shift : Shifts \cup {Nobody},
          table : Floor \cup {Nobody}, person : Persons \cup {Nobody}, claims : SUBSET Shifts, grants : SUBSET Helps]

\* The shifts whose lock of its table a transaction holds.
Held(c) == {op[c].shift} \cup op[c].claims

Working(c) == op[c].at = "work"

Placed(c) == op[c].at # "idle" => op[c].shift \in Shifts /\ op[c].table \in Floor /\ op[c].person \in Persons

\* Only a transaction under way claims a table or uses a grant, one that is
\* its waiter's.
Claiming(c) ==
    /\ ~Working(c) => op[c].claims = {} /\ op[c].grants = {}
    /\ \A h \in op[c].grants : help[h].status = "approved" /\ help[h].person = op[c].person

Exclusive(c, d) == c # d =>
    /\ op[c].grants \cap op[d].grants = {}
    /\ Working(c) /\ Working(d) /\ op[c].table = op[d].table => Held(c) \cap Held(d) = {}

Own(c) == Working(c) /\ op[c].grants = {} => waiter[op[c].shift][op[c].table] \in {op[c].person, Nobody}

\* The grants of w that were used.
Used(w) == {h \in Helps : help[h].status = "applied" /\ help[h].person = w}

TeamShape ==
    /\ waiter \in [Shifts -> [Floor -> Persons \cup {Nobody}]]
    /\ help \in [Helps -> [status : {"absent", "pending", "approved", "applied", "expired"},
                           table : Floor \cup {Nobody}, person : Persons \cup {Nobody}]]
    /\ helped \in [Persons -> Nat]
    /\ op \in [Ops -> OpRow]

TeamInv ==
    /\ TeamShape
    /\ \A c \in Ops : Placed(c) /\ Claiming(c) /\ Own(c)
    /\ \A c, d \in Ops : Exclusive(c, d)
    /\ \A w \in Persons : helped[w] <= Cardinality(Used(w))

\* A call begins, goes on without working, or ends.
LEMMA CallMoves ==
  ASSUME TeamInv, NEW c \in Ops, NEW call \in OpRow, op' = [op EXCEPT ![c] = call],
         call.at # "idle" => call.shift \in Shifts /\ call.table \in Floor /\ call.person \in Persons,
         call.at # "work", call.claims = {}, call.grants = {},
         UNCHANGED <<waiter, help, helped>>
  PROVE  TeamInv'
  <1>1. op' \in [Ops -> OpRow] /\ op'[c] = call /\ \A d \in Ops \ {c} : op'[d] = op[d]
    BY DEF TeamInv, TeamShape
  <1>2. TeamShape'
    BY <1>1 DEF TeamInv, TeamShape
  <1>3. \A d \in Ops : Placed(d)' /\ Claiming(d)'
    BY <1>1 DEF TeamInv, Placed, Claiming, Working
  <1>4. \A d \in Ops : Own(d)'
    BY <1>1 DEF TeamInv, Own, Working
  <1>5. \A d, e \in Ops : Exclusive(d, e)'
    BY <1>1 DEF TeamInv, Exclusive, Working, Held
  <1>6. \A w \in Persons : (helped[w] <= Cardinality(Used(w)))'
    BY DEF TeamInv, Used
  <1> QED BY <1>2, <1>3, <1>4, <1>5, <1>6 DEF TeamInv

\* A table changes hands while nobody works on it.
LEMMA TableGiven ==
  ASSUME TeamInv, NEW c \in Ops, ~Working(c), NEW s \in Shifts, NEW t \in Floor, NEW w \in Persons,
         TableFree(s, t), waiter' = [waiter EXCEPT ![s][t] = w],
         op' = [op EXCEPT ![c] = Off], UNCHANGED <<help, helped>>
  PROVE  TeamInv'
  <1>1. op' \in [Ops -> OpRow] /\ op'[c] = Off /\ \A d \in Ops \ {c} : op'[d] = op[d]
    BY DEF TeamInv, TeamShape, OpRow, Off
  <1>2. /\ waiter' \in [Shifts -> [Floor -> Persons \cup {Nobody}]]
        /\ \A s2 \in Shifts, t2 \in Floor : s2 # s \/ t2 # t => waiter'[s2][t2] = waiter[s2][t2]
    BY DEF TeamInv, TeamShape
  <1>3. TeamShape'
    BY <1>1, <1>2 DEF TeamInv, TeamShape
  <1>4. \A d \in Ops : Placed(d)' /\ Claiming(d)'
    BY <1>1 DEF TeamInv, Placed, Claiming, Working, Off
  <1>5. ASSUME NEW d \in Ops, Working(d)' PROVE Own(d)'
    <2>1. d # c /\ op'[d] = op[d] /\ Working(d)
      BY <1>1, <1>5 DEF Working, Off
    <2>2. op[d].shift \in Shifts /\ op[d].table \in Floor /\ (op[d].shift # s \/ op[d].table # t)
      BY <2>1 DEF TeamInv, Placed, Working, TableFree
    <2> QED BY <1>2, <2>1, <2>2 DEF TeamInv, Own
  <1>6. \A d, e \in Ops : Exclusive(d, e)'
    BY <1>1 DEF TeamInv, Exclusive, Working, Held, Off
  <1>7. \A w2 \in Persons : (helped[w2] <= Cardinality(Used(w2)))'
    BY DEF TeamInv, Used
  <1> QED BY <1>3, <1>4, <1>5, <1>6, <1>7 DEF TeamInv, Own

\* A transaction begins on a table that is free in each shift it holds.
LEMMA Entered ==
  ASSUME TeamInv, NEW c \in Ops, op[c].at = "access", NEW claims \in SUBSET Shifts, NEW grants \in SUBSET Helps,
         op' = [op EXCEPT ![c] = [op[c] EXCEPT !.at = "work", !.claims = claims, !.grants = grants]],
         TableFree(op[c].shift, op[c].table), \A s \in claims : TableFree(s, op[c].table),
         grants = {} => waiter[op[c].shift][op[c].table] \in {op[c].person, Nobody},
         \A h \in grants : help[h].status = "approved" /\ help[h].person = op[c].person,
         \A d \in Ops : op[d].grants \cap grants = {},
         UNCHANGED <<waiter, help, helped>>
  PROVE  TeamInv'
  <1> DEFINE call == [op[c] EXCEPT !.at = "work", !.claims = claims, !.grants = grants]
  <1>1. /\ call \in OpRow /\ call.at = "work" /\ call.claims = claims /\ call.grants = grants
        /\ call.shift = op[c].shift /\ call.table = op[c].table /\ call.person = op[c].person
    BY DEF TeamInv, TeamShape, OpRow
  <1> HIDE DEF call
  <1>2. op' \in [Ops -> OpRow] /\ op'[c] = call /\ \A d \in Ops \ {c} : op'[d] = op[d]
    BY <1>1 DEF TeamInv, TeamShape, call
  <1>3. TeamShape'
    BY <1>2 DEF TeamInv, TeamShape
  <1>4. \A d \in Ops : Placed(d)' /\ Claiming(d)'
    BY <1>1, <1>2 DEF TeamInv, Placed, Claiming, Working
  <1>5. \A d \in Ops : Own(d)'
    BY <1>1, <1>2 DEF TeamInv, Own, Working
  <1>6. ASSUME NEW d \in Ops, d # c, Working(d), op[d].table = op[c].table PROVE Held(d) \cap Held(c)' = {}
    <2>1. Held(c)' = {op[c].shift} \cup claims
      BY <1>1, <1>2 DEF Held
    <2>2. op[c].shift \notin Held(d) /\ \A s \in claims : s \notin Held(d)
      BY <1>6 DEF TableFree, Held, Working
    <2> QED BY <2>1, <2>2
  <1>7. \A d \in Ops \ {c} : Held(d)' = Held(d) /\ (Working(d)' <=> Working(d))
    BY <1>2 DEF Held, Working
  <1>8. ASSUME NEW d \in Ops, NEW e \in Ops PROVE Exclusive(d, e)'
    <2>1. CASE d # c /\ e # c
      BY <1>2, <1>7, <2>1 DEF TeamInv, Exclusive
    <2>2. CASE d = c /\ e # c
      BY <1>1, <1>2, <1>6, <1>7, <2>2 DEF Exclusive
    <2>3. CASE d # c /\ e = c
      BY <1>1, <1>2, <1>6, <1>7, <2>3 DEF Exclusive
    <2>4. CASE d = e
      BY <2>4 DEF Exclusive
    <2> QED BY <2>1, <2>2, <2>3, <2>4
  <1>9. \A w \in Persons : (helped[w] <= Cardinality(Used(w)))'
    BY DEF TeamInv, Used
  <1> QED BY <1>3, <1>4, <1>5, <1>8, <1>9 DEF TeamInv

\* It commits what it claimed, and the grants it used are used.
LEMMA Committed ==
  ASSUME TeamInv, IsFiniteSet(Helps), NEW c \in Ops, Commit(c)
  PROVE  TeamInv'
  <1> DEFINE t == op[c].table
             w == op[c].person
  <1>1. /\ t \in Floor /\ w \in Persons /\ Working(c) /\ op[c].claims \in SUBSET Shifts /\ op[c].grants \in SUBSET Helps
        /\ \A h \in op[c].grants : help[h].status = "approved" /\ help[h].person = w
    BY DEF TeamInv, TeamShape, OpRow, Placed, Claiming, Working, Commit
  <1>2. op' \in [Ops -> OpRow] /\ op'[c] = Off /\ \A d \in Ops \ {c} : op'[d] = op[d]
    <2>1. Off \in OpRow
      BY DEF Off, OpRow
    <2> QED BY <2>1 DEF TeamInv, TeamShape, Commit, Done
  <1>3. /\ waiter' \in [Shifts -> [Floor -> Persons \cup {Nobody}]]
        /\ \A s2 \in Shifts, t2 \in Floor : s2 \notin op[c].claims \/ t2 # t => waiter'[s2][t2] = waiter[s2][t2]
    BY <1>1 DEF TeamInv, TeamShape, Commit
  <1>4. /\ help' \in [Helps -> [status : {"absent", "pending", "approved", "applied", "expired"},
                                table : Floor \cup {Nobody}, person : Persons \cup {Nobody}]]
        /\ \A h \in Helps : /\ help'[h].person = help[h].person
                            /\ help'[h].status = IF h \in op[c].grants THEN "applied" ELSE help[h].status
    BY DEF TeamInv, TeamShape, Commit
  <1>5. helped' = IF op[c].grants = {} THEN helped ELSE [helped EXCEPT ![w] = @ + 1]
    BY DEF Commit
  <1>6. TeamShape'
    BY <1>1, <1>2, <1>3, <1>4, <1>5 DEF TeamInv, TeamShape
  <1>7. \A d \in Ops : Placed(d)'
    BY <1>2 DEF TeamInv, Placed, Off
  <1>8. ASSUME NEW d \in Ops PROVE Claiming(d)'
    <2>1. CASE d = c
      BY <1>2, <2>1 DEF Claiming, Working, Off
    <2>2. CASE d # c
      <3>1. op[d].grants \cap op[c].grants = {} /\ op[d].grants \in SUBSET Helps
        BY <2>2 DEF TeamInv, TeamShape, OpRow, Exclusive
      <3> QED BY <1>2, <1>4, <2>2, <3>1 DEF TeamInv, Claiming, Working
    <2> QED BY <2>1, <2>2
  <1>9. ASSUME NEW d \in Ops, Working(d)' PROVE Own(d)'
    <2>1. d # c /\ op'[d] = op[d] /\ Working(d)
      BY <1>2, <1>9 DEF Working, Off
    <2>2. op[d].shift \in Shifts /\ op[d].table \in Floor
      BY <2>1 DEF TeamInv, Placed, Working
    <2>3. op[d].shift \notin op[c].claims \/ op[d].table # t
      BY <1>1, <2>1 DEF TeamInv, Exclusive, Held
    <2> QED BY <1>3, <2>1, <2>2, <2>3 DEF TeamInv, Own
  <1>10. \A d, e \in Ops : Exclusive(d, e)'
    BY <1>2 DEF TeamInv, Exclusive, Working, Held, Off
  <1>11. ASSUME NEW u \in Persons PROVE (helped[u] <= Cardinality(Used(u)))'
    <2>1. IsFiniteSet(Used(u)) /\ IsFiniteSet(Used(u)') /\ Cardinality(Used(u)) \in Nat /\ Cardinality(Used(u)') \in Nat
      <3>1. Used(u) \in SUBSET Helps /\ Used(u)' \in SUBSET Helps
        BY DEF Used
      <3> QED BY <3>1, FS_Subset, FS_CardinalityType
    <2>2. Used(u) \subseteq Used(u)'
      BY <1>4 DEF Used
    <2>3. Cardinality(Used(u)) <= Cardinality(Used(u)')
      BY <2>1, <2>2, FS_Subset
    <2>4. helped[u] \in Nat /\ helped[u] <= Cardinality(Used(u))
      BY DEF TeamInv, TeamShape
    <2>5. CASE u # w \/ op[c].grants = {}
      <3>1. helped'[u] = helped[u]
        BY <1>5, <2>5 DEF TeamInv, TeamShape
      <3> QED BY <2>1, <2>3, <2>4, <3>1
    <2>6. CASE u = w /\ op[c].grants # {}
      <3>1. helped'[u] = helped[u] + 1
        BY <1>1, <1>5, <2>6 DEF TeamInv, TeamShape
      <3>2. PICK h \in op[c].grants : TRUE
        BY <2>6
      <3>3. h \in Used(u)' /\ h \notin Used(u)
        BY <1>1, <1>4, <2>6 DEF Used
      <3>4. Cardinality(Used(u)) # Cardinality(Used(u)')
        BY <2>1, <2>2, <3>3, FS_Subset
      <3> QED BY <2>1, <2>3, <2>4, <3>1, <3>4
    <2> QED BY <2>5, <2>6
  <1> QED BY <1>6, <1>7, <1>8, <1>9, <1>10, <1>11 DEF TeamInv, Own

\* A call that ends and writes nothing.
LEMMA CallEnds ==
  ASSUME TeamInv, NEW c \in Ops, op' = [op EXCEPT ![c] = Off], UNCHANGED <<waiter, help, helped>>
  PROVE  TeamInv'
  <1>1. /\ Off \in OpRow /\ Off.at = "idle" /\ Off.claims = {} /\ Off.grants = {}
    BY DEF Off, OpRow
  <1> HIDE DEF Off
  <1> QED BY <1>1, CallMoves

\* A call begins with the current shift.
LEMMA CallBegins ==
  ASSUME TeamInv, NEW c \in Ops, NEW at \in {"assign", "copy", "claim", "help", "access"},
         NEW t \in Floor, NEW w \in Persons, ReadShift(c, at, t, w)
  PROVE  TeamInv'
  <1>1. PICK s \in Shifts :
          op' = [op EXCEPT ![c] = [Off EXCEPT !.at = at, !.shift = s, !.table = t, !.person = w]]
    BY DEF ReadShift, Call, Current
  <1> DEFINE call == [Off EXCEPT !.at = at, !.shift = s, !.table = t, !.person = w]
  <1>2. /\ call \in OpRow /\ call.at = at /\ call.shift = s /\ call.table = t /\ call.person = w
        /\ call.claims = {} /\ call.grants = {}
    BY DEF Off, OpRow
  <1>3. op' = [op EXCEPT ![c] = call] /\ UNCHANGED <<waiter, help, helped>>
    BY <1>1 DEF ReadShift
  <1> HIDE DEF call
  <1> QED BY <1>2, <1>3, CallMoves

\* The assignments of a shift and the help that was not used end with it.
LEMMA ShiftClosed ==
  ASSUME TeamInv, NEW s \in Shifts, CloseShift(s)
  PROVE  TeamInv'
  <1>1. /\ op' = op /\ helped' = helped /\ \A c \in Ops : op[c].grants = {}
        /\ waiter' = [waiter EXCEPT ![s] = [t \in Floor |-> Nobody]]
        /\ help' = [h \in Helps |-> IF help[h].status \in {"pending", "approved"}
                                    THEN [help[h] EXCEPT !.status = "expired"] ELSE help[h]]
    BY DEF CloseShift
  <1>2. /\ waiter' \in [Shifts -> [Floor -> Persons \cup {Nobody}]]
        /\ \A s2 \in Shifts, t \in Floor : waiter'[s2][t] \in {waiter[s2][t], Nobody}
    BY <1>1 DEF TeamInv, TeamShape
  <1>3. help' \in [Helps -> [status : {"absent", "pending", "approved", "applied", "expired"},
                             table : Floor \cup {Nobody}, person : Persons \cup {Nobody}]]
    BY <1>1 DEF TeamInv, TeamShape
  <1>4. \A w \in Persons : Used(w)' = Used(w)
    <2>1. \A h \in Helps : help[h].status \notin {"pending", "approved"} => help'[h] = help[h]
      BY <1>1
    <2>2. \A h \in Helps : help[h].status \in {"pending", "approved"} => help'[h].status = "expired"
      BY <1>1 DEF TeamInv, TeamShape
    <2> QED BY <2>1, <2>2 DEF Used
  <1>5. TeamShape'
    BY <1>1, <1>2, <1>3 DEF TeamInv, TeamShape
  <1>6. \A c \in Ops : Placed(c)' /\ Claiming(c)'
    BY <1>1 DEF TeamInv, Placed, Claiming, Working
  <1>7. ASSUME NEW c \in Ops, Working(c)' PROVE Own(c)'
    <2>1. Working(c) /\ op[c].shift \in Shifts /\ op[c].table \in Floor /\ Own(c)
      BY <1>1, <1>7 DEF TeamInv, Placed, Working
    <2> QED BY <1>1, <1>2, <2>1 DEF Own
  <1>8. \A c, d \in Ops : Exclusive(c, d)'
    BY <1>1 DEF TeamInv, Exclusive, Working, Held
  <1> QED BY <1>1, <1>4, <1>5, <1>6, <1>7, <1>8 DEF TeamInv, Own

\* A request that is made or granted, by no transaction's doing.
LEMMA HelpMoves ==
  ASSUME TeamInv, NEW h \in Helps, help[h].status \in {"absent", "pending"},
         NEW row \in [status : {"pending", "approved"}, table : Floor \cup {Nobody}, person : Persons \cup {Nobody}],
         help' = [help EXCEPT ![h] = row], UNCHANGED <<waiter, helped>>,
         op' = op \/ \E c \in Ops : op' = [op EXCEPT ![c] = Off]
  PROVE  TeamInv'
  <1>1. /\ op' \in [Ops -> OpRow]
        /\ \A c \in Ops : op'[c] = op[c] \/ op'[c] = Off
    <2>1. Off \in OpRow
      BY DEF Off, OpRow
    <2> HIDE DEF Off
    <2> QED BY <2>1 DEF TeamInv, TeamShape
  <1>2. /\ help' \in [Helps -> [status : {"absent", "pending", "approved", "applied", "expired"},
                                table : Floor \cup {Nobody}, person : Persons \cup {Nobody}]]
        /\ \A g \in Helps \ {h} : help'[g] = help[g]
        /\ help'[h].status \in {"pending", "approved"}
    BY DEF TeamInv, TeamShape
  <1>3. \A w \in Persons : Used(w)' = Used(w)
    BY <1>2 DEF Used
  <1>4. TeamShape'
    BY <1>1, <1>2 DEF TeamInv, TeamShape
  <1>5. \A c \in Ops : Placed(c)' /\ Own(c)'
    BY <1>1 DEF TeamInv, Placed, Own, Working, Off
  <1>6. ASSUME NEW c \in Ops PROVE Claiming(c)'
    <2>1. CASE op'[c] = Off
      BY <2>1 DEF Claiming, Working, Off
    <2>2. CASE op'[c] = op[c]
      <3>1. \A g \in op[c].grants : g \in Helps \ {h}
        BY DEF TeamInv, TeamShape, OpRow, Claiming
      <3> QED BY <1>2, <2>2, <3>1 DEF TeamInv, Claiming, Working
    <2> QED BY <1>1, <2>1, <2>2
  <1>7. \A c, d \in Ops : Exclusive(c, d)'
    BY <1>1 DEF TeamInv, Exclusive, Working, Held, Off
  <1> QED BY <1>3, <1>4, <1>5, <1>6, <1>7 DEF TeamInv

\* Every step leaves the tables to those who work on them.
LEMMA TeamStep == IsFiniteSet(Helps) /\ TeamInv /\ [WaiterNext]_waiterVars => TeamInv'
  <1> SUFFICES ASSUME IsFiniteSet(Helps), TeamInv, [WaiterNext]_waiterVars PROVE TeamInv'
    OBVIOUS
  <1>1. ASSUME UNCHANGED <<waiter, help, helped, op>> PROVE TeamInv'
    <2>1. TeamShape'
      BY <1>1 DEF TeamInv, TeamShape
    <2>2. \A c \in Ops : Placed(c)' /\ Claiming(c)' /\ Own(c)'
      BY <1>1 DEF TeamInv, Placed, Claiming, Own, Working
    <2>3. \A c, d \in Ops : Exclusive(c, d)'
      BY <1>1 DEF TeamInv, Exclusive, Working, Held
    <2>4. \A w \in Persons : (helped[w] <= Cardinality(Used(w)))'
      BY <1>1 DEF TeamInv, Used
    <2> QED BY <2>1, <2>2, <2>3, <2>4 DEF TeamInv
  <1>2. ASSUME NEW s \in Shifts, OpenShift(s) PROVE TeamInv'
    BY <1>1, <1>2 DEF OpenShift
  <1>3. ASSUME NEW s \in Shifts, CloseShift(s) PROVE TeamInv'
    BY <1>3, ShiftClosed
  <1>4. ASSUME NEW c \in Ops, NEW t \in Floor, NEW w \in Persons,
               \/ \E at \in {"claim", "access"} : ReadShift(c, at, t, w)
               \/ Assign(c, t, w) \/ CopyPreviousShift(c, t, w) \/ Redistribute(c, t, w)
               \/ ReadHelp(c, t, w)
        PROVE  TeamInv'
    BY <1>4, CallBegins DEF Assign, CopyPreviousShift, Redistribute, ReadHelp
  <1>5. ASSUME NEW c \in Ops, Replace(c) \/ Claim(c) PROVE TeamInv'
    <2>1. op[c].shift \in Shifts /\ op[c].table \in Floor /\ op[c].person \in Persons /\ ~Working(c)
      BY <1>5 DEF TeamInv, Placed, Working, Replace, Claim
    <2>2. /\ TableFree(op[c].shift, op[c].table) /\ op' = [op EXCEPT ![c] = Off]
          /\ UNCHANGED <<help, helped>>
          /\ \/ waiter' = [waiter EXCEPT ![op[c].shift][op[c].table] = op[c].person]
             \/ waiter' = waiter
      BY <1>5 DEF Replace, Claim, Done
    <2> QED BY <2>1, <2>2, TableGiven, CallEnds
  <1>6. ASSUME NEW c \in Ops, WriteHelp(c) PROVE TeamInv'
    <2>1. PICK h \in Helps :
            /\ help[h].status = "absent"
            /\ help' = [help EXCEPT ![h] = [status |-> "pending", table |-> op[c].table, person |-> op[c].person]]
      BY <1>6 DEF WriteHelp
    <2>2. [status |-> "pending", table |-> op[c].table, person |-> op[c].person]
             \in [status : {"pending", "approved"}, table : Floor \cup {Nobody}, person : Persons \cup {Nobody}]
      BY DEF TeamInv, TeamShape, OpRow
    <2> QED BY <1>6, <2>1, <2>2, HelpMoves DEF WriteHelp, Done
  <1>7. ASSUME NEW h \in Helps, GrantHelp(h) PROVE TeamInv'
    <2>1. [help[h] EXCEPT !.status = "approved"]
             \in [status : {"pending", "approved"}, table : Floor \cup {Nobody}, person : Persons \cup {Nobody}]
      BY DEF TeamInv, TeamShape
    <2>2. help[h].status = "pending" /\ help' = [help EXCEPT ![h] = [help[h] EXCEPT !.status = "approved"]]
      BY <1>7 DEF GrantHelp, TeamInv, TeamShape
    <2> QED BY <1>7, <2>1, <2>2, HelpMoves DEF GrantHelp
  <1>8. ASSUME NEW c \in Ops, Enter(c) PROVE TeamInv'
    <2>1. op[c].at = "access" /\ TableFree(op[c].shift, op[c].table) /\ UNCHANGED <<waiter, help, helped>>
      BY <1>8 DEF Enter
    <2> DEFINE work(claims, grants) == [op[c] EXCEPT !.at = "work", !.claims = claims, !.grants = grants]
    <2>2. ASSUME NEW claims \in SUBSET Shifts, op' = [op EXCEPT ![c] = work(claims, {})],
                 \A s \in claims : TableFree(s, op[c].table),
                 waiter[op[c].shift][op[c].table] \in {op[c].person, Nobody}
          PROVE  TeamInv'
      <3>1. {} \in SUBSET Helps /\ \A d \in Ops : op[d].grants \cap {} = {}
        OBVIOUS
      <3> QED BY ONLY <2>1, <2>2, <3>1, Entered, TeamInv
    <2>3. CASE waiter[op[c].shift][op[c].table] = op[c].person /\ op' = [op EXCEPT ![c] = work({}, {})]
      <3>1. {} \in SUBSET Shifts /\ \A s \in {} : TableFree(s, op[c].table)
        OBVIOUS
      <3> QED BY ONLY <2>2, <2>3, <3>1
    <2>4. CASE op' = [op EXCEPT ![c] = Off]
      BY <2>1, <2>4, CallEnds
    <2>5. ASSUME waiter[op[c].shift][op[c].table] = Nobody, NEW now \in Shifts, TableFree(now, op[c].table),
                 op' = [op EXCEPT ![c] = work({now}, {})] \/ op' = [op EXCEPT ![c] = work({}, {})]
          PROVE  TeamInv'
      <3> HIDE DEF work
      <3>1. \A claims \in {{}, {now}} : claims \in SUBSET Shifts /\ \A s \in claims : TableFree(s, op[c].table)
        BY <2>5
      <3> QED BY <2>2, <2>5, <3>1
    <2>6. ASSUME Grants(op[c].person, op[c].table) # {},
                 \A d \in Ops : op[d].grants \cap Grants(op[c].person, op[c].table) = {},
                 op' = [op EXCEPT ![c] = work({}, Grants(op[c].person, op[c].table))]
          PROVE  TeamInv'
      <3> DEFINE grants == Grants(op[c].person, op[c].table)
      <3>1. /\ grants \in SUBSET Helps
            /\ \A h \in grants : help[h].status = "approved" /\ help[h].person = op[c].person
        BY DEF Grants, Asking
      <3>2. {} \in SUBSET Shifts /\ \A s \in {} : TableFree(s, op[c].table)
        OBVIOUS
      <3>3. \E gs \in SUBSET Helps : gs = grants
        BY <3>1
      <3>4. PICK gs \in SUBSET Helps : gs = grants
        BY <3>3
      <3> HIDE DEF grants
      <3>5. /\ gs # {} /\ op' = [op EXCEPT ![c] = work({}, gs)] /\ \A d \in Ops : op[d].grants \cap gs = {}
            /\ \A h \in gs : help[h].status = "approved" /\ help[h].person = op[c].person
        BY <2>6, <3>1, <3>4 DEF grants
      <3> QED BY ONLY <2>1, <3>2, <3>5, Entered, TeamInv, gs \in SUBSET Helps, op' = [op EXCEPT ![c] = work({}, gs)]
    <2>7. \/ waiter[op[c].shift][op[c].table] = op[c].person /\ op' = [op EXCEPT ![c] = work({}, {})]
          \/ op' = [op EXCEPT ![c] = Off]
          \/ /\ waiter[op[c].shift][op[c].table] = Nobody
             /\ \E now \in Shifts :
                   /\ TableFree(now, op[c].table)
                   /\ op' = [op EXCEPT ![c] = work({now}, {})] \/ op' = [op EXCEPT ![c] = work({}, {})]
          \/ /\ Grants(op[c].person, op[c].table) # {}
             /\ \A d \in Ops : op[d].grants \cap Grants(op[c].person, op[c].table) = {}
             /\ op' = [op EXCEPT ![c] = work({}, Grants(op[c].person, op[c].table))]
      BY <1>8 DEF Enter, Done, Current
    <2> HIDE DEF work
    <2> QED BY <2>3, <2>4, <2>5, <2>6, <2>7
  <1>9. ASSUME NEW c \in Ops, Commit(c) PROVE TeamInv'
    BY <1>9, Committed
  <1>10. ASSUME NEW c \in Ops, Rollback(c) PROVE TeamInv'
    BY <1>10, CallEnds DEF Rollback, Done
  <1>11. CASE UNCHANGED waiterVars
    BY <1>1, <1>11 DEF waiterVars
  <1> QED BY <1>2, <1>3, <1>4, <1>5, <1>6, <1>7, <1>8, <1>9, <1>10, <1>11 DEF WaiterNext

\* Nobody works on a table at first.
LEMMA TeamStarts == WaiterInit => TeamInv
  <1> SUFFICES ASSUME WaiterInit PROVE TeamInv
    OBVIOUS
  <1>1. TeamShape
    BY DEF WaiterInit, Off, TeamShape, OpRow
  <1>2. \A c \in Ops : Placed(c) /\ Claiming(c) /\ Own(c)
    BY DEF WaiterInit, Off, Placed, Claiming, Own, Working
  <1>3. \A c, d \in Ops : Exclusive(c, d)
    BY DEF WaiterInit, Off, Exclusive, Working
  <1>4. \A w \in Persons : helped[w] <= Cardinality(Used(w))
    <2>1. \A w \in Persons : Used(w) = {} /\ helped[w] = 0
      BY DEF WaiterInit, Used
    <2> QED BY <2>1, FS_EmptySet
  <1> QED BY <1>1, <1>2, <1>3, <1>4 DEF TeamInv

\* What the invariant says of each call and each waiter is what is wanted.
LEMMA TeamServes == TeamInv => ServesOwnTable /\ EachHelpGranted
  <1>1. TeamInv => ServesOwnTable
    BY DEF TeamInv, Own, Working, ServesOwnTable
  <1>2. TeamInv => EachHelpGranted
    BY DEF TeamInv, Used, EachHelpGranted
  <1> QED BY <1>1, <1>2

\* A waiter at work without a grant is not replaced at his table, and whoever
\* served another's table had one grant of his own for each time, for any
\* number of shifts, tables, waiters and transactions.
THEOREM WaitersServeTheirTables ==
  ASSUME IsFiniteSet(Helps)
  PROVE  WaiterSpec => [](ServesOwnTable /\ EachHelpGranted)
  <1> QED BY TeamServes, TeamStarts, TeamStep, PTL DEF WaiterSpec
=============================================================================
