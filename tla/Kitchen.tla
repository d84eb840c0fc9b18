------------------------------ MODULE Kitchen ------------------------------
(***************************************************************************)
(* The items of one order on their way to the kitchen: added by waiters    *)
(* and guests, sent in batches as one ticket per station, cooked on the    *)
(* kitchen's screens, reviewed and canceled (addItem and sendToKitchen of  *)
(* orders.service.ts, the QR review and the cancellation of pos.service.ts,*)
(* kds.service.ts).                                                        *)
(*                                                                         *)
(* Most transactions read the order, decide, and write it on condition     *)
(* that its version is still the one they read.  A review does not ask.    *)
(***************************************************************************)
EXTENDS Naturals, FiniteSets

CONSTANTS
    Lines,      \* items that can be added
    Batches,    \* how often items can be sent, numbers
    Stations,
    Routes,     \* per item, the stations its category goes to
    Cooks,      \* calls of the staff in flight
    Screens,    \* those of them that may come from the kitchen's screens
    Reviewers,  \* those of them that may be reviews and cancellations
    MaxEdits,   \* bounds the version of the order
    Nothing

VARIABLES
    line,       \* the status of each order_items row
    edits,      \* the version of the order
    ticket,     \* the kds_tickets rows, by batch and station
    cook        \* the calls in flight

kitchenVars == <<line, edits, ticket, cook>>
-----------------------------------------------------------------------------
Resting == [at |-> "idle", edits |-> 0, line |-> Nothing, lines |-> {}, ticket |-> Nothing, seen |-> Nothing]

NoTicket == [status |-> "absent", shown |-> <<>>, notices |-> {}]

Tickets == Batches \X Stations

Work(c, call) == cook[c] = Resting /\ cook' = [cook EXCEPT ![c] = call]

Finish(c) == cook' = [cook EXCEPT ![c] = Resting]

Unsent == {l \in Lines : line[l] = "pending"}

OnTicket(l, k) == l \in DOMAIN ticket[k].shown

\* Mutant: the order is written whatever its version is.
WrittenAnyway(c) == TRUE

\* updateOrder with the version that was read.
Unchanged(c) == edits = cook[c].edits

\* A cancellation holds the row of the order until it commits.
OrderFree == \A c \in Cooks : cook[c].at # "notify"

\* addItem, to the insert and to the conditional update.
ReadAdd(c, l) ==
    /\ line[l] = "absent" /\ edits < MaxEdits
    /\ Work(c, [Resting EXCEPT !.at = "add", !.line = l, !.edits = edits])
    /\ UNCHANGED <<line, edits, ticket>>

WriteAdd(c) ==
    /\ cook[c].at = "add" /\ OrderFree
    /\ IF Unchanged(c) /\ line[cook[c].line] = "absent"
       THEN line' = [line EXCEPT ![cook[c].line] = "pending"] /\ edits' = edits + 1
       ELSE UNCHANGED <<line, edits>>
    /\ Finish(c)
    /\ UNCHANGED ticket

\* createPublicOrder: the database adds one to the version.
GuestAdds(l) ==
    /\ line[l] = "absent" /\ edits < MaxEdits /\ OrderFree
    /\ line' = [line EXCEPT ![l] = "pending"]
    /\ edits' = edits + 1
    /\ UNCHANGED <<ticket, cook>>

\* sendToKitchen reads the order, and then the items and where they go.
ReadSend(c) ==
    /\ edits < MaxEdits
    /\ Work(c, [Resting EXCEPT !.at = "route", !.edits = edits])
    /\ UNCHANGED <<line, edits, ticket>>

ReadPending(c) ==
    /\ cook[c].at = "route"
    /\ cook' = [cook EXCEPT ![c] = IF \A l \in Unsent : Routes[l] = {} THEN Resting
                                   ELSE [@ EXCEPT !.at = "send", !.lines = Unsent]]
    /\ UNCHANGED <<line, edits, ticket>>

NextBatch == {b \in Batches : \A s \in Stations : ticket[<<b, s>>] = NoTicket}

Least(set) == CHOOSE x \in set : \A y \in set : x <= y

\* resolveProductionRouting: a ticket per station with something to cook.
Routed(lines) == [s \in Stations |-> {l \in lines : s \in Routes[l]}]

NewTickets(lines) ==
    [k \in Tickets |->
        IF k[1] = Least(NextBatch) /\ Routed(lines)[k[2]] # {}
        THEN [NoTicket EXCEPT !.status = "sent", !.shown = [l \in Routed(lines)[k[2]] |-> "sent"]]
        ELSE ticket[k]]

\* Whatever is pending by now becomes sent; the tickets list what was read.
WriteSend(c) ==
    /\ cook[c].at = "send" /\ NextBatch # {} /\ OrderFree
    /\ IF Unchanged(c) /\ \A l \in cook[c].lines : Routes[l] # {}
       THEN /\ line' = [l \in Lines |-> IF l \in Unsent THEN "sent" ELSE line[l]]
            /\ ticket' = NewTickets(cook[c].lines)
            /\ edits' = edits + 1
       ELSE UNCHANGED <<line, ticket, edits>>
    /\ Finish(c)
-----------------------------------------------------------------------------
(*                          The kitchen's screens                          *)

\* Mutant: no lock per ticket.
NobodyAt(k) == TRUE

\* The advisory lock of the ticket.
FreeTicket(k) == \A c \in Cooks : cook[c].ticket # k

OpenTicket(c, k) ==
    /\ c \in Screens /\ ticket[k] # NoTicket /\ FreeTicket(k)
    /\ Work(c, [Resting EXCEPT !.at = "cook", !.ticket = k, !.seen = ticket[k]])
    /\ UNCHANGED <<line, edits, ticket>>

\* assertKdsTransition: what the domain allows, and back from ready.
CookNext == [sent |-> {"preparing", "ready", "canceled"}, preparing |-> {"ready", "canceled"},
             ready |-> {"served", "canceled", "preparing"}, served |-> {"refunded"},
             canceled |-> {}, refunded |-> {}]

ItemStatus == DOMAIN CookNext

\* The status of a ticket, from those of its items.
Derived(shown) ==
    LET all == {shown[l] : l \in DOMAIN shown} IN
    CASE all = {"served"} -> "served"
      [] "ready" \in all -> "ready"
      [] "ready" \notin all /\ "preparing" \in all -> "preparing"
      [] OTHER -> "sent"

\* updateTicketItem.
WriteItem(c) ==
    LET k == cook[c].ticket
        seen == cook[c].seen
    IN  /\ cook[c].at = "cook"
        /\ \E l \in DOMAIN seen.shown : \E status \in CookNext[seen.shown[l]] :
              LET shown == [seen.shown EXCEPT ![l] = status] IN
              ticket' = [ticket EXCEPT ![k] = [seen EXCEPT !.shown = shown, !.status = Derived(shown)]]
        /\ Finish(c)
        /\ UNCHANGED <<line, edits>>

\* updateTicket: the items follow on the way back from ready only.
Taken(seen, status) ==
    [seen EXCEPT !.status = status,
                 !.shown = [l \in DOMAIN seen.shown |->
                               IF seen.status = "ready" /\ status = "preparing" /\ seen.shown[l] = "ready"
                               THEN "preparing" ELSE seen.shown[l]]]

WriteTicket(c) ==
    LET seen == cook[c].seen IN
    /\ cook[c].at = "cook"
    /\ \E status \in CookNext[seen.status] : ticket' = [ticket EXCEPT ![cook[c].ticket] = Taken(seen, status)]
    /\ Finish(c)
    /\ UNCHANGED <<line, edits>>
-----------------------------------------------------------------------------
(*                       Reviews and cancellations                         *)

\* updateQrOrderItem, cancelQrOrderItem and rejectQrOrder, to their reads.
ReadReview(c, l) ==
    /\ c \in Reviewers /\ line[l] = "pending" /\ edits < MaxEdits
    /\ Work(c, [Resting EXCEPT !.at = "review", !.line = l, !.edits = edits])
    /\ UNCHANGED <<line, edits, ticket>>

\* Nothing is canceled by an edit, and everything by a rejection.
Reviewed(l) == {{}, {l}, Unsent}

\* Only items that are still pending are canceled; the version is written
\* back plus one.
WriteReview(c) ==
    /\ cook[c].at = "review" /\ OrderFree
    /\ \E canceled \in Reviewed(cook[c].line) :
          line' = [l \in Lines |-> IF l \in canceled \cap Unsent THEN "canceled" ELSE line[l]]
    /\ edits' = cook[c].edits + 1
    /\ Finish(c)
    /\ UNCHANGED ticket

\* applyItemCancellation of an approved request (one that needs no approval
\* does the same with the order locked from the start).
ReadCancel(c, l) ==
    /\ c \in Reviewers /\ line[l] \in {"pending", "sent"} /\ edits < MaxEdits
    /\ Work(c, [Resting EXCEPT !.at = "cancel", !.line = l, !.edits = edits,
                               !.lines = IF line[l] = "sent" THEN {l} ELSE {}])
    /\ UNCHANGED <<line, edits, ticket>>

\* The item and the order are written, and the tickets read.
ReadTickets(c) ==
    /\ cook[c].at = "cancel" /\ OrderFree
    /\ cook' = [cook EXCEPT ![c].at = "notify", ![c].seen = ticket]
    /\ UNCHANGED <<line, edits, ticket>>

\* Each ticket gets a notice, in the payload that was read; then all of it
\* is committed.
WriteCancel(c) ==
    LET call == cook[c] IN
    /\ call.at = "notify"
    /\ line' = [line EXCEPT ![call.line] = "canceled"]
    /\ edits' = call.edits + 1
    /\ ticket' = [k \in Tickets |->
                     IF call.seen[k] = NoTicket \/ call.lines = {} THEN ticket[k]
                     ELSE [ticket[k] EXCEPT !.shown = call.seen[k].shown,
                                            !.notices = call.seen[k].notices \cup call.lines]]
    /\ Finish(c)
-----------------------------------------------------------------------------
KitchenInit ==
    /\ line = [l \in Lines |-> "absent"]
    /\ edits = 1
    /\ ticket = [k \in Tickets |-> NoTicket]
    /\ cook = [c \in Cooks |-> Resting]

KitchenNext ==
    \/ \E c \in Cooks, l \in Lines : ReadAdd(c, l) \/ ReadReview(c, l) \/ ReadCancel(c, l)
    \/ \E l \in Lines : GuestAdds(l)
    \/ \E c \in Cooks, k \in Tickets : OpenTicket(c, k)
    \/ \E c \in Cooks : \/ WriteAdd(c) \/ ReadSend(c) \/ ReadPending(c) \/ WriteSend(c)
                         \/ WriteItem(c) \/ WriteTicket(c) \/ WriteReview(c)
                         \/ ReadTickets(c) \/ WriteCancel(c)

KitchenSpec == KitchenInit /\ [][KitchenNext]_kitchenVars
-----------------------------------------------------------------------------
(*                               Properties                                *)

KitchenTypeOK ==
    /\ line \in [Lines -> {"absent", "pending", "sent", "canceled"}]
    /\ edits \in 1..(MaxEdits + 1)
    /\ \A k \in Tickets : /\ ticket[k].status \in {"absent"} \cup ItemStatus
                          /\ DOMAIN ticket[k].shown \subseteq Lines
                          /\ \A l \in DOMAIN ticket[k].shown : ticket[k].shown[l] \in ItemStatus
                          /\ ticket[k].notices \subseteq Lines
    /\ \A c \in Cooks : cook[c].at \in {"idle", "add", "route", "send", "cook", "review", "cancel", "notify"}

\* Each item that was sent is on one ticket of every station that cooks it,
\* and an item that waits is on none: nothing is forgotten or cooked twice,
\* with items being added and sent by several calls at once.
TicketsMatch ==
    \A l \in Lines, s \in Stations :
        LET on == {b \in Batches : OnTicket(l, <<b, s>>)} IN
        /\ line[l] = "sent" => Cardinality(on) = (IF s \in Routes[l] THEN 1 ELSE 0)
        /\ line[l] \in {"absent", "pending"} => on = {}

\* An item that was shown as served is not shown as anything earlier again,
\* whatever two screens do to the same ticket.
ServedStays ==
    \A k \in Tickets : \A l \in DOMAIN ticket[k].shown :
        ticket[k].shown[l] = "served" => ticket'[k].shown[l] \in {"served", "refunded"}
=============================================================================
