---------------------------- MODULE Occurrences ----------------------------
(***************************************************************************)
(* Consumption that was not paid (staff-finance.service.ts): reported on   *)
(* an open order, decided by a manager, and recovered in parts through the *)
(* cash drawer.  Deciding and recovering lock the occurrence, reversing a  *)
(* recovery locks both; the drawer is locked from its reading on.          *)
(***************************************************************************)
EXTENDS Integers, FiniteSets, FiniteSetsExt

CONSTANTS
    Occurrences,
    Orders,
    Types,
    Owed,           \* what every order owes before it is paid in part
    Recoveries,     \* recoveries that can be recorded
    Amounts,
    Calls,          \* requests in flight
    None

VARIABLES
    bill,           \* the orders: status, and what is not paid of them
    loss,           \* the occurrences
    recovery,       \* the recoveries
    till,           \* whether a cash session is open, and what the recoveries put in it
    task            \* the requests in flight

occurrenceVars == <<bill, loss, recovery, till, task>>
-----------------------------------------------------------------------------
Off == [at |-> "idle", loss |-> None, order |-> None, type |-> None, recovery |-> None,
        amount |-> 0, cash |-> FALSE]
NoLoss == [status |-> "absent", order |-> None, type |-> None, decision |-> None, unpaid |-> 0]
NoRecovery == [loss |-> None, amount |-> 0, cash |-> FALSE, reversed |-> FALSE]

Begin(c, call) == task[c] = Off /\ task' = [task EXCEPT ![c] = call]
Done(c) == task' = [task EXCEPT ![c] = Off]

Undecided(o) == loss[o].status \in {"under_review", "approved"}

\* FOR UPDATE; a report inserts its row when it commits.
LossFree(o) == \A c \in Calls : task[c].loss # o

TillFree == \A c \in Calls : ~task[c].cash

\* A guest pays for a part or for all, and the cash session opens and closes
\* (OrderLedger and CashDrawer).
PayBill(b, v) ==
    /\ bill[b].status = "open" /\ v <= bill[b].owed
    /\ bill' = [bill EXCEPT ![b].owed = @ - v, ![b].status = IF v = bill[b].owed THEN "paid" ELSE "open"]
    /\ UNCHANGED <<loss, recovery, till, task>>

ToggleTill ==
    /\ TillFree
    /\ till' = [till EXCEPT !.open = ~@]
    /\ UNCHANGED <<bill, loss, recovery, task>>

\* createOccurrence reads the order without a lock.
ReadReport(c, o, b, type) ==
    /\ loss[o] = NoLoss /\ LossFree(o) /\ bill[b].status = "open"
    /\ Begin(c, [Off EXCEPT !.at = "report", !.loss = o, !.order = b, !.type = type, !.amount = bill[b].owed])
    /\ UNCHANGED <<bill, loss, recovery, till>>

\* One undecided occurrence per order and type.
WriteReport(c) ==
    LET row == [status |-> "under_review", order |-> task[c].order, type |-> task[c].type,
                decision |-> None, unpaid |-> task[c].amount]
    IN  /\ task[c].at = "report"
        /\ loss' = IF \E o \in Occurrences : Undecided(o) /\ loss[o].order = row.order /\ loss[o].type = row.type
                   THEN loss ELSE [loss EXCEPT ![task[c].loss] = row]
        /\ Done(c)
        /\ UNCHANGED <<bill, recovery, till>>

\* transitionOccurrence.
ReadDecision(c, o, decision) ==
    /\ LossFree(o) /\ loss[o].status = "under_review"
    /\ Begin(c, [Off EXCEPT !.at = decision, !.loss = o])
    /\ UNCHANGED <<bill, loss, recovery, till>>

\* A house loss locks the order and writes it off, unless it was paid or
\* written off meanwhile.
WriteDecision(c) ==
    LET o == task[c].loss
        b == loss[o].order
        decided == [loss EXCEPT ![o].decision = task[c].at,
                                ![o].status = IF task[c].at = "approved" THEN "approved" ELSE "closed"]
        lost == bill[b].status = "open" /\ loss[o].unpaid > 0
    IN  /\ task[c].at \in {"house_loss", "dismissed", "approved"}
        /\ IF task[c].at # "house_loss" THEN loss' = decided /\ UNCHANGED bill
           ELSE IF lost THEN loss' = decided /\ bill' = [bill EXCEPT ![b].status = "written_off"]
           ELSE UNCHANGED <<loss, bill>>
        /\ Done(c)
        /\ UNCHANGED <<recovery, till>>

Recovered(o) ==
    MapThenSumSet(LAMBDA n : recovery[n].amount,
                  {n \in Recoveries : recovery[n].loss = o /\ ~recovery[n].reversed})

\* recoverOccurrence: the sum under the lock, and then the open session, if
\* there is one.
ReadRecovery(c, n, o, v) ==
    /\ recovery[n] = NoRecovery /\ \A d \in Calls : task[d].recovery # n
    /\ LossFree(o) /\ loss[o].decision \in {"approved", "house_loss"}
    /\ Recovered(o) + v <= loss[o].unpaid
    /\ till.open => TillFree
    /\ Begin(c, [Off EXCEPT !.at = "recover", !.loss = o, !.recovery = n, !.amount = v, !.cash = till.open])
    /\ UNCHANGED <<bill, loss, recovery, till>>

WriteRecovery(c) ==
    LET row == [loss |-> task[c].loss, amount |-> task[c].amount, cash |-> task[c].cash, reversed |-> FALSE]
    IN  /\ task[c].at = "recover"
        /\ recovery' = [recovery EXCEPT ![task[c].recovery] = row]
        /\ till' = IF row.cash THEN [till EXCEPT !.recovered = @ + row.amount] ELSE till
        /\ Done(c)
        /\ UNCHANGED <<bill, loss>>

\* reverseRecovery: through the session that is open now.
ReadReversal(c, n) ==
    /\ recovery[n] # NoRecovery /\ ~recovery[n].reversed
    /\ LossFree(recovery[n].loss)
    /\ recovery[n].cash => till.open /\ TillFree
    /\ Begin(c, [Off EXCEPT !.at = "reverse", !.loss = recovery[n].loss, !.recovery = n, !.cash = recovery[n].cash])
    /\ UNCHANGED <<bill, loss, recovery, till>>

WriteReversal(c) ==
    LET n == task[c].recovery
    IN  /\ task[c].at = "reverse"
        /\ recovery' = [recovery EXCEPT ![n].reversed = TRUE]
        /\ till' = IF task[c].cash THEN [till EXCEPT !.recovered = @ - recovery[n].amount] ELSE till
        /\ Done(c)
        /\ UNCHANGED <<bill, loss>>

\* A transaction fails.
Fail(c) ==
    /\ task[c].at # "idle"
    /\ Done(c)
    /\ UNCHANGED <<bill, loss, recovery, till>>
-----------------------------------------------------------------------------
Init ==
    /\ bill = [b \in Orders |-> [status |-> "open", owed |-> Owed]]
    /\ loss = [o \in Occurrences |-> NoLoss]
    /\ recovery = [n \in Recoveries |-> NoRecovery]
    /\ till = [open |-> FALSE, recovered |-> 0]
    /\ task = [c \in Calls |-> Off]

Next ==
    \/ ToggleTill
    \/ \E b \in Orders, v \in Amounts : PayBill(b, v)
    \/ \E c \in Calls, o \in Occurrences :
          \/ \E b \in Orders, type \in Types : ReadReport(c, o, b, type)
          \/ \E decision \in {"house_loss", "dismissed", "approved"} : ReadDecision(c, o, decision)
          \/ \E n \in Recoveries, v \in Amounts : ReadRecovery(c, n, o, v)
    \/ \E c \in Calls, n \in Recoveries : ReadReversal(c, n)
    \/ \E c \in Calls : WriteReport(c) \/ WriteDecision(c) \/ WriteRecovery(c) \/ WriteReversal(c) \/ Fail(c)

Spec == Init /\ [][Next]_occurrenceVars
-----------------------------------------------------------------------------
(*                               Properties                                *)

TypeOK ==
    /\ \A b \in Orders : bill[b].status \in {"open", "paid", "written_off"} /\ bill[b].owed \in 0..Owed
    /\ \A o \in Occurrences : loss[o].status \in {"absent", "under_review", "approved", "closed"}
    /\ \A n \in Recoveries : recovery[n].loss \in Occurrences \cup {None}
    /\ till.open \in BOOLEAN /\ till.recovered \in Int
    /\ \A c \in Calls : task[c].at \in
          {"idle", "report", "house_loss", "dismissed", "approved", "recover", "reverse"}

\* What is recovered of a loss stays within it, the drawers hold what was
\* recovered through them, and an order is written off by one decision.
LossesFit ==
    /\ \A o \in Occurrences : Recovered(o) <= loss[o].unpaid
    /\ till.recovered = MapThenSumSet(LAMBDA n : recovery[n].amount,
                                      {n \in Recoveries : recovery[n].cash /\ ~recovery[n].reversed})
    /\ \A b \in Orders : Cardinality({o \in Occurrences : loss[o].order = b /\ loss[o].decision = "house_loss"}) <= 1
=============================================================================
