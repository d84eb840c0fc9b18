---------------------------- MODULE OrderLedger ----------------------------
(***************************************************************************)
(* Orders and the payments charged to them: PaymentsService, and the       *)
(* operations of OrdersService and PosService that write an order row.     *)
(*                                                                         *)
(* An element of Calls is one HTTP request being served.  A handler's      *)
(* database transaction is two steps: a READ, in which it runs its         *)
(* queries, checks and takes its advisory locks, and a COMMIT, in which    *)
(* its version checks are evaluated and its writes become visible          *)
(* (PostgreSQL, READ COMMITTED).  Between the two, other calls run.  A     *)
(* handler that holds the order row FOR UPDATE from its first read is one  *)
(* step.                                                                   *)
(*                                                                         *)
(* A payment row is identified by its idempotency key, an item row by      *)
(* its own: both columns carry a unique index.  paid[o] and live[o] are    *)
(* the sums the code recomputes from the rows of order o.                  *)
(***************************************************************************)
EXTENDS Integers, FiniteSetsExt

CONSTANTS
    Orders,          \* order ids
    Items,           \* order item idempotency keys
    Price,           \* [Items -> Nat], the frozen price of an item
    OnOrder,         \* [Items -> Orders \cup {None}], items already served
    Opening,         \* [Orders -> Nat], the amount of the items already served
    Keys,            \* payment idempotency keys
    Calls,           \* API calls
    Crashes,         \* the calls whose server process may die
    Requests,        \* what a call may ask for
    InitiateResults, \* answers of executor.initiate
    QueryResults,    \* answers of executor.query
    None

Ops == {"register", "intent", "query", "cancel", "refund", "addItem",
        "discount", "cancelItem", "close", "writeOff"}

OrderStatuses == {"served", "partially_paid", "paid", "written_off"}

PaymentStatuses == {"absent", "pending", "unknown", "confirmed", "failed",
                    "canceled", "refunded", "partially_refunded"}

ExecutorResults == {"confirmed", "failed", "unknown", "canceled", "not_configured"}

\* approved: the order edit is the decision of an approval, which runs it
\* without the row lock; override: managerOverride with a reason;
\* target: the charge a refund compensates.
RequestType == [op : Ops, order : Orders, key : Keys, target : Keys, item : Items,
                amount : Nat, approved : BOOLEAN, override : BOOLEAN]

ASSUME PriceAssumption == Price \in [Items -> Nat]
ASSUME OnOrderAssumption == OnOrder \in [Items -> Orders \cup {None}]
ASSUME OpeningAssumption ==
    /\ Opening \in [Orders -> Nat]
    /\ \A o \in Orders : Opening[o] = MapThenSumSet(LAMBDA i : Price[i], {i \in Items : OnOrder[i] = o})
ASSUME FiniteAssumption == IsFiniteSet(Keys) /\ IsFiniteSet(Items)
ASSUME RequestAssumption == Requests \subseteq RequestType
ASSUME NoneAssumption == None \notin Orders \cup Keys \cup Calls \cup Items
ASSUME ResultAssumption == /\ InitiateResults \subseteq ExecutorResults
                           /\ QueryResults \subseteq ExecutorResults
ASSUME CrashAssumption == Crashes \subseteq Calls

VARIABLES
    orders,       \* the order rows
    sold,         \* how often closeOrder deducted the stock of each order
    items,        \* the order item rows
    live,         \* the sum of the live items of each order
    payments,     \* the payment rows
    paid,         \* the net confirmed charges of each order
    advisory,     \* the advisory lock of each order
    refundLock,   \* the advisory lock of the refunds of each payment
    pc, req, snap, outcome   \* the calls

rows  == <<orders, sold, items, live, payments, paid>>
locks == <<advisory, refundLock>>
ctl   == <<pc, req, snap, outcome>>
ledgerVars == <<rows, locks, ctl>>
-----------------------------------------------------------------------------
Max0(n) == IF n > 0 THEN n ELSE 0
\* Mutant: the first argument whatever the second.
LeastUnclamped(m, n) == m

Least(m, n) == IF m < n THEN m ELSE n

AbsentPayment == [type |-> "charge", order |-> None, mode |-> "manual", status |-> "absent",
                  amount |-> 0, refunded |-> 0, original |-> None, version |-> 0]

ChargeRow(r, mode, status) ==
    [type |-> "charge", order |-> r.order, mode |-> mode, status |-> status,
     amount |-> r.amount, refunded |-> 0, original |-> None, version |-> 1]

AbsentItem == [order |-> None, state |-> "absent"]

\* What one payment row contributes: a confirmed charge less its refunds.
\* A charge that is refunded in part is no longer "confirmed".
NetCharge(p) == IF p.type = "charge" /\ p.status = "confirmed"
                THEN Max0(p.amount - p.refunded) ELSE 0

\* The refund rows that name charge k, and what payment-ledger.ts makes of
\* the rows of an order: each confirmed charge less its refund rows.
RefundsOf(rowset, k) ==
    MapThenSumSet(LAMBDA j : rowset[j].amount,
                  {j \in Keys : rowset[j].type = "refund" /\ rowset[j].original = k})

NetChargeAllocations(rowset, o) ==
    MapThenSumSet(LAMBDA k : Max0(rowset[k].amount - RefundsOf(rowset, k)),
                  {k \in Keys : /\ rowset[k].order = o /\ rowset[k].type = "charge"
                                /\ rowset[k].status = "confirmed"})

LiveTotal(rowset, o) ==
    MapThenSumSet(LAMBDA i : Price[i],
                  {i \in Items : rowset[i] = [order |-> o, state |-> "live"]})

\* Mutant: a payment status where an order status belongs.
StatusConfirmed(n, total) == IF n >= total THEN "confirmed" ELSE "partially_paid"

\* The status an order takes when its net charges are n.
StatusWhenPaid(n, total) == IF n >= total THEN "paid" ELSE "partially_paid"

\* Mutant: no balance check.
AlwaysFits(n, total) == TRUE

Fits(n, total) == n <= total

\* Mutant: closedAt is not looked at.
PayableWhenClosed(o) == TRUE

Payable(o) == ~o.closed

\* Mutant: an order paid in part may be closed.
ReadyWhenPartlyPaid(o) == o.status \in {"paid", "partially_paid"}

ReadyToClose(o) == o.status = "paid"

\* Mutant: the advisory lock is not taken.
NoLock(lock, x) == TRUE

LockFree(lock, x) == lock[x] = None

UnknownCharge(o) == \E k \in Keys : payments[k].order = o /\ payments[k].status = "unknown"

\* assertIdempotentPaymentMatch
SamePayment(p, r, mode) == p.order = r.order /\ p.amount = r.amount /\ p.mode = mode

NoSnap == [version |-> 0, subtotal |-> 0, discount |-> 0, live |-> 0, status |-> "served",
           pversion |-> 0, result |-> "unknown"]

Snap(o, status) ==
    [version |-> orders[o].version, subtotal |-> orders[o].subtotal,
     discount |-> orders[o].discount, live |-> live[o], status |-> status,
     pversion |-> 0, result |-> "unknown"]

OrderSnap(o) == Snap(o, orders[o].status)

\* The call ends, its transaction (if any) rolled back or without effect.
Reply(c, r, answer) ==
    /\ pc' = [pc EXCEPT ![c] = "done"]
    /\ req' = [req EXCEPT ![c] = r]
    /\ outcome' = [outcome EXCEPT ![c] = answer]
    /\ UNCHANGED snap

\* The transaction has read s and will try to commit.
Proceed(c, r, s) ==
    /\ pc' = [pc EXCEPT ![c] = "commit"]
    /\ req' = [req EXCEPT ![c] = r]
    /\ snap' = [snap EXCEPT ![c] = s]
    /\ UNCHANGED outcome

Finish(c, answer) == Reply(c, req[c], answer)

Unlocked(lock, c) == [x \in DOMAIN lock |-> IF lock[x] = c THEN None ELSE lock[x]]

\* Mutant: session-level locks, which a rolled back transaction keeps.
ReleaseOnCommit(c) == /\ advisory' = IF outcome'[c] \in {"conflict", "crashed"} THEN advisory
                                     ELSE Unlocked(advisory, c)
                      /\ refundLock' = Unlocked(refundLock, c)

Release(c) == /\ advisory' = Unlocked(advisory, c)
              /\ refundLock' = Unlocked(refundLock, c)

Begins(c, r, op) == pc[c] = "idle" /\ r \in Requests /\ r.op = op
Commits(c, op) == pc[c] = "commit" /\ req[c].op = op

\* Mutant: the version of the order row is not checked.
Unversioned(c) == TRUE

Current(c) == orders[req[c].order].version = snap[c].version

PutPayment(k, p) ==
    /\ payments' = [payments EXCEPT ![k] = p]
    /\ paid' = [o \in Orders |->
                 IF p.order = o THEN paid[o] - NetCharge(payments[k]) + NetCharge(p)
                                ELSE paid[o]]

\* Mutant: the version of the order row is not raised.
SetStatusOnly(o, status) == orders' = [orders EXCEPT ![o].status = status]

SetStatus(o, status) ==
    LET row == orders[o]
    IN  orders' = [orders EXCEPT ![o] = [row EXCEPT !.status = status, !.version = row.version + 1]]
-----------------------------------------------------------------------------
(* registerPayment: a manual charge, serialized with the other charges of  *)
(* its order by the order's advisory lock.                                 *)
RegisterRead(c) == \E r \in Requests :
    LET o == orders[r.order]
        due == paid[r.order] + r.amount
        replayed == payments[r.key].status # "absent"
        accepted == /\ Payable(o)
                    /\ UnknownCharge(r.order) => r.override
                    /\ Fits(due, o.total)
    IN  /\ Begins(c, r, "register")
        /\ LockFree(advisory, r.order)
        /\ \/ /\ replayed
              /\ Reply(c, r, IF SamePayment(payments[r.key], r, "manual")
                             THEN "replayed" ELSE "conflict")
              /\ UNCHANGED advisory
           \/ /\ ~replayed /\ ~accepted
              /\ Reply(c, r, "refused")
              /\ UNCHANGED advisory
           \/ /\ ~replayed /\ accepted
              /\ Proceed(c, r, Snap(r.order, StatusWhenPaid(due, o.total)))
              /\ advisory' = [advisory EXCEPT ![r.order] = c]
        /\ UNCHANGED <<rows, refundLock>>

\* The insert meets a row another order's call committed under the same key,
\* or the order row has changed since it was read: the transaction aborts.
RegisterCommit(c) ==
    LET r == req[c] IN
    /\ Commits(c, "register")
    /\ \/ /\ payments[r.key].status # "absent" \/ ~Current(c)
          /\ Finish(c, "conflict")
          /\ UNCHANGED <<orders, payments, paid>>
       \/ /\ payments[r.key].status = "absent" /\ Current(c)
          /\ PutPayment(r.key, ChargeRow(r, "manual", "confirmed"))
          /\ SetStatus(r.order, snap[c].status)
          /\ Finish(c, "done")
    /\ Release(c)
    /\ UNCHANGED <<sold, items, live>>
-----------------------------------------------------------------------------
(* createPaymentIntent: a charge on a terminal.  The intent is committed   *)
(* as pending, the terminal is asked outside any transaction, and its      *)
(* answer is recorded by updatePaymentResult.  A repeated key finds the    *)
(* intent and asks the terminal again.                                     *)
AwaitTerminal(c, r) ==
    /\ pc' = [pc EXCEPT ![c] = "terminal"]
    /\ req' = [req EXCEPT ![c] = r]
    /\ UNCHANGED <<snap, outcome>>

IntentRead(c) == \E r \in Requests :
    LET o == orders[r.order]
        replayed == payments[r.key].status # "absent"
        accepted == /\ Payable(o)
                    /\ ~UnknownCharge(r.order)
                    /\ Fits(paid[r.order] + r.amount, o.total)
    IN  /\ Begins(c, r, "intent")
        /\ LockFree(advisory, r.order)
        /\ \/ /\ replayed /\ SamePayment(payments[r.key], r, "terminal")
              /\ AwaitTerminal(c, r)
              /\ UNCHANGED advisory
           \/ /\ replayed /\ ~SamePayment(payments[r.key], r, "terminal")
              /\ Reply(c, r, "conflict")
              /\ UNCHANGED advisory
           \/ /\ ~replayed /\ ~accepted
              /\ Reply(c, r, "refused")
              /\ UNCHANGED advisory
           \/ /\ ~replayed /\ accepted
              /\ Proceed(c, r, NoSnap)
              /\ advisory' = [advisory EXCEPT ![r.order] = c]
        /\ UNCHANGED <<rows, refundLock>>

IntentCommit(c) ==
    LET r == req[c] IN
    /\ Commits(c, "intent")
    /\ \/ /\ payments[r.key].status # "absent"
          /\ Finish(c, "conflict")
          /\ UNCHANGED <<payments, paid>>
       \/ /\ payments[r.key].status = "absent"
          /\ PutPayment(r.key, ChargeRow(r, "terminal", "pending"))
          /\ AwaitTerminal(c, r)
    /\ Release(c)
    /\ UNCHANGED <<orders, sold, items, live>>

\* queryPayment and cancelPayment look at the status before they ask the
\* terminal, in no transaction; a charge already settled needs no answer.
QueryRead(c) == \E r \in Requests :
    /\ Begins(c, r, "query")
    /\ IF payments[r.key].status \in {"pending", "unknown"}
       THEN AwaitTerminal(c, r)
       ELSE Reply(c, r, "refused")
    /\ UNCHANGED <<rows, locks>>

CancelRead(c) == \E r \in Requests :
    /\ Begins(c, r, "cancel")
    /\ IF payments[r.key].status \in {"pending", "unknown"}
       THEN AwaitTerminal(c, r)
       ELSE Reply(c, r, "refused")
    /\ UNCHANGED <<rows, locks>>

\* The executor answers.  A cancellation is recorded as canceled whatever
\* the executor says; where no provider is configured it fails.
TerminalAnswers(c) ==
    /\ pc[c] = "terminal"
    /\ \/ /\ \E result \in CASE req[c].op = "intent" -> InitiateResults
                             [] req[c].op = "query" -> QueryResults
                             [] OTHER -> {"canceled"} :
                 snap' = [snap EXCEPT ![c] = [snap[c] EXCEPT !.result =
                              IF result = "not_configured" THEN "failed" ELSE result]]
          /\ pc' = [pc EXCEPT ![c] = "answered"]
          /\ UNCHANGED <<req, outcome>>
       \/ /\ req[c].op = "cancel" /\ "not_configured" \in QueryResults
          /\ Finish(c, "refused")
    /\ UNCHANGED <<rows, locks>>
-----------------------------------------------------------------------------
(* updatePaymentResult takes no lock.  Its update of the payment is        *)
(* version-checked; its update of the order is too, but nobody looks       *)
(* whether it matched a row, and the order may have been closed.           *)
ResultRead(c) ==
    LET p == payments[req[c].key]
        o == p.order
        due == paid[o] - NetCharge(p) + NetCharge([p EXCEPT !.status = "confirmed"])
        s == [snap[c] EXCEPT !.pversion = p.version, !.version = orders[o].version,
                             !.status = StatusWhenPaid(due, orders[o].total)]
    IN  /\ pc[c] = "answered"
        /\ \/ /\ p.status \in {"confirmed", "canceled"}
              /\ Finish(c, "replayed")
           \/ /\ p.status \notin {"confirmed", "canceled"}
              /\ snap[c].result = "confirmed" /\ ~Fits(due, orders[o].total)
              /\ Finish(c, "conflict")
           \/ /\ p.status \notin {"confirmed", "canceled"}
              /\ snap[c].result = "confirmed" => Fits(due, orders[o].total)
              /\ pc' = [pc EXCEPT ![c] = "record"]
              /\ snap' = [snap EXCEPT ![c] = s]
              /\ UNCHANGED <<req, outcome>>
        /\ UNCHANGED <<rows, locks>>

ResultCommit(c) ==
    LET k == req[c].key
        p == payments[k]
        s == snap[c]
    IN  /\ pc[c] = "record"
        /\ \/ /\ p.version # s.pversion
              /\ Finish(c, "conflict")
              /\ UNCHANGED <<orders, payments, paid>>
           \/ /\ p.version = s.pversion
              /\ PutPayment(k, [p EXCEPT !.status = s.result, !.version = s.pversion + 1])
              /\ IF s.result = "confirmed" /\ orders[p.order].version = s.version
                 THEN SetStatus(p.order, s.status)
                 ELSE UNCHANGED orders
              /\ Finish(c, "done")
        /\ UNCHANGED <<sold, items, live, locks>>
-----------------------------------------------------------------------------
(* refundPayment: serialized per charge by an advisory lock of its own.    *)
(* The charge must be "confirmed" even when the refund is a repeat.        *)
RefundRead(c) == \E r \in Requests :
    LET p == payments[r.target]
        e == payments[r.key]
        refundable == p.type = "charge" /\ p.status = "confirmed"
        fits == r.amount > 0 /\ p.refunded + r.amount <= p.amount
    IN  /\ Begins(c, r, "refund")
        /\ LockFree(refundLock, r.target)
        /\ \/ /\ ~refundable
              /\ Reply(c, r, "refused")
              /\ UNCHANGED refundLock
           \/ /\ refundable /\ e.status # "absent"
              /\ Reply(c, r, IF e.type = "refund" /\ e.original = r.target /\ e.amount = r.amount
                             THEN "replayed" ELSE "conflict")
              /\ UNCHANGED refundLock
           \/ /\ refundable /\ e.status = "absent" /\ ~fits
              /\ Reply(c, r, "refused")
              /\ UNCHANGED refundLock
           \/ /\ refundable /\ e.status = "absent" /\ fits
              /\ Proceed(c, r, [snap[c] EXCEPT !.pversion = p.version,
                       !.result = IF p.refunded + r.amount = p.amount
                                  THEN "refunded" ELSE "partially_refunded"])
              /\ refundLock' = [refundLock EXCEPT ![r.target] = c]
        /\ UNCHANGED <<rows, advisory>>

RefundRow(p, r) ==
    [type |-> "refund", order |-> p.order, mode |-> p.mode, status |-> "refunded",
     amount |-> r.amount, refunded |-> 0, original |-> r.target, version |-> 1]

\* Nobody looks whether the version-checked update of the charge matched.
Refunded(p, s, amount) ==
    IF p.version = s.pversion
    THEN [p EXCEPT !.status = s.result, !.version = p.version + 1,
                   !.refunded = p.refunded + amount]
    ELSE [p EXCEPT !.refunded = p.refunded + amount]

\* The refund row and the charge's new status.  The order keeps its status.
RefundCommit(c) ==
    LET r == req[c]
        p == payments[r.target]
        charge == Refunded(p, snap[c], r.amount)
    IN  /\ Commits(c, "refund")
        /\ \/ /\ payments[r.key].status # "absent"
              /\ Finish(c, "conflict")
              /\ UNCHANGED <<payments, paid>>
           \/ /\ payments[r.key].status = "absent"
              /\ payments' = [payments EXCEPT ![r.target] = charge, ![r.key] = RefundRow(p, r)]
              /\ paid' = [o \in Orders |-> IF p.order = o
                              THEN paid[o] - NetCharge(p) + NetCharge(charge) ELSE paid[o]]
              /\ Finish(c, "done")
        /\ Release(c)
        /\ UNCHANGED <<orders, sold, items, live>>
-----------------------------------------------------------------------------
(* addItem: no lock; the version check of the order is its only guard.     *)
(* Neither the status nor closedAt of the order is looked at.              *)
AddItemRead(c) == \E r \in Requests :
    /\ Begins(c, r, "addItem")
    /\ \/ /\ items[r.item].state # "absent"
          /\ Reply(c, r, IF items[r.item].order = r.order THEN "replayed" ELSE "conflict")
       \/ /\ items[r.item].state = "absent"
          /\ Proceed(c, r, OrderSnap(r.order))
    /\ UNCHANGED <<rows, locks>>

\* A row inserted meanwhile under the same key is answered as a replay.
AddItemCommit(c) ==
    LET r == req[c]
        s == snap[c]
        row == orders[r.order]
        subtotal == s.subtotal + Price[r.item]
    IN  /\ Commits(c, "addItem")
        /\ \/ /\ items[r.item].state # "absent"
              /\ Finish(c, "replayed")
              /\ UNCHANGED <<orders, items, live>>
           \/ /\ items[r.item].state = "absent" /\ ~Current(c)
              /\ Finish(c, "conflict")
              /\ UNCHANGED <<orders, items, live>>
           \/ /\ items[r.item].state = "absent" /\ Current(c)
              /\ items' = [items EXCEPT ![r.item] = [order |-> r.order, state |-> "live"]]
              /\ live' = [live EXCEPT ![r.order] = @ + Price[r.item]]
              /\ orders' = [orders EXCEPT ![r.order] = [row EXCEPT !.subtotal = subtotal,
                                !.total = subtotal - s.discount, !.version = row.version + 1]]
              /\ Finish(c, "done")
        /\ UNCHANGED <<sold, payments, paid, locks>>
-----------------------------------------------------------------------------
(* applyDiscount and applyItemCancellation write absolute amounts computed *)
(* from the order row they read, by order id alone.  Run from              *)
(* requestDiscount or requestItemCancellation the row is held FOR UPDATE;  *)
(* run from an approval (r.approved) nothing holds it.                     *)
WriteDiscount(o, s, amount) ==
    orders' = [orders EXCEPT ![o] = [orders[o] EXCEPT !.discount = amount,
                  !.total = Max0(s.subtotal - amount), !.version = s.version + 1]]

DiscountNow(c) == \E r \in Requests :
    /\ Begins(c, r, "discount") /\ ~r.approved
    /\ \/ /\ r.amount \notin 1 .. orders[r.order].subtotal
          /\ Reply(c, r, "refused")
          /\ UNCHANGED orders
       \/ /\ r.amount \in 1 .. orders[r.order].subtotal
          /\ WriteDiscount(r.order, OrderSnap(r.order), r.amount)
          /\ Reply(c, r, "done")
    /\ UNCHANGED <<sold, items, live, payments, paid, locks>>

DiscountRead(c) == \E r \in Requests :
    /\ Begins(c, r, "discount") /\ r.approved
    /\ \/ /\ r.amount > orders[r.order].subtotal \/ r.amount = orders[r.order].discount
          /\ Reply(c, r, "refused")
       \/ /\ r.amount <= orders[r.order].subtotal /\ r.amount # orders[r.order].discount
          /\ Proceed(c, r, OrderSnap(r.order))
    /\ UNCHANGED <<rows, locks>>

DiscountCommit(c) ==
    /\ Commits(c, "discount")
    /\ WriteDiscount(req[c].order, snap[c], req[c].amount)
    /\ Finish(c, "done")
    /\ UNCHANGED <<sold, items, live, payments, paid, locks>>

\* s.live is the sum of the items before the cancellation.
WriteCancellation(o, i, s) ==
    LET left == s.live - Price[i]
        discount == Least(s.discount, left)
    IN  /\ items' = [items EXCEPT ![i].state = "canceled"]
        /\ live' = [live EXCEPT ![o] = @ - (IF items[i].state = "live" THEN Price[i] ELSE 0)]
        /\ orders' = [orders EXCEPT ![o] = [orders[o] EXCEPT !.subtotal = left, !.discount = discount,
                          !.total = Max0(left - discount), !.version = s.version + 1]]

Cancelable(r) == items[r.item] = [order |-> r.order, state |-> "live"]

CancelItemNow(c) == \E r \in Requests :
    /\ Begins(c, r, "cancelItem") /\ ~r.approved
    /\ \/ /\ ~Cancelable(r)
          /\ Reply(c, r, "refused")
          /\ UNCHANGED <<orders, items, live>>
       \/ /\ Cancelable(r)
          /\ WriteCancellation(r.order, r.item, OrderSnap(r.order))
          /\ Reply(c, r, "done")
    /\ UNCHANGED <<sold, payments, paid, locks>>

CancelItemRead(c) == \E r \in Requests :
    /\ Begins(c, r, "cancelItem") /\ r.approved
    /\ IF Cancelable(r) THEN Proceed(c, r, OrderSnap(r.order)) ELSE Reply(c, r, "refused")
    /\ UNCHANGED <<rows, locks>>

CancelItemCommit(c) ==
    /\ Commits(c, "cancelItem")
    /\ WriteCancellation(req[c].order, req[c].item, snap[c])
    /\ Finish(c, "done")
    /\ UNCHANGED <<sold, payments, paid, locks>>
-----------------------------------------------------------------------------
(* closeOrder claims the order row by its version and only then deducts    *)
(* the stock of its items; insufficient stock aborts the transaction.      *)
CloseRead(c) == \E r \in Requests :
    LET o == orders[r.order] IN
    /\ Begins(c, r, "close")
    /\ \/ /\ o.closed
          /\ Reply(c, r, "replayed")
       \/ /\ ~o.closed /\ ~ReadyToClose(o)
          /\ Reply(c, r, "refused")
       \/ /\ ~o.closed /\ ReadyToClose(o)
          /\ Proceed(c, r, OrderSnap(r.order))
    /\ UNCHANGED <<rows, locks>>

CloseCommit(c) ==
    LET o == req[c].order
        row == orders[o]
    IN
    /\ Commits(c, "close")
    /\ \/ /\ ~Current(c)
          /\ Finish(c, "conflict")
          /\ UNCHANGED <<orders, sold>>
       \/ /\ Current(c)
          /\ orders' = [orders EXCEPT ![o] = [row EXCEPT !.status = "paid", !.closed = TRUE,
                                                          !.version = row.version + 1]]
          /\ sold' = [sold EXCEPT ![o] = @ + 1]
          /\ Finish(c, "done")
       \/ /\ Current(c)               \* insufficient stock
          /\ Finish(c, "refused")
          /\ UNCHANGED <<orders, sold>>
    /\ UNCHANGED <<items, live, payments, paid, locks>>

\* writeOffOrder: for an order nothing has been paid on.
WriteOffRead(c) == \E r \in Requests :
    LET o == orders[r.order]
        open == /\ ~o.closed /\ o.status \notin {"paid", "written_off"}
                /\ \A k \in Keys : payments[k].order = r.order => payments[k].status # "confirmed"
    IN  /\ Begins(c, r, "writeOff")
        /\ IF open THEN Proceed(c, r, OrderSnap(r.order)) ELSE Reply(c, r, "refused")
        /\ UNCHANGED <<rows, locks>>

WriteOffCommit(c) ==
    LET o == req[c].order
        row == orders[o]
    IN
    /\ Commits(c, "writeOff")
    /\ \/ /\ ~Current(c)
          /\ Finish(c, "conflict")
          /\ UNCHANGED orders
       \/ /\ Current(c)
          /\ orders' = [orders EXCEPT ![o] = [row EXCEPT !.status = "written_off", !.closed = TRUE,
                                                          !.version = row.version + 1]]
          /\ Finish(c, "done")
    /\ UNCHANGED <<sold, items, live, payments, paid, locks>>
-----------------------------------------------------------------------------
\* The process serving c dies: its transaction is rolled back and its locks
\* go with the connection.  A committed intent stays as it is.
Crash(c) ==
    /\ c \in Crashes /\ pc[c] \notin {"idle", "done"}
    /\ Finish(c, "crashed")
    /\ Release(c)
    /\ UNCHANGED rows

Init ==
    /\ items = [i \in Items |-> IF OnOrder[i] = None THEN AbsentItem
                                ELSE [order |-> OnOrder[i], state |-> "live"]]
    /\ live = Opening
    /\ orders = [o \in Orders |-> [status |-> "served", subtotal |-> Opening[o], discount |-> 0,
                                   total |-> Opening[o], version |-> 1, closed |-> FALSE]]
    /\ sold = [o \in Orders |-> 0]
    /\ payments = [k \in Keys |-> AbsentPayment]
    /\ paid = [o \in Orders |-> 0]
    /\ advisory = [o \in Orders |-> None]
    /\ refundLock = [k \in Keys |-> None]
    /\ pc = [c \in Calls |-> "idle"]
    /\ req = [c \in Calls |-> None]
    /\ snap = [c \in Calls |-> NoSnap]
    /\ outcome = [c \in Calls |-> "none"]

Payment(c) == RegisterRead(c) \/ RegisterCommit(c) \/ RefundRead(c) \/ RefundCommit(c)

Terminal(c) == \/ IntentRead(c) \/ IntentCommit(c) \/ QueryRead(c) \/ CancelRead(c)
               \/ TerminalAnswers(c) \/ ResultRead(c) \/ ResultCommit(c)

Edit(c) == \/ AddItemRead(c) \/ AddItemCommit(c)
           \/ DiscountNow(c) \/ DiscountRead(c) \/ DiscountCommit(c)
           \/ CancelItemNow(c) \/ CancelItemRead(c) \/ CancelItemCommit(c)

Closing(c) == CloseRead(c) \/ CloseCommit(c) \/ WriteOffRead(c) \/ WriteOffCommit(c)

Serve(c) == Payment(c) \/ Terminal(c) \/ Edit(c) \/ Closing(c)

\* Every call has been answered; nothing else is an expected end.
AllServed == (\A c \in Calls : pc[c] = "done") /\ UNCHANGED ledgerVars

Next == (\E c \in Calls : Serve(c) \/ Crash(c)) \/ AllServed

Spec == Init /\ [][Next]_ledgerVars

\* The event loop runs every request it has received to its end.
FairSpec == Spec /\ \A c \in Calls : WF_ledgerVars(Serve(c))
-----------------------------------------------------------------------------
(*                               Properties                                *)

OrderRow == [status : OrderStatuses, subtotal : Int, discount : Int, total : Int,
             version : Int, closed : BOOLEAN]

PaymentRow == [type : {"charge", "refund"}, order : Orders \cup {None},
               mode : {"manual", "terminal"}, status : PaymentStatuses, amount : Nat,
               refunded : Nat, original : Keys \cup {None}, version : Int]

SnapType == [version : Int, subtotal : Int, discount : Int, live : Int,
             status : OrderStatuses, pversion : Int,
             result : PaymentStatuses \ {"absent"}]

RowsType ==
    /\ orders \in [Orders -> OrderRow]
    /\ sold \in [Orders -> Nat]
    /\ items \in [Items -> [order : Orders \cup {None}, state : {"absent", "live", "canceled"}]]
    /\ live \in [Orders -> Int]
    /\ payments \in [Keys -> PaymentRow]
    /\ paid \in [Orders -> Int]

LocksType ==
    /\ advisory \in [Orders -> Calls \cup {None}]
    /\ refundLock \in [Keys -> Calls \cup {None}]

Answers == {"done", "replayed", "refused", "conflict", "crashed"}

CallsType ==
    /\ pc \in [Calls -> {"idle", "commit", "terminal", "answered", "record", "done"}]
    /\ req \in [Calls -> Requests \cup {None}]
    /\ snap \in [Calls -> SnapType]
    /\ outcome \in [Calls -> Answers \cup {"none"}]

\* Every row and every call's private state keeps its shape.
TypeOK == RowsType /\ LocksType /\ CallsType

\* The sums of the model follow the rows; the code keeps none of them and
\* recomputes each from the rows.
LedgerAgrees ==
    /\ \A o \in Orders : /\ paid[o] = NetChargeAllocations(payments, o)
                         /\ live[o] = LiveTotal(items, o)
    /\ \A k \in Keys : payments[k].type = "charge" =>
           payments[k].refunded = RefundsOf(payments, k)

\* The refunds of a charge never exceed it, for calls of refundPayment that
\* race each other and the terminal's answers.
NoOverRefund == \A k \in Keys : payments[k].refunded <= payments[k].amount

\* What was charged by hand on an order and not refunded.
PaidByHand(rowset, o) ==
    MapThenSumSet(LAMBDA k : NetCharge(rowset[k]),
                  {k \in Keys : rowset[k].order = o /\ rowset[k].mode = "manual"})

\* A manual charge is confirmed only if what was charged by hand then fits
\* the order's total, as both stand when the charge takes effect: charges
\* that race each other, edits of the order and refunds.  What a terminal
\* confirms meanwhile is not counted, since that may exceed the total.
ChargesFit ==
    [][\A k \in Keys :
           /\ payments[k].status # "confirmed" /\ payments'[k].status = "confirmed"
           /\ payments'[k].mode = "manual"
           => LET o == payments'[k].order
              IN  PaidByHand(payments', o) <= orders'[o].total]_ledgerVars

\* The amounts of an order row are those of its items: no edit is lost to a
\* concurrent one.
TotalsAgree == \A o \in Orders :
    /\ orders[o].subtotal = live[o]
    /\ orders[o].total = orders[o].subtotal - orders[o].discount

\* The stock of an order leaves at most once, and only with its closing.
SoldOnce == \A o \in Orders : sold[o] <= 1 /\ (sold[o] = 1 => orders[o].closed)

\* A step in which a terminal's answer confirms a charge of o.
TerminalConfirms(o) ==
    \E k \in Keys : /\ payments'[k] # payments[k] /\ payments'[k].status = "confirmed"
                    /\ payments'[k].mode = "terminal" /\ payments'[k].order = o

\* A closed order stays closed, and keeps the status it was closed in unless
\* a terminal's late answer gives it another.
ClosedIsFinal ==
    [][\A o \in Orders : orders[o].closed =>
           /\ orders'[o].closed
           /\ orders'[o].status = orders[o].status \/ TerminalConfirms(o)]_ledgerVars

\* Calls that charge an order or end it: none takes money back, and none
\* changes what is due.
ChargingOps == {"register", "intent", "query", "cancel", "close", "writeOff"}

OnlyCharged == \A c \in Calls : pc[c] # "idle" => req[c].op \in ChargingOps

\* closeOrder closes an order only while what was paid on it covers it, however
\* charges by hand, terminals' answers and closings race.  (The code does not
\* look at the sum again, so it need not after a refund or an added item.)
ClosedWhenPaid ==
    [][OnlyCharged' =>
           \A o \in Orders :
               ~orders[o].closed /\ orders'[o].closed /\ orders'[o].status = "paid" =>
                   paid[o] >= orders[o].total]_ledgerVars

\* An order row is only replaced by one with a higher version, so a version
\* names one state of the order.
VersionNamesState ==
    [][\A o \in Orders : orders'[o] = orders[o] \/ orders'[o].version > orders[o].version]_ledgerVars

\* An order written off carries no charge taken by hand: a write-off races
\* charges and refunds of its order.
WrittenOffIsUnpaid ==
    \A o \in Orders : orders[o].status = "written_off" => PaidByHand(payments, o) = 0

\* Every call is answered, and no lock of an order or a charge outlives the
\* call that took it, not even when its server dies: the next call that needs
\* the lock gets it.
EveryCallEnds ==
    /\ \A c \in Calls : <>(pc[c] = "done")
    /\ \A o \in Orders : advisory[o] # None ~> advisory[o] = None
    /\ \A k \in Keys : refundLock[k] # None ~> refundLock[k] = None
=============================================================================
