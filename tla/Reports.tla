------------------------------ MODULE Reports ------------------------------
(***************************************************************************)
(* The sum that the reports, the cash sessions and the reconciliation take *)
(* of rows of payments (common/payment-ledger.ts), over every short        *)
(* history of charges and refunds.                                         *)
(***************************************************************************)
EXTENDS Integers, Sequences, FiniteSetsExt

CONSTANTS
    Orders,         \* orders
    Price,          \* the items of an order: their prices
    MaxPayments     \* bound on the rows of payments

VARIABLES
    order,          \* rows of orders
    payment         \* rows of payments, in the order of their insertion

reportVars == <<order, payment>>
-----------------------------------------------------------------------------
Sum(S, f(_)) == MapThenSumSet(f, S)

Live(o) == DOMAIN Price[o] \ order[o].canceled
Total(o) == Sum(Live(o), LAMBDA i : Price[o][i])

\* paymentLedgerDeltaSql.  A charge of which something was refunded is no
\* longer confirmed; its refunds are rows of their own.
Delta(p) ==
    CASE payment[p].type = "refund" -> 0 - payment[p].amount
      [] payment[p].type = "charge" /\ payment[p].status = "confirmed" -> payment[p].amount
      [] OTHER -> 0

\* netPaymentSumSql
Net(S) == Sum(S, Delta)

Paid(o) == Net({p \in DOMAIN payment : payment[p].order = o /\ payment[p].status = "confirmed"})
-----------------------------------------------------------------------------
OpenOrder(o) ==
    /\ order[o].status = "absent"
    /\ order' = [order EXCEPT ![o].status = "opened"]
    /\ UNCHANGED payment

\* applyItemCancellation, before anything is paid.
CancelItem(o, i) ==
    /\ order[o].status = "opened" /\ i \in Live(o)
    /\ order' = [order EXCEPT ![o].canceled = @ \cup {i}]
    /\ UNCHANGED payment

RegisterPayment(o, amount) ==
    /\ Len(payment) < MaxPayments
    /\ order[o].status \in {"opened", "partially_paid"} /\ Paid(o) + amount <= Total(o)
    /\ payment' = Append(payment, [order |-> o, type |-> "charge", status |-> "confirmed", amount |-> amount, of |-> 0])
    /\ order' = [order EXCEPT ![o].status = IF Paid(o) + amount = Total(o) THEN "paid" ELSE "partially_paid"]

\* refundPayment: a charge is refunded once, and the order keeps its status.
RefundPayment(p, amount) ==
    /\ Len(payment) < MaxPayments
    /\ payment[p].type = "charge" /\ payment[p].status = "confirmed" /\ amount <= payment[p].amount
    /\ payment' = Append([payment EXCEPT ![p].status = IF amount = payment[p].amount THEN "refunded" ELSE "partially_refunded"],
                         [payment[p] EXCEPT !.type = "refund", !.status = "refunded", !.amount = amount, !.of = p])
    /\ UNCHANGED order
-----------------------------------------------------------------------------
Amounts == UNION {{Price[o][i] : i \in DOMAIN Price[o]} : o \in Orders}

Init ==
    /\ order = [o \in Orders |-> [status |-> "absent", canceled |-> {}]]
    /\ payment = <<>>

Next ==
    \/ \E o \in Orders :
          \/ OpenOrder(o)
          \/ \E i \in DOMAIN Price[o] : CancelItem(o, i)
          \/ \E a \in Amounts : RegisterPayment(o, a)
    \/ \E p \in DOMAIN payment, a \in Amounts : RefundPayment(p, a)

Spec == Init /\ [][Next]_reportVars
-----------------------------------------------------------------------------
(*                               Properties                                *)

\* The rows have their shape: a refund is of a charge before it.
TypeOK ==
    /\ order \in [Orders -> [status : {"absent", "opened", "partially_paid", "paid"},
                        canceled : SUBSET UNION {DOMAIN Price[o] : o \in Orders}]]
    /\ Len(payment) <= MaxPayments
    /\ \A p \in DOMAIN payment :
          payment[p] \in [order : Orders, type : {"charge", "refund"}, amount : Amounts, of : 0..(p - 1),
                          status : {"confirmed", "refunded", "partially_refunded"}]

\* Disagrees with the code: a refund compensates its charge, so that all
\* payments add up to what was charged and not given back.
RefundsCompensate ==
    LET given(type) == Sum({p \in DOMAIN payment : payment[p].type = type}, LAMBDA p : payment[p].amount)
    IN  Net(DOMAIN payment) = given("charge") - given("refund")
=============================================================================
