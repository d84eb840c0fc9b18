----------------------------- MODULE Approvals -----------------------------
(***************************************************************************)
(* Requests that need a manager (approvals.service.ts and its repository)  *)
(* and what pos.service.ts applies for them: a canceled item that was      *)
(* already in the kitchen, or a discount.                                  *)
(*                                                                         *)
(* approve is a row of separate statements: read, decide, apply, mark.     *)
(* Each is a step, and several managers work at once.  The application is  *)
(* a transaction that reads first and then takes the row it writes.        *)
(***************************************************************************)
EXTENDS Naturals

CONSTANTS
    Managers,   \* calls of approve and reject in flight
    Cancels,    \* requests to cancel the item
    Discounts,  \* requests for a discount, by their amount
    ItemTotal,  \* what the item is worth
    Rest,       \* what the rest of the order is worth
    None

VARIABLES
    approval,   \* the approval_requests rows
    item,       \* the item the cancellations are about
    discount,   \* the order's discount
    manager     \* the calls in flight

approvalVars == <<approval, item, discount, manager>>
-----------------------------------------------------------------------------
Requests == Cancels \cup Discounts

Free == [at |-> "idle", request |-> None, discount |-> 0]

Goto(c, at) == manager' = [manager EXCEPT ![c].at = at]

Subtotal == IF item.status = "canceled" THEN Rest ELSE Rest + ItemTotal

\* requestItemCancellation and requestDiscount, when the policy asks for an
\* approval: under the locks of the order and the item.
Request(r) ==
    /\ approval[r].status = "absent"
    /\ r \in Cancels => item.status # "canceled"
    /\ r \in Discounts => r <= Subtotal
    /\ approval' = [approval EXCEPT ![r].status = "pending"]
    /\ UNCHANGED <<item, discount, manager>>

\* findApproval, the checks and the PIN, in approve and in reject.
Find(c, r) ==
    /\ manager[c].at = "idle" /\ approval[r].status = "pending"
    /\ \E decision \in {"approve", "reject"} :
           manager' = [manager EXCEPT ![c] = [Free EXCEPT !.at = decision, !.request = r]]
    /\ UNCHANGED <<approval, item, discount>>

Decided(r, status) ==
    approval' = IF approval[r].status = "pending" THEN [approval EXCEPT ![r].status = status] ELSE approval

\* decideApproval changes a pending row only, and returns the row in any case.
Approve(c) ==
    /\ manager[c].at = "approve"
    /\ Decided(manager[c].request, "approved")
    /\ Goto(c, "apply")
    /\ UNCHANGED <<item, discount>>

Reject(c) ==
    /\ manager[c].at = "reject"
    /\ Decided(manager[c].request, "rejected")
    /\ manager' = [manager EXCEPT ![c] = Free]
    /\ UNCHANGED <<item, discount>>

\* applyApproval up to its first write.  What is in effect already is not
\* done again; a discount above the subtotal is an error, and the approval
\* stays approved without having been applied.
ReadTarget(c) ==
    LET r == manager[c].request
        done == IF r \in Cancels THEN item.status = "canceled" ELSE discount = r
    IN  /\ manager[c].at = "apply"
        /\ \/ r \in Discounts /\ r > Subtotal /\ manager' = [manager EXCEPT ![c] = Free]
           \/ (r \in Discounts => r <= Subtotal)
              /\ manager' = [manager EXCEPT ![c] = [@ EXCEPT !.at = IF done THEN "mark" ELSE "write",
                                                             !.discount = discount]]
        /\ UNCHANGED <<approval, item, discount>>

\* Mutant: the stock goes back with every cancellation.
ReversedEachTime == FALSE

Reversed == item.returned > 0

\* Mutant: what does not fit is kept, instead of what fits.
Leftover(a, b) == IF a < b THEN a ELSE a - b

Least(a, b) == IF a < b THEN a ELSE b

\* applyItemCancellation from the update of the item on: that update waits
\* for any other, and what follows it sees what the other committed.
CancelItem(seenDiscount) ==
    /\ item' = [status |-> "canceled",
                returned |-> IF Reversed THEN item.returned ELSE item.returned + 1]
    /\ discount' = Least(seenDiscount, Rest)

WriteTarget(c) ==
    LET r == manager[c].request IN
    /\ manager[c].at = "write"
    /\ \/ r \in Cancels /\ CancelItem(manager[c].discount)
       \/ r \in Discounts /\ discount' = r /\ UNCHANGED item
    /\ Goto(c, "mark")
    /\ UNCHANGED approval

\* markApplied.
MarkApplied(c) ==
    /\ manager[c].at = "mark"
    /\ approval' = [approval EXCEPT ![manager[c].request].applied = TRUE]
    /\ manager' = [manager EXCEPT ![c] = Free]
    /\ UNCHANGED <<item, discount>>

\* The call ends between two statements: an error, or the server dies.
Abandon(c) ==
    /\ manager[c].at # "idle"
    /\ manager' = [manager EXCEPT ![c] = Free]
    /\ UNCHANGED <<approval, item, discount>>

\* The same changes without an approval, under the locks of the request.
CancelNow ==
    /\ item.status # "canceled"
    /\ CancelItem(discount)
    /\ UNCHANGED <<approval, manager>>

DiscountNow(r) ==
    /\ r <= Subtotal
    /\ discount' = r
    /\ UNCHANGED <<approval, item, manager>>
-----------------------------------------------------------------------------
Init ==
    /\ approval = [r \in Requests |-> [status |-> "absent", applied |-> FALSE]]
    /\ item = [status |-> "sold", returned |-> 0]
    /\ discount = 0
    /\ manager = [c \in Managers |-> Free]

Next ==
    \/ \E r \in Requests : Request(r)
    \/ \E c \in Managers, r \in Requests : Find(c, r)
    \/ \E c \in Managers : \/ Approve(c) \/ Reject(c) \/ ReadTarget(c) \/ WriteTarget(c)
                           \/ MarkApplied(c) \/ Abandon(c)
    \/ CancelNow
    \/ \E r \in Discounts : DiscountNow(r)

Spec == Init /\ [][Next]_approvalVars
-----------------------------------------------------------------------------
(*                               Properties                                *)

TypeOK ==
    /\ approval \in [Requests -> [status : {"absent", "pending", "approved", "rejected"}, applied : BOOLEAN]]
    /\ item \in [status : {"sold", "canceled"}, returned : Nat]
    /\ discount \in Discounts \cup {0, Rest}
    /\ manager \in [Managers -> [at : {"idle", "approve", "reject", "apply", "write", "mark"},
                                 request : Requests \cup {None}, discount : Discounts \cup {0, Rest}]]

\* The stock of a canceled item goes back once, however many requests to
\* cancel it are approved, by how many managers, or applied without one.
StockReturnedOnce == item.returned = (IF item.status = "canceled" THEN 1 ELSE 0)
=============================================================================
