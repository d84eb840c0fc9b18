----------------------------- MODULE Allocations -----------------------------
(***************************************************************************)
(* Payments of one order that name the items they are for (registerPayment *)
(* of payments.service.ts, with validatePaymentAllocations).               *)
(*                                                                         *)
(* A charge holds the advisory lock of its order from what it reads to its *)
(* commit, and is rolled back unless the order has the version it read.    *)
(* Items are added and canceled without that lock; both move the version.  *)
(***************************************************************************)
EXTENDS Integers, FiniteSetsExt

CONSTANTS
    Items,
    Price,          \* of each item
    Payments,       \* idempotency keys of charges
    Parts,          \* what of its amount a charge may give to an item
    Calls,          \* requests in flight
    None

VARIABLES
    item,           \* "absent", "open" or "canceled"
    version,        \* of the order
    paid,           \* per payment: what it gives to each item
    charging        \* the requests in flight

allocationVars == <<item, version, paid, charging>>
-----------------------------------------------------------------------------
Allocations == [Items -> Parts \cup {0}]

Resting == [payment |-> None, allocation |-> None, seen |-> 0]

SumOf(allocation) == MapThenSumSet(LAMBDA i : allocation[i], Items)

Registered == {n \in Payments : paid[n] # None}

\* previouslyAllocated
Allocated(i) == MapThenSumSet(LAMBDA n : paid[n][i], Registered)

Total == MapThenSumSet(LAMBDA i : Price[i], {i \in Items : item[i] = "open"})

Outstanding == Total - MapThenSumSet(LAMBDA n : SumOf(paid[n]), Registered)

\* pg_advisory_xact_lock
OrderUnlocked == \A c \in Calls : charging[c] = Resting
-----------------------------------------------------------------------------
\* validatePaymentAllocations: items that are there, and what is left of each.
Valid(allocation) ==
    \A i \in Items : allocation[i] > 0 => item[i] = "open" /\ Allocated(i) + allocation[i] <= Price[i]

\* A key that was used returns its payment, or is refused.
ReadCharge(c, n, allocation) ==
    /\ OrderUnlocked /\ paid[n] = None
    /\ Valid(allocation) /\ SumOf(allocation) \in 1..Outstanding
    /\ charging' = [charging EXCEPT ![c] = [payment |-> n, allocation |-> allocation, seen |-> version]]
    /\ UNCHANGED <<item, version, paid>>

\* Mutant: the update of the order names its id only.
AnyVersion(seen) == TRUE

SameVersion(seen) == version = seen

WriteCharge(c) ==
    LET call == charging[c]
    IN  /\ call # Resting
        /\ IF SameVersion(call.seen)
           THEN /\ paid' = [paid EXCEPT ![call.payment] = call.allocation]
                /\ version' = call.seen + 1
           ELSE UNCHANGED <<paid, version>>
        /\ charging' = [charging EXCEPT ![c] = Resting]
        /\ UNCHANGED item

\* addOrderItem, and requestItemCancellation where no approval is asked for.
AddItem(i) ==
    /\ item[i] = "absent"
    /\ item' = [item EXCEPT ![i] = "open"]
    /\ version' = version + 1
    /\ UNCHANGED <<paid, charging>>

CancelItem(i) ==
    /\ item[i] = "open"
    /\ item' = [item EXCEPT ![i] = "canceled"]
    /\ version' = version + 1
    /\ UNCHANGED <<paid, charging>>
-----------------------------------------------------------------------------
Init ==
    /\ item = [i \in Items |-> "absent"]
    /\ version = 1
    /\ paid = [n \in Payments |-> None]
    /\ charging = [c \in Calls |-> Resting]

Next ==
    \/ \E c \in Calls : \/ \E n \in Payments, allocation \in Allocations : ReadCharge(c, n, allocation)
                        \/ WriteCharge(c)
    \/ \E i \in Items : AddItem(i) \/ CancelItem(i)

Spec == Init /\ [][Next]_allocationVars
-----------------------------------------------------------------------------
(*                               Properties                                *)

TypeOK ==
    /\ item \in [Items -> {"absent", "open", "canceled"}]
    /\ version \in Nat \ {0}
    /\ paid \in [Payments -> Allocations \cup {None}]

\* However a bill is divided, and by however many desks, no item is paid for
\* more than once.
ItemsNotOverpaid == \A i \in Items : Allocated(i) <= Price[i]

\* A payment is registered for items that are still on the bill, and of no
\* more than the bill is then.
OnOpenItems ==
    \A n \in Payments \ Registered : paid'[n] # None =>
        /\ \A i \in Items : paid'[n][i] > 0 => item'[i] = "open"
        /\ SumOf(paid'[n]) <= Outstanding
=============================================================================
