---------------------------- MODULE Commissions ----------------------------
(***************************************************************************)
(* The partnership of one member (staff-finance.service.ts): revisions of  *)
(* a policy, what was accrued per policy and period, and the records of    *)
(* what was paid of it.  Every transaction locks the row it starts from    *)
(* and writes when it commits; what it inserts is not seen before.         *)
(***************************************************************************)
EXTENDS Integers, Sequences, FiniteSets, FiniteSetsExt

CONSTANTS
    Policies,       \* revisions of one policy, from 1
    Periods,
    Records,        \* payments that can be informed
    Amounts,        \* calculated amounts, and amounts paid
    Calls,          \* requests in flight
    MaxRevisions,   \* bound: accruals of a policy and period
    None

VARIABLES
    policy,         \* "absent", "draft", "active", "superseded"
    accrual,        \* per policy and period, the revisions
    record,         \* the payments: of which accrual, how much, reversed
    doing           \* the requests in flight

commissionVars == <<policy, accrual, record, doing>>
-----------------------------------------------------------------------------
Off == [at |-> "idle", policy |-> None, period |-> None, accrual |-> None,
        record |-> None, amount |-> 0, paid |-> 0]
NoRecord == [accrual |-> None, amount |-> 0, reversed |-> FALSE]

Begin(c, call) == doing[c] = Off /\ doing' = [doing EXCEPT ![c] = call]
Done(c) == doing' = [doing EXCEPT ![c] = Off]

\* An accrual is named by its policy, its period and its revision.
Row(a) == accrual[a[1]][a[2]][a[3]]
Accruals == {a \in Policies \X Periods \X (1..MaxRevisions) : a[3] <= Len(accrual[a[1]][a[2]])}

PaymentsOf(a) == {n \in Records : record[n].accrual = a /\ ~record[n].reversed}

\* sumRecordPayments: a reversal is a record of its own, of minus the amount.
Paid(a) == MapThenSumSet(LAMBDA n : record[n].amount, PaymentsOf(a))

\* FOR UPDATE.
PolicyFree(p) == \A c \in Calls : doing[c].policy # p

\* Mutant: the accrual is read without FOR UPDATE.
NoLock(a) == TRUE

AccrualFree(a) == \A c \in Calls : doing[c].accrual # a

Active == {p \in Policies : policy[p] = "active"}

\* createCommissionPolicy: the next revision, numbered under the advisory
\* lock of the policy's name.
CreatePolicy(p) ==
    /\ policy[p] = "absent" /\ \A q \in Policies : q < p => policy[q] # "absent"
    /\ policy' = [policy EXCEPT ![p] = "draft"]
    /\ UNCHANGED <<accrual, record, doing>>

\* activateCommissionPolicy: the active one gives way; one that is being
\* accrued is waited for.
ReadActivation(c, p) ==
    /\ PolicyFree(p) /\ policy[p] = "draft"
    /\ \A d \in Calls : doing[d].at # "activate"
    /\ Begin(c, [Off EXCEPT !.at = "activate", !.policy = p])
    /\ UNCHANGED <<policy, accrual, record>>

WriteActivation(c) ==
    LET p == doing[c].policy
    IN  /\ doing[c].at = "activate"
        /\ \A q \in Active : PolicyFree(q)
        /\ policy' = [q \in Policies |-> IF q = p THEN "active" ELSE IF q \in Active THEN "superseded" ELSE policy[q]]
        /\ Done(c)
        /\ UNCHANGED <<accrual, record>>

\* Over and done with: its period can be accrued again.
Void(row) == row.status \in {"rejected", "reversed"}

\* calculateCommissionAccrual of an active policy: the newest accrual of the
\* period, which is not locked, is void.
ReadAccrual(c, p, t, amount) ==
    LET rows == accrual[p][t]
    IN  /\ PolicyFree(p) /\ policy[p] = "active"
        /\ rows # <<>> => Void(rows[Len(rows)])
        /\ Len(rows) < MaxRevisions
        /\ Begin(c, [Off EXCEPT !.at = "accrue", !.policy = p, !.period = t, !.amount = amount])
        /\ UNCHANGED <<policy, accrual, record>>

WriteAccrual(c) ==
    LET row == [status |-> "calculated", calculated |-> doing[c].amount, approved |-> 0, paid |-> 0]
    IN  /\ doing[c].at = "accrue"
        /\ accrual' = [accrual EXCEPT ![doing[c].policy][doing[c].period] = Append(@, row)]
        /\ Done(c)
        /\ UNCHANGED <<policy, record>>

\* updateAccrual: an approval may be of less than was calculated.
ReadDecision(c, a, at, approved) ==
    /\ AccrualFree(a) /\ Row(a).status = "calculated"
    /\ approved <= (IF at = "approve" THEN Row(a).calculated ELSE 0)
    /\ Begin(c, [Off EXCEPT !.at = at, !.accrual = a, !.amount = approved])
    /\ UNCHANGED <<policy, accrual, record>>

Change(c, row) ==
    LET a == doing[c].accrual
    IN  accrual' = [accrual EXCEPT ![a[1]][a[2]][a[3]] = row]

WriteDecision(c) ==
    LET row == Row(doing[c].accrual)
    IN  /\ doing[c].at \in {"approve", "reject"}
        /\ Change(c, [row EXCEPT !.status = IF doing[c].at = "approve" THEN "approved" ELSE "rejected",
                                  !.approved = doing[c].amount])
        /\ Done(c)
        /\ UNCHANGED <<policy, record>>

\* recordCommissionPayment; a key that was used returns its record.
ReadPayment(c, n, a, amount) ==
    /\ record[n] = NoRecord /\ \A d \in Calls : doing[d].record # n
    /\ AccrualFree(a) /\ Row(a).status \in {"approved", "partially_paid"}
    /\ Paid(a) + amount <= Row(a).approved
    /\ Begin(c, [Off EXCEPT !.at = "pay", !.accrual = a, !.record = n, !.amount = amount, !.paid = Paid(a) + amount])
    /\ UNCHANGED <<policy, accrual, record>>

WritePayment(c) ==
    LET a == doing[c].accrual
        next == doing[c].paid
    IN  /\ doing[c].at = "pay"
        /\ record' = [record EXCEPT ![doing[c].record] =
                         [accrual |-> a, amount |-> doing[c].amount, reversed |-> FALSE]]
        /\ Change(c, [Row(a) EXCEPT !.paid = next,
                                    !.status = IF next = Row(a).approved THEN "paid" ELSE "partially_paid"])
        /\ Done(c)
        /\ UNCHANGED policy

\* reverseCommissionPayment locks the record, then the accrual, and sums the
\* records when its own is inserted.
ReadReversal(c, n) ==
    /\ record[n] # NoRecord /\ ~record[n].reversed
    /\ \A d \in Calls : doing[d].record # n
    /\ AccrualFree(record[n].accrual)
    /\ Begin(c, [Off EXCEPT !.at = "reverse", !.accrual = record[n].accrual, !.record = n])
    /\ UNCHANGED <<policy, accrual, record>>

WriteReversal(c) ==
    LET a == doing[c].accrual
        n == doing[c].record
        left == Paid(a) - record[n].amount
    IN  /\ doing[c].at = "reverse"
        /\ record' = [record EXCEPT ![n].reversed = TRUE]
        /\ Change(c, [Row(a) EXCEPT !.paid = left, !.status = IF left = 0 THEN "reversed" ELSE "partially_paid"])
        /\ Done(c)
        /\ UNCHANGED policy

\* A transaction fails.
Fail(c) ==
    /\ doing[c].at # "idle"
    /\ Done(c)
    /\ UNCHANGED <<policy, accrual, record>>
-----------------------------------------------------------------------------
Init ==
    /\ policy = [p \in Policies |-> IF p = 1 THEN "draft" ELSE "absent"]
    /\ accrual = [p \in Policies |-> [t \in Periods |-> <<>>]]
    /\ record = [n \in Records |-> NoRecord]
    /\ doing = [c \in Calls |-> Off]

CallNext ==
    \E c \in Calls :
        \/ \E p \in Policies : ReadActivation(c, p) \/ \E t \in Periods, v \in Amounts : ReadAccrual(c, p, t, v)
        \/ \E a \in Accruals :
              \/ \E at \in {"approve", "reject"}, v \in {0} \cup Amounts : ReadDecision(c, a, at, v)
              \/ \E n \in Records, v \in Amounts : ReadPayment(c, n, a, v)
        \/ \E n \in Records : ReadReversal(c, n)
        \/ WriteActivation(c) \/ WriteAccrual(c) \/ WriteDecision(c)
        \/ WritePayment(c) \/ WriteReversal(c) \/ Fail(c)

Next == CallNext \/ \E p \in Policies : CreatePolicy(p)

Spec == Init /\ [][Next]_commissionVars
-----------------------------------------------------------------------------
(*                               Properties                                *)

TypeOK ==
    /\ policy \in [Policies -> {"absent", "draft", "active", "superseded"}] /\ Cardinality(Active) <= 1
    /\ \A a \in Accruals :
          Row(a).status \in {"calculated", "approved", "rejected", "partially_paid", "paid", "reversed"}
    /\ \A n \in Records : record[n].accrual \in Accruals \cup {None}
    /\ \A c \in Calls : doing[c].at \in {"idle", "activate", "accrue", "approve", "reject", "pay", "reverse"}

\* What an accrual says was paid is the sum of its records and not more than
\* was approved, and of all that was accrued for a period, again after each
\* rejection or full reversal, only the newest has money paid.
PeriodPaidOnce ==
    \A a \in Accruals :
        /\ Paid(a) = Row(a).paid /\ Paid(a) <= Row(a).approved
        /\ Paid(a) > 0 => a[3] = Len(accrual[a[1]][a[2]])
=============================================================================
