---------------------------- MODULE Settlements ----------------------------
(***************************************************************************)
(* What each waiter of a shift is to settle, and the closing of the shift  *)
(* that waits for it (staff-finance.service.ts, and closeShift).           *)
(*                                                                         *)
(* A settlement is a revision of a party: a waiter, or the managerial      *)
(* bucket of what no waiter answers for.  It holds totals and the hash of  *)
(* the orders, payments and occurrences of the shift (the ledger); these   *)
(* are read by statements of their own.  Calculating and closing lock the  *)
(* row of the shift, the other calls that of a settlement.                 *)
(***************************************************************************)
EXTENDS Naturals, Sequences

CONSTANTS
    Parties,        \* waiters, and
    Bucket,         \* the managerial one
    Services,       \* service policies: whether waiters confirm, whom a sale is for
    ItemKinds,      \* items, by responsible and author; Bucket stands for nobody
    Keys,           \* idempotency keys of calculations
    Calls,          \* requests in flight
    MaxLedger,      \* bound: movements of the ledger
    MaxRevisions,   \* bound: revisions of a party
    None

VARIABLES
    turn,           \* the shift: "open", "closed"
    ledger,         \* how often an order, a payment or an occurrence of it changed
    sold,           \* the kinds of items on its orders
    assigned,       \* the waiters its tables were ever assigned to
    service,        \* the policy in force
    settlement,     \* per party, the revisions
    act             \* the requests in flight

shiftRows == <<turn, ledger, sold, assigned, service>>
settlementVars == <<shiftRows, settlement, act>>
-----------------------------------------------------------------------------
Off == [at |-> "idle", key |-> None, seen |-> 0, service |-> None, pool |-> {}, parties |-> {},
        party |-> None, revision |-> 0, to |-> None]

Waiters == Parties \ {Bucket}

Begin(c, call) == act[c] = Off /\ act' = [act EXCEPT ![c] = call]
Done(c) == act' = [act EXCEPT ![c] = Off]

Last(p) == settlement[p][Len(settlement[p])]

\* Mutant: the row of the shift is read without locking it.
NoLock == TRUE

\* FOR UPDATE, in calculateShift and in findCurrentShiftForUpdate.
ShiftFree == \A c \in Calls : act[c].at \notin {"calculate", "close shift"}

RowFree(p, r) == \A c \in Calls : act[c].at = "settle" => act[c].party # p \/ act[c].revision # r

\* An order, a payment or an occurrence of the shift changes: a refund may
\* come after the shift has closed.  An item keeps whom it was entered for.
Movement ==
    /\ ledger < MaxLedger
    /\ ledger' = ledger + 1
    /\ sold' \in {sold} \cup {sold \cup {i} : i \in ItemKinds}
    /\ UNCHANGED <<turn, assigned, service, settlement, act>>

\* A table of the shift is assigned; the hash does not cover it.
Assign ==
    /\ \E w \in Waiters \ assigned : assigned' = assigned \cup {w}
    /\ UNCHANGED <<turn, ledger, sold, service, settlement, act>>

\* saveServices: what is settled already keeps its snapshot.
SavePolicy ==
    /\ service' \in Services
    /\ UNCHANGED <<turn, ledger, sold, assigned, settlement, act>>

\* calculateShift reads the orders and payments, unless the key was used.  The
\* assigned waiters are settled and whom the amounts give something: it may be
\* none of an item's (worth nothing) and others (a pool, cash, remainders).  A
\* pool is of the assigned, or of those among them the policy weighs.
ReadCalculation(c, k) ==
    /\ ShiftFree
    /\ \A p \in Parties, r \in 1..MaxRevisions : r <= Len(settlement[p]) => settlement[p][r].key # k
    /\ \E given \in SUBSET Parties, pool \in SUBSET assigned :
          /\ pool = {} => assigned = {}
          /\ Begin(c, [Off EXCEPT !.at = "calculate", !.key = k, !.seen = ledger, !.service = service,
                                  !.pool = pool, !.parties = given \cup assigned])
    /\ UNCHANGED <<shiftRows, settlement>>

\* It reads the hash after the totals are made.  A reopening that inserts the
\* same revision makes one of the two fail.
WriteCalculation(c) ==
    LET policy == act[c].service
        revision(p) == [status |-> IF policy.confirms /\ p # Bucket THEN "awaiting_confirmation" ELSE "checked",
                        key |-> act[c].key, totals |-> act[c].seen, hash |-> ledger,
                        service |-> policy, pool |-> act[c].pool]
    IN  /\ act[c].at = "calculate"
        /\ \A p \in act[c].parties : Len(settlement[p]) < MaxRevisions
        /\ settlement' = [p \in Parties |-> IF p \in act[c].parties
                                            THEN Append(settlement[p], revision(p)) ELSE settlement[p]]
        /\ Done(c)
        /\ UNCHANGED shiftRows

Fresh(row) == row.hash = ledger

\* transitionSettlement and transitionManagerialSettlement, of any revision:
\* confirm and check (to "checked"), close and reopen.
Permitted(p, row, to) ==
    CASE to = "confirmed" -> p # Bucket /\ row.status = "awaiting_confirmation" /\ Fresh(row)
      [] to = "checked" -> p # Bucket /\ row.status = "awaiting_confirmation" /\ ~row.service.confirms /\ Fresh(row)
      [] to = "closed" -> row.status = "checked" /\ Fresh(row)
      [] to = "reopened" -> row.status = "closed"

ReadTransition(c, p, r, to) ==
    /\ r <= Len(settlement[p]) /\ RowFree(p, r)
    /\ Permitted(p, settlement[p][r], to)
    /\ Begin(c, [Off EXCEPT !.at = "settle", !.party = p, !.revision = r, !.to = to])
    /\ UNCHANGED <<shiftRows, settlement>>

\* Reopening inserts a copy as the next revision, which only a new calculation
\* can follow: no transition is permitted from "reopened".
WriteTransition(c) ==
    LET p == act[c].party
        r == act[c].revision
        to == IF act[c].to = "confirmed" THEN "checked" ELSE act[c].to
        copy == [settlement[p][r] EXCEPT !.status = "reopened", !.key = None]
    IN  /\ act[c].at = "settle"
        /\ settlement' = IF to # "reopened" THEN [settlement EXCEPT ![p][r].status = to]
                         ELSE IF r = Len(settlement[p]) /\ r < MaxRevisions
                         THEN [settlement EXCEPT ![p] = Append(@, copy)]
                         ELSE settlement
        /\ Done(c)
        /\ UNCHANGED shiftRows

\* The attribution that a closing goes by is that of a waiter's revision with
\* the highest number; of equal ones the database gives any.
Highest == {p \in Waiters : /\ settlement[p] # <<>>
                           /\ \A q \in Waiters : Len(settlement[q]) <= Len(settlement[p])}
Ruling == IF Highest # {} THEN {Last(p).service.attribution : p \in Highest}
          ELSE IF settlement[Bucket] # <<>> THEN {Last(Bucket).service.attribution}
          ELSE {service.attribution}

\* Who must have settled: whom the items name, whatever became of them, or
\* the pools of every revision, else the assigned.
Participants(attribution) ==
    LET pools == UNION {{settlement[p][r].pool : r \in 1..Len(settlement[p])} : p \in Waiters}
        pooled == IF UNION pools # {} THEN UNION pools ELSE assigned
    IN  CASE attribution = "shift_pool" ->
                 IF pooled = {} \/ [responsible |-> Bucket, author |-> Bucket] \in sold
                 THEN pooled \cup {Bucket} ELSE pooled
          [] attribution = "item_author" -> {i.author : i \in sold}
          [] OTHER -> {i.responsible : i \in sold}

\* closeShift with assertCanCloseShift: there are participants, the newest
\* revision of each is closed, all of one hash, which is that of the ledger.
ReadClosing(c) ==
    /\ turn = "open" /\ ShiftFree
    /\ \E attribution \in Ruling : LET parties == Participants(attribution) IN
          /\ parties # {}
          /\ \A p \in parties : settlement[p] # <<>> /\ Last(p).status = "closed" /\ Fresh(Last(p))
          /\ Begin(c, [Off EXCEPT !.at = "close shift", !.parties = parties])
    /\ UNCHANGED <<shiftRows, settlement>>

WriteClosing(c) ==
    /\ act[c].at = "close shift"
    /\ turn' = "closed"
    /\ Done(c)
    /\ UNCHANGED <<ledger, sold, assigned, service, settlement>>

\* An open drawer, cash a waiter has not handed over, jobs to print or documents
\* to authorise refuse a closing; any transaction may fail.
Fail(c) ==
    /\ act[c].at # "idle"
    /\ Done(c)
    /\ UNCHANGED <<shiftRows, settlement>>
-----------------------------------------------------------------------------
Init ==
    /\ turn = "open" /\ ledger = 0 /\ service \in Services
    /\ sold = {} /\ assigned = {}
    /\ settlement = [p \in Parties |-> <<>>]
    /\ act = [c \in Calls |-> Off]

Next ==
    \/ Movement \/ Assign \/ SavePolicy
    \/ \E c \in Calls :
          \/ \E k \in Keys : ReadCalculation(c, k)
          \/ \E p \in Parties, r \in 1..MaxRevisions, to \in {"confirmed", "checked", "closed", "reopened"} :
                ReadTransition(c, p, r, to)
          \/ WriteCalculation(c) \/ WriteTransition(c) \/ ReadClosing(c) \/ WriteClosing(c) \/ Fail(c)

Spec == Init /\ [][Next]_settlementVars
-----------------------------------------------------------------------------
(*                               Properties                                *)

Statuses == {"awaiting_confirmation", "checked", "closed", "reopened"}

TypeOK ==
    /\ turn \in {"open", "closed"} /\ ledger \in 0..MaxLedger
    /\ sold \subseteq ItemKinds /\ assigned \subseteq Waiters /\ service \in Services
    /\ \A p \in Parties : /\ Len(settlement[p]) <= MaxRevisions
                          /\ \A r \in 1..Len(settlement[p]) : settlement[p][r].status \in Statuses
    /\ \A c \in Calls : act[c].at \in {"idle", "calculate", "settle", "close shift"}

\* The newest revision that a calculation made.
Newest(p) ==
    LET made == {r \in 1..Len(settlement[p]) : settlement[p][r].key # None}
    IN  settlement[p][CHOOSE r \in made : \A s \in made : s <= r]

\* A shift closes on one ledger: the newest calculated revision of everyone who
\* had to settle is closed and of the same hash, even when others calculate or
\* reopen at that moment.
ClosesOnNewest ==
    (turn = "open" /\ turn' = "closed") =>
        \E c \in Calls : /\ act[c].at = "close shift"
                         /\ \A p, q \in act[c].parties : /\ Newest(p).status = "closed"
                                                         /\ Newest(p).hash = Newest(q).hash

\* The totals of a settlement are of the ledger its hash names, by which it is
\* later taken to be up to date.
TotalsAreOfHash ==
    \A p \in Parties : \A r \in 1..Len(settlement[p]) : settlement[p][r].totals = settlement[p][r].hash
=============================================================================
