----------------------------- MODULE CashDrawer -----------------------------
(***************************************************************************)
(* The cash sessions of one branch: CashService opens, moves and closes    *)
(* them; PaymentsService changes the open one when a cashier takes cash    *)
(* and when a waiter hands cash over.                                      *)
(*                                                                         *)
(* closeCashSession and registerCashMovement lock the session's row; the   *)
(* two payment operations read the row without a lock and write back the   *)
(* amount they computed, whatever became of the row.  A transaction that   *)
(* reads without a lock, and the closing, are a read step and a commit     *)
(* step; the others are one step.                                          *)
(*                                                                         *)
(* An order stands for one cash charge of its full amount: OrderLedger     *)
(* models the rest of it.                                                  *)
(***************************************************************************)
EXTENDS Integers, FiniteSets, FiniteSetsExt

CONSTANTS
    Orders,
    Amount,       \* Amount[o]: the cash charge of order o
    Openings,     \* opening amounts
    Calls,        \* requests in flight
    MaxSessions,  \* bound: sessions of the branch
    MaxMoved,     \* bound: supplies less withdrawals of a session
    Strays,       \* whether a waiter may take cash while no session is open,
                  \* and cash may be refunded before it is handed over
    None

ASSUME OrdersAssumption == IsFiniteSet(Orders)
ASSUME AmountAssumption == Amount \in [Orders -> Nat \ {0}]
ASSUME OpeningsAssumption == Openings \subseteq Nat
ASSUME BoundsAssumption == MaxSessions \in Nat /\ MaxMoved \in Nat
ASSUME StraysAssumption == Strays \in BOOLEAN
ASSUME NoneAssumption == None \notin Orders

VARIABLES
    now,      \* the number of sessions opened so far
    session,  \* session[n] is the row of the n-th session
    order,    \* the orders and their cash charge
    call      \* the requests in flight

vars == <<now, session, order, call>>

\* openedAt is the session's number, confirmedAt the number of sessions
\* opened by then.
Sessions == 1 .. MaxSessions
NoSession == 0

AbsentSession == [status |-> "absent", opening |-> 0, moved |-> 0, expected |-> 0, counted |-> 0]
AbsentOrder == [status |-> "absent", handover |-> "none", confirmedAt |-> 0]
Idle == [op |-> "idle", order |-> None, via |-> "cashier", at |-> 0,
         session |-> NoSession, amount |-> 0, counted |-> 0]

IsOpen(n) == session[n].status = "open"

\* The row an unlocked select for an open session returns.
OpenSession == IF \E n \in Sessions : IsOpen(n) THEN CHOOSE n \in Sessions : IsOpen(n) ELSE NoSession

\* What the caller will write: the amount it has seen and its own.
Stale(n, amount) == IF n = NoSession THEN 0 ELSE session[n].expected + amount

\* closeCashSession holds the row from its read to its commit.
Locked(n) == \E x \in Calls : call[x].op = "close" /\ call[x].session = n

\* The order's advisory lock, and the lock of the payment's row.
Busy(o) == \E x \in Calls : call[x].order = o

CashOf(orders) == MapThenSumSet(LAMBDA o : Amount[o], orders)

\* Mutant: any cash of the branch, whenever it was confirmed.
InWindowAlways(o, n) == TRUE

\* findCashHandovers: confirmed since the session was opened.
InWindow(o, n) == order[o].confirmedAt >= n

\* paymentLedgerDeltaSql: a charge counts while nothing of it is refunded,
\* and a refund's own row has no handover.
Cash(n) == {o \in Orders : order[o].status = "confirmed" /\ InWindow(o, n)}

Sign(type) == IF type = "supply" THEN 1 ELSE -1

\* Mutant: the handovers are not looked at.
NoPendingUnchecked(n) == TRUE

NoPending(n) == \A o \in Cash(n) : order[o].handover # "pending"

\* Mutant: a status the closing must not give.
SettledAsReconciled(counted, expected) == IF counted = expected THEN "reconciled" ELSE "disputed"

SettledStatus(counted, expected) == IF counted = expected THEN "closed" ELSE "disputed"

NoOpenOrders == \A o \in Orders : order[o].status # "open"

Derived(n) ==
    session[n].opening + session[n].moved
        + CashOf({o \in Cash(n) : order[o].handover = "received"})

Answer(x) == call' = [call EXCEPT ![x] = Idle]
-----------------------------------------------------------------------------
\* The check for an open session is repeated by a unique index.
OpenCashSession ==
    /\ now < MaxSessions /\ OpenSession = NoSession
    /\ \E opening \in Openings :
           session' = [session EXCEPT ![now + 1] =
                          [AbsentSession EXCEPT !.status = "open", !.opening = opening, !.expected = opening]]
    /\ now' = now + 1
    /\ UNCHANGED <<order, call>>

\* Of one cent, locked from the read to the write; staff finance's recoveries
\* and their reversals are movements too.
RegisterCashMovement(type) ==
    LET n == OpenSession IN
    /\ n # NoSession /\ ~Locked(n)
    /\ session[n].moved + Sign(type) \in -MaxMoved .. MaxMoved
    /\ session' = [session EXCEPT ![n].moved = @ + Sign(type),
                                  ![n].expected = @ + Sign(type)]
    /\ UNCHANGED <<now, order, call>>

\* Opening an order and paying it takes longer than closing a session.
OpenOrder(o) ==
    /\ order[o].status = "absent"
    /\ \A x \in Calls : call[x].op # "close"
    /\ order' = [order EXCEPT ![o].status = "open"]
    /\ UNCHANGED <<now, session, call>>

\* The order is paid otherwise, canceled or written off.
SettleOtherwise(o) ==
    /\ order[o].status = "open" /\ ~Busy(o)
    /\ order' = [order EXCEPT ![o].status = "settled"]
    /\ UNCHANGED <<now, session, call>>

\* registerPayment, method cash.
RegisterRead(x, o, via) ==
    /\ call[x] = Idle /\ order[o].status = "open" /\ ~Busy(o)
    /\ Strays \/ OpenSession # NoSession
    /\ call' = [call EXCEPT ![x] = [Idle EXCEPT !.op = "register", !.order = o, !.via = via, !.at = now,
                                        !.session = OpenSession,
                                        !.amount = Stale(OpenSession, Amount[o])]]
    /\ UNCHANGED <<now, session, order>>

RegisterCommit(x) ==
    LET c == call[x]
        counts == c.via = "cashier" /\ c.session # NoSession
    IN  /\ c.op = "register"
        /\ counts => ~Locked(c.session)
        /\ order' = [order EXCEPT ![c.order] =
                        [status |-> "confirmed", confirmedAt |-> c.at,
                         handover |-> IF c.via = "cashier" THEN "received" ELSE "pending"]]
        /\ session' = IF counts THEN [session EXCEPT ![c.session].expected = c.amount] ELSE session
        /\ Answer(x)
        /\ UNCHANGED now

\* receiveCashHandover.  A second one waits for the first and then only
\* answers that the cash was received.
ReceiveRead(x, o) ==
    /\ call[x] = Idle /\ order[o].handover = "pending" /\ ~Busy(o)
    /\ call' = [call EXCEPT ![x] = [Idle EXCEPT !.op = "receive", !.order = o, !.session = OpenSession,
                                        !.amount = Stale(OpenSession, Amount[o])]]
    /\ UNCHANGED <<now, session, order>>

ReceiveCommit(x) ==
    LET c == call[x] IN
    /\ c.op = "receive"
    /\ c.session # NoSession => ~Locked(c.session)
    /\ order' = [order EXCEPT ![c.order].handover = "received"]
    /\ session' = IF c.session # NoSession THEN [session EXCEPT ![c.session].expected = c.amount] ELSE session
    /\ Answer(x)
    /\ UNCHANGED now

\* refundPayment changes no session.
Refund(o, status) ==
    /\ order[o].status = "confirmed" /\ ~Busy(o)
    /\ Strays \/ order[o].handover = "received"
    /\ order' = [order EXCEPT ![o].status = status]
    /\ UNCHANGED <<now, session, call>>

\* A repeated closing answers with the row it finds and changes nothing.
CloseRead(x, n) ==
    /\ call[x] = Idle /\ IsOpen(n) /\ ~Locked(n)
    /\ NoOpenOrders /\ NoPending(n)
    /\ \E counted \in {Derived(n), Derived(n) + 1} :
           call' = [call EXCEPT ![x] = [Idle EXCEPT !.op = "close", !.session = n,
                                            !.amount = Derived(n), !.counted = counted]]
    /\ UNCHANGED <<now, session, order>>

CloseCommit(x) ==
    LET c == call[x] IN
    /\ c.op = "close"
    /\ session' = [session EXCEPT ![c.session] =
                      [@ EXCEPT !.status = SettledStatus(c.counted, c.amount),
                                !.expected = c.amount, !.counted = c.counted]]
    /\ Answer(x)
    /\ UNCHANGED <<now, order>>

\* The transaction is rolled back: the order changed, or the server stopped.
RollBack(x) ==
    /\ call[x] # Idle
    /\ Answer(x)
    /\ UNCHANGED <<now, session, order>>

Init ==
    /\ now = 0
    /\ session = [n \in Sessions |-> AbsentSession]
    /\ order = [o \in Orders |-> AbsentOrder]
    /\ call = [x \in Calls |-> Idle]

Next ==
    \/ OpenCashSession
    \/ \E type \in {"supply", "withdrawal"} : RegisterCashMovement(type)
    \/ \E o \in Orders : \/ OpenOrder(o)
                         \/ SettleOtherwise(o)
                         \/ \E status \in {"refunded", "partially_refunded"} : Refund(o, status)
    \/ \E x \in Calls :
           \/ \E o \in Orders : \/ \E via \in {"cashier", "waiter"} : RegisterRead(x, o, via)
                                \/ ReceiveRead(x, o)
           \/ \E n \in Sessions : CloseRead(x, n)
           \/ RegisterCommit(x) \/ ReceiveCommit(x) \/ CloseCommit(x) \/ RollBack(x)

Spec == Init /\ [][Next]_vars
-----------------------------------------------------------------------------
(*                               Properties                                *)

OrderStatuses == {"absent", "open", "settled", "confirmed", "refunded", "partially_refunded"}

\* Rows and calls keep their shape.
TypeOK ==
    /\ now \in 0 .. MaxSessions
    /\ session \in [Sessions -> [status : {"absent", "open", "closed", "disputed"},
                                 opening : Openings \cup {0}, moved : -MaxMoved .. MaxMoved,
                                 expected : Int, counted : Int]]
    /\ order \in [Orders -> [status : OrderStatuses, handover : {"none", "pending", "received"},
                             confirmedAt : 0 .. MaxSessions]]
    /\ call \in [Calls -> [op : {"idle", "register", "receive", "close"}, order : Orders \cup {None},
                           via : {"cashier", "waiter"}, at : 0 .. MaxSessions,
                           session : Sessions \cup {NoSession}, amount : Int, counted : Int]]

Finished(n) == session[n].status \in {"closed", "disputed"}

\* What was counted and expected when a session was closed stays, whatever
\* payments and handovers were in flight when it closed: they write back what
\* they read without a lock, and only the checks of the closing keep them off.
ClosedIsFinal == [][\A n \in Sessions : Finished(n) => session'[n] = session[n]]_vars

Later(n) == {m \in Sessions : m > n /\ session[m].status # "absent"}

Received(n) ==
    {o \in Orders : /\ order[o].handover = "received" /\ order[o].confirmedAt >= n
                    /\ \A m \in Later(n) : order[o].confirmedAt < m}

\* A finished session expects its opening amount, every movement and the cash
\* of its own time once: no movement or handover is lost to a concurrent
\* closing, and none is counted by two sessions.  A charge refunded around the
\* closing may or may not count.
ClosedTally ==
    \A n \in Sessions : Finished(n) =>
        LET cash == session[n].expected - session[n].opening - session[n].moved
        IN  /\ cash <= CashOf(Received(n))
            /\ cash >= CashOf({o \in Received(n) : order[o].status = "confirmed"})
            /\ session[n].status = "closed" <=> session[n].counted = session[n].expected
=============================================================================
