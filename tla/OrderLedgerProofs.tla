------------------------- MODULE OrderLedgerProofs -------------------------
(* Theorems about OrderLedger, for every set of orders, items, keys, calls *)
(* and requests: its types, the refunds of a charge, the versions of an    *)
(* order and, from the sums over its rows, what is charged by hand.        *)
EXTENDS OrderLedger, FiniteSums, TLAPS

-----------------------------------------------------------------------------
(* Type correctness.  Beside the shapes, a charge that exists belongs to   *)
(* an order, a call in progress has a request, and the charge it waits     *)
(* for, or refunds, exists: otherwise the writes would be to no row.       *)

Exists(rowset, k) == rowset[k].status # "absent"

RowsPlaced == \A k \in Keys : Exists(payments, k) => payments[k].order \in Orders

RowsOK == RowsType /\ RowsPlaced

RequestsKnown == \A c \in Calls : pc[c] \notin {"idle", "done"} => req[c] \in Requests

CallsOK == CallsType /\ RequestsKnown

ChargesExist == \A c \in Calls :
    /\ pc[c] \in {"terminal", "answered", "record"} => Exists(payments, req[c].key)
    /\ Commits(c, "refund") => Exists(payments, req[c].target)

TypeInv == RowsOK /\ LocksType /\ CallsOK /\ ChargesExist
-----------------------------------------------------------------------------
(* What the helpers of the actions preserve.                               *)

\* A net charge is a number.
LEMMA NetChargeInt == ASSUME NEW p \in PaymentRow PROVE NetCharge(p) \in Int
  BY DEF NetCharge, Max0, PaymentRow

\* A snapshot of an order has the shape of a snapshot.
LEMMA SnapOK ==
  ASSUME RowsType, NEW o \in Orders, NEW st \in OrderStatuses
  PROVE  Snap(o, st) \in SnapType /\ OrderSnap(o) \in SnapType
  <1>1. orders[o] \in OrderRow /\ live[o] \in Int
    BY DEF RowsType
  <1>2. "unknown" \in PaymentStatuses \ {"absent"}
    BY DEF PaymentStatuses
  <1> QED BY <1>1, <1>2 DEF Snap, OrderSnap, OrderRow, SnapType

\* An order row with one field replaced is an order row.
LEMMA OrderRowFields ==
  ASSUME NEW o \in OrderRow
  PROVE  /\ \A x \in OrderStatuses : [o EXCEPT !.status = x] \in OrderRow
         /\ \A x \in Int : [o EXCEPT !.subtotal = x] \in OrderRow
         /\ \A x \in Int : [o EXCEPT !.discount = x] \in OrderRow
         /\ \A x \in Int : [o EXCEPT !.total = x] \in OrderRow
         /\ \A x \in Int : [o EXCEPT !.version = x] \in OrderRow
         /\ \A x \in BOOLEAN : [o EXCEPT !.closed = x] \in OrderRow
  BY DEF OrderRow

\* So is a payment row,
LEMMA PaymentRowFields ==
  ASSUME NEW p \in PaymentRow
  PROVE  /\ \A x \in PaymentStatuses : [p EXCEPT !.status = x] \in PaymentRow
         /\ \A x \in Int : [p EXCEPT !.version = x] \in PaymentRow
         /\ \A x \in Nat : [p EXCEPT !.refunded = x] \in PaymentRow
  BY DEF PaymentRow

\* and a snapshot.
LEMMA SnapFields ==
  ASSUME NEW s \in SnapType
  PROVE  /\ \A x \in OrderStatuses : [s EXCEPT !.status = x] \in SnapType
         /\ \A x \in Int : [s EXCEPT !.version = x] \in SnapType
         /\ \A x \in Int : [s EXCEPT !.pversion = x] \in SnapType
         /\ \A x \in PaymentStatuses \ {"absent"} : [s EXCEPT !.result = x] \in SnapType
  BY DEF SnapType

\* An order row replaced by an order row leaves the rows well-formed.
LEMMA PutOrderType ==
  ASSUME RowsType, NEW o \in Orders, NEW row \in OrderRow, orders' = [orders EXCEPT ![o] = row]
  PROVE  orders' \in [Orders -> OrderRow]
  BY DEF RowsType

\* Setting the status of an order does.
LEMMA SetStatusType ==
  ASSUME RowsType, NEW o \in Orders, NEW st \in OrderStatuses, SetStatus(o, st)
  PROVE  orders' \in [Orders -> OrderRow]
  <1>1. orders[o] \in OrderRow
    BY DEF RowsType
  <1>2. [orders[o] EXCEPT !.status = st] \in OrderRow
    BY <1>1, OrderRowFields
  <1>3. orders[o].version + 1 \in Int
    BY <1>1 DEF OrderRow
  <1>4. [orders[o] EXCEPT !.status = st, !.version = orders[o].version + 1] \in OrderRow
    BY <1>2, <1>3, OrderRowFields
  <1> DEFINE row == [orders[o] EXCEPT !.status = st, !.version = orders[o].version + 1]
  <1>5. orders' = [orders EXCEPT ![o] = row]
    BY DEF SetStatus
  <1> HIDE DEF row
  <1> QED BY <1>4, <1>5, PutOrderType DEF row

\* Writing a payment row leaves the rows and the sums well-formed, every row
\* in its place, and no row disappears.
LEMMA PutPaymentType ==
  ASSUME RowsOK, NEW k \in Keys, NEW p \in PaymentRow, PutPayment(k, p),
         p.order \in Orders, p.status # "absent"
  PROVE  /\ payments' \in [Keys -> PaymentRow] /\ paid' \in [Orders -> Int]
         /\ RowsPlaced'
         /\ \A j \in Keys : Exists(payments, j) => Exists(payments', j)
         /\ Exists(payments', k)
  <1>1. payments[k] \in PaymentRow
    BY DEF RowsOK, RowsType
  <1>2. NetCharge(payments[k]) \in Int /\ NetCharge(p) \in Int
    BY <1>1, NetChargeInt
  <1> QED BY <1>2 DEF RowsOK, RowsType, RowsPlaced, PutPayment, Exists

\* Answering a call keeps the calls well-formed.
LEMMA ReplyType ==
  ASSUME CallsOK, NEW c \in Calls, NEW r \in Requests \cup {None}, NEW a \in Answers,
         Reply(c, r, a)
  PROVE  CallsOK'
  BY DEF CallsOK, CallsType, RequestsKnown, Reply

\* So does answering it with the request it already has.
LEMMA FinishType ==
  ASSUME CallsOK, NEW c \in Calls, NEW a \in Answers, Finish(c, a)
  PROVE  CallsOK'
  BY ReplyType DEF CallsOK, CallsType, Finish

\* So does a transaction that has read,
LEMMA ProceedType ==
  ASSUME CallsOK, NEW c \in Calls, NEW r \in Requests, NEW s \in SnapType, Proceed(c, r, s)
  PROVE  CallsOK'
  BY DEF CallsOK, CallsType, RequestsKnown, Proceed

\* and a call that waits for the terminal.
LEMMA AwaitType ==
  ASSUME CallsOK, NEW c \in Calls, NEW r \in Requests, AwaitTerminal(c, r)
  PROVE  CallsOK'
  BY DEF CallsOK, CallsType, RequestsKnown, AwaitTerminal

\* A released lock has no holder, the others keep theirs.
LEMMA ReleaseType ==
  ASSUME LocksType, NEW c \in Calls, Release(c)
  PROVE  LocksType'
  BY DEF LocksType, Release, Unlocked

\* The charge a call waits for stays, however a step changes the rows.
LEMMA StillExists ==
  ASSUME ChargesExist, NEW c \in Calls,
         \A k \in Keys : Exists(payments, k) => Exists(payments', k),
         CallsOK,
         \A d \in Calls \ {c} : pc'[d] = pc[d] /\ req'[d] = req[d],
         pc'[c] \in {"terminal", "answered", "record"} => Exists(payments', req'[c].key),
         pc'[c] = "commit" /\ req'[c].op = "refund" => Exists(payments', req'[c].target)
  PROVE  ChargesExist'
  <1>1. ASSUME NEW d \in Calls, d # c
        PROVE  /\ pc'[d] \in {"terminal", "answered", "record"} => Exists(payments', req'[d].key)
               /\ pc'[d] = "commit" /\ req'[d].op = "refund" => Exists(payments', req'[d].target)
    <2>1. CASE pc[d] \in {"idle", "done"}
      BY <1>1, <2>1
    <2>2. CASE pc[d] \notin {"idle", "done"}
      <3>1. req[d].key \in Keys /\ req[d].target \in Keys
        BY <2>2, RequestAssumption DEF CallsOK, RequestsKnown, RequestType
      <3>2. /\ pc[d] \in {"terminal", "answered", "record"} => Exists(payments, req[d].key)
            /\ pc[d] = "commit" /\ req[d].op = "refund" => Exists(payments, req[d].target)
        BY DEF ChargesExist, Commits
      <3> QED BY <1>1, <3>1, <3>2
    <2> QED BY <2>1, <2>2
  <1> QED BY <1>1 DEF ChargesExist, Commits
-----------------------------------------------------------------------------
(* The ways a step ends for the call that takes it.                        *)

\* The rows stay well-formed and no payment row disappears.
Keeps == /\ RowsOK' /\ LocksType'
         /\ \A k \in Keys : Exists(payments, k) => Exists(payments', k)

\* Rows and locks that do not change are kept.
LEMMA UnchangedKeeps ==
  ASSUME TypeInv, UNCHANGED rows, LocksType'
  PROVE  Keeps
  BY DEF TypeInv, Keeps, RowsOK, RowsType, RowsPlaced, rows, Exists

\* An answered call keeps the invariant,
LEMMA Replies ==
  ASSUME TypeInv, NEW c \in Calls, NEW r \in Requests \cup {None}, NEW a \in Answers,
         Reply(c, r, a), Keeps
  PROVE  TypeInv'
  <1>1. CallsOK'
    BY ReplyType DEF TypeInv
  <1>2. pc'[c] = "done" /\ \A d \in Calls \ {c} : pc'[d] = pc[d] /\ req'[d] = req[d]
    BY DEF TypeInv, CallsOK, CallsType, Reply
  <1>3. ChargesExist'
    BY <1>2, StillExists DEF TypeInv, Keeps
  <1> QED BY <1>1, <1>3 DEF TypeInv, Keeps

\* also when it is answered with the request it has;
LEMMA Finishes ==
  ASSUME TypeInv, NEW c \in Calls, NEW a \in Answers, Finish(c, a), Keeps
  PROVE  TypeInv'
  <1>1. req[c] \in Requests \cup {None}
    BY DEF TypeInv, CallsOK, CallsType
  <1> QED BY <1>1, Replies DEF Finish

\* a transaction that goes on to commit,
LEMMA Proceeds ==
  ASSUME TypeInv, NEW c \in Calls, NEW r \in Requests, NEW s \in SnapType,
         Proceed(c, r, s), Keeps,
         r.op = "refund" => Exists(payments, r.target)
  PROVE  TypeInv'
  <1>1. CallsOK'
    BY ProceedType DEF TypeInv
  <1>2. /\ pc'[c] = "commit" /\ req'[c] = r
        /\ \A d \in Calls \ {c} : pc'[d] = pc[d] /\ req'[d] = req[d]
    BY DEF TypeInv, CallsOK, CallsType, Proceed
  <1>3. r.target \in Keys
    BY RequestAssumption DEF RequestType
  <1>4. ChargesExist'
    BY <1>2, <1>3, StillExists DEF TypeInv, Keeps
  <1> QED BY <1>1, <1>4 DEF TypeInv, Keeps

\* and a call that waits for the terminal.
LEMMA Awaits ==
  ASSUME TypeInv, NEW c \in Calls, NEW r \in Requests, AwaitTerminal(c, r), Keeps,
         Exists(payments', r.key)
  PROVE  TypeInv'
  <1>1. CallsOK'
    BY AwaitType DEF TypeInv
  <1>2. /\ pc'[c] = "terminal" /\ req'[c] = r
        /\ \A d \in Calls \ {c} : pc'[d] = pc[d] /\ req'[d] = req[d]
    BY DEF TypeInv, CallsOK, CallsType, AwaitTerminal
  <1>3. ChargesExist'
    BY <1>2, StillExists DEF TypeInv, Keeps
  <1> QED BY <1>1, <1>3 DEF TypeInv, Keeps
-----------------------------------------------------------------------------
(* Every step keeps the invariant: first the payments.                     *)

\* What a request asks for has the types of a request.
LEMMA RequestFields ==
  ASSUME NEW r \in Requests
  PROVE  /\ r.order \in Orders /\ r.key \in Keys /\ r.target \in Keys /\ r.item \in Items
         /\ r.amount \in Nat /\ r.approved \in BOOLEAN /\ r.op \in Ops
  BY RequestAssumption DEF RequestType

\* The row of a new charge is a payment row.
LEMMA ChargeRowType ==
  ASSUME NEW r \in Requests, NEW m \in {"manual", "terminal"}, NEW st \in PaymentStatuses
  PROVE  ChargeRow(r, m, st) \in PaymentRow
  BY RequestFields DEF ChargeRow, PaymentRow

\* registerPayment, up to its reads and its lock,
LEMMA RegisterReadType ==
  ASSUME TypeInv, NEW c \in Calls, RegisterRead(c)
  PROVE  TypeInv'
  <1>1. PICK r \in Requests :
          /\ Begins(c, r, "register")
          /\ \/ /\ \E a \in Answers : Reply(c, r, a)
                /\ UNCHANGED advisory
             \/ /\ \E n : Proceed(c, r, Snap(r.order, StatusWhenPaid(n, orders[r.order].total)))
                /\ advisory' = [advisory EXCEPT ![r.order] = c]
          /\ UNCHANGED <<rows, refundLock>>
    BY DEF RegisterRead, Answers
  <1>2. LocksType'
    BY <1>1, RequestFields DEF TypeInv, LocksType
  <1>3. Keeps
    BY <1>1, <1>2, UnchangedKeeps
  <1>4. CASE \E a \in Answers : Reply(c, r, a)
    BY <1>3, <1>4, Replies
  <1>5. ASSUME NEW n, Proceed(c, r, Snap(r.order, StatusWhenPaid(n, orders[r.order].total)))
        PROVE  TypeInv'
    <2>1. StatusWhenPaid(n, orders[r.order].total) \in OrderStatuses
      BY DEF StatusWhenPaid, OrderStatuses
    <2>2. Snap(r.order, StatusWhenPaid(n, orders[r.order].total)) \in SnapType
      BY <2>1, SnapOK, RequestFields DEF TypeInv, RowsOK
    <2>3. r.op # "refund"
      BY <1>1 DEF Begins
    <2> QED BY <1>3, <1>5, <2>2, <2>3, Proceeds
  <1> QED BY <1>1, <1>4, <1>5

\* and from its insert to the answer.
LEMMA RegisterCommitType ==
  ASSUME TypeInv, NEW c \in Calls, RegisterCommit(c)
  PROVE  TypeInv'
  <1>1. req[c] \in Requests /\ snap[c] \in SnapType
    BY DEF RegisterCommit, Commits, TypeInv, CallsOK, CallsType, RequestsKnown
  <1>2. LocksType'
    BY ReleaseType DEF RegisterCommit, TypeInv
  <1>3. CASE Finish(c, "conflict") /\ UNCHANGED <<orders, payments, paid>>
    <2>1. UNCHANGED rows
      BY <1>3 DEF RegisterCommit, rows
    <2> QED BY <1>2, <1>3, <2>1, UnchangedKeeps, Finishes DEF Answers
  <1>4. CASE /\ PutPayment(req[c].key, ChargeRow(req[c], "manual", "confirmed"))
             /\ SetStatus(req[c].order, snap[c].status)
             /\ Finish(c, "done")
    <2> DEFINE p == ChargeRow(req[c], "manual", "confirmed")
    <2>1. p \in PaymentRow /\ p.order \in Orders /\ p.status # "absent"
      BY <1>1, ChargeRowType, RequestFields DEF ChargeRow, PaymentStatuses
    <2>2. orders' \in [Orders -> OrderRow]
      BY <1>1, <1>4, RequestFields, SetStatusType DEF SnapType, TypeInv, RowsOK
    <2>3. /\ payments' \in [Keys -> PaymentRow] /\ paid' \in [Orders -> Int]
          /\ RowsPlaced' /\ \A j \in Keys : Exists(payments, j) => Exists(payments', j)
      BY <1>1, <1>4, <2>1, RequestFields, PutPaymentType DEF TypeInv
    <2>4. Keeps
      BY <1>2, <2>2, <2>3 DEF Keeps, RowsOK, RowsType, TypeInv, RegisterCommit
    <2> QED BY <1>4, <2>4, Finishes DEF Answers
  <1> QED BY <1>3, <1>4 DEF RegisterCommit

\* createPaymentIntent, up to its reads and its lock,
LEMMA IntentReadType ==
  ASSUME TypeInv, NEW c \in Calls, IntentRead(c)
  PROVE  TypeInv'
  <1>1. PICK r \in Requests :
          /\ Begins(c, r, "intent")
          /\ \/ AwaitTerminal(c, r) /\ Exists(payments, r.key) /\ UNCHANGED advisory
             \/ (\E a \in Answers : Reply(c, r, a)) /\ UNCHANGED advisory
             \/ Proceed(c, r, NoSnap) /\ advisory' = [advisory EXCEPT ![r.order] = c]
          /\ UNCHANGED <<rows, refundLock>>
    BY DEF IntentRead, Answers, Exists
  <1>2. LocksType'
    BY <1>1, RequestFields DEF TypeInv, LocksType
  <1>3. Keeps
    BY <1>1, <1>2, UnchangedKeeps
  <1>4. CASE AwaitTerminal(c, r) /\ Exists(payments, r.key)
    BY <1>3, <1>4, RequestFields, Awaits DEF Keeps
  <1>5. CASE \E a \in Answers : Reply(c, r, a)
    BY <1>3, <1>5, Replies
  <1>6. CASE Proceed(c, r, NoSnap)
    <2>1. NoSnap \in SnapType
      BY DEF NoSnap, SnapType, OrderStatuses, PaymentStatuses
    <2> QED BY <1>1, <1>3, <1>6, <2>1, Proceeds DEF Begins
  <1> QED BY <1>1, <1>4, <1>5, <1>6

\* and from its insert to the question to the terminal.
LEMMA IntentCommitType ==
  ASSUME TypeInv, NEW c \in Calls, IntentCommit(c)
  PROVE  TypeInv'
  <1>1. req[c] \in Requests
    BY DEF IntentCommit, Commits, TypeInv, CallsOK, RequestsKnown
  <1>2. LocksType'
    BY ReleaseType DEF IntentCommit, TypeInv
  <1>3. CASE Finish(c, "conflict") /\ UNCHANGED <<payments, paid>>
    <2>1. UNCHANGED rows
      BY <1>3 DEF IntentCommit, rows
    <2> QED BY <1>2, <1>3, <2>1, UnchangedKeeps, Finishes DEF Answers
  <1>4. CASE /\ PutPayment(req[c].key, ChargeRow(req[c], "terminal", "pending"))
             /\ AwaitTerminal(c, req[c])
    <2> DEFINE p == ChargeRow(req[c], "terminal", "pending")
    <2>1. p \in PaymentRow /\ p.order \in Orders /\ p.status # "absent"
      BY <1>1, ChargeRowType, RequestFields DEF ChargeRow, PaymentStatuses
    <2>2. /\ payments' \in [Keys -> PaymentRow] /\ paid' \in [Orders -> Int]
          /\ RowsPlaced' /\ \A j \in Keys : Exists(payments, j) => Exists(payments', j)
          /\ Exists(payments', req[c].key)
      BY <1>1, <1>4, <2>1, RequestFields, PutPaymentType DEF TypeInv
    <2>3. Keeps
      BY <1>2, <2>2 DEF Keeps, RowsOK, RowsType, TypeInv, IntentCommit
    <2> QED BY <1>1, <1>4, <2>2, <2>3, Awaits
  <1> QED BY <1>3, <1>4 DEF IntentCommit

\* queryPayment and cancelPayment begin alike.
LEMMA AskType ==
  ASSUME TypeInv, NEW c \in Calls, QueryRead(c) \/ CancelRead(c)
  PROVE  TypeInv'
  <1>1. PICK r \in Requests :
          /\ \/ AwaitTerminal(c, r) /\ Exists(payments, r.key)
             \/ Reply(c, r, "refused")
          /\ UNCHANGED <<rows, locks>>
    BY DEF QueryRead, CancelRead, Exists
  <1>2. LocksType'
    BY <1>1 DEF TypeInv, LocksType, locks
  <1>3. Keeps
    BY <1>1, <1>2, UnchangedKeeps
  <1>4. CASE AwaitTerminal(c, r) /\ Exists(payments, r.key)
    BY <1>3, <1>4, RequestFields, Awaits DEF Keeps
  <1>5. CASE Reply(c, r, "refused")
    BY <1>3, <1>5, Replies DEF Answers
  <1> QED BY <1>1, <1>4, <1>5

\* The terminal's answer.
LEMMA TerminalAnswersType ==
  ASSUME TypeInv, NEW c \in Calls, TerminalAnswers(c)
  PROVE  TypeInv'
  <1>1. CASE /\ \E result \in ExecutorResults :
                    snap' = [snap EXCEPT ![c] = [snap[c] EXCEPT !.result =
                                IF result = "not_configured" THEN "failed" ELSE result]]
             /\ pc' = [pc EXCEPT ![c] = "answered"] /\ pc[c] = "terminal"
             /\ UNCHANGED <<rows, locks, req, outcome>>
    <2>1. PICK x : /\ x \in PaymentStatuses \ {"absent"}
                   /\ snap' = [snap EXCEPT ![c] = [snap[c] EXCEPT !.result = x]]
      <3>1. PICK y \in ExecutorResults :
              snap' = [snap EXCEPT ![c] = [snap[c] EXCEPT !.result =
                          IF y = "not_configured" THEN "failed" ELSE y]]
        BY <1>1
      <3>2. (IF y = "not_configured" THEN "failed" ELSE y) \in PaymentStatuses \ {"absent"}
        BY DEF ExecutorResults, PaymentStatuses
      <3> QED BY <3>1, <3>2
    <2>2. snap' \in [Calls -> SnapType]
      BY <2>1, SnapFields DEF TypeInv, CallsOK, CallsType
    <2>3. CallsOK'
      BY <1>1, <2>2 DEF TypeInv, CallsOK, CallsType, RequestsKnown
    <2>4. ChargesExist'
      BY <1>1 DEF TypeInv, CallsOK, CallsType, ChargesExist, Commits, Exists, rows
    <2>5. LocksType' /\ RowsOK'
      BY <1>1 DEF TypeInv, LocksType, locks, rows, RowsOK, RowsType, RowsPlaced, Exists
    <2> QED BY <2>3, <2>4, <2>5 DEF TypeInv
  <1>2. CASE Finish(c, "refused") /\ pc[c] = "terminal" /\ UNCHANGED <<rows, locks>>
    <2>1. Keeps
      BY <1>2, UnchangedKeeps DEF TypeInv, LocksType, locks
    <2> QED BY <1>2, <2>1, Finishes DEF Answers
  <1> QED BY <1>1, <1>2, ResultAssumption DEF TerminalAnswers, ExecutorResults

\* The charge whose result is being recorded.
LEMMA AnsweredCharge ==
  ASSUME TypeInv, NEW c \in Calls, pc[c] \in {"answered", "record"}
  PROVE  /\ req[c].key \in Keys /\ Exists(payments, req[c].key)
         /\ payments[req[c].key] \in PaymentRow /\ payments[req[c].key].order \in Orders
         /\ snap[c] \in SnapType /\ req[c] \in Requests
  BY RequestFields DEF TypeInv, CallsOK, CallsType, RequestsKnown, ChargesExist, RowsOK,
                       RowsType, RowsPlaced

\* updatePaymentResult, up to its reads,
LEMMA ResultReadType ==
  ASSUME TypeInv, NEW c \in Calls, ResultRead(c)
  PROVE  TypeInv'
  <1> DEFINE p == payments[req[c].key]
             o == p.order
  <1>1. /\ o \in Orders /\ p \in PaymentRow /\ snap[c] \in SnapType /\ req[c] \in Requests
        /\ Exists(payments, req[c].key)
    BY AnsweredCharge DEF ResultRead
  <1>2. LocksType'
    BY DEF ResultRead, TypeInv, LocksType, locks
  <1>3. Keeps
    BY <1>2, UnchangedKeeps DEF ResultRead
  <1>4. CASE \E a \in Answers : Finish(c, a)
    BY <1>3, <1>4, Finishes
  <1>5. ASSUME NEW n, pc' = [pc EXCEPT ![c] = "record"], UNCHANGED <<req, outcome>>,
               snap' = [snap EXCEPT ![c] = [snap[c] EXCEPT !.pversion = p.version,
                            !.version = orders[o].version,
                            !.status = StatusWhenPaid(n, orders[o].total)]]
        PROVE  TypeInv'
    <2>1. p.version \in Int /\ orders[o].version \in Int
      BY <1>1 DEF PaymentRow, TypeInv, RowsOK, RowsType, OrderRow
    <2>2. StatusWhenPaid(n, orders[o].total) \in OrderStatuses
      BY DEF StatusWhenPaid, OrderStatuses
    <2>3. [snap[c] EXCEPT !.pversion = p.version, !.version = orders[o].version]
             \in SnapType
      <3>1. [snap[c] EXCEPT !.pversion = p.version] \in SnapType
        BY <1>1, <2>1, SnapFields
      <3> QED BY <2>1, <3>1, SnapFields
    <2>4. [snap[c] EXCEPT !.pversion = p.version, !.version = orders[o].version,
                          !.status = StatusWhenPaid(n, orders[o].total)] \in SnapType
      BY <2>2, <2>3, SnapFields
    <2>5. snap' \in [Calls -> SnapType]
      BY <1>5, <2>4 DEF TypeInv, CallsOK, CallsType
    <2>6. CallsOK'
      BY <1>1, <1>5, <2>5 DEF TypeInv, CallsOK, CallsType, RequestsKnown
    <2>7. ChargesExist'
      BY <1>1, <1>3, <1>5 DEF TypeInv, CallsOK, CallsType, ChargesExist, Commits, ResultRead,
                              rows, Exists
    <2> QED BY <1>3, <2>6, <2>7 DEF TypeInv, Keeps
  <1> QED BY <1>4, <1>5 DEF ResultRead, Answers

\* and from its writes to the answer.
LEMMA ResultCommitType ==
  ASSUME TypeInv, NEW c \in Calls, ResultCommit(c)
  PROVE  TypeInv'
  <1> DEFINE p == payments[req[c].key]
             s == snap[c]
             q == [p EXCEPT !.status = s.result, !.version = s.pversion + 1]
  <1>1. /\ req[c].key \in Keys /\ p.order \in Orders /\ p \in PaymentRow /\ s \in SnapType
        /\ req[c] \in Requests
    BY AnsweredCharge DEF ResultCommit
  <1>2. LocksType'
    BY DEF ResultCommit, TypeInv, LocksType, locks
  <1>3. CASE Finish(c, "conflict") /\ UNCHANGED <<orders, payments, paid>>
    <2>1. UNCHANGED rows
      BY <1>3 DEF ResultCommit, rows
    <2> QED BY <1>2, <1>3, <2>1, UnchangedKeeps, Finishes DEF Answers
  <1>4. CASE /\ PutPayment(req[c].key, q)
             /\ SetStatus(p.order, s.status) \/ UNCHANGED orders
             /\ Finish(c, "done")
    <2>1. s.result \in PaymentStatuses \ {"absent"} /\ s.pversion + 1 \in Int
             /\ s.status \in OrderStatuses
      BY <1>1 DEF SnapType
    <2>2. q \in PaymentRow
      <3>1. [p EXCEPT !.status = s.result] \in PaymentRow
        BY <1>1, <2>1, PaymentRowFields
      <3> QED BY <2>1, <3>1, PaymentRowFields
    <2>3. q.order \in Orders /\ q.status # "absent"
      BY <1>1, <2>1 DEF PaymentRow
    <2>4. orders' \in [Orders -> OrderRow]
      BY <1>1, <1>4, <2>1, SetStatusType DEF TypeInv, RowsOK, RowsType
    <2> HIDE DEF q
    <2>5. /\ payments' \in [Keys -> PaymentRow] /\ paid' \in [Orders -> Int]
          /\ RowsPlaced' /\ \A j \in Keys : Exists(payments, j) => Exists(payments', j)
      BY <1>1, <1>4, <2>2, <2>3, PutPaymentType DEF TypeInv
    <2>6. Keeps
      BY <1>2, <2>4, <2>5 DEF Keeps, RowsOK, RowsType, TypeInv, ResultCommit
    <2> QED BY <1>4, <2>6, Finishes DEF Answers
  <1> QED BY <1>3, <1>4 DEF ResultCommit

\* refundPayment, up to its reads and its lock,
LEMMA RefundReadType ==
  ASSUME TypeInv, NEW c \in Calls, RefundRead(c)
  PROVE  TypeInv'
  <1>1. PICK r \in Requests :
          \/ /\ \E a \in Answers : Reply(c, r, a)
             /\ UNCHANGED <<rows, locks>>
          \/ /\ Exists(payments, r.target)
             /\ \E x \in {"refunded", "partially_refunded"} :
                   Proceed(c, r, [snap[c] EXCEPT !.pversion = payments[r.target].version,
                                                 !.result = x])
             /\ refundLock' = [refundLock EXCEPT ![r.target] = c]
             /\ UNCHANGED <<rows, advisory>>
    BY DEF RefundRead, Answers, Exists, locks
  <1>2. LocksType'
    BY <1>1, RequestFields DEF TypeInv, LocksType, locks
  <1>3. Keeps
    BY <1>1, <1>2, UnchangedKeeps
  <1>4. CASE \E a \in Answers : Reply(c, r, a)
    BY <1>3, <1>4, Replies
  <1>5. ASSUME NEW x \in {"refunded", "partially_refunded"}, Exists(payments, r.target),
               Proceed(c, r, [snap[c] EXCEPT !.pversion = payments[r.target].version,
                                             !.result = x])
        PROVE  TypeInv'
    <2>1. /\ snap[c] \in SnapType /\ payments[r.target].version \in Int
          /\ x \in PaymentStatuses \ {"absent"}
      BY RequestFields DEF TypeInv, CallsOK, CallsType, RowsOK, RowsType, PaymentRow,
                           PaymentStatuses
    <2>2. [snap[c] EXCEPT !.pversion = payments[r.target].version] \in SnapType
      BY <2>1, SnapFields
    <2>3. [snap[c] EXCEPT !.pversion = payments[r.target].version, !.result = x] \in SnapType
      BY <2>1, <2>2, SnapFields
    <2> QED BY <1>3, <1>5, <2>3, Proceeds
  <1> QED BY <1>1, <1>4, <1>5

\* What a refund makes of its charge.
LEMMA RefundedType ==
  ASSUME NEW p \in PaymentRow, NEW s \in SnapType, NEW n \in Nat
  PROVE  /\ Refunded(p, s, n) \in PaymentRow
         /\ Refunded(p, s, n).order = p.order /\ Refunded(p, s, n).amount = p.amount
         /\ Refunded(p, s, n).type = p.type
         /\ Refunded(p, s, n).refunded = p.refunded + n
         /\ p.status # "absent" => Refunded(p, s, n).status # "absent"
  <1>1. p.version + 1 \in Int /\ p.refunded + n \in Nat /\ s.result \in PaymentStatuses \ {"absent"}
    BY DEF PaymentRow, SnapType
  <1>2. [p EXCEPT !.status = s.result] \in PaymentRow
    BY <1>1, PaymentRowFields
  <1>3. [p EXCEPT !.status = s.result, !.version = p.version + 1] \in PaymentRow
    BY <1>1, <1>2, PaymentRowFields
  <1>4. [p EXCEPT !.status = s.result, !.version = p.version + 1, !.refunded = p.refunded + n]
           \in PaymentRow
    BY <1>1, <1>3, PaymentRowFields
  <1>5. [p EXCEPT !.refunded = p.refunded + n] \in PaymentRow
    BY <1>1, PaymentRowFields
  <1>6. Refunded(p, s, n) \in PaymentRow
    BY <1>4, <1>5 DEF Refunded
  <1>7. /\ Refunded(p, s, n).order = p.order /\ Refunded(p, s, n).amount = p.amount
        /\ Refunded(p, s, n).type = p.type
        /\ Refunded(p, s, n).refunded = p.refunded + n
        /\ p.status # "absent" => Refunded(p, s, n).status # "absent"
    BY <1>1 DEF Refunded, PaymentRow
  <1> QED BY <1>6, <1>7

\* and from its insert to the answer.
LEMMA RefundCommitType ==
  ASSUME TypeInv, NEW c \in Calls, RefundCommit(c)
  PROVE  TypeInv'
  <1> DEFINE r == req[c]
             p == payments[r.target]
             charge == Refunded(p, snap[c], r.amount)
             row == RefundRow(p, r)
  <1>1. /\ r \in Requests /\ r.key \in Keys /\ r.target \in Keys /\ r.amount \in Nat
        /\ snap[c] \in SnapType /\ p \in PaymentRow
        /\ p.status # "absent" /\ p.order \in Orders
    BY RequestFields DEF RefundCommit, Commits, TypeInv, CallsOK, CallsType, RequestsKnown,
                         ChargesExist, Exists, RowsOK, RowsType, RowsPlaced
  <1>2. LocksType'
    BY ReleaseType DEF RefundCommit, TypeInv
  <1>3. CASE Finish(c, "conflict") /\ UNCHANGED <<payments, paid>>
    <2>1. UNCHANGED rows
      BY <1>3 DEF RefundCommit, rows
    <2> QED BY <1>2, <1>3, <2>1, UnchangedKeeps, Finishes DEF Answers
  <1>4. CASE /\ payments' = [payments EXCEPT ![r.target] = charge, ![r.key] = row]
             /\ paid' = [o \in Orders |-> IF p.order = o
                             THEN paid[o] - NetCharge(p) + NetCharge(charge) ELSE paid[o]]
             /\ Finish(c, "done")
    <2>1. charge \in PaymentRow /\ charge.order \in Orders /\ charge.status # "absent"
      BY <1>1, RefundedType
    <2>2. row \in PaymentRow /\ row.order \in Orders /\ row.status # "absent"
      BY <1>1 DEF RefundRow, PaymentRow, PaymentStatuses
    <2>3. NetCharge(p) \in Int /\ NetCharge(charge) \in Int
      BY <1>1, <2>1, NetChargeInt
    <2> HIDE DEF charge, row
    <2>4. payments' \in [Keys -> PaymentRow] /\ paid' \in [Orders -> Int]
      BY <1>1, <1>4, <2>1, <2>2, <2>3 DEF TypeInv, RowsOK, RowsType
    <2>5. RowsPlaced' /\ \A j \in Keys : Exists(payments, j) => Exists(payments', j)
      BY <1>1, <1>4, <2>1, <2>2 DEF TypeInv, RowsOK, RowsType, RowsPlaced, Exists
    <2>6. Keeps
      BY <1>2, <2>4, <2>5 DEF Keeps, RowsOK, RowsType, TypeInv, RefundCommit
    <2> QED BY <1>4, <2>6, Finishes DEF Answers
  <1> QED BY <1>3, <1>4 DEF RefundCommit
-----------------------------------------------------------------------------
(* The edits of an order.                                                  *)

\* A step that writes order and item rows, and no payment, keeps them.
LEMMA EditKeeps ==
  ASSUME TypeInv, orders' \in [Orders -> OrderRow], live' \in [Orders -> Int],
         sold' \in [Orders -> Nat],
         items' \in [Items -> [order : Orders \cup {None}, state : {"absent", "live", "canceled"}]],
         UNCHANGED <<payments, paid, locks>>
  PROVE  Keeps
  BY DEF TypeInv, Keeps, RowsOK, RowsType, RowsPlaced, LocksType, locks, Exists

\* A step that only reads answers its call or goes on to commit.
LEMMA ReadType ==
  ASSUME TypeInv, NEW c \in Calls, NEW r \in Requests, r.op # "refund",
         UNCHANGED <<rows, locks>>,
         (\E a \in Answers : Reply(c, r, a)) \/ Proceed(c, r, OrderSnap(r.order))
  PROVE  TypeInv'
  <1>1. Keeps
    BY UnchangedKeeps DEF TypeInv, LocksType, locks
  <1>2. OrderSnap(r.order) \in SnapType
    BY SnapOK, RequestFields DEF TypeInv, RowsOK, RowsType, OrderRow
  <1> QED BY <1>1, <1>2, Replies, Proceeds

\* The reading steps of the edits.
LEMMA EditReadType ==
  ASSUME TypeInv, NEW c \in Calls,
         \/ AddItemRead(c) \/ DiscountRead(c) \/ CancelItemRead(c)
         \/ CloseRead(c) \/ WriteOffRead(c)
  PROVE  TypeInv'
  <1>1. PICK r \in Requests :
          /\ r.op # "refund"
          /\ (\E a \in Answers : Reply(c, r, a)) \/ Proceed(c, r, OrderSnap(r.order))
    BY DEF AddItemRead, DiscountRead, CancelItemRead, CloseRead, WriteOffRead, Begins, Answers
  <1>2. UNCHANGED <<rows, locks>>
    BY DEF AddItemRead, DiscountRead, CancelItemRead, CloseRead, WriteOffRead
  <1> QED BY <1>1, <1>2, ReadType

\* The call that commits has a request and a snapshot.
LEMMA Committing ==
  ASSUME TypeInv, NEW c \in Calls, NEW op, Commits(c, op)
  PROVE  req[c] \in Requests /\ snap[c] \in SnapType
  BY DEF Commits, TypeInv, CallsOK, CallsType, RequestsKnown

\* addItem writes the order and an item.
LEMMA AddItemCommitType ==
  ASSUME TypeInv, NEW c \in Calls, AddItemCommit(c)
  PROVE  TypeInv'
  <1> DEFINE r == req[c]
             row == orders[r.order]
             subtotal == snap[c].subtotal + Price[r.item]
             new == [row EXCEPT !.subtotal = subtotal, !.total = subtotal - snap[c].discount,
                                !.version = row.version + 1]
  <1>1. /\ r.order \in Orders /\ r.item \in Items /\ Price[r.item] \in Nat
        /\ snap[c] \in SnapType /\ row \in OrderRow
    BY Committing, RequestFields, PriceAssumption DEF AddItemCommit, TypeInv, RowsOK, RowsType
  <1>2. subtotal \in Int /\ subtotal - snap[c].discount \in Int /\ row.version + 1 \in Int
    BY <1>1 DEF SnapType, OrderRow
  <1>3. new \in OrderRow
    <2>1. [row EXCEPT !.subtotal = subtotal] \in OrderRow
      BY <1>1, <1>2, OrderRowFields
    <2>2. [row EXCEPT !.subtotal = subtotal, !.total = subtotal - snap[c].discount] \in OrderRow
      BY <1>2, <2>1, OrderRowFields
    <2> QED BY <1>2, <2>2, OrderRowFields
  <1>4. orders' = orders \/ orders' = [orders EXCEPT ![r.order] = new]
    BY DEF AddItemCommit
  <1> HIDE DEF new
  <1>5. orders' \in [Orders -> OrderRow]
    BY <1>1, <1>3, <1>4 DEF TypeInv, RowsOK, RowsType
  <1>6. /\ live' \in [Orders -> Int]
        /\ items' \in [Items -> [order : Orders \cup {None}, state : {"absent", "live", "canceled"}]]
    BY <1>1 DEF AddItemCommit, TypeInv, RowsOK, RowsType
  <1>7. Keeps
    BY <1>5, <1>6, EditKeeps DEF AddItemCommit, TypeInv, RowsOK, RowsType
  <1> QED BY <1>7, Finishes DEF AddItemCommit, Answers

\* A discount leaves the order rows well-formed.
LEMMA WriteDiscountType ==
  ASSUME RowsType, NEW o \in Orders, NEW s \in SnapType, NEW n \in Nat, WriteDiscount(o, s, n)
  PROVE  orders' \in [Orders -> OrderRow]
  <1> DEFINE row == [orders[o] EXCEPT !.discount = n, !.total = Max0(s.subtotal - n),
                                      !.version = s.version + 1]
  <1>1. Max0(s.subtotal - n) \in Int /\ s.version + 1 \in Int /\ orders[o] \in OrderRow
    BY DEF RowsType, Max0, SnapType
  <1>2. [orders[o] EXCEPT !.discount = n] \in OrderRow
    BY <1>1, OrderRowFields
  <1>3. [orders[o] EXCEPT !.discount = n, !.total = Max0(s.subtotal - n)] \in OrderRow
    BY <1>1, <1>2, OrderRowFields
  <1>4. row \in OrderRow
    BY <1>1, <1>3, OrderRowFields
  <1>5. orders' = [orders EXCEPT ![o] = row]
    BY DEF WriteDiscount
  <1> HIDE DEF row
  <1> QED BY <1>4, <1>5, PutOrderType

\* A discount, run with or without the row lock.
LEMMA DiscountType ==
  ASSUME TypeInv, NEW c \in Calls, DiscountNow(c) \/ DiscountCommit(c)
  PROVE  TypeInv'
  <1>1. PICK r \in Requests :
          /\ \/ orders' = orders
             \/ \E s \in SnapType : WriteDiscount(r.order, s, r.amount)
          /\ \E a \in Answers : Reply(c, r, a)
          /\ UNCHANGED <<sold, items, live, payments, paid, locks>>
    <2>1. CASE DiscountNow(c)
      <3>1. \A r \in Requests : OrderSnap(r.order) \in SnapType
        BY SnapOK, RequestFields DEF TypeInv, RowsOK, RowsType, OrderRow
      <3> QED BY <2>1, <3>1 DEF DiscountNow, Answers
    <2>2. CASE DiscountCommit(c)
      BY <2>2, Committing DEF DiscountCommit, Finish, Answers
    <2> QED BY <2>1, <2>2
  <1>2. orders' \in [Orders -> OrderRow]
    BY <1>1, RequestFields, WriteDiscountType DEF TypeInv, RowsOK, RowsType
  <1>3. Keeps
    BY <1>1, <1>2, EditKeeps DEF TypeInv, RowsOK, RowsType
  <1> QED BY <1>1, <1>3, Replies

\* So does the cancellation of an item.
LEMMA WriteCancellationType ==
  ASSUME RowsType, NEW o \in Orders, NEW i \in Items, NEW s \in SnapType,
         WriteCancellation(o, i, s)
  PROVE  /\ orders' \in [Orders -> OrderRow] /\ live' \in [Orders -> Int]
         /\ items' \in [Items -> [order : Orders \cup {None}, state : {"absent", "live", "canceled"}]]
  <1> DEFINE left == s.live - Price[i]
             discount == Least(s.discount, left)
             row == [orders[o] EXCEPT !.subtotal = left, !.discount = discount,
                               !.total = Max0(left - discount), !.version = s.version + 1]
  <1>1. /\ left \in Int /\ discount \in Int /\ Max0(left - discount) \in Int
        /\ s.version + 1 \in Int /\ orders[o] \in OrderRow /\ Price[i] \in Nat
    BY PriceAssumption DEF RowsType, Max0, Least, SnapType
  <1>2. orders' = [orders EXCEPT ![o] = row]
    BY DEF WriteCancellation
  <1> HIDE DEF left, discount
  <1>3. [orders[o] EXCEPT !.subtotal = left] \in OrderRow
    BY <1>1, OrderRowFields
  <1>4. [orders[o] EXCEPT !.subtotal = left, !.discount = discount] \in OrderRow
    BY <1>1, <1>3, OrderRowFields
  <1>5. [orders[o] EXCEPT !.subtotal = left, !.discount = discount,
                          !.total = Max0(left - discount)] \in OrderRow
    BY <1>1, <1>4, OrderRowFields
  <1>6. row \in OrderRow
    BY <1>1, <1>5, OrderRowFields
  <1> HIDE DEF row
  <1>7. orders' \in [Orders -> OrderRow]
    BY <1>2, <1>6, PutOrderType
  <1>8. live' \in [Orders -> Int]
    BY <1>1 DEF WriteCancellation, RowsType
  <1>9. items' \in [Items -> [order : Orders \cup {None}, state : {"absent", "live", "canceled"}]]
    BY DEF WriteCancellation, RowsType
  <1> QED BY <1>7, <1>8, <1>9

\* A cancellation, run with or without the row lock.
LEMMA CancelItemType ==
  ASSUME TypeInv, NEW c \in Calls, CancelItemNow(c) \/ CancelItemCommit(c)
  PROVE  TypeInv'
  <1>1. PICK r \in Requests :
          /\ \/ UNCHANGED <<orders, items, live>>
             \/ \E s \in SnapType : WriteCancellation(r.order, r.item, s)
          /\ \E a \in Answers : Reply(c, r, a)
          /\ UNCHANGED <<sold, payments, paid, locks>>
    <2>1. CASE CancelItemNow(c)
      <3>1. \A r \in Requests : OrderSnap(r.order) \in SnapType
        BY SnapOK, RequestFields DEF TypeInv, RowsOK, RowsType, OrderRow
      <3> QED BY <2>1, <3>1 DEF CancelItemNow, Answers
    <2>2. CASE CancelItemCommit(c)
      BY <2>2, Committing DEF CancelItemCommit, Finish, Answers
    <2> QED BY <2>1, <2>2
  <1>2. /\ orders' \in [Orders -> OrderRow] /\ live' \in [Orders -> Int]
        /\ items' \in [Items -> [order : Orders \cup {None}, state : {"absent", "live", "canceled"}]]
    BY <1>1, RequestFields, WriteCancellationType DEF TypeInv, RowsOK, RowsType
  <1>3. Keeps
    BY <1>1, <1>2, EditKeeps DEF TypeInv, RowsOK, RowsType
  <1> QED BY <1>1, <1>3, Replies

\* Closing an order in some status.
LEMMA ClosingType ==
  ASSUME TypeInv, NEW c \in Calls, CloseCommit(c) \/ WriteOffCommit(c)
  PROVE  TypeInv'
  <1> DEFINE o == req[c].order
             row == orders[o]
             new(st) == [row EXCEPT !.status = st, !.closed = TRUE, !.version = row.version + 1]
  <1>1. o \in Orders /\ row \in OrderRow /\ row.version + 1 \in Int
    BY Committing, RequestFields DEF CloseCommit, WriteOffCommit, TypeInv, RowsOK, RowsType,
                                     OrderRow
  <1>2. ASSUME NEW st \in OrderStatuses PROVE new(st) \in OrderRow
    <2>1. [row EXCEPT !.status = st] \in OrderRow
      BY <1>1, OrderRowFields
    <2>2. [row EXCEPT !.status = st, !.closed = TRUE] \in OrderRow
      BY <2>1, OrderRowFields
    <2> QED BY <1>1, <2>2, OrderRowFields
  <1>3. /\ \/ orders' = orders
           \/ \E st \in OrderStatuses : orders' = [orders EXCEPT ![o] = new(st)]
        /\ \/ sold' = sold
           \/ sold' = [sold EXCEPT ![o] = sold[o] + 1]
        /\ \E a \in Answers : Finish(c, a)
        /\ UNCHANGED <<items, live, payments, paid, locks>>
    BY DEF CloseCommit, WriteOffCommit, OrderStatuses, Answers
  <1> HIDE DEF new
  <1>4. orders' \in [Orders -> OrderRow]
    BY <1>1, <1>2, <1>3 DEF TypeInv, RowsOK, RowsType
  <1>5. sold' \in [Orders -> Nat]
    BY <1>1, <1>3 DEF TypeInv, RowsOK, RowsType
  <1>6. Keeps
    BY <1>3, <1>4, <1>5, EditKeeps DEF TypeInv, RowsOK, RowsType
  <1> QED BY <1>3, <1>6, Finishes

\* A server that dies rolls its transaction back.
LEMMA CrashType ==
  ASSUME TypeInv, NEW c \in Calls, Crash(c)
  PROVE  TypeInv'
  <1>1. LocksType'
    BY ReleaseType DEF Crash, TypeInv
  <1>2. Keeps
    BY <1>1, UnchangedKeeps DEF Crash
  <1> QED BY <1>2, Finishes DEF Crash, Answers
-----------------------------------------------------------------------------
\* The invariant holds at first and is kept by every step.
LEMMA TypeInvInit == Init => TypeInv
  <1> SUFFICES ASSUME Init PROVE TypeInv
    OBVIOUS
  <1>1. RowsType
    BY OnOrderAssumption, OpeningAssumption
    DEF Init, RowsType, OrderRow, OrderStatuses, PaymentRow, PaymentStatuses, AbsentPayment,
        AbsentItem
  <1>2. LocksType
    BY DEF Init, LocksType
  <1>3. NoSnap \in SnapType
    BY DEF NoSnap, SnapType, OrderStatuses, PaymentStatuses
  <1>4. CallsOK
    BY <1>3 DEF Init, CallsOK, CallsType, RequestsKnown
  <1>5. RowsPlaced
    BY DEF Init, RowsPlaced, Exists, AbsentPayment
  <1>6. ChargesExist
    BY DEF Init, ChargesExist, Commits
  <1> QED BY <1>1, <1>2, <1>4, <1>5, <1>6 DEF TypeInv, RowsOK

\* Every step keeps the invariant.
LEMMA TypeInvNext == TypeInv /\ [Next]_ledgerVars => TypeInv'
  <1> SUFFICES ASSUME TypeInv, [Next]_ledgerVars PROVE TypeInv'
    OBVIOUS
  <1>1. ASSUME NEW c \in Calls, Serve(c) PROVE TypeInv'
    <2>1. CASE Payment(c)
      BY <2>1, RegisterReadType, RegisterCommitType, RefundReadType, RefundCommitType
      DEF Payment
    <2>2. CASE Terminal(c)
      BY <2>2, IntentReadType, IntentCommitType, AskType, TerminalAnswersType,
         ResultReadType, ResultCommitType
      DEF Terminal
    <2>3. CASE Edit(c)
      BY <2>3, EditReadType, AddItemCommitType, DiscountType, CancelItemType DEF Edit
    <2>4. CASE Closing(c)
      BY <2>4, EditReadType, ClosingType DEF Closing
    <2> QED BY <1>1, <2>1, <2>2, <2>3, <2>4 DEF Serve
  <1>2. ASSUME NEW c \in Calls, Crash(c) PROVE TypeInv'
    BY <1>2, CrashType
  <1>3. CASE UNCHANGED ledgerVars
    BY <1>3 DEF ledgerVars, rows, locks, ctl, TypeInv, RowsOK, RowsType, RowsPlaced, LocksType,
                CallsOK, CallsType, RequestsKnown, ChargesExist, Commits, Exists
  <1> QED BY <1>1, <1>2, <1>3 DEF Next, AllServed

\* Type correctness: the rows, the locks and the private state of the calls of
\* PaymentsService, OrdersService and PosService keep their shape.
THEOREM TypeCorrect == Spec => []TypeOK
  <1>1. TypeInv => TypeOK
    BY DEF TypeInv, TypeOK, RowsOK, CallsOK
  <1> QED BY <1>1, TypeInvInit, TypeInvNext, PTL DEF Spec
-----------------------------------------------------------------------------
(* Refunds.  A refund that is about to commit holds the lock of its charge *)
(* and still fits it; without the lock two refunds that both fit alone     *)
(* would be committed together.                                            *)

RefundFits(c) ==
    LET p == payments[req[c].target]
    IN  refundLock[req[c].target] = c /\ p.refunded + req[c].amount <= p.amount

RefundInv == /\ NoOverRefund
             /\ \A c \in Calls : Commits(c, "refund") => RefundFits(c)

\* The refunds and the amount of a charge that exists do not change.
AmountsKept == \A k \in Keys :
    /\ payments'[k].refunded <= payments'[k].amount
    /\ Exists(payments, k) => /\ payments'[k].refunded = payments[k].refunded
                              /\ payments'[k].amount = payments[k].amount

\* What c's step leaves to the other calls.
OthersKept(c) ==
    /\ \A d \in Calls \ {c} : pc'[d] = pc[d] /\ req'[d] = req[d]
    /\ refundLock' = refundLock \/ refundLock' = Unlocked(refundLock, c)

\* A step that touches no refund keeps every refund's claim.
LEMMA RefundInvKept ==
  ASSUME TypeInv, RefundInv, NEW c \in Calls, AmountsKept, OthersKept(c),
         ~(pc'[c] = "commit" /\ req'[c].op = "refund")
  PROVE  RefundInv'
  <1>1. NoOverRefund'
    BY DEF AmountsKept, NoOverRefund
  <1>2. ASSUME NEW d \in Calls, Commits(d, "refund")' PROVE RefundFits(d)'
    <2>1. d # c /\ pc'[d] = pc[d] /\ req'[d] = req[d]
      BY <1>2 DEF OthersKept, Commits
    <2>2. Commits(d, "refund") /\ RefundFits(d)
      BY <1>2, <2>1 DEF Commits, RefundInv
    <2>3. req[d].target \in Keys /\ Exists(payments, req[d].target)
      BY <2>2, Committing, RequestFields DEF TypeInv, ChargesExist
    <2>4. refundLock'[req[d].target] = d
      BY <2>1, <2>2, <2>3 DEF OthersKept, RefundFits, Unlocked, TypeInv, LocksType
    <2> QED BY <2>1, <2>2, <2>3, <2>4 DEF RefundFits, AmountsKept
  <1> QED BY <1>1, <1>2 DEF RefundInv

\* Steps that write no payment row keep the amounts.
LEMMA NoPaymentWritten ==
  ASSUME RefundInv, UNCHANGED payments
  PROVE  AmountsKept
  BY DEF RefundInv, NoOverRefund, AmountsKept

\* A call that answers, or goes on with another request than a refund.
LEMMA RefundQuiet ==
  ASSUME TypeInv, NEW c \in Calls,
         \/ RegisterRead(c) \/ RegisterCommit(c) \/ IntentRead(c) \/ IntentCommit(c)
         \/ QueryRead(c) \/ CancelRead(c) \/ TerminalAnswers(c) \/ ResultRead(c)
         \/ ResultCommit(c) \/ Edit(c) \/ Closing(c) \/ Crash(c)
  PROVE  OthersKept(c) /\ ~(pc'[c] = "commit" /\ req'[c].op = "refund")
  <1>1. /\ \A r, a : Reply(c, r, a) =>
             /\ \A d \in Calls \ {c} : pc'[d] = pc[d] /\ req'[d] = req[d]
             /\ pc'[c] = "done"
        /\ \A r, s : Proceed(c, r, s) =>
             /\ \A d \in Calls \ {c} : pc'[d] = pc[d] /\ req'[d] = req[d]
             /\ req'[c] = r
        /\ \A r : AwaitTerminal(c, r) =>
             /\ \A d \in Calls \ {c} : pc'[d] = pc[d] /\ req'[d] = req[d]
             /\ pc'[c] = "terminal"
    BY DEF TypeInv, CallsOK, CallsType, Reply, Proceed, AwaitTerminal
  <1>2. CASE RegisterRead(c) \/ RegisterCommit(c)
    BY <1>1, <1>2 DEF RegisterRead, RegisterCommit, Begins, Finish, Release, OthersKept
  <1>3. CASE IntentRead(c) \/ IntentCommit(c)
    BY <1>1, <1>3 DEF IntentRead, IntentCommit, Begins, Finish, Release, OthersKept
  <1>4. CASE QueryRead(c) \/ CancelRead(c)
    BY <1>1, <1>4 DEF QueryRead, CancelRead, OthersKept, locks
  <1>5. CASE TerminalAnswers(c) \/ ResultRead(c) \/ ResultCommit(c)
    BY <1>1, <1>5 DEF TerminalAnswers, ResultRead, ResultCommit, Finish, OthersKept, locks,
                      TypeInv, CallsOK, CallsType
  <1>6. CASE Edit(c)
    BY <1>1, <1>6 DEF Edit, AddItemRead, AddItemCommit, DiscountNow, DiscountRead,
                      DiscountCommit, CancelItemNow, CancelItemRead, CancelItemCommit,
                      Begins, Finish, OthersKept, locks
  <1>7. CASE Closing(c)
    BY <1>1, <1>7 DEF Closing, CloseRead, CloseCommit, WriteOffRead, WriteOffCommit,
                      Begins, Finish, OthersKept, locks
  <1>8. CASE Crash(c)
    BY <1>1, <1>8 DEF Crash, Finish, Release, OthersKept
  <1> QED BY <1>2, <1>3, <1>4, <1>5, <1>6, <1>7, <1>8

\* Charges are new rows with nothing refunded, and a terminal's answer
\* changes neither amount.
LEMMA ChargeWritten ==
  ASSUME TypeInv, RefundInv, NEW c \in Calls,
         RegisterCommit(c) \/ IntentCommit(c) \/ ResultCommit(c)
  PROVE  AmountsKept
  <1>1. CASE RegisterCommit(c) \/ IntentCommit(c)
    <2>1. CASE UNCHANGED payments
      BY <2>1, NoPaymentWritten
    <2>2. CASE /\ ~Exists(payments, req[c].key)
               /\ \E m, st : payments' = [payments EXCEPT ![req[c].key] = ChargeRow(req[c], m, st)]
      <3>1. req[c].amount \in Nat
        BY <1>1, Committing, RequestFields DEF RegisterCommit, IntentCommit
      <3> QED BY <2>2, <3>1 DEF AmountsKept, RefundInv, NoOverRefund, ChargeRow, TypeInv, RowsOK,
                                RowsType, Exists
    <2> QED BY <1>1, <2>1, <2>2 DEF RegisterCommit, IntentCommit, PutPayment, Exists
  <1>2. CASE ResultCommit(c)
    <2>1. CASE UNCHANGED payments
      BY <2>1, NoPaymentWritten
    <2>2. CASE payments' = [payments EXCEPT ![req[c].key] =
                  [payments[req[c].key] EXCEPT !.status = snap[c].result,
                                               !.version = snap[c].pversion + 1]]
      BY <2>2 DEF AmountsKept, RefundInv, NoOverRefund, TypeInv, RowsOK, RowsType, PaymentRow
    <2> QED BY <1>2, <2>1, <2>2 DEF ResultCommit, PutPayment
  <1> QED BY <1>1, <1>2

\* A refund that reads takes the lock of its charge after checking that it fits.
LEMMA RefundReadFits ==
  ASSUME TypeInv, RefundInv, NEW c \in Calls, RefundRead(c)
  PROVE  RefundInv'
  <1>1. PICK r \in Requests :
          \/ (\E a : Reply(c, r, a)) /\ UNCHANGED refundLock
          \/ /\ \E s : Proceed(c, r, s)
             /\ LockFree(refundLock, r.target)
             /\ payments[r.target].refunded + r.amount <= payments[r.target].amount
             /\ refundLock' = [refundLock EXCEPT ![r.target] = c]
    BY DEF RefundRead
  <1>2. payments' = payments
    BY DEF RefundRead, rows
  <1>3. NoOverRefund'
    BY <1>2 DEF RefundInv, NoOverRefund
  <1>4. CASE (\E a : Reply(c, r, a)) /\ UNCHANGED refundLock
    BY <1>2, <1>4, NoPaymentWritten, RefundInvKept
    DEF OthersKept, Reply, TypeInv, CallsOK, CallsType
  <1>5. ASSUME NEW s, Proceed(c, r, s), LockFree(refundLock, r.target),
               payments[r.target].refunded + r.amount <= payments[r.target].amount,
               refundLock' = [refundLock EXCEPT ![r.target] = c]
        PROVE  RefundInv'
    <2>1. /\ req'[c] = r
          /\ \A d \in Calls \ {c} : pc'[d] = pc[d] /\ req'[d] = req[d]
      BY <1>5 DEF Proceed, TypeInv, CallsOK, CallsType
    <2>2. r.target \in Keys /\ refundLock \in [Keys -> Calls \cup {None}] /\ None \notin Calls
      BY RequestFields, NoneAssumption DEF TypeInv, LocksType
    <2>3. RefundFits(c)'
      BY <1>2, <1>5, <2>1, <2>2 DEF RefundFits
    <2>4. ASSUME NEW d \in Calls \ {c}, Commits(d, "refund")' PROVE RefundFits(d)'
      <3>1. Commits(d, "refund") /\ RefundFits(d) /\ req'[d] = req[d]
        BY <2>1, <2>4 DEF Commits, RefundInv
      <3>2. refundLock[req[d].target] = d /\ req[d].target # r.target
        BY <1>5, <2>2, <3>1 DEF RefundFits, LockFree
      <3> QED BY <1>2, <1>5, <2>2, <3>1, <3>2 DEF RefundFits
    <2> QED BY <1>3, <2>3, <2>4 DEF RefundInv
  <1> QED BY <1>1, <1>4, <1>5

\* A refund commits what it read: no other refund of the charge could.
LEMMA RefundCommitFits ==
  ASSUME TypeInv, RefundInv, NEW c \in Calls, RefundCommit(c)
  PROVE  RefundInv'
  <1> DEFINE r == req[c]
             p == payments[r.target]
             charge == Refunded(p, snap[c], r.amount)
  <1>1. /\ r.target \in Keys /\ r.key \in Keys /\ r.amount \in Nat /\ p \in PaymentRow
        /\ snap[c] \in SnapType /\ p.status # "absent"
    BY Committing, RequestFields DEF RefundCommit, TypeInv, RowsOK, RowsType, ChargesExist, Exists
  <1>2. RefundFits(c) /\ p.refunded + r.amount <= p.amount
    BY DEF RefundCommit, RefundInv, RefundFits
  <1>3. charge.refunded = p.refunded + r.amount /\ charge.amount = p.amount
    BY <1>1, RefundedType
  <1>4. OthersKept(c) /\ pc'[c] = "done"
    BY DEF RefundCommit, Finish, Reply, Release, OthersKept, TypeInv, CallsOK, CallsType
  <1>5. CASE UNCHANGED payments
    BY <1>4, <1>5, NoPaymentWritten, RefundInvKept
  <1>6. CASE /\ ~Exists(payments, r.key)
             /\ payments' = [payments EXCEPT ![r.target] = charge, ![r.key] = RefundRow(p, r)]
    <2>1. payments \in [Keys -> PaymentRow] /\ r.key # r.target
      BY <1>1, <1>6 DEF Exists, TypeInv, RowsOK, RowsType
    <2>2. /\ payments'[r.target] = charge /\ payments'[r.key] = RefundRow(p, r)
          /\ \A k \in Keys \ {r.target, r.key} : payments'[k] = payments[k]
      BY <1>1, <1>6, <2>1
    <2>3. NoOverRefund'
      BY <1>1, <1>2, <1>3, <2>1, <2>2 DEF NoOverRefund, RefundInv, RefundRow
    <2>4. ASSUME NEW d \in Calls, Commits(d, "refund")' PROVE RefundFits(d)'
      <3>1. d # c /\ Commits(d, "refund") /\ RefundFits(d) /\ req'[d] = req[d]
        BY <1>4, <2>4 DEF Commits, OthersKept, RefundInv
      <3>2. req[d].target \in Keys /\ Exists(payments, req[d].target)
        BY <3>1, Committing, RequestFields DEF TypeInv, ChargesExist
      <3>3. req[d].target # r.target /\ req[d].target # r.key
        BY <1>2, <1>6, <3>1, <3>2 DEF RefundFits
      <3>4. refundLock'[req[d].target] = d
        BY <1>4, <3>1, <3>2 DEF OthersKept, RefundFits, Unlocked, TypeInv, LocksType
      <3> QED BY <2>2, <3>1, <3>2, <3>3, <3>4 DEF RefundFits
    <2> QED BY <2>3, <2>4 DEF RefundInv
  <1> QED BY <1>5, <1>6 DEF RefundCommit, Exists

\* Every step keeps the refunds within their charges.
LEMMA RefundInvNext == TypeInv /\ RefundInv /\ [Next]_ledgerVars => RefundInv'
  <1> SUFFICES ASSUME TypeInv, RefundInv, [Next]_ledgerVars PROVE RefundInv'
    OBVIOUS
  <1>1. ASSUME NEW c \in Calls,
               RegisterCommit(c) \/ IntentCommit(c) \/ ResultCommit(c)
        PROVE  RefundInv'
    BY <1>1, ChargeWritten, RefundQuiet, RefundInvKept
  <1>2. ASSUME NEW c \in Calls,
               \/ RegisterRead(c) \/ IntentRead(c) \/ QueryRead(c) \/ CancelRead(c)
               \/ TerminalAnswers(c) \/ ResultRead(c) \/ Edit(c) \/ Closing(c) \/ Crash(c)
        PROVE  RefundInv'
    <2>1. UNCHANGED payments
      BY <1>2 DEF RegisterRead, IntentRead, QueryRead, CancelRead, TerminalAnswers, ResultRead,
                  Edit, AddItemRead, AddItemCommit, DiscountNow, DiscountRead, DiscountCommit,
                  CancelItemNow, CancelItemRead, CancelItemCommit, Closing, CloseRead,
                  CloseCommit, WriteOffRead, WriteOffCommit, Crash, rows
    <2> QED BY <1>2, <2>1, NoPaymentWritten, RefundQuiet, RefundInvKept
  <1>3. ASSUME NEW c \in Calls, RefundRead(c) \/ RefundCommit(c) PROVE RefundInv'
    BY <1>3, RefundReadFits, RefundCommitFits
  <1>4. CASE UNCHANGED ledgerVars
    BY <1>4 DEF ledgerVars, rows, locks, ctl, RefundInv, NoOverRefund, Commits, RefundFits
  <1> QED BY <1>1, <1>2, <1>3, <1>4 DEF Next, AllServed, Serve, Payment, Terminal

\* refundPayment, for any number of concurrent refunds, charges, terminal
\* answers and dying servers: what is refunded of a charge never exceeds it.
THEOREM RefundsFitCharges == Spec => []NoOverRefund
  <1>1. Init => RefundInv
    BY DEF Init, RefundInv, NoOverRefund, AbsentPayment, Commits
  <1>2. RefundInv => NoOverRefund
    BY DEF RefundInv
  <1> QED BY <1>1, <1>2, TypeInvInit, TypeInvNext, RefundInvNext, PTL DEF Spec
-----------------------------------------------------------------------------
(* The version of an order row.  When no order edit is run from an         *)
(* approval, every write raises the version, so a snapshot whose version   *)
(* still matches is the row as it stands.  With approved edits this fails: *)
(* the run ledgerApprovalClosesTwice shows how.                            *)

NoApprovedEdit == \A r \in Requests : ~r.approved

VersionedOps == {"register", "addItem", "close", "writeOff"}

Fresh(c) ==
    LET o == req[c].order
        s == snap[c]
    IN  /\ s.version <= orders[o].version
        /\ s.version = orders[o].version =>
              /\ s.subtotal = orders[o].subtotal /\ s.discount = orders[o].discount
              /\ s.live = live[o]
              /\ req[c].op \in {"close", "writeOff"} => ~orders[o].closed

EditInv == /\ TotalsAgree /\ SoldOnce
           /\ \A c \in Calls : pc[c] = "commit" /\ req[c].op \in VersionedOps => Fresh(c)

\* Order o is left alone, or gets a higher version.
Grows(o) == \/ orders'[o] = orders[o] /\ live'[o] = live[o] /\ sold'[o] = sold[o]
            \/ orders'[o].version > orders[o].version

\* The amounts and the stock of o agree after the step.
Agrees(o) == /\ live'[o] = orders'[o].subtotal
             /\ orders'[o].total = orders'[o].subtotal - orders'[o].discount
             /\ sold'[o] <= 1 /\ (sold'[o] = 1 => orders'[o].closed)

OthersWait(c) ==
    \A d \in Calls \ {c} : pc'[d] = pc[d] /\ req'[d] = req[d] /\ snap'[d] = snap[d]

\* A step of c that only raises versions leaves the other calls' snapshots
\* either faithful or out of date.
LEMMA EditInvKept ==
  ASSUME TypeInv, TypeInv', EditInv, NEW c \in Calls, OthersWait(c),
         \A o \in Orders : Grows(o) /\ Agrees(o),
         pc'[c] = "commit" /\ req'[c].op \in VersionedOps => Fresh(c)'
  PROVE  EditInv'
  <1>1. TotalsAgree' /\ SoldOnce'
    BY DEF Agrees, TotalsAgree, SoldOnce
  <1>2. ASSUME NEW d \in Calls \ {c}, pc'[d] = "commit", req'[d].op \in VersionedOps
        PROVE  Fresh(d)'
    <2>1. pc[d] = "commit" /\ req'[d] = req[d] /\ snap'[d] = snap[d] /\ Fresh(d)
      BY <1>2 DEF OthersWait, EditInv
    <2>2. req[d].order \in Orders /\ snap[d].version \in Int
      BY <2>1, RequestFields DEF TypeInv, CallsOK, CallsType, RequestsKnown, SnapType
    <2>3. orders[req[d].order].version \in Int
      BY <2>2 DEF TypeInv, RowsOK, RowsType, OrderRow
    <2>4. Grows(req[d].order)
      BY <2>2
    <2>5. CASE orders'[req[d].order] = orders[req[d].order] /\ live'[req[d].order] = live[req[d].order]
      BY <2>1, <2>5 DEF Fresh
    <2>6. CASE orders'[req[d].order].version > orders[req[d].order].version
      <3>1. orders'[req[d].order].version \in Int
        BY <2>2 DEF TypeInv, RowsOK, RowsType, OrderRow
      <3> QED BY <2>1, <2>2, <2>3, <2>6, <3>1 DEF Fresh
    <2> QED BY <2>4, <2>5, <2>6 DEF Grows
  <1> QED BY <1>1, <1>2 DEF EditInv

\* No order, item or stock is written.
LEMMA NothingEdited ==
  ASSUME TypeInv, EditInv, UNCHANGED <<orders, live, sold>>
  PROVE  \A o \in Orders : Grows(o) /\ Agrees(o)
  BY DEF EditInv, TotalsAgree, SoldOnce, Grows, Agrees

\* A new status leaves amounts and stock alone.
LEMMA StatusEdited ==
  ASSUME TypeInv, EditInv, NEW x \in Orders, NEW st, SetStatus(x, st), UNCHANGED <<live, sold>>
  PROVE  \A o \in Orders : Grows(o) /\ Agrees(o)
  <1>1. orders[x] \in OrderRow
    BY DEF TypeInv, RowsOK, RowsType
  <1>2. \A o \in Orders \ {x} : orders'[o] = orders[o]
    BY DEF SetStatus, TypeInv, RowsOK, RowsType
  <1>3. orders'[x] = [orders[x] EXCEPT !.status = st, !.version = orders[x].version + 1]
    BY DEF SetStatus, TypeInv, RowsOK, RowsType
  <1>4. /\ orders'[x].version = orders[x].version + 1 /\ orders'[x].subtotal = orders[x].subtotal
        /\ orders'[x].total = orders[x].total /\ orders'[x].discount = orders[x].discount
        /\ orders'[x].closed = orders[x].closed
    BY <1>1, <1>3 DEF OrderRow
  <1> QED BY <1>1, <1>2, <1>4 DEF EditInv, TotalsAgree, SoldOnce, Grows, Agrees, OrderRow

\* The calls of the actions that are not edits.
LEMMA PaymentQuiet ==
  ASSUME TypeInv, NEW c \in Calls, Payment(c) \/ Terminal(c) \/ Crash(c), ~RegisterRead(c)
  PROVE  OthersWait(c) /\ ~(pc'[c] = "commit" /\ req'[c].op \in VersionedOps)
  <1>1. /\ \A r, a : Reply(c, r, a) => OthersWait(c) /\ pc'[c] = "done"
        /\ \A r, s : Proceed(c, r, s) => OthersWait(c) /\ req'[c] = r
        /\ \A r : AwaitTerminal(c, r) => OthersWait(c) /\ pc'[c] = "terminal"
    BY DEF TypeInv, CallsOK, CallsType, Reply, Proceed, AwaitTerminal, OthersWait
  <1>2. CASE RegisterCommit(c) \/ RefundRead(c) \/ RefundCommit(c)
    BY <1>1, <1>2 DEF RegisterCommit, RefundRead, RefundCommit, Begins, Finish, VersionedOps
  <1>3. CASE IntentRead(c) \/ IntentCommit(c) \/ QueryRead(c) \/ CancelRead(c)
    BY <1>1, <1>3 DEF IntentRead, IntentCommit, QueryRead, CancelRead, Begins, Finish, VersionedOps
  <1>4. CASE TerminalAnswers(c) \/ ResultRead(c) \/ ResultCommit(c)
    BY <1>1, <1>4 DEF TerminalAnswers, ResultRead, ResultCommit, Finish, OthersWait,
                      TypeInv, CallsOK, CallsType
  <1>5. CASE Crash(c)
    BY <1>1, <1>5 DEF Crash, Finish
  <1> QED BY <1>2, <1>3, <1>4, <1>5 DEF Payment, Terminal

\* Payments change at most the status of an order.
LEMMA PaymentEdits ==
  ASSUME TypeInv, TypeInv', EditInv, NEW c \in Calls, Payment(c) \/ Terminal(c) \/ Crash(c),
         ~RegisterRead(c)
  PROVE  EditInv'
  <1>1. CASE \E x \in Orders : \E st : SetStatus(x, st) /\ UNCHANGED <<live, sold>>
    BY <1>1, StatusEdited, PaymentQuiet, EditInvKept
  <1>2. CASE UNCHANGED <<orders, live, sold>>
    BY <1>2, NothingEdited, PaymentQuiet, EditInvKept
  <1>3. CASE RegisterCommit(c)
    <2>1. req[c].order \in Orders
      BY <1>3, Committing, RequestFields DEF RegisterCommit
    <2> QED BY <1>1, <1>2, <1>3, <2>1 DEF RegisterCommit
  <1>4. CASE ResultCommit(c)
    <2>1. payments[req[c].key].order \in Orders
      BY <1>4, AnsweredCharge DEF ResultCommit
    <2> QED BY <1>1, <1>2, <1>4, <2>1 DEF ResultCommit
  <1>5. CASE \/ RefundRead(c) \/ RefundCommit(c) \/ IntentRead(c) \/ IntentCommit(c)
             \/ QueryRead(c) \/ CancelRead(c) \/ TerminalAnswers(c) \/ ResultRead(c) \/ Crash(c)
    BY <1>2, <1>5 DEF RefundRead, RefundCommit, IntentRead, IntentCommit, QueryRead, CancelRead,
                      TerminalAnswers, ResultRead, Crash, rows
  <1> QED BY <1>3, <1>4, <1>5 DEF Payment, Terminal

\* A transaction that has read the order has a faithful snapshot.
LEMMA ReadIsFresh ==
  ASSUME TypeInv, EditInv, NEW c \in Calls, NEW r \in Requests, NEW st, UNCHANGED rows,
         Proceed(c, r, Snap(r.order, st)),
         r.op \in {"close", "writeOff"} => ~orders[r.order].closed
  PROVE  Fresh(c)'
  <1>1. req'[c] = r /\ snap'[c] = Snap(r.order, st)
    BY DEF Proceed, TypeInv, CallsOK, CallsType
  <1>2. orders' = orders /\ live' = live
    BY DEF rows
  <1>3. orders[r.order].version \in Int
    BY RequestFields DEF TypeInv, RowsOK, RowsType, OrderRow
  <1> QED BY <1>1, <1>2, <1>3 DEF Fresh, Snap

\* The reading steps of the version-checked operations.
LEMMA ReadEdits ==
  ASSUME TypeInv, TypeInv', EditInv, NEW c \in Calls, NEW r \in Requests, UNCHANGED rows,
         \/ \E a : Reply(c, r, a)
         \/ /\ \E st : Proceed(c, r, Snap(r.order, st))
            /\ r.op \in {"close", "writeOff"} => ~orders[r.order].closed
  PROVE  EditInv'
  <1>1. OthersWait(c)
    BY DEF OthersWait, Reply, Proceed, TypeInv, CallsOK, CallsType
  <1>2. \A o \in Orders : Grows(o) /\ Agrees(o)
    BY NothingEdited DEF rows
  <1>3. CASE \E a : Reply(c, r, a)
    <2>1. pc'[c] = "done"
      BY <1>3 DEF Reply, TypeInv, CallsOK, CallsType
    <2> QED BY <1>1, <1>2, <2>1, EditInvKept
  <1>4. CASE /\ \E st : Proceed(c, r, Snap(r.order, st))
             /\ r.op \in {"close", "writeOff"} => ~orders[r.order].closed
    BY <1>1, <1>2, <1>4, ReadIsFresh, EditInvKept
  <1> QED BY <1>3, <1>4

\* So do the reading steps, when no edit is approved.
LEMMA ReadingStepEdits ==
  ASSUME TypeInv, TypeInv', EditInv, NoApprovedEdit, NEW c \in Calls,
         \/ RegisterRead(c) \/ AddItemRead(c) \/ CloseRead(c) \/ WriteOffRead(c)
         \/ DiscountRead(c) \/ CancelItemRead(c)
  PROVE  EditInv'
  <1>1. CASE RegisterRead(c)
    <2>1. PICK r \in Requests :
            /\ Begins(c, r, "register")
            /\ (\E a : Reply(c, r, a)) \/ \E st : Proceed(c, r, Snap(r.order, st))
      BY <1>1 DEF RegisterRead
    <2> QED BY <1>1, <2>1, ReadEdits DEF RegisterRead, Begins
  <1>2. CASE AddItemRead(c)
    <2>1. PICK r \in Requests :
            /\ Begins(c, r, "addItem")
            /\ (\E a : Reply(c, r, a)) \/ Proceed(c, r, Snap(r.order, orders[r.order].status))
      BY <1>2 DEF AddItemRead, OrderSnap
    <2> QED BY <1>2, <2>1, ReadEdits DEF AddItemRead, Begins
  <1>3. CASE CloseRead(c) \/ WriteOffRead(c)
    <2>1. PICK r \in Requests :
            \/ \E a : Reply(c, r, a)
            \/ /\ Proceed(c, r, Snap(r.order, orders[r.order].status))
               /\ ~orders[r.order].closed
      BY <1>3 DEF CloseRead, WriteOffRead, OrderSnap
    <2> QED BY <1>3, <2>1, ReadEdits DEF CloseRead, WriteOffRead
  <1>4. CASE DiscountRead(c) \/ CancelItemRead(c)
    BY <1>4 DEF DiscountRead, CancelItemRead, NoApprovedEdit
  <1> QED BY <1>1, <1>2, <1>3, <1>4

\* An operation that writes order x, and answers.
LEMMA WritingStepEdits ==
  ASSUME TypeInv, TypeInv', EditInv, NEW c \in Calls, NEW x \in Orders,
         \E r, a : Reply(c, r, a),
         \A o \in Orders \ {x} : /\ orders'[o] = orders[o] /\ live'[o] = live[o]
                                 /\ sold'[o] = sold[o],
         orders'[x].version > orders[x].version, Agrees(x)
  PROVE  EditInv'
  <1>1. OthersWait(c) /\ pc'[c] = "done"
    BY DEF OthersWait, Reply, TypeInv, CallsOK, CallsType
  <1>2. \A o \in Orders : Grows(o) /\ Agrees(o)
    BY DEF Grows, Agrees, EditInv, TotalsAgree, SoldOnce
  <1> QED BY <1>1, <1>2, EditInvKept

\* An operation that writes nothing, and answers.
LEMMA AnsweringStepEdits ==
  ASSUME TypeInv, TypeInv', EditInv, NEW c \in Calls, \E r, a : Reply(c, r, a),
         UNCHANGED <<orders, live, sold>>
  PROVE  EditInv'
  <1>1. OthersWait(c) /\ pc'[c] = "done"
    BY DEF OthersWait, Reply, TypeInv, CallsOK, CallsType
  <1> QED BY <1>1, NothingEdited, EditInvKept

\* An item added under the version it was read at.
LEMMA AddItemCommitEdits ==
  ASSUME TypeInv, TypeInv', EditInv, NEW c \in Calls, AddItemCommit(c)
  PROVE  EditInv'
  <1> DEFINE r == req[c]
             x == r.order
             row == orders[x]
             s == snap[c]
             subtotal == s.subtotal + Price[r.item]
  <1>1. /\ x \in Orders /\ r.item \in Items /\ Price[r.item] \in Nat
        /\ s \in SnapType /\ row \in OrderRow
    BY Committing, RequestFields, PriceAssumption DEF AddItemCommit, TypeInv, RowsOK, RowsType
  <1>2. CASE UNCHANGED <<orders, items, live>>
    BY <1>2, AnsweringStepEdits DEF AddItemCommit, Finish
  <1>3. CASE /\ Current(c)
             /\ live' = [live EXCEPT ![x] = live[x] + Price[r.item]]
             /\ orders' = [orders EXCEPT ![x] = [row EXCEPT !.subtotal = subtotal,
                            !.total = subtotal - s.discount, !.version = row.version + 1]]
    <2>1. Fresh(c)
      BY DEF AddItemCommit, Commits, EditInv, VersionedOps
    <2>2. s.subtotal = row.subtotal /\ s.discount = row.discount /\ row.subtotal = live[x]
      BY <1>1, <1>3, <2>1 DEF Fresh, Current, EditInv, TotalsAgree
    <2>3. /\ orders'[x].version = row.version + 1
          /\ orders'[x].subtotal = subtotal
          /\ orders'[x].total = subtotal - s.discount
          /\ orders'[x].discount = row.discount /\ orders'[x].closed = row.closed
      BY <1>1, <1>3 DEF OrderRow, TypeInv, RowsOK, RowsType
    <2>4. live'[x] = live[x] + Price[r.item] /\ sold'[x] = sold[x]
      BY <1>1, <1>3 DEF TypeInv, RowsOK, RowsType, AddItemCommit
    <2>5. Agrees(x)
      BY <1>1, <2>2, <2>3, <2>4 DEF Agrees, EditInv, SoldOnce, OrderRow, SnapType
    <2>6. orders'[x].version > row.version
      BY <1>1, <2>3 DEF OrderRow
    <2>7. \A o \in Orders \ {x} : orders'[o] = orders[o] /\ live'[o] = live[o] /\ sold'[o] = sold[o]
      BY <1>3 DEF TypeInv, RowsOK, RowsType, AddItemCommit
    <2>8. \E q, a : Reply(c, q, a)
      BY DEF AddItemCommit, Finish
    <2> QED BY <1>1, <2>5, <2>6, <2>7, <2>8, WritingStepEdits
  <1> QED BY <1>2, <1>3 DEF AddItemCommit

\* A discount under the row lock.
LEMMA DiscountEdits ==
  ASSUME TypeInv, TypeInv', EditInv, NEW c \in Calls, DiscountNow(c)
  PROVE  EditInv'
  <1>1. PICK r \in Requests :
          /\ \/ orders' = orders
             \/ /\ r.amount \in 1 .. orders[r.order].subtotal
                /\ WriteDiscount(r.order, OrderSnap(r.order), r.amount)
          /\ \E a : Reply(c, r, a)
          /\ UNCHANGED <<sold, items, live, payments, paid, locks>>
    BY DEF DiscountNow
  <1> DEFINE x == r.order
             row == orders[x]
  <1>2. x \in Orders /\ row \in OrderRow
    BY RequestFields DEF TypeInv, RowsOK, RowsType
  <1>3. CASE orders' = orders
    BY <1>1, <1>3, AnsweringStepEdits
  <1>4. CASE /\ r.amount \in 1 .. row.subtotal
             /\ WriteDiscount(x, OrderSnap(x), r.amount)
    <2>1. orders' = [orders EXCEPT ![x] = [row EXCEPT !.discount = r.amount,
                        !.total = Max0(row.subtotal - r.amount), !.version = row.version + 1]]
      BY <1>4 DEF WriteDiscount, OrderSnap, Snap
    <2>2. Max0(row.subtotal - r.amount) = row.subtotal - r.amount
      BY <1>2, <1>4 DEF Max0, OrderRow
    <2>3. /\ orders'[x].version = row.version + 1 /\ orders'[x].subtotal = row.subtotal
          /\ orders'[x].total = row.subtotal - r.amount /\ orders'[x].discount = r.amount
          /\ orders'[x].closed = row.closed
      BY <1>2, <2>1, <2>2 DEF OrderRow, TypeInv, RowsOK, RowsType
    <2>4. \A o \in Orders \ {x} : orders'[o] = orders[o] /\ live'[o] = live[o] /\ sold'[o] = sold[o]
      BY <1>1, <2>1 DEF TypeInv, RowsOK, RowsType
    <2>5. Agrees(x)
      BY <1>1, <1>2, <2>3 DEF Agrees, EditInv, TotalsAgree, SoldOnce
    <2>6. orders'[x].version > row.version
      BY <1>2, <2>3 DEF OrderRow
    <2> QED BY <1>1, <1>2, <2>4, <2>5, <2>6, WritingStepEdits
  <1> QED BY <1>1, <1>3, <1>4

\* A cancellation under the row lock.
LEMMA CancelItemEdits ==
  ASSUME TypeInv, TypeInv', EditInv, NEW c \in Calls, CancelItemNow(c)
  PROVE  EditInv'
  <1>1. PICK r \in Requests :
          /\ \/ UNCHANGED <<orders, items, live>>
             \/ /\ Cancelable(r)
                /\ WriteCancellation(r.order, r.item, OrderSnap(r.order))
          /\ \E a : Reply(c, r, a)
          /\ UNCHANGED <<sold, payments, paid, locks>>
    BY DEF CancelItemNow
  <1> DEFINE x == r.order
             row == orders[x]
             left == live[x] - Price[r.item]
             discount == Least(row.discount, left)
  <1>2. x \in Orders /\ row \in OrderRow /\ live[x] \in Int /\ Price[r.item] \in Nat
    BY RequestFields, PriceAssumption DEF TypeInv, RowsOK, RowsType
  <1>3. CASE UNCHANGED <<orders, items, live>>
    BY <1>1, <1>3, AnsweringStepEdits
  <1>4. CASE Cancelable(r) /\ WriteCancellation(x, r.item, OrderSnap(x))
    <2>1. orders' = [orders EXCEPT ![x] = [row EXCEPT !.subtotal = left, !.discount = discount,
                        !.total = Max0(left - discount), !.version = row.version + 1]]
      BY <1>4 DEF WriteCancellation, OrderSnap, Snap
    <2>2. left \in Int /\ discount \in Int /\ Max0(left - discount) = left - discount
      BY <1>2 DEF Max0, Least, OrderRow
    <2>3. live' = [live EXCEPT ![x] = live[x] - Price[r.item]]
      BY <1>4 DEF WriteCancellation, Cancelable
    <2>4. live'[x] = left
      BY <1>2, <2>3 DEF TypeInv, RowsOK, RowsType
    <2> HIDE DEF left, discount
    <2>5. /\ orders'[x].version = row.version + 1 /\ orders'[x].subtotal = left
          /\ orders'[x].total = left - discount /\ orders'[x].discount = discount
          /\ orders'[x].closed = row.closed
      BY <1>2, <2>1, <2>2 DEF OrderRow, TypeInv, RowsOK, RowsType
    <2>6. \A o \in Orders \ {x} : orders'[o] = orders[o] /\ live'[o] = live[o] /\ sold'[o] = sold[o]
      BY <1>1, <2>1, <2>3 DEF TypeInv, RowsOK, RowsType
    <2>7. Agrees(x)
      BY <1>1, <1>2, <2>4, <2>5 DEF Agrees, EditInv, SoldOnce
    <2>8. orders'[x].version > row.version
      BY <1>2, <2>5 DEF OrderRow
    <2> QED BY <1>1, <1>2, <2>6, <2>7, <2>8, WritingStepEdits
  <1> QED BY <1>1, <1>3, <1>4

\* An order closed or written off under the version it was read at.
LEMMA ClosingEdits ==
  ASSUME TypeInv, TypeInv', EditInv, NEW c \in Calls, CloseCommit(c) \/ WriteOffCommit(c)
  PROVE  EditInv'
  <1> DEFINE x == req[c].order
             row == orders[x]
  <1>1. x \in Orders /\ row \in OrderRow /\ sold[x] \in Nat
    BY Committing, RequestFields DEF CloseCommit, WriteOffCommit, TypeInv, RowsOK, RowsType
  <1>2. Fresh(c) /\ req[c].op \in {"close", "writeOff"}
    BY DEF CloseCommit, WriteOffCommit, Commits, EditInv, VersionedOps
  <1>3. CASE UNCHANGED <<orders, sold>>
    BY <1>3, AnsweringStepEdits DEF CloseCommit, WriteOffCommit, Finish
  <1>4. CASE /\ Current(c)
             /\ \E st : orders' = [orders EXCEPT ![x] = [row EXCEPT !.status = st, !.closed = TRUE,
                                                                    !.version = row.version + 1]]
             /\ sold' = sold \/ sold' = [sold EXCEPT ![x] = sold[x] + 1]
             /\ \E q, a : Reply(c, q, a)
             /\ live' = live
    <2>1. ~row.closed /\ sold[x] = 0
      BY <1>1, <1>2, <1>4 DEF Fresh, Current, EditInv, SoldOnce
    <2>2. PICK st : orders' = [orders EXCEPT ![x] = [row EXCEPT !.status = st, !.closed = TRUE,
                                                                !.version = row.version + 1]]
      BY <1>4
    <2>3. /\ orders'[x].version = row.version + 1 /\ orders'[x].subtotal = row.subtotal
          /\ orders'[x].total = row.total /\ orders'[x].discount = row.discount
          /\ orders'[x].closed = TRUE
      BY <1>1, <2>2 DEF OrderRow, TypeInv, RowsOK, RowsType
    <2>4. sold'[x] \in {0, 1} /\ \A o \in Orders \ {x} : sold'[o] = sold[o]
      BY <1>1, <1>4, <2>1 DEF TypeInv, RowsOK, RowsType
    <2>5. \A o \in Orders \ {x} : orders'[o] = orders[o] /\ live'[o] = live[o]
      BY <1>4, <2>2 DEF TypeInv, RowsOK, RowsType
    <2>6. Agrees(x)
      BY <1>1, <1>4, <2>3, <2>4 DEF Agrees, EditInv, TotalsAgree
    <2>7. orders'[x].version > row.version
      BY <1>1, <2>3 DEF OrderRow
    <2> QED BY <1>1, <1>4, <2>4, <2>5, <2>6, <2>7, WritingStepEdits
  <1> QED BY <1>3, <1>4 DEF CloseCommit, WriteOffCommit, Finish

\* No approved edit: no discount or cancellation is ever between its two steps.
NoEditPending == \A c \in Calls : pc[c] = "commit" => req[c].op \notin {"discount", "cancelItem"}

\* Every step keeps it so.
LEMMA NoEditPendingNext ==
  ASSUME NoApprovedEdit
  PROVE  TypeInv /\ NoEditPending /\ [Next]_ledgerVars => NoEditPending'
  <1> SUFFICES ASSUME TypeInv, NoEditPending, [Next]_ledgerVars PROVE NoEditPending'
    OBVIOUS
  <1>1. ASSUME NEW c \in Calls, Serve(c) \/ Crash(c) PROVE NoEditPending'
    <2>1. /\ \A r, a : Reply(c, r, a) => OthersWait(c) /\ pc'[c] = "done"
          /\ \A r, s : Proceed(c, r, s) => OthersWait(c) /\ req'[c] = r
          /\ \A r : AwaitTerminal(c, r) => OthersWait(c) /\ pc'[c] = "terminal"
      BY DEF TypeInv, CallsOK, CallsType, Reply, Proceed, AwaitTerminal, OthersWait
    <2>2. SUFFICES /\ OthersWait(c)
                   /\ pc'[c] = "commit" => req'[c].op \notin {"discount", "cancelItem"}
      BY <2>2 DEF OthersWait, NoEditPending
    <2>3. CASE Payment(c) \/ Crash(c)
      BY <2>1, <2>3 DEF Payment, RegisterRead, RegisterCommit, RefundRead, RefundCommit, Crash,
                        Begins, Finish
    <2>4. CASE IntentRead(c) \/ IntentCommit(c) \/ QueryRead(c) \/ CancelRead(c)
      BY <2>1, <2>4 DEF IntentRead, IntentCommit, QueryRead, CancelRead, Begins, Finish
    <2>5. CASE TerminalAnswers(c) \/ ResultRead(c) \/ ResultCommit(c)
      BY <2>1, <2>5 DEF TerminalAnswers, ResultRead, ResultCommit, Finish, OthersWait,
                        TypeInv, CallsOK, CallsType
    <2>6. CASE Edit(c)
      BY <2>1, <2>6 DEF Edit, AddItemRead, AddItemCommit, DiscountNow, DiscountRead,
                        DiscountCommit, CancelItemNow, CancelItemRead, CancelItemCommit,
                        Begins, Finish, NoApprovedEdit
    <2>7. CASE Closing(c)
      BY <2>1, <2>7 DEF Closing, CloseRead, CloseCommit, WriteOffRead, WriteOffCommit,
                        Begins, Finish
    <2> QED BY <1>1, <2>3, <2>4, <2>5, <2>6, <2>7 DEF Serve, Terminal
  <1>2. CASE UNCHANGED ledgerVars
    BY <1>2 DEF ledgerVars, ctl, NoEditPending
  <1> QED BY <1>1, <1>2 DEF Next, AllServed

\* Every step keeps amounts, stock and snapshots in agreement.
LEMMA EditInvNext ==
  ASSUME NoApprovedEdit
  PROVE  TypeInv /\ NoEditPending /\ EditInv /\ [Next]_ledgerVars => EditInv'
  <1> SUFFICES ASSUME TypeInv, TypeInv', NoEditPending, EditInv, [Next]_ledgerVars PROVE EditInv'
    BY TypeInvNext
  <1>1. ASSUME NEW c \in Calls, Payment(c) \/ Terminal(c) \/ Crash(c) PROVE EditInv'
    BY <1>1, PaymentEdits, ReadingStepEdits
  <1>2. ASSUME NEW c \in Calls, Edit(c) PROVE EditInv'
    <2>1. ~DiscountCommit(c) /\ ~CancelItemCommit(c)
      BY DEF NoEditPending, DiscountCommit, CancelItemCommit, Commits
    <2> QED BY <1>2, <2>1, ReadingStepEdits, AddItemCommitEdits, DiscountEdits, CancelItemEdits
            DEF Edit
  <1>3. ASSUME NEW c \in Calls, Closing(c) PROVE EditInv'
    BY <1>3, ReadingStepEdits, ClosingEdits DEF Closing
  <1>4. CASE UNCHANGED ledgerVars
    BY <1>4 DEF ledgerVars, rows, ctl, EditInv, TotalsAgree, SoldOnce, Fresh
  <1> QED BY <1>1, <1>2, <1>3, <1>4 DEF Next, AllServed, Serve

\* They agree at first.
LEMMA EditInvInit == Init => EditInv /\ NoEditPending
  <1> SUFFICES ASSUME Init PROVE EditInv /\ NoEditPending
    OBVIOUS
  <1>1. TotalsAgree
    BY OpeningAssumption DEF Init, TotalsAgree
  <1>2. SoldOnce
    BY DEF Init, SoldOnce
  <1> QED BY <1>1, <1>2 DEF Init, EditInv, NoEditPending

\* addItem, requestDiscount, requestItemCancellation, closeOrder and
\* writeOffOrder race payments and each other: while no edit is run from an
\* approval, the version of the order row loses none of them.
THEOREM TotalsFollowItems == ASSUME NoApprovedEdit PROVE Spec => []TotalsAgree
  <1>1. EditInv => TotalsAgree
    BY DEF EditInv
  <1> QED BY <1>1, TypeInvInit, TypeInvNext, EditInvInit, EditInvNext, NoEditPendingNext,
             PTL DEF Spec

\* closeOrder, repeated and raced by every other operation, deducts the stock
\* of an order once, while no edit is run from an approval.
THEOREM StockLeavesOnce == ASSUME NoApprovedEdit PROVE Spec => []SoldOnce
  <1>1. EditInv => SoldOnce
    BY DEF EditInv
  <1> QED BY <1>1, TypeInvInit, TypeInvNext, EditInvInit, EditInvNext, NoEditPendingNext,
             PTL DEF Spec

-----------------------------------------------------------------------------
(* The sums over the rows.  The rows are finitely many, so that a step     *)
(* which changes one row changes a sum by what it changes of the row       *)
(* (FiniteSums).  From that: the sums kept beside the rows are theirs, and *)
(* what is charged by hand fits the order.                                 *)

\* What each payment row adds to the net charges of o, to what was paid by
\* hand on it, and to the refunds of charge k; each item row to the live
\* items of o.
NetOn(rowset, o) == [k \in Keys |-> IF rowset[k].order = o THEN NetCharge(rowset[k]) ELSE 0]

ByHandOn(rowset, o) ==
    [k \in Keys |-> IF rowset[k].order = o /\ rowset[k].mode = "manual"
                    THEN NetCharge(rowset[k]) ELSE 0]

RefundedOn(rowset, k) ==
    [j \in Keys |-> IF rowset[j].type = "refund" /\ rowset[j].original = k
                    THEN rowset[j].amount ELSE 0]

LiveOn(rowset, o) ==
    [i \in Items |-> IF rowset[i] = [order |-> o, state |-> "live"] THEN Price[i] ELSE 0]

PaymentRows == [Keys -> PaymentRow]
ItemRows == [Items -> [order : Orders \cup {None}, state : {"absent", "live", "canceled"}]]

\* A net charge is a natural number, at most the amount of the charge.
LEMMA NetChargeNat == ASSUME NEW p \in PaymentRow PROVE NetCharge(p) \in Nat
  BY DEF NetCharge, Max0, PaymentRow

\* The terms are integers.
LEMMA TermsInt ==
  ASSUME NEW rowset \in PaymentRows, NEW o, NEW x \in Keys
  PROVE  /\ NetOn(rowset, o)[x] \in Nat /\ ByHandOn(rowset, o)[x] \in Nat
         /\ RefundedOn(rowset, o)[x] \in Nat
         /\ ByHandOn(rowset, o)[x] <= NetOn(rowset, o)[x]
  <1>1. rowset[x] \in PaymentRow
    BY DEF PaymentRows
  <1>2. NetCharge(rowset[x]) \in Nat /\ rowset[x].amount \in Nat
    BY <1>1, NetChargeNat DEF PaymentRow
  <1> QED BY <1>2 DEF NetOn, ByHandOn, RefundedOn

\* What an item adds to an order is a natural number.
LEMMA LiveInt ==
  ASSUME NEW rowset, NEW o, NEW i \in Items
  PROVE  LiveOn(rowset, o)[i] \in Nat
  BY PriceAssumption DEF LiveOn

\* The recomputed refunds of a charge are a sum over all payment rows,
LEMMA RefundsOfIs ==
  ASSUME NEW rowset \in PaymentRows, NEW k
  PROVE  RefundsOf(rowset, k) = Total(RefundedOn(rowset, k), Keys)
  <1> DEFINE A == {j \in Keys : rowset[j].type = "refund" /\ rowset[j].original = k}
             f == [j \in A |-> rowset[j].amount]
             P(h) == h = [s \in SUBSET A |-> IF s = {} THEN 0
                             ELSE rowset[Picked(s)].amount + h[s \ {Picked(s)}]]
  <1>1. IsFiniteSet(A) /\ A \in SUBSET Keys
    BY FiniteAssumption, FS_Subset
  <1>2. \A h : P(h) <=> Sums(h, f, A)
    BY PickedIn DEF Sums
  <1>3. RefundsOf(rowset, k) = (CHOOSE h : P(h))[A]
    BY DEF RefundsOf, MapThenSumSet, MapThenFoldSet, Picked
  <1> HIDE DEF P
  <1>4. \E h : P(h)
    BY <1>1, <1>2, SumsExist
  <1>5. P(CHOOSE h : P(h))
    BY <1>4
  <1> HIDE DEF A, f
  <1>6. RefundsOf(rowset, k) = Total(f, A)
    BY <1>1, <1>2, <1>3, <1>5, TotalIs
  <1>7. \A j \in A : f[j] = RefundedOn(rowset, k)[j]
    BY DEF A, f, RefundedOn
  <1>8. \A j \in Keys \ A : RefundedOn(rowset, k)[j] = 0
    BY DEF A, RefundedOn
  <1>9. Total(f, A) = Total(RefundedOn(rowset, k), A)
    BY <1>1, <1>7, TotalSame
  <1>10. \A j \in Keys : RefundedOn(rowset, k)[j] \in Int
    BY TermsInt
  <1> QED BY <1>1, <1>6, <1>8, <1>9, <1>10, FiniteAssumption, TotalOfPart

\* and so is what was paid by hand,
LEMMA PaidByHandIs ==
  ASSUME NEW rowset \in PaymentRows, NEW o
  PROVE  PaidByHand(rowset, o) = Total(ByHandOn(rowset, o), Keys)
  <1> DEFINE A == {k \in Keys : rowset[k].order = o /\ rowset[k].mode = "manual"}
             f == [k \in A |-> NetCharge(rowset[k])]
             P(h) == h = [s \in SUBSET A |-> IF s = {} THEN 0
                             ELSE NetCharge(rowset[Picked(s)]) + h[s \ {Picked(s)}]]
  <1>1. IsFiniteSet(A) /\ A \in SUBSET Keys
    BY FiniteAssumption, FS_Subset
  <1>2. \A h : P(h) <=> Sums(h, f, A)
    BY PickedIn DEF Sums
  <1>3. PaidByHand(rowset, o) = (CHOOSE h : P(h))[A]
    BY DEF PaidByHand, MapThenSumSet, MapThenFoldSet, Picked
  <1> HIDE DEF P
  <1>4. \E h : P(h)
    BY <1>1, <1>2, SumsExist
  <1>5. P(CHOOSE h : P(h))
    BY <1>4
  <1> HIDE DEF A, f
  <1>6. PaidByHand(rowset, o) = Total(f, A)
    BY <1>1, <1>2, <1>3, <1>5, TotalIs
  <1>7. \A k \in A : f[k] = ByHandOn(rowset, o)[k]
    BY DEF A, f, ByHandOn
  <1>8. \A k \in Keys \ A : ByHandOn(rowset, o)[k] = 0
    BY DEF A, ByHandOn
  <1>9. Total(f, A) = Total(ByHandOn(rowset, o), A)
    BY <1>1, <1>7, TotalSame
  <1>10. \A k \in Keys : ByHandOn(rowset, o)[k] \in Int
    BY TermsInt
  <1> QED BY <1>1, <1>6, <1>8, <1>9, <1>10, FiniteAssumption, TotalOfPart

\* the live items of an order,
LEMMA LiveTotalIs ==
  ASSUME NEW rowset \in ItemRows, NEW o
  PROVE  LiveTotal(rowset, o) = Total(LiveOn(rowset, o), Items)
  <1> DEFINE A == {i \in Items : rowset[i] = [order |-> o, state |-> "live"]}
             f == [i \in A |-> Price[i]]
             P(h) == h = [s \in SUBSET A |-> IF s = {} THEN 0
                             ELSE Price[Picked(s)] + h[s \ {Picked(s)}]]
  <1>1. IsFiniteSet(A) /\ A \in SUBSET Items
    BY FiniteAssumption, FS_Subset
  <1>2. \A h : P(h) <=> Sums(h, f, A)
    BY PickedIn DEF Sums
  <1>3. LiveTotal(rowset, o) = (CHOOSE h : P(h))[A]
    BY DEF LiveTotal, MapThenSumSet, MapThenFoldSet, Picked
  <1> HIDE DEF P
  <1>4. \E h : P(h)
    BY <1>1, <1>2, SumsExist
  <1>5. P(CHOOSE h : P(h))
    BY <1>4
  <1> HIDE DEF A, f
  <1>6. LiveTotal(rowset, o) = Total(f, A)
    BY <1>1, <1>2, <1>3, <1>5, TotalIs
  <1>7. \A i \in A : f[i] = LiveOn(rowset, o)[i]
    BY DEF A, f, LiveOn
  <1>8. \A i \in Items \ A : LiveOn(rowset, o)[i] = 0
    BY DEF A, LiveOn
  <1>9. Total(f, A) = Total(LiveOn(rowset, o), A)
    BY <1>1, <1>7, TotalSame
  <1>10. \A i \in Items : LiveOn(rowset, o)[i] \in Int
    BY LiveInt
  <1> QED BY <1>1, <1>6, <1>8, <1>9, <1>10, FiniteAssumption, TotalOfPart

\* and, where the refunded amount of each charge is that of its refund rows,
\* the net charges that payment-ledger.ts recomputes.
LEMMA AllocationsAre ==
  ASSUME NEW rowset \in PaymentRows, NEW o,
         \A k \in Keys : rowset[k].type = "charge" => rowset[k].refunded = RefundsOf(rowset, k)
  PROVE  NetChargeAllocations(rowset, o) = Total(NetOn(rowset, o), Keys)
  <1> DEFINE A == {k \in Keys : /\ rowset[k].order = o /\ rowset[k].type = "charge"
                                /\ rowset[k].status = "confirmed"}
             f == [k \in A |-> Max0(rowset[k].amount - RefundsOf(rowset, k))]
             P(h) == h = [s \in SUBSET A |-> IF s = {} THEN 0
                             ELSE Max0(rowset[Picked(s)].amount - RefundsOf(rowset, Picked(s)))
                                  + h[s \ {Picked(s)}]]
  <1>1. IsFiniteSet(A) /\ A \in SUBSET Keys
    BY FiniteAssumption, FS_Subset
  <1>2. \A h : P(h) <=> Sums(h, f, A)
    BY PickedIn DEF Sums
  <1>3. NetChargeAllocations(rowset, o) = (CHOOSE h : P(h))[A]
    BY DEF NetChargeAllocations, MapThenSumSet, MapThenFoldSet, Picked
  <1> HIDE DEF P
  <1>4. \E h : P(h)
    BY <1>1, <1>2, SumsExist
  <1>5. P(CHOOSE h : P(h))
    BY <1>4
  <1> HIDE DEF A, f
  <1>6. NetChargeAllocations(rowset, o) = Total(f, A)
    BY <1>1, <1>2, <1>3, <1>5, TotalIs
  <1>7. \A k \in A : f[k] = NetOn(rowset, o)[k]
    BY DEF A, f, NetOn, NetCharge
  <1>8. \A k \in Keys \ A : NetOn(rowset, o)[k] = 0
    BY DEF A, NetOn, NetCharge
  <1>9. Total(f, A) = Total(NetOn(rowset, o), A)
    BY <1>1, <1>7, TotalSame
  <1>10. \A k \in Keys : NetOn(rowset, o)[k] \in Int
    BY TermsInt
  <1> QED BY <1>1, <1>6, <1>8, <1>9, <1>10, FiniteAssumption, TotalOfPart
-----------------------------------------------------------------------------
(* What the steps of a call write.                                         *)

\* The other calls wait; a transaction begins by its reads, and a call waits
\* for the terminal, and records its answer, in that order.
LEMMA StepOf ==
  ASSUME TypeInv, NEW c \in Calls, Serve(c) \/ Crash(c)
  PROVE  /\ OthersWait(c)
         /\ pc'[c] = "commit" =>
              \/ req'[c].op = "register" /\ RegisterRead(c)
              \/ req'[c].op = "refund" /\ RefundRead(c)
              \/ req'[c].op = "intent" /\ IntentRead(c)
              \/ req'[c].op = "addItem" /\ AddItemRead(c)
              \/ req'[c].op = "discount" /\ DiscountRead(c)
              \/ req'[c].op = "cancelItem" /\ CancelItemRead(c)
              \/ req'[c].op = "close" /\ CloseRead(c)
              \/ req'[c].op = "writeOff" /\ WriteOffRead(c)
         /\ pc'[c] = "terminal" => IntentRead(c) \/ IntentCommit(c) \/ QueryRead(c) \/ CancelRead(c)
         /\ pc'[c] = "answered" => TerminalAnswers(c)
         /\ pc'[c] = "record" => ResultRead(c)
  <1>1. /\ \A r, a : Reply(c, r, a) => OthersWait(c) /\ pc'[c] = "done"
        /\ \A r, s : Proceed(c, r, s) => OthersWait(c) /\ req'[c] = r /\ pc'[c] = "commit"
        /\ \A r : AwaitTerminal(c, r) => OthersWait(c) /\ pc'[c] = "terminal"
    BY DEF TypeInv, CallsOK, CallsType, Reply, Proceed, AwaitTerminal, OthersWait
  <1>2. CASE Payment(c) \/ Crash(c)
    <2>1. CASE RegisterRead(c) \/ RefundRead(c)
      <3>1. PICK r \in Requests :
              /\ (\E a : Reply(c, r, a)) \/ \E s : Proceed(c, r, s)
              /\ (r.op = "register" /\ RegisterRead(c)) \/ (r.op = "refund" /\ RefundRead(c))
        <4>1. CASE RegisterRead(c)
          BY <4>1 DEF RegisterRead, Begins
        <4>2. CASE RefundRead(c)
          BY <4>2 DEF RefundRead, Begins
        <4> QED BY <2>1, <4>1, <4>2
      <3> QED BY <1>1, <3>1
    <2>2. CASE RegisterCommit(c) \/ RefundCommit(c) \/ Crash(c)
      <3>1. \E r, a : Reply(c, r, a)
        BY <2>2 DEF RegisterCommit, RefundCommit, Crash, Finish
      <3> QED BY <1>1, <3>1
    <2> QED BY <1>2, <2>1, <2>2 DEF Payment
  <1>3. CASE IntentRead(c) \/ IntentCommit(c) \/ QueryRead(c) \/ CancelRead(c)
    BY <1>1, <1>3 DEF IntentRead, IntentCommit, QueryRead, CancelRead, Begins, Finish
  <1>4. CASE TerminalAnswers(c)
    <2>1. CASE \E a : Finish(c, a)
      BY <1>1, <2>1 DEF Finish
    <2>2. CASE /\ pc' = [pc EXCEPT ![c] = "answered"] /\ UNCHANGED <<req, outcome>>
               /\ \E x : snap' = [snap EXCEPT ![c] = x]
      <3>1. OthersWait(c) /\ pc'[c] = "answered"
        BY <2>2 DEF OthersWait, TypeInv, CallsOK, CallsType
      <3> QED BY <1>4, <3>1
    <2> QED BY <1>4, <2>1, <2>2 DEF TerminalAnswers
  <1>5. CASE ResultRead(c)
    <2>1. CASE \E a : Finish(c, a)
      BY <1>1, <2>1 DEF Finish
    <2>2. CASE /\ pc' = [pc EXCEPT ![c] = "record"] /\ UNCHANGED <<req, outcome>>
               /\ \E x : snap' = [snap EXCEPT ![c] = x]
      <3>1. OthersWait(c) /\ pc'[c] = "record"
        BY <2>2 DEF OthersWait, TypeInv, CallsOK, CallsType
      <3> QED BY <1>5, <3>1
    <2> QED BY <1>5, <2>1, <2>2 DEF ResultRead
  <1>6. CASE ResultCommit(c)
    BY <1>1, <1>6 DEF ResultCommit, Finish
  <1>7. CASE Edit(c)
    BY <1>1, <1>7 DEF Edit, AddItemRead, AddItemCommit, DiscountNow, DiscountRead,
                      DiscountCommit, CancelItemNow, CancelItemRead, CancelItemCommit,
                      Begins, Finish
  <1>8. CASE Closing(c)
    BY <1>1, <1>8 DEF Closing, CloseRead, CloseCommit, WriteOffRead, WriteOffCommit,
                      Begins, Finish
  <1> QED BY <1>2, <1>3, <1>4, <1>5, <1>6, <1>7, <1>8 DEF Serve, Terminal

\* Four steps write payments, three write items.
LEMMA Writers ==
  ASSUME NEW c \in Calls, Serve(c) \/ Crash(c)
  PROVE  /\ \/ UNCHANGED <<payments, paid>>
            \/ RegisterCommit(c) \/ IntentCommit(c) \/ ResultCommit(c) \/ RefundCommit(c)
         /\ \/ UNCHANGED <<items, live>>
            \/ AddItemCommit(c) \/ CancelItemNow(c) \/ CancelItemCommit(c)
  <1>1. CASE Payment(c) \/ Crash(c)
    BY <1>1 DEF Payment, RegisterRead, RegisterCommit, RefundRead, RefundCommit, Crash, rows
  <1>2. CASE Terminal(c)
    BY <1>2 DEF Terminal, IntentRead, IntentCommit, QueryRead, CancelRead, TerminalAnswers,
                ResultRead, ResultCommit, rows
  <1>3. CASE Edit(c)
    BY <1>3 DEF Edit, AddItemRead, AddItemCommit, DiscountNow, DiscountRead,
                DiscountCommit, CancelItemNow, CancelItemRead, CancelItemCommit, rows
  <1>4. CASE Closing(c)
    BY <1>4 DEF Closing, CloseRead, CloseCommit, WriteOffRead, WriteOffCommit, rows
  <1> QED BY <1>1, <1>2, <1>3, <1>4 DEF Serve

AbsentRows == \A k \in Keys : ~Exists(payments, k) => payments[k] = AbsentPayment

\* A refund about to commit is of a charge.
RefundTargets == \A c \in Calls : Commits(c, "refund") =>
    /\ payments[req[c].target].type = "charge"
    /\ snap[c].result \in {"refunded", "partially_refunded"}

\* A payment row keeps what it is about.
SameRow(p, q) == /\ q.type = p.type /\ q.order = p.order /\ q.mode = p.mode
                 /\ q.amount = p.amount /\ q.original = p.original

\* How a step writes payments: a charge with a new key, an answer to a
\* charge that is there, or a refund of one and its row.
NewCharge(k, p) == /\ ~Exists(payments, k) /\ PutPayment(k, p)
                   /\ p.type = "charge" /\ p.refunded = 0 /\ p.status # "absent"

AnswerOf(k, p) == /\ Exists(payments, k) /\ PutPayment(k, p)
                  /\ SameRow(payments[k], p) /\ p.refunded = payments[k].refunded
                  /\ p.status # "absent"

RefundOf(k, t, p, q) ==
    /\ Exists(payments, t) /\ ~Exists(payments, k)
    /\ payments' = [payments EXCEPT ![t] = p, ![k] = q]
    /\ paid' = [o \in Orders |-> IF payments[t].order = o
                    THEN paid[o] - NetCharge(payments[t]) + NetCharge(p) ELSE paid[o]]
    /\ SameRow(payments[t], p) /\ p.refunded = payments[t].refunded + q.amount
    /\ NetCharge(p) <= NetCharge(payments[t])
    /\ q.type = "refund" /\ q.original = t /\ payments[t].type = "charge"
    /\ p.status # "absent" /\ q.status = "refunded"
    /\ p.status \in {payments[t].status, "refunded", "partially_refunded"}

\* A step writes no payment, a new charge, an answer or a refund.
LEMMA PaymentsWritten ==
  ASSUME TypeInv, RefundTargets, NEW c \in Calls, Serve(c) \/ Crash(c)
  PROVE  \/ UNCHANGED <<payments, paid>>
         \/ /\ RegisterCommit(c) \/ IntentCommit(c)
            /\ NewCharge(req[c].key, payments'[req[c].key]) /\ req[c].key \in Keys
            /\ payments'[req[c].key] \in PaymentRow
            /\ \/ /\ RegisterCommit(c)
                  /\ payments'[req[c].key] = ChargeRow(req[c], "manual", "confirmed")
               \/ /\ IntentCommit(c)
                  /\ payments'[req[c].key] = ChargeRow(req[c], "terminal", "pending")
         \/ /\ ResultCommit(c)
            /\ AnswerOf(req[c].key, payments'[req[c].key]) /\ req[c].key \in Keys
            /\ payments'[req[c].key] \in PaymentRow
         \/ /\ RefundCommit(c)
            /\ RefundOf(req[c].key, req[c].target, payments'[req[c].target], payments'[req[c].key])
            /\ req[c].key \in Keys /\ req[c].target \in Keys
            /\ payments'[req[c].key] \in PaymentRow /\ payments'[req[c].target] \in PaymentRow
  <1>1. payments \in [Keys -> PaymentRow]
    BY DEF TypeInv, RowsOK, RowsType
  <1>2. ASSUME RegisterCommit(c) \/ IntentCommit(c), ~UNCHANGED <<payments, paid>>
        PROVE  /\ NewCharge(req[c].key, payments'[req[c].key]) /\ req[c].key \in Keys
               /\ payments'[req[c].key] \in PaymentRow
               /\ \/ /\ RegisterCommit(c)
                     /\ payments'[req[c].key] = ChargeRow(req[c], "manual", "confirmed")
                  \/ /\ IntentCommit(c)
                     /\ payments'[req[c].key] = ChargeRow(req[c], "terminal", "pending")
    <2>1. req[c] \in Requests /\ req[c].key \in Keys
      BY <1>2, Committing, RequestFields DEF RegisterCommit, IntentCommit
    <2>2. PICK mode \in {"manual", "terminal"}, st \in {"confirmed", "pending"} :
             /\ PutPayment(req[c].key, ChargeRow(req[c], mode, st))
             /\ \/ RegisterCommit(c) /\ mode = "manual" /\ st = "confirmed"
                \/ IntentCommit(c) /\ mode = "terminal" /\ st = "pending"
      <3>1. CASE RegisterCommit(c)
        <4>1. PutPayment(req[c].key, ChargeRow(req[c], "manual", "confirmed"))
          BY <1>2, <3>1 DEF RegisterCommit
        <4> QED BY <3>1, <4>1
      <3>2. CASE IntentCommit(c)
        <4>1. PutPayment(req[c].key, ChargeRow(req[c], "terminal", "pending"))
          BY <1>2, <3>2 DEF IntentCommit
        <4> QED BY <3>2, <4>1
      <3> QED BY <1>2, <3>1, <3>2
    <2>3. ChargeRow(req[c], mode, st) \in PaymentRow
      BY <2>1, ChargeRowType DEF PaymentStatuses
    <2>4. payments'[req[c].key] = ChargeRow(req[c], mode, st)
      BY <1>1, <2>1, <2>2 DEF PutPayment
    <2>5. ~Exists(payments, req[c].key)
      BY <1>2 DEF RegisterCommit, IntentCommit, Exists
    <2> QED BY <2>1, <2>2, <2>3, <2>4, <2>5 DEF NewCharge, ChargeRow
  <1>3. ASSUME ResultCommit(c), ~UNCHANGED <<payments, paid>>
        PROVE  /\ AnswerOf(req[c].key, payments'[req[c].key]) /\ req[c].key \in Keys
               /\ payments'[req[c].key] \in PaymentRow
    <2> DEFINE k == req[c].key
               x == snap[c].result
               v == snap[c].pversion + 1
               p == [payments[k] EXCEPT !.status = x, !.version = v]
    <2>1. k \in Keys /\ Exists(payments, k) /\ payments[k] \in PaymentRow /\ snap[c] \in SnapType
      BY <1>3, AnsweredCharge DEF ResultCommit
    <2>2. PutPayment(k, p)
      BY <1>3 DEF ResultCommit
    <2>3. x \in PaymentStatuses /\ x # "absent" /\ v \in Int
      BY <2>1 DEF SnapType
    <2> HIDE DEF k, x, v
    <2>4. [payments[k] EXCEPT !.status = x] \in PaymentRow
      BY <2>1, <2>3, PaymentRowFields
    <2>5. p \in PaymentRow
      BY <2>3, <2>4, PaymentRowFields
    <2>6. SameRow(payments[k], p) /\ p.refunded = payments[k].refunded /\ p.status # "absent"
      BY <2>1, <2>3 DEF SameRow, PaymentRow
    <2> HIDE DEF p
    <2>7. payments'[k] = p
      BY <1>1, <2>1, <2>2 DEF PutPayment
    <2> QED BY <2>1, <2>2, <2>5, <2>6, <2>7 DEF AnswerOf, k
  <1>4. ASSUME RefundCommit(c), ~UNCHANGED <<payments, paid>>
        PROVE  /\ RefundOf(req[c].key, req[c].target, payments'[req[c].target], payments'[req[c].key])
               /\ req[c].key \in Keys /\ req[c].target \in Keys
               /\ payments'[req[c].key] \in PaymentRow /\ payments'[req[c].target] \in PaymentRow
    <2> DEFINE k == req[c].key
               t == req[c].target
               n == req[c].amount
               p == Refunded(payments[t], snap[c], n)
               q == RefundRow(payments[t], req[c])
    <2>1. /\ k \in Keys /\ t \in Keys /\ n \in Nat /\ snap[c] \in SnapType
          /\ Exists(payments, t) /\ payments[t] \in PaymentRow /\ payments[t].type = "charge"
          /\ snap[c].result \in {"refunded", "partially_refunded"}
      BY <1>1, <1>4, Committing, RequestFields DEF RefundCommit, TypeInv, ChargesExist, RefundTargets
    <2>2. /\ ~Exists(payments, k)
          /\ payments' = [payments EXCEPT ![t] = p, ![k] = q]
          /\ paid' = [o \in Orders |-> IF payments[t].order = o
                          THEN paid[o] - NetCharge(payments[t]) + NetCharge(p) ELSE paid[o]]
      BY <1>4 DEF RefundCommit, Exists
    <2>3. k # t
      BY <2>1, <2>2
    <2>4. p \in PaymentRow /\ p.refunded = payments[t].refunded + n /\ p.status # "absent"
      BY <2>1, RefundedType DEF Exists
    <2>5. SameRow(payments[t], p)
      BY <2>1 DEF SameRow, Refunded, PaymentRow
    <2>6. /\ NetCharge(p) <= NetCharge(payments[t])
          /\ p.status \in {payments[t].status, "refunded", "partially_refunded"}
      <3>1. p.status \in {payments[t].status, "refunded", "partially_refunded"}
        BY <2>1 DEF Refunded, PaymentRow
      <3>2. p.amount = payments[t].amount /\ p.type = payments[t].type
        BY <2>5 DEF SameRow
      <3> HIDE DEF p
      <3> QED BY <2>1, <2>4, <3>1, <3>2 DEF NetCharge, Max0, PaymentRow
    <2>7. /\ q \in PaymentRow /\ q.type = "refund" /\ q.original = t /\ q.amount = n
          /\ q.status = "refunded"
      BY <2>1 DEF RefundRow, PaymentRow, PaymentStatuses
    <2> HIDE DEF p, q, k, t, n
    <2>8. payments'[t] = p /\ payments'[k] = q
      BY <1>1, <2>1, <2>2, <2>3
    <2> QED BY <2>1, <2>2, <2>4, <2>5, <2>6, <2>7, <2>8 DEF RefundOf, k, t
  <1> QED BY <1>2, <1>3, <1>4, Writers
-----------------------------------------------------------------------------
(* The sums.                                                               *)

PaidAgrees == \A o \in Orders : paid[o] = Total(NetOn(payments, o), Keys)

RefundsAgree == \A k \in Keys : payments[k].type = "charge" =>
    payments[k].refunded = Total(RefundedOn(payments, k), Keys)

LiveAgrees == \A o \in Orders : live[o] = Total(LiveOn(items, o), Items)

\* An item about to be canceled is, or was, on the order.
CancelTargets == \A c \in Calls : Commits(c, "cancelItem") =>
    items[req[c].item].order = req[c].order /\ items[req[c].item].state # "absent"

SumInv == PaidAgrees /\ RefundsAgree /\ LiveAgrees /\ AbsentRows /\ RefundTargets /\ CancelTargets

\* One row changes what it adds to an order: so does the sum kept for it.
LEMMA PaidFollows ==
  ASSUME payments \in PaymentRows, payments' \in PaymentRows, PaidAgrees, paid \in [Orders -> Int],
         NEW k \in Keys,
         \A j \in Keys \ {k} : \/ payments'[j] = payments[j]
                               \/ NetCharge(payments[j]) = 0 /\ NetCharge(payments'[j]) = 0,
         payments'[k].order = payments[k].order \/ NetCharge(payments[k]) = 0,
         paid' = [o \in Orders |-> IF payments'[k].order = o
                      THEN paid[o] - NetCharge(payments[k]) + NetCharge(payments'[k]) ELSE paid[o]]
  PROVE  PaidAgrees'
  <1> SUFFICES ASSUME NEW o \in Orders PROVE paid'[o] = Total(NetOn(payments', o), Keys)
    BY DEF PaidAgrees
  <1> DEFINE f == NetOn(payments, o)
             g == NetOn(payments', o)
  <1>1. \A j \in Keys : f[j] \in Nat /\ g[j] \in Nat
    BY TermsInt
  <1>2. \A j \in Keys \ {k} : g[j] = f[j]
    BY DEF NetOn
  <1>3. paid[o] = Total(f, Keys) /\ paid[o] \in Int
    BY DEF PaidAgrees
  <1>4. paid'[o] = paid[o] - f[k] + g[k]
    <2>1. NetCharge(payments[k]) \in Nat /\ NetCharge(payments'[k]) \in Nat
      BY NetChargeNat DEF PaymentRows
    <2>2. CASE payments'[k].order = o
      <3>1. g[k] = NetCharge(payments'[k]) /\ f[k] = NetCharge(payments[k])
        BY <2>2 DEF NetOn
      <3>2. paid'[o] = paid[o] - NetCharge(payments[k]) + NetCharge(payments'[k])
        BY <2>2
      <3> QED BY <3>1, <3>2
    <2>3. CASE payments'[k].order # o
      <3>1. g[k] = 0 /\ f[k] = 0
        BY <2>3 DEF NetOn
      <3>2. paid'[o] = paid[o]
        BY <2>3
      <3> QED BY <1>3, <3>1, <3>2
    <2> QED BY <2>2, <2>3
  <1> HIDE DEF f, g
  <1>5. Total(g, Keys) = Total(f, Keys) - f[k] + g[k]
    BY <1>1, <1>2, FiniteAssumption, TotalChange
  <1> QED BY <1>3, <1>4, <1>5 DEF g

\* Rows that name no charge as refunded leave the refunds of every charge.
LEMMA RefundsStay ==
  ASSUME payments \in PaymentRows, payments' \in PaymentRows, NEW t,
         \A j \in Keys : RefundedOn(payments', t)[j] = RefundedOn(payments, t)[j]
  PROVE  Total(RefundedOn(payments', t), Keys) = Total(RefundedOn(payments, t), Keys)
  BY FiniteAssumption, TotalSame

\* Charges, answers and refunds keep the sums of the payments.
LEMMA PaymentSums ==
  ASSUME TypeInv, TypeInv', SumInv, NEW c \in Calls, Serve(c) \/ Crash(c)
  PROVE  PaidAgrees' /\ RefundsAgree' /\ AbsentRows'
  <1>1. payments \in PaymentRows /\ payments' \in PaymentRows /\ paid \in [Orders -> Int]
    BY DEF TypeInv, RowsOK, RowsType, PaymentRows
  <1>2. CASE UNCHANGED <<payments, paid>>
    BY <1>2 DEF SumInv, PaidAgrees, RefundsAgree, AbsentRows, Exists
  <1>3. ASSUME NEW k \in Keys, NewCharge(k, payments'[k])
        PROVE  PaidAgrees' /\ RefundsAgree' /\ AbsentRows'
    <2>1. payments[k] = AbsentPayment /\ \A j \in Keys \ {k} : payments'[j] = payments[j]
      BY <1>1, <1>3 DEF NewCharge, SumInv, AbsentRows, PutPayment, PaymentRows
    <2>2. NetCharge(payments[k]) = 0
      BY <2>1 DEF NetCharge, AbsentPayment
    <2>3. PaidAgrees'
      BY <1>1, <1>3, <2>1, <2>2, PaidFollows DEF NewCharge, PutPayment, SumInv
    <2>4. ASSUME NEW t \in Keys
          PROVE  Total(RefundedOn(payments', t), Keys) = Total(RefundedOn(payments, t), Keys)
      BY <1>1, <1>3, <2>1, RefundsStay DEF RefundedOn, NewCharge, AbsentPayment
    <2>5. RefundsAgree'
      BY <1>3, <2>1, <2>4 DEF RefundsAgree, SumInv, NewCharge, AbsentPayment
    <2>6. AbsentRows'
      BY <1>3, <2>1 DEF AbsentRows, SumInv, NewCharge, Exists
    <2> QED BY <2>3, <2>5, <2>6
  <1>4. ASSUME NEW k \in Keys, AnswerOf(k, payments'[k])
        PROVE  PaidAgrees' /\ RefundsAgree' /\ AbsentRows'
    <2>1. \A j \in Keys \ {k} : payments'[j] = payments[j]
      BY <1>1, <1>4 DEF AnswerOf, PutPayment, PaymentRows
    <2>2. PaidAgrees'
      BY <1>1, <1>4, <2>1, PaidFollows DEF AnswerOf, PutPayment, SumInv, SameRow
    <2>3. ASSUME NEW t \in Keys
          PROVE  Total(RefundedOn(payments', t), Keys) = Total(RefundedOn(payments, t), Keys)
      BY <1>1, <1>4, <2>1, RefundsStay DEF RefundedOn, AnswerOf, SameRow
    <2>4. RefundsAgree'
      BY <1>4, <2>1, <2>3 DEF RefundsAgree, SumInv, AnswerOf, SameRow
    <2>5. AbsentRows'
      <3>1. ASSUME NEW j \in Keys, payments'[j].status = "absent" PROVE payments'[j] = AbsentPayment
        <4>1. CASE j # k
          BY <2>1, <3>1, <4>1 DEF AbsentRows, SumInv, Exists
        <4>2. CASE j = k
          BY <1>4, <3>1, <4>2 DEF AnswerOf
        <4> QED BY <4>1, <4>2
      <3> QED BY <3>1 DEF AbsentRows, Exists
    <2> QED BY <2>2, <2>4, <2>5
  <1>5. ASSUME NEW k \in Keys, NEW t \in Keys, RefundOf(k, t, payments'[t], payments'[k])
        PROVE  PaidAgrees' /\ RefundsAgree' /\ AbsentRows'
    <2>1. /\ payments[k] = AbsentPayment /\ k # t
          /\ \A j \in Keys \ {k, t} : payments'[j] = payments[j]
      BY <1>1, <1>5 DEF RefundOf, SumInv, AbsentRows, PaymentRows
    <2>2. NetCharge(payments[k]) = 0 /\ NetCharge(payments'[k]) = 0
      BY <1>5, <2>1 DEF NetCharge, AbsentPayment, RefundOf
    <2>3. /\ \A j \in Keys \ {t} : \/ payments'[j] = payments[j]
                                   \/ NetCharge(payments[j]) = 0 /\ NetCharge(payments'[j]) = 0
          /\ payments'[t].order = payments[t].order
      BY <1>5, <2>1, <2>2 DEF RefundOf, SameRow
    <2>4. PaidAgrees'
      BY <1>1, <1>5, <2>3, PaidFollows DEF RefundOf, SumInv
    <2>5. ASSUME NEW j \in Keys, payments'[j].type = "charge"
          PROVE  payments'[j].refunded = Total(RefundedOn(payments', j), Keys)
      <3> DEFINE f == RefundedOn(payments, j)
                 g == RefundedOn(payments', j)
      <3>1. \A x \in Keys : f[x] \in Nat /\ g[x] \in Nat
        BY <1>1, TermsInt
      <3>2. \A x \in Keys \ {k} : g[x] = f[x]
        BY <1>5, <2>1 DEF RefundedOn, RefundOf, SameRow
      <3>3. f[k] = 0 /\ g[k] = IF j = t THEN payments'[k].amount ELSE 0
        BY <1>5, <2>1 DEF RefundedOn, RefundOf, AbsentPayment
      <3>4. j # k /\ payments[j].type = "charge"
        BY <1>5, <2>1, <2>5 DEF RefundOf
      <3>5. payments[j].refunded = Total(f, Keys) /\ payments[j].refunded \in Nat
        BY <1>1, <3>4 DEF SumInv, RefundsAgree, PaymentRows, PaymentRow
      <3>6. payments'[j].refunded = payments[j].refunded + IF j = t THEN payments'[k].amount ELSE 0
        <4>1. CASE j = t
          BY <1>5, <4>1 DEF RefundOf
        <4>2. CASE j # t
          BY <2>1, <3>4, <3>5, <4>2
        <4> QED BY <4>1, <4>2
      <3>7. payments'[k].amount \in Nat
        BY <1>1 DEF PaymentRows, PaymentRow
      <3> HIDE DEF f, g
      <3>8. Total(g, Keys) = Total(f, Keys) - f[k] + g[k]
        BY <3>1, <3>2, FiniteAssumption, TotalChange
      <3> QED BY <3>3, <3>5, <3>6, <3>7, <3>8 DEF g
    <2>6. AbsentRows'
      <3>1. payments'[t].status # "absent" /\ payments'[k].status # "absent"
        BY <1>5 DEF RefundOf
      <3> QED BY <2>1, <3>1 DEF AbsentRows, SumInv, Exists
    <2> QED BY <2>4, <2>5, <2>6 DEF RefundsAgree
  <1> QED BY <1>2, <1>3, <1>4, <1>5, PaymentsWritten DEF SumInv

\* An item row that changes what it adds to its order.
LEMMA LiveFollows ==
  ASSUME items \in ItemRows, items' \in ItemRows, LiveAgrees, live \in [Orders -> Int],
         NEW i \in Items, \A j \in Items \ {i} : items'[j] = items[j],
         NEW x \in Orders, \A o \in Orders \ {x} : LiveOn(items', o)[i] = LiveOn(items, o)[i],
         live' = [live EXCEPT ![x] = live[x] - LiveOn(items, x)[i] + LiveOn(items', x)[i]]
  PROVE  LiveAgrees'
  <1> SUFFICES ASSUME NEW o \in Orders PROVE live'[o] = Total(LiveOn(items', o), Items)
    BY DEF LiveAgrees
  <1> DEFINE f == LiveOn(items, o)
             g == LiveOn(items', o)
  <1>1. \A j \in Items : f[j] \in Nat /\ g[j] \in Nat
    BY LiveInt
  <1>2. \A j \in Items \ {i} : g[j] = f[j]
    BY DEF LiveOn
  <1>3. live[o] = Total(f, Items) /\ live[o] \in Int
    BY DEF LiveAgrees
  <1>4. live'[o] = live[o] - f[i] + g[i]
    <2>1. CASE o = x
      BY <2>1
    <2>2. CASE o # x
      <3>1. live'[o] = live[o] /\ f[i] = g[i]
        BY <2>2
      <3> HIDE DEF f, g
      <3> QED BY <1>1, <1>3, <3>1
    <2> QED BY <2>1, <2>2
  <1> HIDE DEF f, g
  <1>5. Total(g, Items) = Total(f, Items) - f[i] + g[i]
    BY <1>1, <1>2, FiniteAssumption, TotalChange
  <1> QED BY <1>3, <1>4, <1>5 DEF g

\* How a step writes items: one comes to an order, or one of an order goes.
ItemComes(i, x) ==
    /\ items[i].state = "absent" /\ items' = [items EXCEPT ![i] = [order |-> x, state |-> "live"]]
    /\ live' = [live EXCEPT ![x] = live[x] + Price[i]]

ItemGoes(i, x) ==
    /\ items[i].order = x /\ items[i].state # "absent"
    /\ items' = [items EXCEPT ![i].state = "canceled"]
    /\ live' = [live EXCEPT ![x] = live[x] - (IF items[i].state = "live" THEN Price[i] ELSE 0)]

\* A step writes no item, or one comes or goes.
LEMMA ItemsWritten ==
  ASSUME TypeInv, CancelTargets, NEW c \in Calls, Serve(c) \/ Crash(c)
  PROVE  \/ UNCHANGED <<items, live>>
         \/ \E i \in Items, x \in Orders : ItemComes(i, x) \/ ItemGoes(i, x)
  <1>1. live \in [Orders -> Int]
    BY DEF TypeInv, RowsOK, RowsType
  <1>2. CASE AddItemCommit(c)
    <2>1. req[c].item \in Items /\ req[c].order \in Orders
      BY <1>2, Committing, RequestFields DEF AddItemCommit
    <2>2. UNCHANGED <<items, live>> \/ ItemComes(req[c].item, req[c].order)
      BY <1>2 DEF AddItemCommit, ItemComes
    <2> QED BY <2>1, <2>2
  <1>3. CASE CancelItemNow(c)
    <2>1. PICK r \in Requests :
            \/ UNCHANGED <<items, live>>
            \/ Cancelable(r) /\ WriteCancellation(r.order, r.item, OrderSnap(r.order))
      BY <1>3 DEF CancelItemNow
    <2>2. UNCHANGED <<items, live>> \/ ItemGoes(r.item, r.order)
      BY <2>1 DEF Cancelable, WriteCancellation, ItemGoes
    <2> QED BY <2>2, RequestFields
  <1>4. CASE CancelItemCommit(c)
    <2>1. req[c].item \in Items /\ req[c].order \in Orders
      BY <1>4, Committing, RequestFields DEF CancelItemCommit
    <2>2. items[req[c].item].order = req[c].order /\ items[req[c].item].state # "absent"
      BY <1>4 DEF CancelTargets, CancelItemCommit
    <2>3. ItemGoes(req[c].item, req[c].order)
      BY <1>4, <2>2 DEF CancelItemCommit, WriteCancellation, ItemGoes
    <2> QED BY <2>1, <2>3
  <1> QED BY <1>2, <1>3, <1>4, Writers

\* Added and canceled items keep the sum of the live ones.
LEMMA ItemSums ==
  ASSUME TypeInv, TypeInv', SumInv, NEW c \in Calls, Serve(c) \/ Crash(c)
  PROVE  LiveAgrees' /\ \A i \in Items : items[i].state # "absent" =>
                            items'[i].state # "absent" /\ items'[i].order = items[i].order
  <1>1. items \in ItemRows /\ items' \in ItemRows /\ live \in [Orders -> Int]
    BY DEF TypeInv, RowsOK, RowsType, ItemRows
  <1>2. CASE UNCHANGED <<items, live>>
    BY <1>2 DEF SumInv, LiveAgrees
  <1>3. ASSUME NEW i \in Items, NEW x \in Orders, ItemComes(i, x) \/ ItemGoes(i, x)
        PROVE  LiveAgrees' /\ \A j \in Items : items[j].state # "absent" =>
                                  items'[j].state # "absent" /\ items'[j].order = items[j].order
    <2>1. \A j \in Items \ {i} : items'[j] = items[j]
      BY <1>1, <1>3 DEF ItemComes, ItemGoes, ItemRows
    <2>2. /\ items'[i].order = x
          /\ items[i].state # "absent" => items[i].order = x
          /\ items'[i].state = "live" <=> ItemComes(i, x)
          /\ items'[i].state # "absent"
      BY <1>1, <1>3 DEF ItemComes, ItemGoes, ItemRows
    <2>3. \A o \in Orders \ {x} : LiveOn(items', o)[i] = 0 /\ LiveOn(items, o)[i] = 0
      <3>1. ASSUME NEW o \in Orders \ {x} PROVE LiveOn(items', o)[i] = 0 /\ LiveOn(items, o)[i] = 0
        <4>1. items'[i] # [order |-> o, state |-> "live"]
          BY <2>2
        <4>2. items[i] # [order |-> o, state |-> "live"]
          BY <2>2
        <4> QED BY <4>1, <4>2 DEF LiveOn
      <3> QED BY <3>1
    <2>4. Price[i] \in Nat /\ live[x] \in Int
      BY <1>1, PriceAssumption
    <2>5. live[x] - LiveOn(items, x)[i] + LiveOn(items', x)[i] =
             IF ItemComes(i, x) THEN live[x] + Price[i]
             ELSE live[x] - (IF items[i].state = "live" THEN Price[i] ELSE 0)
      <3>1. items[i] = [order |-> items[i].order, state |-> items[i].state]
        BY <1>1 DEF ItemRows
      <3>2. items'[i] = [order |-> items'[i].order, state |-> items'[i].state]
        BY <1>1 DEF ItemRows
      <3>3. LiveOn(items', x)[i] = IF ItemComes(i, x) THEN Price[i] ELSE 0
        BY <2>2, <3>2 DEF LiveOn
      <3>4. CASE ItemComes(i, x)
        <4>1. LiveOn(items, x)[i] = 0
          BY <3>4 DEF LiveOn, ItemComes
        <4> QED BY <2>4, <3>3, <3>4, <4>1
      <3>5. CASE ~ItemComes(i, x)
        <4>1. LiveOn(items, x)[i] = IF items[i].state = "live" THEN Price[i] ELSE 0
          BY <1>3, <3>1, <3>5 DEF LiveOn, ItemGoes
        <4> QED BY <2>4, <3>3, <3>5, <4>1
      <3> QED BY <3>4, <3>5
    <2>6. live' = [live EXCEPT ![x] = live[x] - LiveOn(items, x)[i] + LiveOn(items', x)[i]]
      <3>1. CASE ItemComes(i, x)
        BY <2>5, <3>1 DEF ItemComes
      <3>2. CASE ~ItemComes(i, x)
        BY <1>3, <2>5, <3>2 DEF ItemGoes
      <3> QED BY <3>1, <3>2
    <2>7. LiveAgrees'
      BY <1>1, <2>1, <2>3, <2>6, LiveFollows DEF SumInv
    <2> QED BY <2>1, <2>2, <2>7
  <1> QED BY <1>2, <1>3, ItemsWritten DEF SumInv

\* A row of payments that exists keeps what it is about.
LEMMA RowsStay ==
  ASSUME TypeInv, RefundTargets, NEW c \in Calls, Serve(c) \/ Crash(c),
         NEW k \in Keys, Exists(payments, k)
  PROVE  SameRow(payments[k], payments'[k])
  <1>1. payments \in [Keys -> PaymentRow]
    BY DEF TypeInv, RowsOK, RowsType
  <1>2. CASE payments' = payments
    BY <1>2 DEF SameRow
  <1>3. ASSUME NEW j \in Keys, NewCharge(j, payments'[j])
        PROVE  SameRow(payments[k], payments'[k])
    BY <1>1, <1>3 DEF NewCharge, PutPayment, SameRow
  <1>4. ASSUME NEW j \in Keys, AnswerOf(j, payments'[j])
        PROVE  SameRow(payments[k], payments'[k])
    BY <1>1, <1>4 DEF AnswerOf, PutPayment, SameRow
  <1>5. ASSUME NEW j \in Keys, NEW t \in Keys, RefundOf(j, t, payments'[t], payments'[j])
        PROVE  SameRow(payments[k], payments'[k])
    BY <1>1, <1>5 DEF RefundOf, SameRow
  <1> QED BY <1>2, <1>3, <1>4, <1>5, PaymentsWritten

\* What refunds and cancellations are about stays what it was when they read.
LEMMA TargetsStay ==
  ASSUME TypeInv, TypeInv', SumInv, NEW c \in Calls, Serve(c) \/ Crash(c)
  PROVE  RefundTargets' /\ CancelTargets'
  <1>1. OthersWait(c)
    BY StepOf
  <1>2. ASSUME NEW d \in Calls, Commits(d, "refund")'
        PROVE  /\ payments'[req'[d].target].type = "charge"
               /\ snap'[d].result \in {"refunded", "partially_refunded"}
    <2>1. CASE d # c
      <3>1. Commits(d, "refund") /\ req'[d] = req[d] /\ snap'[d] = snap[d]
        BY <1>1, <1>2, <2>1 DEF OthersWait, Commits
      <3>2. req[d].target \in Keys /\ Exists(payments, req[d].target)
        BY <3>1, Committing, RequestFields DEF TypeInv, ChargesExist
      <3>3. SameRow(payments[req[d].target], payments'[req[d].target])
        BY <3>2, RowsStay DEF SumInv
      <3> QED BY <3>1, <3>3 DEF SumInv, RefundTargets, SameRow
    <2>2. CASE d = c
      <3>1. RefundRead(c)
        BY <1>2, <2>2, StepOf DEF Commits
      <3>2. PICK r \in Requests :
              \/ \E a : Reply(c, r, a)
              \/ /\ payments[r.target].type = "charge"
                 /\ \E x \in {"refunded", "partially_refunded"} : \E v :
                       Proceed(c, r, [snap[c] EXCEPT !.pversion = v, !.result = x])
        BY <3>1 DEF RefundRead
      <3>3. pc'[c] = "commit" /\ payments' = payments
        BY <1>2, <2>2, <3>1 DEF Commits, RefundRead, rows
      <3>4. ~ \E a : Reply(c, r, a)
        BY <3>3 DEF Reply, TypeInv, CallsOK, CallsType
      <3>5. PICK x \in {"refunded", "partially_refunded"} : \E v :
              Proceed(c, r, [snap[c] EXCEPT !.pversion = v, !.result = x])
        BY <3>2, <3>4
      <3>51. PICK v : Proceed(c, r, [snap[c] EXCEPT !.pversion = v, !.result = x])
        BY <3>5
      <3>6. req'[c] = r /\ snap'[c] = [snap[c] EXCEPT !.pversion = v, !.result = x]
        BY <3>51 DEF Proceed, TypeInv, CallsOK, CallsType
      <3>7. snap'[c].result = x
        BY <3>6 DEF TypeInv, CallsOK, CallsType, SnapType
      <3> QED BY <2>2, <3>2, <3>3, <3>4, <3>6, <3>7
    <2> QED BY <2>1, <2>2
  <1>3. ASSUME NEW d \in Calls, Commits(d, "cancelItem")'
        PROVE  items'[req'[d].item].order = req'[d].order /\ items'[req'[d].item].state # "absent"
    <2>1. CASE d # c
      <3>1. Commits(d, "cancelItem") /\ req'[d] = req[d]
        BY <1>1, <1>3, <2>1 DEF OthersWait, Commits
      <3>2. req[d].item \in Items
        BY <3>1, Committing, RequestFields
      <3> QED BY <3>1, <3>2, ItemSums DEF SumInv, CancelTargets
    <2>2. CASE d = c
      <3>1. CancelItemRead(c)
        BY <1>3, <2>2, StepOf DEF Commits
      <3>2. PICK r \in Requests : (Cancelable(r) /\ \E s : Proceed(c, r, s)) \/ \E a : Reply(c, r, a)
        BY <3>1 DEF CancelItemRead
      <3>3. pc'[c] = "commit" /\ items' = items
        BY <1>3, <2>2, <3>1 DEF Commits, CancelItemRead, rows
      <3>4. Cancelable(r) /\ req'[c] = r
        BY <3>2, <3>3 DEF Reply, Proceed, TypeInv, CallsOK, CallsType
      <3> QED BY <2>2, <3>3, <3>4 DEF Cancelable
    <2> QED BY <2>1, <2>2
  <1> QED BY <1>2, <1>3 DEF RefundTargets, CancelTargets

\* Every step keeps the sums.
LEMMA SumInvNext == TypeInv /\ SumInv /\ [Next]_ledgerVars => SumInv'
  <1> SUFFICES ASSUME TypeInv, TypeInv', SumInv, [Next]_ledgerVars PROVE SumInv'
    BY TypeInvNext
  <1>1. ASSUME NEW c \in Calls, Serve(c) \/ Crash(c) PROVE SumInv'
    BY <1>1, PaymentSums, ItemSums, TargetsStay DEF SumInv
  <1>2. CASE UNCHANGED ledgerVars
    BY <1>2 DEF ledgerVars, rows, ctl, SumInv, PaidAgrees, RefundsAgree, LiveAgrees, AbsentRows,
                Exists, RefundTargets, CancelTargets, Commits
  <1> QED BY <1>1, <1>2 DEF Next, AllServed

\* The items an order opens with are those its amount is of.
LEMMA OpeningIs ==
  ASSUME NEW o \in Orders, NEW rowset \in ItemRows,
         rowset = [i \in Items |-> IF OnOrder[i] = None THEN AbsentItem
                                   ELSE [order |-> OnOrder[i], state |-> "live"]]
  PROVE  Opening[o] = Total(LiveOn(rowset, o), Items)
  <1> DEFINE A == {i \in Items : OnOrder[i] = o}
             f == [i \in A |-> Price[i]]
             P(h) == h = [s \in SUBSET A |-> IF s = {} THEN 0
                             ELSE Price[Picked(s)] + h[s \ {Picked(s)}]]
  <1>1. IsFiniteSet(A) /\ A \in SUBSET Items
    BY FiniteAssumption, FS_Subset
  <1>2. \A h : P(h) <=> Sums(h, f, A)
    BY PickedIn DEF Sums
  <1>3. Opening[o] = (CHOOSE h : P(h))[A]
    BY OpeningAssumption DEF MapThenSumSet, MapThenFoldSet, Picked
  <1> HIDE DEF P
  <1>4. \E h : P(h)
    BY <1>1, <1>2, SumsExist
  <1>5. P(CHOOSE h : P(h))
    BY <1>4
  <1> HIDE DEF f
  <1>6. Opening[o] = Total(f, A)
    BY <1>1, <1>2, <1>3, <1>5, TotalIs
  <1>7. \A i \in Items : rowset[i] = [order |-> o, state |-> "live"] <=> i \in A
    <2>1. None # o
      BY NoneAssumption
    <2> QED BY <2>1 DEF AbsentItem
  <1> HIDE DEF A
  <1>8. \A i \in A : f[i] = LiveOn(rowset, o)[i]
    BY <1>1, <1>7 DEF f, LiveOn
  <1>9. \A i \in Items \ A : LiveOn(rowset, o)[i] = 0
    BY <1>7 DEF LiveOn
  <1>10. Total(f, A) = Total(LiveOn(rowset, o), A)
    BY <1>1, <1>8, TotalSame
  <1>11. \A i \in Items : LiveOn(rowset, o)[i] \in Int
    BY LiveInt
  <1> QED BY <1>1, <1>6, <1>9, <1>10, <1>11, FiniteAssumption, TotalOfPart

\* The sums agree at first.
LEMMA SumInvInit == Init => SumInv
  <1> SUFFICES ASSUME Init PROVE SumInv
    OBVIOUS
  <1>1. TypeInv
    BY TypeInvInit
  <1>2. PaidAgrees
    <2>1. ASSUME NEW o \in Orders PROVE Total(NetOn(payments, o), Keys) = 0
      <3>1. \A k \in Keys : NetOn(payments, o)[k] = 0
        BY DEF Init, NetOn, NetCharge, AbsentPayment
      <3> QED BY <3>1, FiniteAssumption, TotalZero
    <2> QED BY <2>1 DEF Init, PaidAgrees
  <1>3. RefundsAgree
    <2>1. ASSUME NEW k \in Keys PROVE Total(RefundedOn(payments, k), Keys) = 0
      <3>1. \A j \in Keys : RefundedOn(payments, k)[j] = 0
        BY DEF Init, RefundedOn, AbsentPayment
      <3> QED BY <3>1, FiniteAssumption, TotalZero
    <2> QED BY <2>1 DEF Init, RefundsAgree, AbsentPayment
  <1>4. LiveAgrees
    BY <1>1, OpeningIs DEF Init, LiveAgrees, TypeInv, RowsOK, RowsType, ItemRows
  <1>5. AbsentRows /\ RefundTargets /\ CancelTargets
    BY DEF Init, AbsentRows, RefundTargets, CancelTargets, Commits
  <1> QED BY <1>2, <1>3, <1>4, <1>5 DEF SumInv

\* About the model rather than the code: the sums it keeps for an order and
\* for a charge are those payment-ledger.ts recomputes from the rows, so a
\* guard that reads a sum decides as the code's recomputation does.
THEOREM SumsFollowRows == Spec => []LedgerAgrees
  <1>1. TypeInv /\ SumInv => LedgerAgrees
    <2> SUFFICES ASSUME TypeInv, SumInv PROVE LedgerAgrees
      OBVIOUS
    <2>1. payments \in PaymentRows /\ items \in ItemRows
      BY DEF TypeInv, RowsOK, RowsType, PaymentRows, ItemRows
    <2>2. \A k \in Keys : payments[k].type = "charge" => payments[k].refunded = RefundsOf(payments, k)
      BY <2>1, RefundsOfIs DEF SumInv, RefundsAgree
    <2>3. \A o \in Orders : NetChargeAllocations(payments, o) = Total(NetOn(payments, o), Keys)
      BY <2>1, <2>2, AllocationsAre
    <2>4. \A o \in Orders : LiveTotal(items, o) = Total(LiveOn(items, o), Items)
      BY <2>1, LiveTotalIs
    <2> QED BY <2>2, <2>3, <2>4 DEF SumInv, PaidAgrees, LiveAgrees, LedgerAgrees
  <1> QED BY <1>1, TypeInvInit, TypeInvNext, SumInvInit, SumInvNext, PTL DEF Spec
-----------------------------------------------------------------------------
(* What is charged by hand fits, and what is closed stays so, while no     *)
(* order edit is run from an approval.  The version of the order row is    *)
(* what a charge, a closing and a write-off rely on; the answer of a       *)
(* terminal is the step that does not.                                     *)

\* An order row is replaced by one with a higher version.
Raised(o, status, closed) ==
    /\ orders'[o].version > orders[o].version
    /\ orders'[o].status = status /\ orders'[o].closed = closed

\* How a step writes an order row.
LEMMA OrdersWritten ==
  ASSUME TypeInv, NoApprovedEdit, NoEditPending, NEW c \in Calls, Serve(c) \/ Crash(c),
         NEW o \in Orders
  PROVE  \/ orders'[o] = orders[o]
         \/ Edit(c) /\ Raised(o, orders[o].status, orders[o].closed)
         \/ /\ RegisterCommit(c) /\ Current(c) /\ req[c].order = o
            /\ Raised(o, snap[c].status, orders[o].closed) /\ orders'[o].total = orders[o].total
         \/ /\ ResultCommit(c) /\ snap[c].result = "confirmed"
            /\ payments[req[c].key].order = o
            /\ payments[req[c].key].version = snap[c].pversion
            /\ Raised(o, snap[c].status, orders[o].closed)
         \/ /\ CloseCommit(c) /\ Current(c) /\ req[c].order = o /\ Raised(o, "paid", TRUE)
         \/ /\ WriteOffCommit(c) /\ Current(c) /\ req[c].order = o /\ Raised(o, "written_off", TRUE)
  <1> DEFINE row == orders[o]
  <1>1. row \in OrderRow /\ orders \in [Orders -> OrderRow] /\ row.version \in Int
    BY DEF TypeInv, RowsOK, RowsType, OrderRow
  <1>2. CASE RegisterRead(c) \/ RefundRead(c) \/ RefundCommit(c) \/ Crash(c)
    BY <1>2 DEF RegisterRead, RefundRead, RefundCommit, Crash, rows
  <1>3. CASE RegisterCommit(c)
    <2>1. CASE UNCHANGED orders
      BY <2>1
    <2>2. CASE Current(c) /\ SetStatus(req[c].order, snap[c].status)
      <3>1. CASE req[c].order # o
        BY <1>1, <2>2, <3>1 DEF SetStatus
      <3>2. CASE req[c].order = o
        <4>1. orders'[o] = [row EXCEPT !.status = snap[c].status, !.version = row.version + 1]
          BY <1>1, <2>2, <3>2 DEF SetStatus
        <4>2. /\ orders'[o].version = row.version + 1 /\ orders'[o].total = row.total
              /\ orders'[o].status = snap[c].status /\ orders'[o].closed = row.closed
          BY <1>1, <4>1 DEF OrderRow
        <4> QED BY <1>1, <1>3, <2>2, <3>2, <4>2 DEF Raised
      <3> QED BY <3>1, <3>2
    <2> QED BY <1>3, <2>1, <2>2 DEF RegisterCommit
  <1>4. CASE ResultCommit(c)
    <2> DEFINE x == payments[req[c].key].order
    <2>1. CASE UNCHANGED orders
      BY <2>1
    <2>2. CASE /\ payments[req[c].key].version = snap[c].pversion
               /\ snap[c].result = "confirmed" /\ SetStatus(x, snap[c].status)
      <3>1. CASE x # o
        BY <1>1, <2>2, <3>1 DEF SetStatus
      <3>2. CASE x = o
        <4>1. orders'[o] = [row EXCEPT !.status = snap[c].status, !.version = row.version + 1]
          BY <1>1, <2>2, <3>2 DEF SetStatus
        <4>2. /\ orders'[o].version = row.version + 1
              /\ orders'[o].status = snap[c].status /\ orders'[o].closed = row.closed
          BY <1>1, <4>1 DEF OrderRow
        <4> QED BY <1>1, <1>4, <2>2, <3>2, <4>2 DEF Raised
      <3> QED BY <3>1, <3>2
    <2> QED BY <1>4, <2>1, <2>2 DEF ResultCommit
  <1>5. CASE \/ IntentRead(c) \/ IntentCommit(c) \/ QueryRead(c) \/ CancelRead(c)
             \/ TerminalAnswers(c) \/ ResultRead(c)
    BY <1>5 DEF IntentRead, IntentCommit, QueryRead, CancelRead, TerminalAnswers, ResultRead, rows
  <1>6. CASE Edit(c)
    <2>1. ~DiscountCommit(c) /\ ~CancelItemCommit(c)
      BY DEF NoEditPending, DiscountCommit, CancelItemCommit, Commits
    <2>2. CASE AddItemRead(c) \/ DiscountRead(c) \/ CancelItemRead(c)
      BY <2>2 DEF AddItemRead, DiscountRead, CancelItemRead, rows
    <2>3. ASSUME NEW x \in Orders, NEW q, orders' = [orders EXCEPT ![x] = q],
                 q.version = orders[x].version + 1, q.status = orders[x].status,
                 q.closed = orders[x].closed
          PROVE  orders'[o] = row \/ Raised(o, row.status, row.closed)
      <3>1. CASE x # o
        BY <1>1, <2>3, <3>1
      <3>2. CASE x = o
        <4>1. orders'[o] = q
          BY <1>1, <2>3, <3>2
        <4> QED BY <1>1, <2>3, <3>2, <4>1 DEF Raised
      <3> QED BY <3>1, <3>2
    <2>4. CASE AddItemCommit(c)
      <3> DEFINE x == req[c].order
                 a == snap[c].subtotal + Price[req[c].item]
                 d == a - snap[c].discount
                 q == [orders[x] EXCEPT !.subtotal = a, !.total = d, !.version = orders[x].version + 1]
      <3>1. x \in Orders /\ orders[x] \in OrderRow
        BY <1>1, <2>4, Committing, RequestFields DEF AddItemCommit
      <3>2. UNCHANGED orders \/ orders' = [orders EXCEPT ![x] = q]
        BY <2>4 DEF AddItemCommit
      <3> HIDE DEF x, a, d
      <3>3. /\ q.version = orders[x].version + 1 /\ q.status = orders[x].status
            /\ q.closed = orders[x].closed
        BY <3>1 DEF OrderRow
      <3> HIDE DEF q
      <3>4. orders'[o] = row \/ Raised(o, row.status, row.closed)
        BY <2>3, <3>1, <3>2, <3>3
      <3> QED BY <1>6, <3>4
    <2>5. CASE DiscountNow(c)
      <3>1. PICK r \in Requests : UNCHANGED orders \/ WriteDiscount(r.order, OrderSnap(r.order), r.amount)
        BY <2>5 DEF DiscountNow
      <3> DEFINE x == r.order
                 d == Max0(orders[x].subtotal - r.amount)
                 n == r.amount
                 q == [orders[x] EXCEPT !.discount = n, !.total = d, !.version = orders[x].version + 1]
      <3>2. x \in Orders /\ orders[x] \in OrderRow
        BY <1>1, RequestFields
      <3>3. UNCHANGED orders \/ orders' = [orders EXCEPT ![x] = q]
        BY <3>1 DEF WriteDiscount, OrderSnap, Snap
      <3> HIDE DEF x, d, n
      <3>4. /\ q.version = orders[x].version + 1 /\ q.status = orders[x].status
            /\ q.closed = orders[x].closed
        BY <3>2 DEF OrderRow
      <3> HIDE DEF q
      <3>5. orders'[o] = row \/ Raised(o, row.status, row.closed)
        BY <2>3, <3>2, <3>3, <3>4
      <3> QED BY <1>6, <3>5
    <2>6. CASE CancelItemNow(c)
      <3>1. PICK r \in Requests :
              UNCHANGED orders \/ WriteCancellation(r.order, r.item, OrderSnap(r.order))
        BY <2>6 DEF CancelItemNow
      <3> DEFINE x == r.order
                 a == live[x] - Price[r.item]
                 b == Least(orders[x].discount, a)
                 d == Max0(a - b)
                 q == [orders[x] EXCEPT !.subtotal = a, !.discount = b, !.total = d,
                                        !.version = orders[x].version + 1]
      <3>2. x \in Orders /\ orders[x] \in OrderRow
        BY <1>1, RequestFields
      <3>3. UNCHANGED orders \/ orders' = [orders EXCEPT ![x] = q]
        BY <3>1 DEF WriteCancellation, OrderSnap, Snap
      <3> HIDE DEF x, a, b, d
      <3>4. /\ q.version = orders[x].version + 1 /\ q.status = orders[x].status
            /\ q.closed = orders[x].closed
        BY <3>2 DEF OrderRow
      <3> HIDE DEF q
      <3>5. orders'[o] = row \/ Raised(o, row.status, row.closed)
        BY <2>3, <3>2, <3>3, <3>4
      <3> QED BY <1>6, <3>5
    <2> QED BY <1>6, <2>1, <2>2, <2>4, <2>5, <2>6 DEF Edit
  <1>7. CASE CloseRead(c) \/ WriteOffRead(c)
    BY <1>7 DEF CloseRead, WriteOffRead, rows
  <1>8. ASSUME CloseCommit(c) \/ WriteOffCommit(c), orders'[o] # orders[o]
        PROVE  /\ Current(c) /\ req[c].order = o
               /\ \/ CloseCommit(c) /\ Raised(o, "paid", TRUE)
                  \/ WriteOffCommit(c) /\ Raised(o, "written_off", TRUE)
    <2>1. PICK st \in {"paid", "written_off"} :
            /\ Current(c) /\ \/ CloseCommit(c) /\ st = "paid"
                             \/ WriteOffCommit(c) /\ st = "written_off"
            /\ orders' = [orders EXCEPT ![req[c].order] =
                  [orders[req[c].order] EXCEPT !.status = st, !.closed = TRUE,
                                   !.version = orders[req[c].order].version + 1]]
      BY <1>8 DEF CloseCommit, WriteOffCommit
    <2>2. req[c].order = o
      BY <1>1, <1>8, <2>1
    <2>3. orders'[o] = [row EXCEPT !.status = st, !.closed = TRUE, !.version = row.version + 1]
      BY <1>1, <2>1, <2>2
    <2>4. /\ orders'[o].version = row.version + 1
          /\ orders'[o].status = st /\ orders'[o].closed = TRUE
      BY <1>1, <2>3 DEF OrderRow
    <2> QED BY <1>1, <2>1, <2>2, <2>4 DEF Raised
  <1> QED BY <1>2, <1>3, <1>4, <1>5, <1>6, <1>7, <1>8 DEF Serve, Payment, Terminal, Closing

\* An order row is left alone, or gets a higher version.
LEMMA VersionRises ==
  ASSUME TypeInv, NoApprovedEdit, NoEditPending, NEW c \in Calls, Serve(c) \/ Crash(c),
         NEW o \in Orders
  PROVE  orders'[o] = orders[o] \/ orders'[o].version > orders[o].version
  BY OrdersWritten DEF Raised

\* Every write of an order row raises its version, whoever writes.
THEOREM VersionsRise == ASSUME NoApprovedEdit PROVE Spec => VersionNamesState
  <1>1. TypeInv /\ NoEditPending /\ [Next]_ledgerVars =>
           [\A o \in Orders : orders'[o] = orders[o]
                              \/ orders'[o].version > orders[o].version]_ledgerVars
    <2> SUFFICES ASSUME TypeInv, NoEditPending, [Next]_ledgerVars, ~UNCHANGED ledgerVars, NEW o \in Orders
                 PROVE  orders'[o] = orders[o] \/ orders'[o].version > orders[o].version
      OBVIOUS
    <2>1. PICK c \in Calls : Serve(c) \/ Crash(c)
      BY DEF Next, AllServed
    <2> QED BY <2>1, VersionRises
  <1> QED BY <1>1, TypeInvInit, TypeInvNext, EditInvInit, NoEditPendingNext,
             PTL DEF Spec, VersionNamesState
-----------------------------------------------------------------------------
\* What was paid by hand on o.
HandSum(rowset, o) == Total(ByHandOn(rowset, o), Keys)

\* A terminal answers only for charges made on a terminal.
TerminalRows ==
    /\ \A k \in Keys : payments[k].status \in {"pending", "unknown"} => payments[k].mode = "terminal"
    /\ \A c \in Calls : pc[c] \in {"terminal", "answered", "record"} =>
           payments[req[c].key].mode = "terminal"

\* The status a charge or an answer gives the order is that of an order paid.
PaidStatuses == \A c \in Calls :
    Commits(c, "register") \/ pc[c] = "record" => snap[c].status \in {"paid", "partially_paid"}

\* What a charge or a write-off has read holds still, if the order row does.
PendingFits == \A c \in Calls : LET o == req[c].order IN
    /\ Commits(c, "register") /\ Current(c) =>
           HandSum(payments, o) + req[c].amount <= orders[o].total /\ ~orders[o].closed
    /\ Commits(c, "writeOff") /\ Current(c) => HandSum(payments, o) = 0

UnpaidWhenWrittenOff == \A o \in Orders : orders[o].status = "written_off" => HandSum(payments, o) = 0

FitInv == TerminalRows /\ PaidStatuses /\ PendingFits /\ UnpaidWhenWrittenOff

\* A sum paid by hand is a natural number, and no more than was paid.
LEMMA HandSumNat ==
  ASSUME NEW rowset \in PaymentRows, NEW o
  PROVE  HandSum(rowset, o) \in Nat
  BY TermsInt, TotalNat, FiniteAssumption DEF HandSum

\* What is charged by hand on an order is at most what is paid.
LEMMA HandSumPaid ==
  ASSUME payments \in PaymentRows, PaidAgrees, NEW o \in Orders
  PROVE  HandSum(payments, o) <= paid[o]
  <1> DEFINE f == ByHandOn(payments, o)
             g == NetOn(payments, o)
  <1>1. \A k \in Keys : f[k] \in Int /\ g[k] \in Int /\ f[k] <= g[k]
    BY TermsInt
  <1> HIDE DEF f, g
  <1>2. Total(f, Keys) <= Total(g, Keys)
    BY <1>1, TotalMonotone, FiniteAssumption
  <1> QED BY <1>2 DEF HandSum, PaidAgrees, f, g

\* A manual charge that takes effect finds the order row it has read.
LEMMA RegisterWrites ==
  ASSUME TypeInv, NEW c \in Calls, RegisterCommit(c), payments' # payments
  PROVE  /\ Commits(c, "register") /\ Current(c) /\ req[c].order \in Orders
         /\ LET o == req[c].order
            IN  Raised(o, snap[c].status, orders[o].closed) /\ orders'[o].total = orders[o].total
  <1> DEFINE o == req[c].order
             row == orders[o]
  <1>1. o \in Orders /\ row \in OrderRow /\ orders \in [Orders -> OrderRow]
    BY Committing, RequestFields DEF RegisterCommit, TypeInv, RowsOK, RowsType
  <1>2. Commits(c, "register") /\ Current(c) /\ SetStatus(o, snap[c].status)
    BY DEF RegisterCommit
  <1>3. orders'[o] = [row EXCEPT !.status = snap[c].status, !.version = row.version + 1]
    BY <1>1, <1>2 DEF SetStatus
  <1>4. /\ orders'[o].version = row.version + 1 /\ orders'[o].total = row.total
        /\ orders'[o].status = snap[c].status /\ orders'[o].closed = row.closed
    BY <1>1, <1>3 DEF OrderRow
  <1>5. row.version \in Int
    BY <1>1 DEF OrderRow
  <1> QED BY <1>1, <1>2, <1>4, <1>5 DEF Raised

\* Only a manual charge raises what was paid by hand.
LEMMA HandStep ==
  ASSUME TypeInv, TypeInv', SumInv, TerminalRows, NEW c \in Calls, Serve(c) \/ Crash(c),
         NEW o \in Orders
  PROVE  \/ HandSum(payments', o) <= HandSum(payments, o)
         \/ /\ RegisterCommit(c) /\ payments' # payments /\ req[c].order = o
            /\ HandSum(payments', o) = HandSum(payments, o) + req[c].amount
  <1> DEFINE f == ByHandOn(payments, o)
             g == ByHandOn(payments', o)
  <1>1. payments \in PaymentRows /\ payments' \in PaymentRows
    BY DEF TypeInv, RowsOK, RowsType, PaymentRows
  <1>2. \A k \in Keys : f[k] \in Nat /\ g[k] \in Nat
    BY <1>1, TermsInt
  <1>3. ASSUME \A k \in Keys : g[k] <= f[k]
        PROVE  HandSum(payments', o) <= HandSum(payments, o)
    <2> HIDE DEF f, g
    <2>1. Total(g, Keys) <= Total(f, Keys)
      BY <1>2, <1>3, TotalMonotone, FiniteAssumption
    <2> QED BY <2>1 DEF HandSum, f, g
  <1>4. CASE UNCHANGED payments
    <2>1. \A k \in Keys : g[k] = f[k]
      BY <1>4
    <2> QED BY <1>2, <1>3, <2>1
  <1>5. ASSUME NEW k \in Keys, NewCharge(k, payments'[k])
        PROVE  /\ f[k] = 0 /\ \A j \in Keys \ {k} : g[j] = f[j]
    <2>1. payments[k] = AbsentPayment
      BY <1>5 DEF NewCharge, SumInv, AbsentRows
    <2>2. \A j \in Keys \ {k} : payments'[j] = payments[j]
      BY <1>1, <1>5 DEF NewCharge, PutPayment, PaymentRows
    <2> QED BY <2>1, <2>2 DEF ByHandOn, AbsentPayment, NetCharge
  <1>6. ASSUME RegisterCommit(c), payments' # payments, NewCharge(req[c].key, payments'[req[c].key]),
               req[c].key \in Keys, payments'[req[c].key] = ChargeRow(req[c], "manual", "confirmed")
        PROVE  \/ HandSum(payments', o) <= HandSum(payments, o)
               \/ req[c].order = o /\ HandSum(payments', o) = HandSum(payments, o) + req[c].amount
    <2> DEFINE k == req[c].key
    <2>1. req[c].amount \in Nat
      BY <1>6, Committing, RequestFields DEF RegisterCommit
    <2>2. g[k] = IF req[c].order = o THEN req[c].amount ELSE 0
      BY <1>6, <2>1 DEF ByHandOn, ChargeRow, NetCharge, Max0
    <2>3. f[k] = 0 /\ \A j \in Keys \ {k} : g[j] = f[j]
      BY <1>5, <1>6
    <2>4. CASE req[c].order # o
      BY <1>2, <1>3, <2>2, <2>3, <2>4
    <2>5. CASE req[c].order = o
      <3>1. k \in Keys
        BY <1>6
      <3> HIDE DEF f, g, k
      <3>2. Total(g, Keys) = Total(f, Keys) - f[k] + g[k]
        BY <1>2, <2>3, <3>1, TotalChange, FiniteAssumption
      <3>3. Total(f, Keys) \in Nat
        BY <1>2, TotalNat, FiniteAssumption
      <3> QED BY <2>1, <2>2, <2>3, <2>5, <3>2, <3>3 DEF HandSum, f, g
    <2> QED BY <2>4, <2>5
  <1>7. ASSUME IntentCommit(c), NewCharge(req[c].key, payments'[req[c].key]), req[c].key \in Keys,
               payments'[req[c].key] = ChargeRow(req[c], "terminal", "pending")
        PROVE  HandSum(payments', o) <= HandSum(payments, o)
    <2> DEFINE k == req[c].key
    <2>1. g[k] = 0
      BY <1>7 DEF ByHandOn, ChargeRow
    <2>2. f[k] = 0 /\ \A j \in Keys \ {k} : g[j] = f[j]
      BY <1>5, <1>7
    <2> QED BY <1>2, <1>3, <2>1, <2>2
  <1>8. ASSUME ResultCommit(c), AnswerOf(req[c].key, payments'[req[c].key]), req[c].key \in Keys
        PROVE  HandSum(payments', o) <= HandSum(payments, o)
    <2> DEFINE k == req[c].key
    <2>1. payments[k].mode = "terminal" /\ payments'[k].mode = "terminal"
      BY <1>8 DEF TerminalRows, ResultCommit, AnswerOf, SameRow
    <2>2. g[k] = 0 /\ f[k] = 0
      BY <1>8, <2>1 DEF ByHandOn
    <2>3. \A j \in Keys \ {k} : payments'[j] = payments[j]
      BY <1>1, <1>8 DEF AnswerOf, PutPayment, PaymentRows
    <2>4. \A j \in Keys \ {k} : g[j] = f[j]
      BY <2>3 DEF ByHandOn
    <2> QED BY <1>2, <1>3, <2>2, <2>4
  <1>9. ASSUME NEW k \in Keys, NEW t \in Keys, RefundOf(k, t, payments'[t], payments'[k])
        PROVE  HandSum(payments', o) <= HandSum(payments, o)
    <2>1. \A j \in Keys \ {k, t} : payments'[j] = payments[j]
      BY <1>1, <1>9 DEF RefundOf, PaymentRows
    <2>2. g[k] = 0
      BY <1>9 DEF ByHandOn, RefundOf, NetCharge
    <2>3. g[t] <= f[t]
      <3>1. NetCharge(payments[t]) \in Nat /\ NetCharge(payments'[t]) \in Nat
        BY <1>1, NetChargeNat DEF PaymentRows
      <3> QED BY <1>9, <3>1 DEF ByHandOn, RefundOf, SameRow
    <2>4. \A j \in Keys \ {k, t} : g[j] = f[j]
      BY <2>1 DEF ByHandOn
    <2> QED BY <1>2, <1>3, <2>2, <2>3, <2>4
  <1> QED BY <1>4, <1>6, <1>7, <1>8, <1>9, PaymentsWritten DEF SumInv

\* Terminals are only asked about, and only answer for, their own charges.
LEMMA TerminalRowsNext ==
  ASSUME TypeInv, TypeInv', SumInv, TerminalRows, NEW c \in Calls, Serve(c) \/ Crash(c)
  PROVE  TerminalRows'
  <1>1. payments \in PaymentRows /\ payments' \in PaymentRows
    BY DEF TypeInv, RowsOK, RowsType, PaymentRows
  <1>2. ASSUME NEW j \in Keys, payments'[j].status \in {"pending", "unknown"}
        PROVE  payments'[j].mode = "terminal"
    <2>1. CASE payments'[j] = payments[j]
      BY <1>2, <2>1 DEF TerminalRows
    <2>2. ASSUME NEW k \in Keys, NewCharge(k, payments'[k]), payments'[j] # payments[j],
                 \/ payments'[k] = ChargeRow(req[c], "manual", "confirmed")
                 \/ payments'[k] = ChargeRow(req[c], "terminal", "pending")
          PROVE  payments'[j].mode = "terminal"
      <3>1. j = k
        BY <1>1, <2>2 DEF NewCharge, PutPayment, PaymentRows
      <3> QED BY <1>2, <2>2, <3>1 DEF ChargeRow
    <2>3. ASSUME ResultCommit(c), AnswerOf(req[c].key, payments'[req[c].key]), req[c].key \in Keys,
                 payments'[j] # payments[j]
          PROVE  payments'[j].mode = "terminal"
      <3>1. j = req[c].key
        BY <1>1, <2>3 DEF AnswerOf, PutPayment, PaymentRows
      <3> QED BY <2>3, <3>1 DEF TerminalRows, ResultCommit, AnswerOf, SameRow
    <2>4. ASSUME NEW k \in Keys, NEW t \in Keys, RefundOf(k, t, payments'[t], payments'[k]),
                 payments'[j] # payments[j]
          PROVE  payments'[j].mode = "terminal"
      <3>1. j = t /\ j # k
        BY <1>1, <1>2, <2>4 DEF RefundOf, PaymentRows
      <3> QED BY <1>2, <2>4, <3>1 DEF RefundOf, SameRow, TerminalRows
    <2> QED BY <2>1, <2>2, <2>3, <2>4, PaymentsWritten DEF SumInv
  <1>3. ASSUME NEW d \in Calls, pc'[d] \in {"terminal", "answered", "record"}
        PROVE  payments'[req'[d].key].mode = "terminal"
    <2>1. CASE d # c
      <3>1. pc[d] = pc'[d] /\ req'[d] = req[d]
        BY <2>1, StepOf DEF OthersWait
      <3>2. req[d].key \in Keys /\ Exists(payments, req[d].key)
        BY <1>3, <3>1, RequestFields DEF TypeInv, CallsOK, RequestsKnown, ChargesExist
      <3> QED BY <1>3, <3>1, <3>2, RowsStay DEF SumInv, TerminalRows, SameRow
    <2>2. CASE IntentRead(c)
      <3>1. PICK r \in Requests :
              \/ SamePayment(payments[r.key], r, "terminal") /\ AwaitTerminal(c, r)
              \/ \E a : Reply(c, r, a)
              \/ \E s : Proceed(c, r, s)
        BY <2>2 DEF IntentRead
      <3>2. CASE d = c
        <4>1. SamePayment(payments[r.key], r, "terminal") /\ req'[c] = r
          BY <1>3, <3>1, <3>2 DEF Reply, Proceed, AwaitTerminal, TypeInv, CallsOK, CallsType
        <4>2. payments' = payments
          BY <2>2 DEF IntentRead, rows
        <4> QED BY <3>2, <4>1, <4>2 DEF SamePayment
      <3> QED BY <2>1, <3>2
    <2>3. CASE IntentCommit(c)
      <3>1. CASE d = c
        <4>1. ~Finish(c, "conflict")
          BY <1>3, <3>1 DEF Finish, Reply, TypeInv, CallsOK, CallsType
        <4>2. /\ PutPayment(req[c].key, ChargeRow(req[c], "terminal", "pending"))
              /\ AwaitTerminal(c, req[c])
          BY <2>3, <4>1 DEF IntentCommit
        <4>3. req'[c] = req[c] /\ req[c].key \in Keys
          BY <2>3, <4>2, Committing, RequestFields
             DEF IntentCommit, AwaitTerminal, TypeInv, CallsOK, CallsType
        <4> QED BY <1>1, <3>1, <4>2, <4>3 DEF PutPayment, ChargeRow, PaymentRows
      <3> QED BY <2>1, <3>1
    <2>4. CASE QueryRead(c) \/ CancelRead(c)
      <3>1. PICK r \in Requests :
              \/ payments[r.key].status \in {"pending", "unknown"} /\ AwaitTerminal(c, r)
              \/ Reply(c, r, "refused")
        BY <2>4 DEF QueryRead, CancelRead
      <3>2. CASE d = c
        <4>1. payments[r.key].status \in {"pending", "unknown"} /\ req'[c] = r
          BY <1>3, <3>1, <3>2 DEF Reply, AwaitTerminal, TypeInv, CallsOK, CallsType
        <4>2. payments' = payments
          BY <2>4 DEF QueryRead, CancelRead, rows
        <4> QED BY <3>2, <4>1, <4>2, RequestFields DEF TerminalRows
      <3> QED BY <2>1, <3>2
    <2>5. CASE TerminalAnswers(c) \/ ResultRead(c)
      <3>1. CASE d = c
        <4>1. pc[c] \in {"terminal", "answered"} /\ payments' = payments
          BY <2>5 DEF TerminalAnswers, ResultRead, rows
        <4>2. req'[c] = req[c]
          BY <2>5 DEF TerminalAnswers, ResultRead, Finish, Reply, TypeInv, CallsOK, CallsType
        <4> QED BY <3>1, <4>1, <4>2 DEF TerminalRows
      <3> QED BY <2>1, <3>1
    <2> QED BY <1>3, <2>1, <2>2, <2>3, <2>4, <2>5, StepOf
  <1> QED BY <1>2, <1>3 DEF TerminalRows

\* A charge and an answer read a status to give the order: paid, or in part.
LEMMA PaidStatusesNext ==
  ASSUME TypeInv, PaidStatuses, NEW c \in Calls, Serve(c) \/ Crash(c)
  PROVE  PaidStatuses'
  <1> SUFFICES ASSUME NEW d \in Calls, Commits(d, "register")' \/ pc'[d] = "record"
               PROVE  snap'[d].status \in {"paid", "partially_paid"}
    BY DEF PaidStatuses
  <1>1. CASE d # c
    BY <1>1, StepOf DEF OthersWait, Commits, PaidStatuses
  <1>2. CASE d = c /\ RegisterRead(c)
    <2>1. PICK r \in Requests :
            \/ \E a : Reply(c, r, a)
            \/ \E n, m : Proceed(c, r, Snap(r.order, StatusWhenPaid(n, m)))
      BY <1>2 DEF RegisterRead
    <2>2. PICK n, m : Proceed(c, r, Snap(r.order, StatusWhenPaid(n, m)))
      BY <1>2, <2>1 DEF Reply, Commits, TypeInv, CallsOK, CallsType
    <2>3. snap'[c].status = StatusWhenPaid(n, m)
      BY <2>2 DEF Proceed, Snap, TypeInv, CallsOK, CallsType
    <2> QED BY <1>2, <2>3 DEF StatusWhenPaid
  <1>3. CASE d = c /\ ResultRead(c)
    <2> DEFINE p == payments[req[c].key]
               n == paid[p.order] - NetCharge(p) + NetCharge([p EXCEPT !.status = "confirmed"])
               m == orders[p.order].total
               v == p.version
               w == orders[p.order].version
    <2>1. \/ \E a : Finish(c, a)
          \/ snap' = [snap EXCEPT ![c] = [snap[c] EXCEPT !.pversion = v, !.version = w,
                                                         !.status = StatusWhenPaid(n, m)]]
      BY <1>3 DEF ResultRead
    <2> HIDE DEF p, n, m, v, w
    <2>2. snap' = [snap EXCEPT ![c] = [snap[c] EXCEPT !.pversion = v, !.version = w,
                                                      !.status = StatusWhenPaid(n, m)]]
      BY <1>3, <2>1 DEF Finish, Reply, Commits, TypeInv, CallsOK, CallsType
    <2>3. snap[c] \in SnapType /\ snap \in [Calls -> SnapType]
      BY DEF TypeInv, CallsOK, CallsType
    <2>4. snap'[c].status = StatusWhenPaid(n, m)
      BY <2>2, <2>3 DEF SnapType
    <2> QED BY <1>3, <2>4 DEF StatusWhenPaid
  <1> QED BY <1>1, <1>2, <1>3, StepOf DEF Commits

\* What the calls that are about to commit have read: a step of another call
\* either leaves the order row and what was paid by hand, or raises its
\* version.
LEMMA PendingFitsNext ==
  ASSUME TypeInv, TypeInv', NoApprovedEdit, NoEditPending, EditInv, SumInv, FitInv,
         NEW c \in Calls, Serve(c) \/ Crash(c)
  PROVE  PendingFits'
  <1>1. /\ payments \in PaymentRows /\ payments' \in PaymentRows
        /\ orders \in [Orders -> OrderRow] /\ orders' \in [Orders -> OrderRow]
    BY DEF TypeInv, RowsOK, RowsType, PaymentRows
  <1>2. ASSUME NEW d \in Calls \ {c}, Current(d)', Commits(d, "register")' \/ Commits(d, "writeOff")'
        PROVE  /\ Current(d) /\ req[d].order \in Orders /\ orders'[req[d].order] = orders[req[d].order]
               /\ pc'[d] = pc[d] /\ req'[d] = req[d]
               /\ HandSum(payments', req[d].order) <= HandSum(payments, req[d].order)
    <2> DEFINE o == req[d].order
    <2>1. pc'[d] = pc[d] /\ req'[d] = req[d] /\ snap'[d] = snap[d]
      BY StepOf DEF OthersWait
    <2>2. Fresh(d) /\ o \in Orders /\ req[d] \in Requests /\ snap[d] \in SnapType
      <3>1. \E op : Commits(d, op)
        BY <1>2, <2>1 DEF Commits
      <3> QED BY <1>2, <2>1, <3>1, Committing, RequestFields DEF EditInv, VersionedOps, Commits
    <2>3. /\ orders[o].version \in Int /\ orders'[o].version \in Int /\ snap[d].version \in Int
      BY <1>1, <2>2 DEF OrderRow, SnapType
    <2>4. orders'[o].version <= orders[o].version
      BY <1>2, <2>1, <2>2, <2>3 DEF Fresh, Current
    <2>5. orders'[o] = orders[o]
      BY <2>2, <2>3, <2>4, VersionRises
    <2>6. ~(RegisterCommit(c) /\ payments' # payments /\ req[c].order = o)
      BY <2>3, <2>4, RegisterWrites DEF Raised
    <2>7. HandSum(payments', o) <= HandSum(payments, o)
      BY <2>2, <2>6, HandStep DEF FitInv
    <2> QED BY <1>2, <2>1, <2>2, <2>5, <2>7 DEF Current
  <1>3. ASSUME NEW d \in Calls \ {c}, Commits(d, "register")', Current(d)'
        PROVE  /\ HandSum(payments', req'[d].order) + req'[d].amount <= orders'[req'[d].order].total
               /\ ~orders'[req'[d].order].closed
    <2> DEFINE o == req[d].order
    <2>1. /\ Current(d) /\ Commits(d, "register") /\ o \in Orders /\ orders'[o] = orders[o]
          /\ req'[d] = req[d] /\ HandSum(payments', o) <= HandSum(payments, o)
      BY <1>2, <1>3 DEF Commits
    <2>2. HandSum(payments, o) + req[d].amount <= orders[o].total /\ ~orders[o].closed
      BY <2>1 DEF FitInv, PendingFits
    <2>3. HandSum(payments, o) \in Nat /\ HandSum(payments', o) \in Nat
      BY <1>1, HandSumNat DEF HandSum
    <2>4. req[d].amount \in Nat /\ orders[o].total \in Int
      BY <1>1, <2>1, Committing, RequestFields DEF OrderRow
    <2> QED BY <2>1, <2>2, <2>3, <2>4
  <1>4. ASSUME NEW d \in Calls \ {c}, Commits(d, "writeOff")', Current(d)'
        PROVE  HandSum(payments', req'[d].order) = 0
    <2> DEFINE o == req[d].order
    <2>1. /\ Current(d) /\ Commits(d, "writeOff") /\ o \in Orders
          /\ req'[d] = req[d] /\ HandSum(payments', o) <= HandSum(payments, o)
      BY <1>2, <1>4 DEF Commits
    <2>2. HandSum(payments, o) = 0
      BY <2>1 DEF FitInv, PendingFits
    <2>3. HandSum(payments', o) \in Nat
      BY <1>1, HandSumNat DEF HandSum
    <2> QED BY <2>1, <2>2, <2>3
  <1>5. ASSUME Commits(c, "register")'
        PROVE  /\ HandSum(payments', req'[c].order) + req'[c].amount <= orders'[req'[c].order].total
               /\ ~orders'[req'[c].order].closed
    <2>1. RegisterRead(c)
      BY <1>5, StepOf DEF Commits
    <2>2. PICK r \in Requests :
            \/ \E a : Reply(c, r, a)
            \/ /\ ~orders[r.order].closed /\ paid[r.order] + r.amount <= orders[r.order].total
               /\ \E s : Proceed(c, r, s)
      BY <2>1 DEF RegisterRead, Payable, Fits
    <2>3. /\ ~orders[r.order].closed /\ paid[r.order] + r.amount <= orders[r.order].total
          /\ req'[c] = r
      BY <1>5, <2>2 DEF Reply, Proceed, Commits, TypeInv, CallsOK, CallsType
    <2>4. payments' = payments /\ orders' = orders
      BY <2>1 DEF RegisterRead, rows
    <2>5. r.order \in Orders /\ r.amount \in Nat
      BY RequestFields
    <2>6. HandSum(payments, r.order) <= paid[r.order] /\ HandSum(payments, r.order) \in Nat
      BY <1>1, <2>5, HandSumPaid, HandSumNat DEF SumInv
    <2>7. paid[r.order] \in Int /\ orders[r.order].total \in Int
      BY <1>1, <2>5 DEF TypeInv, RowsOK, RowsType, OrderRow
    <2>8. HandSum(payments', r.order) = HandSum(payments, r.order)
      BY <2>4 DEF HandSum
    <2> QED BY <2>3, <2>4, <2>5, <2>6, <2>7, <2>8
  <1>6. ASSUME Commits(c, "writeOff")'
        PROVE  HandSum(payments', req'[c].order) = 0
    <2>1. WriteOffRead(c)
      BY <1>6, StepOf DEF Commits
    <2>2. PICK r \in Requests :
            \/ \E a : Reply(c, r, a)
            \/ /\ \A k \in Keys : payments[k].order = r.order => payments[k].status # "confirmed"
               /\ \E s : Proceed(c, r, s)
      BY <2>1 DEF WriteOffRead
    <2>3. /\ \A k \in Keys : payments[k].order = r.order => payments[k].status # "confirmed"
          /\ req'[c] = r
      BY <1>6, <2>2 DEF Reply, Proceed, Commits, TypeInv, CallsOK, CallsType
    <2>4. payments' = payments
      BY <2>1 DEF WriteOffRead, rows
    <2>5. \A k \in Keys : ByHandOn(payments, r.order)[k] = 0
      BY <2>3 DEF ByHandOn, NetCharge
    <2> QED BY <2>3, <2>4, <2>5, TotalZero, FiniteAssumption DEF HandSum
  <1> SUFFICES ASSUME NEW d \in Calls
               PROVE  /\ Commits(d, "register")' /\ Current(d)' =>
                            /\ HandSum(payments', req'[d].order) + req'[d].amount <= orders'[req'[d].order].total
                            /\ ~orders'[req'[d].order].closed
                      /\ Commits(d, "writeOff")' /\ Current(d)' => HandSum(payments', req'[d].order) = 0
    BY DEF PendingFits
  <1>7. CASE d = c
    BY <1>5, <1>6, <1>7
  <1>8. CASE d # c
    BY <1>3, <1>4, <1>8
  <1> QED BY <1>7, <1>8

\* An order is written off unpaid, and takes no charge by hand after that.
LEMMA WrittenOffNext ==
  ASSUME TypeInv, TypeInv', NoApprovedEdit, NoEditPending, SumInv, FitInv,
         NEW c \in Calls, Serve(c) \/ Crash(c)
  PROVE  UnpaidWhenWrittenOff'
  <1> SUFFICES ASSUME NEW o \in Orders, orders'[o].status = "written_off" PROVE HandSum(payments', o) = 0
    BY DEF UnpaidWhenWrittenOff
  <1>1. HandSum(payments, o) \in Nat /\ HandSum(payments', o) \in Nat
    BY HandSumNat DEF HandSum, TypeInv, RowsOK, RowsType, PaymentRows
  <1>2. HandSum(payments', o) <= HandSum(payments, o)
    <2>1. ~(RegisterCommit(c) /\ payments' # payments /\ req[c].order = o)
      BY RegisterWrites DEF Raised, FitInv, PaidStatuses
    <2> QED BY <2>1, HandStep DEF FitInv
  <1>3. orders[o].status = "written_off" \/ (WriteOffCommit(c) /\ Current(c) /\ req[c].order = o)
    <2>1. RegisterCommit(c) \/ ResultCommit(c) => snap[c].status # "written_off"
      BY DEF FitInv, PaidStatuses, RegisterCommit, ResultCommit
    <2> QED BY <2>1, OrdersWritten DEF Raised
  <1>4. HandSum(payments, o) = 0
    BY <1>3 DEF FitInv, UnpaidWhenWrittenOff, PendingFits, WriteOffCommit
  <1> QED BY <1>1, <1>2, <1>4

\* Every step keeps FitInv.
LEMMA FitInvNext ==
  ASSUME NoApprovedEdit
  PROVE  TypeInv /\ NoEditPending /\ EditInv /\ SumInv /\ FitInv /\ [Next]_ledgerVars => FitInv'
  <1> SUFFICES ASSUME TypeInv, TypeInv', NoEditPending, EditInv, SumInv, FitInv, [Next]_ledgerVars
               PROVE  FitInv'
    BY TypeInvNext
  <1>1. ASSUME NEW c \in Calls, Serve(c) \/ Crash(c) PROVE FitInv'
    BY <1>1, TerminalRowsNext, PaidStatusesNext, PendingFitsNext, WrittenOffNext DEF FitInv
  <1>2. CASE UNCHANGED ledgerVars
    BY <1>2 DEF ledgerVars, rows, ctl, FitInv, TerminalRows, PaidStatuses, PendingFits, Commits,
                Current, UnpaidWhenWrittenOff, HandSum
  <1> QED BY <1>1, <1>2 DEF Next, AllServed

\* At first nothing is charged, so FitInv holds.
LEMMA FitInvInit == Init => FitInv
  BY DEF Init, FitInv, TerminalRows, AbsentPayment, PaidStatuses, PendingFits, Commits,
         UnpaidWhenWrittenOff

\* registerPayment, raced by itself, by refunds, by edits of the order, by its
\* closing and by a terminal's answers: while no edit is run from an approval,
\* what is charged by hand fits the total the order then has.
THEOREM ManualChargesFit == ASSUME NoApprovedEdit PROVE Spec => ChargesFit
  <1> DEFINE A == \A k \in Keys :
                     /\ payments[k].status # "confirmed" /\ payments'[k].status = "confirmed"
                     /\ payments'[k].mode = "manual"
                     => LET o == payments'[k].order
                        IN  PaidByHand(payments', o) <= orders'[o].total
  <1>1. TypeInv /\ TypeInv' /\ SumInv /\ FitInv /\ [Next]_ledgerVars => [A]_ledgerVars
    <2> SUFFICES ASSUME TypeInv, TypeInv', SumInv, FitInv, [Next]_ledgerVars, ~UNCHANGED ledgerVars,
                        NEW k \in Keys, payments[k].status # "confirmed",
                        payments'[k].status = "confirmed", payments'[k].mode = "manual"
                 PROVE  PaidByHand(payments', payments'[k].order) <= orders'[payments'[k].order].total
      OBVIOUS
    <2>1. PICK c \in Calls : Serve(c) \/ Crash(c)
      BY DEF Next, AllServed
    <2>2. payments \in PaymentRows /\ payments' \in PaymentRows /\ orders \in [Orders -> OrderRow]
      BY DEF TypeInv, RowsOK, RowsType, PaymentRows
    <2>3. ASSUME NEW j \in Keys, NewCharge(j, payments'[j]) \/ AnswerOf(j, payments'[j])
          PROVE  j = k
      BY <2>2, <2>3 DEF NewCharge, AnswerOf, PutPayment, PaymentRows
    <2>4. ~(ResultCommit(c) /\ req[c].key = k /\ AnswerOf(k, payments'[k]))
      BY DEF ResultCommit, AnswerOf, SameRow, FitInv, TerminalRows
    <2>5. ASSUME NEW j \in Keys, NEW t \in Keys, RefundOf(j, t, payments'[t], payments'[j])
          PROVE  FALSE
      <3>1. k = t \/ k = j
        BY <2>2, <2>5 DEF RefundOf, PaymentRows
      <3> QED BY <2>5, <3>1 DEF RefundOf
    <2>6. /\ RegisterCommit(c) /\ payments' # payments
          /\ payments'[k] = ChargeRow(req[c], "manual", "confirmed")
      <3>1. payments'[k] # ChargeRow(req[c], "terminal", "pending")
        BY DEF ChargeRow
      <3>2. payments' # payments
        OBVIOUS
      <3> QED BY <2>1, <2>3, <2>4, <2>5, <3>1, <3>2, PaymentsWritten DEF SumInv
    <2> DEFINE o == req[c].order
    <2>7. payments'[k].order = o
      BY <2>6 DEF ChargeRow
    <2>8. /\ Commits(c, "register") /\ Current(c) /\ o \in Orders
          /\ orders'[o].total = orders[o].total
      BY <2>6, RegisterWrites
    <2>9. HandSum(payments, o) + req[c].amount <= orders[o].total
      BY <2>8 DEF FitInv, PendingFits
    <2>10. HandSum(payments, o) \in Nat /\ HandSum(payments', o) \in Nat /\ req[c].amount \in Nat /\ orders[o].total \in Int
      BY <2>2, <2>8, HandSumNat, Committing, RequestFields DEF HandSum, OrderRow
    <2>11. HandSum(payments', o) <= HandSum(payments, o) + req[c].amount
      BY <2>1, <2>8, <2>10, HandStep DEF FitInv
    <2>12. PaidByHand(payments', o) = HandSum(payments', o)
      BY <2>2, PaidByHandIs DEF HandSum
    <2> QED BY <2>7, <2>8, <2>9, <2>10, <2>11, <2>12
  <1>2. [][A]_ledgerVars <=> ChargesFit
    BY DEF ChargesFit
  <1> HIDE DEF A
  <1> QED BY <1>1, <1>2, TypeInvInit, TypeInvNext, EditInvInit, EditInvNext, NoEditPendingNext,
             SumInvInit, SumInvNext, FitInvInit, FitInvNext, PTL DEF Spec

\* closeOrder and writeOffOrder are the end of an order: while no edit is run
\* from an approval, nothing reopens it, and only the late answer of a
\* terminal gives it another status.
THEOREM ClosedOrdersStay == ASSUME NoApprovedEdit PROVE Spec => ClosedIsFinal
  <1> DEFINE A == \A o \in Orders : orders[o].closed =>
                     /\ orders'[o].closed
                     /\ orders'[o].status = orders[o].status \/ TerminalConfirms(o)
  <1>1. TypeInv /\ NoEditPending /\ EditInv /\ SumInv /\ FitInv /\ [Next]_ledgerVars => [A]_ledgerVars
    <2> SUFFICES ASSUME TypeInv, NoEditPending, EditInv, SumInv, FitInv, [Next]_ledgerVars,
                        ~UNCHANGED ledgerVars, NEW o \in Orders, orders[o].closed
                 PROVE  /\ orders'[o].closed
                        /\ orders'[o].status = orders[o].status \/ TerminalConfirms(o)
      OBVIOUS
    <2>1. PICK c \in Calls : Serve(c) \/ Crash(c)
      BY DEF Next, AllServed
    <2>2. ~(RegisterCommit(c) /\ Current(c) /\ req[c].order = o)
      BY DEF RegisterCommit, FitInv, PendingFits
    <2>3. ASSUME CloseCommit(c) \/ WriteOffCommit(c), Current(c), req[c].order = o PROVE FALSE
      <3>1. Fresh(c) /\ req[c].op \in {"close", "writeOff"}
        BY <2>3 DEF CloseCommit, WriteOffCommit, Commits, EditInv, VersionedOps
      <3> QED BY <2>3, <3>1 DEF Fresh, Current
    <2>4. ASSUME ResultCommit(c), snap[c].result = "confirmed", payments[req[c].key].order = o,
                 payments[req[c].key].version = snap[c].pversion
          PROVE  TerminalConfirms(o)
      <3> DEFINE k == req[c].key
                 v == snap[c].pversion + 1
                 p == [payments[k] EXCEPT !.status = snap[c].result, !.version = v]
      <3>1. k \in Keys /\ payments[k] \in PaymentRow /\ payments \in [Keys -> PaymentRow]
        BY <2>4, AnsweredCharge DEF ResultCommit, TypeInv, RowsOK, RowsType
      <3>2. PutPayment(k, p)
        BY <2>4 DEF ResultCommit
      <3>3. payments'[k] = p
        BY <3>1, <3>2 DEF PutPayment
      <3>4. payments[k].mode = "terminal" /\ payments[k].version \in Int
        BY <2>4, <3>1 DEF ResultCommit, FitInv, TerminalRows, PaymentRow
      <3>5. /\ p.status = "confirmed" /\ p.order = payments[k].order
            /\ p.mode = payments[k].mode /\ p.version = v
        BY <2>4, <3>1 DEF PaymentRow
      <3>6. v # payments[k].version
        BY <2>4, <3>4
      <3> QED BY <2>4, <3>1, <3>3, <3>4, <3>5, <3>6 DEF TerminalConfirms
    <2> QED BY <2>1, <2>2, <2>3, <2>4, OrdersWritten DEF Raised
  <1>2. [][A]_ledgerVars <=> ClosedIsFinal
    BY DEF ClosedIsFinal
  <1> HIDE DEF A
  <1> QED BY <1>1, <1>2, TypeInvInit, TypeInvNext, EditInvInit, EditInvNext, NoEditPendingNext,
             SumInvInit, SumInvNext, FitInvInit, FitInvNext, PTL DEF Spec

\* writeOffOrder, raced by charges and refunds: while no edit is run from an
\* approval, an order written off carries no charge taken by hand.
THEOREM WriteOffsAreUnpaid == ASSUME NoApprovedEdit PROVE Spec => []WrittenOffIsUnpaid
  <1>1. TypeInv /\ FitInv => WrittenOffIsUnpaid
    <2> SUFFICES ASSUME TypeInv, FitInv PROVE WrittenOffIsUnpaid
      OBVIOUS
    <2>1. \A o \in Orders : PaidByHand(payments, o) = HandSum(payments, o)
      BY PaidByHandIs DEF HandSum, TypeInv, RowsOK, RowsType, PaymentRows
    <2> QED BY <2>1 DEF WrittenOffIsUnpaid, FitInv, UnpaidWhenWrittenOff
  <1> QED BY <1>1, TypeInvInit, TypeInvNext, EditInvInit, EditInvNext, NoEditPendingNext,
             SumInvInit, SumInvNext, FitInvInit, FitInvNext, PTL DEF Spec
-----------------------------------------------------------------------------
(* An order is closed as paid only while it is.  Nothing that was paid is  *)
(* taken back and nothing changes what is due, so what a call has read of  *)
(* the sum it may still rely on when it commits.                           *)

\* An order with the status of one that is paid is paid.
PaidInFull == \A o \in Orders : orders[o].status = "paid" => paid[o] >= orders[o].total

\* A charge about to commit covers the order if it will say so, ...
ChargeCovers == \A c \in Calls :
    Commits(c, "register") /\ snap[c].status = "paid" =>
        paid[req[c].order] + req[c].amount >= orders[req[c].order].total

\* ... and a closing is of an order with that status, or has an old version.
ClosesPaid == \A c \in Calls :
    Commits(c, "close") /\ Current(c) => orders[req[c].order].status = "paid"

\* What confirming charge p would make of the sum of its order.
WouldCover(p) == paid[p.order] + NetCharge([p EXCEPT !.status = "confirmed"]) >= orders[p.order].total

\* While its version is the charge's, an answer is for a charge that counts
\* for nothing yet, and covers the order if it will say so.
AnswerCovers == \A c \in Calls : pc[c] = "record" =>
    LET p == payments[req[c].key]
    IN  /\ snap[c].pversion <= p.version
        /\ snap[c].pversion = p.version =>
               /\ p.status # "confirmed"
               /\ snap[c].status = "paid" => WouldCover(p)

CoverInv == PaidInFull /\ ChargeCovers /\ ClosesPaid /\ AnswerCovers

\* What a call asks for it keeps, so the calls were of that kind before.
LEMMA OnlyChargedBefore ==
  ASSUME TypeInv, OnlyCharged', NEW c \in Calls, Serve(c) \/ Crash(c)
  PROVE  OnlyCharged /\ ~Edit(c) /\ ~RefundCommit(c)
  <1>1. \A d \in Calls \ {c} : pc'[d] = pc[d] /\ req'[d] = req[d]
    BY StepOf DEF OthersWait
  <1>2. pc[c] # "idle" => pc'[c] # "idle" /\ req'[c] = req[c]
    <2>1. /\ \A a : Finish(c, a) => pc'[c] # "idle" /\ req'[c] = req[c]
          /\ \A r : AwaitTerminal(c, r) => pc'[c] # "idle" /\ req'[c] = r
      BY DEF Finish, Reply, AwaitTerminal, TypeInv, CallsOK, CallsType
    <2>2. CASE Payment(c) \/ Crash(c)
      BY <2>1, <2>2 DEF Payment, RegisterRead, RegisterCommit, RefundRead, RefundCommit, Crash, Begins
    <2>3. CASE TerminalAnswers(c) \/ ResultRead(c) \/ ResultCommit(c)
      BY <2>1, <2>3 DEF TerminalAnswers, ResultRead, ResultCommit, TypeInv, CallsOK, CallsType
    <2>4. CASE IntentRead(c) \/ IntentCommit(c) \/ QueryRead(c) \/ CancelRead(c)
      BY <2>1, <2>4 DEF IntentRead, IntentCommit, QueryRead, CancelRead, Begins
    <2>5. CASE Edit(c)
      BY <2>1, <2>5 DEF Edit, AddItemRead, AddItemCommit, DiscountNow, DiscountRead, DiscountCommit,
                        CancelItemNow, CancelItemRead, CancelItemCommit, Begins
    <2>6. CASE Closing(c)
      BY <2>1, <2>6 DEF Closing, CloseRead, CloseCommit, WriteOffRead, WriteOffCommit, Begins
    <2> QED BY <2>2, <2>3, <2>4, <2>5, <2>6 DEF Serve, Terminal
  <1>3. ASSUME Edit(c) \/ RefundCommit(c)
        PROVE  pc'[c] # "idle" /\ req'[c].op \notin ChargingOps
    <2>1. /\ \A r, a : Reply(c, r, a) => pc'[c] # "idle" /\ req'[c] = r
          /\ \A r, s : Proceed(c, r, s) => pc'[c] # "idle" /\ req'[c] = r
      BY DEF Reply, Proceed, TypeInv, CallsOK, CallsType
    <2>2. CASE AddItemRead(c) \/ AddItemCommit(c)
      BY <2>1, <2>2 DEF AddItemRead, AddItemCommit, Begins, Commits, Finish, ChargingOps
    <2>3. CASE DiscountNow(c) \/ DiscountRead(c) \/ DiscountCommit(c)
      BY <2>1, <2>3 DEF DiscountNow, DiscountRead, DiscountCommit, Begins, Commits, Finish, ChargingOps
    <2>4. CASE CancelItemNow(c) \/ CancelItemRead(c) \/ CancelItemCommit(c)
      BY <2>1, <2>4 DEF CancelItemNow, CancelItemRead, CancelItemCommit, Begins, Commits, Finish, ChargingOps
    <2>5. CASE RefundCommit(c)
      BY <2>1, <2>5 DEF RefundCommit, Commits, Finish, ChargingOps
    <2> QED BY <1>3, <2>2, <2>3, <2>4, <2>5 DEF Edit
  <1>4. OnlyCharged
    BY <1>1, <1>2 DEF OnlyCharged
  <1> QED BY <1>3, <1>4 DEF OnlyCharged

\* Only an edit changes what is due.
LEMMA TotalStays ==
  ASSUME TypeInv, NEW c \in Calls, Serve(c) \/ Crash(c), ~Edit(c), NEW o \in Orders
  PROVE  orders'[o].total = orders[o].total
  <1>1. orders \in [Orders -> OrderRow]
    BY DEF TypeInv, RowsOK, RowsType
  <1>2. ASSUME NEW x, NEW st, SetStatus(x, st) PROVE orders'[o].total = orders[o].total
    <2>1. orders[o] \in OrderRow
      BY <1>1
    <2> QED BY <1>1, <1>2, <2>1 DEF SetStatus, OrderRow
  <1>3. CASE Payment(c) \/ Crash(c)
    BY <1>2, <1>3 DEF Payment, RegisterRead, RegisterCommit, RefundRead, RefundCommit, Crash, rows
  <1>4. CASE Terminal(c)
    BY <1>2, <1>4 DEF Terminal, IntentRead, IntentCommit, QueryRead, CancelRead, TerminalAnswers,
                      ResultRead, ResultCommit, rows
  <1>5. CASE Closing(c)
    <2>1. CASE CloseRead(c) \/ WriteOffRead(c)
      BY <2>1 DEF CloseRead, WriteOffRead, rows
    <2>2. CASE CloseCommit(c) \/ WriteOffCommit(c)
      <3> SUFFICES ASSUME orders' # orders PROVE orders'[o].total = orders[o].total
        OBVIOUS
      <3> DEFINE x == req[c].order
      <3>1. PICK st \in {"paid", "written_off"} :
              orders' = [orders EXCEPT ![x] = [orders[x] EXCEPT !.status = st, !.closed = TRUE,
                                                                !.version = orders[x].version + 1]]
        BY <2>2 DEF CloseCommit, WriteOffCommit
      <3>2. CASE x # o
        BY <1>1, <3>1, <3>2
      <3>3. CASE x = o
        <4>1. orders[o] \in OrderRow /\ orders \in [Orders -> OrderRow]
          BY <1>1
        <4>2. orders'[o] = [orders[o] EXCEPT !.status = st, !.closed = TRUE, !.version = orders[o].version + 1]
          BY <3>1, <3>3, <4>1
        <4> QED BY <4>1, <4>2 DEF OrderRow
      <3> QED BY <3>2, <3>3
    <2> QED BY <1>5, <2>1, <2>2 DEF Closing
  <1> QED BY <1>3, <1>4, <1>5 DEF Serve

\* While nothing is refunded, what is paid on an order only grows, and a
\* charge is only written by the answer to it, with a higher version.
LEMMA PaidGrows ==
  ASSUME TypeInv, SumInv, AnswerCovers, NEW c \in Calls, Serve(c) \/ Crash(c), ~RefundCommit(c)
  PROVE  /\ \A o \in Orders : paid[o] \in Int /\ paid'[o] \in Int /\ paid'[o] >= paid[o]
         /\ \A k \in Keys : Exists(payments, k) /\ payments'[k] # payments[k] =>
                payments'[k].version > payments[k].version
  <1>1. payments \in [Keys -> PaymentRow] /\ paid \in [Orders -> Int]
    BY DEF TypeInv, RowsOK, RowsType
  <1>2. ASSUME NEW k \in Keys, PutPayment(k, payments'[k]), payments'[k] \in PaymentRow,
               NetCharge(payments[k]) = 0
        PROVE  \A o \in Orders : paid[o] \in Int /\ paid'[o] \in Int /\ paid'[o] >= paid[o]
    <2> DEFINE n == NetCharge(payments'[k])
    <2>1. n \in Nat
      BY <1>2, NetChargeNat
    <2>2. \A o \in Orders : paid'[o] = IF payments'[k].order = o THEN paid[o] - 0 + n ELSE paid[o]
      BY <1>2 DEF PutPayment
    <2> HIDE DEF n
    <2> QED BY <1>1, <2>1, <2>2
  <1>3. CASE UNCHANGED <<payments, paid>>
    BY <1>1, <1>3
  <1>4. ASSUME NEW k \in Keys, NewCharge(k, payments'[k]), payments'[k] \in PaymentRow
        PROVE  /\ \A o \in Orders : paid[o] \in Int /\ paid'[o] \in Int /\ paid'[o] >= paid[o]
               /\ \A j \in Keys : Exists(payments, j) /\ payments'[j] # payments[j] =>
                      payments'[j].version > payments[j].version
    <2>1. NetCharge(payments[k]) = 0
      BY <1>4 DEF NewCharge, Exists, NetCharge
    <2>2. \A j \in Keys \ {k} : payments'[j] = payments[j]
      BY <1>1, <1>4 DEF NewCharge, PutPayment
    <2> QED BY <1>2, <1>4, <2>1, <2>2 DEF NewCharge
  <1>5. ASSUME ResultCommit(c), AnswerOf(req[c].key, payments'[req[c].key]), req[c].key \in Keys,
               payments'[req[c].key] \in PaymentRow, ~UNCHANGED <<payments, paid>>
        PROVE  /\ \A o \in Orders : paid[o] \in Int /\ paid'[o] \in Int /\ paid'[o] >= paid[o]
               /\ \A j \in Keys : Exists(payments, j) /\ payments'[j] # payments[j] =>
                      payments'[j].version > payments[j].version
    <2> DEFINE k == req[c].key
    <2>1. pc[c] = "record" /\ payments[k].version = snap[c].pversion
      BY <1>5 DEF ResultCommit
    <2>2. NetCharge(payments[k]) = 0
      BY <2>1 DEF AnswerCovers, NetCharge
    <2>3. payments'[k].version = payments[k].version + 1
      <3> DEFINE v == snap[c].pversion + 1
                 p == [payments[k] EXCEPT !.status = snap[c].result, !.version = v]
      <3>1. PutPayment(k, p)
        BY <1>5 DEF ResultCommit
      <3>2. payments'[k] = p
        BY <1>1, <1>5, <3>1 DEF PutPayment
      <3>3. p.version = v
        BY <1>1, <1>5 DEF PaymentRow
      <3> QED BY <2>1, <3>2, <3>3
    <2>4. payments[k].version \in Int
      BY <1>1, <1>5 DEF PaymentRow
    <2>5. \A j \in Keys \ {k} : payments'[j] = payments[j]
      BY <1>1, <1>5 DEF AnswerOf, PutPayment
    <2> QED BY <1>2, <1>5, <2>2, <2>3, <2>4, <2>5 DEF AnswerOf
  <1> QED BY <1>3, <1>4, <1>5, PaymentsWritten DEF SumInv

\* Each part of CoverInv is kept.  A charge that is about to commit has read
\* the sum it adds to, or a smaller one.
LEMMA ChargeCoversNext ==
  ASSUME TypeInv, TypeInv', SumInv, CoverInv, OnlyCharged', NEW c \in Calls, Serve(c) \/ Crash(c)
  PROVE  ChargeCovers'
  <1> SUFFICES ASSUME NEW d \in Calls, Commits(d, "register")', snap'[d].status = "paid"
               PROVE  paid'[req'[d].order] + req'[d].amount >= orders'[req'[d].order].total
    BY DEF ChargeCovers
  <1>1. ~Edit(c) /\ ~RefundCommit(c)
    BY OnlyChargedBefore
  <1>2. CASE d # c
    <2> DEFINE o == req[d].order
    <2>1. pc'[d] = pc[d] /\ req'[d] = req[d] /\ snap'[d] = snap[d]
      BY <1>2, StepOf DEF OthersWait
    <2>2. Commits(d, "register") /\ o \in Orders /\ req[d].amount \in Nat
      BY <2>1, Committing, RequestFields DEF Commits
    <2>3. paid[o] + req[d].amount >= orders[o].total
      BY <2>1, <2>2 DEF CoverInv, ChargeCovers
    <2>4. paid[o] \in Int /\ paid'[o] \in Int /\ paid'[o] >= paid[o]
      BY <1>1, <2>2, PaidGrows DEF CoverInv
    <2>5. orders'[o].total = orders[o].total /\ orders[o].total \in Int
      BY <1>1, <2>2, TotalStays DEF TypeInv, RowsOK, RowsType, OrderRow
    <2> QED BY <2>1, <2>2, <2>3, <2>4, <2>5
  <1>3. CASE d = c
    <2>1. RegisterRead(c)
      BY <1>3, StepOf DEF Commits
    <2>2. PICK r \in Requests :
            \/ \E a : Reply(c, r, a)
            \/ Proceed(c, r, Snap(r.order, StatusWhenPaid(paid[r.order] + r.amount, orders[r.order].total)))
      BY <2>1 DEF RegisterRead
    <2>3. /\ req'[c] = r
          /\ snap'[c] = Snap(r.order, StatusWhenPaid(paid[r.order] + r.amount, orders[r.order].total))
      BY <1>3, <2>2 DEF Reply, Proceed, Commits, TypeInv, CallsOK, CallsType
    <2>4. StatusWhenPaid(paid[r.order] + r.amount, orders[r.order].total) = "paid"
      BY <1>3, <2>3 DEF Snap
    <2>5. UNCHANGED <<orders, paid>>
      BY <2>1 DEF RegisterRead, rows
    <2> QED BY <1>3, <2>3, <2>4, <2>5 DEF StatusWhenPaid
  <1> QED BY <1>2, <1>3

\* A closing that would still find the version it read finds the order so.
LEMMA ClosesPaidNext ==
  ASSUME TypeInv, TypeInv', NoApprovedEdit, NoEditPending, EditInv, CoverInv,
         NEW c \in Calls, Serve(c) \/ Crash(c)
  PROVE  ClosesPaid'
  <1> SUFFICES ASSUME NEW d \in Calls, Commits(d, "close")', Current(d)'
               PROVE  orders'[req'[d].order].status = "paid"
    BY DEF ClosesPaid
  <1>1. CASE d # c
    <2> DEFINE o == req[d].order
    <2>1. pc'[d] = pc[d] /\ req'[d] = req[d] /\ snap'[d] = snap[d]
      BY <1>1, StepOf DEF OthersWait
    <2>2. Commits(d, "close") /\ Fresh(d) /\ o \in Orders /\ snap[d] \in SnapType
      BY <2>1, Committing, RequestFields DEF EditInv, VersionedOps, Commits
    <2>3. /\ orders[o].version \in Int /\ orders'[o].version \in Int /\ snap[d].version \in Int
      BY <2>2 DEF TypeInv, RowsOK, RowsType, OrderRow, SnapType
    <2>4. orders'[o].version <= orders[o].version
      BY <2>1, <2>2, <2>3 DEF Fresh, Current
    <2>5. orders'[o] = orders[o]
      BY <2>2, <2>3, <2>4, VersionRises
    <2> QED BY <2>1, <2>2, <2>5 DEF CoverInv, ClosesPaid, Current
  <1>2. CASE d = c
    <2>1. CloseRead(c)
      BY <1>2, StepOf DEF Commits
    <2>2. PICK r \in Requests :
            \/ \E a : Reply(c, r, a)
            \/ orders[r.order].status = "paid" /\ \E s : Proceed(c, r, s)
      BY <2>1 DEF CloseRead, ReadyToClose
    <2>3. req'[c] = r /\ orders[r.order].status = "paid"
      BY <1>2, <2>2 DEF Reply, Proceed, Commits, TypeInv, CallsOK, CallsType
    <2>4. orders' = orders
      BY <2>1 DEF CloseRead, rows
    <2> QED BY <1>2, <2>3, <2>4
  <1> QED BY <1>1, <1>2

\* An answer about to be recorded has read the charge and the sum, or the
\* charge has a higher version by now.
LEMMA AnswerCoversNext ==
  ASSUME TypeInv, TypeInv', SumInv, CoverInv, OnlyCharged', NEW c \in Calls, Serve(c) \/ Crash(c)
  PROVE  AnswerCovers'
  <1> DEFINE p(d) == payments[req[d].key]
             Covers(d) == /\ snap[d].pversion <= p(d).version
                          /\ snap[d].pversion = p(d).version =>
                                 /\ p(d).status # "confirmed"
                                 /\ snap[d].status = "paid" => WouldCover(p(d))
  <1> SUFFICES ASSUME NEW d \in Calls, pc'[d] = "record" PROVE Covers(d)'
    BY DEF AnswerCovers
  <1>1. ~Edit(c) /\ ~RefundCommit(c)
    BY OnlyChargedBefore
  <1>2. CASE d # c
    <2> DEFINE q == payments[req[d].key]
               o == q.order
    <2>1. pc[d] = "record" /\ req'[d] = req[d] /\ snap'[d] = snap[d]
      BY <1>2, StepOf DEF OthersWait
    <2>2. req[d].key \in Keys /\ Exists(payments, req[d].key) /\ q \in PaymentRow /\ o \in Orders /\ snap[d] \in SnapType
      BY <2>1, AnsweredCharge
    <2>3. Covers(d)
      BY <2>1 DEF CoverInv, AnswerCovers
    <2>4. CASE payments'[req[d].key] = q
      <3>1. paid[o] \in Int /\ paid'[o] \in Int /\ paid'[o] >= paid[o]
        BY <1>1, <2>2, PaidGrows DEF CoverInv
      <3>2. orders'[o].total = orders[o].total /\ orders[o].total \in Int
        BY <1>1, <2>2, TotalStays DEF TypeInv, RowsOK, RowsType, OrderRow
      <3>3. NetCharge([q EXCEPT !.status = "confirmed"]) \in Int
        BY <2>2, PaymentRowFields, NetChargeInt DEF PaymentStatuses
      <3>4. WouldCover(q) => paid'[o] + NetCharge([q EXCEPT !.status = "confirmed"]) >= orders'[o].total
        BY <3>1, <3>2, <3>3 DEF WouldCover
      <3> QED BY <2>1, <2>3, <2>4, <3>4 DEF WouldCover
    <2>5. CASE payments'[req[d].key] # q
      <3>1. payments'[req[d].key].version > q.version
        BY <1>1, <2>2, <2>5, PaidGrows DEF CoverInv
      <3>2. q.version \in Int /\ snap[d].pversion \in Int /\ payments'[req[d].key].version \in Int
        BY <2>2 DEF PaymentRow, SnapType, TypeInv, RowsOK, RowsType
      <3> QED BY <2>1, <2>3, <3>1, <3>2
    <2> QED BY <2>4, <2>5
  <1>3. CASE d = c
    <2> DEFINE q == payments[req[c].key]
               n == paid[q.order] - NetCharge(q) + NetCharge([q EXCEPT !.status = "confirmed"])
               m == orders[q.order].total
               v == q.version
               w == orders[q.order].version
    <2>1. ResultRead(c)
      BY <1>3, StepOf
    <2>2. /\ snap' = [snap EXCEPT ![c] = [snap[c] EXCEPT !.pversion = v, !.version = w,
                                                         !.status = StatusWhenPaid(n, m)]]
          /\ UNCHANGED req /\ q.status # "confirmed"
      BY <1>3, <2>1 DEF ResultRead, Finish, Reply, TypeInv, CallsOK, CallsType
    <2>3. snap[c] \in SnapType /\ snap \in [Calls -> SnapType]
      BY DEF TypeInv, CallsOK, CallsType
    <2>4. UNCHANGED <<payments, paid, orders>>
      BY <2>1 DEF ResultRead, rows
    <2>5. q \in PaymentRow /\ q.order \in Orders
      BY <2>1, AnsweredCharge DEF ResultRead
    <2>6. v \in Int /\ paid[q.order] \in Int /\ NetCharge(q) = 0
      BY <2>2, <2>5 DEF PaymentRow, TypeInv, RowsOK, RowsType, NetCharge
    <2>7. NetCharge([q EXCEPT !.status = "confirmed"]) \in Int
      BY <2>5, PaymentRowFields, NetChargeInt DEF PaymentStatuses
    <2>8. StatusWhenPaid(n, m) = "paid" => WouldCover(q)
      BY <2>6, <2>7 DEF StatusWhenPaid, WouldCover
    <2> HIDE DEF n, m, v, w
    <2>9. snap'[c].pversion = v /\ snap'[c].status = StatusWhenPaid(n, m)
      BY <2>2, <2>3 DEF SnapType
    <2>10. WouldCover(q)' <=> WouldCover(q)
      BY <2>2, <2>4 DEF WouldCover
    <2> QED BY <1>3, <2>2, <2>4, <2>6, <2>8, <2>9, <2>10 DEF v
  <1> QED BY <1>2, <1>3

\* An order takes the status of one that is paid when it is.
LEMMA PaidInFullNext ==
  ASSUME TypeInv, TypeInv', NoApprovedEdit, NoEditPending, SumInv, CoverInv, OnlyCharged',
         NEW c \in Calls, Serve(c) \/ Crash(c)
  PROVE  PaidInFull'
  <1> SUFFICES ASSUME NEW o \in Orders, orders'[o].status = "paid" PROVE paid'[o] >= orders'[o].total
    BY DEF PaidInFull
  <1>1. ~Edit(c) /\ ~RefundCommit(c)
    BY OnlyChargedBefore
  <1>2. paid[o] \in Int /\ paid'[o] \in Int /\ paid'[o] >= paid[o]
    BY <1>1, PaidGrows DEF CoverInv
  <1>3. /\ orders'[o].total = orders[o].total /\ orders[o].total \in Int /\ orders[o].version \in Int
        /\ payments \in [Keys -> PaymentRow] /\ paid \in [Orders -> Int]
    BY <1>1, TotalStays DEF TypeInv, RowsOK, RowsType, OrderRow
  <1>4. CASE orders[o].status = "paid"
    BY <1>2, <1>3, <1>4 DEF CoverInv, PaidInFull
  <1>5. CASE RegisterCommit(c) /\ Current(c) /\ req[c].order = o /\ Raised(o, snap[c].status, orders[o].closed)
    <2>1. orders' # orders /\ snap[c].status = "paid"
      BY <1>3, <1>5 DEF Raised
    <2>2. /\ payments[req[c].key].status = "absent" /\ Commits(c, "register")
          /\ PutPayment(req[c].key, ChargeRow(req[c], "manual", "confirmed"))
      BY <1>5, <2>1 DEF RegisterCommit
    <2>3. req[c].amount \in Nat
      BY <2>2, Committing, RequestFields
    <2>4. NetCharge(payments[req[c].key]) = 0
      BY <2>2 DEF NetCharge
    <2>5. /\ NetCharge(ChargeRow(req[c], "manual", "confirmed")) = req[c].amount
          /\ ChargeRow(req[c], "manual", "confirmed").order = o
      BY <1>5, <2>3 DEF NetCharge, ChargeRow, Max0
    <2>6. paid'[o] = paid[o] - 0 + req[c].amount
      BY <2>2, <2>4, <2>5 DEF PutPayment
    <2>7. paid[o] + req[c].amount >= orders[o].total
      BY <1>5, <2>1, <2>2 DEF CoverInv, ChargeCovers
    <2> QED BY <1>2, <1>3, <2>3, <2>6, <2>7
  <1>6. CASE /\ ResultCommit(c) /\ snap[c].result = "confirmed" /\ payments[req[c].key].order = o
             /\ payments[req[c].key].version = snap[c].pversion
             /\ Raised(o, snap[c].status, orders[o].closed)
    <2> DEFINE p == payments[req[c].key]
               x == snap[c].pversion + 1
               q == [p EXCEPT !.status = "confirmed", !.version = x]
               r == [p EXCEPT !.status = "confirmed"]
    <2>1. snap[c].status = "paid" /\ pc[c] = "record"
      BY <1>6 DEF Raised, ResultCommit
    <2>2. PutPayment(req[c].key, q)
      BY <1>6 DEF ResultCommit
    <2>3. p \in PaymentRow /\ x \in Int
      BY <1>6, AnsweredCharge DEF ResultCommit, SnapType
    <2>4. p.status # "confirmed" /\ WouldCover(p)
      BY <1>6, <2>1 DEF CoverInv, AnswerCovers
    <2>5. NetCharge(p) = 0
      BY <2>4 DEF NetCharge
    <2>6. q.order = o /\ NetCharge(q) = NetCharge(r)
      BY <1>6, <2>3 DEF NetCharge, PaymentRow
    <2>7. NetCharge(r) \in Int
      BY <2>3, PaymentRowFields, NetChargeInt DEF PaymentStatuses
    <2> HIDE DEF q
    <2>8. paid'[o] = paid[o] - 0 + NetCharge(r)
      BY <2>2, <2>5, <2>6 DEF PutPayment
    <2>9. paid[o] + NetCharge(r) >= orders[o].total
      BY <1>6, <2>4 DEF WouldCover
    <2> QED BY <1>2, <1>3, <2>7, <2>8, <2>9
  <1>7. CASE CloseCommit(c) /\ Current(c) /\ req[c].order = o
    BY <1>4, <1>7 DEF CoverInv, ClosesPaid, CloseCommit
  <1> QED BY <1>1, <1>4, <1>5, <1>6, <1>7, OrdersWritten DEF Raised

\* Every step keeps CoverInv, as long as the calls are of that kind.
LEMMA CoverInvNext ==
  ASSUME NoApprovedEdit
  PROVE  TypeInv /\ NoEditPending /\ EditInv /\ SumInv /\ (OnlyCharged => CoverInv) /\ [Next]_ledgerVars
         => (OnlyCharged => CoverInv)'
  <1> SUFFICES ASSUME TypeInv, TypeInv', NoEditPending, EditInv, SumInv, OnlyCharged => CoverInv,
                      [Next]_ledgerVars, OnlyCharged'
               PROVE  CoverInv'
    BY TypeInvNext
  <1>1. ASSUME NEW c \in Calls, Serve(c) \/ Crash(c) PROVE CoverInv'
    <2>1. CoverInv
      BY <1>1, OnlyChargedBefore
    <2> QED BY <1>1, <2>1, ChargeCoversNext, ClosesPaidNext, AnswerCoversNext, PaidInFullNext DEF CoverInv
  <1>2. CASE UNCHANGED ledgerVars
    BY <1>2 DEF ledgerVars, rows, ctl, CoverInv, OnlyCharged, PaidInFull, ChargeCovers, ClosesPaid,
                AnswerCovers, WouldCover, Commits, Current
  <1> QED BY <1>1, <1>2 DEF Next, AllServed

\* closeOrder, raced by charges, terminals' answers, write-offs and itself: while
\* no edit is run from an approval and as long as nothing was refunded or edited,
\* an order is closed as paid only while what was paid on it covers it.
THEOREM ClosedOrdersArePaid == ASSUME NoApprovedEdit PROVE Spec => ClosedWhenPaid
  <1> DEFINE A == OnlyCharged' =>
                    \A o \in Orders :
                      ~orders[o].closed /\ orders'[o].closed /\ orders'[o].status = "paid" =>
                        paid[o] >= orders[o].total
  <1>1. TypeInv /\ NoEditPending /\ EditInv /\ SumInv /\ (OnlyCharged => CoverInv) /\ [Next]_ledgerVars
        => [A]_ledgerVars
    <2> SUFFICES ASSUME TypeInv, NoEditPending, OnlyCharged => CoverInv, [Next]_ledgerVars,
                        ~UNCHANGED ledgerVars, OnlyCharged', NEW o \in Orders,
                        ~orders[o].closed, orders'[o].closed, orders'[o].status = "paid"
                 PROVE  paid[o] >= orders[o].total
      OBVIOUS
    <2>1. PICK c \in Calls : Serve(c) \/ Crash(c)
      BY DEF Next, AllServed
    <2>2. CoverInv /\ ~Edit(c)
      BY <2>1, OnlyChargedBefore
    <2>3. CloseCommit(c) /\ Current(c) /\ req[c].order = o
      BY <2>1, <2>2, OrdersWritten DEF Raised
    <2> QED BY <2>2, <2>3 DEF CoverInv, ClosesPaid, PaidInFull, CloseCommit
  <1>2. [][A]_ledgerVars <=> ClosedWhenPaid
    BY DEF ClosedWhenPaid
  <1>3. Init => (OnlyCharged => CoverInv)
    BY DEF Init, CoverInv, PaidInFull, ChargeCovers, ClosesPaid, AnswerCovers, Commits
  <1> HIDE DEF A
  <1> QED BY <1>1, <1>2, <1>3, TypeInvInit, TypeInvNext, EditInvInit, EditInvNext, NoEditPendingNext,
             SumInvInit, SumInvNext, CoverInvNext, PTL DEF Spec
=============================================================================
