-------------------------- MODULE CashDrawerProofs --------------------------
(***************************************************************************)
(* Proofs about CashDrawer.  No request holds the session's row from its   *)
(* read to its write but the closing.  What keeps the others off a closed  *)
(* row is that the closing waits for every order and every handover, and   *)
(* that a request in flight is about one of them.                          *)
(*                                                                         *)
(* The tally adds what was counted: while a closing holds its row nothing  *)
(* moves the amounts of the session, and the cash of its time is fixed but *)
(* for what is refunded.                                                   *)
(***************************************************************************)
EXTENDS CashDrawer, FiniteSums

OrderRow == [status : OrderStatuses, handover : {"none", "pending", "received"}, confirmedAt : 0 .. MaxSessions]

SessionRows(s) ==
    /\ s = [n \in Sessions |-> s[n]]
    /\ \A n \in Sessions : DOMAIN s[n] = {"status", "opening", "moved", "expected", "counted"}

Shape ==
    /\ now \in 0 .. MaxSessions
    /\ SessionRows(session)
    /\ order \in [Orders -> OrderRow]
    /\ call = [x \in Calls |-> call[x]]

\* The last session opened is the only one that can be open.
OneOpen == \A n \in Sessions : /\ IsOpen(n) => n = now
                               /\ n > now => session[n].status = "absent"

LastOpen == now \in Sessions /\ IsOpen(now)

\* Cash that waits for its handover was taken in the session that is open.
Waiting(o) == order[o].handover = "pending" =>
    order[o].status = "confirmed" /\ order[o].confirmedAt = now /\ LastOpen

Untaken(o) == order[o].status \in {"absent", "open"} => order[o].handover = "none"

\* The branch is ready to close.
Quiet == \A o \in Orders : order[o].status # "open" /\ order[o].handover # "pending"

\* A request in flight is about the open session and something the closing
\* waits for, or is the closing.
InFlight(x) ==
    \/ call[x] = Idle
    \/ /\ LastOpen /\ call[x].session = now
       /\ \/ /\ call[x].op = "register" /\ call[x].at = now
             /\ call[x].order \in Orders /\ order[call[x].order].status = "open"
          \/ /\ call[x].op = "receive"
             /\ call[x].order \in Orders /\ order[call[x].order].handover = "pending"
          \/ /\ call[x].op = "close" /\ call[x].order = None
             /\ Quiet

\* One request per order, and one closing.
Alone(x, y) == call[x] # Idle /\ call[y] # Idle /\ call[x].order = call[y].order => x = y

IInv ==
    /\ Shape
    /\ OneOpen
    /\ \A o \in Orders : Waiting(o) /\ Untaken(o)
    /\ \A x \in Calls : InFlight(x)
    /\ \A x, y \in Calls : Alone(x, y)
-----------------------------------------------------------------------------
FinishedKept == \A n \in Sessions : Finished(n) => session'[n] = session[n]

\* A step that opens and closes no session.
StatusesKept == now' = now /\ \A n \in Sessions : session'[n].status = session[n].status

\* What such a step leaves of the other requests in flight.
OthersKept(x) == \A y \in Calls : call[y] # Idle /\ y # x => InFlight(y)'

LEMMA InitInv == Init => IInv
  <1> SUFFICES ASSUME Init PROVE IInv
    OBVIOUS
  <1>1. Shape
    BY BoundsAssumption DEF Init, Shape, SessionRows, AbsentSession, AbsentOrder, OrderRow, OrderStatuses
  <1>2. OneOpen
    BY DEF Init, OneOpen, IsOpen, AbsentSession
  <1>3. \A o \in Orders : Waiting(o) /\ Untaken(o)
    BY DEF Init, Waiting, Untaken, AbsentOrder
  <1>4. \A x, y \in Calls : InFlight(x) /\ Alone(x, y)
    BY DEF Init, InFlight, Alone
  <1> QED
    BY <1>1, <1>2, <1>3, <1>4 DEF IInv

\* The open session a request reads is the last one.
LEMMA OpenIsLast == ASSUME IInv, OpenSession # NoSession PROVE OpenSession = now /\ LastOpen
  <1>1. PICK n \in Sessions : IsOpen(n)
    BY DEF OpenSession
  <1>2. OpenSession \in Sessions /\ IsOpen(OpenSession)
    BY <1>1 DEF OpenSession
  <1> QED
    BY <1>2 DEF IInv, OneOpen, LastOpen

LEMMA NoneOpen == ASSUME OpenSession = NoSession PROVE \A n \in Sessions : ~IsOpen(n)
  <1>1. NoSession \notin Sessions
    BY BoundsAssumption DEF NoSession, Sessions
  <1> QED
    BY <1>1 DEF OpenSession

\* A write of the open session's row that leaves its status.
LEMMA RowWritten ==
    ASSUME IInv, LastOpen, NEW row, DOMAIN row = DOMAIN session[now], row.status = "open",
           now' = now, session' = [session EXCEPT ![now] = row]
    PROVE  SessionRows(session') /\ StatusesKept /\ FinishedKept
  BY DEF IInv, Shape, SessionRows, LastOpen, IsOpen, StatusesKept, FinishedKept, Finished

LEMMA NoRowWritten ==
    ASSUME IInv, now' = now, session' = session
    PROVE  SessionRows(session') /\ StatusesKept /\ FinishedKept
  BY DEF IInv, Shape, StatusesKept, FinishedKept

LEMMA StatusesKeptOpen == ASSUME IInv, StatusesKept PROVE OneOpen' /\ (LastOpen => LastOpen')
  BY DEF IInv, OneOpen, StatusesKept, LastOpen, IsOpen

\* A request ends and the others go on.
LEMMA Answered ==
    ASSUME IInv, NEW x \in Calls, Answer(x), OthersKept(x)
    PROVE  /\ call' = [y \in Calls |-> call'[y]]
           /\ \A y \in Calls : InFlight(y)'
           /\ \A y, z \in Calls : Alone(y, z)'
  BY DEF IInv, Shape, Answer, OthersKept, InFlight, Alone

LEMMA NoCallMoves ==
    ASSUME IInv, call' = call, \A y \in Calls : call[y] # Idle => InFlight(y)'
    PROVE  /\ call' = [y \in Calls |-> call'[y]]
           /\ \A y \in Calls : InFlight(y)'
           /\ \A y, z \in Calls : Alone(y, z)'
  BY DEF IInv, Shape, InFlight, Alone

\* A request begins, of an order no other is about.
LEMMA Begun ==
    ASSUME IInv, NEW x \in Calls, call[x] = Idle, NEW c, call' = [call EXCEPT ![x] = c],
           \A y \in Calls : call[y] # Idle => call[y].order # c.order,
           UNCHANGED <<now, session, order>>, InFlight(x)'
    PROVE  IInv' /\ FinishedKept
  <1>1. Shape'
    BY DEF IInv, Shape, SessionRows
  <1>2. OneOpen' /\ \A o \in Orders : (Waiting(o) /\ Untaken(o))'
    BY DEF IInv, OneOpen, IsOpen, Waiting, Untaken, LastOpen
  <1>3. \A y \in Calls : InFlight(y)'
    BY DEF IInv, Shape, InFlight, LastOpen, IsOpen, Quiet
  <1>4. \A y, z \in Calls : Alone(y, z)'
    BY DEF IInv, Shape, Alone
  <1> QED
    BY <1>1, <1>2, <1>3, <1>4 DEF IInv, FinishedKept
-----------------------------------------------------------------------------
LEMMA OpenCashSessionSafe == ASSUME IInv, OpenCashSession PROVE IInv' /\ FinishedKept
  <1>1. \A n \in Sessions : ~IsOpen(n)
    BY NoneOpen DEF OpenCashSession
  <1>2. PICK opening \in Openings :
            session' = [session EXCEPT ![now + 1] =
                           [AbsentSession EXCEPT !.status = "open", !.opening = opening, !.expected = opening]]
    BY DEF OpenCashSession
  <1>3. now + 1 \in Sessions /\ now \in Nat /\ session[now + 1].status = "absent"
    BY BoundsAssumption DEF IInv, Shape, OneOpen, OpenCashSession, Sessions
  <1>4. Shape'
    <2>1. SessionRows(session')
      BY <1>2, <1>3 DEF IInv, Shape, SessionRows, AbsentSession
    <2>2. now' \in 0 .. MaxSessions /\ UNCHANGED <<order, call>>
      BY <1>3 DEF OpenCashSession, Sessions
    <2> QED
      BY <2>1, <2>2 DEF IInv, Shape
  <1>5. OneOpen'
    BY <1>1, <1>2, <1>3 DEF IInv, Shape, SessionRows, OneOpen, IsOpen, OpenCashSession, AbsentSession, Sessions
  <1>6. \A o \in Orders : (Waiting(o) /\ Untaken(o))'
    BY <1>1 DEF IInv, Waiting, Untaken, LastOpen, OpenCashSession
  <1>7. \A x \in Calls : call[x] = Idle
    BY <1>1 DEF IInv, InFlight, LastOpen
  <1>8. \A x, y \in Calls : (InFlight(x) /\ Alone(x, y))'
    BY <1>7 DEF OpenCashSession, InFlight, Alone
  <1>9. FinishedKept
    BY <1>2, <1>3 DEF FinishedKept, Finished, IInv, Shape, SessionRows
  <1> QED
    BY <1>4, <1>5, <1>6, <1>8, <1>9 DEF IInv

LEMMA MovementSafe ==
    ASSUME IInv, NEW type, RegisterCashMovement(type) PROVE IInv' /\ FinishedKept
  <1> DEFINE row == [session[now] EXCEPT !.moved = @ + Sign(type), !.expected = @ + Sign(type)]
  <1>1. OpenSession = now /\ LastOpen
    BY OpenIsLast DEF RegisterCashMovement
  <1>2. session' = [session EXCEPT ![now] = row]
    BY <1>1 DEF RegisterCashMovement, IInv, Shape, SessionRows, LastOpen
  <1>3. DOMAIN row = DOMAIN session[now] /\ row.status = "open"
    BY <1>1 DEF IInv, Shape, SessionRows, LastOpen, IsOpen
  <1>4. SessionRows(session') /\ StatusesKept /\ FinishedKept
    BY <1>1, <1>2, <1>3, RowWritten DEF RegisterCashMovement
  <1>5. OneOpen' /\ LastOpen'
    BY <1>1, <1>4, StatusesKeptOpen
  <1>6. Shape' /\ \A o \in Orders : (Waiting(o) /\ Untaken(o))'
    BY <1>4, <1>5 DEF IInv, Shape, Waiting, Untaken, RegisterCashMovement
  <1>7. \A x \in Calls : call[x] # Idle => InFlight(x)'
    BY <1>5 DEF IInv, InFlight, Quiet, RegisterCashMovement
  <1>8. \A x, y \in Calls : (InFlight(x) /\ Alone(x, y))'
    BY <1>7, NoCallMoves DEF RegisterCashMovement
  <1> QED
    BY <1>4, <1>5, <1>6, <1>8 DEF IInv

\* An order changes and no request about it is in flight.
LEMMA OrderMoves ==
    ASSUME IInv, NEW o \in Orders, NEW row \in OrderRow, order' = [order EXCEPT ![o] = row],
           UNCHANGED <<now, session, call>>,
           row.handover = "pending" => FALSE,
           row.status \in {"absent", "open"} => row.handover = "none",
           \A x \in Calls : call[x].order # o,
           row.status = "open" => \A x \in Calls : call[x].op # "close"
    PROVE  IInv' /\ FinishedKept
  <1>1. SessionRows(session') /\ StatusesKept /\ FinishedKept
    BY NoRowWritten
  <1>2. OneOpen' /\ (LastOpen => LastOpen')
    BY <1>1, StatusesKeptOpen
  <1>3. Shape' /\ \A p \in Orders : (Waiting(p) /\ Untaken(p))'
    BY <1>1, <1>2 DEF IInv, Shape, Waiting, Untaken
  <1>4. ASSUME NEW x \in Calls, call[x] # Idle PROVE InFlight(x)'
    BY <1>2, <1>4 DEF IInv, Shape, InFlight, Quiet
  <1>5. \A x, y \in Calls : (InFlight(x) /\ Alone(x, y))'
    BY <1>4, NoCallMoves
  <1> QED
    BY <1>1, <1>2, <1>3, <1>5 DEF IInv

LEMMA OpenOrderSafe == ASSUME IInv, NEW o \in Orders, OpenOrder(o) PROVE IInv' /\ FinishedKept
  <1> DEFINE row == [order[o] EXCEPT !.status = "open"]
  <1>1. order' = [order EXCEPT ![o] = row] /\ row \in OrderRow /\ row.status = "open" /\ row.handover = "none"
    BY DEF IInv, Shape, OrderRow, OrderStatuses, OpenOrder, Untaken
  <1>2. \A x \in Calls : call[x].order # o
    BY NoneAssumption DEF IInv, InFlight, Idle, OpenOrder, Waiting
  <1> QED
    BY <1>1, <1>2, OrderMoves DEF OpenOrder

LEMMA SettleOtherwiseSafe == ASSUME IInv, NEW o \in Orders, SettleOtherwise(o) PROVE IInv' /\ FinishedKept
  <1> DEFINE row == [order[o] EXCEPT !.status = "settled"]
  <1>1. order' = [order EXCEPT ![o] = row] /\ row \in OrderRow /\ row.status = "settled" /\ row.handover = "none"
    BY DEF IInv, Shape, OrderRow, OrderStatuses, SettleOtherwise, Untaken
  <1> QED
    BY <1>1, OrderMoves DEF SettleOtherwise, Busy

LEMMA RefundSafe ==
    ASSUME IInv, Strays = FALSE, NEW o \in Orders, NEW status \in {"refunded", "partially_refunded"},
           Refund(o, status)
    PROVE  IInv' /\ FinishedKept
  <1> DEFINE row == [order[o] EXCEPT !.status = status]
  <1>1. order' = [order EXCEPT ![o] = row] /\ row \in OrderRow /\ row.status = status /\ row.handover = "received"
    BY DEF IInv, Shape, OrderRow, OrderStatuses, Refund
  <1> QED
    BY <1>1, OrderMoves DEF Refund, Busy
-----------------------------------------------------------------------------
LEMMA RegisterReadSafe ==
    ASSUME IInv, Strays = FALSE, NEW x \in Calls, NEW o \in Orders, NEW via, RegisterRead(x, o, via)
    PROVE  IInv' /\ FinishedKept
  <1> DEFINE c == [Idle EXCEPT !.op = "register", !.order = o, !.via = via, !.at = now,
                               !.session = OpenSession, !.amount = Stale(OpenSession, Amount[o])]
  <1>1. OpenSession = now /\ LastOpen
    BY OpenIsLast DEF RegisterRead
  <1>2. call' = [call EXCEPT ![x] = c] /\ call[x] = Idle /\ UNCHANGED <<now, session, order>>
    BY DEF RegisterRead
  <1>3. c.op = "register" /\ c.order = o /\ c.at = now /\ c.session = now
    BY <1>1 DEF Idle
  <1>4. call'[x] = c
    BY <1>2 DEF IInv, Shape
  <1>5. InFlight(x)'
    BY <1>1, <1>2, <1>3, <1>4 DEF RegisterRead, InFlight, LastOpen, IsOpen
  <1>6. \A y \in Calls : call[y].order # c.order
    BY <1>3 DEF RegisterRead, Busy
  <1> HIDE DEF c
  <1> QED
    BY <1>2, <1>5, <1>6, Begun

LEMMA ReceiveReadSafe ==
    ASSUME IInv, NEW x \in Calls, NEW o \in Orders, ReceiveRead(x, o)
    PROVE  IInv' /\ FinishedKept
  <1> DEFINE c == [Idle EXCEPT !.op = "receive", !.order = o, !.session = OpenSession,
                               !.amount = Stale(OpenSession, Amount[o])]
  <1>1. LastOpen
    BY DEF IInv, Waiting, ReceiveRead
  <1>2. OpenSession = now
    BY <1>1, OpenIsLast, NoneOpen DEF LastOpen
  <1>3. call' = [call EXCEPT ![x] = c] /\ call[x] = Idle /\ UNCHANGED <<now, session, order>>
    BY DEF ReceiveRead
  <1>4. c.op = "receive" /\ c.order = o /\ c.session = now
    BY <1>2 DEF Idle
  <1>5. call'[x] = c
    BY <1>3 DEF IInv, Shape
  <1>6. InFlight(x)'
    BY <1>1, <1>3, <1>4, <1>5 DEF ReceiveRead, InFlight, LastOpen, IsOpen
  <1>7. \A y \in Calls : call[y].order # c.order
    BY <1>4 DEF ReceiveRead, Busy
  <1> HIDE DEF c
  <1> QED
    BY <1>3, <1>6, <1>7, Begun

\* The closing has looked at the orders and at the cash of the session.
LEMMA CloseReadSafe ==
    ASSUME IInv, NEW x \in Calls, NEW n \in Sessions, CloseRead(x, n)
    PROVE  IInv' /\ FinishedKept
  <1>1. n = now /\ LastOpen
    BY DEF IInv, OneOpen, LastOpen, CloseRead
  <1>2. PICK counted \in {Derived(n), Derived(n) + 1} :
            call' = [call EXCEPT ![x] = [Idle EXCEPT !.op = "close", !.session = n,
                                            !.amount = Derived(n), !.counted = counted]]
    BY DEF CloseRead
  <1> DEFINE c == [Idle EXCEPT !.op = "close", !.session = n, !.amount = Derived(n), !.counted = counted]
  <1>3. c.op = "close" /\ c.order = None /\ c.session = now
    BY <1>1 DEF Idle
  <1>4. call' = [call EXCEPT ![x] = c] /\ call[x] = Idle /\ UNCHANGED <<now, session, order>>
    BY <1>2 DEF CloseRead
  <1>5. Quiet
    <2>1. ASSUME NEW o \in Orders, order[o].handover = "pending" PROVE FALSE
      <3>1. order[o].status = "confirmed" /\ order[o].confirmedAt = now /\ now \in Int
        BY <2>1, BoundsAssumption DEF IInv, Waiting, Shape
      <3>2. o \in Cash(n)
        BY <1>1, <3>1 DEF Cash, InWindow
      <3> QED
        BY <2>1, <3>2 DEF CloseRead, NoPending
    <2> QED
      BY <2>1 DEF Quiet, CloseRead, NoOpenOrders
  <1>6. call'[x] = c
    BY <1>4 DEF IInv, Shape
  <1>7. InFlight(x)'
    BY <1>1, <1>3, <1>4, <1>5, <1>6 DEF InFlight, LastOpen, IsOpen, Quiet
  <1>8. \A y \in Calls : call[y] # Idle => call[y].order # c.order
    BY <1>1, <1>3, NoneAssumption DEF CloseRead, Locked, IInv, InFlight
  <1> HIDE DEF c
  <1> QED
    BY <1>4, <1>7, <1>8, Begun
-----------------------------------------------------------------------------
\* A request about an order ends: the others are about other orders, and none
\* of them is the closing.
LEMMA CommitSafe ==
    ASSUME IInv, NEW x \in Calls, call[x] # Idle, call[x].order \in Orders,
           NEW row \in OrderRow, order' = [order EXCEPT ![call[x].order] = row],
           row.handover = "pending" => row.status = "confirmed" /\ row.confirmedAt = now,
           row.status \notin {"absent", "open"},
           SessionRows(session'), StatusesKept, FinishedKept,
           Answer(x)
    PROVE  IInv' /\ FinishedKept
  <1> DEFINE o == call[x].order
  <1>1. LastOpen
    BY DEF IInv, InFlight
  <1>2. OneOpen' /\ LastOpen'
    BY <1>1, StatusesKeptOpen
  <1>3. call' = [y \in Calls |-> call'[y]]
    BY DEF IInv, Shape, Answer
  <1>4. Shape'
    BY <1>3 DEF IInv, Shape, StatusesKept
  <1>5. \A p \in Orders : (Waiting(p) /\ Untaken(p))'
    BY <1>2 DEF IInv, Shape, Waiting, Untaken, StatusesKept
  <1>6. ASSUME NEW y \in Calls, call[y] # Idle, y # x PROVE InFlight(y)'
    <2>1. call[y].order # o /\ call'[y] = call[y]
      BY <1>6 DEF IInv, Alone, Shape, Answer
    <2>2. call[y].op = "close" => FALSE
      <3>1. order[o].status = "open" \/ order[o].handover = "pending"
        BY NoneAssumption DEF IInv, InFlight
      <3>2. call[y].op = "close" => Quiet
        BY <1>6 DEF IInv, InFlight
      <3> QED
        BY <3>1, <3>2 DEF Quiet
    <2> QED
      BY <1>2, <1>6, <2>1, <2>2 DEF IInv, Shape, InFlight, StatusesKept
  <1>7. OthersKept(x)
    BY <1>6 DEF OthersKept
  <1>8. \A y, z \in Calls : (InFlight(y) /\ Alone(y, z))'
    BY <1>7, Answered
  <1> QED
    BY <1>2, <1>4, <1>5, <1>8 DEF IInv

LEMMA RegisterCommitSafe ==
    ASSUME IInv, NEW x \in Calls, RegisterCommit(x) PROVE IInv' /\ FinishedKept /\ StatusesKept
  <1> DEFINE c == call[x]
             row == [status |-> "confirmed", confirmedAt |-> c.at,
                     handover |-> IF c.via = "cashier" THEN "received" ELSE "pending"]
  <1>1. c # Idle /\ c.order \in Orders /\ c.session = now /\ c.at = now /\ LastOpen
    BY DEF IInv, InFlight, RegisterCommit, Idle
  <1>2. order' = [order EXCEPT ![c.order] = row] /\ Answer(x) /\ now' = now
    BY DEF RegisterCommit
  <1>3. /\ row \in OrderRow /\ row.status \notin {"absent", "open"}
        /\ row.handover = "pending" => row.status = "confirmed" /\ row.confirmedAt = now
    BY <1>1 DEF IInv, Shape, OrderRow, OrderStatuses
  <1>4. SessionRows(session') /\ StatusesKept /\ FinishedKept
    <2>1. CASE session' = session
      BY <1>2, <2>1, NoRowWritten
    <2>2. CASE session' = [session EXCEPT ![c.session].expected = c.amount]
      <3> DEFINE written == [session[now] EXCEPT !.expected = c.amount]
      <3>1. session' = [session EXCEPT ![now] = written]
        BY <1>1, <2>2 DEF IInv, Shape, SessionRows, LastOpen
      <3>2. DOMAIN written = DOMAIN session[now] /\ written.status = "open"
        BY <1>1 DEF IInv, Shape, SessionRows, LastOpen, IsOpen
      <3> HIDE DEF written
      <3> QED
        BY <1>1, <1>2, <3>1, <3>2, RowWritten
    <2> QED
      BY <2>1, <2>2 DEF RegisterCommit
  <1> HIDE DEF row
  <1> QED
    BY <1>1, <1>2, <1>3, <1>4, CommitSafe

LEMMA ReceiveCommitSafe ==
    ASSUME IInv, NEW x \in Calls, ReceiveCommit(x) PROVE IInv' /\ FinishedKept /\ StatusesKept
  <1> DEFINE c == call[x]
             row == [order[c.order] EXCEPT !.handover = "received"]
  <1>1. c # Idle /\ c.order \in Orders /\ c.session = now /\ LastOpen /\ order[c.order].handover = "pending"
    BY DEF IInv, InFlight, ReceiveCommit, Idle
  <1>2. order' = [order EXCEPT ![c.order] = row] /\ Answer(x) /\ now' = now
    BY DEF ReceiveCommit
  <1>3. row \in OrderRow /\ row.status = "confirmed" /\ row.handover = "received"
    BY <1>1 DEF IInv, Shape, OrderRow, Waiting
  <1>4. SessionRows(session') /\ StatusesKept /\ FinishedKept
    <2>1. CASE session' = session
      BY <1>2, <2>1, NoRowWritten
    <2>2. CASE session' = [session EXCEPT ![c.session].expected = c.amount]
      <3> DEFINE written == [session[now] EXCEPT !.expected = c.amount]
      <3>1. session' = [session EXCEPT ![now] = written]
        BY <1>1, <2>2 DEF IInv, Shape, SessionRows, LastOpen
      <3>2. DOMAIN written = DOMAIN session[now] /\ written.status = "open"
        BY <1>1 DEF IInv, Shape, SessionRows, LastOpen, IsOpen
      <3> HIDE DEF written
      <3> QED
        BY <1>1, <1>2, <3>1, <3>2, RowWritten
    <2> QED
      BY <2>1, <2>2 DEF ReceiveCommit
  <1> HIDE DEF row
  <1> QED
    BY <1>1, <1>2, <1>3, <1>4, CommitSafe

\* Nothing but the closing is in flight when it commits.
LEMMA CloseCommitSafe ==
    ASSUME IInv, NEW x \in Calls, CloseCommit(x) PROVE IInv' /\ FinishedKept
  <1> DEFINE c == call[x]
             row == [session[now] EXCEPT !.status = SettledStatus(c.counted, c.amount),
                                         !.expected = c.amount, !.counted = c.counted]
  <1>1. c # Idle /\ c.op = "close" /\ c.order = None /\ c.session = now /\ LastOpen /\ Quiet
    BY DEF IInv, InFlight, CloseCommit, Idle
  <1>2. session' = [session EXCEPT ![now] = row] /\ Answer(x) /\ UNCHANGED <<now, order>>
    BY <1>1 DEF CloseCommit
  <1>3. DOMAIN row = DOMAIN session[now] /\ row.status \in {"closed", "disputed"}
    BY <1>1 DEF IInv, Shape, SessionRows, LastOpen, SettledStatus
  <1> HIDE DEF row
  <1>4. call' = [y \in Calls |-> call'[y]]
    BY <1>2 DEF IInv, Shape, Answer
  <1>5. Shape'
    BY <1>1, <1>2, <1>3, <1>4 DEF IInv, Shape, SessionRows
  <1>6. OneOpen' /\ FinishedKept
    BY <1>1, <1>2, <1>3 DEF IInv, Shape, SessionRows, OneOpen, IsOpen, LastOpen, FinishedKept, Finished
  <1>7. \A o \in Orders : (Waiting(o) /\ Untaken(o))'
    BY <1>1, <1>2 DEF IInv, Waiting, Untaken, Quiet
  <1>8. ASSUME NEW y \in Calls, y # x PROVE call[y] = Idle
    <2>1. call[y] = Idle \/ call[y].order \in Orders \/ call[y].order = None
      BY DEF IInv, InFlight
    <2>2. call[y].order \in Orders => call[y] = Idle
      BY <1>1, NoneAssumption DEF IInv, InFlight, Quiet
    <2> QED
      BY <1>1, <1>8, <2>1, <2>2 DEF IInv, Alone
  <1>9. \A y, z \in Calls : (InFlight(y) /\ Alone(y, z))'
    BY <1>2, <1>8, Answered DEF OthersKept
  <1> QED
    BY <1>5, <1>6, <1>7, <1>9 DEF IInv

LEMMA RollBackSafe ==
    ASSUME IInv, NEW x \in Calls, RollBack(x) PROVE IInv' /\ FinishedKept
  <1>1. Answer(x) /\ UNCHANGED <<now, session, order>>
    BY DEF RollBack
  <1>2. call' = [y \in Calls |-> call'[y]]
    BY <1>1 DEF IInv, Shape, Answer
  <1>3. Shape' /\ FinishedKept
    BY <1>1, <1>2 DEF IInv, Shape, FinishedKept
  <1>4. OneOpen' /\ \A o \in Orders : (Waiting(o) /\ Untaken(o))'
    BY <1>1 DEF IInv, OneOpen, IsOpen, Waiting, Untaken, LastOpen
  <1>5. ASSUME NEW y \in Calls, call[y] # Idle, y # x PROVE InFlight(y)'
    BY <1>1, <1>5 DEF IInv, Shape, Answer, InFlight, LastOpen, IsOpen, Quiet
  <1>6. \A y, z \in Calls : (InFlight(y) /\ Alone(y, z))'
    BY <1>1, <1>5, Answered DEF OthersKept
  <1> QED
    BY <1>3, <1>4, <1>6 DEF IInv
-----------------------------------------------------------------------------
LEMMA Step == ASSUME Strays = FALSE, IInv, [Next]_vars PROVE IInv' /\ FinishedKept
  <1>1. CASE UNCHANGED vars
    <2>1. UNCHANGED <<now, session, order, call>>
      BY <1>1 DEF vars
    <2> QED
      BY <2>1 DEF IInv, Shape, OneOpen, IsOpen, Waiting, Untaken, LastOpen, InFlight, Quiet, Alone, FinishedKept
  <1>2. CASE OpenCashSession
    BY <1>2, OpenCashSessionSafe
  <1>3. CASE \E type \in {"supply", "withdrawal"} : RegisterCashMovement(type)
    BY <1>3, MovementSafe
  <1>4. CASE \E o \in Orders : \/ OpenOrder(o)
                               \/ SettleOtherwise(o)
                               \/ \E status \in {"refunded", "partially_refunded"} : Refund(o, status)
    BY <1>4, OpenOrderSafe, SettleOtherwiseSafe, RefundSafe
  <1>5. ASSUME NEW x \in Calls, NEW o \in Orders,
               (\E via \in {"cashier", "waiter"} : RegisterRead(x, o, via)) \/ ReceiveRead(x, o)
        PROVE  IInv' /\ FinishedKept
    BY <1>5, RegisterReadSafe, ReceiveReadSafe
  <1>6. ASSUME NEW x \in Calls, NEW n \in Sessions, CloseRead(x, n) PROVE IInv' /\ FinishedKept
    BY <1>6, CloseReadSafe
  <1>7. ASSUME NEW x \in Calls, RegisterCommit(x) \/ ReceiveCommit(x) \/ CloseCommit(x) \/ RollBack(x)
        PROVE  IInv' /\ FinishedKept
    BY <1>7, RegisterCommitSafe, ReceiveCommitSafe, CloseCommitSafe, RollBackSafe
  <1> QED
    BY <1>1, <1>2, <1>3, <1>4, <1>5, <1>6, <1>7 DEF Next

\* While no cash is taken without an open session, nor refunded before it is
\* handed over, no write of a payment or a handover that was in flight when
\* closeCashSession committed reaches the row it closed.
THEOREM ClosedSessionsStay == ASSUME Strays = FALSE PROVE Spec => ClosedIsFinal
  <1>1. Init => IInv
    BY InitInv
  <1>2. IInv /\ [Next]_vars => IInv'
    BY Step
  <1>3. IInv /\ [Next]_vars => [FinishedKept]_vars
    BY Step
  <1>4. FinishedKept <=> \A n \in Sessions : Finished(n) => session'[n] = session[n]
    BY DEF FinishedKept
  <1> QED
    BY <1>1, <1>2, <1>3, <1>4, PTL DEF Spec, ClosedIsFinal
-----------------------------------------------------------------------------
(* The types.                                                              *)

SessionRow == [status : {"absent", "open", "closed", "disputed"}, opening : Openings \cup {0},
               moved : -MaxMoved .. MaxMoved, expected : Int, counted : Int]

CallRow == [op : {"idle", "register", "receive", "close"}, order : Orders \cup {None},
            via : {"cashier", "waiter"}, at : 0 .. MaxSessions,
            session : Sessions \cup {NoSession}, amount : Int, counted : Int]

\* The cash of some orders is a sum, and so a natural number.
LEMMA CashOfIs ==
  ASSUME NEW A \in SUBSET Orders
  PROVE  CashOf(A) = Total(Amount, A) /\ CashOf(A) \in Nat
  <1> DEFINE P(h) == h = [s \in SUBSET A |-> IF s = {} THEN 0
                             ELSE Amount[Picked(s)] + h[s \ {Picked(s)}]]
  <1>1. IsFiniteSet(A)
    BY OrdersAssumption, FS_Subset
  <1>2. \A h : P(h) <=> Sums(h, Amount, A)
    BY DEF Sums
  <1>3. CashOf(A) = (CHOOSE h : P(h))[A]
    BY DEF CashOf, MapThenSumSet, MapThenFoldSet, Picked
  <1> HIDE DEF P
  <1>4. \E h : P(h)
    BY <1>1, <1>2, SumsExist
  <1>5. P(CHOOSE h : P(h))
    BY <1>4
  <1>6. CashOf(A) = Total(Amount, A)
    BY <1>1, <1>2, <1>3, <1>5, TotalIs
  <1>7. \A o \in A : Amount[o] \in Nat
    BY AmountAssumption
  <1> QED BY <1>1, <1>6, <1>7, TotalNat

LEMMA CashOfSubset ==
  ASSUME NEW A \in SUBSET Orders, NEW B \in SUBSET A
  PROVE  CashOf(B) <= CashOf(A)
  <1>1. IsFiniteSet(A) /\ \A o \in A : Amount[o] \in Nat
    BY OrdersAssumption, AmountAssumption, FS_Subset
  <1>2. B \in SUBSET Orders
    OBVIOUS
  <1> QED BY <1>1, <1>2, CashOfIs, TotalOfSubset

LEMMA OpenSessionType == OpenSession \in Sessions \cup {NoSession}
  BY DEF OpenSession

LEMMA IdleType == Idle \in CallRow
  BY BoundsAssumption DEF Idle, CallRow, NoSession

LEMMA TypesKept == TypeOK /\ [Next]_vars => TypeOK'
  <1> SUFFICES ASSUME TypeOK, [Next]_vars PROVE TypeOK'
    OBVIOUS
  <1>1. /\ now \in 0 .. MaxSessions /\ session \in [Sessions -> SessionRow]
        /\ order \in [Orders -> OrderRow] /\ call \in [Calls -> CallRow]
    BY DEF TypeOK, SessionRow, OrderRow, CallRow
  <1>2. ASSUME now' \in 0 .. MaxSessions, session' \in [Sessions -> SessionRow],
               order' \in [Orders -> OrderRow], call' \in [Calls -> CallRow]
        PROVE  TypeOK'
    BY <1>2 DEF TypeOK, SessionRow, OrderRow, CallRow
  <1>3. ASSUME NEW n \in Sessions, NEW a \in Int PROVE [session[n] EXCEPT !.expected = a] \in SessionRow
    BY <1>1 DEF SessionRow
  <1>4. ASSUME NEW x \in Calls, NEW c \in CallRow, call' = [call EXCEPT ![x] = c]
        PROVE  call' \in [Calls -> CallRow]
    BY <1>1, <1>4
  <1>5. \A x : Answer(x) => call' \in [Calls -> CallRow]
    BY <1>1, IdleType DEF Answer
  <1>6. ASSUME NEW o \in Orders PROVE Stale(OpenSession, Amount[o]) \in Int
    BY <1>1, OpenSessionType, AmountAssumption DEF Stale, SessionRow
  <1>7. CASE UNCHANGED vars
    BY <1>1, <1>2, <1>7 DEF vars
  <1>8. CASE OpenCashSession
    <2>1. PICK opening \in Openings :
            session' = [session EXCEPT ![now + 1] =
                           [AbsentSession EXCEPT !.status = "open", !.opening = opening, !.expected = opening]]
      BY <1>8 DEF OpenCashSession
    <2>2. [AbsentSession EXCEPT !.status = "open", !.opening = opening, !.expected = opening] \in SessionRow
      <3>1. opening \in Int /\ 0 \in -MaxMoved .. MaxMoved
        BY OpeningsAssumption, BoundsAssumption
      <3>2. AbsentSession \in SessionRow
        BY <3>1 DEF AbsentSession, SessionRow
      <3> QED BY <3>1, <3>2 DEF SessionRow
    <2>3. now' \in 0 .. MaxSessions
      BY <1>1, <1>8, BoundsAssumption DEF OpenCashSession
    <2> QED BY <1>1, <1>2, <1>8, <2>1, <2>2, <2>3 DEF OpenCashSession
  <1>9. CASE \E type \in {"supply", "withdrawal"} : RegisterCashMovement(type)
    <2>1. PICK type \in {"supply", "withdrawal"} : RegisterCashMovement(type)
      BY <1>9
    <2> DEFINE n == OpenSession
               s == Sign(type)
    <2>2. n \in Sessions /\ s \in Int
      BY <2>1, OpenSessionType DEF RegisterCashMovement, Sign
    <2>3. session' = [session EXCEPT ![n].moved = @ + s, ![n].expected = @ + s]
      BY <2>1 DEF RegisterCashMovement
    <2>4. session[n].moved + s \in -MaxMoved .. MaxMoved
      BY <2>1 DEF RegisterCashMovement
    <2> HIDE DEF n, s
    <2> DEFINE row == [session[n] EXCEPT !.moved = session[n].moved + s,
                                         !.expected = session[n].expected + s]
    <2>5. session' \in [Sessions -> SessionRow]
      <3>1. session[n] \in SessionRow /\ session[n].expected + s \in Int
        BY <1>1, <2>2 DEF SessionRow
      <3>2. row \in SessionRow
        BY <2>4, <3>1 DEF SessionRow
      <3>3. session' = [session EXCEPT ![n] = row]
        BY <1>1, <2>2, <2>3 DEF SessionRow
      <3> HIDE DEF row
      <3> QED BY <1>1, <3>2, <3>3
    <2> QED BY <1>1, <1>2, <2>1, <2>5 DEF RegisterCashMovement
  <1>10. ASSUME NEW o \in Orders,
                OpenOrder(o) \/ SettleOtherwise(o)
                    \/ \E status \in {"refunded", "partially_refunded"} : Refund(o, status)
         PROVE  TypeOK'
    BY <1>1, <1>2, <1>10 DEF OpenOrder, SettleOtherwise, Refund, OrderRow, OrderStatuses
  <1>11. ASSUME NEW x \in Calls, NEW o \in Orders, NEW via \in {"cashier", "waiter"},
                RegisterRead(x, o, via)
         PROVE  TypeOK'
    <2> DEFINE c == [Idle EXCEPT !.op = "register", !.order = o, !.via = via, !.at = now,
                         !.session = OpenSession, !.amount = Stale(OpenSession, Amount[o])]
    <2>1. c \in CallRow
      BY <1>1, <1>6, IdleType, OpenSessionType DEF CallRow
    <2> QED BY <1>1, <1>2, <1>4, <1>11, <2>1 DEF RegisterRead
  <1>12. ASSUME NEW x \in Calls, NEW o \in Orders, ReceiveRead(x, o)
         PROVE  TypeOK'
    <2> DEFINE c == [Idle EXCEPT !.op = "receive", !.order = o, !.session = OpenSession,
                         !.amount = Stale(OpenSession, Amount[o])]
    <2>1. c \in CallRow
      BY <1>6, IdleType, OpenSessionType DEF CallRow
    <2> QED BY <1>1, <1>2, <1>4, <1>12, <2>1 DEF ReceiveRead
  <1>13. ASSUME NEW x \in Calls, NEW n \in Sessions, CloseRead(x, n)
         PROVE  TypeOK'
    <2>1. Derived(n) \in Int
      <3>1. session[n].opening \in Int /\ session[n].moved \in Int
        <4>1. session[n] \in SessionRow
          BY <1>1
        <4>2. session[n].opening \in Openings \cup {0}
          BY <4>1 DEF SessionRow
        <4>3. session[n].moved \in -MaxMoved .. MaxMoved
          BY <4>1 DEF SessionRow
        <4>4. session[n].opening \in Int
          <5>1. \A a \in Openings \cup {0} : a \in Int
            BY OpeningsAssumption
          <5> QED BY <4>2, <5>1
        <4>5. session[n].moved \in Int
          BY <4>3, BoundsAssumption
        <4> QED BY <4>4, <4>5
      <3>2. CashOf({o \in Cash(n) : order[o].handover = "received"}) \in Nat
        BY CashOfIs DEF Cash
      <3> QED BY <3>1, <3>2 DEF Derived
    <2>2. PICK counted \in {Derived(n), Derived(n) + 1} :
            call' = [call EXCEPT ![x] = [Idle EXCEPT !.op = "close", !.session = n,
                                            !.amount = Derived(n), !.counted = counted]]
      BY <1>13 DEF CloseRead
    <2>3. counted \in Int
      BY <2>1, <2>2
    <2>4. [Idle EXCEPT !.op = "close", !.session = n, !.amount = Derived(n), !.counted = counted] \in CallRow
      BY <2>1, <2>3, IdleType DEF CallRow
    <2> QED BY <1>1, <1>2, <1>4, <1>13, <2>2, <2>4 DEF CloseRead
  <1>14. ASSUME NEW x \in Calls, RegisterCommit(x)
         PROVE  TypeOK'
    <2>1. call[x] \in CallRow
      BY <1>1
    <2>2. order' \in [Orders -> OrderRow]
      BY <1>1, <1>14, <2>1 DEF RegisterCommit, OrderRow, OrderStatuses, CallRow
    <2>3. session' \in [Sessions -> SessionRow]
      BY <1>1, <1>14, <2>1 DEF RegisterCommit, CallRow, SessionRow
    <2> QED BY <1>1, <1>2, <1>5, <1>14, <2>2, <2>3 DEF RegisterCommit
  <1>15. ASSUME NEW x \in Calls, ReceiveCommit(x)
         PROVE  TypeOK'
    <2>1. call[x] \in CallRow
      BY <1>1
    <2>2. order' \in [Orders -> OrderRow]
      BY <1>1, <1>15 DEF ReceiveCommit, OrderRow
    <2>3. session' \in [Sessions -> SessionRow]
      BY <1>1, <1>15, <2>1 DEF ReceiveCommit, CallRow, SessionRow
    <2> QED BY <1>1, <1>2, <1>5, <1>15, <2>2, <2>3 DEF ReceiveCommit
  <1>16. ASSUME NEW x \in Calls, CloseCommit(x)
         PROVE  TypeOK'
    <2>1. call[x] \in CallRow
      BY <1>1
    <2> DEFINE c == call[x]
               n == c.session
               st == SettledStatus(c.counted, c.amount)
               row == [session[n] EXCEPT !.status = st, !.expected = c.amount, !.counted = c.counted]
    <2>2. session' \in [Sessions -> SessionRow]
      <3>1. session' = [session EXCEPT ![n] = row]
        BY <1>16 DEF CloseCommit
      <3>2. st \in {"closed", "disputed"} /\ c.amount \in Int /\ c.counted \in Int
        BY <2>1 DEF SettledStatus, CallRow
      <3> HIDE DEF c, n, st
      <3>3. ASSUME n \in Sessions PROVE row \in SessionRow
        <4>1. session[n] \in SessionRow
          BY <1>1, <3>3
        <4> QED BY <3>2, <4>1 DEF SessionRow
      <3> HIDE DEF row
      <3> QED BY <1>1, <3>1, <3>3
    <2> QED BY <1>1, <1>2, <1>5, <1>16, <2>2 DEF CloseCommit
  <1>17. ASSUME NEW x \in Calls, RollBack(x)
         PROVE  TypeOK'
    BY <1>1, <1>2, <1>5, <1>17 DEF RollBack
  <1> QED BY <1>7, <1>8, <1>9, <1>10, <1>11, <1>12, <1>13, <1>14, <1>15, <1>16, <1>17 DEF Next

\* Rows and requests keep their shape, whatever payments, handovers,
\* movements and closings interleave.
THEOREM CashTypes == Spec => []TypeOK
  <1>1. Init => TypeOK
    BY IdleType, BoundsAssumption DEF Init, TypeOK, AbsentSession, AbsentOrder, OrderStatuses, CallRow
  <1> QED BY <1>1, TypesKept, PTL DEF Spec
-----------------------------------------------------------------------------
(* The tally.  What a closed session expects is the cash of its own time,   *)
(* because that is what the closing has added up, and because from then on  *)
(* the cash of that time only loses what is refunded.                       *)

\* The received cash of session n that is not refunded.
Standing(n) == {o \in Received(n) : order[o].status = "confirmed"}

Tally(cash, received, standing) == cash <= CashOf(received) /\ cash >= CashOf(standing)

\* No cash is dated after the last session opened.
Dated == \A o \in Orders : order[o].confirmedAt <= now

FinishedTally == \A n \in Sessions : Finished(n) =>
    /\ Tally(session[n].expected - session[n].opening - session[n].moved, Received(n), Standing(n))
    /\ session[n].status = "closed" <=> session[n].counted = session[n].expected

\* What a closing is about to write.
PendingTally == \A x \in Calls : call[x].op = "close" => \A n \in Sessions : call[x].session = n =>
    Tally(call[x].amount - session[n].opening - session[n].moved, Received(n), Standing(n))

TallyInv == Dated /\ FinishedTally /\ PendingTally

\* The sessions whose cash has been added up.
Counted(n) == Finished(n) \/ \E x \in Calls : call[x].op = "close" /\ call[x].session = n

\* The cash of n stays, but for what is refunded.
BooksKept(n) == Received(n)' = Received(n) /\ Standing(n)' \subseteq Standing(n)

LEMMA TallyShrinks ==
  ASSUME NEW A \in SUBSET Orders, NEW B \in SUBSET A, NEW C \in SUBSET B, NEW cash \in Int,
         Tally(cash, A, B)
  PROVE  Tally(cash, A, C)
  <1>1. B \in SUBSET Orders /\ C \in SUBSET Orders
    OBVIOUS
  <1>2. CashOf(B) \in Nat /\ CashOf(C) \in Nat /\ CashOf(C) <= CashOf(B)
    BY <1>1, CashOfIs, CashOfSubset
  <1> QED BY <1>2 DEF Tally

\* No step but these touches the books of a session:
LEMMA BooksUntouched ==
  ASSUME NEW n \in Sessions,
         \A o \in Orders : /\ order'[o].handover = order[o].handover
                           /\ order'[o].confirmedAt = order[o].confirmedAt
                           /\ order'[o].status = "confirmed" => order[o].status = "confirmed",
         \A m \in Sessions : session'[m].status = "absent" <=> session[m].status = "absent"
  PROVE  BooksKept(n)
  <1>1. Later(n)' = Later(n)
    BY DEF Later
  <1>2. Received(n)' = Received(n)
    BY <1>1 DEF Received
  <1> QED BY <1>2 DEF BooksKept, Standing, Received

\* a charge or a handover belongs to the session that is open,
LEMMA BooksOfOthers ==
  ASSUME IInv, LastOpen, StatusesKept, NEW p \in Orders, order[p].handover # "received",
         NEW row \in OrderRow, order' = [order EXCEPT ![p] = row], row.confirmedAt = now,
         NEW n \in Sessions, Finished(n)
  PROVE  BooksKept(n)
  <1>1. now \in Int /\ n < now
    BY BoundsAssumption DEF IInv, Shape, OneOpen, LastOpen, IsOpen, Finished, Sessions
  <1>2. Later(n)' = Later(n)
    BY DEF Later, StatusesKept
  <1>3. now \in Later(n)
    BY <1>1 DEF LastOpen, IsOpen, Later
  <1>4. p \notin Received(n) /\ p \notin Received(n)'
    <2>1. order'[p].confirmedAt = now
      BY DEF IInv, Shape
    <2>2. ~(now < now)
      BY <1>1
    <2> QED BY <1>2, <1>3, <2>1, <2>2 DEF Received
  <1>5. \A o \in Orders \ {p} : order'[o] = order[o]
    BY DEF IInv, Shape
  <1>6. Received(n)' = Received(n)
    BY <1>2, <1>4, <1>5 DEF Received
  <1> QED BY <1>4, <1>5, <1>6 DEF BooksKept, Standing

\* and a new session is for cash that is not there yet.
LEMMA BooksBefore ==
  ASSUME TypeOK, IInv, Dated, OpenCashSession, NEW n \in Sessions, Finished(n)
  PROVE  BooksKept(n)
  <1>1. now \in Int /\ n \in Int /\ n <= now /\ now + 1 \in Sessions /\ session[now + 1].status = "absent"
    BY BoundsAssumption DEF IInv, Shape, OneOpen, Finished, Sessions, OpenCashSession
  <1>2. /\ order' = order
        /\ session'[now + 1].status = "open"
        /\ \A m \in Sessions \ {now + 1} : session'[m] = session[m]
    BY <1>1 DEF OpenCashSession, AbsentSession, TypeOK
  <1>3. Later(n)' = Later(n) \cup {now + 1}
    <2>1. now + 1 > n /\ session'[now + 1].status # "absent"
      BY <1>1, <1>2
    <2>2. now + 1 \in Later(n)'
      BY <1>1, <2>1 DEF Later
    <2>3. \A m \in Sessions \ {now + 1} : m \in Later(n)' <=> m \in Later(n)
      BY <1>2 DEF Later
    <2>4. Later(n)' \subseteq Sessions /\ Later(n) \subseteq Sessions
      BY DEF Later
    <2> QED BY <2>2, <2>3, <2>4
  <1>4. \A o \in Orders : order[o].confirmedAt < now + 1
    <2>1. ASSUME NEW o \in Orders PROVE order[o].confirmedAt \in Int
      BY BoundsAssumption DEF TypeOK
    <2> QED BY <1>1, <2>1 DEF Dated
  <1>5. Received(n)' = Received(n)
    BY <1>2, <1>3, <1>4 DEF Received
  <1> QED BY <1>2, <1>5 DEF BooksKept, Standing

\* A request that is about an order has the closing wait.
LEMMA NoClosing ==
  ASSUME IInv, NEW x \in Calls, call[x].op \in {"register", "receive"}, NEW y \in Calls
  PROVE  call[y].op # "close"
  <1>1. \/ call[x].order \in Orders /\ order[call[x].order].status = "open"
        \/ call[x].order \in Orders /\ order[call[x].order].handover = "pending"
    BY DEF IInv, InFlight, Idle
  <1>2. call[y].op = "close" => Quiet
    BY DEF IInv, InFlight, Idle
  <1> QED BY <1>1, <1>2 DEF Quiet

\* What closings in flight are about.
LEMMA ClosingOpen ==
  ASSUME IInv, NEW x \in Calls, call[x].op = "close"
  PROVE  call[x].session = now /\ LastOpen
  BY DEF IInv, InFlight, Idle

LEMMA BooksStep ==
  ASSUME Strays = FALSE, TypeOK, IInv, Dated, Next, NEW n \in Sessions, Counted(n)
  PROVE  BooksKept(n)
  <1>1. CASE OpenCashSession
    <2>1. \A y \in Calls : call[y].op # "close"
      BY <1>1, ClosingOpen, NoneOpen DEF OpenCashSession, LastOpen
    <2> QED BY <1>1, <2>1, BooksBefore DEF Counted
  <1>2. CASE \E type \in {"supply", "withdrawal"} : RegisterCashMovement(type)
    <2>1. PICK type \in {"supply", "withdrawal"} : RegisterCashMovement(type)
      BY <1>2
    <2>2. \A m \in Sessions : session'[m].status = session[m].status
      BY <2>1, OpenSessionType DEF RegisterCashMovement, TypeOK
    <2> QED BY <2>1, <2>2, BooksUntouched DEF RegisterCashMovement
  <1>3. ASSUME NEW o \in Orders,
               OpenOrder(o) \/ SettleOtherwise(o)
                   \/ \E status \in {"refunded", "partially_refunded"} : Refund(o, status)
        PROVE  BooksKept(n)
    <2>1. PICK st \in OrderStatuses \ {"confirmed"} :
             order' = [order EXCEPT ![o].status = st] /\ session' = session
      BY <1>3 DEF OpenOrder, SettleOtherwise, Refund, OrderStatuses
    <2>2. \A p \in Orders : /\ order'[p].handover = order[p].handover
                            /\ order'[p].confirmedAt = order[p].confirmedAt
                            /\ order'[p].status = "confirmed" => order[p].status = "confirmed"
      BY <2>1 DEF TypeOK
    <2> QED BY <2>1, <2>2, BooksUntouched
  <1>4. ASSUME NEW x \in Calls,
               \/ \E o \in Orders : \/ \E via \in {"cashier", "waiter"} : RegisterRead(x, o, via)
                                    \/ ReceiveRead(x, o)
               \/ \E m \in Sessions : CloseRead(x, m)
               \/ RollBack(x)
        PROVE  BooksKept(n)
    <2>1. UNCHANGED <<session, order>>
      BY <1>4 DEF RegisterRead, ReceiveRead, CloseRead, RollBack
    <2> QED BY <2>1, BooksUntouched
  <1>5. ASSUME NEW x \in Calls, CloseCommit(x) PROVE BooksKept(n)
    <2> DEFINE st == SettledStatus(call[x].counted, call[x].amount)
    <2>1. call[x].session = now /\ LastOpen
      BY <1>5, ClosingOpen DEF CloseCommit
    <2>2. st # "absent" /\ session[now].status # "absent"
      BY <2>1 DEF SettledStatus, LastOpen, IsOpen
    <2>3. \A m \in Sessions : session'[m].status = IF m = now THEN st ELSE session[m].status
      BY <1>5, <2>1 DEF CloseCommit, TypeOK
    <2> HIDE DEF st
    <2>4. order' = order
      BY <1>5 DEF CloseCommit
    <2> QED BY <2>2, <2>3, <2>4, BooksUntouched
  <1>6. ASSUME NEW x \in Calls, RegisterCommit(x) \/ ReceiveCommit(x) PROVE BooksKept(n)
    <2>1. Finished(n)
      BY <1>6, NoClosing DEF Counted, RegisterCommit, ReceiveCommit
    <2> DEFINE p == call[x].order
    <2>2. /\ LastOpen /\ p \in Orders /\ order[p].handover # "received"
          /\ call[x].op = "register" => call[x].at = now
          /\ call[x].op = "receive" => order[p].confirmedAt = now
      BY <1>6 DEF IInv, InFlight, Idle, RegisterCommit, ReceiveCommit, Untaken, Waiting
    <2>3. order \in [Orders -> OrderRow] /\ order' \in [Orders -> OrderRow]
      <3>1. IInv'
        BY <1>6, RegisterCommitSafe, ReceiveCommitSafe
      <3> QED BY <3>1 DEF IInv, Shape
    <2>4. order' = [order EXCEPT ![p] = order'[p]] /\ order'[p] \in OrderRow /\ order'[p].confirmedAt = now
      <3>1. CASE RegisterCommit(x)
        BY <2>2, <2>3, <3>1 DEF RegisterCommit
      <3>2. CASE ReceiveCommit(x)
        BY <2>2, <2>3, <3>2 DEF ReceiveCommit, OrderRow
      <3> QED BY <1>6, <3>1, <3>2
    <2>5. StatusesKept
      BY <1>6, RegisterCommitSafe, ReceiveCommitSafe
    <2> HIDE DEF p
    <2> QED BY <2>1, <2>2, <2>4, <2>5, BooksOfOthers
  <1> QED BY <1>1, <1>2, <1>3, <1>4, <1>5, <1>6 DEF Next

LEMMA RowAmounts ==
  ASSUME TypeOK, NEW n \in Sessions
  PROVE  session[n].opening \in Int /\ session[n].moved \in Int
  <1>1. session[n].moved \in Int /\ session[n].opening \in Openings \cup {0}
    BY BoundsAssumption DEF TypeOK
  <1>2. \A a \in Openings \cup {0} : a \in Int
    BY OpeningsAssumption
  <1> QED BY <1>1, <1>2

LEMMA DatedStep == ASSUME TypeOK, IInv, Dated, Next PROVE Dated'
  <1> SUFFICES ASSUME NEW o \in Orders PROVE order'[o].confirmedAt <= now'
    BY DEF Dated
  <1>1. now \in Int /\ order[o].confirmedAt \in Int /\ order[o].confirmedAt <= now
    BY BoundsAssumption DEF TypeOK, Dated
  <1>2. CASE OpenCashSession
    BY <1>1, <1>2 DEF OpenCashSession
  <1>3. CASE \E type \in {"supply", "withdrawal"} : RegisterCashMovement(type)
    BY <1>1, <1>3 DEF RegisterCashMovement
  <1>4. ASSUME NEW p \in Orders,
               OpenOrder(p) \/ SettleOtherwise(p)
                   \/ \E status \in {"refunded", "partially_refunded"} : Refund(p, status)
        PROVE  order'[o].confirmedAt <= now'
    <2>1. now' = now /\ order'[o].confirmedAt = order[o].confirmedAt
      BY <1>4 DEF OpenOrder, SettleOtherwise, Refund, TypeOK
    <2> QED BY <1>1, <2>1
  <1>5. ASSUME NEW x \in Calls, RegisterCommit(x) PROVE order'[o].confirmedAt <= now'
    <2>1. call[x].at = now
      BY <1>5 DEF IInv, InFlight, Idle, RegisterCommit
    <2>2. order'[o].confirmedAt \in {now, order[o].confirmedAt} /\ now' = now
      BY <1>5, <2>1 DEF RegisterCommit, TypeOK
    <2> QED BY <1>1, <2>2
  <1>6. ASSUME NEW x \in Calls, ReceiveCommit(x) PROVE order'[o].confirmedAt <= now'
    <2>1. now' = now /\ order'[o].confirmedAt = order[o].confirmedAt
      BY <1>6 DEF ReceiveCommit, TypeOK
    <2> QED BY <1>1, <2>1
  <1>7. ASSUME NEW x \in Calls,
               \/ \E p \in Orders : \/ \E via \in {"cashier", "waiter"} : RegisterRead(x, p, via)
                                    \/ ReceiveRead(x, p)
               \/ \E m \in Sessions : CloseRead(x, m)
               \/ CloseCommit(x) \/ RollBack(x)
        PROVE  order'[o].confirmedAt <= now'
    <2>1. UNCHANGED <<now, order>>
      BY <1>7 DEF RegisterRead, ReceiveRead, CloseRead, CloseCommit, RollBack
    <2> QED BY <1>1, <2>1
  <1> QED BY <1>2, <1>3, <1>4, <1>5, <1>6, <1>7 DEF Next

\* Nothing but a closing finishes a session,
LEMMA OnlyClosingFinishes ==
  ASSUME TypeOK, IInv, Next, NEW n \in Sessions, Finished(n)', ~Finished(n)
  PROVE  \E x \in Calls : CloseCommit(x) /\ call[x].session = n
  <1>1. session[n].status # session'[n].status /\ session'[n].status \in {"closed", "disputed"}
    BY DEF Finished
  <1>2. ~OpenCashSession
    BY <1>1 DEF OpenCashSession, AbsentSession, TypeOK
  <1>3. ASSUME NEW type, RegisterCashMovement(type) PROVE FALSE
    BY <1>1, <1>3, OpenSessionType DEF RegisterCashMovement, TypeOK
  <1>4. session' # session
    BY <1>1
  <1>5. ASSUME NEW x \in Calls, RegisterCommit(x) \/ ReceiveCommit(x) PROVE FALSE
    <2>1. StatusesKept
      BY <1>5, RegisterCommitSafe, ReceiveCommitSafe
    <2> QED BY <1>1, <2>1 DEF StatusesKept
  <1>6. PICK x \in Calls : CloseCommit(x)
    BY <1>2, <1>3, <1>4, <1>5
       DEF Next, OpenOrder, SettleOtherwise, Refund, RegisterRead, ReceiveRead, CloseRead, RollBack
  <1>7. call[x].session = n
    BY <1>1, <1>6 DEF CloseCommit, TypeOK
  <1> QED BY <1>6, <1>7

\* which writes what it has added up.
LEMMA FinishedTallyStep == ASSUME Strays = FALSE, TypeOK, IInv, TallyInv, Next PROVE FinishedTally'
  <1> SUFFICES ASSUME NEW n \in Sessions, Finished(n)'
               PROVE  /\ Tally(session'[n].expected - session'[n].opening - session'[n].moved,
                               Received(n)', Standing(n)')
                      /\ session'[n].status = "closed" <=> session'[n].counted = session'[n].expected
    <2>1. \A m \in Sessions :
            Tally(session[m].expected - session[m].opening - session[m].moved, Received(m), Standing(m))'
              <=> Tally(session'[m].expected - session'[m].opening - session'[m].moved, Received(m)', Standing(m)')
      BY DEF Tally
    <2> QED BY <2>1 DEF FinishedTally
  <1>1. Received(n) \in SUBSET Orders /\ Standing(n) \in SUBSET Received(n)
    BY DEF Received, Standing
  <1>2. CASE Finished(n)
    <2>1. session'[n] = session[n]
      BY <1>2, Step DEF FinishedKept
    <2>2. Received(n)' = Received(n) /\ Standing(n)' \in SUBSET Standing(n)
      BY <1>2, BooksStep DEF Counted, BooksKept, TallyInv
    <2> DEFINE cash == session[n].expected - session[n].opening - session[n].moved
    <2>3. cash \in Int /\ Tally(cash, Received(n), Standing(n))
      <3>1. session[n].expected \in Int
        BY DEF TypeOK
      <3>2. session[n].opening \in Int /\ session[n].moved \in Int
        BY RowAmounts
      <3> QED BY <1>2, <3>1, <3>2 DEF TallyInv, FinishedTally
    <2> HIDE DEF cash
    <2>4. Tally(cash, Received(n)', Standing(n)')
      BY <1>1, <2>2, <2>3, TallyShrinks
    <2>5. session[n].status = "closed" <=> session[n].counted = session[n].expected
      BY <1>2 DEF TallyInv, FinishedTally
    <2> QED BY <2>1, <2>4, <2>5 DEF cash
  <1>3. CASE ~Finished(n)
    <2>1. PICK x \in Calls : CloseCommit(x) /\ call[x].session = n
      BY <1>3, OnlyClosingFinishes
    <2>2. Received(n)' = Received(n) /\ Standing(n)' \in SUBSET Standing(n)
      BY <2>1, BooksStep DEF Counted, BooksKept, TallyInv, CloseCommit
    <2>3. /\ session'[n].status = SettledStatus(call[x].counted, call[x].amount)
          /\ session'[n].expected = call[x].amount /\ session'[n].counted = call[x].counted
          /\ session'[n].opening = session[n].opening /\ session'[n].moved = session[n].moved
      BY <2>1 DEF CloseCommit, TypeOK
    <2> DEFINE cash == call[x].amount - session[n].opening - session[n].moved
    <2>4. cash \in Int /\ Tally(cash, Received(n), Standing(n))
      <3>1. call[x].amount \in Int
        BY DEF TypeOK
      <3>2. session[n].opening \in Int /\ session[n].moved \in Int
        BY RowAmounts
      <3> QED BY <2>1, <3>1, <3>2 DEF TallyInv, PendingTally, CloseCommit
    <2> HIDE DEF cash
    <2>5. Tally(cash, Received(n)', Standing(n)')
      BY <1>1, <2>2, <2>4, TallyShrinks
    <2> QED BY <2>3, <2>5 DEF cash, SettledStatus
  <1> QED BY <1>2, <1>3

\* A closing that has read keeps what it read,
LEMMA ClosingBegins ==
  ASSUME TypeOK, IInv, Next, NEW x \in Calls, call'[x].op = "close"
  PROVE  call'[x] = call[x] \/ \E n \in Sessions : CloseRead(x, n)
  <1>1. SUFFICES ASSUME call'[x] # call[x] PROVE \E n \in Sessions : CloseRead(x, n)
    OBVIOUS
  <1>2. ASSUME NEW y \in Calls, Answer(y) PROVE FALSE
    BY <1>1, <1>2 DEF Answer, Idle, TypeOK
  <1>3. ASSUME NEW y \in Calls, NEW o \in Orders, NEW via, RegisterRead(y, o, via) PROVE FALSE
    BY <1>1, <1>3 DEF RegisterRead, Idle, TypeOK
  <1>4. ASSUME NEW y \in Calls, NEW o \in Orders, ReceiveRead(y, o) PROVE FALSE
    BY <1>1, <1>4 DEF ReceiveRead, Idle, TypeOK
  <1>5. PICK y \in Calls, n \in Sessions : CloseRead(y, n)
    BY <1>1, <1>2, <1>3, <1>4
       DEF Next, OpenCashSession, RegisterCashMovement, OpenOrder, SettleOtherwise, Refund,
           RegisterCommit, ReceiveCommit, CloseCommit, RollBack
  <1>6. y = x
    BY <1>1, <1>5 DEF CloseRead, TypeOK
  <1> QED BY <1>5, <1>6

\* since no movement passes the lock it holds,
LEMMA ClosingLocks ==
  ASSUME TypeOK, IInv, Next, NEW x \in Calls, call[x].op = "close"
  PROVE  session'[now].opening = session[now].opening /\ session'[now].moved = session[now].moved
  <1>1. call[x].session = now /\ now \in Sessions /\ IsOpen(now) /\ Locked(now)
    BY ClosingOpen DEF LastOpen, Locked
  <1>2. OpenSession = now
    BY <1>1, NoneOpen, OpenIsLast
  <1>3. now \in Int /\ now # 0
    BY <1>1 DEF Sessions
  <1>4. ~OpenCashSession /\ \A type : ~RegisterCashMovement(type)
    BY <1>1, <1>2, <1>3 DEF OpenCashSession, RegisterCashMovement, NoSession
  <1>5. ASSUME NEW y \in Calls, RegisterCommit(y) \/ ReceiveCommit(y) PROVE FALSE
    BY <1>5, NoClosing DEF RegisterCommit, ReceiveCommit
  <1>6. ASSUME NEW y \in Calls, CloseCommit(y)
        PROVE  session'[now].opening = session[now].opening /\ session'[now].moved = session[now].moved
    BY <1>1, <1>6 DEF CloseCommit, TypeOK
  <1> QED
    BY <1>4, <1>5, <1>6
       DEF Next, OpenOrder, SettleOtherwise, Refund, RegisterRead, ReceiveRead, CloseRead, RollBack

\* and what it reads is the received cash of the session.
LEMMA ClosingReads ==
  ASSUME TypeOK, IInv, NEW x \in Calls, NEW n \in Sessions, CloseRead(x, n)
  PROVE  Tally(call'[x].amount - session[n].opening - session[n].moved, Received(n), Standing(n))
  <1>1. n = now /\ now \in Int
    BY BoundsAssumption DEF IInv, OneOpen, Shape, CloseRead
  <1>2. Later(n) = {}
    <2>1. ASSUME NEW m \in Sessions, m > n PROVE session[m].status = "absent"
      BY <1>1, <2>1 DEF IInv, OneOpen
    <2> QED BY <2>1 DEF Later
  <1>3. {o \in Cash(n) : order[o].handover = "received"} = Standing(n)
    BY <1>2 DEF Cash, InWindow, Standing, Received
  <1>4. Received(n) \in SUBSET Orders /\ Standing(n) \in SUBSET Received(n)
    BY DEF Received, Standing
  <1>5. CashOf(Standing(n)) \in Nat /\ CashOf(Received(n)) \in Nat /\ CashOf(Standing(n)) <= CashOf(Received(n))
    <2>1. Standing(n) \in SUBSET Orders
      BY <1>4
    <2> QED BY <1>4, <2>1, CashOfIs, CashOfSubset
  <1>6. call'[x].amount = session[n].opening + session[n].moved + CashOf(Standing(n))
    <2>1. call'[x].amount = Derived(n)
      BY DEF CloseRead, TypeOK, Idle
    <2> QED BY <1>3, <2>1 DEF Derived
  <1>7. session[n].opening \in Int /\ session[n].moved \in Int
    BY RowAmounts
  <1>8. call'[x].amount - session[n].opening - session[n].moved = CashOf(Standing(n))
    BY <1>5, <1>6, <1>7
  <1> QED BY <1>5, <1>8 DEF Tally

LEMMA PendingTallyStep == ASSUME Strays = FALSE, TypeOK, IInv, TallyInv, Next PROVE PendingTally'
  <1> SUFFICES ASSUME NEW x \in Calls, call'[x].op = "close", NEW n \in Sessions, call'[x].session = n
               PROVE  Tally(call'[x].amount - session'[n].opening - session'[n].moved, Received(n)', Standing(n)')
    <2>1. \A y \in Calls : \A m \in Sessions :
            Tally(call[y].amount - session[m].opening - session[m].moved, Received(m), Standing(m))'
              <=> Tally(call'[y].amount - session'[m].opening - session'[m].moved, Received(m)', Standing(m)')
      BY DEF Tally
    <2> QED BY <2>1 DEF PendingTally
  <1>1. Received(n) \in SUBSET Orders /\ Standing(n) \in SUBSET Received(n)
    BY DEF Received, Standing
  <1>2. CASE call'[x] = call[x]
    <2>1. n = now
      BY <1>2, ClosingOpen
    <2>2. session'[n].opening = session[n].opening /\ session'[n].moved = session[n].moved
      BY <1>2, <2>1, ClosingLocks
    <2>3. Received(n)' = Received(n) /\ Standing(n)' \in SUBSET Standing(n)
      BY <1>2, BooksStep DEF Counted, BooksKept, TallyInv
    <2> DEFINE cash == call[x].amount - session[n].opening - session[n].moved
    <2>4. cash \in Int /\ Tally(cash, Received(n), Standing(n))
      <3>1. call[x].amount \in Int
        BY DEF TypeOK
      <3>2. session[n].opening \in Int /\ session[n].moved \in Int
        BY RowAmounts
      <3> QED BY <1>2, <3>1, <3>2 DEF TallyInv, PendingTally
    <2> HIDE DEF cash
    <2>5. Tally(cash, Received(n)', Standing(n)')
      BY <1>1, <2>3, <2>4, TallyShrinks
    <2> QED BY <1>2, <2>2, <2>5 DEF cash
  <1>3. ASSUME NEW m \in Sessions, CloseRead(x, m)
        PROVE  Tally(call'[x].amount - session'[n].opening - session'[n].moved, Received(n)', Standing(n)')
    <2>1. m = n
      BY <1>3 DEF CloseRead, TypeOK, Idle
    <2>2. Received(n)' = Received(n) /\ Standing(n)' = Standing(n) /\ session' = session
      BY <1>3 DEF CloseRead, Received, Standing, Later
    <2> QED BY <1>3, <2>1, <2>2, ClosingReads
  <1> QED BY <1>2, <1>3, ClosingBegins

LEMMA TallyInit == Init => TallyInv
  <1> SUFFICES ASSUME Init PROVE TallyInv
    OBVIOUS
  <1>1. Dated
    BY DEF Init, Dated, AbsentOrder
  <1>2. FinishedTally
    BY DEF Init, FinishedTally, Finished, AbsentSession
  <1>3. PendingTally
    BY DEF Init, PendingTally, Idle
  <1> QED BY <1>1, <1>2, <1>3 DEF TallyInv

LEMMA TallyStep == Strays = FALSE /\ TypeOK /\ IInv /\ TallyInv /\ [Next]_vars => TallyInv'
  <1>1. ASSUME Strays = FALSE, TypeOK, IInv, TallyInv, Next PROVE TallyInv'
    BY <1>1, DatedStep, FinishedTallyStep, PendingTallyStep DEF TallyInv
  <1>2. ASSUME TallyInv, UNCHANGED vars PROVE TallyInv'
    <2>1. UNCHANGED <<now, session, order, call>>
      BY <1>2 DEF vars
    <2>2. \A n : Received(n)' = Received(n) /\ Standing(n)' = Standing(n) /\ (Finished(n)' <=> Finished(n))
      BY <2>1 DEF Received, Standing, Later, Finished
    <2>3. Dated' /\ FinishedTally'
      BY <1>2, <2>1, <2>2 DEF TallyInv, Dated, FinishedTally, Tally
    <2>4. PendingTally'
      BY <1>2, <2>1, <2>2 DEF TallyInv, PendingTally, Tally
    <2> QED BY <2>3, <2>4 DEF TallyInv
  <1> QED BY <1>1, <1>2

\* While no cash is taken without an open session, nor refunded before it is
\* handed over, closeCashSession counts the movements and the cash of its own
\* session, each once, and says closed just when the drawer holds as much.
THEOREM ClosedSessionsTally == ASSUME Strays = FALSE PROVE Spec => []ClosedTally
  <1>1. Init => TypeOK /\ IInv /\ TallyInv
    BY InitInv, TallyInit, IdleType, BoundsAssumption
       DEF Init, TypeOK, AbsentSession, AbsentOrder, OrderStatuses, CallRow
  <1>2. TypeOK /\ IInv /\ TallyInv /\ [Next]_vars => (TypeOK /\ IInv /\ TallyInv)'
    BY TypesKept, Step, TallyStep
  <1>3. TallyInv => ClosedTally
    <2>1. \A n : Standing(n) = {o \in Received(n) : order[o].status = "confirmed"}
      BY DEF Standing
    <2> QED BY <2>1 DEF TallyInv, FinishedTally, ClosedTally, Tally
  <1> QED BY <1>1, <1>2, <1>3, PTL DEF Spec
=============================================================================
