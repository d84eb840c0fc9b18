------------------------------- MODULE Stock -------------------------------
(***************************************************************************)
(* The stock of one branch (inventory.service.ts, with the deduction of a  *)
(* sale in orders.service.ts, its return in pos.service.ts and the doses   *)
(* of club-whisky.service.ts).  A balance is the sum of the movements at a *)
(* place.  A transaction takes the advisory lock of an item at a place and *)
(* then reads the balance, which does not hold the movements other         *)
(* transactions have not committed; its own are seen by all when it        *)
(* commits.  Not every path takes the lock before it adds.                 *)
(***************************************************************************)
EXTENDS Integers, FiniteSets, SequencesExt, FiniteSetsExt

CONSTANTS
    Items,
    AllowNegative, \* the items whose balance may go below zero
    Places,     \* the stock locations, Transit among them
    Transit,
    Transfers,  \* keys of transfers
    Sent,       \* what a transfer can send or a receipt confirm: functions from Items
    Lanes,      \* the pairs of places a transfer can link
    Configurable, \* the places that can be configured for consumption
    Modes,      \* "immediate", "awaiting_receipt"
    Orders,     \* orders to be sold
    Recipe,     \* what an order takes of each item
    Doses,      \* keys of dose consumptions, each of 1 of any item
    Returns,    \* pairs of an empty and a full item
    Counts,     \* quantities adjusted or counted by hand
    Calls,      \* transactions in flight
    MaxStock,   \* bound on what is brought in or taken out by hand
    None

VARIABLES
    stock,      \* per item and place, the sum of the committed movements
    hand,       \* the part of it with a manual, purchase or returnable source
    transfer,   \* the transfers
    sale,       \* per order, whether it took its stock, and from where
    dose,       \* per key, what was taken and from where
    archived,   \* the archived places
    setting,    \* transfer mode and consumption place
    op          \* the transactions in flight

stockVars == <<stock, hand, transfer, sale, dose, archived, setting, op>>
-----------------------------------------------------------------------------
Cells == Items \X Places
Active == Places \ archived

Nothing == [x \in Cells |-> 0]
Move(i, l, q) == [x \in Cells |-> IF x = <<i, l>> THEN q ELSE 0]
Plus(f, g) == [x \in Cells |-> f[x] + g[x]]

\* A lock to take, the cell that is then looked at, how much it must hold (None:
\* nothing is asked) or what was counted there, and what moves.
Step(lock, look, need, moves) == [lock |-> lock, look |-> look, need |-> need, count |-> None, moves |-> moves]

Off == [at |-> "idle", steps |-> <<>>, locks |-> {}, moves |-> Nothing, byHand |-> FALSE,
        claim |-> <<>>, becomes |-> None, place |-> {}, mode |-> None]

Begin(c, call) == op[c] = Off /\ op' = [op EXCEPT ![c] = call]
Done(c) == op' = [op EXCEPT ![c] = Off]

Run(steps) == [Off EXCEPT !.at = "run", !.steps = steps]
ByHand(steps) == [Run(steps) EXCEPT !.byHand = TRUE]
Change(kind, key, becomes, steps) == [Run(steps) EXCEPT !.claim = <<kind, key>>, !.becomes = becomes]

\* Mutant: a row that another transaction is changing is changed too.
Unclaimed(row) == TRUE

\* A conditional update, or the insertion of a key, waits for whoever did the
\* same and has not ended.
Free(row) == \A c \in Calls : op[c].claim # row

\* lockStock.
LockFree(c, cell) == \A d \in Calls \ {c} : cell \notin op[d].locks

\* lockLocations, which creating a transfer and archiving take.
PlacesFree(places) == \A c \in Calls : op[c].place \cap places = {}

\* assertAvailable, and the same check of an adjustment, a sale and a dose: the
\* balance of an item that may go below zero is not looked at.
Available(s, balance) == s.need = None \/ s.look[1] \in AllowNegative \/ balance >= s.need

\* One line: the lock, then assertAvailable, then the movements.
Take(c) ==
    LET o == op[c]
        s == Head(o.steps)
        balance == stock[s.look] + o.moves[s.look]
        moves == IF s.count = None THEN s.moves ELSE Move(s.look[1], s.look[2], s.count - balance)
        taken == [o EXCEPT !.steps = Tail(@), !.locks = @ \cup {s.lock}, !.moves = Plus(@, moves)]
    IN  /\ o.at = "run" /\ o.steps # <<>>
        /\ LockFree(c, s.lock)
        /\ IF Available(s, balance) THEN op' = [op EXCEPT ![c] = taken] ELSE Done(c)
        /\ UNCHANGED <<stock, hand, transfer, sale, dose, archived, setting>>

Commit(c) ==
    LET row == op[c].claim
        write(kind, f) == IF row # <<>> /\ row[1] = kind THEN [f EXCEPT ![row[2]] = op[c].becomes] ELSE f
    IN  /\ op[c].at = "run" /\ op[c].steps = <<>>
        /\ stock' = Plus(stock, op[c].moves)
        /\ hand' = IF op[c].byHand THEN Plus(hand, op[c].moves) ELSE hand
        /\ transfer' = write("transfer", transfer)
        /\ sale' = write("order", sale)
        /\ dose' = write("dose", dose)
        /\ Done(c)
        /\ UNCHANGED <<archived, setting>>

\* A deadlock, an error or a crash.
Abort(c) ==
    /\ op[c].at # "idle"
    /\ Done(c)
    /\ UNCHANGED <<stock, hand, transfer, sale, dose, archived, setting>>

Starts(c, call) ==
    /\ Begin(c, call)
    /\ UNCHANGED <<stock, hand, transfer, sale, dose, archived, setting>>

Adjust(c, i, l, q) ==
    /\ l \in Active /\ hand[<<i, l>>] + q \in -MaxStock .. MaxStock
    /\ Starts(c, ByHand(<<Step(<<i, l>>, <<i, l>>, -q, Move(i, l, q))>>))

\* inventory_count: to what was counted, from the balance read under the lock.
Count(c, i, l, n) ==
    /\ l \in Active /\ hand[<<i, l>>] + n <= MaxStock
    /\ Starts(c, ByHand(<<[Step(<<i, l>>, <<i, l>>, None, Nothing) EXCEPT !.count = n]>>))

\* recordReturnableEvent: the empty item is looked at, the full one that a
\* supplier gives for it is added without its lock.
ReturnEmpty(c, r, l, exchange) ==
    LET full == IF exchange THEN Move(r[2], l, 1) ELSE Nothing
    IN  /\ l \in Active /\ (exchange => hand[<<r[2], l>>] < MaxStock) /\ hand[<<r[1], l>>] > -MaxStock
        /\ Starts(c, ByHand(<<Step(<<r[1], l>>, <<r[1], l>>, 1, Plus(Move(r[1], l, -1), full))>>))
-----------------------------------------------------------------------------
(*                               Transfers                                 *)

\* The steps of all lines, n of each; a line of 0 does not exist.
AllLines(quantity, n, steps(_)) ==
    LET lines == SetToSeq({i \in Items : quantity[i] # 0})
    IN  [k \in 1..n * Len(lines) |-> steps(lines[(k - 1) \div n + 1])[((k - 1) % n) + 1]]

Arrival(x) == IF x.mode = "immediate" THEN x.to ELSE Transit

Dispatched(x) ==
    [x EXCEPT !.status = IF x.mode = "immediate" THEN "completed" ELSE "awaiting_receipt", !.got = x.sent]

\* dispatchTransfer.
Dispatch(t, x) ==
    Change("transfer", t, Dispatched(x), AllLines(x.sent, 2, LAMBDA i :
        <<Step(<<i, x.from>>, <<i, x.from>>, None, Nothing),
          Step(<<i, Arrival(x)>>, <<i, x.from>>, x.sent[i],
               Plus(Move(i, x.from, -x.sent[i]), Move(i, Arrival(x), x.sent[i])))>>))

\* createTransfer, as a draft or dispatched at once.
CreateTransfer(c, t, from, to, sent, submit) ==
    LET draft == [status |-> "draft", from |-> from, to |-> to, mode |-> setting.mode,
                  sent |-> sent, got |-> sent, reversed |-> FALSE]
    IN  /\ from # to /\ {from, to} \subseteq Active /\ PlacesFree({from, to})
        /\ \E i \in Items : sent[i] > 0
        /\ transfer[t].status = "absent" /\ Free(<<"transfer", t>>)
        /\ Starts(c, [IF submit THEN Dispatch(t, draft) ELSE Change("transfer", t, draft, <<>>)
                         EXCEPT !.place = {from, to}])

DispatchDraft(c, t) ==
    /\ transfer[t].status = "draft" /\ Free(<<"transfer", t>>)
    /\ Starts(c, Dispatch(t, transfer[t]))

CancelTransfer(c, t) ==
    /\ transfer[t].status = "draft" /\ Free(<<"transfer", t>>)
    /\ Starts(c, Change("transfer", t, [transfer[t] EXCEPT !.status = "cancelled"], <<>>))

\* receiveTransfer: what did not arrive leaves the transit as a divergence;
\* nothing looks at what the transit holds.
ReceiveTransfer(c, t, got) ==
    LET x == transfer[t]
    IN  /\ x.status = "awaiting_receipt" /\ Free(<<"transfer", t>>)
        /\ \A i \in Items : got[i] <= x.sent[i]
        /\ Starts(c, Change("transfer", t, [x EXCEPT !.status = "completed", !.got = got],
               AllLines(x.sent, 2, LAMBDA i :
                   <<Step(<<i, Transit>>, <<i, Transit>>, None, Nothing),
                     Step(<<i, x.to>>, <<i, x.to>>, None,
                          Plus(Move(i, Transit, -x.sent[i]), Move(i, x.to, got[i])))>>)))

\* reverseTransfer: back from the destination, whose lock it takes, to the
\* origin, whose lock it does not take and which may be archived.
ReverseTransfer(c, t) ==
    LET x == transfer[t]
    IN  /\ x.status = "completed" /\ ~x.reversed /\ Free(<<"transfer", t>>)
        /\ Starts(c, Change("transfer", t, [x EXCEPT !.reversed = TRUE],
               AllLines(x.got, 1, LAMBDA i :
                   <<Step(<<i, x.to>>, <<i, x.to>>, x.got[i],
                          Plus(Move(i, x.to, -x.got[i]), Move(i, x.from, x.got[i])))>>)))
-----------------------------------------------------------------------------
(*                 Sales, doses, locations and settings                    *)

\* findStockLocation: the configured place, or else another one.
SalePlaces == LET configured == {setting.place} \cap Active
              IN  IF configured # {} THEN configured ELSE Active \ {Transit}

\* closeOrder: the locks in the order of the items.
Sell(c, o) ==
    /\ sale[o].status = "open" /\ Free(<<"order", o>>)
    /\ \E l \in SalePlaces :
          Starts(c, Change("order", o, [status |-> "sold", place |-> l],
              AllLines(Recipe, 1, LAMBDA i : <<Step(<<i, l>>, <<i, l>>, Recipe[i], Move(i, l, -Recipe[i]))>>)))

\* The cancellation of a sold item puts its stock back, without a lock
\* (Approvals shows that it happens once).
ReturnSale(o) ==
    LET back == [x \in Cells |-> IF x[2] = sale[o].place THEN Recipe[x[1]] ELSE 0]
    IN  /\ sale[o].status = "sold"
        /\ stock' = Plus(stock, back)
        /\ sale' = [sale EXCEPT ![o].status = "returned"]
        /\ UNCHANGED <<hand, transfer, dose, archived, setting, op>>

\* registerDoseConsumption, from the configured place only.
ConsumeDose(c, d, i) ==
    LET l == setting.place
    IN  /\ l \in Active /\ dose[d].status = "absent" /\ Free(<<"dose", d>>)
        /\ Starts(c, Change("dose", d, [status |-> "consumed", item |-> i, place |-> l],
                            <<Step(<<i, l>>, <<i, l>>, 1, Move(i, l, -1))>>))

\* reverseDoseConsumption, to where the dose came from, under a key of its own
\* that is inserted once.
ReverseDose(c, d) ==
    LET i == dose[d].item
        l == dose[d].place
    IN  /\ dose[d].status = "consumed" /\ Free(<<"dose", d>>)
        /\ Starts(c, Change("dose", d, [dose[d] EXCEPT !.status = "reversed"],
                            <<Step(<<i, l>>, <<i, l>>, None, Move(i, l, 1))>>))

\* archiveLocation reads the balance, then the transfers.
ReadArchive(c, l) ==
    /\ l \in Active \ {Transit, setting.place} /\ PlacesFree({l})
    /\ MapThenSumSet(LAMBDA i : stock[<<i, l>>], Items) = 0
    /\ Starts(c, [Off EXCEPT !.at = "archive", !.place = {l}])

WriteArchive(c) ==
    LET open == {t \in Transfers : transfer[t].status \in {"draft", "awaiting_receipt"}}
    IN  /\ op[c].at = "archive"
        /\ archived' = IF \E t \in open : {transfer[t].from, transfer[t].to} \cap op[c].place # {}
                       THEN archived ELSE archived \cup op[c].place
        /\ Done(c)
        /\ UNCHANGED <<stock, hand, transfer, sale, dose, setting>>

\* saveSettings reads the place without its lock.
ReadSettings(c, l, mode) ==
    /\ l \in Active \ {Transit}
    /\ Starts(c, [Off EXCEPT !.at = "settings", !.becomes = l, !.mode = mode])

WriteSettings(c) ==
    /\ op[c].at = "settings"
    /\ setting' = [mode |-> op[c].mode, place |-> op[c].becomes]
    /\ Done(c)
    /\ UNCHANGED <<stock, hand, transfer, sale, dose, archived>>
-----------------------------------------------------------------------------
Init ==
    /\ stock = Nothing /\ hand = Nothing
    /\ transfer = [t \in Transfers |-> [status |-> "absent"]]
    /\ sale = [o \in Orders |-> [status |-> "open", place |-> None]]
    /\ dose = [d \in Doses |-> [status |-> "absent", item |-> None, place |-> None]]
    /\ archived = {}
    /\ \E l \in Configurable \cup {None}, mode \in Modes : setting = [mode |-> mode, place |-> l]
    /\ op = [c \in Calls |-> Off]

Next ==
    \/ \E c \in Calls, i \in Items, l \in Places :
          \/ \E q \in Counts : Adjust(c, i, l, q) \/ Adjust(c, i, l, -q) \/ Count(c, i, l, q)
          \/ \E d \in Doses : ConsumeDose(c, d, i)
    \/ \E c \in Calls, r \in Returns, l \in Places, exchange \in BOOLEAN : ReturnEmpty(c, r, l, exchange)
    \/ \E c \in Calls, t \in Transfers :
          \/ \E lane \in Lanes, sent \in Sent, submit \in BOOLEAN : CreateTransfer(c, t, lane[1], lane[2], sent, submit)
          \/ \E got \in Sent : ReceiveTransfer(c, t, got)
          \/ DispatchDraft(c, t) \/ CancelTransfer(c, t) \/ ReverseTransfer(c, t)
    \/ \E c \in Calls, o \in Orders : Sell(c, o)
    \/ \E o \in Orders : ReturnSale(o)
    \/ \E c \in Calls, d \in Doses : ReverseDose(c, d)
    \/ \E c \in Calls, l \in Places : ReadArchive(c, l)
    \/ \E c \in Calls, l \in Configurable, mode \in Modes : ReadSettings(c, l, mode)
    \/ \E c \in Calls : Take(c) \/ Commit(c) \/ Abort(c) \/ WriteArchive(c) \/ WriteSettings(c)

Spec == Init /\ [][Next]_stockVars
-----------------------------------------------------------------------------
(*                               Properties                                *)

TypeOK ==
    /\ stock \in [Cells -> Int] /\ hand \in [Cells -> Int]
    /\ \A t \in Transfers : transfer[t].status \in
          {"absent", "draft", "awaiting_receipt", "completed", "cancelled"}
    /\ \A o \in Orders : sale[o].status \in {"open", "sold", "returned"}
    /\ \A d \in Doses : dose[d].status \in {"absent", "consumed", "reversed"}
    /\ archived \subseteq Places /\ setting \in [mode : Modes, place : Configurable \cup {None}]
    /\ \A c \in Calls : op[c].at \in {"idle", "run", "archive", "settings"} /\ op[c].locks \subseteq Cells

\* No two transactions spend the same stock: what a place other than the
\* transit holds of an item that may not go below zero is never negative,
\* although balances are sums of movements and some paths add without the lock.
StockNotNegative == \A x \in Cells : x[2] # Transit /\ x[1] \notin AllowNegative => stock[x] >= 0

\* What a transfer has moved in the state it is in.
Moved(t) ==
    LET x == transfer[t]
        share(i, l) == (IF l = x.from THEN (IF x.reversed THEN x.got[i] ELSE 0) - x.sent[i] ELSE 0)
                       + (IF x.status = "awaiting_receipt" /\ l = Transit THEN x.sent[i] ELSE 0)
                       + (IF x.status = "completed" /\ ~x.reversed /\ l = x.to THEN x.got[i] ELSE 0)
    IN  IF x.status \in {"awaiting_receipt", "completed"} THEN [y \in Cells |-> share(y[1], y[2])] ELSE Nothing

\* What was not moved by hand is exactly what the transfers, the sales and the
\* doses moved in the states they are in: each is dispatched, received,
\* reversed, sold, returned or consumed in stock once, whatever was retried,
\* ran at the same time or failed half way.
StockAddsUp ==
    \A x \in Cells :
        stock[x] - hand[x] =
            MapThenSumSet(LAMBDA t : Moved(t)[x], Transfers)
            - Recipe[x[1]] * Cardinality({o \in Orders : sale[o] = [status |-> "sold", place |-> x[2]]})
            - Cardinality({d \in Doses : dose[d] = [status |-> "consumed", item |-> x[1], place |-> x[2]]})
=============================================================================
