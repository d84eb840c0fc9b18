------------------------------ MODULE MCOffice ------------------------------
(***************************************************************************)
(* The money and the stock of one branch in one run: CashDrawer, Stock     *)
(* (transfers, and what consumes), Settlements, Commissions, Occurrences,  *)
(* Intake (deliveries, and billing), ClubEvents, Shares, Reconciliation    *)
(* and Allocations.  They share no state, so each behaviour follows one of *)
(* them, its focus, and the others stay.                                   *)
(***************************************************************************)
EXTENDS CashDrawer, Sequences, TLC

CONSTANTS
    Requests,                                           \* requests in flight, of any component but the cash
    Files, Rows, CardAmount, MaxVersion,                \* Reconciliation
    BillItems, Price, Payments, Parts,                  \* Allocations
    Parties, Bucket, Services, ItemKinds,               \* Settlements
    Calculations, MaxLedger, MaxRevisions,
    Policies, Periods, Records, PayAmounts,             \* Commissions
    Occurrences, Debtors, Types, Owed, Recoveries,      \* Occurrences
    Deliveries, OrderKeys, Events, MaxExpired,          \* Intake
    ClubKeys, Payloads, MaxEvents,                      \* ClubEvents
    Items, AllowNegative, Places, Transit, Transfers, Sent, Lanes, \* Stock
    Configurable, Modes, Sales, Recipe, Doses, Returns, Counts, MaxStock,
    Members, Goods, GoodsPrice, Author, Divisions, Pool, Discounts, ChargePolicies, Manual, Pays,
    Bands, Target, Bonus, FixedRate, People,            \* Shares
    o1, o2                                              \* two orders

VARIABLES
    focus,
    stock, hand, transfer, sale, dose, archived, setting, op,
    turn, ledger, sold, assigned, service, settlement, act,
    policy, accrual, record, doing,
    bill, loss, recovery, till, task,
    delivery, billing, inbox, expired, run,
    received, queued, accepted, partner,
    served, result,
    imports, entry, confirmed, job,
    item, version, paid, charging

stocks == <<stock, hand, transfer, sale, dose, archived, setting, op>>
settlements == <<<<turn, ledger, sold, assigned, service>>, settlement, act>>
commissions == <<policy, accrual, record, doing>>
occurrences == <<bill, loss, recovery, till, task>>
intakes == <<delivery, billing, inbox, expired, run>>
clubEvents == <<received, queued, accepted, partner>>
divisions == <<served, result>>
reconciliations == <<imports, entry, confirmed, job>>
allocations == <<item, version, paid, charging>>

money == <<settlements, commissions, occurrences, divisions, reconciliations, allocations>>
incoming == <<intakes, clubEvents>>

officeVars == <<focus, vars, stocks, money, incoming>>

\* Requests are interchangeable, and so are the keys of calculations.
CallSymmetry == Permutations(Requests) \cup Permutations(Calculations)
-----------------------------------------------------------------------------
(*     What the configuration gives those constants that are no sets.      *)

\* Amounts differ, so that a sum names its orders.
OrderAmounts == o1 :> 2 @@ o2 :> 4

\* A row that two charges could match, and a chargeback.
TwoRows ==
    "f" :> <<[gross |-> 1, names |-> {1, 2}, kind |-> "settlement"], [gross |-> 1, names |-> {1}, kind |-> "chargeback"]>>

OneOfEach == <<1, 1>>
OneAndTwo == <<1, 2>>
OneLane == {<<1, 2>>}
OneCrate == {<<1, 2>>}
UpToOne == {<<0, 0>>, <<1, 0>>}

\* An event of the external order, and two of one subscription.
ThreeEvents == {[provider |-> "ifood", to |-> "delivered"],
                [provider |-> "asaas", to |-> "active"], [provider |-> "asaas", to |-> "past_due"]}
\* Items of a waiter's table and of nobody's; a policy of each kind.
TwoItemKinds == {[responsible |-> "w", author |-> "b"], [responsible |-> "b", author |-> "b"]}
TwoServices == {[confirms |-> TRUE, attribution |-> "table_responsible"],
                [confirms |-> FALSE, attribution |-> "shift_pool"]}

\* An order of three items, one nobody registered, and the payments of each
\* kind of row; two bands, the second open.
OneOneTwo == <<1, 1, 2>>
OneNobodyTwo == <<1, 0, 2>>
TwoPolicies == {[base |-> "gross_consumption", bps |-> 5000], [base |-> "net_consumption", bps |-> 2500]}
Charge(amount, refunded, status, handover, via, by) ==
    [amount |-> amount, refunded |-> refunded, status |-> status, handover |-> handover, via |-> via, by |-> by]
ThreePays == {Charge(2, 0, "confirmed", "not_required", "cashier", 0), Charge(6, 0, "confirmed", "received", "waiter", 1),
              Charge(3, 0, "confirmed", "pending", "waiter", 2)}
TwoBands == <<[start |-> 0, end |-> 2, rate |-> 5000], [start |-> 2, end |-> None, rate |-> 10000]>>
-----------------------------------------------------------------------------
Cards == INSTANCE Reconciliation WITH Amount <- CardAmount, Calls <- Requests

Bill == INSTANCE Allocations WITH Items <- BillItems, Calls <- Requests

Shift == INSTANCE Settlements WITH Keys <- Calculations, Calls <- Requests

Dues == INSTANCE Commissions WITH Amounts <- PayAmounts, Calls <- Requests

Losses == INSTANCE Occurrences WITH Amounts <- PayAmounts, Orders <- Debtors, Calls <- Requests

Mail == INSTANCE Intake WITH Keys <- OrderKeys, Calls <- Requests

Club == INSTANCE ClubEvents WITH Keys <- ClubKeys

Store == INSTANCE Stock WITH Orders <- Sales, Calls <- Requests

Dividing == INSTANCE Shares WITH
    Items <- Goods, Price <- GoodsPrice, Modes <- Divisions, Policies <- ChargePolicies
-----------------------------------------------------------------------------
\* Rows, requests and whatever is registered are finitely many.
ASSUME FiniteAssumption ==
    /\ IsFiniteSet(Requests) /\ IsFiniteSet(Payments) /\ IsFiniteSet(Records) /\ IsFiniteSet(Recoveries)
    /\ IsFiniteSet(Items) /\ IsFiniteSet(Transfers) /\ IsFiniteSet(Sales) /\ IsFiniteSet(Doses)

\* Money and quantities are counted.
ASSUME CountedAssumption ==
    /\ Parts \subseteq Nat /\ Price \in [BillItems -> Nat] /\ PayAmounts \subseteq Nat /\ Owed \in Nat
    /\ Sent \subseteq [Items -> Nat] /\ Recipe \in [Items -> Nat] /\ Counts \subseteq Nat
    /\ MaxRevisions \in Nat

\* Stock moves between places, and comes back as items.
ASSUME PlacesAssumption ==
    Lanes \subseteq Places \X Places /\ Returns \subseteq Items \X Items /\ Transit \in Places

\* What no waiter answers for is a party's, and items are for parties.
ASSUME PartiesAssumption ==
    Bucket \in Parties /\ ItemKinds \subseteq [responsible : Parties, author : Parties]

\* What is divided is counted too, among people with ids.
ASSUME DividedAssumption ==
    /\ Members \subseteq Nat \ {0} /\ IsFiniteSet(Members) /\ IsFiniteSet(Goods)
    /\ GoodsPrice \in [Goods -> Nat] /\ Pool \in [Members -> Nat]
    /\ Discounts \subseteq Nat /\ Manual \subseteq Nat /\ People \subseteq Nat \ {0}
    /\ \A p \in ChargePolicies : p.bps \in Nat
    /\ \A p \in Pays : p.amount \in Nat /\ p.refunded \in Nat

\* Bands as assertCommissionRules accepts them (staff-finance.service.ts:3137):
\* in the order of their starts, and none starts before the one before it ends.
ASSUME BandsAssumption ==
    /\ Bands \in Seq([start : Nat, end : Nat \cup {None}, rate : Nat])
    /\ \A i, j \in DOMAIN Bands : i < j => Bands[i].start <= Bands[j].start
    /\ \A i \in DOMAIN Bands : Bands[i].end # None =>
          Bands[i].start < Bands[i].end /\ (i < Len(Bands) => Bands[i].end <= Bands[i + 1].start)

\* None is nothing else, and an event names what became of its order.
ASSUME MissingAssumption ==
    /\ None \notin Calculations /\ None \notin Occurrences /\ None \notin Events /\ None \notin Payloads
    /\ None \notin Int /\ None \notin Places /\ None # "house_loss"
    /\ None \notin Bill!Allocations /\ None \notin Policies \X Periods \X (1 .. MaxRevisions)
    /\ \A e \in Events : e.to # "absent"
-----------------------------------------------------------------------------
NoStocks ==
    /\ stock = None /\ hand = None /\ transfer = None /\ sale = None
    /\ dose = None /\ archived = None /\ setting = None /\ op = None
NoSettlements ==
    /\ turn = None /\ ledger = None /\ sold = None /\ assigned = None /\ service = None
    /\ settlement = None /\ act = None
NoCommissions == policy = None /\ accrual = None /\ record = None /\ doing = None
NoOccurrences == bill = None /\ loss = None /\ recovery = None /\ till = None /\ task = None
NoIntakes == delivery = None /\ billing = None /\ inbox = None /\ expired = None /\ run = None
NoClubEvents == received = None /\ queued = None /\ accepted = None /\ partner = None
NoDivisions == served = None /\ result = None
NoReconciliations == imports = None /\ entry = None /\ confirmed = None /\ job = None
NoAllocations == item = None /\ version = None /\ paid = None /\ charging = None

NoMoney ==
    /\ NoSettlements /\ NoCommissions /\ NoOccurrences
    /\ NoDivisions /\ NoReconciliations /\ NoAllocations

NoIncoming == NoIntakes /\ NoClubEvents

MoneyFoci == {"settlements", "commissions", "occurrences", "dividing",
              "reconciliation", "allocations"}

\* The component in focus starts; of the others there is nothing.
MoneyInit ==
    /\ focus \in MoneyFoci
    /\ IF focus = "settlements" THEN Shift!Init ELSE NoSettlements
    /\ IF focus = "commissions" THEN Dues!Init ELSE NoCommissions
    /\ IF focus = "occurrences" THEN Losses!Init ELSE NoOccurrences
    /\ IF focus = "dividing" THEN Dividing!Init ELSE NoDivisions
    /\ IF focus = "reconciliation" THEN Cards!Init ELSE NoReconciliations
    /\ IF focus = "allocations" THEN Bill!Init ELSE NoAllocations

OfficeInit ==
    /\ Init
    /\ \/ focus = "cash" /\ NoStocks /\ NoMoney /\ NoIncoming
       \/ focus = "stock" /\ Store!Init /\ NoMoney /\ NoIncoming
       \/ MoneyInit /\ NoStocks /\ NoIncoming
       \/ focus = "intake" /\ Mail!Init /\ NoStocks /\ NoMoney /\ NoClubEvents
       \/ focus = "club" /\ Club!Init /\ NoStocks /\ NoMoney /\ NoIntakes

MoneyNext ==
    \/ focus = "settlements" /\ Shift!Next /\ UNCHANGED <<commissions, occurrences, divisions, reconciliations, allocations>>
    \/ focus = "commissions" /\ Dues!Next /\ UNCHANGED <<settlements, occurrences, divisions, reconciliations, allocations>>
    \/ focus = "occurrences" /\ Losses!Next /\ UNCHANGED <<settlements, commissions, divisions, reconciliations, allocations>>
    \/ focus = "dividing" /\ Dividing!Next /\ UNCHANGED <<settlements, commissions, occurrences, reconciliations, allocations>>
    \/ focus = "reconciliation" /\ Cards!Next /\ UNCHANGED <<settlements, commissions, occurrences, divisions, allocations>>
    \/ focus = "allocations" /\ Bill!Next /\ UNCHANGED <<settlements, commissions, occurrences, divisions, reconciliations>>

OfficeNext ==
    /\ UNCHANGED focus
    /\ \/ focus = "cash" /\ Next /\ UNCHANGED <<stocks, money, incoming>>
       \/ focus = "stock" /\ Store!Next /\ UNCHANGED <<vars, money, incoming>>
       \/ MoneyNext /\ UNCHANGED <<vars, stocks, incoming>>
       \/ focus = "intake" /\ Mail!Next /\ UNCHANGED <<vars, stocks, money, clubEvents>>
       \/ focus = "club" /\ Club!Next /\ UNCHANGED <<vars, stocks, money, intakes>>

\* What the run leaves out: deliveries and billing, or transfers and
\* consumption, at once.
Entries == \A e \in Events : e.provider # "ifood" => inbox[e].status = "absent"
Payers == /\ \A e \in Events : e.provider = "ifood" => inbox[e].status = "absent"
          /\ \A d \in Deliveries : delivery[d].status = "absent"
          /\ \A r \in Requests : run[r].at # "enter"

InSight == UNION {{op[r].steps[k].look : k \in DOMAIN op[r].steps} \cup op[r].locks : r \in Requests}
ClaimKinds == {op[r].claim[1] : r \in {r \in Requests : op[r].claim # <<>>}}

Moving ==
    /\ setting.place = None /\ \A r \in Requests : op[r].at # "settings"
    /\ InSight \subseteq {1} \X Places /\ \A x \in Items \X Places : x[1] # 1 => hand[x] = 0
    /\ ClaimKinds \subseteq {"transfer"} /\ sale = [o \in Sales |-> [status |-> "open", place |-> None]]
    /\ \A d \in Doses : dose[d].status = "absent"

Consuming ==
    /\ setting.mode = "immediate" /\ \A r \in Requests : op[r].mode # "awaiting_receipt"
    /\ InSight \subseteq Items \X {1} /\ UNION {op[r].place : r \in Requests} \cup archived \subseteq {1}
    /\ \A x \in Items \X Places : x[2] # 1 => hand[x] = 0
    /\ "transfer" \notin ClaimKinds /\ \A t \in Transfers : transfer[t].status = "absent"

\* Nor is anything taken out by hand that was not brought in by hand, or is
\* there a dose beside full returnables.
Brought ==
    /\ \A x \in Items \X Places : hand[x] >= 0
    /\ (\E d \in Doses : dose[d].status # "absent") => \A x \in Items \X Places : x[1] # 1 => hand[x] = 0

\* A shift begins with an order that has an item, and is followed until it is
\* closed; the step that closes it is checked.
Shifting == turn = "open" /\ (sold = {} => ledger = 0)

OneSubject ==
    /\ focus = "intake" => Entries \/ Payers
    /\ focus = "stock" => (Moving \/ Consuming) /\ Brought
    /\ focus = "settlements" => Shifting

OfficeSpec == OfficeInit /\ [][OfficeNext]_officeVars
-----------------------------------------------------------------------------
\* Every variable of the component in focus has its type.
OfficeTypeOK ==
    CASE focus = "cash" -> TypeOK
      [] focus = "stock" -> Store!TypeOK
      [] focus = "settlements" -> Shift!TypeOK
      [] focus = "commissions" -> Dues!TypeOK
      [] focus = "occurrences" -> Losses!TypeOK
      [] focus = "intake" -> Mail!TypeOK
      [] focus = "club" -> Club!TypeOK
      [] focus = "dividing" -> Dividing!TypeOK
      [] focus = "reconciliation" -> Cards!TypeOK
      [] focus = "allocations" -> Bill!TypeOK

\* Transfers, sales, doses and counts move stock once, and no two spend the
\* same stock of an item that may not go below zero (Stock).
StockAddsUp == focus = "stock" => Store!StockAddsUp /\ Store!StockNotNegative

\* A shift closes on the newest calculation of everyone who had to settle
\* (Settlements); a row of a card statement is settled as what it still is
\* (Reconciliation); a charge is for items that are still on the bill
\* (Allocations).
ActsOnNewest ==
    [][/\ focus = "settlements" => Shift!ClosesOnNewest
       /\ focus = "reconciliation" => Cards!PreviousIsTrue
       /\ focus = "allocations" => Bill!OnOpenItems]_officeVars

\* No share is paid twice (Commissions), no loss recovered twice
\* (Occurrences), no external order entered twice and no event handled by
\* two holders of its lease (Intake), no call of the club's partner told on
\* twice or not at all (ClubEvents), no file of card payments recorded twice
\* or in part (Reconciliation), no item paid for twice (Allocations).
DoneOnce ==
    /\ focus = "commissions" => Dues!PeriodPaidOnce
    /\ focus = "occurrences" => Losses!LossesFit
    /\ focus = "intake" => Mail!EnteredOnce /\ Mail!HoldersLeased
    /\ focus = "club" => Club!AcceptedIsQueued
    /\ focus = "reconciliation" => Cards!FilesAgree
    /\ focus = "allocations" => Bill!ItemsNotOverpaid

\* Every cent is given to one person, in proportion (Shares).
CentsExact == focus = "dividing" => Dividing!CentsExact

\* Disagrees with the code: the totals of a settlement are of the ledger its
\* hash names (Settlements).
TotalsAreOfHash == focus = "settlements" => Shift!TotalsAreOfHash
=============================================================================
