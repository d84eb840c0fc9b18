------------------------------- MODULE Shares -------------------------------
(***************************************************************************)
(* How cents are divided (money.ts, payment-ledger.ts and                  *)
(* staff-finance.calculations.ts): a bill among people, the amounts of an  *)
(* order among those who served it, the commission of a member over bands. *)
(*                                                                         *)
(* An order is divided by its own rows; a bucket of the shift is the sum   *)
(* of what each order gives to a person.                                   *)
(***************************************************************************)
EXTENDS Integers, Sequences, FiniteSets, FiniteSetsExt

CONSTANTS
    Members,    \* numbers above 0, in the order of their ids
    Items,
    Price,      \* per item
    Author,     \* per item, who registered it, or Nobody
    Modes,      \* "table_responsible", "item_author", "shift_pool"
    Pool,       \* per member, the weight in the pool
    Discounts,
    Policies,   \* of the service charge: [base, bps]
    Manual,     \* service charges set by hand
    Pays,       \* rows of charges, with what was refunded of them
    Bands,      \* of a commission: [start, end, rate], end None when open
    Target, Bonus, FixedRate,
    People,     \* among how many a bill is split
    None

Nobody == 0     \* the bucket of what nobody answers for

VARIABLES
    served,     \* the order: its items, discount, service charge and payment
    result      \* what was calculated of it

shareVars == <<served, result>>

AtLeastZero(n) == IF n > 0 THEN n ELSE 0
Least(m, n) == IF m < n THEN m ELSE n
Sum(f) == MapThenSumSet(LAMBDA x : f[x], DOMAIN f)
-----------------------------------------------------------------------------
\* Half a cent is rounded up.
Rate(amount, bps) == (amount * bps + 5000) \div 10000

SplitAmount(total, parts) ==
    [i \in 1..parts |-> total \div parts + (IF i <= total % parts THEN 1 ELSE 0)]

\* Mutant: each share is rounded by itself.
RoundedShares(total, weight) ==
    LET who == {u \in DOMAIN weight : weight[u] > 0}
        all == MapThenSumSet(LAMBDA u : weight[u], who)
    IN  IF total <= 0 THEN <<>> ELSE [u \in who |-> (2 * total * weight[u] + all) \div (2 * all)]

\* Rounds down, and gives a cent more to those with the largest remainders.
DistributeLargestRemainder(total, weight) ==
    LET who == {u \in DOMAIN weight : weight[u] > 0}
        all == MapThenSumSet(LAMBDA u : weight[u], who)
        cents == [u \in who |-> (total * weight[u]) \div all]
        rest == [u \in who |-> (total * weight[u]) % all]
        before(u) == {v \in who : rest[v] > rest[u] \/ (rest[v] = rest[u] /\ v < u)}
    IN  IF total <= 0 THEN <<>>
        ELSE [u \in who |-> cents[u] + (IF Cardinality(before(u)) < total - Sum(cents) THEN 1 ELSE 0)]

\* What nobody has a weight for is nobody's.
DistributeToBuckets(total, weight) ==
    LET part == DistributeLargestRemainder(total, weight)
    IN  [u \in {Nobody} \cup Members |->
            (IF u \in DOMAIN part THEN part[u] ELSE 0)
            + (IF u = Nobody THEN AtLeastZero(total - Sum(part)) ELSE 0)]
-----------------------------------------------------------------------------
Active == {i \in Items : ~served.canceled[i]}
Total(items) == MapThenSumSet(LAMBDA i : Price[i], items)

Owner(i) ==
    CASE served.mode = "table_responsible" -> served.waiter[i]
      [] served.mode = "item_author" -> Author[i]

\* In a pool, what somebody answers for goes by weight.
PoolWeights(items) ==
    LET owned == Total({i \in items : served.waiter[i] # Nobody \/ Author[i] # Nobody})
        loose == Total(items) - owned
    IN  IF Sum(Pool) <= 0 \/ owned <= 0 THEN [u \in {Nobody} |-> Total(items)]
        ELSE [u \in {Nobody} \cup Members |-> IF u = Nobody THEN Sum(Pool) * loose ELSE Pool[u] * owned]

Weights(items) ==
    IF served.mode = "shift_pool" THEN PoolWeights(items)
    ELSE [u \in {Nobody} \cup Members |-> Total({i \in items : Owner(i) = u})]

\* Of a charge, what its refunds leave; only a confirmed one counts.
Net(p) == IF p.status = "confirmed" THEN AtLeastZero(p.amount - p.refunded) ELSE 0

Received == Net(served.pay) * (IF served.pay.handover \in {"received", "not_required"} THEN 1 ELSE 0)
Pending(u) ==
    IF served.pay.via = "waiter" /\ served.pay.handover \in {"pending", "disputed"} /\ served.pay.by = u
    THEN Net(served.pay) ELSE 0

Payable == AtLeastZero(Total(Active) - served.discount + served.charge)

\* The part of what was received that is service charge.
ServiceReceived ==
    Least(served.charge,
          (Least(Received, Payable) * served.charge)
          \div (IF Payable < 1 THEN 1 ELSE Payable))
NetPaid == AtLeastZero(Least(Received, Payable) - ServiceReceived)

Amounts ==
    [gross |-> Total(Active), canceled |-> Total(Items \ Active),
     discount |-> Least(served.discount, Total(Active)), suggested |-> served.suggested,
     service |-> ServiceReceived, net |-> NetPaid]

\* calculateShiftSettlement, for one served.
CalculateSettlement ==
    LET to(f) == DistributeToBuckets(Amounts[f], Weights(IF f = "canceled" THEN Items \ Active ELSE Active))
        bucket == [f \in DOMAIN Amounts |-> to(f)]
    IN  [u \in {Nobody} \cup Members |->
            [f \in DOMAIN Amounts \cup {"pending"} |-> IF f = "pending" THEN Pending(u) ELSE bucket[f][u]]]
-----------------------------------------------------------------------------
BandEnd(i, base) ==
    IF Bands[i].end # None THEN Bands[i].end
    ELSE IF i = Len(Bands) THEN base ELSE Bands[i + 1].start

InBand(i, base) == AtLeastZero(Least(base, BandEnd(i, base)) - Bands[i].start)

Progressive(base) == Sum([i \in DOMAIN Bands |-> Rate(InBand(i, base), Bands[i].rate)])

WholeBand(base) ==
    LET fits == {i \in DOMAIN Bands :
                    /\ base >= Bands[i].start
                    /\ Bands[i].end = None \/ i = Len(Bands) \/ base < Bands[i].end}
    IN  IF fits = {} THEN 0
        ELSE Rate(base, Bands[CHOOSE i \in fits : \A j \in fits : i <= j].rate)

Models == {"whole_band", "progressive_bands", "target_bonus", "rate_plus_bonus", "fixed_rate"}

BonusOf(base) == IF Target > 0 /\ base >= Target THEN Bonus ELSE 0

CalculateCommission(model, base) ==
    CASE model = "whole_band" -> WholeBand(base)
      [] model = "progressive_bands" -> Progressive(base)
      [] model = "target_bonus" -> BonusOf(base)
      [] model = "rate_plus_bonus" -> Rate(base, FixedRate) + BonusOf(base)
      [] model = "fixed_rate" -> Rate(base, FixedRate)
-----------------------------------------------------------------------------
\* What addItem suggests of what is on the order then: a policy by hand
\* leaves it as it is.
Suggested(policy, subtotal, discount) ==
    CASE policy.base = "manual" -> 0
      [] policy.base = "gross_consumption" -> Rate(subtotal, policy.bps)
      [] OTHER -> Rate(AtLeastZero(subtotal - discount), policy.bps)

\* applyServiceCharge: accepted, set by hand or removed.
ServiceCharges(suggested) == {suggested, 0} \cup Manual

\* Who answered for the items, as far as the mode asks: each by name, only
\* whether anybody did, or not at all.
Answering(mode) ==
    CASE mode = "table_responsible" -> [Items -> {Nobody} \cup Members]
      [] mode = "shift_pool" -> [Items -> {Nobody, CHOOSE u \in Members : TRUE}]
      [] OTHER -> [Items -> {Nobody}]

\* Items are canceled after they were added, a discount may come later, and
\* is never more than what is left.
Init ==
    /\ \E mode \in Modes, canceled \in [Items -> BOOLEAN], discount \in Discounts,
          policy \in Policies, pay \in Pays : \E waiter \in Answering(mode) :
        LET live == {i \in Items : ~canceled[i]} IN
        \E added \in SUBSET Items, early \in {0, discount} :
            /\ live \subseteq added /\ discount <= Total(live)
            /\ \E charge \in ServiceCharges(Suggested(policy, Total(added), early)) :
                  served = [mode |-> mode, waiter |-> waiter, canceled |-> canceled, discount |-> discount,
                            suggested |-> Suggested(policy, Total(added), early), charge |-> charge, pay |-> pay]
    /\ result = None

Settle ==
    /\ result = None
    /\ result' = [kind |-> "settlement", shares |-> CalculateSettlement]
    /\ UNCHANGED served

SplitBill(people) ==
    /\ result = None
    /\ result' = [kind |-> "split", parts |-> SplitAmount(Payable, people)]
    /\ UNCHANGED served

\* What a member was given of sales or of service is the base of a commission.
Accrue(model, u, field) ==
    /\ result # None /\ result.kind = "settlement"
    /\ LET base == result.shares[u][field] IN
       result' = [kind |-> model, base |-> base, cents |-> CalculateCommission(model, base)]
    /\ UNCHANGED served

Next ==
    \/ Settle
    \/ \E people \in People : SplitBill(people)
    \/ \E model \in Models, u \in Members, field \in {"net", "service"} : Accrue(model, u, field)

Spec == Init /\ [][Next]_shareVars
-----------------------------------------------------------------------------
(*                               Properties                                *)

\* The result is one of what can be calculated.
TypeOK ==
    \/ result = None
    \/ result.kind = "settlement" /\ DOMAIN result.shares = {Nobody} \cup Members
    \/ result.kind = "split" /\ \A i \in DOMAIN result.parts : result.parts[i] \in Nat
    \/ result.kind \in Models /\ result.cents \in Nat

\* Every cent of every amount is given to one person, and nobody is given a
\* cent more or less than in proportion.
SharesExact(shares) ==
    \A f \in DOMAIN Amounts :
        LET w == Weights(IF f = "canceled" THEN Items \ Active ELSE Active)
            of(u) == IF u \in DOMAIN w THEN w[u] ELSE 0
            off(u) == shares[u][f] * Sum(w) - Amounts[f] * of(u)
        IN  /\ MapThenSumSet(LAMBDA u : shares[u][f], DOMAIN shares) = Amounts[f]
            /\ Sum(w) > 0 => \A u \in DOMAIN shares : -Sum(w) < off(u) /\ off(u) < Sum(w)

\* What was received is service charge and consumption, up to what the order
\* is worth, and an order paid in full has all of its service charge.
ServiceOnce(shares) ==
    LET all(f) == MapThenSumSet(LAMBDA u : shares[u][f], DOMAIN shares) IN
    /\ all("service") + all("net") = Least(Received, Payable)
    /\ Received >= Payable => all("service") = served.charge

\* A progressive commission pays each cent of its base at the rate of one
\* band, but for the rounding of each band.
BandsExact(base, cents) ==
    LET portions == [i \in DOMAIN Bands |-> {n \in 0..(base - 1) :
                        n >= Bands[i].start /\ (Bands[i].end = None \/ n < Bands[i].end)
                        /\ \A j \in DOMAIN Bands : j > i => n < Bands[j].start}]
        exact == Sum([i \in DOMAIN Bands |-> Cardinality(portions[i]) * Bands[i].rate])
    IN  /\ 2 * (10000 * cents - exact) <= 10000 * Len(Bands)
        /\ 2 * (exact - 10000 * cents) <= 10000 * Len(Bands)

\* No cent is lost, invented or counted twice, however amounts divide.
CentsExact ==
    result # None =>
        CASE result.kind = "settlement" -> SharesExact(result.shares) /\ ServiceOnce(result.shares)
          [] result.kind = "split" ->
                /\ Sum(result.parts) = Payable
                /\ \A i, j \in DOMAIN result.parts : result.parts[i] - result.parts[j] \in {-1, 0, 1}
          [] result.kind = "progressive_bands" -> BandsExact(result.base, result.cents)
          [] OTHER -> TRUE
=============================================================================
