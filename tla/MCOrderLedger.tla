--------------------------- MODULE MCOrderLedger ---------------------------
(* Small instances of OrderLedger: two orders, three or four calls, and    *)
(* one set of requests per question.                                       *)
EXTENDS OrderLedger, TLC

CONSTANTS o1, o2, i1, i2, i3, k1, k2, k3, c1, c2, c3, c4

MCPrice == (i1 :> 2 @@ i2 :> 1 @@ i3 :> 1)
\* The calls that do not crash are interchangeable.
CallSymmetry == Permutations({c2, c3, c4})

MCOpening == (o1 :> 2 @@ o2 :> 0)
MCOnOrder == (i1 :> o1 @@ i2 :> None @@ i3 :> None)

Base == [op |-> "register", order |-> o1, key |-> k1, target |-> k1, item |-> i1, amount |-> 1,
         approved |-> FALSE, override |-> FALSE]

Charge(o, k, n) == [Base EXCEPT !.order = o, !.key = k, !.amount = n]
Refund(k, t, n) == [Base EXCEPT !.op = "refund", !.key = k, !.target = t, !.amount = n]
Of(op, o) == [Base EXCEPT !.op = op, !.order = o]
Edits(op, i, n, approved) == [Base EXCEPT !.op = op, !.item = i, !.amount = n, !.approved = approved]

\* Cashiers and waiters charging, refunding, editing and closing by hand.
ManualRequests == {Charge(o1, k1, 1), Charge(o1, k2, 2), Charge(o2, k1, 1), Refund(k3, k1, 1), Refund(k2, k1, 1),
                   Edits("addItem", i2, 1, FALSE), Edits("addItem", i3, 1, FALSE),
                   Edits("discount", i1, 1, FALSE), Edits("cancelItem", i1, 1, FALSE),
                   Of("close", o1), Of("writeOff", o1)}

\* Terminals: intents, their queries and cancellations, beside manual charges.
Intent(k, n) == [Charge(o1, k, n) EXCEPT !.op = "intent"]
Ask(op, k) == [Base EXCEPT !.op = op, !.key = k]
TerminalRequests == {Intent(k1, 2), Ask("query", k1), Ask("cancel", k1), Charge(o1, k2, 2),
                     [Charge(o1, k2, 1) EXCEPT !.override = TRUE], Charge(o1, k3, 1),
                     Of("close", o1), Of("writeOff", o1)}

\* Every lock, and the edits an approval applies.
AllOpsRequests == {Charge(o1, k1, 1), Intent(k2, 1), Ask("query", k2), Refund(k3, k1, 1),
                   Edits("addItem", i2, 1, FALSE), Edits("discount", i1, 1, TRUE),
                   Edits("cancelItem", i1, 1, TRUE)}

\* What the disagreement with a test needs.
ApprovedCloseRequests == {Edits("discount", i1, 1, TRUE), Charge(o1, k1, 2), Of("close", o1)}
-----------------------------------------------------------------------------
\* The calls of a behaviour are those of the cashiers and waiters, or those
\* about terminals.
DeskRequests == ManualRequests \cup TerminalRequests

At(desk) == \A c \in Calls : req[c] \in desk \cup {None}

\* The states that are explored: the calls so far are of one desk.
OneDesk == At(ManualRequests) \/ At(TerminalRequests)
=============================================================================
