--------------------------- MODULE MCFiscalQueue ---------------------------
(* Small instances of FiscalQueue: one document, two overlapping passes of *)
(* the worker, one request in flight.                                      *)
EXTENDS FiscalQueue, TLC

CONSTANTS d1, w1, w2, x1

\* The passes are interchangeable.
RunSymmetry == Permutations({w1, w2})

\* The provider reports that it has no result yet.
OneHook == {[id |-> 1, doc |-> d1, status |-> "pending"]}

\* All that may happen is too much for one behaviour, so part of the bounds is
\* used from the start: n requests are left, and what is said of events and
\* faults.
Left(n, events, faults) == InitWith(events, [asks |-> MaxAsks - n, faults |-> MaxFaults - faults, restarts |-> 0])

TreatedAs(outcome) == scenario = [d \in Docs |-> outcome]

\* A document is issued and the webhook answers, or there is a fault (the worker
\* restarts, an operation fails, or a pass is slow and another takes over); its
\* issue has no answer; documents are issued, again or canceled, queried and
\* queued again.
ProgressInit ==
    \/ TreatedAs("authorized") /\ (Left(1, "new", 0) \/ Left(1, "done", 1))
    \/ TreatedAs("unknown") /\ Left(1, "done", 0)
    \/ (TreatedAs("rejected") \/ TreatedAs("not_configured")) /\ Left(2, "done", 0)

ProgressSpec == ProgressInit /\ [][Next]_vars /\ Fairness
=============================================================================
