---------------------------- MODULE FiscalQueue ----------------------------
(***************************************************************************)
(* Fiscal documents and the queue of operations that issue, query and      *)
(* cancel them: FiscalService (the requests), the worker's                 *)
(* fiscal-operations.ts (claim under a lease, process, retry, reconcile)   *)
(* and the provider's webhook.                                             *)
(*                                                                         *)
(* The worker process runs processFiscalOperations several times at once   *)
(* (at startup, from the poller, from the queue); an element of Runs is    *)
(* one of them.  A statement outside a transaction is a step; a            *)
(* transaction that reads first is a read step and a write step.           *)
(*                                                                         *)
(* An operation is identified by what its idempotency key is made of: the  *)
(* document, who queued it, and the document's revision where the key has  *)
(* it.  A revision counts the values of updatedAt.                         *)
(***************************************************************************)
EXTENDS Integers, FiniteSets

CONSTANTS
    Docs,         \* fiscal documents
    Scenarios,    \* how the provider may treat a document
    Runs,         \* concurrent passes of the worker over the queue
    Clerks,       \* API calls in flight
    Hooks,        \* webhook events: [id, doc, status]
    MaxAttempts,  \* MAX_ATTEMPTS
    Batch,        \* how many documents the reconciliation looks at
    MaxRevision,  \* bound: revisions of a document, never reached
    MaxRequeue,   \* bound: the last revision an error is queued again for
    MaxAsks,      \* bound: API calls
    MaxFaults,    \* bound: database errors, leases that end while their
                  \* holder is at work, and restarts of the worker
    None

ScenarioNames == {"authorized", "rejected", "unknown", "not_configured"}

DocStatuses == {"absent", "pending", "authorized", "rejected", "canceled", "error"}

HookStatuses == {"authorized", "rejected", "canceled", "pending"}

ASSUME AttemptsAssumption == MaxAttempts \in Nat \ {0}
ASSUME BoundsAssumption == {Batch, MaxRevision, MaxRequeue, MaxAsks, MaxFaults} \subseteq Nat
ASSUME ScenarioAssumption == Scenarios \subseteq ScenarioNames
ASSUME HookAssumption == \A e \in Hooks : e.doc \in Docs /\ e.status \in HookStatuses

Once == {"issue", "cancel", "unknown", "client"}
PerRevision == {"reconcile", "retry"}

Op(d, by, revision) == [doc |-> d, by |-> by, revision |-> revision]

OpIds == [doc : Docs, by : Once, revision : {0}]
             \cup [doc : Docs, by : PerRevision, revision : 1 .. MaxRevision]

ASSUME NoneAssumption == None \notin OpIds \cup Docs

\* "unknown" marks the query that follows an issue without an answer.
Type(i) == IF i.by \in {"issue", "cancel"} THEN i.by ELSE "query"

VARIABLES
    docs,       \* the document rows
    scenario,   \* payload.simulateFiscalScenario and the branch's settings
    ops,        \* the operation rows
    run,        \* the worker's passes
    call,       \* the issue requests in flight
    hook,       \* what became of each webhook event
    used        \* what is used of the bounds

vars == <<docs, scenario, ops, run, call, hook, used>>
-----------------------------------------------------------------------------
NoCall == [doc |-> None, created |-> FALSE]
Resting == [at |-> "idle", op |-> None, attempts |-> 0, mark |-> "error"]
AbsentOp == [status |-> "absent", attempts |-> 0, lease |-> "none"]
QueuedOp == [AbsentOp EXCEPT !.status = "pending"]

\* insert ... on conflict do nothing, on the idempotency key.
InsertAll(rowset, is) == [i \in OpIds |-> IF i \in is /\ rowset[i].status = "absent" THEN QueuedOp ELSE rowset[i]]

Insert(rowset, i) == InsertAll(rowset, {i})

Written(d, status) ==
    docs' = [docs EXCEPT ![d] = [status |-> status, revision |-> docs[d].revision + 1]]

Spend(what) == used' = [used EXCEPT ![what] = @ + 1]

\* Mutant: an operation left "processing" is not looked at again.
ClaimableUnlessProcessing(row) == row.status \in {"pending", "retryable"} /\ row.lease # "held"

Claimable(row) == row.status \in {"pending", "retryable", "processing"} /\ row.lease # "held"

\* Mutant: the claim trusts the candidate it read.
LeaseUnchecked(row, seen) == TRUE

\* The lease, not the status, decides the claim.  A lease taken after the
\* candidate was read ends later than the time the claim compares it with.
LeaseFree(row, seen) == \/ row.lease = "none"
                        \/ row.lease = "expired" /\ row.attempts = seen

\* Mutant: one attempt is missing.
ExhaustedEarly(attempts) == attempts >= MaxAttempts - 1

Exhausted(attempts) == attempts >= MaxAttempts

\* Mutant: one reconciliation query per document.
FirstRevision(d) == 1

ReconcileRevision(d) == docs[d].revision

Settle(i, status) == [ops EXCEPT ![i] = [ops[i] EXCEPT !.status = status, !.lease = "none"]]
-----------------------------------------------------------------------------
(* The API.  createPendingOrderDocumentInTransaction, for an order that is *)
(* paid, reads the document and later writes it whatever became of it.     *)
IssueReads(x) ==
    /\ call[x] = NoCall /\ used.asks < MaxAsks
    /\ \E d \in Docs :
           /\ docs[d].status # "authorized"
           /\ call' = [call EXCEPT ![x] = [doc |-> d, created |-> docs[d].status = "absent"]]
    /\ Spend("asks")
    /\ UNCHANGED <<docs, scenario, ops, run, hook>>

\* A document that another call has created meanwhile fails the insert.
IssueWrites(x) ==
    LET d == call[x].doc IN
    /\ call[x] # NoCall
    /\ \/ /\ call[x].created => docs[d].status = "absent"
          /\ Written(d, "pending")
          /\ ops' = Insert(ops, Op(d, "issue", 0))
       \/ /\ call[x].created /\ docs[d].status # "absent"
          /\ UNCHANGED <<docs, ops>>
    /\ call' = [call EXCEPT ![x] = NoCall]
    /\ UNCHANGED <<scenario, run, hook, used>>

\* The other requests only insert an operation.  They read the document
\* first; to insert late is to insert at once and be claimed late, so each
\* is one step.
Ask(i, allowed) ==
    /\ used.asks < MaxAsks /\ docs[i.doc].status \in allowed
    /\ ops' = Insert(ops, i)
    /\ Spend("asks")
    /\ UNCHANGED <<docs, scenario, run, call, hook>>

Reconcilable == {"pending", "error", "contingency"}

CancelDocument(d) == Ask(Op(d, "cancel", 0), {"authorized"})

QueryDocument(d) == Ask(Op(d, "client", 0), DocStatuses \ {"absent"})

RetryDocument(d) == Ask(Op(d, "retry", docs[d].revision), Reconcilable)

Outstanding == {d \in Docs : docs[d].status \in Reconcilable}

\* reconcilePendingFiscalDocuments looks at a Batch of these, in no order, and
\* queues a query for each unless it did for this revision; a pass that is cut
\* short reaches fewer.
Reconcile(ds) ==
    /\ Cardinality(ds) <= Batch
    /\ ops' = InsertAll(ops, {Op(d, "reconcile", ReconcileRevision(d)) :
                                  d \in {e \in ds : docs[e].status = "error" => docs[e].revision <= MaxRequeue}})
    /\ UNCHANGED <<docs, scenario, run, call, hook, used>>
-----------------------------------------------------------------------------
(* claimFiscalOperation: a select and a conditional update.  Which         *)
(* operation is next depends on the backoff of the others, so any may be.  *)
Select(w) ==
    /\ run[w].at = "idle"
    /\ \E i \in OpIds :
           /\ Claimable(ops[i])
           /\ run' = [run EXCEPT ![w] = [Resting EXCEPT !.at = "selected", !.op = i,
                                                        !.attempts = ops[i].attempts]]
    /\ UNCHANGED <<docs, scenario, ops, call, hook, used>>

Claim(w) ==
    LET i == run[w].op
        attempts == ops[i].attempts + 1
    IN  /\ run[w].at = "selected"
        /\ \/ /\ LeaseFree(ops[i], run[w].attempts)
              /\ ops' = [ops EXCEPT ![i] = [status |-> "processing", attempts |-> attempts, lease |-> "held"]]
              /\ run' = [run EXCEPT ![w] = [run[w] EXCEPT !.at = "claimed", !.attempts = attempts]]
           \/ /\ ~LeaseFree(ops[i], run[w].attempts)
              /\ run' = [run EXCEPT ![w] = Resting]
              /\ UNCHANGED ops
        /\ UNCHANGED <<docs, scenario, call, hook, used>>

\* completeOperation: document and operation in one transaction, neither
\* looked at again.
Complete(w, status) ==
    /\ Written(run[w].op.doc, status)
    /\ ops' = Settle(run[w].op, "succeeded")
    /\ run' = [run EXCEPT ![w] = Resting]

\* The first of the two statements of failClosed and failFiscalOperation;
\* MarkDocument is the second.
Fail(w, status, mark) ==
    /\ ops' = Settle(run[w].op, status)
    /\ run' = [run EXCEPT ![w] = [run[w] EXCEPT !.at = "failed", !.mark = mark]]
    /\ UNCHANGED docs

\* An issue without an answer leaves the document pending and queues the
\* query that will settle it.
LeaveUnknown(w) ==
    LET i == run[w].op IN
    /\ Written(i.doc, "pending")
    /\ ops' = Insert(Settle(i, "succeeded"), Op(i.doc, "unknown", 0))
    /\ run' = [run EXCEPT ![w] = Resting]

\* processClaimedFiscalOperation.
Process(w) ==
    LET i == run[w].op
        outcome == scenario[i.doc]
    IN  /\ run[w].at = "claimed"
        /\ \/ outcome = "not_configured" /\ Fail(w, "failed", "error")
           \/ outcome = "unknown" /\ Type(i) = "issue" /\ LeaveUnknown(w)
           \/ outcome = "rejected" /\ Type(i) = "issue" /\ Complete(w, "rejected")
           \/ outcome # "not_configured" /\ Type(i) = "cancel" /\ Complete(w, "canceled")
           \/ /\ outcome = "authorized" \/ (outcome \in {"unknown", "rejected"} /\ Type(i) = "query")
              /\ Type(i) # "cancel"
              /\ Complete(w, "authorized")
        /\ UNCHANGED <<scenario, call, hook, used>>

FailedStatus(attempts) == IF Exhausted(attempts) THEN "dead_letter" ELSE "retryable"

\* Processing throws: failFiscalOperation, with the attempts of this claim.
Throw(w) ==
    /\ run[w].at = "claimed" /\ used.faults + used.restarts < MaxFaults
    /\ Fail(w, FailedStatus(run[w].attempts), IF Exhausted(run[w].attempts) THEN "error" ELSE "pending")
    /\ Spend("faults")
    /\ UNCHANGED <<scenario, call, hook>>

MarkDocument(w) ==
    /\ run[w].at = "failed"
    /\ Written(run[w].op.doc, run[w].mark)
    /\ run' = [run EXCEPT ![w] = Resting]
    /\ UNCHANGED <<scenario, ops, call, hook, used>>

Holder(w, i) == run[w].at = "claimed" /\ run[w].op = i /\ run[w].attempts = ops[i].attempts

\* Sixty seconds have passed since the claim.
LeaseExpires(i) ==
    /\ ops[i].lease = "held"
    /\ ops' = [ops EXCEPT ![i].lease = "expired"]
    /\ \/ (\A w \in Runs : ~Holder(w, i)) /\ UNCHANGED used
       \/ (\E w \in Runs : Holder(w, i)) /\ used.faults + used.restarts < MaxFaults /\ Spend("faults")
    /\ UNCHANGED <<docs, scenario, run, call, hook>>

\* The worker process ends in the middle of its work and is started again.
Restart ==
    /\ used.faults + used.restarts < MaxFaults
    /\ \E w \in Runs : run[w].at # "idle"
    /\ run' = [w \in Runs |-> Resting]
    /\ Spend("restarts")
    /\ UNCHANGED <<docs, scenario, ops, call, hook>>
-----------------------------------------------------------------------------
(* receiveSimulatorWebhook: one transaction, begun by inserting the event  *)
(* under its id.  A repeated event changes nothing and is left out.        *)
HookReads(e) ==
    LET status == docs[e.doc].status
        blocked == status = "canceled" \/ (status = "authorized" /\ e.status # "canceled")
    IN  /\ hook[e] = "new" /\ status # "absent"
        /\ hook' = [hook EXCEPT ![e] = IF blocked THEN "blocked" ELSE "open"]
        /\ UNCHANGED <<docs, scenario, ops, run, call, used>>

HookWrites(e) ==
    LET settled == IF e.status = "pending" THEN "retryable" ELSE "succeeded" IN
    /\ hook[e] \in {"blocked", "open"}
    /\ \/ hook[e] = "open" /\ Written(e.doc, e.status)
       \/ hook[e] = "blocked" /\ UNCHANGED docs
    /\ ops' = [i \in OpIds |->
                  IF i.doc = e.doc /\ ops[i].status = "processing"
                  THEN [ops[i] EXCEPT !.status = settled, !.lease = "none"] ELSE ops[i]]
    /\ hook' = [hook EXCEPT ![e] = "done"]
    /\ UNCHANGED <<scenario, run, call, used>>
-----------------------------------------------------------------------------
\* With bounds of which something may have been used.
InitWith(events, spent) ==
    /\ docs = [d \in Docs |-> [status |-> "absent", revision |-> 0]]
    /\ scenario \in [Docs -> Scenarios]
    /\ ops = [i \in OpIds |-> AbsentOp]
    /\ run = [w \in Runs |-> Resting]
    /\ call = [x \in Clerks |-> NoCall]
    /\ hook = [e \in Hooks |-> events]
    /\ used = spent

Init == InitWith("new", [asks |-> 0, faults |-> 0, restarts |-> 0])

Work(w) == Select(w) \/ Claim(w) \/ Process(w) \/ Throw(w) \/ MarkDocument(w)

Next ==
    \/ \E x \in Clerks : IssueReads(x) \/ IssueWrites(x)
    \/ \E d \in Docs : CancelDocument(d) \/ QueryDocument(d) \/ RetryDocument(d)
    \/ \E ds \in SUBSET Outstanding : Reconcile(ds)
    \/ \E w \in Runs : Work(w)
    \/ \E i \in OpIds : LeaseExpires(i)
    \/ Restart
    \/ \E e \in Hooks : HookReads(e) \/ HookWrites(e)

Spec == Init /\ [][Next]_vars

\* The pollers start a pass again and again and a pass goes on until it ends;
\* a request or event being handled is handled; a lease ends with time.  What
\* the reconciliation leaves out when there are more documents than a Batch it
\* may leave out every time.
Fairness ==
    /\ \A w \in Runs : WF_vars(Work(w))
    /\ WF_vars(Reconcile(Outstanding))
    /\ \A x \in Clerks : WF_vars(IssueWrites(x))
    /\ \A e \in Hooks : WF_vars(HookWrites(e))
    /\ WF_vars(\E i \in OpIds : LeaseExpires(i))
-----------------------------------------------------------------------------
(*                               Properties                                *)

Live == {"pending", "retryable", "processing"}
Settled == {"succeeded", "failed", "dead_letter"}

\* Rows, passes and calls keep their shape; in particular an operation never
\* takes a status of a document.
TypeOK ==
    /\ docs \in [Docs -> [status : DocStatuses, revision : 0 .. MaxRevision]]
    /\ scenario \in [Docs -> Scenarios]
    /\ ops \in [OpIds -> [status : {"absent"} \cup Live \cup Settled, attempts : Nat,
                          lease : {"none", "held", "expired"}]]
    /\ run \in [Runs -> [at : {"idle", "selected", "claimed", "failed"}, op : OpIds \cup {None},
                         attempts : Nat, mark : {"pending", "error"}]]
    /\ call \in [Clerks -> [doc : Docs \cup {None}, created : BOOLEAN]]
    /\ hook \in [Hooks -> {"new", "blocked", "open", "done"}]

\* A pass takes an operation over only when no lease on it is running,
\* although it chose the operation one statement earlier and passes overlap.
LeaseRespected ==
    [][\A i \in OpIds : ops[i].lease = "held" => ops'[i].attempts = ops[i].attempts]_vars

\* Only an operation that was claimed MaxAttempts times is given up, however
\* failures, late holders, webhooks and restarts mix.
DeadLetterExhausted == \A i \in OpIds : ops[i].status = "dead_letter" => ops[i].attempts >= MaxAttempts

\* A queued operation is settled in the end, even if the worker dies holding
\* it, if its holder is slow, or if a webhook answers in between.
OperationsSettle == \A i \in OpIds : ops[i].status \in Live ~> ops[i].status \in Settled

\* No document stays pending while the worker's process stays up and no more
\* documents are outstanding than the reconciliation looks at: not when its
\* issue had no answer, nor when it is issued again after its issue operation
\* is gone.
DocumentsSettleWhileUp ==
    \A d \in Docs :
        docs[d].status = "pending" ~>
            docs[d].status # "pending" \/ used.restarts > 0 \/ Cardinality(Outstanding) > Batch
=============================================================================
