------------------------ MODULE AdministrationProofs ------------------------
(***************************************************************************)
(* Proofs about what is administered around the service of a branch: for   *)
(* each component of MCAdministration but the Reports an inductive         *)
(* invariant and what follows from it, and at the end that a behaviour of  *)
(* MCAdministration is one of the component in its focus, so that all of   *)
(* it holds there.                                                         *)
(***************************************************************************)
EXTENDS MCAdministration, Sequences, SequenceTheorems, FiniteSetTheorems, TLAPS

-----------------------------------------------------------------------------
(*                             The fiscal queue                            *)

OpRow == [status : {"absent"} \cup Live \cup Settled, attempts : Nat, lease : {"none", "held", "expired"}]

RunRow == [at : {"idle", "selected", "claimed", "failed"}, op : OpIds \cup {None},
           attempts : Nat, mark : {"pending", "error"}]

\* An absent operation is as an insert finds it.
OpsInv == /\ ops \in [OpIds -> OpRow]
          /\ \A i \in OpIds : ops[i].status = "absent" => ops[i] = AbsentOp

\* A pass works on an operation that exists and has seen no more attempts
\* than there are.
RunInv == /\ run \in [Runs -> RunRow]
          /\ \A w \in Runs : run[w].at # "idle" =>
                 /\ run[w].op \in OpIds
                 /\ ops[run[w].op].status # "absent"
                 /\ run[w].attempts <= ops[run[w].op].attempts

IInv == OpsInv /\ RunInv /\ DeadLetterExhausted

\* What every step leaves of an operation.
OpKept(i) ==
    /\ ops'[i].status = "absent" => ops[i].status = "absent" /\ ops'[i] = AbsentOp
    /\ ops'[i].attempts >= ops[i].attempts
    /\ ops[i].lease = "held" => ops'[i].attempts = ops[i].attempts
    /\ ops'[i].status = "dead_letter" => ops[i].status = "dead_letter" \/ ops'[i].attempts >= MaxAttempts

OpsKept == ops' \in [OpIds -> OpRow] /\ \A i \in OpIds : OpKept(i)

\* What every step leaves of a pass.
RunKept(w) ==
    \/ run'[w] = run[w]
    \/ run'[w].at = "idle"
    \/ /\ run'[w].op \in OpIds
       /\ ops'[run'[w].op].status # "absent"
       /\ run'[w].attempts <= ops'[run'[w].op].attempts

RunsKept == run' \in [Runs -> RunRow] /\ \A w \in Runs : RunKept(w)

LEMMA Rows ==
    /\ AbsentOp \in OpRow /\ AbsentOp.status = "absent" /\ AbsentOp.lease = "none" /\ AbsentOp.attempts = 0
    /\ QueuedOp \in OpRow /\ QueuedOp.status = "pending" /\ QueuedOp.attempts = 0
    /\ Resting \in RunRow /\ Resting.at = "idle"
  BY DEF AbsentOp, QueuedOp, Resting, OpRow, RunRow, Live, Settled

LEMMA KeptIsEnough == ASSUME IInv, OpsKept, RunsKept PROVE IInv'
  <1>1. OpsInv'
    BY DEF OpsKept, OpKept, OpsInv
  <1>2. RunInv'
    <2>1. ASSUME NEW w \in Runs, run'[w].at # "idle"
          PROVE  /\ run'[w].op \in OpIds
                 /\ ops'[run'[w].op].status # "absent"
                 /\ run'[w].attempts <= ops'[run'[w].op].attempts
      <3>1. CASE run'[w] = run[w]
        <4>1. /\ run[w].op \in OpIds /\ ops[run[w].op].status # "absent"
              /\ run[w].attempts <= ops[run[w].op].attempts
          BY <2>1, <3>1 DEF IInv, RunInv
        <4>2. OpKept(run[w].op) /\ ops'[run[w].op].attempts \in Nat /\ ops[run[w].op].attempts \in Nat
              /\ run[w].attempts \in Nat
          BY <4>1 DEF OpsKept, OpRow, IInv, OpsInv, RunInv, RunRow
        <4> QED
          BY <3>1, <4>1, <4>2 DEF OpKept
      <3> QED
        BY <2>1, <3>1 DEF RunsKept, RunKept
    <2> QED
      BY <2>1 DEF RunInv, RunsKept
  <1>3. DeadLetterExhausted'
    <2>1. ASSUME NEW i \in OpIds, ops'[i].status = "dead_letter" PROVE ops'[i].attempts >= MaxAttempts
      <3>1. OpKept(i) /\ ops'[i].attempts \in Nat /\ ops[i].attempts \in Nat
        BY DEF OpsKept, OpRow, IInv, OpsInv
      <3> QED
        BY <2>1, <3>1, AttemptsAssumption DEF OpKept, IInv, DeadLetterExhausted
    <2> QED
      BY <2>1 DEF DeadLetterExhausted
  <1> QED
    BY <1>1, <1>2, <1>3 DEF IInv

LEMMA NothingWritten == ASSUME IInv, UNCHANGED ops PROVE OpsKept
  BY DEF IInv, OpsInv, OpsKept, OpKept, OpRow

LEMMA NoPassMoves == ASSUME IInv, UNCHANGED run PROVE RunsKept
  BY DEF IInv, RunInv, RunsKept, RunKept

\* An insert leaves the operations that exist alone.
LEMMA Inserted == ASSUME IInv, NEW is, ops' = InsertAll(ops, is) PROVE OpsKept
  <1>1. ops' = [i \in OpIds |-> IF i \in is /\ ops[i].status = "absent" THEN QueuedOp ELSE ops[i]]
    BY DEF InsertAll
  <1>2. ASSUME NEW i \in OpIds PROVE ops'[i] \in OpRow /\ OpKept(i)
    <2>1. ops[i] \in OpRow /\ (ops[i].status = "absent" => ops[i] = AbsentOp)
      BY DEF IInv, OpsInv
    <2>2. CASE ops[i].status = "absent" /\ ops'[i] = QueuedOp
      BY <2>1, <2>2, Rows DEF OpKept
    <2>3. CASE ops'[i] = ops[i]
      BY <2>1, <2>3 DEF OpKept, OpRow
    <2> QED
      BY <1>1, <2>2, <2>3
  <1>3. ops' = [i \in OpIds |-> ops'[i]]
    BY <1>1
  <1> QED
    BY <1>2, <1>3 DEF OpsKept

\* An operation that exists is written.
LEMMA WrittenOp ==
    ASSUME IInv, NEW i \in OpIds, NEW row \in OpRow, ops' = [ops EXCEPT ![i] = row],
           ops[i].status # "absent", row.status # "absent", row.attempts >= ops[i].attempts,
           ops[i].lease = "held" => row.attempts = ops[i].attempts,
           row.status = "dead_letter" => row.attempts >= MaxAttempts
    PROVE  OpsKept
  <1>1. ops'[i] = row /\ \A j \in OpIds \ {i} : ops'[j] = ops[j]
    BY DEF IInv, OpsInv
  <1>2. ops' \in [OpIds -> OpRow]
    BY DEF IInv, OpsInv
  <1>3. OpKept(i)
    BY <1>1 DEF OpKept
  <1>4. ASSUME NEW j \in OpIds \ {i} PROVE OpKept(j)
    BY <1>1 DEF OpKept, IInv, OpsInv, OpRow
  <1> QED
    BY <1>2, <1>3, <1>4 DEF OpsKept

\* A pass ends its work, or only notes what comes next.
LEMMA PassMoves ==
    ASSUME IInv, OpsKept, NEW w \in Runs, NEW row \in RunRow, run' = [run EXCEPT ![w] = row],
           row.at # "idle" => /\ row.op \in OpIds /\ ops'[row.op].status # "absent"
                              /\ row.attempts <= ops'[row.op].attempts
    PROVE  RunsKept
  <1>1. run'[w] = row /\ \A v \in Runs \ {w} : run'[v] = run[v]
    BY DEF IInv, RunInv
  <1>2. run' \in [Runs -> RunRow]
    BY DEF IInv, RunInv
  <1> QED
    BY <1>1, <1>2 DEF RunsKept, RunKept

LEMMA PassRests == ASSUME IInv, OpsKept, NEW w \in Runs, run' = [run EXCEPT ![w] = Resting] PROVE RunsKept
  BY Rows, PassMoves

\* The operation in hand.
LEMMA InHand ==
    ASSUME IInv, NEW w \in Runs, run[w].at # "idle"
    PROVE  /\ run[w].op \in OpIds /\ run[w] \in RunRow /\ ops[run[w].op] \in OpRow
           /\ ops[run[w].op].status # "absent"
           /\ run[w].attempts <= ops[run[w].op].attempts
  BY DEF IInv, RunInv, OpsInv

LEMMA Settled1 ==
    ASSUME IInv, NEW i \in OpIds, NEW status \in (Live \cup Settled), ops[i].status # "absent",
           ops' = Settle(i, status), status = "dead_letter" => ops[i].attempts >= MaxAttempts
    PROVE  OpsKept /\ ops'[i].status = status
  <1> DEFINE row == [ops[i] EXCEPT !.status = status, !.lease = "none"]
  <1>1. ops[i] \in OpRow
    BY DEF IInv, OpsInv
  <1>2. row \in OpRow /\ row.status = status /\ row.attempts = ops[i].attempts
    BY <1>1 DEF OpRow
  <1>3. status # "absent" /\ ops[i].attempts \in Nat
    BY <1>1 DEF Live, Settled, OpRow
  <1>4. ops' = [ops EXCEPT ![i] = row]
    BY DEF Settle
  <1> HIDE DEF row
  <1>5. /\ row.status # "absent" /\ row.attempts >= ops[i].attempts
        /\ ops[i].lease = "held" => row.attempts = ops[i].attempts
        /\ row.status = "dead_letter" => row.attempts >= MaxAttempts
    BY <1>2, <1>3
  <1>6. OpsKept
    BY <1>2, <1>4, <1>5, WrittenOp
  <1> QED
    BY <1>2, <1>4, <1>6 DEF IInv, OpsInv

LEMMA SelectKeeps == ASSUME IInv, NEW w \in Runs, Select(w) PROVE OpsKept /\ RunsKept
  <1>1. OpsKept /\ UNCHANGED ops
    BY NothingWritten DEF Select
  <1>2. PICK i \in OpIds : /\ Claimable(ops[i])
                           /\ run' = [run EXCEPT ![w] = [Resting EXCEPT !.at = "selected", !.op = i,
                                                                        !.attempts = ops[i].attempts]]
    BY DEF Select
  <1> DEFINE row == [Resting EXCEPT !.at = "selected", !.op = i, !.attempts = ops[i].attempts]
  <1>3. ops[i] \in OpRow /\ ops[i].status # "absent"
    BY <1>2 DEF IInv, OpsInv, Claimable
  <1>4. row \in RunRow /\ row.op = i /\ row.attempts = ops[i].attempts /\ ops[i].attempts \in Nat
    BY <1>3, Rows DEF RunRow, OpRow
  <1>5. run' = [run EXCEPT ![w] = row]
    BY <1>2
  <1> HIDE DEF row
  <1>6. /\ row.op \in OpIds /\ ops'[row.op].status # "absent"
        /\ row.attempts <= ops'[row.op].attempts
    BY <1>1, <1>3, <1>4
  <1> QED
    BY <1>1, <1>4, <1>5, <1>6, PassMoves

LEMMA ClaimKeeps == ASSUME IInv, NEW w \in Runs, Claim(w) PROVE OpsKept /\ RunsKept
  <1> DEFINE i == run[w].op
             attempts == ops[i].attempts + 1
             row == [status |-> "processing", attempts |-> attempts, lease |-> "held"]
             mine == [run[w] EXCEPT !.at = "claimed", !.attempts = attempts]
  <1>1. /\ i \in OpIds /\ run[w] \in RunRow /\ ops[i] \in OpRow /\ ops[i].status # "absent"
    BY InHand DEF Claim
  <1>2. CASE LeaseFree(ops[i], run[w].attempts)
    <2>1. ops' = [ops EXCEPT ![i] = row] /\ run' = [run EXCEPT ![w] = mine]
      BY <1>2 DEF Claim
    <2>2. row \in OpRow /\ attempts >= ops[i].attempts /\ attempts \in Nat
      BY <1>1 DEF OpRow, Live
    <2>3. ops[i].lease # "held"
      BY <1>2 DEF LeaseFree
    <2>4. OpsKept
      BY <1>1, <2>1, <2>2, <2>3, WrittenOp
    <2>5. mine \in RunRow /\ mine.op = i /\ mine.attempts = attempts
      BY <1>1, <2>2 DEF RunRow
    <2>6. ops'[i].status = "processing" /\ ops'[i].attempts = attempts
      BY <1>1, <2>1 DEF IInv, OpsInv
    <2> HIDE DEF mine, attempts
    <2>7. /\ mine.op \in OpIds /\ ops'[mine.op].status # "absent"
          /\ mine.attempts <= ops'[mine.op].attempts
      BY <1>1, <2>2, <2>5, <2>6
    <2>8. RunsKept
      BY <2>1, <2>4, <2>5, <2>7, PassMoves
    <2> QED
      BY <2>4, <2>8
  <1>3. CASE ~LeaseFree(ops[i], run[w].attempts)
    BY <1>3, NothingWritten, PassRests DEF Claim
  <1> QED
    BY <1>2, <1>3

LEMMA CompleteKeeps ==
    ASSUME IInv, NEW w \in Runs, run[w].at # "idle", NEW status, Complete(w, status)
    PROVE  OpsKept /\ RunsKept
  <1>1. OpsKept
    BY InHand, Settled1 DEF Complete, Settled
  <1> QED
    BY <1>1, PassRests DEF Complete

LEMMA FailKeeps ==
    ASSUME IInv, NEW w \in Runs, run[w].at # "idle", NEW status \in (Live \cup Settled),
           NEW mark \in {"pending", "error"}, Fail(w, status, mark),
           status = "dead_letter" => run[w].attempts >= MaxAttempts
    PROVE  OpsKept /\ RunsKept
  <1> DEFINE i == run[w].op
             row == [run[w] EXCEPT !.at = "failed", !.mark = mark]
  <1>1. /\ i \in OpIds /\ run[w] \in RunRow /\ ops[i] \in OpRow
        /\ ops[i].status # "absent" /\ run[w].attempts <= ops[i].attempts
    BY InHand
  <1>2. status = "dead_letter" => ops[i].attempts >= MaxAttempts
    BY <1>1, AttemptsAssumption DEF OpRow, RunRow
  <1>3. OpsKept
    BY <1>1, <1>2, Settled1 DEF Fail
  <1>4. row \in RunRow /\ row.op = i /\ row.attempts = run[w].attempts
    BY <1>1 DEF RunRow
  <1>5. run' = [run EXCEPT ![w] = row]
    BY DEF Fail
  <1>6. ops'[i].status # "absent" /\ ops'[i].attempts >= ops[i].attempts /\ ops'[i].attempts \in Nat
    BY <1>1, <1>3 DEF OpsKept, OpKept, OpRow
  <1> HIDE DEF row
  <1>7. /\ row.op \in OpIds /\ ops'[row.op].status # "absent"
        /\ row.attempts <= ops'[row.op].attempts
    BY <1>1, <1>4, <1>6 DEF RunRow, OpRow
  <1> QED
    BY <1>3, <1>4, <1>5, <1>7, PassMoves

\* The issue is settled and a query inserted: two operations.
LEMMA LeaveUnknownKeeps ==
    ASSUME IInv, NEW w \in Runs, run[w].at # "idle", LeaveUnknown(w)
    PROVE  OpsKept /\ RunsKept
  <1> DEFINE i == run[w].op
             j == Op(i.doc, "unknown", 0)
             row == [ops[i] EXCEPT !.status = "succeeded", !.lease = "none"]
             settled == [ops EXCEPT ![i] = row]
  <1>1. i \in OpIds /\ ops[i] \in OpRow /\ ops[i].status # "absent"
    BY InHand
  <1>2. row \in OpRow /\ row.status = "succeeded" /\ row.attempts = ops[i].attempts
    BY <1>1 DEF OpRow, Settled
  <1>3. ops' = Insert(settled, j)
    BY DEF LeaveUnknown, Settle
  <1> HIDE DEF j, row
  <1>4. /\ settled[i] = row /\ settled \in [OpIds -> OpRow]
        /\ \A k \in OpIds \ {i} : settled[k] = ops[k]
    BY <1>1, <1>2 DEF IInv, OpsInv
  <1>5. OpsKept
    <2> HIDE DEF settled
    <2>1. ops' = [k \in OpIds |-> IF k = j /\ settled[k].status = "absent" THEN QueuedOp ELSE settled[k]]
      BY <1>3 DEF Insert, InsertAll
    <2>2. ASSUME NEW k \in OpIds PROVE ops'[k] \in OpRow /\ OpKept(k)
      <3>1. ops[k] \in OpRow /\ (ops[k].status = "absent" => ops[k] = AbsentOp)
        BY DEF IInv, OpsInv
      <3>2. CASE k = i
        <4>1. ops'[k] = row
          BY <1>2, <1>4, <2>1, <3>2
        <4> QED
          BY <1>1, <1>2, <3>2, <4>1 DEF OpKept, OpRow
      <3>3. CASE k # i /\ ops[k].status = "absent" /\ ops'[k] = QueuedOp
        BY <3>1, <3>3, Rows DEF OpKept
      <3>4. CASE k # i /\ ops'[k] = ops[k]
        BY <3>1, <3>4 DEF OpKept, OpRow
      <3> QED
        BY <1>4, <2>1, <3>2, <3>3, <3>4
    <2>3. ops' = [k \in OpIds |-> ops'[k]]
      BY <2>1
    <2> QED
      BY <2>2, <2>3 DEF OpsKept
  <1> QED
    BY <1>5, PassRests DEF LeaveUnknown

LEMMA ProcessKeeps == ASSUME IInv, NEW w \in Runs, Process(w) PROVE OpsKept /\ RunsKept
  <1>1. run[w].at # "idle"
    BY DEF Process
  <1>2. CASE Fail(w, "failed", "error")
    BY <1>1, <1>2, FailKeeps DEF Settled
  <1>3. CASE LeaveUnknown(w)
    BY <1>1, <1>3, LeaveUnknownKeeps
  <1>4. CASE \E status \in {"rejected", "canceled", "authorized"} : Complete(w, status)
    BY <1>1, <1>4, CompleteKeeps
  <1> QED
    BY <1>2, <1>3, <1>4 DEF Process

LEMMA ThrowKeeps == ASSUME IInv, NEW w \in Runs, Throw(w) PROVE OpsKept /\ RunsKept
  <1> DEFINE status == FailedStatus(run[w].attempts)
             mark == IF Exhausted(run[w].attempts) THEN "error" ELSE "pending"
  <1>1. run[w].at # "idle" /\ Fail(w, status, mark)
    BY DEF Throw
  <1>2. /\ status \in Live \cup Settled /\ mark \in {"pending", "error"}
        /\ status = "dead_letter" => run[w].attempts >= MaxAttempts
    BY DEF FailedStatus, Exhausted, Live, Settled
  <1> HIDE DEF status, mark
  <1> QED
    BY <1>1, <1>2, FailKeeps

LEMMA MarkKeeps == ASSUME IInv, NEW w \in Runs, MarkDocument(w) PROVE OpsKept /\ RunsKept
  BY NothingWritten, PassRests DEF MarkDocument

LEMMA ExpiryKeeps == ASSUME IInv, NEW i \in OpIds, LeaseExpires(i) PROVE OpsKept /\ RunsKept
  <1> DEFINE row == [ops[i] EXCEPT !.lease = "expired"]
  <1>1. ops[i] \in OpRow /\ ops[i].status # "absent"
    BY DEF IInv, OpsInv, LeaseExpires, AbsentOp
  <1>2. row \in OpRow /\ row.status = ops[i].status /\ row.attempts = ops[i].attempts
    BY <1>1 DEF OpRow
  <1>3. ops' = [ops EXCEPT ![i] = row]
    BY DEF LeaseExpires
  <1> HIDE DEF row
  <1>4. /\ row.status # "absent" /\ row.attempts >= ops[i].attempts
        /\ ops[i].lease = "held" => row.attempts = ops[i].attempts
        /\ row.status = "dead_letter" => row.attempts >= MaxAttempts
    BY <1>1, <1>2 DEF OpRow, IInv, DeadLetterExhausted
  <1>5. OpsKept
    BY <1>1, <1>2, <1>3, <1>4, WrittenOp
  <1> QED
    BY <1>5, NoPassMoves DEF LeaseExpires

LEMMA RestartKeeps == ASSUME IInv, Restart PROVE OpsKept /\ RunsKept
  <1>1. run' = [w \in Runs |-> Resting]
    BY DEF Restart
  <1>2. RunsKept
    BY <1>1, Rows DEF RunsKept, RunKept
  <1> QED
    BY <1>2, NothingWritten DEF Restart

\* A webhook settles operations that are processing and writes no attempts.
LEMMA HookWritesKeeps == ASSUME IInv, NEW e, HookWrites(e) PROVE OpsKept /\ RunsKept
  <1> DEFINE settled == IF e.status = "pending" THEN "retryable" ELSE "succeeded"
             Hit(i) == i.doc = e.doc /\ ops[i].status = "processing"
  <1>1. ops' = [i \in OpIds |-> IF Hit(i) THEN [ops[i] EXCEPT !.status = settled, !.lease = "none"]
                                ELSE ops[i]]
    BY DEF HookWrites
  <1>2. settled \in {"retryable", "succeeded"}
    OBVIOUS
  <1> HIDE DEF settled, Hit
  <1>3. ASSUME NEW i \in OpIds PROVE ops'[i] \in OpRow /\ OpKept(i)
    <2>1. ops[i] \in OpRow
      BY DEF IInv, OpsInv
    <2>2. CASE Hit(i)
      <3>1. ops'[i] = [ops[i] EXCEPT !.status = settled, !.lease = "none"]
        BY <1>1, <2>2
      <3>2. /\ ops'[i] \in OpRow /\ ops'[i].attempts = ops[i].attempts
            /\ ops'[i].status \in {"retryable", "succeeded"}
        BY <1>2, <2>1, <3>1 DEF OpRow, Live, Settled
      <3> QED
        BY <2>1, <3>2 DEF OpKept, OpRow
    <2>3. CASE ~Hit(i)
      <3>1. ops'[i] = ops[i]
        BY <1>1, <2>3
      <3> QED
        BY <2>1, <3>1 DEF OpKept, OpRow, IInv, OpsInv
    <2> QED
      BY <2>2, <2>3
  <1>4. OpsKept
    <2>1. ops' = [i \in OpIds |-> ops'[i]]
      BY <1>1
    <2> QED
      BY <1>3, <2>1 DEF OpsKept
  <1> QED
    BY <1>4, NoPassMoves DEF HookWrites

LEMMA RequestKeeps ==
    ASSUME IInv, UNCHANGED run, UNCHANGED ops \/ \E is : ops' = InsertAll(ops, is)
    PROVE  OpsKept /\ RunsKept
  BY Inserted, NothingWritten, NoPassMoves

LEMMA Start == Init => IInv
  BY Rows DEF Init, InitWith, IInv, OpsInv, RunInv, DeadLetterExhausted

LEMMA Step == IInv /\ [Next]_vars => OpsKept /\ RunsKept
  <1> SUFFICES ASSUME IInv, [Next]_vars PROVE OpsKept /\ RunsKept
    OBVIOUS
  <1>1. ASSUME NEW x \in Clerks, IssueReads(x) \/ IssueWrites(x) PROVE OpsKept /\ RunsKept
    BY <1>1, RequestKeeps DEF IssueReads, IssueWrites, Insert
  <1>2. ASSUME NEW d \in Docs, CancelDocument(d) \/ QueryDocument(d) \/ RetryDocument(d)
        PROVE  OpsKept /\ RunsKept
    BY <1>2, RequestKeeps DEF CancelDocument, QueryDocument, RetryDocument, Ask, Insert
  <1>3. ASSUME NEW w \in Runs, Work(w) PROVE OpsKept /\ RunsKept
    BY <1>3, SelectKeeps, ClaimKeeps, ProcessKeeps, ThrowKeeps, MarkKeeps DEF Work
  <1>4. ASSUME NEW e \in Hooks, HookReads(e) \/ HookWrites(e) PROVE OpsKept /\ RunsKept
    BY <1>4, HookWritesKeeps, RequestKeeps DEF HookReads
  <1>5. ASSUME NEW ds \in SUBSET Outstanding, Reconcile(ds) PROVE OpsKept /\ RunsKept
    BY <1>5, RequestKeeps DEF Reconcile
  <1>6. CASE UNCHANGED vars
    BY <1>6, RequestKeeps DEF vars
  <1> QED
    BY <1>1, <1>2, <1>3, <1>4, <1>5, <1>6, ExpiryKeeps, RestartKeeps DEF Next

LEMMA Inductive == IInv /\ [Next]_vars => IInv'
  BY Step, KeptIsEnough

\* failFiscalOperation: an operation in dead letter was claimed MaxAttempts
\* times, for every number of passes, documents, requests and webhooks, even
\* when the pass that gives it up has long lost its lease.
THEOREM GivenUpLast == Spec => []DeadLetterExhausted
  <1>1. IInv => DeadLetterExhausted
    BY DEF IInv
  <1> QED
    BY Start, Inductive, <1>1, PTL DEF Spec

\* claimFiscalOperation: an operation whose lease runs is not taken over,
\* though the candidate was chosen a statement before the claim.
THEOREM LeaseHolds == Spec => LeaseRespected
  <1>1. IInv /\ [Next]_vars
           => [\A i \in OpIds : ops[i].lease = "held" => ops'[i].attempts = ops[i].attempts]_vars
    BY Step DEF OpsKept, OpKept
  <1> QED
    BY Start, Inductive, <1>1, PTL DEF Spec, LeaseRespected

-----------------------------------------------------------------------------
(*                                 Handoffs                                *)

Consumed(h) == handoff[h] # None /\ handoff[h].consumed

\* Who has consumed a handoff is alone in it and did not admit yet; who is
\* about to create one has it for itself.
HandInv ==
    /\ Handing!TypeOK
    /\ Handing!AdmittedOnce
    /\ \A v \in Calls : exchange[v].at = "consumed" =>
          exchange[v].handoff \in Tokens /\ Consumed(exchange[v].handoff) /\ admitted[exchange[v].handoff] = 0
    /\ \A v \in Calls : exchange[v].at = "create" =>
          exchange[v].handoff \in Tokens /\ handoff[exchange[v].handoff] = None
    /\ \A v, w \in Calls : exchange[v].at # "idle" /\ exchange[w].at # "idle"
          /\ exchange[v].handoff = exchange[w].handoff => v = w

LEMMA HandStarts == Handing!Init => HandInv
  BY DEF Handing!Init, HandInv, Handing!TypeOK, Handing!AdmittedOnce, Handing!Idle, Consumed

LEMMA HandIdle == Handing!Idle.at = "idle" /\ Handing!Idle \in [at : {"idle", "create", "consumed"}, handoff : Tokens \cup {None}]
  BY DEF Handing!Idle

HandRow == [expired : BOOLEAN, consumed : BOOLEAN]

\* A row is written to a handoff that has one; none becomes unconsumed.
Rewritten(h) == \E row \in HandRow :
    handoff[h] # None /\ (handoff[h].consumed => row.consumed) /\ handoff' = [handoff EXCEPT ![h] = row]

LEMMA HandRowThere == \A row \in HandRow : row # None
  <1>1. None \notin HandRow
    BY MissingAssumption DEF HandRow
  <1> QED
    BY <1>1

LEMMA HandRewritten ==
    ASSUME HandInv, NEW h \in Tokens, Rewritten(h)
    PROVE  /\ handoff' \in [Tokens -> HandRow \cup {None}]
           /\ \A k \in Tokens : handoff[k] = None <=> handoff'[k] = None
           /\ \A k \in Tokens : Consumed(k) => Consumed(k)'
  <1>1. PICK row \in HandRow : handoff[h] # None /\ (handoff[h].consumed => row.consumed) /\ handoff' = [handoff EXCEPT ![h] = row]
    BY DEF Rewritten
  <1>2. handoff \in [Tokens -> HandRow \cup {None}]
    BY DEF HandInv, Handing!TypeOK, HandRow
  <1>3. row # None
    BY HandRowThere
  <1> QED
    BY <1>1, <1>2, <1>3 DEF Consumed

LEMMA HandStep == ASSUME HandInv, Handing!Next PROVE HandInv'
  <1> USE DEF HandInv, Handing!TypeOK, Handing!AdmittedOnce, Consumed
  <1>1. ASSUME NEW granted \in SUBSET Handing!Codes, NEW revoked \in SUBSET Handing!Codes,
               Handing!ReplaceEntitlements(granted, revoked)
        PROVE HandInv'
    BY <1>1 DEF Handing!ReplaceEntitlements
  <1>2. ASSUME NEW v \in Calls, NEW h \in Tokens, Handing!ReadHandoff(v, h) PROVE HandInv'
    BY <1>2, HandIdle DEF Handing!ReadHandoff
  <1>3. ASSUME NEW v \in Calls, NEW h \in Tokens, Handing!Consume(v, h) PROVE HandInv'
    <2>1. /\ handoff[h] \in HandRow /\ handoff[h].consumed = FALSE /\ handoff[h] # None
          /\ exchange[v].at = "idle"
      BY <1>3, HandIdle DEF Handing!Consume, Handing!Unused, HandRow
    <2>2. PICK row : row = [handoff[h] EXCEPT !.consumed = TRUE]
      OBVIOUS
    <2>3. row \in HandRow /\ row.consumed = TRUE
      BY <2>1, <2>2 DEF HandRow
    <2>4. handoff' = [handoff EXCEPT ![h] = row]
      BY <1>3, <2>2 DEF Handing!Consume
    <2>5. Rewritten(h)
      BY <2>1, <2>3, <2>4 DEF Rewritten
    <2>6. Consumed(h)' /\ admitted[h] = 0
      BY <2>1, <2>3, <2>4, HandRowThere
    <2> HIDE DEF Consumed
    <2>7. /\ handoff' \in [Tokens -> HandRow \cup {None}]
          /\ \A k \in Tokens : handoff[k] = None <=> handoff'[k] = None
          /\ \A k \in Tokens : Consumed(k) => Consumed(k)'
      BY <2>5, HandRewritten
    <2>8. Handing!TypeOK'
      BY <1>3, <2>7 DEF Handing!Consume, HandRow
    <2>9. Handing!AdmittedOnce'
      BY <1>3, <2>7 DEF Handing!Consume, Consumed
    <2>10. ASSUME NEW w \in Calls, exchange'[w].at = "consumed"
           PROVE  (exchange[w].handoff \in Tokens /\ Consumed(exchange[w].handoff) /\ admitted[exchange[w].handoff] = 0)'
      <3>1. CASE w = v
        <4>1. exchange'[w].handoff = h
          BY <1>3, <3>1 DEF Handing!Consume
        <4> QED
          BY <4>1, <2>6, <1>3 DEF Consumed, Handing!Consume
      <3>2. CASE w # v
        <4>1. exchange'[w] = exchange[w] /\ exchange[w].at = "consumed"
          BY <1>3, <2>10, <3>2 DEF Handing!Consume
        <4>2. exchange[w].handoff \in Tokens /\ Consumed(exchange[w].handoff) /\ admitted[exchange[w].handoff] = 0
          BY <4>1
        <4> QED
          BY <4>1, <4>2, <2>7, <1>3 DEF Consumed, Handing!Consume
      <3> QED
        BY <3>1, <3>2
    <2>11. \A w \in Calls : exchange[w].at # "idle" => exchange[w].handoff # h
      BY <2>1 DEF Consumed
    <2> QED
      BY <1>3, <2>1, <2>7, <2>8, <2>9, <2>10, <2>11 DEF Handing!Consume
  <1>4. ASSUME NEW v \in Calls, Handing!CreateHandoff(v) PROVE HandInv'
    BY <1>4, HandIdle, MissingAssumption DEF Handing!CreateHandoff
  <1>5. ASSUME NEW v \in Calls, Handing!Admit(v) PROVE HandInv'
    BY <1>5, HandIdle DEF Handing!Admit
  <1>6. ASSUME NEW v \in Calls, Handing!Fail(v) PROVE HandInv'
    BY <1>6, HandIdle DEF Handing!Fail
  <1>7. ASSUME NEW h \in Tokens, Handing!Expire(h) PROVE HandInv'
    <2>1. handoff[h] \in HandRow /\ handoff[h] # None
      BY <1>7 DEF Handing!Expire, HandRow
    <2>2. PICK row : row = [handoff[h] EXCEPT !.expired = TRUE]
      OBVIOUS
    <2>3. row \in HandRow /\ row.consumed = handoff[h].consumed
      BY <2>1, <2>2 DEF HandRow
    <2>4. Rewritten(h)
      BY <1>7, <2>1, <2>2, <2>3 DEF Rewritten, Handing!Expire
    <2> HIDE DEF Consumed
    <2>7. /\ handoff' \in [Tokens -> HandRow \cup {None}]
          /\ \A k \in Tokens : handoff[k] = None <=> handoff'[k] = None
          /\ \A k \in Tokens : Consumed(k) => Consumed(k)'
      BY <2>4, HandRewritten
    <2>8. Handing!TypeOK'
      BY <1>7, <2>7 DEF Handing!Expire, HandRow
    <2>9. Handing!AdmittedOnce'
      BY <1>7, <2>7 DEF Handing!Expire, Consumed
    <2> QED
      BY <1>7, <2>7, <2>8, <2>9 DEF Handing!Expire
  <1> QED
    BY <1>1, <1>2, <1>3, <1>4, <1>5, <1>6, <1>7 DEF Handing!Next

LEMMA HandInductive == HandInv /\ [Handing!Next]_Handing!handoffVars => HandInv'
  <1>1. ASSUME HandInv, UNCHANGED Handing!handoffVars PROVE HandInv'
    BY <1>1 DEF HandInv, Handing!handoffVars, Handing!TypeOK, Handing!AdmittedOnce, Consumed
  <1> QED
    BY <1>1, HandStep

\* exchange of a handoff: the conditional update consumes its token, so that
\* of any number of exchanges that read it one admits, whatever fails or
\* expires between the statements.
THEOREM HandoffsAdmitOnce == Handing!Spec => []Handing!AdmittedOnce
  <1>1. HandInv => Handing!AdmittedOnce
    BY DEF HandInv
  <1> QED
    BY HandStarts, HandInductive, <1>1, PTL DEF Handing!Spec

-----------------------------------------------------------------------------
(*                                 Backups                                 *)

Metadata == [checksum : Copying!Checksums, validated : BOOLEAN]

Making == {"dump", "dumped", "summed"}
Reading == {"read", "matched", "valid", "restore"}

JobRow == [at : {"idle", "unlink"} \cup Making \cup Reading, backup : Dumps \cup {None},
           read : Metadata \cup {None}, checksum : Copying!Checksums, restores : BOOLEAN]

JobInv(j) ==
    /\ copying[j].at # "idle" => copying[j].backup \in Dumps
    /\ copying[j].at \in Making =>
          copying[j].backup \notin old /\ dump[copying[j].backup] # "absent"
    /\ copying[j].at \in {"dumped", "summed"} => dump[copying[j].backup] # "partial"
    /\ copying[j].at \in Reading =>
          /\ copying[j].read \in Metadata
          /\ metadata[copying[j].backup] # None \/ copying[j].backup \in old
          /\ dump[copying[j].backup] # "partial"
    /\ copying[j].at = "unlink" => copying[j].backup \in old

\* A name is of one dump.
BackupInv ==
    /\ dump \in [Dumps -> Copying!Content \cup {"absent"}]
    /\ metadata \in [Dumps -> Metadata \cup {None}]
    /\ copying \in [Calls -> JobRow]
    /\ \A j \in Calls : JobInv(j)
    /\ \A j, k \in Calls : copying[j].at \in Making /\ copying[k].at \in Making
                              /\ copying[j].backup = copying[k].backup => j = k
    /\ \A b \in Dumps : dump[b] = "partial" => metadata[b] = None
    /\ "partial" \notin restored

LEMMA MetadataThere == \A m \in Metadata : m # None
  <1>1. None \notin Metadata
    BY MissingAssumption DEF Metadata
  <1> QED
    BY <1>1

LEMMA JobIdle == Copying!Idle \in JobRow /\ Copying!Idle.at = "idle"
  BY DEF Copying!Idle, JobRow, Copying!Checksums

LEMMA BackupStarts == Copying!Init => BackupInv
  BY JobIdle DEF Copying!Init, BackupInv, JobInv, Making, Reading

LEMMA BackupStep == ASSUME BackupInv, Copying!Next PROVE BackupInv'
  <1> USE DEF BackupInv
  <1>1. ASSUME NEW j \in Calls, NEW b \in Dumps, Copying!StartBackup(j, b) PROVE BackupInv'
    <2>1. PICK row : row = [Copying!Idle EXCEPT !.at = "dump", !.backup = b]
      OBVIOUS
    <2>2. row \in JobRow /\ row.at = "dump" /\ row.backup = b
      BY <2>1 DEF Copying!Idle, JobRow, Making, Copying!Checksums
    <2>3. copying' = [copying EXCEPT ![j] = row]
      BY <1>1, <2>1 DEF Copying!StartBackup
    <2> QED
      BY <1>1, <2>2, <2>3 DEF Copying!StartBackup, Copying!At, JobInv, Making, Reading, Copying!Content
  <1>2. ASSUME NEW j \in Calls, NEW b \in Dumps, Copying!UnlinkDump(j, b) PROVE BackupInv'
    <2>1. PICK row : row = [Copying!Idle EXCEPT !.at = "unlink", !.backup = b]
      OBVIOUS
    <2>2. row \in JobRow /\ row.at = "unlink" /\ row.backup = b
      BY <2>1 DEF Copying!Idle, JobRow, Making, Copying!Checksums
    <2>3. copying' = [copying EXCEPT ![j] = row]
      BY <1>2, <2>1 DEF Copying!UnlinkDump
    <2> QED
      BY <1>2, <2>2, <2>3 DEF Copying!UnlinkDump, Copying!At, JobInv, Making, Reading, Copying!Content
  <1>3. ASSUME NEW j \in Calls, NEW b \in Dumps, NEW restores \in BOOLEAN, Copying!ReadMetadata(j, b, restores)
        PROVE BackupInv'
    <2>1. PICK row : row = [Copying!Idle EXCEPT !.at = "read", !.backup = b, !.read = metadata[b], !.restores = restores]
      OBVIOUS
    <2>2. row \in JobRow /\ row.at = "read" /\ row.backup = b /\ row.read = metadata[b]
      BY <2>1 DEF Copying!Idle, JobRow, Reading, Copying!Checksums
    <2>3. copying' = [copying EXCEPT ![j] = row]
      BY <1>3, <2>1 DEF Copying!ReadMetadata
    <2> QED
      BY <1>3, <2>2, <2>3 DEF Copying!ReadMetadata, Copying!At, JobInv, Making, Reading, Copying!Content
  <1>4. ASSUME NEW j \in Calls, Copying!EndDump(j) PROVE BackupInv'
    <2>1. PICK row : row = [copying[j] EXCEPT !.at = "dumped"]
      OBVIOUS
    <2>2. row \in JobRow /\ row.at = "dumped" /\ row.backup = copying[j].backup
      BY <2>1 DEF JobRow, Making
    <2>3. copying' = [copying EXCEPT ![j] = row]
      BY <1>4, <2>1 DEF Copying!EndDump
    <2> QED
      BY <1>4, <2>2, <2>3 DEF Copying!EndDump, Copying!At, JobInv, Making, Reading, Copying!Content
  <1>5. ASSUME NEW j \in Calls, Copying!SumBackup(j) PROVE BackupInv'
    <2>1. PICK sum \in Copying!Checksum(copying[j].backup) : copying' = [copying EXCEPT ![j].at = "summed", ![j].checksum = sum]
      BY <1>5 DEF Copying!SumBackup
    <2>2. PICK row : row = [copying[j] EXCEPT !.at = "summed", !.checksum = sum]
      OBVIOUS
    <2>3. copying' = [copying EXCEPT ![j] = row]
      BY <2>1, <2>2
    <2>4. copying[j].at = "dumped" /\ copying[j].backup \in Dumps
      BY <1>5 DEF Copying!SumBackup, Copying!DumpEnded, Copying!At, JobInv
    <2>5. sum \in Copying!Checksums
      BY <2>1, <2>4 DEF Copying!Checksum, Copying!Checksums, Copying!Content, Copying!Exists
    <2>6. row \in JobRow /\ row.at = "summed" /\ row.backup = copying[j].backup
      BY <2>2, <2>5 DEF JobRow, Making
    <2> QED
      <3>1. UNCHANGED <<dump, metadata, old, restored>>
        BY <1>5 DEF Copying!SumBackup
      <3>2. \A k \in Calls \ {j} : copying'[k] = copying[k]
        BY <2>3
      <3>3. copying'[j] = row
        BY <2>3
      <3>4. ASSUME NEW k \in Calls PROVE JobInv(k)'
        <4>1. CASE k = j
          BY <2>4, <2>6, <3>1, <3>3, <4>1 DEF JobInv, Making, Reading
        <4>2. CASE k # j
          BY <3>1, <3>2, <4>2 DEF JobInv
        <4> QED
          BY <4>1, <4>2
      <3>5. \A k, l \in Calls : copying'[k].at \in Making /\ copying'[l].at \in Making
                                /\ copying'[k].backup = copying'[l].backup => k = l
        BY <2>4, <2>6, <3>2, <3>3 DEF Making
      <3> QED
        BY <2>3, <2>6, <3>1, <3>4, <3>5
  <1>6. ASSUME NEW j \in Calls, Copying!RecordBackup(j) PROVE BackupInv'
    <2>1. PICK m : m = [checksum |-> copying[j].checksum, validated |-> FALSE]
      OBVIOUS
    <2>2. m \in Metadata /\ m # None
      BY <2>1, MetadataThere DEF Metadata, JobRow
    <2>3. metadata' = [metadata EXCEPT ![copying[j].backup] = m]
      BY <1>6, <2>1 DEF Copying!RecordBackup
    <2> QED
      <3>1. /\ UNCHANGED <<dump, old, restored>> /\ copying[j].at = "summed"
            /\ copying' = [copying EXCEPT ![j] = Copying!Idle]
        BY <1>6 DEF Copying!RecordBackup, Copying!Ends, Copying!At
      <3>2. copying[j].backup \in Dumps /\ dump[copying[j].backup] # "partial"
        BY <3>1 DEF JobInv, Making
      <3> QED
        BY <2>2, <2>3, <3>1, <3>2, JobIdle DEF JobInv, Making, Reading
  <1>7. ASSUME NEW j \in Calls, Copying!CompareChecksum(j) PROVE BackupInv'
    <2>1. PICK row : row = [copying[j] EXCEPT !.at = "matched"]
      OBVIOUS
    <2>2. row \in JobRow /\ row.at = "matched" /\ row.backup = copying[j].backup /\ row.read = copying[j].read
      BY <2>1 DEF JobRow, Reading
    <2>3. copying' = [copying EXCEPT ![j] = row]
      BY <1>7, <2>1 DEF Copying!CompareChecksum
    <2> QED
      BY <1>7, <2>2, <2>3 DEF Copying!CompareChecksum, Copying!At, JobInv, Making, Reading
  <1>8. ASSUME NEW j \in Calls, Copying!ListArchive(j) PROVE BackupInv'
    <2>1. PICK row : row = [copying[j] EXCEPT !.at = "valid"]
      OBVIOUS
    <2>2. row \in JobRow /\ row.at = "valid" /\ row.backup = copying[j].backup /\ row.read = copying[j].read
      BY <2>1 DEF JobRow, Reading
    <2>3. copying' = [copying EXCEPT ![j] = row]
      BY <1>8, <2>1 DEF Copying!ListArchive
    <2> QED
      BY <1>8, <2>2, <2>3 DEF Copying!ListArchive, Copying!At, JobInv, Making, Reading
  <1>9. ASSUME NEW j \in Calls, Copying!WriteValidated(j) PROVE BackupInv'
    <2>1. PICK row : row = IF copying[j].restores THEN [copying[j] EXCEPT !.at = "restore"] ELSE Copying!Idle
      OBVIOUS
    <2>2. /\ row \in JobRow /\ (row.at = "idle" \/ (row.at = "restore" /\ row.backup = copying[j].backup /\ row.read = copying[j].read))
      BY <2>1, JobIdle DEF JobRow, Reading
    <2>3. copying' = [copying EXCEPT ![j] = row]
      BY <1>9, <2>1 DEF Copying!WriteValidated, Copying!Ends
    <2>4. PICK m : m = [copying[j].read EXCEPT !.validated = TRUE]
      OBVIOUS
    <2>5. copying[j].at = "valid" /\ copying[j].read \in Metadata /\ copying[j].backup \in Dumps
      BY <1>9 DEF Copying!WriteValidated, Copying!At, JobInv, Reading
    <2>6. m \in Metadata /\ m # None
      BY <2>4, <2>5, MetadataThere DEF Metadata
    <2>7. metadata' = [metadata EXCEPT ![copying[j].backup] = m] \/ UNCHANGED metadata
      BY <1>9, <2>4 DEF Copying!WriteValidated
    <2> QED
      BY <1>9, <2>2, <2>3, <2>5, <2>6, <2>7 DEF Copying!WriteValidated, JobInv, Making, Reading
  <1>10. ASSUME NEW j \in Calls, Copying!Restore(j) PROVE BackupInv'
    BY <1>10, JobIdle DEF Copying!Restore, Copying!Ends, Copying!At, JobInv, Making, Reading
  <1>11. ASSUME NEW j \in Calls, Copying!UnlinkMetadata(j) PROVE BackupInv'
    BY <1>11, JobIdle DEF Copying!UnlinkMetadata, Copying!Ends, Copying!At, JobInv, Making, Reading
  <1>12. ASSUME NEW j \in Calls, Copying!Fail(j) PROVE BackupInv'
    BY <1>12, JobIdle DEF Copying!Fail, Copying!Ends, Copying!At, JobInv, Making, Reading
  <1>13. ASSUME NEW b \in Dumps, Copying!GetOld(b) PROVE BackupInv'
    BY <1>13 DEF Copying!GetOld, JobInv, Making, Reading
  <1>14. ASSUME NEW b \in Dumps, Copying!Damage(b) PROVE BackupInv'
    BY <1>14 DEF Copying!Damage, JobInv, Making, Reading, Copying!Content
  <1> QED
    BY <1>1, <1>2, <1>3, <1>4, <1>5, <1>6, <1>7, <1>8, <1>9, <1>10, <1>11, <1>12, <1>13, <1>14 DEF Copying!Next

LEMMA BackupInductive == BackupInv /\ [Copying!Next]_Copying!backupVars => BackupInv'
  <1>1. ASSUME BackupInv, UNCHANGED Copying!backupVars PROVE BackupInv'
    BY <1>1 DEF BackupInv, Copying!backupVars, JobInv
  <1> QED
    BY <1>1, BackupStep

\* restoreBackup: what is restored was a whole dump, for every number of
\* dumps and jobs, though a dump is written, summed, validated, removed and
\* damaged between the statements that look at it.
THEOREM RestoredWasWhole == Copying!Spec => []Copying!RestoredWasComplete
  <1>1. BackupInv => Copying!RestoredWasComplete
    BY DEF BackupInv, Copying!RestoredWasComplete
  <1> QED
    BY BackupStarts, BackupInductive, <1>1, PTL DEF Copying!Spec

-----------------------------------------------------------------------------
(*                                 Tenancy                                 *)

Checkout == Purchases \X {1}

Settings == [checkout : Checkout \cup {None}, notes : Notes \cup {None}, brand : Brands \cup {None}]

IntentRow == [status : {"absent", "pending", "checkout_ready", "paid"}, checkout : Checkout \cup {None}]

Answered == {"settings", "ready", "subscription"}

DutyRow == [at : {"idle", "intent", "request", "support", "brand"} \cup Answered, key : Purchases \cup {None},
            read : Settings \cup {None}, checkout : Checkout \cup {None}]

DutyInv(c) ==
    /\ duty[c].at # "idle" => duty[c].read \in Settings
    /\ duty[c].at \in {"intent", "request"} \cup Answered => duty[c].key \in Purchases
    /\ duty[c].at \in Answered => duty[c].checkout = <<duty[c].key, 1>>
    /\ duty[c].at = "subscription" => intent[duty[c].key].checkout = <<duty[c].key, 1>>

\* A key has one checkout, so that whoever answers for it answers the same.
PurchaseInv ==
    /\ settings \in Settings
    /\ created \in [Purchases -> {0, 1}]
    /\ intent \in [Purchases -> IntentRow]
    /\ \A k \in Purchases : intent[k].checkout \in {None, <<k, 1>>}
    /\ duty \in [Calls -> DutyRow] /\ \A c \in Calls : DutyInv(c)
    /\ subscription = None \/ \E k \in Purchases : subscription = <<k, 1>> /\ intent[k].checkout = subscription

\* What a step leaves of the intents: a checkout once known stays.
IntentsKept ==
    /\ intent' \in [Purchases -> IntentRow]
    /\ \A k \in Purchases : intent'[k].checkout \in {intent[k].checkout, <<k, 1>>}

LEMMA NoDuty == Buying!Nothing \in DutyRow /\ Buying!Nothing.at = "idle"
  BY DEF Buying!Nothing, DutyRow

LEMMA PurchaseStarts == Buying!Init => PurchaseInv
  BY NoDuty DEF Buying!Init, PurchaseInv, Settings, IntentRow, DutyInv, Answered

\* A call gets its next row.
LEMMA DutyStep ==
    ASSUME PurchaseInv, NEW c \in Calls, NEW row \in DutyRow, duty' = [duty EXCEPT ![c] = row],
           row.at # "idle" => row.read \in Settings,
           row.at \in {"intent", "request"} \cup Answered => row.key \in Purchases,
           row.at \in Answered => row.checkout = <<row.key, 1>>,
           row.at = "subscription" => intent'[row.key].checkout = <<row.key, 1>>,
           IntentsKept
    PROVE  duty' \in [Calls -> DutyRow] /\ \A x \in Calls : DutyInv(x)'
  <1>1. duty'[c] = row /\ \A x \in Calls \ {c} : duty'[x] = duty[x]
    BY DEF PurchaseInv
  <1>2. ASSUME NEW x \in Calls PROVE DutyInv(x)'
    <2>1. CASE x = c
      BY <1>1, <2>1 DEF DutyInv
    <2>2. CASE x # c
      <3>1. duty'[x] = duty[x] /\ DutyInv(x)
        BY <1>1, <2>2 DEF PurchaseInv
      <3> QED
        BY <3>1 DEF DutyInv, IntentsKept, Answered
    <2> QED
      BY <2>1, <2>2
  <1> QED
    BY <1>2 DEF PurchaseInv

LEMMA SubscriptionKept ==
    ASSUME PurchaseInv, IntentsKept, subscription' = subscription
    PROVE  /\ \A k \in Purchases : intent'[k].checkout \in {None, <<k, 1>>}
           /\ subscription' = None \/ \E k \in Purchases : subscription' = <<k, 1>> /\ intent'[k].checkout = subscription'
  BY DEF PurchaseInv, IntentsKept

LEMMA IntentsStay == ASSUME PurchaseInv, UNCHANGED intent PROVE IntentsKept
  BY DEF PurchaseInv, IntentsKept

LEMMA PurchaseKeeps == ASSUME PurchaseInv, NEW k \in Purchases, Buying!Purchase(k) PROVE IntentsKept
  <1>1. PICK row : row = [intent[k] EXCEPT !.status = "pending"]
    OBVIOUS
  <1>2. row \in IntentRow /\ row.checkout = intent[k].checkout
    BY <1>1 DEF PurchaseInv, IntentRow
  <1>3. intent' = [intent EXCEPT ![k] = IF intent[k].status = "absent" THEN row ELSE intent[k]]
    BY <1>1 DEF Buying!Purchase
  <1> QED
    BY <1>2, <1>3 DEF PurchaseInv, IntentsKept

LEMMA PurchaseStep == ASSUME PurchaseInv, Buying!Next PROVE PurchaseInv'
  <1>0. /\ duty \in [Calls -> DutyRow] /\ created \in [Purchases -> {0, 1}] /\ settings \in Settings
        /\ \A c \in Calls : DutyInv(c)
    BY DEF PurchaseInv
  <1>1. ASSUME NEW k \in Purchases, Buying!RequestActivation(k) PROVE PurchaseInv'
    <2>1. IntentsKept /\ UNCHANGED <<settings, subscription, created, changes, duty>>
      BY <1>1, PurchaseKeeps DEF Buying!RequestActivation
    <2>2. \A c \in Calls : DutyInv(c)'
      BY <1>0, <2>1 DEF DutyInv, IntentsKept, Answered
    <2> QED
      BY <1>0, <2>1, <2>2, SubscriptionKept DEF PurchaseInv, IntentsKept
  <1>2. ASSUME NEW k \in Purchases, Buying!ReceiveEvent(k) PROVE PurchaseInv'
    <2>1. PICK row : row = [intent[k] EXCEPT !.status = "paid"]
      OBVIOUS
    <2>2. row \in IntentRow /\ row.checkout = intent[k].checkout
      BY <2>1 DEF PurchaseInv, IntentRow
    <2>3. intent' = [intent EXCEPT ![k] = row] /\ UNCHANGED <<settings, subscription, created, changes, duty>>
      BY <1>2, <2>1 DEF Buying!ReceiveEvent
    <2>4. IntentsKept
      BY <2>2, <2>3 DEF IntentsKept, PurchaseInv
    <2>5. \A c \in Calls : DutyInv(c)'
      BY <1>0, <2>3, <2>4 DEF DutyInv, IntentsKept, Answered
    <2> QED
      BY <1>0, <2>3, <2>4, <2>5, SubscriptionKept DEF PurchaseInv, IntentsKept
  <1>3. ASSUME NEW c \in Calls, NEW k \in Purchases, Buying!ReadTenant(c, k) PROVE PurchaseInv'
    <2>1. PICK row : row = [Buying!Nothing EXCEPT !.at = "intent", !.key = k, !.read = settings]
      OBVIOUS
    <2>2. row \in DutyRow /\ row.at = "intent" /\ row.key = k /\ row.read \in Settings
      BY <1>0, <2>1 DEF Buying!Nothing, DutyRow
    <2>3. duty' = [duty EXCEPT ![c] = row] /\ UNCHANGED <<settings, intent, subscription, created, changes>>
      BY <1>3, <2>1 DEF Buying!ReadTenant, Buying!Take
    <2>4. IntentsKept
      BY <2>3, IntentsStay
    <2> QED
      BY <1>0, <2>2, <2>3, <2>4, DutyStep, SubscriptionKept DEF PurchaseInv, IntentsKept, Answered
  <1>4. ASSUME NEW c \in Calls, NEW at \in {"support", "brand"}, Buying!ReadSettings(c, at) PROVE PurchaseInv'
    <2>1. PICK row : row = [Buying!Nothing EXCEPT !.at = at, !.read = settings]
      OBVIOUS
    <2>2. row \in DutyRow /\ row.at = at /\ row.read \in Settings
      BY <1>0, <2>1 DEF Buying!Nothing, DutyRow
    <2>3. duty' = [duty EXCEPT ![c] = row] /\ UNCHANGED <<settings, intent, subscription, created, changes>>
      BY <1>4, <2>1 DEF Buying!ReadSettings, Buying!Take
    <2>4. IntentsKept
      BY <2>3, IntentsStay
    <2> QED
      BY <1>0, <2>2, <2>3, <2>4, DutyStep, SubscriptionKept DEF PurchaseInv, IntentsKept, Answered
  <1>5. ASSUME NEW c \in Calls, Buying!CreateIntent(c) PROVE PurchaseInv'
    <2>1. PICK row : row = [duty[c] EXCEPT !.at = "request"]
      OBVIOUS
    <2>2. duty[c].at = "intent" /\ DutyInv(c)
      BY <1>0, <1>5 DEF Buying!CreateIntent
    <2>3. row \in DutyRow /\ row.at = "request" /\ row.key \in Purchases /\ row.read \in Settings
      BY <1>0, <2>1, <2>2 DEF DutyRow, DutyInv
    <2>4. duty' = [duty EXCEPT ![c] = row] /\ UNCHANGED <<settings, subscription, created, changes>>
      BY <1>5, <2>1 DEF Buying!CreateIntent, Buying!Move
    <2>5. IntentsKept
      BY <1>5, <2>2, PurchaseKeeps DEF Buying!CreateIntent, DutyInv
    <2> QED
      BY <1>0, <2>3, <2>4, <2>5, DutyStep, SubscriptionKept DEF PurchaseInv, IntentsKept, Answered
  <1>6. ASSUME NEW c \in Calls, Buying!CreateCheckout(c) PROVE PurchaseInv'
    <2>1. duty[c].at = "request" /\ duty[c].key \in Purchases /\ duty[c].read \in Settings
      BY <1>0, <1>6 DEF Buying!CreateCheckout, DutyInv
    <2>2. created' = [created EXCEPT ![duty[c].key] = 1] /\ UNCHANGED <<settings, intent, subscription, changes>>
      BY <1>0, <1>6, <2>1 DEF Buying!CreateCheckout, Buying!Checkouts
    <2>3. created'[duty[c].key] = 1
      BY <1>0, <2>1, <2>2
    <2>4. PICK row : row = [duty[c] EXCEPT !.at = "settings", !.checkout = <<duty[c].key, 1>>]
      OBVIOUS
    <2>5. row \in DutyRow /\ row.at = "settings" /\ row.key = duty[c].key /\ row.read \in Settings /\ row.checkout = <<row.key, 1>>
      BY <1>0, <2>1, <2>4 DEF DutyRow, Checkout, Answered
    <2>6. IntentsKept
      BY <2>2, IntentsStay
    <2>7. duty' = [duty EXCEPT ![c] = row] \/ duty' = [duty EXCEPT ![c] = Buying!Nothing]
      BY <1>6, <2>3, <2>4 DEF Buying!CreateCheckout, Buying!Leave
    <2>8. duty' \in [Calls -> DutyRow] /\ \A x \in Calls : DutyInv(x)'
      <3>1. CASE duty' = [duty EXCEPT ![c] = row]
        BY <2>1, <2>5, <2>6, <3>1, DutyStep DEF Answered
      <3>2. CASE duty' = [duty EXCEPT ![c] = Buying!Nothing]
        BY <2>6, <3>2, NoDuty, DutyStep DEF Answered
      <3> QED
        BY <2>7, <3>1, <3>2
    <2> QED
      BY <1>0, <2>2, <2>6, <2>8, SubscriptionKept DEF PurchaseInv, IntentsKept
  <1>7. ASSUME NEW c \in Calls, Buying!WriteSettings(c) PROVE PurchaseInv'
    <2>1. /\ duty[c].at = "settings" /\ duty[c].key \in Purchases /\ duty[c].read \in Settings
          /\ duty[c].checkout = <<duty[c].key, 1>>
      BY <1>0, <1>7 DEF Buying!WriteSettings, DutyInv, Answered
    <2>2. PICK row : row = [duty[c] EXCEPT !.at = "ready"]
      OBVIOUS
    <2>3. /\ row \in DutyRow /\ row.at = "ready" /\ row.key = duty[c].key /\ row.read = duty[c].read
          /\ row.checkout = duty[c].checkout
      BY <1>0, <2>2 DEF DutyRow, Answered
    <2>4. /\ duty' = [duty EXCEPT ![c] = row] /\ UNCHANGED <<intent, subscription, created, changes>>
          /\ settings' = [duty[c].read EXCEPT !.checkout = duty[c].checkout]
      BY <1>7, <2>2 DEF Buying!WriteSettings, Buying!Move
    <2>5. settings' \in Settings
      BY <2>1, <2>4 DEF Settings, Checkout
    <2>6. IntentsKept
      BY <2>4, IntentsStay
    <2>7. duty' \in [Calls -> DutyRow] /\ \A x \in Calls : DutyInv(x)'
      BY <2>1, <2>3, <2>4, <2>6, DutyStep
    <2> QED
      BY <1>0, <2>4, <2>5, <2>6, <2>7, SubscriptionKept DEF PurchaseInv, IntentsKept
  <1>8. ASSUME NEW c \in Calls, Buying!WriteIntent(c) PROVE PurchaseInv'
    <2>1. /\ duty[c].at = "ready" /\ duty[c].key \in Purchases /\ duty[c].read \in Settings
          /\ duty[c].checkout = <<duty[c].key, 1>>
      BY <1>0, <1>8 DEF Buying!WriteIntent, DutyInv, Answered
    <2>2. PICK row : row = [duty[c] EXCEPT !.at = "subscription"]
      OBVIOUS
    <2>3. /\ row \in DutyRow /\ row.at = "subscription" /\ row.key = duty[c].key /\ row.read = duty[c].read
          /\ row.checkout = duty[c].checkout
      BY <1>0, <2>2 DEF DutyRow, Answered
    <2>4. PICK known : known = [status |-> "checkout_ready", checkout |-> duty[c].checkout]
      OBVIOUS
    <2>5. known \in IntentRow /\ known.checkout = <<duty[c].key, 1>>
      BY <2>1, <2>4 DEF IntentRow, Checkout
    <2>6. /\ duty' = [duty EXCEPT ![c] = row] /\ UNCHANGED <<settings, subscription, created, changes>>
          /\ intent' = [intent EXCEPT ![duty[c].key] = known]
      BY <1>8, <2>2, <2>4 DEF Buying!WriteIntent, Buying!Move
    <2>7. IntentsKept /\ intent'[duty[c].key].checkout = <<duty[c].key, 1>>
      BY <2>1, <2>5, <2>6 DEF IntentsKept, PurchaseInv
    <2>8. duty' \in [Calls -> DutyRow] /\ \A x \in Calls : DutyInv(x)'
      BY <2>1, <2>3, <2>6, <2>7, DutyStep
    <2> QED
      BY <1>0, <2>6, <2>7, <2>8, SubscriptionKept DEF PurchaseInv, IntentsKept
  <1>9. ASSUME NEW c \in Calls, Buying!WriteSubscription(c) PROVE PurchaseInv'
    <2>1. /\ duty[c].at = "subscription" /\ duty[c].key \in Purchases /\ duty[c].checkout = <<duty[c].key, 1>>
          /\ intent[duty[c].key].checkout = duty[c].checkout
      BY <1>0, <1>9 DEF Buying!WriteSubscription, DutyInv, Answered
    <2>2. /\ duty' = [duty EXCEPT ![c] = Buying!Nothing] /\ UNCHANGED <<settings, intent, created, changes>>
          /\ subscription' = duty[c].checkout
      BY <1>9 DEF Buying!WriteSubscription, Buying!Leave
    <2>3. IntentsKept
      BY <2>2, IntentsStay
    <2>4. duty' \in [Calls -> DutyRow] /\ \A x \in Calls : DutyInv(x)'
      BY <2>2, <2>3, NoDuty, DutyStep DEF Answered
    <2> QED
      BY <1>0, <2>1, <2>2, <2>4 DEF PurchaseInv
  <1>10. ASSUME NEW c \in Calls, NEW at \in {"support", "brand"}, NEW s \in Settings, Buying!UpdateSettings(c, at, s)
         PROVE PurchaseInv'
    <2>1. duty' = [duty EXCEPT ![c] = Buying!Nothing] /\ settings' = s /\ UNCHANGED <<intent, subscription, created>>
      BY <1>10 DEF Buying!UpdateSettings, Buying!Leave
    <2>2. IntentsKept
      BY <2>1, IntentsStay
    <2>3. duty' \in [Calls -> DutyRow] /\ \A x \in Calls : DutyInv(x)'
      BY <2>1, <2>2, NoDuty, DutyStep DEF Answered
    <2> QED
      BY <1>0, <2>1, <2>2, <2>3, SubscriptionKept DEF PurchaseInv, IntentsKept
  <1>11. ASSUME NEW c \in Calls, Buying!UpdateTenantSupport(c) PROVE PurchaseInv'
    <2>1. PICK n \in Notes : Buying!UpdateSettings(c, "support", [duty[c].read EXCEPT !.notes = n])
      BY <1>11 DEF Buying!UpdateTenantSupport
    <2>2. duty[c].read \in Settings
      BY <1>0, <2>1 DEF Buying!UpdateSettings, DutyInv
    <2>3. [duty[c].read EXCEPT !.notes = n] \in Settings
      BY <2>2 DEF Settings
    <2> QED
      BY <2>1, <2>3, <1>10
  <1>12. ASSUME NEW c \in Calls, Buying!UpdateBranding(c) PROVE PurchaseInv'
    <2>1. PICK b \in Brands : Buying!UpdateSettings(c, "brand", [duty[c].read EXCEPT !.brand = b])
      BY <1>12 DEF Buying!UpdateBranding
    <2>2. duty[c].read \in Settings
      BY <1>0, <2>1 DEF Buying!UpdateSettings, DutyInv
    <2>3. [duty[c].read EXCEPT !.brand = b] \in Settings
      BY <2>2 DEF Settings
    <2> QED
      BY <2>1, <2>3, <1>10
  <1>13. ASSUME NEW c \in Calls, Buying!Stop(c) PROVE PurchaseInv'
    <2>1. duty' = [duty EXCEPT ![c] = Buying!Nothing] /\ UNCHANGED <<settings, intent, subscription, created, changes>>
      BY <1>13 DEF Buying!Stop, Buying!Leave
    <2>2. IntentsKept
      BY <2>1, IntentsStay
    <2>3. duty' \in [Calls -> DutyRow] /\ \A x \in Calls : DutyInv(x)'
      BY <2>1, <2>2, NoDuty, DutyStep DEF Answered
    <2> QED
      BY <1>0, <2>1, <2>2, <2>3, SubscriptionKept DEF PurchaseInv, IntentsKept
  <1> QED
    BY <1>1, <1>2, <1>3, <1>4, <1>5, <1>6, <1>7, <1>8, <1>9, <1>11, <1>12, <1>13 DEF Buying!Next

LEMMA PurchaseInductive == PurchaseInv /\ [Buying!Next]_Buying!tenancyVars => PurchaseInv'
  <1>1. ASSUME PurchaseInv, UNCHANGED Buying!tenancyVars PROVE PurchaseInv'
    BY <1>1 DEF PurchaseInv, Buying!tenancyVars, DutyInv
  <1> QED
    BY <1>1, PurchaseStep

\* prepareAsaasCheckout: however often a purchase is asked for with its key,
\* and wherever a request ends, the provider knows one checkout of it, and
\* the intent, the settings and the subscription name that one.
THEOREM PurchaseHasOneCheckout == Buying!Spec => []Buying!OneCheckout
  <1>1. PurchaseInv => Buying!OneCheckout
    BY DEF PurchaseInv, Buying!OneCheckout
  <1> QED
    BY PurchaseStarts, PurchaseInductive, <1>1, PTL DEF Buying!Spec

-----------------------------------------------------------------------------
(*                               BranchSetup                               *)

\* The version counts the changes: an update replaces the version it names,
\* an insert meets no row.
SavesInv == saved \in Nat /\ payment.version = saved

LEMMA SavesStart == Configuring!Init => SavesInv
  BY DEF Configuring!Init, SavesInv

LEMMA SavesInductive == SavesInv /\ [Configuring!Next]_Configuring!setupVars => SavesInv'
  <1>1. ASSUME SavesInv, UNCHANGED <<payment, saved>> PROVE SavesInv'
    BY <1>1 DEF SavesInv
  <1>2. ASSUME SavesInv, NEW c \in Calls, Configuring!WriteSettings(c) PROVE SavesInv'
    BY <1>2 DEF SavesInv, Configuring!WriteSettings, Configuring!Current
  <1>3. ASSUME SavesInv, Configuring!Next PROVE SavesInv'
    <2>1. ASSUME NEW c \in Calls, NEW m \in Modes, Configuring!LoadSettings(c, m) PROVE SavesInv'
      BY <1>1, <1>3, <2>1 DEF Configuring!LoadSettings
    <2>2. ASSUME NEW c \in Calls, Configuring!WriteDevice(c) PROVE SavesInv'
      BY <1>1, <1>3, <2>2 DEF Configuring!WriteDevice
    <2>3. ASSUME NEW c \in Calls, Configuring!ReadSettings(c) PROVE SavesInv'
      BY <1>1, <1>3, <2>3 DEF Configuring!ReadSettings
    <2>4. CASE Configuring!ToggleEntitled
      BY <1>1, <1>3, <2>4 DEF Configuring!ToggleEntitled
    <2>5. ASSUME NEW c \in Calls, NEW d \in FormDevices, Configuring!ReadDevice(c, d) PROVE SavesInv'
      BY <1>1, <1>3, <2>5 DEF Configuring!ReadDevice
    <2>6. ASSUME NEW d \in FormDevices, NEW kind, NEW p, Configuring!RegisterDevice(d, kind, p) PROVE SavesInv'
      BY <1>1, <1>3, <2>6 DEF Configuring!RegisterDevice
    <2>7. ASSUME NEW d \in FormDevices, NEW counts, Configuring!RevokeDevice(d, counts, MaxVersion) PROVE SavesInv'
      BY <1>1, <1>3, <2>7 DEF Configuring!RevokeDevice
    <2>8. ASSUME NEW p \in FormPrinters,
                 Configuring!CreatePrinter(p) \/ \E t, s : Configuring!CreateRoute(p, t, s)
          PROVE  SavesInv'
      BY <1>1, <1>3, <2>8 DEF Configuring!CreatePrinter, Configuring!CreateRoute
    <2> QED
      BY <1>2, <1>3, <2>1, <2>2, <2>3, <2>4, <2>5, <2>6, <2>7, <2>8 DEF Configuring!Next
  <1> QED
    BY <1>1, <1>3 DEF Configuring!setupVars

\* update of payment-settings.service: each save that was answered has its
\* version, of those that met, on an update or on the insert, one was refused.
THEOREM EverySaveHasItsVersion == Configuring!Spec => []Configuring!EachSaveCounts
  <1>1. SavesInv => Configuring!EachSaveCounts
    BY DEF SavesInv, Configuring!EachSaveCounts
  <1> QED
    BY SavesStart, SavesInductive, <1>1, PTL DEF Configuring!Spec

DeviceRow == [status : {"absent", "active", "revoked"}, kind : Equipping!Kinds \cup {None},
              printer : Printers \cup {None}, seen : BOOLEAN, version : Nat]

DeviceInv == device \in [Devices -> DeviceRow] /\ printer \subseteq Printers

\* A step leaves the devices rows, and does not take a revocation back.
DevicesKept == DeviceInv' /\ Equipping!RevokedStays

\* One device is given another row, which is revoked if it was.
LEMMA DeviceWritten ==
    ASSUME DeviceInv, NEW d, NEW row \in DeviceRow, device' = [device EXCEPT ![d] = row], UNCHANGED printer,
           d \in Devices => (device[d].status = "revoked" => row.status = "revoked")
    PROVE  DevicesKept
  BY DEF DeviceInv, DevicesKept, Equipping!RevokedStays

LEMMA DevicesStay == ASSUME DeviceInv, UNCHANGED device, printer' \subseteq Printers PROVE DevicesKept
  BY DEF DeviceInv, DevicesKept, Equipping!RevokedStays

LEMMA DeviceStep == ASSUME DeviceInv, Equipping!Next PROVE DevicesKept
  <1> USE DEF DeviceInv
  <1>1. ASSUME NEW p \in Printers, Equipping!CreatePrinter(p) PROVE DevicesKept
    BY <1>1, DevicesStay DEF Equipping!CreatePrinter
  <1>2. ASSUME NEW p \in Printers, NEW t \in Equipping!Targets, NEW s \in SUBSET Categories, Equipping!CreateRoute(p, t, s)
        PROVE DevicesKept
    BY <1>2, DevicesStay DEF Equipping!CreateRoute
  <1>3. ASSUME NEW d \in Devices, NEW kind \in Equipping!Kinds, NEW p \in printer \cup {None},
               Equipping!RegisterDevice(d, kind, p)
        PROVE DevicesKept
    <2>1. PICK row : row = [device[d] EXCEPT !.status = "active", !.kind = kind, !.printer = p]
      OBVIOUS
    <2>2. row \in DeviceRow
      BY <2>1 DEF DeviceRow
    <2>3. device' = [device EXCEPT ![d] = row] /\ UNCHANGED printer /\ device[d].status = "absent"
      BY <1>3, <2>1 DEF Equipping!RegisterDevice
    <2> QED
      BY <2>2, <2>3, DeviceWritten
  <1>4. ASSUME NEW d \in Devices, NEW counts \in BOOLEAN, Equipping!RevokeDevice(d, counts, MaxVersion)
        PROVE DevicesKept
    <2>0. PICK n \in Nat : n = device[d].version + (IF counts THEN 1 ELSE 0)
      BY DEF DeviceRow
    <2>1. PICK row : row = [device[d] EXCEPT !.status = "revoked", !.version = n]
      OBVIOUS
    <2>2. row \in DeviceRow /\ row.status = "revoked"
      BY <2>1 DEF DeviceRow
    <2>3. device' = [device EXCEPT ![d] = row] /\ UNCHANGED printer
      BY <1>4, <2>0, <2>1 DEF Equipping!RevokeDevice
    <2> QED
      BY <2>2, <2>3, DeviceWritten
  <1>5. ASSUME NEW c \in Calls, Equipping!WriteDevice(c) PROVE DevicesKept
    <2>1. device' = [device EXCEPT ![chore[c].device] = [device[chore[c].device] EXCEPT !.seen = TRUE]] /\ UNCHANGED printer
      BY <1>5 DEF Equipping!WriteDevice, Equipping!Seen
    <2>2. CASE chore[c].device \in Devices
      <3>1. PICK row : row = [device[chore[c].device] EXCEPT !.seen = TRUE]
        OBVIOUS
      <3>2. row \in DeviceRow /\ row.status = device[chore[c].device].status
        BY <2>2, <3>1 DEF DeviceRow
      <3> QED
        BY <2>1, <3>1, <3>2, DeviceWritten
    <2>3. CASE chore[c].device \notin Devices
      <3>1. device' = device
        BY <2>1, <2>3
      <3> QED
        BY <2>1, <3>1, DevicesStay
    <2> QED
      BY <2>2, <2>3
  <1>6. ASSUME UNCHANGED <<device, printer>> PROVE DevicesKept
    BY <1>6, DevicesStay
  <1>7. ASSUME NEW c \in Calls, NEW d \in Devices, Equipping!ReadDevice(c, d) PROVE DevicesKept
    BY <1>6, <1>7 DEF Equipping!ReadDevice
  <1>8. ASSUME NEW c \in Calls, NEW m \in DeviceModes, Equipping!LoadSettings(c, m) PROVE DevicesKept
    BY <1>6, <1>8 DEF Equipping!LoadSettings
  <1>9. ASSUME NEW c \in Calls, Equipping!ReadSettings(c) PROVE DevicesKept
    BY <1>6, <1>9 DEF Equipping!ReadSettings
  <1>10. ASSUME NEW c \in Calls, Equipping!WriteSettings(c) PROVE DevicesKept
    BY <1>6, <1>10 DEF Equipping!WriteSettings
  <1>11. CASE Equipping!ToggleEntitled
    BY <1>6, <1>11 DEF Equipping!ToggleEntitled
  <1> QED
    BY <1>1, <1>2, <1>3, <1>4, <1>5, <1>7, <1>8, <1>9, <1>10, <1>11 DEF Equipping!Next

LEMMA DevicesStart == Equipping!Init => DeviceInv
  BY DEF Equipping!Init, DeviceInv, DeviceRow, Equipping!Unregistered

LEMMA DeviceKeeps == DeviceInv /\ [Equipping!Next]_Equipping!setupVars => DevicesKept
  BY DeviceStep, DevicesStay DEF DeviceInv, Equipping!setupVars

\* revokeDevice: no registration, heartbeat or login of a device, whatever it
\* read before, makes one active that was revoked.
THEOREM RevokedDevicesStay == Equipping!Spec => [][Equipping!RevokedStays]_Equipping!setupVars
  BY DevicesStart, DeviceKeeps, PTL DEF Equipping!Spec, DevicesKept

-----------------------------------------------------------------------------
(*                                Onboarding                               *)

\* Who updates a step has seen its row.
OpeningInv ==
    /\ DOMAIN step = Steps /\ DOMAIN opening = Calls
    /\ \A c \in Calls : opening[c].at = "update" => opening[c].found

\* The step that a request is about; the others stay.
OneStep(c) ==
    /\ DOMAIN step' = Steps
    /\ \A k \in Steps : k # opening[c].key => step'[k] = step[k]

LEMMA OpeningStep == ASSUME OpeningInv, Starting!Next PROVE OpeningInv' /\ Starting!StepsKept
  <1> USE DEF OpeningInv, Starting!StepsKept
  <1>1. ASSUME NEW c \in Calls, NEW k \in Steps, Starting!ReadDefault(c, k) PROVE OpeningInv' /\ Starting!StepsKept
    BY <1>1 DEF Starting!ReadDefault
  <1>2. ASSUME NEW c \in Calls, NEW k \in Steps, NEW status, Starting!ReadStep(c, k, status)
        PROVE  OpeningInv' /\ Starting!StepsKept
    BY <1>2 DEF Starting!ReadStep
  <1>3. ASSUME NEW c \in Calls, Starting!InsertStep(c) PROVE OpeningInv' /\ Starting!StepsKept
    BY <1>3 DEF Starting!InsertStep, Starting!RowFree, Starting!Idle
  <1>4. ASSUME NEW c \in Calls, Starting!UpdateStep(c) PROVE OpeningInv' /\ Starting!StepsKept
    BY <1>4 DEF Starting!UpdateStep, Starting!Idle
  <1>5. ASSUME NEW c \in Calls, Starting!Fail(c) PROVE OpeningInv' /\ Starting!StepsKept
    BY <1>5 DEF Starting!Fail, Starting!Idle
  <1>6. ASSUME NEW r, Starting!Change(r) PROVE OpeningInv' /\ Starting!StepsKept
    BY <1>6 DEF Starting!Change
  <1> QED
    BY <1>1, <1>2, <1>3, <1>4, <1>5, <1>6 DEF Starting!Next

StepsDone == {k \in Steps : Starting!Shown(k) \in {"completed", "skipped"}}

\* What is complete stays complete with more rows.
LEMMA MoreIsShown ==
    ASSUME there \subseteq there', step' = step, NEW k \in Steps, Starting!Shown(k) \in {"completed", "skipped"}
    PROVE  Starting!Shown(k)' \in {"completed", "skipped"} /\ (Starting!Shown(k) = "completed" => Starting!Shown(k)' = "completed")
  <1>1. Starting!AutoDone(k) => Starting!AutoDone(k)'
    BY DEF Starting!AutoDone
  <1> QED
    BY <1>1 DEF Starting!Shown

\* SetupHelps holds of any two states: it is about what buildStatus shows.
LEMMA SetupAlwaysHelps == Starting!SetupHelps
  <1> SUFFICES ASSUME there \subseteq there', step' = step
               PROVE  /\ Starting!Progress <= Starting!Progress'
                      /\ Starting!Readiness = "ready" => Starting!Readiness' = "ready"
    BY DEF Starting!SetupHelps
  <1>1. Starting!Progress <= Starting!Progress'
    <2>1. StepsDone \subseteq StepsDone'
      BY MoreIsShown DEF StepsDone
    <2>2. IsFiniteSet(StepsDone')
      BY StepsAssumption, FS_Subset DEF StepsDone
    <2>3. Cardinality(StepsDone) <= Cardinality(StepsDone')
      BY <2>1, <2>2, FS_Subset, FS_CardinalityType
    <2>4. Starting!Progress = Cardinality(StepsDone)
      BY DEF Starting!Progress, StepsDone, Starting!Cardinality, Cardinality
    <2>5. Starting!Progress' = Cardinality(StepsDone')
      BY DEF Starting!Progress, StepsDone, Starting!Cardinality, Cardinality
    <2> QED
      BY <2>3, <2>4, <2>5
  <1>2. ASSUME Starting!Readiness = "ready" PROVE Starting!Readiness' = "ready"
    <2>1. Starting!RequiredReady /\ Starting!Blockers = {}
      BY <1>2 DEF Starting!Readiness
    <2>2. Starting!RequiredReady'
      BY <2>1, MoreIsShown DEF Starting!RequiredReady
    <2>3. (Starting!Blockers)' = {}
      BY <2>1 DEF Starting!Blockers
    <2> QED
      BY <2>2, <2>3 DEF Starting!Readiness
  <1> QED
    BY <1>1, <1>2

LEMMA OpeningStarts == Starting!Init => OpeningInv
  BY DEF Starting!Init, OpeningInv, Starting!Idle

LEMMA OpeningKeeps ==
    OpeningInv /\ [Starting!Next]_Starting!onboardingVars => OpeningInv' /\ Starting!StepsKept
  BY OpeningStep DEF OpeningInv, Starting!onboardingVars, Starting!StepsKept

\* updateStep and getStatus: a step that a person set is not undone by the
\* defaults that a reader inserts, and what is set up in the branch never
\* takes its progress or its readiness back, for every list of steps.
THEOREM StepsStayAndSetupHelps ==
    Starting!Spec => [][Starting!StepsKept /\ Starting!SetupHelps]_Starting!onboardingVars
  BY OpeningStarts, OpeningKeeps, SetupAlwaysHelps, PTL DEF Starting!Spec

-----------------------------------------------------------------------------
(*                                Connectors                               *)

States == {"absent", "active", "disabled", "homologation", "degraded", "revoked"}

Configs == [branch : Branches \cup {None}, seen : {"not_paired", "open", "closed"}, version : Nat]

AccountRow == [status : States, key : Nat, config : Configs]

Writes == {"configure", "transition"}

VisitRow == [at : {"away", "connected", "beat"} \cup Writes, of : Connecting!Accounts \cup {None},
             status : States \cup {None}, key : Nat, config : Configs \cup {None}]

\* What a request is to write is there.
VisitReady(v) ==
    /\ v.at \in Writes \cup {"connected", "beat"} => v.of \in Connecting!Accounts
    /\ v.at \in Writes => v.status \in States
    /\ v.at \in Writes \cup {"beat"} => v.config \in Configs
    /\ v.at = "configure" /\ v.of = "club" => v.status = "homologation"

\* A key that waits to be written is new to its account.
KeyWaits(c) == visit[c].at = "configure" /\ visit[c].key # 0

KeyNew(c) ==
    KeyWaits(c) => visit[c].key \notin retired[visit[c].of] /\ visit[c].key # account[visit[c].of].key

ConnectorTypes ==
    /\ issued \in Nat
    /\ account \in [Connecting!Accounts -> AccountRow]
    /\ retired \in [Connecting!Accounts -> SUBSET (Nat \ {0})]
    /\ visit \in [Calls -> VisitRow]
    /\ \A c \in Calls : VisitReady(visit[c])

\* Keys are numbered in the order of their issue.
KeysIssued ==
    /\ \A a \in Connecting!Accounts : account[a].key <= issued /\ \A k \in retired[a] : k <= issued
    /\ \A c \in Calls : visit[c].key <= issued

\* A key is handed out once.
KeysNew ==
    /\ \A a \in Connecting!Accounts : account[a].key \notin retired[a]
    /\ \A c \in Calls : KeyNew(c)
    /\ \A c, d \in Calls : KeyWaits(c) /\ KeyWaits(d) /\ visit[c].key = visit[d].key => c = d

\* A transition of the lifecycle is alone, and does not start from a
\* revocation.
TransitionAlone ==
    /\ \A c, d \in Calls : visit[c].at = "transition" /\ visit[d].at = "transition" => c = d
    /\ \A c \in Calls : visit[c].at = "transition" =>
          visit[c].of = "club" /\ account["club"].status # "revoked"

ConnectorInv == ConnectorTypes /\ KeysIssued /\ KeysNew /\ TransitionAlone

\* What every step keeps.
ConnectorsKept == ConnectorInv' /\ Connecting!RevokedIsConfiguredFirst

LEMMA GoneRow == Connecting!Gone \in VisitRow /\ Connecting!Gone.at = "away" /\ Connecting!Gone.key = 0
  BY DEF Connecting!Gone, VisitRow, Writes

LEMMA ClubIsAccount == "club" \in Connecting!Accounts
  BY DEF Connecting!Accounts

LEMMA ConnectorStarts == Connecting!Init => ConnectorInv
  BY GoneRow DEF Connecting!Init, ConnectorInv, ConnectorTypes, KeysIssued, KeysNew, KeyNew, KeyWaits, TransitionAlone,
     AccountRow, Configs, States, Connecting!NoAccount, Connecting!Bare, VisitReady, Writes

\* A request that is given another row, and writes no account.
LEMMA Visited ==
    ASSUME ConnectorInv, NEW c \in Calls, NEW v \in VisitRow, VisitReady(v),
           visit' = [visit EXCEPT ![c] = v], UNCHANGED <<account, issued, retired>>,
           v.at # "configure", v.key \in {0, visit[c].key},
           v.at = "transition" =>
              /\ \A d \in Calls : visit[d].at # "transition"
              /\ v.of = "club" /\ account["club"].status # "revoked"
    PROVE  ConnectorsKept
  <1> USE DEF ConnectorInv
  <1>1. ConnectorTypes'
    BY DEF ConnectorTypes
  <1>2. KeysIssued'
    BY DEF ConnectorTypes, KeysIssued
  <1>3. KeysNew'
    <2>1. \A d \in Calls : KeyWaits(d)' => KeyWaits(d) /\ visit'[d] = visit[d]
      BY DEF ConnectorTypes, KeyWaits
    <2> QED
      BY <2>1 DEF KeysNew, KeyNew
  <1>4. TransitionAlone'
    BY DEF TransitionAlone, ConnectorTypes
  <1>5. Connecting!RevokedIsConfiguredFirst
    BY DEF Connecting!RevokedIsConfiguredFirst
  <1> QED
    BY <1>1, <1>2, <1>3, <1>4, <1>5 DEF ConnectorsKept

\* An account is given another status or config and keeps its key, and the
\* request that does it is done.
LEMMA AccountWritten ==
    ASSUME ConnectorInv, NEW c \in Calls, NEW a \in Connecting!Accounts, NEW next \in AccountRow,
           account' = [account EXCEPT ![a] = next], next.key = account[a].key,
           visit' = [visit EXCEPT ![c] = Connecting!Gone], UNCHANGED <<issued, retired>>,
           a = "club" /\ visit[c].at # "transition" => next.status = account[a].status
    PROVE  ConnectorsKept
  <1> USE DEF ConnectorInv
  <1>1. ConnectorTypes'
    BY GoneRow DEF ConnectorTypes, VisitReady, Writes
  <1>2. \A b \in Connecting!Accounts : account'[b].key = account[b].key
    BY DEF ConnectorTypes
  <1>3. \A d \in Calls : visit'[d] = IF d = c THEN Connecting!Gone ELSE visit[d]
    BY DEF ConnectorTypes
  <1>4. KeysIssued'
    BY <1>2, <1>3, GoneRow DEF ConnectorTypes, KeysIssued
  <1>5. KeysNew'
    <2>1. \A d \in Calls : KeyWaits(d)' => KeyWaits(d) /\ visit'[d] = visit[d]
      BY <1>3, GoneRow DEF KeyWaits
    <2>2. \A d \in Calls : KeyWaits(d) => visit[d].of \in Connecting!Accounts
      BY DEF ConnectorTypes, KeyWaits, VisitReady, Writes
    <2> QED
      BY <1>2, <2>1, <2>2 DEF KeysNew, KeyNew
  <1>6. TransitionAlone'
    BY <1>3, GoneRow, ClubIsAccount DEF TransitionAlone, ConnectorTypes
  <1>7. Connecting!RevokedIsConfiguredFirst
    BY ClubIsAccount DEF Connecting!RevokedIsConfiguredFirst, TransitionAlone, ConnectorTypes
  <1> QED
    BY <1>1, <1>4, <1>5, <1>6, <1>7 DEF ConnectorsKept

LEMMA Configured == ASSUME ConnectorInv, NEW c \in Calls, Connecting!WriteConfigure(c) PROVE ConnectorsKept
  <1> USE DEF ConnectorInv
  <1> DEFINE v == visit[c]
             a == visit[c].of
             key == Connecting!KeyWritten(v, account[a])
             next == [status |-> v.status, key |-> key, config |-> v.config]
  <1>1. /\ v \in VisitRow /\ v.at = "configure" /\ a \in Connecting!Accounts /\ v.status \in States /\ v.config \in Configs
        /\ a = "club" => v.status = "homologation"
    BY DEF Connecting!WriteConfigure, ConnectorTypes, VisitReady, Writes
  <1>2. account[a] \in AccountRow
    BY <1>1 DEF ConnectorTypes
  <1>3. key \in Nat /\ key <= issued /\ (v.key # 0 => key = v.key) /\ (v.key = 0 => key = account[a].key)
    BY <1>1, <1>2 DEF Connecting!KeyWritten, VisitRow, AccountRow, KeysIssued
  <1>4. next \in AccountRow /\ next.key = key /\ next.status = v.status
    BY <1>1, <1>3 DEF AccountRow
  <1>5. /\ account' = [account EXCEPT ![a] = next] /\ UNCHANGED issued
        /\ retired' = [retired EXCEPT ![a] = @ \cup ({account[a].key} \ {0, key})]
        /\ visit' = [visit EXCEPT ![c] = Connecting!Gone]
    BY DEF Connecting!WriteConfigure, Connecting!Retire, Connecting!Done
  <1> HIDE DEF next, key
  <1>6. \A d \in Calls : visit'[d] = IF d = c THEN Connecting!Gone ELSE visit[d]
    BY <1>5 DEF ConnectorTypes
  <1>7. \A b \in Connecting!Accounts : /\ account'[b].key = IF b = a THEN key ELSE account[b].key
                                       /\ account'[b].status = IF b = a THEN v.status ELSE account[b].status
    BY <1>4, <1>5 DEF ConnectorTypes
  <1>8. \A b \in Connecting!Accounts :
            retired'[b] = IF b = a THEN retired[b] \cup ({account[a].key} \ {0, key}) ELSE retired[b]
    BY <1>5 DEF ConnectorTypes
  <1>9. ConnectorTypes'
    <2>1. account' \in [Connecting!Accounts -> AccountRow]
      BY <1>1, <1>4, <1>5 DEF ConnectorTypes
    <2>2. retired' \in [Connecting!Accounts -> SUBSET (Nat \ {0})]
      <3>1. retired[a] \cup ({account[a].key} \ {0, key}) \in SUBSET (Nat \ {0})
        BY <1>1, <1>2 DEF ConnectorTypes, AccountRow
      <3> QED
        BY <1>5, <3>1 DEF ConnectorTypes
    <2>3. visit' \in [Calls -> VisitRow] /\ \A d \in Calls : VisitReady(visit'[d])
      BY <1>5, <1>6, GoneRow DEF ConnectorTypes, VisitReady, Writes
    <2> QED
      BY <1>5, <2>1, <2>2, <2>3 DEF ConnectorTypes
  <1>10. KeysIssued'
    <2>1. \A b \in Connecting!Accounts : account'[b].key <= issued' /\ \A k \in retired'[b] : k <= issued'
      BY <1>1, <1>3, <1>5, <1>7, <1>8 DEF KeysIssued
    <2>2. \A d \in Calls : visit'[d].key <= issued'
      BY <1>5, <1>6, GoneRow DEF KeysIssued, ConnectorTypes
    <2> QED
      BY <2>1, <2>2 DEF KeysIssued
  <1>11. KeysNew'
    <2>1. \A d \in Calls : KeyWaits(d)' => KeyWaits(d) /\ visit'[d] = visit[d] /\ d # c
      BY <1>6, GoneRow DEF KeyWaits
    <2>2. \A d \in Calls : KeyWaits(d) => visit[d].of \in Connecting!Accounts
      BY DEF ConnectorTypes, KeyWaits, VisitReady, Writes
    <2>3. \A b \in Connecting!Accounts : account'[b].key \notin retired'[b]
      <3>1. v.key # 0 => KeyWaits(c)
        BY <1>1 DEF KeyWaits
      <3>2. key \notin retired[a]
        BY <1>1, <1>3, <3>1 DEF KeysNew, KeyNew
      <3> QED
        BY <1>7, <1>8, <3>2 DEF KeysNew
    <2>4. \A d \in Calls : KeyNew(d)'
      <3> SUFFICES ASSUME NEW d \in Calls, KeyWaits(d)'
                   PROVE  visit[d].key \notin retired'[visit[d].of] /\ visit[d].key # account'[visit[d].of].key
        BY <2>1 DEF KeyNew
      <3>1. KeyWaits(d) /\ d # c /\ visit[d].of \in Connecting!Accounts
        BY <2>1, <2>2
      <3>2. visit[d].key \notin retired[visit[d].of] /\ visit[d].key # account[visit[d].of].key
        BY <3>1 DEF KeysNew, KeyNew
      <3>3. v.key # 0 => visit[d].key # key
        BY <1>1, <1>3, <3>1 DEF KeysNew, KeyWaits
      <3>4. visit[d].of = a => visit[d].key # key
        BY <1>3, <3>2, <3>3
      <3> DEFINE b == visit[d].of
      <3>5. account'[b].key = (IF b = a THEN key ELSE account[b].key)
            /\ retired'[b] = (IF b = a THEN retired[b] \cup ({account[a].key} \ {0, key}) ELSE retired[b])
        BY <1>7, <1>8, <3>1
      <3>6. CASE b = a
        BY <3>2, <3>4, <3>5, <3>6
      <3>7. CASE b # a
        BY <3>2, <3>5, <3>7
      <3> QED
        BY <3>6, <3>7
    <2>5. \A d, e \in Calls : (KeyWaits(d) /\ KeyWaits(e) /\ visit[d].key = visit[e].key => d = e)'
      BY <2>1 DEF KeysNew
    <2> QED
      BY <2>3, <2>4, <2>5 DEF KeysNew
  <1>12. TransitionAlone'
    BY <1>1, <1>6, <1>7, GoneRow, ClubIsAccount DEF TransitionAlone
  <1>13. Connecting!RevokedIsConfiguredFirst
    BY <1>1, <1>7, ClubIsAccount DEF Connecting!RevokedIsConfiguredFirst
  <1> QED
    BY <1>9, <1>10, <1>11, <1>12, <1>13 DEF ConnectorsKept

\* An account other than the club's loses its key.
LEMMA Revoked == ASSUME ConnectorInv, NEW a \in Connecting!Accounts, Connecting!Revoke(a) PROVE ConnectorsKept
  <1> USE DEF ConnectorInv
  <1>1. PICK next : next = [account[a] EXCEPT !.status = "disabled", !.key = 0]
    OBVIOUS
  <1>2. account[a] \in AccountRow
    BY DEF ConnectorTypes
  <1>3. next \in AccountRow /\ next.key = 0
    BY <1>1, <1>2 DEF AccountRow, States
  <1>4. /\ account' = [account EXCEPT ![a] = next] /\ a # "club" /\ UNCHANGED <<issued, visit>>
        /\ retired' = [retired EXCEPT ![a] = @ \cup ({account[a].key} \ {0, 0})]
    BY <1>1 DEF Connecting!Revoke, Connecting!Retire
  <1>5. \A b \in Connecting!Accounts : /\ account'[b].key = IF b = a THEN 0 ELSE account[b].key
                                       /\ b # a => account'[b] = account[b]
    BY <1>3, <1>4 DEF ConnectorTypes
  <1>6. \A b \in Connecting!Accounts : retired'[b] = IF b = a THEN retired[b] \cup ({account[a].key} \ {0}) ELSE retired[b]
    BY <1>4 DEF ConnectorTypes
  <1>7. ConnectorTypes'
    <2>1. retired[a] \cup ({account[a].key} \ {0, 0}) \in SUBSET (Nat \ {0})
      BY <1>2 DEF ConnectorTypes, AccountRow
    <2> QED
      BY <1>3, <1>4, <2>1 DEF ConnectorTypes
  <1>8. KeysIssued'
    BY <1>4, <1>5, <1>6 DEF KeysIssued, ConnectorTypes
  <1>9. KeysNew'
    <2>1. \A b \in Connecting!Accounts : account'[b].key \notin retired'[b]
      BY <1>5, <1>6 DEF KeysNew, ConnectorTypes
    <2>2. \A d \in Calls : KeyWaits(d) => visit[d].of \in Connecting!Accounts
      BY DEF ConnectorTypes, KeyWaits, VisitReady, Writes
    <2>3. \A d \in Calls : KeyNew(d)'
      BY <1>4, <1>5, <1>6, <2>2 DEF KeysNew, KeyNew, KeyWaits
    <2> QED
      BY <1>4, <2>1, <2>3 DEF KeysNew, KeyWaits
  <1>10. TransitionAlone'
    BY <1>4, <1>5, ClubIsAccount DEF TransitionAlone
  <1>11. Connecting!RevokedIsConfiguredFirst
    BY <1>4, <1>5, ClubIsAccount DEF Connecting!RevokedIsConfiguredFirst
  <1> QED
    BY <1>7, <1>8, <1>9, <1>10, <1>11 DEF ConnectorsKept

\* A request asks for a new key, or for none.
LEMMA ConfigureRead ==
    ASSUME ConnectorInv, NEW c \in Calls, NEW a \in Connecting!Accounts, NEW b \in Branches, NEW rotate \in BOOLEAN,
           Connecting!ReadConfigure(c, a, b, rotate)
    PROVE  ConnectorsKept
  <1> USE DEF ConnectorInv
  <1> DEFINE issues == account[a].key = 0 \/ rotate
             count == IF issues THEN issued + 1 ELSE issued
             key == IF issues THEN Connecting!NextKey(a) ELSE 0
             v == [at |-> "configure", of |-> a, status |-> IF a = "club" THEN "homologation" ELSE "active",
                   key |-> key, config |-> Connecting!NextConfig(a, b)]
  <1>1. account[a] \in AccountRow
    BY DEF ConnectorTypes
  <1>2. issued' = count /\ visit' = [visit EXCEPT ![c] = v] /\ UNCHANGED <<account, retired>>
    BY DEF Connecting!ReadConfigure, Connecting!Begin
  <1>3. issued \in Nat /\ count \in Nat /\ issued <= count /\ key \in Nat /\ key <= count /\ (key = 0 \/ key > issued)
    BY DEF ConnectorTypes, Connecting!NextKey
  <1>4. Connecting!NextConfig(a, b) \in Configs
    BY <1>1 DEF Connecting!NextConfig, AccountRow, Configs
  <1>5. v \in VisitRow /\ VisitReady(v) /\ v.key = key /\ v.at = "configure" /\ v.of = a
    BY <1>3, <1>4 DEF VisitRow, VisitReady, Writes, States
  <1> HIDE DEF v, count, key
  <1>6. \A d \in Calls : visit'[d] = IF d = c THEN v ELSE visit[d]
    BY <1>2 DEF ConnectorTypes
  <1>7. ConnectorTypes'
    BY <1>2, <1>3, <1>5, <1>6 DEF ConnectorTypes
  <1>8. KeysIssued'
    <2>1. \A n \in Nat : n <= issued => n <= count
      BY <1>3
    <2>2. \A x \in Connecting!Accounts : account[x].key <= count /\ \A k \in retired[x] : k <= count
      BY <2>1 DEF KeysIssued, ConnectorTypes, AccountRow
    <2>3. \A d \in Calls : visit[d].key <= count
      BY <2>1 DEF KeysIssued, ConnectorTypes, VisitRow
    <2> QED
      BY <1>2, <1>3, <1>5, <1>6, <2>2, <2>3 DEF KeysIssued
  <1>9. KeysNew'
    <2>1. key # 0 => /\ key \notin retired[a] /\ key # account[a].key
                     /\ \A d \in Calls : visit[d].key # key
      BY <1>1, <1>3 DEF KeysIssued, ConnectorTypes, AccountRow, VisitRow
    <2>2. \A d \in Calls : d # c => (KeyWaits(d)' <=> KeyWaits(d)) /\ visit'[d] = visit[d]
      BY <1>6 DEF KeyWaits
    <2>3. KeyWaits(c)' <=> key # 0
      BY <1>5, <1>6 DEF KeyWaits
    <2>4. \A d \in Calls : KeyNew(d)'
      BY <1>2, <1>5, <1>6, <2>1, <2>2, <2>3 DEF KeysNew, KeyNew
    <2>5. \A d, e \in Calls : (KeyWaits(d) /\ KeyWaits(e) /\ visit[d].key = visit[e].key => d = e)'
      BY <1>5, <1>6, <2>1, <2>2, <2>3 DEF KeysNew
    <2> QED
      BY <1>2, <2>4, <2>5 DEF KeysNew
  <1>10. TransitionAlone'
    BY <1>2, <1>5, <1>6 DEF TransitionAlone
  <1>11. Connecting!RevokedIsConfiguredFirst
    BY <1>2 DEF Connecting!RevokedIsConfiguredFirst
  <1> QED
    BY <1>7, <1>8, <1>9, <1>10, <1>11 DEF ConnectorsKept

LEMMA HeartbeatWritten ==
    ASSUME ConnectorInv, NEW c \in Calls, NEW seen \in {"open", "closed"}, Connecting!WriteHeartbeat(c, seen)
    PROVE  ConnectorsKept
  <1> DEFINE a == visit[c].of
  <1>1. a \in Connecting!Accounts /\ visit[c].config \in Configs
    BY DEF ConnectorInv, ConnectorTypes, VisitReady, Writes, Connecting!WriteHeartbeat
  <1>2. PICK config : config = [visit[c].config EXCEPT !.seen = seen]
    OBVIOUS
  <1>3. config \in Configs
    BY <1>1, <1>2 DEF Configs
  <1>4. PICK next : next = [account[a] EXCEPT !.config = config]
    OBVIOUS
  <1>5. account[a] \in AccountRow
    BY <1>1 DEF ConnectorInv, ConnectorTypes
  <1>6. next \in AccountRow /\ next.key = account[a].key /\ next.status = account[a].status
    BY <1>3, <1>4, <1>5 DEF AccountRow
  <1>7. /\ account' = [account EXCEPT ![a] = next] /\ visit' = [visit EXCEPT ![c] = Connecting!Gone]
        /\ UNCHANGED <<issued, retired>>
    BY <1>2, <1>4 DEF Connecting!WriteHeartbeat, Connecting!Done
  <1> QED
    BY <1>1, <1>6, <1>7, AccountWritten

LEMMA TransitionWritten ==
    ASSUME ConnectorInv, NEW c \in Calls, Connecting!WriteTransition(c)
    PROVE  ConnectorsKept
  <1>1. /\ visit[c].at = "transition" /\ visit[c].status \in States /\ visit[c].config \in Configs
        /\ visit' = [visit EXCEPT ![c] = Connecting!Gone] /\ UNCHANGED <<issued, retired>>
    BY DEF ConnectorInv, ConnectorTypes, VisitReady, Writes, Connecting!WriteTransition, Connecting!Done
  <1>2. PICK next : next = [account["club"] EXCEPT !.status = visit[c].status, !.config = visit[c].config]
    OBVIOUS
  <1>3. account["club"] \in AccountRow
    BY ClubIsAccount DEF ConnectorInv, ConnectorTypes
  <1>4. next \in AccountRow /\ next.key = account["club"].key
    BY <1>1, <1>2, <1>3 DEF AccountRow
  <1>5. account' = [account EXCEPT !["club"] = next]
    BY <1>2, <1>3, ClubIsAccount DEF Connecting!WriteTransition, ConnectorInv, ConnectorTypes, AccountRow
  <1> QED
    BY <1>1, <1>4, <1>5, ClubIsAccount, AccountWritten

LEMMA TransitionRead ==
    ASSUME ConnectorInv, NEW c \in Calls, NEW event, NEW expected, Connecting!ReadTransition(c, event, expected)
    PROVE  ConnectorsKept
  <1>1. account["club"] \in AccountRow
    BY ClubIsAccount DEF ConnectorInv, ConnectorTypes
  <1>2. PICK config : config = [account["club"].config EXCEPT !.version = @ + 1]
    OBVIOUS
  <1>3. config \in Configs
    BY <1>1, <1>2 DEF Configs, AccountRow
  <1>4. PICK status : status = Connecting!After(account["club"].status, event)
    OBVIOUS
  <1>5. status # None /\ Connecting!LifecycleFree
    BY <1>4 DEF Connecting!ReadTransition
  <1>6. status \in States /\ account["club"].status # "revoked"
    BY <1>1, <1>4, <1>5 DEF Connecting!After, States, AccountRow
  <1>7. PICK v : v = [at |-> "transition", of |-> "club", status |-> status, key |-> 0, config |-> config]
    OBVIOUS
  <1>8. v \in VisitRow /\ VisitReady(v) /\ v.at = "transition" /\ v.key = 0 /\ v.of = "club"
    BY <1>3, <1>6, <1>7, ClubIsAccount DEF VisitRow, VisitReady, Writes
  <1>9. visit' = [visit EXCEPT ![c] = v] /\ UNCHANGED <<account, issued, retired>>
    BY <1>2, <1>4, <1>7 DEF Connecting!ReadTransition, Connecting!Begin
  <1> QED
    BY <1>5, <1>6, <1>8, <1>9, Visited DEF Connecting!LifecycleFree

LEMMA Beating ==
    ASSUME ConnectorInv, NEW c \in Calls, Connecting!ReadHeartbeat(c)
    PROVE  ConnectorsKept
  <1> DEFINE a == visit[c].of
  <1>1. a \in Connecting!Accounts /\ visit[c] \in VisitRow /\ visit[c].at = "connected" /\ UNCHANGED <<account, issued, retired>>
    BY DEF ConnectorInv, ConnectorTypes, VisitReady, Connecting!ReadHeartbeat
  <1>2. account[a] \in AccountRow
    BY <1>1 DEF ConnectorInv, ConnectorTypes
  <1>3. PICK v : v = [visit[c] EXCEPT !.at = "beat", !.config = account[a].config]
    OBVIOUS
  <1>4. v \in VisitRow /\ VisitReady(v) /\ v.at = "beat" /\ v.key = visit[c].key
    BY <1>1, <1>2, <1>3 DEF VisitRow, VisitReady, AccountRow, Writes
  <1>5. \/ visit' = [visit EXCEPT ![c] = v] \/ visit' = [visit EXCEPT ![c] = Connecting!Gone]
    BY <1>3 DEF Connecting!ReadHeartbeat, Connecting!Done
  <1>6. VisitReady(Connecting!Gone)
    BY GoneRow DEF VisitReady, Writes
  <1> QED
    BY <1>1, <1>4, <1>5, <1>6, GoneRow, Visited

LEMMA ConnectorStep == ASSUME ConnectorInv, Connecting!Next PROVE ConnectorsKept
  <1>1. ASSUME NEW c \in Calls, NEW a \in Connecting!Accounts, NEW k, Connecting!Authenticate(c, a, k) PROVE ConnectorsKept
    <2>1. PICK v : v = [Connecting!Gone EXCEPT !.at = "connected", !.of = a]
      OBVIOUS
    <2>2. v \in VisitRow /\ VisitReady(v) /\ v.at = "connected" /\ v.key = 0
      BY <2>1 DEF Connecting!Gone, VisitRow, VisitReady, Writes
    <2>3. visit' = [visit EXCEPT ![c] = v] /\ UNCHANGED <<account, issued, retired>>
      BY <1>1, <2>1 DEF Connecting!Authenticate, Connecting!Begin
    <2> QED
      BY <2>2, <2>3, Visited
  <1> QED
    BY <1>1, ConfigureRead, Configured, Revoked, HeartbeatWritten, TransitionWritten, TransitionRead, Beating DEF Connecting!Next

LEMMA ConnectorKeeps ==
    ConnectorInv /\ [Connecting!Next]_Connecting!connectorVars => ConnectorsKept
  <1>1. ConnectorInv /\ UNCHANGED Connecting!connectorVars => ConnectorsKept
    BY DEF ConnectorInv, ConnectorTypes, KeysIssued, KeysNew, KeyNew, KeyWaits, TransitionAlone, Connecting!connectorVars,
       ConnectorsKept, Connecting!RevokedIsConfiguredFirst
  <1> QED
    BY <1>1, ConnectorStep

LEMMA KeysAreNew == ConnectorInv => Connecting!KeysStayRetired
  BY DEF ConnectorInv, KeysNew, Connecting!KeysStayRetired

\* A key that an account lost, by rotation or revocation, opens nothing again,
\* for every number of accounts, keys and requests that read the account
\* before they write it.
THEOREM RetiredKeysOpenNothing == Connecting!Spec => []Connecting!KeysStayRetired
  <1>1. ConnectorInv /\ [Connecting!Next]_Connecting!connectorVars => ConnectorInv'
    BY ConnectorKeeps DEF ConnectorsKept
  <1> QED
    BY <1>1, KeysAreNew, ConnectorStarts, PTL DEF Connecting!Spec

\* transitionIntegrationLifecycle: a club integration that was revoked is
\* active again only after it was configured, whatever health checks race the
\* revocation.
THEOREM RevokedIsNotRevived ==
    Connecting!Spec => [][Connecting!RevokedIsConfiguredFirst]_Connecting!connectorVars
  <1>1. ConnectorInv /\ [Connecting!Next]_Connecting!connectorVars
            => ConnectorInv' /\ Connecting!RevokedIsConfiguredFirst
    BY ConnectorKeeps DEF ConnectorsKept
  <1> QED
    BY <1>1, ConnectorStarts, PTL DEF Connecting!Spec

-----------------------------------------------------------------------------
(*                               FiscalSetup                               *)

Stages == {"not_started", "company_data", "accountant_review", "provider_validation", "ready_for_production",
           "homologation", "action_required"}

FiscalRow ==
    [exists : BOOLEAN, provider : {"mock", "focus_nfe"}, status : {"disabled", "enabled"}, stage : Stages,
     environment : {"homologation", "production"}, certificate : {None, "simulator_accepted", "provider_accepted"},
     simulator : BOOLEAN, enabled : BOOLEAN, profile : BOOLEAN, metering : Filing!Meterings \cup {None},
     version : Nat]

Forms == {"form", "profile", "production"}

FilingRow == [at : {"idle", "usage", "first"} \cup Forms, seen : Nat, row : FiscalRow \cup {None},
              metering : Filing!Meterings \cup {None}]

\* Who changes the settings found them, and who meters them found them as
\* they are.
FilingReady(req) ==
    /\ req.at \in Forms \cup {"usage"} => fiscal.exists
    /\ req.at = "usage" => req.row \in FiscalRow /\ req.row.version = fiscal.version

\* The version counts the changes; the row is held by one request.
FilingInv ==
    /\ fiscal \in FiscalRow
    /\ filing \in [Calls -> FilingRow]
    /\ accepted \in Nat /\ fiscal.version = accepted + 1
    /\ ~fiscal.exists => accepted = 0
    /\ fiscal.environment = "production" => fiscal.enabled
    /\ \A c \in Calls : FilingReady(filing[c])
    /\ \A c, d \in Calls : filing[c].at = "usage" /\ filing[d].at = "usage" => c = d

LEMMA FilingIdle == Filing!Idle \in FilingRow /\ Filing!Idle.at = "idle"
  BY DEF Filing!Idle, FilingRow

LEMMA UnfiledRow == Filing!Unfiled \in FiscalRow
  BY DEF Filing!Unfiled, FiscalRow, Stages

LEMMA FilingStarts == Filing!Init => FilingInv
  <1> SUFFICES ASSUME Filing!Init PROVE FilingInv
    OBVIOUS
  <1>1. fiscal = Filing!Unfiled /\ accepted = 0 /\ \A c \in Calls : filing[c] = Filing!Idle
    BY DEF Filing!Init
  <1>2. fiscal.version = 1 /\ fiscal.environment = "homologation"
    BY <1>1 DEF Filing!Unfiled
  <1>3. filing \in [Calls -> FilingRow]
    BY FilingIdle DEF Filing!Init
  <1> QED
    BY <1>1, <1>2, <1>3, FilingIdle, UnfiledRow DEF FilingInv, FilingReady, Forms

\* The row, which nobody holds, is replaced; the request that did it is done.
LEMMA FiscalReplaced ==
    ASSUME FilingInv, Filing!RowFree, NEW next \in FiscalRow, fiscal' = next, next.exists,
           next.environment = "production" => next.enabled,
           accepted' \in Nat, next.version = accepted' + 1,
           filing' = filing \/ \E c \in Calls : filing' = [filing EXCEPT ![c] = Filing!Idle]
    PROVE  FilingInv'
  <1>1. \A c \in Calls : filing'[c] = filing[c] \/ filing'[c] = Filing!Idle
    BY DEF FilingInv
  <1>2. filing' \in [Calls -> FilingRow]
    BY FilingIdle DEF FilingInv
  <1>3. \A c \in Calls : filing'[c].at # "usage"
    BY <1>1, FilingIdle DEF Filing!RowFree
  <1> QED
    BY <1>2, <1>3 DEF FilingInv, FilingReady

\* A request goes on, or ends.
LEMMA FilingGoesOn ==
    ASSUME FilingInv, NEW c \in Calls, NEW req \in FilingRow, FilingReady(req),
           req.at = "usage" => Filing!RowFree,
           filing' = [filing EXCEPT ![c] = req], UNCHANGED <<fiscal, accepted>>
    PROVE  FilingInv'
  <1>1. \A d \in Calls : filing'[d] = IF d = c THEN req ELSE filing[d]
    BY DEF FilingInv
  <1>2. filing' \in [Calls -> FilingRow]
    BY DEF FilingInv
  <1>3. \A d, e \in Calls : filing'[d].at = "usage" /\ filing'[e].at = "usage" => d = e
    BY <1>1 DEF FilingInv, Filing!RowFree
  <1> QED
    BY <1>1, <1>2, <1>3 DEF FilingInv, FilingReady

LEMMA FilingEnds ==
    ASSUME FilingInv, NEW c \in Calls, Filing!End(c), UNCHANGED <<fiscal, accepted>>
    PROVE  FilingInv'
  BY FilingIdle, FilingGoesOn DEF Filing!End, FilingReady, Forms

\* An update that expects a version counts, or is refused.
LEMMA SettingsSettled ==
    ASSUME FilingInv, NEW c \in Calls, filing[c].at \in Forms, NEW row \in FiscalRow, Filing!Settle(c, row), row.exists,
           row.environment = "production" => row.enabled
    PROVE  FilingInv'
  <1>1. CASE Filing!Expected(filing[c].seen)
    <2>1. PICK next : next = [row EXCEPT !.version = filing[c].seen + 1]
      OBVIOUS
    <2>2. filing[c].seen = accepted + 1 /\ accepted \in Nat
      BY <1>1 DEF FilingInv, Filing!Expected
    <2>3. next \in FiscalRow /\ next.version = accepted + 2 /\ next.exists /\ (next.environment = "production" => next.enabled)
      BY <2>1, <2>2 DEF FiscalRow
    <2>4. fiscal' = next /\ accepted' = accepted + 1 /\ Filing!RowFree /\ filing' = [filing EXCEPT ![c] = Filing!Idle]
      BY <1>1, <2>1 DEF Filing!Settle, Filing!End
    <2>5. accepted' \in Nat /\ next.version = accepted' + 1
      BY <2>2, <2>3, <2>4
    <2> QED
      BY <2>3, <2>4, <2>5, FiscalReplaced
  <1>2. CASE ~Filing!Expected(filing[c].seen)
    BY <1>2, FilingEnds DEF Filing!Settle
  <1> QED
    BY <1>1, <1>2

\* A step that writes the row under no version.
LEMMA Overwritten ==
    ASSUME FilingInv, Filing!RowFree, NEW next \in FiscalRow, fiscal' = next, next.exists, next.version = fiscal.version,
           next.environment = "production" => next.enabled, UNCHANGED <<accepted, filing>>
    PROVE  FilingInv'
  BY FiscalReplaced DEF FilingInv

LEMMA UsageWritten == ASSUME FilingInv, NEW c \in Calls, Filing!WriteUsage(c) PROVE FilingInv'
  <1>1. filing[c] \in FilingRow /\ filing' = [filing EXCEPT ![c] = Filing!Idle]
    BY DEF FilingInv, Filing!WriteUsage, Filing!End
  <1>2. CASE filing[c].at = "usage"
    <2>1. filing[c].row \in FiscalRow /\ filing[c].row.version = accepted + 1 /\ fiscal.exists
      BY <1>2 DEF FilingInv, FilingReady
    <2>2. PICK next : next = [fiscal EXCEPT !.metering = filing[c].metering, !.profile = filing[c].row.profile,
                                            !.version = filing[c].row.version + 1]
      OBVIOUS
    <2>3. accepted \in Nat /\ fiscal \in FiscalRow
      BY DEF FilingInv
    <2>10. PICK version \in Nat : version = filing[c].row.version + 1 /\ version = accepted + 2
      BY <2>1, <2>3
    <2>11. next = [fiscal EXCEPT !.metering = filing[c].metering, !.profile = filing[c].row.profile, !.version = version]
      BY <2>2, <2>10
    <2>12. filing[c].row.profile \in BOOLEAN /\ filing[c].metering \in Filing!Meterings \cup {None}
      BY <1>1, <2>1 DEF FiscalRow, FilingRow
    <2>4. next \in FiscalRow /\ next.version = accepted + 2
      BY <2>3, <2>10, <2>11, <2>12 DEF FiscalRow
    <2>5. next.exists /\ (next.environment = "production" => next.enabled)
      BY <2>1, <2>2, <2>3 DEF FilingInv, FiscalRow
    <2>6. fiscal' = next /\ accepted' = accepted + 1
      BY <1>2, <2>2 DEF Filing!WriteUsage
    <2>7. \A d \in Calls : filing'[d].at # "usage"
      BY <1>1, <1>2, FilingIdle DEF FilingInv
    <2>8. filing' \in [Calls -> FilingRow]
      BY <1>1, FilingIdle DEF FilingInv
    <2> QED
      BY <2>3, <2>4, <2>5, <2>6, <2>7, <2>8 DEF FilingInv, FilingReady
  <1>3. CASE filing[c].at = "first" /\ ~fiscal.exists
    <2>1. PICK next : next = [Filing!Unfiled EXCEPT !.exists = TRUE, !.metering = filing[c].metering]
      OBVIOUS
    <2>2. next \in FiscalRow /\ next.version = 1 /\ next.exists /\ next.environment = "homologation"
      BY <1>1, <2>1, UnfiledRow DEF FiscalRow, FilingRow, Filing!Unfiled
    <2>3. fiscal' = next /\ accepted' = accepted /\ accepted = 0
      BY <1>3, <2>1 DEF Filing!WriteUsage, FilingInv
    <2>4. Filing!RowFree
      BY <1>3 DEF Filing!RowFree, FilingInv, FilingReady
    <2>5. accepted' \in Nat /\ next.version = accepted' + 1
      BY <2>2, <2>3
    <2> QED
      BY <1>1, <2>2, <2>3, <2>4, <2>5, FiscalReplaced
  <1>4. CASE filing[c].at = "first" /\ fiscal.exists
    BY <1>4, FilingEnds DEF Filing!WriteUsage
  <1> QED
    BY <1>2, <1>3, <1>4 DEF Filing!WriteUsage

LEMMA FilingStep == ASSUME FilingInv, Filing!Next PROVE FilingInv'
  <1>0. fiscal \in FiscalRow /\ fiscal.environment = "production" => fiscal.enabled
    BY DEF FilingInv
  <1>1. CASE Filing!Start
    <2>1. CASE fiscal.exists
      <3>1. PICK next : next = [fiscal EXCEPT !.provider = "focus_nfe"]
        OBVIOUS
      <3>2. next \in FiscalRow /\ next.exists /\ next.version = fiscal.version /\ (next.environment = "production" => next.enabled)
        BY <2>1, <3>1 DEF FiscalRow, FilingInv
      <3> QED
        BY <1>1, <2>1, <3>1, <3>2, Overwritten DEF Filing!Start
    <2>2. CASE ~fiscal.exists
      <3>1. PICK next : next = [Filing!Unfiled EXCEPT !.exists = TRUE, !.provider = "focus_nfe", !.stage = "company_data"]
        OBVIOUS
      <3>2. next \in FiscalRow /\ next.exists /\ next.version = 1 /\ next.environment = "homologation"
        BY <3>1, UnfiledRow DEF FiscalRow, Stages, Filing!Unfiled
      <3>3. fiscal.version = 1
        BY <2>2 DEF FilingInv
      <3> QED
        BY <1>1, <2>2, <3>1, <3>2, <3>3, Overwritten DEF Filing!Start
    <2> QED
      BY <2>1, <2>2
  <1>2. ASSUME NEW s \in {"enabled", "disabled"}, NEW m \in Filing!Meterings \cup {None}, Filing!UpsertSettings(s, m)
        PROVE  FilingInv'
    <2>1. PICK next : next = [fiscal EXCEPT !.exists = TRUE, !.provider = "focus_nfe", !.status = s,
                                !.environment = "homologation", !.profile = FALSE, !.metering = m]
      OBVIOUS
    <2>2. next \in FiscalRow /\ next.exists /\ next.version = fiscal.version /\ next.environment = "homologation"
      BY <2>1 DEF FiscalRow, FilingInv
    <2> QED
      BY <1>2, <2>1, <2>2, Overwritten DEF Filing!UpsertSettings
  <1>3. CASE Filing!DisableProduction
    <2>1. PICK ended : ended = [fiscal EXCEPT !.environment = "homologation", !.status = "disabled", !.enabled = FALSE]
      OBVIOUS
    <2>2. PICK next : next = [ended EXCEPT !.version = fiscal.version + 1]
      OBVIOUS
    <2>3. accepted \in Nat /\ fiscal.version = accepted + 1 /\ fiscal.exists
      BY <1>3 DEF FilingInv, Filing!DisableProduction, Filing!Update
    <2>4. ended \in FiscalRow /\ ended.exists /\ ended.environment = "homologation"
      BY <2>1, <2>3 DEF FiscalRow, FilingInv
    <2>5. next \in FiscalRow /\ next.exists /\ next.version = accepted + 2 /\ next.environment = "homologation"
      BY <2>2, <2>3, <2>4 DEF FiscalRow
    <2>6. fiscal' = next /\ accepted' = accepted + 1 /\ Filing!RowFree /\ filing' = filing
      BY <1>3, <2>1, <2>2 DEF Filing!DisableProduction, Filing!Update, Filing!Counted
    <2>7. accepted' \in Nat /\ next.version = accepted' + 1
      BY <2>3, <2>5, <2>6
    <2> QED
      BY <2>5, <2>6, <2>7, FiscalReplaced
  <1>4. CASE Filing!RegisterSimulator
    <2>1. PICK next : next = [fiscal EXCEPT !.status = "enabled", !.environment = "homologation", !.simulator = TRUE,
                             !.stage = "homologation"]
      OBVIOUS
    <2>2. next \in FiscalRow /\ next.exists /\ next.version = fiscal.version /\ next.environment = "homologation"
      BY <1>4, <2>1 DEF FiscalRow, Stages, FilingInv, Filing!RegisterSimulator, Filing!Update
    <2> QED
      BY <1>4, <2>1, <2>2, Overwritten DEF Filing!RegisterSimulator, Filing!Update
  <1>5. CASE Filing!UploadCertificate
    <2>1. PICK next : next = [fiscal EXCEPT !.certificate = "simulator_accepted", !.stage = "provider_validation"]
      OBVIOUS
    <2>2. next \in FiscalRow /\ next.exists /\ next.version = fiscal.version /\ (next.environment = "production" => next.enabled)
      BY <1>5, <2>1 DEF FiscalRow, Stages, FilingInv, Filing!UploadCertificate, Filing!Update
    <2> QED
      BY <1>5, <2>1, <2>2, Overwritten DEF Filing!UploadCertificate, Filing!Update
  <1>6. CASE Filing!AcceptCertificate
    <2>1. PICK next : next = [fiscal EXCEPT !.certificate = "provider_accepted"]
      OBVIOUS
    <2>2. next \in FiscalRow /\ next.exists /\ next.version = fiscal.version /\ (next.environment = "production" => next.enabled)
      BY <1>6, <2>1 DEF FiscalRow, FilingInv, Filing!AcceptCertificate, Filing!Update
    <2> QED
      BY <1>6, <2>1, <2>2, Overwritten DEF Filing!AcceptCertificate, Filing!Update
  <1>7. ASSUME NEW passed \in BOOLEAN, Filing!RunHomologation(passed) PROVE FilingInv'
    <2>1. PICK stage : stage = IF passed THEN "ready_for_production" ELSE "action_required"
      OBVIOUS
    <2>2. PICK next : next = [fiscal EXCEPT !.stage = stage]
      OBVIOUS
    <2>3. next \in FiscalRow /\ next.exists /\ next.version = fiscal.version /\ (next.environment = "production" => next.enabled)
      BY <1>7, <2>1, <2>2 DEF FiscalRow, Stages, FilingInv, Filing!RunHomologation, Filing!Update
    <2> QED
      BY <1>7, <2>1, <2>2, <2>3, Overwritten DEF Filing!RunHomologation, Filing!Update
  <1>8. ASSUME NEW c \in Calls, Filing!LoadForm(c) PROVE FilingInv'
    <2>1. PICK req : req = [Filing!Idle EXCEPT !.at = "form", !.seen = fiscal.version]
      OBVIOUS
    <2>2. req \in FilingRow /\ req.at = "form"
      BY <2>1 DEF Filing!Idle, FilingRow, Forms, FilingInv, FiscalRow
    <2>3. filing' = [filing EXCEPT ![c] = req] /\ fiscal.exists /\ UNCHANGED <<fiscal, accepted>>
      BY <1>8, <2>1 DEF Filing!LoadForm, Filing!Begin
    <2> QED
      BY <2>2, <2>3, FilingGoesOn DEF FilingReady
  <1>9. ASSUME NEW c \in Calls, Filing!UpdateCompany(c) PROVE FilingInv'
    <2>1. PICK row : row = [fiscal EXCEPT !.stage = "accountant_review"]
      OBVIOUS
    <2>2. filing[c].at \in Forms /\ fiscal.exists
      BY <1>9 DEF FilingInv, FilingReady, Forms, Filing!UpdateCompany
    <2>3. row \in FiscalRow /\ row.exists /\ (row.environment = "production" => row.enabled)
      BY <2>1, <2>2 DEF FiscalRow, Stages, FilingInv
    <2> QED
      BY <1>9, <2>1, <2>2, <2>3, SettingsSettled DEF Filing!UpdateCompany
  <1>10. ASSUME NEW c \in Calls, Filing!ReadTaxProfile(c) PROVE FilingInv'
    <2>1. PICK req : req = [filing[c] EXCEPT !.at = "profile", !.metering = fiscal.metering]
      OBVIOUS
    <2>2. filing[c] \in FilingRow /\ fiscal.exists /\ fiscal.metering \in Filing!Meterings \cup {None}
      BY <1>10 DEF FilingInv, FilingReady, Forms, FiscalRow, Filing!ReadTaxProfile
    <2>3. req \in FilingRow /\ req.at = "profile"
      BY <2>1, <2>2 DEF FilingRow, Forms
    <2>4. filing' = [filing EXCEPT ![c] = req] /\ UNCHANGED <<fiscal, accepted>>
      BY <1>10, <2>1 DEF Filing!ReadTaxProfile
    <2> QED
      BY <2>2, <2>3, <2>4, FilingGoesOn DEF FilingReady
  <1>11. ASSUME NEW c \in Calls, Filing!WriteTaxProfile(c) PROVE FilingInv'
    <2>1. PICK row : row = [fiscal EXCEPT !.profile = TRUE, !.metering = filing[c].metering, !.stage = "provider_validation"]
      OBVIOUS
    <2>2. filing[c].at \in Forms /\ fiscal.exists /\ filing[c].metering \in Filing!Meterings \cup {None}
      BY <1>11 DEF FilingInv, FilingReady, FilingRow, Forms, Filing!WriteTaxProfile
    <2>3. row \in FiscalRow /\ row.exists /\ (row.environment = "production" => row.enabled)
      BY <2>1, <2>2 DEF FiscalRow, Stages, FilingInv
    <2> QED
      BY <1>11, <2>1, <2>2, <2>3, SettingsSettled DEF Filing!WriteTaxProfile
  <1>12. ASSUME NEW c \in Calls, Filing!ReadProduction(c) PROVE FilingInv'
    <2>1. PICK req : req = [filing[c] EXCEPT !.at = "production"]
      OBVIOUS
    <2>2. filing[c] \in FilingRow /\ fiscal.exists
      BY <1>12 DEF FilingInv, FilingReady, Forms, Filing!ReadProduction
    <2>3. req \in FilingRow /\ req.at = "production"
      BY <2>1, <2>2 DEF FilingRow, Forms
    <2>4. filing' = [filing EXCEPT ![c] = req] /\ UNCHANGED <<fiscal, accepted>>
      BY <1>12, <2>1 DEF Filing!ReadProduction
    <2> QED
      BY <2>2, <2>3, <2>4, FilingGoesOn DEF FilingReady
  <1>13. ASSUME NEW c \in Calls, Filing!EnableProduction(c) PROVE FilingInv'
    <2>1. PICK row : row = [fiscal EXCEPT !.environment = "production", !.status = "enabled", !.enabled = TRUE]
      OBVIOUS
    <2>2. filing[c].at \in Forms /\ fiscal.exists
      BY <1>13 DEF FilingInv, FilingReady, Forms, Filing!EnableProduction
    <2>3. row \in FiscalRow /\ row.exists /\ row.enabled
      BY <2>1, <2>2 DEF FiscalRow, FilingInv
    <2>4. CASE Filing!Settle(c, row)
      BY <2>2, <2>3, <2>4, SettingsSettled
    <2>5. CASE Filing!End(c) /\ UNCHANGED <<fiscal, accepted>>
      BY <2>5, FilingEnds
    <2> QED
      BY <1>13, <2>1, <2>4, <2>5 DEF Filing!EnableProduction
  <1>14. ASSUME NEW c \in Calls, NEW m \in Filing!Meterings, Filing!ReadUsage(c, m) PROVE FilingInv'
    <2>1. PICK at : at = IF fiscal.exists THEN "usage" ELSE "first"
      OBVIOUS
    <2>2. PICK req : req = [Filing!Idle EXCEPT !.at = at, !.row = fiscal, !.metering = m]
      OBVIOUS
    <2>3. req \in FilingRow /\ req.at = at /\ req.row = fiscal /\ fiscal \in FiscalRow
      BY <2>1, <2>2 DEF Filing!Idle, FilingRow, FilingInv
    <2>4. filing' = [filing EXCEPT ![c] = req] /\ Filing!RowFree /\ UNCHANGED <<fiscal, accepted>>
      BY <1>14, <2>1, <2>2 DEF Filing!ReadUsage, Filing!Begin
    <2>5. FilingReady(req)
      BY <2>1, <2>3 DEF FilingReady, Forms
    <2> QED
      BY <2>3, <2>4, <2>5, FilingGoesOn
  <1> QED
    BY <1>1, <1>2, <1>3, <1>4, <1>5, <1>6, <1>7, <1>8, <1>9, <1>10, <1>11, <1>12, <1>13, <1>14, UsageWritten DEF Filing!Next

\* More documents are no less urgent.
LEMMA AlertsOfMetering ==
    ASSUME NEW m \in Filing!Meterings \cup {None}, NEW n \in Nat \ {0}
    PROVE  Filing!Urgency[Filing!Alert(n - 1, m)] <= Filing!Urgency[Filing!Alert(n, m)]
  <1>1. CASE m = None
    BY <1>1 DEF Filing!Alert, Filing!Urgency
  <1>2. CASE m # None
    <2>1. m.allowance \in Nat /\ m.percent \in Nat
      BY <1>2, MeteringAssumption DEF Filing!Meterings
    <2>2. PICK product \in Nat : product = m.allowance * m.percent
      BY <2>1
    <2>3. PICK t \in Int : t = (product + 99) \div 100
      BY <2>2
    <2>4. Filing!Threshold(m) = (IF t < 1 THEN 1 ELSE t)
      BY <2>2, <2>3 DEF Filing!Threshold
    <2>5. PICK h \in Int : h = Filing!Threshold(m)
      BY <2>3, <2>4
    <2>6. \A k \in Int : Filing!Alert(k, m) = IF k > m.allowance THEN "exceeded" ELSE IF k >= h THEN "approaching" ELSE "ok"
      BY <1>2, <2>1, <2>5 DEF Filing!Alert
    <2>7. \A k \in Int : Filing!Urgency[Filing!Alert(k, m)] = IF k > m.allowance THEN 2 ELSE IF k >= h THEN 1 ELSE 0
      BY <2>1, <2>5, <2>6 DEF Filing!Urgency
    <2>8. n - 1 \in Int /\ n \in Int
      OBVIOUS
    <2> QED
      BY <2>1, <2>5, <2>7, <2>8
  <1> QED
    BY <1>1, <1>2

LEMMA FilingInductive == FilingInv /\ [Filing!Next]_Filing!fiscalVars => FilingInv'
  <1>1. FilingInv /\ UNCHANGED Filing!fiscalVars => FilingInv'
    BY DEF FilingInv, FilingReady, Filing!fiscalVars
  <1> QED
    BY <1>1, FilingStep

LEMMA FilingAgrees == FilingInv => Filing!EachChangeCounts /\ Filing!ProductionEnabled /\ Filing!AlertsGrow
  <1> SUFFICES ASSUME FilingInv PROVE Filing!EachChangeCounts /\ Filing!ProductionEnabled /\ Filing!AlertsGrow
    OBVIOUS
  <1>1. Filing!EachChangeCounts /\ Filing!ProductionEnabled
    BY DEF FilingInv, Filing!EachChangeCounts, Filing!ProductionEnabled
  <1>2. fiscal.metering \in Filing!Meterings \cup {None}
    BY DEF FilingInv, FiscalRow
  <1>3. \A n \in 1..MaxIssued : n \in Nat \ {0}
    BY MeteringAssumption
  <1> QED
    BY <1>1, <1>2, <1>3, AlertsOfMetering DEF Filing!AlertsGrow

\* The fiscal settings: of the changes that expect a version or hold the row
\* none is lost, a branch is in production only while it is enabled for it,
\* and no document makes the alert of a plan milder, for every allowance and
\* percentage.
THEOREM FiscalSettingsAgree ==
    Filing!Spec => [](Filing!EachChangeCounts /\ Filing!ProductionEnabled /\ Filing!AlertsGrow)
  BY FilingStarts, FilingInductive, FilingAgrees, PTL DEF Filing!Spec

-----------------------------------------------------------------------------
(*                                GuestPages                               *)

LinkRow == [version : Nat, hash : Nat, session : BOOLEAN]

\* A hash that is stored is of the version there is.
LinkInv == link \in [Tables -> LinkRow] /\ Linking!HashIsCurrent

LEMMA LinkWritten ==
    ASSUME LinkInv, NEW t, NEW next \in LinkRow, next.hash \in {0, next.version}, link' = [link EXCEPT ![t] = next]
    PROVE  LinkInv'
  BY DEF LinkInv, Linking!HashIsCurrent

LEMMA LinkStep == ASSUME LinkInv, Linking!Next PROVE LinkInv'
  <1>1. ASSUME UNCHANGED link PROVE LinkInv'
    BY <1>1 DEF LinkInv, Linking!HashIsCurrent
  <1>2. ASSUME NEW c \in Calls, Linking!RevokeSessions(c) PROVE LinkInv'
    <2>1. link' = [t \in Tables |-> [link[t] EXCEPT !.session = FALSE]]
      BY <1>2 DEF Linking!RevokeSessions
    <2>2. ASSUME NEW t \in Tables
          PROVE  link'[t] \in LinkRow /\ link'[t].hash = link[t].hash /\ link'[t].version = link[t].version
      BY <2>1 DEF LinkInv, LinkRow
    <2> QED
      BY <2>1, <2>2 DEF LinkInv, Linking!HashIsCurrent
  <1>3. ASSUME NEW c \in Calls, Linking!WriteHash(c) PROVE LinkInv'
    <2> DEFINE t == edit[c].table
    <2>1. CASE Linking!SameLink(t, edit[c].latest) /\ t \in Tables
      <3>1. PICK next : next = [link[t] EXCEPT !.hash = edit[c].latest]
        OBVIOUS
      <3>2. next \in LinkRow /\ next.hash = next.version
        BY <2>1, <3>1 DEF LinkInv, LinkRow, Linking!SameLink
      <3>3. link' = [link EXCEPT ![t] = next]
        BY <1>3, <2>1, <3>1 DEF Linking!WriteHash
      <3> QED
        BY <3>2, <3>3, LinkWritten
    <2>2. CASE ~(Linking!SameLink(t, edit[c].latest) /\ t \in Tables)
      <3>1. link' = link
        BY <1>3, <2>2 DEF Linking!WriteHash, LinkInv
      <3> QED
        BY <1>1, <3>1
    <2> QED
      BY <2>1, <2>2
  <1>4. ASSUME NEW t \in Tables, Linking!Rotate(t) PROVE LinkInv'
    <2>1. PICK next : next = [version |-> link[t].version + 1, hash |-> link[t].version + 1, session |-> FALSE]
      OBVIOUS
    <2>2. next \in LinkRow /\ next.hash = next.version
      BY <2>1 DEF LinkInv, LinkRow
    <2>3. link' = [link EXCEPT ![t] = next]
      BY <1>4, <2>1 DEF Linking!Rotate
    <2> QED
      BY <2>2, <2>3, LinkWritten
  <1>5. ASSUME NEW t \in Tables, Linking!ActivateService(t) PROVE LinkInv'
    <2>1. PICK next : next = [link[t] EXCEPT !.session = TRUE]
      OBVIOUS
    <2>2. next \in LinkRow /\ next.hash = link[t].hash /\ next.version = link[t].version
      BY <2>1 DEF LinkInv, LinkRow
    <2>3. link' = [link EXCEPT ![t] = next]
      BY <1>5, <2>1 DEF Linking!ActivateService
    <2> QED
      BY <2>2, <2>3, LinkWritten DEF LinkInv, Linking!HashIsCurrent
  <1>6. CASE Linking!RevisionNext
    BY <1>1, <1>6 DEF Linking!RevisionNext, Linking!StartDraft, Linking!NumberDraft, Linking!InsertDraft,
       Linking!ReadSchedule, Linking!ReadTarget, Linking!WriteSchedule, Linking!Publish, Linking!Rollback,
       Linking!FindDue, Linking!ReadPublished, Linking!Activate
  <1>7. ASSUME NEW c \in Calls, NEW mode, NEW given, Linking!UpdateSettings(c, mode, given) PROVE LinkInv'
    BY <1>1, <1>7 DEF Linking!UpdateSettings
  <1>8. ASSUME NEW c \in Calls, NEW t, Linking!ListTable(c, t) PROVE LinkInv'
    BY <1>1, <1>8 DEF Linking!ListTable
  <1>9. CASE Linking!Tick
    BY <1>1, <1>9 DEF Linking!Tick
  <1> QED
    BY <1>2, <1>3, <1>4, <1>5, <1>6, <1>7, <1>8, <1>9 DEF Linking!Next

LEMMA LinksStart == Linking!Init => LinkInv
  BY DEF Linking!Init, LinkInv, LinkRow, Linking!HashIsCurrent

LEMMA LinkInductive == LinkInv /\ [Linking!Next]_Linking!pageVars => LinkInv'
  BY LinkStep DEF LinkInv, Linking!HashIsCurrent, Linking!pageVars

\* listTables and rotate: the hash that is stored is never that of
\* a token that was replaced, although it was computed before.
THEOREM StoredHashOpensItsTable == Linking!Spec => []Linking!HashIsCurrent
  BY LinksStart, LinkInductive, PTL DEF Linking!Spec, LinkInv

RevisionRow(r) == r = [status |-> r.status, config |-> r.config, due |-> r.due] /\ r.due \in Int

EditRow(e) ==
    /\ e = [at |-> e.at, target |-> e.target, latest |-> e.latest, published |-> e.published,
            config |-> e.config, due |-> e.due, table |-> e.table]
    /\ e.due \in Int

\* Who activates looked for what was due by then.
DraftInv ==
    /\ clock \in Nat
    /\ revision = [v \in Drafting!Versions |-> revision[v]]
    /\ \A v \in Drafting!Versions : RevisionRow(revision[v])
    /\ edit = [c \in Calls |-> edit[c]]
    /\ \A c \in Calls : EditRow(edit[c]) /\ (edit[c].at \in {"due", "activate"} => edit[c].due <= clock)

\* One row of the revisions is as it was but for its status and time.
Same(r, s) == r.config = s.config /\ RevisionRow(r) /\ RevisionRow(s)

LEMMA RowSame == ASSUME NEW r, RevisionRow(r), NEW s, NEW n \in Int
                 PROVE  /\ Same(r, [r EXCEPT !.status = s]) /\ [r EXCEPT !.status = s].status = s
                        /\ Same(r, [r EXCEPT !.due = n]) /\ [r EXCEPT !.due = n].status = r.status
                        /\ Same(r, [r EXCEPT !.status = s, !.due = n]) /\ [r EXCEPT !.status = s, !.due = n].status = s
                        /\ [r EXCEPT !.status = s].due = r.due
  <1>1. PICK f : f = [r EXCEPT !.status = s]
    OBVIOUS
  <1>2. PICK g : g = [r EXCEPT !.due = n]
    OBVIOUS
  <1>3. PICK h : h = [r EXCEPT !.status = s, !.due = n]
    OBVIOUS
  <1>4. RevisionRow(f) /\ f.config = r.config /\ f.status = s /\ f.due = r.due
    BY <1>1 DEF RevisionRow
  <1>5. RevisionRow(g) /\ g.config = r.config /\ g.status = r.status
    BY <1>2 DEF RevisionRow
  <1>6. RevisionRow(h) /\ h.config = r.config /\ h.status = s
    BY <1>3 DEF RevisionRow
  <1> QED
    BY <1>1, <1>2, <1>3, <1>4, <1>5, <1>6 DEF Same

LEMMA QuietRow == EditRow(Drafting!Quiet) /\ Drafting!Quiet.at = "quiet"
  BY TimeAssumption DEF EditRow, Drafting!Quiet, Drafting!Never

\* What every step keeps.
DraftsKept == DraftInv' /\ Drafting!RevisionsKept /\ Drafting!NotBeforeItsTime

\* A request goes on, and the revisions stay.
LEMMA EditWritten ==
    ASSUME DraftInv, NEW c \in Calls, NEW e, EditRow(e), e.at \in {"due", "activate"} => e.due <= clock,
           edit' = [edit EXCEPT ![c] = e], UNCHANGED <<clock, revision>>
    PROVE  DraftsKept
  <1>1. edit' = [d \in Calls |-> edit'[d]] /\ \A d \in Calls : edit'[d] = IF d = c THEN e ELSE edit[d]
    BY DEF DraftInv
  <1>2. DraftInv'
    BY <1>1 DEF DraftInv
  <1>3. Drafting!RevisionsKept /\ Drafting!NotBeforeItsTime
    BY DEF Drafting!RevisionsKept, Drafting!NotBeforeItsTime
  <1> QED
    BY <1>2, <1>3 DEF DraftsKept

\* A request ends with other revisions.
LEMMA RevisionsWritten ==
    ASSUME DraftInv, NEW c \in Calls, edit' = [edit EXCEPT ![c] = Drafting!Quiet], UNCHANGED clock,
           revision' = [v \in Drafting!Versions |-> revision'[v]],
           \A v \in Drafting!Versions : /\ RevisionRow(revision'[v])
                                        /\ revision[v].status # "absent" => revision'[v].config = revision[v].config,
           edit[c].at = "activate" =>
              \A v \in Drafting!Versions :
                 revision[v].status = "draft" /\ revision'[v].status = "published" => revision[v].due <= clock
    PROVE  DraftsKept
  <1>1. edit' = [d \in Calls |-> edit'[d]] /\ \A d \in Calls : edit'[d] = IF d = c THEN Drafting!Quiet ELSE edit[d]
    BY DEF DraftInv
  <1>2. DraftInv'
    BY <1>1, QuietRow DEF DraftInv
  <1>3. Drafting!RevisionsKept
    BY DEF Drafting!RevisionsKept
  <1>4. \A d \in Calls : edit[d].at = "activate" /\ edit'[d] = Drafting!Quiet => d = c
    BY <1>1, QuietRow
  <1>5. Drafting!NotBeforeItsTime
    BY <1>4 DEF Drafting!NotBeforeItsTime
  <1> QED
    BY <1>2, <1>3, <1>5 DEF DraftsKept

\* The revisions after some of them are archived.
LEMMA ArchivedRows ==
    ASSUME DraftInv, NEW seen
    PROVE  /\ Drafting!Archived(seen) = [v \in Drafting!Versions |-> Drafting!Archived(seen)[v]]
           /\ \A v \in Drafting!Versions : /\ Same(revision[v], Drafting!Archived(seen)[v])
                                           /\ Drafting!Archived(seen)[v].status \in {"archived", revision[v].status}
  <1>1. ASSUME NEW v \in Drafting!Versions
        PROVE  Drafting!Archived(seen)[v] = revision[v]
               \/ Drafting!Archived(seen)[v] = [revision[v] EXCEPT !.status = "archived"]
    BY DEF Drafting!Archived
  <1>2. \A v \in Drafting!Versions : RevisionRow(revision[v])
    BY DEF DraftInv
  <1>3. ASSUME NEW r, RevisionRow(r)
        PROVE  Same(r, r) /\ Same(r, [r EXCEPT !.status = "archived"]) /\ [r EXCEPT !.status = "archived"].status = "archived"
    <2>1. 0 \in Int
      OBVIOUS
    <2>2. Same(r, r)
      BY <1>3 DEF Same
    <2> QED
      BY <1>3, <2>1, <2>2, RowSame
  <1>4. \A v \in Drafting!Versions : /\ Same(revision[v], Drafting!Archived(seen)[v])
                                     /\ Drafting!Archived(seen)[v].status \in {"archived", revision[v].status}
    BY <1>1, <1>2, <1>3
  <1>5. Drafting!Archived(seen) = [v \in Drafting!Versions |-> Drafting!Archived(seen)[v]]
    BY DEF Drafting!Archived
  <1> QED
    BY <1>4, <1>5

\* One revision is published.
Publishing(rows, t) == [rows EXCEPT ![t].status = "published", ![t].due = Drafting!Never]

LEMMA NeverIsTime == Drafting!Never \in Int
  BY TimeAssumption DEF Drafting!Never

LEMMA PublishedRow ==
    ASSUME NEW rows, NEW V, rows = [v \in V |-> rows[v]], \A v \in V : RevisionRow(rows[v]), NEW t
    PROVE  /\ Publishing(rows, t) = [v \in V |-> Publishing(rows, t)[v]]
           /\ \A v \in V : Same(rows[v], Publishing(rows, t)[v]) /\ (v # t => Publishing(rows, t)[v] = rows[v])
  <1>1. DOMAIN rows = V
    OBVIOUS
  <1>2. Publishing(rows, t) =
            [v \in V |-> IF v = t THEN [rows[v] EXCEPT !.status = "published", !.due = Drafting!Never] ELSE rows[v]]
    BY <1>1 DEF Publishing
  <1>3. ASSUME NEW v \in V
        PROVE  Same(rows[v], rows[v]) /\ Same(rows[v], [rows[v] EXCEPT !.status = "published", !.due = Drafting!Never])
    <2>1. Same(rows[v], rows[v])
      BY DEF Same
    <2> QED
      BY <2>1, NeverIsTime, RowSame
  <1> QED
    BY <1>2, <1>3

\* An update that may not take place leaves the rows.
LEMMA RowsStay == ASSUME DraftInv PROVE /\ revision = [v \in Drafting!Versions |-> revision[v]]
                                        /\ \A v \in Drafting!Versions : RevisionRow(revision[v])
  BY DEF DraftInv

LEMMA DraftInserted == ASSUME DraftInv, NEW c \in Calls, Drafting!InsertDraft(c) PROVE DraftsKept
  <1> DEFINE v == edit[c].latest + 1
             row == [status |-> "draft", config |-> edit[c].config, due |-> edit[c].due]
  <1>1. RevisionRow(row)
    BY DEF DraftInv, EditRow, RevisionRow
  <1> HIDE DEF row
  <1>2. /\ edit[c].at = "insert" /\ edit' = [edit EXCEPT ![c] = Drafting!Quiet] /\ UNCHANGED clock
        /\ revision' = IF Drafting!VersionFree(v) THEN [revision EXCEPT ![v] = row] ELSE revision
    BY DEF Drafting!InsertDraft, Drafting!End, row
  <1>3. v \in Drafting!Versions /\ Drafting!VersionFree(v) => revision[v].status = "absent"
    BY DEF Drafting!VersionFree, Drafting!Absent
  <1> HIDE DEF v
  <1>4. /\ revision' = [w \in Drafting!Versions |-> revision'[w]]
        /\ \A w \in Drafting!Versions : revision'[w] = revision[w] \/ (revision[w].status = "absent" /\ revision'[w] = row)
    BY <1>2, <1>3, RowsStay
  <1> QED
    BY <1>1, <1>2, <1>4, RowsStay, RevisionsWritten

LEMMA ScheduleWritten == ASSUME DraftInv, NEW c \in Calls, Drafting!WriteSchedule(c) PROVE DraftsKept
  <1> DEFINE v == edit[c].target
  <1>1. PICK row : row = [revision[v] EXCEPT !.due = edit[c].due]
    OBVIOUS
  <1>2. /\ edit[c].at = "schedule" /\ edit' = [edit EXCEPT ![c] = Drafting!Quiet] /\ UNCHANGED clock
        /\ revision' = revision \/ revision' = [revision EXCEPT ![v] = row]
    BY <1>1 DEF Drafting!WriteSchedule, Drafting!End
  <1>3. edit[c].due \in Int
    BY DEF DraftInv, EditRow
  <1>4. v \in Drafting!Versions => Same(revision[v], row)
    BY <1>1, <1>3, RowsStay, RowSame
  <1>5. /\ revision' = [w \in Drafting!Versions |-> revision'[w]]
        /\ \A w \in Drafting!Versions : revision'[w] = revision[w] \/ (w = v /\ revision'[w] = row)
    BY <1>2, RowsStay
  <1> QED
    BY <1>2, <1>4, <1>5, RowsStay, RevisionsWritten DEF Same

LEMMA DraftPublished == ASSUME DraftInv, NEW c \in Calls, Drafting!Publish(c) PROVE DraftsKept
  <1> DEFINE rows == Drafting!Archived(edit[c].published)
  <1>1. /\ edit[c].at = "publish" /\ edit' = [edit EXCEPT ![c] = Drafting!Quiet] /\ UNCHANGED clock
        /\ revision' = Publishing(rows, edit[c].target)
    BY DEF Drafting!Publish, Drafting!End, Publishing
  <1>2. /\ rows = [v \in Drafting!Versions |-> rows[v]]
        /\ \A v \in Drafting!Versions : Same(revision[v], rows[v])
    BY ArchivedRows
  <1> HIDE DEF rows
  <1>3. \A v \in Drafting!Versions : RevisionRow(rows[v])
    BY <1>2 DEF Same
  <1>4. /\ revision' = [v \in Drafting!Versions |-> revision'[v]]
        /\ \A v \in Drafting!Versions : Same(rows[v], revision'[v])
    BY <1>1, <1>2, <1>3, PublishedRow
  <1> QED
    BY <1>1, <1>2, <1>4, RevisionsWritten DEF Same

LEMMA RolledBack == ASSUME DraftInv, NEW c \in Calls, Drafting!Rollback(c) PROVE DraftsKept
  <1> DEFINE v == edit[c].latest + 1
             rows == Drafting!Archived(edit[c].published)
             row == [status |-> "published", config |-> revision[edit[c].target].config, due |-> Drafting!Never]
  <1>1. RevisionRow(row)
    BY NeverIsTime DEF RevisionRow
  <1>2. /\ edit[c].at = "rollback" /\ edit' = [edit EXCEPT ![c] = Drafting!Quiet] /\ UNCHANGED clock
        /\ revision' = IF Drafting!VersionFree(v) THEN [rows EXCEPT ![v] = row] ELSE revision
    BY DEF Drafting!Rollback, Drafting!End
  <1>3. /\ rows = [w \in Drafting!Versions |-> rows[w]]
        /\ \A w \in Drafting!Versions : Same(revision[w], rows[w])
    BY ArchivedRows
  <1>4. Drafting!VersionFree(v) => revision[v].status = "absent"
    BY DEF Drafting!VersionFree, Drafting!Absent
  <1> HIDE DEF v, row, rows
  <1>5. CASE Drafting!VersionFree(v)
    <2>1. /\ revision' = [w \in Drafting!Versions |-> revision'[w]]
          /\ \A w \in Drafting!Versions : revision'[w] = rows[w] \/ (revision[w].status = "absent" /\ revision'[w] = row)
      BY <1>2, <1>3, <1>4, <1>5
    <2> QED
      BY <1>1, <1>2, <1>3, <2>1, RevisionsWritten DEF Same
  <1>6. CASE ~Drafting!VersionFree(v)
    BY <1>2, <1>6, RowsStay, RevisionsWritten
  <1> QED
    BY <1>5, <1>6

LEMMA DraftActivated == ASSUME DraftInv, NEW c \in Calls, Drafting!Activate(c) PROVE DraftsKept
  <1> DEFINE t == edit[c].target
             rows == Drafting!Archived(edit[c].published)
             others == [v \in Drafting!Versions |-> IF v # t /\ Drafting!Due(v, edit[c].due)
                                      THEN [revision[v] EXCEPT !.status = "archived"] ELSE rows[v]]
  <1>1. /\ edit[c].at = "activate" /\ edit' = [edit EXCEPT ![c] = Drafting!Quiet] /\ UNCHANGED clock
        /\ revision' = IF Drafting!StillDue(t, edit[c].due)
                       THEN Publishing(others, t) ELSE others
    BY DEF Drafting!Activate, Drafting!End, Publishing
  <1>2. \A v \in Drafting!Versions : Same(revision[v], rows[v]) /\ rows[v].status \in {"archived", revision[v].status}
    BY ArchivedRows
  <1> HIDE DEF rows
  <1>3. ASSUME NEW v \in Drafting!Versions
        PROVE  Same(revision[v], others[v]) /\ others[v].status \in {"archived", revision[v].status}
    <2>1. PICK n \in Int : n = 0
      OBVIOUS
    <2>2. RevisionRow(revision[v])
      BY RowsStay
    <2>3. /\ Same(revision[v], [revision[v] EXCEPT !.status = "archived"])
          /\ [revision[v] EXCEPT !.status = "archived"].status = "archived"
      BY <2>1, <2>2, RowSame
    <2>4. others[v] = rows[v] \/ others[v] = [revision[v] EXCEPT !.status = "archived"]
      OBVIOUS
    <2> QED
      BY <1>2, <2>3, <2>4
  <1>4. others = [v \in Drafting!Versions |-> others[v]]
    OBVIOUS
  <1> HIDE DEF others
  <1>5. \A v \in Drafting!Versions : RevisionRow(others[v])
    BY <1>3 DEF Same
  <1>6. CASE Drafting!StillDue(t, edit[c].due)
    <2>1. /\ revision' = [v \in Drafting!Versions |-> revision'[v]]
          /\ \A v \in Drafting!Versions : Same(others[v], revision'[v]) /\ (v # t => revision'[v] = others[v])
      BY <1>1, <1>4, <1>5, <1>6, PublishedRow
    <2>2. revision[t].due <= edit[c].due /\ edit[c].due <= clock /\ edit[c].due \in Int /\ clock \in Int
      BY <1>1, <1>6 DEF Drafting!StillDue, Drafting!Due, DraftInv, EditRow
    <2>3. ASSUME NEW v \in Drafting!Versions, revision[v].status = "draft", revision'[v].status = "published"
          PROVE  revision[v].due <= clock
      <3>1. v = t
        BY <1>3, <2>1, <2>3
      <3>2. revision[t].due \in Int
        BY <3>1, RowsStay DEF RevisionRow
      <3> QED
        BY <2>2, <3>1, <3>2
    <2>4. \A v \in Drafting!Versions : RevisionRow(revision'[v]) /\ revision'[v].config = revision[v].config
      BY <1>3, <2>1 DEF Same
    <2> QED
      BY <1>1, <2>1, <2>3, <2>4, RevisionsWritten
  <1>7. CASE ~Drafting!StillDue(t, edit[c].due)
    <2>1. revision' = others
      BY <1>1, <1>7
    <2>2. \A v \in Drafting!Versions : RevisionRow(others[v]) /\ others[v].config = revision[v].config
      BY <1>3 DEF Same
    <2> QED
      BY <1>1, <1>3, <1>4, <2>1, <2>2, RevisionsWritten
  <1> QED
    BY <1>6, <1>7


\* Requests that leave the revisions: they begin, number a draft, or look for
\* what is published.
Preparing(c) ==
    \/ \E given : \E due \in 1..Drafting!Never : Drafting!StartDraft(c, given, due)
    \/ Drafting!NumberDraft(c)
    \/ \E v, due : Drafting!ReadSchedule(c, v, due)
    \/ \E v : \E at \in {"publish", "rollback"} : Drafting!ReadTarget(c, v, at)
    \/ Drafting!FindDue(c)
    \/ Drafting!ReadPublished(c)

LEMMA EditStep ==
    ASSUME DraftInv, NEW c \in Calls, Preparing(c)
    PROVE  DraftsKept
  <1>0. EditRow(edit[c]) /\ EditRow(Drafting!Quiet) /\ clock \in Int
    BY QuietRow DEF DraftInv
  <1>1. ASSUME NEW given, NEW due \in 1..Drafting!Never, Drafting!StartDraft(c, given, due) PROVE DraftsKept
    <2>0. PICK config : config = Drafting!Merged(Drafting!Shown, given)
      OBVIOUS
    <2>4. due \in Int
      BY NeverIsTime
    <2>1. PICK e : e = [Drafting!Quiet EXCEPT !.at = "draft", !.config = config, !.due = due]
      OBVIOUS
    <2>2. EditRow(e) /\ e.at = "draft"
      BY <1>0, <2>1, <2>4 DEF EditRow
    <2>3. edit' = [edit EXCEPT ![c] = e] /\ UNCHANGED <<clock, revision>>
      BY <1>1, <2>0, <2>1 DEF Drafting!StartDraft, Drafting!Begin
    <2> QED
      BY <2>2, <2>3, EditWritten
  <1>2. CASE Drafting!NumberDraft(c)
    <2>1. PICK e : e = [edit[c] EXCEPT !.at = "insert", !.latest = Drafting!Latest]
      OBVIOUS
    <2>2. EditRow(e) /\ e.at = "insert"
      BY <1>0, <2>1 DEF EditRow
    <2>3. edit' = [edit EXCEPT ![c] = e] /\ UNCHANGED <<clock, revision>>
      BY <1>2, <2>1 DEF Drafting!NumberDraft
    <2> QED
      BY <2>2, <2>3, EditWritten
  <1>3. ASSUME NEW v, NEW due, Drafting!ReadSchedule(c, v, due) PROVE DraftsKept
    <2>4. due \in clock + 1 .. MaxTime
      BY <1>3 DEF Drafting!ReadSchedule
    <2>0. due \in Int
      BY <1>0, <2>4, TimeAssumption
    <2>1. PICK e : e = [Drafting!Quiet EXCEPT !.at = "schedule", !.target = v, !.due = due]
      OBVIOUS
    <2>2. EditRow(e) /\ e.at = "schedule"
      BY <1>0, <2>0, <2>1 DEF EditRow
    <2>3. edit' = [edit EXCEPT ![c] = e] /\ UNCHANGED <<clock, revision>>
      BY <1>3, <2>1 DEF Drafting!ReadSchedule, Drafting!Begin
    <2> QED
      BY <2>2, <2>3, EditWritten
  <1>4. ASSUME NEW v, NEW at \in {"publish", "rollback"}, Drafting!ReadTarget(c, v, at) PROVE DraftsKept
    <2>0. PICK seen : seen = Drafting!HasStatus("published")
      OBVIOUS
    <2>1. PICK e : e = [Drafting!Quiet EXCEPT !.at = at, !.target = v, !.latest = Drafting!Latest, !.published = seen]
      OBVIOUS
    <2>2. EditRow(e) /\ e.at = at
      BY <1>0, <2>1 DEF EditRow
    <2>3. edit' = [edit EXCEPT ![c] = e] /\ UNCHANGED <<clock, revision>>
      BY <1>4, <2>0, <2>1 DEF Drafting!ReadTarget, Drafting!Begin
    <2> QED
      BY <2>2, <2>3, EditWritten
  <1>5. CASE Drafting!FindDue(c)
    <2>0. PICK found : found = Drafting!Max({v \in Drafting!Versions : Drafting!Due(v, clock)})
      OBVIOUS
    <2>1. PICK e : e = [Drafting!Quiet EXCEPT !.at = "due", !.target = found, !.due = clock]
      OBVIOUS
    <2>2. EditRow(e) /\ e.due = clock
      BY <1>0, <2>1 DEF EditRow
    <2>3. edit' = [edit EXCEPT ![c] = e] /\ UNCHANGED <<clock, revision>>
      BY <1>5, <2>0, <2>1 DEF Drafting!FindDue, Drafting!Begin
    <2>4. e.due <= clock
      BY <1>0, <2>2
    <2> QED
      BY <2>2, <2>3, <2>4, EditWritten
  <1>6. CASE Drafting!ReadPublished(c)
    <2>0. PICK seen : seen = Drafting!HasStatus("published")
      OBVIOUS
    <2>1. PICK e : e = [edit[c] EXCEPT !.at = "activate", !.published = seen]
      OBVIOUS
    <2>2. EditRow(e) /\ e.due = edit[c].due
      BY <1>0, <2>1 DEF EditRow
    <2>3. edit' = [edit EXCEPT ![c] = e] /\ UNCHANGED <<clock, revision>> /\ edit[c].due <= clock
      BY <1>6, <2>0, <2>1 DEF Drafting!ReadPublished, DraftInv
    <2> QED
      BY <2>2, <2>3, EditWritten
  <1> QED
    BY <1>1, <1>2, <1>3, <1>4, <1>5, <1>6 DEF Preparing

\* The other steps: the settings, the sessions, the links and the time.
LEMMA PageStep ==
    ASSUME DraftInv, Drafting!Next, ~Drafting!RevisionNext
    PROVE  DraftsKept
  <1>1. ASSUME NEW c \in Calls, NEW mode, NEW given, Drafting!UpdateSettings(c, mode, given) PROVE DraftsKept
    <2>1. CASE mode = "disabled"
      <3>1. PICK e : e = [Drafting!Quiet EXCEPT !.at = "revoke"]
        OBVIOUS
      <3>2. EditRow(e) /\ e.at = "revoke"
        BY <3>1, QuietRow DEF EditRow
      <3>3. edit' = [edit EXCEPT ![c] = e] /\ UNCHANGED <<clock, revision>>
        BY <1>1, <2>1, <3>1 DEF Drafting!UpdateSettings, Drafting!Begin
      <3> QED
        BY <3>2, <3>3, EditWritten
    <2>2. CASE mode # "disabled"
      BY <1>1, <2>2 DEF Drafting!UpdateSettings, DraftsKept, DraftInv, Drafting!RevisionsKept, Drafting!NotBeforeItsTime
    <2> QED
      BY <2>1, <2>2
  <1>2. ASSUME NEW c \in Calls, Drafting!RevokeSessions(c) \/ Drafting!WriteHash(c) PROVE DraftsKept
    BY <1>2, QuietRow, EditWritten DEF Drafting!RevokeSessions, Drafting!WriteHash, Drafting!End
  <1>3. CASE Drafting!Tick
    <2>1. clock \in Nat /\ clock' = clock + 1 /\ UNCHANGED <<revision, edit>>
      BY <1>3 DEF Drafting!Tick, DraftInv
    <2>2. \A n \in Int : n <= clock => n <= clock'
      BY <2>1
    <2>3. DraftInv'
      BY <2>1, <2>2 DEF DraftInv, EditRow
    <2> QED
      BY <2>1, <2>3 DEF DraftsKept, Drafting!RevisionsKept, Drafting!NotBeforeItsTime
  <1>4. ASSUME NEW c \in Calls, NEW t \in PageTables, Drafting!ListTable(c, t) PROVE DraftsKept
    <2>1. PICK e : e = [Drafting!Quiet EXCEPT !.at = "hash", !.table = t, !.latest = link[t].version]
      OBVIOUS
    <2>2. EditRow(e) /\ e.at = "hash"
      BY <2>1, QuietRow DEF EditRow
    <2>3. edit' = [edit EXCEPT ![c] = e] /\ UNCHANGED <<clock, revision>>
      BY <1>4, <2>1 DEF Drafting!ListTable, Drafting!Begin
    <2> QED
      BY <2>2, <2>3, EditWritten
  <1>5. ASSUME NEW t \in PageTables, Drafting!Rotate(t) \/ Drafting!ActivateService(t) PROVE DraftsKept
    <2>1. UNCHANGED <<clock, edit, revision>>
      BY <1>5 DEF Drafting!Rotate, Drafting!ActivateService
    <2>2. DraftInv'
      BY <2>1 DEF DraftInv, EditRow
    <2> QED
      BY <2>1, <2>2 DEF DraftsKept, Drafting!RevisionsKept, Drafting!NotBeforeItsTime
  <1> QED
    <2>1. \/ \E c \in Calls : \/ \E mode, given : Drafting!UpdateSettings(c, mode, given)
                             \/ Drafting!RevokeSessions(c) \/ Drafting!WriteHash(c)
                             \/ \E t \in PageTables : Drafting!ListTable(c, t)
          \/ \E t \in PageTables : Drafting!Rotate(t) \/ Drafting!ActivateService(t)
          \/ Drafting!Tick
      BY DEF Drafting!Next
    <2> QED
      BY <1>1, <1>2, <1>3, <1>4, <1>5, <2>1

LEMMA DraftStep == ASSUME DraftInv, Drafting!Next PROVE DraftsKept
  <1>1. CASE Drafting!RevisionNext
    <2>1. PICK c \in Calls : \/ Preparing(c)
                             \/ Drafting!InsertDraft(c) \/ Drafting!WriteSchedule(c) \/ Drafting!Publish(c)
                             \/ Drafting!Rollback(c) \/ Drafting!Activate(c)
      BY <1>1 DEF Drafting!RevisionNext, Preparing
    <2> QED
      BY <2>1, EditStep, DraftInserted, ScheduleWritten, DraftPublished, RolledBack, DraftActivated
  <1> QED
    BY <1>1, PageStep

LEMMA DraftStarts == Drafting!Init => DraftInv
  <1> SUFFICES ASSUME Drafting!Init PROVE DraftInv
    OBVIOUS
  <1>1. RevisionRow(Drafting!Absent)
    BY NeverIsTime DEF RevisionRow, Drafting!Absent
  <1> QED
    BY <1>1, QuietRow DEF Drafting!Init, DraftInv

LEMMA DraftKeeps == DraftInv /\ [Drafting!Next]_Drafting!pageVars => DraftsKept
  <1>1. DraftInv /\ UNCHANGED Drafting!pageVars => DraftsKept
    <2> SUFFICES ASSUME DraftInv, UNCHANGED Drafting!pageVars PROVE DraftsKept
      OBVIOUS
    <2>1. UNCHANGED <<clock, edit, revision>>
      BY DEF Drafting!pageVars
    <2>2. DraftInv'
      BY <2>1 DEF DraftInv, EditRow
    <2> QED
      BY <2>1, <2>2 DEF DraftsKept, Drafting!RevisionsKept, Drafting!NotBeforeItsTime
  <1> QED
    BY <1>1, DraftStep

\* The revisions of the guest pages: one stays what it was when it was
\* numbered, and a draft is activated by the schedule only when its time has
\* come, for every number of editors between whose statements others write.
THEOREM RevisionsStayAndWait ==
    Drafting!Spec => [][Drafting!RevisionsKept /\ Drafting!NotBeforeItsTime]_Drafting!pageVars
  <1>1. DraftInv /\ [Drafting!Next]_Drafting!pageVars
            => DraftInv' /\ Drafting!RevisionsKept /\ Drafting!NotBeforeItsTime
    BY DraftKeeps DEF DraftsKept
  <1> QED
    BY <1>1, DraftStarts, PTL DEF Drafting!Spec

-----------------------------------------------------------------------------
(*                                 Members                                 *)

InvitationRow == [status : {"absent", "pending", "accepted", "expired"}, email : Emails \cup {None},
                  role : Roles \cup {None}, sent : Nat, accepted : Nat]

Holding == {"taken", "joined"}

AskRow == [at : {"idle", "delete", "invite", "assign", "deactivate"} \cup Holding, invitation : Invitations \cup {None},
           email : Emails \cup {None}, role : Roles \cup {None}, known : BOOLEAN, row : Nat]

\* What an invitation and what a user has are there.
InvitationReady(v) ==
    /\ v.accepted <= v.sent
    /\ v.status = "pending" => v.accepted < v.sent
    /\ v.status # "absent" => v.email \in Emails
    /\ v.accepted > 0 => /\ v.status # "absent" /\ user[v.email] # "absent"
                         /\ v.role # None => grant[v.email] # <<>>
    /\ v.role # None => role[v.role] = "live"

GrantsLive == \A e \in Emails : \A n \in DOMAIN grant[e] : role[grant[e][n]] = "live"

\* An acceptance holds its invitation, which stays as it was taken; the row
\* that was found stays.
AskReady(a) ==
    /\ a.at \in Holding => /\ a.invitation \in Invitations /\ invitation[a.invitation].status = "pending"
                           /\ a.email = invitation[a.invitation].email /\ a.role = invitation[a.invitation].role
    /\ a.at \in {"joined", "assign"} => a.email \in Emails /\ a.row \in DOMAIN grant[a.email] \cup {0}
    /\ a.at = "assign" => a.role \in Roles
    /\ a.at = "invite" => a.email \in Emails

HeldByOne ==
    \A c, d \in Calls :
        asked[c].at \in Holding /\ asked[d].at \in Holding /\ asked[c].invitation = asked[d].invitation => c = d

MemberTypes ==
    /\ role \in [Roles -> {"absent", "live", "deleted"}]
    /\ invitation \in [Invitations -> InvitationRow]
    /\ user \in [Emails -> {"absent", "active", "inactive"}]
    /\ grant \in [Emails -> Seq(Roles)]
    /\ asked \in [Calls -> AskRow]

MemberInv ==
    /\ MemberTypes
    /\ \A i \in Invitations : InvitationReady(invitation[i])
    /\ GrantsLive
    /\ \A c \in Calls : AskReady(asked[c])
    /\ HeldByOne

LEMMA AwayRow == Joining!Away \in AskRow /\ Joining!Away.at = "idle" /\ AskReady(Joining!Away)
  BY DEF Joining!Away, AskRow, AskReady, Holding

LEMMA NoRoleIsNone == \A r \in Roles : r # None
  BY MissingAssumption

LEMMA MembersStart == Joining!Init => MemberInv
  <1> SUFFICES ASSUME Joining!Init PROVE MemberInv
    OBVIOUS
  <1>1. MemberTypes
    BY AwayRow DEF Joining!Init, MemberTypes, InvitationRow
  <1>2. \A i \in Invitations : InvitationReady(invitation[i])
    BY DEF Joining!Init, InvitationReady
  <1>3. GrantsLive
    BY DEF Joining!Init, GrantsLive
  <1>4. HeldByOne /\ \A c \in Calls : AskReady(asked[c])
    BY AwayRow DEF Joining!Init, HeldByOne, Holding
  <1> QED
    BY <1>1, <1>2, <1>3, <1>4 DEF MemberInv

\* What is promised of the members.
LEMMA MembersAgree == ASSUME MemberInv PROVE Joining!AcceptedOnce /\ Joining!RolesExist
  <1>1. Joining!AcceptedOnce
    BY DEF MemberInv, InvitationReady, Joining!AcceptedOnce
  <1>2. Joining!RolesExist
    BY NoRoleIsNone DEF MemberInv, InvitationReady, GrantsLive, Joining!RolesExist, Joining!Named, Joining!Live
  <1> QED
    BY <1>1, <1>2

\* A request begins, goes on or ends.
LEMMA AskedGoesOn ==
    ASSUME MemberInv, NEW c \in Calls, NEW a \in AskRow, AskReady(a), asked' = [asked EXCEPT ![c] = a],
           UNCHANGED <<role, invitation, user, grant>>,
           a.at \in Holding => \A d \in Calls : d # c => asked[d].invitation # a.invitation
    PROVE  MemberInv'
  <1>1. \A d \in Calls : asked'[d] = IF d = c THEN a ELSE asked[d]
    BY DEF MemberInv, MemberTypes
  <1>2. MemberTypes'
    BY DEF MemberInv, MemberTypes
  <1>3. \A i \in Invitations : InvitationReady(invitation[i])'
    BY DEF MemberInv, InvitationReady
  <1>4. GrantsLive'
    BY DEF MemberInv, GrantsLive
  <1>5. \A d \in Calls : AskReady(asked[d])'
    BY <1>1 DEF MemberInv, AskReady
  <1>6. HeldByOne'
    BY <1>1 DEF MemberInv, HeldByOne
  <1> QED
    BY <1>2, <1>3, <1>4, <1>5, <1>6 DEF MemberInv

\* What other requests know stays when one ends, invitations that are held
\* and roles that are given stay.
LEMMA AskedEnds ==
    ASSUME MemberInv, NEW c \in Calls, asked' = [asked EXCEPT ![c] = Joining!Away] \/ asked' = asked,
           \A d \in Calls : asked'[d].at \in Holding =>
               invitation'[asked[d].invitation] = invitation[asked[d].invitation],
           \A e \in Emails : DOMAIN grant[e] \subseteq DOMAIN grant'[e]
    PROVE  /\ asked' \in [Calls -> AskRow] /\ HeldByOne'
           /\ \A d \in Calls : AskReady(asked[d])'
  <1>1. asked' \in [Calls -> AskRow] /\ \A d \in Calls : asked'[d] = asked[d] \/ asked'[d] = Joining!Away
    BY AwayRow DEF MemberInv, MemberTypes
  <1>2. HeldByOne'
    BY <1>1, AwayRow DEF MemberInv, HeldByOne, Holding
  <1>3. ASSUME NEW d \in Calls PROVE AskReady(asked[d])'
    <2>1. CASE asked'[d] = Joining!Away
      BY <2>1 DEF AskReady, Joining!Away, Holding
    <2>2. CASE asked'[d] = asked[d]
      BY <2>2 DEF MemberInv, AskReady
    <2> QED
      BY <1>1, <2>1, <2>2
  <1> QED
    BY <1>1, <1>2, <1>3

\* The roles of a user after one is given.
LEMMA RowsGranted ==
    ASSUME NEW s \in Seq(Roles), NEW r \in Roles, NEW n \in DOMAIN s \cup {0},
           NEW t, t = IF n = 0 THEN Append(s, r) ELSE [s EXCEPT ![n] = r]
    PROVE  /\ t \in Seq(Roles) /\ t # <<>> /\ DOMAIN s \subseteq DOMAIN t
           /\ \A k \in DOMAIN t : t[k] = r \/ (k \in DOMAIN s /\ t[k] = s[k])
  <1>1. CASE n = 0
    BY <1>1
  <1>2. CASE n # 0
    <2>1. n \in DOMAIN s /\ t = [s EXCEPT ![n] = r] /\ DOMAIN s = 1..Len(s)
      BY <1>2
    <2>5. Len(s) \in Nat /\ \A k \in 1..Len(s) : s[k] \in Roles
      OBVIOUS
    <2>6. t = [k \in 1..Len(s) |-> IF k = n THEN r ELSE s[k]]
      BY <2>1
    <2>2. DOMAIN t = DOMAIN s /\ t \in [1..Len(s) -> Roles]
      BY <2>1, <2>5, <2>6
    <2>3. t \in Seq(Roles)
      BY <2>2, <2>5
    <2>4. t # <<>>
      <3>1. DOMAIN t # {}
        BY <2>1, <2>2
      <3>2. DOMAIN <<>> = {}
        OBVIOUS
      <3> QED
        BY <3>1, <3>2
    <2> QED
      BY <2>1, <2>2, <2>3, <2>4
  <1> QED
    BY <1>1, <1>2

\* A role is given to a user: the roles of all stay live, and nobody loses one.
LEMMA GrantStep ==
    ASSUME MemberInv, NEW e \in Emails, NEW r \in Roles, role[r] = "live", NEW n \in DOMAIN grant[e] \cup {0},
           Joining!Granted(e, n, r), UNCHANGED role
    PROVE  /\ grant' \in [Emails -> Seq(Roles)] /\ GrantsLive' /\ grant'[e] # <<>>
           /\ \A f \in Emails : DOMAIN grant[f] \subseteq DOMAIN grant'[f] /\ (grant[f] # <<>> => grant'[f] # <<>>)
  <1>1. grant[e] \in Seq(Roles) /\ grant \in [Emails -> Seq(Roles)]
    BY DEF MemberInv, MemberTypes
  <1>2. PICK t : t = IF n = 0 THEN Append(grant[e], r) ELSE [grant[e] EXCEPT ![n] = r]
    OBVIOUS
  <1>3. /\ t \in Seq(Roles) /\ t # <<>> /\ DOMAIN grant[e] \subseteq DOMAIN t
        /\ \A k \in DOMAIN t : t[k] = r \/ (k \in DOMAIN grant[e] /\ t[k] = grant[e][k])
    BY <1>1, <1>2, RowsGranted
  <1>4. grant' = [grant EXCEPT ![e] = t]
    BY <1>2 DEF Joining!Granted
  <1>5. \A f \in Emails : grant'[f] = IF f = e THEN t ELSE grant[f]
    BY <1>1, <1>4
  <1>6. grant' \in [Emails -> Seq(Roles)]
    BY <1>1, <1>3, <1>4
  <1>7. GrantsLive'
    BY <1>3, <1>5 DEF MemberInv, GrantsLive
  <1> QED
    BY <1>3, <1>5, <1>6, <1>7

LEMMA RoleCreated == ASSUME MemberInv, NEW r \in Roles, Joining!CreateRole(r) PROVE MemberInv'
  <1>1. /\ role[r] = "absent" /\ role' = [role EXCEPT ![r] = "live"] /\ UNCHANGED <<invitation, user, grant, asked>>
    BY DEF Joining!CreateRole
  <1>2. \A q : q \in Roles /\ role[q] = "live" => role'[q] = "live"
    BY <1>1 DEF MemberInv, MemberTypes
  <1>3. MemberTypes'
    BY <1>1 DEF MemberInv, MemberTypes
  <1>4. ASSUME NEW i \in Invitations PROVE InvitationReady(invitation[i])'
    <2>1. invitation[i] \in InvitationRow
      BY DEF MemberInv, MemberTypes
    <2>2. invitation[i].role \in Roles \cup {None}
      BY <2>1 DEF InvitationRow
    <2> QED
      BY <1>1, <1>2, <2>2 DEF MemberInv, InvitationReady
  <1>5. GrantsLive'
    <2>1. \A e \in Emails : \A n \in DOMAIN grant[e] : grant[e][n] \in Roles
      BY DEF MemberInv, MemberTypes
    <2> QED
      BY <1>1, <1>2, <2>1 DEF MemberInv, GrantsLive
  <1> QED
    BY <1>1, <1>3, <1>4, <1>5 DEF MemberInv, AskReady, HeldByOne

LEMMA RoleDeleted == ASSUME MemberInv, NEW c \in Calls, Joining!DeleteRole(c) PROVE MemberInv'
  <1> DEFINE r == asked[c].role
  <1>1. /\ role' = role \/ (~Joining!Named(r) /\ role' = [role EXCEPT ![r] = "deleted"])
        /\ asked' = [asked EXCEPT ![c] = Joining!Away] /\ UNCHANGED <<invitation, user, grant>>
    BY DEF Joining!DeleteRole, Joining!End
  <1>2. asked' \in [Calls -> AskRow] /\ HeldByOne' /\ \A d \in Calls : AskReady(asked[d])'
    BY <1>1, AskedEnds
  <1>3. MemberTypes'
    BY <1>1, <1>2 DEF MemberInv, MemberTypes
  <1>4. ASSUME NEW i \in Invitations PROVE InvitationReady(invitation[i])'
    <2>1. invitation[i] \in InvitationRow
      BY DEF MemberInv, MemberTypes
    <2>2. invitation[i].role \in Roles \cup {None}
      BY <2>1 DEF InvitationRow
    <2>3. invitation[i].role # None => role'[invitation[i].role] = role[invitation[i].role]
      BY <1>1, <2>2 DEF MemberInv, MemberTypes, Joining!Named
    <2> QED
      BY <1>1, <2>3 DEF MemberInv, InvitationReady
  <1>5. GrantsLive'
    <2>1. \A e \in Emails : \A n \in DOMAIN grant[e] : grant[e][n] \in Roles
      BY DEF MemberInv, MemberTypes
    <2>2. \A e \in Emails : \A n \in DOMAIN grant[e] : role'[grant[e][n]] = role[grant[e][n]]
      BY <1>1, <2>1 DEF MemberInv, MemberTypes, Joining!Named
    <2> QED
      BY <1>1, <2>2 DEF MemberInv, GrantsLive
  <1> QED
    BY <1>2, <1>3, <1>4, <1>5 DEF MemberInv

\* An invitation that nobody holds is given another row.
LEMMA InvitationWritten ==
    ASSUME MemberInv, NEW i \in Invitations, NEW v \in InvitationRow, InvitationReady(v),
           invitation' = [invitation EXCEPT ![i] = v], UNCHANGED <<role, user, grant>>,
           NEW c \in Calls, asked' = [asked EXCEPT ![c] = Joining!Away] \/ asked' = asked,
           \A d \in Calls : asked'[d].at \in Holding => asked[d].invitation # i
    PROVE  MemberInv'
  <1>1. \A j \in Invitations : invitation'[j] = IF j = i THEN v ELSE invitation[j]
    BY DEF MemberInv, MemberTypes
  <1>2. \A d \in Calls : asked'[d].at \in Holding => asked[d].invitation \in Invitations
    BY AwayRow DEF MemberInv, MemberTypes, AskReady, Holding
  <1>3. asked' \in [Calls -> AskRow] /\ HeldByOne' /\ \A d \in Calls : AskReady(asked[d])'
    BY <1>1, <1>2, AskedEnds
  <1>4. MemberTypes'
    BY <1>3 DEF MemberInv, MemberTypes
  <1>5. \A j \in Invitations : InvitationReady(invitation[j])'
    BY <1>1 DEF MemberInv, InvitationReady
  <1>6. GrantsLive'
    BY DEF MemberInv, GrantsLive
  <1> QED
    BY <1>3, <1>4, <1>5, <1>6 DEF MemberInv

LEMMA InvitationCreated ==
    ASSUME MemberInv, NEW c \in Calls, NEW i \in Invitations, Joining!CreateInvitation(c, i) PROVE MemberInv'
  <1>0. asked[c] \in AskRow /\ AskReady(asked[c]) /\ asked[c].at = "invite"
    BY DEF MemberInv, MemberTypes, Joining!CreateInvitation
  <1>1. asked[c].email \in Emails /\ asked[c].role \in Roles \cup {None}
    BY <1>0 DEF AskRow, AskReady
  <1>2. asked' = [asked EXCEPT ![c] = Joining!Away] /\ UNCHANGED <<role, user, grant>> /\ invitation[i].status = "absent"
    BY DEF Joining!CreateInvitation, Joining!End
  <1>3. \A d \in Calls : asked'[d].at \in Holding => asked[d].invitation # i
    BY <1>2, AwayRow DEF MemberInv, MemberTypes, AskReady, Holding
  <1>4. CASE asked[c].role # None /\ ~Joining!Live(asked[c].role)
    BY <1>2, <1>4, AwayRow, AskedGoesOn DEF Joining!CreateInvitation, Holding
  <1>5. CASE asked[c].role = None \/ Joining!Live(asked[c].role)
    <2>1. PICK v : v = [status |-> "pending", email |-> asked[c].email, role |-> asked[c].role, sent |-> 1, accepted |-> 0]
      OBVIOUS
    <2>2. v \in InvitationRow
      BY <1>1, <2>1 DEF InvitationRow
    <2>3. InvitationReady(v)
      BY <1>1, <1>5, <2>1 DEF InvitationReady, Joining!Live
    <2>4. invitation' = [invitation EXCEPT ![i] = v]
      BY <1>5, <2>1 DEF Joining!CreateInvitation
    <2> QED
      BY <1>2, <1>3, <2>2, <2>3, <2>4, InvitationWritten
  <1> QED
    BY <1>4, <1>5

LEMMA InvitationRenewed ==
    ASSUME MemberInv, NEW i \in Invitations, Joining!ResendInvitation(i) \/ Joining!ExpireInvitation(i) PROVE MemberInv'
  <1>0. /\ invitation[i] \in InvitationRow /\ InvitationReady(invitation[i])
        /\ invitation[i].status # "absent" /\ Joining!Unheld(i) /\ UNCHANGED <<role, user, grant, asked>>
    BY DEF MemberInv, MemberTypes, Joining!ResendInvitation, Joining!ExpireInvitation
  <1>1. PICK v : /\ v \in InvitationRow /\ InvitationReady(v) /\ invitation' = [invitation EXCEPT ![i] = v]
    <2>1. CASE Joining!ResendInvitation(i)
      <3>0. PICK n \in Nat : n = invitation[i].sent + 1
        BY <1>0 DEF InvitationRow
      <3>1. PICK v : v = [invitation[i] EXCEPT !.status = "pending", !.sent = n]
        OBVIOUS
      <3>2. /\ v \in InvitationRow /\ v.sent = invitation[i].sent + 1 /\ v.accepted = invitation[i].accepted
            /\ v.email = invitation[i].email /\ v.role = invitation[i].role /\ v.status = "pending"
        BY <1>0, <3>0, <3>1 DEF InvitationRow
      <3>3. invitation[i].sent \in Nat /\ invitation[i].accepted \in Nat
        BY <1>0 DEF InvitationRow
      <3>4. v.accepted <= v.sent /\ v.accepted < v.sent
        BY <1>0, <3>2, <3>3 DEF InvitationReady
      <3>5. InvitationReady(v)
        BY <1>0, <3>2, <3>4 DEF InvitationReady
      <3>6. invitation' = [invitation EXCEPT ![i] = v]
        BY <2>1, <3>0, <3>1 DEF Joining!ResendInvitation, MemberInv, MemberTypes
      <3> QED
        BY <3>2, <3>5, <3>6
    <2>2. CASE Joining!ExpireInvitation(i)
      <3>1. PICK v : v = [invitation[i] EXCEPT !.status = "expired"]
        OBVIOUS
      <3>2. /\ v \in InvitationRow /\ v.sent = invitation[i].sent /\ v.accepted = invitation[i].accepted
            /\ v.email = invitation[i].email /\ v.role = invitation[i].role /\ v.status = "expired"
        BY <1>0, <3>1 DEF InvitationRow
      <3>3. InvitationReady(v)
        BY <1>0, <3>2 DEF InvitationReady
      <3>4. invitation' = [invitation EXCEPT ![i] = v]
        BY <2>2, <3>1 DEF Joining!ExpireInvitation
      <3> QED
        BY <3>2, <3>3, <3>4
    <2> QED
      BY <2>1, <2>2
  <1>2. CASE Calls = {}
    <2>1. \A j \in Invitations : invitation'[j] = IF j = i THEN v ELSE invitation[j]
      BY <1>1 DEF MemberInv, MemberTypes
    <2>2. MemberTypes'
      BY <1>0, <1>1 DEF MemberInv, MemberTypes
    <2>3. \A j \in Invitations : InvitationReady(invitation[j])'
      BY <1>0, <1>1, <2>1 DEF MemberInv, InvitationReady
    <2> QED
      BY <1>0, <1>2, <2>2, <2>3 DEF MemberInv, GrantsLive, HeldByOne
  <1>3. CASE Calls # {}
    <2>1. PICK c \in Calls : TRUE
      BY <1>3
    <2> QED
      BY <1>0, <1>1, InvitationWritten DEF Joining!Unheld
  <1> QED
    BY <1>2, <1>3

LEMMA InvitationAccepted == ASSUME MemberInv, NEW c \in Calls, Joining!AcceptInvitation(c) PROVE MemberInv'
  <1> DEFINE a == asked[c]
             i == asked[c].invitation
             e == asked[c].email
  <1>1. /\ a \in AskRow /\ a.at = "joined" /\ i \in Invitations /\ e \in Emails
        /\ invitation[i] \in InvitationRow /\ InvitationReady(invitation[i]) /\ invitation[i].status = "pending"
        /\ e = invitation[i].email /\ a.role = invitation[i].role /\ a.row \in DOMAIN grant[e] \cup {0}
    BY DEF MemberInv, MemberTypes, AskReady, Holding, Joining!AcceptInvitation
  <1>0. PICK n \in Nat : n = invitation[i].accepted + 1
    BY <1>1 DEF InvitationRow
  <1>2. PICK v : v = [invitation[i] EXCEPT !.status = "accepted", !.accepted = n]
    OBVIOUS
  <1>3. /\ v \in InvitationRow /\ v.accepted = invitation[i].accepted + 1 /\ v.sent = invitation[i].sent
        /\ v.status = "accepted" /\ v.email = e /\ v.role = a.role
    BY <1>0, <1>1, <1>2 DEF InvitationRow
  <1>4. /\ invitation' = [invitation EXCEPT ![i] = v] /\ user' = [user EXCEPT ![e] = "active"]
        /\ asked' = [asked EXCEPT ![c] = Joining!Away] /\ UNCHANGED role
        /\ IF a.role = None THEN UNCHANGED grant ELSE Joining!Granted(e, a.row, a.role)
    BY <1>0, <1>1, <1>2 DEF Joining!AcceptInvitation, Joining!End, MemberInv, MemberTypes
  <1>5. a.role # None => a.role \in Roles /\ role[a.role] = "live"
    BY <1>1 DEF AskRow, InvitationReady
  <1>6. /\ grant' \in [Emails -> Seq(Roles)] /\ GrantsLive' /\ (a.role # None => grant'[e] # <<>>)
        /\ \A f \in Emails : DOMAIN grant[f] \subseteq DOMAIN grant'[f] /\ (grant[f] # <<>> => grant'[f] # <<>>)
    <2>1. CASE a.role = None
      BY <1>4, <2>1 DEF MemberInv, MemberTypes, GrantsLive
    <2>2. CASE a.role # None
      BY <1>1, <1>4, <1>5, <2>2, GrantStep
    <2> QED
      BY <2>1, <2>2
  <1>7. \A j \in Invitations : invitation'[j] = IF j = i THEN v ELSE invitation[j]
    BY <1>4 DEF MemberInv, MemberTypes
  <1>8. \A f \in Emails : user'[f] = IF f = e THEN "active" ELSE user[f]
    BY <1>4 DEF MemberInv, MemberTypes
  <1>9. \A d \in Calls : asked'[d] = IF d = c THEN Joining!Away ELSE asked[d]
    BY <1>4 DEF MemberInv, MemberTypes
  <1>10. asked' \in [Calls -> AskRow] /\ HeldByOne' /\ \A d \in Calls : AskReady(asked[d])'
    <2>1. \A d \in Calls : asked'[d].at \in Holding =>
              asked[d].invitation \in Invitations /\ asked[d].invitation # i
      BY <1>1, <1>9, AwayRow DEF MemberInv, AskReady, HeldByOne, Holding
    <2> QED
      BY <1>4, <1>6, <1>7, <2>1, AskedEnds
  <1>11. MemberTypes'
    BY <1>1, <1>3, <1>4, <1>6, <1>10 DEF MemberInv, MemberTypes
  <1>12. ASSUME NEW j \in Invitations PROVE InvitationReady(invitation[j])'
    <2>1. CASE j = i
      <3>1. v.accepted <= v.sent
        BY <1>1, <1>3 DEF InvitationReady, InvitationRow
      <3> QED
        BY <1>1, <1>3, <1>4, <1>5, <1>6, <1>7, <1>8, <2>1, <3>1 DEF InvitationReady
    <2>2. CASE j # i
      <3>1. invitation[j] \in InvitationRow /\ InvitationReady(invitation[j]) /\ invitation'[j] = invitation[j]
        BY <1>7, <2>2 DEF MemberInv, MemberTypes
      <3>2. role' = role
        BY <1>4
      <3> QED
        BY <1>6, <1>8, <3>1, <3>2 DEF InvitationReady
    <2> QED
      BY <2>1, <2>2
  <1> QED
    BY <1>6, <1>10, <1>11, <1>12 DEF MemberInv

LEMMA RoleAssigned == ASSUME MemberInv, NEW c \in Calls, Joining!AssignUserRole(c) PROVE MemberInv'
  <1> DEFINE a == asked[c]
  <1>1. a.email \in Emails /\ a.role \in Roles /\ a.row \in DOMAIN grant[a.email] \cup {0}
    BY DEF MemberInv, AskReady, Joining!AssignUserRole
  <1>2. /\ asked' = [asked EXCEPT ![c] = Joining!Away] /\ UNCHANGED <<role, invitation, user>>
        /\ IF Joining!Live(a.role) THEN Joining!Granted(a.email, a.row, a.role) ELSE UNCHANGED grant
    BY DEF Joining!AssignUserRole, Joining!End
  <1>3. /\ grant' \in [Emails -> Seq(Roles)] /\ GrantsLive'
        /\ \A f \in Emails : DOMAIN grant[f] \subseteq DOMAIN grant'[f] /\ (grant[f] # <<>> => grant'[f] # <<>>)
    <2>1. CASE Joining!Live(a.role)
      BY <1>1, <1>2, <2>1, GrantStep DEF Joining!Live
    <2>2. CASE ~Joining!Live(a.role)
      BY <1>2, <2>2 DEF MemberInv, MemberTypes, GrantsLive
    <2> QED
      BY <2>1, <2>2
  <1>4. asked' \in [Calls -> AskRow] /\ HeldByOne' /\ \A d \in Calls : AskReady(asked[d])'
    BY <1>2, <1>3, AskedEnds
  <1>5. MemberTypes'
    BY <1>2, <1>3, <1>4 DEF MemberInv, MemberTypes
  <1>6. \A j \in Invitations : InvitationReady(invitation[j])'
    BY <1>2, <1>3 DEF MemberInv, InvitationReady
  <1> QED
    BY <1>3, <1>4, <1>5, <1>6 DEF MemberInv

LEMMA UserDeactivated == ASSUME MemberInv, NEW c \in Calls, Joining!DeactivateUser(c) PROVE MemberInv'
  <1>1. /\ asked' = [asked EXCEPT ![c] = Joining!Away] /\ UNCHANGED <<role, invitation, grant>>
        /\ user' = [user EXCEPT ![asked[c].email] = "inactive"]
    BY DEF Joining!DeactivateUser, Joining!End
  <1>2. asked' \in [Calls -> AskRow] /\ HeldByOne' /\ \A d \in Calls : AskReady(asked[d])'
    BY <1>1, AskedEnds
  <1>3. MemberTypes' /\ \A f \in Emails : user[f] # "absent" => user'[f] # "absent"
    BY <1>1, <1>2 DEF MemberInv, MemberTypes
  <1>4. \A j \in Invitations : InvitationReady(invitation[j])'
    BY <1>1, <1>3 DEF MemberInv, InvitationReady
  <1> QED
    BY <1>1, <1>2, <1>3, <1>4 DEF MemberInv, GrantsLive

\* The role that is given, if any.
LEMMA InvitationTaken ==
    ASSUME MemberInv, NEW c \in Calls, NEW i \in Invitations, Joining!TakeInvitation(c, i) PROVE MemberInv'
  <1>1. invitation[i] \in InvitationRow /\ invitation[i].status = "pending" /\ Joining!Unheld(i)
    BY DEF MemberInv, MemberTypes, Joining!TakeInvitation, Joining!Usable
  <1>2. PICK known \in BOOLEAN : known = (user[invitation[i].email] # "absent")
    OBVIOUS
  <1>3. PICK a : a = [Joining!Away EXCEPT !.at = "taken", !.invitation = i, !.email = invitation[i].email,
                                          !.role = invitation[i].role, !.known = known]
    OBVIOUS
  <1>4. /\ a \in AskRow /\ a.at = "taken" /\ a.invitation = i
        /\ a.email = invitation[i].email /\ a.role = invitation[i].role
    BY <1>1, <1>3 DEF AskRow, InvitationRow, Joining!Away, Holding
  <1>5. AskReady(a)
    BY <1>1, <1>4 DEF AskReady
  <1>6. asked' = [asked EXCEPT ![c] = a] /\ UNCHANGED <<role, invitation, user, grant>>
    BY <1>2, <1>3 DEF Joining!TakeInvitation, Joining!Ask
  <1> QED
    BY <1>1, <1>4, <1>5, <1>6, AskedGoesOn DEF Joining!Unheld

\* A row that was found is one of the user's.
LEMMA RowFound == ASSUME MemberInv, NEW e \in Emails, NEW n \in Joining!Found(e)
                  PROVE  n \in DOMAIN grant[e] \cup {0} /\ n \in Nat
  <1>1. grant[e] \in Seq(Roles)
    BY DEF MemberInv, MemberTypes
  <1> QED
    BY <1>1 DEF Joining!Found

LEMMA UserJoined == ASSUME MemberInv, NEW c \in Calls, Joining!JoinUser(c) PROVE MemberInv'
  <1>1. /\ asked[c] \in AskRow /\ asked[c].at = "taken" /\ asked[c].email \in Emails /\ AskReady(asked[c])
        /\ UNCHANGED <<role, invitation, user, grant>>
    BY DEF MemberInv, MemberTypes, AskReady, InvitationReady, Holding, Joining!JoinUser
  <1>2. CASE Joining!Clashes(c)
    <2>1. asked' = [asked EXCEPT ![c] = Joining!Away]
      BY <1>2 DEF Joining!JoinUser, Joining!End
    <2> QED
      BY <1>1, <2>1, AwayRow, AskedGoesOn DEF Holding
  <1>3. CASE ~Joining!Clashes(c)
    <2>1. PICK n \in Joining!Found(asked[c].email) : asked' = [asked EXCEPT ![c].at = "joined", ![c].row = n]
      BY <1>3 DEF Joining!JoinUser
    <2>2. n \in DOMAIN grant[asked[c].email] \cup {0} /\ n \in Nat
      BY <1>1, RowFound
    <2>3. PICK a : a = [asked[c] EXCEPT !.at = "joined", !.row = n]
      OBVIOUS
    <2>4. /\ a \in AskRow /\ a.at = "joined" /\ a.row = n /\ a.invitation = asked[c].invitation
          /\ a.email = asked[c].email /\ a.role = asked[c].role
      BY <1>1, <2>2, <2>3 DEF AskRow, Holding
    <2>5. AskReady(a)
      BY <1>1, <2>2, <2>4 DEF AskReady, Holding
    <2>6. asked' = [asked EXCEPT ![c] = a]
      BY <2>1, <2>3 DEF MemberInv, MemberTypes
    <2>7. \A d \in Calls : asked[d].at \in Holding /\ asked[d].invitation = asked[c].invitation => d = c
      BY <1>1 DEF MemberInv, HeldByOne, Holding
    <2>8. \A d \in Calls : asked'[d] = IF d = c THEN a ELSE asked[d]
      BY <2>6 DEF MemberInv, MemberTypes
    <2>9. MemberTypes'
      BY <1>1, <2>4, <2>6 DEF MemberInv, MemberTypes
    <2>10. HeldByOne'
      BY <1>1, <2>4, <2>8 DEF MemberInv, HeldByOne, Holding
    <2>11. \A d \in Calls : AskReady(asked[d])'
      BY <1>1, <2>5, <2>8 DEF MemberInv, AskReady
    <2> QED
      BY <1>1, <2>9, <2>10, <2>11 DEF MemberInv, InvitationReady, GrantsLive
  <1> QED
    BY <1>2, <1>3

\* Requests that only begin.
LEMMA Asked ==
    ASSUME MemberInv, NEW c \in Calls,
           \/ \E r \in Roles : Joining!ReadDelete(c, r) \/ \E e \in Emails : Joining!ReadAssignment(c, e, r)
           \/ \E e \in Emails : Joining!ReadActive(c, e) \/ \E r \in Roles \cup {None} : Joining!ResolveRole(c, e, r)
    PROVE  MemberInv'
  <1>1. ASSUME NEW r \in Roles, Joining!ReadDelete(c, r) PROVE MemberInv'
    <2>1. PICK a : a = [Joining!Away EXCEPT !.at = "delete", !.role = r]
      OBVIOUS
    <2>2. a \in AskRow /\ a.at = "delete"
      BY <2>1 DEF AskRow, Joining!Away
    <2>3. asked' = [asked EXCEPT ![c] = a] /\ UNCHANGED <<role, invitation, user, grant>>
      BY <1>1, <2>1 DEF Joining!ReadDelete, Joining!Ask
    <2> QED
      BY <2>2, <2>3, AskedGoesOn DEF AskReady, Holding
  <1>2. ASSUME NEW r \in Roles, NEW e \in Emails, Joining!ReadAssignment(c, e, r) PROVE MemberInv'
    <2>1. PICK n \in Joining!Found(e) :
              asked' = [asked EXCEPT ![c] = [Joining!Away EXCEPT !.at = "assign", !.email = e, !.role = r, !.row = n]]
      BY <1>2 DEF Joining!ReadAssignment, Joining!Ask
    <2>2. PICK a : a = [Joining!Away EXCEPT !.at = "assign", !.email = e, !.role = r, !.row = n]
      OBVIOUS
    <2>3. n \in DOMAIN grant[e] \cup {0} /\ n \in Nat
      BY RowFound
    <2>4. a \in AskRow /\ a.at = "assign" /\ a.email = e /\ a.role = r /\ a.row = n
      BY <2>2, <2>3 DEF AskRow, Joining!Away
    <2>5. asked' = [asked EXCEPT ![c] = a] /\ UNCHANGED <<role, invitation, user, grant>>
      BY <1>2, <2>1, <2>2 DEF Joining!ReadAssignment
    <2>6. AskReady(a)
      BY <2>3, <2>4 DEF AskReady, Holding
    <2> QED
      BY <2>4, <2>5, <2>6, AskedGoesOn DEF Holding
  <1>3. ASSUME NEW e \in Emails, Joining!ReadActive(c, e) PROVE MemberInv'
    <2>1. PICK a : a = [Joining!Away EXCEPT !.at = "deactivate", !.email = e]
      OBVIOUS
    <2>2. a \in AskRow /\ a.at = "deactivate"
      BY <2>1 DEF AskRow, Joining!Away
    <2>3. asked' = [asked EXCEPT ![c] = a] /\ UNCHANGED <<role, invitation, user, grant>>
      BY <1>3, <2>1 DEF Joining!ReadActive, Joining!Ask
    <2> QED
      BY <2>2, <2>3, AskedGoesOn DEF AskReady, Holding
  <1>4. ASSUME NEW e \in Emails, NEW r \in Roles \cup {None}, Joining!ResolveRole(c, e, r) PROVE MemberInv'
    <2>1. PICK a : a = [Joining!Away EXCEPT !.at = "invite", !.email = e, !.role = r]
      OBVIOUS
    <2>2. a \in AskRow /\ a.at = "invite" /\ a.email = e
      BY <2>1 DEF AskRow, Joining!Away
    <2>3. asked' = [asked EXCEPT ![c] = a] /\ UNCHANGED <<role, invitation, user, grant>>
      BY <1>4, <2>1 DEF Joining!ResolveRole, Joining!Ask
    <2> QED
      BY <2>2, <2>3, AskedGoesOn DEF AskReady, Holding
  <1> QED
    BY <1>1, <1>2, <1>3, <1>4

LEMMA MemberStep == ASSUME MemberInv, Joining!Next PROVE MemberInv'
  <1>1. ASSUME NEW c \in Calls, Joining!GiveUp(c) PROVE MemberInv'
    <2>1. asked' = [asked EXCEPT ![c] = Joining!Away] /\ UNCHANGED <<role, invitation, user, grant>>
      BY <1>1 DEF Joining!GiveUp, Joining!End
    <2> QED
      BY <2>1, AwayRow, AskedGoesOn DEF Holding
  <1>2. ASSUME NEW c \in Calls,
               \/ \E r \in Roles : Joining!ReadDelete(c, r) \/ \E e \in Emails : Joining!ReadAssignment(c, e, r)
               \/ \E e \in Emails : Joining!ReadActive(c, e) \/ \E r \in Roles \cup {None} : Joining!ResolveRole(c, e, r)
               \/ \E i \in Invitations : Joining!CreateInvitation(c, i) \/ Joining!TakeInvitation(c, i)
               \/ Joining!DeleteRole(c) \/ Joining!JoinUser(c) \/ Joining!AcceptInvitation(c)
               \/ Joining!AssignUserRole(c) \/ Joining!DeactivateUser(c) \/ Joining!GiveUp(c)
        PROVE  MemberInv'
    BY <1>1, <1>2, Asked, InvitationCreated, InvitationTaken, RoleDeleted, UserJoined, InvitationAccepted, RoleAssigned,
       UserDeactivated
  <1> QED
    BY <1>2, RoleCreated, InvitationRenewed DEF Joining!Next

LEMMA MemberInductive == MemberInv /\ [Joining!Next]_Joining!memberVars => MemberInv'
  <1>1. MemberInv /\ UNCHANGED Joining!memberVars => MemberInv'
    BY DEF MemberInv, MemberTypes, InvitationReady, GrantsLive, AskReady, HeldByOne, Joining!memberVars
  <1> QED
    BY <1>1, MemberStep

\* acceptInvitation and deleteRole: an invitation is accepted once for each
\* time it was sent and its user has a role, and no role is removed that a
\* user has or an invitation offers, although each request reads before it
\* writes.
THEOREM InvitationsAcceptedOnce == Joining!Spec => [](Joining!AcceptedOnce /\ Joining!RolesExist)
  BY MembersStart, MemberInductive, MembersAgree, PTL DEF Joining!Spec

-----------------------------------------------------------------------------
(*                             The composition                             *)

\* A component that is not in focus does not come into it.
LEMMA FocusStays ==
    [AdministrationNext]_administrationVars => focus' = focus
  BY DEF AdministrationNext, administrationVars

\* The component in focus starts as it does alone, ...
LEMMA FocusStarts ==
    AdministrationInit =>
        /\ Init
        /\ focus = "members" => Joining!Init
        /\ focus = "tenancy" => Buying!Init
        /\ focus = "handoffs" => Handing!Init
        /\ focus = "onboarding" => Starting!Init
        /\ focus = "backups" => Copying!Init
        /\ focus = "connectors" => Connecting!Init
        /\ focus = "devices" => Equipping!Init
        /\ focus = "payments" => Configuring!Init
        /\ focus = "pages" => Drafting!Init
        /\ focus = "links" => Linking!Init
        /\ focus = "fiscalSetup" => Filing!Init
  BY DEF AdministrationInit

\* ... and takes its own steps.  The fiscal queue does whatever the focus is:
\* outside its own it rests.
LEMMA FocusMoves ==
    [AdministrationNext]_administrationVars =>
        /\ [Next]_vars
        /\ focus = "members" => [Joining!Next]_Joining!memberVars
        /\ focus = "tenancy" => [Buying!Next]_Buying!tenancyVars
        /\ focus = "handoffs" => [Handing!Next]_Handing!handoffVars
        /\ focus = "onboarding" => [Starting!Next]_Starting!onboardingVars
        /\ focus = "backups" => [Copying!Next]_Copying!backupVars
        /\ focus = "connectors" => [Connecting!Next]_Connecting!connectorVars
        /\ focus = "devices" => [Equipping!Next]_Equipping!setupVars
        /\ focus = "payments" => [Configuring!Next]_Configuring!setupVars
        /\ focus = "pages" => [Drafting!Next]_Drafting!pageVars
        /\ focus = "links" => [Linking!Next]_Linking!pageVars
        /\ focus = "fiscalSetup" => [Filing!Next]_Filing!fiscalVars
  <1>1. ASSUME UNCHANGED administrationVars
        PROVE  /\ UNCHANGED vars
               /\ UNCHANGED Joining!memberVars /\ UNCHANGED Buying!tenancyVars /\ UNCHANGED Handing!handoffVars
               /\ UNCHANGED Starting!onboardingVars /\ UNCHANGED Copying!backupVars
               /\ UNCHANGED Connecting!connectorVars /\ UNCHANGED Equipping!setupVars
               /\ UNCHANGED Configuring!setupVars /\ UNCHANGED Drafting!pageVars /\ UNCHANGED Linking!pageVars
               /\ UNCHANGED Filing!fiscalVars
    BY <1>1 DEF administrationVars, platform, branch, members, tenancies, handoffs, onboardings, backups, connectors,
       setups, pages, filings, Joining!memberVars, Buying!tenancyVars, Handing!handoffVars, Starting!onboardingVars,
       Copying!backupVars, Connecting!connectorVars, Equipping!setupVars, Configuring!setupVars, Drafting!pageVars,
       Linking!pageVars, Filing!fiscalVars
  <1>2. ASSUME AdministrationNext
        PROVE  /\ Next \/ UNCHANGED vars
               /\ focus = "members" => Joining!Next
               /\ focus = "tenancy" => Buying!Next
               /\ focus = "handoffs" => Handing!Next
               /\ focus = "onboarding" => Starting!Next
               /\ focus = "backups" => Copying!Next
               /\ focus = "connectors" => Connecting!Next
               /\ focus = "devices" => Equipping!Next
               /\ focus = "payments" => Configuring!Next
               /\ focus = "pages" => Drafting!Next
               /\ focus = "links" => Linking!Next
               /\ focus = "fiscalSetup" => Filing!Next
    BY <1>2 DEF AdministrationNext, PlatformNext, BranchNext
  <1> QED
    BY <1>1, <1>2

\* Of the component in focus its invariant holds.
FocusInv ==
    /\ focus = "members" => MemberInv
    /\ focus = "tenancy" => PurchaseInv
    /\ focus = "handoffs" => HandInv
    /\ focus = "onboarding" => OpeningInv
    /\ focus = "backups" => BackupInv
    /\ focus = "connectors" => ConnectorInv
    /\ focus = "devices" => DeviceInv
    /\ focus = "payments" => SavesInv
    /\ focus = "pages" => DraftInv
    /\ focus = "links" => LinkInv
    /\ focus = "fiscalSetup" => FilingInv

\* It holds at the start, ...
LEMMA FocusInvStarts == AdministrationInit => FocusInv
  BY FocusStarts, MembersStart, PurchaseStarts, HandStarts, OpeningStarts, BackupStarts, ConnectorStarts, DevicesStart,
     SavesStart, DraftStarts, LinksStart, FilingStarts DEF FocusInv

\* ... and every step keeps it.
LEMMA FocusInvInductive == FocusInv /\ [AdministrationNext]_administrationVars => FocusInv'
  <1> SUFFICES ASSUME FocusInv, [AdministrationNext]_administrationVars PROVE FocusInv'
    OBVIOUS
  <1>1. focus' = focus
    BY FocusStays
  <1>2. /\ focus = "connectors" => ConnectorInv'
        /\ focus = "devices" => DeviceInv'
        /\ focus = "pages" => DraftInv'
        /\ focus = "onboarding" => OpeningInv'
    BY FocusMoves, ConnectorKeeps, DeviceKeeps, DraftKeeps, OpeningKeeps
    DEF FocusInv, ConnectorsKept, DevicesKept, DraftsKept
  <1>3. /\ focus = "members" => MemberInv'
        /\ focus = "tenancy" => PurchaseInv'
        /\ focus = "handoffs" => HandInv'
        /\ focus = "backups" => BackupInv'
    BY FocusMoves, MemberInductive, PurchaseInductive, HandInductive, BackupInductive DEF FocusInv
  <1>4. /\ focus = "payments" => SavesInv'
        /\ focus = "links" => LinkInv'
        /\ focus = "fiscalSetup" => FilingInv'
    BY FocusMoves, SavesInductive, LinkInductive, FilingInductive DEF FocusInv
  <1> QED
    BY <1>1, <1>2, <1>3, <1>4 DEF FocusInv

\* What a step of the component in focus may never do, it does not.
LEMMA FocusKeeps ==
    ASSUME FocusInv, [AdministrationNext]_administrationVars, FocusInv'
    PROVE  /\ focus = "connectors" => Connecting!KeysStayRetired' /\ Connecting!RevokedIsConfiguredFirst
           /\ focus = "devices" => Equipping!RevokedStays
           /\ focus = "onboarding" => Starting!StepsKept /\ Starting!SetupHelps
           /\ focus = "pages" => Drafting!RevisionsKept /\ Drafting!NotBeforeItsTime
  <1>1. focus = "connectors" => ConnectorsKept
    BY FocusMoves, ConnectorKeeps DEF FocusInv
  <1>2. ConnectorInv' => Connecting!KeysStayRetired'
    BY DEF ConnectorInv, KeysNew, Connecting!KeysStayRetired
  <1>3. focus = "connectors" => Connecting!KeysStayRetired' /\ Connecting!RevokedIsConfiguredFirst
    BY <1>1, <1>2 DEF ConnectorsKept
  <1>4. focus = "devices" => Equipping!RevokedStays
    BY FocusMoves, DeviceKeeps DEF FocusInv, DevicesKept
  <1>5. focus = "onboarding" => Starting!StepsKept /\ Starting!SetupHelps
    BY FocusMoves, OpeningKeeps, SetupAlwaysHelps DEF FocusInv
  <1>6. focus = "pages" => Drafting!RevisionsKept /\ Drafting!NotBeforeItsTime
    BY FocusMoves, DraftKeeps DEF FocusInv, DraftsKept
  <1> QED
    BY <1>3, <1>4, <1>5, <1>6

\* A behaviour of the composition is one of the fiscal queue, which rests
\* outside its focus, so that what is proved of the queue holds there too.
THEOREM AdministrationIsQueue == AdministrationSpec => Spec
  BY FocusStarts, FocusMoves, PTL DEF AdministrationSpec, Spec

\* An operation in dead letter was claimed MaxAttempts times, and none whose
\* lease runs is taken over, in the composition as in the queue.
THEOREM QueueHolds == AdministrationSpec => []DeadLetterExhausted /\ LeaseRespected
  BY AdministrationIsQueue, GivenUpLast, LeaseHolds

\* The records that are administered agree, for every number of people,
\* purchases, tokens, dumps, tables and requests: invitations, checkouts,
\* handoffs, restored dumps, saves of the payment settings, changes of the
\* fiscal ones and hashes of links, each written by handlers that read before
\* and hold no lock between.
THEOREM RecordsKept == AdministrationSpec => []RecordsAgree
  <1>1. FocusInv => RecordsAgree
    <2> SUFFICES ASSUME FocusInv PROVE RecordsAgree
      OBVIOUS
    <2>1. focus = "tenancy" => Buying!OneCheckout
      BY DEF FocusInv, PurchaseInv, Buying!OneCheckout
    <2>2. focus = "handoffs" => Handing!AdmittedOnce
      BY DEF FocusInv, HandInv
    <2>3. focus = "backups" => Copying!RestoredWasComplete
      BY DEF FocusInv, BackupInv, Copying!RestoredWasComplete
    <2>4. focus = "payments" => Configuring!EachSaveCounts
      BY DEF FocusInv, SavesInv, Configuring!EachSaveCounts
    <2>5. focus = "links" => Linking!HashIsCurrent
      BY DEF FocusInv, LinkInv
    <2> QED
      BY <2>1, <2>2, <2>3, <2>4, <2>5, MembersAgree, FilingAgrees DEF FocusInv, RecordsAgree
  <1> QED
    BY <1>1, FocusInvStarts, FocusInvInductive, PTL DEF AdministrationSpec

\* What no step may undo: a key that was taken away, a revocation of the club
\* integration or of a device, a step that a person set, and a revision of the
\* guest pages, which also waits for its time.
THEOREM HistoryKept == AdministrationSpec => HistoryHolds
  <1>1. FocusInv /\ [AdministrationNext]_administrationVars =>
            [/\ focus = "connectors" => Connecting!KeysStayRetired' /\ Connecting!RevokedIsConfiguredFirst
             /\ focus = "devices" => Equipping!RevokedStays
             /\ focus = "onboarding" => Starting!StepsKept /\ Starting!SetupHelps
             /\ focus = "pages" => Drafting!RevisionsKept /\ Drafting!NotBeforeItsTime]_administrationVars
    BY FocusInvInductive, FocusKeeps
  <1> QED
    BY <1>1, FocusInvStarts, FocusInvInductive, PTL DEF AdministrationSpec, HistoryHolds
=============================================================================
