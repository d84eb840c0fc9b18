---------------------------- MODULE OutboxProofs ----------------------------
(***************************************************************************)
(* Proofs about the two outboxes.                                          *)
(*                                                                         *)
(* OutboxDelivery: an event is claimed only while it is pending, nobody    *)
(* holds a pending event, and only its holder takes an event out of        *)
(* "processing": so a holder stays the only one.  The number of attempts   *)
(* is bounded because a pending event has attempts left.                   *)
(*                                                                         *)
(* CommandOutbox: the effect of a command exists exactly when the receipt  *)
(* of its key does, and a request that succeeded has that receipt.  At     *)
(* most one request has a key reserved, and none has one with a receipt:   *)
(* so no effect is repeated, and what a tab is told is true.               *)
(***************************************************************************)
EXTENDS CommandOutbox, OutboxDelivery, FiniteSetTheorems, TLAPS

-----------------------------------------------------------------------------
(*          The delivery of events to the Dose Club (OutboxDelivery)         *)

\* A pass that is delivering has an event in hand.
HasEvent == \A p \in Passes : pass[p].at \in {"claimed", "answered"} => pass[p].event \in Events

AttemptsLeft == \A e \in Events : event[e].status = "pending" => event[e].attempts < MaxClubAttempts

DeliveryInv == DeliveryTypeOK /\ HasEvent /\ OneDelivery /\ AttemptsLeft

Limits == MaxClubAttempts \in Nat \ {0} /\ MaxReplays \in Nat

LEMMA LimitsHold == Limits
  BY LimitAssumption DEF Limits

\* The rows of the passes: what NextEvent and the claims write.
PassRow == [at : {"idle", "next", "claimed", "answered"}, batch : SUBSET Events,
            event : Events \cup {NoEvent}, attempts : 0 .. MaxClubAttempts, answer : AnswerNames]

LEMMA IdleRow ==
    ASSUME NEW batch \in SUBSET Events
    PROVE  /\ Idle \in PassRow
           /\ [Idle EXCEPT !.at = "next", !.batch = batch] \in PassRow
           /\ Idle.at = "idle" /\ Idle.event = NoEvent
           /\ [Idle EXCEPT !.at = "next", !.batch = batch].at = "next"
  <1>1. 0 \in 0 .. MaxClubAttempts /\ "ok" \in AnswerNames
    BY LimitsHold DEF Limits, AnswerNames
  <1>2. Idle \in PassRow /\ Idle.at = "idle" /\ Idle.event = NoEvent
    BY <1>1 DEF Idle, PassRow
  <1>3. \A row \in PassRow : /\ [row EXCEPT !.at = "next", !.batch = batch] \in PassRow
                            /\ [row EXCEPT !.at = "next", !.batch = batch].at = "next"
    BY DEF PassRow
  <1> QED
    BY <1>2, <1>3

\* A pass that goes on holds nothing.
LEMMA NextEventRow ==
    ASSUME NEW p \in Passes, NEW batch \in SUBSET Events, DeliveryTypeOK, NextEvent(p, batch)
    PROVE  /\ pass' \in [Passes -> PassRow]
           /\ pass'[p].at \in {"idle", "next"}
           /\ \A q \in Passes \ {p} : pass'[q] = pass[q]
  <1>1. pass \in [Passes -> PassRow]
    BY DEF DeliveryTypeOK, PassRow
  <1> DEFINE row == IF batch = {} THEN Idle ELSE [Idle EXCEPT !.at = "next", !.batch = batch]
  <1>2. row \in PassRow /\ row.at \in {"idle", "next"}
    BY IdleRow
  <1>3. pass' = [pass EXCEPT ![p] = row]
    BY DEF NextEvent
  <1> HIDE DEF row
  <1> QED
    BY <1>1, <1>2, <1>3

LEMMA FailedRow ==
    ASSUME NEW e \in Events, NEW retry \in BOOLEAN, NEW attempts \in 0 .. MaxClubAttempts, DeliveryTypeOK
    PROVE  LET row == Failed(event[e], retry, attempts)
           IN  /\ row \in [status : Statuses, attempts : 0 .. MaxClubAttempts, due : BOOLEAN]
               /\ row.attempts = event[e].attempts
               /\ row.status = "pending" => attempts < MaxClubAttempts
  <1>1. event[e] \in [status : Statuses, attempts : 0 .. MaxClubAttempts, due : BOOLEAN]
    BY DEF DeliveryTypeOK
  <1> DEFINE status == IF retry /\ ~Exhausted(attempts) THEN "pending" ELSE "dead_letter"
  <1>2. status \in Statuses /\ (status = "pending" => attempts < MaxClubAttempts)
    BY LimitsHold DEF Exhausted, Statuses, Limits
  <1>3. Failed(event[e], retry, attempts) = [event[e] EXCEPT !.status = status, !.due = FALSE]
    BY DEF Failed
  <1> HIDE DEF status
  <1> QED
    BY <1>1, <1>2, <1>3

LEMMA DeliveryStart == DeliveryInit => DeliveryInv
  <1> SUFFICES ASSUME DeliveryInit PROVE DeliveryInv
    OBVIOUS
  <1>1. DeliveryTypeOK
    <2>1. pass \in [Passes -> PassRow]
      BY IdleRow DEF DeliveryInit
    <2> QED
      BY <2>1, LimitsHold DEF DeliveryInit, DeliveryTypeOK, PassRow, Statuses, Limits
  <1>2. \A p \in Passes : pass[p].at = "idle"
    BY IdleRow DEF DeliveryInit
  <1> QED
    BY <1>1, <1>2, LimitsHold DEF DeliveryInv, DeliveryInit, HasEvent, OneDelivery, Holds, AttemptsLeft, Limits

Delivering(p) == pass[p].at \in {"claimed", "answered"}

\* A step of p about event e keeps the invariant if nobody else holds e and p
\* afterwards holds nothing else.
LEMMA OneEvent ==
    ASSUME DeliveryInv, DeliveryTypeOK', NEW p \in Passes, NEW e \in Events,
           \A q \in Passes \ {p} : pass'[q] = pass[q] /\ ~Holds(q, e),
           \A f \in Events \ {e} : event'[f] = event[f],
           event'[e].status = "pending" => event'[e].attempts < MaxClubAttempts,
           Delivering(p)' => /\ pass'[p].event = e
                             /\ event'[e].status = "processing"
                             /\ event'[e].attempts = pass'[p].attempts
    PROVE  DeliveryInv'
  <1>1. HasEvent'
    BY DEF DeliveryInv, HasEvent, Delivering
  <1>2. OneDelivery'
    <2>1. \A q \in Passes, f \in Events : Holds(q, f)' => (q = p /\ f = e) \/ (q # p /\ f # e /\ Holds(q, f))
      BY DEF Holds, Delivering
    <2>2. \A f \in Events : Holds(p, f)' => event'[f].status = "processing" /\ event'[f].attempts = pass'[p].attempts
      BY DEF Holds, Delivering
    <2> QED
      BY <2>1, <2>2 DEF OneDelivery, DeliveryInv
  <1>3. AttemptsLeft'
    BY DEF DeliveryInv, AttemptsLeft
  <1> QED
    BY <1>1, <1>2, <1>3 DEF DeliveryInv

\* A step after which p holds nothing, and that changes no event.
LEMMA NothingHeld ==
    ASSUME DeliveryInv, DeliveryTypeOK', NEW p \in Passes, UNCHANGED event, ~Delivering(p)',
           \A q \in Passes \ {p} : pass'[q] = pass[q]
    PROVE  DeliveryInv'
  <1>1. \A q \in Passes, f \in Events : Holds(q, f)' => q # p /\ Holds(q, f)
    BY DEF Holds, Delivering
  <1> QED
    BY <1>1 DEF DeliveryInv, HasEvent, OneDelivery, AttemptsLeft, Delivering

\* A step that changes one event nobody holds.
LEMMA Unheld ==
    ASSUME DeliveryInv, DeliveryTypeOK', UNCHANGED pass, NEW e \in Events,
           event[e].status # "processing",
           \A f \in Events \ {e} : event'[f] = event[f],
           event'[e].status = "pending" => event'[e].attempts < MaxClubAttempts
    PROVE  DeliveryInv'
  <1>1. \A q \in Passes : ~Holds(q, e)
    BY DEF DeliveryInv, OneDelivery
  <1>2. \A q \in Passes, f \in Events : Holds(q, f)' => f # e /\ Holds(q, f)
    BY <1>1 DEF Holds
  <1> QED
    BY <1>2 DEF DeliveryInv, HasEvent, OneDelivery, AttemptsLeft

EventRow == [status : Statuses, attempts : 0 .. MaxClubAttempts, due : BOOLEAN]

LEMMA TypeOKSplit ==
    DeliveryTypeOK <=> /\ event \in [Events -> EventRow] /\ configured \in BOOLEAN
               /\ pass \in [Passes -> PassRow]
               /\ received \subseteq Events /\ abandoned \subseteq Events
               /\ replays \in 0 .. MaxReplays
  BY DEF DeliveryTypeOK, EventRow, PassRow

\* The end of a delivery: the row of the event in hand is written, and the
\* pass goes on.
LEMMA Released ==
    ASSUME DeliveryInv, NEW p \in Passes, Delivering(p), NextEvent(p, pass[p].batch),
           NEW row \in EventRow, row.status = "pending" => row.attempts < MaxClubAttempts,
           event' = [event EXCEPT ![pass[p].event] = row], UNCHANGED <<configured, history>>
    PROVE  DeliveryInv'
  <1> DEFINE e == pass[p].event
  <1>1. e \in Events /\ pass[p].batch \in SUBSET Events
    BY TypeOKSplit DEF DeliveryInv, HasEvent, Delivering, PassRow
  <1>2. /\ pass' \in [Passes -> PassRow] /\ pass'[p].at \in {"idle", "next"}
        /\ \A q \in Passes \ {p} : pass'[q] = pass[q]
    BY <1>1, NextEventRow DEF DeliveryInv
  <1>3. DeliveryTypeOK'
    BY <1>1, <1>2, TypeOKSplit DEF DeliveryInv, history, DeliveryTypeOK, EventRow, PassRow
  <1>4. \A q \in Passes \ {p} : ~Holds(q, e)
    BY <1>1 DEF DeliveryInv, OneDelivery, Holds, Delivering
  <1>5. event'[e] = row /\ \A f \in Events \ {e} : event'[f] = event[f]
    BY <1>1, TypeOKSplit DEF DeliveryInv
  <1> HIDE DEF e
  <1> QED
    BY <1>1, <1>2, <1>3, <1>4, <1>5, OneEvent DEF Delivering

LEMMA BecomesDueKeeps == ASSUME DeliveryInv, NEW e \in Events, BecomesDue(e) PROVE DeliveryInv'
  <1>1. event[e] \in EventRow /\ event' = [event EXCEPT ![e] = [event[e] EXCEPT !.due = TRUE]]
    BY TypeOKSplit DEF DeliveryInv, BecomesDue
  <1>2. [event[e] EXCEPT !.due = TRUE] \in EventRow
    BY <1>1 DEF EventRow
  <1>3. DeliveryTypeOK'
    BY <1>1, <1>2, TypeOKSplit DEF DeliveryInv, BecomesDue, history, DeliveryTypeOK, EventRow, PassRow
  <1>4. /\ event[e].status # "processing"
        /\ event'[e].status = "pending" => event'[e].attempts < MaxClubAttempts
    BY <1>1, TypeOKSplit DEF DeliveryInv, AttemptsLeft, BecomesDue, EventRow
  <1> QED
    BY <1>1, <1>3, <1>4, Unheld, TypeOKSplit DEF BecomesDue, DeliveryInv

LEMMA RetryKeeps == ASSUME DeliveryInv, NEW e \in Events, RetryEvent(e) PROVE DeliveryInv'
  <1>1. Replayed(event[e]) \in EventRow /\ Replayed(event[e]).attempts < MaxClubAttempts
    BY LimitsHold DEF Replayed, EventRow, Statuses, Limits
  <1>2. DeliveryTypeOK'
    BY <1>1, LimitsHold, TypeOKSplit DEF DeliveryInv, RetryEvent, DeliveryTypeOK, EventRow, PassRow, Limits
  <1> QED
    BY <1>1, <1>2, Unheld, TypeOKSplit DEF RetryEvent, DeliveryInv

LEMMA ConfigureKeeps == ASSUME DeliveryInv, Configure PROVE DeliveryInv'
  <1>1. DeliveryTypeOK'
    BY DEF DeliveryInv, Configure, DeliveryTypeOK, history
  <1> QED
    BY <1>1 DEF DeliveryInv, Configure, HasEvent, OneDelivery, Holds, AttemptsLeft

LEMMA SelectKeeps == ASSUME DeliveryInv, NEW p \in Passes, SelectBatch(p) PROVE DeliveryInv'
  <1>1. PICK batch \in SUBSET Events : NextEvent(p, batch)
    BY DEF SelectBatch
  <1>2. /\ pass' \in [Passes -> PassRow] /\ pass'[p].at \in {"idle", "next"}
        /\ \A q \in Passes \ {p} : pass'[q] = pass[q]
    BY <1>1, NextEventRow DEF DeliveryInv
  <1>3. DeliveryTypeOK'
    BY <1>2, TypeOKSplit DEF DeliveryInv, SelectBatch, history, DeliveryTypeOK, EventRow, PassRow
  <1> QED
    BY <1>2, <1>3, NothingHeld DEF SelectBatch, Delivering

LEMMA CrashKeeps == ASSUME DeliveryInv, NEW p \in Passes, Crash(p) PROVE DeliveryInv'
  <1>1. pass' = [pass EXCEPT ![p] = Idle] /\ Idle \in PassRow /\ Idle.at = "idle"
    BY IdleRow DEF Crash
  <1>2. pass[p].event \in Events \cup {NoEvent}
    BY TypeOKSplit DEF DeliveryInv, PassRow
  <1>3. DeliveryTypeOK'
    BY <1>1, <1>2, TypeOKSplit DEF DeliveryInv, Crash, DeliveryTypeOK, EventRow, PassRow
  <1> QED
    BY <1>1, <1>3, NothingHeld, TypeOKSplit DEF Crash, Delivering, DeliveryInv

LEMMA SendKeeps == ASSUME DeliveryInv, NEW p \in Passes, Send(p) PROVE DeliveryInv'
  <1> DEFINE e == pass[p].event
  <1>1. e \in Events /\ Holds(p, e)
    BY DEF DeliveryInv, HasEvent, Send, Holds
  <1>2. PICK answer \in AnswerNames :
            /\ pass' = [pass EXCEPT ![p] = [pass[p] EXCEPT !.at = "answered", !.answer = answer]]
            /\ received' \subseteq received \cup {e}
    BY AnswerAssumption DEF Send
  <1>3. /\ pass'[p] \in PassRow /\ pass'[p].at = "answered"
        /\ pass'[p].event = e /\ pass'[p].attempts = pass[p].attempts
        /\ \A q \in Passes \ {p} : pass'[q] = pass[q]
    BY <1>2, TypeOKSplit DEF DeliveryInv, PassRow
  <1>4. DeliveryTypeOK'
    BY <1>1, <1>2, <1>3, TypeOKSplit DEF DeliveryInv, Send, DeliveryTypeOK, EventRow, PassRow
  <1>5. \A q \in Passes \ {p} : ~Holds(q, e)
    BY <1>1 DEF DeliveryInv, OneDelivery
  <1>6. event[e].status = "processing" /\ event[e].attempts = pass[p].attempts /\ event' = event
    BY <1>1 DEF DeliveryInv, OneDelivery, Send
  <1> HIDE DEF e
  <1> QED
    BY <1>1, <1>3, <1>4, <1>5, <1>6, OneEvent DEF Send

\* A claimed event was pending, so it had attempts left and nobody held it.
LEMMA ClaimKeeps == ASSUME DeliveryInv, NEW p \in Passes, Claim(p) PROVE DeliveryInv'
  <1>1. PICK e \in pass[p].batch :
            LET rest == pass[p].batch \ {e}
                row == event[e]
                attempts == row.attempts + 1
            IN  \/ /\ Claimable(e)
                   /\ event' = [event EXCEPT ![e] = [row EXCEPT !.status = "processing",
                                                                !.attempts = attempts]]
                   /\ IF e \in Tenantless THEN NextEvent(p, rest)
                      ELSE pass' = [pass EXCEPT ![p] = [Idle EXCEPT !.at = "claimed", !.batch = rest,
                                                            !.event = e, !.attempts = attempts]]
                \/ /\ ~Claimable(e)
                   /\ NextEvent(p, rest)
                   /\ UNCHANGED event
    BY DEF Claim
  <1> DEFINE rest == pass[p].batch \ {e}
             attempts == event[e].attempts + 1
             row == [event[e] EXCEPT !.status = "processing", !.attempts = attempts]
             held == [Idle EXCEPT !.at = "claimed", !.batch = rest, !.event = e, !.attempts = attempts]
  <1>2. e \in Events /\ rest \in SUBSET Events /\ event[e] \in EventRow
    BY TypeOKSplit DEF DeliveryInv, PassRow
  <1>3. CASE Claimable(e)
    <2>1. attempts \in 0 .. MaxClubAttempts
      BY <1>2, <1>3, LimitsHold DEF DeliveryInv, AttemptsLeft, Claimable, EventRow, Limits
    <2>2. row \in EventRow /\ row.status = "processing" /\ row.attempts = attempts
      BY <1>2, <2>1 DEF EventRow, Statuses
    <2>3. held \in PassRow /\ held.at = "claimed" /\ held.event = e /\ held.attempts = attempts
      BY <1>2, <2>1, IdleRow DEF PassRow
    <2>4. \A q \in Passes : ~Holds(q, e)
      BY <1>2, <1>3 DEF DeliveryInv, OneDelivery, Claimable
    <2>5. event' = [event EXCEPT ![e] = row]
      BY <1>1, <1>3
    <2>6. \/ NextEvent(p, rest)
          \/ pass' = [pass EXCEPT ![p] = held]
      BY <1>1, <1>3
    <2> HIDE DEF row, held, attempts, rest
    <2>7. /\ pass' \in [Passes -> PassRow]
          /\ \A q \in Passes \ {p} : pass'[q] = pass[q]
          /\ pass'[p].at \in {"idle", "next"} \/ pass'[p] = held
      <3>1. CASE NextEvent(p, rest)
        BY <1>2, <3>1, NextEventRow DEF DeliveryInv
      <3>2. CASE pass' = [pass EXCEPT ![p] = held]
        BY <2>3, <3>2, TypeOKSplit DEF DeliveryInv
      <3> QED
        BY <2>6, <3>1, <3>2
    <2>8. DeliveryTypeOK'
      BY <1>2, <2>2, <2>5, <2>7, TypeOKSplit DEF DeliveryInv, Claim, history, DeliveryTypeOK, EventRow, PassRow
    <2>9. event'[e] = row /\ \A f \in Events \ {e} : event'[f] = event[f]
      BY <1>2, <2>5, TypeOKSplit DEF DeliveryInv
    <2> QED
      BY <1>2, <2>2, <2>3, <2>4, <2>7, <2>8, <2>9, OneEvent DEF Delivering
  <1>4. CASE ~Claimable(e)
    <2>1. NextEvent(p, rest) /\ UNCHANGED event
      BY <1>1, <1>4
    <2>2. /\ pass' \in [Passes -> PassRow] /\ pass'[p].at \in {"idle", "next"}
          /\ \A q \in Passes \ {p} : pass'[q] = pass[q]
      BY <1>2, <2>1, NextEventRow DEF DeliveryInv
    <2>3. DeliveryTypeOK'
      BY <2>1, <2>2, TypeOKSplit DEF DeliveryInv, Claim, history, DeliveryTypeOK, EventRow, PassRow
    <2> QED
      BY <2>1, <2>2, <2>3, NothingHeld DEF Delivering
  <1> QED
    BY <1>3, <1>4

\* The row a failed delivery writes keeps the attempts of the claim.
LEMMA FailureKeeps ==
    ASSUME DeliveryInv, NEW p \in Passes, Delivering(p), NEW retry \in BOOLEAN,
           NextEvent(p, pass[p].batch), UNCHANGED <<configured, history>>,
           event' = [event EXCEPT ![pass[p].event] =
                        Failed(event[pass[p].event], retry, pass[p].attempts)]
    PROVE  DeliveryInv'
  <1> DEFINE e == pass[p].event
             row == Failed(event[e], retry, pass[p].attempts)
  <1>1. e \in Events /\ Holds(p, e) /\ pass[p].attempts \in 0 .. MaxClubAttempts
    BY TypeOKSplit DEF DeliveryInv, HasEvent, Delivering, Holds, PassRow
  <1>2. event[e].attempts = pass[p].attempts
    BY <1>1 DEF DeliveryInv, OneDelivery
  <1>3. row \in EventRow /\ (row.status = "pending" => row.attempts < MaxClubAttempts)
    BY <1>1, <1>2, FailedRow DEF DeliveryInv, EventRow
  <1> HIDE DEF row
  <1> QED
    BY <1>3, Released DEF row

LEMMA UnconfiguredKeeps == ASSUME DeliveryInv, NEW p \in Passes, Unconfigured(p) PROVE DeliveryInv'
  BY FailureKeeps DEF Unconfigured, Delivering

LEMMA RecordKeeps == ASSUME DeliveryInv, NEW p \in Passes, Record(p) PROVE DeliveryInv'
  <1> DEFINE e == pass[p].event
  <1>1. Delivering(p) /\ NextEvent(p, pass[p].batch) /\ UNCHANGED <<configured, history>>
    BY DEF Record, Delivering
  <1>2. CASE Acknowledged(pass[p].answer)
    <2>1. e \in Events /\ event[e] \in EventRow
      BY <1>1, TypeOKSplit DEF DeliveryInv, HasEvent, Delivering
    <2>2. [event[e] EXCEPT !.status = "processed"] \in EventRow
          /\ [event[e] EXCEPT !.status = "processed"].status # "pending"
      BY <2>1 DEF EventRow, Statuses
    <2>3. event' = [event EXCEPT ![e] = [event[e] EXCEPT !.status = "processed"]]
      BY <1>2 DEF Record
    <2> QED
      BY <1>1, <2>2, <2>3, Released
  <1>3. CASE ~Acknowledged(pass[p].answer)
    <2>1. event' = [event EXCEPT ![e] = Failed(event[e], Retryable(pass[p].answer), pass[p].attempts)]
      BY <1>3 DEF Record
    <2>2. Retryable(pass[p].answer) \in BOOLEAN
      BY DEF Retryable
    <2> QED
      BY <1>1, <2>1, <2>2, FailureKeeps
  <1> QED
    BY <1>2, <1>3

LEMMA Step == DeliveryInv /\ [DeliveryNext]_deliveryVars => DeliveryInv'
  <1> SUFFICES ASSUME DeliveryInv, [DeliveryNext]_deliveryVars PROVE DeliveryInv'
    OBVIOUS
  <1>1. ASSUME NEW p \in Passes, Work(p) \/ Crash(p) PROVE DeliveryInv'
    BY <1>1, SelectKeeps, ClaimKeeps, UnconfiguredKeeps, SendKeeps, RecordKeeps, CrashKeeps DEF Work
  <1>2. ASSUME NEW e \in Events, BecomesDue(e) \/ RetryEvent(e) PROVE DeliveryInv'
    BY <1>2, BecomesDueKeeps, RetryKeeps
  <1>3. CASE UNCHANGED deliveryVars
    <2>1. UNCHANGED <<event, configured, pass, received, abandoned, replays>>
      BY <1>3 DEF deliveryVars, history
    <2>2. DeliveryTypeOK'
      BY <2>1 DEF DeliveryInv, DeliveryTypeOK
    <2> QED
      BY <2>1, <2>2 DEF DeliveryInv, HasEvent, OneDelivery, Holds, AttemptsLeft
  <1> QED
    BY <1>1, <1>2, <1>3, ConfigureKeeps DEF DeliveryNext

\* The rows keep their shape; in particular the dead letter limit holds for
\* every event, however passes overlap, die and are replayed.
THEOREM AttemptsBounded == DeliverySpec => []DeliveryTypeOK
  <1>1. DeliveryInv => DeliveryTypeOK
    BY DEF DeliveryInv
  <1> QED
    BY DeliveryStart, Step, <1>1, PTL DEF DeliverySpec

\* publishPendingClubWhiskyOutbox: one delivery of an event at a time, for
\* every number of events and overlapping passes, though no lock is taken.
THEOREM DeliveredByOne == DeliverySpec => []OneDelivery
  <1>1. DeliveryInv => OneDelivery
    BY DEF DeliveryInv
  <1> QED
    BY DeliveryStart, Step, <1>1, PTL DEF DeliverySpec

-----------------------------------------------------------------------------
(* What is marked as delivered was received: a pass that has a positive    *)
(* answer has sent its event, and what was received stays received.        *)
AnsweredWasReceived ==
    \A p \in Passes : pass[p].at = "answered" /\ Acknowledged(pass[p].answer) => pass[p].event \in received

ReceivedInv == DeliveryInv /\ AnsweredWasReceived /\ ProcessedWasReceived

LEMMA ReceivedStart == DeliveryInit => ReceivedInv
  <1> SUFFICES ASSUME DeliveryInit PROVE AnsweredWasReceived /\ ProcessedWasReceived
    BY DeliveryStart DEF ReceivedInv
  <1> QED
    BY IdleRow DEF DeliveryInit, AnsweredWasReceived, ProcessedWasReceived

\* A step that sends nothing and marks nothing.
LEMMA NothingMarked ==
    ASSUME ReceivedInv, received \subseteq received',
           \A p \in Passes : pass'[p].at = "answered" => pass'[p] = pass[p],
           \A e \in Events : event'[e].status = "processed" => event[e].status = "processed"
    PROVE  AnsweredWasReceived' /\ ProcessedWasReceived'
  BY DEF ReceivedInv, AnsweredWasReceived, ProcessedWasReceived, Acknowledged

LEMMA FailedStatus ==
    ASSUME NEW e \in Events, NEW retry, NEW attempts, DeliveryTypeOK
    PROVE  Failed(event[e], retry, attempts).status # "processed"
  <1>1. event[e] \in EventRow
    BY TypeOKSplit
  <1> QED
    BY <1>1 DEF Failed, EventRow

LEMMA ReceivedStep == ReceivedInv /\ [DeliveryNext]_deliveryVars => ReceivedInv'
  <1> SUFFICES ASSUME ReceivedInv, [DeliveryNext]_deliveryVars PROVE ReceivedInv'
    OBVIOUS
  <1>1. DeliveryInv' /\ DeliveryInv /\ DeliveryTypeOK
    BY Step DEF ReceivedInv, DeliveryInv
  <1>2. /\ event \in [Events -> EventRow] /\ pass \in [Passes -> PassRow]
    BY <1>1, TypeOKSplit
  <1> SUFFICES AnsweredWasReceived' /\ ProcessedWasReceived'
    BY <1>1 DEF ReceivedInv
  <1>3. ASSUME NEW e \in Events, BecomesDue(e) \/ RetryEvent(e)
        PROVE  AnsweredWasReceived' /\ ProcessedWasReceived'
    <2>1. UNCHANGED <<pass, received>>
      BY <1>3 DEF BecomesDue, RetryEvent, history
    <2>2. \A f \in Events : event'[f].status = "processed" => event[f].status = "processed"
      BY <1>2, <1>3 DEF BecomesDue, RetryEvent, Replayed, EventRow
    <2> QED
      BY <2>1, <2>2, NothingMarked
  <1>4. ASSUME Configure \/ UNCHANGED deliveryVars
        PROVE  AnsweredWasReceived' /\ ProcessedWasReceived'
    BY <1>4, NothingMarked DEF Configure, deliveryVars, history
  <1>5. ASSUME NEW p \in Passes, SelectBatch(p) PROVE AnsweredWasReceived' /\ ProcessedWasReceived'
    <2>1. PICK batch \in SUBSET Events : NextEvent(p, batch)
      BY <1>5 DEF SelectBatch
    <2> QED
      BY <1>1, <1>5, <2>1, NextEventRow, NothingMarked DEF SelectBatch, history
  <1>6. ASSUME NEW p \in Passes, Crash(p) PROVE AnsweredWasReceived' /\ ProcessedWasReceived'
    BY <1>2, <1>6, IdleRow, NothingMarked DEF Crash
  <1>7. ASSUME NEW p \in Passes, Claim(p) PROVE AnsweredWasReceived' /\ ProcessedWasReceived'
    <2>1. PICK e \in pass[p].batch :
              /\ \/ UNCHANGED event
                 \/ event' = [event EXCEPT ![e] = [event[e] EXCEPT !.status = "processing",
                                                                  !.attempts = event[e].attempts + 1]]
              /\ \/ NextEvent(p, pass[p].batch \ {e})
                 \/ pass' = [pass EXCEPT ![p] = [Idle EXCEPT !.at = "claimed", !.batch = pass[p].batch \ {e},
                                                     !.event = e, !.attempts = event[e].attempts + 1]]
      BY <1>7 DEF Claim
    <2>2. e \in Events /\ pass[p].batch \ {e} \in SUBSET Events
      BY <1>2 DEF PassRow
    <2>3. \A f \in Events : event'[f].status = "processed" => event[f].status = "processed"
      BY <1>2, <2>1, <2>2 DEF EventRow
    <2>4. pass'[p].at # "answered" /\ \A q \in Passes \ {p} : pass'[q] = pass[q]
      <3>1. CASE NextEvent(p, pass[p].batch \ {e})
        BY <1>1, <2>2, <3>1, NextEventRow
      <3>2. CASE pass' = [pass EXCEPT ![p] = [Idle EXCEPT !.at = "claimed", !.batch = pass[p].batch \ {e},
                                                 !.event = e, !.attempts = event[e].attempts + 1]]
        BY <1>2, <3>2 DEF Idle
      <3> QED
        BY <2>1, <3>1, <3>2
    <2> QED
      BY <1>7, <2>3, <2>4, NothingMarked DEF Claim, history
  <1>8. ASSUME NEW p \in Passes, Unconfigured(p) \/ Record(p)
        PROVE  AnsweredWasReceived' /\ ProcessedWasReceived'
    <2> DEFINE e == pass[p].event
    <2>1. e \in Events /\ pass[p].batch \in SUBSET Events /\ NextEvent(p, pass[p].batch)
          /\ received' = received
      BY <1>1, <1>2, <1>8 DEF DeliveryInv, HasEvent, Unconfigured, Record, PassRow, history
    <2>2. pass'[p].at # "answered" /\ \A q \in Passes \ {p} : pass'[q] = pass[q]
      BY <1>1, <2>1, NextEventRow
    <2>3. AnsweredWasReceived'
      BY <2>1, <2>2 DEF ReceivedInv, AnsweredWasReceived, Acknowledged
    <2>4. \A f \in Events : event'[f].status = "processed" => event[f].status = "processed" \/ f \in received
      <3>1. \A f \in Events \ {e} : event'[f] = event[f]
        BY <1>2, <1>8, <2>1 DEF Unconfigured, Record
      <3>2. CASE \E retry, attempts : event'[e] = Failed(event[e], retry, attempts)
        BY <1>1, <2>1, <3>1, <3>2, FailedStatus
      <3>3. CASE Record(p) /\ Acknowledged(pass[p].answer)
        BY <2>1, <3>1, <3>3 DEF ReceivedInv, AnsweredWasReceived, Record
      <3>4. \/ \E retry, attempts : event'[e] = Failed(event[e], retry, attempts)
            \/ Record(p) /\ Acknowledged(pass[p].answer)
        <4>1. CASE Unconfigured(p)
          BY <1>2, <2>1, <4>1 DEF Unconfigured
        <4>2. CASE Record(p) /\ ~Acknowledged(pass[p].answer)
          BY <1>2, <2>1, <4>2 DEF Record
        <4> QED
          BY <1>8, <4>1, <4>2
      <3> QED
        BY <3>2, <3>3, <3>4
    <2> QED
      BY <2>1, <2>3, <2>4 DEF ReceivedInv, ProcessedWasReceived
  <1>9. ASSUME NEW p \in Passes, Send(p) PROVE AnsweredWasReceived' /\ ProcessedWasReceived'
    <2>1. PICK answer \in Answers :
              /\ pass' = [pass EXCEPT ![p] = [pass[p] EXCEPT !.at = "answered", !.answer = answer]]
              /\ received \subseteq received'
              /\ answer = "ok" => pass[p].event \in received'
      BY <1>9 DEF Send
    <2>2. /\ pass'[p].answer = answer /\ pass'[p].event = pass[p].event
          /\ \A q \in Passes \ {p} : pass'[q] = pass[q]
      BY <1>2, <2>1 DEF PassRow
    <2>3. AnsweredWasReceived'
      BY <2>1, <2>2 DEF ReceivedInv, AnsweredWasReceived, Acknowledged
    <2> QED
      BY <1>9, <2>1, <2>3 DEF ReceivedInv, ProcessedWasReceived, Send
  <1> QED
    BY <1>3, <1>4, <1>5, <1>6, <1>7, <1>8, <1>9 DEF DeliveryNext, Work

\* No event is marked as delivered that the Dose Club has not received, for
\* every number of events and passes and whatever the answers.
THEOREM DeliveredWasReceived == DeliverySpec => []ProcessedWasReceived
  <1>1. ReceivedInv => ProcessedWasReceived
    BY DEF ReceivedInv
  <1> QED
    BY ReceivedStart, ReceivedStep, <1>1, PTL DEF DeliverySpec

-----------------------------------------------------------------------------
(*               The commands of the browser (CommandOutbox)               *)

Entries == [status : {"absent", "pending", "confirmed", "failed", "requires_attention"},
            attempts : 0 .. MaxSends, manual : BOOLEAN]

TabRows == [at : {"idle", "queued", "sending", "answered"}, todo : SUBSET Keys,
            send : 0 .. MaxSends, outcome : {"none", "ok", "refused", "uncertain"}]

Requests == [key : Keys \cup {None},
             at : {"unsent", "sent", "reserved", "done", "told", "refused", "failed"}]

Sent == {i \in Sends : request[i].at # "unsent"}

\* Requests are sent in their order, and what is sent names a key.
InOrder ==
    /\ \A i \in Sends : request[i].at # "unsent" <=> request[i].key \in Keys
    /\ \E n \in 0 .. MaxSends : Sent = 1 .. n

\* No entry counts more attempts than requests were sent.
AttemptsSent == \A k \in Keys : entry[k].attempts < NextSend

EffectsHaveReceipts == \A k \in Keys : applied[k] = IF k \in receipt THEN 1 ELSE 0

AnswersHaveReceipts == \A i \in Sends : request[i].at \in {"done", "told"} => request[i].key \in receipt

OneReservation ==
    \A i \in Sends : request[i].at = "reserved" =>
        /\ request[i].key \notin receipt
        /\ \A j \in Sends : request[j].at = "reserved" /\ request[j].key = request[i].key => i = j

\* A tab that waits for an answer, or has one, has sent a request.
TabsHaveSent ==
    \A t \in Tabs : tab[t].at \in {"sending", "answered"} =>
        /\ tab[t].send \in Sent
        /\ tab[t].at = "answered" /\ tab[t].outcome = "ok" => request[tab[t].send].key \in receipt

ConfirmedHasReceipt == \A k \in Keys : entry[k].status = "confirmed" /\ ~entry[k].manual => k \in receipt

OutboxInv ==
    /\ TypeOK
    /\ InOrder /\ AttemptsSent
    /\ EffectsHaveReceipts /\ AnswersHaveReceipts /\ OneReservation
    /\ TabsHaveSent /\ ConfirmedHasReceipt
-----------------------------------------------------------------------------
LEMMA Bounds == MaxSends \in Nat \ {0} /\ None \notin Keys
  BY BoundsAssumption, NoneAssumption

\* What was sent is a beginning of Sends.
LEMMA SentIsBeginning ==
    ASSUME InOrder
    PROVE  /\ NextSend \in Nat \ {0}
           /\ Sent = 1 .. (NextSend - 1)
           /\ NextSend - 1 <= MaxSends
  <1>1. PICK n \in 0 .. MaxSends : Sent = 1 .. n
    BY DEF InOrder
  <1>2. Cardinality(Sent) = n
    BY <1>1, Bounds, FS_Interval
  <1>3. NextSend = n + 1
    BY <1>2 DEF NextSend, Sent
  <1> QED
    BY <1>1, <1>3, Bounds

\* The same requests are sent: the next one is, too.
LEMMA SentKept ==
    ASSUME InOrder, Sent' = Sent, NEW k \in Keys
    PROVE  NextSend' = NextSend
  BY DEF NextSend, Sent

\* Where a tab goes on, it waits for no answer.
LEMMA ContinueRow ==
    ASSUME NEW t \in Tabs, NEW todo \in SUBSET Keys, TypeOK, Continue(t, todo)
    PROVE  /\ tab' \in [Tabs -> TabRows]
           /\ tab'[t].at \in {"idle", "queued"}
           /\ \A u \in Tabs \ {t} : tab'[u] = tab[u]
  <1> DEFINE row == IF todo = {} THEN Resting ELSE [Resting EXCEPT !.at = "queued", !.todo = todo]
  <1>1. Resting \in TabRows /\ Resting.at = "idle"
    BY Bounds DEF Resting, TabRows
  <1>2. \A r \in TabRows : [r EXCEPT !.at = "queued", !.todo = todo] \in TabRows
                          /\ [r EXCEPT !.at = "queued", !.todo = todo].at = "queued"
    BY DEF TabRows
  <1>3. row \in TabRows /\ row.at \in {"idle", "queued"}
    BY <1>1, <1>2
  <1>4. tab' = [tab EXCEPT ![t] = row] /\ tab \in [Tabs -> TabRows]
    BY DEF Continue, TypeOK, TabRows
  <1> HIDE DEF row
  <1> QED
    BY <1>3, <1>4

\* A step that touches neither requests nor what the server holds leaves
\* what is said of them.
ServerKept == UNCHANGED <<request, receipt, applied>>

LEMMA ServerInvKept ==
    ASSUME OutboxInv, ServerKept
    PROVE  InOrder' /\ EffectsHaveReceipts' /\ AnswersHaveReceipts' /\ OneReservation' /\ Sent' = Sent /\ NextSend' = NextSend
  <1>1. Sent' = Sent /\ NextSend' = NextSend
    BY DEF ServerKept, Sent, NextSend
  <1> QED
    BY <1>1 DEF ServerKept, OutboxInv, InOrder, EffectsHaveReceipts, AnswersHaveReceipts, OneReservation

LEMMA Start == Init => OutboxInv
  <1> SUFFICES ASSUME Init PROVE OutboxInv
    OBVIOUS
  <1>1. TypeOK
    <2>1. Resting \in TabRows /\ AbsentEntry \in Entries /\ Unsent \in Requests
      BY Bounds DEF Resting, TabRows, AbsentEntry, Entries, Unsent, Requests
    <2>2. tab \in [Tabs -> TabRows] /\ entry \in [Keys -> Entries] /\ request \in [Sends -> Requests]
      BY <2>1 DEF Init
    <2> QED
      BY <2>2 DEF Init, TypeOK, TabRows, Entries, Requests
  <1>2. InOrder /\ Sent = {}
    <2>1. Sent = {}
      BY DEF Init, Sent, Unsent
    <2>2. Sent = 1 .. 0 /\ 0 \in 0 .. MaxSends
      BY <2>1, Bounds
    <2> QED
      BY <2>1, <2>2, Bounds DEF InOrder, Init, Unsent
  <1>3. AttemptsSent
    BY <1>2, SentIsBeginning DEF AttemptsSent, Init, AbsentEntry
  <1> QED
    BY <1>1, <1>2, <1>3 DEF OutboxInv, Init, EffectsHaveReceipts, AnswersHaveReceipts, OneReservation,
       TabsHaveSent, ConfirmedHasReceipt, AbsentEntry, Resting, Unsent
-----------------------------------------------------------------------------
\* A step of a tab or an operator that sends nothing: it counts no attempt,
\* it confirms by hand or what has a receipt, and who waits now waited before.
TabRowKept(t) ==
    tab'[t].at \in {"sending", "answered"} =>
        /\ tab[t].at \in {"sending", "answered"} /\ tab'[t].send = tab[t].send
        /\ tab'[t].at = "answered" /\ tab'[t].outcome = "ok" => tab'[t] = tab[t]

EntryKept(k) ==
    /\ entry'[k].attempts <= entry[k].attempts
    /\ entry'[k].status = "confirmed" /\ ~entry'[k].manual =>
          k \in receipt \/ (entry[k].status = "confirmed" /\ ~entry[k].manual)

LEMMA ClientStepKeeps ==
    ASSUME OutboxInv, ServerKept, tab' \in [Tabs -> TabRows], entry' \in [Keys -> Entries],
           \A t \in Tabs : TabRowKept(t), \A k \in Keys : EntryKept(k)
    PROVE  OutboxInv'
  <1>1. TypeOK'
    BY DEF OutboxInv, TypeOK, TabRows, Entries, ServerKept
  <1>2. InOrder' /\ EffectsHaveReceipts' /\ AnswersHaveReceipts' /\ OneReservation' /\ Sent' = Sent /\ NextSend' = NextSend
    BY ServerInvKept
  <1>3. AttemptsSent'
    <2> SUFFICES ASSUME NEW k \in Keys PROVE entry'[k].attempts < NextSend
      BY <1>2 DEF AttemptsSent
    <2>1. entry[k].attempts < NextSend /\ entry'[k].attempts <= entry[k].attempts
      BY DEF OutboxInv, AttemptsSent, EntryKept
    <2>2. NextSend \in Nat /\ entry[k].attempts \in Nat /\ entry'[k].attempts \in Nat
      BY SentIsBeginning, Bounds DEF OutboxInv, TypeOK, Entries
    <2> QED
      BY <2>1, <2>2
  <1>4. TabsHaveSent'
    <2> SUFFICES ASSUME NEW t \in Tabs, tab'[t].at \in {"sending", "answered"}
                 PROVE  /\ tab'[t].send \in Sent
                        /\ tab'[t].at = "answered" /\ tab'[t].outcome = "ok" => request[tab'[t].send].key \in receipt
      BY <1>2 DEF TabsHaveSent, ServerKept
    <2> QED
      BY DEF OutboxInv, TabsHaveSent, TabRowKept
  <1>5. ConfirmedHasReceipt'
    BY DEF OutboxInv, ConfirmedHasReceipt, EntryKept, ServerKept
  <1> QED
    BY <1>1, <1>2, <1>3, <1>4, <1>5 DEF OutboxInv

LEMMA Typed ==
    ASSUME TypeOK
    PROVE  entry \in [Keys -> Entries] /\ tab \in [Tabs -> TabRows] /\ request \in [Sends -> Requests]
  BY DEF TypeOK, Entries, TabRows, Requests

\* Entries as the operations on the outbox write them.
LEMMA EntryRows ==
    ASSUME TypeOK, NEW k \in Keys
    PROVE  /\ AbsentEntry \in Entries /\ AbsentEntry.attempts = 0 /\ AbsentEntry.status = "absent"
           /\ entry[k].attempts \in Nat
  BY Bounds DEF TypeOK, Entries, AbsentEntry

LEMMA ContinueKept ==
    ASSUME NEW t \in Tabs, NEW todo \in SUBSET Keys, TypeOK, Continue(t, todo)
    PROVE  tab' \in [Tabs -> TabRows] /\ \A u \in Tabs : TabRowKept(u)
  BY ContinueRow DEF TabRowKept

LEMMA EntryUnchanged ==
    ASSUME TypeOK, UNCHANGED entry
    PROVE  entry' \in [Keys -> Entries] /\ \A k \in Keys : EntryKept(k)
  BY Typed, EntryRows DEF EntryKept

LEMMA EnqueueKeeps ==
    ASSUME OutboxInv, NEW t \in Tabs, NEW k \in Keys, Enqueue(t, k)
    PROVE  OutboxInv'
  <1>1. TypeOK
    BY DEF OutboxInv
  <1>2. ServerKept /\ tab' \in [Tabs -> TabRows] /\ \A u \in Tabs : TabRowKept(u)
    BY <1>1, ContinueKept DEF Enqueue, ServerKept
  <1>3. entry' \in [Keys -> Entries] /\ \A l \in Keys : EntryKept(l)
    <2>1. CASE UNCHANGED entry
      BY <1>1, <2>1, EntryUnchanged
    <2>2. CASE entry' = [entry EXCEPT ![k] = [AbsentEntry EXCEPT !.status = "pending"]]
      <3> DEFINE row == [AbsentEntry EXCEPT !.status = "pending"]
      <3>1. row \in Entries /\ row.attempts = 0 /\ row.status = "pending"
        <4>1. \A r \in Entries : LET p == [r EXCEPT !.status = "pending"]
                                IN  p \in Entries /\ p.attempts = r.attempts /\ p.status = "pending"
          BY DEF Entries
        <4> QED
          BY <1>1, <4>1, EntryRows
      <3>2. entry' = [entry EXCEPT ![k] = row]
        BY <2>2
      <3> HIDE DEF row
      <3> QED
        BY <1>1, <3>1, <3>2, Typed, EntryRows DEF EntryKept
    <2> QED
      BY <2>1, <2>2 DEF Enqueue
  <1> QED
    BY <1>2, <1>3, ClientStepKeeps

LEMMA RestedKeeps ==
    ASSUME OutboxInv, NEW t \in Tabs, NEW todo \in SUBSET Keys, Continue(t, todo),
           UNCHANGED <<entry, request, receipt, applied>>
    PROVE  OutboxInv'
  <1>1. TypeOK
    BY DEF OutboxInv
  <1> QED
    BY <1>1, ContinueKept, EntryUnchanged, ClientStepKeeps DEF ServerKept

LEMMA LoseKeeps ==
    ASSUME OutboxInv, NEW t \in Tabs, Lose(t)
    PROVE  OutboxInv'
  <1>1. TypeOK
    BY DEF OutboxInv
  <1>2. tab' = [tab EXCEPT ![t] = [tab[t] EXCEPT !.at = "answered", !.outcome = "uncertain"]]
    BY DEF Lose, Answered
  <1>3. tab' \in [Tabs -> TabRows] /\ \A u \in Tabs : TabRowKept(u)
    BY <1>1, <1>2, Typed DEF Lose, TabRowKept, TabRows
  <1>4. entry' \in [Keys -> Entries] /\ \A k \in Keys : EntryKept(k)
    BY <1>1, EntryUnchanged DEF Lose
  <1> QED
    BY <1>3, <1>4, ClientStepKeeps DEF Lose, ServerKept

LEMMA MarkKeeps ==
    ASSUME OutboxInv, NEW t \in Tabs, Mark(t)
    PROVE  OutboxInv'
  <1> DEFINE k == request[tab[t].send].key
             outcome == tab[t].outcome
  <1>1. TypeOK /\ tab[t].send \in Sends /\ k \in Keys /\ tab[t].todo \in SUBSET Keys
    <2>1. tab[t].send \in Sent
      BY DEF OutboxInv, Mark, TabsHaveSent
    <2> QED
      BY <2>1 DEF OutboxInv, InOrder, Sent, TypeOK
  <1>2. CASE entry[k].status = "absent" /\ Continue(t, {}) /\ UNCHANGED entry
    BY <1>2, RestedKeeps DEF Mark
  <1>3. CASE /\ entry' = [entry EXCEPT ![k] = [@ EXCEPT !.status = StatusFor(outcome),
                                                        !.manual = entry[k].manual /\ outcome # "ok"]]
             /\ Continue(t, tab[t].todo)
    <2>1. tab' \in [Tabs -> TabRows] /\ \A u \in Tabs : TabRowKept(u)
      BY <1>1, <1>3, ContinueKept
    <2>2. /\ StatusFor(outcome) \in {"confirmed", "failed", "requires_attention"}
          /\ StatusFor(outcome) = "confirmed" => outcome = "ok"
      BY DEF StatusFor
    <2>3. outcome = "ok" => k \in receipt
      BY DEF Mark, OutboxInv, TabsHaveSent
    <2>4. entry' \in [Keys -> Entries]
      BY <1>1, <1>3, <2>2, Typed DEF Entries
    <2>5. \A l \in Keys : EntryKept(l)
      BY <1>1, <1>3, <2>2, <2>3, Typed, EntryRows DEF EntryKept, Entries
    <2> QED
      BY <2>1, <2>4, <2>5, ClientStepKeeps DEF Mark, ServerKept
  <1> QED
    BY <1>2, <1>3 DEF Mark

\* The operator's buttons and the pruning of entries.
LEMMA EntryStepKeeps ==
    ASSUME OutboxInv, NEW k \in Keys, ResolveManually(k) \/ Discard(k) \/ Expire(k)
    PROVE  OutboxInv'
  <1>1. TypeOK /\ entry \in [Keys -> Entries]
    BY Typed DEF OutboxInv
  <1>2. ServerKept /\ UNCHANGED tab
    BY DEF ResolveManually, Discard, Expire, ServerKept
  <1>3. tab' \in [Tabs -> TabRows] /\ \A u \in Tabs : TabRowKept(u)
    BY <1>1, <1>2, Typed DEF TabRowKept
  <1>4. PICK row \in Entries : /\ entry' = [entry EXCEPT ![k] = row]
                               /\ row.attempts <= entry[k].attempts
                               /\ row.status = "confirmed" => row.manual
    <2>1. CASE ResolveManually(k)
      <3> DEFINE row == [entry[k] EXCEPT !.status = "confirmed", !.manual = TRUE]
      <3>1. row \in Entries /\ row.attempts = entry[k].attempts /\ row.manual
        BY <1>1 DEF Entries
      <3>2. entry' = [entry EXCEPT ![k] = row]
        BY <2>1 DEF ResolveManually
      <3>3. row.attempts <= entry[k].attempts
        BY <1>1, <3>1, EntryRows
      <3> HIDE DEF row
      <3> QED
        BY <3>1, <3>2, <3>3
    <2>2. CASE Discard(k) \/ Expire(k)
      <3>1. entry' = [entry EXCEPT ![k] = AbsentEntry]
        BY <2>2 DEF Discard, Expire
      <3>2. AbsentEntry \in Entries /\ AbsentEntry.attempts <= entry[k].attempts /\ AbsentEntry.status = "absent"
        BY <1>1, EntryRows
      <3> QED
        BY <3>1, <3>2
    <2> QED
      BY <2>1, <2>2
  <1>5. entry' \in [Keys -> Entries] /\ \A l \in Keys : EntryKept(l)
    BY <1>1, <1>4, EntryRows DEF EntryKept
  <1> QED
    BY <1>2, <1>3, <1>5, ClientStepKeeps

LEMMA AttemptKeeps ==
    ASSUME OutboxInv, NEW t \in Tabs, Attempt(t)
    PROVE  OutboxInv'
  <1> DEFINE n == NextSend
  <1>0. TypeOK /\ tab[t].todo \in SUBSET Keys
    BY DEF OutboxInv, TypeOK
  <1>1. PICK k \in tab[t].todo :
           \/ entry[k].status = "absent" /\ Continue(t, {}) /\ UNCHANGED <<entry, request>>
           \/ /\ entry[k].status # "absent" /\ n \in Sends
              /\ entry' = [entry EXCEPT ![k] = [@ EXCEPT !.status = "pending", !.attempts = entry[k].attempts + 1]]
              /\ request' = [request EXCEPT ![n] = [key |-> k, at |-> "sent"]]
              /\ tab' = [tab EXCEPT ![t] = [at |-> "sending", todo |-> tab[t].todo \ {k},
                                            send |-> n, outcome |-> "none"]]
    BY DEF Attempt
  <1>2. UNCHANGED <<receipt, applied>> /\ k \in Keys
    BY <1>0 DEF Attempt
  <1>3. CASE entry[k].status = "absent" /\ Continue(t, {}) /\ UNCHANGED <<entry, request>>
    BY <1>2, <1>3, RestedKeeps
  <1>4. CASE /\ n \in Sends
             /\ entry' = [entry EXCEPT ![k] = [@ EXCEPT !.status = "pending", !.attempts = entry[k].attempts + 1]]
             /\ request' = [request EXCEPT ![n] = [key |-> k, at |-> "sent"]]
             /\ tab' = [tab EXCEPT ![t] = [at |-> "sending", todo |-> tab[t].todo \ {k},
                                           send |-> n, outcome |-> "none"]]
    <2>1. n \in Nat \ {0} /\ Sent = 1 .. (n - 1) /\ n <= MaxSends /\ n \in Sends
      BY <1>4, Bounds, SentIsBeginning DEF OutboxInv, Sends
    <2>2. /\ request'[n].key = k /\ request'[n].at = "sent"
          /\ \A i \in Sends \ {n} : request'[i] = request[i]
          /\ request' \in [Sends -> Requests]
      BY <1>0, <1>2, <1>4, <2>1, Typed DEF Requests
    <2>3. Sent' = Sent \cup {n} /\ Sent' = 1 .. n
      <3>1. Sent' = Sent \cup {n}
        BY <2>1, <2>2 DEF Sent
      <3> QED
        BY <2>1, <3>1
    <2>4. InOrder'
      <3>1. \A i \in Sends : request'[i].at # "unsent" <=> request'[i].key \in Keys
        BY <1>2, <2>2 DEF OutboxInv, InOrder
      <3> QED
        BY <2>1, <2>3, <3>1, Bounds DEF InOrder
    <2>5. NextSend' = n + 1
      <3>1. \A m \in Nat \ {0} : Cardinality(1 .. m) = m
        BY FS_Interval
      <3>2. NextSend' = Cardinality(Sent') + 1
        BY DEF NextSend, Sent
      <3>3. Cardinality(Sent') = n
        BY <2>1, <2>3, <3>1
      <3> QED
        BY <3>2, <3>3
    <2> HIDE DEF n
    <2>6. /\ entry' \in [Keys -> Entries]
          /\ entry'[k].attempts = entry[k].attempts + 1 /\ entry'[k].status = "pending"
          /\ \A l \in Keys \ {k} : entry'[l] = entry[l]
      <3>1. entry[k].attempts + 1 \in 0 .. MaxSends
        BY <1>0, <1>2, <2>1, Bounds, Typed DEF OutboxInv, AttemptsSent, Entries, n
      <3> DEFINE row == [entry[k] EXCEPT !.status = "pending", !.attempts = entry[k].attempts + 1]
      <3>2. row \in Entries /\ row.attempts = entry[k].attempts + 1 /\ row.status = "pending"
        BY <1>0, <1>2, <3>1, Typed DEF Entries
      <3>3. entry' = [entry EXCEPT ![k] = row]
        BY <1>4
      <3> HIDE DEF row
      <3> QED
        BY <1>0, <1>2, <3>2, <3>3, Typed
    <2>7. AttemptsSent'
      <3> SUFFICES ASSUME NEW l \in Keys PROVE entry'[l].attempts < n + 1
        BY <2>5 DEF AttemptsSent
      <3>1. entry[l].attempts < n /\ entry[l].attempts \in Nat
        BY <1>0, Bounds, Typed DEF OutboxInv, AttemptsSent, Entries, n
      <3> QED
        BY <2>1, <2>6, <3>1
    <2>8. tab' \in [Tabs -> TabRows] /\ \A u \in Tabs \ {t} : tab'[u] = tab[u]
      <3>1. [at |-> "sending", todo |-> tab[t].todo \ {k}, send |-> n, outcome |-> "none"] \in TabRows
        BY <1>0, <2>1, Bounds DEF TabRows
      <3> QED
        BY <1>0, <1>4, <3>1, Typed
    <2>9. TypeOK'
      BY <1>0, <1>2, <2>2, <2>6, <2>8 DEF TypeOK, Entries, TabRows, Requests
    <2>10. EffectsHaveReceipts' /\ AnswersHaveReceipts' /\ OneReservation' /\ ConfirmedHasReceipt'
      <3>1. EffectsHaveReceipts' /\ ConfirmedHasReceipt'
        BY <1>2, <2>6 DEF OutboxInv, EffectsHaveReceipts, ConfirmedHasReceipt
      <3>2. AnswersHaveReceipts' /\ OneReservation'
        BY <1>2, <2>2 DEF OutboxInv, AnswersHaveReceipts, OneReservation
      <3> QED
        BY <3>1, <3>2
    <2>11. TabsHaveSent'
      <3> SUFFICES ASSUME NEW u \in Tabs, tab'[u].at \in {"sending", "answered"}
                   PROVE  /\ tab'[u].send \in Sent'
                          /\ tab'[u].at = "answered" /\ tab'[u].outcome = "ok" => request'[tab'[u].send].key \in receipt'
        BY DEF TabsHaveSent
      <3>1. CASE u = t
        <4>1. tab'[t].at = "sending" /\ tab'[t].send = n
          BY <1>0, <1>4, Typed
        <4> QED
          BY <2>3, <3>1, <4>1
      <3>2. CASE u # t
        <4>1. tab'[u] = tab[u]
          BY <2>8, <3>2
        <4>2. tab[u].send \in Sent /\ n \notin Sent
          BY <2>1, <4>1 DEF OutboxInv, TabsHaveSent
        <4>3. tab[u].send \in Sends /\ tab[u].send # n
          BY <4>2 DEF Sent
        <4> QED
          BY <1>2, <2>2, <2>3, <4>1, <4>2, <4>3 DEF OutboxInv, TabsHaveSent
      <3> QED
        BY <3>1, <3>2
    <2> QED
      BY <2>4, <2>7, <2>9, <2>10, <2>11 DEF OutboxInv
  <1> QED
    BY <1>1, <1>3, <1>4

\* A step that moves one request on keeps what was sent, and by whom.
RequestStep(i, a) == request' = [request EXCEPT ![i].at = a]

LEMMA RequestMoves ==
    ASSUME OutboxInv, NEW i \in Sends, request[i].at # "unsent",
           NEW a \in {"sent", "reserved", "done", "told", "refused", "failed"}, RequestStep(i, a)
    PROVE  /\ request' \in [Sends -> Requests]
           /\ \A j \in Sends : request'[j].key = request[j].key
           /\ request'[i].at = a /\ request[i].key \in Keys
           /\ \A j \in Sends \ {i} : request'[j] = request[j]
           /\ Sent' = Sent /\ NextSend' = NextSend /\ InOrder'
  <1>1. request \in [Sends -> Requests]
    BY Typed DEF OutboxInv
  <1>2. /\ request' \in [Sends -> Requests]
        /\ \A j \in Sends : request'[j].key = request[j].key
        /\ request'[i].at = a
        /\ \A j \in Sends \ {i} : request'[j] = request[j]
    BY <1>1 DEF RequestStep, Requests
  <1>3. \A j \in Sends : request'[j].at # "unsent" <=> request[j].at # "unsent"
    BY <1>2
  <1>4. Sent' = Sent /\ NextSend' = NextSend
    BY <1>3 DEF Sent, NextSend
  <1>5. InOrder' /\ request[i].key \in Keys
    BY <1>2, <1>3, <1>4 DEF OutboxInv, InOrder
  <1> QED
    BY <1>2, <1>4, <1>5

LEMMA RequestStepKeeps ==
    ASSUME OutboxInv, NEW i \in Sends, request[i].at # "unsent",
           NEW a \in {"sent", "reserved", "done", "told", "refused", "failed"}, RequestStep(i, a),
           UNCHANGED entry, tab' \in [Tabs -> TabRows], receipt' \in SUBSET Keys, applied' \in [Keys -> Nat],
           receipt \subseteq receipt', EffectsHaveReceipts',
           a \in {"done", "told"} => request[i].key \in receipt',
           a = "reserved" => request[i].key \notin receipt /\ ~Reserved(request[i].key),
           receipt' \subseteq receipt \cup {request[i].key},
           receipt' # receipt => request[i].at = "reserved" /\ a # "reserved",
           \A t \in Tabs : \/ tab'[t] = tab[t]
                           \/ /\ tab[t].at \in {"sending", "answered"} /\ tab'[t].send = tab[t].send
                              /\ tab'[t].outcome = "ok" => request[tab[t].send].key \in receipt'
    PROVE  OutboxInv'
  <1>1. /\ request' \in [Sends -> Requests]
        /\ \A j \in Sends : request'[j].key = request[j].key
        /\ request'[i].at = a /\ request[i].key \in Keys
        /\ \A j \in Sends \ {i} : request'[j] = request[j]
        /\ Sent' = Sent /\ NextSend' = NextSend /\ InOrder'
    BY RequestMoves
  <1>2. TypeOK'
    BY <1>1 DEF OutboxInv, TypeOK, TabRows, Requests
  <1>3. AttemptsSent' /\ ConfirmedHasReceipt'
    BY <1>1 DEF OutboxInv, AttemptsSent, ConfirmedHasReceipt
  <1>4. AnswersHaveReceipts'
    BY <1>1 DEF OutboxInv, AnswersHaveReceipts
  <1>5. OneReservation'
    <2> SUFFICES ASSUME NEW j \in Sends, request'[j].at = "reserved"
                 PROVE  /\ request'[j].key \notin receipt'
                        /\ \A l \in Sends : request'[l].at = "reserved" /\ request'[l].key = request'[j].key => j = l
      BY DEF OneReservation
    <2>1. CASE a = "reserved"
      <3>1. receipt' = receipt /\ request[i].key \notin receipt
            /\ \A l \in Sends : request[l].key = request[i].key => request[l].at # "reserved"
        BY <2>1 DEF Reserved
      <3> QED
        BY <1>1, <2>1, <3>1 DEF OutboxInv, OneReservation
    <2>2. CASE a # "reserved"
      <3>1. j # i /\ request[j].at = "reserved" /\ request'[j] = request[j]
        BY <1>1, <2>2
      <3>2. request[j].key \notin receipt /\ \A l \in Sends : request[l].at = "reserved" /\ request[l].key = request[j].key => j = l
        BY <3>1 DEF OutboxInv, OneReservation
      <3>3. \A l \in Sends : request'[l].at = "reserved" => request[l].at = "reserved"
        BY <1>1, <2>2
      <3>4. request[j].key \notin receipt'
        BY <3>1, <3>2
      <3> QED
        BY <1>1, <3>1, <3>2, <3>3, <3>4
    <2> QED
      BY <2>1, <2>2
  <1>6. TabsHaveSent'
    <2> SUFFICES ASSUME NEW t \in Tabs, tab'[t].at \in {"sending", "answered"}
                 PROVE  /\ tab'[t].send \in Sent
                        /\ tab'[t].at = "answered" /\ tab'[t].outcome = "ok" => request'[tab'[t].send].key \in receipt'
      BY <1>1 DEF TabsHaveSent
    <2>1. tab[t].at \in {"sending", "answered"} /\ tab'[t].send = tab[t].send
      OBVIOUS
    <2>2. tab[t].send \in Sent /\ tab[t].send \in Sends
      BY <2>1 DEF OutboxInv, TabsHaveSent, Sent
    <2>3. tab'[t].at = "answered" /\ tab'[t].outcome = "ok" => request[tab[t].send].key \in receipt'
      BY DEF OutboxInv, TabsHaveSent
    <2> QED
      BY <1>1, <2>1, <2>2, <2>3
  <1> QED
    BY <1>1, <1>2, <1>3, <1>4, <1>5, <1>6 DEF OutboxInv

LEMMA ReceiveKeeps ==
    ASSUME OutboxInv, NEW t \in Tabs, Receive(t)
    PROVE  OutboxInv'
  <1> DEFINE i == tab[t].send
  <1>1. TypeOK /\ i \in Sends /\ i \in Sent /\ request[i].at # "unsent" /\ tab \in [Tabs -> TabRows]
    BY Typed DEF OutboxInv, Receive, TabsHaveSent, Sent
  <1>2. PICK outcome \in {"ok", "refused", "uncertain"}, a \in {"told", "refused", "failed"} :
           /\ Answered(t, outcome)
           /\ outcome = "ok" => request[i].at = "done"
           /\ a = "told" => request[i].at = "done"
           /\ request' = [request EXCEPT ![i].at = a]
    <2>1. request[i].at = "refused" \/ request[i].at = "failed" => request = [request EXCEPT ![i].at = request[i].at]
      BY <1>1, Typed DEF Requests
    <2> QED
      BY <1>1, <2>1 DEF Receive
  <1>3. /\ tab' \in [Tabs -> TabRows]
        /\ tab'[t].send = tab[t].send /\ tab'[t].outcome = outcome
        /\ \A u \in Tabs \ {t} : tab'[u] = tab[u]
    <2>1. \A r \in TabRows : LET p == [r EXCEPT !.at = "answered", !.outcome = outcome]
                             IN  p \in TabRows /\ p.send = r.send /\ p.outcome = outcome
      BY DEF TabRows
    <2> DEFINE row == [tab[t] EXCEPT !.at = "answered", !.outcome = outcome]
    <2>2. row \in TabRows /\ row.send = tab[t].send /\ row.outcome = outcome
      BY <1>1, <2>1
    <2>3. tab' = [tab EXCEPT ![t] = row]
      BY <1>2 DEF Answered
    <2> HIDE DEF row
    <2> QED
      BY <1>1, <2>2, <2>3
  <1>4. request[i].at = "done" => request[i].key \in receipt
    BY <1>1 DEF OutboxInv, AnswersHaveReceipts
  <1>5. UNCHANGED <<entry, receipt, applied>> /\ tab[t].at = "sending"
    BY DEF Receive
  <1>6. EffectsHaveReceipts' /\ receipt' \in SUBSET Keys /\ applied' \in [Keys -> Nat]
    BY <1>5 DEF OutboxInv, EffectsHaveReceipts, TypeOK
  <1>7. \A u \in Tabs : \/ tab'[u] = tab[u]
                        \/ /\ tab[u].at \in {"sending", "answered"} /\ tab'[u].send = tab[u].send
                           /\ tab'[u].outcome = "ok" => request[tab[u].send].key \in receipt'
    BY <1>2, <1>3, <1>4, <1>5
  <1>8. RequestStep(i, a)
    BY <1>2 DEF RequestStep
  <1> HIDE DEF i
  <1> QED
    BY <1>1, <1>2, <1>3, <1>4, <1>5, <1>6, <1>7, <1>8, RequestStepKeeps

LEMMA ServerStepKeeps ==
    ASSUME OutboxInv, NEW i \in Sends, Reserve(i) \/ Commit(i) \/ Rollback(i)
    PROVE  OutboxInv'
  <1> DEFINE k == request[i].key
  <1>1. TypeOK /\ request[i].at # "unsent" /\ k \in Keys /\ tab \in [Tabs -> TabRows]
    BY Typed DEF OutboxInv, Reserve, Commit, Rollback, InOrder
  <1>2. UNCHANGED <<entry, tab>> /\ tab' \in [Tabs -> TabRows]
    BY <1>1 DEF Reserve, Commit, Rollback
  <1>3. CASE Reserve(i)
    <2> DEFINE a == IF k \in receipt THEN "done" ELSE "reserved"
    <2>1. RequestStep(i, a) /\ a \in {"done", "reserved"} /\ UNCHANGED <<receipt, applied>> /\ ~Reserved(k)
      BY <1>3 DEF Reserve, RequestStep, MayReserve
    <2>2. EffectsHaveReceipts' /\ receipt' \in SUBSET Keys /\ applied' \in [Keys -> Nat]
      BY <2>1 DEF OutboxInv, EffectsHaveReceipts, TypeOK
    <2>3. (a = "done" => k \in receipt) /\ (a = "reserved" => k \notin receipt)
      OBVIOUS
    <2> HIDE DEF a
    <2> QED
      BY <1>1, <1>2, <2>1, <2>2, <2>3, RequestStepKeeps
  <1>4. CASE Commit(i)
    <2>1. /\ RequestStep(i, "done") /\ request[i].at = "reserved"
          /\ receipt' = receipt \cup {k} /\ applied' = [applied EXCEPT ![k] = @ + 1]
      BY <1>4 DEF Commit, RequestStep
    <2>2. k \notin receipt
      BY <2>1 DEF OutboxInv, OneReservation
    <2>3. receipt' \in SUBSET Keys /\ applied' \in [Keys -> Nat]
      BY <1>1, <2>1 DEF TypeOK
    <2>4. EffectsHaveReceipts'
      BY <1>1, <2>1, <2>2 DEF OutboxInv, EffectsHaveReceipts, TypeOK
    <2> QED
      BY <1>1, <1>2, <2>1, <2>2, <2>3, <2>4, RequestStepKeeps
  <1>5. CASE Rollback(i)
    <2>1. PICK a \in {"refused", "failed"} : RequestStep(i, a)
      BY <1>5 DEF Rollback, RequestStep
    <2>2. UNCHANGED <<receipt, applied>>
      BY <1>5 DEF Rollback
    <2>3. EffectsHaveReceipts' /\ receipt' \in SUBSET Keys /\ applied' \in [Keys -> Nat]
      BY <2>2 DEF OutboxInv, EffectsHaveReceipts, TypeOK
    <2> QED
      BY <1>1, <1>2, <2>1, <2>2, <2>3, RequestStepKeeps
  <1> QED
    BY <1>3, <1>4, <1>5
-----------------------------------------------------------------------------
LEMMA NextKeeps == OutboxInv /\ [Next]_vars => OutboxInv'
  <1> SUFFICES ASSUME OutboxInv, [Next]_vars PROVE OutboxInv'
    OBVIOUS
  <1>1. ASSUME NEW t \in Tabs, NEW k \in Keys, Enqueue(t, k) PROVE OutboxInv'
    BY <1>1, EnqueueKeeps
  <1>2. ASSUME NEW t \in Tabs, NEW k \in Keys, Retry(t, k) PROVE OutboxInv'
    BY <1>2, RestedKeeps DEF Retry
  <1>3. ASSUME NEW t \in Tabs, Reconcile(t) PROVE OutboxInv'
    BY <1>3, RestedKeeps, ReplayableAssumption DEF Reconcile
  <1>4. ASSUME NEW t \in Tabs, CloseTab(t) PROVE OutboxInv'
    <2>1. Continue(t, {})
      BY <1>4 DEF CloseTab, Continue
    <2> QED
      BY <1>4, <2>1, RestedKeeps DEF CloseTab
  <1>5. ASSUME NEW t \in Tabs, Attempt(t) \/ Receive(t) \/ Lose(t) \/ Mark(t) PROVE OutboxInv'
    BY <1>5, AttemptKeeps, ReceiveKeeps, LoseKeeps, MarkKeeps
  <1>6. ASSUME NEW k \in Keys, ResolveManually(k) \/ Discard(k) \/ Expire(k) PROVE OutboxInv'
    BY <1>6, EntryStepKeeps
  <1>7. ASSUME NEW i \in Sends, Reserve(i) \/ Commit(i) \/ Rollback(i) PROVE OutboxInv'
    BY <1>7, ServerStepKeeps
  <1>8. ASSUME UNCHANGED vars PROVE OutboxInv'
    <2>1. ServerKept /\ UNCHANGED <<entry, tab>>
      BY <1>8 DEF vars, ServerKept
    <2>2. tab' \in [Tabs -> TabRows] /\ entry' \in [Keys -> Entries] /\ \A k \in Keys : EntryKept(k)
      BY <2>1, EntryUnchanged, Typed DEF OutboxInv
    <2> QED
      BY <2>1, <2>2, ClientStepKeeps DEF TabRowKept
  <1> QED
    BY <1>1, <1>2, <1>3, <1>4, <1>5, <1>6, <1>7, <1>8 DEF Next
LEMMA Invariant == Spec => []OutboxInv
  BY Start, NextKeeps, PTL DEF Spec

\* Entries, tabs, requests and effects keep their shape: no entry counts
\* more attempts than MaxSends, and no tab waits for a request never sent.
THEOREM OutboxTypes == Spec => []TypeOK
  <1>1. OutboxInv => TypeOK
    BY DEF OutboxInv
  <1> QED
    BY <1>1, Invariant, PTL

\* markConfirmed writes what the server answered, and the server answers a
\* success only with a receipt: what the panel shows as confirmed took
\* effect exactly once, however many tabs sent it and whichever was told.
THEOREM ConfirmedIsTrue == Spec => []ConfirmedTookEffect
  <1>1. OutboxInv => ConfirmedTookEffect
    BY DEF OutboxInv, ConfirmedTookEffect, ConfirmedHasReceipt, EffectsHaveReceipts
  <1> QED
    BY <1>1, Invariant, PTL
-----------------------------------------------------------------------------
(* The refinement: what was sent is asked for, the commit is the effect,   *)
(* and an answer that reaches a tab tells it; every other step stutters.   *)
Asked == {request[i].key : i \in {j \in Sends : request[j].at # "unsent"}}
Told == {request[i].key : i \in {j \in Sends : request[j].at = "told"}}

LEMMA MoveKeepsAsked ==
    ASSUME OutboxInv, NEW i \in Sends, request[i].at # "unsent", request[i].at # "told",
           NEW a \in {"sent", "reserved", "done", "told", "refused", "failed"}, RequestStep(i, a)
    PROVE  Asked' = Asked /\ Told' = IF a = "told" THEN Told \cup {request[i].key} ELSE Told
  <1>1. /\ \A j \in Sends : request'[j].key = request[j].key
        /\ request'[i].at = a
        /\ \A j \in Sends \ {i} : request'[j] = request[j]
    BY RequestMoves
  <1>2. Asked' = Asked
    <2>1. \A j \in Sends : request'[j].at # "unsent" <=> request[j].at # "unsent"
      BY <1>1
    <2> QED
      BY <1>1, <2>1 DEF Asked
  <1>3. CASE a = "told"
    BY <1>1, <1>2, <1>3 DEF Told
  <1>4. CASE a # "told"
    <2>1. \A j \in Sends : request'[j].at = "told" <=> request[j].at = "told"
      BY <1>1, <1>4
    <2> QED
      BY <1>1, <1>2, <1>4, <2>1 DEF Told
  <1> QED
    BY <1>3, <1>4

LEMMA AttemptAsks ==
    ASSUME OutboxInv, NEW t \in Tabs, Attempt(t)
    PROVE  Effect!Next \/ UNCHANGED Effect!vars
  <1>1. UNCHANGED <<receipt, applied>> /\ tab[t].todo \in SUBSET Keys /\ request \in [Sends -> Requests]
    BY Typed DEF Attempt, OutboxInv, TypeOK
  <1>2. CASE UNCHANGED request
    BY <1>1, <1>2 DEF Effect!vars
  <1>3. ASSUME NEW k \in tab[t].todo, NEW n \in Sends, n = NextSend,
               request' = [request EXCEPT ![n] = [key |-> k, at |-> "sent"]]
        PROVE  Effect!Next
    <2>1. request[n].at = "unsent"
      <3>1. n \notin Sent
        BY <1>3, SentIsBeginning DEF OutboxInv
      <3> QED
        BY <3>1 DEF Sent
    <2>2. /\ request'[n].key = k /\ request'[n].at = "sent"
          /\ \A i \in Sends \ {n} : request'[i] = request[i]
      BY <1>1, <1>3
    <2>3. Asked' = Asked \cup {k}
      BY <2>1, <2>2 DEF Asked
    <2>4. Told' = Told
      <3>1. \A i \in Sends : request'[i].at = "told" <=> request[i].at = "told"
        BY <2>1, <2>2
      <3>2. \A i \in Sends : request[i].at = "told" => request'[i].key = request[i].key
        BY <2>1, <2>2
      <3> QED
        BY <3>1, <3>2 DEF Told
    <2>5. Effect!Ask(k) /\ k \in Keys
      BY <1>1, <2>3, <2>4 DEF Effect!Ask, Asked, Told
    <2> QED
      BY <2>5 DEF Effect!Next
  <1> QED
    BY <1>2, <1>3 DEF Attempt

LEMMA ReceiveTells ==
    ASSUME OutboxInv, NEW t \in Tabs, Receive(t)
    PROVE  Effect!Next \/ UNCHANGED Effect!vars
  <1> DEFINE n == tab[t].send
  <1>1. UNCHANGED <<receipt, applied>> /\ n \in Sends /\ n \in Sent /\ request[n].at # "unsent"
    BY DEF Receive, OutboxInv, TabsHaveSent, Sent
  <1>2. CASE UNCHANGED request
    BY <1>1, <1>2 DEF Effect!vars
  <1>3. CASE request[n].at = "done" /\ RequestStep(n, "told")
    <2> PICK k \in Keys : k = request[n].key
      BY <1>1 DEF OutboxInv, InOrder
    <2>1. k \in Keys /\ applied[k] = 1
      <3>1. k \in receipt
        BY <1>1, <1>3 DEF OutboxInv, AnswersHaveReceipts
      <3>2. receipt \in SUBSET Keys
        BY DEF OutboxInv, TypeOK
      <3> QED
        BY <3>1, <3>2 DEF OutboxInv, EffectsHaveReceipts
    <2>2. Asked' = Asked /\ Told' = Told \cup {k}
      BY <1>1, <1>3, MoveKeepsAsked
    <2>3. Effect!Tell(k)
      BY <1>1, <2>1, <2>2 DEF Effect!Tell, Asked, Told
    <2>4. \E l \in Keys : Effect!Tell(l)
      BY <2>1, <2>3
    <2> QED
      BY <2>4 DEF Effect!Next
  <1> QED
    BY <1>2, <1>3 DEF Receive, RequestStep

LEMMA ServerApplies ==
    ASSUME OutboxInv, NEW i \in Sends, Reserve(i) \/ Commit(i) \/ Rollback(i)
    PROVE  Effect!Next \/ UNCHANGED Effect!vars
  <1> DEFINE k == request[i].key
  <1>1. request[i].at \in {"sent", "reserved"} /\ k \in Keys
    BY DEF OutboxInv, InOrder, Reserve, Commit, Rollback
  <1>2. PICK a \in {"done", "reserved", "refused", "failed"} : RequestStep(i, a)
    BY DEF Reserve, Commit, Rollback, RequestStep
  <1>3. Asked' = Asked /\ Told' = Told
    BY <1>1, <1>2, MoveKeepsAsked
  <1>4. CASE UNCHANGED applied
    BY <1>3, <1>4 DEF Effect!vars, Asked, Told
  <1>5. CASE Commit(i)
    <2>1. k \notin receipt /\ applied[k] = 0
      BY <1>1, <1>5 DEF Commit, OutboxInv, OneReservation, EffectsHaveReceipts
    <2>2. applied' = [applied EXCEPT ![k] = 1]
      BY <1>1, <1>5, <2>1 DEF Commit, OutboxInv, TypeOK
    <2>3. k \in Asked
      BY <1>1 DEF Asked
    <2>4. Effect!Apply(k)
      BY <1>3, <2>1, <2>2, <2>3 DEF Effect!Apply, Asked, Told
    <2> QED
      BY <1>1, <2>4 DEF Effect!Next
  <1> QED
    BY <1>4, <1>5 DEF Reserve, Rollback

LEMMA EffectStep == OutboxInv /\ [Next]_vars => [Effect!Next]_(Effect!vars)
  <1> SUFFICES ASSUME OutboxInv, [Next]_vars PROVE Effect!Next \/ UNCHANGED Effect!vars
    OBVIOUS
  <1>1. ASSUME NEW t \in Tabs, Attempt(t) PROVE Effect!Next \/ UNCHANGED Effect!vars
    BY <1>1, AttemptAsks
  <1>2. ASSUME NEW t \in Tabs, Receive(t) PROVE Effect!Next \/ UNCHANGED Effect!vars
    BY <1>2, ReceiveTells
  <1>3. ASSUME NEW i \in Sends, Reserve(i) \/ Commit(i) \/ Rollback(i) PROVE Effect!Next \/ UNCHANGED Effect!vars
    BY <1>3, ServerApplies
  <1>4. CASE UNCHANGED <<request, applied>>
    BY <1>4 DEF Effect!vars
  <1> QED
    BY <1>1, <1>2, <1>3, <1>4
       DEF Next, vars, Enqueue, Retry, Reconcile, Lose, Mark, CloseTab, ResolveManually, Discard, Expire

LEMMA EffectStart == Init => Effect!Init
  <1> SUFFICES ASSUME Init PROVE Effect!Init
    OBVIOUS
  <1>1. \A i \in Sends : request[i].at = "unsent"
    BY DEF Init, Unsent
  <1> QED
    BY <1>1 DEF Effect!Init, Init

\* The commands of the browser implement the promise of CommandEffect: the
\* commit of a request takes effect for a key that had none, and success is
\* told of a key that has, for any number of tabs, requests and commands.
THEOREM CommandsTakeEffectOnce == Spec => ImplementsCommandEffect
  BY Invariant, EffectStart, EffectStep, PTL DEF Spec, ImplementsCommandEffect, Effect!Spec
=============================================================================
