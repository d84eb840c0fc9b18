--------------------------- MODULE OutboxDelivery ---------------------------
(***************************************************************************)
(* The delivery of outbox events to the Dose Club: the worker's            *)
(* publishPendingClubWhiskyOutbox and OutboxService.retryEvent.            *)
(*                                                                         *)
(* Passes over the outbox overlap (startup, poller, queue), and so may the *)
(* workers of two releases.  A pass selects a batch of due events and then *)
(* takes them one by one: claim, look up the account, POST, record.  No    *)
(* transaction spans two of these statements.                              *)
(***************************************************************************)
EXTENDS Integers, FiniteSets

CONSTANTS
    Events,       \* outbox events with a topic of the Dose Club
    Tenantless,   \* the events without a tenant
    Passes,       \* concurrent passes over the outbox
    BatchSize,    \* the limit of the select
    MaxClubAttempts, \* CLUB_WHISKY_MAX_ATTEMPTS
    Answers,      \* what a POST may meet
    MayCrash,     \* the passes whose process may end at any point
    MaxReplays,   \* bound: replays by an operator
    NoEvent

\* ok: acknowledged; lost: received, but the answer is lost or late;
\* unavailable: not received, and worth a retry (408, 425, 429, 5xx, network);
\* refused: not received, any other status; unrecorded: acknowledged, but the
\* update that says so fails.
AnswerNames == {"ok", "lost", "unavailable", "refused", "unrecorded"}

ASSUME TenantlessAssumption == Tenantless \subseteq Events
ASSUME AnswerAssumption == Answers \subseteq AnswerNames
ASSUME CrashAssumption == MayCrash \subseteq Passes
ASSUME LimitAssumption == {BatchSize, MaxClubAttempts} \subseteq Nat \ {0} /\ MaxReplays \in Nat
ASSUME NoEventAssumption == NoEvent \notin Events

VARIABLES
    event,       \* the event rows
    configured,  \* the integration account is active and complete
    pass,        \* the passes
    received,    \* the events the Dose Club has received
    abandoned,   \* the events a process died holding
    replays      \* replays so far

history == <<received, abandoned, replays>>
deliveryVars == <<event, configured, pass, history>>
-----------------------------------------------------------------------------
Idle == [at |-> "idle", batch |-> {}, event |-> NoEvent, attempts |-> 0, answer |-> "ok"]

\* Mutant: any event of the batch is claimed.
ClaimableAlways(e) == TRUE

Claimable(e) == event[e].status = "pending"

\* Mutant: off by one.
ExhaustedLate(attempts) == attempts > MaxClubAttempts

Exhausted(attempts) == attempts >= MaxClubAttempts

\* Mutant: the status of the response is not looked at.
AcknowledgedByAny(answer) == answer # "unavailable"

Acknowledged(answer) == answer = "ok"

Retryable(answer) == answer \in {"lost", "unavailable"}

Replayed(row) == [status |-> "pending", attempts |-> 0, due |-> TRUE]

\* Mutant: the event is not released for the next attempt.
FailedButKept(row, retry, attempts) ==
    [row EXCEPT !.status = IF retry /\ ~Exhausted(attempts) THEN "processing" ELSE "dead_letter",
                !.due = FALSE]

\* A failure is retried later, or the event is given up.
Failed(row, retry, attempts) ==
    [row EXCEPT !.status = IF retry /\ ~Exhausted(attempts) THEN "pending" ELSE "dead_letter",
                !.due = FALSE]

\* The next event of the batch, or the end of the pass.
NextEvent(p, batch) ==
    pass' = [pass EXCEPT ![p] = IF batch = {} THEN Idle
                                ELSE [Idle EXCEPT !.at = "next", !.batch = batch]]
-----------------------------------------------------------------------------
\* The time availableAt has come: calculateClubWhiskyRetryAt puts it at most
\* fifteen minutes ahead.
BecomesDue(e) ==
    /\ event[e].status = "pending" /\ ~event[e].due
    /\ event' = [event EXCEPT ![e].due = TRUE]
    /\ UNCHANGED <<configured, pass, history>>

\* The batch is in no order; an empty one ends the pass at once.
SelectBatch(p) ==
    /\ pass[p].at = "idle"
    /\ LET due == {e \in Events : event[e].status = "pending" /\ event[e].due}
       IN  \E batch \in SUBSET due :
               /\ batch # {} /\ Cardinality(batch) <= BatchSize
               /\ batch = due \/ Cardinality(batch) = BatchSize
               /\ NextEvent(p, batch)
    /\ UNCHANGED <<event, configured, history>>

\* An event another pass has claimed is passed over, and so is one without a
\* tenant, though it has been claimed.
Claim(p) ==
    /\ pass[p].at = "next"
    /\ \E e \in pass[p].batch :
           LET rest == pass[p].batch \ {e}
               row == event[e]
               attempts == row.attempts + 1
           IN  \/ /\ Claimable(e)
                  /\ event' = [event EXCEPT ![e] = [row EXCEPT !.status = "processing",
                                                               !.attempts = attempts]]
                  /\ IF e \in Tenantless THEN NextEvent(p, rest)
                     ELSE pass' = [pass EXCEPT ![p] = [Idle EXCEPT !.at = "claimed", !.batch = rest,
                                                           !.event = e, !.attempts = attempts]]
               \/ /\ ~Claimable(e)
                  /\ NextEvent(p, rest)
                  /\ UNCHANGED event
    /\ UNCHANGED <<configured, history>>

\* Without an active, complete account nothing is sent; attempts count.
Unconfigured(p) ==
    LET e == pass[p].event IN
    /\ pass[p].at = "claimed" /\ ~configured
    /\ event' = [event EXCEPT ![e] = Failed(event[e], TRUE, pass[p].attempts)]
    /\ NextEvent(p, pass[p].batch)
    /\ UNCHANGED <<configured, history>>

Send(p) ==
    /\ pass[p].at = "claimed" /\ configured
    /\ \E answer \in Answers :
           /\ pass' = [pass EXCEPT ![p] = [pass[p] EXCEPT !.at = "answered", !.answer = answer]]
           /\ received' = IF answer \in {"ok", "lost", "unrecorded"} THEN received \cup {pass[p].event} ELSE received
    /\ UNCHANGED <<event, configured, abandoned, replays>>

\* Recorded by id: nothing looks whether the event is still this pass's.
Record(p) ==
    LET e == pass[p].event
        row == event[e]
    IN  /\ pass[p].at = "answered"
        /\ event' = [event EXCEPT ![e] =
                        IF Acknowledged(pass[p].answer) THEN [row EXCEPT !.status = "processed"]
                        ELSE Failed(row, Retryable(pass[p].answer), pass[p].attempts)]
        /\ NextEvent(p, pass[p].batch)
        /\ UNCHANGED <<configured, history>>

\* The process ends, or a statement outside the try fails and ends the pass;
\* whatever it had claimed stays as it is.
Crash(p) ==
    /\ p \in MayCrash /\ pass[p].at # "idle"
    /\ pass' = [pass EXCEPT ![p] = Idle]
    /\ abandoned' = abandoned \cup ({pass[p].event} \ {NoEvent})
    /\ UNCHANGED <<event, configured, received, replays>>

\* The account is activated, completed, deactivated or emptied.
Configure ==
    /\ configured' = ~configured
    /\ UNCHANGED <<event, pass, history>>

\* retryEvent: the update is conditional on the status that was read.
RetryEvent(e) ==
    /\ event[e].status = "dead_letter" /\ replays < MaxReplays
    /\ event' = [event EXCEPT ![e] = Replayed(event[e])]
    /\ replays' = replays + 1
    /\ UNCHANGED <<configured, pass, received, abandoned>>

DeliveryInit ==
    /\ event = [e \in Events |-> [status |-> "pending", attempts |-> 0, due |-> TRUE]]
    /\ configured \in BOOLEAN
    /\ pass = [p \in Passes |-> Idle]
    /\ received = {}
    /\ abandoned = {}
    /\ replays = 0

Work(p) == SelectBatch(p) \/ Claim(p) \/ Unconfigured(p) \/ Send(p) \/ Record(p)

DeliveryNext ==
    \/ \E p \in Passes : Work(p) \/ Crash(p)
    \/ \E e \in Events : BecomesDue(e) \/ RetryEvent(e)
    \/ Configure

DeliverySpec == DeliveryInit /\ [][DeliveryNext]_deliveryVars

\* Passes are started every ten seconds and go on to their end (a POST takes
\* at most ten seconds); a date comes.
FairSpec ==
    /\ DeliverySpec
    /\ \A p \in Passes : WF_deliveryVars(Work(p))
    /\ \A e \in Events : WF_deliveryVars(BecomesDue(e))
-----------------------------------------------------------------------------
(*                               Properties                                *)

Statuses == {"pending", "processing", "processed", "dead_letter"}

\* Rows and passes keep their shape, and no event is tried more often than
\* the limit allows.
DeliveryTypeOK ==
    /\ event \in [Events -> [status : Statuses, attempts : 0 .. MaxClubAttempts, due : BOOLEAN]]
    /\ configured \in BOOLEAN
    /\ pass \in [Passes -> [at : {"idle", "next", "claimed", "answered"}, batch : SUBSET Events,
                            event : Events \cup {NoEvent}, attempts : 0 .. MaxClubAttempts,
                            answer : AnswerNames]]
    /\ received \subseteq Events /\ abandoned \subseteq Events
    /\ replays \in 0 .. MaxReplays

Holds(p, e) == pass[p].at \in {"claimed", "answered"} /\ pass[p].event = e

\* Overlapping passes never deliver one event at the same time, and an event
\* being delivered is neither taken back nor given up by anyone else.
OneDelivery ==
    /\ \A p, q \in Passes, e \in Events : Holds(p, e) /\ Holds(q, e) => p = q
    /\ \A p \in Passes, e \in Events : Holds(p, e) => event[e].status = "processing"
                                                      /\ event[e].attempts = pass[p].attempts

\* An event counts as delivered only if the other side has received it.
ProcessedWasReceived == \A e \in Events : event[e].status = "processed" => e \in received

\* Every event of a tenant is delivered or given up, and a replayed one again,
\* however passes overlap and answers are lost; the only exceptions are the
\* events a process has died holding.
EventsSettle ==
    \A e \in Events \ Tenantless :
        event[e].status \in {"pending", "processing"} ~>
            event[e].status \in {"processed", "dead_letter"} \/ e \in abandoned
=============================================================================
