--------------------------- MODULE CommandOutbox ---------------------------
(***************************************************************************)
(* Commands of the web application from the click to their effect: the     *)
(* outbox that every tab of a device shares (operational-outbox.ts), the   *)
(* requests it sends, and the server's reservation of an idempotency key   *)
(* (operation-receipts.ts).                                                *)
(*                                                                         *)
(* Each operation on the outbox runs under a Web Lock and is one step.     *)
(* Requests and answers may be lost or late, tabs may be closed at any     *)
(* time, and a transaction of the server may fail.                         *)
(***************************************************************************)
EXTENDS Naturals, FiniteSets

CONSTANTS
    Keys,         \* idempotency keys, one per command
    Replayable,   \* commands that may be repeated without a check
    Tabs,         \* pages that share the device's storage
    MaxActive,    \* MAX_ACTIVE_ENTRIES
    MaxAttempts,  \* attempts after which reconciliation leaves an entry
    MaxSends,     \* bound: requests
    None

ASSUME ReplayableAssumption == Replayable \subseteq Keys
ASSUME BoundsAssumption == {MaxActive, MaxAttempts, MaxSends} \subseteq Nat \ {0}
ASSUME NoneAssumption == None \notin Keys

Sends == 1 .. MaxSends

VARIABLES
    entry,      \* the entries in the device's storage
    tab,        \* what each tab is doing
    request,    \* the requests, in the order they were sent
    receipt,    \* keys with a completed reservation
    applied     \* how often the command of a key took effect

vars == <<entry, tab, request, receipt, applied>>
-----------------------------------------------------------------------------
AbsentEntry == [status |-> "absent", attempts |-> 0, manual |-> FALSE]
Resting == [at |-> "idle", todo |-> {}, send |-> 0, outcome |-> "none"]
Unsent == [key |-> None, at |-> "unsent"]

Active == {k \in Keys : entry[k].status \in {"pending", "failed", "requires_attention"}}

Unconfirmed(k) == entry[k].status # "confirmed"

\* A tab works through todo; a single command is a todo of one.
Continue(t, todo) ==
    tab' = [tab EXCEPT ![t] = IF todo = {} THEN Resting ELSE [Resting EXCEPT !.at = "queued", !.todo = todo]]

(* The tabs.  enqueue, as executeOperationalCommand begins with it: a full *)
(* outbox or a confirmed entry ends the command and is left out.           *)
Enqueue(t, k) ==
    /\ tab[t].at = "idle" /\ Unconfirmed(k)
    /\ \/ /\ entry[k].status = "absent" /\ Cardinality(Active) < MaxActive
          /\ entry' = [entry EXCEPT ![k] = [AbsentEntry EXCEPT !.status = "pending"]]
       \/ entry[k].status # "absent" /\ UNCHANGED entry
    /\ Continue(t, {k})
    /\ UNCHANGED <<request, receipt, applied>>

\* retryOperationalOutboxEntry, from the panel of open entries.
Retry(t, k) ==
    /\ tab[t].at = "idle" /\ k \in Active /\ k \in Replayable
    /\ Continue(t, {k})
    /\ UNCHANGED <<entry, request, receipt, applied>>

\* reconcileOperationalOutbox, when a page is loaded.
Reconcile(t) ==
    LET stale == {k \in Replayable : /\ entry[k].status \in {"pending", "requires_attention"}
                                     /\ entry[k].attempts < MaxAttempts}
    IN  /\ tab[t].at = "idle" /\ stale # {}
        /\ Continue(t, stale)
        /\ UNCHANGED <<entry, request, receipt, applied>>

NextSend == Cardinality({i \in Sends : request[i].at # "unsent"}) + 1

\* markAttempt, whatever became of the entry since it was listed, and the
\* request it announces.  An entry that is gone ends the tab's work.
Attempt(t) ==
    /\ tab[t].at = "queued"
    /\ \E k \in tab[t].todo :
           \/ /\ entry[k].status = "absent"
              /\ Continue(t, {})
              /\ UNCHANGED <<entry, request>>
           \/ /\ entry[k].status # "absent" /\ NextSend \in Sends
              /\ entry' = [entry EXCEPT ![k] = [@ EXCEPT !.status = "pending", !.attempts = entry[k].attempts + 1]]
              /\ request' = [request EXCEPT ![NextSend] = [key |-> k, at |-> "sent"]]
              /\ tab' = [tab EXCEPT ![t] = [at |-> "sending", todo |-> tab[t].todo \ {k},
                                            send |-> NextSend, outcome |-> "none"]]
    /\ UNCHANGED <<receipt, applied>>

Answered(t, outcome) == tab' = [tab EXCEPT ![t] = [tab[t] EXCEPT !.at = "answered", !.outcome = outcome]]

\* The answer reaches the tab.
Receive(t) ==
    LET i == tab[t].send IN
    /\ tab[t].at = "sending"
    /\ \/ /\ request[i].at = "done"
          /\ request' = [request EXCEPT ![i].at = "told"]
          /\ Answered(t, "ok")
       \/ request[i].at = "refused" /\ Answered(t, "refused") /\ UNCHANGED request
       \/ request[i].at = "failed" /\ Answered(t, "uncertain") /\ UNCHANGED request
    /\ UNCHANGED <<entry, receipt, applied>>

\* No answer: the request may not have arrived, or may still be at work.
Lose(t) ==
    /\ tab[t].at = "sending"
    /\ Answered(t, "uncertain")
    /\ UNCHANGED <<entry, request, receipt, applied>>

\* Mutant: the answer is stored as it came.
StatusForRaw(outcome) == IF outcome = "ok" THEN "confirmed" ELSE outcome

\* Mutant: a failure without an answer counts as success.
StatusForOptimist(outcome) == IF outcome = "refused" THEN "failed" ELSE "confirmed"

\* isDeterministicOperationalFailure: only a refusal ends the command.
StatusFor(outcome) ==
    CASE outcome = "ok" -> "confirmed"
      [] outcome = "refused" -> "failed"
      [] OTHER -> "requires_attention"

\* markConfirmed or markFailed.  When the entry is gone both throw, and the
\* rest of the list is left.
Mark(t) ==
    LET k == request[tab[t].send].key IN
    /\ tab[t].at = "answered"
    /\ \/ /\ entry[k].status = "absent"
          /\ Continue(t, {}) /\ UNCHANGED entry
       \/ /\ entry[k].status # "absent"
          /\ entry' = [entry EXCEPT ![k] = [@ EXCEPT !.status = StatusFor(tab[t].outcome),
                                                     !.manual = entry[k].manual /\ tab[t].outcome # "ok"]]
          /\ Continue(t, tab[t].todo)
    /\ UNCHANGED <<request, receipt, applied>>

\* The tab is closed or reloaded.
CloseTab(t) ==
    /\ tab[t].at # "idle"
    /\ tab' = [tab EXCEPT ![t] = Resting]
    /\ UNCHANGED <<entry, request, receipt, applied>>

\* The operator's two buttons; the panel's list may be out of date.
ResolveManually(k) ==
    /\ entry[k].status # "absent"
    /\ entry' = [entry EXCEPT ![k] = [@ EXCEPT !.status = "confirmed", !.manual = TRUE]]
    /\ UNCHANGED <<tab, request, receipt, applied>>

Discard(k) ==
    /\ entry[k].status # "absent"
    /\ entry' = [entry EXCEPT ![k] = AbsentEntry]
    /\ UNCHANGED <<tab, request, receipt, applied>>

\* pruneExpiredConfirmed, a day after the confirmation.
Expire(k) ==
    /\ entry[k].status = "confirmed"
    /\ entry' = [entry EXCEPT ![k] = AbsentEntry]
    /\ UNCHANGED <<tab, request, receipt, applied>>
-----------------------------------------------------------------------------
(* The server.  reserveOperation inserts the key in the transaction of the *)
(* command: a second insert waits for the first transaction to end.        *)
Reserved(k) == \E i \in Sends : request[i].key = k /\ request[i].at = "reserved"

\* Mutant: only a completed reservation stops another one.
Unreserved(k) == TRUE

MayReserve(k) == ~Reserved(k)

Reserve(i) ==
    LET k == request[i].key IN
    /\ request[i].at = "sent" /\ MayReserve(k)
    /\ request' = [request EXCEPT ![i].at = IF k \in receipt THEN "done" ELSE "reserved"]
    /\ UNCHANGED <<entry, tab, receipt, applied>>

\* confirmOperation and commit: effect and receipt together.
Commit(i) ==
    LET k == request[i].key IN
    /\ request[i].at = "reserved"
    /\ receipt' = receipt \cup {k}
    /\ applied' = [applied EXCEPT ![k] = @ + 1]
    /\ request' = [request EXCEPT ![i].at = "done"]
    /\ UNCHANGED <<entry, tab>>

\* The command is refused by a rule, or the transaction fails: both undo
\* the reservation.
Rollback(i) ==
    /\ request[i].at = "reserved"
    /\ \E answer \in {"refused", "failed"} : request' = [request EXCEPT ![i].at = answer]
    /\ UNCHANGED <<entry, tab, receipt, applied>>
-----------------------------------------------------------------------------
Init ==
    /\ entry = [k \in Keys |-> AbsentEntry]
    /\ tab = [t \in Tabs |-> Resting]
    /\ request = [i \in Sends |-> Unsent]
    /\ receipt = {}
    /\ applied = [k \in Keys |-> 0]

Next ==
    \/ \E t \in Tabs, k \in Keys : Enqueue(t, k) \/ Retry(t, k)
    \/ \E t \in Tabs : Reconcile(t) \/ Attempt(t) \/ Receive(t) \/ Lose(t) \/ Mark(t) \/ CloseTab(t)
    \/ \E k \in Keys : ResolveManually(k) \/ Discard(k) \/ Expire(k)
    \/ \E i \in Sends : Reserve(i) \/ Commit(i) \/ Rollback(i)

Spec == Init /\ [][Next]_vars
-----------------------------------------------------------------------------
(*                               Properties                                *)

\* Entries, tabs and requests keep their shape, and no entry has an attempt
\* that was not sent.
TypeOK ==
    /\ entry \in [Keys -> [status : {"absent", "pending", "confirmed", "failed", "requires_attention"},
                           attempts : 0 .. MaxSends, manual : BOOLEAN]]
    /\ tab \in [Tabs -> [at : {"idle", "queued", "sending", "answered"}, todo : SUBSET Keys,
                         send : 0 .. MaxSends, outcome : {"none", "ok", "refused", "uncertain"}]]
    /\ request \in [Sends -> [key : Keys \cup {None},
                              at : {"unsent", "sent", "reserved", "done", "told", "refused", "failed"}]]
    /\ receipt \in SUBSET Keys
    /\ applied \in [Keys -> Nat]

Effect == INSTANCE CommandEffect WITH
    asked <- {request[i].key : i \in {j \in Sends : request[j].at # "unsent"}},
    told <- {request[i].key : i \in {j \in Sends : request[j].at = "told"}}

\* However tabs repeat a command, answers get lost and transactions fail, a
\* command takes effect at most once, and success is told only after it did.
ImplementsCommandEffect == Effect!Spec

\* An entry shown as confirmed, unless the operator marked it so by hand,
\* stands for a command that took effect: also when two tabs sent it, one
\* was told and the other was not.
ConfirmedTookEffect ==
    \A k \in Keys : entry[k].status = "confirmed" /\ ~entry[k].manual => applied[k] = 1
=============================================================================
