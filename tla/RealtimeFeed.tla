--------------------------- MODULE RealtimeFeed ----------------------------
(***************************************************************************)
(* The feed of operational events: a trigger numbers an event when its     *)
(* audit row is inserted, and operational-realtime.service.ts polls the    *)
(* committed events above a cursor.  listEvents gives the same by request. *)
(***************************************************************************)
EXTENDS Naturals, FiniteSets, FiniteSetsExt

CONSTANTS
    Events,      \* the audited changes of one branch
    BatchLimit,  \* REALTIME_BATCH_LIMIT
    None

VARIABLES
    event,      \* each event's number and what became of its transaction
    cursor,     \* the cursor of the branch's shared stream
    loaded,     \* events a page had when the stream began
    delivered   \* events the stream has sent

vars == <<event, cursor, loaded, delivered>>

Committed == {e \in Events : event[e].at = "committed"}

\* append_operational_event_from_audit: the sequence is advanced in the
\* transaction that will make the event visible.
Append(e) ==
    /\ event[e].at = "absent"
    /\ event' = [event EXCEPT ![e] = [at |-> "open",
                                      version |-> Cardinality({f \in Events : event[f].at # "absent"}) + 1]]
    /\ UNCHANGED <<cursor, loaded, delivered>>

End(e) ==
    /\ event[e].at = "open"
    /\ \E result \in {"committed", "undone"} : event' = [event EXCEPT ![e].at = result]
    /\ UNCHANGED <<cursor, loaded, delivered>>

\* The first poll only finds where to begin.
FirstPoll ==
    /\ cursor = None
    /\ cursor' = Max({event[e].version : e \in Committed} \cup {0})
    /\ loaded' = Committed
    /\ UNCHANGED <<event, delivered>>

Above(e) == event[e].version > cursor

\* The next committed events in their order, up to the limit.
Poll ==
    LET fresh == {e \in Committed : Above(e)}
        batch == {e \in fresh : Cardinality({f \in fresh : event[f].version < event[e].version}) < BatchLimit}
    IN  /\ cursor # None /\ fresh # {}
        /\ cursor' = Max({event[e].version : e \in batch})
        /\ delivered' = delivered \cup batch
        /\ UNCHANGED <<event, loaded>>

Init ==
    /\ event = [e \in Events |-> [at |-> "absent", version |-> 0]]
    /\ cursor = None /\ loaded = {} /\ delivered = {}

Next == (\E e \in Events : Append(e) \/ End(e)) \/ FirstPoll \/ Poll

Spec == Init /\ [][Next]_vars

\* Every event that committed is in what the page loaded, has been sent, or
\* lies above the cursor and so will be: none is passed over.
RecoverableByCursor == \A e \in Committed : cursor # None => e \in loaded \cup delivered \/ Above(e)
=============================================================================
