------------------------------ MODULE Waiters ------------------------------
(***************************************************************************)
(* Shifts and who waits on which table under the strict policy             *)
(* (waiter-assignment.service.ts, and the opening and closing of           *)
(* shift.service.ts).  A transaction that works on a table's order holds   *)
(* the advisory lock of the shift and the table until it ends.  The shift  *)
(* is read before that lock, and is not locked itself.                     *)
(*                                                                         *)
(* A closing can be refused (open cash, jobs to print, documents to        *)
(* authorise): those are other components, and it may happen at any time.  *)
(***************************************************************************)
EXTENDS Naturals, FiniteSets

CONSTANTS
    Shifts,     \* numbers
    Floor,      \* the tables they wait on
    Persons,    \* the waiters
    Helps,      \* requests for help that can be made
    Ops,        \* calls in flight
    Nobody

VARIABLES
    shift,      \* the status of each shift
    waiter,     \* per shift and table, the active assignment
    help,       \* the waiter_table_help approvals
    helped,     \* per waiter, the orders served under a grant
    op          \* the calls in flight

waiterVars == <<shift, waiter, help, helped, op>>
-----------------------------------------------------------------------------
Off == [at |-> "idle", shift |-> Nobody, table |-> Nobody, person |-> Nobody,
        claims |-> {}, grants |-> {}]

Call(c, call) == op[c] = Off /\ op' = [op EXCEPT ![c] = call]

Done(c) == op' = [op EXCEPT ![c] = Off]

Current == {s \in Shifts : shift[s] = "open"}

\* Mutant: the table is handed over without the lock.
NoLock(s, t) == TRUE

\* The advisory lock, of an order being worked on.  Who claimed the table in
\* a shift opened meanwhile holds that one too.
TableFree(s, t) ==
    \A c \in Ops : op[c].at = "work" => op[c].table # t \/ s \notin {op[c].shift} \cup op[c].claims

OpenShift(s) ==
    /\ Current = {} /\ shift[s] = "absent"
    /\ shift' = [shift EXCEPT ![s] = "open"]
    /\ UNCHANGED <<waiter, help, helped, op>>

\* completeShiftClose: ends the assignments and expires the help that was not
\* used.  It waits for a claim (which references the shift) and for a grant
\* being used.
CloseShift(s) ==
    /\ shift[s] = "open"
    /\ \A c \in Ops : s \notin op[c].claims /\ op[c].grants = {}
    /\ shift' = [shift EXCEPT ![s] = "closed"]
    /\ waiter' = [waiter EXCEPT ![s] = [t \in Floor |-> Nobody]]
    /\ help' = [h \in Helps |-> IF help[h].status \in {"pending", "approved"}
                                THEN [help[h] EXCEPT !.status = "expired"] ELSE help[h]]
    /\ UNCHANGED <<helped, op>>

\* Any call reads the current shift first.
ReadShift(c, at, t, w) ==
    /\ Current # {}
    /\ Call(c, [Off EXCEPT !.at = at, !.shift = CHOOSE s \in Current : TRUE, !.table = t, !.person = w])
    /\ UNCHANGED <<shift, waiter, help, helped>>

\* assign, assignBatch and transfer; a batch is one such call per table.
Assign(c, t, w) == ReadShift(c, "assign", t, w)

\* copyPreviousShift, for a table that nobody has in the current shift; who had
\* it in the previous one may be anybody.
CopyPreviousShift(c, t, w) ==
    /\ \E s \in Current : waiter[s][t] = Nobody
    /\ ReadShift(c, "copy", t, w)

\* redistributeInactive: the table has a waiter, who left the team.
Redistribute(c, t, w) ==
    /\ \E s \in Current : waiter[s][t] # Nobody
    /\ ReadShift(c, "assign", t, w)

\* replaceAssignment.  A version that is not the one the manager saw ends it;
\* a copy expects no assignment yet.
Replace(c) ==
    LET s == op[c].shift
        t == op[c].table
    IN  /\ op[c].at \in {"assign", "copy"} /\ TableFree(s, t)
        /\ \/ /\ op[c].at = "copy" => waiter[s][t] = Nobody
              /\ waiter' = [waiter EXCEPT ![s][t] = op[c].person]
           \/ UNCHANGED waiter
        /\ Done(c)
        /\ UNCHANGED <<shift, help, helped>>

\* claim.
Claim(c) ==
    LET s == op[c].shift
        t == op[c].table
    IN  /\ op[c].at = "claim" /\ TableFree(s, t)
        /\ waiter' = IF waiter[s][t] = Nobody THEN [waiter EXCEPT ![s][t] = op[c].person] ELSE waiter
        /\ Done(c)
        /\ UNCHANGED <<shift, help, helped>>

Asking(w, t) == {h \in Helps : help[h].person = w /\ help[h].table = t}

\* requestHelp, at a table of another waiter and with no request pending.
ReadHelp(c, t, w) ==
    /\ \E s \in Current : waiter[s][t] \notin {Nobody, w}
    /\ \A h \in Asking(w, t) : help[h].status # "pending"
    /\ ReadShift(c, "help", t, w)

WriteHelp(c) ==
    /\ op[c].at = "help"
    /\ \E h \in Helps :
          /\ help[h].status = "absent"
          /\ help' = [help EXCEPT ![h] = [status |-> "pending", table |-> op[c].table, person |-> op[c].person]]
    /\ Done(c)
    /\ UNCHANGED <<shift, waiter, helped>>

GrantHelp(h) ==
    /\ help[h].status = "pending"
    /\ help' = [help EXCEPT ![h].status = "approved"]
    /\ UNCHANGED <<shift, waiter, helped, op>>

\* Mutant: a grant that was used is found again.
AnyGrant(w, t) == {h \in Asking(w, t) : help[h].status \in {"approved", "applied"}}

Grants(w, t) == {h \in Asking(w, t) : help[h].status = "approved"}

\* assertOrderAccess, at the start of a transaction on an order.
Enter(c) ==
    LET s == op[c].shift
        t == op[c].table
        w == op[c].person
        enter(claims, grants) ==
            op' = [op EXCEPT ![c] = [@ EXCEPT !.at = "work", !.claims = claims, !.grants = grants]]
    IN  /\ op[c].at = "access" /\ TableFree(s, t)
        /\ \/ waiter[s][t] = w /\ enter({}, {})
           \* claimInTransaction reads the shift again
           \/ /\ waiter[s][t] = Nobody
              /\ \/ Current = {} /\ Done(c)
                 \/ \E now \in Current :
                       /\ TableFree(now, t)
                       /\ \/ waiter[now][t] = Nobody /\ enter({now}, {})
                          \/ waiter[now][t] = w /\ enter({}, {})
                          \/ waiter[now][t] \notin {Nobody, w} /\ Done(c)
           \/ /\ waiter[s][t] \notin {Nobody, w}
              /\ \A d \in Ops : op[d].grants \cap Grants(w, t) = {}
              /\ IF Grants(w, t) = {} THEN Done(c) ELSE enter({}, Grants(w, t))
        /\ UNCHANGED <<shift, waiter, help, helped>>

\* The transaction commits, with the claim or the use of the grant.
Commit(c) ==
    LET t == op[c].table
        w == op[c].person
    IN  /\ op[c].at = "work"
        /\ waiter' = [s \in Shifts |-> IF s \in op[c].claims THEN [waiter[s] EXCEPT ![t] = w] ELSE waiter[s]]
        /\ help' = [h \in Helps |-> IF h \in op[c].grants THEN [help[h] EXCEPT !.status = "applied"] ELSE help[h]]
        /\ helped' = IF op[c].grants = {} THEN helped ELSE [helped EXCEPT ![w] = @ + 1]
        /\ Done(c)
        /\ UNCHANGED shift

Rollback(c) ==
    /\ op[c].at = "work"
    /\ Done(c)
    /\ UNCHANGED <<shift, waiter, help, helped>>
-----------------------------------------------------------------------------
WaiterInit ==
    /\ shift = [s \in Shifts |-> "absent"]
    /\ waiter = [s \in Shifts |-> [t \in Floor |-> Nobody]]
    /\ help = [h \in Helps |-> [status |-> "absent", table |-> Nobody, person |-> Nobody]]
    /\ helped = [w \in Persons |-> 0]
    /\ op = [c \in Ops |-> Off]

WaiterNext ==
    \/ \E s \in Shifts : OpenShift(s) \/ CloseShift(s)
    \/ \E c \in Ops, t \in Floor, w \in Persons :
          \/ \E at \in {"claim", "access"} : ReadShift(c, at, t, w)
          \/ Assign(c, t, w) \/ CopyPreviousShift(c, t, w) \/ Redistribute(c, t, w)
          \/ ReadHelp(c, t, w)
    \/ \E c \in Ops : Replace(c) \/ Claim(c) \/ WriteHelp(c) \/ Enter(c) \/ Commit(c) \/ Rollback(c)
    \/ \E h \in Helps : GrantHelp(h)

WaiterSpec == WaiterInit /\ [][WaiterNext]_waiterVars
-----------------------------------------------------------------------------
(*                               Properties                                *)

WaiterTypeOK ==
    /\ shift \in [Shifts -> {"absent", "open", "closed"}] /\ Cardinality(Current) <= 1
    /\ waiter \in [Shifts -> [Floor -> Persons \cup {Nobody}]]
    /\ help \in [Helps -> [status : {"absent", "pending", "approved", "applied", "expired"},
                           table : Floor \cup {Nobody}, person : Persons \cup {Nobody}]]
    /\ helped \in [Persons -> Nat]
    /\ \A c \in Ops : op[c].at \in {"idle", "assign", "copy", "claim", "help", "access", "work"}

\* While a waiter works on a table's order without a grant, the table is not
\* given to another in that shift, by whatever path.
ServesOwnTable ==
    \A c \in Ops : op[c].at = "work" /\ op[c].grants = {} =>
        waiter[op[c].shift][op[c].table] \in {op[c].person, Nobody}

\* Each time a waiter served another's table there was a grant of his own for
\* it: none is used twice, and none is lost to a transaction that failed.
EachHelpGranted ==
    \A w \in Persons : helped[w] <= Cardinality({h \in Helps : help[h].status = "applied" /\ help[h].person = w})
=============================================================================
