--------------------------- MODULE Reconciliation ---------------------------
(***************************************************************************)
(* Conciliation of card payments (payment-reconciliation.service.ts): a    *)
(* file of the acquirer is imported once, in one transaction that matches  *)
(* its rows with the confirmed charges; a person then matches or resolves  *)
(* what was left, from a list read some time before.                       *)
(***************************************************************************)
EXTENDS Naturals, Sequences, FiniteSets

CONSTANTS
    Files,          \* contents by their checksum
    Rows,           \* the rows of a file: [gross, names, kind]
    Amount,         \* what each charge is worth, by charge
    Calls,          \* requests in flight
    MaxVersion,     \* bound on the version of an entry
    None

VARIABLES
    imports,        \* how often each file was recorded
    entry,          \* the rows of the imported files
    confirmed,      \* the charges that are confirmed
    job             \* the requests in flight

reconciliationVars == <<imports, entry, confirmed, job>>
-----------------------------------------------------------------------------
Charges == DOMAIN Amount
Lines == UNION {{f} \X DOMAIN Rows[f] : f \in Files}
Row(e) == Rows[e[1]][e[2]]

NoEntry == [status |-> "absent", payment |-> None, version |-> 0, occurrence |-> FALSE, previous |-> None]
Resting == [at |-> "idle", file |-> None, found |-> {}, entry |-> None, was |-> None, expected |-> 0, with |-> None]

Work(c, call) == job[c] = Resting /\ job' = [job EXCEPT ![c] = call]
Finish(c) == job' = [job EXCEPT ![c] = Resting]

\* A charge is a candidate for a row that names it and has its amount.
Candidates(r, charges) == {p \in charges \cap r.names : Amount[p] = r.gross}

Outcome(r, found) ==
    CASE r.kind = "chargeback" \/ Cardinality(found) > 1 -> "divergent"
      [] r.kind # "chargeback" /\ Cardinality(found) = 1 -> "matched"
      [] OTHER -> "unmatched"

\* importCanonicalCsv up to its first insert; a file that is known is answered.
ReadFile(c, f) ==
    /\ imports[f] = 0
    /\ Work(c, [Resting EXCEPT !.at = "import", !.file = f, !.found = confirmed])
    /\ UNCHANGED <<imports, entry, confirmed>>

\* payment_reconciliation_import_scope_idx: a file is recorded once, and the
\* transaction of whoever comes second is undone.
Recorded(f) == imports[f] > 0

\* What is not matched gets an occurrence.
NewEntry(e, charges) ==
    LET found == Candidates(Row(e), charges)
        status == Outcome(Row(e), found)
    IN  [NoEntry EXCEPT !.status = status, !.version = 1, !.occurrence = status # "matched",
                        !.payment = IF status = "matched" THEN CHOOSE p \in found : TRUE ELSE None]

WriteFile(c) ==
    LET f == job[c].file IN
    /\ job[c].at = "import"
    /\ IF Recorded(f) THEN UNCHANGED <<imports, entry>>
       ELSE /\ imports' = [imports EXCEPT ![f] = @ + 1]
            /\ entry' = [e \in Lines |-> IF e[1] = f THEN NewEntry(e, job[c].found) ELSE entry[e]]
    /\ Finish(c)
    /\ UNCHANGED confirmed

\* match and resolve read the entry (and the charge) without a lock; the
\* version expected is of the list the person saw, which may be older.
ReadLine(c, e, status, p) ==
    /\ entry[e].status # "absent" /\ entry[e].version < MaxVersion
    /\ \E v \in 1..entry[e].version :
           Work(c, [Resting EXCEPT !.at = status, !.entry = e, !.was = entry[e].status, !.expected = v, !.with = p])
    /\ UNCHANGED <<imports, entry, confirmed>>

Match(c, e, p) == p \in confirmed /\ Amount[p] = Row(e).gross /\ ReadLine(c, e, "matched", p)

Resolve(c, e) == ReadLine(c, e, "resolved", entry[e].payment)

Current(c) == entry[job[c].entry].version = job[c].expected

\* resolveEntry: one conditional update, with what was read before.
ResolveEntry(c) ==
    LET j == job[c] IN
    /\ j.at \in {"matched", "resolved"}
    /\ IF Current(c)
       THEN entry' = [entry EXCEPT ![j.entry] = [@ EXCEPT !.status = j.at, !.payment = j.with,
                                                    !.previous = j.was, !.version = j.expected + 1]]
       ELSE UNCHANGED entry
    /\ Finish(c)
    /\ UNCHANGED <<imports, confirmed>>

\* A request is lost, or its transaction undone.
Lose(c) ==
    /\ job[c] # Resting
    /\ Finish(c)
    /\ UNCHANGED <<imports, entry, confirmed>>

\* Charges are confirmed and refunded elsewhere (OrderLedger).
Confirm(p) == confirmed' = confirmed \cup {p} /\ UNCHANGED <<imports, entry, job>>
Refund(p) == confirmed' = confirmed \ {p} /\ UNCHANGED <<imports, entry, job>>
-----------------------------------------------------------------------------
Init ==
    /\ imports = [f \in Files |-> 0]
    /\ entry = [e \in Lines |-> NoEntry]
    /\ confirmed = {}
    /\ job = [c \in Calls |-> Resting]

Next ==
    \/ \E c \in Calls :
          \/ \E f \in Files : ReadFile(c, f)
          \/ \E e \in Lines : (\E p \in Charges : Match(c, e, p)) \/ Resolve(c, e)
          \/ WriteFile(c) \/ ResolveEntry(c) \/ Lose(c)
    \/ \E p \in Charges : Confirm(p) \/ Refund(p)

Spec == Init /\ [][Next]_reconciliationVars
-----------------------------------------------------------------------------
(*                               Properties                                *)

TypeOK ==
    /\ imports \in [Files -> Nat]
    /\ entry \in [Lines -> [status : {"absent", "unmatched", "divergent", "matched", "resolved"},
                            payment : Charges \cup {None}, version : 0..MaxVersion, occurrence : BOOLEAN,
                            previous : {"unmatched", "divergent", "matched", "resolved", None}]]
    /\ confirmed \subseteq Charges
    /\ \A c \in Calls : job[c].at \in {"idle", "import", "matched", "resolved"}

\* A file is recorded once and with all its rows; what nobody settled has an
\* occurrence, and a match is with a charge of the row's amount.
FilesAgree ==
    \A e \in Lines :
        /\ imports[e[1]] <= 1 /\ (imports[e[1]] = 1 <=> entry[e].status # "absent")
        /\ entry[e].status \in {"unmatched", "divergent"} => entry[e].occurrence
        /\ entry[e].status = "matched" => Amount[entry[e].payment] = Row(e).gross

\* What an entry says it was before is what it was: although it is read
\* without a lock, the version lets through only what is still so.
PreviousIsTrue ==
    \A e \in Lines : entry'[e].version # entry[e].version /\ entry[e].version > 0
                          => entry'[e].previous = entry[e].status
=============================================================================
