---------------------------- MODULE OfficeProofs ----------------------------
(***************************************************************************)
(* What is proved about the money and the records of a branch: the safety  *)
(* of the components that MCOffice runs on small instances, each here for  *)
(* every value of its constants.  Every component is an instance of its    *)
(* own, and its invariant says what a request in flight has read under the *)
(* locks it holds.                                                         *)
(***************************************************************************)
EXTENDS MCOffice, CashDrawerProofs, FiniteSetTheorems, SequenceTheorems, TLAPS
-----------------------------------------------------------------------------
(*                     Card statements (Reconciliation)                    *)

EntryRow == [status : {"absent", "unmatched", "divergent", "matched", "resolved"},
             payment : Cards!Charges \cup {None}, version : Nat, occurrence : BOOLEAN,
             previous : {"unmatched", "divergent", "matched", "resolved", None}]

RowRecorded(e) ==
    /\ imports[e[1]] \in {0, 1} /\ (imports[e[1]] = 1 <=> entry[e].status # "absent")
    /\ (entry[e].status = "absent" <=> entry[e].version = 0)

Settled(e) == /\ entry[e].status \in {"unmatched", "divergent"} => entry[e].occurrence
              /\ entry[e].status = "matched" => entry[e].payment \in Cards!Charges
                 /\ CardAmount[entry[e].payment] = Cards!Row(e).gross

Importing(c) == job[c].at = "import" => job[c].file \in Files /\ job[c].found \subseteq Cards!Charges

\* What a call has read of an entry is so for as long as its version is the
\* one expected.
DecidingEntry(c) == job[c].at \in {"matched", "resolved"} => LET e == job[c].entry IN
    /\ e \in Cards!Lines /\ entry[e].status # "absent" /\ job[c].with \in Cards!Charges \cup {None}
    /\ job[c].expected \in Nat /\ job[c].expected <= entry[e].version
    /\ job[c].expected = entry[e].version => job[c].was = entry[e].status
    /\ job[c].was \in {"unmatched", "divergent", "matched", "resolved"}
    /\ job[c].at = "matched" => job[c].with \in Cards!Charges
       /\ CardAmount[job[c].with] = Cards!Row(e).gross

CardInv ==
    /\ imports = [f \in Files |-> imports[f]] /\ entry \in [Cards!Lines -> EntryRow]
    /\ confirmed \subseteq Cards!Charges /\ job = [c \in Requests |-> job[c]]
    /\ \A e \in Cards!Lines : RowRecorded(e) /\ Settled(e)
    /\ \A c \in Requests : Importing(c) /\ DecidingEntry(c)

\* An entry that is written has another version, and any other stays.
LEMMA OthersDecide ==
  ASSUME CardInv, entry' \in [Cards!Lines -> EntryRow], NEW c \in Requests, job'[c] = job[c],
         \A e \in Cards!Lines : \/ entry'[e] = entry[e] \/ entry[e].status = "absent"
                                \/ entry'[e].status # "absent" /\ entry'[e].version > entry[e].version
  PROVE  DecidingEntry(c)'
  <1>1. ASSUME job[c].at \in {"matched", "resolved"} PROVE DecidingEntry(c)'
    <2> DEFINE e == job[c].entry
    <2>1. DecidingEntry(c) /\ e \in Cards!Lines /\ entry[e].status # "absent"
      BY <1>1 DEF CardInv, DecidingEntry
    <2>2. CASE entry'[e] = entry[e]
      BY <1>1, <2>1, <2>2 DEF DecidingEntry, Cards!Row, Cards!Charges, Cards!Lines
    <2>3. CASE entry'[e].status # "absent" /\ entry'[e].version > entry[e].version
      <3>1. entry[e].version \in Nat /\ entry'[e].version \in Nat /\ job[c].expected \in Nat
        /\ job[c].expected <= entry[e].version
        BY <1>1, <2>1 DEF CardInv, EntryRow, DecidingEntry
      <3>2. job[c].expected < entry'[e].version
        BY <2>3, <3>1
      <3> QED BY <1>1, <2>1, <2>3, <3>1, <3>2 DEF DecidingEntry, Cards!Row, Cards!Charges, Cards!Lines
    <2> QED BY <2>1, <2>2, <2>3
  <1> QED BY <1>1 DEF DecidingEntry

\* A row of a file is recorded as it was matched.
LEMMA NewEntryIs ==
  ASSUME NEW e \in Cards!Lines, NEW charges \in SUBSET Cards!Charges, NEW x,
         x = Cards!NewEntry(e, charges)
  PROVE  /\ x \in EntryRow /\ x.status # "absent" /\ x.version = 1
         /\ x.status \in {"unmatched", "divergent"} => x.occurrence
         /\ x.status = "matched" => x.payment \in Cards!Charges
            /\ CardAmount[x.payment] = Cards!Row(e).gross
  <1> DEFINE found == Cards!Candidates(Cards!Row(e), charges)
             status == Cards!Outcome(Cards!Row(e), found)
             payment == IF status = "matched" THEN CHOOSE p \in found : TRUE ELSE None
  <1>1. status \in {"unmatched", "divergent", "matched"}
    /\ (status = "matched" => Cards!Cardinality(found) = 1)
    BY DEF Cards!Outcome
  <1>2. Cards!Cardinality({}) = 0
    <2>1. Cards!Cardinality({}) = Cardinality({})
      BY DEF Cards!Cardinality, Cardinality
    <2> QED BY <2>1, FS_EmptySet
  <1>3. status = "matched" => (CHOOSE p \in found : TRUE) \in found
    <2>1. status = "matched" => found # {}
      BY <1>1, <1>2
    <2> QED BY <2>1
  <1>4. \A p \in found : p \in Cards!Charges /\ CardAmount[p] = Cards!Row(e).gross
    BY DEF Cards!Candidates
  <1>5. x = [Cards!NoEntry EXCEPT !.status = status, !.version = 1, !.occurrence = status # "matched",
                                  !.payment = payment]
    BY DEF Cards!NewEntry
  <1> HIDE DEF status, found
  <1>6. payment \in Cards!Charges \cup {None} /\ (status = "matched" => payment \in found)
    BY <1>3, <1>4
  <1> HIDE DEF payment
  <1>7. x = [status |-> status, payment |-> payment, version |-> 1, occurrence |-> status # "matched",
             previous |-> None]
    BY <1>5 DEF Cards!NoEntry
  <1>8. /\ x.status = status /\ x.payment = payment /\ x.version = 1 /\ x.previous = None
        /\ x.occurrence = (status # "matched")
    BY <1>7
  <1>9. x.occurrence \in BOOLEAN /\ (x.status \in {"unmatched", "divergent"} => x.occurrence)
    BY <1>8
  <1>10. x \in EntryRow
    BY <1>1, <1>6, <1>7 DEF EntryRow
  <1> QED BY <1>1, <1>4, <1>6, <1>8, <1>9, <1>10

\* A step keeps CardInv, and a decision names the status it changes.
LEMMA CardStep == CardInv /\ [Cards!Next]_Cards!reconciliationVars => CardInv' /\ Cards!PreviousIsTrue
  <1> SUFFICES ASSUME CardInv, [Cards!Next]_Cards!reconciliationVars PROVE CardInv'
    /\ Cards!PreviousIsTrue
    OBVIOUS
  <1> DEFINE Kept == UNCHANGED <<imports, entry>>
  <1>1. ASSUME Kept, confirmed' \subseteq Cards!Charges, job' = [c \in Requests |-> job'[c]],
               \A c \in Requests : (Importing(c) /\ DecidingEntry(c))' PROVE CardInv'
                 /\ Cards!PreviousIsTrue
    <2>1. \A e \in Cards!Lines : (RowRecorded(e) /\ Settled(e))'
      BY <1>1 DEF CardInv, RowRecorded, Settled
    <2> QED BY <1>1, <2>1 DEF CardInv, Cards!PreviousIsTrue
  <1>2. ASSUME Kept, job' = job PROVE \A c \in Requests : (Importing(c) /\ DecidingEntry(c))'
    BY <1>2 DEF CardInv, Importing, DecidingEntry
  <1>3. ASSUME Kept, NEW c \in Requests, NEW begun, job' = [job EXCEPT ![c] = begun],
               (Importing(c) /\ DecidingEntry(c))'
        PROVE  job' = [d \in Requests |-> job'[d]] /\ \A d \in Requests : (Importing(d) /\ DecidingEntry(d))'
    BY <1>3 DEF CardInv, Importing, DecidingEntry
  <1>4. CASE UNCHANGED Cards!reconciliationVars
    BY <1>1, <1>2, <1>4 DEF Cards!reconciliationVars, CardInv
  <1>5. ASSUME NEW p \in Cards!Charges, Cards!Confirm(p) \/ Cards!Refund(p) PROVE CardInv'
    /\ Cards!PreviousIsTrue
    BY <1>1, <1>2, <1>5 DEF Cards!Confirm, Cards!Refund, CardInv
  <1>6. ASSUME NEW c \in Requests, NEW f \in Files, Cards!ReadFile(c, f) PROVE CardInv'
    /\ Cards!PreviousIsTrue
    <2> DEFINE begun == [Cards!Resting EXCEPT !.at = "import", !.file = f, !.found = confirmed]
    <2>1. Kept /\ confirmed' = confirmed /\ job' = [job EXCEPT ![c] = begun]
      BY <1>6 DEF Cards!ReadFile, Cards!Work
    <2>2. begun.at = "import" /\ begun.file = f /\ begun.found = confirmed
      BY DEF Cards!Resting
    <2> HIDE DEF begun
    <2>3. job'[c] = begun
      BY <2>1 DEF CardInv
    <2>4. (Importing(c) /\ DecidingEntry(c))'
      BY <2>2, <2>3 DEF Importing, DecidingEntry, CardInv, Cards!Charges
    <2> QED BY <1>1, <1>3, <2>1, <2>4 DEF CardInv
  <1>7. ASSUME NEW c \in Requests, Cards!Lose(c) PROVE CardInv' /\ Cards!PreviousIsTrue
    <2>1. Kept /\ confirmed' = confirmed /\ job' = [job EXCEPT ![c] = Cards!Resting]
      BY <1>7 DEF Cards!Lose, Cards!Finish
    <2>2. (Importing(c) /\ DecidingEntry(c))'
      BY <2>1 DEF Importing, DecidingEntry, CardInv, Cards!Resting
    <2> QED BY <1>1, <1>3, <2>1, <2>2 DEF CardInv
  <1>8. ASSUME NEW c \in Requests, NEW e \in Cards!Lines, NEW status \in {"matched", "resolved"},
               NEW p \in Cards!Charges \cup {None}, Cards!ReadLine(c, e, status, p),
               status = "matched" => p \in Cards!Charges /\ CardAmount[p] = Cards!Row(e).gross
        PROVE  CardInv' /\ Cards!PreviousIsTrue
    <2>1. PICK v \in 1 .. entry[e].version :
              job' = [job EXCEPT ![c] = [Cards!Resting EXCEPT !.at = status, !.entry = e,
                                                              !.was = entry[e].status,
                                                              !.expected = v, !.with = p]]
      BY <1>8 DEF Cards!ReadLine, Cards!Work
    <2> DEFINE begun == [Cards!Resting EXCEPT !.at = status, !.entry = e, !.was = entry[e].status,
                                             !.expected = v, !.with = p]
    <2>2. Kept /\ confirmed' = confirmed /\ entry[e].status # "absent" /\ entry[e] \in EntryRow
      BY <1>8 DEF Cards!ReadLine, CardInv
    <2>3. begun.at = status /\ begun.entry = e /\ begun.was = entry[e].status /\ begun.expected = v
      /\ begun.with = p
      BY DEF Cards!Resting
    <2>4. job' = [job EXCEPT ![c] = begun]
      BY <2>1
    <2> HIDE DEF begun
    <2>5. job'[c] = begun
      BY <2>4 DEF CardInv
    <2>6. v \in Nat /\ v <= entry[e].version
      /\ entry[e].status \in {"unmatched", "divergent", "matched", "resolved"}
      BY <2>1, <2>2 DEF EntryRow
    <2>7. Importing(c)' /\ DecidingEntry(c)'
      BY <1>8, <2>2, <2>3, <2>5, <2>6 DEF Importing, DecidingEntry, Cards!Row, Cards!Charges,
        Cards!Lines
    <2> QED BY <1>1, <1>3, <2>2, <2>4, <2>7 DEF CardInv
  <1>9. ASSUME NEW c \in Requests, Cards!WriteFile(c) PROVE CardInv' /\ Cards!PreviousIsTrue
    <2> DEFINE f == job[c].file
    <2>1. /\ f \in Files /\ job[c].found \in SUBSET Cards!Charges /\ confirmed' = confirmed
          /\ job' = [job EXCEPT ![c] = Cards!Resting]
      BY <1>9 DEF Cards!WriteFile, Cards!Finish, CardInv, Importing
    <2>2. ASSUME Kept PROVE CardInv' /\ Cards!PreviousIsTrue
      <3>1. (Importing(c) /\ DecidingEntry(c))'
        BY <2>1 DEF Importing, DecidingEntry, CardInv, Cards!Resting
      <3> QED BY <1>1, <1>3, <2>1, <2>2, <3>1 DEF CardInv
    <2>3. ASSUME ~Cards!Recorded(f), imports' = [imports EXCEPT ![f] = @ + 1],
                 entry' = [e \in Cards!Lines |-> IF e[1] = f THEN Cards!NewEntry(e, job[c].found)
                                                 ELSE entry[e]]
          PROVE  CardInv' /\ Cards!PreviousIsTrue
      <3>1. \A e \in Cards!Lines : e[1] = f => imports[f] = 0 /\ entry[e].status = "absent"
        /\ entry[e].version = 0
        <4> SUFFICES ASSUME NEW e \in Cards!Lines, e[1] = f PROVE imports[f] = 0
          /\ entry[e].status = "absent" /\ entry[e].version = 0
          OBVIOUS
        <4>1. RowRecorded(e) /\ ~(imports[f] > 0)
          BY <2>3 DEF CardInv, Cards!Recorded
        <4> QED BY <4>1 DEF RowRecorded
      <3>2. \A e \in Cards!Lines :
               /\ e[1] = f => entry'[e] = Cards!NewEntry(e, job[c].found)
                  /\ imports'[e[1]] = imports[e[1]] + 1
               /\ e[1] # f => entry'[e] = entry[e] /\ imports'[e[1]] = imports[e[1]]
        <4>1. \A e \in Cards!Lines : e[1] \in Files
          BY DEF Cards!Lines
        <4> QED BY <2>1, <2>3, <4>1 DEF CardInv
      <3>3. entry' \in [Cards!Lines -> EntryRow]
        BY <2>1, <2>3, NewEntryIs DEF CardInv
      <3>4. \A e \in Cards!Lines : (RowRecorded(e) /\ Settled(e))'
        <4>1. ASSUME NEW e \in Cards!Lines, e[1] = f PROVE (RowRecorded(e) /\ Settled(e))'
          BY <2>1, <3>1, <3>2, <4>1, NewEntryIs DEF RowRecorded, Settled, Cards!Row, Cards!Charges
        <4>2. ASSUME NEW e \in Cards!Lines, e[1] # f PROVE (RowRecorded(e) /\ Settled(e))'
          BY <3>2, <4>2 DEF CardInv, RowRecorded, Settled, Cards!Row, Cards!Charges
        <4> QED BY <4>1, <4>2
      <3>5. ASSUME NEW d \in Requests PROVE (Importing(d) /\ DecidingEntry(d))'
        <4>1. CASE d = c
          BY <2>1, <4>1 DEF CardInv, Importing, DecidingEntry, Cards!Resting
        <4>2. CASE d # c
          <5>1. job'[d] = job[d]
            BY <2>1, <4>2 DEF CardInv
          <5>2. DecidingEntry(d)'
            BY <3>1, <3>2, <3>3, <5>1, OthersDecide
          <5> QED BY <5>1, <5>2 DEF CardInv, Importing, Cards!Charges
        <4> QED BY <4>1, <4>2
      <3>6. Cards!PreviousIsTrue
        BY <3>1, <3>2 DEF Cards!PreviousIsTrue
      <3>7. imports' = [g \in Files |-> imports'[g]] /\ job' = [d \in Requests |-> job'[d]]
        BY <2>1, <2>3 DEF CardInv
      <3> QED BY <2>1, <3>3, <3>4, <3>5, <3>6, <3>7 DEF CardInv, Cards!Charges
    <2> QED BY <1>9, <2>2, <2>3 DEF Cards!WriteFile
  <1>10. ASSUME NEW c \in Requests, Cards!ResolveEntry(c) PROVE CardInv' /\ Cards!PreviousIsTrue
    <2> DEFINE e == job[c].entry
    <2>1. /\ DecidingEntry(c) /\ job[c].at \in {"matched", "resolved"} /\ e \in Cards!Lines
          /\ entry[e] \in EntryRow
          /\ job' = [job EXCEPT ![c] = Cards!Resting] /\ UNCHANGED <<imports, confirmed>>
      BY <1>10 DEF Cards!ResolveEntry, Cards!Finish, CardInv, DecidingEntry
    <2>2. ASSUME Kept PROVE CardInv' /\ Cards!PreviousIsTrue
      <3>1. (Importing(c) /\ DecidingEntry(c))'
        BY <2>1 DEF Importing, DecidingEntry, CardInv, Cards!Resting
      <3> QED BY <1>1, <1>3, <2>1, <2>2, <3>1 DEF CardInv
    <2>3. ASSUME Cards!Current(c),
                 entry' = [entry EXCEPT ![e] = [@ EXCEPT !.status = job[c].at, !.payment = job[c].with,
                                                         !.previous = job[c].was,
                                                           !.version = job[c].expected + 1]]
          PROVE  CardInv' /\ Cards!PreviousIsTrue
      <3> DEFINE x == [entry[e] EXCEPT !.status = job[c].at, !.payment = job[c].with,
                                       !.previous = job[c].was, !.version = job[c].expected + 1]
      <3>1. job[c].expected = entry[e].version /\ job[c].was = entry[e].status
        /\ entry[e].version \in Nat
        BY <2>1, <2>3 DEF Cards!Current, DecidingEntry, EntryRow
      <3>2. x \in EntryRow /\ x.status = job[c].at /\ x.payment = job[c].with
        /\ x.previous = entry[e].status
            /\ x.version = entry[e].version + 1
        <4>1. /\ job[c].at \in {"matched", "resolved"} /\ job[c].with \in Cards!Charges \cup {None}
              /\ job[c].was \in {"unmatched", "divergent", "matched", "resolved"}
              /\ job[c].was = entry[e].status /\ job[c].expected = entry[e].version
              /\ job[c].expected + 1 \in Nat
          BY <2>1, <3>1 DEF DecidingEntry
        <4>2. entry[e] \in EntryRow
          BY <2>1
        <4> QED BY <4>1, <4>2 DEF EntryRow
      <3>3. entry' = [entry EXCEPT ![e] = x]
        BY <2>3
      <3> HIDE DEF x
      <3>4. entry' \in [Cards!Lines -> EntryRow] /\ entry'[e] = x
        /\ \A d \in Cards!Lines \ {e} : entry'[d] = entry[d]
        BY <2>1, <3>2, <3>3 DEF CardInv
      <3>5. \A d \in Cards!Lines : (RowRecorded(d) /\ Settled(d))'
        <4>1. ASSUME NEW d \in Cards!Lines, d = e PROVE (RowRecorded(d) /\ Settled(d))'
          <5>1. entry[e].status # "absent" /\ x.status # "absent" /\ x.version # 0
            BY <2>1, <3>1, <3>2 DEF DecidingEntry
          <5> QED BY <4>1, <2>1, <3>2, <3>4, <5>1 DEF CardInv, RowRecorded, Settled, DecidingEntry,
            Cards!Row, Cards!Charges
        <4>2. ASSUME NEW d \in Cards!Lines, d # e PROVE (RowRecorded(d) /\ Settled(d))'
          BY <2>1, <3>4, <4>2 DEF CardInv, RowRecorded, Settled, Cards!Row, Cards!Charges
        <4> QED BY <4>1, <4>2
      <3>6. ASSUME NEW d \in Requests PROVE (Importing(d) /\ DecidingEntry(d))'
        <4>1. CASE d = c
          BY <2>1, <4>1 DEF CardInv, Importing, DecidingEntry, Cards!Resting
        <4>2. CASE d # c
          <5>1. job'[d] = job[d]
            BY <2>1, <4>2 DEF CardInv
          <5>2. x.status # "absent" /\ x.version > entry[e].version
            BY <2>1, <3>1, <3>2
          <5>3. DecidingEntry(d)'
            BY <3>4, <5>1, <5>2, OthersDecide
          <5> QED BY <5>1, <5>3 DEF CardInv, Importing, Cards!Charges
        <4> QED BY <4>1, <4>2
      <3>7. Cards!PreviousIsTrue
        BY <3>2, <3>4 DEF Cards!PreviousIsTrue
      <3>8. imports' = [g \in Files |-> imports'[g]] /\ job' = [d \in Requests |-> job'[d]]
        BY <2>1 DEF CardInv
      <3> QED BY <2>1, <3>4, <3>5, <3>6, <3>7, <3>8 DEF CardInv, Cards!Charges
    <2> QED BY <1>10, <2>2, <2>3 DEF Cards!ResolveEntry
  <1>11. ASSUME NEW c \in Requests, NEW e \in Cards!Lines, NEW p \in Cards!Charges, Cards!Match(c, e, p)
         PROVE  CardInv' /\ Cards!PreviousIsTrue
    BY <1>8, <1>11 DEF Cards!Match
  <1>12. ASSUME NEW c \in Requests, NEW e \in Cards!Lines, Cards!Resolve(c, e)
         PROVE  CardInv' /\ Cards!PreviousIsTrue
    <2>1. entry[e].payment \in Cards!Charges \cup {None}
      BY DEF CardInv, EntryRow
    <2> QED BY <1>8, <1>12, <2>1 DEF Cards!Resolve
  <1> QED BY <1>4, <1>5, <1>6, <1>7, <1>9, <1>10, <1>11, <1>12 DEF Cards!Next

\* At first nothing is imported, so CardInv holds.
LEMMA CardsStart == Cards!Init => CardInv
  <1> SUFFICES ASSUME Cards!Init PROVE CardInv
    OBVIOUS
  <1>1. /\ imports = [f \in Files |-> 0] /\ entry = [e \in Cards!Lines |-> Cards!NoEntry]
        /\ confirmed = {} /\ job = [c \in Requests |-> Cards!Resting]
    BY DEF Cards!Init
  <1>2. entry \in [Cards!Lines -> EntryRow]
    BY <1>1 DEF Cards!NoEntry, EntryRow
  <1>3. \A e \in Cards!Lines : e[1] \in Files
    BY DEF Cards!Lines
  <1>4. \A e \in Cards!Lines : RowRecorded(e) /\ Settled(e)
    BY <1>1, <1>3 DEF RowRecorded, Settled, Cards!NoEntry
  <1>5. \A c \in Requests : Importing(c) /\ DecidingEntry(c)
    BY <1>1 DEF Importing, DecidingEntry, Cards!Resting
  <1> QED BY <1>1, <1>2, <1>4, <1>5 DEF CardInv

\* What is imported agrees with its file.
LEMMA CardsAgree ==
  CardInv => Cards!FilesAgree
  BY DEF CardInv, RowRecorded, Settled, Cards!FilesAgree

\* A file of card payments is recorded once and with all its rows, what nobody
\* settled has an occurrence, a match is with a charge of the row's amount, and
\* a decision names the status the entry had, however imports, decisions and
\* refunds interleave.
THEOREM FilesRecordedOnce ==
  Cards!Spec => []Cards!FilesAgree /\ [][Cards!PreviousIsTrue]_Cards!reconciliationVars
  <1> QED BY CardsAgree, CardsStart, CardStep, PTL DEF Cards!Spec
-----------------------------------------------------------------------------
(*                Payments of a bill by parts (Allocations)                *)

RegisteredIn(p) == {n \in Payments : p[n] # None}

AllocatedIn(p, i) == MapThenSumSet(LAMBDA n : p[n][i], RegisteredIn(p))

\* What is allocated to an item is a sum over the payments registered.
LEMMA AllocatedIs ==
  ASSUME NEW i
  PROVE  Bill!Allocated(i) = AllocatedIn(paid, i) /\ Bill!Allocated(i)' = AllocatedIn(paid', i)
  BY DEF Bill!Allocated, Bill!Registered, AllocatedIn, RegisteredIn, Bill!MapThenSumSet,
     Bill!MapThenFoldSet, MapThenSumSet, MapThenFoldSet

\* What is left of a bill follows from its items and payments.
LEMMA OutstandingStays ==
  ASSUME item' = item, paid' = paid
  PROVE  Bill!Outstanding' = Bill!Outstanding
  BY DEF Bill!Outstanding, Bill!Total, Bill!SumOf, Bill!Registered, Bill!MapThenSumSet,
    Bill!MapThenFoldSet

\* What is given to an item is a sum over the payments.
LEMMA AllocatedInIs ==
  ASSUME IsFiniteSet(Payments), NEW p, NEW i
  PROVE  AllocatedIn(p, i) = Total([n \in Payments |-> p[n][i]], RegisteredIn(p))
  <1> DEFINE A == RegisteredIn(p)
             f == [n \in Payments |-> p[n][i]]
             P(h) == h = [s \in SUBSET A |-> IF s = {} THEN 0 ELSE p[Picked(s)][i] + h[s \ {Picked(s)}]]
  <1>1. IsFiniteSet(A)
    BY FS_Subset DEF RegisteredIn
  <1>2. ASSUME NEW h PROVE P(h) <=> Sums(h, f, A)
    <2>1. \A s \in SUBSET A : s # {} => f[Picked(s)] = p[Picked(s)][i]
      <3>1. \A s \in SUBSET A : s # {} => Picked(s) \in Payments
        BY PickedIn DEF RegisteredIn
      <3> QED BY <3>1
    <2>2. [s \in SUBSET A |-> IF s = {} THEN 0 ELSE p[Picked(s)][i] + h[s \ {Picked(s)}]]
             = [s \in SUBSET A |-> IF s = {} THEN 0 ELSE f[Picked(s)] + h[s \ {Picked(s)}]]
      <3> HIDE DEF A, f
      <3> QED BY <2>1
    <2> HIDE DEF A, f
    <2> QED BY <2>2 DEF Sums
  <1>3. AllocatedIn(p, i) = (CHOOSE h : P(h))[A]
    BY DEF AllocatedIn, MapThenSumSet, MapThenFoldSet, Picked
  <1> HIDE DEF P
  <1>4. \E h : P(h)
    BY <1>1, <1>2, SumsExist
  <1>5. P(CHOOSE h : P(h))
    BY <1>4
  <1> QED BY <1>1, <1>2, <1>3, <1>5, TotalIs

\* A payment that is registered adds what it gives.
LEMMA AllocatedMore ==
  ASSUME IsFiniteSet(Payments), NEW p, NEW q, NEW n \in Payments, NEW i,
         p[n] = None, q[n] # None, \A m \in Payments \ {n} : q[m] = p[m],
         \A m \in RegisteredIn(q) : q[m][i] \in Nat
  PROVE  AllocatedIn(q, i) = AllocatedIn(p, i) + q[n][i] /\ AllocatedIn(p, i) \in Nat
  <1> DEFINE f == [m \in Payments |-> p[m][i]]
             g == [m \in Payments |-> q[m][i]]
             A == RegisteredIn(p)
             B == RegisteredIn(q)
  <1>1. B = A \cup {n} /\ n \notin A /\ A = B \ {n}
    BY DEF RegisteredIn
  <1>2. IsFiniteSet(A) /\ IsFiniteSet(B) /\ B \subseteq Payments
    BY FS_Subset DEF RegisteredIn
  <1>3. \A m \in B : g[m] \in Nat
    BY <1>2
  <1>4. \A m \in A : f[m] = g[m]
    BY <1>1, <1>2
  <1>5. g[n] = q[n][i]
    OBVIOUS
  <1>6. AllocatedIn(p, i) = Total(f, A) /\ AllocatedIn(q, i) = Total(g, B)
    BY AllocatedInIs
  <1> HIDE DEF f, g, A, B
  <1>7. Total(f, A) = Total(g, A) /\ Total(g, A) \in Nat
    BY <1>1, <1>2, <1>3, <1>4, TotalSame, TotalNat
  <1>8. Total(g, B) = g[n] + Total(g, A)
    BY <1>1, <1>2, <1>3, TotalWithout
  <1>9. AllocatedIn(q, i) = q[n][i] + AllocatedIn(p, i) /\ AllocatedIn(p, i) \in Nat
    BY <1>5, <1>6, <1>7, <1>8
  <1>10. q[n][i] \in Nat
    BY <1>1, <1>3, <1>5
  <1> QED BY <1>9, <1>10

\* A charge in flight holds the order; while the version is the one it read,
\* the bill is too.
Charging(c) == charging[c] # Bill!Resting =>
    /\ charging[c].payment \in Payments /\ paid[charging[c].payment] = None
    /\ charging[c].allocation \in Bill!Allocations
    /\ charging[c].seen \in Nat /\ charging[c].seen <= version
    /\ charging[c].seen = version => /\ Bill!Valid(charging[c].allocation)
                                     /\ Bill!SumOf(charging[c].allocation) <= Bill!Outstanding

BillInv ==
    /\ item = [i \in BillItems |-> item[i]] /\ version \in Nat
    /\ paid \in [Payments -> Bill!Allocations \cup {None}]
    /\ charging = [c \in Requests |-> charging[c]]
    /\ \A c \in Requests : Charging(c)
    /\ \A c, d \in Requests : charging[c] # Bill!Resting /\ charging[d] # Bill!Resting => c = d
    /\ Bill!ItemsNotOverpaid

\* A bill that changes has another version.
LEMMA BillMoves ==
  ASSUME BillInv, NEW i \in BillItems, Bill!AddItem(i) \/ Bill!CancelItem(i)
  PROVE  BillInv' /\ Bill!OnOpenItems
  <1>1. /\ version' = version + 1 /\ paid' = paid /\ charging' = charging
        /\ item' = [j \in BillItems |-> item'[j]]
    BY DEF Bill!AddItem, Bill!CancelItem, BillInv
  <1>2. ASSUME NEW c \in Requests PROVE Charging(c)'
    <2>1. Charging(c) /\ version \in Nat
      BY DEF BillInv
    <2> QED BY <1>1, <2>1 DEF Charging, Bill!Resting, Bill!Allocations
  <1>3. Bill!ItemsNotOverpaid'
    BY <1>1, AllocatedIs DEF BillInv, Bill!ItemsNotOverpaid
  <1>4. Bill!OnOpenItems
    BY <1>1 DEF Bill!OnOpenItems, Bill!Registered
  <1> QED BY <1>1, <1>2, <1>3, <1>4 DEF BillInv, Bill!Allocations, Bill!Resting

\* A charge is read for what is left of the bill.
LEMMA ChargeRead ==
  ASSUME BillInv, NEW c \in Requests, NEW n \in Payments, NEW allocation \in Bill!Allocations,
         Bill!ReadCharge(c, n, allocation)
  PROVE  BillInv' /\ Bill!OnOpenItems
  <1> DEFINE begun == [payment |-> n, allocation |-> allocation, seen |-> version]
  <1>1. /\ item' = item /\ version' = version /\ paid' = paid
        /\ charging' = [charging EXCEPT ![c] = begun] /\ paid[n] = None
        /\ Bill!Valid(allocation) /\ Bill!SumOf(allocation) <= Bill!Outstanding
        /\ \A d \in Requests : charging[d] = Bill!Resting
    BY DEF Bill!ReadCharge, Bill!OrderUnlocked
  <1>2. charging'[c] = begun /\ \A d \in Requests \ {c} : charging'[d] = Bill!Resting
    BY <1>1 DEF BillInv
  <1>3. Bill!Outstanding' = Bill!Outstanding /\ \A i : Bill!Allocated(i)' = Bill!Allocated(i)
    BY <1>1, OutstandingStays, AllocatedIs
  <1>4. Charging(c)'
    <2>1. Bill!Valid(allocation)'
      BY <1>1, <1>3 DEF Bill!Valid
    <2>2. version \in Nat
      BY DEF BillInv
    <2> QED BY <1>1, <1>2, <1>3, <2>1, <2>2 DEF Charging
  <1>5. Bill!ItemsNotOverpaid'
    BY <1>3 DEF BillInv, Bill!ItemsNotOverpaid
  <1>6. Bill!OnOpenItems
    BY <1>1 DEF Bill!OnOpenItems, Bill!Registered
  <1>7. \A d \in Requests : Charging(d)'
    BY <1>2, <1>4 DEF Charging, Bill!Resting
  <1> QED BY <1>1, <1>2, <1>5, <1>6, <1>7 DEF BillInv, Bill!Allocations, Bill!Resting

\* A charge is committed only if the bill is as it was read.
LEMMA ChargeWritten ==
  ASSUME IsFiniteSet(Payments), Parts \subseteq Nat, Price \in [BillItems -> Nat],
         None \notin Bill!Allocations,
         BillInv, NEW c \in Requests, Bill!WriteCharge(c)
  PROVE  BillInv' /\ Bill!OnOpenItems
  <1> DEFINE n == charging[c].payment
             allocation == charging[c].allocation
  <1>1. /\ item' = item /\ charging[c] # Bill!Resting
        /\ charging' = [charging EXCEPT ![c] = Bill!Resting]
        /\ n \in Payments /\ paid[n] = None /\ allocation \in Bill!Allocations
    BY DEF Bill!WriteCharge, BillInv, Charging
  <1>2. \A d \in Requests : charging'[d] = Bill!Resting
    BY <1>1 DEF BillInv
  <1>3. \A d \in Requests : Charging(d)'
    BY <1>2 DEF Charging, Bill!Resting
  <1>4. CASE UNCHANGED <<paid, version>>
    <2>1. Bill!ItemsNotOverpaid'
      BY <1>4, AllocatedIs DEF BillInv, Bill!ItemsNotOverpaid
    <2>2. Bill!OnOpenItems
      BY <1>4 DEF Bill!OnOpenItems, Bill!Registered
    <2> QED BY <1>1, <1>2, <1>3, <1>4, <2>1, <2>2 DEF BillInv, Bill!Allocations, Bill!Resting
  <1>5. ASSUME Bill!SameVersion(charging[c].seen), paid' = [paid EXCEPT ![n] = allocation],
               version' = charging[c].seen + 1
        PROVE  BillInv' /\ Bill!OnOpenItems
    <2>1. Bill!Valid(allocation) /\ Bill!SumOf(allocation) <= Bill!Outstanding
      /\ charging[c].seen \in Nat
      BY <1>1, <1>5 DEF BillInv, Charging, Bill!SameVersion
    <2>2. paid' \in [Payments -> Bill!Allocations \cup {None}] /\ paid'[n] = allocation
          /\ \A m \in Payments \ {n} : paid'[m] = paid[m]
      BY <1>1, <1>5 DEF BillInv
    <2>3. Bill!ItemsNotOverpaid'
      <3> SUFFICES ASSUME NEW i \in BillItems PROVE AllocatedIn(paid', i) <= Price[i]
        BY AllocatedIs DEF Bill!ItemsNotOverpaid
      <3>1. \A m \in RegisteredIn(paid') : paid'[m][i] \in Nat
        <4>1. \A m \in RegisteredIn(paid') : paid'[m] \in [BillItems -> Parts \cup {0}]
          BY <2>2 DEF RegisteredIn, Bill!Allocations
        <4>2. Parts \cup {0} \subseteq Nat
          OBVIOUS
        <4> QED BY <4>1, <4>2
      <3>2. paid'[n] # None
        BY <1>1, <2>2
      <3>3. /\ AllocatedIn(paid', i) = AllocatedIn(paid, i) + allocation[i]
            /\ AllocatedIn(paid, i) \in Nat
        <4>1. /\ AllocatedIn(paid', i) = AllocatedIn(paid, i) + paid'[n][i]
              /\ AllocatedIn(paid, i) \in Nat
          <5> HIDE DEF n, allocation
          <5> QED BY <1>1, <2>2, <3>1, <3>2, AllocatedMore
        <4> QED BY <2>2, <4>1
      <3>4. allocation[i] \in Nat /\ AllocatedIn(paid, i) <= Price[i] /\ Price[i] \in Nat
        BY <1>1, AllocatedIs DEF BillInv, Bill!ItemsNotOverpaid, Bill!Allocations
      <3>5. allocation[i] > 0 => AllocatedIn(paid, i) + allocation[i] <= Price[i]
        BY <2>1, AllocatedIs DEF Bill!Valid
      <3> QED BY <3>3, <3>4, <3>5
    <2>4. Bill!OnOpenItems
      <3> SUFFICES ASSUME NEW m \in Payments, paid[m] = None, paid'[m] # None
                   PROVE  /\ \A i \in BillItems : paid'[m][i] > 0 => item'[i] = "open"
                          /\ Bill!SumOf(paid'[m]) <= Bill!Outstanding
        BY DEF Bill!OnOpenItems, Bill!Registered
      <3>1. m = n /\ paid'[m] = allocation
        BY <2>2
      <3> QED BY <1>1, <2>1, <3>1 DEF Bill!Valid
    <2>5. version' \in Nat
      BY <1>5, <2>1
    <2> QED BY <1>1, <1>2, <1>3, <2>2, <2>3, <2>5, <2>4 DEF BillInv, Bill!Allocations, Bill!Resting
  <1> QED BY <1>4, <1>5 DEF Bill!WriteCharge

\* A step keeps BillInv and charges for items that are open.
LEMMA BillStep ==
  ASSUME IsFiniteSet(Payments), Parts \subseteq Nat, Price \in [BillItems -> Nat],
         None \notin Bill!Allocations
  PROVE  BillInv /\ [Bill!Next]_Bill!allocationVars => BillInv'
    /\ [Bill!OnOpenItems]_Bill!allocationVars
  <1> SUFFICES ASSUME BillInv, [Bill!Next]_Bill!allocationVars
               PROVE  BillInv' /\ [Bill!OnOpenItems]_Bill!allocationVars
    OBVIOUS
  <1>1. CASE UNCHANGED Bill!allocationVars
    <2>1. UNCHANGED <<item, version, paid, charging>>
      BY <1>1 DEF Bill!allocationVars
    <2>2. Bill!Outstanding' = Bill!Outstanding /\ \A i : Bill!Allocated(i)' = Bill!Allocated(i)
      BY <2>1, OutstandingStays, AllocatedIs
    <2>3. ASSUME NEW c \in Requests PROVE Charging(c)'
      <3>1. Bill!SumOf(charging[c].allocation)' = Bill!SumOf(charging[c].allocation)
        BY <2>1 DEF Bill!SumOf, Bill!MapThenSumSet, Bill!MapThenFoldSet
      <3>2. Bill!Valid(charging[c].allocation)' <=> Bill!Valid(charging[c].allocation)
        BY <2>1, <2>2 DEF Bill!Valid
      <3>3. Charging(c)
        BY DEF BillInv
      <3> QED BY <2>1, <2>2, <3>1, <3>2, <3>3 DEF Charging, Bill!Resting, Bill!Allocations
    <2> QED BY <1>1, <2>1, <2>2, <2>3 DEF BillInv, Bill!Resting, Bill!Allocations, Bill!ItemsNotOverpaid
  <1> QED BY <1>1, BillMoves, ChargeRead, ChargeWritten DEF Bill!Next

\* At first nothing is paid, so BillInv holds.
LEMMA BillStarts ==
  ASSUME IsFiniteSet(Payments), Price \in [BillItems -> Nat]
  PROVE  Bill!Init => BillInv
  <1> SUFFICES ASSUME Bill!Init PROVE BillInv
    OBVIOUS
  <1>1. \A c \in Requests : charging[c] = Bill!Resting
    BY DEF Bill!Init
  <1>2. Bill!ItemsNotOverpaid
    <2> SUFFICES ASSUME NEW i \in BillItems PROVE AllocatedIn(paid, i) <= Price[i]
      BY AllocatedIs DEF Bill!ItemsNotOverpaid
    <2>1. RegisteredIn(paid) = {}
      BY DEF RegisteredIn, Bill!Init
    <2>2. AllocatedIn(paid, i) = Total([n \in Payments |-> paid[n][i]], {})
      BY <2>1, AllocatedInIs
    <2>3. AllocatedIn(paid, i) = 0
      BY <2>2, TotalEmpty
    <2> QED BY <2>3
  <1>3. \A c \in Requests : Charging(c)
    BY <1>1 DEF Charging
  <1> QED BY <1>1, <1>2, <1>3 DEF Bill!Init, BillInv

\* However a bill is divided among any number of payments and desks, no item
\* is paid for beyond its price by those that name it, and each is for items
\* that are on the bill and for no more than is left of it.
THEOREM BillPaidOnce ==
  ASSUME IsFiniteSet(Payments), Parts \subseteq Nat, Price \in [BillItems -> Nat],
         None \notin Bill!Allocations
  PROVE  Bill!Spec => []Bill!ItemsNotOverpaid /\ [][Bill!OnOpenItems]_Bill!allocationVars
  <1>2. BillInv => Bill!ItemsNotOverpaid
    BY DEF BillInv
  <1> QED BY BillStarts, <1>2, BillStep, PTL DEF Bill!Spec
-----------------------------------------------------------------------------
(*                   Settlements of a shift (Settlements)                  *)

Revision == [status : {"awaiting_confirmation", "checked", "closed", "reopened"},
             key : Calculations \cup {None}, totals : Nat, hash : Nat,
             service : Services \cup {None}, pool : SUBSET Parties]
ActRow == [at : {"idle", "calculate", "settle", "close shift"},
           key : Calculations \cup {None}, seen : Nat, service : Services \cup {None},
           pool : SUBSET Parties, parties : SUBSET Parties, party : Parties \cup {None},
           revision : Nat, to : {"confirmed", "checked", "closed", "reopened", None}]

\* The items name parties, and waiters are assigned.
ShiftRowsOK ==
    /\ ledger \in Nat /\ service \in Services /\ assigned \subseteq Parties
    /\ sold \subseteq [responsible : Parties, author : Parties]
ShiftShape ==
    /\ ShiftRowsOK
    /\ settlement \in [Parties -> Seq(Revision)] /\ act \in [Requests -> ActRow]

\* The rows of a party, and the newest that a calculation made.
RevisionsOf(p) == 1 .. Len(settlement[p])
IsNewest(p, k) == /\ k \in RevisionsOf(p) /\ settlement[p][k].key # None
                  /\ \A s \in RevisionsOf(p) : s > k => settlement[p][s].key = None

\* A row that no calculation made is a reopening.
ReopenedOnly ==
    \A p \in Parties : \A s \in RevisionsOf(p) :
        settlement[p][s].key = None => settlement[p][s].status = "reopened"

\* What a call has read of the row it has locked.
Permits(to, status) == /\ to \in {"confirmed", "checked"} => status = "awaiting_confirmation"
                       /\ to = "closed" => status = "checked"
                       /\ to = "reopened" => status = "closed"
SettlingRow(c) == act[c].at = "settle" =>
    /\ act[c].party \in Parties /\ act[c].revision \in RevisionsOf(act[c].party)
    /\ act[c].to \in {"confirmed", "checked", "closed", "reopened"}
    /\ Permits(act[c].to, settlement[act[c].party][act[c].revision].status)
CalculatingShift(c) == act[c].at = "calculate" => act[c].key \in Calculations

\* While a shift is being closed nobody calculates, and the newest of every
\* participant stays closed, all of one hash.
AllClosed(P, h) ==
    \A p \in P : \E n \in RevisionsOf(p) :
        IsNewest(p, n) /\ settlement[p][n].status = "closed" /\ settlement[p][n].hash = h
ClosingShift(c) == act[c].at = "close shift" => \E h \in Nat : AllClosed(act[c].parties, h)

ShiftCallsApart(c, d) == c # d =>
    /\ act[c].at = "settle" /\ act[d].at = "settle"
       => act[c].party # act[d].party \/ act[c].revision # act[d].revision
    /\ act[c].at = "close shift" => act[d].at # "calculate"

ShiftInv ==
    /\ ShiftShape /\ ReopenedOnly
    /\ \A c \in Requests : SettlingRow(c) /\ CalculatingShift(c) /\ ClosingShift(c)
    /\ \A c, d \in Requests : ShiftCallsApart(c, d)

\* Newest picks the calculated revision with the greatest number.
LEMMA NewestIs ==
  ASSUME ShiftShape, NEW p \in Parties, NEW n \in RevisionsOf(p), IsNewest(p, n)
  PROVE  Shift!Newest(p) = settlement[p][n]
  <1> DEFINE made == {r \in RevisionsOf(p) : settlement[p][r].key # None}
  <1>1. n \in made /\ (\A s \in made : s <= n) /\ RevisionsOf(p) \subseteq Nat
    BY DEF IsNewest, RevisionsOf, ShiftShape
  <1>2. \A r \in made : (\A s \in made : s <= r) => r = n
    BY <1>1
  <1> HIDE DEF made
  <1>3. (CHOOSE r \in made : \A s \in made : s <= r) = n
    BY <1>1, <1>2
  <1> QED BY <1>3 DEF Shift!Newest, made, RevisionsOf

\* A call at rest has the shape of any call.
LEMMA ActOff == Shift!Off.at = "idle" /\ Shift!Off \in ActRow
  BY DEF Shift!Off, ActRow

\* A call begins or ends, and the settlements stay.
LEMMA ShiftCall ==
  ASSUME ShiftInv, settlement' = settlement, ShiftRowsOK', NEW c \in Requests,
         NEW begun \in ActRow,
         act' = [act EXCEPT ![c] = begun], (SettlingRow(c) /\ CalculatingShift(c) /\ ClosingShift(c))',
         \A d \in Requests \ {c} : ShiftCallsApart(c, d)' /\ ShiftCallsApart(d, c)'
  PROVE  ShiftInv'
  <1>1. act'[c] = begun /\ \A d \in Requests \ {c} : act'[d] = act[d]
    BY DEF ShiftInv, ShiftShape
  <1>2. ShiftShape' /\ ReopenedOnly'
    BY DEF ShiftInv, ShiftShape, ReopenedOnly, RevisionsOf
  <1>3. ASSUME NEW d \in Requests PROVE (SettlingRow(d) /\ CalculatingShift(d) /\ ClosingShift(d))'
    <2>1. \A P, h : AllClosed(P, h) => AllClosed(P, h)'
      BY DEF AllClosed, IsNewest, RevisionsOf
    <2> QED BY <1>1, <2>1 DEF ShiftInv, SettlingRow, CalculatingShift, ClosingShift, RevisionsOf
  <1>4. ASSUME NEW d \in Requests, NEW e \in Requests PROVE ShiftCallsApart(d, e)'
    <2>1. CASE d # c /\ e # c
      BY <1>1, <2>1 DEF ShiftInv, ShiftCallsApart
    <2>2. CASE d = e
      BY <2>2 DEF ShiftCallsApart
    <2> QED BY <2>1, <2>2
  <1> QED BY <1>2, <1>3, <1>4 DEF ShiftInv

\* A call that gives up leaves the others as they are.
LEMMA ShiftCallEnds ==
  ASSUME ShiftInv, UNCHANGED <<settlement, ledger, sold, assigned, service>>, NEW c \in Requests,
         act' = [act EXCEPT ![c] = Shift!Off]
  PROVE  ShiftInv'
  <1>1. act'[c] = Shift!Off /\ act'[c].at = "idle"
    BY ActOff DEF ShiftInv, ShiftShape
  <1>2. (SettlingRow(c) /\ CalculatingShift(c) /\ ClosingShift(c))'
    BY <1>1 DEF SettlingRow, CalculatingShift, ClosingShift
  <1>3. \A d \in Requests \ {c} : ShiftCallsApart(c, d)' /\ ShiftCallsApart(d, c)'
    BY <1>1 DEF ShiftCallsApart
  <1>4. ShiftRowsOK'
    BY DEF ShiftInv, ShiftShape, ShiftRowsOK
  <1> QED BY <1>2, <1>3, <1>4, ActOff, ShiftCall DEF ShiftInv, ShiftShape

\* Who must have settled are parties of the shift.
LEMMA ParticipantsAre ==
  ASSUME ShiftShape, Bucket \in Parties, NEW attribution
  PROVE  Shift!Participants(attribution) \subseteq Parties
  <1>1. {i.author : i \in sold} \subseteq Parties /\ {i.responsible : i \in sold} \subseteq Parties
    BY DEF ShiftShape, ShiftRowsOK
  <1>2. \A p \in Shift!Waiters : \A r \in 1 .. Len(settlement[p]) : settlement[p][r].pool \subseteq Parties
    <2> SUFFICES ASSUME NEW p \in Parties, NEW r \in 1 .. Len(settlement[p])
                 PROVE  settlement[p][r].pool \subseteq Parties
      BY DEF Shift!Waiters
    <2>1. settlement[p][r] \in Revision
      BY ElementOfSeq DEF ShiftShape
    <2> QED BY <2>1 DEF Revision
  <1> PICK pools : pools = UNION {{settlement[p][r].pool : r \in 1 .. Len(settlement[p])} : p \in Shift!Waiters}
    OBVIOUS
  <1>3. UNION pools \subseteq Parties
    BY <1>2
  <1>4. (IF UNION pools # {} THEN UNION pools ELSE assigned) \subseteq Parties
    BY <1>3 DEF ShiftShape, ShiftRowsOK
  <1> QED BY <1>1, <1>4 DEF Shift!Participants

\* What a call has just read of a shift is so.
LEMMA ShiftReads ==
  ASSUME ShiftInv, None \notin Calculations, Bucket \in Parties, MaxRevisions \in Nat, NEW c \in Requests,
         \/ \E k \in Calculations : Shift!ReadCalculation(c, k)
         \/ \E p \in Parties, r \in 1 .. MaxRevisions,
            to \in {"confirmed", "checked", "closed", "reopened"} :
               Shift!ReadTransition(c, p, r, to)
         \/ Shift!ReadClosing(c)
  PROVE  ShiftInv'
  <1> USE DEF Shift!Begin, Shift!shiftRows
  <1>0. UNCHANGED <<turn, ledger, sold, assigned, service>> => ShiftRowsOK'
    BY DEF ShiftInv, ShiftShape, ShiftRowsOK
  <1>1. ASSUME NEW k \in Calculations, Shift!ReadCalculation(c, k) PROVE ShiftInv'
    <2>0. PICK given \in SUBSET Parties, pool \in SUBSET assigned :
            act' = [act EXCEPT ![c] = [Shift!Off EXCEPT !.at = "calculate", !.key = k, !.seen = ledger,
                        !.service = service, !.pool = pool, !.parties = given \cup assigned]]
      BY <1>1 DEF Shift!ReadCalculation
    <2> DEFINE begun == [Shift!Off EXCEPT !.at = "calculate", !.key = k, !.seen = ledger,
                            !.service = service, !.pool = pool, !.parties = given \cup assigned]
    <2>1. /\ act' = [act EXCEPT ![c] = begun] /\ UNCHANGED <<turn, ledger, sold, assigned, service, settlement>>
          /\ \A d \in Requests : act[d].at \notin {"calculate", "close shift"}
      BY <1>1, <2>0 DEF Shift!ReadCalculation, Shift!ShiftFree
    <2>2. begun.at = "calculate" /\ begun.key = k /\ begun \in ActRow
      BY DEF Shift!Off, ActRow, ShiftInv, ShiftShape, ShiftRowsOK
    <2> HIDE DEF begun
    <2>3. act'[c] = begun /\ \A d \in Requests \ {c} : act'[d] = act[d]
      BY <2>1 DEF ShiftInv, ShiftShape
    <2>4. (SettlingRow(c) /\ CalculatingShift(c) /\ ClosingShift(c))'
      /\ \A d \in Requests \ {c} : ShiftCallsApart(c, d)' /\ ShiftCallsApart(d, c)'
      BY <2>1, <2>2, <2>3 DEF SettlingRow, CalculatingShift, ClosingShift, ShiftCallsApart
    <2> QED BY <1>0, <2>1, <2>2, <2>4, ShiftCall DEF ShiftInv, ShiftShape
  <1>2. ASSUME NEW p \in Parties, NEW r \in 1 .. MaxRevisions,
    NEW to \in {"confirmed", "checked", "closed", "reopened"},
               Shift!ReadTransition(c, p, r, to) PROVE ShiftInv'
    <2> DEFINE begun == [Shift!Off EXCEPT !.at = "settle", !.party = p, !.revision = r, !.to = to]
    <2>1. /\ act' = [act EXCEPT ![c] = begun] /\ UNCHANGED <<turn, ledger, sold, assigned, service, settlement>>
          /\ r <= Len(settlement[p]) /\ Shift!Permitted(p, settlement[p][r], to)
          /\ \A d \in Requests : act[d].at = "settle" => act[d].party # p \/ act[d].revision # r
      BY <1>2 DEF Shift!ReadTransition, Shift!RowFree
    <2>2. begun.at = "settle" /\ begun.party = p /\ begun.revision = r /\ begun.to = to /\ begun \in ActRow
      <3>1. r \in Nat
        OBVIOUS
      <3> QED BY <3>1 DEF Shift!Off, ActRow
    <2> HIDE DEF begun
    <2>3. act'[c] = begun /\ \A d \in Requests \ {c} : act'[d] = act[d]
      BY <2>1 DEF ShiftInv, ShiftShape
    <2>4. r \in RevisionsOf(p) /\ Permits(to, settlement[p][r].status)
      <3>1. Len(settlement[p]) \in Nat
        BY LenProperties DEF ShiftInv, ShiftShape
      <3>2. Permits(to, settlement[p][r].status)
        BY <2>1 DEF Permits, Shift!Permitted
      <3> QED BY <2>1, <3>1, <3>2 DEF RevisionsOf
    <2>5. (SettlingRow(c) /\ CalculatingShift(c) /\ ClosingShift(c))'
      BY <2>1, <2>2, <2>3, <2>4 DEF SettlingRow, CalculatingShift, ClosingShift, RevisionsOf
    <2>6. \A d \in Requests \ {c} : ShiftCallsApart(c, d)' /\ ShiftCallsApart(d, c)'
      BY <2>1, <2>2, <2>3 DEF ShiftCallsApart
    <2> QED BY <1>0, <2>1, <2>2, <2>5, <2>6, ShiftCall DEF ShiftInv, ShiftShape
  <1>3. ASSUME Shift!ReadClosing(c) PROVE ShiftInv'
    <2>0. PICK P : /\ P \subseteq Parties
                   /\ \A p \in P : settlement[p] # <<>> /\ Shift!Last(p).status = "closed"
                                  /\ Shift!Last(p).hash = ledger
                   /\ act' = [act EXCEPT ![c] = [Shift!Off EXCEPT !.at = "close shift", !.parties = P]]
      <3>1. PICK attribution : LET parties == Shift!Participants(attribution) IN
              /\ \A p \in parties : settlement[p] # <<>> /\ Shift!Last(p).status = "closed"
                                    /\ Shift!Fresh(Shift!Last(p))
              /\ act' = [act EXCEPT ![c] = [Shift!Off EXCEPT !.at = "close shift", !.parties = parties]]
        BY <1>3 DEF Shift!ReadClosing
      <3> QED BY <3>1, ParticipantsAre DEF ShiftInv, Shift!Fresh
    <2> DEFINE begun == [Shift!Off EXCEPT !.at = "close shift", !.parties = P]
    <2>1. /\ act' = [act EXCEPT ![c] = begun] /\ UNCHANGED <<turn, ledger, sold, assigned, service, settlement>>
          /\ \A d \in Requests : act[d].at \notin {"calculate", "close shift"}
      BY <1>3, <2>0 DEF Shift!ReadClosing, Shift!ShiftFree
    <2>2. begun.at = "close shift" /\ begun.parties = P /\ begun \in ActRow
      BY <2>0 DEF Shift!Off, ActRow
    <2> HIDE DEF begun
    <2>3. act'[c] = begun /\ \A d \in Requests \ {c} : act'[d] = act[d]
      BY <2>1 DEF ShiftInv, ShiftShape
    <2>4. AllClosed(P, ledger)
      <3> SUFFICES ASSUME NEW p \in P
                   PROVE  \E n \in RevisionsOf(p) : /\ IsNewest(p, n) /\ settlement[p][n].status = "closed"
                                                     /\ settlement[p][n].hash = ledger
        BY DEF AllClosed
      <3>0. p \in Parties
        BY <2>0
      <3>1. PICK n \in Nat : n = Len(settlement[p]) /\ n \in RevisionsOf(p)
        <4>1. settlement[p] \in Seq(Revision) /\ settlement[p] # <<>>
          BY <2>0, <3>0 DEF ShiftInv, ShiftShape
        <4>2. Len(settlement[p]) \in Nat \ {0}
          BY <4>1, EmptySeq
        <4> QED BY <4>2 DEF RevisionsOf
      <3>2. settlement[p][n].status = "closed" /\ settlement[p][n].hash = ledger
        BY <2>0, <3>1 DEF Shift!Last
      <3>3. settlement[p][n].key # None
        BY <3>0, <3>1, <3>2 DEF ShiftInv, ReopenedOnly
      <3> QED BY <3>1, <3>2, <3>3 DEF IsNewest, RevisionsOf
    <2>5. AllClosed(P, ledger)' /\ ledger \in Nat /\ ledger' = ledger
      BY <2>1, <2>4 DEF AllClosed, IsNewest, RevisionsOf, ShiftInv, ShiftShape, ShiftRowsOK
    <2>6. (SettlingRow(c) /\ CalculatingShift(c) /\ ClosingShift(c))'
      /\ \A d \in Requests \ {c} : ShiftCallsApart(c, d)' /\ ShiftCallsApart(d, c)'
      <3>1. ClosingShift(c)'
        BY <2>2, <2>3, <2>5 DEF ClosingShift
      <3> QED BY <2>1, <2>2, <2>3, <3>1 DEF SettlingRow, CalculatingShift, ShiftCallsApart
    <2> QED BY <1>0, <2>1, <2>2, <2>6, ShiftCall DEF ShiftInv, ShiftShape
  <1> QED BY <1>1, <1>2, <1>3

\* A calculation adds a revision to those it settles, under one key.
LEMMA CalculationWritten ==
  ASSUME ShiftInv, None \notin Calculations, NEW c \in Requests, Shift!WriteCalculation(c)
  PROVE  ShiftInv'
  <1> PICK k, P, row : /\ k = act[c].key /\ P = act[c].parties
                       /\ row = [p \in Parties |->
                             [status |-> IF act[c].service.confirms /\ p # Bucket THEN "awaiting_confirmation"
                                         ELSE "checked",
                              key |-> k, totals |-> act[c].seen, hash |-> ledger,
                              service |-> act[c].service, pool |-> act[c].pool]]
    OBVIOUS
  <1>1. /\ act[c].at = "calculate" /\ act' = [act EXCEPT ![c] = Shift!Off]
        /\ UNCHANGED <<turn, ledger, sold, assigned, service>>
        /\ settlement' = [p \in Parties |-> IF p \in P THEN Append(settlement[p], row[p]) ELSE settlement[p]]
    BY DEF Shift!WriteCalculation, Shift!Done, Shift!shiftRows
  <1>2. k \in Calculations /\ k # None /\ \A p \in Parties : row[p] \in Revision /\ row[p].key = k
    <2>1. /\ k \in Calculations /\ act[c].seen \in Nat /\ ledger \in Nat
          /\ act[c].service \in Services \cup {None} /\ act[c].pool \in SUBSET Parties
      BY <1>1 DEF ShiftInv, CalculatingShift, ShiftShape, ShiftRowsOK, ActRow
    <2> QED BY <2>1 DEF Revision
  <1>3. \A p \in Parties : /\ settlement[p] \in Seq(Revision)
                           /\ settlement'[p] = IF p \in P THEN Append(settlement[p], row[p]) ELSE settlement[p]
    BY <1>1 DEF ShiftInv, ShiftShape
  <1>4. \A p \in Parties : /\ settlement'[p] \in Seq(Revision)
                           /\ \A s \in RevisionsOf(p) : /\ s \in RevisionsOf(p)'
                                                         /\ settlement'[p][s] = settlement[p][s]
                           /\ \A s \in RevisionsOf(p)' :
                                 s \in RevisionsOf(p) \/ settlement'[p][s] = row[p]
    <2> SUFFICES ASSUME NEW p \in Parties
                 PROVE  /\ settlement'[p] \in Seq(Revision)
                        /\ \A s \in RevisionsOf(p) : /\ s \in RevisionsOf(p)'
                                                      /\ settlement'[p][s] = settlement[p][s]
                        /\ \A s \in RevisionsOf(p)' :
                              s \in RevisionsOf(p) \/ settlement'[p][s] = row[p]
      OBVIOUS
    <2>1. settlement[p] \in Seq(Revision) /\ row[p] \in Revision
      BY <1>2, <1>3
    <2>2. CASE p \in P
      <3>1. settlement'[p] = Append(settlement[p], row[p])
        BY <1>3, <2>2
      <3>2. /\ settlement'[p] \in Seq(Revision) /\ Len(settlement'[p]) = Len(settlement[p]) + 1
            /\ settlement'[p][Len(settlement[p]) + 1] = row[p]
            /\ \A s \in 1 .. Len(settlement[p]) : settlement'[p][s] = settlement[p][s]
        BY <2>1, <3>1, AppendProperties
      <3>3. Len(settlement[p]) \in Nat
        BY <2>1, LenProperties
      <3> QED BY <3>2, <3>3 DEF RevisionsOf
    <2>3. CASE p \notin P
      <3>1. settlement'[p] = settlement[p]
        BY <1>3, <2>3
      <3> QED BY <2>1, <3>1 DEF RevisionsOf
    <2> QED BY <2>2, <2>3
  <1>5. act'[c] = Shift!Off /\ act'[c].at = "idle" /\ \A d \in Requests \ {c} : act'[d] = act[d]
    BY <1>1, ActOff DEF ShiftInv, ShiftShape
  <1>6. ShiftShape'
    <2>1. settlement' \in [Parties -> Seq(Revision)] /\ act' \in [Requests -> ActRow]
      BY <1>1, <1>4, ActOff DEF ShiftInv, ShiftShape
    <2> QED BY <1>1, <2>1 DEF ShiftInv, ShiftShape, ShiftRowsOK
  <1>7. ReopenedOnly'
    <2> SUFFICES ASSUME NEW p \in Parties, NEW s \in RevisionsOf(p)', settlement'[p][s].key = None
                 PROVE  settlement'[p][s].status = "reopened"
      BY DEF ReopenedOnly
    <2>1. CASE s \in RevisionsOf(p)
      <3>1. settlement'[p][s] = settlement[p][s]
        BY <1>4, <2>1
      <3> QED BY <2>1, <3>1 DEF ShiftInv, ReopenedOnly
    <2>2. CASE settlement'[p][s] = row[p]
      BY <1>2, <2>2
    <2> QED BY <1>4, <2>1, <2>2
  <1>8. ASSUME NEW d \in Requests PROVE (SettlingRow(d) /\ CalculatingShift(d) /\ ClosingShift(d))'
    <2>1. CASE d = c
      BY <1>5, <2>1 DEF SettlingRow, CalculatingShift, ClosingShift
    <2>2. CASE d # c
      <3>1. act'[d] = act[d] /\ act[d].at # "close shift"
        BY <1>1, <1>5, <2>2 DEF ShiftInv, ShiftCallsApart
      <3>2. SettlingRow(d)'
        BY <1>4, <3>1 DEF ShiftInv, SettlingRow
      <3> QED BY <3>1, <3>2 DEF ShiftInv, CalculatingShift, ClosingShift
    <2> QED BY <2>1, <2>2
  <1>9. \A d, e \in Requests : ShiftCallsApart(d, e)'
    BY <1>5 DEF ShiftInv, ShiftCallsApart
  <1> QED BY <1>6, <1>7, <1>8, <1>9 DEF ShiftInv

\* The status of a row that is neither a reopening nor closed changes.
LEMMA StatusWritten ==
  ASSUME ShiftInv, UNCHANGED <<ledger, sold, assigned, service>>, NEW c \in Requests,
         act' = [act EXCEPT ![c] = Shift!Off],
         NEW p \in Parties, NEW r \in RevisionsOf(p), NEW to \in {"checked", "closed"},
         settlement[p][r].status \in {"awaiting_confirmation", "checked"},
         act[c].at = "settle", act[c].party = p, act[c].revision = r,
         settlement' = [settlement EXCEPT ![p] =
                          [settlement[p] EXCEPT ![r] = [settlement[p][r] EXCEPT !.status = to]]]
  PROVE  ShiftInv'
  <1> PICK row : row = [settlement[p][r] EXCEPT !.status = to]
    OBVIOUS
  <1>1. settlement[p] \in Seq(Revision) /\ r \in 1 .. Len(settlement[p])
    /\ settlement[p][r] \in Revision
    BY ElementOfSeq DEF ShiftInv, ShiftShape, RevisionsOf
  <1>2. row \in Revision /\ row.key = settlement[p][r].key /\ row.status = to
    /\ row.hash = settlement[p][r].hash
    BY <1>1 DEF Revision
  <1>3. /\ settlement'[p] = [settlement[p] EXCEPT ![r] = row]
        /\ \A q \in Parties \ {p} : settlement'[q] = settlement[q]
    BY DEF ShiftInv, ShiftShape
  <1>4. /\ settlement'[p] \in Seq(Revision) /\ Len(settlement'[p]) = Len(settlement[p])
        /\ \A s \in 1 .. Len(settlement[p]) :
                 settlement'[p][s] = IF s = r THEN row ELSE settlement[p][s]
    <2>1. /\ [settlement[p] EXCEPT ![r] = row] \in Seq(Revision)
          /\ Len([settlement[p] EXCEPT ![r] = row]) = Len(settlement[p])
          /\ \A s \in 1 .. Len(settlement[p]) :
                   [settlement[p] EXCEPT ![r] = row][s] = IF s = r THEN row ELSE settlement[p][s]
      BY <1>1, <1>2, ExceptSeq
    <2> QED BY <1>3, <2>1
  <1>5. \A q \in Parties : RevisionsOf(q)' = RevisionsOf(q)
    BY <1>3, <1>4 DEF RevisionsOf
  <1>6. \A q \in Parties : \A s \in RevisionsOf(q) :
           /\ settlement'[q][s].key = settlement[q][s].key
           /\ settlement'[q][s].hash = settlement[q][s].hash
           /\ settlement'[q][s] = settlement[q][s] \/ (q = p /\ s = r)
    BY <1>2, <1>3, <1>4 DEF RevisionsOf
  <1>7. \A q \in Parties : \A n \in RevisionsOf(q) : IsNewest(q, n)' = IsNewest(q, n)
    BY <1>5, <1>6 DEF IsNewest
  <1>8. act'[c] = Shift!Off /\ act'[c].at = "idle" /\ \A d \in Requests \ {c} : act'[d] = act[d]
    BY ActOff DEF ShiftInv, ShiftShape
  <1>9. ShiftShape'
    <2>1. settlement' \in [Parties -> Seq(Revision)]
      BY <1>3, <1>4 DEF ShiftInv, ShiftShape
    <2> QED BY <2>1, ActOff DEF ShiftInv, ShiftShape, ShiftRowsOK
  <1>10. ReopenedOnly'
    BY <1>5, <1>6 DEF ShiftInv, ReopenedOnly
  <1>11. ASSUME NEW P \in SUBSET Parties, NEW h, AllClosed(P, h) PROVE AllClosed(P, h)'
    <2> SUFFICES ASSUME NEW q \in P
                 PROVE  \E n \in RevisionsOf(q)' : /\ IsNewest(q, n)' /\ settlement'[q][n].status = "closed"
                                                   /\ settlement'[q][n].hash = h
      BY DEF AllClosed
    <2>1. PICK n \in RevisionsOf(q) : /\ IsNewest(q, n) /\ settlement[q][n].status = "closed"
                                      /\ settlement[q][n].hash = h
      BY <1>11 DEF AllClosed
    <2>2. n \in RevisionsOf(q)' /\ IsNewest(q, n)' /\ settlement'[q][n].hash = h
      BY <1>5, <1>6, <1>7, <2>1
    <2>3. settlement'[q][n].status = "closed"
      BY <1>6, <2>1
    <2> QED BY <2>2, <2>3
  <1>12. ASSUME NEW d \in Requests PROVE (SettlingRow(d) /\ CalculatingShift(d) /\ ClosingShift(d))'
    <2>1. CASE d = c
      BY <1>8, <2>1 DEF SettlingRow, CalculatingShift, ClosingShift
    <2>2. CASE d # c
      <3>1. act'[d] = act[d]
        BY <1>8, <2>2
      <3>2. SettlingRow(d)'
        <4> SUFFICES ASSUME act[d].at = "settle" PROVE SettlingRow(d)'
          BY <3>1 DEF SettlingRow
        <4>1. SettlingRow(d) /\ act[d].party \in Parties
          /\ act[d].revision \in RevisionsOf(act[d].party)
          BY DEF ShiftInv, SettlingRow
        <4>2. ~(act[d].party = p /\ act[d].revision = r)
          BY <2>2 DEF ShiftInv, ShiftCallsApart
        <4>3. /\ act[d].revision \in RevisionsOf(act[d].party)'
              /\ settlement'[act[d].party][act[d].revision] = settlement[act[d].party][act[d].revision]
          BY <1>5, <1>6, <4>1, <4>2
        <4> QED BY <3>1, <4>1, <4>3 DEF SettlingRow
      <3>3. ClosingShift(d)'
        BY <1>11, <3>1 DEF ShiftInv, ShiftShape, ActRow, ClosingShift
      <3> QED BY <3>1, <3>2, <3>3 DEF ShiftInv, CalculatingShift
    <2> QED BY <2>1, <2>2
  <1>13. ASSUME NEW d \in Requests, NEW e \in Requests PROVE ShiftCallsApart(d, e)'
    <2>1. CASE d # c /\ e # c
      BY <1>8, <2>1 DEF ShiftInv, ShiftCallsApart
    <2>2. CASE d = c \/ e = c
      BY <1>8, <2>2 DEF ShiftCallsApart
    <2> QED BY <2>1, <2>2
  <1> QED BY <1>9, <1>10, <1>12, <1>13 DEF ShiftInv

\* A settlement is reopened: a row follows, which no calculation made.
LEMMA ReopeningWritten ==
  ASSUME ShiftInv, UNCHANGED <<ledger, sold, assigned, service>>, NEW c \in Requests,
         act' = [act EXCEPT ![c] = Shift!Off],
         NEW p \in Parties, NEW r \in RevisionsOf(p),
         settlement' = [settlement EXCEPT ![p] =
                          Append(settlement[p], [settlement[p][r] EXCEPT !.status = "reopened", !.key = None])]
  PROVE  ShiftInv'
  <1> PICK row : row = [settlement[p][r] EXCEPT !.status = "reopened", !.key = None]
    OBVIOUS
  <1>1. settlement[p] \in Seq(Revision) /\ r \in 1 .. Len(settlement[p])
    /\ settlement[p][r] \in Revision
    BY ElementOfSeq DEF ShiftInv, ShiftShape, RevisionsOf
  <1>2. row \in Revision /\ row.key = None /\ row.status = "reopened" /\ Len(settlement[p]) \in Nat
    BY <1>1, LenProperties DEF Revision
  <1>3. /\ settlement'[p] = Append(settlement[p], row)
        /\ \A q \in Parties \ {p} : settlement'[q] = settlement[q]
    BY DEF ShiftInv, ShiftShape
  <1>4. /\ settlement'[p] \in Seq(Revision) /\ Len(settlement'[p]) = Len(settlement[p]) + 1
        /\ settlement'[p][Len(settlement[p]) + 1] = row
        /\ \A s \in 1 .. Len(settlement[p]) : settlement'[p][s] = settlement[p][s]
    BY <1>1, <1>2, <1>3, AppendProperties
  <1>5. \A q \in Parties : /\ \A s \in RevisionsOf(q) : s \in RevisionsOf(q)'
                           /\ \A s \in RevisionsOf(q)' : s \in RevisionsOf(q) \/ settlement'[q][s] = row
    BY <1>2, <1>3, <1>4 DEF RevisionsOf
  <1>6. \A q \in Parties : \A s \in RevisionsOf(q) : settlement'[q][s] = settlement[q][s]
    BY <1>3, <1>4 DEF RevisionsOf
  <1>7. \A q \in Parties : \A n \in RevisionsOf(q) : IsNewest(q, n) => IsNewest(q, n)'
    <2> SUFFICES ASSUME NEW q \in Parties, NEW n \in RevisionsOf(q), IsNewest(q, n)
          PROVE IsNewest(q, n)'
      OBVIOUS
    <2>1. n \in RevisionsOf(q)' /\ settlement'[q][n].key # None
      BY <1>5, <1>6 DEF IsNewest
    <2>2. ASSUME NEW s \in RevisionsOf(q)', s > n PROVE settlement'[q][s].key = None
      BY <1>2, <1>5, <1>6, <2>2 DEF IsNewest
    <2> QED BY <2>1, <2>2 DEF IsNewest
  <1>8. act'[c] = Shift!Off /\ act'[c].at = "idle" /\ \A d \in Requests \ {c} : act'[d] = act[d]
    BY ActOff DEF ShiftInv, ShiftShape
  <1>9. ShiftShape'
    <2>1. settlement' \in [Parties -> Seq(Revision)]
      BY <1>3, <1>4 DEF ShiftInv, ShiftShape
    <2> QED BY <2>1, ActOff DEF ShiftInv, ShiftShape, ShiftRowsOK
  <1>10. ReopenedOnly'
    <2> SUFFICES ASSUME NEW q \in Parties, NEW s \in RevisionsOf(q)', settlement'[q][s].key = None
                 PROVE  settlement'[q][s].status = "reopened"
      BY DEF ReopenedOnly
    <2>1. CASE s \in RevisionsOf(q)
      <3>1. settlement'[q][s] = settlement[q][s]
        BY <1>6, <2>1
      <3> QED BY <2>1, <3>1 DEF ShiftInv, ReopenedOnly
    <2>2. CASE settlement'[q][s] = row
      BY <1>2, <2>2
    <2> QED BY <1>5, <2>1, <2>2
  <1>11. ASSUME NEW P \in SUBSET Parties, NEW h, AllClosed(P, h) PROVE AllClosed(P, h)'
    <2> SUFFICES ASSUME NEW q \in P
                 PROVE  \E n \in RevisionsOf(q)' : /\ IsNewest(q, n)' /\ settlement'[q][n].status = "closed"
                                                   /\ settlement'[q][n].hash = h
      BY DEF AllClosed
    <2>1. PICK n \in RevisionsOf(q) : /\ IsNewest(q, n) /\ settlement[q][n].status = "closed"
                                      /\ settlement[q][n].hash = h
      BY <1>11 DEF AllClosed
    <2>2. /\ n \in RevisionsOf(q)' /\ IsNewest(q, n)' /\ settlement'[q][n].status = "closed"
          /\ settlement'[q][n].hash = h
      BY <1>5, <1>6, <1>7, <2>1
    <2> QED BY <2>2
  <1>12. ASSUME NEW d \in Requests PROVE (SettlingRow(d) /\ CalculatingShift(d) /\ ClosingShift(d))'
    <2>1. CASE d = c
      BY <1>8, <2>1 DEF SettlingRow, CalculatingShift, ClosingShift
    <2>2. CASE d # c
      <3>1. act'[d] = act[d]
        BY <1>8, <2>2
      <3>2. SettlingRow(d)'
        <4> SUFFICES ASSUME act[d].at = "settle" PROVE SettlingRow(d)'
          BY <3>1 DEF SettlingRow
        <4>1. SettlingRow(d) /\ act[d].party \in Parties
          /\ act[d].revision \in RevisionsOf(act[d].party)
          BY DEF ShiftInv, SettlingRow
        <4>2. /\ act[d].revision \in RevisionsOf(act[d].party)'
              /\ settlement'[act[d].party][act[d].revision] = settlement[act[d].party][act[d].revision]
          <5> PICK q, n : q = act[d].party /\ n = act[d].revision
            OBVIOUS
          <5>1. q \in Parties /\ n \in RevisionsOf(q)
            BY <4>1
          <5>2. n \in RevisionsOf(q)' /\ settlement'[q][n] = settlement[q][n]
            BY <1>5, <1>6, <5>1
          <5> QED BY <3>1, <5>2
        <4> QED BY <3>1, <4>1, <4>2 DEF SettlingRow
      <3>3. ClosingShift(d)'
        BY <1>11, <3>1 DEF ShiftInv, ShiftShape, ActRow, ClosingShift
      <3> QED BY <3>1, <3>2, <3>3 DEF ShiftInv, CalculatingShift
    <2> QED BY <2>1, <2>2
  <1>13. ASSUME NEW d \in Requests, NEW e \in Requests PROVE ShiftCallsApart(d, e)'
    <2>1. CASE d # c /\ e # c
      BY <1>8, <2>1 DEF ShiftInv, ShiftCallsApart
    <2>2. CASE d = c \/ e = c
      BY <1>8, <2>2 DEF ShiftCallsApart
    <2> QED BY <2>1, <2>2
  <1> QED BY <1>9, <1>10, <1>12, <1>13 DEF ShiftInv

\* A transition writes the revision its call holds, or adds a reopened one.
LEMMA TransitionWritten == ASSUME ShiftInv, NEW c \in Requests, Shift!WriteTransition(c) PROVE ShiftInv'
  <1> PICK p, r, to : p = act[c].party /\ r = act[c].revision
    /\ to = (IF act[c].to = "confirmed" THEN "checked" ELSE act[c].to)
    OBVIOUS
  <1>1. /\ act[c].at = "settle" /\ act' = [act EXCEPT ![c] = Shift!Off]
        /\ UNCHANGED <<turn, ledger, sold, assigned, service>>
        /\ \/ to # "reopened"
              /\ settlement' = [settlement EXCEPT ![p] =
                                  [settlement[p] EXCEPT ![r] = [settlement[p][r] EXCEPT !.status = to]]]
           \/ settlement' = [settlement EXCEPT ![p] =
                               Append(settlement[p], [settlement[p][r] EXCEPT !.status = "reopened", !.key = None])]
           \/ settlement' = settlement
    BY DEF Shift!WriteTransition, Shift!Done, Shift!shiftRows
  <1>2. p \in Parties /\ r \in RevisionsOf(p)
    /\ act[c].to \in {"confirmed", "checked", "closed", "reopened"}
    /\ Permits(act[c].to, settlement[p][r].status)
    BY <1>1 DEF ShiftInv, SettlingRow
  <1>3. CASE to # "reopened"
              /\ settlement' = [settlement EXCEPT ![p] =
                                  [settlement[p] EXCEPT ![r] = [settlement[p][r] EXCEPT !.status = to]]]
    <2>1. to \in {"checked", "closed"}
      /\ settlement[p][r].status \in {"awaiting_confirmation", "checked"}
      BY <1>2, <1>3 DEF Permits
    <2> QED BY <1>1, <1>2, <1>3, <2>1, StatusWritten
  <1>4. CASE settlement' = [settlement EXCEPT ![p] =
                              Append(settlement[p], [settlement[p][r] EXCEPT !.status = "reopened", !.key = None])]
    BY <1>1, <1>2, <1>4, ReopeningWritten
  <1>5. CASE settlement' = settlement
    BY <1>1, <1>5, ShiftCallEnds
  <1> QED BY <1>1, <1>3, <1>4, <1>5

\* At first no calculation is recorded, so ShiftInv holds.
LEMMA ShiftStarts ==
  Shift!Init => ShiftInv
  <1> SUFFICES ASSUME Shift!Init PROVE ShiftInv
    OBVIOUS
  <1>1. /\ turn = "open" /\ ledger = 0 /\ service \in Services /\ sold = {} /\ assigned = {}
        /\ settlement = [p \in Parties |-> <<>>]
        /\ act = [c \in Requests |-> Shift!Off]
    BY DEF Shift!Init
  <1>2. ShiftShape
    BY <1>1, ActOff, EmptySeq DEF ShiftShape, ShiftRowsOK
  <1>3. ReopenedOnly
    BY <1>1, EmptySeq DEF ReopenedOnly, RevisionsOf
  <1>4. (\A c \in Requests : SettlingRow(c) /\ CalculatingShift(c) /\ ClosingShift(c)) /\ \A c,
    d \in Requests : ShiftCallsApart(c, d)
    BY <1>1, ActOff DEF SettlingRow, CalculatingShift, ClosingShift, ShiftCallsApart
  <1> QED BY <1>2, <1>3, <1>4 DEF ShiftInv

\* Every step keeps ShiftInv.
LEMMA ShiftInductive ==
  ASSUME None \notin Calculations, Bucket \in Parties, MaxRevisions \in Nat,
         ItemKinds \subseteq [responsible : Parties, author : Parties]
  PROVE  ShiftInv /\ [Shift!Next]_Shift!settlementVars => ShiftInv'
  <1> USE DEF Shift!shiftRows
  <1>1. ASSUME ShiftInv, UNCHANGED <<settlement, act>>, ShiftRowsOK' PROVE ShiftInv'
    <2>1. ShiftShape' /\ ReopenedOnly'
      BY <1>1 DEF ShiftInv, ShiftShape, ReopenedOnly, RevisionsOf
    <2>2. \A P, h : AllClosed(P, h) => AllClosed(P, h)'
      BY <1>1 DEF AllClosed, IsNewest, RevisionsOf
    <2>3. \A c \in Requests : (SettlingRow(c) /\ CalculatingShift(c) /\ ClosingShift(c))'
      BY <1>1, <2>2 DEF ShiftInv, SettlingRow, CalculatingShift, ClosingShift, RevisionsOf
    <2>4. \A c, d \in Requests : ShiftCallsApart(c, d)'
      BY <1>1 DEF ShiftInv, ShiftCallsApart
    <2> QED BY <2>1, <2>3, <2>4 DEF ShiftInv
  <1>2. ASSUME ShiftInv, UNCHANGED Shift!settlementVars PROVE ShiftInv'
    BY <1>1, <1>2 DEF Shift!settlementVars, ShiftInv, ShiftShape, ShiftRowsOK
  <1>3. ASSUME ShiftInv, Shift!Movement \/ Shift!Assign \/ Shift!SavePolicy PROVE ShiftInv'
    <2>1. ShiftRowsOK
      BY <1>3 DEF ShiftInv, ShiftShape
    <2>2. ShiftRowsOK' /\ settlement' = settlement /\ act' = act
      <3>1. CASE Shift!Movement
        <4>1. ledger' = ledger + 1 /\ UNCHANGED <<assigned, service, settlement, act>>
          BY <3>1 DEF Shift!Movement
        <4>2. sold' \subseteq [responsible : Parties, author : Parties]
          BY <2>1, <3>1 DEF Shift!Movement, ShiftRowsOK
        <4> QED BY <2>1, <4>1, <4>2 DEF ShiftRowsOK
      <3>2. CASE Shift!Assign
        BY <2>1, <3>2 DEF Shift!Assign, Shift!Waiters, ShiftRowsOK
      <3>3. CASE Shift!SavePolicy
        BY <2>1, <3>3 DEF Shift!SavePolicy, ShiftRowsOK
      <3> QED BY <1>3, <3>1, <3>2, <3>3
    <2> QED BY <1>1, <1>3, <2>2
  <1>4. ASSUME ShiftInv, NEW c \in Requests, Shift!WriteClosing(c) \/ Shift!Fail(c) PROVE ShiftInv'
    BY <1>4, ShiftCallEnds DEF Shift!WriteClosing, Shift!Fail, Shift!Done
  <1> QED BY <1>2, <1>3, <1>4, ShiftReads, CalculationWritten, TransitionWritten DEF Shift!Next

\* Where ShiftInv holds, a shift closes on the newest calculations.
LEMMA ShiftClosesLast ==
  ShiftInv /\ [Shift!Next]_Shift!settlementVars => Shift!ClosesOnNewest
  <1> SUFFICES ASSUME ShiftInv, [Shift!Next]_Shift!settlementVars, turn = "open", turn' = "closed"
               PROVE  \E c \in Requests : /\ act[c].at = "close shift"
                        /\ \A p, q \in act[c].parties : /\ Shift!Newest(p).status = "closed"
                                                        /\ Shift!Newest(p).hash = Shift!Newest(q).hash
    BY DEF Shift!ClosesOnNewest
  <1>1. PICK c \in Requests : Shift!WriteClosing(c)
    BY DEF Shift!Next, Shift!settlementVars, Shift!shiftRows, Shift!Movement, Shift!Assign, Shift!SavePolicy,
           Shift!ReadCalculation, Shift!ReadTransition, Shift!WriteCalculation, Shift!WriteTransition,
           Shift!ReadClosing, Shift!Fail
  <1>2. act[c].at = "close shift"
    BY <1>1 DEF Shift!WriteClosing
  <1>3. PICK h \in Nat : AllClosed(act[c].parties, h)
    BY <1>2 DEF ShiftInv, ClosingShift
  <1>4. act[c].parties \subseteq Parties
    BY DEF ShiftInv, ShiftShape, ActRow
  <1>5. ASSUME NEW p \in act[c].parties
        PROVE  Shift!Newest(p).status = "closed" /\ Shift!Newest(p).hash = h
    <2>1. PICK n \in RevisionsOf(p) : /\ IsNewest(p, n) /\ settlement[p][n].status = "closed"
                                      /\ settlement[p][n].hash = h
      BY <1>3 DEF AllClosed
    <2>2. Shift!Newest(p) = settlement[p][n]
      BY <1>4, <2>1, NewestIs DEF ShiftInv
    <2> QED BY <2>1, <2>2
  <1> QED BY <1>2, <1>5

\* A shift closes on one ledger, which the newest calculated and closed revision
\* of everyone who had to settle is of, however calculations, transitions,
\* assignments, sales and closings interleave.
THEOREM ShiftClosesOnNewest ==
  ASSUME None \notin Calculations, Bucket \in Parties, MaxRevisions \in Nat,
         ItemKinds \subseteq [responsible : Parties, author : Parties]
  PROVE  Shift!Spec => [][Shift!ClosesOnNewest]_Shift!settlementVars
  <1> QED BY ShiftStarts, ShiftInductive, ShiftClosesLast, PTL DEF Shift!Spec
-----------------------------------------------------------------------------
(*                        Commissions (Commissions)                        *)

AccrualRow == [status : {"calculated", "approved", "rejected", "partially_paid", "paid", "reversed"},
               calculated : Nat, approved : Nat, paid : Nat]
AccrualNames == Policies \X Periods \X (1 .. MaxRevisions)
RecordRow == [accrual : AccrualNames \cup {None}, amount : Nat, reversed : BOOLEAN]
DoingRow == [at : {"idle", "activate", "accrue", "approve", "reject", "pay", "reverse"},
             policy : Policies \cup {None},
             period : Periods \cup {None}, accrual : AccrualNames \cup {None},
               record : Records \cup {None}, amount : Nat, paid : Nat]

DuesShape ==
    /\ accrual \in [Policies -> [Periods -> Seq(AccrualRow)]]
    /\ record \in [Records -> RecordRow] /\ doing \in [Requests -> DoingRow]

PaymentsFor(records, a) == {n \in Records : records[n].accrual = a /\ ~records[n].reversed}
PaidOf(records, a) == AmountOf(records, PaymentsFor(records, a))
IsVoid(row) == row.status \in {"rejected", "reversed"}

\* What an accrual says, and all but the newest of a period are void.
AccrualSays(a, row, records) ==
    /\ PaidOf(records, a) = row.paid /\ row.paid <= row.approved
    /\ row.status = "calculated" \/ IsVoid(row) => row.paid = 0
OlderAccrual(a) == a[3] < Len(accrual[a[1]][a[2]])
AccrualAgrees(a) == AccrualSays(a, Dues!Row(a), record) /\ (OlderAccrual(a) => IsVoid(Dues!Row(a)))

RecordAgrees(n) == /\ record[n].accrual \in Dues!Accruals \cup {None}
                   /\ record[n].accrual = None <=> record[n] = Dues!NoRecord

\* What a call has read under its locks.
Accruing(c) == doing[c].at = "accrue" =>
    /\ doing[c].policy \in Policies /\ doing[c].period \in Periods /\ doing[c].policy # None
    /\ Len(accrual[doing[c].policy][doing[c].period]) < MaxRevisions
    /\ \A a \in Dues!Accruals : a[1] = doing[c].policy /\ a[2] = doing[c].period => IsVoid(Dues!Row(a))
LockingAccrual(c) == doing[c].at \in {"approve", "reject", "pay", "reverse"} =>
    doing[c].accrual \in Dues!Accruals /\ doing[c].accrual # None
DecidingAccrual(c) == doing[c].at \in {"approve", "reject"} =>
    Dues!Row(doing[c].accrual).status = "calculated"
PayingAccrual(c) == doing[c].at = "pay" =>
    /\ doing[c].record \in Records /\ doing[c].record # None /\ record[doing[c].record] = Dues!NoRecord
    /\ Dues!Row(doing[c].accrual).status \in {"approved", "partially_paid"}
    /\ doing[c].paid = PaidOf(record, doing[c].accrual) + doing[c].amount
    /\ doing[c].paid <= Dues!Row(doing[c].accrual).approved
ReversingPayment(c) == doing[c].at = "reverse" =>
    /\ doing[c].record \in Records /\ doing[c].record # None
    /\ record[doing[c].record].accrual = doing[c].accrual /\ ~record[doing[c].record].reversed
DuesRead(c) ==
    /\ Accruing(c) /\ LockingAccrual(c) /\ DecidingAccrual(c)
    /\ PayingAccrual(c) /\ ReversingPayment(c)

AccrualsApart(c, d) == c # d =>
    /\ doing[c].accrual # None => doing[c].accrual # doing[d].accrual
    /\ doing[c].record # None => doing[c].record # doing[d].record
    /\ doing[c].policy # None => doing[c].policy # doing[d].policy

DuesInv ==
    /\ DuesShape
    /\ \A a \in Dues!Accruals : AccrualAgrees(a)
    /\ \A n \in Records : RecordAgrees(n)
    /\ \A c \in Requests : DuesRead(c)
    /\ \A c, d \in Requests : AccrualsApart(c, d)

\* The invariant implies the property, in terms of the sums of records.
LEMMA PeriodPaidOnceIs ==
  /\ \A a : Dues!Paid(a) = PaidOf(record, a)
  /\ DuesInv => Dues!PeriodPaidOnce
  <1>1. \A a : Dues!Paid(a) = PaidOf(record, a)
    BY DEF Dues!Paid, Dues!PaymentsOf, PaidOf, PaymentsFor, AmountOf, Dues!MapThenSumSet,
      Dues!MapThenFoldSet, MapThenSumSet, MapThenFoldSet
  <1>2. ASSUME DuesInv, NEW a \in Dues!Accruals
        PROVE  Dues!Paid(a) = Dues!Row(a).paid /\ Dues!Paid(a) <= Dues!Row(a).approved
    BY <1>1, <1>2 DEF DuesInv, AccrualAgrees, AccrualSays
  <1>3. ASSUME DuesInv, NEW a \in Dues!Accruals, Dues!Paid(a) > 0 PROVE a[3] = Len(accrual[a[1]][a[2]])
    <2>1. ~OlderAccrual(a)
      BY <1>2, <1>3 DEF DuesInv, AccrualAgrees, AccrualSays
    <2>2. a[3] \in Int /\ a[3] <= Len(accrual[a[1]][a[2]]) /\ a[1] \in Policies /\ a[2] \in Periods
      BY DEF Dues!Accruals
    <2>3. Len(accrual[a[1]][a[2]]) \in Nat
      BY <1>3, <2>2, LenProperties DEF DuesInv, DuesShape
    <2> QED BY <2>1, <2>2, <2>3 DEF OlderAccrual
  <1> QED BY <1>1, <1>2, <1>3 DEF Dues!PeriodPaidOnce

\* A call at rest has the shape of any call and holds nothing.
LEMMA DuesOff == /\ Dues!Off.at = "idle" /\ Dues!Off.accrual = None /\ Dues!Off.record = None
                 /\ Dues!Off.policy = None
                 /\ Dues!Off \in DoingRow
  BY DEF Dues!Off, DoingRow

\* A call begins or ends, and accruals and records stay.
LEMMA DuesCall ==
  ASSUME DuesInv, accrual' = accrual, record' = record, NEW c \in Requests, NEW begun \in DoingRow,
         doing' = [doing EXCEPT ![c] = begun],
         DuesRead(c)', \A d \in Requests \ {c} : AccrualsApart(c, d)' /\ AccrualsApart(d, c)'
  PROVE  DuesInv'
  <1>1. doing'[c] = begun /\ \A d \in Requests \ {c} : doing'[d] = doing[d]
    BY DEF DuesInv, DuesShape
  <1>2. DuesShape'
    BY DEF DuesInv, DuesShape
  <1>3. Dues!Accruals' = Dues!Accruals /\ \A a : Dues!Row(a)' = Dues!Row(a)
    BY DEF Dues!Accruals, Dues!Row
  <1>4. \A a \in Dues!Accruals' : AccrualAgrees(a)'
    BY <1>3 DEF DuesInv, AccrualAgrees, OlderAccrual
  <1>5. \A n \in Records : RecordAgrees(n)'
    BY <1>3 DEF DuesInv, RecordAgrees, Dues!NoRecord
  <1>6. ASSUME NEW d \in Requests PROVE DuesRead(d)'
    <2>1. CASE d # c
      <3>1. doing'[d] = doing[d] /\ Dues!Row(doing[d].accrual)' = Dues!Row(doing[d].accrual)
        BY <1>1, <2>1 DEF Dues!Row
      <3>2. DuesRead(d)
        BY DEF DuesInv
      <3>3. Accruing(d)' /\ LockingAccrual(d)' /\ DecidingAccrual(d)'
        BY <1>3, <3>1, <3>2 DEF DuesRead, Accruing, LockingAccrual, DecidingAccrual
      <3>4. PayingAccrual(d)' /\ ReversingPayment(d)'
        BY <1>3, <3>1, <3>2 DEF DuesRead, PayingAccrual, ReversingPayment, Dues!NoRecord
      <3> QED BY <3>3, <3>4 DEF DuesRead
    <2> QED BY <2>1
  <1>7. ASSUME NEW d \in Requests, NEW e \in Requests PROVE AccrualsApart(d, e)'
    <2>1. CASE d # c /\ e # c
      BY <1>1, <2>1 DEF DuesInv, AccrualsApart
    <2>2. CASE d = e
      BY <2>2 DEF AccrualsApart
    <2> QED BY <2>1, <2>2
  <1> QED BY <1>2, <1>4, <1>5, <1>6, <1>7 DEF DuesInv

\* A call that gives up leaves the others as they are.
LEMMA DuesCallEnds ==
  ASSUME DuesInv, accrual' = accrual, record' = record, NEW c \in Requests,
         doing' = [doing EXCEPT ![c] = Dues!Off]
  PROVE  DuesInv'
  <1>1. doing'[c] = Dues!Off /\ \A d \in Requests \ {c} : doing'[d] = doing[d]
    BY DEF DuesInv, DuesShape
  <1>2. DuesRead(c)'
    BY <1>1, DuesOff DEF DuesRead, Accruing, LockingAccrual, DecidingAccrual, PayingAccrual,
      ReversingPayment
  <1>3. \A d \in Requests \ {c} : AccrualsApart(c, d)' /\ AccrualsApart(d, c)'
    BY <1>1, DuesOff DEF AccrualsApart
  <1> QED BY <1>2, <1>3, DuesOff, DuesCall

\* An accrual that is there is a row.
LEMMA AccrualRowIs ==
  ASSUME DuesInv, MaxRevisions \in Nat, NEW a \in Dues!Accruals
  PROVE  /\ a \in AccrualNames /\ a[1] \in Policies /\ a[2] \in Periods
         /\ a[3] \in 1 .. Len(accrual[a[1]][a[2]])
         /\ accrual[a[1]][a[2]] \in Seq(AccrualRow) /\ Dues!Row(a) \in AccrualRow
  <1>1. a \in AccrualNames /\ a[1] \in Policies /\ a[2] \in Periods /\ a[3] \in 1 .. MaxRevisions
    /\ a[3] <= Len(accrual[a[1]][a[2]])
    BY DEF Dues!Accruals, AccrualNames
  <1>2. accrual[a[1]][a[2]] \in Seq(AccrualRow) /\ Len(accrual[a[1]][a[2]]) \in Nat
    BY <1>1, LenProperties DEF DuesInv, DuesShape
  <1> QED BY <1>1, <1>2, ElementOfSeq DEF Dues!Row

\* What a call that decides, pays or reverses has just read is so.
LEMMA DuesReads ==
  ASSUME DuesInv, MaxRevisions \in Nat, PayAmounts \subseteq Nat, NEW c \in Requests, NEW a \in Dues!Accruals,
         \/ \E at \in {"approve", "reject"}, v \in {0} \cup PayAmounts : Dues!ReadDecision(c, a, at, v)
         \/ \E n \in Records, v \in PayAmounts : Dues!ReadPayment(c, n, a, v)
         \/ \E n \in Records : Dues!ReadReversal(c, n) /\ record[n].accrual = a
  PROVE  DuesInv'
  <1> USE DEF Dues!Begin
  <1> PICK row : row = Dues!Row(a)
    OBVIOUS
  <1>1. a \in AccrualNames /\ Dues!Accruals' = {b \in AccrualNames : b[3] <= Len(accrual'[b[1]][b[2]])}
    BY DEF Dues!Accruals, AccrualNames
  <1>2. ASSUME NEW at \in {"approve", "reject"}, NEW v \in {0} \cup PayAmounts,
    Dues!ReadDecision(c, a, at, v) PROVE DuesInv'
    <2> DEFINE begun == [Dues!Off EXCEPT !.at = at, !.accrual = a, !.amount = v]
    <2>1. /\ doing[c] = Dues!Off /\ doing' = [doing EXCEPT ![c] = begun]
          /\ UNCHANGED <<policy, accrual, record>>
          /\ row.status = "calculated" /\ \A d \in Requests : doing[d].accrual # a
      BY <1>2 DEF Dues!ReadDecision, Dues!AccrualFree
    <2>2. v \in Nat
      OBVIOUS
    <2>3. begun.at = at /\ begun.accrual = a /\ begun.record = None /\ begun.policy = None
      /\ begun \in DoingRow
      BY <1>1, <2>2 DEF Dues!Off, DoingRow
    <2>4. a # None
      BY <2>1, DuesOff
    <2> HIDE DEF begun
    <2>5. doing'[c] = begun /\ \A d \in Requests \ {c} : doing'[d] = doing[d]
      BY <2>1 DEF DuesInv, DuesShape
    <2>6. Dues!Row(a)' = row /\ Dues!Accruals' = Dues!Accruals
      BY <2>1 DEF Dues!Row, Dues!Accruals
    <2>7. DuesRead(c)'
      BY <2>1, <2>3, <2>4, <2>5, <2>6 DEF DuesRead, Accruing, LockingAccrual, DecidingAccrual,
        PayingAccrual, ReversingPayment
    <2>8. \A d \in Requests \ {c} : AccrualsApart(c, d)' /\ AccrualsApart(d, c)'
      BY <2>1, <2>3, <2>5 DEF AccrualsApart
    <2> QED BY <2>1, <2>3, <2>7, <2>8, DuesCall
  <1>3. ASSUME NEW n \in Records, NEW v \in PayAmounts, Dues!ReadPayment(c, n, a, v) PROVE DuesInv'
    <2> PICK sum : sum = Dues!Paid(a) + v
      OBVIOUS
    <2> DEFINE begun == [Dues!Off EXCEPT !.at = "pay",
      !.accrual = a, !.record = n, !.amount = v, !.paid = sum]
    <2>1. /\ doing[c] = Dues!Off /\ doing' = [doing EXCEPT ![c] = begun]
          /\ UNCHANGED <<policy, accrual, record>>
          /\ row.status \in {"approved", "partially_paid"} /\ record[n] = Dues!NoRecord
          /\ sum <= row.approved
          /\ \A d \in Requests : doing[d].accrual # a /\ doing[d].record # n
      BY <1>3 DEF Dues!ReadPayment, Dues!AccrualFree
    <2>2. v \in Nat /\ sum \in Nat /\ sum = PaidOf(record, a) + v
      <3>1. sum = row.paid + v /\ sum = PaidOf(record, a) + v
        BY PeriodPaidOnceIs DEF DuesInv, AccrualAgrees, AccrualSays
      <3>2. row.paid \in Nat
        BY AccrualRowIs DEF AccrualRow
      <3> QED BY <3>1, <3>2
    <2>3. begun.at = "pay" /\ begun.accrual = a /\ begun.record = n /\ begun.amount = v /\ begun.paid = sum
      /\ begun.policy = None /\ begun \in DoingRow
      BY <1>1, <2>2 DEF Dues!Off, DoingRow
    <2>4. a # None /\ n # None
      BY <2>1, DuesOff
    <2> HIDE DEF begun
    <2>5. doing'[c] = begun /\ \A d \in Requests \ {c} : doing'[d] = doing[d]
      BY <2>1 DEF DuesInv, DuesShape
    <2>6. Dues!Row(a)' = row /\ Dues!Accruals' = Dues!Accruals /\ PaidOf(record', a) = PaidOf(record, a)
      BY <2>1 DEF Dues!Row, Dues!Accruals
    <2>7. Accruing(c)' /\ LockingAccrual(c)' /\ DecidingAccrual(c)' /\ ReversingPayment(c)'
      BY <2>1, <2>3, <2>4, <2>5, <2>6 DEF Accruing, LockingAccrual, DecidingAccrual, ReversingPayment
    <2>8. PayingAccrual(c)'
      BY <2>1, <2>2, <2>3, <2>4, <2>5, <2>6 DEF PayingAccrual, Dues!NoRecord
    <2>9. \A d \in Requests \ {c} : AccrualsApart(c, d)' /\ AccrualsApart(d, c)'
      BY <2>1, <2>3, <2>5 DEF AccrualsApart
    <2> QED BY <2>1, <2>3, <2>7, <2>8, <2>9, DuesCall DEF DuesRead
  <1>4. ASSUME NEW n \in Records, Dues!ReadReversal(c, n), record[n].accrual = a PROVE DuesInv'
    <2> DEFINE begun == [Dues!Off EXCEPT !.at = "reverse", !.accrual = a, !.record = n]
    <2>1. /\ doing[c] = Dues!Off /\ doing' = [doing EXCEPT ![c] = begun]
          /\ UNCHANGED <<policy, accrual, record>>
          /\ ~record[n].reversed /\ \A d \in Requests : doing[d].accrual # a /\ doing[d].record # n
      BY <1>4 DEF Dues!ReadReversal, Dues!AccrualFree
    <2>2. begun.at = "reverse" /\ begun.accrual = a /\ begun.record = n /\ begun.policy = None
      /\ begun \in DoingRow
      BY <1>1 DEF Dues!Off, DoingRow
    <2>3. a # None /\ n # None
      BY <2>1, DuesOff
    <2> HIDE DEF begun
    <2>4. doing'[c] = begun /\ \A d \in Requests \ {c} : doing'[d] = doing[d]
      BY <2>1 DEF DuesInv, DuesShape
    <2>5. Dues!Accruals' = Dues!Accruals
      BY <2>1 DEF Dues!Accruals
    <2>6. DuesRead(c)'
      BY <1>4, <2>1, <2>2, <2>3, <2>4, <2>5 DEF DuesRead, Accruing, LockingAccrual, DecidingAccrual,
        PayingAccrual, ReversingPayment
    <2>7. \A d \in Requests \ {c} : AccrualsApart(c, d)' /\ AccrualsApart(d, c)'
      BY <2>1, <2>2, <2>4 DEF AccrualsApart
    <2> QED BY <2>1, <2>2, <2>6, <2>7, DuesCall
  <1> QED BY <1>2, <1>3, <1>4

\* What a call that activates a policy or accrues for a period has read is so.
LEMMA AccrualReads ==
  ASSUME DuesInv, MaxRevisions \in Nat, PayAmounts \subseteq Nat, NEW c \in Requests, NEW p \in Policies,
         Dues!ReadActivation(c, p) \/ \E t \in Periods, v \in PayAmounts : Dues!ReadAccrual(c, p, t, v)
  PROVE  DuesInv'
  <1> USE DEF Dues!Begin
  <1>1. ASSUME Dues!ReadActivation(c, p) PROVE DuesInv'
    <2> DEFINE begun == [Dues!Off EXCEPT !.at = "activate", !.policy = p]
    <2>1. /\ doing' = [doing EXCEPT ![c] = begun] /\ UNCHANGED <<policy, accrual, record>>
          /\ \A d \in Requests : doing[d].policy # p
      BY <1>1 DEF Dues!ReadActivation, Dues!PolicyFree
    <2>2. begun.at = "activate" /\ begun.accrual = None /\ begun.record = None /\ begun.policy = p
      /\ begun \in DoingRow
      BY DEF Dues!Off, DoingRow
    <2> HIDE DEF begun
    <2>3. doing'[c] = begun /\ \A d \in Requests \ {c} : doing'[d] = doing[d]
      BY <2>1 DEF DuesInv, DuesShape
    <2>4. DuesRead(c)'
      BY <2>2, <2>3 DEF DuesRead, Accruing, LockingAccrual, DecidingAccrual, PayingAccrual,
        ReversingPayment
    <2>5. \A d \in Requests \ {c} : AccrualsApart(c, d)' /\ AccrualsApart(d, c)'
      BY <2>1, <2>2, <2>3 DEF AccrualsApart
    <2> QED BY <2>1, <2>2, <2>4, <2>5, DuesCall
  <1>2. ASSUME NEW t \in Periods, NEW v \in PayAmounts, Dues!ReadAccrual(c, p, t, v) PROVE DuesInv'
    <2> DEFINE begun == [Dues!Off EXCEPT !.at = "accrue", !.policy = p, !.period = t, !.amount = v]
    <2>1. /\ doing[c] = Dues!Off /\ doing' = [doing EXCEPT ![c] = begun]
          /\ UNCHANGED <<policy, accrual, record>>
          /\ \A d \in Requests : doing[d].policy # p /\ Len(accrual[p][t]) < MaxRevisions
          /\ accrual[p][t] # <<>> => IsVoid(accrual[p][t][Len(accrual[p][t])])
      BY <1>2 DEF Dues!ReadAccrual, Dues!PolicyFree, Dues!Void, IsVoid
    <2>2. begun.at = "accrue" /\ begun.accrual = None /\ begun.record = None /\ begun.policy = p
      /\ begun.period = t /\ begun \in DoingRow
      BY DEF Dues!Off, DoingRow
    <2>3. p # None
      BY <2>1, DuesOff
    <2> HIDE DEF begun
    <2>4. doing'[c] = begun /\ \A d \in Requests \ {c} : doing'[d] = doing[d]
      BY <2>1 DEF DuesInv, DuesShape
    <2>5. ASSUME NEW a \in Dues!Accruals, a[1] = p, a[2] = t PROVE IsVoid(Dues!Row(a))
      <3>1. a[3] \in 1 .. Len(accrual[p][t]) /\ accrual[p][t] \in Seq(AccrualRow)
        /\ Len(accrual[p][t]) \in Nat
        BY <2>5, AccrualRowIs, LenProperties
      <3>2. CASE OlderAccrual(a)
        BY <3>2 DEF DuesInv, AccrualAgrees
      <3>3. CASE a[3] = Len(accrual[p][t])
        BY <2>1, <2>5, <3>1, <3>3, EmptySeq DEF Dues!Row
      <3> QED BY <2>5, <3>1, <3>2, <3>3 DEF OlderAccrual
    <2>6. Dues!Accruals' = Dues!Accruals /\ \A a : Dues!Row(a)' = Dues!Row(a)
      BY <2>1 DEF Dues!Accruals, Dues!Row
    <2>7. Accruing(c)'
      BY <2>1, <2>2, <2>3, <2>4, <2>5, <2>6 DEF Accruing
    <2>8. DuesRead(c)'
      BY <2>2, <2>4, <2>7 DEF DuesRead, LockingAccrual, DecidingAccrual, PayingAccrual, ReversingPayment
    <2>9. \A d \in Requests \ {c} : AccrualsApart(c, d)' /\ AccrualsApart(d, c)'
      BY <2>1, <2>2, <2>4 DEF AccrualsApart
    <2> QED BY <2>1, <2>2, <2>8, <2>9, DuesCall
  <1> QED BY <1>1, <1>2

\* A revision follows.
RevisionFollows(new, p, t, row) ==
    /\ Len(accrual[p][t]) < MaxRevisions /\ new = <<p, t, Len(accrual[p][t]) + 1>>
    /\ accrual' = [accrual EXCEPT ![p][t] = Append(@, row)]

RevisionIsNewest(new, p, t, row) ==
    /\ accrual' \in [Policies -> [Periods -> Seq(AccrualRow)]]
    /\ Dues!Accruals' = Dues!Accruals \cup {new} /\ new \notin Dues!Accruals
    /\ Dues!Row(new)' = row /\ \A a \in Dues!Accruals : Dues!Row(a)' = Dues!Row(a)
    /\ ~OlderAccrual(new)'
    /\ \A a \in Dues!Accruals :
          OlderAccrual(a)' => OlderAccrual(a) \/ (a[1] = p /\ a[2] = t)

\* A revision that follows is the newest of its period, and the others stay.
LEMMA RevisionAdded ==
  ASSUME DuesInv, MaxRevisions \in Nat, NEW p \in Policies, NEW t \in Periods, NEW row \in AccrualRow,
         NEW new, RevisionFollows(new, p, t, row)
  PROVE  RevisionIsNewest(new, p, t, row)
  <1> USE DEF RevisionFollows
  <1> PICK m : m = Len(accrual[p][t])
    OBVIOUS
  <1>1. accrual[p] \in [Periods -> Seq(AccrualRow)] /\ accrual[p][t] \in Seq(AccrualRow) /\ m \in Nat
    BY LenProperties DEF DuesInv, DuesShape
  <1>2. /\ accrual' = [accrual EXCEPT ![p] = [accrual[p] EXCEPT ![t] = Append(accrual[p][t], row)]]
        /\ accrual'[p][t] = Append(accrual[p][t], row)
        /\ \A q \in Policies, u \in Periods : q # p \/ u # t => accrual'[q][u] = accrual[q][u]
    BY <1>1 DEF DuesInv, DuesShape
  <1>3. /\ accrual'[p][t] \in Seq(AccrualRow) /\ Len(accrual'[p][t]) = m + 1
        /\ accrual'[p][t][m + 1] = row
        /\ \A r \in 1 .. m : accrual'[p][t][r] = accrual[p][t][r]
    BY <1>1, <1>2, AppendProperties
  <1>4. accrual' \in [Policies -> [Periods -> Seq(AccrualRow)]]
    <2>1. [accrual[p] EXCEPT ![t] = Append(accrual[p][t], row)] \in [Periods -> Seq(AccrualRow)]
      BY <1>1, <1>2, <1>3, AppendProperties
    <2> QED BY <1>2, <2>1 DEF DuesInv, DuesShape
  <1>5. new \in AccrualNames /\ new[1] = p /\ new[2] = t /\ new[3] = m + 1
    BY <1>1 DEF AccrualNames
  <1>6. \A a \in AccrualNames : a \in Dues!Accruals <=> a[3] <= Len(accrual[a[1]][a[2]])
    BY DEF Dues!Accruals, AccrualNames
  <1>7. Dues!Accruals' = {a \in AccrualNames : a[3] <= Len(accrual'[a[1]][a[2]])}
    /\ Dues!Accruals \subseteq AccrualNames
    BY DEF Dues!Accruals, AccrualNames
  <1>8. new \notin Dues!Accruals /\ new \in Dues!Accruals'
    BY <1>1, <1>3, <1>5, <1>6, <1>7
  <1>9. ASSUME NEW a \in AccrualNames, a # new PROVE a \in Dues!Accruals' <=> a \in Dues!Accruals
    <2>1. a[1] \in Policies /\ a[2] \in Periods /\ a[3] \in Int /\ a = <<a[1], a[2], a[3]>>
      BY DEF AccrualNames
    <2>2. CASE a[1] = p /\ a[2] = t
      <3>1. a[3] # m + 1
        BY <1>9, <2>1, <2>2
      <3>2. a \in Dues!Accruals <=> a[3] <= m
        BY <1>6, <2>2
      <3>3. a \in Dues!Accruals' <=> a[3] <= m + 1
        BY <1>3, <1>7, <2>2
      <3> QED BY <1>1, <2>1, <3>1, <3>2, <3>3
    <2>3. CASE a[1] # p \/ a[2] # t
      BY <1>2, <1>6, <1>7, <2>1, <2>3
    <2> QED BY <2>2, <2>3
  <1>10. Dues!Accruals' = Dues!Accruals \cup {new}
    BY <1>7, <1>8, <1>9
  <1>11. Dues!Row(new)' = row
    BY <1>3, <1>5 DEF Dues!Row
  <1>12. ASSUME NEW a \in Dues!Accruals PROVE Dues!Row(a)' = Dues!Row(a)
    <2>1. a[1] \in Policies /\ a[2] \in Periods /\ a[3] \in 1 .. Len(accrual[a[1]][a[2]])
      BY AccrualRowIs
    <2> QED BY <1>2, <1>3, <2>1 DEF Dues!Row
  <1>13. ~OlderAccrual(new)'
    BY <1>1, <1>3, <1>5 DEF OlderAccrual
  <1>14. ASSUME NEW a \in Dues!Accruals, OlderAccrual(a)', a[1] # p \/ a[2] # t PROVE OlderAccrual(a)
    <2>1. a[1] \in Policies /\ a[2] \in Periods
      BY AccrualRowIs
    <2> QED BY <1>2, <1>14, <2>1 DEF OlderAccrual
  <1> QED BY <1>4, <1>8, <1>10, <1>11, <1>12, <1>13, <1>14 DEF RevisionIsNewest

\* A row changes.
LEMMA RevisionChanged ==
  ASSUME DuesInv, MaxRevisions \in Nat, NEW a \in Dues!Accruals, NEW row \in AccrualRow,
         accrual' = [accrual EXCEPT ![a[1]][a[2]][a[3]] = row]
  PROVE  /\ accrual' \in [Policies -> [Periods -> Seq(AccrualRow)]]
         /\ Dues!Accruals' = Dues!Accruals
         /\ \A b \in Dues!Accruals : Dues!Row(b)' = (IF b = a THEN row ELSE Dues!Row(b))
            /\ OlderAccrual(b)' = OlderAccrual(b)
         /\ \A p \in Policies, t \in Periods : Len(accrual'[p][t]) = Len(accrual[p][t])
  <1> PICK p, t, r : p = a[1] /\ t = a[2] /\ r = a[3]
    OBVIOUS
  <1> PICK rows : rows = accrual[p][t]
    OBVIOUS
  <1>1. p \in Policies /\ t \in Periods /\ r \in 1 .. Len(rows) /\ rows \in Seq(AccrualRow)
    /\ accrual[p] \in [Periods -> Seq(AccrualRow)]
    BY AccrualRowIs DEF DuesInv, DuesShape
  <1>2. /\ [rows EXCEPT ![r] = row] \in Seq(AccrualRow) /\ Len([rows EXCEPT ![r] = row]) = Len(rows)
        /\ \A s \in 1 .. Len(rows) : [rows EXCEPT ![r] = row][s] = IF s = r THEN row ELSE rows[s]
    BY <1>1, ExceptSeq
  <1>3. accrual' = [accrual EXCEPT ![p] = [accrual[p] EXCEPT ![t] = [rows EXCEPT ![r] = row]]]
    OBVIOUS
  <1>4. /\ accrual'[p][t] = [rows EXCEPT ![r] = row]
        /\ \A q \in Policies, u \in Periods : q # p \/ u # t => accrual'[q][u] = accrual[q][u]
    <2>1. accrual \in [Policies -> [Periods -> Seq(AccrualRow)]]
      BY DEF DuesInv, DuesShape
    <2>2. accrual'[p] = [accrual[p] EXCEPT ![t] = [rows EXCEPT ![r] = row]]
      /\ \A q \in Policies : q # p => accrual'[q] = accrual[q]
      BY <1>1, <1>3, <2>1
    <2>3. accrual'[p][t] = [rows EXCEPT ![r] = row] /\ \A u \in Periods : u # t
      => accrual'[p][u] = accrual[p][u]
      BY <1>1, <2>2
    <2> QED BY <2>2, <2>3
  <1>5. accrual' \in [Policies -> [Periods -> Seq(AccrualRow)]]
    <2>1. [accrual[p] EXCEPT ![t] = [rows EXCEPT ![r] = row]] \in [Periods -> Seq(AccrualRow)]
      BY <1>1, <1>2
    <2> QED BY <1>3, <2>1 DEF DuesInv, DuesShape
  <1>6. \A q \in Policies, u \in Periods : Len(accrual'[q][u]) = Len(accrual[q][u])
    BY <1>2, <1>4
  <1>7. Dues!Accruals' = Dues!Accruals
    <2>1. \A b \in AccrualNames : b[1] \in Policies /\ b[2] \in Periods
      BY DEF AccrualNames
    <2> QED BY <1>6, <2>1 DEF Dues!Accruals, AccrualNames
  <1>8. ASSUME NEW b \in Dues!Accruals PROVE Dues!Row(b)' = (IF b = a THEN row ELSE Dues!Row(b))
    /\ OlderAccrual(b)' = OlderAccrual(b)
    <2>1. /\ b \in AccrualNames /\ b[1] \in Policies /\ b[2] \in Periods
          /\ b[3] \in 1 .. Len(accrual[b[1]][b[2]])
          /\ b = <<b[1], b[2], b[3]>> /\ a = <<p, t, r>>
      BY AccrualRowIs DEF AccrualNames
    <2>2. Dues!Row(b)' = accrual'[b[1]][b[2]][b[3]] /\ Dues!Row(b) = accrual[b[1]][b[2]][b[3]]
      BY DEF Dues!Row
    <2>3. OlderAccrual(b)' = OlderAccrual(b)
      BY <1>6, <2>1 DEF OlderAccrual
    <2>4. CASE b[1] # p \/ b[2] # t
      BY <1>4, <2>1, <2>2, <2>3, <2>4
    <2>5. CASE b[1] = p /\ b[2] = t
      <3>1. accrual'[p][t][b[3]] = IF b[3] = r THEN row ELSE accrual[p][t][b[3]]
        BY <1>2, <1>4, <2>1, <2>5
      <3> QED BY <2>1, <2>2, <2>3, <2>5, <3>1
    <2> QED BY <2>4, <2>5
  <1> QED BY <1>5, <1>6, <1>7, <1>8

\* A new revision has no payment and follows void ones only.
LEMMA AccrualAdded ==
  ASSUME IsFiniteSet(Records), None \notin AccrualNames, DuesInv, MaxRevisions \in Nat, NEW c \in Requests,
         Dues!WriteAccrual(c)
  PROVE  DuesInv'
  <1> PICK p, t, row, new : /\ p = doing[c].policy /\ t = doing[c].period
                            /\ row = [status |-> "calculated",
                               calculated |-> doing[c].amount, approved |-> 0, paid |-> 0]
                            /\ new = <<p, t, Len(accrual[p][t]) + 1>>
    OBVIOUS
  <1>1. /\ doing[c].at = "accrue" /\ doing' = [doing EXCEPT ![c] = Dues!Off] /\ record' = record
        /\ accrual' = [accrual EXCEPT ![p][t] = Append(@, row)]
    BY DEF Dues!WriteAccrual, Dues!Done
  <1>2. /\ p \in Policies /\ t \in Periods /\ p # None /\ Len(accrual[p][t]) < MaxRevisions
        /\ \A a \in Dues!Accruals : a[1] = p /\ a[2] = t => IsVoid(Dues!Row(a))
    BY <1>1 DEF DuesInv, DuesRead, Accruing
  <1>3. row \in AccrualRow /\ row.status = "calculated" /\ row.paid = 0 /\ row.approved = 0
    <2>1. doing[c].amount \in Nat
      BY DEF DuesInv, DuesShape, DoingRow
    <2> QED BY <2>1 DEF AccrualRow
  <1>4. /\ accrual' \in [Policies -> [Periods -> Seq(AccrualRow)]]
        /\ Dues!Accruals' = Dues!Accruals \cup {new} /\ new \notin Dues!Accruals
        /\ Dues!Row(new)' = row /\ \A a \in Dues!Accruals : Dues!Row(a)' = Dues!Row(a)
        /\ ~OlderAccrual(new)' /\ \A a \in Dues!Accruals : OlderAccrual(a)'
           => OlderAccrual(a) \/ (a[1] = p /\ a[2] = t)
    <2>1. RevisionFollows(new, p, t, row)
      BY <1>1, <1>2 DEF RevisionFollows
    <2>2. p \in Policies /\ t \in Periods /\ row \in AccrualRow
      BY <1>2, <1>3
    <2>3. RevisionIsNewest(new, p, t, row)
      BY <2>1, <2>2, RevisionAdded
    <2> QED BY <2>3 DEF RevisionIsNewest
  <1>5. doing'[c] = Dues!Off /\ \A d \in Requests \ {c} : doing'[d] = doing[d]
    BY <1>1 DEF DuesInv, DuesShape
  <1>6. DuesShape'
    BY <1>1, <1>4, DuesOff DEF DuesInv, DuesShape
  <1>7. \A a : PaidOf(record', a) = PaidOf(record, a)
    BY <1>1
  <1>8. ASSUME NEW a \in Dues!Accruals' PROVE AccrualAgrees(a)'
    <2>1. CASE a \in Dues!Accruals
      <3>1. Dues!Row(a)' = Dues!Row(a) /\ AccrualSays(a, Dues!Row(a), record)
        /\ (OlderAccrual(a)' => IsVoid(Dues!Row(a)))
        BY <1>2, <1>4, <2>1 DEF DuesInv, AccrualAgrees
      <3>2. AccrualSays(a, Dues!Row(a), record)'
        BY <1>7, <3>1 DEF AccrualSays, IsVoid
      <3> QED BY <3>1, <3>2 DEF AccrualAgrees, IsVoid
    <2>2. CASE a = new
      <3>1. PaymentsFor(record, new) = {}
        <4>1. \A n \in Records : record[n].accrual \in Dues!Accruals \cup {None}
          BY DEF DuesInv, RecordAgrees
        <4>2. new \in AccrualNames
          BY <1>4, <2>2 DEF Dues!Accruals, AccrualNames
        <4> QED BY <1>4, <4>1, <4>2 DEF PaymentsFor
      <3>2. PaidOf(record, new) = 0
        BY <3>1, AmountOfNone DEF PaidOf
      <3> QED BY <1>3, <1>4, <1>7, <2>2, <3>2 DEF AccrualAgrees, AccrualSays
    <2> QED BY <1>4, <2>1, <2>2
  <1>9. \A n \in Records : RecordAgrees(n)'
    BY <1>1, <1>4 DEF DuesInv, RecordAgrees, Dues!NoRecord
  <1>10. ASSUME NEW d \in Requests PROVE DuesRead(d)'
    <2>1. CASE d = c
      BY <1>5, <2>1, DuesOff DEF DuesRead, Accruing, LockingAccrual, DecidingAccrual, PayingAccrual,
        ReversingPayment
    <2>2. CASE d # c
      <3>1. doing'[d] = doing[d] /\ DuesRead(d)
        BY <1>5, <2>2 DEF DuesInv
      <3>2. LockingAccrual(d)'
        BY <1>4, <3>1 DEF DuesRead, LockingAccrual
      <3>3. ASSUME doing[d].at = "accrue" PROVE Accruing(d)'
        <4> PICK q, u : q = doing[d].policy /\ u = doing[d].period
          OBVIOUS
        <4>1. q \in Policies /\ u \in Periods /\ q # None /\ q # p /\ Len(accrual[q][u]) < MaxRevisions
              /\ \A a \in Dues!Accruals : a[1] = q /\ a[2] = u => IsVoid(Dues!Row(a))
          BY <1>2, <2>2, <3>1, <3>3 DEF DuesRead, Accruing, DuesInv, AccrualsApart
        <4>2. accrual'[q] = accrual[q]
          BY <1>1, <4>1 DEF DuesInv, DuesShape
        <4>3. new[1] = p
          OBVIOUS
        <4>4. \A a \in Dues!Accruals' : a[1] = q /\ a[2] = u => IsVoid(Dues!Row(a)')
          BY <1>4, <4>1, <4>3
        <4> QED BY <3>1, <4>1, <4>2, <4>4 DEF Accruing, IsVoid
      <3>4. ASSUME doing[d].at \in {"approve", "reject", "pay", "reverse"} PROVE DecidingAccrual(d)'
        /\ PayingAccrual(d)' /\ ReversingPayment(d)'
        <4> PICK a : a = doing[d].accrual
          OBVIOUS
        <4>1. a \in Dues!Accruals /\ Dues!Row(a)' = Dues!Row(a) /\ doing'[d].accrual = a
          BY <1>4, <3>1, <3>4 DEF DuesRead, LockingAccrual
        <4>2. Dues!Row(doing[d].accrual)' = Dues!Row(a)
          BY <3>1, <4>1 DEF Dues!Row
        <4>3. DecidingAccrual(d)'
          BY <3>1, <4>2 DEF DuesRead, DecidingAccrual
        <4>4. PayingAccrual(d)'
          BY <1>1, <1>7, <3>1, <4>2 DEF DuesRead, PayingAccrual, Dues!NoRecord
        <4>5. ReversingPayment(d)'
          BY <1>1, <3>1 DEF DuesRead, ReversingPayment
        <4> QED BY <4>3, <4>4, <4>5
      <3>5. doing[d].at # "accrue" => Accruing(d)'
        BY <3>1 DEF Accruing
      <3>6. doing[d].at \notin {"approve", "reject", "pay", "reverse"} => DecidingAccrual(d)'
        /\ PayingAccrual(d)' /\ ReversingPayment(d)'
        BY <3>1 DEF DecidingAccrual, PayingAccrual, ReversingPayment
      <3> QED BY <3>2, <3>3, <3>4, <3>5, <3>6 DEF DuesRead
    <2> QED BY <2>1, <2>2
  <1>11. ASSUME NEW d \in Requests, NEW e \in Requests PROVE AccrualsApart(d, e)'
    <2>1. CASE d # c /\ e # c
      BY <1>5, <2>1 DEF DuesInv, AccrualsApart
    <2>2. CASE d = c \/ e = c
      BY <1>5, <2>2, DuesOff DEF AccrualsApart
    <2> QED BY <2>1, <2>2
  <1> QED BY <1>6, <1>8, <1>9, <1>10, <1>11 DEF DuesInv

\* The call that has locked an accrual writes it and a record of it, and ends.
WritesAccrual(c, a, row) ==
    /\ doing[c].accrual = a /\ a # None /\ doing' = [doing EXCEPT ![c] = Dues!Off]
    /\ accrual' = [accrual EXCEPT ![a[1]][a[2]][a[3]] = row]
    /\ AccrualSays(a, row, record') /\ (IsVoid(Dues!Row(a)) => IsVoid(row))
    /\ record' \in [Records -> RecordRow]
    /\ \A n \in Records : \/ record'[n] = record[n]
                          \/ /\ n = doing[c].record /\ n # None
                             /\ record'[n].accrual = a /\ record[n].accrual \in {None, a}

\* A call that writes the accrual it has locked keeps DuesInv.
LEMMA AccrualWritten ==
  ASSUME IsFiniteSet(Records), None \notin AccrualNames, DuesInv, MaxRevisions \in Nat, NEW c \in Requests,
         NEW a \in Dues!Accruals,
         NEW row \in AccrualRow, WritesAccrual(c, a, row)
  PROVE  DuesInv'
  <1> USE DEF WritesAccrual
  <1>1. /\ accrual' \in [Policies -> [Periods -> Seq(AccrualRow)]] /\ Dues!Accruals' = Dues!Accruals
        /\ \A b \in Dues!Accruals : Dues!Row(b)' = (IF b = a THEN row ELSE Dues!Row(b))
           /\ OlderAccrual(b)' = OlderAccrual(b)
        /\ \A p \in Policies, t \in Periods : Len(accrual'[p][t]) = Len(accrual[p][t])
    BY RevisionChanged
  <1>2. doing'[c] = Dues!Off /\ \A d \in Requests \ {c} : doing'[d] = doing[d]
    BY DEF DuesInv, DuesShape
  <1>3. DuesShape'
    BY <1>1, DuesOff DEF DuesInv, DuesShape
  <1>4. ASSUME NEW b, b # a, b # None PROVE PaidOf(record', b) = PaidOf(record, b)
    <2>1. \A n \in Records : record'[n].accrual = b \/ record[n].accrual = b => record'[n] = record[n]
      BY <1>4
    <2>2. PaymentsFor(record', b) = PaymentsFor(record, b) /\ PaymentsFor(record, b) \in SUBSET Records
      BY <2>1 DEF PaymentsFor
    <2>3. \A n \in PaymentsFor(record, b) : record'[n].amount = record[n].amount
      BY <2>1 DEF PaymentsFor
    <2>4. AmountOf(record', PaymentsFor(record, b)) = AmountOf(record, PaymentsFor(record, b))
      BY <2>2, <2>3, AmountOfSame
    <2> QED BY <2>2, <2>4 DEF PaidOf
  <1>5. ASSUME NEW b \in Dues!Accruals' PROVE AccrualAgrees(b)'
    <2>1. CASE b = a
      <3>1. Dues!Row(b)' = row /\ AccrualSays(b, row, record') /\ (OlderAccrual(b)' => IsVoid(row))
        BY <1>1, <2>1 DEF DuesInv, AccrualAgrees
      <3> QED BY <3>1 DEF AccrualAgrees, AccrualSays, IsVoid
    <2>2. CASE b # a
      <3>1. Dues!Row(b)' = Dues!Row(b) /\ AccrualSays(b, Dues!Row(b), record)
        /\ (OlderAccrual(b)' => IsVoid(Dues!Row(b)))
        BY <1>1, <2>2 DEF DuesInv, AccrualAgrees
      <3>2. b # None
        BY <1>1, AccrualRowIs
      <3>3. AccrualSays(b, Dues!Row(b), record')
        BY <1>4, <2>2, <3>1, <3>2 DEF AccrualSays, IsVoid
      <3> QED BY <3>1, <3>3 DEF AccrualAgrees, AccrualSays, IsVoid
    <2> QED BY <2>1, <2>2
  <1>6. ASSUME NEW n \in Records PROVE RecordAgrees(n)'
    <2>1. CASE record'[n] = record[n]
      BY <1>1, <2>1 DEF DuesInv, RecordAgrees, Dues!NoRecord
    <2>2. CASE record'[n].accrual = a
      BY <1>1, <2>2 DEF RecordAgrees, Dues!NoRecord
    <2> QED BY <2>1, <2>2
  <1>7. ASSUME NEW d \in Requests PROVE DuesRead(d)'
    <2>1. CASE d = c
      BY <1>2, <2>1, DuesOff DEF DuesRead, Accruing, LockingAccrual, DecidingAccrual, PayingAccrual,
        ReversingPayment
    <2>2. CASE d # c
      <3>1. doing'[d] = doing[d] /\ DuesRead(d)
        BY <1>2, <2>2 DEF DuesInv
      <3>2. LockingAccrual(d)'
        BY <1>1, <3>1 DEF DuesRead, LockingAccrual
      <3>3. ASSUME doing[d].at = "accrue" PROVE Accruing(d)'
        <4> PICK q, u : q = doing[d].policy /\ u = doing[d].period
          OBVIOUS
        <4>1. q \in Policies /\ u \in Periods /\ q # None /\ Len(accrual[q][u]) < MaxRevisions
              /\ \A b \in Dues!Accruals : b[1] = q /\ b[2] = u => IsVoid(Dues!Row(b))
          BY <3>1, <3>3 DEF DuesRead, Accruing
        <4>2. Len(accrual'[q][u]) = Len(accrual[q][u])
          BY <1>1, <4>1
        <4>3. ASSUME NEW b \in Dues!Accruals', b[1] = q, b[2] = u PROVE IsVoid(Dues!Row(b)')
          <5>1. b \in Dues!Accruals /\ Dues!Row(b)' = (IF b = a THEN row ELSE Dues!Row(b))
            BY <1>1
          <5>2. IsVoid(Dues!Row(b))
            BY <4>1, <4>3, <5>1
          <5> QED BY <5>1, <5>2
        <4> QED BY <3>1, <4>1, <4>2, <4>3 DEF Accruing, IsVoid
      <3>4. ASSUME doing[d].at \in {"approve", "reject", "pay", "reverse"} PROVE DecidingAccrual(d)'
        /\ PayingAccrual(d)' /\ ReversingPayment(d)'
        <4> PICK b : b = doing[d].accrual
          OBVIOUS
        <4>1. b \in Dues!Accruals /\ b # None /\ b # a /\ doing'[d].accrual = b
          BY <2>2, <3>1, <3>4 DEF DuesRead, LockingAccrual, DuesInv, AccrualsApart
        <4>2. Dues!Row(doing[d].accrual)' = Dues!Row(b) /\ PaidOf(record', b) = PaidOf(record, b)
          <5>1. Dues!Row(b)' = Dues!Row(b)
            BY <1>1, <4>1
          <5> QED BY <1>4, <3>1, <4>1, <5>1 DEF Dues!Row
        <4>3. ASSUME doing[d].record \in Records, doing[d].record # None
              PROVE record'[doing[d].record] = record[doing[d].record]
          BY <2>2, <4>3 DEF DuesInv, AccrualsApart
        <4>4. DecidingAccrual(d)'
          BY <3>1, <4>2 DEF DuesRead, DecidingAccrual
        <4>5. PayingAccrual(d)'
          BY <3>1, <4>2, <4>3 DEF DuesRead, PayingAccrual, Dues!NoRecord
        <4>6. ReversingPayment(d)'
          BY <3>1, <4>3 DEF DuesRead, ReversingPayment
        <4> QED BY <4>4, <4>5, <4>6
      <3>5. doing[d].at # "accrue" => Accruing(d)'
        BY <3>1 DEF Accruing
      <3>6. doing[d].at \notin {"approve", "reject", "pay", "reverse"} => DecidingAccrual(d)'
        /\ PayingAccrual(d)' /\ ReversingPayment(d)'
        BY <3>1 DEF DecidingAccrual, PayingAccrual, ReversingPayment
      <3> QED BY <3>2, <3>3, <3>4, <3>5, <3>6 DEF DuesRead
    <2> QED BY <2>1, <2>2
  <1>8. ASSUME NEW d \in Requests, NEW e \in Requests PROVE AccrualsApart(d, e)'
    <2>1. CASE d # c /\ e # c
      BY <1>2, <2>1 DEF DuesInv, AccrualsApart
    <2>2. CASE d = c \/ e = c
      BY <1>2, <2>2, DuesOff DEF AccrualsApart
    <2> QED BY <2>1, <2>2
  <1> QED BY <1>3, <1>5, <1>6, <1>7, <1>8 DEF DuesInv

\* An accrual is approved or rejected while nothing is paid of it.
LEMMA AccrualDecided ==
  ASSUME IsFiniteSet(Records), None \notin AccrualNames, DuesInv, MaxRevisions \in Nat, NEW c \in Requests,
         Dues!WriteDecision(c)
  PROVE  DuesInv'
  <1> PICK a, old : a = doing[c].accrual /\ old = Dues!Row(a)
    OBVIOUS
  <1> PICK row : row = [old EXCEPT !.status = IF doing[c].at = "approve" THEN "approved" ELSE "rejected",
                                   !.approved = doing[c].amount]
    OBVIOUS
  <1>1. /\ doing[c].at \in {"approve", "reject"} /\ doing' = [doing EXCEPT ![c] = Dues!Off]
        /\ record' = record
        /\ accrual' = [accrual EXCEPT ![a[1]][a[2]][a[3]] = row]
    BY DEF Dues!WriteDecision, Dues!Done, Dues!Change
  <1>2. a \in Dues!Accruals /\ a # None /\ old.status = "calculated" /\ AccrualSays(a, old, record)
    BY <1>1 DEF DuesInv, DuesRead, LockingAccrual, DecidingAccrual, AccrualAgrees
  <1>3. old \in AccrualRow /\ doing[c].amount \in Nat
    BY <1>2, AccrualRowIs DEF DuesInv, DuesShape, DoingRow
  <1>4. row \in AccrualRow /\ row.paid = 0 /\ row.paid = old.paid /\ 0 <= row.approved
    /\ row.status \in {"approved", "rejected"}
    <2>1. old.paid = 0
      BY <1>2 DEF AccrualSays
    <2>2. /\ row.paid = old.paid /\ row.approved = doing[c].amount /\ row.calculated = old.calculated
          /\ row.status \in {"approved", "rejected"} /\ row \in AccrualRow
      BY <1>1, <1>3 DEF AccrualRow
    <2> QED BY <1>3, <2>1, <2>2
  <1>5. AccrualSays(a, row, record')
    BY <1>1, <1>2, <1>4 DEF AccrualSays, IsVoid
  <1>6. WritesAccrual(c, a, row)
    BY <1>1, <1>2, <1>5 DEF WritesAccrual, IsVoid, DuesInv, DuesShape
  <1> QED BY <1>2, <1>4, <1>6, AccrualWritten

\* A payment adds its record and its amount.
LEMMA PaymentWritten ==
  ASSUME IsFiniteSet(Records), None \notin AccrualNames, DuesInv, MaxRevisions \in Nat, NEW c \in Requests,
         Dues!WritePayment(c)
  PROVE  DuesInv'
  <1> PICK a, n, v, next : a = doing[c].accrual /\ n = doing[c].record /\ v = doing[c].amount
    /\ next = doing[c].paid
    OBVIOUS
  <1> PICK old, new : old = Dues!Row(a) /\ new = [accrual |-> a, amount |-> v, reversed |-> FALSE]
    OBVIOUS
  <1> PICK row : row = [old EXCEPT !.paid = next,
    !.status = IF next = old.approved THEN "paid" ELSE "partially_paid"]
    OBVIOUS
  <1>1. /\ doing[c].at = "pay" /\ doing' = [doing EXCEPT ![c] = Dues!Off]
        /\ record' = [record EXCEPT ![n] = new]
        /\ accrual' = [accrual EXCEPT ![a[1]][a[2]][a[3]] = row]
    BY DEF Dues!WritePayment, Dues!Done, Dues!Change
  <1>2. /\ a \in Dues!Accruals /\ a # None /\ n \in Records /\ n # None /\ record[n] = Dues!NoRecord
        /\ old.status \in {"approved", "partially_paid"} /\ next = PaidOf(record, a) + v
        /\ next <= old.approved
    BY <1>1 DEF DuesInv, DuesRead, LockingAccrual, PayingAccrual
  <1>3. old \in AccrualRow /\ v \in Nat /\ next \in Nat /\ a \in AccrualNames
    BY <1>2, AccrualRowIs DEF DuesInv, DuesShape, DoingRow
  <1>4. row \in AccrualRow /\ row.paid = next /\ row.approved = old.approved
    /\ row.status \in {"paid", "partially_paid"}
    BY <1>3 DEF AccrualRow
  <1>5. new \in RecordRow /\ new.accrual = a /\ new.amount = v /\ new.reversed = FALSE
    /\ record[n].accrual = None
    BY <1>2, <1>3 DEF RecordRow, Dues!NoRecord
  <1>6. record'[n] = new /\ (\A m \in Records \ {n} : record'[m] = record[m])
    /\ record' \in [Records -> RecordRow]
    BY <1>1, <1>2, <1>5 DEF DuesInv, DuesShape
  <1>7. PaidOf(record', a) = next
    <2>1. PaymentsFor(record', a) = PaymentsFor(record, a) \cup {n} /\ n \notin PaymentsFor(record, a)
      BY <1>2, <1>5, <1>6 DEF PaymentsFor
    <2>2. \A m \in PaymentsFor(record, a) : record'[m].amount = record[m].amount
      /\ record[m].amount \in Nat
      BY <1>2, <1>5, <1>6 DEF PaymentsFor, DuesInv, DuesShape, RecordRow
    <2>3. IsFiniteSet(PaymentsFor(record, a))
      BY FS_Subset DEF PaymentsFor
    <2>4. AddsTo(PaymentsFor(record, a), n, record, record')
      BY <1>3, <1>5, <1>6, <2>1, <2>2, <2>3 DEF AddsTo
    <2>5. AmountOf(record',
      PaymentsFor(record, a) \cup {n}) = AmountOf(record, PaymentsFor(record, a)) + record'[n].amount
      BY <2>4, AmountOfAdded
    <2> QED BY <1>2, <1>5, <1>6, <2>1, <2>5 DEF PaidOf
  <1>8. AccrualSays(a, row, record')
    BY <1>2, <1>4, <1>7 DEF AccrualSays, IsVoid
  <1>9. WritesAccrual(c, a, row)
    BY <1>1, <1>2, <1>4, <1>5, <1>6, <1>8 DEF WritesAccrual, IsVoid
  <1> QED BY <1>2, <1>4, <1>9, AccrualWritten

\* A reversal takes back the amount of its record.
LEMMA ReversalWritten ==
  ASSUME IsFiniteSet(Records), None \notin AccrualNames, DuesInv, MaxRevisions \in Nat, NEW c \in Requests,
         Dues!WriteReversal(c)
  PROVE  DuesInv'
  <1> PICK a, n, old : a = doing[c].accrual /\ n = doing[c].record /\ old = Dues!Row(a)
    OBVIOUS
  <1> PICK v, left, new : v = record[n].amount /\ left = PaidOf(record, a) - v
    /\ new = [record[n] EXCEPT !.reversed = TRUE]
    OBVIOUS
  <1> PICK row : row = [old EXCEPT !.paid = left,
    !.status = IF left = 0 THEN "reversed" ELSE "partially_paid"]
    OBVIOUS
  <1>1. /\ doing[c].at = "reverse" /\ doing' = [doing EXCEPT ![c] = Dues!Off]
        /\ record' = [record EXCEPT ![n] = new]
        /\ accrual' = [accrual EXCEPT ![a[1]][a[2]][a[3]] = row]
    BY PeriodPaidOnceIs DEF Dues!WriteReversal, Dues!Done, Dues!Change
  <1>2. /\ a \in Dues!Accruals /\ a # None /\ n \in Records /\ n # None /\ record[n].accrual = a
        /\ ~record[n].reversed
        /\ AccrualSays(a, old, record)
    BY <1>1 DEF DuesInv, DuesRead, LockingAccrual, ReversingPayment, AccrualAgrees
  <1>3. old \in AccrualRow /\ record[n] \in RecordRow /\ v \in Nat /\ a \in AccrualNames
    BY <1>2, AccrualRowIs DEF DuesInv, DuesShape, RecordRow
  <1>4. new \in RecordRow /\ new.accrual = a /\ new.amount = v /\ new.reversed = TRUE
    BY <1>2, <1>3 DEF RecordRow
  <1>5. record'[n] = new /\ (\A m \in Records \ {n} : record'[m] = record[m])
    /\ record' \in [Records -> RecordRow]
    BY <1>1, <1>2, <1>4 DEF DuesInv, DuesShape
  <1>6. PaidOf(record', a) = left /\ left \in Nat /\ left <= PaidOf(record, a)
    <2> PICK A : A = PaymentsFor(record', a)
      OBVIOUS
    <2>1. PaymentsFor(record, a) = A \cup {n} /\ n \notin A /\ A \in SUBSET Records
      BY <1>2, <1>4, <1>5 DEF PaymentsFor
    <2>2. \A m \in A : record[m].amount = record'[m].amount /\ record'[m].amount \in Nat
      BY <1>5, <2>1 DEF RecordRow
    <2>3. IsFiniteSet(A)
      BY <2>1, FS_Subset
    <2>4. AddsTo(A, n, record', record)
      BY <1>3, <2>1, <2>2, <2>3 DEF AddsTo
    <2>5. AmountOf(record, A \cup {n}) = AmountOf(record', A) + v
      BY <2>4, AmountOfAdded
    <2>6. AmountOf(record', A) \in Nat
      BY <2>1, <2>2, AmountOfNat
    <2>7. PaidOf(record, a) = PaidOf(record', a) + v /\ PaidOf(record', a) \in Nat
      BY <2>1, <2>5, <2>6 DEF PaidOf
    <2> QED BY <1>3, <2>7
  <1>7. row \in AccrualRow /\ row.paid = left /\ row.approved = old.approved
    /\ row.status = (IF left = 0 THEN "reversed" ELSE "partially_paid")
    BY <1>3, <1>6 DEF AccrualRow
  <1>8. row.paid <= row.approved
    BY <1>2, <1>3, <1>6, <1>7 DEF AccrualSays, AccrualRow
  <1>9. AccrualSays(a, row, record')
    BY <1>6, <1>7, <1>8 DEF AccrualSays, IsVoid
  <1>10. IsVoid(old) => IsVoid(row)
    BY <1>2, <1>6, <1>7 DEF AccrualSays, IsVoid
  <1>11. WritesAccrual(c, a, row)
    BY <1>1, <1>2, <1>4, <1>5, <1>9, <1>10 DEF WritesAccrual
  <1> QED BY <1>2, <1>7, <1>11, AccrualWritten

\* At first nothing is accrued, so DuesInv holds.
LEMMA DuesStart ==
  Dues!Init => DuesInv
  <1> SUFFICES ASSUME Dues!Init PROVE DuesInv
    OBVIOUS
  <1>1. /\ accrual = [p \in Policies |-> [t \in Periods |-> <<>>]]
        /\ record = [n \in Records |-> Dues!NoRecord]
        /\ doing = [c \in Requests |-> Dues!Off]
    BY DEF Dues!Init
  <1>2. Dues!NoRecord \in RecordRow
    BY DEF Dues!NoRecord, RecordRow
  <1>3. DuesShape
    BY <1>1, <1>2, DuesOff, EmptySeq DEF DuesShape
  <1>4. Dues!Accruals = {}
    BY <1>1, EmptySeq DEF Dues!Accruals
  <1>5. \A n \in Records : RecordAgrees(n)
    BY <1>1 DEF RecordAgrees, Dues!NoRecord
  <1>6. (\A c \in Requests : DuesRead(c)) /\ \A c, d \in Requests : AccrualsApart(c, d)
    BY <1>1, DuesOff DEF DuesRead, Accruing, LockingAccrual, DecidingAccrual, PayingAccrual,
      ReversingPayment, AccrualsApart
  <1> QED BY <1>3, <1>4, <1>5, <1>6 DEF DuesInv

\* What changes no accrual, record or request keeps DuesInv.
LEMMA DuesRest ==
  ASSUME DuesInv, UNCHANGED <<accrual, record, doing>> PROVE DuesInv'
  <1>1. Dues!Accruals' = Dues!Accruals /\ \A a : Dues!Row(a)' = Dues!Row(a)
    BY DEF Dues!Accruals, Dues!Row
  <1>2. DuesShape' /\ \A a \in Dues!Accruals' : AccrualAgrees(a)'
    BY <1>1 DEF DuesInv, DuesShape, AccrualAgrees, OlderAccrual
  <1>3. \A n \in Records : RecordAgrees(n)'
    BY <1>1 DEF DuesInv, RecordAgrees, Dues!NoRecord
  <1>4. ASSUME NEW d \in Requests PROVE DuesRead(d)'
    <2>1. DuesRead(d) /\ doing'[d] = doing[d]
      /\ Dues!Row(doing[d].accrual)' = Dues!Row(doing[d].accrual)
      BY DEF DuesInv, Dues!Row
    <2>2. Accruing(d)' /\ LockingAccrual(d)' /\ DecidingAccrual(d)'
      BY <1>1, <2>1 DEF DuesRead, Accruing, LockingAccrual, DecidingAccrual
    <2>3. PayingAccrual(d)' /\ ReversingPayment(d)'
      BY <1>1, <2>1 DEF DuesRead, PayingAccrual, ReversingPayment, Dues!NoRecord
    <2> QED BY <2>2, <2>3 DEF DuesRead
  <1>5. \A d, e \in Requests : AccrualsApart(d, e)'
    BY DEF DuesInv, AccrualsApart
  <1> QED BY <1>2, <1>3, <1>4, <1>5 DEF DuesInv

\* Every step keeps DuesInv.
LEMMA DuesInductive ==
  ASSUME IsFiniteSet(Records), None \notin AccrualNames, MaxRevisions \in Nat, PayAmounts \subseteq Nat
  PROVE  DuesInv /\ [Dues!Next]_Dues!commissionVars => DuesInv'
  <1>1. ASSUME DuesInv, NEW c \in Requests, Dues!WriteActivation(c) \/ Dues!Fail(c) PROVE DuesInv'
    BY <1>1, DuesCallEnds DEF Dues!WriteActivation, Dues!Fail, Dues!Done
  <1>2. ASSUME DuesInv, NEW c \in Requests, NEW n \in Records, Dues!ReadReversal(c, n) PROVE DuesInv'
    <2>1. record[n].accrual \in Dues!Accruals
      BY <1>2 DEF Dues!ReadReversal, DuesInv, RecordAgrees
    <2> QED BY <1>2, <2>1, DuesReads
  <1>3. ASSUME DuesInv, UNCHANGED Dues!commissionVars \/ \E p \in Policies : Dues!CreatePolicy(p)
        PROVE DuesInv'
    BY DuesRest, <1>3 DEF Dues!commissionVars, Dues!CreatePolicy
  <1>4. ASSUME DuesInv, Dues!CallNext PROVE DuesInv'
    <2>1. PICK c \in Requests :
             \/ \E p \in Policies : Dues!ReadActivation(c, p) \/ \E t \in Periods,
                v \in PayAmounts : Dues!ReadAccrual(c, p, t, v)
             \/ \E a \in Dues!Accruals :
                   \/ \E at \in {"approve", "reject"},
                      v \in {0} \cup PayAmounts : Dues!ReadDecision(c, a, at, v)
                   \/ \E n \in Records, v \in PayAmounts : Dues!ReadPayment(c, n, a, v)
             \/ \E n \in Records : Dues!ReadReversal(c, n)
             \/ Dues!WriteActivation(c) \/ Dues!WriteAccrual(c) \/ Dues!WriteDecision(c)
             \/ Dues!WritePayment(c) \/ Dues!WriteReversal(c) \/ Dues!Fail(c)
      BY <1>4 DEF Dues!CallNext
    <2> QED BY <1>1, <1>2, <1>4, <2>1, AccrualReads, DuesReads, AccrualAdded, AccrualDecided,
      PaymentWritten, ReversalWritten
  <1> QED BY <1>3, <1>4 DEF Dues!Next

\* DuesInv says that no share is paid twice.
LEMMA DuesPaidOnce ==
  ASSUME IsFiniteSet(Records), None \notin AccrualNames, MaxRevisions \in Nat, PayAmounts \subseteq Nat
  PROVE  DuesInv => Dues!PeriodPaidOnce
  BY PeriodPaidOnceIs

\* No share is paid twice: what an accrual says was paid is the sum of its
\* records and within what was approved, and of all accruals of a period only
\* the newest has money paid, however payments, reversals and decisions
\* interleave.
THEOREM ShareOfPeriodPaidOnce ==
  ASSUME IsFiniteSet(Records), None \notin AccrualNames, MaxRevisions \in Nat, PayAmounts \subseteq Nat
  PROVE  Dues!Spec => []Dues!PeriodPaidOnce
  <1> QED BY DuesStart, DuesInductive, DuesPaidOnce, PTL DEF Dues!Spec
-----------------------------------------------------------------------------
(*                    Losses of the house (Occurrences)                    *)

RecoveriesOf(rowset, o) == {n \in Recoveries : rowset[n].loss = o /\ ~rowset[n].reversed}
RecoveriesInCash(rowset) == {n \in Recoveries : rowset[n].cash /\ ~rowset[n].reversed}

HouseLosses(b) == {o \in Occurrences : loss[o].order = b /\ loss[o].decision = "house_loss"}

\* The property, in terms of the amounts of recoveries.
LEMMA LossesFitIs ==
  /\ \A o : Losses!Recovered(o) = AmountOf(recovery, RecoveriesOf(recovery, o))
  /\ Losses!LossesFit <=>
        /\ \A o \in Occurrences : AmountOf(recovery, RecoveriesOf(recovery, o)) <= loss[o].unpaid
        /\ till.recovered = AmountOf(recovery, RecoveriesInCash(recovery))
        /\ \A b \in Debtors : Cardinality(HouseLosses(b)) <= 1
  <1>1. \A A : Losses!MapThenSumSet(LAMBDA n : recovery[n].amount, A) = AmountOf(recovery, A)
    BY DEF AmountOf, Losses!MapThenSumSet, Losses!MapThenFoldSet, MapThenSumSet, MapThenFoldSet
  <1>2. \A o : Losses!Recovered(o) = AmountOf(recovery, RecoveriesOf(recovery, o))
    BY <1>1 DEF Losses!Recovered, RecoveriesOf
  <1>3. \A S : Losses!Cardinality(S) = Cardinality(S)
    BY DEF Losses!Cardinality, Cardinality
  <1> QED BY <1>1, <1>2, <1>3 DEF Losses!LossesFit, RecoveriesInCash, HouseLosses

LossRow == [status : {"absent", "under_review", "approved", "closed"},
            order : Debtors \cup {None}, type : Types \cup {None},
            decision : {"house_loss", "dismissed", "approved", None}, unpaid : Nat]
RecoveryRow == [loss : Occurrences \cup {None}, amount : Nat, cash : BOOLEAN, reversed : BOOLEAN]
TaskRow == [at : {"idle", "report", "house_loss", "dismissed", "approved", "recover", "reverse"},
            loss : Occurrences \cup {None}, order : Debtors \cup {None}, type : Types \cup {None},
            recovery : Recoveries \cup {None}, amount : Nat, cash : BOOLEAN]

LossShape ==
    /\ bill \in [Debtors -> [status : {"open", "paid", "written_off"}, owed : Nat]]
    /\ loss \in [Occurrences -> LossRow] /\ recovery \in [Recoveries -> RecoveryRow]
    /\ till \in [open : BOOLEAN, recovered : Int] /\ task \in [Requests -> TaskRow]

\* An occurrence that is there is about an order, and one that is the loss of
\* the house wrote it off.
LossReported(o) ==
    /\ loss[o].status # "absent" => loss[o].order \in Debtors
    /\ loss[o].decision = "house_loss" => loss[o].order \in Debtors
       /\ bill[loss[o].order].status = "written_off"

\* A recovery that is there is of a loss, in the terms of one that is absent.
RecoveryAgrees(n) == recovery[n].loss = None <=> recovery[n] = Losses!NoRecovery

\* What a call has read of the rows it has locked.
ReportingLoss(c) == task[c].at = "report" =>
    /\ task[c].loss \in Occurrences /\ loss[task[c].loss] = Losses!NoLoss
    /\ task[c].order \in Debtors /\ task[c].type \in Types

DecidingLoss(c) == task[c].at \in {"house_loss", "dismissed", "approved"} =>
    task[c].loss \in Occurrences /\ loss[task[c].loss].status = "under_review"

RecoveringLoss(c) == task[c].at = "recover" =>
    /\ task[c].loss \in Occurrences /\ task[c].recovery \in Recoveries
    /\ recovery[task[c].recovery] = Losses!NoRecovery
    /\ AmountOf(recovery, RecoveriesOf(recovery, task[c].loss)) + task[c].amount
         <= loss[task[c].loss].unpaid

ReversingRecovery(c) == task[c].at = "reverse" =>
    /\ task[c].recovery \in Recoveries /\ task[c].loss \in Occurrences
    /\ recovery[task[c].recovery].loss = task[c].loss /\ ~recovery[task[c].recovery].reversed
    /\ recovery[task[c].recovery].cash = task[c].cash

\* Two calls share neither an occurrence nor a recovery.
LossesApart(c, d) == c # d =>
    /\ task[c].loss # None => task[c].loss # task[d].loss
    /\ task[c].at = "recover" /\ task[d].at = "recover" => task[c].recovery # task[d].recovery

LossSums ==
    /\ \A o \in Occurrences : AmountOf(recovery, RecoveriesOf(recovery, o)) <= loss[o].unpaid
    /\ till.recovered = AmountOf(recovery, RecoveriesInCash(recovery))

OneHouseLoss(b) == \A o, p \in HouseLosses(b) : o = p

LossInv ==
    /\ LossShape
    /\ \A o \in Occurrences : LossReported(o)
    /\ \A n \in Recoveries : RecoveryAgrees(n)
    /\ \A c \in Requests : ReportingLoss(c) /\ DecidingLoss(c) /\ RecoveringLoss(c) /\ ReversingRecovery(c)
    /\ \A c, d \in Requests : LossesApart(c, d)
    /\ LossSums
    /\ \A b \in Debtors : OneHouseLoss(b)

\* A call at rest has the shape of any call and holds nothing.
LEMMA OffIs == /\ Losses!Off.at = "idle" /\ Losses!Off.loss = None /\ Losses!Off.recovery = None
               /\ Losses!Off.cash = FALSE /\ Losses!Off \in TaskRow
  BY DEF Losses!Off, TaskRow

\* A call begins, goes on or ends, and the rows stay but for what is owed.
LEMMA LossCall ==
  ASSUME LossInv, UNCHANGED <<loss, recovery>>, till' \in [open : BOOLEAN, recovered : Int],
         till'.recovered = till.recovered,
         bill' \in [Debtors -> [status : {"open", "paid", "written_off"}, owed : Nat]],
         \A b \in Debtors : bill[b].status = "written_off" => bill'[b].status = "written_off",
         NEW c \in Requests, NEW begun \in TaskRow, task' = [task EXCEPT ![c] = begun],
         (ReportingLoss(c) /\ DecidingLoss(c) /\ RecoveringLoss(c) /\ ReversingRecovery(c))',
         \A d \in Requests \ {c} :
            /\ begun.loss # None => begun.loss # task[d].loss
            /\ (begun.at = "recover" /\ task[d].at = "recover") => begun.recovery # task[d].recovery
  PROVE  LossInv'
  <1>1. task'[c] = begun /\ \A d \in Requests \ {c} : task'[d] = task[d]
    BY DEF LossInv, LossShape
  <1>2. LossShape'
    BY DEF LossInv, LossShape
  <1>3. \A o \in Occurrences : LossReported(o)'
    BY DEF LossInv, LossReported
  <1>4. \A n \in Recoveries : RecoveryAgrees(n)'
    BY DEF LossInv, RecoveryAgrees, Losses!NoRecovery
  <1>5. ASSUME NEW d \in Requests
        PROVE (ReportingLoss(d) /\ DecidingLoss(d) /\ RecoveringLoss(d) /\ ReversingRecovery(d))'
    <2>1. CASE d = c
      BY <2>1
    <2>2. CASE d # c
      <3>1. task'[d] = task[d]
        BY <1>1, <2>2
      <3>2. ReportingLoss(d)' /\ DecidingLoss(d)'
        BY <3>1 DEF LossInv, ReportingLoss, DecidingLoss, Losses!NoLoss
      <3>3. RecoveringLoss(d)'
        <4>1. RecoveriesOf(recovery, task[d].loss)' = RecoveriesOf(recovery, task[d].loss)
          BY <3>1 DEF RecoveriesOf
        <4> QED BY <3>1, <4>1 DEF LossInv, RecoveringLoss, Losses!NoRecovery
      <3>4. ReversingRecovery(d)'
        BY <3>1 DEF LossInv, ReversingRecovery
      <3> QED BY <3>2, <3>3, <3>4
    <2> QED BY <2>1, <2>2
  <1>6. ASSUME NEW d \in Requests, NEW e \in Requests PROVE LossesApart(d, e)'
    <2>1. CASE d = c /\ e # c
      BY <1>1, <2>1 DEF LossesApart
    <2>2. CASE d # c /\ e = c
      <3>1. task'[d] = task[d] /\ task'[e] = begun
        BY <1>1, <2>2
      <3> QED BY <2>2, <3>1 DEF LossesApart
    <2>3. CASE d # c /\ e # c
      BY <1>1, <2>3 DEF LossInv, LossesApart
    <2>4. CASE d = e
      BY <2>4 DEF LossesApart
    <2> QED BY <2>1, <2>2, <2>3, <2>4
  <1>7. LossSums'
    BY DEF LossInv, LossSums, RecoveriesOf, RecoveriesInCash
  <1>8. \A b \in Debtors : OneHouseLoss(b)'
    BY DEF LossInv, OneHouseLoss, HouseLosses
  <1> QED BY <1>2, <1>3, <1>4, <1>5, <1>6, <1>7, <1>8 DEF LossInv

\* A call that gives up leaves the others as they are.
LEMMA LossCallEnds ==
  ASSUME LossInv, UNCHANGED <<bill, loss, recovery, till>>, NEW c \in Requests,
         task' = [task EXCEPT ![c] = Losses!Off]
  PROVE  LossInv'
  <1>1. task'[c] = Losses!Off
    BY DEF LossInv, LossShape
  <1>2. (ReportingLoss(c) /\ DecidingLoss(c) /\ RecoveringLoss(c) /\ ReversingRecovery(c))'
    BY <1>1, OffIs DEF ReportingLoss, DecidingLoss, RecoveringLoss, ReversingRecovery
  <1> QED BY <1>2, OffIs, LossCall DEF LossInv, LossShape

\* What a call has just read of a loss it locks is so.
LEMMA LossReads ==
  ASSUME None \notin Occurrences, PayAmounts \subseteq Nat, LossInv, NEW c \in Requests,
         NEW o \in Occurrences,
         \/ \E b \in Debtors, type \in Types : Losses!ReadReport(c, o, b, type)
         \/ \E decision \in {"house_loss",
            "dismissed", "approved"} : Losses!ReadDecision(c, o, decision)
         \/ \E n \in Recoveries, v \in PayAmounts : Losses!ReadRecovery(c, n, o, v)
  PROVE  LossInv'
  <1>1. ASSUME NEW b \in Debtors, NEW type \in Types, Losses!ReadReport(c, o, b, type) PROVE LossInv'
    <2> DEFINE begun == [Losses!Off EXCEPT !.at = "report",
      !.loss = o, !.order = b, !.type = type, !.amount = bill[b].owed]
    <2>1. /\ task' = [task EXCEPT ![c] = begun] /\ UNCHANGED <<bill, loss, recovery, till>>
          /\ loss[o] = Losses!NoLoss /\ \A d \in Requests : task[d].loss # o
      BY <1>1 DEF Losses!ReadReport, Losses!Begin, Losses!LossFree
    <2>2. bill[b].owed \in Nat
      BY DEF LossInv, LossShape
    <2>3. begun.at = "report" /\ begun.loss = o /\ begun.order = b /\ begun.type = type /\ begun \in TaskRow
      BY <2>2 DEF Losses!Off, TaskRow
    <2> HIDE DEF begun
    <2>4. task'[c] = begun
      BY <2>1 DEF LossInv, LossShape
    <2>5. (ReportingLoss(c) /\ DecidingLoss(c) /\ RecoveringLoss(c) /\ ReversingRecovery(c))'
      BY <2>1, <2>3, <2>4 DEF ReportingLoss, DecidingLoss, RecoveringLoss, ReversingRecovery,
        Losses!NoLoss
    <2> QED BY <2>1, <2>3, <2>5, LossCall DEF LossInv, LossShape
  <1>2. ASSUME NEW decision \in {"house_loss", "dismissed", "approved"},
    Losses!ReadDecision(c, o, decision) PROVE LossInv'
    <2> DEFINE begun == [Losses!Off EXCEPT !.at = decision, !.loss = o]
    <2>1. /\ task' = [task EXCEPT ![c] = begun] /\ UNCHANGED <<bill, loss, recovery, till>>
          /\ loss[o].status = "under_review" /\ \A d \in Requests : task[d].loss # o
      BY <1>2 DEF Losses!ReadDecision, Losses!Begin, Losses!LossFree
    <2>2. begun.at = decision /\ begun.loss = o /\ begun \in TaskRow
      BY DEF Losses!Off, TaskRow
    <2> HIDE DEF begun
    <2>3. task'[c] = begun
      BY <2>1 DEF LossInv, LossShape
    <2>4. (ReportingLoss(c) /\ DecidingLoss(c) /\ RecoveringLoss(c) /\ ReversingRecovery(c))'
      BY <2>1, <2>2, <2>3 DEF ReportingLoss, DecidingLoss, RecoveringLoss, ReversingRecovery
    <2> QED BY <2>1, <2>2, <2>4, LossCall DEF LossInv, LossShape
  <1>3. ASSUME NEW n \in Recoveries, NEW v \in PayAmounts, Losses!ReadRecovery(c, n, o, v) PROVE LossInv'
    <2> DEFINE begun == [Losses!Off EXCEPT !.at = "recover",
      !.loss = o, !.recovery = n, !.amount = v, !.cash = till.open]
    <2>1. /\ task' = [task EXCEPT ![c] = begun] /\ UNCHANGED <<bill, loss, recovery, till>>
          /\ recovery[n] = Losses!NoRecovery /\ \A d \in Requests : task[d].loss # o
             /\ task[d].recovery # n
          /\ AmountOf(recovery, RecoveriesOf(recovery, o)) + v <= loss[o].unpaid
      BY <1>3, LossesFitIs DEF Losses!ReadRecovery, Losses!Begin, Losses!LossFree
    <2>2. till.open \in BOOLEAN /\ v \in Nat
      BY DEF LossInv, LossShape
    <2>3. begun.at = "recover" /\ begun.loss = o /\ begun.recovery = n /\ begun.amount = v
      /\ begun \in TaskRow
      BY <2>2 DEF Losses!Off, TaskRow
    <2> HIDE DEF begun
    <2>4. task'[c] = begun
      BY <2>1 DEF LossInv, LossShape
    <2>5. (ReportingLoss(c) /\ DecidingLoss(c) /\ RecoveringLoss(c) /\ ReversingRecovery(c))'
      BY <2>1, <2>3, <2>4 DEF ReportingLoss, DecidingLoss, RecoveringLoss, ReversingRecovery,
        Losses!NoRecovery, RecoveriesOf
    <2> QED BY <2>1, <2>3, <2>5, LossCall DEF LossInv, LossShape
  <1> QED BY <1>1, <1>2, <1>3

\* What a call has just read of a recovery it locks is so.
LEMMA ReversalReads ==
  ASSUME None \notin Occurrences, LossInv, NEW c \in Requests, NEW n \in Recoveries,
         Losses!ReadReversal(c, n)
  PROVE  LossInv'
  <1> PICK o : o = recovery[n].loss
    OBVIOUS
  <1> DEFINE begun == [Losses!Off EXCEPT !.at = "reverse",
    !.loss = o, !.recovery = n, !.cash = recovery[n].cash]
  <1>1. /\ task' = [task EXCEPT ![c] = begun] /\ UNCHANGED <<bill, loss, recovery, till>>
        /\ recovery[n] # Losses!NoRecovery /\ ~recovery[n].reversed /\ \A d \in Requests : task[d].loss # o
    BY DEF Losses!ReadReversal, Losses!Begin, Losses!LossFree
  <1>2. o \in Occurrences /\ recovery[n].cash \in BOOLEAN
    <2>1. recovery[n] \in RecoveryRow /\ recovery[n].loss # None
      BY <1>1 DEF LossInv, LossShape, RecoveryAgrees
    <2> QED BY <2>1 DEF RecoveryRow
  <1>3. begun.at = "reverse" /\ begun.loss = o /\ begun.recovery = n /\ begun.cash = recovery[n].cash
    /\ begun \in TaskRow
    BY <1>2 DEF Losses!Off, TaskRow
  <1> HIDE DEF begun
  <1>4. task'[c] = begun
    BY <1>1 DEF LossInv, LossShape
  <1>5. (ReportingLoss(c) /\ DecidingLoss(c) /\ RecoveringLoss(c) /\ ReversingRecovery(c))'
    BY <1>1, <1>2, <1>3, <1>4 DEF ReportingLoss, DecidingLoss, RecoveringLoss, ReversingRecovery
  <1> QED BY <1>1, <1>3, <1>5, LossCall DEF LossInv, LossShape

\* What is recovered of a loss is a natural number.
LEMMA RecoveredNat ==
  ASSUME IsFiniteSet(Recoveries), LossInv, NEW A \in SUBSET Recoveries
  PROVE  AmountOf(recovery, A) \in Nat
  <1>1. \A n \in A : recovery[n].amount \in Nat
    BY DEF LossInv, LossShape, RecoveryRow
  <1> QED BY <1>1, AmountOfNat

\* The call that has locked an occurrence writes it, and ends.
LEMMA LossWritten ==
  ASSUME IsFiniteSet(Recoveries), LossInv, NEW c \in Requests, NEW o \in Occurrences, task[c].loss = o,
         task' = [task EXCEPT ![c] = Losses!Off],
         None \notin Occurrences, recovery' = recovery, till' = till,
         NEW row \in LossRow, loss' = [loss EXCEPT ![o] = row], loss[o].unpaid <= row.unpaid,
           row.order \in Debtors,
         row.decision = "house_loss" => bill'[row.order].status = "written_off",
         row.decision = "house_loss" => bill[row.order].status # "written_off",
         bill' \in [Debtors -> [status : {"open", "paid", "written_off"}, owed : Nat]],
         \A b \in Debtors : bill[b].status = "written_off" => bill'[b].status = "written_off"
  PROVE  LossInv'
  <1>1. task'[c] = Losses!Off /\ \A d \in Requests \ {c} : task'[d] = task[d] /\ task[d].loss # o
    BY DEF LossInv, LossShape, LossesApart
  <1>2. loss'[o] = row /\ \A p \in Occurrences \ {o} : loss'[p] = loss[p]
    BY DEF LossInv, LossShape
  <1>3. LossShape'
    BY <1>1, OffIs DEF LossInv, LossShape
  <1>4. \A p \in Occurrences : LossReported(p)'
    BY <1>2 DEF LossInv, LossReported
  <1>5. \A n \in Recoveries : RecoveryAgrees(n)'
    BY DEF LossInv, RecoveryAgrees, Losses!NoRecovery
  <1>6. ASSUME NEW d \in Requests
        PROVE (ReportingLoss(d) /\ DecidingLoss(d) /\ RecoveringLoss(d) /\ ReversingRecovery(d))'
    <2>1. CASE d = c
      BY <1>1, <2>1, OffIs DEF ReportingLoss, DecidingLoss, RecoveringLoss, ReversingRecovery
    <2>2. CASE d # c
      <3>1. task'[d] = task[d]
        /\ (task[d].loss \in Occurrences => loss'[task[d].loss] = loss[task[d].loss])
        BY <1>1, <1>2, <2>2
      <3>2. ReportingLoss(d)' /\ DecidingLoss(d)'
        BY <3>1 DEF LossInv, ReportingLoss, DecidingLoss, Losses!NoLoss
      <3>3. RecoveringLoss(d)'
        <4>1. RecoveriesOf(recovery, task[d].loss)' = RecoveriesOf(recovery, task[d].loss)
          BY <3>1 DEF RecoveriesOf
        <4> QED BY <3>1, <4>1 DEF LossInv, RecoveringLoss, Losses!NoRecovery
      <3>4. ReversingRecovery(d)'
        BY <3>1 DEF LossInv, ReversingRecovery
      <3> QED BY <3>2, <3>3, <3>4
    <2> QED BY <2>1, <2>2
  <1>7. ASSUME NEW d \in Requests, NEW e \in Requests PROVE LossesApart(d, e)'
    <2>1. CASE d # c /\ e # c
      BY <1>1, <2>1 DEF LossInv, LossesApart
    <2>2. CASE d = c \/ e = c
      BY <1>1, <2>2, OffIs DEF LossesApart
    <2> QED BY <2>1, <2>2
  <1>8. LossSums'
    <2>1. ASSUME NEW p \in Occurrences
          PROVE AmountOf(recovery, RecoveriesOf(recovery, p)) <= loss'[p].unpaid
      <3>1. AmountOf(recovery, RecoveriesOf(recovery, p)) <= loss[p].unpaid
        BY DEF LossInv, LossSums
      <3>2. CASE p # o
        BY <1>2, <3>1, <3>2
      <3>3. CASE p = o
        <4>1. loss[p].unpaid \in Nat /\ row.unpaid \in Nat
          BY DEF LossInv, LossShape, LossRow
        <4>2. AmountOf(recovery, RecoveriesOf(recovery, p)) \in Nat
          BY RecoveredNat DEF RecoveriesOf
        <4> QED BY <1>2, <3>1, <3>3, <4>1, <4>2
      <3> QED BY <3>2, <3>3
    <2>2. \A p : RecoveriesOf(recovery, p)' = RecoveriesOf(recovery, p)
      BY DEF RecoveriesOf
    <2>3. RecoveriesInCash(recovery)' = RecoveriesInCash(recovery)
      BY DEF RecoveriesInCash
    <2> QED BY <2>1, <2>2, <2>3 DEF LossInv, LossSums
  <1>9. ASSUME NEW b \in Debtors PROVE OneHouseLoss(b)'
    <2>1. ASSUME NEW p \in Occurrences, p # o, loss[p].order = b, loss[p].decision = "house_loss",
                 row.order = b, row.decision = "house_loss" PROVE FALSE
      BY <2>1 DEF LossInv, LossReported
    <2> QED BY <1>2, <2>1 DEF LossInv, OneHouseLoss, HouseLosses
  <1> QED BY <1>3, <1>4, <1>5, <1>6, <1>7, <1>8, <1>9 DEF LossInv

\* What is owed, and the drawer, without a call.
LEMMA LossStays ==
  ASSUME LossInv, UNCHANGED <<loss, recovery, task>>, till' \in [open : BOOLEAN, recovered : Int],
         till'.recovered = till.recovered,
         bill' \in [Debtors -> [status : {"open", "paid", "written_off"}, owed : Nat]],
         \A b \in Debtors : bill[b].status = "written_off" => bill'[b].status = "written_off"
  PROVE  LossInv'
  <1>1. LossShape'
    BY DEF LossInv, LossShape
  <1>2. \A o \in Occurrences : LossReported(o)'
    BY DEF LossInv, LossReported
  <1>3. \A n \in Recoveries : RecoveryAgrees(n)'
    BY DEF LossInv, RecoveryAgrees, Losses!NoRecovery
  <1>4. ASSUME NEW d \in Requests
        PROVE (ReportingLoss(d) /\ DecidingLoss(d) /\ RecoveringLoss(d) /\ ReversingRecovery(d))'
    <2>1. ReportingLoss(d)' /\ DecidingLoss(d)'
      BY DEF LossInv, ReportingLoss, DecidingLoss, Losses!NoLoss
    <2>2. RecoveringLoss(d)'
      <3>1. RecoveriesOf(recovery, task[d].loss)' = RecoveriesOf(recovery, task[d].loss)
        BY DEF RecoveriesOf
      <3> QED BY <3>1 DEF LossInv, RecoveringLoss, Losses!NoRecovery
    <2>3. ReversingRecovery(d)'
      BY DEF LossInv, ReversingRecovery
    <2> QED BY <2>1, <2>2, <2>3
  <1>5. \A d, e \in Requests : LossesApart(d, e)'
    BY DEF LossInv, LossesApart
  <1>6. LossSums'
    BY DEF LossInv, LossSums, RecoveriesOf, RecoveriesInCash
  <1>7. \A b \in Debtors : OneHouseLoss(b)'
    BY DEF LossInv, OneHouseLoss, HouseLosses
  <1> QED BY <1>1, <1>2, <1>3, <1>4, <1>5, <1>6, <1>7 DEF LossInv

\* Opening or closing the drawer, and paying the bill, touch no loss.
LEMMA LossOutside ==
  ASSUME LossInv, PayAmounts \subseteq Nat,
         Losses!ToggleTill \/ \E b \in Debtors, v \in PayAmounts : Losses!PayBill(b, v)
  PROVE  LossInv'
  <1>1. ASSUME Losses!ToggleTill PROVE LossInv'
    <2>1. till' = [till EXCEPT !.open = ~@] /\ UNCHANGED <<bill, loss, recovery, task>>
      BY <1>1 DEF Losses!ToggleTill
    <2> QED BY <2>1, LossStays DEF LossInv, LossShape
  <1>2. ASSUME NEW b \in Debtors, NEW v \in PayAmounts, Losses!PayBill(b, v) PROVE LossInv'
    <2>1. /\ bill[b].status = "open" /\ v <= bill[b].owed /\ UNCHANGED <<loss, recovery, till, task>>
          /\ bill' = [bill EXCEPT ![b].owed = @ - v,
             ![b].status = IF v = bill[b].owed THEN "paid" ELSE "open"]
      BY <1>2 DEF Losses!PayBill
    <2>2. bill[b].owed - v \in Nat
      BY <2>1 DEF LossInv, LossShape
    <2> QED BY <2>1, <2>2, LossStays DEF LossInv, LossShape
  <1> QED BY <1>1, <1>2

\* A loss that is reported is new and has no recovery.
LEMMA ReportWritten ==
  ASSUME IsFiniteSet(Recoveries), None \notin Occurrences, None # "house_loss", LossInv,
         NEW c \in Requests, Losses!WriteReport(c)
  PROVE  LossInv'
  <1> PICK o, b, type, v : o = task[c].loss /\ b = task[c].order /\ type = task[c].type
    /\ v = task[c].amount
    OBVIOUS
  <1>1. /\ task' = [task EXCEPT ![c] = Losses!Off] /\ UNCHANGED <<bill, recovery, till>>
        /\ task[c].at = "report"
        /\ \/ loss' = loss
           \/ loss' = [loss EXCEPT ![o] = [status |-> "under_review", order |-> b,
                                           type |-> type, decision |-> None, unpaid |-> v]]
    BY DEF Losses!WriteReport, Losses!Done
  <1>2. o \in Occurrences /\ loss[o] = Losses!NoLoss /\ b \in Debtors /\ type \in Types /\ v \in Nat
    BY <1>1 DEF LossInv, LossShape, ReportingLoss, TaskRow
  <1>3. CASE loss' = loss
    BY <1>1, <1>3, LossCallEnds
  <1>4. ASSUME NEW row,
    row = [status |-> "under_review", order |-> b, type |-> type, decision |-> None, unpaid |-> v],
               loss' = [loss EXCEPT ![o] = row] PROVE LossInv'
    <2>1. row \in LossRow /\ row.unpaid = v /\ row.order = b /\ row.decision = None
      BY <1>2, <1>4 DEF LossRow
    <2>2. loss[o].unpaid = 0
      BY <1>2 DEF Losses!NoLoss
    <2>3. bill' \in [Debtors -> [status : {"open", "paid", "written_off"}, owed : Nat]]
      BY <1>1 DEF LossInv, LossShape
    <2>4. row.decision # "house_loss" /\ loss[o].unpaid <= row.unpaid /\ task[c].loss = o
      /\ row.order \in Debtors
      BY <1>2, <2>1, <2>2
    <2>5. \A p \in Debtors : bill[p].status = "written_off" => bill'[p].status = "written_off"
      BY <1>1
    <2> QED BY <1>1, <1>2, <1>4, <2>1, <2>3, <2>4, <2>5, LossWritten
  <1> QED BY <1>1, <1>3, <1>4

\* A loss is decided once, and one decision writes an order off.
LEMMA LossDecided ==
  ASSUME IsFiniteSet(Recoveries), None \notin Occurrences, LossInv, NEW c \in Requests,
         Losses!WriteDecision(c)
  PROVE  LossInv'
  <1> PICK o, b, at : o = task[c].loss /\ b = loss[o].order /\ at = task[c].at
    OBVIOUS
  <1> DEFINE row == [loss[o] EXCEPT !.decision = at,
    !.status = IF at = "approved" THEN "approved" ELSE "closed"]
  <1>1. /\ task' = [task EXCEPT ![c] = Losses!Off] /\ UNCHANGED <<recovery, till>>
        /\ at \in {"house_loss", "dismissed", "approved"}
        /\ \/ at # "house_loss" /\ loss' = [loss EXCEPT ![o] = row] /\ UNCHANGED bill
           \/ /\ bill[b].status = "open" /\ loss' = [loss EXCEPT ![o] = row]
              /\ bill' = [bill EXCEPT ![b].status = "written_off"]
           \/ UNCHANGED <<bill, loss>>
    BY DEF Losses!WriteDecision, Losses!Done
  <1>2. o \in Occurrences /\ loss[o].status = "under_review" /\ b \in Debtors
    BY <1>1 DEF LossInv, DecidingLoss, LossReported
  <1>3. row \in LossRow /\ row.unpaid = loss[o].unpaid /\ row.order = b /\ row.decision = at
    /\ loss[o].unpaid \in Nat
    <2>1. loss[o] \in LossRow
      BY <1>2 DEF LossInv, LossShape
    <2> QED BY <1>1, <2>1 DEF LossRow
  <1> HIDE DEF row
  <1>7. loss[o].unpaid <= row.unpaid /\ task[c].loss = o /\ row.order \in Debtors /\ row \in LossRow
    BY <1>2, <1>3
  <1>4. CASE UNCHANGED <<bill, loss>>
    BY <1>1, <1>4, LossCallEnds
  <1>5. CASE at # "house_loss" /\ loss' = [loss EXCEPT ![o] = row] /\ UNCHANGED bill
    <2>1. bill' \in [Debtors -> [status : {"open", "paid", "written_off"}, owed : Nat]]
      BY <1>5 DEF LossInv, LossShape
    <2>2. row.decision # "house_loss" /\ \A p \in Debtors : bill[p].status = "written_off"
      => bill'[p].status = "written_off"
      BY <1>3, <1>5
    <2> QED BY <1>1, <1>2, <1>3, <1>5, <1>7, <2>1, <2>2, LossWritten
  <1>6. CASE /\ bill[b].status = "open" /\ loss' = [loss EXCEPT ![o] = row]
             /\ bill' = [bill EXCEPT ![b].status = "written_off"]
    <2>1. /\ bill' \in [Debtors -> [status : {"open", "paid", "written_off"}, owed : Nat]]
             /\ bill'[b].status = "written_off"
          /\ \A p \in Debtors : bill[p].status = "written_off" => bill'[p].status = "written_off"
      BY <1>2, <1>6 DEF LossInv, LossShape
    <2>2. bill[row.order].status # "written_off" /\ bill'[row.order].status = "written_off"
      BY <1>3, <1>6, <2>1
    <2> QED BY <1>1, <1>2, <1>6, <1>7, <2>1, <2>2, LossWritten
  <1> QED BY <1>1, <1>4, <1>5, <1>6

\* The call that has locked an occurrence records a recovery of it, or
\* reverses one, and ends.
WritesRecovery(c, o, n, row) ==
    /\ task[c].loss = o /\ task' = [task EXCEPT ![c] = Losses!Off] /\ bill' = bill /\ loss' = loss
    /\ recovery' = [recovery EXCEPT ![n] = row] /\ row.loss = o /\ recovery[n].loss \in {None, o}
    /\ \A d \in Requests \ {c} : task[d].at = "recover" => task[d].recovery # n

\* A call that writes the loss it has locked and a recovery of it keeps LossInv.
LEMMA RecoveryWritten ==
  ASSUME IsFiniteSet(Recoveries), LossInv, None \notin Occurrences, NEW c \in Requests,
         NEW o \in Occurrences, NEW n \in Recoveries,
         NEW row \in RecoveryRow, WritesRecovery(c, o, n, row),
         till' \in [open : BOOLEAN, recovered : Int], LossSums'
  PROVE  LossInv'
  <1> USE DEF WritesRecovery
  <1>1. task'[c] = Losses!Off /\ \A d \in Requests \ {c} : task'[d] = task[d] /\ task[d].loss # o
    BY DEF LossInv, LossShape, LossesApart
  <1>2. recovery'[n] = row /\ \A m \in Recoveries \ {n} : recovery'[m] = recovery[m]
    BY DEF LossInv, LossShape
  <1>3. LossShape'
    BY <1>1, OffIs DEF LossInv, LossShape
  <1>4. \A p \in Occurrences : LossReported(p)'
    BY DEF LossInv, LossReported
  <1>5. \A m \in Recoveries : RecoveryAgrees(m)'
    <2>1. row # Losses!NoRecovery /\ row.loss # None
      BY DEF Losses!NoRecovery
    <2> QED BY <1>2, <2>1 DEF LossInv, RecoveryAgrees, Losses!NoRecovery
  <1>6. ASSUME NEW d \in Requests
        PROVE (ReportingLoss(d) /\ DecidingLoss(d) /\ RecoveringLoss(d) /\ ReversingRecovery(d))'
    <2>1. CASE d = c
      BY <1>1, <2>1, OffIs DEF ReportingLoss, DecidingLoss, RecoveringLoss, ReversingRecovery
    <2>2. CASE d # c
      <3>1. task'[d] = task[d] /\ task[d].loss # o
        BY <1>1, <2>2
      <3>2. ReportingLoss(d)' /\ DecidingLoss(d)'
        BY <3>1 DEF LossInv, ReportingLoss, DecidingLoss, Losses!NoLoss
      <3>3. ASSUME task[d].at = "recover" PROVE RecoveringLoss(d)'
        <4> PICK p : p = task[d].loss
          OBVIOUS
        <4>1. /\ p \in Occurrences /\ task[d].recovery \in Recoveries
              /\ recovery[task[d].recovery] = Losses!NoRecovery
              /\ AmountOf(recovery, RecoveriesOf(recovery, p)) + task[d].amount <= loss[p].unpaid
          BY <3>3 DEF LossInv, RecoveringLoss
        <4>2. recovery'[task[d].recovery] = Losses!NoRecovery
          BY <1>2, <2>2, <3>3, <4>1
        <4>3. RecoveriesOf(recovery', p) = RecoveriesOf(recovery, p)
          /\ n \notin RecoveriesOf(recovery, p)
          BY <1>2, <3>1, <4>1 DEF RecoveriesOf
        <4>4. \A m \in RecoveriesOf(recovery, p) : recovery'[m].amount = recovery[m].amount
          BY <1>2, <4>3 DEF RecoveriesOf
        <4>5. AmountOf(recovery',
          RecoveriesOf(recovery', p)) = AmountOf(recovery, RecoveriesOf(recovery, p))
          <5>1. RecoveriesOf(recovery, p) \in SUBSET Recoveries
            BY DEF RecoveriesOf
          <5>2. AmountOf(recovery',
            RecoveriesOf(recovery, p)) = AmountOf(recovery, RecoveriesOf(recovery, p))
            BY <4>4, <5>1, AmountOfSame
          <5> QED BY <4>3, <5>2
        <4> QED BY <3>1, <4>1, <4>2, <4>5 DEF RecoveringLoss, Losses!NoRecovery
      <3>4. ReversingRecovery(d)'
        BY <1>2, <3>1 DEF LossInv, ReversingRecovery
      <3> QED BY <3>1, <3>2, <3>3, <3>4 DEF RecoveringLoss
    <2> QED BY <2>1, <2>2
  <1>7. ASSUME NEW d \in Requests, NEW e \in Requests PROVE LossesApart(d, e)'
    <2>1. CASE d # c /\ e # c
      BY <1>1, <2>1 DEF LossInv, LossesApart
    <2>2. CASE d = c \/ e = c
      BY <1>1, <2>2, OffIs DEF LossesApart
    <2> QED BY <2>1, <2>2
  <1>8. \A b \in Debtors : OneHouseLoss(b)'
    BY DEF LossInv, OneHouseLoss, HouseLosses
  <1> QED BY <1>3, <1>4, <1>5, <1>6, <1>7, <1>8 DEF LossInv

\* A recovery adds its row and its amount, to the drawer too if in cash.
LEMMA RecoveryRecorded ==
  ASSUME IsFiniteSet(Recoveries), LossInv, None \notin Occurrences, NEW c \in Requests,
         Losses!WriteRecovery(c)
  PROVE  LossInv'
  <1> PICK n, o, v, row : n = task[c].recovery /\ o = task[c].loss /\ v = task[c].amount
                           /\ row = [loss |-> task[c].loss,
                              amount |-> task[c].amount, cash |-> task[c].cash, reversed |-> FALSE]
    OBVIOUS
  <1>1. /\ task[c].at = "recover" /\ task' = [task EXCEPT ![c] = Losses!Off] /\ bill' = bill
        /\ loss' = loss
        /\ recovery' = [recovery EXCEPT ![n] = row]
        /\ till' = IF row.cash THEN [till EXCEPT !.recovered = @ + row.amount] ELSE till
    BY DEF Losses!WriteRecovery, Losses!Done
  <1>2. /\ o \in Occurrences /\ n \in Recoveries /\ recovery[n] = Losses!NoRecovery
        /\ AmountOf(recovery, RecoveriesOf(recovery, o)) + v <= loss[o].unpaid
    BY <1>1 DEF LossInv, RecoveringLoss
  <1>3. row.loss = o /\ row.amount = v /\ row.reversed = FALSE /\ v \in Nat /\ row \in RecoveryRow
    /\ row.cash \in BOOLEAN
    <2>1. task[c] \in TaskRow
      BY DEF LossInv, LossShape
    <2> QED BY <1>2, <2>1 DEF TaskRow, RecoveryRow
  <1>4. recovery[n].loss = None /\ recovery[n].cash = FALSE
    BY <1>2 DEF Losses!NoRecovery
  <1>5. recovery'[n] = row /\ \A m \in Recoveries \ {n} : recovery'[m] = recovery[m]
    BY <1>1, <1>2 DEF LossInv, LossShape
  <1>6. \A d \in Requests \ {c} : task[d].at = "recover" => task[d].recovery # n
    BY <1>1 DEF LossInv, LossesApart
  <1>7. \A m \in Recoveries : recovery[m].amount \in Nat
    BY DEF LossInv, LossShape, RecoveryRow
  <1>8. ASSUME NEW A \in SUBSET Recoveries, n \notin A
        PROVE  /\ AmountOf(recovery', A) = AmountOf(recovery, A) /\ AmountOf(recovery, A) \in Nat
               /\ AmountOf(recovery', A \cup {n}) = AmountOf(recovery, A) + v
    <2>1. recovery'[n].amount = v /\ \A m \in A : recovery'[m].amount = recovery[m].amount
      /\ recovery[m].amount \in Nat
      BY <1>3, <1>5, <1>7, <1>8
    <2>2. AmountOf(recovery', A) = AmountOf(recovery, A)
      BY <2>1, AmountOfSame
    <2>3. AmountOf(recovery, A) \in Nat
      BY <2>1, AmountOfNat
    <2>4. AmountOf(recovery', A \cup {n}) = AmountOf(recovery, A) + recovery'[n].amount
      <3>1. IsFiniteSet(A)
        BY FS_Subset
      <3>2. AddsTo(A, n, recovery, recovery')
        BY <1>3, <1>8, <2>1, <3>1 DEF AddsTo
      <3> QED BY <3>2, AmountOfAdded
    <2> QED BY <2>1, <2>2, <2>3, <2>4
  <1>9. LossSums'
    <2>1. ASSUME NEW p \in Occurrences
          PROVE AmountOf(recovery', RecoveriesOf(recovery', p)) <= loss'[p].unpaid
      <3>1. CASE p = o
        <4>1. RecoveriesOf(recovery', p) = RecoveriesOf(recovery, p) \cup {n}
          /\ n \notin RecoveriesOf(recovery, p)
          BY <1>2, <1>3, <1>4, <1>5, <3>1 DEF RecoveriesOf
        <4>2. RecoveriesOf(recovery, p) \in SUBSET Recoveries
          BY DEF RecoveriesOf
        <4>3. AmountOf(recovery',
          RecoveriesOf(recovery', p)) = AmountOf(recovery, RecoveriesOf(recovery, p)) + v
          BY <1>8, <4>1, <4>2
        <4> QED BY <1>1, <1>2, <3>1, <4>3
      <3>2. CASE p # o
        <4>1. RecoveriesOf(recovery', p) = RecoveriesOf(recovery, p)
          /\ n \notin RecoveriesOf(recovery, p)
          BY <1>2, <1>3, <1>4, <1>5, <3>2 DEF RecoveriesOf
        <4>2. RecoveriesOf(recovery, p) \in SUBSET Recoveries
          /\ AmountOf(recovery, RecoveriesOf(recovery, p)) <= loss[p].unpaid
          BY DEF LossInv, LossSums, RecoveriesOf
        <4>3. AmountOf(recovery',
          RecoveriesOf(recovery', p)) = AmountOf(recovery, RecoveriesOf(recovery, p))
          BY <1>8, <4>1, <4>2
        <4> QED BY <1>1, <4>2, <4>3
      <3> QED BY <3>1, <3>2
    <2>2. till.recovered = AmountOf(recovery, RecoveriesInCash(recovery))
      /\ till \in [open : BOOLEAN, recovered : Int]
      BY DEF LossInv, LossShape, LossSums
    <2>3. CASE row.cash
      <3>1. RecoveriesInCash(recovery') = RecoveriesInCash(recovery) \cup {n}
        /\ n \notin RecoveriesInCash(recovery)
        BY <1>2, <1>3, <1>4, <1>5, <2>3 DEF RecoveriesInCash
      <3>2. till'.recovered = till.recovered + v
        BY <1>1, <1>3, <2>2, <2>3
      <3>3. till'.recovered = AmountOf(recovery', RecoveriesInCash(recovery'))
        BY <1>8, <2>2, <3>1, <3>2 DEF RecoveriesInCash
      <3> QED BY <2>1, <3>3 DEF LossSums
    <2>4. CASE ~row.cash
      <3>1. RecoveriesInCash(recovery') = RecoveriesInCash(recovery)
        /\ n \notin RecoveriesInCash(recovery)
        BY <1>2, <1>3, <1>4, <1>5, <2>4 DEF RecoveriesInCash
      <3>2. till'.recovered = AmountOf(recovery', RecoveriesInCash(recovery'))
        BY <1>1, <1>8, <2>2, <2>4, <3>1 DEF RecoveriesInCash
      <3> QED BY <2>1, <3>2 DEF LossSums
    <2> QED BY <2>3, <2>4
  <1>10. till' \in [open : BOOLEAN, recovered : Int]
    BY <1>1, <1>3 DEF LossInv, LossShape
  <1>11. WritesRecovery(c, o, n, row)
    BY <1>1, <1>2, <1>3, <1>4, <1>6 DEF WritesRecovery
  <1> QED BY <1>2, <1>3, <1>9, <1>10, <1>11, RecoveryWritten

\* A reversal takes the amount of its recovery back.
LEMMA RecoveryReversed ==
  ASSUME IsFiniteSet(Recoveries), LossInv, None \notin Occurrences, NEW c \in Requests,
         Losses!WriteReversal(c)
  PROVE  LossInv'
  <1> PICK n, o, v, row : n = task[c].recovery /\ o = task[c].loss /\ v = recovery[n].amount
                           /\ row = [recovery[n] EXCEPT !.reversed = TRUE]
    OBVIOUS
  <1>1. /\ task[c].at = "reverse" /\ task' = [task EXCEPT ![c] = Losses!Off] /\ bill' = bill
        /\ loss' = loss
        /\ recovery' = [recovery EXCEPT ![n] = row]
        /\ till' = IF task[c].cash THEN [till EXCEPT !.recovered = @ - v] ELSE till
    BY DEF Losses!WriteReversal, Losses!Done
  <1>2. /\ o \in Occurrences /\ n \in Recoveries /\ recovery[n].loss = o /\ ~recovery[n].reversed
        /\ recovery[n].cash = task[c].cash
    BY <1>1 DEF LossInv, ReversingRecovery
  <1>3. row.loss = o /\ row.amount = v /\ row.reversed = TRUE /\ v \in Nat /\ row \in RecoveryRow
    /\ recovery[n].cash \in BOOLEAN
    <2>1. recovery[n] \in RecoveryRow
      BY <1>2 DEF LossInv, LossShape
    <2> QED BY <1>2, <2>1 DEF RecoveryRow
  <1>4. recovery'[n] = row /\ \A m \in Recoveries \ {n} : recovery'[m] = recovery[m]
    BY <1>1, <1>2 DEF LossInv, LossShape
  <1>5. \A d \in Requests \ {c} : task[d].at = "recover" => task[d].recovery # n
    BY <1>2 DEF LossInv, RecoveringLoss, Losses!NoRecovery
  <1>6. \A m \in Recoveries : recovery[m].amount \in Nat
    BY DEF LossInv, LossShape, RecoveryRow
  <1>7. ASSUME NEW A \in SUBSET Recoveries, n \notin A
        PROVE  /\ AmountOf(recovery', A) = AmountOf(recovery, A) /\ AmountOf(recovery, A) \in Nat
               /\ AmountOf(recovery, A \cup {n}) = AmountOf(recovery', A) + v
    <2>1. \A m \in A : recovery[m].amount = recovery'[m].amount /\ recovery'[m].amount \in Nat
      BY <1>4, <1>6, <1>7
    <2>2. AmountOf(recovery', A) = AmountOf(recovery, A)
      BY <2>1, AmountOfSame
    <2>3. AmountOf(recovery, A) \in Nat
      BY <2>1, AmountOfNat
    <2>4. AmountOf(recovery, A \cup {n}) = AmountOf(recovery', A) + recovery[n].amount
      <3>1. IsFiniteSet(A)
        BY FS_Subset
      <3>2. AddsTo(A, n, recovery', recovery)
        BY <1>3, <1>7, <2>1, <3>1 DEF AddsTo
      <3> QED BY <3>2, AmountOfAdded
    <2> QED BY <2>2, <2>3, <2>4
  <1>8. LossSums'
    <2>1. ASSUME NEW p \in Occurrences
          PROVE AmountOf(recovery', RecoveriesOf(recovery', p)) <= loss'[p].unpaid
      <3>1. AmountOf(recovery, RecoveriesOf(recovery, p)) <= loss[p].unpaid /\ loss[p].unpaid \in Nat
        BY DEF LossInv, LossSums, LossShape, LossRow
      <3>2. CASE p = o
        <4>1. RecoveriesOf(recovery, p) = RecoveriesOf(recovery', p) \cup {n}
          /\ n \notin RecoveriesOf(recovery', p) /\ RecoveriesOf(recovery', p) \in SUBSET Recoveries
          BY <1>2, <1>3, <1>4, <3>2 DEF RecoveriesOf
        <4>2. /\ AmountOf(recovery,
                 RecoveriesOf(recovery, p)) = AmountOf(recovery', RecoveriesOf(recovery', p)) + v
              /\ AmountOf(recovery', RecoveriesOf(recovery', p)) \in Nat
          BY <1>7, <4>1
        <4> QED BY <1>1, <1>3, <3>1, <4>2
      <3>3. CASE p # o
        <4>1. RecoveriesOf(recovery', p) = RecoveriesOf(recovery, p)
          /\ n \notin RecoveriesOf(recovery, p)
          <5>1. \A m \in Recoveries : recovery'[m].loss = recovery[m].loss
            BY <1>2, <1>3, <1>4
          <5>2. \A m \in Recoveries \ {n} : recovery'[m].reversed = recovery[m].reversed
            BY <1>4
          <5> QED BY <1>2, <3>3, <5>1, <5>2 DEF RecoveriesOf
        <4>2. RecoveriesOf(recovery, p) \in SUBSET Recoveries
          BY DEF RecoveriesOf
        <4>3. AmountOf(recovery',
          RecoveriesOf(recovery', p)) = AmountOf(recovery, RecoveriesOf(recovery, p))
          BY <1>7, <4>1, <4>2
        <4> QED BY <1>1, <3>1, <4>3
      <3> QED BY <3>2, <3>3
    <2>2. till.recovered = AmountOf(recovery, RecoveriesInCash(recovery))
      /\ till \in [open : BOOLEAN, recovered : Int]
      BY DEF LossInv, LossShape, LossSums
    <2>3. CASE recovery[n].cash
      <3>1. RecoveriesInCash(recovery) = RecoveriesInCash(recovery') \cup {n}
        /\ n \notin RecoveriesInCash(recovery') /\ RecoveriesInCash(recovery') \in SUBSET Recoveries
        BY <1>2, <1>3, <1>4, <2>3 DEF RecoveriesInCash
      <3>2. till'.recovered = till.recovered - v
        BY <1>1, <1>2, <2>2, <2>3
      <3>3. till'.recovered = AmountOf(recovery', RecoveriesInCash(recovery'))
        BY <1>3, <1>7, <2>2, <3>1, <3>2
      <3> QED BY <2>1, <3>3 DEF LossSums
    <2>4. CASE ~recovery[n].cash
      <3>1. RecoveriesInCash(recovery') = RecoveriesInCash(recovery)
        /\ n \notin RecoveriesInCash(recovery)
        <4>1. row.cash = recovery[n].cash
          BY <1>2, <1>3 DEF LossInv, LossShape, RecoveryRow
        <4> QED BY <1>2, <1>3, <1>4, <2>4, <4>1 DEF RecoveriesInCash
      <3>2. till'.recovered = AmountOf(recovery', RecoveriesInCash(recovery'))
        BY <1>1, <1>2, <1>7, <2>2, <2>4, <3>1 DEF RecoveriesInCash
      <3> QED BY <2>1, <3>2 DEF LossSums
    <2> QED BY <1>3, <2>3, <2>4
  <1>9. till' \in [open : BOOLEAN, recovered : Int]
    BY <1>1, <1>3 DEF LossInv, LossShape
  <1>10. WritesRecovery(c, o, n, row)
    BY <1>1, <1>2, <1>3, <1>5 DEF WritesRecovery
  <1> QED BY <1>2, <1>3, <1>8, <1>9, <1>10, RecoveryWritten

\* At first nothing is lost, so LossInv holds.
LEMMA LossStarts ==
  ASSUME IsFiniteSet(Recoveries), None \notin Occurrences, None # "house_loss", PayAmounts \subseteq Nat,
         Owed \in Nat
  PROVE  Losses!Init => LossInv
  <1> SUFFICES ASSUME Losses!Init PROVE LossInv
    OBVIOUS
  <1>1. /\ bill = [b \in Debtors |-> [status |-> "open", owed |-> Owed]]
        /\ loss = [o \in Occurrences |-> Losses!NoLoss]
        /\ recovery = [n \in Recoveries |-> Losses!NoRecovery]
        /\ till = [open |-> FALSE, recovered |-> 0]
        /\ task = [c \in Requests |-> Losses!Off]
    BY DEF Losses!Init
  <1>2. Losses!NoLoss \in LossRow /\ Losses!NoRecovery \in RecoveryRow
    BY DEF Losses!NoLoss, Losses!NoRecovery, LossRow, RecoveryRow
  <1>3. LossShape
    BY <1>1, <1>2, OffIs DEF LossShape
  <1>4. \A o \in Occurrences : LossReported(o)
    BY <1>1 DEF LossReported, Losses!NoLoss
  <1>5. \A n \in Recoveries : RecoveryAgrees(n)
    BY <1>1 DEF RecoveryAgrees, Losses!NoRecovery
  <1>6. \A c \in Requests : ReportingLoss(c) /\ DecidingLoss(c) /\ RecoveringLoss(c)
    /\ ReversingRecovery(c)
    BY <1>1, OffIs DEF ReportingLoss, DecidingLoss, RecoveringLoss, ReversingRecovery
  <1>7. \A c, d \in Requests : LossesApart(c, d)
    BY <1>1, OffIs DEF LossesApart
  <1>8. LossSums
    <2>1. RecoveriesInCash(recovery) = {} /\ \A o \in Occurrences : RecoveriesOf(recovery, o) = {}
      BY <1>1 DEF RecoveriesInCash, RecoveriesOf, Losses!NoRecovery
    <2>2. till.recovered = 0 /\ \A o \in Occurrences : loss[o].unpaid = 0
      BY <1>1 DEF Losses!NoLoss
    <2> QED BY <2>1, <2>2, AmountOfNone DEF LossSums
  <1>9. \A b \in Debtors : OneHouseLoss(b)
    BY <1>1 DEF OneHouseLoss, HouseLosses, Losses!NoLoss
  <1> QED BY <1>3, <1>4, <1>5, <1>6, <1>7, <1>8, <1>9 DEF LossInv

\* Every step keeps LossInv.
LEMMA LossInductive ==
  ASSUME IsFiniteSet(Recoveries), None \notin Occurrences, None # "house_loss", PayAmounts \subseteq Nat,
         Owed \in Nat
  PROVE  LossInv /\ [Losses!Next]_Losses!occurrenceVars => LossInv'
  <1>1. ASSUME LossInv, UNCHANGED Losses!occurrenceVars PROVE LossInv'
    BY <1>1, LossStays DEF Losses!occurrenceVars, LossInv, LossShape
  <1>2. ASSUME LossInv, NEW c \in Requests, Losses!Fail(c) PROVE LossInv'
    BY <1>2, LossCallEnds DEF Losses!Fail, Losses!Done
  <1> QED BY <1>1, <1>2, LossOutside, LossReads, ReversalReads, ReportWritten, LossDecided,
    RecoveryRecorded,
             RecoveryReversed DEF Losses!Next

\* LossInv says that what is recovered fits.
LEMMA LossFits ==
  ASSUME IsFiniteSet(Recoveries), None \notin Occurrences, None # "house_loss", PayAmounts \subseteq Nat,
         Owed \in Nat
  PROVE  LossInv => Losses!LossesFit
  <1> SUFFICES ASSUME LossInv, NEW b \in Debtors PROVE Cardinality(HouseLosses(b)) <= 1
    BY LossesFitIs DEF LossInv, LossSums
  <1>1. CASE HouseLosses(b) = {}
    BY <1>1, FS_EmptySet
  <1>2. CASE HouseLosses(b) # {}
    <2>1. PICK o : o \in HouseLosses(b)
      BY <1>2
    <2>2. HouseLosses(b) = {o}
      BY <2>1 DEF LossInv, OneHouseLoss
    <2>3. Cardinality({o}) = 1
      BY FS_Singleton
    <2> QED BY <2>2, <2>3
  <1> QED BY <1>1, <1>2

\* What is recovered of a loss stays within it, the drawers hold what was
\* recovered through them, and an order is written off by one decision,
\* however reports, decisions, recoveries and reversals interleave.
THEOREM LossRecoveredOnce ==
  ASSUME IsFiniteSet(Recoveries), None \notin Occurrences, None # "house_loss", PayAmounts \subseteq Nat,
         Owed \in Nat
  PROVE  Losses!Spec => []Losses!LossesFit
  <1> QED BY LossStarts, LossInductive, LossFits, PTL DEF Losses!Spec
-----------------------------------------------------------------------------
(*                 Orders and events from outside (Intake)                 *)

RunShape == /\ run = [c \in Requests |-> run[c]]
            /\ \A c \in Requests : DOMAIN run[c] = {"at", "key", "delivery", "to", "event", "left"}

DeliveryShape == /\ delivery = [d \in Deliveries |-> delivery[d]]
                 /\ \A d \in Deliveries : DOMAIN delivery[d] = {"status", "key"}

Present(d) == delivery[d].status # "absent"

\* Whoever enters an order holds its key, and no delivery carries it.
Entering(c) == run[c].at = "enter" =>
    /\ run[c].key # None
    /\ \A d \in Deliveries : Present(d) => delivery[d].key # run[c].key

\* A delivery that is changed is there, and stays there.
Changing(c) ==
    /\ run[c].at \in {"update", "cancel"} => run[c].delivery \in Deliveries /\ Present(run[c].delivery)
    /\ run[c].at = "update" => run[c].to # "absent"
    /\ run[c].at = "process" => run[c].event \in Events

OneEntry(c, d) == run[c].at = "enter" /\ run[d].at = "enter" /\ run[c].key = run[d].key => c = d

EntryInv ==
    /\ RunShape /\ DeliveryShape
    /\ \A c \in Requests : Entering(c) /\ Changing(c)
    /\ \A c, d \in Requests : OneEntry(c, d)
    /\ Mail!EnteredOnce

Moves(c, begun) ==
    /\ run' = [run EXCEPT ![c] = begun]
    /\ DOMAIN begun = {"at", "key", "delivery", "to", "event", "left"}

\* A call at rest has the fields of any call.
LEMMA OffShape ==
  /\ DOMAIN Mail!Off = {"at", "key", "delivery", "to", "event", "left"}
  /\ Mail!Off.at = "idle" /\ Mail!Off.event = None /\ Mail!Off.key = None
  BY DEF Mail!Off

\* A call begins or ends, and no delivery changes.
LEMMA CallTurns ==
  ASSUME EntryInv, delivery' = delivery, NEW c \in Requests, NEW begun, Moves(c, begun),
         begun.at = "enter" => /\ begun.key # None /\ \A d \in Requests : run[d].key # begun.key
                              /\ \A d \in Deliveries : Present(d) => delivery[d].key # begun.key,
         begun.at \in {"update", "cancel"} => begun.delivery \in Deliveries /\ Present(begun.delivery),
         begun.at = "update" => begun.to # "absent",
         begun.at = "process" => begun.event \in Events
  PROVE  EntryInv'
  <1>1. run'[c] = begun /\ \A d \in Requests \ {c} : run'[d] = run[d]
    BY DEF EntryInv, RunShape, Moves
  <1>2. RunShape' /\ DeliveryShape'
    BY <1>1 DEF EntryInv, RunShape, DeliveryShape, Moves
  <1>3. ASSUME NEW d \in Requests PROVE (Entering(d) /\ Changing(d))'
    BY <1>1 DEF EntryInv, Entering, Changing, Present
  <1>4. ASSUME NEW d \in Requests, NEW f \in Requests PROVE OneEntry(d, f)'
    BY <1>1 DEF EntryInv, OneEntry
  <1>5. Mail!EnteredOnce'
    BY DEF EntryInv, Mail!EnteredOnce, Mail!Entered
  <1> QED BY <1>2, <1>3, <1>4, <1>5 DEF EntryInv

\* A delivery that is there gets another status, and at most loses its key.
LEMMA DeliveryMoves ==
  ASSUME EntryInv, NEW d \in Deliveries, Present(d), NEW x, x.status # "absent",
         x.key \in {delivery[d].key, None},
         DOMAIN x = {"status", "key"}, delivery' = [delivery EXCEPT ![d] = x],
         NEW c \in Requests, NEW begun, Moves(c, begun), 
         \/ begun.at = "idle"
         \/ run[c].at = "process" /\ begun.at = "process" /\ begun.event = run[c].event
  PROVE  EntryInv'
  <1>1. run'[c] = begun /\ \A e \in Requests \ {c} : run'[e] = run[e]
    BY DEF EntryInv, RunShape, Moves
  <1>2. delivery'[d] = x /\ \A e \in Deliveries \ {d} : delivery'[e] = delivery[e]
    BY DEF EntryInv, DeliveryShape
  <1>3. RunShape' /\ DeliveryShape'
    BY <1>1, <1>2 DEF EntryInv, RunShape, DeliveryShape, Moves
  <1>4. ASSUME NEW e \in Requests PROVE (Entering(e) /\ Changing(e))'
    BY <1>1, <1>2 DEF EntryInv, Entering, Changing, Present
  <1>5. ASSUME NEW e \in Requests, NEW f \in Requests PROVE OneEntry(e, f)'
    BY <1>1 DEF EntryInv, OneEntry
  <1>6. Mail!EnteredOnce'
    BY <1>2 DEF EntryInv, Mail!EnteredOnce, Mail!Entered, Present
  <1> QED BY <1>3, <1>4, <1>5, <1>6 DEF EntryInv

\* A step keeps EntryInv: one delivery for each key.
LEMMA EntryStep ==
  ASSUME \A e \in Events : e.to # "absent"
  PROVE  EntryInv /\ [Mail!Next]_Mail!intakeVars => EntryInv'
  <1> SUFFICES ASSUME EntryInv, [Mail!Next]_Mail!intakeVars PROVE EntryInv'
    OBVIOUS
  <1>1. CASE UNCHANGED Mail!intakeVars
    BY <1>1 DEF Mail!intakeVars, EntryInv, RunShape, DeliveryShape, Entering, Changing, OneEntry,
      Present,
                Mail!EnteredOnce, Mail!Entered
  <1>2. ASSUME NEW c \in Requests, run' = [run EXCEPT ![c] = Mail!Off], delivery' = delivery
        PROVE EntryInv'
    BY <1>2, CallTurns, OffShape DEF Moves
  <1>3. ASSUME NEW c \in Requests, NEW k \in OrderKeys, Mail!ReadEntry(c, k) PROVE EntryInv'
    <2> DEFINE begun == [Mail!Off EXCEPT !.at = "enter", !.key = k]
    <2>1. run' = [run EXCEPT ![c] = begun] /\ delivery' = delivery /\ \A d \in Requests : run[d].key # k
      BY <1>3 DEF Mail!ReadEntry, Mail!Begin, Mail!KeyFree
    <2>2. k # None
      BY <1>3, <2>1, OffShape DEF Mail!ReadEntry, Mail!Begin
    <2>3. \A d \in Deliveries : Present(d) => delivery[d].key # k
      BY <1>3 DEF Mail!ReadEntry, Mail!Entered, Present
    <2>4. begun.at = "enter" /\ begun.key = k
      /\ DOMAIN begun = {"at", "key", "delivery", "to", "event", "left"}
      BY DEF Mail!Off
    <2> HIDE DEF begun
    <2> QED BY <2>1, <2>2, <2>3, <2>4, CallTurns DEF Moves
  <1>4. ASSUME NEW c \in Requests, NEW d \in Deliveries, Mail!WriteEntry(c, d) PROVE EntryInv'
    <2> DEFINE k == run[c].key
    <2>1. /\ run[c].at = "enter" /\ ~Present(d) /\ run' = [run EXCEPT ![c] = Mail!Off]
          /\ delivery' = [delivery EXCEPT ![d] = [status |-> "pending", key |-> k]]
      BY <1>4 DEF Mail!WriteEntry, Mail!Entered, Mail!Done, Present
    <2>2. k # None /\ \A f \in Deliveries : Present(f) => delivery[f].key # k
      BY <2>1 DEF EntryInv, Entering
    <2>3. delivery'[d] = [status |-> "pending", key |-> k]
      /\ \A f \in Deliveries \ {d} : delivery'[f] = delivery[f]
      BY <2>1 DEF EntryInv, DeliveryShape
    <2>4. run'[c] = Mail!Off /\ \A e \in Requests \ {c} : run'[e] = run[e]
      BY <2>1 DEF EntryInv, RunShape
    <2>5. RunShape' /\ DeliveryShape'
      BY <2>1, <2>3, <2>4, OffShape DEF EntryInv, RunShape, DeliveryShape
    <2>6. ASSUME NEW e \in Requests PROVE (Entering(e) /\ Changing(e))'
      <3>1. CASE e = c
        BY <2>4, <3>1, OffShape DEF Entering, Changing
      <3>2. CASE e # c
        <4>1. run[e].at = "enter" => run[e].key # k
          BY <2>1, <3>2 DEF EntryInv, OneEntry
        <4> QED BY <2>3, <2>4, <3>2, <4>1 DEF EntryInv, Entering, Changing, Present
      <3> QED BY <3>1, <3>2
    <2>7. ASSUME NEW e \in Requests, NEW f \in Requests PROVE OneEntry(e, f)'
      BY <2>4, OffShape DEF EntryInv, OneEntry
    <2>8. Mail!EnteredOnce'
      <3>1. \A e \in Deliveries : e # d /\ Present(e)' => Present(e) /\ delivery'[e] = delivery[e]
        /\ delivery[e].key # k
        BY <2>2, <2>3 DEF Present
      <3> QED BY <2>3, <3>1 DEF EntryInv, Mail!EnteredOnce, Mail!Entered, Present
    <2> QED BY <2>5, <2>6, <2>7, <2>8 DEF EntryInv
  <1>5. ASSUME NEW c \in Requests, NEW at, NEW d \in Deliveries, NEW to, Mail!ReadUpdate(c, at, d, to),
               at \in {"update", "cancel"}, to # "absent" PROVE EntryInv'
    <2> DEFINE begun == [Mail!Off EXCEPT !.at = at, !.delivery = d, !.to = to]
    <2>1. run' = [run EXCEPT ![c] = begun] /\ delivery' = delivery /\ Present(d)
      BY <1>5 DEF Mail!ReadUpdate, Mail!Begin, Present
    <2>2. /\ begun.at = at /\ begun.delivery = d /\ begun.to = to
          /\ DOMAIN begun = {"at", "key", "delivery", "to", "event", "left"}
      BY DEF Mail!Off
    <2> HIDE DEF begun
    <2> QED BY <1>5, <2>1, <2>2, CallTurns DEF Moves
  <1>6. ASSUME NEW c \in Requests, NEW d \in Deliveries,
    Mail!UpdateDelivery(c, d) \/ Mail!CancelDelivery(c, d)
        PROVE  EntryInv'
    BY <1>5, <1>6 DEF Mail!UpdateDelivery, Mail!CancelDelivery
  <1>7. ASSUME NEW c \in Requests, Mail!WriteUpdate(c) PROVE EntryInv'
    <2> PICK d : d = run[c].delivery
      OBVIOUS
    <2> DEFINE x == [delivery[d] EXCEPT !.status = run[c].to]
    <2>1. /\ d \in Deliveries /\ Present(d) /\ run[c].to # "absent"
          /\ DOMAIN delivery[d] = {"status", "key"}
          /\ delivery' = [delivery EXCEPT ![d] = x] /\ run' = [run EXCEPT ![c] = Mail!Off]
      BY <1>7 DEF Mail!WriteUpdate, Mail!Done, EntryInv, Changing, DeliveryShape
    <2>2. x.status = run[c].to /\ x.key = delivery[d].key /\ DOMAIN x = {"status", "key"}
      BY <2>1
    <2> HIDE DEF x
    <2>3. Moves(c, Mail!Off) /\ Mail!Off.at = "idle"
      BY <2>1, OffShape DEF Moves
    <2> QED BY <2>1, <2>2, <2>3, DeliveryMoves
  <1>8. ASSUME NEW c \in Requests, Mail!WriteCancel(c) PROVE EntryInv'
    <2> PICK d : d = run[c].delivery
      OBVIOUS
    <2> DEFINE x == [status |-> "canceled", key |-> None]
    <2>1. /\ d \in Deliveries /\ Present(d)
          /\ delivery' = [delivery EXCEPT ![d] = x] /\ run' = [run EXCEPT ![c] = Mail!Off]
      BY <1>8 DEF Mail!WriteCancel, Mail!Done, EntryInv, Changing
    <2>2. x.status # "absent" /\ x.key = None /\ DOMAIN x = {"status", "key"}
      OBVIOUS
    <2> HIDE DEF x
    <2>3. Moves(c, Mail!Off) /\ Mail!Off.at = "idle"
      BY <2>1, OffShape DEF Moves
    <2> QED BY <2>1, <2>2, <2>3, DeliveryMoves
  <1>9. ASSUME NEW c \in Requests, NEW e \in Events, Mail!Accept(c, e) PROVE EntryInv'
    <2> DEFINE begun == [Mail!Off EXCEPT !.at = "process", !.event = e, !.left = Mail!Statements(e)]
    <2>1. run' = [run EXCEPT ![c] = begun] /\ delivery' = delivery
      BY <1>9 DEF Mail!Accept, Mail!Begin
    <2>2. begun.at = "process" /\ begun.event = e
      /\ DOMAIN begun = {"at", "key", "delivery", "to", "event", "left"}
      BY DEF Mail!Off
    <2> HIDE DEF begun
    <2> QED BY <2>1, <2>2, CallTurns DEF Moves
  <1>10. ASSUME NEW c \in Requests, Mail!Apply(c) PROVE EntryInv'
    <2>1. run[c].at = "process" /\ run[c].event \in Events
      /\ DOMAIN run[c] = {"at", "key", "delivery", "to", "event", "left"}
      BY <1>10 DEF Mail!Apply, EntryInv, Changing, RunShape
    <2>2. PICK begun : run' = [run EXCEPT ![c] = begun] /\ begun.at = "process"
      /\ begun.event = run[c].event
                      /\ DOMAIN begun = DOMAIN run[c]
      <3> DEFINE begun == [run[c] EXCEPT !.left = Mail!Tail(run[c].left)]
      <3>1. run' = [run EXCEPT ![c] = begun]
        BY <1>10 DEF Mail!Apply
      <3>2. begun.at = "process" /\ begun.event = run[c].event /\ DOMAIN begun = DOMAIN run[c]
        BY <2>1
      <3> HIDE DEF begun
      <3> QED BY <3>1, <3>2
    <2>3. Moves(c, begun)
      BY <2>1, <2>2 DEF Moves
    <2>4. CASE delivery' = delivery
      BY <2>1, <2>2, <2>3, <2>4, CallTurns
    <2>5. ASSUME NEW d \in Mail!Entered, delivery' = [delivery EXCEPT ![d].status = run[c].event.to]
          PROVE EntryInv'
      <3> DEFINE x == [delivery[d] EXCEPT !.status = run[c].event.to]
      <3>1. d \in Deliveries /\ Present(d) /\ DOMAIN delivery[d] = {"status", "key"}
        /\ run[c].event.to # "absent"
        BY <2>1 DEF Mail!Entered, Present, EntryInv, DeliveryShape
      <3>2. /\ x.status = run[c].event.to /\ x.key = delivery[d].key /\ DOMAIN x = {"status", "key"}
            /\ delivery' = [delivery EXCEPT ![d] = x]
        BY <2>5, <3>1
      <3> HIDE DEF x
      <3> QED BY <2>1, <2>2, <2>3, <3>1, <3>2, DeliveryMoves
    <2> QED BY <1>10, <2>4, <2>5 DEF Mail!Apply
  <1>11. ASSUME NEW c \in Requests, Mail!MarkProcessed(c) \/ Mail!Fail(c) \/ Mail!Crash(c) PROVE EntryInv'
    BY <1>2, <1>11 DEF Mail!MarkProcessed, Mail!Fail, Mail!Report, Mail!Crash, Mail!Done
  <1>12. ASSUME NEW e \in Events, Mail!LeaseEnds(e) PROVE EntryInv'
    BY <1>12 DEF Mail!LeaseEnds, EntryInv, RunShape, DeliveryShape, Entering, Changing, OneEntry,
      Present,
                 Mail!EnteredOnce, Mail!Entered
  <1> QED BY <1>1, <1>3, <1>4, <1>6, <1>7, <1>8, <1>9, <1>10, <1>11, <1>12 DEF Mail!Next

Holders(e) == {c \in Requests : run[c].event = e}

\* The leases of an event that its holders may count on: those that ended and
\* the one that runs.
Leases(e) == expired[e] + (IF inbox[e].status = "processing" /\ ~inbox[e].ended THEN 1 ELSE 0)

LeaseInv ==
    /\ RunShape
    /\ inbox \in [Events -> [status : {"absent", "processing", "processed", "failed"}, ended : BOOLEAN]]
    /\ expired \in [Events -> Nat]
    /\ \A c \in Requests : run[c].at = "process" => run[c].event \in Events
    /\ \A e \in Events : Cardinality(Holders(e)) <= Leases(e)

\* A call that begins or ends holds at most what it held, or what it claims.
LEMMA HoldersChange ==
  ASSUME IsFiniteSet(Requests), NEW e, NEW c \in Requests, \A d \in Requests \ {c} : run'[d] = run[d]
  PROVE  /\ Cardinality(Holders(e)) \in Nat /\ Cardinality(Holders(e)') \in Nat
         /\ run'[c].event # e => Cardinality(Holders(e)') <= Cardinality(Holders(e))
         /\ run'[c].event # e /\ run[c].event = e
            => Cardinality(Holders(e)') = Cardinality(Holders(e)) - 1
         /\ Cardinality(Holders(e)') <= Cardinality(Holders(e)) + 1
         /\ run'[c].event = run[c].event => Cardinality(Holders(e)') = Cardinality(Holders(e))
  <1> DEFINE A == Holders(e)
             B == Holders(e)'
  <1>1. /\ B \ {c} = A \ {c} /\ (c \in A <=> run[c].event = e) /\ (c \in B <=> run'[c].event = e)
        /\ A \subseteq Requests /\ B \subseteq Requests
    BY DEF Holders
  <1> HIDE DEF A, B
  <1>2. IsFiniteSet(A) /\ IsFiniteSet(B) /\ IsFiniteSet(A \ {c})
    BY <1>1, FS_Subset
  <1>3. ASSUME NEW S, IsFiniteSet(S)
        PROVE  /\ Cardinality(S) \in Nat /\ Cardinality(S \ {c}) \in Nat
               /\ Cardinality(S) = IF c \in S THEN Cardinality(S \ {c}) + 1 ELSE Cardinality(S \ {c})
    <2>1. IsFiniteSet(S \ {c})
      BY <1>3, FS_Subset
    <2>2. Cardinality(S) \in Nat /\ Cardinality(S \ {c}) \in Nat
      BY <1>3, <2>1, FS_CardinalityType
    <2>3. CASE c \in S
      <3>1. S = (S \ {c}) \cup {c} /\ c \notin S \ {c}
        BY <2>3
      <3>2. Cardinality((S \ {c}) \cup {c}) = Cardinality(S \ {c}) + 1
        BY <2>1, <3>1, FS_AddElement
      <3> QED BY <2>2, <2>3, <3>1, <3>2
    <2>4. CASE c \notin S
      BY <2>2, <2>4
    <2> QED BY <2>3, <2>4
  <1>4. /\ Cardinality(A) \in Nat /\ Cardinality(B) \in Nat /\ Cardinality(A \ {c}) \in Nat
        /\ Cardinality(A) = IF c \in A THEN Cardinality(A \ {c}) + 1 ELSE Cardinality(A \ {c})
        /\ Cardinality(B) = IF c \in B THEN Cardinality(A \ {c}) + 1 ELSE Cardinality(A \ {c})
    BY <1>1, <1>2, <1>3
  <1> QED BY <1>1, <1>4 DEF A, B

\* A step keeps LeaseInv: whoever works on an event has or had its lease.
LEMMA LeaseStep ==
  ASSUME IsFiniteSet(Requests), None \notin Events
  PROVE  LeaseInv /\ [Mail!Next]_Mail!intakeVars => LeaseInv'
  <1> SUFFICES ASSUME LeaseInv, [Mail!Next]_Mail!intakeVars PROVE LeaseInv'
    OBVIOUS
  <1> USE DEF LeaseInv, RunShape
  <1>1. ASSUME NEW e \in Events PROVE /\ Cardinality(Holders(e)) <= Leases(e)
                                      /\ Leases(e) \in Nat /\ inbox[e].ended \in BOOLEAN
                                      /\ inbox[e].status \in {"absent",
                                         "processing", "processed", "failed"}
    BY <1>1 DEF Leases
  <1>2. CASE UNCHANGED Mail!intakeVars
    BY <1>2 DEF Mail!intakeVars, Holders, Leases
  <1>3. ASSUME NEW c \in Requests, NEW begun, run' = [run EXCEPT ![c] = begun], UNCHANGED <<inbox, expired>>,
               DOMAIN begun = {"at", "key", "delivery", "to", "event", "left"},
               begun.at = "process" => begun.event \in Events, begun.event \in {run[c].event, None}
        PROVE  LeaseInv'
    <2>1. run'[c] = begun /\ \A d \in Requests \ {c} : run'[d] = run[d]
      BY <1>3
    <2>2. ASSUME NEW e \in Events PROVE (Cardinality(Holders(e)) <= Leases(e))'
      <3>1. Cardinality(Holders(e)') <= Cardinality(Holders(e)) /\ Cardinality(Holders(e)') \in Nat
        /\ Cardinality(Holders(e)) \in Nat
        <4>1. CASE begun.event = run[c].event
          BY <2>1, <4>1, HoldersChange
        <4>2. CASE begun.event # e
          BY <2>1, <4>2, HoldersChange
        <4> QED BY <1>3, <4>1, <4>2
      <3>2. Leases(e)' = Leases(e)
        BY <1>3 DEF Leases
      <3>3. Cardinality(Holders(e))' = Cardinality(Holders(e)')
        OBVIOUS
      <3> QED BY <1>1, <3>1, <3>2, <3>3
    <2>3. RunShape' /\ \A d \in Requests : (run[d].at = "process" => run[d].event \in Events)'
      BY <1>3, <2>1
    <2> QED BY <1>3, <2>2, <2>3
  <1>4. ASSUME NEW c \in Requests, run' = [run EXCEPT ![c] = Mail!Off], UNCHANGED <<inbox, expired>>
        PROVE LeaseInv'
    BY <1>3, <1>4, OffShape
  <1>5. ASSUME NEW c \in Requests, NEW k \in OrderKeys, Mail!ReadEntry(c, k) PROVE LeaseInv'
    <2> DEFINE begun == [Mail!Off EXCEPT !.at = "enter", !.key = k]
    <2>1. run' = [run EXCEPT ![c] = begun] /\ UNCHANGED <<inbox, expired>>
      BY <1>5 DEF Mail!ReadEntry, Mail!Begin
    <2>2. begun.at = "enter" /\ begun.event = None
      /\ DOMAIN begun = {"at", "key", "delivery", "to", "event", "left"}
      BY DEF Mail!Off
    <2> HIDE DEF begun
    <2> QED BY <1>3, <2>1, <2>2
  <1>6. ASSUME NEW c \in Requests, NEW at, NEW d \in Deliveries, NEW to, Mail!ReadUpdate(c, at, d, to),
               at \in {"update", "cancel"} PROVE LeaseInv'
    <2> DEFINE begun == [Mail!Off EXCEPT !.at = at, !.delivery = d, !.to = to]
    <2>1. run' = [run EXCEPT ![c] = begun] /\ UNCHANGED <<inbox, expired>>
      BY <1>6 DEF Mail!ReadUpdate, Mail!Begin
    <2>2. begun.at = at /\ begun.event = None
      /\ DOMAIN begun = {"at", "key", "delivery", "to", "event", "left"}
      BY DEF Mail!Off
    <2> HIDE DEF begun
    <2> QED BY <1>3, <1>6, <2>1, <2>2
  <1>7. ASSUME NEW c \in Requests, NEW d \in Deliveries,
    Mail!UpdateDelivery(c, d) \/ Mail!CancelDelivery(c, d)
        PROVE  LeaseInv'
    BY <1>6, <1>7 DEF Mail!UpdateDelivery, Mail!CancelDelivery
  <1>8. ASSUME NEW c \in Requests, \/ Mail!WriteUpdate(c) \/ Mail!WriteCancel(c) \/ Mail!Crash(c)
                                \/ \E d \in Deliveries : Mail!WriteEntry(c, d)
        PROVE  LeaseInv'
    <2>1. run' = [run EXCEPT ![c] = Mail!Off] /\ UNCHANGED <<inbox, expired>>
      BY <1>8 DEF Mail!WriteUpdate, Mail!WriteCancel, Mail!Crash, Mail!WriteEntry, Mail!Done
    <2> QED BY <1>4, <2>1
  <1>9. ASSUME NEW c \in Requests, NEW x \in Events, Mail!Accept(c, x) PROVE LeaseInv'
    <2> DEFINE begun == [Mail!Off EXCEPT !.at = "process", !.event = x, !.left = Mail!Statements(x)]
    <2>1. /\ run' = [run EXCEPT ![c] = begun] /\ expired' = expired /\ run[c] = Mail!Off
          /\ inbox' = [inbox EXCEPT ![x] = [status |-> "processing", ended |-> FALSE]]
          /\ ~(inbox[x].status = "processing" /\ ~inbox[x].ended)
      <3>1. inbox[x].status # "processing" \/ inbox[x].ended
        BY <1>9 DEF Mail!Accept, Mail!Claimable
      <3> QED BY <1>9, <3>1 DEF Mail!Accept, Mail!Begin
    <2>2. begun.at = "process" /\ begun.event = x
      /\ DOMAIN begun = {"at", "key", "delivery", "to", "event", "left"}
      BY DEF Mail!Off
    <2> HIDE DEF begun
    <2>3. run'[c] = begun /\ \A d \in Requests \ {c} : run'[d] = run[d]
      BY <2>1
    <2>4. ASSUME NEW e \in Events PROVE (Cardinality(Holders(e)) <= Leases(e))'
      <3>1. CASE e = x
        <4>1. Leases(e) = expired[e] /\ Leases(e)' = expired[e] + 1
          BY <2>1, <3>1 DEF Leases
        <4>2. Cardinality(Holders(e)') <= Cardinality(Holders(e)) + 1
          /\ Cardinality(Holders(e)') \in Nat
              /\ Cardinality(Holders(e)) \in Nat
          BY <2>3, HoldersChange
        <4> QED BY <1>1, <4>1, <4>2
      <3>2. CASE e # x
        <4>1. Leases(e)' = Leases(e)
          BY <2>1, <3>2 DEF Leases
        <4>2. Cardinality(Holders(e)') <= Cardinality(Holders(e)) /\ Cardinality(Holders(e)') \in Nat
              /\ Cardinality(Holders(e)) \in Nat
          BY <2>2, <2>3, <3>2, HoldersChange
        <4> QED BY <1>1, <4>1, <4>2
      <3> QED BY <3>1, <3>2
    <2>5. RunShape' /\ \A d \in Requests : (run[d].at = "process" => run[d].event \in Events)'
      BY <2>1, <2>2, <2>3
    <2>6. inbox' \in [Events ->
                        [status : {"absent", "processing", "processed", "failed"}, ended : BOOLEAN]]
      BY <2>1
    <2> QED BY <2>1, <2>4, <2>5, <2>6
  <1>10. ASSUME NEW c \in Requests, Mail!Apply(c) PROVE LeaseInv'
    <2> DEFINE begun == [run[c] EXCEPT !.left = Mail!Tail(run[c].left)]
    <2>1. /\ run' = [run EXCEPT ![c] = begun] /\ UNCHANGED <<inbox, expired>> /\ run[c].at = "process"
          /\ DOMAIN run[c] = {"at", "key", "delivery", "to", "event", "left"}
      BY <1>10 DEF Mail!Apply
    <2>2. begun.at = "process" /\ begun.event = run[c].event /\ DOMAIN begun = DOMAIN run[c]
      BY <2>1
    <2> HIDE DEF begun
    <2> QED BY <1>3, <2>1, <2>2
  <1>11. ASSUME NEW c \in Requests, NEW status \in {"processed", "failed"}, Mail!Report(c, status)
        PROVE LeaseInv'
    <2> PICK x : x = run[c].event
      OBVIOUS
    <2>1. /\ run' = [run EXCEPT ![c] = Mail!Off] /\ expired' = expired /\ run[c].at = "process"
          /\ x \in Events
          /\ inbox' = [inbox EXCEPT ![x] = [status |-> status, ended |-> FALSE]]
      BY <1>11 DEF Mail!Report, Mail!Done
    <2>2. run'[c] = Mail!Off /\ \A d \in Requests \ {c} : run'[d] = run[d]
      BY <2>1
    <2>3. ASSUME NEW e \in Events PROVE (Cardinality(Holders(e)) <= Leases(e))'
      <3>1. run'[c].event # e
        BY <2>2, OffShape
      <3>2. CASE e = x
        <4>1. Leases(e) \in {expired[e], expired[e] + 1} /\ Leases(e)' = expired[e]
          /\ expired[e] \in Nat
          BY <2>1, <3>2 DEF Leases
        <4>2. Cardinality(Holders(e)') = Cardinality(Holders(e)) - 1 /\ Cardinality(Holders(e)) \in Nat
              /\ Cardinality(Holders(e)') \in Nat
          BY <2>2, <3>1, <3>2, HoldersChange
        <4> QED BY <1>1, <4>1, <4>2
      <3>3. CASE e # x
        <4>1. Leases(e)' = Leases(e)
          BY <2>1, <3>3 DEF Leases
        <4>2. Cardinality(Holders(e)') <= Cardinality(Holders(e)) /\ Cardinality(Holders(e)') \in Nat
              /\ Cardinality(Holders(e)) \in Nat
          BY <2>2, <3>1, HoldersChange
        <4> QED BY <1>1, <4>1, <4>2
      <3> QED BY <3>2, <3>3
    <2>4. RunShape' /\ \A d \in Requests : (run[d].at = "process" => run[d].event \in Events)'
      BY <2>1, <2>2, OffShape
    <2>5. inbox' \in [Events ->
                        [status : {"absent", "processing", "processed", "failed"}, ended : BOOLEAN]]
      BY <2>1
    <2> QED BY <2>1, <2>3, <2>4, <2>5
  <1>12. ASSUME NEW c \in Requests, Mail!MarkProcessed(c) \/ Mail!Fail(c) PROVE LeaseInv'
    BY <1>11, <1>12 DEF Mail!MarkProcessed, Mail!Fail
  <1>13. ASSUME NEW x \in Events, Mail!LeaseEnds(x) PROVE LeaseInv'
    <2>1. /\ inbox[x].status = "processing" /\ ~inbox[x].ended /\ run' = run
          /\ inbox' = [inbox EXCEPT ![x].ended = TRUE] /\ expired' = [expired EXCEPT ![x] = @ + 1]
      BY <1>13 DEF Mail!LeaseEnds
    <2>2. ASSUME NEW e \in Events PROVE Leases(e)' = Leases(e) /\ Holders(e)' = Holders(e)
      <3>1. CASE e = x
        <4>1. Leases(e) = expired[e] + 1 /\ Leases(e)' = (expired[e] + 1) + 0
          BY <2>1, <3>1 DEF Leases
        <4> QED BY <2>1, <4>1 DEF Holders
      <3>2. CASE e # x
        BY <2>1, <3>2 DEF Leases, Holders
      <3> QED BY <3>1, <3>2
    <2>3. ASSUME NEW e \in Events PROVE (Cardinality(Holders(e)) <= Leases(e))'
      BY <1>1, <2>2
    <2>4. inbox' \in [Events ->
                        [status : {"absent", "processing", "processed", "failed"}, ended : BOOLEAN]]
          /\ expired' \in [Events -> Nat]
      <3> DEFINE row == [status : {"absent", "processing", "processed", "failed"}, ended : BOOLEAN]
      <3>1. [inbox[x] EXCEPT !.ended = TRUE] \in row
        OBVIOUS
      <3>2. expired[x] + 1 \in Nat
        OBVIOUS
      <3> HIDE DEF row
      <3>3. inbox \in [Events -> row]
        BY DEF row
      <3>4. inbox' \in [Events -> row]
        BY <2>1, <3>1, <3>3
      <3> QED BY <2>1, <3>2, <3>4 DEF row
    <2> QED BY <2>1, <2>3, <2>4
  <1> QED BY <1>2, <1>5, <1>7, <1>8, <1>9, <1>10, <1>12, <1>13 DEF Mail!Next

\* At first nothing is entered, so both invariants hold.
LEMMA EntryStarts ==
  ASSUME IsFiniteSet(Requests), None \notin Events
  PROVE  Mail!Init => EntryInv /\ LeaseInv
  <1> SUFFICES ASSUME Mail!Init PROVE EntryInv /\ LeaseInv
    OBVIOUS
  <1>1. /\ delivery = [d \in Deliveries |-> [status |-> "absent", key |-> None]]
        /\ inbox = [e \in Events |-> [status |-> "absent", ended |-> FALSE]]
        /\ expired = [e \in Events |-> 0] /\ run = [c \in Requests |-> Mail!Off]
    BY DEF Mail!Init
  <1>2. RunShape /\ DeliveryShape
    BY <1>1, OffShape DEF RunShape, DeliveryShape
  <1>3. EntryInv
    BY <1>1, <1>2, OffShape DEF EntryInv, Entering, Changing, OneEntry, Present, Mail!EnteredOnce,
      Mail!Entered
  <1>4. ASSUME NEW e \in Events PROVE Cardinality(Holders(e)) <= Leases(e)
    <2>1. Holders(e) = {}
      BY <1>1, OffShape DEF Holders
    <2>2. Leases(e) = 0
      BY <1>1 DEF Leases
    <2> QED BY <2>1, <2>2, FS_EmptySet
  <1>5. LeaseInv
    BY <1>1, <1>2, <1>4, OffShape DEF LeaseInv
  <1> QED BY <1>3, <1>5

\* What the two invariants say.
LEMMA EntryAgrees ==
  ASSUME IsFiniteSet(Requests)
  PROVE  EntryInv /\ LeaseInv => Mail!EnteredOnce /\ Mail!HoldersLeased
  <1> SUFFICES ASSUME LeaseInv, NEW e \in Events PROVE Cardinality(Holders(e)) <= expired[e] + 1
    <2>1. \A S : Mail!Cardinality(S) = Cardinality(S)
      BY DEF Mail!Cardinality, Cardinality
    <2> QED BY <2>1 DEF EntryInv, Mail!HoldersLeased, Holders
  <1>1. IsFiniteSet(Holders(e))
    BY FS_Subset DEF Holders
  <1>2. Cardinality(Holders(e)) \in Nat
    BY <1>1, FS_CardinalityType
  <1> QED BY <1>2 DEF LeaseInv, Leases

\* However an order is entered and its delivery changed, one delivery carries
\* its key; and of an event nobody works but under a lease, one that ended or
\* the one that runs.
THEOREM EnteredUnderLease ==
  ASSUME IsFiniteSet(Requests), None \notin Events, \A e \in Events : e.to # "absent"
  PROVE  Mail!Spec => [](Mail!EnteredOnce /\ Mail!HoldersLeased)
  <1> QED BY EntryStarts, EntryAgrees, EntryStep, LeaseStep, PTL DEF Mail!Spec
-----------------------------------------------------------------------------
(*                     The club's partner (ClubEvents)                     *)

Telling(c) == partner[c] # Club!Idle

\* The key a call has in hand is in no row yet, and in no other call's hand.
InHand(c) == Telling(c) =>
    /\ partner[c] \in [key : ClubKeys, payload : Payloads] /\ received[partner[c].key] = None
    /\ \A d \in Calls \ {c} : Telling(d) => partner[d].key # partner[c].key

\* A key that is received has one event queued, of what was told with it.
QueuedOnce(k) == queued[k] = [p \in Payloads |-> IF received[k] # None /\ received[k] = p THEN 1 ELSE 0]

ClubInv ==
    /\ received \in [ClubKeys -> Payloads \cup {None}]
    /\ queued = [k \in ClubKeys |-> queued[k]] /\ partner = [c \in Calls |-> partner[c]]
    /\ \A c \in Calls : InHand(c)
    /\ \A k \in ClubKeys : QueuedOnce(k)
    /\ \A told \in accepted : /\ told.key \in ClubKeys /\ told.payload \in Payloads
                              /\ received[told.key] = told.payload

\* Every step queues what is received, once.
LEMMA ClubStep == None \notin Payloads /\ ClubInv /\ [Club!Next]_Club!clubEventVars => ClubInv'
  <1> SUFFICES ASSUME None \notin Payloads, ClubInv, Club!Next PROVE ClubInv'
    BY DEF Club!clubEventVars, ClubInv, InHand, Telling, QueuedOnce
  <1> USE DEF Club!Idle, Club!Told
  <1>1. PICK c \in Calls : \/ \E k \in ClubKeys, p \in Payloads : Club!Reserve(c,
                              k, p) \/ Club!Repeat(c, k, p)
                           \/ Club!Register(c) \/ Club!Fail(c)
    BY DEF Club!Next
  <1>2. ASSUME NEW k \in ClubKeys, NEW p \in Payloads, Club!Reserve(c, k, p) PROVE ClubInv'
    <2>1. /\ received[k] = None /\ \A d \in Calls : partner[d].key # k
          /\ partner' = [partner EXCEPT ![c] = [key |-> k, payload |-> p]]
          /\ UNCHANGED <<received, queued, accepted>>
      BY <1>2 DEF Club!Reserve, Club!KeyFree, Club!Reserved
    <2>2. \A d \in Calls : InHand(d)'
      BY <2>1 DEF ClubInv, InHand, Telling
    <2> QED BY <2>1, <2>2 DEF ClubInv, QueuedOnce
  <1>3. ASSUME NEW k \in ClubKeys, NEW p \in Payloads, Club!Repeat(c, k, p) PROVE ClubInv'
    BY <1>3 DEF Club!Repeat, ClubInv, InHand, Telling, QueuedOnce
  <1>4. ASSUME Club!Register(c) PROVE ClubInv'
    <2> DEFINE k == partner[c].key
               p == partner[c].payload
    <2>1. /\ Telling(c) /\ k \in ClubKeys /\ p \in Payloads /\ received[k] = None
          /\ received' = [received EXCEPT ![k] = p] /\ queued' = [queued EXCEPT ![k][p] = @ + 1]
          /\ accepted' \in {accepted, accepted \cup {[key |-> k, payload |-> p]}}
          /\ partner' = [partner EXCEPT ![c] = Club!Idle]
      BY <1>4 DEF Club!Register, ClubInv, InHand, Telling
    <2>2. queued[k] = [q \in Payloads |-> 0]
      BY <2>1 DEF ClubInv, QueuedOnce
    <2>3. queued'[k] = [q \in Payloads |-> IF q = p THEN 1 ELSE 0]
      BY <2>1, <2>2 DEF ClubInv
    <2>4. \A j \in ClubKeys : QueuedOnce(j)'
      BY <2>1, <2>3 DEF ClubInv, QueuedOnce
    <2>5. \A d \in Calls : InHand(d)'
      BY <2>1 DEF ClubInv, InHand, Telling
    <2>6. \A told \in accepted' : told.key \in ClubKeys /\ told.payload \in Payloads
      /\ received'[told.key] = told.payload
      BY <2>1 DEF ClubInv
    <2> QED BY <2>1, <2>4, <2>5, <2>6 DEF ClubInv
  <1>5. ASSUME Club!Fail(c) PROVE ClubInv'
    BY <1>5 DEF Club!Fail, ClubInv, InHand, Telling, QueuedOnce
  <1> QED BY <1>1, <1>2, <1>3, <1>4, <1>5

\* At first nothing is told, so ClubInv holds.
LEMMA ClubStarts ==
  Club!Init => ClubInv
  BY DEF Club!Init, Club!Idle, ClubInv, InHand, Telling, QueuedOnce

\* ClubInv says that what is told was queued.
LEMMA ClubQueued ==
  ASSUME None \notin Payloads
  PROVE  ClubInv => Club!AcceptedIsQueued
  BY DEF ClubInv, QueuedOnce, Club!AcceptedIsQueued

\* What the partner was told is accepted has been queued once, and nothing
\* else under its key, for any number of keys, payloads and calls.
THEOREM ToldIsQueued == ASSUME None \notin Payloads PROVE Club!Spec => []Club!AcceptedIsQueued
  <1> QED BY ClubStarts, ClubQueued, ClubStep, PTL DEF Club!Spec
-----------------------------------------------------------------------------
(*                           The stock (Stock)                             *)

\* What the rows and the quantities are.
StockAssumed ==
    /\ IsFiniteSet(Items) /\ IsFiniteSet(Transfers) /\ IsFiniteSet(Sales) /\ IsFiniteSet(Doses)
    /\ Sent \subseteq [Items -> Nat] /\ Recipe \in [Items -> Nat] /\ Counts \subseteq Nat
    /\ Lanes \subseteq Places \X Places /\ Returns \subseteq Items \X Items
    /\ None \notin Int /\ None \notin Places /\ (Transfers # {} => Transit \in Places)

Cells == Items \X Places

Quantities == [Cells -> Int]

StepRow == [lock : Cells, look : Cells, need : Int \cup {None}, count : Nat \cup {None},
            moves : Quantities]

IsTransfer(row) ==
    /\ row = [status |-> row.status, from |-> row.from, to |-> row.to, mode |-> row.mode,
              sent |-> row.sent, got |-> row.got, reversed |-> row.reversed]
    /\ row.status \in {"draft", "awaiting_receipt", "completed", "cancelled"}
    /\ row.from \in Places /\ row.to \in Places /\ row.sent \in Sent /\ row.got \in Sent
    /\ row.reversed \in BOOLEAN /\ (row.status # "completed" => ~row.reversed)

SaleRow == [status : {"open", "sold", "returned"}, place : Places \cup {None}]

DoseRow == [status : {"absent", "consumed", "reversed"}, item : Items \cup {None},
            place : Places \cup {None}]

IsOp(o) ==
    /\ o = [at |-> o.at, steps |-> o.steps, locks |-> o.locks, moves |-> o.moves,
            byHand |-> o.byHand, claim |-> o.claim, becomes |-> o.becomes, place |-> o.place,
            mode |-> o.mode]
    /\ o.steps \in Seq(StepRow) /\ o.locks \subseteq Cells /\ o.moves \in Quantities
    /\ o.byHand \in BOOLEAN

RowsAre ==
    /\ stock \in Quantities /\ hand \in Quantities
    /\ transfer = [t \in Transfers |-> transfer[t]]
    /\ \A t \in Transfers : transfer[t].status = "absent" \/ IsTransfer(transfer[t])
    /\ sale \in [Sales -> SaleRow] /\ dose \in [Doses -> DoseRow]
    /\ \A o \in Sales : sale[o].status = "sold" => sale[o].place \in Places
    /\ \A d \in Doses : dose[d].status = "consumed" => dose[d].item \in Items /\ dose[d].place \in Places
    /\ op = [c \in Requests |-> op[c]]

\* Where stock may not be negative, of the items that may not.
Ground(x) == x[2] # Transit /\ x[1] \notin AllowNegative

\* A step takes what it has looked at, under a lock that this transaction has
\* by then.
Covered(o, k) ==
    /\ o.steps[k].count # None => o.steps[k].look = o.steps[k].lock
    /\ \A x \in Cells : Ground(x) /\ o.steps[k].moves[x] < 0 =>
          /\ x = o.steps[k].look /\ o.steps[k].need \in Int
          /\ o.steps[k].moves[x] + o.steps[k].need >= 0
          /\ x \in o.locks \/ \E j \in 1 .. k : o.steps[j].lock = x

\* What a transaction takes, it takes of what is there, under the lock.
Safe(o) ==
    \A x \in Cells : Ground(x) =>
        (o.moves[x] < 0 => x \in o.locks) /\ stock[x] + o.moves[x] >= 0

\* What a row says has moved at x.
TransferMoves(row, x) ==
    IF row.status \in {"awaiting_receipt", "completed"}
    THEN (IF x[2] = row.from THEN (IF row.reversed THEN row.got[x[1]] ELSE 0) - row.sent[x[1]] ELSE 0)
         + (IF row.status = "awaiting_receipt" /\ x[2] = Transit THEN row.sent[x[1]] ELSE 0)
         + (IF row.status = "completed" /\ ~row.reversed /\ x[2] = row.to THEN row.got[x[1]] ELSE 0)
    ELSE 0

SaleMoves(row, x) == IF row = [status |-> "sold", place |-> x[2]] THEN -Recipe[x[1]] ELSE 0

DoseMoves(row, x) ==
    IF row = [status |-> "consumed", item |-> x[1], place |-> x[2]] THEN -1 ELSE 0

\* What is still to move at x is one step's, if anything.
Owes(o, x, due) ==
    \/ o.moves[x] = due /\ \A k \in 1 .. Len(o.steps) : o.steps[k].moves[x] = 0
    \/ \E k \in 1 .. Len(o.steps) :
          /\ o.moves[x] + o.steps[k].moves[x] = due
          /\ \A j \in 1 .. Len(o.steps) : j # k => o.steps[j].moves[x] = 0

ClaimsTransfer(o) == \E t \in Transfers :
    /\ o.claim = <<"transfer", t>> /\ IsTransfer(o.becomes)
    /\ \A x \in Cells : Owes(o, x, TransferMoves(o.becomes, x) - TransferMoves(transfer[t], x))

ClaimsSale(o) == \E s \in Sales :
    /\ o.claim = <<"order", s>> /\ o.becomes \in SaleRow /\ o.becomes.status = "sold"
    /\ o.becomes.place \in Places /\ sale[s].status = "open"
    /\ \A x \in Cells : Owes(o, x, SaleMoves(o.becomes, x))

ClaimsDose(o) == \E d \in Doses :
    /\ o.claim = <<"dose", d>> /\ o.becomes \in DoseRow
    /\ o.becomes.status = "consumed" => o.becomes.item \in Items /\ o.becomes.place \in Places
    /\ \A x \in Cells : Owes(o, x, DoseMoves(o.becomes, x) - DoseMoves(dose[d], x))

\* A transaction that runs is by hand, or changes the row it has claimed.
Claims(o) ==
    /\ o.claim = <<>> <=> (o.at # "run" \/ o.byHand)
    /\ o.at # "run" => o.locks = {} /\ o.steps = <<>> /\ o.moves = [x \in Cells |-> 0]
    /\ o.at = "run" /\ ~o.byHand =>
          /\ \A k \in 1 .. Len(o.steps) : o.steps[k].count = None
          /\ ClaimsTransfer(o) \/ ClaimsSale(o) \/ ClaimsDose(o)

IsRun(o) == IsOp(o) /\ (\A k \in 1 .. Len(o.steps) : Covered(o, k)) /\ Claims(o)

OpsApart(c, d) ==
    c # d => op[c].locks \cap op[d].locks = {} /\ (op[c].claim # <<>> => op[c].claim # op[d].claim)

\* The sums of what the rows say.
TransfersAt(x) == Total([t \in Transfers |-> TransferMoves(transfer[t], x)], Transfers)
SalesAt(x) == {o \in Sales : sale[o] = [status |-> "sold", place |-> x[2]]}
DosesAt(x) == {d \in Doses : dose[d] = [status |-> "consumed", item |-> x[1], place |-> x[2]]}

Booked(x) ==
    stock[x] - hand[x] = TransfersAt(x) - Recipe[x[1]] * Cardinality(SalesAt(x)) - Cardinality(DosesAt(x))

StockInv ==
    /\ RowsAre
    /\ \A c \in Requests : IsRun(op[c]) /\ Safe(op[c])
    /\ \A c, d \in Requests : OpsApart(c, d)
    /\ \A x \in Cells : (Ground(x) => stock[x] >= 0) /\ Booked(x)
-----------------------------------------------------------------------------
\* The properties, in these terms.
LEMMA StockPropertiesAre ==
  ASSUME StockAssumed, RowsAre
  PROVE  /\ Store!StockNotNegative <=> \A x \in Cells : Ground(x) => stock[x] >= 0
         /\ Store!StockAddsUp <=> \A x \in Cells : Booked(x)
  <1>1. Store!Cells = Cells
    BY DEF Store!Cells, Cells
  <1>2. Store!StockNotNegative <=> \A x \in Cells : Ground(x) => stock[x] >= 0
    BY <1>1 DEF Store!StockNotNegative, Ground
  <1>3. ASSUME NEW x \in Cells, NEW t \in Transfers PROVE Store!Moved(t)[x] = TransferMoves(transfer[t], x)
    BY <1>1, <1>3 DEF Store!Moved, TransferMoves, Store!Nothing
  <1>4. ASSUME NEW x \in Cells
        PROVE  Store!MapThenSumSet(LAMBDA t : Store!Moved(t)[x], Transfers) = TransfersAt(x)
    <2> DEFINE f == [t \in Transfers |-> TransferMoves(transfer[t], x)]
               P(h) == h = [s \in SUBSET Transfers |-> IF s = {} THEN 0
                               ELSE Store!Moved(Picked(s))[x] + h[s \ {Picked(s)}]]
    <2>1. ASSUME NEW h PROVE P(h) <=> Sums(h, f, Transfers)
      <3>1. \A s \in SUBSET Transfers : s # {} => Store!Moved(Picked(s))[x] = f[Picked(s)]
        BY <1>3, PickedIn
      <3> QED BY <3>1 DEF Sums
    <2>2. (CHOOSE h : P(h)) = (CHOOSE h : Sums(h, f, Transfers))
      <3> HIDE DEF P, f
      <3> QED BY <2>1
    <2>3. Store!MapThenSumSet(LAMBDA t : Store!Moved(t)[x], Transfers) = (CHOOSE h : P(h))[Transfers]
      BY DEF Store!MapThenSumSet, Store!MapThenFoldSet, Picked
    <2> QED BY <2>2, <2>3 DEF Total, TransfersAt
  <1>5. \A S : Store!Cardinality(S) = Cardinality(S)
    BY DEF Store!Cardinality, Cardinality
  <1>6. Store!StockAddsUp <=> \A x \in Cells : Booked(x)
    <2>1. ASSUME NEW x \in Cells
          PROVE  (stock[x] - hand[x] =
            Store!MapThenSumSet(LAMBDA t : Store!Moved(t)[x], Transfers)
            - Recipe[x[1]] * Store!Cardinality({o \in Sales : sale[o] = [status |-> "sold", place |-> x[2]]})
            - Store!Cardinality({d \in Doses : dose[d] = [status |-> "consumed", item |-> x[1], place |-> x[2]]}))
             <=> Booked(x)
      BY <1>4, <1>5 DEF Booked, SalesAt, DosesAt
    <2> QED BY <1>1, <2>1 DEF Store!StockAddsUp
  <1> QED BY <1>2, <1>6
-----------------------------------------------------------------------------
\* What is so of a transaction depends on the rows only.
LEMMA RunStays ==
  ASSUME UNCHANGED <<stock, transfer, sale, dose>>, NEW d, IsRun(op'[d]), Safe(op'[d])
  PROVE  IsRun(op[d])' /\ Safe(op[d])'
  <1>1. ClaimsTransfer(op'[d]) => ClaimsTransfer(op[d])'
    BY DEF ClaimsTransfer, Owes, TransferMoves, IsTransfer, Cells
  <1>2. ClaimsSale(op'[d]) => ClaimsSale(op[d])'
    BY DEF ClaimsSale, Owes, SaleMoves, Cells
  <1>3. ClaimsDose(op'[d]) => ClaimsDose(op[d])'
    BY DEF ClaimsDose, Owes, DoseMoves, Cells
  <1>4. Claims(op[d])'
    BY <1>1, <1>2, <1>3 DEF Claims, IsRun, Cells
  <1>5. IsOp(op[d])' /\ \A k \in 1 .. Len(op'[d].steps) : Covered(op[d], k)'
    BY DEF IsRun, IsOp, Covered, Cells, Ground
  <1>6. Safe(op[d])'
    BY DEF Safe, Ground, Cells
  <1> QED BY <1>4, <1>5, <1>6 DEF IsRun

\* A transaction that only writes itself keeps what the others have.
LEMMA StockCall ==
  ASSUME StockInv, UNCHANGED <<stock, hand, transfer, sale, dose>>, NEW c \in Requests, NEW o,
         op' = [op EXCEPT ![c] = o], IsRun(o), Safe(o),
         \A d \in Requests \ {c} : o.locks \cap op[d].locks = {} /\ (o.claim # <<>> => o.claim # op[d].claim)
  PROVE  StockInv'
  <1>1. op'[c] = o /\ \A d \in Requests \ {c} : op'[d] = op[d]
    BY DEF StockInv, RowsAre
  <1>2. RowsAre'
    BY DEF StockInv, RowsAre, IsTransfer
  <1>3. ASSUME NEW d \in Requests PROVE IsRun(op[d])' /\ Safe(op[d])'
    <2>1. IsRun(op'[d]) /\ Safe(op'[d])
      BY <1>1 DEF StockInv
    <2> QED BY <2>1, RunStays
  <1>4. ASSUME NEW d \in Requests, NEW e \in Requests PROVE OpsApart(d, e)'
    BY <1>1 DEF StockInv, OpsApart
  <1>5. ASSUME NEW x \in Cells PROVE (Ground(x) => stock[x] >= 0)' /\ Booked(x)'
    <2>1. TransfersAt(x)' = TransfersAt(x) /\ SalesAt(x)' = SalesAt(x) /\ DosesAt(x)' = DosesAt(x)
      BY DEF TransfersAt, SalesAt, DosesAt, TransferMoves
    <2> QED BY <2>1 DEF StockInv, Booked, Ground
  <1> QED BY <1>2, <1>3, <1>4, <1>5 DEF StockInv, Cells

\* The items of a set, one after the other.
LEMMA SeqOfSet ==
  ASSUME NEW S, IsFiniteSet(S), NEW L, L = Store!SetToSeq(S)
  PROVE  /\ L \in Seq(S) /\ Len(L) \in Nat
         /\ \A p, r \in 1 .. Len(L) : L[p] = L[r] => p = r
         /\ \A x \in S : \E p \in 1 .. Len(L) : L[p] = x
  <1> PICK n : n = Cardinality(S)
    OBVIOUS
  <1>1. n \in Nat /\ Cardinality(1 .. n) = n /\ IsFiniteSet(1 .. n)
    BY FS_CardinalityType, FS_Interval
  <1>2. \E f \in [1 .. n -> S] : \A a, b \in 1 .. n : f[a] = f[b] => a = b
    BY FS_CardinalityType DEF ExistsBijection, Bijection, Injection, Surjection, IsInjective
  <1>3. L \in [1 .. n -> S] /\ \A a, b \in 1 .. n : L[a] = L[b] => a = b
    <2>1. Store!Cardinality(S) = n
      BY DEF Store!Cardinality, Cardinality
    <2>2. L = CHOOSE f \in [1 .. n -> S] : \A a, b \in DOMAIN f : f[a] = f[b] => a = b
      BY <2>1 DEF Store!SetToSeq, Store!IsInjective
    <2>3. \E f : f \in [1 .. n -> S] /\ \A a, b \in DOMAIN f : f[a] = f[b] => a = b
      BY <1>2
    <2>4. L \in [1 .. n -> S] /\ \A a, b \in DOMAIN L : L[a] = L[b] => a = b
      BY <2>2, <2>3
    <2> QED BY <2>4
  <1>4. L \in Injection(1 .. n, S)
    BY <1>3 DEF Injection, IsInjective
  <1>5. L \in Surjection(1 .. n, S)
    BY <1>1, <1>4, FS_Injection
  <1>6. L \in Seq(S) /\ Len(L) = n
    BY <1>1, <1>3
  <1> QED BY <1>1, <1>3, <1>5, <1>6 DEF Surjection

\* A step that only takes a lock.
Waits(s) == s.count = None /\ s.moves = [x \in Cells |-> 0]

\* The steps of the lines of what q counts: a step for each item, once the
\* lock it needs is taken, and beside them some that only take locks.
LineSteps(q, held, mover, steps) ==
    /\ steps \in Seq(StepRow)
    /\ \A k \in 1 .. Len(steps) :
          \/ Waits(steps[k])
          \/ \E i \in Items : /\ q[i] # 0 /\ steps[k] = mover[i]
                              /\ \E j \in 1 .. k : steps[j].lock = held[i]
    /\ \A i \in Items : q[i] # 0 => \E k \in 1 .. Len(steps) :
          /\ steps[k] = mover[i]
          /\ \A j \in 1 .. Len(steps) : j # k =>
                Waits(steps[j]) \/ \E h \in Items : h # i /\ q[h] # 0 /\ steps[j] = mover[h]

CountedItems(q) == {i \in Items : q[i] # 0}

\* L has each counted item once.
Lists(L, q) ==
    /\ Len(L) \in Nat /\ \A p \in 1 .. Len(L) : L[p] \in Items /\ q[L[p]] # 0
    /\ \A p, r \in 1 .. Len(L) : L[p] = L[r] => p = r
    /\ \A i \in Items : q[i] # 0 => \E p \in 1 .. Len(L) : L[p] = i

\* What SetToSeq lists is each counted item, once.
LEMMA ListsCounted ==
  ASSUME IsFiniteSet(Items), NEW q, NEW L, L = Store!SetToSeq(CountedItems(q))
  PROVE  Lists(L, q)
  <1> PICK S : S = CountedItems(q)
    OBVIOUS
  <1>1. IsFiniteSet(S)
    BY FS_Subset DEF CountedItems
  <1>2. /\ L \in Seq(S) /\ Len(L) \in Nat /\ \A p, r \in 1 .. Len(L) : L[p] = L[r] => p = r
        /\ \A i \in S : \E p \in 1 .. Len(L) : L[p] = i
    BY <1>1, SeqOfSet
  <1>3. \A p \in 1 .. Len(L) : L[p] \in S
    BY <1>2, ElementOfSeq
  <1> QED BY <1>2, <1>3 DEF Lists, CountedItems

\* The steps of lines of one step, and of two, by position.
InOnes(steps, mover, L) ==
    steps = [k \in 1 .. 1 * Len(L) |-> <<mover[L[(k - 1) \div 1 + 1]]>>[((k - 1) % 1) + 1]]

InTwos(steps, before, mover, L) ==
    steps = [k \in 1 .. 2 * Len(L) |->
               <<before[L[(k - 1) \div 2 + 1]], mover[L[(k - 1) \div 2 + 1]]>>[((k - 1) % 2) + 1]]

\* With one step a line, step k is the one of line k.
LEMMA OnesAre ==
  ASSUME NEW L, Len(L) \in Nat, NEW mover, NEW steps, InOnes(steps, mover, L)
  PROVE  steps = [k \in 1 .. Len(L) |-> mover[L[k]]]
  <1>1. 1 * Len(L) = Len(L)
    OBVIOUS
  <1>2. \A k \in 1 .. Len(L) : (k - 1) \div 1 + 1 = k /\ ((k - 1) % 1) + 1 = 1
    OBVIOUS
  <1>3. \A k \in 1 .. Len(L) : <<mover[L[(k - 1) \div 1 + 1]]>>[((k - 1) % 1) + 1] = mover[L[k]]
    BY <1>2
  <1> QED BY <1>1, <1>3 DEF InOnes

\* The line that step k belongs to.
Line(k) == (k - 1) \div 2 + 1

\* Step k is the first or the second of its line.
LEMMA LineIs ==
  ASSUME NEW n \in Nat, NEW k \in 1 .. 2 * n
  PROVE  /\ Line(k) \in 1 .. n
         /\ (k = 2 * Line(k) - 1 /\ (k - 1) % 2 = 0) \/ (k = 2 * Line(k) /\ (k - 1) % 2 = 1)
  <1> PICK d, r : d = (k - 1) \div 2 /\ r = (k - 1) % 2
    OBVIOUS
  <1>1. d \in Int /\ r \in 0 .. 1 /\ k - 1 = 2 * d + r
    OBVIOUS
  <1>2. Line(k) = d + 1
    BY DEF Line
  <1> QED BY <1>1, <1>2

\* With two steps a line, line p has the steps 2p - 1 and 2p.
LEMMA TwosAre ==
  ASSUME NEW L, Len(L) \in Nat, NEW before, NEW mover, NEW steps, InTwos(steps, before, mover, L)
  PROVE  /\ DOMAIN steps = 1 .. 2 * Len(L)
         /\ \A p \in 1 .. Len(L) : steps[2 * p - 1] = before[L[p]] /\ steps[2 * p] = mover[L[p]]
  <1>1. ASSUME NEW k \in 1 .. 2 * Len(L)
        PROVE  /\ k = 2 * Line(k) - 1 => steps[k] = before[L[Line(k)]]
               /\ k = 2 * Line(k) => steps[k] = mover[L[Line(k)]]
    <2>1. steps[k] = <<before[L[Line(k)]], mover[L[Line(k)]]>>[((k - 1) % 2) + 1]
      BY DEF Line, InTwos
    <2>2. Line(k) \in Nat
      BY LineIs
    <2>3. k = 2 * Line(k) - 1 => (k - 1) % 2 = 0
      BY <2>2, LineIs
    <2>4. k = 2 * Line(k) => (k - 1) % 2 = 1
      BY <2>2, LineIs
    <2> PICK a, b, r : a = before[L[Line(k)]] /\ b = mover[L[Line(k)]] /\ r = (k - 1) % 2
      OBVIOUS
    <2>5. steps[k] = <<a, b>>[r + 1]
      BY <2>1
    <2>6. ASSUME k = 2 * Line(k) - 1 PROVE steps[k] = a
      <3>1. r = 0
        BY <2>3, <2>6
      <3> QED BY <2>5, <3>1
    <2>7. ASSUME k = 2 * Line(k) PROVE steps[k] = b
      <3>1. r + 1 = 2
        BY <2>4, <2>7
      <3>2. steps[k] = <<a, b>>[2]
        BY <2>5, <3>1
      <3> QED BY <3>2
    <2> QED BY <2>6, <2>7
  <1>2. ASSUME NEW p \in 1 .. Len(L)
        PROVE  /\ 2 * p \in 1 .. 2 * Len(L) /\ 2 * p - 1 \in 1 .. 2 * Len(L)
               /\ Line(2 * p) = p /\ Line(2 * p - 1) = p
    <2>1. 2 * p \in 1 .. 2 * Len(L) /\ 2 * p - 1 \in 1 .. 2 * Len(L)
      OBVIOUS
    <2>2. Line(2 * p) \in 1 .. Len(L) /\ Line(2 * p - 1) \in 1 .. Len(L)
      BY <2>1, LineIs
    <2>3. 2 * p = 2 * Line(2 * p) - 1 \/ 2 * p = 2 * Line(2 * p)
      BY <2>1, LineIs
    <2>4. 2 * p - 1 = 2 * Line(2 * p - 1) - 1 \/ 2 * p - 1 = 2 * Line(2 * p - 1)
      BY <2>1, LineIs
    <2> QED BY <2>1, <2>2, <2>3, <2>4
  <1>3. DOMAIN steps = 1 .. 2 * Len(L)
    BY DEF InTwos
  <1>4. ASSUME NEW p \in 1 .. Len(L) PROVE steps[2 * p - 1] = before[L[p]] /\ steps[2 * p] = mover[L[p]]
    BY <1>1, <1>2
  <1> QED BY <1>3, <1>4

\* Lines of one step take the lock and move in it.
LEMMA OneStepLines ==
  ASSUME NEW q, NEW mover \in [Items -> StepRow], NEW L, NEW steps, Lists(L, q), InOnes(steps, mover, L)
  PROVE  LineSteps(q, [i \in Items |-> mover[i].lock], mover, steps)
  <1>1. Len(L) \in Nat /\ \A p \in 1 .. Len(L) : L[p] \in Items /\ q[L[p]] # 0
    BY DEF Lists
  <1>2. steps = [k \in 1 .. Len(L) |-> mover[L[k]]]
    BY <1>1, OnesAre
  <1>3. steps \in Seq(StepRow) /\ Len(steps) = Len(L) /\ \A k \in 1 .. Len(L) : steps[k] = mover[L[k]]
    BY <1>1, <1>2
  <1>4. ASSUME NEW k \in 1 .. Len(steps)
        PROVE  \E i \in Items : /\ q[i] # 0 /\ steps[k] = mover[i]
                                /\ \E j \in 1 .. k : steps[j].lock = mover[i].lock
    <2>1. k \in 1 .. k /\ L[k] \in Items /\ q[L[k]] # 0 /\ steps[k] = mover[L[k]]
      BY <1>1, <1>3
    <2> QED BY <2>1
  <1>5. ASSUME NEW i \in Items, q[i] # 0
        PROVE  \E k \in 1 .. Len(steps) :
                 /\ steps[k] = mover[i]
                 /\ \A j \in 1 .. Len(steps) : j # k => \E h \in Items : h # i /\ q[h] # 0 /\ steps[j] = mover[h]
    <2> PICK k \in 1 .. Len(L) : L[k] = i
      BY <1>5 DEF Lists
    <2>1. ASSUME NEW j \in 1 .. Len(L), j # k
          PROVE  \E h \in Items : h # i /\ q[h] # 0 /\ steps[j] = mover[h]
      <3>1. L[j] # i /\ L[j] \in Items /\ q[L[j]] # 0 /\ steps[j] = mover[L[j]]
        BY <1>1, <1>3, <2>1 DEF Lists
      <3> QED BY <3>1
    <2> QED BY <1>3, <2>1
  <1> QED BY <1>3, <1>4, <1>5 DEF LineSteps

\* Lines of two steps take a lock first and move in the second.
LEMMA TwoStepLines ==
  ASSUME NEW q, NEW before \in [Items -> StepRow], NEW mover \in [Items -> StepRow],
         NEW L, NEW steps, Lists(L, q), InTwos(steps, before, mover, L), \A i \in Items : Waits(before[i])
  PROVE  LineSteps(q, [i \in Items |-> before[i].lock], mover, steps)
  <1>1. Len(L) \in Nat /\ 2 * Len(L) \in Nat /\ \A p \in 1 .. Len(L) : L[p] \in Items /\ q[L[p]] # 0
    BY DEF Lists
  <1>2. /\ DOMAIN steps = 1 .. 2 * Len(L)
        /\ \A p \in 1 .. Len(L) : steps[2 * p - 1] = before[L[p]] /\ steps[2 * p] = mover[L[p]]
    BY <1>1, TwosAre
  <1> DEFINE At(k, p) == (k = 2 * p - 1 /\ steps[k] = before[L[p]]) \/ (k = 2 * p /\ steps[k] = mover[L[p]])
  <1>3. ASSUME NEW k \in 1 .. 2 * Len(L)
        PROVE  \E p \in 1 .. Len(L) : At(k, p)
    <2>1. Line(k) \in 1 .. Len(L) /\ (k = 2 * Line(k) - 1 \/ k = 2 * Line(k))
      BY <1>1, LineIs
    <2> QED BY <1>2, <2>1
  <1>4. steps \in Seq(StepRow) /\ Len(steps) = 2 * Len(L)
    <2>1. \A k \in 1 .. 2 * Len(L) : steps[k] \in StepRow
      BY <1>1, <1>3
    <2>2. steps = [k \in 1 .. 2 * Len(L) |-> steps[k]]
      BY <1>2 DEF InTwos
    <2> QED BY <1>1, <2>1, <2>2
  <1>5. ASSUME NEW k \in 1 .. Len(steps)
        PROVE  \/ Waits(steps[k])
               \/ \E i \in Items : /\ q[i] # 0 /\ steps[k] = mover[i]
                                   /\ \E j \in 1 .. k : steps[j].lock = before[i].lock
    <2> PICK p \in 1 .. Len(L) : At(k, p)
      BY <1>3, <1>4
    <2>1. CASE k = 2 * p
      <3>1. k - 1 \in 1 .. k /\ steps[k - 1] = before[L[p]] /\ steps[k] = mover[L[p]]
        BY <1>1, <1>2, <2>1
      <3> QED BY <1>1, <3>1
    <2> QED BY <1>1, <2>1
  <1>6. ASSUME NEW i \in Items, q[i] # 0
        PROVE  \E k \in 1 .. Len(steps) :
                 /\ steps[k] = mover[i]
                 /\ \A j \in 1 .. Len(steps) : j # k =>
                       Waits(steps[j]) \/ \E h \in Items : h # i /\ q[h] # 0 /\ steps[j] = mover[h]
    <2> PICK p \in 1 .. Len(L) : L[p] = i
      BY <1>6 DEF Lists
    <2>1. 2 * p \in 1 .. 2 * Len(L) /\ steps[2 * p] = mover[i]
      BY <1>1, <1>2
    <2>2. ASSUME NEW j \in 1 .. 2 * Len(L), j # 2 * p
          PROVE  Waits(steps[j]) \/ \E h \in Items : h # i /\ q[h] # 0 /\ steps[j] = mover[h]
      <3> PICK r \in 1 .. Len(L) : At(j, r)
        BY <1>3, <1>4
      <3>1. CASE j = 2 * r
        <4>1. r # p /\ L[r] # i /\ L[r] \in Items /\ q[L[r]] # 0 /\ steps[j] = mover[L[r]]
          BY <1>1, <2>2, <3>1 DEF Lists
        <4> QED BY <4>1
      <3> QED BY <1>1, <3>1
    <2> QED BY <1>4, <2>1, <2>2
  <1> QED BY <1>4, <1>5, <1>6 DEF LineSteps

\* What is moved for an item counted by q is taken where it was looked at, and
\* is due.
MoversAre(q, held, mover, due) ==
    /\ \A i \in Items : q[i] # 0 =>
          /\ mover[i].count = None
          /\ \A x \in Cells : mover[i].moves[x] # 0 => x[1] = i
          /\ \A x \in Cells : Ground(x) /\ mover[i].moves[x] < 0 =>
                /\ x = mover[i].look /\ x = held[i] /\ mover[i].need \in Int
                /\ mover[i].moves[x] + mover[i].need >= 0
    /\ \A x \in Cells : due[x] = IF q[x[1]] = 0 THEN 0 ELSE mover[x[1]].moves[x]

\* Lines whose steps take no more than they have looked at owe what is due.
LEMMA LinesRun ==
  ASSUME None \notin Int, NEW q, NEW held, NEW mover \in [Items -> StepRow], NEW due, NEW o,
         LineSteps(q, held, mover, o.steps), MoversAre(q, held, mover, due), o.moves = [x \in Cells |-> 0]
  PROVE  /\ \A k \in 1 .. Len(o.steps) : Covered(o, k) /\ o.steps[k].count = None
         /\ \A x \in Cells : Owes(o, x, due[x])
  <1>1. ASSUME NEW k \in 1 .. Len(o.steps) PROVE Covered(o, k) /\ o.steps[k].count = None
    <2>1. CASE Waits(o.steps[k])
      BY <2>1 DEF Waits, Covered
    <2>2. ASSUME NEW i \in Items, q[i] # 0, o.steps[k] = mover[i],
                 \E j \in 1 .. k : o.steps[j].lock = held[i]
          PROVE  Covered(o, k) /\ o.steps[k].count = None
      BY <2>2 DEF Covered, MoversAre
    <2> QED BY <2>1, <2>2 DEF LineSteps
  <1>2. ASSUME NEW x \in Cells PROVE Owes(o, x, due[x])
    <2>1. o.moves[x] = 0 /\ x[1] \in Items
      BY DEF Cells
    <2>2. ASSUME NEW k \in 1 .. Len(o.steps), NEW h \in Items, h # x[1], q[h] # 0, o.steps[k] = mover[h]
          PROVE  o.steps[k].moves[x] = 0
      BY <2>2 DEF MoversAre
    <2>3. ASSUME NEW k \in 1 .. Len(o.steps), Waits(o.steps[k]) PROVE o.steps[k].moves[x] = 0
      BY <2>3 DEF Waits
    <2>4. CASE q[x[1]] = 0
      <3>1. \A k \in 1 .. Len(o.steps) : o.steps[k].moves[x] = 0
        BY <2>2, <2>3, <2>4 DEF LineSteps
      <3>2. due[x] = 0
        BY <2>4 DEF MoversAre
      <3> QED BY <2>1, <3>1, <3>2 DEF Owes
    <2>5. CASE q[x[1]] # 0
      <3> PICK k \in 1 .. Len(o.steps) :
                /\ o.steps[k] = mover[x[1]]
                /\ \A j \in 1 .. Len(o.steps) : j # k =>
                      Waits(o.steps[j]) \/ \E h \in Items : h # x[1] /\ q[h] # 0 /\ o.steps[j] = mover[h]
        BY <2>1, <2>5 DEF LineSteps
      <3>1. \A j \in 1 .. Len(o.steps) : j # k => o.steps[j].moves[x] = 0
        BY <2>2, <2>3
      <3>2. due[x] = o.steps[k].moves[x] /\ due[x] \in Int
        BY <2>1, <2>5 DEF MoversAre, StepRow, Quantities
      <3> QED BY <2>1, <3>1, <3>2 DEF Owes
    <2> QED BY <2>4, <2>5
  <1> QED BY <1>1, <1>2

\* A transaction that starts has taken nothing yet.
LEMMA CallStarts ==
  ASSUME StockInv, NEW c \in Requests, NEW o, Store!Starts(c, o), IsRun(o),
         o.locks = {}, o.moves = [x \in Cells |-> 0],
         o.claim # <<>> => Store!Free(o.claim)
  PROVE  StockInv'
  <1>1. op' = [op EXCEPT ![c] = o] /\ UNCHANGED <<stock, hand, transfer, sale, dose>>
    BY DEF Store!Starts, Store!Begin
  <1>2. Safe(o)
    BY DEF Safe, StockInv, RowsAre, Quantities
  <1>3. \A d \in Requests : o.locks \cap op[d].locks = {} /\ (o.claim # <<>> => o.claim # op[d].claim)
    BY DEF Store!Free
  <1> QED BY <1>1, <1>2, <1>3, StockCall

\* A step and what moves in it have the shapes of any.
LEMMA MovesAre ==
  /\ Store!Nothing = [x \in Cells |-> 0] /\ Store!Nothing \in Quantities
  /\ \A i \in Items, l \in Places, q \in Int :
        /\ Store!Move(i, l, q) \in Quantities
        /\ \A x \in Cells : Store!Move(i, l, q)[x] = IF x = <<i, l>> THEN q ELSE 0
  /\ \A f, g \in Quantities : /\ Store!Plus(f, g) \in Quantities
                              /\ \A x \in Cells : Store!Plus(f, g)[x] = f[x] + g[x]
  BY DEF Store!Nothing, Store!Move, Store!Plus, Store!Cells, Cells, Quantities

\* Records, written out: a step,
LEMMA StepIs ==
  ASSUME NEW lock \in Cells, NEW look \in Cells, NEW need \in Int \cup {None}, NEW moves \in Quantities
  PROVE  Store!Step(lock, look, need, moves)
           = [lock |-> lock, look |-> look, need |-> need, count |-> None, moves |-> moves]
  BY DEF Store!Step

\* Transactions as they start: by hand, and to change a row.
LEMMA StoreOffIs ==
  Store!Off = [at |-> "idle", steps |-> <<>>, locks |-> {}, moves |-> Store!Nothing, byHand |-> FALSE,
               claim |-> <<>>, becomes |-> None, place |-> {}, mode |-> None]
  BY DEF Store!Off

\* a transaction that runs,
LEMMA RunIs ==
  ASSUME NEW steps
  PROVE  Store!Run(steps)
           = [at |-> "run", steps |-> steps, locks |-> {}, moves |-> Store!Nothing, byHand |-> FALSE,
              claim |-> <<>>, becomes |-> None, place |-> {}, mode |-> None]
  <1> PICK o : o = Store!Off
    OBVIOUS
  <1>1. Store!Run(steps) = [o EXCEPT !.at = "run", !.steps = steps]
    BY DEF Store!Run
  <1> QED BY <1>1, StoreOffIs

\* one that changes a row,
LEMMA ChangeIs ==
  ASSUME NEW kind, NEW key, NEW becomes, NEW steps
  PROVE  Store!Change(kind, key, becomes, steps)
           = [at |-> "run", steps |-> steps, locks |-> {}, moves |-> Store!Nothing, byHand |-> FALSE,
              claim |-> <<kind, key>>, becomes |-> becomes, place |-> {}, mode |-> None]
  <1> PICK o : o = Store!Run(steps)
    OBVIOUS
  <1>1. Store!Change(kind, key, becomes, steps) = [o EXCEPT !.claim = <<kind, key>>, !.becomes = becomes]
    BY DEF Store!Change
  <1> QED BY <1>1, RunIs

\* the same with the places it has locked,
LEMMA PlaceIs ==
  ASSUME NEW kind, NEW key, NEW becomes, NEW steps, NEW place
  PROVE  [Store!Change(kind, key, becomes, steps) EXCEPT !.place = place]
           = [at |-> "run", steps |-> steps, locks |-> {}, moves |-> Store!Nothing, byHand |-> FALSE,
              claim |-> <<kind, key>>, becomes |-> becomes, place |-> place, mode |-> None]
  <1> PICK o : o = Store!Change(kind, key, becomes, steps)
    OBVIOUS
  <1> PICK d : d = [o EXCEPT !.place = place]
    OBVIOUS
  <1>1. d = [at |-> "run", steps |-> steps, locks |-> {}, moves |-> Store!Nothing, byHand |-> FALSE,
             claim |-> <<kind, key>>, becomes |-> becomes, place |-> place, mode |-> None]
    BY ChangeIs
  <1> QED BY <1>1

\* and one by hand.
LEMMA ByHandIs ==
  ASSUME NEW steps
  PROVE  Store!ByHand(steps)
           = [at |-> "run", steps |-> steps, locks |-> {}, moves |-> Store!Nothing, byHand |-> TRUE,
              claim |-> <<>>, becomes |-> None, place |-> {}, mode |-> None]
  <1> PICK o : o = Store!Run(steps)
    OBVIOUS
  <1>1. Store!ByHand(steps) = [o EXCEPT !.byHand = TRUE]
    BY DEF Store!ByHand
  <1> QED BY <1>1, RunIs

\* A transaction by hand of one step.
LEMMA ByHandStarts ==
  ASSUME StockInv, NEW c \in Requests, NEW s \in StepRow, Store!Starts(c, Store!ByHand(<<s>>)),
         s.count # None => s.look = s.lock,
         \A x \in Cells : Ground(x) /\ s.moves[x] < 0 =>
            x = s.look /\ x = s.lock /\ s.need \in Int /\ s.moves[x] + s.need >= 0
  PROVE  StockInv'
  <1> PICK o : o = Store!ByHand(<<s>>)
    OBVIOUS
  <1>1. /\ o = [at |-> "run", steps |-> <<s>>, locks |-> {}, moves |-> [x \in Cells |-> 0], byHand |-> TRUE,
                claim |-> <<>>, becomes |-> None, place |-> {}, mode |-> None]
        /\ [x \in Cells |-> 0] \in Quantities
    BY ByHandIs, MovesAre
  <1>2. IsOp(o)
    <2> PICK z : z = [x \in Cells |-> 0]
      OBVIOUS
    <2> PICK ss : ss = <<s>>
      OBVIOUS
    <2>1. ss \in Seq(StepRow) /\ z \in Quantities
      BY <1>1
    <2>2. o = [at |-> "run", steps |-> ss, locks |-> {}, moves |-> z, byHand |-> TRUE,
               claim |-> <<>>, becomes |-> None, place |-> {}, mode |-> None]
      BY <1>1
    <2>3. o = [at |-> o.at, steps |-> o.steps, locks |-> o.locks, moves |-> o.moves, byHand |-> o.byHand,
               claim |-> o.claim, becomes |-> o.becomes, place |-> o.place, mode |-> o.mode]
      BY <2>2
    <2>4. o.steps = ss /\ o.locks = {} /\ o.moves = z /\ o.byHand = TRUE
      BY <2>2
    <2> QED BY <2>1, <2>3, <2>4 DEF IsOp
  <1>3. Len(o.steps) = 1 /\ o.steps[1] = s /\ o.locks = {} /\ o.byHand /\ o.at = "run" /\ o.claim = <<>>
    BY <1>1
  <1>4. ASSUME NEW k \in 1 .. Len(o.steps) PROVE Covered(o, k)
    <2>1. Len(o.steps) = 1
      BY <1>3
    <2>2. k \in 1 .. 1
      BY <2>1
    <2>3. k = 1
      BY <2>2
    <2> QED BY <1>3, <2>3 DEF Covered
  <1>5. Claims(o)
    BY <1>3 DEF Claims
  <1>6. IsRun(o)
    BY <1>2, <1>4, <1>5 DEF IsRun
  <1>7. o.moves = [x \in Cells |-> 0]
    BY <1>1
  <1> QED BY <1>3, <1>6, <1>7, CallStarts

\* What is adjusted, counted or returned by hand is one step, which takes no
\* more than was looked at.
LEMMA StockByHand ==
  ASSUME StockAssumed, StockInv, NEW c \in Requests,
         \/ \E i \in Items, l \in Places, q \in Counts :
                Store!Adjust(c, i, l, q) \/ Store!Adjust(c, i, l, -q) \/ Store!Count(c, i, l, q)
         \/ \E r \in Returns, l \in Places, exchange \in BOOLEAN : Store!ReturnEmpty(c, r, l, exchange)
  PROVE  StockInv'
  <1>1. ASSUME NEW i \in Items, NEW l \in Places, NEW q \in Int, Store!Adjust(c, i, l, q) PROVE StockInv'
    <2> PICK s : s = Store!Step(<<i, l>>, <<i, l>>, -q, Store!Move(i, l, q))
      OBVIOUS
    <2>1. /\ s = [lock |-> <<i, l>>, look |-> <<i, l>>, need |-> -q, count |-> None,
                  moves |-> Store!Move(i, l, q)]
          /\ <<i, l>> \in Cells /\ Store!Move(i, l, q) \in Quantities
      BY MovesAre DEF Store!Step, Cells
    <2>2. s \in StepRow /\ s.count = None /\ s.look = <<i, l>> /\ s.lock = <<i, l>> /\ s.need = -q
      BY <2>1 DEF StepRow
    <2>3. \A x \in Cells : s.moves[x] = IF x = <<i, l>> THEN q ELSE 0
      BY <2>1, MovesAre
    <2>4. Store!Starts(c, Store!ByHand(<<s>>))
      BY <1>1 DEF Store!Adjust
    <2> QED BY <2>2, <2>3, <2>4, ByHandStarts
  <1>2. ASSUME NEW i \in Items, NEW l \in Places, NEW n \in Counts, Store!Count(c, i, l, n) PROVE StockInv'
    <2> PICK r : r = Store!Step(<<i, l>>, <<i, l>>, None, Store!Nothing)
      OBVIOUS
    <2> PICK s : s = [r EXCEPT !.count = n]
      OBVIOUS
    <2> PICK m : m = Store!Nothing
      OBVIOUS
    <2>0. Store!Step(<<i, l>>, <<i, l>>, None, Store!Nothing)
             = [lock |-> <<i, l>>, look |-> <<i, l>>, need |-> None, count |-> None, moves |-> m]
      BY DEF Store!Step
    <2>5. s = [r EXCEPT !.count = n] /\ m \in Quantities /\ \A x \in Cells : m[x] = 0
      BY MovesAre
    <2>1. /\ s = [lock |-> <<i, l>>, look |-> <<i, l>>, need |-> None, count |-> n, moves |-> m]
          /\ <<i, l>> \in Cells /\ n \in Nat
      BY <2>0, <2>5 DEF Cells, StockAssumed
    <2>2. s \in StepRow /\ s.look = s.lock
      BY <2>1, <2>5 DEF StepRow
    <2>3. \A x \in Cells : s.moves[x] = 0
      BY <2>1, <2>5
    <2>4. Store!Starts(c, Store!ByHand(<<s>>))
      BY <1>2 DEF Store!Count
    <2>6. \A x \in Cells : ~(s.moves[x] < 0)
      BY <2>3
    <2> QED BY <2>2, <2>4, <2>6, ByHandStarts
  <1>3. ASSUME NEW r \in Returns, NEW l \in Places, NEW exchange \in BOOLEAN,
               Store!ReturnEmpty(c, r, l, exchange)
        PROVE  StockInv'
    <2> PICK full : full = IF exchange THEN Store!Move(r[2], l, 1) ELSE Store!Nothing
      OBVIOUS
    <2> PICK moves : moves = Store!Plus(Store!Move(r[1], l, -1), full)
      OBVIOUS
    <2> PICK s : s = Store!Step(<<r[1], l>>, <<r[1], l>>, 1, moves)
      OBVIOUS
    <2>1. r[1] \in Items /\ r[2] \in Items /\ <<r[1], l>> \in Cells
      BY DEF StockAssumed, Cells
    <2>2. full \in Quantities /\ \A x \in Cells : full[x] >= 0
      BY <2>1, MovesAre
    <2>3. moves \in Quantities /\ \A x \in Cells : moves[x] = (IF x = <<r[1], l>> THEN -1 ELSE 0) + full[x]
      BY <2>1, <2>2, MovesAre
    <2>4. \A x \in Cells : moves[x] < 0 => x = <<r[1], l>> /\ moves[x] + 1 >= 0
      BY <2>2, <2>3 DEF Quantities
    <2>5. s = [lock |-> <<r[1], l>>, look |-> <<r[1], l>>, need |-> 1, count |-> None, moves |-> moves]
      BY DEF Store!Step
    <2>6. s \in StepRow /\ s.count = None /\ s.look = <<r[1], l>> /\ s.lock = s.look /\ s.need = 1 /\ s.moves = moves
      BY <2>1, <2>3, <2>5 DEF StepRow
    <2>7. Store!Starts(c, Store!ByHand(<<s>>))
      BY <1>3 DEF Store!ReturnEmpty
    <2> QED BY <2>4, <2>6, <2>7, ByHandStarts
  <1>4. \A q \in Counts : q \in Int /\ -q \in Int
    BY DEF StockAssumed
  <1>5. CASE \E i \in Items, l \in Places, q \in Counts :
                Store!Adjust(c, i, l, q) \/ Store!Adjust(c, i, l, -q) \/ Store!Count(c, i, l, q)
    BY <1>1, <1>2, <1>4, <1>5
  <1>6. CASE \E r \in Returns, l \in Places, exchange \in BOOLEAN : Store!ReturnEmpty(c, r, l, exchange)
    BY <1>3, <1>6
  <1> QED BY <1>5, <1>6

\* A transaction that is to change a row.
IsChange(o, kind, key, becomes, steps) ==
    /\ o = [at |-> o.at, steps |-> o.steps, locks |-> o.locks, moves |-> o.moves, byHand |-> o.byHand,
            claim |-> o.claim, becomes |-> o.becomes, place |-> o.place, mode |-> o.mode]
    /\ o.at = "run" /\ o.steps = steps /\ o.locks = {} /\ o.moves = [x \in Cells |-> 0]
    /\ o.byHand = FALSE /\ o.claim = <<kind, key>> /\ o.becomes = becomes

\* A transaction that starts to change a row has the form of one.
LEMMA ChangeIsOne ==
  ASSUME NEW kind, NEW key, NEW becomes, NEW steps
  PROVE  /\ IsChange(Store!Change(kind, key, becomes, steps), kind, key, becomes, steps)
         /\ \A place : IsChange([Store!Change(kind, key, becomes, steps) EXCEPT !.place = place],
                                kind, key, becomes, steps)
  <1>1. ASSUME NEW o, NEW z, NEW place, z = [x \in Cells |-> 0],
               o = [at |-> "run", steps |-> steps, locks |-> {}, moves |-> z, byHand |-> FALSE,
                    claim |-> <<kind, key>>, becomes |-> becomes, place |-> place, mode |-> None]
        PROVE  IsChange(o, kind, key, becomes, steps)
    <2>1. /\ o.at = "run" /\ o.steps = steps /\ o.locks = {} /\ o.moves = z
          /\ o.byHand = FALSE /\ o.claim = <<kind, key>> /\ o.becomes = becomes
      BY <1>1
    <2>2. o = [at |-> o.at, steps |-> o.steps, locks |-> o.locks, moves |-> o.moves, byHand |-> o.byHand,
               claim |-> o.claim, becomes |-> o.becomes, place |-> o.place, mode |-> o.mode]
      BY <1>1
    <2> QED BY <1>1, <2>1, <2>2 DEF IsChange
  <1> PICK z : z = [x \in Cells |-> 0]
    OBVIOUS
  <1> PICK r : r = Store!Change(kind, key, becomes, steps)
    OBVIOUS
  <1>2. r = [at |-> "run", steps |-> steps, locks |-> {}, moves |-> z, byHand |-> FALSE,
             claim |-> <<kind, key>>, becomes |-> becomes, place |-> {}, mode |-> None]
    BY ChangeIs, MovesAre
  <1>3. ASSUME NEW place
        PROVE  [r EXCEPT !.place = place]
                 = [at |-> "run", steps |-> steps, locks |-> {}, moves |-> Store!Nothing, byHand |-> FALSE,
                    claim |-> <<kind, key>>, becomes |-> becomes, place |-> place, mode |-> None]
    BY PlaceIs
  <1>4. Store!Nothing = z
    BY MovesAre
  <1> QED BY <1>1, <1>2, <1>3, <1>4

\* It may start when its steps are covered and the row owes what it will say.
LEMMA ChangeStarts ==
  ASSUME StockInv, NEW c \in Requests, NEW kind, NEW key, NEW becomes, NEW steps, NEW o,
         Store!Starts(c, o), IsChange(o, kind, key, becomes, steps), Store!Free(<<kind, key>>),
         steps \in Seq(StepRow), \A k \in 1 .. Len(steps) : Covered(o, k) /\ steps[k].count = None,
         ClaimsTransfer(o) \/ ClaimsSale(o) \/ ClaimsDose(o)
  PROVE  StockInv'
  <1>1. /\ o = [at |-> o.at, steps |-> o.steps, locks |-> o.locks, moves |-> o.moves, byHand |-> o.byHand,
                claim |-> o.claim, becomes |-> o.becomes, place |-> o.place, mode |-> o.mode]
        /\ o.at = "run" /\ o.steps = steps /\ o.locks = {} /\ o.moves = [x \in Cells |-> 0]
        /\ o.byHand = FALSE /\ o.claim = <<kind, key>>
    BY DEF IsChange
  <1>2. IsOp(o)
    <2>1. o.moves \in Quantities
      BY <1>1, MovesAre
    <2> QED BY <1>1, <2>1 DEF IsOp
  <1>3. o.claim # <<>>
    BY <1>1
  <1>4. Claims(o)
    BY <1>1, <1>3 DEF Claims
  <1>5. IsRun(o)
    BY <1>1, <1>2, <1>4 DEF IsRun
  <1> QED BY <1>1, <1>5, CallStarts

\* What a transaction is to move, once it has changed the row of a transfer.
TransferDue(t, row) == [x \in Cells |-> TransferMoves(row, x) - TransferMoves(transfer[t], x)]

\* A transaction that changes a transfer may start with lines that move what
\* the new row says and the old one did not.
LEMMA TransferStarts ==
  ASSUME StockAssumed, StockInv, NEW c \in Requests, NEW t \in Transfers, NEW row, IsTransfer(row), NEW steps,
         NEW o, Store!Starts(c, o), IsChange(o, "transfer", t, row, steps), Store!Free(<<"transfer", t>>),
         NEW q, NEW held, NEW mover \in [Items -> StepRow],
         LineSteps(q, held, mover, steps), MoversAre(q, held, mover, TransferDue(t, row))
  PROVE  StockInv'
  <1>1. /\ o.steps = steps /\ o.moves = [x \in Cells |-> 0] /\ o.claim = <<"transfer", t>> /\ o.becomes = row
    BY DEF IsChange
  <1>2. /\ \A k \in 1 .. Len(steps) : Covered(o, k) /\ steps[k].count = None
        /\ \A x \in Cells : Owes(o, x, TransferDue(t, row)[x])
    <2>1. LineSteps(q, held, mover, o.steps) /\ None \notin Int
      BY <1>1 DEF StockAssumed
    <2>2. /\ \A k \in 1 .. Len(o.steps) : Covered(o, k) /\ o.steps[k].count = None
          /\ \A x \in Cells : Owes(o, x, TransferDue(t, row)[x])
      BY <1>1, <2>1, LinesRun
    <2> QED BY <1>1, <2>2
  <1>3. steps \in Seq(StepRow)
    BY DEF LineSteps
  <1>4. \A x \in Cells : Owes(o, x, TransferMoves(o.becomes, x) - TransferMoves(transfer[t], x))
    BY <1>1, <1>2 DEF TransferDue
  <1>5. ClaimsTransfer(o)
    BY <1>1, <1>4 DEF ClaimsTransfer
  <1> QED BY <1>2, <1>3, <1>5, ChangeStarts

\* No lines move nothing.
LEMMA NoLines ==
  ASSUME NEW due, \A x \in Cells : due[x] = 0, NEW none, \A i \in Items : none[i] = 0, NEW mover
  PROVE  LineSteps(none, none, mover, <<>>) /\ MoversAre(none, none, mover, due)
  <1>1. \A x \in Cells : x[1] \in Items
    BY DEF Cells
  <1> QED BY <1>1 DEF LineSteps, MoversAre

\* The parts of a step.
LEMMA StepIn ==
  ASSUME NEW lock \in Cells, NEW look \in Cells, NEW need \in Int \cup {None}, NEW moves \in Quantities
  PROVE  LET s == Store!Step(lock, look, need, moves)
         IN  s \in StepRow /\ s.lock = lock /\ s.look = look /\ s.need = need /\ s.count = None /\ s.moves = moves
  BY StepIs DEF StepRow

\* What moves from one place to another.
Between(moves, i, from, to, a, b) ==
    /\ moves \in Quantities
    /\ \A x \in Cells : moves[x] = (IF x = <<i, from>> THEN a ELSE 0) + (IF x = <<i, to>> THEN b ELSE 0)
    /\ \A x \in Cells : moves[x] # 0 => x[1] = i

\* A quantity leaves one place, and one enters another.
LEMMA MovesBetween ==
  ASSUME NEW i \in Items, NEW from \in Places, NEW to \in Places, NEW a \in Int, NEW b \in Int
  PROVE  Between(Store!Plus(Store!Move(i, from, a), Store!Move(i, to, b)), i, from, to, a, b)
  <1> PICK f, g : f = Store!Move(i, from, a) /\ g = Store!Move(i, to, b)
    OBVIOUS
  <1>1. /\ f \in Quantities /\ \A x \in Cells : f[x] = IF x = <<i, from>> THEN a ELSE 0
        /\ g \in Quantities /\ \A x \in Cells : g[x] = IF x = <<i, to>> THEN b ELSE 0
    BY MovesAre
  <1> PICK moves : moves = Store!Plus(f, g)
    OBVIOUS
  <1>2. moves \in Quantities /\ \A x \in Cells : moves[x] = f[x] + g[x]
    BY <1>1, MovesAre
  <1>3. \A x \in Cells : moves[x] = (IF x = <<i, from>> THEN a ELSE 0) + (IF x = <<i, to>> THEN b ELSE 0)
    BY <1>1, <1>2
  <1>4. \A x \in Cells : moves[x] # 0 => x[1] = i
    BY <1>3
  <1> QED BY <1>2, <1>3, <1>4 DEF Between

\* The lines of two steps, and of one.
LEMMA LinesOfTwo ==
  ASSUME IsFiniteSet(Items), NEW q, NEW before \in [Items -> StepRow], NEW mover \in [Items -> StepRow],
         \A i \in Items : Waits(before[i]), NEW L, L = Store!SetToSeq(CountedItems(q)), NEW steps,
         InTwos(steps, before, mover, L)
  PROVE  LineSteps(q, [i \in Items |-> before[i].lock], mover, steps)
  BY ListsCounted, TwoStepLines

\* The lines of what is counted, of one step.
LEMMA LinesOfOne ==
  ASSUME IsFiniteSet(Items), NEW q, NEW mover \in [Items -> StepRow],
         NEW L, L = Store!SetToSeq(CountedItems(q)), NEW steps, InOnes(steps, mover, L)
  PROVE  LineSteps(q, [i \in Items |-> mover[i].lock], mover, steps)
  BY ListsCounted, OneStepLines

\* Every step is of an item.
LEMMA ItemOfLine ==
  ASSUME IsFiniteSet(Items), NEW q, NEW L, L = Store!SetToSeq(CountedItems(q))
  PROVE  /\ Len(L) \in Nat
         /\ \A k \in 1 .. 2 * Len(L) : L[(k - 1) \div 2 + 1] \in Items
         /\ \A k \in 1 .. 1 * Len(L) : L[(k - 1) \div 1 + 1] \in Items
  <1>1. Len(L) \in Nat /\ \A p \in 1 .. Len(L) : L[p] \in Items
    BY ListsCounted DEF Lists
  <1>2. \A k \in 1 .. 2 * Len(L) : (k - 1) \div 2 + 1 \in 1 .. Len(L)
    BY <1>1, LineIs DEF Line
  <1>3. \A k \in 1 .. 1 * Len(L) : (k - 1) \div 1 + 1 \in 1 .. Len(L)
    BY <1>1
  <1> QED BY <1>1, <1>2, <1>3

\* A step that asks for nothing.
LEMMA StepFree ==
  ASSUME NEW cell \in Cells, NEW moves \in Quantities
  PROVE  LET s == Store!Step(cell, cell, None, moves)
         IN  s \in StepRow /\ s.lock = cell /\ s.count = None /\ s.moves = moves
  <1> PICK s : s = Store!Step(cell, cell, None, moves)
    OBVIOUS
  <1>1. s = [lock |-> cell, look |-> cell, need |-> None, count |-> None, moves |-> moves]
    BY DEF Store!Step
  <1>2. s \in StepRow
    BY <1>1 DEF StepRow
  <1> QED BY <1>1, <1>2

\* A step that only waits for a lock.
LEMMA WaitIs ==
  ASSUME NEW cell \in Cells
  PROVE  LET s == Store!Step(cell, cell, None, Store!Nothing)
         IN  s \in StepRow /\ s.lock = cell /\ Waits(s)
  <1> PICK m, s : m = Store!Nothing /\ s = Store!Step(cell, cell, None, Store!Nothing)
    OBVIOUS
  <1>1. m \in Quantities /\ m = [x \in Cells |-> 0]
    BY MovesAre
  <1>2. s = [lock |-> cell, look |-> cell, need |-> None, count |-> None, moves |-> m]
    BY DEF Store!Step
  <1>3. s \in StepRow
    BY <1>1, <1>2 DEF StepRow
  <1> QED BY <1>1, <1>2, <1>3 DEF Waits

DispatchSteps(x) == Store!AllLines(x.sent, 2, LAMBDA i :
    <<Store!Step(<<i, x.from>>, <<i, x.from>>, None, Store!Nothing),
      Store!Step(<<i, Store!Arrival(x)>>, <<i, x.from>>, x.sent[i],
                 Store!Plus(Store!Move(i, x.from, -x.sent[i]), Store!Move(i, Store!Arrival(x), x.sent[i])))>>)

\* The lines of a dispatch look at the origin, under its lock.
LEMMA DispatchLines ==
  ASSUME StockAssumed, NEW x, IsTransfer(x), Store!Arrival(x) \in Places
  PROVE  \E before \in [Items -> StepRow], mover \in [Items -> StepRow] :
            /\ LineSteps(x.sent, [i \in Items |-> before[i].lock], mover, DispatchSteps(x))
            /\ \A i \in Items : /\ before[i].lock = <<i, x.from>> /\ mover[i].count = None
                                /\ mover[i].look = <<i, x.from>> /\ mover[i].need = x.sent[i]
                                /\ mover[i].moves = Store!Plus(Store!Move(i, x.from, -x.sent[i]),
                                                               Store!Move(i, Store!Arrival(x), x.sent[i]))
  <1> PICK from, to, sent : from = x.from /\ to = Store!Arrival(x) /\ sent = x.sent
    OBVIOUS
  <1>1. from \in Places /\ to \in Places /\ \A i \in Items : sent[i] \in Nat
    BY DEF IsTransfer, StockAssumed
  <1> DEFINE B(i) == Store!Step(<<i, from>>, <<i, from>>, None, Store!Nothing)
             P(i) == Store!Plus(Store!Move(i, from, -sent[i]), Store!Move(i, to, sent[i]))
             M(i) == Store!Step(<<i, to>>, <<i, from>>, sent[i], P(i))
  <1>2. ASSUME NEW i \in Items
        PROVE  /\ B(i) \in StepRow /\ B(i).lock = <<i, from>> /\ Waits(B(i))
               /\ M(i) \in StepRow /\ M(i).count = None /\ M(i).look = <<i, from>> /\ M(i).need = sent[i]
               /\ M(i).moves = P(i)
    <2>1. <<i, from>> \in Cells /\ <<i, to>> \in Cells /\ sent[i] \in Int /\ -sent[i] \in Int
      BY <1>1 DEF Cells
    <2>2. P(i) \in Quantities
      BY <1>1, <2>1, MovesAre
    <2>3. B(i) \in StepRow /\ B(i).lock = <<i, from>> /\ Waits(B(i))
      BY <2>1, WaitIs
    <2>4. /\ M(i) \in StepRow /\ M(i).count = None /\ M(i).look = <<i, from>> /\ M(i).need = sent[i]
          /\ M(i).moves = P(i)
      <3> HIDE DEF P
      <3> QED BY <2>1, <2>2, StepIn
    <2> QED BY <2>3, <2>4
  <1> HIDE DEF P
  <1> PICK before, mover : before = [i \in Items |-> B(i)] /\ mover = [i \in Items |-> M(i)]
    OBVIOUS
  <1> PICK L : L = Store!SetToSeq(CountedItems(sent))
    OBVIOUS
  <1>3. \A k \in 1 .. 2 * Len(L) : L[(k - 1) \div 2 + 1] \in Items
    BY ItemOfLine DEF StockAssumed
  <1>4. DispatchSteps(x) = [k \in 1 .. 2 * Len(L) |->
                              <<B(L[(k - 1) \div 2 + 1]), M(L[(k - 1) \div 2 + 1])>>[((k - 1) % 2) + 1]]
    BY DEF DispatchSteps, Store!AllLines, CountedItems, P
  <1> HIDE DEF B, M
  <1>5. \A i \in Items : before[i] = B(i) /\ mover[i] = M(i)
    OBVIOUS
  <1>6. InTwos(DispatchSteps(x), before, mover, L)
    BY <1>3, <1>4, <1>5 DEF InTwos
  <1>7. before \in [Items -> StepRow] /\ mover \in [Items -> StepRow] /\ \A i \in Items : Waits(before[i])
    BY <1>2
  <1>8. LineSteps(sent, [i \in Items |-> before[i].lock], mover, DispatchSteps(x))
    BY <1>6, <1>7, LinesOfTwo DEF StockAssumed
  <1>9. ASSUME NEW i \in Items
        PROVE  /\ before[i].lock = <<i, x.from>> /\ mover[i].count = None
               /\ mover[i].look = <<i, x.from>> /\ mover[i].need = x.sent[i]
               /\ mover[i].moves = Store!Plus(Store!Move(i, x.from, -x.sent[i]),
                                              Store!Move(i, Store!Arrival(x), x.sent[i]))
    BY <1>2, <1>5 DEF P
  <1> QED BY <1>7, <1>8, <1>9

\* A dispatch starts.
LEMMA DispatchStarts ==
  ASSUME StockAssumed, StockInv, NEW c \in Requests, NEW t \in Transfers, NEW x, IsTransfer(x), x.status = "draft",
         Store!Arrival(x) \in Places, transfer[t].status \in {"absent", "draft"},
         NEW o, Store!Starts(c, o), Store!Free(<<"transfer", t>>),
         IsChange(o, "transfer", t, Store!Dispatched(x), DispatchSteps(x))
  PROVE  StockInv'
  <1> PICK row : row = Store!Dispatched(x)
    OBVIOUS
  <1>1. /\ row = [x EXCEPT !.status = IF x.mode = "immediate" THEN "completed" ELSE "awaiting_receipt",
                           !.got = x.sent]
        /\ x = [status |-> x.status, from |-> x.from, to |-> x.to, mode |-> x.mode,
                sent |-> x.sent, got |-> x.got, reversed |-> x.reversed]
    BY DEF Store!Dispatched, IsTransfer
  <1>2. /\ row.status = IF x.mode = "immediate" THEN "completed" ELSE "awaiting_receipt"
        /\ row.from = x.from /\ row.to = x.to /\ row.mode = x.mode /\ row.sent = x.sent /\ row.got = x.sent
        /\ row.reversed = x.reversed
        /\ row = [status |-> row.status, from |-> row.from, to |-> row.to, mode |-> row.mode,
                  sent |-> row.sent, got |-> row.got, reversed |-> row.reversed]
    BY <1>1
  <1>3. IsTransfer(row) /\ ~row.reversed
    BY <1>2 DEF IsTransfer
  <1> PICK before \in [Items -> StepRow], mover \in [Items -> StepRow] :
            /\ LineSteps(x.sent, [i \in Items |-> before[i].lock], mover, DispatchSteps(x))
            /\ \A i \in Items : /\ before[i].lock = <<i, x.from>> /\ mover[i].count = None
                                /\ mover[i].look = <<i, x.from>> /\ mover[i].need = x.sent[i]
                                /\ mover[i].moves = Store!Plus(Store!Move(i, x.from, -x.sent[i]),
                                                               Store!Move(i, Store!Arrival(x), x.sent[i]))
    BY DispatchLines
  <1> PICK held : held = [i \in Items |-> before[i].lock]
    OBVIOUS
  <1> PICK to, sent : to = Store!Arrival(x) /\ sent = x.sent
    OBVIOUS
  <1>4. x.from \in Places /\ to \in Places /\ \A i \in Items : sent[i] \in Nat
    BY DEF IsTransfer, StockAssumed
  <1>5. ASSUME NEW i \in Items
        PROVE  /\ \A y \in Cells : mover[i].moves[y] = (IF y = <<i, x.from>> THEN -sent[i] ELSE 0)
                                                       + (IF y = <<i, to>> THEN sent[i] ELSE 0)
               /\ \A y \in Cells : mover[i].moves[y] # 0 => y[1] = i
    <2>1. sent[i] \in Int /\ -sent[i] \in Int
      BY <1>4
    <2>2. Between(mover[i].moves, i, x.from, to, -sent[i], sent[i])
      BY <1>4, <2>1, MovesBetween
    <2> QED BY <2>2 DEF Between
  <1>6. \A y \in Cells : y = <<y[1], y[2]>> /\ y[1] \in Items /\ y[2] \in Places
    BY DEF Cells
  <1>7. ASSUME NEW y \in Cells
        PROVE  TransferDue(t, row)[y] = IF sent[y[1]] = 0 THEN 0 ELSE mover[y[1]].moves[y]
    <2>1. TransferMoves(transfer[t], y) = 0
      BY DEF TransferMoves
    <2>2. TransferMoves(row, y) = (IF y[2] = x.from THEN -sent[y[1]] ELSE 0)
                                  + (IF y[2] = to THEN sent[y[1]] ELSE 0)
      BY <1>2, <1>3, <1>4, <1>6 DEF TransferMoves, Store!Arrival
    <2>3. mover[y[1]].moves[y] = (IF y[2] = x.from THEN -sent[y[1]] ELSE 0)
                                 + (IF y[2] = to THEN sent[y[1]] ELSE 0)
      BY <1>5, <1>6
    <2> QED BY <1>4, <1>6, <2>1, <2>2, <2>3 DEF TransferDue
  <1>8. ASSUME NEW i \in Items, NEW y \in Cells, Ground(y), mover[i].moves[y] < 0
        PROVE  /\ y = mover[i].look /\ y = held[i] /\ mover[i].need \in Int
               /\ mover[i].moves[y] + mover[i].need >= 0
    <2>1. y = <<i, x.from>>
      BY <1>4, <1>5, <1>8
    <2>2. mover[i].need = sent[i] /\ mover[i].look = <<i, x.from>> /\ held[i] = <<i, x.from>>
      OBVIOUS
    <2> QED BY <1>4, <1>5, <2>1, <2>2
  <1>9. MoversAre(sent, held, mover, TransferDue(t, row))
    BY <1>5, <1>7, <1>8 DEF MoversAre
  <1> QED BY <1>3, <1>9, TransferStarts

\* Dispatch changes the row by these steps.
LEMMA DispatchIs ==
  ASSUME NEW t, NEW x
  PROVE  Store!Dispatch(t, x) = Store!Change("transfer", t, Store!Dispatched(x), DispatchSteps(x))
  BY DEF Store!Dispatch, DispatchSteps

\* The creation and the cancellation of a draft move nothing.
LEMMA StillStarts ==
  ASSUME StockAssumed, StockInv, NEW c \in Requests, NEW t \in Transfers, NEW row, IsTransfer(row),
         row.status \in {"draft", "cancelled"}, transfer[t].status \in {"absent", "draft"},
         NEW o, Store!Starts(c, o), Store!Free(<<"transfer", t>>), IsChange(o, "transfer", t, row, <<>>)
  PROVE  StockInv'
  <1> PICK due : due = TransferDue(t, row)
    OBVIOUS
  <1>1. \A x \in Cells : due[x] = 0
    BY DEF TransferDue, TransferMoves
  <1> PICK none : none = [i \in Items |-> 0]
    OBVIOUS
  <1> PICK mover : mover = [i \in Items |-> Store!Step(<<i, Transit>>, <<i, Transit>>, None, Store!Nothing)]
    OBVIOUS
  <1>2. mover \in [Items -> StepRow]
    <2>1. \A i \in Items : <<i, Transit>> \in Cells
      BY DEF Cells, StockAssumed
    <2> QED BY <2>1, WaitIs
  <1>3. LineSteps(none, none, mover, <<>>) /\ MoversAre(none, none, mover, due)
    BY <1>1, NoLines
  <1> QED BY <1>2, <1>3, TransferStarts

\* A transfer is created as a draft that moves nothing, or dispatched at once.
LEMMA StockCreates ==
  ASSUME StockAssumed, StockInv, NEW c \in Requests, NEW t \in Transfers, NEW lane \in Lanes, NEW sent \in Sent,
         NEW submit \in BOOLEAN, Store!CreateTransfer(c, t, lane[1], lane[2], sent, submit)
  PROVE  StockInv'
  <1> PICK from, to : from = lane[1] /\ to = lane[2]
    OBVIOUS
  <1> PICK draft : draft = [status |-> "draft", from |-> from, to |-> to, mode |-> setting.mode,
                            sent |-> sent, got |-> sent, reversed |-> FALSE]
    OBVIOUS
  <1> PICK o : o = [IF submit THEN Store!Dispatch(t, draft) ELSE Store!Change("transfer", t, draft, <<>>)
                      EXCEPT !.place = {from, to}]
    OBVIOUS
  <1>1. /\ transfer[t].status = "absent" /\ Store!Free(<<"transfer", t>>) /\ Store!Starts(c, o)
    BY DEF Store!CreateTransfer
  <1>2. from \in Places /\ to \in Places /\ Transit \in Places
    BY DEF StockAssumed
  <1>3. /\ draft.status = "draft" /\ draft.from = from /\ draft.to = to /\ draft.sent = sent /\ draft.got = sent
        /\ draft.reversed = FALSE
        /\ draft = [status |-> draft.status, from |-> draft.from, to |-> draft.to, mode |-> draft.mode,
                    sent |-> draft.sent, got |-> draft.got, reversed |-> draft.reversed]
    OBVIOUS
  <1>4. IsTransfer(draft)
    BY <1>2, <1>3 DEF IsTransfer
  <1>5. Store!Arrival(draft) \in Places
    BY <1>2, <1>3 DEF Store!Arrival
  <1>6. CASE submit
    <2>1. IsChange(o, "transfer", t, Store!Dispatched(draft), DispatchSteps(draft))
      BY <1>6, ChangeIsOne, DispatchIs
    <2> QED BY <1>1, <1>3, <1>4, <1>5, <2>1, DispatchStarts
  <1>7. CASE ~submit
    <2>1. IsChange(o, "transfer", t, draft, <<>>)
      BY <1>7, ChangeIsOne
    <2> QED BY <1>1, <1>3, <1>4, <2>1, StillStarts
  <1> QED BY <1>6, <1>7

\* A draft is dispatched or cancelled.
LEMMA StockDrafts ==
  ASSUME StockAssumed, StockInv, NEW c \in Requests, NEW t \in Transfers,
         Store!DispatchDraft(c, t) \/ Store!CancelTransfer(c, t)
  PROVE  StockInv'
  <1> PICK x : x = transfer[t]
    OBVIOUS
  <1>1. x.status = "draft" /\ Store!Free(<<"transfer", t>>)
    BY DEF Store!DispatchDraft, Store!CancelTransfer
  <1>2. IsTransfer(x)
    BY <1>1 DEF StockInv, RowsAre
  <1>3. CASE Store!DispatchDraft(c, t)
    <2>1. Store!Starts(c, Store!Dispatch(t, x))
      BY <1>3 DEF Store!DispatchDraft
    <2>2. IsChange(Store!Dispatch(t, x), "transfer", t, Store!Dispatched(x), DispatchSteps(x))
      BY ChangeIsOne, DispatchIs
    <2>3. Store!Arrival(x) \in Places
      BY <1>2 DEF Store!Arrival, IsTransfer, StockAssumed
    <2> QED BY <1>1, <1>2, <2>1, <2>2, <2>3, DispatchStarts
  <1>4. CASE Store!CancelTransfer(c, t)
    <2> PICK row : row = [x EXCEPT !.status = "cancelled"]
      OBVIOUS
    <2>1. Store!Starts(c, Store!Change("transfer", t, row, <<>>))
      BY <1>4 DEF Store!CancelTransfer
    <2>2. IsChange(Store!Change("transfer", t, row, <<>>), "transfer", t, row, <<>>)
      BY ChangeIsOne
    <2>3. /\ row.status = "cancelled" /\ row.from = x.from /\ row.to = x.to /\ row.sent = x.sent
          /\ row.got = x.got /\ row.reversed = x.reversed
          /\ row = [status |-> row.status, from |-> row.from, to |-> row.to, mode |-> row.mode,
                    sent |-> row.sent, got |-> row.got, reversed |-> row.reversed]
      BY <1>2 DEF IsTransfer
    <2>4. IsTransfer(row)
      BY <1>1, <1>2, <2>3 DEF IsTransfer
    <2> QED BY <1>1, <2>1, <2>2, <2>3, <2>4, StillStarts
  <1> QED BY <1>3, <1>4

ReceiveSteps(x, got) == Store!AllLines(x.sent, 2, LAMBDA i :
    <<Store!Step(<<i, Transit>>, <<i, Transit>>, None, Store!Nothing),
      Store!Step(<<i, x.to>>, <<i, x.to>>, None,
                 Store!Plus(Store!Move(i, Transit, -x.sent[i]), Store!Move(i, x.to, got[i])))>>)

\* What a receipt is, with its steps.
LEMMA ReceiveIs ==
  ASSUME NEW c, NEW t, NEW got, Store!ReceiveTransfer(c, t, got)
  PROVE  /\ transfer[t].status = "awaiting_receipt" /\ Store!Free(<<"transfer", t>>)
         /\ \A i \in Items : got[i] <= transfer[t].sent[i]
         /\ Store!Starts(c, Store!Change("transfer", t, [transfer[t] EXCEPT !.status = "completed", !.got = got],
                                        ReceiveSteps(transfer[t], got)))
  BY Zenon DEF Store!ReceiveTransfer, ReceiveSteps

\* The lines of a receipt empty the transit and fill the destination.
LEMMA ReceiveLines ==
  ASSUME StockAssumed, Transit \in Places, NEW x, IsTransfer(x), NEW got \in Sent
  PROVE  \E before \in [Items -> StepRow], mover \in [Items -> StepRow] :
            /\ LineSteps(x.sent, [i \in Items |-> before[i].lock], mover, ReceiveSteps(x, got))
            /\ \A i \in Items : /\ mover[i].count = None
                                /\ Between(mover[i].moves, i, Transit, x.to, -x.sent[i], got[i])
  <1> PICK to, sent : to = x.to /\ sent = x.sent
    OBVIOUS
  <1>1. to \in Places /\ Transit \in Places /\ \A i \in Items : sent[i] \in Nat /\ got[i] \in Nat
    BY DEF IsTransfer, StockAssumed
  <1> DEFINE B(i) == Store!Step(<<i, Transit>>, <<i, Transit>>, None, Store!Nothing)
             P(i) == Store!Plus(Store!Move(i, Transit, -sent[i]), Store!Move(i, to, got[i]))
             M(i) == Store!Step(<<i, to>>, <<i, to>>, None, P(i))
  <1>2. ASSUME NEW i \in Items
        PROVE  /\ B(i) \in StepRow /\ Waits(B(i))
               /\ M(i) \in StepRow /\ M(i).count = None /\ M(i).moves = P(i)
               /\ Between(P(i), i, Transit, to, -sent[i], got[i])
    <2>1. <<i, Transit>> \in Cells /\ <<i, to>> \in Cells /\ -sent[i] \in Int /\ got[i] \in Int
      BY <1>1 DEF Cells
    <2>2. Between(P(i), i, Transit, to, -sent[i], got[i])
      BY <1>1, <2>1, MovesBetween
    <2>3. P(i) \in Quantities
      BY <2>2 DEF Between
    <2>4. M(i) \in StepRow /\ M(i).count = None /\ M(i).moves = P(i)
      <3> HIDE DEF P
      <3> QED BY <2>1, <2>3, StepFree
    <2>5. B(i) \in StepRow /\ Waits(B(i))
      BY <2>1, WaitIs
    <2> QED BY <2>2, <2>4, <2>5
  <1> HIDE DEF P
  <1> PICK before, mover : before = [i \in Items |-> B(i)] /\ mover = [i \in Items |-> M(i)]
    OBVIOUS
  <1> PICK L : L = Store!SetToSeq(CountedItems(sent))
    OBVIOUS
  <1>3. \A k \in 1 .. 2 * Len(L) : L[(k - 1) \div 2 + 1] \in Items
    BY ItemOfLine DEF StockAssumed
  <1>4. ReceiveSteps(x, got) = [k \in 1 .. 2 * Len(L) |->
                                  <<B(L[(k - 1) \div 2 + 1]), M(L[(k - 1) \div 2 + 1])>>[((k - 1) % 2) + 1]]
    BY DEF ReceiveSteps, Store!AllLines, CountedItems, P
  <1> HIDE DEF B, M
  <1>5. \A i \in Items : before[i] = B(i) /\ mover[i] = M(i)
    OBVIOUS
  <1>6. InTwos(ReceiveSteps(x, got), before, mover, L)
    BY <1>3, <1>4, <1>5 DEF InTwos
  <1>7. before \in [Items -> StepRow] /\ mover \in [Items -> StepRow] /\ \A i \in Items : Waits(before[i])
    BY <1>2
  <1>8. LineSteps(sent, [i \in Items |-> before[i].lock], mover, ReceiveSteps(x, got))
    BY <1>6, <1>7, LinesOfTwo DEF StockAssumed
  <1>9. ASSUME NEW i \in Items
        PROVE  mover[i].count = None /\ Between(mover[i].moves, i, Transit, to, -sent[i], got[i])
    BY <1>2, <1>5
  <1> QED BY <1>7, <1>8, <1>9

\* A receipt: the destination gains what arrived, the transit loses what was sent.
LEMMA StockReceives ==
  ASSUME StockAssumed, StockInv, NEW c \in Requests, NEW t \in Transfers, NEW got \in Sent,
         Store!ReceiveTransfer(c, t, got)
  PROVE  StockInv'
  <1> PICK x, to, sent : x = transfer[t] /\ to = x.to /\ sent = x.sent
    OBVIOUS
  <1> PICK row : row = [x EXCEPT !.status = "completed", !.got = got]
    OBVIOUS
  <1>1. /\ x.status = "awaiting_receipt" /\ Store!Free(<<"transfer", t>>)
        /\ \A i \in Items : got[i] <= sent[i]
        /\ Store!Starts(c, Store!Change("transfer", t, row, ReceiveSteps(x, got)))
    BY ReceiveIs
  <1>2. IsTransfer(x)
    BY <1>1 DEF StockInv, RowsAre
  <1>3. /\ to \in Places /\ Transit \in Places /\ ~x.reversed
        /\ \A i \in Items : sent[i] \in Nat /\ got[i] \in Nat
    BY <1>1, <1>2 DEF IsTransfer, StockAssumed
  <1>4. /\ row.status = "completed" /\ row.from = x.from /\ row.to = x.to /\ row.sent = x.sent
        /\ row.got = got /\ row.reversed = x.reversed
        /\ row = [status |-> row.status, from |-> row.from, to |-> row.to, mode |-> row.mode,
                  sent |-> row.sent, got |-> row.got, reversed |-> row.reversed]
    BY <1>2 DEF IsTransfer
  <1>5. IsTransfer(row)
    BY <1>2, <1>4 DEF IsTransfer
  <1> PICK before \in [Items -> StepRow], mover \in [Items -> StepRow] :
            /\ LineSteps(x.sent, [i \in Items |-> before[i].lock], mover, ReceiveSteps(x, got))
            /\ \A i \in Items : /\ mover[i].count = None
                                /\ Between(mover[i].moves, i, Transit, x.to, -x.sent[i], got[i])
    BY <1>2, <1>3, ReceiveLines
  <1> PICK held : held = [i \in Items |-> before[i].lock]
    OBVIOUS
  <1>6. \A y \in Cells : y = <<y[1], y[2]>> /\ y[1] \in Items /\ y[2] \in Places
    BY DEF Cells
  <1>7. ASSUME NEW i \in Items, NEW y \in Cells
        PROVE  /\ mover[i].moves[y] = (IF y = <<i, Transit>> THEN -sent[i] ELSE 0)
                                      + (IF y = <<i, to>> THEN got[i] ELSE 0)
               /\ mover[i].moves[y] # 0 => y[1] = i
    BY DEF Between
  <1>8. ASSUME NEW y \in Cells
        PROVE  TransferDue(t, row)[y] = IF sent[y[1]] = 0 THEN 0 ELSE mover[y[1]].moves[y]
    <2>1. TransferMoves(x, y) = (IF y[2] = x.from THEN -sent[y[1]] ELSE 0)
                                + (IF y[2] = Transit THEN sent[y[1]] ELSE 0)
      BY <1>1, <1>3, <1>6 DEF TransferMoves
    <2>2. TransferMoves(row, y) = (IF y[2] = x.from THEN -sent[y[1]] ELSE 0)
                                  + (IF y[2] = to THEN got[y[1]] ELSE 0)
      BY <1>3, <1>4, <1>6 DEF TransferMoves
    <2>3. mover[y[1]].moves[y] = (IF y[2] = Transit THEN -sent[y[1]] ELSE 0)
                                 + (IF y[2] = to THEN got[y[1]] ELSE 0)
      BY <1>6, <1>7
    <2>4. sent[y[1]] \in Nat /\ got[y[1]] \in Nat /\ (sent[y[1]] = 0 => got[y[1]] = 0)
      BY <1>1, <1>3, <1>6
    <2>5. TransferDue(t, row)[y] = TransferMoves(row, y) - TransferMoves(x, y)
      BY DEF TransferDue
    <2> PICK s, g : s = sent[y[1]] /\ g = got[y[1]]
      OBVIOUS
    <2> QED BY <2>1, <2>2, <2>3, <2>4, <2>5
  <1>9. ASSUME NEW i \in Items, NEW y \in Cells, Ground(y) PROVE ~(mover[i].moves[y] < 0)
    BY <1>3, <1>7, <1>9 DEF Ground
  <1>10. MoversAre(sent, held, mover, TransferDue(t, row))
    BY <1>7, <1>8, <1>9 DEF MoversAre
  <1>11. IsChange(Store!Change("transfer", t, row, ReceiveSteps(x, got)), "transfer", t, row, ReceiveSteps(x, got))
    BY ChangeIsOne
  <1> QED BY <1>1, <1>5, <1>10, <1>11, TransferStarts

ReverseSteps(x) == Store!AllLines(x.got, 1, LAMBDA i :
    <<Store!Step(<<i, x.to>>, <<i, x.to>>, x.got[i],
                 Store!Plus(Store!Move(i, x.to, -x.got[i]), Store!Move(i, x.from, x.got[i])))>>)

\* What a reversal is, with its steps.
LEMMA ReverseIs ==
  ASSUME NEW c, NEW t, Store!ReverseTransfer(c, t)
  PROVE  /\ transfer[t].status = "completed" /\ ~transfer[t].reversed /\ Store!Free(<<"transfer", t>>)
         /\ Store!Starts(c, Store!Change("transfer", t, [transfer[t] EXCEPT !.reversed = TRUE],
                                        ReverseSteps(transfer[t])))
  BY Zenon DEF Store!ReverseTransfer, ReverseSteps

\* The lines of a reversal look at the destination, under its lock.
LEMMA ReverseLines ==
  ASSUME StockAssumed, NEW x, IsTransfer(x)
  PROVE  \E mover \in [Items -> StepRow] :
            /\ LineSteps(x.got, [i \in Items |-> mover[i].lock], mover, ReverseSteps(x))
            /\ \A i \in Items : /\ mover[i].count = None /\ mover[i].lock = <<i, x.to>>
                                /\ mover[i].look = <<i, x.to>> /\ mover[i].need = x.got[i]
                                /\ Between(mover[i].moves, i, x.to, x.from, -x.got[i], x.got[i])
  <1> PICK from, to, got : from = x.from /\ to = x.to /\ got = x.got
    OBVIOUS
  <1>1. from \in Places /\ to \in Places /\ \A i \in Items : got[i] \in Nat
    BY DEF IsTransfer, StockAssumed
  <1> DEFINE P(i) == Store!Plus(Store!Move(i, to, -got[i]), Store!Move(i, from, got[i]))
             M(i) == Store!Step(<<i, to>>, <<i, to>>, got[i], P(i))
  <1>2. ASSUME NEW i \in Items
        PROVE  /\ M(i) \in StepRow /\ M(i).count = None /\ M(i).moves = P(i) /\ M(i).lock = <<i, to>>
               /\ M(i).look = <<i, to>> /\ M(i).need = got[i]
               /\ Between(P(i), i, to, from, -got[i], got[i])
    <2>1. <<i, to>> \in Cells /\ -got[i] \in Int /\ got[i] \in Int
      BY <1>1 DEF Cells
    <2>2. Between(P(i), i, to, from, -got[i], got[i])
      BY <1>1, <2>1, MovesBetween
    <2>3. P(i) \in Quantities
      BY <2>2 DEF Between
    <2>4. /\ M(i) \in StepRow /\ M(i).count = None /\ M(i).moves = P(i) /\ M(i).lock = <<i, to>>
          /\ M(i).look = <<i, to>> /\ M(i).need = got[i]
      <3> HIDE DEF P
      <3> QED BY <2>1, <2>3, StepIn
    <2> QED BY <2>2, <2>4
  <1> HIDE DEF P
  <1> PICK mover : mover = [i \in Items |-> M(i)]
    OBVIOUS
  <1> PICK L : L = Store!SetToSeq(CountedItems(got))
    OBVIOUS
  <1>3. \A k \in 1 .. 1 * Len(L) : L[(k - 1) \div 1 + 1] \in Items
    BY ItemOfLine DEF StockAssumed
  <1>4. ReverseSteps(x) = [k \in 1 .. 1 * Len(L) |-> <<M(L[(k - 1) \div 1 + 1])>>[((k - 1) % 1) + 1]]
    BY DEF ReverseSteps, Store!AllLines, CountedItems, P
  <1> HIDE DEF M
  <1>5. \A i \in Items : mover[i] = M(i)
    OBVIOUS
  <1>6. InOnes(ReverseSteps(x), mover, L)
    BY <1>3, <1>4, <1>5 DEF InOnes
  <1>7. mover \in [Items -> StepRow]
    BY <1>2
  <1>8. LineSteps(got, [i \in Items |-> mover[i].lock], mover, ReverseSteps(x))
    BY <1>6, <1>7, LinesOfOne DEF StockAssumed
  <1>9. ASSUME NEW i \in Items
        PROVE  /\ mover[i].count = None /\ mover[i].lock = <<i, to>>
               /\ mover[i].look = <<i, to>> /\ mover[i].need = got[i]
               /\ Between(mover[i].moves, i, to, from, -got[i], got[i])
    BY <1>2, <1>5
  <1> QED BY <1>7, <1>8, <1>9

\* A reversal: the origin gains what the destination loses.
LEMMA StockReverses ==
  ASSUME StockAssumed, StockInv, NEW c \in Requests, NEW t \in Transfers, Store!ReverseTransfer(c, t)
  PROVE  StockInv'
  <1> PICK x, from, to, got : x = transfer[t] /\ from = x.from /\ to = x.to /\ got = x.got
    OBVIOUS
  <1> PICK row : row = [x EXCEPT !.reversed = TRUE]
    OBVIOUS
  <1>1. /\ x.status = "completed" /\ ~x.reversed /\ Store!Free(<<"transfer", t>>)
        /\ Store!Starts(c, Store!Change("transfer", t, row, ReverseSteps(x)))
    BY ReverseIs
  <1>2. IsTransfer(x)
    BY <1>1 DEF StockInv, RowsAre
  <1>3. from \in Places /\ to \in Places /\ \A i \in Items : got[i] \in Nat /\ x.sent[i] \in Nat
    BY <1>2 DEF IsTransfer, StockAssumed
  <1>4. /\ row.status = "completed" /\ row.from = x.from /\ row.to = x.to /\ row.sent = x.sent
        /\ row.got = x.got /\ row.reversed = TRUE
        /\ row = [status |-> row.status, from |-> row.from, to |-> row.to, mode |-> row.mode,
                  sent |-> row.sent, got |-> row.got, reversed |-> row.reversed]
    BY <1>1, <1>2 DEF IsTransfer
  <1>5. IsTransfer(row)
    BY <1>2, <1>4 DEF IsTransfer
  <1> PICK mover \in [Items -> StepRow] :
            /\ LineSteps(x.got, [i \in Items |-> mover[i].lock], mover, ReverseSteps(x))
            /\ \A i \in Items : /\ mover[i].count = None /\ mover[i].lock = <<i, x.to>>
                                /\ mover[i].look = <<i, x.to>> /\ mover[i].need = x.got[i]
                                /\ Between(mover[i].moves, i, x.to, x.from, -x.got[i], x.got[i])
    BY <1>2, ReverseLines
  <1> PICK held : held = [i \in Items |-> mover[i].lock]
    OBVIOUS
  <1>6. \A y \in Cells : y = <<y[1], y[2]>> /\ y[1] \in Items /\ y[2] \in Places
    BY DEF Cells
  <1>7. ASSUME NEW i \in Items, NEW y \in Cells
        PROVE  /\ mover[i].moves[y] = (IF y = <<i, to>> THEN -got[i] ELSE 0)
                                      + (IF y = <<i, from>> THEN got[i] ELSE 0)
               /\ mover[i].moves[y] # 0 => y[1] = i
    BY DEF Between
  <1>8. ASSUME NEW y \in Cells
        PROVE  TransferDue(t, row)[y] = IF got[y[1]] = 0 THEN 0 ELSE mover[y[1]].moves[y]
    <2>1. TransferMoves(x, y) = (IF y[2] = from THEN -x.sent[y[1]] ELSE 0)
                                + (IF y[2] = to THEN got[y[1]] ELSE 0)
      BY <1>1, <1>3, <1>6 DEF TransferMoves
    <2>2. TransferMoves(row, y) = IF y[2] = from THEN got[y[1]] - x.sent[y[1]] ELSE 0
      BY <1>3, <1>4, <1>6 DEF TransferMoves
    <2>3. mover[y[1]].moves[y] = (IF y[2] = to THEN -got[y[1]] ELSE 0)
                                 + (IF y[2] = from THEN got[y[1]] ELSE 0)
      BY <1>6, <1>7
    <2>4. x.sent[y[1]] \in Nat /\ got[y[1]] \in Nat
      BY <1>3, <1>6
    <2>5. TransferDue(t, row)[y] = TransferMoves(row, y) - TransferMoves(x, y)
      BY DEF TransferDue
    <2> QED BY <2>1, <2>2, <2>3, <2>4, <2>5
  <1>9. ASSUME NEW i \in Items, NEW y \in Cells, mover[i].moves[y] < 0
        PROVE  /\ y = mover[i].look /\ y = held[i] /\ mover[i].need \in Int
               /\ mover[i].moves[y] + mover[i].need >= 0
    <2>1. y = <<i, to>>
      BY <1>3, <1>7, <1>9
    <2>2. mover[i].need = got[i] /\ mover[i].look = <<i, to>> /\ held[i] = <<i, to>>
      OBVIOUS
    <2> QED BY <1>3, <1>7, <2>1, <2>2
  <1>10. MoversAre(got, held, mover, TransferDue(t, row))
    BY <1>7, <1>8, <1>9 DEF MoversAre
  <1>11. IsChange(Store!Change("transfer", t, row, ReverseSteps(x)), "transfer", t, row, ReverseSteps(x))
    BY ChangeIsOne
  <1> QED BY <1>1, <1>5, <1>10, <1>11, TransferStarts

SellSteps(l) == Store!AllLines(Recipe, 1, LAMBDA i :
    <<Store!Step(<<i, l>>, <<i, l>>, Recipe[i], Store!Move(i, l, -Recipe[i]))>>)

\* The lines of a sale look at the place it takes from, under its lock.
LEMMA SellLines ==
  ASSUME StockAssumed, NEW l \in Places
  PROVE  \E mover \in [Items -> StepRow] :
            /\ LineSteps(Recipe, [i \in Items |-> mover[i].lock], mover, SellSteps(l))
            /\ \A i \in Items :
                  /\ mover[i].count = None /\ mover[i].lock = <<i, l>> /\ mover[i].look = <<i, l>>
                  /\ mover[i].need = Recipe[i]
                  /\ \A x \in Cells : mover[i].moves[x] = IF x = <<i, l>> THEN -Recipe[i] ELSE 0
  <1> DEFINE M(i) == Store!Step(<<i, l>>, <<i, l>>, Recipe[i], Store!Move(i, l, -Recipe[i]))
  <1>1. ASSUME NEW i \in Items
        PROVE  /\ M(i) \in StepRow /\ M(i).count = None /\ M(i).lock = <<i, l>> /\ M(i).look = <<i, l>>
               /\ M(i).need = Recipe[i]
               /\ \A x \in Cells : M(i).moves[x] = IF x = <<i, l>> THEN -Recipe[i] ELSE 0
    <2> PICK moves : moves = Store!Move(i, l, -Recipe[i])
      OBVIOUS
    <2>1. <<i, l>> \in Cells /\ -Recipe[i] \in Int /\ Recipe[i] \in Int
      BY DEF Cells, StockAssumed
    <2>2. moves \in Quantities /\ \A x \in Cells : moves[x] = IF x = <<i, l>> THEN -Recipe[i] ELSE 0
      BY <2>1, MovesAre
    <2>3. /\ M(i) \in StepRow /\ M(i).count = None /\ M(i).lock = <<i, l>> /\ M(i).look = <<i, l>>
          /\ M(i).need = Recipe[i] /\ M(i).moves = moves
      BY <2>1, <2>2, StepIn
    <2> QED BY <2>2, <2>3
  <1> PICK mover : mover = [i \in Items |-> M(i)]
    OBVIOUS
  <1> PICK L : L = Store!SetToSeq(CountedItems(Recipe))
    OBVIOUS
  <1>3. \A k \in 1 .. 1 * Len(L) : L[(k - 1) \div 1 + 1] \in Items
    BY ItemOfLine DEF StockAssumed
  <1>4. SellSteps(l) = [k \in 1 .. 1 * Len(L) |-> <<M(L[(k - 1) \div 1 + 1])>>[((k - 1) % 1) + 1]]
    BY DEF SellSteps, Store!AllLines, CountedItems
  <1> HIDE DEF M
  <1>5. \A i \in Items : mover[i] = M(i)
    OBVIOUS
  <1>6. InOnes(SellSteps(l), mover, L)
    BY <1>3, <1>4, <1>5 DEF InOnes
  <1>7. mover \in [Items -> StepRow]
    BY <1>1
  <1>8. LineSteps(Recipe, [i \in Items |-> mover[i].lock], mover, SellSteps(l))
    BY <1>6, <1>7, LinesOfOne DEF StockAssumed
  <1> QED BY <1>1, <1>5, <1>7, <1>8

\* What a sale is, with its steps.
LEMMA SellIs ==
  ASSUME NEW c, NEW s, Store!Sell(c, s)
  PROVE  /\ sale[s].status = "open" /\ Store!Free(<<"order", s>>)
         /\ \E l \in Store!SalePlaces :
               Store!Starts(c, Store!Change("order", s, [status |-> "sold", place |-> l], SellSteps(l)))
  BY Zenon DEF Store!Sell, SellSteps

\* A sale may start with lines that move what the sold order says.
LEMMA SaleStarts ==
  ASSUME StockAssumed, StockInv, NEW c \in Requests, NEW s \in Sales, sale[s].status = "open",
         NEW row \in SaleRow, row.status = "sold", row.place \in Places, NEW steps,
         NEW o, Store!Starts(c, o), IsChange(o, "order", s, row, steps), Store!Free(<<"order", s>>),
         NEW q, NEW held, NEW mover \in [Items -> StepRow], NEW due, \A x \in Cells : due[x] = SaleMoves(row, x),
         LineSteps(q, held, mover, steps), MoversAre(q, held, mover, due)
  PROVE  StockInv'
  <1>1. /\ o.steps = steps /\ o.moves = [x \in Cells |-> 0] /\ o.claim = <<"order", s>> /\ o.becomes = row
    BY DEF IsChange
  <1>2. /\ \A k \in 1 .. Len(steps) : Covered(o, k) /\ steps[k].count = None
        /\ \A x \in Cells : Owes(o, x, due[x])
    <2>1. LineSteps(q, held, mover, o.steps) /\ None \notin Int
      BY <1>1 DEF StockAssumed
    <2>2. /\ \A k \in 1 .. Len(o.steps) : Covered(o, k) /\ o.steps[k].count = None
          /\ \A x \in Cells : Owes(o, x, due[x])
      BY <1>1, <2>1, LinesRun
    <2> QED BY <1>1, <2>2
  <1>3. steps \in Seq(StepRow)
    BY DEF LineSteps
  <1>4. \A x \in Cells : Owes(o, x, SaleMoves(o.becomes, x))
    BY <1>1, <1>2
  <1>5. ClaimsSale(o)
    BY <1>1, <1>4 DEF ClaimsSale
  <1> QED BY <1>2, <1>3, <1>5, ChangeStarts

\* A sale takes what the order needs from one place.
LEMMA StockSells ==
  ASSUME StockAssumed, StockInv, NEW c \in Requests, NEW s \in Sales, Store!Sell(c, s)
  PROVE  StockInv'
  <1> PICK l \in Store!SalePlaces :
         Store!Starts(c, Store!Change("order", s, [status |-> "sold", place |-> l], SellSteps(l)))
    BY SellIs
  <1>1. l \in Places
    BY DEF Store!SalePlaces, Store!Active
  <1> PICK row : row = [status |-> "sold", place |-> l]
    OBVIOUS
  <1> PICK o : o = Store!Change("order", s, row, SellSteps(l))
    OBVIOUS
  <1>2. sale[s].status = "open" /\ Store!Free(<<"order", s>>) /\ Store!Starts(c, o)
    BY SellIs
  <1>3. IsChange(o, "order", s, row, SellSteps(l))
    BY ChangeIsOne
  <1> PICK mover \in [Items -> StepRow] :
            /\ LineSteps(Recipe, [i \in Items |-> mover[i].lock], mover, SellSteps(l))
            /\ \A i \in Items :
                  /\ mover[i].count = None /\ mover[i].lock = <<i, l>> /\ mover[i].look = <<i, l>>
                  /\ mover[i].need = Recipe[i]
                  /\ \A x \in Cells : mover[i].moves[x] = IF x = <<i, l>> THEN -Recipe[i] ELSE 0
    BY <1>1, SellLines
  <1> PICK held, due : held = [i \in Items |-> mover[i].lock] /\ due = [x \in Cells |-> SaleMoves(row, x)]
    OBVIOUS
  <1>4. \A y \in Cells : y = <<y[1], y[2]>> /\ y[1] \in Items /\ y[2] \in Places
    BY DEF Cells
  <1>5. \A i \in Items : Recipe[i] \in Nat
    BY DEF StockAssumed
  <1>6. ASSUME NEW y \in Cells PROVE due[y] = IF Recipe[y[1]] = 0 THEN 0 ELSE mover[y[1]].moves[y]
    <2>1. due[y] = IF l = y[2] THEN -Recipe[y[1]] ELSE 0
      BY DEF SaleMoves
    <2>2. mover[y[1]].moves[y] = IF y[2] = l THEN -Recipe[y[1]] ELSE 0
      BY <1>4
    <2> QED BY <1>4, <1>5, <2>1, <2>2
  <1>13. ASSUME NEW i \in Items
         PROVE  /\ mover[i].count = None
                /\ \A x \in Cells : mover[i].moves[x] # 0 => x[1] = i
                /\ \A x \in Cells : mover[i].moves[x] < 0 =>
                      /\ x = mover[i].look /\ x = held[i] /\ mover[i].need \in Int
                      /\ mover[i].moves[x] + mover[i].need >= 0
    <2>1. held[i] = <<i, l>> /\ Recipe[i] \in Nat
      BY <1>5
    <2>2. \A x \in Cells : mover[i].moves[x] # 0 => x = <<i, l>> /\ mover[i].moves[x] = -Recipe[i]
      OBVIOUS
    <2> QED BY <2>1, <2>2
  <1>7. MoversAre(Recipe, held, mover, due)
    BY <1>6, <1>13 DEF MoversAre
  <1>8. row \in SaleRow /\ row.status = "sold" /\ row.place \in Places
    BY <1>1 DEF SaleRow
  <1>9. \A x \in Cells : due[x] = SaleMoves(row, x)
    OBVIOUS
  <1> QED BY <1>2, <1>3, <1>7, <1>8, <1>9, SaleStarts

\* A dose moves in one step.
MovesDose(s, d, row) ==
    /\ row \in DoseRow /\ (row.status = "consumed" => row.item \in Items /\ row.place \in Places)
    /\ s \in StepRow /\ s.count = None
    /\ \A x \in Cells : Ground(x) /\ s.moves[x] < 0 =>
          x = s.look /\ x = s.lock /\ s.need \in Int /\ s.moves[x] + s.need >= 0
    /\ \A x \in Cells : s.moves[x] = DoseMoves(row, x) - DoseMoves(dose[d], x)

\* A dose may be taken or given back by one step.
LEMMA DoseStarts ==
  ASSUME StockAssumed, StockInv, NEW c \in Requests, NEW d \in Doses, NEW row, NEW s, MovesDose(s, d, row),
         Store!Free(<<"dose", d>>), Store!Starts(c, Store!Change("dose", d, row, <<s>>))
  PROVE  StockInv'
  <1> USE DEF MovesDose
  <1> PICK o, steps : o = Store!Change("dose", d, row, <<s>>) /\ steps = <<s>>
    OBVIOUS
  <1>1. IsChange(o, "dose", d, row, steps)
    BY ChangeIsOne
  <1>2. o.steps = steps /\ o.claim = <<"dose", d>> /\ o.becomes = row /\ o.moves = [x \in Cells |-> 0]
    BY <1>1 DEF IsChange
  <1>3. steps \in Seq(StepRow) /\ Len(steps) = 1 /\ steps[1] = s
    OBVIOUS
  <1>4. \A k \in 1 .. Len(steps) : Covered(o, k) /\ steps[k].count = None
    <2>1. Covered(o, 1)
      BY <1>2, <1>3 DEF Covered
    <2> QED BY <1>3, <2>1
  <1>5. ASSUME NEW x \in Cells PROVE Owes(o, x, DoseMoves(o.becomes, x) - DoseMoves(dose[d], x))
    <2>1. s.moves[x] \in Int /\ o.moves[x] = 0
      BY <1>2 DEF StepRow, Quantities
    <2>2. o.moves[x] + o.steps[1].moves[x] = DoseMoves(o.becomes, x) - DoseMoves(dose[d], x)
      BY <1>2, <1>3, <2>1
    <2> QED BY <1>2, <1>3, <2>2 DEF Owes
  <1>6. ClaimsDose(o)
    BY <1>2, <1>5 DEF ClaimsDose
  <1> QED BY <1>1, <1>3, <1>4, <1>6, ChangeStarts

\* A dose is taken under the lock of its item and place, and given back there.
LEMMA StockDoses ==
  ASSUME StockAssumed, StockInv, NEW c \in Requests, NEW d \in Doses,
         (\E i \in Items : Store!ConsumeDose(c, d, i)) \/ Store!ReverseDose(c, d)
  PROVE  StockInv'
  <1>0. dose[d] \in DoseRow
    BY DEF StockInv, RowsAre
  <1>1. ASSUME NEW i \in Items, Store!ConsumeDose(c, d, i) PROVE StockInv'
    <2> PICK l : l = setting.place
      OBVIOUS
    <2> PICK moves : moves = Store!Move(i, l, -1)
      OBVIOUS
    <2> PICK s : s = Store!Step(<<i, l>>, <<i, l>>, 1, moves)
      OBVIOUS
    <2> PICK row : row = [status |-> "consumed", item |-> i, place |-> l]
      OBVIOUS
    <2>1. l \in Places /\ dose[d].status = "absent" /\ Store!Free(<<"dose", d>>)
          /\ Store!Starts(c, Store!Change("dose", d, row, <<s>>))
      BY <1>1 DEF Store!ConsumeDose, Store!Active
    <2>2. moves \in Quantities /\ \A x \in Cells : moves[x] = IF x = <<i, l>> THEN -1 ELSE 0
      BY <2>1, MovesAre
    <2>3. s \in StepRow /\ s.lock = <<i, l>> /\ s.look = <<i, l>> /\ s.need = 1 /\ s.count = None /\ s.moves = moves
      <3>1. <<i, l>> \in Cells /\ 1 \in Int \cup {None}
        BY <2>1 DEF Cells
      <3> QED BY <2>2, <3>1, StepIn
    <2>4. row \in DoseRow /\ row.item \in Items /\ row.place \in Places
      BY <2>1 DEF DoseRow
    <2>5. ASSUME NEW x \in Cells PROVE s.moves[x] = DoseMoves(row, x) - DoseMoves(dose[d], x)
      <3>1. DoseMoves(dose[d], x) = 0
        BY <2>1 DEF DoseMoves
      <3>2. DoseMoves(row, x) = IF i = x[1] /\ l = x[2] THEN -1 ELSE 0
        BY DEF DoseMoves
      <3>3. x = <<x[1], x[2]>>
        BY DEF Cells
      <3> QED BY <2>2, <2>3, <3>1, <3>2, <3>3
    <2>6. MovesDose(s, d, row)
      BY <2>2, <2>3, <2>4, <2>5 DEF MovesDose
    <2> QED BY <2>1, <2>6, DoseStarts
  <1>2. ASSUME Store!ReverseDose(c, d) PROVE StockInv'
    <2> PICK x0, i, l : x0 = dose[d] /\ i = x0.item /\ l = x0.place
      OBVIOUS
    <2> PICK moves : moves = Store!Move(i, l, 1)
      OBVIOUS
    <2> PICK s : s = Store!Step(<<i, l>>, <<i, l>>, None, moves)
      OBVIOUS
    <2>1. x0.status = "consumed" /\ Store!Free(<<"dose", d>>)
          /\ Store!Starts(c, Store!Change("dose", d, [x0 EXCEPT !.status = "reversed"], <<s>>))
      BY <1>2 DEF Store!ReverseDose
    <2>2. i \in Items /\ l \in Places
      BY <2>1 DEF StockInv, RowsAre
    <2>3. moves \in Quantities /\ \A x \in Cells : moves[x] = IF x = <<i, l>> THEN 1 ELSE 0
      BY <2>2, MovesAre
    <2>4. s \in StepRow /\ s.count = None /\ s.moves = moves
      <3>1. <<i, l>> \in Cells
        BY <2>2 DEF Cells
      <3> QED BY <2>3, <3>1, StepFree
    <2>5. x0 = [status |-> "consumed", item |-> i, place |-> l]
      BY <1>0, <2>1 DEF DoseRow
    <2> PICK row : row = [x0 EXCEPT !.status = "reversed"]
      OBVIOUS
    <2>11. row \in DoseRow /\ row.status = "reversed"
      BY <1>0 DEF DoseRow
    <2>6. ASSUME NEW x \in Cells PROVE s.moves[x] = DoseMoves(row, x) - DoseMoves(dose[d], x)
      <3>1. DoseMoves(row, x) = 0
        BY <2>11 DEF DoseMoves
      <3>2. DoseMoves(x0, x) = IF i = x[1] /\ l = x[2] THEN -1 ELSE 0
        BY <2>5 DEF DoseMoves
      <3>3. x = <<x[1], x[2]>>
        BY DEF Cells
      <3> QED BY <2>3, <2>4, <3>1, <3>2, <3>3
    <2>7. \A x \in Cells : ~(s.moves[x] < 0)
      BY <2>3, <2>4
    <2>8. Store!Starts(c, Store!Change("dose", d, row, <<s>>))
      BY <2>1
    <2>9. row.status = "consumed" => row.item \in Items /\ row.place \in Places
      BY <2>11
    <2>10. \A x \in Cells : Ground(x) /\ s.moves[x] < 0 =>
            x = s.look /\ x = s.lock /\ s.need \in Int /\ s.moves[x] + s.need >= 0
      BY <2>7
    <2>12. MovesDose(s, d, row)
      BY <2>4, <2>6, <2>9, <2>10, <2>11 DEF MovesDose
    <2> QED BY <2>1, <2>8, <2>12, DoseStarts
  <1> QED BY <1>1, <1>2

\* A transaction that does not run.
Rests(o) ==
    /\ o = [at |-> o.at, steps |-> o.steps, locks |-> o.locks, moves |-> o.moves, byHand |-> o.byHand,
            claim |-> o.claim, becomes |-> o.becomes, place |-> o.place, mode |-> o.mode]
    /\ o.at # "run" /\ o.steps = <<>> /\ o.locks = {} /\ o.moves = [x \in Cells |-> 0]
    /\ o.byHand = FALSE /\ o.claim = <<>>

\* A transaction that ended, one that archives and one that sets rest.
LEMMA OffRests ==
  /\ Rests(Store!Off)
  /\ \A place : Rests([Store!Off EXCEPT !.at = "archive", !.place = place])
  /\ \A becomes, mode : Rests([Store!Off EXCEPT !.at = "settings", !.becomes = becomes, !.mode = mode])
  <1>1. ASSUME NEW o, NEW z, NEW at, NEW becomes, NEW place, NEW mode, z = [x \in Cells |-> 0], at # "run",
               o = [at |-> at, steps |-> <<>>, locks |-> {}, moves |-> z, byHand |-> FALSE,
                    claim |-> <<>>, becomes |-> becomes, place |-> place, mode |-> mode]
        PROVE  Rests(o)
    <2>1. o.at = at /\ o.steps = <<>> /\ o.locks = {} /\ o.moves = z /\ o.byHand = FALSE /\ o.claim = <<>>
      BY <1>1
    <2>2. o = [at |-> o.at, steps |-> o.steps, locks |-> o.locks, moves |-> o.moves, byHand |-> o.byHand,
               claim |-> o.claim, becomes |-> o.becomes, place |-> o.place, mode |-> o.mode]
      BY <1>1
    <2> QED BY <1>1, <2>1, <2>2 DEF Rests
  <1> PICK z : z = Store!Nothing
    OBVIOUS
  <1>2. z = [x \in Cells |-> 0]
    BY MovesAre
  <1> PICK r : r = Store!Off
    OBVIOUS
  <1>3. r = [at |-> "idle", steps |-> <<>>, locks |-> {}, moves |-> z, byHand |-> FALSE,
             claim |-> <<>>, becomes |-> None, place |-> {}, mode |-> None]
    BY StoreOffIs
  <1>4. ASSUME NEW place, NEW o, o = [r EXCEPT !.at = "archive", !.place = place] PROVE Rests(o)
    <2>1. o = [at |-> "archive", steps |-> <<>>, locks |-> {}, moves |-> z, byHand |-> FALSE,
               claim |-> <<>>, becomes |-> None, place |-> place, mode |-> None]
      BY <1>4, StoreOffIs
    <2> QED BY <1>1, <1>2, <2>1
  <1>5. ASSUME NEW becomes, NEW mode, NEW o, o = [r EXCEPT !.at = "settings", !.becomes = becomes, !.mode = mode]
        PROVE  Rests(o)
    <2>1. o = [at |-> "settings", steps |-> <<>>, locks |-> {}, moves |-> z, byHand |-> FALSE,
               claim |-> <<>>, becomes |-> becomes, place |-> {}, mode |-> mode]
      BY <1>5, StoreOffIs
    <2> QED BY <1>1, <1>2, <2>1
  <1> QED BY <1>1, <1>2, <1>3, <1>4, <1>5

\* What rests moves nothing and holds nothing.
LEMMA RestsRun ==
  ASSUME StockInv, NEW o, Rests(o)
  PROVE  IsRun(o) /\ Safe(o) /\ o.locks = {} /\ o.claim = <<>>
  <1>1. IsOp(o)
    <2>1. o.moves \in Quantities
      BY MovesAre DEF Rests
    <2>2. o.steps \in Seq(StepRow) /\ o.locks \subseteq Cells /\ o.byHand \in BOOLEAN
      <3>1. o.steps = <<>> /\ o.locks = {} /\ o.byHand = FALSE
        BY DEF Rests
      <3>2. <<>> \in Seq(StepRow)
        OBVIOUS
      <3> QED BY <3>1, <3>2
    <2>3. o = [at |-> o.at, steps |-> o.steps, locks |-> o.locks, moves |-> o.moves, byHand |-> o.byHand,
               claim |-> o.claim, becomes |-> o.becomes, place |-> o.place, mode |-> o.mode]
      BY DEF Rests
    <2> QED BY <2>1, <2>2, <2>3 DEF IsOp
  <1>2. Claims(o)
    BY DEF Rests, Claims
  <1>3. Safe(o)
    BY DEF Rests, Safe, StockInv, RowsAre, Quantities
  <1> QED BY <1>1, <1>2, <1>3 DEF Rests, IsRun

\* Places and settings move nothing, and an abort gives everything back.
LEMMA StockElsewhere ==
  ASSUME StockInv, NEW c \in Requests,
         \/ \E l \in Places : Store!ReadArchive(c, l)
         \/ \E l \in Configurable, mode \in Modes : Store!ReadSettings(c, l, mode)
         \/ Store!WriteArchive(c) \/ Store!WriteSettings(c) \/ Store!Abort(c)
  PROVE  StockInv'
  <1>1. \E o : Rests(o) /\ op' = [op EXCEPT ![c] = o]
    <2>1. CASE Store!WriteArchive(c) \/ Store!WriteSettings(c) \/ Store!Abort(c)
      <3>1. op' = [op EXCEPT ![c] = Store!Off]
        BY <2>1 DEF Store!WriteArchive, Store!WriteSettings, Store!Abort, Store!Done
      <3> QED BY <3>1, OffRests
    <2>2. ASSUME NEW l \in Places, Store!ReadArchive(c, l)
          PROVE  \E o : Rests(o) /\ op' = [op EXCEPT ![c] = o]
      <3>1. op' = [op EXCEPT ![c] = [Store!Off EXCEPT !.at = "archive", !.place = {l}]]
        BY <2>2 DEF Store!ReadArchive, Store!Starts, Store!Begin
      <3> QED BY <3>1, OffRests
    <2>3. ASSUME NEW l, NEW mode, Store!ReadSettings(c, l, mode)
          PROVE  \E o : Rests(o) /\ op' = [op EXCEPT ![c] = o]
      <3>1. op' = [op EXCEPT ![c] = [Store!Off EXCEPT !.at = "settings", !.becomes = l, !.mode = mode]]
        BY <2>3 DEF Store!ReadSettings, Store!Starts, Store!Begin
      <3> QED BY <3>1, OffRests
    <2> QED BY <2>1, <2>2, <2>3
  <1>2. UNCHANGED <<stock, hand, transfer, sale, dose>>
    BY DEF Store!ReadArchive, Store!ReadSettings, Store!WriteArchive, Store!WriteSettings, Store!Abort,
           Store!Starts
  <1> PICK o : Rests(o) /\ op' = [op EXCEPT ![c] = o]
    BY <1>1
  <1>3. IsRun(o) /\ Safe(o) /\ o.locks = {} /\ o.claim = <<>>
    BY RestsRun
  <1> QED BY <1>2, <1>3, StockCall
-----------------------------------------------------------------------------
\* A line is taken: n is what o becomes, m what moves.
Taken(n, o, m) ==
    /\ n = [at |-> n.at, steps |-> n.steps, locks |-> n.locks, moves |-> n.moves, byHand |-> n.byHand,
            claim |-> n.claim, becomes |-> n.becomes, place |-> n.place, mode |-> n.mode]
    /\ n.at = o.at /\ n.steps = Tail(o.steps) /\ n.locks = o.locks \cup {o.steps[1].lock}
    /\ n.moves \in Quantities /\ \A x \in Cells : n.moves[x] = o.moves[x] + m[x]
    /\ n.byHand = o.byHand /\ n.claim = o.claim /\ n.becomes = o.becomes

TakeBalance(o, s) == stock[s.look] + o.moves[s.look]
TakeMoves(o, s) ==
    IF s.count = None THEN s.moves ELSE Store!Move(s.look[1], s.look[2], s.count - TakeBalance(o, s))
TakeRow(o, s, m) == [o EXCEPT !.steps = Tail(@), !.locks = @ \cup {s.lock}, !.moves = Store!Plus(@, m)]

\* A line is taken, or the transaction ends.
LEMMA TakeIs ==
  ASSUME NEW c, Store!Take(c)
  PROVE  LET o == op[c]
             s == Head(o.steps)
             m == TakeMoves(o, s)
         IN  /\ o.at = "run" /\ o.steps # <<>> /\ Store!LockFree(c, s.lock)
             /\ UNCHANGED <<stock, hand, transfer, sale, dose>>
             /\ \/ Store!Available(s, TakeBalance(o, s)) /\ op' = [op EXCEPT ![c] = TakeRow(o, s, m)]
                \/ op' = [op EXCEPT ![c] = Store!Off]
  <1>1. /\ op[c].at = "run" /\ op[c].steps # <<>> /\ Store!LockFree(c, Head(op[c].steps).lock)
        /\ UNCHANGED <<stock, hand, transfer, sale, dose>>
    BY DEF Store!Take
  <1>2. \/ /\ Store!Available(Head(op[c].steps), TakeBalance(op[c], Head(op[c].steps)))
           /\ op' = [op EXCEPT ![c] = TakeRow(op[c], Head(op[c].steps), TakeMoves(op[c], Head(op[c].steps)))]
        \/ op' = [op EXCEPT ![c] = Store!Off]
    BY Zenon DEF Store!Take, Store!Done, TakeMoves, TakeRow, TakeBalance
  <1> QED BY <1>1, <1>2

\* What the transaction is then.
LEMMA TakenIs ==
  ASSUME NEW o, IsOp(o), NEW m \in Quantities, NEW s, s.lock = o.steps[1].lock
  PROVE  Taken(TakeRow(o, s, m), o, m)
  <1> PICK n, lock : n = TakeRow(o, s, m) /\ lock = s.lock
    OBVIOUS
  <1> PICK sum : sum = Store!Plus(o.moves, m)
    OBVIOUS
  <1>1. sum \in Quantities /\ \A x \in Cells : sum[x] = o.moves[x] + m[x]
    BY MovesAre DEF IsOp
  <1>2. n = [o EXCEPT !.steps = Tail(o.steps), !.locks = o.locks \cup {lock}, !.moves = sum]
    BY DEF TakeRow
  <1>3. o = [at |-> o.at, steps |-> o.steps, locks |-> o.locks, moves |-> o.moves, byHand |-> o.byHand,
             claim |-> o.claim, becomes |-> o.becomes, place |-> o.place, mode |-> o.mode]
    BY DEF IsOp
  <1>4. /\ n.at = o.at /\ n.steps = Tail(o.steps) /\ n.locks = o.locks \cup {lock} /\ n.moves = sum
        /\ n.byHand = o.byHand /\ n.claim = o.claim /\ n.becomes = o.becomes
        /\ n = [at |-> n.at, steps |-> n.steps, locks |-> n.locks, moves |-> n.moves, byHand |-> n.byHand,
                claim |-> n.claim, becomes |-> n.becomes, place |-> n.place, mode |-> n.mode]
    BY <1>2, <1>3
  <1> QED BY <1>1, <1>4 DEF Taken

\* What is due is still due.
LEMMA TakenOwes ==
  ASSUME NEW o, IsOp(o), NEW m, NEW n, Taken(n, o, m), o.steps # <<>>, m = o.steps[1].moves,
         NEW x \in Cells, NEW due, Owes(o, x, due)
  PROVE  Owes(n, x, due)
  <1>1. /\ Len(o.steps) \in Nat /\ Len(o.steps) >= 1 /\ Len(n.steps) = Len(o.steps) - 1
        /\ \A k \in 1 .. Len(n.steps) : n.steps[k] = o.steps[k + 1]
    BY DEF Taken, IsOp
  <1>2. /\ n.moves[x] = o.moves[x] + o.steps[1].moves[x] /\ o.moves[x] \in Int
        /\ o.steps[1].moves[x] \in Int
    <2>1. o.steps[1] \in StepRow
      BY <1>1 DEF IsOp
    <2>2. o.moves \in Quantities /\ o.steps[1].moves \in Quantities
      BY <2>1 DEF IsOp, StepRow
    <2>3. n.moves[x] = o.moves[x] + m[x]
      BY DEF Taken
    <2> QED BY <2>2, <2>3 DEF Quantities
  <1>3. CASE o.moves[x] = due /\ \A k \in 1 .. Len(o.steps) : o.steps[k].moves[x] = 0
    <2>1. \A k \in 1 .. Len(n.steps) : n.steps[k].moves[x] = 0
      BY <1>1, <1>3
    <2>2. n.moves[x] = due
      BY <1>1, <1>2, <1>3
    <2> QED BY <2>1, <2>2 DEF Owes
  <1>4. ASSUME NEW k \in 1 .. Len(o.steps), o.moves[x] + o.steps[k].moves[x] = due,
               \A j \in 1 .. Len(o.steps) : j # k => o.steps[j].moves[x] = 0
        PROVE  Owes(n, x, due)
    <2>1. CASE k = 1
      <3>1. \A j \in 1 .. Len(n.steps) : n.steps[j].moves[x] = 0
        BY <1>1, <1>4, <2>1
      <3>2. n.moves[x] = due
        BY <1>2, <1>4, <2>1
      <3> QED BY <3>1, <3>2 DEF Owes
    <2>2. CASE k # 1
      <3>1. k - 1 \in 1 .. Len(n.steps) /\ n.steps[k - 1] = o.steps[k]
        BY <1>1, <2>2
      <3>2. n.moves[x] = o.moves[x]
        BY <1>1, <1>2, <1>4, <2>2
      <3>3. \A j \in 1 .. Len(n.steps) : j # k - 1 => n.steps[j].moves[x] = 0
        BY <1>1, <1>4
      <3>4. n.moves[x] + n.steps[k - 1].moves[x] = due
        BY <1>4, <3>1, <3>2
      <3> QED BY <3>1, <3>3, <3>4 DEF Owes
    <2> QED BY <2>1, <2>2
  <1> QED BY <1>3, <1>4 DEF Owes

\* The rest of what runs still does.
LEMMA TakenRuns ==
  ASSUME NEW o, IsRun(o), NEW m, NEW n, Taken(n, o, m), o.at = "run", o.steps # <<>>,
         o.steps[1].count = None => m = o.steps[1].moves
  PROVE  IsRun(n)
  <1>1. IsOp(o) /\ (\A k \in 1 .. Len(o.steps) : Covered(o, k)) /\ Claims(o)
    BY DEF IsRun
  <1>2. /\ Len(o.steps) \in Nat /\ Len(o.steps) >= 1 /\ Len(n.steps) = Len(o.steps) - 1
        /\ (\A k \in 1 .. Len(n.steps) : n.steps[k] = o.steps[k + 1]) /\ n.steps \in Seq(StepRow)
        /\ o.steps[1] \in StepRow
    BY <1>1 DEF Taken, IsOp
  <1>3. IsOp(n)
    BY <1>1, <1>2 DEF Taken, IsOp, StepRow
  <1>4. ASSUME NEW k \in 1 .. Len(n.steps) PROVE Covered(n, k)
    <2>1. k + 1 \in 1 .. Len(o.steps) /\ Covered(o, k + 1) /\ n.steps[k] = o.steps[k + 1]
      BY <1>1, <1>2
    <2>2. ASSUME NEW x, x \in o.locks \/ \E j \in 1 .. k + 1 : o.steps[j].lock = x
          PROVE  x \in n.locks \/ \E j \in 1 .. k : n.steps[j].lock = x
      <3>1. CASE x \in o.locks \/ o.steps[1].lock = x
        BY <3>1 DEF Taken
      <3>2. ASSUME NEW j \in 1 .. k + 1, o.steps[j].lock = x, j # 1
            PROVE  \E i \in 1 .. k : n.steps[i].lock = x
        <4>1. j - 1 \in 1 .. k /\ n.steps[j - 1] = o.steps[j]
          BY <1>2, <3>2
        <4> QED BY <3>2, <4>1
      <3> QED BY <2>2, <3>1, <3>2
    <2> QED BY <2>1, <2>2 DEF Covered
  <1>5. ASSUME ~o.byHand PROVE o.steps[1].count = None /\ \A x \in Cells : \A due : Owes(o, x, due) => Owes(n, x, due)
    <2>1. o.steps[1].count = None
      BY <1>1, <1>2, <1>5 DEF Claims
    <2> QED BY <1>1, <2>1, TakenOwes
  <1>6. ASSUME ~o.byHand PROVE ClaimsTransfer(n) \/ ClaimsSale(n) \/ ClaimsDose(n)
    <2>1. n.claim = o.claim /\ n.becomes = o.becomes
      BY DEF Taken
    <2>2. ClaimsTransfer(o) => ClaimsTransfer(n)
      BY <1>5, <1>6, <2>1 DEF ClaimsTransfer
    <2>3. ClaimsSale(o) => ClaimsSale(n)
      BY <1>5, <1>6, <2>1 DEF ClaimsSale
    <2>4. ClaimsDose(o) => ClaimsDose(n)
      BY <1>5, <1>6, <2>1 DEF ClaimsDose
    <2> QED BY <1>1, <1>6, <2>2, <2>3, <2>4 DEF Claims
  <1>7. ASSUME ~o.byHand PROVE \A k \in 1 .. Len(n.steps) : n.steps[k].count = None
    BY <1>1, <1>2, <1>7 DEF Claims
  <1>8. Claims(n)
    BY <1>1, <1>6, <1>7 DEF Claims, Taken
  <1> QED BY <1>3, <1>4, <1>8 DEF IsRun

\* What is taken is there.
LEMMA TakenSafe ==
  ASSUME StockAssumed, StockInv, NEW o, IsRun(o), Safe(o), NEW m \in Quantities, NEW n, Taken(n, o, m),
         o.steps # <<>>, NEW s, s = o.steps[1], NEW balance, balance = stock[s.look] + o.moves[s.look],
         Store!Available(s, balance),
         s.count = None => m = s.moves,
         s.count # None => \A x \in Cells : m[x] = IF x = s.look THEN s.count - balance ELSE 0
  PROVE  Safe(n)
  <1>1. s \in StepRow /\ Covered(o, 1) /\ Len(o.steps) >= 1 /\ Len(o.steps) \in Nat
    BY DEF IsRun, IsOp
  <1>2. /\ s.look \in Cells /\ s.lock \in Cells /\ s.count \in Nat \cup {None} /\ balance \in Int
        /\ \A x \in Cells : stock[x] \in Int /\ o.moves[x] \in Int /\ m[x] \in Int
    <2>1. s.look \in Cells /\ s.lock \in Cells /\ s.count \in Nat \cup {None}
      BY <1>1 DEF StepRow
    <2>2. stock \in Quantities /\ o.moves \in Quantities
      BY DEF IsRun, IsOp, StockInv, RowsAre
    <2>3. \A x \in Cells : stock[x] \in Int /\ o.moves[x] \in Int /\ m[x] \in Int
      BY <2>2 DEF Quantities
    <2> QED BY <2>1, <2>3
  <1> SUFFICES ASSUME NEW x \in Cells, Ground(x)
               PROVE  (n.moves[x] < 0 => x \in n.locks) /\ stock[x] + n.moves[x] >= 0
    BY DEF Safe
  <1>3. n.moves[x] = o.moves[x] + m[x] /\ n.locks = o.locks \cup {s.lock}
    BY DEF Taken
  <1>4. (o.moves[x] < 0 => x \in o.locks) /\ stock[x] + o.moves[x] >= 0
    BY DEF Safe
  <1>5. CASE m[x] >= 0
    BY <1>2, <1>3, <1>4, <1>5
  <1>6. CASE m[x] < 0 /\ s.count = None
    <2>1. x = s.look /\ s.need \in Int /\ m[x] + s.need >= 0 /\ (x \in o.locks \/ s.lock = x)
      BY <1>1, <1>6 DEF Covered
    <2>2. balance >= s.need
      BY <2>1 DEF StockAssumed, Store!Available, Ground
    <2> PICK a, b, e, need : a = stock[x] /\ b = o.moves[x] /\ e = m[x] /\ need = s.need
      OBVIOUS
    <2>3. a \in Int /\ b \in Int /\ e \in Int /\ need \in Int /\ e + need >= 0 /\ a + b >= need
      BY <1>2, <2>1, <2>2
    <2>4. a + (b + e) >= 0
      BY <2>3
    <2>5. x \in n.locks
      BY <1>3, <2>1
    <2> QED BY <1>3, <2>4, <2>5
  <1>7. CASE m[x] < 0 /\ s.count # None
    <2>1. x = s.look /\ s.look = s.lock /\ m[x] = s.count - balance /\ s.count \in Nat
      BY <1>1, <1>2, <1>7 DEF Covered
    <2>2. balance = stock[x] + o.moves[x] /\ n.moves[x] = o.moves[x] + (s.count - balance)
      BY <1>3, <2>1
    <2> PICK a, b, e : a = stock[x] /\ b = o.moves[x] /\ e = s.count
      OBVIOUS
    <2>3. a \in Int /\ b \in Int /\ e \in Nat /\ n.moves[x] = b + (e - (a + b))
      BY <1>2, <2>1, <2>2
    <2>4. a + n.moves[x] = e
      BY <2>3
    <2> QED BY <1>3, <2>1, <2>3, <2>4
  <1>8. m[x] >= 0 \/ m[x] < 0
    BY <1>2
  <1> QED BY <1>5, <1>6, <1>7, <1>8

\* What is taken, or counted, is quantities.
LEMMA TakeMovesAre ==
  ASSUME StockInv, NEW o, IsOp(o), NEW s \in StepRow, NEW m, m = TakeMoves(o, s)
  PROVE  /\ m \in Quantities /\ (s.count = None => m = s.moves)
         /\ s.count # None => \A x \in Cells : m[x] = IF x = s.look THEN s.count - TakeBalance(o, s) ELSE 0
  <1> PICK balance : balance = TakeBalance(o, s)
    OBVIOUS
  <1>1. /\ s.look \in Cells /\ s.moves \in Quantities /\ s.count \in Nat \cup {None}
        /\ stock \in Quantities /\ o.moves \in Quantities
    BY DEF StepRow, IsOp, StockInv, RowsAre
  <1>2. balance \in Int
    BY <1>1 DEF TakeBalance, Quantities
  <1> PICK i, l : i = s.look[1] /\ l = s.look[2]
    OBVIOUS
  <1>3. s.look = <<i, l>> /\ i \in Items /\ l \in Places
    BY <1>1 DEF Cells
  <1>4. CASE s.count = None
    BY <1>1, <1>4 DEF TakeMoves
  <1>5. CASE s.count # None
    <2> PICK q : q = s.count - balance
      OBVIOUS
    <2>1. q \in Int /\ m = Store!Move(i, l, q)
      BY <1>1, <1>2, <1>5 DEF TakeMoves
    <2> QED BY <1>3, <1>5, <2>1, MovesAre
  <1> QED BY <1>4, <1>5

\* A line is taken under a lock nobody else has, or the transaction ends.
LEMMA StockTakes ==
  ASSUME StockAssumed, StockInv, NEW c \in Requests, Store!Take(c)
  PROVE  StockInv'
  <1> PICK o : o = op[c]
    OBVIOUS
  <1> PICK s : s = Head(o.steps)
    OBVIOUS
  <1> PICK m : m = TakeMoves(o, s)
    OBVIOUS
  <1> PICK n : n = TakeRow(o, s, m)
    OBVIOUS
  <1>1. /\ o.at = "run" /\ o.steps # <<>> /\ Store!LockFree(c, s.lock)
        /\ UNCHANGED <<stock, hand, transfer, sale, dose>>
        /\ \/ Store!Available(s, TakeBalance(o, s)) /\ op' = [op EXCEPT ![c] = n]
           \/ op' = [op EXCEPT ![c] = Store!Off]
    BY TakeIs
  <1>2. CASE op' = [op EXCEPT ![c] = Store!Off]
    BY <1>1, <1>2, OffRests, RestsRun, StockCall
  <1>3. CASE Store!Available(s, TakeBalance(o, s)) /\ op' = [op EXCEPT ![c] = n]
    <2>1. IsRun(o) /\ Safe(o) /\ IsOp(o)
      BY DEF StockInv, IsRun
    <2>2. s = o.steps[1] /\ s \in StepRow
      BY <1>1, <2>1 DEF IsOp
    <2>3. /\ m \in Quantities /\ (s.count = None => m = s.moves)
          /\ s.count # None => \A x \in Cells : m[x] = IF x = s.look THEN s.count - TakeBalance(o, s) ELSE 0
      BY <2>1, <2>2, TakeMovesAre
    <2>4. Taken(n, o, m)
      BY <2>1, <2>2, <2>3, TakenIs
    <2>5. IsRun(n)
      BY <1>1, <2>1, <2>2, <2>3, <2>4, TakenRuns
    <2>6. Safe(n)
      <3> PICK balance : balance = TakeBalance(o, s)
        OBVIOUS
      <3>1. balance = stock[s.look] + o.moves[s.look]
        BY DEF TakeBalance
      <3>2. Store!Available(s, balance)
        BY <1>3
      <3>3. s.count # None => \A x \in Cells : m[x] = IF x = s.look THEN s.count - balance ELSE 0
        BY <2>3
      <3> QED BY <1>1, <2>1, <2>2, <2>3, <2>4, <3>1, <3>2, <3>3, TakenSafe
    <2>7. n.locks = o.locks \cup {s.lock} /\ n.claim = o.claim
      BY <2>2, <2>4 DEF Taken
    <2>8. ASSUME NEW d \in Requests \ {c}
          PROVE  n.locks \cap op[d].locks = {} /\ (n.claim # <<>> => n.claim # op[d].claim)
      BY <1>1, <2>7 DEF StockInv, OpsApart, Store!LockFree
    <2>9. op' = [op EXCEPT ![c] = n]
      BY <1>3
    <2> QED BY <1>1, <2>5, <2>6, <2>8, <2>9, StockCall
  <1> QED BY <1>1, <1>2, <1>3
-----------------------------------------------------------------------------
\* The rows that a transaction has claimed are as they were.
ClaimKept(o) ==
    /\ \A t \in Transfers : o.claim = <<"transfer", t>> => transfer'[t] = transfer[t]
    /\ \A s \in Sales : o.claim = <<"order", s>> => sale'[s] = sale[s] \/ sale[s].status # "open"
    /\ \A d \in Doses : o.claim = <<"dose", d>> => dose'[d] = dose[d]

\* A transaction stays what it is while others add, or take what it has no
\* lock for.
LEMMA OthersStay ==
  ASSUME StockInv, NEW d \in Requests, op'[d] = op[d], stock' \in Quantities,
         \A x \in Cells : Ground(x) => stock'[x] >= 0 /\ (x \in op[d].locks => stock'[x] >= stock[x]),
         ClaimKept(op[d])
  PROVE  IsRun(op[d])' /\ Safe(op[d])'
  <1> PICK o : o = op[d]
    OBVIOUS
  <1>1. IsRun(o) /\ Safe(o)
    BY DEF StockInv
  <1>2. ClaimsTransfer(o) => ClaimsTransfer(op[d])'
    <2>1. ASSUME NEW t \in Transfers, o.claim = <<"transfer", t>>, IsTransfer(o.becomes),
                 \A x \in Cells : Owes(o, x, TransferMoves(o.becomes, x) - TransferMoves(transfer[t], x))
          PROVE  ClaimsTransfer(op[d])'
      <3>1. transfer'[t] = transfer[t]
        BY <2>1 DEF ClaimKept
      <3>2. \A x \in Cells : Owes(o, x, TransferMoves(o.becomes, x) - TransferMoves(transfer'[t], x))
        BY <2>1, <3>1
      <3> QED BY <2>1, <3>2 DEF ClaimsTransfer, Owes, TransferMoves, IsTransfer, Cells
    <2> QED BY <2>1 DEF ClaimsTransfer
  <1>3. ClaimsSale(o) => ClaimsSale(op[d])'
    <2>1. ASSUME NEW s \in Sales, o.claim = <<"order", s>>, o.becomes \in SaleRow, o.becomes.status = "sold",
                 o.becomes.place \in Places, sale[s].status = "open",
                 \A x \in Cells : Owes(o, x, SaleMoves(o.becomes, x))
          PROVE  ClaimsSale(op[d])'
      <3>1. sale'[s].status = "open"
        BY <2>1 DEF ClaimKept
      <3> QED BY <2>1, <3>1 DEF ClaimsSale, Owes, SaleMoves, Cells
    <2> QED BY <2>1 DEF ClaimsSale
  <1>4. ClaimsDose(o) => ClaimsDose(op[d])'
    <2>1. ASSUME NEW e \in Doses, o.claim = <<"dose", e>>, o.becomes \in DoseRow,
                 o.becomes.status = "consumed" => o.becomes.item \in Items /\ o.becomes.place \in Places,
                 \A x \in Cells : Owes(o, x, DoseMoves(o.becomes, x) - DoseMoves(dose[e], x))
          PROVE  ClaimsDose(op[d])'
      <3>1. dose'[e] = dose[e]
        BY <2>1 DEF ClaimKept
      <3>2. \A x \in Cells : Owes(o, x, DoseMoves(o.becomes, x) - DoseMoves(dose'[e], x))
        BY <2>1, <3>1
      <3> QED BY <2>1, <3>2 DEF ClaimsDose, Owes, DoseMoves, Cells
    <2> QED BY <2>1 DEF ClaimsDose
  <1>5. Claims(op[d])'
    BY <1>1, <1>2, <1>3, <1>4 DEF Claims, IsRun, Cells
  <1>6. IsOp(op[d])' /\ \A k \in 1 .. Len(op'[d].steps) : Covered(op[d], k)'
    BY <1>1 DEF IsRun, IsOp, Covered, Cells, Ground
  <1>7. ASSUME NEW x \in Cells, Ground(x)
        PROVE  (o.moves[x] < 0 => x \in o.locks) /\ stock'[x] + o.moves[x] >= 0
    <2>1. (o.moves[x] < 0 => x \in o.locks) /\ stock[x] + o.moves[x] >= 0
      BY <1>1, <1>7 DEF Safe
    <2>2. stock[x] \in Int /\ stock'[x] \in Int /\ o.moves[x] \in Int
      BY <1>1 DEF StockInv, RowsAre, Quantities, IsRun, IsOp
    <2> QED BY <1>7, <2>1, <2>2
  <1>8. Safe(op[d])'
    BY <1>7 DEF Safe, Ground, Cells
  <1> QED BY <1>5, <1>6, <1>8 DEF IsRun

\* What a commit writes.
LEMMA CommitIs ==
  ASSUME NEW c, Store!Commit(c), NEW o, o = op[c]
  PROVE  /\ o.at = "run" /\ o.steps = <<>> /\ stock' = Store!Plus(stock, o.moves)
         /\ hand' = IF o.byHand THEN Store!Plus(hand, o.moves) ELSE hand
         /\ transfer' = IF o.claim # <<>> /\ o.claim[1] = "transfer"
                        THEN [transfer EXCEPT ![o.claim[2]] = o.becomes] ELSE transfer
         /\ sale' = IF o.claim # <<>> /\ o.claim[1] = "order"
                    THEN [sale EXCEPT ![o.claim[2]] = o.becomes] ELSE sale
         /\ dose' = IF o.claim # <<>> /\ o.claim[1] = "dose"
                    THEN [dose EXCEPT ![o.claim[2]] = o.becomes] ELSE dose
         /\ op' = [op EXCEPT ![c] = Store!Off]
  BY DEF Store!Commit, Store!Done

\* What is due when all lines are taken has moved.
LEMMA OwesNothing ==
  ASSUME NEW o, o.steps = <<>>, NEW x, NEW due, Owes(o, x, due)
  PROVE  o.moves[x] = due
  BY DEF Owes

\* The sum of the transfers, when one changes.
LEMMA TransferMovesInt ==
  ASSUME StockAssumed, NEW row, row.status = "absent" \/ IsTransfer(row), NEW x \in Cells
  PROVE  TransferMoves(row, x) \in Int
  <1>1. x[1] \in Items
    BY DEF Cells
  <1>2. CASE IsTransfer(row)
    <2>1. row.sent[x[1]] \in Int /\ row.got[x[1]] \in Int
      BY <1>1, <1>2 DEF IsTransfer, StockAssumed
    <2> QED BY <2>1 DEF TransferMoves
  <1>3. CASE row.status = "absent"
    BY <1>3 DEF TransferMoves
  <1> QED BY <1>2, <1>3

\* Only the changed transfer counts.
LEMMA TransfersChange ==
  ASSUME StockAssumed, RowsAre, NEW t \in Transfers, NEW row, IsTransfer(row),
         transfer' = [transfer EXCEPT ![t] = row], NEW x \in Cells
  PROVE  /\ TransfersAt(x)' = TransfersAt(x) + TransferMoves(row, x) - TransferMoves(transfer[t], x)
         /\ TransfersAt(x) \in Int
  <1> PICK f, g : f = [s \in Transfers |-> TransferMoves(transfer[s], x)]
                  /\ g = [s \in Transfers |-> TransferMoves(transfer'[s], x)]
    OBVIOUS
  <1>1. \A s \in Transfers : transfer'[s] = IF s = t THEN row ELSE transfer[s]
    BY DEF RowsAre
  <1>2. \A s \in Transfers : f[s] \in Int /\ g[s] \in Int
    BY <1>1, TransferMovesInt DEF RowsAre
  <1>3. (\A s \in Transfers \ {t} : g[s] = f[s]) /\ f[t] = TransferMoves(transfer[t], x) /\ g[t] = TransferMoves(row, x)
    BY <1>1
  <1>4. Total(g, Transfers) = Total(f, Transfers) - f[t] + g[t] /\ Total(f, Transfers) \in Int
    BY <1>2, <1>3, TotalChange, TotalInt DEF StockAssumed
  <1>5. TransfersAt(x) = Total(f, Transfers)
    BY DEF TransfersAt
  <1>6. TransfersAt(x)' = Total(g, Transfers)
    BY DEF TransfersAt, TransferMoves
  <1>7. f[t] \in Int /\ g[t] \in Int
    BY <1>2
  <1> QED BY <1>3, <1>4, <1>5, <1>6, <1>7

\* Two parts of a set that differ in e at most.
LEMMA CardinalityChange ==
  ASSUME NEW S, IsFiniteSet(S), NEW A \in SUBSET S, NEW B \in SUBSET S, NEW e \in S,
         \A y \in S \ {e} : y \in A <=> y \in B
  PROVE  /\ Cardinality(A) \in Nat /\ Cardinality(B) \in Nat
         /\ (e \in A <=> e \in B) => Cardinality(B) = Cardinality(A)
         /\ e \notin A /\ e \in B => Cardinality(B) = Cardinality(A) + 1
         /\ e \in A /\ e \notin B => Cardinality(B) = Cardinality(A) - 1
  <1>1. IsFiniteSet(A) /\ IsFiniteSet(B)
    BY FS_Subset
  <1>2. Cardinality(A) \in Nat /\ Cardinality(B) \in Nat
    BY <1>1, FS_CardinalityType
  <1>3. ASSUME e \in A <=> e \in B PROVE A = B
    BY <1>3
  <1>4. ASSUME e \notin A, e \in B PROVE Cardinality(B) = Cardinality(A) + 1
    <2>1. B = A \cup {e}
      BY <1>4
    <2> QED BY <1>1, <1>4, <2>1, FS_AddElement
  <1>5. ASSUME e \in A, e \notin B PROVE Cardinality(B) = Cardinality(A) - 1
    <2>1. A = B \cup {e}
      BY <1>5
    <2>2. Cardinality(A) = Cardinality(B) + 1
      BY <1>1, <1>5, <2>1, FS_AddElement
    <2> QED BY <1>2, <2>2
  <1> QED BY <1>2, <1>3, <1>4, <1>5

\* What is added up is integers.
LEMMA BookedInt ==
  ASSUME StockAssumed, RowsAre, NEW x \in Cells
  PROVE  /\ stock[x] \in Int /\ hand[x] \in Int /\ TransfersAt(x) \in Int /\ Recipe[x[1]] \in Nat
         /\ Cardinality(SalesAt(x)) \in Nat /\ Cardinality(DosesAt(x)) \in Nat
  <1>1. stock[x] \in Int /\ hand[x] \in Int
    BY DEF RowsAre, Quantities
  <1>2. Recipe[x[1]] \in Nat
    BY DEF StockAssumed, Cells
  <1>3. TransfersAt(x) \in Int
    <2> PICK f : f = [s \in Transfers |-> TransferMoves(transfer[s], x)]
      OBVIOUS
    <2>1. \A s \in Transfers : f[s] \in Int
      BY TransferMovesInt DEF RowsAre
    <2>2. Total(f, Transfers) \in Int
      BY <2>1, TotalInt DEF StockAssumed
    <2> QED BY <2>2 DEF TransfersAt
  <1>4. SalesAt(x) \subseteq Sales /\ DosesAt(x) \subseteq Doses
    BY DEF SalesAt, DosesAt
  <1>5. Cardinality(SalesAt(x)) \in Nat /\ Cardinality(DosesAt(x)) \in Nat
    BY <1>4, FS_Subset, FS_CardinalityType DEF StockAssumed
  <1> QED BY <1>1, <1>2, <1>3, <1>5

\* The orders sold from a place, when one order's row changes.
LEMMA SalesChange ==
  ASSUME StockAssumed, RowsAre, NEW s \in Sales, NEW row,
         sale' = [sale EXCEPT ![s] = row], NEW x \in Cells
  PROVE  Recipe[x[1]] * Cardinality(SalesAt(x)') =
             Recipe[x[1]] * Cardinality(SalesAt(x)) - SaleMoves(row, x) + SaleMoves(sale[s], x)
  <1>1. \A o \in Sales : sale'[o] = IF o = s THEN row ELSE sale[o]
    BY DEF RowsAre
  <1> PICK A, B : A = SalesAt(x) /\ B = SalesAt(x)'
    OBVIOUS
  <1>2. /\ A \in SUBSET Sales /\ B \in SUBSET Sales
        /\ \A o \in Sales \ {s} : o \in A <=> o \in B
        /\ s \in A <=> sale[s] = [status |-> "sold", place |-> x[2]]
        /\ s \in B <=> row = [status |-> "sold", place |-> x[2]]
    BY <1>1 DEF SalesAt
  <1> PICK a, b, r : a = Cardinality(A) /\ b = Cardinality(B) /\ r = Recipe[x[1]]
    OBVIOUS
  <1>3. /\ a \in Nat /\ b \in Nat /\ ((s \in A <=> s \in B) => b = a)
        /\ (s \notin A /\ s \in B => b = a + 1) /\ (s \in A /\ s \notin B => b = a - 1)
    BY <1>2, CardinalityChange DEF StockAssumed
  <1>4. r \in Nat
    BY BookedInt
  <1>5. r * (a + 1) = r * a + r /\ r * (a - 1) = r * a - r /\ r * a \in Int
    BY <1>3, <1>4
  <1>6. /\ SaleMoves(sale[s], x) = IF s \in A THEN -r ELSE 0
        /\ SaleMoves(row, x) = IF s \in B THEN -r ELSE 0
    BY <1>2 DEF SaleMoves
  <1> PICK ra, rb : ra = r * a /\ rb = r * b
    OBVIOUS
  <1>7. rb = ra - SaleMoves(row, x) + SaleMoves(sale[s], x)
    <2>1. CASE s \in A <=> s \in B
      BY <1>3, <1>4, <1>5, <1>6, <2>1
    <2>2. CASE s \notin A /\ s \in B
      <3>1. rb = ra + r /\ ra \in Int
        BY <1>3, <1>5, <2>2
      <3> QED BY <1>4, <1>6, <2>2, <3>1
    <2>3. CASE s \in A /\ s \notin B
      <3>1. rb = ra - r /\ ra \in Int
        BY <1>3, <1>5, <2>3
      <3> QED BY <1>4, <1>6, <2>3, <3>1
    <2> QED BY <2>1, <2>2, <2>3
  <1> QED BY <1>7

\* The doses taken of an item at a place, when one row changes.
LEMMA DosesChange ==
  ASSUME StockAssumed, RowsAre, NEW d \in Doses, NEW row,
         dose' = [dose EXCEPT ![d] = row], NEW x \in Cells
  PROVE  Cardinality(DosesAt(x)') = Cardinality(DosesAt(x)) - DoseMoves(row, x) + DoseMoves(dose[d], x)
  <1>1. \A e \in Doses : dose'[e] = IF e = d THEN row ELSE dose[e]
    BY DEF RowsAre
  <1> PICK A, B : A = DosesAt(x) /\ B = DosesAt(x)'
    OBVIOUS
  <1>2. /\ A \in SUBSET Doses /\ B \in SUBSET Doses
        /\ \A e \in Doses \ {d} : e \in A <=> e \in B
        /\ d \in A <=> dose[d] = [status |-> "consumed", item |-> x[1], place |-> x[2]]
        /\ d \in B <=> row = [status |-> "consumed", item |-> x[1], place |-> x[2]]
    BY <1>1 DEF DosesAt
  <1>3. /\ DoseMoves(dose[d], x) = IF d \in A THEN -1 ELSE 0
        /\ DoseMoves(row, x) = IF d \in B THEN -1 ELSE 0
    BY <1>2 DEF DoseMoves
  <1>4. /\ Cardinality(A) \in Nat /\ Cardinality(B) \in Nat
        /\ ((d \in A <=> d \in B) => Cardinality(B) = Cardinality(A))
        /\ (d \notin A /\ d \in B => Cardinality(B) = Cardinality(A) + 1)
        /\ (d \in A /\ d \notin B => Cardinality(B) = Cardinality(A) - 1)
    BY <1>2, CardinalityChange DEF StockAssumed
  <1> QED BY <1>3, <1>4

\* A transaction that ends, and whoever stays: the rest of what is to hold.
LEMMA StockMoved ==
  ASSUME StockInv, RowsAre', \A x \in Cells : (Ground(x) => stock'[x] >= 0) /\ Booked(x)',
         \A d \in Requests :
            \/ Rests(op'[d])
            \/ /\ op'[d] = op[d] /\ ClaimKept(op[d])
               /\ \A x \in Cells : Ground(x) /\ x \in op[d].locks => stock'[x] >= stock[x]
  PROVE  StockInv'
  <1>1. ASSUME NEW d \in Requests PROVE IsRun(op[d])' /\ Safe(op[d])'
    <2>1. stock' \in Quantities
      BY DEF RowsAre, Quantities, Cells
    <2>2. CASE Rests(op'[d])
      <3> PICK o : o = op'[d]
        OBVIOUS
      <3>1. Rests(o) /\ IsRun(o)
        BY <2>2, RestsRun
      <3>2. IsOp(op[d])' /\ \A k \in 1 .. Len(op'[d].steps) : Covered(op[d], k)'
        BY <3>1 DEF IsRun, IsOp, Covered, Cells, Ground
      <3>3. Claims(op[d])'
        BY <3>1 DEF Rests, Claims, Cells
      <3>4. Safe(op[d])'
        BY <2>1, <3>1 DEF Rests, Safe, Quantities, Cells, Ground
      <3> QED BY <3>2, <3>3, <3>4 DEF IsRun
    <2> QED BY <2>1, <2>2, OthersStay
  <1>2. ASSUME NEW d \in Requests, NEW e \in Requests PROVE OpsApart(d, e)'
    <2>1. \A g \in Requests : (op'[g].locks = {} /\ op'[g].claim = <<>>) \/ op'[g] = op[g]
      BY DEF Rests
    <2> QED BY <2>1 DEF StockInv, OpsApart
  <1> QED BY <1>1, <1>2 DEF StockInv, Cells, Ground
-----------------------------------------------------------------------------
\* What a transaction that has taken all its lines has moved.
CommitsByHand(o) ==
    /\ o.claim = <<>> /\ hand' = Store!Plus(hand, o.moves) /\ UNCHANGED <<transfer, sale, dose>>

CommitsTransfer(o, t) ==
    /\ o.claim = <<"transfer", t>> /\ IsTransfer(o.becomes)
    /\ transfer' = [transfer EXCEPT ![t] = o.becomes] /\ UNCHANGED <<hand, sale, dose>>
    /\ \A x \in Cells : o.moves[x] = TransferMoves(o.becomes, x) - TransferMoves(transfer[t], x)

CommitsSale(o, s) ==
    /\ o.claim = <<"order", s>> /\ o.becomes \in SaleRow /\ o.becomes.place \in Places
    /\ sale[s].status = "open"
    /\ sale' = [sale EXCEPT ![s] = o.becomes] /\ UNCHANGED <<hand, transfer, dose>>
    /\ \A x \in Cells : o.moves[x] = SaleMoves(o.becomes, x)

CommitsDose(o, d) ==
    /\ o.claim = <<"dose", d>> /\ o.becomes \in DoseRow
    /\ o.becomes.status = "consumed" => o.becomes.item \in Items /\ o.becomes.place \in Places
    /\ dose' = [dose EXCEPT ![d] = o.becomes] /\ UNCHANGED <<hand, transfer, sale>>
    /\ \A x \in Cells : o.moves[x] = DoseMoves(o.becomes, x) - DoseMoves(dose[d], x)

\* A commit is by hand, or of the one row it claimed.
LEMMA CommitCases ==
  ASSUME StockInv, NEW c \in Requests, Store!Commit(c), NEW o, o = op[c]
  PROVE  \/ CommitsByHand(o) \/ (\E t \in Transfers : CommitsTransfer(o, t))
         \/ (\E s \in Sales : CommitsSale(o, s)) \/ (\E d \in Doses : CommitsDose(o, d))
  <1>1. /\ o.at = "run" /\ o.steps = <<>>
        /\ hand' = IF o.byHand THEN Store!Plus(hand, o.moves) ELSE hand
        /\ transfer' = IF o.claim # <<>> /\ o.claim[1] = "transfer"
                       THEN [transfer EXCEPT ![o.claim[2]] = o.becomes] ELSE transfer
        /\ sale' = IF o.claim # <<>> /\ o.claim[1] = "order"
                   THEN [sale EXCEPT ![o.claim[2]] = o.becomes] ELSE sale
        /\ dose' = IF o.claim # <<>> /\ o.claim[1] = "dose"
                   THEN [dose EXCEPT ![o.claim[2]] = o.becomes] ELSE dose
    BY CommitIs
  <1>2. Claims(o) /\ IsOp(o)
    BY DEF StockInv, IsRun
  <1>3. CASE o.byHand
    <2>1. o.claim = <<>>
      BY <1>2, <1>3 DEF Claims
    <2> QED BY <1>1, <1>3, <2>1 DEF CommitsByHand
  <1>4. CASE ~o.byHand
    <2>1. ClaimsTransfer(o) \/ ClaimsSale(o) \/ ClaimsDose(o)
      BY <1>1, <1>2, <1>4 DEF Claims
    <2>2. hand' = hand
      BY <1>1, <1>4
    <2>3. ASSUME NEW kind, NEW key, o.claim = <<kind, key>>
          PROVE  o.claim # <<>> /\ o.claim[1] = kind /\ o.claim[2] = key
      BY <2>3
    <2>4. CASE ClaimsTransfer(o)
      <3> PICK t \in Transfers :
             /\ o.claim = <<"transfer", t>> /\ IsTransfer(o.becomes)
             /\ \A x \in Cells : Owes(o, x, TransferMoves(o.becomes, x) - TransferMoves(transfer[t], x))
        BY <2>4 DEF ClaimsTransfer
      <3>1. \A x \in Cells : o.moves[x] = TransferMoves(o.becomes, x) - TransferMoves(transfer[t], x)
        BY <1>1, OwesNothing
      <3>2. transfer' = [transfer EXCEPT ![t] = o.becomes] /\ sale' = sale /\ dose' = dose
        BY <1>1, <2>3
      <3> QED BY <2>2, <3>1, <3>2 DEF CommitsTransfer
    <2>5. CASE ClaimsSale(o)
      <3> PICK s \in Sales :
             /\ o.claim = <<"order", s>> /\ o.becomes \in SaleRow /\ o.becomes.place \in Places
             /\ sale[s].status = "open" /\ \A x \in Cells : Owes(o, x, SaleMoves(o.becomes, x))
        BY <2>5 DEF ClaimsSale
      <3>1. \A x \in Cells : o.moves[x] = SaleMoves(o.becomes, x)
        BY <1>1, OwesNothing
      <3>2. sale' = [sale EXCEPT ![s] = o.becomes] /\ transfer' = transfer /\ dose' = dose
        BY <1>1, <2>3
      <3> QED BY <2>2, <3>1, <3>2 DEF CommitsSale
    <2>6. CASE ClaimsDose(o)
      <3> PICK d \in Doses :
             /\ o.claim = <<"dose", d>> /\ o.becomes \in DoseRow
             /\ o.becomes.status = "consumed" => o.becomes.item \in Items /\ o.becomes.place \in Places
             /\ \A x \in Cells : Owes(o, x, DoseMoves(o.becomes, x) - DoseMoves(dose[d], x))
        BY <2>6 DEF ClaimsDose
      <3>1. \A x \in Cells : o.moves[x] = DoseMoves(o.becomes, x) - DoseMoves(dose[d], x)
        BY <1>1, OwesNothing
      <3>2. dose' = [dose EXCEPT ![d] = o.becomes] /\ transfer' = transfer /\ sale' = sale
        BY <1>1, <2>3
      <3> QED BY <2>2, <3>1, <3>2 DEF CommitsDose
    <2> QED BY <2>1, <2>4, <2>5, <2>6
  <1> QED BY <1>2, <1>3, <1>4 DEF IsOp

\* Its rows are rows, and what moved is booked.
LEMMA CommitBooks ==
  ASSUME StockAssumed, StockInv, NEW o, IsOp(o), stock' \in Quantities,
         \A x \in Cells : stock'[x] = stock[x] + o.moves[x],
         op' = [e \in Requests |-> op'[e]],
         \/ CommitsByHand(o) \/ (\E t \in Transfers : CommitsTransfer(o, t))
         \/ (\E s \in Sales : CommitsSale(o, s)) \/ (\E d \in Doses : CommitsDose(o, d))
  PROVE  RowsAre' /\ \A x \in Cells : Booked(x)'
  <1>1. RowsAre /\ o.moves \in Quantities /\ \A x \in Cells : Booked(x)
    BY DEF StockInv, IsOp
  <1>2. ASSUME NEW x \in Cells
        PROVE  /\ stock[x] \in Int /\ hand[x] \in Int /\ TransfersAt(x) \in Int /\ Recipe[x[1]] \in Nat
               /\ Cardinality(SalesAt(x)) \in Nat /\ Cardinality(DosesAt(x)) \in Nat
               /\ Recipe[x[1]] * Cardinality(SalesAt(x)) \in Int
               /\ o.moves[x] \in Int /\ stock'[x] = stock[x] + o.moves[x]
               /\ stock[x] - hand[x] = TransfersAt(x) - Recipe[x[1]] * Cardinality(SalesAt(x)) - Cardinality(DosesAt(x))
    <2>1. /\ stock[x] \in Int /\ hand[x] \in Int /\ TransfersAt(x) \in Int /\ Recipe[x[1]] \in Nat
          /\ Cardinality(SalesAt(x)) \in Nat /\ Cardinality(DosesAt(x)) \in Nat
      BY <1>1, BookedInt
    <2>2. o.moves[x] \in Int
      BY <1>1 DEF Quantities
    <2>3. Recipe[x[1]] * Cardinality(SalesAt(x)) \in Int
      BY <2>1
    <2> QED BY <1>1, <2>1, <2>2, <2>3 DEF Booked
  <1>3. CASE CommitsByHand(o)
    <2>1. hand' \in Quantities /\ \A x \in Cells : hand'[x] = hand[x] + o.moves[x]
      BY <1>1, <1>3, MovesAre DEF CommitsByHand, RowsAre
    <2>2. RowsAre'
      BY <1>1, <1>3, <2>1 DEF CommitsByHand, RowsAre, IsTransfer, Quantities, Cells
    <2>3. ASSUME NEW x \in Cells PROVE Booked(x)'
      <3>1. TransfersAt(x)' = TransfersAt(x) /\ SalesAt(x)' = SalesAt(x) /\ DosesAt(x)' = DosesAt(x)
        BY <1>3 DEF CommitsByHand, TransfersAt, SalesAt, DosesAt, TransferMoves
      <3>2. stock'[x] - hand'[x] = stock[x] - hand[x]
        BY <1>2, <2>1
      <3> QED BY <1>2, <3>1, <3>2 DEF Booked
    <2> QED BY <2>2, <2>3
  <1>4. ASSUME NEW t \in Transfers, CommitsTransfer(o, t) PROVE RowsAre' /\ \A x \in Cells : Booked(x)'
    <2>1. \A s \in Transfers : transfer'[s] = IF s = t THEN o.becomes ELSE transfer[s]
      BY <1>1, <1>4 DEF CommitsTransfer, RowsAre
    <2>2. \A s \in Transfers : transfer'[s].status = "absent" \/ IsTransfer(transfer'[s])
      BY <1>1, <1>4, <2>1 DEF CommitsTransfer, RowsAre
    <2>3. transfer' = [s \in Transfers |-> transfer'[s]]
      BY <1>1, <1>4 DEF CommitsTransfer, RowsAre
    <2>4. RowsAre'
      BY <1>1, <1>4, <2>2, <2>3 DEF CommitsTransfer, RowsAre, IsTransfer, Quantities, Cells
    <2>5. ASSUME NEW x \in Cells PROVE Booked(x)'
      <3>1. SalesAt(x)' = SalesAt(x) /\ DosesAt(x)' = DosesAt(x) /\ hand' = hand
        BY <1>4 DEF CommitsTransfer, SalesAt, DosesAt
      <3> PICK a, b : a = TransferMoves(o.becomes, x) /\ b = TransferMoves(transfer[t], x)
        OBVIOUS
      <3>2. TransfersAt(x)' = TransfersAt(x) + a - b
        BY <1>1, <1>4, TransfersChange DEF CommitsTransfer
      <3>3. a \in Int /\ b \in Int
        BY <1>1, <1>4, TransferMovesInt DEF CommitsTransfer, RowsAre
      <3>4. o.moves[x] = a - b
        BY <1>4 DEF CommitsTransfer
      <3>5. stock'[x] - hand[x] = TransfersAt(x)' - Recipe[x[1]] * Cardinality(SalesAt(x)) - Cardinality(DosesAt(x))
        <4> PICK st, h, ta, p, q : /\ st = stock[x] /\ h = hand[x] /\ ta = TransfersAt(x)
                                   /\ p = Recipe[x[1]] * Cardinality(SalesAt(x)) /\ q = Cardinality(DosesAt(x))
          OBVIOUS
        <4>1. st \in Int /\ h \in Int /\ ta \in Int /\ p \in Int /\ q \in Int /\ st - h = ta - p - q
          BY <1>2
        <4>2. (st + (a - b)) - h = (ta + a - b) - p - q
          BY <3>3, <4>1
        <4> QED BY <1>2, <3>2, <3>4, <4>2
      <3> QED BY <3>1, <3>5 DEF Booked
    <2> QED BY <2>4, <2>5
  <1>5. ASSUME NEW s \in Sales, CommitsSale(o, s) PROVE RowsAre' /\ \A x \in Cells : Booked(x)'
    <2>1. \A e \in Sales : sale'[e] = IF e = s THEN o.becomes ELSE sale[e]
      BY <1>1, <1>5 DEF CommitsSale, RowsAre
    <2>2. /\ sale' \in [Sales -> SaleRow]
          /\ \A e \in Sales : sale'[e].status = "sold" => sale'[e].place \in Places
      BY <1>1, <1>5, <2>1 DEF CommitsSale, RowsAre
    <2>3. RowsAre'
      BY <1>1, <1>5, <2>2 DEF CommitsSale, RowsAre, IsTransfer, Quantities, Cells, SaleRow
    <2>4. ASSUME NEW x \in Cells PROVE Booked(x)'
      <3>1. TransfersAt(x)' = TransfersAt(x) /\ DosesAt(x)' = DosesAt(x) /\ hand' = hand
        BY <1>5 DEF CommitsSale, TransfersAt, DosesAt, TransferMoves
      <3> PICK a : a = SaleMoves(o.becomes, x)
        OBVIOUS
      <3>2. a \in Int /\ o.moves[x] = a
        BY <1>2, <1>5 DEF CommitsSale
      <3>3. SaleMoves(sale[s], x) = 0
        BY <1>5 DEF CommitsSale, SaleMoves
      <3>4. Recipe[x[1]] * Cardinality(SalesAt(x)') = Recipe[x[1]] * Cardinality(SalesAt(x)) - a + 0
        <4>1. sale' = [sale EXCEPT ![s] = o.becomes]
          BY <1>5 DEF CommitsSale
        <4> QED BY <1>1, <3>3, <4>1, SalesChange
      <3>5. stock'[x] - hand[x] = TransfersAt(x) - Recipe[x[1]] * Cardinality(SalesAt(x)') - Cardinality(DosesAt(x))
        <4> PICK st, h, ta, p, q : /\ st = stock[x] /\ h = hand[x] /\ ta = TransfersAt(x)
                                   /\ p = Recipe[x[1]] * Cardinality(SalesAt(x)) /\ q = Cardinality(DosesAt(x))
          OBVIOUS
        <4>1. st \in Int /\ h \in Int /\ ta \in Int /\ p \in Int /\ q \in Int /\ st - h = ta - p - q
          BY <1>2
        <4>2. (st + a) - h = ta - (p - a + 0) - q
          <5>1. a \in Int
            BY <3>2
          <5>2. st = h + ta - p - q
            BY <4>1
          <5> QED BY <4>1, <5>1, <5>2
        <4> QED BY <1>2, <3>2, <3>4, <4>2
      <3>6. (Cardinality(SalesAt(x)))' = Cardinality(SalesAt(x)')
        OBVIOUS
      <3> QED BY <3>1, <3>5 DEF Booked
    <2> QED BY <2>3, <2>4
  <1>6. ASSUME NEW d \in Doses, CommitsDose(o, d) PROVE RowsAre' /\ \A x \in Cells : Booked(x)'
    <2>1. \A e \in Doses : dose'[e] = IF e = d THEN o.becomes ELSE dose[e]
      BY <1>1, <1>6 DEF CommitsDose, RowsAre
    <2>2. /\ dose' \in [Doses -> DoseRow]
          /\ \A e \in Doses : dose'[e].status = "consumed" => dose'[e].item \in Items /\ dose'[e].place \in Places
      BY <1>1, <1>6, <2>1 DEF CommitsDose, RowsAre
    <2>3. RowsAre'
      BY <1>1, <1>6, <2>2 DEF CommitsDose, RowsAre, IsTransfer, Quantities, Cells, DoseRow
    <2>4. ASSUME NEW x \in Cells PROVE Booked(x)'
      <3>1. TransfersAt(x)' = TransfersAt(x) /\ SalesAt(x)' = SalesAt(x) /\ hand' = hand
        BY <1>6 DEF CommitsDose, TransfersAt, SalesAt, TransferMoves
      <3> PICK a, b : a = DoseMoves(o.becomes, x) /\ b = DoseMoves(dose[d], x)
        OBVIOUS
      <3>2. a \in Int /\ b \in Int /\ o.moves[x] = a - b
        BY <1>6 DEF CommitsDose, DoseMoves
      <3>3. Cardinality(DosesAt(x)') = Cardinality(DosesAt(x)) - a + b
        <4>1. dose' = [dose EXCEPT ![d] = o.becomes]
          BY <1>6 DEF CommitsDose
        <4> QED BY <1>1, <4>1, DosesChange
      <3>4. stock'[x] - hand[x] = TransfersAt(x) - Recipe[x[1]] * Cardinality(SalesAt(x)) - Cardinality(DosesAt(x)')
        <4> PICK st, h, ta, p, q : /\ st = stock[x] /\ h = hand[x] /\ ta = TransfersAt(x)
                                   /\ p = Recipe[x[1]] * Cardinality(SalesAt(x)) /\ q = Cardinality(DosesAt(x))
          OBVIOUS
        <4>1. st \in Int /\ h \in Int /\ ta \in Int /\ p \in Int /\ q \in Int /\ st - h = ta - p - q
          BY <1>2
        <4>2. (st + (a - b)) - h = ta - p - (q - a + b)
          BY <3>2, <4>1
        <4> QED BY <1>2, <3>2, <3>3, <4>2
      <3> QED BY <3>1, <3>4 DEF Booked
    <2> QED BY <2>3, <2>4
  <1> QED BY <1>3, <1>4, <1>5, <1>6

\* A commit changes rows that no other transaction has claimed, and takes only
\* what others have no lock for.
LEMMA StockCommits ==
  ASSUME StockAssumed, StockInv, NEW c \in Requests, Store!Commit(c)
  PROVE  StockInv'
  <1> PICK o : o = op[c]
    OBVIOUS
  <1>1. IsOp(o) /\ Safe(o) /\ RowsAre
    BY DEF StockInv, IsRun
  <1>2. stock' = Store!Plus(stock, o.moves) /\ op' = [op EXCEPT ![c] = Store!Off]
    BY CommitIs
  <1>3. stock' \in Quantities /\ \A x \in Cells : stock'[x] = stock[x] + o.moves[x]
    BY <1>1, <1>2, MovesAre DEF RowsAre, IsOp
  <1>4. /\ op' = [e \in Requests |-> op'[e]]
        /\ \A e \in Requests : op'[e] = IF e = c THEN Store!Off ELSE op[e]
    BY <1>1, <1>2 DEF RowsAre
  <1>5. \/ CommitsByHand(o) \/ (\E t \in Transfers : CommitsTransfer(o, t))
        \/ (\E s \in Sales : CommitsSale(o, s)) \/ (\E d \in Doses : CommitsDose(o, d))
    BY CommitCases
  <1>6. RowsAre' /\ \A x \in Cells : Booked(x)'
    BY <1>1, <1>3, <1>4, <1>5, CommitBooks
  <1>7. ASSUME NEW x \in Cells, Ground(x)
        PROVE  stock'[x] >= 0 /\ (x \notin o.locks => stock'[x] >= stock[x])
    <2>1. (o.moves[x] < 0 => x \in o.locks) /\ stock[x] + o.moves[x] >= 0
      BY <1>1, <1>7 DEF Safe
    <2>2. stock[x] \in Int /\ o.moves[x] \in Int
      BY <1>1 DEF RowsAre, IsOp, Quantities
    <2> QED BY <1>3, <2>1, <2>2
  <1>8. ASSUME NEW d \in Requests, d # c PROVE ClaimKept(op[d])
    <2>1. op[d].claim # <<>> => op[d].claim # o.claim
      BY <1>8 DEF StockInv, OpsApart
    <2>2. \A kind, key : op[d].claim = <<kind, key>> => op[d].claim # <<>>
      OBVIOUS
    <2>3. \A t \in Transfers : op[d].claim = <<"transfer", t>> => transfer'[t] = transfer[t]
      BY <1>1, <1>5, <2>1, <2>2 DEF CommitsByHand, CommitsTransfer, CommitsSale, CommitsDose, RowsAre
    <2>4. \A s \in Sales : op[d].claim = <<"order", s>> => sale'[s] = sale[s]
      BY <1>1, <1>5, <2>1, <2>2 DEF CommitsByHand, CommitsTransfer, CommitsSale, CommitsDose, RowsAre
    <2>5. \A e \in Doses : op[d].claim = <<"dose", e>> => dose'[e] = dose[e]
      BY <1>1, <1>5, <2>1, <2>2 DEF CommitsByHand, CommitsTransfer, CommitsSale, CommitsDose, RowsAre
    <2> QED BY <2>3, <2>4, <2>5 DEF ClaimKept
  <1>9. ASSUME NEW d \in Requests
        PROVE  \/ Rests(op'[d])
               \/ /\ op'[d] = op[d] /\ ClaimKept(op[d])
                  /\ \A x \in Cells : Ground(x) /\ x \in op[d].locks => stock'[x] >= stock[x]
    <2>1. CASE d = c
      BY <1>4, <2>1, OffRests
    <2>2. CASE d # c
      <3>1. op[d].locks \cap o.locks = {}
        BY <2>2 DEF StockInv, OpsApart
      <3> QED BY <1>4, <1>7, <1>8, <2>2, <3>1
    <2> QED BY <2>1, <2>2
  <1> QED BY <1>6, <1>7, <1>9, StockMoved

\* A return only adds.
LEMMA StockReturns ==
  ASSUME StockAssumed, StockInv, NEW s \in Sales, Store!ReturnSale(s)
  PROVE  StockInv'
  <1> PICK l, row : l = sale[s].place /\ row = [sale[s] EXCEPT !.status = "returned"]
    OBVIOUS
  <1> PICK back : back = [x \in Cells |-> IF x[2] = l THEN Recipe[x[1]] ELSE 0]
    OBVIOUS
  <1>1. RowsAre /\ \A x \in Cells : Booked(x)
    BY DEF StockInv
  <1>2. /\ sale[s].status = "sold" /\ stock' = Store!Plus(stock, back)
        /\ sale' = [sale EXCEPT ![s] = row] /\ UNCHANGED <<hand, transfer, dose, op>>
    BY DEF Store!ReturnSale, Store!Cells, Cells
  <1>3. sale[s] \in SaleRow /\ l \in Places
    BY <1>1, <1>2 DEF RowsAre
  <1>4. row \in SaleRow /\ row.status = "returned" /\ sale[s] = [status |-> "sold", place |-> l]
    BY <1>2, <1>3 DEF SaleRow
  <1>5. back \in Quantities /\ \A x \in Cells : back[x] >= 0 /\ back[x] = IF x[2] = l THEN Recipe[x[1]] ELSE 0
    BY DEF Quantities, StockAssumed, Cells
  <1>6. stock' \in Quantities /\ \A x \in Cells : stock'[x] = stock[x] + back[x]
    BY <1>1, <1>2, <1>5, MovesAre DEF RowsAre
  <1>7. \A x \in Cells : stock[x] \in Int /\ back[x] \in Int /\ stock'[x] >= stock[x]
    <2>1. \A x \in Cells : stock[x] \in Int /\ back[x] \in Int
      BY <1>1, <1>5 DEF RowsAre, Quantities
    <2> QED BY <1>5, <1>6, <2>1
  <1>8. \A e \in Sales : sale'[e] = IF e = s THEN row ELSE sale[e]
    BY <1>1, <1>2 DEF RowsAre
  <1>9. RowsAre'
    <2>1. /\ sale' \in [Sales -> SaleRow]
          /\ \A e \in Sales : sale'[e].status = "sold" => sale'[e].place \in Places
      BY <1>1, <1>2, <1>4, <1>8 DEF RowsAre
    <2> QED BY <1>1, <1>2, <1>6, <2>1 DEF RowsAre, IsTransfer, Quantities, Cells, SaleRow
  <1>10. ASSUME NEW x \in Cells PROVE Booked(x)'
    <2>1. TransfersAt(x)' = TransfersAt(x) /\ DosesAt(x)' = DosesAt(x) /\ hand' = hand
      BY <1>2 DEF TransfersAt, DosesAt, TransferMoves
    <2>2. SaleMoves(row, x) = 0 /\ SaleMoves(sale[s], x) = -back[x]
      BY <1>4, <1>5 DEF SaleMoves
    <2>3. Recipe[x[1]] * Cardinality(SalesAt(x)') = Recipe[x[1]] * Cardinality(SalesAt(x)) - 0 + (-back[x])
      BY <1>1, <1>2, <2>2, SalesChange
    <2>4. stock'[x] - hand[x] = TransfersAt(x) - Recipe[x[1]] * Cardinality(SalesAt(x)') - Cardinality(DosesAt(x))
      <3> PICK st, h, ta, r, n, q, b : /\ st = stock[x] /\ h = hand[x] /\ ta = TransfersAt(x) /\ b = back[x]
                                       /\ r = Recipe[x[1]] /\ n = Cardinality(SalesAt(x)) /\ q = Cardinality(DosesAt(x))
        OBVIOUS
      <3>1. st \in Int /\ h \in Int /\ ta \in Int /\ r \in Nat /\ n \in Nat /\ q \in Nat /\ b \in Int
        BY <1>1, <1>7, BookedInt
      <3> PICK p : p = r * n
        OBVIOUS
      <3>2. p \in Int
        BY <3>1
      <3>3. st - h = ta - p - q
        BY <1>1 DEF Booked
      <3>4. (st + b) - h = ta - (p - 0 + (-b)) - q
        <4>1. st = h + ta - p - q
          BY <3>1, <3>2, <3>3
        <4>2. p - 0 + (-b) = p - b
          BY <3>1, <3>2
        <4> QED BY <3>1, <3>2, <4>1, <4>2
      <3> QED BY <1>6, <2>3, <3>4
    <2> QED BY <2>1, <2>4 DEF Booked
  <1>11. ASSUME NEW x \in Cells, Ground(x) PROVE stock'[x] >= 0
    <2>1. stock[x] >= 0 /\ stock[x] \in Int /\ back[x] \in Int /\ back[x] >= 0 /\ stock'[x] = stock[x] + back[x]
      BY <1>5, <1>6, <1>7, <1>11 DEF StockInv
    <2> QED BY <2>1
  <1>12. ASSUME NEW d \in Requests PROVE op'[d] = op[d] /\ ClaimKept(op[d])
    <2>1. \A e \in Sales : sale'[e] = sale[e] \/ sale[e].status # "open"
      BY <1>2, <1>8
    <2> QED BY <1>2, <2>1 DEF ClaimKept
  <1> QED BY <1>7, <1>9, <1>10, <1>11, <1>12, StockMoved
-----------------------------------------------------------------------------
\* At first nothing is anywhere, and nothing says that it should be.
LEMMA StockBegins ==
  ASSUME StockAssumed, Store!Init
  PROVE  StockInv
  <1>1. /\ stock = [x \in Cells |-> 0] /\ hand = [x \in Cells |-> 0]
        /\ transfer = [t \in Transfers |-> [status |-> "absent"]]
        /\ sale = [o \in Sales |-> [status |-> "open", place |-> None]]
        /\ dose = [d \in Doses |-> [status |-> "absent", item |-> None, place |-> None]]
        /\ op = [c \in Requests |-> Store!Off]
    BY DEF Store!Init, Store!Nothing, Store!Cells, Cells
  <1>2. RowsAre
    BY <1>1 DEF RowsAre, Quantities, SaleRow, DoseRow
  <1>3. ASSUME NEW c \in Requests PROVE Rests(op[c])
    BY <1>1, OffRests
  <1>4. ASSUME NEW c \in Requests PROVE IsRun(op[c]) /\ Safe(op[c])
    <2> PICK o : o = op[c]
      OBVIOUS
    <2>1. Rests(o)
      BY <1>3
    <2>2. IsOp(o)
      <3>1. o.moves \in Quantities
        BY <2>1 DEF Rests, Quantities
      <3>2. o.steps = <<>> /\ o.locks = {} /\ o.byHand = FALSE
        BY <2>1 DEF Rests
      <3>3. <<>> \in Seq(StepRow)
        OBVIOUS
      <3>4. o.steps \in Seq(StepRow) /\ o.locks \subseteq Cells /\ o.byHand \in BOOLEAN
        BY <3>2, <3>3
      <3> QED BY <2>1, <3>1, <3>4 DEF Rests, IsOp
    <2>3. IsRun(o)
      BY <2>1, <2>2 DEF Rests, IsRun, Claims
    <2>4. Safe(o)
      BY <1>1, <2>1 DEF Rests, Safe
    <2> QED BY <2>3, <2>4
  <1>5. ASSUME NEW c \in Requests, NEW d \in Requests PROVE OpsApart(c, d)
    BY <1>3 DEF Rests, OpsApart
  <1>6. ASSUME NEW x \in Cells PROVE stock[x] >= 0 /\ Booked(x)
    <2>1. TransfersAt(x) = 0
      <3> PICK f : f = [t \in Transfers |-> TransferMoves(transfer[t], x)]
        OBVIOUS
      <3>1. \A t \in Transfers : f[t] = 0
        BY <1>1 DEF TransferMoves
      <3>2. Total(f, Transfers) = 0
        BY <3>1, TotalZero DEF StockAssumed
      <3> QED BY <3>2 DEF TransfersAt
    <2>2. SalesAt(x) = {} /\ DosesAt(x) = {}
      <3>1. \A o \in Sales : sale[o].status = "open"
        BY <1>1
      <3>2. \A d \in Doses : dose[d].status = "absent"
        BY <1>1
      <3> QED BY <3>1, <3>2 DEF SalesAt, DosesAt
    <2>3. Cardinality(SalesAt(x)) = 0 /\ Cardinality(DosesAt(x)) = 0
      BY <2>2, FS_EmptySet
    <2>4. stock[x] = 0 /\ hand[x] = 0
      BY <1>1
    <2>5. Recipe[x[1]] \in Nat
      BY <1>2, BookedInt
    <2> QED BY <2>1, <2>3, <2>4, <2>5 DEF Booked
  <1> QED BY <1>2, <1>4, <1>5, <1>6 DEF StockInv

\* Every step keeps the invariant.
LEMMA StockSteps ==
  ASSUME StockAssumed, StockInv, [Store!Next]_Store!stockVars
  PROVE  StockInv'
  <1>1. CASE UNCHANGED Store!stockVars
    <2>1. UNCHANGED <<stock, hand, transfer, sale, dose, op>>
      BY <1>1 DEF Store!stockVars
    <2>2. RowsAre' /\ \A c, d \in Requests : OpsApart(c, d)'
      BY <2>1 DEF StockInv, RowsAre, OpsApart, IsTransfer, Quantities, Cells
    <2>3. \A c \in Requests : IsRun(op[c])' /\ Safe(op[c])'
      BY <2>1, RunStays DEF StockInv
    <2>4. ASSUME NEW x \in Cells PROVE (Ground(x) => stock[x] >= 0)' /\ Booked(x)'
      <3>1. TransfersAt(x)' = TransfersAt(x) /\ SalesAt(x)' = SalesAt(x) /\ DosesAt(x)' = DosesAt(x)
        BY <2>1 DEF TransfersAt, SalesAt, DosesAt, TransferMoves
      <3> QED BY <2>1, <3>1 DEF StockInv, Booked, Ground
    <2> QED BY <2>2, <2>3, <2>4 DEF StockInv, Cells
  <1>2. ASSUME NEW c \in Requests, NEW i \in Items, NEW l \in Places, NEW q \in Counts,
               Store!Adjust(c, i, l, q) \/ Store!Adjust(c, i, l, -q) \/ Store!Count(c, i, l, q)
        PROVE  StockInv'
    BY <1>2, StockByHand
  <1>3. ASSUME NEW c \in Requests, NEW i \in Items, NEW d \in Doses, Store!ConsumeDose(c, d, i)
        PROVE  StockInv'
    BY <1>3, StockDoses
  <1>4. ASSUME NEW c \in Requests, NEW r \in Returns, NEW l \in Places, NEW exchange \in BOOLEAN,
               Store!ReturnEmpty(c, r, l, exchange)
        PROVE  StockInv'
    BY <1>4, StockByHand
  <1>5. ASSUME NEW c \in Requests, NEW t \in Transfers, NEW lane \in Lanes, NEW sent \in Sent, NEW submit \in BOOLEAN,
               Store!CreateTransfer(c, t, lane[1], lane[2], sent, submit)
        PROVE  StockInv'
    BY <1>5, StockCreates
  <1>6. ASSUME NEW c \in Requests, NEW t \in Transfers, NEW got \in Sent, Store!ReceiveTransfer(c, t, got)
        PROVE  StockInv'
    BY <1>6, StockReceives
  <1>7. ASSUME NEW c \in Requests, NEW t \in Transfers,
               Store!DispatchDraft(c, t) \/ Store!CancelTransfer(c, t) \/ Store!ReverseTransfer(c, t)
        PROVE  StockInv'
    BY <1>7, StockDrafts, StockReverses
  <1>8. ASSUME NEW c \in Requests, NEW o \in Sales, Store!Sell(c, o) PROVE StockInv'
    BY <1>8, StockSells
  <1>9. ASSUME NEW o \in Sales, Store!ReturnSale(o) PROVE StockInv'
    BY <1>9, StockReturns
  <1>10. ASSUME NEW c \in Requests, NEW d \in Doses, Store!ReverseDose(c, d) PROVE StockInv'
    BY <1>10, StockDoses
  <1>11. ASSUME NEW c \in Requests,
                \/ \E l \in Places : Store!ReadArchive(c, l)
                \/ \E l \in Configurable, mode \in Modes : Store!ReadSettings(c, l, mode)
                \/ Store!Abort(c) \/ Store!WriteArchive(c) \/ Store!WriteSettings(c)
         PROVE  StockInv'
    BY <1>11, StockElsewhere
  <1>12. ASSUME NEW c \in Requests, Store!Take(c) \/ Store!Commit(c) PROVE StockInv'
    BY <1>12, StockTakes, StockCommits
  <1> QED BY <1>1, <1>2, <1>3, <1>4, <1>5, <1>6, <1>7, <1>8, <1>9, <1>10, <1>11, <1>12 DEF Store!Next

\* No two transactions spend the same stock of an item that may not go below
\* zero, although some add without the lock, and what no hand moved is what the transfers, the sales and the doses
\* moved, each once, for any items, places, rows and transactions.
THEOREM StockKept ==
  ASSUME StockAssumed
  PROVE  Store!Spec => [](Store!StockNotNegative /\ Store!StockAddsUp)
  <1>1. Store!Init => StockInv
    BY StockBegins
  <1>2. StockInv /\ [Store!Next]_Store!stockVars => StockInv'
    BY StockSteps
  <1>3. StockInv => Store!StockNotNegative /\ Store!StockAddsUp
    BY StockPropertiesAre DEF StockInv
  <1> QED BY <1>1, <1>2, <1>3, PTL DEF Store!Spec
-----------------------------------------------------------------------------
(*                   What each is given of it (Shares)                     *)

\* The weights that count, and what each of them is given of t.
Weighted(w) == {u \in DOMAIN w : w[u] > 0}
WeightOf(w) == Total(w, Weighted(w))
Cents(t, w) == [u \in Weighted(w) |-> (t * w[u]) \div WeightOf(w)]
Remainders(t, w) == [u \in Weighted(w) |-> (t * w[u]) % WeightOf(w)]
Left(t, w) == t - Total(Cents(t, w), Weighted(w))
More(t, w) == [u \in Weighted(w) |-> IF Rank(Remainders(t, w), Weighted(w), u) < Left(t, w) THEN 1 ELSE 0]
Part(t, w) == [u \in Weighted(w) |-> Cents(t, w)[u] + More(t, w)[u]]

\* Largest remainder gives each member its cents and at most one more.
LEMMA PartIs ==
  ASSUME NEW t \in Nat, t > 0, NEW w
  PROVE  Dividing!DistributeLargestRemainder(t, w) = Part(t, w)
  <1>2. Dividing!Sum(Cents(t, w)) = Total(Cents(t, w), Weighted(w))
    <2>1. DOMAIN Cents(t, w) = Weighted(w)
      BY DEF Cents
    <2>2. \A f : Dividing!Sum(f) = Total(f, DOMAIN f)
      BY DEF Dividing!Sum, Total, Sums, Picked, Dividing!MapThenSumSet, Dividing!MapThenFoldSet
    <2> QED BY <2>1, <2>2
  <1>3. \A s : Dividing!Cardinality(s) = Cardinality(s)
    BY DEF Dividing!Cardinality, Cardinality
  <1>4. Dividing!DistributeLargestRemainder(t, w) =
          [u \in Weighted(w) |-> Cents(t, w)[u]
             + (IF Dividing!Cardinality({v \in Weighted(w) : Remainders(t, w)[v] > Remainders(t, w)[u]
                                          \/ (Remainders(t, w)[v] = Remainders(t, w)[u] /\ v < u)})
                   < t - Dividing!Sum(Cents(t, w)) THEN 1 ELSE 0)]
    <2>1. ~(t <= 0)
      OBVIOUS
    <2> QED
      BY <2>1, ZenonT(60) DEF Dividing!DistributeLargestRemainder, Dividing!MapThenSumSet, Dividing!MapThenFoldSet, Cents, Remainders,
         WeightOf, Weighted, Total, Sums, Picked
  <1>5. ASSUME NEW u \in Weighted(w)
        PROVE  More(t, w)[u] = IF Cardinality({v \in Weighted(w) : Remainders(t, w)[v] > Remainders(t, w)[u]
                                          \/ (Remainders(t, w)[v] = Remainders(t, w)[u] /\ v < u)})
                                  < t - Dividing!Sum(Cents(t, w)) THEN 1 ELSE 0
    BY <1>2 DEF More, Rank, Before, Left
  <1> QED BY <1>3, <1>4, <1>5 DEF Part

\* Weights that a division can be by.
Divides(w) ==
    /\ DOMAIN w \in SUBSET Nat /\ IsFiniteSet(DOMAIN w) /\ Weighted(w) # {}
    /\ \A u \in DOMAIN w : w[u] \in Nat

\* The weights that count are finitely many, and add up to more than nothing.
LEMMA WeightsAre ==
  ASSUME NEW w, Divides(w)
  PROVE  /\ Weighted(w) \in SUBSET Nat /\ IsFiniteSet(Weighted(w))
         /\ \A u \in Weighted(w) : w[u] \in Nat /\ w[u] > 0
         /\ WeightOf(w) \in Nat /\ WeightOf(w) > 0
  <1>1. Weighted(w) \in SUBSET Nat /\ IsFiniteSet(Weighted(w))
    BY FS_Subset DEF Divides, Weighted
  <1>2. \A u \in Weighted(w) : w[u] \in Nat /\ w[u] > 0
    BY DEF Divides, Weighted
  <1>3. WeightOf(w) \in Nat
    BY <1>1, <1>2, TotalNat DEF WeightOf
  <1>4. PICK u \in Weighted(w) : TRUE
    BY DEF Divides
  <1>5. IsFiniteSet(Weighted(w) \ {u}) /\ \A x \in Weighted(w) \ {u} : w[x] \in Nat
    BY <1>1, <1>2, FS_Subset
  <1>6. Total(w, Weighted(w) \ {u}) \in Nat
    BY <1>5, TotalNat
  <1>7. WeightOf(w) = w[u] + Total(w, Weighted(w) \ {u})
    BY <1>1, <1>2, TotalWithout DEF WeightOf
  <1> QED BY <1>1, <1>2, <1>3, <1>6, <1>7

\* What is divided by rounding down, and what is left of it.
LEMMA QuotientIs ==
  ASSUME NEW n \in Nat, NEW d \in Nat, d > 0
  PROVE  /\ n \div d \in Nat /\ n % d \in Nat /\ n % d < d
         /\ n = d * (n \div d) + (n % d)
  OBVIOUS

\* The cents and the remainder of a member are those of a division by all weights.
LEMMA CentsAre ==
  ASSUME NEW t \in Nat, NEW w, Divides(w), NEW u \in Weighted(w)
  PROVE  /\ Cents(t, w)[u] \in Nat /\ Remainders(t, w)[u] \in Nat /\ Remainders(t, w)[u] < WeightOf(w)
         /\ t * w[u] = WeightOf(w) * Cents(t, w)[u] + Remainders(t, w)[u]
  <1>1. PICK n \in Nat : n = t * w[u]
    <2>1. w[u] \in Nat
      BY WeightsAre
    <2> QED BY <2>1
  <1>2. Cents(t, w)[u] = n \div WeightOf(w) /\ Remainders(t, w)[u] = n % WeightOf(w)
    BY <1>1 DEF Cents, Remainders
  <1> QED BY <1>1, <1>2, WeightsAre, QuotientIs

\* What is left over is as many cents as the remainders make up.
LEMMA LeftIs ==
  ASSUME NEW t \in Nat, NEW w, Divides(w)
  PROVE  /\ Left(t, w) \in Int /\ Total(Cents(t, w), Weighted(w)) \in Nat
         /\ Total(Remainders(t, w), Weighted(w)) = WeightOf(w) * Left(t, w)
  <1> DEFINE S == Weighted(w)
             W == WeightOf(w)
             C == Cents(t, w)
             R == Remainders(t, w)
             A == [u \in S |-> t * w[u]]
             D == [u \in S |-> W * C[u]]
  <1>1. IsFiniteSet(S) /\ W \in Nat /\ W > 0 /\ \A u \in S : w[u] \in Nat
    BY WeightsAre
  <1>2. \A u \in S : C[u] \in Nat /\ R[u] \in Nat /\ t * w[u] = W * C[u] + R[u]
    BY CentsAre
  <1>3. W = Total(w, S)
    BY DEF WeightOf
  <1>4. \A u \in S : A[u] = t * w[u] /\ D[u] = W * C[u]
    OBVIOUS
  <1> HIDE DEF S, W, C, R, A, D
  <1>5. Total(C, S) \in Nat /\ Total(R, S) \in Nat
    BY <1>1, <1>2, TotalNat
  <1>6. Total(A, S) = t * W
    <2>1. t \in Int /\ \A u \in S : w[u] \in Int /\ A[u] = t * w[u]
      BY <1>1, <1>4
    <2>2. Total(A, S) = t * Total(w, S)
      BY <1>1, <2>1, TotalScaled
    <2> QED BY <1>3, <2>2
  <1>7. Total(D, S) = W * Total(C, S)
    <2>1. W \in Int /\ \A u \in S : C[u] \in Int /\ D[u] = W * C[u]
      BY <1>1, <1>2, <1>4
    <2> QED BY <1>1, <2>1, TotalScaled
  <1>8. Total(A, S) = Total(D, S) + Total(R, S)
    <2>1. \A u \in S : D[u] \in Int /\ R[u] \in Int /\ A[u] = D[u] + R[u]
      BY <1>1, <1>2, <1>4
    <2> QED BY <1>1, <2>1, TotalAdds
  <1>9. Total(R, S) = W * (t - Total(C, S))
    <2>1. W * (t - Total(C, S)) = t * W - W * Total(C, S)
      BY <1>1, <1>5
    <2>2. t * W \in Int /\ W * Total(C, S) \in Int
      BY <1>1, <1>5
    <2> QED BY <1>5, <1>6, <1>7, <1>8, <2>1, <2>2
  <1> QED BY <1>5, <1>9 DEF S, W, C, R, Left

\* There are fewer such cents than remainders.
LEMMA LeftFits ==
  ASSUME NEW t \in Nat, NEW w, Divides(w)
  PROVE  LET some == {u \in Weighted(w) : Remainders(t, w)[u] > 0}
         IN  /\ Left(t, w) \in Nat /\ Left(t, w) <= Cardinality(Weighted(w))
             /\ Left(t, w) > 0 => Left(t, w) < Cardinality(some)
  <1> DEFINE S == Weighted(w)
             W == WeightOf(w)
             R == Remainders(t, w)
             L == Left(t, w)
             P == {u \in S : R[u] > 0}
             K == [u \in P |-> W - 1]
  <1>1. IsFiniteSet(S) /\ W \in Nat /\ W > 0
    BY WeightsAre
  <1>2. \A u \in S : R[u] \in Nat /\ R[u] < W
    BY CentsAre
  <1>3. L \in Int /\ Total(R, S) = W * L
    BY LeftIs
  <1>4. P \in SUBSET S /\ (\A u \in S \ P : R[u] = 0) /\ (\A u \in P : R[u] \in Nat /\ R[u] <= W - 1 /\ K[u] = W - 1)
    BY <1>1, <1>2
  <1> HIDE DEF S, W, R, L, P, K
  <1>5. IsFiniteSet(P) /\ Cardinality(P) \in Nat /\ Cardinality(P) <= Cardinality(S) /\ Cardinality(S) \in Nat
    BY <1>1, <1>4, FS_Subset, FS_CardinalityType
  <1>6. Total(R, S) = Total(R, P) /\ Total(R, S) \in Nat
    BY <1>1, <1>2, <1>4, TotalOfPart, TotalNat
  <1>7. Total(R, P) <= Total(K, P)
    BY <1>1, <1>4, <1>5, TotalMonotone
  <1>8. Total(K, P) = (W - 1) * Cardinality(P)
    BY <1>1, <1>4, <1>5, TotalConst
  <1>9. W * L <= (W - 1) * Cardinality(P) /\ W * L >= 0
    BY <1>3, <1>6, <1>7, <1>8
  <1>10. L >= 0
    BY <1>1, <1>3, <1>9
  <1>11. L > 0 => L < Cardinality(P)
    <2> SUFFICES ASSUME L > 0, ~(L < Cardinality(P)) PROVE FALSE
      BY <1>3, <1>5
    <2>1. Cardinality(P) <= L
      BY <1>3, <1>5
    <2>2. (W - 1) * Cardinality(P) <= (W - 1) * L
      BY <1>1, <1>3, <1>5, <2>1
    <2>3. W * L - (W - 1) * L = L /\ (W - 1) * L \in Int /\ W * L \in Int /\ (W - 1) * Cardinality(P) \in Int
      BY <1>1, <1>3, <1>5
    <2> QED BY <1>3, <1>9, <2>2, <2>3
  <1>12. L <= Cardinality(S)
    BY <1>3, <1>5, <1>10, <1>11
  <1> QED BY <1>3, <1>10, <1>11, <1>12 DEF S, R, L, P

\* Every cent is given, and nobody is given a cent more or less than in
\* proportion.
LEMMA PartExact ==
  ASSUME NEW t \in Nat, NEW w, Divides(w)
  PROVE  /\ \A u \in Weighted(w) : Part(t, w)[u] \in Nat
         /\ Total(Part(t, w), Weighted(w)) = t
         /\ \A u \in Weighted(w) : /\ -WeightOf(w) < Part(t, w)[u] * WeightOf(w) - t * w[u]
                                   /\ Part(t, w)[u] * WeightOf(w) - t * w[u] < WeightOf(w)
  <1> DEFINE S == Weighted(w)
             W == WeightOf(w)
             C == Cents(t, w)
             R == Remainders(t, w)
             L == Left(t, w)
             E == More(t, w)
             F == {u \in S : Rank(R, S, u) < L}
             P == {u \in S : R[u] > 0}
             Q == Part(t, w)
  <1>1. S \in SUBSET Nat /\ IsFiniteSet(S) /\ W \in Nat /\ W > 0
    BY WeightsAre
  <1>2. \A u \in S : C[u] \in Nat /\ R[u] \in Nat /\ R[u] < W /\ t * w[u] = W * C[u] + R[u]
    BY CentsAre
  <1>3. L \in Nat /\ L <= Cardinality(S) /\ (L > 0 => L < Cardinality(P))
    BY LeftFits
  <1>4. Total(C, S) \in Nat /\ t = Total(C, S) + L
    BY LeftIs DEF Left
  <1>5. \A u \in S : E[u] = IF u \in F THEN 1 ELSE 0
    BY DEF More
  <1>6. \A u \in S : Q[u] = C[u] + E[u]
    BY DEF Part
  <1>7. F \in SUBSET S /\ P \in SUBSET S /\ (\A u \in S : R[u] = 0 => P \subseteq Before(R, S, u))
    <2>1. \A u \in S : R[u] = 0 => \A v \in S : R[v] > 0 => v \in Before(R, S, u)
      BY <1>2 DEF Before
    <2> QED BY <2>1
  <1>8. \A u \in F : Rank(R, S, u) < L
    OBVIOUS
  <1>9. Cardinality(F) = L
    <2>1. \A u \in S : R[u] \in Int
      BY <1>2
    <2> HIDE DEF S, R, L
    <2> QED BY <1>1, <1>3, <2>1, RankCount
  <1> HIDE DEF S, W, C, R, L, E, F, P, Q
  <1>10. Total(E, S) = L
    BY <1>1, <1>5, <1>7, <1>9, TotalOnes
  <1>11. Total(Q, S) = Total(C, S) + Total(E, S)
    <2>1. \A u \in S : C[u] \in Int /\ E[u] \in Int /\ Q[u] = C[u] + E[u]
      BY <1>2, <1>5, <1>6
    <2>2. IsFiniteSet(S)
      BY <1>1
    <2> QED BY <2>1, <2>2, TotalAdds
  <1>12. ASSUME NEW u \in F PROVE R[u] > 0
    <2> SUFFICES ASSUME R[u] = 0 PROVE FALSE
      BY <1>2, <1>7
    <2>1. u \in S /\ P \subseteq Before(R, S, u) /\ IsFiniteSet(Before(R, S, u))
      BY <1>1, <1>7, FS_Subset DEF Before
    <2>2. Cardinality(P) <= Rank(R, S, u) /\ Rank(R, S, u) \in Nat /\ Cardinality(P) \in Nat
      BY <2>1, FS_Subset, FS_CardinalityType DEF Rank
    <2>3. Rank(R, S, u) < L
      BY <1>8
    <2> QED BY <1>3, <2>2, <2>3
  <1>13. ASSUME NEW u \in S
         PROVE  /\ Q[u] \in Nat
                /\ -W < Q[u] * W - t * w[u] /\ Q[u] * W - t * w[u] < W
    <2>1. C[u] \in Nat /\ R[u] \in Nat /\ R[u] < W /\ t * w[u] = W * C[u] + R[u]
      BY <1>2
    <2>2. CASE u \in F
      <3>1. Q[u] = C[u] + 1 /\ R[u] > 0
        BY <1>5, <1>6, <1>12, <2>2
      <3>2. (C[u] + 1) * W = W * C[u] + W /\ W * C[u] \in Int
        BY <1>1, <2>1
      <3> QED BY <1>1, <2>1, <3>1, <3>2
    <2>3. CASE u \notin F
      <3>1. Q[u] = C[u]
        BY <1>5, <1>6, <2>1, <2>3
      <3>2. C[u] * W = W * C[u] /\ W * C[u] \in Int
        BY <1>1, <2>1
      <3> QED BY <1>1, <2>1, <3>1, <3>2
    <2> QED BY <2>2, <2>3
  <1> QED BY <1>4, <1>10, <1>11, <1>13 DEF S, W, Q

Buckets == {Dividing!Nobody} \cup Members

\* Sums as the model writes them.
LEMMA SumIs == \A f : Dividing!Sum(f) = Total(f, DOMAIN f)
  BY DEF Dividing!Sum, Total, Sums, Picked, Dividing!MapThenSumSet, Dividing!MapThenFoldSet

\* The weights of the buckets: of some of them, or of all.
BucketWeights(w) ==
    /\ DOMAIN w \in SUBSET Buckets
    /\ \A u \in DOMAIN w : w[u] \in Nat

\* The buckets are nobody and the members.
LEMMA BucketsAre ==
  ASSUME Members \subseteq Nat \ {0}, IsFiniteSet(Members)
  PROVE  Buckets \in SUBSET Nat /\ IsFiniteSet(Buckets) /\ 0 \in Buckets /\ Dividing!Nobody = 0
  <1>1. IsFiniteSet({0} \cup Members)
    BY FS_AddElement
  <1> QED BY <1>1 DEF Buckets, Dividing!Nobody

\* All weights add up to those that count.
LEMMA WeightOfAll ==
  ASSUME Members \subseteq Nat \ {0}, IsFiniteSet(Members), NEW w, BucketWeights(w)
  PROVE  /\ Total(w, DOMAIN w) = WeightOf(w)
         /\ Total(w, DOMAIN w) > 0 => Divides(w)
         /\ Weighted(w) # {} => Divides(w)
  <1>1. DOMAIN w \in SUBSET Nat /\ IsFiniteSet(DOMAIN w) /\ \A u \in DOMAIN w : w[u] \in Nat
    BY BucketsAre, FS_Subset DEF BucketWeights
  <1>2. Weighted(w) \in SUBSET DOMAIN w /\ \A u \in DOMAIN w \ Weighted(w) : w[u] = 0
    BY <1>1 DEF Weighted
  <1>3. Total(w, DOMAIN w) = WeightOf(w)
    BY <1>1, <1>2, TotalOfPart DEF WeightOf
  <1>4. Weighted(w) = {} => Total(w, DOMAIN w) = 0
    BY <1>3, TotalEmpty DEF WeightOf
  <1> QED BY <1>1, <1>3, <1>4 DEF Divides

\* What is given to each, and who is given anything.
Given(t, w) == Dividing!DistributeLargestRemainder(t, w)

\* What is given adds up to no more than the amount, and to all of it where a weight counts.
LEMMA GivenIs ==
  ASSUME Members \subseteq Nat \ {0}, IsFiniteSet(Members), NEW w, BucketWeights(w), NEW t \in Nat
  PROVE  LET D == DOMAIN Given(t, w)
         IN  /\ D \in SUBSET Buckets /\ IsFiniteSet(D) /\ \A u \in D : Given(t, w)[u] \in Nat
             /\ Total(Given(t, w), D) \in Nat /\ Total(Given(t, w), D) <= t
             /\ Weighted(w) # {} => Total(Given(t, w), D) = t
             /\ t > 0 => D = Weighted(w) /\ Given(t, w) = Part(t, w)
             /\ t = 0 => D = {}
  <1>1. Weighted(w) \in SUBSET Buckets /\ IsFiniteSet(Weighted(w))
    BY BucketsAre, FS_Subset DEF BucketWeights, Weighted
  <1>2. CASE t = 0
    <2>1. DOMAIN Given(t, w) = {}
      BY <1>2 DEF Given, Dividing!DistributeLargestRemainder
    <2>2. Total(Given(t, w), {}) = 0 /\ IsFiniteSet({})
      BY TotalEmpty, FS_EmptySet
    <2> QED BY <1>2, <2>1, <2>2
  <1>3. CASE t > 0
    <2>1. Given(t, w) = Part(t, w) /\ DOMAIN Part(t, w) = Weighted(w)
      BY <1>3, PartIs DEF Given, Part
    <2>2. CASE Weighted(w) = {}
      <3>1. Total(Given(t, w), {}) = 0
        BY TotalEmpty
      <3> QED BY <1>1, <1>3, <2>1, <2>2, <3>1
    <2>3. CASE Weighted(w) # {}
      <3>1. Divides(w)
        BY <2>3, WeightOfAll
      <3>2. (\A u \in Weighted(w) : Part(t, w)[u] \in Nat) /\ Total(Part(t, w), Weighted(w)) = t
        BY <3>1, PartExact
      <3> QED BY <1>1, <1>3, <2>1, <3>2
    <2> QED BY <2>2, <2>3
  <1> QED BY <1>2, <1>3

\* What is given to whom, and what is left is nobody's: each cent once.
LEMMA BucketsExact ==
  ASSUME Members \subseteq Nat \ {0}, IsFiniteSet(Members), NEW w, BucketWeights(w), NEW t \in Nat
  PROVE  LET b == Dividing!DistributeToBuckets(t, w)
         IN  /\ DOMAIN b = Buckets /\ (\A u \in Buckets : b[u] \in Nat)
             /\ Total(b, Buckets) = t
             /\ Weighted(w) # {} => \A u \in Buckets :
                  b[u] = IF u \in DOMAIN Given(t, w) THEN Given(t, w)[u] ELSE 0
  <1> DEFINE b == Dividing!DistributeToBuckets(t, w)
             D == DOMAIN Given(t, w)
             f == [u \in Buckets |-> IF u \in D THEN Given(t, w)[u] ELSE 0]
             g == [u \in Buckets |-> IF u = 0 THEN t - Total(Given(t, w), D) ELSE 0]
  <1>1. /\ D \in SUBSET Buckets /\ IsFiniteSet(D) /\ \A u \in D : Given(t, w)[u] \in Nat
        /\ Total(Given(t, w), D) \in Nat /\ Total(Given(t, w), D) <= t
        /\ Weighted(w) # {} => Total(Given(t, w), D) = t
    BY GivenIs
  <1>2. Buckets \in SUBSET Nat /\ IsFiniteSet(Buckets) /\ 0 \in Buckets /\ Dividing!Nobody = 0
    BY BucketsAre
  <1>3. DOMAIN b = Buckets /\ \A u \in Buckets : b[u] = f[u] + g[u]
    <2>1. b = [u \in Buckets |->
                 (IF u \in D THEN Given(t, w)[u] ELSE 0)
                 + (IF u = 0 THEN Dividing!AtLeastZero(t - Total(Given(t, w), D)) ELSE 0)]
      BY <1>2, SumIs DEF Dividing!DistributeToBuckets, Given, Buckets
    <2>2. Dividing!AtLeastZero(t - Total(Given(t, w), D)) = t - Total(Given(t, w), D)
      BY <1>1 DEF Dividing!AtLeastZero
    <2> HIDE DEF b, D
    <2> QED BY <2>1, <2>2
  <1>4. /\ \A u \in Buckets : f[u] \in Nat /\ g[u] \in Nat
        /\ \A u \in Buckets \ D : f[u] = 0
        /\ \A u \in D : f[u] = Given(t, w)[u]
        /\ \A u \in Buckets \ {0} : g[u] = 0
        /\ g[0] = t - Total(Given(t, w), D)
    BY <1>1, <1>2
  <1>5. Weighted(w) # {} => \A u \in Buckets : g[u] = 0
    BY <1>1, <1>4
  <1>6. \A u \in Buckets : f[u] = IF u \in D THEN Given(t, w)[u] ELSE 0
    OBVIOUS
  <1> HIDE DEF b, f, g, D
  <1>7. Total(f, Buckets) = Total(Given(t, w), D)
    <2>1. IsFiniteSet(Buckets) /\ (\A u \in Buckets : f[u] \in Int) /\ D \in SUBSET Buckets
      BY <1>1, <1>2, <1>4
    <2>2. Total(f, Buckets) = Total(f, D)
      BY <1>4, <2>1, TotalOfPart
    <2>3. Total(f, D) = Total(Given(t, w), D)
      BY <1>1, <1>4, TotalSame
    <2> QED BY <2>2, <2>3
  <1>8. Total(g, Buckets) = t - Total(Given(t, w), D)
    <2>1. IsFiniteSet(Buckets) /\ (\A u \in Buckets : g[u] \in Int) /\ 0 \in Buckets
      BY <1>2, <1>4
    <2>2. Total(g, Buckets) = g[0] + Total(g, Buckets \ {0})
      BY <2>1, TotalWithout
    <2>3. IsFiniteSet(Buckets \ {0})
      BY <2>1, FS_Subset
    <2>4. Total(g, Buckets \ {0}) = 0
      BY <1>4, <2>3, TotalZero
    <2> QED BY <1>1, <1>4, <2>2, <2>4
  <1>9. Total(b, Buckets) = Total(f, Buckets) + Total(g, Buckets)
    <2>1. \A u \in Buckets : f[u] \in Int /\ g[u] \in Int /\ b[u] = f[u] + g[u]
      BY <1>3, <1>4
    <2>2. IsFiniteSet(Buckets)
      BY <1>2
    <2> QED BY <2>1, <2>2, TotalAdds
  <1>10. Total(b, Buckets) = t
    BY <1>1, <1>7, <1>8, <1>9
  <1>11. \A u \in Buckets : b[u] \in Nat
    BY <1>3, <1>4
  <1>12. Weighted(w) # {} => \A u \in Buckets : b[u] = IF u \in D THEN Given(t, w)[u] ELSE 0
    BY <1>3, <1>4, <1>5, <1>6
  <1> QED BY <1>3, <1>10, <1>11, <1>12 DEF b, D

\* What the configurations divide is counted in cents, among people with ids.
Divisible ==
    /\ Members \subseteq Nat \ {0} /\ IsFiniteSet(Members) /\ IsFiniteSet(Goods)
    /\ GoodsPrice \in [Goods -> Nat] /\ Pool \in [Members -> Nat]
    /\ Discounts \subseteq Nat /\ Manual \subseteq Nat /\ People \subseteq Nat \ {0}
    /\ \A p \in ChargePolicies : p.bps \in Nat
    /\ \A p \in Pays : p.amount \in Nat /\ p.refunded \in Nat

\* A sum of a field of what each is given.
FieldSum(shares, f) == Dividing!MapThenSumSet(LAMBDA u : shares[u][f], DOMAIN shares)

\* The sum of one field of the shares.
LEMMA FieldSumIs ==
  ASSUME NEW shares, IsFiniteSet(DOMAIN shares), NEW f
  PROVE  FieldSum(shares, f) = Total([u \in DOMAIN shares |-> shares[u][f]], DOMAIN shares)
  <1> DEFINE S == DOMAIN shares
             e == [u \in S |-> shares[u][f]]
             P(h) == h = [s \in SUBSET S |-> IF s = {} THEN 0
                             ELSE shares[Picked(s)][f] + h[s \ {Picked(s)}]]
  <1>1. ASSUME NEW h PROVE P(h) <=> Sums(h, e, S)
    <2>1. \A s \in SUBSET S : s # {} => e[Picked(s)] = shares[Picked(s)][f]
      <3>1. \A s \in SUBSET S : s # {} => Picked(s) \in S
        BY PickedIn
      <3> QED BY <3>1
    <2>2. [s \in SUBSET S |-> IF s = {} THEN 0 ELSE shares[Picked(s)][f] + h[s \ {Picked(s)}]]
             = [s \in SUBSET S |-> IF s = {} THEN 0 ELSE e[Picked(s)] + h[s \ {Picked(s)}]]
      <3> HIDE DEF e
      <3> QED BY <2>1
    <2> HIDE DEF e
    <2> QED BY <2>2 DEF Sums
  <1>2. FieldSum(shares, f) = (CHOOSE h : P(h))[S]
    BY DEF FieldSum, Dividing!MapThenSumSet, Dividing!MapThenFoldSet, Picked
  <1> HIDE DEF P
  <1>3. \E h : P(h)
    BY <1>1, SumsExist
  <1>4. P(CHOOSE h : P(h))
    BY <1>3
  <1> QED BY <1>1, <1>2, <1>4, TotalIs

\* What goods are worth.
LEMMA WorthIs ==
  ASSUME Divisible, NEW A \in SUBSET Goods
  PROVE  /\ Dividing!Total(A) \in Nat
         /\ \A B \in SUBSET A : Dividing!Total(B) \in Nat /\ Dividing!Total(B) <= Dividing!Total(A)
  <1>1. \A s : Dividing!Total(s) = Total(GoodsPrice, s)
    BY DEF Dividing!Total, Total, Sums, Picked, Dividing!MapThenSumSet, Dividing!MapThenFoldSet
  <1>2. IsFiniteSet(A) /\ \A i \in A : GoodsPrice[i] \in Nat
    BY FS_Subset DEF Divisible
  <1>3. ASSUME NEW B \in SUBSET A PROVE Total(GoodsPrice, B) \in Nat /\ Total(GoodsPrice, B) <= Total(GoodsPrice, A)
    <2>1. IsFiniteSet(B) /\ \A i \in B : GoodsPrice[i] \in Nat
      BY <1>2, FS_Subset
    <2> QED BY <1>2, <2>1, TotalNat, TotalOfSubset
  <1> QED BY <1>1, <1>2, <1>3, TotalNat

\* The weights of a mode are weights of buckets.
LEMMA WeightsFit ==
  ASSUME Divisible, NEW A \in SUBSET Goods
  PROVE  BucketWeights(Dividing!Weights(A))
  <1> DEFINE kept == {i \in A : served.waiter[i] # Dividing!Nobody \/ Author[i] # Dividing!Nobody}
             owned == Dividing!Total(kept)
             loose == Dividing!Total(A) - owned
             pool == Dividing!Sum(Pool)
  <1>1. Dividing!Total(A) \in Nat /\ owned \in Nat /\ loose \in Nat
    BY WorthIs
  <1>2. pool \in Nat /\ \A u \in Members : Pool[u] \in Nat
    <2>1. pool = Total(Pool, Members)
      BY SumIs DEF Divisible
    <2> QED BY <2>1, TotalNat DEF Divisible
  <1>3. Buckets = {Dividing!Nobody} \cup Members /\ Dividing!Nobody \in Buckets
    BY DEF Buckets
  <1>4. CASE served.mode = "shift_pool"
    <2>1. Dividing!Weights(A) =
            IF pool <= 0 \/ owned <= 0 THEN [u \in {Dividing!Nobody} |-> Dividing!Total(A)]
            ELSE [u \in Buckets |-> IF u = Dividing!Nobody THEN pool * loose ELSE Pool[u] * owned]
      BY <1>3, <1>4 DEF Dividing!Weights, Dividing!PoolWeights
    <2> HIDE DEF owned, loose, pool
    <2>2. pool * loose \in Nat /\ \A u \in Members : Pool[u] * owned \in Nat
      BY <1>1, <1>2
    <2> QED BY <1>1, <1>3, <2>1, <2>2 DEF BucketWeights
  <1>5. CASE served.mode # "shift_pool"
    <2>1. Dividing!Weights(A) = [u \in Buckets |-> Dividing!Total({i \in A : Dividing!Owner(i) = u})]
      BY <1>3, <1>5 DEF Dividing!Weights
    <2>2. \A u : Dividing!Total({i \in A : Dividing!Owner(i) = u}) \in Nat
      BY WorthIs
    <2> QED BY <1>3, <2>1, <2>2 DEF BucketWeights
  <1> QED BY <1>4, <1>5

\* Nobody is given a cent more or less than in proportion.
LEMMA Proportional ==
  ASSUME Divisible, NEW w, BucketWeights(w), NEW t \in Nat
  PROVE  LET b == Dividing!DistributeToBuckets(t, w)
             of(u) == IF u \in DOMAIN w THEN w[u] ELSE 0
             off(u) == b[u] * Dividing!Sum(w) - t * of(u)
         IN  Dividing!Sum(w) > 0 => \A u \in Buckets : -Dividing!Sum(w) < off(u) /\ off(u) < Dividing!Sum(w)
  <1> DEFINE b == Dividing!DistributeToBuckets(t, w)
             of(u) == IF u \in DOMAIN w THEN w[u] ELSE 0
             D == DOMAIN Given(t, w)
  <1>1. Members \subseteq Nat \ {0} /\ IsFiniteSet(Members)
    BY DEF Divisible
  <1>2. Dividing!Sum(w) = WeightOf(w)
    BY <1>1, SumIs, WeightOfAll
  <1> SUFFICES ASSUME WeightOf(w) > 0, NEW u \in Buckets
               PROVE  /\ -WeightOf(w) < b[u] * WeightOf(w) - t * of(u)
                      /\ b[u] * WeightOf(w) - t * of(u) < WeightOf(w)
    BY <1>2
  <1>3. Divides(w)
    BY <1>1, <1>2, SumIs, WeightOfAll
  <1>4. WeightOf(w) \in Nat /\ Weighted(w) # {}
    BY <1>3, WeightsAre DEF Divides
  <1>5. b[u] = IF u \in D THEN Given(t, w)[u] ELSE 0
    BY <1>1, <1>4, BucketsExact
  <1>6. (t > 0 => D = Weighted(w) /\ Given(t, w) = Part(t, w)) /\ (t = 0 => D = {})
    BY <1>1, GivenIs
  <1>7. of(u) \in Nat /\ (u \notin Weighted(w) => of(u) = 0) /\ (u \in Weighted(w) => of(u) = w[u])
    BY DEF BucketWeights, Weighted
  <1> HIDE DEF b, of, D
  <1>8. CASE t > 0 /\ u \in Weighted(w)
    <2>1. b[u] = Part(t, w)[u] /\ of(u) = w[u]
      BY <1>5, <1>6, <1>7, <1>8
    <2> QED BY <1>3, <1>8, <2>1, PartExact
  <1>9. CASE ~(t > 0 /\ u \in Weighted(w))
    <2>1. b[u] = 0 /\ (t = 0 \/ of(u) = 0)
      BY <1>5, <1>6, <1>7, <1>9
    <2>2. t * of(u) = 0 /\ b[u] * WeightOf(w) = 0
      BY <1>4, <1>7, <2>1
    <2> QED BY <1>4, <2>2
  <1> QED BY <1>8, <1>9

\* What the state of an order is calculated from.
ServedFits ==
    /\ served.discount \in Nat /\ served.discount <= Dividing!Total(Dividing!Active)
    /\ served.suggested \in Nat /\ served.charge \in Nat
    /\ served.pay \in Pays

\* What was received and what is to be paid are counted, and a charge is part of it.
LEMMA PayableIs ==
  ASSUME Divisible, ServedFits
  PROVE  /\ Dividing!Received \in Nat /\ Dividing!Payable \in Nat /\ served.charge <= Dividing!Payable
         /\ Dividing!Least(Dividing!Received, Dividing!Payable) \in Nat
         /\ Dividing!Least(Dividing!Received, Dividing!Payable) <= Dividing!Payable
         /\ Dividing!Received >= Dividing!Payable =>
              Dividing!Least(Dividing!Received, Dividing!Payable) = Dividing!Payable
  <1>1. Dividing!Total(Dividing!Active) \in Nat
    <2>1. Dividing!Active \in SUBSET Goods
      BY DEF Dividing!Active
    <2> QED BY <2>1, WorthIs
  <1>2. Dividing!Net(served.pay) \in Nat
    <2>1. served.pay.amount \in Nat /\ served.pay.refunded \in Nat
      BY DEF Divisible, ServedFits
    <2> QED BY <2>1 DEF Dividing!Net, Dividing!AtLeastZero
  <1>3. Dividing!Received \in Nat
    <2> DEFINE k == IF served.pay.handover \in {"received", "not_required"} THEN 1 ELSE 0
    <2>1. k \in Nat /\ Dividing!Received = Dividing!Net(served.pay) * k
      BY DEF Dividing!Received
    <2> HIDE DEF k
    <2> QED BY <1>2, <2>1
  <1>4. Dividing!Payable \in Nat /\ served.charge <= Dividing!Payable
    BY <1>1 DEF ServedFits, Dividing!Payable, Dividing!AtLeastZero
  <1> QED BY <1>3, <1>4 DEF Dividing!Least

\* What was received is at most what the order is worth, and its part that is
\* service charge is at most either.
LEMMA ServicePart ==
  ASSUME NEW m \in Nat, NEW c \in Nat, NEW n \in Nat, c <= n, m <= n
  PROVE  LET q == (m * c) \div (IF n < 1 THEN 1 ELSE n)
         IN  q \in Nat /\ q <= m /\ q <= c /\ (m = n => q = c)
  <1>1. CASE n = 0
    BY <1>1
  <1>2. CASE n > 0
    <2> DEFINE p == m * c
               q == p \div n
    <2>1. p \in Nat
      OBVIOUS
    <2> HIDE DEF p
    <2>2. q \in Nat /\ p % n \in Nat /\ p % n < n /\ p = n * q + (p % n)
      BY <1>2, <2>1, QuotientIs
    <2>3. (IF n < 1 THEN 1 ELSE n) = n
      BY <1>2
    <2> HIDE DEF q
    <2>4. n * q <= m * c /\ m * c < n * (q + 1)
      BY <1>2, <2>2 DEF p
    <2>5. m * c <= m * n /\ m * c <= c * n
      OBVIOUS
    <2>6. q <= m
      <3>1. n * q <= n * m
        BY <2>2, <2>4, <2>5
      <3>2. q > m => n * q > n * m
        BY <1>2, <2>2
      <3> QED BY <2>2, <3>1, <3>2
    <2>7. q <= c
      <3>1. n * q <= n * c
        BY <2>2, <2>4, <2>5
      <3>2. q > c => n * q > n * c
        BY <1>2, <2>2
      <3> QED BY <2>2, <3>1, <3>2
    <2>8. ASSUME m = n PROVE q = c
      <3>1. n * c < n * (q + 1)
        BY <2>4, <2>8
      <3>2. c >= q + 1 => n * c >= n * (q + 1)
        BY <1>2, <2>2
      <3> QED BY <2>2, <2>7, <3>1, <3>2
    <2> QED BY <2>2, <2>3, <2>6, <2>7, <2>8 DEF q, p
  <1> QED BY <1>1, <1>2

\* What was received is service charge and consumption.
LEMMA ServiceIs ==
  ASSUME Divisible, ServedFits
  PROVE  /\ Dividing!ServiceReceived \in Nat /\ Dividing!NetPaid \in Nat
         /\ Dividing!ServiceReceived + Dividing!NetPaid = Dividing!Least(Dividing!Received, Dividing!Payable)
         /\ Dividing!Received >= Dividing!Payable => Dividing!ServiceReceived = served.charge
  <1> DEFINE m == Dividing!Least(Dividing!Received, Dividing!Payable)
             q == (m * served.charge) \div (IF Dividing!Payable < 1 THEN 1 ELSE Dividing!Payable)
  <1>1. /\ served.charge \in Nat /\ Dividing!Payable \in Nat /\ m \in Nat /\ served.charge <= Dividing!Payable
        /\ m <= Dividing!Payable /\ (Dividing!Received >= Dividing!Payable => m = Dividing!Payable)
    BY PayableIs DEF ServedFits
  <1> HIDE DEF m
  <1>2. q \in Nat /\ q <= m /\ q <= served.charge /\ (m = Dividing!Payable => q = served.charge)
    BY <1>1, ServicePart
  <1>3. Dividing!ServiceReceived = Dividing!Least(served.charge, q)
    BY DEF Dividing!ServiceReceived, m
  <1> HIDE DEF q
  <1>4. Dividing!ServiceReceived = q
    BY <1>1, <1>2, <1>3 DEF Dividing!Least
  <1>5. Dividing!NetPaid = Dividing!AtLeastZero(m - q)
    BY <1>4 DEF Dividing!NetPaid, m
  <1>6. Dividing!NetPaid = m - q
    BY <1>1, <1>2, <1>5 DEF Dividing!AtLeastZero
  <1> QED BY <1>1, <1>2, <1>4, <1>6 DEF m

\* The parts of a bill add up to it, and differ by at most a cent.
LEMMA SplitExact ==
  ASSUME NEW t \in Nat, NEW n \in Nat \ {0}
  PROVE  LET parts == Dividing!SplitAmount(t, n)
         IN  /\ DOMAIN parts = 1 .. n /\ \A i \in 1 .. n : parts[i] \in Nat
             /\ Dividing!Sum(parts) = t
             /\ \A i, j \in DOMAIN parts : parts[i] - parts[j] \in {-1, 0, 1}
  <1> DEFINE d == t \div n
             r == t % n
             S == 1 .. n
             few == 1 .. r
             f == [i \in S |-> d]
             g == [i \in S |-> IF i \in few THEN 1 ELSE 0]
             parts == Dividing!SplitAmount(t, n)
  <1>1. d \in Nat /\ r \in Nat /\ r < n /\ t = n * d + r
    BY QuotientIs
  <1>2. parts = [i \in S |-> d + (IF i <= r THEN 1 ELSE 0)]
    BY DEF Dividing!SplitAmount
  <1> HIDE DEF parts, d, r
  <1>3. few \in SUBSET S /\ \A i \in S : (i \in few <=> i <= r)
    BY <1>1
  <1>4. IsFiniteSet(S) /\ Cardinality(S) = n
    BY FS_Interval
  <1>5. Cardinality(few) = r
    BY <1>1, FS_Interval
  <1>6. \A i \in S : f[i] = d /\ g[i] = (IF i \in few THEN 1 ELSE 0) /\ parts[i] = f[i] + g[i]
    BY <1>2, <1>3
  <1>7. DOMAIN parts = S
    BY <1>2
  <1> HIDE DEF f, g, few, S
  <1>8. Total(f, S) = d * Cardinality(S)
    BY <1>1, <1>4, <1>6, TotalConst
  <1>9. Total(g, S) = Cardinality(few)
    BY <1>3, <1>4, <1>6, TotalOnes
  <1>10. \A i \in S : f[i] \in Int /\ g[i] \in Int /\ parts[i] = f[i] + g[i]
    BY <1>1, <1>6
  <1>11. Total(parts, S) = Total(f, S) + Total(g, S)
    BY <1>4, <1>10, TotalAdds
  <1>12. Dividing!Sum(parts) = Total(parts, S)
    BY <1>7, SumIs
  <1>13. Dividing!Sum(parts) = t
    BY <1>1, <1>4, <1>5, <1>8, <1>9, <1>11, <1>12
  <1>14. ASSUME NEW i \in S, NEW j \in S PROVE parts[i] - parts[j] \in {-1, 0, 1} /\ parts[i] \in Nat
    BY <1>1, <1>6
  <1> QED BY <1>7, <1>13, <1>14 DEF parts, S

\* Bands that assertCommissionRules accepts: in the order of their starts,
\* and none starts before the one before it ends.
Banded ==
    /\ Bands \in Seq([start : Nat, end : Nat \cup {None}, rate : Nat]) /\ None \notin Nat
    /\ \A i, j \in DOMAIN Bands : i < j => Bands[i].start <= Bands[j].start
    /\ \A i \in DOMAIN Bands : Bands[i].end # None =>
          Bands[i].start < Bands[i].end /\ (i < Len(Bands) => Bands[i].end <= Bands[i + 1].start)

\* The bands of a commission begin and end at natural numbers.
LEMMA BandsAre ==
  ASSUME Banded
  PROVE  /\ DOMAIN Bands = 1 .. Len(Bands) /\ Len(Bands) \in Nat
         /\ \A i \in DOMAIN Bands :
               Bands[i].start \in Nat /\ Bands[i].rate \in Nat /\ (Bands[i].end # None => Bands[i].end \in Nat)
  <1> DEFINE T == [start : Nat, end : Nat \cup {None}, rate : Nat]
  <1>1. Bands \in Seq(T)
    BY DEF Banded
  <1>2. \A b \in T : b.start \in Nat /\ b.rate \in Nat /\ (b.end # None => b.end \in Nat)
    OBVIOUS
  <1> HIDE DEF T
  <1>3. DOMAIN Bands = 1 .. Len(Bands) /\ Len(Bands) \in Nat /\ \A i \in DOMAIN Bands : Bands[i] \in T
    BY <1>1
  <1> QED BY <1>2, <1>3

\* What of a base is in a band.
Portion(i, base) ==
    {n \in 0 .. (base - 1) : /\ n >= Bands[i].start /\ (Bands[i].end = None \/ n < Bands[i].end)
                             /\ \A j \in DOMAIN Bands : j > i => n < Bands[j].start}

\* What a band takes of a base is a number of its cents.
LEMMA PortionIs ==
  ASSUME Banded, NEW base \in Nat, NEW i \in DOMAIN Bands
  PROVE  /\ Dividing!InBand(i, base) \in Nat
         /\ Cardinality(Portion(i, base)) = Dividing!InBand(i, base)
  <1> DEFINE end == Dividing!BandEnd(i, base)
             top == Dividing!Least(base, end)
             low == Bands[i].start
  <1>1. /\ \A j \in DOMAIN Bands : Bands[j].start \in Nat /\ (Bands[j].end # None => Bands[j].end \in Nat)
        /\ DOMAIN Bands = 1 .. Len(Bands) /\ Len(Bands) \in Nat
    BY BandsAre
  <1>2. end = IF Bands[i].end # None THEN Bands[i].end
              ELSE IF i = Len(Bands) THEN base ELSE Bands[i + 1].start
    BY DEF Dividing!BandEnd
  <1> HIDE DEF end
  <1>3. end \in Nat
    BY <1>1, <1>2
  <1>4. top \in Nat /\ top <= base /\ top <= end /\ (top = base \/ top = end)
    BY <1>3 DEF Dividing!Least
  <1> HIDE DEF top
  <1>5. ASSUME NEW j \in DOMAIN Bands, j > i PROVE i + 1 \in DOMAIN Bands /\ Bands[i + 1].start <= Bands[j].start
    <2>1. i + 1 \in DOMAIN Bands /\ (i + 1 = j \/ i + 1 < j)
      BY <1>1, <1>5
    <2> QED BY <1>1, <1>5, <2>1 DEF Banded
  <1>6. ASSUME NEW n \in Nat
        PROVE  n \in Portion(i, base) <=> n >= low /\ n < top
    <2>1. ASSUME n \in Portion(i, base) PROVE n >= low /\ n < top
      <3>1. n < base /\ n >= low /\ (Bands[i].end # None => n < Bands[i].end)
            /\ \A j \in DOMAIN Bands : j > i => n < Bands[j].start
        BY <2>1 DEF Portion
      <3>2. i # Len(Bands) => n < Bands[i + 1].start
        BY <1>1, <3>1
      <3>3. n < end \/ end = base
        BY <1>2, <3>1, <3>2
      <3> QED BY <1>4, <3>1, <3>3
    <2>2. ASSUME n >= low, n < top PROVE n \in Portion(i, base)
      <3>1. n < base /\ n < end /\ n \in 0 .. (base - 1)
        BY <1>3, <1>4, <1>1, <2>2
      <3>2. Bands[i].end # None => n < Bands[i].end
        BY <1>2, <3>1
      <3>3. ASSUME NEW j \in DOMAIN Bands, j > i PROVE n < Bands[j].start
        <4>1. end <= Bands[i + 1].start
          <5>1. i < Len(Bands)
            BY <1>1, <3>3
          <5> QED BY <1>1, <1>2, <3>3, <5>1, <1>5 DEF Banded
        <4> QED BY <1>1, <1>3, <1>5, <3>1, <3>3, <4>1
      <3> QED BY <2>2, <3>1, <3>2, <3>3 DEF Portion
    <2> QED BY <2>1, <2>2
  <1>7. Portion(i, base) = low .. (top - 1)
    <2>1. \A n \in Portion(i, base) : n \in Nat
      BY DEF Portion
    <2>2. \A n : n \in low .. (top - 1) <=> n \in Nat /\ n >= low /\ n < top
      BY <1>1, <1>4
    <2> QED BY <1>6, <2>1, <2>2
  <1>8. Cardinality(low .. (top - 1)) = IF low > top - 1 THEN 0 ELSE top - low
    <2>1. low \in Int /\ top - 1 \in Int /\ top \in Int
      BY <1>1, <1>4
    <2> HIDE DEF low
    <2>2. Cardinality(low .. (top - 1)) = IF low > top - 1 THEN 0 ELSE (top - 1) - low + 1
      BY <2>1, FS_Interval
    <2> QED BY <2>1, <2>2
  <1>9. Dividing!InBand(i, base) = Dividing!AtLeastZero(top - low)
    BY DEF Dividing!InBand, top, end
  <1>10. Dividing!InBand(i, base) = IF low > top - 1 THEN 0 ELSE top - low
    BY <1>1, <1>4, <1>9 DEF Dividing!AtLeastZero
  <1> QED BY <1>1, <1>4, <1>7, <1>8, <1>10

\* Half a cent is rounded up.
LEMMA RateIs ==
  ASSUME NEW a, NEW bps, NEW p \in Nat, p = a * bps
  PROVE  /\ Dividing!Rate(a, bps) \in Nat
         /\ 20000 * Dividing!Rate(a, bps) <= 2 * p + 10000
         /\ 2 * p <= 20000 * Dividing!Rate(a, bps) + 10000
  <1>1. Dividing!Rate(a, bps) = (p + 5000) \div 10000
    BY DEF Dividing!Rate
  <1> QED BY <1>1

\* Each cent of a base is paid at the rate of one band, but for rounding.
LEMMA BandsPay ==
  ASSUME Banded, NEW base \in Nat
  PROVE  Dividing!BandsExact(base, Dividing!Progressive(base)) /\ Dividing!Progressive(base) \in Nat
  <1> DEFINE S == DOMAIN Bands
             R == [i \in S |-> Dividing!Rate(Dividing!InBand(i, base), Bands[i].rate)]
             E == [i \in S |-> Dividing!Cardinality(Portion(i, base)) * Bands[i].rate]
             A == [i \in S |-> 20000 * R[i]]
             B == [i \in S |-> 2 * E[i]]
             K == [i \in S |-> 10000]
             AK == [i \in S |-> A[i] + K[i]]
             BK == [i \in S |-> B[i] + K[i]]
             cents == Dividing!Progressive(base)
             exact == Dividing!Sum(E)
  <1>1. S = 1 .. Len(Bands) /\ Len(Bands) \in Nat /\ \A i \in S : Bands[i].rate \in Nat
    BY BandsAre
  <1>2. IsFiniteSet(S) /\ Cardinality(S) = Len(Bands)
    BY <1>1, FS_Interval
  <1>3. ASSUME NEW i \in S
        PROVE  R[i] \in Nat /\ E[i] \in Nat /\ A[i] <= B[i] + 10000 /\ B[i] <= A[i] + 10000
    <2> DEFINE a == Dividing!InBand(i, base)
               b == Bands[i].rate
    <2>1. a \in Nat /\ Dividing!Cardinality(Portion(i, base)) = a /\ b \in Nat
      BY <1>1, PortionIs DEF Dividing!Cardinality, Cardinality
    <2>2. R[i] = Dividing!Rate(a, b) /\ E[i] = a * b /\ A[i] = 20000 * R[i] /\ B[i] = 2 * E[i]
      BY <2>1
    <2> HIDE DEF a, b, R, E, A, B
    <2> DEFINE p == a * b
    <2>3. p \in Nat
      BY <2>1
    <2>4. /\ Dividing!Rate(a, b) \in Nat
          /\ 20000 * Dividing!Rate(a, b) <= 2 * p + 10000
          /\ 2 * p <= 20000 * Dividing!Rate(a, b) + 10000
      BY <2>3, RateIs
    <2>5. E[i] = p
      BY <2>2
    <2> HIDE DEF p
    <2> QED BY <2>2, <2>3, <2>4, <2>5
  <1>4. cents = Total(R, S) /\ exact = Total(E, S)
    BY SumIs DEF Dividing!Progressive
  <1>5. Dividing!BandsExact(base, cents) <=>
           /\ 2 * (10000 * cents - exact) <= 10000 * Len(Bands)
           /\ 2 * (exact - 10000 * cents) <= 10000 * Len(Bands)
    <2> DEFINE ps == [i \in DOMAIN Bands |-> Portion(i, base)]
               E2 == [i \in DOMAIN Bands |-> Dividing!Cardinality(ps[i]) * Bands[i].rate]
    <2>1. Dividing!BandsExact(base, cents) <=>
             /\ 2 * (10000 * cents - Dividing!Sum(E2)) <= 10000 * Len(Bands)
             /\ 2 * (Dividing!Sum(E2) - 10000 * cents) <= 10000 * Len(Bands)
      BY DEF Dividing!BandsExact, Portion
    <2>2. E2 = E
      OBVIOUS
    <2> QED BY <2>1, <2>2
  <1>6. /\ \A i \in S : A[i] = 20000 * R[i] /\ B[i] = 2 * E[i] /\ K[i] = 10000
        /\ \A i \in S : AK[i] = A[i] + K[i] /\ BK[i] = B[i] + K[i]
    OBVIOUS
  <1> HIDE DEF S, R, E, A, B, K, AK, BK, cents, exact
  <1>7. \A i \in S : R[i] \in Int /\ E[i] \in Int
    BY <1>3
  <1>8. Total(A, S) = 20000 * Total(R, S)
    <2>1. \A i \in S : R[i] \in Int /\ A[i] = 20000 * R[i]
      BY <1>6, <1>7
    <2> QED BY <1>2, <2>1, TotalScaled
  <1>9. Total(B, S) = 2 * Total(E, S)
    <2>1. \A i \in S : E[i] \in Int /\ B[i] = 2 * E[i]
      BY <1>6, <1>7
    <2> QED BY <1>2, <2>1, TotalScaled
  <1>10. Total(K, S) = 10000 * Len(Bands)
    BY <1>2, <1>6, TotalConst
  <1>11. \A i \in S : A[i] \in Int /\ B[i] \in Int /\ K[i] \in Int /\ AK[i] \in Int /\ BK[i] \in Int
                      /\ A[i] <= BK[i] /\ B[i] <= AK[i]
    BY <1>3, <1>6, <1>7
  <1>12. Total(AK, S) = Total(A, S) + Total(K, S)
    BY <1>2, <1>6, <1>11, TotalAdds
  <1>13. Total(BK, S) = Total(B, S) + Total(K, S)
    BY <1>2, <1>6, <1>11, TotalAdds
  <1>14. Total(A, S) <= Total(BK, S)
    BY <1>2, <1>11, TotalMonotone
  <1>15. Total(B, S) <= Total(AK, S)
    BY <1>2, <1>11, TotalMonotone
  <1>16. Total(R, S) \in Nat /\ Total(E, S) \in Nat
    BY <1>2, <1>3, TotalNat
  <1> QED BY <1>1, <1>4, <1>5, <1>8, <1>9, <1>10, <1>12, <1>13, <1>14, <1>15, <1>16 DEF cents

\* What was calculated is of the order as it is.
Calculated ==
    \/ result = None
    \/ result = [kind |-> "settlement", shares |-> Dividing!CalculateSettlement]
    \/ \E n \in People : result = [kind |-> "split", parts |-> Dividing!SplitAmount(Dividing!Payable, n)]
    \/ \E model \in Dividing!Models, base \in Nat :
          result = [kind |-> model, base |-> base, cents |-> Dividing!CalculateCommission(model, base)]

DividingInv == ServedFits /\ Calculated

\* An order that is served has its amounts, and nothing is calculated of it yet.
LEMMA DividingStarts == ASSUME Divisible PROVE Dividing!Init => DividingInv
  <1> SUFFICES ASSUME Dividing!Init PROVE DividingInv
    OBVIOUS
  <1> DEFINE Serves(mode, canceled, discount, rule, pay, waiter, added, early) ==
               \E charge \in Dividing!ServiceCharges(Dividing!Suggested(rule, Dividing!Total(added), early)) :
                 served = [mode |-> mode, waiter |-> waiter, canceled |-> canceled, discount |-> discount,
                           suggested |-> Dividing!Suggested(rule, Dividing!Total(added), early),
                           charge |-> charge, pay |-> pay]
             Adds(mode, canceled, discount, rule, pay, waiter, added, early) ==
               /\ {i \in Goods : ~canceled[i]} \subseteq added
                     /\ discount <= Dividing!Total({i \in Goods : ~canceled[i]})
               /\ Serves(mode, canceled, discount, rule, pay, waiter, added, early)
  <1>1. PICK mode \in Divisions, canceled \in [Goods -> BOOLEAN], discount \in Discounts, rule \in ChargePolicies,
             pay \in Pays : \E waiter \in Dividing!Answering(mode) :
          \E added \in SUBSET Goods : \E early \in {0, discount} :
            Adds(mode, canceled, discount, rule, pay, waiter, added, early)
    BY Zenon DEF Dividing!Init
  <1> HIDE DEF Adds
  <1>2. PICK waiter \in Dividing!Answering(mode) : \E added \in SUBSET Goods : \E early \in {0, discount} :
            Adds(mode, canceled, discount, rule, pay, waiter, added, early)
    BY <1>1
  <1>3. PICK added \in SUBSET Goods : \E early \in {0, discount} :
            Adds(mode, canceled, discount, rule, pay, waiter, added, early)
    BY <1>2
  <1>4. PICK early \in {0, discount} : Adds(mode, canceled, discount, rule, pay, waiter, added, early)
    BY <1>3
  <1> USE DEF Adds
  <1> DEFINE worth == Dividing!Total(added)
             suggested == Dividing!Suggested(rule, worth, early)
  <1>5. PICK charge \in Dividing!ServiceCharges(suggested) :
          served = [mode |-> mode, waiter |-> waiter, canceled |-> canceled, discount |-> discount,
                    suggested |-> suggested, charge |-> charge, pay |-> pay]
    BY <1>4
  <1>6. worth \in Nat /\ discount \in Nat /\ early \in Nat /\ rule.bps \in Nat
    <2>1. worth \in Nat
      BY WorthIs
    <2>2. discount \in Nat /\ rule.bps \in Nat
      BY DEF Divisible
    <2> QED BY <2>1, <2>2
  <1> HIDE DEF worth
  <1>7. suggested \in Nat
    <2>1. Dividing!AtLeastZero(worth - early) \in Nat
      BY <1>6 DEF Dividing!AtLeastZero
    <2>2. \A a \in Nat : Dividing!Rate(a, rule.bps) \in Nat
      <3> TAKE a \in Nat
      <3> DEFINE p == a * rule.bps
      <3>1. p \in Nat
        BY <1>6
      <3> HIDE DEF p
      <3> QED BY <3>1, RateIs DEF p
    <2> QED BY <1>6, <2>1, <2>2 DEF Dividing!Suggested
  <1> HIDE DEF suggested
  <1>8. charge \in Nat
    BY <1>7 DEF Dividing!ServiceCharges, Divisible
  <1>9. Dividing!Active = {i \in Goods : ~canceled[i]}
    BY <1>5 DEF Dividing!Active
  <1>10. ServedFits
    BY <1>4, <1>5, <1>6, <1>7, <1>8, <1>9 DEF ServedFits
  <1>11. Calculated
    BY DEF Calculated, Dividing!Init
  <1> QED BY <1>10, <1>11 DEF DividingInv

\* What each is given of each amount.
Fields == {"gross", "canceled", "discount", "suggested", "service", "net"}

\* What a settlement divides is counted.
LEMMA AmountsAre ==
  ASSUME Divisible, ServedFits
  PROVE  /\ DOMAIN Dividing!Amounts = Fields /\ "pending" \notin Fields
         /\ \A f \in Fields : Dividing!Amounts[f] \in Nat
         /\ Dividing!Amounts["service"] = Dividing!ServiceReceived
         /\ Dividing!Amounts["net"] = Dividing!NetPaid
  <1>1. Dividing!Total(Dividing!Active) \in Nat /\ Dividing!Total(Goods \ Dividing!Active) \in Nat
    <2>1. Dividing!Active \in SUBSET Goods /\ Goods \ Dividing!Active \in SUBSET Goods
      BY DEF Dividing!Active
    <2> QED BY <2>1, WorthIs
  <1>2. Dividing!Least(served.discount, Dividing!Total(Dividing!Active)) \in Nat
    BY <1>1 DEF Dividing!Least, ServedFits
  <1>3. Dividing!ServiceReceived \in Nat /\ Dividing!NetPaid \in Nat /\ served.suggested \in Nat
    BY ServiceIs DEF ServedFits
  <1> QED BY <1>1, <1>2, <1>3 DEF Dividing!Amounts, Fields

\* Of which goods an amount is.
GoodsOf(f) == IF f = "canceled" THEN Goods \ Dividing!Active ELSE Dividing!Active
GivenOf(f) == Dividing!DistributeToBuckets(Dividing!Amounts[f], Dividing!Weights(GoodsOf(f)))

\* The shares of a settlement add up, field by field, to what is divided.
LEMMA SharesAre ==
  ASSUME Divisible, ServedFits, NEW shares, shares = Dividing!CalculateSettlement
  PROVE  /\ DOMAIN shares = Buckets
         /\ \A f \in Fields : /\ BucketWeights(Dividing!Weights(GoodsOf(f)))
                              /\ \A u \in Buckets : shares[u][f] = GivenOf(f)[u] /\ GivenOf(f)[u] \in Nat
                              /\ FieldSum(shares, f) = Dividing!Amounts[f]
  <1>1. shares = [u \in Buckets |-> [f \in Fields \cup {"pending"} |->
                     IF f = "pending" THEN Dividing!Pending(u) ELSE [g \in Fields |-> GivenOf(g)][f][u]]]
    BY AmountsAre DEF Dividing!CalculateSettlement, GivenOf, GoodsOf, Buckets
  <1>2. DOMAIN shares = Buckets /\ \A f \in Fields, u \in Buckets : shares[u][f] = GivenOf(f)[u]
    BY <1>1, AmountsAre
  <1>3. Members \subseteq Nat \ {0} /\ IsFiniteSet(Members) /\ IsFiniteSet(Buckets)
    BY BucketsAre DEF Divisible
  <1>4. ASSUME NEW f \in Fields
        PROVE  /\ BucketWeights(Dividing!Weights(GoodsOf(f)))
               /\ (\A u \in Buckets : GivenOf(f)[u] \in Nat) /\ FieldSum(shares, f) = Dividing!Amounts[f]
    <2>1. Dividing!Amounts[f] \in Nat
      BY AmountsAre
    <2>2. BucketWeights(Dividing!Weights(GoodsOf(f)))
      <3>1. GoodsOf(f) \in SUBSET Goods
        BY DEF GoodsOf, Dividing!Active
      <3> QED BY <3>1, WeightsFit
    <2>3. /\ DOMAIN GivenOf(f) = Buckets /\ (\A u \in Buckets : GivenOf(f)[u] \in Nat)
          /\ Total(GivenOf(f), Buckets) = Dividing!Amounts[f]
      BY <1>3, <2>1, <2>2, BucketsExact DEF GivenOf
    <2> DEFINE e == [u \in DOMAIN shares |-> shares[u][f]]
    <2>4. FieldSum(shares, f) = Total(e, Buckets)
      BY <1>2, <1>3, FieldSumIs
    <2>5. \A u \in Buckets : e[u] = GivenOf(f)[u]
      BY <1>2
    <2> HIDE DEF e
    <2>6. Total(e, Buckets) = Total(GivenOf(f), Buckets)
      BY <1>3, <2>5, TotalSame
    <2> QED BY <2>2, <2>3, <2>4, <2>6
  <1> QED BY <1>2, <1>4

\* Every cent of every amount is given once and in proportion.
LEMMA SettlementExact ==
  ASSUME Divisible, ServedFits, NEW shares, shares = Dividing!CalculateSettlement
  PROVE  Dividing!SharesExact(shares) /\ Dividing!ServiceOnce(shares)
  <1>1. DOMAIN shares = Buckets
    BY SharesAre
  <1>2. ASSUME NEW f \in Fields
        PROVE  LET w == Dividing!Weights(GoodsOf(f))
                   of(u) == IF u \in DOMAIN w THEN w[u] ELSE 0
                   off(u) == shares[u][f] * Dividing!Sum(w) - Dividing!Amounts[f] * of(u)
               IN  /\ FieldSum(shares, f) = Dividing!Amounts[f]
                   /\ Dividing!Sum(w) > 0 =>
                        \A u \in Buckets : -Dividing!Sum(w) < off(u) /\ off(u) < Dividing!Sum(w)
    <2> DEFINE w == Dividing!Weights(GoodsOf(f))
               t == Dividing!Amounts[f]
    <2>1. /\ BucketWeights(w) /\ t \in Nat /\ FieldSum(shares, f) = t
          /\ \A u \in Buckets : shares[u][f] = Dividing!DistributeToBuckets(t, w)[u]
      BY SharesAre, AmountsAre DEF GivenOf
    <2> HIDE DEF w, t
    <2>2. LET b == Dividing!DistributeToBuckets(t, w)
              of(u) == IF u \in DOMAIN w THEN w[u] ELSE 0
              off(u) == b[u] * Dividing!Sum(w) - t * of(u)
          IN  Dividing!Sum(w) > 0 => \A u \in Buckets : -Dividing!Sum(w) < off(u) /\ off(u) < Dividing!Sum(w)
      BY <2>1, Proportional
    <2>3. ASSUME Dividing!Sum(w) > 0, NEW u \in Buckets
          PROVE  LET of == IF u \in DOMAIN w THEN w[u] ELSE 0
                     off == shares[u][f] * Dividing!Sum(w) - t * of
                 IN  -Dividing!Sum(w) < off /\ off < Dividing!Sum(w)
      BY <2>1, <2>2, <2>3
    <2> QED BY <2>1, <2>3 DEF w, t
  <1>3. Dividing!SharesExact(shares)
    BY <1>1, <1>2, AmountsAre DEF Dividing!SharesExact, FieldSum, GoodsOf
  <1>4. FieldSum(shares, "service") = Dividing!ServiceReceived /\ FieldSum(shares, "net") = Dividing!NetPaid
    BY SharesAre, AmountsAre DEF Fields
  <1>5. Dividing!ServiceOnce(shares)
    BY <1>4, ServiceIs DEF Dividing!ServiceOnce, FieldSum
  <1> QED BY <1>3, <1>5

\* What was calculated of an order as it is adds up to the cent.
LEMMA CentsAgree ==
  ASSUME Divisible, Banded, DividingInv
  PROVE  Dividing!CentsExact
  <1> SUFFICES ASSUME result # None PROVE Dividing!CentsExact
    BY DEF Dividing!CentsExact
  <1>1. CASE result = [kind |-> "settlement", shares |-> Dividing!CalculateSettlement]
    <2>1. PICK s : s = Dividing!CalculateSettlement
      OBVIOUS
    <2>2. result.kind = "settlement" /\ result.shares = s
      BY <1>1, <2>1
    <2>3. Dividing!SharesExact(s) /\ Dividing!ServiceOnce(s)
      BY <2>1, SettlementExact DEF DividingInv
    <2> QED BY <2>2, <2>3 DEF Dividing!CentsExact
  <1>2. ASSUME NEW n \in People, result = [kind |-> "split", parts |-> Dividing!SplitAmount(Dividing!Payable, n)]
        PROVE  Dividing!CentsExact
    <2>1. PICK p : p = Dividing!SplitAmount(Dividing!Payable, n)
      OBVIOUS
    <2>2. result.kind = "split" /\ result.parts = p
      BY <1>2, <2>1
    <2>3. Dividing!Payable \in Nat /\ n \in Nat \ {0}
      BY PayableIs DEF DividingInv, Divisible
    <2>4. Dividing!Sum(p) = Dividing!Payable /\ \A i, j \in DOMAIN p : p[i] - p[j] \in {-1, 0, 1}
      BY <2>1, <2>3, SplitExact
    <2> QED BY <2>2, <2>4 DEF Dividing!CentsExact
  <1>3. ASSUME NEW model \in Dividing!Models, NEW base \in Nat,
               result = [kind |-> model, base |-> base, cents |-> Dividing!CalculateCommission(model, base)]
        PROVE  Dividing!CentsExact
    <2>1. result.kind = model /\ result.base = base /\ result.cents = Dividing!CalculateCommission(model, base)
      BY <1>3
    <2>2. model # "settlement" /\ model # "split"
      BY DEF Dividing!Models
    <2>3. CASE model = "progressive_bands"
      <3>1. Dividing!CalculateCommission(model, base) = Dividing!Progressive(base)
        BY <2>3 DEF Dividing!CalculateCommission
      <3> QED BY <2>1, <2>3, <3>1, BandsPay DEF Dividing!CentsExact
    <2> QED BY <2>1, <2>2, <2>3 DEF Dividing!CentsExact
  <1> QED BY <1>1, <1>2, <1>3 DEF DividingInv, Calculated

\* What is calculated of an order leaves it as it is.
LEMMA DividingInductive ==
  ASSUME Divisible, DividingInv, [Dividing!Next]_Dividing!shareVars
  PROVE  DividingInv'
  <1>1. served' = served
    BY DEF Dividing!Next, Dividing!Settle, Dividing!SplitBill, Dividing!Accrue, Dividing!shareVars
  <1>2. ServedFits'
    BY <1>1 DEF DividingInv, ServedFits, Dividing!Active
  <1>3. Dividing!CalculateSettlement' = Dividing!CalculateSettlement /\ Dividing!Payable' = Dividing!Payable
    BY <1>1 DEF Dividing!CalculateSettlement, Dividing!Payable, Dividing!Amounts, Dividing!Active, Dividing!Weights,
       Dividing!PoolWeights, Dividing!Owner, Dividing!Pending, Dividing!ServiceReceived, Dividing!NetPaid,
       Dividing!Received
  <1>4. CASE result' = result
    <2>1. Calculated
      BY DEF DividingInv
    <2>2. Calculated'
      BY <1>3, <1>4, <2>1 DEF Calculated
    <2> QED BY <1>2, <2>2 DEF DividingInv
  <1>5. CASE Dividing!Settle
    BY <1>2, <1>3, <1>5 DEF DividingInv, Calculated, Dividing!Settle
  <1>6. ASSUME NEW n \in People, Dividing!SplitBill(n) PROVE DividingInv'
    BY <1>2, <1>3, <1>6 DEF DividingInv, Calculated, Dividing!SplitBill
  <1>7. ASSUME NEW model \in Dividing!Models, NEW u \in Members, NEW f \in {"net", "service"},
               Dividing!Accrue(model, u, f)
        PROVE  DividingInv'
    <2>1. result # None /\ result.kind = "settlement"
      BY <1>7 DEF Dividing!Accrue
    <2>2. PICK s : s = Dividing!CalculateSettlement
      OBVIOUS
    <2>3. result = [kind |-> "settlement", shares |-> s]
      BY <2>1, <2>2 DEF DividingInv, Calculated, Dividing!Models
    <2>4. s[u][f] \in Nat
      <3>1. f \in Fields /\ u \in Buckets
        BY DEF Fields, Buckets
      <3> QED BY <2>2, <3>1, SharesAre DEF DividingInv
    <2>5. result' = [kind |-> model, base |-> s[u][f], cents |-> Dividing!CalculateCommission(model, s[u][f])]
      BY <1>7, <2>3 DEF Dividing!Accrue
    <2>6. \A a : Dividing!CalculateCommission(model, a)' = Dividing!CalculateCommission(model, a)
      OBVIOUS
    <2> QED BY <1>2, <2>4, <2>5 DEF DividingInv, Calculated
  <1> QED BY <1>4, <1>5, <1>6, <1>7 DEF Dividing!Next, Dividing!shareVars

\* However what was ordered, received and canceled is divided, by table, by item
\* or by pool, no cent of it is lost, invented or given twice, and nobody is given
\* a cent more or less than in proportion; the parts of a bill add up to it, and a
\* progressive commission pays each cent at the rate of one band.
THEOREM CentsDivideExactly == ASSUME Divisible, Banded PROVE Dividing!Spec => []Dividing!CentsExact
  <1>1. DividingInv /\ [Dividing!Next]_Dividing!shareVars => DividingInv'
    BY DividingInductive
  <1>2. DividingInv => Dividing!CentsExact
    BY CentsAgree
  <1> QED BY <1>1, <1>2, DividingStarts, PTL DEF Dividing!Spec
-----------------------------------------------------------------------------
(*                        The composition (MCOffice)                       *)

\* A component that is not in focus does not come into it.
LEMMA FocusStays == [OfficeNext]_officeVars => focus' = focus
  BY DEF OfficeNext, officeVars

\* The component in focus starts as it does alone, ...
LEMMA FocusStarts ==
    OfficeInit =>
        /\ Init
        /\ focus = "stock" => Store!Init
        /\ focus = "settlements" => Shift!Init
        /\ focus = "commissions" => Dues!Init
        /\ focus = "occurrences" => Losses!Init
        /\ focus = "reconciliation" => Cards!Init
        /\ focus = "allocations" => Bill!Init
        /\ focus = "intake" => Mail!Init
        /\ focus = "club" => Club!Init
        /\ focus = "dividing" => Dividing!Init
  <1> SUFFICES ASSUME OfficeInit
               PROVE  /\ Init
                      /\ focus = "stock" => Store!Init
                      /\ focus = "settlements" => Shift!Init
                      /\ focus = "commissions" => Dues!Init
                      /\ focus = "occurrences" => Losses!Init
                      /\ focus = "reconciliation" => Cards!Init
                      /\ focus = "allocations" => Bill!Init
                      /\ focus = "intake" => Mail!Init
                      /\ focus = "club" => Club!Init
                      /\ focus = "dividing" => Dividing!Init
    OBVIOUS
  <1>1. CASE MoneyInit
    BY <1>1 DEF OfficeInit, MoneyInit, MoneyFoci
  <1>2. CASE focus \in {"cash", "stock", "intake", "club"}
    BY <1>2 DEF OfficeInit, MoneyInit, MoneyFoci
  <1> QED
    BY <1>1, <1>2 DEF OfficeInit

\* ... and takes its own steps.  The drawer does whatever the focus is:
\* outside its own it rests.
LEMMA FocusMoves ==
    [OfficeNext]_officeVars =>
        /\ [Next]_vars
        /\ focus = "stock" => [Store!Next]_Store!stockVars
        /\ focus = "settlements" => [Shift!Next]_Shift!settlementVars
        /\ focus = "commissions" => [Dues!Next]_Dues!commissionVars
        /\ focus = "occurrences" => [Losses!Next]_Losses!occurrenceVars
        /\ focus = "reconciliation" => [Cards!Next]_Cards!reconciliationVars
        /\ focus = "allocations" => [Bill!Next]_Bill!allocationVars
        /\ focus = "intake" => [Mail!Next]_Mail!intakeVars
        /\ focus = "club" => [Club!Next]_Club!clubEventVars
        /\ focus = "dividing" => [Dividing!Next]_Dividing!shareVars
  <1>1. ASSUME UNCHANGED officeVars
        PROVE  /\ UNCHANGED vars /\ UNCHANGED Store!stockVars /\ UNCHANGED Shift!settlementVars
               /\ UNCHANGED Dues!commissionVars /\ UNCHANGED Losses!occurrenceVars
               /\ UNCHANGED Cards!reconciliationVars /\ UNCHANGED Bill!allocationVars
               /\ UNCHANGED Mail!intakeVars /\ UNCHANGED Club!clubEventVars /\ UNCHANGED Dividing!shareVars
    BY <1>1 DEF officeVars, stocks, money, incoming, settlements, commissions, occurrences, reconciliations,
       allocations, intakes, clubEvents, divisions, Store!stockVars, Shift!settlementVars, Shift!shiftRows,
       Dues!commissionVars, Losses!occurrenceVars, Cards!reconciliationVars, Bill!allocationVars, Mail!intakeVars, Club!clubEventVars,
       Dividing!shareVars
  <1>2. ASSUME OfficeNext
        PROVE  /\ Next \/ UNCHANGED vars
               /\ focus = "stock" => Store!Next
               /\ focus = "settlements" => Shift!Next
               /\ focus = "commissions" => Dues!Next
               /\ focus = "occurrences" => Losses!Next
               /\ focus = "reconciliation" => Cards!Next
               /\ focus = "allocations" => Bill!Next
               /\ focus = "intake" => Mail!Next
               /\ focus = "club" => Club!Next
               /\ focus = "dividing" => Dividing!Next
    BY <1>2 DEF OfficeNext, MoneyNext
  <1> QED
    BY <1>1, <1>2

\* Of the component in focus its invariant holds.
FocusInv ==
    /\ focus = "stock" => StockInv
    /\ focus = "settlements" => ShiftInv
    /\ focus = "commissions" => DuesInv
    /\ focus = "occurrences" => LossInv
    /\ focus = "reconciliation" => CardInv
    /\ focus = "allocations" => BillInv
    /\ focus = "intake" => EntryInv /\ LeaseInv
    /\ focus = "club" => ClubInv
    /\ focus = "dividing" => DividingInv

\* What the constants are, for each component.
LEMMA ConstantsAre ==
    /\ StockAssumed
    /\ None \notin AccrualNames
    /\ None \notin Events
    /\ Divisible /\ Banded
  BY FiniteAssumption, CountedAssumption, PlacesAssumption, MissingAssumption, DividedAssumption, BandsAssumption
     DEF StockAssumed, AccrualNames, Divisible, Banded

\* The invariant of the component in focus holds initially,
LEMMA FocusInvStarts == OfficeInit => FocusInv
  BY FocusStarts, ConstantsAre, StockBegins, ShiftStarts, DuesStart, LossStarts, CardsStart, BillStarts, EntryStarts,
     ClubStarts, DividingStarts, FiniteAssumption, CountedAssumption, MissingAssumption DEF FocusInv

\* and every step keeps it.
LEMMA FocusInvInductive == FocusInv /\ [OfficeNext]_officeVars => FocusInv'
  <1> SUFFICES ASSUME FocusInv, [OfficeNext]_officeVars PROVE FocusInv'
    OBVIOUS
  <1>1. focus' = focus
    BY FocusStays
  <1>2. /\ focus = "stock" => StockInv'
        /\ focus = "settlements" => ShiftInv'
        /\ focus = "commissions" => DuesInv'
        /\ focus = "occurrences" => LossInv'
    BY FocusMoves, ConstantsAre, StockSteps, ShiftInductive, DuesInductive, LossInductive, FiniteAssumption,
       CountedAssumption, PartiesAssumption, MissingAssumption DEF FocusInv
  <1>3. /\ focus = "reconciliation" => CardInv'
        /\ focus = "allocations" => BillInv'
        /\ focus = "intake" => EntryInv' /\ LeaseInv'
        /\ focus = "club" => ClubInv'
        /\ focus = "dividing" => DividingInv'
    BY FocusMoves, ConstantsAre, CardStep, BillStep, EntryStep, LeaseStep, ClubStep, DividingInductive,
       FiniteAssumption, CountedAssumption, MissingAssumption DEF FocusInv
  <1> QED
    BY <1>1, <1>2, <1>3 DEF FocusInv

\* A behaviour of the composition is one of the drawer, which rests outside its
\* focus, so that what is proved of the drawer holds there too.
THEOREM OfficeIsDrawer == OfficeSpec => Spec
  BY FocusStarts, FocusMoves, PTL DEF OfficeSpec, Spec

\* While no cash is taken without an open session, nor refunded before it is
\* handed over, closeCashSession counts what belongs to its session, each once,
\* and no request that was in flight writes into what it closed, in the
\* composition as in the drawer.
THEOREM DrawerHolds == ASSUME Strays = FALSE PROVE OfficeSpec => []ClosedTally /\ ClosedIsFinal
  <1>1. Spec => []ClosedTally
    BY ClosedSessionsTally, Zenon
  <1>2. Spec => ClosedIsFinal
    BY ClosedSessionsStay, Zenon
  <1> QED
    BY OfficeIsDrawer, <1>1, <1>2

\* Transfers, sales, doses and counts move stock once, and no two transactions
\* spend the same stock.
THEOREM StockHolds == OfficeSpec => []StockAddsUp
  <1>1. FocusInv => StockAddsUp
    BY ConstantsAre, StockPropertiesAre DEF FocusInv, StockInv, StockAddsUp
  <1> QED
    BY <1>1, FocusInvStarts, FocusInvInductive, PTL DEF OfficeSpec

\* Nothing is paid, recovered, entered, told, recorded or charged twice, by
\* handlers that read before they lock, whose requests repeat and of which
\* every one may fail between two of its steps.
THEOREM DoneOnceHolds == OfficeSpec => []DoneOnce
  <1>1. FocusInv => DoneOnce
    <2> SUFFICES ASSUME FocusInv PROVE DoneOnce
      OBVIOUS
    <2>1. focus = "commissions" => Dues!PeriodPaidOnce
      BY ConstantsAre, DuesPaidOnce, FiniteAssumption, CountedAssumption DEF FocusInv
    <2>2. focus = "occurrences" => Losses!LossesFit
      BY LossFits, FiniteAssumption, CountedAssumption, MissingAssumption DEF FocusInv
    <2>3. focus = "intake" => Mail!EnteredOnce /\ Mail!HoldersLeased
      BY EntryAgrees, FiniteAssumption DEF FocusInv
    <2>4. focus = "club" => Club!AcceptedIsQueued
      BY ClubQueued, MissingAssumption DEF FocusInv
    <2>5. focus = "reconciliation" => Cards!FilesAgree
      BY CardsAgree DEF FocusInv
    <2>6. focus = "allocations" => Bill!ItemsNotOverpaid
      BY DEF FocusInv, BillInv
    <2> QED
      BY <2>1, <2>2, <2>3, <2>4, <2>5, <2>6 DEF DoneOnce
  <1> QED
    BY <1>1, FocusInvStarts, FocusInvInductive, PTL DEF OfficeSpec

\* No cent is lost, invented or counted twice, whatever is divided among whom.
THEOREM CentsHold == OfficeSpec => []CentsExact
  <1>1. FocusInv => CentsExact
    BY ConstantsAre, CentsAgree DEF FocusInv, CentsExact
  <1> QED
    BY <1>1, FocusInvStarts, FocusInvInductive, PTL DEF OfficeSpec

\* A shift closes on the newest calculation, a row of a card statement is
\* settled as what it still is and a charge is for items that are on the bill,
\* although each was read before it was locked.
THEOREM NewestHolds == OfficeSpec => ActsOnNewest
  <1>1. FocusInv /\ [OfficeNext]_officeVars =>
            [/\ focus = "settlements" => Shift!ClosesOnNewest
             /\ focus = "reconciliation" => Cards!PreviousIsTrue
             /\ focus = "allocations" => Bill!OnOpenItems]_officeVars
    <2> SUFFICES ASSUME FocusInv, OfficeNext
                 PROVE  \/ /\ focus = "settlements" => Shift!ClosesOnNewest
                           /\ focus = "reconciliation" => Cards!PreviousIsTrue
                           /\ focus = "allocations" => Bill!OnOpenItems
                        \/ UNCHANGED officeVars
      OBVIOUS
    <2>1. focus = "settlements" => Shift!ClosesOnNewest
      BY FocusMoves, ShiftClosesLast DEF FocusInv
    <2>2. focus = "reconciliation" => Cards!PreviousIsTrue
      BY FocusMoves, CardStep DEF FocusInv
    <2>3. focus = "allocations" => Bill!OnOpenItems
      <3>1. focus = "allocations" => [Bill!OnOpenItems]_Bill!allocationVars
        BY FocusMoves, BillStep, FiniteAssumption, CountedAssumption, MissingAssumption DEF FocusInv
      <3>2. UNCHANGED Bill!allocationVars => Bill!OnOpenItems
        BY DEF Bill!allocationVars, Bill!OnOpenItems, Bill!Registered
      <3> QED
        BY <3>1, <3>2
    <2> QED
      BY <2>1, <2>2, <2>3
  <1> QED
    BY <1>1, FocusInvStarts, FocusInvInductive, PTL DEF OfficeSpec, ActsOnNewest
=============================================================================
