----------------------------- MODULE Onboarding ------------------------------
(***************************************************************************)
(* The steps of a branch's onboarding (onboarding.service.ts): opening it  *)
(* inserts the steps that are missing, one read and one insert each; a     *)
(* person sets a step, by a read and an update or an insert; what is shown *)
(* joins the steps with a count of what was set up.                        *)
(***************************************************************************)
EXTENDS Naturals, FiniteSets

CONSTANTS
    Keys,           \* steps that are looked at
    Statuses,       \* statuses a person gives
    Calls,
    None

VARIABLES
    step,           \* per key: None or the status of its row
    there,          \* the kinds of rows that were set up
    call            \* the requests in flight

onboardingVars == <<step, there, call>>
-----------------------------------------------------------------------------
Skippable == {"printer_setup", "qr_menu_setup", "test_order"}

\* Complete from the start, and what nothing but a person completes.
Granted == {"business_profile", "cash_setup"}
ByHand == {"test_order", "first_shift_ready"}

\* The rows that complete a step, and those whose absence blocks the branch.
Completing(k) ==
    CASE k = "branch_setup" -> {"branches"}
      [] k = "team_roles" -> {"users", "roles"}
      [] k = "tables_setup" -> {"tables"}
      [] k = "catalog_setup" -> {"products", "categories"}
      [] k = "printer_setup" -> {"printers"}
      [] k = "qr_menu_setup" -> {"products"}
      [] OTHER -> {}

Needed(k) ==
    IF k \in {"branch_setup", "team_roles", "tables_setup", "catalog_setup"}
    THEN Completing(k) \ {"roles", "categories"} ELSE {}

Rows == UNION {Completing(k) : k \in Keys}

Idle == [at |-> "idle", key |-> None, status |-> None, found |-> FALSE]
-----------------------------------------------------------------------------
\* ensureDefaultSteps: the steps that are missing are inserted as pending.
ReadDefault(c, k) ==
    /\ call[c] = Idle /\ step[k] = None
    /\ call' = [call EXCEPT ![c] = [at |-> "insert", key |-> k, status |-> "pending", found |-> FALSE]]
    /\ UNCHANGED <<step, there>>

\* updateStep
ReadStep(c, k, status) ==
    /\ call[c] = Idle
    /\ status = "skipped" => k \in Skippable
    /\ call' = [call EXCEPT ![c] =
          [at |-> IF step[k] = None THEN "insert" ELSE "update", key |-> k, status |-> status, found |-> step[k] # None]]
    /\ UNCHANGED <<step, there>>

\* Mutant: an insert that meets a row replaces it.
AlwaysFree(k) == TRUE

\* onboarding_steps_tenant_branch_key_idx
RowFree(k) == step[k] = None

\* The insert that comes second fails, and its request with it.
InsertStep(c) ==
    LET k == call[c].key
    IN  /\ call[c].at = "insert"
        /\ step' = IF RowFree(k) THEN [step EXCEPT ![k] = call[c].status] ELSE step
        /\ call' = [call EXCEPT ![c] = Idle]
        /\ UNCHANGED there

UpdateStep(c) ==
    /\ call[c].at = "update"
    /\ step' = [step EXCEPT ![call[c].key] = call[c].status]
    /\ call' = [call EXCEPT ![c] = Idle]
    /\ UNCHANGED there

Fail(c) ==
    /\ call[c] # Idle
    /\ call' = [call EXCEPT ![c] = Idle]
    /\ UNCHANGED <<step, there>>

\* Tables, products, printers and people come and go.
Change(r) ==
    /\ there' = IF r \in there THEN there \ {r} ELSE there \cup {r}
    /\ UNCHANGED <<step, call>>
-----------------------------------------------------------------------------
\* buildStatus
AutoDone(k) == k \in Granted \/ (k \notin ByHand /\ Completing(k) \subseteq there)

Shown(k) ==
    IF step[k] \in {"skipped", "blocked", "in_progress"} THEN step[k]
    ELSE IF AutoDone(k) THEN "completed"
    ELSE IF step[k] = None THEN "pending" ELSE step[k]

Blockers == {k \in Keys : ~(Needed(k) \subseteq there)}

RequiredReady == \A k \in Keys \ (Skippable \cup {"first_shift_ready"}) : Shown(k) = "completed"

Readiness ==
    IF RequiredReady /\ Blockers = {} THEN "ready"
    ELSE IF Blockers # {} THEN "blocked" ELSE "in_progress"

Progress == Cardinality({k \in Keys : Shown(k) \in {"completed", "skipped"}})
-----------------------------------------------------------------------------
Init ==
    /\ step = [k \in Keys |-> None]
    /\ there = {}
    /\ call = [c \in Calls |-> Idle]

Next ==
    \/ \E c \in Calls : \/ \E k \in Keys : \/ ReadDefault(c, k)
                                           \/ \E status \in Statuses : ReadStep(c, k, status)
                        \/ InsertStep(c) \/ UpdateStep(c) \/ Fail(c)
    \/ \E r \in Rows : Change(r)

Spec == Init /\ [][Next]_onboardingVars
-----------------------------------------------------------------------------
(*                               Properties                                *)

TypeOK ==
    /\ step \in [Keys -> Statuses \cup {"pending", None}]
    /\ there \subseteq Rows
    /\ \A c \in Calls : call[c].at \in {"idle", "insert", "update"}

\* What a person set is not undone by a page that opens meanwhile: a row
\* changes only by an update of a request that saw it.
StepsKept ==
    \A k \in Keys : step[k] # None /\ step'[k] # step[k] =>
        \E c \in Calls : call[c].found /\ call[c].key = k /\ call[c].status = step'[k]

\* Whatever was marked by hand, what is set up brings a branch forward: more
\* rows never lower its progress, nor take its readiness away.
SetupHelps ==
    there \subseteq there' /\ step' = step =>
        /\ Progress <= Progress'
        /\ Readiness = "ready" => Readiness' = "ready"
=============================================================================
