---------------------------- MODULE FiscalSetup ----------------------------
(***************************************************************************)
(* How a branch comes to issue fiscal documents: its settings, from the    *)
(* start of FiscalOnboardingService to production, the certificate of      *)
(* CertificateService, and the metering of use in FiscalService.           *)
(*                                                                         *)
(* Some changes name the version they expect, some count it, some do       *)
(* neither.  Only updateUsageSettings holds the row while it computes.     *)
(***************************************************************************)
EXTENDS Integers

CONSTANTS
    Allowances,     \* documents per month, and per cent at which to warn
    Percents,
    Calls,          \* requests in flight
    MaxVersion,     \* bound: versions of the settings
    MaxIssued,      \* documents of a month that the alerts are compared for
    None

VARIABLES
    fiscal,         \* the fiscal_settings row
    accepted,       \* changes that counted the version (not in the code)
    filing          \* the requests in flight

fiscalVars == <<fiscal, accepted, filing>>
-----------------------------------------------------------------------------
Meterings == [allowance : Allowances, percent : Percents]

Unfiled ==
    [exists |-> FALSE, provider |-> "mock", status |-> "disabled", stage |-> "not_started",
     environment |-> "homologation", certificate |-> None, simulator |-> FALSE, enabled |-> FALSE,
     profile |-> FALSE, metering |-> None, version |-> 1]

Idle == [at |-> "idle", seen |-> 0, row |-> None, metering |-> None]

Begin(c, call) == filing[c] = Idle /\ filing' = [filing EXCEPT ![c] = call]
End(c) == filing' = [filing EXCEPT ![c] = Idle]

\* Nobody holds the row FOR UPDATE.
RowFree == \A c \in Calls : filing[c].at # "usage"

\* An update of whatever row there is.
Update(row) == fiscal.exists /\ RowFree /\ fiscal' = row

Counted(row) == [row EXCEPT !.version = fiscal.version + 1]
-----------------------------------------------------------------------------
\* start inserts the row, or names the provider of the one there is.
Start ==
    /\ RowFree
    /\ fiscal' = IF fiscal.exists THEN [fiscal EXCEPT !.provider = "focus_nfe"]
                 ELSE [Unfiled EXCEPT !.exists = TRUE, !.provider = "focus_nfe", !.stage = "company_data"]
    /\ UNCHANGED <<accepted, filing>>

\* upsertSettings replaces the whole config, tax profile and metering with it.
UpsertSettings(status, metering) ==
    /\ RowFree
    /\ fiscal' = [fiscal EXCEPT !.exists = TRUE, !.provider = "focus_nfe", !.status = status,
                                !.environment = "homologation", !.profile = FALSE, !.metering = metering]
    /\ UNCHANGED <<accepted, filing>>

\* get: the form of updateCompany, updateTaxProfile or enableProduction.
LoadForm(c) ==
    /\ fiscal.exists
    /\ Begin(c, [Idle EXCEPT !.at = "form", !.seen = fiscal.version])
    /\ UNCHANGED <<fiscal, accepted>>

\* Mutant: the update names the row only.
AnyVersion(seen) == TRUE

Expected(seen) == fiscal.version = seen

\* The end of an update that expects a version: it is refused, or counts.
Settle(c, row) ==
    /\ RowFree /\ filing[c].seen < MaxVersion
    /\ IF Expected(filing[c].seen)
       THEN fiscal' = [row EXCEPT !.version = filing[c].seen + 1] /\ accepted' = accepted + 1
       ELSE UNCHANGED <<fiscal, accepted>>
    /\ End(c)

UpdateCompany(c) ==
    /\ filing[c].at = "form"
    /\ Settle(c, [fiscal EXCEPT !.stage = "accountant_review"])

\* updateTaxProfile reads the config and writes it back with the profile,
ReadTaxProfile(c) ==
    /\ filing[c].at = "form"
    /\ filing' = [filing EXCEPT ![c].at = "profile", ![c].metering = fiscal.metering]
    /\ UNCHANGED <<fiscal, accepted>>

WriteTaxProfile(c) ==
    /\ filing[c].at = "profile"
    /\ Settle(c, [fiscal EXCEPT !.profile = TRUE, !.metering = filing[c].metering, !.stage = "provider_validation"])

\* enableProduction looks at the certificate, and then asks for the stage
\* and the version.  The credential is not written by this program.
ReadProduction(c) ==
    /\ filing[c].at = "form"
    /\ fiscal.certificate = "provider_accepted" /\ ~fiscal.simulator
    /\ filing' = [filing EXCEPT ![c].at = "production"]
    /\ UNCHANGED <<fiscal, accepted>>

EnableProduction(c) ==
    /\ filing[c].at = "production"
    /\ IF fiscal.provider = "focus_nfe" /\ fiscal.stage = "ready_for_production"
       THEN Settle(c, [fiscal EXCEPT !.environment = "production", !.status = "enabled", !.enabled = TRUE])
       ELSE End(c) /\ UNCHANGED <<fiscal, accepted>>

DisableProduction ==
    /\ fiscal.version < MaxVersion
    /\ Update(Counted([fiscal EXCEPT !.environment = "homologation", !.status = "disabled", !.enabled = FALSE]))
    /\ accepted' = accepted + 1
    /\ UNCHANGED filing

\* The simulator, outside production: registerSimulator, runHomologation
\* and the certificate, which starts the validation again.
RegisterSimulator ==
    /\ Update([fiscal EXCEPT !.status = "enabled", !.environment = "homologation", !.simulator = TRUE,
                             !.stage = "homologation"])
    /\ UNCHANGED <<accepted, filing>>

RunHomologation(passed) ==
    /\ Update([fiscal EXCEPT !.stage = IF passed THEN "ready_for_production" ELSE "action_required"])
    /\ UNCHANGED <<accepted, filing>>

UploadCertificate ==
    /\ Update([fiscal EXCEPT !.certificate = "simulator_accepted", !.stage = "provider_validation"])
    /\ UNCHANGED <<accepted, filing>>

\* What enableProduction waits for: nothing in the program writes it.
AcceptCertificate ==
    /\ fiscal.certificate # None
    /\ Update([fiscal EXCEPT !.certificate = "provider_accepted"])
    /\ UNCHANGED <<accepted, filing>>
-----------------------------------------------------------------------------
(*                                 Metering                                *)

\* updateUsageSettings holds the row it read; a row there is not yet is
\* held by nobody, and the second insert is refused.
ReadUsage(c, metering) ==
    /\ RowFree
    /\ Begin(c, [Idle EXCEPT !.at = IF fiscal.exists THEN "usage" ELSE "first", !.row = fiscal, !.metering = metering])
    /\ UNCHANGED <<fiscal, accepted>>

WriteUsage(c) ==
    LET row == filing[c].row
    IN  /\ \/ /\ filing[c].at = "usage" /\ row.version < MaxVersion
              /\ fiscal' = [fiscal EXCEPT !.metering = filing[c].metering, !.profile = row.profile,
                                          !.version = row.version + 1]
              /\ accepted' = accepted + 1
           \/ /\ filing[c].at = "first" /\ ~fiscal.exists
              /\ fiscal' = [Unfiled EXCEPT !.exists = TRUE, !.metering = filing[c].metering]
              /\ UNCHANGED accepted
           \/ filing[c].at = "first" /\ fiscal.exists /\ UNCHANGED <<fiscal, accepted>>
        /\ End(c)

\* getUsage: what is said of n documents.
Threshold(m) == LET t == (m.allowance * m.percent + 99) \div 100 IN IF t < 1 THEN 1 ELSE t

Alert(n, m) ==
    CASE m = None -> "not_configured"
      [] m # None /\ n > m.allowance -> "exceeded"
      [] m # None /\ n <= m.allowance /\ n >= Threshold(m) -> "approaching"
      [] OTHER -> "ok"
-----------------------------------------------------------------------------
Init ==
    /\ fiscal = Unfiled /\ accepted = 0
    /\ filing = [c \in Calls |-> Idle]

Next ==
    \/ Start
    \/ \E s \in {"enabled", "disabled"}, m \in Meterings \cup {None} : UpsertSettings(s, m)
    \/ DisableProduction \/ RegisterSimulator \/ UploadCertificate \/ AcceptCertificate
    \/ \E passed \in BOOLEAN : RunHomologation(passed)
    \/ \E c \in Calls :
          \/ LoadForm(c) \/ UpdateCompany(c)
          \/ ReadTaxProfile(c) \/ WriteTaxProfile(c)
          \/ ReadProduction(c) \/ EnableProduction(c)
          \/ \E m \in Meterings : ReadUsage(c, m)
          \/ WriteUsage(c)

Spec == Init /\ [][Next]_fiscalVars
-----------------------------------------------------------------------------
(*                               Properties                                *)

TypeOK ==
    /\ fiscal.provider \in {"mock", "focus_nfe"} /\ fiscal.status \in {"disabled", "enabled"}
    /\ fiscal.environment \in {"homologation", "production"}
    /\ fiscal.certificate \in {None, "simulator_accepted", "provider_accepted"}
    /\ fiscal.metering \in Meterings \cup {None} /\ fiscal.version \in 1..MaxVersion

\* Every change that counts the version has one of its own: of two that
\* expected the same one, or that met, none was lost.
EachChangeCounts == fiscal.version = accepted + 1

\* A branch is in production only as long as it was enabled for it.
ProductionEnabled == fiscal.environment = "production" => fiscal.enabled

\* While nothing else is said of them, documents only bring the limit
\* nearer: no alert is taken back by issuing one more.
Urgency == [ok |-> 0, not_configured |-> 0, approaching |-> 1, exceeded |-> 2]

AlertsGrow ==
    \A n \in 1..MaxIssued : Urgency[Alert(n - 1, fiscal.metering)] <= Urgency[Alert(n, fiscal.metering)]
=============================================================================
