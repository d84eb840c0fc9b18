-------------------------- MODULE MCAdministration --------------------------
(***************************************************************************)
(* What is administered around the service of a branch, in one run: its    *)
(* fiscal documents (FiscalQueue), the Members of its tenant, its Tenancy, *)
(* Handoffs and Onboarding, the Backups, its Connectors, its BranchSetup   *)
(* (devices, and payment settings), its GuestPages, its FiscalSetup and    *)
(* its Reports.  They share no state, so each behaviour follows one of     *)
(* them, its focus, and the others stay.                                   *)
(***************************************************************************)
EXTENDS MCFiscalQueue

CONSTANTS
    Calls,                                      \* requests in flight, of any component
    Emails, Roles, Invitations, MaxSent,        \* Members
    Purchases, Notes, Brands, MaxChanges,       \* Tenancy
    Tokens,                                     \* Handoffs
    Steps,                                      \* Onboarding
    Dumps,                                      \* Backups
    Branches, MaxKeys, MaxVersion,              \* Connectors
    Devices, Printers, Categories, DeviceModes, \* BranchSetup: devices,
    FormDevices, FormPrinters, Modes,           \* forms of the payment settings
    Fields, Values, PageTables, PageModes,      \* GuestPages: pages,
    MaxRevisions, MaxTime,
    Tables, LinkModes, LinkValues,              \* links
    LinkRevisions, MaxLinks, LinkTime,
    Allowances, Percents, MaxIssued,            \* FiscalSetup
    Orders, Price, MaxPayments                  \* Reports

VARIABLES
    focus,
    role, invitation, user, grant, asked,
    settings, intent, subscription, created, changes, duty,
    entitlement, handoff, admitted, exchange,
    step, there, opening,
    dump, metadata, old, restored, copying,
    account, issued, retired, visit,
    device, printer, route, payment, entitled, saved, chore,
    page, revision, link, clock, edit,
    fiscal, accepted, filing,
    order, charge

members == <<role, invitation, user, grant, asked>>
tenancies == <<settings, intent, subscription, created, changes, duty>>
handoffs == <<entitlement, handoff, admitted, exchange>>
onboardings == <<step, there, opening>>
backups == <<dump, metadata, old, restored, copying>>
connectors == <<account, issued, retired, visit>>
setups == <<device, printer, route, payment, entitled, saved, chore>>
pages == <<page, revision, link, clock, edit>>
filings == <<fiscal, accepted, filing>>
reports == <<order, charge>>

platform == <<members, tenancies, handoffs, onboardings, backups>>
branch == <<connectors, setups, pages, filings, reports>>

administrationVars == <<focus, vars, platform, branch>>

\* Passes and requests are interchangeable.
AdministrationSymmetry == RunSymmetry \cup Permutations(Calls)

\* An order of two items and one of one.
TwoAndOne == <<<<2, 1>>, <<1>>>>
-----------------------------------------------------------------------------
Joining == INSTANCE Members

Buying == INSTANCE Tenancy WITH Keys <- Purchases

Handing == INSTANCE Handoffs WITH Handoffs <- Tokens, Visits <- Calls, visit <- exchange

\* The statuses that a person may give a step.
Starting == INSTANCE Onboarding WITH
    Keys <- Steps, Statuses <- {"pending", "in_progress", "completed", "skipped"}, call <- opening

Copying == INSTANCE Backups WITH Backups <- Dumps, Jobs <- Calls, job <- copying

Connecting == INSTANCE Connectors

\* The devices, printers and routes of a branch, or its payment settings.
Equipping == INSTANCE BranchSetup WITH Modes <- DeviceModes

Configuring == INSTANCE BranchSetup WITH Devices <- FormDevices, Printers <- FormPrinters

\* The revisions of the pages, or the links of the tables.
Drafting == INSTANCE GuestPages WITH Tables <- PageTables, Modes <- PageModes

Linking == INSTANCE GuestPages WITH
    Modes <- LinkModes, Values <- LinkValues, MaxRevisions <- LinkRevisions, MaxTime <- LinkTime

Filing == INSTANCE FiscalSetup

Reporting == INSTANCE Reports WITH payment <- charge
-----------------------------------------------------------------------------
\* None stands for what is missing: it is no name, and no row.
ASSUME MissingAssumption ==
    /\ None \notin Int
    /\ None \notin Tokens /\ None \notin Dumps /\ None \notin Roles
    /\ None \notin [expired : BOOLEAN, consumed : BOOLEAN]
    /\ None \notin [checksum : Copying!Checksums, validated : BOOLEAN]

\* The steps of the onboarding are a list.
ASSUME StepsAssumption == IsFiniteSet(Steps)

\* Time is counted.
ASSUME TimeAssumption == MaxTime \in Nat

\* Documents are counted, and so is what a plan allows.
ASSUME MeteringAssumption == Allowances \subseteq Nat /\ Percents \subseteq Nat /\ MaxIssued \in Nat

-----------------------------------------------------------------------------
NoMembers == role = None /\ invitation = None /\ user = None /\ grant = None /\ asked = None
NoTenancies ==
    /\ settings = None /\ intent = None /\ subscription = None
    /\ created = None /\ changes = None /\ duty = None
NoHandoffs == entitlement = None /\ handoff = None /\ admitted = None /\ exchange = None
NoOnboardings == step = None /\ there = None /\ opening = None
NoBackups == dump = None /\ metadata = None /\ old = None /\ restored = None /\ copying = None
NoConnectors == account = None /\ issued = None /\ retired = None /\ visit = None
NoSetups ==
    /\ device = None /\ printer = None /\ route = None /\ payment = None
    /\ entitled = None /\ saved = None /\ chore = None
NoPages == page = None /\ revision = None /\ link = None /\ clock = None /\ edit = None
NoFilings == fiscal = None /\ accepted = None /\ filing = None
NoReports == order = None /\ charge = None

Foci == {"fiscal", "members", "tenancy", "handoffs", "onboarding", "backups", "connectors", "devices",
         "payments", "pages", "links", "fiscalSetup", "reports"}

\* The component in focus starts; of the others there is nothing, and no
\* fiscal document is asked for.
AdministrationInit ==
    /\ Init
    /\ focus \in Foci
    /\ focus # "fiscal" => scenario = [d \in Docs |-> "authorized"]
    /\ CASE focus = "members" -> Joining!Init [] OTHER -> NoMembers
    /\ CASE focus = "tenancy" -> Buying!Init [] OTHER -> NoTenancies
    /\ CASE focus = "handoffs" -> Handing!Init [] OTHER -> NoHandoffs
    /\ CASE focus = "onboarding" -> Starting!Init [] OTHER -> NoOnboardings
    /\ CASE focus = "backups" -> Copying!Init [] OTHER -> NoBackups
    /\ CASE focus = "connectors" -> Connecting!Init [] OTHER -> NoConnectors
    /\ CASE focus = "devices" -> Equipping!Init [] focus = "payments" -> Configuring!Init [] OTHER -> NoSetups
    /\ CASE focus = "pages" -> Drafting!Init [] focus = "links" -> Linking!Init [] OTHER -> NoPages
    /\ CASE focus = "fiscalSetup" -> Filing!Init [] OTHER -> NoFilings
    /\ CASE focus = "reports" -> Reporting!Init [] OTHER -> NoReports

PlatformNext ==
    \/ focus = "members" /\ Joining!Next /\ UNCHANGED <<tenancies, handoffs, onboardings, backups>>
    \/ focus = "tenancy" /\ Buying!Next /\ UNCHANGED <<members, handoffs, onboardings, backups>>
    \/ focus = "handoffs" /\ Handing!Next /\ UNCHANGED <<members, tenancies, onboardings, backups>>
    \/ focus = "onboarding" /\ Starting!Next /\ UNCHANGED <<members, tenancies, handoffs, backups>>
    \/ focus = "backups" /\ Copying!Next /\ UNCHANGED <<members, tenancies, handoffs, onboardings>>

BranchNext ==
    \/ focus = "connectors" /\ Connecting!Next /\ UNCHANGED <<setups, pages, filings, reports>>
    \/ focus = "devices" /\ Equipping!Next /\ UNCHANGED <<connectors, pages, filings, reports>>
    \/ focus = "payments" /\ Configuring!Next /\ UNCHANGED <<connectors, pages, filings, reports>>
    \/ focus = "pages" /\ Drafting!Next /\ UNCHANGED <<connectors, setups, filings, reports>>
    \/ focus = "links" /\ Linking!Next /\ UNCHANGED <<connectors, setups, filings, reports>>
    \/ focus = "fiscalSetup" /\ Filing!Next /\ UNCHANGED <<connectors, setups, pages, reports>>
    \/ focus = "reports" /\ Reporting!Next /\ UNCHANGED <<connectors, setups, pages, filings>>

AdministrationNext ==
    /\ UNCHANGED focus
    /\ \/ focus = "fiscal" /\ Next /\ UNCHANGED <<platform, branch>>
       \/ PlatformNext /\ UNCHANGED <<vars, branch>>
       \/ BranchNext /\ UNCHANGED <<vars, platform>>

AdministrationSpec == AdministrationInit /\ [][AdministrationNext]_administrationVars
-----------------------------------------------------------------------------
\* Every variable of the component in focus has its type.
AdministrationTypeOK ==
    CASE focus = "fiscal" -> TypeOK
      [] focus = "members" -> Joining!TypeOK
      [] focus = "tenancy" -> Buying!TypeOK
      [] focus = "handoffs" -> Handing!TypeOK
      [] focus = "onboarding" -> Starting!TypeOK
      [] focus = "backups" -> Copying!TypeOK
      [] focus = "connectors" -> Connecting!TypeOK
      [] focus = "devices" -> Equipping!TypeOK
      [] focus = "payments" -> Configuring!TypeOK
      [] focus = "pages" -> Drafting!TypeOK
      [] focus = "links" -> Linking!TypeOK
      [] focus = "fiscalSetup" -> Filing!TypeOK
      [] focus = "reports" -> Reporting!TypeOK

\* An invitation is accepted once and its role is there (Members); a
\* purchase has one checkout, which it knows (Tenancy); a handoff admits once
\* (Handoffs); what is restored was complete (Backups); every change of the
\* payment settings that was accepted has its version (BranchSetup), and so
\* has every one of the fiscal settings that counts it (FiscalSetup), whose
\* production was enabled and whose alerts grow with the documents; the
\* hash of a link opens its table (GuestPages).
RecordsAgree ==
    /\ focus = "members" => Joining!AcceptedOnce /\ Joining!RolesExist
    /\ focus = "tenancy" => Buying!OneCheckout
    /\ focus = "handoffs" => Handing!AdmittedOnce
    /\ focus = "backups" => Copying!RestoredWasComplete
    /\ focus = "payments" => Configuring!EachSaveCounts
    /\ focus = "fiscalSetup" => Filing!EachChangeCounts /\ Filing!ProductionEnabled /\ Filing!AlertsGrow
    /\ focus = "links" => Linking!HashIsCurrent

\* A key that was taken away opens nothing again, a club integration that
\* was revoked is configured first (Connectors), a device that was revoked
\* stays so (BranchSetup), a revision of the pages stays what it was and none
\* is activated before its time (GuestPages), a step that a person set is not
\* undone and what is set up brings a branch forward (Onboarding).
HistoryHolds ==
    [][/\ focus = "connectors" => Connecting!KeysStayRetired' /\ Connecting!RevokedIsConfiguredFirst
       /\ focus = "devices" => Equipping!RevokedStays
       /\ focus = "onboarding" => Starting!StepsKept /\ Starting!SetupHelps
       /\ focus = "pages" => Drafting!RevisionsKept /\ Drafting!NotBeforeItsTime]_administrationVars

\* Disagrees with the code: refunds compensate their charges (Reports).
RefundsCompensate == focus = "reports" => Reporting!RefundsCompensate
=============================================================================
