----------------------------- MODULE GuestPages -----------------------------
(***************************************************************************)
(* What guests see after scanning the code of a table (qr.service.ts): the *)
(* settings of the branch, the revisions of its pages, which are drafted,  *)
(* scheduled, published and rolled back, and the links of its tables.      *)
(*                                                                         *)
(* Nothing is read FOR UPDATE.  A transaction is a step in which it reads  *)
(* and one in which it commits; a row that another transaction holds is    *)
(* waited for and looked at again, so the conditions of an update count    *)
(* when it commits, the rows it chose when it started.                     *)
(***************************************************************************)
EXTENDS Naturals, FiniteSetsExt

CONSTANTS
    Tables,
    Modes,          \* how guests are served, "disabled" among them
    Fields, Values, \* what a page is made of
    Calls,          \* requests in flight
    MaxRevisions, MaxLinks, MaxTime,    \* bounds
    None

VARIABLES
    page,           \* the qr_branch_settings row
    revision,       \* the guest_experience_configs rows, by version
    link,           \* per table: version and hash of its token, its service session
    clock,
    edit            \* the requests in flight

pageVars == <<page, revision, link, clock, edit>>
-----------------------------------------------------------------------------
Versions == 1..MaxRevisions

Never == MaxTime + 1

Pages == [Fields -> Values]

Given == [Fields -> Values \cup {None}]

Absent == [status |-> "absent", config |-> None, due |-> Never]

Quiet == [at |-> "quiet", target |-> 0, latest |-> 0, published |-> {}, config |-> None,
          due |-> Never, table |-> None]

Begin(c, call) == edit[c] = Quiet /\ edit' = [edit EXCEPT ![c] = call]

End(c) == edit' = [edit EXCEPT ![c] = Quiet]

\* mergeExperienceSettings: a field that is not given keeps its value.
Merged(base, given) == [f \in Fields |-> IF given[f] = None THEN base[f] ELSE given[f]]

HasStatus(s) == {v \in Versions : revision[v].status = s}

Latest == Max({0} \cup (Versions \ HasStatus("absent")))

\* settingsForBranch: the published revision of the highest version, over
\* the settings.
Shown ==
    LET published == HasStatus("published")
    IN  IF published = {} THEN page.config ELSE Merged(page.config, revision[Max(published)].config)

Due(v, now) == revision[v].status = "draft" /\ revision[v].due <= now
-----------------------------------------------------------------------------
\* updateSettings, and afterwards the sessions end if it switched them off.
UpdateSettings(c, mode, given) ==
    /\ page' = [mode |-> mode, config |-> Merged(page.config, given)]
    /\ IF mode = "disabled" THEN Begin(c, [Quiet EXCEPT !.at = "revoke"]) ELSE UNCHANGED edit
    /\ UNCHANGED <<revision, link, clock>>

\* revokeBranchServiceSessions
RevokeSessions(c) ==
    /\ edit[c].at = "revoke"
    /\ link' = [t \in Tables |-> [link[t] EXCEPT !.session = FALSE]]
    /\ End(c)
    /\ UNCHANGED <<page, revision, clock>>

\* createExperienceDraft: the page as it is shown with what is given, ...
StartDraft(c, given, due) ==
    /\ due > clock
    /\ Begin(c, [Quiet EXCEPT !.at = "draft", !.config = Merged(Shown, given), !.due = due])
    /\ UNCHANGED <<page, revision, link, clock>>

\* ... the version after the latest, ...
NumberDraft(c) ==
    /\ edit[c].at = "draft" /\ Latest < MaxRevisions
    /\ edit' = [edit EXCEPT ![c].at = "insert", ![c].latest = Latest]
    /\ UNCHANGED <<page, revision, link, clock>>

\* Mutant: there is no unique index of branch and version.
VersionAssumed(v) == TRUE

VersionFree(v) == revision[v] = Absent

\* ... which must not have been taken meanwhile.
InsertDraft(c) ==
    LET e == edit[c]
        v == e.latest + 1
    IN  /\ e.at = "insert"
        /\ revision' = IF VersionFree(v)
                       THEN [revision EXCEPT ![v] = [status |-> "draft", config |-> e.config, due |-> e.due]]
                       ELSE revision
        /\ End(c)
        /\ UNCHANGED <<page, link, clock>>

\* scheduleExperience
ReadSchedule(c, v, due) ==
    /\ due \in clock + 1 .. MaxTime /\ revision[v].status = "draft"
    /\ Begin(c, [Quiet EXCEPT !.at = "schedule", !.target = v, !.due = due])
    /\ UNCHANGED <<page, revision, link, clock>>

WriteSchedule(c) ==
    LET v == edit[c].target
    IN  /\ edit[c].at = "schedule"
        /\ revision' = IF revision[v].status = "draft" THEN [revision EXCEPT ![v].due = edit[c].due] ELSE revision
        /\ End(c)
        /\ UNCHANGED <<page, link, clock>>

\* The published revisions that a transaction saw, if they still are.
Archived(seen) ==
    [v \in Versions |-> IF v \in seen /\ revision[v].status = "published"
                        THEN [revision[v] EXCEPT !.status = "archived"] ELSE revision[v]]

\* publishExperience and rollbackExperience: any revision is published, one
\* that is not a draft is rolled back to.
ReadTarget(c, v, at) ==
    /\ revision[v].status # "absent"
    /\ at = "rollback" => revision[v].status # "draft" /\ Latest < MaxRevisions
    /\ Begin(c, [Quiet EXCEPT !.at = at, !.target = v, !.latest = Latest, !.published = HasStatus("published")])
    /\ UNCHANGED <<page, revision, link, clock>>

Publish(c) ==
    /\ edit[c].at = "publish"
    /\ revision' = [Archived(edit[c].published) EXCEPT ![edit[c].target].status = "published",
                                                       ![edit[c].target].due = Never]
    /\ End(c)
    /\ UNCHANGED <<page, link, clock>>

\* A version that was taken meanwhile aborts the transaction.
Rollback(c) ==
    LET e == edit[c]
        v == e.latest + 1
    IN  /\ e.at = "rollback"
        /\ revision' = IF VersionFree(v)
                       THEN [Archived(e.published) EXCEPT
                                ![v] = [status |-> "published", config |-> revision[e.target].config, due |-> Never]]
                       ELSE revision
        /\ End(c)
        /\ UNCHANGED <<page, link, clock>>

\* activateScheduledExperience, which every reader of the page calls first:
\* of the drafts that are due the latest, ...
FindDue(c) ==
    LET due == {v \in Versions : Due(v, clock)}
    IN  /\ due # {}
        /\ Begin(c, [Quiet EXCEPT !.at = "due", !.target = Max(due), !.due = clock])
        /\ UNCHANGED <<page, revision, link, clock>>

\* ... the published revisions to archive, ...
ReadPublished(c) ==
    /\ edit[c].at = "due"
    /\ edit' = [edit EXCEPT ![c].at = "activate", ![c].published = HasStatus("published")]
    /\ UNCHANGED <<page, revision, link, clock>>

\* Mutant: the candidate is published whatever it is by now.
StillFound(v, now) == TRUE

StillDue(v, now) == Due(v, now)

\* ... and the others that are due with them.  Nothing brings these back if
\* the draft is no longer one, or no longer due.
Activate(c) ==
    LET e == edit[c]
        others == [v \in Versions |-> IF v # e.target /\ Due(v, e.due)
                                      THEN [revision[v] EXCEPT !.status = "archived"] ELSE Archived(e.published)[v]]
    IN  /\ e.at = "activate"
        /\ revision' = IF StillDue(e.target, e.due)
                       THEN [others EXCEPT ![e.target].status = "published", ![e.target].due = Never]
                       ELSE others
        /\ End(c)
        /\ UNCHANGED <<page, link, clock>>
-----------------------------------------------------------------------------
\* listTables computes each token and writes the hash of one that differs,
\* if it is of the same version still.
ListTable(c, t) ==
    /\ link[t].hash # link[t].version
    /\ Begin(c, [Quiet EXCEPT !.at = "hash", !.table = t, !.latest = link[t].version])
    /\ UNCHANGED <<page, revision, link, clock>>

\* Mutant: the hash is written by the table's id.
AnyLink(t, version) == TRUE

SameLink(t, version) == link[t].version = version

WriteHash(c) ==
    LET e == edit[c]
    IN  /\ e.at = "hash"
        /\ link' = IF SameLink(e.table, e.latest) THEN [link EXCEPT ![e.table].hash = e.latest] ELSE link
        /\ End(c)
        /\ UNCHANGED <<page, revision, clock>>

\* rotate: a new token, and the guests of the old one leave.
Rotate(t) ==
    /\ link[t].version < MaxLinks
    /\ link' = [link EXCEPT ![t] = [version |-> @.version + 1, hash |-> @.version + 1, session |-> FALSE]]
    /\ UNCHANGED <<page, revision, clock, edit>>

\* A service session begins (DiningRoom has the story).
ActivateService(t) ==
    /\ page.mode # "disabled"
    /\ link' = [link EXCEPT ![t].session = TRUE]
    /\ UNCHANGED <<page, revision, clock, edit>>

Tick ==
    /\ clock < MaxTime
    /\ clock' = clock + 1
    /\ UNCHANGED <<page, revision, link, edit>>
-----------------------------------------------------------------------------
Init ==
    /\ page \in [mode : Modes \ {"disabled"}, config : Pages]
    /\ revision = [v \in Versions |-> Absent]
    /\ link = [t \in Tables |-> [version |-> 1, hash |-> 0, session |-> FALSE]]
    /\ clock = 0
    /\ edit = [c \in Calls |-> Quiet]

RevisionNext ==
    \E c \in Calls :
        \/ \E given \in Given, due \in 1..Never : StartDraft(c, given, due)
        \/ NumberDraft(c) \/ InsertDraft(c)
        \/ \E v \in Versions : \/ \E due \in 1..MaxTime : ReadSchedule(c, v, due)
                               \/ \E at \in {"publish", "rollback"} : ReadTarget(c, v, at)
        \/ WriteSchedule(c) \/ Publish(c) \/ Rollback(c)
        \/ FindDue(c) \/ ReadPublished(c) \/ Activate(c)

Next ==
    \/ RevisionNext
    \/ \E c \in Calls :
          \/ \E mode \in Modes, given \in Given : UpdateSettings(c, mode, given)
          \/ RevokeSessions(c) \/ WriteHash(c)
          \/ \E t \in Tables : ListTable(c, t)
    \/ \E t \in Tables : Rotate(t) \/ ActivateService(t)
    \/ Tick

Spec == Init /\ [][Next]_pageVars
-----------------------------------------------------------------------------
(*                               Properties                                *)

TypeOK ==
    /\ page \in [mode : Modes, config : Pages]
    /\ \A v \in Versions :
          /\ revision[v].status \in {"absent", "draft", "published", "archived"}
          /\ revision[v].status # "absent" => revision[v].config \in Pages
          /\ revision[v].due \in 0..Never
    /\ \A t \in Tables : link[t].hash \in 0..MaxLinks /\ link[t].session \in BOOLEAN
    /\ clock \in 0..MaxTime

\* A hash that is stored is of the token that opens the table, also when its
\* code was rotated while the tables were listed.
HashIsCurrent == \A t \in Tables : link[t].hash \in {0, link[t].version}

\* A revision stays what it was when it was numbered, however many drafts and
\* rollbacks are numbered at once: it can be rolled back to.
RevisionsKept ==
    \A v \in Versions : revision[v].status # "absent" => revision'[v].config = revision[v].config

\* A draft is not activated before the time it is scheduled for, also when
\* it is postponed while it is being activated.
NotBeforeItsTime ==
    \A c \in Calls : edit[c].at = "activate" /\ edit'[c] = Quiet =>
        \A v \in Versions : revision[v].status = "draft" /\ revision'[v].status = "published" => revision[v].due <= clock
=============================================================================
