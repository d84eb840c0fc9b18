------------------------------ MODULE Handoffs -------------------------------
(***************************************************************************)
(* A tenant's entitlements and the handing over of a session to the        *)
(* partner's product (ecosystem.service.ts).  The partner exchanges the    *)
(* token of a handoff, and may send one more than once.                    *)
(***************************************************************************)
EXTENDS Naturals

CONSTANTS Handoffs, Visits, None

VARIABLES
    entitlement,    \* per code: "none", "active" or "revoked"
    handoff,        \* None, or [expired, consumed] of its row
    admitted,       \* how often the partner was given the identity
    visit           \* the requests in flight

handoffVars == <<entitlement, handoff, admitted, visit>>
-----------------------------------------------------------------------------
\* Those of a bundle; the shared inventory's gives no access.
Codes == {"giromesa.subscription", "doseclub.subscription", "bundle"}

Idle == [at |-> "idle", handoff |-> None]

\* getEntitlements: a bundle is all that it holds.
Entitlements ==
    LET explicit == {c \in Codes : entitlement[c] = "active"}
    IN  IF "bundle" \in explicit THEN Codes ELSE explicit

Entitled == Entitlements \cap {"doseclub.subscription", "bundle"} # {}

\* replaceTenantEntitlements: what is granted and revoked at once is revoked,
\* and what nobody granted has no row to be revoked.
ReplaceEntitlements(granted, revoked) ==
    /\ entitlement' = [c \in Codes |->
          IF c \in revoked /\ (c \in granted \/ entitlement[c] # "none") THEN "revoked"
          ELSE IF c \in granted THEN "active" ELSE entitlement[c]]
    /\ UNCHANGED <<handoff, admitted, visit>>

\* createFederationHandoff: the entitlement is read, the row is inserted.
ReadHandoff(v, h) ==
    /\ visit[v] = Idle /\ handoff[h] = None /\ Entitled
    /\ \A w \in Visits : visit[w].handoff # h
    /\ visit' = [visit EXCEPT ![v] = [at |-> "create", handoff |-> h]]
    /\ UNCHANGED <<entitlement, handoff, admitted>>

CreateHandoff(v) ==
    /\ visit[v].at = "create"
    /\ handoff' = [handoff EXCEPT ![visit[v].handoff] = [expired |-> FALSE, consumed |-> FALSE]]
    /\ visit' = [visit EXCEPT ![v] = Idle]
    /\ UNCHANGED <<entitlement, admitted>>

\* Mutant: whether it was consumed is looked at by the query before.
Unexpired(h) == handoff[h] # None /\ ~handoff[h].expired

\* isNull(consumedAt), gt(expiresAt, now) of the conditional update.
Unused(h) == handoff[h] # None /\ ~handoff[h].expired /\ ~handoff[h].consumed

\* exchangeFederationHandoff: consumed first, by a statement of its own, ...
Consume(v, h) ==
    /\ visit[v] = Idle /\ Unused(h)
    /\ handoff' = [handoff EXCEPT ![h].consumed = TRUE]
    /\ visit' = [visit EXCEPT ![v] = [at |-> "consumed", handoff |-> h]]
    /\ UNCHANGED <<entitlement, admitted>>

\* ... then admitted, if the tenant still may be.
Admit(v) ==
    LET h == visit[v].handoff
    IN  /\ visit[v].at = "consumed" /\ Entitled
        /\ admitted' = [admitted EXCEPT ![h] = @ + 1]
        /\ visit' = [visit EXCEPT ![v] = Idle]
        /\ UNCHANGED <<entitlement, handoff>>

\* An error, or an answer that never comes.
Fail(v) ==
    /\ visit[v] # Idle
    /\ visit' = [visit EXCEPT ![v] = Idle]
    /\ UNCHANGED <<entitlement, handoff, admitted>>

\* Sixty seconds pass.
Expire(h) ==
    /\ handoff[h] # None /\ ~handoff[h].expired
    /\ handoff' = [handoff EXCEPT ![h].expired = TRUE]
    /\ UNCHANGED <<entitlement, admitted, visit>>
-----------------------------------------------------------------------------
Init ==
    /\ entitlement = [c \in Codes |-> "none"]
    /\ handoff = [h \in Handoffs |-> None]
    /\ admitted = [h \in Handoffs |-> 0]
    /\ visit = [v \in Visits |-> Idle]

Next ==
    \/ \E granted, revoked \in SUBSET Codes : ReplaceEntitlements(granted, revoked)
    \/ \E v \in Visits : \/ \E h \in Handoffs : ReadHandoff(v, h) \/ Consume(v, h)
                         \/ CreateHandoff(v) \/ Admit(v) \/ Fail(v)
    \/ \E h \in Handoffs : Expire(h)

Spec == Init /\ [][Next]_handoffVars
-----------------------------------------------------------------------------
(*                               Properties                                *)

TypeOK ==
    /\ entitlement \in [Codes -> {"none", "active", "revoked"}]
    /\ handoff \in [Handoffs -> [expired : BOOLEAN, consumed : BOOLEAN] \cup {None}]
    /\ admitted \in [Handoffs -> Nat]
    /\ visit \in [Visits -> [at : {"idle", "create", "consumed"}, handoff : Handoffs \cup {None}]]

\* However often its token is sent, a handoff admits once, and none that was
\* never created does.
AdmittedOnce == \A h \in Handoffs : admitted[h] <= (IF handoff[h] # None /\ handoff[h].consumed THEN 1 ELSE 0)
=============================================================================
