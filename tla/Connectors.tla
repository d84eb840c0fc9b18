----------------------------- MODULE Connectors -----------------------------
(***************************************************************************)
(* The integration accounts of a tenant and the keys that open them: the   *)
(* connector of its printers, a WhatsApp connector per branch (known by    *)
(* its branch here) and the club integration with its lifecycle.           *)
(*                                                                         *)
(* Configuring and heartbeats read the account and write it by a later     *)
(* statement; a transition of the lifecycle does so in a transaction that  *)
(* holds an advisory lock, which configuring does not take.                *)
(***************************************************************************)
EXTENDS Naturals, FiniteSets

CONSTANTS
    Branches,       \* branches of the tenant
    Calls,          \* requests in flight
    MaxKeys,        \* bound: keys that are issued
    MaxVersion,     \* bound: lifecycle version
    None

VARIABLES
    account,        \* the integration_accounts rows
    issued,         \* how many keys were issued; a key is its number
    retired,        \* the keys an account had and lost (not in the code)
    visit           \* the requests in flight

connectorVars == <<account, issued, retired, visit>>

Accounts == {"printer", "club"} \cup Branches
-----------------------------------------------------------------------------
Bare(branch) == [branch |-> branch, seen |-> "not_paired", version |-> 0]
NoAccount == [status |-> "absent", key |-> 0, config |-> Bare(None)]
Gone == [at |-> "away", of |-> None, status |-> None, key |-> 0, config |-> None]

Begin(c, v) == visit[c] = Gone /\ visit' = [visit EXCEPT ![c] = v]
Done(c) == visit' = [visit EXCEPT ![c] = Gone]

\* The account loses the key it had, unless the next is the same.
Retire(a, key) == retired' = [retired EXCEPT ![a] = @ \cup ({account[a].key} \ {0, key})]

\* resolveContext and resolveConnector
Accepts(a, k) == account[a].status = "active" /\ account[a].key = k /\ k # 0

\* What configuring writes: a WhatsApp connector keeps the state that was
\* read, the club's lifecycle counts on.
NextConfig(a, branch) ==
    [branch |-> branch,
     seen |-> IF a \in Branches THEN account[a].config.seen ELSE "not_paired",
     version |-> IF a = "club" THEN account[a].config.version + 1 ELSE 0]

\* Mutant: a key follows from its account, so that it can be shown again.
StableKey(a) == 1

\* createIntegrationApiKey: no two are the same.
NextKey(a) == issued + 1

ReadConfigure(c, a, branch, rotate) ==
    /\ a \in Branches => branch = a
    /\ a = "club" => account[a].config.version < MaxVersion
    /\ LET issues == account[a].key = 0 \/ rotate IN
       /\ issues => issued < MaxKeys
       /\ issued' = IF issues THEN issued + 1 ELSE issued
       /\ Begin(c, [at |-> "configure", of |-> a, status |-> IF a = "club" THEN "homologation" ELSE "active",
                    key |-> IF issues THEN NextKey(a) ELSE 0, config |-> NextConfig(a, branch)])
    /\ UNCHANGED <<account, retired>>

\* Without a key of its own, configuring leaves the row's.
KeyWritten(v, row) == IF v.key # 0 THEN v.key ELSE row.key

WriteConfigure(c) ==
    LET v == visit[c]
        a == v.of
        key == KeyWritten(v, account[a])
    IN  /\ v.at = "configure"
        /\ account' = [account EXCEPT ![a] = [status |-> v.status, key |-> key, config |-> v.config]]
        /\ Retire(a, key)
        /\ Done(c)
        /\ UNCHANGED issued

\* revokeConnector and revoke
Revoke(a) ==
    /\ a # "club" /\ account[a].status # "absent"
    /\ account' = [account EXCEPT ![a].status = "disabled", ![a].key = 0]
    /\ Retire(a, 0)
    /\ UNCHANGED <<issued, visit>>

\* A connector is let in by its key.
Authenticate(c, a, k) ==
    /\ a # "club" /\ Accepts(a, k)
    /\ Begin(c, [Gone EXCEPT !.at = "connected", !.of = a])
    /\ UNCHANGED <<account, issued, retired>>

ReadHeartbeat(c) ==
    LET v == visit[c]
        a == v.of
    IN  /\ v.at = "connected"
        /\ IF account[a].status = "active"
           THEN visit' = [visit EXCEPT ![c] = [v EXCEPT !.at = "beat", !.config = account[a].config]]
           ELSE Done(c)
        /\ UNCHANGED <<account, issued, retired>>

WriteHeartbeat(c, seen) ==
    LET v == visit[c] IN
    /\ v.at = "beat"
    /\ account' = [account EXCEPT ![v.of].config = [v.config EXCEPT !.seen = seen]]
    /\ Done(c)
    /\ UNCHANGED <<issued, retired>>

\* Mutant: the transaction takes no lock.
LifecycleUnlocked == TRUE

LifecycleFree == \A c \in Calls : visit[c].at # "transition"

\* Mutant: what a health check reports is taken for the status.
AfterRaw(status, event) ==
    CASE event = "activate" -> "active" [] event = "revoke" -> "revoked" [] OTHER -> event

\* What an event makes of a status, None where it is refused.
After(status, event) ==
    CASE event = "activate" -> IF status = "homologation" THEN "active" ELSE None
      [] event \in {"healthy", "unhealthy"} ->
            IF status \notin {"active", "degraded"} THEN None
            ELSE IF event = "healthy" THEN "active" ELSE "degraded"
      [] OTHER -> IF status = "revoked" THEN None ELSE "revoked"

\* expected is the version the caller saw.
ReadTransition(c, event, expected) ==
    LET row == account["club"] IN
    /\ row.status # "absent" /\ row.config.version = expected /\ expected < MaxVersion
    /\ LifecycleFree
    /\ After(row.status, event) # None
    /\ Begin(c, [at |-> "transition", of |-> "club", status |-> After(row.status, event), key |-> 0,
                 config |-> [row.config EXCEPT !.version = @ + 1]])
    /\ UNCHANGED <<account, issued, retired>>

WriteTransition(c) ==
    LET v == visit[c] IN
    /\ v.at = "transition"
    /\ account' = [account EXCEPT !["club"].status = v.status, !["club"].config = v.config]
    /\ Done(c)
    /\ UNCHANGED <<issued, retired>>
-----------------------------------------------------------------------------
Init ==
    /\ account = [a \in Accounts |-> NoAccount]
    /\ issued = 0
    /\ retired = [a \in Accounts |-> {}]
    /\ visit = [c \in Calls |-> Gone]

Next ==
    \/ \E c \in Calls, a \in Accounts :
          \/ \E b \in Branches, rotate \in BOOLEAN : ReadConfigure(c, a, b, rotate)
          \/ \E k \in 1..issued : Authenticate(c, a, k)
    \/ \E c \in Calls :
          \/ WriteConfigure(c) \/ ReadHeartbeat(c) \/ WriteTransition(c)
          \/ \E seen \in {"open", "closed"} : WriteHeartbeat(c, seen)
          \/ \E event \in {"activate", "healthy", "unhealthy", "revoke"}, v \in 1..MaxVersion : ReadTransition(c, event, v)
    \/ \E a \in Accounts : Revoke(a)

Spec == Init /\ [][Next]_connectorVars
-----------------------------------------------------------------------------
(*                               Properties                                *)

TypeOK ==
    /\ account \in [Accounts -> [status : {"absent", "active", "disabled", "homologation", "degraded", "revoked"},
                                 key : 0..MaxKeys,
                                 config : [branch : Branches \cup {None}, version : 0..MaxVersion,
                                           seen : {"not_paired", "open", "closed"}]]]
    /\ issued \in 0..MaxKeys
    /\ retired \in [Accounts -> SUBSET (1..MaxKeys)]
    /\ \A c \in Calls : visit[c].at \in {"away", "configure", "connected", "beat", "transition"}

\* A key that was replaced or revoked is never accepted again, although it
\* may be configured by several, one of whom read the account before.
KeysStayRetired == \A a \in Accounts : account[a].key \notin retired[a]

\* A club integration that was revoked is active again only after it was
\* configured anew and approved, whatever health checks race its revocation.
RevokedIsConfiguredFirst ==
    account["club"].status = "revoked" => account'["club"].status \in {"revoked", "homologation"}
=============================================================================
