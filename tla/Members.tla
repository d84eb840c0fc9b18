------------------------------ MODULE Members ------------------------------
(***************************************************************************)
(* The people of a tenant (auth.service.ts): the roles, the invitations    *)
(* that name one, the users who accept them and the roles users have.      *)
(*                                                                         *)
(* The handlers read without locks.  What keeps their writes right is the  *)
(* database: a user's email is unique, and a role that a row names cannot  *)
(* be removed.  An acceptance is one transaction, which holds its          *)
(* invitation from its first statement and its user from the second.       *)
(***************************************************************************)
EXTENDS Naturals, Sequences

CONSTANTS
    Emails,         \* people, by their email
    Roles,          \* roles that are created; the owner's is not among them
    Invitations,    \* invitations that are created
    Calls,          \* requests in flight
    MaxSent,        \* bound: how often an invitation is sent
    None

VARIABLES
    role,           \* absent, live or deleted
    invitation,     \* the invitations: whom they invite, to what, how often sent and accepted
    user,           \* absent, active or inactive, by email
    grant,          \* the user_roles rows of a user
    asked           \* the requests in flight

memberVars == <<role, invitation, user, grant, asked>>
-----------------------------------------------------------------------------
Away == [at |-> "idle", invitation |-> None, email |-> None, role |-> None, known |-> FALSE, row |-> 0]

Ask(c, call) == asked[c] = Away /\ asked' = [asked EXCEPT ![c] = call]
End(c) == asked' = [asked EXCEPT ![c] = Away]

Live(r) == role[r] = "live"

\* The rows that name a role: its foreign keys.
Named(r) ==
    \/ \E e \in Emails : \E n \in DOMAIN grant[e] : grant[e][n] = r
    \/ \E i \in Invitations : invitation[i].role = r

\* The row locks of an acceptance.
Unheld(i) == \A c \in Calls : asked[c].invitation # i
UserFree(e) == \A c \in Calls : asked[c].at = "joined" => asked[c].email # e

\* One of a user's roles, or none: the query has no order.
Found(e) == IF grant[e] = <<>> THEN {0} ELSE DOMAIN grant[e]

\* update the row that was found, or insert one.
Granted(e, n, r) ==
    grant' = [grant EXCEPT ![e] = IF n = 0 THEN Append(@, r) ELSE [@ EXCEPT ![n] = r]]

\* createRole: the code of a role is unique, whoever reads it first.
CreateRole(r) ==
    /\ role[r] = "absent"
    /\ role' = [role EXCEPT ![r] = "live"]
    /\ UNCHANGED <<invitation, user, grant, asked>>

\* deleteRole: nobody has the role; the delete is then refused if a row names it.
ReadDelete(c, r) ==
    /\ Live(r) /\ \A e \in Emails : \A n \in DOMAIN grant[e] : grant[e][n] # r
    /\ Ask(c, [Away EXCEPT !.at = "delete", !.role = r])
    /\ UNCHANGED <<role, invitation, user, grant>>

DeleteRole(c) ==
    LET r == asked[c].role IN
    /\ asked[c].at = "delete"
    /\ role' = IF Live(r) /\ ~Named(r) THEN [role EXCEPT ![r] = "deleted"] ELSE role
    /\ End(c)
    /\ UNCHANGED <<invitation, user, grant>>

\* createInvitation: resolveRole, then the insert, which is refused if the
\* role went meanwhile.
ResolveRole(c, e, r) ==
    /\ r # None => Live(r)
    /\ Ask(c, [Away EXCEPT !.at = "invite", !.email = e, !.role = r])
    /\ UNCHANGED <<role, invitation, user, grant>>

CreateInvitation(c, i) ==
    LET a == asked[c] IN
    /\ a.at = "invite" /\ invitation[i].status = "absent"
    /\ IF a.role # None /\ ~Live(a.role) THEN UNCHANGED invitation
       ELSE invitation' = [invitation EXCEPT ![i] =
                [status |-> "pending", email |-> a.email, role |-> a.role, sent |-> 1, accepted |-> 0]]
    /\ End(c)
    /\ UNCHANGED <<role, user, grant>>

\* resendInvitation renews any invitation, an accepted one too.
ResendInvitation(i) ==
    /\ invitation[i].status # "absent" /\ Unheld(i) /\ invitation[i].sent < MaxSent
    /\ invitation' = [invitation EXCEPT ![i].status = "pending", ![i].sent = @ + 1]
    /\ UNCHANGED <<role, user, grant, asked>>

\* cancelInvitation, and the end of its seven days.
ExpireInvitation(i) ==
    /\ invitation[i].status = "pending" /\ Unheld(i)
    /\ invitation' = [invitation EXCEPT ![i].status = "expired"]
    /\ UNCHANGED <<role, user, grant, asked>>

\* Mutant: acceptedAt is not asked for.
UsableAgain(i) == invitation[i].status \in {"pending", "accepted"}

\* acceptInvitation: the conditional update, and whether the user is known.
Usable(i) == invitation[i].status = "pending"

TakeInvitation(c, i) ==
    /\ Unheld(i) /\ Usable(i)
    /\ LET e == invitation[i].email IN
       Ask(c, [Away EXCEPT !.at = "taken", !.invitation = i, !.email = e, !.role = invitation[i].role,
                           !.known = user[e] # "absent"])
    /\ UNCHANGED <<role, invitation, user, grant>>

\* The update of the user, or the insert, which waits for any other and fails
\* if the email is there by now: the transaction is undone.  The role the
\* user has is read next.
Clashes(c) == ~asked[c].known /\ user[asked[c].email] # "absent"

JoinUser(c) ==
    /\ asked[c].at = "taken" /\ UserFree(asked[c].email)
    /\ IF Clashes(c) THEN End(c)
       ELSE \E n \in Found(asked[c].email) :
                asked' = [asked EXCEPT ![c].at = "joined", ![c].row = n]
    /\ UNCHANGED <<role, invitation, user, grant>>

AcceptInvitation(c) ==
    LET a == asked[c] IN
    /\ a.at = "joined"
    /\ invitation' = [invitation EXCEPT ![a.invitation].status = "accepted", ![a.invitation].accepted = @ + 1]
    /\ user' = [user EXCEPT ![a.email] = "active"]
    /\ IF a.role = None THEN UNCHANGED grant ELSE Granted(a.email, a.row, a.role)
    /\ End(c)
    /\ UNCHANGED role

\* assignUserRole reads the user, the role and the row; two of them may insert.
ReadAssignment(c, e, r) ==
    /\ user[e] # "absent" /\ Live(r)
    /\ \E n \in Found(e) : Ask(c, [Away EXCEPT !.at = "assign", !.email = e, !.role = r, !.row = n])
    /\ UNCHANGED <<role, invitation, user, grant>>

AssignUserRole(c) ==
    LET a == asked[c] IN
    /\ a.at = "assign"
    /\ IF Live(a.role) THEN Granted(a.email, a.row, a.role) ELSE UNCHANGED grant
    /\ End(c)
    /\ UNCHANGED <<role, invitation, user>>

\* deactivateUser reads that the user is active and then writes in any case.
ReadActive(c, e) ==
    /\ user[e] = "active"
    /\ Ask(c, [Away EXCEPT !.at = "deactivate", !.email = e])
    /\ UNCHANGED <<role, invitation, user, grant>>

DeactivateUser(c) ==
    /\ asked[c].at = "deactivate" /\ UserFree(asked[c].email)
    /\ user' = [user EXCEPT ![asked[c].email] = "inactive"]
    /\ End(c)
    /\ UNCHANGED <<role, invitation, grant>>

\* A request fails: its transaction is undone.
GiveUp(c) ==
    /\ asked[c] # Away
    /\ End(c)
    /\ UNCHANGED <<role, invitation, user, grant>>
-----------------------------------------------------------------------------
Init ==
    /\ role = [r \in Roles |-> "absent"]
    /\ invitation = [i \in Invitations |-> [status |-> "absent", email |-> None, role |-> None, sent |-> 0, accepted |-> 0]]
    /\ user = [e \in Emails |-> "absent"]
    /\ grant = [e \in Emails |-> <<>>]
    /\ asked = [c \in Calls |-> Away]

Next ==
    \/ \E r \in Roles : CreateRole(r)
    \/ \E i \in Invitations : ResendInvitation(i) \/ ExpireInvitation(i)
    \/ \E c \in Calls :
          \/ \E r \in Roles : ReadDelete(c, r) \/ \E e \in Emails : ReadAssignment(c, e, r)
          \/ \E e \in Emails : ReadActive(c, e) \/ \E r \in Roles \cup {None} : ResolveRole(c, e, r)
          \/ \E i \in Invitations : CreateInvitation(c, i) \/ TakeInvitation(c, i)
          \/ DeleteRole(c) \/ JoinUser(c) \/ AcceptInvitation(c) \/ AssignUserRole(c) \/ DeactivateUser(c) \/ GiveUp(c)

Spec == Init /\ [][Next]_memberVars
-----------------------------------------------------------------------------
(*                               Properties                                *)

TypeOK ==
    /\ role \in [Roles -> {"absent", "live", "deleted"}]
    /\ invitation \in [Invitations -> [status : {"absent", "pending", "accepted", "expired"}, email : Emails \cup {None},
                                       role : Roles \cup {None}, sent : 0..MaxSent, accepted : 0..MaxSent]]
    /\ user \in [Emails -> {"absent", "active", "inactive"}]
    /\ \A e \in Emails : grant[e] \in Seq(Roles)
    /\ \A c \in Calls : asked[c].at \in {"idle", "delete", "invite", "taken", "joined", "assign", "deactivate"}

\* An invitation is accepted at most once for each time it was sent, and who
\* accepted one that names a role is a user with a role.
AcceptedOnce ==
    \A i \in Invitations :
        /\ invitation[i].accepted <= invitation[i].sent
        /\ invitation[i].accepted > 0 => user[invitation[i].email] # "absent"
        /\ invitation[i].accepted > 0 /\ invitation[i].role # None => grant[invitation[i].email] # <<>>

\* A role that a user has or an invitation offers exists, although it may be
\* deleted while it is given.
RolesExist == \A r \in Roles : Named(r) => Live(r)
=============================================================================
