------------------------------ MODULE Tenancy ------------------------------
(***************************************************************************)
(* A tenant's subscription checkout (prepareAsaasCheckout and its callers  *)
(* and neighbours in platform.service.ts, auth.service.ts and              *)
(* tenants.service.ts).  What is bought is an intent, one for each key;    *)
(* the provider is asked for a checkout, and the answer is written in      *)
(* three statements of their own.  Any of them may be the last.            *)
(*                                                                         *)
(* The settings of the tenant are one value, read early and written whole: *)
(* a call undoes what another wrote in between (no property here says      *)
(* otherwise).                                                             *)
(***************************************************************************)
EXTENDS Naturals

CONSTANTS
    Keys,           \* idempotency keys of purchases
    Notes,          \* what support writes about the tenant
    Brands,         \* what the tenant looks like
    Calls,          \* requests in flight
    MaxChanges,     \* bound: changes of notes and brand
    None

VARIABLES
    settings,       \* tenants.settings: the last checkout, the notes and the brand
    intent,         \* the purchase intents, by key
    subscription,   \* the checkout the subscription names
    created,        \* how many checkouts the provider has for a key
    changes,        \* how many changes of notes and brand there were
    duty            \* the requests in flight

tenancyVars == <<settings, intent, subscription, created, changes, duty>>
-----------------------------------------------------------------------------
Nothing == [at |-> "idle", key |-> None, read |-> None, checkout |-> None]

Take(c, call) == duty[c] = Nothing /\ duty' = [duty EXCEPT ![c] = call]
Move(c, at) == duty' = [duty EXCEPT ![c].at = at]
Leave(c) == duty' = [duty EXCEPT ![c] = Nothing]

Purchase(k) == intent' = [intent EXCEPT ![k] = IF @.status = "absent" THEN [@ EXCEPT !.status = "pending"] ELSE @]

\* requestSubscriptionActivation: an intent for the key, once.
RequestActivation(k) ==
    /\ Purchase(k)
    /\ UNCHANGED <<settings, subscription, created, changes, duty>>

\* prepareAsaasCheckout reads the tenant and the intent; one that has its
\* checkout answers with it.
ReadTenant(c, k) ==
    /\ intent[k].checkout = None
    /\ Take(c, [Nothing EXCEPT !.at = "intent", !.key = k, !.read = settings])
    /\ UNCHANGED <<settings, intent, subscription, created, changes>>

CreateIntent(c) ==
    /\ duty[c].at = "intent"
    /\ Purchase(duty[c].key)
    /\ Move(c, "request")
    /\ UNCHANGED <<settings, subscription, created, changes>>

\* The provider, external: a key that it has seen gets the checkout it got.
Checkouts(k) == IF created[k] = 0 THEN 1 ELSE created[k]

\* createAsaasCheckout: the request reaches the provider, and its answer may
\* not come back.
CreateCheckout(c) ==
    LET k == duty[c].key IN
    /\ duty[c].at = "request"
    /\ created' = [created EXCEPT ![k] = Checkouts(k)]
    /\ \/ duty' = [duty EXCEPT ![c].at = "settings", ![c].checkout = <<k, created'[k]>>]
       \/ Leave(c)
    /\ UNCHANGED <<settings, intent, subscription, changes>>

WriteSettings(c) ==
    /\ duty[c].at = "settings"
    /\ settings' = [duty[c].read EXCEPT !.checkout = duty[c].checkout]
    /\ Move(c, "ready")
    /\ UNCHANGED <<intent, subscription, created, changes>>

\* Whatever an event made of the intent meanwhile.
WriteIntent(c) ==
    /\ duty[c].at = "ready"
    /\ intent' = [intent EXCEPT ![duty[c].key] = [status |-> "checkout_ready", checkout |-> duty[c].checkout]]
    /\ Move(c, "subscription")
    /\ UNCHANGED <<settings, subscription, created, changes>>

WriteSubscription(c) ==
    /\ duty[c].at = "subscription"
    /\ subscription' = duty[c].checkout
    /\ Leave(c)
    /\ UNCHANGED <<settings, intent, created, changes>>

\* An event of the provider about a checkout it made (Intake).
ReceiveEvent(k) ==
    /\ created[k] > 0
    /\ intent' = [intent EXCEPT ![k].status = "paid"]
    /\ UNCHANGED <<settings, subscription, created, changes, duty>>

\* updateTenantSupport and updateBranding: read the settings, write them all.
ReadSettings(c, at) ==
    /\ changes < MaxChanges
    /\ Take(c, [Nothing EXCEPT !.at = at, !.read = settings])
    /\ UNCHANGED <<settings, intent, subscription, created, changes>>

UpdateSettings(c, at, s) ==
    /\ duty[c].at = at /\ changes < MaxChanges
    /\ settings' = s
    /\ changes' = changes + 1
    /\ Leave(c)
    /\ UNCHANGED <<intent, subscription, created>>

UpdateTenantSupport(c) == \E n \in Notes : UpdateSettings(c, "support", [duty[c].read EXCEPT !.notes = n])
UpdateBranding(c) == \E b \in Brands : UpdateSettings(c, "brand", [duty[c].read EXCEPT !.brand = b])

\* The server is lost between two statements, or one fails.
Stop(c) ==
    /\ duty[c] # Nothing
    /\ Leave(c)
    /\ UNCHANGED <<settings, intent, subscription, created, changes>>
-----------------------------------------------------------------------------
Init ==
    /\ settings = [checkout |-> None, notes |-> None, brand |-> None]
    /\ intent = [k \in Keys |-> [status |-> "absent", checkout |-> None]]
    /\ subscription = None
    /\ created = [k \in Keys |-> 0]
    /\ changes = 0
    /\ duty = [c \in Calls |-> Nothing]

Next ==
    \/ \E k \in Keys : RequestActivation(k) \/ ReceiveEvent(k)
    \/ \E c \in Calls :
          \/ \E k \in Keys : ReadTenant(c, k)
          \/ \E at \in {"support", "brand"} : ReadSettings(c, at)
          \/ CreateIntent(c) \/ CreateCheckout(c) \/ WriteSettings(c) \/ WriteIntent(c) \/ WriteSubscription(c)
          \/ UpdateTenantSupport(c) \/ UpdateBranding(c) \/ Stop(c)

Spec == Init /\ [][Next]_tenancyVars
-----------------------------------------------------------------------------
(*                               Properties                                *)

Known == {known \in Keys \X (1..2) : known[2] <= created[known[1]]}

TypeOK ==
    /\ settings \in [checkout : Known \cup {None}, notes : Notes \cup {None}, brand : Brands \cup {None}]
    /\ intent \in [Keys -> [status : {"absent", "pending", "checkout_ready", "paid"}, checkout : Known \cup {None}]]
    /\ subscription \in Known \cup {None}
    /\ changes \in 0..MaxChanges
    /\ \A c \in Calls : duty[c].at \in {"idle", "intent", "request", "settings", "ready", "subscription", "support", "brand"}

\* A purchase has one checkout at the provider, however often it is prepared,
\* by however many calls, and wherever they end; the subscription names the
\* checkout of a purchase that knows it.
OneCheckout ==
    /\ \A k \in Keys : created[k] <= 1
    /\ subscription # None => intent[subscription[1]].checkout = subscription
=============================================================================
