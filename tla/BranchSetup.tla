---------------------------- MODULE BranchSetup ----------------------------
(***************************************************************************)
(* The devices of a branch and its payment settings: OperationalService's  *)
(* devices, PaymentSettingsService, and the printers and routes of         *)
(* PrintingService.  Stations are not created by the API; printers and     *)
(* routes are created and never taken away or switched off, so the reads   *)
(* of assertDeviceRouting are a step with the insert they permit.          *)
(***************************************************************************)
EXTENDS Naturals, FiniteSets

CONSTANTS
    Devices,        \* devices that may be registered
    Printers,       \* printers that may be created
    Categories,     \* the product categories of the one station
    Modes,          \* ways to take payments
    Calls,          \* requests in flight
    MaxVersion,     \* bound: versions of the payment settings
    None

VARIABLES
    device,         \* the operational_devices rows
    printer,        \* the printers
    route,          \* the print routes of the station
    payment,        \* the branch_payment_settings row; version 0: there is none
    entitled,       \* whether the plan includes automated payments
    saved,          \* how many changes of the settings were accepted (not in the code)
    chore           \* the requests in flight

setupVars == <<device, printer, route, payment, entitled, saved, chore>>

Kinds == {"table", "kds", "payment_terminal"}
-----------------------------------------------------------------------------
Unregistered == [status |-> "absent", kind |-> None, printer |-> None, seen |-> FALSE, version |-> 1]
Free == [at |-> "free", device |-> None, row |-> None, mode |-> None, seen |-> None]

Begin(c, v) == chore[c] = Free /\ chore' = [chore EXCEPT ![c] = v]
End(c) == chore' = [chore EXCEPT ![c] = Free]

CreatePrinter(p) ==
    /\ p \notin printer /\ printer' = printer \cup {p}
    /\ UNCHANGED <<device, route, payment, entitled, saved, chore>>

\* A route names the categories it is for, or none: all of them.
CreateRoute(p, target, categories) ==
    /\ p \in printer
    /\ route' = route \cup {[printer |-> p, target |-> target, categories |-> categories]}
    /\ UNCHANGED <<device, printer, payment, entitled, saved, chore>>

\* isProductionRouteCompatible
Compatible(r) == r.target = "kitchen_ticket" /\ (r.categories = {} \/ Categories \subseteq r.categories)

\* assertDeviceRouting, which looks at one route of the station and printer.
Routed(kind, p) ==
    IF p = None THEN kind # "kds"
    ELSE \E r \in route : r.printer = p /\ Compatible(r)

\* registerDevice and createTerminal
RegisterDevice(d, kind, p) ==
    /\ device[d].status = "absent"
    /\ kind # "payment_terminal" => Routed(kind, p)
    /\ kind = "payment_terminal" => p = None
    /\ device' = [device EXCEPT ![d] = [@ EXCEPT !.status = "active", !.kind = kind, !.printer = p]]
    /\ UNCHANGED <<printer, route, payment, entitled, saved, chore>>

\* activateDevice and resolveDevice find an active device by its token ...
ReadDevice(c, d) ==
    /\ device[d].status = "active"
    /\ Begin(c, [Free EXCEPT !.at = "device", !.device = d, !.row = device[d]])
    /\ UNCHANGED <<device, printer, route, payment, entitled, saved>>

\* Mutant: the row that was read is written whole.
RowSeen(row, read) == [read EXCEPT !.seen = TRUE]

\* ... and note, whatever became of it, that it was seen.
Seen(row, read) == [row EXCEPT !.seen = TRUE]

WriteDevice(c) ==
    LET v == chore[c] IN
    /\ v.at = "device"
    /\ device' = [device EXCEPT ![v.device] = Seen(@, v.row)]
    /\ End(c)
    /\ UNCHANGED <<printer, route, payment, entitled, saved>>

\* revokeDevice and revokeTerminal, of which only the second counts the
\* version, and both may be repeated.
RevokeDevice(d, counts, bound) ==
    /\ device[d].status # "absent" /\ device[d].version < bound
    /\ counts => device[d].kind = "payment_terminal"
    /\ device' = [device EXCEPT ![d].status = "revoked", ![d].version = @ + (IF counts THEN 1 ELSE 0)]
    /\ UNCHANGED <<printer, route, payment, entitled, saved, chore>>

\* assertTerminal
TerminalActive(d) == device[d].status = "active" /\ device[d].kind = "payment_terminal"

\* The plan changes (Tenancy, and the provisioning of entitlements).
ToggleEntitled ==
    /\ entitled' = ~entitled
    /\ UNCHANGED <<device, printer, route, payment, saved, chore>>

\* get: without a row, the default has version 1.
Shown == IF payment.version = 0 THEN [mode |-> "manual", version |-> 1] ELSE payment

LoadSettings(c, mode) ==
    /\ Begin(c, [Free EXCEPT !.at = "form", !.mode = mode, !.seen = Shown])
    /\ UNCHANGED <<device, printer, route, payment, entitled, saved>>

\* update: what the plan permits is looked at first, then whether there is
\* a row.
ReadSettings(c) ==
    LET v == chore[c] IN
    /\ v.at = "form"
    /\ IF v.mode # "manual" /\ ~entitled THEN End(c)
       ELSE chore' = [chore EXCEPT ![c].at = IF payment.version = 0 THEN "insert" ELSE "update"]
    /\ UNCHANGED <<device, printer, route, payment, entitled, saved>>

\* Mutant: any version is replaced.
AnyVersion(v) == TRUE

Current(v) == payment.version = v.seen.version

\* A second row of a branch is refused by its unique index.
WriteSettings(c) ==
    LET v == chore[c]
        accepted == IF v.at = "insert" THEN payment.version = 0 ELSE Current(v)
    IN  /\ v.at \in {"insert", "update"}
        /\ v.at = "update" => v.seen.version < MaxVersion
        /\ IF accepted
           THEN /\ payment' = [mode |-> v.mode, version |-> IF v.at = "insert" THEN 1 ELSE v.seen.version + 1]
                /\ saved' = saved + 1
           ELSE UNCHANGED <<payment, saved>>
        /\ End(c)
        /\ UNCHANGED <<device, printer, route, entitled>>
-----------------------------------------------------------------------------
Targets == {"kitchen_ticket", "payment_receipt"}

Init ==
    /\ device = [d \in Devices |-> Unregistered]
    /\ printer = {} /\ route = {}
    /\ payment = [mode |-> "manual", version |-> 0]
    /\ entitled = FALSE /\ saved = 0
    /\ chore = [c \in Calls |-> Free]

Next ==
    \/ \E p \in Printers : CreatePrinter(p)
    \/ \E p \in Printers, t \in Targets, s \in SUBSET Categories : CreateRoute(p, t, s)
    \/ \E d \in Devices :
          \/ \E kind \in Kinds, p \in printer \cup {None} : RegisterDevice(d, kind, p)
          \/ \E counts \in BOOLEAN : RevokeDevice(d, counts, MaxVersion)
    \/ \E c \in Calls :
          \/ \E d \in Devices : ReadDevice(c, d)
          \/ \E m \in Modes : LoadSettings(c, m)
          \/ WriteDevice(c) \/ ReadSettings(c) \/ WriteSettings(c)
    \/ ToggleEntitled

Spec == Init /\ [][Next]_setupVars
-----------------------------------------------------------------------------
(*                               Properties                                *)

TypeOK ==
    /\ device \in [Devices -> [status : {"absent", "active", "revoked"}, kind : Kinds \cup {None},
                               printer : Printers \cup {None}, seen : BOOLEAN, version : 1..MaxVersion]]
    /\ printer \subseteq Printers
    /\ \A r \in route : r.printer \in printer /\ r.target \in Targets /\ r.categories \subseteq Categories
    /\ payment \in [mode : Modes, version : 0..MaxVersion] /\ entitled \in BOOLEAN
    /\ \A c \in Calls : chore[c].at \in {"free", "device", "form", "insert", "update"}

\* A device that was revoked stays so, although requests that found it
\* active still note that they saw it.
RevokedStays == \A d \in Devices : device[d].status = "revoked" => device'[d].status = "revoked"

\* Every change of the payment settings that was accepted has a version of
\* its own: none was put in the place of another that was made at once.
EachSaveCounts == payment.version = saved
=============================================================================
