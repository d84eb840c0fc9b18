----------------------------- MODULE MCService -----------------------------
(***************************************************************************)
(* The service of one branch in one run: DiningRoom and GuestAccess (nine  *)
(* instances, each large where its handlers meet), Approvals, Kitchen      *)
(* (three), Printing and Waiters.  They share no state beyond what         *)
(* DiningRoom and GuestAccess share, so each behaviour follows one of them,*)
(* its focus, and the others rest in their initial states.                 *)
(*                                                                         *)
(* The modules that are extended have their constants from the             *)
(* configuration: two reservations being made, moved and seated by two     *)
(* calls; three calls that add and send, with two stations; two polls of   *)
(* the connector; two shifts.  The other instances have theirs here.       *)
(***************************************************************************)
EXTENDS DiningRoom, Kitchen, Printing, Waiters, TLC

CONSTANTS r1, r2, m1, m2, s1, s2

VARIABLES
    focus,
    access, placed, known, bell, visit,
    approval, item, discount, manager,
    shownLine, shownEdits, shownTicket, shownCook   \* the kitchen with its screens

visits == <<access, placed, known, bell, visit>>
approvals == <<approval, item, discount, manager>>
screens == <<shownLine, shownEdits, shownTicket, shownCook>>

vars == <<focus, roomVars, visits, approvals, kitchenVars, screens, printVars, waiterVars>>

\* The first item is grilled, the second one is for both stations.
TwoRoutes == [l \in {1, 2} |-> IF l = 1 THEN {"grill"} ELSE {"bar", "grill"}]

\* Reservations (and requests to cancel), people, and calls of the staff.
CallSymmetry == Permutations({r1, r2}) \cup Permutations({m1, m2}) \cup Permutations({s1, s2})

\* Requests for help can be counted.
ASSUME HelpsAssumption == IsFiniteSet(Helps)
-----------------------------------------------------------------------------
\* Parties with a reservation, at tables that are archived.
Seating == INSTANCE DiningRoom WITH Orders <- {1}, Starts <- {0}, Staff <- {1}, MaxVersion <- 1

\* A party from the list, seated twice.
Listing == INSTANCE DiningRoom WITH
    Orders <- {1, 2}, Entries <- {1}, Starts <- {}, Staff <- {1}, MaxVersion <- 1

\* Both, at one table.
Queueing == INSTANCE DiningRoom WITH
    Tables <- {1}, Orders <- {1, 2}, Entries <- {1}, Starts <- {0}, Staff <- {1}, MaxVersion <- 1

\* Reservations of one table at times that are equal, overlap or touch.
Timing == INSTANCE DiningRoom WITH Tables <- {1}, Starts <- {0, 1, 2}, MaxVersion <- 1

\* A transfer between two tables against activations and payments.
Transfer == INSTANCE DiningRoom WITH
    Orders <- {1}, Services <- {1, 2}, Starts <- {}, Settable <- {"free"}

\* A transfer to a table that was freed with its order still open.
Moving == INSTANCE DiningRoom WITH
    Orders <- {1, 2}, Starts <- {}, Staff <- {1}, Settable <- {"free"}

\* Two guests that order with one key, while the table's order changes.
Ordering == INSTANCE GuestAccess WITH
    Tables <- {1}, Orders <- {1, 2}, Services <- {1, 2}, Guests <- {1},
    Starts <- {}, Staff <- {1}, Settable <- {"free"}, MaxVersion <- 3,
    Visitors <- {1, 2}, Accesses <- {}, Keys <- {"k"}, Calls <- {}

\* Being let in by the staff, and calling them.
Calling == INSTANCE GuestAccess WITH
    Tables <- {1}, Orders <- {1}, Services <- {1}, Guests <- {1},
    Starts <- {}, Staff <- {1}, Settable <- {"free"}, MaxVersion <- 2,
    Visitors <- {1}, Accesses <- {"a"}, Keys <- {}, Calls <- {"c", "d"}

Approving == INSTANCE Approvals WITH
    Managers <- {m1, m2}, Cancels <- {r1, r2}, Discounts <- {3}, ItemTotal <- 2, Rest <- 2

\* Two screens on a ticket with two items.
Cooking == INSTANCE Kitchen WITH
    Batches <- {1}, Stations <- {"grill"}, Routes <- [l \in {1, 2} |-> {"grill"}],
    Cooks <- {1, 2}, Screens <- {1, 2}, Reviewers <- {}, MaxEdits <- 4,
    line <- shownLine, edits <- shownEdits, ticket <- shownTicket, cook <- shownCook

\* A review or a cancellation against a screen and a batch.
Reviewing == INSTANCE Kitchen WITH
    Batches <- {1}, Stations <- {"grill"}, Routes <- [l \in {1, 2} |-> {"grill"}],
    Cooks <- {1, 2}, Screens <- {1}, Reviewers <- {2}, MaxEdits <- 3,
    line <- shownLine, edits <- shownEdits, ticket <- shownTicket, cook <- shownCook
-----------------------------------------------------------------------------
NoVisits == access = None /\ placed = None /\ known = None /\ bell = None /\ visit = None
NoApprovals == approval = None /\ item = None /\ discount = None /\ manager = None
NoScreens == shownLine = None /\ shownEdits = None /\ shownTicket = None /\ shownCook = None

AtRest == NoVisits /\ NoApprovals /\ NoScreens

BranchInit ==
    /\ KitchenInit /\ PrintInit /\ WaiterInit
    /\ \/ focus \in {"booking", "sending", "connector", "serving"} /\ Init /\ AtRest
       \/ focus = "seating" /\ Seating!Init /\ AtRest
       \/ focus = "listing" /\ Listing!Init /\ AtRest
       \/ focus = "queueing" /\ Queueing!Init /\ AtRest
       \/ focus = "timing" /\ Timing!Init /\ AtRest
       \/ focus = "transfer" /\ Transfer!Init /\ AtRest
       \/ focus = "moving" /\ Moving!Init /\ AtRest
       \/ focus = "ordering" /\ Ordering!GuestInit /\ NoApprovals /\ NoScreens
       \/ focus = "calling" /\ Calling!GuestInit /\ NoApprovals /\ NoScreens
       \/ focus = "approving" /\ Approving!Init /\ Init /\ NoVisits /\ NoScreens
       \/ focus = "cooking" /\ Cooking!KitchenInit /\ Init /\ NoVisits /\ NoApprovals
       \/ focus = "reviewing" /\ Reviewing!KitchenInit /\ Init /\ NoVisits /\ NoApprovals

BranchNext ==
    \/ /\ \/ focus = "booking" /\ RoomNext
          \/ focus = "seating" /\ Seating!RoomNext
          \/ focus = "listing" /\ Listing!RoomNext
          \/ focus = "queueing" /\ Queueing!RoomNext
          \/ focus = "timing" /\ Timing!RoomNext
          \/ focus = "transfer" /\ Transfer!RoomNext
          \/ focus = "moving" /\ Moving!RoomNext
       /\ UNCHANGED <<focus, visits, approvals, kitchenVars, screens, printVars, waiterVars>>
    \/ /\ \/ focus = "ordering" /\ Ordering!GuestNext
          \/ focus = "calling" /\ Calling!GuestNext
       /\ UNCHANGED <<focus, approvals, kitchenVars, screens, printVars, waiterVars>>
    \/ /\ focus = "approving" /\ Approving!Next
       /\ UNCHANGED <<focus, roomVars, visits, kitchenVars, screens, printVars, waiterVars>>
    \/ /\ focus = "sending" /\ KitchenNext
       /\ UNCHANGED <<focus, roomVars, visits, approvals, screens, printVars, waiterVars>>
    \/ /\ \/ focus = "cooking" /\ Cooking!KitchenNext
          \/ focus = "reviewing" /\ Reviewing!KitchenNext
       /\ UNCHANGED <<focus, roomVars, visits, approvals, kitchenVars, printVars, waiterVars>>
    \/ /\ focus = "connector" /\ PrintNext
       /\ UNCHANGED <<focus, roomVars, visits, approvals, kitchenVars, screens, waiterVars>>
    \/ /\ focus = "serving" /\ WaiterNext
       /\ UNCHANGED <<focus, roomVars, visits, approvals, kitchenVars, screens, printVars>>

BranchSpec == BranchInit /\ [][BranchNext]_vars
-----------------------------------------------------------------------------
\* Every variable of the component in focus has its type.
BranchTypeOK ==
    CASE focus = "booking" -> RoomTypeOK
      [] focus = "seating" -> Seating!RoomTypeOK
      [] focus = "listing" -> Listing!RoomTypeOK
      [] focus = "queueing" -> Queueing!RoomTypeOK
      [] focus = "timing" -> Timing!RoomTypeOK
      [] focus = "transfer" -> Transfer!RoomTypeOK
      [] focus = "moving" -> Moving!RoomTypeOK
      [] focus = "ordering" -> Ordering!GuestTypeOK
      [] focus = "calling" -> Calling!GuestTypeOK
      [] focus = "approving" -> Approving!TypeOK
      [] focus = "sending" -> KitchenTypeOK
      [] focus = "cooking" -> Cooking!KitchenTypeOK
      [] focus = "reviewing" -> Reviewing!KitchenTypeOK
      [] focus = "connector" -> PrintTypeOK
      [] focus = "serving" -> WaiterTypeOK

\* An order that is repeated with its key is placed once (GuestAccess),
\* canceled stock goes back once (Approvals), an item is cooked once under two
\* screens (Kitchen), and no grant of help is used twice (Waiters).
EffectsOnce ==
    /\ focus = "ordering" => Ordering!PlacedOnce
    /\ focus = "approving" => Approving!StockReturnedOnce
    /\ focus = "cooking" => Cooking!TicketsMatch
    /\ EachHelpGranted

\* An ended service session stays ended (DiningRoom), what was served stays
\* served on the screens (Kitchen).
FinalStaysFinal ==
    [][/\ focus = "transfer" => Transfer!EndedStays
       /\ focus = "ordering" => Ordering!EndedStays
       /\ focus = "cooking" => Cooking!ServedStays]_vars
=============================================================================
