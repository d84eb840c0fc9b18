---------------------------- MODULE BranchProofs ----------------------------
(***************************************************************************)
(* What ServiceProofs proves of the components of a branch holds where     *)
(* MCService composes them, one of them in focus at a time.  The instances *)
(* of MCService have constants of their own, so that this takes instances  *)
(* of the proofs; that their definitions are those of MCService is shown   *)
(* by expanding both.                                                      *)
(***************************************************************************)
EXTENDS MCService, TLAPS

\* What is proved, of the guests that order, the approvals and the screens,
Proved == INSTANCE ServiceProofs WITH
    Tables <- {1}, Orders <- {1, 2}, Services <- {1, 2}, Guests <- {1},
    Starts <- {}, Staff <- {1}, Settable <- {"free"}, MaxVersion <- 3,
    Visitors <- {1, 2}, Accesses <- {}, Keys <- {"k"}, Calls <- {},
    Managers <- {m1, m2}, Cancels <- {r1, r2}, Discounts <- {3}, ItemTotal <- 2, Rest <- 2,
    Batches <- {1}, Stations <- {"grill"}, Routes <- [l \in {1, 2} |-> {"grill"}],
    Cooks <- {1, 2}, Screens <- {1, 2}, Reviewers <- {}, MaxEdits <- 4,
    line <- shownLine, edits <- shownEdits, ticket <- shownTicket, cook <- shownCook

\* of the transfer,
ProvedOfTransfer == INSTANCE ServiceProofs WITH
    Orders <- {1}, Services <- {1, 2}, Starts <- {}, Settable <- {"free"},
    Visitors <- {}, Accesses <- {}, Keys <- {}, Calls <- {},
    Managers <- {}, Cancels <- {}, Discounts <- {}, ItemTotal <- 0, Rest <- 0

\* and of the components that have the module's own constants.
ProvedHere == INSTANCE ServiceProofs WITH
    Visitors <- {}, Accesses <- {}, Keys <- {}, Calls <- {},
    Managers <- {}, Cancels <- {}, Discounts <- {}, ItemTotal <- 0, Rest <- 0
-----------------------------------------------------------------------------
\* The guests that order are those of the proofs,
LEMMA SameGuests ==
    /\ Ordering!GuestInit <=> Proved!GuestInit
    /\ Ordering!GuestNext <=> Proved!GuestNext
  <1>1. Ordering!GuestInit <=> Proved!GuestInit
    BY DEF
       Ordering!GuestInit, Ordering!Init, Ordering!Idle, Ordering!NoVisit, Proved!GuestInit, Proved!Init,
       Proved!Idle, Proved!NoVisit
  <1>2. Ordering!BookingNext <=> Proved!BookingNext
    BY DEF
       Ordering!BookingNext, Ordering!CreateReservation, Ordering!Reserve, Ordering!RowFree, Ordering!Unlocked,
       Ordering!CanSeat, Ordering!Conflict, Ordering!Pending, Ordering!Overlap, Ordering!Begin, Ordering!Idle,
       Ordering!ReservationNext, Ordering!MoveReservation, Ordering!WriteReservation, Ordering!End,
       Ordering!UpdateReservation, Ordering!SeatReservation, Ordering!HasOrder, Ordering!OpenAt,
       Ordering!Insertable, Ordering!First, Ordering!SetTables, Ordering!AddEntry, Ordering!UpdateEntry,
       Ordering!WaitingNext, Ordering!SeatEntry, Proved!BookingNext, Proved!CreateReservation, Proved!Reserve,
       Proved!RowFree, Proved!Unlocked, Proved!CanSeat, Proved!Conflict, Proved!Pending, Proved!Overlap,
       Proved!Begin, Proved!Idle, Proved!ReservationNext, Proved!MoveReservation, Proved!WriteReservation,
       Proved!End, Proved!UpdateReservation, Proved!SeatReservation, Proved!HasOrder, Proved!OpenAt,
       Proved!Insertable, Proved!First, Proved!SetTables, Proved!AddEntry, Proved!UpdateEntry,
       Proved!WaitingNext, Proved!SeatEntry
  <1>3. Ordering!TableNext <=> Proved!TableNext
    BY DEF
       Ordering!TableNext, Ordering!ReadTransfer, Ordering!Unlocked, Ordering!CanSeat, Ordering!Begin,
       Ordering!Idle, Ordering!WriteTransfer, Ordering!HasOrder, Ordering!EndSessions, Ordering!Ending,
       Ordering!GuestsRevoked, Ordering!End, Ordering!ReleaseTable, Ordering!SetTables, Ordering!ArchiveTable,
       Ordering!RestoreTable, Ordering!OpenOrder, Ordering!OpenAt, Ordering!Insertable, Ordering!First,
       Ordering!UpdateTable, Ordering!MergeTables, Ordering!Cardinality, Proved!TableNext, Proved!ReadTransfer,
       Proved!Unlocked, Proved!CanSeat, Proved!Begin, Proved!Idle, Proved!WriteTransfer, Proved!HasOrder,
       Proved!EndSessions, Proved!Ending, Proved!GuestsRevoked, Proved!End, Proved!ReleaseTable,
       Proved!SetTables, Proved!ArchiveTable, Proved!RestoreTable, Proved!OpenOrder, Proved!OpenAt,
       Proved!Insertable, Proved!First, Proved!UpdateTable, Proved!MergeTables, Proved!Cardinality
  <1>4. Ordering!OrderNext <=> Proved!OrderNext
    BY DEF
       Ordering!OrderNext, Ordering!PayOrder, Ordering!ReadOrder, Ordering!Begin, Ordering!Idle,
       Ordering!FinishOrder, Ordering!Unlocked, Ordering!SetTables, Ordering!EndSessions, Ordering!Ending,
       Ordering!GuestsRevoked, Ordering!End, Proved!OrderNext, Proved!PayOrder, Proved!ReadOrder, Proved!Begin,
       Proved!Idle, Proved!FinishOrder, Proved!Unlocked, Proved!SetTables, Proved!EndSessions, Proved!Ending,
       Proved!GuestsRevoked, Proved!End
  <1>5. Ordering!ServiceNext <=> Proved!ServiceNext
    BY DEF
       Ordering!ServiceNext, Ordering!ReadActivation, Ordering!Begin, Ordering!Idle, Ordering!Ending,
       Ordering!First, Ordering!WriteActivation, Ordering!Renewed, Ordering!GuestsRevoked, Ordering!Activated,
       Ordering!Insertable, Ordering!End, Ordering!RevokeService, Ordering!EndSessions, Proved!ServiceNext,
       Proved!ReadActivation, Proved!Begin, Proved!Idle, Proved!Ending, Proved!First, Proved!WriteActivation,
       Proved!Renewed, Proved!GuestsRevoked, Proved!Activated, Proved!Insertable, Proved!End,
       Proved!RevokeService, Proved!EndSessions
  <1>6. Ordering!VisitNext <=> Proved!VisitNext
    BY DEF
       Ordering!VisitNext, Ordering!ReadEntry, Ordering!Visit, Ordering!NoVisit, Ordering!roomVars,
       Ordering!RequestAccess, Ordering!ApproveAccess, Ordering!ExpireAccess, Ordering!ReadClaim,
       Ordering!ReadGuest, Ordering!Admitted, Ordering!Serving, Ordering!ReadBell, Ordering!WriteEntry,
       Ordering!AddGuest, Ordering!Insertable, Ordering!First, Ordering!Leave, Ordering!WriteClaim,
       Ordering!ReserveKey, Ordering!Known, Ordering!PlaceOrder, Ordering!RingBell, Ordering!AgeBell,
       Ordering!AnswerBell, Proved!VisitNext, Proved!ReadEntry, Proved!Visit, Proved!NoVisit, Proved!roomVars,
       Proved!RequestAccess, Proved!ApproveAccess, Proved!ExpireAccess, Proved!ReadClaim, Proved!ReadGuest,
       Proved!Admitted, Proved!Serving, Proved!ReadBell, Proved!WriteEntry, Proved!AddGuest, Proved!Insertable,
       Proved!First, Proved!Leave, Proved!WriteClaim, Proved!ReserveKey, Proved!Known, Proved!PlaceOrder,
       Proved!RingBell, Proved!AgeBell, Proved!AnswerBell
  <1> QED BY <1>1, <1>2, <1>3, <1>4, <1>5, <1>6 DEF Ordering!GuestNext, Proved!GuestNext, Ordering!RoomNext, Proved!RoomNext, Ordering!guestVars, Proved!guestVars

\* the tables among which parties are transferred,
LEMMA SameRooms ==
    /\ Transfer!Init <=> ProvedOfTransfer!Init
    /\ Transfer!RoomNext <=> ProvedOfTransfer!RoomNext
  <1>1. Transfer!Init <=> ProvedOfTransfer!Init
    BY DEF
       Transfer!Init, Transfer!Idle, ProvedOfTransfer!Init, ProvedOfTransfer!Idle
  <1>2. Transfer!BookingNext <=> ProvedOfTransfer!BookingNext
    BY DEF
       Transfer!BookingNext, Transfer!CreateReservation, Transfer!Reserve, Transfer!RowFree, Transfer!Unlocked,
       Transfer!CanSeat, Transfer!Conflict, Transfer!Pending, Transfer!Overlap, Transfer!Begin, Transfer!Idle,
       Transfer!ReservationNext, Transfer!MoveReservation, Transfer!WriteReservation, Transfer!End,
       Transfer!UpdateReservation, Transfer!SeatReservation, Transfer!HasOrder, Transfer!OpenAt,
       Transfer!Insertable, Transfer!First, Transfer!SetTables, Transfer!AddEntry, Transfer!UpdateEntry,
       Transfer!WaitingNext, Transfer!SeatEntry, ProvedOfTransfer!BookingNext,
       ProvedOfTransfer!CreateReservation, ProvedOfTransfer!Reserve, ProvedOfTransfer!RowFree,
       ProvedOfTransfer!Unlocked, ProvedOfTransfer!CanSeat, ProvedOfTransfer!Conflict, ProvedOfTransfer!Pending,
       ProvedOfTransfer!Overlap, ProvedOfTransfer!Begin, ProvedOfTransfer!Idle,
       ProvedOfTransfer!ReservationNext, ProvedOfTransfer!MoveReservation, ProvedOfTransfer!WriteReservation,
       ProvedOfTransfer!End, ProvedOfTransfer!UpdateReservation, ProvedOfTransfer!SeatReservation,
       ProvedOfTransfer!HasOrder, ProvedOfTransfer!OpenAt, ProvedOfTransfer!Insertable, ProvedOfTransfer!First,
       ProvedOfTransfer!SetTables, ProvedOfTransfer!AddEntry, ProvedOfTransfer!UpdateEntry,
       ProvedOfTransfer!WaitingNext, ProvedOfTransfer!SeatEntry
  <1>3. Transfer!TableNext <=> ProvedOfTransfer!TableNext
    BY DEF
       Transfer!TableNext, Transfer!ReadTransfer, Transfer!Unlocked, Transfer!CanSeat, Transfer!Begin,
       Transfer!Idle, Transfer!WriteTransfer, Transfer!HasOrder, Transfer!EndSessions, Transfer!Ending,
       Transfer!GuestsRevoked, Transfer!End, Transfer!ReleaseTable, Transfer!SetTables, Transfer!ArchiveTable,
       Transfer!RestoreTable, Transfer!OpenOrder, Transfer!OpenAt, Transfer!Insertable, Transfer!First,
       Transfer!UpdateTable, Transfer!MergeTables, Transfer!Cardinality, ProvedOfTransfer!TableNext,
       ProvedOfTransfer!ReadTransfer, ProvedOfTransfer!Unlocked, ProvedOfTransfer!CanSeat,
       ProvedOfTransfer!Begin, ProvedOfTransfer!Idle, ProvedOfTransfer!WriteTransfer, ProvedOfTransfer!HasOrder,
       ProvedOfTransfer!EndSessions, ProvedOfTransfer!Ending, ProvedOfTransfer!GuestsRevoked,
       ProvedOfTransfer!End, ProvedOfTransfer!ReleaseTable, ProvedOfTransfer!SetTables,
       ProvedOfTransfer!ArchiveTable, ProvedOfTransfer!RestoreTable, ProvedOfTransfer!OpenOrder,
       ProvedOfTransfer!OpenAt, ProvedOfTransfer!Insertable, ProvedOfTransfer!First,
       ProvedOfTransfer!UpdateTable, ProvedOfTransfer!MergeTables, ProvedOfTransfer!Cardinality
  <1>4. Transfer!OrderNext <=> ProvedOfTransfer!OrderNext
    BY DEF
       Transfer!OrderNext, Transfer!PayOrder, Transfer!ReadOrder, Transfer!Begin, Transfer!Idle,
       Transfer!FinishOrder, Transfer!Unlocked, Transfer!SetTables, Transfer!EndSessions, Transfer!Ending,
       Transfer!GuestsRevoked, Transfer!End, ProvedOfTransfer!OrderNext, ProvedOfTransfer!PayOrder,
       ProvedOfTransfer!ReadOrder, ProvedOfTransfer!Begin, ProvedOfTransfer!Idle, ProvedOfTransfer!FinishOrder,
       ProvedOfTransfer!Unlocked, ProvedOfTransfer!SetTables, ProvedOfTransfer!EndSessions,
       ProvedOfTransfer!Ending, ProvedOfTransfer!GuestsRevoked, ProvedOfTransfer!End
  <1>5. Transfer!ServiceNext <=> ProvedOfTransfer!ServiceNext
    BY DEF
       Transfer!ServiceNext, Transfer!ReadActivation, Transfer!Begin, Transfer!Idle, Transfer!Ending,
       Transfer!First, Transfer!WriteActivation, Transfer!Renewed, Transfer!GuestsRevoked, Transfer!Activated,
       Transfer!Insertable, Transfer!End, Transfer!RevokeService, Transfer!EndSessions,
       ProvedOfTransfer!ServiceNext, ProvedOfTransfer!ReadActivation, ProvedOfTransfer!Begin,
       ProvedOfTransfer!Idle, ProvedOfTransfer!Ending, ProvedOfTransfer!First, ProvedOfTransfer!WriteActivation,
       ProvedOfTransfer!Renewed, ProvedOfTransfer!GuestsRevoked, ProvedOfTransfer!Activated,
       ProvedOfTransfer!Insertable, ProvedOfTransfer!End, ProvedOfTransfer!RevokeService,
       ProvedOfTransfer!EndSessions
  <1> QED BY <1>1, <1>2, <1>3, <1>4, <1>5 DEF Transfer!RoomNext, ProvedOfTransfer!RoomNext

\* the approvals,
LEMMA SameDesk ==
    /\ Approving!Init <=> Proved!Desk!Init
    /\ Approving!Next <=> Proved!Desk!Next
  <1>1. Approving!Init <=> Proved!Desk!Init
    BY DEF
       Approving!Init, Approving!Requests, Approving!Free, Proved!Desk!Init, Proved!Desk!Requests,
       Proved!Desk!Free
  <1>2. Approving!Next <=> Proved!Desk!Next
    BY DEF
       Approving!Next, Approving!Requests, Approving!Request, Approving!Subtotal, Approving!Find,
       Approving!Free, Approving!Approve, Approving!Decided, Approving!Goto, Approving!Reject,
       Approving!ReadTarget, Approving!WriteTarget, Approving!CancelItem, Approving!Reversed, Approving!Least,
       Approving!MarkApplied, Approving!Abandon, Approving!CancelNow, Approving!DiscountNow, Proved!Desk!Next,
       Proved!Desk!Requests, Proved!Desk!Request, Proved!Desk!Subtotal, Proved!Desk!Find, Proved!Desk!Free,
       Proved!Desk!Approve, Proved!Desk!Decided, Proved!Desk!Goto, Proved!Desk!Reject, Proved!Desk!ReadTarget,
       Proved!Desk!WriteTarget, Proved!Desk!CancelItem, Proved!Desk!Reversed, Proved!Desk!Least,
       Proved!Desk!MarkApplied, Proved!Desk!Abandon, Proved!Desk!CancelNow, Proved!Desk!DiscountNow
  <1> QED BY <1>1, <1>2

\* the kitchen with its screens
LEMMA SameScreens ==
    /\ Cooking!KitchenInit <=> Proved!KitchenInit
    /\ Cooking!KitchenNext <=> Proved!KitchenNext
  <1>1. Cooking!KitchenInit <=> Proved!KitchenInit
    BY DEF
       Cooking!KitchenInit, Cooking!Tickets, Cooking!NoTicket, Cooking!Resting, Proved!KitchenInit,
       Proved!Tickets, Proved!NoTicket, Proved!Resting
  <1>2. Cooking!KitchenNext <=> Proved!KitchenNext
    BY DEF
       Cooking!KitchenNext, Cooking!ReadAdd, Cooking!Work, Cooking!Resting, Cooking!ReadReview,
       Cooking!ReadCancel, Cooking!GuestAdds, Cooking!OrderFree, Cooking!Tickets, Cooking!OpenTicket,
       Cooking!NoTicket, Cooking!FreeTicket, Cooking!WriteAdd, Cooking!Unchanged, Cooking!Finish,
       Cooking!ReadSend, Cooking!ReadPending, Cooking!Unsent, Cooking!WriteSend, Cooking!NextBatch,
       Cooking!NewTickets, Cooking!Least, Cooking!Routed, Cooking!WriteItem, Cooking!CookNext, Cooking!Derived,
       Cooking!WriteTicket, Cooking!Taken, Cooking!WriteReview, Cooking!Reviewed, Cooking!ReadTickets,
       Cooking!WriteCancel, Proved!KitchenNext, Proved!ReadAdd, Proved!Work, Proved!Resting, Proved!ReadReview,
       Proved!ReadCancel, Proved!GuestAdds, Proved!OrderFree, Proved!Tickets, Proved!OpenTicket,
       Proved!NoTicket, Proved!FreeTicket, Proved!WriteAdd, Proved!Unchanged, Proved!Finish, Proved!ReadSend,
       Proved!ReadPending, Proved!Unsent, Proved!WriteSend, Proved!NextBatch, Proved!NewTickets, Proved!Least,
       Proved!Routed, Proved!WriteItem, Proved!CookNext, Proved!Derived, Proved!WriteTicket, Proved!Taken,
       Proved!WriteReview, Proved!Reviewed, Proved!ReadTickets, Proved!WriteCancel
  <1> QED BY <1>1, <1>2

\* and the kitchen and the waiters of the module's own constants.
LEMMA SameKitchen ==
    /\ KitchenInit <=> ProvedHere!KitchenInit
    /\ KitchenNext <=> ProvedHere!KitchenNext
  <1>1. KitchenInit <=> ProvedHere!KitchenInit
    BY DEF
       KitchenInit, Tickets, NoTicket, Resting, ProvedHere!KitchenInit, ProvedHere!Tickets, ProvedHere!NoTicket,
       ProvedHere!Resting
  <1>2. KitchenNext <=> ProvedHere!KitchenNext
    BY DEF
       KitchenNext, ReadAdd, Work, Resting, ReadReview, ReadCancel, GuestAdds, OrderFree, Tickets, OpenTicket,
       NoTicket, FreeTicket, WriteAdd, Unchanged, Finish, ReadSend, ReadPending, Unsent, WriteSend, NextBatch,
       NewTickets, Least, Routed, WriteItem, CookNext, Derived, WriteTicket, Taken, WriteReview, Reviewed,
       ReadTickets, WriteCancel, ProvedHere!KitchenNext, ProvedHere!ReadAdd, ProvedHere!Work,
       ProvedHere!Resting, ProvedHere!ReadReview, ProvedHere!ReadCancel, ProvedHere!GuestAdds,
       ProvedHere!OrderFree, ProvedHere!Tickets, ProvedHere!OpenTicket, ProvedHere!NoTicket,
       ProvedHere!FreeTicket, ProvedHere!WriteAdd, ProvedHere!Unchanged, ProvedHere!Finish, ProvedHere!ReadSend,
       ProvedHere!ReadPending, ProvedHere!Unsent, ProvedHere!WriteSend, ProvedHere!NextBatch,
       ProvedHere!NewTickets, ProvedHere!Least, ProvedHere!Routed, ProvedHere!WriteItem, ProvedHere!CookNext,
       ProvedHere!Derived, ProvedHere!WriteTicket, ProvedHere!Taken, ProvedHere!WriteReview,
       ProvedHere!Reviewed, ProvedHere!ReadTickets, ProvedHere!WriteCancel
  <1> QED BY <1>1, <1>2

\* and the waiters.
LEMMA SameWaiters ==
    /\ WaiterInit <=> ProvedHere!WaiterInit
    /\ WaiterNext <=> ProvedHere!WaiterNext
  <1>1. WaiterInit <=> ProvedHere!WaiterInit
    BY DEF
       WaiterInit, Off, ProvedHere!WaiterInit, ProvedHere!Off
  <1>2. WaiterNext <=> ProvedHere!WaiterNext
    BY DEF
       WaiterNext, OpenShift, Current, CloseShift, ReadShift, Call, Off, Assign, CopyPreviousShift,
       Redistribute, ReadHelp, Asking, Replace, TableFree, Done, Claim, WriteHelp, Enter, Grants, Commit,
       Rollback, GrantHelp, ProvedHere!WaiterNext, ProvedHere!OpenShift, ProvedHere!Current,
       ProvedHere!CloseShift, ProvedHere!ReadShift, ProvedHere!Call, ProvedHere!Off, ProvedHere!Assign,
       ProvedHere!CopyPreviousShift, ProvedHere!Redistribute, ProvedHere!ReadHelp, ProvedHere!Asking,
       ProvedHere!Replace, ProvedHere!TableFree, ProvedHere!Done, ProvedHere!Claim, ProvedHere!WriteHelp,
       ProvedHere!Enter, ProvedHere!Grants, ProvedHere!Commit, ProvedHere!Rollback, ProvedHere!GrantHelp
  <1> QED BY <1>1, <1>2
-----------------------------------------------------------------------------
\* No item is reviewed or canceled, as EachItemCookedOnce asks.
OnlySent == Batches \subseteq Nat /\ Reviewers = {}

\* Of the component in focus its invariant holds; the kitchen and the
\* waiters keep theirs in any focus, as they rest outside their own.
FocusInv ==
    /\ focus = "ordering" => Proved!VisitInv /\ Proved!SessionInv
    /\ focus = "transfer" => ProvedOfTransfer!SessionInv
    /\ focus = "approving" => Proved!DeskInv
    /\ focus = "cooking" => Proved!KitchenInv
    /\ OnlySent => ProvedHere!KitchenInv
    /\ ProvedHere!TeamInv

\* The component in focus starts as it does alone, ...
LEMMA FocusStarts ==
    BranchInit =>
        /\ focus = "ordering" => Proved!GuestInit
        /\ focus = "transfer" => ProvedOfTransfer!Init
        /\ focus = "approving" => Proved!Desk!Init
        /\ focus = "cooking" => Proved!KitchenInit
        /\ ProvedHere!KitchenInit /\ ProvedHere!WaiterInit
  BY SameGuests, SameRooms, SameDesk, SameScreens, SameKitchen, SameWaiters DEF BranchInit

\* ... and takes its own steps, and the focus stays.
LEMMA FocusMoves ==
    [BranchNext]_vars =>
        /\ focus' = focus
        /\ focus = "ordering" => [Proved!GuestNext]_<<Proved!roomVars, Proved!guestVars>>
        /\ focus = "transfer" => [ProvedOfTransfer!RoomNext]_ProvedOfTransfer!roomVars
        /\ focus = "approving" => [Proved!Desk!Next]_Proved!Desk!approvalVars
        /\ focus = "cooking" => [Proved!KitchenNext]_Proved!kitchenVars
        /\ [ProvedHere!KitchenNext]_ProvedHere!kitchenVars
        /\ [ProvedHere!WaiterNext]_ProvedHere!waiterVars
  <1>1. ASSUME UNCHANGED vars
        PROVE  /\ focus' = focus
               /\ UNCHANGED <<Proved!roomVars, Proved!guestVars>> /\ UNCHANGED ProvedOfTransfer!roomVars
               /\ UNCHANGED Proved!Desk!approvalVars /\ UNCHANGED Proved!kitchenVars
               /\ UNCHANGED ProvedHere!kitchenVars /\ UNCHANGED ProvedHere!waiterVars
    BY <1>1 DEF vars, visits, approvals, screens, roomVars, kitchenVars, waiterVars, Proved!roomVars,
       Proved!guestVars, ProvedOfTransfer!roomVars, Proved!Desk!approvalVars, Proved!kitchenVars,
       ProvedHere!kitchenVars, ProvedHere!waiterVars
  <1>2. ASSUME BranchNext
        PROVE  /\ focus' = focus
               /\ focus = "ordering" => Ordering!GuestNext
               /\ focus = "transfer" => Transfer!RoomNext
               /\ focus = "approving" => Approving!Next
               /\ focus = "cooking" => Cooking!KitchenNext
               /\ KitchenNext \/ UNCHANGED kitchenVars
               /\ WaiterNext \/ UNCHANGED waiterVars
    BY <1>2 DEF BranchNext
  <1>3. /\ kitchenVars = ProvedHere!kitchenVars /\ kitchenVars' = ProvedHere!kitchenVars'
        /\ waiterVars = ProvedHere!waiterVars /\ waiterVars' = ProvedHere!waiterVars'
    BY DEF kitchenVars, waiterVars, ProvedHere!kitchenVars, ProvedHere!waiterVars
  <1> QED
    BY <1>1, <1>2, <1>3, SameGuests, SameRooms, SameDesk, SameScreens, SameKitchen, SameWaiters

\* Each instance starts with its component's invariant,
LEMMA FocusInvStarts == BranchInit => FocusInv
  <1>1. Proved!GuestInit => Proved!Init
    BY DEF Proved!GuestInit
  <1> QED
    BY <1>1, FocusStarts, ProvedHere!KitchenStarts, Proved!VisitsStart, Proved!SessionsStart, ProvedOfTransfer!SessionsStart,
       Proved!DeskStarts, Proved!KitchenStarts, ProvedHere!TeamStarts DEF FocusInv

\* and keeps it while the behaviour follows it: its step is one the proofs are about.
LEMMA FocusInvInductive ==
    FocusInv /\ [BranchNext]_vars =>
        /\ FocusInv'
        /\ focus = "ordering" => Proved!EndedStays
        /\ focus = "transfer" => ProvedOfTransfer!EndedStays
        /\ focus = "cooking" => Proved!ShownKept
  <1> SUFFICES ASSUME FocusInv, [BranchNext]_vars
               PROVE  /\ FocusInv'
                      /\ focus = "ordering" => Proved!EndedStays
                      /\ focus = "transfer" => ProvedOfTransfer!EndedStays
                      /\ focus = "cooking" => Proved!ShownKept
    OBVIOUS
  <1>1. focus = "ordering" => (Proved!VisitInv /\ Proved!SessionInv)' /\ Proved!EndedStays
    <2>1. {1, 2} \subseteq Nat
      OBVIOUS
    <2> QED BY <2>1, FocusMoves, Proved!VisitStep, Proved!VisitsEndNothing DEF FocusInv
  <1>2. focus = "transfer" => ProvedOfTransfer!SessionInv' /\ ProvedOfTransfer!EndedStays
    <2>1. {1, 2} \subseteq Nat
      OBVIOUS
    <2> QED BY <2>1, FocusMoves, ProvedOfTransfer!SessionStep DEF FocusInv
  <1>3. focus = "approving" => Proved!DeskInv'
    BY FocusMoves, Proved!DeskStep DEF FocusInv
  <1>4. focus = "cooking" => Proved!KitchenInv' /\ Proved!ShownKept
    <2>1. {1} \subseteq Nat
      OBVIOUS
    <2> QED BY <2>1, FocusMoves, Proved!KitchenStep DEF FocusInv
  <1>5. ProvedHere!TeamInv'
    <2>1. ProvedHere!IsFiniteSet(Helps)
      BY HelpsAssumption DEF IsFiniteSet, ProvedHere!IsFiniteSet
    <2> QED BY <2>1, FocusMoves, ProvedHere!TeamStep DEF FocusInv
  <1>6. OnlySent => ProvedHere!KitchenInv'
    BY FocusMoves, ProvedHere!KitchenStep DEF FocusInv, OnlySent
  <1> QED
    BY <1>1, <1>2, <1>3, <1>4, <1>5, <1>6, FocusMoves DEF FocusInv

\* What is said of the instances is what the proofs say.
LEMMA SameProperties ==
    /\ Ordering!PlacedOnce <=> Proved!PlacedOnce
    /\ Approving!StockReturnedOnce <=> Proved!Desk!StockReturnedOnce
    /\ Cooking!TicketsMatch <=> Proved!TicketsMatch
    /\ TicketsMatch <=> ProvedHere!TicketsMatch
    /\ ServesOwnTable <=> ProvedHere!ServesOwnTable
    /\ EachHelpGranted <=> ProvedHere!EachHelpGranted
    /\ Ordering!EndedStays <=> Proved!EndedStays
    /\ Transfer!EndedStays <=> ProvedOfTransfer!EndedStays
    /\ Cooking!ServedStays <=> Proved!ShownKept
  <1>1. Ordering!PlacedOnce <=> Proved!PlacedOnce
    BY DEF
       Ordering!PlacedOnce, Proved!PlacedOnce
  <1>2. Approving!StockReturnedOnce <=> Proved!Desk!StockReturnedOnce
    BY DEF
       Approving!StockReturnedOnce, Proved!Desk!StockReturnedOnce
  <1>3. Cooking!TicketsMatch <=> Proved!TicketsMatch
    BY DEF
       Cooking!TicketsMatch, Cooking!OnTicket, Cooking!Cardinality, Proved!TicketsMatch, Proved!OnTicket,
       Proved!Cardinality
  <1>4. TicketsMatch <=> ProvedHere!TicketsMatch
    BY DEF
       TicketsMatch, OnTicket, Cardinality, ProvedHere!TicketsMatch, ProvedHere!OnTicket, ProvedHere!Cardinality
  <1>5. ServesOwnTable <=> ProvedHere!ServesOwnTable
    BY DEF
       ServesOwnTable, ProvedHere!ServesOwnTable
  <1>6. EachHelpGranted <=> ProvedHere!EachHelpGranted
    BY DEF
       EachHelpGranted, Cardinality, ProvedHere!EachHelpGranted, ProvedHere!Cardinality
  <1>7. Ordering!EndedStays <=> Proved!EndedStays
    BY DEF
       Ordering!EndedStays, Proved!EndedStays
  <1>8. Transfer!EndedStays <=> ProvedOfTransfer!EndedStays
    BY DEF
       Transfer!EndedStays, ProvedOfTransfer!EndedStays
  <1>9. Cooking!ServedStays <=> Proved!ShownKept
    BY DEF
       Cooking!ServedStays, Cooking!Tickets, Proved!Tickets, Proved!ShownKept
  <1> QED BY <1>1, <1>2, <1>3, <1>4, <1>5, <1>6, <1>7, <1>8, <1>9

\* An order that is repeated with its key is placed once, canceled stock goes
\* back once, an item is cooked once under two screens and no grant of help is
\* used twice, where the components are composed.
THEOREM EffectsHold == BranchSpec => []EffectsOnce
  <1>1. FocusInv => EffectsOnce
    <2> SUFFICES ASSUME FocusInv PROVE EffectsOnce
      OBVIOUS
    <2>1. focus = "ordering" => Ordering!PlacedOnce
      BY SameProperties DEF FocusInv, Proved!VisitInv
    <2>2. focus = "approving" => Approving!StockReturnedOnce
      BY SameProperties DEF FocusInv, Proved!DeskInv
    <2>3. focus = "cooking" => Cooking!TicketsMatch
      BY SameProperties, Proved!KitchenMatches DEF FocusInv
    <2>4. EachHelpGranted
      BY SameProperties, ProvedHere!TeamServes DEF FocusInv
    <2> QED BY <2>1, <2>2, <2>3, <2>4 DEF EffectsOnce
  <1> QED BY <1>1, FocusInvStarts, FocusInvInductive, PTL DEF BranchSpec

\* An ended service session stays ended, under transfers and under guests that
\* order, and what was served stays served on the screens.
THEOREM FinalsHold == BranchSpec => FinalStaysFinal
  <1>1. FocusInv /\ [BranchNext]_vars =>
          [/\ focus = "transfer" => Transfer!EndedStays
           /\ focus = "ordering" => Ordering!EndedStays
           /\ focus = "cooking" => Cooking!ServedStays]_vars
    BY FocusInvInductive, SameProperties
  <1> QED BY <1>1, FocusInvStarts, FocusInvInductive, PTL DEF BranchSpec, FinalStaysFinal

\* And in the composition too what was sent is on its tickets and waiters serve
\* their own tables.
THEOREM BranchServes ==
    BranchSpec => []((OnlySent => TicketsMatch) /\ ServesOwnTable)
  <1>1. FocusInv => (OnlySent => TicketsMatch) /\ ServesOwnTable
    BY SameProperties, ProvedHere!KitchenMatches, ProvedHere!TeamServes DEF FocusInv
  <1> QED BY <1>1, FocusInvStarts, FocusInvInductive, PTL DEF BranchSpec
=============================================================================
