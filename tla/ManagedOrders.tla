---------------------------- MODULE ManagedOrders ----------------------------
(***************************************************************************)
(* The use cases that the container makes for placing and closing orders,  *)
(* and the ApprovalManager they ask: requests for one symbol, by threads.  *)
(* A lock for each symbol is made when it is first looked for.  What a     *)
(* request is told comes back to it through an object of its own, which    *)
(* the table of pending approvals holds under the symbol.                  *)
(***************************************************************************)
EXTENDS Naturals, FiniteSets

CONSTANTS
  Callers,      \* threads that execute a use case
  Nothing,      \* no lock, and no approval pending
  MaxApprovals  \* bound: buttons pressed

ASSUME ManagedAssumption ==
  IsFiniteSet(Callers) /\ Nothing \notin Callers /\ MaxApprovals \in Nat

VARIABLES
  wired,      \* REQUIRE_HUMAN_APPROVAL, and whether the manager has a bot to ask with
  symbolLock, \* the lock of the symbol in _symbol_locks, named after who made it
  holder,     \* who holds each lock that was made
  caller,     \* where each request is, its lock, what its approval says
  pending,    \* whose approval _pending holds for the symbol
  approvals,  \* the presses of the approval button that found an approval pending
  approvedOrders, \* the orders sent that had to be approved
  window,     \* what the deduplicator has recorded within its window
  openRow     \* whether the symbol has an open trade

managedVars == <<wired, symbolLock, holder, caller, pending, approvals, approvedOrders, window, openRow>>

NoCaller == [pc |-> "idle", lock |-> Nothing, approved |-> "open"]

ManagedInit ==
  /\ wired \in [required: BOOLEAN, bot: BOOLEAN]
  /\ symbolLock = Nothing
  /\ holder = [l \in Callers |-> Nothing]
  /\ caller = [c \in Callers |-> NoCaller]
  /\ pending = Nothing
  /\ approvals = 0 /\ approvedOrders = 0
  /\ window = {} /\ openRow = FALSE

ManagedTypeOK ==
  /\ wired \in [required: BOOLEAN, bot: BOOLEAN]
  /\ symbolLock \in Callers \cup {Nothing}
  /\ holder \in [Callers -> Callers \cup {Nothing}]
  /\ caller \in [Callers -> [pc: {"idle", "nolock", "getlock", "lock", "check", "ask", "sending", "waiting",
                                  "granted", "refused", "place", "insert", "close", "closerow"},
                             lock: Callers \cup {Nothing}, approved: {"open", "yes", "no"}]]
  /\ pending \in Callers \cup {Nothing}
  /\ approvals \in 0..MaxApprovals /\ approvedOrders \in 0..MaxApprovals
  /\ window \subseteq {"entry", "close"} /\ openRow \in BOOLEAN

CallerAt(c, pc) == caller[c].pc = pc
CallerTo(c, pc) == caller' = [caller EXCEPT ![c].pc = pc]

\* The with releases the lock, whether the request returns or raises.
Release(c) ==
  /\ caller' = [caller EXCEPT ![c] = NoCaller]
  /\ holder' = [l \in Callers |-> IF l = caller[c].lock THEN Nothing ELSE holder[l]]

---------------------------------------------------------------------------
(* PlaceOrderUseCase.execute *)

\* _get_lock: the test, the write and the read are three steps.
FindLock(c) ==
  /\ CallerAt(c, "idle")
  /\ CallerTo(c, IF symbolLock = Nothing THEN "nolock" ELSE "getlock")
  /\ UNCHANGED <<wired, symbolLock, holder, pending, approvals, approvedOrders, window, openRow>>

MakeLock(c) ==
  /\ CallerAt(c, "nolock")
  /\ symbolLock' = c /\ CallerTo(c, "getlock")
  /\ UNCHANGED <<wired, holder, pending, approvals, approvedOrders, window, openRow>>

GetLock(c) ==
  /\ CallerAt(c, "getlock")
  /\ caller' = [caller EXCEPT ![c] = [NoCaller EXCEPT !.pc = "lock", !.lock = symbolLock]]
  /\ UNCHANGED <<wired, symbolLock, holder, pending, approvals, approvedOrders, window, openRow>>

Acquire(c) ==
  /\ CallerAt(c, "lock") /\ holder[caller[c].lock] = Nothing
  /\ holder' = [holder EXCEPT ![caller[c].lock] = c] /\ CallerTo(c, "check")
  /\ UNCHANGED <<wired, symbolLock, pending, approvals, approvedOrders, window, openRow>>

\* What the request finds: the broker may be readable and then not be connected.
Situations ==
  [readable: BOOLEAN, connected: BOOLEAN, listed: BOOLEAN, room: BOOLEAN, type: {"MKT", "LMT", "STP"},
   hours: {"open", "within half an hour", "closed"}, sized: BOOLEAN, affordable: BOOLEAN]

\* validate_order.
Valid(s) == s.listed /\ s.room /\ s.type \in {"MKT", "LMT"} /\ s.hours = "open"

\* PreflightChecker.check, with a limit price wherever one is wanted.  It takes an account that
\* it cannot read for a rich one.
Preflight(s) ==
  /\ s.connected /\ s.listed /\ s.sized
  /\ s.affordable \/ ~s.readable
  /\ s.hours # "closed"

Placeable == {s \in Situations : s.readable /\ Valid(s) /\ s.sized /\ s.affordable /\ Preflight(s)}

Closable == {s \in Situations : s.readable /\ Preflight(s)}

NotPlaced(c) ==
  /\ CallerAt(c, "check") /\ Release(c)
  /\ "entry" \in window \/ (Situations \ Placeable) # {}
  /\ UNCHANGED <<wired, symbolLock, pending, approvals, approvedOrders, window, openRow>>

Checked(c) ==
  /\ CallerAt(c, "check") /\ "entry" \notin window
  /\ Placeable # {}
  /\ CallerTo(c, IF wired.required THEN "ask" ELSE "place")
  /\ UNCHANGED <<wired, symbolLock, holder, pending, approvals, approvedOrders, window, openRow>>

\* The monitor is that of the trading loop.  An order that is sent is recorded after it is done.
Place(c) ==
  /\ CallerAt(c, "place")
  /\ approvedOrders' = IF wired.required THEN approvedOrders + 1 ELSE approvedOrders
  /\ \/ window' = window \cup {"entry"} /\ CallerTo(c, "insert") /\ UNCHANGED holder
     \/ Release(c) /\ UNCHANGED window
  /\ UNCHANGED <<wired, symbolLock, pending, approvals, openRow>>

InsertRow(c) ==
  /\ CallerAt(c, "insert") /\ Release(c)
  /\ openRow' \in {TRUE, openRow}
  /\ UNCHANGED <<wired, symbolLock, pending, approvals, approvedOrders, window>>

---------------------------------------------------------------------------
(* ApprovalManager *)

Unconfigured(c) ==
  /\ CallerAt(c, "ask") /\ ~wired.bot /\ Release(c)
  /\ UNCHANGED <<wired, symbolLock, pending, approvals, approvedOrders, window, openRow>>

\* An approval that was pending for the symbol is pending no more, though its request waits on.
RequestApproval(c) ==
  /\ CallerAt(c, "ask") /\ wired.bot
  /\ pending' = c /\ CallerTo(c, "sending")
  /\ UNCHANGED <<wired, symbolLock, holder, approvals, approvedOrders, window, openRow>>

ApprovalSent(c) ==
  /\ CallerAt(c, "sending") /\ CallerTo(c, "waiting")
  /\ UNCHANGED <<wired, symbolLock, holder, pending, approvals, approvedOrders, window, openRow>>

\* The del raises when another request has deleted the entry; the order is off in both cases.
ApprovalUnsent(c) ==
  /\ CallerAt(c, "sending") /\ Release(c)
  /\ pending' = Nothing
  /\ UNCHANGED <<wired, symbolLock, approvals, approvedOrders, window, openRow>>

\* Mutant of PressButton: the press answers every request that waits for the symbol.
PressForSymbol(verb) ==
  /\ pending # Nothing /\ approvals < MaxApprovals
  /\ caller' = [c \in Callers |-> IF CallerAt(c, "waiting") THEN [caller[c] EXCEPT !.approved = verb]
                                  ELSE caller[c]]
  /\ approvals' = IF verb = "yes" THEN approvals + 1 ELSE approvals
  /\ UNCHANGED <<wired, symbolLock, holder, pending, approvedOrders, window, openRow>>

\* handle_callback: a press finds what is pending now, whatever message it was under.
PressButton(verb) ==
  /\ pending # Nothing /\ approvals < MaxApprovals
  /\ caller' = [caller EXCEPT ![pending].approved = verb]
  /\ approvals' = IF verb = "yes" THEN approvals + 1 ELSE approvals
  /\ UNCHANGED <<wired, symbolLock, holder, pending, approvedOrders, window, openRow>>

\* The request looks every half second, for five minutes, and then edits its message.
SeeAnswer(c) ==
  /\ CallerAt(c, "waiting") /\ caller[c].approved # "open"
  /\ CallerTo(c, IF caller[c].approved = "yes" THEN "granted" ELSE "refused")
  /\ UNCHANGED <<wired, symbolLock, holder, pending, approvals, approvedOrders, window, openRow>>

ApprovalTimesOut(c) ==
  /\ CallerAt(c, "waiting") /\ caller[c].approved = "open"
  /\ CallerTo(c, "refused")
  /\ UNCHANGED <<wired, symbolLock, holder, pending, approvals, approvedOrders, window, openRow>>

\* It deletes whatever the table holds for the symbol; nothing there is a KeyError, which ends
\* the request, approved or not.
Granted(c) ==
  /\ CallerAt(c, "granted") /\ pending # Nothing
  /\ pending' = Nothing /\ CallerTo(c, "place")
  /\ UNCHANGED <<wired, symbolLock, holder, approvals, approvedOrders, window, openRow>>

GrantedRaises(c) ==
  /\ CallerAt(c, "granted") /\ pending = Nothing /\ Release(c)
  /\ UNCHANGED <<wired, symbolLock, pending, approvals, approvedOrders, window, openRow>>

RefusedOrder(c) ==
  /\ CallerAt(c, "refused") /\ Release(c)
  /\ pending' = Nothing
  /\ UNCHANGED <<wired, symbolLock, approvals, approvedOrders, window, openRow>>

---------------------------------------------------------------------------
(* ClosePositionUseCase.execute, without a lock *)

CloseStart(c) ==
  /\ CallerAt(c, "idle") /\ openRow
  /\ CallerTo(c, "close")
  /\ UNCHANGED <<wired, symbolLock, holder, pending, approvals, approvedOrders, window, openRow>>

\* No price, a duplicate, the preflight, the broker.
CloseFails(c) ==
  /\ CallerAt(c, "close") /\ CallerTo(c, "idle")
  /\ UNCHANGED <<wired, symbolLock, holder, pending, approvals, approvedOrders, window, openRow>>

CloseOrder(c) ==
  /\ CallerAt(c, "close") /\ "close" \notin window
  /\ Closable # {}
  /\ window' = window \cup {"close"} /\ CallerTo(c, "closerow")
  /\ UNCHANGED <<wired, symbolLock, holder, pending, approvals, approvedOrders, openRow>>

\* The write may fail: the position is closed and the row is not.
CloseRow(c) ==
  /\ CallerAt(c, "closerow") /\ CallerTo(c, "idle")
  /\ openRow' \in {FALSE, openRow}
  /\ UNCHANGED <<wired, symbolLock, holder, pending, approvals, approvedOrders, window>>

WindowEnds ==
  /\ \E key \in window : window' = window \ {key}
  /\ UNCHANGED <<wired, symbolLock, holder, caller, pending, approvals, approvedOrders, openRow>>

---------------------------------------------------------------------------

ManagedNext ==
  \/ WindowEnds
  \/ \E verb \in {"yes", "no"} : PressButton(verb)
  \/ \E c \in Callers :
       \/ FindLock(c) \/ MakeLock(c) \/ GetLock(c) \/ Acquire(c)
       \/ NotPlaced(c) \/ Checked(c)
       \/ Place(c) \/ InsertRow(c)
       \/ Unconfigured(c) \/ RequestApproval(c) \/ ApprovalSent(c) \/ ApprovalUnsent(c)
       \/ SeeAnswer(c) \/ ApprovalTimesOut(c) \/ Granted(c) \/ GrantedRaises(c) \/ RefusedOrder(c)
       \/ CloseStart(c) \/ CloseFails(c) \/ CloseOrder(c) \/ CloseRow(c)

ManagedSpec == ManagedInit /\ [][ManagedNext]_managedVars

\* Where approval is required, the orders sent are no more than the presses that found one
\* pending: no press lets two orders through, not even when two requests for the symbol hold
\* different locks, or one has taken the other's place in the table (approval.py, _pending).
OnePressOneOrder == wired.required => approvedOrders <= approvals
=============================================================================
