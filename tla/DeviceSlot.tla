----------------------------- MODULE DeviceSlot -----------------------------
(***************************************************************************)
(* What the pages of webadb may rely on: the one device slot of the        *)
(* application (GLOBAL_STATE.adb) and the connections that come and go in  *)
(* it.  A connection takes the slot when it is authenticated, whoever      *)
(* holds it; when it is lost, or is refused, its clean-up empties the      *)
(* slot, whoever holds it by then.                                         *)
(***************************************************************************)
EXTENDS Naturals

CONSTANT MaxConnections   \* bound on the connections of one session
ASSUME MaxConnectionsAssumption == MaxConnections \in Nat \ {0}

VARIABLES
    adb,     \* GLOBAL_STATE.adb: the connection in the slot, 0 when undefined
    conns    \* what became of each connection

Connections == 1 .. MaxConnections
slotVars == <<adb, conns>>

SlotTypeOK ==
    /\ adb \in 0 .. MaxConnections
    /\ conns \in [Connections -> {"new", "open", "lost", "over"}]

SlotInit ==
    /\ adb = 0
    /\ conns = [c \in Connections |-> "new"]

\* The device is authenticated and put in the slot.
Attach(c) ==
    /\ conns[c] = "new"
    /\ conns' = [conns EXCEPT ![c] = "open"]
    /\ adb' = c

\* The connection ends: unplugged, closed by the user or failed.
Lose(c) ==
    /\ conns[c] = "open"
    /\ conns' = [conns EXCEPT ![c] = "lost"]
    /\ UNCHANGED adb

\* The clean-up of a connection that is over, or that was refused.
Clear(c) ==
    /\ conns[c] \in {"new", "lost"}
    /\ conns' = [conns EXCEPT ![c] = "over"]
    /\ adb' = 0

SlotStep(c) == Attach(c) \/ Lose(c) \/ Clear(c)
SlotNext == \E c \in Connections : SlotStep(c)

SlotSpec == SlotInit /\ [][SlotNext]_slotVars

\* Whether a command sent to the connection in the slot can be answered.
Answers == adb # 0 /\ conns[adb] = "open"
=============================================================================
