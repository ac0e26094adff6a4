---------------------------- MODULE GlobalState ----------------------------
(***************************************************************************)
(* state/global.ts: the state that the pages of webadb share.  The packet  *)
(* log is in PacketLog.                                                    *)
(***************************************************************************)
EXTENDS DeviceSlot

VARIABLE errorDialogVisible   \* the error dialog covers every page

globalVars == <<adb, conns, errorDialogVisible>>

GlobalTypeOK == errorDialogVisible \in BOOLEAN

GlobalInit == SlotInit /\ errorDialogVisible = FALSE

ShowErrorDialog == errorDialogVisible' = TRUE

\* The button of the error dialog.
HideErrorDialog ==
    /\ errorDialogVisible
    /\ errorDialogVisible' = FALSE
    /\ UNCHANGED slotVars

\* The user works with a page only while no dialog covers it.
UserFree == ~errorDialogVisible

Quiet == UNCHANGED globalVars

\* What happens to the session while a page is open.  Connections are
\* numbered in the order in which they take the slot or are refused.
SessionStep ==
    \/ HideErrorDialog
    \/ /\ \E c \in Connections :
            /\ SlotStep(c)
            /\ \A d \in 1 .. c - 1 : conns[d] # "new"
       /\ UNCHANGED errorDialogVisible
=============================================================================
