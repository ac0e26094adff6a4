---------------------------- MODULE FrameBuffer ----------------------------
(***************************************************************************)
(* pages/framebuffer.tsx: pictures of the screen.                          *)
(***************************************************************************)
EXTENDS GlobalState

VARIABLE shot

FrameBufferInit == shot =
    [image |-> 0,              \* whose screen the picture shows
     captures |-> {},          \* devices asked for one
     saved |-> {},             \* devices whose name a saved picture bears
     demoModeVisible |-> FALSE]

FrameBufferTypeOK ==
    /\ shot.image \in 0 .. MaxConnections
    /\ shot.captures \in SUBSET Connections
    /\ shot.saved \in SUBSET Connections
    /\ shot.demoModeVisible \in BOOLEAN

Capture ==
    /\ UserFree /\ adb # 0 /\ Quiet
    /\ shot' = [shot EXCEPT !.captures = @ \cup {adb}]

Captured(c) ==
    /\ c \in shot.captures /\ conns[c] = "open" /\ Quiet
    /\ shot' = [shot EXCEPT !.captures = @ \ {c}, !.image = c]

NotCaptured(c) ==
    /\ c \in shot.captures
    /\ ShowErrorDialog /\ UNCHANGED slotVars
    /\ shot' = [shot EXCEPT !.captures = @ \ {c}]

\* The file bears the name of the device in the slot, which may not be the
\* one in the picture; without one the handler throws.
Save ==
    /\ UserFree /\ shot.image # 0 /\ adb # 0 /\ Quiet
    /\ shot' = [shot EXCEPT !.saved = @ \cup {adb}]

ToggleDemoModeVisible ==
    /\ UserFree /\ Quiet
    /\ shot' = [shot EXCEPT !.demoModeVisible = ~@]

FrameBufferStep ==
    \/ Capture \/ Save \/ ToggleDemoModeVisible
    \/ \E c \in Connections : Captured(c) \/ NotCaptured(c)
    \/ SessionStep /\ UNCHANGED shot
=============================================================================
