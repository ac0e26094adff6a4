----------------------------- MODULE PacketLog -----------------------------
(***************************************************************************)
(* pages/packet-log.tsx and the log of state/global.ts: the packets of all *)
(* connections, listed in a grid; the details of one are shown below it.   *)
(* Of a packet only its place in the log is modelled.                      *)
(***************************************************************************)
EXTENDS GlobalState, ListSelection

CONSTANTS MaxPackets, RowHeight, BodyHeight, NearEnd

VARIABLE packets   \* logs: their number; selection; grid

View == INSTANCE Grid

PacketTypeOK ==
    /\ packets.logs \in 0 .. MaxPackets
    /\ SelectionType(packets.selection, MaxPackets)
    /\ View!GridType(packets.grid)

PacketInit ==
    packets = [logs |-> 0, selection |-> NewSelection, grid |-> View!NewGrid]

\* The number of packets changes: the page is rendered, and the autorun of the
\* page clears the selection of an empty log.
LogsChanged(n) ==
    packets' = [packets EXCEPT
        !.logs = n,
        !.selection = IF n = 0 THEN ClearSelection(@) ELSE @,
        !.grid = View!Rendered(@, n)]

\* A packet of any connection, or of an attempt to connect: the log does not
\* depend on the slot.
AppendLog ==
    /\ packets.logs < MaxPackets
    /\ LogsChanged(packets.logs + 1)
    /\ Quiet

ClearLog ==
    /\ UserFree /\ packets.logs # 0
    /\ LogsChanged(0)
    /\ Quiet

PacketSelect(i, ctrlKey, shiftKey) ==
    /\ UserFree /\ i < packets.logs
    /\ packets' = [packets EXCEPT !.selection = Select(@, i, ctrlKey, shiftKey)]
    /\ Quiet

PacketSelectAll ==
    /\ UserFree /\ packets.logs # 0
    /\ packets' = [packets EXCEPT !.selection = SelectAll(@, packets.logs)]
    /\ Quiet

\* The user, or the browser, scrolls; the event follows.
UserScroll(top) ==
    /\ UserFree /\ top <= View!MaxTop(packets.logs)
    /\ packets' = [packets EXCEPT !.grid.bodyTop = top]
    /\ Quiet

ScrollEvent ==
    /\ packets.grid.bodyTop # packets.grid.scrollTop
    /\ packets' = [packets EXCEPT !.grid = View!HandleScroll(@, packets.logs)]
    /\ Quiet

\* The boxes of the rows follow what is on the screen.
RenderRows ==
    LET range == View!RowRange(packets.grid, packets.logs)
        shown == range.start .. range.end - 1
        boxes == DOMAIN packets.selection.hasMap
    IN /\ boxes # shown
       /\ packets' = [packets EXCEPT !.selection.hasMap =
                        [i \in shown |-> IF i \in boxes THEN @[i] ELSE i \in packets.selection.selected]]
       /\ Quiet

PacketStep ==
    \/ AppendLog \/ ClearLog \/ PacketSelectAll \/ ScrollEvent \/ RenderRows
    \/ \E i \in 0 .. MaxPackets - 1, ctrlKey, shiftKey \in BOOLEAN : PacketSelect(i, ctrlKey, shiftKey)
    \/ \E top \in 0 .. MaxPackets * RowHeight : UserScroll(top)

---------------------------------------------------------------------------
(* Properties                                                              *)

\* Every packet selected, the one shown in detail among them, is in the log,
\* also after the log was cleared.
PacketsSelected ==
    /\ \A i \in packets.selection.selected : i < packets.logs
    /\ packets.selection.selectedIndex < packets.logs
=============================================================================
