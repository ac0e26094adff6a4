-------------------------------- MODULE Grid --------------------------------
(***************************************************************************)
(* components/grid.tsx: a long list of which only the rows in view are     *)
(* rendered, and which follows its end until the user scrolls up.  The     *)
(* browser's position and the one React knows differ until the scroll      *)
(* event.  The columns, which only lay the cells out, are left out.        *)
(***************************************************************************)
EXTENDS Integers

CONSTANTS
    RowHeight, BodyHeight,   \* pixels of a row and of the body
    NearEnd                  \* pixels from the end that are at the end (10 in the code)

NewGrid == [scrollTop |-> 0, bodyTop |-> 0, autoScroll |-> TRUE]

GridType(g) ==
    /\ g.scrollTop \in Nat /\ g.bodyTop \in Nat /\ g.autoScroll \in BOOLEAN

Lesser(a, b) == IF a <= b THEN a ELSE b
ScrollHeight(rowCount) == IF rowCount * RowHeight < BodyHeight THEN BodyHeight ELSE rowCount * RowHeight
MaxTop(rowCount) == ScrollHeight(rowCount) - BodyHeight

\* rowRange: the rows from start up to, not including, end.
RowRange(g, rowCount) ==
    [start |-> Lesser(rowCount, g.scrollTop \div RowHeight),
     end |-> Lesser(rowCount, (g.scrollTop + BodyHeight + RowHeight - 1) \div RowHeight)]

\* The list has rowCount rows now: the browser clips the position, and the
\* effect of the render goes to the end if the grid follows it.
Rendered(g, rowCount) ==
    [g EXCEPT !.bodyTop = IF g.autoScroll THEN MaxTop(rowCount) ELSE Lesser(@, MaxTop(rowCount))]

\* onScroll.
HandleScroll(g, rowCount) ==
    LET end == ScrollHeight(rowCount)
        auto == IF g.autoScroll
                THEN ~(g.scrollTop < end - BodyHeight /\ g.bodyTop < g.scrollTop)
                ELSE g.bodyTop + BodyHeight >= end - NearEnd
    IN Rendered([g EXCEPT !.autoScroll = auto, !.scrollTop = g.bodyTop], rowCount)

---------------------------------------------------------------------------
(* Properties                                                              *)

\* Only rows of the list are rendered, also while the position is older than
\* the list.
RowsExist(g, rowCount) ==
    /\ RowRange(g, rowCount).start <= RowRange(g, rowCount).end
    /\ RowRange(g, rowCount).end <= rowCount
=============================================================================
