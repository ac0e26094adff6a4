--------------------------- MODULE ListSelection ---------------------------
(***************************************************************************)
(* components/list-selection.ts: the rows selected in a list.  The set is  *)
(* a B-tree; hasMap keeps, for the rows on the screen, an observable box   *)
(* that holds whether the row is selected, and every change of the tree    *)
(* must reach the boxes.                                                   *)
(***************************************************************************)
EXTENDS Integers

None == -2   \* null; -1 is what the pages select at the end of an empty list

NewSelection == [selected |-> {}, hasMap |-> <<>>, rangeStart |-> 0, selectedIndex |-> None]

SelectionType(s, n) ==
    /\ s.selected \subseteq -1 .. n /\ DOMAIN s.hasMap \subseteq 0 .. n
    /\ \A i \in DOMAIN s.hasMap : s.hasMap[i] \in BOOLEAN
    /\ s.rangeStart \in 0 .. n /\ s.selectedIndex \in {None} \cup (-1 .. n)

---------------------------------------------------------------------------
(* ObservableBTree                                                         *)

\* has() makes the box of a row that has none.
Boxed(s, i) ==
    [s EXCEPT !.hasMap = [j \in DOMAIN @ \cup {i} |-> IF j \in DOMAIN @ THEN @[j] ELSE j \in s.selected]]

SetBox(s, i, value) == [s EXCEPT !.hasMap = [j \in DOMAIN @ |-> IF j = i THEN value ELSE @[j]]]

Add(s, i) ==
    IF i \in s.selected THEN s
    ELSE [SetBox(s, i, TRUE) EXCEPT !.selected = @ \cup {i}]

Delete(s, i) ==
    IF i \notin s.selected THEN s
    ELSE [SetBox(s, i, FALSE) EXCEPT !.selected = @ \ {i}]

\* Mutant of ClearTree: the boxes are not told.
ClearTreeOnly(s) == [s EXCEPT !.selected = {}]

ClearTree(s) ==
    IF s.selected = {} THEN s
    ELSE [s EXCEPT !.selected = {}, !.hasMap = [j \in DOMAIN @ |-> FALSE]]

---------------------------------------------------------------------------
(* ObservableListSelection                                                 *)

AddRange(s, range) ==
    [s EXCEPT !.selected = @ \cup range,
              !.hasMap = [j \in DOMAIN @ |-> IF j \in range THEN TRUE ELSE @[j]]]

SelectRange(s, index, ctrlKey) ==
    LET from == IF ctrlKey THEN s ELSE ClearTree(s)
        range == IF s.rangeStart <= index THEN s.rangeStart .. index ELSE index .. s.rangeStart
    IN [AddRange(from, range) EXCEPT !.selectedIndex = index]

ToggleOne(s, index) ==
    LET seen == Boxed(s, index) IN
    [(IF index \in s.selected THEN Delete(seen, index) ELSE Add(seen, index)) EXCEPT
        !.selectedIndex = IF index \in s.selected THEN None ELSE index,
        !.rangeStart = index]

SelectOne(s, index) ==
    [Add(ClearTree(s), index) EXCEPT !.rangeStart = index, !.selectedIndex = index]

Select(s, index, ctrlKey, shiftKey) ==
    CASE shiftKey -> SelectRange(s, index, ctrlKey)
      [] ctrlKey /\ ~shiftKey -> ToggleOne(s, index)
      [] OTHER -> SelectOne(s, index)

\* Mutant of ClearSelection: a range starts nowhere.
ClearRangeStart(s) == [ClearTree(s) EXCEPT !.rangeStart = None, !.selectedIndex = None]

ClearSelection(s) == [ClearTree(s) EXCEPT !.rangeStart = 0, !.selectedIndex = None]

\* "select all" of a list of n rows; of none it selects row -1 and row 0.
SelectAll(s, n) == Select(ClearSelection(s), n - 1, FALSE, TRUE)

---------------------------------------------------------------------------
(* Properties                                                              *)

\* What a row shows is what is selected, however the selection was made, and
\* the row whose details are shown is a selected one.
SelectionShown(s) ==
    /\ \A i \in DOMAIN s.hasMap : s.hasMap[i] = (i \in s.selected)
    /\ s.selectedIndex # None => s.selectedIndex \in s.selected
=============================================================================
