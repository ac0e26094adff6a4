---------------------------- MODULE Logs_proofs ----------------------------
(***************************************************************************)
(* The two lists of webadb and the socket under them, for every number of  *)
(* runs, entries, rows and packets and every size of the rows.             *)
(* No entry is lost, doubled or out of order (LogInOrder): what is listed  *)
(* or buffered is no newer than the last entry of the last run             *)
(* (NoneNewer), so that the next one comes after it.  The rows selected    *)
(* are rows there can be (LogsTypeOK): an entry's place in the list is not *)
(* beyond its place among all entries (Ranked), so that the list stays     *)
(* short.  The rows show what is selected and exist (RowsSound): whatever  *)
(* is selected, the boxes are told (Retold), and of packets a range starts *)
(* in the log (SelectedLogged).  The socket and connect() agree            *)
(* (Connected), and what is unread is what came last (Unread).             *)
(***************************************************************************)
EXTENDS Logs, SequenceTheorems, TLAPS

Entry == Nat \X Nat
All(l) == l.list \o l.buffer

Follows(e, f) ==
  /\ Before(e, f)
  /\ e[1] = f[1] => f[2] = e[2] + 1

Ordered(s) == \A i \in 1 .. Len(s) - 1 : Follows(s[i], s[i + 1])

LogShape(l) ==
  /\ {"run", "sent", "stream", "running", "buffer", "flushRequested", "list", "selection",
      "format", "time", "nanosecond", "uid", "timezone"} \subseteq DOMAIN l
  /\ l.run \in Nat /\ l.sent \in Nat
  /\ l.buffer \in Seq(Entry) /\ l.list \in Seq(Entry)

NoneNewer(l) ==
  All(l) # <<>> =>
    LET e == All(l)[Len(All(l))] IN e[1] < l.run \/ e = <<l.run, l.sent>>

WillFlush(l) ==
  /\ l.buffer # <<>> => l.flushRequested
  /\ l.sent > 0 /\ l.buffer # <<>> => l.buffer[Len(l.buffer)] = <<l.run, l.sent>>

LogInv == LogShape(log) /\ Ordered(All(log)) /\ NoneNewer(log) /\ WillFlush(log)

-----------------------------------------------------------------------------
(* Sequences of entries                                                    *)

LEMMA OrderedEnd ==
  ASSUME NEW s \in Seq(Entry), NEW t \in Seq(Entry), Ordered(s \o t)
  PROVE  Ordered(t)
<1> SUFFICES ASSUME NEW i \in 1 .. Len(t) - 1
             PROVE  Follows(t[i], t[i + 1])
  BY DEF Ordered
<1>1. Len(s) \in Nat /\ Len(t) \in Nat /\ Len(s \o t) = Len(s) + Len(t)
  BY SMT
<1>2. Len(s) + i \in 1 .. Len(s \o t) - 1
  BY <1>1, SMT
<1>3. (s \o t)[Len(s) + i] = t[i] /\ (s \o t)[Len(s) + i + 1] = t[i + 1]
  BY <1>1, SMT
<1> QED
  BY <1>2, <1>3 DEF Ordered

LEMMA OrderedAppend ==
  ASSUME NEW s \in Seq(Entry), NEW e \in Entry, Ordered(s),
         s # <<>> => Follows(s[Len(s)], e)
  PROVE  Ordered(Append(s, e))
<1> SUFFICES ASSUME NEW i \in 1 .. Len(Append(s, e)) - 1
             PROVE  Follows(Append(s, e)[i], Append(s, e)[i + 1])
  BY DEF Ordered
<1>1. Len(s) \in Nat /\ Len(Append(s, e)) = Len(s) + 1
  BY SMT
<1>2. CASE i = Len(s)
  BY <1>1, <1>2, SMT
<1>3. CASE i # Len(s)
  <2>1. i \in 1 .. Len(s) - 1 /\ Append(s, e)[i] = s[i] /\ Append(s, e)[i + 1] = s[i + 1]
    BY <1>1, <1>3, SMT
  <2> QED
    BY <2>1 DEF Ordered
<1> QED
  BY <1>2, <1>3

-----------------------------------------------------------------------------
(* The page                                                                *)

LEMMA Start == LogsInit => LogInv
<1> SUFFICES ASSUME LogsInit PROVE LogInv
  OBVIOUS
<1>1. log.list = <<>> /\ log.buffer = <<>> /\ All(log) = <<>>
  BY SMT DEF LogsInit, LogInit, All
<1> QED
  BY <1>1, SMT DEF LogsInit, LogInit, LogInv, LogShape, Ordered, NoneNewer, WillFlush

(* Steps that leave the list, the buffer and the run alone.                *)
Aside ==
  /\ DOMAIN log' = DOMAIN log
  /\ \A f \in {"run", "sent", "buffer", "flushRequested", "list"} : log'[f] = log[f]

LEMMA AsideKeeps ==
  ASSUME LogInv, Aside
  PROVE  LogInv'
<1>1. /\ log'.run = log.run /\ log'.sent = log.sent /\ log'.buffer = log.buffer
      /\ log'.flushRequested = log.flushRequested /\ log'.list = log.list
  BY DEF Aside
<1>2. All(log') = All(log)
  BY <1>1 DEF All
<1> QED
  BY <1>1, <1>2 DEF LogInv, LogShape, NoneNewer, WillFlush, Aside

LEMMA WriteKeeps ==
  ASSUME LogInv, LogWrite
  PROVE  LogInv'
<1> DEFINE e == <<log.run, log.sent + 1>>
<1>1. /\ DOMAIN log' = DOMAIN log
      /\ log'.run = log.run /\ log'.sent = log.sent + 1 /\ log'.list = log.list
      /\ log'.buffer = Append(log.buffer, e) /\ log'.flushRequested = TRUE
  BY DEF LogInv, LogShape, LogWrite
<1>2. e \in Entry /\ All(log) \in Seq(Entry)
  BY SMT DEF LogInv, LogShape, All, Entry
<1>3. All(log') = Append(All(log), e)
  BY <1>1, <1>2, SMT DEF LogInv, LogShape, All
<1>4. Ordered(All(log'))
  <2>1. All(log) # <<>> => Follows(All(log)[Len(All(log))], e)
    BY SMT DEF LogInv, LogShape, NoneNewer, Follows, Before
  <2> QED
    BY <1>2, <1>3, <2>1, OrderedAppend DEF LogInv
<1>5. LogShape(log')
  BY <1>1, <1>2, SMT DEF LogInv, LogShape
<1>6. NoneNewer(log')
  BY <1>1, <1>2, <1>3, SMT DEF NoneNewer
<1>7. WillFlush(log')
  BY <1>1, <1>2, SMT DEF WillFlush, LogInv, LogShape
<1> QED
  BY <1>4, <1>5, <1>6, <1>7 DEF LogInv

LEMMA FlushKeeps ==
  ASSUME LogInv, LogFlush
  PROVE  LogInv'
<1>1. /\ DOMAIN log' = DOMAIN log
      /\ log'.run = log.run /\ log'.sent = log.sent /\ log'.list = log.list \o log.buffer
      /\ log'.buffer = <<>>
  BY DEF LogInv, LogShape, LogFlush
<1>2. All(log') = All(log)
  BY <1>1, SMT DEF LogInv, LogShape, All
<1>3. LogShape(log')
  BY <1>1, SMT DEF LogInv, LogShape
<1> QED
  BY <1>1, <1>2, <1>3 DEF LogInv, NoneNewer, WillFlush

(* The list is emptied: what is buffered stays, and is in order.           *)
LEMMA EmptiedKeeps ==
  ASSUME LogInv, LogStart \/ LogClear
  PROVE  LogInv'
<1>1. /\ DOMAIN log' = DOMAIN log /\ log'.list = <<>> /\ log'.buffer = log.buffer
      /\ log'.flushRequested = log.flushRequested
      /\ \/ log'.run = log.run /\ log'.sent = log.sent
         \/ log'.run = log.run + 1 /\ log'.sent = 0
  BY DEF LogInv, LogShape, LogStart, LogClear
<1>2. All(log') = log.buffer
  BY <1>1, SMT DEF LogInv, LogShape, All
<1>3. Ordered(All(log'))
  BY <1>2, OrderedEnd DEF LogInv, LogShape, All
<1>4. NoneNewer(log')
  <2> SUFFICES ASSUME log.buffer # <<>>
               PROVE  NoneNewer(log')
    BY <1>2 DEF NoneNewer
  <2>1. All(log) # <<>> /\ All(log)[Len(All(log))] = log.buffer[Len(log.buffer)]
    BY SMT DEF LogInv, LogShape, All
  <2>2. log.buffer[Len(log.buffer)] \in Entry
    BY SMT DEF LogInv, LogShape
  <2> QED
    BY <1>1, <1>2, <2>1, <2>2, SMT DEF LogInv, LogShape, NoneNewer, Entry
<1>5. LogShape(log')
  BY <1>1, SMT DEF LogInv, LogShape
<1>6. WillFlush(log')
  BY <1>1, SMT DEF LogInv, LogShape, WillFlush
<1> QED
  BY <1>3, <1>4, <1>5, <1>6 DEF LogInv

LEMMA Keeps ==
  ASSUME LogInv, [LogsNext]_logsVars
  PROVE  LogInv'
<1>1. CASE LogWrite
  BY <1>1, WriteKeeps
<1>2. CASE LogFlush
  BY <1>2, FlushKeeps
<1>3. CASE LogStart \/ LogClear
  BY <1>3, EmptiedKeeps
<1>4. CASE UNCHANGED log
  BY <1>4, AsideKeeps DEF Aside
<1>5. CASE LogDeviceStep
  BY <1>5, AsideKeeps DEF Aside, LogDeviceStep, Stopped, LogInv, LogShape
<1>6. CASE LogStop
  BY <1>6, AsideKeeps DEF Aside, LogStop, Stopped, LogInv, LogShape
<1>7. CASE LogStreamEnds
  BY <1>7, AsideKeeps DEF Aside, LogStreamEnds, LogInv, LogShape
<1>8. CASE LogSelectAll \/ LogEscape
           \/ \E i \in 0 .. MaxRows - 1, ctrlKey, shiftKey \in BOOLEAN :
                LogSelect(i, ctrlKey, shiftKey)
  BY <1>8, AsideKeeps DEF Aside, LogSelectAll, LogEscape, LogSelect, LogInv, LogShape
<1>9. CASE FormatStep
  BY <1>9, AsideKeeps DEF Aside, FormatStep, ChooseFormat, ToggleModifier, ChooseTime,
     ChooseNanosecond, LogInv, LogShape
<1> QED
  BY <1>1, <1>2, <1>3, <1>4, <1>5, <1>6, <1>7, <1>8, <1>9 DEF LogsNext, LogStep, logsVars

(* logcat.tsx: of one run no entry is lost, doubled or out of order on its *)
(* way through the buffer to the list, whatever is started, stopped and    *)
(* cleared between two frames, and what is buffered will be flushed.       *)
THEOREM LogAlwaysInOrder == LogsSpec => []LogInOrder
<1>1. LogInv => LogInOrder
  <2> SUFFICES ASSUME LogInv PROVE LogInOrder
    OBVIOUS
  <2>1. log.sent > 0 /\ log.buffer # <<>> => Last(log.buffer) = <<log.run, log.sent>>
    BY DEF LogInv, WillFlush, Last
  <2> QED
    BY <2>1 DEF LogInv, WillFlush, LogInOrder, Ordered, Follows, All
<1> QED
  BY <1>1, Start, Keeps, PTL DEF LogsSpec
-----------------------------------------------------------------------------
(* The selection of rows                                                   *)

Boxes(n) == UNION {[S -> BOOLEAN] : S \in SUBSET (0 .. n)}

Selections(n) ==
  [selected : SUBSET (-1 .. n), hasMap : Boxes(n), rangeStart : 0 .. n,
   selectedIndex : {None} \cup (-1 .. n)]

\* The rows' boxes hold what is selected.
BoxesShow(s) == \A i \in DOMAIN s.hasMap : s.hasMap[i] = (i \in s.selected)

LEMMA BoxesAre ==
  ASSUME NEW n, NEW f
  PROVE  f \in Boxes(n) <=> /\ DOMAIN f \subseteq 0 .. n /\ f = [i \in DOMAIN f |-> f[i]]
                           /\ \A i \in DOMAIN f : f[i] \in BOOLEAN
<1>1. ASSUME f \in Boxes(n)
      PROVE  /\ DOMAIN f \subseteq 0 .. n /\ f = [i \in DOMAIN f |-> f[i]]
             /\ \A i \in DOMAIN f : f[i] \in BOOLEAN
  <2>1. PICK S \in SUBSET (0 .. n) : f \in [S -> BOOLEAN]
    BY <1>1 DEF Boxes
  <2> QED
    BY <2>1
<1>2. ASSUME DOMAIN f \subseteq 0 .. n, f = [i \in DOMAIN f |-> f[i]],
             \A i \in DOMAIN f : f[i] \in BOOLEAN
      PROVE  f \in Boxes(n)
  <2>1. f \in [DOMAIN f -> BOOLEAN]
    BY <1>2
  <2> QED
    BY <1>2, <2>1 DEF Boxes
<1> QED
  BY <1>1, <1>2

LEMMA SelectionsAre ==
  ASSUME NEW n \in Nat, NEW s \in Selections(n)
  PROVE  SelectionType(s, n)
BY BoxesAre, Zenon DEF Selections, SelectionType

LEMMA NewSelectionFits ==
  ASSUME NEW n \in Nat
  PROVE  NewSelection \in Selections(n) /\ SelectionShown(NewSelection)
<1>1. <<>> \in Boxes(n) /\ DOMAIN <<>> = {}
  <2>1. <<>> \in Seq(BOOLEAN) /\ Len(<<>>) = 0 /\ 1 .. 0 = {}
    BY SMT
  <2>2. <<>> \in [{} -> BOOLEAN]
    BY <2>1, LenProperties
  <2> QED
    BY <2>2 DEF Boxes
<1>2. 0 \in 0 .. n
  BY SMT
<1> QED
  BY <1>1, <1>2 DEF NewSelection, Selections, SelectionShown, None

-----------------------------------------------------------------------------
(* The operations of a selection, and its boxes after each                 *)

\* The boxes take the values g.
LEMMA ReBoxed ==
  ASSUME NEW n \in Nat, NEW S \in SUBSET (0 .. n), NEW g, \A i \in S : g[i] \in BOOLEAN,
         NEW h, h = [i \in S |-> g[i]]
  PROVE  h \in Boxes(n) /\ DOMAIN h = S
<1>1. h \in [S -> BOOLEAN]
  OBVIOUS
<1> QED
  BY <1>1 DEF Boxes

LEMMA BoxedKeeps ==
  ASSUME NEW n \in Nat, NEW s \in Selections(n), BoxesShow(s), NEW i \in 0 .. n
  PROVE  /\ Boxed(s, i) \in Selections(n) /\ BoxesShow(Boxed(s, i))
         /\ Boxed(s, i).selected = s.selected
<1> DEFINE f == s.hasMap
           m == [j \in DOMAIN f \cup {i} |-> IF j \in DOMAIN f THEN f[j] ELSE j \in s.selected]
<1>1. Boxed(s, i) = [s EXCEPT !.hasMap = m]
  BY DEF Boxed
<1>2. f \in Boxes(n) /\ DOMAIN f \subseteq 0 .. n /\ \A j \in DOMAIN f : f[j] \in BOOLEAN
  BY BoxesAre, Zenon DEF Selections
<1>3. /\ DOMAIN m = DOMAIN f \cup {i}
      /\ \A j \in DOMAIN m : m[j] = IF j \in DOMAIN f THEN f[j] ELSE j \in s.selected
      /\ m = [j \in DOMAIN m |-> m[j]]
  BY Zenon
<1>4. m \in Boxes(n)
  <2> HIDE DEF m, f
  <2>1. DOMAIN m \subseteq 0 .. n
    BY <1>2, <1>3
  <2>2. ASSUME NEW j \in DOMAIN m PROVE m[j] \in BOOLEAN
    <3>1. CASE j \in DOMAIN f
      BY <1>2, <1>3, <3>1, Zenon
    <3>2. CASE j \notin DOMAIN f
      <4>1. m[j] = (j \in s.selected)
        BY <1>3, <3>2, Zenon
      <4> QED
        BY <4>1
    <3> QED
      BY <3>1, <3>2
  <2> QED
    BY <1>3, <2>1, <2>2, BoxesAre, Zenon
<1>5. /\ Boxed(s, i) \in Selections(n) /\ Boxed(s, i).hasMap = m
      /\ Boxed(s, i).selected = s.selected
  <2> HIDE DEF m
  <2> QED
    BY <1>1, <1>4, Zenon DEF Selections
<1>6. \A j \in DOMAIN m : m[j] = (j \in s.selected)
  <2> HIDE DEF m
  <2> QED
    BY <1>3, Zenon DEF BoxesShow
<1> QED
  BY <1>5, <1>6, Zenon DEF BoxesShow

\* What is selected becomes T, and the boxes are told.
Retold(t, s, T, n) ==
  /\ t \in Selections(n) /\ BoxesShow(t) /\ t.selected = T
  /\ t.rangeStart = s.rangeStart /\ t.selectedIndex = s.selectedIndex

LEMMA MembershipIs ==
  ASSUME NEW S, NEW j
  PROVE  /\ (j \in S) \in BOOLEAN
         /\ j \in S => (j \in S) = TRUE
         /\ j \notin S => (j \in S) = FALSE
OBVIOUS

LEMMA SameMembership ==
  ASSUME NEW S, NEW T, NEW j, j \in S <=> j \in T
  PROVE  (j \in S) = (j \in T)
OBVIOUS

LEMMA RetoldIs ==
  ASSUME NEW n \in Nat, NEW s \in Selections(n), NEW T \in SUBSET (-1 .. n), NEW h,
         h = [j \in DOMAIN s.hasMap |-> h[j]], \A j \in DOMAIN s.hasMap : h[j] = (j \in T),
         NEW t, t = [s EXCEPT !.selected = T, !.hasMap = h]
  PROVE  Retold(t, s, T, n)
<1>1. DOMAIN s.hasMap \in SUBSET (0 .. n)
  BY BoxesAre, Zenon DEF Selections
<1>2. h \in Boxes(n) /\ DOMAIN h = DOMAIN s.hasMap
  <2>1. \A j \in DOMAIN s.hasMap : h[j] \in BOOLEAN
    BY MembershipIs, Zenon
  <2>2. h \in [DOMAIN s.hasMap -> BOOLEAN]
    BY <2>1
  <2> QED
    BY <1>1, <2>2 DEF Boxes
<1>3. /\ t \in Selections(n) /\ t.selected = T /\ t.hasMap = h
      /\ t.rangeStart = s.rangeStart /\ t.selectedIndex = s.selectedIndex
  BY <1>2, Zenon DEF Selections
<1>4. BoxesShow(t)
  BY <1>2, <1>3, Zenon DEF BoxesShow
<1> QED
  BY <1>3, <1>4, Zenon DEF Retold

LEMMA AddKeeps ==
  ASSUME NEW n \in Nat, NEW s \in Selections(n), BoxesShow(s), NEW i \in -1 .. n
  PROVE  Retold(Add(s, i), s, s.selected \cup {i}, n)
<1>1. CASE i \in s.selected
  <2>1. Add(s, i) = s /\ s.selected \cup {i} = s.selected
    BY <1>1 DEF Add
  <2> QED
    BY <2>1, Zenon DEF Retold
<1>2. CASE i \notin s.selected
  <2> DEFINE T == s.selected \cup {i}
             h == [j \in DOMAIN s.hasMap |-> IF j = i THEN TRUE ELSE s.hasMap[j]]
  <2>1. h = [j \in DOMAIN s.hasMap |-> h[j]] /\ \A j \in DOMAIN s.hasMap : h[j] = (j \in T)
    <3> SUFFICES ASSUME NEW j \in DOMAIN s.hasMap
                 PROVE  h[j] = (j \in T)
      OBVIOUS
    <3>1. CASE j = i
      <4>1. h[j] = TRUE /\ j \in T
        BY <3>1
      <4> QED
        BY <4>1, MembershipIs, Zenon
    <3>2. CASE ~ (j = i)
      <4>1. h[j] = (j \in s.selected)
        BY <3>2, Zenon DEF BoxesShow
      <4>2. (j \in s.selected) = (j \in T)
        BY <3>2, SameMembership
      <4> QED
        BY <4>1, <4>2, Zenon
    <3> QED
      BY <3>1, <3>2
  <2>2. Add(s, i) = [s EXCEPT !.selected = T, !.hasMap = h]
    <3>1. SetBox(s, i, TRUE) = [s EXCEPT !.hasMap = h]
      BY DEF SetBox
    <3>2. SetBox(s, i, TRUE).selected = s.selected
      BY <3>1, Zenon DEF Selections
    <3>3. Add(s, i) = [SetBox(s, i, TRUE) EXCEPT !.selected = T]
      BY <1>2, <3>2, Zenon DEF Add
    <3> HIDE DEF h, T
    <3> QED
      BY <3>1, <3>3, Zenon DEF Selections
  <2>3. T \in SUBSET (-1 .. n)
    BY DEF Selections
  <2> HIDE DEF h, T
  <2> QED
    BY <2>1, <2>2, <2>3, RetoldIs, Zenon DEF T
<1> QED
  BY <1>1, <1>2

LEMMA DeleteKeeps ==
  ASSUME NEW n \in Nat, NEW s \in Selections(n), BoxesShow(s), NEW i
  PROVE  Retold(Delete(s, i), s, s.selected \ {i}, n)
<1>1. CASE i \notin s.selected
  <2>1. Delete(s, i) = s /\ s.selected \ {i} = s.selected
    BY <1>1 DEF Delete
  <2> QED
    BY <2>1, Zenon DEF Retold
<1>2. CASE i \in s.selected
  <2> DEFINE T == s.selected \ {i}
             h == [j \in DOMAIN s.hasMap |-> IF j = i THEN FALSE ELSE s.hasMap[j]]
  <2>1. h = [j \in DOMAIN s.hasMap |-> h[j]] /\ \A j \in DOMAIN s.hasMap : h[j] = (j \in T)
    <3> SUFFICES ASSUME NEW j \in DOMAIN s.hasMap
                 PROVE  h[j] = (j \in T)
      OBVIOUS
    <3>1. CASE j = i
      <4>1. h[j] = FALSE /\ j \notin T
        BY <3>1
      <4> QED
        BY <4>1, MembershipIs, Zenon
    <3>2. CASE ~ (j = i)
      <4>1. h[j] = (j \in s.selected)
        BY <3>2, Zenon DEF BoxesShow
      <4>2. (j \in s.selected) = (j \in T)
        BY <3>2, SameMembership
      <4> QED
        BY <4>1, <4>2, Zenon
    <3> QED
      BY <3>1, <3>2
  <2>2. Delete(s, i) = [s EXCEPT !.selected = T, !.hasMap = h]
    <3>1. SetBox(s, i, FALSE) = [s EXCEPT !.hasMap = h]
      BY DEF SetBox
    <3>2. SetBox(s, i, FALSE).selected = s.selected
      BY <3>1, Zenon DEF Selections
    <3>3. Delete(s, i) = [SetBox(s, i, FALSE) EXCEPT !.selected = T]
      BY <1>2, <3>2, Zenon DEF Delete
    <3> HIDE DEF h, T
    <3> QED
      BY <3>1, <3>3, Zenon DEF Selections
  <2>3. T \in SUBSET (-1 .. n)
    BY DEF Selections
  <2> HIDE DEF h, T
  <2> QED
    BY <2>1, <2>2, <2>3, RetoldIs, Zenon DEF T
<1> QED
  BY <1>1, <1>2

LEMMA ClearTreeKeeps ==
  ASSUME NEW n \in Nat, NEW s \in Selections(n), BoxesShow(s)
  PROVE  Retold(ClearTree(s), s, {}, n)
<1>1. CASE s.selected = {}
  BY <1>1, Zenon DEF Retold, ClearTree
<1>2. CASE s.selected # {}
  <2> DEFINE h == [j \in DOMAIN s.hasMap |-> FALSE]
  <2>1. h = [j \in DOMAIN s.hasMap |-> h[j]] /\ \A j \in DOMAIN s.hasMap : h[j] = (j \in {})
    BY MembershipIs
  <2>2. ClearTree(s) = [s EXCEPT !.selected = {}, !.hasMap = h]
    BY <1>2 DEF ClearTree
  <2>3. {} \in SUBSET (-1 .. n)
    OBVIOUS
  <2> HIDE DEF h
  <2> QED
    BY <2>1, <2>2, <2>3, RetoldIs, Zenon
<1> QED
  BY <1>1, <1>2

LEMMA AddRangeKeeps ==
  ASSUME NEW n \in Nat, NEW s \in Selections(n), BoxesShow(s), NEW R \in SUBSET (-1 .. n)
  PROVE  Retold(AddRange(s, R), s, s.selected \cup R, n)
<1> DEFINE T == s.selected \cup R
           h == [j \in DOMAIN s.hasMap |-> IF j \in R THEN TRUE ELSE s.hasMap[j]]
<1>1. h = [j \in DOMAIN s.hasMap |-> h[j]] /\ \A j \in DOMAIN s.hasMap : h[j] = (j \in T)
  <2> SUFFICES ASSUME NEW j \in DOMAIN s.hasMap
               PROVE  h[j] = (j \in T)
    OBVIOUS
  <2>1. CASE j \in R
    <3>1. h[j] = TRUE /\ j \in T
      BY <2>1
    <3> QED
      BY <3>1, MembershipIs, Zenon
  <2>2. CASE ~ (j \in R)
    <3>1. h[j] = (j \in s.selected)
      BY <2>2, Zenon DEF BoxesShow
    <3>2. (j \in s.selected) = (j \in T)
      BY <2>2, SameMembership
    <3> QED
      BY <3>1, <3>2, Zenon
  <2> QED
    BY <2>1, <2>2
<1>2. AddRange(s, R) = [s EXCEPT !.selected = T, !.hasMap = h]
  BY DEF AddRange
<1>3. T \in SUBSET (-1 .. n)
  BY DEF Selections
<1> HIDE DEF h, T
<1> QED
  BY <1>1, <1>2, <1>3, RetoldIs, Zenon DEF T

\* A choice changes the two places as well.
Placed(t, s, start, shown, n) ==
  /\ t \in Selections(n) /\ BoxesShow(t) /\ t.selected = s.selected
  /\ t.rangeStart = start /\ t.selectedIndex = shown

LEMMA PlacedIs ==
  ASSUME NEW n \in Nat, NEW s \in Selections(n), BoxesShow(s), NEW start \in 0 .. n,
         NEW shown \in {None} \cup (-1 .. n),
         NEW t, t = [s EXCEPT !.rangeStart = start, !.selectedIndex = shown]
  PROVE  Placed(t, s, start, shown, n)
<1>1. /\ t \in Selections(n) /\ t.selected = s.selected /\ t.hasMap = s.hasMap
      /\ t.rangeStart = start /\ t.selectedIndex = shown
  BY Zenon DEF Selections
<1> QED
  BY <1>1, Zenon DEF BoxesShow, Placed

\* t is what select(index, ...) makes of s.
Chosen(t, s, index, ctrlKey, shiftKey, n) ==
  /\ t \in Selections(n) /\ SelectionShown(t)
  /\ \A x \in t.selected : \/ x \in s.selected
                            \/ x \in s.rangeStart .. index \/ x \in index .. s.rangeStart
  /\ t.selectedIndex \in {None, index}
  /\ t.rangeStart = IF shiftKey THEN s.rangeStart ELSE index

LEMMA RangeChosen ==
  ASSUME NEW n \in Nat, NEW s \in Selections(n), BoxesShow(s), NEW index \in -1 .. n,
         NEW ctrlKey \in BOOLEAN
  PROVE  Chosen(SelectRange(s, index, ctrlKey), s, index, ctrlKey, TRUE, n)
<1> DEFINE from == IF ctrlKey THEN s ELSE ClearTree(s)
           range == IF s.rangeStart <= index THEN s.rangeStart .. index
                    ELSE index .. s.rangeStart
           mid == AddRange(from, range)
           t == SelectRange(s, index, ctrlKey)
<1>1. s.rangeStart \in 0 .. n
  BY DEF Selections
<1>2. /\ from \in Selections(n) /\ BoxesShow(from) /\ from.selected \subseteq s.selected
      /\ from.rangeStart = s.rangeStart
  BY ClearTreeKeeps, Zenon DEF Retold
<1>3. range \in SUBSET (-1 .. n) /\ index \in range
      /\ \A x \in range : x \in s.rangeStart .. index \/ x \in index .. s.rangeStart
  <2> HIDE DEF from
  <2> QED
    BY <1>1, SMT
<1>4. Retold(mid, from, from.selected \cup range, n)
  <2> HIDE DEF from, range
  <2> QED
    BY <1>2, <1>3, AddRangeKeeps
<1>5. t = [mid EXCEPT !.selectedIndex = index]
  BY DEF SelectRange
<1>6. /\ t \in Selections(n) /\ t.selected = mid.selected /\ t.hasMap = mid.hasMap
      /\ t.rangeStart = mid.rangeStart /\ t.selectedIndex = index
  <2> HIDE DEF mid, t
  <2>1. mid \in Selections(n) /\ index \in {None} \cup (-1 .. n)
    BY <1>4, Zenon DEF Retold
  <2> QED
    BY <1>5, <2>1, Zenon DEF Selections
<1>7. BoxesShow(t) /\ index \in t.selected
  <2> HIDE DEF mid, t, from, range
  <2> QED
    BY <1>3, <1>4, <1>6, Zenon DEF BoxesShow, Retold
<1> HIDE DEF mid, t, from, range
<1> QED
  BY <1>2, <1>3, <1>4, <1>6, <1>7, Zenon DEF Chosen, SelectionShown, BoxesShow, Retold, t

LEMMA OneToggled ==
  ASSUME NEW n \in Nat, NEW s \in Selections(n), BoxesShow(s), NEW index \in 0 .. n,
         NEW ctrlKey
  PROVE  Chosen(ToggleOne(s, index), s, index, ctrlKey, FALSE, n)
<1> DEFINE seen == Boxed(s, index)
           mid == IF index \in s.selected THEN Delete(seen, index) ELSE Add(seen, index)
           shown == IF index \in s.selected THEN None ELSE index
           t == ToggleOne(s, index)
<1>1. seen \in Selections(n) /\ BoxesShow(seen) /\ seen.selected = s.selected
  BY BoxedKeeps
<1>2. index \in -1 .. n /\ index # None /\ index \in index .. s.rangeStart \cup s.rangeStart .. index
  BY SMT DEF Selections, None
<1>3. /\ mid \in Selections(n) /\ BoxesShow(mid)
      /\ mid.selected = IF index \in s.selected THEN s.selected \ {index}
                        ELSE s.selected \cup {index}
  <2> HIDE DEF seen
  <2>1. CASE index \in s.selected
    <3>1. Retold(mid, seen, s.selected \ {index}, n)
      BY <1>1, <2>1, DeleteKeeps
    <3> QED
      BY <2>1, <3>1 DEF Retold
  <2>2. CASE index \notin s.selected
    <3>1. Retold(mid, seen, s.selected \cup {index}, n)
      BY <1>1, <1>2, <2>2, AddKeeps
    <3> QED
      BY <2>2, <3>1 DEF Retold
  <2> QED
    BY <2>1, <2>2
<1>4. t = [mid EXCEPT !.selectedIndex = shown, !.rangeStart = index]
  BY DEF ToggleOne
<1>5. shown \in {None} \cup (-1 .. n) /\ shown \in {None, index}
      /\ (shown # None => index \notin s.selected /\ shown = index)
  BY <1>2
<1> HIDE DEF mid, shown, t, seen
<1>6. /\ t \in Selections(n) /\ t.selected = mid.selected /\ t.hasMap = mid.hasMap
      /\ t.rangeStart = index /\ t.selectedIndex = shown
  BY <1>3, <1>4, <1>5, Zenon DEF Selections
<1>7. BoxesShow(t) /\ SelectionShown(t)
  BY <1>3, <1>5, <1>6, Zenon DEF BoxesShow, SelectionShown
<1>8. \A x \in t.selected : x \in s.selected \/ x = index
  BY <1>3, <1>6
<1> QED
  BY <1>2, <1>5, <1>6, <1>7, <1>8, Zenon DEF Chosen, t

LEMMA OneSelected ==
  ASSUME NEW n \in Nat, NEW s \in Selections(n), BoxesShow(s), NEW index \in 0 .. n,
         NEW ctrlKey
  PROVE  Chosen(SelectOne(s, index), s, index, ctrlKey, FALSE, n)
<1> DEFINE cleared == ClearTree(s)
           mid == Add(cleared, index)
           t == SelectOne(s, index)
<1>1. index \in -1 .. n /\ index # None /\ index \in index .. s.rangeStart \cup s.rangeStart .. index
  BY SMT DEF Selections, None
<1>2. Retold(cleared, s, {}, n)
  BY ClearTreeKeeps
<1>3. Retold(mid, cleared, cleared.selected \cup {index}, n)
  <2> HIDE DEF cleared
  <2> QED
    BY <1>1, <1>2, AddKeeps, Zenon DEF Retold
<1>4. mid.selected = {index}
  <2> HIDE DEF cleared, mid
  <2> QED
    BY <1>2, <1>3 DEF Retold
<1>5. t = [mid EXCEPT !.rangeStart = index, !.selectedIndex = index]
  BY DEF SelectOne
<1> HIDE DEF mid, t, cleared
<1>6. Placed(t, mid, index, index, n)
  BY <1>1, <1>3, <1>5, PlacedIs, Zenon DEF Retold
<1>7. SelectionShown(t)
  BY <1>4, <1>6 DEF Placed, BoxesShow, SelectionShown
<1> QED
  BY <1>1, <1>4, <1>6, <1>7, Zenon DEF Chosen, Placed, t

\* Of an empty list "select all" chooses row -1, but only from a range start.
LEMMA SelectIs ==
  ASSUME NEW n \in Nat, NEW s \in Selections(n), BoxesShow(s),
         NEW ctrlKey \in BOOLEAN, NEW shiftKey \in BOOLEAN,
         NEW index \in -1 .. n, shiftKey \/ index \in 0 .. n
  PROVE  Chosen(Select(s, index, ctrlKey, shiftKey), s, index, ctrlKey, shiftKey, n)
<1>1. CASE shiftKey
  <2>1. Select(s, index, ctrlKey, shiftKey) = SelectRange(s, index, ctrlKey)
    BY <1>1 DEF Select
  <2> QED
    BY <1>1, <2>1, RangeChosen
<1>2. CASE ctrlKey /\ ~ shiftKey
  <2>1. Select(s, index, ctrlKey, shiftKey) = ToggleOne(s, index)
    BY <1>2 DEF Select
  <2> QED
    BY <1>2, <2>1, OneToggled
<1>3. CASE ~ ctrlKey /\ ~ shiftKey
  <2>1. Select(s, index, ctrlKey, shiftKey) = SelectOne(s, index)
    BY <1>3 DEF Select
  <2> QED
    BY <1>3, <2>1, OneSelected
<1> QED
  BY <1>1, <1>2, <1>3

LEMMA ClearSelectionIs ==
  ASSUME NEW n \in Nat, NEW s \in Selections(n), BoxesShow(s)
  PROVE  LET t == ClearSelection(s) IN
         /\ t \in Selections(n) /\ BoxesShow(t) /\ SelectionShown(t)
         /\ t.selected = {} /\ t.rangeStart = 0 /\ t.selectedIndex = None
<1> DEFINE mid == ClearTree(s)
           t == ClearSelection(s)
<1>1. Retold(mid, s, {}, n) /\ 0 \in 0 .. n
  BY ClearTreeKeeps, SMT
<1>2. t = [mid EXCEPT !.rangeStart = 0, !.selectedIndex = None]
  BY DEF ClearSelection
<1> HIDE DEF mid, t
<1>3. Placed(t, mid, 0, None, n)
  BY <1>1, <1>2, PlacedIs, Zenon DEF Retold
<1> QED
  BY <1>1, <1>3, Zenon DEF Retold, Placed, BoxesShow, SelectionShown, t

LEMMA SelectAllIs ==
  ASSUME NEW n \in Nat, NEW s \in Selections(n), BoxesShow(s), NEW m \in 0 .. n + 1
  PROVE  LET t == SelectAll(s, m) IN
         /\ t \in Selections(n) /\ SelectionShown(t)
         /\ m # 0 => \A x \in t.selected : x < m
         /\ t.selectedIndex \in {None, m - 1} /\ t.rangeStart = 0
<1> DEFINE c == ClearSelection(s)
           t == SelectAll(s, m)
<1>1. /\ c \in Selections(n) /\ BoxesShow(c) /\ c.selected = {} /\ c.rangeStart = 0
  BY ClearSelectionIs
<1>2. m - 1 \in -1 .. n
  BY SMT
<1>3. t = Select(c, m - 1, FALSE, TRUE)
  BY DEF SelectAll
<1> HIDE DEF c
<1>4. Chosen(t, c, m - 1, FALSE, TRUE, n)
  BY <1>1, <1>2, <1>3, SelectIs
<1>5. m # 0 => \A x \in t.selected : x < m
  <2> HIDE DEF t
  <2>1. \A x \in t.selected : x \in 0 .. m - 1 \/ x \in m - 1 .. 0
    BY <1>1, <1>4, Zenon DEF Chosen
  <2> QED
    BY <2>1, SMT
<1> QED
  BY <1>1, <1>4, <1>5, Zenon DEF Chosen
-----------------------------------------------------------------------------
(* The grid                                                                *)

Grids == [scrollTop : Nat, bodyTop : Nat, autoScroll : BOOLEAN]

LEMMA DivisionIs ==
  ASSUME NEW a \in Nat, NEW b \in Nat, a <= b, NEW h \in Nat \ {0}
  PROVE  a \div h \in Nat /\ b \div h \in Nat /\ a \div h <= b \div h
<1>1. a \div h \in Nat /\ b \div h \in Nat
  BY SMT
<1>2. a \div h <= b \div h
  BY SMT
<1> QED
  BY <1>1, <1>2

LEMMA TopIs ==
  ASSUME NEW n \in Nat
  PROVE  Traffic!View!MaxTop(n) \in Nat
<1>1. n * RowHeight \in Nat /\ BodyHeight \in Nat
  BY LogsAssumption, SMT DEF LogsAssumption
<1> QED
  BY <1>1, SMT DEF Traffic!View!MaxTop, Traffic!View!ScrollHeight

LEMMA RenderedIs ==
  ASSUME NEW n \in Nat, NEW g \in Grids
  PROVE  Traffic!View!Rendered(g, n) \in Grids
<1> DEFINE top == IF g.autoScroll THEN Traffic!View!MaxTop(n)
                  ELSE Traffic!View!Lesser(g.bodyTop, Traffic!View!MaxTop(n))
<1>1. top \in Nat
  <2>1. Traffic!View!MaxTop(n) \in Nat /\ g.bodyTop \in Nat
    BY TopIs DEF Grids
  <2> QED
    BY <2>1, SMT DEF Traffic!View!Lesser
<1>2. Traffic!View!Rendered(g, n) = [g EXCEPT !.bodyTop = top]
  BY DEF Traffic!View!Rendered
<1> HIDE DEF top
<1> QED
  BY <1>1, <1>2, Zenon DEF Grids

LEMMA ScrolledIs ==
  ASSUME NEW n \in Nat, NEW g \in Grids
  PROVE  Traffic!View!HandleScroll(g, n) \in Grids
<1> DEFINE end == Traffic!View!ScrollHeight(n)
           auto == IF g.autoScroll
                   THEN ~(g.scrollTop < end - BodyHeight /\ g.bodyTop < g.scrollTop)
                   ELSE g.bodyTop + BodyHeight >= end - NearEnd
           h == [g EXCEPT !.autoScroll = auto, !.scrollTop = g.bodyTop]
<1>1. auto \in BOOLEAN
  <2>1. CASE g.autoScroll
    <3> DEFINE back == g.scrollTop < end - BodyHeight /\ g.bodyTop < g.scrollTop
    <3>1. auto = ~back
      BY <2>1
    <3>2. back => (~back) = FALSE
      OBVIOUS
    <3>3. ~back => (~back) = TRUE
      OBVIOUS
    <3> HIDE DEF back, auto
    <3> QED
      BY <3>1, <3>2, <3>3
  <2>2. CASE ~ g.autoScroll
    <3> DEFINE reached == g.bodyTop + BodyHeight >= end - NearEnd
    <3>1. auto = reached
      BY <2>2
    <3>2. reached => reached = TRUE
      OBVIOUS
    <3>3. ~reached => reached = FALSE
      OBVIOUS
    <3> HIDE DEF reached, auto
    <3> QED
      BY <3>1, <3>2, <3>3
  <2> QED
    BY <2>1, <2>2
<1>2. h \in Grids
  <2> HIDE DEF auto
  <2> QED
    BY <1>1, Zenon DEF Grids
<1>3. Traffic!View!HandleScroll(g, n) = Traffic!View!Rendered(h, n)
  BY DEF Traffic!View!HandleScroll
<1> QED
  BY <1>2, <1>3, RenderedIs

\* The rows in view are rows of the list, whatever its length is by now.
LEMMA RangeIs ==
  ASSUME NEW n \in Nat, NEW g \in Grids
  PROVE  LET r == Traffic!View!RowRange(g, n) IN
         r.start \in 0 .. n /\ r.end \in 0 .. n /\ r.start <= r.end
<1> DEFINE a == g.scrollTop
           b == g.scrollTop + BodyHeight + RowHeight - 1
<1>1. a \in Nat /\ b \in Nat /\ a <= b /\ RowHeight \in Nat \ {0}
  BY LogsAssumption, SMT DEF LogsAssumption, Grids
<1>2. a \div RowHeight \in Nat /\ b \div RowHeight \in Nat /\ a \div RowHeight <= b \div RowHeight
  <2> HIDE DEF a, b
  <2> QED
    BY <1>1, DivisionIs
<1>3. /\ Traffic!View!RowRange(g, n).start = Traffic!View!Lesser(n, a \div RowHeight)
      /\ Traffic!View!RowRange(g, n).end = Traffic!View!Lesser(n, b \div RowHeight)
  BY Zenon DEF Traffic!View!RowRange
<1> HIDE DEF a, b
<1> DEFINE p == a \div RowHeight
           q == b \div RowHeight
<1>4. p \in Nat /\ q \in Nat /\ p <= q
  BY <1>2
<1>5. /\ Traffic!View!Lesser(n, p) \in 0 .. n /\ Traffic!View!Lesser(n, q) \in 0 .. n
      /\ Traffic!View!Lesser(n, p) <= Traffic!View!Lesser(n, q)
  <2> HIDE DEF p, q
  <2> QED
    BY <1>4, SMT DEF Traffic!View!Lesser
<1> QED
  BY <1>3, <1>5

-----------------------------------------------------------------------------
(* The packet log                                                          *)

PacketLogs == [logs : 0 .. MaxPackets, selection : Selections(MaxPackets), grid : Grids]

SelectedLogged(s, n) ==
  /\ \A i \in s.selected : i < n
  /\ s.selectedIndex < n /\ (s.rangeStart = 0 \/ s.rangeStart < n)

PacketsInv ==
  /\ packets \in PacketLogs
  /\ SelectionShown(packets.selection)
  /\ SelectedLogged(packets.selection, packets.logs)

\* The page selects as logcat does.
LEMMA TrafficSelects ==
  ASSUME NEW s, NEW i, NEW ctrlKey, NEW shiftKey
  PROVE  /\ Traffic!Select(s, i, ctrlKey, shiftKey) = Select(s, i, ctrlKey, shiftKey)
         /\ Traffic!ClearSelection(s) = ClearSelection(s)
         /\ Traffic!SelectAll(s, i) = SelectAll(s, i)
         /\ Traffic!NewSelection = NewSelection
<1>1. /\ Traffic!None = None
      /\ \A t : Traffic!ClearTree(t) = ClearTree(t)
      /\ \A t, j, v : Traffic!SetBox(t, j, v) = SetBox(t, j, v)
      /\ \A t, j : Traffic!Boxed(t, j) = Boxed(t, j)
      /\ \A t, r : Traffic!AddRange(t, r) = AddRange(t, r)
  BY DEF Traffic!None, None, Traffic!ClearTree, ClearTree, Traffic!SetBox, SetBox,
         Traffic!Boxed, Boxed, Traffic!AddRange, AddRange
<1>2. \A t, j : Traffic!Add(t, j) = Add(t, j) /\ Traffic!Delete(t, j) = Delete(t, j)
  BY <1>1 DEF Traffic!Add, Add, Traffic!Delete, Delete
<1>3. \A t, j, c : Traffic!SelectRange(t, j, c) = SelectRange(t, j, c)
  BY <1>1 DEF Traffic!SelectRange, SelectRange
<1>4. \A t, j : Traffic!ToggleOne(t, j) = ToggleOne(t, j) /\ Traffic!SelectOne(t, j) = SelectOne(t, j)
  BY <1>1, <1>2 DEF Traffic!ToggleOne, ToggleOne, Traffic!SelectOne, SelectOne
<1>5. \A t, j, c, k : Traffic!Select(t, j, c, k) = Select(t, j, c, k)
  BY <1>3, <1>4 DEF Traffic!Select, Select
<1>6. \A t : Traffic!ClearSelection(t) = ClearSelection(t)
  BY <1>1 DEF Traffic!ClearSelection, ClearSelection
<1> QED
  BY <1>1, <1>5, <1>6 DEF Traffic!SelectAll, SelectAll, Traffic!NewSelection, NewSelection

LEMMA PacketsStart == LogsInit => PacketsInv
<1> SUFFICES ASSUME LogsInit PROVE PacketsInv
  OBVIOUS
<1>1. packets = [logs |-> 0, selection |-> NewSelection,
                 grid |-> [scrollTop |-> 0, bodyTop |-> 0, autoScroll |-> TRUE]]
  BY TrafficSelects DEF LogsInit, Traffic!PacketInit, Traffic!View!NewGrid
<1>2. MaxPackets \in Nat /\ 0 \in 0 .. MaxPackets
  BY LogsAssumption, SMT DEF LogsAssumption
<1>3. /\ NewSelection \in Selections(MaxPackets) /\ SelectionShown(NewSelection)
      /\ SelectedLogged(NewSelection, 0)
  BY <1>2, NewSelectionFits, SMT DEF NewSelection, SelectedLogged, None
<1> QED
  BY <1>1, <1>2, <1>3 DEF PacketsInv, PacketLogs, Grids

\* What every step of the page is given.
LEMMA PacketsAre ==
  ASSUME PacketsInv
  PROVE  /\ MaxPackets \in Nat /\ packets.logs \in 0 .. MaxPackets /\ packets.logs \in Nat
         /\ packets.selection \in Selections(MaxPackets) /\ BoxesShow(packets.selection)
         /\ packets.grid \in Grids
<1>1. MaxPackets \in Nat
  BY LogsAssumption DEF LogsAssumption
<1>2. packets.logs \in 0 .. MaxPackets
  BY DEF PacketsInv, PacketLogs
<1>3. packets.logs \in Nat
  BY <1>1, <1>2, SMT
<1> QED
  BY <1>1, <1>2, <1>3 DEF PacketsInv, PacketLogs, BoxesShow, SelectionShown

LEMMA LogsChangedKeeps ==
  ASSUME PacketsInv, NEW n \in 0 .. MaxPackets, n = 0 \/ n = packets.logs + 1, Traffic!LogsChanged(n)
  PROVE  PacketsInv'
<1> DEFINE s == IF n = 0 THEN ClearSelection(packets.selection) ELSE packets.selection
           g == Traffic!View!Rendered(packets.grid, n)
<1>1. n \in Nat
  BY PacketsAre, SMT
<1>2. s \in Selections(MaxPackets) /\ SelectionShown(s)
  BY PacketsAre, ClearSelectionIs, Zenon DEF PacketsInv
<1>3. SelectedLogged(s, n)
  <2>1. CASE n = 0
    BY <2>1, PacketsAre, ClearSelectionIs, SMT DEF SelectedLogged, None
  <2>2. CASE n # 0
    <3>1. /\ packets.logs \in Nat /\ n = packets.logs + 1 /\ s = packets.selection
          /\ SelectedLogged(s, packets.logs)
      BY <2>2, PacketsAre DEF PacketsInv
    <3>2. s.selected \subseteq Int /\ s.rangeStart \in Int /\ s.selectedIndex \in Int
      <4> HIDE DEF s
      <4> QED
        BY <1>2, SMT DEF Selections, None
    <3> HIDE DEF s
    <3> QED
      BY <3>1, <3>2, SMT DEF SelectedLogged
  <2> QED
    BY <2>1, <2>2
<1>4. g \in Grids
  BY <1>1, PacketsAre, RenderedIs
<1>5. packets' = [packets EXCEPT !.logs = n, !.selection = s, !.grid = g]
  BY TrafficSelects, Zenon DEF Traffic!LogsChanged
<1> HIDE DEF s, g
<1>6. /\ packets' \in PacketLogs
      /\ packets'.logs = n /\ packets'.selection = s
  BY <1>2, <1>4, <1>5, Zenon DEF PacketsInv, PacketLogs
<1> QED
  BY <1>2, <1>3, <1>6, Zenon DEF PacketsInv

LEMMA PacketSelectKeeps ==
  ASSUME PacketsInv, NEW i \in 0 .. MaxPackets - 1, NEW ctrlKey \in BOOLEAN, NEW shiftKey \in BOOLEAN,
         Traffic!PacketSelect(i, ctrlKey, shiftKey)
  PROVE  PacketsInv'
<1> DEFINE s == packets.selection
           t == Select(s, i, ctrlKey, shiftKey)
<1>1. i < packets.logs /\ i \in Nat /\ i \in 0 .. MaxPackets /\ i \in -1 .. MaxPackets
  BY PacketsAre, SMT DEF Traffic!PacketSelect
<1>2. Chosen(t, s, i, ctrlKey, shiftKey, MaxPackets)
  BY <1>1, PacketsAre, SelectIs
<1>3. packets' = [packets EXCEPT !.selection = t]
  BY TrafficSelects, Zenon DEF Traffic!PacketSelect
<1>4. SelectedLogged(s, packets.logs)
  BY DEF PacketsInv
<1>5. s.rangeStart \in Nat
  BY PacketsAre, SMT DEF Selections
<1> HIDE DEF s, t
<1>6. SelectedLogged(t, packets.logs)
  <2>1. \A x \in t.selected : x < packets.logs
    BY <1>1, <1>2, <1>4, <1>5, PacketsAre, SMT DEF Chosen, SelectedLogged
  <2>2. t.selectedIndex < packets.logs
    BY <1>1, <1>2, PacketsAre, SMT DEF Chosen, None
  <2> QED
    BY <1>1, <1>2, <1>4, <2>1, <2>2 DEF Chosen, SelectedLogged
<1>7. packets' \in PacketLogs /\ packets'.logs = packets.logs /\ packets'.selection = t
  BY <1>2, <1>3, Zenon DEF PacketsInv, PacketLogs, Chosen
<1> QED
  BY <1>2, <1>6, <1>7, Zenon DEF PacketsInv, Chosen

LEMMA PacketSelectAllKeeps ==
  ASSUME PacketsInv, Traffic!PacketSelectAll
  PROVE  PacketsInv'
<1> DEFINE t == SelectAll(packets.selection, packets.logs)
<1>1. packets.logs # 0 /\ packets' = [packets EXCEPT !.selection = t]
  BY TrafficSelects, Zenon DEF Traffic!PacketSelectAll
<1>2. /\ t \in Selections(MaxPackets) /\ SelectionShown(t)
      /\ \A x \in t.selected : x < packets.logs
      /\ t.selectedIndex \in {None, packets.logs - 1} /\ t.rangeStart = 0
  <2>1. packets.logs \in 0 .. MaxPackets + 1
    BY PacketsAre, SMT
  <2> QED
    BY <1>1, <2>1, PacketsAre, SelectAllIs
<1> HIDE DEF t
<1>3. SelectedLogged(t, packets.logs)
  BY <1>1, <1>2, PacketsAre, SMT DEF SelectedLogged, None
<1>4. packets' \in PacketLogs /\ packets'.logs = packets.logs /\ packets'.selection = t
  BY <1>1, <1>2, Zenon DEF PacketsInv, PacketLogs
<1> QED
  BY <1>2, <1>3, <1>4, Zenon DEF PacketsInv

\* The rows that come into view get boxes, those that leave it lose theirs.
LEMMA RenderRowsKeeps ==
  ASSUME PacketsInv, Traffic!RenderRows
  PROVE  PacketsInv'
<1> DEFINE range == Traffic!View!RowRange(packets.grid, packets.logs)
           shown == range.start .. range.end - 1
           s == packets.selection
           h == [i \in shown |-> IF i \in DOMAIN s.hasMap THEN s.hasMap[i] ELSE i \in s.selected]
           t == [s EXCEPT !.hasMap = h]
<1>1. packets' = [packets EXCEPT !.selection = t]
  BY Zenon DEF Traffic!RenderRows
<1>2. shown \in SUBSET (0 .. MaxPackets)
  <2>1. range.start \in 0 .. packets.logs /\ range.end \in 0 .. packets.logs
    BY PacketsAre, RangeIs
  <2> HIDE DEF range
  <2> QED
    BY <2>1, PacketsAre, SMT
<1>3. s \in Selections(MaxPackets) /\ BoxesShow(s)
  BY PacketsAre
<1>4. \A i \in shown : h[i] = (i \in s.selected)
  <2> SUFFICES ASSUME NEW i \in shown PROVE h[i] = (i \in s.selected)
    OBVIOUS
  <2> HIDE DEF shown, s
  <2>1. CASE i \in DOMAIN s.hasMap
    <3>1. h[i] = s.hasMap[i]
      BY <2>1
    <3> QED
      BY <1>3, <2>1, <3>1, Zenon DEF BoxesShow
  <2>2. CASE i \notin DOMAIN s.hasMap
    BY <2>2
  <2> QED
    BY <2>1, <2>2
<1>5. h \in Boxes(MaxPackets) /\ DOMAIN h = shown
  <2> HIDE DEF shown, s
  <2>1. \A i \in shown : h[i] \in BOOLEAN
    BY <1>4, MembershipIs, Zenon
  <2>2. h \in [shown -> BOOLEAN]
    BY <2>1
  <2> QED
    BY <1>2, <2>2 DEF Boxes
<1> HIDE DEF h, s, shown, t
<1>6. /\ t \in Selections(MaxPackets) /\ t.selected = s.selected /\ t.hasMap = h
      /\ t.rangeStart = s.rangeStart /\ t.selectedIndex = s.selectedIndex
  BY <1>3, <1>5, Zenon DEF Selections, t
<1>7. SelectionShown(s) /\ SelectedLogged(s, packets.logs)
  BY DEF PacketsInv, s
<1>8. SelectionShown(t) /\ SelectedLogged(t, packets.logs)
  BY <1>4, <1>5, <1>6, <1>7, Zenon DEF SelectionShown, SelectedLogged
<1>9. packets' \in PacketLogs /\ packets'.logs = packets.logs /\ packets'.selection = t
  BY <1>1, <1>6, Zenon DEF PacketsInv, PacketLogs
<1> QED
  BY <1>6, <1>8, <1>9, Zenon DEF PacketsInv

LEMMA ScrollKeeps ==
  ASSUME PacketsInv,
         Traffic!ScrollEvent \/ \E top \in 0 .. MaxPackets * RowHeight : Traffic!UserScroll(top)
  PROVE  PacketsInv'
<1>1. PICK g \in Grids : packets' = [packets EXCEPT !.grid = g]
  <2>1. CASE Traffic!ScrollEvent
    BY <2>1, PacketsAre, ScrolledIs DEF Traffic!ScrollEvent
  <2>2. ASSUME NEW top \in 0 .. MaxPackets * RowHeight, Traffic!UserScroll(top)
        PROVE  \E g \in Grids : packets' = [packets EXCEPT !.grid = g]
    <3> DEFINE g == [packets.grid EXCEPT !.bodyTop = top]
    <3>1. top \in Nat
      BY LogsAssumption, SMT DEF LogsAssumption
    <3>2. g \in Grids
      BY <3>1, PacketsAre, Zenon DEF Grids
    <3>3. packets' = [packets EXCEPT !.grid = g]
      BY <2>2, Zenon DEF Traffic!UserScroll
    <3> QED
      BY <3>2, <3>3
  <2> QED
    BY <2>1, <2>2
<1>2. /\ packets' \in PacketLogs /\ packets'.logs = packets.logs
      /\ packets'.selection = packets.selection
  BY <1>1, Zenon DEF PacketsInv, PacketLogs
<1> QED
  BY <1>2, Zenon DEF PacketsInv

LEMMA PacketsKeep ==
  ASSUME PacketsInv, [LogsNext]_logsVars
  PROVE  PacketsInv'
<1>1. CASE Traffic!AppendLog
  <2>1. packets.logs + 1 \in 0 .. MaxPackets
    BY <1>1, PacketsAre, SMT DEF Traffic!AppendLog
  <2> QED
    BY <1>1, <2>1, LogsChangedKeeps DEF Traffic!AppendLog
<1>2. CASE Traffic!ClearLog
  <2>1. 0 \in 0 .. MaxPackets
    BY PacketsAre, SMT
  <2> QED
    BY <1>2, <2>1, LogsChangedKeeps DEF Traffic!ClearLog
<1>3. CASE UNCHANGED packets
  BY <1>3, Zenon DEF PacketsInv
<1> QED
  BY <1>1, <1>2, <1>3, PacketSelectKeeps, PacketSelectAllKeeps, RenderRowsKeeps, ScrollKeeps
     DEF LogsNext, Traffic!PacketStep, logsVars
-----------------------------------------------------------------------------
(* The socket                                                              *)

Transports ==
  [kind : {"none", "ws", "tcp"}, socket : {"none", "connecting", "open", "closing", "closed"},
   connect : {"none", "pending", "resolved", "rejected"}, listening : BOOLEAN,
   came : 0 .. MaxPackets, queue : Seq(1 .. MaxPackets), read : 0 .. MaxPackets,
   ended : BOOLEAN, cancelled : BOOLEAN, written : 0 .. MaxPackets, out : 0 .. MaxPackets]

\* The browser's socket and what connect() told are the same, but that a
\* socket may go after connect() resolved; then the streams have ended.
Connected(t) ==
  /\ t.connect = "none" <=> t.socket = "none"
  /\ t.connect = "pending" <=> t.socket = "connecting"
  /\ t.socket \in {"open", "closing"} => t.connect = "resolved"
  /\ t.connect = "resolved" <=> t.listening
  /\ t.socket = "closed" => t.ended \/ t.connect = "rejected"

\* What is unread is what came last; all of it is there until the socket closes.
Unread(t) ==
  /\ \A i \in 1 .. Len(t.queue) : t.queue[i] = t.read + i
  /\ t.read + Len(t.queue) <= t.came
  /\ t.socket # "closed" => t.read + Len(t.queue) = t.came

Sent(t) ==
  /\ t.out <= t.written
  /\ t.socket \in {"none", "connecting", "open"} => t.written = t.out

SocketInv == transport \in Transports /\ Connected(transport) /\ Unread(transport) /\ Sent(transport)

\* Steps that move neither a message nor a write.
Untouched(t, u) ==
  /\ u.came = t.came /\ u.queue = t.queue /\ u.read = t.read
  /\ u.written = t.written /\ u.out = t.out

LEMMA UntouchedKeeps ==
  ASSUME NEW t, NEW u, Untouched(t, u), Unread(t), Sent(t),
         t.socket = "closed" => u.socket = "closed",
         u.socket \in {"none", "connecting", "open"} => t.socket \in {"none", "connecting", "open"}
  PROVE  Unread(u) /\ Sent(u)
BY Zenon DEF Untouched, Unread, Sent

LEMMA SocketStart == LogsInit => SocketInv
<1> SUFFICES ASSUME LogsInit PROVE SocketInv
  OBVIOUS
<1>1. transport = [kind |-> "none", socket |-> "none", connect |-> "none",
                 listening |-> FALSE, came |-> 0, queue |-> <<>>, read |-> 0,
                 ended |-> FALSE, cancelled |-> FALSE, written |-> 0, out |-> 0]
  BY DEF LogsInit, Socket!TransportInit
<1>2. 0 \in 0 .. MaxPackets /\ <<>> \in Seq(1 .. MaxPackets) /\ Len(<<>>) = 0 /\ 1 .. 0 = {}
  BY LogsAssumption, SMT DEF LogsAssumption
<1>3. transport \in Transports
  BY <1>1, <1>2, Zenon DEF Transports
<1>4. Connected(transport)
  BY <1>1, Zenon DEF Connected
<1>5. Unread(transport) /\ Sent(transport)
  BY <1>1, <1>2, SMT DEF Unread, Sent
<1> QED
  BY <1>3, <1>4, <1>5 DEF SocketInv

LEMMA OpeningKeeps ==
  ASSUME SocketInv,
         \/ \E kind \in {"ws", "tcp"} : Socket!Connect(kind)
         \/ Socket!WebSocketOpened \/ Socket!WebSocketFailed \/ Socket!TcpOpened
  PROVE  SocketInv'
<1>1. ASSUME NEW kind \in {"ws", "tcp"}, Socket!Connect(kind)
      PROVE  SocketInv'
  <2>1. /\ transport.connect = "none" /\ transport.socket = "none"
        /\ transport' = [transport EXCEPT !.kind = kind, !.socket = "connecting", !.connect = "pending"]
    BY <1>1 DEF Socket!Connect, SocketInv, Connected
  <2>2. /\ transport' \in Transports /\ Untouched(transport, transport')
        /\ transport'.socket = "connecting" /\ transport'.connect = "pending"
        /\ transport'.listening = transport.listening
    BY <2>1, Zenon DEF SocketInv, Transports, Untouched
  <2>3. Connected(transport')
    BY <2>1, <2>2, Zenon DEF SocketInv, Connected
  <2> QED
    BY <2>1, <2>2, <2>3, UntouchedKeeps, Zenon DEF SocketInv
<1>2. ASSUME transport.socket = "connecting", transport.connect = "pending",
             transport' = [transport EXCEPT !.socket = "open", !.connect = "resolved",
                                            !.listening = TRUE]
      PROVE  SocketInv'
  <2>1. /\ transport' \in Transports /\ Untouched(transport, transport')
        /\ transport'.socket = "open" /\ transport'.connect = "resolved"
        /\ transport'.listening
    BY <1>2, Zenon DEF SocketInv, Transports, Untouched
  <2>2. Connected(transport')
    BY <2>1, Zenon DEF Connected
  <2> QED
    BY <1>2, <2>1, <2>2, UntouchedKeeps, Zenon DEF SocketInv
<1>3. ASSUME transport.socket = "connecting", transport.connect = "pending",
             transport' = [transport EXCEPT !.socket = "closed", !.connect = "rejected"]
      PROVE  SocketInv'
  <2>1. /\ transport' \in Transports /\ Untouched(transport, transport')
        /\ transport'.socket = "closed" /\ transport'.connect = "rejected"
        /\ transport'.listening = transport.listening
    BY <1>3, Zenon DEF SocketInv, Transports, Untouched
  <2>2. Connected(transport')
    BY <1>3, <2>1, Zenon DEF SocketInv, Connected
  <2> QED
    BY <1>3, <2>1, <2>2, UntouchedKeeps, Zenon DEF SocketInv
<1>4. /\ Socket!WebSocketOpened \/ Socket!WebSocketFailed \/ Socket!TcpOpened
         => transport.socket = "connecting" /\ transport.connect = "pending"
  BY DEF Socket!WebSocketOpened, Socket!WebSocketFailed, Socket!TcpOpened, SocketInv, Connected
<1> QED
  BY <1>1, <1>2, <1>3, <1>4
     DEF Socket!WebSocketOpened, Socket!WebSocketFailed, Socket!TcpOpened

\* What the steps on the streams are given.
LEMMA SocketIs ==
  ASSUME SocketInv
  PROVE  /\ MaxPackets \in Nat
         /\ {transport.came, transport.read, transport.written, transport.out} \subseteq 0 .. MaxPackets
         /\ transport.queue \in Seq(1 .. MaxPackets) /\ Len(transport.queue) \in Nat
         /\ DOMAIN transport.queue = 1 .. Len(transport.queue)
BY LogsAssumption, LenProperties DEF LogsAssumption, SocketInv, Transports

\* Messages r + 1, r + 2, ... are unread, and another comes, or one is read.
LEMMA Received ==
  ASSUME NEW n \in Nat, NEW r \in Nat, NEW s \in Seq(1 .. n), r + Len(s) < n,
         \A i \in 1 .. Len(s) : s[i] = r + i
  PROVE  LET t == Append(s, r + Len(s) + 1) IN
         /\ t \in Seq(1 .. n) /\ r + Len(t) = r + Len(s) + 1
         /\ \A i \in 1 .. Len(t) : t[i] = r + i
<1>1. Len(s) \in Nat /\ r + Len(s) + 1 \in 1 .. n /\ r + (Len(s) + 1) = r + Len(s) + 1
  BY LenProperties, SMT
<1> DEFINE e == r + Len(s) + 1
<1>2. /\ Append(s, e) \in Seq(1 .. n) /\ Len(Append(s, e)) = Len(s) + 1
      /\ \A i \in 1 .. Len(s) + 1 : Append(s, e)[i] = IF i <= Len(s) THEN s[i] ELSE e
  <2> HIDE DEF e
  <2>1. e \in 1 .. n
    BY <1>1 DEF e
  <2> QED
    BY <2>1, AppendProperties, SMT
<1>3. \A i \in 1 .. Len(s) + 1 : (IF i <= Len(s) THEN s[i] ELSE e) = r + i
  BY <1>1, SMT
<1> HIDE DEF e
<1> QED
  BY <1>1, <1>2, <1>3, Zenon DEF e

LEMMA Taken ==
  ASSUME NEW n \in Nat, NEW r \in Nat, NEW s \in Seq(1 .. n), s # <<>>,
         \A i \in 1 .. Len(s) : s[i] = r + i
  PROVE  /\ Head(s) = r + 1 /\ Head(s) \in 1 .. n
         /\ Tail(s) \in Seq(1 .. n) /\ r + 1 + Len(Tail(s)) = r + Len(s)
         /\ \A i \in 1 .. Len(Tail(s)) : Tail(s)[i] = r + 1 + i
<1>1. Len(s) \in Nat /\ Len(s) # 0 /\ s[1] \in 1 .. n /\ Head(s) = s[1]
  BY SMT
<1>2. /\ Tail(s) \in Seq(1 .. n) /\ Len(Tail(s)) = Len(s) - 1
      /\ \A i \in 1 .. Len(s) - 1 : Tail(s)[i] = s[i + 1]
  BY SMT
<1>3. \A i \in 1 .. Len(s) - 1 : s[i + 1] = r + 1 + i
  BY <1>1, SMT
<1> QED
  BY <1>1, <1>2, <1>3, SMT

LEMMA MessageKeeps ==
  ASSUME SocketInv, Socket!Message
  PROVE  SocketInv'
<1> DEFINE n == transport.came + 1
           q == Append(transport.queue, n)
<1>1. /\ transport.socket = "open" /\ transport.listening /\ transport.came < MaxPackets
      /\ transport.read + Len(transport.queue) = transport.came
      /\ \A i \in 1 .. Len(transport.queue) : transport.queue[i] = transport.read + i
  BY DEF Socket!Message, SocketInv, Connected, Unread
<1>2. n \in 0 .. MaxPackets
  BY <1>1, SocketIs, SMT
<1>3. /\ q \in Seq(1 .. MaxPackets) /\ transport.read + Len(q) = n
      /\ \A i \in 1 .. Len(q) : q[i] = transport.read + i
  <2> DEFINE s == transport.queue
             r == transport.read
  <2>1. r \in Nat /\ MaxPackets \in Nat /\ s \in Seq(1 .. MaxPackets)
    BY SocketIs, SMT
  <2>2. r + Len(s) = transport.came /\ (\A i \in 1 .. Len(s) : s[i] = r + i)
    BY <1>1
  <2>3. r + Len(s) < MaxPackets
    BY <1>1, <2>2
  <2>4. q = Append(s, r + Len(s) + 1) /\ n = r + Len(s) + 1
    BY <2>2
  <2> HIDE DEF s, r, q, n
  <2>5. /\ q \in Seq(1 .. MaxPackets) /\ r + Len(q) = n
        /\ \A i \in 1 .. Len(q) : q[i] = r + i
    BY <2>1, <2>2, <2>3, <2>4, Received, Zenon
  <2> QED
    BY <2>5, Zenon DEF r
<1>4. transport' = [transport EXCEPT !.came = n, !.queue = q]
  BY <1>1, Zenon DEF Socket!Message
<1> HIDE DEF q, n
<1>5. /\ transport' \in Transports /\ transport'.came = n /\ transport'.queue = q
      /\ transport'.read = transport.read /\ transport'.written = transport.written
      /\ transport'.out = transport.out /\ transport'.socket = transport.socket
      /\ transport'.connect = transport.connect /\ transport'.listening = transport.listening
      /\ transport'.ended = transport.ended
  BY <1>2, <1>3, <1>4, Zenon DEF SocketInv, Transports
<1>6. Connected(transport') /\ Sent(transport')
  BY <1>5, Zenon DEF SocketInv, Connected, Sent
<1>7. Unread(transport')
  <2>1. n <= n
    BY <1>2, SMT
  <2> QED
    BY <1>3, <1>5, <2>1, Zenon DEF Unread
<1> QED
  BY <1>5, <1>6, <1>7 DEF SocketInv

LEMMA ReadKeeps ==
  ASSUME SocketInv, Socket!ReadNext
  PROVE  SocketInv'
<1> DEFINE q == Tail(transport.queue)
           r == Head(transport.queue)
<1>1. /\ transport.queue # <<>> /\ transport' = [transport EXCEPT !.read = r, !.queue = q]
  BY Zenon DEF Socket!ReadNext
<1>2. transport.read \in Nat /\ MaxPackets \in Nat
  BY SocketIs, SMT
<1>3. /\ \A i \in 1 .. Len(transport.queue) : transport.queue[i] = transport.read + i
      /\ transport.read + Len(transport.queue) <= transport.came
      /\ transport.socket # "closed" => transport.read + Len(transport.queue) = transport.came
  BY DEF SocketInv, Unread
<1>4. /\ r = transport.read + 1 /\ r \in 1 .. MaxPackets
      /\ q \in Seq(1 .. MaxPackets)
      /\ transport.read + 1 + Len(q) = transport.read + Len(transport.queue)
      /\ \A i \in 1 .. Len(q) : q[i] = transport.read + 1 + i
  BY <1>1, <1>2, <1>3, SocketIs, Taken
<1>5. r \in 0 .. MaxPackets /\ r + Len(q) = transport.read + Len(transport.queue)
  <2>1. r \in 0 .. MaxPackets
    <3> HIDE DEF r
    <3> QED
      BY <1>2, <1>4, SMT
  <2> QED
    BY <1>4, <2>1
<1>6. \A i \in 1 .. Len(q) : q[i] = r + i
  BY <1>4
<1> HIDE DEF q, r
<1>7. /\ transport' \in Transports /\ transport'.came = transport.came /\ transport'.queue = q
      /\ transport'.read = r /\ transport'.written = transport.written
      /\ transport'.out = transport.out /\ transport'.socket = transport.socket
      /\ transport'.connect = transport.connect /\ transport'.listening = transport.listening
      /\ transport'.ended = transport.ended
  BY <1>1, <1>4, <1>5, Zenon DEF SocketInv, Transports
<1>8. Connected(transport') /\ Sent(transport')
  BY <1>7, Zenon DEF SocketInv, Connected, Sent
<1>9. Unread(transport')
  BY <1>3, <1>5, <1>6, <1>7, Zenon DEF Unread
<1> QED
  BY <1>7, <1>8, <1>9 DEF SocketInv

LEMMA WriteNextKeeps ==
  ASSUME SocketInv, Socket!WriteNext
  PROVE  SocketInv'
<1> DEFINE w == transport.written + 1
           o == IF transport.socket = "open" THEN transport.out + 1 ELSE transport.out
<1>1. /\ transport.connect = "resolved" /\ transport.written < MaxPackets
      /\ transport' = [transport EXCEPT !.written = w, !.out = o]
  BY Zenon DEF Socket!WriteNext
<1>2. transport.out <= transport.written
      /\ (transport.socket = "open" => transport.written = transport.out)
  BY DEF SocketInv, Sent
<1>3. w \in 0 .. MaxPackets /\ o \in 0 .. MaxPackets /\ o <= w
      /\ (transport.socket = "open" => w = o)
  BY <1>1, <1>2, SocketIs, SMT
<1> HIDE DEF w, o
<1>4. /\ transport' \in Transports /\ transport'.came = transport.came
      /\ transport'.queue = transport.queue
      /\ transport'.read = transport.read /\ transport'.written = w
      /\ transport'.out = o /\ transport'.socket = transport.socket
      /\ transport'.connect = transport.connect /\ transport'.listening = transport.listening
      /\ transport'.ended = transport.ended
  BY <1>1, <1>3, Zenon DEF SocketInv, Transports
<1>5. Connected(transport') /\ Unread(transport')
  BY <1>4, Zenon DEF SocketInv, Connected, Unread
<1>6. Sent(transport')
  BY <1>1, <1>3, <1>4, Zenon DEF SocketInv, Connected, Sent
<1> QED
  BY <1>4, <1>5, <1>6 DEF SocketInv

LEMMA ClosingKeeps ==
  ASSUME SocketInv, Socket!CancelStreams \/ Socket!PeerCloses
  PROVE  SocketInv'
<1>1. transport.socket \in {"open", "closing"} /\ transport.connect = "resolved"
  BY DEF SocketInv, Transports, Connected, Socket!CancelStreams, Socket!PeerCloses
<1>2. PICK c \in BOOLEAN : transport' = [transport EXCEPT !.cancelled = c, !.socket = "closing"]
  <2>1. CASE Socket!CancelStreams
    BY <2>1 DEF Socket!CancelStreams
  <2>2. CASE Socket!PeerCloses
    BY <2>2, Zenon DEF Socket!PeerCloses, SocketInv, Transports
  <2> QED
    BY <2>1, <2>2
<1>3. /\ transport' \in Transports /\ Untouched(transport, transport')
      /\ transport'.socket = "closing" /\ transport'.connect = transport.connect
      /\ transport'.listening = transport.listening /\ transport'.ended = transport.ended
  BY <1>2, Zenon DEF SocketInv, Transports, Untouched
<1>4. Connected(transport')
  BY <1>1, <1>3, Zenon DEF SocketInv, Connected
<1> QED
  BY <1>1, <1>3, <1>4, UntouchedKeeps, Zenon DEF SocketInv

LEMMA ClosedKeeps ==
  ASSUME SocketInv, Socket!SocketClosed
  PROVE  SocketInv'
<1>1. PICK kept \in 0 .. Len(transport.queue) :
        transport' = [transport EXCEPT !.socket = "closed", !.ended = transport.listening,
                                       !.queue = SubSeq(@, 1, kept)]
  BY DEF Socket!SocketClosed
<1> DEFINE q == SubSeq(transport.queue, 1, kept)
<1>2. transport.socket = "closing" /\ transport.connect = "resolved" /\ transport.listening
  BY DEF Socket!SocketClosed, SocketInv, Connected
<1>3. /\ q \in Seq(1 .. MaxPackets) /\ Len(q) = kept /\ kept \in Nat
      /\ \A i \in 1 .. Len(q) : q[i] = transport.queue[i] /\ i \in 1 .. Len(transport.queue)
  BY SocketIs, SMT
<1> HIDE DEF q
<1>4. /\ transport' \in Transports /\ transport'.came = transport.came
      /\ transport'.queue = q
      /\ transport'.read = transport.read /\ transport'.written = transport.written
      /\ transport'.out = transport.out /\ transport'.socket = "closed"
      /\ transport'.connect = transport.connect /\ transport'.listening = transport.listening
      /\ transport'.ended = transport.listening
  BY <1>1, <1>3, Zenon DEF SocketInv, Transports, q
<1>5. Connected(transport') /\ Sent(transport')
  BY <1>2, <1>4, Zenon DEF SocketInv, Connected, Sent
<1>6. Unread(transport')
  <2>1. transport.read + Len(q) <= transport.came
    BY <1>3, SocketIs, SMT DEF SocketInv, Unread
  <2>2. \A i \in 1 .. Len(q) : q[i] = transport.read + i
    BY <1>3 DEF SocketInv, Unread
  <2> QED
    BY <1>4, <2>1, <2>2, Zenon DEF Unread
<1> QED
  BY <1>4, <1>5, <1>6 DEF SocketInv

LEMMA SocketKeeps ==
  ASSUME SocketInv, [LogsNext]_logsVars
  PROVE  SocketInv'
<1>1. CASE UNCHANGED transport
  BY <1>1, Zenon DEF SocketInv
<1> QED
  BY <1>1, OpeningKeeps, MessageKeeps, ReadKeeps, WriteNextKeeps, ClosingKeeps, ClosedKeeps
     DEF LogsNext, Socket!TransportStep, logsVars
-----------------------------------------------------------------------------
(* The list of the page                                                    *)

LogRecords ==
  [run : 0 .. MaxStarts, sent : 0 .. MaxEntries, stream : 0 .. MaxConnections,
   running : BOOLEAN, buffer : Seq(Entries), flushRequested : BOOLEAN, list : Seq(Entries),
   selection : Selections(MaxRows), format : EntryFormats, uid : BOOLEAN, timezone : BOOLEAN,
   time : TimeFormats, nanosecond : NanosecondFormats]

\* The place of an entry among all there can be: no more come before it.
Rank(e) == (e[1] - 1) * MaxEntries + e[2]

Ranked(s) == \A i \in 1 .. Len(s) : i <= Rank(s[i])

LogListed ==
  /\ log \in LogRecords
  /\ log.stream # 0 => log.run # 0
  /\ SelectionShown(log.selection)
  /\ Ranked(All(log))

LEMMA RankIs ==
  ASSUME NEW e \in Entries
  PROVE  Rank(e) \in 1 .. MaxRows
<1>1. PICK r \in 1 .. MaxStarts, k \in 1 .. MaxEntries : e[1] = r /\ e[2] = k
  BY DEF Entries
<1>2. r \in Nat /\ k \in Nat /\ r - 1 \in Nat /\ MaxEntries \in Nat /\ MaxStarts \in Nat
      /\ k <= MaxEntries /\ 1 <= k /\ r <= MaxStarts
  BY LogsAssumption, SMT DEF LogsAssumption
<1>3. (r - 1) * MaxEntries \in Nat /\ r * MaxEntries = (r - 1) * MaxEntries + MaxEntries
  BY <1>2, SMT
<1>4. r * MaxEntries <= MaxStarts * MaxEntries /\ MaxStarts * MaxEntries \in Nat
      /\ r * MaxEntries \in Nat
  BY <1>2, SMT
<1> DEFINE a == (r - 1) * MaxEntries
           b == r * MaxEntries
           c == MaxStarts * MaxEntries
<1>5. a \in Nat /\ b \in Nat /\ c \in Nat /\ b = a + MaxEntries /\ b <= c
  BY <1>3, <1>4
<1>6. Rank(e) = a + k /\ MaxRows = c
  BY <1>1 DEF Rank, MaxRows
<1> HIDE DEF a, b, c
<1> QED
  BY <1>2, <1>5, <1>6, SMT

LEMMA RankGrows ==
  ASSUME NEW e \in Entries, NEW f \in Entries, Before(e, f)
  PROVE  Rank(e) < Rank(f)
<1>1. PICK r \in 1 .. MaxStarts, k \in 1 .. MaxEntries : e[1] = r /\ e[2] = k
  BY DEF Entries
<1>2. PICK p \in 1 .. MaxStarts, j \in 1 .. MaxEntries : f[1] = p /\ f[2] = j
  BY DEF Entries
<1>3. /\ r \in Nat /\ k \in Nat /\ p \in Nat /\ j \in Nat /\ MaxEntries \in Nat
      /\ k <= MaxEntries /\ 1 <= j
  BY LogsAssumption, SMT DEF LogsAssumption
<1>4. Rank(e) = (r - 1) * MaxEntries + k /\ Rank(f) = (p - 1) * MaxEntries + j
  BY <1>1, <1>2 DEF Rank
<1>5. r < p \/ (r = p /\ k < j)
  BY <1>1, <1>2 DEF Before
<1>6. CASE r = p /\ k < j
  <2>1. (p - 1) * MaxEntries \in Int
    BY <1>3, SMT
  <2> DEFINE a == (p - 1) * MaxEntries
  <2>2. Rank(e) = a + k /\ Rank(f) = a + j /\ a \in Int
    BY <1>4, <1>6, <2>1
  <2> HIDE DEF a
  <2> QED
    BY <1>3, <1>6, <2>2, SMT
<1>7. CASE r < p
  <2>1. (r - 1) * MaxEntries + MaxEntries = r * MaxEntries /\ r * MaxEntries <= (p - 1) * MaxEntries
        /\ (r - 1) * MaxEntries \in Int /\ (p - 1) * MaxEntries \in Int /\ r * MaxEntries \in Int
    BY <1>3, <1>7, SMT
  <2> DEFINE a == (r - 1) * MaxEntries
             b == (p - 1) * MaxEntries
             c == r * MaxEntries
  <2>2. /\ a + MaxEntries = c /\ c <= b /\ a \in Int /\ b \in Int /\ c \in Int
        /\ Rank(e) = a + k /\ Rank(f) = b + j
    BY <1>4, <2>1
  <2> HIDE DEF a, b, c
  <2> QED
    BY <1>3, <2>2, SMT
<1> QED
  BY <1>5, <1>6, <1>7

LEMMA RankedAppend ==
  ASSUME NEW s \in Seq(Entries), NEW e \in Entries, Ranked(s),
         s # <<>> => Before(s[Len(s)], e)
  PROVE  Ranked(Append(s, e))
<1>1. Len(s) \in Nat /\ Len(Append(s, e)) = Len(s) + 1
  BY SMT
<1>2. Len(s) + 1 <= Rank(e)
  <2>1. CASE s = <<>>
    BY <2>1, RankIs, SMT
  <2>2. CASE s # <<>>
    <3>1. Len(s) \in 1 .. Len(s) /\ s[Len(s)] \in Entries
      BY <2>2, SMT
    <3>2. Len(s) <= Rank(s[Len(s)]) /\ Rank(s[Len(s)]) < Rank(e)
      BY <2>2, <3>1, RankGrows DEF Ranked
    <3>3. Rank(s[Len(s)]) \in Int /\ Rank(e) \in Int
      BY <3>1, RankIs, SMT
    <3> QED
      BY <1>1, <3>2, <3>3, SMT
  <2> QED
    BY <2>1, <2>2
<1>3. \A i \in 1 .. Len(s) + 1 : Append(s, e)[i] = IF i <= Len(s) THEN s[i] ELSE e
  BY SMT
<1>4. SUFFICES ASSUME NEW i \in 1 .. Len(s) + 1
               PROVE  i <= Rank(Append(s, e)[i])
  BY <1>1 DEF Ranked
<1>5. CASE i <= Len(s)
  <2>1. i \in 1 .. Len(s) /\ Append(s, e)[i] = s[i]
    BY <1>1, <1>3, <1>5, SMT
  <2> QED
    BY <2>1 DEF Ranked
<1>6. CASE ~ (i <= Len(s))
  <2>1. i = Len(s) + 1 /\ Append(s, e)[i] = e
    BY <1>1, <1>3, <1>6, SMT
  <2> QED
    BY <1>2, <2>1
<1> QED
  BY <1>5, <1>6

\* The end of a ranked sequence is one: its entries only move forward.
LEMMA RankedEnd ==
  ASSUME NEW s \in Seq(Entries), NEW t \in Seq(Entries), Ranked(s \o t)
  PROVE  Ranked(t) /\ Len(s) <= MaxRows
<1>1. Len(s) \in Nat /\ Len(t) \in Nat /\ Len(s \o t) = Len(s) + Len(t)
  BY SMT
<1>2. ASSUME NEW i \in 1 .. Len(t)
      PROVE  i <= Rank(t[i])
  <2>1. Len(s) + i \in 1 .. Len(s \o t) /\ (s \o t)[Len(s) + i] = t[i] /\ t[i] \in Entries
    BY <1>1, SMT
  <2>2. Len(s) + i <= Rank(t[i]) /\ Rank(t[i]) \in Int
    BY <2>1, RankIs, SMT DEF Ranked
  <2> QED
    BY <1>1, <2>2, SMT
<1>3. Len(s) <= MaxRows
  <2>1. MaxRows \in Nat
    BY LogsAssumption, SMT DEF LogsAssumption, MaxRows
  <2>2. CASE Len(s) = 0
    BY <2>1, <2>2, SMT
  <2>3. CASE Len(s) # 0
    <3>1. Len(s) \in 1 .. Len(s \o t) /\ (s \o t)[Len(s)] = s[Len(s)] /\ s[Len(s)] \in Entries
      BY <1>1, <2>3, SMT
    <3>2. Len(s) <= Rank(s[Len(s)]) /\ Rank(s[Len(s)]) \in 1 .. MaxRows
      BY <3>1, RankIs DEF Ranked
    <3> QED
      BY <1>1, <2>1, <3>2, SMT
  <2> QED
    BY <2>2, <2>3
<1> QED
  BY <1>2, <1>3 DEF Ranked

LEMMA ListIs ==
  ASSUME LogListed
  PROVE  /\ MaxRows \in Nat /\ MaxStarts \in Nat /\ MaxEntries \in Nat
         /\ log.run \in 0 .. MaxStarts /\ log.sent \in 0 .. MaxEntries
         /\ log.list \in Seq(Entries) /\ log.buffer \in Seq(Entries)
         /\ All(log) \in Seq(Entries)
         /\ Ranked(log.buffer) /\ Len(log.list) \in 0 .. MaxRows
         /\ log.selection \in Selections(MaxRows) /\ BoxesShow(log.selection)
<1>1. MaxRows \in Nat /\ MaxStarts \in Nat /\ MaxEntries \in Nat
  BY LogsAssumption, SMT DEF LogsAssumption, MaxRows
<1>2. /\ log.run \in 0 .. MaxStarts /\ log.sent \in 0 .. MaxEntries
      /\ log.list \in Seq(Entries) /\ log.buffer \in Seq(Entries)
      /\ log.selection \in Selections(MaxRows) /\ BoxesShow(log.selection)
  BY DEF LogListed, LogRecords, SelectionShown, BoxesShow
<1>3. All(log) \in Seq(Entries)
  BY <1>2, SMT DEF All
<1>4. Ranked(log.buffer) /\ Len(log.list) <= MaxRows
  BY <1>2, RankedEnd DEF LogListed, All
<1>5. Len(log.list) \in 0 .. MaxRows
  BY <1>1, <1>2, <1>4, LenProperties, SMT
<1> QED
  BY <1>1, <1>2, <1>3, <1>4, <1>5

LEMMA ListStarts == LogsInit => LogListed
<1> SUFFICES ASSUME LogsInit PROVE LogListed
  OBVIOUS
<1>1. log = [run |-> 0, sent |-> 0, stream |-> 0, running |-> FALSE, buffer |-> <<>>,
             flushRequested |-> FALSE, list |-> <<>>, selection |-> NewSelection,
             format |-> "ThreadTime", uid |-> FALSE, timezone |-> FALSE, time |-> "default",
             nanosecond |-> "millisecond"]
  BY DEF LogsInit, LogInit
<1>2. 0 \in 0 .. MaxStarts /\ 0 \in 0 .. MaxEntries /\ 0 \in 0 .. MaxConnections
  BY LogsAssumption, MaxConnectionsAssumption, SMT DEF LogsAssumption
<1>3. <<>> \in Seq(Entries) /\ MaxRows \in Nat
  BY LogsAssumption, SMT DEF LogsAssumption, MaxRows
<1>4. NewSelection \in Selections(MaxRows) /\ SelectionShown(NewSelection)
  BY <1>3, NewSelectionFits
<1>5. log \in LogRecords
  BY <1>1, <1>2, <1>3, <1>4, Zenon DEF LogRecords, EntryFormats, TimeFormats, NanosecondFormats
<1>6. All(log) = <<>> /\ Len(<<>>) = 0 /\ 1 .. 0 = {}
  BY <1>1, SMT DEF All
<1> QED
  BY <1>1, <1>4, <1>5, <1>6, Zenon DEF LogListed, Ranked

\* Steps that leave the list, the buffer and the selection alone.
LEMMA ListAside ==
  ASSUME LogListed, log' \in LogRecords, log'.list = log.list, log'.buffer = log.buffer,
         log'.selection = log.selection, log'.stream # 0 => log'.run # 0
  PROVE  LogListed'
BY Zenon DEF LogListed, All

LEMMA ListRuns ==
  ASSUME LogListed, SlotTypeOK,
         LogDeviceStep \/ LogStop \/ LogStreamEnds
  PROVE  LogListed'
<1>1. 0 \in 0 .. MaxConnections
  BY MaxConnectionsAssumption, SMT
<1>2. \/ log' = log \/ log' = [log EXCEPT !.running = FALSE, !.stream = 0]
      \/ log' = [log EXCEPT !.stream = 0]
  BY Zenon DEF LogDeviceStep, LogStop, LogStreamEnds, Stopped
<1>3. CASE log' = log
  BY <1>3, Zenon DEF LogListed
<1>4. CASE log' = [log EXCEPT !.running = FALSE, !.stream = 0]
  <2>1. /\ log' \in LogRecords /\ log'.list = log.list /\ log'.buffer = log.buffer
        /\ log'.selection = log.selection /\ log'.stream = 0
    BY <1>1, <1>4, Zenon DEF LogListed, LogRecords
  <2> QED
    BY <2>1, ListAside
<1>5. CASE log' = [log EXCEPT !.stream = 0]
  <2>1. /\ log' \in LogRecords /\ log'.list = log.list /\ log'.buffer = log.buffer
        /\ log'.selection = log.selection /\ log'.stream = 0
    BY <1>1, <1>5, Zenon DEF LogListed, LogRecords
  <2> QED
    BY <2>1, ListAside
<1> QED
  BY <1>2, <1>3, <1>4, <1>5

LEMMA ListStartKeeps ==
  ASSUME LogListed, SlotTypeOK, LogStart
  PROVE  LogListed'
<1> DEFINE r == log.run + 1
<1>1. /\ adb \in 0 .. MaxConnections
      /\ log' = [log EXCEPT !.list = <<>>, !.running = TRUE, !.stream = adb, !.run = r, !.sent = 0]
  BY Zenon DEF LogStart, SlotTypeOK
<1>2. log.run < MaxStarts
  BY DEF LogStart
<1>3. r \in 0 .. MaxStarts /\ r # 0 /\ 0 \in 0 .. MaxEntries /\ <<>> \in Seq(Entries)
  BY <1>2, ListIs, SMT
<1> HIDE DEF r
<1>4. /\ log' \in LogRecords /\ log'.list = <<>> /\ log'.buffer = log.buffer
      /\ log'.selection = log.selection /\ log'.run = r
  BY <1>1, <1>3, Zenon DEF LogListed, LogRecords
<1>5. All(log') = log.buffer
  BY <1>4, ListIs, SMT DEF All
<1> QED
  BY <1>3, <1>4, <1>5, ListIs, Zenon DEF LogListed

LEMMA AppendedLater ==
  ASSUME NEW S, NEW s \in Seq(S), NEW t \in Seq(S), NEW e \in S
  PROVE  Append(t, e) \in Seq(S) /\ s \o Append(t, e) = Append(s \o t, e)
BY SMT

LEMMA ListWriteKeeps ==
  ASSUME LogListed, LogInv, LogWrite
  PROVE  LogListed'
<1> DEFINE k == log.sent + 1
           e == <<log.run, k>>
           b == Append(log.buffer, e)
<1>1. /\ log' = [log EXCEPT !.sent = k, !.buffer = b, !.flushRequested = TRUE]
      /\ log.run # 0
  BY Zenon DEF LogWrite, LogListed
<1>2. log.sent < MaxEntries
  BY DEF LogWrite
<1>3. k \in 0 .. MaxEntries /\ k \in 1 .. MaxEntries /\ log.run \in 1 .. MaxStarts
  BY <1>1, <1>2, ListIs, SMT
<1>4. e \in Entries
  <2> HIDE DEF k
  <2> QED
    BY <1>3 DEF Entries
<1>5. All(log) # <<>> => Before(All(log)[Len(All(log))], e)
  BY <1>3, SMT DEF LogInv, LogShape, NoneNewer, Before
<1> HIDE DEF e
<1>6. b \in Seq(Entries) /\ log.list \o b = Append(All(log), e)
  <2>1. log.list \in Seq(Entries) /\ log.buffer \in Seq(Entries)
    BY ListIs
  <2>2. \A s, t \in Seq(Entries) :
          Append(t, e) \in Seq(Entries) /\ s \o Append(t, e) = Append(s \o t, e)
    BY <1>4, AppendedLater
  <2>3. b \in Seq(Entries) /\ log.list \o b = Append(log.list \o log.buffer, e)
    BY <2>1, <2>2, Zenon
  <2> QED
    BY <2>3 DEF All
<1>7. Ranked(Append(All(log), e))
  BY <1>4, <1>5, ListIs, RankedAppend DEF LogListed
<1> HIDE DEF b, k
<1>8. /\ log' \in LogRecords /\ log'.list = log.list /\ log'.buffer = b
      /\ log'.selection = log.selection /\ log'.run = log.run
  BY <1>1, <1>3, <1>6, Zenon DEF LogListed, LogRecords
<1>9. All(log') = Append(All(log), e)
  BY <1>6, <1>8 DEF All
<1> QED
  BY <1>1, <1>7, <1>8, <1>9, Zenon DEF LogListed

LEMMA ListFlushKeeps ==
  ASSUME LogListed, LogFlush
  PROVE  LogListed'
<1> DEFINE l == log.list \o log.buffer
<1>1. log' = [log EXCEPT !.list = l, !.buffer = <<>>, !.flushRequested = FALSE]
  BY Zenon DEF LogFlush
<1>2. l \in Seq(Entries) /\ <<>> \in Seq(Entries) /\ l \o <<>> = l /\ l = All(log)
  BY ListIs, SMT DEF All
<1> HIDE DEF l
<1>3. /\ log' \in LogRecords /\ log'.list = l /\ log'.buffer = <<>>
      /\ log'.selection = log.selection /\ log'.run = log.run /\ log'.stream = log.stream
  BY <1>1, <1>2, Zenon DEF LogListed, LogRecords
<1>4. All(log') = All(log)
  BY <1>2, <1>3 DEF All
<1> QED
  BY <1>3, <1>4, Zenon DEF LogListed

\* The list as it is, or emptied, with another selection.
LEMMA ListSelectionKeeps ==
  ASSUME LogListed, NEW t \in Selections(MaxRows), SelectionShown(t),
         NEW l \in {log.list, <<>>}, log' = [log EXCEPT !.list = l, !.selection = t]
  PROVE  LogListed'
<1>1. l \in Seq(Entries)
  <2>1. <<>> \in Seq(Entries) /\ log.list \in Seq(Entries)
    BY ListIs, SMT
  <2> QED
    BY <2>1
<1>2. /\ log' \in LogRecords /\ log'.list = l /\ log'.buffer = log.buffer
      /\ log'.selection = t /\ log'.run = log.run /\ log'.stream = log.stream
  BY <1>1, Zenon DEF LogListed, LogRecords
<1>3. Ranked(All(log'))
  <2>1. CASE l = log.list
    BY <1>2, <2>1 DEF All, LogListed
  <2>2. CASE l = <<>>
    <3>1. All(log') = log.buffer
      BY <1>2, <2>2, ListIs, SMT DEF All
    <3> QED
      BY <3>1, ListIs
  <2> QED
    BY <2>1, <2>2
<1> QED
  BY <1>2, <1>3, Zenon DEF LogListed

LEMMA ListSelectKeeps ==
  ASSUME LogListed,
         \/ LogClear \/ LogSelectAll \/ LogEscape
         \/ \E i \in 0 .. MaxRows - 1, ctrlKey, shiftKey \in BOOLEAN :
               LogSelect(i, ctrlKey, shiftKey)
  PROVE  LogListed'
<1>1. /\ ClearSelection(log.selection) \in Selections(MaxRows)
      /\ SelectionShown(ClearSelection(log.selection))
  BY ListIs, ClearSelectionIs
<1>2. CASE LogClear
  <2>1. log' = [log EXCEPT !.list = <<>>, !.selection = ClearSelection(log.selection)]
    BY <1>2, Zenon DEF LogClear
  <2> QED
    BY <1>1, <2>1, ListSelectionKeeps
<1>3. ASSUME NEW t \in Selections(MaxRows), SelectionShown(t), log' = [log EXCEPT !.selection = t]
      PROVE  LogListed'
  <2>1. log' = [log EXCEPT !.list = log.list, !.selection = t]
    BY <1>3, Zenon DEF LogListed, LogRecords
  <2> QED
    BY <1>3, <2>1, ListSelectionKeeps
<1>4. CASE LogEscape
  BY <1>1, <1>3, <1>4, Zenon DEF LogEscape
<1>5. CASE LogSelectAll
  <2>1. Len(log.list) \in 0 .. MaxRows + 1
    BY ListIs, SMT
  <2>2. /\ SelectAll(log.selection, Len(log.list)) \in Selections(MaxRows)
        /\ SelectionShown(SelectAll(log.selection, Len(log.list)))
    BY <2>1, ListIs, SelectAllIs
  <2> QED
    BY <1>3, <1>5, <2>2, Zenon DEF LogSelectAll
<1>6. ASSUME NEW i \in 0 .. MaxRows - 1, NEW ctrlKey \in BOOLEAN, NEW shiftKey \in BOOLEAN,
             LogSelect(i, ctrlKey, shiftKey)
      PROVE  LogListed'
  <2>1. i \in 0 .. MaxRows /\ i \in -1 .. MaxRows
    BY ListIs, SMT
  <2>2. Chosen(Select(log.selection, i, ctrlKey, shiftKey), log.selection, i, ctrlKey, shiftKey, MaxRows)
    BY <2>1, ListIs, SelectIs
  <2> QED
    BY <1>3, <1>6, <2>2, Zenon DEF LogSelect, Chosen
<1> QED
  BY <1>2, <1>4, <1>5, <1>6

LEMMA ListFormatKeeps ==
  ASSUME LogListed, FormatStep
  PROVE  LogListed'
<1> DEFINE kept == /\ log' \in LogRecords /\ log'.list = log.list /\ log'.buffer = log.buffer
                   /\ log'.selection = log.selection /\ log'.run = log.run
                   /\ log'.stream = log.stream
<1>1. ASSUME NEW f \in EntryFormats, log' = [log EXCEPT !.format = f] PROVE kept
  BY <1>1, Zenon DEF LogListed, LogRecords
<1>2. ASSUME NEW t \in TimeFormats, log' = [log EXCEPT !.time = t] PROVE kept
  BY <1>2, Zenon DEF LogListed, LogRecords
<1>3. ASSUME NEW n \in NanosecondFormats, log' = [log EXCEPT !.nanosecond = n] PROVE kept
  BY <1>3, Zenon DEF LogListed, LogRecords
<1>4. ASSUME NEW u \in BOOLEAN,
             log' = [log EXCEPT !.uid = u] \/ log' = [log EXCEPT !.timezone = u]
      PROVE  kept
  BY <1>4, Zenon DEF LogListed, LogRecords
<1>5. ASSUME ToggleModifier PROVE kept
  <2>1. (~log.uid) \in BOOLEAN /\ (~log.timezone) \in BOOLEAN
    <3>1. log.uid \in BOOLEAN /\ log.timezone \in BOOLEAN
      BY DEF LogListed, LogRecords
    <3> QED
      BY <3>1
  <2> HIDE DEF kept
  <2>2. \/ log' = [log EXCEPT !.uid = ~log.uid]
        \/ log' = [log EXCEPT !.timezone = ~log.timezone]
    BY <1>5, Zenon DEF ToggleModifier
  <2> QED
    BY <1>4, <2>1, <2>2, Zenon
<1>6. kept
  <2> HIDE DEF kept
  <2>1. CASE \E f \in EntryFormats : ChooseFormat(f)
    BY <1>1, <2>1, Zenon DEF ChooseFormat
  <2>2. CASE \E t \in TimeFormats : ChooseTime(t)
    BY <1>2, <2>2, Zenon DEF ChooseTime
  <2>3. CASE \E n \in NanosecondFormats : ChooseNanosecond(n)
    BY <1>3, <2>3, Zenon DEF ChooseNanosecond
  <2> QED
    BY <1>5, <2>1, <2>2, <2>3, Zenon DEF FormatStep
<1> QED
  BY <1>6, ListAside DEF LogListed
-----------------------------------------------------------------------------
(* The pages together                                                      *)

LogsInv == SlotTypeOK /\ GlobalTypeOK /\ LogInv /\ LogListed /\ PacketsInv /\ SocketInv

LEMMA SlotKept ==
  ASSUME SlotTypeOK, GlobalTypeOK, [LogsNext]_logsVars
  PROVE  SlotTypeOK' /\ GlobalTypeOK'
<1>1. CASE UNCHANGED globalVars
  BY <1>1 DEF globalVars, SlotTypeOK, GlobalTypeOK
<1>2. CASE SessionStep
  <2>1. CASE HideErrorDialog
    BY <2>1 DEF HideErrorDialog, SlotTypeOK, GlobalTypeOK, slotVars
  <2>2. ASSUME NEW c \in Connections, SlotStep(c), UNCHANGED errorDialogVisible
        PROVE  SlotTypeOK' /\ GlobalTypeOK'
    BY <2>2, MaxConnectionsAssumption
       DEF SlotStep, Attach, Lose, Clear, SlotTypeOK, GlobalTypeOK, Connections
  <2> QED
    BY <1>2, <2>1, <2>2 DEF SessionStep
<1>3. SessionStep \/ UNCHANGED globalVars
  <2>1. LogStep => SessionStep \/ UNCHANGED globalVars
    BY Zenon DEF LogStep, LogDeviceStep, LogStart, LogStop, LogWrite, LogStreamEnds, LogFlush,
       LogClear, LogSelectAll, LogEscape, LogSelect, Quiet
  <2>2. FormatStep => UNCHANGED globalVars
    BY Zenon DEF FormatStep, ChooseFormat, ToggleModifier, ChooseTime, ChooseNanosecond, Quiet
  <2>3. Traffic!PacketStep => UNCHANGED globalVars
    <3>1. Traffic!Quiet => UNCHANGED globalVars
      BY DEF Traffic!Quiet, Traffic!globalVars, globalVars
    <3> QED
      BY <3>1, Zenon DEF Traffic!PacketStep, Traffic!AppendLog, Traffic!ClearLog,
         Traffic!PacketSelect,
         Traffic!PacketSelectAll, Traffic!UserScroll, Traffic!ScrollEvent, Traffic!RenderRows
  <2> QED
    BY <2>1, <2>2, <2>3, Zenon DEF LogsNext, logsVars
<1> QED
  BY <1>1, <1>2, <1>3

LEMMA ListKeeps ==
  ASSUME LogListed, LogInv, SlotTypeOK, [LogsNext]_logsVars
  PROVE  LogListed'
<1>1. CASE UNCHANGED log
  BY <1>1, Zenon DEF LogListed
<1>2. CASE LogStep
  BY <1>2, ListRuns, ListStartKeeps, ListWriteKeeps, ListFlushKeeps,
     ListSelectKeeps, Zenon DEF LogStep
<1> QED
  BY <1>1, <1>2, ListFormatKeeps DEF LogsNext, logsVars

LEMMA LogsStart == LogsInit => LogsInv
<1> SUFFICES ASSUME LogsInit PROVE LogsInv
  OBVIOUS
<1>1. SlotTypeOK /\ GlobalTypeOK
  <2>1. 0 \in 0 .. MaxConnections
    BY MaxConnectionsAssumption, SMT
  <2> QED
    BY <2>1 DEF LogsInit, GlobalInit, SlotInit, SlotTypeOK, GlobalTypeOK
<1> QED
  BY <1>1, Start, ListStarts, PacketsStart, SocketStart DEF LogsInv

LEMMA LogsKeep == LogsInv /\ [LogsNext]_logsVars => LogsInv'
BY SlotKept, Keeps, ListKeeps, PacketsKeep, SocketKeeps DEF LogsInv

\* The type invariant of both pages and of the socket: the rows selected are
\* rows there can be, which needs the list of logcat to be as short as the
\* entries there are (Ranked).
THEOREM LogsTyped == LogsSpec => []LogsTypeOK
<1>1. LogsInv => LogsTypeOK
  <2> SUFFICES ASSUME LogsInv PROVE LogsTypeOK
    OBVIOUS
  <2>1. LogTypeOK
    <3>1. log \in LogRecords /\ SelectionType(log.selection, MaxRows)
      BY ListIs, SelectionsAre DEF LogsInv, LogListed
    <3> QED
      BY <3>1, Zenon DEF LogTypeOK, LogRecords
  <2>2. Traffic!PacketTypeOK
    <3>1. PacketsInv
      BY DEF LogsInv
    <3>2. SelectionType(packets.selection, MaxPackets)
      BY <3>1, PacketsAre, SelectionsAre
    <3>3. Traffic!SelectionType(packets.selection, MaxPackets)
      BY <3>2 DEF SelectionType, Traffic!SelectionType, None, Traffic!None
    <3>4. Traffic!View!GridType(packets.grid)
      BY <3>1, PacketsAre, Zenon DEF Grids, Traffic!View!GridType
    <3> QED
      BY <3>1, <3>3, <3>4, PacketsAre DEF Traffic!PacketTypeOK
  <2>3. Socket!TransportTypeOK
    <3>1. transport \in Transports
      BY DEF LogsInv, SocketInv
    <3> QED
      BY <3>1, Zenon DEF Transports, Socket!TransportTypeOK
  <2> QED
    BY <2>1, <2>2, <2>3 DEF LogsInv, LogsTypeOK
<1> QED
  BY <1>1, LogsStart, LogsKeep, PTL DEF LogsSpec

\* list-selection.ts, grid.tsx, packet-log.tsx and the transports: the rows of
\* a list are shown selected when they are, the packets selected are in the
\* log, the rows in view are rows of the list, and no message is lost or out
\* of order between the socket and the library that lists it.
THEOREM RowsAreSound == LogsSpec => []RowsSound
<1>1. LogsInv => RowsSound
  <2> SUFFICES ASSUME LogsInv PROVE RowsSound
    OBVIOUS
  <2>1. PacketsInv /\ SocketInv /\ SelectionShown(log.selection)
    BY DEF LogsInv, LogListed
  <2>2. Traffic!PacketsSelected
    BY <2>1 DEF PacketsInv, SelectedLogged, Traffic!PacketsSelected
  <2>3. Traffic!View!RowsExist(packets.grid, packets.logs)
    <3>1. LET r == Traffic!View!RowRange(packets.grid, packets.logs) IN
          r.end \in 0 .. packets.logs /\ r.start <= r.end
      BY <2>1, PacketsAre, RangeIs
    <3> DEFINE last == Traffic!View!RowRange(packets.grid, packets.logs).end
    <3>2. last <= packets.logs
      <4>1. last \in 0 .. packets.logs
        BY <3>1
      <4> HIDE DEF last
      <4> QED
        BY <2>1, <4>1, PacketsAre, SMT
    <3> QED
      BY <3>1, <3>2 DEF Traffic!View!RowsExist
  <2>4. Socket!StreamsFollowSocket
    <3>1. Connected(transport) /\ Unread(transport) /\ Sent(transport)
      BY <2>1 DEF SocketInv
    <3> QED
      BY <3>1, Zenon DEF Connected, Unread, Sent, Socket!StreamsFollowSocket
  <2> QED
    BY <2>1, <2>2, <2>3, <2>4 DEF RowsSound, PacketsInv
<1> QED
  BY <1>1, LogsStart, LogsKeep, PTL DEF LogsSpec
=============================================================================
