----------------------------- MODULE LogcatPage -----------------------------
(***************************************************************************)
(* pages/logcat.tsx: the log of the device.  Entries are buffered as they  *)
(* come and added to the list at the next frame of the screen.  Starting   *)
(* again makes the device send its log from the beginning.                 *)
(***************************************************************************)
EXTENDS GlobalState, ListSelection, SequencesExt

CONSTANTS
    MaxStarts,    \* bound on the calls of start()
    MaxEntries    \* bound on the entries of one run

VARIABLE log
    \* run, sent: the runs started and the entries the last one sent;
    \* stream: the connection that sends, 0 if none;
    \* running, buffer, flushRequested, list, selection: the code's;
    \* format and the rest: how an entry is written

EntryFormats == {"Brief", "Process", "Tag", "Thread", "Raw", "Time", "ThreadTime", "Long"}
TimeFormats == {"default", "year", "epoch", "monotonic"}
NanosecondFormats == {"millisecond", "microsecond", "nanosecond"}

Entries == (1 .. MaxStarts) \X (1 .. MaxEntries)
MaxRows == MaxStarts * MaxEntries

LogTypeOK ==
    /\ log.run \in 0 .. MaxStarts /\ log.sent \in 0 .. MaxEntries
    /\ log.stream \in 0 .. MaxConnections
    /\ log.running \in BOOLEAN /\ log.flushRequested \in BOOLEAN
    /\ log.buffer \in Seq(Entries) /\ log.list \in Seq(Entries)
    /\ SelectionType(log.selection, MaxRows)
    /\ log.format \in EntryFormats /\ log.time \in TimeFormats
    /\ log.nanosecond \in NanosecondFormats
    /\ log.uid \in BOOLEAN /\ log.timezone \in BOOLEAN

LogInit ==
    log = [run |-> 0, sent |-> 0, stream |-> 0, running |-> FALSE, buffer |-> <<>>,
           flushRequested |-> FALSE, list |-> <<>>, selection |-> NewSelection,
           format |-> "ThreadTime", uid |-> FALSE, timezone |-> FALSE, time |-> "default",
           nanosecond |-> "millisecond"]

\* stop(): the stream is aborted, what is buffered stays.
Stopped(l) == [l EXCEPT !.running = FALSE, !.stream = 0]

\* The autorun on the slot: another device is the logcat of the next start,
\* none stops the one that runs.
LogDeviceStep ==
    /\ SessionStep
    /\ log' = IF adb # 0 /\ adb' = 0 /\ log.running THEN Stopped(log) ELSE log

\* "start" of the command bar; the list is emptied, not the selection in it.
LogStart ==
    /\ UserFree /\ adb # 0 /\ ~log.running
    /\ log.run < MaxStarts
    /\ log' = [log EXCEPT !.list = <<>>, !.running = TRUE, !.stream = adb, !.run = @ + 1, !.sent = 0]
    /\ Quiet

LogStop ==
    /\ UserFree /\ log.running
    /\ log' = Stopped(log)
    /\ Quiet

\* An entry comes; a frame is asked for unless one is.
LogWrite ==
    /\ log.stream # 0 /\ conns[log.stream] = "open"
    /\ log.sent < MaxEntries
    /\ log' = [log EXCEPT !.sent = @ + 1, !.buffer = Append(@, <<log.run, log.sent + 1>>),
                          !.flushRequested = TRUE]
    /\ Quiet

\* The stream ends or fails by itself: the page is not told.
LogStreamEnds ==
    /\ log.stream # 0
    /\ log' = [log EXCEPT !.stream = 0]
    /\ Quiet

\* Mutant of LogFlush: the buffer is not emptied.
LogFlushKeeps ==
    /\ log.flushRequested
    /\ log' = [log EXCEPT !.list = @ \o log.buffer, !.flushRequested = FALSE]
    /\ Quiet

\* flush(), at the frame.
LogFlush ==
    /\ log.flushRequested
    /\ log' = [log EXCEPT !.list = @ \o log.buffer, !.buffer = <<>>, !.flushRequested = FALSE]
    /\ Quiet

LogClear ==
    /\ UserFree /\ log.list # <<>>
    /\ log' = [log EXCEPT !.list = <<>>, !.selection = ClearSelection(@)]
    /\ Quiet

\* "select all" of the command bar is disabled for an empty list, Ctrl-A is
\* not: it selects the rows -1 and 0 then.
LogSelectAll ==
    /\ UserFree
    /\ log' = [log EXCEPT !.selection = SelectAll(@, Len(log.list))]
    /\ Quiet

LogEscape ==
    /\ UserFree
    /\ log' = [log EXCEPT !.selection = ClearSelection(@)]
    /\ Quiet

\* A press on a row of the list.  The boxes of the rows are left to PacketLog,
\* where the same selection is used.
LogSelect(i, ctrlKey, shiftKey) ==
    /\ UserFree /\ i < Len(log.list)
    /\ log' = [log EXCEPT !.selection = Select(@, i, ctrlKey, shiftKey)]
    /\ Quiet

\* The menu "format".
ChooseFormat(f) == log' = [log EXCEPT !.format = f] /\ Quiet
ToggleModifier ==
    /\ \/ log' = [log EXCEPT !.uid = ~@]
       \/ log' = [log EXCEPT !.timezone = ~@]
    /\ Quiet
ChooseTime(t) == log' = [log EXCEPT !.time = t] /\ Quiet
ChooseNanosecond(n) == log' = [log EXCEPT !.nanosecond = n] /\ Quiet

FormatStep ==
    /\ UserFree
    /\ \/ \E f \in EntryFormats : ChooseFormat(f)
       \/ ToggleModifier
       \/ \E t \in TimeFormats : ChooseTime(t)
       \/ \E n \in NanosecondFormats : ChooseNanosecond(n)

LogStep ==
    \/ LogDeviceStep \/ LogStart \/ LogStop \/ LogWrite \/ LogStreamEnds \/ LogFlush
    \/ LogClear \/ LogSelectAll \/ LogEscape
    \/ \E i \in 0 .. MaxRows - 1, ctrlKey, shiftKey \in BOOLEAN : LogSelect(i, ctrlKey, shiftKey)

---------------------------------------------------------------------------
(* Properties                                                              *)

\* Before(e, f): the device sent e first.
Before(e, f) == e[1] < f[1] \/ (e[1] = f[1] /\ e[2] < f[2])

\* Of one run no entry is lost, doubled or out of order on its way to the list,
\* whatever is started, stopped and cleared between two frames: the entries
\* listed and buffered are in the order sent, the last is the last one sent,
\* and what is buffered will be flushed.
LogInOrder ==
    LET all == log.list \o log.buffer IN
    /\ \A i \in 1 .. Len(all) - 1 :
        /\ Before(all[i], all[i + 1])
        /\ all[i][1] = all[i + 1][1] => all[i + 1][2] = all[i][2] + 1
    /\ log.buffer # <<>> => log.flushRequested
    /\ log.sent > 0 /\ log.buffer # <<>> => Last(log.buffer) = <<log.run, log.sent>>
=============================================================================
