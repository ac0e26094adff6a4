----------------------------- MODULE BugReport -----------------------------
(***************************************************************************)
(* pages/bug-report.tsx: what the device in the slot can report is asked   *)
(* for by an autorun; a report is then streamed, or made on the device and *)
(* fetched from whatever device is in the slot by then.                    *)
(***************************************************************************)
EXTENDS GlobalState, FiniteSets

VARIABLE bug

NoReport == [conn |-> 0, z |-> FALSE, stream |-> FALSE, progress |-> FALSE]
Capabilities == [conn : Connections, z : BOOLEAN, stream : BOOLEAN, progress : BOOLEAN]

BugReportInit == bug =
    [bugReport |-> NoReport,      \* whose capabilities are known
     queries |-> {},              \* devices asked for their capabilities
     streams |-> {},              \* reports being streamed to a file
     bugReportZInProgress |-> FALSE,
     bugReportZProgress |-> FALSE,\* numbers are shown
     zs |-> {}]                   \* runs of generateBugReportZ()

Z == [at : {"making", "opening", "reading"}, conn : Connections, progress : BOOLEAN]

BugReportTypeOK ==
    /\ bug.bugReport \in Capabilities \cup {NoReport}
    /\ bug.queries \in SUBSET Connections
    /\ bug.streams \in SUBSET Connections
    /\ {bug.bugReportZInProgress, bug.bugReportZProgress} \subseteq BOOLEAN
    /\ bug.zs \in SUBSET Z

\* The autorun runs when the slot changes.
SlotChanges(b) ==
    bug' = IF adb' = adb THEN b
           ELSE IF adb' = 0 THEN [b EXCEPT !.bugReport = NoReport]
           ELSE [b EXCEPT !.queries = @ \cup {adb'}]

\* queryCapabilities() answers, or rejects; the answer is taken whatever the
\* slot holds now.
Capable(c) ==
    /\ c \in bug.queries /\ conns[c] = "open" /\ Quiet
    /\ \E r \in Capabilities :
          /\ r.conn = c /\ (r.progress => r.z) /\ (r.stream => r.z)
          /\ bug' = [bug EXCEPT !.queries = @ \ {c}, !.bugReport = r]

NotCapable(c) ==
    /\ c \in bug.queries /\ Quiet
    /\ bug' = [bug EXCEPT !.queries = @ \ {c}]

HasReport == UserFree /\ bug.bugReport.conn # 0

\* "generate": plain, or zipped where the device can stream that.
GenerateBugReport ==
    /\ HasReport /\ Quiet
    /\ bug' = [bug EXCEPT !.streams = @ \cup {bug.bugReport.conn}]

GenerateBugReportZStream ==
    /\ bug.bugReport.stream
    /\ GenerateBugReport

StreamEnds(c) ==
    /\ c \in bug.streams /\ Quiet
    /\ bug' = [bug EXCEPT !.streams = @ \ {c}]

GenerateBugReportZ ==
    /\ HasReport /\ bug.bugReport.z /\ ~bug.bugReportZInProgress /\ Quiet
    /\ bug' = [bug EXCEPT !.bugReportZInProgress = TRUE,
                          !.zs = @ \cup {[at |-> "making", conn |-> bug.bugReport.conn,
                                          progress |-> bug.bugReport.progress]}]

ZProgress(z) ==
    /\ z.at = "making" /\ z.progress /\ conns[z.conn] = "open" /\ Quiet
    /\ bug' = [bug EXCEPT !.bugReportZProgress = TRUE]

Goes(z, next) == bug' = [bug EXCEPT !.zs = (@ \ {z}) \cup next]

\* The report is made; a session with the device in the slot is asked for.
ZMade(z) ==
    /\ z.at = "making" /\ conns[z.conn] = "open" /\ Quiet
    /\ Goes(z, IF adb = 0 THEN {} ELSE {[z EXCEPT !.at = "opening", !.conn = adb]})

ZOpened(z) ==
    /\ z.at = "opening" /\ conns[z.conn] = "open" /\ Quiet
    /\ Goes(z, {[z EXCEPT !.at = "reading"]})

ZRead(z) ==
    /\ z.at = "reading" /\ conns[z.conn] = "open" /\ Quiet
    /\ bug' = [bug EXCEPT !.zs = @ \ {z}, !.bugReportZInProgress = FALSE,
                          !.bugReportZProgress = FALSE]

\* There is no try: what is shown stays.
ZFails(z) == Quiet /\ Goes(z, {})

BugReportStep ==
    \/ \E c \in Connections : Capable(c) \/ NotCapable(c) \/ StreamEnds(c)
    \/ GenerateBugReport \/ GenerateBugReportZStream \/ GenerateBugReportZ
    \/ \E z \in bug.zs : ZProgress(z) \/ ZMade(z) \/ ZOpened(z) \/ ZRead(z) \/ ZFails(z)
    \/ SessionStep /\ SlotChanges(bug)

\* One zipped report at a time, shown for as long as it is being made; the
\* numbers of a report that is over are gone.
OneReport ==
    /\ Cardinality(bug.zs) <= 1
    /\ bug.zs # {} \/ bug.bugReportZProgress => bug.bugReportZInProgress
=============================================================================
