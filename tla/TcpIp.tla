------------------------------- MODULE TcpIp -------------------------------
(***************************************************************************)
(* pages/tcpip.tsx: what the device says of ADB over WiFi, and whether     *)
(* the user wants it. queryInfo() reads three properties one after the    *)
(* other, each from the device that is in the slot when it is asked.       *)
(***************************************************************************)
EXTENDS GlobalState, AsyncEffect

VARIABLE tcpip

\* A port property: not set, "0" or a port number; which number is data.
Ports == {"none", "off", "on"}

TcpIpInit == tcpip =
    [initial |-> TRUE, visible |-> FALSE,
     listening |-> FALSE,         \* serviceListenAddresses # undefined
     servicePortEnabled |-> FALSE,
     persistPortEnabled |-> FALSE, persistPort |-> FALSE,
     queries |-> {},              \* runs of queryInfo()
     applying |-> FALSE]          \* the device is told about the port

Query == [aborted : BOOLEAN, asks : {"listen", "service", "persist"},
          conn : Connections, listen : BOOLEAN, service : Ports]

TcpIpTypeOK ==
    /\ {tcpip.initial, tcpip.visible, tcpip.listening, tcpip.servicePortEnabled,
        tcpip.persistPortEnabled, tcpip.persistPort, tcpip.applying} \subseteq BOOLEAN
    /\ tcpip.queries \in SUBSET Query

\* queryInfo(): without a device what is shown is reset.
QueryInfo(t, device) ==
    IF device = 0
    THEN [t EXCEPT !.queries = Abort(@), !.listening = FALSE,
                   !.servicePortEnabled = FALSE,
                   !.persistPortEnabled = FALSE, !.persistPort = FALSE]
    ELSE [t EXCEPT !.queries = Started(@, [aborted |-> FALSE, asks |-> "listen",
                        conn |-> device, listen |-> FALSE, service |-> "none"])]

\* The autorun on GLOBAL_STATE.adb and visible: queries once per device.
Becomes(t) ==
    tcpip' = IF adb' = 0 THEN [t EXCEPT !.initial = TRUE]
             ELSE IF t.initial /\ t.visible THEN QueryInfo([t EXCEPT !.initial = FALSE], adb')
             ELSE t

ShowPage ==
    /\ ~tcpip.visible /\ Room(tcpip.queries) /\ Quiet
    /\ Becomes([tcpip EXCEPT !.visible = TRUE])

HidePage ==
    /\ tcpip.visible /\ Quiet
    /\ Becomes([tcpip EXCEPT !.visible = FALSE])

CommandEnabled == tcpip.visible /\ UserFree /\ adb # 0

Refresh ==
    /\ CommandEnabled /\ Room(tcpip.queries) /\ Quiet
    /\ Becomes(QueryInfo(tcpip, adb))

\* An answer, and the next question, to the device of this moment; without
\* one it is a TypeError that only the log gets.
Asks(q, next) ==
    Becomes([tcpip EXCEPT !.queries =
        IF adb = 0 THEN @ \ {q} ELSE Replace(@, q, [next EXCEPT !.conn = adb])])

Answered(q) ==
    /\ conns[q.conn] = "open" /\ Quiet
    /\ \/ /\ q.asks = "listen"
          /\ \E l \in BOOLEAN : Asks(q, [q EXCEPT !.asks = "service", !.listen = l])
       \/ /\ q.asks = "service"
          /\ \E p \in Ports : Asks(q, [q EXCEPT !.asks = "persist", !.service = p])

\* The last answer: an aborted run keeps it to itself.
Queried(q) ==
    /\ q.asks = "persist" /\ conns[q.conn] = "open" /\ Quiet
    /\ LET over == [tcpip EXCEPT !.queries = @ \ {q}] IN
       IF q.aborted THEN Becomes(over)
       ELSE \E persist \in BOOLEAN : Becomes(
              [over EXCEPT
                !.listening = q.listen,
                !.servicePortEnabled = ~q.listen /\ q.service = "on",
                !.persistPortEnabled = persist /\ ~q.listen /\ q.service = "none",
                !.persistPort = persist])

QueryFails(q) ==
    /\ Quiet
    /\ Becomes([tcpip EXCEPT !.queries = @ \ {q}])

\* The toggle of the port.
HandleServicePortEnabledChange ==
    /\ CommandEnabled /\ ~tcpip.listening /\ Quiet
    /\ Becomes([tcpip EXCEPT !.servicePortEnabled = ~@])

\* setPort() or disable(), as the toggle says; the device restarts its
\* daemon, so it may be lost before or after it answers.
ApplyServicePort ==
    /\ CommandEnabled /\ ~tcpip.applying /\ Quiet
    /\ Becomes([tcpip EXCEPT !.applying = TRUE])

Applied ==
    /\ tcpip.applying /\ Quiet
    /\ Becomes([tcpip EXCEPT !.applying = FALSE])

TcpIpStep ==
    \/ ShowPage \/ HidePage \/ Refresh \/ HandleServicePortEnabledChange
    \/ \E q \in tcpip.queries : Answered(q) \/ Queried(q) \/ QueryFails(q)
    \/ ApplyServicePort \/ Applied
    \/ SessionStep /\ Becomes(tcpip)

---------------------------------------------------------------------------
(* Properties                                                              *)

\* While the daemon listens on given addresses neither port is shown as
\* enabled, and the persistent one only if the device has set it, whichever
\* queries, resets and edits of the toggle made what is shown. (That the
\* service has no port of its own is looked at by the query alone: the
\* toggle may enable one beside the persistent port later.)
PortsConsistent ==
    /\ tcpip.listening => ~tcpip.servicePortEnabled
    /\ tcpip.persistPortEnabled => tcpip.persistPort /\ ~tcpip.listening

\* Only the last query may still change what is shown.
OneLiveQuery == Cardinality(Live(tcpip.queries)) <= 1
=============================================================================
