----------------------------- MODULE TabbyFrame -----------------------------
(***************************************************************************)
(* components/tabby-frame-manager.tsx and, in the iframe it makes,         *)
(* tabby-launcher's entry.ts with the session of tabby-tango: the terminal *)
(* gets the device of the slot as one end of a channel, by a message that  *)
(* is lost while the iframe is not listening.                              *)
(***************************************************************************)
EXTENDS GlobalState, Sequences

CONSTANT MaxPorts     \* bound on the channels made

VARIABLE tabby

NoTab == [at |-> "none", port |-> 0, conn |-> 0]
Blacklists == {"provider", "command"}

TabbyInit == \E saved \in SUBSET Blacklists : tabby =
    [shown |-> FALSE,            \* the container is mounted, the iframe visible
     frame |-> "none",           \* the iframe: none, loading or listening
     port |-> 0, ports |-> 0,    \* the channel the page holds; how many were made
     inbox |-> <<>>,             \* "adb-connect" messages to the iframe
     ready |-> FALSE,            \* "adb-ready" is under way to the page
     adbState |-> [port |-> 0, conn |-> 0],  \* what the terminal works with
     tab |-> NoTab,              \* one session
     saved |-> saved, config |-> {}]         \* blacklists in localStorage and in use

Channel == [port : 0 .. MaxPorts, conn : 0 .. MaxConnections]

TabbyTypeOK ==
    /\ tabby.shown \in BOOLEAN /\ tabby.ready \in BOOLEAN
    /\ tabby.frame \in {"none", "loading", "listening"}
    /\ tabby.ports \in 0 .. MaxPorts /\ tabby.port \in 0 .. tabby.ports
    /\ tabby.inbox \in Seq(Channel) /\ tabby.adbState \in Channel
    /\ tabby.tab \in [at : {"none", "dead", "waiting", "open", "disconnected"},
                      port : 0 .. MaxPorts, conn : 0 .. MaxConnections]
    /\ tabby.saved \subseteq Blacklists /\ tabby.config \subseteq Blacklists

\* syncDevice(): the channel before is closed; a new one is sent to the
\* iframe, and lost if nobody listens there yet.
SyncDevice(t, device) ==
    IF t.frame = "none" THEN t
    ELSE IF device = 0 THEN [t EXCEPT !.port = 0]
    ELSE [t EXCEPT
            !.ports = @ + 1, !.port = t.ports + 1,
            !.inbox = IF t.frame = "listening"
                      THEN Append(@, [port |-> t.ports + 1, conn |-> device]) ELSE @]

HasPort == tabby.ports < MaxPorts

\* attachTabbyFrame(container): the first time it makes the iframe, and an
\* autorun syncs the device.
AttachTabbyFrame ==
    /\ ~tabby.shown /\ HasPort /\ Quiet
    /\ LET shown == [tabby EXCEPT !.shown = TRUE] IN
       tabby' = IF tabby.frame = "none" THEN SyncDevice([shown EXCEPT !.frame = "loading"], adb)
                ELSE shown

\* attachTabbyFrame(null): the iframe is hidden and goes on.
DetachTabbyFrame ==
    /\ tabby.shown /\ Quiet
    /\ tabby' = [tabby EXCEPT !.shown = FALSE]

SlotChanges ==
    IF adb' = adb THEN UNCHANGED tabby
    ELSE HasPort /\ tabby' = SyncDevice(tabby, adb')

\* start() in the iframe: it listens, says so, and starts Tabby with what
\* was saved and the two entries that it always blacklists.
LoadConfig(saved) == saved \cup Blacklists

Start ==
    /\ tabby.frame = "loading" /\ Quiet
    /\ tabby' = [tabby EXCEPT !.frame = "listening", !.ready = TRUE,
                              !.config = LoadConfig(tabby.saved)]

SaveConfig ==
    /\ tabby.frame = "listening" /\ Quiet
    /\ tabby' = [tabby EXCEPT !.saved = tabby.config]

Ready ==
    /\ tabby.ready /\ HasPort /\ Quiet
    /\ tabby' = SyncDevice([tabby EXCEPT !.ready = FALSE], adb)

\* "adb-connect": the terminal takes the new device, nothing ever takes it
\* away again.
AdbConnect ==
    /\ tabby.inbox # <<>> /\ Quiet
    /\ tabby' = [tabby EXCEPT !.adbState = Head(tabby.inbox), !.inbox = Tail(@)]

\* AdbSession.start(): without a device it does nothing at all.
StartSession ==
    /\ tabby.frame = "listening" /\ tabby.shown /\ UserFree /\ tabby.tab = NoTab /\ Quiet
    /\ LET a == tabby.adbState IN
       tabby' = [tabby EXCEPT !.tab = [at |-> IF a.port = 0 THEN "dead" ELSE "waiting",
                                       port |-> a.port, conn |-> a.conn]]

\* The shell is opened through the channel, which must still be the page's.
Through(t) == t.port = tabby.port /\ t.port # 0

ShellOpens ==
    /\ tabby.tab.at = "waiting" /\ Through(tabby.tab) /\ conns[tabby.tab.conn] = "open" /\ Quiet
    /\ tabby' = [tabby EXCEPT !.tab.at = "open"]

ShellFails ==
    /\ tabby.tab.at = "waiting" /\ Through(tabby.tab) /\ Quiet
    /\ tabby' = [tabby EXCEPT !.tab.at = "dead"]

\* disconnected resolves in the page, and in the iframe if the channel is
\* still there.
Disconnected ==
    /\ tabby.tab.at = "open" /\ Through(tabby.tab) /\ conns[tabby.tab.conn] # "open" /\ Quiet
    /\ tabby' = [tabby EXCEPT !.tab.at = "disconnected"]

\* The user closes the tab; kill() does nothing without a shell.
Kill ==
    /\ tabby.tab # NoTab /\ UserFree /\ tabby.shown /\ Quiet
    /\ tabby' = [tabby EXCEPT !.tab = NoTab]

TabbyStep ==
    \/ AttachTabbyFrame \/ DetachTabbyFrame \/ Start \/ SaveConfig \/ Ready \/ AdbConnect
    \/ StartSession \/ ShellOpens \/ ShellFails \/ Disconnected \/ Kill
    \/ SessionStep /\ SlotChanges

\* A terminal that listens, and was answered, works with the channel the
\* page holds, or is about to be told of it by the last message to it: no
\* message that was lost, or overtaken by a change of the device, leaves it
\* with an older one.
TabbyFollows ==
    tabby.frame = "listening" /\ ~tabby.ready /\ tabby.port # 0 =>
        IF tabby.inbox = <<>> THEN tabby.adbState.port = tabby.port
        ELSE tabby.inbox[Len(tabby.inbox)].port = tabby.port
=============================================================================
