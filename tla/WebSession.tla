----------------------------- MODULE WebSession -----------------------------
(***************************************************************************)
(* One session of webadb: the device slot, filled by the connect panel,    *)
(* and one page at work with it.  The router shows one page at a time and  *)
(* pages share nothing but the slot and the error dialog, so each page is  *)
(* composed with every behaviour of the slot (DeviceSlot), which Connect   *)
(* is shown to implement.                                                  *)
(***************************************************************************)
EXTENDS GlobalState

CONSTANTS
    UsbSerials, WsSerials, TcpSerials, PropSerials, MaxChanges,
    Paths, Root, MaxRuns, MaxUploads, Features, MaxTimers, MaxMessages, MaxPorts

ASSUME WebAssumption ==
    {MaxChanges, MaxUploads, MaxTimers, MaxPorts} \subseteq Nat /\ Root \in Paths

VARIABLES
    view,        \* the page, or "connect": the panel at its side
    page,        \* its state
    plugged, changes, listings, address, usbDeviceList, webSocketDeviceList,
    tcpDeviceList, generation, usbSupported, selected, connecting, effects

Panel == INSTANCE Connect
Files == INSTANCE FileManager WITH files <- page
Tcp == INSTANCE TcpIp WITH tcpip <- page
Apk == INSTANCE Install WITH install <- page
Bugs == INSTANCE BugReport WITH bug <- page
Screen == INSTANCE FrameBuffer WITH shot <- page
StatusBar == INSTANCE DemoMode WITH demo <- page
Commands == INSTANCE DeviceCommands WITH commands <- page
Chrome == INSTANCE DevTools WITH devtools <- page
Popup == INSTANCE Inspector WITH inspector <- page
Terminal == INSTANCE TabbyFrame WITH tabby <- page

connectVars == <<plugged, changes, listings, address, usbDeviceList, webSocketDeviceList,
                 tcpDeviceList, generation, usbSupported, selected, connecting, effects>>
vars == <<globalVars, view, page, connectVars>>

\* The panel while a page is open: its part in the session is the slot.
PanelAside ==
    /\ usbSupported = TRUE /\ plugged = {} /\ changes = 0 /\ listings = {} /\ address = {}
    /\ usbDeviceList = {} /\ webSocketDeviceList = {} /\ tcpDeviceList = {}
    /\ generation = 0 /\ selected = Panel!NoDevice
    /\ connecting = FALSE /\ effects = {}

PageInit ==
    \/ view = "files" /\ Files!FilesInit
    \/ view = "tcpip" /\ Tcp!TcpIpInit
    \/ view = "install" /\ Apk!InstallInit
    \/ view = "bugreport" /\ Bugs!BugReportInit
    \/ view = "framebuffer" /\ Screen!FrameBufferInit
    \/ view = "demomode" /\ StatusBar!DemoModeInit
    \/ view = "commands" /\ Commands!CommandsInit
    \/ view = "devtools" /\ Chrome!DevToolsInit
    \/ view = "inspector" /\ Popup!InspectorInit
    \/ view = "tabby" /\ Terminal!TabbyInit

Init ==
    \/ view = "connect" /\ page = {} /\ Panel!ConnectInit
    \/ PageInit /\ GlobalInit /\ PanelAside

PageStep ==
    \/ view = "files" /\ Files!FilesStep
    \/ view = "tcpip" /\ Tcp!TcpIpStep
    \/ view = "install" /\ Apk!InstallStep
    \/ view = "bugreport" /\ Bugs!BugReportStep
    \/ view = "framebuffer" /\ Screen!FrameBufferStep
    \/ view = "demomode" /\ StatusBar!DemoModeStep
    \/ view = "commands" /\ Commands!CommandsStep
    \/ view = "devtools" /\ Chrome!DevToolsStep
    \/ view = "inspector" /\ Popup!InspectorStep
    \/ view = "tabby" /\ Terminal!TabbyStep

Next ==
    \/ view = "connect" /\ Panel!ConnectStep /\ UNCHANGED <<view, page>>
    \/ PageStep /\ UNCHANGED <<view, connectVars>>

\* A lost connection is cleaned up, and what the device was told of an
\* upload is answered or fails.
Fairness ==
    /\ \A c \in Connections :
         WF_vars(view = "connect" /\ Panel!CleanUp(c) /\ UNCHANGED <<view, page>>)
    /\ WF_vars(view = "files" /\ Files!UploadSettles /\ UNCHANGED <<view, connectVars>>)

Spec == Init /\ [][Next]_vars /\ Fairness

---------------------------------------------------------------------------
(* Properties                                                              *)

\* The state of the page that is open has its type.
WebTypeOK ==
    /\ GlobalTypeOK
    /\ IF view = "connect" THEN Panel!ConnectTypeOK ELSE SlotTypeOK
    /\ CASE view = "files" -> Files!FilesTypeOK
         [] view = "tcpip" -> Tcp!TcpIpTypeOK
         [] view = "install" -> Apk!InstallTypeOK
         [] view = "bugreport" -> Bugs!BugReportTypeOK
         [] view = "framebuffer" -> Screen!FrameBufferTypeOK
         [] view = "demomode" -> StatusBar!DemoModeTypeOK
         [] view = "commands" -> Commands!CommandsTypeOK
         [] view = "devtools" -> Chrome!DevToolsTypeOK
         [] view = "inspector" -> Popup!InspectorTypeOK
         [] view = "tabby" -> Terminal!TabbyTypeOK
         [] OTHER -> TRUE

\* connect.tsx: however the attempts to connect, the losses and the
\* clean-ups interleave, the pages see a device slot.
ImplementsSlot == Panel!ImplementsSlot

\* What a page shows, or works with, is what it says it is: the listing is
\* of the directory in the breadcrumb, no port is said to be enabled while
\* the daemon listens on given addresses, the settings of the status bar have
\* a device, which was told of them, a timer keeps a list of browsers fresh
\* that will be cleared, and no other runs but those that a change from one
\* device to another has replaced (chrome-devtools.tsx:244), the audio mode
\* went to devices that have one, the popup is told what happened to its
\* WebSocket in that order and the terminal has the channel of the page.
ViewCurrent ==
    /\ view = "files" => Files!ListingOfPath
    /\ view = "tcpip" => Tcp!PortsConsistent
    /\ view = "demomode" => StatusBar!FeaturesHaveDevice /\ StatusBar!BarFollows
    /\ view = "devtools" => Chrome!PollsWhileShown
    /\ view = "commands" => Commands!AudioOnlyWhereSupported
    /\ view = "inspector" => Popup!EventsInOrder
    /\ view = "tabby" => Terminal!TabbyFollows

\* Work under way is shown as such: the attempts to connect, the run that may
\* change a listing, of which there is one, an upload unless another one has
\* sent beside it (file-manager.tsx:741), an installation. Of queries of the
\* ports and of reports there is one at a time.
BusyShown ==
    /\ view = "connect" => Panel!DialogMeansAttempt
    /\ view = "files" => Files!OneLiveRun /\ Files!UploadCovered
    /\ view = "tcpip" => Tcp!OneLiveQuery
    /\ view = "install" => Apk!InstallShown
    /\ view = "bugreport" => Bugs!OneReport

Uploading == IF view = "files" THEN page.uploading ELSE FALSE

\* A connection that is lost leaves the slot and the dialog of an upload
\* goes away.
BusyEnds ==
    /\ \A c \in Connections : view = "connect" /\ adb = c /\ conns[c] = "lost" ~> adb # c
    /\ Uploading ~> ~Uploading
=============================================================================
