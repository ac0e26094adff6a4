------------------------- MODULE WebSession_proofs -------------------------
(***************************************************************************)
(* However the attempts to connect, the losses and the clean-ups of the    *)
(* panel interleave, and whatever a page does, the session is a device     *)
(* slot, for every number of connections, devices, directories, features   *)
(* and ports.  What is needed beyond the steps themselves: a connection    *)
(* has one of the states of the panel, and the slot holds none or one of   *)
(* the connections (ConnsTyped).  Each page leaves the slot alone but for  *)
(* the steps of the session (one lemma for each), and every step of the    *)
(* panel is a step of the slot, or one the pages do not see.               *)
(* Then what the pages show, and how they show that they are busy: each    *)
(* page has an invariant of its own, on its state and the device in the    *)
(* slot; it is stated before the proof that the steps of the page keep it. *)
(* Last, the types (WebTypes): which states each page can be in, and that  *)
(* the panel's choice is a device of its lists or none.                    *)
(***************************************************************************)
EXTENDS WebSession, Sequences, FiniteSetTheorems, TLAPS

States == {"new", "opening", "authenticating", "open", "lost", "refused", "failed", "over"}

ConnsTyped ==
  /\ adb \in 0 .. MaxConnections
  /\ conns \in [Connections -> States]

\* A step of a page as the slot sees it.
Visible == SlotNext \/ UNCHANGED slotVars

-----------------------------------------------------------------------------
(* The pages                                                               *)

LEMMA FilesVisible ==
  ASSUME Files!FilesStep
  PROVE  Visible
<1>1. CASE Files!SessionStep
  BY <1>1 DEF Visible, SlotNext, SlotStep, Attach, Lose, Clear, slotVars, Connections,
     Files!SessionStep, Files!HideErrorDialog, Files!SlotStep, Files!Attach,
     Files!Lose, Files!Clear, Files!slotVars, Files!Connections
<1>2. CASE Files!Quiet
  BY <1>2 DEF Visible, slotVars, Files!Quiet, Files!globalVars
<1>3. CASE UNCHANGED Files!slotVars
  BY <1>3 DEF Visible, slotVars, Files!slotVars
<1>4. Files!SessionStep \/ Files!Quiet \/ UNCHANGED Files!slotVars
  BY DEF Files!FilesStep, Files!ShowPage, Files!HidePage, Files!ChangeDirectory,
     Files!RunStep, Files!RunOpened, Files!RunTick, Files!RunDone,
     Files!RunNotOpened, Files!RunFails, Files!Select, Files!Unselect, Files!Delete,
     Files!Removed, Files!NotRemoved, Files!PickFiles, Files!PickCancelled,
     Files!FilesPicked, Files!UploadOpened, Files!UploadNotOpened, Files!UploadStep,
     Files!UploadSettles, Files!Uploaded, Files!UploadFails, Files!Download, Files!DownloadOpened, Files!Downloaded,
     Files!DownloadFails, Files!PreviewImage, Files!PreviewRead, Files!HidePreview,
     Files!SessionNotOpened
<1> QED
  BY <1>1, <1>2, <1>3, <1>4

LEMMA TcpVisible ==
  ASSUME Tcp!TcpIpStep
  PROVE  Visible
<1>1. CASE Tcp!SessionStep
  BY <1>1 DEF Visible, SlotNext, SlotStep, Attach, Lose, Clear, slotVars, Connections,
     Tcp!SessionStep, Tcp!HideErrorDialog, Tcp!SlotStep, Tcp!Attach, Tcp!Lose,
     Tcp!Clear, Tcp!slotVars, Tcp!Connections
<1>2. CASE Tcp!Quiet
  BY <1>2 DEF Visible, slotVars, Tcp!Quiet, Tcp!globalVars
<1>3. Tcp!SessionStep \/ Tcp!Quiet
  BY DEF Tcp!TcpIpStep, Tcp!ShowPage, Tcp!HidePage, Tcp!Refresh,
     Tcp!HandleServicePortEnabledChange, Tcp!Answered, Tcp!Queried, Tcp!QueryFails,
     Tcp!ApplyServicePort, Tcp!Applied
<1> QED
  BY <1>1, <1>2, <1>3

LEMMA ApkVisible ==
  ASSUME Apk!InstallStep
  PROVE  Visible
<1>1. CASE Apk!SessionStep
  BY <1>1 DEF Visible, SlotNext, SlotStep, Attach, Lose, Clear, slotVars, Connections,
     Apk!SessionStep, Apk!HideErrorDialog, Apk!SlotStep, Apk!Attach, Apk!Lose,
     Apk!Clear, Apk!slotVars, Apk!Connections
<1>2. CASE Apk!Quiet
  BY <1>2 DEF Visible, slotVars, Apk!Quiet, Apk!globalVars
<1>3. Apk!SessionStep \/ Apk!Quiet
  BY DEF Apk!InstallStep, Apk!SetBypass, Apk!Click, Apk!NotPicked, Apk!Picked,
     Apk!Progress, Apk!Sent, Apk!Logged, Apk!Installed, Apk!InstallFails
<1> QED
  BY <1>1, <1>2, <1>3

LEMMA BugsVisible ==
  ASSUME Bugs!BugReportStep
  PROVE  Visible
<1>1. CASE Bugs!SessionStep
  BY <1>1 DEF Visible, SlotNext, SlotStep, Attach, Lose, Clear, slotVars, Connections,
     Bugs!SessionStep, Bugs!HideErrorDialog, Bugs!SlotStep, Bugs!Attach, Bugs!Lose,
     Bugs!Clear, Bugs!slotVars, Bugs!Connections
<1>2. CASE Bugs!Quiet
  BY <1>2 DEF Visible, slotVars, Bugs!Quiet, Bugs!globalVars
<1>3. Bugs!SessionStep \/ Bugs!Quiet
  BY DEF Bugs!BugReportStep, Bugs!Capable, Bugs!NotCapable, Bugs!StreamEnds,
     Bugs!GenerateBugReport, Bugs!GenerateBugReportZStream, Bugs!GenerateBugReportZ,
     Bugs!ZProgress, Bugs!ZMade, Bugs!ZOpened, Bugs!ZRead, Bugs!ZFails
<1> QED
  BY <1>1, <1>2, <1>3

LEMMA ScreenVisible ==
  ASSUME Screen!FrameBufferStep
  PROVE  Visible
<1>1. CASE Screen!SessionStep
  BY <1>1 DEF Visible, SlotNext, SlotStep, Attach, Lose, Clear, slotVars, Connections,
     Screen!SessionStep, Screen!HideErrorDialog, Screen!SlotStep, Screen!Attach,
     Screen!Lose, Screen!Clear, Screen!slotVars, Screen!Connections
<1>2. CASE Screen!Quiet
  BY <1>2 DEF Visible, slotVars, Screen!Quiet, Screen!globalVars
<1>3. CASE UNCHANGED Screen!slotVars
  BY <1>3 DEF Visible, slotVars, Screen!slotVars
<1>4. Screen!SessionStep \/ Screen!Quiet \/ UNCHANGED Screen!slotVars
  BY DEF Screen!FrameBufferStep, Screen!Capture, Screen!Save,
     Screen!ToggleDemoModeVisible, Screen!Captured, Screen!NotCaptured
<1> QED
  BY <1>1, <1>2, <1>3, <1>4

LEMMA StatusBarVisible ==
  ASSUME StatusBar!DemoModeStep
  PROVE  Visible
<1>1. CASE StatusBar!SessionStep
  BY <1>1 DEF Visible, SlotNext, SlotStep, Attach, Lose, Clear, slotVars, Connections,
     StatusBar!SessionStep, StatusBar!HideErrorDialog, StatusBar!SlotStep,
     StatusBar!Attach, StatusBar!Lose, StatusBar!Clear, StatusBar!slotVars,
     StatusBar!Connections
<1>2. CASE StatusBar!Quiet
  BY <1>2 DEF Visible, slotVars, StatusBar!Quiet, StatusBar!globalVars
<1>3. StatusBar!SessionStep \/ StatusBar!Quiet
  BY DEF StatusBar!DemoModeStep, StatusBar!AllowedIs, StatusBar!EnabledIs,
     StatusBar!HandleAllowedChange, StatusBar!HandleEnabledChange,
     StatusBar!NotAnswered, StatusBar!Changed, StatusBar!SetFeature,
     StatusBar!Asked, StatusBar!PanelActs
<1> QED
  BY <1>1, <1>2, <1>3

LEMMA CommandsVisible ==
  ASSUME Commands!CommandsStep
  PROVE  Visible
<1>1. CASE Commands!SessionStep
  BY <1>1 DEF Visible, SlotNext, SlotStep, Attach, Lose, Clear, slotVars, Connections,
     Commands!SessionStep, Commands!HideErrorDialog, Commands!SlotStep,
     Commands!Attach, Commands!Lose, Commands!Clear, Commands!slotVars,
     Commands!Connections
<1>2. CASE Commands!Quiet
  BY <1>2 DEF Visible, slotVars, Commands!Quiet, Commands!globalVars
<1>3. Commands!SessionStep \/ Commands!Quiet
  BY DEF Commands!CommandsStep, Commands!PowerButton, Commands!AudioButton,
     Commands!AudioAnswers, Commands!AudioFails
<1> QED
  BY <1>1, <1>2, <1>3

LEMMA ChromeVisible ==
  ASSUME Chrome!DevToolsStep
  PROVE  Visible
<1>1. CASE Chrome!SessionStep
  BY <1>1 DEF Visible, SlotNext, SlotStep, Attach, Lose, Clear, slotVars, Connections,
     Chrome!SessionStep, Chrome!HideErrorDialog, Chrome!SlotStep, Chrome!Attach,
     Chrome!Lose, Chrome!Clear, Chrome!slotVars, Chrome!Connections
<1>2. CASE Chrome!Quiet
  BY <1>2 DEF Visible, slotVars, Chrome!Quiet, Chrome!globalVars
<1>3. Chrome!SessionStep \/ Chrome!Quiet
  BY DEF Chrome!DevToolsStep, Chrome!ToggleVisible, Chrome!Tick, Chrome!ClosePage,
     Chrome!Sockets, Chrome!NoSockets, Chrome!Browsers
<1> QED
  BY <1>1, <1>2, <1>3

LEMMA PopupVisible ==
  ASSUME Popup!InspectorStep
  PROVE  Visible
<1>1. CASE Popup!Quiet
  BY <1>1 DEF Visible, slotVars, Popup!Quiet, Popup!globalVars
<1>2. Popup!Quiet
  BY DEF Popup!InspectorStep, Popup!NewWebSocket, Popup!Announced, Popup!WsOpens,
     Popup!WsMessage, Popup!WsCloses, Popup!HostReceives, Popup!BeforeUnload,
     Popup!FrameReceives, Popup!Send, Popup!Close, Popup!PopupCloses
<1> QED
  BY <1>1, <1>2

LEMMA TerminalVisible ==
  ASSUME Terminal!TabbyStep
  PROVE  Visible
<1>1. CASE Terminal!SessionStep
  BY <1>1 DEF Visible, SlotNext, SlotStep, Attach, Lose, Clear, slotVars, Connections,
     Terminal!SessionStep, Terminal!HideErrorDialog, Terminal!SlotStep,
     Terminal!Attach, Terminal!Lose, Terminal!Clear, Terminal!slotVars,
     Terminal!Connections
<1>2. CASE Terminal!Quiet
  BY <1>2 DEF Visible, slotVars, Terminal!Quiet, Terminal!globalVars
<1>3. Terminal!SessionStep \/ Terminal!Quiet
  BY DEF Terminal!TabbyStep, Terminal!AttachTabbyFrame, Terminal!DetachTabbyFrame,
     Terminal!Start, Terminal!SaveConfig, Terminal!Ready, Terminal!AdbConnect,
     Terminal!StartSession, Terminal!ShellOpens, Terminal!ShellFails,
     Terminal!Disconnected, Terminal!Kill
<1> QED
  BY <1>1, <1>2, <1>3

-----------------------------------------------------------------------------
(* The panel                                                               *)

(* The steps of a connection are those of the slot, but for the ones up to *)
(* the authentication, which the pages do not see.                         *)
LEMMA ConnectionVisible ==
  ASSUME ConnsTyped, NEW c \in Connections,
         Panel!Settle(c) \/ Panel!Disconnected(c) \/ Panel!CleanUp(c)
  PROVE  Panel!Slot!SlotNext \/ UNCHANGED <<adb, Panel!SlotConns>>
<1> USE DEF ConnsTyped, Panel!Slot!Attach, Panel!Slot!Lose, Panel!Slot!Clear, Panel!EndAttempt,
            Panel!SlotConns, Connections, Panel!Connections, Panel!Slot!Connections, States,
            Panel!connectRest
<1>1. CASE Panel!Authenticated(c)
  <2>1. Panel!Slot!Attach(c)
    BY <1>1 DEF Panel!Authenticated
  <2> QED
    BY <2>1 DEF Panel!Slot!SlotNext, Panel!Slot!SlotStep
<1>2. CASE Panel!Disconnected(c)
  <2>1. Panel!Slot!Lose(c)
    BY <1>2 DEF Panel!Disconnected
  <2> QED
    BY <2>1 DEF Panel!Slot!SlotNext, Panel!Slot!SlotStep
<1>3. CASE Panel!CleanUp(c)
  <2>1. Panel!Slot!Clear(c)
    BY <1>3 DEF Panel!CleanUp, Panel!Dispose, Panel!RefusedDispose
  <2> QED
    BY <2>1 DEF Panel!Slot!SlotNext, Panel!Slot!SlotStep
<1>4. CASE Panel!Opened(c) \/ Panel!OpenFailed(c) \/ Panel!Refused(c)
  <2>1. UNCHANGED <<adb, Panel!SlotConns>>
    BY <1>4 DEF Panel!Opened, Panel!OpenFailed, Panel!Refused
  <2> QED
    BY <2>1
<1> QED
  BY <1>1, <1>2, <1>3, <1>4 DEF Panel!Settle

LEMMA PanelVisible ==
  ASSUME ConnsTyped, Panel!ConnectStep
  PROVE  Panel!Slot!SlotNext \/ UNCHANGED <<adb, Panel!SlotConns>>
<1>1. ASSUME NEW c \in Connections, Panel!StartAttempt(c), UNCHANGED adb
      PROVE  UNCHANGED <<adb, Panel!SlotConns>>
  BY <1>1 DEF ConnsTyped, States, Panel!StartAttempt, Panel!SlotConns, Connections,
     Panel!Connections
<1>2. CASE Panel!RunEffects \/ Panel!ConnectButton
  <2>1. CASE \E c \in Connections : Panel!StartAttempt(c)
    <3>1. UNCHANGED adb
      BY <1>2 DEF Panel!RunEffects, Panel!ConnectButton
    <3> QED
      BY <1>1, <2>1, <3>1
  <2>2. CASE UNCHANGED <<adb, conns>>
    BY <2>2 DEF Panel!SlotConns, Panel!Connections
  <2> QED
    BY <1>2, <2>1, <2>2 DEF Panel!RunEffects, Panel!ConnectEffect, Panel!ConnectButton,
       Panel!Connections, Connections
<1>3. CASE Panel!Disconnect
  <2>1. CASE UNCHANGED conns
    BY <1>3, <2>1 DEF Panel!Disconnect, Panel!SlotConns, Panel!Connections
  <2>2. CASE ~UNCHANGED conns
    <3>1. adb \in Connections /\ Panel!Slot!Lose(adb)
      BY <1>3, <2>2 DEF ConnsTyped, States, Panel!Disconnect, Panel!Slot!Lose, Panel!SlotConns,
         Panel!ShowErrorDialog, Connections, Panel!Connections, Panel!Slot!Connections
    <3> QED
      BY <3>1 DEF Panel!Slot!SlotNext, Panel!Slot!SlotStep, Connections, Panel!Slot!Connections
  <2> QED
    BY <2>1, <2>2
<1>4. CASE UNCHANGED <<adb, conns>>
  BY <1>4 DEF Panel!SlotConns, Panel!Connections
<1>5. CASE \E c \in Connections : Panel!Settle(c) \/ Panel!Disconnected(c) \/ Panel!CleanUp(c)
  BY <1>5, ConnectionVisible
<1> QED
  BY <1>2, <1>3, <1>4, <1>5 DEF Panel!ConnectStep, Panel!UsbChange, Panel!AddUsbDevice,
     Panel!UsbRequested, Panel!UsbNotRequested, Panel!UsbListed, Panel!AddWebSocketDevice,
     Panel!AddTcpDevice, Panel!HandleSelectedChange, Panel!ChangeRoute,
     Panel!HideErrorDialog, Panel!globalVars, Panel!slotVars,
     Panel!Connections, Connections

-----------------------------------------------------------------------------
(* The session                                                             *)

LEMMA Start == Init => ConnsTyped /\ Panel!Slot!SlotInit
<1> SUFFICES ASSUME Init PROVE ConnsTyped /\ Panel!Slot!SlotInit
  OBVIOUS
<1>1. adb = 0 /\ conns = [c \in Connections |-> "new"]
  BY DEF Init, GlobalInit, SlotInit, Panel!ConnectInit, Panel!SlotInit, Connections,
     Panel!Connections
<1> QED
  BY <1>1, MaxConnectionsAssumption DEF ConnsTyped, States, Panel!Slot!SlotInit,
     Panel!SlotConns,
     Connections, Panel!Connections, Panel!Slot!Connections

LEMMA PageVisible ==
  ASSUME PageStep
  PROVE  Visible
BY FilesVisible, TcpVisible, ApkVisible, BugsVisible, ScreenVisible, StatusBarVisible,
   CommandsVisible, ChromeVisible, PopupVisible, TerminalVisible DEF PageStep

LEMMA SessionVisible ==
  ASSUME ConnsTyped, [Next]_vars
  PROVE  Panel!Slot!SlotNext \/ UNCHANGED <<adb, Panel!SlotConns>>
<1>1. CASE Panel!ConnectStep
  BY <1>1, PanelVisible
<1>2. CASE UNCHANGED slotVars
  BY <1>2 DEF slotVars, Panel!SlotConns, Panel!Connections
<1>3. CASE SlotNext
  <2>1. PICK c \in Connections : SlotStep(c)
    BY <1>3 DEF SlotNext
  <2>2. Panel!Slot!SlotStep(c)
    BY <2>1 DEF ConnsTyped, States, SlotStep, Attach, Lose, Clear, Panel!Slot!SlotStep,
       Panel!Slot!Attach, Panel!Slot!Lose, Panel!Slot!Clear, Panel!SlotConns, Connections,
       Panel!Connections, Panel!Slot!Connections
  <2> QED
    BY <2>1, <2>2 DEF Panel!Slot!SlotNext, Connections, Panel!Slot!Connections
<1> QED
  BY <1>1, <1>2, <1>3, PageVisible DEF Next, vars, globalVars, Visible, slotVars

(* The connections keep to the states of the panel.                        *)
LEMMA ConnsStayTyped ==
  ASSUME ConnsTyped, [Next]_vars
  PROVE  ConnsTyped'
<1> USE MaxConnectionsAssumption DEF ConnsTyped, States, Connections, Panel!Connections
<1>1. CASE UNCHANGED slotVars
  BY <1>1 DEF slotVars
<1>2. CASE SlotNext
  BY <1>2 DEF SlotNext, SlotStep, Attach, Lose, Clear
<1>3. CASE Panel!ConnectStep
  <2>1. CASE UNCHANGED <<adb, conns>>
    BY <2>1
  <2>2. CASE UNCHANGED adb /\ \E c \in Connections : Panel!StartAttempt(c)
    BY <2>2 DEF Panel!StartAttempt
  <2>3. CASE Panel!Disconnect
    BY <2>3 DEF Panel!Disconnect
  <2>4. CASE \E c \in Connections : Panel!Settle(c) \/ Panel!Disconnected(c) \/ Panel!CleanUp(c)
    <3> PICK c \in Connections : Panel!Settle(c) \/ Panel!Disconnected(c) \/ Panel!CleanUp(c)
      BY <2>4
    <3> USE DEF Panel!EndAttempt
    <3>1. CASE Panel!Settle(c)
      BY <3>1 DEF Panel!Settle, Panel!Opened, Panel!OpenFailed, Panel!Authenticated,
         Panel!Refused
    <3>2. CASE Panel!Disconnected(c)
      BY <3>2 DEF Panel!Disconnected
    <3>3. CASE Panel!CleanUp(c)
      BY <3>3 DEF Panel!CleanUp, Panel!Dispose, Panel!RefusedDispose
    <3> QED
      BY <3>1, <3>2, <3>3
  <2> QED
    BY <1>3, <2>1, <2>2, <2>3, <2>4 DEF Panel!ConnectStep, Panel!UsbChange, Panel!AddUsbDevice,
       Panel!UsbRequested, Panel!UsbNotRequested, Panel!UsbListed, Panel!AddWebSocketDevice,
       Panel!AddTcpDevice, Panel!HandleSelectedChange, Panel!RunEffects, Panel!ConnectEffect,
       Panel!ChangeRoute, Panel!ConnectButton, Panel!HideErrorDialog, Panel!globalVars, Panel!slotVars
<1> QED
  BY <1>1, <1>2, <1>3, PageVisible DEF Next, vars, globalVars, Visible, slotVars

THEOREM ConnsAlwaysTyped == Spec => []ConnsTyped
BY Start, ConnsStayTyped, PTL DEF Spec

(* connect.tsx: however the attempts to connect, the losses and the clean- *)
(* ups interleave, the pages see a device slot: a connection takes it when *)
(* it is authenticated, and empties it when it is over or refused.         *)
THEOREM SlotImplemented == Spec => ImplementsSlot
<1>1. Init => Panel!Slot!SlotInit
  BY Start
<1>2. ConnsTyped /\ [Next]_vars => [Panel!Slot!SlotNext]_(Panel!Slot!slotVars)
  BY SessionVisible DEF Panel!Slot!slotVars
<1> QED
  BY <1>1, <1>2, ConnsAlwaysTyped, PTL DEF Spec, ImplementsSlot,
     Panel!ImplementsSlot, Panel!Slot!SlotSpec
-----------------------------------------------------------------------------
(* The file manager: every step ends with the autorun, which settles what  *)
(* relates the listing to the device (Fresh), so that a step only has to   *)
(* keep what does not (FilesPart).                                         *)

RunShape(r) ==
  /\ {"path", "conn", "aborted", "phase"} \subseteq DOMAIN r
  /\ r.aborted \in BOOLEAN

UploadsShape(us) ==
  /\ DOMAIN us = Files!Uploads
  /\ \A u \in Files!Uploads : {"phase", "conn", "alone"} \subseteq DOMAIN us[u]

FilesShape(f) ==
  /\ {"initial", "visible", "path", "loading", "items", "runs", "selectedItems",
      "selectionBound", "uploading", "uploads", "op"} \subseteq DOMAIN f
  /\ {"kind", "phase", "conn"} \subseteq DOMAIN f.op
  /\ f.initial \in BOOLEAN
  /\ \A r \in f.runs : RunShape(r)
  /\ UploadsShape(f.uploads)

(* An upload that sends alone is shown, no two of them are alone, and      *)
(* nothing is shown unless one sends.                                      *)
Sending(us, u) == us[u].phase = "working"

Covered(us, shown) ==
  /\ \A u \in Files!Uploads : Sending(us, u) /\ us[u].alone => shown
  /\ \A u, v \in Files!Uploads : u # v /\ Sending(us, u) /\ Sending(us, v) => ~us[u].alone
  /\ shown => \E u \in Files!Uploads : Sending(us, u)

(* At most one run may still change the listing; the shimmer is on then,   *)
(* and unless the listing is to be loaded anyway it is of the directory    *)
(* shown.                                                                  *)
OneRun(f) ==
  /\ \A r, s \in f.runs : ~r.aborted /\ ~s.aborted => r = s
  /\ \A r \in f.runs : ~r.aborted => f.loading /\ (~f.initial => r.path = f.path)
  /\ ~f.initial => f.items \subseteq {f.path}

FilesPart(f) == FilesShape(f) /\ Covered(f.uploads, f.uploading) /\ OneRun(f)

Fresh(f, device) ==
  /\ device = 0 => f.initial
  /\ device # 0 /\ f.visible => ~f.initial

FilesInv == FilesPart(page) /\ Fresh(page, adb)

(* loadFiles(): whatever ran before is aborted.                            *)
LEMMA Loaded ==
  ASSUME NEW f, NEW device, FilesShape(f)
  PROVE  LET g == Files!Load(f, device) IN
         /\ FilesShape(g) /\ OneRun(g)
         /\ g.initial = f.initial /\ g.visible = f.visible /\ g.path = f.path
         /\ g.op = f.op /\ g.uploading = f.uploading /\ g.uploads = f.uploads
<1> DEFINE e == Files!Emptied(f)
           a == [e EXCEPT !.runs = Files!Abort(@)]
           new == [path |-> f.path, conn |-> device, aborted |-> FALSE, phase |-> "opening"]
           l == [a EXCEPT !.loading = TRUE, !.runs = @ \cup {new}]
<1>1. /\ DOMAIN e = DOMAIN f /\ e.runs = f.runs /\ e.items = {}
      /\ e.initial = f.initial /\ e.visible = f.visible /\ e.path = f.path
      /\ e.op = f.op /\ e.uploading = f.uploading /\ e.uploads = f.uploads
  BY DEF Files!Emptied, FilesShape
<1> HIDE DEF e
<1>2. /\ DOMAIN a = DOMAIN f /\ a.runs = Files!Abort(f.runs) /\ a.items = {}
      /\ a.initial = f.initial /\ a.visible = f.visible /\ a.path = f.path
      /\ a.op = f.op /\ a.uploading = f.uploading /\ a.uploads = f.uploads
  BY <1>1 DEF FilesShape
<1> HIDE DEF a
<1>3. \A r \in Files!Abort(f.runs) : RunShape(r) /\ r.aborted = TRUE
  BY DEF Files!Abort, FilesShape, RunShape
<1>4. RunShape(new) /\ new.path = f.path /\ new.aborted = FALSE
  BY DEF RunShape
<1> HIDE DEF new
<1>5. /\ DOMAIN l = DOMAIN f /\ l.runs = Files!Abort(f.runs) \cup {new} /\ l.items = {}
      /\ l.initial = f.initial /\ l.visible = f.visible /\ l.path = f.path
      /\ l.op = f.op /\ l.uploading = f.uploading /\ l.uploads = f.uploads /\ l.loading = TRUE
  BY <1>2 DEF FilesShape
<1>6. FilesShape(a) /\ OneRun(a)
  BY <1>2, <1>3 DEF FilesShape, OneRun
<1>7. FilesShape(l) /\ OneRun(l)
  BY <1>2, <1>3, <1>4, <1>5 DEF FilesShape, OneRun
<1>8. Files!Load(f, device) = IF device = 0 THEN a ELSE l
  BY DEF Files!Load, a, l, e, new
<1> HIDE DEF l
<1> QED
  BY <1>2, <1>5, <1>6, <1>7, <1>8

(* The autorun settles the rest.                                           *)
LEMMA AutorunSettles ==
  ASSUME NEW f, FilesPart(f), Files!Becomes(f)
  PROVE  FilesInv'
<1>1. page' = Files!Autorun(f, adb')
  BY DEF Files!Becomes
<1>2. CASE adb' = 0
  <2> DEFINE g == [f EXCEPT !.initial = TRUE]
  <2>1. page' = g
    BY <1>1, <1>2 DEF Files!Autorun
  <2>2. FilesPart(g) /\ g.initial
    BY DEF FilesPart, FilesShape, OneRun
  <2> QED
    BY <1>2, <2>1, <2>2 DEF FilesInv, Fresh
<1>3. CASE adb' # 0 /\ f.initial /\ f.visible
  <2> DEFINE e == [f EXCEPT !.initial = FALSE]
             g == Files!Load(e, adb')
  <2>1. page' = g
    BY <1>1, <1>3 DEF Files!Autorun
  <2>2. /\ FilesShape(e) /\ e.initial = FALSE
        /\ e.uploads = f.uploads /\ e.uploading = f.uploading
    BY DEF FilesPart, FilesShape
  <2> HIDE DEF e
  <2>3. /\ FilesShape(g) /\ OneRun(g) /\ g.initial = FALSE
        /\ g.uploads = f.uploads /\ g.uploading = f.uploading
    BY <2>2, Loaded
  <2>4. FilesPart(g)
    BY <2>3 DEF FilesPart
  <2> HIDE DEF g
  <2> QED
    BY <1>3, <2>1, <2>3, <2>4 DEF FilesInv, Fresh
<1>4. CASE adb' # 0 /\ ~(f.initial /\ f.visible)
  <2>1. page' = f
    BY <1>1, <1>4 DEF Files!Autorun
  <2> QED
    BY <1>4, <2>1 DEF FilesInv, Fresh
<1> QED
  BY <1>2, <1>3, <1>4

(* Steps that leave the runs and the listing alone.                        *)
LEMMA FilesAside ==
  ASSUME NEW f, FilesPart(f), NEW g, DOMAIN g = DOMAIN f, {"kind", "phase", "conn"} \subseteq DOMAIN g.op,
         \A n \in {"initial", "path", "loading", "items", "runs", "uploads", "uploading"} :
            g[n] = f[n]
  PROVE  FilesPart(g)
<1>1. /\ g.initial = f.initial /\ g.path = f.path /\ g.loading = f.loading
      /\ g.items = f.items /\ g.runs = f.runs /\ g.uploads = f.uploads
      /\ g.uploading = f.uploading
  OBVIOUS
<1> QED
  BY <1>1 DEF FilesPart, FilesShape, OneRun

LEMMA RunsKeep ==
  ASSUME FilesInv, NEW r \in page.runs, Files!RunStep(r)
  PROVE  FilesInv'
<1> USE DEF FilesInv, FilesPart, FilesShape, OneRun, RunShape
<1>1. CASE Files!RunOpened(r)
  <2> DEFINE s == [r EXCEPT !.phase = "listing"]
             g == [page EXCEPT !.runs = Files!Replace(@, r, s)]
  <2>1. RunShape(s) /\ s.aborted = r.aborted /\ s.path = r.path
    OBVIOUS
  <2> HIDE DEF s
  <2>2. FilesPart(g)
    BY <2>1 DEF Files!Replace
  <2>3. Files!Becomes(g)
    BY <1>1 DEF Files!RunOpened, s
  <2> QED
    BY <2>2, <2>3, AutorunSettles
<1>2. ASSUME Files!RunNotOpened(r)
      PROVE  FilesInv'
  <2> DEFINE g == [page EXCEPT !.runs = @ \ {r}]
  <2>1. FilesPart(g)
    OBVIOUS
  <2>2. Files!Becomes(g)
    BY <1>2 DEF Files!RunNotOpened
  <2> QED
    BY <2>1, <2>2, AutorunSettles
<1>3. ASSUME NEW f, FilesPart(f), f.runs = page.runs
      PROVE  FilesPart(Files!RunEnds(f, r))
  BY <1>3 DEF Files!RunEnds
<1>4. ASSUME NEW found \in Files!Found(r), ~r.aborted
      PROVE  LET g == [page EXCEPT !.items = found] IN FilesPart(g) /\ g.runs = page.runs
  BY <1>4 DEF Files!Found
<1>5. CASE Files!RunTick(r)
  BY <1>4, <1>5, AutorunSettles DEF Files!RunTick
<1>6. CASE Files!RunDone(r)
  <2>0. PICK found \in Files!Found(r) :
          Files!Becomes(Files!RunEnds([page EXCEPT !.items = IF r.aborted THEN @ ELSE found], r))
    BY <1>6 DEF Files!RunDone
  <2> DEFINE f == [page EXCEPT !.items = IF r.aborted THEN @ ELSE found]
  <2>1. FilesPart(f) /\ f.runs = page.runs
    BY <1>4
  <2>2. Files!Becomes(Files!RunEnds(f, r))
    BY <2>0
  <2> HIDE DEF f
  <2> QED
    BY <1>3, <2>1, <2>2, AutorunSettles
<1>7. CASE Files!RunFails(r)
  BY <1>3, <1>7, AutorunSettles DEF Files!RunFails
<1> QED
  BY <1>1, <1>2, <1>5, <1>6, <1>7 DEF Files!RunStep

(* The operation of the user goes on.                                      *)
OpShape(o) == {"kind", "phase", "conn"} \subseteq DOMAIN o

LEMMA OpSet ==
  ASSUME NEW f, FilesPart(f), NEW o, OpShape(o)
  PROVE  FilesPart([f EXCEPT !.op = o])
BY DEF FilesPart, FilesShape, OneRun, OpShape

LEMMA Ops ==
  /\ OpShape(Files!NoOp) /\ Files!NoOp.phase = "idle"
  /\ \A k, p, d : OpShape(Files!Doing(k, p, d))
       /\ Files!Doing(k, p, d).kind = k /\ Files!Doing(k, p, d).phase = p
BY DEF OpShape, Files!NoOp, Files!Doing

LEMMA DeleteEnded ==
  ASSUME FilesInv
  PROVE  FilesPart(Files!DeleteEnds(page))
<1> DEFINE f == [page EXCEPT !.op = Files!NoOp]
<1>1. FilesPart(f)
  BY OpSet, Ops DEF FilesInv
<1>2. Files!DeleteEnds(page) = Files!Load(f, adb)
  BY DEF Files!DeleteEnds
<1> HIDE DEF f
<1>3. LET g == Files!Load(f, adb) IN
      FilesShape(g) /\ OneRun(g) /\ g.uploads = f.uploads /\ g.uploading = f.uploading
  BY <1>1, Loaded DEF FilesPart
<1> QED
  BY <1>1, <1>2, <1>3 DEF FilesPart

LEMMA DeleteKeeps ==
  ASSUME FilesInv, Files!Delete \/ Files!Removed \/ Files!NotRemoved
  PROVE  FilesInv'
<1>1. CASE Files!Becomes(Files!DeleteEnds(page))
  BY <1>1, DeleteEnded, AutorunSettles
<1>2. CASE Files!Becomes([page EXCEPT !.op = Files!Doing("delete", "working", adb)])
  BY <1>2, OpSet, Ops, AutorunSettles DEF FilesInv
<1> QED
  BY <1>1, <1>2 DEF Files!Delete, Files!Removed, Files!NotRemoved, Files!NextDelete

(* The uploads go on.                                                      *)
LEMMA UploadSet ==
  ASSUME NEW f, FilesShape(f), OneRun(f), NEW us, UploadsShape(us),
         NEW shown, Covered(us, shown)
  PROVE  /\ FilesPart([f EXCEPT !.uploads = us, !.uploading = shown])
         /\ f.uploading = shown => FilesPart([f EXCEPT !.uploads = us])
BY DEF FilesPart, FilesShape, OneRun

(* One that does not send any more, or not yet: the others are as before,  *)
(* the dialog is hidden if it was the one that ended.                      *)
LEMMA UploadLeaves ==
  ASSUME NEW us, UploadsShape(us), NEW shown, Covered(us, shown),
         NEW u \in Files!Uploads, NEW x, {"phase", "conn", "alone"} \subseteq DOMAIN x,
         x.phase # "working"
  PROVE  LET vs == [us EXCEPT ![u] = x] IN
         /\ UploadsShape(vs)
         /\ ~Sending(us, u) => Covered(vs, shown)
         /\ Sending(us, u) => Covered(vs, FALSE)
<1> DEFINE vs == [us EXCEPT ![u] = x]
<1>1. vs[u] = x /\ \A v \in Files!Uploads : v # u => vs[v] = us[v]
  BY DEF UploadsShape
<1>2. UploadsShape(vs)
  BY <1>1 DEF UploadsShape
<1> HIDE DEF vs
<1>3. ~Sending(vs, u) /\ \A v \in Files!Uploads : v # u => (Sending(vs, v) <=> Sending(us, v))
  BY <1>1 DEF Sending
<1>4. ~Sending(us, u) => Covered(vs, shown)
  BY <1>1, <1>3 DEF Covered
<1>5. Sending(us, u) => Covered(vs, FALSE)
  BY <1>1, <1>3 DEF Covered
<1> QED
  BY <1>2, <1>4, <1>5 DEF vs

LEMMA UploadEnded ==
  ASSUME FilesInv
  PROVE  LET g == Files!UploadEnds(page) IN
         FilesShape(g) /\ OneRun(g) /\ g.uploads = page.uploads /\ g.uploading = FALSE
<1> DEFINE f == Files!Load(page, adb)
<1>1. FilesShape(f) /\ OneRun(f) /\ f.uploads = page.uploads
  BY Loaded DEF FilesInv, FilesPart
<1>2. Files!UploadEnds(page) = [f EXCEPT !.uploading = FALSE]
  BY DEF Files!UploadEnds
<1> HIDE DEF f
<1> QED
  BY <1>1, <1>2 DEF FilesShape, OneRun

LEMMA UploadKeeps ==
  ASSUME FilesInv, NEW u \in Files!Uploads,
         Files!UploadStep(u) \/ Files!Uploaded(u) \/ Files!UploadFails(u)
  PROVE  FilesInv'
<1> DEFINE us == page.uploads
           Slots(x) == {"phase", "conn", "alone"} \subseteq DOMAIN x
<1>1. FilesPart(page) /\ FilesShape(page) /\ OneRun(page) /\ UploadsShape(us)
      /\ Covered(us, page.uploading)
  BY DEF FilesInv, FilesPart, FilesShape
<1>2. ASSUME NEW f, FilesShape(f), OneRun(f), f.uploads = us, NEW x, Slots(x),
             x.phase # "working",
             IF Sending(us, u) THEN f.uploading = FALSE ELSE f.uploading = page.uploading
      PROVE  FilesPart([f EXCEPT !.uploads[u] = x])
  <2> DEFINE vs == [us EXCEPT ![u] = x]
  <2>1. UploadsShape(vs) /\ Covered(vs, f.uploading)
    BY <1>1, <1>2, UploadLeaves
  <2>2. [f EXCEPT !.uploads[u] = x] = [f EXCEPT !.uploads = vs]
    BY <1>2
  <2> HIDE DEF vs
  <2> QED
    BY <1>2, <2>1, <2>2, UploadSet
<1>3. Slots(Files!NoUpload) /\ Files!NoUpload.phase # "working"
  BY DEF Files!NoUpload
<1>4. ASSUME NEW f, FilesShape(f), OneRun(f), f.uploads = us,
             IF Sending(us, u) THEN f.uploading = FALSE ELSE f.uploading = page.uploading
      PROVE  FilesPart(Files!NextUpload(f, u))
  <2> DEFINE x == IF adb = 0 THEN Files!NoUpload
                  ELSE [phase |-> "opening", conn |-> adb, alone |-> TRUE]
  <2>1. Slots(x) /\ x.phase # "working"
    BY <1>3
  <2>2. Files!NextUpload(f, u) = [f EXCEPT !.uploads[u] = x]
    BY DEF Files!NextUpload
  <2> HIDE DEF x
  <2> QED
    BY <1>2, <1>4, <2>1, <2>2
<1>5. Files!UploadIs(u, "working") <=> Sending(us, u)
  BY DEF Files!UploadIs, Sending
<1>6. CASE Files!PickFiles(u)
  <2> DEFINE x == [us[u] EXCEPT !.phase = "picking"]
  <2>1. Slots(x) /\ x.phase # "working" /\ ~Sending(us, u)
    BY <1>1, <1>6 DEF UploadsShape, Files!PickFiles, Files!UploadIs, Sending
  <2>2. Files!Becomes([page EXCEPT !.uploads[u] = x])
    BY <1>6 DEF Files!PickFiles
  <2> QED
    BY <1>1, <1>2, <2>1, <2>2, AutorunSettles
<1>7. CASE Files!PickCancelled(u) \/ Files!UploadNotOpened(u)
  <2>1. ~Sending(us, u)
    BY <1>7 DEF Files!PickCancelled, Files!UploadNotOpened, Files!UploadIs, Sending
  <2>2. Files!Becomes([page EXCEPT !.uploads[u] = Files!NoUpload])
    BY <1>7 DEF Files!PickCancelled, Files!UploadNotOpened
  <2> QED
    BY <1>1, <1>2, <1>3, <2>1, <2>2, AutorunSettles
<1>8. CASE Files!FilesPicked(u)
  <2>1. ~Sending(us, u)
    BY <1>8 DEF Files!FilesPicked, Files!UploadIs, Sending
  <2> QED
    BY <1>1, <1>4, <1>8, <2>1, AutorunSettles DEF Files!FilesPicked
<1>9. CASE Files!UploadOpened(u)
  <2> DEFINE others == {v \in Files!Uploads : v # u /\ Files!UploadIs(v, "working")}
             vs == Files!Sends(u)
  <2>1. /\ DOMAIN vs = Files!Uploads
        /\ vs[u] = [us[u] EXCEPT !.phase = "working", !.alone = others = {}]
        /\ \A v \in others : vs[v] = [us[v] EXCEPT !.alone = FALSE]
        /\ \A v \in Files!Uploads \ (others \cup {u}) : vs[v] = us[v]
    BY DEF Files!Sends
  <2>2. \A v \in Files!Uploads : v \in others <=> v # u /\ Sending(us, v)
    BY DEF Files!UploadIs, Sending
  <2>3. UploadsShape(vs)
    BY <1>1, <2>1 DEF UploadsShape
  <2> HIDE DEF vs, others
  <2>4. /\ Sending(vs, u) /\ vs[u].alone = (others = {})
        /\ \A v \in others : vs[v].alone = FALSE
        /\ \A v \in Files!Uploads : v # u => (Sending(vs, v) <=> v \in others)
    <3>1. {"phase", "conn", "alone"} \subseteq DOMAIN us[u]
      BY <1>1 DEF UploadsShape
    <3>2. Sending(vs, u) /\ vs[u].alone = (others = {})
      BY <2>1, <3>1 DEF Sending
    <3>3. ASSUME NEW v \in others
          PROVE  vs[v].alone = FALSE /\ Sending(vs, v)
      <4>1. v \in Files!Uploads /\ Sending(us, v) /\ vs[v] = [us[v] EXCEPT !.alone = FALSE]
        BY <2>1, <2>2 DEF others
      <4>2. {"phase", "conn", "alone"} \subseteq DOMAIN us[v]
        BY <1>1, <4>1 DEF UploadsShape
      <4> QED
        BY <4>1, <4>2 DEF Sending
    <3>4. ASSUME NEW v \in Files!Uploads \ (others \cup {u})
          PROVE  ~Sending(vs, v)
      BY <2>1, <2>2 DEF Sending
    <3> QED
      BY <3>2, <3>3, <3>4
  <2>5. Covered(vs, TRUE)
    BY <2>4 DEF Covered
  <2>6. Files!Becomes([page EXCEPT !.uploads = vs, !.uploading = TRUE])
    BY <1>9 DEF Files!UploadOpened, vs
  <2> QED
    BY <1>1, <2>3, <2>5, <2>6, UploadSet, AutorunSettles
<1>10. CASE Files!Uploaded(u) \/ Files!UploadFails(u)
  <2> DEFINE f == Files!UploadEnds(page)
  <2>1. Sending(us, u)
    BY <1>5, <1>10 DEF Files!Uploaded, Files!UploadFails
  <2>2. FilesShape(f) /\ OneRun(f) /\ f.uploads = us /\ f.uploading = FALSE
    BY UploadEnded
  <2>3. \/ Files!Becomes(Files!NextUpload(f, u))
        \/ Files!Becomes([f EXCEPT !.uploads[u] = Files!NoUpload])
    BY <1>10 DEF Files!Uploaded, Files!UploadFails, Files!AfterUpload
  <2> HIDE DEF f
  <2>4. FilesPart(Files!NextUpload(f, u)) /\ FilesPart([f EXCEPT !.uploads[u] = Files!NoUpload])
    BY <1>2, <1>3, <1>4, <2>1, <2>2
  <2> QED
    BY <2>3, <2>4, AutorunSettles
<1> QED
  BY <1>6, <1>7, <1>8, <1>9, <1>10 DEF Files!UploadStep

LEMMA ReadKeeps ==
  ASSUME FilesInv,
         \/ Files!Download \/ Files!DownloadOpened \/ Files!Downloaded \/ Files!DownloadFails
         \/ Files!PreviewImage \/ Files!PreviewRead \/ Files!HidePreview \/ Files!SessionNotOpened
  PROVE  FilesInv'
<1>1. FilesPart(page)
  BY DEF FilesInv
<1>2. FilesPart([page EXCEPT !.op = Files!NoOp])
  BY <1>1, OpSet, Ops
<1>3. ASSUME NEW k, NEW p, NEW d
      PROVE  FilesPart([page EXCEPT !.op = Files!Doing(k, p, d)])
  BY <1>1, <1>3, OpSet, Ops
<1>4. CASE Files!DownloadOpened
  <2> DEFINE o == [page.op EXCEPT !.phase = "working"]
  <2>1. OpShape(o)
    BY <1>1 DEF FilesPart, FilesShape, OpShape
  <2>2. FilesPart([page EXCEPT !.op = o])
    BY <1>1, <2>1, OpSet
  <2>3. \/ Files!Becomes([page EXCEPT !.op = Files!NoOp])
        \/ Files!Becomes([page EXCEPT !.op = o])
    BY <1>4 DEF Files!DownloadOpened
  <2> QED
    BY <1>2, <2>2, <2>3, AutorunSettles
<1>5. CASE Files!Download
  BY <1>3, <1>5, AutorunSettles DEF Files!Download
<1>6. CASE Files!PreviewImage
  BY <1>3, <1>6, AutorunSettles DEF Files!PreviewImage
<1>7. CASE Files!PreviewRead
  BY <1>2, <1>3, <1>7, AutorunSettles DEF Files!PreviewRead
<1>8. CASE Files!Downloaded \/ Files!DownloadFails \/ Files!HidePreview \/ Files!SessionNotOpened
  BY <1>2, <1>8, AutorunSettles DEF Files!Downloaded, Files!DownloadFails, Files!HidePreview,
     Files!SessionNotOpened
<1> QED
  BY <1>4, <1>5, <1>6, <1>7, <1>8

LEMMA FilesKeep ==
  ASSUME FilesInv, Files!FilesStep
  PROVE  FilesInv'
<1> USE DEF FilesInv
<1>1. CASE Files!ShowPage \/ Files!Select \/ Files!Unselect
  <2>1. PICK g : /\ Files!Becomes(g)
                 /\ DOMAIN g = DOMAIN page /\ g.op = page.op
                 /\ \A n \in {"initial", "path", "loading", "items", "runs", "uploads",
                               "uploading"} : g[n] = page[n]
    BY <1>1 DEF Files!ShowPage, Files!Select, Files!Unselect, FilesPart, FilesShape
  <2> QED
    BY <2>1, FilesAside, AutorunSettles DEF FilesPart, FilesShape
<1>2. CASE Files!HidePage
  <2> DEFINE o == IF Files!OpIs("preview", "shown") THEN Files!NoOp ELSE page.op
             f == [page EXCEPT !.visible = FALSE]
             g == [f EXCEPT !.op = o]
  <2>1. FilesPart(f)
    BY DEF FilesPart, FilesShape, OneRun
  <2>2. OpShape(o)
    BY Ops DEF FilesPart, FilesShape, OpShape
  <2>3. Files!Becomes(g)
    BY <1>2 DEF Files!HidePage
  <2> HIDE DEF f, o
  <2> QED
    BY <2>1, <2>2, <2>3, OpSet, AutorunSettles
<1>3. ASSUME NEW p \in Paths, Files!ChangeDirectory(p)
      PROVE  FilesInv'
  <2> DEFINE f == [page EXCEPT !.path = p]
  <2>1. FilesShape(f) /\ f.uploads = page.uploads /\ f.uploading = page.uploading
    BY DEF FilesPart, FilesShape
  <2>2. CASE adb = 0
    <3>1. FilesPart(f)
      BY <2>2 DEF FilesPart, FilesShape, OneRun, Fresh
    <3> QED
      BY <1>3, <2>2, <3>1, AutorunSettles DEF Files!ChangeDirectory
  <2>3. CASE adb # 0
    <3>1. Files!Becomes(Files!Load(f, adb))
      BY <1>3, <2>3 DEF Files!ChangeDirectory
    <3> HIDE DEF f
    <3>2. FilesPart(Files!Load(f, adb))
      BY <2>1, Loaded DEF FilesPart
    <3> QED
      BY <3>1, <3>2, AutorunSettles
  <2> QED
    BY <2>2, <2>3
<1>4. CASE Files!Becomes(page)
  BY <1>4, AutorunSettles
<1> QED
  BY <1>1, <1>2, <1>3, <1>4, RunsKeep, DeleteKeeps, UploadKeeps, ReadKeeps
     DEF Files!FilesStep, Files!UploadSettles

-----------------------------------------------------------------------------
(* ADB over WiFi: the queries are asyncEffects too; what is shown hangs    *)
(* together in every state that is reached.                                *)

QueryShape(q) ==
  /\ {"aborted", "asks", "conn", "listen", "service"} \subseteq DOMAIN q
  /\ q.aborted \in BOOLEAN

TcpShape(t) ==
  /\ {"initial", "visible", "listening", "servicePortEnabled", "persistPortEnabled",
      "persistPort", "queries", "applying"} \subseteq DOMAIN t
  /\ \A q \in t.queries : QueryShape(q)

OneQuery(t) == \A q, r \in t.queries : ~q.aborted /\ ~r.aborted => q = r

ConsistentPorts(t) ==
  /\ t.listening => ~t.servicePortEnabled
  /\ t.persistPortEnabled => t.persistPort /\ ~t.listening

TcpInv(t) == TcpShape(t) /\ OneQuery(t) /\ ConsistentPorts(t)

LEMMA QueryStarted ==
  ASSUME NEW t, TcpInv(t), NEW device
  PROVE  TcpInv(Tcp!QueryInfo(t, device))
<1>1. \A q \in Tcp!Abort(t.queries) : QueryShape(q) /\ q.aborted = TRUE
  BY DEF Tcp!Abort, TcpInv, TcpShape, QueryShape
<1>2. CASE device = 0
  <2> DEFINE a == [t EXCEPT !.queries = Tcp!Abort(@)]
             g == [a EXCEPT !.listening = FALSE, !.servicePortEnabled = FALSE,
                            !.persistPortEnabled = FALSE, !.persistPort = FALSE]
  <2>1. TcpShape(a) /\ OneQuery(a)
    BY <1>1 DEF TcpInv, TcpShape, OneQuery
  <2>2. Tcp!QueryInfo(t, device) = g
    BY <1>2 DEF Tcp!QueryInfo
  <2> HIDE DEF a
  <2>3. TcpShape(g) /\ OneQuery(g) /\ g.listening = FALSE /\ g.persistPortEnabled = FALSE
    BY <2>1 DEF TcpShape, OneQuery
  <2> QED
    BY <2>2, <2>3 DEF TcpInv, ConsistentPorts
<1>3. CASE device # 0
  <2> DEFINE q == [aborted |-> FALSE, asks |-> "listen", conn |-> device, listen |-> FALSE,
                   service |-> "none"]
             g == [t EXCEPT !.queries = Tcp!Abort(@) \cup {q}]
  <2>1. QueryShape(q)
    BY DEF QueryShape
  <2>2. Tcp!QueryInfo(t, device) = g
    BY <1>3 DEF Tcp!QueryInfo, Tcp!Started
  <2> HIDE DEF q
  <2>3. TcpInv(g)
    BY <1>1, <2>1 DEF TcpInv, TcpShape, OneQuery, ConsistentPorts
  <2> QED
    BY <2>2, <2>3
<1> QED
  BY <1>2, <1>3

LEMMA PortsSettle ==
  ASSUME NEW t, TcpInv(t), Tcp!Becomes(t)
  PROVE  TcpInv(page')
<1> DEFINE on == [t EXCEPT !.initial = TRUE]
           off == [t EXCEPT !.initial = FALSE]
<1>1. TcpInv(on) /\ TcpInv(off)
  BY DEF TcpInv, TcpShape, OneQuery, ConsistentPorts
<1>2. page' \in {on, t, Tcp!QueryInfo(off, adb')}
  BY DEF Tcp!Becomes
<1> HIDE DEF on, off
<1> QED
  BY <1>1, <1>2, QueryStarted

LEMMA PortsKeep ==
  ASSUME TcpInv(page), Tcp!TcpIpStep
  PROVE  TcpInv(page')
<1> USE DEF TcpInv, TcpShape, OneQuery, ConsistentPorts
<1>1. CASE \/ Tcp!ShowPage \/ Tcp!HidePage \/ Tcp!ApplyServicePort \/ Tcp!Applied
  <2>1. PICK b \in BOOLEAN : \/ Tcp!Becomes([page EXCEPT !.visible = b])
                             \/ Tcp!Becomes([page EXCEPT !.applying = b])
    BY <1>1, Zenon DEF Tcp!ShowPage, Tcp!HidePage, Tcp!ApplyServicePort, Tcp!Applied
  <2> QED
    BY <2>1, PortsSettle
<1>2. CASE Tcp!Refresh
  BY <1>2, QueryStarted, PortsSettle DEF Tcp!Refresh
<1>3. CASE Tcp!HandleServicePortEnabledChange
  <2>1. PICK b : ~page.listening /\ Tcp!Becomes([page EXCEPT !.servicePortEnabled = b])
    BY <1>3 DEF Tcp!HandleServicePortEnabledChange
  <2> QED
    BY <2>1, PortsSettle
<1>4. ASSUME NEW q \in page.queries
      PROVE  TcpInv([page EXCEPT !.queries = @ \ {q}])
  OBVIOUS
<1>5. ASSUME NEW q \in page.queries, Tcp!Answered(q)
      PROVE  TcpInv(page')
  <2>1. PICK next : /\ Tcp!Asks(q, next)
                    /\ QueryShape(next) /\ next.aborted = q.aborted
    <3>1. ASSUME NEW l, NEW a
          PROVE  LET n == [q EXCEPT !.asks = a, !.listen = l] IN
                 QueryShape(n) /\ n.aborted = q.aborted
      BY DEF QueryShape
    <3>2. ASSUME NEW p, NEW a
          PROVE  LET n == [q EXCEPT !.asks = a, !.service = p] IN
                 QueryShape(n) /\ n.aborted = q.aborted
      BY DEF QueryShape
    <3> QED
      BY <1>5, <3>1, <3>2, Zenon DEF Tcp!Answered
  <2> DEFINE r == [next EXCEPT !.conn = adb]
             g == [page EXCEPT !.queries = (@ \ {q}) \cup {r}]
  <2>2. QueryShape(r) /\ r.aborted = q.aborted
    BY <2>1 DEF QueryShape
  <2>3. Tcp!Becomes([page EXCEPT !.queries = @ \ {q}]) \/ Tcp!Becomes(g)
    BY <2>1 DEF Tcp!Asks, Tcp!Replace
  <2> HIDE DEF r
  <2>4. TcpInv(g)
    BY <2>2
  <2> HIDE DEF TcpInv, g
  <2> QED
    BY <1>4, <2>3, <2>4, PortsSettle
<1>6. ASSUME NEW q \in page.queries, Tcp!Queried(q)
      PROVE  TcpInv(page')
  <2> DEFINE over == [page EXCEPT !.queries = @ \ {q}]
  <2>1. TcpInv(over)
    BY <1>4
  <2>2. CASE Tcp!Becomes(over)
    BY <2>1, <2>2, PortsSettle
  <2>3. ASSUME NEW l, NEW s, NEW e, NEW p, l => ~s, e => p /\ ~l
        PROVE  TcpInv([over EXCEPT !.listening = l, !.servicePortEnabled = s,
                                   !.persistPortEnabled = e, !.persistPort = p])
    <3> HIDE DEF over
    <3> QED
      BY <2>1, <2>3
  <2>4. CASE ~Tcp!Becomes(over)
    <3>1. PICK p \in BOOLEAN :
            Tcp!Becomes([over EXCEPT !.listening = q.listen,
                                     !.servicePortEnabled = ~q.listen /\ q.service = "on",
                                     !.persistPortEnabled = p /\ ~q.listen /\ q.service = "none",
                                     !.persistPort = p])
      BY <1>6, <2>4, Zenon DEF Tcp!Queried
    <3> DEFINE s == ~q.listen /\ q.service = "on"
               e == p /\ ~q.listen /\ q.service = "none"
               l == q.listen
    <3>2. (l => ~s) /\ (e => p /\ ~l)
      OBVIOUS
    <3> HIDE DEF over, TcpInv
    <3>3. TcpInv([over EXCEPT !.listening = l, !.servicePortEnabled = s,
                              !.persistPortEnabled = e, !.persistPort = p])
      <4> HIDE DEF s, e, l
      <4> QED
        BY <2>3, <3>2
    <3> QED
      BY <3>1, <3>3, PortsSettle
  <2> QED
    BY <2>2, <2>4
<1>7. ASSUME NEW q \in page.queries, Tcp!QueryFails(q)
      PROVE  TcpInv(page')
  BY <1>4, <1>7, PortsSettle DEF Tcp!QueryFails
<1>8. CASE Tcp!Becomes(page)
  BY <1>8, PortsSettle
<1> QED
  BY <1>1, <1>2, <1>3, <1>5, <1>6, <1>7, <1>8 DEF Tcp!TcpIpStep

-----------------------------------------------------------------------------
(* An installation.                                                        *)

InstallFields == {"installing", "stage", "log", "bypass", "at", "conn"}

InstallInv(i) ==
  /\ InstallFields \subseteq DOMAIN i
  /\ i.stage = "Completed" => i.installing = FALSE /\ i.log = TRUE
  /\ i.at \in {"sending", "logging"} =>
       i.installing = TRUE /\ i.stage \in {"Uploading", "Installing"}

LEMMA InstallKeeps ==
  ASSUME InstallInv(page), Apk!InstallStep
  PROVE  InstallInv(page')
<1> USE DEF InstallInv, InstallFields
<1>1. CASE Apk!SetBypass
  BY <1>1 DEF Apk!SetBypass
<1>2. CASE Apk!Click \/ Apk!NotPicked
  BY <1>2 DEF Apk!Click, Apk!NotPicked
<1>3. CASE Apk!Picked
  BY <1>3 DEF Apk!Picked
<1>4. CASE Apk!Progress
  BY <1>4 DEF Apk!Progress
<1>5. CASE Apk!Sent
  BY <1>5 DEF Apk!Sent
<1>6. CASE Apk!Logged
  BY <1>6 DEF Apk!Logged
<1>7. CASE Apk!Installed
  BY <1>7 DEF Apk!Installed
<1>8. CASE Apk!InstallFails
  BY <1>8 DEF Apk!InstallFails
<1>9. CASE UNCHANGED page
  BY <1>9
<1> QED
  BY <1>1, <1>2, <1>3, <1>4, <1>5, <1>6, <1>7, <1>8, <1>9 DEF Apk!InstallStep

-----------------------------------------------------------------------------
(* A zipped report: at most one run, shown as long as it lasts.            *)

ReportInv(b) ==
  /\ {"bugReport", "queries", "streams", "bugReportZInProgress", "bugReportZProgress", "zs"}
       \subseteq DOMAIN b
  /\ \A z \in b.zs : {"at", "conn", "progress"} \subseteq DOMAIN z
  /\ \A y, z \in b.zs : y = z
  /\ b.zs # {} \/ b.bugReportZProgress => b.bugReportZInProgress

LEMMA ReportGoes ==
  ASSUME ReportInv(page), NEW z \in page.zs, NEW y, {"at", "conn", "progress"} \subseteq DOMAIN y
  PROVE  /\ Bugs!Goes(z, {}) => ReportInv(page')
         /\ Bugs!Goes(z, {y}) => ReportInv(page')
BY DEF ReportInv, Bugs!Goes

LEMMA ReportKeeps ==
  ASSUME ReportInv(page), Bugs!BugReportStep
  PROVE  ReportInv(page')
<1> USE DEF ReportInv
<1>1. CASE UNCHANGED page
  BY <1>1
<1>2. CASE \E v : page' = [page EXCEPT !.queries = v] \/ page' = [page EXCEPT !.streams = v]
                  \/ page' = [page EXCEPT !.bugReport = v]
  BY <1>2
<1>3. ASSUME NEW c, Bugs!Capable(c)
      PROVE  ReportInv(page')
  BY <1>3 DEF Bugs!Capable
<1>4. ASSUME NEW c, Bugs!NotCapable(c) \/ Bugs!StreamEnds(c)
      PROVE  ReportInv(page')
  BY <1>2, <1>4 DEF Bugs!NotCapable, Bugs!StreamEnds
<1>5. CASE Bugs!GenerateBugReport \/ Bugs!GenerateBugReportZStream
  BY <1>2, <1>5 DEF Bugs!GenerateBugReport, Bugs!GenerateBugReportZStream
<1>6. CASE Bugs!SlotChanges(page)
  BY <1>1, <1>2, <1>6 DEF Bugs!SlotChanges
<1>7. CASE Bugs!GenerateBugReportZ
  <2> DEFINE z == [at |-> "making", conn |-> page.bugReport.conn,
                   progress |-> page.bugReport.progress]
  <2>1. {"at", "conn", "progress"} \subseteq DOMAIN z
    OBVIOUS
  <2>2. page.zs = {} /\ page' = [page EXCEPT !.bugReportZInProgress = TRUE, !.zs = @ \cup {z}]
    BY <1>7 DEF Bugs!GenerateBugReportZ
  <2> HIDE DEF z
  <2> QED
    BY <2>1, <2>2
<1>8. ASSUME NEW z \in page.zs, Bugs!ZProgress(z)
      PROVE  ReportInv(page')
  BY <1>8 DEF Bugs!ZProgress
<1>9. ASSUME NEW z \in page.zs, Bugs!ZRead(z)
      PROVE  ReportInv(page')
  <2>1. page' = [page EXCEPT !.zs = {}, !.bugReportZInProgress = FALSE, !.bugReportZProgress = FALSE]
    BY <1>9 DEF Bugs!ZRead
  <2> QED
    BY <2>1
<1>10. ASSUME NEW z \in page.zs, Bugs!ZMade(z) \/ Bugs!ZOpened(z) \/ Bugs!ZFails(z)
       PROVE  ReportInv(page')
  <2>1. PICK y : /\ {"at", "conn", "progress"} \subseteq DOMAIN y
                 /\ Bugs!Goes(z, {}) \/ Bugs!Goes(z, {y})
    <3> DEFINE y1 == [z EXCEPT !.at = "opening", !.conn = adb]
               y2 == [z EXCEPT !.at = "reading"]
    <3>1. {"at", "conn", "progress"} \subseteq DOMAIN y1 /\ {"at", "conn", "progress"} \subseteq DOMAIN y2
      OBVIOUS
    <3>2. Bugs!Goes(z, {}) \/ Bugs!Goes(z, {y1}) \/ Bugs!Goes(z, {y2})
      BY <1>10 DEF Bugs!ZMade, Bugs!ZOpened, Bugs!ZFails
    <3> HIDE DEF y1, y2
    <3> QED
      BY <3>1, <3>2
  <2> HIDE DEF ReportInv
  <2> QED
    BY <2>1, ReportGoes
<1> QED
  BY <1>3, <1>4, <1>5, <1>6, <1>7, <1>8, <1>9, <1>10 DEF Bugs!BugReportStep

-----------------------------------------------------------------------------
(* The dialog of the connect panel.                                        *)

LEMMA DialogKeeps ==
  ASSUME ConnsTyped, Panel!DialogMeansAttempt, Panel!ConnectStep
  PROVE  Panel!DialogMeansAttempt'
<1> USE DEF ConnsTyped, Panel!DialogMeansAttempt, Panel!Attempting,
  Panel!Connections, Connections
<1>1. ASSUME NEW c \in Connections, Panel!StartAttempt(c)
      PROVE  Panel!DialogMeansAttempt'
  BY <1>1 DEF Panel!StartAttempt
<1>2. CASE Panel!RunEffects \/ Panel!ConnectButton
  <2>1. (\E c \in Connections : Panel!StartAttempt(c)) \/ UNCHANGED <<conns, connecting>>
    BY <1>2 DEF Panel!RunEffects, Panel!ConnectEffect, Panel!ConnectButton
  <2> QED
    BY <1>1, <2>1
<1>3. ASSUME NEW c \in Connections, Panel!Opened(c) \/ Panel!Refused(c)
      PROVE  Panel!DialogMeansAttempt'
  BY <1>3 DEF Panel!Opened, Panel!Refused
<1>4. ASSUME NEW c \in Connections,
             Panel!OpenFailed(c) \/ Panel!Authenticated(c) \/ Panel!RefusedDispose(c)
      PROVE  Panel!DialogMeansAttempt'
  BY <1>4 DEF Panel!OpenFailed, Panel!Authenticated, Panel!RefusedDispose, Panel!EndAttempt
<1>5. ASSUME NEW c \in Connections, Panel!Disconnected(c) \/ Panel!Dispose(c)
      PROVE  Panel!DialogMeansAttempt'
  BY <1>5 DEF Panel!Disconnected, Panel!Dispose
<1>6. CASE Panel!Disconnect
  BY <1>6 DEF Panel!Disconnect
<1>7. CASE UNCHANGED <<conns, connecting>>
  BY <1>7
<1> QED
  <2>1. CASE \E c \in Connections : Panel!Settle(c) \/ Panel!Disconnected(c) \/ Panel!CleanUp(c)
    BY <1>3, <1>4, <1>5, <2>1, Zenon DEF Panel!Settle, Panel!CleanUp
  <2>2. CASE Panel!RunEffects \/ Panel!ConnectButton \/ Panel!Disconnect
    BY <1>2, <1>6, <2>2
  <2>3. CASE Panel!HideErrorDialog /\ UNCHANGED Panel!connectVars
    BY <1>7, <2>3 DEF Panel!HideErrorDialog, Panel!connectVars, Panel!slotVars
  <2> HIDE DEF Panel!DialogMeansAttempt
  <2>4. CASE Panel!AddUsbDevice \/ Panel!UsbNotRequested \/ Panel!ChangeRoute
    BY <1>7, <2>4 DEF Panel!AddUsbDevice, Panel!UsbNotRequested, Panel!ChangeRoute,
       Panel!globalVars, Panel!slotVars
  <2>5. ASSUME NEW s, \/ Panel!UsbChange(s) \/ Panel!UsbRequested(s) \/ Panel!UsbListed(s)
                      \/ Panel!AddWebSocketDevice(s) \/ Panel!AddTcpDevice(s)
                      \/ Panel!HandleSelectedChange(s)
        PROVE  Panel!DialogMeansAttempt'
    BY <1>7, <2>5 DEF Panel!UsbChange, Panel!UsbRequested, Panel!UsbListed,
       Panel!AddWebSocketDevice, Panel!AddTcpDevice, Panel!HandleSelectedChange,
       Panel!globalVars, Panel!slotVars
  <2> QED
    BY <2>1, <2>2, <2>3, <2>4, <2>5, Zenon DEF Panel!ConnectStep

-----------------------------------------------------------------------------
(* The status bar: its demo mode is that of the device in the slot, which  *)
(* was told of the settings last.                                          *)

DemoShape(d) ==
  {"demoMode", "allowed", "enabled", "features", "bar", "asks", "sets"} \subseteq DOMAIN d

Told(d) ==
  d.enabled /\ d.demoMode # 0 =>
    d.bar = [conn |-> d.demoMode,
             shown |-> [key \in StatusBar!FEATURES |-> StatusBar!OnChange(d.features, key)]]

DemoInv(d, device) ==
  /\ DemoShape(d)
  /\ d.demoMode = device
  /\ device = 0 => d.features = {}
  /\ Told(d)

\* Whatever becomes of the panel, the autorun has run after it.
LEMMA ApplyAllTells ==
  ASSUME NEW d, DemoShape(d), NEW device, d.demoMode = device,
         device = 0 => d.features = {}
  PROVE  DemoInv(StatusBar!ApplyAll(d), device)
<1>1. CASE d.enabled /\ d.demoMode # 0
  <2> DEFINE b == [conn |-> d.demoMode,
                   shown |-> [key \in StatusBar!FEATURES |-> StatusBar!OnChange(d.features, key)]]
             g == [d EXCEPT !.bar = b]
  <2>1. StatusBar!ApplyAll(d) = g
    BY <1>1 DEF StatusBar!ApplyAll
  <2>2. DemoShape(g) /\ g.demoMode = d.demoMode /\ g.features = d.features /\ g.bar = b
    BY DEF DemoShape
  <2> HIDE DEF g
  <2>3. Told(g)
    BY <2>2 DEF Told
  <2> QED
    BY <2>1, <2>2, <2>3 DEF DemoInv
<1>2. CASE ~(d.enabled /\ d.demoMode # 0)
  <2>1. StatusBar!ApplyAll(d) = d
    BY <1>2 DEF StatusBar!ApplyAll
  <2> QED
    BY <1>2, <2>1 DEF DemoInv, Told
<1> QED
  BY <1>1, <1>2

LEMMA DemoAside ==
  ASSUME DemoInv(page, adb), UNCHANGED adb, NEW d, StatusBar!Becomes(d),
         d.demoMode = page.demoMode, d.features = page.features, DOMAIN d = DOMAIN page
  PROVE  DemoInv(page', adb')
BY ApplyAllTells DEF DemoInv, DemoShape, StatusBar!Becomes

LEMMA DemoKeeps ==
  ASSUME DemoInv(page, adb), StatusBar!DemoModeStep
  PROVE  DemoInv(page', adb')
<1> USE DEF DemoInv
<1>1. ASSUME StatusBar!Quiet
      PROVE  adb' = adb
  BY <1>1 DEF StatusBar!Quiet, StatusBar!globalVars, StatusBar!slotVars
<1>2. ASSUME NEW c, StatusBar!AllowedIs(c) \/ StatusBar!EnabledIs(c)
      PROVE  DemoInv(page', adb')
  <2>1. CASE StatusBar!AllowedIs(c)
    <3> DEFINE g(v) == [page EXCEPT
                          !.allowed = v,
                          !.asks = (@ \ {<<c, "allowed">>})
                                   \cup (IF v /\ page.demoMode # 0
                                         THEN {<<page.demoMode, "enabled">>} ELSE {})]
    <3>1. PICK v \in BOOLEAN : StatusBar!Becomes(g(v))
      BY <2>1 DEF StatusBar!AllowedIs
    <3>2. g(v).demoMode = page.demoMode /\ g(v).features = page.features
          /\ DOMAIN g(v) = DOMAIN page
      OBVIOUS
    <3>3. adb' = adb
      BY <1>1, <2>1 DEF StatusBar!AllowedIs, StatusBar!Asked
    <3> HIDE DEF g
    <3> QED
      BY <3>1, <3>2, <3>3, DemoAside
  <2>2. CASE StatusBar!EnabledIs(c)
    <3> DEFINE g(v) == [page EXCEPT !.enabled = v, !.asks = @ \ {<<c, "enabled">>}]
    <3>1. PICK v \in BOOLEAN : StatusBar!Becomes(g(v))
      BY <2>2 DEF StatusBar!EnabledIs
    <3>2. g(v).demoMode = page.demoMode /\ g(v).features = page.features
          /\ DOMAIN g(v) = DOMAIN page
      OBVIOUS
    <3>3. adb' = adb
      BY <1>1, <2>2 DEF StatusBar!EnabledIs, StatusBar!Asked
    <3> HIDE DEF g
    <3> QED
      BY <3>1, <3>2, <3>3, DemoAside
  <2> QED
    BY <1>2, <2>1, <2>2
<1>3. ASSUME NEW v, StatusBar!HandleAllowedChange(v) \/ StatusBar!HandleEnabledChange(v)
      PROVE  DemoInv(page', adb')
  <2> DEFINE g(w) == [page EXCEPT !.sets = @ \cup {<<page.demoMode, w, v>>}]
  <2>1. PICK w \in {"allowed", "enabled"} : StatusBar!Becomes(g(w))
    BY <1>3 DEF StatusBar!HandleAllowedChange, StatusBar!HandleEnabledChange
  <2>2. g(w).demoMode = page.demoMode /\ g(w).features = page.features
        /\ DOMAIN g(w) = DOMAIN page
    OBVIOUS
  <2>3. adb' = adb
    BY <1>1, <1>3 DEF StatusBar!HandleAllowedChange, StatusBar!HandleEnabledChange,
       StatusBar!PanelActs
  <2> HIDE DEF g
  <2> QED
    BY <2>1, <2>2, <2>3, DemoAside
<1>4. CASE StatusBar!NotAnswered
  <2> DEFINE g(a) == [page EXCEPT !.asks = @ \ {a}]
             h(s) == [page EXCEPT !.sets = @ \ {s}]
  <2>1. PICK a : StatusBar!Becomes(g(a)) \/ StatusBar!Becomes(h(a))
    BY <1>4 DEF StatusBar!NotAnswered
  <2>2. /\ g(a).demoMode = page.demoMode /\ g(a).features = page.features
        /\ DOMAIN g(a) = DOMAIN page
        /\ h(a).demoMode = page.demoMode /\ h(a).features = page.features
        /\ DOMAIN h(a) = DOMAIN page
    OBVIOUS
  <2>3. adb' = adb
    BY <1>1, <1>4 DEF StatusBar!NotAnswered
  <2> HIDE DEF g, h
  <2> QED
    BY <2>1, <2>2, <2>3, DemoAside
<1>5. ASSUME NEW s, StatusBar!Changed(s)
      PROVE  DemoInv(page', adb')
  <2> DEFINE g == [page EXCEPT !.sets = @ \ {s}, !.allowed = s[3], !.enabled = FALSE]
             h == [page EXCEPT !.sets = @ \ {s}, !.enabled = s[3]]
  <2>1. StatusBar!Becomes(g) \/ StatusBar!Becomes(h)
    BY <1>5 DEF StatusBar!Changed
  <2>2. /\ g.demoMode = page.demoMode /\ g.features = page.features /\ DOMAIN g = DOMAIN page
        /\ h.demoMode = page.demoMode /\ h.features = page.features /\ DOMAIN h = DOMAIN page
    OBVIOUS
  <2>3. adb' = adb
    BY <1>1, <1>5 DEF StatusBar!Changed
  <2> HIDE DEF g, h
  <2> QED
    BY <2>1, <2>2, <2>3, DemoAside
<1>6. ASSUME NEW f, StatusBar!SetFeature(f)
      PROVE  DemoInv(page', adb')
  <2> DEFINE g == [page EXCEPT !.features = @ \cup {f}, !.enabled = TRUE]
  <2>1. page' = StatusBar!ApplyAll(g) /\ adb' = adb /\ page.demoMode # 0
    BY <1>1, <1>6 DEF StatusBar!SetFeature, StatusBar!PanelActs, StatusBar!Becomes
  <2>2. DemoShape(g) /\ g.demoMode = page.demoMode
    BY DEF DemoShape
  <2> HIDE DEF g
  <2> QED
    BY <2>1, <2>2, ApplyAllTells
<1>7. CASE StatusBar!SlotChanges(page)
  <2>1. CASE adb' = adb
    BY <1>7, <2>1, DemoAside DEF StatusBar!SlotChanges
  <2>2. CASE adb' # adb /\ adb' = 0
    <3> DEFINE g == [page EXCEPT !.demoMode = 0, !.allowed = FALSE, !.enabled = FALSE,
                                 !.features = {}]
    <3>1. page' = StatusBar!ApplyAll(g)
      BY <1>7, <2>2 DEF StatusBar!SlotChanges, StatusBar!Becomes
    <3>2. DemoShape(g) /\ g.demoMode = 0 /\ g.features = {}
      BY DEF DemoShape
    <3> HIDE DEF g
    <3> QED
      BY <2>2, <3>1, <3>2, ApplyAllTells
  <2>3. CASE adb' # adb /\ adb' # 0
    <3> DEFINE g == [page EXCEPT !.demoMode = adb', !.asks = @ \cup {<<adb', "allowed">>}]
    <3>1. page' = StatusBar!ApplyAll(g)
      BY <1>7, <2>3 DEF StatusBar!SlotChanges, StatusBar!Becomes
    <3>2. DemoShape(g) /\ g.demoMode = adb'
      BY DEF DemoShape
    <3> HIDE DEF g
    <3> QED
      BY <2>3, <3>1, <3>2, ApplyAllTells
  <2> QED
    BY <2>1, <2>2, <2>3
<1> QED
  BY <1>2, <1>3, <1>4, <1>5, <1>6, <1>7 DEF StatusBar!DemoModeStep

-----------------------------------------------------------------------------
(* The timer of the DevTools page.                                         *)

TimerInv(d, device) ==
  /\ {"visible", "intervalId", "timers", "replaced", "started", "fetches", "browsers"}
        \subseteq DOMAIN d
  /\ d.visible \in BOOLEAN /\ d.started \in Nat
  /\ d.timers \subseteq 1 .. d.started /\ d.replaced \subseteq 1 .. d.started
  /\ d.visible /\ device # 0 => d.intervalId \in d.timers \ d.replaced
  /\ ~d.visible \/ device = 0 => d.intervalId = 0
  /\ d.timers \ {d.intervalId} \subseteq d.replaced

LEMMA TimersKeep ==
  ASSUME TimerInv(page, adb), Chrome!DevToolsStep
  PROVE  TimerInv(page', adb')
<1> USE DEF TimerInv
<1>1. ASSUME Chrome!Quiet
      PROVE  adb' = adb
  BY <1>1 DEF Chrome!Quiet, Chrome!globalVars, Chrome!slotVars
<1>2. ASSUME NEW v, \/ page' = [page EXCEPT !.fetches = v]
                    \/ \E b : page' = [page EXCEPT !.fetches = v, !.browsers = b]
                    \/ page' = page,
             adb' = adb
      PROVE  TimerInv(page', adb')
  BY <1>2
<1>3. CASE Chrome!Tick \/ Chrome!ClosePage
  <2>1. adb' = adb /\ page' = Chrome!GetBrowsers(page, adb)
    BY <1>1, <1>3 DEF Chrome!Tick, Chrome!ClosePage
  <2> QED
    BY <1>2, <2>1 DEF Chrome!GetBrowsers
<1>4. ASSUME NEW f, Chrome!Sockets(f) \/ Chrome!NoSockets(f) \/ Chrome!Browsers(f)
      PROVE  TimerInv(page', adb')
  <2>1. adb' = adb
    BY <1>1, <1>4 DEF Chrome!Sockets, Chrome!NoSockets, Chrome!Browsers
  <2> HIDE DEF TimerInv
  <2> QED
    BY <1>2, <1>4, <2>1 DEF Chrome!Sockets, Chrome!NoSockets, Chrome!Browsers
<1>5. ASSUME NEW d, DOMAIN d = DOMAIN page, d.visible \in BOOLEAN,
             d.timers = page.timers, d.intervalId = page.intervalId, d.started = page.started,
             d.replaced = page.replaced, Chrome!Reacts(d)
      PROVE  TimerInv(page', adb')
  <2>1. CASE adb' = adb /\ d.visible = page.visible
    BY <1>5, <2>1 DEF Chrome!Reacts
  <2>2. CASE ~(adb' = adb /\ d.visible = page.visible) /\ (adb' = 0 \/ ~d.visible)
    <3>1. page' = [d EXCEPT !.browsers = 0, !.intervalId = 0, !.timers = @ \ {d.intervalId}]
      BY <1>5, <2>2 DEF Chrome!Reacts
    <3>2. /\ DOMAIN page' = DOMAIN d /\ page'.visible = d.visible /\ page'.intervalId = 0
          /\ page'.timers = d.timers \ {d.intervalId} /\ page'.replaced = d.replaced
          /\ page'.started = d.started
      BY <1>5, <3>1
    <3> QED
      BY <1>5, <2>2, <3>2
  <2>3. CASE ~(adb' = adb /\ d.visible = page.visible) /\ adb' # 0 /\ d.visible
    <3> DEFINE old == {d.intervalId} \ {0}
               e == [d EXCEPT !.started = @ + 1, !.timers = @ \cup {d.started + 1},
                              !.replaced = @ \cup old, !.intervalId = d.started + 1]
    <3>1. page' = Chrome!GetBrowsers(e, adb')
      BY <1>5, <2>3 DEF Chrome!Reacts
    <3>2. DOMAIN e = DOMAIN page /\ e.started = d.started + 1 /\ e.visible = d.visible
          /\ e.intervalId = d.started + 1 /\ e.timers = d.timers \cup {d.started + 1}
          /\ e.replaced = d.replaced \cup old
      BY <1>5
    <3> HIDE DEF e
    <3>3. DOMAIN page' = DOMAIN e /\ page'.started = e.started /\ page'.visible = e.visible
          /\ page'.intervalId = e.intervalId /\ page'.timers = e.timers
          /\ page'.replaced = e.replaced
      BY <3>1, <3>2 DEF Chrome!GetBrowsers
    <3>4. old \subseteq 1 .. d.started /\ d.timers \subseteq d.replaced \cup old
      BY <1>5
    <3>5. d.timers \cup {d.started + 1} \subseteq 1 .. d.started + 1
      BY <1>5
    <3>6. d.started + 1 \notin d.replaced \cup old
      BY <1>5, <3>4
    <3>7. page'.replaced = d.replaced \cup old /\ page'.replaced \subseteq 1 .. page'.started
      BY <1>5, <3>2, <3>3, <3>4
    <3> HIDE DEF old
    <3>8. /\ page'.timers \subseteq 1 .. page'.started
          /\ page'.intervalId \in page'.timers \ page'.replaced
          /\ page'.timers \ {page'.intervalId} \subseteq page'.replaced
      BY <3>2, <3>3, <3>4, <3>5, <3>6, <3>7
    <3>9. /\ page'.visible = TRUE /\ page'.started \in Nat /\ DOMAIN page' = DOMAIN page
      BY <1>5, <2>3, <3>2, <3>3
    <3> QED
      BY <2>3, <3>7, <3>8, <3>9
  <2> QED
    BY <2>1, <2>2, <2>3
<1>6. CASE Chrome!ToggleVisible
  <2> DEFINE d == [page EXCEPT !.visible = ~@]
  <2>1. DOMAIN d = DOMAIN page /\ d.visible \in BOOLEAN /\ d.timers = page.timers
        /\ d.intervalId = page.intervalId /\ d.started = page.started
        /\ d.replaced = page.replaced
    OBVIOUS
  <2>2. Chrome!Reacts(d)
    BY <1>6 DEF Chrome!ToggleVisible
  <2> HIDE DEF d
  <2> QED
    BY <1>5, <2>1, <2>2
<1>7. CASE Chrome!Reacts(page)
  BY <1>5, <1>7
<1> QED
  BY <1>3, <1>4, <1>6, <1>7 DEF Chrome!DevToolsStep

-----------------------------------------------------------------------------
(* The audio page.                                                         *)

AudioInv(c) ==
  /\ {"webUsb", "accessory", "rebooting", "supported", "asked", "accessories"} \subseteq DOMAIN c
  /\ c.accessories \subseteq c.accessory

LEMMA AudioKeeps ==
  ASSUME AudioInv(page), Commands!CommandsStep
  PROVE  AudioInv(page')
<1> USE DEF AudioInv
<1>1. CASE Commands!PowerButton
  BY <1>1 DEF Commands!PowerButton
<1>2. ASSUME NEW why, Commands!AudioButton(why)
      PROVE  AudioInv(page')
  BY <1>2 DEF Commands!AudioButton
<1>3. ASSUME NEW c, Commands!AudioAnswers(c)
      PROVE  AudioInv(page')
  <2>1. CASE page' = [page EXCEPT !.asked = @ \ {<<c, "query">>},
                        !.supported = IF c \in page.accessory THEN "yes" ELSE "no"]
    BY <2>1
  <2>2. ASSUME NEW why, page' = [page EXCEPT !.asked = @ \ {<<c, why>>},
                        !.accessories = IF c \in page.accessory THEN @ \cup {c} ELSE @]
        PROVE  AudioInv(page')
    BY <2>2
  <2> HIDE DEF AudioInv
  <2> QED
    BY <1>3, <2>1, <2>2, Zenon DEF Commands!AudioAnswers
<1>4. ASSUME NEW c, Commands!AudioFails(c)
      PROVE  AudioInv(page')
  BY <1>4 DEF Commands!AudioFails
<1>5. CASE UNCHANGED page
  BY <1>5
<1> QED
  BY <1>1, <1>2, <1>3, <1>4, <1>5 DEF Commands!CommandsStep

-----------------------------------------------------------------------------
(* The WebSocket of the DevTools popup.  What makes the order inductive is *)
(* what the ends know of each other: nothing is sent before the real one   *)
(* is open, and an end that closes drops what it has not read.             *)

FrameMessages == {"open", "message", "close"}

\* The messages under way to the popup, by what it was told before and
\* whether the page may still send.
Ordered(q, seen, hostPort) ==
  \A i \in 1 .. Len(q) :
    /\ q[i] = "open" => i = 1 /\ seen = "nothing"
    /\ q[i] = "message" => seen = "open" \/ q[1] = "open"
    /\ q[i] = "close" => i = Len(q) /\ hostPort = "closed"

PortShape(i) ==
  /\ {"ws", "hostPort", "toFrame", "toHost", "framePort", "seen", "popup"} \subseteq DOMAIN i
  /\ i.toFrame \in Seq(FrameMessages)
  /\ i.toHost \in Seq(FrameMessages)

InspectorInv(i) ==
  /\ PortShape(i)
  /\ i.framePort # "open" => i.toFrame = <<>>
  /\ i.framePort = "none" => i.hostPort = "none"
  /\ i.hostPort = "none" => i.ws = "none"
  /\ i.hostPort = "closed" => i.ws = "closed"
  /\ i.ws \in {"none", "connecting"} => i.toFrame = <<>> /\ i.seen = "nothing"
  /\ i.ws = "closing" => i.framePort = "closed"
  /\ \A k \in 1 .. Len(i.toHost) : i.toHost[k] = "close" => i.framePort = "closed"
  /\ i.ws = "open" /\ i.framePort = "open" =>
       i.seen = "open" \/ (i.toFrame # <<>> /\ i.toFrame[1] = "open")
  /\ Ordered(i.toFrame, i.seen, i.hostPort)

LEMMA OrderAppend ==
  ASSUME NEW q \in Seq(FrameMessages), NEW seen, NEW host, host # "closed",
         Ordered(q, seen, host)
  PROVE  /\ q = <<>> /\ seen = "nothing" => Ordered(Append(q, "open"), seen, host)
         /\ seen = "open" \/ (q # <<>> /\ q[1] = "open") => Ordered(Append(q, "message"), seen, host)
         /\ Ordered(Append(q, "close"), seen, "closed")
<1> USE DEF Ordered
<1>1. q = <<>> /\ seen = "nothing" => Ordered(Append(q, "open"), seen, host)
  OBVIOUS
<1>2. seen = "open" \/ (q # <<>> /\ q[1] = "open") => Ordered(Append(q, "message"), seen, host)
  OBVIOUS
<1>3. Ordered(Append(q, "close"), seen, "closed")
  OBVIOUS
<1> QED
  BY <1>1, <1>2, <1>3

LEMMA Appended ==
  ASSUME NEW q \in Seq(FrameMessages), NEW m \in FrameMessages
  PROVE  /\ Append(q, m) \in Seq(FrameMessages) /\ Append(q, m) # <<>>
         /\ Append(q, m)[1] = IF q = <<>> THEN m ELSE q[1]
<1>1. CASE q = <<>>
  BY <1>1
<1>2. CASE q # <<>>
  <2>1. Len(q) \in Nat \ {0}
    BY <1>2
  <2>2. 1 \in 1 .. Len(q)
    BY <2>1
  <2> QED
    BY <1>2, <2>1, <2>2
<1> QED
  BY <1>1, <1>2

LEMMA OrderTail ==
  ASSUME NEW q \in Seq(FrameMessages), q # <<>>, NEW seen, NEW host, Ordered(q, seen, host)
  PROVE  /\ Head(q) = "open" => Ordered(Tail(q), "open", host)
         /\ Head(q) = "message" => seen = "open" /\ Ordered(Tail(q), seen, host)
         /\ Tail(q) \in Seq(FrameMessages)
<1>1. Head(q) = q[1] /\ Tail(q) \in Seq(FrameMessages) /\ Len(Tail(q)) = Len(q) - 1
      /\ Len(q) \in Nat \ {0}
      /\ \A i \in 1 .. Len(Tail(q)) : Tail(q)[i] = q[i + 1]
  OBVIOUS
<1>2. \A i \in 1 .. Len(Tail(q)) :
        /\ Tail(q)[i] # "open"
        /\ Tail(q)[i] = "message" => seen = "open" \/ q[1] = "open"
        /\ Tail(q)[i] = "close" => i = Len(Tail(q)) /\ host = "closed"
  <2> TAKE i \in 1 .. Len(Tail(q))
  <2> DEFINE j == i + 1
  <2>1. j \in 1 .. Len(q) /\ j # 1 /\ q[j] = Tail(q)[i]
    BY <1>1
  <2>2. /\ q[j] = "open" => j = 1 /\ seen = "nothing"
        /\ q[j] = "message" => seen = "open" \/ q[1] = "open"
        /\ q[j] = "close" => j = Len(q) /\ host = "closed"
    BY <2>1 DEF Ordered
  <2>3. j = Len(q) => i = Len(Tail(q))
    <3>1. Len(q) \in Int /\ i \in Int /\ Len(Tail(q)) = Len(q) - 1
      BY <1>1
    <3>2. \A n, k \in Int : k + 1 = n => k = n - 1
      OBVIOUS
    <3> QED
      BY <3>1, <3>2
  <2> HIDE DEF j
  <2> QED
    BY <2>1, <2>2, <2>3
<1>3. 1 \in 1 .. Len(q)
  BY <1>1
<1>4. Head(q) = "open" => Ordered(Tail(q), "open", host)
  BY <1>2 DEF Ordered
<1>5. ASSUME Head(q) = "message" PROVE seen = "open" /\ Ordered(Tail(q), seen, host)
  <2>1. q[1] = "message"
    BY <1>1, <1>5
  <2>2. seen = "open"
    BY <1>3, <2>1 DEF Ordered
  <2> QED
    BY <1>2, <2>2 DEF Ordered
<1> QED
  BY <1>1, <1>4, <1>5

LEMMA OrderEmpty == \A seen, host : Ordered(<<>>, seen, host)
BY DEF Ordered

LEMMA InspectorKeeps ==
  ASSUME InspectorInv(page), Popup!InspectorStep
  PROVE  InspectorInv(page')
<1> USE DEF InspectorInv, PortShape
<1>1. CASE Popup!NewWebSocket
  BY <1>1 DEF Popup!NewWebSocket
<1>2. CASE Popup!Announced
  BY <1>2, OrderEmpty DEF Popup!Announced
<1>3. CASE Popup!WsOpens
  <2> DEFINE i == [page EXCEPT !.ws = "open"]
  <2>1. page' = Popup!ToFrame(i, "open") /\ page.ws = "connecting"
    BY <1>3 DEF Popup!WsOpens
  <2>2. CASE Popup!Channel(i)
    <3>1. page' = [i EXCEPT !.toFrame = Append(@, "open")]
      BY <2>1, <2>2 DEF Popup!ToFrame
    <3>2. page.framePort = "open" /\ page.hostPort # "closed"
      BY <2>2 DEF Popup!Channel
    <3>3. Ordered(Append(page.toFrame, "open"), page.seen, page.hostPort)
      BY <2>1, <3>2, OrderAppend
    <3> QED
      BY <2>1, <3>1, <3>2, <3>3, Appended DEF FrameMessages
  <2>3. CASE ~Popup!Channel(i)
    <3>1. page' = i
      BY <2>1, <2>3 DEF Popup!ToFrame
    <3>2. page.framePort # "open" \/ page.hostPort = "closed"
      BY <2>3 DEF Popup!Channel
    <3> QED
      BY <2>1, <3>1, <3>2
  <2> QED
    BY <2>2, <2>3
<1>4. CASE Popup!WsMessage
  <2>1. CASE Popup!Channel(page)
    <3>1. page' = [page EXCEPT !.toFrame = Append(@, "message")]
          /\ page.ws \in {"open", "closing"}
      BY <1>4, <2>1 DEF Popup!WsMessage, Popup!ToFrame
    <3>2. page.framePort = "open" /\ page.hostPort # "closed"
      BY <2>1 DEF Popup!Channel
    <3>3. page.seen = "open" \/ (page.toFrame # <<>> /\ page.toFrame[1] = "open")
      BY <3>1, <3>2
    <3>4. Ordered(Append(page.toFrame, "message"), page.seen, page.hostPort)
      BY <3>2, <3>3, OrderAppend
    <3> DEFINE q == Append(page.toFrame, "message")
    <3>5. q \in Seq(FrameMessages) /\ (page.toFrame # <<>> => q # <<>> /\ q[1] = page.toFrame[1])
      BY Appended DEF FrameMessages
    <3>6. page' = [page EXCEPT !.toFrame = q] /\ Ordered(q, page.seen, page.hostPort)
      BY <3>1, <3>4
    <3> HIDE DEF q
    <3> QED
      BY <3>1, <3>2, <3>3, <3>5, <3>6
  <2>2. CASE ~Popup!Channel(page)
    BY <1>4, <2>2 DEF Popup!WsMessage, Popup!ToFrame
  <2> QED
    BY <2>1, <2>2
<1>5. CASE Popup!WsCloses \/ Popup!BeforeUnload
  <2> DEFINE i == [page EXCEPT !.ws = "closed"]
  <2>1. page' = Popup!HostEnds(Popup!ToFrame(i, "close")) /\ page.hostPort # "none"
    BY <1>5 DEF Popup!WsCloses, Popup!BeforeUnload
  <2>2. CASE Popup!Channel(i)
    BY <2>1, <2>2, OrderAppend DEF Popup!HostEnds, Popup!ToFrame, Popup!Channel, FrameMessages
  <2>3. CASE ~Popup!Channel(i)
    <3>1. page' = [page EXCEPT !.ws = "closed", !.hostPort = "closed", !.toHost = <<>>]
      BY <2>1, <2>3 DEF Popup!HostEnds, Popup!ToFrame
    <3>2. page.toFrame = <<>> \/ page.hostPort = "closed"
      BY <2>3 DEF Popup!Channel
    <3>3. Ordered(page.toFrame, page.seen, "closed")
      BY <3>2, OrderEmpty
    <3>4. /\ DOMAIN page' = DOMAIN page /\ page'.ws = "closed" /\ page'.hostPort = "closed"
          /\ page'.toHost = <<>> /\ page'.toFrame = page.toFrame /\ page'.seen = page.seen
          /\ page'.framePort = page.framePort
      BY <3>1
    <3>5. PortShape(page')
      BY <3>4
    <3>6. Ordered(page'.toFrame, page'.seen, page'.hostPort)
      BY <3>3, <3>4
    <3>7. \A k \in 1 .. Len(page'.toHost) : page'.toHost[k] = "close" => page'.framePort = "closed"
      BY <3>4
    <3> QED
      BY <2>1, <3>4, <3>5, <3>6, <3>7
  <2> QED
    BY <2>2, <2>3
<1>6. CASE Popup!HostReceives
  BY <1>6 DEF Popup!HostReceives
<1>7. CASE Popup!FrameReceives
  <2> DEFINE m == Head(page.toFrame)
             rest == [page EXCEPT !.toFrame = Tail(@)]
  <2>1. page.framePort = "open" /\ page.toFrame # <<>> /\ page.ws \notin {"none", "connecting"}
    BY <1>7 DEF Popup!FrameReceives
  <2>2. m \in FrameMessages
    BY <2>1
  <2>3. CASE m = "open"
    <3>1. page' = [page EXCEPT !.toFrame = Tail(@), !.seen = "open"]
      BY <1>7, <2>3 DEF Popup!FrameReceives
    <3> DEFINE q == Tail(page.toFrame)
    <3>2. q \in Seq(FrameMessages) /\ Ordered(q, "open", page.hostPort)
      BY <2>1, <2>3, OrderTail
    <3>3. /\ DOMAIN page' = DOMAIN page /\ page'.ws = page.ws /\ page'.hostPort = page.hostPort
          /\ page'.toHost = page.toHost /\ page'.toFrame = q /\ page'.seen = "open"
          /\ page'.framePort = page.framePort
      BY <3>1
    <3> HIDE DEF q
    <3> QED
      BY <2>1, <3>2, <3>3
  <2>4. CASE m = "message"
    <3>1. page' = rest
      BY <1>7, <2>4 DEF Popup!FrameReceives
    <3> QED
      BY <2>1, <2>4, <3>1, OrderTail
  <2>5. CASE m = "close"
    <3>1. page' = Popup!FrameEnds([rest EXCEPT !.seen = "close"])
      BY <1>7, <2>5 DEF Popup!FrameReceives
    <3> QED
      BY <2>1, <2>5, <3>1 DEF Popup!FrameEnds, Ordered, FrameMessages
  <2> QED
    BY <2>2, <2>3, <2>4, <2>5 DEF FrameMessages
<1>8. CASE Popup!Send
  BY <1>8 DEF Popup!Send, Popup!ToHost, Popup!Channel, FrameMessages
<1>9. CASE Popup!Close
  BY <1>9 DEF Popup!Close, Popup!ToHost, Popup!Channel, Popup!FrameEnds, FrameMessages, Ordered
<1>10. CASE Popup!PopupCloses
  BY <1>10 DEF Popup!PopupCloses, Popup!FrameEnds, Ordered
<1> QED
  BY <1>1, <1>2, <1>3, <1>4, <1>5, <1>6, <1>7, <1>8, <1>9, <1>10 DEF Popup!InspectorStep

-----------------------------------------------------------------------------
(* The terminal.                                                           *)

Messages == Seq([port : Nat, conn : Nat])

TabbyShape(t) ==
  /\ {"shown", "frame", "port", "ports", "inbox", "ready", "adbState", "tab", "saved", "config"}
       \subseteq DOMAIN t
  /\ t.ports \in Nat /\ t.inbox \in Messages

TabbyInv(t) ==
  /\ TabbyShape(t)
  /\ t.ready => t.frame # "none"
  /\ t.frame = "listening" /\ ~t.ready /\ t.port # 0 =>
       IF t.inbox = <<>> THEN t.adbState.port = t.port
       ELSE t.inbox[Len(t.inbox)].port = t.port

LEMMA LastAppended ==
  ASSUME NEW S, NEW q \in Seq(S), NEW m \in S
  PROVE  /\ Append(q, m) \in Seq(S) /\ Append(q, m) # <<>>
         /\ Append(q, m)[Len(Append(q, m))] = m
OBVIOUS

LEMMA LastOfTail ==
  ASSUME NEW S, NEW q \in Seq(S)
  PROVE  /\ q # <<>> => Tail(q) \in Seq(S) /\ (Tail(q) = <<>> => Head(q) = q[Len(q)])
         /\ Tail(q) # <<>> => Tail(q)[Len(Tail(q))] = q[Len(q)]
<1>1. ASSUME q # <<>>
      PROVE  Tail(q) \in Seq(S) /\ (Tail(q) = <<>> => Head(q) = q[Len(q)])
  <2>1. /\ Tail(q) \in Seq(S) /\ Len(q) \in Nat \ {0} /\ Len(Tail(q)) = Len(q) - 1
        /\ Head(q) = q[1]
    BY <1>1
  <2>2. Tail(q) = <<>> => Len(Tail(q)) = 0
    <3>1. Len(<<>>) = 0
      OBVIOUS
    <3> QED
      BY <3>1
  <2>3. Len(Tail(q)) = 0 => Len(q) = 1
    <3>1. \A n \in Nat : n - 1 = 0 => n = 1
      OBVIOUS
    <3> QED
      BY <2>1, <3>1
  <2> QED
    BY <2>1, <2>2, <2>3
<1>2. ASSUME Tail(q) # <<>>
      PROVE  Tail(q)[Len(Tail(q))] = q[Len(q)]
  BY <1>2
<1> QED
  BY <1>1, <1>2

\* syncDevice(): a terminal that listens is told of the channel made for it.
LEMMA DeviceSynced ==
  ASSUME NEW t, TabbyShape(t), NEW device \in Nat,
         t.ready => t.frame # "none",
         TabbyInv(t) \/ t.frame # "none"
  PROVE  TabbyInv(Terminal!SyncDevice(t, device))
<1> DEFINE m == [port |-> t.ports + 1, conn |-> device]
           q == IF t.frame = "listening" THEN Append(t.inbox, m) ELSE t.inbox
           new == [t EXCEPT !.ports = @ + 1, !.port = t.ports + 1, !.inbox = q]
           gone == [t EXCEPT !.port = 0]
<1>1. /\ q \in Messages
      /\ t.frame = "listening" => q # <<>> /\ q[Len(q)].port = t.ports + 1
  <2>1. m \in [port : Nat, conn : Nat] /\ m.port = t.ports + 1
    BY DEF TabbyShape
  <2> DEFINE p == Append(t.inbox, m)
  <2>2. p \in Messages /\ p # <<>> /\ p[Len(p)] = m
    BY <2>1, LastAppended DEF TabbyShape, Messages
  <2> HIDE DEF m
  <2> QED
    BY <2>1, <2>2 DEF TabbyShape
<1> HIDE DEF q
<1>2. TabbyInv(new)
  BY <1>1 DEF TabbyInv, TabbyShape
<1>3. TabbyInv(gone)
  BY DEF TabbyInv, TabbyShape
<1>4. Terminal!SyncDevice(t, device) = IF t.frame = "none" THEN t ELSE IF device = 0 THEN gone ELSE new
  BY DEF Terminal!SyncDevice, q
<1> HIDE DEF new, gone
<1> QED
  BY <1>2, <1>3, <1>4

LEMMA TabbyKeeps ==
  ASSUME TabbyInv(page), Terminal!TabbyStep, adb \in Nat, adb' \in Nat
  PROVE  TabbyInv(page')
<1>1. CASE Terminal!AttachTabbyFrame
  <2> DEFINE shown == [page EXCEPT !.shown = TRUE]
             loading == [shown EXCEPT !.frame = "loading"]
  <2>1. TabbyInv(shown) /\ TabbyInv(loading)
    BY DEF TabbyInv, TabbyShape
  <2>2. page' = Terminal!SyncDevice(loading, adb) \/ page' = shown
    BY <1>1 DEF Terminal!AttachTabbyFrame
  <2> HIDE DEF shown, loading
  <2> QED
    BY <2>1, <2>2, DeviceSynced DEF TabbyInv
<1>2. CASE Terminal!DetachTabbyFrame
  BY <1>2 DEF Terminal!DetachTabbyFrame, TabbyInv, TabbyShape
<1>3. CASE Terminal!Start
  BY <1>3 DEF Terminal!Start, TabbyInv, TabbyShape
<1>4. CASE Terminal!Ready
  <2> DEFINE t == [page EXCEPT !.ready = FALSE]
  <2>1. TabbyShape(t) /\ t.ready = FALSE /\ t.frame # "none"
    BY <1>4 DEF Terminal!Ready, TabbyInv, TabbyShape
  <2>2. page' = Terminal!SyncDevice(t, adb)
    BY <1>4 DEF Terminal!Ready
  <2> HIDE DEF t
  <2> QED
    BY <2>1, <2>2, DeviceSynced
<1>5. CASE Terminal!AdbConnect
  <2> DEFINE q == page.inbox
             h == Head(q)
             r == Tail(q)
  <2>1. q # <<>> /\ page' = [page EXCEPT !.adbState = h, !.inbox = r]
    BY <1>5 DEF Terminal!AdbConnect
  <2>2. /\ r \in Messages
        /\ r = <<>> => h = q[Len(q)]
        /\ r # <<>> => r[Len(r)] = q[Len(q)]
    <3>1. q \in Seq([port : Nat, conn : Nat])
      BY DEF TabbyInv, TabbyShape, Messages
    <3> QED
      BY <2>1, <3>1, LastOfTail DEF Messages
  <2> HIDE DEF h, r
  <2> QED
    BY <2>1, <2>2 DEF TabbyInv, TabbyShape
<1>6. CASE \E v : page' = [page EXCEPT !.tab = v] \/ page' = [page EXCEPT !.saved = v]
                  \/ page' = page
  BY <1>6 DEF TabbyInv, TabbyShape
<1>7. CASE Terminal!SlotChanges
  BY <1>7, DeviceSynced DEF Terminal!SlotChanges, TabbyInv
<1>8. CASE Terminal!StartSession \/ Terminal!Kill \/ Terminal!SaveConfig
  BY <1>6, <1>8 DEF Terminal!StartSession, Terminal!Kill, Terminal!SaveConfig
<1>9. CASE Terminal!ShellOpens \/ Terminal!ShellFails \/ Terminal!Disconnected
  BY <1>9 DEF Terminal!ShellOpens, Terminal!ShellFails, Terminal!Disconnected,
     TabbyInv, TabbyShape
<1> QED
  BY <1>1, <1>2, <1>3, <1>4, <1>5, <1>7, <1>8, <1>9 DEF Terminal!TabbyStep

-----------------------------------------------------------------------------
(* The types of the pages: each is a record, whatever its steps do to it.  *)
(* The slot is that of the pages (SlotTypeOK), and holds none or one of    *)
(* the connections.                                                        *)

LEMMA SlotStaysTyped ==
  ASSUME SlotTypeOK, Visible
  PROVE  SlotTypeOK'
<1> USE MaxConnectionsAssumption DEF SlotTypeOK, Connections
<1>1. CASE UNCHANGED slotVars
  BY <1>1 DEF slotVars
<1>2. ASSUME NEW c \in Connections, SlotStep(c)
      PROVE  SlotTypeOK'
  BY <1>2 DEF SlotStep, Attach, Lose, Clear
<1> QED
  BY <1>1, <1>2 DEF Visible, SlotNext

DevicesOrNone == 0 .. MaxConnections

LEMMA DeviceInSlot ==
  /\ 0 \in DevicesOrNone
  /\ \A c \in Connections : c \in DevicesOrNone
  /\ \A d \in DevicesOrNone : d # 0 => d \in Connections
BY MaxConnectionsAssumption DEF DevicesOrNone, Connections

FileStates ==
  [initial : BOOLEAN, visible : BOOLEAN, path : Paths, loading : BOOLEAN,
   items : SUBSET Paths, runs : SUBSET Files!Run, selectedItems : BOOLEAN,
   selectionBound : BOOLEAN, uploading : BOOLEAN, op : Files!Operation,
   uploads : [Files!Uploads -> Files!Upload]]

LEMMA NothingDone == Files!NoOp \in Files!Operation /\ Files!NoUpload \in Files!Upload
BY DeviceInSlot, Zenon DEF Files!NoOp, Files!Operation, Files!NoUpload, Files!Upload, DevicesOrNone

LEMMA RunsAborted ==
  ASSUME NEW runs \in SUBSET Files!Run
  PROVE  Files!Abort(runs) \in SUBSET Files!Run
<1> SUFFICES ASSUME NEW r \in runs PROVE [r EXCEPT !.aborted = TRUE] \in Files!Run
  BY Zenon DEF Files!Abort
<1>1. r \in Files!Run
  OBVIOUS
<1> QED
  BY <1>1, Zenon DEF Files!Run

LEMMA LoadTyped ==
  ASSUME NEW f \in FileStates, NEW device \in DevicesOrNone
  PROVE  Files!Load(f, device) \in FileStates
<1> DEFINE e == Files!Emptied(f)
           a == [e EXCEPT !.runs = Files!Abort(@)]
           new == [path |-> f.path, conn |-> device, aborted |-> FALSE, phase |-> "opening"]
           l == [a EXCEPT !.loading = TRUE, !.runs = @ \cup {new}]
<1>1. e \in FileStates
  <2> DEFINE s == f.selectedItems /\ ~f.selectionBound
  <2>1. s \in BOOLEAN
    OBVIOUS
  <2>2. e = [f EXCEPT !.items = {}, !.selectedItems = s]
    BY Zenon DEF Files!Emptied
  <2> HIDE DEF s
  <2> QED
    BY <2>1, <2>2, Zenon DEF FileStates
<1> HIDE DEF e
<1>2. a \in FileStates
  <2> DEFINE rs == Files!Abort(e.runs)
  <2>1. rs \in SUBSET Files!Run
    BY <1>1, RunsAborted, Zenon DEF FileStates
  <2>2. a = [e EXCEPT !.runs = rs]
    BY Zenon
  <2> HIDE DEF rs
  <2> QED
    BY <1>1, <2>1, <2>2, Zenon DEF FileStates
<1> HIDE DEF a
<1>3. ASSUME device # 0
      PROVE  l \in FileStates
  <2> DEFINE rs == a.runs \cup {new}
  <2>1. new \in Files!Run
    <3>1. device \in Files!Connections
      BY <1>3, DeviceInSlot DEF Files!Connections, Connections
    <3> QED
      BY <3>1, Zenon DEF Files!Run, FileStates
  <2>2. rs \in SUBSET Files!Run
    <3>1. a.runs \in SUBSET Files!Run
      BY <1>2, Zenon DEF FileStates
    <3> QED
      BY <2>1, <3>1, Zenon
  <2>3. l = [a EXCEPT !.loading = TRUE, !.runs = rs]
    BY Zenon
  <2> HIDE DEF rs
  <2> QED
    BY <1>2, <2>2, <2>3, Zenon DEF FileStates
<1>4. Files!Load(f, device) = IF device = 0 THEN a ELSE l
  BY Zenon DEF Files!Load, a, e
<1> QED
  BY <1>2, <1>3, <1>4, Zenon

LEMMA AutorunTyped ==
  ASSUME adb' \in DevicesOrNone, NEW f \in FileStates, Files!Becomes(f)
  PROVE  page' \in FileStates
<1>1. [f EXCEPT !.initial = TRUE] \in FileStates /\ [f EXCEPT !.initial = FALSE] \in FileStates
  BY Zenon DEF FileStates
<1> QED
  BY <1>1, LoadTyped, Zenon DEF Files!Becomes, Files!Autorun

LEMMA RunsTyped ==
  ASSUME page \in FileStates, adb' \in DevicesOrNone,
         NEW r \in page.runs, Files!RunStep(r)
  PROVE  page' \in FileStates
<1>1. r \in Files!Run /\ r.path \in Paths
  BY Zenon DEF FileStates, Files!Run
<1>2. \A found \in Files!Found(r) : [page EXCEPT !.items = found] \in FileStates
  <2> TAKE found \in Files!Found(r)
  <2>1. found \in SUBSET Paths
    BY <1>1, Zenon DEF Files!Found
  <2> QED
    BY <2>1, Zenon DEF FileStates
<1>3. ASSUME NEW s \in SUBSET Files!Run, NEW f \in FileStates
      PROVE  [f EXCEPT !.runs = s] \in FileStates
  BY <1>3, Zenon DEF FileStates
<1>4. ASSUME NEW f \in FileStates
      PROVE  Files!RunEnds(f, r) \in FileStates
  <2> DEFINE s == f.runs \ {r}
             b == IF r.aborted THEN f.loading ELSE FALSE
  <2>1. s \in SUBSET Files!Run /\ b \in BOOLEAN
    BY Zenon DEF FileStates
  <2>2. Files!RunEnds(f, r) = [f EXCEPT !.runs = s, !.loading = b]
    BY Zenon DEF Files!RunEnds
  <2> HIDE DEF s, b
  <2> QED
    BY <2>1, <2>2, Zenon DEF FileStates
<1>5. CASE Files!RunOpened(r)
  <2> DEFINE y == [r EXCEPT !.phase = "listing"]
             s == (page.runs \ {r}) \cup {y}
  <2>1. y \in Files!Run
    BY <1>1, Zenon DEF Files!Run
  <2>2. s \in SUBSET Files!Run
    BY <2>1, Zenon DEF FileStates
  <2>3. Files!Becomes([page EXCEPT !.runs = s])
    BY <1>5, Zenon DEF Files!RunOpened, Files!Replace
  <2> HIDE DEF s
  <2> QED
    BY <1>3, <2>2, <2>3, AutorunTyped, Zenon
<1>6. CASE Files!RunNotOpened(r)
  <2>1. page.runs \ {r} \in SUBSET Files!Run
    BY Zenon DEF FileStates
  <2>2. Files!Becomes([page EXCEPT !.runs = page.runs \ {r}])
    BY <1>6, Zenon DEF Files!RunNotOpened
  <2> QED
    BY <1>3, <2>1, <2>2, AutorunTyped, Zenon
<1>7. CASE Files!RunTick(r)
  BY <1>2, <1>7, AutorunTyped, Zenon DEF Files!RunTick
<1>8. CASE Files!RunDone(r)
  <2>1. PICK found \in Files!Found(r) :
          Files!Becomes(Files!RunEnds([page EXCEPT !.items = IF r.aborted THEN @ ELSE found], r))
    BY <1>8, Zenon DEF Files!RunDone
  <2> DEFINE i == IF r.aborted THEN page.items ELSE found
  <2>2. i \in SUBSET Paths
    BY <1>1, Zenon DEF Files!Found, FileStates
  <2>3. Files!Becomes(Files!RunEnds([page EXCEPT !.items = i], r))
    BY <2>1, Zenon
  <2> HIDE DEF i
  <2>4. [page EXCEPT !.items = i] \in FileStates
    BY <2>2, Zenon DEF FileStates
  <2> QED
    BY <1>4, <2>3, <2>4, AutorunTyped, Zenon
<1>9. CASE Files!RunFails(r)
  BY <1>4, <1>9, AutorunTyped, Zenon DEF Files!RunFails
<1> QED
  BY <1>5, <1>6, <1>7, <1>8, <1>9, Zenon DEF Files!RunStep

\* What the operation of the user is set to.
LEMMA OpsTyped ==
  ASSUME NEW f \in FileStates
  PROVE  /\ \A o \in Files!Operation : [f EXCEPT !.op = o] \in FileStates
         /\ \A kind \in {"none", "delete", "download", "preview"},
               phase \in {"idle", "opening", "working", "shown"},
               device \in DevicesOrNone :
                 Files!Doing(kind, phase, device) \in Files!Operation
<1>1. \A o \in Files!Operation : [f EXCEPT !.op = o] \in FileStates
  BY Zenon DEF FileStates
<1> QED
  BY <1>1, Zenon DEF Files!Doing, Files!Operation, DevicesOrNone

LEMMA DeleteTyped ==
  ASSUME page \in FileStates, adb \in DevicesOrNone, adb' \in DevicesOrNone,
         Files!Delete \/ Files!Removed \/ Files!NotRemoved
  PROVE  page' \in FileStates
<1>1. Files!DeleteEnds(page) \in FileStates
  BY OpsTyped, NothingDone, LoadTyped, Zenon DEF Files!DeleteEnds
<1>2. [page EXCEPT !.op = Files!Doing("delete", "working", adb)] \in FileStates
  BY OpsTyped, Zenon
<1>3. CASE Files!NextDelete
  BY <1>1, <1>2, <1>3, AutorunTyped, Zenon DEF Files!NextDelete
<1> QED
  BY <1>1, <1>3, AutorunTyped, Zenon DEF Files!Delete, Files!Removed, Files!NotRemoved

LEMMA UploadTyped ==
  ASSUME page \in FileStates, adb \in DevicesOrNone, adb' \in DevicesOrNone,
         NEW u \in Files!Uploads,
         Files!UploadStep(u) \/ Files!Uploaded(u) \/ Files!UploadFails(u)
  PROVE  page' \in FileStates
<1>1. ASSUME NEW f \in FileStates, NEW x \in Files!Upload
      PROVE  [f EXCEPT !.uploads[u] = x] \in FileStates
  <2> DEFINE us == [f.uploads EXCEPT ![u] = x]
  <2>1. us \in [Files!Uploads -> Files!Upload]
    BY <1>1, Zenon DEF FileStates
  <2>2. [f EXCEPT !.uploads[u] = x] = [f EXCEPT !.uploads = us]
    BY Zenon
  <2> HIDE DEF us
  <2> QED
    BY <2>1, <2>2, Zenon DEF FileStates
<1>2. page.uploads \in [Files!Uploads -> Files!Upload]
  BY Zenon DEF FileStates
<1>3. ASSUME NEW f \in FileStates
      PROVE  Files!NextUpload(f, u) \in FileStates /\ Files!UploadEnds(f) \in FileStates
  <2> DEFINE x == IF adb = 0 THEN Files!NoUpload
                  ELSE [phase |-> "opening", conn |-> adb, alone |-> TRUE]
             l == Files!Load(f, adb)
  <2>1. x \in Files!Upload
    BY NothingDone, Zenon DEF Files!Upload, DevicesOrNone
  <2>2. Files!NextUpload(f, u) = [f EXCEPT !.uploads[u] = x]
    BY Zenon DEF Files!NextUpload
  <2>3. l \in FileStates
    BY LoadTyped, Zenon
  <2> HIDE DEF x, l
  <2>4. [l EXCEPT !.uploading = FALSE] \in FileStates
    BY <2>3, Zenon DEF FileStates
  <2> QED
    BY <1>1, <2>1, <2>2, <2>4, Zenon DEF Files!UploadEnds, l
<1>4. CASE Files!Uploaded(u) \/ Files!UploadFails(u)
  <2>1. Files!AfterUpload(u)
    BY <1>4, Zenon DEF Files!Uploaded, Files!UploadFails
  <2> DEFINE e == Files!UploadEnds(page)
  <2>2. e \in FileStates
    BY <1>3, Zenon
  <2>3. [e EXCEPT !.uploads[u] = Files!NoUpload] \in FileStates /\ Files!NextUpload(e, u) \in FileStates
    BY <1>1, <1>3, <2>2, NothingDone, Zenon
  <2> QED
    BY <2>1, <2>3, AutorunTyped, Zenon DEF Files!AfterUpload
<1>5. CASE Files!UploadOpened(u)
  <2> DEFINE us == Files!Sends(u)
  <2>1. us \in [Files!Uploads -> Files!Upload]
    <3>1. \A b \in BOOLEAN :
            [page.uploads[u] EXCEPT !.phase = "working", !.alone = b] \in Files!Upload
      BY <1>2, Zenon DEF Files!Upload
    <3>2. \A v \in Files!Uploads : [page.uploads[v] EXCEPT !.alone = FALSE] \in Files!Upload
      BY <1>2, Zenon DEF Files!Upload
    <3> DEFINE none == {v \in Files!Uploads : v # u /\ Files!UploadIs(v, "working")} = {}
    <3>3. none \in BOOLEAN
      OBVIOUS
    <3>4. [page.uploads[u] EXCEPT !.phase = "working", !.alone = none] \in Files!Upload
      BY <3>1, <3>3, Zenon
    <3> QED
      BY <1>2, <3>2, <3>4, Zenon DEF Files!Sends
  <2>2. Files!Becomes([page EXCEPT !.uploads = us, !.uploading = TRUE])
    BY <1>5, Zenon DEF Files!UploadOpened
  <2> HIDE DEF us
  <2>3. [page EXCEPT !.uploads = us, !.uploading = TRUE] \in FileStates
    BY <2>1, Zenon DEF FileStates
  <2> QED
    BY <2>2, <2>3, AutorunTyped, Zenon
<1>6. CASE Files!PickFiles(u)
  <2> DEFINE x == [page.uploads[u] EXCEPT !.phase = "picking"]
  <2>1. x \in Files!Upload
    BY <1>2, Zenon DEF Files!Upload
  <2>2. Files!Becomes([page EXCEPT !.uploads[u] = x])
    BY <1>6, Zenon DEF Files!PickFiles
  <2> HIDE DEF x
  <2> QED
    BY <1>1, <2>1, <2>2, AutorunTyped, Zenon
<1>7. CASE Files!PickCancelled(u) \/ Files!UploadNotOpened(u)
  <2>1. [page EXCEPT !.uploads[u] = Files!NoUpload] \in FileStates
    BY <1>1, NothingDone, Zenon
  <2> QED
    BY <1>7, <2>1, AutorunTyped, Zenon DEF Files!PickCancelled, Files!UploadNotOpened
<1>8. CASE Files!FilesPicked(u)
  BY <1>3, <1>8, AutorunTyped, Zenon DEF Files!FilesPicked
<1> QED
  BY <1>4, <1>5, <1>6, <1>7, <1>8, Zenon DEF Files!UploadStep

LEMMA ReadTyped ==
  ASSUME page \in FileStates, adb \in DevicesOrNone, adb' \in DevicesOrNone,
         \/ Files!Download \/ Files!DownloadOpened \/ Files!Downloaded \/ Files!DownloadFails
         \/ Files!PreviewImage \/ Files!PreviewRead \/ Files!HidePreview
         \/ Files!SessionNotOpened
  PROVE  page' \in FileStates
<1> DEFINE some == [page.op EXCEPT !.phase = "working"]
           opened == IF Files!NothingSelected THEN Files!NoOp ELSE some
           read == IF page.visible THEN Files!Doing("preview", "shown", 0) ELSE Files!NoOp
<1>1. Files!Becomes([page EXCEPT !.op = opened]) \/ ~Files!DownloadOpened
  BY Zenon DEF Files!DownloadOpened
<1>2. opened \in Files!Operation
  <2>1. some \in Files!Operation
    BY Zenon DEF FileStates, Files!Operation
  <2> QED
    BY <2>1, NothingDone, Zenon
<1>3. read \in Files!Operation
  BY OpsTyped, NothingDone, DeviceInSlot, Zenon
<1>4. \E o \in Files!Operation : Files!Becomes([page EXCEPT !.op = o])
  <2>1. CASE Files!DownloadOpened
    BY <1>1, <1>2, <2>1, Zenon
  <2>2. CASE Files!PreviewRead
    BY <1>3, <2>2, Zenon DEF Files!PreviewRead
  <2>3. CASE Files!Download
    BY <2>3, OpsTyped, Zenon DEF Files!Download
  <2>4. CASE Files!PreviewImage
    BY <2>4, OpsTyped, Zenon DEF Files!PreviewImage
  <2>5. CASE Files!Downloaded \/ Files!DownloadFails \/ Files!HidePreview \/ Files!SessionNotOpened
    BY <2>5, NothingDone, Zenon DEF Files!Downloaded, Files!DownloadFails,
       Files!HidePreview, Files!SessionNotOpened
  <2> QED
    BY <2>1, <2>2, <2>3, <2>4, <2>5
<1> QED
  BY <1>4, OpsTyped, AutorunTyped, Zenon

LEMMA FilesTyped ==
  ASSUME page \in FileStates, adb \in DevicesOrNone, adb' \in DevicesOrNone, Files!FilesStep
  PROVE  page' \in FileStates
<1>1. CASE Files!ShowPage
  <2>1. [page EXCEPT !.visible = TRUE, !.selectionBound = FALSE] \in FileStates
    BY Zenon DEF FileStates
  <2> QED
    BY <1>1, <2>1, AutorunTyped, Zenon DEF Files!ShowPage
<1>2. CASE Files!HidePage
  <2> DEFINE o == IF Files!OpIs("preview", "shown") THEN Files!NoOp ELSE page.op
  <2>1. o \in Files!Operation
    BY NothingDone, Zenon DEF FileStates
  <2>2. Files!Becomes([page EXCEPT !.visible = FALSE, !.op = o])
    BY <1>2, Zenon DEF Files!HidePage
  <2> HIDE DEF o
  <2>3. [page EXCEPT !.visible = FALSE, !.op = o] \in FileStates
    BY <2>1, Zenon DEF FileStates
  <2> QED
    BY <2>2, <2>3, AutorunTyped, Zenon
<1>3. ASSUME NEW p \in Paths, Files!ChangeDirectory(p)
      PROVE  page' \in FileStates
  <2> DEFINE f == [page EXCEPT !.path = p]
  <2>1. f \in FileStates
    BY Zenon DEF FileStates
  <2>2. Files!Becomes(IF adb = 0 THEN f ELSE Files!Load(f, adb))
    BY <1>3, Zenon DEF Files!ChangeDirectory
  <2> HIDE DEF f
  <2> QED
    BY <2>1, <2>2, LoadTyped, AutorunTyped, Zenon
<1>4. CASE Files!Select
  <2>1. [page EXCEPT !.selectedItems = TRUE, !.selectionBound = TRUE] \in FileStates
    BY Zenon DEF FileStates
  <2> QED
    BY <1>4, <2>1, AutorunTyped, Zenon DEF Files!Select
<1>5. CASE Files!Unselect
  <2>1. [page EXCEPT !.selectedItems = FALSE] \in FileStates
    BY Zenon DEF FileStates
  <2> QED
    BY <1>5, <2>1, AutorunTyped, Zenon DEF Files!Unselect
<1>6. CASE Files!Becomes(page)
  BY <1>6, AutorunTyped, Zenon
<1>7. CASE \E r \in page.runs : Files!RunStep(r)
  BY <1>7, RunsTyped, Zenon
<1> QED
  BY <1>1, <1>2, <1>3, <1>4, <1>5, <1>6, <1>7, DeleteTyped, UploadTyped, ReadTyped, Zenon
     DEF Files!FilesStep, Files!UploadSettles

\* ADB over WiFi.
TcpStates ==
  [initial : BOOLEAN, visible : BOOLEAN, listening : BOOLEAN, servicePortEnabled : BOOLEAN,
   persistPortEnabled : BOOLEAN, persistPort : BOOLEAN, queries : SUBSET Tcp!Query,
   applying : BOOLEAN]

LEMMA QueryTyped ==
  ASSUME NEW t \in TcpStates, NEW device \in DevicesOrNone
  PROVE  Tcp!QueryInfo(t, device) \in TcpStates
<1> DEFINE a == Tcp!Abort(t.queries)
           q == [aborted |-> FALSE, asks |-> "listen", conn |-> device, listen |-> FALSE,
                 service |-> "none"]
<1>1. a \in SUBSET Tcp!Query
  <2> SUFFICES ASSUME NEW r \in t.queries PROVE [r EXCEPT !.aborted = TRUE] \in Tcp!Query
    BY Zenon DEF Tcp!Abort
  <2>1. r \in Tcp!Query
    BY Zenon DEF TcpStates
  <2> QED
    BY <2>1, Zenon DEF Tcp!Query
<1>2. CASE device = 0
  <2>1. Tcp!QueryInfo(t, device) = [t EXCEPT !.queries = a, !.listening = FALSE,
                                             !.servicePortEnabled = FALSE,
                                             !.persistPortEnabled = FALSE, !.persistPort = FALSE]
    BY <1>2, Zenon DEF Tcp!QueryInfo
  <2> HIDE DEF a
  <2> QED
    BY <1>1, <2>1, Zenon DEF TcpStates
<1>3. CASE device # 0
  <2>1. q \in Tcp!Query
    <3>1. device \in Tcp!Connections
      BY <1>3, DeviceInSlot DEF Tcp!Connections, Connections
    <3> QED
      BY <3>1, Zenon DEF Tcp!Query, Tcp!Ports
  <2> DEFINE qs == a \cup {q}
  <2>2. qs \in SUBSET Tcp!Query
    BY <1>1, <2>1, Zenon
  <2>3. Tcp!QueryInfo(t, device) = [t EXCEPT !.queries = qs]
    BY <1>3, Zenon DEF Tcp!QueryInfo, Tcp!Started
  <2> HIDE DEF qs
  <2> QED
    BY <2>2, <2>3, Zenon DEF TcpStates
<1> QED
  BY <1>2, <1>3

LEMMA PortsSettleTyped ==
  ASSUME adb' \in DevicesOrNone, NEW t \in TcpStates, Tcp!Becomes(t)
  PROVE  page' \in TcpStates
<1>1. [t EXCEPT !.initial = TRUE] \in TcpStates /\ [t EXCEPT !.initial = FALSE] \in TcpStates
  BY Zenon DEF TcpStates
<1> QED
  BY <1>1, QueryTyped, Zenon DEF Tcp!Becomes

LEMMA TcpTyped ==
  ASSUME page \in TcpStates, adb \in DevicesOrNone, adb' \in DevicesOrNone, Tcp!TcpIpStep
  PROVE  page' \in TcpStates
<1>1. \A qs \in SUBSET Tcp!Query : [page EXCEPT !.queries = qs] \in TcpStates
  BY Zenon DEF TcpStates
<1>2. CASE \/ Tcp!ShowPage \/ Tcp!HidePage \/ Tcp!ApplyServicePort \/ Tcp!Applied
           \/ Tcp!HandleServicePortEnabledChange
  <2>1. PICK b \in BOOLEAN : \/ Tcp!Becomes([page EXCEPT !.visible = b])
                             \/ Tcp!Becomes([page EXCEPT !.applying = b])
                             \/ Tcp!Becomes([page EXCEPT !.servicePortEnabled = b])
    <3>1. page.servicePortEnabled \in BOOLEAN
      BY Zenon DEF TcpStates
    <3>2. (~page.servicePortEnabled) \in BOOLEAN
      BY <3>1, Zenon
    <3> QED
      BY <1>2, <3>2, Zenon DEF Tcp!ShowPage, Tcp!HidePage, Tcp!ApplyServicePort, Tcp!Applied,
         Tcp!HandleServicePortEnabledChange
  <2>2. /\ [page EXCEPT !.visible = b] \in TcpStates
        /\ [page EXCEPT !.applying = b] \in TcpStates
        /\ [page EXCEPT !.servicePortEnabled = b] \in TcpStates
    BY Zenon DEF TcpStates
  <2> QED
    BY <2>1, <2>2, PortsSettleTyped, Zenon
<1>3. CASE Tcp!Refresh
  BY <1>3, QueryTyped, PortsSettleTyped, Zenon DEF Tcp!Refresh
<1>4. CASE Tcp!Becomes(page)
  BY <1>4, PortsSettleTyped, Zenon
<1>5. ASSUME NEW q \in page.queries, Tcp!Answered(q)
      PROVE  page' \in TcpStates
  <2>1. q \in Tcp!Query
    BY Zenon DEF TcpStates
  <2>2. PICK next \in Tcp!Query : Tcp!Asks(q, next)
    <3>1. \A l \in BOOLEAN : [q EXCEPT !.asks = "service", !.listen = l] \in Tcp!Query
      BY <2>1, Zenon DEF Tcp!Query
    <3>2. \A p \in Tcp!Ports : [q EXCEPT !.asks = "persist", !.service = p] \in Tcp!Query
      BY <2>1, Zenon DEF Tcp!Query
    <3> QED
      BY <1>5, <3>1, <3>2, Zenon DEF Tcp!Answered
  <2> DEFINE new == [next EXCEPT !.conn = adb]
             qs == IF adb = 0 THEN page.queries \ {q} ELSE (page.queries \ {q}) \cup {new}
  <2>3. adb # 0 => new \in Tcp!Query
    <3>1. adb # 0 => adb \in Tcp!Connections
      BY DeviceInSlot DEF Tcp!Connections, Connections
    <3> QED
      BY <3>1, Zenon DEF Tcp!Query
  <2>4. Tcp!Becomes([page EXCEPT !.queries = qs])
    BY <2>2, Zenon DEF Tcp!Asks, Tcp!Replace
  <2> HIDE DEF new
  <2>5. page.queries \in SUBSET Tcp!Query
    BY Zenon DEF TcpStates
  <2>6. qs \in SUBSET Tcp!Query
    BY <2>3, <2>5, Zenon
  <2> HIDE DEF qs
  <2> QED
    BY <1>1, <2>4, <2>6, PortsSettleTyped, Zenon
<1>6. ASSUME NEW q \in page.queries, Tcp!Queried(q) \/ Tcp!QueryFails(q)
      PROVE  page' \in TcpStates
  <2> DEFINE qs == page.queries \ {q}
             over == [page EXCEPT !.queries = qs]
  <2>1. q \in Tcp!Query /\ qs \in SUBSET Tcp!Query
    BY Zenon DEF TcpStates
  <2>2. over \in TcpStates
    BY <1>1, <2>1, Zenon
  <2>3. CASE Tcp!Becomes(over)
    BY <2>2, <2>3, PortsSettleTyped, Zenon
  <2>4. CASE ~Tcp!Becomes(over)
    <3> DEFINE on == ~q.listen /\ q.service = "on"
    <3>1. PICK persist \in BOOLEAN :
                Tcp!Becomes([over EXCEPT
                    !.listening = q.listen, !.servicePortEnabled = on,
                    !.persistPortEnabled = persist /\ ~q.listen /\ q.service = "none",
                    !.persistPort = persist])
      BY <1>6, <2>4, Zenon DEF Tcp!Queried, Tcp!QueryFails
    <3> DEFINE kept == persist /\ ~q.listen /\ q.service = "none"
    <3>2. q.listen \in BOOLEAN
      BY <2>1, Zenon DEF Tcp!Query
    <3>3. on \in BOOLEAN
      BY Zenon
    <3>4. kept \in BOOLEAN
      BY Zenon
    <3> HIDE DEF over, on, kept
    <3>5. [over EXCEPT !.listening = q.listen, !.servicePortEnabled = on,
                       !.persistPortEnabled = kept, !.persistPort = persist] \in TcpStates
      BY <2>2, <3>2, <3>3, <3>4, Zenon DEF TcpStates
    <3> QED
      BY <3>1, <3>5, PortsSettleTyped, Zenon DEF kept
  <2> QED
    BY <2>3, <2>4
<1> QED
  BY <1>2, <1>3, <1>4, <1>5, <1>6, Zenon DEF Tcp!TcpIpStep

\* An installation.
InstallStates ==
  [installing : BOOLEAN, stage : {"none", "Uploading", "Installing", "Completed"}, log : BOOLEAN,
   bypass : BOOLEAN, at : {"idle", "picking", "sending", "logging"}, conn : DevicesOrNone]

LEMMA InstallTyped ==
  ASSUME page \in InstallStates, adb \in DevicesOrNone, Apk!InstallStep
  PROVE  page' \in InstallStates
<1> USE DeviceInSlot
<1>1. CASE Apk!SetBypass
  <2>1. page.bypass \in BOOLEAN
    BY Zenon DEF InstallStates
  <2>2. (~page.bypass) \in BOOLEAN
    BY <2>1, Zenon
  <2>3. \A b \in BOOLEAN : [page EXCEPT !.bypass = b] \in InstallStates
    BY Zenon DEF InstallStates
  <2> QED
    BY <1>1, <2>2, <2>3, Zenon DEF Apk!SetBypass
<1>2. CASE Apk!Click \/ Apk!NotPicked \/ Apk!Sent
  BY <1>2, Zenon DEF Apk!Click, Apk!NotPicked, Apk!Sent, InstallStates
<1>3. CASE Apk!Picked
  <2> DEFINE at == IF adb = 0 THEN "idle" ELSE "sending"
  <2>1. at \in {"idle", "picking", "sending", "logging"}
    BY Zenon
  <2>2. page' = [page EXCEPT !.installing = TRUE, !.stage = "Uploading", !.log = FALSE,
                             !.conn = adb, !.at = at]
    BY <1>3, Zenon DEF Apk!Picked
  <2> HIDE DEF at
  <2> QED
    BY <2>1, <2>2, Zenon DEF InstallStates
<1>4. CASE Apk!Progress \/ Apk!Logged
  BY <1>4, Zenon DEF Apk!Progress, Apk!Logged, InstallStates
<1>5. CASE Apk!Installed
  BY <1>5, Zenon DEF Apk!Installed, InstallStates
<1>6. CASE Apk!InstallFails
  BY <1>6, Zenon DEF Apk!InstallFails, InstallStates
<1> QED
  BY <1>1, <1>2, <1>3, <1>4, <1>5, <1>6, Zenon DEF Apk!InstallStep

\* Reports.
ReportStates ==
  [bugReport : Bugs!Capabilities \cup {Bugs!NoReport}, queries : SUBSET Connections,
   streams : SUBSET Connections, bugReportZInProgress : BOOLEAN, bugReportZProgress : BOOLEAN,
   zs : SUBSET Bugs!Z]

LEMMA ReportsTyped ==
  ASSUME page \in ReportStates, adb \in DevicesOrNone, adb' \in DevicesOrNone,
         Bugs!BugReportStep
  PROVE  page' \in ReportStates
<1> Bugs!Connections = Connections
  BY DEF Bugs!Connections, Connections
<1>1. /\ \A qs \in SUBSET Connections : [page EXCEPT !.queries = qs] \in ReportStates
      /\ \A ss \in SUBSET Connections : [page EXCEPT !.streams = ss] \in ReportStates
      /\ \A zs \in SUBSET Bugs!Z : [page EXCEPT !.zs = zs] \in ReportStates
  BY Zenon DEF ReportStates
<1>2. /\ page.queries \in SUBSET Connections /\ page.streams \in SUBSET Connections
      /\ page.zs \in SUBSET Bugs!Z
  BY Zenon DEF ReportStates
<1>3. ASSUME NEW c \in Connections, Bugs!Capable(c)
      PROVE  page' \in ReportStates
  <2>1. PICK r \in Bugs!Capabilities :
              page' = [page EXCEPT !.queries = page.queries \ {c}, !.bugReport = r]
    BY <1>3, Zenon DEF Bugs!Capable
  <2>2. page.queries \ {c} \in SUBSET Connections
    BY <1>2, Zenon
  <2> QED
    BY <2>1, <2>2, Zenon DEF ReportStates
<1>4. ASSUME NEW c \in Connections, Bugs!NotCapable(c) \/ Bugs!StreamEnds(c)
      PROVE  page' \in ReportStates
  <2>1. page.queries \ {c} \in SUBSET Connections /\ page.streams \ {c} \in SUBSET Connections
    BY <1>2, Zenon
  <2> QED
    BY <1>1, <1>4, <2>1, Zenon DEF Bugs!NotCapable, Bugs!StreamEnds
<1>5. Bugs!HasReport => page.bugReport \in Bugs!Capabilities /\ page.bugReport.conn \in Connections
  <2>1. page.bugReport \in Bugs!Capabilities \cup {Bugs!NoReport}
    BY Zenon DEF ReportStates
  <2>2. Bugs!NoReport.conn = 0
    BY DEF Bugs!NoReport
  <2>3. Bugs!HasReport => page.bugReport \in Bugs!Capabilities
    BY <2>1, <2>2, Zenon DEF Bugs!HasReport
  <2> QED
    BY <2>3, Zenon DEF Bugs!Capabilities
<1>6. CASE Bugs!GenerateBugReport \/ Bugs!GenerateBugReportZStream
  <2> DEFINE ss == page.streams \cup {page.bugReport.conn}
  <2>1. Bugs!HasReport /\ page' = [page EXCEPT !.streams = ss]
    BY <1>6, Zenon DEF Bugs!GenerateBugReport, Bugs!GenerateBugReportZStream
  <2>2. ss \in SUBSET Connections
    BY <1>2, <1>5, <2>1, Zenon
  <2> HIDE DEF ss
  <2> QED
    BY <1>1, <2>1, <2>2, Zenon
<1>7. CASE Bugs!GenerateBugReportZ
  <2> DEFINE z == [at |-> "making", conn |-> page.bugReport.conn,
                   progress |-> page.bugReport.progress]
             zs == page.zs \cup {z}
  <2>1. Bugs!HasReport /\ page' = [page EXCEPT !.bugReportZInProgress = TRUE, !.zs = zs]
    BY <1>7, Zenon DEF Bugs!GenerateBugReportZ
  <2>2. z \in Bugs!Z
    <3>1. page.bugReport.progress \in BOOLEAN
      BY <1>5, <2>1, Zenon DEF Bugs!Capabilities
    <3> QED
      BY <1>5, <2>1, <3>1, Zenon DEF Bugs!Z
  <2> HIDE DEF z
  <2>3. zs \in SUBSET Bugs!Z
    BY <1>2, <2>2, Zenon
  <2> HIDE DEF zs
  <2> QED
    BY <2>1, <2>3, Zenon DEF ReportStates
<1>8. ASSUME NEW z \in page.zs,
             Bugs!ZProgress(z) \/ Bugs!ZMade(z) \/ Bugs!ZOpened(z) \/ Bugs!ZRead(z) \/ Bugs!ZFails(z)
      PROVE  page' \in ReportStates
  <2>1. z \in Bugs!Z
    BY <1>2, Zenon
  <2>2. ASSUME NEW next \in SUBSET Bugs!Z, Bugs!Goes(z, next)
        PROVE  page' \in ReportStates
    <3>1. (page.zs \ {z}) \cup next \in SUBSET Bugs!Z
      BY <1>2, Zenon
    <3> QED
      BY <1>1, <2>2, <3>1, Zenon DEF Bugs!Goes
  <2>3. adb # 0 => [z EXCEPT !.at = "opening", !.conn = adb] \in Bugs!Z
    BY <2>1, DeviceInSlot, Zenon DEF Bugs!Z
  <2>4. [z EXCEPT !.at = "reading"] \in Bugs!Z
    BY <2>1, Zenon DEF Bugs!Z
  <2>5. CASE Bugs!ZMade(z)
    <3> DEFINE next == IF adb = 0 THEN {} ELSE {[z EXCEPT !.at = "opening", !.conn = adb]}
    <3>1. next \in SUBSET Bugs!Z /\ Bugs!Goes(z, next)
      BY <2>3, <2>5, Zenon DEF Bugs!ZMade
    <3> HIDE DEF next
    <3> QED
      BY <2>2, <3>1, Zenon
  <2>6. CASE Bugs!ZOpened(z)
    BY <2>2, <2>4, <2>6, Zenon DEF Bugs!ZOpened
  <2>7. CASE Bugs!ZFails(z)
    BY <2>2, <2>7, Zenon DEF Bugs!ZFails
  <2>8. CASE Bugs!ZProgress(z)
    BY <2>8, Zenon DEF Bugs!ZProgress, ReportStates
  <2>9. CASE Bugs!ZRead(z)
    <3>1. page.zs \ {z} \in SUBSET Bugs!Z
      BY <1>2, Zenon
    <3> QED
      BY <2>9, <3>1, Zenon DEF Bugs!ZRead, ReportStates
  <2> QED
    BY <1>8, <2>5, <2>6, <2>7, <2>8, <2>9, Zenon
<1>9. CASE Bugs!SlotChanges(page)
  <2>1. [page EXCEPT !.bugReport = Bugs!NoReport] \in ReportStates
    BY Zenon DEF ReportStates
  <2>2. adb' # 0 => page.queries \cup {adb'} \in SUBSET Connections
    BY <1>2, DeviceInSlot, Zenon
  <2> QED
    BY <1>1, <1>9, <2>1, <2>2, Zenon DEF Bugs!SlotChanges
<1> QED
  BY <1>3, <1>4, <1>6, <1>7, <1>8, <1>9, Zenon DEF Bugs!BugReportStep

\* Pictures of the screen.
ScreenStates ==
  [image : DevicesOrNone, captures : SUBSET Connections, saved : SUBSET Connections,
   demoModeVisible : BOOLEAN]

LEMMA ScreenTyped ==
  ASSUME page \in ScreenStates, adb \in DevicesOrNone, Screen!FrameBufferStep
  PROVE  page' \in ScreenStates
<1>1. page.captures \in SUBSET Connections /\ page.saved \in SUBSET Connections
      /\ page.demoModeVisible \in BOOLEAN
  BY Zenon DEF ScreenStates
<1>2. CASE Screen!Capture \/ Screen!Save
  <2>1. adb \in Connections
    BY <1>2, DeviceInSlot, Zenon DEF Screen!Capture, Screen!Save
  <2>2. page.captures \cup {adb} \in SUBSET Connections /\ page.saved \cup {adb} \in SUBSET Connections
    BY <1>1, <2>1, Zenon
  <2> QED
    BY <1>2, <2>2, Zenon DEF Screen!Capture, Screen!Save, ScreenStates
<1>3. CASE Screen!ToggleDemoModeVisible
  <2>1. (~page.demoModeVisible) \in BOOLEAN
    BY <1>1, Zenon
  <2>2. \A b \in BOOLEAN : [page EXCEPT !.demoModeVisible = b] \in ScreenStates
    BY Zenon DEF ScreenStates
  <2> QED
    BY <1>3, <2>1, <2>2, Zenon DEF Screen!ToggleDemoModeVisible
<1>4. ASSUME NEW c \in Connections, Screen!Captured(c) \/ Screen!NotCaptured(c)
      PROVE  page' \in ScreenStates
  <2>1. page.captures \ {c} \in SUBSET Connections /\ c \in DevicesOrNone
    BY <1>1, DeviceInSlot, Zenon
  <2> QED
    BY <1>4, <2>1, Zenon DEF Screen!Captured, Screen!NotCaptured, ScreenStates
<1> QED
  BY <1>2, <1>3, <1>4, Zenon DEF Screen!FrameBufferStep, Screen!Connections, Connections

\* Commands.
CommandStates ==
  [webUsb : SUBSET Connections, accessory : SUBSET Connections, rebooting : SUBSET Connections,
   supported : {"unknown", "yes", "no"}, asked : SUBSET Commands!Ask,
   accessories : SUBSET Connections]

CommandsShape(c) == c \in CommandStates /\ c.accessory \subseteq c.webUsb

LEMMA CommandsTyped ==
  ASSUME CommandsShape(page), adb \in DevicesOrNone, Commands!CommandsStep
  PROVE  CommandsShape(page')
<1> Commands!Connections = Connections
  BY DEF Commands!Connections, Connections
<1>1. /\ page \in CommandStates /\ page.rebooting \in SUBSET Connections
      /\ page.webUsb \in SUBSET Connections
      /\ page.asked \in SUBSET Commands!Ask /\ page.accessories \in SUBSET Connections
  BY Zenon DEF CommandsShape, CommandStates
<1>2. ASSUME page' \in CommandStates, UNCHANGED <<page.webUsb, page.accessory>>
      PROVE  CommandsShape(page')
  BY <1>2, Zenon DEF CommandsShape
<1>3. CASE Commands!PowerButton
  <2> DEFINE rs == page.rebooting \cup {adb}
  <2>1. rs \in SUBSET Connections
    BY <1>1, <1>3, DeviceInSlot, Zenon DEF Commands!PowerButton
  <2>2. page' = [page EXCEPT !.rebooting = rs]
    BY <1>3, Zenon DEF Commands!PowerButton
  <2> HIDE DEF rs
  <2>3. page' \in CommandStates /\ UNCHANGED <<page.webUsb, page.accessory>>
    BY <1>1, <2>1, <2>2, Zenon DEF CommandStates
  <2> QED
    BY <1>2, <2>3
<1>4. ASSUME NEW why \in {"query", "enable", "disable"}, Commands!AudioButton(why)
      PROVE  CommandsShape(page')
  <2> DEFINE as == page.asked \cup {<<adb, why>>}
  <2>1. as \in SUBSET Commands!Ask
    <3>1. adb \in Connections
      BY <1>1, <1>4, Zenon DEF Commands!AudioButton
    <3>2. <<adb, why>> \in Commands!Ask
      BY <3>1 DEF Commands!Ask
    <3> QED
      BY <1>1, <3>2, Zenon
  <2>2. page' = [page EXCEPT !.asked = as]
    BY <1>4, Zenon DEF Commands!AudioButton
  <2> HIDE DEF as
  <2>3. page' \in CommandStates /\ UNCHANGED <<page.webUsb, page.accessory>>
    BY <1>1, <2>1, <2>2, Zenon DEF CommandStates
  <2> QED
    BY <1>2, <2>3
<1>5. ASSUME NEW c \in Connections, Commands!AudioAnswers(c)
      PROVE  CommandsShape(page')
  <2>1. PICK as \in SUBSET Commands!Ask, s \in {"unknown", "yes", "no"},
             ac \in SUBSET Connections :
               \/ page' = [page EXCEPT !.asked = as, !.supported = s]
               \/ page' = [page EXCEPT !.asked = as, !.accessories = ac]
    <3> DEFINE s1 == IF c \in page.accessory THEN "yes" ELSE "no"
               a1 == IF c \in page.accessory THEN page.accessories \cup {c} ELSE page.accessories
    <3>1. s1 \in {"unknown", "yes", "no"}
      BY Zenon
    <3>2. a1 \in SUBSET Connections
      BY <1>1, Zenon
    <3>3. \A why : page.asked \ {<<c, why>>} \in SUBSET Commands!Ask
      BY <1>1, Zenon
    <3>4. \E why : \/ page' = [page EXCEPT !.asked = page.asked \ {<<c, why>>}, !.supported = s1]
                   \/ page' = [page EXCEPT !.asked = page.asked \ {<<c, why>>}, !.accessories = a1]
      BY <1>5, Zenon DEF Commands!AudioAnswers
    <3> HIDE DEF s1, a1
    <3> QED
      BY <3>1, <3>2, <3>3, <3>4, Zenon
  <2>2. page' \in CommandStates /\ UNCHANGED <<page.webUsb, page.accessory>>
    BY <1>1, <2>1, Zenon DEF CommandStates
  <2> QED
    BY <1>2, <2>2
<1>6. ASSUME NEW c \in Connections, Commands!AudioFails(c)
      PROVE  CommandsShape(page')
  <2>1. PICK a : page' = [page EXCEPT !.asked = page.asked \ {a}]
    BY <1>6, Zenon DEF Commands!AudioFails
  <2>2. page.asked \ {a} \in SUBSET Commands!Ask
    BY <1>1, Zenon
  <2>3. page' \in CommandStates /\ UNCHANGED <<page.webUsb, page.accessory>>
    BY <1>1, <2>1, <2>2, Zenon DEF CommandStates
  <2> QED
    BY <1>2, <2>3
<1> QED
  BY <1>3, <1>4, <1>5, <1>6, Zenon DEF Commands!CommandsStep

\* The status bar.
Shown == [StatusBar!FEATURES -> {"user", "initial", "34"}]
Bars == [conn : DevicesOrNone, shown : Shown]
DemoAsks == Connections \X {"allowed", "enabled"}
DemoSets == Connections \X {"allowed", "enabled"} \X BOOLEAN

DemoStates ==
  [demoMode : DevicesOrNone, allowed : BOOLEAN, enabled : BOOLEAN, features : SUBSET Features,
   bar : Bars, asks : SUBSET DemoAsks, sets : SUBSET DemoSets]

LEMMA BarTyped ==
  ASSUME NEW d \in DemoStates, StatusBar!Becomes(d)
  PROVE  page' \in DemoStates
<1> DEFINE shown == [key \in StatusBar!FEATURES |-> StatusBar!OnChange(d.features, key)]
           b == [conn |-> d.demoMode, shown |-> shown]
<1>1. shown \in Shown
  <2> SUFFICES ASSUME NEW key \in StatusBar!FEATURES
               PROVE  StatusBar!OnChange(d.features, key) \in {"user", "initial", "34"}
    BY Zenon DEF Shown
  <2> QED
    BY Zenon DEF StatusBar!OnChange, StatusBar!PanelValue
<1>2. page' = IF d.enabled /\ d.demoMode # 0 THEN [d EXCEPT !.bar = b] ELSE d
  BY Zenon DEF StatusBar!Becomes, StatusBar!ApplyAll
<1> HIDE DEF shown
<1>3. b \in Bars
  BY <1>1, Zenon DEF DemoStates, Bars
<1> HIDE DEF b
<1>4. [d EXCEPT !.bar = b] \in DemoStates
  BY <1>3, Zenon DEF DemoStates
<1> QED
  BY <1>2, <1>4, Zenon

LEMMA DemoTyped ==
  ASSUME page \in DemoStates, adb' \in DevicesOrNone, StatusBar!DemoModeStep
  PROVE  page' \in DemoStates
<1> StatusBar!Connections = Connections
  BY DEF StatusBar!Connections, Connections
<1>1. /\ page.demoMode \in DevicesOrNone /\ page.features \in SUBSET Features
      /\ page.asks \in SUBSET DemoAsks /\ page.sets \in SUBSET DemoSets
  BY Zenon DEF DemoStates
<1>2. \A c \in Connections, what \in {"allowed", "enabled"} : <<c, what>> \in DemoAsks
  BY DEF DemoAsks
<1>3. \A c \in Connections, what \in {"allowed", "enabled"}, value \in BOOLEAN :
         <<c, what, value>> \in DemoSets
  BY DEF DemoSets
<1>4. ASSUME NEW c \in Connections, StatusBar!AllowedIs(c)
      PROVE  page' \in DemoStates
  <2> DEFINE next(b) == IF b /\ page.demoMode # 0 THEN {<<page.demoMode, "enabled">>} ELSE {}
             as(b) == (page.asks \ {<<c, "allowed">>}) \cup next(b)
  <2>1. PICK b \in BOOLEAN : StatusBar!Becomes([page EXCEPT !.allowed = b, !.asks = as(b)])
    BY <1>4, Zenon DEF StatusBar!AllowedIs
  <2>2. next(b) \in SUBSET DemoAsks
    <3>1. page.demoMode # 0 => <<page.demoMode, "enabled">> \in DemoAsks
      BY <1>1, <1>2, DeviceInSlot, Zenon
    <3> QED
      BY <3>1, Zenon
  <2>3. as(b) \in SUBSET DemoAsks
    BY <1>1, <2>2, Zenon
  <2> HIDE DEF as
  <2>4. [page EXCEPT !.allowed = b, !.asks = as(b)] \in DemoStates
    BY <2>3, Zenon DEF DemoStates
  <2> QED
    BY <2>1, <2>4, BarTyped, Zenon
<1>5. ASSUME NEW c \in Connections, StatusBar!EnabledIs(c)
      PROVE  page' \in DemoStates
  <2> DEFINE as == page.asks \ {<<c, "enabled">>}
  <2>1. as \in SUBSET DemoAsks
    BY <1>1, Zenon
  <2>2. PICK b \in BOOLEAN : StatusBar!Becomes([page EXCEPT !.enabled = b, !.asks = as])
    BY <1>5, Zenon DEF StatusBar!EnabledIs
  <2> HIDE DEF as
  <2>3. [page EXCEPT !.enabled = b, !.asks = as] \in DemoStates
    BY <2>1, Zenon DEF DemoStates
  <2> QED
    BY <2>2, <2>3, BarTyped, Zenon
<1>6. CASE StatusBar!NotAnswered
  <2>1. PICK x : \/ StatusBar!Becomes([page EXCEPT !.asks = page.asks \ {x}])
                 \/ StatusBar!Becomes([page EXCEPT !.sets = page.sets \ {x}])
    BY <1>6, Zenon DEF StatusBar!NotAnswered
  <2>2. page.asks \ {x} \in SUBSET DemoAsks /\ page.sets \ {x} \in SUBSET DemoSets
    BY <1>1, Zenon
  <2>3. /\ [page EXCEPT !.asks = page.asks \ {x}] \in DemoStates
        /\ [page EXCEPT !.sets = page.sets \ {x}] \in DemoStates
    BY <2>2, Zenon DEF DemoStates
  <2> QED
    BY <2>1, <2>3, BarTyped, Zenon
<1>7. ASSUME NEW value \in BOOLEAN,
             StatusBar!HandleAllowedChange(value) \/ StatusBar!HandleEnabledChange(value)
      PROVE  page' \in DemoStates
  <2>1. PICK what \in {"allowed", "enabled"} :
               StatusBar!Becomes([page EXCEPT
                   !.sets = page.sets \cup {<<page.demoMode, what, value>>}])
    BY <1>7, Zenon DEF StatusBar!HandleAllowedChange, StatusBar!HandleEnabledChange
  <2> DEFINE ss == page.sets \cup {<<page.demoMode, what, value>>}
  <2>2. page.demoMode # 0
    BY <1>7, Zenon DEF StatusBar!HandleAllowedChange, StatusBar!HandleEnabledChange,
       StatusBar!PanelActs
  <2>3. <<page.demoMode, what, value>> \in DemoSets
    BY <1>1, <1>3, <2>2, DeviceInSlot, Zenon
  <2>4. ss \in SUBSET DemoSets
    BY <1>1, <2>3, Zenon
  <2> HIDE DEF ss
  <2>5. [page EXCEPT !.sets = ss] \in DemoStates
    BY <2>4, Zenon DEF DemoStates
  <2> QED
    BY <2>1, <2>5, BarTyped, Zenon DEF ss
<1>8. ASSUME NEW s \in page.sets, StatusBar!Changed(s)
      PROVE  page' \in DemoStates
  <2> DEFINE ss == page.sets \ {s}
  <2>1. s[3] \in BOOLEAN
    <3>1. s \in DemoSets
      BY <1>1, Zenon
    <3> QED
      BY <3>1 DEF DemoSets
  <2>2. ss \in SUBSET DemoSets
    BY <1>1, Zenon
  <2>3. StatusBar!Becomes(IF s[2] = "allowed"
                          THEN [page EXCEPT !.sets = ss, !.allowed = s[3], !.enabled = FALSE]
                          ELSE [page EXCEPT !.sets = ss, !.enabled = s[3]])
    BY <1>8, Zenon DEF StatusBar!Changed
  <2> HIDE DEF ss
  <2>4. /\ [page EXCEPT !.sets = ss, !.allowed = s[3], !.enabled = FALSE] \in DemoStates
        /\ [page EXCEPT !.sets = ss, !.enabled = s[3]] \in DemoStates
    BY <2>1, <2>2, Zenon DEF DemoStates
  <2> QED
    BY <2>3, <2>4, BarTyped, Zenon
<1>9. ASSUME NEW f \in Features, StatusBar!SetFeature(f)
      PROVE  page' \in DemoStates
  <2>1. page.features \cup {f} \in SUBSET Features
    BY <1>1, Zenon
  <2>2. [page EXCEPT !.features = page.features \cup {f}, !.enabled = TRUE] \in DemoStates
    BY <2>1, Zenon DEF DemoStates
  <2> QED
    BY <1>9, <2>2, BarTyped, Zenon DEF StatusBar!SetFeature
<1>10. CASE StatusBar!SlotChanges(page)
  <2> DEFINE as == page.asks \cup {<<adb', "allowed">>}
             gone == [page EXCEPT !.demoMode = 0, !.allowed = FALSE, !.enabled = FALSE,
                                  !.features = {}]
             new == [page EXCEPT !.demoMode = adb', !.asks = as]
  <2>1. StatusBar!Becomes(page) \/ StatusBar!Becomes(gone) \/ (adb' # 0 /\ StatusBar!Becomes(new))
    BY <1>10, Zenon DEF StatusBar!SlotChanges
  <2>2. gone \in DemoStates
    <3>1. {} \in SUBSET Features
      OBVIOUS
    <3> QED
      BY <3>1, DeviceInSlot, Zenon DEF DemoStates
  <2>3. ASSUME adb' # 0
        PROVE  new \in DemoStates
    <3>1. as \in SUBSET DemoAsks
      BY <1>1, <1>2, <2>3, DeviceInSlot, Zenon
    <3> HIDE DEF as
    <3> QED
      BY <3>1, Zenon DEF DemoStates
  <2> HIDE DEF gone, new
  <2> QED
    BY <2>1, <2>2, <2>3, BarTyped, Zenon
<1> QED
  BY <1>4, <1>5, <1>6, <1>7, <1>8, <1>9, <1>10, Zenon DEF StatusBar!DemoModeStep

\* The DevTools page; the timers are numbered.
TimerStates ==
  [visible : BOOLEAN, intervalId : Nat, timers : SUBSET Nat, replaced : SUBSET Nat, started : Nat,
   fetches : SUBSET Chrome!Fetch, browsers : DevicesOrNone]

Numbered(d) ==
  /\ d.started \in 0 .. MaxTimers
  /\ d.intervalId \in 0 .. d.started
  /\ d.timers \in SUBSET (1 .. d.started)
  /\ d.replaced \in SUBSET (1 .. d.started)

TimersTyped(d) == d \in TimerStates /\ Numbered(d)

LEMMA NumberedOn ==
  ASSUME NEW d, Numbered(d)
  PROVE  /\ 0 \in 0 .. d.started
         /\ d.timers \ {d.intervalId} \in SUBSET (1 .. d.started)
         /\ d.started < MaxTimers =>
              /\ d.started + 1 \in 0 .. MaxTimers
              /\ d.started + 1 \in 0 .. d.started + 1
              /\ d.timers \cup {d.started + 1} \in SUBSET (1 .. d.started + 1)
              /\ d.timers \cup {d.started + 1} \in SUBSET Nat
              /\ d.replaced \cup ({d.intervalId} \ {0}) \in SUBSET (1 .. d.started + 1)
              /\ d.replaced \cup ({d.intervalId} \ {0}) \in SUBSET Nat
<1>1. d.started \in Nat
  BY WebAssumption DEF Numbered
<1> QED
  BY <1>1, WebAssumption DEF Numbered

LEMMA Asked ==
  ASSUME NEW d, TimersTyped(d), NEW device \in DevicesOrNone
  PROVE  TimersTyped(Chrome!GetBrowsers(d, device))
<1> DEFINE new == [at |-> "sockets", conn |-> device]
           fs == d.fetches \cup {new}
           g == [d EXCEPT !.fetches = fs]
<1>1. CASE device # 0
  <2>1. new \in Chrome!Fetch
    <3>1. device \in Chrome!Connections
      BY <1>1, DeviceInSlot DEF Chrome!Connections, Connections
    <3> QED
      BY <3>1, Zenon DEF Chrome!Fetch
  <2>2. fs \in SUBSET Chrome!Fetch
    <3>1. d.fetches \in SUBSET Chrome!Fetch
      BY Zenon DEF TimersTyped, TimerStates
    <3> QED
      BY <2>1, <3>1, Zenon
  <2>3. Chrome!GetBrowsers(d, device) = g
    BY <1>1, Zenon DEF Chrome!GetBrowsers
  <2> HIDE DEF fs
  <2>4. /\ g \in TimerStates /\ g.started = d.started /\ g.timers = d.timers
        /\ g.intervalId = d.intervalId /\ g.replaced = d.replaced
    BY <2>2, Zenon DEF TimersTyped, TimerStates
  <2> HIDE DEF g
  <2> QED
    BY <2>3, <2>4, Zenon DEF TimersTyped, Numbered
<1>2. CASE device = 0
  BY <1>2, Zenon DEF Chrome!GetBrowsers
<1> QED
  BY <1>1, <1>2

LEMMA ChromeTyped ==
  ASSUME TimersTyped(page), adb \in DevicesOrNone, adb' \in DevicesOrNone, Chrome!DevToolsStep
  PROVE  TimersTyped(page')
<1>1. page \in TimerStates /\ page.visible \in BOOLEAN /\ page.fetches \in SUBSET Chrome!Fetch
  BY Zenon DEF TimersTyped, TimerStates
<1>2. ASSUME NEW fs \in SUBSET Chrome!Fetch, NEW b \in DevicesOrNone,
             \/ page' = [page EXCEPT !.fetches = fs]
             \/ page' = [page EXCEPT !.fetches = fs, !.browsers = b]
      PROVE  TimersTyped(page')
  <2>1. /\ page' \in TimerStates /\ page'.started = page.started /\ page'.timers = page.timers
        /\ page'.intervalId = page.intervalId /\ page'.replaced = page.replaced
    BY <1>1, <1>2, Zenon DEF TimerStates
  <2> QED
    BY <2>1, Zenon DEF TimersTyped, Numbered
<1>3. CASE Chrome!Tick \/ Chrome!ClosePage
  BY <1>3, Asked, Zenon DEF Chrome!Tick, Chrome!ClosePage
<1>4. ASSUME NEW f \in page.fetches, Chrome!Sockets(f) \/ Chrome!NoSockets(f) \/ Chrome!Browsers(f)
      PROVE  TimersTyped(page')
  <2> DEFINE paged == [f EXCEPT !.at = "pages"]
             s1 == page.fetches \ {f}
             s2 == (page.fetches \ {f}) \cup {paged}
  <2>1. paged \in Chrome!Fetch
    BY <1>1, Zenon DEF Chrome!Fetch
  <2>2. s1 \in SUBSET Chrome!Fetch /\ s2 \in SUBSET Chrome!Fetch
    BY <1>1, <2>1, Zenon
  <2>3. \/ page' = [page EXCEPT !.fetches = s1] \/ page' = [page EXCEPT !.fetches = s2]
        \/ \E b \in DevicesOrNone : page' = [page EXCEPT !.fetches = s1, !.browsers = b]
    BY <1>4, DeviceInSlot, Zenon DEF Chrome!Sockets, Chrome!NoSockets, Chrome!Browsers
  <2> HIDE DEF s1, s2
  <2> QED
    BY <1>2, <2>2, <2>3, DeviceInSlot, Zenon
<1>5. ASSUME NEW v \in BOOLEAN, NEW d, d = [page EXCEPT !.visible = v], Chrome!Reacts(d)
      PROVE  TimersTyped(page')
  <2>1. /\ d \in TimerStates /\ d.started = page.started /\ d.timers = page.timers
        /\ d.intervalId = page.intervalId /\ d.replaced = page.replaced
    BY <1>1, <1>5, Zenon DEF TimerStates
  <2>2. TimersTyped(d)
    BY <2>1, Zenon DEF TimersTyped, Numbered
  <2>3. Numbered(d)
    BY <2>2 DEF TimersTyped
  <2>4. CASE page' = d
    BY <2>2, <2>4
  <2>5. CASE page' = [d EXCEPT !.browsers = 0, !.intervalId = 0, !.timers = d.timers \ {d.intervalId}]
    <3> DEFINE ts == d.timers \ {d.intervalId}
    <3>1. ts \in SUBSET Nat
      BY <2>1, Zenon DEF TimerStates
    <3>2. ts \in SUBSET (1 .. d.started) /\ 0 \in 0 .. d.started
      BY <2>3, NumberedOn
    <3>3. page' = [d EXCEPT !.browsers = 0, !.intervalId = 0, !.timers = ts]
      BY <2>5
    <3>4. 0 \in Nat
      OBVIOUS
    <3> HIDE DEF ts
    <3>5. page' \in TimerStates /\ page'.started = d.started /\ page'.timers = ts
          /\ page'.intervalId = 0 /\ page'.replaced = d.replaced
      BY <2>1, <3>1, <3>3, <3>4, DeviceInSlot, Zenon DEF TimerStates
    <3> QED
      BY <2>3, <3>2, <3>5, Zenon DEF TimersTyped, Numbered
  <2>6. CASE ~(page' = d) /\ ~(page' = [d EXCEPT !.browsers = 0, !.intervalId = 0,
                                                 !.timers = d.timers \ {d.intervalId}])
    <3> DEFINE n == d.started + 1
               ts == d.timers \cup {n}
               rs == d.replaced \cup ({d.intervalId} \ {0})
               e == [d EXCEPT !.started = n, !.timers = ts, !.replaced = rs, !.intervalId = n]
    <3>1. d.started < MaxTimers /\ page' = Chrome!GetBrowsers(e, adb')
      BY <1>5, <2>6, Zenon DEF Chrome!Reacts
    <3>2. n \in 0 .. MaxTimers /\ n \in 0 .. n /\ ts \in SUBSET (1 .. n) /\ ts \in SUBSET Nat
          /\ rs \in SUBSET (1 .. n) /\ rs \in SUBSET Nat
      BY <2>3, <3>1, NumberedOn
    <3>3. n \in Nat
      BY <3>2, WebAssumption
    <3> HIDE DEF n, ts, rs
    <3>4. e \in TimerStates /\ e.started = n /\ e.timers = ts /\ e.intervalId = n
          /\ e.replaced = rs
      BY <2>1, <3>2, <3>3, Zenon DEF TimerStates
    <3> HIDE DEF e
    <3>5. TimersTyped(e)
      BY <3>2, <3>4, Zenon DEF TimersTyped, Numbered
    <3> QED
      BY <3>1, <3>5, Asked
  <2> QED
    BY <2>4, <2>5, <2>6
<1>6. CASE Chrome!ToggleVisible
  <2>1. (~page.visible) \in BOOLEAN
    BY <1>1, Zenon
  <2>2. Chrome!Reacts([page EXCEPT !.visible = ~page.visible])
    BY <1>6, Zenon DEF Chrome!ToggleVisible
  <2> QED
    BY <1>5, <2>1, <2>2, Zenon
<1>7. CASE Chrome!Reacts(page)
  <2>1. page = [page EXCEPT !.visible = page.visible]
    BY <1>1, Zenon DEF TimerStates
  <2> QED
    BY <1>1, <1>5, <1>7, <2>1, Zenon
<1> QED
  BY <1>3, <1>4, <1>6, <1>7, Zenon DEF Chrome!DevToolsStep

\* The popup of DevTools.
SocketStates ==
  [ws : {"none", "connecting", "open", "closing", "closed"},
   hostPort : {"none", "open", "closed"},
   toFrame : Seq(FrameMessages), toHost : Seq({"message", "close"}),
   framePort : {"none", "open", "closed"},
   seen : {"nothing", "open", "close"}, popup : BOOLEAN]

LEMMA SequencesTyped ==
  ASSUME NEW S
  PROVE  /\ <<>> \in Seq(S)
         /\ \A q \in Seq(S), m \in S : Append(q, m) \in Seq(S)
         /\ \A q \in Seq(S) : q # <<>> => Tail(q) \in Seq(S)
OBVIOUS

LEMMA PortsTyped ==
  ASSUME NEW i \in SocketStates
  PROVE  /\ Popup!FrameEnds(i) \in SocketStates
         /\ Popup!HostEnds(i) \in SocketStates
         /\ \A m \in FrameMessages : Popup!ToFrame(i, m) \in SocketStates
         /\ \A m \in {"message", "close"} : Popup!ToHost(i, m) \in SocketStates
<1>1. /\ i.toFrame \in Seq(FrameMessages) /\ i.toHost \in Seq({"message", "close"})
      /\ <<>> \in Seq(FrameMessages) /\ <<>> \in Seq({"message", "close"})
  BY SequencesTyped, Zenon DEF SocketStates
<1>2. Popup!FrameEnds(i) \in SocketStates /\ Popup!HostEnds(i) \in SocketStates
  BY <1>1, Zenon DEF Popup!FrameEnds, Popup!HostEnds, SocketStates
<1>3. ASSUME NEW m \in FrameMessages
      PROVE  Popup!ToFrame(i, m) \in SocketStates
  <2> DEFINE q == Append(i.toFrame, m)
  <2>1. q \in Seq(FrameMessages)
    BY <1>1, SequencesTyped, Zenon
  <2>2. Popup!ToFrame(i, m) = i \/ Popup!ToFrame(i, m) = [i EXCEPT !.toFrame = q]
    BY Zenon DEF Popup!ToFrame
  <2> HIDE DEF q
  <2>3. [i EXCEPT !.toFrame = q] \in SocketStates
    BY <2>1, Zenon DEF SocketStates
  <2> QED
    BY <2>2, <2>3, Zenon
<1>4. ASSUME NEW m \in {"message", "close"}
      PROVE  Popup!ToHost(i, m) \in SocketStates
  <2> DEFINE q == Append(i.toHost, m)
  <2>1. q \in Seq({"message", "close"})
    BY <1>1, SequencesTyped, Zenon
  <2>2. Popup!ToHost(i, m) = i \/ Popup!ToHost(i, m) = [i EXCEPT !.toHost = q]
    BY Zenon DEF Popup!ToHost
  <2> HIDE DEF q
  <2>3. [i EXCEPT !.toHost = q] \in SocketStates
    BY <2>1, Zenon DEF SocketStates
  <2> QED
    BY <2>2, <2>3, Zenon
<1> QED
  BY <1>2, <1>3, <1>4, Zenon

LEMMA PopupTyped ==
  ASSUME page \in SocketStates, Popup!InspectorStep
  PROVE  page' \in SocketStates
<1>1. page.toFrame \in Seq(FrameMessages) /\ page.toHost \in Seq({"message", "close"})
  BY Zenon DEF SocketStates
<1>2. \A ws \in {"none", "connecting", "open", "closing", "closed"} :
         [page EXCEPT !.ws = ws] \in SocketStates
  BY Zenon DEF SocketStates
<1>3. "open" \in FrameMessages /\ "message" \in FrameMessages /\ "close" \in FrameMessages
  BY Zenon DEF FrameMessages
<1>4. CASE Popup!NewWebSocket \/ Popup!Announced
  BY <1>4, Zenon DEF Popup!NewWebSocket, Popup!Announced, SocketStates
<1>5. CASE Popup!WsOpens \/ Popup!WsMessage
  BY <1>2, <1>3, <1>5, PortsTyped, Zenon DEF Popup!WsOpens, Popup!WsMessage
<1>6. CASE Popup!WsCloses \/ Popup!BeforeUnload
  BY <1>2, <1>3, <1>6, PortsTyped, Zenon DEF Popup!WsCloses, Popup!BeforeUnload
<1>7. CASE Popup!HostReceives
  <2> DEFINE ws == IF Head(page.toHost) = "close" THEN "closing" ELSE page.ws
             q == Tail(page.toHost)
  <2>1. page' = [page EXCEPT !.toHost = q, !.ws = ws] /\ page.toHost # <<>>
    BY <1>7, Zenon DEF Popup!HostReceives
  <2>2. q \in Seq({"message", "close"})
    BY <1>1, <2>1, SequencesTyped, Zenon
  <2>3. ws \in {"none", "connecting", "open", "closing", "closed"}
    BY Zenon DEF SocketStates
  <2> HIDE DEF q, ws
  <2> QED
    BY <2>1, <2>2, <2>3, Zenon DEF SocketStates
<1>8. CASE Popup!FrameReceives
  <2> DEFINE q == Tail(page.toFrame)
             m == Head(page.toFrame)
             rest == [page EXCEPT !.toFrame = q]
  <2>1. m \in FrameMessages /\ q \in Seq(FrameMessages)
    BY <1>1, <1>8 DEF Popup!FrameReceives
  <2>2. page' = CASE m = "open" -> [rest EXCEPT !.seen = "open"]
                  [] m = "message" -> rest
                  [] m = "close" -> Popup!FrameEnds([rest EXCEPT !.seen = "close"])
    BY <1>8, Zenon DEF Popup!FrameReceives
  <2> HIDE DEF q, m
  <2>3. rest \in SocketStates
    BY <2>1, Zenon DEF SocketStates
  <2> HIDE DEF rest
  <2>4. [rest EXCEPT !.seen = "open"] \in SocketStates /\ [rest EXCEPT !.seen = "close"] \in SocketStates
    BY <2>3, Zenon DEF SocketStates
  <2>5. CASE m = "open"
    BY <2>2, <2>4, <2>5
  <2>6. CASE m = "message"
    BY <2>2, <2>3, <2>6
  <2>7. CASE m = "close"
    BY <2>2, <2>4, <2>7, PortsTyped
  <2> QED
    BY <2>1, <2>5, <2>6, <2>7 DEF FrameMessages
<1>9. CASE Popup!Send \/ Popup!Close
  BY <1>9, PortsTyped, Zenon DEF Popup!Send, Popup!Close
<1>10. CASE Popup!PopupCloses
  <2> DEFINE e == Popup!FrameEnds(page)
  <2>1. e \in SocketStates /\ page' = [e EXCEPT !.popup = FALSE]
    BY <1>10, PortsTyped, Zenon DEF Popup!PopupCloses
  <2> HIDE DEF e
  <2> QED
    BY <2>1, Zenon DEF SocketStates
<1> QED
  BY <1>4, <1>5, <1>6, <1>7, <1>8, <1>9, <1>10, Zenon DEF Popup!InspectorStep

\* The terminal; the channels are numbered.
Tabs == [at : {"none", "dead", "waiting", "open", "disconnected"}, port : 0 .. MaxPorts,
         conn : DevicesOrNone]
Channels == [port : 0 .. MaxPorts, conn : DevicesOrNone]

TabbyStates ==
  [shown : BOOLEAN, frame : {"none", "loading", "listening"}, port : 0 .. MaxPorts,
   ports : 0 .. MaxPorts, inbox : Seq(Channels), ready : BOOLEAN, adbState : Channels,
   tab : Tabs, saved : SUBSET Terminal!Blacklists, config : SUBSET Terminal!Blacklists]

TabbyTyped(t) == t \in TabbyStates /\ t.port <= t.ports

LEMMA NextPort ==
  /\ 0 \in 0 .. MaxPorts
  /\ \A n \in 0 .. MaxPorts : 0 <= n
  /\ \A n \in 0 .. MaxPorts : n < MaxPorts => n + 1 \in 0 .. MaxPorts /\ n + 1 <= n + 1
BY WebAssumption

LEMMA SyncTyped ==
  ASSUME NEW t, TabbyTyped(t), t.ports < MaxPorts, NEW device \in DevicesOrNone
  PROVE  TabbyTyped(Terminal!SyncDevice(t, device))
<1> DEFINE n == t.ports + 1
           m == [port |-> n, conn |-> device]
           q == IF t.frame = "listening" THEN Append(t.inbox, m) ELSE t.inbox
           new == [t EXCEPT !.ports = n, !.port = n, !.inbox = q]
           gone == [t EXCEPT !.port = 0]
<1>1. t \in TabbyStates /\ t.ports \in 0 .. MaxPorts /\ t.inbox \in Seq(Channels)
  BY Zenon DEF TabbyTyped, TabbyStates
<1>2. n \in 0 .. MaxPorts /\ n <= n
  BY <1>1, NextPort
<1>3. Terminal!SyncDevice(t, device) \in {t, gone, new}
  BY Zenon DEF Terminal!SyncDevice
<1> HIDE DEF n
<1>4. m \in Channels
  BY <1>2, Zenon DEF Channels
<1> HIDE DEF m
<1>5. q \in Seq(Channels)
  BY <1>1, <1>4, SequencesTyped, Zenon
<1> HIDE DEF q
<1>6. new \in TabbyStates /\ new.port = n /\ new.ports = n
  BY <1>1, <1>2, <1>5, Zenon DEF TabbyStates
<1>7. gone \in TabbyStates /\ gone.port = 0 /\ gone.ports = t.ports
  BY <1>1, NextPort, Zenon DEF TabbyStates
<1> HIDE DEF new, gone
<1>8. TabbyTyped(new)
  BY <1>2, <1>6, Zenon DEF TabbyTyped
<1>9. TabbyTyped(gone)
  <2>1. 0 <= t.ports
    BY <1>1, NextPort
  <2> QED
    BY <1>7, <2>1, Zenon DEF TabbyTyped
<1> QED
  BY <1>3, <1>8, <1>9, Zenon

LEMMA TerminalTyped ==
  ASSUME TabbyTyped(page), adb \in DevicesOrNone, adb' \in DevicesOrNone, Terminal!TabbyStep
  PROVE  TabbyTyped(page')
<1>1. /\ page \in TabbyStates /\ page.inbox \in Seq(Channels) /\ page.adbState \in Channels
      /\ page.saved \in SUBSET Terminal!Blacklists /\ page.config \in SUBSET Terminal!Blacklists
      /\ page.tab \in Tabs
  BY Zenon DEF TabbyTyped, TabbyStates
<1>2. ASSUME NEW t \in TabbyStates, t.port = page.port, t.ports = page.ports
      PROVE  TabbyTyped(t)
  BY <1>2, Zenon DEF TabbyTyped
<1>3. CASE Terminal!AttachTabbyFrame
  <2> DEFINE shown == [page EXCEPT !.shown = TRUE]
             loading == [shown EXCEPT !.frame = "loading"]
  <2>1. shown \in TabbyStates /\ shown.port = page.port /\ shown.ports = page.ports
    BY <1>1, Zenon DEF TabbyStates
  <2>2. page.ports < MaxPorts /\ (page' = Terminal!SyncDevice(loading, adb) \/ page' = shown)
    BY <1>3, Zenon DEF Terminal!AttachTabbyFrame, Terminal!HasPort
  <2> HIDE DEF shown
  <2>3. loading \in TabbyStates /\ loading.port = page.port /\ loading.ports = page.ports
    BY <2>1, Zenon DEF TabbyStates
  <2> HIDE DEF loading
  <2> QED
    BY <1>2, <2>1, <2>2, <2>3, SyncTyped
<1>4. CASE Terminal!Ready
  <2> DEFINE t == [page EXCEPT !.ready = FALSE]
  <2>1. t \in TabbyStates /\ t.port = page.port /\ t.ports = page.ports
    BY <1>1, Zenon DEF TabbyStates
  <2>2. page.ports < MaxPorts /\ page' = Terminal!SyncDevice(t, adb)
    BY <1>4, Zenon DEF Terminal!Ready, Terminal!HasPort
  <2> HIDE DEF t
  <2> QED
    BY <1>2, <2>1, <2>2, SyncTyped
<1>5. CASE Terminal!SlotChanges
  BY <1>5, SyncTyped, Zenon DEF Terminal!SlotChanges, Terminal!HasPort
<1>6. CASE Terminal!DetachTabbyFrame \/ Terminal!Start \/ Terminal!SaveConfig
  <2> DEFINE c == Terminal!LoadConfig(page.saved)
  <2>1. c \in SUBSET Terminal!Blacklists
    BY <1>1, Zenon DEF Terminal!LoadConfig
  <2>2. \/ page' = [page EXCEPT !.shown = FALSE]
        \/ page' = [page EXCEPT !.frame = "listening", !.ready = TRUE, !.config = c]
        \/ page' = [page EXCEPT !.saved = page.config]
    BY <1>6, Zenon DEF Terminal!DetachTabbyFrame, Terminal!Start, Terminal!SaveConfig
  <2> HIDE DEF c
  <2>3. page' \in TabbyStates /\ page'.port = page.port /\ page'.ports = page.ports
    BY <1>1, <2>1, <2>2, Zenon DEF TabbyStates
  <2> QED
    BY <1>2, <2>3
<1>7. CASE Terminal!AdbConnect
  <2> DEFINE h == Head(page.inbox)
             q == Tail(page.inbox)
  <2>1. page.inbox # <<>> /\ page' = [page EXCEPT !.adbState = h, !.inbox = q]
    BY <1>7, Zenon DEF Terminal!AdbConnect
  <2>2. h \in Channels /\ q \in Seq(Channels)
    BY <1>1, <2>1
  <2> HIDE DEF h, q
  <2>3. page' \in TabbyStates /\ page'.port = page.port /\ page'.ports = page.ports
    BY <1>1, <2>1, <2>2, Zenon DEF TabbyStates
  <2> QED
    BY <1>2, <2>3
<1>8. CASE \/ Terminal!StartSession \/ Terminal!Kill \/ Terminal!ShellOpens
           \/ Terminal!ShellFails \/ Terminal!Disconnected
  <2>1. PICK tab \in Tabs : page' = [page EXCEPT !.tab = tab]
    <3>1. /\ Terminal!NoTab \in Tabs
          /\ \A at \in {"none", "dead", "waiting", "open", "disconnected"} :
               [page.tab EXCEPT !.at = at] \in Tabs
      BY <1>1, NextPort, DeviceInSlot, Zenon DEF Terminal!NoTab, Tabs
    <3>2. CASE Terminal!StartSession
      <4> DEFINE a == page.adbState
                 at == IF a.port = 0 THEN "dead" ELSE "waiting"
      <4>1. [at |-> at, port |-> a.port, conn |-> a.conn] \in Tabs
        BY <1>1, Zenon DEF Channels, Tabs
      <4> QED
        BY <3>2, <4>1, Zenon DEF Terminal!StartSession
    <3>3. CASE ~Terminal!StartSession
      BY <1>8, <3>1, <3>3, Zenon DEF Terminal!Kill, Terminal!ShellOpens, Terminal!ShellFails,
         Terminal!Disconnected
    <3> QED
      BY <3>2, <3>3
  <2>2. page' \in TabbyStates /\ page'.port = page.port /\ page'.ports = page.ports
    BY <1>1, <2>1, Zenon DEF TabbyStates
  <2> QED
    BY <1>2, <2>2
<1> QED
  BY <1>3, <1>4, <1>5, <1>6, <1>7, <1>8, Zenon DEF Terminal!TabbyStep

\* The error dialog: shown, hidden or as it was, whatever a page does.
DialogTurns == errorDialogVisible' \in {errorDialogVisible, TRUE, FALSE}

LEMMA PagesTurnDialog ==
  ASSUME PageStep
  PROVE  DialogTurns
<1>1. CASE Files!FilesStep
  <2>1. CASE Files!SessionStep
    BY <2>1, Zenon DEF DialogTurns, Files!SessionStep, Files!HideErrorDialog
  <2>2. CASE Files!Quiet
    BY <2>2, Zenon DEF DialogTurns, Files!Quiet, Files!globalVars
  <2>3. CASE Files!ShowErrorDialog \/ UNCHANGED errorDialogVisible
    BY <2>3, Zenon DEF DialogTurns, Files!ShowErrorDialog
  <2>4. \/ Files!SessionStep \/ Files!Quiet \/ Files!ShowErrorDialog
        \/ UNCHANGED errorDialogVisible
    BY <1>1, Zenon DEF Files!FilesStep, Files!ShowPage, Files!HidePage, Files!ChangeDirectory,
       Files!RunStep, Files!RunOpened, Files!RunTick, Files!RunDone,
       Files!RunNotOpened, Files!RunFails, Files!Select, Files!Unselect, Files!Delete,
       Files!NextDelete, Files!Removed, Files!NotRemoved, Files!PickFiles,
       Files!UploadStep, Files!PickCancelled, Files!FilesPicked, Files!UploadOpened,
       Files!UploadNotOpened, Files!UploadSettles,
       Files!Uploaded, Files!UploadFails, Files!Download, Files!DownloadOpened,
       Files!Downloaded, Files!DownloadFails, Files!PreviewImage, Files!PreviewRead,
       Files!HidePreview, Files!SessionNotOpened
  <2> QED
    BY <2>1, <2>2, <2>3, <2>4
<1>2. CASE Tcp!TcpIpStep
  <2>1. Tcp!SessionStep \/ Tcp!Quiet
    BY <1>2 DEF Tcp!TcpIpStep, Tcp!ShowPage, Tcp!HidePage, Tcp!Refresh,
       Tcp!HandleServicePortEnabledChange, Tcp!Answered, Tcp!Queried, Tcp!QueryFails,
       Tcp!ApplyServicePort, Tcp!Applied
  <2> QED
    BY <2>1, Zenon DEF DialogTurns, Tcp!SessionStep, Tcp!HideErrorDialog, Tcp!Quiet,
       Tcp!globalVars
<1>3. CASE Apk!InstallStep
  <2>1. Apk!SessionStep \/ Apk!Quiet
    BY <1>3 DEF Apk!InstallStep, Apk!SetBypass, Apk!Click, Apk!NotPicked, Apk!Picked,
       Apk!Progress, Apk!Sent, Apk!Logged, Apk!Installed, Apk!InstallFails
  <2> QED
    BY <2>1, Zenon DEF DialogTurns, Apk!SessionStep, Apk!HideErrorDialog, Apk!Quiet,
       Apk!globalVars
<1>4. CASE Bugs!BugReportStep
  <2>1. Bugs!SessionStep \/ Bugs!Quiet
    BY <1>4 DEF Bugs!BugReportStep, Bugs!Capable, Bugs!NotCapable, Bugs!StreamEnds,
       Bugs!GenerateBugReport, Bugs!GenerateBugReportZStream, Bugs!GenerateBugReportZ,
       Bugs!ZProgress, Bugs!ZMade, Bugs!ZOpened, Bugs!ZRead, Bugs!ZFails
  <2> QED
    BY <2>1, Zenon DEF DialogTurns, Bugs!SessionStep, Bugs!HideErrorDialog, Bugs!Quiet,
       Bugs!globalVars
<1>5. CASE Screen!FrameBufferStep
  <2>1. Screen!SessionStep \/ Screen!Quiet \/ Screen!ShowErrorDialog
    BY <1>5 DEF Screen!FrameBufferStep, Screen!Capture, Screen!Save,
       Screen!ToggleDemoModeVisible, Screen!Captured, Screen!NotCaptured
  <2> QED
    BY <2>1, Zenon DEF DialogTurns, Screen!SessionStep, Screen!HideErrorDialog, Screen!Quiet,
       Screen!ShowErrorDialog, Screen!globalVars
<1>6. CASE StatusBar!DemoModeStep
  <2>1. StatusBar!SessionStep \/ StatusBar!Quiet
    BY <1>6 DEF StatusBar!DemoModeStep, StatusBar!AllowedIs, StatusBar!EnabledIs,
       StatusBar!HandleAllowedChange, StatusBar!HandleEnabledChange,
       StatusBar!NotAnswered, StatusBar!Changed, StatusBar!SetFeature,
       StatusBar!Asked, StatusBar!PanelActs
  <2> QED
    BY <2>1, Zenon DEF DialogTurns, StatusBar!SessionStep, StatusBar!HideErrorDialog,
       StatusBar!Quiet, StatusBar!globalVars
<1>7. CASE Commands!CommandsStep
  <2>1. Commands!SessionStep \/ Commands!Quiet
    BY <1>7 DEF Commands!CommandsStep, Commands!PowerButton, Commands!AudioButton,
       Commands!AudioAnswers, Commands!AudioFails
  <2> QED
    BY <2>1, Zenon DEF DialogTurns, Commands!SessionStep, Commands!HideErrorDialog,
       Commands!Quiet, Commands!globalVars
<1>8. CASE Chrome!DevToolsStep
  <2>1. Chrome!SessionStep \/ Chrome!Quiet
    BY <1>8 DEF Chrome!DevToolsStep, Chrome!ToggleVisible, Chrome!Tick, Chrome!ClosePage,
       Chrome!Sockets, Chrome!NoSockets, Chrome!Browsers
  <2> QED
    BY <2>1, Zenon DEF DialogTurns, Chrome!SessionStep, Chrome!HideErrorDialog,
       Chrome!Quiet, Chrome!globalVars
<1>9. CASE Popup!InspectorStep
  <2>1. Popup!Quiet
    BY <1>9 DEF Popup!InspectorStep, Popup!NewWebSocket, Popup!Announced, Popup!WsOpens,
       Popup!WsMessage, Popup!WsCloses, Popup!HostReceives, Popup!BeforeUnload,
       Popup!FrameReceives, Popup!Send, Popup!Close, Popup!PopupCloses
  <2> QED
    BY <2>1, Zenon DEF DialogTurns, Popup!Quiet, Popup!globalVars
<1>10. CASE Terminal!TabbyStep
  <2>1. Terminal!SessionStep \/ Terminal!Quiet
    BY <1>10 DEF Terminal!TabbyStep, Terminal!AttachTabbyFrame, Terminal!DetachTabbyFrame,
       Terminal!Start, Terminal!SaveConfig, Terminal!Ready, Terminal!AdbConnect,
       Terminal!StartSession, Terminal!ShellOpens, Terminal!ShellFails,
       Terminal!Disconnected, Terminal!Kill
  <2> QED
    BY <2>1, Zenon DEF DialogTurns, Terminal!SessionStep, Terminal!HideErrorDialog,
       Terminal!Quiet, Terminal!globalVars
<1> QED
  BY <1>1, <1>2, <1>3, <1>4, <1>5, <1>6, <1>7, <1>8, <1>9, <1>10 DEF PageStep

\* The panel: the lists, the device selected in them and the effects.
Generations == 0 .. MaxChanges + 1
Waiting == UsbSerials \cup {"list", "request"}
Pending == {"connect", "deviceList"}

ListsTyped ==
  /\ plugged \in SUBSET UsbSerials /\ usbSupported \in BOOLEAN
  /\ listings \in SUBSET Waiting /\ address \in SUBSET PropSerials
  /\ usbDeviceList \in SUBSET UsbSerials
  /\ webSocketDeviceList \in Panel!Lists(WsSerials \cup PropSerials)
  /\ tcpDeviceList \in Panel!Lists(TcpSerials)
  /\ changes \in 0 .. MaxChanges /\ generation \in Generations

ChoiceTyped ==
  /\ selected \in Panel!Devices \cup {Panel!NoDevice}
  /\ connecting \in BOOLEAN
  /\ effects \in SUBSET Pending

PanelTyped == ListsTyped /\ ChoiceTyped /\ errorDialogVisible \in BOOLEAN

LEMMA Listed ==
  ASSUME ListsTyped
  PROVE  /\ \A s \in UsbSerials : <<s, Panel!Requested>> \in Panel!Devices
         /\ \A s \in UsbSerials, n \in Generations : <<s, n>> \in Panel!Devices
         /\ Panel!deviceList \subseteq Panel!Devices
         /\ \A list \in SUBSET Panel!deviceList : Panel!FirstEntries(list) \subseteq Panel!Devices
         /\ Panel!FirstDevices \subseteq Panel!Devices
<1> DEFINE numbers == 0 .. Panel!Requested
<1>1. /\ Panel!Requested \in numbers /\ {Panel!First, Panel!Again} \subseteq numbers
      /\ Generations \subseteq numbers
  BY WebAssumption DEF Panel!Requested, Panel!First, Panel!Again, Generations
<1>2. UsbSerials \X numbers \subseteq Panel!Devices
  BY Zenon DEF Panel!Devices, Panel!UsbDevices
<1>3. Panel!Entries(Panel!Serials) \subseteq Panel!Devices
  <2>0. Panel!Entries(Panel!Serials) = Panel!Serials \X {Panel!First, Panel!Again}
    BY DEF Panel!Entries
  <2> SUFFICES ASSUME NEW s \in Panel!Serials, NEW n \in {Panel!First, Panel!Again}
               PROVE  <<s, n>> \in Panel!Devices
    <3> DEFINE which == {Panel!First, Panel!Again}
    <3>1. \A e \in Panel!Serials \X which :
            e[1] \in Panel!Serials /\ e[2] \in which /\ e = <<e[1], e[2]>>
      OBVIOUS
    <3> QED
      BY <2>0, <3>1, Zenon
  <2>1. CASE s \in UsbSerials
    <3>1. n \in numbers
      BY <1>1
    <3> QED
      BY <1>2, <2>1, <3>1, Zenon
  <2>2. CASE s \notin UsbSerials
    BY <2>2, Zenon DEF Panel!Devices, Panel!Entries
  <2> QED
    BY <2>1, <2>2
<1>4. \A s \in usbDeviceList : <<s, generation>> \in Panel!Devices
  <2>1. generation \in numbers /\ usbDeviceList \subseteq UsbSerials
    BY <1>1, Zenon DEF ListsTyped
  <2> HIDE DEF numbers
  <2> QED
    BY <1>2, <2>1, Zenon
<1>5. webSocketDeviceList \cup tcpDeviceList \subseteq Panel!Devices
  <2>1. /\ webSocketDeviceList \subseteq Panel!Entries(WsSerials \cup PropSerials)
        /\ tcpDeviceList \subseteq Panel!Entries(TcpSerials)
    BY Zenon DEF ListsTyped, Panel!Lists
  <2>2. /\ Panel!Entries(WsSerials \cup PropSerials) \subseteq Panel!Entries(Panel!Serials)
        /\ Panel!Entries(TcpSerials) \subseteq Panel!Entries(Panel!Serials)
    BY DEF Panel!Entries, Panel!Serials
  <2> QED
    BY <1>3, <2>1, <2>2, Zenon
<1>6. Panel!deviceList \subseteq Panel!Devices
  BY <1>4, <1>5, Zenon DEF Panel!deviceList
<1>7. \A list \in SUBSET Panel!deviceList : Panel!FirstEntries(list) \subseteq Panel!Devices
  BY <1>6, Zenon DEF Panel!FirstEntries
<1>8. Panel!FirstDevices \subseteq Panel!Devices
  <2>1. \/ Panel!FirstDevices = {<<s, generation>> : s \in usbDeviceList}
        \/ Panel!FirstDevices = Panel!FirstEntries(webSocketDeviceList)
        \/ Panel!FirstDevices = Panel!FirstEntries(tcpDeviceList)
    <3>1. CASE usbDeviceList # {}
      BY <3>1, Zenon DEF Panel!FirstDevices
    <3>2. CASE usbDeviceList = {} /\ webSocketDeviceList # {}
      BY <3>2, Zenon DEF Panel!FirstDevices
    <3>3. CASE usbDeviceList = {} /\ webSocketDeviceList = {}
      BY <3>3, Zenon DEF Panel!FirstDevices
    <3> QED
      BY <3>1, <3>2, <3>3, Zenon
  <2>2. webSocketDeviceList \subseteq Panel!deviceList /\ tcpDeviceList \subseteq Panel!deviceList
    BY Zenon DEF Panel!deviceList
  <2> QED
    BY <1>4, <1>7, <2>1, <2>2, Zenon
<1>9. /\ \A s \in UsbSerials : <<s, Panel!Requested>> \in Panel!Devices
      /\ \A s \in UsbSerials, n \in Generations : <<s, n>> \in Panel!Devices
  <2> HIDE DEF numbers
  <2> QED
    BY <1>1, <1>2, Zenon
<1> QED
  BY <1>6, <1>7, <1>8, <1>9

(* An address that is listed again stays behind its first entry.           *)
LEMMA ListsGrow ==
  ASSUME NEW serials, NEW list \in Panel!Lists(serials), NEW s \in serials
  PROVE  Panel!Pushed(list, s) \in Panel!Lists(serials)
<1> DEFINE e == <<s, IF <<s, Panel!First>> \in list THEN Panel!Again ELSE Panel!First>>
<1>1. e \in Panel!Entries(serials)
  BY DEF Panel!Entries
<1>2. Panel!Pushed(list, s) = list \cup {e} /\ list \subseteq Panel!Entries(serials)
  BY DEF Panel!Pushed, Panel!Lists
<1>3. ASSUME NEW t \in serials, <<t, Panel!Again>> \in list \cup {e}
      PROVE  <<t, Panel!First>> \in list \cup {e}
  <2>1. CASE <<t, Panel!Again>> \in list
    BY <2>1 DEF Panel!Lists
  <2>2. CASE <<t, Panel!Again>> = e
    BY <2>2 DEF Panel!First, Panel!Again
  <2> QED
    BY <1>3, <2>1, <2>2
<1> HIDE DEF e
<1> QED
  BY <1>1, <1>2, <1>3 DEF Panel!Lists

LEMMA ListsJoin ==
  ASSUME NEW serials, NEW list \in Panel!Lists(serials), NEW more \in SUBSET Panel!Lists(serials)
  PROVE  list \cup UNION more \in Panel!Lists(serials)
BY Zenon DEF Panel!Lists

LEMMA ListsStayTyped ==
  ASSUME PanelTyped,
         \/ \E s \in UsbSerials : Panel!UsbChange(s)
         \/ Panel!AddUsbDevice \/ Panel!UsbNotRequested \/ Panel!ChangeRoute
         \/ \E d \in Panel!UsbDevices \cup {Panel!NoDevice} : Panel!UsbRequested(d)
         \/ \E why \in UsbSerials \cup {"list"} : Panel!UsbListed(why)
         \/ \E s \in WsSerials : Panel!AddWebSocketDevice(s)
         \/ \E s \in TcpSerials : Panel!AddTcpDevice(s)
  PROVE  PanelTyped'
<1> USE DEF PanelTyped, Waiting, Pending
<1>0. ASSUME Panel!ListsChange
      PROVE  changes' \in 0 .. MaxChanges
  BY <1>0, WebAssumption DEF Panel!ListsChange, ListsTyped
<1>1. ASSUME NEW s \in UsbSerials, Panel!UsbChange(s)
      PROVE  PanelTyped'
  <2>1. changes' \in 0 .. MaxChanges
    BY <1>0, <1>1, Zenon DEF Panel!UsbChange
  <2>2. plugged' \in SUBSET UsbSerials /\ listings' \in SUBSET Waiting
    BY <1>1, Zenon DEF Panel!UsbChange, ListsTyped
  <2> QED
    BY <1>1, <2>1, <2>2, Zenon DEF Panel!UsbChange, ListsTyped, ChoiceTyped, Panel!globalVars
<1>2. CASE Panel!AddUsbDevice \/ Panel!UsbNotRequested
  <2>1. listings' \in SUBSET Waiting /\ changes' \in 0 .. MaxChanges
    BY <1>0, <1>2, Zenon DEF Panel!AddUsbDevice, Panel!UsbNotRequested, ListsTyped
  <2> QED
    BY <1>2, <2>1, Zenon DEF Panel!AddUsbDevice, Panel!UsbNotRequested, ListsTyped, ChoiceTyped,
       Panel!globalVars
<1>3. CASE Panel!ChangeRoute
  <2>1. address' \in SUBSET PropSerials /\ effects' \in SUBSET Pending
    BY <1>3, Zenon DEF Panel!ChangeRoute, ChoiceTyped
  <2> QED
    BY <1>3, <2>1, Zenon DEF Panel!ChangeRoute, ListsTyped, ChoiceTyped, Panel!globalVars
<1>4. ASSUME NEW d, Panel!UsbRequested(d)
      PROVE  PanelTyped'
  <2>1. d \in Panel!Devices \cup {Panel!NoDevice}
    <3>1. \A s \in plugged : <<s, Panel!Requested>> \in Panel!Devices
      BY Listed, Zenon DEF ListsTyped
    <3> QED
      BY <1>4, <3>1 DEF Panel!UsbRequested
  <2>2. listings' \in SUBSET Waiting /\ effects' \in SUBSET Pending
    BY <1>4, Zenon DEF Panel!UsbRequested, ListsTyped, ChoiceTyped
  <2> QED
    BY <1>4, <2>1, <2>2, Zenon DEF Panel!UsbRequested, ListsTyped, ChoiceTyped, Panel!globalVars
<1>5. ASSUME NEW why \in UsbSerials \cup {"list"}, Panel!UsbListed(why)
      PROVE  PanelTyped'
  <2>1. generation' \in Generations
    BY <1>5, WebAssumption DEF Panel!UsbListed, ListsTyped, Generations
  <2>2. selected' \in Panel!Devices \cup {Panel!NoDevice}
    <3>1. \A s \in plugged : <<s, generation'>> \in Panel!Devices
      BY <2>1, Listed, Zenon DEF ListsTyped
    <3> QED
      BY <1>5, <3>1, Zenon DEF Panel!UsbListed, ChoiceTyped
  <2>3. effects' \in SUBSET Pending /\ listings' \in SUBSET Waiting
    BY <1>5, Zenon DEF Panel!UsbListed, ListsTyped, ChoiceTyped
  <2> QED
    BY <1>5, <2>1, <2>2, <2>3, Zenon DEF Panel!UsbListed, ListsTyped, ChoiceTyped,
       Panel!globalVars
<1>6. ASSUME NEW s \in WsSerials, Panel!AddWebSocketDevice(s)
      PROVE  PanelTyped'
  <2>1. webSocketDeviceList' \in Panel!Lists(WsSerials \cup PropSerials)
    BY <1>6, ListsGrow, Zenon DEF Panel!AddWebSocketDevice, ListsTyped
  <2>2. effects' \in SUBSET Pending /\ changes' \in 0 .. MaxChanges
    BY <1>0, <1>6, Zenon DEF Panel!AddWebSocketDevice, ChoiceTyped
  <2> QED
    BY <1>6, <2>1, <2>2, Zenon DEF Panel!AddWebSocketDevice, ListsTyped, ChoiceTyped,
       Panel!globalVars
<1>7. ASSUME NEW s \in TcpSerials, Panel!AddTcpDevice(s)
      PROVE  PanelTyped'
  <2>1. tcpDeviceList' \in Panel!Lists(TcpSerials)
    BY <1>7, ListsGrow, Zenon DEF Panel!AddTcpDevice, ListsTyped
  <2>2. effects' \in SUBSET Pending /\ changes' \in 0 .. MaxChanges
    BY <1>0, <1>7, Zenon DEF Panel!AddTcpDevice, ChoiceTyped
  <2> QED
    BY <1>7, <2>1, <2>2, Zenon DEF Panel!AddTcpDevice, ListsTyped, ChoiceTyped, Panel!globalVars
<1> QED
  BY <1>1, <1>2, <1>3, <1>4, <1>5, <1>6, <1>7

LEMMA ChoiceStaysTyped ==
  ASSUME PanelTyped, NEW d \in Panel!Devices, Panel!HandleSelectedChange(d)
  PROVE  PanelTyped'
<1> USE DEF PanelTyped, Pending
<1>1. effects' \in SUBSET Pending
  BY Zenon DEF Panel!HandleSelectedChange, ChoiceTyped
<1> QED
  BY <1>1, Zenon DEF Panel!HandleSelectedChange, ListsTyped, ChoiceTyped, Panel!globalVars

(* What the effect on the lists selects is one of them, or none.           *)
LEMMA ListedIsSelected ==
  ASSUME ListsTyped, Panel!DeviceListEffect
  PROVE  selected' \in Panel!Devices \cup {Panel!NoDevice}
<1> DEFINE listed == {<<s, generation>> : s \in usbDeviceList}
                       \cup Panel!FirstEntries(webSocketDeviceList \cup tcpDeviceList)
           current == {d \in listed : selected # Panel!NoDevice /\ d[1] = selected[1]}
<1>1. current \subseteq Panel!Devices
  <2>1. /\ {<<s, generation>> : s \in usbDeviceList} \subseteq Panel!deviceList
        /\ webSocketDeviceList \cup tcpDeviceList \subseteq Panel!deviceList
    BY Zenon DEF Panel!deviceList
  <2>2. listed \subseteq Panel!Devices
    BY <2>1, Listed, Zenon
  <2> HIDE DEF listed
  <2> QED
    BY <2>2, Zenon
<1>2. selected' \in CASE current # {} -> current
                     [] current = {} /\ Panel!deviceList # {} -> Panel!FirstDevices
                     [] OTHER -> {Panel!NoDevice}
  BY Zenon DEF Panel!DeviceListEffect
<1> HIDE DEF current
<1>3. CASE current # {}
  BY <1>1, <1>2, <1>3, Zenon
<1>4. CASE current = {} /\ Panel!deviceList # {}
  BY <1>2, <1>4, Listed, Zenon
<1>5. CASE current = {} /\ Panel!deviceList = {}
  BY <1>2, <1>5, Zenon
<1> QED
  BY <1>3, <1>4, <1>5, Zenon

LEMMA AttemptsTyped ==
  ASSUME PanelTyped,
         \/ Panel!RunEffects \/ Panel!ConnectButton \/ Panel!Disconnect
         \/ \E c \in Connections : Panel!Settle(c) \/ Panel!Disconnected(c) \/ Panel!CleanUp(c)
         \/ Panel!HideErrorDialog /\ UNCHANGED Panel!connectVars
  PROVE  PanelTyped'
<1> USE DEF PanelTyped
<1>1. CASE Panel!RunEffects
  <2>1. webSocketDeviceList' \in Panel!Lists(WsSerials \cup PropSerials) /\ connecting' \in BOOLEAN
    <3>1. CASE "connect" \in effects
      <4> DEFINE web == WsSerials \cup PropSerials
                 more == {Panel!Pushed(webSocketDeviceList, s) : s \in address}
      <4>1. Panel!ConnectEffect
        BY <1>1, <3>1, Zenon DEF Panel!RunEffects
      <4>2. address \subseteq web /\ webSocketDeviceList \in Panel!Lists(web)
        BY Zenon DEF ListsTyped
      <4> HIDE DEF web
      <4>3. more \in SUBSET Panel!Lists(web)
        BY <4>2, ListsGrow, Zenon
      <4>4. webSocketDeviceList' = webSocketDeviceList \cup UNION more
        BY <4>1, Zenon DEF Panel!ConnectEffect
      <4> HIDE DEF more
      <4>5. webSocketDeviceList' \in Panel!Lists(web)
        BY <4>2, <4>3, <4>4, ListsJoin, Zenon
      <4>6. connecting' \in {TRUE, connecting}
        BY <4>1, Zenon DEF Panel!ConnectEffect, Panel!StartAttempt
      <4> QED
        BY <4>5, <4>6, Zenon DEF ChoiceTyped, web
    <3>2. CASE "connect" \notin effects
      BY <1>1, <3>2, Zenon DEF Panel!RunEffects, ListsTyped, ChoiceTyped
    <3> QED
      BY <3>1, <3>2
  <2>2. selected' \in Panel!Devices \cup {Panel!NoDevice}
    BY <1>1, ListedIsSelected, Zenon DEF Panel!RunEffects, ChoiceTyped
  <2>3. effects' \in SUBSET Pending
    BY <1>1, Zenon DEF Panel!RunEffects, Pending
  <2> QED
    BY <1>1, <2>1, <2>2, <2>3, Zenon DEF Panel!RunEffects, ListsTyped, ChoiceTyped
<1>2. CASE Panel!ConnectButton
  BY <1>2, Zenon DEF Panel!ConnectButton, Panel!StartAttempt, ListsTyped, ChoiceTyped
<1>3. ASSUME UNCHANGED Panel!connectRest, connecting' \in BOOLEAN,
             errorDialogVisible' \in {errorDialogVisible, TRUE}
      PROVE  PanelTyped'
  BY <1>3, Zenon DEF Panel!connectRest, ListsTyped, ChoiceTyped
<1>4. CASE Panel!Disconnect
  BY <1>3, <1>4, Zenon DEF Panel!Disconnect, Panel!ShowErrorDialog, ChoiceTyped
<1>5. ASSUME NEW c \in Connections, Panel!Settle(c) \/ Panel!Disconnected(c) \/ Panel!CleanUp(c)
      PROVE  PanelTyped'
  <2>1. UNCHANGED Panel!connectRest /\ connecting' \in {connecting, FALSE}
    BY <1>5, Zenon DEF Panel!Settle, Panel!Opened, Panel!OpenFailed, Panel!Authenticated,
       Panel!Refused, Panel!Disconnected, Panel!CleanUp, Panel!Dispose, Panel!RefusedDispose,
       Panel!EndAttempt
  <2>2. errorDialogVisible' \in {errorDialogVisible, TRUE}
    BY <1>5, Zenon DEF Panel!Settle, Panel!Opened, Panel!OpenFailed, Panel!Authenticated,
       Panel!Refused, Panel!Disconnected, Panel!CleanUp, Panel!Dispose, Panel!RefusedDispose,
       Panel!ShowErrorDialog
  <2> QED
    BY <1>3, <2>1, <2>2, Zenon DEF ChoiceTyped
<1>6. CASE Panel!HideErrorDialog /\ UNCHANGED Panel!connectVars
  BY <1>6, Zenon DEF Panel!HideErrorDialog, Panel!connectVars, ListsTyped, ChoiceTyped
<1> QED
  BY <1>1, <1>2, <1>4, <1>5, <1>6

-----------------------------------------------------------------------------
(* The session                                                             *)

WebInv ==
  /\ ConnsTyped
  /\ view = "connect" => Panel!DialogMeansAttempt
  /\ view = "files" => FilesInv
  /\ view = "tcpip" => TcpInv(page)
  /\ view = "install" => InstallInv(page)
  /\ view = "bugreport" => ReportInv(page)
  /\ view = "demomode" => DemoInv(page, adb)
  /\ view = "commands" => AudioInv(page)
  /\ view = "devtools" => TimerInv(page, adb)
  /\ view = "inspector" => InspectorInv(page)
  /\ view = "tabby" => TabbyInv(page)

LEMMA WebStarts ==
  ASSUME Init
  PROVE  WebInv
<1>1. ConnsTyped
  BY Start
<1>2. ASSUME view = "connect"
      PROVE  Panel!DialogMeansAttempt
  BY <1>2 DEF Init, PageInit, Panel!ConnectInit, Panel!DialogMeansAttempt, PanelAside
<1>3. ASSUME view = "files"
      PROVE  FilesInv
  <2>1. Files!FilesInit /\ adb = 0
    BY <1>3 DEF Init, PageInit, GlobalInit, SlotInit
  <2> QED
    BY <2>1 DEF Files!FilesInit, Files!NoOp, Files!NoUpload, FilesInv, FilesPart, FilesShape,
       UploadsShape, Covered, Sending, OneRun, Fresh
<1>4. ASSUME view = "tcpip"
      PROVE  TcpInv(page)
  <2>1. Tcp!TcpIpInit
    BY <1>4 DEF Init, PageInit
  <2> QED
    BY <2>1 DEF Tcp!TcpIpInit, TcpInv, TcpShape, OneQuery, ConsistentPorts
<1>5. ASSUME view = "install"
      PROVE  InstallInv(page)
  <2>1. Apk!InstallInit
    BY <1>5 DEF Init, PageInit
  <2> QED
    BY <2>1 DEF Apk!InstallInit, InstallInv, InstallFields
<1>6. ASSUME view = "bugreport"
      PROVE  ReportInv(page)
  <2>1. Bugs!BugReportInit
    BY <1>6 DEF Init, PageInit
  <2> QED
    BY <2>1 DEF Bugs!BugReportInit, ReportInv
<1>7. ASSUME view = "demomode"
      PROVE  DemoInv(page, adb)
  <2>1. StatusBar!DemoModeInit /\ adb = 0
    BY <1>7 DEF Init, PageInit, GlobalInit, SlotInit
  <2> QED
    BY <2>1 DEF StatusBar!DemoModeInit, DemoInv, DemoShape, Told
<1>8. ASSUME view = "commands"
      PROVE  AudioInv(page)
  <2>1. Commands!CommandsInit
    BY <1>8 DEF Init, PageInit
  <2> QED
    BY <2>1 DEF Commands!CommandsInit, AudioInv
<1>9. ASSUME view = "devtools"
      PROVE  TimerInv(page, adb)
  <2>1. Chrome!DevToolsInit /\ adb = 0
    BY <1>9 DEF Init, PageInit, GlobalInit, SlotInit
  <2> QED
    BY <2>1 DEF Chrome!DevToolsInit, TimerInv
<1>10. ASSUME view = "inspector"
       PROVE  InspectorInv(page)
  <2>1. Popup!InspectorInit
    BY <1>10 DEF Init, PageInit
  <2> QED
    BY <2>1, OrderEmpty DEF Popup!InspectorInit, InspectorInv, PortShape, FrameMessages
<1>11. ASSUME view = "tabby"
       PROVE  TabbyInv(page)
  <2>1. Terminal!TabbyInit
    BY <1>11 DEF Init, PageInit
  <2> QED
    BY <2>1 DEF Terminal!TabbyInit, TabbyInv, TabbyShape, Messages
<1> QED
  BY <1>1, <1>2, <1>3, <1>4, <1>5, <1>6, <1>7, <1>8, <1>9, <1>10, <1>11 DEF WebInv

LEMMA WebKeeps ==
  ASSUME WebInv, [Next]_vars
  PROVE  WebInv'
<1>1. CASE UNCHANGED vars
  BY <1>1 DEF vars, connectVars, globalVars, slotVars, WebInv, ConnsTyped, FilesInv,
     Panel!DialogMeansAttempt, Panel!Attempting
<1>2. CASE Next
  <2>1. view' = view /\ ConnsTyped /\ ConnsTyped'
    BY <1>2, ConnsStayTyped DEF Next, WebInv
  <2>2. adb \in Nat /\ adb' \in Nat
    BY <2>1, MaxConnectionsAssumption DEF ConnsTyped
  <2>3. ASSUME view = "connect"
        PROVE  Panel!DialogMeansAttempt'
    BY <1>2, <2>1, <2>3, DialogKeeps DEF Next, PageStep, WebInv
  <2>4. ASSUME view # "connect"
        PROVE  PageStep
    BY <1>2, <2>4 DEF Next
  <2>5. /\ view = "files" => FilesInv'
        /\ view = "tcpip" => TcpInv(page')
        /\ view = "install" => InstallInv(page')
        /\ view = "bugreport" => ReportInv(page')
    BY <2>4, FilesKeep, PortsKeep, InstallKeeps, ReportKeeps DEF PageStep, WebInv
  <2>6. /\ view = "demomode" => DemoInv(page', adb')
        /\ view = "commands" => AudioInv(page')
        /\ view = "devtools" => TimerInv(page', adb')
    BY <2>4, DemoKeeps, AudioKeeps, TimersKeep DEF PageStep, WebInv
  <2>7. /\ view = "inspector" => InspectorInv(page')
        /\ view = "tabby" => TabbyInv(page')
    BY <2>2, <2>4, InspectorKeeps, TabbyKeeps DEF PageStep, WebInv
  <2> QED
    BY <2>1, <2>3, <2>5, <2>6, <2>7 DEF WebInv
<1> QED
  BY <1>1, <1>2

LEMMA AtMostOne ==
  ASSUME NEW S, \A x, y \in S : x = y
  PROVE  Cardinality(S) <= 1
<1>1. CASE S = {}
  BY <1>1, FS_EmptySet
<1>2. CASE S # {}
  <2>1. PICK x : S = {x}
    BY <1>2
  <2> QED
    BY <2>1, FS_Singleton
<1> QED
  BY <1>1, <1>2

LEMMA Current == WebInv => ViewCurrent
<1> SUFFICES ASSUME WebInv PROVE ViewCurrent
  OBVIOUS
<1>1. ASSUME view = "files"
      PROVE  Files!ListingOfPath
  BY <1>1 DEF WebInv, FilesInv, FilesPart, OneRun, Fresh, Files!ListingOfPath
<1>2. ASSUME view = "tcpip"
      PROVE  Tcp!PortsConsistent
  BY <1>2 DEF WebInv, TcpInv, ConsistentPorts, Tcp!PortsConsistent
<1>3. ASSUME view = "demomode"
      PROVE  StatusBar!FeaturesHaveDevice /\ StatusBar!BarFollows
  <2>1. DemoInv(page, adb)
    BY <1>3 DEF WebInv
  <2>2. StatusBar!FeaturesHaveDevice
    BY <2>1 DEF DemoInv, StatusBar!FeaturesHaveDevice
  <2>3. ASSUME page.enabled, page.demoMode # 0
        PROVE  /\ page.bar.conn = adb
               /\ \A key \in StatusBar!FEATURES \ {"hour"} :
                      page.bar.shown[key] = StatusBar!PanelValue(page.features, key)
    BY <2>1, <2>3 DEF DemoInv, Told, StatusBar!OnChange
  <2> QED
    BY <2>2, <2>3 DEF StatusBar!BarFollows
<1>4. ASSUME view = "devtools"
      PROVE  Chrome!PollsWhileShown
  BY <1>4 DEF WebInv, TimerInv, Chrome!PollsWhileShown
<1>5. ASSUME view = "commands"
      PROVE  Commands!AudioOnlyWhereSupported
  BY <1>5 DEF WebInv, AudioInv, Commands!AudioOnlyWhereSupported
<1>6. ASSUME view = "inspector"
      PROVE  Popup!EventsInOrder
  BY <1>6 DEF WebInv, InspectorInv, PortShape, Ordered, Popup!EventsInOrder
<1>7. ASSUME view = "tabby"
      PROVE  Terminal!TabbyFollows
  BY <1>7 DEF WebInv, TabbyInv, Terminal!TabbyFollows
<1> QED
  BY <1>1, <1>2, <1>3, <1>4, <1>5, <1>6, <1>7 DEF ViewCurrent

LEMMA Busy == WebInv => BusyShown
<1> SUFFICES ASSUME WebInv PROVE BusyShown
  OBVIOUS
<1>1. ASSUME view = "files"
      PROVE  Files!OneLiveRun /\ Files!UploadCovered
  <2> DEFINE live == {r \in page.runs : ~r.aborted}
  <2>1. FilesInv
    BY <1>1 DEF WebInv
  <2>2. (live # {} => page.loading) /\ Cardinality(live) <= 1
    BY <2>1, AtMostOne DEF FilesInv, FilesPart, OneRun
  <2>3. Files!Cardinality(live) = Cardinality(live)
    BY Zenon DEF Files!Cardinality, Cardinality
  <2>4. Files!LiveRuns = live
    BY DEF Files!LiveRuns, Files!Live
  <2> HIDE DEF live
  <2>5. Files!OneLiveRun
    BY <2>2, <2>3, <2>4 DEF Files!OneLiveRun
  <2>6. Files!UploadCovered
    BY <2>1 DEF FilesInv, FilesPart, Covered, Sending, Files!UploadCovered, Files!UploadIs
  <2> QED
    BY <2>5, <2>6
<1>2. ASSUME view = "tcpip"
      PROVE  Tcp!OneLiveQuery
  <2> DEFINE live == {q \in page.queries : ~q.aborted}
  <2>1. Cardinality(live) <= 1
    BY <1>2, AtMostOne DEF WebInv, TcpInv, OneQuery
  <2>2. Tcp!Cardinality(live) = Cardinality(live)
    BY Zenon DEF Tcp!Cardinality, Cardinality
  <2>3. Tcp!Live(page.queries) = live
    BY DEF Tcp!Live
  <2> HIDE DEF live
  <2> QED
    BY <2>1, <2>2, <2>3 DEF Tcp!OneLiveQuery
<1>3. ASSUME view = "install"
      PROVE  Apk!InstallShown
  BY <1>3 DEF WebInv, InstallInv, Apk!InstallShown
<1>4. ASSUME view = "bugreport"
      PROVE  Bugs!OneReport
  <2> DEFINE zs == page.zs
  <2>1. ReportInv(page)
    BY <1>4 DEF WebInv
  <2>2. Cardinality(zs) <= 1
    BY <2>1, AtMostOne DEF ReportInv
  <2>3. Bugs!Cardinality(zs) = Cardinality(zs)
    BY Zenon DEF Bugs!Cardinality, Cardinality
  <2> QED
    BY <2>1, <2>2, <2>3 DEF ReportInv, Bugs!OneReport
<1>5. view = "connect" => Panel!DialogMeansAttempt
  BY DEF WebInv
<1> QED
  BY <1>1, <1>2, <1>3, <1>4, <1>5 DEF BusyShown

\* Each page keeps its part of ViewCurrent: the listing is of the directory in
\* the breadcrumb whichever run was overtaken, no port is enabled while the
\* daemon listens on given addresses, the status bar has a device that was told
\* its settings, the audio mode went to devices that have one, the timer that
\* keeps a list of browsers fresh will be cleared, and popup and terminal follow
\* the messages of their channel.
THEOREM ViewIsCurrent == Spec => []ViewCurrent
<1>1. Init => WebInv
  BY WebStarts
<1>2. WebInv /\ [Next]_vars => WebInv'
  BY WebKeeps
<1> QED
  BY <1>1, <1>2, Current, PTL DEF Spec

\* Work under way is shown as such, and one piece of it at a time, but for an
\* upload beside which another one ended: that hid the dialog of both
\* (file-manager.tsx:741).
THEOREM BusyIsShown == Spec => []BusyShown
<1>1. Init => WebInv
  BY WebStarts
<1>2. WebInv /\ [Next]_vars => WebInv'
  BY WebKeeps
<1> QED
  BY <1>1, <1>2, Busy, PTL DEF Spec

-----------------------------------------------------------------------------
(* The types of the session                                                *)

WebTypes ==
  /\ errorDialogVisible \in BOOLEAN
  /\ view = "connect" => ConnsTyped /\ PanelTyped
  /\ view # "connect" => SlotTypeOK
  /\ view = "files" => page \in FileStates
  /\ view = "tcpip" => page \in TcpStates
  /\ view = "install" => page \in InstallStates
  /\ view = "bugreport" => page \in ReportStates
  /\ view = "framebuffer" => page \in ScreenStates
  /\ view = "demomode" => page \in DemoStates
  /\ view = "commands" => CommandsShape(page)
  /\ view = "devtools" => TimersTyped(page)
  /\ view = "inspector" => page \in SocketStates
  /\ view = "tabby" => TabbyTyped(page)

LEMMA TypesStart ==
  ASSUME Init
  PROVE  WebTypes
<1>1. ASSUME view = "connect"
      PROVE  errorDialogVisible \in BOOLEAN /\ ConnsTyped /\ PanelTyped
  <2>1. Panel!ConnectInit
    BY <1>1 DEF Init, PageInit
  <2>2. 0 \in 0 .. MaxChanges /\ 0 \in Generations
    BY WebAssumption DEF Generations
  <2>3. {} \in Panel!Lists(WsSerials \cup PropSerials)
    BY DEF Panel!Lists
  <2>6. listings \in SUBSET Waiting
    BY <2>1 DEF Panel!ConnectInit, Waiting
  <2>5. ListsTyped
    BY <2>1, <2>2, <2>3, <2>6, Zenon DEF Panel!ConnectInit, ListsTyped
  <2>4. ChoiceTyped /\ errorDialogVisible \in BOOLEAN
    <3>1. usbSupported \in BOOLEAN /\ errorDialogVisible = ~usbSupported
      BY <2>1, Zenon DEF Panel!ConnectInit
    <3>2. (~usbSupported) \in BOOLEAN
      BY <3>1, Zenon
    <3> QED
      BY <2>1, <3>1, <3>2, Zenon DEF Panel!ConnectInit, ChoiceTyped, Pending
  <2> QED
    BY <2>4, <2>5, Start DEF PanelTyped
<1>2. ASSUME view # "connect"
      PROVE  errorDialogVisible \in BOOLEAN /\ SlotTypeOK /\ adb = 0
  <2>1. GlobalInit
    BY <1>2 DEF Init
  <2>2. adb = 0 /\ conns = [c \in Connections |-> "new"] /\ errorDialogVisible = FALSE
    BY <2>1, Zenon DEF GlobalInit, SlotInit
  <2>3. 0 \in 0 .. MaxConnections
    BY MaxConnectionsAssumption
  <2> QED
    BY <2>2, <2>3, Zenon DEF SlotTypeOK
<1>3. ASSUME view = "files"
      PROVE  page \in FileStates
  <2>1. Files!FilesInit
    BY <1>3 DEF Init, PageInit
  <2> QED
    BY <2>1, WebAssumption, NothingDone, Zenon DEF Files!FilesInit, FileStates
<1>4. ASSUME view = "tcpip"
      PROVE  page \in TcpStates
  <2>1. Tcp!TcpIpInit
    BY <1>4 DEF Init, PageInit
  <2> QED
    BY <2>1, Zenon DEF Tcp!TcpIpInit, TcpStates
<1>5. ASSUME view = "install"
      PROVE  page \in InstallStates
  <2>1. Apk!InstallInit
    BY <1>5 DEF Init, PageInit
  <2> QED
    BY <2>1, DeviceInSlot, Zenon DEF Apk!InstallInit, InstallStates
<1>6. ASSUME view = "bugreport"
      PROVE  page \in ReportStates
  <2>1. Bugs!BugReportInit
    BY <1>6 DEF Init, PageInit
  <2> QED
    BY <2>1, Zenon DEF Bugs!BugReportInit, ReportStates
<1>7. ASSUME view = "framebuffer"
      PROVE  page \in ScreenStates
  <2>1. Screen!FrameBufferInit
    BY <1>7 DEF Init, PageInit
  <2> QED
    BY <2>1, DeviceInSlot, Zenon DEF Screen!FrameBufferInit, ScreenStates
<1>8. ASSUME view = "demomode"
      PROVE  page \in DemoStates
  <2>1. StatusBar!DemoModeInit
    BY <1>8 DEF Init, PageInit
  <2>2. StatusBar!NoBar \in Bars
    <3>1. [key \in StatusBar!FEATURES |-> "initial"] \in Shown
      BY Zenon DEF Shown
    <3> QED
      BY <3>1, DeviceInSlot, Zenon DEF StatusBar!NoBar, Bars
  <2> QED
    BY <2>1, <2>2, DeviceInSlot, Zenon DEF StatusBar!DemoModeInit, DemoStates
<1>9. ASSUME view = "commands"
      PROVE  CommandsShape(page)
  <2>1. Commands!CommandsInit
    BY <1>9 DEF Init, PageInit
  <2>2. PICK webUsb \in SUBSET Connections, accessory \in SUBSET Connections :
          accessory \subseteq webUsb /\
          page = [webUsb |-> webUsb, accessory |-> accessory, rebooting |-> {},
                  supported |-> "unknown", asked |-> {}, accessories |-> {}]
    <3>1. Commands!Connections = Connections
      BY DEF Commands!Connections, Connections
    <3> QED
      BY <2>1, <3>1, Zenon DEF Commands!CommandsInit
  <2>3. page \in CommandStates /\ page.accessory = accessory /\ page.webUsb = webUsb
    BY <2>2, Zenon DEF CommandStates
  <2> QED
    BY <2>2, <2>3, Zenon DEF CommandsShape
<1>10. ASSUME view = "devtools"
       PROVE  TimersTyped(page)
  <2>1. Chrome!DevToolsInit
    BY <1>10 DEF Init, PageInit
  <2>2. 0 \in Nat /\ 0 \in 0 .. MaxTimers /\ 0 \in 0 .. 0 /\ {} \in SUBSET (1 .. 0)
    BY WebAssumption
  <2>3. /\ page \in TimerStates /\ page.started = 0 /\ page.intervalId = 0
        /\ page.timers = {} /\ page.replaced = {}
    BY <2>1, <2>2, DeviceInSlot, Zenon DEF Chrome!DevToolsInit, TimerStates
  <2> QED
    BY <2>2, <2>3, Zenon DEF TimersTyped, Numbered
<1>11. ASSUME view = "inspector"
       PROVE  page \in SocketStates
  <2>1. Popup!InspectorInit
    BY <1>11 DEF Init, PageInit
  <2> QED
    BY <2>1, SequencesTyped, Zenon DEF Popup!InspectorInit, SocketStates
<1>12. ASSUME view = "tabby"
       PROVE  TabbyTyped(page)
  <2>1. Terminal!TabbyInit
    BY <1>12 DEF Init, PageInit
  <2>2. Terminal!NoTab \in Tabs /\ [port |-> 0, conn |-> 0] \in Channels
    BY NextPort, DeviceInSlot, Zenon DEF Terminal!NoTab, Tabs, Channels
  <2>3. PICK saved \in SUBSET Terminal!Blacklists :
          page = [shown |-> FALSE, frame |-> "none", port |-> 0, ports |-> 0, inbox |-> <<>>,
                  ready |-> FALSE, adbState |-> [port |-> 0, conn |-> 0],
                  tab |-> Terminal!NoTab, saved |-> saved, config |-> {}]
    BY <2>1, Zenon DEF Terminal!TabbyInit
  <2>4. {} \in SUBSET Terminal!Blacklists /\ <<>> \in Seq(Channels)
    BY SequencesTyped, Zenon
  <2>5. page \in TabbyStates /\ page.port = 0 /\ page.ports = 0
    BY <2>2, <2>3, <2>4, NextPort, Zenon DEF TabbyStates
  <2> QED
    BY <2>5, NextPort, Zenon DEF TabbyTyped
<1> QED
  BY <1>1, <1>2, <1>3, <1>4, <1>5, <1>6, <1>7, <1>8, <1>9, <1>10, <1>11, <1>12 DEF WebTypes

LEMMA TypesKeep ==
  ASSUME WebTypes, [Next]_vars
  PROVE  WebTypes'
<1>1. CASE UNCHANGED vars
  <2>1. /\ UNCHANGED <<view, page, errorDialogVisible, adb, conns>>
        /\ UNCHANGED connectVars
    BY <1>1, Zenon DEF vars, globalVars, slotVars
  <2>2. SlotTypeOK' = SlotTypeOK /\ ConnsTyped' = ConnsTyped
    BY <2>1, Zenon DEF SlotTypeOK, ConnsTyped
  <2>3. PanelTyped' = PanelTyped
    BY <2>1, Zenon DEF PanelTyped, ListsTyped, ChoiceTyped, connectVars
  <2> QED
    BY <2>1, <2>2, <2>3 DEF WebTypes
<1>2. CASE view = "connect" /\ Panel!ConnectStep /\ UNCHANGED <<view, page>>
  <2>1. ConnsTyped /\ PanelTyped
    BY <1>2 DEF WebTypes
  <2>2. ConnsTyped'
    BY <1>2, <2>1, ConnsStayTyped DEF Next
  <2>3. PanelTyped'
    BY <1>2, <2>1, ListsStayTyped, ChoiceStaysTyped, AttemptsTyped, Zenon DEF Panel!ConnectStep,
       Panel!Connections, Connections
  <2> QED
    BY <1>2, <2>2, <2>3 DEF WebTypes, PanelTyped
<1>3. CASE PageStep /\ UNCHANGED <<view, connectVars>> /\ view # "connect"
  <2>1. SlotTypeOK /\ SlotTypeOK'
    BY <1>3, PageVisible, SlotStaysTyped DEF WebTypes
  <2>2. adb \in DevicesOrNone /\ adb' \in DevicesOrNone
    BY <2>1 DEF SlotTypeOK, DevicesOrNone
  <2>3. errorDialogVisible' \in BOOLEAN
    BY <1>3, PagesTurnDialog, Zenon DEF DialogTurns, WebTypes
  <2>4. /\ view = "files" => page' \in FileStates
        /\ view = "tcpip" => page' \in TcpStates
        /\ view = "install" => page' \in InstallStates
        /\ view = "bugreport" => page' \in ReportStates
        /\ view = "framebuffer" => page' \in ScreenStates
    BY <1>3, <2>2, FilesTyped, TcpTyped, InstallTyped, ReportsTyped, ScreenTyped
       DEF PageStep, WebTypes
  <2>5. /\ view = "demomode" => page' \in DemoStates
        /\ view = "commands" => CommandsShape(page')
        /\ view = "devtools" => TimersTyped(page')
        /\ view = "inspector" => page' \in SocketStates
        /\ view = "tabby" => TabbyTyped(page')
    BY <1>3, <2>2, DemoTyped, CommandsTyped, ChromeTyped, PopupTyped, TerminalTyped
       DEF PageStep, WebTypes
  <2> QED
    BY <1>3, <2>1, <2>3, <2>4, <2>5 DEF WebTypes
<1>4. view = "connect" => ~PageStep
  BY DEF PageStep
<1> QED
  BY <1>1, <1>2, <1>3, <1>4 DEF Next

LEMMA Types == WebTypes => WebTypeOK
<1> SUFFICES ASSUME WebTypes PROVE WebTypeOK
  OBVIOUS
<1>1. GlobalTypeOK
  BY DEF WebTypes, GlobalTypeOK
<1>2. ASSUME view = "connect"
      PROVE  Panel!ConnectTypeOK
  <2>1. ConnsTyped /\ PanelTyped
    BY <1>2 DEF WebTypes
  <2> QED
    BY <2>1, Zenon DEF ConnsTyped, States, PanelTyped, ListsTyped, ChoiceTyped, Generations,
       Waiting, Pending, Panel!ConnectTypeOK, Panel!Connections, Connections
<1>3. view # "connect" => SlotTypeOK
  BY DEF WebTypes
<1>4. view = "files" => Files!FilesTypeOK
  BY Zenon DEF WebTypes, FileStates, Files!FilesTypeOK
<1>5. view = "tcpip" => Tcp!TcpIpTypeOK
  BY Zenon DEF WebTypes, TcpStates, Tcp!TcpIpTypeOK
<1>6. view = "install" => Apk!InstallTypeOK
  BY Zenon DEF WebTypes, InstallStates, DevicesOrNone, Apk!InstallTypeOK
<1>7. view = "bugreport" => Bugs!BugReportTypeOK
  BY Zenon DEF WebTypes, ReportStates, Bugs!BugReportTypeOK, Bugs!Connections, Connections
<1>8. view = "framebuffer" => Screen!FrameBufferTypeOK
  BY Zenon DEF WebTypes, ScreenStates, DevicesOrNone, Screen!FrameBufferTypeOK,
     Screen!Connections, Connections
<1>9. view = "demomode" => StatusBar!DemoModeTypeOK
  BY Zenon DEF WebTypes, DemoStates, Bars, Shown, DemoAsks, DemoSets, DevicesOrNone,
     StatusBar!DemoModeTypeOK, StatusBar!Connections, Connections
<1>10. view = "commands" => Commands!CommandsTypeOK
  BY Zenon DEF WebTypes, CommandsShape, CommandStates, Commands!CommandsTypeOK,
     Commands!Connections, Connections
<1>11. view = "devtools" => Chrome!DevToolsTypeOK
  BY Zenon DEF WebTypes, TimersTyped, Numbered, TimerStates, DevicesOrNone,
     Chrome!DevToolsTypeOK
<1>12. view = "inspector" => Popup!InspectorTypeOK
  BY Zenon DEF WebTypes, SocketStates, FrameMessages, Popup!InspectorTypeOK
<1>13. ASSUME view = "tabby"
       PROVE  Terminal!TabbyTypeOK
  <2>1. page \in TabbyStates /\ page.port <= page.ports
    BY <1>13, Zenon DEF WebTypes, TabbyTyped
  <2>2. page.port \in 0 .. MaxPorts /\ page.ports \in 0 .. MaxPorts
    BY <2>1, Zenon DEF TabbyStates
  <2>3. page.port \in 0 .. page.ports
    BY <2>1, <2>2
  <2>4. Terminal!Channel = Channels
    BY Zenon DEF Terminal!Channel, Channels, DevicesOrNone
  <2> QED
    BY <2>1, <2>2, <2>3, <2>4, Zenon DEF TabbyStates, Tabs, DevicesOrNone, Terminal!TabbyTypeOK
<1> QED
  BY <1>1, <1>2, <1>3, <1>4, <1>5, <1>6, <1>7, <1>8, <1>9, <1>10, <1>11, <1>12,
     <1>13 DEF WebTypeOK

\* The state of the page that is open has its type, whatever the slot and the
\* error dialog do meanwhile: every page of webadb keeps to its device or to
\* none, and the panel selects a device of its lists or none.
THEOREM WebTyped == Spec => []WebTypeOK
<1>1. Init => WebTypes
  BY TypesStart
<1>2. WebTypes /\ [Next]_vars => WebTypes'
  BY TypesKeep
<1> QED
  BY <1>1, <1>2, Types, PTL DEF Spec

=============================================================================
