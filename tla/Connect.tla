------------------------------ MODULE Connect ------------------------------
(***************************************************************************)
(* components/connect.tsx: the lists of devices, the device selected in    *)
(* them and the attempts to connect.  React runs an effect after every     *)
(* change of what the effect depends on: connect() depends on the selected *)
(* device object, so every change of the selection starts an attempt, also *)
(* while another one is under way or a device is connected.                *)
(***************************************************************************)
EXTENDS GlobalState, FiniteSets

CONSTANTS
    UsbSerials,       \* devices that may be plugged in
    WsSerials,        \* addresses the user may give to "WebSocket"
    TcpSerials,       \* hosts the user may give to "Direct Sockets TCP"
    PropSerials,      \* {ws://address:port} if a route names one, or {}
    MaxChanges        \* bound on what the host and the user change in the lists

VARIABLES
    plugged,          \* devices attached to the host (the browser's view)
    changes,          \* how often the host or the user changed the lists
    listings,         \* calls of updateUsbDeviceList() waiting for getDevices(),
                      \* and "request": the chooser of the browser is open
    address,          \* the address in the query of the route, if any
    usbDeviceList, webSocketDeviceList, tcpDeviceList,
    generation,       \* getDevices() makes new objects: which call made those listed
    usbSupported,     \* the browser has WebUSB
    selected,         \* the device object: <<serial, which one>> or NoDevice
    connecting,       \* the dialog "connecting" is shown
    effects           \* effects React has still to run

connectVars == <<plugged, changes, listings, address, usbDeviceList, webSocketDeviceList,
                 tcpDeviceList, generation, usbSupported, selected, connecting, effects>>

NoDevice == <<>>
Serials == UsbSerials \cup WsSerials \cup TcpSerials \cup PropSerials

\* A device object is a serial and which object of that serial it is: for
\* USB the call of getDevices() that made it, or Requested for one that the
\* chooser made; for an entry of the other lists First, or Again for each
\* entry that repeats an address.
Requested == MaxChanges + 2
First == 0
Again == 1
UsbDevices == UsbSerials \X (0 .. Requested)
Entries(serials) == serials \X {First, Again}
Devices == UsbDevices \cup Entries(Serials \ UsbSerials)

\* A list with one more entry; the first of an address stays the first.
Pushed(list, s) == list \cup {<<s, IF <<s, First>> \in list THEN Again ELSE First>>}
Lists(serials) ==
    {list \in SUBSET Entries(serials) : \A s \in serials :
        <<s, Again>> \in list => <<s, First>> \in list}

Attempting(c) == conns[c] \in {"opening", "authenticating"}

deviceList ==
    {<<s, generation>> : s \in usbDeviceList} \cup
    webSocketDeviceList \cup tcpDeviceList

ConnectTypeOK ==
    /\ adb \in 0 .. MaxConnections
    /\ conns \in [Connections ->
                    {"new", "opening", "authenticating", "open", "lost", "refused",
                     "failed", "over"}]
    /\ plugged \in SUBSET UsbSerials /\ usbSupported \in BOOLEAN
    /\ listings \in SUBSET (UsbSerials \cup {"list", "request"})
    /\ address \in SUBSET PropSerials
    /\ usbDeviceList \in SUBSET UsbSerials
    /\ webSocketDeviceList \in Lists(WsSerials \cup PropSerials)
    /\ tcpDeviceList \in Lists(TcpSerials)
    /\ changes \in 0 .. MaxChanges /\ generation \in 0 .. MaxChanges + 1
    /\ selected \in Devices \cup {NoDevice}
    /\ connecting \in BOOLEAN
    /\ effects \in SUBSET {"connect", "deviceList"}

\* The page is mounted: every effect runs once, the browser is asked for the
\* devices, or an error is shown if it has no WebUSB, and the saved hosts are
\* read.
ConnectInit ==
    /\ SlotInit
    /\ usbSupported \in BOOLEAN
    /\ errorDialogVisible = ~usbSupported
    /\ plugged \in SUBSET UsbSerials /\ changes = 0
    /\ listings = IF usbSupported THEN {"list"} ELSE {}
    /\ address = {}
    /\ usbDeviceList = {} /\ webSocketDeviceList = {}
    /\ tcpDeviceList \in Lists(TcpSerials)
    /\ generation = 0
    /\ selected = NoDevice
    /\ connecting = FALSE
    /\ effects = {"connect", "deviceList"}

---------------------------------------------------------------------------
(* The lists                                                               *)

ListsChange == changes < MaxChanges /\ changes' = changes + 1

\* The browser reports a device plugged in or out to the watcher, which
\* refreshes the list and will select the device that came.
UsbChange(s) ==
    /\ usbSupported
    /\ ListsChange
    /\ IF s \in plugged
       THEN plugged' = plugged \ {s} /\ listings' = listings \cup {"list"}
       ELSE plugged' = plugged \cup {s} /\ listings' = listings \cup {s}
    /\ UNCHANGED <<globalVars, address, usbDeviceList, webSocketDeviceList, tcpDeviceList,
                   generation, selected, connecting, effects, usbSupported>>

\* getDevices() answers; the list holds new objects.  The watcher then
\* selects the device it was called for, which may be gone again.
UsbListed(why) ==
    /\ why \in listings \ {"request"}
    /\ generation < MaxChanges + 1
    /\ listings' = listings \ {why}
    /\ usbDeviceList' = plugged
    /\ generation' = generation + 1
    /\ IF why = "list"
       THEN UNCHANGED selected /\ effects' = effects \cup {"deviceList"}
       ELSE /\ selected' = IF why \in plugged THEN <<why, generation'>> ELSE NoDevice
            /\ effects' = effects \cup {"deviceList"}
                          \cup (IF selected' = selected THEN {} ELSE {"connect"})
    /\ UNCHANGED <<globalVars, plugged, changes, address, webSocketDeviceList,
                   tcpDeviceList, connecting, usbSupported>>

\* The buttons are behind the dialogs, and gone while a device is connected.
ButtonsShown == UserFree /\ ~connecting /\ adb = 0
Menu == ButtonsShown /\ usbSupported

\* "USB" of the menu opens the chooser of the browser.
AddUsbDevice ==
    /\ Menu /\ "request" \notin listings /\ ListsChange
    /\ listings' = listings \cup {"request"}
    /\ UNCHANGED <<globalVars, plugged, address, usbDeviceList, webSocketDeviceList,
                   tcpDeviceList, generation, selected, connecting, effects,
                   usbSupported>>

\* requestDevice() answers with an object that is in no list, or with
\* undefined when the chooser was cancelled: either is selected, and then the
\* list is read anew.
UsbRequested(d) ==
    /\ "request" \in listings
    /\ d = NoDevice \/ d \in plugged \X {Requested}
    /\ listings' = (listings \ {"request"}) \cup {"list"}
    /\ selected' = d
    /\ effects' = effects \cup (IF d = NoDevice /\ selected = d THEN {} ELSE {"connect"})
    /\ UNCHANGED <<globalVars, plugged, changes, address, usbDeviceList,
                   webSocketDeviceList, tcpDeviceList, generation, connecting,
                   usbSupported>>

\* The rejection of requestDevice() is not handled: nothing else happens.
UsbNotRequested ==
    /\ "request" \in listings
    /\ listings' = listings \ {"request"}
    /\ UNCHANGED <<globalVars, plugged, changes, address, usbDeviceList,
                   webSocketDeviceList, tcpDeviceList, generation, selected, connecting,
                   effects, usbSupported>>

AddWebSocketDevice(s) ==
    /\ Menu /\ ListsChange
    /\ webSocketDeviceList' = Pushed(webSocketDeviceList, s)
    /\ effects' = effects \cup {"deviceList"}
    /\ UNCHANGED <<globalVars, plugged, listings, address, usbDeviceList, tcpDeviceList,
                   generation, selected, connecting, usbSupported>>

AddTcpDevice(s) ==
    /\ Menu /\ ListsChange
    /\ tcpDeviceList' = Pushed(tcpDeviceList, s)
    /\ effects' = effects \cup {"deviceList"}
    /\ UNCHANGED <<globalVars, plugged, listings, address, usbDeviceList,
                   webSocketDeviceList, generation, selected, connecting, usbSupported>>

\* The dropdown is disabled while a device is connected. An entry that
\* repeats an address may be another one than the one selected.
HandleSelectedChange(d) ==
    /\ ButtonsShown /\ d \in deviceList /\ (d # selected \/ d[2] = Again)
    /\ selected' = d /\ effects' = effects \cup {"connect"}
    /\ UNCHANGED <<globalVars, plugged, changes, listings, address, usbDeviceList,
                   webSocketDeviceList, tcpDeviceList, generation, connecting,
                   usbSupported>>

\* The effect on the lists: keep the selected serial (as the object now
\* listed first), or else take the first of the list.
FirstEntries(list) == {d \in list : d[2] = First}
FirstDevices ==
    CASE usbDeviceList # {} -> {<<s, generation>> : s \in usbDeviceList}
      [] usbDeviceList = {} /\ webSocketDeviceList # {} -> FirstEntries(webSocketDeviceList)
      [] OTHER -> FirstEntries(tcpDeviceList)

DeviceListEffect ==
    LET listed == {<<s, generation>> : s \in usbDeviceList}
                    \cup FirstEntries(webSocketDeviceList \cup tcpDeviceList)
        current == {d \in listed : selected # NoDevice /\ d[1] = selected[1]}
    IN selected' \in CASE current # {} -> current
                       [] current = {} /\ deviceList # {} -> FirstDevices
                       [] OTHER -> {NoDevice}

---------------------------------------------------------------------------
(* Attempts                                                                *)

\* The first half of connect(), up to the first await.  MaxConnections
\* bounds the attempts.
StartAttempt(c) ==
    /\ selected # NoDevice
    /\ conns[c] = "new" /\ \A d \in 1 .. c - 1 : conns[d] # "new"
    /\ conns' = [conns EXCEPT ![c] = "opening"]
    /\ connecting' = TRUE

\* The effect on [address, connect, port]: lists the given address once more
\* and connects.
ConnectEffect ==
    /\ webSocketDeviceList' = webSocketDeviceList
            \cup UNION {Pushed(webSocketDeviceList, s) : s \in address}
    /\ \/ \E c \in Connections : StartAttempt(c)
       \/ selected = NoDevice /\ UNCHANGED <<conns, connecting>>

\* React runs the effects of one render in their order. The first leaves a
\* copy of its list, whether it is longer or not, so the second runs again;
\* and connect() is a new function when another object is selected.
RunEffects ==
    /\ effects # {}
    /\ IF "connect" \in effects THEN ConnectEffect
       ELSE UNCHANGED <<webSocketDeviceList, conns, connecting>>
    /\ IF "deviceList" \in effects THEN DeviceListEffect ELSE UNCHANGED selected
    /\ effects' = (IF "connect" \in effects THEN {"deviceList"} ELSE {})
                  \cup (IF selected' = selected THEN {} ELSE {"connect"})
    /\ UNCHANGED <<adb, errorDialogVisible, plugged, changes, listings, address,
                   usbDeviceList, tcpDeviceList, generation, usbSupported>>

\* The query of the router comes with its first update, and goes and comes
\* with the links and the history of the browser.
ChangeRoute ==
    /\ address' \in {{}, PropSerials} \ {address}
    /\ effects' = effects \cup {"connect"}
    /\ UNCHANGED <<globalVars, plugged, changes, listings, usbDeviceList,
                   webSocketDeviceList, tcpDeviceList, generation, selected, connecting,
                   usbSupported>>

ConnectButton ==
    /\ ButtonsShown
    /\ \E c \in Connections : StartAttempt(c)
    /\ UNCHANGED <<adb, errorDialogVisible, plugged, changes, listings, address,
                   usbDeviceList, webSocketDeviceList, tcpDeviceList, generation,
                   selected, effects, usbSupported>>

EndAttempt(c, state) ==
    /\ conns' = [conns EXCEPT ![c] = state]
    /\ connecting' = FALSE

connectRest == <<plugged, changes, listings, address, usbDeviceList,
                 webSocketDeviceList, tcpDeviceList, generation, usbSupported, selected,
                 effects>>

Opened(c) ==
    /\ conns[c] = "opening"
    /\ conns' = [conns EXCEPT ![c] = "authenticating"]
    /\ UNCHANGED <<adb, errorDialogVisible, connecting, connectRest>>

\* selected.connect() fails: nothing to clean up.
OpenFailed(c) ==
    /\ conns[c] = "opening"
    /\ EndAttempt(c, "failed")
    /\ ShowErrorDialog
    /\ UNCHANGED <<adb, connectRest>>

Authenticated(c) ==
    /\ conns[c] = "authenticating"
    /\ EndAttempt(c, "open")
    /\ adb' = c
    /\ UNCHANGED <<errorDialogVisible, connectRest>>

\* The error is shown at once, the clean-up waits for writable.close().
Refused(c) ==
    /\ conns[c] = "authenticating"
    /\ conns' = [conns EXCEPT ![c] = "refused"]
    /\ ShowErrorDialog
    /\ UNCHANGED <<adb, connecting, connectRest>>

RefusedDispose(c) ==
    /\ conns[c] = "refused"
    /\ EndAttempt(c, "over")
    /\ adb' = 0
    /\ UNCHANGED <<errorDialogVisible, connectRest>>

\* device.disconnected settles: resolved, or rejected with an error.
Disconnected(c) ==
    /\ conns[c] = "open"
    /\ conns' = [conns EXCEPT ![c] = "lost"]
    /\ errorDialogVisible' \in {errorDialogVisible, TRUE}
    /\ UNCHANGED <<adb, connecting, connectRest>>

\* Mutant of Dispose: the slot keeps the connection that is over.
DisposeKeepsSlot(c) ==
    /\ conns[c] = "lost"
    /\ conns' = [conns EXCEPT ![c] = "over"]
    /\ UNCHANGED <<adb, errorDialogVisible, connecting, connectRest>>

Dispose(c) ==
    /\ conns[c] = "lost"
    /\ conns' = [conns EXCEPT ![c] = "over"]
    /\ adb' = 0
    /\ UNCHANGED <<errorDialogVisible, connecting, connectRest>>

\* The button "disconnect": GLOBAL_STATE.adb.close() ends the connection in
\* the slot, or fails with an error.
Disconnect ==
    /\ UserFree /\ ~connecting /\ adb # 0
    /\ \/ /\ conns[adb] = "open"
          /\ conns' = [conns EXCEPT ![adb] = "lost"]
          /\ UNCHANGED errorDialogVisible
       \/ ShowErrorDialog /\ UNCHANGED conns
    /\ UNCHANGED <<adb, connecting, connectRest>>

Settle(c) ==
    Opened(c) \/ OpenFailed(c) \/ Authenticated(c) \/ Refused(c)

\* The clean-up waits for the streams of the connection only, which settle
\* when it is over; nothing else is sure to end, an attempt waits for the
\* user to allow it on the device.
CleanUp(c) == Dispose(c) \/ RefusedDispose(c)

ConnectStep ==
    \/ \E s \in UsbSerials : UsbChange(s)
    \/ AddUsbDevice \/ UsbNotRequested \/ ChangeRoute
    \/ \E d \in UsbDevices \cup {NoDevice} : UsbRequested(d)
    \/ \E why \in UsbSerials \cup {"list"} : UsbListed(why)
    \/ \E s \in WsSerials : AddWebSocketDevice(s)
    \/ \E s \in TcpSerials : AddTcpDevice(s)
    \/ \E d \in Devices : HandleSelectedChange(d)
    \/ RunEffects \/ ConnectButton \/ Disconnect
    \/ \E c \in Connections : Settle(c) \/ Disconnected(c) \/ CleanUp(c)
    \/ HideErrorDialog /\ UNCHANGED connectVars

ConnectSpec == ConnectInit /\ [][ConnectStep]_<<globalVars, connectVars>>

---------------------------------------------------------------------------
(* Properties                                                              *)

\* How an attempt looks to the pages: nothing until it takes the slot.
SlotConns ==
    [c \in Connections |->
        IF conns[c] \in {"opening", "authenticating", "refused", "failed"} THEN "new"
        ELSE conns[c]]
Slot == INSTANCE DeviceSlot WITH conns <- SlotConns

\* The pages of the session see a device slot (DeviceSlot), however the
\* attempts to connect, the losses and the clean-ups interleave.
ImplementsSlot == Slot!SlotSpec

\* The dialog "connecting" is up only while an attempt is under way: with
\* several attempts at once, none of them leaves it behind.
DialogMeansAttempt ==
    connecting => \E c \in Connections : Attempting(c) \/ conns[c] = "refused"
=============================================================================
