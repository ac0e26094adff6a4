------------------------------- MODULE Mirror -------------------------------
(***************************************************************************)
(* components/scrcpy/state.tsx with the page, the command bar, the video   *)
(* and the navigation bar: a session of scrcpy on the device in the slot.  *)
(* start() awaits seven times and reads the slot anew after most of them;  *)
(* meanwhile the device may go, be replaced, or the server exit.           *)
(*                                                                         *)
(* Servers are numbered as they are launched.  What a step awaited and     *)
(* what the code does next is one step.  The speeds of the dialog, the log,*)
(* the clipboard and the sound itself are left out.                        *)
(***************************************************************************)
EXTENDS GlobalState, FetchServer, Recorder, Keyboard, AudioDecode

CONSTANTS
    MaxServers    \* bound on the servers launched
ASSUME MaxServersAssumption == MaxServers \in Nat

VARIABLES
    stage,        \* where start() is: what it awaits
    target,       \* the connection the awaited call was made on
    connecting, running,
    client,       \* STATE.client: a server, 0 when undefined
    servers,      \* each server: whether it runs, and on which connection
    exitWatched,  \* servers whose exit will call dispose()
    stops,        \* calls of stop() awaiting client.close(), by server
    decoder,      \* STATE.decoder and its counter of frames: whose, 0 if none
    audioPlayer,  \* STATE.audioPlayer: whose, 0 if none
    video,        \* what the video stream of each server may deliver next
    audio,        \* the same for the audio streams
    recorderOf,   \* history: the server RECORD_STATE.recorder was made for, 0 if none
    isFullScreen, rotation,
    held          \* what the pointer and the buttons hold down on the device

sessionVars == <<stage, target, connecting, running, client, servers, exitWatched, stops,
                 decoder, audioPlayer, video, audio, recorderOf>>
showVars == <<isFullScreen, rotation, held>>
mirrorVars == <<sessionVars, showVars, recordVars, keyboardVars, cachedValue>>

Servers == 1 .. MaxServers
Stages == {"idle", "fetch", "push", "launch", "save", "screen", "register"}
Fresh == {s \in Servers : servers[s].state = "new"}
Launched == {s \in Servers : servers[s].state # "new"}
\* The server that start() launched: the last one.
Current == CHOOSE s \in Launched : \A t \in Launched : t <= s

MirrorTypeOK ==
    /\ RecorderTypeOK /\ KeyboardTypeOK /\ FetchTypeOK
    /\ stage \in Stages /\ target \in 0 .. MaxConnections
    /\ connecting \in BOOLEAN /\ running \in BOOLEAN /\ isFullScreen \in BOOLEAN
    /\ {client, decoder, audioPlayer} \subseteq 0 .. MaxServers
    /\ servers \in [Servers -> [state : {"new", "alive", "exited"}, conn : 0 .. MaxConnections]]
    /\ exitWatched \subseteq Servers /\ stops \subseteq Servers
    /\ video \in [Servers -> {"off", "waiting", "configuration", "key", "any"}]
    /\ audio \in [Servers -> {"off", "waiting", "on"}]
    /\ recorderOf \in 0 .. MaxServers
    /\ rotation \in 0 .. 3
    /\ held \subseteq {"touch", "Back", "AndroidHome", "AndroidAppSwitch", "VolumeUp"}

\* The first run of the autorun on the slot disposes of nothing.
MirrorInit ==
    /\ RecorderInit /\ KeyboardInit /\ FetchInit
    /\ stage = "idle" /\ target = 0
    /\ connecting = FALSE /\ running = FALSE
    /\ client = 0
    /\ servers = [s \in Servers |-> [state |-> "new", conn |-> 0]]
    /\ exitWatched = {} /\ stops = {}
    /\ decoder = 0 /\ audioPlayer = 0
    /\ video = [s \in Servers |-> "off"] /\ audio = [s \in Servers |-> "off"]
    /\ recorderOf = 0
    /\ isFullScreen = FALSE /\ rotation = 0 /\ held = {}

---------------------------------------------------------------------------
(* dispose()                                                               *)

\* Mutant of MirrorDispose: a recording goes on.
DisposeRecordsOn ==
    /\ decoder' = 0
    /\ UNCHANGED recordVars
    /\ Detached
    /\ audioPlayer' = 0
    /\ isFullScreen' = FALSE
    /\ client' = 0
    /\ running' = FALSE

MirrorDispose ==
    /\ decoder' = 0
    /\ RecordDispose
    /\ Detached
    /\ audioPlayer' = 0
    /\ isFullScreen' = FALSE
    /\ client' = 0
    /\ running' = FALSE

\* What dispose() leaves alone of the session.
disposeRest == <<video, audio, recorderOf, rotation, held>>

\* The autorun on the slot: it runs when the slot becomes empty.
DeviceStep ==
    /\ SessionStep
    /\ IF adb # 0 /\ adb' = 0
       THEN MirrorDispose
       ELSE UNCHANGED <<decoder, audioPlayer, client, running, isFullScreen, recordVars, keyboardVars>>
    /\ UNCHANGED <<stage, target, connecting, servers, exitWatched, stops, disposeRest, cachedValue>>

\* The server exits, also because its connection is lost.
Exit(s) ==
    /\ servers[s].state = "alive"
    /\ servers' = [servers EXCEPT ![s].state = "exited"]
    /\ IF s \in exitWatched
       THEN MirrorDispose
       ELSE UNCHANGED <<decoder, audioPlayer, client, running, isFullScreen, recordVars, keyboardVars>>
    /\ exitWatched' = exitWatched \ {s}
    /\ UNCHANGED <<globalVars, stage, target, connecting, stops, disposeRest, cachedValue>>

\* The button "Stop" of the command bar.
Stop ==
    /\ UserFree /\ running
    /\ stops' = stops \cup {client}
    /\ UNCHANGED <<globalVars, stage, target, connecting, running, client, servers, exitWatched,
                   decoder, audioPlayer, video, audio, recorderOf, showVars, recordVars,
                   keyboardVars, cachedValue>>

\* close() is over and stop() goes on, in whatever session there is by then.
Stopped(s) ==
    /\ s \in stops
    /\ stops' = stops \ {s}
    /\ MirrorDispose
    /\ UNCHANGED <<globalVars, stage, target, connecting, servers, exitWatched, disposeRest, cachedValue>>

---------------------------------------------------------------------------
(* start()                                                                 *)

startRest == <<running, client, exitWatched, stops, decoder, audioPlayer, video, audio, recorderOf,
               showVars, recordVars, keyboardVars>>

\* The button "Start" is on the page while no session runs, behind the dialog
\* "connecting".
Start ==
    /\ UserFree /\ adb # 0 /\ ~running /\ ~connecting
    /\ connecting' = TRUE
    /\ stage' = "fetch"
    /\ FetchServer
    /\ UNCHANGED <<globalVars, target, servers, startRest>>

\* An awaited call fails, or is made without a device.
StartFails ==
    /\ stage # "idle"
    /\ IF stage = "fetch" THEN FetchFailed ELSE UNCHANGED cachedValue
    /\ ShowErrorDialog
    /\ stage' = "idle"
    /\ connecting' = FALSE
    /\ UNCHANGED <<slotVars, target, servers, startRest>>

\* An awaited call on the connection it was made on succeeds; the next call is
\* made on the connection in the slot.
OnTarget == target # 0 /\ conns[target] = "open"

ServerFetched ==
    /\ stage = "fetch"
    /\ Fetched
    /\ stage' = "push" /\ target' = adb
    /\ UNCHANGED <<globalVars, connecting, servers, startRest>>

ServerPushed ==
    /\ stage = "push" /\ OnTarget
    /\ stage' = "launch" /\ target' = adb
    /\ UNCHANGED <<globalVars, connecting, servers, startRest, cachedValue>>

ServerLaunched ==
    /\ stage = "launch" /\ OnTarget
    /\ \E s \in Fresh :
        /\ \A t \in Fresh : s <= t
        /\ servers' = [servers EXCEPT ![s] = [state |-> "alive", conn |-> target]]
    /\ stage' = "save" /\ target' = adb
    /\ UNCHANGED <<globalVars, connecting, startRest, cachedValue>>

\* The client is there, and a keyboard for the device in the slot: at once, or
\* registered first when that is a USB device.
EnterSession ==
    /\ client' = Current
    /\ running' = TRUE
    /\ \/ /\ adb # 0
          /\ stage' = "register" /\ target' = adb
          /\ UNCHANGED <<connecting, keyboardVars>>
       \/ stage' = "idle" /\ connecting' = FALSE /\ Attached("scrcpy") /\ UNCHANGED target

\* The settings are saved on the device; the session has its streams, its
\* recorder and its watch of the exit; the streams of earlier servers go on.
\* Of a server that exited already the watch comes next: dispose() follows
\* what is left of the step.
SettingsSaved ==
    /\ stage = "save" /\ OnTarget
    /\ recorder' = NewRecorder
    /\ recorderOf' = Current
    /\ video' = [video EXCEPT ![Current] = "waiting"]
    /\ audio' = [audio EXCEPT ![Current] = "waiting"]
    /\ IF servers[Current].state = "alive"
       THEN /\ exitWatched' = exitWatched \cup {Current}
            /\ \/ EnterSession
               \/ stage' = "screen" /\ UNCHANGED <<client, running, target, connecting, keyboardVars>>
            /\ UNCHANGED <<decoder, audioPlayer, isFullScreen, recording, clock>>
       ELSE /\ \/ adb # 0 /\ stage' = "register" /\ target' = adb /\ UNCHANGED connecting
               \/ stage' = "idle" /\ connecting' = FALSE /\ UNCHANGED target
               \/ stage' = "screen" /\ UNCHANGED <<target, connecting>>
            /\ decoder' = 0 /\ audioPlayer' = 0 /\ client' = 0 /\ running' = FALSE
            /\ isFullScreen' = FALSE
            /\ recording' = FALSE /\ clock' = ZeroClock
            /\ Detached
            /\ UNCHANGED exitWatched
    /\ held' = {}
    /\ UNCHANGED <<globalVars, servers, stops, rotation, cachedValue>>

\* "turnScreenOff": the message is written to the server, which must be there.
ScreenOff ==
    /\ stage = "screen"
    /\ servers[Current].state = "alive" /\ conns[servers[Current].conn] = "open"
    /\ EnterSession
    /\ UNCHANGED <<globalVars, servers, exitWatched, stops, decoder, audioPlayer, video, audio,
                   recorderOf, showVars, recordVars, cachedValue>>

KeyboardRegistered ==
    /\ stage = "register" /\ OnTarget
    /\ Attached("aoa")
    /\ stage' = "idle" /\ connecting' = FALSE
    /\ UNCHANGED <<globalVars, target, running, client, servers, exitWatched, stops, decoder,
                   audioPlayer, video, audio, recorderOf, showVars, recordVars, cachedValue>>

---------------------------------------------------------------------------
(* The streams                                                             *)

\* What comes of any server goes to the recorder there is by then.
streamRest == <<globalVars, stage, target, connecting, running, client, servers, exitWatched,
                stops, recorderOf, showVars, recording, clock, keyboardVars, cachedValue>>

Reached(s) == [recorder EXCEPT !.mixed = @ \/ s # recorderOf]

\* client.videoStream settles, in its own time.
VideoStarts(s) ==
    /\ video[s] = "waiting"
    /\ recorder' = [Reached(s) EXCEPT !.metadata = TRUE]
    /\ decoder' = s
    /\ video' = [video EXCEPT ![s] = "configuration"]
    /\ UNCHANGED <<streamRest, audioPlayer, audio>>

\* A configuration comes first; after one, the next frame is a keyframe.  A
\* recorder without metadata throws, and the stream is over.
VideoPacket(s) ==
    /\ \/ /\ video[s] \in {"configuration", "key", "any"} /\ ~recorder.metadata
          /\ video' = [video EXCEPT ![s] = "off"]
          /\ UNCHANGED recorder
       \/ /\ video[s] \in {"configuration", "any"} /\ recorder.metadata
          /\ recorder.description < MaxConfigs
          /\ recorder' = AddConfiguration(Reached(s), recorder.description + 1)
          /\ video' = [video EXCEPT ![s] = "key"]
       \/ /\ video[s] \in {"key", "any"} /\ recorder.metadata
          /\ recorder' = AddVideoPacket(Reached(s), "key")
          /\ video' = [video EXCEPT ![s] = "any"]
       \/ /\ video[s] = "any" /\ recorder.metadata /\ Len(recorder.buffer) < MaxBuffer
          /\ recorder' = AddVideoPacket(Reached(s), "delta")
          /\ UNCHANGED video
    /\ UNCHANGED <<streamRest, decoder, audioPlayer, audio>>

\* client.audioStream settles; a device that has none to send disables it.
AudioStarts(s) ==
    /\ audio[s] = "waiting"
    /\ \/ /\ audio' = [audio EXCEPT ![s] = "on"]
          /\ audioPlayer' = s
          /\ recorder' = [Reached(s) EXCEPT !.audioCodec = TRUE]
       \/ audio' = [audio EXCEPT ![s] = "off"] /\ UNCHANGED <<audioPlayer, recorder>>
    /\ UNCHANGED <<streamRest, decoder, video>>

AudioPacket(s, p) ==
    /\ audio[s] = "on" /\ Len(recorder.buffer) < MaxBuffer
    /\ recorder' = AddAudioPacket(Reached(s), p)
    /\ UNCHANGED <<streamRest, decoder, audioPlayer, video, audio>>

---------------------------------------------------------------------------
(* The page of a running session                                           *)

Shown == UserFree /\ running

\* start() of the recorder throws without metadata, before anything is set.
RecordButton ==
    /\ Shown
    /\ RecordStart \/ RecordStop
    /\ UNCHANGED <<globalVars, sessionVars, showVars, keyboardVars, cachedValue>>

FullScreenButton ==
    /\ Shown /\ ~isFullScreen
    /\ isFullScreen' = TRUE
    /\ UNCHANGED <<globalVars, sessionVars, rotation, held, recordVars, keyboardVars, cachedValue>>

\* fullscreenchange: the user left full screen.
LeaveFullScreen ==
    /\ isFullScreen
    /\ isFullScreen' = FALSE
    /\ UNCHANGED <<globalVars, sessionVars, rotation, held, recordVars, keyboardVars, cachedValue>>

\* Mutant of RotateVideoLeft: does not wrap.
RotateVideoLeftPast ==
    /\ Shown
    /\ rotation' = rotation - 1
    /\ UNCHANGED <<globalVars, sessionVars, isFullScreen, held, recordVars, keyboardVars, cachedValue>>

RotateVideoLeft ==
    /\ Shown
    /\ rotation' = IF rotation - 1 < 0 THEN 3 ELSE rotation - 1
    /\ UNCHANGED <<globalVars, sessionVars, isFullScreen, held, recordVars, keyboardVars, cachedValue>>

RotateVideoRight ==
    /\ Shown
    /\ rotation' = (rotation + 1) % 4
    /\ UNCHANGED <<globalVars, sessionVars, isFullScreen, held, recordVars, keyboardVars, cachedValue>>

inputRest == <<globalVars, sessionVars, isFullScreen, rotation, recordVars, cachedValue>>

\* The pointer on the video or on the navigation bar.  A volume button sends
\* both messages by itself, the second after the first is written.  One thing is held at a time.
Press(what) ==
    /\ Shown /\ client # 0
    /\ held = {}
    /\ held' = {what}
    /\ UNCHANGED <<inputRest, keyboardVars>>

Release(what) ==
    /\ what \in held /\ client # 0
    /\ held' = held \ {what}
    /\ UNCHANGED <<inputRest, keyboardVars>>

\* Nothing is injected before the keyboard is registered.
KeyEvent(key) ==
    /\ Shown /\ client # 0
    /\ Down(key) \/ Up(key)
    /\ UNCHANGED <<inputRest, held>>

\* The window loses the focus.
Blur ==
    /\ client # 0
    /\ Reset
    /\ UNCHANGED <<inputRest, held>>

---------------------------------------------------------------------------
SessionActions ==
    \/ Start \/ StartFails \/ ServerFetched \/ ServerPushed \/ ServerLaunched
    \/ SettingsSaved \/ ScreenOff \/ KeyboardRegistered
    \/ RecordButton \/ Stop \/ DeviceStep
    \/ \E s \in Servers : Stopped(s) \/ Exit(s)

VideoActions == \E s \in Servers : VideoStarts(s)
AudioActions == \E s \in Servers : AudioStarts(s)

StreamActions ==
    \E s \in Servers : VideoPacket(s) \/ \E p \in Audio : AudioPacket(s, p)

ClockActions ==
    Tick /\ UNCHANGED <<globalVars, sessionVars, showVars, keyboardVars, cachedValue>>

InputActions ==
    \/ FullScreenButton \/ LeaveFullScreen \/ RotateVideoLeft \/ RotateVideoRight
    \/ \E what \in {"touch", "Back", "AndroidHome", "AndroidAppSwitch", "VolumeUp"} :
            Press(what) \/ Release(what)
    \/ \E key \in Keys : KeyEvent(key)
    \/ Blur

---------------------------------------------------------------------------
(* Properties                                                              *)

\* The page shows a session while, and only while, it has a client, and the
\* server of that client has not exited: exits, losses of the device and
\* stops that come while start() is still under way leave no dead picture.
PictureAlive ==
    /\ running <=> client # 0
    /\ running => servers[client].state = "alive"

\* A session that is over leaves no recording behind that nobody can stop.
RecordingOwned == recording => running

\* start() is never entered twice, although it clears its dialog last and the
\* page shows the button as soon as running is false.
OneStart == connecting <=> stage # "idle"

\* clientPositionToDevicePosition() on a square of side 1: the place of the
\* device that is seen at a place of the view.
DevicePosition(x, y, r) ==
    LET sx == IF r % 2 = 1 THEN y ELSE x
        sy == IF r % 2 = 1 THEN x ELSE y
    IN <<IF r \in {2, 3} THEN 1 - sx ELSE sx, IF r \in {1, 2} THEN 1 - sy ELSE sy>>

\* The page turns the video clockwise by a quarter, rotation times.
QuarterTurn(p) == <<1 - p[2], p[1]>>
Seen(p, r) == CASE r = 0 -> p
                [] r = 1 -> QuarterTurn(p)
                [] r = 2 -> QuarterTurn(QuarterTurn(p))
                [] r = 3 -> QuarterTurn(QuarterTurn(QuarterTurn(p)))

\* Whatever the rotation, a touch lands on what is seen under the pointer.
PointerExact ==
    \A x \in {0, 1}, y \in {0, 1} : Seen(DevicePosition(x, y, rotation), rotation) = <<x, y>>
=============================================================================
