# TLA+ models of MDevPlat

MDevPlat is a development platform for handheld terminals: a web IDE (an Eclipse
Theia product, `cdt/`), a web site (`site/`), a browser front end for adb
(`webadb/`) and, on the host, a set of Qt/C++ services (`service/`) that the web
parts command over TCP. Three of these parts carry state and control of their
own, and are modelled: the SSH client of the simulator manager with the framing
of the services' commands; `webadb`, where a page, a device that may be unplugged
and a user act at once; and the extensions of the desktop application that keep
state (updater, launcher, generator of examples).

All paths below are relative to `src/`. `ssh/` stands for
`service/SimulatorManager/app/ssh/`, `web/` for `webadb/packages/webadb/src/`,
`ext/` for `cdt/theia-extensions/`.

## 1. The system

| Component | State it keeps | Operations | Interacts with |
|---|---|---|---|
| SSH connection (`ssh/sshconnection.cpp`) | connection state, key exchange state, error, two timers, queue of key queries | connectToHost, disconnectFromHost, a handler per packet type, timeouts, agent signals | socket, ssh-agent, channel manager, user |
| SSH channel and remote process (`ssh/sshchannel.cpp`, `sshremoteprocess.cpp`) | channel state, process state, two windows, send buffer, reply timer | start, write, close, a handler per channel packet | connection (sends, exceptions, timeout), channel manager |
| Channel manager (`ssh/sshchannelmanager.cpp`) | map of channels, queue of forward servers waiting for a reply | dispatch, insert, remove, closeAllChannels | channels, connection |
| Port forwarding (`ssh/sshtcpipforwardserver.cpp`, tunnels) | state and reply timer of each server | initialize, close, replies | channel manager |
| Connection pool (`ssh/sshconnectionmanager.cpp`) | acquired, unacquired, deprecated lists, two mutexes | acquire, release, forceNew, cleanup, expiry | threads, connections |
| SFTP (`ssh/sftpchannel.cpp`) | jobs, requests in flight, offsets | list, upload, download, directory upload | channel |
| ssh-agent client (`ssh/sshagent.cpp`) | keys, pending requests, error | refresh, sign | every connection |
| Packets, key exchange, crypto (`ssh/ssh*packet*.cpp`, `sshkeyexchange.cpp`, ...) | buffers, keys | encode, decode, encrypt | connection, Botan |
| Command framing (`tcpdatareceiver.cpp`, one copy per service) | partial text, its length | read, handle | socket, client worker |
| Simulator manager (`service/SimulatorManager/app`) | list of simulators, their processes, SSH connections and settings | list, add, update, remove, start, stop | framing, SSH, QEMU, Android SDK |
| Android device manager, wizard, launcher (`service/...`) | child processes | a few commands | framing, adb, templates |
| Device connection (`web/components/connect.tsx`, `web/state/global.ts`) | device lists, selected device, dialog; the one device slot, the error dialog | plug, select, connect, disconnect, clean up | every page, ya-webadb |
| File manager (`web/pages/file-manager.tsx`) | directory, listing, runs that read one, upload dialog | change directory, upload, download, delete, preview | slot, device |
| ADB over WiFi, installation, bug reports (`web/pages/tcpip.tsx`, `install.tsx`, `bug-report.tsx`) | answers of the device, flags and progress of work under way | query, apply, install, report | slot, device |
| Screen capture, demo mode, power, audio (`web/pages/framebuffer.tsx`, `power.tsx`, `audio.tsx`, `web/components/demo-mode-panel.tsx`) | picture; settings of the status bar; what a device supports | capture, save, set, reboot, enable | slot, device |
| Chrome DevTools (`web/pages/chrome-devtools*.tsx`) | browsers found, timer; per popup a WebSocket and a message port | poll, inspect, relay | slot, device, popup |
| Terminal (`web/components/tabby-frame-manager.tsx`, `tabby-launcher`, `tabby-tango`) | the frame, the channel to it, the shell of a tab | attach, connect, start, kill | slot, iframe |
| Screen mirroring (`web/components/scrcpy/`) | client, decoder, recorder, keyboard, settings | start, stop, record, inject, rotate, configure | slot, server on the device |
| Logcat and packet log (`web/pages/logcat.tsx`, `packet-log.tsx`, `web/components/grid.tsx`, `list-selection.ts`) | list, buffer, selection, position | start, stop, clear, select, scroll | slot, device |
| Transports of adb (`adb-daemon-ws`, `adb-daemon-direct-sockets`) | the socket and the two streams made of it | connect, read, write, close | ya-webadb, browser |
| Updater (`ext/updater`) | clients, first check, prompts and progress of each window | check, report, download, restart | electron-updater, windows |
| Launcher, generator (`ext/launcher`, `ext/blueprint-example*`) | paths.json; workspace folders, tasks.json, launch.json | ask, create; choose, check, generate | user, file system |
| Web site, demos, branding, packaging (`site`, `cdtDemo`, `ext/product`, `docker*`) | views and content | | |

Everything in `ssh/` except the connection pool runs in one thread, driven by
Qt signals, timers and the calls of its user. What is hard in it is order, not
parallelism: a handler may call back into its user while its own state is half
changed, packets of the server arrive in any order, timers race with the answers
they wait for, and objects outlive the connection they belong to. The services
run in one thread too, but their handlers may start nested event loops. The web
parts are single-threaded JavaScript: what is hard in them is the `await`. An
asynchronous function reads the slot, or its own state, again after each one,
when the device may be gone or another one be there, a second call may be under
way, or React may have run an effect in between.

What makes each component correct:

* **Connection**: no credentials before encryption; some timer always watches
  it; after the end neither its timers nor its socket fire again; every attempt and session is
  reported to its user exactly once; it ends even if the peer is silent.
* **Channel**: neither side exceeds or starves the other's window; CLOSE is sent
  once and always answered; what a conforming server sends is never out of place; the user of a
  process hears its start and its end at most once each, and hears something.
* **Framing**: commands are handled once, whole, in order, however the stream is
  cut and however long handlers take.
* **Forward servers**: the reply queue stays in step with the requests sent; a
  server is listed if and only if it listens.
* **Pool**: a connection has one owner thread, is freed once and not while used;
  acquiring never deadlocks.
* **SFTP**: every job ends once, with every byte at its offset, and requests in
  flight are counted right.
* **Simulators**: a process pointer is live when used; one SSH connection is
  acquired and released per simulator.
* **Device connection**: whatever attempts, losses and clean-ups overlap, the
  pages see one slot that holds a connection or none, and a lost one leaves it.
* **Pages of webadb**: what a page shows belongs to what it says it shows; work
  under way is shown, one piece at a time, and an upload's dialog goes away.
* **Mirroring**: a picture is shown while, and only while, its server is alive; a
  recording has an owner, begins with a keyframe and has the configuration received
  last; a key that is down is held by the page, or was left by a keyboard the page
  has no more; a touch lands on what is under the pointer; settings are among those
  offered.
* **Logs**: entries are listed once and in order; rows are rows of the list and
  show whether they are selected.
* **Transports**: no message is lost between socket and library, and the library
  learns of every end.
* **Extensions**: an update found at the start is told to somebody, and the progress
  on the screen is the one that will be taken away; nobody is asked again once the
  answer about the launcher is stored; tasks are of an example generated under their
  name and launches have their task.

The `hazards` of `PROJECT.json` list, line by line, what can go wrong and which
property watches it.

## 2. Modules

| Module | What it is |
|---|---|
| `SshLifecycle` | abstract: what `SshConnection::state()` and its signals promise to a user |
| `SshConnection` | the connection, in full; implements `SshLifecycle` |
| `SshConnection_proofs` | inductive invariant, safety theorems and the refinement |
| `SshChannel` | one session channel with its remote process and its place in the manager |
| `SshChannel_proofs` | inductive invariant and safety theorems |
| `TcpDataReceiver` | the framing of commands |
| `TcpDataReceiver_proofs` | inductive invariant and the correctness of the framing |
| `SftpDownload` | one download of an SFTP channel, with its reads in flight |
| `SftpDownload_proofs` | inductive invariant and safety theorems |
| `DeviceSlot`, `GlobalState` | abstract: the device slot that pages rely on; with the error dialog, the state all pages share |
| `Connect` | the connect panel; implements `DeviceSlot` |
| `AsyncEffect` | a function of which only the last call counts |
| `FileManager`, `TcpIp`, `Install`, `BugReport`, `FrameBuffer`, `DemoMode`, `DeviceCommands`, `DevTools`, `Inspector`, `TabbyFrame` | one page each |
| `WebSession` | composes the slot with the panel or one page |
| `WebSession_proofs` | the refinement, the invariants of the pages and their types |
| `Mirror`, `Recorder`, `AudioDecode`, `Keyboard`, `FetchServer`, `MirrorSettings` | the parts of screen mirroring |
| `Scrcpy` | composes them; `MCScrcpy` gives TLC its encoders |
| `Scrcpy_proofs` | types, what is shown and what is there, recordings |
| `ListSelection`, `Grid`, `LogcatPage`, `PacketLog` | a selection, a grid, and the two pages with them |
| `Transport` | a socket made into streams |
| `Logs`, `Logs_proofs` | composes the two pages and the transport; types, the order of the log, the rows |
| `Updater`, `Launcher`, `ExampleGenerator` | the extensions of the desktop application |
| `Desktop`, `Desktop_proofs` | the three side by side; types and safety |

TLC runs on these modules themselves; each `.cfg` gives the constants.

### SshConnection

State. One variable per field that decides something: `state` (m_state), `err`
(m_error), `kex` (m_keyExchangeState), `timeoutOn` and `keepAliveOn` (the timers),
`probe` (m_lastInvalidMsgSeqNr holds a number), `pending` (length of
m_pendingKeyChecks) and so on; each declaration names its field. `wired` says
whether the signals of the socket are connected to this object. `reports` is
history: the public signals since the last connectToHost(). `socket`,
`srvAlive` and the `agent*` variables are the environment.

Actions. One per slot, packet handler and public call, with the name of the
function it models. Two places call back into the user half way, and are split
there: `CloseConnection` is closeConnection() up to closeAllChannels(),
`FinishClose` the rest, and between them `DisconnectWhileClosing` is the user's
slot calling disconnectFromHost(). `loop` is the loop of handlePackets(): while
it is set only packets and the slots they call run, and it goes on after a packet
has closed the connection, exactly as the code does. `HandledIn` is the table
m_packetHandlers.

Abstractions. A packet is its type. Whether its content is acceptable is a
choice: `UnexpectedPacket` is any packet that the parser, the table or a handler
rejects with an exception, all of which end the same way. Cryptography is two
flags, "the keys of this attempt are installed" for each direction. The agent's
slots that failed attempts leave attached are counted in `agentSlots`, bounded by
`MaxAgentSlots` in the guard of `ConnectToHost`. A terminated process (an exception
leaves the slot handleAgentKeysUpdated()) is `crashed`; `Terminated` keeps it from
counting as a deadlock, and every other deadlock is checked for.

### SshChannel

The channel, its process and its entry in the manager are one state machine,
because the code makes them one: a handler of AbstractSshChannel calls the hooks
of SshRemoteProcessPrivate and is called by the manager, which removes the
channel. The server is in the model: `conforming` is chosen at the start. A
conforming server answers only what it was asked, sends no more than its window
and nothing after its CLOSE (`awaited`, `serverEnd`, `credit` are its view); any
other server sends any packet at any time. Every property says which it is about.
Windows are counted modulo `Modulus`, as the `quint32` they are: `WindowSum`
keeps the sum of handleWindowAdjust() within 32 bits as the code does, whose test
for overflow comes too late to see any. `allowance` counts what the server really
granted.

The channels of a connection share nothing but the connection, whose end
(`ConnectionEnds`, `LoseConnection`) they all see, so one channel stands for all.

### TcpDataReceiver

Bytes are numbered; a text is the pair of its first and last byte, so that
"whole, once, in order" can be said without any content. `Length` reads the
length of the frame at a position, and is arbitrary where no frame starts, which
`HandledInOrder` excludes. read() is split at the call of the handler, since a
handler may run a nested event loop: bytes arrive and the peer may disconnect
before `HandlerReturns`. QTcpSocket emits no readyRead while a slot for one is
running, so read() is not re-entered. A disconnect in that time makes read()
dereference a null pointer: the model stops in `crashed`.

### SftpDownload

The jobs of a channel share only the numbering of requests, so one download
stands for all: request 0 has the number of the job, the others are those that
spawnReadRequests() adds. `asked` and `wanted` are the server's side, what it has
still to answer on each request; every action but `CreateJob` and the end of the
channel is one answer, of any request that is outstanding, so answers come in any
order. `inFlightCount`, `next` (`offset` in chunks), `eofId` and `offsets` are
the fields of the operation. A chunk of data is the number of its place in the
file, and `written` the set of pairs of the place in the local file and the
chunk put there. `FinishRequest` and `SendReadRequest` are the two ways on from a
read that was answered, shared by the handlers as in the code.

The server conforms to SFTP: it answers a request once, with an answer of its
kind, and a read of a regular file returns as much as was asked for unless the
file ends there. It may announce any size, or none, whatever the file really
holds. The assertions at `ssh/sftpchannel.cpp:604` and `:856` are not in the guards:
they fail in a debug build, the first after a failed stat, the second when a file
announced as empty, or without a size, has content (or, without a size, at the first
read). The model goes on as the shipped build does (`inFlightCount` of -1 after a
failed stat), and `NothingPastEof` is about files announced with a size above 0.

`CloseChannel` and `HandleChannelClose` summarise what `SshChannel` says in full of
the end of a channel, `LoseConnection` what it says of closeAllChannels().

### The device slot and the connect panel

`DeviceSlot` is what a page may rely on of GLOBAL_STATE.adb: `adb` is the number
of the connection in the slot or 0, `conns` what became of each. A connection
takes the slot when it is authenticated, whoever holds it; its clean-up empties
the slot, whoever holds it by then (`web/components/connect.tsx:216`), so a slot
may be empty while a device is connected. The device is the environment:
a call is answered only over an open connection, and may fail at any time.

`Connect` is the panel in full: the three device lists, `address` (what the query of
the route names), `selected`, `connecting`, and `effects`, the effects that React has
still to run after a change of what they depend on; `RunEffects` runs those of one
render in their order. A device object is a serial and a number: getDevices() makes
new objects (`generation`), the chooser of the browser makes one that is in no list
(`Requested`), and an address given twice is two entries, the first of which the
code selects (`First`, `Again`). The effect that connects copies the list of
WebSocket devices, whether it adds one or not, so the effect on the lists follows it
(`web/components/connect.tsx:257`). The chooser is open while other things happen
(`AddUsbDevice`), and one that is cancelled deselects (`UsbRequested`). connect() is split at its awaits (`Opened`, `Authenticated`,
`Dispose`, ...). Since it runs again whenever the selected object changes, attempts
and clean-ups overlap freely. `ImplementsSlot` maps a connection that has not
taken the slot yet to "new".

`SessionStep` in `GlobalState` is the slot as pages see it. Pages are shown one at
a time by the router and share only the slot and the error dialog, so
`WebSession` chooses a `view` at the start: the panel against everything, or one
page against every behaviour of the slot. The pages `tcpip` and
`chrome-devtools` are commented out of the menu and reached by their address.

### The pages

One variable per page holds a record with the fields of its state object, named
as in the code; asynchronous calls under way are a set or a phase in it, each
with what the code holds on to across the await (a directory, a connection).
A step is what was awaited plus the code up to the next await, including the
autoruns and reactions of MobX that its assignments set off: `Becomes` and
`SlotChanges` in the modules.

* `FileManager`: `runs` are the runs of loadFiles(), which are aborted by the
  next and go on to their next look at the signal (`AsyncEffect`); `uploads` are the
  loops over picked files, several at a time, `alone` whether another one has sent
  beside one; `op` is what else the user has under way, one at a time and not beside
  an upload. `Autorun` reloads when the slot or the page changes.
* `TcpIp`: each query reads three properties one after the other.
* `Install`, `BugReport`: without a try, so a failed step leaves what was set.
* `FrameBuffer`, `DemoMode`, `DeviceCommands`: answers that come when the device
  may have left the slot, and are stored all the same. `ApplyAll` is the autorun of
  the demo mode, which tells the device every setting, each by its `OnChange`, whenever
  one of them changes; `bar` is what the device was told of each.
* `DevTools`: timers by number, so that one whose id was forgotten is seen to go on;
  `replaced` is the history of those.
  `Inspector`: the two ends of a message port, each direction a queue.
* `TabbyFrame`: the channel of the page, the messages under way to the iframe and
  the channel of the tab, by number.

### Screen mirroring

`Mirror` is a session: `stage` counts the awaits of start(); `servers` are the
processes on the device. dispose() runs when the server exits, at stop() and at
its continuation, for whichever session is there. Each server has its streams, which
go on until it exits and feed whatever recorder there is; `recorderOf` remembers for
which server that was made. `Recorder` folds the packets kept since the last keyframe
into a new file; of a file it keeps the kind of its first chunk and the configuration
it is read with, and `mixed` whether packets of another server came. `AudioDecode` has, for each codec of the
server, the decoder that the session makes and what it does with an empty packet, a
configuration and a frame; decoding takes time, so what is played lags behind what
came, and a decoder that fails takes with it what it had. `Keyboard` has both injectors;
`device` has the keys down on the device, and `left` those that a keyboard left down
which the page has no more. `MirrorSettings` has two autoruns that pull
the settings back into what there is to choose from, and the answers to three
questions that may be late. `Scrcpy` lets a behaviour look at one aspect
(`Aspects`): sessions with every device and server, or the streams, the sound
or the input on one device, or the settings, which meet only in the slot.

### Logs

`ListSelection` is data: a selection is a record with the tree, the boxes that
rows observe, the start of the range and the row in detail. `Grid` is arithmetic on
positions: what the browser has and what React knows differ until the scroll
event. In `LogcatPage` an entry is the pair of its run and its number. `Transport` is
what lies under all traffic with a device that is not on USB: a message is its
number, the events of the browser come one by one, and connect() listens in the same
step in which it learns that the socket is open.

### The extensions

`Updater` is the main process with electron-updater as its environment, and one
record per window with its timers and prompts, the progress and the interval it holds
(`progress`, `interval`) and how many are on the screen and tick (`shown`, `running`);
`history`, and `overlapped` of a window, are for the properties. `Launcher` has each
window's question and the request with its answer, which the window does not wait for:
sudo is started, paths.json is read and written in steps of their own, and the write may
fail. `ExampleGenerator` has several commands between the check of the folder and the
copying into it; a folder is a name with or without an extension, and `NameOf`, which the
check and the configuration use, drops it; generation may fail after each of its parts.
The three share nothing; `Desktop` chooses one.

### What the models reproduce and no property denies

The models keep these behaviours of the code, which a maintainer may want to know
of. No document of the repository promises otherwise, so no property does.

* `ssh/sshremoteprocess.cpp:373`: an exit-signal with a name outside the thirteen of
  signalMap (RFC 4254 allows name@domain) closes the whole connection.
* `ssh/sshconnection.cpp:227`: the reply timer of a channel outlives the attempt, and
  ends the next one on the same object; so may a slot of the agent.
* `web/components/scrcpy/state.tsx:572`: stop() awaits, then disposes of whatever
  session is there. A keyboard registered after dispose() (line 559) stays, and a server
  launched before a later step of start() fails is never closed.
* `web/components/scrcpy/recorder.ts:374`: frames older than a new configuration
  are replayed under it; `:270`: a packet that comes before the metadata ends its stream
  with an error.
* `web/components/scrcpy/state.tsx:366`, `:522`: a server of an earlier session that is
  still alive feeds the recorder of the next one, whose file is then of two streams.
* `web/components/scrcpy/input.ts:166`: keys held with scrcpy's keyboard when a session
  ends stay down on the device.
* `web/pages/tcpip.tsx:80`: three reads may be of two devices. `bug-report.tsx:48`,
  `demo-mode-panel.tsx:88`: answers of a device that left are stored.
  `demo-mode-panel.tsx:280`: an hour the user has not set is told as 34, where the
  panel shows 12.
  `framebuffer.tsx:109`: a picture is saved under the name of the device in the slot.
* `web/pages/file-manager.tsx:741`: of two uploads under way (`:172` starts the second
  while the first opens its session or is between two files) the first to end hides
  the dialog of both.
* `web/pages/install.tsx:83`, `bug-report.tsx:74`: the flag of work under way stays
  after a failure.
* `web/pages/chrome-devtools.tsx:244`: a change from one device to another starts a
  timer without clearing the one before; `:351`: a window has no event "close".
* `web/pages/logcat.tsx:145`: start() clears the list and not the selection or the
  buffer; `:797`: select all of an empty list selects row -1 and row 0.
* `webadb/packages/adb-daemon-ws/src/index.ts:65`, `:81`: messages are enqueued however
  much is unread, and what is sent while the socket closes is dropped in silence.
* `ext/updater/src/electron-main/update/theia-updater-impl.ts:43`: after an error of
  the check at start-up, the answer "no update" to a user's check is swallowed.
* `ext/updater/src/electron-browser/updater/theia-updater-frontend-contribution.ts:188`,
  `:192`: of two prompts accepted one in the other's await, the second progress takes the
  place of the first, which is never taken away and whose interval never ends.
* `ext/launcher/src/node/launcher-endpoint.ts:99`: the answer is stored although the
  launcher could not be written; `:104`: if the write fails the launcher may be installed
  and the question asked again; `:103`: of two windows that answer at once the one that
  writes last may overwrite what the other one stored.
* `ext/blueprint-examples/src/browser/blueprint-examples-frontend-contribution.ts:81`: an
  example generated into "my.app" is configured as "my", where there may be no files;
  the folder that is checked last is "my", too.

## 3. Runs

| Run | States | Shows |
|---|---|---|
| `SshConnection` | 567,296 | the nine properties below hold |
| `SshConnectionAssert` | stops at the error | the assertion at `ssh/sshconnection.cpp:437` can fail |
| `SshChannel` | 12,954 | the eight properties below hold |
| `SshChannelTimer` | stops at the error | the reply timer runs on with nothing to wait for |
| `TcpDataReceiver` | 544,733 | the three properties below hold |
| `TcpDataReceiverStall` | stops at the error | a complete command may wait for ever |
| `SftpDownload` | 19,200 | the seven properties below hold |
| `SftpDownloadClosed` | stops at the error | a job may never be reported when its channel closes |
| `WebSession` | 1,187,216 | the panel implements the slot, and each page keeps its promises |
| `Scrcpy` | 2,396,732 | what is shown is alive, what a file has, which keys are down |
| `Logs` | 245,757 | order of the log, selection and rows, messages of a socket |
| `Desktop` | 468,888 | the promises of the three extensions |

**SshConnection.** Invariants `TypeOK`, `AuthOnlyAfterKeys`, `AssertionsHold`,
`WatchdogArmed`, `QuietWhenUnconnected`, `OutcomeReported`; the refinement
`ImplementsLifecycle`; liveness `AttemptResolves` and `DeadPeerDetected`.
`QuietWhenUnconnected` is about the connection's own two timers and its socket;
the reply timer of a channel and the slots of the agent do outlive an attempt, are
modelled, and may disturb the next one.
Bounds: all five ways of authenticating; two keys in the agent (the first key
refused and the second accepted, or two accepted, are the cases the code tells
apart); two attached agent slots (one attempt failing with the agent attached
and another following it). Attempts are not bounded.

**SshChannel.** Invariants `TypeOK`, `ReceiveWindow`, `NeverOverSends`,
`NothingHeldBack`, `NoFalseAlarm`, `CloseAnswered`, `ClosedOnce`; liveness
`StartResolves`. `NoFalseAlarm` says that no packet of a conforming server is thrown
at for being out of place (`accused` remembers why one lost its connection); an
exit-signal with a name outside signalMap is thrown at, whoever sends it. Bounds: packets of three units, windows modulo eight, a buffer of
three and an allowance of ten, so that a window is topped up in the middle of a
packet, wraps, closes with data waiting and opens again. Deadlock is off: a
closed channel is never used again.

**TcpDataReceiver.** Invariants `TypeOK`, `HandledInOrder`, `LagBounded`. The
length takes its real four bytes; texts of one to six bytes and a stream of 24
bytes hold four frames, and every way of cutting them. Deadlock is off: the
stream ends, and a disconnected receiver stops. `LagBounded` says how late a
command can be: a complete command that is not handled when read() returns has
seen at most three further arrivals.

**SftpDownload.** Invariants `TypeOK`, `EveryAnswerExpected`, `HandleClosedLast`,
`OkMeansComplete`, `ReportedOnce`, `NothingPastEof`; liveness `DownloadResolves`.
Bounds: chunks of two units, so that sizes on a chunk boundary and off it both
occur; three reads in flight, so that one can be the last, the one with the
number of the job, or neither; files of up to six chunks, so that each request
is used twice and sizes below, at and above the length of the pipeline occur.
Deadlock is off: a finished download, or a closed channel, does nothing more.

**WebSession.** Invariants `WebTypeOK`, `ViewCurrent`, `BusyShown` (a conjunction
of one part per page, stated in the page's module), the refinement `ImplementsSlot`
and liveness `BusyEnds`. Bounds: two connections, enough for one to be cleaned up
while the other holds the slot, or for an answer of the first to come under the
second; one device of each kind, of which the WebSocket is the one a route may name, so
that an address may be listed twice, and one change of the lists by the host or the
user (the route and the answers of the browser are not bounded), which
makes a new device object; two directories, one run under way when another
starts, and two uploads at once; three timers, messages and ports, so that one can be first, last or
overtaken; two settings of the status bar, the hour and the minute, which the device
is told as one. Deadlock is off, here and in the three runs below: a session may just
stop, when its connections are used up.

**Scrcpy.** Invariants `ScrcpyTypeOK`, `SessionSound`, `RecordingDecodable`.
Bounds: two connections and two servers (a session that ends while the next
starts), two configurations and two packets kept (a keyframe with one that
follows it), two packets being decoded (one whose frame comes out while the other
waits), minutes and hours of two, one letter and one modifier with the two
locks, two displays, three encoders over two codecs. Streams and input are looked at
on one device that stays, with two servers whose sessions the exit of a server or a failure
of start() ends, so that the earlier of them may still send when the next records; sound
and clock with one server. `RecordingDecodable` says how the file begins as long as no
other server has written into it, and that its configuration is the last one received in
any case. `KeysMatch` says of every key down on the device who left it so; it does
not say that none is.

**Logs.** Invariants `LogsTypeOK`, `LogInOrder`, `RowsSound`. Bounds: two starts
with two entries each; four packets in rows of two pixels in a body of three, so
that a row is half in view, and a list of one is shorter than the body; four messages
in each direction of a socket, some of them read when it closes.

**Desktop.** Invariants `DesktopTypeOK`, `DesktopSound`. Bounds: two windows with
two prompts and two progresses each (one that is held and one that is not), one request
of each window under way, two commands (one checks a folder that the other creates) and
three folders, a name alone and with two extensions (two folders configured under one
name). What the behaviour does not look at starts in one state.

**The four violations** are disagreements of the code with itself or its
documentation, each told in `findings` of `PROJECT.json`:

1. `Q_ASSERT(m_keyExchangeState == DhInitSent || !m_ignoreNextPacket)` fails when
   the server announces a wrongly guessed key exchange before the client has seen
   its identification line: packets are handled without it, and handleServerId()
   then resets the key exchange.
2. handleChannelClose(), and handleOpenFailure() after the user closed the
   channel, do not stop the reply timer: ten seconds later "Timeout waiting for
   reply from server." closes the connection with all its channels.
3. "When there is a message of that type, this method is called": not if the last
   up to four bytes of a command arrive alone, or if it arrives behind the rest
   of another command, and nothing follows.
4. "If an error occurs later, the finished() signal is emitted for the respective
   job": not if the channel closes while reads are in flight and the one with the
   number of the job is done. closeHook() reports the numbers of requests, which
   only for that one read is the number of a job.

## 4. Fairness

* `SshConnection`: `WF(FinishClose)` and `WF(EndLoop)`, since closeConnection()
  returns once the slots it calls do, and the buffer of received bytes is finite.
  `SF(HandleTimeout)` and `SF(SendKeepAlivePacket)`: a Qt timer that is not
  stopped fires once the event loop is reached, however often packets are handled
  in between; the loop being busy disables the action for moments only, hence
  strong fairness. No fairness is assumed of the server, network, agent or user.
* `SshChannel`: `WF(Timeout)`, for the same reason; nothing of the server.
* `TcpDataReceiver`: `WF(Read)` and `WF(HandlerReturns)`: read() runs on and
  handlers return (those that wait for an SSH connection do by `AttemptResolves`
  and `OutcomeReported`). Nothing is assumed of the peer.
* `SftpDownload`: `WF(Answer)`, an assumption on the server and not on the code,
  which has no timeout for SFTP requests: as long as the channel is open the
  server goes on answering. A server that stops is found by the keep-alive of the
  connection only if the whole connection is dead (`DeadPeerDetected`).
* `WebSession`: `WF` of the clean-up of each connection (the streams of a connection
  that is over settle; `disconnected` resolves in ya-webadb) and of the end of an
  upload: what was asked of the device is answered or rejected. Nothing of the
  user, and nothing of an attempt to connect, which waits for the user to allow it on
  the device.
* `Scrcpy`, `Logs`, `Desktop`: safety only, no fairness.

## 5. Proofs

TLAPS proves, for every value of the constants that the named assumptions allow
(any set of ways to authenticate, any number of keys and agent slots, any packet
size and any modulus more than twice that, any length field, any chunk size and
number of reads in flight, any number of connections, devices, timers, servers,
packets, entries, windows and commands, and any bounds) every invariant that a
passing run checks and both refinements:

* `SshConnection_proofs`: `TypeOK`, `AuthOnlyAfterKeys`, `AssertionsHold`,
  `WatchdogArmed`, `QuietWhenUnconnected`, `OutcomeReported`, and that the connection implements
  `SshLifecycle`. `IInv` adds what one step alone does not show: closeConnection()
  has detached everything before it calls anybody (`Quiet`, the reason why
  `WatchdogArmed` may assume the connection is not closing); no packet is handled
  before the socket is connected (`SocketInStep`); between the two NEWKEYS we
  already send encrypted (`KeysInStep`, without which HandleNewKeys would not give
  `AuthOnlyAfterKeys`); keys are queried once per attempt (`NoQueriesYet`, the bound
  of the queue); and of two nested closeConnection() calls the outer has no error
  to report (`NestedCloseIsSilent`, for the refinement). The refinement goes action
  by action: a step maps to a step of `SshLifecycle` or changes neither the
  public state nor the reports. `OutcomeReported` has an invariant of its own,
  `OutcomeInv`: an error is reported if and only if m_error is set, but for the
  halves of closeConnection() (`ErrorsInStep`), and each state says whether the
  session was reported as begun and as ended (`SessionInStep`).
* `SshChannel_proofs`: `TypeOK` and the six other invariants. `IInv` relates the
  server's view to the client's: `InStep` says for each state of the channel which
  requests can be outstanding and how far the server can be, from which no
  message of a conforming server can be out of place; `SignalsInStep` ties the
  signals posted to the state of the process; `WindowsInStep` says that client and
  server count the same receive window.
* `TcpDataReceiver_proofs`: `TypeOK`, `HandledInOrder` and `LagBounded`. `Layout` says that
  frames follow each other without gaps; `Aligned` that the receiver's position is
  the end of the last text handled, plus the header and the part of the text it
  holds. So the length is only ever read where a frame starts. `LagBounded` follows
  from `Waiting`, what read() leaves behind: a text begun only when the socket holds
  too little for a length or for the text, so that each arrival it waits through
  is a byte of the few it may leave; and behind it nothing that has waited yet.
* `SftpDownload_proofs`: `TypeOK` and the five other invariants. `IInv` adds
  `InPhase`, which says in each state of the operation what is outstanding and
  whether the handle is open, and that the number of outstanding reads is
  `inFlightCount`; `ReportsInStep`, which ties what was reported to `hasError` and
  the state; and `ChunksInStep`, by which a chunk below `next` is written, or still
  asked for by a request that will write it at its place, or past the end that
  the server reported. When the last request has closed the handle none is still
  asked for, which leaves `OkMeansComplete`.

* `WebSession_proofs`: that the session implements `DeviceSlot`. The invariant is
  `ConnsTyped`: a connection has a state and the slot holds one of them or none. Each
  step of the panel is a step of the slot or invisible to the pages; one lemma per
  page shows that it leaves the slot alone but for `SessionStep`.
  Then `ViewCurrent` and `BusyShown`, with one inductive invariant per
  page. The largest is `FilesInv`: every step ends in the autorun, so it has a
  part that steps keep themselves (shapes, one live run, an upload covered by its
  dialog) and a part the autorun restores (`Fresh`, by which a visible listing
  is of the directory shown). `InspectorInv` says what the two ends know of each other
  at each length of the queues; `DemoInv` that the panel's device is in the slot
  and was told of each setting last what the panel has;
  `TimerInv` that the timer to be cleared is running and that any other was replaced; `TabbyInv` which channel the last
  message carries.
  Last `WebTypeOK`: `WebTypes` gives each page its set of states, types the slot by
  what the lemmas above say of it, and adds what the panel's choice needs, that
  the devices listed are devices there are.
* `Scrcpy_proofs`: `ScrcpyTypeOK`, `SessionSound` and `RecordingDecodable`.
  `ScrcpyInv` has a part per part of the page: `SessionInv` (client, stage of
  start() and servers agree, and a recording has an owner, so that a recorder is
  made anew only where none is on), `RecorderInv` (what holds of every recorder, and
  what holds of one that had packets of its own server only), `KeyboardInv`,
  `PlaybackInv` and `SettingsInv`; each is kept by itself but for that crossing. A recording that starts replays what is kept
  with a fold: `FoldSteps` says that the fold is the last of the values to which the
  packets lead one by one, and `Started` is that value in closed form, by an
  induction on the number of packets which is spelled out (`Counting`), since the
  library's cannot be instantiated.
* `Logs_proofs`: `LogInOrder`, with `NoneNewer`: nothing listed or buffered is
  newer than the last entry of the last run. `LogsTypeOK` and `RowsSound`, with
  `LogsInv`: an entry's place in the list is not beyond its place among all
  entries (`Ranked`), so that the selected rows are rows there can be; whatever is
  selected, the boxes of the rows are told; a range of packets starts in the log;
  and what is unread in a socket is what came last.
* `Desktop_proofs`: `DesktopTypeOK` and `DesktopSound`, with `CheckAsked` (a check
  that is not the first was asked for) and `ShowsProgress` (while answers do not
  overlap, a window awaits or shows one progress at most). The tasks of a name are
  counted by the commands that generated under it, which bounds them in the type.

Each inductive invariant was first checked by TLC as an invariant of the run. The
assumptions are those declared in the modules (`ConstantsAssumption`,
`ChannelAssumption`, `ReceiverAssumption`, `DownloadAssumption`,
`MaxConnectionsAssumption`, `WebAssumption`, `RecorderAssumption`,
`KeyboardAssumption`, `MaxServersAssumption`, `MaxDecodingAssumption`,
`LogsAssumption`, `UpdaterAssumption`, `DesktopAssumption`), and TLC evaluates
each in the runs whose module extends the one that declares it.

Only model-checked: all liveness (`AttemptResolves`, `DeadPeerDetected`,
`StartResolves`, `DownloadResolves`, `BusyEnds`). It rests on fairness, hence on
ENABLED, which the prover does not cover. The four violations are TLC's.

## 6. Not modelled, and the plan

In this order, most important first:

1. `SshForwardServer`: several servers, each with its repeating reply timer,
   against the queue of the channel manager. Properties: the queue is in step
   with the outstanding requests, listed if and only if listening, a request
   resolves. Two servers are enough to swap replies. A violation is expected of
   the assertion in setClosed().
2. `SshConnectionManager`: two or three threads, two mutexes, the blocking call
   into the main thread. Properties: no deadlock, one owner, nothing freed in use.
   An abstract pool (a connection is free, owned by one thread, or gone) for it
   to implement.
3. `SftpUpload`: uploads with their writes in flight, alone and as children of a
   directory upload, which fails as a whole when one of them does. Properties:
   no request is used after its job is gone, the directory is reported once, and
   as uploaded only if all of it is. Candidates for disagreement: the missing
   return at `ssh/sftpchannel.cpp:425` and the numbers reported at 637 and 656.
   Listings and the jobs of a single request follow with it if they add anything.
4. `Simulators`: simulators under commands of two clients with nested event
   loops; composed with `SshLifecycle` in place of the connection.
5. The reconnect from inside a slot that closeConnection() calls, in
   `SshConnection`.
6. Of screen mirroring, the clipboard, and the disposal of the player with the
   session.

Left out for good: packet encoding and cryptography (data without control, or
third-party), settings files and SDK paths (pure I/O), the service launcher, the
Android device manager and the wizard service beyond the framing (they start
processes or expand templates on command), icons, viewers and layout, the web site, the demos,
and the branding and packaging of the product.
