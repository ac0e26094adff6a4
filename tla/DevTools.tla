------------------------------ MODULE DevTools ------------------------------
(***************************************************************************)
(* pages/chrome-devtools.tsx: the browsers of the device, asked for every  *)
(* five seconds while the page is shown.                                   *)
(***************************************************************************)
EXTENDS GlobalState

CONSTANT MaxTimers      \* bound on the timers started

VARIABLE devtools

DevToolsInit == devtools =
    [visible |-> FALSE,
     intervalId |-> 0,          \* the timer that will be cleared, 0: null
     timers |-> {},             \* the timers that run
     replaced |-> {},           \* history: those whose number was overwritten
     started |-> 0,             \* how many were started
     fetches |-> {},            \* runs of getBrowsers()
     browsers |-> 0]            \* whose browsers are listed, 0: none

Fetch == [at : {"sockets", "pages"}, conn : Connections]

DevToolsTypeOK ==
    /\ devtools.visible \in BOOLEAN
    /\ devtools.started \in 0 .. MaxTimers
    /\ devtools.intervalId \in 0 .. devtools.started
    /\ {devtools.timers, devtools.replaced} \subseteq SUBSET (1 .. devtools.started)
    /\ devtools.fetches \in SUBSET Fetch
    /\ devtools.browsers \in 0 .. MaxConnections

\* getBrowsers() up to its first await; without a device it rejects.
GetBrowsers(d, device) ==
    IF device = 0 THEN d
    ELSE [d EXCEPT !.fetches = @ \cup {[at |-> "sockets", conn |-> device]}]

\* The reaction on the slot and on visible. From one device to another it
\* overwrites the number of the timer that runs, which nothing clears then.
Reacts(d) ==
    IF adb' = adb /\ d.visible = devtools.visible THEN devtools' = d
    ELSE IF adb' = 0 \/ ~d.visible
    THEN devtools' = [d EXCEPT !.browsers = 0, !.intervalId = 0, !.timers = @ \ {d.intervalId}]
    ELSE /\ d.started < MaxTimers
         /\ devtools' = GetBrowsers([d EXCEPT !.started = @ + 1,
                                              !.timers = @ \cup {d.started + 1},
                                              !.replaced = @ \cup ({d.intervalId} \ {0}),
                                              !.intervalId = d.started + 1], adb')

ToggleVisible == Quiet /\ Reacts([devtools EXCEPT !.visible = ~@])

\* A timer, or the link "close" of a page, asks again.
Tick == devtools.timers # {} /\ Quiet /\ devtools' = GetBrowsers(devtools, adb)

ClosePage ==
    /\ devtools.visible /\ UserFree /\ devtools.browsers # 0 /\ Quiet
    /\ devtools' = GetBrowsers(devtools, adb)

\* The sockets are known; the pages are asked for through the device in the
\* slot, browser by browser, and a browser that fails is left out.
Sockets(f) ==
    /\ f.at = "sockets" /\ conns[f.conn] = "open" /\ Quiet
    /\ devtools' = [devtools EXCEPT !.fetches = (@ \ {f}) \cup {[f EXCEPT !.at = "pages"]}]

NoSockets(f) ==
    /\ f.at = "sockets" /\ Quiet
    /\ devtools' = [devtools EXCEPT !.fetches = @ \ {f}]

\* What was found is listed, wherever the page and the slot are by then.
Browsers(f) ==
    /\ f.at = "pages" /\ Quiet
    /\ \E found \in {0, adb} :
          devtools' = [devtools EXCEPT !.fetches = @ \ {f}, !.browsers = found]

DevToolsStep ==
    \/ ToggleVisible \/ Tick \/ ClosePage
    \/ \E f \in devtools.fetches : Sockets(f) \/ NoSockets(f) \/ Browsers(f)
    \/ SessionStep /\ Reacts(devtools)

\* As long as the page is shown for a device a timer keeps its list fresh,
\* and it is the one that will be cleared. A page that is hidden, or has no
\* device, has no timer left but those that a change from one device to
\* another replaced: no other order of showing, hiding, plugging and
\* unplugging leaves one running.
PollsWhileShown ==
    /\ devtools.visible /\ adb # 0 => devtools.intervalId \in devtools.timers \ devtools.replaced
    /\ ~devtools.visible \/ adb = 0 => devtools.timers \subseteq devtools.replaced
=============================================================================
