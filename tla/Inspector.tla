----------------------------- MODULE Inspector -----------------------------
(***************************************************************************)
(* "Inspect" of pages/chrome-devtools.tsx: the WebSocket that              *)
(* pages/chrome-devtools-frame.tsx gives to the DevTools of the popup is a *)
(* MessagePort to the page, which has the real WebSocket, over the device. *)
(***************************************************************************)
EXTENDS GlobalState, Sequences

CONSTANT MaxMessages     \* bound on the messages under way in one direction

VARIABLE inspector

InspectorInit == inspector =
    [ws |-> "none",              \* the real WebSocket, in the page
     hostPort |-> "none",        \* the page's port
     toFrame |-> <<>>, toHost |-> <<>>,
     framePort |-> "none",       \* the port of the shim
     seen |-> "nothing",         \* what DevTools was told: open, then close
     popup |-> TRUE]

InspectorTypeOK ==
    /\ inspector.ws \in {"none", "connecting", "open", "closing", "closed"}
    /\ {inspector.hostPort, inspector.framePort} \subseteq {"none", "open", "closed"}
    /\ inspector.toFrame \in Seq({"open", "message", "close"})
    /\ inspector.toHost \in Seq({"message", "close"})
    /\ inspector.seen \in {"nothing", "open", "close"}
    /\ inspector.popup \in BOOLEAN

\* A message is lost on a channel that either end has closed.
Channel(i) == i.framePort = "open" /\ i.hostPort # "closed"
ToFrame(i, m) == IF Channel(i) THEN [i EXCEPT !.toFrame = Append(@, m)] ELSE i
ToHost(i, m) == IF Channel(i) THEN [i EXCEPT !.toHost = Append(@, m)] ELSE i

\* Closing an end drops what it has not received; what it has sent arrives.
FrameEnds(i) == [i EXCEPT !.framePort = "closed", !.toFrame = <<>>]
HostEnds(i) == [i EXCEPT !.hostPort = "closed", !.toHost = <<>>]

\* The constructor of the shim: a channel, one end of it sent to the page,
\* which opens a WebSocket to the browser of the device.
NewWebSocket ==
    /\ inspector.popup /\ inspector.framePort = "none" /\ Quiet
    /\ inspector' = [inspector EXCEPT !.framePort = "open"]

Announced ==
    /\ inspector.framePort # "none" /\ inspector.hostPort = "none" /\ Quiet
    /\ inspector' = [inspector EXCEPT !.hostPort = "open", !.ws = "connecting"]

WsOpens ==
    /\ inspector.ws = "connecting" /\ Quiet
    /\ inspector' = ToFrame([inspector EXCEPT !.ws = "open"], "open")

WsMessage ==
    /\ inspector.ws \in {"open", "closing"} /\ Quiet
    /\ Len(inspector.toFrame) < MaxMessages
    /\ inspector' = ToFrame(inspector, "message")

\* ws.onclose: it was closed, or failed, at either end.
WsCloses ==
    /\ inspector.ws \in {"connecting", "open", "closing"} /\ Quiet
    /\ inspector' = HostEnds(ToFrame([inspector EXCEPT !.ws = "closed"], "close"))

\* port.onmessage of the page: a message is sent, "close" closes; one that
\* still connects goes straight to closed, and its onclose follows.
HostReceives ==
    /\ inspector.hostPort = "open" /\ inspector.toHost # <<>> /\ Quiet
    /\ inspector' = [inspector EXCEPT
                        !.toHost = Tail(@),
                        !.ws = IF Head(inspector.toHost) = "close" THEN "closing" ELSE @]

\* The page is left, its WebSocket with it: the popup is told.
BeforeUnload ==
    /\ inspector.hostPort = "open" /\ Quiet
    /\ inspector' = HostEnds(ToFrame([inspector EXCEPT !.ws = "closed"], "close"))

\* _port.onmessage of the shim.
FrameReceives ==
    /\ inspector.popup /\ inspector.framePort = "open" /\ inspector.toFrame # <<>> /\ Quiet
    /\ LET m == Head(inspector.toFrame)
           rest == [inspector EXCEPT !.toFrame = Tail(@)] IN
       inspector' = CASE m = "open" -> [rest EXCEPT !.seen = "open"]
                      [] m = "message" -> rest
                      [] m = "close" -> FrameEnds([rest EXCEPT !.seen = "close"])

\* DevTools sends once it was told "open", and may close at any time; the
\* shim closes its port and tells it nothing.
Send ==
    /\ inspector.popup /\ inspector.seen = "open" /\ Quiet
    /\ Len(inspector.toHost) < MaxMessages
    /\ inspector' = ToHost(inspector, "message")

Close ==
    /\ inspector.popup /\ inspector.framePort = "open" /\ Quiet
    /\ inspector' = FrameEnds(ToHost(inspector, "close"))

\* The popup is closed; a window has no "close" event, so nothing tells the
\* page, whose WebSocket stays.
PopupCloses ==
    /\ inspector.popup /\ inspector.framePort # "none" /\ Quiet
    /\ inspector' = [FrameEnds(inspector) EXCEPT !.popup = FALSE]

InspectorStep ==
    \/ NewWebSocket \/ Announced \/ WsOpens \/ WsMessage \/ WsCloses
    \/ HostReceives \/ BeforeUnload \/ FrameReceives \/ Send \/ Close \/ PopupCloses

\* The events of the WebSocket reach DevTools in the order of a real one:
\* "open" first and once, "close" last, whoever closes and whenever.
EventsInOrder ==
    LET q == inspector.toFrame IN
    \A i \in DOMAIN q :
        /\ q[i] = "open" => i = 1 /\ inspector.seen = "nothing"
        /\ q[i] = "message" => inspector.seen = "open" \/ q[1] = "open"
        /\ q[i] = "close" => i = Len(q) /\ inspector.hostPort = "closed"
=============================================================================
