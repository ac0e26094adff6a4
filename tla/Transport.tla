------------------------------ MODULE Transport ------------------------------
(***************************************************************************)
(* adb-daemon-ws/src/index.ts and adb-daemon-direct-sockets/src/index.ts:  *)
(* a WebSocket, or a TCP socket of the browser, made into the two streams  *)
(* of bytes that ya-webadb works on.  The browser delivers the events of a *)
(* WebSocket one by one; a message that comes before anybody listens is    *)
(* gone, and some of those that are unread when it closes may be.          *)
(*                                                                         *)
(* A message is its number.  How messages are cut into packets is the      *)
(* library's.                                                              *)
(***************************************************************************)
EXTENDS Naturals, Sequences

CONSTANT MaxPackets    \* bound on the messages, in each direction

VARIABLE transport

\* socket: readyState of the WebSocket; listening: onmessage and onclose are
\* set; queue: what the readable stream holds; ended: it is closed.
TransportInit ==
    transport = [kind |-> "none", socket |-> "none", connect |-> "none",
                 listening |-> FALSE, came |-> 0, queue |-> <<>>, read |-> 0,
                 ended |-> FALSE, cancelled |-> FALSE, written |-> 0, out |-> 0]

TransportTypeOK ==
    /\ transport.kind \in {"none", "ws", "tcp"}
    /\ transport.socket \in {"none", "connecting", "open", "closing", "closed"}
    /\ transport.connect \in {"none", "pending", "resolved", "rejected"}
    /\ {transport.listening, transport.ended, transport.cancelled} \subseteq BOOLEAN
    /\ {transport.came, transport.read, transport.written, transport.out} \subseteq 0 .. MaxPackets
    /\ transport.queue \in Seq(1 .. MaxPackets)

---------------------------------------------------------------------------
(* connect()                                                               *)

Connect(kind) ==
    /\ transport.connect = "none"
    /\ transport' = [transport EXCEPT !.kind = kind, !.socket = "connecting", !.connect = "pending"]

\* onopen: connect() goes on at once, before any other event, and listens.
WebSocketOpened ==
    /\ transport.kind = "ws" /\ transport.socket = "connecting"
    /\ transport' = [transport EXCEPT !.socket = "open", !.connect = "resolved",
                                      !.listening = TRUE]

\* onerror: after that the browser closes the socket, and nobody listens.
WebSocketFailed ==
    /\ transport.kind = "ws" /\ transport.socket = "connecting"
    /\ transport' = [transport EXCEPT !.socket = "closed", !.connect = "rejected"]

\* opened of a TCP socket, which has its streams from the start, or rejects.
TcpOpened ==
    /\ transport.kind = "tcp" /\ transport.connect = "pending"
    /\ transport' \in {[transport EXCEPT !.socket = "open", !.connect = "resolved",
                                         !.listening = TRUE],
                       [transport EXCEPT !.socket = "closed", !.connect = "rejected"]}

---------------------------------------------------------------------------
(* The streams                                                             *)

\* A message comes, while the socket is open: enqueued, however much of the
\* stream is unread.
Message ==
    /\ transport.socket = "open" /\ transport.came < MaxPackets
    /\ LET n == transport.came + 1 IN
       transport' = [transport EXCEPT
            !.came = n,
            !.queue = IF transport.listening THEN Append(@, n) ELSE @]

ReadNext ==
    /\ transport.queue # <<>>
    /\ transport' = [transport EXCEPT !.read = Head(transport.queue), !.queue = Tail(@)]

\* A WebSocket that is closing discards what it is given, and says nothing.
WriteNext ==
    /\ transport.connect = "resolved" /\ ~transport.ended
    /\ transport.written < MaxPackets
    /\ transport' = [transport EXCEPT
            !.written = @ + 1,
            !.out = IF transport.socket = "open" THEN @ + 1 ELSE @]

\* ya-webadb is done with a stream: the factory calls close().
CancelStreams ==
    /\ transport.connect = "resolved" /\ ~transport.ended /\ ~transport.cancelled
    /\ transport' = [transport EXCEPT !.cancelled = TRUE, !.socket = "closing"]

\* The other side closes, or the network is lost.
PeerCloses ==
    /\ transport.socket = "open"
    /\ transport' = [transport EXCEPT !.socket = "closing"]

\* onclose: dispose() ends both streams; of what is unread the library keeps
\* what it had taken over already.
SocketClosed ==
    /\ transport.socket = "closing"
    /\ \E kept \in 0 .. Len(transport.queue) :
        transport' = [transport EXCEPT !.socket = "closed", !.ended = transport.listening,
                                       !.queue = SubSeq(@, 1, kept)]

TransportStep ==
    \/ \E kind \in {"ws", "tcp"} : Connect(kind)
    \/ WebSocketOpened \/ WebSocketFailed \/ TcpOpened
    \/ Message \/ ReadNext \/ WriteNext
    \/ CancelStreams \/ PeerCloses \/ SocketClosed

---------------------------------------------------------------------------
(* Properties                                                              *)

\* Between the socket and the library no message is lost or out of order
\* while the socket is there, whenever the first one comes; and the library
\* learns of every end: its streams end with a socket that was open, and
\* connect() rejects for one that never was.
StreamsFollowSocket ==
    /\ \A i \in 1 .. Len(transport.queue) : transport.queue[i] = transport.read + i
    /\ transport.socket \in {"open", "closing"} =>
            transport.read + Len(transport.queue) = transport.came
    /\ transport.socket = "closed" =>
            transport.ended \/ transport.connect = "rejected"
    /\ transport.written = transport.out \/ transport.socket # "open"
=============================================================================
