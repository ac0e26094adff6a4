----------------------------- MODULE SshChannel -----------------------------
(***************************************************************************)
(* One channel of a connection: AbstractSshChannel with the remote process *)
(* that runs in it (SshRemoteProcess) and its entry in SshChannelManager.  *)
(* Its user starts it, writes and closes at any time. The server answers,  *)
(* or not, in any order it is allowed to; a server that does not conform   *)
(* sends any channel packet at any time. Amounts of data count units.      *)
(* Channels do not share state; what ends the connection ends all of them. *)
(***************************************************************************)
EXTENDS Naturals, Sequences

CONSTANTS
  MaxPacket,      \* maxPacketSize(), the initial window (16 MiB in the code)
  Modulus,        \* the windows are quint32: 2^32 in the code
  MaxBuffer,      \* bound: data the user has waiting to be sent
  MaxAllowance    \* bound: data the server has allowed and we have not sent

ASSUME ChannelAssumption ==
  /\ MaxPacket \in Nat \ {0}
  /\ Modulus \in Nat /\ Modulus > 2 * MaxPacket
  /\ MaxBuffer \in Nat
  /\ MaxAllowance \in Nat /\ MaxAllowance >= Modulus

VARIABLES
  chState,        \* m_state
  remote,         \* m_remoteChannel # NoChannel
  timer,          \* m_timeoutTimer is running
  proc,           \* m_procState
  wasRunning,     \* m_wasRunning
  inMap,          \* in m_channels and m_sessions of the channel manager
  connected,      \* the connection has not been closed
  localWindow,    \* m_localWindowSize
  remoteWindow,   \* m_remoteWindowSize
  buffer          \* size of m_sendBuffer

VARIABLES         \* history, and what the server has seen
  conforming,     \* the server keeps to the protocol
  accused,        \* why it lost the connection although it does: "none",
                  \* "signal" (the name in an exit-signal) or "packet"
  awaited,        \* requests the server has not answered: "open", "exec"
  serverEnd,      \* "none", "open", "eof", "closed": the server's side
  credit,         \* data a conforming server may send: granted, not sent
  allowance,      \* data we may send: what the server granted and not got
  clipped,        \* data of a conforming server was thrown away
  closesSent,     \* SSH_MSG_CHANNEL_CLOSE packets we sent, 2 for more
  signals         \* started and closed signals of the process

flow  == <<localWindow, remoteWindow, buffer, credit, allowance, clipped>>
procVars == <<proc, wasRunning, signals>>
trust == <<conforming, accused>>
vars == <<chState, remote, timer, procVars, inMap, connected, flow, trust,
          awaited, serverEnd, closesSent>>

ChannelStates == {"Inactive", "SessionRequested", "SessionEstablished",
                  "CloseRequested", "Closed"}
ProcStates == {"NotYetStarted", "ExecRequested", "StartFailed", "Running",
               "Exited"}
Active == {"SessionRequested", "SessionEstablished", "CloseRequested"}

AtMost(m, n) == IF m <= n THEN m ELSE n

Init ==
  /\ chState = "Inactive" /\ remote = FALSE /\ timer = FALSE
  /\ proc = "NotYetStarted" /\ wasRunning = FALSE /\ signals = <<>>
  /\ inMap = TRUE /\ connected = TRUE
  /\ localWindow = MaxPacket /\ remoteWindow = 0 /\ buffer = 0
  /\ conforming \in BOOLEAN /\ accused = "none"
  /\ awaited = {} /\ serverEnd = "none"
  /\ credit = MaxPacket /\ allowance = 0 /\ clipped = FALSE
  /\ closesSent = 0

-----------------------------------------------------------------------------
(* closeChannel(), called in state s with the remote id known or not       *)

(* Variant of ClosesAfter: every call of closeChannel() sends a CLOSE. *)
ClosesAfterAnyCall(s, known) ==
  IF s \in Active /\ known THEN AtMost(closesSent + 1, 2) ELSE closesSent

(* SSH_MSG_CHANNEL_CLOSE is sent once the remote id is known. *)
ClosesAfter(s, known) ==
  IF s \in {"SessionRequested", "SessionEstablished"} /\ known
    THEN AtMost(closesSent + 1, 2) ELSE closesSent

(* Variant of CloseChannel: the server's CLOSE is not waited for. *)
CloseChannelAtOnce(s, known) ==
  /\ chState' = "Closed"
  /\ closesSent' = ClosesAfter(s, known)

CloseChannel(s, known) ==
  /\ chState' = IF s \in {"Inactive", "Closed"} THEN "Closed"
                                               ELSE "CloseRequested"
  /\ closesSent' = ClosesAfter(s, known)

(* Only the second call stops the timer. *)
TimerAfterClose(s) == IF s = "CloseRequested" THEN FALSE ELSE timer

(* closeConnection(): closeAllChannels() closes what is not closing yet    *)
(* and forgets every channel. The user may still hold this one.            *)
LoseConnection ==
  /\ connected' = FALSE /\ inMap' = FALSE
  /\ IF inMap THEN CloseChannel(chState, remote)
              ELSE UNCHANGED <<chState, closesSent>>

-----------------------------------------------------------------------------
(* Calls of the user                                                       *)

(* Variant of Start: the reply timer is not started. *)
StartUnwatched ==
  /\ chState = "Inactive"
  /\ chState' = "SessionRequested"
  /\ awaited' = {"open"}
  /\ UNCHANGED <<remote, timer, procVars, inMap, connected, flow, trust,
                 serverEnd, closesSent>>

(* start(), requestSessionStart() *)
Start ==
  /\ chState = "Inactive"
  /\ chState' = "SessionRequested"
  /\ timer' = TRUE
  /\ awaited' = {"open"}
  /\ UNCHANGED <<remote, procVars, inMap, connected, flow, trust,
                 serverEnd, closesSent>>

(* close(), closeAllChannels() of the user, and the destructor *)
Close ==
  /\ CloseChannel(chState, remote)
  /\ timer' = TimerAfterClose(chState)
  /\ UNCHANGED <<remote, procVars, inMap, connected, flow, trust,
                 awaited, serverEnd>>

(* Variants of Flush: only a whole buffer is sent; or what is sent is not  *)
(* subtracted from the window.                                             *)
FlushAll(window, waiting) ==
  IF waiting <= window
    THEN /\ buffer' = 0
         /\ remoteWindow' = window - waiting
    ELSE /\ buffer' = waiting
         /\ remoteWindow' = window

FlushUncounted(window, waiting) ==
  /\ buffer' = waiting - AtMost(window, waiting)
  /\ remoteWindow' = window

(* flushSendBuffer(): packets until the window or the buffer is used up *)
Flush(window, waiting) ==
  LET sent == AtMost(window, waiting)
  IN  /\ buffer' = waiting - sent
      /\ remoteWindow' = window - sent

(* write() on a running process, in whatever state its channel is *)
Write(n) ==
  /\ proc = "Running" /\ buffer + n <= MaxBuffer
  /\ Flush(remoteWindow, buffer + n)
  /\ allowance' = allowance - ((buffer + n) - buffer')
  /\ UNCHANGED <<chState, remote, timer, procVars, inMap, connected,
                 localWindow, credit, clipped, trust, awaited,
                 serverEnd, closesSent>>

(* The connection ends for a reason that is not in this channel. *)
ConnectionEnds ==
  /\ connected
  /\ LoseConnection
  /\ UNCHANGED <<remote, timer, procVars, flow, trust, awaited,
                 serverEnd>>

-----------------------------------------------------------------------------
(* The reply timer                                                         *)

Timeout ==
  /\ timer
  /\ timer' = FALSE
  /\ IF connected THEN LoseConnection
                  ELSE UNCHANGED <<connected, inMap, chState, closesSent>>
  /\ UNCHANGED <<remote, procVars, flow, trust, awaited, serverEnd>>

-----------------------------------------------------------------------------
(* Packets of the server. A conforming one answers what it was asked,      *)
(* sends data within the window it was granted and nothing after its EOF,  *)
(* and closes a channel once. It may still send what was on its way when   *)
(* the user closed the channel.                                            *)

Packet == connected /\ inMap
MayAnswer(request) == Packet /\ (conforming => request \in awaited)
MaySend == Packet /\ (conforming => serverEnd \in {"open", "eof"})

(* checkChannelActive() *)
ActivePacket == MaySend /\ chState \in Active

(* A conforming server may now send what the code has no room for.         *)
OutOfPlace ==
  \/ /\ "open" \in awaited
     /\ ~inMap \/ chState \notin {"SessionRequested", "CloseRequested"}
  \/ "exec" \in awaited /\ (~inMap \/ proc # "ExecRequested")
  \/ serverEnd \in {"open", "eof"} /\ (~inMap \/ chState \notin Active)

Accuse(reason) == accused' = IF conforming THEN reason ELSE accused

(* A packet that its state does not allow, or for a channel not in the     *)
(* map; a confirmation with too small a packet size stops the timer first. *)
HandleUnexpected ==
  /\ connected /\ (conforming => OutOfPlace)
  /\ LoseConnection
  /\ timer' \in {timer, FALSE}
  /\ Accuse("packet")
  /\ UNCHANGED <<remote, procVars, flow, conforming, awaited, serverEnd>>

(* An open failure that its state does not allow: the channel is forgotten *)
(* first, so that it is not closed with the connection.                    *)
HandleUnexpectedOpenFailure ==
  /\ Packet /\ ~conforming
  /\ chState \notin {"SessionRequested", "CloseRequested"}
  /\ connected' = FALSE /\ inMap' = FALSE
  /\ UNCHANGED <<chState, remote, timer, procVars, flow, trust, awaited,
                 serverEnd, closesSent>>

HandleOpenSuccess(window) ==
  /\ MayAnswer("open")
  /\ chState \in {"SessionRequested", "CloseRequested"}
  /\ remote' = TRUE
  /\ remoteWindow' = window /\ allowance' = window
  /\ serverEnd' = "open"
  /\ IF chState = "CloseRequested"
       THEN /\ CloseChannel("SessionEstablished", TRUE)
            /\ awaited' = awaited \ {"open"}
            /\ timer' = FALSE
            /\ UNCHANGED proc
       ELSE /\ chState' = "SessionEstablished"
            /\ awaited' = (awaited \ {"open"}) \union {"exec"}
            /\ proc' = "ExecRequested"
            /\ timer' = TRUE                     \* for the reply to exec
            /\ UNCHANGED closesSent
  /\ UNCHANGED <<wasRunning, signals, inMap, connected, localWindow, buffer,
                 credit, clipped, trust>>

(* The open request is refused, and the channel forgotten. If the user has *)
(* closed it already, the timer is left running.                           *)
HandleOpenFailure ==
  /\ MayAnswer("open")
  /\ chState \in {"SessionRequested", "CloseRequested"}
  /\ awaited' = awaited \ {"open"}
  /\ inMap' = FALSE
  /\ IF chState = "SessionRequested"
       THEN /\ timer' = FALSE
            /\ proc' = "StartFailed"
            /\ signals' = Append(signals, "closed")
       ELSE UNCHANGED <<timer, proc, signals>>
  /\ UNCHANGED <<chState, remote, wasRunning, connected, flow, trust,
                 serverEnd, closesSent>>

(* Variant of HandleChannelSuccess: the state of the process is not looked *)
(* at.                                                                     *)
HandleChannelSuccessAlways ==
  /\ MayAnswer("exec")
  /\ timer' = FALSE
  /\ proc' = "Running" /\ wasRunning' = TRUE
  /\ signals' = Append(signals, "started")
  /\ awaited' = awaited \ {"exec"}
  /\ UNCHANGED <<chState, remote, inMap, connected, flow, trust,
                 serverEnd, closesSent>>

(* The reply to exec *)
HandleChannelSuccess ==
  /\ MayAnswer("exec")
  /\ proc = "ExecRequested"
  /\ timer' = FALSE
  /\ proc' = "Running" /\ wasRunning' = TRUE
  /\ signals' = Append(signals, "started")
  /\ awaited' = awaited \ {"exec"}
  /\ UNCHANGED <<chState, remote, inMap, connected, flow, trust,
                 serverEnd, closesSent>>

HandleChannelFailure ==
  /\ MayAnswer("exec")
  /\ proc = "ExecRequested"
  /\ timer' = FALSE
  /\ proc' = "StartFailed"
  /\ signals' = Append(signals, "closed")
  /\ CloseChannel(chState, remote)
  /\ awaited' = awaited \ {"exec"}
  /\ UNCHANGED <<remote, wasRunning, inMap, connected, flow, trust,
                 serverEnd>>

(* Variant of WindowSum: formed in 64 bits, and not compared. *)
WindowSumUnchecked(n) == remoteWindow + n

(* The sum is formed in 32 bits before it is compared with 2^32 - 1. *)
WindowSum(n) == (remoteWindow + n) % Modulus

HandleWindowAdjust(n) ==
  /\ ActivePacket
  /\ allowance + n <= MaxAllowance
  /\ conforming => allowance + n < Modulus
  /\ Flush(WindowSum(n), buffer)
  /\ allowance' = allowance + n - (buffer - buffer')
  /\ UNCHANGED <<chState, remote, timer, procVars, inMap, connected,
                 localWindow, credit, clipped, trust, awaited,
                 serverEnd, closesSent>>

(* Variant of Replenish: what is granted is less than what was used. *)
ReplenishAtZero(left) == IF left = 0 THEN MaxPacket ELSE 0

(* The window is granted anew as soon as it is below a packet. *)
Replenish(left) == IF left < MaxPacket THEN MaxPacket ELSE 0

(* handleChannelOrExtendedChannelData() *)
HandleChannelData(n) ==
  /\ ActivePacket
  /\ conforming => serverEnd = "open" /\ n <= AtMost(credit, MaxPacket)
  /\ LET delivered == AtMost(n, AtMost(localWindow, MaxPacket))
         left      == localWindow - delivered
     IN  /\ localWindow' = left + Replenish(left)
         /\ IF conforming
              THEN /\ clipped' = (clipped \/ delivered # n)
                   /\ credit' = (credit - n) + Replenish(left)
              ELSE UNCHANGED <<clipped, credit>>
  /\ UNCHANGED <<chState, remote, timer, procVars, inMap, connected,
                 remoteWindow, buffer, allowance, trust, awaited,
                 serverEnd, closesSent>>

(* exit-status, or exit-signal with a name of signalMap *)
HandleExit ==
  /\ ActivePacket
  /\ conforming => proc = "Running"
  /\ proc' = "Exited"
  /\ UNCHANGED <<chState, remote, timer, wasRunning, signals, inMap,
                 connected, flow, trust, awaited, serverEnd, closesSent>>

(* exit-signal with any other name, also one of the form name@domain: the  *)
(* exception closes the connection.                                        *)
HandleInvalidSignal ==
  /\ ActivePacket
  /\ conforming => proc = "Running"
  /\ LoseConnection
  /\ Accuse("signal")
  /\ UNCHANGED <<remote, timer, procVars, flow, conforming, awaited,
                 serverEnd>>

HandleChannelEof ==
  /\ ActivePacket
  /\ conforming => serverEnd = "open"
  /\ localWindow' = 0
  /\ serverEnd' = "eof"
  /\ UNCHANGED <<chState, remote, timer, procVars, inMap, connected,
                 remoteWindow, buffer, credit, allowance, clipped,
                 trust, awaited, closesSent>>

(* closeChannel(), then Closed. An unanswered exec will not be answered.   *)
HandleChannelClose ==
  /\ ActivePacket
  /\ closesSent' = ClosesAfter(chState, remote)
  /\ chState' = "Closed"
  /\ timer' = TimerAfterClose(chState)
  /\ signals' = IF wasRunning THEN Append(signals, "closed") ELSE signals
  /\ inMap' = FALSE
  /\ serverEnd' = "closed"
  /\ awaited' = {}
  /\ UNCHANGED <<remote, proc, wasRunning, connected, flow, trust>>

-----------------------------------------------------------------------------
UserCall == Start \/ Close \/ \E n \in 1..MaxBuffer : Write(n)

ServerPacket ==
  \/ \E window \in 0..(Modulus - 1) : HandleOpenSuccess(window)
  \/ HandleOpenFailure \/ HandleChannelSuccess \/ HandleChannelFailure
  \/ \E n \in 0..(Modulus - 1) : HandleWindowAdjust(n)
  \/ \E n \in 0..(MaxPacket + 1) : HandleChannelData(n)
  \/ HandleExit \/ HandleInvalidSignal
  \/ HandleChannelEof \/ HandleChannelClose
  \/ HandleUnexpected \/ HandleUnexpectedOpenFailure

Next == UserCall \/ ServerPacket \/ ConnectionEnds \/ Timeout

(* Timers fire. Nothing is assumed of user or server. *)
Spec == Init /\ [][Next]_vars /\ WF_vars(Timeout)

-----------------------------------------------------------------------------
(* Properties                                                              *)

(* Types of all variables. The windows are what a quint32 holds. *)
TypeOK ==
  /\ chState \in ChannelStates /\ proc \in ProcStates
  /\ remote \in BOOLEAN /\ timer \in BOOLEAN /\ wasRunning \in BOOLEAN
  /\ inMap \in BOOLEAN /\ connected \in BOOLEAN
  /\ localWindow \in 0..(Modulus - 1) /\ remoteWindow \in 0..(Modulus - 1)
  /\ buffer \in 0..MaxBuffer
  /\ conforming \in BOOLEAN /\ clipped \in BOOLEAN
  /\ accused \in {"none", "signal", "packet"}
  /\ awaited \subseteq {"open", "exec"}
  /\ serverEnd \in {"none", "open", "eof", "closed"}
  /\ credit \in Nat /\ allowance \in 0..MaxAllowance
  /\ closesSent \in 0..2
  /\ signals \in Seq({"started", "closed"})

(* Receiving: data that a conforming server sends within the window it was *)
(* granted is never clipped, and the window it has left is never less than *)
(* one packet, so that neither side waits for the other for ever.          *)
ReceiveWindow ==
  conforming => ~clipped /\ credit >= MaxPacket

(* Sending: never more than the server allowed, although the sum of        *)
(* handleWindowAdjust() wraps at 32 bits.                                  *)
NeverOverSends == remoteWindow <= allowance

(* While the channel is established, what write() has buffered waits for   *)
(* nothing but the server's window.                                        *)
NothingHeldBack ==
  chState = "SessionEstablished" /\ buffer > 0 => remoteWindow = 0

(* No packet of a conforming server makes the code throw and close the     *)
(* whole connection for being out of place: what it still sends after the  *)
(* user has closed the channel, or before it has seen that, finds the      *)
(* channel in a state that accepts it. What it sends may still cost it the *)
(* connection in one way: by an exit-signal whose name is not among the    *)
(* thirteen of signalMap (accused = "signal").                             *)
NoFalseAlarm == accused # "packet"

(* The close handshake with a conforming server: we send CLOSE at most     *)
(* once, and always when the server has sent its own.                      *)
CloseAnswered ==
  conforming => closesSent <= 1 /\ (serverEnd = "closed" => closesSent = 1)

(* The user of a process hears closed at most once and started before it,  *)
(* whatever the server sends.                                              *)
ClosedOnce ==
  signals \in {<<>>, <<"started">>, <<"closed">>, <<"started", "closed">>}

(* A timeout means that the server owes a reply: "Timeout waiting for      *)
(* reply from server." is what the user is told when it closes the         *)
(* connection. It fails: neither handleChannelClose() nor a late           *)
(* handleOpenFailure() stops the timer.                                    *)
TimerMeansWaiting == conforming /\ connected /\ timer => awaited # {}

(* A process that was started runs, or has failed, or its channel or the   *)
(* whole connection is closed, even if the server never answers.           *)
StartResolves ==
  (chState = "SessionRequested" /\ proc = "NotYetStarted") ~>
    (\/ proc \in {"StartFailed", "Running", "Exited"}
     \/ chState \in {"CloseRequested", "Closed"}
     \/ ~connected)
=============================================================================
