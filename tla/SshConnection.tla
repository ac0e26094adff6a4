---------------------------- MODULE SshConnection ---------------------------
(***************************************************************************)
(* SshConnectionPrivate of service/SimulatorManager/app/ssh: one client    *)
(* connection, from connectToHost() to closeConnection(), against a server *)
(* that may send any packet at any time, a socket that may fail at any     *)
(* time, the ssh-agent and the user's calls.                               *)
(*                                                                         *)
(* Everything runs in one thread. A handler is one step, except where the  *)
(* code calls back into the user while its own state is half changed:      *)
(* closeConnection() (slots of the channels it closes) is split in two     *)
(* steps, and handlePackets() is a loop of one step per packet during      *)
(* which only packets, and slots called by a packet, run.                  *)
(***************************************************************************)
EXTENDS Naturals, Sequences

CONSTANTS
  AuthTypes,      \* authentication types the user may configure
  MaxKeys,        \* bound: keys the agent holds
  MaxAgentSlots   \* bound: times the agent's signals are attached to this

AllAuthTypes ==
  {"Password", "PublicKey", "KeyboardInteractive", "TryAll", "Agent"}

ASSUME ConstantsAssumption ==
  /\ AuthTypes \subseteq AllAuthTypes
  /\ MaxKeys \in Nat
  /\ MaxAgentSlots \in Nat \ {0}

VARIABLES
  authType,       \* m_connParams.authenticationType, fixed
  state,          \* m_state
  err,            \* m_error
  closing,        \* closeConnection() calls between their two halves
  loop,           \* inside the while of handlePackets()
  wired,          \* signals of socket and timeout timer connected to this
  timeoutOn,      \* m_timeoutTimer is running
  keepAliveOn,    \* m_keepAliveTimer is running
  probe,          \* m_lastInvalidMsgSeqNr # InvalidSeqNr
  reports         \* history: public signals posted since connectToHost()

VARIABLES
  kex,            \* m_keyExchangeState
  kexObj,         \* m_keyExchange is not null
  encOut, encIn,  \* keys installed for sending / receiving
  ignoreNext,     \* m_ignoreNextPacket
  serverId        \* m_serverId is not empty

VARIABLES
  tried,          \* m_triedAllPasswordBasedMethods
  pending,        \* length of m_pendingKeyChecks
  keyToUse,       \* m_agentKeyToUse is not empty
  upToDate,       \* m_agentKeysUpToDate
  agentSlots      \* attached agent slots that nobody detached

VARIABLES
  agentKeys,      \* number of keys SshAgent holds
  agentErr,       \* SshAgent::hasError()
  signature       \* the signature asked of the agent: "none", "asked", "stale"

VARIABLES
  socket,         \* state of the QTcpSocket
  srvAlive,       \* the server still answers
  chanTimer,      \* a reply timer of some channel is running
  crashed         \* an exception left a slot: the process has terminated

kexVars   == <<kex, kexObj, encOut, encIn, ignoreNext, serverId>>
authVars  == <<tried, pending, keyToUse, upToDate, agentSlots>>
agentVars == <<agentKeys, agentErr, signature>>
envVars   == <<socket, srvAlive, chanTimer, crashed>>
vars == <<authType, state, err, closing, loop, wired, timeoutOn, keepAliveOn,
          probe, reports, kexVars, authVars, agentVars, envVars>>

States == {"SocketUnconnected", "SocketConnecting", "SocketConnected",
           "UserAuthServiceRequested", "WaitingForAgentKeys",
           "UserAuthRequested", "ConnectionEstablished"}
KexStates == {"NoKeyExchange", "KexInitSent", "DhInitSent", "NewKeysSent"}
Errors == {"SshNoError", "SshSocketError", "SshTimeoutError",
           "SshProtocolError", "SshKeyFileError", "SshAuthenticationError",
           "SshClosedByServerError", "SshAgentError"}
SocketStates == {"Unconnected", "Connecting", "Connected", "Closing"}

(* SshConnection::state() *)
PublicState(s) ==
  CASE s = "SocketUnconnected"     -> "Unconnected"
    [] s = "ConnectionEstablished" -> "Connected"
    [] OTHER                       -> "Connecting"

AuthStates == {"UserAuthServiceRequested", "WaitingForAgentKeys",
               "UserAuthRequested"}

-----------------------------------------------------------------------------
(* Initial state                                                           *)

Init ==
  /\ authType \in AuthTypes
  /\ state = "SocketUnconnected" /\ err = "SshNoError"
  /\ closing = 0 /\ loop = FALSE /\ wired = FALSE
  /\ timeoutOn = FALSE /\ keepAliveOn = FALSE /\ probe = FALSE
  /\ reports = <<>>
  /\ kex = "NoKeyExchange" /\ kexObj = FALSE
  /\ encOut = FALSE /\ encIn = FALSE /\ ignoreNext = FALSE /\ serverId = FALSE
  /\ tried \in BOOLEAN    \* never initialised by the constructor
  /\ pending = 0 /\ keyToUse = FALSE /\ upToDate = FALSE /\ agentSlots = 0
  /\ agentKeys \in IF authType = "Agent" THEN 0..MaxKeys ELSE {0}
  /\ agentErr = FALSE /\ signature = "none"
  /\ socket = "Unconnected" /\ srvAlive = TRUE /\ chanTimer = FALSE
  /\ crashed = FALSE

(* The event loop may start a new handler. *)
Idle == ~crashed /\ ~loop /\ closing = 0

-----------------------------------------------------------------------------
(* closeConnection()                                                       *)

(* First half, up to closeAllChannels(). Leaves state, reports and socket. *)
CloseConnection(e) ==
  IF state = "SocketUnconnected" \/ err # "SshNoError"
    THEN UNCHANGED <<err, closing, wired, timeoutOn, keepAliveOn>>
    ELSE /\ err' = e
         /\ timeoutOn' = FALSE /\ keepAliveOn' = FALSE
         /\ wired' = FALSE
         /\ closing' = closing + 1

(* Variants of CloseSignals: state is set first; or what to report is      *)
(* decided before the slots run.                                           *)
CloseSignalsAfterState ==
  IF err # "SshNoError" THEN Append(reports, "error") ELSE reports
CloseSignalsDecidedEarly ==
  IF reports # <<>> /\ Head(reports) = "connected"
    THEN Append(reports, "disconnected")
    ELSE CloseSignalsAfterState

(* What is reported depends on m_error and m_state as they are after the   *)
(* slots called by closeAllChannels() have run.                            *)
CloseSignals ==
  LET failed == IF err # "SshNoError" THEN Append(reports, "error") ELSE reports
  IN  IF state = "ConnectionEstablished" THEN Append(failed, "disconnected")
                                         ELSE failed

(* Second half. *)
FinishClose ==
  /\ closing > 0
  /\ reports' = CloseSignals
  /\ IF socket = "Connected" THEN socket' \in {"Closing", "Unconnected"}
                             ELSE UNCHANGED socket
  /\ state' = "SocketUnconnected"
  /\ closing' = closing - 1
  /\ UNCHANGED <<authType, err, loop, wired, timeoutOn, keepAliveOn, probe,
                 kexVars, authVars, agentVars, srvAlive, chanTimer, crashed>>

(* A slot called by closeAllChannels() calls disconnectFromHost(). Only an *)
(* established connection has channels.                                    *)
DisconnectWhileClosing ==
  /\ closing = 1 /\ state = "ConnectionEstablished"
  /\ CloseConnection("SshNoError")
  /\ UNCHANGED <<authType, state, loop, probe, reports, kexVars, authVars,
                 agentVars, envVars>>

-----------------------------------------------------------------------------
(* Calls of the user                                                       *)

(* Variant of ResetAttempt: key queries of the last attempt are kept. *)
ResetAttemptKeepsQueries ==
  /\ encOut' = FALSE /\ encIn' = FALSE
  /\ ignoreNext' = FALSE /\ serverId' = FALSE
  /\ keyToUse' = FALSE /\ upToDate' = FALSE
  /\ UNCHANGED pending
  /\ signature' = IF signature = "asked" THEN "stale" ELSE signature

(* Everything connectToHost() resets before it looks at the auth type. *)
ResetAttempt ==
  /\ encOut' = FALSE /\ encIn' = FALSE
  /\ ignoreNext' = FALSE /\ serverId' = FALSE
  /\ pending' = 0 /\ keyToUse' = FALSE /\ upToDate' = FALSE
  /\ signature' = IF signature = "asked" THEN "stale" ELSE signature

(* The early returns: no usable key file, or an agent known to be broken. *)
RefuseAttempt ==
  /\ Idle /\ state = "SocketUnconnected"
  /\ \/ authType = "PublicKey" /\ err' = "SshKeyFileError"
     \/ authType = "Agent" /\ agentErr /\ err' = "SshAgentError"
  /\ ResetAttempt
  /\ reports' = <<"error">>
  /\ UNCHANGED <<authType, state, closing, loop, wired, timeoutOn,
                 keepAliveOn, probe, kex, kexObj, tried, agentSlots,
                 agentKeys, agentErr, envVars>>

(* Variant of Attach: the timeout is not started. *)
AttachWithoutTimeout == wired' = TRUE /\ UNCHANGED timeoutOn

(* The socket and the timeout timer are attached, the timer runs. *)
Attach == wired' = TRUE /\ timeoutOn' = TRUE

ConnectToHost ==
  /\ Idle /\ state = "SocketUnconnected"
  /\ ResetAttempt
  /\ err' = "SshNoError"
  /\ reports' = <<>>
  /\ IF authType = "Agent"
       THEN /\ ~agentErr /\ agentSlots < MaxAgentSlots
            /\ agentSlots' = agentSlots + 1
       ELSE UNCHANGED agentSlots
  /\ Attach
  /\ state' = "SocketConnecting"
  /\ kex' = "NoKeyExchange"
  /\ socket' = IF socket = "Unconnected" THEN "Connecting" ELSE socket
  /\ UNCHANGED <<authType, closing, loop, keepAliveOn, probe, kexObj, tried,
                 agentKeys, agentErr, srvAlive, chanTimer, crashed>>

DisconnectFromHost ==
  /\ Idle
  /\ CloseConnection("SshNoError")
  /\ UNCHANGED <<authType, state, loop, probe, reports, kexVars, authVars,
                 agentVars, envVars>>

(* A slot called for a channel packet calls disconnectFromHost(); the loop *)
(* of handlePackets() then goes on with what is left in the buffer.        *)
DisconnectInSlot ==
  /\ loop /\ closing = 0 /\ ~crashed
  /\ state = "ConnectionEstablished"
  /\ CloseConnection("SshNoError")
  /\ UNCHANGED <<authType, state, loop, probe, reports, kexVars, authVars,
                 agentVars, envVars>>

(* The user starts a channel, whose reply timer then runs. *)
OpenChannel ==
  /\ Idle /\ state = "ConnectionEstablished"
  /\ chanTimer' = TRUE
  /\ UNCHANGED <<authType, state, err, closing, loop, wired, timeoutOn,
                 keepAliveOn, probe, reports, kexVars, authVars, agentVars,
                 socket, srvAlive, crashed>>

-----------------------------------------------------------------------------
(* Timers                                                                  *)

HandleTimeout ==
  /\ Idle /\ wired /\ timeoutOn
  /\ IF state = "SocketUnconnected" \/ err # "SshNoError"
       THEN /\ timeoutOn' = FALSE   \* single shot
            /\ UNCHANGED <<err, closing, wired, keepAliveOn>>
       ELSE CloseConnection("SshTimeoutError")
  /\ UNCHANGED <<authType, state, loop, probe, reports, kexVars, authVars,
                 agentVars, envVars>>

(* A channel got no reply in time, possibly a channel of an earlier        *)
(* session that the user still holds.                                      *)
ChannelTimeout ==
  /\ Idle /\ chanTimer
  /\ chanTimer' = FALSE
  /\ CloseConnection("SshTimeoutError")
  /\ UNCHANGED <<authType, state, loop, probe, reports, kexVars, authVars,
                 agentVars, socket, srvAlive, crashed>>

(* Variant of SendProbe: nobody watches for the answer. *)
SendProbeUnwatched ==
  keepAliveOn' = FALSE /\ probe' = TRUE /\ UNCHANGED timeoutOn

(* The invalid packet is sent, its answer is waited for. *)
SendProbe == keepAliveOn' = FALSE /\ probe' = TRUE /\ timeoutOn' = TRUE

SendKeepAlivePacket ==
  /\ Idle /\ keepAliveOn
  /\ IF kex # "NoKeyExchange"
       THEN UNCHANGED <<keepAliveOn, probe, timeoutOn>>   \* restarted
       ELSE SendProbe
  /\ UNCHANGED <<authType, state, err, closing, loop, wired, reports,
                 kexVars, authVars, agentVars, envVars>>

-----------------------------------------------------------------------------
(* The socket                                                              *)

SocketConnects ==
  /\ Idle /\ socket = "Connecting"
  /\ socket' = "Connected"
  /\ state' = IF wired THEN "SocketConnected" ELSE state
  /\ UNCHANGED <<authType, err, closing, loop, wired, timeoutOn, keepAliveOn,
                 probe, reports, kexVars, authVars, agentVars, srvAlive,
                 chanTimer, crashed>>

HandleSocketDisconnected ==
  /\ Idle /\ socket \in {"Connected", "Closing"}
  /\ socket' = "Unconnected"
  /\ IF wired THEN CloseConnection("SshClosedByServerError")
              ELSE UNCHANGED <<err, closing, wired, timeoutOn, keepAliveOn>>
  /\ UNCHANGED <<authType, state, loop, probe, reports, kexVars, authVars,
                 agentVars, srvAlive, chanTimer, crashed>>

(* Refused or lost, or a connectToHost() on a socket still in use. *)
HandleSocketError ==
  /\ Idle /\ (wired \/ socket # "Unconnected")
  /\ socket' \in {socket, "Unconnected"}
  /\ IF wired THEN CloseConnection("SshSocketError")
              ELSE UNCHANGED <<err, closing, wired, timeoutOn, keepAliveOn>>
  /\ UNCHANGED <<authType, state, loop, probe, reports, kexVars, authVars,
                 agentVars, srvAlive, chanTimer, crashed>>

(* From here on nothing is heard of the server. *)
ServerDies ==
  /\ srvAlive /\ ~loop
  /\ srvAlive' = FALSE
  /\ UNCHANGED <<authType, state, err, closing, loop, wired, timeoutOn,
                 keepAliveOn, probe, reports, kexVars, authVars, agentVars,
                 socket, chanTimer, crashed>>

-----------------------------------------------------------------------------
(* Incoming packets                                                        *)

(* m_packetHandlers: the states in which a packet of a type is handled *)
PacketTypes ==
  {"KEXINIT", "KEXDH_REPLY", "NEWKEYS", "SERVICE_ACCEPT", "PASSWD_CHANGEREQ",
   "USERAUTH_SUCCESS", "USERAUTH_FAILURE", "INFO_REQUEST", "PK_OK",
   "CHANNEL", "CHANNEL_END", "DISCONNECT", "UNIMPLEMENTED"}

(* Variants: authentication results are taken at once; channel traffic     *)
(* and keep-alive answers are taken after the connection was closed.       *)
AuthReqListEarly == {"SocketConnected", "UserAuthRequested"}
ConnectedListLate == {"SocketUnconnected", "ConnectionEstablished"}

AuthReqList == {"UserAuthRequested"}
ConnectedList == {"ConnectionEstablished"}
ConnectedOrClosedList == {"SocketUnconnected", "ConnectionEstablished"}

HandledIn(type) ==
  CASE type \in {"KEXINIT", "KEXDH_REPLY", "NEWKEYS"} ->
         {"SocketConnected", "ConnectionEstablished"}
    [] type = "SERVICE_ACCEPT" -> {"UserAuthServiceRequested"}
    [] type \in {"USERAUTH_SUCCESS", "USERAUTH_FAILURE", "PK_OK",
                 "PASSWD_CHANGEREQ", "INFO_REQUEST"} -> AuthReqList
    [] type \in {"CHANNEL", "UNIMPLEMENTED"} -> ConnectedList
    [] type = "CHANNEL_END" -> ConnectedOrClosedList
    [] type = "DISCONNECT" ->
         States \ {"SocketUnconnected", "SocketConnecting"}

(* Types without a handler are answered with SSH_MSG_UNIMPLEMENTED. *)
HasHandler(type) ==
  /\ type = "PASSWD_CHANGEREQ" => authType \in {"Password", "TryAll"}
  /\ type = "INFO_REQUEST" => authType \in {"KeyboardInteractive", "TryAll"}

(* handleIncomingData() runs, or runs on: the handlers go on with buffered *)
(* packets even after one of them has closed the connection. Packets are   *)
(* consumed whether or not the identification line has been seen.          *)
MayReceive ==
  /\ ~crashed /\ closing = 0
  /\ \/ loop
     \/ wired /\ state # "SocketUnconnected" /\ socket = "Connected" /\ srvAlive

Receives(type) ==
  /\ MayReceive /\ ~ignoreNext
  /\ HasHandler(type) /\ state \in HandledIn(type)

(* An exception ends the loop and closes the connection. *)
Throw(e) == loop' = FALSE /\ CloseConnection(e)

(* The handler returns to the loop. *)
Continue ==
  /\ loop' = TRUE
  /\ UNCHANGED <<err, closing, wired>>

(* No complete packet is left in the buffer. *)
EndLoop ==
  /\ loop /\ closing = 0 /\ ~crashed
  /\ loop' = FALSE
  /\ UNCHANGED <<authType, state, err, closing, wired, timeoutOn, keepAliveOn,
                 probe, reports, kexVars, authVars, agentVars, envVars>>

(* The identification line, and then possibly packets. Any bad line throws. *)
HandleServerId ==
  /\ MayReceive /\ ~loop /\ ~serverId
  /\ \/ /\ Throw("SshProtocolError")
        /\ serverId' \in BOOLEAN
        /\ UNCHANGED <<kex, kexObj>>
     \/ /\ Continue
        /\ serverId' = TRUE /\ kexObj' = TRUE /\ kex' = "KexInitSent"
        /\ UNCHANGED <<timeoutOn, keepAliveOn>>
  /\ UNCHANGED <<authType, state, probe, reports, encOut, encIn, ignoreNext,
                 authVars, agentVars, envVars>>

(* The wrong guess of the server is dropped unread. *)
IgnoreGuessedPacket ==
  /\ MayReceive /\ ignoreNext
  /\ ignoreNext' = FALSE
  /\ Continue
  /\ UNCHANGED <<authType, state, timeoutOn, keepAliveOn, probe, reports, kex,
                 kexObj, encOut, encIn, serverId, authVars, agentVars,
                 envVars>>

(* A malformed packet of any type, or one its state does not allow. *)
UnexpectedPacket ==
  /\ MayReceive /\ ~ignoreNext
  /\ Throw("SshProtocolError")
  /\ UNCHANGED <<authType, state, probe, reports, kexVars, authVars,
                 agentVars, envVars>>

HandleKeyExchangeInit ==
  /\ Receives("KEXINIT")
  /\ kex \in {"NoKeyExchange", "KexInitSent"}
  /\ kexObj' = TRUE
  /\ \/ /\ Continue
        /\ kex' = "DhInitSent"
        /\ ignoreNext' \in BOOLEAN
        /\ UNCHANGED <<timeoutOn, keepAliveOn>>
     \/ /\ Throw("SshProtocolError")     \* no common algorithm
        /\ UNCHANGED <<kex, ignoreNext>>
  /\ UNCHANGED <<authType, state, probe, reports, encOut, encIn, serverId,
                 authVars, agentVars, envVars>>

HandleKeyExchangeReply ==
  /\ Receives("KEXDH_REPLY")
  /\ kex = "DhInitSent"
  /\ encOut' = TRUE
  /\ kex' = "NewKeysSent"
  /\ Continue
  /\ UNCHANGED <<authType, state, timeoutOn, keepAliveOn, probe, reports,
                 kexObj, encIn, ignoreNext, serverId, authVars, agentVars,
                 envVars>>

HandleNewKeys ==
  /\ Receives("NEWKEYS")
  /\ kex = "NewKeysSent"
  /\ encIn' = TRUE /\ kexObj' = FALSE
  /\ kex' = "NoKeyExchange"
  /\ state' = IF state = "SocketConnected" THEN "UserAuthServiceRequested"
                                           ELSE state
  /\ Continue
  /\ UNCHANGED <<authType, timeoutOn, keepAliveOn, probe, reports, encOut,
                 ignoreNext, serverId, authVars, agentVars, envVars>>

(* tryAllAgentKeys(): one query per key, or an exception without keys *)
QueryKeys(n) == pending' = pending + n

HandleServiceAccept ==
  /\ Receives("SERVICE_ACCEPT")
  /\ tried' = IF authType = "TryAll" THEN FALSE ELSE tried
  /\ IF authType # "Agent"
       THEN /\ state' = "UserAuthRequested"
            /\ Continue
            /\ UNCHANGED <<pending, timeoutOn, keepAliveOn>>
       ELSE \/ /\ agentKeys > 0
               /\ QueryKeys(agentKeys)
               /\ state' = "UserAuthRequested"
               /\ Continue
               /\ UNCHANGED <<timeoutOn, keepAliveOn>>
            \/ /\ agentKeys = 0 /\ ~upToDate
               /\ state' = "WaitingForAgentKeys"
               /\ Continue
               /\ UNCHANGED <<pending, timeoutOn, keepAliveOn>>
            \/ /\ agentKeys = 0 /\ upToDate
               /\ Throw("SshAuthenticationError")
               /\ UNCHANGED <<state, pending>>
  /\ UNCHANGED <<authType, probe, reports, kexVars, keyToUse, upToDate,
                 agentSlots, agentVars, envVars>>

HandlePasswordExpired ==
  /\ Receives("PASSWD_CHANGEREQ")
  /\ Throw(IF authType = "TryAll" /\ tried THEN "SshProtocolError"
                                           ELSE "SshAuthenticationError")
  /\ UNCHANGED <<authType, state, probe, reports, kexVars, authVars,
                 agentVars, envVars>>

(* The prompts are answered with the password. *)
HandleInfoRequest ==
  /\ Receives("INFO_REQUEST")
  /\ IF authType = "TryAll" /\ ~tried
       THEN Throw("SshProtocolError")
       ELSE Continue /\ UNCHANGED <<timeoutOn, keepAliveOn>>
  /\ UNCHANGED <<authType, state, probe, reports, kexVars, authVars,
                 agentVars, envVars>>

(* Variants of StartKeepAlive: the last unanswered probe is not forgotten; *)
(* or the keep-alive timer is not started.                                 *)
StartKeepAliveKeepsProbe ==
  timeoutOn' = FALSE /\ keepAliveOn' = TRUE /\ UNCHANGED probe
StartKeepAliveNever ==
  timeoutOn' = FALSE /\ probe' = FALSE /\ UNCHANGED keepAliveOn

(* Nothing is awaited; the next probe is sent in ten seconds. *)
StartKeepAlive == timeoutOn' = FALSE /\ keepAliveOn' = TRUE /\ probe' = FALSE

HandleUserAuthSuccess ==
  /\ Receives("USERAUTH_SUCCESS")
  /\ state' = "ConnectionEstablished"
  /\ StartKeepAlive
  /\ reports' = Append(reports, "connected")
  /\ Continue
  /\ UNCHANGED <<authType, kexVars, authVars, agentVars, envVars>>

(* The timer is stopped before the exception that closes the connection. *)
RejectedByServer ==
  /\ loop' = FALSE
  /\ IF err # "SshNoError"
       THEN /\ timeoutOn' = FALSE
            /\ UNCHANGED <<err, closing, wired, keepAliveOn>>
       ELSE CloseConnection("SshAuthenticationError")

HandleUserAuthFailure ==
  /\ Receives("USERAUTH_FAILURE")
  /\ IF pending > 0
       THEN /\ pending' = pending - 1
            /\ UNCHANGED tried
            /\ IF pending' = 0 /\ ~keyToUse
                 THEN Throw("SshAuthenticationError")
                 ELSE Continue /\ UNCHANGED <<timeoutOn, keepAliveOn>>
       ELSE /\ UNCHANGED pending
            /\ IF authType = "TryAll" /\ ~tried
                 THEN /\ tried' = TRUE      \* now keyboard-interactive
                      /\ Continue
                      /\ UNCHANGED <<timeoutOn, keepAliveOn>>
                 ELSE /\ UNCHANGED tried
                      /\ RejectedByServer
  /\ UNCHANGED <<authType, state, probe, reports, kexVars, keyToUse, upToDate,
                 agentSlots, agentVars, envVars>>

HandleUserAuthKeyOk ==
  /\ Receives("PK_OK")
  /\ IF pending = 0
       THEN Throw("SshProtocolError") /\ UNCHANGED <<pending, keyToUse, signature>>
       ELSE /\ pending' = pending - 1
            /\ \/ Throw("SshProtocolError")    \* not the key that was asked about
                  /\ UNCHANGED <<keyToUse, signature>>
               \/ /\ Continue /\ UNCHANGED <<timeoutOn, keepAliveOn>>
                  /\ keyToUse' = TRUE
                  /\ signature' = IF keyToUse \/ agentErr THEN signature
                                                         ELSE "asked"
  /\ UNCHANGED <<authType, state, probe, reports, kexVars, tried, upToDate,
                 agentSlots, agentKeys, agentErr, envVars>>

(* Channel traffic and global requests: the channel manager may throw, the *)
(* reply that a channel waited for may be in it.                           *)
HandleChannelPacket(type) ==
  /\ Receives(type)
  /\ chanTimer' \in {chanTimer, FALSE}
  /\ Continue
  /\ UNCHANGED <<authType, state, timeoutOn, keepAliveOn, probe, reports,
                 kexVars, authVars, agentVars, socket, srvAlive, crashed>>

HandleDisconnect ==
  /\ Receives("DISCONNECT")
  /\ Throw("SshProtocolError")
  /\ UNCHANGED <<authType, state, probe, reports, kexVars, authVars,
                 agentVars, envVars>>

(* The answer to the keep-alive packet; any other is a protocol error. *)
HandleUnimplemented ==
  /\ Receives("UNIMPLEMENTED")
  /\ probe
  /\ StartKeepAlive
  /\ Continue
  /\ UNCHANGED <<authType, state, reports, kexVars, authVars, agentVars,
                 envVars>>

-----------------------------------------------------------------------------
(* The ssh-agent, shared by all connections of the process. Only agent     *)
(* authentication touches it.                                              *)

(* keysUpdated(): tryAllAgentKeys() runs here in a slot that nobody guards *)
(* against its exception.                                                  *)
AgentKeysUpdated ==
  /\ Idle /\ authType = "Agent" /\ ~agentErr
  /\ agentKeys' \in 0..MaxKeys
  /\ upToDate' = (upToDate \/ agentSlots > 0)
  /\ IF agentSlots > 0 /\ state = "WaitingForAgentKeys"
       THEN /\ state' = "UserAuthRequested"
            /\ crashed' = (agentKeys' = 0)
            /\ QueryKeys(agentKeys')
       ELSE UNCHANGED <<state, crashed, pending>>
  /\ UNCHANGED <<authType, err, closing, loop, wired, timeoutOn, keepAliveOn,
                 probe, reports, kexVars, tried, keyToUse, agentSlots,
                 agentErr, signature, socket, srvAlive, chanTimer>>

(* handleSignatureFromAgent() and authenticateWithPublicKey(), which lets  *)
(* go of the agent; the token tells signatures of earlier attempts apart.  *)
AgentSigns ==
  /\ Idle /\ signature # "none"
  /\ signature' = "none"
  /\ agentSlots' = IF signature = "asked" THEN 0 ELSE agentSlots
  /\ UNCHANGED <<authType, state, err, closing, loop, wired, timeoutOn,
                 keepAliveOn, probe, reports, kexVars, tried, pending,
                 keyToUse, upToDate, agentKeys, agentErr, envVars>>

(* setAgentError() in every attached slot: the error is recorded and       *)
(* reported, but the connection is not closed. SshAgent keeps its error.   *)
AgentFails ==
  /\ Idle /\ authType = "Agent" /\ ~agentErr
  /\ agentErr' = TRUE /\ signature' = "none"
  /\ IF agentSlots > 0
       THEN /\ err' = "SshAgentError"
            /\ reports' = reports \o [i \in 1..agentSlots |-> "error"]
       ELSE UNCHANGED <<err, reports>>
  /\ UNCHANGED <<authType, state, closing, loop, wired, timeoutOn, keepAliveOn,
                 probe, kexVars, authVars, agentKeys, envVars>>

Terminated == crashed /\ UNCHANGED vars

-----------------------------------------------------------------------------
(* Specification                                                           *)

UserCall ==
  RefuseAttempt \/ ConnectToHost \/ DisconnectFromHost \/ OpenChannel

SocketOrTimer ==
  \/ HandleTimeout \/ ChannelTimeout \/ SendKeepAlivePacket
  \/ SocketConnects \/ HandleSocketDisconnected \/ HandleSocketError
  \/ ServerDies

Packet ==
  \/ HandleServerId \/ IgnoreGuessedPacket \/ UnexpectedPacket
  \/ HandleKeyExchangeInit \/ HandleKeyExchangeReply \/ HandleNewKeys
  \/ HandleServiceAccept \/ HandlePasswordExpired \/ HandleInfoRequest
  \/ HandleUserAuthSuccess \/ HandleUserAuthFailure \/ HandleUserAuthKeyOk
  \/ \E type \in {"CHANNEL", "CHANNEL_END"} : HandleChannelPacket(type)
  \/ HandleDisconnect \/ HandleUnimplemented
  \/ EndLoop

Closing == FinishClose \/ DisconnectWhileClosing \/ DisconnectInSlot

Agent == AgentKeysUpdated \/ AgentSigns \/ AgentFails

Next == UserCall \/ SocketOrTimer \/ Packet \/ Closing \/ Agent \/ Terminated

(* A handler that runs returns; the event loop gets to expired timers even *)
(* when the server keeps it busy. Nothing is assumed of server or user.    *)
Fairness ==
  /\ WF_vars(FinishClose) /\ WF_vars(EndLoop)
  /\ SF_vars(HandleTimeout) /\ SF_vars(SendKeepAlivePacket)

Spec == Init /\ [][Next]_vars /\ Fairness

-----------------------------------------------------------------------------
(* Properties                                                              *)

(* Types of all variables. Nothing nests closeConnection() deeper than two. *)
TypeOK ==
  /\ authType \in AuthTypes
  /\ state \in States /\ err \in Errors
  /\ closing \in 0..2
  /\ loop \in BOOLEAN /\ wired \in BOOLEAN
  /\ timeoutOn \in BOOLEAN /\ keepAliveOn \in BOOLEAN /\ probe \in BOOLEAN
  /\ reports \in Seq({"connected", "disconnected", "error"})
  /\ kex \in KexStates
  /\ kexObj \in BOOLEAN /\ encOut \in BOOLEAN /\ encIn \in BOOLEAN
  /\ ignoreNext \in BOOLEAN /\ serverId \in BOOLEAN
  /\ tried \in BOOLEAN /\ keyToUse \in BOOLEAN /\ upToDate \in BOOLEAN
  /\ pending \in 0..MaxKeys
  /\ agentSlots \in 0..MaxAgentSlots
  /\ agentKeys \in 0..MaxKeys
  /\ agentErr \in BOOLEAN /\ signature \in {"none", "asked", "stale"}
  /\ socket \in SocketStates
  /\ srvAlive \in BOOLEAN /\ chanTimer \in BOOLEAN /\ crashed \in BOOLEAN

(* No credentials, and no session, before both directions use the keys of  *)
(* this attempt: m_sendFacility and m_incomingPacket were reset by         *)
(* connectToHost() and rekeyed since, even if attempts overlap with late   *)
(* packets of earlier ones.                                                *)
AuthOnlyAfterKeys ==
  state \in AuthStates \union {"ConnectionEstablished"} => encOut /\ encIn

(* The assertion of sendKeepAlivePacket() (never two keep-alive packets    *)
(* unanswered), and the pointer m_keyExchange that the key exchange        *)
(* handlers follow without a test.                                         *)
AssertionsHold ==
  /\ keepAliveOn => ~probe
  /\ kex # "NoKeyExchange" => kexObj

(* The assertion of handleCurrentPacket(): a packet is to be skipped only  *)
(* right after our DH packet. It fails when the server sends a guessed key *)
(* exchange before its identification line, which handlePackets() accepts. *)
IgnoreOnlyAfterDhInit == ignoreNext => kex = "DhInitSent"

(* A connection that is not closing can always be given up: while it is    *)
(* being set up the timeout runs, once established the keep-alive timer or *)
(* the timeout for its answer runs. (An agent error voids this: it blocks  *)
(* closeConnection().)                                                     *)
WatchdogArmed ==
  closing = 0 /\ err = "SshNoError" /\ state # "SocketUnconnected" =>
    /\ wired
    /\ IF state = "ConnectionEstablished" THEN keepAliveOn \/ timeoutOn
                                          ELSE timeoutOn

(* Outside closeConnection() an unconnected object has neither of its own  *)
(* two timers running and no signal of its socket attached, whatever       *)
(* packets were still buffered when it closed. It says nothing of what     *)
(* does outlive an attempt: the reply timer of a channel (line 227, action *)
(* ChannelTimeout) and the attached slots of the agent (agentSlots).       *)
QuietWhenUnconnected ==
  closing = 0 /\ state = "SocketUnconnected" =>
    ~wired /\ ~timeoutOn /\ ~keepAliveOn

(* The user learns of every failure: when an attempt or session is over,   *)
(* error was reported if and only if m_error says there was one, and       *)
(* disconnected once for every connected.                                  *)
Reported(signal) == {i \in DOMAIN reports : reports[i] = signal}
OutcomeReported ==
  closing = 0 /\ state = "SocketUnconnected" =>
    /\ err # "SshNoError" <=> Reported("error") # {}
    /\ Reported("connected") # {} <=> Reported("disconnected") # {}

(* Connections implement the promise of SshLifecycle. *)
Lifecycle == INSTANCE SshLifecycle WITH mode <- PublicState(state)
ImplementsLifecycle == Lifecycle!Spec

(* A connection attempt comes to an end, whatever the server does. (The    *)
(* exception is an agent error, after which it may hang for ever.)         *)
AttemptResolves ==
  PublicState(state) = "Connecting" ~>
    PublicState(state) # "Connecting" \/ err # "SshNoError" \/ crashed

(* A session with a silent server is noticed and closed, unless a key      *)
(* exchange is under way, during which the keep-alive timer only restarts  *)
(* (or an agent error blocks closeConnection()).                           *)
DeadPeerDetected ==
  (/\ state = "ConnectionEstablished" /\ err = "SshNoError"
   /\ ~srvAlive /\ ~loop /\ kex = "NoKeyExchange") ~>
    state = "SocketUnconnected" \/ err = "SshAgentError"
=============================================================================
