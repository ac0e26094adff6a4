------------------------ MODULE SshConnection_proofs ------------------------
(***************************************************************************)
(* The safety properties of SshConnection, for every value of its          *)
(* constants. They are not inductive one by one: that a watchdog runs      *)
(* depends on which timers an earlier closeConnection() left running, that *)
(* credentials are sent under encryption depends on how far the key        *)
(* exchange went, and that the queue of key queries stays within its bound *)
(* depends on the order of the states. IInv collects what they need.       *)
(* What a user is told (OutcomeReported) needs more: which reports belong  *)
(* to each state, and who still owes one (OutcomeInv).                     *)
(***************************************************************************)
EXTENDS SshConnection, SequenceTheorems, TLAPS

(* closeConnection() has detached everything before it calls anybody, and  *)
(* nothing is attached again before the next connectToHost().              *)
NothingArmed == ~wired /\ ~timeoutOn /\ ~keepAliveOn
Quiet == closing > 0 \/ state = "SocketUnconnected" => NothingArmed

(* The first two states belong to a socket that is not connected yet, and  *)
(* no packet is handled before it is.                                      *)
SocketInStep ==
  /\ socket = "Connecting" /\ wired => state = "SocketConnecting"
  /\ loop => socket # "Connecting"

(* Between our NEWKEYS and the server's, we already send encrypted. *)
KeysInStep == state # "SocketUnconnected" /\ kex = "NewKeysSent" => encOut

(* Keys are queried once per attempt, when authentication starts. *)
NoQueriesYet ==
  state \in {"SocketConnecting", "SocketConnected",
             "UserAuthServiceRequested", "WaitingForAgentKeys"} => pending = 0

(* Of two nested closeConnection() calls, the outer has nothing to report. *)
NestedCloseIsSilent ==
  closing > 0 /\ (closing = 2 \/ state = "SocketUnconnected") =>
    err = "SshNoError"

SafetyInv ==
  /\ AuthOnlyAfterKeys
  /\ AssertionsHold
  /\ WatchdogArmed
  /\ Quiet
  /\ SocketInStep
  /\ KeysInStep
  /\ NoQueriesYet
  /\ NestedCloseIsSilent

IInv == TypeOK /\ SafetyInv

-----------------------------------------------------------------------------
(* What the operators shared by several actions leave in the variables     *)
(* they assign.                                                            *)

LEMMA CloseConnectionTypes ==
  ASSUME TypeOK, closing < 2, NEW e \in Errors, CloseConnection(e)
  PROVE  /\ err' \in Errors /\ closing' \in 0..2
         /\ wired' \in BOOLEAN /\ timeoutOn' \in BOOLEAN
         /\ keepAliveOn' \in BOOLEAN
<1>1. err' \in Errors /\ closing' \in 0..2
  BY SMT DEF TypeOK, CloseConnection
<1>2. /\ wired' \in BOOLEAN /\ timeoutOn' \in BOOLEAN
      /\ keepAliveOn' \in BOOLEAN
  BY Zenon DEF TypeOK, CloseConnection
<1> QED  BY <1>1, <1>2

LEMMA ThrowTypes ==
  ASSUME TypeOK, closing < 2, NEW e \in Errors, Throw(e)
  PROVE  /\ err' \in Errors /\ closing' \in 0..2
         /\ loop' \in BOOLEAN /\ wired' \in BOOLEAN
         /\ timeoutOn' \in BOOLEAN /\ keepAliveOn' \in BOOLEAN
<1>1. loop' \in BOOLEAN
  BY Zenon DEF Throw
<1> QED  BY <1>1, CloseConnectionTypes DEF Throw

LEMMA ContinueTypes ==
  ASSUME TypeOK, Continue
  PROVE  /\ err' \in Errors /\ closing' \in 0..2
         /\ loop' \in BOOLEAN /\ wired' \in BOOLEAN
BY SMT DEF TypeOK, Continue

LEMMA RejectedByServerTypes ==
  ASSUME TypeOK, closing < 2, RejectedByServer
  PROVE  /\ err' \in Errors /\ closing' \in 0..2
         /\ loop' \in BOOLEAN /\ wired' \in BOOLEAN
         /\ timeoutOn' \in BOOLEAN /\ keepAliveOn' \in BOOLEAN
<1>1. loop' \in BOOLEAN
  BY Zenon DEF RejectedByServer
<1>2. CASE err # "SshNoError"
  <2>1. timeoutOn' \in BOOLEAN
    BY <1>2, Zenon DEF RejectedByServer
  <2>2. UNCHANGED <<err, closing, wired, keepAliveOn>>
    BY <1>2 DEF RejectedByServer
  <2> QED  BY <1>1, <2>1, <2>2 DEF TypeOK
<1>3. CASE err = "SshNoError"
  <2>1. CloseConnection("SshAuthenticationError")
    BY <1>3 DEF RejectedByServer
  <2>2. "SshAuthenticationError" \in Errors
    BY DEF Errors
  <2> QED  BY <1>1, <2>1, <2>2, CloseConnectionTypes
<1> QED  BY <1>2, <1>3

LEMMA ResetAttemptTypes ==
  ASSUME TypeOK, ResetAttempt
  PROVE  /\ encOut' \in BOOLEAN /\ encIn' \in BOOLEAN
         /\ ignoreNext' \in BOOLEAN /\ serverId' \in BOOLEAN
         /\ keyToUse' \in BOOLEAN /\ upToDate' \in BOOLEAN
         /\ pending' \in 0..MaxKeys
         /\ signature' \in {"none", "asked", "stale"}
<1>1. pending' \in 0..MaxKeys /\ signature' \in {"none", "asked", "stale"}
  BY ConstantsAssumption, SMT DEF TypeOK, ResetAttempt
<1>2. /\ encOut' \in BOOLEAN /\ encIn' \in BOOLEAN
      /\ ignoreNext' \in BOOLEAN /\ serverId' \in BOOLEAN
      /\ keyToUse' \in BOOLEAN /\ upToDate' \in BOOLEAN
  BY Zenon DEF ResetAttempt
<1> QED  BY <1>1, <1>2

LEMMA KeepAliveTypes ==
  ASSUME StartKeepAlive \/ SendProbe
  PROVE  /\ timeoutOn' \in BOOLEAN /\ keepAliveOn' \in BOOLEAN
         /\ probe' \in BOOLEAN
BY Zenon DEF StartKeepAlive, SendProbe

(* A row of n equal signals is a sequence of signals. *)
LEMMA RepeatedSignal ==
  ASSUME NEW S, NEW x \in S, NEW n \in Nat
  PROVE  [i \in 1..n |-> x] \in Seq(S)
<1>1. [i \in 1..n |-> x] \in [1..n -> S]
  OBVIOUS
<1> QED  BY <1>1, SeqDef

-----------------------------------------------------------------------------
(* Every action keeps the types. That the queue of key queries stays within *)
(* its bound needs NoQueriesYet.                                            *)
LEMMA TypesKept == ASSUME TypeOK, NoQueriesYet, [Next]_vars  PROVE TypeOK'
<1> USE ConstantsAssumption DEF TypeOK, NoQueriesYet, States, KexStates,
        Errors, SocketStates, kexVars, authVars, agentVars, envVars
<1>1. CASE RefuseAttempt
  BY <1>1, ResetAttemptTypes, SMT
  DEF RefuseAttempt, Idle, QueryKeys
<1>2. CASE ConnectToHost
  BY <1>2, ResetAttemptTypes, SMT
  DEF ConnectToHost, Attach, Idle, QueryKeys
<1>3. CASE DisconnectFromHost
  BY <1>3, CloseConnectionTypes, SMT
  DEF DisconnectFromHost, Idle
<1>4. CASE OpenChannel
  BY <1>4, SMT
  DEF OpenChannel, Idle
<1>5. CASE HandleTimeout
  <2>1. CASE state = "SocketUnconnected" \/ err # "SshNoError"
    <3>1. timeoutOn' \in BOOLEAN
      BY <1>5, <2>1, Zenon DEF HandleTimeout
    <3>2. UNCHANGED <<err, closing, wired, keepAliveOn>>
      BY <1>5, <2>1 DEF HandleTimeout
    <3> QED  BY <1>5, <3>1, <3>2, SMT DEF HandleTimeout
  <2>2. CASE ~(state = "SocketUnconnected" \/ err # "SshNoError")
    BY <1>5, <2>2, CloseConnectionTypes, SMT DEF HandleTimeout, Idle
  <2> QED  BY <2>1, <2>2
<1>6. CASE ChannelTimeout
  <2>1. chanTimer' \in BOOLEAN
    BY <1>6, Zenon DEF ChannelTimeout
  <2> QED
    BY <1>6, <2>1, CloseConnectionTypes, SMT DEF ChannelTimeout, Idle
<1>7. CASE SendKeepAlivePacket
  <2>1. CASE kex # "NoKeyExchange"
    BY <1>7, <2>1, SMT DEF SendKeepAlivePacket
  <2>2. CASE kex = "NoKeyExchange"
    BY <1>7, <2>2, KeepAliveTypes, SMT DEF SendKeepAlivePacket
  <2> QED  BY <2>1, <2>2
<1>8. CASE SocketConnects
  BY <1>8, SMT
  DEF SocketConnects, Idle
<1>9. CASE HandleSocketDisconnected
  BY <1>9, CloseConnectionTypes, SMT
  DEF HandleSocketDisconnected, Closing, DisconnectInSlot,
      DisconnectWhileClosing, FinishClose, CloseSignals, Idle
<1>10. CASE HandleSocketError
  BY <1>10, CloseConnectionTypes, SMT
  DEF HandleSocketError, Idle
<1>11. CASE ServerDies
  <2>1. srvAlive' \in BOOLEAN
    BY <1>11, Zenon DEF ServerDies
  <2> QED  BY <1>11, <2>1, SMT DEF ServerDies
<1>12. CASE HandleServerId
  <2>1. CASE Throw("SshProtocolError") /\ serverId' \in BOOLEAN /\ UNCHANGED <<kex, kexObj>>
    BY <1>12, <2>1, ThrowTypes, SMT DEF HandleServerId, MayReceive
  <2>2. CASE /\ Continue
             /\ serverId' = TRUE /\ kexObj' = TRUE /\ kex' = "KexInitSent"
             /\ UNCHANGED <<timeoutOn, keepAliveOn>>
    BY <1>12, <2>2, ContinueTypes, SMT DEF HandleServerId
  <2> QED  BY <1>12, <2>1, <2>2 DEF HandleServerId
<1>13. CASE IgnoreGuessedPacket
  <2>1. ignoreNext' \in BOOLEAN
    BY <1>13, Zenon DEF IgnoreGuessedPacket
  <2> QED
    BY <1>13, <2>1, ContinueTypes, SMT DEF IgnoreGuessedPacket
<1>14. CASE UnexpectedPacket
  BY <1>14, ThrowTypes, SMT
  DEF UnexpectedPacket, MayReceive
<1>15. CASE HandleKeyExchangeInit
  BY <1>15, ContinueTypes, ThrowTypes, SMT
  DEF HandleKeyExchangeInit, Receives, MayReceive
<1>16. CASE HandleKeyExchangeReply
  BY <1>16, ContinueTypes, SMT
  DEF HandleKeyExchangeReply, Receives, MayReceive
<1>17. CASE HandleNewKeys
  <2>1. kexObj' \in BOOLEAN
    BY <1>17, Zenon DEF HandleNewKeys
  <2> QED
    BY <1>17, <2>1, ContinueTypes, SMT DEF HandleNewKeys
<1>18. CASE HandleServiceAccept
  <2>1. tried' \in BOOLEAN
    BY <1>18, Zenon DEF HandleServiceAccept
  <2>2. pending = 0 /\ closing = 0
    BY <1>18, SMT DEF HandleServiceAccept, Receives, MayReceive, HandledIn
  <2>3. pending' \in 0..MaxKeys /\ state' \in States
    BY <1>18, <2>2, SMT DEF HandleServiceAccept, QueryKeys
  <2>4. /\ err' \in Errors /\ closing' \in 0..2
        /\ loop' \in BOOLEAN /\ wired' \in BOOLEAN
        /\ timeoutOn' \in BOOLEAN /\ keepAliveOn' \in BOOLEAN
    <3>1. CASE Continue /\ UNCHANGED <<timeoutOn, keepAliveOn>>
      BY <3>1, ContinueTypes
    <3>2. CASE Throw("SshAuthenticationError")
      BY <2>2, <3>2, ThrowTypes
    <3> QED  BY <1>18, <3>1, <3>2 DEF HandleServiceAccept
  <2>5. UNCHANGED <<authType, probe, reports, kexVars, keyToUse, upToDate,
                    agentSlots, agentVars, envVars>>
    BY <1>18 DEF HandleServiceAccept
  <2> QED  BY <2>1, <2>3, <2>4, <2>5, SMT
<1>19. CASE HandlePasswordExpired
  BY <1>19, ThrowTypes, SMT
  DEF HandlePasswordExpired, Receives, MayReceive
<1>20. CASE HandleInfoRequest
  BY <1>20, ContinueTypes, ThrowTypes, SMT
  DEF HandleInfoRequest, Receives, MayReceive
<1>21. CASE HandleUserAuthSuccess
  BY <1>21, ContinueTypes, KeepAliveTypes, SMT
  DEF HandleUserAuthSuccess, Receives, MayReceive
<1>22. CASE HandleUserAuthFailure
  <2>1. closing = 0
    BY <1>22 DEF HandleUserAuthFailure, Receives, MayReceive
  <2>2. pending' \in 0..MaxKeys
    BY <1>22, SMT DEF HandleUserAuthFailure
  <2>3. tried' \in BOOLEAN
    <3>1. tried' = TRUE \/ UNCHANGED tried
      BY <1>22 DEF HandleUserAuthFailure
    <3> QED  BY <3>1
  <2>4. /\ err' \in Errors /\ closing' \in 0..2
        /\ loop' \in BOOLEAN /\ wired' \in BOOLEAN
        /\ timeoutOn' \in BOOLEAN /\ keepAliveOn' \in BOOLEAN
    <3>1. CASE Continue /\ UNCHANGED <<timeoutOn, keepAliveOn>>
      BY <3>1, ContinueTypes
    <3>2. CASE Throw("SshAuthenticationError")
      BY <2>1, <3>2, ThrowTypes
    <3>3. CASE RejectedByServer
      BY <2>1, <3>3, RejectedByServerTypes
    <3> QED  BY <1>22, <3>1, <3>2, <3>3 DEF HandleUserAuthFailure
  <2> QED  BY <1>22, <2>2, <2>3, <2>4, SMT DEF HandleUserAuthFailure
<1>23. CASE HandleUserAuthKeyOk
  <2>1. closing = 0
    BY <1>23 DEF HandleUserAuthKeyOk, Receives, MayReceive
  <2>2. pending' \in 0..MaxKeys /\ signature' \in {"none", "asked", "stale"}
    BY <1>23, SMT DEF HandleUserAuthKeyOk
  <2>3. keyToUse' \in BOOLEAN
    <3>1. keyToUse' = TRUE \/ UNCHANGED keyToUse
      BY <1>23 DEF HandleUserAuthKeyOk
    <3> QED  BY <3>1
  <2>4. /\ err' \in Errors /\ closing' \in 0..2
        /\ loop' \in BOOLEAN /\ wired' \in BOOLEAN
        /\ timeoutOn' \in BOOLEAN /\ keepAliveOn' \in BOOLEAN
    <3>1. CASE Continue /\ UNCHANGED <<timeoutOn, keepAliveOn>>
      BY <3>1, ContinueTypes
    <3>2. CASE Throw("SshProtocolError")
      BY <2>1, <3>2, ThrowTypes
    <3> QED  BY <1>23, <3>1, <3>2 DEF HandleUserAuthKeyOk
  <2> QED  BY <1>23, <2>2, <2>3, <2>4, SMT DEF HandleUserAuthKeyOk
<1>24. CASE HandleDisconnect
  BY <1>24, ThrowTypes, SMT
  DEF HandleDisconnect, Receives, MayReceive
<1>25. CASE HandleUnimplemented
  BY <1>25, ContinueTypes, KeepAliveTypes, SMT
  DEF HandleUnimplemented, Receives, MayReceive
<1>26. CASE EndLoop
  <2>1. loop' \in BOOLEAN
    BY <1>26, Zenon DEF EndLoop
  <2> QED  BY <1>26, <2>1, SMT DEF EndLoop
<1>27. CASE FinishClose
  BY <1>27, CloseConnectionTypes, SMT
  DEF FinishClose, Closing, DisconnectInSlot, DisconnectWhileClosing,
      CloseSignals
<1>28. CASE DisconnectWhileClosing
  BY <1>28, CloseConnectionTypes, SMT
  DEF DisconnectWhileClosing
<1>29. CASE DisconnectInSlot
  BY <1>29, CloseConnectionTypes, SMT
  DEF DisconnectInSlot
<1>30. CASE AgentKeysUpdated
  <2>1. upToDate' \in BOOLEAN
    BY <1>30, Zenon DEF AgentKeysUpdated
  <2>2. CASE agentSlots > 0 /\ state = "WaitingForAgentKeys"
    <3>1. crashed' \in BOOLEAN
      BY <1>30, <2>2, Zenon DEF AgentKeysUpdated
    <3>2. state' = "UserAuthRequested" /\ agentKeys' \in 0..MaxKeys
      BY <1>30, <2>2 DEF AgentKeysUpdated
    <3>3. UNCHANGED <<authType, err, closing, loop, wired, timeoutOn,
                      keepAliveOn, probe, reports, kexVars, tried, keyToUse,
                      agentSlots, agentErr, signature, socket, srvAlive,
                      chanTimer>>
      BY <1>30 DEF AgentKeysUpdated
    <3>4. pending = 0
      BY <2>2
    <3>5. \A n \in 0..MaxKeys : pending + n \in 0..MaxKeys
      BY <3>4, SMT
    <3>6. pending' \in 0..MaxKeys
      BY <1>30, <2>2, <3>2, <3>5, Zenon DEF AgentKeysUpdated, QueryKeys
    <3> QED  BY <2>1, <3>1, <3>2, <3>3, <3>6, SMT
  <2>3. CASE ~(agentSlots > 0 /\ state = "WaitingForAgentKeys")
    BY <1>30, <2>1, <2>3, SMT DEF AgentKeysUpdated
  <2> QED  BY <2>2, <2>3
<1>31. CASE AgentSigns
  BY <1>31, SMT
  DEF AgentSigns, Idle
<1>32. CASE AgentFails
  <2>1. reports' \in Seq({"connected", "disconnected", "error"})
    <3>1. agentSlots \in Nat
      BY SMT
    <3>2. [i \in 1..agentSlots |-> "error"]
            \in Seq({"connected", "disconnected", "error"})
      BY <3>1, RepeatedSignal
    <3>3. CASE agentSlots > 0
      <4>1. reports' = reports \o [i \in 1..agentSlots |-> "error"]
        BY <1>32, <3>3 DEF AgentFails
      <4> QED  BY <3>2, <4>1, ConcatProperties
    <3>4. CASE ~(agentSlots > 0)
      BY <1>32, <3>4 DEF AgentFails
    <3> QED  BY <3>3, <3>4
  <2>2. err' \in Errors /\ agentErr' = TRUE /\ signature' = "none"
    BY <1>32 DEF AgentFails
  <2>3. UNCHANGED <<authType, state, closing, loop, wired, timeoutOn,
                    keepAliveOn, probe, kexVars, authVars, agentKeys, envVars>>
    BY <1>32 DEF AgentFails
  <2> QED  BY <2>1, <2>2, <2>3, SMT
<1>33. CASE \E type \in {"CHANNEL", "CHANNEL_END"} : HandleChannelPacket(type)
  <2> SUFFICES ASSUME NEW type \in {"CHANNEL", "CHANNEL_END"},
                      HandleChannelPacket(type)
               PROVE  TypeOK'
    BY <1>33
  <2>1. chanTimer' \in BOOLEAN
    BY Zenon DEF HandleChannelPacket
  <2> QED  BY <2>1, ContinueTypes, SMT DEF HandleChannelPacket
<1>34. CASE UNCHANGED vars
  BY <1>34, SMT DEF vars
<1> QED
  BY <1>1, <1>2, <1>3, <1>4, <1>5, <1>6, <1>7, <1>8, <1>9, <1>10, <1>11,
     <1>12, <1>13, <1>14, <1>15, <1>16, <1>17, <1>18, <1>19, <1>20, <1>21,
     <1>22, <1>23, <1>24, <1>25, <1>26, <1>27, <1>28, <1>29, <1>30, <1>31,
     <1>32, <1>33, <1>34
  DEF Next, UserCall, SocketOrTimer, Packet, Closing, Agent, Terminated

-----------------------------------------------------------------------------
(* Every action keeps the rest of the invariant.                           *)
LEMMA InvariantKept == ASSUME IInv, [Next]_vars  PROVE SafetyInv'
<1> USE ConstantsAssumption DEF IInv, TypeOK, SafetyInv, AuthOnlyAfterKeys,
        AssertionsHold, WatchdogArmed, Quiet, NothingArmed, SocketInStep,
        KeysInStep, NoQueriesYet, NestedCloseIsSilent, States, AuthStates,
        kexVars, authVars, agentVars, envVars
<1>1. CASE RefuseAttempt
  BY <1>1, SMT
  DEF RefuseAttempt, ResetAttempt, Idle, QueryKeys
<1>2. CASE ConnectToHost
  BY <1>2, SMT
  DEF ConnectToHost, Attach, Idle, QueryKeys, ResetAttempt
<1>3. CASE DisconnectFromHost
  BY <1>3, SMT
  DEF DisconnectFromHost, CloseConnection, Idle
<1>4. CASE OpenChannel
  BY <1>4, SMT
  DEF OpenChannel, Idle
<1>5. CASE HandleTimeout
  <2>1. CASE state = "SocketUnconnected" \/ err # "SshNoError"
    <3>1. ~timeoutOn' /\ UNCHANGED <<err, closing, wired, keepAliveOn>>
      BY <1>5, <2>1 DEF HandleTimeout
    <3>2. UNCHANGED <<authType, state, loop, probe, reports, kexVars,
                      authVars, agentVars, envVars>>
      BY <1>5 DEF HandleTimeout
    <3> QED  BY <1>5, <2>1, <3>1, <3>2, SMT
  <2>2. CASE ~(state = "SocketUnconnected" \/ err # "SshNoError")
    BY <1>5, <2>2, SMT DEF HandleTimeout, CloseConnection, Idle
  <2> QED  BY <2>1, <2>2
<1>6. CASE ChannelTimeout
  BY <1>6, SMT
  DEF ChannelTimeout, CloseConnection, Idle
<1>7. CASE SendKeepAlivePacket
  <2>1. CASE kex # "NoKeyExchange"
    BY <1>7, <2>1, SMT DEF SendKeepAlivePacket
  <2>2. CASE kex = "NoKeyExchange"
    <3>1. SendProbe
      BY <1>7, <2>2 DEF SendKeepAlivePacket
    <3> QED  BY <1>7, <2>2, <3>1, SMT DEF SendKeepAlivePacket, SendProbe
  <2> QED  BY <2>1, <2>2
<1>8. CASE SocketConnects
  BY <1>8, SMT
  DEF SocketConnects, Idle
<1>9. CASE HandleSocketDisconnected
  BY <1>9, SMT
  DEF HandleSocketDisconnected, CloseConnection, Closing, DisconnectInSlot,
      DisconnectWhileClosing, FinishClose, CloseSignals, Idle
<1>10. CASE HandleSocketError
  BY <1>10, SMT
  DEF HandleSocketError, CloseConnection, Idle
<1>11. CASE ServerDies
  BY <1>11, SMT
  DEF ServerDies
<1>12. CASE HandleServerId
  BY <1>12, SMT
  DEF HandleServerId, Continue, Throw, CloseConnection, MayReceive
<1>13. CASE IgnoreGuessedPacket
  BY <1>13, SMT
  DEF IgnoreGuessedPacket, Continue, MayReceive
<1>14. CASE UnexpectedPacket
  BY <1>14, SMT
  DEF UnexpectedPacket, Throw, CloseConnection, MayReceive
<1>15. CASE HandleKeyExchangeInit
  BY <1>15, SMT
  DEF HandleKeyExchangeInit, Throw, CloseConnection, Continue, Receives,
      HandledIn, ConnectedOrClosedList, ConnectedList, AuthReqList,
      HasHandler, MayReceive
<1>16. CASE HandleKeyExchangeReply
  BY <1>16, SMT
  DEF HandleKeyExchangeReply, Continue, Receives, HandledIn,
      ConnectedOrClosedList, ConnectedList, AuthReqList, HasHandler,
      MayReceive
<1>17. CASE HandleNewKeys
  BY <1>17, SMT
  DEF HandleNewKeys, Continue, Receives, HandledIn, ConnectedOrClosedList,
      ConnectedList, AuthReqList, HasHandler, MayReceive
<1>18. CASE HandleServiceAccept
  BY <1>18, SMT
  DEF HandleServiceAccept, Throw, CloseConnection, Continue, QueryKeys, Idle,
      Receives, HandledIn, ConnectedOrClosedList, ConnectedList, AuthReqList,
      HasHandler, MayReceive
<1>19. CASE HandlePasswordExpired
  BY <1>19, SMT
  DEF HandlePasswordExpired, Throw, CloseConnection, Receives, HandledIn,
      ConnectedOrClosedList, ConnectedList, AuthReqList, HasHandler,
      MayReceive
<1>20. CASE HandleInfoRequest
  BY <1>20, SMT
  DEF HandleInfoRequest, Continue, Throw, CloseConnection, Receives,
      HandledIn, ConnectedOrClosedList, ConnectedList, AuthReqList,
      HasHandler, MayReceive
<1>21. CASE HandleUserAuthSuccess
  BY <1>21, SMT
  DEF HandleUserAuthSuccess, Continue, StartKeepAlive, Receives, HandledIn,
      ConnectedOrClosedList, ConnectedList, AuthReqList, HasHandler,
      MayReceive
<1>22. CASE HandleUserAuthFailure
  BY <1>22, SMT
  DEF HandleUserAuthFailure, RejectedByServer, CloseConnection, Continue,
      Throw, Receives, HandledIn, ConnectedOrClosedList, ConnectedList,
      AuthReqList, HasHandler, MayReceive
<1>23. CASE HandleUserAuthKeyOk
  BY <1>23, SMT
  DEF HandleUserAuthKeyOk, Continue, Throw, CloseConnection, Receives,
      HandledIn, ConnectedOrClosedList, ConnectedList, AuthReqList,
      HasHandler, MayReceive
<1>24. CASE HandleDisconnect
  BY <1>24, SMT
  DEF HandleDisconnect, Throw, CloseConnection, Receives, HandledIn,
      ConnectedOrClosedList, ConnectedList, AuthReqList, HasHandler,
      MayReceive
<1>25. CASE HandleUnimplemented
  BY <1>25, SMT
  DEF HandleUnimplemented, Continue, StartKeepAlive, Receives, HandledIn,
      ConnectedOrClosedList, ConnectedList, AuthReqList, HasHandler,
      MayReceive
<1>26. CASE EndLoop
  BY <1>26, SMT
  DEF EndLoop
<1>27. CASE FinishClose
  BY <1>27, SMT
  DEF FinishClose, Closing, DisconnectInSlot, CloseConnection,
      DisconnectWhileClosing, CloseSignals
<1>28. CASE DisconnectWhileClosing
  BY <1>28, SMT
  DEF DisconnectWhileClosing, CloseConnection
<1>29. CASE DisconnectInSlot
  BY <1>29, SMT
  DEF DisconnectInSlot, CloseConnection
<1>30. CASE AgentKeysUpdated
  BY <1>30, SMT
  DEF AgentKeysUpdated, QueryKeys, Idle
<1>31. CASE AgentSigns
  BY <1>31, SMT
  DEF AgentSigns, Idle
<1>32. CASE AgentFails
  BY <1>32, SMT
  DEF AgentFails, Idle, QueryKeys
<1>33. CASE \E type \in {"CHANNEL", "CHANNEL_END"} : HandleChannelPacket(type)
  BY <1>33, SMT
  DEF HandleChannelPacket, Continue, Receives, HandledIn,
      ConnectedOrClosedList, ConnectedList, AuthReqList, HasHandler,
      MayReceive
<1>34. CASE UNCHANGED vars
  BY <1>34, SMT DEF vars
<1> QED
  BY <1>1, <1>2, <1>3, <1>4, <1>5, <1>6, <1>7, <1>8, <1>9, <1>10, <1>11,
     <1>12, <1>13, <1>14, <1>15, <1>16, <1>17, <1>18, <1>19, <1>20, <1>21,
     <1>22, <1>23, <1>24, <1>25, <1>26, <1>27, <1>28, <1>29, <1>30, <1>31,
     <1>32, <1>33, <1>34
  DEF Next, UserCall, SocketOrTimer, Packet, Closing, Agent, Terminated

-----------------------------------------------------------------------------
(* The inductive invariant, and what follows from it                       *)

LEMMA InitEstablishes == Init => IInv
<1> SUFFICES ASSUME Init  PROVE IInv
  OBVIOUS
<1>1. /\ loop \in BOOLEAN /\ wired \in BOOLEAN
      /\ timeoutOn \in BOOLEAN /\ keepAliveOn \in BOOLEAN
      /\ probe \in BOOLEAN /\ kexObj \in BOOLEAN
      /\ encOut \in BOOLEAN /\ encIn \in BOOLEAN
      /\ ignoreNext \in BOOLEAN /\ serverId \in BOOLEAN
      /\ tried \in BOOLEAN /\ keyToUse \in BOOLEAN /\ upToDate \in BOOLEAN
      /\ agentErr \in BOOLEAN /\ srvAlive \in BOOLEAN
      /\ chanTimer \in BOOLEAN /\ crashed \in BOOLEAN
  BY Zenon DEF Init
<1>2. TypeOK
  BY <1>1, ConstantsAssumption, SMT
  DEF Init, TypeOK, States, KexStates, Errors, SocketStates
<1>3. SafetyInv
  BY SMT
  DEF Init, SafetyInv, AuthOnlyAfterKeys, AssertionsHold, WatchdogArmed,
      Quiet, NothingArmed, SocketInStep, KeysInStep, NoQueriesYet,
      NestedCloseIsSilent, AuthStates
<1> QED  BY <1>2, <1>3 DEF IInv

LEMMA NextPreserves == IInv /\ [Next]_vars => IInv'
BY TypesKept, InvariantKept DEF IInv, SafetyInv

(* Everything the proofs below rest on, in every reachable state. *)
THEOREM Inductive == Spec => []IInv
BY InitEstablishes, NextPreserves, PTL DEF Spec

(* Types, and with them the bounds: the queue m_pendingKeyChecks never     *)
(* holds more keys than the agent, and closeConnection() nests at most     *)
(* once, whatever the number of keys and of attached agent slots.          *)
THEOREM TypeCorrect == Spec => []TypeOK
BY Inductive, PTL DEF IInv

(* Credentials are sent, and a session runs, only under the keys of the    *)
(* attempt: handleNewKeysPacket() is the only way into authentication.     *)
THEOREM AuthenticationIsEncrypted == Spec => []AuthOnlyAfterKeys
BY Inductive, PTL DEF IInv, SafetyInv

(* Q_ASSERT(m_lastInvalidMsgSeqNr == InvalidSeqNr) never fails, and the    *)
(* key exchange handlers never follow a null m_keyExchange.                *)
THEOREM AssertionsNeverFail == Spec => []AssertionsHold
BY Inductive, PTL DEF IInv, SafetyInv

(* A live connection can always be given up by a timer that runs. *)
THEOREM AlwaysWatched == Spec => []WatchdogArmed
BY Inductive, PTL DEF IInv, SafetyInv

(* Neither m_timeoutTimer nor m_keepAliveTimer nor a signal of the socket  *)
(* outlives a connection; the timers of channels and the slots of the      *)
(* agent, which may, are not meant.                                        *)
THEOREM ClosedIsQuiet == Spec => []QuietWhenUnconnected
<1>1. IInv => QuietWhenUnconnected
  BY DEF IInv, SafetyInv, Quiet, NothingArmed, QuietWhenUnconnected
<1> QED  BY <1>1, Inductive, PTL

-----------------------------------------------------------------------------
(* The safety part of the refinement                                       *)

LEMMA InitRefines == Init => Lifecycle!Init
BY DEF Init, Lifecycle!Init, PublicState

(* The end of closeConnection() is the end of an attempt or of a session;  *)
(* the outer of two nested calls ends nothing and reports nothing.         *)
LEMMA FinishCloseRefines ==
  ASSUME IInv, FinishClose
  PROVE  [Lifecycle!Next]_(Lifecycle!lifecycleVars)
<1> USE DEF FinishClose, CloseSignals, PublicState
<1>1. CASE state = "ConnectionEstablished"
  <2>1. Lifecycle!EndSession
    BY <1>1 DEF Lifecycle!EndSession
  <2> QED  BY <2>1 DEF Lifecycle!Next
<1>2. CASE state = "SocketUnconnected"
  <2>1. err = "SshNoError"
    BY <1>2, SMT DEF IInv, SafetyInv, NestedCloseIsSilent
  <2> QED  BY <1>2, <2>1 DEF Lifecycle!lifecycleVars
<1>3. CASE state \notin {"ConnectionEstablished", "SocketUnconnected"}
  <2>1. Lifecycle!EndAttempt
    BY <1>3 DEF Lifecycle!EndAttempt
  <2> QED  BY <2>1 DEF Lifecycle!Next
<1> QED  BY <1>1, <1>2, <1>3

LEMMA NextRefines ==
  ASSUME IInv, [Next]_vars
  PROVE  [Lifecycle!Next]_(Lifecycle!lifecycleVars)
<1>1. CASE RefuseAttempt \/ ConnectToHost
  <2>1. Lifecycle!Begin
    BY <1>1 DEF RefuseAttempt, ConnectToHost, Lifecycle!Begin, PublicState
  <2> QED  BY <2>1 DEF Lifecycle!Next
<1>2. CASE HandleUserAuthSuccess
  <2>1. state = "UserAuthRequested"
    BY <1>2 DEF HandleUserAuthSuccess, Receives, HandledIn, AuthReqList
  <2>2. Lifecycle!Establish
    BY <1>2, <2>1 DEF HandleUserAuthSuccess, Lifecycle!Establish, PublicState
  <2> QED  BY <2>2 DEF Lifecycle!Next
<1>3. CASE FinishClose
  BY <1>3, FinishCloseRefines
<1>4. CASE AgentFails
  <2>1. CASE agentSlots > 0
    <3>1. agentSlots \in 1..MaxAgentSlots
      BY <2>1, ConstantsAssumption, SMT DEF IInv, TypeOK
    <3>2. Lifecycle!AgentError
      BY <1>4, <2>1, <3>1 DEF AgentFails, Lifecycle!AgentError, PublicState
    <3> QED  BY <3>2 DEF Lifecycle!Next
  <2>2. CASE ~(agentSlots > 0)
    BY <1>4, <2>2 DEF AgentFails, Lifecycle!lifecycleVars
  <2> QED  BY <2>1, <2>2
<1>5. CASE UNCHANGED <<state, reports>>
  BY <1>5 DEF Lifecycle!lifecycleVars
<1>6. CASE SocketConnects
  <2>1. socket = "Connecting" /\ wired => state = "SocketConnecting"
    BY DEF IInv, SafetyInv, SocketInStep
  <2> QED
    BY <1>6, <2>1 DEF SocketConnects, PublicState, Lifecycle!lifecycleVars
<1>7. CASE HandleNewKeys
  BY <1>7 DEF HandleNewKeys, PublicState, Lifecycle!lifecycleVars
<1>8. CASE HandleServiceAccept
  <2>1. state = "UserAuthServiceRequested"
    BY <1>8 DEF HandleServiceAccept, Receives, HandledIn
  <2>2. state' \in {state, "WaitingForAgentKeys", "UserAuthRequested"}
    BY <1>8 DEF HandleServiceAccept
  <2> QED  BY <1>8, <2>1, <2>2
    DEF HandleServiceAccept, PublicState, Lifecycle!lifecycleVars
<1>9. CASE AgentKeysUpdated
  BY <1>9 DEF AgentKeysUpdated, PublicState, Lifecycle!lifecycleVars
<1>10. CASE UserCall \/ SocketOrTimer
  <2>1. \/ RefuseAttempt \/ ConnectToHost \/ SocketConnects
        \/ UNCHANGED <<state, reports>>
    BY <1>10 DEF UserCall, SocketOrTimer, DisconnectFromHost, OpenChannel,
      HandleTimeout, ChannelTimeout, SendKeepAlivePacket,
      HandleSocketDisconnected, HandleSocketError, ServerDies
  <2> QED  BY <2>1, <1>1, <1>5, <1>6
<1>11. CASE Packet
  <2>1. \/ HandleUserAuthSuccess \/ HandleNewKeys \/ HandleServiceAccept
        \/ UNCHANGED <<state, reports>>
    BY <1>11 DEF Packet, HandleServerId, IgnoreGuessedPacket,
      UnexpectedPacket, HandleKeyExchangeInit, HandleKeyExchangeReply,
      HandlePasswordExpired, HandleInfoRequest, HandleUserAuthFailure,
      HandleUserAuthKeyOk, HandleChannelPacket, HandleDisconnect,
      HandleUnimplemented, EndLoop
  <2> QED  BY <2>1, <1>2, <1>5, <1>7, <1>8
<1>12. CASE Closing
  BY <1>12, <1>3, <1>5 DEF Closing, DisconnectWhileClosing, DisconnectInSlot
<1>13. CASE Agent
  BY <1>13, <1>4, <1>5, <1>9 DEF Agent, AgentSigns
<1>14. CASE Terminated \/ UNCHANGED vars
  BY <1>14, <1>5 DEF Terminated, vars
<1> QED  BY <1>10, <1>11, <1>12, <1>13, <1>14 DEF Next

(* connectToHost() and closeConnection(), with everything that may happen  *)
(* between them, keep what SshConnection promises: connected is reported   *)
(* exactly once per established session and the end of every attempt or    *)
(* session is reported as the lifecycle says, for every number of keys and *)
(* agent slots.                                                            *)
THEOREM Refinement == Spec => Lifecycle!Spec
<1>1. IInv /\ [Next]_vars => [Lifecycle!Next]_(Lifecycle!lifecycleVars)
  BY NextRefines
<1> QED  BY <1>1, InitRefines, Inductive, PTL DEF Spec, Lifecycle!Spec

THEOREM LifecycleImplemented == Spec => ImplementsLifecycle
BY Refinement DEF ImplementsLifecycle

-----------------------------------------------------------------------------
(* What is reported of an attempt or session, while it lasts and when it   *)
(* is over                                                                 *)

Heard(signals, signal) == \E i \in DOMAIN signals : signals[i] = signal

(* An error is reported once m_error is set, except between the halves of  *)
(* closeConnection(); the outer of two nested calls has none to report.    *)
ErrorsInStep ==
  /\ closing = 0 \/ state = "SocketUnconnected" =>
       (err # "SshNoError" <=> Heard(reports, "error"))
  /\ closing > 0 /\ state # "SocketUnconnected" => ~Heard(reports, "error")

(* connected is reported when a session begins, disconnected when it ends. *)
SessionInStep ==
  /\ state = "ConnectionEstablished" =>
       Heard(reports, "connected") /\ ~Heard(reports, "disconnected")
  /\ state = "SocketUnconnected" =>
       (Heard(reports, "connected") <=> Heard(reports, "disconnected"))
  /\ state \notin {"ConnectionEstablished", "SocketUnconnected"} =>
       ~Heard(reports, "connected") /\ ~Heard(reports, "disconnected")

OutcomeInv == ErrorsInStep /\ SessionInStep

(* A signal that is posted is heard after the ones before it.              *)
LEMMA SignalAppended ==
  ASSUME NEW S, NEW signals \in Seq(S), NEW s \in S, NEW t
  PROVE  Heard(Append(signals, s), t) <=> Heard(signals, t) \/ t = s
<1> DEFINE longer == Append(signals, s)
<1>1. /\ Len(signals) \in Nat /\ DOMAIN signals = 1..Len(signals)
      /\ DOMAIN longer = 1..(Len(signals) + 1)
      /\ \A i \in 1..Len(signals) : longer[i] = signals[i]
      /\ longer[Len(signals) + 1] = s
  BY SMT
<1>2. DOMAIN longer = DOMAIN signals \union {Len(signals) + 1}
  BY <1>1, SMT
<1> HIDE DEF longer
<1>3. Heard(longer, t) <=> Heard(signals, t) \/ t = s
  BY <1>1, <1>2, Zenon DEF Heard
<1> QED
  BY <1>3 DEF longer

(* Of a signal that several slots post, one or many are heard.             *)
LEMMA SignalsAppended ==
  ASSUME NEW S, NEW signals \in Seq(S), NEW more \in Seq(S), NEW s, NEW t,
         Len(more) > 0, \A i \in 1..Len(more) : more[i] = s
  PROVE  Heard(signals \o more, t) <=> Heard(signals, t) \/ t = s
<1> DEFINE n == Len(more)
           longer == signals \o more
<1>1. n \in Nat \ {0} /\ \A i \in 1..n : more[i] = s
  BY SMT
<1>2. /\ Len(signals) \in Nat /\ DOMAIN signals = 1..Len(signals)
      /\ DOMAIN longer = 1..(Len(signals) + n)
      /\ \A i \in 1..(Len(signals) + n) :
           longer[i] = IF i <= Len(signals) THEN signals[i]
                                            ELSE more[i - Len(signals)]
  BY <1>1, ConcatProperties, SMT
<1> HIDE DEF n, longer
<1>3. \A i \in DOMAIN signals : i \in DOMAIN longer /\ longer[i] = signals[i]
  BY <1>1, <1>2, SMT
<1>4. \A i \in DOMAIN longer : longer[i] = s \/ i \in DOMAIN signals
  BY <1>1, <1>2, SMT
<1>5. /\ Len(signals) + 1 \in DOMAIN longer
      /\ longer[Len(signals) + 1] = s
  BY <1>1, <1>2, SMT
<1>6. Heard(longer, t) <=> Heard(signals, t) \/ t = s
  BY <1>3, <1>4, <1>5, Zenon DEF Heard
<1> QED
  BY <1>6 DEF longer

(* The first half of closeConnection() reports nothing yet.                *)
LEMMA CloseKeepsOutcome ==
  ASSUME IInv, OutcomeInv, closing < 2, NEW e, CloseConnection(e),
         UNCHANGED <<state, reports>>
  PROVE  OutcomeInv'
<1>1. SessionInStep'
  BY Zenon DEF OutcomeInv, SessionInStep
<1>2. CASE state = "SocketUnconnected" \/ err # "SshNoError"
  BY <1>1, <1>2, Zenon DEF CloseConnection, OutcomeInv, ErrorsInStep
<1>3. CASE ~(state = "SocketUnconnected" \/ err # "SshNoError")
  <2>1. ~Heard(reports, "error") /\ closing' > 0
    BY <1>3, SMT DEF CloseConnection, OutcomeInv, ErrorsInStep, IInv, TypeOK
  <2>2. closing' # 0 /\ state' # "SocketUnconnected"
    BY <1>3, <2>1, SMT
  <2> QED
    BY <1>1, <2>1, <2>2, Zenon DEF OutcomeInv, ErrorsInStep
<1> QED
  BY <1>2, <1>3

(* The second half reports what the state and m_error then say.            *)
LEMMA FinishCloseOutcome ==
  ASSUME IInv, OutcomeInv, FinishClose
  PROVE  OutcomeInv'
<1> DEFINE Signals == {"connected", "disconnected", "error"}
           failed == IF err # "SshNoError" THEN Append(reports, "error")
                                           ELSE reports
<1>1. /\ closing > 0 /\ state' = "SocketUnconnected" /\ err' = err
      /\ reports' = IF state = "ConnectionEstablished"
                      THEN Append(failed, "disconnected") ELSE failed
  BY Zenon DEF FinishClose, CloseSignals
<1>2. reports \in Seq(Signals) /\ failed \in Seq(Signals)
  <2>1. reports \in Seq(Signals)
    BY DEF IInv, TypeOK
  <2> QED
    BY <2>1, AppendProperties
<1>3. ASSUME NEW t
      PROVE  Heard(failed, t) <=>
               Heard(reports, t) \/ (err # "SshNoError" /\ t = "error")
  <2>1. CASE err # "SshNoError"
    <3>1. "error" \in Signals
      OBVIOUS
    <3>2. Heard(Append(reports, "error"), t) <=> Heard(reports, t) \/ t = "error"
      BY <1>2, <3>1, SignalAppended, SMT
    <3> QED
      BY <2>1, <3>2, Zenon
  <2>2. CASE err = "SshNoError"
    BY <2>2, Zenon
  <2> QED
    BY <2>1, <2>2
<1>4. ASSUME NEW t
      PROVE  Heard(reports', t) <=>
               \/ Heard(failed, t)
               \/ state = "ConnectionEstablished" /\ t = "disconnected"
  <2>1. CASE state = "ConnectionEstablished"
    <3>1. "disconnected" \in Signals
      OBVIOUS
    <3>2. Heard(Append(failed, "disconnected"), t)
            <=> Heard(failed, t) \/ t = "disconnected"
      <4> HIDE DEF failed, Signals
      <4> QED
        BY <1>2, <3>1, SignalAppended, SMT
    <3> QED
      BY <1>1, <2>1, <3>2, Zenon
  <2>2. CASE state # "ConnectionEstablished"
    BY <1>1, <2>2, Zenon
  <2> QED
    BY <2>1, <2>2
<1> HIDE DEF failed
<1>5. ErrorsInStep'
  <2>1. Heard(reports, "error") => err # "SshNoError"
    <3>1. CASE state = "SocketUnconnected"
      BY <3>1, Zenon DEF OutcomeInv, ErrorsInStep
    <3>2. CASE state # "SocketUnconnected"
      BY <1>1, <3>2, Zenon DEF OutcomeInv, ErrorsInStep
    <3> QED
      BY <3>1, <3>2
  <2>2. Heard(reports', "error") <=> err' # "SshNoError"
    BY <1>1, <1>3, <1>4, <2>1
  <2> QED
    BY <1>1, <2>2, Zenon DEF ErrorsInStep
<1>6. SessionInStep'
  <2>1. /\ Heard(reports', "connected") <=> Heard(reports, "connected")
        /\ Heard(reports', "disconnected") <=>
             \/ Heard(reports, "disconnected")
             \/ state = "ConnectionEstablished"
    <3>1. \A t : Heard(reports', t) <=>
            \/ Heard(reports, t)
            \/ err # "SshNoError" /\ t = "error"
            \/ state = "ConnectionEstablished" /\ t = "disconnected"
      BY <1>3, <1>4, Zenon
    <3>2. "connected" # "error" /\ "connected" # "disconnected"
          /\ "disconnected" # "error"
      OBVIOUS
    <3> QED
      BY <3>1, <3>2, Zenon
  <2> QED
    BY <1>1, <2>1 DEF OutcomeInv, SessionInStep
<1> QED
  BY <1>5, <1>6 DEF OutcomeInv

(* connectToHost() fails at once, and says so; or it starts afresh.        *)
LEMMA BeginOutcome ==
  ASSUME IInv, RefuseAttempt \/ ConnectToHost
  PROVE  OutcomeInv'
<1>1. CASE RefuseAttempt
  <2>1. /\ reports' = <<"error">> /\ err' # "SshNoError"
        /\ state' = "SocketUnconnected"
    BY <1>1 DEF RefuseAttempt
  <2>2. \A t : Heard(<<"error">>, t) <=> t = "error"
    BY DEF Heard
  <2>3. Heard(reports', "error") /\ ~Heard(reports', "connected")
        /\ ~Heard(reports', "disconnected")
    BY <2>1, <2>2
  <2> QED
    BY <2>1, <2>3 DEF OutcomeInv, ErrorsInStep, SessionInStep
<1>2. CASE ConnectToHost
  <2>1. /\ reports' = <<>> /\ err' = "SshNoError"
        /\ state' = "SocketConnecting"
    BY <1>2 DEF ConnectToHost
  <2>2. \A t : ~Heard(<<>>, t)
    BY DEF Heard
  <2>3. \A t : ~Heard(reports', t)
    BY <2>1, <2>2
  <2> QED
    BY <2>1, <2>3 DEF OutcomeInv, ErrorsInStep, SessionInStep
<1> QED
  BY <1>1, <1>2

(* Authentication succeeds: connected is reported, and nothing else.       *)
LEMMA EstablishOutcome ==
  ASSUME IInv, OutcomeInv, HandleUserAuthSuccess
  PROVE  OutcomeInv'
<1>1. /\ state = "UserAuthRequested" /\ state' = "ConnectionEstablished"
      /\ closing = 0 /\ UNCHANGED <<err, closing>>
      /\ reports' = Append(reports, "connected")
  BY DEF HandleUserAuthSuccess, Receives, HandledIn, AuthReqList, Continue,
         MayReceive
<1>2. ASSUME NEW t
      PROVE  Heard(reports', t) <=> Heard(reports, t) \/ t = "connected"
  <2>1. reports \in Seq({"connected", "disconnected", "error"})
    BY DEF IInv, TypeOK
  <2>2. "connected" \in {"connected", "disconnected", "error"}
    OBVIOUS
  <2> QED
    BY <1>1, <2>1, <2>2, SignalAppended, SMT
<1>3. "connected" # "error" /\ "connected" # "disconnected"
  OBVIOUS
<1>4. /\ Heard(reports', "connected")
      /\ ~Heard(reports', "disconnected")
      /\ Heard(reports', "error") <=> Heard(reports, "error")
  BY <1>1, <1>2, <1>3 DEF OutcomeInv, SessionInStep
<1> QED
  BY <1>1, <1>4 DEF OutcomeInv, ErrorsInStep, SessionInStep

(* Every slot attached to the agent reports its failure.                   *)
LEMMA AgentFailsOutcome ==
  ASSUME IInv, OutcomeInv, AgentFails
  PROVE  OutcomeInv'
<1>1. closing = 0 /\ UNCHANGED <<state, closing>>
  BY DEF AgentFails, Idle
<1>2. CASE agentSlots > 0
  <2>1. /\ err' = "SshAgentError"
        /\ reports' = reports \o [i \in 1..agentSlots |-> "error"]
    BY <1>2 DEF AgentFails
  <2>2. agentSlots \in Nat \ {0}
    BY <1>2, ConstantsAssumption, SMT DEF IInv, TypeOK
  <2>3. ASSUME NEW t
        PROVE  Heard(reports', t) <=> Heard(reports, t) \/ t = "error"
    <3> DEFINE Signals == {"connected", "disconnected", "error"}
               more == [i \in 1..agentSlots |-> "error"]
    <3>1. reports \in Seq(Signals)
      BY DEF IInv, TypeOK
    <3>2. "error" \in Signals
      OBVIOUS
    <3>3. /\ more \in Seq(Signals)
          /\ Len(more) > 0 /\ \A i \in 1..Len(more) : more[i] = "error"
      BY <2>2, <3>2, RepeatedSignal, SMT
    <3> HIDE DEF more, Signals
    <3>4. Heard(reports \o more, t) <=> Heard(reports, t) \/ t = "error"
      BY <3>1, <3>3, SignalsAppended, Zenon
    <3> QED
      BY <2>1, <3>4, Zenon DEF more
  <2>4. "error" # "connected" /\ "error" # "disconnected"
    OBVIOUS
  <2>5. /\ Heard(reports', "error")
        /\ Heard(reports', "connected") <=> Heard(reports, "connected")
        /\ Heard(reports', "disconnected") <=> Heard(reports, "disconnected")
    BY <2>3, <2>4
  <2> QED
    BY <1>1, <2>1, <2>5 DEF OutcomeInv, ErrorsInStep, SessionInStep
<1>3. CASE ~(agentSlots > 0)
  <2>1. UNCHANGED <<err, reports>>
    BY <1>3 DEF AgentFails
  <2> QED
    BY <1>1, <2>1, Zenon DEF OutcomeInv, ErrorsInStep, SessionInStep
<1> QED
  BY <1>2, <1>3

(* Of a step that neither reports nor fails, only whether it begins or     *)
(* ends something matters.                                                 *)
LEMMA OutcomeKept == ASSUME IInv, OutcomeInv, [Next]_vars  PROVE OutcomeInv'
<1> DEFINE Settled == {"SocketUnconnected", "ConnectionEstablished"}
<1>1. ASSUME UNCHANGED <<err, closing, reports>>,
             \/ state' = state
             \/ state \notin Settled /\ state' \notin Settled
      PROVE  OutcomeInv'
  BY <1>1, SMT DEF OutcomeInv, ErrorsInStep, SessionInStep
<1>2. ASSUME NEW e, CloseConnection(e), UNCHANGED <<state, reports>>,
             closing = 0 \/ closing = 1
      PROVE  OutcomeInv'
  <2>1. closing < 2
    BY <1>2, SMT
  <2> QED
    BY <1>2, <2>1, CloseKeepsOutcome
<1>3. CASE UserCall
  <2>1. CASE RefuseAttempt \/ ConnectToHost
    BY <2>1, BeginOutcome
  <2>2. CASE DisconnectFromHost
    BY <1>2, <2>2, SMT DEF DisconnectFromHost, Idle
  <2>3. CASE OpenChannel
    <3>1. UNCHANGED <<state, err, closing, reports>>
      BY <2>3 DEF OpenChannel
    <3> QED
      BY <1>1, <3>1
  <2> QED
    BY <1>3, <2>1, <2>2, <2>3 DEF UserCall
<1>4. CASE SocketOrTimer
  <2>1. \/ UNCHANGED <<err, closing, reports, state>>
        \/ /\ \E e \in Errors : CloseConnection(e)
           /\ UNCHANGED <<state, reports>> /\ closing = 0
        \/ SocketConnects
    BY <1>4
    DEF SocketOrTimer, HandleTimeout, ChannelTimeout, SendKeepAlivePacket,
        SendProbe, HandleSocketDisconnected, HandleSocketError, ServerDies,
        Idle, Errors
  <2>2. CASE SocketConnects
    <3>1. /\ UNCHANGED <<err, closing, reports>>
          /\ \/ state' = state
             \/ state = "SocketConnecting" /\ state' = "SocketConnected"
      BY <2>2 DEF SocketConnects, IInv, SafetyInv, SocketInStep
    <3> QED
      BY <1>1, <3>1
  <2> QED
    BY <1>1, <1>2, <2>1, <2>2, Zenon
<1>5. CASE Packet
  <2>1. \/ UNCHANGED <<err, closing, reports, state>>
        \/ /\ \E e \in Errors : CloseConnection(e)
           /\ UNCHANGED <<state, reports>> /\ closing = 0
        \/ HandleNewKeys \/ HandleServiceAccept \/ HandleUserAuthSuccess
    BY <1>5
    DEF Packet, HandleServerId, IgnoreGuessedPacket, UnexpectedPacket,
        HandleKeyExchangeInit, HandleKeyExchangeReply, HandlePasswordExpired,
        HandleInfoRequest, HandleUserAuthFailure, HandleUserAuthKeyOk,
        HandleChannelPacket, HandleDisconnect, HandleUnimplemented, EndLoop,
        RejectedByServer, Receives, MayReceive, Throw, Continue, Errors
  <2>2. CASE HandleNewKeys
    <3>1. /\ UNCHANGED <<err, closing, reports>>
          /\ \/ state' = state
             \/ state = "SocketConnected" /\ state' = "UserAuthServiceRequested"
      BY <2>2 DEF HandleNewKeys, Continue
    <3> QED
      BY <1>1, <3>1
  <2>3. CASE HandleServiceAccept
    <3>1. state = "UserAuthServiceRequested" /\ reports' = reports /\ closing = 0
      BY <2>3 DEF HandleServiceAccept, Receives, HandledIn, MayReceive
    <3>2. \/ /\ UNCHANGED <<err, closing>>
             /\ state' \in {"WaitingForAgentKeys", "UserAuthRequested"}
          \/ CloseConnection("SshAuthenticationError") /\ UNCHANGED state
      BY <2>3 DEF HandleServiceAccept, Continue, Throw
    <3> QED
      BY <1>1, <1>2, <3>1, <3>2, SMT
  <2>4. CASE HandleUserAuthSuccess
    BY <2>4, EstablishOutcome
  <2> QED
    BY <1>1, <1>2, <2>1, <2>2, <2>3, <2>4, Zenon
<1>6. CASE Closing
  <2>1. CASE FinishClose
    BY <2>1, FinishCloseOutcome
  <2>2. CASE DisconnectWhileClosing \/ DisconnectInSlot
    BY <1>2, <2>2, SMT DEF DisconnectWhileClosing, DisconnectInSlot
  <2> QED
    BY <1>6, <2>1, <2>2 DEF Closing
<1>7. CASE Agent
  <2>1. CASE AgentFails
    BY <2>1, AgentFailsOutcome
  <2>2. CASE AgentKeysUpdated \/ AgentSigns
    <3>1. /\ UNCHANGED <<err, closing, reports>>
          /\ \/ state' = state
             \/ state = "WaitingForAgentKeys" /\ state' = "UserAuthRequested"
      BY <2>2 DEF AgentKeysUpdated, AgentSigns
    <3> QED
      BY <1>1, <3>1
  <2> QED
    BY <1>7, <2>1, <2>2 DEF Agent
<1>8. CASE Terminated \/ UNCHANGED vars
  <2>1. UNCHANGED <<state, err, closing, reports>>
    BY <1>8 DEF Terminated, vars
  <2> QED
    BY <1>1, <2>1
<1> QED
  BY <1>3, <1>4, <1>5, <1>6, <1>7, <1>8 DEF Next

(* When an attempt or session is over, the user has heard of an error if   *)
(* and only if m_error says there was one, and of the end of every session *)
(* that began: whatever closed the connection, and whatever the slots did  *)
(* that ran meanwhile.                                                     *)
THEOREM OutcomeIsReported == Spec => []OutcomeReported
<1>1. Init => OutcomeInv
  <2> SUFFICES ASSUME Init  PROVE OutcomeInv
    OBVIOUS
  <2>1. /\ reports = <<>> /\ err = "SshNoError" /\ closing = 0
        /\ state = "SocketUnconnected"
    BY DEF Init
  <2>2. \A t : ~Heard(<<>>, t)
    BY DEF Heard
  <2>3. \A t : ~Heard(reports, t)
    BY <2>1, <2>2
  <2> QED
    BY <2>1, <2>3 DEF OutcomeInv, ErrorsInStep, SessionInStep
<1>2. OutcomeInv => OutcomeReported
  <2>1. \A t : Reported(t) # {} <=> Heard(reports, t)
    BY Zenon DEF Reported, Heard
  <2> QED
    BY <2>1, Zenon
    DEF OutcomeInv, ErrorsInStep, SessionInStep, OutcomeReported
<1> QED
  BY <1>1, <1>2, OutcomeKept, Inductive, PTL DEF Spec

=============================================================================
