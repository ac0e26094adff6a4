-------------------------- MODULE SshChannel_proofs -------------------------
(***************************************************************************)
(* The invariants of SshChannel for every packet size, every width of the  *)
(* window counters and every bound. They rest on how the state of the      *)
(* channel, the state of the process in it, the entry in the manager's map *)
(* and what the server has seen go together (InStep), on which signals     *)
(* have been sent in which state (SignalsInStep) and on the two ends of    *)
(* each window (WindowsInStep).                                            *)
(***************************************************************************)
EXTENDS SshChannel, SequenceTheorems, TLAPS

(* What a conforming server has seen of a channel that is still in the map *)
NothingSeen ==
  awaited = {} /\ serverEnd = "none" /\ closesSent = 0

OpenSeen ==
  awaited = {"open"} /\ serverEnd = "none" /\ closesSent = 0 /\ ~remote

OpenAnswered ==
  "open" \notin awaited /\ serverEnd \in {"open", "eof"} /\ remote

Seen ==
  /\ chState = "Inactive" => NothingSeen /\ ~remote
  /\ chState = "SessionRequested" => OpenSeen
  /\ chState = "SessionEstablished" => OpenAnswered /\ closesSent = 0
  /\ chState = "CloseRequested" => \/ OpenSeen
                                   \/ OpenAnswered /\ closesSent = 1
  /\ chState = "Closed" => NothingSeen

InStep ==
  /\ conforming /\ inMap => Seen
  /\ conforming /\ inMap /\ "exec" \in awaited => proc = "ExecRequested"
  /\ conforming /\ ~inMap =>
       /\ chState \in {"SessionRequested", "CloseRequested", "Closed"}
       /\ chState = "SessionRequested" => ~remote
       /\ connected => awaited = {} /\ serverEnd \in {"none", "closed"}
  /\ connected => inMap \/ chState # "Inactive"

SignalsInStep ==
  /\ chState \in {"Inactive", "SessionRequested"} =>
       /\ inMap => signals = <<>>
       /\ ~wasRunning /\ proc # "ExecRequested"
  /\ proc = "ExecRequested" => signals = <<>> /\ ~wasRunning
  /\ inMap /\ wasRunning => signals = <<"started">>
  /\ IF wasRunning THEN signals \in {<<"started">>, <<"started", "closed">>}
                   ELSE signals \in {<<>>, <<"closed">>}
  /\ proc = "Running" => wasRunning
  /\ ~wasRunning => buffer = 0

WindowsInStep ==
  /\ localWindow < 2 * MaxPacket
  /\ conforming /\ serverEnd \in {"none", "open"} => localWindow = credit

IInv == /\ TypeOK
        /\ InStep /\ SignalsInStep /\ WindowsInStep
        /\ ReceiveWindow /\ NeverOverSends /\ NothingHeldBack
        /\ CloseAnswered /\ NoFalseAlarm

-----------------------------------------------------------------------------
(* TypeOK in two parts: the flags, and everything that has more values.    *)

Flags ==
  /\ remote \in BOOLEAN /\ timer \in BOOLEAN /\ wasRunning \in BOOLEAN
  /\ inMap \in BOOLEAN /\ connected \in BOOLEAN
  /\ conforming \in BOOLEAN /\ clipped \in BOOLEAN

Amounts ==
  /\ chState \in ChannelStates /\ proc \in ProcStates
  /\ localWindow \in 0..(Modulus - 1) /\ remoteWindow \in 0..(Modulus - 1)
  /\ buffer \in 0..MaxBuffer
  /\ awaited \subseteq {"open", "exec"}
  /\ serverEnd \in {"none", "open", "eof", "closed"}
  /\ credit \in Nat /\ allowance \in 0..MaxAllowance
  /\ closesSent \in 0..2
  /\ accused \in {"none", "signal", "packet"}

(* Every step assigns Booleans to the flags.                              *)
LEMMA FlagsKept == IInv /\ [Next]_vars => Flags'
<1> SUFFICES ASSUME IInv, [Next]_vars PROVE Flags'
  OBVIOUS
<1> USE ChannelAssumption DEF IInv, TypeOK, Flags,
             flow, procVars, trust
<1>1. CASE Start
  BY <1>1, Zenon DEF Start
<1>2. CASE Close
  BY <1>2, Zenon DEF Close, TimerAfterClose
<1>3. CASE \E n \in 1..MaxBuffer : Write(n)
  BY <1>3, Zenon DEF Write
<1>4. CASE ConnectionEnds
  BY <1>4, Zenon DEF ConnectionEnds, LoseConnection
<1>5. CASE Timeout
  BY <1>5, Zenon DEF Timeout, LoseConnection
<1>6. CASE \E w \in 0..(Modulus - 1) : HandleOpenSuccess(w)
  BY <1>6, Zenon DEF HandleOpenSuccess
<1>7. CASE HandleOpenFailure
  BY <1>7, Zenon DEF HandleOpenFailure
<1>8. CASE HandleChannelSuccess
  BY <1>8, Zenon DEF HandleChannelSuccess
<1>9. CASE HandleChannelFailure
  BY <1>9, Zenon DEF HandleChannelFailure
<1>10. CASE \E n \in 0..(Modulus - 1) : HandleWindowAdjust(n)
  BY <1>10, Zenon DEF HandleWindowAdjust
<1>11. CASE \E n \in 0..(MaxPacket + 1) : HandleChannelData(n)
  BY <1>11, Zenon DEF HandleChannelData
<1>12. CASE HandleExit
  BY <1>12, Zenon DEF HandleExit
<1>13. CASE HandleChannelEof
  BY <1>13, Zenon DEF HandleChannelEof
<1>14. CASE HandleChannelClose
  BY <1>14, Zenon DEF HandleChannelClose, TimerAfterClose
<1>15. CASE HandleUnexpected
  BY <1>15, Zenon DEF HandleUnexpected, LoseConnection, Accuse
<1>16. CASE HandleUnexpectedOpenFailure
  BY <1>16, Zenon DEF HandleUnexpectedOpenFailure
<1>17. CASE UNCHANGED vars
  BY <1>17, Zenon DEF vars
<1>18. CASE HandleInvalidSignal
  BY <1>18, Zenon DEF HandleInvalidSignal, LoseConnection, Accuse,
     ActivePacket, MaySend, Packet
<1> QED
  BY <1>1, <1>2, <1>3, <1>4, <1>5, <1>6, <1>7, <1>8, <1>9, <1>10, <1>11,
     <1>12, <1>13, <1>14, <1>15, <1>16, <1>17, <1>18
     DEF Next, UserCall,
     ServerPacket

(* Every step keeps states, windows and counters in their ranges.         *)
LEMMA AmountsKept == IInv /\ [Next]_vars => Amounts'
<1> SUFFICES ASSUME IInv, [Next]_vars PROVE Amounts'
  OBVIOUS
<1> USE ChannelAssumption DEF IInv, TypeOK, WindowsInStep, NeverOverSends, Amounts,
             flow, procVars, trust, ChannelStates, ProcStates
<1>1. CASE Start
  BY <1>1, SMT DEF Start
<1>2. CASE Close
  BY <1>2, SMT DEF Close, CloseChannel, ClosesAfter, AtMost
<1>3. CASE \E n \in 1..MaxBuffer : Write(n)
  BY <1>3, SMT DEF Write, Flush, AtMost
<1>4. CASE ConnectionEnds
  BY <1>4, SMT DEF ConnectionEnds, LoseConnection, CloseChannel,
     ClosesAfter, AtMost
<1>5. CASE Timeout
  BY <1>5, SMT DEF Timeout, LoseConnection, CloseChannel, ClosesAfter,
     AtMost
<1>6. CASE \E w \in 0..(Modulus - 1) : HandleOpenSuccess(w)
  <2>1. PICK w \in 0..(Modulus - 1) : HandleOpenSuccess(w)
    BY <1>6
  <2>2. /\ remoteWindow' = w /\ allowance' = w /\ serverEnd' = "open"
        /\ UNCHANGED <<localWindow, buffer, credit, accused>>
    BY <2>1, Zenon DEF HandleOpenSuccess
  <2>3. /\ chState' \in ChannelStates /\ proc' \in ProcStates
        /\ awaited' \subseteq {"open", "exec"}
        /\ closesSent' \in 0..2
    <3>1. CASE chState = "CloseRequested"
      <4>1. /\ CloseChannel("SessionEstablished", TRUE)
            /\ awaited' = awaited \ {"open"} /\ proc' = proc
        BY <2>1, <3>1, Zenon DEF HandleOpenSuccess
      <4>2. chState' = "CloseRequested" /\ closesSent' = AtMost(closesSent + 1, 2)
        BY <4>1, Zenon DEF CloseChannel, ClosesAfter
      <4> QED
        BY <4>1, <4>2, SMT DEF AtMost
    <3>2. CASE chState # "CloseRequested"
      <4>1. /\ chState' = "SessionEstablished" /\ proc' = "ExecRequested"
            /\ awaited' = (awaited \ {"open"}) \union {"exec"}
            /\ closesSent' = closesSent
        BY <2>1, <3>2, Zenon DEF HandleOpenSuccess
      <4> QED
        BY <4>1, SMT
    <3> QED
      BY <3>1, <3>2
  <2> QED
    BY <2>2, <2>3, SMT
<1>7. CASE HandleOpenFailure
  BY <1>7, SMT DEF HandleOpenFailure, Packet
<1>8. CASE HandleChannelSuccess
  BY <1>8, SMT DEF HandleChannelSuccess, Packet
<1>9. CASE HandleChannelFailure
  BY <1>9, SMT DEF HandleChannelFailure, Packet, CloseChannel,
     ClosesAfter, AtMost
<1>10. CASE \E n \in 0..(Modulus - 1) : HandleWindowAdjust(n)
  BY <1>10, SMT DEF HandleWindowAdjust, ActivePacket, MaySend, Packet,
     Flush, AtMost, WindowSum
<1>11. CASE \E n \in 0..(MaxPacket + 1) : HandleChannelData(n)
  BY <1>11, SMT DEF HandleChannelData, ActivePacket, MaySend, Packet,
     Replenish, AtMost
<1>12. CASE HandleExit
  BY <1>12, SMT DEF HandleExit, ActivePacket, MaySend, Packet
<1>13. CASE HandleChannelEof
  BY <1>13, SMT DEF HandleChannelEof, ActivePacket, MaySend, Packet
<1>14. CASE HandleChannelClose
  BY <1>14, SMT DEF HandleChannelClose, ActivePacket, MaySend, Packet,
     ClosesAfter, AtMost
<1>15. CASE HandleUnexpected
  BY <1>15, SMT DEF HandleUnexpected, LoseConnection, CloseChannel,
     ClosesAfter, AtMost, Accuse
<1>16. CASE HandleUnexpectedOpenFailure
  BY <1>16, SMT DEF HandleUnexpectedOpenFailure, Packet
<1>17. CASE UNCHANGED vars
  BY <1>17, SMT DEF vars
<1>18. CASE HandleInvalidSignal
  BY <1>18, SMT DEF HandleInvalidSignal, LoseConnection, CloseChannel,
     ClosesAfter, AtMost, Accuse,
     ActivePacket, MaySend, Packet
<1> QED
  BY <1>1, <1>2, <1>3, <1>4, <1>5, <1>6, <1>7, <1>8, <1>9, <1>10, <1>11,
     <1>12, <1>13, <1>14, <1>15, <1>16, <1>17, <1>18
     DEF Next, UserCall,
     ServerPacket

(* State, map entry and the view of a conforming server move together.    *)
LEMMA InStepKept == IInv /\ [Next]_vars => InStep'
<1> SUFFICES ASSUME IInv, [Next]_vars PROVE InStep'
  OBVIOUS
<1> USE ChannelAssumption DEF IInv, TypeOK, InStep, Seen, NothingSeen, OpenSeen, OpenAnswered,
             flow, procVars, trust, ChannelStates, ProcStates
<1>1. CASE Start
  BY <1>1, SMT DEF Start
<1>2. CASE Close
  BY <1>2, SMT DEF Close, CloseChannel, ClosesAfter, AtMost
<1>3. CASE \E n \in 1..MaxBuffer : Write(n)
  BY <1>3, SMT DEF Write, AtMost
<1>4. CASE ConnectionEnds
  BY <1>4, SMT DEF ConnectionEnds, LoseConnection, CloseChannel,
     ClosesAfter, AtMost
<1>5. CASE Timeout
  BY <1>5, SMT DEF Timeout, LoseConnection, CloseChannel, ClosesAfter,
     AtMost
<1>6. CASE \E w \in 0..(Modulus - 1) : HandleOpenSuccess(w)
  BY <1>6, SMT DEF HandleOpenSuccess, MayAnswer, Packet, CloseChannel,
     ClosesAfter, AtMost
<1>7. CASE HandleOpenFailure
  BY <1>7, SMT DEF HandleOpenFailure, MayAnswer, Packet
<1>8. CASE HandleChannelSuccess
  BY <1>8, SMT DEF HandleChannelSuccess, MayAnswer, Packet
<1>9. CASE HandleChannelFailure
  BY <1>9, SMT DEF HandleChannelFailure, MayAnswer, Packet,
     CloseChannel, ClosesAfter, AtMost
<1>10. CASE \E n \in 0..(Modulus - 1) : HandleWindowAdjust(n)
  BY <1>10, SMT DEF HandleWindowAdjust, ActivePacket, MaySend, Packet,
     Active, AtMost
<1>11. CASE \E n \in 0..(MaxPacket + 1) : HandleChannelData(n)
  BY <1>11, SMT DEF HandleChannelData, ActivePacket, MaySend, Packet,
     Active, AtMost
<1>12. CASE HandleExit
  BY <1>12, SMT DEF HandleExit, ActivePacket, MaySend, Packet, Active
<1>13. CASE HandleChannelEof
  BY <1>13, SMT DEF HandleChannelEof, ActivePacket, MaySend, Packet,
     Active
<1>14. CASE HandleChannelClose
  BY <1>14, SMT DEF HandleChannelClose, ActivePacket, MaySend, Packet,
     Active, ClosesAfter, AtMost
<1>15. CASE HandleUnexpected
  BY <1>15, SMT DEF HandleUnexpected, LoseConnection, CloseChannel,
     ClosesAfter, AtMost, Accuse
<1>16. CASE HandleUnexpectedOpenFailure
  BY <1>16, SMT DEF HandleUnexpectedOpenFailure, Packet
<1>17. CASE UNCHANGED vars
  BY <1>17, SMT DEF vars
<1>18. CASE HandleInvalidSignal
  BY <1>18, SMT DEF HandleInvalidSignal, LoseConnection, CloseChannel,
     ClosesAfter, AtMost, Accuse,
     ActivePacket, MaySend, Packet
<1> QED
  BY <1>1, <1>2, <1>3, <1>4, <1>5, <1>6, <1>7, <1>8, <1>9, <1>10, <1>11,
     <1>12, <1>13, <1>14, <1>15, <1>16, <1>17, <1>18
     DEF Next, UserCall,
     ServerPacket

(* The signals of a process that was started.                              *)
LEMMA StartedClosed == Append(<<"started">>, "closed") = <<"started", "closed">>
<1> DEFINE S == {"started", "closed"}
           s == Append(<<"started">>, "closed")
           t == <<"started", "closed">>
<1>1. <<"started">> \in Seq(S) /\ t \in Seq(S) BY SMT
<1>2. s \in Seq(S) BY <1>1, SMT
<1>3. Len(s) = 2 /\ Len(t) = 2 BY <1>1, SMT
<1>5. s[1] = t[1] /\ s[2] = t[2] BY <1>1, SMT
<1>6. \A i \in 1..2 : s[i] = t[i] 
  <2> HIDE DEF s, t
  <2> QED BY <1>5, SMT
<1> HIDE DEF s, t, S
<1> QED BY <1>1, <1>2, <1>3, <1>6, SeqEqual, Zenon DEF s, t

(* Which signals were sent follows from the states passed.               *)
LEMMA SignalsInStepKept == IInv /\ [Next]_vars => SignalsInStep'
<1> SUFFICES ASSUME IInv, [Next]_vars PROVE SignalsInStep'
  OBVIOUS
<1> USE ChannelAssumption DEF IInv, TypeOK, InStep, SignalsInStep,
             flow, procVars, trust
<1>1. CASE Start
  BY <1>1, SMT DEF Start
<1>2. CASE Close
  BY <1>2, SMT DEF Close, CloseChannel, AtMost
<1>3. CASE \E n \in 1..MaxBuffer : Write(n)
  BY <1>3, SMT DEF Write, Flush, AtMost
<1>4. CASE ConnectionEnds
  BY <1>4, SMT DEF ConnectionEnds, LoseConnection, CloseChannel, AtMost
<1>5. CASE Timeout
  BY <1>5, SMT DEF Timeout, LoseConnection, CloseChannel, AtMost
<1>6. CASE \E w \in 0..(Modulus - 1) : HandleOpenSuccess(w)
  <2>1. PICK w \in 0..(Modulus - 1) : HandleOpenSuccess(w)
    BY <1>6
  <2>2. /\ inMap /\ chState \in {"SessionRequested", "CloseRequested"}
        /\ UNCHANGED <<wasRunning, signals, inMap, buffer>>
    BY <2>1, Zenon DEF HandleOpenSuccess, MayAnswer, Packet
  <2>3. CASE chState = "CloseRequested"
    <3>1. CloseChannel("SessionEstablished", TRUE) /\ proc' = proc
      BY <2>1, <2>3, Zenon DEF HandleOpenSuccess
    <3>2. chState' = "CloseRequested"
      BY <3>1, Zenon DEF CloseChannel
    <3> QED
      BY <2>2, <2>3, <3>1, <3>2, Zenon
  <2>4. CASE chState # "CloseRequested"
    <3>1. chState' = "SessionEstablished" /\ proc' = "ExecRequested"
      BY <2>1, <2>4, Zenon DEF HandleOpenSuccess
    <3> QED
      BY <2>2, <2>4, <3>1, SMT
  <2> QED
    BY <2>3, <2>4
<1>7. CASE HandleOpenFailure
  BY <1>7, StartedClosed, SMT DEF HandleOpenFailure, MayAnswer, Packet
<1>8. CASE HandleChannelSuccess
  BY <1>8, StartedClosed, SMT DEF HandleChannelSuccess, MayAnswer,
     Packet
<1>9. CASE HandleChannelFailure
  BY <1>9, StartedClosed, SMT DEF HandleChannelFailure, MayAnswer,
     Packet, CloseChannel, AtMost
<1>10. CASE \E n \in 0..(Modulus - 1) : HandleWindowAdjust(n)
  BY <1>10, SMT DEF HandleWindowAdjust, ActivePacket, MaySend, Packet,
     Active, Flush, AtMost, WindowSum
<1>11. CASE \E n \in 0..(MaxPacket + 1) : HandleChannelData(n)
  BY <1>11, SMT DEF HandleChannelData, ActivePacket, MaySend, Packet,
     Active, AtMost
<1>12. CASE HandleExit
  BY <1>12, SMT DEF HandleExit, ActivePacket, MaySend, Packet, Active
<1>13. CASE HandleChannelEof
  BY <1>13, SMT DEF HandleChannelEof, ActivePacket, MaySend, Packet,
     Active
<1>14. CASE HandleChannelClose
  BY <1>14, StartedClosed, SMT DEF HandleChannelClose, ActivePacket,
     MaySend, Packet, Active, AtMost
<1>15. CASE HandleUnexpected
  BY <1>15, SMT DEF HandleUnexpected, LoseConnection, CloseChannel,
     AtMost, Accuse
<1>16. CASE HandleUnexpectedOpenFailure
  BY <1>16, SMT DEF HandleUnexpectedOpenFailure, Packet
<1>17. CASE UNCHANGED vars
  BY <1>17, SMT DEF vars
<1>18. CASE HandleInvalidSignal
  BY <1>18, SMT DEF HandleInvalidSignal, LoseConnection, CloseChannel,
     AtMost, Accuse,
     ActivePacket, MaySend, Packet
<1> QED
  BY <1>1, <1>2, <1>3, <1>4, <1>5, <1>6, <1>7, <1>8, <1>9, <1>10, <1>11,
     <1>12, <1>13, <1>14, <1>15, <1>16, <1>17, <1>18
     DEF Next, UserCall,
     ServerPacket

(* The two ends of the receive window agree until the EOF.               *)
LEMMA WindowsInStepKept == IInv /\ [Next]_vars => WindowsInStep'
<1> SUFFICES ASSUME IInv, [Next]_vars PROVE WindowsInStep'
  OBVIOUS
<1> USE ChannelAssumption DEF IInv, TypeOK, InStep, Seen, OpenSeen, OpenAnswered,
  WindowsInStep, ReceiveWindow,
             flow, procVars, trust
<1>1. CASE Start
  BY <1>1, SMT DEF Start
<1>2. CASE Close
  BY <1>2, SMT DEF Close, AtMost
<1>3. CASE \E n \in 1..MaxBuffer : Write(n)
  BY <1>3, SMT DEF Write, AtMost
<1>4. CASE ConnectionEnds
  BY <1>4, SMT DEF ConnectionEnds, AtMost
<1>5. CASE Timeout
  BY <1>5, SMT DEF Timeout, AtMost
<1>6. CASE \E w \in 0..(Modulus - 1) : HandleOpenSuccess(w)
  BY <1>6, SMT DEF HandleOpenSuccess, MayAnswer, Packet, AtMost
<1>7. CASE HandleOpenFailure
  BY <1>7, SMT DEF HandleOpenFailure, MayAnswer, Packet
<1>8. CASE HandleChannelSuccess
  BY <1>8, SMT DEF HandleChannelSuccess, MayAnswer, Packet
<1>9. CASE HandleChannelFailure
  BY <1>9, SMT DEF HandleChannelFailure, MayAnswer, Packet, AtMost
<1>10. CASE \E n \in 0..(Modulus - 1) : HandleWindowAdjust(n)
  BY <1>10, SMT DEF HandleWindowAdjust, ActivePacket, MaySend, Packet,
     Active, AtMost
<1>11. CASE \E n \in 0..(MaxPacket + 1) : HandleChannelData(n)
  BY <1>11, SMT DEF HandleChannelData, ActivePacket, MaySend, Packet,
     Active, Replenish, AtMost
<1>12. CASE HandleExit
  BY <1>12, SMT DEF HandleExit, ActivePacket, MaySend, Packet, Active
<1>13. CASE HandleChannelEof
  BY <1>13, SMT DEF HandleChannelEof, ActivePacket, MaySend, Packet,
     Active
<1>14. CASE HandleChannelClose
  BY <1>14, SMT DEF HandleChannelClose, ActivePacket, MaySend, Packet,
     Active, AtMost
<1>15. CASE HandleUnexpected
  BY <1>15, SMT DEF HandleUnexpected, AtMost, Accuse
<1>16. CASE HandleUnexpectedOpenFailure
  BY <1>16, SMT DEF HandleUnexpectedOpenFailure, Packet
<1>17. CASE UNCHANGED vars
  BY <1>17, SMT DEF vars
<1>18. CASE HandleInvalidSignal
  BY <1>18, SMT DEF HandleInvalidSignal, AtMost, Accuse,
     ActivePacket, MaySend, Packet
<1> QED
  BY <1>1, <1>2, <1>3, <1>4, <1>5, <1>6, <1>7, <1>8, <1>9, <1>10, <1>11,
     <1>12, <1>13, <1>14, <1>15, <1>16, <1>17, <1>18
     DEF Next, UserCall,
     ServerPacket

(* The window a conforming server has is refilled before it is short.    *)
LEMMA ReceiveWindowKept == IInv /\ [Next]_vars => ReceiveWindow'
<1> SUFFICES ASSUME IInv, [Next]_vars PROVE ReceiveWindow'
  OBVIOUS
<1> USE ChannelAssumption DEF IInv, TypeOK, WindowsInStep, ReceiveWindow,
             flow, procVars, trust
<1>1. CASE Start
  BY <1>1, SMT DEF Start
<1>2. CASE Close
  BY <1>2, SMT DEF Close, AtMost
<1>3. CASE \E n \in 1..MaxBuffer : Write(n)
  BY <1>3, SMT DEF Write, AtMost
<1>4. CASE ConnectionEnds
  BY <1>4, SMT DEF ConnectionEnds, AtMost
<1>5. CASE Timeout
  BY <1>5, SMT DEF Timeout, AtMost
<1>6. CASE \E w \in 0..(Modulus - 1) : HandleOpenSuccess(w)
  BY <1>6, SMT DEF HandleOpenSuccess, Packet, AtMost
<1>7. CASE HandleOpenFailure
  BY <1>7, SMT DEF HandleOpenFailure, Packet
<1>8. CASE HandleChannelSuccess
  BY <1>8, SMT DEF HandleChannelSuccess, Packet
<1>9. CASE HandleChannelFailure
  BY <1>9, SMT DEF HandleChannelFailure, Packet, AtMost
<1>10. CASE \E n \in 0..(Modulus - 1) : HandleWindowAdjust(n)
  BY <1>10, SMT DEF HandleWindowAdjust, ActivePacket, MaySend, Packet,
     AtMost
<1>11. CASE \E n \in 0..(MaxPacket + 1) : HandleChannelData(n)
  BY <1>11, SMT DEF HandleChannelData, ActivePacket, MaySend, Packet,
     Replenish, AtMost
<1>12. CASE HandleExit
  BY <1>12, SMT DEF HandleExit, ActivePacket, MaySend, Packet
<1>13. CASE HandleChannelEof
  BY <1>13, SMT DEF HandleChannelEof, ActivePacket, MaySend, Packet
<1>14. CASE HandleChannelClose
  BY <1>14, SMT DEF HandleChannelClose, ActivePacket, MaySend, Packet,
     AtMost
<1>15. CASE HandleUnexpected
  BY <1>15, SMT DEF HandleUnexpected, AtMost, Accuse
<1>16. CASE HandleUnexpectedOpenFailure
  BY <1>16, SMT DEF HandleUnexpectedOpenFailure, Packet
<1>17. CASE UNCHANGED vars
  BY <1>17, SMT DEF vars
<1>18. CASE HandleInvalidSignal
  BY <1>18, SMT DEF HandleInvalidSignal, AtMost, Accuse,
     ActivePacket, MaySend, Packet
<1> QED
  BY <1>1, <1>2, <1>3, <1>4, <1>5, <1>6, <1>7, <1>8, <1>9, <1>10, <1>11,
     <1>12, <1>13, <1>14, <1>15, <1>16, <1>17, <1>18
     DEF Next, UserCall,
     ServerPacket

(* Only a confirmation and an adjustment raise the window.               *)
LEMMA NeverOverSendsKept == IInv /\ [Next]_vars => NeverOverSends'
<1> SUFFICES ASSUME IInv, [Next]_vars PROVE NeverOverSends'
  OBVIOUS
<1> USE ChannelAssumption DEF IInv, TypeOK, NeverOverSends,
             flow, procVars, trust
<1>1. CASE Start
  BY <1>1, SMT DEF Start
<1>2. CASE Close
  BY <1>2, SMT DEF Close, AtMost
<1>3. CASE \E n \in 1..MaxBuffer : Write(n)
  BY <1>3, SMT DEF Write, Flush, AtMost
<1>4. CASE ConnectionEnds
  BY <1>4, SMT DEF ConnectionEnds, AtMost
<1>5. CASE Timeout
  BY <1>5, SMT DEF Timeout, AtMost
<1>6. CASE \E w \in 0..(Modulus - 1) : HandleOpenSuccess(w)
  BY <1>6, SMT DEF HandleOpenSuccess, AtMost
<1>7. CASE HandleOpenFailure
  BY <1>7, SMT DEF HandleOpenFailure
<1>8. CASE HandleChannelSuccess
  BY <1>8, SMT DEF HandleChannelSuccess
<1>9. CASE HandleChannelFailure
  BY <1>9, SMT DEF HandleChannelFailure, AtMost
<1>10. CASE \E n \in 0..(Modulus - 1) : HandleWindowAdjust(n)
  BY <1>10, SMT DEF HandleWindowAdjust, Flush, AtMost, WindowSum
<1>11. CASE \E n \in 0..(MaxPacket + 1) : HandleChannelData(n)
  BY <1>11, SMT DEF HandleChannelData, AtMost
<1>12. CASE HandleExit
  BY <1>12, SMT DEF HandleExit
<1>13. CASE HandleChannelEof
  BY <1>13, SMT DEF HandleChannelEof
<1>14. CASE HandleChannelClose
  BY <1>14, SMT DEF HandleChannelClose, AtMost
<1>15. CASE HandleUnexpected
  BY <1>15, SMT DEF HandleUnexpected, AtMost, Accuse
<1>16. CASE HandleUnexpectedOpenFailure
  BY <1>16, SMT DEF HandleUnexpectedOpenFailure
<1>17. CASE UNCHANGED vars
  BY <1>17, SMT DEF vars
<1>18. CASE HandleInvalidSignal
  BY <1>18, SMT DEF HandleInvalidSignal, AtMost, Accuse,
     ActivePacket, MaySend, Packet
<1> QED
  BY <1>1, <1>2, <1>3, <1>4, <1>5, <1>6, <1>7, <1>8, <1>9, <1>10, <1>11,
     <1>12, <1>13, <1>14, <1>15, <1>16, <1>17, <1>18
     DEF Next, UserCall,
     ServerPacket

(* Whoever adds to buffer or window flushes.                             *)
LEMMA NothingHeldBackKept == IInv /\ [Next]_vars => NothingHeldBack'
<1> SUFFICES ASSUME IInv, [Next]_vars PROVE NothingHeldBack'
  OBVIOUS
<1> USE ChannelAssumption DEF IInv, TypeOK, InStep, SignalsInStep, NothingHeldBack,
             flow, procVars, trust
<1>1. CASE Start
  BY <1>1, SMT DEF Start
<1>2. CASE Close
  BY <1>2, SMT DEF Close, CloseChannel, AtMost
<1>3. CASE \E n \in 1..MaxBuffer : Write(n)
  BY <1>3, SMT DEF Write, Flush, AtMost
<1>4. CASE ConnectionEnds
  BY <1>4, SMT DEF ConnectionEnds, LoseConnection, CloseChannel, AtMost
<1>5. CASE Timeout
  BY <1>5, SMT DEF Timeout, LoseConnection, CloseChannel, AtMost
<1>6. CASE \E w \in 0..(Modulus - 1) : HandleOpenSuccess(w)
  BY <1>6, SMT DEF HandleOpenSuccess, CloseChannel, AtMost
<1>7. CASE HandleOpenFailure
  BY <1>7, SMT DEF HandleOpenFailure
<1>8. CASE HandleChannelSuccess
  BY <1>8, SMT DEF HandleChannelSuccess
<1>9. CASE HandleChannelFailure
  BY <1>9, SMT DEF HandleChannelFailure, CloseChannel, AtMost
<1>10. CASE \E n \in 0..(Modulus - 1) : HandleWindowAdjust(n)
  BY <1>10, SMT DEF HandleWindowAdjust, Flush, AtMost, WindowSum
<1>11. CASE \E n \in 0..(MaxPacket + 1) : HandleChannelData(n)
  BY <1>11, SMT DEF HandleChannelData, AtMost
<1>12. CASE HandleExit
  BY <1>12, SMT DEF HandleExit
<1>13. CASE HandleChannelEof
  BY <1>13, SMT DEF HandleChannelEof
<1>14. CASE HandleChannelClose
  BY <1>14, SMT DEF HandleChannelClose, AtMost
<1>15. CASE HandleUnexpected
  BY <1>15, SMT DEF HandleUnexpected, LoseConnection, CloseChannel,
     AtMost, Accuse
<1>16. CASE HandleUnexpectedOpenFailure
  BY <1>16, SMT DEF HandleUnexpectedOpenFailure
<1>17. CASE UNCHANGED vars
  BY <1>17, SMT DEF vars
<1>18. CASE HandleInvalidSignal
  BY <1>18, SMT DEF HandleInvalidSignal, LoseConnection, CloseChannel,
     AtMost, Accuse,
     ActivePacket, MaySend, Packet
<1> QED
  BY <1>1, <1>2, <1>3, <1>4, <1>5, <1>6, <1>7, <1>8, <1>9, <1>10, <1>11,
     <1>12, <1>13, <1>14, <1>15, <1>16, <1>17, <1>18
     DEF Next, UserCall,
     ServerPacket

(* CLOSE is sent on leaving the states before CloseRequested, once.      *)
LEMMA CloseAnsweredKept == IInv /\ [Next]_vars => CloseAnswered'
<1> SUFFICES ASSUME IInv, [Next]_vars PROVE CloseAnswered'
  OBVIOUS
<1> USE ChannelAssumption DEF IInv, TypeOK, InStep, Seen, NothingSeen, OpenSeen,
  OpenAnswered, CloseAnswered,
             flow, procVars, trust, ChannelStates, ProcStates
<1>1. CASE Start
  BY <1>1, SMT DEF Start
<1>2. CASE Close
  BY <1>2, SMT DEF Close, CloseChannel, ClosesAfter, AtMost
<1>3. CASE \E n \in 1..MaxBuffer : Write(n)
  BY <1>3, SMT DEF Write, AtMost
<1>4. CASE ConnectionEnds
  BY <1>4, SMT DEF ConnectionEnds, LoseConnection, CloseChannel,
     ClosesAfter, AtMost
<1>5. CASE Timeout
  BY <1>5, SMT DEF Timeout, LoseConnection, CloseChannel, ClosesAfter,
     AtMost
<1>6. CASE \E w \in 0..(Modulus - 1) : HandleOpenSuccess(w)
  BY <1>6, SMT DEF HandleOpenSuccess, MayAnswer, Packet, CloseChannel,
     ClosesAfter, AtMost
<1>7. CASE HandleOpenFailure
  BY <1>7, SMT DEF HandleOpenFailure, MayAnswer, Packet
<1>8. CASE HandleChannelSuccess
  BY <1>8, SMT DEF HandleChannelSuccess, MayAnswer, Packet
<1>9. CASE HandleChannelFailure
  BY <1>9, SMT DEF HandleChannelFailure, MayAnswer, Packet,
     CloseChannel, ClosesAfter, AtMost
<1>10. CASE \E n \in 0..(Modulus - 1) : HandleWindowAdjust(n)
  BY <1>10, SMT DEF HandleWindowAdjust, ActivePacket, MaySend, Packet,
     Active, AtMost
<1>11. CASE \E n \in 0..(MaxPacket + 1) : HandleChannelData(n)
  BY <1>11, SMT DEF HandleChannelData, ActivePacket, MaySend, Packet,
     Active, AtMost
<1>12. CASE HandleExit
  BY <1>12, SMT DEF HandleExit, ActivePacket, MaySend, Packet, Active
<1>13. CASE HandleChannelEof
  BY <1>13, SMT DEF HandleChannelEof, ActivePacket, MaySend, Packet,
     Active
<1>14. CASE HandleChannelClose
  BY <1>14, SMT DEF HandleChannelClose, ActivePacket, MaySend, Packet,
     Active, ClosesAfter, AtMost
<1>15. CASE HandleUnexpected
  BY <1>15, SMT DEF HandleUnexpected, LoseConnection, CloseChannel,
     ClosesAfter, AtMost, Accuse
<1>16. CASE HandleUnexpectedOpenFailure
  BY <1>16, SMT DEF HandleUnexpectedOpenFailure, Packet
<1>17. CASE UNCHANGED vars
  BY <1>17, SMT DEF vars
<1>18. CASE HandleInvalidSignal
  BY <1>18, SMT DEF HandleInvalidSignal, LoseConnection, CloseChannel,
     ClosesAfter, AtMost, Accuse,
     ActivePacket, MaySend, Packet
<1> QED
  BY <1>1, <1>2, <1>3, <1>4, <1>5, <1>6, <1>7, <1>8, <1>9, <1>10, <1>11,
     <1>12, <1>13, <1>14, <1>15, <1>16, <1>17, <1>18
     DEF Next, UserCall,
     ServerPacket

(* In no state does a conforming server have anything to send that is out  *)
(* of place.                                                               *)
LEMMA NothingOutOfPlace ==
  IInv /\ conforming /\ connected => ~OutOfPlace
BY SMT DEF IInv, TypeOK, ChannelStates, Active, InStep, Seen, NothingSeen,
           OpenSeen, OpenAnswered, OutOfPlace

(* Only the two packets that throw accuse, and the one that is out of      *)
(* place is not a conforming server's.                                     *)
LEMMA NoFalseAlarmKept == IInv /\ [Next]_vars => NoFalseAlarm'
<1> SUFFICES ASSUME IInv, [Next]_vars PROVE accused' # "packet"
  BY DEF NoFalseAlarm
<1>1. accused # "packet"
  BY DEF IInv, NoFalseAlarm
<1>2. CASE HandleUnexpected
  <2>1. ~conforming
    BY <1>2, NothingOutOfPlace, Zenon DEF HandleUnexpected
  <2> QED
    BY <1>1, <1>2, <2>1, Zenon DEF HandleUnexpected, Accuse
<1>3. CASE HandleInvalidSignal
  BY <1>1, <1>3, SMT DEF HandleInvalidSignal, Accuse
<1>4. CASE \/ UserCall \/ ConnectionEnds \/ Timeout \/ UNCHANGED vars
  BY <1>1, <1>4, Zenon DEF UserCall, Start, Close, Write, ConnectionEnds,
     Timeout, trust, vars
<1>5. CASE ServerPacket /\ ~HandleUnexpected /\ ~HandleInvalidSignal
  BY <1>1, <1>5, Zenon DEF ServerPacket, HandleOpenSuccess,
     HandleOpenFailure, HandleChannelSuccess, HandleChannelFailure,
     HandleWindowAdjust, HandleChannelData, HandleExit, HandleChannelEof,
     HandleChannelClose, HandleUnexpectedOpenFailure, trust
<1> QED
  BY <1>2, <1>3, <1>4, <1>5, Zenon DEF Next

-----------------------------------------------------------------------------
(* IInv is an inductive invariant of SshChannel.                           *)
THEOREM Inductive == Spec => []IInv
<1>1. Init => IInv
  <2> SUFFICES ASSUME Init PROVE IInv
    OBVIOUS
  <2>1. Flags
    BY Zenon DEF Init, Flags
  <2>2. Amounts /\ signals \in Seq({"started", "closed"})
    BY ChannelAssumption, SMT DEF Init, Amounts, ChannelStates, ProcStates
  <2>3. TypeOK
    BY <2>1, <2>2, Zenon DEF TypeOK, Flags, Amounts
  <2>4. /\ InStep /\ SignalsInStep /\ WindowsInStep
        /\ ReceiveWindow /\ NeverOverSends /\ NothingHeldBack
        /\ CloseAnswered /\ NoFalseAlarm
    BY ChannelAssumption, SMT
       DEF Init, InStep, Seen, NothingSeen, SignalsInStep, WindowsInStep,
           ReceiveWindow, NeverOverSends, NothingHeldBack, CloseAnswered,
           NoFalseAlarm
  <2> QED
    BY <2>3, <2>4 DEF IInv
<1>2. IInv /\ [Next]_vars => IInv'
  <2> SUFFICES ASSUME IInv, [Next]_vars PROVE IInv'
    OBVIOUS
  <2>1. signals' \in Seq({"started", "closed"})
    <3>1. {<<>>, <<"started">>, <<"closed">>, <<"started", "closed">>}
             \subseteq Seq({"started", "closed"})
      BY SMT
    <3> QED
      BY <3>1, SignalsInStepKept, Zenon DEF SignalsInStep
  <2>2. TypeOK'
    BY <2>1, FlagsKept, AmountsKept, Zenon DEF TypeOK, Flags, Amounts
  <2> QED
    BY <2>2, InStepKept, SignalsInStepKept, WindowsInStepKept,
       ReceiveWindowKept, NeverOverSendsKept, NothingHeldBackKept,
       CloseAnsweredKept, NoFalseAlarmKept, Zenon DEF IInv
<1> QED
  BY <1>1, <1>2, PTL DEF Spec

(* Every variable keeps its type: the local window stays within a quint32  *)
(* because it is refilled only below one packet, the sum in                *)
(* handleWindowAdjust() because it wraps.                                  *)
THEOREM TypeCorrect == Spec => []TypeOK
<1>1. IInv => TypeOK
  BY Zenon DEF IInv
<1> QED
  BY <1>1, Inductive, PTL

(* handleChannelOrExtendedChannelData() never clips what a conforming      *)
(* server sends, and never leaves it less than one packet to send.         *)
THEOREM NeverClipsNorStarves == Spec => []ReceiveWindow
<1>1. IInv => ReceiveWindow
  BY Zenon DEF IInv
<1> QED
  BY <1>1, Inductive, PTL

(* flushSendBuffer() keeps within what the server granted, whatever the    *)
(* server sends, although handleWindowAdjust() does not see the overflow.  *)
THEOREM KeepsWithinGrant == Spec => []NeverOverSends
<1>1. IInv => NeverOverSends
  BY Zenon DEF IInv
<1> QED
  BY <1>1, Inductive, PTL

(* On an established channel data waits only for the server's window.      *)
THEOREM SendsWhatItMay == Spec => []NothingHeldBack
<1>1. IInv => NothingHeldBack
  BY Zenon DEF IInv
<1> QED
  BY <1>1, Inductive, PTL

(* Whatever user and server have done before, no packet of a conforming    *)
(* server meets a state for which sshchannel.cpp, sshchannelmanager.cpp or *)
(* sshremoteprocess.cpp throws; only the name in an exit-signal may.       *)
THEOREM ConformingServerAccepted == Spec => []NoFalseAlarm
<1>1. IInv => NoFalseAlarm
  BY Zenon DEF IInv
<1> QED
  BY <1>1, Inductive, PTL

(* closeChannel() and handleChannelClose() send one CLOSE between them.    *)
THEOREM OneCloseAnswer == Spec => []CloseAnswered
<1>1. IInv => CloseAnswered
  BY Zenon DEF IInv
<1> QED
  BY <1>1, Inductive, PTL

(* setProcState() and closeHook() report the end of a process once.        *)
THEOREM EndReportedOnce == Spec => []ClosedOnce
<1>1. IInv => ClosedOnce
  BY SMT DEF IInv, SignalsInStep, ClosedOnce
<1> QED
  BY <1>1, Inductive, PTL
=============================================================================
