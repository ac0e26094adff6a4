----------------------- MODULE TcpDataReceiver_proofs -----------------------
(***************************************************************************)
(* The framing is right however the stream is cut, for every size of the   *)
(* length field and every bound. What is needed beyond HandledInOrder:     *)
(* where the frames end (Layout), and that streamData always holds the     *)
(* beginning of the text after the last one that was handled (Aligned).    *)
(* How long a command may lie unhandled follows from Waiting: what read()  *)
(* leaves behind whenever it returns.                                      *)
(***************************************************************************)
EXTENDS TcpDataReceiver, SequenceTheorems, TLAPS

Layout ==
  /\ \A i \in Frames : EndOf(i - 1) + minCommandLength < ends[i]
  /\ \A i \in Frames : ends[i] <= EndOf(i - 1) + minCommandLength + MaxBody
  /\ \A i, j \in Frames : i < j => ends[i] < ends[j]
  /\ arrived <= EndOf(Len(ends))

Aligned ==
  /\ Len(handled) <= Len(ends)
  /\ phase = "handler" => pos = EndOf(Len(handled))
  /\ phase # "handler" /\ have = 0 => pos = EndOf(Len(handled))
  /\ phase # "handler" /\ have > 0 =>
       /\ Len(handled) < Len(ends)
       /\ pos = EndOf(Len(handled)) + minCommandLength + have
       /\ need = Body(Len(handled) + 1)

IInv == TypeOK /\ Layout /\ Aligned /\ HandledInOrder

-----------------------------------------------------------------------------
(* A frame that is appended leaves the ends of the others alone.           *)
LEMMA AppendedFrame ==
  ASSUME TypeOK, NEW n \in 1..MaxBody, Write(n)
  PROVE  /\ Len(ends') = Len(ends) + 1
         /\ \A i \in Frames : ends'[i] = ends[i]
         /\ ends'[Len(ends) + 1]
              = EndOf(Len(ends)) + minCommandLength + n
         /\ \A i \in 0..Len(ends) : EndOf(i)' = EndOf(i)
         /\ \A i \in 0..Len(ends) : EndOf(i) \in 0..MaxBytes
<1>1. /\ Len(ends') = Len(ends) + 1
      /\ \A i \in Frames : ends'[i] = ends[i]
      /\ ends'[Len(ends) + 1] = EndOf(Len(ends)) + minCommandLength + n
  BY SMT DEF TypeOK, Write, Frames
<1>2. \A i \in 0..Len(ends) : EndOf(i)' = EndOf(i)
  BY <1>1, SMT DEF TypeOK, EndOf, Frames
<1>3. \A i \in 0..Len(ends) : EndOf(i) \in 0..MaxBytes
  BY ReceiverAssumption, SMT DEF TypeOK, EndOf
<1> QED
  BY <1>1, <1>2, <1>3

(* Of two frames, the one written first ends first.                        *)
LEMMA EndsAscend ==
  ASSUME TypeOK, Layout
  PROVE  \A i, j \in 0..Len(ends) :
           /\ EndOf(i) \in 0..MaxBytes
           /\ i < j => EndOf(i) < EndOf(j)
<1>1. \A i \in Frames : ends[i] \in 1..MaxBytes
  BY ElementOfSeq, Zenon DEF TypeOK, Frames
<1>2. \A i \in 0..Len(ends) : i = 0 \/ i \in Frames
  BY SMT DEF TypeOK, Frames
<1>3. \A i, j \in 0..Len(ends) : i < j => j \in Frames
  BY SMT DEF TypeOK, Frames
<1> QED
  BY <1>1, <1>2, <1>3, ReceiverAssumption, SMT DEF Layout, EndOf, Frames

(* At the beginning of a frame, the length that is read is its own.        *)
LEMMA LengthOfFrame ==
  ASSUME TypeOK, Layout, NEW k \in 0..Len(ends), k < Len(ends),
         NEW n \in Length(EndOf(k))
  PROVE  n = Body(k + 1)
<1>1. k + 1 \in Frames /\ EndOf(k) = EndOf((k + 1) - 1)
  BY SMT DEF TypeOK, Frames
<1>2. PICK j \in Frames : n = Body(j) /\ EndOf(k) = EndOf(j - 1)
  BY <1>1, Zenon DEF Length
<1>3. j = k + 1
  <2>1. j - 1 \in 0..Len(ends) /\ k \in 0..Len(ends) /\ j \in Nat
    BY <1>1, SMT DEF TypeOK, Frames
  <2>2. ~(j - 1 < k) /\ ~(k < j - 1)
    BY <1>2, <2>1, EndsAscend, SMT
  <2> QED
    BY <2>1, <2>2, SMT
<1> QED
  BY <1>2, <1>3

(* More than a length beyond the last frame handled: there is another one. *)
LEMMA NextFrame ==
  ASSUME IInv, Enough, phase = "loop", have = 0
  PROVE  /\ Len(handled) \in 0..Len(ends) /\ Len(handled) < Len(ends)
         /\ pos = EndOf(Len(handled))
<1>1. Len(handled) \in 0..Len(ends) /\ pos = EndOf(Len(handled))
  BY SMT DEF IInv, TypeOK, Aligned
<1>2. Len(handled) # Len(ends)
  BY <1>1, ReceiverAssumption, SMT
     DEF IInv, TypeOK, Layout, Enough, bytesAvailable, EndOf
<1> QED
  BY <1>1, <1>2, SMT DEF IInv, TypeOK

(* handle() is given the text of the next frame.                           *)
LEMMA HandledNext ==
  ASSUME IInv, NEW length \in Nat, NEW last \in Nat,
         Len(handled) < Len(ends),
         length = Body(Len(handled) + 1), last = ends[Len(handled) + 1],
         Handle(length, last), UNCHANGED ends
  PROVE  /\ Len(handled') = Len(handled) + 1
         /\ HandledInOrder'
         /\ handled' \in Seq((1..MaxBytes) \X (0..MaxBytes))
<1> DEFINE k == Len(handled) + 1
           text == <<last - length + 1, last>>
<1>1. k \in Frames /\ Len(handled) \in Nat
  BY SMT DEF IInv, TypeOK, Frames
<1>2. /\ ends[k] \in 0..MaxBytes /\ EndOf(k - 1) \in 0..MaxBytes
      /\ EndOf(k - 1) + minCommandLength < ends[k]
  <2>1. k \in 0..Len(ends) /\ k - 1 \in 0..Len(ends) /\ EndOf(k) = ends[k]
    BY <1>1, SMT DEF IInv, TypeOK, EndOf, Frames
  <2> QED
    BY <1>1, <2>1, EndsAscend, Zenon DEF IInv, Layout
<1>3. /\ last - length + 1 = EndOf(k - 1) + minCommandLength + 1
      /\ last - length + 1 \in 1..MaxBytes
  <2>1. length = ends[k] - EndOf(k - 1) - minCommandLength /\ last = ends[k]
    BY Zenon DEF Body
  <2>2. minCommandLength \in Nat \ {0} /\ MaxBytes \in Nat
    BY ReceiverAssumption, Zenon
  <2> DEFINE begin == EndOf(k - 1)
             end == ends[k]
  <2>3. /\ begin \in 0..MaxBytes /\ end \in 0..MaxBytes
        /\ begin + minCommandLength < end
        /\ length = end - begin - minCommandLength /\ last = end
    BY <1>2, <2>1, Zenon
  <2> HIDE DEF begin, end
  <2>4. /\ last - length + 1 = begin + minCommandLength + 1
        /\ last - length + 1 \in 1..MaxBytes
    BY <2>2, <2>3, SMT
  <2> QED
    BY <2>4 DEF begin
<1>4. /\ text = <<EndOf(k - 1) + minCommandLength + 1, ends[k]>>
      /\ text \in (1..MaxBytes) \X (0..MaxBytes)
  BY <1>2, <1>3, SMT
<1>5. handled' = Append(handled, text)
  BY DEF Handle
<1> HIDE DEF text
<1>6. /\ Len(handled') = Len(handled) + 1
      /\ handled' \in Seq((1..MaxBytes) \X (0..MaxBytes))
      /\ \A i \in 1..Len(handled) : handled'[i] = handled[i]
      /\ handled'[k] = text
  BY <1>1, <1>4, <1>5, SMT DEF IInv, TypeOK
<1>7. \A i \in 1..Len(handled') :
         handled'[i] = <<EndOf(i - 1) + minCommandLength + 1, ends[i]>>
  <2> TAKE i \in 1..Len(handled')
  <2>1. i \in 1..Len(handled) \/ i = k
    BY <1>1, <1>6, SMT
  <2>2. CASE i \in 1..Len(handled)
    BY <1>6, <2>2, Zenon DEF IInv, HandledInOrder
  <2>3. CASE i = k
    BY <1>4, <1>6, <2>3, Zenon
  <2> QED
    BY <2>1, <2>2, <2>3
<1>8. \A i : EndOf(i)' = EndOf(i)
  BY Zenon DEF EndOf
<1>9. Len(handled') <= Len(ends')
  BY <1>1, <1>6, SMT DEF IInv, TypeOK
<1>10. HandledInOrder'
  BY <1>7, <1>8, <1>9, Zenon DEF HandledInOrder
<1> QED
  BY <1>6, <1>10

(* The two ways read() completes a text.                                   *)
LEMMA FinishedFrame ==
  ASSUME IInv, FinishFrame
  PROVE  /\ Len(handled') = Len(handled) + 1
         /\ HandledInOrder'
         /\ handled' \in Seq((1..MaxBytes) \X (0..MaxBytes))
         /\ pos' = ends[Len(handled) + 1] /\ pos' \in 0..arrived
         /\ Len(handled) < Len(ends) /\ Len(handled) \in Nat
<1> DEFINE last == pos + (need - have)
<1>1. /\ Len(handled) < Len(ends) /\ Len(handled) \in Nat
      /\ pos = EndOf(Len(handled)) + minCommandLength + have
      /\ need = Body(Len(handled) + 1)
  BY SMT DEF IInv, TypeOK, Aligned, FinishFrame
<1>2. /\ Handle(need, last) /\ pos' = last
      /\ need - have <= bytesAvailable
  BY Zenon DEF FinishFrame
<1>3. need \in Nat /\ last \in Nat /\ last \in 0..arrived
  <2>1. /\ need \in Nat /\ have \in 0..need
        /\ pos \in Nat /\ arrived \in Nat
    BY SMT DEF IInv, TypeOK
  <2> QED
    BY <1>2, <2>1, SMT DEF bytesAvailable
<1>4. last = ends[Len(handled) + 1]
  <2>1. /\ Len(handled) \in 0..Len(ends) /\ Len(handled) + 1 \in 0..Len(ends)
        /\ EndOf(Len(handled) + 1) = ends[Len(handled) + 1]
    <3>1. Len(ends) \in Nat
      BY LenProperties, Zenon DEF IInv, TypeOK
    <3>2. Len(handled) + 1 # 0
      BY <1>1, SMT
    <3> QED
      BY <1>1, <3>1, <3>2, SMT DEF EndOf
  <2>2. /\ EndOf(Len(handled)) \in 0..MaxBytes
        /\ ends[Len(handled) + 1] \in 0..MaxBytes
    BY <2>1, EndsAscend, Zenon DEF IInv
  <2>3. (Len(handled) + 1) - 1 = Len(handled)
    BY <1>1, SMT
  <2>4. need = ends[Len(handled) + 1] - EndOf(Len(handled))
                 - minCommandLength
    BY <1>1, <2>3, Zenon DEF Body
  <2>5. need \in Nat /\ have \in 0..need
    BY SMT DEF IInv, TypeOK
  <2>6. minCommandLength \in Nat /\ MaxBytes \in Nat
    BY ReceiverAssumption, Zenon
  <2>7. pos = EndOf(Len(handled)) + minCommandLength + have
    BY <1>1
  <2>8. /\ EndOf(Len(handled)) \in Nat /\ ends[Len(handled) + 1] \in Nat
    BY <2>2, <2>6, SMT
  <2> DEFINE begin == EndOf(Len(handled))
             end == ends[Len(handled) + 1]
  <2>9. /\ begin \in Nat /\ end \in Nat
        /\ need = end - begin - minCommandLength
        /\ pos = begin + minCommandLength + have
    BY <2>4, <2>7, <2>8, Zenon
  <2> HIDE DEF begin, end
  <2>10. pos + (need - have) = end
    BY <2>5, <2>6, <2>9, SMT
  <2> QED
    BY <2>10 DEF end
<1>5. UNCHANGED ends
  BY DEF FinishFrame, peer
<1> HIDE DEF last
<1> QED
  BY <1>1, <1>2, <1>3, <1>4, <1>5, HandledNext, Zenon

LEMMA TakenFrame ==
  ASSUME IInv, TakeFrame
  PROVE  LET k == Len(handled) + 1
         IN  /\ k \in Frames
             /\ need' = Body(k) /\ need' \in 1..MaxBody
             /\ have' \in 1..need'
             /\ pos' = EndOf(k - 1) + minCommandLength + have'
             /\ pos' \in 0..arrived
             /\ IF have' = need'
                  THEN /\ phase' = "handler" /\ resume' = "loop"
                       /\ pos' = ends[k]
                       /\ Len(handled') = k
                       /\ HandledInOrder'
                       /\ handled' \in Seq((1..MaxBytes) \X (0..MaxBytes))
                  ELSE UNCHANGED <<handled, phase, resume>>
<1> DEFINE k == Len(handled) + 1
<1>1. /\ Len(handled) \in 0..Len(ends) /\ Len(handled) < Len(ends)
      /\ pos = EndOf(Len(handled))
  BY NextFrame DEF TakeFrame
<1>2. PICK n \in Length(pos) :
        LET rest == bytesAvailable - minCommandLength
            text == IF n <= rest THEN n ELSE rest
        IN  /\ need' = n
            /\ have' = text
            /\ pos' = pos + minCommandLength + text
            /\ IF text = n
                 THEN /\ Handle(n, pos + minCommandLength + n)
                      /\ resume' = "loop"
                 ELSE UNCHANGED <<handled, phase, resume>>
  BY Zenon DEF TakeFrame
<1>3. n = Body(k)
  BY <1>1, <1>2, LengthOfFrame DEF IInv
<1>4. k \in Frames /\ k - 1 = Len(handled)
  BY <1>1, SMT DEF IInv, TypeOK, Frames
<1>5. /\ ends[k] \in 0..MaxBytes /\ EndOf(k - 1) \in 0..MaxBytes
      /\ EndOf(k - 1) + minCommandLength < ends[k]
      /\ ends[k] <= EndOf(k - 1) + minCommandLength + MaxBody
  <2>1. k \in 0..Len(ends) /\ k - 1 \in 0..Len(ends) /\ EndOf(k) = ends[k]
    BY <1>1, <1>4, SMT DEF IInv, TypeOK, EndOf, Frames
  <2> QED
    BY <1>4, <2>1, EndsAscend, Zenon DEF IInv, Layout
<1>6. /\ n \in 1..MaxBody
      /\ pos + minCommandLength + n = ends[k]
  <2>1. n = ends[k] - EndOf(k - 1) - minCommandLength
    BY <1>3, Zenon DEF Body
  <2>2. pos = EndOf(k - 1)
    BY <1>1, <1>4, Zenon
  <2>3. /\ minCommandLength \in Nat \ {0} /\ MaxBody \in Nat
        /\ MaxBytes \in Nat
    BY ReceiverAssumption, Zenon
  <2> HIDE DEF k
  <2> QED
    BY <1>5, <2>1, <2>2, <2>3, SMT
<1>7. /\ have' \in 1..n /\ pos' = pos + minCommandLength + have'
      /\ pos' \in 0..arrived
      /\ have' = n => Handle(n, ends[k]) /\ resume' = "loop"
      /\ have' # n => UNCHANGED <<handled, phase, resume>>
  BY <1>2, <1>6, ReceiverAssumption, SMT
     DEF IInv, TypeOK, TakeFrame, Enough, bytesAvailable
<1>8. have' = n =>
        /\ Len(handled') = k /\ HandledInOrder'
        /\ handled' \in Seq((1..MaxBytes) \X (0..MaxBytes))
  <2>1. n \in Nat /\ ends[k] \in Nat
    BY <1>5, <1>6, SMT
  <2>2. UNCHANGED ends
    BY DEF TakeFrame, peer
  <2> QED
    BY <1>1, <1>3, <1>7, <2>1, <2>2, HandledNext, Zenon
<1>9. have' = n => phase' = "handler" /\ pos' = ends[k]
  BY <1>6, <1>7, SMT DEF Handle
<1> QED
  BY <1>1, <1>2, <1>3, <1>4, <1>6, <1>7, <1>8, <1>9, Zenon

(* What arrives keeps a counter for every frame.                           *)
LEMMA Counters ==
  ASSUME TypeOK, NEW n \in 1..MaxBytes, Arrive(n)
  PROVE  waited' \in Seq(Nat) /\ Len(waited') = Len(ends)
<1>1. CASE phase = "idle"
  <2>1. waited' = [i \in Frames |-> IF Waits(i) THEN waited[i] + 1
                                                ELSE waited[i]]
    BY <1>1, Zenon DEF Arrive
  <2>2. \A i \in Frames : waited[i] \in Nat
    BY ElementOfSeq, Zenon DEF TypeOK, Frames
  <2>3. waited' \in [1..Len(ends) -> Nat]
    BY <2>1, <2>2, SMT DEF Frames
  <2>4. Len(ends) \in Nat
    BY LenProperties, Zenon DEF TypeOK
  <2>5. waited' \in Seq(Nat)
    <3>1. Seq(Nat) = UNION {[1..m -> Nat] : m \in Nat}
      BY SeqDef, Zenon
    <3>2. [1..Len(ends) -> Nat] \in {[1..m -> Nat] : m \in Nat}
      BY <2>4, Zenon
    <3> QED
      BY <2>3, <3>1, <3>2, Zenon
  <2> QED
    BY <2>3, <2>4, <2>5, SMT
<1>2. CASE phase # "idle"
  <2>1. waited' = waited
    BY <1>2, Zenon DEF Arrive
  <2> QED
    BY <2>1 DEF TypeOK
<1> QED
  BY <1>1, <1>2

(* Every variable keeps its type.                                          *)
LEMMA TypeKept == IInv /\ [Next]_vars => TypeOK'
<1> SUFFICES ASSUME IInv, [Next]_vars PROVE TypeOK'
  OBVIOUS
<1> USE ReceiverAssumption DEF IInv
<1>1. ASSUME NEW n \in 1..MaxBody, Write(n) PROVE TypeOK'
  <2>1. /\ EndOf(Len(ends)) + minCommandLength + n \in 1..MaxBytes
        /\ Len(ends) \in Nat
    <3>1. Len(ends) \in 0..Len(ends) /\ Len(ends) \in Nat
      BY SMT DEF TypeOK
    <3>2. EndOf(Len(ends)) \in 0..MaxBytes
      BY <3>1, EndsAscend, Zenon
    <3> QED
      BY <1>1, <3>1, <3>2, SMT DEF Write
  <2>2. ends' \in Seq(1..MaxBytes) /\ Len(ends') = Len(ends) + 1
    BY <1>1, <2>1, SMT DEF TypeOK, Write
  <2>3. waited' \in Seq(Nat) /\ Len(waited') = Len(waited) + 1
    <3>1. waited' = Append(waited, 0) /\ waited \in Seq(Nat)
      BY <1>1, Zenon DEF TypeOK, Write
    <3> QED
      BY <3>1, SMT
  <2> QED
    BY <1>1, <2>2, <2>3, SMT DEF TypeOK, Write, sock
<1>2. ASSUME NEW n \in 1..MaxBytes, Arrive(n) PROVE TypeOK'
  <2>1. EndOf(Len(ends)) \in 0..MaxBytes
    <3>1. Len(ends) \in 0..Len(ends)
      BY SMT DEF TypeOK
    <3> QED
      BY <3>1, EndsAscend, Zenon
  <2>2. /\ arrived' \in 0..MaxBytes /\ pos' \in 0..arrived'
        /\ phase' \in {"loop", "handler"}
        /\ phase' = "handler" <=> phase = "handler"
    BY <1>2, <2>1, SMT DEF TypeOK, Arrive
  <2> QED
    BY <1>2, <2>2, Counters, SMT DEF TypeOK, Arrive
<1>3. CASE Disconnect
  <2>1. socket' \in BOOLEAN
    BY <1>3, Zenon DEF Disconnect
  <2> QED
    BY <1>3, <2>1, SMT DEF TypeOK, Disconnect, peer
<1>4. CASE LeaveLoop
  BY <1>4, SMT DEF TypeOK, LeaveLoop, sock, peer
<1>5. CASE FinishFrame
  BY <1>5, FinishedFrame, SMT DEF TypeOK, FinishFrame, Handle, sock, peer
<1>6. CASE TakeFrame
  <2>1. UNCHANGED <<socket, arrived, ends, waited>>
    BY <1>6 DEF TakeFrame, sock, peer
  <2>2. phase = "loop"
    BY <1>6 DEF TakeFrame
  <2> QED
    BY <1>6, <2>1, <2>2, TakenFrame, SMT DEF TypeOK
<1>7. CASE HandlerReturns
  BY <1>7, SMT DEF TypeOK, HandlerReturns, sock, peer
<1>8. CASE UNCHANGED vars
  BY <1>8, SMT DEF TypeOK, vars, sock, peer
<1> QED
  BY <1>1, <1>2, <1>3, <1>4, <1>5, <1>6, <1>7, <1>8 DEF Next, Read

(* Frames are only appended, and no byte arrives that was not written.     *)
LEMMA LayoutKept == IInv /\ [Next]_vars => Layout'
<1> SUFFICES ASSUME IInv, [Next]_vars PROVE Layout'
  OBVIOUS
<1> USE DEF IInv
<1>1. ASSUME NEW n \in 1..MaxBody, Write(n) PROVE Layout'
  <2> DEFINE m == Len(ends) + 1
  <2>1. m \in Nat /\ Frames' = Frames \union {m} /\ m \notin Frames
        /\ (\A i \in Frames : i < m /\ i - 1 \in 0..Len(ends)
                                    /\ i \in 0..Len(ends))
        /\ m - 1 = Len(ends) /\ Len(ends) \in 0..Len(ends)
    BY <1>1, AppendedFrame, SMT DEF TypeOK, Frames
  <2>2. /\ \A i \in Frames : ends'[i] = ends[i]
        /\ ends'[m] = EndOf(m - 1) + minCommandLength + n
        /\ \A i \in Frames' : EndOf(i - 1)' = EndOf(i - 1)
        /\ EndOf(m - 1) \in 0..MaxBytes
    BY <1>1, <2>1, AppendedFrame, Zenon
  <2>3. /\ \A i \in Frames' : EndOf(i - 1)' + minCommandLength < ends'[i]
        /\ \A i \in Frames' :
             ends'[i] <= EndOf(i - 1)' + minCommandLength + MaxBody
    BY <2>1, <2>2, ReceiverAssumption, SMT DEF Layout
  <2>4. \A i \in Frames : ends[i] < ends'[m]
    <3> TAKE i \in Frames
    <3>1. EndOf(i) = ends[i] /\ (i = m - 1 \/ i < m - 1)
      BY <2>1, SMT DEF EndOf, Frames, TypeOK
    <3>2. EndOf(i) \in 0..MaxBytes /\ (i = m - 1 \/ EndOf(i) < EndOf(m - 1))
      BY <2>1, <3>1, EndsAscend, Zenon
    <3> QED
      BY <2>2, <3>1, <3>2, ReceiverAssumption, SMT
  <2>5. \A i, j \in Frames' : i < j => ends'[i] < ends'[j]
    <3> TAKE i, j \in Frames'
    <3> HAVE i < j
    <3>1. CASE j \in Frames
      <4>1. i \in Frames
        BY <2>1, <3>1, SMT DEF Frames
      <4> QED
        BY <2>2, <3>1, <4>1, Zenon DEF Layout
    <3>2. CASE j = m
      <4>1. i \in Frames
        BY <2>1, <3>2, SMT DEF Frames
      <4> QED
        BY <2>2, <2>4, <3>2, <4>1, Zenon
    <3> QED
      BY <2>1, <3>1, <3>2, Zenon
  <2>6. arrived' <= EndOf(Len(ends))'
    <3>1. /\ Len(ends') = m /\ m # 0
          /\ EndOf(Len(ends))' = ends'[m]
      BY <1>1, <2>1, AppendedFrame, SMT DEF EndOf
    <3>2. arrived' = arrived
      BY <1>1 DEF Write, sock
    <3>3. arrived <= EndOf(m - 1)
      BY <2>1, Zenon DEF Layout
    <3> QED
      BY <2>2, <3>1, <3>2, <3>3, ReceiverAssumption, SMT DEF TypeOK
  <2> QED
    BY <2>3, <2>5, <2>6, Zenon DEF Layout
<1>2. ASSUME NEW n \in 1..MaxBytes, Arrive(n) PROVE Layout'
  BY <1>2, Zenon DEF Layout, Arrive, Frames, EndOf
<1>3. CASE UNCHANGED <<ends, arrived>>
  BY <1>3, Zenon DEF Layout, Frames, EndOf
<1>4. CASE Disconnect \/ LeaveLoop \/ FinishFrame \/ TakeFrame
           \/ HandlerReturns \/ UNCHANGED vars
  BY <1>3, <1>4, Zenon
     DEF Disconnect, LeaveLoop, FinishFrame, TakeFrame, HandlerReturns,
         vars, sock, peer
<1> QED
  BY <1>1, <1>2, <1>4 DEF Next, Read

(* streamData holds the beginning of the text after the last one handled.  *)
LEMMA AlignedKept == IInv /\ [Next]_vars => Aligned'
<1> SUFFICES ASSUME IInv, [Next]_vars PROVE Aligned'
  OBVIOUS
<1> USE DEF IInv
<1>1. ASSUME NEW n \in 1..MaxBody, Write(n) PROVE Aligned'
  <2> DEFINE k == Len(handled)
  <2>1. UNCHANGED <<phase, pos, have, need, handled>>
    BY <1>1, Zenon DEF Write
  <2>2. /\ k \in 0..Len(ends) /\ Len(ends') = Len(ends) + 1
        /\ Len(ends) \in Nat /\ EndOf(k)' = EndOf(k)
    <3>1. k \in 0..Len(ends) /\ Len(ends) \in Nat
      BY SMT DEF TypeOK, Aligned
    <3> QED
      BY <1>1, <2>1, <3>1, AppendedFrame, Zenon DEF EndOf
  <2>3. k < Len(ends) => Body(k + 1)' = Body(k + 1)
    <3> SUFFICES ASSUME k < Len(ends) PROVE Body(k + 1)' = Body(k + 1)
      OBVIOUS
    <3>1. k + 1 \in Frames /\ (k + 1) - 1 \in 0..Len(ends)
      BY <2>2, SMT DEF Frames
    <3>2. /\ ends'[k + 1] = ends[k + 1]
          /\ EndOf((k + 1) - 1)' = EndOf((k + 1) - 1)
      <4>1. \A i \in 0..Len(ends) : EndOf(i)' = EndOf(i)
        BY <1>1, AppendedFrame, Zenon
      <4> QED
        BY <1>1, <2>1, <3>1, <4>1, AppendedFrame, Zenon DEF EndOf
    <3> QED
      BY <2>1, <3>2, Zenon DEF Body
  <2>4. k <= Len(ends') /\ (k < Len(ends) => k < Len(ends'))
    BY <2>2, SMT
  <2> QED
    BY <2>1, <2>2, <2>3, <2>4, Zenon DEF Aligned
<1>2. ASSUME UNCHANGED <<pos, have, need, handled, ends>>,
             phase' = "handler" <=> phase = "handler"
      PROVE  Aligned'
  BY <1>2, Zenon DEF Aligned, EndOf, Body
<1>3. ASSUME NEW n \in 1..MaxBytes, Arrive(n) PROVE Aligned'
  <2>1. phase' = "handler" <=> phase = "handler"
    BY <1>3, SMT DEF Arrive
  <2> QED
    BY <1>2, <1>3, <2>1, Zenon DEF Arrive
<1>4. CASE Disconnect
  BY <1>2, <1>4, Zenon DEF Disconnect, peer
<1>5. CASE LeaveLoop
  <2>1. phase' = "handler" <=> phase = "handler"
    BY <1>5, SMT DEF LeaveLoop
  <2> QED
    BY <1>2, <1>5, <2>1, Zenon DEF LeaveLoop, peer
<1>6. CASE FinishFrame
  <2>1. phase' = "handler" /\ UNCHANGED ends
    BY <1>6, Zenon DEF FinishFrame, Handle, peer
  <2>2. /\ Len(handled') <= Len(ends) /\ pos' = ends[Len(handled')]
        /\ Len(handled') # 0
    BY <1>6, FinishedFrame, SMT DEF TypeOK
  <2> QED
    BY <2>1, <2>2, SMT DEF Aligned, EndOf
<1>7. CASE TakeFrame
  <2> DEFINE k == Len(handled) + 1
  <2>1. UNCHANGED ends /\ phase = "loop"
    BY <1>7, Zenon DEF TakeFrame, peer
  <2>2. k \in Nat /\ k # 0 /\ k - 1 = Len(handled)
        /\ (k \in Frames => k <= Len(ends) /\ Len(handled) < Len(ends))
    BY SMT DEF TypeOK, Frames
  <2>3. CASE have' = need'
    <3>1. /\ phase' = "handler" /\ pos' = ends[k]
          /\ Len(handled') = k /\ k \in Frames
      BY <1>7, <2>3, TakenFrame, Zenon
    <3> QED
      BY <2>1, <2>2, <3>1, SMT DEF Aligned, EndOf
  <2>4. CASE have' # need'
    <3>1. /\ k \in Frames /\ need' = Body(k) /\ have' > 0
          /\ pos' = EndOf(k - 1) + minCommandLength + have'
          /\ UNCHANGED <<handled, phase>>
      <4>1. have' \in 1..need' /\ need' \in 1..MaxBody
        BY <1>7, TakenFrame, Zenon
      <4>2. have' > 0
        BY <4>1, SMT
      <4> QED
        BY <1>7, <2>4, <4>2, TakenFrame, Zenon
    <3>2. have' # 0
      BY <3>1, SMT
    <3>3. Len(handled') <= Len(ends')
      BY <2>1, <2>2, <3>1, SMT
    <3>4. EndOf(Len(handled))' = EndOf(Len(handled)) /\ Body(k)' = Body(k)
      BY <2>1, <3>1, Zenon DEF EndOf, Body
    <3> QED
      BY <2>1, <2>2, <3>1, <3>2, <3>3, <3>4, SMT DEF Aligned
  <2> QED
    BY <2>3, <2>4
<1>8. CASE HandlerReturns
  <2>1. /\ phase = "handler" /\ phase' # "handler" /\ have' = 0
        /\ UNCHANGED <<pos, handled, ends>>
    BY <1>8, SMT DEF HandlerReturns, TypeOK, peer
  <2>2. ~(have' > 0)
    BY <2>1, SMT
  <2> QED
    BY <2>1, <2>2, Zenon DEF Aligned, EndOf
<1>9. CASE UNCHANGED vars
  BY <1>2, <1>9, Zenon DEF vars, peer
<1> QED
  BY <1>1, <1>3, <1>4, <1>5, <1>6, <1>7, <1>8, <1>9 DEF Next, Read

(* What has been handled stays, and what is added is the next text.        *)
LEMMA HandledKept == IInv /\ [Next]_vars => HandledInOrder'
<1> SUFFICES ASSUME IInv, [Next]_vars PROVE HandledInOrder'
  OBVIOUS
<1> USE DEF IInv
<1>1. ASSUME NEW n \in 1..MaxBody, Write(n) PROVE HandledInOrder'
  <2>1. /\ handled' = handled /\ Len(handled) \in Nat
        /\ Len(ends') = Len(ends) + 1 /\ Len(ends) \in Nat
        /\ Len(handled) <= Len(ends)
    BY <1>1, AppendedFrame, SMT DEF TypeOK, Aligned, Write
  <2>2. /\ Len(handled') <= Len(ends')
        /\ \A i \in 1..Len(handled) :
             i \in Frames /\ i - 1 \in 0..Len(ends)
    BY <2>1, SMT DEF Frames
  <2>3. \A i \in 1..Len(handled) :
          ends'[i] = ends[i] /\ EndOf(i - 1)' = EndOf(i - 1)
    BY <1>1, <2>2, AppendedFrame, Zenon
  <2> QED
    BY <2>1, <2>2, <2>3, Zenon DEF HandledInOrder
<1>2. CASE UNCHANGED <<handled, ends>>
  BY <1>2, Zenon DEF HandledInOrder, EndOf
<1>3. ASSUME NEW n \in 1..MaxBytes, Arrive(n) PROVE HandledInOrder'
  BY <1>2, <1>3, Zenon DEF Arrive
<1>4. CASE Disconnect \/ LeaveLoop \/ HandlerReturns \/ UNCHANGED vars
  BY <1>2, <1>4, Zenon
     DEF Disconnect, LeaveLoop, HandlerReturns, vars, peer
<1>5. CASE FinishFrame
  BY <1>5, FinishedFrame
<1>6. CASE TakeFrame
  <2>1. UNCHANGED ends
    BY <1>6, Zenon DEF TakeFrame, peer
  <2>2. CASE have' = need'
    BY <1>6, <2>2, TakenFrame, Zenon
  <2>3. CASE have' # need'
    <3>1. UNCHANGED handled
      BY <1>6, <2>3, TakenFrame, Zenon
    <3> QED
      BY <1>2, <2>1, <3>1, Zenon
  <2> QED
    BY <2>2, <2>3
<1> QED
  BY <1>1, <1>3, <1>4, <1>5, <1>6 DEF Next, Read

-----------------------------------------------------------------------------
(* IInv is an inductive invariant of TcpDataReceiver.                      *)
THEOREM Inductive == Spec => []IInv
<1>1. Init => IInv
  <2> SUFFICES ASSUME Init PROVE IInv
    OBVIOUS
  <2>1. TypeOK
    <3>1. socket \in BOOLEAN
      BY Zenon DEF Init
    <3> QED
      BY <3>1, ReceiverAssumption, SMT DEF Init, TypeOK
  <2> QED
    BY <2>1, SMT
       DEF Init, IInv, Layout, Aligned, HandledInOrder, Frames, EndOf
<1>2. IInv /\ [Next]_vars => IInv'
  BY TypeKept, LayoutKept, AlignedKept, HandledKept, Zenon DEF IInv
<1> QED
  BY <1>1, <1>2, PTL DEF Spec

(* Every variable keeps its type: streamData never outgrows the length     *)
(* that was announced.                                                     *)
THEOREM TypeCorrect == Spec => []TypeOK
<1>1. IInv => TypeOK
  BY Zenon DEF IInv
<1> QED
  BY <1>1, Inductive, PTL

(* read() hands every text to handle() once, complete and in order, however *)
(* the stream is cut into segments.                                        *)
THEOREM FramingCorrect == Spec => []HandledInOrder
<1>1. IInv => HandledInOrder
  BY Zenon DEF IInv
<1> QED
  BY <1>1, Inductive, PTL
-----------------------------------------------------------------------------
(* How long a command lies unhandled                                       *)

Unhandled == {i \in Frames : i > Len(handled)}

(* read() has returned, or will once the handler does, with no text begun. *)
ReadEnded ==
  \/ phase = "idle" /\ have = 0
  \/ phase = "handler" /\ resume = "idle"

(* A frame counts from its last byte on.                                   *)
CountsFromEnd == \A i \in Frames : arrived < ends[i] => waited[i] = 0

(* read() leaves a text begun only when there are too few bytes for a      *)
(* length, or for the text.                                                *)
LeftBegun ==
  phase = "idle" /\ have > 0 =>
    bytesAvailable <= minCommandLength \/ need - have > bytesAvailable

(* Each readyRead that the text begun has waited is a byte in the socket.  *)
BegunWaits ==
  phase \in {"idle", "loop"} /\ have > 0 =>
    LET k == Len(handled) + 1
    IN  ends[k] <= arrived => waited[k] < bytesAvailable

(* With no text begun when read() returns, no command has waited yet;      *)
(* nor has one behind the text that read() is about to finish.             *)
NoneWaits == ReadEnded => \A i \in Unhandled : waited[i] = 0

NoneBehind ==
  phase = "loop" /\ have > 0 =>
    \A i \in Unhandled : i # Len(handled) + 1 => waited[i] = 0

Waiting ==
  CountsFromEnd /\ LeftBegun /\ BegunWaits /\ NoneWaits /\ NoneBehind

(* Of the frames not handled, each is more than a length past the one      *)
(* before it.                                                              *)
LEMMA UnhandledEnds ==
  ASSUME IInv
  PROVE  LET k == Len(handled) + 1
         IN  /\ Len(handled) \in 0..Len(ends) /\ Len(ends) \in Nat
             /\ EndOf(Len(handled)) \in 0..MaxBytes
             /\ \A i \in Unhandled :
                  /\ i \in 1..Len(ends) /\ k \in Unhandled
                  /\ ends[i] \in 1..MaxBytes /\ waited[i] \in Nat
                  /\ EndOf(Len(handled)) + minCommandLength < ends[i]
                  /\ i # k => ends[k] + minCommandLength < ends[i]
<1> DEFINE k == Len(handled) + 1
<1>1. Len(handled) \in 0..Len(ends) /\ Len(ends) \in Nat
  BY SMT DEF IInv, TypeOK, Aligned
<1>2. EndOf(Len(handled)) \in 0..MaxBytes
  BY <1>1, EndsAscend, Zenon DEF IInv
<1> SUFFICES ASSUME NEW i \in Unhandled
             PROVE  /\ i \in 1..Len(ends) /\ k \in Unhandled
                    /\ ends[i] \in 1..MaxBytes /\ waited[i] \in Nat
                    /\ EndOf(Len(handled)) + minCommandLength < ends[i]
                    /\ i # k => ends[k] + minCommandLength < ends[i]
  BY <1>1, <1>2, Zenon
<1>3. /\ i \in 1..Len(ends) /\ k \in Unhandled /\ i - 1 \in 0..Len(ends)
      /\ k \in 0..Len(ends) /\ k # 0 /\ i \in Frames
      /\ i = k \/ k < i - 1 \/ k = i - 1
      /\ i - 1 = Len(handled) \/ Len(handled) < i - 1
  BY <1>1, SMT DEF Unhandled, Frames
<1>4. ends[i] \in 1..MaxBytes /\ waited[i] \in Nat
  BY <1>3, ElementOfSeq, Zenon DEF IInv, TypeOK
<1>5. EndOf(i - 1) + minCommandLength < ends[i] /\ EndOf(k) = ends[k]
  BY <1>3, Zenon DEF IInv, Layout, EndOf
<1>6. EndOf(Len(handled)) + minCommandLength < ends[i]
  <2>1. /\ EndOf(i - 1) \in 0..MaxBytes
        /\ i - 1 = Len(handled) \/ EndOf(Len(handled)) < EndOf(i - 1)
    BY <1>1, <1>3, EndsAscend, Zenon DEF IInv
  <2> QED
    BY <1>2, <1>4, <1>5, <2>1, ReceiverAssumption, SMT
<1>7. i # k => ends[k] + minCommandLength < ends[i]
  <2>1. /\ EndOf(i - 1) \in 0..MaxBytes /\ EndOf(k) \in 0..MaxBytes
        /\ i = k \/ i - 1 = k \/ EndOf(k) < EndOf(i - 1)
    BY <1>1, <1>3, EndsAscend, Zenon DEF IInv
  <2> QED
    BY <1>4, <1>5, <2>1, ReceiverAssumption, SMT
<1> QED
  BY <1>3, <1>4, <1>6, <1>7

(* With a text begun, its end is what is missing of it beyond the position *)
(* of the socket.                                                          *)
LEMMA BegunText ==
  ASSUME IInv, phase # "handler", have > 0
  PROVE  LET k == Len(handled) + 1
         IN  /\ k \in Unhandled
             /\ ends[k] = pos + (need - have)
             /\ ends[k] - arrived = (need - have) - bytesAvailable
             /\ need \in Nat /\ have \in Nat /\ pos \in Nat /\ arrived \in Nat
<1> DEFINE k == Len(handled) + 1
<1>1. /\ Len(handled) < Len(ends) /\ need = Body(k)
      /\ pos = EndOf(Len(handled)) + minCommandLength + have
  BY Zenon DEF IInv, Aligned
<1>2. k \in Unhandled /\ k - 1 = Len(handled)
  BY <1>1, UnhandledEnds, SMT DEF Unhandled, Frames
<1>3. need = ends[k] - EndOf(Len(handled)) - minCommandLength
  BY <1>1, <1>2, Zenon DEF Body
<1>4. /\ need \in Nat /\ have \in Nat /\ pos \in Nat /\ arrived \in Nat
      /\ minCommandLength \in Nat
  BY ReceiverAssumption, SMT DEF IInv, TypeOK
<1>5. ends[k] \in 1..MaxBytes /\ EndOf(Len(handled)) \in 0..MaxBytes
  BY <1>2, UnhandledEnds, Zenon
<1>6. MaxBytes \in Nat
  BY ReceiverAssumption
<1> DEFINE begin == EndOf(Len(handled))
           end == ends[k]
<1>7. /\ begin \in 0..MaxBytes /\ end \in 1..MaxBytes
      /\ need = end - begin - minCommandLength
      /\ pos = begin + minCommandLength + have
  BY <1>1, <1>3, <1>5, Zenon
<1> HIDE DEF begin, end
<1>8. /\ end = pos + (need - have)
      /\ end - arrived = (need - have) - bytesAvailable
  BY <1>4, <1>6, <1>7, SMT DEF bytesAvailable
<1> QED
  BY <1>2, <1>4, <1>8 DEF end

(* A frame that is written has not arrived, and counts nothing.            *)
LEMMA WriteWaits ==
  ASSUME IInv, Waiting, NEW n \in 1..MaxBody, Write(n)
  PROVE  Waiting'
<1> DEFINE m == Len(ends) + 1
           k == Len(handled) + 1
<1>1. UNCHANGED <<phase, resume, arrived, pos, have, need, handled>>
  BY DEF Write, sock
<1>2. /\ Len(ends) \in Nat /\ Len(handled) \in Nat /\ arrived \in Nat
      /\ Frames' = Frames \union {m} /\ m \notin Frames
  BY AppendedFrame, SMT DEF IInv, TypeOK, Frames
<1>3. /\ \A i \in Frames : ends'[i] = ends[i]
      /\ ends'[m] > arrived
  <2>1. EndOf(Len(ends)) \in 0..MaxBytes /\ arrived <= EndOf(Len(ends))
    BY <1>2, EndsAscend, SMT DEF IInv, Layout
  <2>2. ends'[m] = EndOf(Len(ends)) + minCommandLength + n
    BY AppendedFrame DEF IInv
  <2> QED
    BY <1>2, <2>1, <2>2, AppendedFrame, ReceiverAssumption, SMT DEF IInv
<1>4. (\A i \in Frames : waited'[i] = waited[i]) /\ waited'[m] = 0
  <2>1. /\ waited' = Append(waited, 0) /\ waited \in Seq(Nat)
        /\ Len(waited) = Len(ends)
    BY Zenon DEF Write, IInv, TypeOK
  <2> QED
    BY <2>1, SMT DEF Frames
<1>5. \A i \in Unhandled' : i \in Unhandled \/ i = m
  BY <1>1, <1>2, Zenon DEF Unhandled
<1>6. \A i \in Unhandled : i \in Frames
  BY Zenon DEF Unhandled
<1>7. CountsFromEnd'
  <2> SUFFICES ASSUME NEW i \in Frames', arrived' < ends'[i]
               PROVE  waited'[i] = 0
    BY Zenon DEF CountsFromEnd
  <2>1. CASE i \in Frames
    BY <1>1, <1>3, <1>4, <2>1, Zenon DEF Waiting, CountsFromEnd
  <2>2. CASE i = m
    BY <1>4, <2>2
  <2> QED
    BY <1>2, <2>1, <2>2, Zenon
<1>8. LeftBegun'
  BY <1>1, Zenon DEF Waiting, LeftBegun, bytesAvailable
<1>9. BegunWaits'
  <2> SUFFICES ASSUME phase \in {"idle", "loop"}, have > 0, ends'[k] <= arrived
               PROVE  waited'[k] < bytesAvailable
    BY <1>1, Zenon DEF BegunWaits, bytesAvailable
  <2>1. k \in Frames
    BY BegunText, <1>6, SMT
  <2> QED
    BY <1>3, <1>4, <2>1, Zenon DEF Waiting, BegunWaits
<1>10. NoneWaits'
  <2> SUFFICES ASSUME ReadEnded, NEW i \in Unhandled' PROVE waited'[i] = 0
    BY <1>1, Zenon DEF NoneWaits, ReadEnded
  <2> QED
    BY <1>4, <1>5, <1>6, Zenon DEF Waiting, NoneWaits
<1>11. NoneBehind'
  <2> SUFFICES ASSUME phase = "loop", have > 0, NEW i \in Unhandled', i # k
               PROVE  waited'[i] = 0
    BY <1>1, Zenon DEF NoneBehind
  <2> QED
    BY <1>4, <1>5, <1>6, Zenon DEF Waiting, NoneBehind
<1> QED
  BY <1>7, <1>8, <1>9, <1>10, <1>11 DEF Waiting

(* More bytes: the text begun counts one more readyRead; what lies behind  *)
(* it was not complete.                                                    *)
LEMMA ArriveWaits ==
  ASSUME IInv, Waiting, NEW n \in 1..MaxBytes, Arrive(n)
  PROVE  Waiting'
<1> DEFINE k == Len(handled) + 1
<1>1. /\ UNCHANGED <<resume, pos, have, need, ends, handled>>
      /\ arrived' = arrived + n /\ Frames' = Frames /\ Unhandled' = Unhandled
  BY Zenon DEF Arrive, Frames, Unhandled
<1>2. /\ arrived \in Nat /\ n \in Nat \ {0} /\ pos \in 0..arrived
      /\ minCommandLength \in Nat \ {0}
      /\ \A i \in Unhandled : i \in Frames
  BY ReceiverAssumption, SMT DEF IInv, TypeOK, Unhandled
<1>3. \A i \in Frames : ends[i] \in Nat /\ waited[i] \in Nat
  <2>1. \A i \in Frames : ends[i] \in 1..MaxBytes /\ waited[i] \in Nat
    BY ElementOfSeq, Zenon DEF IInv, TypeOK, Frames
  <2> QED
    BY <2>1, ReceiverAssumption, SMT
<1>4. CASE phase = "handler"
  <2>1. phase' = phase /\ waited' = waited
    BY <1>4, SMT DEF Arrive
  <2>2. CountsFromEnd'
    BY <1>1, <1>2, <1>3, <2>1, SMT DEF Waiting, CountsFromEnd
  <2>3. NoneWaits'
    BY <1>1, <2>1, Zenon DEF Waiting, NoneWaits, ReadEnded
  <2>4. LeftBegun' /\ BegunWaits' /\ NoneBehind'
    BY <1>4, <2>1, SMT DEF LeftBegun, BegunWaits, NoneBehind
  <2> QED
    BY <2>2, <2>3, <2>4 DEF Waiting
<1>5. CASE phase = "idle"
  <2>1. /\ phase' = "loop"
        /\ waited' = [i \in Frames |-> IF Waits(i) THEN waited[i] + 1
                                                    ELSE waited[i]]
    BY <1>5, Zenon DEF Arrive
  <2>2. CountsFromEnd'
    <3> SUFFICES ASSUME NEW i \in Frames, arrived + n < ends[i]
                 PROVE  waited'[i] = 0
      BY <1>1, Zenon DEF CountsFromEnd
    <3>1. arrived < ends[i] /\ ~(ends[i] <= arrived)
      BY <1>2, <1>3, SMT
    <3> QED
      BY <2>1, <3>1, Zenon DEF Waits, Complete, Waiting, CountsFromEnd
  <2>3. LeftBegun' /\ NoneWaits'
    BY <2>1, SMT DEF LeftBegun, NoneWaits, ReadEnded
  <2>4. BegunWaits'
    <3>0. bytesAvailable' = arrived + n - pos
      BY <1>1, <1>2, SMT DEF bytesAvailable
    <3> SUFFICES ASSUME have > 0, ends[k] <= arrived + n
                 PROVE  waited'[k] < arrived + n - pos
      BY <1>1, <2>1, <3>0, Zenon DEF BegunWaits
    <3>1. k \in Frames
      BY BegunText, <1>2, <1>5, SMT
    <3>2. CASE ends[k] <= arrived
      <4>1. waited[k] < arrived - pos
        BY <1>5, <3>2, Zenon DEF Waiting, BegunWaits, bytesAvailable
      <4>2. waited'[k] = waited[k] + 1 \/ waited'[k] = waited[k]
        BY <2>1, <3>1, Zenon
      <4> QED
        BY <1>2, <1>3, <3>1, <4>1, <4>2, SMT
    <3>3. CASE arrived < ends[k]
      <4>1. waited[k] = 0 /\ ~(ends[k] <= arrived)
        BY <1>2, <1>3, <3>1, <3>3, SMT DEF Waiting, CountsFromEnd
      <4>2. waited'[k] = 0
        BY <2>1, <3>1, <4>1, Zenon DEF Waits, Complete
      <4> QED
        BY <1>2, <4>2, SMT
    <3> QED
      BY <1>2, <1>3, <3>1, <3>2, <3>3, SMT
  <2>5. NoneBehind'
    <3> SUFFICES ASSUME have > 0, NEW i \in Unhandled, i # k
                 PROVE  waited'[i] = 0
      BY <1>1, Zenon DEF NoneBehind
    <3>1. i \in Frames /\ k \in Frames
      BY BegunText, <1>2, <1>5, SMT
    <3>2. ends[k] + minCommandLength < ends[i]
      BY UnhandledEnds, Zenon
    <3>3. arrived < ends[i]
      <4>1. ends[k] - arrived = (need - have) - bytesAvailable
        BY BegunText, <1>5, SMT
      <4>2. /\ bytesAvailable = arrived - pos
            /\ need \in Nat /\ have \in Nat /\ pos \in Nat
        BY SMT DEF IInv, TypeOK, bytesAvailable
      <4>3. bytesAvailable <= minCommandLength \/ need - have > bytesAvailable
        BY <1>5 DEF Waiting, LeftBegun
      <4>4. ends[k] = pos + (need - have) /\ have < need
        BY BegunText, <1>5, SMT DEF IInv, TypeOK
      <4> QED
        BY <1>2, <1>3, <3>1, <3>2, <4>2, <4>3, <4>4, SMT
    <3> QED
      BY <1>2, <1>3, <2>1, <3>1, <3>3, SMT
         DEF Waits, Complete, Waiting, CountsFromEnd
  <2> QED
    BY <2>2, <2>3, <2>4, <2>5 DEF Waiting
<1> QED
  BY <1>4, <1>5, SMT DEF Arrive

(* read() takes no notice of a frame that is not complete, and leaves the  *)
(* loop with one complete only behind a text begun.                        *)
LEMMA LeaveWaits ==
  ASSUME IInv, Waiting, LeaveLoop
  PROVE  Waiting'
<1> DEFINE k == Len(handled) + 1
<1>1. /\ UNCHANGED <<arrived, pos, have, need, ends, handled, waited>>
      /\ Frames' = Frames /\ Unhandled' = Unhandled
      /\ bytesAvailable' = bytesAvailable
      /\ phase = "loop" /\ phase' = "idle"
  BY Zenon DEF LeaveLoop, sock, peer, Frames, Unhandled, bytesAvailable
<1>2. /\ arrived \in Nat /\ pos \in 0..arrived /\ have \in Nat
      /\ minCommandLength \in Nat /\ bytesAvailable \in Nat
  BY ReceiverAssumption, SMT DEF IInv, TypeOK, bytesAvailable
<1>3. CountsFromEnd' /\ BegunWaits' /\ NoneBehind'
  BY <1>1, SMT DEF Waiting, CountsFromEnd, BegunWaits, NoneBehind
<1>4. LeftBegun'
  BY <1>1, <1>2, SMT DEF LeftBegun, LeaveLoop, Enough
<1>5. NoneWaits'
  <2> SUFFICES ASSUME have = 0, NEW i \in Unhandled PROVE waited[i] = 0
    BY <1>1, SMT DEF NoneWaits, ReadEnded
  <2>1. /\ ends[i] \in 1..MaxBytes /\ EndOf(Len(handled)) \in 0..MaxBytes
        /\ EndOf(Len(handled)) + minCommandLength < ends[i]
        /\ i \in Frames
    BY UnhandledEnds, Zenon DEF Unhandled
  <2>2. pos = EndOf(Len(handled))
    BY <1>1 DEF IInv, Aligned
  <2>3. arrived < ends[i]
    BY <1>2, <2>1, <2>2, ReceiverAssumption, SMT
       DEF LeaveLoop, Enough, bytesAvailable
  <2> QED
    BY <2>1, <2>3 DEF Waiting, CountsFromEnd
<1> QED
  BY <1>3, <1>4, <1>5 DEF Waiting

(* The text begun is handled; what lies behind it has not waited.          *)
LEMMA FinishWaits ==
  ASSUME IInv, Waiting, FinishFrame
  PROVE  Waiting'
<1>1. /\ UNCHANGED <<arrived, ends, waited>> /\ Frames' = Frames
      /\ phase = "loop" /\ phase' = "handler" /\ have > 0
      /\ Len(handled') = Len(handled) + 1 /\ Len(handled) \in Nat
  BY FinishedFrame, Zenon DEF FinishFrame, Handle, sock, peer, Frames
<1>2. CountsFromEnd' /\ LeftBegun' /\ BegunWaits' /\ NoneBehind'
  BY <1>1, SMT DEF Waiting, CountsFromEnd, LeftBegun, BegunWaits, NoneBehind
<1>3. \A i \in Unhandled' : i \in Unhandled /\ i # Len(handled) + 1
  BY <1>1, SMT DEF Unhandled, Frames
<1>4. NoneWaits'
  BY <1>1, <1>3, Zenon DEF Waiting, NoneWaits, NoneBehind
<1> QED
  BY <1>2, <1>4 DEF Waiting

(* A frame that is begun took all that had arrived.                        *)
LEMMA TakeWaits ==
  ASSUME IInv, Waiting, TakeFrame
  PROVE  Waiting'
<1> DEFINE k == Len(handled) + 1
<1>1. /\ UNCHANGED <<arrived, ends, waited>> /\ Frames' = Frames
      /\ phase = "loop" /\ have = 0
  BY Zenon DEF TakeFrame, sock, peer, Frames
<1>2. CountsFromEnd'
  BY <1>1, Zenon DEF Waiting, CountsFromEnd
<1>3. CASE have' = need'
  <2>1. phase' = "handler" /\ resume' = "loop"
    BY <1>3, TakenFrame, Zenon
  <2> QED
    BY <1>2, <2>1, SMT
       DEF Waiting, LeftBegun, BegunWaits, NoneWaits, NoneBehind, ReadEnded
<1>4. CASE have' # need'
  <2>1. phase' = "loop" /\ UNCHANGED handled
    BY <1>1, <1>4, TakenFrame, Zenon
  <2>2. arrived = pos'
    BY <1>4, ReceiverAssumption, SMT DEF TakeFrame, bytesAvailable, IInv, TypeOK
  <2>3. k \in Unhandled /\ arrived < ends[k] /\ ends[k] \in Nat
    <3>1. /\ k \in Frames /\ have' \in 1..need' /\ need' \in Nat
          /\ need' = Body(k) /\ pos' = EndOf(k - 1) + minCommandLength + have'
      BY TakenFrame, SMT
    <3>2. k \in Unhandled /\ k - 1 = Len(handled)
      BY <3>1, SMT DEF Unhandled, IInv, TypeOK
    <3>3. /\ ends[k] \in 1..MaxBytes /\ EndOf(k - 1) \in 0..MaxBytes
          /\ need' = ends[k] - EndOf(k - 1) - minCommandLength
      BY <3>1, <3>2, UnhandledEnds, Zenon DEF Body
    <3>4. /\ EndOf(k - 1) \in Nat /\ ends[k] \in Nat /\ need' \in Nat
          /\ pos' \in Nat /\ have' \in Nat /\ have' < need'
          /\ minCommandLength \in Nat
      BY <1>4, <2>2, <3>1, <3>3, ReceiverAssumption, SMT DEF IInv, TypeOK
    <3>5. pos' < ends[k]
      <4>1. PICK part \in Nat, length \in Nat, at \in Nat :
              part = have' /\ length = need' /\ at = pos'
        BY <3>4, Zenon
      <4> DEFINE begin == EndOf(k - 1)
                 end == ends[k]
      <4>2. /\ begin \in Nat /\ end \in Nat /\ part < length
            /\ length = end - begin - minCommandLength
            /\ at = begin + minCommandLength + part
        BY <3>1, <3>3, <3>4, <4>1, Zenon
      <4> HIDE DEF begin, end
      <4>3. at < end
        BY <3>4, <4>2, SMT
      <4> QED
        BY <4>1, <4>3, Zenon DEF end
    <3> QED
      BY <2>2, <3>2, <3>4, <3>5, Zenon
  <2>4. BegunWaits'
    <3>1. ~(ends[k] <= arrived)
      BY <2>3, SMT DEF IInv, TypeOK
    <3> QED
      BY <1>1, <2>1, <3>1, Zenon DEF BegunWaits
  <2>5. NoneBehind'
    <3> SUFFICES ASSUME NEW i \in Unhandled, i # k PROVE waited[i] = 0
      BY <1>1, <2>1, Zenon DEF NoneBehind, Unhandled
    <3>1. /\ ends[k] + minCommandLength < ends[i] /\ ends[i] \in 1..MaxBytes
          /\ i \in Frames
      BY UnhandledEnds, Zenon DEF Unhandled
    <3>2. arrived < ends[i]
      BY <2>3, <3>1, ReceiverAssumption, SMT DEF IInv, TypeOK
    <3> QED
      BY <3>1, <3>2 DEF Waiting, CountsFromEnd
  <2> QED
    BY <1>2, <2>1, <2>4, <2>5, SMT
       DEF Waiting, LeftBegun, NoneWaits, ReadEnded
<1> QED
  BY <1>3, <1>4

(* After a handler, streamData is empty.                                   *)
LEMMA ReturnWaits ==
  ASSUME IInv, Waiting, HandlerReturns
  PROVE  Waiting'
<1>1. /\ UNCHANGED <<arrived, pos, ends, handled, waited, resume>>
      /\ Frames' = Frames /\ Unhandled' = Unhandled
      /\ phase = "handler" /\ have' = 0
      /\ phase' = "idle" => resume = "idle"
      /\ phase' # "handler"
  BY SMT DEF HandlerReturns, sock, peer, Frames, Unhandled, IInv, TypeOK
<1>2. CountsFromEnd' /\ NoneWaits'
  BY <1>1, Zenon DEF Waiting, CountsFromEnd, NoneWaits, ReadEnded
<1>3. LeftBegun' /\ BegunWaits' /\ NoneBehind'
  BY <1>1, SMT DEF LeftBegun, BegunWaits, NoneBehind
<1> QED
  BY <1>2, <1>3 DEF Waiting

(* Waiting is preserved by every step.                                     *)
LEMMA WaitingKept == IInv /\ Waiting /\ [Next]_vars => Waiting'
<1> SUFFICES ASSUME IInv, Waiting, [Next]_vars PROVE Waiting'
  OBVIOUS
<1>1. ASSUME UNCHANGED <<phase, resume, arrived, pos, have, need, handled, peer>>
      PROVE  Waiting'
  BY <1>1, Zenon
     DEF Waiting, CountsFromEnd, LeftBegun, BegunWaits, NoneWaits, NoneBehind,
         ReadEnded, Unhandled, Frames, bytesAvailable, peer
<1>2. CASE Disconnect \/ UNCHANGED vars
  BY <1>1, <1>2, Zenon DEF Disconnect, vars, sock
<1> QED
  BY <1>2, WriteWaits, ArriveWaits, LeaveWaits, FinishWaits, TakeWaits,
     ReturnWaits
     DEF Next, Read

(* A command that lies unhandled while read() is not running has waited    *)
(* for less than four readyReads: it is the text begun, complete, and what *)
(* is in the socket is too short for the loop.                             *)
THEOREM LagIsBounded == Spec => []LagBounded
<1>1. Init => Waiting
  BY SMT DEF Init, Waiting, CountsFromEnd, LeftBegun, BegunWaits, NoneWaits,
             NoneBehind, Unhandled, Frames
<1>2. IInv /\ Waiting => LagBounded
  <2> SUFFICES ASSUME IInv, Waiting, phase = "idle", NEW i \in Frames, Waits(i)
               PROVE  waited[i] < minCommandLength
    BY Zenon DEF LagBounded
  <2> DEFINE k == Len(handled) + 1
  <2>1. i \in Unhandled /\ ends[i] <= arrived
    BY Zenon DEF Waits, Complete, Unhandled
  <2>2. CASE have = 0
    BY <2>1, <2>2, ReceiverAssumption, SMT DEF Waiting, NoneWaits, ReadEnded
  <2>3. CASE have > 0
    <3>1. /\ need \in Nat /\ have \in Nat /\ pos \in Nat /\ arrived \in Nat
          /\ minCommandLength \in Nat \ {0} /\ bytesAvailable = arrived - pos
          /\ ends[i] \in 1..MaxBytes /\ MaxBytes \in Nat
      BY <2>1, UnhandledEnds, ReceiverAssumption, SMT
         DEF IInv, TypeOK, bytesAvailable
    <3>2. ends[k] = pos + (need - have) /\ k \in Unhandled
      BY <2>3, BegunText, SMT
    <3>3. bytesAvailable <= minCommandLength \/ need - have > bytesAvailable
      BY <2>3 DEF Waiting, LeftBegun
    <3>4. CASE i = k
      <4>1. waited[k] < bytesAvailable /\ waited[k] \in Nat
        BY <2>1, <2>3, <3>2, <3>4, UnhandledEnds, Zenon DEF Waiting, BegunWaits
      <4> QED
        BY <2>1, <3>1, <3>2, <3>3, <3>4, <4>1, SMT
    <3>5. CASE i # k
      <4>1. ends[k] + minCommandLength < ends[i]
        BY <2>1, <3>5, UnhandledEnds, Zenon
      <4>2. have < need
        BY <2>3, SMT DEF IInv, TypeOK
      <4> QED
        BY <2>1, <3>1, <3>2, <3>3, <4>1, <4>2, SMT
    <3> QED
      BY <3>4, <3>5
  <2> QED
    BY <2>2, <2>3, SMT DEF IInv, TypeOK
<1> QED
  BY <1>1, <1>2, WaitingKept, Inductive, PTL DEF Spec

=============================================================================
