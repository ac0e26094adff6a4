--------------------------- MODULE TcpDataReceiver --------------------------
(***************************************************************************)
(* The framing of the commands that SimulatorManager, AndroidDeviceManager *)
(* and WizardService receive, each with its copy of TcpDataReceiver: a     *)
(* length in four bytes, then a JSON text of that length. The peer writes  *)
(* frames, TCP cuts the stream anywhere, read() runs once per readyRead.   *)
(* A handler may run an event loop of its own (LinuxSimulator waits for an *)
(* SSH connection in one): more bytes then arrive, for which QTcpSocket    *)
(* emits no nested readyRead, and the peer may disconnect.                 *)
(* Bytes are counted, and identified by their position in the stream.      *)
(***************************************************************************)
EXTENDS Naturals, Sequences

CONSTANTS
  minCommandLength, \* the size of the length that precedes a text: 4
  MaxBody,        \* bound: the longest text
  MaxBytes        \* bound: bytes of the stream

ASSUME ReceiverAssumption ==
  minCommandLength \in Nat \ {0} /\ MaxBody \in Nat \ {0} /\ MaxBytes \in Nat

VARIABLES
  phase,          \* "idle"; "loop" and "handler": in read(); "crashed"
  resume,         \* what follows the handler: the "loop", or "idle": return
  socket,         \* s is not null
  arrived,        \* bytes the socket has received
  pos,            \* bytes read from the socket
  have,           \* length of streamData
  need            \* streamDataLength

VARIABLES         \* history
  ends,           \* where each frame that was written ends
  handled,        \* first and last byte of each text passed to handle()
  waited          \* readyReads since each frame was complete

sock == <<socket, arrived>>
peer == <<ends, waited>>
vars == <<phase, resume, sock, pos, have, need, handled, peer>>

Frames == 1..Len(ends)
EndOf(i) == IF i = 0 THEN 0 ELSE ends[i]
Body(i) == ends[i] - EndOf(i - 1) - minCommandLength
Complete(i) == i \in Frames /\ ends[i] <= arrived

bytesAvailable == arrived - pos

Init ==
  /\ phase = "idle" /\ resume = "idle"
  /\ socket = TRUE /\ arrived = 0
  /\ pos = 0 /\ have = 0 /\ need = 0
  /\ ends = <<>> /\ handled = <<>> /\ waited = <<>>

-----------------------------------------------------------------------------
(* The peer and the network                                                *)

Write(n) ==
  /\ EndOf(Len(ends)) + minCommandLength + n <= MaxBytes
  /\ ends' = Append(ends, EndOf(Len(ends)) + minCommandLength + n)
  /\ waited' = Append(waited, 0)
  /\ UNCHANGED <<phase, resume, sock, pos, have, need, handled>>

Waits(i) == Complete(i) /\ i > Len(handled)

(* Bytes arrive; outside read(), readyRead is emitted. *)
Arrive(n) ==
  /\ socket /\ phase \in {"idle", "handler"}
  /\ arrived + n <= EndOf(Len(ends))
  /\ arrived' = arrived + n
  /\ IF phase = "idle"
       THEN /\ phase' = "loop"
            /\ waited' = [i \in Frames |-> IF Waits(i) THEN waited[i] + 1
                                                       ELSE waited[i]]
       ELSE UNCHANGED <<phase, waited>>
  /\ UNCHANGED <<resume, socket, pos, have, need, ends, handled>>

Disconnect ==
  /\ socket /\ phase \in {"idle", "handler"}
  /\ socket' = FALSE
  /\ UNCHANGED <<phase, resume, arrived, pos, have, need, handled, peer>>

-----------------------------------------------------------------------------
(* read()                                                                  *)

(* Variants of Enough: a length without a text is read; or the text is     *)
(* waited for twice as long.                                               *)
EnoughForHead == bytesAvailable >= minCommandLength
EnoughForTwo  == bytesAvailable > 2 * minCommandLength

(* The condition of the loop *)
Enough == bytesAvailable > minCommandLength

LeaveLoop ==
  /\ phase = "loop"
  /\ \/ ~Enough
     \/ have > 0 /\ need - have > bytesAvailable
  /\ phase' = "idle"
  /\ UNCHANGED <<resume, sock, pos, have, need, handled, peer>>

(* handle(streamData), with the bytes up to last *)
Handle(length, last) ==
  /\ handled' = Append(handled, <<last - length + 1, last>>)
  /\ phase' = "handler"

(* The rest of a frame: read() returns afterwards. *)
FinishFrame ==
  /\ phase = "loop" /\ Enough
  /\ have > 0 /\ need - have <= bytesAvailable
  /\ pos' = pos + (need - have)
  /\ have' = need
  /\ Handle(need, pos + (need - have))
  /\ resume' = "idle"
  /\ UNCHANGED <<sock, need, peer>>

(* What four bytes at p say: anything, unless they begin a frame. *)
Length(p) ==
  IF \E i \in Frames : p = EndOf(i - 1)
    THEN {Body(i) : i \in {j \in Frames : p = EndOf(j - 1)}}
    ELSE 0..MaxBody

(* A length, and of its text what is there *)
TakeFrame ==
  /\ phase = "loop" /\ Enough
  /\ have = 0
  /\ \E n \in Length(pos) :
       LET rest == bytesAvailable - minCommandLength
           text == IF n <= rest THEN n ELSE rest
       IN  /\ need' = n
           /\ have' = text
           /\ pos' = pos + minCommandLength + text
           /\ IF text = n
                THEN Handle(n, pos + minCommandLength + n) /\ resume' = "loop"
                ELSE UNCHANGED <<handled, phase, resume>>
  /\ UNCHANGED <<sock, peer>>

(* Variant of HandlerReturns: streamDataLength is reset, streamData not. *)
HandlerReturnsDirty ==
  /\ phase = "handler"
  /\ need' = 0
  /\ phase' = IF resume = "loop" /\ ~socket THEN "crashed" ELSE resume
  /\ UNCHANGED <<resume, sock, pos, have, handled, peer>>

(* If the peer has gone meanwhile, the loop asks a null socket for bytes. *)
HandlerReturns ==
  /\ phase = "handler"
  /\ have' = 0 /\ need' = 0
  /\ phase' = IF resume = "loop" /\ ~socket THEN "crashed" ELSE resume
  /\ UNCHANGED <<resume, sock, pos, handled, peer>>

Read == LeaveLoop \/ FinishFrame \/ TakeFrame

Next ==
  \/ \E n \in 1..MaxBody : Write(n)
  \/ \E n \in 1..MaxBytes : Arrive(n)
  \/ Disconnect
  \/ Read \/ HandlerReturns

(* read() and the handlers finish. The peer may stop at any time. *)
Spec == Init /\ [][Next]_vars /\ WF_vars(Read) /\ WF_vars(HandlerReturns)

-----------------------------------------------------------------------------
(* Properties                                                              *)

(* Types of all variables; what is kept of a text is shorter than it, but  *)
(* while it is handled.                                                    *)
TypeOK ==
  /\ phase \in {"idle", "loop", "handler", "crashed"}
  /\ resume \in {"idle", "loop"} /\ socket \in BOOLEAN
  /\ arrived \in 0..MaxBytes /\ pos \in 0..arrived
  /\ need \in 0..MaxBody /\ have \in 0..need
  /\ IF phase = "handler" THEN have = need
                          ELSE have = 0 \/ have < need
  /\ ends \in Seq(1..MaxBytes)
  /\ handled \in Seq((1..MaxBytes) \X (0..MaxBytes))
  /\ waited \in Seq(Nat) /\ Len(waited) = Len(ends)

(* However the stream is cut, handle() gets the texts that were written:   *)
(* each once, complete and in order. A length is never looked for in the   *)
(* middle of a frame.                                                      *)
HandledInOrder ==
  /\ Len(handled) <= Len(ends)
  /\ \A i \in 1..Len(handled) :
       handled[i] = <<EndOf(i - 1) + minCommandLength + 1, ends[i]>>

(* How long a complete command may lie unhandled: read() returns after the *)
(* rest of a frame, and does not look at four bytes or less, but at the    *)
(* latest the fourth arrival of more bytes gets the command handled.       *)
LagBounded ==
  phase = "idle" /\ socket =>
    \A i \in Frames : Waits(i) => waited[i] < minCommandLength

(* "When there is a message of type \a type, this method will be called":  *)
(* a command that has arrived completely is handled, unless the peer       *)
(* disconnects. It fails: if no more bytes arrive, a command whose last    *)
(* bytes came in a segment of up to four, or behind the rest of another    *)
(* command, is never handled.                                              *)
EveryCommandHandled ==
  \A i \in 1..(MaxBytes \div (minCommandLength + 1)) :
    Complete(i) ~> (Len(handled) >= i \/ ~socket)
=============================================================================
