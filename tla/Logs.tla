-------------------------------- MODULE Logs --------------------------------
(***************************************************************************)
(* What comes from the device: the socket it comes through, and the two    *)
(* pages of webadb that list it, each with its selection: the log of the   *)
(* device and the log of the packets.  A behaviour looks at one of them,   *)
(* or at the menu of formats.                                              *)
(***************************************************************************)
EXTENDS LogcatPage

CONSTANTS MaxPackets, RowHeight, BodyHeight, NearEnd
ASSUME LogsAssumption ==
    /\ {MaxStarts, MaxEntries, MaxPackets} \subseteq Nat
    /\ {RowHeight, BodyHeight} \subseteq Nat \ {0}

VARIABLES aspect, packets, transport

logsVars == <<aspect, globalVars, log, packets, transport>>

Traffic == INSTANCE PacketLog
Socket == INSTANCE Transport

LogsInit ==
    /\ aspect \in {"logcat", "format", "packets", "transport"}
    /\ GlobalInit
    /\ LogInit
    /\ Traffic!PacketInit
    /\ Socket!TransportInit

LogsNext ==
    /\ UNCHANGED aspect
    /\ \/ aspect = "logcat" /\ LogStep /\ UNCHANGED <<packets, transport>>
       \/ aspect = "format" /\ FormatStep /\ UNCHANGED <<packets, transport>>
       \/ aspect = "packets" /\ Traffic!PacketStep /\ UNCHANGED <<log, transport>>
       \/ aspect = "transport" /\ Socket!TransportStep /\ UNCHANGED <<globalVars, log, packets>>

LogsSpec == LogsInit /\ [][LogsNext]_logsVars

---------------------------------------------------------------------------
(* Properties                                                              *)

\* The type invariant of both pages and of the socket.
LogsTypeOK ==
    /\ SlotTypeOK /\ GlobalTypeOK /\ LogTypeOK
    /\ Traffic!PacketTypeOK /\ Socket!TransportTypeOK

\* What is on the screen is what there is: the rows are rows of the list, they
\* are shown selected when they are, the selected packets exist, and none is
\* lost between the socket and the library that lists it.
RowsSound ==
    /\ SelectionShown(log.selection) /\ SelectionShown(packets.selection)
    /\ Traffic!PacketsSelected
    /\ Traffic!View!RowsExist(packets.grid, packets.logs)
    /\ Socket!StreamsFollowSocket
=============================================================================
