---------------------------- MODULE SshLifecycle ----------------------------
(***************************************************************************)
(* What an SshConnection promises to the code that uses it: the public     *)
(* state (Unconnected, Connecting, Connected) and the signals posted to    *)
(* its user since the last connectToHost().                                *)
(*                                                                         *)
(*  - an attempt starts only when the user asks for it, and only when      *)
(*    unconnected;                                                         *)
(*  - connected is reported exactly when Connecting becomes Connected;     *)
(*  - the end of an attempt or of a session is reported once: error if     *)
(*    there was one, followed by disconnected if the session had been      *)
(*    established;                                                         *)
(*  - the ssh-agent may report an error at any time on top of this, once   *)
(*    for every slot the connection has left attached to it.               *)
(***************************************************************************)
EXTENDS Naturals, Sequences

CONSTANT MaxAgentSlots   \* bound on attached agent slots (see SshConnection)

VARIABLES mode,          \* SshConnection::State as the user reads it
          reports        \* signals posted since the last connectToHost()

lifecycleVars == <<mode, reports>>

Modes   == {"Unconnected", "Connecting", "Connected"}
Signals == {"connected", "disconnected", "error"}

Init ==
  /\ mode = "Unconnected"
  /\ reports = <<>>

(* connectToHost(): a fresh attempt, or one refused on the spot *)
Begin ==
  /\ mode = "Unconnected"
  /\ \/ mode' = "Connecting" /\ reports' = <<>>
     \/ mode' = "Unconnected" /\ reports' \in {<<>>, <<"error">>}

Establish ==
  /\ mode = "Connecting"
  /\ mode' = "Connected"
  /\ reports' = Append(reports, "connected")

(* the end of an attempt is silent only when the user asked for it *)
EndAttempt ==
  /\ mode = "Connecting"
  /\ mode' = "Unconnected"
  /\ reports' \in {reports, Append(reports, "error")}

EndSession ==
  /\ mode = "Connected"
  /\ mode' = "Unconnected"
  /\ \/ reports' = Append(reports, "disconnected")
     \/ reports' = Append(Append(reports, "error"), "disconnected")

AgentError ==
  /\ UNCHANGED mode
  /\ \E n \in 1..MaxAgentSlots :
       reports' = reports \o [i \in 1..n |-> "error"]

Next == Begin \/ Establish \/ EndAttempt \/ EndSession \/ AgentError

Spec == Init /\ [][Next]_lifecycleVars
=============================================================================
