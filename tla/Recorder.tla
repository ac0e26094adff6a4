------------------------------ MODULE Recorder ------------------------------
(***************************************************************************)
(* components/scrcpy/recorder.ts: the screen is recorded into a file from  *)
(* the packets of the device's video and audio streams.  A recording may   *)
(* start at any packet, but must begin with a keyframe: the recorder keeps *)
(* the packets since the last one and replays them when it starts.         *)
(*                                                                         *)
(* A configuration (the parameter sets of the codec) is a number, a packet *)
(* its kind, a file what a player needs to know of it; the bytes of the    *)
(* packets, their conversion and the name of the file are left out.        *)
(***************************************************************************)
EXTENDS Naturals, SequencesExt

CONSTANTS
    MaxConfigs,   \* bound: configurations that one stream sends
    MaxBuffer,    \* bound: packets kept since the last keyframe
    MaxHours,     \* bound on the length of a recording
    Sixty         \* seconds of a minute, minutes of an hour (60 in the code)
ASSUME RecorderAssumption ==
    Sixty \in Nat \ {0} /\ {MaxConfigs, MaxBuffer, MaxHours} \subseteq Nat

VARIABLES
    recorder,     \* RECORD_STATE.recorder
    recording,    \* RECORD_STATE.recording
    clock         \* RECORD_STATE.hours, minutes and seconds

recordVars == <<recorder, recording, clock>>

\* "early" is an audio packet from before the first video packet of the file.
Audio == {"audio", "early"}
Packets == {"key", "delta"} \cup Audio

NoMuxer == [on |-> FALSE, first |-> "none", config |-> 0]
NewMuxer == [NoMuxer EXCEPT !.on = TRUE]

\* config: the configuration the last video chunk of the file is read with;
\* begun: _firstTimestamp is set; written: configurationWritten; mixed is
\* history: something came of another server than the one it was made for.
NewRecorder ==
    [metadata |-> FALSE, audioCodec |-> FALSE, muxer |-> NoMuxer, description |-> 0,
     written |-> FALSE, begun |-> FALSE, buffer |-> <<>>, mixed |-> FALSE]

ZeroClock == [hours |-> 0, minutes |-> 0, seconds |-> 0]

RecorderTypeOK ==
    /\ recorder \in [metadata : BOOLEAN, audioCodec : BOOLEAN,
                     muxer : [on : BOOLEAN, first : {"none"} \cup Packets, config : 0 .. MaxConfigs],
                     description : 0 .. MaxConfigs, written : BOOLEAN, begun : BOOLEAN,
                     buffer : Seq(Packets), mixed : BOOLEAN]
    /\ recording \in BOOLEAN
    /\ clock \in [hours : 0 .. MaxHours, minutes : 0 .. Sixty - 1, seconds : 0 .. Sixty - 1]

RecorderInit ==
    /\ recorder = NewRecorder
    /\ recording = FALSE
    /\ clock = ZeroClock

---------------------------------------------------------------------------
(* MatroskaMuxingRecorder                                                  *)

\* The first chunk of a file, whatever its kind, stays its first.
Muxed(muxer, p) == [muxer EXCEPT !.first = IF @ = "none" THEN p ELSE @]

AddVideoChunk(r, p) ==
    LET muxer == [Muxed(r.muxer, p) EXCEPT !.config = IF r.written THEN @ ELSE r.description]
    IN [r EXCEPT !.begun = TRUE, !.muxer = muxer, !.written = TRUE]

AddAudioChunk(r, p) ==
    IF r.begun /\ p # "early" /\ r.muxer.on THEN [r EXCEPT !.muxer = Muxed(@, p)] ELSE r

\* Mutant of AddConfiguration: the new one is not written.
AddConfigurationUnwritten(r, n) == [r EXCEPT !.description = n]

AddConfiguration(r, n) == [r EXCEPT !.description = n, !.written = FALSE]

AddVideoPacket(r, p) ==
    LET kept == [r EXCEPT !.buffer = Append(IF p = "key" THEN <<>> ELSE @, p)] IN
    IF r.muxer.on THEN AddVideoChunk(kept, p) ELSE kept

AddAudioPacket(r, p) == AddAudioChunk([r EXCEPT !.buffer = Append(@, p)], p)

\* start() throws without metadata: nothing is recorded then.
CanRecord(r) == r.metadata

AddChunk(r, p) == IF p \in Audio THEN AddAudioChunk(r, p) ELSE AddVideoChunk(r, p)
StartRecorder(r) == FoldLeft(AddChunk, [r EXCEPT !.muxer = NewMuxer], r.buffer)

\* The file is saved as it is.
StopRecorder(r) == IF r.muxer.on THEN [r EXCEPT !.muxer = NoMuxer, !.written = FALSE] ELSE r

---------------------------------------------------------------------------
(* RECORD_STATE                                                            *)

\* The interval of the reaction: it runs while recording is true.
Tick ==
    /\ recording
    /\ LET s == clock.seconds + 1
           m == clock.minutes + (IF s >= Sixty THEN 1 ELSE 0)
       IN /\ clock.hours < MaxHours \/ m < Sixty
          /\ clock' = [seconds |-> IF s >= Sixty THEN 0 ELSE s,
                       minutes |-> IF m >= Sixty THEN 0 ELSE m,
                       hours |-> clock.hours + (IF m >= Sixty THEN 1 ELSE 0)]
    /\ UNCHANGED <<recorder, recording>>

RecordStart ==
    /\ ~recording /\ CanRecord(recorder)
    /\ recorder' = StartRecorder(recorder)
    /\ recording' = TRUE
    /\ UNCHANGED clock

RecordStop ==
    /\ recording
    /\ recorder' = StopRecorder(recorder)
    /\ recording' = FALSE
    /\ clock' = ZeroClock

\* dispose() of the session stops a recording that is going on.
RecordDispose == RecordStop \/ (~recording /\ UNCHANGED recordVars)

---------------------------------------------------------------------------
(* Properties                                                              *)

\* What the page says and what the recorder does agree, and the clock shows
\* the time of a recording only.
RecordingShown ==
    /\ recording <=> recorder.muxer.on
    /\ ~recording => clock = ZeroClock

\* Wherever in the streams a recording was started, its file begins with a
\* keyframe that has a configuration, as long as packets came of the server
\* only that the recorder was made for; and the configuration that goes with
\* what is written is the last one received.  That the frames are of that
\* configuration is not said: start() replays older ones (recorder.ts:374),
\* and an earlier server may add its own (state.tsx:366, 522).
RecordingDecodable ==
    recorder.muxer.on =>
        /\ recorder.written => recorder.muxer.config = recorder.description
        /\ ~recorder.mixed =>
            /\ recorder.muxer.first \in {"none", "key"}
            /\ recorder.muxer.first = "key" => recorder.muxer.config # 0
=============================================================================
