----------------------------- MODULE AudioDecode -----------------------------
(***************************************************************************)
(* components/scrcpy/audio-decode-stream.ts and the playback branch of the *)
(* audio stream in state.tsx: what the device sends is decoded by the      *)
(* browser and fed to a player.  The player is chosen before anything is   *)
(* decoded, a decoder must be configured before it decodes, and it gives   *)
(* its output later, in a callback.                                        *)
(*                                                                         *)
(* A packet is its kind; "" is a packet of Opus without data.  The sound   *)
(* itself and the number of its channels are left out.                     *)
(***************************************************************************)
EXTENDS Naturals

CONSTANT MaxDecoding    \* bound on the packets given to the decoder and not back
ASSUME MaxDecodingAssumption == MaxDecoding \in Nat

VARIABLE playback

AudioCodecs == {"raw", "opus", "aac"}
Formats == {"int16", "f32", "f32-planar"}

\* began: the device has sent the packet that comes first; refused: the
\* decoder was given what it cannot decode; fed: the format last fed.
NoPlayback == [codec |-> "none", decoder |-> "none", player |-> "none", fed |-> "none",
               began |-> FALSE, decoding |-> 0, refused |-> FALSE]

PlaybackTypeOK ==
    playback \in [codec : {"none"} \cup AudioCodecs,
                  decoder : {"none", "unconfigured", "configured", "errored", "closed"},
                  player : {"none"} \cup Formats, fed : {"none"} \cup Formats,
                  began : BOOLEAN, decoding : 0 .. MaxDecoding, refused : BOOLEAN]

PlaybackInit == playback = NoPlayback

\* What the players of state.tsx play.
PlayerOf == [raw |-> "int16", opus |-> "f32", aac |-> "f32-planar"]

\* start(): the decoder of Opus is configured at once, that of AAC when its
\* configuration comes; raw samples need none.
StartedDecoder == [raw |-> "none", opus |-> "configured", aac |-> "unconfigured"]

\* output(): what a decoder makes of a packet.
OutputOf == [opus |-> "f32", aac |-> "f32-planar"]

PlaybackStarts(codec) ==
    /\ playback.codec = "none"
    /\ playback' = [NoPlayback EXCEPT !.codec = codec, !.decoder = StartedDecoder[codec],
                                      !.player = PlayerOf[codec]]

Playing(codec) == playback.codec = codec /\ playback.decoder \notin {"errored", "closed"}

\* decoder.decode(): throws, and the stream with it, when not configured.
Decode(p, packet) ==
    IF p.decoder = "configured"
    THEN [p EXCEPT !.decoding = @ + 1, !.refused = @ \/ packet = ""]
    ELSE [p EXCEPT !.decoder = "errored", !.refused = TRUE]

\* What the device sends first: the configuration of a codec that has one.
InTurn(packet) == packet = "configuration" <=> ~playback.began
Received == [playback EXCEPT !.began = TRUE]

RawTransform ==
    /\ Playing("raw")
    /\ playback' = [Received EXCEPT !.fed = "int16"]

AacTransform(packet) ==
    /\ Playing("aac") /\ InTurn(packet)
    /\ packet # "" /\ playback.decoding < MaxDecoding
    /\ playback' = IF packet = "configuration" THEN [Received EXCEPT !.decoder = "configured"]
                   ELSE Decode(Received, packet)

\* The configuration is of use to a file only, an empty packet to nobody.
OpusTransform(packet) ==
    /\ Playing("opus") /\ InTurn(packet)
    /\ playback.decoding < MaxDecoding
    /\ playback' = IF packet = "data" THEN Decode(Received, packet) ELSE Received

\* output() of the decoder: enqueued, and fed to the player.
Output ==
    /\ playback.decoder = "configured" /\ playback.decoding > 0
    /\ playback' = [playback EXCEPT !.decoding = @ - 1, !.fed = OutputOf[playback.codec]]

\* error() of the decoder: what it still had is gone, and so is the stream.
DecoderError ==
    /\ playback.decoder = "configured" /\ playback.decoding > 0
    /\ playback' = [playback EXCEPT !.decoder = "errored", !.decoding = 0]

\* The stream of the device ends: flush() awaits what is being decoded, and
\* rejects if the decoder was never configured.
Flush ==
    /\ playback.codec # "none" /\ playback.decoder \notin {"errored", "closed"}
    /\ playback.decoding = 0
    /\ playback' = [playback EXCEPT !.decoder = IF @ = "unconfigured" THEN "errored" ELSE "closed"]

PlaybackStep ==
    \/ RawTransform \/ Output \/ DecoderError
    \/ \E packet \in {"configuration", "data", ""} : AacTransform(packet) \/ OpusTransform(packet)

---------------------------------------------------------------------------
(* Properties                                                              *)

\* No packet that the device may send stops the sound: each comes to a decoder
\* that can decode it, and the player is fed the format it plays.
SoundPlayable ==
    /\ ~playback.refused
    /\ playback.fed \in {"none", playback.player}
=============================================================================
