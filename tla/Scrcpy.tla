------------------------------- MODULE Scrcpy -------------------------------
(***************************************************************************)
(* The scrcpy page of webadb: the session, its recorder, its keyboard and  *)
(* its settings, on the device in the slot.  A behaviour looks at one      *)
(* aspect: the sessions, with every device and every server; the streams,  *)
(* the sound or the input on one device, which do not touch each other; or *)
(* the settings, which meet the sessions in the slot only.                 *)
(***************************************************************************)
EXTENDS Mirror

CONSTANTS Displays, Encoders, Codecs, Aspects

VARIABLES aspect, settings

scrcpyVars == <<aspect, globalVars, mirrorVars, playback, settings>>

Setup == INSTANCE MirrorSettings

ScrcpyInit ==
    /\ aspect \in Aspects
    /\ GlobalInit
    /\ MirrorInit
    /\ PlaybackInit
    /\ Setup!SettingsInit

\* Bound: what is looked at closely is looked at on one device, the sound of
\* one server; streams and input while the device stays and nobody stops a
\* session (the server may exit, and start() may fail).
OneSession ==
    /\ \A c \in Connections \ {1} : conns'[c] = conns[c]
    /\ IF aspect = "sound" THEN \A s \in Servers \ {1} : servers'[s] = servers[s]
       ELSE conns'[1] # "lost" /\ stops' = stops

\* The sound starts with the player; it ends with the server or its connection.
SoundFollows ==
    IF aspect = "sound" /\ \E s \in Servers : audio[s] = "waiting" /\ audio'[s] = "on"
    THEN \E codec \in AudioCodecs : PlaybackStarts(codec)
    ELSE UNCHANGED playback

SoundEnds ==
    /\ \E s \in Servers :
        /\ audio[s] = "on"
        /\ servers[s].state = "exited" \/ conns[servers[s].conn] # "open"
    /\ Flush

ScrcpyNext ==
    /\ UNCHANGED aspect
    /\ \/ /\ aspect # "settings" /\ UNCHANGED <<settings, playback>>
          /\ SessionActions
          /\ aspect = "sessions" \/ OneSession
       \/ /\ aspect \in {"sessions", "streams", "sound"} /\ UNCHANGED <<settings, playback>>
          /\ VideoActions
       \/ /\ aspect \in {"streams", "sound"} /\ UNCHANGED settings
          /\ AudioActions /\ SoundFollows
       \/ aspect = "streams" /\ UNCHANGED <<settings, playback>> /\ StreamActions
       \/ aspect = "sound" /\ UNCHANGED <<settings, playback>> /\ ClockActions
       \/ /\ aspect = "sound" /\ UNCHANGED <<globalVars, mirrorVars, settings>>
          /\ PlaybackStep \/ SoundEnds
       \/ aspect = "input" /\ UNCHANGED <<settings, playback>> /\ InputActions
       \/ /\ aspect = "settings" /\ Setup!SettingsStep
          /\ UNCHANGED <<sessionVars, showVars, recordVars, keyboardVars, playback>>

ScrcpySpec == ScrcpyInit /\ [][ScrcpyNext]_scrcpyVars

---------------------------------------------------------------------------
(* Properties                                                              *)

\* The type invariant of the page.
ScrcpyTypeOK == GlobalTypeOK /\ SlotTypeOK /\ MirrorTypeOK /\ PlaybackTypeOK
                  /\ Setup!SettingsTypeOK

\* What the page shows and what there is agree (the parts are stated in
\* Mirror, Recorder, AudioDecode, Keyboard and MirrorSettings).
SessionSound ==
    /\ PictureAlive /\ RecordingOwned /\ RecordingShown /\ OneStart
    /\ SoundPlayable /\ KeysMatch /\ PointerExact
    /\ Setup!SettingsOffered
=============================================================================
