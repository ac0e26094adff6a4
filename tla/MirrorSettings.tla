--------------------------- MODULE MirrorSettings ---------------------------
(***************************************************************************)
(* components/scrcpy/settings.tsx: the settings of the next session.  They *)
(* are read from the device when it comes, which may be answered when the  *)
(* device is gone or another one is in the slot; the lists of displays and *)
(* encoders are asked for by the user.  Two autoruns keep the settings     *)
(* within what there is to choose from.                                    *)
(*                                                                         *)
(* An encoder is a pair <<type, codec, name>>; the settings that nothing   *)
(* depends on are left out.                                                *)
(***************************************************************************)
EXTENDS GlobalState, FetchServer, Integers, Sequences

CONSTANTS
    Displays,     \* display ids that devices may have, 0 is the main one
    Encoders,     \* encoders that devices may have; some name no codec ("")
    Codecs        \* codecs the user may choose for the video and for the audio

VARIABLE settings
    \* loads: connections whose settings file is read; refresh: the refresh
    \* under way; displays, encoders, decoders: SETTING_STATE's lists;
    \* displayId, codec, encoder: of SETTING_STATE.settings, the last two by
    \* type; decoder: of SETTING_STATE.clientSettings

settingsVars == <<settings, cachedValue>>

Types == {"video", "audio"}
NoDisplay == -1
Names == {e[3] : e \in Encoders}
AnyFile == [displayId : Displays, encoder : [Types -> Names \cup {""}], codec : [Types -> Codecs]]

SettingsTypeOK ==
    /\ settings.loads \subseteq Connections
    /\ settings.refresh \in {"none", "fetch", "push", "displays", "encoders"}
    /\ settings.wanted \in {"displays", "encoders"}
    /\ settings.displays \subseteq Displays /\ settings.encoders \subseteq Encoders
    /\ settings.displayId \in Displays \cup {NoDisplay}
    /\ settings.codec \in [Types -> Codecs]
    /\ settings.encoder \in [Types -> Names \cup {""}]
    /\ settings.decoders \in {<<"tinyh264">>, <<"webcodecs", "tinyh264">>}
    /\ settings.decoder \in {"tinyh264", "webcodecs"}

Choices(s, t) == {e \in s.encoders : e[1] = t /\ e[2] = s.codec[t]}

\* The autorun on the encoders: a choice that is not one any more is undone.
Validated(s) ==
    [s EXCEPT !.encoder =
        [t \in Types |-> IF \E e \in Choices(s, t) : e[3] = s.encoder[t] THEN s.encoder[t] ELSE ""]]

\* The autorun on the decoders: it runs when they, or all of clientSettings,
\* change, and takes the first.
FirstDecoder(s) == [s EXCEPT !.decoder = s.decoders[1]]

SettingsInit ==
    \E codec \in Codecs :
        settings = [loads |-> {}, refresh |-> "none", wanted |-> "displays", displays |-> {},
                    encoders |-> {}, displayId |-> NoDisplay, codec |-> [t \in Types |-> codec],
                    encoder |-> [t \in Types |-> ""], decoders |-> <<"tinyh264">>,
                    decoder |-> "tinyh264"]

\* The autorun on the slot: a connection that comes, whether or not the slot
\* was empty, empties the lists, and its settings file is read.
SettingsDeviceStep ==
    /\ SessionStep
    /\ settings' =
        IF adb' # 0 /\ adb' # adb
        THEN Validated([settings EXCEPT !.loads = @ \cup {adb'}, !.encoders = {}, !.displays = {},
                                        !.displayId = NoDisplay])
        ELSE settings
    /\ UNCHANGED cachedValue

\* The file is there and was read, for whichever device is in the slot now.
SettingsLoaded(c, file) ==
    /\ c \in settings.loads
    /\ settings' =
        FirstDecoder(Validated(
            [settings EXCEPT !.loads = @ \ {c}, !.displayId = file.displayId,
                             !.encoder = file.encoder, !.codec = file.codec]))
    /\ UNCHANGED <<globalVars, cachedValue>>

\* There is no file, or the device is gone.
SettingsMissing(c) ==
    /\ c \in settings.loads
    /\ settings' = [settings EXCEPT !.loads = @ \ {c}]
    /\ UNCHANGED <<globalVars, cachedValue>>

\* The page is mounted in a browser that has WebCodecs.
AddDecoder ==
    /\ Len(settings.decoders) = 1
    /\ settings' = FirstDecoder([settings EXCEPT !.decoders = <<"webcodecs">> \o @])
    /\ UNCHANGED <<globalVars, cachedValue>>

\* The icons "refresh" of the lists: the server is fetched, pushed and asked.
\* Of several refreshes at a time one is modelled.
Refresh(what) ==
    /\ UserFree /\ adb # 0 /\ settings.refresh = "none"
    /\ FetchServer
    /\ settings' = [settings EXCEPT !.refresh = "fetch", !.wanted = what]
    /\ UNCHANGED globalVars

RefreshGoesOn ==
    /\ \/ settings.refresh = "fetch" /\ Fetched /\ settings' = [settings EXCEPT !.refresh = "push"]
       \/ /\ settings.refresh = "push" /\ Answers
          /\ settings' = [settings EXCEPT !.refresh = settings.wanted]
          /\ UNCHANGED cachedValue
    /\ UNCHANGED globalVars

\* The answer is listed, for whichever device is in the slot now.  The display
\* chosen stays if it is listed and is not 0, else the first of the list is.
Refreshed ==
    /\ \/ /\ settings.refresh = "displays"
          /\ \E answer \in SUBSET Displays :
              \E id \in IF settings.displayId \in answer \ {0} THEN {settings.displayId}
                        ELSE IF answer = {} THEN {NoDisplay} ELSE answer :
                settings' = [settings EXCEPT !.refresh = "none", !.displays = answer, !.displayId = id]
       \/ /\ settings.refresh = "encoders"
          /\ \E answer \in SUBSET Encoders :
                settings' = Validated([settings EXCEPT !.refresh = "none", !.encoders = answer])
    /\ UNCHANGED <<globalVars, cachedValue>>

RefreshFails ==
    /\ settings.refresh # "none"
    /\ IF settings.refresh = "fetch" THEN FetchFailed ELSE UNCHANGED cachedValue
    /\ ShowErrorDialog
    /\ settings' = [settings EXCEPT !.refresh = "none"]
    /\ UNCHANGED slotVars

\* The fields of the page.
ChangeSetting ==
    /\ UserFree
    /\ \/ \E d \in settings.displays : settings' = [settings EXCEPT !.displayId = d]
       \/ \E t \in Types, codec \in Codecs :
            settings' = Validated([settings EXCEPT !.codec[t] = codec])
       \/ \E t \in Types, e \in settings.encoders :
            /\ e[1] = t /\ (e[2] = settings.codec[t] \/ (t = "video" /\ e[2] = ""))
            /\ settings' = Validated([settings EXCEPT !.encoder[t] = e[3]])
       \/ \E i \in 1 .. Len(settings.decoders) :
            settings' = [settings EXCEPT !.decoder = settings.decoders[i]]
    /\ UNCHANGED <<globalVars, cachedValue>>

SettingsStep ==
    \/ SettingsDeviceStep \/ AddDecoder
    \/ \E c \in Connections : SettingsMissing(c) \/ \E file \in AnyFile : SettingsLoaded(c, file)
    \/ \E what \in {"displays", "encoders"} : Refresh(what)
    \/ RefreshGoesOn \/ Refreshed \/ RefreshFails
    \/ ChangeSetting

---------------------------------------------------------------------------
(* Properties                                                              *)

\* What a session is started with is something the page offers, in whatever
\* order the settings file, the answers of the device and the choices of the
\* user come: an encoder is one of those listed, for the codec chosen, and a
\* decoder is one the browser has.
SettingsOffered ==
    /\ \A t \in Types :
        settings.encoder[t] # "" => \E e \in Choices(settings, t) : e[3] = settings.encoder[t]
    /\ \E i \in 1 .. Len(settings.decoders) : settings.decoders[i] = settings.decoder
=============================================================================
