--------------------------- MODULE DeviceCommands ---------------------------
(***************************************************************************)
(* pages/power.tsx, pages/audio.tsx and pages/device-info.tsx: commands    *)
(* sent to the device in the slot when a button is pressed.  The audio     *)
(* page keeps one answer for all devices and asks again before it acts.    *)
(***************************************************************************)
EXTENDS GlobalState

VARIABLE commands

CommandsInit ==
    \E webUsb \in SUBSET Connections : \E accessory \in SUBSET webUsb :
        commands =
            [webUsb |-> webUsb,           \* connections that are WebUSB
             accessory |-> accessory,     \* devices that speak AOA 2
             rebooting |-> {},            \* devices told to reboot
             supported |-> "unknown",     \* what the audio page shows
             asked |-> {},                \* devices asked for their AOA version
             accessories |-> {}]          \* devices put into audio mode

Ask == Connections \X {"query", "enable", "disable"}

CommandsTypeOK ==
    /\ commands.webUsb \in SUBSET Connections
    /\ commands.accessory \in SUBSET commands.webUsb
    /\ commands.rebooting \in SUBSET Connections
    /\ commands.supported \in {"unknown", "yes", "no"}
    /\ commands.asked \in SUBSET Ask
    /\ commands.accessories \in SUBSET Connections

\* reboot(), powerOff(), bootloader(), ...: the device leaves when it likes.
PowerButton ==
    /\ UserFree /\ adb # 0 /\ Quiet
    /\ commands' = [commands EXCEPT !.rebooting = @ \cup {adb}]

\* The page is drawn for a WebUSB device only; two of its buttons want an
\* answer to the first.
AudioButton(why) ==
    /\ UserFree /\ adb \in commands.webUsb /\ Quiet
    /\ why # "query" => commands.supported = "yes"
    /\ commands' = [commands EXCEPT !.asked = @ \cup {<<adb, why>>}]

\* aoaGetProtocol() of the device the button was pressed for.
AudioAnswers(c) ==
    /\ conns[c] = "open" /\ Quiet
    /\ \/ /\ <<c, "query">> \in commands.asked
          /\ commands' = [commands EXCEPT !.asked = @ \ {<<c, "query">>},
                !.supported = IF c \in commands.accessory THEN "yes" ELSE "no"]
       \/ \E why \in {"enable", "disable"} :
          /\ <<c, why>> \in commands.asked
          /\ commands' = [commands EXCEPT !.asked = @ \ {<<c, why>>},
                !.accessories = IF c \in commands.accessory THEN @ \cup {c} ELSE @]

AudioFails(c) ==
    /\ Quiet
    /\ \E a \in commands.asked : a[1] = c /\ commands' = [commands EXCEPT !.asked = @ \ {a}]

CommandsStep ==
    \/ PowerButton
    \/ \E why \in {"query", "enable", "disable"} : AudioButton(why)
    \/ \E c \in Connections : AudioAnswers(c) \/ AudioFails(c)
    \/ SessionStep /\ UNCHANGED commands

\* Only a device that speaks AOA 2 is put into accessory mode, although the
\* answer on the page may be that of another device.
AudioOnlyWhereSupported == commands.accessories \subseteq commands.accessory
=============================================================================
