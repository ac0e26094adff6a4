------------------------------ MODULE DemoMode ------------------------------
(***************************************************************************)
(* components/demo-mode-panel.tsx: the fake status bar of the device.  The *)
(* state of the panel is set when the device answers, whatever happened to *)
(* the slot meanwhile; an autorun tells the device every setting again     *)
(* when one of them, the toggle "enabled" or the device changes.           *)
(*                                                                         *)
(* Of a setting the model knows whether the device was told the value the  *)
(* user gave it or the initial one.                                        *)
(***************************************************************************)
EXTENDS GlobalState

CONSTANT Features       \* the settings of FEATURES that the user changes

VARIABLE demo

FEATURES ==
    {"batteryLevel", "batteryCharging", "powerSaveMode",
     "wifiSignalStrength", "airplaneMode", "mobileDataType", "mobileSignalStrength",
     "statusBarMode", "vibrateMode", "bluetoothConnected", "locatingIcon", "alarmIcon",
     "notificationsVisibility", "hour", "minute"}

\* conn: the device told last; shown: what it was told.
NoBar == [conn |-> 0, shown |-> [key \in FEATURES |-> "initial"]]

DemoModeInit == demo =
    [demoMode |-> 0,           \* whose status bar is faked
     allowed |-> FALSE, enabled |-> FALSE,
     features |-> {},          \* those the user has set
     bar |-> NoBar,            \* the status bar, as far as the panel told it
     asks |-> {},              \* devices asked what is allowed or enabled
     sets |-> {}]              \* changes of the toggles under way

DemoModeTypeOK ==
    /\ demo.demoMode \in 0 .. MaxConnections
    /\ demo.allowed \in BOOLEAN /\ demo.enabled \in BOOLEAN
    /\ demo.features \in SUBSET Features
    /\ demo.bar \in [conn : 0 .. MaxConnections, shown : [FEATURES -> {"user", "initial", "34"}]]
    /\ demo.asks \in SUBSET (Connections \X {"allowed", "enabled"})
    /\ demo.sets \in SUBSET (Connections \X {"allowed", "enabled"} \X BOOLEAN)

\* The value that the panel shows for a setting.
PanelValue(features, key) == IF key \in features THEN "user" ELSE "initial"

\* onChange() of every setting, in order.  Hour and minute both set the time,
\* the minute last, with 34 for an hour that the user has not set.
OnChange(features, key) ==
    IF key = "hour" /\ key \notin features THEN "34" ELSE PanelValue(features, key)

\* The autorun on enabled, the settings and the demo mode; without a demo mode
\* it throws before anything is sent.
ApplyAll(d) ==
    IF d.enabled /\ d.demoMode # 0
    THEN [d EXCEPT !.bar = [conn |-> d.demoMode,
                            shown |-> [key \in FEATURES |-> OnChange(d.features, key)]]]
    ELSE d

Becomes(d) == demo' = ApplyAll(d)

\* The reaction on GLOBAL_STATE.adb.
SlotChanges(d) ==
    Becomes(IF adb' = adb THEN d
            ELSE IF adb' = 0
            THEN [d EXCEPT !.demoMode = 0, !.allowed = FALSE, !.enabled = FALSE, !.features = {}]
            ELSE [d EXCEPT !.demoMode = adb', !.asks = @ \cup {<<adb', "allowed">>}])

Asked(a) == a \in demo.asks /\ conns[a[1]] = "open" /\ Quiet

\* getAllowed(); the next question goes to the demo mode of this moment, and
\* is a rejection without one.
AllowedIs(c) ==
    /\ Asked(<<c, "allowed">>)
    /\ \E allowed \in BOOLEAN :
          Becomes([demo EXCEPT
                    !.allowed = allowed,
                    !.asks = (@ \ {<<c, "allowed">>})
                             \cup (IF allowed /\ demo.demoMode # 0
                                   THEN {<<demo.demoMode, "enabled">>} ELSE {})])

EnabledIs(c) ==
    /\ Asked(<<c, "enabled">>)
    /\ \E enabled \in BOOLEAN :
          Becomes([demo EXCEPT !.enabled = enabled, !.asks = @ \ {<<c, "enabled">>}])

NotAnswered ==
    /\ Quiet
    /\ \/ \E a \in demo.asks : Becomes([demo EXCEPT !.asks = @ \ {a}])
       \/ \E s \in demo.sets : Becomes([demo EXCEPT !.sets = @ \ {s}])

\* The panel.  Without a demo mode a handler throws before it sets anything.
PanelActs == UserFree /\ Quiet  /\ demo.demoMode # 0

HandleAllowedChange(value) ==
    /\ PanelActs /\ adb # 0 /\ value # demo.allowed
    /\ Becomes([demo EXCEPT !.sets = @ \cup {<<demo.demoMode, "allowed", value>>}])

HandleEnabledChange(value) ==
    /\ PanelActs /\ demo.allowed /\ value # demo.enabled
    /\ Becomes([demo EXCEPT !.sets = @ \cup {<<demo.demoMode, "enabled", value>>}])

\* The device has done it.
Changed(s) ==
    /\ s \in demo.sets /\ conns[s[1]] = "open" /\ Quiet
    /\ Becomes(IF s[2] = "allowed"
               THEN [demo EXCEPT !.sets = @ \ {s}, !.allowed = s[3], !.enabled = FALSE]
               ELSE [demo EXCEPT !.sets = @ \ {s}, !.enabled = s[3]])

\* A setting is sent to the device at once and switches the demo mode on: the
\* autorun sends it again, with all others.
SetFeature(f) ==
    /\ PanelActs /\ demo.allowed
    /\ Becomes([demo EXCEPT !.features = @ \cup {f}, !.enabled = TRUE])

DemoModeStep ==
    \/ \E c \in Connections : AllowedIs(c) \/ EnabledIs(c)
    \/ \E value \in BOOLEAN : HandleAllowedChange(value) \/ HandleEnabledChange(value)
    \/ NotAnswered
    \/ \E s \in demo.sets : Changed(s)
    \/ \E f \in Features : SetFeature(f)
    \/ SessionStep /\ SlotChanges(demo)

---------------------------------------------------------------------------
(* Properties                                                              *)

\* The features the user has set are those of a device that is there: they
\* do not outlive it, and none is set while there is none, however late the
\* answers to the toggles arrive.
FeaturesHaveDevice == demo.features # {} => demo.demoMode # 0 /\ adb # 0

\* While the demo mode is on, the device in the slot, and no device before it,
\* was told last of what the panel shows: every setting, but for the hour of
\* the clock that the user has not set (it is told 34, the panel shows 12).
BarFollows ==
    demo.enabled /\ demo.demoMode # 0 =>
        /\ demo.bar.conn = adb
        /\ \A key \in FEATURES \ {"hour"} : demo.bar.shown[key] = PanelValue(demo.features, key)
=============================================================================
