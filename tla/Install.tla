------------------------------ MODULE Install ------------------------------
(***************************************************************************)
(* pages/install.tsx: one APK picked, sent to the device and installed.    *)
(* install() has no try: when a step fails, what it has set stays.         *)
(***************************************************************************)
EXTENDS GlobalState

VARIABLE install

InstallInit == install =
    [installing |-> FALSE,
     stage |-> "none",       \* progress: none, or the stage it shows
     log |-> FALSE,          \* the log has text
     bypass |-> FALSE,       \* options.bypassLowTargetSdkBlock
     at |-> "idle",          \* what install() waits for
     conn |-> 0]             \* the device it uses

InstallTypeOK ==
    /\ {install.installing, install.log, install.bypass} \subseteq BOOLEAN
    /\ install.stage \in {"none", "Uploading", "Installing", "Completed"}
    /\ install.at \in {"idle", "picking", "sending", "logging"}
    /\ install.conn \in 0 .. MaxConnections

SetBypass ==
    /\ UserFree /\ Quiet
    /\ install' = [install EXCEPT !.bypass = ~@]

\* The button; the file dialog of the browser is modal.
Click ==
    /\ UserFree /\ adb # 0 /\ ~install.installing /\ install.at = "idle" /\ Quiet
    /\ install' = [install EXCEPT !.at = "picking"]

\* No file, or no answer at all.
NotPicked ==
    /\ install.at = "picking" /\ Quiet
    /\ install' = [install EXCEPT !.at = "idle"]

\* The device is the one of this moment; without one installStream() rejects.
Picked ==
    /\ install.at = "picking" /\ Quiet
    /\ install' = [install EXCEPT !.installing = TRUE, !.stage = "Uploading", !.log = FALSE,
                                  !.conn = adb, !.at = IF adb = 0 THEN "idle" ELSE "sending"]

\* The progress of the upload: part of the file, or all of it.
Progress ==
    /\ install.at = "sending" /\ install.stage = "Uploading"
    /\ conns[install.conn] = "open" /\ Quiet
    /\ install' = [install EXCEPT !.stage = "Installing"]

\* installStream() answers with the log, which then comes in pieces.
Sent ==
    /\ install.at = "sending" /\ conns[install.conn] = "open" /\ Quiet
    /\ install' = [install EXCEPT !.at = "logging"]

Logged ==
    /\ install.at = "logging" /\ Quiet
    /\ install' = [install EXCEPT !.log = TRUE]

Installed ==
    /\ install.at = "logging" /\ Quiet
    /\ install' = [install EXCEPT !.log = TRUE, !.stage = "Completed", !.installing = FALSE,
                                  !.at = "idle", !.conn = 0]

InstallFails ==
    /\ install.at \in {"sending", "logging"} /\ Quiet
    /\ install' = [install EXCEPT !.at = "idle", !.conn = 0]

InstallStep ==
    \/ SetBypass \/ Click \/ NotPicked \/ Picked \/ Progress
    \/ Sent \/ Logged \/ Installed \/ InstallFails
    \/ SessionStep /\ UNCHANGED install

\* "Completed" is shown of an installation that is over, and while one is
\* under way the button is off: no second one overtakes it.
InstallShown ==
    /\ install.stage = "Completed" => ~install.installing /\ install.log
    /\ install.at \in {"sending", "logging"} =>
          install.installing /\ install.stage \in {"Uploading", "Installing"}
=============================================================================
