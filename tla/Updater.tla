------------------------------ MODULE Updater ------------------------------
(***************************************************************************)
(* The updater of the desktop application: theia-updater-impl.ts in the    *)
(* main process, which listens to electron-updater, and the contribution   *)
(* theia-updater-frontend-contribution.ts in every window.  The check made *)
(* when the application starts may be answered before there is a window,   *)
(* or together with a check a user asked for.                              *)
(***************************************************************************)
EXTENDS Naturals

CONSTANT Windows, MaxPrompts   \* bound on the dialogs, and on the progresses, of a window
ASSUME UpdaterAssumption == MaxPrompts \in Nat \ {0}

VARIABLES
    main,          \* the updater of the main process
    autoUpdater,   \* electron-updater: a check pending, a download
    window,        \* the contribution of each window
    reportOnStart, \* the preference updates.reportOnStart
    history        \* startup: the first check found an update; told: a window
                   \* was told; asked: a user asked for a check

updaterVars == <<main, autoUpdater, window, reportOnStart, history>>

\* timers: start-up reports waiting for ten seconds; prompts: "update found"
\* unanswered; accepted: answered "yes", waiting for the progress to be shown;
\* progress, interval: this.progress and this.intervalId are set; shown, running:
\* the progresses on the screen and the intervals that tick, held or not;
\* overlapped, for the properties: "yes" was answered while the progress of an
\* earlier "yes" was awaited.
NewWindow == [open |-> FALSE, timers |-> 0, prompts |-> 0, accepted |-> 0,
              progress |-> FALSE, interval |-> FALSE, shown |-> 0, running |-> 0,
              overlapped |-> FALSE, readyToUpdate |-> FALSE, latest |-> FALSE]

UpdaterTypeOK ==
    /\ main \in [clients : SUBSET Windows, initialCheck : BOOLEAN,
                 reportOnFirstRegistration : BOOLEAN]
    /\ autoUpdater \in [checking : BOOLEAN, download : {"none", "running", "done"}]
    /\ window \in [Windows -> [open : BOOLEAN, timers : 0 .. 2, prompts : 0 .. MaxPrompts,
                               accepted : 0 .. MaxPrompts, progress : BOOLEAN,
                               interval : BOOLEAN, shown : 0 .. MaxPrompts,
                               running : 0 .. MaxPrompts, overlapped : BOOLEAN,
                               readyToUpdate : BOOLEAN, latest : BOOLEAN]]
    /\ reportOnStart \in BOOLEAN
    /\ history \in [startup : BOOLEAN, told : BOOLEAN, asked : BOOLEAN]

\* onStart() asks for the first check.
AppStarts ==
    /\ main' = [clients |-> {}, initialCheck |-> TRUE, reportOnFirstRegistration |-> FALSE]
    /\ autoUpdater' = [checking |-> TRUE, download |-> "none"]
    /\ window' = [w \in Windows |-> NewWindow]
    /\ history' = [startup |-> FALSE, told |-> FALSE, asked |-> FALSE]

UpdaterInit ==
    /\ main = [clients |-> {}, initialCheck |-> TRUE, reportOnFirstRegistration |-> FALSE]
    /\ autoUpdater = [checking |-> TRUE, download |-> "none"]
    /\ window = [w \in Windows |-> NewWindow]
    /\ reportOnStart = TRUE
    /\ history = [startup |-> FALSE, told |-> FALSE, asked |-> FALSE]

\* stopProgress() of a window: the interval and the progress it holds, if any.
StopProgress(w) ==
    [w EXCEPT !.interval = FALSE, !.running = IF w.interval THEN @ - 1 ELSE @,
              !.progress = FALSE, !.shown = IF w.progress THEN @ - 1 ELSE @]

---------------------------------------------------------------------------
(* The main process                                                        *)

\* updateAvailable(true, startupCheck) in a window: after the start-up check
\* the prompt waits for ten seconds, else it comes at once.
Informed(w, startupCheck) ==
    IF startupCheck THEN [w EXCEPT !.timers = @ + 1] ELSE [w EXCEPT !.prompts = @ + 1]
RoomToInform(ws) == \A w \in ws : window[w].timers < 2 /\ window[w].prompts < MaxPrompts

InformAll(ws, startupCheck) ==
    window' = [w \in Windows |-> IF w \in ws THEN Informed(window[w], startupCheck) ELSE window[w]]

\* Mutant of UpdateAvailable: what the start found is not kept for a window.
UpdateAvailableForgotten ==
    /\ autoUpdater.checking
    /\ RoomToInform(main.clients)
    /\ autoUpdater' = [autoUpdater EXCEPT !.checking = FALSE]
    /\ main' = [main EXCEPT !.initialCheck = FALSE]
    /\ InformAll(main.clients, main.initialCheck)
    /\ history' = [history EXCEPT !.startup = @ \/ main.initialCheck,
                                  !.told = @ \/ main.clients # {}]
    /\ UNCHANGED reportOnStart

UpdateAvailable ==
    /\ autoUpdater.checking
    /\ RoomToInform(main.clients)
    /\ autoUpdater' = [autoUpdater EXCEPT !.checking = FALSE]
    /\ main' = [main EXCEPT
                    !.initialCheck = FALSE,
                    !.reportOnFirstRegistration = @ \/ (main.initialCheck /\ main.clients = {})]
    /\ InformAll(main.clients, main.initialCheck)
    /\ history' = [history EXCEPT !.startup = @ \/ main.initialCheck,
                                  !.told = @ \/ main.clients # {}]
    /\ UNCHANGED reportOnStart

UpdateNotAvailable ==
    /\ autoUpdater.checking
    /\ autoUpdater' = [autoUpdater EXCEPT !.checking = FALSE]
    /\ main' = [main EXCEPT !.initialCheck = FALSE]
    /\ window' = [w \in Windows |->
            IF w \in main.clients /\ ~main.initialCheck
            THEN [window[w] EXCEPT !.latest = TRUE] ELSE window[w]]
    /\ UNCHANGED <<reportOnStart, history>>

\* A check or a download fails; the first check stays the first.
UpdateError ==
    /\ autoUpdater.checking \/ autoUpdater.download = "running"
    /\ autoUpdater' = [checking |-> FALSE, download |-> IF autoUpdater.download = "done" THEN "done" ELSE "none"]
    /\ window' = [w \in Windows |-> IF w \in main.clients THEN StopProgress(window[w]) ELSE window[w]]
    /\ UNCHANGED <<main, reportOnStart, history>>

UpdateDownloaded ==
    /\ autoUpdater.download = "running"
    /\ autoUpdater' = [autoUpdater EXCEPT !.download = "done"]
    /\ window' = [w \in Windows |->
            IF w \in main.clients
            THEN [(IF window[w].progress THEN StopProgress(window[w]) ELSE window[w])
                    EXCEPT !.readyToUpdate = TRUE]
            ELSE window[w]]
    /\ UNCHANGED <<main, reportOnStart, history>>

\* setClient(): a window connects; the first one is told what the start found.
WindowOpens(w) ==
    /\ ~window[w].open
    /\ LET clients == main.clients \cup {w}
           report == main.reportOnFirstRegistration
       IN /\ main' = [main EXCEPT !.clients = clients, !.reportOnFirstRegistration = FALSE]
          /\ window' = [v \in Windows |->
                LET old == IF v = w THEN [NewWindow EXCEPT !.open = TRUE] ELSE window[v]
                IN IF report /\ v \in clients THEN Informed(old, TRUE) ELSE old]
          /\ history' = [history EXCEPT !.told = @ \/ report]
    /\ UNCHANGED <<autoUpdater, reportOnStart>>

\* disconnectClient()
WindowCloses(w) ==
    /\ window[w].open
    /\ main' = [main EXCEPT !.clients = @ \ {w}]
    /\ window' = [window EXCEPT ![w] = NewWindow]
    /\ UNCHANGED <<autoUpdater, reportOnStart, history>>

---------------------------------------------------------------------------
(* A window                                                                *)

\* The command is disabled in a window that was told of a downloaded update.
CheckForUpdates(w) ==
    /\ window[w].open /\ ~window[w].readyToUpdate
    /\ autoUpdater' = [autoUpdater EXCEPT !.checking = TRUE]
    /\ history' = [history EXCEPT !.asked = TRUE]
    /\ UNCHANGED <<main, window, reportOnStart>>

\* The ten seconds are over.
ReportOnStart(w) ==
    /\ window[w].timers > 0
    /\ window[w].prompts < MaxPrompts
    /\ window' = [window EXCEPT ![w].timers = @ - 1,
                                ![w].prompts = IF reportOnStart THEN @ + 1 ELSE @]
    /\ UNCHANGED <<main, autoUpdater, reportOnStart, history>>

AnswerNo(w) ==
    /\ window[w].prompts > 0
    /\ window' = [window EXCEPT ![w].prompts = @ - 1]
    /\ reportOnStart' \in {reportOnStart, FALSE}   \* "No" or "Never"
    /\ UNCHANGED <<main, autoUpdater, history>>

AnswerYes(w) ==
    /\ window[w].prompts > 0 /\ window[w].accepted < MaxPrompts
    /\ LET stopped == StopProgress(window[w]) IN
       window' = [window EXCEPT ![w] = [stopped EXCEPT !.prompts = @ - 1, !.accepted = @ + 1,
                                                       !.overlapped = @ \/ stopped.accepted > 0]]
    /\ UNCHANGED <<main, autoUpdater, reportOnStart, history>>

\* The progress is shown and its dots start: the download begins.  A progress
\* and an interval that the window still holds are overwritten, and go on.
ProgressShown(w) ==
    /\ window[w].accepted > 0
    /\ window[w].shown < MaxPrompts
    /\ window' = [window EXCEPT ![w].accepted = @ - 1,
                                ![w].progress = TRUE, ![w].shown = @ + 1,
                                ![w].interval = TRUE, ![w].running = @ + 1]
    /\ autoUpdater' = [autoUpdater EXCEPT !.download = "running"]
    /\ UNCHANGED <<main, reportOnStart, history>>

\* "Restart to update", or the answer "Yes": the new version starts.
RestartToUpdate(w) ==
    /\ window[w].readyToUpdate
    /\ AppStarts
    /\ UNCHANGED reportOnStart

UpdaterStep ==
    \/ UpdateAvailable \/ UpdateNotAvailable \/ UpdateError \/ UpdateDownloaded
    \/ \E w \in Windows :
        \/ WindowOpens(w) \/ WindowCloses(w) \/ CheckForUpdates(w) \/ ReportOnStart(w)
        \/ AnswerNo(w) \/ AnswerYes(w) \/ ProgressShown(w) \/ RestartToUpdate(w)

---------------------------------------------------------------------------
(* Properties                                                              *)

\* An update found at the start is not lost when no window is open yet: some
\* window was told, or the first that opens will be.
StartupReported ==
    /\ history.startup => history.told \/ main.reportOnFirstRegistration
    /\ main.reportOnFirstRegistration => main.clients = {}

\* The start-up check says nothing when there is no update: "already the
\* latest" is an answer to a user.
StartupSilent == \A w \in Windows : window[w].latest => history.asked

\* Dots run for each progress on the screen and for no other, and what is on
\* the screen is the progress the window holds, so that the end of the download
\* or an error takes it away.  The exception: once "yes" was answered while the
\* progress of an earlier "yes" was awaited, the second takes the place of the
\* first (theia-updater-frontend-contribution.ts:188, 192), which then stays.
ProgressSound ==
    \A w \in Windows :
        /\ window[w].running = window[w].shown
        /\ window[w].interval <=> window[w].progress
        /\ window[w].progress => window[w].shown > 0
        /\ ~window[w].overlapped => window[w].shown = (IF window[w].progress THEN 1 ELSE 0)

UpdaterSound == StartupReported /\ StartupSilent /\ ProgressSound
=============================================================================
