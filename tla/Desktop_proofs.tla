--------------------------- MODULE Desktop_proofs ---------------------------
(***************************************************************************)
(* The extensions of the desktop application keep their types and what     *)
(* they promise, for every number of windows, prompts, folders and         *)
(* commands.  Needed beyond that: a check that is not the first was asked  *)
(* for by a user (CheckAsked), and while answers do not overlap a window   *)
(* awaits or shows one progress at most (ShowsProgress).                   *)
(***************************************************************************)
EXTENDS Desktop, FiniteSetTheorems, TLAPS

WindowType == [open : BOOLEAN, timers : 0 .. 2, prompts : 0 .. MaxPrompts,
               accepted : 0 .. MaxPrompts, progress : BOOLEAN,
               interval : BOOLEAN, shown : 0 .. MaxPrompts,
               running : 0 .. MaxPrompts, overlapped : BOOLEAN,
               readyToUpdate : BOOLEAN, latest : BOOLEAN]

RestTyped ==
  /\ main \in [clients : SUBSET Windows, initialCheck : BOOLEAN,
               reportOnFirstRegistration : BOOLEAN]
  /\ autoUpdater \in [checking : BOOLEAN, download : {"none", "running", "done"}]
  /\ reportOnStart \in BOOLEAN
  /\ history \in [startup : BOOLEAN, told : BOOLEAN, asked : BOOLEAN]

WindowsTyped == window \in [Windows -> WindowType]

CheckAsked == autoUpdater.checking /\ ~main.initialCheck => history.asked
Bookkeeping == StartupReported /\ CheckAsked

\* Of a window: what ProgressSound says of it, and that while answers do not
\* overlap one progress at most is awaited or shown.
ShowsProgress(r) ==
  /\ r.running = r.shown
  /\ r.interval = r.progress
  /\ r.progress => r.shown > 0
  /\ ~r.overlapped => /\ r.shown = (IF r.progress THEN 1 ELSE 0)
                      /\ r.accepted + r.shown <= 1
WindowsSound ==
  \A w \in Windows : ShowsProgress(window[w]) /\ (window[w].latest => history.asked)

UpdaterInv == RestTyped /\ WindowsTyped /\ Bookkeeping /\ WindowsSound

CommandType == [step : Generator!Steps, folder : Generator!Folders, launches : BOOLEAN]

GeneratorInv == Generator!GeneratorTypeOK /\ Generator!ConfigurationSound

LauncherInv == Link!LauncherTypeOK /\ Link!LauncherRemembered

DesktopInv == UpdaterInv /\ LauncherInv /\ GeneratorInv

-----------------------------------------------------------------------------
(* A window                                                                *)

LEMMA FieldsSet ==
  ASSUME NEW r \in WindowType
  PROVE  /\ \A b \in BOOLEAN : /\ [r EXCEPT !.progress = b] \in WindowType
                              /\ [r EXCEPT !.interval = b] \in WindowType
                              /\ [r EXCEPT !.overlapped = b] \in WindowType
         /\ \A n \in 0 .. MaxPrompts : /\ [r EXCEPT !.shown = n] \in WindowType
                                      /\ [r EXCEPT !.running = n] \in WindowType
                                      /\ [r EXCEPT !.accepted = n] \in WindowType
<1>1. ASSUME NEW b \in BOOLEAN
      PROVE  /\ [r EXCEPT !.progress = b] \in WindowType
             /\ [r EXCEPT !.interval = b] \in WindowType
             /\ [r EXCEPT !.overlapped = b] \in WindowType
  BY <1>1, SMT DEF WindowType
<1>2. ASSUME NEW n \in 0 .. MaxPrompts
      PROVE  /\ [r EXCEPT !.shown = n] \in WindowType
             /\ [r EXCEPT !.running = n] \in WindowType
             /\ [r EXCEPT !.accepted = n] \in WindowType
  BY <1>2, SMT DEF WindowType
<1> QED
  BY <1>1, <1>2

LEMMA FieldsTyped ==
  ASSUME NEW r \in WindowType
  PROVE  /\ r.accepted \in Nat /\ r.shown \in Nat /\ r.running \in Nat
         /\ r.accepted <= MaxPrompts /\ r.shown <= MaxPrompts /\ r.running <= MaxPrompts
         /\ r.progress \in BOOLEAN /\ r.interval \in BOOLEAN /\ r.overlapped \in BOOLEAN
BY UpdaterAssumption, SMT DEF WindowType

LEMMA Stopped ==
  ASSUME NEW r \in WindowType, ShowsProgress(r)
  PROVE  LET s == StopProgress(r) IN
         /\ s \in WindowType /\ ShowsProgress(s) /\ ~s.progress
         /\ s.latest = r.latest /\ s.prompts = r.prompts /\ s.accepted = r.accepted
<1> DEFINE n == IF r.progress THEN r.shown - 1 ELSE r.shown
           m == IF r.interval THEN r.running - 1 ELSE r.running
           q1 == [r EXCEPT !.interval = FALSE]
           q2 == [q1 EXCEPT !.running = m]
           q3 == [q2 EXCEPT !.progress = FALSE]
           s == StopProgress(r)
<1>1. s = [q3 EXCEPT !.shown = n]
  BY SMT DEF WindowType, StopProgress
<1>2. n \in 0 .. MaxPrompts /\ m = n
  BY FieldsTyped, UpdaterAssumption DEF ShowsProgress
<1>3. s.latest = r.latest /\ s.prompts = r.prompts /\ s.accepted = r.accepted
  BY SMT DEF WindowType, StopProgress
<1>4. /\ s.overlapped = r.overlapped /\ s.progress = FALSE /\ s.interval = FALSE
      /\ s.shown = n /\ s.running = m
  BY SMT DEF WindowType, StopProgress
<1>5. s \in WindowType
  <2> HIDE DEF n, m, s
  <2>1. q1 \in WindowType
    BY FieldsSet
  <2> HIDE DEF q1
  <2>2. q2 \in WindowType
    BY <1>2, <2>1, FieldsSet
  <2> HIDE DEF q2
  <2>3. q3 \in WindowType
    BY <2>2, FieldsSet
  <2> HIDE DEF q3
  <2> QED
    BY <1>1, <1>2, <2>3, FieldsSet
<1>6. ShowsProgress(s)
  <2> HIDE DEF s
  <2>1. ~r.overlapped => n = 0 /\ r.accepted <= 1
    BY FieldsTyped, SMT DEF ShowsProgress
  <2> HIDE DEF n, m
  <2>2. s.running = s.shown /\ s.interval = s.progress /\ ~s.progress
    BY <1>2, <1>4
  <2>3. ASSUME ~s.overlapped
        PROVE  s.shown = 0 /\ s.accepted + s.shown <= 1
    BY <1>3, <1>4, <2>1, <2>3, FieldsTyped
  <2>4. ~s.overlapped => s.shown = (IF s.progress THEN 1 ELSE 0) /\ s.accepted + s.shown <= 1
    BY <2>2, <2>3, Zenon
  <2> QED
    BY <2>2, <2>4, Zenon DEF ShowsProgress
<1> QED
  BY <1>3, <1>4, <1>5, <1>6

LEMMA Ready ==
  ASSUME NEW r \in WindowType, NEW b \in BOOLEAN
  PROVE  LET s == [r EXCEPT !.readyToUpdate = b] IN
         /\ s \in WindowType /\ (ShowsProgress(r) => ShowsProgress(s)) /\ s.latest = r.latest
BY SMT DEF WindowType, ShowsProgress

LEMMA Latest ==
  ASSUME NEW r \in WindowType, NEW b \in BOOLEAN
  PROVE  LET s == [r EXCEPT !.latest = b] IN
         /\ s \in WindowType /\ (ShowsProgress(r) => ShowsProgress(s))
BY SMT DEF WindowType, ShowsProgress

LEMMA TimersSet ==
  ASSUME NEW r \in WindowType, NEW t \in 0 .. 2
  PROVE  LET s == [r EXCEPT !.timers = t] IN
         /\ s \in WindowType /\ (ShowsProgress(r) => ShowsProgress(s)) /\ s.latest = r.latest
         /\ s.prompts = r.prompts
BY SMT DEF WindowType, ShowsProgress

LEMMA PromptsSet ==
  ASSUME NEW r \in WindowType, NEW p \in 0 .. MaxPrompts
  PROVE  LET s == [r EXCEPT !.prompts = p] IN
         /\ s \in WindowType /\ (ShowsProgress(r) => ShowsProgress(s)) /\ s.latest = r.latest
         /\ s.accepted = r.accepted
BY SMT DEF WindowType, ShowsProgress

LEMMA Accepted ==
  ASSUME NEW r \in WindowType, ShowsProgress(r), ~r.progress, r.accepted < MaxPrompts,
         NEW b \in BOOLEAN, b <=> r.overlapped \/ r.accepted > 0
  PROVE  LET s == [[r EXCEPT !.accepted = r.accepted + 1] EXCEPT !.overlapped = b] IN
         /\ s \in WindowType /\ ShowsProgress(s) /\ s.latest = r.latest
<1> DEFINE q == [r EXCEPT !.accepted = r.accepted + 1]
           s == [q EXCEPT !.overlapped = b]
<1>1. r.accepted + 1 \in 0 .. MaxPrompts
  BY FieldsTyped, UpdaterAssumption
<1>2. /\ s.latest = r.latest /\ s.accepted = r.accepted + 1 /\ s.overlapped = b
      /\ s.shown = r.shown /\ s.running = r.running
      /\ s.progress = r.progress /\ s.interval = r.interval
  BY SMT DEF WindowType
<1>3. q \in WindowType
  BY <1>1, FieldsSet
<1> HIDE DEF q
<1>4. s \in WindowType
  BY <1>3, FieldsSet
<1> HIDE DEF s
<1>5. ShowsProgress(s)
  <2>1. ~b => ~r.overlapped /\ r.accepted = 0
    BY FieldsTyped
  <2> QED
    BY <1>2, <2>1, FieldsTyped, SMT DEF ShowsProgress
<1> QED
  BY <1>2, <1>4, <1>5 DEF s, q

LEMMA Showing ==
  ASSUME NEW r \in WindowType, ShowsProgress(r), r.accepted > 0, r.shown < MaxPrompts
  PROVE  LET s == [r EXCEPT !.accepted = @ - 1, !.progress = TRUE, !.shown = @ + 1,
                            !.interval = TRUE, !.running = @ + 1] IN
         /\ s \in WindowType /\ ShowsProgress(s) /\ s.latest = r.latest
<1> DEFINE q1 == [r EXCEPT !.accepted = r.accepted - 1]
           q2 == [q1 EXCEPT !.progress = TRUE]
           q3 == [q2 EXCEPT !.shown = r.shown + 1]
           q4 == [q3 EXCEPT !.interval = TRUE]
           s == [r EXCEPT !.accepted = @ - 1, !.progress = TRUE, !.shown = @ + 1,
                          !.interval = TRUE, !.running = @ + 1]
<1>1. s = [q4 EXCEPT !.running = r.running + 1]
  BY SMT DEF WindowType
<1>2. s.latest = r.latest
  BY SMT DEF WindowType
<1>3. /\ s.accepted = r.accepted - 1 /\ s.overlapped = r.overlapped
      /\ s.shown = r.shown + 1 /\ s.running = r.running + 1
      /\ s.progress = TRUE /\ s.interval = TRUE
  BY SMT DEF WindowType
<1>4. /\ r.accepted - 1 \in 0 .. MaxPrompts /\ r.shown + 1 \in 0 .. MaxPrompts
      /\ r.running = r.shown
  BY FieldsTyped, UpdaterAssumption DEF ShowsProgress
<1> HIDE DEF s
<1>5. s \in WindowType
  <2>1. q1 \in WindowType
    BY <1>4, FieldsSet
  <2> HIDE DEF q1
  <2>2. q2 \in WindowType
    BY <2>1, FieldsSet
  <2> HIDE DEF q2
  <2>3. q3 \in WindowType
    BY <1>4, <2>2, FieldsSet
  <2> HIDE DEF q3
  <2>4. q4 \in WindowType
    BY <2>3, FieldsSet
  <2> HIDE DEF q4
  <2> QED
    BY <1>1, <1>4, <2>4, FieldsSet
<1>6. ShowsProgress(s)
  <2>1. ~r.overlapped => r.shown = 0 /\ r.accepted = 1
    BY FieldsTyped, SMT DEF ShowsProgress
  <2>2. s.running = s.shown /\ s.interval = s.progress /\ s.progress
    BY <1>3, <1>4
  <2>3. s.shown > 0
    BY <1>3, FieldsTyped
  <2>4. ASSUME ~s.overlapped
        PROVE  s.shown = 1 /\ s.accepted + s.shown <= 1
    BY <1>3, <2>1, <2>4, FieldsTyped
  <2>5. ~s.overlapped => s.shown = (IF s.progress THEN 1 ELSE 0) /\ s.accepted + s.shown <= 1
    BY <2>2, <2>4, Zenon
  <2> QED
    BY <2>2, <2>3, <2>5, Zenon DEF ShowsProgress
<1> QED
  BY <1>2, <1>5, <1>6 DEF s

LEMMA IsInformed ==
  ASSUME NEW r \in WindowType, NEW b \in BOOLEAN, r.timers < 2, r.prompts < MaxPrompts
  PROVE  LET s == Informed(r, b) IN
         /\ s \in WindowType /\ (ShowsProgress(r) => ShowsProgress(s)) /\ s.latest = r.latest
BY UpdaterAssumption, SMT DEF WindowType, ShowsProgress, Informed

LEMMA Closed ==
  /\ NewWindow \in WindowType /\ ShowsProgress(NewWindow) /\ ~NewWindow.latest
  /\ NewWindow.timers = 0 /\ NewWindow.prompts = 0
<1>1. NewWindow \in WindowType
  BY UpdaterAssumption, SMT DEF WindowType, NewWindow
<1>2. NewWindow.timers = 0 /\ NewWindow.prompts = 0
  BY SMT DEF NewWindow
<1>3. ShowsProgress(NewWindow) /\ ~NewWindow.latest
  BY SMT DEF ShowsProgress, NewWindow
<1> QED
  BY <1>1, <1>2, <1>3

LEMMA OpenSet ==
  ASSUME NEW r \in WindowType, NEW b \in BOOLEAN
  PROVE  LET s == [r EXCEPT !.open = b] IN
         /\ s \in WindowType /\ (ShowsProgress(r) => ShowsProgress(s)) /\ s.latest = r.latest
         /\ s.timers = r.timers /\ s.prompts = r.prompts
BY SMT DEF WindowType, ShowsProgress

LEMMA Opened ==
  LET r == [NewWindow EXCEPT !.open = TRUE] IN
  /\ r \in WindowType /\ ShowsProgress(r) /\ ~r.latest /\ r.timers = 0 /\ r.prompts = 0
<1>1. TRUE \in BOOLEAN
  OBVIOUS
<1> QED
  BY <1>1, Closed, OpenSet, Zenon

-----------------------------------------------------------------------------
(* The updater                                                             *)

LEMMA UpdaterStarts == UpdaterInit => UpdaterInv
<1> SUFFICES ASSUME UpdaterInit PROVE UpdaterInv
  OBVIOUS
<1>1. RestTyped /\ Bookkeeping
  BY SMT DEF UpdaterInit, RestTyped, Bookkeeping, StartupReported, CheckAsked
<1>2. WindowsTyped /\ WindowsSound
  BY Closed DEF UpdaterInit, WindowsTyped, WindowsSound
<1> QED
  BY <1>1, <1>2 DEF UpdaterInv

LEMMA UpdateAvailableKeeps ==
  ASSUME UpdaterInv, UpdateAvailable
  PROVE  UpdaterInv'
<1>1. RestTyped'
  BY DEF UpdaterInv, RestTyped, UpdateAvailable
<1>2. Bookkeeping'
  BY DEF UpdaterInv, RestTyped, Bookkeeping, StartupReported, CheckAsked, UpdateAvailable
<1>3. WindowsTyped'
  BY IsInformed DEF UpdaterInv, RestTyped, WindowsTyped, UpdateAvailable,
     RoomToInform, InformAll
<1>4. WindowsSound'
  BY IsInformed DEF UpdaterInv, RestTyped, Bookkeeping, CheckAsked, WindowsTyped, WindowsSound,
     UpdateAvailable, RoomToInform, InformAll
<1> QED
  BY <1>1, <1>2, <1>3, <1>4 DEF UpdaterInv

LEMMA UpdateNotAvailableKeeps ==
  ASSUME UpdaterInv, UpdateNotAvailable
  PROVE  UpdaterInv'
<1>1. RestTyped'
  BY DEF UpdaterInv, RestTyped, UpdateNotAvailable
<1>2. Bookkeeping'
  BY DEF UpdaterInv, RestTyped, Bookkeeping, StartupReported, CheckAsked, UpdateNotAvailable
<1>3. WindowsTyped'
  BY Latest DEF UpdaterInv, RestTyped, WindowsTyped, UpdateNotAvailable
<1>4. WindowsSound'
  BY Latest DEF UpdaterInv, RestTyped, Bookkeeping, CheckAsked, WindowsTyped, WindowsSound,
     UpdateNotAvailable
<1> QED
  BY <1>1, <1>2, <1>3, <1>4 DEF UpdaterInv

LEMMA UpdateErrorKeeps ==
  ASSUME UpdaterInv, UpdateError
  PROVE  UpdaterInv'
<1>1. RestTyped'
  BY DEF UpdaterInv, RestTyped, UpdateError
<1>2. Bookkeeping'
  BY DEF UpdaterInv, RestTyped, Bookkeeping, StartupReported, CheckAsked, UpdateError
<1>3. WindowsTyped'
  BY Stopped DEF UpdaterInv, RestTyped, WindowsTyped, WindowsSound, UpdateError
<1>4. WindowsSound'
  BY Stopped DEF UpdaterInv, RestTyped, Bookkeeping, CheckAsked, WindowsTyped, WindowsSound,
     UpdateError
<1> QED
  BY <1>1, <1>2, <1>3, <1>4 DEF UpdaterInv

LEMMA UpdateDownloadedKeeps ==
  ASSUME UpdaterInv, UpdateDownloaded
  PROVE  UpdaterInv'
<1>1. RestTyped'
  BY DEF UpdaterInv, RestTyped, UpdateDownloaded
<1>2. Bookkeeping'
  BY DEF UpdaterInv, RestTyped, Bookkeeping, StartupReported, CheckAsked, UpdateDownloaded
<1>3. ASSUME NEW v \in Windows
      PROVE  LET r == IF window[v].progress THEN StopProgress(window[v]) ELSE window[v]
                 s == [r EXCEPT !.readyToUpdate = TRUE] IN
             s \in WindowType /\ ShowsProgress(s) /\ s.latest = window[v].latest
  <2> DEFINE r == IF window[v].progress THEN StopProgress(window[v]) ELSE window[v]
  <2>1. window[v] \in WindowType /\ ShowsProgress(window[v])
    BY <1>3 DEF UpdaterInv, WindowsTyped, WindowsSound
  <2>2. r \in WindowType /\ ShowsProgress(r) /\ r.latest = window[v].latest
    BY <2>1, Stopped, Zenon
  <2> QED
    BY <2>2, Ready, Zenon
<1>4. WindowsTyped'
  BY <1>3 DEF UpdaterInv, WindowsTyped, UpdateDownloaded
<1>5. ASSUME NEW v \in Windows
      PROVE  ShowsProgress(window'[v]) /\ (window'[v].latest => history'.asked)
  <2>1. ShowsProgress(window[v]) /\ (window[v].latest => history.asked) /\ history' = history
    BY <1>5 DEF UpdaterInv, WindowsSound, UpdateDownloaded
  <2>2. CASE v \in main.clients
    BY <1>3, <1>5, <2>1, <2>2, Zenon DEF UpdateDownloaded
  <2>3. CASE v \notin main.clients
    BY <1>5, <2>1, <2>3, Zenon DEF UpdateDownloaded
  <2> QED
    BY <2>2, <2>3
<1> QED
  BY <1>1, <1>2, <1>4, <1>5 DEF UpdaterInv, WindowsSound

LEMMA WindowOpensKeeps ==
  ASSUME UpdaterInv, NEW w \in Windows, WindowOpens(w)
  PROVE  UpdaterInv'
<1> DEFINE r == [NewWindow EXCEPT !.open = TRUE]
<1>1. RestTyped'
  BY DEF UpdaterInv, RestTyped, WindowOpens
<1>2. Bookkeeping'
  BY DEF UpdaterInv, RestTyped, Bookkeeping, StartupReported, CheckAsked, WindowOpens
<1>3. r \in WindowType /\ ShowsProgress(r) /\ ~r.latest /\ r.timers = 0 /\ r.prompts = 0
  BY Opened
<1>4. LET s == Informed(r, TRUE) IN s \in WindowType /\ ShowsProgress(s) /\ ~s.latest
  <2>1. TRUE \in BOOLEAN /\ r.timers < 2 /\ r.prompts < MaxPrompts
    BY <1>3, UpdaterAssumption
  <2> HIDE DEF r
  <2> QED
    BY <1>3, <2>1, IsInformed, Zenon
<1>5. window'[w] \in {r, Informed(r, TRUE)}
  BY DEF WindowOpens
<1>6. \A v \in Windows \ {w} : window'[v] = window[v]
  BY DEF WindowOpens, UpdaterInv, Bookkeeping, StartupReported
<1>7. window' = [v \in Windows |-> window'[v]]
  BY DEF WindowOpens
<1>8. history'.asked = history.asked
  BY DEF WindowOpens, UpdaterInv, RestTyped
<1> HIDE DEF r
<1>9. WindowsTyped'
  BY <1>3, <1>4, <1>5, <1>6, <1>7 DEF UpdaterInv, WindowsTyped
<1>10. WindowsSound'
  BY <1>3, <1>4, <1>5, <1>6, <1>8 DEF UpdaterInv, WindowsSound
<1> QED
  BY <1>1, <1>2, <1>9, <1>10 DEF UpdaterInv

LEMMA WindowClosesKeeps ==
  ASSUME UpdaterInv, NEW w \in Windows, WindowCloses(w)
  PROVE  UpdaterInv'
<1>1. RestTyped'
  BY DEF UpdaterInv, RestTyped, WindowCloses
<1>2. Bookkeeping'
  BY DEF UpdaterInv, RestTyped, Bookkeeping, StartupReported, CheckAsked, WindowCloses
<1>3. WindowsTyped'
  BY Closed DEF UpdaterInv, RestTyped, WindowsTyped, WindowCloses
<1>4. WindowsSound'
  BY Closed DEF UpdaterInv, RestTyped, Bookkeeping, CheckAsked, WindowsTyped, WindowsSound,
     WindowCloses
<1> QED
  BY <1>1, <1>2, <1>3, <1>4 DEF UpdaterInv

LEMMA CheckForUpdatesKeeps ==
  ASSUME UpdaterInv, NEW w \in Windows, CheckForUpdates(w)
  PROVE  UpdaterInv'
<1>1. RestTyped'
  BY DEF UpdaterInv, RestTyped, CheckForUpdates
<1>2. Bookkeeping'
  BY DEF UpdaterInv, RestTyped, Bookkeeping, StartupReported, CheckAsked, CheckForUpdates
<1>3. WindowsTyped'
  BY DEF UpdaterInv, RestTyped, WindowsTyped, CheckForUpdates
<1>4. WindowsSound'
  BY DEF UpdaterInv, RestTyped, Bookkeeping, CheckAsked, WindowsTyped, WindowsSound,
     CheckForUpdates
<1> QED
  BY <1>1, <1>2, <1>3, <1>4 DEF UpdaterInv

LEMMA ReportOnStartKeeps ==
  ASSUME UpdaterInv, NEW w \in Windows, ReportOnStart(w)
  PROVE  UpdaterInv'
<1> DEFINE r1 == [window[w] EXCEPT !.timers = @ - 1]
           r2 == [r1 EXCEPT !.prompts = IF reportOnStart THEN @ + 1 ELSE @]
<1>1. RestTyped'
  BY DEF UpdaterInv, RestTyped, ReportOnStart
<1>2. Bookkeeping'
  BY DEF UpdaterInv, RestTyped, Bookkeeping, StartupReported, CheckAsked, ReportOnStart
<1>3. /\ window[w] \in WindowType
      /\ window[w].timers - 1 \in 0 .. 2
      /\ window[w].prompts \in 0 .. MaxPrompts /\ window[w].prompts < MaxPrompts
  BY UpdaterAssumption, SMT DEF UpdaterInv, WindowsTyped, WindowType, ReportOnStart
<1>4. /\ r2 \in WindowType /\ r2.latest = window[w].latest
      /\ ShowsProgress(window[w]) => ShowsProgress(r2)
  <2>1. r1 \in WindowType /\ (ShowsProgress(window[w]) => ShowsProgress(r1))
        /\ r1.latest = window[w].latest /\ r1.prompts = window[w].prompts
    BY <1>3, TimersSet
  <2>2. (IF reportOnStart THEN r1.prompts + 1 ELSE r1.prompts) \in 0 .. MaxPrompts
    BY <1>3, <2>1, UpdaterAssumption, SMT DEF ReportOnStart
  <2> QED
    BY <2>1, <2>2, PromptsSet
<1>5. window' = [window EXCEPT ![w] = r2]
  BY DEF UpdaterInv, WindowsTyped, ReportOnStart
<1> HIDE DEF r2
<1>6. WindowsTyped' /\ WindowsSound'
  BY <1>4, <1>5 DEF UpdaterInv, WindowsTyped, WindowsSound, ReportOnStart
<1> QED
  BY <1>1, <1>2, <1>6 DEF UpdaterInv

LEMMA AnswerNoKeeps ==
  ASSUME UpdaterInv, NEW w \in Windows, AnswerNo(w)
  PROVE  UpdaterInv'
<1> DEFINE r2 == [window[w] EXCEPT !.prompts = @ - 1]
<1>1. RestTyped'
  BY DEF UpdaterInv, RestTyped, AnswerNo
<1>2. Bookkeeping'
  BY DEF UpdaterInv, RestTyped, Bookkeeping, StartupReported, CheckAsked, AnswerNo
<1>3. /\ window[w] \in WindowType
      /\ window[w].prompts - 1 \in 0 .. MaxPrompts
  BY UpdaterAssumption, SMT DEF UpdaterInv, WindowsTyped, WindowType, AnswerNo
<1>4. /\ r2 \in WindowType /\ r2.latest = window[w].latest
      /\ ShowsProgress(window[w]) => ShowsProgress(r2)
  <2> QED
    BY <1>3, PromptsSet
<1>5. window' = [window EXCEPT ![w] = r2]
  BY DEF UpdaterInv, WindowsTyped, AnswerNo
<1> HIDE DEF r2
<1>6. WindowsTyped' /\ WindowsSound'
  BY <1>4, <1>5 DEF UpdaterInv, WindowsTyped, WindowsSound, AnswerNo
<1> QED
  BY <1>1, <1>2, <1>6 DEF UpdaterInv

LEMMA AnswerYesKeeps ==
  ASSUME UpdaterInv, NEW w \in Windows, AnswerYes(w)
  PROVE  UpdaterInv'
<1> DEFINE r0 == StopProgress(window[w])
           r1 == [r0 EXCEPT !.prompts = @ - 1]
           b == r0.overlapped \/ r0.accepted > 0
           r2 == [[r1 EXCEPT !.accepted = r1.accepted + 1] EXCEPT !.overlapped = b]
<1>1. RestTyped'
  BY DEF UpdaterInv, RestTyped, AnswerYes
<1>2. Bookkeeping'
  BY DEF UpdaterInv, RestTyped, Bookkeeping, StartupReported, CheckAsked, AnswerYes
<1>3. /\ window[w] \in WindowType /\ ShowsProgress(window[w])
      /\ window[w].prompts - 1 \in 0 .. MaxPrompts
      /\ window[w].accepted < MaxPrompts
  BY UpdaterAssumption, SMT DEF UpdaterInv, WindowsTyped, WindowsSound, WindowType, AnswerYes
<1>4. /\ r0 \in WindowType /\ ShowsProgress(r0) /\ ~r0.progress /\ r0.latest = window[w].latest
      /\ r0.prompts = window[w].prompts /\ r0.accepted = window[w].accepted
  BY <1>3, Stopped, Zenon
<1>5. window' = [window EXCEPT ![w] = [r0 EXCEPT !.prompts = @ - 1, !.accepted = @ + 1,
                                                 !.overlapped = @ \/ r0.accepted > 0]]
  BY Zenon DEF AnswerYes
<1> HIDE DEF r0
<1>6. /\ r1 \in WindowType /\ ShowsProgress(r1) /\ ~r1.progress /\ r1.latest = r0.latest
      /\ r1.accepted = r0.accepted /\ r1.overlapped = r0.overlapped
  <2>1. r1.progress = r0.progress /\ r1.overlapped = r0.overlapped
    BY <1>4, SMT DEF WindowType
  <2>2. r0.prompts - 1 \in 0 .. MaxPrompts
    BY <1>3, <1>4
  <2> QED
    BY <1>4, <2>1, <2>2, PromptsSet, Zenon
<1>7. r2 = [r0 EXCEPT !.prompts = @ - 1, !.accepted = @ + 1, !.overlapped = @ \/ r0.accepted > 0]
  <2> HIDE DEF b
  <2>1. r2 = [[[r0 EXCEPT !.prompts = r0.prompts - 1] EXCEPT !.accepted = r0.accepted + 1]
                EXCEPT !.overlapped = b]
    BY <1>6
  <2> QED
    BY <2>1 DEF b
<1> HIDE DEF r1
<1>8. r2 \in WindowType /\ ShowsProgress(r2) /\ r2.latest = window[w].latest
  <2>1. r1.accepted < MaxPrompts /\ b \in BOOLEAN /\ (b <=> r1.overlapped \/ r1.accepted > 0)
    BY <1>3, <1>4, <1>6, FieldsTyped
  <2> HIDE DEF b
  <2> QED
    BY <1>4, <1>6, <2>1, Accepted, Zenon
<1> HIDE DEF r2
<1>9. WindowsTyped' /\ WindowsSound'
  BY <1>5, <1>7, <1>8 DEF UpdaterInv, WindowsTyped, WindowsSound, AnswerYes
<1> QED
  BY <1>1, <1>2, <1>9 DEF UpdaterInv

LEMMA ProgressShownKeeps ==
  ASSUME UpdaterInv, NEW w \in Windows, ProgressShown(w)
  PROVE  UpdaterInv'
<1> DEFINE r2 == [window[w] EXCEPT !.accepted = @ - 1, !.progress = TRUE, !.shown = @ + 1,
                                   !.interval = TRUE, !.running = @ + 1]
<1>1. RestTyped'
  BY DEF UpdaterInv, RestTyped, ProgressShown
<1>2. Bookkeeping'
  BY DEF UpdaterInv, RestTyped, Bookkeeping, StartupReported, CheckAsked, ProgressShown
<1>3. /\ window[w] \in WindowType /\ ShowsProgress(window[w])
      /\ window[w].accepted > 0 /\ window[w].shown < MaxPrompts
  BY DEF UpdaterInv, WindowsTyped, WindowsSound, ProgressShown
<1>4. r2 \in WindowType /\ ShowsProgress(r2) /\ r2.latest = window[w].latest
  BY <1>3, Showing, Zenon
<1>5. window' = [window EXCEPT ![w] = r2]
  BY DEF UpdaterInv, WindowsTyped, ProgressShown
<1> HIDE DEF r2
<1>6. history' = history
  BY DEF ProgressShown
<1>7. WindowsTyped' /\ WindowsSound'
  BY <1>4, <1>5, <1>6 DEF UpdaterInv, WindowsTyped, WindowsSound
<1> QED
  BY <1>1, <1>2, <1>7 DEF UpdaterInv

LEMMA RestartToUpdateKeeps ==
  ASSUME UpdaterInv, NEW w \in Windows, RestartToUpdate(w)
  PROVE  UpdaterInv'
<1>1. RestTyped'
  BY DEF UpdaterInv, RestTyped, RestartToUpdate, AppStarts
<1>2. Bookkeeping'
  BY DEF UpdaterInv, RestTyped, Bookkeeping, StartupReported, CheckAsked,
     RestartToUpdate, AppStarts
<1>3. WindowsTyped'
  BY Closed DEF UpdaterInv, RestTyped, WindowsTyped, RestartToUpdate, AppStarts
<1>4. WindowsSound'
  BY Closed DEF UpdaterInv, RestTyped, Bookkeeping, CheckAsked, WindowsTyped, WindowsSound,
     RestartToUpdate, AppStarts
<1> QED
  BY <1>1, <1>2, <1>3, <1>4 DEF UpdaterInv

LEMMA UpdaterKeeps ==
  ASSUME UpdaterInv, UpdaterStep \/ UNCHANGED updaterVars
  PROVE  UpdaterInv'
<1>1. CASE UNCHANGED updaterVars
  BY <1>1 DEF UpdaterInv, RestTyped, WindowsTyped, Bookkeeping, StartupReported, CheckAsked,
     WindowsSound, updaterVars
<1> QED
  BY <1>1, UpdateAvailableKeeps, UpdateNotAvailableKeeps, UpdateErrorKeeps,
     UpdateDownloadedKeeps, WindowOpensKeeps, WindowClosesKeeps,
     CheckForUpdatesKeeps, ReportOnStartKeeps, AnswerNoKeeps, AnswerYesKeeps,
     ProgressShownKeeps, RestartToUpdateKeeps DEF UpdaterStep

-----------------------------------------------------------------------------
(* The launcher                                                            *)

LEMMA LauncherStarts == Link!LauncherInit => LauncherInv
BY DEF Link!LauncherInit, LauncherInv, Link!LauncherTypeOK, Link!LauncherRemembered,
   Link!Entries, Link!NoRequest

RequestType == [step : {"none", "sent", "stored", "read"}, create : BOOLEAN,
                data : SUBSET Link!Entries]

LEMMA StoreKeeps ==
  ASSUME LauncherInv, NEW w \in Windows, NEW data \in SUBSET Link!Entries,
         Link!StoreAnswer(w, data)
  PROVE  LauncherInv'
<1> USE DEF LauncherInv, Link!LauncherTypeOK, Link!Entries
<1>1. Link!NoRequest \in RequestType
  BY DEF Link!NoRequest, RequestType
<1>2. /\ appImage' = appImage /\ launcher' = launcher /\ asking' = asking
      /\ request' \in [Windows -> RequestType]
  BY <1>1 DEF Link!StoreAnswer, RequestType
<1>3. CASE /\ storage' = [exists |-> TRUE,
                          entries |-> data \cup {IF request[w].create THEN "target" ELSE "declined"}]
           /\ writes' = [writes EXCEPT !.done = TRUE]
  <2>1. storage'.entries # {} /\ storage' \in [exists : BOOLEAN, entries : SUBSET Link!Entries]
    BY <1>3
  <2> QED
    BY <1>2, <1>3, <2>1 DEF Link!LauncherRemembered, Link!Initialized, RequestType
<1>4. CASE /\ storage' \in {storage, [exists |-> TRUE, entries |-> {}]}
           /\ writes' = [writes EXCEPT !.failed = TRUE]
  <2>1. storage' \in [exists : BOOLEAN, entries : SUBSET Link!Entries]
    <3>1. storage' = storage \/ storage' = [exists |-> TRUE, entries |-> {}]
      BY <1>4, Zenon
    <3>2. [exists |-> TRUE, entries |-> {}] \in [exists : BOOLEAN, entries : SUBSET Link!Entries]
      OBVIOUS
    <3>3. storage \in [exists : BOOLEAN, entries : SUBSET Link!Entries]
      BY Zenon
    <3> QED
      BY <3>1, <3>2, <3>3, Zenon
  <2>2. writes \in [done : BOOLEAN, failed : BOOLEAN] /\ writes' = [writes EXCEPT !.failed = TRUE]
    <3>1. writes \in [done : BOOLEAN, failed : BOOLEAN]
      BY Zenon
    <3> QED
      BY <1>4, <3>1
  <2>3. writes' \in [done : BOOLEAN, failed : BOOLEAN] /\ writes'.failed
    BY <2>2
  <2> QED
    BY <1>2, <2>1, <2>3 DEF Link!LauncherRemembered, RequestType
<1> QED
  BY <1>3, <1>4 DEF Link!StoreAnswer

LEMMA LauncherKeeps ==
  ASSUME LauncherInv, Link!LauncherStep \/ UNCHANGED launcherPart
  PROVE  LauncherInv'
<1> USE DEF LauncherInv, Link!LauncherTypeOK, Link!LauncherRemembered, Link!Initialized,
        Link!Underway
<1>1. CASE UNCHANGED launcherPart
  BY <1>1 DEF launcherPart
<1>2. CASE Link!LauncherInstalled
  BY <1>2 DEF Link!LauncherInstalled
<1>3. ASSUME NEW w \in Windows, Link!IsInitialized(w)
      PROVE  LauncherInv'
  BY <1>3 DEF Link!IsInitialized
<1>4. ASSUME NEW w \in Windows, Link!WindowStarts(w)
      PROVE  LauncherInv'
  BY <1>4 DEF Link!WindowStarts
<1>5. ASSUME NEW w \in Windows, Link!AnswerDialog(w)
      PROVE  LauncherInv'
  <2>1. PICK create \in BOOLEAN :
          request' = [request EXCEPT ![w] = [step |-> "sent", create |-> create, data |-> {}]]
    BY <1>5 DEF Link!AnswerDialog
  <2>2. request' \in [Windows -> RequestType]
    BY <2>1 DEF RequestType
  <2>3. Link!Underway' = Link!Underway
    BY <1>5, <2>1 DEF Link!AnswerDialog
  <2> HIDE DEF Link!Underway
  <2> QED
    BY <1>5, <2>2, <2>3 DEF Link!AnswerDialog, RequestType
<1>6. ASSUME NEW w \in Windows, Link!CreateLauncher(w)
      PROVE  LauncherInv'
  <2> DEFINE sent == [request[w] EXCEPT !.step = "stored"]
  <2>1. request[w] \in RequestType /\ request[w].step = "sent"
    BY <1>6 DEF Link!CreateLauncher, RequestType
  <2>2. sent \in RequestType /\ sent.step = "stored" /\ sent.create = request[w].create
        /\ Link!NoRequest \in RequestType
    BY <2>1 DEF RequestType, Link!NoRequest
  <2>3. request' \in {[request EXCEPT ![w] = sent], [request EXCEPT ![w] = Link!NoRequest]}
    BY <1>6 DEF Link!CreateLauncher
  <2> HIDE DEF sent
  <2>4. request' \in [Windows -> RequestType]
    BY <2>2, <2>3 DEF RequestType
  <2>5. Link!Underway \subseteq Link!Underway'
    BY <2>1, <2>3
  <2>6. launcher' # launcher => w \in Link!Underway'
    BY <1>6, <2>1, <2>4 DEF Link!CreateLauncher
  <2> HIDE DEF Link!Underway
  <2> QED
    BY <1>6, <2>4, <2>5, <2>6 DEF Link!CreateLauncher, RequestType
<1>7. ASSUME NEW w \in Windows, Link!ReadPaths(w)
      PROVE  LauncherInv'
  <2>1. CASE Link!StoreAnswer(w, {})
    BY <2>1, StoreKeeps
  <2>2. CASE /\ request' = [request EXCEPT ![w].step = "read", ![w].data = storage.entries]
             /\ UNCHANGED <<appImage, storage, launcher, asking, writes>>
    <3>1. request' \in [Windows -> RequestType]
      BY <2>2 DEF RequestType
    <3>2. Link!Underway' = Link!Underway
      BY <1>7, <2>2 DEF Link!ReadPaths
    <3> HIDE DEF Link!Underway
    <3> QED
      BY <2>2, <3>1, <3>2 DEF RequestType
  <2> QED
    BY <1>7, <2>1, <2>2 DEF Link!ReadPaths
<1>8. ASSUME NEW w \in Windows, Link!PathsRead(w)
      PROVE  LauncherInv'
  BY <1>8, StoreKeeps DEF Link!PathsRead
<1> QED
  BY <1>1, <1>2, <1>3, <1>4, <1>5, <1>6, <1>7, <1>8 DEF Link!LauncherStep

-----------------------------------------------------------------------------
(* The generator of examples                                               *)

LEMMA SameCount == ASSUME NEW S PROVE Generator!Cardinality(S) = Cardinality(S)
BY Zenon DEF Generator!Cardinality, Cardinality

LEMMA PartFinite ==
  ASSUME NEW S \in SUBSET Commands
  PROVE  IsFiniteSet(S) /\ Cardinality(S) \in 0 .. Cardinality(Commands)
<1>1. IsFiniteSet(S) /\ Cardinality(S) <= Cardinality(Commands)
  BY DesktopAssumption, FS_Subset
<1>2. Cardinality(S) \in Nat /\ Cardinality(Commands) \in Nat
  BY <1>1, DesktopAssumption, FS_CardinalityType
<1> QED
  BY <1>1, <1>2

LEMMA FoldersNamed ==
  /\ (CHOOSE f \in Generator!Folders : TRUE) \in Generator!Folders
  /\ \A f \in Generator!Folders : Generator!NameOf(f) \in Generator!Folders
<1>1. PICK n \in Names : TRUE
  BY DesktopAssumption
<1>2. [name |-> n, extension |-> Generator!NoExtension] \in Generator!Folders
  BY <1>1 DEF Generator!Folders
<1> QED
  BY <1>2 DEF Generator!Folders, Generator!NameOf

\* What is kept of the configuration and of the commands.
WorkspaceType == [folders : SUBSET Generator!Folders,
                  tasks : [Generator!Folders -> 0 .. Cardinality(Commands)],
                  launches : [Generator!Folders -> 0 .. Cardinality(Commands)], roots : 0 .. 2]

Listed(g) ==
  /\ workspace.tasks[g] > 0 =>
       \E c \in Generator!Generated(g) : command[c].folder \in workspace.folders
  /\ workspace.tasks[g] <= Cardinality(Generator!Generated(g))
  /\ workspace.launches[g] <= workspace.tasks[g]

LEMMA GeneratorInvIs ==
  GeneratorInv <=> /\ workspace \in WorkspaceType /\ command \in [Commands -> CommandType]
                   /\ \A g \in Generator!Folders : Listed(g)
BY SameCount DEF GeneratorInv, Generator!GeneratorTypeOK, Generator!ConfigurationSound,
   Generator!Count, WorkspaceType, CommandType, Listed

LEMMA GeneratorInvNext ==
  GeneratorInv' <=> /\ workspace' \in WorkspaceType /\ command' \in [Commands -> CommandType]
                    /\ \A g \in Generator!Folders : Listed(g)'
BY SameCount DEF GeneratorInv, Generator!GeneratorTypeOK, Generator!ConfigurationSound,
   Generator!Count, WorkspaceType, CommandType, Listed

LEMMA GeneratorStarts == Generator!GeneratorInit => GeneratorInv
<1> SUFFICES ASSUME Generator!GeneratorInit PROVE GeneratorInv
  OBVIOUS
<1>1. Cardinality(Commands) \in Nat
  BY DesktopAssumption, FS_CardinalityType
<1>2. \A g \in Generator!Folders : Cardinality(Generator!Generated(g)) \in Nat
  BY PartFinite DEF Generator!Generated
<1>3. workspace \in WorkspaceType
  BY <1>1 DEF Generator!GeneratorInit, WorkspaceType
<1>4. command \in [Commands -> CommandType]
  BY FoldersNamed DEF Generator!GeneratorInit, Generator!NoCommand, CommandType, Generator!Steps
<1>5. \A g \in Generator!Folders : Listed(g)
  BY <1>2 DEF Generator!GeneratorInit, Listed
<1> QED
  BY <1>3, <1>4, <1>5, GeneratorInvIs

\* A step of a command that generates nothing.
LEMMA CommandKeeps ==
  ASSUME GeneratorInv, NEW c \in Commands, NEW r \in CommandType,
         command[c].step # "generated", r.step # "generated",
         command' = [command EXCEPT ![c] = r], workspace' = workspace
  PROVE  GeneratorInv'
<1>1. /\ workspace \in WorkspaceType /\ command \in [Commands -> CommandType]
      /\ \A g \in Generator!Folders : Listed(g)
  BY GeneratorInvIs
<1>2. command' \in [Commands -> CommandType]
  BY <1>1
<1>3. ASSUME NEW g \in Generator!Folders
      PROVE  Listed(g)'
  <2>1. Generator!Generated(g)' = Generator!Generated(g)
    BY <1>1 DEF Generator!Generated
  <2>2. \A d \in Generator!Generated(g) : command'[d].folder = command[d].folder
    BY <1>1 DEF Generator!Generated
  <2>3. Listed(g)
    BY <1>1
  <2> HIDE DEF Generator!Generated
  <2> QED
    BY <2>1, <2>2, <2>3 DEF Listed
<1> QED
  BY <1>1, <1>2, <1>3, GeneratorInvNext

LEMMA GenerateKeeps ==
  ASSUME GeneratorInv, NEW c \in Commands, Generator!GenerateExample(c)
  PROVE  GeneratorInv'
<1> DEFINE f == command[c].folder
           n == Generator!NameOf(f)
           copied == [workspace EXCEPT !.folders = @ \cup {f}]
           withTasks == [copied EXCEPT !.tasks[n] = @ + 1]
           withLaunches == [withTasks EXCEPT !.launches[n] = @ + 1]
<1>1. /\ workspace \in WorkspaceType /\ command \in [Commands -> CommandType]
      /\ \A g \in Generator!Folders : Listed(g)
  BY GeneratorInvIs
<1>2. command[c] \in CommandType /\ command[c].step = "progress"
  BY <1>1 DEF Generator!GenerateExample
<1>3. CASE command' = [command EXCEPT ![c].step = "over"] /\ UNCHANGED workspace
  <2> DEFINE r == [command[c] EXCEPT !.step = "over"]
  <2>1. r \in CommandType /\ r.step = "over"
    BY <1>2 DEF CommandType, Generator!Steps
  <2>2. command' = [command EXCEPT ![c] = r]
    BY <1>3
  <2> HIDE DEF r
  <2> QED
    BY <1>2, <1>3, <2>1, <2>2, CommandKeeps
<1>4. CASE /\ command' = [command EXCEPT ![c].step = "generated"]
           /\ workspace' \in {copied, withTasks, withLaunches}
  <2> DEFINE r == [command[c] EXCEPT !.step = "generated"]
  <2>1. r \in CommandType /\ r.step = "generated" /\ r.folder = f
    BY <1>2 DEF CommandType, Generator!Steps
  <2>2. command' = [command EXCEPT ![c] = r]
    BY <1>4
  <2> HIDE DEF r
  <2>3. command' \in [Commands -> CommandType]
    BY <1>1, <2>1, <2>2
  <2>4. f \in Generator!Folders /\ n \in Generator!Folders
    BY <1>2, FoldersNamed DEF CommandType
  <2>5. Cardinality(Commands) \in Nat
    BY DesktopAssumption, FS_CardinalityType
  \* The configuration after the step.
  <2>6. /\ copied.folders = workspace.folders \cup {f} /\ copied.tasks = workspace.tasks
        /\ copied.launches = workspace.launches /\ copied \in WorkspaceType
    BY <1>1, <2>4 DEF WorkspaceType
  <2> HIDE DEF copied
  <2> DEFINE Grown == [folders : SUBSET Generator!Folders, tasks : [Generator!Folders -> Nat],
                       launches : [Generator!Folders -> Nat], roots : 0 .. 2]
  <2>7. copied \in Grown
    BY <2>5, <2>6 DEF WorkspaceType
  <2> HIDE DEF n
  <2>8. /\ withTasks.folders = copied.folders /\ withTasks.launches = copied.launches
        /\ withTasks.tasks = [copied.tasks EXCEPT ![n] = @ + 1] /\ withTasks \in Grown
    BY <2>4, <2>7
  <2> HIDE DEF withTasks
  <2>9. /\ withLaunches.folders = withTasks.folders /\ withLaunches.tasks = withTasks.tasks
        /\ withLaunches.launches = [withTasks.launches EXCEPT ![n] = @ + 1]
        /\ withLaunches \in Grown
    BY <2>4, <2>8
  <2> HIDE DEF withLaunches
  <2>10. /\ workspace' \in Grown /\ workspace'.folders = workspace.folders \cup {f}
         /\ \A g \in Generator!Folders :
              /\ g # n => /\ workspace'.tasks[g] = workspace.tasks[g]
                          /\ workspace'.launches[g] = workspace.launches[g]
              /\ workspace'.tasks[g] <= workspace.tasks[g] + 1
              /\ workspace'.launches[g] <= workspace'.tasks[g]
    <3>1. \A g \in Generator!Folders : /\ workspace.tasks[g] \in Nat /\ workspace.launches[g] \in Nat
                                       /\ workspace.launches[g] <= workspace.tasks[g]
      BY <1>1, <2>5 DEF WorkspaceType, Listed
    <3>2. workspace.tasks \in [Generator!Folders -> Nat]
          /\ workspace.launches \in [Generator!Folders -> Nat]
      BY <2>6, <2>7
    <3> HIDE DEF Grown
    <3>3. CASE workspace' = copied
      BY <2>6, <2>7, <3>1, <3>3
    <3>4. CASE workspace' = withTasks
      BY <2>4, <2>6, <2>8, <3>1, <3>2, <3>4
    <3>5. CASE workspace' = withLaunches
      BY <2>4, <2>6, <2>8, <2>9, <3>1, <3>2, <3>5
    <3> QED
      BY <1>4, <3>3, <3>4, <3>5
  <2>11. ASSUME NEW g \in Generator!Folders
         PROVE  Listed(g)' /\ workspace'.tasks[g] \in 0 .. Cardinality(Commands)
                           /\ workspace'.launches[g] \in 0 .. Cardinality(Commands)
    <3>1. Listed(g) /\ workspace.tasks[g] \in Nat
      BY <1>1, <2>5 DEF WorkspaceType
    <3>2. workspace'.tasks[g] \in Nat /\ workspace'.launches[g] \in Nat
      BY <2>10
    <3>3. /\ Generator!Generated(g) \in SUBSET Commands
          /\ Generator!Generated(g)' \in SUBSET Commands
      BY DEF Generator!Generated
    <3>4. /\ IsFiniteSet(Generator!Generated(g)) /\ Cardinality(Generator!Generated(g)) \in Nat
          /\ Cardinality(Generator!Generated(g)') \in 0 .. Cardinality(Commands)
      BY <3>3, PartFinite, <2>5
    <3>5. c \notin Generator!Generated(g)
      BY <1>2 DEF Generator!Generated
    <3>6. \A d \in Generator!Generated(g) : command'[d].folder = command[d].folder
      BY <2>2, <3>3, <3>5, <1>1
    <3>7. CASE g = n
      <4>1. Generator!Generated(g)' = Generator!Generated(g) \cup {c}
        BY <1>1, <2>1, <2>2, <3>7 DEF Generator!Generated, n
      <4>2. Cardinality(Generator!Generated(g)') = Cardinality(Generator!Generated(g)) + 1
        BY <3>4, <3>5, <4>1, FS_AddElement
      <4>3. command'[c].folder \in workspace'.folders
        BY <1>1, <2>1, <2>2, <2>10
      <4>4. workspace'.tasks[g] <= Cardinality(Generator!Generated(g)')
        BY <2>10, <3>1, <3>2, <3>4, <4>2 DEF Listed
      <4>5. Listed(g)'
        BY <2>10, <4>1, <4>3, <4>4 DEF Listed
      <4> QED
        BY <2>5, <2>10, <3>2, <3>4, <4>4, <4>5
    <3>8. CASE g # n
      <4>1. Generator!Generated(g)' = Generator!Generated(g)
        BY <1>1, <1>2, <2>1, <2>2, <3>8 DEF Generator!Generated, n
      <4>2. Listed(g)'
        BY <2>10, <3>1, <3>6, <3>8, <4>1 DEF Listed
      <4>3. workspace'.tasks[g] <= Cardinality(Generator!Generated(g)')
        BY <4>2 DEF Listed
      <4> QED
        BY <2>5, <2>10, <3>2, <3>4, <4>2, <4>3
    <3> QED
      BY <3>7, <3>8
  <2>12. workspace' \in WorkspaceType
    <3>1. /\ workspace'.tasks \in [Generator!Folders -> 0 .. Cardinality(Commands)]
          /\ workspace'.launches \in [Generator!Folders -> 0 .. Cardinality(Commands)]
      BY <2>10, <2>11
    <3> QED
      BY <2>10, <3>1 DEF WorkspaceType
  <2> QED
    BY <2>3, <2>11, <2>12, GeneratorInvNext
<1> QED
  BY <1>3, <1>4 DEF Generator!GenerateExample

LEMMA RemoveFolderKeeps ==
  ASSUME GeneratorInv, NEW f \in Generator!Folders, Generator!RemoveFolder(f)
  PROVE  GeneratorInv'
<1>1. /\ workspace \in WorkspaceType /\ command \in [Commands -> CommandType]
      /\ \A g \in Generator!Folders : Listed(g)
  BY GeneratorInvIs
<1>2. /\ workspace' \in WorkspaceType /\ command' = command
      /\ workspace'.tasks = workspace.tasks /\ workspace'.launches = workspace.launches
      /\ workspace'.folders = workspace.folders \ {f}
      /\ workspace.tasks[Generator!NameOf(f)] = 0
  BY <1>1 DEF Generator!RemoveFolder, WorkspaceType
<1>3. ASSUME NEW g \in Generator!Folders
      PROVE  Listed(g)'
  <2>1. Generator!Generated(g)' = Generator!Generated(g)
    BY <1>2 DEF Generator!Generated
  <2>2. \A c \in Generator!Generated(g) : Generator!NameOf(command[c].folder) = g
    BY DEF Generator!Generated
  <2>3. Listed(g)
    BY <1>1
  <2>4. ASSUME workspace.tasks[g] > 0
        PROVE  \E c \in Generator!Generated(g) : command[c].folder \in workspace'.folders
    <3>1. PICK c \in Generator!Generated(g) : command[c].folder \in workspace.folders
      BY <2>3, <2>4 DEF Listed
    <3>2. command[c].folder # f
      BY <1>2, <2>2, <2>4, <3>1
    <3> QED
      BY <1>2, <3>1, <3>2
  <2> HIDE DEF Generator!Generated
  <2> QED
    BY <1>2, <2>1, <2>3, <2>4 DEF Listed
<1> QED
  BY <1>1, <1>2, <1>3, GeneratorInvNext

LEMMA GeneratorKeeps ==
  ASSUME GeneratorInv, Generator!GeneratorStep \/ UNCHANGED generatorPart
  PROVE  GeneratorInv'
<1>1. /\ workspace \in WorkspaceType /\ command \in [Commands -> CommandType]
      /\ \A g \in Generator!Folders : Listed(g)
  BY GeneratorInvIs
<1>2. CASE UNCHANGED generatorPart
  <2>1. workspace' = workspace /\ command' = command
    BY <1>2 DEF generatorPart
  <2>2. \A g \in Generator!Folders : Listed(g)'
    BY <1>1, <2>1 DEF Listed, Generator!Generated
  <2> QED
    BY <1>1, <2>1, <2>2, GeneratorInvNext
<1>3. ASSUME NEW c \in Commands, Generator!ChooseExample(c)
      PROVE  GeneratorInv'
  <2>1. PICK r \in CommandType : r.step \in {"name", "over"} /\ command' = [command EXCEPT ![c] = r]
    <3>1. command[c] \in CommandType
      BY <1>1
    <3>2. [command[c] EXCEPT !.step = "over"] \in CommandType
      BY <3>1 DEF CommandType, Generator!Steps
    <3>3. \A b \in BOOLEAN : [command[c] EXCEPT !.step = "name", !.launches = b] \in CommandType
      BY <3>1 DEF CommandType, Generator!Steps
    <3>4. [command[c] EXCEPT !.step = "over"].step = "over"
          /\ \A b \in BOOLEAN : [command[c] EXCEPT !.step = "name", !.launches = b].step = "name"
      BY <3>1 DEF CommandType
    <3>5. \/ command' = [command EXCEPT ![c] = [command[c] EXCEPT !.step = "over"]]
          \/ \E b \in BOOLEAN :
               command' = [command EXCEPT ![c] = [command[c] EXCEPT !.step = "name", !.launches = b]]
      BY <1>3 DEF Generator!ChooseExample
    <3> QED
      BY <3>2, <3>3, <3>4, <3>5, Zenon
  <2> QED
    BY <1>3, <2>1, CommandKeeps DEF Generator!ChooseExample
<1>4. ASSUME NEW c \in Commands, NEW f \in Generator!Folders, Generator!SpecifyFolder(c, f)
      PROVE  GeneratorInv'
  <2> DEFINE r == [command[c] EXCEPT !.step = "checked", !.folder = f]
  <2>1. r \in CommandType /\ r.step = "checked"
    BY <1>1 DEF CommandType, Generator!Steps
  <2>2. command' = [command EXCEPT ![c] = r]
    BY <1>4 DEF Generator!SpecifyFolder
  <2> HIDE DEF r
  <2> QED
    BY <1>4, <2>1, <2>2, CommandKeeps DEF Generator!SpecifyFolder
<1>5. ASSUME NEW c \in Commands, Generator!ValidateFolder(c)
      PROVE  GeneratorInv'
  <2> DEFINE s == IF Generator!Free(Generator!NameOf(command[c].folder)) THEN "progress" ELSE "over"
             r == [command[c] EXCEPT !.step = s]
  <2>1. s \in {"progress", "over"}
    OBVIOUS
  <2>2. command' = [command EXCEPT ![c] = r]
    BY <1>5 DEF Generator!ValidateFolder
  <2> HIDE DEF s
  <2>3. r \in CommandType /\ r.step # "generated"
    BY <1>1, <2>1 DEF CommandType, Generator!Steps
  <2> HIDE DEF r
  <2> QED
    BY <1>5, <2>2, <2>3, CommandKeeps DEF Generator!ValidateFolder
<1> QED
  BY <1>2, <1>3, <1>4, <1>5, GenerateKeeps, RemoveFolderKeeps DEF Generator!GeneratorStep

-----------------------------------------------------------------------------
(* The application                                                         *)

LEMMA DesktopInvariant == DesktopSpec => []DesktopInv
<1>1. DesktopInit => DesktopInv
  BY UpdaterStarts, LauncherStarts, GeneratorStarts DEF DesktopInit, DesktopInv
<1>2. DesktopInv /\ [DesktopNext]_desktopVars => DesktopInv'
  BY UpdaterKeeps, LauncherKeeps, GeneratorKeeps
     DEF DesktopNext, DesktopInv, desktopVars, launcherPart, generatorPart, updaterVars
<1> QED
  BY <1>1, <1>2, PTL DEF DesktopSpec

(* The state of the three extensions has its type.                         *)
THEOREM DesktopTyped == DesktopSpec => []DesktopTypeOK
<1>1. DesktopInv => DesktopTypeOK
  BY DEF DesktopInv, UpdaterInv, LauncherInv, GeneratorInv, DesktopTypeOK, UpdaterTypeOK,
     RestTyped, WindowsTyped, WindowType
<1> QED
  BY <1>1, DesktopInvariant, PTL

(* An update found at the start reaches a window, "no update" is only said *)
(* to a user who asked, a progress on the screen is the one the window     *)
(* holds unless two answers overlapped; an answer to the launcher's        *)
(* question is remembered unless a write of it failed; what is configured  *)
(* under a name is of an example generated into a folder of that name or   *)
(* of that name and an extension, whose files are there.                   *)
THEOREM DesktopAlwaysSound == DesktopSpec => []DesktopSound
<1>1. DesktopInv => DesktopSound
  BY DEF DesktopInv, UpdaterInv, LauncherInv, GeneratorInv, DesktopSound, UpdaterSound,
     Bookkeeping, StartupSilent, ProgressSound, WindowsSound, ShowsProgress
<1> QED
  BY <1>1, DesktopInvariant, PTL
=============================================================================
