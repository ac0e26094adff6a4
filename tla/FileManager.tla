---------------------------- MODULE FileManager ----------------------------
(***************************************************************************)
(* pages/file-manager.tsx and utils/async-effect.ts: the listing of one    *)
(* directory of the device, and what the user does with its entries.       *)
(* loadFiles() is an asyncEffect: starting it aborts the run before it,    *)
(* which goes on until it looks at its signal.  Everything else is an      *)
(* asynchronous function that reads this.path and GLOBAL_STATE.adb again   *)
(* after every await.                                                      *)
(***************************************************************************)
EXTENDS GlobalState, AsyncEffect

CONSTANTS
    Paths,        \* directories of the device
    Root,         \* the one shown first
    MaxUploads    \* bound on the uploads under way at once

VARIABLE files

NoOp == [kind |-> "none", phase |-> "idle", conn |-> 0]
NoUpload == [phase |-> "idle", conn |-> 0, alone |-> TRUE]
Uploads == 1 .. MaxUploads

FilesInit == files =
    [initial |-> TRUE,        \* the listing is to be loaded for this device
     visible |-> FALSE,       \* the page is mounted
     path |-> Root, loading |-> FALSE,
     items |-> {},            \* the directory of the entries listed, if any
     runs |-> {},             \* runs of loadFiles() that have not ended
     selectedItems |-> FALSE, \* some are
     selectionBound |-> FALSE,\* the Selection of this mount holds them
     uploading |-> FALSE,     \* the upload dialog is shown
     uploads |-> [u \in Uploads |-> NoUpload],
                              \* loops over picked files; alone is history:
                              \* no other has sent while this one does
     op |-> NoOp]             \* where any other operation of the user waits

Doing(kind, phase, device) == [kind |-> kind, phase |-> phase, conn |-> device]
OpIs(kind, phase) == files.op.kind = kind /\ files.op.phase = phase
OpAnswered == files.op.conn # 0 /\ conns[files.op.conn] = "open"
UploadIs(u, phase) == files.uploads[u].phase = phase
UploadAnswered(u) == files.uploads[u].conn # 0 /\ conns[files.uploads[u].conn] = "open"

Run == [path : Paths, conn : Connections, aborted : BOOLEAN,
        phase : {"opening", "listing"}]
Operation == [kind : {"none", "delete", "download", "preview"},
              phase : {"idle", "opening", "working", "shown"},
              conn : 0 .. MaxConnections]
Upload == [phase : {"idle", "picking", "opening", "working"},
           conn : 0 .. MaxConnections, alone : BOOLEAN]

FilesTypeOK ==
    /\ files.initial \in BOOLEAN /\ files.visible \in BOOLEAN
    /\ files.path \in Paths /\ files.loading \in BOOLEAN
    /\ files.items \in SUBSET Paths /\ files.selectedItems \in BOOLEAN
    /\ files.runs \in SUBSET Run
    /\ files.selectionBound \in BOOLEAN /\ files.uploading \in BOOLEAN
    /\ files.op \in Operation /\ files.uploads \in [Uploads -> Upload]

---------------------------------------------------------------------------
(* loadFiles() and what starts it                                          *)

\* The entries are gone, so is a selection that the list knows of.
Emptied(f) ==
    [f EXCEPT !.items = {},
              !.selectedItems = @ /\ ~f.selectionBound]

\* Mutant of Load: opens a session although there is no device.
LoadUnchecked(f, device) ==
    [[Emptied(f) EXCEPT !.runs = Abort(@)] EXCEPT
        !.loading = TRUE,
        !.runs = @ \cup {[path |-> f.path, conn |-> device, aborted |-> FALSE,
                          phase |-> "opening"]}]

\* loadFiles(): aborts the run before, empties the list, and opens a
\* session if there is a device.
Load(f, device) ==
    LET aborted == [Emptied(f) EXCEPT !.runs = Abort(@)] IN
    IF device = 0 THEN aborted
    ELSE [aborted EXCEPT
            !.loading = TRUE,
            !.runs = @ \cup {[path |-> f.path, conn |-> device, aborted |-> FALSE,
                              phase |-> "opening"]}]

\* The autorun on GLOBAL_STATE.adb and visible: loads once per device.
Autorun(f, device) ==
    IF device = 0 THEN [f EXCEPT !.initial = TRUE]
    ELSE IF f.initial /\ f.visible THEN Load([f EXCEPT !.initial = FALSE], device)
    ELSE f

\* A step: MobX runs the autorun when the step ends.
Becomes(f) == files' = Autorun(f, adb')

\* Room for one more run, counting those that an upload will start.
UnderWay == {u \in Uploads : ~UploadIs(u, "idle")}
RoomForRun == Cardinality(files.runs) + Cardinality(UnderWay) <= MaxRuns

ShowPage ==
    /\ ~files.visible /\ RoomForRun
    /\ Quiet
    /\ Becomes([files EXCEPT !.visible = TRUE, !.selectionBound = FALSE])

\* The state outlives the page, its Selection does not.
HidePage ==
    /\ files.visible
    /\ Quiet
    /\ Becomes([files EXCEPT !.visible = FALSE,
                             !.op = IF OpIs("preview", "shown") THEN NoOp ELSE @])

\* The query of the router changes: a link of the breadcrumb, a directory of
\* the list, the back button of the browser.
ChangeDirectory(p) ==
    /\ files.visible /\ p # files.path /\ RoomForRun
    /\ Quiet
    /\ LET moved == [files EXCEPT !.path = p] IN
       Becomes(IF adb = 0 THEN moved ELSE Load(moved, adb))

\* loadFiles() after GLOBAL_STATE.adb.sync(): the session is open.
RunOpened(r) ==
    /\ r.phase = "opening" /\ conns[r.conn] = "open"
    /\ Quiet
    /\ Becomes([files EXCEPT !.runs = Replace(@, r, [r EXCEPT !.phase = "listing"])])

\* sync() rejects, outside of the try: the run ends and leaves loading alone.
RunNotOpened(r) ==
    /\ r.phase = "opening"
    /\ Quiet
    /\ Becomes([files EXCEPT !.runs = @ \ {r}])

\* Mutant of RunEnds: the end of an aborted run hides the shimmer too.
RunEndsAlways(f, r) == [f EXCEPT !.runs = @ \ {r}, !.loading = FALSE]

\* The finally of loadFiles().
RunEnds(f, r) ==
    [f EXCEPT !.runs = @ \ {r}, !.loading = IF r.aborted THEN @ ELSE FALSE]

\* What the run has found so far, if anything.
Found(r) == {{}, {r.path}}

\* The timer of the run shows it.
RunTick(r) ==
    /\ r.phase = "listing" /\ ~r.aborted
    /\ Quiet
    /\ \E found \in Found(r) : Becomes([files EXCEPT !.items = found])

\* Mutant of RunDone: an aborted run shows what it has read.
RunDoneUnchecked(r) ==
    /\ r.phase = "listing"
    /\ Quiet
    /\ \E found \in Found(r) : Becomes(RunEnds([files EXCEPT !.items = found], r))

\* The directory and its links are read, from the device or from what was
\* buffered before it was lost; an aborted run stops at the next entry.
RunDone(r) ==
    /\ r.phase = "listing"
    /\ Quiet
    /\ \E found \in Found(r) :
         Becomes(RunEnds([files EXCEPT !.items = IF r.aborted THEN @ ELSE found], r))

RunFails(r) ==
    /\ r.phase = "listing"
    /\ Quiet
    /\ Becomes(RunEnds(files, r))

---------------------------------------------------------------------------
(* The menu.  Uploads overlap; of other operations one at a time is        *)
(* modelled.  Everything else goes on while they wait.                     *)

UserActs == files.visible /\ UserFree /\ ~files.uploading

Select ==
    /\ UserActs /\ files.items # {}
    /\ Quiet
    /\ Becomes([files EXCEPT !.selectedItems = TRUE, !.selectionBound = TRUE])

Unselect ==
    /\ UserActs /\ files.selectionBound
    /\ Quiet
    /\ Becomes([files EXCEPT !.selectedItems = FALSE])

\* Without a selection the menu has "upload", disabled without a device;
\* with one, "download" and "delete".
NothingSelected == ~files.selectedItems
CanUpload == UserActs /\ RoomForRun /\ files.op = NoOp /\ NothingSelected /\ adb # 0
CanUseItems == UserActs /\ RoomForRun /\ files.op = NoOp /\ UnderWay = {} /\ ~NothingSelected

\* The finally of delete.
DeleteEnds(f) == Load([f EXCEPT !.op = NoOp], adb)

\* The loop of delete at the rm of an item, with the device and the directory
\* of this moment; without a device it is a TypeError, shown like any other.
NextDelete ==
    IF adb = 0 THEN ShowErrorDialog /\ Becomes(DeleteEnds(files))
    ELSE UNCHANGED errorDialogVisible
         /\ Becomes([files EXCEPT !.op = Doing("delete", "working", adb)])

Delete ==
    /\ CanUseItems
    /\ UNCHANGED slotVars
    /\ NextDelete

\* An item is gone: there are more, or it was the last.
Removed ==
    /\ OpIs("delete", "working") /\ OpAnswered
    /\ UNCHANGED slotVars
    /\ \/ NextDelete
       \/ UNCHANGED errorDialogVisible /\ Becomes(DeleteEnds(files))

\* rm prints something, or rejects: shown, and the loop is left.
NotRemoved ==
    /\ OpIs("delete", "working")
    /\ UNCHANGED slotVars /\ ShowErrorDialog
    /\ Becomes(DeleteEnds(files))

\* "upload": the file dialog of the browser, of which there is one at a
\* time. Nothing keeps the user from another upload while one opens its
\* session, or is between two files.
PickFiles(u) ==
    /\ CanUpload /\ UploadIs(u, "idle") /\ \A v \in 1 .. u - 1 : ~UploadIs(v, "idle")
    /\ \A v \in Uploads : ~UploadIs(v, "picking")
    /\ Quiet
    /\ Becomes([files EXCEPT !.uploads[u].phase = "picking"])

\* pickFile() listens for a change only: a dialog that is cancelled never
\* answers, and the user may ask for another one.
PickCancelled(u) ==
    /\ UploadIs(u, "picking")
    /\ Quiet
    /\ Becomes([files EXCEPT !.uploads[u] = NoUpload])

\* The next file of the loop: upload() opens a session; with no device left
\* it rejects, and so does the loop.
NextUpload(f, u) ==
    [f EXCEPT !.uploads[u] = IF adb = 0 THEN NoUpload
                             ELSE [phase |-> "opening", conn |-> adb, alone |-> TRUE]]

FilesPicked(u) ==
    /\ UploadIs(u, "picking")
    /\ Quiet
    /\ Becomes(NextUpload(files, u))

\* Upload u starts to send; who sends at the same time is not alone.
Sends(u) ==
    LET others == {v \in Uploads : v # u /\ UploadIs(v, "working")} IN
    [v \in Uploads |->
        IF v = u THEN [files.uploads[u] EXCEPT !.phase = "working", !.alone = others = {}]
        ELSE IF v \in others THEN [files.uploads[v] EXCEPT !.alone = FALSE]
        ELSE files.uploads[v]]

UploadOpened(u) ==
    /\ UploadIs(u, "opening") /\ UploadAnswered(u)
    /\ Quiet
    /\ Becomes([files EXCEPT !.uploads = Sends(u), !.uploading = TRUE])

\* sync() rejects before the try of upload().
UploadNotOpened(u) ==
    /\ UploadIs(u, "opening")
    /\ Quiet
    /\ Becomes([files EXCEPT !.uploads[u] = NoUpload])

\* Mutant of UploadEnds: the dialog stays.
UploadEndsOpen(f) == Load(f, adb)

\* The finally of upload(), whether the file was written or not; then the
\* next file, if there is one.
UploadEnds(f) == [Load(f, adb) EXCEPT !.uploading = FALSE]
AfterUpload(u) == (RoomForRun /\ Becomes(NextUpload(UploadEnds(files), u)))
                    \/ Becomes([UploadEnds(files) EXCEPT !.uploads[u] = NoUpload])

Uploaded(u) ==
    /\ UploadIs(u, "working") /\ UploadAnswered(u)
    /\ Quiet
    /\ AfterUpload(u)

UploadFails(u) ==
    /\ UploadIs(u, "working")
    /\ UNCHANGED slotVars /\ ShowErrorDialog
    /\ AfterUpload(u)

\* "download": a session, then what is selected once it is open.
Download ==
    /\ CanUseItems /\ adb # 0
    /\ Quiet
    /\ Becomes([files EXCEPT !.op = Doing("download", "opening", adb)])

DownloadOpened ==
    /\ OpIs("download", "opening") /\ OpAnswered
    /\ Quiet
    /\ Becomes([files EXCEPT !.op = IF NothingSelected THEN NoOp
                                    ELSE [@ EXCEPT !.phase = "working"]])

\* One file, or one directory with all it holds, is in the archive; there are
\* more (no change), or it was the last.
Downloaded ==
    /\ OpIs("download", "working") /\ OpAnswered
    /\ Quiet
    /\ Becomes([files EXCEPT !.op = NoOp])

DownloadFails ==
    /\ OpIs("download", "working")
    /\ UNCHANGED slotVars /\ ShowErrorDialog
    /\ Becomes([files EXCEPT !.op = NoOp])

\* A picture is read and shown over the page, wherever the page is by then.
PreviewImage ==
    /\ UserActs /\ files.op = NoOp /\ UnderWay = {} /\ files.items # {} /\ adb # 0
    /\ Quiet
    /\ Becomes([files EXCEPT !.op = Doing("preview", "opening", adb)])

PreviewRead ==
    /\ OpIs("preview", "opening") /\ OpAnswered
    /\ Quiet
    /\ Becomes([files EXCEPT !.op = IF files.visible THEN Doing("preview", "shown", 0)
                                    ELSE NoOp])

HidePreview ==
    /\ OpIs("preview", "shown")
    /\ Quiet
    /\ Becomes([files EXCEPT !.op = NoOp])

\* sync() rejects before the try of download() or previewImage().
SessionNotOpened ==
    /\ files.op.phase = "opening"
    /\ Quiet
    /\ Becomes([files EXCEPT !.op = NoOp])

---------------------------------------------------------------------------

RunStep(r) == RunOpened(r) \/ RunTick(r) \/ RunDone(r)
                \/ RunNotOpened(r) \/ RunFails(r)
UploadSettles == \E u \in Uploads : Uploaded(u) \/ UploadFails(u)
UploadStep(u) == \/ PickFiles(u) \/ PickCancelled(u) \/ FilesPicked(u)
                 \/ UploadOpened(u) \/ UploadNotOpened(u)

FilesStep ==
    \/ ShowPage \/ HidePage \/ \E p \in Paths : ChangeDirectory(p)
    \/ \E r \in files.runs : RunStep(r)
    \/ Select \/ Unselect
    \/ Delete \/ Removed \/ NotRemoved
    \/ (\E u \in Uploads : UploadStep(u)) \/ UploadSettles
    \/ Download \/ DownloadOpened \/ Downloaded \/ DownloadFails
    \/ PreviewImage \/ PreviewRead \/ HidePreview \/ SessionNotOpened
    \/ SessionStep /\ Becomes(files)

---------------------------------------------------------------------------
(* Properties                                                              *)

LiveRuns == Live(files.runs)

\* What a visible listing shows was read from the directory in the
\* breadcrumb: no run that was overtaken writes into it.
ListingOfPath ==
    files.visible /\ adb # 0 => files.items \subseteq {files.path}

\* While a run may still change the listing the shimmer is on, and there is
\* one such run, for the directory shown or for a device that has gone.
OneLiveRun ==
    /\ LiveRuns # {} => files.loading
    /\ Cardinality(LiveRuns) <= 1

\* While bytes of an upload are sent the upload dialog covers the page, and
\* it is shown for no other reason. The exception is an upload beside which
\* another one has sent: the first to end hides the dialog for both.
UploadCovered ==
    /\ \A u \in Uploads : UploadIs(u, "working") /\ files.uploads[u].alone => files.uploading
    /\ files.uploading => \E u \in Uploads : UploadIs(u, "working")
=============================================================================
