------------------------------ MODULE Launcher ------------------------------
(***************************************************************************)
(* The command-line launcher of the desktop application: a window asks the *)
(* user once whether to install it (create-launcher-contribution.ts) and   *)
(* sends the answer without waiting; the backend starts the installation,  *)
(* then reads paths.json and writes it with the answer                     *)
(* (launcher-endpoint.ts).  The requests of several windows overlap.       *)
(***************************************************************************)
CONSTANT Windows

VARIABLES
    appImage,    \* the application runs from an AppImage
    storage,     \* paths.json: whether there is one, and its entries for the launcher
    launcher,    \* its installation: not started, started with sudo, done
    asking,      \* what each window does at its start
    request,     \* the answer of each window, on its way (bound: one of a window)
    writes       \* of paths.json, for the properties: one was done, one failed

launcherVars == <<appImage, storage, launcher, asking, request, writes>>

Entries == {"target", "declined"}
NoRequest == [step |-> "none", create |-> FALSE, data |-> {}]

LauncherTypeOK ==
    /\ appImage \in BOOLEAN
    /\ storage \in [exists : BOOLEAN, entries : SUBSET Entries]
    /\ launcher \in {"none", "started", "installed"}
    /\ asking \in [Windows -> {"started", "dialog", "done"}]
    /\ request \in [Windows -> [step : {"none", "sent", "stored", "read"}, create : BOOLEAN,
                                data : SUBSET Entries]]
    /\ writes \in [done : BOOLEAN, failed : BOOLEAN]

LauncherInit ==
    /\ appImage \in BOOLEAN
    /\ storage = [exists |-> FALSE, entries |-> {}]
    /\ launcher = "none"
    /\ asking = [w \in Windows |-> "started"]
    /\ request = [w \in Windows |-> NoRequest]
    /\ writes = [done |-> FALSE, failed |-> FALSE]

---------------------------------------------------------------------------
(* A window                                                                *)

\* isInitialized(): any entry counts; a file that cannot be read has none.
Initialized == ~appImage \/ storage.entries # {}

IsInitialized(w) ==
    /\ asking[w] = "started"
    /\ asking' = [asking EXCEPT ![w] = IF Initialized THEN "done" ELSE "dialog"]
    /\ UNCHANGED <<appImage, storage, launcher, request, writes>>

\* The answer is sent and not waited for.
AnswerDialog(w) ==
    /\ asking[w] = "dialog"
    /\ request[w].step = "none"
    /\ asking' = [asking EXCEPT ![w] = "done"]
    /\ \E create \in BOOLEAN :
        request' = [request EXCEPT ![w] = [step |-> "sent", create |-> create, data |-> {}]]
    /\ UNCHANGED <<appImage, storage, launcher, writes>>

\* The window is opened again, also with its question open or its answer sent.
WindowStarts(w) ==
    /\ asking[w] # "started"
    /\ asking' = [asking EXCEPT ![w] = "started"]
    /\ UNCHANGED <<appImage, storage, launcher, request, writes>>

---------------------------------------------------------------------------
(* The backend                                                             *)

\* createLauncher() up to the path of the storage: the command is started with
\* sudo; an application that is gone is an error, and nothing is stored.
CreateLauncher(w) ==
    /\ request[w].step = "sent"
    /\ \/ /\ request[w].create
          /\ launcher' = IF launcher = "none" THEN "started" ELSE launcher
          /\ request' = [request EXCEPT ![w].step = "stored"]
       \/ /\ request[w].create
          /\ request' = [request EXCEPT ![w] = NoRequest]
          /\ UNCHANGED launcher
       \/ /\ ~request[w].create
          /\ request' = [request EXCEPT ![w].step = "stored"]
          /\ UNCHANGED launcher
    /\ UNCHANGED <<appImage, storage, asking, writes>>

\* The user lets sudo go on (or never does) and the launcher is written.
LauncherInstalled ==
    /\ launcher = "started"
    /\ launcher' = "installed"
    /\ UNCHANGED <<appImage, storage, asking, request, writes>>

\* The file is written with the entries given and the answer; a write that
\* fails leaves it as it was, or truncated.
StoreAnswer(w, data) ==
    /\ LET entry == IF request[w].create THEN "target" ELSE "declined" IN
       \/ /\ storage' = [exists |-> TRUE, entries |-> data \cup {entry}]
          /\ writes' = [writes EXCEPT !.done = TRUE]
       \/ /\ storage' \in {storage, [exists |-> TRUE, entries |-> {}]}
          /\ writes' = [writes EXCEPT !.failed = TRUE]
    /\ request' = [request EXCEPT ![w] = NoRequest]
    /\ UNCHANGED <<appImage, launcher, asking>>

\* Without a file the answer is stored at once, else the file is read first.
ReadPaths(w) ==
    /\ request[w].step = "stored"
    /\ \/ ~storage.exists /\ StoreAnswer(w, {})
       \/ /\ storage.exists
          /\ request' = [request EXCEPT ![w].step = "read", ![w].data = storage.entries]
          /\ UNCHANGED <<appImage, storage, launcher, asking, writes>>

\* What was read is written back with the answer, whatever the file is now.
PathsRead(w) == request[w].step = "read" /\ StoreAnswer(w, request[w].data)

LauncherStep ==
    \/ LauncherInstalled
    \/ \E w \in Windows :
        \/ IsInitialized(w) \/ AnswerDialog(w) \/ WindowStarts(w)
        \/ CreateLauncher(w) \/ ReadPaths(w) \/ PathsRead(w)

---------------------------------------------------------------------------
(* Properties                                                              *)

\* The answers that started an installation and are yet to be stored.
Underway == {w \in Windows : request[w].create /\ request[w].step \in {"stored", "read"}}

\* Unless a write of the file failed, nobody is asked again once an answer was
\* stored, whichever of two answers at once overwrites the other; and a launcher
\* that is installed or being installed is remembered, or will be with the
\* answer that started it.
LauncherRemembered ==
    ~writes.failed =>
        /\ writes.done => Initialized
        /\ launcher # "none" => Initialized \/ Underway # {}
=============================================================================
