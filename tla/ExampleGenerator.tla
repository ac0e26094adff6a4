-------------------------- MODULE ExampleGenerator --------------------------
(***************************************************************************)
(* The command "generate example": the dialogue of the frontend            *)
(* (blueprint-examples-frontend-contribution.ts) and the generation of the *)
(* backend (example-generator-service.ts).  The name of the folder is      *)
(* checked before the progress is shown, the files are copied after it;    *)
(* two commands may be under way.  The files go to the folder; the check   *)
(* and the configuration take its path.name, which has no extension.       *)
(***************************************************************************)
EXTENDS Naturals, FiniteSets

CONSTANTS Names, Extensions, Commands   \* "my" and "app" of a folder "my.app"

VARIABLES
    workspace,   \* folders in it; tasks and launches listed, by the folder they name; roots
    command      \* each execution of the command: where it is, and its folder

generatorVars == <<workspace, command>>

\* The names of folders, with no dot or (bound) with one.
NoExtension == "none"
Folders == [name : Names, extension : Extensions \cup {NoExtension}]

\* Path.name of a folder: what is before the dot.
NameOf(f) == [f EXCEPT !.extension = NoExtension]

NoCommand == [step |-> "idle", folder |-> CHOOSE f \in Folders : TRUE, launches |-> FALSE]
Count == 0 .. Cardinality(Commands)
Steps == {"idle", "name", "checked", "progress", "over", "generated"}

GeneratorTypeOK ==
    /\ workspace \in [folders : SUBSET Folders, tasks : [Folders -> Count],
                      launches : [Folders -> Count], roots : 0 .. 2]
    /\ command \in [Commands -> [step : Steps, folder : Folders, launches : BOOLEAN]]

GeneratorInit ==
    /\ \E folders \in SUBSET Folders, roots \in 0 .. 2 :
        workspace = [folders |-> folders, tasks |-> [f \in Folders |-> 0],
                     launches |-> [f \in Folders |-> 0], roots |-> roots]
    /\ command = [c \in Commands |-> NoCommand]

\* validateFolderName(): a name is free while there is no such folder.
Free(f) == f \notin workspace.folders

\* The example is chosen (some come with tasks and launches), the root too;
\* without a root, or if the user leaves a dialogue, nothing is generated.
ChooseExample(c) ==
    /\ command[c].step = "idle"
    /\ \/ /\ workspace.roots > 0
          /\ \E configured \in BOOLEAN :
                command' = [command EXCEPT ![c].step = "name", ![c].launches = configured]
       \/ command' = [command EXCEPT ![c].step = "over"]
    /\ UNCHANGED workspace

\* The dialogue only accepts a free name; an empty one, and leaving it, mean
\* the name of the example, which has no dot and need not be free.
SpecifyFolder(c, f) ==
    /\ command[c].step = "name"
    /\ Free(f) \/ f = NameOf(f)
    /\ command' = [command EXCEPT ![c].step = "checked", ![c].folder = f]
    /\ UNCHANGED workspace

\* The name, without extension now, is checked once more; the command ends
\* with an error or goes on to show its progress.
ValidateFolder(c) ==
    /\ command[c].step = "checked"
    /\ command' = [command EXCEPT ![c].step =
                        IF Free(NameOf(command[c].folder)) THEN "progress" ELSE "over"]
    /\ UNCHANGED workspace

\* Mutant of GenerateExample: the command is not over.
GenerateOnAndOn(c) ==
    LET f == command[c].folder IN
    /\ command[c].step = "progress"
    /\ workspace' = [workspace EXCEPT !.folders = @ \cup {f}, !.tasks[NameOf(f)] = @ + 1]
    /\ UNCHANGED command

\* generateExample(): the files are copied over what is there, then the tasks
\* and the launches are added to the configuration, for the name; any of the
\* three may fail and the rest is not done then.
GenerateExample(c) ==
    LET f == command[c].folder
        copied == [workspace EXCEPT !.folders = @ \cup {f}]
        withTasks == [copied EXCEPT !.tasks[NameOf(f)] = @ + 1]
        withLaunches == [withTasks EXCEPT !.launches[NameOf(f)] = @ + 1]
    IN /\ command[c].step = "progress"
       /\ \/ /\ command' = [command EXCEPT ![c].step = "over"]
             /\ UNCHANGED workspace
          \/ /\ command' = [command EXCEPT ![c].step = "generated"]
             /\ \/ workspace' = copied
                \/ command[c].launches /\ workspace' \in {withTasks, withLaunches}

\* The user removes a folder that nothing is configured for (bound: one with a
\* configuration stays; what the user edits by hand is not the generator's).
RemoveFolder(f) ==
    /\ f \in workspace.folders
    /\ workspace.tasks[NameOf(f)] = 0
    /\ workspace' = [workspace EXCEPT !.folders = @ \ {f}]
    /\ UNCHANGED command

GeneratorStep ==
    \/ \E c \in Commands :
        \/ ChooseExample(c) \/ ValidateFolder(c) \/ GenerateExample(c)
        \/ \E f \in Folders : SpecifyFolder(c, f)
    \/ \E f \in Folders : RemoveFolder(f)

---------------------------------------------------------------------------
(* Properties                                                              *)

\* The commands that generated an example under a name.
Generated(g) == {c \in Commands : command[c].step = "generated" /\ NameOf(command[c].folder) = g}

\* What the configuration lists under a name is of an example whose files are
\* there, in a folder that has the name before its dot (the folder of the name
\* itself if it was given none, blueprint-examples-frontend-contribution.ts:81);
\* no example is listed twice, and a launch has the task it builds with: also
\* when a generation fails half-way or two run at once.
ConfigurationSound ==
    \A g \in Folders :
        /\ workspace.tasks[g] > 0 => \E c \in Generated(g) : command[c].folder \in workspace.folders
        /\ workspace.tasks[g] <= Cardinality(Generated(g))
        /\ workspace.launches[g] <= workspace.tasks[g]
=============================================================================
