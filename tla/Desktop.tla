------------------------------ MODULE Desktop ------------------------------
(***************************************************************************)
(* The extensions of the desktop application that keep state: the updater, *)
(* the launcher and the generator of examples.  They share nothing; a      *)
(* behaviour looks at one of them.                                         *)
(***************************************************************************)
EXTENDS Updater, FiniteSets

CONSTANTS Names, Extensions, Commands
ASSUME DesktopAssumption == Names # {} /\ IsFiniteSet(Commands)

VARIABLES extension, appImage, storage, launcher, asking, request, writes, workspace, command

launcherPart == <<appImage, storage, launcher, asking, request, writes>>
generatorPart == <<workspace, command>>
desktopVars == <<extension, updaterVars, launcherPart, generatorPart>>

Link == INSTANCE Launcher
Generator == INSTANCE ExampleGenerator

DesktopInit ==
    /\ extension \in {"updater", "launcher", "generator"}
    /\ UpdaterInit
    /\ Link!LauncherInit
    /\ Generator!GeneratorInit
    /\ extension # "launcher" => ~appImage
    /\ extension # "generator" => workspace.folders = {} /\ workspace.roots = 0

DesktopNext ==
    /\ UNCHANGED extension
    /\ \/ extension = "updater" /\ UpdaterStep /\ UNCHANGED <<launcherPart, generatorPart>>
       \/ extension = "launcher" /\ Link!LauncherStep /\ UNCHANGED <<updaterVars, generatorPart>>
       \/ extension = "generator" /\ Generator!GeneratorStep /\ UNCHANGED <<updaterVars, launcherPart>>

DesktopSpec == DesktopInit /\ [][DesktopNext]_desktopVars

---------------------------------------------------------------------------
(* Properties                                                              *)

\* The type invariant of the three extensions.
DesktopTypeOK == UpdaterTypeOK /\ Link!LauncherTypeOK /\ Generator!GeneratorTypeOK

\* What each extension must keep (the parts are stated in its module).
DesktopSound ==
    /\ UpdaterSound
    /\ Link!LauncherRemembered
    /\ Generator!ConfigurationSound
=============================================================================
