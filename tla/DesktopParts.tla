----------------------------- MODULE DesktopParts -----------------------------
(***************************************************************************)
(* What the desktop process looks after, side by side: the Harness Host    *)
(* and its settings (HarnessHost, whose definitions these are), the user's *)
(* Git repository, the files and terminals of the workbench, the browsers  *)
(* and the screen the agents act on, the pet's window, and the editors     *)
(* that projects open in.  A behaviour is one of one part, chosen at the   *)
(* start, so that their states add up and do not multiply.  "s" is the     *)
(* state of every part but the Host's.                                     *)
(***************************************************************************)
EXTENDS HarnessHost

VARIABLES part, s

\* Two delays, so that the third crash within the window stops the restarts.
TwoDelays == <<1, 2>>

Git == INSTANCE Repository WITH
    MaxVersion <- 2, MaxEdits <- 2, MaxOps <- 4, Races <- {}, repo <- s
Files == INSTANCE Workbench WITH
    Paths <- {"p", "q"}, Workspaces <- {"w1", "w2"}, MaxContents <- 3, MaxOps <- 2, Races <- {}, wb <- s, op <- s
Used == INSTANCE Machine WITH
    MaxTabs <- 2, MaxOutput <- 2, Sizes <- {1, 2}, MaxSteps <- 2, Windows <- {1, 2},
    Titles <- {{"a"}, {"b"}, {"a", "b"}}, MaxChanges <- 5, Races <- {}, tm <- s, co <- s
Browser == INSTANCE Browsers WITH
    Agents <- {1, 2}, Persistent <- TRUE, MaxObjects <- 3, MaxProcs <- 3, MaxCalls <- 2, Races <- {}, br <- s
Pet == INSTANCE DesktopPet WITH
    Tasks <- {"a", "b"}, MaxItems <- 2, Area <- 5, MaxOps <- 2, Races <- {}, pet <- s

parts == <<part, s, vars>>

PartsInit ==
    /\ Init
    /\ \/ part = "host" /\ s = {}
       \/ part = "git" /\ Git!Init
       \/ part = "files" /\ Files!Init
       \/ part = "terminal" /\ Used!Init
       \/ part = "browser" /\ Browser!Init
       \/ part = "control" /\ Used!ControlInit
       \/ part = "pet" /\ Pet!Init
       \/ part = "opener" /\ Files!OpenerInit

HostStep == part = "host" /\ Next /\ UNCHANGED <<part, s>>
GitStep == part = "git" /\ Git!Next /\ UNCHANGED <<part, vars>>
FilesStep == part = "files" /\ Files!Next /\ UNCHANGED <<part, vars>>
TerminalStep == part = "terminal" /\ Used!Next /\ UNCHANGED <<part, vars>>
BrowserStep == part = "browser" /\ Browser!Next /\ UNCHANGED <<part, vars>>
ControlStep == part = "control" /\ Used!ControlNext /\ UNCHANGED <<part, vars>>
PetStep == part = "pet" /\ Pet!Next /\ UNCHANGED <<part, vars>>
OpenerStep == part = "opener" /\ Files!OpenerNext /\ UNCHANGED <<part, vars>>

PartsNext == HostStep \/ GitStep \/ FilesStep \/ TerminalStep \/ BrowserStep \/ ControlStep \/ PetStep \/ OpenerStep
PartsSpec == PartsInit /\ [][PartsNext]_parts
-----------------------------------------------------------------------------
\* The files chosen for a commit are committed and no others; a rejected commit leaves the index as
\* it was; a restored checkpoint brings back the files and the staging of its moment.  A browser call
\* acts on its own session's browser and on the tab it names; keys and buttons are pressed only in a
\* session the user approved; a capture shows the window it is of.  A click of the pet acts, and a file
\* opens in the editor that its project has, at the line that was asked for.  Nothing is left running
\* or held: no shell without a tab, no browser without a session, one browser to a profile, no search
\* that cannot be cancelled, no key or button down after its action.
DoesAsAsked ==
    /\ part = "files" => Files!SearchesCanBeCancelled
    /\ part = "terminal" => Used!NoOrphans
    /\ part = "git" => Git!CommitIsAsChosen /\ Git!RestoreBringsBack
    /\ part = "browser" => Browser!ActsOnItsTab /\ Browser!NoBrowserLeft /\ Browser!OneBrowserPerProfile
    /\ part = "control" => Used!InputWasApproved /\ Used!CapturesItsWindow /\ Used!NothingIsHeld
    /\ part = "pet" => Pet!PressActs
    /\ part = "opener" => Files!OpensAsAsked /\ Files!StartsTheOne /\ Files!OpensInItsOwn

\* A patch, of the review pane or of a checkpoint, never overwrites a file edited after it was made;
\* what was typed into an open file goes away only by typing on, by consent or after it was saved.
\* The pet's tray opens when the user asks for it.
EditsAreKept == [][/\ part = "git" => Git!KeepsEdits
                   /\ part = "files" => Files!EditsStay
                   /\ part = "pet" => Pet!TrayIsAsked]_parts

\* What is shown is what is there: files without a mark are on disk, the tree is the workspace's, the
\* terminals show what their shells wrote and the shells know their size and got every key.  The pet
\* shows what the main window tells of the tasks, what waits for the user first, and stays in its place.
ShowsWhatIs ==
    /\ part = "files" => Files!CleanIsOnDisk
    /\ part = "terminal" => Used!OutputIsWhole /\ Used!ShellKnows
    /\ part = "pet" => Pet!OneActivityEach /\ Pet!WaitingIsFirst /\ Pet!PetIsTold /\ Pet!OnePanel /\ Pet!PetStays
=============================================================================
