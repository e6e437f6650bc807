------------------------------- MODULE CliRun --------------------------------
(***************************************************************************)
(* One invocation of the CLI (cli/run.ts runCli): the checks before any    *)
(* credential is read, the guided sign-in, the session commands, and the   *)
(* interactive paths (root menu, Machines explorer, provider journey,      *)
(* attach), which call runCli again.  The state is who owns the terminal's *)
(* last row (spinners), what the person is asked, the account signed in    *)
(* for the profile, the last-known Machines picture on disk and the        *)
(* workspace sync a journey leaves running beside the agent.               *)
(***************************************************************************)
EXTENDS Naturals

CONSTANTS
    CiRuns,      \* bound: invocations started
    CiDepth      \* bound: nested runs of one invocation

ASSUME RunBounds == {CiRuns, CiDepth} \subseteq Nat \ {0}

VARIABLES
    ciPc,
    ciCmd,       \* the command of the innermost run
    ciHost,      \* [tty, err, json, key]: what the invocation was given
    ciRows,      \* the rows with a live repaint timer
    ciAsked,     \* what waits for the person's keys: none, login, question, screen, agent
    ciMenu,      \* the menu that started the nested command, with its own row
    ciFrom,      \* the journey was launched from a menu
    ciMode,      \* credentialMode
    ciSync,      \* continuous sync runs; its notices are: off, shown, held
    ciProfile,   \* [account, picture, recorded]: the profile's state on disk
    ciOther,     \* the account an explorer in another terminal works for
    ciPainted,   \* the account whose picture was painted as last known
    ciTainted,   \* a picture nothing in this invocation could have cleared
    ciLeft       \* [runs, depth]

ciVars == <<ciPc, ciCmd, ciHost, ciRows, ciAsked, ciMenu, ciFrom, ciMode, ciSync, ciProfile, ciOther,
            ciPainted, ciTainted, ciLeft>>

CiAccounts == {"ann", "bob"}
Menus == {"root", "machines"}
SessionCommands == {"signup", "login", "logout", "whoami"}
NeedsRemoteCredential == {"machines", "journey", "open", "connect", "observe", "recover", "batch"}
NeedsTerminal == {"journey", "open", "connect", "observe"}
CiCommands == Menus \cup SessionCommands \cup NeedsRemoteCredential \cup {"local"}
NoHost == [tty |-> FALSE, err |-> FALSE, json |-> FALSE, key |-> "absent"]

CiInit ==
    /\ ciPc = "idle" /\ ciCmd = "local" /\ ciHost = NoHost /\ ciRows = {} /\ ciAsked = "none"
    /\ ciMenu = "none" /\ ciFrom = FALSE /\ ciMode = "none" /\ ciSync = "off"
    /\ ciProfile = [account |-> "none", picture |-> "none"]
    /\ ciOther = "none" /\ ciPainted = "none" /\ ciTainted = FALSE
    /\ ciLeft = [runs |-> CiRuns, depth |-> CiDepth]

-----------------------------------------------------------------------------
Interactive == ciHost.tty /\ ~ciHost.json
\* A bare `cuna` without a terminal prints help instead.
Guided == ciHost.key # "usable" /\ (ciCmd \in Menus \cup {"journey"}) /\ Interactive

\* startInlineProgress, where the code asks for stderr to be a terminal.
StatusRow(name) == IF ciHost.err THEN {name} ELSE {}

Goto(pc) == ciPc' = pc
Keep == UNCHANGED <<ciCmd, ciHost, ciMenu, ciFrom, ciMode, ciSync, ciProfile, ciOther, ciPainted, ciTainted, ciLeft>>
OutsideUnchanged == UNCHANGED <<ciHost, ciOther>>

\* paintFirstLine: the row runCli would paint first, before runCli is loaded.
FirstLineFor(cmd, host) ==
    IF host.tty /\ host.err /\ ~host.json /\ cmd \in {"root", "journey", "open"} THEN {"first"} ELSE {}

\* commandLabel and the parse: a refused or an answered-at-once invocation
\* (version, help) never gets here.
InvokeRun ==
    /\ ciPc = "idle" /\ ciLeft.runs > 0
    /\ ciCmd' \in CiCommands
    /\ ciHost' \in [tty: BOOLEAN, err: BOOLEAN, json: BOOLEAN, key: {"absent", "usable", "unusable"}]
    /\ ciRows' = FirstLineFor(ciCmd', ciHost')
    /\ ciMenu' = "none" /\ ciFrom' = FALSE /\ ciMode' = "none" /\ ciPainted' = "none"
    /\ ciLeft' = [runs |-> ciLeft.runs - 1, depth |-> CiDepth]
    /\ Goto("accept") /\ UNCHANGED <<ciAsked, ciSync, ciProfile, ciOther, ciTainted>>

\* The nested runCli of a menu or a journey: a run of its own, on the same host.
Nested(cmd, menu, from) ==
    /\ ciLeft.depth > 0
    /\ ciLeft' = [ciLeft EXCEPT !.depth = @ - 1]
    /\ ciCmd' = cmd /\ ciMenu' = menu /\ ciFrom' = from /\ ciMode' = "none" /\ Goto("accept")

\* catch: every row is stopped, the one painted before the code was loaded
\* included, and the error or the closing line is written.
StopsAllRows == {}
Throws == Goto("caught") /\ ciRows' = StopsAllRows /\ ciAsked' = "none"
ThrowsAlone == Throws /\ Keep

-----------------------------------------------------------------------------
\* Preflight, the terminal each command needs, and the first row.
Accept ==
    /\ ciPc = "accept"
    /\ \/ ThrowsAlone                               \* preflightInvocation refuses
       \/ /\ ciCmd \in NeedsTerminal /\ ~Interactive
          /\ ThrowsAlone
       \/ /\ ciCmd = "root" /\ ~Interactive         \* help, and the end
          /\ Goto("returned") /\ UNCHANGED <<ciRows, ciAsked>> /\ Keep
       \/ /\ ciCmd \in NeedsTerminal \cup {"root"} => Interactive
          /\ ciRows' = CASE ciCmd = "root" -> StatusRow("root")
                         [] ciCmd \in {"journey", "open"} -> StatusRow("journey")
                         [] OTHER -> ciRows
          /\ Goto("config") /\ UNCHANGED ciAsked /\ Keep

UsesCredentialAuthority == ciCmd \in SessionCommands \cup NeedsRemoteCredential \cup {"root"}
\* assertApiKeyUsable.
KeyRefused == ciHost.key = "unusable" /\ UsesCredentialAuthority
\* An unusable key read as no key at all.
KeyIgnored == FALSE
ApiKeyRefused == KeyRefused
BrowserAuthUnavailable == ~(Interactive /\ ciHost.err)

Configure ==
    /\ ciPc = "config"
    /\ \/ ThrowsAlone                               \* resolveConfig, --timeout-ms
       \/ ApiKeyRefused /\ ThrowsAlone
       \/ ciHost.key = "usable" /\ ciCmd \in SessionCommands /\ ThrowsAlone      \* mode_conflict
       \/ ciCmd = "signup" /\ BrowserAuthUnavailable /\ ThrowsAlone
       \/ /\ ~ApiKeyRefused
          /\ ciHost.key = "usable" => ciCmd \notin SessionCommands
          /\ ciCmd = "signup" => ~BrowserAuthUnavailable
          /\ Goto(IF Guided THEN "guided" ELSE IF ciCmd \in SessionCommands THEN "session" ELSE "client")
          /\ UNCHANGED <<ciRows, ciAsked>> /\ Keep

\* The guided entry: a usable session, a failed read of it, or the sign-in.
\* Only the root's row is given up.
GuidedSignIn ==
    /\ ciPc = "guided"
    /\ \/ /\ ciProfile.account # "none"
          /\ Goto("client") /\ UNCHANGED <<ciRows, ciAsked>> /\ Keep
       \/ ThrowsAlone
       \/ /\ ciProfile.account = "none"
          /\ Goto("handoff") /\ ciRows' = ciRows \ {"root"} /\ ciAsked' = "login" /\ Keep

\* A sign-in that succeeded: the stored session is the account's, and the
\* picture is cleared afterwards, by the paths that clear it.
SignsIn(a) == ciProfile' = [account |-> a, picture |-> "none"] /\ ciTainted' = FALSE
SignsInKeeping(a) == ciProfile' = [ciProfile EXCEPT !.account = a]
ForgetsToClear(a) == SignsInKeeping(a) /\ UNCHANGED ciTainted
GuidedClears(a) == SignsIn(a)

GuidedDone ==
    /\ ciPc = "handoff" /\ ciCmd \notin SessionCommands
    /\ \/ ThrowsAlone
       \/ \E a \in CiAccounts :
          /\ GuidedClears(a)
          /\ ciAsked' = "none"
          /\ ciRows' = IF ciCmd = "root" THEN ciRows \cup StatusRow("root") ELSE ciRows
          /\ Goto("client")
          /\ UNCHANGED <<ciCmd, ciMenu, ciFrom, ciMode, ciSync, ciPainted, ciLeft>> /\ OutsideUnchanged

-----------------------------------------------------------------------------
\* The session commands.  All but login start their row at once; a signup is
\* then a sign-in like any other and asks for the code under it.
SessionStarts ==
    /\ ciPc = "session"
    /\ ciRows' = IF ciCmd # "login" /\ ~ciHost.json THEN ciRows \cup StatusRow("auth") ELSE ciRows
    /\ \/ /\ ciCmd = "signup" \/ (ciCmd = "login" /\ ~BrowserAuthUnavailable)
          /\ ciProfile.account = "none"
          /\ ciAsked' = "login" /\ Goto("handoff")
       \/ /\ ciCmd \in {"logout", "whoami"} \/ (ciCmd = "login" /\ (BrowserAuthUnavailable \/ ciProfile.account # "none"))
          /\ ciAsked' = "none" /\ Goto("asks")
    /\ Keep
\* A signup of a signed-in profile is refused.
SignupRefused == ciPc = "session" /\ ciCmd = "signup" /\ ciProfile.account # "none" /\ ThrowsAlone

\* onLoginCodeAccepted: from here the login has a row.
CodeAccepted ==
    /\ ciPc = "handoff" /\ ciCmd \in SessionCommands
    /\ \/ ThrowsAlone
       \/ /\ ciAsked' = "none" /\ Goto("exchange")
          /\ ciRows' = ciRows \cup (IF ~ciHost.json THEN StatusRow("auth") ELSE {}) /\ Keep

\* The exchange stored the session; login records the profile and then clears
\* the picture, signup does not clear it.
Exchanged ==
    /\ ciPc = "exchange"
    /\ \/ ThrowsAlone
       \/ \E a \in CiAccounts :
          /\ SignsInKeeping(a)
          /\ ciTainted' = (ciTainted \/ ciProfile.picture \notin {"none", a})
          /\ IF ciCmd = "signup" THEN Goto("returned") /\ ciRows' = {} ELSE Goto("recording") /\ UNCHANGED ciRows
          /\ UNCHANGED <<ciCmd, ciHost, ciAsked, ciMenu, ciFrom, ciMode, ciSync, ciOther, ciPainted, ciLeft>>

\* ensureProfileRecorded, which may throw, then clear.
ProfileRecorded ==
    /\ ciPc = "recording"
    /\ \/ ThrowsAlone
       \/ /\ ciProfile' = [ciProfile EXCEPT !.picture = "none"]
          /\ ciTainted' = FALSE
          /\ ciRows' = {} /\ Goto("returned")
          /\ UNCHANGED <<ciCmd, ciHost, ciAsked, ciMenu, ciFrom, ciMode, ciSync, ciOther, ciPainted, ciLeft>>

\* whoami, logout, and the login of a profile that is signed in already.
SessionAnswered ==
    /\ ciPc = "asks"
    /\ \/ ThrowsAlone
       \/ /\ ciProfile.account # "none"
          /\ ciProfile' = IF ciCmd = "logout" THEN [account |-> "none", picture |-> "none"] ELSE ciProfile
          /\ ciTainted' = (ciTainted /\ ciCmd # "logout")
          /\ ciRows' = {} /\ Goto("returned")
          /\ UNCHANGED <<ciCmd, ciAsked, ciMenu, ciFrom, ciMode, ciSync, ciPainted, ciLeft>> /\ OutsideUnchanged

-----------------------------------------------------------------------------
\* credentialMode and the client, then the dispatch.
CredentialMode ==
    IF ciHost.key = "usable" THEN "automation"
    ELSE IF ciCmd \in NeedsRemoteCredential \cup {"root"} THEN "interactive" ELSE "none"

OpensClient ==
    /\ ciPc = "client"
    /\ ciMode' = CredentialMode
    /\ \/ /\ ciCmd = "observe" /\ CredentialMode # "interactive"
          /\ Throws
       \/ /\ ciCmd = "observe" => CredentialMode = "interactive"
          /\ Goto(CASE ciCmd \in Menus /\ Interactive -> "menu"
                    [] ciCmd = "journey" -> "identity"
                    [] ciCmd \in {"open", "connect"} -> "attaching"
                    [] ciCmd = "observe" -> "screen"
                    [] OTHER -> "batch")
          /\ ciRows' = ciRows \cup
                 CASE ciCmd \in Menus /\ Interactive -> StatusRow(ciCmd)
                   [] ciCmd \in {"open", "connect"} -> StatusRow("journey")
                   [] ciCmd \in {"journey", "observe"} -> {}
                   [] OTHER -> IF ciHost.json THEN {} ELSE StatusRow("batch")
          /\ ciAsked' = IF ciCmd = "observe" THEN "screen" ELSE ciAsked
    /\ UNCHANGED <<ciCmd, ciMenu, ciFrom, ciSync, ciProfile, ciPainted, ciTainted, ciLeft>> /\ OutsideUnchanged

\* executeCommand (doctor's probes and sync recover included): success stops
\* the row, and a menu that ran it stops its own.
BatchEnds ==
    /\ ciPc = "batch"
    /\ \/ ThrowsAlone
       \/ /\ ciRows' = ciRows \ {"batch"} /\ Goto("returned") /\ UNCHANGED ciAsked /\ Keep

\* observe, share and the screens a menu opens end when the person leaves them.
ScreenEnds ==
    /\ ciPc = "screen"
    /\ \/ ThrowsAlone
       \/ ciAsked' = "none" /\ Goto("returned") /\ UNCHANGED ciRows /\ Keep
       \/ /\ ciCmd \in Menus
          /\ ciAsked' = "none" /\ UNCHANGED ciRows
          /\ Nested("machines", "none", FALSE)
          /\ UNCHANGED <<ciSync, ciProfile, ciPainted, ciTainted>> /\ OutsideUnchanged

-----------------------------------------------------------------------------
\* The root menu and the explorer paint the last-known picture, for a person's
\* session only; the row is given up before the screen takes the terminal.
MenuOpens ==
    /\ ciPc = "menu"
    /\ \/ ThrowsAlone
       \/ /\ ciRows' = {} /\ ciAsked' = "screen" /\ Goto("menu-open")
          /\ ciPainted' = IF ciMode = "interactive" THEN ciProfile.picture ELSE "none"
          /\ UNCHANGED <<ciCmd, ciMenu, ciFrom, ciMode, ciSync, ciProfile, ciTainted, ciLeft>> /\ OutsideUnchanged

\* queueInventorySave, of the list read with the account's session.
MenuSaves ==
    /\ ciPc = "menu-open" /\ ciMode = "interactive"
    /\ ciProfile' = [ciProfile EXCEPT !.picture = ciProfile.account]
    /\ UNCHANGED <<ciPc, ciCmd, ciRows, ciAsked, ciMenu, ciFrom, ciMode, ciSync, ciPainted, ciTainted, ciLeft>>
    /\ OutsideUnchanged

\* The menu's answer: nothing, a screen, an attach, a command with a row of
\* its own above the nested run's, or a provider journey.
MenuSelects ==
    /\ ciPc = "menu-open"
    /\ UNCHANGED <<ciSync, ciProfile, ciPainted, ciTainted>> /\ OutsideUnchanged
    /\ \/ ThrowsAlone
       \/ /\ ciAsked' = "none" /\ Goto("returned")
          /\ UNCHANGED <<ciCmd, ciRows, ciMenu, ciFrom, ciMode, ciLeft>>
       \/ /\ ciAsked' = "screen" /\ Goto("screen")
          /\ UNCHANGED <<ciCmd, ciRows, ciMenu, ciFrom, ciMode, ciLeft>>
       \/ /\ ciAsked' = "none" /\ Goto("attaching") /\ ciRows' = StatusRow("root")
          /\ UNCHANGED <<ciCmd, ciMenu, ciFrom, ciMode, ciLeft>>
       \/ ciAsked' = "none" /\ ciRows' = {"menu"} /\ Nested("batch", ciCmd, FALSE)
       \/ ciAsked' = "none" /\ UNCHANGED ciRows /\ Nested("journey", "none", TRUE)

-----------------------------------------------------------------------------
\* attachForeground: the row is up until the agent takes the terminal; in a
\* journey the workspace lines are held from there.
TerminalTaken ==
    /\ ciPc = "attaching"
    /\ \/ ciCmd # "journey" /\ ThrowsAlone
       \/ /\ ciRows' = {} /\ ciAsked' = "agent" /\ Goto("attached")
          /\ ciSync' = IF ciSync = "shown" THEN "held" ELSE ciSync
          /\ UNCHANGED <<ciCmd, ciMenu, ciFrom, ciMode, ciProfile, ciPainted, ciTainted, ciLeft>> /\ OutsideUnchanged

AgentLeft ==
    /\ ciPc = "attached"
    /\ ciAsked' = "none" /\ ciRows' = {}
    /\ ciSync' = IF ciSync = "held" THEN "shown" ELSE ciSync
    /\ Goto(IF ciCmd = "journey" THEN "journey-ends" ELSE "returned")
    /\ UNCHANGED <<ciCmd, ciMenu, ciFrom, ciMode, ciProfile, ciPainted, ciTainted, ciLeft>> /\ OutsideUnchanged

-----------------------------------------------------------------------------
\* The provider journey.  Its account comes first; a launch from the menu for
\* one Machine has no folder and opens the session in a run of its own.
IdentityRead ==
    /\ ciPc = "identity"
    /\ \/ ThrowsAlone
       \/ Goto("machine") /\ UNCHANGED <<ciRows, ciAsked>> /\ Keep
       \/ ciFrom /\ Goto("remote") /\ UNCHANGED <<ciRows, ciAsked>> /\ Keep

\* "Give the row up, ask, take it back", for the two questions of a Machine's
\* creation, the recorded launch's and the picker of several profiles.
Asks(pc) == ciAsked' = "question" /\ ciRows' = {} /\ Goto(pc) /\ Keep
AsksUnderTheRow(pc) == ciAsked' = "question" /\ Goto(pc) /\ UNCHANGED ciRows /\ Keep
AskCreateAnotherSession(pc) == Asks(pc)

Machine ==
    /\ ciPc = "machine"
    /\ \/ Asks("choosing")                          \* selectInstallTetragon, authorizeMachineCreate
       \/ Goto("synchronize") /\ UNCHANGED <<ciRows, ciAsked>> /\ Keep
       \/ Goto("journey-throws") /\ UNCHANGED <<ciRows, ciAsked>> /\ Keep
MachineAnswered ==
    /\ ciPc = "choosing"
    /\ ciAsked' = "none" /\ ciRows' = StatusRow("journey")
    /\ Goto("machine") \/ Goto("declined") \/ Goto("journey-throws")
    /\ Keep

\* synchronizeWorkspace leaves the continuous sync running.
Synchronize ==
    /\ ciPc = "synchronize"
    /\ \/ ciSync' = "shown" /\ Goto("session-launch")
       \/ UNCHANGED ciSync /\ Goto("journey-throws")
    /\ UNCHANGED <<ciCmd, ciRows, ciAsked, ciMenu, ciFrom, ciMode, ciProfile, ciPainted, ciTainted, ciLeft>> /\ OutsideUnchanged

Launch ==
    /\ ciPc \in {"session-launch", "remote"}
    /\ \/ AskCreateAnotherSession(IF ciPc = "remote" THEN "remote-asked" ELSE "launch-asked")
       \/ Asks(IF ciPc = "remote" THEN "remote-picking" ELSE "launch-picking")
       \/ /\ ciPc = "session-launch" /\ Goto("attaching") /\ UNCHANGED <<ciRows, ciAsked>> /\ Keep
       \/ /\ ciPc = "session-launch" /\ Goto("journey-throws") /\ UNCHANGED <<ciRows, ciAsked>> /\ Keep
       \/ ciPc = "remote" /\ ThrowsAlone
       \/ /\ ciPc = "remote" /\ ciRows' = {} /\ UNCHANGED ciAsked
          /\ Nested("open", "none", FALSE)
          /\ UNCHANGED <<ciSync, ciProfile, ciPainted, ciTainted>> /\ OutsideUnchanged

\* An answer takes the row back; an abandoned question or picker does not.
LaunchAnswered ==
    /\ ciPc \in {"launch-asked", "launch-picking", "remote-asked", "remote-picking"}
    /\ ciAsked' = "none"
    /\ \/ /\ ciRows' = StatusRow("journey")
          /\ Goto(IF ciPc \in {"remote-asked", "remote-picking"} THEN "remote" ELSE "session-launch")
       \/ /\ ciRows' = {}
          /\ Goto(CASE ciPc \in {"launch-asked", "launch-picking"} -> "journey-throws"
                    [] ciPc = "remote-asked" -> "caught"
                    [] ciPc = "remote-picking" -> "returned")
    /\ Keep

\* The attach of a journey that fails is a failure of the journey.
JourneyAttachFails ==
    /\ ciPc \in {"attaching", "attached"} /\ ciCmd = "journey"
    /\ ciAsked' = "none" /\ ciRows' = {} /\ Goto("journey-throws")
    /\ ciSync' = IF ciSync = "held" THEN "shown" ELSE ciSync
    /\ UNCHANGED <<ciCmd, ciMenu, ciFrom, ciMode, ciProfile, ciPainted, ciTainted, ciLeft>> /\ OutsideUnchanged

\* finally: the row and the workspace sync are stopped whatever happened.
StopsJourneyWorkspace == ciSync' = "off"
LeavesSyncRunning == IF ciPc = "journey-throws" THEN UNCHANGED ciSync ELSE ciSync' = "off"
JourneyFinally == StopsJourneyWorkspace

JourneyEnds ==
    /\ ciPc \in {"journey-ends", "journey-throws", "declined"}
    /\ ciRows' = {} /\ JourneyFinally
    /\ UNCHANGED <<ciProfile, ciPainted, ciTainted, ciAsked>> /\ OutsideUnchanged
    /\ \/ /\ ciPc = "declined" /\ ciFrom
          /\ Nested("machines", "none", FALSE)
       \/ /\ ciPc = "declined" => ~ciFrom
          /\ Goto(IF ciPc = "journey-ends" THEN "returned" ELSE "caught")
          /\ UNCHANGED <<ciCmd, ciMenu, ciFrom, ciMode, ciLeft>>

-----------------------------------------------------------------------------
\* A run ended.  A menu's command stops the menu's row, and on success the
\* menu is opened again; anything else is the end of the invocation.
RunReturns ==
    /\ ciPc \in {"returned", "caught"}
    /\ ciAsked' = "none"
    /\ ciRows' = ciRows \ {"menu"}
    /\ UNCHANGED <<ciSync, ciProfile, ciPainted, ciTainted>> /\ OutsideUnchanged
    /\ \/ /\ ciMenu # "none" /\ ciPc = "returned"
          /\ Nested(ciMenu, "none", FALSE)
       \/ /\ ciMenu = "none" \/ ciPc = "caught" \/ ciLeft.depth = 0
          /\ Goto("done") /\ UNCHANGED <<ciCmd, ciMenu, ciFrom, ciMode, ciLeft>>

NextInvocation ==
    /\ ciPc = "done" /\ ciLeft.runs > 0 /\ Goto("idle")
    /\ UNCHANGED <<ciRows, ciAsked>> /\ Keep

\* External: the stored session is given up (its refresh was refused), and an
\* explorer of another terminal, which works on with the account it began
\* with and saves that account's list.
SessionLost ==
    /\ ciProfile.account # "none" /\ ciPc = "idle"
    /\ ciProfile' = [ciProfile EXCEPT !.account = "none"]
    /\ UNCHANGED <<ciPc, ciCmd, ciHost, ciRows, ciAsked, ciMenu, ciFrom, ciMode, ciSync, ciOther, ciPainted, ciTainted, ciLeft>>
OtherExplorer ==
    /\ \/ /\ ciOther = "none" /\ ciProfile.account # "none"
          /\ ciOther' = ciProfile.account /\ UNCHANGED <<ciProfile, ciTainted>>
       \/ /\ ciOther # "none"
          /\ ciProfile' = [ciProfile EXCEPT !.picture = ciOther]
          /\ ciTainted' = (ciTainted \/ ciOther # ciProfile.account) /\ UNCHANGED ciOther
    /\ UNCHANGED <<ciPc, ciCmd, ciHost, ciRows, ciAsked, ciMenu, ciFrom, ciMode, ciSync, ciPainted, ciLeft>>

CiNext ==
    \/ InvokeRun \/ Accept \/ Configure \/ GuidedSignIn \/ GuidedDone
    \/ SessionStarts \/ SignupRefused \/ CodeAccepted \/ Exchanged \/ ProfileRecorded \/ SessionAnswered
    \/ OpensClient \/ BatchEnds \/ ScreenEnds \/ MenuOpens \/ MenuSaves \/ MenuSelects
    \/ TerminalTaken \/ AgentLeft \/ IdentityRead \/ Machine \/ MachineAnswered \/ Synchronize
    \/ Launch \/ LaunchAnswered \/ JourneyAttachFails \/ JourneyEnds \/ RunReturns \/ NextInvocation
    \/ SessionLost \/ OtherExplorer
CiSpec == CiInit /\ [][CiNext]_ciVars

-----------------------------------------------------------------------------
\* "a question asked underneath it is erased before it can be read": nothing
\* the person must answer or work in waits under a repainting row.  A
\* journey's guided sign-in and a signup do ask under one, and are left out.
QuestionReadable ==
    ciAsked # "none" /\ ~(ciAsked = "login" /\ ciCmd \in {"journey", "signup"}) => ciRows = {}

\* Every way out of an invocation gives the terminal back and leaves nothing
\* running beside the shell.
NothingLeftRunning == ciPc = "done" => ciRows = {} /\ ciAsked = "none" /\ ciSync = "off"

\* "Empty or malformed never means absent": with a key in the environment no
\* run of the invocation, a nested one included, acts with the person's
\* session or asks them to sign in.
KeyNeverDemoted ==
    ciHost.key # "absent" /\ ciPc # "idle" => ciAsked # "login" /\ ciMode # "interactive"

\* "a picture from one account is not shown under another", unless another
\* terminal wrote it or a sign-in that does not clear it came between.
PictureIsOurs ==
    ciPc = "menu-open" /\ ~ciTainted => ciPainted \in {"none", ciProfile.account}
PictureIsAlwaysOurs == ciPc = "menu-open" => ciPainted \in {"none", ciProfile.account}
QuestionAlwaysReadable == ciAsked # "none" => ciRows = {}
=============================================================================
