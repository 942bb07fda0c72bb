------------------------------ MODULE MCCommands ------------------------------
(***************************************************************************)
(* Commands that share no state, checked side by side: a behaviour is one  *)
(* of them, and the variables of the others keep one initial value.        *)
(***************************************************************************)
EXTENDS HilogStream, RunProcess, SdkInstall, AutoSign, HarmonyOsSession, OhosSigning

CONSTANTS Requests, LoginLines,                              \* of LoginCallback
          Entries, ToolEntries, Installers, MaxFaults        \* of CmdToolsInstall, beside Archives

VARIABLES login, result_, promise, settled, reader, lines, server, request, saved
loginVars == <<login, result_, promise, settled, reader, lines, server, request, saved>>
SignIn == INSTANCE LoginCallback WITH MaxLines <- LoginLines, result <- result_

VARIABLES made, files, faults, cl
toolsVars == <<made, files, faults, cl>>
\* The first archive brings every tool, the second one of them.
Archives == [i \in Installers |-> IF i = 2 THEN ToolEntries ELSE {CHOOSE e \in ToolEntries : TRUE}]
Tools == INSTANCE CmdToolsInstall WITH Archive <- Archives, Keep <- {}, at <- files,
                                       RmFails <- FALSE, Kills <- FALSE, Overlap <- FALSE

VARIABLE command
commandVars == <<command, logVars, execVars, sdkVars, signVars, vars, loginVars, toolsVars, projectVars>>

Is(c, choice) == command = c \/ choice
CommandsInit ==
    /\ command \in {"log", "exec", "sdk", "sign", "session", "login", "cmdtools", "project"}
    /\ LogInit     /\ Is("log", job = "wait" /\ log = <<>>)
    /\ ExecInit    /\ Is("exec", host = "posix" /\ remote = NotYet)
    /\ SdkInit     /\ Is("sdk", sdk = {})
    /\ SignInit    /\ Is("sign", agc.devices = {} /\ connected = {})
    /\ Init        /\ Is("session", keyFile = Absent)
    /\ SignIn!Init
    /\ Tools!Init  /\ Is("cmdtools", made = {})
    /\ ProjectInit /\ Is("project", ~proj.exists /\ haps.built = NoFile)

CommandsNext ==
    \/ /\ command = "log" /\ LogNext
       /\ UNCHANGED <<command, execVars, sdkVars, signVars, vars, loginVars, toolsVars, projectVars>>
    \/ /\ command = "exec" /\ ExecNext
       /\ UNCHANGED <<command, logVars, sdkVars, signVars, vars, loginVars, toolsVars, projectVars>>
    \/ /\ command = "sdk" /\ SdkNext
       /\ UNCHANGED <<command, logVars, execVars, signVars, vars, loginVars, toolsVars, projectVars>>
    \/ /\ command = "sign" /\ SignNext
       /\ UNCHANGED <<command, logVars, execVars, sdkVars, vars, loginVars, toolsVars, projectVars>>
    \/ /\ command = "session" /\ Next
       /\ UNCHANGED <<command, logVars, execVars, sdkVars, signVars, loginVars, toolsVars, projectVars>>
    \/ /\ command = "login" /\ SignIn!Next
       /\ UNCHANGED <<command, logVars, execVars, sdkVars, signVars, vars, toolsVars, projectVars>>
    \/ /\ command = "cmdtools" /\ Tools!Next
       /\ UNCHANGED <<command, logVars, execVars, sdkVars, signVars, vars, loginVars, projectVars>>
    \/ /\ command = "project" /\ ProjectNext
       /\ UNCHANGED <<command, logVars, execVars, sdkVars, signVars, vars, loginVars, toolsVars>>

\* A sign-in is fair as LoginCallback says; the other commands owe nothing.
CommandsSpec ==
    /\ CommandsInit /\ [][CommandsNext]_commandVars
    /\ WF_commandVars(command = "login" /\ SignIn!Progress
                      /\ UNCHANGED <<command, logVars, execVars, sdkVars, signVars, vars, toolsVars, projectVars>>)

------------------------------------------------------------------------------
\* The model's constants.
Given(os, cert, chain, p7b) ==
    [whole |-> TRUE, bundle |-> "b1", os |-> os, cert |-> cert, chain |-> chain, profile |-> p7b]
Issued(b, dated) == [bundle |-> b, cert |-> "agc", issuer |-> "app_gallery", dated |-> dated]
MCGivenHaps ==
    {Given("HarmonyOS", "agc", chain, Issued("b1", "now")) : chain \in {"good", "broken"}}
    \cup {Given("OpenHarmony", "agc", "good", p7b) : p7b \in {Issued("b1", "now"), Issued("b1", "expired"), Issued("b2", "now")}}
    \cup {Given(os, "profile-release", "good", Issued("b1", "now")) : os \in {"OpenHarmony", "HarmonyOS"}}
\* In the order it is named from, the other way round, and two that are too short.
MCChains == {<<"root", "sub", "application-release">>, <<"application-release", "sub", "root">>, <<"root", "application-release">>, <<"own">>}
------------------------------------------------------------------------------
\* HarmonyOsSession, LoginCallback: what a command said of the session is what the store holds; a sign-in that
\* did not succeed saves none, however late its callback arrives, one that did that of the callback that
\* settled it.  Once login has returned, its port is free and no connection keeps the process alive.
SessionsAreTold == OutcomeMatchesStore /\ SignIn!OutcomeMatchesStore /\ SignIn!NothingLeftBehind

\* AutoSign, OhosSigning: a signing that succeeded, for either system, leaves material that agrees with the project's
\* signingConfigs, whatever failed before it; a HAP that verify calls valid is its profile's; a project that
\* create made is whole and one that it refused to replace untouched; no command leaves a temporary file.
SigningIsSound == SignedMaterialAgrees /\ GeneratedAgrees /\ VerdictIsTrue /\ ScaffoldIsWhole /\ ScratchIsGone

\* LoginCallback: login returns or throws, whatever the browser does.
SignInEnds == SignIn!LoginEnds

\* CmdToolsInstall: a failed install loses no file of the user's, parked tools included, and the directory goes
\* from one release to the next at once or not at all.
ToolsAreAtomic == Tools!FailureKeepsTools /\ Tools!AtomicInstall
==============================================================================
