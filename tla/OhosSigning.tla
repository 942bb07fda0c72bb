------------------------------ MODULE OhosSigning ------------------------------
(***************************************************************************)
(* project/createScaffold.ts, sign/generateSigningConfigs.ts with          *)
(* encryptKey.ts, project/prepareSigning.ts, sign/signHap.ts with          *)
(* hapInfo.ts, sign/verifyHap.ts: one project folder and its HAPs under    *)
(* commands that may fail or be killed at any file.  Only these commands,  *)
(* the builds and the user's edits between them change the files.          *)
(***************************************************************************)
EXTENDS Naturals, Sequences, FiniteSets

CONSTANTS BundleNames,    \* bundle names
          Chains,         \* certificate chains a user may sign with: sequences of certificates
          GivenHaps,      \* HAPs made elsewhere
          MaxCommands     \* commands run in all

Nothing == "none"
ASSUME ProjectAssumption ==
    /\ Nothing \notin BundleNames /\ MaxCommands \in Nat
    /\ GivenHaps \subseteq [whole: BOOLEAN, bundle: BundleNames, os: {"OpenHarmony", "HarmonyOS"}, cert: STRING, chain: {"good", "broken"},
                            profile: [bundle: BundleNames \cup {Nothing}, cert: STRING, issuer: STRING, dated: {"now", "expired"}]]

VARIABLES proj,           \* the project's files
          haps,           \* the HAP that was built, and where a signed copy goes
          task,           \* the command that runs
          temps,        \* the temporary directory and file it holds
          commands_
projectVars == <<proj, haps, task, temps, commands_>>

Parts   == {"app", "profile", "module", "package"}    \* app.json5, build-profile.json5, module.json5, oh-package.json5
Modules == {"entry", "feature", "AppScope"}           \* the template's own, a free name, a folder the template has

NoSignatures == [exists |-> FALSE, template |-> Nothing, p7b |-> [bundle |-> Nothing, cert |-> Nothing], chain |-> <<>>,
                 material |-> 0]
NoConfig  == [kind |-> Nothing, material |-> 0]
NoProject == [exists |-> FALSE, files |-> {}, folder |-> "entry", named |-> [part \in Parts |-> "entry"], bundle |-> Nothing,
              sig |-> NoSignatures, config |-> NoConfig]
Template  == [NoProject EXCEPT !.exists = TRUE, !.files = Parts, !.bundle = "template"]
NoFile     == [whole |-> FALSE, bundle |-> Nothing, os |-> "OpenHarmony", cert |-> Nothing, chain |-> "good",
              profile |-> [bundle |-> Nothing, cert |-> Nothing, issuer |-> Nothing, dated |-> "now"]]
NoTask    == [at |-> "idle", bundle |-> Nothing, module |-> "entry", valid |-> TRUE, overwrite |-> FALSE, kind |-> Nothing,
              chain |-> <<>>, out |-> "signed", template |-> [bundle |-> Nothing, cert |-> Nothing], fails |-> FALSE,
              before |-> NoProject, status |-> Nothing]

\* A project that an earlier signing was made for.
Signed(b) == [Template EXCEPT !.bundle = b, !.config = [kind |-> "profile-release", material |-> MaxCommands + 1],
               !.sig = [exists |-> TRUE, template |-> "filled", p7b |-> [bundle |-> b, cert |-> "profile-release"],
                        chain |-> <<"root", "sub", "profile-release">>, material |-> MaxCommands + 1]]

ProjectInit ==
    /\ proj \in {NoProject} \cup {Signed(b) : b \in BundleNames}
    /\ \E hap_ \in {NoFile} \cup (IF proj.exists THEN {} ELSE GivenHaps) : haps = [built |-> hap_, signed |-> NoFile]
    /\ task = NoTask /\ temps = {} /\ commands_ = 0

Idle == task.at \in {"idle", "created", "generated", "present", "signed", "verified", "failed", "killed"}
Starts(with) == /\ Idle /\ commands_ < MaxCommands /\ commands_' = commands_ + 1
               /\ task' = with /\ UNCHANGED <<proj, haps, temps>>
Turn(from, to) == task.at = from /\ task' = [task EXCEPT !.at = to] /\ UNCHANGED commands_

------------------------------------------------------------------------------
(* Between the commands.                                                   *)
EditBundle == /\ Idle /\ "app" \in proj.files /\ \E b \in BundleNames \ {proj.bundle} : proj' = [proj EXCEPT !.bundle = b]
              /\ task' = NoTask
              /\ UNCHANGED <<haps, temps, commands_>>
\* hvigor signs when the passwords decrypt and a profile is there; without signingConfigs the HAP is unsigned.
Signable == proj.config.material = proj.sig.material /\ proj.sig.p7b.bundle # Nothing
HvigorBuilds ==
    /\ Idle /\ proj.files = Parts /\ task' = NoTask
    /\ \/ /\ proj.config.kind = Nothing
          /\ haps' = [haps EXCEPT !["built"] = [NoFile EXCEPT !.whole = TRUE, !.bundle = proj.bundle]]
       \/ /\ proj.config.kind # Nothing /\ Signable
          /\ haps' = [haps EXCEPT !["built"] =
               [NoFile EXCEPT !.whole = TRUE, !.bundle = proj.bundle, !.cert = proj.config.kind,
                             !.profile = [bundle |-> proj.sig.p7b.bundle, cert |-> proj.sig.p7b.cert,
                                          issuer |-> "pki_internal", dated |-> "expired"]]]
    /\ UNCHANGED <<proj, temps, commands_>>

------------------------------------------------------------------------------
(* createScaffold.                                                         *)
StartCreate == \E b \in BundleNames, m \in Modules, valid, over \in BOOLEAN :
    /\ valid \/ m = "entry"
    /\ Starts([NoTask EXCEPT !.at = "create", !.bundle = b, !.module = m, !.valid = valid, !.overwrite = over, !.before = proj])

\* Mutant: the old project is removed before the request is looked at.
CheckCreate_Late ==
    /\ \/ (~task.valid \/ (proj.exists /\ ~task.overwrite)) /\ Turn("create", "failed")
       \/ task.valid /\ (proj.exists => task.overwrite) /\ Turn("create", "copy")
    /\ proj' = (IF task.overwrite THEN NoProject ELSE proj)
    /\ UNCHANGED <<haps, temps>>

\* The names, the location, the template and the release are looked at before anything is removed.
CheckCreate ==
    /\ \/ (~task.valid \/ (proj.exists /\ ~task.overwrite)) /\ Turn("create", "failed")
       \/ task.valid /\ ~proj.exists /\ Turn("create", "copy")
       \/ task.valid /\ proj.exists /\ task.overwrite /\ Turn("create", "remove")
    /\ UNCHANGED <<proj, haps, temps>>
RemoveProject == Turn("remove", "copy") /\ proj' = NoProject /\ UNCHANGED <<haps, temps>>
copyDirRecursive == Turn("copy", "rename") /\ proj' = Template /\ UNCHANGED <<haps, temps>>
\* A module cannot be moved onto a folder of the template's that is not empty.
renameIfExists ==
    /\ \/ task.module = "AppScope" /\ Turn("rename", "failed") /\ UNCHANGED proj
       \/ task.module # "AppScope" /\ Turn("rename", "app") /\ proj' = [proj EXCEPT !.folder = task.module]
    /\ UNCHANGED <<haps, temps>>
writeBundleName == Turn("app", "profile") /\ proj' = [proj EXCEPT !.bundle = task.bundle] /\ UNCHANGED <<haps, temps>>

\* Mutant: the package keeps the template's name.
writeModuleName_NotPackage ==
    /\ \/ Turn("profile", "module") /\ proj' = [proj EXCEPT !.named["profile"] = task.module]
       \/ Turn("module", "package") /\ proj' = [proj EXCEPT !.named["module"] = task.module]
       \/ Turn("package", "created") /\ UNCHANGED proj
    /\ UNCHANGED <<haps, temps>>

writeModuleName ==
    /\ \/ Turn("profile", "module") /\ proj' = [proj EXCEPT !.named["profile"] = task.module]
       \/ Turn("module", "package") /\ proj' = [proj EXCEPT !.named["module"] = task.module]
       \/ Turn("package", "created") /\ proj' = [proj EXCEPT !.named["package"] = task.module]
    /\ UNCHANGED <<haps, temps>>

------------------------------------------------------------------------------
(* generateSigningConfigs and prepareSigning.                              *)
Apls == {"normal", "system_basic"}
pickSigningKind(apl) == IF apl = "normal" THEN "profile-release" ELSE "application-release"
\* The chain a certificate is named from: the SDK's, else the one oniro-app ships or the user's own.
ChainOf(kind, own) == IF kind = "profile-release" THEN <<"root", "sub", "profile-release">> ELSE own

StartGenerate == \E apl \in Apls, chain \in Chains :
    Starts([NoTask EXCEPT !.at = "sdk", !.kind = pickSigningKind(apl), !.chain = ChainOf(pickSigningKind(apl), chain)])
hasSigningArtifacts == proj.sig.exists /\ "profile" \in proj.files /\ proj.config.kind # Nothing
StartPrepare == \E apl \in Apls, chain \in Chains :
    Starts([NoTask EXCEPT !.at = IF hasSigningArtifacts THEN "present" ELSE "sdk", !.kind = pickSigningKind(apl),
                         !.chain = ChainOf(pickSigningKind(apl), chain)])
detectProjectSdkVersion == /\ \/ "profile" \in proj.files /\ Turn("sdk", "copied")
                              \/ "profile" \notin proj.files /\ Turn("sdk", "failed")
                           /\ UNCHANGED <<proj, haps, temps>>
\* The SDK's template takes the place of the one that was filled in.
copySigningFiles ==
    /\ Turn("copied", "template")
    /\ proj' = [proj EXCEPT !.sig = [@ EXCEPT !.exists = TRUE, !.template = Nothing, !.chain = task.chain]]
    /\ UNCHANGED <<haps, temps>>

\* The third block of the chain; a chain of two has an empty one.
enough(chain) == Len(chain) + 1 >= 3
extractLeafCertificate(chain) == IF Len(chain) >= 3 THEN chain[3] ELSE Nothing
applyProfileTemplate ==
    /\ task.at = "template" /\ UNCHANGED <<haps, temps, commands_>>
    /\ \/ /\ "app" \in proj.files /\ enough(proj.sig.chain)
          /\ task' = [task EXCEPT !.at = "p7b", !.template = [bundle |-> proj.bundle, cert |-> extractLeafCertificate(proj.sig.chain)]]
          /\ proj' = [proj EXCEPT !.sig.template = "filled"]
       \/ /\ "app" \notin proj.files \/ ~enough(proj.sig.chain)
          /\ task' = [task EXCEPT !.at = "failed"] /\ UNCHANGED proj

\* Mutant: a profile that is there is kept.
generateP7bFile_Once ==
    /\ Turn("p7b", "unmaterial") /\ UNCHANGED <<haps, temps>>
    /\ proj' = [proj EXCEPT !.sig.p7b = IF @.bundle # Nothing THEN @ ELSE task.template]
generateP7bFile ==
    /\ Turn("p7b", "unmaterial") /\ UNCHANGED <<haps, temps>>
    /\ proj' = [proj EXCEPT !.sig.p7b = task.template]
removeMaterial == /\ Turn("unmaterial", "material") /\ proj' = [proj EXCEPT !.sig.material = 0]
                  /\ UNCHANGED <<haps, temps>>
createMaterial == /\ Turn("material", "config") /\ proj' = [proj EXCEPT !.sig.material = commands_]
                  /\ UNCHANGED <<haps, temps>>

\* Mutant: entries that are there keep their passwords.
updateBuildProfile_Kept ==
    /\ Turn("config", "generated") /\ UNCHANGED <<haps, temps>>
    /\ proj' = [proj EXCEPT !.config = [kind |-> task.kind, material |-> IF @.material # 0 THEN @.material ELSE proj.sig.material]]
updateBuildProfile ==
    /\ Turn("config", "generated") /\ UNCHANGED <<haps, temps>>
    /\ proj' = [proj EXCEPT !.config = [kind |-> task.kind, material |-> proj.sig.material]]

------------------------------------------------------------------------------
(* signOpenHarmonyHap: the material is made in a directory of its own.     *)
StartSignHap == \E apl \in Apls, chain \in Chains, out \in {"built", "signed"} :
    Starts([NoTask EXCEPT !.at = "info", !.kind = pickSigningKind(apl), !.chain = ChainOf(pickSigningKind(apl), chain), !.out = out])
readHapSigningInfo ==
    /\ UNCHANGED <<proj, haps>>
    /\ \/ /\ ~haps["built"].whole \/ haps["built"].os = "HarmonyOS"
          /\ Turn("info", "failed") /\ UNCHANGED temps
       \/ /\ haps["built"].whole /\ haps["built"].os = "OpenHarmony"
          /\ Turn("info", "temp") /\ temps' = temps \cup {"dir"}
makeMaterial ==
    /\ task.at = "temp" /\ UNCHANGED <<proj, haps, temps, commands_>>
    /\ IF enough(task.chain)
       THEN task' = [task EXCEPT !.at = "tool", !.template = [bundle |-> haps["built"].bundle, cert |-> extractLeafCertificate(task.chain)]]
       ELSE task' = [task EXCEPT !.at = "cleanup", !.fails = TRUE]
\* hap-sign-tool writes the copy beside the place it will have.
signTool == Turn("tool", "move") /\ temps' = temps \cup {"tmp"} /\ UNCHANGED <<proj, haps>>
Copy_ == [haps["built"] EXCEPT !.cert = task.kind, !.chain = "good",
                               !.profile = [bundle |-> task.template.bundle, cert |-> task.template.cert,
                                            issuer |-> "pki_internal", dated |-> "expired"]]

moveSigned == /\ Turn("move", "untmp") /\ temps' = temps \ {"tmp"} /\ UNCHANGED proj
              /\ haps' = [haps EXCEPT ![task.out] = Copy_]
finallyTmp == Turn("untmp", "cleanup") /\ temps' = temps \ {"tmp"} /\ UNCHANGED <<proj, haps>>

\* Mutant: the directory is removed only when all went well.
finallyScratch_OnSuccess ==
    /\ task.at = "cleanup" /\ task' = [task EXCEPT !.at = IF task.fails THEN "failed" ELSE "signed"]
    /\ temps' = (IF task.fails THEN temps ELSE temps \ {"dir"}) /\ UNCHANGED <<proj, haps, commands_>>
finallyScratch ==
    /\ task.at = "cleanup" /\ task' = [task EXCEPT !.at = IF task.fails THEN "failed" ELSE "signed"]
    /\ temps' = temps \ {"dir"} /\ UNCHANGED <<proj, haps, commands_>>

------------------------------------------------------------------------------
(* verifyHap.                                                              *)
Chained(hap_) == CASE hap_.cert = "agc" -> {"huawei"}
                  [] hap_.cert \in {"profile-release", "application-release"} -> {"openharmony"}
                  [] OTHER -> {}
classifySigner(hap_) ==
    IF "huawei" \in Chained(hap_) \/ hap_.profile.issuer = "app_gallery" THEN "harmonyos-agc"
    ELSE IF "openharmony" \in Chained(hap_) \/ hap_.profile.issuer = "pki_internal" THEN "openharmony-dev" ELSE "other"
\* Mutant: only the bundle is compared.
NotFor_Bundle(hap_) == hap_.profile.bundle \notin {Nothing, hap_.bundle}

\* A profile that names no certificate, or no bundle, is not compared with it.
NotFor(hap_) == \/ hap_.profile.cert \notin {Nothing, hap_.cert}
                \/ hap_.profile.bundle \notin {Nothing, hap_.bundle}

HasProfile(hap_) == hap_.profile.issuer # Nothing
Problems_(hap_, signatureValid) ==
    \/ ~signatureValid \/ ~HasProfile(hap_) \/ hap_.chain # "good" \/ NotFor(hap_)
    \/ hap_.os = "HarmonyOS" /\ classifySigner(hap_) = "openharmony-dev"
    \/ classifySigner(hap_) # "openharmony-dev" /\ hap_.profile.dated # "now"
verdict(hap_) == IF hap_.cert = Nothing \/ Problems_(hap_, hap_.chain # "broken") THEN "invalid" ELSE "valid"

StartVerify == \E place \in DOMAIN haps : Starts([NoTask EXCEPT !.at = "verify", !.out = place])
verifyHap ==
    /\ \/ /\ ~haps[task.out].whole
          /\ task.at = "verify" /\ task' = [task EXCEPT !.at = "verified", !.status = "unverified"] /\ UNCHANGED temps
       \/ haps[task.out].whole /\ task.at = "verify" /\ task' = [task EXCEPT !.at = "verifying"] /\ temps' = {"dir"}
    /\ UNCHANGED <<proj, haps, commands_>>
verifyTool ==
    /\ task.at = "verifying" /\ UNCHANGED <<proj, haps, commands_>>
    /\ task' = [task EXCEPT !.at = "verified", !.status = verdict(haps[task.out])]
    /\ temps' = {}

------------------------------------------------------------------------------
(* A step that fails or is killed leaves what it had written by then.      *)
\* Of a copy or a removal: nothing, or all files but one.
PartWrites == \/ task.at = "remove" /\ \E left \in {proj.files \ {part} : part \in Parts} : proj' = [proj EXCEPT !.files = left, !.sig = NoSignatures]
              \/ task.at = "copy" /\ \E made_ \in {{}} \cup {Parts \ {part} : part \in Parts} : proj' = [Template EXCEPT !.files = made_]
              \/ task.at \in Parts /\ proj' = [proj EXCEPT !.files = @ \ {task.at}]
              \/ task.at = "config" /\ proj' = [proj EXCEPT !.files = @ \ {"profile"}, !.config = NoConfig]
              \/ task.at = "copied" /\ proj' = [proj EXCEPT !.sig = [@ EXCEPT !.exists = TRUE, !.template = Nothing]]
              \/ UNCHANGED proj
\* The tool may have written part of the copy.
Throws__ ==
    /\ ~Idle /\ task.at \notin {"create", "sdk", "info", "verify", "untmp", "cleanup"} /\ PartWrites /\ UNCHANGED <<haps, commands_>>
    /\ \/ /\ task.at \in {"tool", "move"} /\ task' = [task EXCEPT !.at = "untmp", !.fails = TRUE]
          /\ temps' = temps \cup {"tmp"}
       \/ /\ task.at = "temp" /\ task' = [task EXCEPT !.at = "cleanup", !.fails = TRUE]
          /\ UNCHANGED temps
       \/ /\ task.at = "verifying" /\ task' = [task EXCEPT !.at = "verified", !.status = "unverified"]
          /\ temps' = {}
       \/ /\ task.at \notin {"tool", "move", "temp", "verifying"} /\ task' = [task EXCEPT !.at = "failed"]
          /\ UNCHANGED temps
\* What a killed command temps in the temporary directory has a name no other command looks for.
KilledAt == /\ ~Idle /\ PartWrites /\ task' = [task EXCEPT !.at = "killed"] /\ temps' = {}
          /\ UNCHANGED <<haps, commands_>>

ProjectNext ==
    \/ EditBundle \/ HvigorBuilds
    \/ StartCreate \/ CheckCreate \/ RemoveProject \/ copyDirRecursive \/ renameIfExists \/ writeBundleName \/ writeModuleName
    \/ StartGenerate \/ StartPrepare \/ detectProjectSdkVersion \/ copySigningFiles \/ applyProfileTemplate \/ generateP7bFile
    \/ removeMaterial \/ createMaterial \/ updateBuildProfile
    \/ StartSignHap \/ readHapSigningInfo \/ makeMaterial \/ signTool \/ moveSigned \/ finallyTmp \/ finallyScratch
    \/ StartVerify \/ verifyHap \/ verifyTool \/ Throws__ \/ KilledAt
ProjectSpec == ProjectInit /\ [][ProjectNext]_projectVars

------------------------------------------------------------------------------
\* createScaffold: a project it made has one name for its module in every file; without overwrite, or with a
\* request that is refused, a project that was there is as it was, however the command ended.
ScaffoldIsWhole ==
    /\ task.at = "created" => proj.files = Parts /\ proj.bundle = task.bundle /\ proj.folder = task.module
                              /\ \A part \in Parts \ {"app"} : proj.named[part] = task.module
    /\ (task.at \in {"failed", "killed"} /\ task.before.exists /\ (~task.overwrite \/ ~task.valid) /\ task.bundle # Nothing)
          => proj = task.before

\* generateSigningConfigs: a signing that succeeded has left material that decrypts the passwords and a profile for the
\* bundle and the certificate of the signingConfigs, whatever earlier signings left half done; the builds
\* that follow are signed.
GeneratedAgrees ==
    task.at = "generated" => Signable /\ proj.sig.p7b = [bundle |-> proj.bundle, cert |-> extractLeafCertificate(task.chain)]
                             /\ proj.config.kind = task.kind

\* verifyHap: a HAP that verify calls valid is for its own bundle and signed by the certificate its profile names,
\* through failed signings and renamed bundles; a profile that names none says nothing.
VerdictIsTrue ==
    task.status = "valid" /\ task.at = "verified" =>
        LET h == haps[task.out] IN h.profile.bundle \in {Nothing, h.bundle} /\ h.profile.cert \in {Nothing, h.cert}

\* signOpenHarmonyHap, verifyHap: a command that returned or threw holds nothing in the temporary directory.
ScratchIsGone == Idle => temps = {}
==============================================================================
