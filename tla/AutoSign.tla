------------------------------- MODULE AutoSign -------------------------------
(***************************************************************************)
(* harmonyos/signing/autoSign.ts with agc.ts, devices.ts, keystore.ts and  *)
(* profile.ts: harmonyOsAutoSign of several projects of one AppGallery     *)
(* Connect team, as processes that may overlap, fail or be killed between  *)
(* any two requests.  A key stands for the pair, its password and whatever *)
(* was issued for it; AGC holds one certificate under oniro-app's name.    *)
(***************************************************************************)
EXTENDS Naturals, FiniteSets

CONSTANTS Projects,
          Phones,        \* devices that may be connected
          MaxKeyPairs,       \* key pairs generated in all
          MaxRuns,       \* commands run in all
          LosesConfig    \* whether a command may end between the profile on disk and the config

ASSUME SignAssumption == MaxKeyPairs \in Nat /\ MaxRuns \in Nat /\ LosesConfig \in BOOLEAN

VARIABLES cmd,           \* per project: the label of its command and what it remembers
          onDisk,         \* per project: the key of each file of the material, 0 when it is missing
          profile,       \* per project: what the .p7b names
          config,        \* per project: the key whose password signingConfigs holds, 0 without one
          agc,           \* the team's certificate (its key, or 0) and devices
          connected,     \* the devices that are attached
          keys,          \* key pairs generated so far
          runs
signVars == <<cmd, onDisk, profile, config, agc, connected, keys, runs>>

Files == {"p12", "csr", "cer", "p7b"}
NoMaterial == [file \in Files |-> 0]
NoProfile  == [devices |-> {}, expired |-> FALSE]
Resting    == [at |-> "idle", local |-> {}, ids |-> {}, key |-> 0, cert |-> 0]

SignInit ==
    /\ cmd = [p \in Projects |-> Resting] /\ onDisk = [p \in Projects |-> NoMaterial]
    /\ profile = [p \in Projects |-> NoProfile] /\ config = [p \in Projects |-> 0]
    /\ agc \in {[cert |-> 0, devices |-> {}], [cert |-> 0, devices |-> Phones]}
    /\ connected \in SUBSET Phones /\ keys = 0 /\ runs = 0

Over(p) == cmd[p].at \in {"idle", "signed", "reused", "failed", "killed"}
Moves(p, from, to) == cmd[p].at = from /\ cmd' = [cmd EXCEPT ![p].at = to]

------------------------------------------------------------------------------
Plug == /\ \A p \in Projects : Over(p)
        /\ connected' \in SUBSET Phones /\ connected' # connected
        /\ UNCHANGED <<cmd, onDisk, profile, config, agc, keys, runs>>
ExpireProfile(p) == /\ onDisk[p]["p7b"] # 0 /\ ~profile[p].expired /\ Over(p)
             /\ profile' = [profile EXCEPT ![p].expired = TRUE]
             /\ UNCHANGED <<cmd, onDisk, config, agc, connected, keys, runs>>

\* The build profile, the session and the connected devices are read.
BeginSigning(p) == /\ Over(p) /\ runs < MaxRuns /\ runs' = runs + 1
            /\ cmd' = [cmd EXCEPT ![p] = [Resting EXCEPT !.at = "check", !.local = connected]]
            /\ UNCHANGED <<onDisk, profile, config, agc, connected, keys>>

profileProblem(p) == profile[p].expired \/ ~(cmd[p].local \subseteq profile[p].devices)
shouldRegenerate(p) == (\E file \in Files : onDisk[p][file] = 0) \/ config[p] = 0 \/ profileProblem(p)
Check(p) == /\ \/ shouldRegenerate(p) /\ Moves(p, "check", "register")
               \/ ~shouldRegenerate(p) /\ Moves(p, "check", "reused")
               \/ Moves(p, "check", "register")                                     \* --force
            /\ UNCHANGED <<onDisk, profile, config, agc, connected, keys, runs>>

\* registerDevices, which a profile must name one of; only then is the old material removed.
Register(p) == /\ Moves(p, "register", "remove") /\ agc' = [agc EXCEPT !.devices = @ \cup cmd[p].local]
               /\ agc'.devices # {}
               /\ UNCHANGED <<onDisk, profile, config, connected, keys, runs>>
RemoveFiles(p) == /\ cmd[p].at = "remove"
                  /\ cmd' = [cmd EXCEPT ![p].at = "list", ![p].ids = agc.devices]
                  /\ onDisk' = [onDisk EXCEPT ![p] = NoMaterial] /\ profile' = [profile EXCEPT ![p] = NoProfile]
                  /\ UNCHANGED <<config, agc, connected, keys, runs>>

\* The team's certificate makes way for one over a new key.
ListStale(p) == /\ cmd[p].at = "list" /\ cmd' = [cmd EXCEPT ![p].at = "delete", ![p].cert = agc.cert]
                /\ UNCHANGED <<onDisk, profile, config, agc, connected, keys, runs>>
DeleteStale(p) == /\ Moves(p, "delete", "keystore")
                  /\ agc' = [agc EXCEPT !.cert = IF @ = cmd[p].cert THEN 0 ELSE @]
                  /\ UNCHANGED <<onDisk, profile, config, connected, keys, runs>>
generateKeystoreAndCsr(p) ==
    /\ cmd[p].at = "keystore" /\ keys < MaxKeyPairs /\ keys' = keys + 1
    /\ cmd'  = [cmd EXCEPT ![p].at = "add", ![p].key = keys']
    /\ onDisk' = [onDisk EXCEPT ![p]["p12"] = keys', ![p]["csr"] = keys']
    /\ UNCHANGED <<profile, config, agc, connected, runs>>
addCertificate(p) == /\ Moves(p, "add", "find") /\ agc.cert = 0 /\ agc' = [agc EXCEPT !.cert = cmd[p].key]
                     /\ UNCHANGED <<onDisk, profile, config, connected, keys, runs>>
\* The certificate is found by its name, whoever had it issued.
FindCertificate(p) == /\ cmd[p].at = "find" /\ agc.cert # 0
                      /\ cmd' = [cmd EXCEPT ![p].at = "cer", ![p].cert = agc.cert]
                      /\ UNCHANGED <<onDisk, profile, config, agc, connected, keys, runs>>
DownloadCert(p) == /\ Moves(p, "cer", "issue") /\ onDisk' = [onDisk EXCEPT ![p]["cer"] = cmd[p].cert]
                   /\ UNCHANGED <<profile, config, agc, connected, keys, runs>>
\* addDebugProfile, the download and deleteProfile; AGC issues nothing for a certificate that is gone.
IssueProfile(p) == /\ Moves(p, "issue", "verify") /\ agc.cert = cmd[p].cert
                   /\ onDisk' = [onDisk EXCEPT ![p]["p7b"] = cmd[p].cert]
                   /\ profile' = [profile EXCEPT ![p].devices = cmd[p].ids]
                   /\ UNCHANGED <<config, agc, connected, keys, runs>>

\* Mutant: what AGC issued is taken as it is.
Verify_Skipped(p) == Moves(p, "verify", "write") /\ UNCHANGED <<onDisk, profile, config, agc, connected, keys, runs>>

\* verifySigningMaterial; a profile for another key is removed.
Agrees(p) == onDisk[p]["cer"] = onDisk[p]["p7b"] /\ onDisk[p]["p12"] = onDisk[p]["cer"]
Verify(p) == /\ IF Agrees(p) THEN Moves(p, "verify", "write") /\ UNCHANGED onDisk
                ELSE Moves(p, "verify", "failed") /\ onDisk' = [onDisk EXCEPT ![p]["p7b"] = 0]
             /\ UNCHANGED <<profile, config, agc, connected, keys, runs>>
writeSigningConfig(p) == /\ Moves(p, "write", "signed") /\ config' = [config EXCEPT ![p] = cmd[p].key]
                         /\ UNCHANGED <<onDisk, profile, agc, connected, keys, runs>>

\* Every request, tool and file operation may fail, and the command may be killed.
Stop(p) == /\ ~Over(p) /\ (cmd[p].at \in {"verify", "write"} => LosesConfig)
           /\ \E how \in {"failed", "killed"} : cmd' = [cmd EXCEPT ![p] = [Resting EXCEPT !.at = how]]
           /\ UNCHANGED <<onDisk, profile, config, agc, connected, keys, runs>>

SignNext == \/ Plug
            \/ \E p \in Projects :
                 \/ ExpireProfile(p) \/ BeginSigning(p) \/ Check(p) \/ Register(p) \/ RemoveFiles(p) \/ ListStale(p)
                 \/ DeleteStale(p) \/ generateKeystoreAndCsr(p) \/ addCertificate(p) \/ FindCertificate(p)
                 \/ DownloadCert(p) \/ IssueProfile(p) \/ Verify(p) \/ writeSigningConfig(p) \/ Stop(p)
SignSpec == SignInit /\ [][SignNext]_signVars

------------------------------------------------------------------------------
\* When a signing succeeds, with new material or old, the password in signingConfigs opens the keystore,
\* its key is the certificate's, the profile is for that certificate and names every device: whatever earlier commands left
\* behind, and although another project's signing may replace the team's certificate at any moment.
SignedMaterialAgrees ==
    \A p \in Projects : cmd[p].at \in {"signed", "reused"} =>
        Agrees(p) /\ config[p] = onDisk[p]["p12"] /\ cmd[p].local \subseteq profile[p].devices
==============================================================================
