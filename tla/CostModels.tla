----------------------------- MODULE CostModels -----------------------------
(***************************************************************************)
(* The versioned cost models of one currency pair: cost_model/storage.py,  *)
(* builder.py and the commands of __main__.py.  A model is a file vNNN.json *)
(* that is never to be written twice, and manifest.json says which versions *)
(* are approved and which of them the pipeline is to load.                  *)
(*                                                                         *)
(* Every command is a process of its own.  crash_safe_write (external)     *)
(* replaces a file at once, so a step below ends at each write; between    *)
(* two steps the process may be killed and, unless `alone', another        *)
(* command may run.                                                        *)
(***************************************************************************)
EXTENDS VersionedFiles

CONSTANTS
    Commands,     \* the processes that may run a command at the same time
    Profiles,     \* what the session profiles of a model say
    BadProfiles,  \* those that lack a session or have a negative cost
    NoModel

ASSUME CostAssumption ==
    /\ BadProfiles \subseteq Profiles
    /\ NoModel \notin Profiles

Statuses == {"none", "draft", "approved"}

VARIABLES
    file,         \* file[v]: the profiles in vNNN.json
    manifest,     \* manifest.json
    pc,           \* how far each command is
    job,          \* what it is: the command, the version and the profiles it holds
    seen,         \* the manifest it has read
    kills

costVars == <<alone, file, manifest, pc, job, seen, kills>>

(***************************************************************************)
(* manifest.json: per version its status and the hash of the model it      *)
(* registers (the profiles stand for their hash), and the pointer          *)
(* latest_approved_version, 0 for None.                                    *)
(***************************************************************************)
Manifests == [status : [Versions -> Statuses],
              hash : [Versions -> Profiles \cup {NoModel}],
              latest : 0..MaxVersion]
ASSUME ManifestAssumption == NoManifest \notin Manifests

EmptyManifest == [status |-> [v \in Versions |-> "none"],
                  hash |-> [v \in Versions |-> NoModel], latest |-> 0]

Jobs == [command : {"create", "create_default", "approve"},
         version : Versions, profiles : Profiles \cup {NoModel}]
NoJob == [command |-> "approve", version |-> 1, profiles |-> NoModel]
Steps == {"idle", "built", "clear", "saved", "registering", "registered", "approving"}

ListVersions == {v \in Versions : file[v] # NoModel}
GetNextVersion == 1 + (IF ListVersions = {} THEN 0
                       ELSE Greatest(ListVersions))

CostInit ==
    /\ alone \in BOOLEAN
    /\ file = [v \in Versions |-> NoModel]
    /\ manifest = NoManifest
    /\ pc = [c \in Commands |-> "idle"]
    /\ job = [c \in Commands |-> NoJob]
    /\ seen = [c \in Commands |-> NoManifest]
    /\ kills = 0

Quiet(c) == alone => \A d \in Commands \ {c} : pc[d] = "idle"
Goto(c, step) == pc' = [pc EXCEPT ![c] = step]
Exit(c) ==
    /\ Goto(c, "idle")
    /\ job' = [job EXCEPT ![c] = NoJob]
    /\ seen' = [seen EXCEPT ![c] = NoManifest]

(***************************************************************************)
(* The builder picks the number of the new version from the files it sees  *)
(* and refuses sessions that do not pass the schema; only then is the      *)
(* version looked for again, and saved.                                    *)
(***************************************************************************)
Valid(p) == p \notin BadProfiles

Build(c, command, p) ==
    /\ pc[c] = "idle" /\ Quiet(c)
    /\ command \in {"create", "create_default"}
    /\ Valid(p)
    /\ GetNextVersion \in Versions
    /\ job' = [job EXCEPT ![c] = [command |-> command, version |-> GetNextVersion,
                                  profiles |-> p]]
    /\ Goto(c, "built")
    /\ UNCHANGED <<alone, file, manifest, seen, kills>>

\* save_cost_model: FileExistsError ends the command.
CheckCollision(c) ==
    /\ pc[c] = "built"
    /\ IF file[job[c].version] # NoModel
         THEN Exit(c)
         ELSE Goto(c, "clear") /\ UNCHANGED <<job, seen>>
    /\ UNCHANGED <<alone, file, manifest, kills>>

SaveModel(c) ==
    /\ pc[c] = "clear"
    /\ file' = [file EXCEPT ![job[c].version] = job[c].profiles]
    /\ Goto(c, "saved")
    /\ UNCHANGED <<alone, manifest, job, seen, kills>>

(***************************************************************************)
(* save_manifest reads the manifest, adds the version as a draft, and      *)
(* writes the whole of it back.  create_default goes on to approve.        *)
(***************************************************************************)
ReadToRegister(c) ==
    /\ pc[c] = "saved"
    /\ seen' = [seen EXCEPT ![c] = IF manifest = NoManifest THEN EmptyManifest
                                   ELSE manifest]
    /\ Goto(c, "registering")
    /\ UNCHANGED <<alone, file, manifest, job, kills>>

Registered(m, v, p) == [m EXCEPT !.status[v] = "draft", !.hash[v] = p]

WriteRegistered(c) ==
    /\ pc[c] = "registering"
    /\ manifest' = Registered(seen[c], job[c].version, job[c].profiles)
    /\ IF job[c].command = "create"
         THEN Exit(c)
         ELSE Goto(c, "registered") /\ UNCHANGED <<job, seen>>
    /\ UNCHANGED <<alone, file, kills>>

(***************************************************************************)
(* approve_version: refused without a manifest, or without the version in  *)
(* it.  The pointer is the greatest of the approved versions.              *)
(***************************************************************************)
NewestApproved(status) == Greatest({v \in Versions : status[v] = "approved"})

Approved(m, v) ==
    LET status == [m.status EXCEPT ![v] = "approved"]
    IN  [m EXCEPT !.status = status, !.latest = NewestApproved(status)]

CmdApprove(c, v) ==
    /\ pc[c] = "idle" /\ Quiet(c)
    /\ job' = [job EXCEPT ![c] = [command |-> "approve", version |-> v,
                                  profiles |-> NoModel]]
    /\ Goto(c, "registered")
    /\ UNCHANGED <<alone, file, manifest, seen, kills>>

\* Mutant: a version that is not in the manifest is approved as well.
ReadToApproveAny(c) ==
    /\ pc[c] = "registered"
    /\ IF manifest = NoManifest
         THEN Exit(c)
         ELSE /\ Goto(c, "approving")
              /\ seen' = [seen EXCEPT ![c] = manifest]
              /\ UNCHANGED job
    /\ UNCHANGED <<alone, file, manifest, kills>>

ReadToApprove(c) ==
    /\ pc[c] = "registered"
    /\ IF manifest = NoManifest \/ manifest.status[job[c].version] = "none"
         THEN Exit(c)
         ELSE /\ Goto(c, "approving")
              /\ seen' = [seen EXCEPT ![c] = manifest]
              /\ UNCHANGED job
    /\ UNCHANGED <<alone, file, manifest, kills>>

WriteApproved(c) ==
    /\ pc[c] = "approving"
    /\ manifest' = Approved(seen[c], job[c].version)
    /\ Exit(c)
    /\ UNCHANGED <<alone, file, kills>>

Kill(c) ==
    /\ pc[c] # "idle" /\ kills < MaxKills
    /\ kills' = kills + 1
    /\ Exit(c)
    /\ UNCHANGED <<alone, file, manifest>>

Proceed(c) ==
    \/ CheckCollision(c) \/ SaveModel(c)
    \/ ReadToRegister(c) \/ WriteRegistered(c)
    \/ ReadToApprove(c)  \/ WriteApproved(c)

CostNext ==
    \E c \in Commands :
        \/ \E command \in {"create", "create_default"}, p \in Profiles : Build(c, command, p)
        \/ \E v \in Versions : CmdApprove(c, v)
        \/ Proceed(c)
        \/ Kill(c)

CostSpec == CostInit /\ [][CostNext]_costVars

-----------------------------------------------------------------------------
CostTypeOK ==
    /\ alone \in BOOLEAN
    /\ file \in [Versions -> Profiles \cup {NoModel}]
    /\ manifest \in Manifests \cup {NoManifest}
    /\ pc \in [Commands -> Steps]
    /\ job \in [Commands -> Jobs]
    /\ seen \in [Commands -> Manifests \cup {NoManifest}]
    /\ kills \in 0..MaxKills

(* The model load_approved_cost_model would load is there, and has passed  *)
(* the schema: whatever commands overlap and wherever they are killed, the *)
(* pointer never names a version without a file (storage.py:183).          *)
ApprovedModelLoads ==
    manifest # NoManifest /\ manifest.latest # 0 =>
        /\ file[manifest.latest] # NoModel
        /\ Valid(file[manifest.latest])

(* Commands run one at a time, killed anywhere: what the manifest records  *)
(* of a version is the hash of the file, and the pointer is the greatest   *)
(* approved version.                                                       *)
ManifestDescribesModels ==
    alone /\ manifest # NoManifest =>
        /\ \A v \in Versions :
              manifest.status[v] # "none" => manifest.hash[v] = file[v]
        /\ \A v \in Versions :
              manifest.status[v] = "approved" => v <= manifest.latest
        /\ manifest.latest # 0 => manifest.status[manifest.latest] = "approved"

(* A saved version keeps its profiles for good, and an approval is never   *)
(* taken back, when commands run one at a time.                            *)
ModelsKept ==
    [][alone => /\ \A v \in Versions : file[v] # NoModel => file'[v] = file[v]
                /\ manifest # NoManifest => /\ manifest' # NoManifest
                                            /\ manifest'.latest >= manifest.latest]_costVars

(* storage.py:5, "Versions are immutable — never overwritten", of commands *)
(* that overlap.                                                           *)
NeverOverwritten ==
    [][\A v \in Versions : file[v] # NoModel => file'[v] = file[v]]_costVars
=============================================================================
