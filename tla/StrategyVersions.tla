-------------------------- MODULE StrategyVersions --------------------------
(***************************************************************************)
(* The versions of one strategy: strategy/storage.py, modifier.py,         *)
(* confirmer.py and versioner.py.  A version is a file vNNN.toml whose     *)
(* content never changes; confirming it rewrites only its status and the   *)
(* hash of the configuration.  manifest.json records what is confirmed,    *)
(* and diffs/ how a version differs from the one it was made of.           *)
(*                                                                         *)
(* Capture, modify and confirm are separate processes.  crash_safe_write   *)
(* (external) replaces a file at once; between two writes a process may be *)
(* killed and, unless `alone', another may run.                            *)
(***************************************************************************)
EXTENDS VersionedFiles

CONSTANTS
    Writers,      \* the processes that may work on the strategy
    Contents,     \* strategy contents: what compute_spec_hash tells apart
    Invalid,      \* those validate_strategy_spec refuses
    NoSpec

ASSUME SpecAssumption == Invalid \subseteq Contents /\ NoSpec \notin Contents

VARIABLES
    spec,         \* spec[v]: vNNN.toml
    diff,         \* diff[v]: the two contents the diff of v from v-1 compares
    specManifest, \* manifest.json
    at,           \* how far each process is
    task,         \* what it does: the command, version, contents it holds
    read,         \* the manifest it has read
    writerKills

specVars == <<alone, spec, diff, specManifest, at, task, read, writerKills>>

Specs == [content : Contents, status : {"draft", "confirmed"}]
ASSUME NoSpecAssumption == NoSpec \notin Specs
NoDiff == <<>>

(* An entry of the manifest: the status and the spec_hash of a version, the *)
(* content standing for its hash.  "none" is a version without an entry.    *)
Entries == [status : {"none", "draft", "confirmed"}, hash : Contents \cup {NoSpec}]
NoEntry == [status |-> "none", hash |-> NoSpec]
SpecManifests == [entry : [Versions -> Entries], current : 0..MaxVersion,
              confirmed : 0..MaxVersion]
ASSUME SpecManifestAssumption == NoManifest \notin SpecManifests

EmptySpecManifest == [entry |-> [v \in Versions |-> NoEntry], current |-> 0, confirmed |-> 0]

Tasks == [command : {"capture", "modify", "confirm"}, version : Versions,
          content : Contents \cup {NoSpec}, from : Specs \cup {NoSpec}]
NoTask == [command |-> "capture", version |-> 1, content |-> NoSpec, from |-> NoSpec]
WriterSteps == {"idle", "numbered", "modified", "free", "written", "diffed", "confirming",
          "confirmed", "listed"}

ListSpecs == {v \in Versions : spec[v] # NoSpec}
Latest == Greatest(ListSpecs)

SpecInit ==
    /\ alone \in BOOLEAN
    /\ spec = [v \in Versions |-> NoSpec]
    /\ diff = [v \in Versions |-> NoDiff]
    /\ specManifest = NoManifest
    /\ at = [w \in Writers |-> "idle"]
    /\ task = [w \in Writers |-> NoTask]
    /\ read = [w \in Writers |-> NoManifest]
    /\ writerKills = 0

NoOtherWriter(w) == alone => \A x \in Writers \ {w} : at[x] = "idle"
Advance(w, step) == at' = [at EXCEPT ![w] = step]
Leave(w) ==
    /\ Advance(w, "idle")
    /\ task' = [task EXCEPT ![w] = NoTask]
    /\ read' = [read EXCEPT ![w] = NoManifest]
ValidStrategySpec(c) == c \notin Invalid

(***************************************************************************)
(* capture_strategy_intent: a draft is generated and validated, numbered   *)
(* after the last file and written, whatever is there by then.  It does    *)
(* not enter the manifest.                                                 *)
(***************************************************************************)
\* Mutant: saved under the number of the last version.
CaptureInPlace(w, c) ==
    /\ at[w] = "idle" /\ NoOtherWriter(w)
    /\ ValidStrategySpec(c)
    /\ task' = [task EXCEPT ![w] = [command |-> "capture", content |-> c, from |-> NoSpec,
                  version |-> IF ListSpecs = {} THEN 1 ELSE Latest]]
    /\ Advance(w, "numbered")
    /\ UNCHANGED <<alone, spec, diff, specManifest, read, writerKills>>

Capture(w, c) ==
    /\ at[w] = "idle" /\ NoOtherWriter(w)
    /\ ValidStrategySpec(c)
    /\ \E v \in Versions :
          /\ v = IF ListSpecs = {} THEN 1 ELSE Latest + 1
          /\ task' = [task EXCEPT ![w] = [command |-> "capture", version |-> v,
                                          content |-> c, from |-> NoSpec]]
    /\ Advance(w, "numbered")
    /\ UNCHANGED <<alone, spec, diff, specManifest, read, writerKills>>

SaveStrategySpec(w) ==
    /\ at[w] = "numbered"
    /\ spec' = [spec EXCEPT ![task[w].version] =
                   [content |-> task[w].content, status |-> "draft"]]
    /\ Leave(w)
    /\ UNCHANGED <<alone, diff, specManifest, writerKills>>

(***************************************************************************)
(* apply_modifications: the latest version is loaded, the modifications    *)
(* applied to it (their result is any content) and the result validated;   *)
(* a file of the new version is a collision; then the version, its diff    *)
(* and the manifest are written, each by a write of its own.               *)
(***************************************************************************)
ApplyModifications(w, c) ==
    /\ at[w] = "idle" /\ NoOtherWriter(w)
    /\ ListSpecs # {} /\ Latest < MaxVersion
    /\ ValidStrategySpec(c)
    /\ task' = [task EXCEPT ![w] = [command |-> "modify", version |-> Latest + 1,
                                    content |-> c, from |-> spec[Latest]]]
    /\ Advance(w, "modified")
    /\ UNCHANGED <<alone, spec, diff, specManifest, read, writerKills>>

CheckSpecCollision(w) ==
    /\ at[w] = "modified"
    /\ IF spec[task[w].version] # NoSpec
         THEN Leave(w)
         ELSE Advance(w, "free") /\ UNCHANGED <<task, read>>
    /\ UNCHANGED <<alone, spec, diff, specManifest, writerKills>>

SaveNewVersion(w) ==
    /\ at[w] = "free"
    /\ spec' = [spec EXCEPT ![task[w].version] =
                   [content |-> task[w].content, status |-> "draft"]]
    /\ Advance(w, "written")
    /\ UNCHANGED <<alone, diff, specManifest, task, read, writerKills>>

SaveDiffArtifact(w) ==
    /\ at[w] = "written"
    /\ diff' = [diff EXCEPT ![task[w].version] = <<task[w].from.content, task[w].content>>]
    /\ Advance(w, "diffed")
    /\ UNCHANGED <<alone, spec, specManifest, task, read, writerKills>>

(***************************************************************************)
(* confirm_specification: a draft is rewritten as confirmed and entered in *)
(* the manifest.  A version that already is confirmed ends the command     *)
(* there, whatever the manifest says.                                      *)
(***************************************************************************)
Confirm(w, v) ==
    /\ at[w] = "idle" /\ NoOtherWriter(w)
    /\ spec[v] # NoSpec
    /\ task' = [task EXCEPT ![w] = [command |-> "confirm", version |-> v,
                                    content |-> spec[v].content, from |-> spec[v]]]
    /\ Advance(w, "confirming")
    /\ UNCHANGED <<alone, spec, diff, specManifest, read, writerKills>>

\* Mutant: the specification that was loaded is written, not the confirmed one.
SaveConfirmedStale(w) ==
    /\ at[w] = "confirming"
    /\ IF task[w].from.status = "confirmed"
         THEN Leave(w) /\ UNCHANGED spec
         ELSE /\ Advance(w, "confirmed") /\ UNCHANGED <<task, read>>
              /\ spec' = [spec EXCEPT ![task[w].version] = task[w].from]
    /\ UNCHANGED <<alone, diff, specManifest, writerKills>>

SaveConfirmed(w) ==
    /\ at[w] = "confirming"
    /\ IF task[w].from.status = "confirmed"
         THEN Leave(w) /\ UNCHANGED spec
         ELSE /\ Advance(w, "confirmed") /\ UNCHANGED <<task, read>>
              /\ spec' = [spec EXCEPT ![task[w].version] =
                             [content |-> task[w].content, status |-> "confirmed"]]
    /\ UNCHANGED <<alone, diff, specManifest, writerKills>>

(***************************************************************************)
(* The manifest: read, extended and written back whole.  The first         *)
(* modification without one begins it with the version it started from.    *)
(***************************************************************************)
Entry(status, c) == [status |-> status, hash |-> c]

UpdateManifestVersion(m, v, e) ==
    LET entry == [m.entry EXCEPT ![v] = e]
    IN  [entry |-> entry,
         current |-> Greatest({x \in Versions : entry[x] # NoEntry}),
         confirmed |-> IF e.status = "confirmed" THEN v ELSE m.confirmed]

CreateManifest(v, e) == UpdateManifestVersion(EmptySpecManifest, v, e)

LoadManifest(w) ==
    /\ at[w] \in {"diffed", "confirmed"}
    /\ read' = [read EXCEPT ![w] = specManifest]
    /\ Advance(w, "listed")
    /\ UNCHANGED <<alone, spec, diff, specManifest, task, writerKills>>

SaveManifest(w) ==
    LET t == task[w]
        e == Entry(IF t.command = "confirm" THEN "confirmed" ELSE "draft", t.content)
        begun == IF read[w] # NoManifest THEN read[w]
                 ELSE IF t.command = "confirm" THEN EmptySpecManifest
                 ELSE CreateManifest(t.version - 1, Entry(t.from.status, t.from.content))
    IN  /\ at[w] = "listed"
        /\ specManifest' = UpdateManifestVersion(begun, t.version, e)
        /\ Leave(w)
        /\ UNCHANGED <<alone, spec, diff, writerKills>>

KillWriter(w) ==
    /\ at[w] # "idle" /\ writerKills < MaxKills
    /\ writerKills' = writerKills + 1
    /\ Leave(w)
    /\ UNCHANGED <<alone, spec, diff, specManifest>>

WriterProceeds(w) ==
    \/ SaveStrategySpec(w)
    \/ CheckSpecCollision(w) \/ SaveNewVersion(w) \/ SaveDiffArtifact(w)
    \/ SaveConfirmed(w)
    \/ LoadManifest(w) \/ SaveManifest(w)

SpecNext ==
    \E w \in Writers :
        \/ \E c \in Contents : Capture(w, c) \/ ApplyModifications(w, c)
        \/ \E v \in Versions : Confirm(w, v)
        \/ WriterProceeds(w)
        \/ KillWriter(w)

StrategySpec == SpecInit /\ [][SpecNext]_specVars

-----------------------------------------------------------------------------
SpecTypeOK ==
    /\ alone \in BOOLEAN
    /\ spec \in [Versions -> Specs \cup {NoSpec}]
    /\ diff \in [Versions -> {NoDiff} \cup (Contents \X Contents)]
    /\ specManifest \in SpecManifests \cup {NoManifest}
    /\ at \in [Writers -> WriterSteps]
    /\ task \in [Writers -> Tasks]
    /\ read \in [Writers -> SpecManifests \cup {NoManifest}]
    /\ writerKills \in 0..MaxKills

(* Whatever overlaps and is killed, a version of the manifest has a file,  *)
(* every file passed validation, and the confirmed version is one the      *)
(* manifest records as confirmed by someone.                               *)
ManifestedSpecsExist ==
    /\ \A v \in Versions : spec[v] # NoSpec => ValidStrategySpec(spec[v].content)
    /\ specManifest # NoManifest =>
          \A v \in Versions :
              v = specManifest.confirmed \/ specManifest.entry[v] # NoEntry =>
                 spec[v] # NoSpec

(* One command at a time, killed anywhere: the manifest never claims more  *)
(* than the files hold.  An entry's hash is that of the file, a confirmed  *)
(* entry's file is confirmed, and so is the confirmed version's.           *)
ManifestNeverOverstates ==
    alone /\ specManifest # NoManifest =>
        /\ \A v \in Versions :
              specManifest.entry[v] # NoEntry =>
                 /\ specManifest.entry[v].hash = spec[v].content
                 /\ specManifest.entry[v].status = "confirmed" => spec[v].status = "confirmed"
        /\ specManifest.confirmed # 0 =>
              specManifest.entry[specManifest.confirmed].status = "confirmed"

(* One command at a time: the diff of a version compares what the two      *)
(* files hold, whenever either was confirmed since.                        *)
DiffsTellTheTruth ==
    alone => \A v \in Versions \ {1} :
                diff[v] # NoDiff => diff[v] = <<spec[v - 1].content, spec[v].content>>

(* One command at a time: a version keeps its content for good and a       *)
(* confirmed one stays confirmed (modifier.py:4, FR12).                    *)
SpecsKept ==
    [][alone => \A v \in Versions : spec[v] # NoSpec =>
                   /\ spec'[v] # NoSpec
                   /\ spec'[v].content = spec[v].content
                   /\ spec[v].status = "confirmed" => spec'[v] = spec[v]]_specVars
=============================================================================
