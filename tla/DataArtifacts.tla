------------------------------ MODULE DataArtifacts -----------------------------
(***************************************************************************)
(* The files of the data pipeline over several runs of its proof           *)
(* (pipeline_proof.py): yearly chunks and raw versions (downloader.py),    *)
(* the M1 table and the higher timeframes (timeframe_converter.py), the    *)
(* halves and their manifest (data_splitter.py, dataset_hasher.py,         *)
(* data_manifest.py).                                                      *)
(*                                                                         *)
(* A table is known by the data it was made of, which is what each year of *)
(* the download holds; so is its hash.  A file that is written under       *)
(* another name and renamed appears at once; each stands for its Arrow and *)
(* its Parquet form.  "H1" stands for the higher timeframes.  Each run     *)
(* ends with FAIL (see Validate), so that there is never a                 *)
(* reference_dataset.json; the errors are left out.                        *)
(***************************************************************************)
EXTENDS Integers, FiniteSets

CONSTANTS
  Years,     \* the years of the reference dataset, an interval
  Configs,   \* configurations: they differ in how they split
  NoConfig,  \* that of a run yet to begin
  NoVersion, \* a raw version of which there is not even a directory
  NoFile,
  Torn,      \* a copy that was interrupted
  MaxRuns,   \* bound on runs of the proof
  MaxFaults  \* bound on kills and failing writes

Tables == {"M1", "H1"}
Halves == {"train", "test"}
Extents == {"none", "part", "full"}
Data == [Years -> Extents]
Nothing == [y \in Years |-> "none"]   \* an empty frame

ASSUME YearsAssumption ==
  Years \subseteq Nat /\ \E last \in Years : \A y \in Years : y <= last
ASSUME MarksAssumption ==
  /\ {NoVersion, NoFile, Torn} \cap Data = {}
  /\ NoVersion # NoFile /\ NoVersion # Torn /\ NoFile # Torn
ASSUME BoundsAssumption == {MaxRuns, MaxFaults} \subseteq Nat

VARIABLES
  now,        \* the current year
  resolution, \* of the reference dataset: "M1" or "tick"
  chunk,      \* the yearly chunks
  raw,        \* raw versions: the data, NoFile in a directory without, NoVersion
  m1,         \* {pair}_{start}_{end}_M1 in the pipeline directory
  higher,     \* files of the higher timeframe there, by the range in their name
  halves,     \* files of halves there, by the hash in their name, table and half
  manifests,  \* manifests there, by the hash in their name
  pc,         \* the step of the run, "idle" when there is none
  config,     \* its configuration
  skip_download,
  todo,       \* years it has yet to fetch
  failed,     \* failed_periods
  frame,      \* _df
  validated,  \* _validation_result is there
  converted,  \* _conversion_result is there
  hash,       \* data_hash of the M1 file that is being split
  found,      \* the higher timeframe that is being split, {} or one file
  pending,    \* halves yet to be written
  second,     \* whether this is the re-run
  runs, faults

disk == <<chunk, raw, m1, higher, halves, manifests>>
memory == <<config, skip_download, todo, failed, frame, validated, converted, hash, found,
            pending, second>>
vars == <<now, resolution, disk, pc, memory, runs, faults>>

----------------------------------------------------------------------------

Init ==
  /\ now \in Years /\ resolution \in {"M1", "tick"}
  /\ chunk = Nothing /\ raw = [v \in 1 .. MaxRuns |-> NoVersion]
  /\ m1 = NoFile /\ higher = {} /\ halves = {} /\ manifests = {}
  /\ pc = "idle" /\ config = NoConfig /\ skip_download = FALSE
  /\ todo = {} /\ failed = {} /\ frame = Nothing /\ validated = FALSE /\ converted = FALSE
  /\ hash = Nothing /\ found = {} /\ pending = {} /\ second = FALSE
  /\ runs = 0 /\ faults = 0

\* The process ends, and what it knew is gone.
End ==
  /\ pc' = "idle" /\ config' = NoConfig /\ skip_download' = FALSE
  /\ todo' = {} /\ failed' = {} /\ frame' = Nothing /\ validated' = FALSE
  /\ converted' = FALSE /\ hash' = Nothing /\ found' = {} /\ pending' = {} /\ second' = FALSE

NextYear ==
  /\ pc = "idle" /\ now + 1 \in Years /\ now' = now + 1
  /\ UNCHANGED <<resolution, disk, pc, memory, runs, faults>>

\* Years that have a chunk are not fetched again, the current one excepted.
ToFetch == {y \in Years : y <= now /\ (chunk[y] = "none" \/ y = now)}

\* A run of the proof; the configuration and the flag are those of the invocation.
Start ==
  /\ pc = "idle" /\ runs < MaxRuns /\ runs' = runs + 1
  /\ config' \in Configs
  /\ skip_download' \in BOOLEAN
  /\ todo' = IF resolution = "tick" \/ skip_download' THEN {} ELSE ToFetch
  /\ pc' = IF skip_download' THEN "load" ELSE "fetch"
  /\ UNCHANGED <<now, resolution, disk, failed, frame, validated, converted, hash, found,
                 pending, second, faults>>

\* What a fetch of a year can return: nothing when it fails, and of the current year the
\* rows so far.  (A year whose asks fail comes without them: see NoPrice in MarketData.)
Fetched(y) == {"none", IF y = now THEN "part" ELSE "full"}

FetchYear ==
  /\ pc = "fetch" /\ todo # {}
  /\ LET y == CHOOSE x \in todo : \A z \in todo : x <= z
     IN  \E rows \in Fetched(y) :
           /\ chunk' = IF rows = "none" THEN chunk ELSE [chunk EXCEPT ![y] = rows]
           /\ failed' = IF rows = "none" THEN failed \cup {y} ELSE failed
           /\ todo' = todo \ {y}
  /\ UNCHANGED <<now, resolution, raw, m1, higher, halves, manifests, pc, config,
                 skip_download, frame, validated, converted, hash, found, pending, second, runs, faults>>

\* Ticks are fetched at once and not kept.  An empty frame fails the stage, whose return
\* comes before the raw version is saved.
Consolidate ==
  /\ pc = "fetch" /\ todo = {}
  /\ \E rows \in IF resolution = "M1" THEN {chunk}
                 ELSE {Nothing, [y \in Years |-> IF y < now THEN "full"
                                                 ELSE IF y = now THEN "part" ELSE "none"]} :
       /\ frame' = rows
       /\ pc' = IF rows = Nothing THEN "validate" ELSE "raw_directory"
  /\ UNCHANGED <<now, resolution, disk, config, skip_download, todo, failed, validated, converted,
                 hash, found, pending, second, runs, faults>>

Saved == {v \in DOMAIN raw : raw[v] \notin {NoVersion, NoFile}}

\* --skip-download takes the latest raw file, whatever its dates.
LoadRaw ==
  /\ pc = "load" /\ pc' = "validate"
  /\ frame' = IF Saved = {} THEN Nothing
              ELSE raw[CHOOSE v \in Saved : \A w \in Saved : w <= v]
  /\ UNCHANGED <<now, resolution, disk, config, skip_download, todo, failed, validated, converted,
                 hash, found, pending, second, runs, faults>>

\* save_raw_artifact: one more than the highest version there is a directory of.
NextVersion ==
  CHOOSE v \in DOMAIN raw : \A w \in DOMAIN raw : raw[w] = NoVersion <=> v <= w

MakeVersion ==
  /\ pc = "raw_directory" /\ pc' = "raw_file"
  /\ raw' = [raw EXCEPT ![NextVersion] = NoFile]
  /\ UNCHANGED <<now, resolution, chunk, m1, higher, halves, manifests, memory, runs, faults>>

SaveRaw ==
  /\ pc = "raw_file" /\ pc' = "validate"
  /\ LET made == {v \in DOMAIN raw : raw[v] # NoVersion}
     IN  raw' = [raw EXCEPT ![CHOOSE v \in made : \A w \in made : w <= v] = frame]
  /\ UNCHANGED <<now, resolution, chunk, m1, higher, halves, manifests, memory, runs, faults>>

\* The stage looks for three fields that the report does not have: an error each time.
\* Grouping the errors of a frame that was read from CSV can raise (see MarketData).
Validate ==
  /\ pc = "validate" /\ pc' = "convert"
  /\ validated' \in IF frame = Nothing THEN {FALSE}
                    ELSE IF skip_download THEN BOOLEAN ELSE {TRUE}
  /\ UNCHANGED <<now, resolution, disk, config, skip_download, todo, failed, frame, converted, hash,
                 found, pending, second, runs, faults>>

\* Ticks that were read from CSV cannot be aggregated.
Convertible == validated /\ ~(resolution = "tick" /\ skip_download)

\* The table is written and verified in a directory of its own, then copied in place: a
\* kill leaves part of a copy.  Without a result, the next stage has nothing to do.
Convert ==
  /\ pc = "convert"
  /\ IF Convertible THEN pc' = "copy" /\ m1' = Torn /\ converted' = TRUE
     ELSE pc' = "split" /\ UNCHANGED <<m1, converted>>
  /\ UNCHANGED <<now, resolution, chunk, raw, higher, halves, manifests, config, skip_download, todo,
                 failed, frame, validated, hash, found, pending, second, runs, faults>>

Copied ==
  /\ pc = "copy" /\ pc' = "timeframes" /\ m1' = frame
  /\ UNCHANGED <<now, resolution, chunk, raw, higher, halves, manifests, memory, runs, faults>>

\* The dates of the first and the last row, which are in the name.
Dates(d) ==
  LET years == {y \in Years : d[y] # "none"}
      last == CHOOSE y \in years : \A z \in years : z <= y
  IN  [start |-> CHOOSE y \in years : \A z \in years : y <= z, end |-> last,
       whole |-> d[last] # "part"]

\* A file that exists is not written again, whatever it was made of.  An M1 table that
\* cannot be read raises.
ConvertTimeframe ==
  /\ pc = "timeframes" /\ pc' = "split"
  /\ higher' = IF m1 = Torn \/ \E f \in higher : f.dates = Dates(m1) THEN higher
               ELSE higher \cup {[dates |-> Dates(m1), of |-> m1]}
  /\ UNCHANGED <<now, resolution, chunk, raw, m1, halves, manifests, memory, runs, faults>>

\* Mutant: the hash of the frame.
DataHashOfFrame == frame

\* compute_file_hash of the M1 file.
DataHash == m1

\* run_data_splitting goes by the files it finds, of files for one timeframe by any.  It
\* raises without an M1 table it can read, and stops at a manifest of this hash and
\* configuration (check_existing_dataset).
Split ==
  /\ pc = "split"
  /\ IF m1 \in {NoFile, Torn} \/ \E m \in manifests : m.id = DataHash /\ m.config = config
     THEN pc' = (IF second THEN "compare" ELSE "chain") /\ UNCHANGED <<hash, found, pending>>
     ELSE /\ pc' = "write_halves" /\ hash' = DataHash
          /\ found' \in IF higher = {} THEN {{}} ELSE {{f} : f \in higher}
          /\ pending' = {"M1"} \X Halves \cup (IF found' = {} THEN {} ELSE {"H1"} \X Halves)
  /\ UNCHANGED <<now, resolution, disk, config, skip_download, todo, failed, frame, validated,
                 converted, second, runs, faults>>

\* H1 before M1, train before test.
NextHalf ==
  LET tf == IF \E h \in pending : h[1] = "H1" THEN "H1" ELSE "M1"
  IN  <<tf, IF <<tf, "train">> \in pending THEN "train" ELSE "test">>

Exists(id, tf, half) == \E h \in halves : h.id = id /\ h.table = tf /\ h.half = half
Source(tf) == IF tf = "M1" THEN m1 ELSE (CHOOSE f \in found : TRUE).of

WriteHalf ==
  /\ pc = "write_halves" /\ pending # {} /\ pending' = pending \ {NextHalf}
  /\ halves' = IF Exists(hash, NextHalf[1], NextHalf[2]) THEN halves
               ELSE halves \cup {[id |-> hash, table |-> NextHalf[1], half |-> NextHalf[2],
                                  of |-> Source(NextHalf[1]), config |-> config]}
  /\ UNCHANGED <<now, resolution, chunk, raw, m1, higher, manifests, pc, config, skip_download, todo,
                 failed, frame, validated, converted, hash, found, second, runs, faults>>

\* Mutant: the manifest comes before the halves.
WriteManifestFirst ==
  /\ pc = "write_halves"
  /\ manifests' = {m \in manifests : m.id # hash}
       \cup {[id |-> hash, config |-> config,
              tables |-> IF found = {} THEN {"M1"} ELSE Tables]}
  /\ pc' = IF second THEN "compare" ELSE "chain"
  /\ UNCHANGED <<now, resolution, chunk, raw, m1, higher, halves, memory, runs, faults>>

WriteManifest ==
  /\ pc = "write_halves" /\ pending = {}
  /\ manifests' = {m \in manifests : m.id # hash}
       \cup {[id |-> hash, config |-> config,
              tables |-> IF found = {} THEN {"M1"} ELSE Tables]}
  /\ pc' = IF second THEN "compare" ELSE "chain"
  /\ UNCHANGED <<now, resolution, chunk, raw, m1, higher, halves, memory, runs, faults>>

\* _verify_artifacts takes the hashes of the files; without any there is nothing to compare.
VerifyArtifacts ==
  /\ pc = "chain"
  /\ \E skip_reproducibility \in BOOLEAN :
       pc' = IF skip_reproducibility \/ (m1 = NoFile /\ higher = {} /\ halves = {})
             THEN "finish" ELSE "delete"
  /\ UNCHANGED <<now, resolution, disk, memory, runs, faults>>

\* Mutant: the tables are deleted and the manifests are not.
DeleteTables ==
  /\ pc = "delete" /\ m1' = NoFile /\ higher' = {} /\ halves' = {} /\ second' = TRUE
  /\ pc' = IF converted /\ resolution = "M1" THEN "convert" ELSE "finish"
  /\ UNCHANGED <<now, resolution, chunk, raw, manifests, config, skip_download, todo, failed,
                 frame, validated, converted, hash, found, pending, runs, faults>>

\* _verify_reproducibility deletes every file and goes through the stages again, which
\* raise where the first run had no result, and for ticks, which are not aggregated this
\* time.
Delete ==
  /\ pc = "delete" /\ m1' = NoFile /\ higher' = {} /\ halves' = {} /\ manifests' = {}
  /\ second' = TRUE
  /\ pc' = IF converted /\ resolution = "M1" THEN "convert" ELSE "finish"
  /\ UNCHANGED <<now, resolution, chunk, raw, config, skip_download, todo, failed, frame,
                 validated, converted, hash, found, pending, runs, faults>>

Finish ==
  /\ pc \in {"compare", "finish"} /\ End
  /\ UNCHANGED <<now, resolution, disk, runs, faults>>

----------------------------------------------------------------------------
(* Faults.                                                                 *)

Fault == faults < MaxFaults /\ faults' = faults + 1

Kill ==
  /\ pc \notin {"idle", "delete"} /\ Fault /\ End
  /\ UNCHANGED <<now, resolution, disk, runs>>

\* The files are deleted one by one, in any order.
KillWhileDeleting ==
  /\ pc = "delete" /\ Fault /\ End
  /\ m1' \in {m1, NoFile} /\ higher' \in SUBSET higher
  /\ halves' \in SUBSET halves /\ manifests' \in SUBSET manifests
  /\ UNCHANGED <<now, resolution, chunk, raw, runs>>

\* A write fails, for which the raw version only has a warning: the stage has failed (the
\* download without a frame), and the next one runs.  In the re-run it is the last.
WriteFails ==
  /\ Fault
  /\ pc' = CASE pc \in {"raw_directory", "raw_file"} \/ (pc = "fetch" /\ todo # {}) -> "validate"
             [] pc \in {"convert", "copy", "timeframes", "write_halves"} /\ second -> "finish"
             [] pc \in {"convert", "timeframes"} /\ ~second -> "split"
             [] pc = "copy" /\ ~second -> "timeframes"
             [] pc = "write_halves" /\ ~second -> "chain"
             [] OTHER -> "nothing to write"
  /\ pc' # "nothing to write"
  /\ UNCHANGED <<now, resolution, disk, memory, runs>>

----------------------------------------------------------------------------

Step ==
  \/ FetchYear \/ Consolidate \/ LoadRaw \/ MakeVersion \/ SaveRaw \/ Validate \/ Convert
  \/ Copied \/ ConvertTimeframe \/ Split \/ WriteHalf \/ WriteManifest \/ VerifyArtifacts
  \/ Delete \/ Finish

Next == NextYear \/ Start \/ Step \/ Kill \/ KillWhileDeleting \/ WriteFails

Spec == Init /\ [][Next]_vars

\* A run that was started goes on, unless it is killed: it waits for no one.
FairSpec == Spec /\ WF_vars(Step)

----------------------------------------------------------------------------
(* Properties.                                                             *)

TypeOK ==
  /\ now \in Years /\ resolution \in {"M1", "tick"}
  /\ chunk \in Data /\ raw \in [1 .. MaxRuns -> Data \cup {NoFile, NoVersion}]
  /\ m1 \in Data \cup {NoFile, Torn}
  /\ higher \subseteq [dates : [start : Years, end : Years, whole : BOOLEAN], of : Data]
  /\ halves \subseteq [id : Data, table : Tables, half : Halves, of : Data, config : Configs]
  /\ manifests \subseteq [id : Data, config : Configs, tables : SUBSET Tables]
  /\ pc \in {"idle", "fetch", "load", "raw_directory", "raw_file", "validate", "convert",
             "copy", "timeframes", "split", "write_halves", "chain", "delete", "compare",
             "finish"}
  /\ config \in Configs \cup {NoConfig}
  /\ todo \subseteq Years /\ failed \subseteq Years /\ frame \in Data
  /\ {skip_download, validated, converted, second} \subseteq BOOLEAN
  /\ hash \in Data /\ found \subseteq [dates : [start : Years, end : Years, whole : BOOLEAN],
                                        of : Data]
  /\ pending \subseteq Tables \X Halves
  /\ runs \in 0 .. MaxRuns /\ faults \in 0 .. MaxFaults

\* save_raw_artifact "never overwrites existing versions": what was downloaded once stays
\* as it is, over kills and failing writes.
RawKept == [][\A v \in DOMAIN raw : raw[v] \in Data => raw'[v] = raw[v]]_vars

\* A download of bars passes over no year in silence: if there is a frame, each year that
\* has begun is in it, or is reported as failed.
DownloadAccounts ==
  frame # Nothing /\ resolution = "M1" /\ ~skip_download =>
    \A y \in Years : y <= now => frame[y] # "none" \/ y \in failed

\* The hash in the name of a half is that of the M1 data it is made of, over kills, failing
\* writes and years that come in later.
SplitsMatchTheirHash == \A h \in halves : h.table = "M1" => h.of = h.id

\* No year is passed over in silence, and the hash in a name is that of the data the file
\* is made of.
FilesTellTheTruth == TypeOK /\ DownloadAccounts /\ SplitsMatchTheirHash

Whole(m) == \A tf \in m.tables, half \in Halves : Exists(m.id, tf, half)

\* A manifest that is written names files that are there, and only the deletion for the
\* re-run takes one of them away.
ManifestedFilesStay ==
  [][\A m \in manifests' : m \notin manifests \/ Whole(m) => Whole(m)' \/ pc = "delete"]_vars

\* What was downloaded stays as it is, and what a manifest names stays until it is deleted
\* for the re-run.
FilesStay == RawKept /\ ManifestedFilesStay

\* A re-run that gets to the comparison has made everything anew: whatever earlier runs
\* left, each file is of the data and the configuration of this one.
RerunHeals ==
  pc = "compare" =>
    /\ m1 = frame /\ \A f \in higher : f.of = frame
    /\ halves = [id : {frame}, table : Tables, half : Halves, of : {frame}, config : {config}]
    /\ manifests = {[id |-> frame, config |-> config, tables |-> Tables]}

\* data_splitter.py:393, "config changes invalidate cached splits": the halves that a
\* manifest names are cut as its configuration says.
SplitsFollowConfig ==
  \A m \in manifests, h \in halves : h.id = m.id => h.config = m.config
=============================================================================
