--------------------------- MODULE VersionsProofs ---------------------------
(***************************************************************************)
(* Theorems about the versions of CostModels and StrategyVersions, for any *)
(* set of processes that overlap, any contents, any number of versions and *)
(* any number of kills.                                                    *)
(***************************************************************************)
EXTENDS MCVersions, WellFoundedInduction, TLAPS

-----------------------------------------------------------------------------
(* Lemmas about the numbers of versions.                                   *)

\* Some version is the greatest of a set of versions that is not empty.
LEMMA GreatestVersion ==
    ASSUME NEW S \in SUBSET Versions, S # {}
    PROVE  Greatest(S) \in S /\ \A w \in S : Greatest(S) >= w
<1> DEFINE Below == {MaxVersion - v : v \in S}
<1>1. MaxVersion \in Nat
  BY VersionAssumption
<1>2. Below \subseteq Nat /\ Below # {}
  <2>1. \A v \in S : MaxVersion - v \in Nat
    BY <1>1 DEF Versions
  <2>2. QED BY <2>1, Zenon
<1>3. PICK x \in Below : \A y \in Below : ~(<<y, x>> \in OpToRel(<, Nat))
  BY <1>2, WFMin, NatLessThanWellFounded, Zenon
<1>4. PICK v \in S : x = MaxVersion - v
  OBVIOUS
<1>5. \A w \in S : v >= w
  <2>1. TAKE w \in S
  <2>2. /\ MaxVersion - w \in Below /\ x \in Below
        /\ MaxVersion - w \in Nat /\ x \in Nat
    BY <1>2
  <2>3. ~(MaxVersion - w < x)
    BY <1>3, <2>2 DEF OpToRel
  <2>4. QED BY <1>1, <1>4, <2>3 DEF Versions
<1> HIDE DEF Below
<1>6. \E u \in S : \A w \in S : u >= w
  BY <1>5
<1>7. QED BY <1>6, Zenon DEF Greatest

-----------------------------------------------------------------------------
(***************************************************************************)
(* The cost models.  What a manifest, on disk or read by a command, may    *)
(* claim: versions that have a file, and a pointer to one of the versions  *)
(* it lists.                                                               *)
(***************************************************************************)
Backed(m) ==
    /\ \A v \in Versions : m.status[v] # "none" => file[v] # NoModel
    /\ m.latest # 0 => m.status[m.latest] # "none"

\* What a command at step l holds: the profiles it checked, a version that is on disk
\* before it is registered, a manifest that claims nothing too much.
Holds(l, j, m) ==
    /\ l \in {"built", "clear", "saved", "registering"} =>
          j.profiles \in Profiles /\ Valid(j.profiles)
    /\ l \in {"saved", "registering"} => file[j.version] # NoModel
    /\ l \in {"registering", "approving"} => m \in Manifests /\ Backed(m)
    /\ l = "approving" => m.status[j.version] # "none"

\* The inductive invariant.
CostInv ==
    /\ CostTypeOK
    /\ \A v \in Versions : file[v] # NoModel => Valid(file[v])
    /\ manifest # NoManifest => Backed(manifest)
    /\ \A c \in Commands : Holds(pc[c], job[c], seen[c])

-----------------------------------------------------------------------------
(* Lemmas about the operators on manifests.                                *)

\* The pointer an approval writes is an approved version, and none is greater.
LEMMA NewestApprovedFacts ==
    ASSUME NEW status \in [Versions -> Statuses], NEW v \in Versions,
           status[v] = "approved"
    PROVE  /\ NewestApproved(status) \in Versions
           /\ status[NewestApproved(status)] = "approved"
           /\ \A w \in Versions : status[w] = "approved" => w <= NewestApproved(status)
<1> DEFINE approved == {w \in Versions : status[w] = "approved"}
<1>1. /\ approved \in SUBSET Versions /\ approved # {}
      /\ NewestApproved(status) = Greatest(approved)
  BY DEF NewestApproved
<1>2. /\ NewestApproved(status) \in approved
      /\ \A w \in approved : NewestApproved(status) >= w
  BY <1>1, GreatestVersion
<1>3. QED BY <1>2 DEF Versions

\* Registering a version makes it a draft with its hash, and changes no other.
LEMMA RegisteredFacts ==
    ASSUME NEW m \in Manifests, NEW v \in Versions, NEW p \in Profiles
    PROVE  /\ Registered(m, v, p) \in Manifests
           /\ Registered(m, v, p).status = [m.status EXCEPT ![v] = "draft"]
           /\ Registered(m, v, p).hash = [m.hash EXCEPT ![v] = p]
           /\ Registered(m, v, p).latest = m.latest
BY DEF Registered, Manifests, Statuses

\* Approving a version changes its status and moves the pointer to the newest approved.
LEMMA ApprovedFacts ==
    ASSUME NEW m \in Manifests, NEW v \in Versions
    PROVE  /\ Approved(m, v) \in Manifests
           /\ Approved(m, v).status = [m.status EXCEPT ![v] = "approved"]
           /\ Approved(m, v).hash = m.hash
           /\ Approved(m, v).latest \in Versions
           /\ Approved(m, v).status[Approved(m, v).latest] = "approved"
           /\ \A w \in Versions :
                 Approved(m, v).status[w] = "approved" => w <= Approved(m, v).latest
<1> DEFINE status == [m.status EXCEPT ![v] = "approved"]
<1>1. m.status \in [Versions -> Statuses] /\ status \in [Versions -> Statuses]
      /\ status[v] = "approved"
  BY DEF Manifests, Statuses
<1>2. /\ NewestApproved(status) \in Versions
      /\ status[NewestApproved(status)] = "approved"
      /\ \A w \in Versions : status[w] = "approved" => w <= NewestApproved(status)
  BY <1>1, NewestApprovedFacts
<1>3. Approved(m, v) = [m EXCEPT !.status = status, !.latest = NewestApproved(status)]
  BY DEF Approved
<1> HIDE DEF status
<1>4. /\ Approved(m, v).status = status
      /\ Approved(m, v).hash = m.hash
      /\ Approved(m, v).latest = NewestApproved(status)
      /\ Approved(m, v) \in Manifests
  <2>1. NewestApproved(status) \in 0..MaxVersion
    BY <1>2 DEF Versions
  <2> DEFINE newest == NewestApproved(status)
  <2> HIDE DEF newest
  <2>2. newest \in 0..MaxVersion /\ Approved(m, v) = [m EXCEPT !.status = status, !.latest = newest]
    BY <1>3, <2>1 DEF newest
  <2>3. QED BY <1>1, <2>2 DEF Manifests, newest
<1>5. QED BY <1>2, <1>4 DEF status

\* The manifest of a pair without one claims nothing.
LEMMA EmptyManifestFacts ==
    EmptyManifest \in Manifests /\ Backed(EmptyManifest)
BY CostAssumption, VersionAssumption DEF EmptyManifest, Manifests, Statuses, Backed

-----------------------------------------------------------------------------
(* The initial state, and a step of each kind.                             *)

LEMMA CostInvInitially == CostInit => CostInv
BY CostAssumption, VersionAssumption
   DEF CostInit, CostInv, CostTypeOK, Holds, Steps, NoJob, Jobs, Versions

\* A command that ends, or that is killed, holds nothing any more; what it leaves on disk
\* is as it was.
LEMMA ExitStep ==
    ASSUME CostInv, NEW c \in Commands, Exit(c),
           UNCHANGED <<alone, file, manifest>>, kills' \in 0..MaxKills
    PROVE  CostInv'
<1>1. CostTypeOK'
  BY CostAssumption, VersionAssumption DEF CostInv, CostTypeOK, Exit, Goto, Steps, NoJob, Jobs, Versions
<1>2. \A d \in Commands : Holds(pc[d], job[d], seen[d])'
  BY DEF CostInv, CostTypeOK, Exit, Goto, Holds, Backed
<1>3. QED BY <1>1, <1>2 DEF CostInv, Backed

LEMMA BuildStep ==
    ASSUME CostInv, NEW c \in Commands, NEW command \in {"create", "create_default"},
           NEW p \in Profiles, Build(c, command, p)
    PROVE  CostInv'
<1>1. CostTypeOK'
  BY DEF CostInv, CostTypeOK, Build, Goto, Steps, Jobs
<1>2. \A d \in Commands : Holds(pc[d], job[d], seen[d])'
  BY DEF CostInv, CostTypeOK, Build, Goto, Holds, Backed
<1>3. QED BY <1>1, <1>2 DEF CostInv, Backed, Build

LEMMA CheckCollisionStep ==
    ASSUME CostInv, NEW c \in Commands, CheckCollision(c)
    PROVE  CostInv'
<1>1. CASE Exit(c) /\ UNCHANGED <<alone, file, manifest, kills>>
  BY <1>1, ExitStep DEF CostInv, CostTypeOK
<1>2. CASE Goto(c, "clear") /\ UNCHANGED <<alone, file, manifest, kills, job, seen>>
  <2>1. CostTypeOK'
    BY <1>2 DEF CostInv, CostTypeOK, Goto, Steps
  <2>2. \A d \in Commands : Holds(pc[d], job[d], seen[d])'
    BY <1>2 DEF CostInv, CostTypeOK, CheckCollision, Goto, Holds, Backed
  <2>3. QED BY <1>2, <2>1, <2>2 DEF CostInv, Backed
<1>3. QED BY <1>1, <1>2 DEF CheckCollision

\* Writing the file may replace that of another command, but takes no version away.
LEMMA SaveModelStep ==
    ASSUME CostInv, NEW c \in Commands, SaveModel(c)
    PROVE  CostInv'
<1>1. /\ job[c].version \in Versions
      /\ job[c].profiles \in Profiles /\ Valid(job[c].profiles)
      /\ job[c].profiles # NoModel
  BY CostAssumption, VersionAssumption DEF CostInv, CostTypeOK, SaveModel, Holds, Jobs
<1>2. CostTypeOK'
  BY <1>1 DEF CostInv, CostTypeOK, SaveModel, Goto, Steps
<1>3. \A v \in Versions : /\ file[v] # NoModel => file'[v] # NoModel
                          /\ file'[v] # NoModel => Valid(file'[v])
  BY <1>1 DEF CostInv, CostTypeOK, SaveModel
<1>4. \A m : Backed(m) => Backed(m)'
  BY <1>3 DEF Backed
<1>5. manifest' # NoManifest => Backed(manifest)'
  BY <1>3 DEF CostInv, Backed, SaveModel
<1>6. ASSUME NEW d \in Commands
      PROVE  Holds(pc[d], job[d], seen[d])'
  <2>1. job[d].version \in Versions
    BY DEF CostInv, CostTypeOK, Jobs
  <2>2. Holds(pc[d], job[d], seen[d])
    BY DEF CostInv
  <2>3. Backed(seen[d]) => Backed(seen[d])'
    BY <1>3 DEF Backed, SaveModel
  <2>4. CASE d = c
    BY <1>1, <2>4 DEF CostInv, CostTypeOK, SaveModel, Goto, Holds
  <2>5. CASE d # c
    BY <1>3, <2>1, <2>2, <2>3, <2>5 DEF CostInv, CostTypeOK, SaveModel, Goto, Holds
  <2>6. QED BY <2>4, <2>5
<1>7. QED BY <1>2, <1>3, <1>5, <1>6 DEF CostInv, Valid

LEMMA ReadToRegisterStep ==
    ASSUME CostInv, NEW c \in Commands, ReadToRegister(c)
    PROVE  CostInv'
<1>1. seen'[c] \in Manifests /\ Backed(seen'[c])
  BY EmptyManifestFacts DEF CostInv, CostTypeOK, ReadToRegister
<1>2. CostTypeOK'
  BY <1>1 DEF CostInv, CostTypeOK, ReadToRegister, Goto, Steps
<1>3. \A d \in Commands : Holds(pc[d], job[d], seen[d])'
  BY <1>1 DEF CostInv, CostTypeOK, ReadToRegister, Goto, Holds, Backed
<1>4. QED BY <1>2, <1>3 DEF CostInv, Backed, ReadToRegister

\* A manifest written by a command claims no more than the one it read, and the version
\* of the command, which has a file.
LEMMA WriteRegisteredStep ==
    ASSUME CostInv, NEW c \in Commands, WriteRegistered(c)
    PROVE  CostInv'
<1> DEFINE v == job[c].version
           p == job[c].profiles
           m == Registered(seen[c], v, p)
<1>1. /\ v \in Versions /\ p \in Profiles /\ file[v] # NoModel
      /\ seen[c] \in Manifests /\ Backed(seen[c])
  BY DEF CostInv, CostTypeOK, WriteRegistered, Holds, Jobs
<1>2. /\ m \in Manifests
      /\ m.status = [seen[c].status EXCEPT ![v] = "draft"]
      /\ m.latest = seen[c].latest
  <2> DEFINE old == seen[c]
  <2> HIDE DEF v, p, old
  <2>1. old \in Manifests /\ v \in Versions /\ p \in Profiles
    BY <1>1 DEF old
  <2>2. /\ Registered(old, v, p) \in Manifests
        /\ Registered(old, v, p).status = [old.status EXCEPT ![v] = "draft"]
        /\ Registered(old, v, p).latest = old.latest
    BY ZenonT(30), <2>1, RegisteredFacts
  <2>3. QED BY <2>2 DEF old
<1>3. manifest' = m
  BY DEF WriteRegistered
<1> HIDE DEF m
<1>4. Backed(m)
  <2>1. seen[c].status \in [Versions -> Statuses] /\ seen[c].latest \in 0..MaxVersion
    BY <1>1 DEF Manifests
  <2>2. QED BY <1>1, <1>2, <2>1, CostAssumption, VersionAssumption DEF Backed, Versions
<1>5. Backed(manifest)' /\ manifest' \in Manifests
  BY <1>2, <1>3, <1>4 DEF Backed, WriteRegistered
<1>6. CostTypeOK'
  <2>1. /\ pc' \in [Commands -> Steps]
        /\ job' \in [Commands -> Jobs]
        /\ seen' \in [Commands -> Manifests \cup {NoManifest}]
    <3>1. CASE Exit(c)
      <4>1. NoJob \in Jobs
        BY CostAssumption, VersionAssumption DEF NoJob, Jobs, Versions
      <4>2. QED BY <3>1, <4>1 DEF CostInv, CostTypeOK, Exit, Goto, Steps
    <3>2. CASE Goto(c, "registered") /\ UNCHANGED <<job, seen>>
      BY <3>2 DEF CostInv, CostTypeOK, Goto, Steps
    <3>3. QED BY <3>1, <3>2 DEF WriteRegistered
  <2>2. QED BY <1>5, <2>1 DEF CostInv, CostTypeOK, WriteRegistered
<1>7. \A d \in Commands : Holds(pc[d], job[d], seen[d])'
  BY DEF CostInv, CostTypeOK, WriteRegistered, Exit, Goto, Holds, Backed
<1>8. QED BY <1>5, <1>6, <1>7 DEF CostInv, WriteRegistered

LEMMA CmdApproveStep ==
    ASSUME CostInv, NEW c \in Commands, NEW v \in Versions, CmdApprove(c, v)
    PROVE  CostInv'
<1>1. CostTypeOK'
  BY DEF CostInv, CostTypeOK, CmdApprove, Goto, Steps, Jobs
<1>2. \A d \in Commands : Holds(pc[d], job[d], seen[d])'
  BY DEF CostInv, CostTypeOK, CmdApprove, Goto, Holds, Backed
<1>3. QED BY <1>1, <1>2 DEF CostInv, Backed, CmdApprove

LEMMA ReadToApproveStep ==
    ASSUME CostInv, NEW c \in Commands, ReadToApprove(c)
    PROVE  CostInv'
<1>1. CASE Exit(c) /\ UNCHANGED <<alone, file, manifest, kills>>
  BY <1>1, ExitStep DEF CostInv, CostTypeOK
<1>2. CASE /\ manifest # NoManifest /\ manifest.status[job[c].version] # "none"
           /\ Goto(c, "approving") /\ seen' = [seen EXCEPT ![c] = manifest]
           /\ UNCHANGED <<alone, file, manifest, kills, job>>
  <2>1. CostTypeOK'
    BY <1>2 DEF CostInv, CostTypeOK, Goto, Steps
  <2>2. \A d \in Commands : Holds(pc[d], job[d], seen[d])'
    BY <1>2 DEF CostInv, CostTypeOK, Goto, Holds, Backed
  <2>3. QED BY <1>2, <2>1, <2>2 DEF CostInv, Backed
<1>3. QED BY <1>1, <1>2 DEF ReadToApprove

LEMMA WriteApprovedStep ==
    ASSUME CostInv, NEW c \in Commands, WriteApproved(c)
    PROVE  CostInv'
<1> DEFINE v == job[c].version
           m == Approved(seen[c], v)
<1>1. /\ v \in Versions /\ seen[c] \in Manifests /\ Backed(seen[c])
      /\ seen[c].status[v] # "none"
  BY DEF CostInv, CostTypeOK, WriteApproved, Holds, Jobs
<1>2. /\ m \in Manifests
      /\ m.status = [seen[c].status EXCEPT ![v] = "approved"]
      /\ m.status[m.latest] = "approved"
  BY <1>1, ApprovedFacts
<1>3. manifest' = m
  BY DEF WriteApproved
<1> HIDE DEF m
<1>4. Backed(m)
  <2>1. seen[c].status \in [Versions -> Statuses]
    BY <1>1 DEF Manifests
  <2>2. QED BY <1>1, <1>2, <2>1 DEF Backed
<1>5. Backed(manifest)' /\ manifest' \in Manifests
  BY <1>2, <1>3, <1>4 DEF Backed, WriteApproved
<1>6. CostTypeOK'
  BY <1>5, CostAssumption, VersionAssumption
     DEF CostInv, CostTypeOK, WriteApproved, Exit, Goto, Steps, NoJob, Jobs, Versions
<1>7. \A d \in Commands : Holds(pc[d], job[d], seen[d])'
  BY DEF CostInv, CostTypeOK, WriteApproved, Exit, Goto, Holds, Backed
<1>8. QED BY <1>5, <1>6, <1>7 DEF CostInv, WriteApproved

-----------------------------------------------------------------------------
LEMMA CostInvPreserved == CostInv /\ [CostNext]_costVars => CostInv'
<1> SUFFICES ASSUME CostInv, [CostNext]_costVars PROVE CostInv'
  OBVIOUS
<1>1. CASE UNCHANGED costVars
  BY <1>1 DEF CostInv, CostTypeOK, Holds, Backed, costVars
<1>2. ASSUME NEW c \in Commands, NEW command \in {"create", "create_default"},
             NEW p \in Profiles, Build(c, command, p)
      PROVE  CostInv'
  BY <1>2, BuildStep
<1>3. ASSUME NEW c \in Commands, NEW v \in Versions, CmdApprove(c, v) PROVE CostInv'
  BY <1>3, CmdApproveStep
<1>4. ASSUME NEW c \in Commands, Proceed(c) PROVE CostInv'
  BY <1>4, CheckCollisionStep, SaveModelStep, ReadToRegisterStep, WriteRegisteredStep,
     ReadToApproveStep, WriteApprovedStep DEF Proceed
<1>5. ASSUME NEW c \in Commands, Kill(c) PROVE CostInv'
  <2>1. kills' \in 0..MaxKills
    BY <1>5, CostAssumption, VersionAssumption DEF CostInv, CostTypeOK, Kill
  <2>2. QED BY <1>5, <2>1, ExitStep DEF Kill
<1>6. QED BY <1>1, <1>2, <1>3, <1>4, <1>5 DEF CostNext

(* The files, the manifest and what every command holds keep their types,  *)
(* the files pass the schema, and no manifest on disk or in memory claims  *)
(* a version that has no file.                                             *)
THEOREM CostInvariant == CostSpec => []CostInv
BY CostInvInitially, CostInvPreserved, PTL DEF CostSpec

(* Type correctness of the cost models.                                    *)
THEOREM CostTypeCorrect == CostSpec => []CostTypeOK
<1>1. CostInv => CostTypeOK
  BY DEF CostInv
<1>2. QED BY <1>1, CostInvariant, PTL

(* Whatever commands overlap and wherever they are killed, the version the *)
(* manifest names as approved is there and has passed the schema           *)
(* (load_approved_cost_model).                                             *)
THEOREM ApprovedLoads == CostSpec => []ApprovedModelLoads
<1>1. CostInv => ApprovedModelLoads
  <2> SUFFICES ASSUME CostInv, manifest # NoManifest, manifest.latest # 0
               PROVE  file[manifest.latest] # NoModel /\ Valid(file[manifest.latest])
    BY DEF ApprovedModelLoads
  <2>1. manifest.latest \in Versions
    BY CostAssumption, VersionAssumption DEF CostInv, CostTypeOK, Manifests, Versions
  <2>2. QED BY <2>1 DEF CostInv, Backed
<1>2. QED BY <1>1, CostInvariant, PTL

-----------------------------------------------------------------------------
(***************************************************************************)
(* Commands one at a time.  What is on disk is then what the command that  *)
(* runs has seen, so that a version it found free is still free when it is *)
(* written, and the manifest it writes back is the one it read.            *)
(***************************************************************************)

\* What a manifest on disk says of the models: their hashes and the newest approved.
Describes(m) ==
    /\ \A v \in Versions : m.status[v] # "none" => m.hash[v] = file[v]
    /\ \A v \in Versions : m.status[v] = "approved" => v <= m.latest
    /\ m.latest # 0 => m.status[m.latest] = "approved"

Lists(v) == manifest # NoManifest /\ manifest.status[v] # "none"

\* What a command at step l knows of the disk when no other is at work.
Knows(l, j, m) ==
    /\ l = "clear" => file[j.version] = NoModel
    /\ l \in {"saved", "registering"} =>
          file[j.version] = j.profiles /\ ~Lists(j.version)
    /\ l = "registering" => m = IF manifest = NoManifest THEN EmptyManifest ELSE manifest
    /\ l = "approving" => manifest # NoManifest /\ m = manifest

AloneInv ==
    alone => /\ manifest # NoManifest => Describes(manifest)
             /\ \A c \in Commands : Knows(pc[c], job[c], seen[c])
             /\ \A c, d \in Commands : c # d => pc[c] = "idle" \/ pc[d] = "idle"

LEMMA AloneInvInitially == CostInit => AloneInv
BY DEF CostInit, AloneInv, Knows

\* A step of c that leaves the disk alone has to be looked at for c only.
LEMMA AloneQuietStep ==
    ASSUME CostInv, AloneInv, NEW c \in Commands, NEW l \in Steps,
           UNCHANGED <<alone, file, manifest>>,
           pc' = [pc EXCEPT ![c] = l],
           \A d \in Commands \ {c} : job'[d] = job[d] /\ seen'[d] = seen[d],
           alone => /\ l # "idle" => \A d \in Commands \ {c} : pc[d] = "idle"
                    /\ Knows(l, job'[c], seen'[c])
    PROVE  AloneInv'
<1> SUFFICES ASSUME alone PROVE AloneInv'
  BY DEF AloneInv
<1>1. pc \in [Commands -> Steps]
  BY DEF CostInv, CostTypeOK
<1>2. manifest' # NoManifest => Describes(manifest)'
  BY DEF AloneInv, Describes
<1>3. ASSUME NEW d \in Commands PROVE Knows(pc[d], job[d], seen[d])'
  <2>1. CASE d = c
    BY <1>1, <2>1 DEF Knows, Lists
  <2>2. CASE d # c
    BY <1>1, <2>2 DEF AloneInv, Knows, Lists
  <2>3. QED BY <2>1, <2>2
<1>4. \A d, e \in Commands : d # e => pc'[d] = "idle" \/ pc'[e] = "idle"
  BY <1>1 DEF AloneInv
<1>5. QED BY <1>2, <1>3, <1>4 DEF AloneInv

\* While a command is at work alone, all others are idle.
LEMMA OthersIdle ==
    ASSUME CostInv, AloneInv, alone, NEW c \in Commands, pc[c] # "idle"
    PROVE  \A d \in Commands \ {c} : pc[d] = "idle"
BY DEF AloneInv

\* A command at its end knows nothing of the disk.
LEMMA AloneExit ==
    ASSUME CostInv, AloneInv, NEW c \in Commands, Exit(c),
           UNCHANGED <<alone, file, manifest>>
    PROVE  AloneInv'
<1>1. "idle" \in Steps
  BY DEF Steps
<1>2. Knows("idle", job'[c], seen'[c])
  BY DEF Knows
<1>3. /\ pc' = [pc EXCEPT ![c] = "idle"]
      /\ \A d \in Commands \ {c} : job'[d] = job[d] /\ seen'[d] = seen[d]
  BY DEF Exit, Goto, CostInv, CostTypeOK
<1>4. QED BY <1>1, <1>2, <1>3, AloneQuietStep

\* The steps of a command that only read.
LEMMA AloneReads ==
    ASSUME CostInv, AloneInv, NEW c \in Commands,
           \/ \E command \in {"create", "create_default"}, p \in Profiles : Build(c, command, p)
           \/ \E v \in Versions : CmdApprove(c, v)
           \/ CheckCollision(c) \/ ReadToRegister(c) \/ ReadToApprove(c)
    PROVE  AloneInv'
<1>0. {"built", "clear", "registering", "registered", "approving"} \subseteq Steps
  BY DEF Steps
<1>1. ASSUME NEW command \in {"create", "create_default"}, NEW p \in Profiles,
             Build(c, command, p)
      PROVE  AloneInv'
  <2>1. Knows("built", job'[c], seen'[c])
    BY DEF Knows
  <2>2. /\ pc' = [pc EXCEPT ![c] = "built"] /\ UNCHANGED <<alone, file, manifest>>
        /\ \A d \in Commands \ {c} : job'[d] = job[d] /\ seen'[d] = seen[d]
        /\ alone => \A d \in Commands \ {c} : pc[d] = "idle"
    BY <1>1 DEF Build, Goto, Quiet, CostInv, CostTypeOK
  <2>3. QED BY <1>0, <2>1, <2>2, AloneQuietStep
<1>2. ASSUME NEW v \in Versions, CmdApprove(c, v) PROVE AloneInv'
  <2>1. Knows("registered", job'[c], seen'[c])
    BY DEF Knows
  <2>2. /\ pc' = [pc EXCEPT ![c] = "registered"] /\ UNCHANGED <<alone, file, manifest>>
        /\ \A d \in Commands \ {c} : job'[d] = job[d] /\ seen'[d] = seen[d]
        /\ alone => \A d \in Commands \ {c} : pc[d] = "idle"
    BY <1>2 DEF CmdApprove, Goto, Quiet, CostInv, CostTypeOK
  <2>3. QED BY <1>0, <2>1, <2>2, AloneQuietStep
<1>3. CASE CheckCollision(c)
  <2>1. CASE file[job[c].version] # NoModel
    BY <1>3, <2>1, AloneExit DEF CheckCollision
  <2>2. CASE file[job[c].version] = NoModel
    <3>1. Knows("clear", job'[c], seen'[c])
      BY <1>3, <2>2 DEF CheckCollision, Knows
    <3>2. /\ pc' = [pc EXCEPT ![c] = "clear"] /\ UNCHANGED <<alone, file, manifest>>
          /\ \A d \in Commands \ {c} : job'[d] = job[d] /\ seen'[d] = seen[d]
          /\ pc[c] # "idle"
      BY <1>3, <2>2 DEF CheckCollision, Goto
    <3>3. QED BY <1>0, <3>1, <3>2, OthersIdle, AloneQuietStep
  <2>3. QED BY <2>1, <2>2
<1>4. CASE ReadToRegister(c)
  <2>1. alone => Knows("registering", job'[c], seen'[c])
    BY <1>4 DEF ReadToRegister, Knows, AloneInv, CostInv, CostTypeOK
  <2>2. /\ pc' = [pc EXCEPT ![c] = "registering"] /\ UNCHANGED <<alone, file, manifest>>
        /\ \A d \in Commands \ {c} : job'[d] = job[d] /\ seen'[d] = seen[d]
        /\ pc[c] # "idle"
    BY <1>4 DEF ReadToRegister, Goto, CostInv, CostTypeOK
  <2>3. QED BY <1>0, <2>1, <2>2, OthersIdle, AloneQuietStep
<1>5. CASE ReadToApprove(c)
  <2>1. CASE manifest = NoManifest \/ manifest.status[job[c].version] = "none"
    BY <1>5, <2>1, AloneExit DEF ReadToApprove
  <2>2. CASE ~(manifest = NoManifest \/ manifest.status[job[c].version] = "none")
    <3>1. Knows("approving", job'[c], seen'[c])
      BY <1>5, <2>2 DEF ReadToApprove, Knows, CostInv, CostTypeOK
    <3>2. /\ pc' = [pc EXCEPT ![c] = "approving"] /\ UNCHANGED <<alone, file, manifest>>
          /\ \A d \in Commands \ {c} : job'[d] = job[d] /\ seen'[d] = seen[d]
          /\ pc[c] # "idle"
      BY <1>5, <2>2 DEF ReadToApprove, Goto, CostInv, CostTypeOK
    <3>3. QED BY <1>0, <3>1, <3>2, OthersIdle, AloneQuietStep
  <2>3. QED BY <2>1, <2>2
<1>6. QED BY <1>1, <1>2, <1>3, <1>4, <1>5

\* A version that is saved was free, so the manifest says nothing of it yet.
LEMMA AloneSave ==
    ASSUME CostInv, AloneInv, NEW c \in Commands, SaveModel(c)
    PROVE  AloneInv'
<1> SUFFICES ASSUME alone PROVE AloneInv'
  BY DEF AloneInv, SaveModel
<1> DEFINE v == job[c].version
<1>1. /\ v \in Versions /\ pc[c] = "clear" /\ file[v] = NoModel
      /\ \A d \in Commands \ {c} : pc[d] = "idle"
      /\ pc \in [Commands -> Steps]
  BY OthersIdle DEF CostInv, CostTypeOK, AloneInv, Knows, SaveModel, Jobs
<1>2. ~Lists(v)
  BY <1>1 DEF CostInv, Backed, Lists
<1>3. \A w \in Versions \ {v} : file'[w] = file[w]
  BY <1>1 DEF SaveModel, CostInv, CostTypeOK
<1>4. manifest' # NoManifest => Describes(manifest)'
  BY <1>2, <1>3 DEF AloneInv, Describes, Lists, SaveModel
<1>5. ASSUME NEW d \in Commands PROVE Knows(pc[d], job[d], seen[d])'
  <2>1. CASE d = c
    <3>1. pc'[c] = "saved" /\ job' = job /\ manifest' = manifest
          /\ file'[v] = job[c].profiles
      BY <1>1 DEF SaveModel, Goto, CostInv, CostTypeOK
    <3>2. ~Lists(v)'
      BY <1>2, <3>1 DEF Lists
    <3>3. QED BY <2>1, <3>1, <3>2 DEF Knows
  <2>2. CASE d # c
    BY <1>1, <2>2 DEF Knows, SaveModel, Goto
  <2>3. QED BY <2>1, <2>2
<1>6. \A d, e \in Commands : d # e => pc'[d] = "idle" \/ pc'[e] = "idle"
  BY <1>1 DEF SaveModel, Goto
<1>7. QED BY <1>4, <1>5, <1>6 DEF AloneInv

\* After a command has written the manifest no other holds one it has read before.
LEMMA AloneWrote ==
    ASSUME CostInv, AloneInv, alone, NEW c \in Commands, pc[c] # "idle",
           NEW l \in {"idle", "registered"}, pc' = [pc EXCEPT ![c] = l],
           Describes(manifest)'
    PROVE  AloneInv'
<1>1. /\ pc \in [Commands -> Steps]
      /\ \A d \in Commands \ {c} : pc[d] = "idle"
  BY OthersIdle DEF CostInv, CostTypeOK
<1>2. \A d \in Commands : pc'[d] \in {"idle", "registered"}
  BY <1>1
<1>3. \A d \in Commands : Knows(pc[d], job[d], seen[d])'
  BY <1>2 DEF Knows
<1>4. QED BY <1>1, <1>3 DEF AloneInv

LEMMA AloneRegister ==
    ASSUME CostInv, AloneInv, NEW c \in Commands, WriteRegistered(c)
    PROVE  AloneInv'
<1> SUFFICES ASSUME alone PROVE AloneInv'
  BY DEF AloneInv, WriteRegistered
<1> DEFINE v == job[c].version
           p == job[c].profiles
           old == seen[c]
<1>1. /\ v \in Versions /\ p \in Profiles /\ file[v] = p
      /\ old \in Manifests /\ old.status[v] = "none" /\ Describes(old)
  <2>1. /\ pc[c] = "registering" /\ v \in Versions /\ p \in Profiles /\ old \in Manifests
        /\ Knows(pc[c], job[c], seen[c])
    BY DEF CostInv, CostTypeOK, AloneInv, WriteRegistered, Holds, Jobs
  <2>2. EmptyManifest.status[v] = "none" /\ Describes(EmptyManifest)
    BY <2>1 DEF EmptyManifest, Describes
  <2>3. QED BY <2>1, <2>2 DEF Knows, Lists, AloneInv
<1>2. manifest' = Registered(old, v, p) /\ file' = file
  BY DEF WriteRegistered
<1>3. pc' = [pc EXCEPT ![c] = "idle"] \/ pc' = [pc EXCEPT ![c] = "registered"]
  BY DEF WriteRegistered, Exit, Goto
<1> HIDE DEF v, p, old
<1>4. /\ manifest' \in Manifests
      /\ manifest'.status = [old.status EXCEPT ![v] = "draft"]
      /\ manifest'.hash = [old.hash EXCEPT ![v] = p]
      /\ manifest'.latest = old.latest
  BY <1>1, <1>2, RegisteredFacts
<1>5. Describes(manifest)'
  <2>1. /\ old.status \in [Versions -> Statuses]
        /\ old.hash \in [Versions -> Profiles \cup {NoModel}]
        /\ old.latest \in 0..MaxVersion
    BY <1>1 DEF Manifests
  <2>2. /\ manifest'.status[v] = "draft" /\ manifest'.hash[v] = file[v]
        /\ \A w \in Versions \ {v} : /\ manifest'.status[w] = old.status[w]
                                     /\ manifest'.hash[w] = old.hash[w]
    BY <1>1, <1>4, <2>1
  <2>3. old.latest # 0 => old.latest # v
    BY <1>1 DEF Describes
  <2>4. old.latest # 0 => old.latest \in Versions
    BY <2>1, CostAssumption, VersionAssumption DEF Versions
  <2>5. QED BY <1>1, <1>2, <1>4, <2>2, <2>3, <2>4 DEF Describes
<1>6. pc[c] # "idle"
  BY DEF WriteRegistered
<1>7. QED BY <1>3, <1>5, <1>6, AloneWrote

LEMMA AloneApprove ==
    ASSUME CostInv, AloneInv, NEW c \in Commands, WriteApproved(c)
    PROVE  AloneInv'
<1> SUFFICES ASSUME alone PROVE AloneInv'
  BY DEF AloneInv, WriteApproved
<1> DEFINE v == job[c].version
           old == seen[c]
<1>1. /\ v \in Versions /\ old \in Manifests /\ old.status[v] # "none" /\ Describes(old)
  BY DEF CostInv, CostTypeOK, AloneInv, WriteApproved, Holds, Knows, Jobs
<1>2. manifest' = Approved(old, v) /\ file' = file /\ pc' = [pc EXCEPT ![c] = "idle"]
      /\ pc[c] # "idle"
  BY DEF WriteApproved, Exit, Goto
<1> HIDE DEF v, old
<1>3. /\ manifest'.status = [old.status EXCEPT ![v] = "approved"]
      /\ manifest'.hash = old.hash
      /\ manifest'.status[manifest'.latest] = "approved"
      /\ \A w \in Versions : manifest'.status[w] = "approved" => w <= manifest'.latest
  BY <1>1, <1>2, ApprovedFacts
<1>4. Describes(manifest)'
  <2>1. old.status \in [Versions -> Statuses]
    BY <1>1 DEF Manifests
  <2>2. \A w \in Versions : manifest'.status[w] # "none" => old.status[w] # "none"
    BY <1>1, <1>3, <2>1
  <2>3. QED BY <1>1, <1>2, <1>3, <2>2 DEF Describes
<1>5. QED BY <1>2, <1>4, AloneWrote

LEMMA AloneInvPreserved == CostInv /\ AloneInv /\ [CostNext]_costVars => AloneInv'
<1> SUFFICES ASSUME CostInv, AloneInv, [CostNext]_costVars PROVE AloneInv'
  OBVIOUS
<1>1. CASE UNCHANGED costVars
  BY <1>1 DEF AloneInv, Describes, Knows, Lists, costVars
<1>2. ASSUME NEW c \in Commands, Kill(c) PROVE AloneInv'
  BY <1>2, AloneExit DEF Kill
<1>3. QED
  BY <1>1, <1>2, AloneReads, AloneSave, AloneRegister, AloneApprove DEF CostNext, Proceed

(* Commands run one at a time and killed anywhere leave a manifest that    *)
(* records the hashes of the files and points to the greatest approved     *)
(* version (save_manifest, approve_version).                               *)
THEOREM ManifestDescribes == CostSpec => []ManifestDescribesModels
<1>1. AloneInv => ManifestDescribesModels
  BY DEF AloneInv, Describes, ManifestDescribesModels
<1>2. QED
  BY <1>1, CostInvInitially, CostInvPreserved, AloneInvInitially, AloneInvPreserved, PTL
     DEF CostSpec

\* One step of a command that runs alone, by what it writes.
Kept ==
    /\ \A v \in Versions : file[v] # NoModel => file'[v] = file[v]
    /\ manifest # NoManifest => manifest' # NoManifest /\ manifest'.latest >= manifest.latest

LEMMA KeptByEachStep ==
    ASSUME CostInv, AloneInv, [CostNext]_costVars, alone
    PROVE  Kept
<1>1. manifest # NoManifest => manifest \in Manifests /\ manifest.latest \in Nat
  BY CostAssumption, VersionAssumption DEF CostInv, CostTypeOK, Manifests
<1>2. CASE UNCHANGED <<file, manifest>>
  BY <1>1, <1>2 DEF Kept
<1>3. ASSUME NEW c \in Commands, SaveModel(c) PROVE Kept
  <2>1. file[job[c].version] = NoModel /\ manifest' = manifest
    BY <1>3 DEF AloneInv, Knows, SaveModel
  <2>2. \A v \in Versions : file[v] # NoModel => file'[v] = file[v]
    BY <1>3, <2>1 DEF SaveModel, CostInv, CostTypeOK
  <2>3. QED BY <1>1, <2>1, <2>2 DEF Kept
<1>4. ASSUME NEW c \in Commands, WriteRegistered(c) PROVE Kept
  <2> DEFINE v == job[c].version
             p == job[c].profiles
             old == seen[c]
  <2>1. /\ v \in Versions /\ p \in Profiles /\ old \in Manifests
        /\ manifest # NoManifest => old = manifest
    BY <1>4 DEF CostInv, CostTypeOK, AloneInv, WriteRegistered, Holds, Knows, Jobs
  <2>2. manifest' = Registered(old, v, p) /\ file' = file
    BY <1>4 DEF WriteRegistered
  <2> HIDE DEF v, p, old
  <2>3. manifest' \in Manifests /\ manifest'.latest = old.latest
    BY <2>1, <2>2, RegisteredFacts
  <2>4. manifest' # NoManifest
    BY <2>3, ManifestAssumption
  <2>5. manifest # NoManifest => manifest'.latest = manifest.latest
    BY <2>1, <2>3
  <2>6. QED BY <1>1, <2>2, <2>4, <2>5 DEF Kept
<1>5. ASSUME NEW c \in Commands, WriteApproved(c) PROVE Kept
  <2> DEFINE v == job[c].version
  <2>1. /\ v \in Versions /\ manifest \in Manifests /\ Describes(manifest)
        /\ manifest' = Approved(manifest, v) /\ file' = file
    BY <1>1, <1>5 DEF CostInv, CostTypeOK, AloneInv, WriteApproved, Knows, Jobs
  <2> HIDE DEF v
  <2>2. /\ manifest' \in Manifests /\ manifest'.latest \in Versions
        /\ manifest'.status = [manifest.status EXCEPT ![v] = "approved"]
        /\ \A w \in Versions : manifest'.status[w] = "approved" => w <= manifest'.latest
    BY <2>1, ApprovedFacts
  <2>3. /\ manifest.status \in [Versions -> Statuses] /\ manifest.latest \in 0..MaxVersion
        /\ manifest' # NoManifest
    BY <2>1, <2>2, ManifestAssumption DEF Manifests
  <2>4. manifest'.latest >= manifest.latest
    <3>1. CASE manifest.latest = 0
      BY <2>2, <3>1 DEF Versions
    <3>2. CASE manifest.latest # 0
      <4>1. manifest.latest \in Versions /\ manifest.status[manifest.latest] = "approved"
        BY <2>1, <2>3, <3>2, CostAssumption, VersionAssumption DEF Describes, Versions
      <4>2. manifest'.status[manifest.latest] = "approved"
        BY <2>2, <2>3, <4>1
      <4>3. manifest.latest <= manifest'.latest
        BY <2>2, <4>1, <4>2
      <4>4. QED BY <2>2, <4>1, <4>3 DEF Versions
    <3>3. QED BY <3>1, <3>2
  <2>5. QED BY <2>1, <2>3, <2>4 DEF Kept
<1>6. QED
  BY <1>2, <1>3, <1>4, <1>5
     DEF CostNext, Proceed, Build, CheckCollision, ReadToRegister, CmdApprove,
         ReadToApprove, Kill, costVars

(* Commands run one at a time never write a saved version anew, nor move   *)
(* the pointer back (save_cost_model, approve_version).                    *)
THEOREM ModelsStay == CostSpec => ModelsKept
<1>1. CostInv /\ AloneInv /\ [CostNext]_costVars =>
        [alone => /\ \A v \in Versions : file[v] # NoModel => file'[v] = file[v]
                  /\ manifest # NoManifest => /\ manifest' # NoManifest
                                              /\ manifest'.latest >= manifest.latest]_costVars
  BY KeptByEachStep DEF Kept
<1>2. QED
  BY <1>1, CostInvInitially, CostInvPreserved, AloneInvInitially, AloneInvPreserved, PTL
     DEF CostSpec, ModelsKept
-----------------------------------------------------------------------------
(***************************************************************************)
(* The versions of a strategy.  What a manifest, on disk or read by a      *)
(* writer, may claim: versions that have a file.                           *)
(***************************************************************************)
Listed(m) ==
    \A v \in Versions : v = m.confirmed \/ m.entry[v] # NoEntry => spec[v] # NoSpec

\* What a writer at step l holds: a content that passed validation; on disk, the version it
\* made its own from and the one it has written; a manifest that claims nothing too much.
WriterHolds(l, t, m) ==
    /\ l # "idle" => t.content \in Contents /\ ValidStrategySpec(t.content)
    /\ l \in {"modified", "free", "written", "diffed"} => t.command = "modify"
    /\ l \in {"confirming", "confirmed"} => t.command = "confirm"
    /\ l = "confirming" => t.from \in Specs /\ t.from.content = t.content
    /\ l = "listed" => /\ t.command \in {"modify", "confirm"}
                       /\ m \in SpecManifests => Listed(m)
    /\ t.command = "modify" => /\ t.from \in Specs
                               /\ t.version - 1 \in Versions
                               /\ spec[t.version - 1] # NoSpec
    /\ l \in {"written", "diffed", "confirming", "confirmed", "listed"} =>
          spec[t.version] # NoSpec

\* The inductive invariant, with a diff only of two versions that are there.
SpecInv ==
    /\ SpecTypeOK
    /\ \A v \in Versions : spec[v] # NoSpec => ValidStrategySpec(spec[v].content)
    /\ \A v \in Versions \ {1} : diff[v] # NoDiff => spec[v - 1] # NoSpec /\ spec[v] # NoSpec
    /\ specManifest # NoManifest => Listed(specManifest)
    /\ \A w \in Writers : WriterHolds(at[w], task[w], read[w])

\* The latest version is there, and no other is later.
LEMMA LatestFacts ==
    ASSUME ListSpecs # {}
    PROVE  /\ Latest \in Versions /\ spec[Latest] # NoSpec
           /\ \A v \in Versions : spec[v] # NoSpec => Latest >= v
<1>1. ListSpecs \in SUBSET Versions
  BY DEF ListSpecs
<1>2. Latest \in ListSpecs /\ \A v \in ListSpecs : Latest >= v
  BY <1>1, GreatestVersion DEF Latest
<1>3. QED BY <1>2 DEF ListSpecs

\* The manifest of a strategy without one claims nothing.
LEMMA EmptySpecManifestFacts ==
    /\ EmptySpecManifest \in SpecManifests /\ EmptySpecManifest.confirmed = 0
    /\ \A v \in Versions : EmptySpecManifest.entry[v] = NoEntry
BY VersionAssumption DEF EmptySpecManifest, SpecManifests, NoEntry, Entries

LEMMA EntryFacts ==
    ASSUME NEW status \in {"draft", "confirmed"}, NEW c \in Contents
    PROVE  /\ Entry(status, c) \in Entries /\ Entry(status, c) # NoEntry
           /\ Entry(status, c).status = status /\ Entry(status, c).hash = c
BY DEF Entry, Entries, NoEntry

\* Updating a manifest enters one version and moves the pointer to it if it is confirmed.
LEMMA UpdateFacts ==
    ASSUME NEW m \in SpecManifests, NEW v \in Versions, NEW e \in Entries, e # NoEntry
    PROVE  LET u == UpdateManifestVersion(m, v, e)
           IN  /\ u \in SpecManifests
               /\ u.entry = [m.entry EXCEPT ![v] = e]
               /\ u.confirmed = IF e.status = "confirmed" THEN v ELSE m.confirmed
<1> DEFINE entry == [m.entry EXCEPT ![v] = e]
           entered == {x \in Versions : entry[x] # NoEntry}
           newest == Greatest(entered)
           confirmed == IF e.status = "confirmed" THEN v ELSE m.confirmed
<1>1. m.entry \in [Versions -> Entries] /\ m.confirmed \in 0..MaxVersion
  BY DEF SpecManifests
<1>2. entry \in [Versions -> Entries] /\ v \in entered
  BY <1>1
<1>3. newest \in Versions
  <2>1. entered \in SUBSET Versions /\ entered # {}
    BY <1>2
  <2>2. Greatest(entered) \in entered
    BY <2>1, GreatestVersion
  <2>3. QED BY <2>1, <2>2
<1>4. newest \in 0..MaxVersion /\ confirmed \in 0..MaxVersion
  BY <1>1, <1>3, VersionAssumption DEF Versions
<1>5. UpdateManifestVersion(m, v, e) =
        [entry |-> entry, current |-> newest, confirmed |-> confirmed]
  BY DEF UpdateManifestVersion
<1> HIDE DEF entry, newest, confirmed
<1>6. [entry |-> entry, current |-> newest, confirmed |-> confirmed] \in SpecManifests
  BY <1>2, <1>4 DEF SpecManifests
<1>7. QED BY <1>5, <1>6 DEF entry, confirmed

-----------------------------------------------------------------------------
(* The initial state, and a step of each kind.                             *)

LEMMA NoTaskFacts == NoTask \in Tasks /\ NoTask.command = "capture"
BY VersionAssumption DEF NoTask, Tasks, Versions

LEMMA SpecInvInitially == SpecInit => SpecInv
<1> SUFFICES ASSUME SpecInit PROVE SpecInv
  OBVIOUS
<1>1. SpecTypeOK
  BY NoTaskFacts, VersionAssumption DEF SpecInit, SpecTypeOK, WriterSteps
<1>2. \A w \in Writers : WriterHolds(at[w], task[w], read[w])
  BY NoTaskFacts DEF SpecInit, WriterHolds
<1>3. QED BY <1>1, <1>2 DEF SpecInit, SpecInv

\* A step of w that takes no version away has to be looked at for w only.
LEMMA WriterStep ==
    ASSUME SpecInv, SpecTypeOK', NEW w \in Writers,
           \A x \in Writers \ {w} : /\ at'[x] = at[x] /\ task'[x] = task[x]
                                    /\ read'[x] = read[x],
           \A v \in Versions : /\ spec[v] # NoSpec => spec'[v] # NoSpec
                               /\ spec'[v] # NoSpec => ValidStrategySpec(spec'[v].content),
           \A v \in Versions \ {1} :
              \/ diff'[v] = diff[v]
              \/ spec'[v - 1] # NoSpec /\ spec'[v] # NoSpec,
           specManifest' = specManifest \/ Listed(specManifest)',
           WriterHolds(at[w], task[w], read[w])'
    PROVE  SpecInv'
<1>1. \A v \in Versions \ {1} : v - 1 \in Versions
  BY VersionAssumption DEF Versions
<1>2. ASSUME NEW x \in Writers \ {w} PROVE WriterHolds(at[x], task[x], read[x])'
  <2>1. /\ WriterHolds(at[x], task[x], read[x]) /\ task[x].version \in Versions
        /\ at'[x] = at[x] /\ task'[x] = task[x] /\ read'[x] = read[x]
    BY DEF SpecInv, SpecTypeOK, Tasks
  <2>2. Listed(read[x]) => Listed(read[x])'
    BY <2>1 DEF Listed
  <2>3. QED BY <2>1, <2>2 DEF WriterHolds
<1>3. specManifest' # NoManifest => Listed(specManifest)'
  BY DEF SpecInv, Listed
<1>4. \A v \in Versions \ {1} : diff'[v] # NoDiff => spec'[v - 1] # NoSpec /\ spec'[v] # NoSpec
  BY <1>1 DEF SpecInv
<1>5. \A x \in Writers : WriterHolds(at[x], task[x], read[x])'
  BY <1>2
<1>6. QED BY <1>3, <1>4, <1>5, Zenon DEF SpecInv

\* A writer that ends, or is killed, holds nothing any more.
LEMMA LeaveStep ==
    ASSUME SpecInv, NEW w \in Writers, Leave(w),
           UNCHANGED <<alone, diff>>, writerKills' \in 0..MaxKills,
           spec' \in [Versions -> Specs \cup {NoSpec}],
           \A v \in Versions : /\ spec[v] # NoSpec => spec'[v] # NoSpec
                               /\ spec'[v] # NoSpec => ValidStrategySpec(spec'[v].content),
           \/ specManifest' = specManifest
           \/ specManifest' \in SpecManifests /\ Listed(specManifest)'
    PROVE  SpecInv'
<1>1. /\ at' = [at EXCEPT ![w] = "idle"] /\ task' = [task EXCEPT ![w] = NoTask]
      /\ read' = [read EXCEPT ![w] = NoManifest]
  BY DEF Leave, Advance
<1>2. SpecTypeOK'
  BY <1>1, NoTaskFacts DEF SpecInv, SpecTypeOK, WriterSteps
<1>3. /\ at'[w] = "idle" /\ task'[w] = NoTask
      /\ \A x \in Writers \ {w} : /\ at'[x] = at[x] /\ task'[x] = task[x]
                                  /\ read'[x] = read[x]
  BY <1>1 DEF SpecInv, SpecTypeOK
<1>4. WriterHolds(at[w], task[w], read[w])'
  BY <1>3, NoTaskFacts DEF WriterHolds
<1>5. QED BY <1>2, <1>3, <1>4, WriterStep

\* A writer that goes on, with the files as they are.
LEMMA AdvanceStep ==
    ASSUME SpecInv, NEW w \in Writers, NEW l \in WriterSteps, Advance(w, l),
           UNCHANGED <<alone, spec, specManifest, writerKills>>,
           NEW t \in Tasks, task' = [task EXCEPT ![w] = t],
           NEW m \in SpecManifests \cup {NoManifest}, read' = [read EXCEPT ![w] = m],
           diff' \in [Versions -> {NoDiff} \cup (Contents \X Contents)],
           \A v \in Versions \ {1} :
              diff'[v] = diff[v] \/ (spec[v - 1] # NoSpec /\ spec[v] # NoSpec),
           WriterHolds(l, t, m)
    PROVE  SpecInv'
<1>1. SpecTypeOK'
  BY DEF SpecInv, SpecTypeOK, Advance
<1>2. /\ at'[w] = l /\ task'[w] = t /\ read'[w] = m
      /\ \A x \in Writers \ {w} : /\ at'[x] = at[x] /\ task'[x] = task[x]
                                  /\ read'[x] = read[x]
  BY DEF SpecInv, SpecTypeOK, Advance
<1>3. WriterHolds(at[w], task[w], read[w])'
  BY <1>2 DEF WriterHolds, Listed
<1>4. QED BY <1>1, <1>2, <1>3, WriterStep DEF SpecInv

\* What the type invariant says of what a writer holds.
LEMMA WriterTypes ==
    ASSUME SpecInv, NEW w \in Writers
    PROVE  /\ at[w] \in WriterSteps /\ task[w] \in Tasks
           /\ read[w] \in SpecManifests \cup {NoManifest}
           /\ task[w].version \in Versions /\ WriterHolds(at[w], task[w], read[w])
           /\ task = [task EXCEPT ![w] = task[w]] /\ read = [read EXCEPT ![w] = read[w]]
           /\ spec \in [Versions -> Specs \cup {NoSpec}]
           /\ diff \in [Versions -> {NoDiff} \cup (Contents \X Contents)]
           /\ specManifest \in SpecManifests \cup {NoManifest}
           /\ writerKills \in 0..MaxKills
BY DEF SpecInv, SpecTypeOK, Tasks

LEMMA CaptureStep ==
    ASSUME SpecInv, NEW w \in Writers, NEW c \in Contents, Capture(w, c)
    PROVE  SpecInv'
<1> DEFINE v == IF ListSpecs = {} THEN 1 ELSE Latest + 1
           t == [command |-> "capture", version |-> v, content |-> c, from |-> NoSpec]
<1>1. v \in Versions /\ task' = [task EXCEPT ![w] = t]
  BY DEF Capture
<1> HIDE DEF v
<1>2. t \in Tasks /\ t.content = c /\ t.command = "capture"
  BY <1>1 DEF Tasks
<1> HIDE DEF t
<1>3. WriterHolds("numbered", t, read[w])
  BY <1>2 DEF WriterHolds, Capture
<1>4. "numbered" \in WriterSteps
  BY DEF WriterSteps
<1>5. /\ read' = [read EXCEPT ![w] = read[w]] /\ diff' = diff
      /\ UNCHANGED <<alone, spec, specManifest, writerKills>> /\ Advance(w, "numbered")
  BY WriterTypes DEF Capture
<1>6. QED BY <1>1, <1>2, <1>3, <1>4, <1>5, WriterTypes, AdvanceStep

LEMMA ApplyModificationsStep ==
    ASSUME SpecInv, NEW w \in Writers, NEW c \in Contents, ApplyModifications(w, c)
    PROVE  SpecInv'
<1> DEFINE t == [command |-> "modify", version |-> Latest + 1, content |-> c,
                 from |-> spec[Latest]]
<1>1. /\ Latest \in Versions /\ spec[Latest] # NoSpec /\ Latest < MaxVersion
      /\ task' = [task EXCEPT ![w] = t]
  BY LatestFacts DEF ApplyModifications
<1>2. /\ Latest + 1 \in Versions /\ (Latest + 1) - 1 = Latest
      /\ spec[Latest] \in Specs
  BY <1>1, WriterTypes, VersionAssumption DEF Versions
<1>3. /\ t \in Tasks /\ t.content = c /\ t.command = "modify" /\ t.from = spec[Latest]
      /\ t.version - 1 = Latest
  BY <1>2 DEF Tasks
<1> HIDE DEF t
<1>4. WriterHolds("modified", t, read[w])
  BY <1>1, <1>2, <1>3 DEF WriterHolds, ApplyModifications
<1>5. "modified" \in WriterSteps
  BY DEF WriterSteps
<1>6. /\ read' = [read EXCEPT ![w] = read[w]] /\ diff' = diff
      /\ UNCHANGED <<alone, spec, specManifest, writerKills>> /\ Advance(w, "modified")
  BY WriterTypes DEF ApplyModifications
<1>7. QED BY <1>1, <1>3, <1>4, <1>5, <1>6, WriterTypes, AdvanceStep

LEMMA ConfirmStep ==
    ASSUME SpecInv, NEW w \in Writers, NEW v \in Versions, Confirm(w, v)
    PROVE  SpecInv'
<1> DEFINE t == [command |-> "confirm", version |-> v, content |-> spec[v].content,
                 from |-> spec[v]]
<1>1. /\ spec[v] \in Specs /\ spec[v].content \in Contents
      /\ ValidStrategySpec(spec[v].content)
      /\ task' = [task EXCEPT ![w] = t]
  BY WriterTypes DEF Confirm, SpecInv, Specs
<1>2. /\ t \in Tasks /\ t.content = spec[v].content /\ t.command = "confirm"
      /\ t.from = spec[v] /\ t.version = v
  BY <1>1 DEF Tasks
<1> HIDE DEF t
<1>3. WriterHolds("confirming", t, read[w])
  BY <1>1, <1>2 DEF WriterHolds, Confirm
<1>4. "confirming" \in WriterSteps
  BY DEF WriterSteps
<1>5. /\ read' = [read EXCEPT ![w] = read[w]] /\ diff' = diff
      /\ UNCHANGED <<alone, spec, specManifest, writerKills>> /\ Advance(w, "confirming")
  BY WriterTypes DEF Confirm
<1>6. QED BY <1>1, <1>2, <1>3, <1>4, <1>5, WriterTypes, AdvanceStep

LEMMA CheckSpecCollisionStep ==
    ASSUME SpecInv, NEW w \in Writers, CheckSpecCollision(w)
    PROVE  SpecInv'
<1>1. CASE Leave(w) /\ UNCHANGED <<alone, spec, diff, specManifest, writerKills>>
  BY <1>1, WriterTypes, LeaveStep DEF SpecInv
<1>2. CASE Advance(w, "free") /\ UNCHANGED <<alone, spec, diff, specManifest, writerKills,
                                             task, read>>
  <2>1. WriterHolds("free", task[w], read[w]) /\ "free" \in WriterSteps
    BY WriterTypes DEF CheckSpecCollision, WriterHolds, WriterSteps
  <2>2. QED BY <1>2, <2>1, WriterTypes, AdvanceStep
<1>3. QED BY <1>1, <1>2 DEF CheckSpecCollision

LEMMA SaveDiffArtifactStep ==
    ASSUME SpecInv, NEW w \in Writers, SaveDiffArtifact(w)
    PROVE  SpecInv'
<1> DEFINE v == task[w].version
           d == <<task[w].from.content, task[w].content>>
<1>1. /\ v \in Versions /\ spec[v] # NoSpec /\ spec[v - 1] # NoSpec
      /\ d \in Contents \X Contents
      /\ WriterHolds("diffed", task[w], read[w]) /\ "diffed" \in WriterSteps
  BY WriterTypes DEF SaveDiffArtifact, WriterHolds, WriterSteps, Specs
<1>2. diff' = [diff EXCEPT ![v] = d]
  BY DEF SaveDiffArtifact
<1> HIDE DEF v, d
<1>3. /\ diff' \in [Versions -> {NoDiff} \cup (Contents \X Contents)]
      /\ \A u \in Versions : diff'[u] = diff[u] \/ u = v
  BY <1>1, <1>2, WriterTypes
<1>4. /\ Advance(w, "diffed") /\ UNCHANGED <<alone, spec, specManifest, writerKills>>
      /\ task' = [task EXCEPT ![w] = task[w]] /\ read' = [read EXCEPT ![w] = read[w]]
  BY WriterTypes DEF SaveDiffArtifact
<1>5. QED BY <1>1, <1>3, <1>4, WriterTypes, AdvanceStep

LEMMA LoadManifestStep ==
    ASSUME SpecInv, NEW w \in Writers, LoadManifest(w)
    PROVE  SpecInv'
<1>1. specManifest \in SpecManifests => Listed(specManifest)
  BY SpecManifestAssumption DEF SpecInv
<1>2. WriterHolds("listed", task[w], specManifest) /\ "listed" \in WriterSteps
  BY <1>1, WriterTypes DEF LoadManifest, WriterHolds, WriterSteps
<1>3. /\ Advance(w, "listed") /\ UNCHANGED <<alone, spec, diff, specManifest, writerKills>>
      /\ task' = [task EXCEPT ![w] = task[w]] /\ read' = [read EXCEPT ![w] = specManifest]
  BY WriterTypes DEF LoadManifest
<1>4. QED BY <1>2, <1>3, WriterTypes, AdvanceStep

\* What a version is saved as: a specification that passed validation.
LEMMA SavedFacts ==
    ASSUME SpecInv, NEW w \in Writers, NEW status \in {"draft", "confirmed"},
           at[w] \in {"numbered", "free", "confirming"},
           spec' = [spec EXCEPT ![task[w].version] =
                       [content |-> task[w].content, status |-> status]]
    PROVE  /\ spec' \in [Versions -> Specs \cup {NoSpec}]
           /\ spec'[task[w].version] = [content |-> task[w].content, status |-> status]
           /\ spec'[task[w].version] # NoSpec
           /\ \A v \in Versions \ {task[w].version} : spec'[v] = spec[v]
           /\ \A v \in Versions : /\ spec[v] # NoSpec => spec'[v] # NoSpec
                                  /\ spec'[v] # NoSpec => ValidStrategySpec(spec'[v].content)
<1> DEFINE s == [content |-> task[w].content, status |-> status]
           v == task[w].version
<1>1. /\ v \in Versions /\ spec \in [Versions -> Specs \cup {NoSpec}]
      /\ task[w].content \in Contents /\ ValidStrategySpec(task[w].content)
  BY WriterTypes DEF WriterHolds
<1>2. s \in Specs /\ s # NoSpec /\ ValidStrategySpec(s.content)
  BY <1>1, NoSpecAssumption DEF Specs
<1> HIDE DEF s, v
<1>3. spec' = [spec EXCEPT ![v] = s]
  BY DEF s, v
<1>4. /\ spec' \in [Versions -> Specs \cup {NoSpec}] /\ spec'[v] = s
      /\ \A u \in Versions \ {v} : spec'[u] = spec[u]
  BY <1>1, <1>2, <1>3
<1>5. \A u \in Versions : /\ spec[u] # NoSpec => spec'[u] # NoSpec
                          /\ spec'[u] # NoSpec => ValidStrategySpec(spec'[u].content)
  BY <1>2, <1>4 DEF SpecInv
<1>6. QED BY <1>2, <1>4, <1>5 DEF s, v

LEMMA SaveStrategySpecStep ==
    ASSUME SpecInv, NEW w \in Writers, SaveStrategySpec(w)
    PROVE  SpecInv'
<1>1. at[w] = "numbered" /\ Leave(w) /\ UNCHANGED <<alone, diff, specManifest, writerKills>>
  BY DEF SaveStrategySpec
<1>2. spec' = [spec EXCEPT ![task[w].version] =
                  [content |-> task[w].content, status |-> "draft"]]
  BY DEF SaveStrategySpec
<1>3. /\ spec' \in [Versions -> Specs \cup {NoSpec}]
      /\ \A v \in Versions : /\ spec[v] # NoSpec => spec'[v] # NoSpec
                             /\ spec'[v] # NoSpec => ValidStrategySpec(spec'[v].content)
  BY <1>1, <1>2, SavedFacts
<1>4. QED BY <1>1, <1>3, WriterTypes, LeaveStep

\* A writer that saves its version and goes on.
LEMMA SaveAndAdvance ==
    ASSUME SpecInv, NEW w \in Writers, NEW status \in {"draft", "confirmed"},
           at[w] \in {"free", "confirming"},
           spec' = [spec EXCEPT ![task[w].version] =
                       [content |-> task[w].content, status |-> status]],
           Advance(w, IF at[w] = "free" THEN "written" ELSE "confirmed"),
           UNCHANGED <<alone, diff, specManifest, task, read, writerKills>>
    PROVE  SpecInv'
<1> DEFINE l == IF at[w] = "free" THEN "written" ELSE "confirmed"
<1>1. /\ spec' \in [Versions -> Specs \cup {NoSpec}] /\ spec'[task[w].version] # NoSpec
      /\ \A v \in Versions : /\ spec[v] # NoSpec => spec'[v] # NoSpec
                             /\ spec'[v] # NoSpec => ValidStrategySpec(spec'[v].content)
  BY SavedFacts
<1>2. SpecTypeOK'
  BY <1>1 DEF SpecInv, SpecTypeOK, Advance, WriterSteps
<1>3. /\ at'[w] = l /\ task' = task /\ read' = read
      /\ \A x \in Writers \ {w} : at'[x] = at[x]
  BY DEF SpecInv, SpecTypeOK, Advance
<1>4. WriterHolds(at[w], task[w], read[w])'
  BY <1>1, <1>3, WriterTypes DEF WriterHolds
<1>5. QED BY <1>1, <1>2, <1>3, <1>4, WriterStep

LEMMA SaveNewVersionStep ==
    ASSUME SpecInv, NEW w \in Writers, SaveNewVersion(w)
    PROVE  SpecInv'
BY SaveAndAdvance DEF SaveNewVersion

LEMMA SaveConfirmedStep ==
    ASSUME SpecInv, NEW w \in Writers, SaveConfirmed(w)
    PROVE  SpecInv'
<1>1. CASE Leave(w) /\ UNCHANGED <<alone, spec, diff, specManifest, writerKills>>
  BY <1>1, WriterTypes, LeaveStep DEF SpecInv
<1>2. CASE ~(Leave(w) /\ UNCHANGED <<alone, spec, diff, specManifest, writerKills>>)
  BY <1>2, SaveAndAdvance DEF SaveConfirmed
<1>3. QED BY <1>1, <1>2

\* The manifest a writer begins with, and the one it writes.
Begun(w) ==
    IF read[w] # NoManifest THEN read[w]
    ELSE IF task[w].command = "confirm" THEN EmptySpecManifest
    ELSE CreateManifest(task[w].version - 1,
                        Entry(task[w].from.status, task[w].from.content))
NewEntry(w) == Entry(IF task[w].command = "confirm" THEN "confirmed" ELSE "draft",
                     task[w].content)

LEMMA SaveManifestIs ==
    ASSUME NEW w \in Writers, SaveManifest(w)
    PROVE  /\ at[w] = "listed" /\ Leave(w) /\ UNCHANGED <<alone, spec, diff, writerKills>>
           /\ specManifest' = UpdateManifestVersion(Begun(w), task[w].version, NewEntry(w))
BY DEF SaveManifest, Begun, NewEntry

\* The first manifest of a modification has the version it started from.
LEMMA CreatedFacts ==
    ASSUME SpecInv, NEW w \in Writers, task[w].command = "modify"
    PROVE  LET u == task[w].version - 1
               from == task[w].from
               m == CreateManifest(u, Entry(from.status, from.content))
           IN  /\ u \in Versions /\ spec[u] # NoSpec /\ from \in Specs
               /\ m \in SpecManifests
               /\ m.entry = [EmptySpecManifest.entry EXCEPT
                                ![u] = Entry(from.status, from.content)]
               /\ m.confirmed = IF from.status = "confirmed" THEN u ELSE 0
<1> DEFINE u == task[w].version - 1
           from == task[w].from
<1>1. u \in Versions /\ spec[u] # NoSpec /\ from \in Specs
  BY WriterTypes DEF WriterHolds
<1> HIDE DEF u, from
<1>2. /\ Entry(from.status, from.content) \in Entries
      /\ Entry(from.status, from.content) # NoEntry
      /\ Entry(from.status, from.content).status = from.status
  BY <1>1, EntryFacts DEF Specs
<1>3. QED BY <1>1, <1>2, UpdateFacts, EmptySpecManifestFacts DEF CreateManifest, u, from

LEMMA BegunFacts ==
    ASSUME SpecInv, NEW w \in Writers, at[w] = "listed"
    PROVE  /\ Begun(w) \in SpecManifests /\ Listed(Begun(w))
           /\ NewEntry(w) \in Entries /\ NewEntry(w) # NoEntry
           /\ NewEntry(w).status = IF task[w].command = "confirm" THEN "confirmed" ELSE "draft"
           /\ NewEntry(w).hash = task[w].content
<1>1. /\ task[w].content \in Contents /\ task[w].command \in {"modify", "confirm"}
      /\ read[w] \in SpecManifests => Listed(read[w])
  BY WriterTypes DEF WriterHolds
<1>2. CASE read[w] # NoManifest
  BY <1>1, <1>2, EntryFacts, WriterTypes DEF Begun, NewEntry
<1>3. CASE read[w] = NoManifest /\ task[w].command = "confirm"
  <2>1. Begun(w) = EmptySpecManifest
    BY <1>3 DEF Begun
  <2>2. Listed(EmptySpecManifest)
    BY EmptySpecManifestFacts, VersionAssumption DEF Listed, Versions
  <2>3. QED BY <1>1, <2>1, <2>2, EntryFacts, EmptySpecManifestFacts DEF NewEntry
<1>4. CASE read[w] = NoManifest /\ task[w].command = "modify"
  <2> DEFINE u == task[w].version - 1
             e == Entry(task[w].from.status, task[w].from.content)
             m == CreateManifest(u, e)
  <2>1. Begun(w) = m
    BY <1>4 DEF Begun
  <2>2. /\ u \in Versions /\ spec[u] # NoSpec /\ m \in SpecManifests
        /\ m.entry = [EmptySpecManifest.entry EXCEPT ![u] = e]
        /\ m.confirmed = u \/ m.confirmed = 0
    BY <1>4, CreatedFacts
  <2> HIDE DEF m, u, e
  <2>3. \A v \in Versions \ {u} : m.entry[v] = NoEntry
    BY <2>2, EmptySpecManifestFacts DEF SpecManifests
  <2>4. Listed(m)
    BY <2>2, <2>3, VersionAssumption DEF Listed, Versions
  <2>5. QED BY <1>1, <2>1, <2>2, <2>4, EntryFacts DEF NewEntry
<1>5. QED BY <1>1, <1>2, <1>3, <1>4

LEMMA SaveManifestStep ==
    ASSUME SpecInv, NEW w \in Writers, SaveManifest(w)
    PROVE  SpecInv'
<1> DEFINE v == task[w].version
           begun == Begun(w)
           e == NewEntry(w)
<1>1. /\ v \in Versions /\ spec[v] # NoSpec
      /\ begun \in SpecManifests /\ Listed(begun) /\ e \in Entries /\ e # NoEntry
      /\ specManifest' = UpdateManifestVersion(begun, v, e)
      /\ Leave(w) /\ UNCHANGED <<alone, spec, diff, writerKills>>
  BY SaveManifestIs, BegunFacts, WriterTypes DEF WriterHolds
<1> HIDE DEF v, begun, e
<1>2. /\ specManifest' \in SpecManifests
      /\ specManifest'.entry = [begun.entry EXCEPT ![v] = e]
      /\ specManifest'.confirmed = v \/ specManifest'.confirmed = begun.confirmed
  BY <1>1, UpdateFacts
<1>3. Listed(specManifest)'
  BY <1>1, <1>2 DEF Listed, SpecManifests
<1>4. QED BY <1>1, <1>2, <1>3, WriterTypes, LeaveStep DEF SpecInv

-----------------------------------------------------------------------------
LEMMA SpecInvPreserved == SpecInv /\ [SpecNext]_specVars => SpecInv'
<1> SUFFICES ASSUME SpecInv, [SpecNext]_specVars PROVE SpecInv'
  OBVIOUS
<1>1. CASE UNCHANGED specVars
  BY <1>1 DEF SpecInv, SpecTypeOK, WriterHolds, Listed, specVars
<1>2. ASSUME NEW w \in Writers, NEW c \in Contents,
             Capture(w, c) \/ ApplyModifications(w, c)
      PROVE  SpecInv'
  BY <1>2, CaptureStep, ApplyModificationsStep
<1>3. ASSUME NEW w \in Writers, NEW v \in Versions, Confirm(w, v) PROVE SpecInv'
  BY <1>3, ConfirmStep
<1>4. ASSUME NEW w \in Writers, WriterProceeds(w) PROVE SpecInv'
  BY <1>4, SaveStrategySpecStep, CheckSpecCollisionStep, SaveNewVersionStep,
     SaveDiffArtifactStep, SaveConfirmedStep, LoadManifestStep, SaveManifestStep
     DEF WriterProceeds
<1>5. ASSUME NEW w \in Writers, KillWriter(w) PROVE SpecInv'
  <2>1. writerKills' \in 0..MaxKills
    BY <1>5, VersionAssumption DEF SpecInv, SpecTypeOK, KillWriter
  <2>2. QED BY <1>5, <2>1, WriterTypes, LeaveStep DEF KillWriter, SpecInv
<1>6. QED BY <1>1, <1>2, <1>3, <1>4, <1>5 DEF SpecNext

(* Whatever overlaps and is killed: files and manifests keep their types,  *)
(* every file passed validation, and no manifest, on disk or read by a     *)
(* writer, claims a version that has no file.                              *)
THEOREM SpecInvariant == StrategySpec => []SpecInv
BY SpecInvInitially, SpecInvPreserved, PTL DEF StrategySpec

-----------------------------------------------------------------------------
(***************************************************************************)
(* One writer at a time.  A number it found free is still free when the    *)
(* version is written, what it started from is still what is on disk, and  *)
(* the manifest it writes back is the one it read, extended.               *)
(***************************************************************************)

\* What a manifest on disk may say of the versions: their hashes, and no more than is true.
Truthful(m) ==
    /\ \A v \in Versions : m.entry[v] # NoEntry =>
          /\ m.entry[v].hash = spec[v].content
          /\ m.entry[v].status = "confirmed" => spec[v].status = "confirmed"
    /\ m.confirmed # 0 => m.entry[m.confirmed].status = "confirmed"

Mentions(v) == specManifest # NoManifest /\ specManifest.entry[v] # NoEntry

\* What a task writes as the version it works on.
Written(t) == [content |-> t.content,
               status |-> IF t.command = "confirm" THEN "confirmed" ELSE "draft"]

\* What a writer at step l knows of the disk when no other is at work.
WriterKnows(l, t, m) ==
    /\ l \in {"numbered", "modified", "free"} => spec[t.version] = NoSpec
    /\ l = "confirming" => spec[t.version] = t.from
    /\ l \in {"written", "diffed", "confirmed", "listed"} => spec[t.version] = Written(t)
    /\ t.command = "modify" => spec[t.version - 1] = t.from
    /\ l \in {"written", "diffed", "listed"} /\ t.command = "modify" => ~Mentions(t.version)
    /\ l = "listed" => m = specManifest

TrueDiffs ==
    \A v \in Versions \ {1} :
        diff[v] # NoDiff => diff[v] = <<spec[v - 1].content, spec[v].content>>

LoneWriterInv ==
    alone => /\ specManifest # NoManifest => Truthful(specManifest)
             /\ TrueDiffs
             /\ \A w \in Writers : WriterKnows(at[w], task[w], read[w])
             /\ \A w \in Writers : at[w] = "idle" => task[w] = NoTask
             /\ \A w, x \in Writers : w # x => at[w] = "idle" \/ at[x] = "idle"

LEMMA LoneWriterInvInitially == SpecInit => LoneWriterInv
BY NoTaskFacts DEF SpecInit, LoneWriterInv, WriterKnows, TrueDiffs

\* While a writer is at work alone, all others are idle.
LEMMA OtherWritersIdle ==
    ASSUME SpecInv, LoneWriterInv, alone, NEW w \in Writers, at[w] # "idle"
    PROVE  \A x \in Writers \ {w} : at[x] = "idle" /\ task[x] = NoTask
BY DEF LoneWriterInv

\* A step of the one writer at work has to be looked at for that writer, the diffs and the
\* manifest: the others are idle before and after it.
LEMMA LoneStep ==
    ASSUME SpecInv, LoneWriterInv, alone, NEW w \in Writers,
           \A x \in Writers \ {w} : at[x] = "idle",
           \A x \in Writers \ {w} : at'[x] = at[x] /\ task'[x] = task[x],
           specManifest' # NoManifest => Truthful(specManifest)',
           TrueDiffs',
           at'[w] = "idle" => task'[w] = NoTask,
           at'[w] # "idle" => WriterKnows(at[w], task[w], read[w])'
    PROVE  LoneWriterInv'
<1>1. \A x \in Writers : at'[x] = "idle" => task'[x] = NoTask
  BY DEF LoneWriterInv
<1>2. \A x \in Writers : WriterKnows(at[x], task[x], read[x])'
  BY <1>1, NoTaskFacts DEF WriterKnows
<1>3. \A x, y \in Writers : x # y => at'[x] = "idle" \/ at'[y] = "idle"
  OBVIOUS
<1>4. QED BY <1>1, <1>2, <1>3 DEF LoneWriterInv

\* A writer that leaves what is on disk as it is.
LEMMA LoneQuietStep ==
    ASSUME SpecInv, LoneWriterInv, alone, NEW w \in Writers,
           \A x \in Writers \ {w} : at[x] = "idle",
           \A x \in Writers \ {w} : at'[x] = at[x] /\ task'[x] = task[x],
           UNCHANGED <<spec, diff, specManifest>>,
           at'[w] = "idle" => task'[w] = NoTask,
           at'[w] # "idle" => WriterKnows(at'[w], task'[w], read'[w])
    PROVE  LoneWriterInv'
<1>1. /\ specManifest' # NoManifest => Truthful(specManifest)'
      /\ TrueDiffs'
      /\ at'[w] # "idle" => WriterKnows(at[w], task[w], read[w])'
  BY DEF LoneWriterInv, Truthful, TrueDiffs, WriterKnows, Mentions
<1>2. QED BY <1>1, LoneStep

\* Leaving ends a writer's task and no other's.
LEMMA LeaveFacts ==
    ASSUME SpecInv, NEW w \in Writers, Leave(w)
    PROVE  /\ at'[w] = "idle" /\ task'[w] = NoTask
           /\ \A x \in Writers \ {w} : at'[x] = at[x] /\ task'[x] = task[x]
BY DEF SpecInv, SpecTypeOK, Leave, Advance

LEMMA LoneStarts ==
    ASSUME SpecInv, LoneWriterInv, alone, NEW w \in Writers,
           \/ \E c \in Contents : Capture(w, c) \/ ApplyModifications(w, c)
           \/ \E v \in Versions : Confirm(w, v)
    PROVE  LoneWriterInv'
<1>0. \A x \in Writers \ {w} : at[x] = "idle"
  BY DEF Capture, ApplyModifications, Confirm, NoOtherWriter
<1>1. ASSUME NEW c \in Contents, Capture(w, c) PROVE LoneWriterInv'
  <2> DEFINE v == IF ListSpecs = {} THEN 1 ELSE Latest + 1
             t == [command |-> "capture", version |-> v, content |-> c, from |-> NoSpec]
  <2>1. v \in Versions /\ task' = [task EXCEPT ![w] = t]
    BY <1>1 DEF Capture
  <2>2. spec[v] = NoSpec
    BY <2>1, LatestFacts DEF ListSpecs, Versions
  <2> HIDE DEF v
  <2>3. /\ at'[w] = "numbered" /\ task'[w] = t
        /\ \A x \in Writers \ {w} : at'[x] = at[x] /\ task'[x] = task[x]
        /\ UNCHANGED <<spec, diff, specManifest>>
    BY <1>1, <2>1 DEF Capture, Advance, SpecInv, SpecTypeOK
  <2>4. WriterKnows("numbered", t, read'[w])
    BY <2>2 DEF WriterKnows
  <2>5. QED BY <1>0, <2>3, <2>4, LoneQuietStep
<1>2. ASSUME NEW c \in Contents, ApplyModifications(w, c) PROVE LoneWriterInv'
  <2> DEFINE t == [command |-> "modify", version |-> Latest + 1, content |-> c,
                   from |-> spec[Latest]]
  <2>1. /\ Latest \in Versions /\ Latest < MaxVersion /\ task' = [task EXCEPT ![w] = t]
        /\ \A v \in Versions : spec[v] # NoSpec => Latest >= v
    BY <1>2, LatestFacts DEF ApplyModifications
  <2>2. spec[Latest + 1] = NoSpec /\ (Latest + 1) - 1 = Latest
    BY <2>1, VersionAssumption DEF Versions
  <2>3. /\ at'[w] = "modified" /\ task'[w] = t
        /\ \A x \in Writers \ {w} : at'[x] = at[x] /\ task'[x] = task[x]
        /\ UNCHANGED <<spec, diff, specManifest>>
    BY <1>2, <2>1 DEF ApplyModifications, Advance, SpecInv, SpecTypeOK
  <2>4. /\ t.version = Latest + 1 /\ t.version - 1 = Latest /\ t.from = spec[Latest]
    BY <2>2
  <2> HIDE DEF t
  <2>5. WriterKnows("modified", t, read'[w])
    BY <2>2, <2>4 DEF WriterKnows
  <2>6. QED BY <1>0, <2>3, <2>5, LoneQuietStep
<1>3. ASSUME NEW v \in Versions, Confirm(w, v) PROVE LoneWriterInv'
  <2> DEFINE t == [command |-> "confirm", version |-> v, content |-> spec[v].content,
                   from |-> spec[v]]
  <2>1. /\ at'[w] = "confirming" /\ task'[w] = t
        /\ \A x \in Writers \ {w} : at'[x] = at[x] /\ task'[x] = task[x]
        /\ UNCHANGED <<spec, diff, specManifest>>
    BY <1>3 DEF Confirm, Advance, SpecInv, SpecTypeOK
  <2>2. WriterKnows("confirming", t, read'[w])
    BY DEF WriterKnows
  <2>3. QED BY <1>0, <2>1, <2>2, LoneQuietStep
<1>4. QED BY <1>1, <1>2, <1>3

\* What a writer at work knows, and that it is the only one.
LEMMA AtWork ==
    ASSUME SpecInv, LoneWriterInv, alone, NEW w \in Writers, at[w] # "idle"
    PROVE  /\ WriterKnows(at[w], task[w], read[w])
           /\ \A x \in Writers \ {w} : at[x] = "idle"
           /\ TrueDiffs /\ (specManifest # NoManifest => Truthful(specManifest))
BY OtherWritersIdle DEF LoneWriterInv

\* The steps that write nothing, and the ends of commands.
LEMMA LoneReads ==
    ASSUME SpecInv, LoneWriterInv, alone, NEW w \in Writers,
           \/ CheckSpecCollision(w) \/ LoadManifest(w) \/ KillWriter(w)
           \/ Leave(w) /\ at[w] # "idle" /\ UNCHANGED <<spec, diff, specManifest>>
    PROVE  LoneWriterInv'
<1>1. CASE Leave(w) /\ at[w] # "idle" /\ UNCHANGED <<spec, diff, specManifest>>
  BY <1>1, AtWork, LeaveFacts, LoneQuietStep
<1>2. CASE CheckSpecCollision(w) /\ ~Leave(w)
  <2>1. /\ at[w] = "modified" /\ at'[w] = "free" /\ task' = task /\ read' = read
        /\ \A x \in Writers \ {w} : at'[x] = at[x]
        /\ UNCHANGED <<spec, diff, specManifest>>
    BY <1>2 DEF CheckSpecCollision, Advance, SpecInv, SpecTypeOK
  <2>2. WriterKnows(at'[w], task'[w], read'[w])
    BY <2>1, AtWork DEF WriterKnows
  <2>3. QED BY <2>1, <2>2, AtWork, LoneQuietStep
<1>3. CASE LoadManifest(w)
  <2>1. /\ at[w] \in {"diffed", "confirmed"} /\ at'[w] = "listed" /\ task' = task
        /\ read'[w] = specManifest
        /\ \A x \in Writers \ {w} : at'[x] = at[x]
        /\ UNCHANGED <<spec, diff, specManifest>>
    BY <1>3 DEF LoadManifest, Advance, SpecInv, SpecTypeOK
  <2>2. task[w].command = "modify" => at[w] = "diffed"
    BY <2>1, WriterTypes DEF WriterHolds
  <2>3. WriterKnows(at'[w], task'[w], read'[w])
    BY <2>1, <2>2, AtWork DEF WriterKnows
  <2>4. QED BY <2>1, <2>3, AtWork, LoneQuietStep
<1>4. QED BY <1>1, <1>2, <1>3 DEF KillWriter, CheckSpecCollision

\* A version that is saved anew: neither the manifest nor a diff names it yet.
LEMMA FreeVersion ==
    ASSUME SpecInv, LoneWriterInv, alone, NEW w \in Writers, at[w] \in {"numbered", "free"}
    PROVE  /\ spec[task[w].version] = NoSpec
           /\ ~Mentions(task[w].version)
           /\ \A v \in Versions \ {1} :
                 v = task[w].version \/ v - 1 = task[w].version => diff[v] = NoDiff
<1>1. spec[task[w].version] = NoSpec /\ task[w].version \in Versions
  BY AtWork, WriterTypes DEF WriterKnows
<1>2. ~Mentions(task[w].version)
  BY <1>1 DEF SpecInv, Listed, Mentions
<1>3. QED BY <1>1, <1>2 DEF SpecInv

\* The diffs and the manifest stay true when a version is saved anew, or keeps its content
\* and is confirmed.
LEMMA SavedStaysTrue ==
    ASSUME SpecInv, LoneWriterInv, alone, NEW w \in Writers, NEW v \in Versions,
           NEW s \in Specs, at[w] # "idle",
           UNCHANGED <<diff, specManifest>>, spec' = [spec EXCEPT ![v] = s],
           \/ /\ spec[v] = NoSpec /\ ~Mentions(v)
              /\ \A u \in Versions \ {1} : u = v \/ u - 1 = v => diff[u] = NoDiff
           \/ spec[v] # NoSpec /\ spec[v].content = s.content /\ s.status = "confirmed"
    PROVE  /\ TrueDiffs'
           /\ specManifest' # NoManifest => Truthful(specManifest)'
<1>1. /\ spec'[v] = s /\ \A u \in Versions \ {v} : spec'[u] = spec[u]
      /\ \A u \in Versions \ {1} : u - 1 \in Versions
  BY WriterTypes, VersionAssumption DEF Versions
<1>2. TrueDiffs'
  BY <1>1, AtWork DEF TrueDiffs
<1>3. specManifest' # NoManifest => Truthful(specManifest)'
  BY <1>1, AtWork DEF Truthful, Mentions
<1>4. QED BY <1>2, <1>3

LEMMA LoneSaves ==
    ASSUME SpecInv, LoneWriterInv, alone, NEW w \in Writers,
           SaveStrategySpec(w) \/ SaveNewVersion(w)
    PROVE  LoneWriterInv'
<1> DEFINE v == task[w].version
           s == [content |-> task[w].content, status |-> "draft"]
<1>1. /\ at[w] \in {"numbered", "free"} /\ UNCHANGED <<diff, specManifest>>
      /\ spec' = [spec EXCEPT ![v] = s]
  BY DEF SaveStrategySpec, SaveNewVersion
<1>2. v \in Versions /\ s \in Specs
  BY <1>1, WriterTypes DEF WriterHolds, Specs
<1>3. /\ TrueDiffs'
      /\ specManifest' # NoManifest => Truthful(specManifest)'
  BY <1>1, <1>2, FreeVersion, SavedStaysTrue
<1>4. CASE SaveStrategySpec(w)
  <2>1. Leave(w)
    BY <1>4 DEF SaveStrategySpec
  <2>2. QED BY <1>1, <1>3, <2>1, AtWork, LeaveFacts, LoneStep
<1>5. CASE SaveNewVersion(w)
  <2>1. /\ at[w] = "free" /\ at'[w] = "written" /\ task' = task
        /\ \A x \in Writers \ {w} : at'[x] = at[x]
    BY <1>5 DEF SaveNewVersion, Advance, SpecInv, SpecTypeOK
  <2>2. task[w].command = "modify" /\ task[w].version - 1 \in Versions
    BY <2>1, WriterTypes DEF WriterHolds
  <2>3. /\ spec'[v] = s /\ spec'[v - 1] = spec[v - 1]
    <3>1. v - 1 # v
      BY <1>2, VersionAssumption DEF Versions
    <3>2. QED BY <1>1, <1>2, <2>2, <3>1, WriterTypes
  <2>4. s = Written(task[w])
    BY <2>2 DEF Written
  <2>5. ~Mentions(v)'
    BY <1>1, <2>1, FreeVersion DEF Mentions
  <2>6. WriterKnows(at[w], task[w], read[w])
    BY <2>1, AtWork
  <2>7. WriterKnows(at[w], task[w], read[w])'
    BY <2>1, <2>2, <2>3, <2>4, <2>5, <2>6 DEF WriterKnows, Written
  <2>8. QED BY <1>3, <2>1, <2>7, AtWork, LoneStep
<1>6. QED BY <1>4, <1>5

LEMMA LoneConfirms ==
    ASSUME SpecInv, LoneWriterInv, alone, NEW w \in Writers, SaveConfirmed(w)
    PROVE  LoneWriterInv'
<1>1. CASE task[w].from.status = "confirmed"
  BY <1>1, LoneReads DEF SaveConfirmed
<1>2. CASE task[w].from.status # "confirmed"
  <2> DEFINE v == task[w].version
             s == [content |-> task[w].content, status |-> "confirmed"]
  <2>1. /\ at[w] = "confirming" /\ at'[w] = "confirmed" /\ task' = task /\ read' = read
        /\ \A x \in Writers \ {w} : at'[x] = at[x]
        /\ UNCHANGED <<diff, specManifest>> /\ spec' = [spec EXCEPT ![v] = s]
    BY <1>2 DEF SaveConfirmed, Advance, SpecInv, SpecTypeOK
  <2>2. /\ v \in Versions /\ s \in Specs /\ task[w].command = "confirm"
        /\ spec[v] # NoSpec /\ spec[v].content = task[w].content
    BY <2>1, WriterTypes, AtWork, NoSpecAssumption DEF WriterHolds, WriterKnows, Specs
  <2>3. /\ TrueDiffs'
        /\ specManifest' # NoManifest => Truthful(specManifest)'
    BY <2>1, <2>2, SavedStaysTrue
  <2>4. s = Written(task[w]) /\ spec'[v] = s
    BY <2>1, <2>2, WriterTypes DEF Written
  <2>5. WriterKnows(at[w], task[w], read[w])'
    BY <2>1, <2>2, <2>4 DEF WriterKnows, Written
  <2>6. QED BY <2>1, <2>3, <2>5, AtWork, LoneStep
<1>3. QED BY <1>1, <1>2

LEMMA LoneDiffs ==
    ASSUME SpecInv, LoneWriterInv, alone, NEW w \in Writers, SaveDiffArtifact(w)
    PROVE  LoneWriterInv'
<1> DEFINE v == task[w].version
           d == <<task[w].from.content, task[w].content>>
<1>1. /\ at[w] = "written" /\ at'[w] = "diffed" /\ task' = task /\ read' = read
      /\ \A x \in Writers \ {w} : at'[x] = at[x]
      /\ UNCHANGED <<spec, specManifest>> /\ diff' = [diff EXCEPT ![v] = d]
  BY DEF SaveDiffArtifact, Advance, SpecInv, SpecTypeOK
<1>2. /\ v \in Versions /\ spec[v - 1] = task[w].from /\ spec[v].content = task[w].content
  <2>1. /\ at[w] = "written" /\ v \in Versions /\ task[w].command = "modify"
        /\ WriterKnows(at[w], task[w], read[w])
    BY <1>1, WriterTypes, AtWork DEF WriterHolds
  <2>2. spec[v] = Written(task[w]) /\ spec[v - 1] = task[w].from
    BY <2>1 DEF WriterKnows
  <2>3. Written(task[w]).content = task[w].content
    BY DEF Written
  <2>4. QED BY <2>1, <2>2, <2>3
<1> HIDE DEF v
<1>3. diff'[v] = d /\ \A u \in Versions \ {v} : diff'[u] = diff[u]
  BY <1>1, <1>2, WriterTypes
<1>4. TrueDiffs'
  BY <1>1, <1>2, <1>3, AtWork DEF TrueDiffs
<1>5. specManifest' # NoManifest => Truthful(specManifest)'
  BY <1>1, AtWork DEF Truthful
<1>6. WriterKnows(at[w], task[w], read[w])'
  BY <1>1, AtWork DEF WriterKnows, Written, Mentions
<1>7. QED BY <1>1, <1>4, <1>5, <1>6, AtWork, LoneStep

\* What a lone writer begins its manifest with is true, and does not confirm the version
\* of a modification.
LEMMA BegunTruthful ==
    ASSUME SpecInv, LoneWriterInv, alone, NEW w \in Writers, at[w] = "listed"
    PROVE  /\ Truthful(Begun(w))
           /\ task[w].command = "modify" => Begun(w).confirmed # task[w].version
<1> DEFINE v == task[w].version
<1>1. /\ read[w] = specManifest /\ v \in Versions
      /\ task[w].command \in {"modify", "confirm"}
      /\ task[w].command = "modify" => spec[v - 1] = task[w].from /\ ~Mentions(v)
  BY WriterTypes, AtWork DEF WriterKnows, WriterHolds
<1>2. CASE read[w] # NoManifest
  <2>1. Begun(w) = specManifest /\ Truthful(specManifest)
    BY <1>1, <1>2, AtWork DEF Begun
  <2>2. ASSUME ~Mentions(v) PROVE specManifest.confirmed # v
    <3>1. specManifest.entry[v] = NoEntry /\ v # 0
      BY <1>1, <1>2, <2>2, VersionAssumption DEF Mentions, Versions
    <3>2. QED BY <2>1, <3>1 DEF Truthful, NoEntry
  <2>3. QED BY <1>1, <2>1, <2>2
<1>3. CASE read[w] = NoManifest /\ task[w].command = "confirm"
  BY <1>3, EmptySpecManifestFacts DEF Begun, Truthful
<1>4. CASE read[w] = NoManifest /\ task[w].command = "modify"
  <2> DEFINE u == task[w].version - 1
             from == task[w].from
             e == Entry(from.status, from.content)
             m == CreateManifest(u, e)
  <2>1. /\ Begun(w) = m /\ u \in Versions /\ from \in Specs /\ from = spec[u]
        /\ m \in SpecManifests
        /\ m.entry = [EmptySpecManifest.entry EXCEPT ![u] = e]
        /\ m.confirmed = IF from.status = "confirmed" THEN u ELSE 0
    BY <1>1, <1>4, CreatedFacts DEF Begun
  <2>2. v # 0 /\ u # v /\ u # 0
    BY <1>1, <2>1, VersionAssumption DEF Versions
  <2>3. e.status = from.status /\ e.hash = from.content
    BY DEF Entry
  <2> HIDE DEF m, u, e, from, v
  <2>4. m.entry[u] = e /\ \A x \in Versions \ {u} : m.entry[x] = NoEntry
    BY <2>1, EmptySpecManifestFacts DEF SpecManifests
  <2>5. Truthful(m)
    BY <2>1, <2>3, <2>4 DEF Truthful
  <2>6. QED BY <2>1, <2>2, <2>5 DEF v
<1>5. QED BY <1>1, <1>2, <1>3, <1>4

LEMMA LoneListed ==
    ASSUME SpecInv, LoneWriterInv, alone, NEW w \in Writers, SaveManifest(w)
    PROVE  LoneWriterInv'
<1> DEFINE v == task[w].version
           begun == Begun(w)
           e == NewEntry(w)
<1>1. /\ at[w] = "listed" /\ Leave(w) /\ UNCHANGED <<alone, spec, diff>>
      /\ specManifest' = UpdateManifestVersion(begun, v, e)
  BY SaveManifestIs
<1>2. /\ v \in Versions /\ begun \in SpecManifests /\ e \in Entries /\ e # NoEntry
      /\ e.status = (IF task[w].command = "confirm" THEN "confirmed" ELSE "draft")
      /\ e.hash = task[w].content
      /\ Truthful(begun)
      /\ task[w].command = "modify" => begun.confirmed # v
      /\ task[w].command \in {"modify", "confirm"}
      /\ spec[v] = Written(task[w])
  BY <1>1, BegunFacts, BegunTruthful, WriterTypes, AtWork DEF WriterHolds, WriterKnows
<1>3. spec[v].content = e.hash /\ spec[v].status = e.status
  BY <1>2 DEF Written
<1>4. e.status = "confirmed" \/ (e.status = "draft" /\ begun.confirmed # v)
  BY <1>2
<1> HIDE DEF v, begun, e
<1>5. /\ specManifest'.entry = [begun.entry EXCEPT ![v] = e]
      /\ specManifest'.confirmed = IF e.status = "confirmed" THEN v ELSE begun.confirmed
  BY <1>1, <1>2, UpdateFacts
<1>6. /\ specManifest'.entry[v] = e
      /\ \A u \in Versions \ {v} : specManifest'.entry[u] = begun.entry[u]
      /\ begun.confirmed # 0 => begun.confirmed \in Versions
  BY <1>2, <1>5, VersionAssumption DEF SpecManifests, Versions
<1>7. Truthful(specManifest)'
  <2>1. \A u \in Versions : specManifest'.entry[u] # NoEntry =>
           /\ specManifest'.entry[u].hash = spec'[u].content
           /\ specManifest'.entry[u].status = "confirmed" => spec'[u].status = "confirmed"
    BY <1>1, <1>2, <1>3, <1>6 DEF Truthful
  <2>2. specManifest'.confirmed # 0 =>
           specManifest'.entry[specManifest'.confirmed].status = "confirmed"
    BY <1>2, <1>4, <1>5, <1>6 DEF Truthful
  <2>3. QED BY <2>1, <2>2 DEF Truthful
<1>8. TrueDiffs'
  BY <1>1, AtWork DEF TrueDiffs
<1>9. QED BY <1>1, <1>7, <1>8, AtWork, LeaveFacts, LoneStep

LEMMA LoneWriterInvPreserved ==
    SpecInv /\ LoneWriterInv /\ [SpecNext]_specVars => LoneWriterInv'
<1> SUFFICES ASSUME SpecInv, LoneWriterInv, [SpecNext]_specVars, alone'
             PROVE  LoneWriterInv'
  BY DEF LoneWriterInv
<1>0. alone
  BY DEF SpecNext, specVars, WriterProceeds, Capture, ApplyModifications, Confirm,
         SaveStrategySpec, CheckSpecCollision, SaveNewVersion, SaveDiffArtifact,
         SaveConfirmed, LoadManifest, SaveManifest, KillWriter
<1>1. CASE UNCHANGED specVars
  BY <1>1 DEF LoneWriterInv, Truthful, WriterKnows, Mentions, TrueDiffs, specVars
<1>2. QED
  BY <1>0, <1>1, LoneStarts, LoneReads, LoneSaves, LoneConfirms, LoneDiffs, LoneListed
     DEF SpecNext, WriterProceeds

(* One writer at a time, killed anywhere: an entry's hash is that of the   *)
(* file, a confirmed entry's file is confirmed, and so is the version the  *)
(* manifest names (update_manifest_version, confirm_specification).        *)
THEOREM ManifestTruthful == StrategySpec => []ManifestNeverOverstates
<1>1. LoneWriterInv => ManifestNeverOverstates
  BY DEF LoneWriterInv, Truthful, ManifestNeverOverstates
<1>2. QED
  BY <1>1, SpecInvInitially, SpecInvPreserved, LoneWriterInvInitially,
     LoneWriterInvPreserved, PTL DEF StrategySpec

\* What one step of a lone writer leaves of the versions.
SpecsKeptNow ==
    \A v \in Versions : spec[v] # NoSpec =>
        /\ spec'[v] # NoSpec
        /\ spec'[v].content = spec[v].content
        /\ spec[v].status = "confirmed" => spec'[v] = spec[v]

LEMMA SpecsKeptByEachStep ==
    ASSUME SpecInv, LoneWriterInv, [SpecNext]_specVars, alone
    PROVE  SpecsKeptNow
<1>1. CASE UNCHANGED spec
  BY <1>1 DEF SpecsKeptNow
<1>2. ASSUME NEW w \in Writers, SaveStrategySpec(w) \/ SaveNewVersion(w)
      PROVE  SpecsKeptNow
  <2> DEFINE s == [content |-> task[w].content, status |-> "draft"]
  <2>1. /\ at[w] \in {"numbered", "free"} /\ spec' = [spec EXCEPT ![task[w].version] = s]
    BY <1>2 DEF SaveStrategySpec, SaveNewVersion
  <2>2. spec[task[w].version] = NoSpec
    BY <2>1, FreeVersion
  <2>3. QED BY <2>1, <2>2, WriterTypes DEF SpecsKeptNow
<1>3. ASSUME NEW w \in Writers, SaveConfirmed(w), task[w].from.status # "confirmed"
      PROVE  SpecsKeptNow
  <2> DEFINE v == task[w].version
             s == [content |-> task[w].content, status |-> "confirmed"]
  <2>1. at[w] = "confirming" /\ spec' = [spec EXCEPT ![v] = s]
    BY <1>3 DEF SaveConfirmed
  <2>2. /\ v \in Versions /\ spec[v] = task[w].from
        /\ task[w].from.content = task[w].content
    BY <2>1, WriterTypes, AtWork DEF WriterHolds, WriterKnows
  <2>3. s \in Specs /\ s # NoSpec /\ s.content = spec[v].content
    BY <2>1, <2>2, WriterTypes, NoSpecAssumption DEF WriterHolds, Specs
  <2> HIDE DEF s, v
  <2>4. spec'[v] = s /\ \A u \in Versions \ {v} : spec'[u] = spec[u]
    BY <2>1, <2>2, WriterTypes
  <2>5. spec[v].status # "confirmed"
    BY <1>3, <2>2
  <2>6. QED BY <2>2, <2>3, <2>4, <2>5 DEF SpecsKeptNow
<1>4. QED
  BY <1>1, <1>2, <1>3
     DEF SpecNext, WriterProceeds, Capture, ApplyModifications, Confirm, CheckSpecCollision,
         SaveDiffArtifact, SaveConfirmed, LoadManifest, SaveManifest, KillWriter, specVars

(* One writer at a time: a version keeps its content for good, and a       *)
(* confirmed one stays as it is (save_strategy_spec, apply_modifications,  *)
(* confirm_specification).                                                 *)
THEOREM SpecsStay == StrategySpec => SpecsKept
<1>1. SpecInv /\ LoneWriterInv /\ [SpecNext]_specVars =>
        [alone => \A v \in Versions : spec[v] # NoSpec =>
                    /\ spec'[v] # NoSpec
                    /\ spec'[v].content = spec[v].content
                    /\ spec[v].status = "confirmed" => spec'[v] = spec[v]]_specVars
  BY SpecsKeptByEachStep DEF SpecsKeptNow
<1>2. QED
  BY <1>1, SpecInvInitially, SpecInvPreserved, LoneWriterInvInitially,
     LoneWriterInvPreserved, PTL DEF StrategySpec, SpecsKept

-----------------------------------------------------------------------------
(* Both stores, as the runs explore them.                                  *)

\* A behaviour of the two parts is a behaviour of each store.
LEMMA PartsAreStores == PartsSpec => CostSpec /\ StrategySpec
<1>1. PartsInit => CostInit /\ SpecInit
  BY DEF PartsInit
<1>2. [PartsNext]_<<part, costVars, specVars>> => [CostNext]_costVars /\ [SpecNext]_specVars
  BY DEF PartsNext
<1>3. QED BY <1>1, <1>2, PTL DEF PartsSpec, CostSpec, StrategySpec

(* Whatever overlaps and is killed, the manifests and files of both stores *)
(* keep their types and no manifest names a version without a file; one    *)
(* command at a time, the manifests record the hashes of the files, and    *)
(* overstate neither what is approved nor what is confirmed, and the diffs *)
(* are those of the files they name.                                       *)
THEOREM ManifestsTrue == PartsSpec => []ManifestsTellTheTruth
<1>1. CostInv /\ AloneInv => CostTypeOK /\ ManifestDescribesModels
  BY DEF CostInv, AloneInv, Describes, ManifestDescribesModels
<1>2. SpecInv /\ LoneWriterInv =>
        SpecTypeOK /\ ManifestedSpecsExist /\ ManifestNeverOverstates /\ DiffsTellTheTruth
  BY DEF SpecInv, Listed, LoneWriterInv, Truthful, TrueDiffs, ManifestedSpecsExist,
         ManifestNeverOverstates, DiffsTellTheTruth
<1>3. CostSpec => []CostInv /\ []AloneInv
  BY CostInvInitially, CostInvPreserved, AloneInvInitially, AloneInvPreserved, PTL
     DEF CostSpec
<1>4. StrategySpec => []SpecInv /\ []LoneWriterInv
  BY SpecInvInitially, SpecInvPreserved, LoneWriterInvInitially, LoneWriterInvPreserved, PTL
     DEF StrategySpec
<1>5. CostInv /\ AloneInv /\ SpecInv /\ LoneWriterInv => ManifestsTellTheTruth
  BY <1>1, <1>2 DEF ManifestsTellTheTruth
<1>6. QED BY <1>3, <1>4, <1>5, PartsAreStores, PTL

(* Commands one at a time never write anew a cost model or a version of a  *)
(* strategy, nor take an approval or a confirmation back.                  *)
THEOREM VersionsStay == PartsSpec => VersionsKept
BY PartsAreStores, ModelsStay, SpecsStay DEF VersionsKept

=============================================================================
