------------------------------- MODULE DataProofs -------------------------------
(***************************************************************************)
(* Theorems about the data pipeline: the files of DataArtifacts, for any   *)
(* years, configurations, number of runs and number of faults, and the     *)
(* download of MarketData, for any rows, calendar and splits.              *)
(***************************************************************************)
EXTENDS MCData, FiniteSetTheorems, WellFoundedInduction, TLAPS

Files == [dates : [start : Years, end : Years, whole : BOOLEAN], of : Data]

\* The kinds of what is on disk, and of what a run knows.
DiskTyped ==
  /\ chunk \in Data /\ raw \in [1 .. MaxRuns -> Data \cup {NoFile, NoVersion}]
  /\ m1 \in Data \cup {NoFile, Torn}
  /\ higher \subseteq Files
  /\ halves \subseteq [id : Data, table : Tables, half : Halves, of : Data, config : Configs]
  /\ manifests \subseteq [id : Data, config : Configs, tables : SUBSET Tables]
RunTyped ==
  /\ now \in Years /\ resolution \in {"M1", "tick"}
  /\ config \in Configs \cup {NoConfig}
  /\ todo \subseteq Years /\ failed \subseteq Years /\ frame \in Data
  /\ hash \in Data /\ found \subseteq Files
  /\ pending \subseteq Tables \X Halves
  /\ runs \in 0 .. MaxRuns /\ faults \in 0 .. MaxFaults
FlagsTyped ==
  /\ skip_download \in BOOLEAN /\ validated \in BOOLEAN
  /\ converted \in BOOLEAN /\ second \in BOOLEAN

Early == {"idle", "fetch", "load", "raw_directory", "raw_file", "validate"}
Late == {"convert", "copy", "timeframes", "split", "write_halves", "chain", "delete",
         "compare", "finish"}
StepTyped == pc \in Early \cup Late

\* What a run knows at each step: a result is there only of a frame that is not empty.
CallInv ==
  /\ pc # "idle" => config \in Configs
  /\ pc \in {"idle", "fetch", "load"} => frame = Nothing
  /\ pc \in Early => ~validated /\ ~converted /\ ~second
  /\ validated => frame # Nothing
  /\ converted => Convertible
  /\ pc \in {"copy", "timeframes"} => validated
  /\ pc = "copy" => m1 = Torn
  /\ pc = "timeframes" => m1 \in {Torn, frame}
  /\ m1 # Nothing

\* A year is to be fetched, was fetched, or is reported, before there is a frame of them.
DownloadInv ==
  /\ pc = "load" => skip_download
  /\ resolution = "tick" => todo = {}
  /\ pc = "fetch" /\ resolution = "M1" /\ ~skip_download =>
       \A y \in Years : y <= now => y \in todo \/ chunk[y] # "none" \/ y \in failed
  /\ DownloadAccounts

\* Raw versions are numbered without gaps, one for each run at most, and the last is the
\* one that is being saved.
RawUpTo(n) ==
  /\ \A w \in 1 .. MaxRuns : raw[w] = NoVersion <=> n < w
  /\ pc \in {"fetch", "load", "raw_directory"} => n < runs
  /\ pc = "raw_file" => n # 0 /\ raw[n] = NoFile
RawInv == \E n \in 0 .. runs : RawUpTo(n)

\* While the halves are written, M1 is what was hashed, and each half that is not pending
\* is there.
SplitTables == IF found = {} THEN {"M1"} ELSE Tables
SplitInv ==
  /\ SplitsMatchTheirHash
  /\ pc = "write_halves" =>
       /\ hash = m1
       /\ found \subseteq higher
       /\ found # {} => \E f \in higher : found = {f}
       /\ pending \subseteq SplitTables \X Halves
       /\ \A tf \in SplitTables, half \in Halves : <<tf, half>> \in pending \/ Exists(hash, tf, half)

\* A re-run begins with nothing, and what there is was made by it.
AllHalves == [id : {frame}, table : Tables, half : Halves, of : {frame}, config : {config}]
Anew == {[dates |-> Dates(frame), of |-> frame]}
HealInv ==
  /\ pc = "compare" => second
  /\ second =>
       /\ pc \in {"convert", "copy", "timeframes", "split", "write_halves", "compare"} => converted
       /\ pc \in {"convert", "copy", "timeframes"} => higher = {}
       /\ pc \in {"convert", "copy", "timeframes", "split"} => halves = {} /\ manifests = {}
       /\ pc \in {"timeframes", "split", "write_halves", "compare"} => m1 = frame
       /\ pc \in {"split", "write_halves", "compare"} => higher = Anew
       /\ pc = "write_halves" =>
            /\ manifests = {} /\ found = higher
            /\ halves = {h \in AllHalves : <<h.table, h.half>> \notin pending}
       /\ pc = "compare" =>
            /\ halves = AllHalves
            /\ manifests = {[id |-> frame, config |-> config, tables |-> Tables]}

\* The inductive invariant.
Typed == DiskTyped /\ RunTyped /\ FlagsTyped /\ StepTyped
DataInv == Typed /\ CallInv /\ DownloadInv /\ RawInv /\ SplitInv /\ HealInv

----------------------------------------------------------------------------
(* Lemmas about data and about greatest elements.                          *)

LEMMA MarkFacts ==
  /\ Torn \notin Data /\ NoFile \notin Data /\ NoVersion \notin Data
  /\ NoVersion # NoFile /\ NoVersion # Torn /\ NoFile # Torn
BY MarksAssumption

LEMMA NothingTyped == Nothing \in Data
BY DEF Nothing, Data, Extents

\* A set of numbers with a bound has a greatest and a least.
LEMMA Greatest ==
  ASSUME NEW S \in SUBSET Nat, S # {}, NEW m \in Nat, \A x \in S : x <= m
  PROVE  \E x \in S : \A y \in S : y <= x
<1> DEFINE Below == {m - x : x \in S}
<1>1. Below \subseteq Nat /\ Below # {}
  <2>1. \A x \in S : m - x \in Nat
    OBVIOUS
  <2>2. QED BY <2>1, Zenon
<1>2. PICK b \in Below : \A c \in Below : ~(<<c, b>> \in OpToRel(<, Nat))
  BY <1>1, WFMin, NatLessThanWellFounded, Zenon
<1>3. PICK x \in S : b = m - x
  OBVIOUS
<1>4. \A y \in S : y <= x
  <2>1. TAKE y \in S
  <2>2. m - y \in Below /\ m - y \in Nat /\ b \in Nat
    BY <1>1
  <2>3. ~(m - y < b)
    BY <1>2, <2>2 DEF OpToRel
  <2>4. QED BY <1>3, <2>3
<1>5. QED BY <1>4

LEMMA Least ==
  ASSUME NEW S \in SUBSET Nat, S # {}
  PROVE  \E x \in S : \A y \in S : x <= y
<1>1. PICK b \in S : \A c \in S : ~(<<c, b>> \in OpToRel(<, Nat))
  BY WFMin, NatLessThanWellFounded, Zenon
<1>2. \A y \in S : b <= y
  <2>1. TAKE y \in S
  <2>2. ~(y < b) /\ y \in Nat /\ b \in Nat
    BY <1>1 DEF OpToRel
  <2>3. QED BY <2>2
<1>3. QED BY <1>2

\* Data that is there begins and ends in a year.
LEMMA DatesTyped ==
  ASSUME NEW d \in Data, d # Nothing
  PROVE  Dates(d) \in [start : Years, end : Years, whole : BOOLEAN]
<1> DEFINE years == {y \in Years : d[y] # "none"}
           last == CHOOSE y \in years : \A z \in years : z <= y
           first == CHOOSE y \in years : \A z \in years : y <= z
<1>1. PICK bound \in Years : \A y \in Years : y <= bound
  BY YearsAssumption
<1>2. years \subseteq Nat /\ years \subseteq Years
  BY YearsAssumption
<1>3. years # {}
  BY DEF Nothing, Data
<1>4. \E y \in years : \A z \in years : z <= y
  BY <1>1, <1>2, <1>3, Greatest, YearsAssumption
<1>5. \E y \in years : \A z \in years : y <= z
  BY <1>2, <1>3, Least
<1>6. last \in Years /\ first \in Years
  BY <1>2, <1>4, <1>5
<1>7. Dates(d) = [start |-> first, end |-> last, whole |-> d[last] # "part"]
  BY DEF Dates
<1> HIDE DEF first, last
<1>8. QED BY <1>6, <1>7

----------------------------------------------------------------------------
(* The types.                                                              *)

LEMMA TypedFacts == Typed <=> TypeOK
BY DEF Typed, DiskTyped, RunTyped, FlagsTyped, StepTyped, TypeOK, Files, Early, Late

LEMMA DataTyped ==
  ASSUME DataInv
  PROVE  DiskTyped /\ RunTyped /\ FlagsTyped /\ StepTyped
         /\ CallInv /\ DownloadInv /\ RawInv /\ SplitInv /\ HealInv
BY DEF DataInv, Typed

\* What ends a process leaves.
LEMMA EndTyped ==
  ASSUME DataInv, End, UNCHANGED <<now, resolution, runs>>, faults' \in 0 .. MaxFaults
  PROVE  RunTyped' /\ FlagsTyped' /\ StepTyped'
<1>1. RunTyped
  BY DataTyped
<1>2. QED BY <1>1, NothingTyped DEF End, RunTyped, FlagsTyped, StepTyped, Early

LEMMA StartTyped == ASSUME DataInv, Start \/ NextYear PROVE Typed'
<1>0. DiskTyped /\ RunTyped /\ FlagsTyped /\ StepTyped /\ MaxRuns \in Nat
  BY DataTyped, BoundsAssumption
<1>1. CASE Start
  <2>1. /\ UNCHANGED <<chunk, raw, m1, higher, halves, manifests>>
        /\ UNCHANGED <<now, resolution, failed, frame, hash, found, pending, faults>>
        /\ UNCHANGED <<validated, converted, second>>
        /\ runs < MaxRuns /\ runs' = runs + 1 /\ config' \in Configs
        /\ skip_download' \in BOOLEAN /\ todo' \subseteq Years /\ pc' \in Early
    BY <1>1 DEF Start, disk, ToFetch, Early
  <2>2. DiskTyped' /\ StepTyped' /\ FlagsTyped'
    BY <1>0, <2>1 DEF DiskTyped, StepTyped, FlagsTyped
  <2>3. RunTyped'
    BY <1>0, <2>1 DEF RunTyped
  <2>4. QED BY <2>2, <2>3 DEF Typed
<1>2. CASE NextYear
  <2>1. now' \in Years /\ UNCHANGED <<resolution, disk, pc, memory, runs, faults>>
    BY <1>2 DEF NextYear
  <2>2. DiskTyped' /\ StepTyped' /\ FlagsTyped'
    BY <1>0, <2>1 DEF DiskTyped, StepTyped, FlagsTyped, disk, memory
  <2>3. RunTyped'
    BY <1>0, <2>1 DEF RunTyped, memory
  <2>4. QED BY <2>2, <2>3 DEF Typed
<1>3. QED BY <1>1, <1>2

\* The steps of the download.
LEMMA DownloadTyped ==
  ASSUME DataInv, FetchYear \/ Consolidate \/ LoadRaw \/ MakeVersion \/ SaveRaw \/ Validate
  PROVE  Typed'
<1>0. DiskTyped /\ RunTyped /\ FlagsTyped /\ StepTyped
  BY DataTyped
<1>1. CASE FetchYear
  <2>1. PICK y \in todo, rows \in Extents :
          /\ chunk' = IF rows = "none" THEN chunk ELSE [chunk EXCEPT ![y] = rows]
          /\ failed' = IF rows = "none" THEN failed \cup {y} ELSE failed
          /\ todo' = todo \ {y}
    <3> DEFINE y == CHOOSE x \in todo : \A z \in todo : x <= z
    <3>1. todo \subseteq Nat /\ todo # {}
      BY <1>0, <1>1, YearsAssumption DEF RunTyped, FetchYear
    <3>2. y \in todo
      <4>1. \E x \in todo : \A z \in todo : x <= z
        BY <3>1, Least
      <4>2. QED BY <4>1
    <3>3. \E rows \in Extents :
            /\ chunk' = IF rows = "none" THEN chunk ELSE [chunk EXCEPT ![y] = rows]
            /\ failed' = IF rows = "none" THEN failed \cup {y} ELSE failed
            /\ todo' = todo \ {y}
      <4>1. Fetched(y) \subseteq Extents
        BY DEF Fetched, Extents
      <4>2. QED BY <1>1, <4>1 DEF FetchYear
    <3> HIDE DEF y
    <3>4. QED BY <3>2, <3>3
  <2>2. y \in Years
    BY <1>0, <2>1 DEF RunTyped
  <2>3. chunk' \in Data /\ failed' \subseteq Years /\ todo' \subseteq Years
    BY <1>0, <2>1, <2>2 DEF DiskTyped, RunTyped, Data
  <2>4. QED BY <1>0, <1>1, <2>3
    DEF FetchYear, Typed, DiskTyped, RunTyped, FlagsTyped, StepTyped
<1>2. CASE Consolidate
  <2>1. frame' \in Data
    BY <1>0, <1>2, NothingTyped DEF Consolidate, DiskTyped, Data, Extents
  <2>2. pc' \in Early
    BY <1>2 DEF Consolidate, Early
  <2>3. QED BY <1>0, <1>2, <2>1, <2>2
    DEF Consolidate, Typed, DiskTyped, RunTyped, FlagsTyped, StepTyped, disk
<1>3. CASE LoadRaw
  <2>1. frame' \in Data
    <3>1. CASE Saved = {}
      BY <1>3, <3>1, NothingTyped DEF LoadRaw
    <3>2. CASE Saved # {}
      <4>1. Saved \subseteq 1 .. MaxRuns /\ \A v \in Saved : raw[v] \in Data
        BY <1>0 DEF Saved, DiskTyped
      <4>2. \E v \in Saved : \A w \in Saved : w <= v
        <5>1. Saved \in SUBSET Nat /\ MaxRuns \in Nat /\ \A v \in Saved : v <= MaxRuns
          BY <4>1, BoundsAssumption
        <5>2. QED BY <3>2, <5>1, Greatest
      <4>3. QED BY <1>3, <3>2, <4>1, <4>2 DEF LoadRaw
    <3>3. QED BY <3>1, <3>2
  <2>2. pc' \in Early
    BY <1>3 DEF LoadRaw, Early
  <2>3. QED BY <1>0, <1>3, <2>1, <2>2
    DEF LoadRaw, Typed, DiskTyped, RunTyped, FlagsTyped, StepTyped, disk
<1>4. CASE MakeVersion \/ SaveRaw
  <2>1. raw' \in [1 .. MaxRuns -> Data \cup {NoFile, NoVersion}]
    BY <1>0, <1>4 DEF MakeVersion, SaveRaw, DiskTyped, RunTyped
  <2>2. pc' \in Early /\ UNCHANGED <<now, resolution, chunk, m1, higher, halves, manifests, memory, runs, faults>>
    BY <1>4 DEF MakeVersion, SaveRaw, Early
  <2>3. QED BY <1>0, <2>1, <2>2
    DEF Typed, DiskTyped, RunTyped, FlagsTyped, StepTyped, memory
<1>5. CASE Validate
  <2>1. validated' \in BOOLEAN /\ pc' \in Late
    BY <1>5 DEF Validate, Late
  <2>2. QED BY <1>0, <1>5, <2>1
    DEF Validate, Typed, DiskTyped, RunTyped, FlagsTyped, StepTyped, disk
<1>6. QED BY <1>1, <1>2, <1>3, <1>4, <1>5

\* The steps of the conversion.
LEMMA ConvertTyped ==
  ASSUME DataInv, Convert \/ Copied \/ ConvertTimeframe
  PROVE  Typed'
<1>0. DiskTyped /\ RunTyped /\ FlagsTyped /\ StepTyped /\ CallInv
  BY DataTyped
<1>1. CASE Convert
  <2>1. m1' \in Data \cup {NoFile, Torn} /\ pc' \in Late
    BY <1>0, <1>1 DEF Convert, DiskTyped, Late
  <2>2. converted' \in BOOLEAN
    BY <1>0, <1>1, Zenon DEF Convert, FlagsTyped
  <2>3. QED BY <1>0, <1>1, <2>1, <2>2
    DEF Convert, Typed, DiskTyped, RunTyped, FlagsTyped, StepTyped
<1>2. CASE Copied
  <2>1. m1' \in Data /\ pc' \in Late
    BY <1>0, <1>2 DEF Copied, RunTyped, Late
  <2>2. QED BY <1>0, <1>2, <2>1
    DEF Copied, Typed, DiskTyped, RunTyped, FlagsTyped, StepTyped, memory
<1>3. CASE ConvertTimeframe
  <2>1. higher' \subseteq Files /\ pc' \in Late
    <3>1. CASE m1 = Torn
      BY <1>0, <1>3, <3>1 DEF ConvertTimeframe, DiskTyped, Late
    <3>2. CASE m1 # Torn
      <4>1. m1 \in Data /\ m1 # Nothing
        BY <1>0, <1>3, <3>2 DEF ConvertTimeframe, CallInv, RunTyped
      <4>2. Dates(m1) \in [start : Years, end : Years, whole : BOOLEAN]
        BY <4>1, DatesTyped
      <4>3. [dates |-> Dates(m1), of |-> m1] \in Files
        BY <4>1, <4>2 DEF Files
      <4>4. QED BY <1>0, <1>3, <4>3 DEF ConvertTimeframe, DiskTyped, Late
    <3>3. QED BY <3>1, <3>2
  <2>2. QED BY <1>0, <1>3, <2>1
    DEF ConvertTimeframe, Typed, DiskTyped, RunTyped, FlagsTyped, StepTyped, memory
<1>4. QED BY <1>1, <1>2, <1>3

\* The steps of the split.
LEMMA SplitTyped ==
  ASSUME DataInv, Split \/ WriteHalf \/ WriteManifest
  PROVE  Typed'
<1>0. DiskTyped /\ RunTyped /\ FlagsTyped /\ StepTyped /\ CallInv /\ SplitInv
  BY DataTyped
<1>1. CASE Split
  <2>1. pc' \in Late
    BY <1>1 DEF Split, Late
  <2>2. CASE UNCHANGED <<hash, found, pending>>
    BY <1>0, <1>1, <2>1, <2>2
    DEF Split, Typed, DiskTyped, RunTyped, FlagsTyped, StepTyped, disk
  <2>3. CASE ~UNCHANGED <<hash, found, pending>>
    <3>1. /\ m1 \notin {NoFile, Torn} /\ hash' = m1
          /\ found' \in IF higher = {} THEN {{}} ELSE {{f} : f \in higher}
          /\ pending' = {"M1"} \X Halves \cup (IF found' = {} THEN {} ELSE {"H1"} \X Halves)
      BY <1>1, <2>3 DEF Split, DataHash
    <3>2. hash' \in Data /\ found' \subseteq Files /\ pending' \subseteq Tables \X Halves
      BY <1>0, <3>1 DEF DiskTyped, Tables
    <3>3. QED BY <1>0, <1>1, <2>1, <3>2
      DEF Split, Typed, DiskTyped, RunTyped, FlagsTyped, StepTyped, disk
  <2>4. QED BY <2>2, <2>3
<1>2. CASE WriteHalf
  <2>1. pc = "write_halves" /\ pending # {} /\ pending' = pending \ {NextHalf}
    BY <1>2 DEF WriteHalf
  <2>2. NextHalf \in pending
    BY <1>0, <2>1 DEF RunTyped, NextHalf, Tables, Halves
  <2>3. NextHalf[1] \in Tables /\ NextHalf[2] \in Halves
    BY <1>0, <2>2 DEF RunTyped
  <2>4. Source(NextHalf[1]) \in Data
    <3>1. CASE NextHalf[1] = "M1"
      BY <1>0, <2>1, <3>1 DEF Source, SplitInv, RunTyped
    <3>2. CASE NextHalf[1] # "M1"
      <4>1. NextHalf[1] \in SplitTables
        BY <1>0, <2>1, <2>2 DEF SplitInv
      <4>2. found # {}
        BY <3>2, <4>1 DEF SplitTables
      <4>3. QED BY <1>0, <3>2, <4>2 DEF Source, RunTyped, Files
    <3>3. QED BY <3>1, <3>2
  <2>5. config \in Configs
    BY <1>0, <2>1 DEF CallInv
  <2>6. halves' \subseteq [id : Data, table : Tables, half : Halves, of : Data, config : Configs]
    BY <1>0, <1>2, <2>3, <2>4, <2>5 DEF WriteHalf, DiskTyped, RunTyped
  <2>7. QED BY <1>0, <1>2, <2>6
    DEF WriteHalf, Typed, DiskTyped, RunTyped, FlagsTyped, StepTyped
<1>3. CASE WriteManifest
  <2>1. config \in Configs /\ pc' \in Late
    BY <1>0, <1>3 DEF WriteManifest, CallInv, Late
  <2>2. manifests' \subseteq [id : Data, config : Configs, tables : SUBSET Tables]
    BY <1>0, <1>3, <2>1 DEF WriteManifest, DiskTyped, RunTyped, Tables
  <2>3. QED BY <1>0, <1>3, <2>1, <2>2
    DEF WriteManifest, Typed, DiskTyped, RunTyped, FlagsTyped, StepTyped, memory
<1>4. QED BY <1>1, <1>2, <1>3

\* The last steps of a run, and the faults.
LEMMA EndsTyped ==
  ASSUME DataInv, VerifyArtifacts \/ Delete \/ Finish \/ Kill \/ KillWhileDeleting \/ WriteFails
  PROVE  Typed'
<1>0. DiskTyped /\ RunTyped /\ FlagsTyped /\ StepTyped
  BY DataTyped
<1>1. CASE VerifyArtifacts
  <2>1. pc' \in Late
    BY <1>1 DEF VerifyArtifacts, Late
  <2>2. QED BY <1>0, <1>1, <2>1
    DEF VerifyArtifacts, Typed, DiskTyped, RunTyped, FlagsTyped, StepTyped, disk, memory
<1>2. CASE Delete
  <2>1. pc' \in Late
    BY <1>2 DEF Delete, Late
  <2>2. QED BY <1>0, <1>2, <2>1
    DEF Delete, Typed, DiskTyped, RunTyped, FlagsTyped, StepTyped
<1>3. faults + 1 \in 0 .. MaxFaults \/ ~(faults < MaxFaults)
  BY <1>0, BoundsAssumption DEF RunTyped
<1>4. CASE Finish \/ Kill
  <2>1. RunTyped' /\ FlagsTyped' /\ StepTyped'
    BY <1>0, <1>3, <1>4, EndTyped DEF Finish, Kill, Fault, RunTyped
  <2>2. DiskTyped'
    BY <1>0, <1>4 DEF Finish, Kill, DiskTyped, disk
  <2>3. QED BY <2>1, <2>2 DEF Typed
<1>5. CASE KillWhileDeleting
  <2>1. RunTyped' /\ FlagsTyped' /\ StepTyped'
    BY <1>3, <1>5, EndTyped DEF KillWhileDeleting, Fault
  <2>2. DiskTyped'
    BY <1>0, <1>5 DEF KillWhileDeleting, DiskTyped
  <2>3. QED BY <2>1, <2>2 DEF Typed
<1>6. CASE WriteFails
  <2>1. pc' \in Early \cup Late
    BY <1>6 DEF WriteFails, Early, Late
  <2>2. faults' \in 0 .. MaxFaults
    BY <1>3, <1>6 DEF WriteFails, Fault
  <2>3. QED BY <1>0, <1>6, <2>1, <2>2
    DEF WriteFails, Typed, DiskTyped, RunTyped, FlagsTyped, StepTyped, disk, memory
<1>7. QED BY <1>1, <1>2, <1>4, <1>5, <1>6

LEMMA TypedKeeps == ASSUME DataInv, Next PROVE Typed'
BY StartTyped, DownloadTyped, ConvertTyped, SplitTyped, EndsTyped DEF Next, Step

----------------------------------------------------------------------------
(* The steps of a run.                                                     *)

LEMMA CallKeeps == ASSUME DataInv, Next PROVE CallInv'
<1>0. DiskTyped /\ RunTyped /\ FlagsTyped /\ StepTyped /\ CallInv
  BY DataTyped
<1>1. CASE Start
  <2>1. pc = "idle" /\ pc' \in {"fetch", "load"} /\ config' \in Configs
        /\ UNCHANGED <<frame, validated, converted, second, m1>>
    BY <1>1 DEF Start, disk
  <2>2. QED BY <1>0, <2>1 DEF CallInv, Early
<1>2. CASE NextYear \/ VerifyArtifacts
  BY <1>0, <1>2 DEF NextYear, VerifyArtifacts, CallInv, Early, Late, Convertible, disk, memory
<1>3. CASE FetchYear \/ MakeVersion \/ SaveRaw
  BY <1>0, <1>3 DEF FetchYear, MakeVersion, SaveRaw, CallInv, Early, Convertible, memory
<1>4. CASE Consolidate \/ LoadRaw
  <2>1. /\ pc \in Early \ {"idle"} /\ pc' \in {"raw_directory", "validate"}
        /\ UNCHANGED <<validated, converted, second, m1, config>>
    BY <1>4 DEF Consolidate, LoadRaw, Early, disk
  <2>2. QED BY <1>0, <2>1 DEF CallInv, Early
<1>5. CASE Validate
  <2>1. pc = "validate" /\ pc' = "convert" /\ UNCHANGED <<converted, second, m1, config, frame>>
        /\ (frame = Nothing => validated' = FALSE)
    BY <1>5 DEF Validate, disk
  <2>2. QED BY <1>0, <2>1 DEF CallInv, Early
<1>6. CASE Convert
  <2>1. CASE Convertible
    <3>1. /\ pc = "convert" /\ pc' = "copy" /\ m1' = Torn
          /\ UNCHANGED <<validated, resolution, skip_download, frame, config>>
      BY <1>6, <2>1 DEF Convert
    <3>2. validated' /\ Convertible'
      BY <2>1, <3>1 DEF Convertible
    <3>3. QED BY <1>0, <3>1, <3>2, MarkFacts, NothingTyped DEF CallInv, Early
  <2>2. CASE ~Convertible
    BY <1>0, <1>6, <2>2 DEF Convert, CallInv, Early, Convertible
  <2>3. QED BY <2>1, <2>2
<1>7. CASE Copied
  BY <1>0, <1>7 DEF Copied, CallInv, Early, Convertible, memory
<1>8. CASE ConvertTimeframe \/ WriteHalf \/ WriteManifest
  BY <1>0, <1>8 DEF ConvertTimeframe, WriteHalf, WriteManifest, CallInv, Early, Convertible, memory
<1>9. CASE Split
  <2>1. /\ pc = "split" /\ pc' \in {"compare", "chain", "write_halves"}
        /\ UNCHANGED <<validated, converted, resolution, skip_download, frame, config, m1>>
    BY <1>9 DEF Split, disk
  <2>2. QED BY <1>0, <2>1 DEF CallInv, Early, Convertible
<1>10. CASE Delete
  BY <1>0, <1>10, MarkFacts, NothingTyped DEF Delete, CallInv, Early, Convertible
<1>11. CASE Finish \/ Kill \/ KillWhileDeleting
  <2>1. End /\ (m1' = m1 \/ m1' = NoFile)
    BY <1>11 DEF Finish, Kill, KillWhileDeleting, disk
  <2>2. QED BY <1>0, <2>1, MarkFacts, NothingTyped DEF End, CallInv, Early
<1>12. CASE WriteFails
  <2>1. UNCHANGED <<validated, converted, second, resolution, skip_download, frame, config, m1>>
    BY <1>12 DEF WriteFails, disk, memory
  <2>2. /\ pc # "idle" /\ pc' \in {"validate", "finish", "split", "timeframes", "chain"}
        /\ (pc' = "validate" => pc \in Early) /\ (pc' = "timeframes" => pc = "copy")
    BY <1>12 DEF WriteFails, Early
  <2>3. QED BY <1>0, <2>1, <2>2 DEF CallInv, Early, Convertible
<1>13. QED
  BY <1>1, <1>2, <1>3, <1>4, <1>5, <1>6, <1>7, <1>8, <1>9, <1>10, <1>11, <1>12 DEF Next, Step

LEMMA DownloadKeeps == ASSUME DataInv, Next PROVE DownloadInv'
<1>0. RunTyped /\ StepTyped /\ CallInv /\ DownloadInv /\ DiskTyped
  BY DataTyped
<1>1. CASE Start
  <2>1. /\ pc = "idle" /\ (pc' = "load" => skip_download') /\ frame' = frame
        /\ UNCHANGED <<now, resolution, chunk, failed>>
        /\ todo' = IF resolution = "tick" \/ skip_download' THEN {} ELSE ToFetch
    BY <1>1 DEF Start, disk
  <2>2. frame' = Nothing
    BY <1>0, <2>1 DEF CallInv
  <2>3. QED BY <2>1, <2>2 DEF DownloadInv, DownloadAccounts, ToFetch
<1>2. CASE NextYear
  <2>1. frame' = Nothing /\ pc' = "idle" /\ UNCHANGED <<resolution, todo>>
    BY <1>0, <1>2 DEF NextYear, CallInv, memory
  <2>2. QED BY <1>0, <2>1 DEF DownloadInv, DownloadAccounts
<1>3. CASE FetchYear
  <2>1. PICK y : /\ pc = "fetch" /\ pc' = pc /\ todo' = todo \ {y} /\ frame' = frame
                 /\ UNCHANGED <<now, resolution, skip_download>>
                 /\ \E rows \in Fetched(y) :
                      /\ chunk' = IF rows = "none" THEN chunk ELSE [chunk EXCEPT ![y] = rows]
                      /\ failed' = IF rows = "none" THEN failed \cup {y} ELSE failed
    BY <1>3 DEF FetchYear
  <2>2. frame' = Nothing
    BY <1>0, <2>1 DEF CallInv
  <2>3. \A z \in Years : z # y /\ chunk[z] # "none" => chunk'[z] # "none"
    BY <1>0, <2>1 DEF DiskTyped, Data
  <2>4. y \in Years => chunk'[y] # "none" \/ y \in failed'
    BY <1>0, <2>1 DEF DiskTyped, Data
  <2>5. failed \subseteq failed'
    BY <2>1
  <2>6. QED BY <1>0, <2>1, <2>2, <2>3, <2>4, <2>5 DEF DownloadInv, DownloadAccounts
<1>4. CASE Consolidate
  <2>1. /\ pc = "fetch" /\ todo = {} /\ pc' # "load" /\ pc' # "fetch"
        /\ UNCHANGED <<now, resolution, skip_download, chunk, failed, todo>>
        /\ resolution = "M1" => frame' = chunk
    BY <1>4 DEF Consolidate, disk
  <2>2. QED BY <1>0, <2>1 DEF DownloadInv, DownloadAccounts
<1>5. CASE LoadRaw
  BY <1>0, <1>5 DEF LoadRaw, DownloadInv, DownloadAccounts
<1>6. CASE Finish \/ Kill \/ KillWhileDeleting
  <2>1. End
    BY <1>6 DEF Finish, Kill, KillWhileDeleting
  <2>2. QED BY <2>1 DEF End, DownloadInv, DownloadAccounts
<1>7. CASE Split
  <2>1. /\ pc' \notin {"fetch", "load"}
        /\ UNCHANGED <<now, resolution, skip_download, chunk, failed, todo, frame>>
    BY <1>7 DEF Split, disk
  <2>2. QED BY <1>0, <2>1 DEF DownloadInv, DownloadAccounts
<1>8. CASE WriteFails
  <2>1. /\ pc' \notin {"fetch", "load"}
        /\ UNCHANGED <<now, resolution, skip_download, chunk, failed, todo, frame>>
    BY <1>8 DEF WriteFails, disk, memory
  <2>2. QED BY <1>0, <2>1 DEF DownloadInv, DownloadAccounts
<1>9. CASE \/ MakeVersion \/ SaveRaw \/ Validate \/ Convert \/ Copied \/ ConvertTimeframe
           \/ WriteHalf \/ WriteManifest \/ VerifyArtifacts \/ Delete
  <2>1. /\ pc' \notin {"fetch", "load"}
        /\ UNCHANGED <<now, resolution, skip_download, chunk, failed, todo, frame>>
    BY <1>9 DEF MakeVersion, SaveRaw, Validate, Convert, Copied, ConvertTimeframe, WriteHalf,
                WriteManifest, VerifyArtifacts, Delete, disk, memory
  <2>2. QED BY <1>0, <2>1 DEF DownloadInv, DownloadAccounts
<1>10. QED
  BY <1>1, <1>2, <1>3, <1>4, <1>5, <1>6, <1>7, <1>8, <1>9 DEF Next, Step

\* Raw versions but for the step that makes one and the one that saves it.
LEMMA RawKeeps == ASSUME DataInv, Next PROVE RawInv'
<1>0. RunTyped /\ StepTyped /\ RawInv /\ DiskTyped /\ MaxRuns \in Nat /\ runs \in Nat
  BY DataTyped, BoundsAssumption DEF RunTyped
<1>1. PICK n \in 0 .. runs : RawUpTo(n)
  BY <1>0 DEF RawInv
<1>2. CASE MakeVersion
  <2>1. n < runs /\ runs <= MaxRuns /\ n + 1 \in 1 .. MaxRuns /\ n + 1 \in 0 .. runs
    BY <1>0, <1>1, <1>2 DEF MakeVersion, RawUpTo, RunTyped
  <2>2. NextVersion = n + 1
    <3>1. \A w \in 1 .. MaxRuns : raw[w] = NoVersion <=> n + 1 <= w
      BY <1>1, <2>1 DEF RawUpTo
    <3>2. \A v \in 1 .. MaxRuns :
            (\A w \in 1 .. MaxRuns : raw[w] = NoVersion <=> v <= w) => v = n + 1
      BY <2>1, <3>1
    <3>3. DOMAIN raw = 1 .. MaxRuns
      BY <1>0 DEF DiskTyped
    <3>4. QED BY <2>1, <3>1, <3>2, <3>3 DEF NextVersion
  <2>3. raw' = [raw EXCEPT ![n + 1] = NoFile] /\ runs' = runs /\ pc' = "raw_file"
    BY <1>2, <2>2 DEF MakeVersion
  <2>4. RawUpTo(n + 1)'
    <3>1. raw'[n + 1] = NoFile /\ \A w \in 1 .. MaxRuns : w # n + 1 => raw'[w] = raw[w]
      BY <1>0, <2>1, <2>3 DEF DiskTyped
    <3>2. QED BY <1>1, <2>1, <2>3, <3>1, MarkFacts DEF RawUpTo
  <2>5. QED BY <2>1, <2>3, <2>4 DEF RawInv
<1>3. CASE SaveRaw
  <2>1. /\ raw' = [raw EXCEPT ![n] = frame] /\ n \in 1 .. MaxRuns /\ raw[n] = NoFile
        /\ pc' = "validate" /\ runs' = runs
    <3>1. n # 0 /\ raw[n] = NoFile /\ n \in 1 .. MaxRuns
      BY <1>0, <1>1, <1>3 DEF SaveRaw, RawUpTo, RunTyped
    <3> DEFINE made == {v \in DOMAIN raw : raw[v] # NoVersion}
    <3>2. made = 1 .. n
      BY <1>0, <1>1, <3>1 DEF DiskTyped, RawUpTo
    <3>3. (CHOOSE v \in made : \A w \in made : w <= v) = n
      BY <3>1, <3>2
    <3>4. QED BY <1>3, <3>1, <3>3 DEF SaveRaw
  <2>2. \A w \in 1 .. MaxRuns : raw'[w] = NoVersion <=> raw[w] = NoVersion
    BY <1>0, <2>1, MarkFacts DEF DiskTyped, RunTyped
  <2>3. RawUpTo(n)'
    BY <1>1, <2>1, <2>2 DEF RawUpTo
  <2>4. QED BY <2>1, <2>3 DEF RawInv
<1>4. CASE Start
  <2>1. runs' = runs + 1 /\ raw' = raw /\ pc' \in {"fetch", "load"}
    BY <1>4 DEF Start, disk
  <2>2. RawUpTo(n)' /\ n \in 0 .. runs'
    BY <1>0, <1>1, <2>1 DEF RawUpTo
  <2>3. QED BY <2>2 DEF RawInv
<1>5. CASE ~(MakeVersion \/ SaveRaw \/ Start)
  <2>1. /\ raw' = raw /\ runs' = runs /\ pc' # "raw_file"
        /\ pc' \in {"fetch", "load", "raw_directory"} => pc \in {"fetch", "load", "raw_directory"}
    BY <1>5 DEF Next, Step, NextYear, FetchYear, Consolidate, LoadRaw, Validate, Convert, Copied,
       ConvertTimeframe, Split, WriteHalf, WriteManifest, VerifyArtifacts, Delete, Finish, Kill,
       KillWhileDeleting, WriteFails, End, disk
  <2>2. RawUpTo(n)'
    BY <1>1, <2>1 DEF RawUpTo
  <2>3. QED BY <2>1, <2>2 DEF RawInv
<1>6. QED BY <1>2, <1>3, <1>4, <1>5

\* Halves but for the steps that begin them and write them.
LEMMA SplitKeeps == ASSUME DataInv, Next PROVE SplitInv'
<1>0. RunTyped /\ StepTyped /\ SplitInv /\ DiskTyped
  BY DataTyped
<1>1. CASE Split /\ pc' = "write_halves"
  <2>1. /\ hash' = m1 /\ UNCHANGED <<m1, higher, halves>>
        /\ found' \in IF higher = {} THEN {{}} ELSE {{f} : f \in higher}
        /\ pending' = {"M1"} \X Halves \cup (IF found' = {} THEN {} ELSE {"H1"} \X Halves)
    BY <1>1 DEF Split, DataHash, disk
  <2>2. found' \subseteq higher /\ (found' # {} => \E f \in higher : found' = {f})
    BY <2>1
  <2>3. pending' = SplitTables' \X Halves
    BY <2>1 DEF SplitTables, Tables
  <2>4. SplitsMatchTheirHash'
    BY <1>0, <2>1 DEF SplitInv, SplitsMatchTheirHash
  <2>5. QED BY <2>1, <2>2, <2>3, <2>4 DEF SplitInv
<1>2. CASE WriteHalf
  <2>1. /\ pc = "write_halves" /\ pending # {} /\ pending' = pending \ {NextHalf}
        /\ UNCHANGED <<pc, hash, found, m1, higher>>
        /\ halves' = IF Exists(hash, NextHalf[1], NextHalf[2]) THEN halves
                     ELSE halves \cup {[id |-> hash, table |-> NextHalf[1], half |-> NextHalf[2],
                                        of |-> Source(NextHalf[1]), config |-> config]}
    BY <1>2 DEF WriteHalf
  <2>2. NextHalf \in pending /\ NextHalf = <<NextHalf[1], NextHalf[2]>>
    BY <1>0, <2>1 DEF RunTyped, NextHalf, Tables, Halves
  <2>3. SplitsMatchTheirHash'
    <3>1. NextHalf[1] = "M1" => Source(NextHalf[1]) = hash
      BY <1>0, <2>1 DEF Source, SplitInv
    <3>2. QED BY <1>0, <2>1, <3>1 DEF SplitInv, SplitsMatchTheirHash
  <2>4. \A tf, half : Exists(hash, tf, half) => Exists(hash, tf, half)'
    BY <2>1 DEF Exists
  <2>5. \A tf, half : <<tf, half>> = NextHalf => Exists(hash, tf, half)'
    <3>1. TAKE tf, half
    <3>2. HAVE <<tf, half>> = NextHalf
    <3>3. NextHalf[1] = tf /\ NextHalf[2] = half
      BY <3>2
    <3>4. CASE Exists(hash, tf, half)
      BY <2>4, <3>4
    <3>5. CASE ~Exists(hash, tf, half)
      <4> DEFINE new == [id |-> hash, table |-> tf, half |-> half, of |-> Source(tf),
                         config |-> config]
      <4>1. new \in halves' /\ hash' = hash
        BY <2>1, <3>3, <3>5
      <4>2. new.id = hash /\ new.table = tf /\ new.half = half
        OBVIOUS
      <4> HIDE DEF new
      <4>3. QED BY <4>1, <4>2 DEF Exists
    <3>6. QED BY <3>4, <3>5
  <2>6. \A tf \in SplitTables, half \in Halves :
          <<tf, half>> \in pending' \/ Exists(hash, tf, half)'
    <3>1. TAKE tf \in SplitTables, half \in Halves
    <3>2. CASE <<tf, half>> = NextHalf
      BY <2>5, <3>2
    <3>3. CASE <<tf, half>> # NextHalf
      BY <1>0, <2>1, <2>4, <3>3 DEF SplitInv
    <3>4. QED BY <3>2, <3>3
  <2>7. SplitTables' = SplitTables
    BY <2>1 DEF SplitTables
  <2>8. QED BY <1>0, <2>1, <2>3, <2>6, <2>7 DEF SplitInv
<1>3. CASE ~WriteHalf /\ ~(Split /\ pc' = "write_halves")
  <2>1. halves' \subseteq halves /\ pc' # "write_halves"
    <3>1. CASE \/ NextYear \/ Start \/ FetchYear \/ Consolidate \/ LoadRaw \/ MakeVersion
               \/ SaveRaw \/ Validate \/ Convert \/ Copied \/ ConvertTimeframe
      BY <3>1 DEF NextYear, Start, FetchYear, Consolidate, LoadRaw, MakeVersion, SaveRaw, Validate,
         Convert, Copied, ConvertTimeframe, disk
    <3>2. CASE \/ Split \/ WriteManifest \/ VerifyArtifacts \/ Delete \/ Finish \/ Kill
               \/ KillWhileDeleting \/ WriteFails
      BY <1>3, <3>2 DEF Split, WriteManifest, VerifyArtifacts, Delete, Finish, Kill,
         KillWhileDeleting, WriteFails, End, disk
    <3>3. QED BY <1>3, <3>1, <3>2 DEF Next, Step
  <2>2. QED BY <1>0, <2>1 DEF SplitInv, SplitsMatchTheirHash
<1>4. QED BY <1>1, <1>2, <1>3

\* What a re-run has made so far.
LEMMA HealKeeps == ASSUME DataInv, Next PROVE HealInv'
<1>0. RunTyped /\ StepTyped /\ FlagsTyped /\ CallInv /\ HealInv /\ SplitInv
  BY DataTyped
<1>1. CASE Finish \/ Kill \/ KillWhileDeleting
  <2>1. pc' = "idle" /\ second' = FALSE
    BY <1>1 DEF Finish, Kill, KillWhileDeleting, End
  <2>2. QED BY <2>1 DEF HealInv
<1>2. CASE Delete
  <2>1. /\ higher' = {} /\ halves' = {} /\ manifests' = {}
        /\ pc' \in {"convert", "finish"} /\ (pc' = "convert" => converted) /\ converted' = converted
    BY <1>2 DEF Delete
  <2>2. QED BY <2>1 DEF HealInv
<1>3. CASE ~second /\ second' = second
  <2>1. pc' # "compare"
    <3>1. pc # "compare"
      BY <1>0, <1>3 DEF HealInv
    <3>2. CASE Split \/ WriteManifest
      BY <1>3, <3>2 DEF Split, WriteManifest
    <3>3. CASE ~(Split \/ WriteManifest)
      BY <3>1, <3>3 DEF Next, Step, NextYear, Start, FetchYear, Consolidate, LoadRaw, MakeVersion,
         SaveRaw, Validate, Convert, Copied, ConvertTimeframe, WriteHalf, VerifyArtifacts, Delete,
         Finish, Kill, KillWhileDeleting, WriteFails, End
    <3>4. QED BY <3>2, <3>3
  <2>2. QED BY <1>3, <2>1 DEF HealInv
<1>4. CASE second /\ ~(Finish \/ Kill \/ KillWhileDeleting \/ Delete)
  <2>0. pc \notin Early
    BY <1>0, <1>4 DEF CallInv
  <2>1. CASE Convert
    <3>1. converted /\ Convertible /\ pc = "convert"
      BY <1>0, <1>4, <2>1 DEF Convert, HealInv, CallInv
    <3>2. /\ pc' = "copy" /\ converted' = TRUE /\ UNCHANGED <<higher, halves, manifests, second>>
      BY <2>1, <3>1 DEF Convert
    <3>3. QED BY <1>0, <1>4, <3>1, <3>2 DEF HealInv
  <2>2. CASE Copied
    <3>1. /\ pc = "copy" /\ pc' = "timeframes" /\ m1' = frame
          /\ UNCHANGED <<higher, halves, manifests, second, converted, frame>>
      BY <2>2 DEF Copied, memory
    <3>2. QED BY <1>0, <1>4, <3>1 DEF HealInv
  <2>3. CASE ConvertTimeframe
    <3>1. /\ pc = "timeframes" /\ pc' = "split"
          /\ UNCHANGED <<m1, halves, manifests, second, converted, frame>>
      BY <2>3 DEF ConvertTimeframe, memory
    <3>2. m1 = frame /\ higher = {} /\ m1 # Torn
      BY <1>0, <1>4, <3>1, MarkFacts DEF HealInv, RunTyped
    <3>3. higher' = {[dates |-> Dates(frame), of |-> frame]}
      BY <2>3, <3>2 DEF ConvertTimeframe
    <3>4. Anew' = Anew
      BY <3>1 DEF Anew, Dates
    <3>5. QED BY <1>0, <1>4, <3>1, <3>2, <3>3, <3>4 DEF HealInv, Anew
  <2>4. CASE Split
    <3>1. /\ pc = "split" /\ manifests = {} /\ halves = {} /\ m1 = frame /\ higher = Anew
          /\ converted /\ m1 \notin {NoFile, Torn}
      BY <1>0, <1>4, <2>4, MarkFacts DEF Split, HealInv, RunTyped
    <3>2. /\ pc' = "write_halves" /\ UNCHANGED <<m1, higher, halves, manifests, second, converted,
                                                frame, config>>
          /\ found' \in IF higher = {} THEN {{}} ELSE {{f} : f \in higher}
          /\ pending' = {"M1"} \X Halves \cup (IF found' = {} THEN {} ELSE {"H1"} \X Halves)
      BY <2>4, <3>1 DEF Split, disk
    <3>3. found' = higher /\ found' # {}
      BY <3>1, <3>2 DEF Anew
    <3>4. \A h \in AllHalves : <<h.table, h.half>> \in pending'
      BY <3>2, <3>3 DEF AllHalves, Tables
    <3>5. Anew' = Anew /\ AllHalves' = AllHalves
      BY <3>2 DEF Anew, AllHalves, Dates
    <3>6. halves' = {h \in AllHalves' : <<h.table, h.half>> \notin pending'}
      BY <3>1, <3>2, <3>4, <3>5
    <3>7. QED BY <1>4, <3>1, <3>2, <3>3, <3>5, <3>6 DEF HealInv
  <2>5. CASE WriteHalf
    <3>1. /\ pc = "write_halves" /\ pending # {} /\ pending' = pending \ {NextHalf} /\ pc' = pc
          /\ UNCHANGED <<m1, higher, manifests, second, converted, frame, config, found, hash>>
          /\ halves' = IF Exists(hash, NextHalf[1], NextHalf[2]) THEN halves
                       ELSE halves \cup {[id |-> hash, table |-> NextHalf[1],
                              half |-> NextHalf[2], of |-> Source(NextHalf[1]), config |-> config]}
      BY <2>5 DEF WriteHalf
    <3>2. NextHalf \in pending /\ NextHalf = <<NextHalf[1], NextHalf[2]>>
          /\ NextHalf[1] \in Tables /\ NextHalf[2] \in Halves
      BY <1>0, <3>1 DEF RunTyped, NextHalf, Tables, Halves
    <3>3. /\ halves = {h \in AllHalves : <<h.table, h.half>> \notin pending}
          /\ found = Anew /\ m1 = frame /\ hash = frame
      BY <1>0, <1>4, <3>1 DEF HealInv, SplitInv
    <3>4. Source(NextHalf[1]) = frame
      <4>1. \A f \in found : f.of = frame
        BY <3>3 DEF Anew
      <4>2. found # {}
        BY <3>3 DEF Anew
      <4>3. (CHOOSE f \in found : TRUE) \in found
        BY <4>2
      <4>4. QED BY <3>3, <4>1, <4>3 DEF Source
    <3>5. ~Exists(hash, NextHalf[1], NextHalf[2])
      BY <3>2, <3>3 DEF Exists
    <3> DEFINE new == [id |-> frame, table |-> NextHalf[1], half |-> NextHalf[2], of |-> frame,
                       config |-> config]
    <3>6. halves' = halves \cup {new}
      BY <3>1, <3>3, <3>4, <3>5
    <3>7. new \in AllHalves /\ \A h \in AllHalves : <<h.table, h.half>> = NextHalf <=> h = new
      BY <3>2 DEF AllHalves
    <3> HIDE DEF new
    <3>8. halves' = {h \in AllHalves : <<h.table, h.half>> \notin pending'}
      BY <3>1, <3>3, <3>6, <3>7
    <3>9. Anew' = Anew /\ AllHalves' = AllHalves
      BY <3>1 DEF Anew, AllHalves, Dates
    <3>10. QED BY <1>0, <1>4, <3>1, <3>8, <3>9 DEF HealInv
  <2>6. CASE WriteManifest
    <3>1. /\ pc = "write_halves" /\ pending = {}
          /\ manifests' = {m \in manifests : m.id # hash}
               \cup {[id |-> hash, config |-> config,
                      tables |-> IF found = {} THEN {"M1"} ELSE Tables]}
          /\ pc' = "compare"
          /\ UNCHANGED <<m1, higher, halves, second, converted, frame, config>>
      BY <1>4, <2>6 DEF WriteManifest, memory
    <3>2. /\ halves = {h \in AllHalves : <<h.table, h.half>> \notin pending} /\ manifests = {}
          /\ found = Anew /\ higher = Anew /\ m1 = frame /\ hash = frame /\ converted
      BY <1>0, <1>4, <3>1 DEF HealInv, SplitInv
    <3>3. manifests' = {[id |-> frame, config |-> config, tables |-> Tables]}
      BY <3>1, <3>2 DEF Anew
    <3>4. halves = AllHalves
      BY <3>1, <3>2
    <3>5. Anew' = Anew /\ AllHalves' = AllHalves
      BY <3>1 DEF Anew, AllHalves, Dates
    <3>6. QED BY <1>4, <3>1, <3>2, <3>3, <3>4, <3>5 DEF HealInv
  <2>7. CASE VerifyArtifacts \/ WriteFails
    <3>1. pc' \in {"finish", "delete"}
      BY <1>4, <2>0, <2>7 DEF VerifyArtifacts, WriteFails, Early
    <3>2. QED BY <3>1 DEF HealInv
  <2>8. QED
    BY <1>4, <2>0, <2>1, <2>2, <2>3, <2>4, <2>5, <2>6, <2>7 DEF Next, Step, NextYear, Start,
       FetchYear, Consolidate, LoadRaw, MakeVersion, SaveRaw, Validate, Early
<1>5. second' = second \/ Finish \/ Kill \/ KillWhileDeleting \/ Delete
  BY DEF Next, Step, NextYear, Start, FetchYear, Consolidate, LoadRaw, MakeVersion,
     SaveRaw, Validate, Convert, Copied, ConvertTimeframe, Split, WriteHalf, WriteManifest,
     VerifyArtifacts, WriteFails, memory
<1>6. second \in BOOLEAN
  BY <1>0 DEF FlagsTyped
<1>7. QED BY <1>1, <1>2, <1>3, <1>4, <1>5, <1>6

----------------------------------------------------------------------------
(* Theorems.                                                               *)

LEMMA DataInit == Init => DataInv
<1> SUFFICES ASSUME Init PROVE DataInv
  OBVIOUS
<1>0. MaxRuns \in Nat /\ MaxFaults \in Nat
  BY BoundsAssumption
<1>1. DiskTyped
  BY NothingTyped DEF Init, DiskTyped
<1>2. RunTyped
  BY <1>0, NothingTyped DEF Init, RunTyped
<1>3. FlagsTyped /\ StepTyped
  BY DEF Init, FlagsTyped, StepTyped, Early
<1>4. CallInv
  BY MarkFacts, NothingTyped DEF Init, CallInv, Early
<1>5. DownloadInv
  BY DEF Init, DownloadInv, DownloadAccounts
<1>6. RawInv
  <2>1. RawUpTo(0)
    BY DEF Init, RawUpTo
  <2>2. QED BY <2>1 DEF Init, RawInv
<1>7. SplitInv /\ HealInv
  BY DEF Init, SplitInv, HealInv, SplitsMatchTheirHash
<1>8. QED BY <1>1, <1>2, <1>3, <1>4, <1>5, <1>6, <1>7 DEF DataInv, Typed

LEMMA DataStutters == ASSUME DataInv, UNCHANGED vars PROVE DataInv'
<1>0. DiskTyped /\ RunTyped /\ FlagsTyped /\ StepTyped
      /\ CallInv /\ DownloadInv /\ RawInv /\ SplitInv /\ HealInv
  BY DataTyped
<1>1. /\ UNCHANGED <<now, resolution, chunk, raw, m1, higher, halves, manifests, pc>>
      /\ UNCHANGED <<config, skip_download, todo, failed, frame, validated, converted>>
      /\ UNCHANGED <<hash, found, pending, second, runs, faults>>
  BY DEF vars, disk, memory
<1>2. DiskTyped' /\ RunTyped' /\ FlagsTyped' /\ StepTyped'
  BY <1>0, <1>1 DEF DiskTyped, RunTyped, FlagsTyped, StepTyped
<1>3. CallInv' /\ DownloadInv'
  BY <1>0, <1>1 DEF CallInv, DownloadInv, DownloadAccounts, Convertible
<1>4. RawInv'
  <2>1. PICK n \in 0 .. runs : RawUpTo(n)
    BY <1>0 DEF RawInv
  <2>2. RawUpTo(n)'
    BY <1>1, <2>1 DEF RawUpTo
  <2>3. QED BY <1>1, <2>2 DEF RawInv
<1>5. SplitInv'
  BY <1>0, <1>1 DEF SplitInv, SplitsMatchTheirHash, SplitTables, Exists
<1>6. HealInv'
  <2>1. Anew' = Anew /\ AllHalves' = AllHalves
    BY <1>1 DEF Anew, AllHalves, Dates
  <2>2. QED BY <1>0, <1>1, <2>1 DEF HealInv
<1>7. QED BY <1>2, <1>3, <1>4, <1>5, <1>6 DEF DataInv, Typed

LEMMA DataStep == DataInv /\ [Next]_vars => DataInv'
<1>1. ASSUME DataInv, Next PROVE DataInv'
  BY <1>1, TypedKeeps, CallKeeps, DownloadKeeps, RawKeeps, SplitKeeps, HealKeeps DEF DataInv
<1>2. QED BY <1>1, DataStutters

LEMMA DataAlways == Spec => []DataInv
BY DataInit, DataStep, PTL DEF Spec

\* A download of bars passes over no year in silence, and the hash in the name of a half is
\* that of the M1 data it is made of (downloader.py, data_splitter.py), whatever runs were
\* killed or could not write.
THEOREM TruthfulFiles == Spec => []FilesTellTheTruth
<1>1. DataInv => FilesTellTheTruth
  BY TypedFacts DEF DataInv, DownloadInv, SplitInv, FilesTellTheTruth
<1>2. QED BY <1>1, DataAlways, PTL

\* A re-run that gets to its comparison (_verify_reproducibility of pipeline_proof.py) has
\* made each file of the data and the configuration of this run.
THEOREM HealedFiles == Spec => []RerunHeals
<1>1. DataInv => RerunHeals
  <2>1. SUFFICES ASSUME DataInv, pc = "compare"
                 PROVE /\ m1 = frame /\ \A f \in higher : f.of = frame
                       /\ halves = AllHalves
                       /\ manifests = {[id |-> frame, config |-> config, tables |-> Tables]}
    BY DEF RerunHeals, AllHalves
  <2>2. HealInv
    BY <2>1 DEF DataInv
  <2>3. QED BY <2>1, <2>2 DEF HealInv, Anew
<1>2. QED BY <1>1, DataAlways, PTL

\* A raw version is never written over: what is saved goes to a version that had no file.
LEMMA RawStays ==
  ASSUME DataInv, Next
  PROVE  \A v \in DOMAIN raw : raw[v] \in Data => raw'[v] = raw[v]
<1>0. RunTyped /\ DiskTyped /\ RawInv /\ MaxRuns \in Nat /\ runs \in Nat
  BY DataTyped, BoundsAssumption DEF RunTyped
<1>1. PICK n \in 0 .. runs : RawUpTo(n)
  BY <1>0 DEF RawInv
<1>2. CASE MakeVersion
  <2>1. n < runs /\ runs <= MaxRuns /\ n + 1 \in 1 .. MaxRuns
    BY <1>0, <1>1, <1>2 DEF MakeVersion, RawUpTo, RunTyped
  <2>2. NextVersion \in 1 .. MaxRuns /\ raw[NextVersion] = NoVersion
    <3>1. \A w \in 1 .. MaxRuns : raw[w] = NoVersion <=> n + 1 <= w
      BY <1>1, <2>1 DEF RawUpTo
    <3>2. DOMAIN raw = 1 .. MaxRuns
      BY <1>0 DEF DiskTyped
    <3>3. \E v \in 1 .. MaxRuns : \A w \in 1 .. MaxRuns : raw[w] = NoVersion <=> v <= w
      BY <2>1, <3>1
    <3>4. QED BY <3>2, <3>3 DEF NextVersion
  <2>3. QED BY <1>0, <1>2, <2>2, MarkFacts DEF MakeVersion, DiskTyped
<1>3. CASE SaveRaw
  <2>1. n \in 1 .. MaxRuns /\ raw[n] = NoFile
    BY <1>0, <1>1, <1>3 DEF SaveRaw, RawUpTo, RunTyped
  <2> DEFINE made == {v \in DOMAIN raw : raw[v] # NoVersion}
  <2>2. made = 1 .. n
    BY <1>0, <1>1, <2>1 DEF DiskTyped, RawUpTo
  <2>3. (CHOOSE v \in made : \A w \in made : w <= v) = n
    BY <2>1, <2>2
  <2>4. raw' = [raw EXCEPT ![n] = frame]
    BY <1>3, <2>3 DEF SaveRaw
  <2>5. QED BY <1>0, <2>1, <2>4, MarkFacts DEF DiskTyped
<1>4. CASE ~(MakeVersion \/ SaveRaw)
  <2>1. raw' = raw
    BY <1>4 DEF Next, Step, Start, NextYear, FetchYear, Consolidate, LoadRaw, Validate, Convert,
       Copied, ConvertTimeframe, Split, WriteHalf, WriteManifest, VerifyArtifacts, Delete, Finish,
       Kill, KillWhileDeleting, WriteFails, disk
  <2>2. QED BY <2>1
<1>5. QED BY <1>2, <1>3, <1>4

\* A manifest comes after its halves, and halves go only when everything does.
LEMMA ManifestedStay ==
  ASSUME DataInv, Next, NEW m \in manifests', m \notin manifests \/ Whole(m)
  PROVE  Whole(m)' \/ pc = "delete"
<1>0. DiskTyped /\ SplitInv
  BY DataTyped
<1>1. CASE WriteManifest /\ m \notin manifests
  <2>1. /\ pc = "write_halves" /\ pending = {} /\ halves' = halves
        /\ m = [id |-> hash, config |-> config,
                 tables |-> IF found = {} THEN {"M1"} ELSE Tables]
    BY <1>1 DEF WriteManifest
  <2>2. \A tf \in SplitTables, half \in Halves : Exists(hash, tf, half)
    BY <1>0, <2>1 DEF SplitInv
  <2>3. m.id = hash /\ m.tables = SplitTables
    BY <2>1 DEF SplitTables
  <2>4. Whole(m)
    BY <2>2, <2>3 DEF Whole
  <2>5. QED BY <2>1, <2>4 DEF Whole, Exists
<1>2. CASE Delete \/ KillWhileDeleting
  BY <1>2 DEF Delete, KillWhileDeleting
<1>3. CASE ~(Delete \/ KillWhileDeleting) /\ (WriteManifest => m \in manifests)
  <2>1. halves \subseteq halves'
    <3>1. CASE WriteHalf
      BY <3>1 DEF WriteHalf
    <3>2. CASE ~WriteHalf
      BY <1>3, <3>2 DEF Next, Step, Start, NextYear, FetchYear, Consolidate, LoadRaw, MakeVersion,
         SaveRaw, Validate, Convert, Copied, ConvertTimeframe, Split, WriteManifest,
         VerifyArtifacts, Finish, Kill, WriteFails, disk
    <3>3. QED BY <3>1, <3>2
  <2>2. m \in manifests
    <3>1. CASE WriteManifest
      BY <1>3, <3>1
    <3>2. CASE ~WriteManifest
      <4>1. manifests' = manifests
        BY <1>3, <3>2 DEF Next, Step, Start, NextYear, FetchYear, Consolidate, LoadRaw, MakeVersion,
           SaveRaw, Validate, Convert, Copied, ConvertTimeframe, Split, WriteHalf,
           VerifyArtifacts, Finish, Kill, WriteFails, disk
      <4>2. QED BY <4>1
    <3>3. QED BY <3>1, <3>2
  <2>3. Whole(m)
    BY <2>2
  <2>4. QED BY <2>1, <2>3 DEF Whole, Exists
<1>4. QED BY <1>1, <1>2, <1>3

\* save_raw_artifact "never overwrites existing versions" (downloader.py), and what a manifest
\* names was there before it and stays until it is deleted for the re-run.
THEOREM KeptFiles == Spec => FilesStay
<1>1. ASSUME DataInv, [Next]_vars
      PROVE  [\A v \in DOMAIN raw : raw[v] \in Data => raw'[v] = raw[v]]_vars
  BY <1>1, RawStays
<1>2. ASSUME DataInv, [Next]_vars
      PROVE  [\A m \in manifests' : m \notin manifests \/ Whole(m)
                => Whole(m)' \/ pc = "delete"]_vars
  BY <1>2, ManifestedStay
<1>3. QED BY <1>1, <1>2, DataAlways, PTL DEF Spec, FilesStay, RawKept, ManifestedFilesStay

----------------------------------------------------------------------------
(* Both parts are what they are by themselves.                             *)

LEMMA PartsAreSpecs == PartsSpec => Spec /\ MarketSpec
<1>1. PartsInit => Init /\ MarketInit
  BY DEF PartsInit
<1>2. [PartsNext]_<<part, vars, market>> => [Next]_vars /\ [MarketNext]_market
  BY DEF PartsNext
<1>3. QED BY <1>1, <1>2, PTL DEF PartsSpec, Spec, MarketSpec

----------------------------------------------------------------------------
(* Of sets of numbers, and sums over them.                                 *)

\* A set of numbers has a smallest one.
LEMMA LeastElement ==
  ASSUME NEW T \in SUBSET Nat, T # {}
  PROVE  \E n \in T : \A m \in T : n <= m
<1> DEFINE LessThan == {p \in Nat \X Nat : p[1] < p[2]}
<1>1. IsWellFoundedOn(LessThan, Nat)
  BY NatLessThanWellFounded DEF OpToRel
<1>2. PICK n \in T : \A m \in T : ~(<<m, n>> \in LessThan)
  BY <1>1, WFMin
<1>3. ASSUME NEW m \in T PROVE n <= m
  <2>1. ~(<<m, n>> \in LessThan) /\ m \in Nat /\ n \in Nat
    BY <1>2
  <2>2. QED BY <2>1
<1>4. QED BY <1>3

\* Induction up to n, for a set of numbers.
LEMMA Upwards ==
  ASSUME NEW n \in Nat, NEW G, 0 \in G, \A k \in 1 .. n : k - 1 \in G => k \in G
  PROVE  \A k \in 0 .. n : k \in G
<1> DEFINE T == (0 .. n) \ G
<1>1. SUFFICES ASSUME T # {} PROVE FALSE
  OBVIOUS
<1>2. PICK k \in T : \A l \in T : k <= l
  <2>1. T \in SUBSET Nat
    OBVIOUS
  <2>2. QED BY <1>1, <2>1, LeastElement
<1>3. k \in 1 .. n /\ k - 1 \in 0 .. n /\ k \notin G
  BY <1>2
<1>4. k - 1 \in G
  <2>1. ~(k <= k - 1)
    BY <1>3
  <2>2. QED BY <1>2, <1>3, <2>1
<1>5. QED BY <1>3, <1>4

\* The sum of a function, by the recursion it is defined by.
Pick(s) == CHOOSE x \in s : TRUE
OneMore(w, f, s) == IF s = {} THEN 0 ELSE w[Pick(s)] + f[s \ {Pick(s)}]
SumsOf(w) == CHOOSE f : f = [s \in SUBSET DOMAIN w |-> OneMore(w, f, s)]

LEMMA SumNamed ==
  \A w : SumFunction(w) = SumsOf(w)[DOMAIN w]
BY DEF SumFunction, SumFunctionOnSet, FoldFunctionOnSet, MapThenFoldSet, SumsOf, OneMore, Pick

Small(w, n) == {s \in SUBSET DOMAIN w : Cardinality(s) <= n}
LEMMA SumsExist ==
  ASSUME NEW w, IsFiniteSet(DOMAIN w)
  PROVE  SumsOf(w) = [s \in SUBSET DOMAIN w |-> OneMore(w, SumsOf(w), s)]
<1> DEFINE G == {n \in Nat : \E f : f = [s \in Small(w, n) |-> OneMore(w, f, s)]}
           c == Cardinality(DOMAIN w)
<1>1. /\ c \in Nat
      /\ \A s \in SUBSET DOMAIN w : IsFiniteSet(s) /\ Cardinality(s) \in Nat /\ Cardinality(s) <= c
  BY FS_CardinalityType, FS_Subset
<1>2. 0 \in G
  <2> DEFINE f == [s \in Small(w, 0) |-> 0]
  <2>1. \A s \in Small(w, 0) : s = {}
    BY <1>1, FS_EmptySet DEF Small
  <2>2. f = [s \in Small(w, 0) |-> OneMore(w, f, s)]
    BY <2>1, Zenon DEF OneMore
  <2>3. QED BY <2>2
<1>3. ASSUME NEW n \in 1 .. c, n - 1 \in G PROVE n \in G
  <2>1. PICK f : f = [s \in Small(w, n - 1) |-> OneMore(w, f, s)]
    BY <1>3
  <2> DEFINE g == [s \in Small(w, n) |-> OneMore(w, f, s)]
  <2>2. \A s \in Small(w, n) : s # {} => s \ {Pick(s)} \in Small(w, n - 1)
    <3>1. TAKE s \in Small(w, n)
    <3>2. HAVE s # {}
    <3>3. Pick(s) \in s /\ s \ {Pick(s)} \in SUBSET DOMAIN w
      BY <3>2 DEF Pick, Small
    <3>4. Cardinality(s \ {Pick(s)}) = Cardinality(s) - 1
      BY <1>1, <3>3, FS_RemoveElement DEF Small
    <3>5. Cardinality(s) <= n /\ Cardinality(s) \in Nat /\ n \in Nat
      BY <1>1 DEF Small
    <3>6. QED BY <3>3, <3>4, <3>5 DEF Small
  <2>3. Small(w, n - 1) \subseteq Small(w, n)
    <3>1. \A s \in SUBSET DOMAIN w : Cardinality(s) <= n - 1 => Cardinality(s) <= n
      BY <1>1
    <3>2. QED BY <3>1 DEF Small
  <2>4. \A s \in Small(w, n - 1) : g[s] = f[s]
    <3>1. \A s \in Small(w, n - 1) : f[s] = OneMore(w, f, s)
      BY <2>1, Zenon
    <3>2. QED BY <2>3, <3>1
  <2>5. \A s \in Small(w, n) : OneMore(w, f, s) = OneMore(w, g, s)
    <3> HIDE DEF g
    <3>1. QED BY <2>2, <2>4 DEF OneMore
  <2>6. g = [s \in Small(w, n) |-> OneMore(w, g, s)]
    <3>1. [s \in Small(w, n) |-> OneMore(w, f, s)] = [s \in Small(w, n) |-> OneMore(w, g, s)]
      <4> HIDE DEF g
      <4>1. QED BY <2>5, Zenon
    <3>2. QED BY <3>1
  <2> HIDE DEF g
  <2>7. QED BY <2>6
<1>4. c \in G
  <2> HIDE DEF G
  <2>1. QED BY <1>1, <1>2, <1>3, Upwards
<1>5. Small(w, c) = SUBSET DOMAIN w
  BY <1>1 DEF Small
<1>6. PICK f : f = [s \in SUBSET DOMAIN w |-> OneMore(w, f, s)]
  BY <1>4, <1>5
<1>7. QED BY <1>6, Zenon DEF SumsOf

\* Induction over the subsets of a finite set.
LEMMA OverSubsets ==
  ASSUME NEW D, IsFiniteSet(D), NEW G, {} \in G,
         \A s \in SUBSET D : s # {} /\ s \ {Pick(s)} \in G => s \in G
  PROVE  \A s \in SUBSET D : s \in G
<1> DEFINE Bad == {n \in Nat : \E s \in SUBSET D : s \notin G /\ Cardinality(s) = n}
<1>1. \A s \in SUBSET D : IsFiniteSet(s) /\ Cardinality(s) \in Nat
  BY FS_CardinalityType, FS_Subset
<1>2. SUFFICES ASSUME NEW t \in SUBSET D, t \notin G PROVE FALSE
  OBVIOUS
<1>3. Bad # {} /\ Bad \in SUBSET Nat
  BY <1>1, <1>2
<1>4. PICK n \in Bad : \A m \in Bad : n <= m
  <2> HIDE DEF Bad
  <2>1. QED BY <1>3, LeastElement
<1>5. PICK s \in SUBSET D : s \notin G /\ Cardinality(s) = n
  OBVIOUS
<1>6. s # {} /\ s \ {Pick(s)} \notin G /\ s \ {Pick(s)} \in SUBSET D
  BY <1>5
<1>7. Pick(s) \in s
  BY <1>6 DEF Pick
<1>8. Cardinality(s \ {Pick(s)}) = n - 1
  BY <1>1, <1>5, <1>7, FS_RemoveElement
<1>9. Cardinality(s \ {Pick(s)}) \in Bad
  BY <1>1, <1>6
<1>10. n <= n - 1 /\ n \in Nat
  <2> HIDE DEF Bad
  <2>1. QED BY <1>1, <1>3, <1>4, <1>5, <1>8, <1>9
<1>11. QED BY <1>10

LEMMA SumStep ==
  ASSUME NEW w, IsFiniteSet(DOMAIN w)
  PROVE  /\ SumsOf(w)[{}] = 0
         /\ \A s \in SUBSET DOMAIN w :
              s # {} => /\ Pick(s) \in s /\ Pick(s) \in DOMAIN w
                        /\ SumsOf(w)[s] = w[Pick(s)] + SumsOf(w)[s \ {Pick(s)}]
<1>1. \A s \in SUBSET DOMAIN w : SumsOf(w)[s] = OneMore(w, SumsOf(w), s)
  BY SumsExist, Zenon
<1>2. \A s \in SUBSET DOMAIN w : s # {} => Pick(s) \in s /\ Pick(s) \in DOMAIN w
  BY DEF Pick
<1>3. {} \in SUBSET DOMAIN w
  OBVIOUS
<1>4. QED BY <1>1, <1>2, <1>3 DEF OneMore

\* A sum of natural numbers is one, and no less than each.
LEMMA SumFacts ==
  ASSUME NEW w, IsFiniteSet(DOMAIN w), \A x \in DOMAIN w : w[x] \in Nat
  PROVE  /\ SumFunction(w) \in Nat
         /\ \A x \in DOMAIN w : w[x] <= SumFunction(w)
         /\ DOMAIN w = {} => SumFunction(w) = 0
<1> DEFINE G == {s \in SUBSET DOMAIN w : /\ SumsOf(w)[s] \in Nat
                                         /\ \A x \in s : w[x] <= SumsOf(w)[s]}
<1>1. {} \in G
  BY SumStep
<1>2. ASSUME NEW s \in SUBSET DOMAIN w, s # {}, s \ {Pick(s)} \in G PROVE s \in G
  <2> DEFINE u == s \ {Pick(s)}
  <2>1. /\ SumsOf(w)[u] \in Nat /\ \A x \in u : w[x] <= SumsOf(w)[u]
    BY <1>2
  <2>2. /\ Pick(s) \in s /\ w[Pick(s)] \in Nat
        /\ SumsOf(w)[s] = w[Pick(s)] + SumsOf(w)[u]
    BY <1>2, SumStep
  <2>3. \A x \in s : x \in u \/ x = Pick(s)
    OBVIOUS
  <2> HIDE DEF u
  <2>4. SumsOf(w)[s] \in Nat /\ w[Pick(s)] <= SumsOf(w)[s] /\ SumsOf(w)[u] <= SumsOf(w)[s]
    BY <2>1, <2>2
  <2>5. \A x \in s : w[x] <= SumsOf(w)[s]
    <3>1. TAKE x \in s
    <3>2. CASE x = Pick(s)
      BY <2>4, <3>2
    <3>3. CASE x \in u
      BY <2>1, <2>4, <3>3
    <3>4. QED BY <2>3, <3>2, <3>3
  <2>6. QED BY <2>4, <2>5
<1>3. \A s \in SUBSET DOMAIN w : s \in G
  <2> HIDE DEF G
  <2>1. QED BY <1>1, <1>2, OverSubsets
<1>4. DOMAIN w \in G
  <2> HIDE DEF G
  <2>1. DOMAIN w \in SUBSET DOMAIN w
    OBVIOUS
  <2>2. QED BY <1>3, <2>1
<1>5. QED BY <1>4, SumNamed, SumStep

\* A union has no more elements than its parts together.
LEMMA UnionBound ==
  ASSUME NEW w, IsFiniteSet(DOMAIN w), \A x \in DOMAIN w : w[x] \in Nat, NEW C,
         \A x \in DOMAIN w : IsFiniteSet(C[x]) /\ Cardinality(C[x]) <= w[x]
  PROVE  /\ IsFiniteSet(UNION {C[x] : x \in DOMAIN w})
         /\ Cardinality(UNION {C[x] : x \in DOMAIN w}) <= SumFunction(w)
<1> DEFINE U(s) == UNION {C[x] : x \in s}
           G == {s \in SUBSET DOMAIN w : /\ SumsOf(w)[s] \in Nat /\ IsFiniteSet(U(s))
                                         /\ Cardinality(U(s)) <= SumsOf(w)[s]}
<1>1. {} \in G
  <2>1. U({}) = {}
    OBVIOUS
  <2>2. SumsOf(w)[{}] = 0 /\ {} \in SUBSET DOMAIN w
    BY SumStep
  <2> HIDE DEF U
  <2>3. QED BY <2>1, <2>2, FS_EmptySet
<1>2. ASSUME NEW s \in SUBSET DOMAIN w, s # {}, s \ {Pick(s)} \in G PROVE s \in G
  <2> DEFINE u == s \ {Pick(s)}
             a == U(u)
             b == C[Pick(s)]
  <2>1. SumsOf(w)[u] \in Nat /\ IsFiniteSet(a) /\ Cardinality(a) <= SumsOf(w)[u]
    BY <1>2
  <2>2. /\ Pick(s) \in s /\ w[Pick(s)] \in Nat /\ IsFiniteSet(b) /\ Cardinality(b) <= w[Pick(s)]
        /\ SumsOf(w)[s] = w[Pick(s)] + SumsOf(w)[u]
    BY <1>2, SumStep
  <2>3. U(s) = a \cup b
    <3>1. s = u \cup {Pick(s)}
      BY <2>2
    <3>2. QED BY <3>1, Zenon
  <2> HIDE DEF u, a, b
  <2>4. /\ IsFiniteSet(a \cup b) /\ IsFiniteSet(a \cap b)
        /\ Cardinality(a \cup b) = Cardinality(a) + Cardinality(b) - Cardinality(a \cap b)
    BY <2>1, <2>2, FS_Union, FS_Intersection
  <2>5. Cardinality(a) \in Nat /\ Cardinality(b) \in Nat /\ Cardinality(a \cap b) \in Nat
    BY <2>1, <2>2, <2>4, FS_CardinalityType
  <2>6. SumsOf(w)[s] \in Nat /\ Cardinality(a \cup b) <= SumsOf(w)[s]
    BY <2>1, <2>2, <2>4, <2>5
  <2> HIDE DEF U
  <2>7. QED BY <2>3, <2>4, <2>6
<1>3. \A s \in SUBSET DOMAIN w : s \in G
  <2> HIDE DEF G
  <2>1. QED BY <1>1, <1>2, OverSubsets
<1>4. DOMAIN w \in G
  <2> HIDE DEF G
  <2>1. DOMAIN w \in SUBSET DOMAIN w
    OBVIOUS
  <2>2. QED BY <1>3, <2>1
<1>5. QED BY <1>4, SumNamed

\* A finite set of numbers that is not empty has a greatest.
HasGreatest(S) == \E x \in S : \A y \in S : y <= x
LEMMA FiniteGreatest ==
  ASSUME NEW S \in SUBSET Int, S # {}, IsFiniteSet(S)
  PROVE  HasGreatest(S)
<1> DEFINE Bad == {n \in Nat : \E T \in SUBSET Int : /\ IsFiniteSet(T) /\ T # {}
                                                      /\ Cardinality(T) = n /\ ~HasGreatest(T)}
<1>1. SUFFICES ASSUME ~HasGreatest(S) PROVE FALSE
  OBVIOUS
<1>2. Cardinality(S) \in Bad
  BY <1>1, FS_CardinalityType
<1>3. PICK n \in Bad : \A m \in Bad : n <= m
  <2> HIDE DEF Bad
  <2>1. Bad \in SUBSET Nat
    BY DEF Bad
  <2>2. QED BY <1>2, <2>1, LeastElement
<1>4. PICK T \in SUBSET Int : IsFiniteSet(T) /\ T # {} /\ Cardinality(T) = n /\ ~HasGreatest(T)
  OBVIOUS
<1>5. PICK x \in T : TRUE
  BY <1>4
<1> DEFINE U == T \ {x}
<1>6. IsFiniteSet(U) /\ Cardinality(U) = n - 1 /\ U \in SUBSET Int /\ n \in Nat
  BY <1>3, <1>4, <1>5, FS_RemoveElement
<1>7. U # {}
  BY <1>4, <1>5 DEF HasGreatest
<1>8. ~(n <= n - 1) /\ Cardinality(U) \in Nat
  BY <1>6, FS_CardinalityType
<1>9. Cardinality(U) \notin Bad
  <2> HIDE DEF Bad
  <2>1. QED BY <1>3, <1>6, <1>8
<1>10. HasGreatest(U)
  BY <1>6, <1>7, <1>8, <1>9
<1>11. PICK u \in U : \A y \in U : y <= u
  BY <1>10 DEF HasGreatest
<1>12. u \in Int /\ x \in Int /\ T = U \cup {x} /\ \A y \in T : y \in Int
  BY <1>5, <1>11
<1>13. CASE u <= x
  <2>1. \A y \in T : y <= x
    BY <1>11, <1>12, <1>13
  <2>2. QED BY <1>4, <1>5, <2>1 DEF HasGreatest
<1>14. CASE ~(u <= x)
  <2>1. \A y \in T : y <= u
    BY <1>11, <1>12, <1>14
  <2>2. QED BY <1>4, <1>12, <2>1 DEF HasGreatest
<1>15. QED BY <1>13, <1>14

LEMMA MaxFacts ==
  ASSUME NEW S \in SUBSET Int, S # {}, IsFiniteSet(S)
  PROVE  Max(S) \in S /\ \A y \in S : y <= Max(S)
<1>1. PICK x \in S : \A y \in S : y <= x
  BY FiniteGreatest DEF HasGreatest
<1>2. \A y \in S : x >= y
  BY <1>1
<1>3. QED BY <1>2 DEF Max

Mirror(S) == {0 - x : x \in S}
LEMMA MinFacts ==
  ASSUME NEW S \in SUBSET Int, S # {}, IsFiniteSet(S)
  PROVE  Min(S) \in S /\ \A y \in S : Min(S) <= y
<1> DEFINE f == [x \in S |-> 0 - x]
<1>1. f \in Surjection(S, Mirror(S))
  BY DEF Surjection, Mirror
<1>2. IsFiniteSet(Mirror(S))
  BY <1>1, FS_Surjection
<1>3. Mirror(S) \in SUBSET Int /\ Mirror(S) # {}
  <2>1. \A x \in S : 0 - x \in Int
    OBVIOUS
  <2>2. QED BY <2>1, Zenon DEF Mirror
<1>4. PICK z \in Mirror(S) : \A y \in Mirror(S) : y <= z
  BY <1>2, <1>3, FiniteGreatest DEF HasGreatest
<1>5. PICK x \in S : z = 0 - x
  BY DEF Mirror
<1>6. \A y \in S : x <= y
  <2>1. TAKE y \in S
  <2>2. 0 - y \in Mirror(S)
    BY DEF Mirror
  <2>3. 0 - y <= 0 - x /\ y \in Int /\ x \in Int
    BY <1>4, <1>5, <2>2
  <2>4. QED BY <2>3
<1>7. QED BY <1>6 DEF Min

\* The image of a finite set by a field.
TimesOf(R) == {r.t : r \in R}
LEMMA TimesFinite ==
  ASSUME NEW R, IsFiniteSet(R)
  PROVE  IsFiniteSet(TimesOf(R))
<1> DEFINE f == [r \in R |-> r.t]
<1>1. f \in Surjection(R, TimesOf(R))
  BY DEF Surjection, TimesOf
<1>2. QED BY <1>1, FS_Surjection

\* The last and the first of some rows.
LEMMA LastFacts ==
  ASSUME NEW R, R # {}, IsFiniteSet(R), \A r \in R : r.t \in Int
  PROVE  Last(R) \in R /\ \A q \in R : q.t <= Last(R).t
<1>1. TimesOf(R) \in SUBSET Int /\ TimesOf(R) # {}
  BY DEF TimesOf
<1>2. PICK z \in TimesOf(R) : \A y \in TimesOf(R) : y <= z
  BY <1>1, TimesFinite, FiniteGreatest DEF HasGreatest
<1>3. PICK r \in R : \A q \in R : q.t <= r.t
  BY <1>2 DEF TimesOf
<1>4. QED BY <1>3 DEF Last

LEMMA FirstFacts ==
  ASSUME NEW R, R # {}, IsFiniteSet(R), \A r \in R : r.t \in Int
  PROVE  First(R) \in R /\ \A q \in R : First(R).t <= q.t
<1>1. TimesOf(R) \in SUBSET Int /\ TimesOf(R) # {}
  BY DEF TimesOf
<1>2. Min(TimesOf(R)) \in TimesOf(R) /\ \A y \in TimesOf(R) : Min(TimesOf(R)) <= y
  BY <1>1, TimesFinite, MinFacts
<1>3. PICK r \in R : \A q \in R : r.t <= q.t
  BY <1>2 DEF TimesOf
<1>4. QED BY <1>3 DEF First

\* A time lies in its period.
LEMMA FloorFacts ==
  ASSUME NEW t \in Int, NEW n \in Nat \ {0}, NEW o \in Int
  PROVE  Floor(t, n, o) \in Int /\ Floor(t, n, o) <= t /\ t < Floor(t, n, o) + n
<1> DEFINE q == (t - o) \div n
           m == (t - o) % n
<1>1. t - o \in Int /\ n > 0
  OBVIOUS
<1>2. q \in Int /\ m \in 0 .. n - 1 /\ t - o = n * q + m
  BY <1>1
<1> DEFINE w == q * n
<1>3. w \in Int /\ w = n * q
  BY <1>2
<1>4. Floor(t, n, o) = w + o
  BY DEF Floor
<1> HIDE DEF q, m, w
<1>5. QED BY <1>2, <1>3, <1>4

\* Times between the beginning of a period and a time of it are of that period.
LEMMA FloorBetween ==
  ASSUME NEW t \in Int, NEW n \in Nat \ {0}, NEW o \in Int, NEW x \in Int,
         Floor(t, n, o) <= x, x <= t
  PROVE  Floor(x, n, o) = Floor(t, n, o)
<1> DEFINE q == (t - o) \div n
           p == (x - o) \div n
           l == (t - o) % n
           m == (x - o) % n
<1>1. t - o \in Int /\ x - o \in Int /\ n > 0
  OBVIOUS
<1>2. q \in Int /\ l \in 0 .. n - 1 /\ t - o = n * q + l
  BY <1>1
<1>3. p \in Int /\ m \in 0 .. n - 1 /\ x - o = n * p + m
  BY <1>1
<1>4. Floor(t, n, o) = q * n + o /\ Floor(x, n, o) = p * n + o
  BY DEF Floor
<1> HIDE DEF q, p, l, m
<1>5. q * n = n * q /\ p * n = n * p
  BY <1>2, <1>3
<1>6. n * p <= n * q + l - m /\ n * q <= n * p + m
  BY <1>2, <1>3, <1>4, <1>5
<1>7. n * q < n * p + n
  BY <1>3, <1>6, <1>2
<1>8. n * p < n * q + n
  BY <1>3, <1>6, <1>2
<1>9. n * (q - p) < n * 1 /\ n * (p - q) < n * 1
  BY <1>2, <1>3, <1>7, <1>8
<1>10. q - p < 1 /\ p - q < 1
  <2>1. q - p >= 1 => n * (q - p) >= n * 1
    BY <1>2, <1>3
  <2>2. p - q >= 1 => n * (p - q) >= n * 1
    BY <1>2, <1>3
  <2>3. n * (q - p) \in Int /\ n * (p - q) \in Int
    BY <1>2, <1>3
  <2>4. QED BY <1>2, <1>3, <1>9, <2>1, <2>2, <2>3
<1>11. p = q
  BY <1>2, <1>3, <1>10
<1>12. QED BY <1>4, <1>11

OffsetOf(tf) == IF tf \in DOMAIN Offset THEN Offset[tf] ELSE 0

LEMMA PeriodFacts ==
  ASSUME NEW t \in Int, NEW tf \in Timeframes
  PROVE  /\ PeriodStart(t, tf) \in Int /\ PeriodStart(t, tf) <= t
         /\ t < PeriodStart(t, tf) + Period[tf]
         /\ \A x \in Int : PeriodStart(t, tf) <= x /\ x <= t
                             => PeriodStart(x, tf) = PeriodStart(t, tf)
<1>1. Period[tf] \in Nat \ {0} /\ OffsetOf(tf) \in Int
  BY CalendarAssumption DEF OffsetOf
<1>2. \A x : PeriodStart(x, tf) = Floor(x, Period[tf], OffsetOf(tf))
  BY DEF PeriodStart, OffsetOf
<1> DEFINE n == Period[tf]
           o == OffsetOf(tf)
<1> HIDE DEF n, o
<1>3. /\ Floor(t, n, o) \in Int /\ Floor(t, n, o) <= t /\ t < Floor(t, n, o) + n
  BY <1>1, FloorFacts DEF n, o
<1>4. \A x \in Int : Floor(t, n, o) <= x /\ x <= t => Floor(x, n, o) = Floor(t, n, o)
  <2>1. TAKE x \in Int
  <2>2. HAVE Floor(t, n, o) <= x /\ x <= t
  <2>3. n \in Nat \ {0} /\ o \in Int
    BY <1>1 DEF n, o
  <2>4. QED BY <2>2, <2>3, FloorBetween
<1>5. QED BY <1>2, <1>3, <1>4 DEF n, o

\* A table: finitely many rows, each with a time of its own.
Keyed(R) ==
  /\ IsFiniteSet(R)
  /\ \A r \in R : r.t \in Int
  /\ \A q, r \in R : q.t = r.t => q = r

LEMMA KeyedSubset ==
  ASSUME NEW R, Keyed(R), NEW S \in SUBSET R
  PROVE  Keyed(S)
BY FS_Subset DEF Keyed

\* What each row of a table is made of.
StampedBar(r) ==
  [t |-> r.t, open |-> r.open, high |-> r.high, low |-> r.low, close |-> r.close,
   bid |-> r.bid, ask |-> r.ask, session |-> BulkSession(r.t), quarantined |-> r.t \in flagged]
InMinute(ticks, m) == {r \in ticks : Floor(r.t, Minute, 0) = m}
MidsOf(ticks) == {r.bid + r.ask : r \in ticks}
MinuteBar(m, in) ==
  [t |-> m, open |-> First(in).bid + First(in).ask, high |-> Max(MidsOf(in)),
   low |-> Min(MidsOf(in)), close |-> Last(in).bid + Last(in).ask, bid |-> Last(in).bid,
   ask |-> Last(in).ask, session |-> "off_hours", quarantined |-> \E r \in in : r.t \in flagged]
InPeriod(R, tf, p) == {r \in Usable(R) : PeriodStart(r.t, tf) = p}
Highs(in) == {r.high : r \in in}
Lows(in) == {r.low : r \in in}
PeriodSession(tf, p, in) ==
  CASE tf = "H1" -> H1Session(p)
    [] tf = "M5" -> First(in).session
    [] OTHER -> "mixed"
PeriodBar(tf, p, in) ==
  [t |-> p, open |-> First(in).open, high |-> Max(Highs(in)), low |-> Min(Lows(in)),
   close |-> Last(in).close, bid |-> Last(in).bid, ask |-> Last(in).ask,
   session |-> PeriodSession(tf, p, in), quarantined |-> FALSE]

LEMMA BarsNamed ==
  /\ \A rows : Stamped(rows) = {StampedBar(r) : r \in rows}
  /\ \A ticks : AggregateTicks(ticks)
       = {MinuteBar(m, InMinute(ticks, m)) : m \in {Floor(r.t, Minute, 0) : r \in ticks}}
  /\ \A R, tf : Converted(R, tf)
       = {PeriodBar(tf, p, InPeriod(R, tf, p)) : p \in {PeriodStart(r.t, tf) : r \in Usable(R)}}
<1>1. \A rows : Stamped(rows) = {StampedBar(r) : r \in rows}
  BY Zenon DEF Stamped, StampedBar
<1>2. \A ticks : AggregateTicks(ticks)
       = {MinuteBar(m, InMinute(ticks, m)) : m \in {Floor(r.t, Minute, 0) : r \in ticks}}
  BY Zenon DEF AggregateTicks, MinuteBar, InMinute, MidsOf
<1>3. \A R, tf : Converted(R, tf)
       = {PeriodBar(tf, p, InPeriod(R, tf, p)) : p \in {PeriodStart(r.t, tf) : r \in Usable(R)}}
  BY Zenon DEF Converted, PeriodBar, InPeriod, Highs, Lows, PeriodSession
<1>4. QED BY <1>1, <1>2, <1>3

LEMMA StampedKeyed ==
  ASSUME NEW R, Keyed(R)
  PROVE  Keyed(Stamped(R))
<1> DEFINE f == [r \in R |-> StampedBar(r)]
           T == Stamped(R)
<1>1. T = {StampedBar(r) : r \in R}
  BY BarsNamed
<1>2. f \in Surjection(R, T)
  BY <1>1 DEF Surjection
<1>3. IsFiniteSet(T)
  BY <1>2, FS_Surjection DEF Keyed
<1>4. \A r \in R : StampedBar(r).t = r.t
  BY DEF StampedBar
<1> HIDE DEF T
<1>5. \A q \in T : q.t \in Int
  BY <1>1, <1>4 DEF Keyed
<1>6. ASSUME NEW a \in T, NEW b \in T, a.t = b.t PROVE a = b
  <2>1. PICK q \in R : a = StampedBar(q)
    BY <1>1
  <2>2. PICK r \in R : b = StampedBar(r)
    BY <1>1
  <2>3. q = r
    BY <1>4, <1>6, <2>1, <2>2 DEF Keyed
  <2>4. QED BY <2>1, <2>2, <2>3
<1>7. QED BY <1>3, <1>5, <1>6 DEF Keyed, T

LEMMA ImageKeyed ==
  ASSUME NEW P, IsFiniteSet(P), P \subseteq Int, NEW f, f = [p \in P |-> f[p]],
         \A p \in P : f[p].t = p
  PROVE  Keyed({f[p] : p \in P})
<1>1. f \in Surjection(P, {f[p] : p \in P})
  <2> DEFINE T == {f[p] : p \in P}
  <2>1. f \in [P -> T] /\ \A u \in T : \E p \in P : f[p] = u
    BY Zenon
  <2>2. QED BY <2>1 DEF Surjection
<1>2. IsFiniteSet({f[p] : p \in P})
  BY <1>1, FS_Surjection
<1>3. QED BY <1>2 DEF Keyed

LEMMA AggregateKeyed ==
  ASSUME NEW R, IsFiniteSet(R), \A r \in R : r.t \in Int
  PROVE  Keyed(AggregateTicks(R))
<1> DEFINE P == {Floor(r.t, Minute, 0) : r \in R}
           g == [r \in R |-> Floor(r.t, Minute, 0)]
           f == [m \in P |-> MinuteBar(m, InMinute(R, m))]
<1>1. \A r \in R : Floor(r.t, Minute, 0) \in Int
  <2>1. Minute \in Nat \ {0} /\ 0 \in Int
    BY DEF Minute
  <2>2. QED BY <2>1, FloorFacts
<1>2. g \in Surjection(R, P)
  BY DEF Surjection
<1>3. IsFiniteSet(P)
  BY <1>2, FS_Surjection
<1>4. \A m \in P : f[m].t = m
  BY DEF MinuteBar
<1>5. AggregateTicks(R) = {f[m] : m \in P}
  BY BarsNamed
<1>6. P \subseteq Int /\ f = [p \in P |-> f[p]]
  BY <1>1
<1> HIDE DEF P, f
<1>7. QED BY <1>3, <1>4, <1>5, <1>6, ImageKeyed

LEMMA ConvertedKeyed ==
  ASSUME NEW R, Keyed(R), NEW tf \in Timeframes
  PROVE  Keyed(Converted(R, tf))
<1> DEFINE U == Usable(R)
           P == {PeriodStart(r.t, tf) : r \in U}
           g == [r \in U |-> PeriodStart(r.t, tf)]
           f == [p \in P |-> PeriodBar(tf, p, InPeriod(R, tf, p))]
<1>1. Keyed(U)
  BY KeyedSubset DEF Usable
<1> HIDE DEF U
<1>2. \A r \in U : PeriodStart(r.t, tf) \in Int
  BY <1>1, PeriodFacts DEF Keyed
<1>3. g \in Surjection(U, P)
  BY DEF Surjection
<1>4. IsFiniteSet(P)
  BY <1>1, <1>3, FS_Surjection DEF Keyed
<1>5. \A p \in P : f[p].t = p
  BY DEF PeriodBar
<1>6. Converted(R, tf) = {f[p] : p \in P}
  BY BarsNamed DEF U
<1>7. P \subseteq Int /\ f = [p \in P |-> f[p]]
  BY <1>2
<1> HIDE DEF P, f
<1>8. QED BY <1>4, <1>5, <1>6, <1>7, ImageKeyed

\* What is known of the tables and of their halves.
AllTables == {"M1"} \cup Timeframes
TablesKeyed == Keyed(m1_table) /\ \A tf \in Timeframes : Keyed(tables[tf])
CutKnown ==
  stage \in {"split", "done"} =>
    /\ split \in Splits /\ M1Train(split) # {}
    /\ cut = Last(M1Train(split)).t
HalvesKnown ==
  /\ DOMAIN train = AllTables /\ DOMAIN test = AllTables
  /\ stage = "done" =>
       \A tf \in AllTables : train[tf] = TrainHalf(tf) /\ test[tf] = Table(tf) \ TrainHalf(tf)
CutInv == download \in Downloads /\ TablesKeyed /\ CutKnown /\ HalvesKnown

LEMMA CutInvInit == MarketInit => CutInv
<1> SUFFICES ASSUME MarketInit PROVE CutInv
  OBVIOUS
<1>1. download \in Downloads /\ stage = "validate" /\ m1_table = {}
      /\ tables = [tf \in Timeframes |-> {}]
      /\ train = [tf \in AllTables |-> {}] /\ test = train
  BY DEF MarketInit, AllTables
<1>2. Keyed({})
  BY FS_EmptySet DEF Keyed
<1>3. QED BY <1>1, <1>2 DEF CutInv, TablesKeyed, CutKnown, HalvesKnown

LEMMA CutInvStep ==
  ASSUME CutInv, [MarketNext]_market
  PROVE  CutInv'
<1>1. CASE CheckQuality
  <2>1. /\ stage' \notin {"split", "done"}
        /\ UNCHANGED <<download, m1_table, tables, split, cut, train, test>>
    BY <1>1 DEF CheckQuality
  <2>2. QED BY <2>1 DEF CutInv, TablesKeyed, CutKnown, HalvesKnown
<1>2. CASE ConvertToArrow
  <2>1. /\ stage' \notin {"split", "done"}
        /\ UNCHANGED <<download, tables, split, cut, train, test>>
        /\ m1_table' \in {m1_table, AggregateTicks(download.rows), Stamped(download.rows)}
        /\ m1_table' = Stamped(download.rows) /\ m1_table' # m1_table
             => download.resolution # "tick" \/ m1_table' = AggregateTicks(download.rows)
    BY <1>2 DEF ConvertToArrow
  <2>2. /\ download.resolution \in {"M1", "tick"} /\ IsFiniteSet(download.rows)
        /\ \A r \in download.rows : r.t \in Int
        /\ download.resolution = "M1" => Keyed(download.rows)
    BY RowsAssumption DEF CutInv, Keyed
  <2>3. Keyed(m1_table')
    <3>1. CASE m1_table' = m1_table
      BY <3>1 DEF CutInv, TablesKeyed
    <3>2. CASE m1_table' = AggregateTicks(download.rows)
      BY <2>2, <3>2, AggregateKeyed
    <3>3. CASE download.resolution = "M1" /\ m1_table' = Stamped(download.rows)
      BY <2>2, <3>3, StampedKeyed
    <3>4. QED BY <2>1, <2>2, <3>1, <3>2, <3>3
  <2>4. QED BY <2>1, <2>3 DEF CutInv, TablesKeyed, CutKnown, HalvesKnown
<1>3. CASE ConvertTimeframes
  <2>1. /\ stage' \notin {"split", "done"}
        /\ UNCHANGED <<download, m1_table, split, cut, train, test>>
        /\ tables' = [tf \in Timeframes |-> Converted(m1_table, tf)]
    BY <1>3 DEF ConvertTimeframes
  <2>2. \A tf \in Timeframes : Keyed(tables'[tf])
    BY <2>1, ConvertedKeyed DEF CutInv, TablesKeyed
  <2>3. QED BY <2>1, <2>2 DEF CutInv, TablesKeyed, CutKnown, HalvesKnown
<1>4. CASE Cut
  <2>1. PICK s \in Splits :
          /\ split' = s
          /\ IF M1Train(s) \in {{}, m1_table}
             THEN stage' = "failed" /\ UNCHANGED cut
             ELSE stage' = "split" /\ cut' = Last(M1Train(s)).t
    BY <1>4 DEF Cut
  <2>2. UNCHANGED <<download, m1_table, tables, train, test>> /\ stage' # "done"
    BY <1>4, <2>1 DEF Cut
  <2>3. M1Train(s)' = M1Train(s)
    BY <2>2 DEF M1Train
  <2>4. CutKnown'
    BY <2>1, <2>3 DEF CutKnown, M1Train
  <2>5. QED BY <2>2, <2>4 DEF CutInv, TablesKeyed, HalvesKnown
<1>5. CASE SplitAtCut
  <2>1. stage = "split" /\ UNCHANGED <<download, m1_table, tables, split, cut>>
    BY <1>5 DEF SplitAtCut
  <2>2. /\ stage' \in {"failed", "done"}
        /\ stage' = "failed" => UNCHANGED <<train, test>>
        /\ stage' = "done" => /\ train' = [tf \in DOMAIN train |-> TrainHalf(tf)]
                              /\ test' = [tf \in DOMAIN test |-> Table(tf) \ TrainHalf(tf)]
    BY <1>5 DEF SplitAtCut
  <2>3. /\ M1Train(split)' = M1Train(split)
        /\ \A tf : TrainHalf(tf)' = TrainHalf(tf) /\ Table(tf)' = Table(tf)
    BY <2>1 DEF TrainHalf, Table, M1Train
  <2>4. CutKnown'
    BY <2>1, <2>3 DEF CutInv, CutKnown
  <2>5. HalvesKnown'
    BY <2>2, <2>3 DEF CutInv, HalvesKnown
  <2>6. QED BY <2>1, <2>4, <2>5 DEF CutInv, TablesKeyed
<1>6. CASE UNCHANGED market
  <2>1. UNCHANGED <<stage, download, m1_table, tables, split, cut, train, test>>
    BY <1>6 DEF market
  <2>2. /\ M1Train(split)' = M1Train(split)
        /\ \A tf : TrainHalf(tf)' = TrainHalf(tf) /\ Table(tf)' = Table(tf)
    BY <2>1 DEF TrainHalf, Table, M1Train
  <2>3. QED BY <2>1, <2>2 DEF CutInv, TablesKeyed, CutKnown, HalvesKnown
<1>7. QED BY <1>1, <1>2, <1>3, <1>4, <1>5, <1>6 DEF MarketNext

LEMMA CutInvHolds == MarketSpec => []CutInv
BY CutInvInit, CutInvStep, PTL DEF MarketSpec

\* The training half of M1 is all that comes before some time.
LEMMA TrainIsBefore ==
  ASSUME CutInv, NEW a \in m1_table, NEW b \in M1Train(split), a.t <= b.t, stage = "done"
  PROVE  a \in M1Train(split)
<1>1. /\ IsFiniteSet(m1_table) /\ split.at \in Int
      /\ \A r \in m1_table : r.t \in Int
  BY CalendarAssumption DEF CutInv, CutKnown, TablesKeyed, Keyed
<1>2. CASE split.mode = "date"
  BY <1>1, <1>2 DEF M1Train
<1>3. CASE split.mode # "date"
  <2> DEFINE UpToRow(r) == {q \in m1_table : q.t <= r.t}
             most == (Cardinality(m1_table) * split.at) \div 10
  <2>1. M1Train(split) = {r \in m1_table : Cardinality(UpToRow(r)) <= most}
    BY <1>3 DEF M1Train
  <2>2. b \in m1_table /\ Cardinality(UpToRow(b)) <= most
    BY <2>1
  <2>3. UpToRow(a) \in SUBSET UpToRow(b) /\ UpToRow(b) \in SUBSET m1_table
    <3>1. \A q \in m1_table : q.t <= a.t => q.t <= b.t
      BY <1>1, <2>2
    <3>2. QED BY <3>1
  <2>4. IsFiniteSet(UpToRow(b)) /\ IsFiniteSet(UpToRow(a))
    <3> HIDE DEF UpToRow
    <3>1. QED BY <1>1, <2>3, FS_Subset
  <2>5. Cardinality(UpToRow(a)) <= Cardinality(UpToRow(b))
    <3> HIDE DEF UpToRow
    <3>1. QED BY <2>3, <2>4, FS_Subset
  <2>6. /\ Cardinality(UpToRow(a)) \in Nat /\ Cardinality(UpToRow(b)) \in Nat
        /\ Cardinality(m1_table) \in Nat
    <3> HIDE DEF UpToRow
    <3>1. QED BY <1>1, <2>4, FS_CardinalityType
  <2>7. most \in Int
    <3> DEFINE x == Cardinality(m1_table) * split.at
    <3>1. x \in Int
      BY <1>1, <2>6
    <3> HIDE DEF x
    <3>2. x \div 10 \in Int
      BY <3>1
    <3>3. QED BY <3>2 DEF x
  <2> HIDE DEF UpToRow, most
  <2>8. QED BY <2>1, <2>2, <2>5, <2>6, <2>7
<1>4. QED BY <1>2, <1>3

\* The time of the cut is that of the last row for training.
LEMMA CutFacts ==
  ASSUME CutInv, stage = "done"
  PROVE  /\ cut \in Int /\ train["M1"] \subseteq m1_table /\ test["M1"] = m1_table \ train["M1"]
         /\ Last(train["M1"]) \in train["M1"] /\ Last(train["M1"]).t = cut
         /\ \A r \in m1_table : r.t <= cut <=> r \in train["M1"]
         /\ \A tf \in Timeframes : /\ train[tf] = {b \in tables[tf] : b.t < cut}
                                   /\ test[tf] = tables[tf] \ train[tf]
<1>1. /\ Keyed(m1_table) /\ M1Train(split) # {} /\ cut = Last(M1Train(split)).t
      /\ train["M1"] = TrainHalf("M1") /\ test["M1"] = Table("M1") \ TrainHalf("M1")
  BY DEF CutInv, TablesKeyed, CutKnown, HalvesKnown, AllTables
<1>2. /\ train["M1"] = M1Train(split) /\ test["M1"] = m1_table \ M1Train(split)
  BY <1>1 DEF TrainHalf, Table
<1>3. M1Train(split) \subseteq m1_table
  BY DEF M1Train
<1>4. IsFiniteSet(M1Train(split)) /\ \A r \in M1Train(split) : r.t \in Int
  BY <1>1, <1>3, FS_Subset DEF Keyed
<1>5. Last(M1Train(split)) \in M1Train(split) /\ \A r \in M1Train(split) : r.t <= cut
  BY <1>1, <1>4, LastFacts
<1>6. \A r \in m1_table : r.t <= cut => r \in M1Train(split)
  BY <1>1, <1>5, TrainIsBefore
<1>7. \A tf \in Timeframes : tf # "M1"
  BY DEF Timeframes
<1>8. \A tf \in Timeframes : /\ train[tf] = {b \in tables[tf] : b.t < cut}
                             /\ test[tf] = tables[tf] \ train[tf]
  BY <1>7 DEF CutInv, HalvesKnown, TrainHalf, Table, AllTables
<1>9. QED BY <1>1, <1>2, <1>3, <1>4, <1>5, <1>6, <1>8

\* Whatever bar of a higher timeframe has rows on both sides of the cut is that of its period.
LEMMA OnTheCut ==
  ASSUME CutInv, stage = "done", NEW tf \in Timeframes, NEW b \in LateBars(tf) \cup EarlyBars(tf)
  PROVE  /\ b \in tables[tf] /\ b.t = PeriodStart(cut, tf)
         /\ b \in EarlyBars(tf) => Sources(b, tf) \cap train["M1"] = {Last(train["M1"])}
<1>1. /\ cut \in Int /\ train["M1"] \subseteq m1_table /\ test["M1"] = m1_table \ train["M1"]
      /\ Last(train["M1"]) \in train["M1"] /\ Last(train["M1"]).t = cut
      /\ \A r \in m1_table : r.t <= cut <=> r \in train["M1"]
      /\ train[tf] = {a \in tables[tf] : a.t < cut}
      /\ test[tf] = tables[tf] \ train[tf]
  BY CutFacts
<1>2. /\ \A r \in m1_table : r.t \in Int
      /\ \A q, r \in m1_table : q.t = r.t => q = r
      /\ \A a \in tables[tf] : a.t \in Int
  BY DEF CutInv, TablesKeyed, Keyed
<1>3. b \in tables[tf]
  BY <1>1 DEF LateBars, EarlyBars
<1>4. \A r \in Sources(b, tf) : /\ r \in m1_table /\ b.t = PeriodStart(r.t, tf) /\ b.t <= r.t
                                /\ b.t <= cut /\ cut <= r.t => PeriodStart(cut, tf) = b.t
  <2>1. TAKE r \in Sources(b, tf)
  <2>2. r \in m1_table /\ b.t = PeriodStart(r.t, tf) /\ r.t \in Int
    BY <1>2 DEF Sources
  <2>3. QED BY <1>1, <2>2, PeriodFacts
<1>5. CASE b \in LateBars(tf)
  <2>1. b.t < cut /\ \E r \in Sources(b, tf) : r \in test["M1"]
    BY <1>1, <1>5 DEF LateBars
  <2>2. PICK r \in Sources(b, tf) : r \in m1_table /\ ~(r.t <= cut)
    BY <1>1, <1>4, <2>1
  <2>3. r.t \in Int /\ b.t \in Int
    BY <1>2, <1>3, <2>2
  <2>4. b.t <= cut /\ cut <= r.t
    BY <1>1, <2>1, <2>2, <2>3
  <2>5. PeriodStart(cut, tf) = b.t
    BY <1>4, <2>4
  <2>6. b \notin EarlyBars(tf)
    BY <1>1, <1>5 DEF LateBars, EarlyBars
  <2>7. QED BY <1>3, <2>5, <2>6
<1>6. CASE b \in EarlyBars(tf)
  <2>1. ~(b.t < cut) /\ \E r \in Sources(b, tf) : r \in train["M1"]
    BY <1>1, <1>3, <1>6 DEF EarlyBars
  <2>2. \A r \in Sources(b, tf) : r \in train["M1"] => r = Last(train["M1"]) /\ b.t = cut
    <3>1. TAKE r \in Sources(b, tf)
    <3>2. HAVE r \in train["M1"]
    <3>3. r.t <= cut /\ r \in m1_table /\ b.t <= r.t /\ r.t \in Int /\ b.t \in Int
      BY <1>1, <1>2, <1>3, <1>4, <3>2
    <3>4. r.t = cut /\ b.t = cut
      BY <1>1, <2>1, <3>3
    <3>5. QED BY <1>1, <1>2, <3>3, <3>4
  <2>3. PICK r \in Sources(b, tf) : r \in train["M1"]
    BY <2>1
  <2>4. r = Last(train["M1"]) /\ b.t = cut /\ r.t = cut
    BY <1>1, <2>2, <2>3
  <2>5. PeriodStart(cut, tf) = b.t
    BY <1>4, <2>3, <2>4
  <2>6. Sources(b, tf) \cap train["M1"] = {Last(train["M1"])}
    BY <2>2, <2>3, <2>4
  <2>7. QED BY <1>3, <2>5, <2>6
<1>7. QED BY <1>5, <1>6

\* Halves are in order in every timeframe, and at most one bar of each is made of rows from
\* both sides of the cut (split_train_test).
THEOREM SharpCut == MarketSpec => []CutIsSharp
<1>1. ASSUME CutInv PROVE CutIsSharp
  <2>1. SUFFICES ASSUME stage = "done"
                 PROVE  /\ \A tf \in DOMAIN train : \A a \in train[tf], b \in test[tf] : a.t < b.t
                        /\ \A tf \in Timeframes :
                             /\ Cardinality(LateBars(tf) \cup EarlyBars(tf)) <= 1
                             /\ \A b \in EarlyBars(tf) :
                                  Sources(b, tf) \cap train["M1"] = {Last(train["M1"])}
    BY DEF CutIsSharp
  <2>2. /\ cut \in Int /\ train["M1"] \subseteq m1_table /\ test["M1"] = m1_table \ train["M1"]
        /\ \A r \in m1_table : r.t <= cut <=> r \in train["M1"]
        /\ \A tf \in Timeframes : /\ train[tf] = {b \in tables[tf] : b.t < cut}
                                  /\ test[tf] = tables[tf] \ train[tf]
    BY <1>1, <2>1, CutFacts
  <2>3. /\ DOMAIN train = AllTables /\ \A r \in m1_table : r.t \in Int
        /\ \A tf \in Timeframes : \A q, r \in tables[tf] : r.t \in Int /\ (q.t = r.t => q = r)
    BY <1>1 DEF CutInv, HalvesKnown, TablesKeyed, Keyed
  <2>4. ASSUME NEW tf \in DOMAIN train, NEW a \in train[tf], NEW b \in test[tf]
        PROVE  a.t < b.t
    <3>1. CASE tf = "M1"
      <4>1. a \in m1_table /\ b \in m1_table /\ a.t <= cut /\ ~(b.t <= cut)
        BY <2>2, <2>4, <3>1
      <4>2. QED BY <2>2, <2>3, <4>1
    <3>2. CASE tf \in Timeframes
      <4>1. a \in tables[tf] /\ b \in tables[tf] /\ a.t < cut /\ ~(b.t < cut)
        BY <2>2, <2>4, <3>2
      <4>2. QED BY <2>2, <2>3, <3>2, <4>1
    <3>3. QED BY <2>3, <3>1, <3>2 DEF AllTables
  <2>5. ASSUME NEW tf \in Timeframes
        PROVE  Cardinality(LateBars(tf) \cup EarlyBars(tf)) <= 1
    <3> DEFINE S == LateBars(tf) \cup EarlyBars(tf)
    <3>1. \A a, b \in S : a = b
      BY <1>1, <2>1, <2>3, OnTheCut
    <3> HIDE DEF S
    <3>2. CASE S = {}
      BY <3>2, FS_EmptySet DEF S
    <3>3. CASE S # {}
      <4>1. PICK a \in S : S = {a}
        BY <3>1, <3>3
      <4>2. Cardinality(S) = 1
        BY <4>1, FS_Singleton
      <4>3. QED BY <4>2 DEF S
    <3>4. QED BY <3>2, <3>3
  <2>6. \A tf \in Timeframes : \A b \in EarlyBars(tf) :
          Sources(b, tf) \cap train["M1"] = {Last(train["M1"])}
    BY <1>1, <2>1, OnTheCut
  <2>7. QED BY <2>4, <2>5, <2>6
<1>2. QED BY <1>1, CutInvHolds, PTL

LEMMA ImageFinite ==
  ASSUME NEW S, IsFiniteSet(S), NEW f
  PROVE  IsFiniteSet({f[x] : x \in S})
<1> DEFINE T == {f[x] : x \in S}
           g == [x \in S |-> f[x]]
<1>1. g \in [S -> T] /\ \A y \in T : \E x \in S : g[x] = y
  OBVIOUS
<1>2. g \in Surjection(S, T)
  BY <1>1 DEF Surjection
<1>3. QED BY <1>2, FS_Surjection

LEMMA PairsFinite ==
  ASSUME NEW S, NEW T, IsFiniteSet(S), IsFiniteSet(T), NEW P \in SUBSET (S \X T)
  PROVE  IsFiniteSet(P)
<1>1. IsFiniteSet(S \X T)
  BY FS_Product
<1>2. QED BY <1>1, FS_Subset

----------------------------------------------------------------------------
(* The quality checks.                                                     *)

IsFrame(R) == IsFiniteSet(R) /\ R # {} /\ \A r \in R : r.t \in Int

Span(R) == Max(Times(R)) - Min(Times(R))

LEMMA TimesFacts ==
  ASSUME NEW R, IsFrame(R)
  PROVE  /\ Times(R) \in SUBSET Int /\ Times(R) # {} /\ IsFiniteSet(Times(R))
         /\ \A a, b \in Times(R) : a < b => Span(R) > 0
         /\ Span(R) \in Nat
<1>1. Times(R) \in SUBSET Int /\ Times(R) # {} /\ IsFiniteSet(Times(R))
  BY TimesFinite DEF IsFrame, Times, TimesOf
<1>2. /\ Max(Times(R)) \in Times(R) /\ \A y \in Times(R) : y <= Max(Times(R))
      /\ Min(Times(R)) \in Times(R) /\ \A y \in Times(R) : Min(Times(R)) <= y
  BY <1>1, MaxFacts, MinFacts
<1>3. Max(Times(R)) \in Int /\ Min(Times(R)) \in Int /\ Min(Times(R)) <= Max(Times(R))
  BY <1>1, <1>2
<1>4. \A a, b \in Times(R) : a < b => Span(R) > 0
  <2>1. TAKE a, b \in Times(R)
  <2>2. a \in Int /\ b \in Int /\ Min(Times(R)) <= a /\ b <= Max(Times(R))
    BY <1>1, <1>2
  <2>3. QED BY <1>3, <2>2 DEF Span
<1>5. QED BY <1>1, <1>3, <1>4 DEF Span

Before(R, t) == {q \in R : q.t < t}

\* What the checks can read: a frame in which each gap has a label that is a position; the
\* times are distinct if duplicates were dropped.
Readable(D) ==
  /\ IsFrame(D.rows) /\ IsFiniteSet(D.dropped) /\ \A x \in D.dropped : x.t \in Int
  /\ D.dropped = {} \/ \A q, r \in D.rows : q.t = r.t => q = r
  /\ ~OutOfBounds(D)

LEMMA BeforeFacts ==
  ASSUME NEW R, IsFrame(R)
  PROVE  /\ \A t \in Int : /\ IsFiniteSet(Before(R, t)) /\ Before(R, t) \in SUBSET R
                           /\ Cardinality(Before(R, t)) \in Nat
         /\ \A t, u \in Int : t <= u => Cardinality(Before(R, t)) <= Cardinality(Before(R, u))
         /\ \A r \in R : \A u \in Int :
              r.t < u => Cardinality(Before(R, r.t)) < Cardinality(Before(R, u))
<1>1. ASSUME NEW t \in Int
      PROVE  /\ IsFiniteSet(Before(R, t)) /\ Before(R, t) \in SUBSET R
             /\ Cardinality(Before(R, t)) \in Nat
  <2>1. Before(R, t) \in SUBSET R
    BY DEF Before
  <2>2. IsFiniteSet(Before(R, t))
    BY <2>1, FS_Subset DEF IsFrame
  <2>3. QED BY <2>1, <2>2, FS_CardinalityType
<1>2. ASSUME NEW t \in Int, NEW u \in Int, t <= u
      PROVE  /\ Before(R, t) \in SUBSET Before(R, u)
             /\ Cardinality(Before(R, t)) <= Cardinality(Before(R, u))
  <2>1. Before(R, t) \in SUBSET Before(R, u)
    BY <1>2 DEF Before, IsFrame
  <2>2. QED BY <1>1, <2>1, FS_Subset
<1>3. ASSUME NEW r \in R, NEW u \in Int, r.t < u
      PROVE  Cardinality(Before(R, r.t)) < Cardinality(Before(R, u))
  <2>1. r.t \in Int /\ r.t <= u
    BY <1>3 DEF IsFrame
  <2>2. r \in Before(R, u) /\ r \notin Before(R, r.t)
    BY <1>3, <2>1 DEF Before
  <2>3. Before(R, r.t) # Before(R, u)
    BY <2>2
  <2>4. /\ Before(R, r.t) \in SUBSET Before(R, u)
        /\ Cardinality(Before(R, r.t)) <= Cardinality(Before(R, u))
    BY <1>2, <2>1
  <2>5. Cardinality(Before(R, u)) # Cardinality(Before(R, r.t))
    BY <1>1, <2>1, <2>3, <2>4, FS_Subset
  <2>6. Cardinality(Before(R, u)) \in Nat /\ Cardinality(Before(R, r.t)) \in Nat
    BY <1>1, <2>1
  <2>7. QED BY <2>4, <2>5, <2>6
<1>4. QED BY <1>1, <1>2, <1>3

\* The time at a position is the greatest with no more rows before it.
LEMMA TimeAtFacts ==
  ASSUME NEW R, IsFrame(R), NEW i \in Nat
  PROVE  /\ TimeAt(R, i) \in Times(R) /\ TimeAt(R, i) \in Int
         /\ Cardinality(Before(R, TimeAt(R, i))) <= i
         /\ \A t \in Times(R) : Cardinality(Before(R, t)) <= i => t <= TimeAt(R, i)
<1> DEFINE T == Times(R)
           S == {t \in T : Cardinality(Before(R, t)) <= i}
<1>1. T \in SUBSET Int /\ T # {} /\ IsFiniteSet(T)
  BY TimesFacts
<1>2. TimeAt(R, i) = Max(S)
  BY DEF TimeAt, Before
<1>3. Min(T) \in T /\ \A y \in T : Min(T) <= y
  BY <1>1, MinFacts
<1>4. Before(R, Min(T)) = {}
  <2>1. \A q \in R : q.t \in T
    BY DEF Times
  <2> HIDE DEF T
  <2>2. \A q \in R : Min(T) <= q.t /\ q.t \in Int /\ Min(T) \in Int
    BY <1>1, <1>3, <2>1
  <2>3. QED BY <2>2 DEF Before
<1>5. Min(T) \in S
  BY <1>3, <1>4, FS_EmptySet
<1>6. S \in SUBSET T /\ S # {}
  BY <1>5
<1> HIDE DEF T
<1>7. IsFiniteSet(S) /\ S \in SUBSET Int
  BY <1>1, <1>6, FS_Subset
<1>8. Max(S) \in S /\ \A y \in S : y <= Max(S)
  BY <1>6, <1>7, MaxFacts
<1>9. QED BY <1>1, <1>2, <1>8 DEF T

\* At its own position a row is found.
LEMMA OwnPosition ==
  ASSUME NEW R, IsFrame(R), NEW r \in R
  PROVE  TimeAt(R, Cardinality(Before(R, r.t))) = r.t
<1> DEFINE i == Cardinality(Before(R, r.t))
           t == TimeAt(R, i)
<1>1. r.t \in Int /\ r.t \in Times(R) /\ i \in Nat
  BY BeforeFacts DEF IsFrame, Times
<1>2. t \in Int /\ Cardinality(Before(R, t)) <= i /\ r.t <= t
  BY <1>1, TimeAtFacts
<1>3. r.t < t => i < Cardinality(Before(R, t))
  BY <1>2, BeforeFacts
<1>4. Cardinality(Before(R, t)) \in Nat
  BY <1>2, BeforeFacts
<1> HIDE DEF i, t
<1>5. t = r.t
  BY <1>1, <1>2, <1>3, <1>4
<1>6. QED BY <1>5 DEF i, t

\* Two positions that follow each other have different times, if the times are distinct; so
\* has the first position of a time, and the one before it.
LEMMA Successive ==
  ASSUME NEW R, IsFrame(R), NEW i \in Nat, i >= 1,
         \/ i < Cardinality(R) /\ \A q, r \in R : q.t = r.t => q = r
         \/ \E r \in R : i = Cardinality(Before(R, r.t))
  PROVE  /\ TimeAt(R, i - 1) \in Times(R) /\ TimeAt(R, i) \in Times(R)
         /\ TimeAt(R, i - 1) < TimeAt(R, i)
<1> DEFINE m == TimeAt(R, i - 1)
           u == TimeAt(R, i)
<1>1. i - 1 \in Nat
  OBVIOUS
<1>2. /\ m \in Times(R) /\ m \in Int /\ Cardinality(Before(R, m)) <= i - 1
      /\ u \in Times(R) /\ u \in Int
      /\ \A t \in Times(R) : Cardinality(Before(R, t)) <= i => t <= u
  BY <1>1, TimeAtFacts
<1> HIDE DEF m, u
<1>3. CASE i < Cardinality(R) /\ \A q, r \in R : q.t = r.t => q = r
  <2>1. PICK row \in R : row.t = m
    BY <1>2 DEF Times
  <2> DEFINE B == Before(R, m)
             A == B \cup {row}
  <2>2. IsFiniteSet(B) /\ B \in SUBSET R /\ Cardinality(B) \in Nat /\ row \notin B
    <3>1. IsFiniteSet(B) /\ B \in SUBSET R /\ Cardinality(B) \in Nat
      BY <1>2, BeforeFacts
    <3>2. row \notin B
      BY <1>2, <2>1 DEF Before
    <3>3. QED BY <3>1, <3>2
  <2>3. \A q \in R : q.t <= m => q \in A
    BY <1>2, <1>3, <2>1 DEF Before, IsFrame
  <2> HIDE DEF B
  <2>4. IsFiniteSet(A) /\ Cardinality(A) = Cardinality(B) + 1
    BY <2>2, FS_AddElement
  <2>5. Cardinality(A) <= i
    BY <1>2, <2>2, <2>4 DEF B
  <2>6. A # R
    BY <1>3, <2>2, <2>4, <2>5
  <2>7. R \ A # {} /\ R \ A \in SUBSET R
    BY <2>2, <2>6
  <2> DEFINE L == R \ A
  <2> HIDE DEF A
  <2>8. IsFrame(L)
    BY <2>7, FS_Subset DEF IsFrame
  <2>9. Times(L) \in SUBSET Int /\ Times(L) # {} /\ IsFiniteSet(Times(L))
    BY <2>8, TimesFacts
  <2>10. Min(Times(L)) \in Times(L) /\ \A y \in Times(L) : Min(Times(L)) <= y
    BY <2>9, MinFacts
  <2>11. PICK next \in L : next.t = Min(Times(L))
    BY <2>10 DEF Times
  <2>12. next \in R /\ next.t \in Int /\ next.t \in Times(R) /\ m < next.t
    <3>1. next \in R /\ next \notin A /\ next.t \in Int
      BY <2>11 DEF IsFrame
    <3>2. ~(next.t <= m)
      BY <2>3, <3>1
    <3>3. QED BY <1>2, <3>1, <3>2 DEF Times
  <2>13. Before(R, next.t) \in SUBSET A
    <3>1. SUFFICES ASSUME NEW q \in R, q.t < next.t, q \notin A PROVE FALSE
      BY DEF Before
    <3>2. q.t \in Times(L) /\ q.t \in Int
      BY <3>1 DEF Times, IsFrame
    <3>3. next.t <= q.t
      BY <2>10, <2>11, <3>2
    <3>4. QED BY <2>12, <3>1, <3>2, <3>3
  <2>14. Cardinality(Before(R, next.t)) <= Cardinality(A)
    BY <2>4, <2>13, FS_Subset
  <2>15. Cardinality(Before(R, next.t)) \in Nat /\ Cardinality(A) \in Nat
    BY <2>2, <2>4, <2>12, BeforeFacts
  <2>16. next.t <= u
    BY <1>2, <2>5, <2>12, <2>14, <2>15
  <2>17. QED BY <1>2, <2>12, <2>16 DEF m, u
<1>4. CASE \E r \in R : i = Cardinality(Before(R, r.t))
  <2>1. PICK r \in R : i = Cardinality(Before(R, r.t))
    BY <1>4
  <2>2. r.t \in Int /\ r.t \in Times(R)
    BY DEF IsFrame, Times
  <2>3. u = r.t
    BY <2>1, OwnPosition DEF u
  <2>4. r.t <= m => i <= Cardinality(Before(R, m))
    BY <1>2, <2>1, <2>2, BeforeFacts
  <2>5. Cardinality(Before(R, m)) \in Nat
    BY <1>2, BeforeFacts
  <2>6. m < u
    BY <1>2, <2>2, <2>3, <2>4, <2>5
  <2>7. QED BY <1>2, <2>6 DEF m, u
<1>5. QED BY <1>3, <1>4

LEMMA LabelFacts ==
  ASSUME NEW D, Readable(D), NEW r \in D.rows
  PROVE  /\ Label(D, r) \in Nat /\ Label(D, r) >= Cardinality(Before(D.rows, r.t))
         /\ D.dropped = {} => Label(D, r) = Cardinality(Before(D.rows, r.t))
<1> DEFINE B == Before(D.rows, r.t)
           X == {x \in D.dropped : x.t < r.t}
<1>1. Label(D, r) = Cardinality(B) + Cardinality(X)
  BY DEF Label, Before
<1>2. r.t \in Int /\ IsFrame(D.rows)
  BY DEF Readable, IsFrame
<1>3. Cardinality(B) \in Nat
  BY <1>2, BeforeFacts
<1>4. X \in SUBSET D.dropped /\ IsFiniteSet(D.dropped)
  BY DEF Readable
<1>5. D.dropped = {} => X = {}
  OBVIOUS
<1> HIDE DEF B, X
<1>6. Cardinality(X) \in Nat
  BY <1>4, FS_Subset, FS_CardinalityType
<1>7. X = {} => Cardinality(X) = 0
  BY FS_EmptySet
<1>8. QED BY <1>1, <1>3, <1>5, <1>6, <1>7 DEF B

\* In a frame without holes a label leads to its row.
LEMMA LabelTime ==
  ASSUME NEW D, Readable(D), NEW r \in D.rows, D.dropped = {}
  PROVE  TimeOfLabel(D, r) = r.t
<1>1. Label(D, r) = Cardinality(Before(D.rows, r.t)) /\ IsFrame(D.rows)
  BY LabelFacts DEF Readable
<1>2. TimeAt(D.rows, Label(D, r)) = r.t
  BY <1>1, OwnPosition
<1>3. QED BY <1>2 DEF TimeOfLabel

GapAt(D, r) == [start |-> TimeAt(D.rows, Label(D, r) - 1), end |-> TimeAt(D.rows, Label(D, r))]
LEMMA GapFacts ==
  ASSUME NEW D, Readable(D)
  PROVE  /\ IsFiniteSet(TradingGaps(D))
         /\ \A g \in TradingGaps(D) : /\ g.start \in Times(D.rows) /\ g.end \in Times(D.rows)
                                      /\ g.start < g.end
<1> DEFINE R == D.rows
           P == BehindGaps(D)
           f == [r \in P |-> GapAt(D, r)]
<1>1. Gaps(D) = {f[r] : r \in P}
  BY Zenon DEF Gaps, GapAt
<1>2. \A r \in P : r \in R /\ \E q \in R : q.t < r.t
  BY DEF BehindGaps, Neighbours
<1>3. IsFrame(R)
  BY DEF Readable
<1>4. IsFiniteSet(P)
  <2>1. P \in SUBSET R
    BY <1>2
  <2>2. QED BY <1>3, <2>1, FS_Subset DEF IsFrame
<1>5. ASSUME NEW r \in P
      PROVE  f[r].start \in Times(R) /\ f[r].end \in Times(R) /\ f[r].start < f[r].end
  <2> DEFINE i == Label(D, r)
  <2>1. /\ i \in Nat /\ i >= Cardinality(Before(R, r.t))
        /\ D.dropped = {} => i = Cardinality(Before(R, r.t))
    BY <1>2, LabelFacts
  <2>2. i < Cardinality(R)
    <3>1. ~(i >= Cardinality(R)) /\ Cardinality(R) \in Nat
      BY <1>3, FS_CardinalityType DEF Readable, OutOfBounds, IsFrame
    <3>2. QED BY <2>1, <3>1
  <2>3. Cardinality(Before(R, r.t)) >= 1
    <3>1. PICK q \in R : q.t < r.t
      BY <1>2
    <3>2. r.t \in Int /\ q.t \in Int
      BY <1>2, <1>3 DEF IsFrame
    <3>3. Cardinality(Before(R, q.t)) < Cardinality(Before(R, r.t))
      BY <1>3, <3>1, <3>2, BeforeFacts
    <3>4. Cardinality(Before(R, q.t)) \in Nat /\ Cardinality(Before(R, r.t)) \in Nat
      BY <1>3, <3>2, BeforeFacts
    <3>5. QED BY <3>3, <3>4
  <2>4. i >= 1
    <3>1. Cardinality(Before(R, r.t)) \in Nat
      BY <1>2, <1>3, BeforeFacts DEF IsFrame
    <3>2. QED BY <2>1, <2>3, <3>1
  <2>5. f[r].start = TimeAt(R, i - 1) /\ f[r].end = TimeAt(R, i)
    BY DEF GapAt
  <2>6. D.dropped = {} \/ \A q, p \in R : q.t = p.t => q = p
    BY DEF Readable
  <2> HIDE DEF i, f, P
  <2>7. r \in R
    BY <1>2
  <2>8. \/ i < Cardinality(R) /\ \A q, p \in R : q.t = p.t => q = p
        \/ \E q \in R : i = Cardinality(Before(R, q.t))
    BY <2>1, <2>2, <2>6, <2>7
  <2>9. /\ TimeAt(R, i - 1) \in Times(R) /\ TimeAt(R, i) \in Times(R)
        /\ TimeAt(R, i - 1) < TimeAt(R, i)
    <3> HIDE DEF R
    <3>1. QED BY <1>3, <2>1, <2>4, <2>8, Successive
  <2>10. QED BY <2>5, <2>9
<1>6. IsFiniteSet(Gaps(D))
  <2> HIDE DEF P, f
  <2>1. QED BY <1>1, <1>4, ImageFinite
<1>7. \A g \in Gaps(D) : g.start \in Times(R) /\ g.end \in Times(R) /\ g.start < g.end
  <2> HIDE DEF P, f
  <2>1. QED BY <1>1, <1>5
<1>8. TradingGaps(D) \in SUBSET Gaps(D)
  BY DEF TradingGaps
<1>9. QED BY <1>6, <1>7, <1>8, FS_Subset

IssueOf(r, type) == [t |-> r.t, type |-> type]
LEMMA IssueFacts ==
  ASSUME NEW R, IsFrame(R)
  PROVE  /\ IsFiniteSet(Issues(R))
         /\ \A i \in Issues(R) : i.t \in Times(R)
<1> DEFINE A == {b \in R : b.bid <= 0}
           B == {b \in R : HasAsk(b) /\ b.ask <= b.bid}
           C == {y \in {b \in R : IsBar(b)} \X Prices : y[1][y[2]] <= 0}
           D == {y \in {b \in R : IsBar(b)} \X {"low", "open", "close"} : y[1].high < y[1][y[2]]}
           E == {y \in {b \in R : IsBar(b)} \X {"open", "close"} : y[1].low > y[1][y[2]]}
           a == [r \in A |-> IssueOf(r, <<"non_positive", "bid">>)]
           b == [r \in B |-> IssueOf(r, <<"inverted", "spread">>)]
           c == [x \in C |-> IssueOf(x[1], <<"non_positive", x[2]>>)]
           d == [x \in D |-> IssueOf(x[1], <<"high_lt", x[2]>>)]
           e == [x \in E |-> IssueOf(x[1], <<"low_gt", x[2]>>)]
<1>1. IntegrityIssues(R) = {a[r] : r \in A} \cup {b[r] : r \in B} \cup {c[x] : x \in C}
                             \cup {d[x] : x \in D} \cup {e[x] : x \in E}
  BY Zenon DEF IntegrityIssues, IssueOf
<1>2. /\ A \in SUBSET R /\ B \in SUBSET R
      /\ C \in SUBSET (R \X Prices) /\ D \in SUBSET (R \X {"low", "open", "close"})
      /\ E \in SUBSET (R \X {"open", "close"})
  OBVIOUS
<1>3. IsFiniteSet(Prices) /\ IsFiniteSet({"low", "open", "close"}) /\ IsFiniteSet({"open", "close"})
  <2>1. IsFiniteSet({"open"}) /\ {"open"} \cup {"close"} = {"open", "close"}
    BY FS_Singleton
  <2>2. IsFiniteSet({"open", "close"}) /\ {"open", "close"} \cup {"low"} = {"low", "open", "close"}
    BY <2>1, FS_AddElement
  <2>3. IsFiniteSet({"low", "open", "close"})
    BY <2>2, FS_AddElement
  <2>4. {"low", "open", "close"} \cup {"high"} = Prices
    BY DEF Prices
  <2>5. QED BY <2>2, <2>3, <2>4, FS_AddElement
<1>4. IsFiniteSet(A) /\ IsFiniteSet(B) /\ IsFiniteSet(C) /\ IsFiniteSet(D) /\ IsFiniteSet(E)
  <2> HIDE DEF A, B, C, D, E
  <2>1. IsFiniteSet(A) /\ IsFiniteSet(B)
    BY <1>2, FS_Subset DEF IsFrame
  <2>2. IsFiniteSet(C)
    BY <1>2, <1>3, PairsFinite DEF IsFrame
  <2>3. IsFiniteSet(D)
    BY <1>2, <1>3, PairsFinite DEF IsFrame
  <2>4. IsFiniteSet(E)
    BY <1>2, <1>3, PairsFinite DEF IsFrame
  <2>5. QED BY <2>1, <2>2, <2>3, <2>4
<1>5. IsFiniteSet(IntegrityIssues(R))
  <2> HIDE DEF A, B, C, D, E, a, b, c, d, e
  <2>1. IsFiniteSet({a[r] : r \in A}) /\ IsFiniteSet({b[r] : r \in B})
    BY <1>4, ImageFinite
  <2>2. IsFiniteSet({c[x] : x \in C}) /\ IsFiniteSet({d[x] : x \in D})
    BY <1>4, ImageFinite
  <2>3. IsFiniteSet({e[x] : x \in E})
    BY <1>4, ImageFinite
  <2> DEFINE P == {a[r] : r \in A}
             Q == {b[r] : r \in B}
             U == {c[x] : x \in C}
             V == {d[x] : x \in D}
             W == {e[x] : x \in E}
  <2> HIDE DEF P, Q, U, V, W
  <2>4. IsFiniteSet(P \cup Q)
    BY <2>1, FS_Union DEF P, Q
  <2>5. IsFiniteSet(P \cup Q \cup U)
    BY <2>2, <2>4, FS_Union DEF U
  <2>6. IsFiniteSet(P \cup Q \cup U \cup V)
    BY <2>2, <2>5, FS_Union DEF V
  <2>7. IsFiniteSet(P \cup Q \cup U \cup V \cup W)
    BY <2>3, <2>6, FS_Union DEF W
  <2>8. QED BY <1>1, <2>7 DEF P, Q, U, V, W
<1>6. \A i \in IntegrityIssues(R) : i.t \in Times(R)
  <2>1. \A r \in A : a[r].t \in Times(R)
    BY DEF IssueOf, Times
  <2>2. \A r \in B : b[r].t \in Times(R)
    BY DEF IssueOf, Times
  <2>3. \A r \in C : c[r].t \in Times(R)
    BY DEF IssueOf, Times
  <2>4. \A r \in D : d[r].t \in Times(R)
    BY DEF IssueOf, Times
  <2>5. \A r \in E : e[r].t \in Times(R)
    BY DEF IssueOf, Times
  <2> HIDE DEF A, B, C, D, E, a, b, c, d, e
  <2>6. QED BY <1>1, <2>1, <2>2, <2>3, <2>4, <2>5
<1>7. IsFiniteSet(SpreadOutliers(R)) /\ \A i \in SpreadOutliers(R) : i.t \in Times(R)
  <2> DEFINE Peers(r) == {q \in R : HasAsk(q) /\ BulkSession(q.t) = BulkSession(r.t)}
             O == {q \in R : /\ HasAsk(q) /\ TwiceMedian(Peers(q)) > 0
                             /\ 2 * Spread(q) > TwiceMedian(Peers(q)) * SpreadMultiplier}
             o == [r \in O |-> IssueOf(r, <<"outlier", "spread">>)]
  <2>1. SpreadOutliers(R) = {o[r] : r \in O}
    BY Zenon DEF SpreadOutliers, IssueOf
  <2>2. O \in SUBSET R
    OBVIOUS
  <2>3. \A r \in O : o[r].t \in Times(R)
    BY <2>2 DEF IssueOf, Times
  <2> HIDE DEF O, o
  <2>4. IsFiniteSet(O)
    BY <2>2, FS_Subset DEF IsFrame
  <2>5. IsFiniteSet({o[r] : r \in O})
    BY <2>4, ImageFinite
  <2>6. QED BY <2>1, <2>3, <2>5
<1>8. QED BY <1>5, <1>6, <1>7, FS_Union DEF Issues

RunOf(D, p) ==
  [first |-> p[1].t, bars |-> Cardinality(Between(D.rows, p[1], p[2])),
   start |-> TimeOfLabel(D, p[1]), end |-> TimeOfLabel(D, p[2])]
LEMMA RunFacts ==
  ASSUME NEW D, Readable(D), NEW mask \in SUBSET D.rows
  PROVE  /\ IsFiniteSet(Runs(D, mask))
         /\ \A run \in Runs(D, mask) : \E p \in mask \X mask : run = RunOf(D, p) /\ p[1].t <= p[2].t
<1> DEFINE P == {q \in mask \X mask :
                   /\ q[1].t <= q[2].t /\ Between(D.rows, q[1], q[2]) \subseteq mask
                   /\ \A n \in Neighbours(D.rows) : /\ n[2] = q[1] => n[1] \notin mask
                                                    /\ n[1] = q[2] => n[2] \notin mask
                   /\ Cardinality(Between(D.rows, q[1], q[2])) > StaleConsecutive}
           f == [p \in P |-> RunOf(D, p)]
<1>1. Runs(D, mask) = {f[p] : p \in P}
  <2>1. Runs(D, mask) = {RunOf(D, p) : p \in P}
    BY Zenon DEF Runs, RunOf
  <2>2. \A p \in P : f[p] = RunOf(D, p)
    OBVIOUS
  <2> HIDE DEF P, f
  <2>3. QED BY <2>1, <2>2
<1>2. P \in SUBSET (mask \X mask) /\ IsFiniteSet(mask)
  BY FS_Subset DEF Readable, IsFrame
<1>3. \A p \in P : f[p] = RunOf(D, p) /\ p \in mask \X mask /\ p[1].t <= p[2].t
  OBVIOUS
<1> HIDE DEF P, f
<1>4. IsFiniteSet(P)
  BY <1>2, PairsFinite
<1>5. QED BY <1>1, <1>3, <1>4, ImageFinite

LEMMA StaleFacts ==
  ASSUME NEW D, Readable(D)
  PROVE  /\ IsFiniteSet(StaleRecords(D))
         /\ \A s \in StaleRecords(D) :
              /\ s[1] \in {"zero_spread", "frozen_price"}
              /\ \E p \in D.rows \X D.rows : s[2] = RunOf(D, p) /\ p[1].t <= p[2].t
<1> DEFINE Z == Runs(D, {r \in D.rows : HasAsk(r) /\ r.bid = r.ask})
           F == Runs(D, {r \in D.rows : IsBar(r) /\ r.open = r.high /\ r.high = r.low /\ r.low = r.close})
           z == [run \in Z |-> <<"zero_spread", run>>]
           f == [run \in F |-> <<"frozen_price", run>>]
<1>1. StaleRecords(D) = {z[run] : run \in Z} \cup {f[run] : run \in F}
  BY Zenon DEF StaleRecords
<1>2. /\ IsFiniteSet(Z) /\ IsFiniteSet(F)
      /\ \A run \in Z \cup F : \E p \in D.rows \X D.rows : run = RunOf(D, p) /\ p[1].t <= p[2].t
  <2> DEFINE zero == {r \in D.rows : HasAsk(r) /\ r.bid = r.ask}
             frozen == {r \in D.rows : IsBar(r) /\ r.open = r.high /\ r.high = r.low /\ r.low = r.close}
  <2>1. zero \in SUBSET D.rows /\ frozen \in SUBSET D.rows
    OBVIOUS
  <2> HIDE DEF zero, frozen
  <2>2. /\ IsFiniteSet(Runs(D, zero)) /\ IsFiniteSet(Runs(D, frozen))
        /\ \A run \in Runs(D, zero) : \E p \in D.rows \X D.rows : run = RunOf(D, p) /\ p[1].t <= p[2].t
        /\ \A run \in Runs(D, frozen) : \E p \in D.rows \X D.rows : run = RunOf(D, p) /\ p[1].t <= p[2].t
    BY <2>1, RunFacts
  <2>3. Z = Runs(D, zero) /\ F = Runs(D, frozen)
    BY DEF zero, frozen
  <2> HIDE DEF Z, F
  <2>4. QED BY <2>2, <2>3
<1>3. /\ \A run \in Z : z[run][1] = "zero_spread" /\ z[run][2] = run
      /\ \A run \in F : f[run][1] = "frozen_price" /\ f[run][2] = run
  OBVIOUS
<1> HIDE DEF Z, F, z, f
<1>4. IsFiniteSet({z[run] : run \in Z}) /\ IsFiniteSet({f[run] : run \in F})
  BY <1>2, ImageFinite
<1>5. IsFiniteSet(StaleRecords(D))
  BY <1>1, <1>4, FS_Union
<1>6. \A s \in StaleRecords(D) :
              /\ s[1] \in {"zero_spread", "frozen_price"}
              /\ \E p \in D.rows \X D.rows : s[2] = RunOf(D, p) /\ p[1].t <= p[2].t
  BY <1>1, <1>2, <1>3
<1>7. QED BY <1>5, <1>6

\* A run has a row at least: that it begins with.  In a frame without holes it is reported
\* from its first row to its last.
LEMMA RunBars ==
  ASSUME NEW D, Readable(D), NEW p \in D.rows \X D.rows, p[1].t <= p[2].t
  PROVE  /\ RunOf(D, p).bars \in Nat \ {0}
         /\ D.dropped = {} => RunOf(D, p).start = p[1].t /\ RunOf(D, p).end = p[2].t
<1> DEFINE R == D.rows
           I == Between(R, p[1], p[2])
<1>1. p[1] \in R /\ p[2] \in R /\ p[1].t \in Int /\ p[1].t <= p[1].t
  BY DEF Readable, IsFrame
<1>2. p[1] \in I /\ I \in SUBSET R
  BY <1>1 DEF Between
<1>3. RunOf(D, p).bars = Cardinality(I)
  BY DEF RunOf
<1>4. RunOf(D, p).start = TimeOfLabel(D, p[1]) /\ RunOf(D, p).end = TimeOfLabel(D, p[2])
  BY DEF RunOf
<1>5. D.dropped = {} => RunOf(D, p).start = p[1].t /\ RunOf(D, p).end = p[2].t
  BY <1>1, <1>4, LabelTime
<1> HIDE DEF I
<1>6. IsFiniteSet(I) /\ I # {}
  BY <1>2, FS_Subset DEF Readable, IsFrame
<1>7. Cardinality(I) \in Nat \ {0}
  BY <1>6, FS_CardinalityType, FS_EmptySet
<1>8. QED BY <1>3, <1>5, <1>7

\* Rounding up leaves something of something, and nothing of nothing.
LEMMA RoundedUp ==
  ASSUME NEW k \in Nat, NEW d \in Nat \ {0}
  PROVE  /\ (k + d - 1) \div d \in Nat
         /\ k >= 1 => (k + d - 1) \div d >= 1
         /\ k = 0 => (k + d - 1) \div d = 0
<1> DEFINE m == k + d - 1
           q == m \div d
           r == m % d
<1>1. m \in Nat
  OBVIOUS
<1> HIDE DEF m
<1>2. q \in Int /\ r \in 0 .. d - 1 /\ m = (d * q) + r
  BY <1>1
<1> HIDE DEF q, r
<1>3. q <= -1 => d * q <= 0 - d
  BY <1>2
<1>4. q <= 0 => d * q <= 0
  BY <1>2
<1>5. q >= 1 => d * q >= d
  BY <1>2
<1>6. d * q \in Int /\ r \in Int /\ 0 <= r /\ r <= d - 1
  BY <1>2
<1> DEFINE e == d * q
<1>7. /\ e \in Int /\ m = e + r /\ (q <= -1 => e <= 0 - d)
      /\ q <= 0 => e <= 0
      /\ q >= 1 => e >= d
  BY <1>2, <1>3, <1>4, <1>5, <1>6
<1> HIDE DEF e
<1>8. q >= 0
  BY <1>1, <1>2, <1>6, <1>7
<1>9. k >= 1 => q >= 1
  BY <1>2, <1>6, <1>7 DEF m
<1>10. k = 0 => q = 0
  BY <1>2, <1>6, <1>7, <1>8 DEF m
<1>11. QED BY <1>2, <1>8, <1>9, <1>10 DEF q, m

\* A penalty is a part of One, and is none when there is nothing to punish.
LEMMA PenaltyFacts ==
  ASSUME NEW n \in Nat, NEW d \in Nat
  PROVE  /\ Penalty(n, d) \in Nat
         /\ Penalty(n, d) > 0 <=> n > 0 /\ d > 0
<1>1. CASE d = 0
  BY <1>1 DEF Penalty
<1>2. CASE d # 0
  <2> DEFINE k == n * One
             q == (k + d - 1) \div d
             S == {One, q}
  <2>1. k \in Nat /\ (n > 0 => k >= 1) /\ (n = 0 => k = 0)
    BY DEF One
  <2>2. One \in Nat /\ One > 0
    BY DEF One
  <2>3. Penalty(n, d) = Min(S)
    BY <1>2 DEF Penalty
  <2> HIDE DEF k
  <2>4. q \in Nat /\ (k >= 1 => q >= 1) /\ (k = 0 => q = 0)
    BY <1>2, <2>1, RoundedUp
  <2> HIDE DEF q
  <2>5. IsFiniteSet(S)
    <3>1. IsFiniteSet({One}) /\ {One} \cup {q} = S
      BY FS_Singleton
    <3>2. QED BY <3>1, FS_AddElement
  <2>6. S \in SUBSET Int /\ S # {}
    BY <2>2, <2>4
  <2>7. Min(S) \in S /\ \A y \in S : Min(S) <= y
    BY <2>5, <2>6, MinFacts
  <2>8. (Min(S) = One \/ Min(S) = q) /\ Min(S) <= q /\ Min(S) <= One
    BY <2>7
  <2> HIDE DEF S
  <2>9. QED BY <1>2, <2>1, <2>2, <2>3, <2>4, <2>8
<1>3. QED BY <1>1, <1>2

Gapped(D) == SumFunction([g \in TradingGaps(D) |-> g.end - g.start])
Stale(D) == SumFunction([s \in StaleRecords(D) |-> s[2].bars])
\* What is punished is what there is.
LEMMA GappedFacts ==
  ASSUME NEW D, Readable(D)
  PROVE  /\ Gapped(D) \in Nat /\ (Gapped(D) > 0 <=> TradingGaps(D) # {})
         /\ TradingGaps(D) # {} => Span(D.rows) > 0
<1> DEFINE T == TradingGaps(D)
           w == [g \in T |-> g.end - g.start]
<1>1. /\ IsFiniteSet(T)
      /\ \A g \in T : g.start \in Times(D.rows) /\ g.end \in Times(D.rows) /\ g.start < g.end
  BY GapFacts
<1>2. \A g \in T : g.start \in Int /\ g.end \in Int
  BY <1>1, TimesFacts DEF Readable
<1>3. \A g \in T : w[g] \in Nat /\ w[g] > 0
  BY <1>1, <1>2
<1>4. DOMAIN w = T /\ Gapped(D) = SumFunction(w)
  BY DEF Gapped
<1>5. T # {} => Span(D.rows) > 0
  BY <1>1, TimesFacts DEF Readable
<1> HIDE DEF T, w
<1>6. /\ SumFunction(w) \in Nat /\ \A g \in T : w[g] <= SumFunction(w)
      /\ T = {} => SumFunction(w) = 0
  BY <1>1, <1>3, <1>4, SumFacts
<1>7. T # {} => SumFunction(w) > 0
  BY <1>3, <1>6
<1>8. QED BY <1>4, <1>5, <1>6, <1>7 DEF T

LEMMA StaleSum ==
  ASSUME NEW D, Readable(D)
  PROVE  Stale(D) \in Nat /\ (Stale(D) > 0 <=> StaleRecords(D) # {})
<1> DEFINE T == StaleRecords(D)
           w == [s \in T |-> s[2].bars]
<1>1. IsFiniteSet(T)
  BY StaleFacts
<1>2. \A s \in T : w[s] \in Nat /\ w[s] > 0
  <2>1. TAKE s \in T
  <2>2. PICK p \in D.rows \X D.rows : s[2] = RunOf(D, p) /\ p[1].t <= p[2].t
    BY StaleFacts
  <2>3. RunOf(D, p).bars \in Nat \ {0}
    BY <2>2, RunBars
  <2>4. w[s] = RunOf(D, p).bars
    BY <2>2
  <2>5. QED BY <2>3, <2>4
<1>3. DOMAIN w = T /\ Stale(D) = SumFunction(w)
  BY DEF Stale
<1> HIDE DEF T, w
<1>4. /\ SumFunction(w) \in Nat /\ \A s \in T : w[s] <= SumFunction(w)
      /\ T = {} => SumFunction(w) = 0
  BY <1>1, <1>2, <1>3, SumFacts
<1>5. T # {} => SumFunction(w) > 0
  BY <1>2, <1>4
<1>6. QED BY <1>3, <1>4, <1>5 DEF T

\* The score is less than One exactly if there is something to punish.
LEMMA ScoreFacts ==
  ASSUME NEW D, Readable(D)
  PROVE  /\ QualityScore(D) \in 0 .. One
         /\ QualityScore(D) < One
              <=> TradingGaps(D) # {} \/ Issues(D.rows) # {} \/ StaleRecords(D) # {}
<1> DEFINE n == Cardinality(D.rows)
           c == Cardinality(Issues(D.rows))
           a == Penalty(Gapped(D) * 14, Span(D.rows))
           b == Penalty(c * 100, n)
           d == Penalty(Stale(D) * 50, n)
<1>1. n \in Nat /\ n > 0
  BY FS_CardinalityType, FS_EmptySet DEF Readable, IsFrame
<1>2. c \in Nat /\ (c > 0 <=> Issues(D.rows) # {})
  BY IssueFacts, FS_CardinalityType, FS_EmptySet DEF Readable
<1>3. /\ Gapped(D) \in Nat /\ (Gapped(D) > 0 <=> TradingGaps(D) # {})
      /\ TradingGaps(D) # {} => Span(D.rows) > 0
      /\ Span(D.rows) \in Nat
      /\ Stale(D) \in Nat /\ (Stale(D) > 0 <=> StaleRecords(D) # {})
  BY GappedFacts, StaleSum, TimesFacts DEF Readable
<1>4. Penalties(D) = a + b + d
  BY DEF Penalties, Gapped, Stale, Span
<1>5. /\ Gapped(D) * 14 \in Nat /\ (Gapped(D) * 14 > 0 <=> Gapped(D) > 0)
      /\ Stale(D) * 50 \in Nat /\ (Stale(D) * 50 > 0 <=> Stale(D) > 0)
      /\ c * 100 \in Nat /\ (c * 100 > 0 <=> c > 0)
  <2> HIDE DEF c
  <2>1. QED BY <1>2, <1>3
<1> HIDE DEF n, c
<1>6. a \in Nat /\ (a > 0 <=> Gapped(D) * 14 > 0 /\ Span(D.rows) > 0)
  BY <1>3, <1>5, PenaltyFacts
<1>7. b \in Nat /\ (b > 0 <=> c * 100 > 0 /\ n > 0)
  BY <1>1, <1>5, PenaltyFacts
<1>8. d \in Nat /\ (d > 0 <=> Stale(D) * 50 > 0 /\ n > 0)
  BY <1>1, <1>5, PenaltyFacts
<1> HIDE DEF a, b, d
<1> DEFINE p == Penalties(D)
           S == {0, One - p}
<1>9. p \in Nat /\ (p > 0 <=> TradingGaps(D) # {} \/ Issues(D.rows) # {} \/ StaleRecords(D) # {})
  BY <1>1, <1>2, <1>3, <1>4, <1>5, <1>6, <1>7, <1>8
<1>10. QualityScore(D) = Max(S)
  BY DEF QualityScore
<1> HIDE DEF p
<1>11. S \in SUBSET Int /\ S # {} /\ One \in Nat /\ One > 0
  BY <1>9 DEF One
<1>12. IsFiniteSet(S)
  <2>1. IsFiniteSet({0}) /\ {0} \cup {One - p} = S
    BY FS_Singleton
  <2>2. QED BY <2>1, FS_AddElement
<1>13. Max(S) \in S /\ \A y \in S : y <= Max(S)
  BY <1>11, <1>12, MaxFacts
<1>14. /\ Max(S) = 0 \/ Max(S) = One - p
       /\ 0 <= Max(S) /\ One - p <= Max(S)
  BY <1>13
<1> HIDE DEF S
<1>15. QED BY <1>9, <1>10, <1>11, <1>14

LEMMA ImageSmaller ==
  ASSUME NEW S, IsFiniteSet(S), NEW f
  PROVE  Cardinality({f[x] : x \in S}) <= Cardinality(S)
<1> DEFINE T == {f[x] : x \in S}
           g == [x \in S |-> f[x]]
<1>1. g \in [S -> T] /\ \A y \in T : \E x \in S : g[x] = y
  OBVIOUS
<1>2. g \in Surjection(S, T)
  BY <1>1 DEF Surjection
<1>3. QED BY <1>2, FS_Surjection

TimesFunction(S) == [x \in S |-> x.t]
LEMMA TimesSmaller ==
  ASSUME NEW S, IsFiniteSet(S)
  PROVE  /\ IsFiniteSet(Times(S)) /\ Cardinality(Times(S)) <= Cardinality(S)
         /\ Cardinality(S) \in Nat
<1> DEFINE f == TimesFunction(S)
<1>1. Times(S) = {f[x] : x \in S}
  BY DEF Times, TimesFunction
<1> HIDE DEF f
<1>2. IsFiniteSet({f[x] : x \in S}) /\ Cardinality({f[x] : x \in S}) <= Cardinality(S)
  BY ImageFinite, ImageSmaller
<1>3. QED BY <1>1, <1>2, FS_CardinalityType

----------------------------------------------------------------------------
(* The periods of the report.                                              *)

\* The time of an error before which there was none for an hour, and the errors up to the
\* next one.
GroupStarts(R) ==
  {i.t : i \in {j \in Issues(R) :
                  ~\E k \in Issues(R) : k.t < j.t /\ j.t - k.t <= Period["H1"]}}
GroupOf(R, s) ==
  {i \in Issues(R) : i.t >= s /\ ~\E q \in GroupStarts(R) : s < q /\ q <= i.t}

GapPeriod(R, g) ==
  [reason |-> "gap", start |-> g.start, end |-> g.end,
   bars |-> Cardinality({t \in Times(R) : g.start <= t /\ t <= g.end})]
StalePeriod(s) == [reason |-> s[1], start |-> s[2].start, end |-> s[2].end, bars |-> s[2].bars]

LEMMA PeriodsNamed ==
  \A D : QuarantinedPeriods(D) =
           {GapPeriod(D.rows, g) : g \in TradingGaps(D)}
             \cup {StalePeriod(s) : s \in StaleRecords(D)}
             \cup {ErrorPeriod(s, GroupOf(D.rows, s)) : s \in GroupStarts(D.rows)}
BY Zenon DEF QuarantinedPeriods, ErrorPeriods, GapPeriod, StalePeriod, GroupOf, GroupStarts

LEMMA PeriodFields ==
  /\ \A R, g : /\ GapPeriod(R, g).reason = "gap" /\ GapPeriod(R, g).start = g.start
               /\ GapPeriod(R, g).end = g.end
               /\ GapPeriod(R, g).bars = Cardinality({t \in Times(R) : g.start <= t /\ t <= g.end})
  /\ \A s : /\ StalePeriod(s).reason = s[1] /\ StalePeriod(s).start = s[2].start
            /\ StalePeriod(s).end = s[2].end /\ StalePeriod(s).bars = s[2].bars
  /\ \A s, G : /\ ErrorPeriod(s, G).reason = "integrity_error" /\ ErrorPeriod(s, G).start = s
               /\ ErrorPeriod(s, G).end = Max(Times(G)) /\ ErrorPeriod(s, G).bars = Cardinality(G)
BY DEF GapPeriod, StalePeriod, ErrorPeriod

\* Every error belongs to a group: that of the greatest start up to it.
LEMMA InAGroup ==
  ASSUME NEW R, IsFrame(R), NEW i \in Issues(R)
  PROVE  \E s \in GroupStarts(R) : i \in GroupOf(R, s)
<1> DEFINE I == Issues(R)
           G == GroupStarts(R)
           S == {s \in G : s <= i.t}
<1>1. IsFiniteSet(I) /\ Times(I) \in SUBSET Int /\ I # {}
  BY IssueFacts, TimesFacts DEF Times
<1>2. IsFiniteSet(Times(I)) /\ Times(I) # {}
  BY <1>1, TimesSmaller DEF Times
<1>3. Min(Times(I)) \in Times(I) /\ \A y \in Times(I) : Min(Times(I)) <= y
  BY <1>1, <1>2, MinFacts
<1>4. PICK first \in I : first.t = Min(Times(I))
  BY <1>3 DEF Times
<1>5. \A k \in I : k.t \in Int /\ first.t <= k.t
  BY <1>1, <1>3, <1>4 DEF Times
<1>6. first.t \in G
  BY <1>5 DEF GroupStarts
<1>7. G \in SUBSET Times(I)
  BY DEF GroupStarts, Times
<1> HIDE DEF G
<1>8. S # {} /\ S \in SUBSET Int /\ IsFiniteSet(S)
  BY <1>1, <1>2, <1>5, <1>6, <1>7, FS_Subset
<1>9. Max(S) \in S /\ \A y \in S : y <= Max(S)
  BY <1>8, MaxFacts
<1>10. PICK s : s = Max(S)
  OBVIOUS
<1>11. s \in G /\ s <= i.t /\ s \in Int /\ \A y \in G : y <= i.t => y <= s
  BY <1>8, <1>9, <1>10
<1>12. \A y \in G : y \in Int
  BY <1>1, <1>7
<1>13. i \in I /\ i.t \in Int
  BY <1>5
<1>14. i.t >= s /\ ~\E q \in G : s < q /\ q <= i.t
  BY <1>11, <1>12, <1>13
<1>15. QED BY <1>11, <1>13, <1>14 DEF GroupOf, G

LEMMA GroupFacts ==
  ASSUME NEW R, IsFrame(R), NEW s \in GroupStarts(R)
  PROVE  /\ IsFiniteSet(GroupOf(R, s))
         /\ \A i \in GroupOf(R, s) : s <= i.t /\ i.t <= Max(Times(GroupOf(R, s)))
<1> DEFINE G == GroupOf(R, s)
<1>1. G \in SUBSET Issues(R) /\ \A i \in G : i.t >= s
  BY DEF GroupOf
<1>2. IsFiniteSet(Issues(R)) /\ \A i \in Issues(R) : i.t \in Times(R) /\ i.t \in Int
  BY IssueFacts, TimesFacts
<1>3. s \in Int
  BY <1>2 DEF GroupStarts
<1> HIDE DEF G
<1>4. IsFiniteSet(G)
  BY <1>1, <1>2, FS_Subset
<1>5. ASSUME NEW i \in G PROVE s <= i.t /\ i.t <= Max(Times(G))
  <2>1. i.t \in Times(G) /\ Times(G) \in SUBSET Int
    BY <1>1, <1>2 DEF Times
  <2>2. IsFiniteSet(Times(G))
    BY <1>4, TimesSmaller
  <2>3. i.t <= Max(Times(G))
    <3> DEFINE T == Times(G)
    <3>1. T \in SUBSET Int /\ T # {} /\ IsFiniteSet(T) /\ i.t \in T
      BY <2>1, <2>2
    <3> HIDE DEF T
    <3>2. QED BY <3>1, MaxFacts DEF T
  <2>4. i.t >= s /\ i.t \in Int
    BY <1>1, <1>2
  <2>5. QED BY <1>3, <2>3, <2>4
<1>6. QED BY <1>4, <1>5 DEF G

\* What a period covers: in a frame without holes, no more rows than it counts.
Covered(R, p) ==
  IF p.reason = "integrity_error" THEN Times(GroupOf(R, p.start))
  ELSE {t \in Times(R) : p.start <= t /\ t <= p.end}

LEMMA CoveredIsCounted ==
  ASSUME NEW D, Readable(D), D.dropped = {}, NEW p \in QuarantinedPeriods(D)
  PROVE  /\ p.bars \in Nat
         /\ IsFiniteSet(Covered(D.rows, p)) /\ Cardinality(Covered(D.rows, p)) <= p.bars
<1>1. CASE \E g \in TradingGaps(D) : p = GapPeriod(D.rows, g)
  <2>1. PICK g \in TradingGaps(D) : p = GapPeriod(D.rows, g)
    BY <1>1
  <2> DEFINE C == {t \in Times(D.rows) : g.start <= t /\ t <= g.end}
  <2>2. p.bars = Cardinality(C) /\ Covered(D.rows, p) = C
    BY <2>1, PeriodFields DEF Covered
  <2>3. C \in SUBSET Times(D.rows)
    OBVIOUS
  <2> HIDE DEF C
  <2>4. IsFiniteSet(C)
    BY <2>3, TimesFacts, FS_Subset DEF Readable
  <2>5. Cardinality(C) \in Nat
    BY <2>4, FS_CardinalityType
  <2>6. QED BY <2>2, <2>4, <2>5
<1>2. CASE \E s \in StaleRecords(D) : p = StalePeriod(s)
  <2>1. PICK s \in StaleRecords(D) : p = StalePeriod(s)
    BY <1>2
  <2>2. PICK pair \in D.rows \X D.rows : s[2] = RunOf(D, pair) /\ pair[1].t <= pair[2].t
    BY StaleFacts
  <2> DEFINE I == Between(D.rows, pair[1], pair[2])
             C == {t \in Times(D.rows) : p.start <= t /\ t <= p.end}
  <2>3. /\ p.reason # "integrity_error" /\ p.bars = Cardinality(I)
        /\ p.start = pair[1].t /\ p.end = pair[2].t
    <3>1. /\ p.reason = s[1] /\ p.start = s[2].start /\ p.end = s[2].end /\ p.bars = s[2].bars
          /\ s[1] # "integrity_error"
      BY <2>1, PeriodFields, StaleFacts
    <3>2. s[2].start = pair[1].t /\ s[2].end = pair[2].t
      BY <2>2, RunBars
    <3>3. s[2].bars = Cardinality(I)
      BY <2>2 DEF RunOf
    <3>4. QED BY <3>1, <3>2, <3>3
  <2>4. Covered(D.rows, p) = C
    BY <2>3 DEF Covered
  <2>5. C = Times(I) /\ I \in SUBSET D.rows
    BY <2>3 DEF Times, Between
  <2> HIDE DEF I, C
  <2>6. IsFiniteSet(I)
    BY <2>5, FS_Subset DEF Readable, IsFrame
  <2>7. QED BY <2>3, <2>4, <2>5, <2>6, TimesSmaller
<1>3. CASE \E s \in GroupStarts(D.rows) : p = ErrorPeriod(s, GroupOf(D.rows, s))
  <2>1. PICK s \in GroupStarts(D.rows) : p = ErrorPeriod(s, GroupOf(D.rows, s))
    BY <1>3
  <2>2. p.bars = Cardinality(GroupOf(D.rows, s)) /\ Covered(D.rows, p) = Times(GroupOf(D.rows, s))
    BY <2>1, PeriodFields DEF Covered
  <2>3. QED BY <2>2, GroupFacts, TimesSmaller DEF Readable
<1>4. QED BY <1>1, <1>2, <1>3, PeriodsNamed

LEMMA PeriodsFinite ==
  ASSUME NEW D, Readable(D)
  PROVE  IsFiniteSet(QuarantinedPeriods(D))
<1> DEFINE A == TradingGaps(D)
           B == StaleRecords(D)
           C == GroupStarts(D.rows)
           f == [g \in A |-> GapPeriod(D.rows, g)]
           g == [s \in B |-> StalePeriod(s)]
           h == [s \in C |-> ErrorPeriod(s, GroupOf(D.rows, s))]
<1>1. IsFiniteSet(A) /\ IsFiniteSet(B)
  BY GapFacts, StaleFacts
<1>2. C \in SUBSET Times(D.rows)
  BY IssueFacts DEF GroupStarts, Readable
<1>3. IsFiniteSet(C)
  <2> HIDE DEF C
  <2>1. QED BY <1>2, TimesFacts, FS_Subset DEF Readable
<1>4. QuarantinedPeriods(D) = {f[x] : x \in A} \cup {g[x] : x \in B} \cup {h[x] : x \in C}
  BY PeriodsNamed, Zenon
<1> HIDE DEF A, B, C, f, g, h
<1>5. /\ IsFiniteSet({f[x] : x \in A}) /\ IsFiniteSet({g[x] : x \in B})
      /\ IsFiniteSet({h[x] : x \in C})
  BY <1>1, <1>3, ImageFinite
<1> DEFINE X == {f[x] : x \in A}
           Y == {g[x] : x \in B}
           Z == {h[x] : x \in C}
<1>6. IsFiniteSet(X) /\ IsFiniteSet(Y) /\ IsFiniteSet(Z) /\ QuarantinedPeriods(D) = (X \cup Y) \cup Z
  BY <1>4, <1>5
<1> HIDE DEF X, Y, Z
<1>7. IsFiniteSet(X \cup Y)
  BY <1>6, FS_Union
<1>8. QED BY <1>6, <1>7, FS_Union

\* Every row set aside is in what some period covers, and between its ends.
LEMMA QuarantineIsCovered ==
  ASSUME NEW D, Readable(D), NEW t \in Quarantined(D)
  PROVE  \E p \in QuarantinedPeriods(D) : /\ p.start <= t /\ t <= p.end
                                          /\ t \in Covered(D.rows, p)
<1>1. t \in Times(D.rows)
  BY DEF Quarantined
<1>2. CASE \E g \in TradingGaps(D) : g.start <= t /\ t <= g.end
  <2>1. PICK g \in TradingGaps(D) : g.start <= t /\ t <= g.end
    BY <1>2
  <2> DEFINE p == GapPeriod(D.rows, g)
  <2>2. p \in QuarantinedPeriods(D)
    BY PeriodsNamed
  <2>3. p.reason = "gap" /\ p.start = g.start /\ p.end = g.end
    BY PeriodFields
  <2> HIDE DEF p
  <2>4. t \in Covered(D.rows, p)
    BY <1>1, <2>1, <2>3 DEF Covered
  <2>5. QED BY <2>1, <2>2, <2>3, <2>4
<1>3. CASE \E s \in StaleRecords(D) : s[2].start <= t /\ t <= s[2].end
  <2>1. PICK s \in StaleRecords(D) : s[2].start <= t /\ t <= s[2].end
    BY <1>3
  <2> DEFINE p == StalePeriod(s)
  <2>2. p \in QuarantinedPeriods(D)
    BY PeriodsNamed
  <2>3. p.reason # "integrity_error" /\ p.start = s[2].start /\ p.end = s[2].end
    BY PeriodFields, StaleFacts
  <2> HIDE DEF p
  <2>4. t \in Covered(D.rows, p)
    BY <1>1, <2>1, <2>3 DEF Covered
  <2>5. QED BY <2>1, <2>2, <2>3, <2>4
<1>4. CASE \E i \in Issues(D.rows) : i.t = t
  <2>1. PICK i \in Issues(D.rows) : i.t = t
    BY <1>4
  <2>2. PICK s \in GroupStarts(D.rows) : i \in GroupOf(D.rows, s)
    BY InAGroup DEF Readable
  <2> DEFINE p == ErrorPeriod(s, GroupOf(D.rows, s))
  <2>3. p \in QuarantinedPeriods(D)
    BY PeriodsNamed
  <2>4. /\ p.reason = "integrity_error" /\ p.start = s
        /\ p.end = Max(Times(GroupOf(D.rows, s)))
    BY PeriodFields
  <2> HIDE DEF p
  <2>5. t \in Covered(D.rows, p)
    BY <2>1, <2>2, <2>4 DEF Covered, Times
  <2>6. QED BY <2>1, <2>2, <2>3, <2>4, <2>5, GroupFacts DEF Readable
<1>5. QED BY <1>2, <1>3, <1>4 DEF Quarantined

\* In a frame without holes the periods count no fewer rows than are set aside.
LEMMA PeriodsCount ==
  ASSUME NEW D, Readable(D), D.dropped = {}
  PROVE  Cardinality(Quarantined(D)) <= SumFunction([p \in QuarantinedPeriods(D) |-> p.bars])
<1> DEFINE P == QuarantinedPeriods(D)
           w == [p \in P |-> p.bars]
           C == [p \in P |-> Covered(D.rows, p)]
           U == UNION {C[p] : p \in DOMAIN w}
<1>1. IsFiniteSet(DOMAIN w)
  BY PeriodsFinite
<1>2. \A p \in DOMAIN w : /\ w[p] \in Nat
                          /\ IsFiniteSet(C[p]) /\ Cardinality(C[p]) <= w[p]
  BY CoveredIsCounted
<1>3. Quarantined(D) \in SUBSET U
  BY QuarantineIsCovered
<1> HIDE DEF P, C
<1>4. IsFiniteSet(U) /\ Cardinality(U) <= SumFunction(w) /\ SumFunction(w) \in Nat
  <2> HIDE DEF w
  <2>1. QED BY <1>1, <1>2, UnionBound, SumFacts
<1> HIDE DEF U, w
<1>5. /\ Cardinality(Quarantined(D)) <= Cardinality(U)
      /\ Cardinality(Quarantined(D)) \in Nat /\ Cardinality(U) \in Nat
  BY <1>3, <1>4, FS_Subset, FS_CardinalityType
<1>6. Cardinality(Quarantined(D)) <= SumFunction(w)
  BY <1>4, <1>5
<1>7. QED BY <1>6 DEF w, P

\* A row is set aside only if there is something to punish, and in a frame without holes
\* then too.
LEMMA SomethingQuarantined ==
  ASSUME NEW D, Readable(D)
  PROVE  /\ Quarantined(D) # {}
              => TradingGaps(D) # {} \/ Issues(D.rows) # {} \/ StaleRecords(D) # {}
         /\ /\ D.dropped = {}
            /\ TradingGaps(D) # {} \/ Issues(D.rows) # {} \/ StaleRecords(D) # {}
            => Quarantined(D) # {}
<1>1. ASSUME NEW g \in TradingGaps(D) PROVE Quarantined(D) # {}
  <2>1. g.start \in Times(D.rows) /\ g.end \in Times(D.rows) /\ g.start < g.end
    BY GapFacts
  <2>2. g.start \in Int /\ g.end \in Int
    BY <2>1, TimesFacts DEF Readable
  <2>3. g.start \in Quarantined(D)
    BY <2>1, <2>2 DEF Quarantined
  <2>4. QED BY <2>3
<1>2. ASSUME NEW i \in Issues(D.rows) PROVE Quarantined(D) # {}
  <2>1. i.t \in Times(D.rows)
    BY IssueFacts DEF Readable
  <2>2. QED BY <2>1 DEF Quarantined
<1>3. ASSUME D.dropped = {}, NEW s \in StaleRecords(D) PROVE Quarantined(D) # {}
  <2>1. PICK p \in D.rows \X D.rows : s[2] = RunOf(D, p) /\ p[1].t <= p[2].t
    BY StaleFacts
  <2>2. s[2].start = p[1].t /\ s[2].end = p[2].t
    BY <1>3, <2>1, RunBars
  <2>3. p[1].t \in Times(D.rows) /\ p[1].t \in Int
    BY DEF Times, Readable, IsFrame
  <2>4. s[2].start \in Times(D.rows) /\ s[2].start <= s[2].start /\ s[2].start <= s[2].end
    BY <2>1, <2>2, <2>3
  <2>5. s[2].start \in Quarantined(D)
    BY <2>4 DEF Quarantined
  <2>6. QED BY <2>5
<1>4. Quarantined(D) # {} => TradingGaps(D) # {} \/ Issues(D.rows) # {} \/ StaleRecords(D) # {}
  BY DEF Quarantined
<1>5. QED BY <1>1, <1>2, <1>3, <1>4

\* The rows in the period of a gap or of a stale run are set aside.
LEMMA PeriodsQuarantined ==
  ASSUME NEW D, NEW p \in QuarantinedPeriods(D), p.reason # "integrity_error",
         NEW t \in Times(D.rows), p.start <= t /\ t <= p.end
  PROVE  t \in Quarantined(D)
<1>1. CASE \E g \in TradingGaps(D) : p = GapPeriod(D.rows, g)
  <2>1. PICK g \in TradingGaps(D) : p = GapPeriod(D.rows, g)
    BY <1>1
  <2>2. g.start <= t /\ t <= g.end
    BY <2>1, PeriodFields
  <2>3. QED BY <2>2 DEF Quarantined
<1>2. CASE \E s \in StaleRecords(D) : p = StalePeriod(s)
  <2>1. PICK s \in StaleRecords(D) : p = StalePeriod(s)
    BY <1>2
  <2>2. s[2].start <= t /\ t <= s[2].end
    BY <2>1, PeriodFields
  <2>3. QED BY <2>2 DEF Quarantined
<1>3. QED BY <1>1, <1>2, PeriodFields, PeriodsNamed

----------------------------------------------------------------------------
(* The report on a frame is that of its checks.                            *)

ReportInv ==
  /\ download \in Downloads
  /\ Checked => /\ ~OutOfBounds(download)
                /\ flagged = Quarantined(download)
                /\ report.score = QualityScore(download)
                /\ report.periods = QuarantinedPeriods(download)

LEMMA DownloadReadable ==
  ASSUME NEW d \in Downloads, ~OutOfBounds(d)
  PROVE  Readable(d)
<1>1. /\ d.resolution \in {"M1", "tick"} /\ IsFiniteSet(d.rows) /\ d.rows # {}
      /\ \A r \in d.rows : r.t \in Int
      /\ d.resolution = "M1" => \A q, r \in d.rows : q.t = r.t => q = r
      /\ IsFiniteSet(d.dropped) /\ \A x \in d.dropped : x.t \in Times(d.rows)
      /\ d.resolution = "tick" => d.dropped = {}
  BY RowsAssumption
<1>2. \A x \in d.dropped : x.t \in Int
  BY <1>1 DEF Times
<1>3. QED BY <1>1, <1>2 DEF Readable, IsFrame

LEMMA ReportInvStep ==
  ASSUME ReportInv, [MarketNext]_market
  PROVE  ReportInv'
<1>1. CASE CheckQuality
  <2>1. /\ download' = download
        /\ \/ stage' = "failed"
           \/ /\ ~OutOfBounds(download)
              /\ flagged' = Quarantined(download)
              /\ report' = [score |-> QualityScore(download),
                            periods |-> QuarantinedPeriods(download)]
    BY <1>1 DEF CheckQuality
  <2>2. QED BY <2>1 DEF ReportInv, Checked
<1>2. CASE ConvertToArrow \/ ConvertTimeframes \/ Cut \/ SplitAtCut
  <2>1. UNCHANGED <<download, report, flagged>> /\ Checked
    BY <1>2 DEF ConvertToArrow, ConvertTimeframes, Cut, SplitAtCut, Checked
  <2>2. QED BY <2>1 DEF ReportInv
<1>3. CASE UNCHANGED market
  BY <1>3 DEF ReportInv, Checked, market
<1>4. QED BY <1>1, <1>2, <1>3 DEF MarketNext

LEMMA ReportInvHolds == MarketSpec => []ReportInv
<1>1. MarketInit => ReportInv
  BY DEF MarketInit, ReportInv, Checked
<1>2. QED BY <1>1, ReportInvStep, PTL DEF MarketSpec

\* The rows set aside and the periods of the report are the same, but for the spans between
\* errors, and the score falls with them, whatever the labels; in a frame without holes a
\* score below one means that rows are set aside, and the periods count no fewer (validate,
\* quality_checker.py).
THEOREM ReportIsComplete == MarketSpec => []ReportMatchesQuarantine
<1>1. ASSUME ReportInv PROVE ReportMatchesQuarantine
  <2> DEFINE D == download
  <2>1. SUFFICES ASSUME Checked
                 PROVE  /\ flagged # {} => report.score < One
                        /\ D.dropped = {} /\ report.score < One => flagged # {}
                        /\ \A t \in flagged : \E p \in report.periods : p.start <= t /\ t <= p.end
                        /\ \A p \in report.periods : p.reason # "integrity_error" =>
                             \A t \in Times(D.rows) : p.start <= t /\ t <= p.end => t \in flagged
                        /\ D.dropped = {} =>
                             Cardinality(flagged) <= SumFunction([p \in report.periods |-> p.bars])
    BY DEF ReportMatchesQuarantine, ScoreTellsQuarantine, ReportCoversQuarantine
  <2>2. /\ flagged = Quarantined(D) /\ report.score = QualityScore(D)
        /\ report.periods = QuarantinedPeriods(D)
    BY <1>1, <2>1 DEF ReportInv
  <2>3. Readable(D)
    BY <1>1, <2>1, DownloadReadable DEF ReportInv
  <2> HIDE DEF D
  <2>4. /\ Quarantined(D) # {} => QualityScore(D) < One
        /\ D.dropped = {} /\ QualityScore(D) < One => Quarantined(D) # {}
    BY <2>3, ScoreFacts, SomethingQuarantined
  <2>5. \A t \in Quarantined(D) :
          \E p \in QuarantinedPeriods(D) : p.start <= t /\ t <= p.end
    BY <2>3, QuarantineIsCovered
  <2>6. \A p \in QuarantinedPeriods(D) : p.reason # "integrity_error" =>
          \A t \in Times(D.rows) : p.start <= t /\ t <= p.end => t \in Quarantined(D)
    BY PeriodsQuarantined
  <2>7. D.dropped = {} =>
          Cardinality(Quarantined(D)) <= SumFunction([p \in QuarantinedPeriods(D) |-> p.bars])
    BY <2>3, PeriodsCount
  <2>8. QED BY <2>2, <2>4, <2>5, <2>6, <2>7
<1>2. QED BY <1>1, ReportInvHolds, PTL

\* Of the sessions that are in force, any order takes one.
LEMMA RankedFacts ==
  ASSUME NEW S, NEW order, DOMAIN order = 1 .. 5, \A i \in 1 .. 5 : order[i] \in Sessions
  PROVE  /\ Ranked(S, order) \in Sessions
         /\ \/ /\ Ranked(S, order) \in S
               /\ \E i \in DOMAIN order : Ranked(S, order) = order[i]
            \/ /\ Ranked(S, order) = "off_hours"
               /\ \A i \in DOMAIN order : order[i] \notin S
<1> DEFINE places == {i \in DOMAIN order : order[i] \in S}
<1>1. CASE places = {}
  <2>1. Ranked(S, order) = "off_hours"
    BY <1>1 DEF Ranked
  <2>2. \A i \in DOMAIN order : order[i] \notin S
    BY <1>1
  <2>3. "off_hours" \in Sessions
    BY DEF Sessions
  <2> DEFINE s == Ranked(S, order)
  <2> HIDE DEF s
  <2>4. s = "off_hours"
    BY <2>1 DEF s
  <2>5. s \in Sessions /\ (\A i \in DOMAIN order : order[i] \notin S)
    BY <2>2, <2>3, <2>4
  <2>6. QED BY <2>4, <2>5, Zenon DEF s
<1>2. CASE places # {}
  <2>1. places \in SUBSET (1 .. 5)
    OBVIOUS
  <2>2. IsFiniteSet(places) /\ places \in SUBSET Int
    <3> HIDE DEF places
    <3>1. IsFiniteSet(1 .. 5)
      <4>1. 1 \in Int /\ 5 \in Int
        OBVIOUS
      <4>2. QED BY <4>1, FS_Interval
    <3>2. IsFiniteSet(places)
      BY <2>1, <3>1, FS_Subset
    <3>3. QED BY <2>1, <3>2
  <2>3. Ranked(S, order) = order[Min(places)]
    BY <1>2 DEF Ranked
  <2>4. Min(places) \in places
    <3> HIDE DEF places
    <3>1. QED BY <1>2, <2>2, MinFacts
  <2>5. PICK i \in places : i = Min(places)
    BY <2>4
  <2>6. Ranked(S, order) = order[i] /\ i \in DOMAIN order /\ order[i] \in S
    BY <2>3, <2>5
  <2>7. order[i] \in Sessions
    BY <2>6
  <2>8. QED BY <2>6, <2>7
<1>3. QED BY <1>1, <1>2

BulkOrder == <<"london_ny_overlap", "off_hours", "new_york", "london", "asian">>
FirstOrder == <<"london_ny_overlap", "asian", "london", "new_york", "off_hours">>
LEMMA OrdersNamed ==
  /\ \A i \in 1 .. 5 : BulkOrder[i] \in Sessions /\ FirstOrder[i] \in Sessions
  /\ DOMAIN BulkOrder = 1 .. 5 /\ DOMAIN FirstOrder = 1 .. 5
  /\ \A t : BulkSession(t) = Ranked(InForce(t), BulkOrder)
            /\ FirstSession(t) = Ranked(InForce(t), FirstOrder)
<1>1. /\ DOMAIN BulkOrder = 1 .. 5 /\ DOMAIN FirstOrder = 1 .. 5
      /\ \A i \in 1 .. 5 : BulkOrder[i] \in Sessions /\ FirstOrder[i] \in Sessions
  BY DEF BulkOrder, FirstOrder, Sessions
<1>2. \A t : BulkSession(t) = Ranked(InForce(t), BulkOrder)
            /\ FirstSession(t) = Ranked(InForce(t), FirstOrder)
  BY Zenon DEF BulkOrder, FirstOrder, BulkSession, FirstSession
<1>3. QED BY <1>1, <1>2

LEMMA SessionsTyped ==
  \A t : BulkSession(t) \in Sessions /\ FirstSession(t) \in Sessions
BY OrdersNamed, RankedFacts

----------------------------------------------------------------------------
(* What a row that is not set aside is worth.                              *)

CleanQuote(r) == 0 < r.bid /\ (HasAsk(r) => r.bid < r.ask)
CleanPrices(r) ==
  /\ 0 < r.low /\ r.low <= r.high /\ r.low <= r.open /\ r.low <= r.close
  /\ r.open <= r.high /\ r.close <= r.high

LEMMA CleanRows ==
  ASSUME NEW R, NEW r \in R, \A i \in Issues(R) : i.t # r.t, r.t \in Int, r.bid \in Int, r.ask \in Int
  PROVE  /\ CleanQuote(r)
         /\ /\ IsBar(r)
            /\ r.open \in Int /\ r.high \in Int /\ r.low \in Int /\ r.close \in Int
            => CleanPrices(r)
<1> DEFINE bars == {b \in R : IsBar(b)}
           C == {y \in bars \X Prices : y[1][y[2]] <= 0}
           D == {y \in bars \X {"low", "open", "close"} : y[1].high < y[1][y[2]]}
           E == {y \in bars \X {"open", "close"} : y[1].low > y[1][y[2]]}
<1>1. IntegrityIssues(R) =
        {IssueOf(x, <<"non_positive", "bid">>) : x \in {b \in R : b.bid <= 0}}
          \cup {IssueOf(x, <<"inverted", "spread">>) : x \in {b \in R : HasAsk(b) /\ b.ask <= b.bid}}
          \cup {IssueOf(x[1], <<"non_positive", x[2]>>) : x \in C}
          \cup {IssueOf(x[1], <<"high_lt", x[2]>>) : x \in D}
          \cup {IssueOf(x[1], <<"low_gt", x[2]>>) : x \in E}
  BY Zenon DEF IntegrityIssues, IssueOf
<1>2. \A i \in IntegrityIssues(R) : i.t # r.t
  BY DEF Issues
<1>3. \A type : IssueOf(r, type).t = r.t
  BY DEF IssueOf
<1>4. ~(r.bid <= 0)
  <2>1. SUFFICES ASSUME r.bid <= 0 PROVE FALSE
    OBVIOUS
  <2>2. r \in {b \in R : b.bid <= 0}
    BY <2>1
  <2>3. IssueOf(r, <<"non_positive", "bid">>) \in IntegrityIssues(R)
    BY <1>1, <2>2, Zenon
  <2>4. QED BY <1>2, <1>3, <2>3
<1>5. ~(HasAsk(r) /\ r.ask <= r.bid)
  <2>1. SUFFICES ASSUME HasAsk(r), r.ask <= r.bid PROVE FALSE
    OBVIOUS
  <2>2. r \in {b \in R : HasAsk(b) /\ b.ask <= b.bid}
    BY <2>1
  <2>3. IssueOf(r, <<"inverted", "spread">>) \in IntegrityIssues(R)
    BY <1>1, <2>2, Zenon
  <2>4. QED BY <1>2, <1>3, <2>3
<1>6. ASSUME IsBar(r), r.open \in Int, r.high \in Int, r.low \in Int, r.close \in Int
      PROVE  CleanPrices(r)
  <2>1. r \in bars
    BY <1>6
  <2>2. ASSUME NEW y \in C \cup D \cup E, y[1] = r PROVE FALSE
    <3> HIDE DEF C, D, E
    <3>1. CASE y \in C
      <4>1. IssueOf(y[1], <<"non_positive", y[2]>>) \in IntegrityIssues(R)
        BY <1>1, <3>1, Zenon
      <4>2. QED BY <1>2, <1>3, <2>2, <4>1
    <3>2. CASE y \in D
      <4>1. IssueOf(y[1], <<"high_lt", y[2]>>) \in IntegrityIssues(R)
        BY <1>1, <3>2, Zenon
      <4>2. QED BY <1>2, <1>3, <2>2, <4>1
    <3>3. CASE y \in E
      <4>1. IssueOf(y[1], <<"low_gt", y[2]>>) \in IntegrityIssues(R)
        BY <1>1, <3>3, Zenon
      <4>2. QED BY <1>2, <1>3, <2>2, <4>1
    <3>4. QED BY <3>1, <3>2, <3>3
  <2>3. <<r, "low">> \notin C
    BY <2>2
  <2>4. <<r, "low">> \notin D /\ <<r, "open">> \notin D /\ <<r, "close">> \notin D
    BY <2>2
  <2>5. <<r, "open">> \notin E /\ <<r, "close">> \notin E
    BY <2>2
  <2>6. ~(r.low <= 0)
    BY <2>1, <2>3 DEF Prices
  <2>7. ~(r.high < r.low) /\ ~(r.high < r.open) /\ ~(r.high < r.close)
    BY <2>1, <2>4
  <2>8. ~(r.low > r.open) /\ ~(r.low > r.close)
    BY <2>1, <2>5
  <2>9. QED BY <1>6, <2>6, <2>7, <2>8 DEF CleanPrices
<1>7. QED BY <1>4, <1>5, <1>6 DEF CleanQuote

TypedBar(r) ==
  /\ r.t \in Int /\ r.open \in Int /\ r.high \in Int /\ r.low \in Int /\ r.close \in Int
  /\ r.bid \in Int /\ r.ask \in Int /\ r.session \in Sessions /\ r.quarantined \in BOOLEAN
Quoted(r) == HasAsk(r) => r.bid < r.ask
SoundM1(T) ==
  /\ Keyed(T)
  /\ \A r \in T : TypedBar(r) /\ (~r.quarantined => CleanPrices(r) /\ Quoted(r))

\* What the data pipeline is given: rows with prices, of bars or of ticks.
PricedBar(r) ==
  /\ IsBar(r) /\ r.t \in Int /\ r.bid \in Int /\ r.ask \in Int
  /\ r.open \in Int /\ r.high \in Int /\ r.low \in Int /\ r.close \in Int
LEMMA RowsPriced ==
  ASSUME NEW d \in Downloads
  PROVE  /\ IsFrame(d.rows)
         /\ d.resolution \in {"M1", "tick"}
         /\ \A r \in d.rows : r.t \in Int /\ r.bid \in Int /\ r.ask \in Int
         /\ d.resolution = "M1" => Keyed(d.rows) /\ \A r \in d.rows : PricedBar(r)
<1>1. /\ d.resolution \in {"M1", "tick"} /\ IsFiniteSet(d.rows) /\ d.rows # {}
      /\ \A r \in d.rows : r.t \in Int /\ r.bid \in Int /\ r.ask \in Int
      /\ d.resolution = "M1" =>
           /\ \A r \in d.rows : IsBar(r) /\ {r[p] : p \in Prices} \subseteq Int
           /\ \A q, r \in d.rows : q.t = r.t => q = r
  BY RowsAssumption
<1>2. \A r : {r[p] : p \in Prices} \subseteq Int =>
        r.open \in Int /\ r.high \in Int /\ r.low \in Int /\ r.close \in Int
  BY DEF Prices
<1>3. QED BY <1>1, <1>2 DEF IsFrame, Keyed, PricedBar

IssuesFlagged(R) == \A i \in Issues(R) : i.t \in flagged

LEMMA StampedSound ==
  ASSUME NEW R, Keyed(R), \A r \in R : PricedBar(r), IssuesFlagged(R)
  PROVE  SoundM1(Stamped(R)) /\ \A b \in Stamped(R) : b.session = BulkSession(b.t)
<1>1. Stamped(R) = {StampedBar(r) : r \in R}
  BY BarsNamed
<1>2. ASSUME NEW r \in R
      PROVE  /\ TypedBar(StampedBar(r)) /\ StampedBar(r).session = BulkSession(StampedBar(r).t)
             /\ ~StampedBar(r).quarantined => CleanPrices(StampedBar(r)) /\ Quoted(StampedBar(r))
  <2> DEFINE b == StampedBar(r)
  <2>1. /\ b.t = r.t /\ b.open = r.open /\ b.high = r.high /\ b.low = r.low /\ b.close = r.close
        /\ b.bid = r.bid /\ b.ask = r.ask /\ b.session = BulkSession(r.t)
        /\ b.quarantined = (r.t \in flagged)
    BY DEF StampedBar
  <2> HIDE DEF b
  <2>2. TypedBar(b)
    BY <2>1, SessionsTyped DEF PricedBar, TypedBar
  <2>3. r.t \notin flagged => CleanPrices(r) /\ CleanQuote(r)
    BY CleanRows DEF PricedBar, IssuesFlagged
  <2>4. ~b.quarantined => CleanPrices(b) /\ Quoted(b)
    BY <2>1, <2>3 DEF CleanPrices, CleanQuote, Quoted, HasAsk
  <2>5. QED BY <2>1, <2>2, <2>4 DEF b
<1>3. QED BY <1>1, <1>2, StampedKeyed DEF SoundM1

\* The mids of some ticks, the first and the last of them.
LEMMA MidsFacts ==
  ASSUME NEW S, IsFiniteSet(S), S # {},
         \A r \in S : r.t \in Int /\ r.bid \in Int /\ r.ask \in Int
  PROVE  /\ First(S) \in S /\ Last(S) \in S
         /\ MidsOf(S) \in SUBSET Int
         /\ Min(MidsOf(S)) \in MidsOf(S) /\ Max(MidsOf(S)) \in MidsOf(S)
         /\ \A r \in S : /\ Min(MidsOf(S)) <= r.bid + r.ask
                         /\ r.bid + r.ask <= Max(MidsOf(S))
<1>1. First(S) \in S /\ Last(S) \in S
  BY FirstFacts, LastFacts
<1> DEFINE f == [r \in S |-> r.bid + r.ask]
           M == MidsOf(S)
<1>2. M = {f[r] : r \in S} /\ M \in SUBSET Int /\ M # {}
  BY DEF MidsOf
<1>3. \A r \in S : r.bid + r.ask \in M
  BY DEF MidsOf
<1> HIDE DEF f, M
<1>4. IsFiniteSet(M)
  BY <1>2, ImageFinite
<1>5. /\ Min(M) \in M /\ Max(M) \in M /\ \A y \in M : Min(M) <= y /\ y <= Max(M)
  BY <1>2, <1>4, MinFacts, MaxFacts
<1>6. QED BY <1>1, <1>2, <1>3, <1>5 DEF M

LEMMA MinuteBarSound ==
  ASSUME NEW R, IsFrame(R), \A r \in R : r.bid \in Int /\ r.ask \in Int,
         IssuesFlagged(R), NEW m \in Int, NEW S, S \in SUBSET R, S # {}
  PROVE  /\ TypedBar(MinuteBar(m, S))
         /\ ~MinuteBar(m, S).quarantined
              => CleanPrices(MinuteBar(m, S)) /\ Quoted(MinuteBar(m, S))
<1> DEFINE b == MinuteBar(m, S)
<1>1. /\ b.t = m /\ b.open = First(S).bid + First(S).ask /\ b.high = Max(MidsOf(S))
      /\ b.low = Min(MidsOf(S)) /\ b.close = Last(S).bid + Last(S).ask
      /\ b.bid = Last(S).bid /\ b.ask = Last(S).ask /\ b.session = "off_hours"
      /\ b.quarantined = \E r \in S : r.t \in flagged
  BY DEF MinuteBar
<1> HIDE DEF b
<1>2. IsFiniteSet(S) /\ \A r \in S : r \in R /\ r.t \in Int /\ r.bid \in Int /\ r.ask \in Int
  BY FS_Subset DEF IsFrame
<1>3. /\ First(S) \in S /\ Last(S) \in S
      /\ MidsOf(S) \in SUBSET Int
      /\ Min(MidsOf(S)) \in MidsOf(S) /\ Max(MidsOf(S)) \in MidsOf(S)
      /\ \A r \in S : /\ Min(MidsOf(S)) <= r.bid + r.ask
                      /\ r.bid + r.ask <= Max(MidsOf(S))
  BY <1>2, MidsFacts
<1>4. TypedBar(b)
  <2>1. b.high \in Int /\ b.low \in Int
    BY <1>1, <1>3
  <2>2. PICK f \in S : f = First(S)
    BY <1>3
  <2>3. PICK l \in S : l = Last(S)
    BY <1>3
  <2>4. b.open \in Int /\ b.close \in Int /\ b.bid \in Int /\ b.ask \in Int
    BY <1>1, <1>2, <2>2, <2>3
  <2>5. b.quarantined \in BOOLEAN
    BY <1>1
  <2>6. b.t \in Int /\ b.session \in Sessions
    BY <1>1 DEF Sessions
  <2>7. QED BY <2>1, <2>4, <2>5, <2>6, Zenon DEF TypedBar
<1>5. ASSUME ~b.quarantined PROVE CleanPrices(b) /\ Quoted(b)
  <2>1. \A r \in S : \A i \in Issues(R) : i.t # r.t
    BY <1>1, <1>5 DEF IssuesFlagged
  <2>2. \A r \in S : CleanQuote(r)
    BY <1>2, <2>1, CleanRows
  <2>3. \A r \in S : 0 < r.bid + r.ask
    BY <1>2, <2>2 DEF CleanQuote, HasAsk, NoPrice
  <2>4. PICK z \in S : Min(MidsOf(S)) = z.bid + z.ask
    BY <1>3 DEF MidsOf
  <2>5. 0 < b.low
    BY <1>1, <2>3, <2>4
  <2>6. /\ b.low <= b.open /\ b.open <= b.high /\ b.low <= b.close /\ b.close <= b.high
    BY <1>1, <1>3
  <2>7. b.low <= b.high
    BY <1>4, <2>6 DEF TypedBar
  <2>8. Quoted(b)
    BY <1>1, <1>3, <2>2 DEF CleanQuote, Quoted, HasAsk
  <2>9. QED BY <2>5, <2>6, <2>7, <2>8 DEF CleanPrices
<1>6. QED BY <1>4, <1>5 DEF b

LEMMA AggregateSound ==
  ASSUME NEW R, IsFrame(R), \A r \in R : r.bid \in Int /\ r.ask \in Int,
         IssuesFlagged(R)
  PROVE  SoundM1(AggregateTicks(R))
<1> DEFINE M == {Floor(r.t, Minute, 0) : r \in R}
<1>1. AggregateTicks(R) = {MinuteBar(m, InMinute(R, m)) : m \in M}
  BY BarsNamed
<1>2. ASSUME NEW m \in M
      PROVE  m \in Int /\ InMinute(R, m) \in SUBSET R /\ InMinute(R, m) # {}
  <2>1. PICK r \in R : m = Floor(r.t, Minute, 0)
    OBVIOUS
  <2>2. r.t \in Int /\ Minute \in Nat \ {0} /\ 0 \in Int
    BY DEF IsFrame, Minute
  <2>3. m \in Int
    BY <2>1, <2>2, FloorFacts
  <2>4. QED BY <2>1, <2>3 DEF InMinute
<1> HIDE DEF M
<1>3. ASSUME NEW m \in M
      PROVE  LET b == MinuteBar(m, InMinute(R, m)) IN
             TypedBar(b) /\ (~b.quarantined => CleanPrices(b) /\ Quoted(b))
  <2>1. m \in Int /\ InMinute(R, m) \in SUBSET R /\ InMinute(R, m) # {}
    BY <1>2
  <2>2. QED BY <2>1, MinuteBarSound
<1>4. Keyed(AggregateTicks(R))
  BY AggregateKeyed DEF IsFrame
<1>5. QED BY <1>1, <1>3, <1>4 DEF SoundM1

----------------------------------------------------------------------------
(* The bars of higher timeframes.                                          *)

Alphabet == <<"asian", "london", "london_ny_overlap", "new_york", "off_hours">>
MinutesOf(p) == {p + Minute * m : m \in 0 .. Period["H1"] \div Minute - 1}
MinutesIn(p, s) == {t \in MinutesOf(p) : FirstSession(t) = s}
MostOf(p) ==
  {s \in {FirstSession(t) : t \in MinutesOf(p)} :
     \A t \in MinutesOf(p) :
       Cardinality(MinutesIn(p, FirstSession(t))) <= Cardinality(MinutesIn(p, s))}
StartingIn(p) ==
  {s \in MostOf(p) \cap DOMAIN Schedule :
     (p % Day) <= Schedule[s].start /\ Schedule[s].start < (p % Day) + Period["H1"]}
Earliest(p, S) == CHOOSE s \in S : \A q \in S : Min(MinutesIn(p, s)) <= Min(MinutesIn(p, q))

LEMMA H1Named ==
  \A p : H1Session(p) = IF Cardinality(MostOf(p)) > 1 /\ StartingIn(p) # {}
                        THEN Earliest(p, StartingIn(p)) ELSE Ranked(MostOf(p), Alphabet)
BY Zenon DEF H1Session, MinutesOf, MinutesIn, MostOf, StartingIn, Earliest, Alphabet

LEMMA H1SessionTyped ==
  ASSUME NEW p \in Int
  PROVE  H1Session(p) \in Sessions
<1> DEFINE M == MinutesOf(p)
           S == StartingIn(p)
<1>1. IsFiniteSet(M) /\ M \in SUBSET Int
  <2> DEFINE k == Period["H1"] \div Minute - 1
             f == [m \in 0 .. k |-> p + Minute * m]
  <2>1. k \in Int
    BY CalendarAssumption DEF Minute, Timeframes
  <2>2. M = {f[m] : m \in 0 .. k}
    BY Zenon DEF MinutesOf
  <2>3. \A m \in 0 .. k : f[m] \in Int
    <3> HIDE DEF k
    <3>1. \A m \in 0 .. k : m \in Int /\ f[m] = p + 2 * m
      BY <2>1 DEF Minute
    <3>2. QED BY <3>1
  <2> HIDE DEF k, f, M
  <2>4. IsFiniteSet(0 .. k)
    <3>1. 0 \in Int
      OBVIOUS
    <3>2. QED BY <2>1, <3>1, FS_Interval
  <2>5. QED BY <2>2, <2>3, <2>4, ImageFinite
<1>2. MostOf(p) \in SUBSET {FirstSession(t) : t \in M}
  BY DEF MostOf
<1>3. S \in SUBSET MostOf(p)
  BY DEF StartingIn
<1> HIDE DEF M, S
<1>4. ASSUME S # {} PROVE Earliest(p, S) \in Sessions
  <2> DEFINE h == [t \in M |-> FirstSession(t)]
             f == [s \in S |-> Min(MinutesIn(p, s))]
             V == {f[s] : s \in S}
  <2>1. S \in SUBSET {h[t] : t \in M}
    BY <1>2, <1>3
  <2>2. IsFiniteSet(S)
    <3> HIDE DEF h
    <3>1. IsFiniteSet({h[t] : t \in M})
      BY <1>1, ImageFinite
    <3>2. QED BY <2>1, <3>1, FS_Subset
  <2>3. ASSUME NEW s \in S PROVE f[s] \in Int
    <3> DEFINE N == MinutesIn(p, s)
    <3>1. PICK t \in M : s = FirstSession(t)
      BY <1>2, <1>3
    <3>2. N \in SUBSET M /\ t \in N
      BY <3>1 DEF MinutesIn, M
    <3> HIDE DEF N
    <3>3. IsFiniteSet(N) /\ N \in SUBSET Int /\ N # {}
      BY <1>1, <3>2, FS_Subset
    <3>4. Min(N) \in Int
      BY <3>3, MinFacts
    <3>5. QED BY <3>4 DEF N
  <2>4. \A s \in S : Min(MinutesIn(p, s)) = f[s]
    OBVIOUS
  <2> HIDE DEF f
  <2>5. IsFiniteSet(V) /\ V \in SUBSET Int /\ V # {}
    <3>1. IsFiniteSet(V)
      BY <2>2, ImageFinite
    <3>2. QED BY <1>4, <2>3, <3>1
  <2>6. Min(V) \in V /\ \A y \in V : Min(V) <= y
    <3> HIDE DEF V
    <3>1. QED BY <2>5, MinFacts
  <2>7. PICK s \in S : \A q \in S : f[s] <= f[q]
    BY <2>6
  <2>8. \E x \in S : \A q \in S : Min(MinutesIn(p, x)) <= Min(MinutesIn(p, q))
    BY <2>4, <2>7
  <2>9. Earliest(p, S) \in S
    BY <2>8 DEF Earliest
  <2>10. \A x \in S : x \in Sessions
    BY <1>2, <1>3, SessionsTyped
  <2>11. QED BY <2>9, <2>10
<1>5. Ranked(MostOf(p), Alphabet) \in Sessions
  <2>1. DOMAIN Alphabet = 1 .. 5 /\ \A i \in 1 .. 5 : Alphabet[i] \in Sessions
    BY DEF Alphabet, Sessions
  <2>2. QED BY <2>1, RankedFacts
<1>6. CASE Cardinality(MostOf(p)) > 1 /\ S # {}
  <2>1. H1Session(p) = Earliest(p, S)
    BY <1>6, H1Named DEF S
  <2>2. QED BY <1>4, <1>6, <2>1
<1>7. CASE ~(Cardinality(MostOf(p)) > 1 /\ S # {})
  <2>1. H1Session(p) = Ranked(MostOf(p), Alphabet)
    BY <1>7, H1Named DEF S
  <2>2. QED BY <1>5, <2>1
<1>8. QED BY <1>6, <1>7

\* The first and the last of some sound bars, the highest price and the lowest.
LEMMA ExtremesFacts ==
  ASSUME NEW S, IsFiniteSet(S), S # {},
         \A r \in S : r.t \in Int /\ r.high \in Int /\ r.low \in Int
  PROVE  /\ First(S) \in S /\ Last(S) \in S
         /\ \E r \in S : Min(Lows(S)) = r.low
         /\ \E r \in S : Max(Highs(S)) = r.high
         /\ \A r \in S : Min(Lows(S)) <= r.low /\ r.high <= Max(Highs(S))
<1>1. First(S) \in S /\ Last(S) \in S
  BY FirstFacts, LastFacts
<1> DEFINE f == [r \in S |-> r.low]
           g == [r \in S |-> r.high]
           L == Lows(S)
           H == Highs(S)
<1>2. /\ L = {f[r] : r \in S} /\ L \in SUBSET Int /\ L # {} /\ \A r \in S : r.low \in L
      /\ H = {g[r] : r \in S} /\ H \in SUBSET Int /\ H # {} /\ \A r \in S : r.high \in H
  BY DEF Lows, Highs
<1>3. IsFiniteSet(L) /\ IsFiniteSet(H)
  <2> HIDE DEF f, g, L, H
  <2>1. QED BY <1>2, ImageFinite
<1>4. Min(L) \in L /\ Max(H) \in H /\ (\A y \in L : Min(L) <= y) /\ (\A y \in H : y <= Max(H))
  <2> HIDE DEF f, g, L, H
  <2>1. QED BY <1>2, <1>3, MinFacts, MaxFacts
<1>5. (\E r \in S : Min(L) = r.low) /\ (\E r \in S : Max(H) = r.high)
  BY <1>4 DEF Lows, Highs
<1>6. \A r \in S : Min(L) <= r.low /\ r.high <= Max(H)
  <2> HIDE DEF f, g, L, H
  <2>1. QED BY <1>2, <1>4
<1>7. QED BY <1>1, <1>5, <1>6

SoundRows(S) ==
  /\ IsFiniteSet(S) /\ S # {}
  /\ \A r \in S : TypedBar(r) /\ CleanPrices(r) /\ Quoted(r)
HigherBars ==
  [t : Int, open : Int, high : Int, low : Int, close : Int, bid : Int, ask : Int,
   session : Sessions \cup {"mixed"}, quarantined : {FALSE}]

LEMMA PeriodBarSound ==
  ASSUME NEW tf \in Timeframes, NEW p \in Int, NEW S, SoundRows(S)
  PROVE  /\ PeriodBar(tf, p, S) \in HigherBars
         /\ CleanPrices(PeriodBar(tf, p, S)) /\ Quoted(PeriodBar(tf, p, S))
<1> DEFINE b == PeriodBar(tf, p, S)
<1>1. /\ b.t = p /\ b.open = First(S).open /\ b.high = Max(Highs(S)) /\ b.low = Min(Lows(S))
      /\ b.close = Last(S).close /\ b.bid = Last(S).bid /\ b.ask = Last(S).ask
  BY DEF PeriodBar
<1>2. /\ IsFiniteSet(S) /\ S # {}
      /\ \A r \in S : /\ r.t \in Int /\ r.open \in Int /\ r.high \in Int /\ r.low \in Int
                      /\ r.close \in Int /\ r.bid \in Int /\ r.ask \in Int /\ r.session \in Sessions
      /\ \A r \in S : /\ 0 < r.low /\ r.low <= r.high /\ r.low <= r.open /\ r.low <= r.close
                      /\ r.open <= r.high /\ r.close <= r.high /\ Quoted(r)
  BY DEF SoundRows, TypedBar, CleanPrices
<1>3. /\ First(S) \in S /\ Last(S) \in S
      /\ \E r \in S : Min(Lows(S)) = r.low
      /\ \E r \in S : Max(Highs(S)) = r.high
      /\ \A r \in S : Min(Lows(S)) <= r.low /\ r.high <= Max(Highs(S))
  BY <1>2, ExtremesFacts
<1>4. PICK first \in S : first = First(S)
  BY <1>3
<1>5. PICK last \in S : last = Last(S)
  BY <1>3
<1>6. PICK lowest \in S : Min(Lows(S)) = lowest.low
  BY <1>3
<1>7. PICK highest \in S : Max(Highs(S)) = highest.high
  BY <1>3
<1> DEFINE s == PeriodSession(tf, p, S)
<1>8. s \in Sessions \cup {"mixed"}
  <2>1. CASE tf = "H1"
    BY <2>1, H1SessionTyped DEF PeriodSession
  <2>2. CASE tf = "M5"
    BY <1>2, <1>4, <2>2 DEF PeriodSession
  <2>3. CASE tf \notin {"H1", "M5"}
    BY <2>3 DEF PeriodSession
  <2>4. QED BY <2>1, <2>2, <2>3
<1> DEFINE o == First(S).open
           h == Max(Highs(S))
           l == Min(Lows(S))
           c == Last(S).close
           x == Last(S).bid
           y == Last(S).ask
<1>9. o \in Int /\ h \in Int /\ l \in Int /\ c \in Int /\ x \in Int /\ y \in Int
  BY <1>2, <1>4, <1>5, <1>6, <1>7
<1>10. b = [t |-> p, open |-> o, high |-> h, low |-> l, close |-> c, bid |-> x, ask |-> y,
            session |-> s, quarantined |-> FALSE]
  BY Zenon DEF PeriodBar
<1>11. 0 < l /\ l <= o /\ l <= c /\ o <= h /\ c <= h
  BY <1>2, <1>3, <1>4, <1>5, <1>6, <1>7
<1>12. y # NoPrice => x < y
  BY <1>2, <1>5 DEF Quoted, HasAsk
<1> HIDE DEF b, s, o, h, l, c, x, y
<1>13. b \in HigherBars
  BY <1>8, <1>9, <1>10 DEF HigherBars
<1>14. CleanPrices(b) /\ Quoted(b)
  <2>1. b.open = o /\ b.high = h /\ b.low = l /\ b.close = c /\ b.bid = x /\ b.ask = y
    BY <1>1 DEF o, h, l, c, x, y
  <2>2. QED BY <1>9, <1>11, <1>12, <2>1 DEF CleanPrices, Quoted, HasAsk
<1>15. QED BY <1>13, <1>14 DEF b

LEMMA ConvertedSound ==
  ASSUME NEW R, SoundM1(R), NEW tf \in Timeframes
  PROVE  \A b \in Converted(R, tf) : b \in HigherBars /\ CleanPrices(b) /\ Quoted(b)
<1>1. Converted(R, tf)
        = {PeriodBar(tf, p, InPeriod(R, tf, p)) : p \in {PeriodStart(r.t, tf) : r \in Usable(R)}}
  BY BarsNamed
<1>2. ASSUME NEW r \in Usable(R)
      PROVE  PeriodStart(r.t, tf) \in Int /\ SoundRows(InPeriod(R, tf, PeriodStart(r.t, tf)))
  <2> DEFINE S == InPeriod(R, tf, PeriodStart(r.t, tf))
  <2>1. r \in S /\ S \in SUBSET R /\ \A q \in S : ~q.quarantined
    BY DEF InPeriod, Usable
  <2>2. r.t \in Int
    BY <2>1 DEF SoundM1, Keyed
  <2>3. IsFiniteSet(S)
    <3> HIDE DEF S
    <3>1. QED BY <2>1, FS_Subset DEF SoundM1, Keyed
  <2>4. QED BY <2>1, <2>2, <2>3, PeriodFacts DEF SoundM1, SoundRows
<1>3. QED BY <1>1, <1>2, PeriodBarSound

----------------------------------------------------------------------------
(* Timeframes made of one another.                                         *)

\* Periods of a timeframe begin where periods of the one below begin.
NestedIn(lo, hi) ==
  /\ Period[hi] % Period[lo] = 0
  /\ (OffsetOf(hi) - OffsetOf(lo)) % Period[lo] = 0
PeriodsNest == NestedIn("M5", "H1") /\ NestedIn("H1", "D1") /\ NestedIn("D1", "W")

LEMMA Multiple ==
  ASSUME NEW x \in Int, NEW a \in Nat \ {0}, x % a = 0
  PROVE  \E k \in Int : x = a * k
<1> DEFINE k == x \div a
<1>1. k \in Int /\ x = (a * k) + (x % a)
  OBVIOUS
<1> HIDE DEF k
<1>2. QED BY <1>1

LEMMA FloorNested ==
  ASSUME NEW t \in Int, NEW a \in Nat \ {0}, NEW b \in Nat \ {0}, NEW c \in Int, NEW d \in Int,
         b % a = 0, (d - c) % a = 0
  PROVE  Floor(Floor(t, a, c), b, d) = Floor(t, b, d)
<1> DEFINE s == Floor(t, a, c)
           u == Floor(t, b, d)
           q == (t - d) \div b
           m == (t - c) \div a
<1>1. s \in Int /\ u \in Int /\ s <= t /\ u <= t /\ t < s + a
  BY FloorFacts
<1>2. q \in Int /\ m \in Int /\ u = (q * b) + d /\ s = (m * a) + c
  BY DEF Floor
<1>3. PICK k \in Int : b = a * k
  BY Multiple
<1>4. PICK j \in Int : d - c = a * j
  <2>1. d - c \in Int
    OBVIOUS
  <2>2. QED BY <2>1, Multiple
<1> HIDE DEF s, u, q, m
<1> DEFINE n == (q * k) + j
<1>5. n \in Int /\ u = (a * n) + c
  <2>1. q * b = a * (q * k)
    BY <1>2, <1>3
  <2>2. (q * k) \in Int
    BY <1>2
  <2>3. a * ((q * k) + j) = (a * (q * k)) + (a * j)
    BY <2>2
  <2>4. (a * (q * k)) \in Int /\ (a * j) \in Int /\ n \in Int
    BY <2>2
  <2>5. u = (a * (q * k)) + d
    BY <1>2, <2>1
  <2> DEFINE x == a * (q * k)
             y == a * j
             z == a * n
  <2>6. z = x + y /\ x \in Int /\ y \in Int /\ z \in Int /\ u = x + d /\ d - c = y
    BY <1>4, <2>3, <2>4, <2>5
  <2> HIDE DEF x, y, z
  <2>7. u = z + c
    BY <2>6
  <2>8. QED BY <2>4, <2>7 DEF z
<1>6. s = (a * m) + c
  BY <1>2
<1> HIDE DEF n
<1>7. n > m => a * n >= (a * m) + a
  <2>1. HAVE n > m
  <2>2. a * n >= a * (m + 1)
    BY <1>2, <1>5, <2>1
  <2>3. a * (m + 1) = (a * m) + a
    BY <1>2
  <2>4. QED BY <2>2, <2>3
<1>8. n <= m => a * n <= a * m
  BY <1>2, <1>5
<1>9. a * n \in Int /\ a * m \in Int
  BY <1>2, <1>5
<1>10. n <= m
  <2> DEFINE x == a * n
             y == a * m
  <2>1. x \in Int /\ y \in Int /\ u = x + c /\ s = y + c /\ (n > m => x >= y + a)
    BY <1>5, <1>6, <1>7, <1>9
  <2> HIDE DEF x, y
  <2>2. QED BY <1>1, <1>2, <1>5, <2>1
<1>11. u <= s
  BY <1>5, <1>6, <1>8, <1>9, <1>10
<1>12. QED BY <1>1, <1>11, FloorBetween DEF s, u

LEMMA StartsNested ==
  ASSUME NEW lo \in Timeframes, NEW hi \in Timeframes, NestedIn(lo, hi), NEW t \in Int
  PROVE  PeriodStart(PeriodStart(t, lo), hi) = PeriodStart(t, hi)
<1> DEFINE a == Period[lo]
           b == Period[hi]
           c == OffsetOf(lo)
           d == OffsetOf(hi)
<1>1. a \in Nat \ {0} /\ b \in Nat \ {0} /\ c \in Int /\ d \in Int
  BY CalendarAssumption DEF OffsetOf
<1>2. b % a = 0 /\ (d - c) % a = 0
  BY DEF NestedIn
<1>3. \A x : PeriodStart(x, lo) = Floor(x, a, c) /\ PeriodStart(x, hi) = Floor(x, b, d)
  BY DEF PeriodStart, OffsetOf
<1> HIDE DEF a, b, c, d
<1>4. Floor(Floor(t, a, c), b, d) = Floor(t, b, d)
  BY <1>1, <1>2, FloorNested
<1>5. QED BY <1>3, <1>4

LEMMA PeriodRows ==
  ASSUME NEW R, SoundM1(R), NEW tf \in Timeframes, NEW r \in Usable(R)
  PROVE  PeriodStart(r.t, tf) \in Int /\ SoundRows(InPeriod(R, tf, PeriodStart(r.t, tf)))
<1> DEFINE S == InPeriod(R, tf, PeriodStart(r.t, tf))
<1>1. r \in S /\ S \in SUBSET R /\ \A q \in S : ~q.quarantined
  BY DEF InPeriod, Usable
<1>2. r.t \in Int
  BY <1>1 DEF SoundM1, Keyed
<1>3. IsFiniteSet(S)
  <2> HIDE DEF S
  <2>1. QED BY <1>1, FS_Subset DEF SoundM1, Keyed
<1>4. QED BY <1>1, <1>2, <1>3, PeriodFacts DEF SoundM1, SoundRows

\* The rows of a period, and the bars of the timeframe below that are made of them.
Nests(A, B, R, lo) ==
  /\ SoundRows(A) /\ Keyed(A) /\ Keyed(B) /\ B # {}
  /\ \A b \in B : /\ b = PeriodBar(lo, b.t, InPeriod(R, lo, b.t))
                  /\ InPeriod(R, lo, b.t) \in SUBSET A /\ SoundRows(InPeriod(R, lo, b.t))
                  /\ b.high \in Int /\ b.low \in Int
  /\ \A r \in A : \E b \in B : b.t = PeriodStart(r.t, lo) /\ r \in InPeriod(R, lo, b.t)

LEMMA BarFields ==
  \A tf, p, S : LET b == PeriodBar(tf, p, S) IN
    /\ b.t = p /\ b.open = First(S).open /\ b.high = Max(Highs(S)) /\ b.low = Min(Lows(S))
    /\ b.close = Last(S).close /\ b.bid = Last(S).bid /\ b.ask = Last(S).ask
    /\ b.quarantined = FALSE
BY DEF PeriodBar

LEMMA RowsExtremes ==
  ASSUME NEW S, SoundRows(S)
  PROVE  /\ First(S) \in S /\ \A q \in S : First(S).t <= q.t
         /\ Last(S) \in S /\ \A q \in S : q.t <= Last(S).t
         /\ \E r \in S : Min(Lows(S)) = r.low
         /\ \E r \in S : Max(Highs(S)) = r.high
         /\ \A r \in S : Min(Lows(S)) <= r.low /\ r.high <= Max(Highs(S))
<1>1. /\ IsFiniteSet(S) /\ S # {}
      /\ \A r \in S : r.t \in Int /\ r.high \in Int /\ r.low \in Int
  BY DEF SoundRows, TypedBar
<1>2. QED BY <1>1, ExtremesFacts, FirstFacts, LastFacts

LEMMA FirstNests ==
  ASSUME NEW A, NEW B, NEW R, NEW lo \in Timeframes, Nests(A, B, R, lo)
  PROVE  First(B).open = First(A).open
<1>1. /\ SoundRows(A) /\ Keyed(A) /\ Keyed(B) /\ B # {}
      /\ \A b \in B : /\ b = PeriodBar(lo, b.t, InPeriod(R, lo, b.t))
                      /\ InPeriod(R, lo, b.t) \in SUBSET A /\ SoundRows(InPeriod(R, lo, b.t))
      /\ \A r \in A : \E b \in B : b.t = PeriodStart(r.t, lo) /\ r \in InPeriod(R, lo, b.t)
  BY DEF Nests
<1>2. First(B) \in B /\ \A q \in B : First(B).t <= q.t
  BY <1>1, FirstFacts DEF Keyed
<1>3. PICK b0 \in B : b0 = First(B)
  BY <1>2
<1> DEFINE S == InPeriod(R, lo, b0.t)
<1>4. S \in SUBSET A /\ SoundRows(S) /\ b0.open = First(S).open
  BY <1>1, BarFields
<1>5. First(S) \in S /\ \A q \in S : First(S).t <= q.t
  BY <1>4, RowsExtremes
<1>6. PICK f \in S : f = First(S)
  BY <1>5
<1>7. PeriodStart(f.t, lo) = b0.t /\ f \in A /\ f.t \in Int /\ b0.t \in Int
  BY <1>1, <1>4, <1>6 DEF InPeriod, Keyed
<1>8. ASSUME NEW r \in A PROVE f.t <= r.t
  <2>1. PICK b \in B : b.t = PeriodStart(r.t, lo) /\ r \in InPeriod(R, lo, b.t)
    BY <1>1
  <2>2. r.t \in Int /\ b.t \in Int /\ b0.t <= b.t
    BY <1>1, <1>2, <1>3 DEF Keyed
  <2>3. CASE b.t = b0.t
    BY <1>5, <1>6, <2>1, <2>3
  <2>4. CASE b.t # b0.t
    <3>1. SUFFICES ASSUME r.t < f.t PROVE FALSE
      BY <1>7, <2>2
    <3>2. b.t <= r.t
      BY <2>1, <2>2, PeriodFacts
    <3>3. PeriodStart(f.t, lo) <= r.t /\ r.t <= f.t
      BY <1>7, <2>2, <3>1, <3>2
    <3>4. PeriodStart(r.t, lo) = PeriodStart(f.t, lo)
      BY <1>7, <2>2, <3>3, PeriodFacts
    <3>5. QED BY <1>7, <2>1, <2>4, <3>4
  <2>5. QED BY <2>3, <2>4
<1>9. First(A) \in A /\ First(A).t <= f.t
  BY <1>1, <1>7, RowsExtremes
<1>10. First(A) = f
  <2>1. PICK g \in A : g = First(A)
    BY <1>9
  <2>2. f.t <= g.t /\ g.t <= f.t /\ g.t \in Int
    BY <1>1, <1>8, <1>9, <2>1 DEF Keyed
  <2>3. g.t = f.t
    BY <1>7, <2>2
  <2>4. QED BY <1>1, <1>7, <2>1, <2>3 DEF Keyed
<1>11. QED BY <1>3, <1>4, <1>6, <1>10

LEMMA LastNests ==
  ASSUME NEW A, NEW B, NEW R, NEW lo \in Timeframes, Nests(A, B, R, lo)
  PROVE  /\ Last(B).close = Last(A).close
         /\ Last(B).bid = Last(A).bid /\ Last(B).ask = Last(A).ask
<1>1. /\ SoundRows(A) /\ Keyed(A) /\ Keyed(B) /\ B # {}
      /\ \A b \in B : /\ b = PeriodBar(lo, b.t, InPeriod(R, lo, b.t))
                      /\ InPeriod(R, lo, b.t) \in SUBSET A /\ SoundRows(InPeriod(R, lo, b.t))
      /\ \A r \in A : \E b \in B : b.t = PeriodStart(r.t, lo) /\ r \in InPeriod(R, lo, b.t)
  BY DEF Nests
<1>2. Last(B) \in B /\ \A q \in B : q.t <= Last(B).t
  BY <1>1, LastFacts DEF Keyed
<1>3. PICK b1 \in B : b1 = Last(B)
  BY <1>2
<1> DEFINE S == InPeriod(R, lo, b1.t)
<1>4. /\ S \in SUBSET A /\ SoundRows(S)
      /\ b1.close = Last(S).close /\ b1.bid = Last(S).bid /\ b1.ask = Last(S).ask
  BY <1>1, BarFields
<1>5. Last(S) \in S /\ \A q \in S : q.t <= Last(S).t
  BY <1>4, RowsExtremes
<1>6. PICK l \in S : l = Last(S)
  BY <1>5
<1>7. PeriodStart(l.t, lo) = b1.t /\ l \in A /\ l.t \in Int /\ b1.t \in Int
  BY <1>1, <1>4, <1>6 DEF InPeriod, Keyed
<1>8. ASSUME NEW r \in A PROVE r.t <= l.t
  <2>1. PICK b \in B : b.t = PeriodStart(r.t, lo) /\ r \in InPeriod(R, lo, b.t)
    BY <1>1
  <2>2. r.t \in Int /\ b.t \in Int /\ b.t <= b1.t
    BY <1>1, <1>2, <1>3 DEF Keyed
  <2>3. CASE b.t = b1.t
    BY <1>5, <1>6, <2>1, <2>3
  <2>4. CASE b.t # b1.t
    <3>1. SUFFICES ASSUME l.t < r.t PROVE FALSE
      BY <1>7, <2>2
    <3>2. b1.t <= l.t
      BY <1>7, PeriodFacts
    <3>3. PeriodStart(r.t, lo) <= l.t /\ l.t <= r.t
      BY <1>7, <2>1, <2>2, <3>1, <3>2
    <3>4. PeriodStart(l.t, lo) = PeriodStart(r.t, lo)
      BY <1>7, <2>2, <3>3, PeriodFacts
    <3>5. QED BY <1>7, <2>1, <2>4, <3>4
  <2>5. QED BY <2>3, <2>4
<1>9. Last(A) \in A /\ l.t <= Last(A).t
  BY <1>1, <1>7, RowsExtremes
<1>10. Last(A) = l
  <2>1. PICK g \in A : g = Last(A)
    BY <1>9
  <2>2. l.t <= g.t /\ g.t <= l.t /\ g.t \in Int
    BY <1>1, <1>8, <1>9, <2>1 DEF Keyed
  <2>3. g.t = l.t
    BY <1>7, <2>2
  <2>4. QED BY <1>1, <1>7, <2>1, <2>3 DEF Keyed
<1>11. QED BY <1>3, <1>4, <1>6, <1>10

LEMMA PricesNest ==
  ASSUME NEW A, NEW B, NEW R, NEW lo \in Timeframes, Nests(A, B, R, lo)
  PROVE  Max(Highs(B)) = Max(Highs(A)) /\ Min(Lows(B)) = Min(Lows(A))
<1>1. /\ SoundRows(A) /\ Keyed(B) /\ B # {}
      /\ \A b \in B : /\ b = PeriodBar(lo, b.t, InPeriod(R, lo, b.t))
                      /\ InPeriod(R, lo, b.t) \in SUBSET A /\ SoundRows(InPeriod(R, lo, b.t))
                      /\ b.high \in Int /\ b.low \in Int
      /\ \A r \in A : \E b \in B : b.t = PeriodStart(r.t, lo) /\ r \in InPeriod(R, lo, b.t)
  BY DEF Nests
<1>2. /\ \E r \in A : Min(Lows(A)) = r.low
      /\ \E r \in A : Max(Highs(A)) = r.high
      /\ \A r \in A : Min(Lows(A)) <= r.low /\ r.high <= Max(Highs(A))
  BY <1>1, RowsExtremes
<1>3. \A r \in A : r.low \in Int /\ r.high \in Int
  BY <1>1 DEF SoundRows, TypedBar
<1>4. /\ \E b \in B : Min(Lows(B)) = b.low
      /\ \E b \in B : Max(Highs(B)) = b.high
      /\ \A b \in B : Min(Lows(B)) <= b.low /\ b.high <= Max(Highs(B))
  BY <1>1, ExtremesFacts DEF Keyed
<1>5. ASSUME NEW b \in B
      PROVE  /\ \E r \in A : b.high = r.high
             /\ \E r \in A : b.low = r.low
             /\ \A r \in InPeriod(R, lo, b.t) : b.low <= r.low /\ r.high <= b.high
  <2> DEFINE S == InPeriod(R, lo, b.t)
  <2>1. S \in SUBSET A /\ SoundRows(S) /\ b.high = Max(Highs(S)) /\ b.low = Min(Lows(S))
    BY <1>1, BarFields
  <2>2. QED BY <2>1, RowsExtremes
<1>6. Max(Highs(B)) = Max(Highs(A))
  <2>1. PICK r \in A : Max(Highs(A)) = r.high
    BY <1>2
  <2>2. PICK b \in B : Max(Highs(B)) = b.high
    BY <1>4
  <2>3. PICK c \in B : r \in InPeriod(R, lo, c.t)
    BY <1>1
  <2>4. PICK q \in A : b.high = q.high
    BY <1>5
  <2>5. r.high <= c.high /\ c.high <= b.high /\ q.high <= r.high
    BY <1>2, <1>4, <1>5, <2>1, <2>2, <2>3
  <2>6. QED BY <1>1, <1>3, <2>1, <2>2, <2>4, <2>5
<1>7. Min(Lows(B)) = Min(Lows(A))
  <2>1. PICK r \in A : Min(Lows(A)) = r.low
    BY <1>2
  <2>2. PICK b \in B : Min(Lows(B)) = b.low
    BY <1>4
  <2>3. PICK c \in B : r \in InPeriod(R, lo, c.t)
    BY <1>1
  <2>4. PICK q \in A : b.low = q.low
    BY <1>5
  <2>5. c.low <= r.low /\ b.low <= c.low /\ r.low <= q.low
    BY <1>2, <1>4, <1>5, <2>1, <2>2, <2>3
  <2>6. QED BY <1>1, <1>3, <2>1, <2>2, <2>4, <2>5
<1>8. QED BY <1>6, <1>7

\* The prices of a bar.
Quote(r) == [t |-> r.t, quote |-> <<r.open, r.high, r.low, r.close, r.bid, r.ask>>]

LEMMA SameQuote ==
  \A tf, p, q, S, T :
    /\ p = q /\ First(S).open = First(T).open /\ Max(Highs(S)) = Max(Highs(T))
    /\ Min(Lows(S)) = Min(Lows(T)) /\ Last(S).close = Last(T).close
    /\ Last(S).bid = Last(T).bid /\ Last(S).ask = Last(T).ask
    => Quote(PeriodBar(tf, p, S)) = Quote(PeriodBar(tf, q, T))
<1>1. TAKE tf, p, q, S, T
<1>2. HAVE /\ p = q /\ First(S).open = First(T).open /\ Max(Highs(S)) = Max(Highs(T))
           /\ Min(Lows(S)) = Min(Lows(T)) /\ Last(S).close = Last(T).close
           /\ Last(S).bid = Last(T).bid /\ Last(S).ask = Last(T).ask
<1> DEFINE b == PeriodBar(tf, p, S)
           c == PeriodBar(tf, q, T)
<1>3. /\ b.t = c.t /\ b.open = c.open /\ b.high = c.high /\ b.low = c.low
      /\ b.close = c.close /\ b.bid = c.bid /\ b.ask = c.ask
  BY <1>2 DEF PeriodBar
<1> HIDE DEF b, c
<1>4. Quote(b) = Quote(c)
  BY <1>3, Zenon DEF Quote
<1>5. QED BY <1>4 DEF b, c

\* What the periods of two nested timeframes have in common.
LEMMA NestsHolds ==
  ASSUME NEW R, SoundM1(R), NEW lo \in Timeframes, NEW hi \in Timeframes, NestedIn(lo, hi),
         NEW row \in Usable(R)
  PROVE  LET p == PeriodStart(row.t, hi)
         IN  Nests(InPeriod(R, hi, p), InPeriod(Converted(R, lo), hi, p), R, lo)
<1> DEFINE p == PeriodStart(row.t, hi)
           C == Converted(R, lo)
           A == InPeriod(R, hi, p)
           B == InPeriod(C, hi, p)
<1>1. C = {PeriodBar(lo, s, InPeriod(R, lo, s)) : s \in {PeriodStart(r.t, lo) : r \in Usable(R)}}
  BY BarsNamed
<1>2. \A r \in Usable(R) : r \in R /\ r.t \in Int
  BY DEF Usable, SoundM1, Keyed
<1>3. \A r \in Usable(R) : SoundRows(InPeriod(R, lo, PeriodStart(r.t, lo)))
  BY PeriodRows
<1>4. SoundRows(A)
  BY PeriodRows
<1>5. Keyed(A)
  <2>1. A \in SUBSET R
    BY DEF InPeriod, Usable
  <2> HIDE DEF A
  <2>2. QED BY <2>1, KeyedSubset DEF SoundM1
<1>6. Keyed(B)
  <2>1. B \in SUBSET C
    BY DEF InPeriod, Usable
  <2>2. Keyed(C)
    BY ConvertedKeyed DEF SoundM1
  <2> HIDE DEF B, C
  <2>3. QED BY <2>1, <2>2, KeyedSubset
<1>7. ASSUME NEW b \in B
      PROVE  /\ b = PeriodBar(lo, b.t, InPeriod(R, lo, b.t))
             /\ InPeriod(R, lo, b.t) \in SUBSET A /\ SoundRows(InPeriod(R, lo, b.t))
             /\ b.high \in Int /\ b.low \in Int
  <2>1. b \in C /\ PeriodStart(b.t, hi) = p
    BY DEF InPeriod, Usable
  <2> HIDE DEF C
  <2>2. PICK r \in Usable(R) :
          b = PeriodBar(lo, PeriodStart(r.t, lo), InPeriod(R, lo, PeriodStart(r.t, lo)))
    BY <1>1, <2>1
  <2>3. b.t = PeriodStart(r.t, lo)
    BY <2>2, BarFields
  <2>4. InPeriod(R, lo, b.t) \in SUBSET A
    <3>1. SUFFICES ASSUME NEW q \in InPeriod(R, lo, b.t) PROVE q \in A
      OBVIOUS
    <3>2. q \in Usable(R) /\ PeriodStart(q.t, lo) = b.t
      BY DEF InPeriod
    <3>3. PeriodStart(q.t, hi) = p
      BY <1>2, <2>1, <3>2, StartsNested
    <3>4. QED BY <3>2, <3>3 DEF InPeriod
  <2>5. b \in HigherBars
    BY <2>1, ConvertedSound DEF C
  <2>6. b.high \in Int /\ b.low \in Int
    BY <2>5 DEF HigherBars
  <2>7. QED BY <1>3, <2>2, <2>3, <2>4, <2>6
<1>8. ASSUME NEW r \in A
      PROVE  \E b \in B : b.t = PeriodStart(r.t, lo) /\ r \in InPeriod(R, lo, b.t)
  <2> DEFINE s == PeriodStart(r.t, lo)
             b == PeriodBar(lo, s, InPeriod(R, lo, s))
  <2>1. r \in Usable(R) /\ PeriodStart(r.t, hi) = p
    BY DEF InPeriod
  <2>2. b \in C
    BY <1>1, <2>1
  <2>3. b.t = s /\ b.quarantined = FALSE
    BY BarFields
  <2>4. PeriodStart(s, hi) = p
    BY <1>2, <2>1, StartsNested
  <2>5. r \in InPeriod(R, lo, s)
    BY <2>1 DEF InPeriod
  <2> HIDE DEF b, s, C
  <2>6. b \in B
    BY <2>2, <2>3, <2>4 DEF InPeriod, Usable
  <2>7. QED BY <2>3, <2>5, <2>6 DEF s
<1>9. B # {}
  <2>1. row \in A
    BY DEF InPeriod
  <2>2. QED BY <1>8, <2>1
<1> HIDE DEF A, B
<1>10. Nests(A, B, R, lo)
  BY <1>4, <1>5, <1>6, <1>7, <1>8, <1>9 DEF Nests
<1>11. QED BY <1>10 DEF A, B

\* A bar says what it would say if it were made of the bars of the timeframe below.
LEMMA QuotesNest ==
  ASSUME NEW R, SoundM1(R), NEW lo \in Timeframes, NEW hi \in Timeframes, NestedIn(lo, hi)
  PROVE  {Quote(b) : b \in Converted(Converted(R, lo), hi)} = {Quote(b) : b \in Converted(R, hi)}
<1> DEFINE C == Converted(R, lo)
           A(p) == InPeriod(R, hi, p)
           B(p) == InPeriod(C, hi, p)
           P == {PeriodStart(r.t, hi) : r \in Usable(R)}
           Q == {PeriodStart(c.t, hi) : c \in Usable(C)}
<1>1. /\ Converted(R, hi) = {PeriodBar(hi, p, A(p)) : p \in P}
      /\ Converted(C, hi) = {PeriodBar(hi, p, B(p)) : p \in Q}
  BY BarsNamed
<1>2. ASSUME NEW p \in P PROVE Nests(A(p), B(p), R, lo)
  <2>1. PICK r \in Usable(R) : p = PeriodStart(r.t, hi)
    OBVIOUS
  <2>2. QED BY <2>1, NestsHolds
<1>3. P \subseteq Q
  <2>1. SUFFICES ASSUME NEW p \in P PROVE p \in Q
    OBVIOUS
  <2>2. PICK b : b \in B(p)
    BY <1>2 DEF Nests
  <2>3. b \in Usable(C) /\ PeriodStart(b.t, hi) = p
    BY <2>2 DEF InPeriod
  <2>4. QED BY <2>3
<1>4. Q \subseteq P
  <2>1. SUFFICES ASSUME NEW c \in Usable(C) PROVE PeriodStart(c.t, hi) \in P
    OBVIOUS
  <2>2. C = {PeriodBar(lo, s, InPeriod(R, lo, s)) :
               s \in {PeriodStart(r.t, lo) : r \in Usable(R)}}
    BY BarsNamed
  <2>3. c \in C
    BY DEF Usable
  <2> HIDE DEF C
  <2>4. PICK r \in Usable(R) :
          c = PeriodBar(lo, PeriodStart(r.t, lo), InPeriod(R, lo, PeriodStart(r.t, lo)))
    BY <2>2, <2>3
  <2>5. c.t = PeriodStart(r.t, lo) /\ r.t \in Int
    BY <2>4, BarFields DEF Usable, SoundM1, Keyed
  <2>6. PeriodStart(c.t, hi) = PeriodStart(r.t, hi)
    BY <2>5, StartsNested
  <2>7. QED BY <2>6
<1>5. P = Q
  BY <1>3, <1>4
<1>6. \A p \in P : Quote(PeriodBar(hi, p, A(p))) = Quote(PeriodBar(hi, p, B(p)))
  <2>1. TAKE p \in P
  <2>2. /\ First(B(p)).open = First(A(p)).open
        /\ Last(B(p)).close = Last(A(p)).close
        /\ Last(B(p)).bid = Last(A(p)).bid /\ Last(B(p)).ask = Last(A(p)).ask
        /\ Max(Highs(B(p))) = Max(Highs(A(p))) /\ Min(Lows(B(p))) = Min(Lows(A(p)))
    BY <1>2, FirstNests, LastNests, PricesNest
  <2>3. QED BY <2>2, SameQuote
<1> HIDE DEF P, Q, C
<1> DEFINE X == {Quote(b) : b \in Converted(C, hi)}
           Y == {Quote(b) : b \in Converted(R, hi)}
           f == [p \in P |-> Quote(PeriodBar(hi, p, A(p)))]
<1>7. Y = {f[p] : p \in P}
  BY <1>1, Zenon
<1>8. X = {f[p] : p \in P}
  <2>1. X = {Quote(PeriodBar(hi, p, B(p))) : p \in P}
    BY <1>1, <1>5, Zenon
  <2>2. QED BY <1>6, <2>1, Zenon
<1>9. QED BY <1>7, <1>8 DEF C

----------------------------------------------------------------------------
(* What is known of the download at each of its stages.                    *)

NoTables == [tf \in Timeframes |-> {}]
AllConverted(R) == [tf \in Timeframes |-> Converted(R, tf)]
StagesKnown ==
  /\ stage \in {"validate", "convert", "timeframes", "cut", "split", "done", "failed"}
  /\ split \in Splits \cup {NoSplit}
  /\ report.score \in 0 .. One /\ flagged \subseteq Times(download.rows)
  /\ cut \in {0} \cup Times(m1_table)
  /\ stage \in {"validate", "convert"} => m1_table = {}
  /\ stage \in {"validate", "convert", "timeframes"} => tables = NoTables
  /\ stage \in {"validate", "convert", "timeframes", "cut"} => cut = 0
  /\ tables \in {NoTables, AllConverted(m1_table)}
  /\ stage \in {"cut", "split", "done"} => tables = AllConverted(m1_table)
  /\ DOMAIN train = AllTables /\ DOMAIN test = AllTables
  /\ \A tf \in AllTables : train[tf] \cup test[tf] \in {{}, Table(tf)}
  /\ stage \in {"validate", "convert", "timeframes", "cut", "split"}
       => \A tf \in AllTables : train[tf] = {} /\ test[tf] = {}
M1Known ==
  /\ SoundM1(m1_table)
  /\ download.resolution = "M1" => \A r \in m1_table : r.session = BulkSession(r.t)
MarketInv == ReportInv /\ StagesKnown /\ M1Known

LEMMA MarketInvInit == MarketInit => MarketInv
<1> SUFFICES ASSUME MarketInit PROVE MarketInv
  OBVIOUS
<1>1. /\ stage = "validate" /\ download \in Downloads /\ split = NoSplit
      /\ report = [score |-> 0, periods |-> {}] /\ flagged = {} /\ m1_table = {} /\ cut = 0
      /\ tables = NoTables /\ train = [tf \in AllTables |-> {}] /\ test = train
  BY DEF MarketInit, NoTables, AllTables
<1>2. ReportInv
  BY <1>1 DEF ReportInv, Checked
<1>3. M1Known
  BY <1>1, FS_EmptySet DEF M1Known, SoundM1, Keyed
<1>4. StagesKnown
  BY <1>1 DEF StagesKnown, One
<1>5. QED BY <1>2, <1>3, <1>4 DEF MarketInv

LEMMA M1KnownStep ==
  ASSUME MarketInv, [MarketNext]_market
  PROVE  M1Known'
<1>1. CASE m1_table' = m1_table /\ download' = download
  BY <1>1 DEF MarketInv, M1Known
<1>2. CASE ConvertToArrow /\ m1_table' # m1_table
  <2>1. /\ stage = "convert" /\ download' = download
        /\ \/ download.resolution = "tick" /\ m1_table' = AggregateTicks(download.rows)
           \/ download.resolution # "tick" /\ m1_table' = Stamped(download.rows)
    BY <1>2 DEF ConvertToArrow
  <2>2. download \in Downloads /\ IssuesFlagged(download.rows)
    <3>1. download \in Downloads /\ flagged = Quarantined(download)
      BY <2>1 DEF MarketInv, ReportInv, Checked
    <3>2. \A i \in Issues(download.rows) : i.t \in Times(download.rows)
      BY <3>1, RowsPriced, IssueFacts
    <3>3. QED BY <3>1, <3>2 DEF IssuesFlagged, Quarantined
  <2>3. /\ IsFrame(download.rows) /\ download.resolution \in {"M1", "tick"}
        /\ \A r \in download.rows : r.bid \in Int /\ r.ask \in Int
        /\ download.resolution = "M1" =>
             Keyed(download.rows) /\ \A r \in download.rows : PricedBar(r)
    BY <2>2, RowsPriced
  <2>4. CASE download.resolution = "tick" /\ m1_table' = AggregateTicks(download.rows)
    <3>1. SoundM1(AggregateTicks(download.rows))
      BY <2>2, <2>3, AggregateSound
    <3>2. QED BY <2>1, <2>4, <3>1 DEF M1Known
  <2>5. CASE download.resolution = "M1" /\ m1_table' = Stamped(download.rows)
    <3>1. /\ SoundM1(Stamped(download.rows))
          /\ \A b \in Stamped(download.rows) : b.session = BulkSession(b.t)
      BY <2>2, <2>3, <2>5, StampedSound
    <3>2. QED BY <2>1, <2>5, <3>1 DEF M1Known
  <2>6. QED BY <2>1, <2>3, <2>4, <2>5
<1>3. download' = download /\ (m1_table' = m1_table \/ ConvertToArrow)
  BY DEF MarketNext, CheckQuality, ConvertToArrow, ConvertTimeframes, Cut, SplitAtCut, market
<1>4. QED BY <1>1, <1>2, <1>3

LEMMA StagesKnownStep ==
  ASSUME MarketInv, [MarketNext]_market
  PROVE  StagesKnown'
<1> USE DEF MarketInv
<1>1. CASE CheckQuality
  <2>1. /\ stage = "validate" /\ stage' \in {"failed", "convert"}
        /\ UNCHANGED <<download, m1_table, tables, split, cut, train, test>>
        /\ \/ UNCHANGED <<report, flagged>>
           \/ /\ ~OutOfBounds(download)
              /\ flagged' = Quarantined(download)
              /\ report' = [score |-> QualityScore(download),
                            periods |-> QuarantinedPeriods(download)]
    BY <1>1 DEF CheckQuality
  <2>2. flagged' \subseteq Times(download.rows)
    BY <2>1 DEF StagesKnown, Quarantined
  <2>3. report'.score \in 0 .. One
    <3>1. ~OutOfBounds(download) => QualityScore(download) \in 0 .. One
      BY DownloadReadable, ScoreFacts DEF ReportInv
    <3>2. QED BY <2>1, <3>1 DEF StagesKnown
  <2>4. \A tf : Table(tf)' = Table(tf)
    BY <2>1 DEF Table
  <2>5. QED BY <2>1, <2>2, <2>3, <2>4 DEF StagesKnown
<1>2. CASE ConvertToArrow
  <2>1. /\ stage = "convert" /\ stage' \in {"failed", "timeframes"}
        /\ UNCHANGED <<download, report, flagged, tables, split, cut, train, test>>
    BY <1>2 DEF ConvertToArrow
  <2>2. QED BY <2>1 DEF StagesKnown
<1>3. CASE ConvertTimeframes
  <2>1. /\ stage = "timeframes" /\ stage' = "cut"
        /\ tables' = AllConverted(m1_table)
        /\ UNCHANGED <<download, report, flagged, m1_table, split, cut, train, test>>
    BY <1>3 DEF ConvertTimeframes, AllConverted
  <2>2. AllConverted(m1_table)' = AllConverted(m1_table)
    BY <2>1
  <2>3. QED BY <2>1, <2>2 DEF StagesKnown
<1>4. CASE Cut
  <2>1. PICK s \in Splits :
          /\ split' = s
          /\ IF M1Train(s) \in {{}, m1_table}
             THEN stage' = "failed" /\ UNCHANGED cut
             ELSE stage' = "split" /\ cut' = Last(M1Train(s)).t
    BY <1>4 DEF Cut
  <2>2. stage = "cut" /\ UNCHANGED <<download, report, flagged, m1_table, tables, train, test>>
    BY <1>4 DEF Cut
  <2>3. cut' \in {0} \cup Times(m1_table)
    <3> DEFINE S == M1Train(s)
    <3>1. S \in SUBSET m1_table
      BY DEF M1Train
    <3> HIDE DEF S
    <3>2. CASE S = {}
      BY <2>1, <3>2 DEF StagesKnown, S
    <3>3. CASE S # {}
      <4>1. Keyed(S)
        BY <3>1, KeyedSubset DEF M1Known, SoundM1
      <4>2. Last(S) \in S
        BY <3>3, <4>1, LastFacts DEF Keyed
      <4>3. Last(S).t \in Times(m1_table)
        BY <3>1, <4>2 DEF Times
      <4>4. QED BY <2>1, <4>3 DEF StagesKnown, S
    <3>4. QED BY <3>2, <3>3
  <2>4. /\ AllConverted(m1_table)' = AllConverted(m1_table)
        /\ \A tf : Table(tf)' = Table(tf)
    BY <2>2 DEF Table
  <2>5. stage' \in {"failed", "split"} /\ split' \in Splits
    BY <2>1
  <2>6. QED BY <2>2, <2>3, <2>4, <2>5 DEF StagesKnown
<1>5. CASE SplitAtCut
  <2>1. /\ stage = "split" /\ stage' \in {"failed", "done"}
        /\ UNCHANGED <<download, report, flagged, m1_table, tables, split, cut>>
        /\ \/ UNCHANGED <<train, test>>
           \/ /\ train' = [tf \in DOMAIN train |-> TrainHalf(tf)]
              /\ test' = [tf \in DOMAIN test |-> Table(tf) \ TrainHalf(tf)]
    BY <1>5 DEF SplitAtCut
  <2>2. /\ AllConverted(m1_table)' = AllConverted(m1_table)
        /\ \A tf : Table(tf)' = Table(tf)
    BY <2>1 DEF Table
  <2>3. \A tf \in AllTables : TrainHalf(tf) \subseteq Table(tf)
    BY DEF TrainHalf, Table, M1Train
  <2>4. DOMAIN train = AllTables /\ DOMAIN test = AllTables
    BY DEF StagesKnown
  <2>5. /\ DOMAIN train' = AllTables /\ DOMAIN test' = AllTables
        /\ \A tf \in AllTables : train'[tf] \cup test'[tf] \in {{}, Table(tf)}
    <3>1. CASE UNCHANGED <<train, test>>
      BY <3>1 DEF StagesKnown
    <3>2. CASE /\ train' = [tf \in DOMAIN train |-> TrainHalf(tf)]
               /\ test' = [tf \in DOMAIN test |-> Table(tf) \ TrainHalf(tf)]
      <4>1. ASSUME NEW tf \in AllTables
            PROVE  train'[tf] \cup test'[tf] = Table(tf)
        BY <2>3, <2>4, <3>2, <4>1
      <4>2. QED BY <2>4, <3>2, <4>1
    <3>3. QED BY <2>1, <3>1, <3>2
  <2>6. QED BY <2>1, <2>2, <2>5 DEF StagesKnown
<1>6. CASE UNCHANGED market
  <2>1. UNCHANGED <<stage, download, report, flagged, m1_table, tables, split, cut, train, test>>
    BY <1>6 DEF market
  <2>2. /\ AllConverted(m1_table)' = AllConverted(m1_table)
        /\ \A tf : Table(tf)' = Table(tf)
    BY <2>1 DEF Table
  <2>3. QED BY <2>1, <2>2 DEF StagesKnown
<1>7. QED BY <1>1, <1>2, <1>3, <1>4, <1>5, <1>6 DEF MarketNext

LEMMA MarketInvHolds == MarketSpec => []MarketInv
<1>1. ASSUME MarketInv, [MarketNext]_market PROVE MarketInv'
  <2>1. ReportInv
    BY <1>1 DEF MarketInv
  <2>2. ReportInv'
    BY <1>1, <2>1, ReportInvStep
  <2>3. QED BY <1>1, <2>2, M1KnownStep, StagesKnownStep DEF MarketInv
<1>2. QED BY <1>1, MarketInvInit, PTL DEF MarketSpec

\* Two sessions are in force together only while those of London and New York overlap, as
\* they are configured ([sessions] of base.toml).
SessionsApart ==
  \A t \in Int : \A a, b \in InForce(t) : a # b => "london_ny_overlap" \in InForce(t)

LEMMA RankedOverlap ==
  ASSUME NEW S, NEW order, DOMAIN order = 1 .. 5, order[1] = "london_ny_overlap",
         "london_ny_overlap" \in S
  PROVE  Ranked(S, order) = "london_ny_overlap"
<1> DEFINE places == {i \in DOMAIN order : order[i] \in S}
<1>1. places \in SUBSET (1 .. 5) /\ 1 \in places
  OBVIOUS
<1>2. Ranked(S, order) = order[Min(places)]
  BY <1>1 DEF Ranked
<1> HIDE DEF places
<1>3. IsFiniteSet(1 .. 5)
  <2>1. 1 \in Int /\ 5 \in Int
    OBVIOUS
  <2>2. QED BY <2>1, FS_Interval
<1>4. IsFiniteSet(places)
  BY <1>1, <1>3, FS_Subset
<1>5. places \in SUBSET Int /\ places # {}
  BY <1>1
<1>6. Min(places) \in places /\ Min(places) <= 1
  BY <1>1, <1>4, <1>5, MinFacts
<1>7. Min(places) = 1
  <2>1. PICK m \in places : m = Min(places)
    BY <1>6
  <2>2. m \in 1 .. 5 /\ m <= 1
    BY <1>1, <1>6, <2>1
  <2>3. QED BY <2>1, <2>2
<1>8. QED BY <1>2, <1>7

LEMMA SessionsSame ==
  ASSUME SessionsApart, NEW t \in Int
  PROVE  BulkSession(t) = FirstSession(t)
<1> DEFINE S == InForce(t)
           x == Ranked(S, BulkOrder)
           y == Ranked(S, FirstOrder)
<1>1. BulkSession(t) = x /\ FirstSession(t) = y
  BY OrdersNamed
<1>2. /\ DOMAIN BulkOrder = 1 .. 5 /\ DOMAIN FirstOrder = 1 .. 5
      /\ \A i \in 1 .. 5 : BulkOrder[i] \in Sessions /\ FirstOrder[i] \in Sessions
  BY OrdersNamed
<1>3. BulkOrder[1] = "london_ny_overlap" /\ FirstOrder[1] = "london_ny_overlap"
  BY DEF BulkOrder, FirstOrder
<1>4. \A s \in Sessions : /\ \E i \in 1 .. 5 : BulkOrder[i] = s
                          /\ \E i \in 1 .. 5 : FirstOrder[i] = s
  BY DEF BulkOrder, FirstOrder, Sessions
<1>5. \A a, b \in S : a # b => "london_ny_overlap" \in S
  BY DEF SessionsApart
<1> HIDE DEF S, x, y
<1>6. CASE "london_ny_overlap" \in S
  <2>1. x = "london_ny_overlap" /\ y = "london_ny_overlap"
    BY <1>2, <1>3, <1>6, RankedOverlap DEF x, y
  <2>2. QED BY <1>1, <2>1
<1>7. CASE "london_ny_overlap" \notin S
  <2>1. /\ x \in Sessions
        /\ \/ x \in S
           \/ x = "off_hours" /\ \A i \in 1 .. 5 : BulkOrder[i] \notin S
    BY <1>2, RankedFacts DEF x
  <2>2. /\ y \in Sessions
        /\ \/ y \in S
           \/ y = "off_hours" /\ \A i \in 1 .. 5 : FirstOrder[i] \notin S
    BY <1>2, RankedFacts DEF y
  <2>3. x \in S <=> y \in S
    <3>1. ASSUME x \in S, y \notin S PROVE FALSE
      <4>1. PICK i \in 1 .. 5 : FirstOrder[i] = x
        BY <1>4, <2>1
      <4>2. QED BY <2>2, <3>1, <4>1
    <3>2. ASSUME y \in S, x \notin S PROVE FALSE
      <4>1. PICK i \in 1 .. 5 : BulkOrder[i] = y
        BY <1>4, <2>2
      <4>2. QED BY <2>1, <3>2, <4>1
    <3>3. QED BY <3>1, <3>2
  <2>4. x = y
    BY <1>5, <1>7, <2>1, <2>2, <2>3
  <2>5. QED BY <1>1, <2>4
<1>8. QED BY <1>6, <1>7

\* The tables have their types, and no price the checks reject is in a bar of a higher
\* timeframe (convert_timeframe leaves out the quarantined rows).
THEOREM TablesAreSound == MarketSpec => [](MarketTypeOK /\ SoundBars)
<1>1. ASSUME MarketInv PROVE MarketTypeOK /\ SoundBars
  <2>1. ASSUME NEW tf \in Timeframes, NEW b \in tables[tf]
        PROVE  b \in HigherBars /\ CleanPrices(b) /\ Quoted(b)
    <3>1. tables = NoTables \/ tables = AllConverted(m1_table)
      BY <1>1 DEF MarketInv, StagesKnown
    <3>2. b \in Converted(m1_table, tf)
      BY <2>1, <3>1 DEF NoTables, AllConverted
    <3>3. SoundM1(m1_table)
      BY <1>1 DEF MarketInv, M1Known
    <3>4. QED BY <3>2, <3>3, ConvertedSound
  <2>2. MarketTypeOK
    <3>1. /\ stage \in {"validate", "convert", "timeframes", "cut", "split", "done", "failed"}
          /\ download \in Downloads /\ split \in Splits \cup {NoSplit}
          /\ report.score \in 0 .. One /\ flagged \subseteq Times(download.rows)
          /\ cut \in {0} \cup Times(m1_table)
          /\ \A tf \in {"M1"} \cup Timeframes : train[tf] \cup test[tf] \in {{}, Table(tf)}
      BY <1>1 DEF MarketInv, StagesKnown, ReportInv, AllTables
    <3>2. tables \in [Timeframes -> SUBSET HigherBars]
      <4>1. tables = NoTables \/ tables = AllConverted(m1_table)
        BY <1>1 DEF MarketInv, StagesKnown
      <4>2. tables = [tf \in Timeframes |-> tables[tf]]
        BY <4>1 DEF NoTables, AllConverted
      <4>3. \A tf \in Timeframes : tables[tf] \in SUBSET HigherBars
        BY <2>1
      <4>4. QED BY <4>2, <4>3
    <3>3. QED BY <3>1, <3>2, Zenon DEF MarketTypeOK, HigherBars
  <2>3. SoundBars
    <3>1. SUFFICES ASSUME NEW tf \in Timeframes, NEW b \in tables[tf]
                   PROVE  /\ 0 < b.low /\ b.low <= b.high
                          /\ {b.open, b.close} \subseteq b.low .. b.high
                          /\ HasAsk(b) => b.bid < b.ask
      BY DEF SoundBars
    <3>2. b \in HigherBars /\ CleanPrices(b) /\ Quoted(b)
      BY <2>1
    <3>3. b.open \in Int /\ b.close \in Int /\ b.low \in Int /\ b.high \in Int
      BY <3>2 DEF HigherBars
    <3>4. QED BY <3>2, <3>3 DEF CleanPrices, Quoted
  <2>4. QED BY <2>2, <2>3
<1>2. QED BY <1>1, MarketInvHolds, PTL

\* With periods and sessions as they are configured, every timeframe says what it would say
\* if it were made of the one below, and the labels of M1 are those H1 counts.
THEOREM TablesAreOne == PeriodsNest /\ SessionsApart => (MarketSpec => []TablesAgree)
<1> SUFFICES ASSUME PeriodsNest, SessionsApart PROVE MarketSpec => []TablesAgree
  OBVIOUS
<1>1. MarketInv /\ MarketTypeOK /\ SoundBars => TablesAgree
  <2>1. SUFFICES ASSUME MarketInv PROVE TimeframesNest /\ SessionsAgree
    BY DEF TablesAgree
  <2>2. SoundM1(m1_table)
    BY <2>1 DEF MarketInv, M1Known
  <2>3. TimeframesNest
    <3> DEFINE Same(lo, hi) ==
          {Quote(b) : b \in Converted(tables[lo], hi)} = {Quote(b) : b \in tables[hi]}
    <3>1. SUFFICES ASSUME stage \in {"cut", "split", "done"}
                   PROVE  Same("M5", "H1") /\ Same("H1", "D1") /\ Same("D1", "W")
      <4>1. TimeframesNest <=>
              (stage \in {"cut", "split", "done"} =>
                 \A n \in {<<"M5", "H1">>, <<"H1", "D1">>, <<"D1", "W">>} : Same(n[1], n[2]))
        BY Zenon DEF TimeframesNest, Quote
      <4> HIDE DEF Same
      <4>2. ASSUME Same("M5", "H1"), Same("H1", "D1"), Same("D1", "W"),
                   NEW n \in {<<"M5", "H1">>, <<"H1", "D1">>, <<"D1", "W">>}
            PROVE  Same(n[1], n[2])
        <5>1. CASE n = <<"M5", "H1">>
          <6>1. n[1] = "M5" /\ n[2] = "H1"
            BY <5>1
          <6>2. QED BY <4>2, <6>1, Zenon
        <5>2. CASE n = <<"H1", "D1">>
          <6>1. n[1] = "H1" /\ n[2] = "D1"
            BY <5>2
          <6>2. QED BY <4>2, <6>1, Zenon
        <5>3. CASE n = <<"D1", "W">>
          <6>1. n[1] = "D1" /\ n[2] = "W"
            BY <5>3
          <6>2. QED BY <4>2, <6>1, Zenon
        <5>4. QED BY <4>2, <5>1, <5>2, <5>3
      <4>3. QED BY <4>1, <4>2
    <3>2. \A tf \in Timeframes : tables[tf] = Converted(m1_table, tf)
      BY <2>1, <3>1 DEF MarketInv, StagesKnown, AllConverted
    <3>3. ASSUME NEW lo \in Timeframes, NEW hi \in Timeframes, NestedIn(lo, hi)
          PROVE  Same(lo, hi)
      <4>1. {Quote(b) : b \in Converted(Converted(m1_table, lo), hi)}
              = {Quote(b) : b \in Converted(m1_table, hi)}
        BY <2>2, <3>3, QuotesNest
      <4>2. tables[lo] = Converted(m1_table, lo) /\ tables[hi] = Converted(m1_table, hi)
        BY <3>2
      <4>3. QED BY <4>1, <4>2
    <3>4. {"M5", "H1", "D1", "W"} = Timeframes
      BY DEF Timeframes
    <3> HIDE DEF Same
    <3>5. QED BY <3>3, <3>4 DEF PeriodsNest
  <2>4. SessionsAgree
    <3>1. SUFFICES ASSUME download.resolution = "M1", NEW r \in m1_table
                   PROVE  r.session = FirstSession(r.t)
      BY DEF SessionsAgree
    <3>2. r.session = BulkSession(r.t) /\ r.t \in Int
      BY <2>1, <2>2, <3>1 DEF MarketInv, M1Known, SoundM1, Keyed
    <3>3. QED BY <3>2, SessionsSame
  <2>5. QED BY <2>3, <2>4
<1>2. QED BY <1>1, MarketInvHolds, TablesAreSound, PTL

=================================================================================
