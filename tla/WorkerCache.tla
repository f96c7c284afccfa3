------------------------------ MODULE WorkerCache ------------------------------
(***************************************************************************)
(* What a forex_worker process holds between commands                      *)
(* (crates/backtester/src/worker/mod.rs): the cost model, and market data  *)
(* by key, kept within a budget of bytes.  Commands are handled one after  *)
(* the other; an evaluation holds on to its data.                          *)
(***************************************************************************)
EXTENDS Subsequences

CONSTANTS
  Keys,
  SizeOf,       \* the bytes of the data in each file
  Budgets,      \* the budgets of init commands
  DefaultBudget

Paths == DOMAIN SizeOf

None == "none"

ASSUME SizesAssumption == SizeOf \in [Paths -> Nat]
ASSUME BudgetsAssumption == Budgets \union {DefaultBudget} \subseteq Nat
ASSUME KeysAssumption == None \notin Keys \union Paths

VARIABLES
  costModel,    \* cost_model is Some
  entries,      \* data, the most recently used first
  used,         \* used_bytes
  budget,       \* budget_bytes
  evaluating,   \* the key an evaluation is at work on
  loaded        \* history: the file of each key, as the client was last told

worker == <<costModel, entries, used, budget, evaluating, loaded>>

Entry(key, path) == [key |-> key, path |-> path, inFlight |-> 0]

KeysOf(es) == {es[i].key : i \in DOMAIN es}
PlacesOf(es, key) == {i \in DOMAIN es : es[i].key = key}
Find(es, key) == es[CHOOSE i \in PlacesOf(es, key) : TRUE]
Without(es, key) == Subsequence(es, DOMAIN es \ PlacesOf(es, key))

\* The bytes that entries take, and those at some positions.
BytesAt(es, P) == SumAt([i \in DOMAIN es |-> SizeOf[es[i].path]], P)
BytesOf(es) == BytesAt(es, DOMAIN es)

\* LruCache::get
Promoted(es, key) == <<Find(es, key)>> \o Without(es, key)

Idle(es) == {i \in DOMAIN es : es[i].inFlight = 0}
FirstIdle(es, n) == {i \in Idle(es) : Rank(Idle(es), i) <= n}

\* Enough has been evicted.
Fits(es, victims, needed, b) == used - BytesAt(es, victims) + needed <= b

\* evict_until_free: entries not in flight are evicted in the order in which LruCache
\* iterates, which is from the most recently used, until what is needed fits.
Victims(es, needed, b) ==
  LET Enough == {n \in 0 .. Cardinality(Idle(es)) : Fits(es, FirstIdle(es, n), needed, b)}
  IN  IF Enough = {} THEN Idle(es)
      ELSE FirstIdle(es, CHOOSE n \in Enough : \A m \in Enough : n <= m)

Kept(es, victims) == Subsequence(es, DOMAIN es \ victims)

----------------------------------------------------------------------------

WorkerInit ==
  /\ costModel = FALSE /\ entries = <<>> /\ used = 0 /\ budget = DefaultBudget
  /\ evaluating = None
  /\ loaded = [k \in Keys |-> None]

\* handle_init: the budget holds from now on, whether or not the cost model is loaded.
HandleInit(b) ==
  /\ evaluating = None
  /\ budget' = b
  /\ LET victims == Victims(entries, 0, b)
     IN  entries' = Kept(entries, victims) /\ used' = used - BytesAt(entries, victims)
  /\ costModel' \in {TRUE, costModel}
  /\ UNCHANGED <<evaluating, loaded>>

\* Mutant: what is loaded under the key is used whatever file it came from.
HitAnyPath(key, path) == key \in KeysOf(entries)

\* The key is there, from the same file.
Hit(key, path) == key \in KeysOf(entries) /\ Find(entries, key).path = path

LoadCached(key, path) ==
  /\ evaluating = None
  /\ Hit(key, path)
  /\ entries' = Promoted(entries, key)
  /\ loaded' = [loaded EXCEPT ![key] = path]
  /\ UNCHANGED <<costModel, used, budget, evaluating>>

\* The bytes of an entry from another file, if there is one, which goes first.
StaleBytes(key) == BytesAt(entries, PlacesOf(entries, key))

\* load_market_data fails: what the key stood for is gone.
LoadFails(key, path) ==
  /\ evaluating = None
  /\ ~Hit(key, path)
  /\ entries' = Without(entries, key)
  /\ used' = used - StaleBytes(key)
  /\ loaded' = [loaded EXCEPT ![key] = None]
  /\ UNCHANGED <<costModel, budget, evaluating>>

\* handle_load_data; OOM, if even an empty cache has not enough room, which leaves it
\* empty.
Load(key, path) ==
  /\ evaluating = None
  /\ ~Hit(key, path)
  /\ LET needed  == SizeOf[path] - StaleBytes(key)
         others  == Without(entries, key)
         victims == Victims(others, needed, budget)
         fits    == Fits(others, victims, needed, budget)
     IN  /\ entries' = (IF fits THEN <<Entry(key, path)>> ELSE <<>>) \o Kept(others, victims)
         /\ used' = used - BytesAt(others, victims) + (IF fits THEN needed ELSE - StaleBytes(key))
         /\ loaded' = [loaded EXCEPT ![key] = IF fits THEN path ELSE None]
  /\ UNCHANGED <<costModel, budget, evaluating>>

\* handle_eval takes the data; without a cost model or the data it is an error.
BeginEval(key) ==
  /\ evaluating = None
  /\ costModel /\ key \in KeysOf(entries)
  /\ evaluating' = key
  /\ entries' = [Promoted(entries, key) EXCEPT ![1].inFlight = @ + 1]
  /\ UNCHANGED <<costModel, used, budget, loaded>>

Released(es, outcome) == [es EXCEPT ![1].inFlight = @ - 1]

Outcomes == {"scores", "INVALID_WINDOW", "SPEC_FAILED", "EVAL_FAILED"}

EndEval ==
  /\ evaluating # None
  /\ \E outcome \in Outcomes : entries' = Released(Promoted(entries, evaluating), outcome)
  /\ evaluating' = None
  /\ UNCHANGED <<costModel, used, budget, loaded>>

WorkerNext ==
  \/ \E b \in Budgets : HandleInit(b)
  \/ \E k \in Keys, p \in Paths : LoadCached(k, p) \/ LoadFails(k, p) \/ Load(k, p)
  \/ \E k \in Keys : BeginEval(k)
  \/ EndEval

WorkerSpec == WorkerInit /\ [][WorkerNext]_worker

----------------------------------------------------------------------------

WorkerTypeOK ==
  /\ costModel \in BOOLEAN
  /\ entries \in Seq([key : Keys, path : Paths, inFlight : 0 .. 1])
  /\ \A i, j \in DOMAIN entries : entries[i].key = entries[j].key => i = j
  /\ used \in Nat /\ budget \in Nat
  /\ evaluating \in Keys \union {None}
  /\ loaded \in [Keys -> Paths \union {None}]

\* used_bytes is what the entries take, through replacements, evictions, refused loads
\* and new budgets, and is within the budget whenever no command is being handled.
Accounted == used = BytesOf(entries) /\ used <= budget

\* An evaluation is given the data of the file that was last loaded under its key, or
\* none: never that of an earlier file (staleness detection in handle_load_data).
LoadedData == \A i \in DOMAIN entries : entries[i].path = loaded[entries[i].key]

\* Only the evaluation in progress holds on to data, however the earlier ones ended:
\* else the entry could never be evicted (in_flight).
HeldOnlyWhileEvaluating ==
  \A i \in DOMAIN entries : entries[i].inFlight = IF entries[i].key = evaluating THEN 1 ELSE 0

\* Data is evicted only after all that was used less recently.
EvictsLeastRecent ==
  [][ LET Gone(i) == entries[i].key \notin KeysOf(entries')
          Dropped(i) == Gone(i) /\ loaded'[entries[i].key] # None   \* else its load failed
      IN  \A i, j \in DOMAIN entries : i < j /\ Dropped(i) => Gone(j) ]_entries
================================================================================
