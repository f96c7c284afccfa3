------------------------- MODULE WorkerClientProofs -------------------------
(***************************************************************************)
(* Proofs about a persistent worker (WorkerClient, MCWorker), for any      *)
(* number of calls, processes and faults.                                  *)
(*                                                                         *)
(* WorkerInv holds whoever calls: types, and processes numbered as they    *)
(* are spawned.  For one call at a time, Sole says who can be waiting and  *)
(* which process can be read, and that every message of the current        *)
(* process was numbered by this call under the id it now waits for or an   *)
(* earlier one; LoadedInv follows what the process holds when its requests *)
(* reach it, and needs the data to have been loaded before.  Which call    *)
(* that is changes when the next one is made.  For any                     *)
(* number of calls at a time and one fault, Crowd says that ids are reset  *)
(* only while no process is read (Broken), and that otherwise all that is  *)
(* waited for is on its way (Settled), so that nothing expires again.      *)
(***************************************************************************)
EXTENDS MCWorker, FiniteSetTheorems, TLAPS

Kinds == {"init", "load_data", "eval"}
Request == [id : Nat, kind : Kinds, call : Calls]
Response == [state : {"answered"}, id : Nat, kind : Kinds, call : Calls, ok : BOOLEAN]
\* A process's answer to request r.
Answer(r, ok) ==
  [state |-> "answered", id |-> r.id, kind |-> r.kind, call |-> r.call, ok |-> ok]
\* The request of call c for kind, under an id.
Numbered(id, kind, c) == [id |-> id, kind |-> kind, call |-> c]
Futures == [state : {"none", "pending", "dead"}] \cup Response
Places == {"later", "idle", "check", "eval", "wait", "expired", "restart", "terminate",
           "reap", "spawn", "init", "load", "done", "failed"}

ClientTypes ==
  /\ proc \in 0 .. MaxProcs /\ readerTask \in 0 .. MaxProcs /\ nextId \in Nat
  /\ Range(pending) \subseteq Calls

SystemTypes ==
  /\ reads \in [Processes -> 0 .. MaxProcs]
  /\ os \in [Processes -> {"none", "running", "dying", "exited"}]
  /\ memory \in [Processes -> SUBSET Whole] /\ refused \subseteq Processes
  /\ stdin \in [Processes -> Seq(Request)]
  /\ stdout \in [Processes -> Seq(Response)]
  /\ faults \in 0 .. MaxFaults

CallTypes ==
  /\ pc \in [Calls -> Places]
  /\ round \in [Calls -> 1 .. 2] /\ after \in [Calls -> {"eval", "timeout"}]
  /\ myId \in [Calls -> Nat] /\ future \in [Calls -> Futures]
  /\ reaped \in [Calls -> 0 .. MaxProcs]

\* Processes are numbered in the order they are spawned.
InTurn == Spawned = 1 .. Cardinality(Spawned)

\* The worker and its calls name spawned processes only, and nothing was ever said to or
\* by a process before it was spawned.
OnlySpawned ==
  /\ readerTask = proc /\ (proc # 0 => os[proc] # "none")
  /\ \A c \in Calls : reaped[c] # 0 => os[reaped[c]] # "none"
  /\ \A p \in Processes : os[p] = "none" =>
       /\ stdin[p] = <<>> /\ stdout[p] = <<>> /\ memory[p] = {} /\ reads[p] = 0
       /\ p \notin refused

WorkerInv == ClientTypes /\ SystemTypes /\ CallTypes /\ InTurn /\ OnlySpawned

\* The places where a call waits for a response, and what it asked for there.
Waiting == {"wait", "init", "load"}
Asked(place) == IF place = "wait" THEN "eval" ELSE IF place = "init" THEN "init" ELSE "load_data"

\* Where nothing a call asked for is under way.
AtRest == {"later", "idle", "check", "eval", "done", "failed"}

\* Every other call was made before or will be; the worker's process is the only one that
\* runs or is read, and the call's request the only one that waits.
Alone(c) ==
  /\ \A d \in Calls \ {c} :
       /\ pc[d] \in {"later", "done", "failed"} /\ future[d].state # "pending"
       /\ pc[d] = "done" => future[d].call = d /\ future[d].kind = "eval"
  /\ \A p \in Processes : reads[p] # 0 => reads[p] = p /\ p = proc
  /\ \A p \in Processes : os[p] = "running" => p = proc
  /\ DOMAIN pending = IF pc[c] \in Waiting THEN {myId[c]} ELSE {}
  /\ \A id \in DOMAIN pending : pending[id] = c

AtPlace(c) ==
  /\ pc[c] \in {"terminate", "reap", "spawn"} => \A p \in Processes : reads[p] = 0
  /\ pc[c] = "spawn" => proc = 0
  /\ pc[c] = "reap" => reaped[c] = proc /\ proc # 0
  /\ pc[c] \in Waiting => proc # 0
  /\ pc[c] \notin Waiting => future[c].state # "pending"

\* What was said to and by the process the worker has.
Exchanged == Range(stdin[proc]) \cup Range(stdout[proc])

\* A message under the id the call waits for answers what it asked.
Answers(c) ==
  /\ proc # 0 => \A m \in Exchanged :
       /\ m.id < nextId
       /\ pc[c] \in Waiting /\ m.id = myId[c] => m.call = c /\ m.kind = Asked(pc[c])
  /\ pc[c] \in Waiting /\ future[c].state = "answered" /\ future[c].ok =>
       future[c].call = c /\ future[c].kind = Asked(pc[c])
  /\ pc[c] = "done" => future[c].call = c /\ future[c].kind = "eval"

\* At most one request is under way in a running process, that which the call waits for, and
\* none when it waits for none.
OneOutstanding(c) ==
  proc # 0 /\ os[proc] = "running" =>
    /\ \/ stdout[proc] = <<>> /\ stdin[proc] = <<>>
       \/ stdout[proc] = <<>> /\ Len(stdin[proc]) = 1
       \/ stdin[proc] = <<>> /\ Len(stdout[proc]) = 1
    /\ pc[c] \in AtRest => stdin[proc] = <<>> /\ stdout[proc] = <<>>
    /\ pc[c] \in Waiting /\ future[c].state # "pending" =>
         stdin[proc] = <<>> /\ stdout[proc] = <<>>
    /\ pc[c] \in Waiting /\ future[c].state = "pending" =>
         \A m \in Exchanged : m.id = myId[c]

\* A process that runs and has refused nothing.
Fit(p) == os[p] = "running" /\ p \notin refused

\* The cost model and the data are there when evaluations arrive, unless the process has
\* refused one of them.
Data(c) ==
  /\ \A p \in Processes : Fit(p) =>
       \A m \in Range(stdin[p]) : m.kind = "eval" => memory[p] = Whole
  /\ \A p \in Processes : \A m \in Range(stdout[p]) :
       /\ m.ok => Gains(m.kind) \subseteq memory[p]
       /\ ~m.ok /\ m.kind # "eval" => p \in refused
  /\ pc[c] \in Waiting /\ future[c].state = "dead" => os[proc] # "running"
  /\ pc[c] \in {"init", "load"} /\ future[c].state = "answered" =>
       IF future[c].ok THEN Gains(Asked(pc[c])) \subseteq memory[proc] ELSE ~Fit(proc)
  /\ pc[c] = "load" /\ Fit(proc) => "cost model" \in memory[proc]
  /\ pc[c] \in AtRest \cup {"wait"} /\ proc # 0 /\ Fit(proc) => memory[proc] = Whole

Sole(c) == Alone(c) /\ AtPlace(c) /\ Answers(c)

-----------------------------------------------------------------------------
(* Queues.                                                                 *)

LEMMA AppendedRange ==
  ASSUME NEW S, NEW s \in Seq(S), NEW e \in S
  PROVE  /\ Append(s, e) \in Seq(S)
         /\ Range(Append(s, e)) = Range(s) \cup {e}
         /\ Len(Append(s, e)) = Len(s) + 1
<1>1. /\ Append(s, e) \in Seq(S)
      /\ Len(Append(s, e)) = Len(s) + 1
      /\ DOMAIN Append(s, e) = 1 .. Len(s) + 1 /\ DOMAIN s = 1 .. Len(s) /\ Len(s) \in Nat
      /\ \A i \in 1 .. Len(s) : Append(s, e)[i] = s[i]
      /\ Append(s, e)[Len(s) + 1] = e
  OBVIOUS
<1>2. \A i \in DOMAIN Append(s, e) : i \in DOMAIN s \/ i = Len(s) + 1
  BY <1>1
<1>3. DOMAIN s \subseteq DOMAIN Append(s, e) /\ Len(s) + 1 \in DOMAIN Append(s, e)
  BY <1>1
<1> QED BY <1>1, <1>2, <1>3 DEF Range

LEMMA TakenRange ==
  ASSUME NEW S, NEW s \in Seq(S), s # <<>>
  PROVE  /\ Head(s) \in S /\ Tail(s) \in Seq(S)
         /\ Range(Tail(s)) \subseteq Range(s) /\ Head(s) \in Range(s)
         /\ Len(Tail(s)) = Len(s) - 1 /\ Len(s) \in Nat /\ Len(s) >= 1
<1>1. /\ Head(s) \in S /\ Tail(s) \in Seq(S)
      /\ Len(Tail(s)) = Len(s) - 1 /\ Len(s) \in Nat /\ Len(s) >= 1
      /\ DOMAIN Tail(s) = 1 .. Len(s) - 1 /\ DOMAIN s = 1 .. Len(s)
      /\ Head(s) = s[1]
      /\ \A i \in 1 .. Len(s) - 1 : Tail(s)[i] = s[i + 1]
  OBVIOUS
<1>2. \A i \in DOMAIN Tail(s) : i + 1 \in DOMAIN s /\ Tail(s)[i] = s[i + 1]
  BY <1>1
<1>3. 1 \in DOMAIN s
  BY <1>1
<1> QED BY <1>1, <1>2, <1>3 DEF Range

LEMMA LastTaken ==
  ASSUME NEW S, NEW s \in Seq(S), Len(s) = 1
  PROVE  Tail(s) = <<>> /\ s # <<>>
<1>1. s # <<>>
  OBVIOUS
<1>2. Tail(s) \in Seq(S) /\ Len(Tail(s)) = 0
  BY <1>1
<1>3. \A e \in Seq(S) : Len(e) = 0 => e = <<>>
  OBVIOUS
<1> QED BY <1>1, <1>2, <1>3

LEMMA AppendedFirst ==
  ASSUME NEW S, NEW s \in Seq(S), NEW e \in S, s = <<>>
  PROVE  Len(Append(s, e)) = 1
OBVIOUS

LEMMA RangeTyped ==
  ASSUME NEW S, NEW s \in Seq(S)
  PROVE  Range(s) \subseteq S
BY DEF Range

LEMMA EmptyRange ==
  Range(<<>>) = {} /\ DOMAIN <<>> = {} /\ Len(<<>>) = 0
BY DEF Range

LEMMA RestrictedRange ==
  ASSUME NEW f, NEW S, S \subseteq DOMAIN f
  PROVE  /\ DOMAIN Restrict(f, S) = S
         /\ Range(Restrict(f, S)) \subseteq Range(f)
         /\ \A x \in S : Restrict(f, S)[x] = f[x]
BY DEF Restrict, Range

-----------------------------------------------------------------------------
(* What the parts of an action do to the types.                            *)

LEMMA TypesImplyTypeOK ==
  ClientTypes /\ SystemTypes /\ CallTypes => TypeOK
BY DEF ClientTypes, SystemTypes, CallTypes, TypeOK, Places

LEMMA FutureTyped ==
  \A state \in {"none", "pending", "dead"} : Future(state) \in Futures /\ Future(state).state = state
BY DEF Future, Futures

LEMMA AnsweredFuture ==
  \A f \in Futures : f.state = "answered" => f \in Response
BY DEF Futures, Response

LEMMA AnswerTyped ==
  ASSUME NEW r \in Request, NEW ok \in BOOLEAN
  PROVE  /\ Answer(r, ok) \in Response
         /\ Answer(r, ok).id = r.id /\ Answer(r, ok).kind = r.kind
         /\ Answer(r, ok).call = r.call /\ Answer(r, ok).ok = ok
BY DEF Answer, Request, Response

LEMMA GainsTyped ==
  \A kind \in Kinds : Gains(kind) \subseteq Whole
BY DEF Gains, Whole, Kinds

LEMMA AllDeadTyped ==
  ASSUME CallTypes
  PROVE  AllDead \in [Calls -> Futures]
BY FutureTyped DEF AllDead, CallTypes

LEMMA WithoutTyped ==
  ASSUME Range(pending) \subseteq Calls, NEW id
  PROVE  Range(Without(pending, id)) \subseteq Calls /\ DOMAIN Without(pending, id) = DOMAIN pending \ {id}
BY RestrictedRange DEF Without

LEMMA PostTyped ==
  ASSUME ClientTypes, SystemTypes, CallTypes, NEW c \in Calls, NEW q \in Processes,
         NEW kind \in Kinds, NEW waiting, Range(waiting) \subseteq Calls, Post(waiting, c, q, kind)
  PROVE  /\ Range(pending') \subseteq Calls /\ nextId' \in Nat
         /\ myId' \in [Calls -> Nat] /\ future' \in [Calls -> Futures]
         /\ stdin' \in [Processes -> Seq(Request)]
         /\ \A p \in Processes \ {q} : stdin'[p] = stdin[p]
         /\ stdin'[q] = Append(stdin[q], [id |-> nextId, kind |-> kind, call |-> c])
<1>1. nextId \in Nat /\ nextId' = nextId + 1
  BY DEF Post, ClientTypes
<1>2. \A id \in DOMAIN pending' : pending'[id] \in Range(waiting) \cup {c}
  BY DEF Post, Range
<1>3. Range(pending') \subseteq Calls
  BY <1>2 DEF Range
<1>4. myId' \in [Calls -> Nat]
  BY <1>1 DEF Post, CallTypes
<1>5. future' \in [Calls -> Futures]
  BY FutureTyped DEF Post, CallTypes
<1>6. [id |-> nextId, kind |-> kind, call |-> c] \in Request
  BY <1>1 DEF Request
<1>7. /\ Append(stdin[q], [id |-> nextId, kind |-> kind, call |-> c]) \in Seq(Request)
      /\ stdin' = [stdin EXCEPT ![q] = Append(@, [id |-> nextId, kind |-> kind, call |-> c])]
      /\ stdin \in [Processes -> Seq(Request)]
  BY <1>6, AppendedRange DEF Post, SystemTypes
<1> QED BY <1>1, <1>3, <1>4, <1>5, <1>7

LEMMA AfterFatalTyped ==
  ASSUME CallTypes, NEW c \in Calls, AfterFatal(c)
  PROVE  /\ pc' \in [Calls -> Places] /\ round' \in [Calls -> 1 .. 2]
         /\ pc'[c] \in {"check", "failed"} /\ \A d \in Calls \ {c} : pc'[d] = pc[d]
BY DEF CallTypes, AfterFatal, Places

LEMMA RestartedTyped ==
  ASSUME CallTypes, NEW c \in Calls, NEW ok \in BOOLEAN, Restarted(c, ok)
  PROVE  /\ pc' \in [Calls -> Places] /\ round' \in [Calls -> 1 .. 2]
         /\ pc'[c] \in {"check", "failed", "eval"} /\ \A d \in Calls \ {c} : pc'[d] = pc[d]
         /\ pc'[c] = "eval" => ok
<1>1. CASE after[c] = "timeout"
  BY <1>1, AfterFatalTyped DEF Restarted
<1>2. CASE after[c] # "timeout"
  BY <1>2 DEF Restarted, CallTypes, Places
<1> QED BY <1>1, <1>2

LEMMA LimitsAreNumbers ==
  MaxProcs \in Nat /\ MaxProcs >= 1 /\ MaxFaults \in Nat /\ MaxFaults >= 1
BY LimitsAssumption

LEMMA StillInTurn ==
  ASSUME InTurn, \A p \in Processes : os'[p] = "none" <=> os[p] = "none"
  PROVE  InTurn'
<1>1. Spawned' = Spawned
  BY DEF Spawned, Processes
<1> QED BY <1>1 DEF InTurn

-----------------------------------------------------------------------------
(* The types, and the numbering of the processes, whoever calls.           *)

LEMMA InitTypes ==
  ASSUME NEW made, InitWith(made)
  PROVE  WorkerInv
<1>0. /\ proc = 1 /\ nextId = (IF Preloaded THEN 3 ELSE 2) /\ pending = <<>> /\ readerTask = 1
      /\ stdin = [p \in Processes |-> <<>>]
      /\ stdout = [p \in Processes |-> <<>>]
      /\ pc = [c \in Calls |-> IF c \in made THEN "idle" ELSE "later"]
      /\ round = [c \in Calls |-> 1]
      /\ after = [c \in Calls |-> "eval"]
      /\ myId = [c \in Calls |-> 0]
      /\ future = [c \in Calls |-> Future("none")]
      /\ reaped = [c \in Calls |-> 0]
  BY DEF InitWith
<1>1. Range(pending) = {}
  BY <1>0, EmptyRange
<1>2. \A p \in Processes : p \in 0 .. MaxProcs
  BY DEF Processes
<1>3. ClientTypes
  BY <1>0, <1>1, LimitsAreNumbers DEF ClientTypes
<1>4. SystemTypes
  <2>1. PICK alive \in BOOLEAN :
          /\ os = [p \in Processes |-> IF p # 1 THEN "none" ELSE IF alive THEN "running" ELSE "exited"]
          /\ reads = [p \in Processes |-> IF p = 1 /\ alive THEN 1 ELSE 0]
          /\ faults = IF alive THEN 0 ELSE 1
    BY DEF InitWith
  <2>2. stdin \in [Processes -> Seq(Request)] /\ stdout \in [Processes -> Seq(Response)]
    BY <1>0
  <2>3. memory \in [Processes -> SUBSET Whole] /\ refused \subseteq Processes
    BY DEF InitWith, Whole
  <2>4. 0 \in 0 .. MaxProcs /\ 1 \in 0 .. MaxProcs /\ 0 \in 0 .. MaxFaults /\ 1 \in 0 .. MaxFaults
    BY LimitsAreNumbers
  <2> QED BY <2>1, <2>2, <2>3, <2>4 DEF SystemTypes
<1>5. CallTypes
  BY <1>0, FutureTyped, LimitsAreNumbers DEF CallTypes, Places
<1>6. 1 \in Processes /\ os[1] # "none" /\ \A p \in Processes \ {1} : os[p] = "none"
  <2>1. 1 \in Processes
    BY LimitsAreNumbers DEF Processes
  <2>2. \E alive \in BOOLEAN :
          os = [p \in Processes |-> IF p # 1 THEN "none" ELSE IF alive THEN "running" ELSE "exited"]
    BY DEF InitWith
  <2> QED BY <2>1, <2>2
<1>7. Spawned = {1}
  BY <1>6 DEF Spawned
<1>8. InTurn
  <2>1. Cardinality(Spawned) = 1
    BY <1>7, FS_Singleton
  <2> QED BY <1>7, <2>1 DEF InTurn
<1>9. OnlySpawned
  BY <1>6 DEF InitWith, OnlySpawned
<1> QED BY <1>3, <1>4, <1>5, <1>8, <1>9 DEF WorkerInv

LEMMA CallTypesKept ==
  ASSUME WorkerInv, NEW c \in Calls, Call(c) \/ HealthCheck(c)
  PROVE  WorkerInv'
<1>1. pc' \in [Calls -> Places] /\ after' \in [Calls -> {"eval", "timeout"}]
  BY DEF WorkerInv, CallTypes, Places, Call, HealthCheck
<1>2. UNCHANGED <<worker, reads, system, round, myId, future, reaped, faults>>
  BY DEF Call, HealthCheck
<1>3. ClientTypes' /\ SystemTypes' /\ CallTypes'
  BY <1>1, <1>2 DEF WorkerInv, ClientTypes, SystemTypes, CallTypes, worker, system
<1>4. InTurn' /\ OnlySpawned'
  BY <1>2 DEF WorkerInv, InTurn, Spawned, OnlySpawned, worker, system
<1> QED BY <1>3, <1>4 DEF WorkerInv

LEMMA SendEvalTypesKept ==
  ASSUME WorkerInv, NEW c \in Calls, SendEval(c)
  PROVE  WorkerInv'
<1> USE DEF WorkerInv
<1>0. UNCHANGED <<proc, readerTask, reads, os, stdout, memory, refused, after, reaped, faults>>
  BY DEF SendEval
<1>1. CASE Healthy /\ Post(pending, c, proc, "eval") /\ UNCHANGED round
           /\ pc' = [pc EXCEPT ![c] = "wait"]
  <2>1. proc \in Processes /\ os[proc] # "none"
    BY <1>1 DEF Healthy, ClientTypes, Processes, OnlySpawned
  <2>2. "eval" \in Kinds /\ Range(pending) \subseteq Calls
    BY DEF Kinds, ClientTypes
  <2>3. /\ Range(pending') \subseteq Calls /\ nextId' \in Nat
        /\ myId' \in [Calls -> Nat] /\ future' \in [Calls -> Futures]
        /\ stdin' \in [Processes -> Seq(Request)]
        /\ \A p \in Processes \ {proc} : stdin'[p] = stdin[p]
    BY <1>1, <2>1, <2>2, PostTyped
  <2>4. pc' \in [Calls -> Places]
    BY <1>1 DEF CallTypes, Places
  <2>5. ClientTypes' /\ SystemTypes' /\ CallTypes'
    BY <1>0, <1>1, <2>3, <2>4 DEF ClientTypes, SystemTypes, CallTypes
  <2>6. OnlySpawned'
    BY <1>0, <2>1, <2>3 DEF OnlySpawned
  <2> QED BY <1>0, <2>5, <2>6, StillInTurn
<1>2. CASE AfterFatal(c) /\ nextId' = (IF proc = 0 THEN nextId ELSE nextId + 1)
           /\ UNCHANGED <<pending, myId, future, stdin>>
  <2>0. pc' \in [Calls -> Places] /\ round' \in [Calls -> 1 .. 2]
    BY <1>2, AfterFatalTyped
  <2>a. nextId' \in Nat
    BY <1>2 DEF ClientTypes
  <2>1. ClientTypes' /\ SystemTypes' /\ CallTypes'
    BY <1>0, <1>2, <2>0, <2>a DEF ClientTypes, SystemTypes, CallTypes
  <2>2. OnlySpawned'
    BY <1>0, <1>2 DEF OnlySpawned
  <2> QED BY <1>0, <2>1, <2>2, StillInTurn
<1> QED BY <1>1, <1>2 DEF SendEval

\* An answer is taken, or a future found dead.
LEMMA TakenTypesKept ==
  ASSUME WorkerInv, NEW c \in Calls,
         EvalAnswered(c) \/ EvalDead(c) \/ EndRestart(c) \/ LoadFailed(c)
  PROVE  WorkerInv'
<1> USE DEF WorkerInv
<1>0. /\ pending' = Without(pending, myId[c])
      /\ UNCHANGED <<proc, nextId, readerTask, reads, system, after, myId, future, reaped, faults>>
  BY DEF EvalAnswered, EvalDead, EndRestart, LoadFailed
<1>1. pc' \in [Calls -> Places] /\ round' \in [Calls -> 1 .. 2]
  <2>1. CASE EvalAnswered(c) \/ LoadFailed(c)
    BY <2>1 DEF EvalAnswered, LoadFailed, CallTypes, Places
  <2>2. CASE EvalDead(c)
    BY <2>2, AfterFatalTyped DEF EvalDead
  <2>3. CASE EndRestart(c)
    BY <2>3, RestartedTyped DEF EndRestart
  <2> QED BY <2>1, <2>2, <2>3
<1>2. Range(pending') \subseteq Calls
  BY <1>0, WithoutTyped DEF ClientTypes
<1>3. ClientTypes' /\ SystemTypes' /\ CallTypes'
  BY <1>0, <1>1, <1>2 DEF ClientTypes, SystemTypes, CallTypes, system
<1>4. OnlySpawned' /\ InTurn'
  BY <1>0 DEF OnlySpawned, system, InTurn, Spawned
<1> QED BY <1>3, <1>4

LEMMA EvalTimeoutTypesKept ==
  ASSUME WorkerInv, NEW cs \in SUBSET Calls, EvalTimeout(cs)
  PROVE  WorkerInv'
<1> USE DEF WorkerInv
<1>0. UNCHANGED <<proc, nextId, readerTask, reads, system, round, after, myId, reaped>>
  BY DEF EvalTimeout
<1>1. Range(pending') \subseteq Calls
  BY RestrictedRange DEF EvalTimeout, ClientTypes
<1>2. pc' \in [Calls -> Places] /\ future' \in [Calls -> Futures]
  BY FutureTyped DEF EvalTimeout, CallTypes, Places
<1>3. faults' \in 0 .. MaxFaults
  <2>1. faults' = faults \/ Fault
    BY DEF EvalTimeout
  <2>2. faults \in 0 .. MaxFaults
    BY DEF SystemTypes
  <2> QED BY <2>1, <2>2, LimitsAreNumbers DEF Fault
<1>4. ClientTypes' /\ SystemTypes' /\ CallTypes'
  BY <1>0, <1>1, <1>2, <1>3 DEF ClientTypes, SystemTypes, CallTypes, system
<1>5. OnlySpawned' /\ InTurn'
  BY <1>0 DEF OnlySpawned, system, InTurn, Spawned
<1> QED BY <1>4, <1>5

LEMMA CleanupTypesKept ==
  ASSUME WorkerInv, NEW c \in Calls, BeginCleanup(c) \/ EndCleanup(c)
  PROVE  WorkerInv'
<1> USE DEF WorkerInv
<1>0. /\ UNCHANGED <<stdin, stdout, memory, refused, round, myId, faults>>
      /\ after' \in [Calls -> {"eval", "timeout"}]
  BY DEF BeginCleanup, EndCleanup, CallTypes
<1>1. CASE /\ readerTask # 0 /\ reads' = [reads EXCEPT ![readerTask] = 0] /\ future' = AllDead
           /\ pc' = [pc EXCEPT ![c] = "terminate"] /\ UNCHANGED <<worker, os, reaped>>
  <2>0. 0 \in 0 .. MaxProcs
    BY LimitsAreNumbers
  <2>a. reads' \in [Processes -> 0 .. MaxProcs]
    BY <1>1, <2>0 DEF SystemTypes
  <2>b. pc' \in [Calls -> Places]
    BY <1>1 DEF CallTypes, Places
  <2>1. ClientTypes' /\ SystemTypes' /\ CallTypes'
    BY <1>0, <1>1, <2>a, <2>b, AllDeadTyped DEF ClientTypes, SystemTypes, CallTypes, worker
  <2>2. OnlySpawned'
    BY <1>0, <1>1 DEF OnlySpawned, worker, SystemTypes
  <2> QED BY <1>1, <2>1, <2>2, StillInTurn
<1>2. CASE proc # 0 /\ Terminate(c) /\ UNCHANGED <<worker, future, reads>>
  <2>1. proc \in Processes /\ os[proc] # "none" /\ proc \in 0 .. MaxProcs
    BY <1>2 DEF ClientTypes, Processes, OnlySpawned
  <2>2. /\ os' \in [Processes -> {"none", "running", "dying", "exited"}]
        /\ \A p \in Processes : os'[p] = "none" <=> os[p] = "none"
    BY <1>2, <2>1 DEF Terminate, SystemTypes
  <2>3. /\ reaped' \in [Calls -> 0 .. MaxProcs] /\ pc' \in [Calls -> Places]
        /\ \A d \in Calls : reaped'[d] # 0 => reaped'[d] \in Processes /\ os[reaped'[d]] # "none"
    BY <1>2, <2>1 DEF Terminate, CallTypes, OnlySpawned, Processes, Places
  <2>4. ClientTypes' /\ SystemTypes' /\ CallTypes'
    BY <1>0, <1>2, <2>2, <2>3 DEF ClientTypes, SystemTypes, CallTypes, worker
  <2>5. OnlySpawned'
    BY <1>0, <1>2, <2>1, <2>2, <2>3 DEF OnlySpawned, worker
  <2> QED BY <2>2, <2>4, <2>5, StillInTurn
<1>3. CASE Clear(c) /\ UNCHANGED <<os, reaped, reads>>
  <2>1. Range(pending') = {}
    BY <1>3, EmptyRange DEF Clear
  <2>2. ClientTypes'
    BY <1>3, <2>1, LimitsAssumption DEF ClientTypes, Clear
  <2>3. SystemTypes' /\ CallTypes'
    BY <1>0, <1>3, AllDeadTyped DEF SystemTypes, CallTypes, Clear, Places
  <2>4. OnlySpawned'
    BY <1>0, <1>3 DEF OnlySpawned, Clear
  <2> QED BY <1>3, <2>2, <2>3, <2>4, StillInTurn
<1>4. CASE BeginCleanup(c)
  BY <1>1, <1>2, <1>3, <1>4 DEF BeginCleanup, worker
<1>5. CASE EndCleanup(c)
  BY <1>1, <1>2, <1>3, <1>5 DEF EndCleanup, worker
<1> QED BY <1>4, <1>5

\* A process is numbered after those spawned before it.
LEMMA SpawnedNext ==
  ASSUME WorkerInv, NEW n, n = Cardinality(Spawned) + 1, n <= MaxProcs,
         os' = [os EXCEPT ![n] = "running"]
  PROVE  /\ n \in Processes /\ os[n] = "none" /\ n # 0 /\ n \in 0 .. MaxProcs
         /\ os' \in [Processes -> {"none", "running", "dying", "exited"}]
         /\ InTurn'
<1> USE DEF WorkerInv
<1>1. IsFiniteSet(Processes) /\ Spawned \subseteq Processes
  BY LimitsAreNumbers, FS_Interval DEF Processes, Spawned
<1>2. IsFiniteSet(Spawned) /\ Cardinality(Spawned) \in Nat
  BY <1>1, FS_Subset, FS_CardinalityType
<1>3. n \in Processes /\ n \notin Spawned
  <2>1. n \in Nat /\ n >= 1
    BY <1>2
  <2>2. n \notin 1 .. Cardinality(Spawned)
    BY <1>2
  <2>3. n \notin Spawned
    BY <2>2 DEF InTurn
  <2>4. n \in 1 .. MaxProcs
    BY <2>1, LimitsAreNumbers
  <2> QED BY <2>3, <2>4 DEF Processes
<1>4. os[n] = "none"
  BY <1>3 DEF Spawned
<1>5. os' \in [Processes -> {"none", "running", "dying", "exited"}]
  BY DEF SystemTypes
<1>6. Spawned' = Spawned \cup {n}
  BY <1>3, <1>5 DEF Spawned, SystemTypes, Processes
<1>7. Cardinality(Spawned') = n
  BY <1>2, <1>3, <1>6, FS_AddElement
<1>8. Spawned \cup {n} = 1 .. n
  <2>1. 1 .. n = (1 .. Cardinality(Spawned)) \cup {n}
    BY <1>2
  <2> QED BY <2>1 DEF InTurn
<1>9. InTurn'
  BY <1>6, <1>7, <1>8 DEF InTurn
<1> QED BY <1>3, <1>4, <1>5, <1>9, <1>2, LimitsAreNumbers

LEMMA SpawnTypesKept ==
  ASSUME WorkerInv, NEW c \in Calls, Spawn(c)
  PROVE  WorkerInv'
<1> DEFINE n == Cardinality(Spawned) + 1
<1> USE DEF WorkerInv
<1>0. /\ n <= MaxProcs /\ os' = [os EXCEPT ![n] = "running"]
      /\ proc' = n /\ readerTask' = n /\ reads' = [reads EXCEPT ![n] = n]
      /\ Post(pending, c, n, "init") /\ pc' = [pc EXCEPT ![c] = "init"]
      /\ UNCHANGED <<stdout, memory, refused, round, after, reaped, faults>>
  BY DEF Spawn
<1>1. /\ n \in Processes /\ os[n] = "none" /\ n # 0 /\ n \in 0 .. MaxProcs
      /\ os' \in [Processes -> {"none", "running", "dying", "exited"}]
      /\ InTurn'
  BY <1>0, SpawnedNext
<1> HIDE DEF n
<1>2. "init" \in Kinds /\ Range(pending) \subseteq Calls
  BY DEF Kinds, ClientTypes
<1>3. /\ Range(pending') \subseteq Calls /\ nextId' \in Nat
      /\ myId' \in [Calls -> Nat] /\ future' \in [Calls -> Futures]
      /\ stdin' \in [Processes -> Seq(Request)]
      /\ \A p \in Processes \ {n} : stdin'[p] = stdin[p]
  BY <1>0, <1>1, <1>2, PostTyped
<1>4. pc' \in [Calls -> Places]
  BY <1>0 DEF CallTypes, Places
<1>5. ClientTypes' /\ SystemTypes' /\ CallTypes'
  BY <1>0, <1>1, <1>3, <1>4 DEF ClientTypes, SystemTypes, CallTypes
<1>6. OnlySpawned'
  <2>1. /\ os'[n] = "running"
        /\ \A p \in Processes \ {n} : os'[p] = os[p] /\ reads'[p] = reads[p]
    BY <1>0, <1>1 DEF SystemTypes
  <2>2. \A p \in Processes : os'[p] = "none" =>
          stdin'[p] = <<>> /\ stdout'[p] = <<>> /\ memory'[p] = {} /\ reads'[p] = 0 /\ p \notin refused'
    BY <1>0, <1>3, <2>1 DEF OnlySpawned
  <2>3. \A d \in Calls : reaped'[d] # 0 => os'[reaped'[d]] # "none"
    <3>1. \A d \in Calls : reaped[d] # 0 => reaped[d] \in Processes /\ os[reaped[d]] # "none"
      BY LimitsAreNumbers DEF OnlySpawned, CallTypes, Processes
    <3> QED BY <1>0, <1>1, <2>1, <3>1
  <2> QED BY <1>0, <2>1, <2>2, <2>3 DEF OnlySpawned
<1> QED BY <1>1, <1>5, <1>6

LEMMA ReplayTypesKept ==
  ASSUME WorkerInv, NEW c \in Calls, Replay(c)
  PROVE  WorkerInv'
<1> USE DEF WorkerInv
<1>0. UNCHANGED <<proc, readerTask, reads, os, stdout, memory, refused, after, reaped, faults>>
  BY DEF Replay
<1>1. CASE /\ Healthy /\ Post(Without(pending, myId[c]), c, proc, "load_data")
           /\ pc' = [pc EXCEPT ![c] = "load"] /\ UNCHANGED round
  <2>1. proc \in Processes /\ os[proc] # "none"
    BY <1>1 DEF Healthy, ClientTypes, Processes, OnlySpawned
  <2>2. "load_data" \in Kinds /\ Range(Without(pending, myId[c])) \subseteq Calls
    BY WithoutTyped DEF Kinds, ClientTypes
  <2>3. /\ Range(pending') \subseteq Calls /\ nextId' \in Nat
        /\ myId' \in [Calls -> Nat] /\ future' \in [Calls -> Futures]
        /\ stdin' \in [Processes -> Seq(Request)]
        /\ \A p \in Processes \ {proc} : stdin'[p] = stdin[p]
    BY <1>1, <2>1, <2>2, PostTyped
  <2>4. pc' \in [Calls -> Places]
    BY <1>1 DEF CallTypes, Places
  <2>5. ClientTypes' /\ SystemTypes' /\ CallTypes'
    BY <1>0, <1>1, <2>3, <2>4 DEF ClientTypes, SystemTypes, CallTypes
  <2>6. OnlySpawned'
    BY <1>0, <2>1, <2>3 DEF OnlySpawned
  <2> QED BY <1>0, <2>5, <2>6, StillInTurn
<1>2. CASE /\ \/ pc' = [pc EXCEPT ![c] = "failed"] /\ UNCHANGED round
              \/ Restarted(c, ~Preloaded)
           /\ pending' = Without(pending, myId[c])
           /\ UNCHANGED <<nextId, myId, future, stdin>>
  <2>1. pc' \in [Calls -> Places] /\ round' \in [Calls -> 1 .. 2]
    <3>1. CASE pc' = [pc EXCEPT ![c] = "failed"] /\ UNCHANGED round
      BY <3>1 DEF CallTypes, Places
    <3>2. CASE Restarted(c, ~Preloaded)
      BY <3>2, RestartedTyped
    <3> QED BY <1>2, <3>1, <3>2
  <2>2. Range(pending') \subseteq Calls
    BY <1>2, WithoutTyped DEF ClientTypes
  <2>3. ClientTypes' /\ SystemTypes' /\ CallTypes'
    BY <1>0, <1>2, <2>1, <2>2 DEF ClientTypes, SystemTypes, CallTypes
  <2>4. OnlySpawned'
    BY <1>0, <1>2 DEF OnlySpawned
  <2> QED BY <1>0, <2>3, <2>4, StillInTurn
<1> QED BY <1>1, <1>2 DEF Replay

LEMMA ReadLineTypesKept ==
  ASSUME WorkerInv, NEW p \in Processes, ReadLine(p)
  PROVE  WorkerInv'
<1> DEFINE q == reads[p]
           m == Head(stdout[q])
           delivered == [c \in Calls |->
             IF c \in Addressee(m) /\ future[c].state = "pending" THEN m ELSE future[c]]
<1> USE DEF WorkerInv
<1>0. /\ q # 0 /\ stdout[q] # <<>>
      /\ stdout' = [stdout EXCEPT ![q] = Tail(@)]
      /\ reads' = [reads EXCEPT ![p] = NextStream(p)]
      /\ future' = [c \in Calls |->
           IF NextStream(p) = 0 /\ c \in Range(pending) /\ delivered[c].state = "pending"
           THEN Future("dead") ELSE delivered[c]]
      /\ UNCHANGED <<worker, os, stdin, memory, refused, pc, round, after, myId, reaped, faults>>
  BY DEF ReadLine
<1>1. q \in Processes /\ os[q] # "none" /\ os[p] # "none"
  <2>1. q \in Processes
    <3>1. q \in 0 .. MaxProcs /\ q # 0
      BY <1>0 DEF SystemTypes
    <3> QED BY <3>1, LimitsAreNumbers DEF Processes
  <2> QED BY <1>0, <2>1 DEF OnlySpawned
<1>2. m \in Response /\ Tail(stdout[q]) \in Seq(Response)
  <2>1. stdout[q] \in Seq(Response)
    BY <1>1 DEF SystemTypes
  <2> QED BY <1>0, <2>1, TakenRange
<1>3. m \in Futures
  BY <1>2 DEF Futures
<1>4. delivered \in [Calls -> Futures]
  BY <1>3 DEF CallTypes
<1> HIDE DEF q, m, delivered
<1>5. future' \in [Calls -> Futures]
  BY <1>0, <1>4, FutureTyped
<1>6. NextStream(p) \in 0 .. MaxProcs
  BY LimitsAreNumbers DEF NextStream, ClientTypes
<1>7. reads' \in [Processes -> 0 .. MaxProcs] /\ stdout' \in [Processes -> Seq(Response)]
  BY <1>0, <1>1, <1>2, <1>6 DEF SystemTypes
<1>8. ClientTypes' /\ SystemTypes' /\ CallTypes'
  BY <1>0, <1>5, <1>7 DEF ClientTypes, SystemTypes, CallTypes, worker
<1>9. OnlySpawned'
  BY <1>0, <1>1 DEF OnlySpawned, worker, SystemTypes
<1> QED BY <1>0, <1>8, <1>9, StillInTurn

LEMMA ProcessTypesKept ==
  ASSUME WorkerInv, NEW p \in Processes, ReadEOF(p) \/ Die(p) \/ Exited(p)
  PROVE  WorkerInv'
<1> USE DEF WorkerInv
<1>1. /\ UNCHANGED <<worker, stdin, stdout, memory, refused, pc, round, after, myId, reaped>>
      /\ future' = future \/ future' = AllDead
  BY DEF ReadEOF, Die, Exited, system
<1>2. /\ os' \in [Processes -> {"none", "running", "dying", "exited"}]
      /\ \A r \in Processes : os'[r] = "none" <=> os[r] = "none"
  BY DEF ReadEOF, Die, Exited, system, SystemTypes
<1>3. reads' = reads \/ reads' = [reads EXCEPT ![p] = 0]
  BY DEF ReadEOF, Die, Exited
<1>4. faults' \in 0 .. MaxFaults
  <2>1. faults' = faults \/ Fault
    BY DEF ReadEOF, Die, Exited
  <2>2. faults \in 0 .. MaxFaults
    BY DEF SystemTypes
  <2> QED BY <2>1, <2>2, LimitsAreNumbers DEF Fault
<1>5. 0 \in 0 .. MaxProcs
  BY LimitsAreNumbers
<1>6. reads' \in [Processes -> 0 .. MaxProcs]
  BY <1>3, <1>5 DEF SystemTypes
<1>7. future' \in [Calls -> Futures]
  BY <1>1, AllDeadTyped DEF CallTypes
<1>8. ClientTypes' /\ SystemTypes' /\ CallTypes'
  BY <1>1, <1>2, <1>4, <1>6, <1>7 DEF ClientTypes, SystemTypes, CallTypes, worker
<1>9. OnlySpawned'
  <2>1. /\ readerTask' = proc' /\ (proc' # 0 => os'[proc'] # "none")
        /\ \A c \in Calls : reaped'[c] # 0 => os'[reaped'[c]] # "none"
    BY <1>1, <1>2 DEF OnlySpawned, worker, ClientTypes, CallTypes, Processes
  <2>2. \A r \in Processes : os'[r] = "none" =>
          stdin'[r] = <<>> /\ stdout'[r] = <<>> /\ memory'[r] = {} /\ reads'[r] = 0 /\ r \notin refused'
    BY <1>1, <1>2, <1>3 DEF OnlySpawned, SystemTypes
  <2> QED BY <2>1, <2>2 DEF OnlySpawned
<1> QED BY <1>2, <1>8, <1>9, StillInTurn

LEMMA ServeTypesKept ==
  ASSUME WorkerInv, NEW p \in Processes, Serve(p)
  PROVE  WorkerInv'
<1> DEFINE r == Head(stdin[p])
<1> USE DEF WorkerInv
<1>0. PICK ok \in BOOLEAN :
        /\ os[p] = "running" /\ stdin[p] # <<>>
        /\ stdin' = [stdin EXCEPT ![p] = Tail(@)]
        /\ stdout' = [stdout EXCEPT ![p] = Append(@, Answer(r, ok))]
        /\ memory' = [memory EXCEPT ![p] = IF ok THEN @ \cup Gains(r.kind) ELSE @]
        /\ refused' = IF ok \/ r.kind = "eval" THEN refused ELSE refused \cup {p}
        /\ UNCHANGED <<worker, reads, os, pc, round, after, myId, future, reaped, faults>>
  BY DEF Serve, Answer
<1>1. r \in Request /\ Tail(stdin[p]) \in Seq(Request)
  <2>1. stdin[p] \in Seq(Request)
    BY DEF SystemTypes
  <2> QED BY <1>0, <2>1, TakenRange
<1>2. Answer(r, ok) \in Response
  BY <1>1, AnswerTyped
<1>3. Gains(r.kind) \subseteq Whole
  BY <1>1, GainsTyped DEF Request
<1> HIDE DEF r
<1>4. memory' \in [Processes -> SUBSET Whole] /\ refused' \subseteq Processes
  <2>1. memory[p] \cup Gains(r.kind) \in SUBSET Whole
    BY <1>3 DEF SystemTypes
  <2> QED BY <1>0, <2>1 DEF SystemTypes
<1>5. stdin' \in [Processes -> Seq(Request)] /\ stdout' \in [Processes -> Seq(Response)]
  BY <1>0, <1>1, <1>2, AppendedRange DEF SystemTypes
<1>6. ClientTypes' /\ SystemTypes' /\ CallTypes'
  BY <1>0, <1>4, <1>5 DEF ClientTypes, SystemTypes, CallTypes, worker
<1>7. OnlySpawned'
  BY <1>0 DEF OnlySpawned, worker, SystemTypes
<1> QED BY <1>0, <1>6, <1>7, StillInTurn

\* The next call of one after the other is made.
LEMMA NextCallTypesKept ==
  ASSUME WorkerInv, NEW c \in Calls, NextCall(c)
  PROVE  WorkerInv'
<1>1. pc' \in [Calls -> Places]
  BY DEF WorkerInv, CallTypes, Places, NextCall
<1>2. UNCHANGED <<worker, reads, system, round, after, myId, future, reaped, faults>>
  BY DEF NextCall
<1>3. ClientTypes' /\ SystemTypes' /\ CallTypes'
  BY <1>1, <1>2 DEF WorkerInv, ClientTypes, SystemTypes, CallTypes, worker, system
<1>4. InTurn' /\ OnlySpawned'
  BY <1>2 DEF WorkerInv, InTurn, Spawned, OnlySpawned, worker, system
<1> QED BY <1>3, <1>4 DEF WorkerInv

LEMMA TypesKept ==
  ASSUME WorkerInv, [Next]_vars
  PROVE  WorkerInv'
<1>1. CASE \E c \in Calls : CallStep(c)
  BY <1>1, CallTypesKept, SendEvalTypesKept, TakenTypesKept, CleanupTypesKept, SpawnTypesKept,
     ReplayTypesKept DEF CallStep
<1>2. CASE \E p \in Processes : ProcessStep(p) \/ Die(p)
  BY <1>2, ReadLineTypesKept, ProcessTypesKept, ServeTypesKept DEF ProcessStep
<1>3. CASE \E cs \in SUBSET Calls : EvalTimeout(cs)
  BY <1>3, EvalTimeoutTypesKept
<1>4. CASE UNCHANGED vars
  BY <1>4 DEF vars, worker, system, WorkerInv, ClientTypes, SystemTypes, CallTypes, InTurn, Spawned,
     OnlySpawned
<1> QED BY <1>1, <1>2, <1>3, <1>4 DEF Next

-----------------------------------------------------------------------------
(* One call at a time: what is asked, what is answered, and by which       *)
(* process.                                                                *)

LEMMA SolePending ==
  ASSUME NEW c \in Calls, Alone(c), CallTypes
  PROVE  /\ pc[c] \notin Waiting =>
              DOMAIN pending = {} /\ Range(pending) = {} /\ Cardinality(DOMAIN pending) = 0
              /\ AllDead = future
         /\ pc[c] \in Waiting => DOMAIN pending = {myId[c]} /\ Range(pending) = {c} /\ pending[myId[c]] = c
<1>1. CASE pc[c] \notin Waiting
  <2>1. DOMAIN pending = {}
    BY <1>1 DEF Alone
  <2>2. Range(pending) = {}
    BY <2>1 DEF Range
  <2>3. AllDead = future
    BY <2>2 DEF AllDead, CallTypes
  <2> QED BY <1>1, <2>1, <2>2, <2>3, FS_EmptySet
<1>2. CASE pc[c] \in Waiting
  BY <1>2 DEF Alone, Range
<1> QED BY <1>1, <1>2

LEMMA PostSole ==
  ASSUME NEW c \in Calls, WorkerInv, NEW q \in Processes, NEW kind \in Kinds,
         NEW waiting, DOMAIN waiting = {}, Post(waiting, c, q, kind)
  PROVE  /\ \A id : id \in DOMAIN pending' <=> id = nextId
         /\ \A id \in DOMAIN pending' : pending'[id] = c
         /\ myId'[c] = nextId /\ nextId' = nextId + 1
         /\ future'[c].state = "pending" /\ \A d \in Calls \ {c} : future'[d] = future[d]
         /\ Numbered(nextId, kind, c) \in Request
         /\ \A m : m \in Range(stdin'[q]) <=> m \in Range(stdin[q]) \/ m = Numbered(nextId, kind, c)
         /\ stdin[q] = <<>> => Len(stdin'[q]) = 1
         /\ \A p \in Processes \ {q} : stdin'[p] = stdin[p]
<1> USE DEF WorkerInv
<1>1. myId'[c] = nextId /\ nextId' = nextId + 1
  BY DEF Post, CallTypes
<1>2. pending' = [id \in {nextId} |-> c]
  BY DEF Post
<1>3. future'[c].state = "pending" /\ \A d \in Calls \ {c} : future'[d] = future[d]
  BY FutureTyped DEF Post, CallTypes
<1>4. Numbered(nextId, kind, c) \in Request
  BY DEF Request, ClientTypes, Numbered
<1>5. /\ stdin'[q] = Append(stdin[q], Numbered(nextId, kind, c))
      /\ stdin[q] \in Seq(Request)
      /\ \A p \in Processes \ {q} : stdin'[p] = stdin[p]
  BY DEF Post, SystemTypes, Numbered
<1>6. stdin[q] = <<>> => Len(stdin'[q]) = 1
  BY <1>4, <1>5, AppendedFirst
<1> QED BY <1>1, <1>2, <1>3, <1>4, <1>5, <1>6, AppendedRange

\* A step that says nothing to the process and leaves no request waiting.
LEMMA SoleMoves ==
  ASSUME NEW c \in Calls, WorkerInv, Sole(c),
         UNCHANGED <<proc, reads, os, stdin, stdout, future>>,
         nextId' \in Nat, nextId' >= nextId, DOMAIN pending' = {},
         pc' = [pc EXCEPT ![c] = pc'[c]],
         pc'[c] \in AtRest \cup {"expired", "restart"},
         future[c].state # "pending",
         pc'[c] = "done" => future[c].call = c /\ future[c].kind = "eval"
  PROVE  Sole(c)'
<1> USE DEF WorkerInv, Sole
<1>1. \A d \in Calls \ {c} : pc'[d] = pc[d]
  BY DEF CallTypes
<1>2. pc'[c] \notin Waiting
  BY DEF Waiting, AtRest
<1>3. Alone(c)'
  BY <1>1, <1>2 DEF Alone
<1>4. AtPlace(c)'
  BY <1>2 DEF AtPlace, AtRest
<1>5. Answers(c)'
  <2>1. Exchanged' = Exchanged
    BY DEF Exchanged
  <2>2. \A m \in Exchanged : proc # 0 => m \in Request \cup Response
    <3> SUFFICES ASSUME proc # 0 PROVE \A m \in Exchanged : m \in Request \cup Response
      OBVIOUS
    <3>1. proc \in Processes
      BY LimitsAreNumbers DEF ClientTypes, Processes
    <3> QED BY <3>1, RangeTyped DEF Exchanged, SystemTypes
  <2>3. \A m \in Exchanged : proc # 0 => m.id \in Nat
    BY <2>2 DEF Request, Response
  <2>4. \A m \in Exchanged : proc # 0 => m.id < nextId'
    BY <2>3 DEF Answers, ClientTypes
  <2> QED BY <1>2, <2>1, <2>4 DEF Answers
<1> QED BY <1>3, <1>4, <1>5

LEMMA SoleCallKept ==
  ASSUME NEW c \in Calls, WorkerInv, Sole(c), Call(c) \/ HealthCheck(c)
  PROVE  Sole(c)'
<1>1. pc[c] \in {"idle", "check"} /\ pc'[c] \in {"check", "eval", "restart"}
      /\ pc' = [pc EXCEPT ![c] = pc'[c]]
  BY DEF Call, HealthCheck, WorkerInv, CallTypes
<1>2. UNCHANGED <<worker, reads, system, future>>
  BY DEF Call, HealthCheck
<1>3. pc[c] \notin Waiting
  BY <1>1 DEF Waiting
<1>a. DOMAIN pending = {}
  BY <1>3, SolePending DEF Sole, WorkerInv
<1>4. DOMAIN pending' = {} /\ nextId' \in Nat /\ nextId' >= nextId
  BY <1>2, <1>a DEF worker, WorkerInv, ClientTypes
<1>5. future[c].state # "pending"
  BY <1>3 DEF Sole, AtPlace
<1> QED BY <1>1, <1>2, <1>4, <1>5, SoleMoves DEF worker, system, AtRest

LEMMA SoleTakenKept ==
  ASSUME NEW c \in Calls, WorkerInv, Sole(c),
         EvalAnswered(c) \/ EvalDead(c) \/ EndRestart(c) \/ LoadFailed(c)
  PROVE  Sole(c)'
<1>1. /\ pc[c] \in Waiting /\ future[c].state # "pending"
      /\ pending' = Without(pending, myId[c])
      /\ UNCHANGED <<proc, nextId, reads, os, stdin, stdout, future>>
  BY DEF EvalAnswered, EvalDead, EndRestart, LoadFailed, Waiting, system
<1>2. /\ pc' = [pc EXCEPT ![c] = pc'[c]]
      /\ pc'[c] \in {"check", "failed", "eval", "done"}
      /\ pc'[c] = "done" => pc[c] = "wait" /\ future[c].state = "answered" /\ future[c].ok
  <2>1. CASE EvalAnswered(c) \/ LoadFailed(c)
    BY <2>1 DEF EvalAnswered, LoadFailed, WorkerInv, CallTypes
  <2>2. CASE EvalDead(c)
    BY <2>2 DEF EvalDead, AfterFatal, WorkerInv, CallTypes
  <2>3. CASE EndRestart(c)
    BY <2>3 DEF EndRestart, Restarted, AfterFatal, WorkerInv, CallTypes
  <2> QED BY <2>1, <2>2, <2>3
<1>3. pc'[c] = "done" => future[c].call = c /\ future[c].kind = "eval"
  BY <1>2 DEF Sole, Answers, Waiting, Asked
<1>4. DOMAIN pending' = {}
  <2>1. DOMAIN pending = {myId[c]}
    BY <1>1, SolePending DEF Sole, WorkerInv
  <2> QED BY <1>1, <2>1, WithoutTyped DEF WorkerInv, ClientTypes
<1>5. nextId' \in Nat /\ nextId' >= nextId
  BY <1>1 DEF WorkerInv, ClientTypes
<1> QED BY <1>1, <1>2, <1>3, <1>4, <1>5, SoleMoves DEF AtRest

\* A step that sends one request to the process the worker has.
LEMMA SolePosts ==
  ASSUME NEW c \in Calls, WorkerInv, Sole(c), proc # 0,
         NEW place \in Waiting, NEW kind \in Kinds, kind = Asked(place),
         NEW waiting, DOMAIN waiting = {},
         Post(waiting, c, proc, kind),
         pc' = [pc EXCEPT ![c] = place], UNCHANGED <<proc, reads, os, stdout, reaped>>
  PROVE  Sole(c)'
<1>1. proc \in Processes
  BY LimitsAreNumbers DEF WorkerInv, ClientTypes, Processes
<1>3. /\ \A id : id \in DOMAIN pending' <=> id = nextId
      /\ \A id \in DOMAIN pending' : pending'[id] = c
      /\ myId'[c] = nextId /\ nextId' = nextId + 1
      /\ future'[c].state = "pending" /\ \A d \in Calls \ {c} : future'[d] = future[d]
      /\ Numbered(nextId, kind, c) \in Request
      /\ \A m : m \in Range(stdin'[proc]) <=> m \in Range(stdin[proc]) \/ m = Numbered(nextId, kind, c)
  BY <1>1, PostSole
<1> USE DEF WorkerInv, Sole
<1>4. pc'[c] = place /\ \A d \in Calls \ {c} : pc'[d] = pc[d]
  BY DEF CallTypes
<1>5. Alone(c)'
  <2>1. DOMAIN pending' = {nextId}
    BY <1>3
  <2> QED BY <1>3, <1>4, <2>1 DEF Alone
<1>6. AtPlace(c)'
  BY <1>4 DEF AtPlace, Waiting
<1>7. Answers(c)'
  <2>1. Exchanged' = Exchanged \cup {Numbered(nextId, kind, c)}
    BY <1>3 DEF Exchanged
  <2>2. \A m \in Exchanged : m \in Request \cup Response
    BY <1>1, RangeTyped DEF Exchanged, SystemTypes
  <2>3. \A m \in Exchanged : m.id \in Nat
    BY <2>2 DEF Request, Response
  <2>4. nextId \in Nat
    BY DEF ClientTypes
  <2>5. \A m \in Exchanged : m.id < nextId' /\ m.id # nextId
    BY <1>3, <2>3, <2>4 DEF Answers
  <2>6. \A m \in Exchanged' : /\ m.id < nextId'
                              /\ m.id = nextId => m.call = c /\ m.kind = Asked(place)
    BY <1>3, <2>1, <2>4, <2>5 DEF Numbered
  <2>7. place # "done"
    BY DEF Waiting
  <2> QED BY <1>3, <1>4, <2>6, <2>7 DEF Answers
<1> QED BY <1>5, <1>6, <1>7

LEMMA SoleSendEvalKept ==
  ASSUME NEW c \in Calls, WorkerInv, Sole(c), SendEval(c)
  PROVE  Sole(c)'
<1>0. /\ pc[c] = "eval" /\ UNCHANGED <<proc, reads, os, stdout, reaped>>
      /\ "wait" \in Waiting /\ Asked("wait") = "eval" /\ "eval" \in Kinds
  BY DEF SendEval, Waiting, Asked, Kinds
<1>1. DOMAIN pending = {} /\ future[c].state # "pending"
  BY <1>0, SolePending DEF Waiting, Sole, WorkerInv, AtPlace
<1>2. CASE /\ Healthy /\ Post(pending, c, proc, "eval")
           /\ pc' = [pc EXCEPT ![c] = "wait"]
  BY <1>0, <1>1, <1>2, SolePosts DEF Healthy
<1>3. CASE AfterFatal(c) /\ nextId' = (IF proc = 0 THEN nextId ELSE nextId + 1)
           /\ UNCHANGED <<pending, future, stdin>>
  <2>1. pc' = [pc EXCEPT ![c] = pc'[c]] /\ pc'[c] \in {"check", "failed"}
    BY <1>3 DEF AfterFatal, WorkerInv, CallTypes
  <2>2. nextId' \in Nat /\ nextId' >= nextId
    BY <1>3 DEF WorkerInv, ClientTypes
  <2> QED BY <1>0, <1>1, <1>3, <2>1, <2>2, SoleMoves DEF AtRest
<1> QED BY <1>2, <1>3 DEF SendEval

LEMMA SoleReplayKept ==
  ASSUME NEW c \in Calls, WorkerInv, Sole(c), Replay(c)
  PROVE  Sole(c)'
<1>0. /\ pc[c] = "init" /\ UNCHANGED <<proc, reads, os, stdout, reaped>>
      /\ future[c].state = "answered"
      /\ "load" \in Waiting /\ Asked("load") = "load_data" /\ "load_data" \in Kinds
  BY DEF Replay, Waiting, Asked, Kinds
<1>1. DOMAIN Without(pending, myId[c]) = {}
  <2>1. DOMAIN pending = {myId[c]}
    BY <1>0, SolePending DEF Sole, WorkerInv, Waiting
  <2> QED BY <2>1, WithoutTyped DEF WorkerInv, ClientTypes
<1>2. CASE /\ Healthy /\ Post(Without(pending, myId[c]), c, proc, "load_data")
           /\ pc' = [pc EXCEPT ![c] = "load"]
  BY <1>0, <1>1, <1>2, SolePosts DEF Healthy
<1>3. CASE /\ pc' = [pc EXCEPT ![c] = "failed"] \/ Restarted(c, ~Preloaded)
           /\ pending' = Without(pending, myId[c])
           /\ UNCHANGED <<nextId, future, stdin>>
  <2>1. pc' = [pc EXCEPT ![c] = pc'[c]] /\ pc'[c] \in {"check", "failed", "eval"}
    BY <1>3 DEF AfterFatal, Restarted, WorkerInv, CallTypes
  <2>2. nextId' \in Nat /\ nextId' >= nextId
    BY <1>3 DEF WorkerInv, ClientTypes
  <2> QED BY <1>0, <1>1, <1>3, <2>1, <2>2, SoleMoves DEF AtRest
<1> QED BY <1>2, <1>3 DEF Replay

LEMMA SoleCleanupKept ==
  ASSUME NEW c \in Calls, WorkerInv, Sole(c), BeginCleanup(c) \/ EndCleanup(c)
  PROVE  Sole(c)'
<1> USE DEF Sole
<1>0. /\ UNCHANGED <<stdin, stdout>>
      /\ pc[c] \in {"restart", "expired", "terminate", "reap"} /\ pc[c] \notin Waiting
  BY DEF BeginCleanup, EndCleanup, Waiting
<1>1. AllDead = future /\ DOMAIN pending = {} /\ future[c].state # "pending"
  BY <1>0, SolePending DEF WorkerInv, AtPlace
<1>2. readerTask = proc /\ 0 \notin Processes /\ (proc # 0 => proc \in Processes)
  BY LimitsAreNumbers DEF WorkerInv, ClientTypes, OnlySpawned, Processes
<1>3. CASE /\ readerTask # 0 /\ reads' = [reads EXCEPT ![readerTask] = 0] /\ future' = AllDead
           /\ pc' = [pc EXCEPT ![c] = "terminate"] /\ UNCHANGED <<worker, os, reaped>>
  <2>1. UNCHANGED <<proc, nextId, pending, os, future>>
    BY <1>1, <1>3 DEF worker
  <2>2. pc'[c] = "terminate" /\ \A d \in Calls \ {c} : pc'[d] = pc[d]
    BY <1>3 DEF WorkerInv, CallTypes
  <2>3. \A p \in Processes : reads'[p] = 0
    BY <1>2, <1>3 DEF WorkerInv, SystemTypes, Alone
  <2>4. Alone(c)'
    BY <1>1, <2>1, <2>2, <2>3 DEF Alone, Waiting
  <2>5. AtPlace(c)'
    BY <1>1, <2>1, <2>2, <2>3 DEF AtPlace, Waiting
  <2>6. Answers(c)'
    BY <1>0, <2>1, <2>2 DEF Answers, Waiting, Exchanged
  <2> QED BY <2>4, <2>5, <2>6
<1>4. CASE /\ proc # 0 /\ Terminate(c) /\ UNCHANGED <<worker, future, reads>>
           /\ \A p \in Processes : reads[p] = 0
  <2>1. UNCHANGED <<proc, nextId, pending, future>>
    BY <1>4 DEF worker
  <2>2. pc'[c] = "reap" /\ \A d \in Calls \ {c} : pc'[d] = pc[d]
    BY <1>4 DEF WorkerInv, CallTypes, Terminate
  <2>3. reaped'[c] = proc
    BY <1>4 DEF WorkerInv, CallTypes, Terminate
  <2>4. \A p \in Processes : os'[p] = "running" => os[p] = "running"
    BY <1>4 DEF WorkerInv, SystemTypes, Terminate
  <2>5. Alone(c)'
    BY <1>1, <1>4, <2>1, <2>2, <2>4 DEF Alone, Waiting
  <2>6. AtPlace(c)'
    BY <1>1, <1>4, <2>1, <2>2, <2>3 DEF AtPlace, Waiting
  <2>7. Answers(c)'
    BY <1>0, <2>1, <2>2 DEF Answers, Waiting, Exchanged
  <2> QED BY <2>5, <2>6, <2>7
<1>5. CASE /\ Clear(c) /\ UNCHANGED <<os, reaped, reads>>
           /\ \A p \in Processes : reads[p] = 0
           /\ \A p \in Processes : os[p] # "running"
  <2>1. future' = future /\ proc' = 0
    BY <1>1, <1>5 DEF Clear
  <2>2. pc'[c] = "spawn" /\ \A d \in Calls \ {c} : pc'[d] = pc[d]
    BY <1>5 DEF WorkerInv, CallTypes, Clear
  <2>3. DOMAIN pending' = {}
    BY <1>5 DEF Clear
  <2>4. Alone(c)'
    BY <1>5, <2>1, <2>2, <2>3 DEF Alone, Waiting
  <2>5. AtPlace(c)'
    BY <1>1, <1>5, <2>1, <2>2 DEF AtPlace, Waiting
  <2>6. Answers(c)'
    BY <2>1, <2>2 DEF Answers, Waiting
  <2> QED BY <2>4, <2>5, <2>6
<1>6. CASE BeginCleanup(c) /\ (readerTask # 0 /\ reads[readerTask] # 0)
  BY <1>3, <1>6 DEF BeginCleanup
<1>7. CASE BeginCleanup(c) /\ ~(readerTask # 0 /\ reads[readerTask] # 0)
  <2>1. \A p \in Processes : reads[p] = 0
    BY <1>2, <1>7 DEF Alone
  <2>2. proc = 0 => \A p \in Processes : os[p] # "running"
    BY <1>2 DEF Alone
  <2> QED BY <1>4, <1>5, <1>7, <2>1, <2>2 DEF BeginCleanup
<1>8. CASE EndCleanup(c)
  <2>1. \A p \in Processes : reads[p] = 0
    BY <1>8 DEF EndCleanup, AtPlace
  <2>2. proc = 0 => \A p \in Processes : os[p] # "running"
    BY <1>2 DEF Alone
  <2>3. pc[c] = "reap" /\ os[reaped[c]] = "exited" => \A p \in Processes : os[p] # "running"
    BY DEF Alone, AtPlace
  <2> QED BY <1>4, <1>5, <1>8, <2>1, <2>2, <2>3 DEF EndCleanup
<1> QED BY <1>6, <1>7, <1>8

\* The process a restart spawns starts with empty queues and one request.
LEMMA SoleSpawnKept ==
  ASSUME NEW c \in Calls, WorkerInv, Sole(c), Spawn(c)
  PROVE  Sole(c)'
<1> DEFINE n == Cardinality(Spawned) + 1
<1>0. /\ pc[c] = "spawn" /\ n <= MaxProcs /\ os' = [os EXCEPT ![n] = "running"]
      /\ proc' = n /\ reads' = [reads EXCEPT ![n] = n]
      /\ Post(pending, c, n, "init") /\ pc' = [pc EXCEPT ![c] = "init"]
      /\ UNCHANGED <<stdout>>
  BY DEF Spawn
<1>1. n \in Processes /\ os[n] = "none" /\ n # 0
  BY <1>0, SpawnedNext
<1> HIDE DEF n
<1>2. stdin[n] = <<>> /\ stdout[n] = <<>>
  BY <1>1 DEF WorkerInv, OnlySpawned
<1>3. /\ proc = 0 /\ DOMAIN pending = {} /\ 0 \notin Processes /\ "init" \in Kinds
      /\ \A p \in Processes : reads[p] = 0
      /\ \A p \in Processes : os[p] # "running"
  <2>1. proc = 0 /\ \A p \in Processes : reads[p] = 0
    BY <1>0 DEF Sole, AtPlace
  <2>2. 0 \notin Processes
    BY LimitsAreNumbers DEF Processes
  <2>3. \A p \in Processes : os[p] # "running"
    BY <2>1, <2>2 DEF Sole, Alone
  <2>4. DOMAIN pending = {}
    BY <1>0, SolePending DEF Sole, WorkerInv, Waiting
  <2> QED BY <2>1, <2>2, <2>3, <2>4 DEF Kinds
<1>4. /\ \A id : id \in DOMAIN pending' <=> id = nextId
      /\ \A id \in DOMAIN pending' : pending'[id] = c
      /\ myId'[c] = nextId /\ nextId' = nextId + 1
      /\ future'[c].state = "pending" /\ \A d \in Calls \ {c} : future'[d] = future[d]
      /\ \A m : m \in Range(stdin'[n]) <=> m \in Range(stdin[n]) \/ m = Numbered(nextId, "init", c)
  BY <1>0, <1>1, <1>3, PostSole
<1>5. pc'[c] = "init" /\ \A d \in Calls \ {c} : pc'[d] = pc[d]
  BY <1>0 DEF WorkerInv, CallTypes
<1>6. Alone(c)'
  <2>1. DOMAIN pending' = {nextId}
    BY <1>4
  <2>2. \A p \in Processes : reads'[p] # 0 => reads'[p] = p /\ p = n
    BY <1>0, <1>1, <1>3 DEF WorkerInv, SystemTypes
  <2>3. \A p \in Processes : os'[p] = "running" => p = n
    BY <1>0, <1>1, <1>3 DEF WorkerInv, SystemTypes
  <2> QED BY <1>0, <1>4, <1>5, <2>1, <2>2, <2>3 DEF Sole, Alone, Waiting
<1>7. AtPlace(c)'
  BY <1>0, <1>1, <1>5 DEF AtPlace, Waiting
<1>8. Answers(c)'
  <2>1. nextId \in Nat
    BY DEF WorkerInv, ClientTypes
  <2>2. \A m \in Exchanged' : m = Numbered(nextId, "init", c)
    BY <1>0, <1>2, <1>4, EmptyRange DEF Exchanged
  <2>3. \A m \in Exchanged' : m.call = c /\ m.id < nextId' /\ m.kind = Asked("init")
    BY <1>4, <2>1, <2>2 DEF Numbered, Asked
  <2> QED BY <1>4, <1>5, <2>3 DEF Answers
<1> QED BY <1>6, <1>7, <1>8 DEF Sole

LEMMA SoleEvalTimeoutKept ==
  ASSUME NEW c \in Calls, WorkerInv, Sole(c), NEW cs \in SUBSET Calls, EvalTimeout(cs)
  PROVE  Sole(c)'
<1>1. cs = {c}
  BY DEF EvalTimeout, Sole, Alone
<1>2. /\ UNCHANGED <<proc, nextId, reads, os, stdin, stdout>>
      /\ pc[c] = "wait"
      /\ pending' = Restrict(pending, DOMAIN pending \ {myId[d] : d \in cs})
      /\ future' = [d \in Calls |-> IF d \in cs THEN Future("none") ELSE future[d]]
      /\ pc' = [d \in Calls |-> IF d \in cs THEN "expired" ELSE pc[d]]
  BY <1>1 DEF EvalTimeout, system
<1>3. DOMAIN pending' = {}
  <2>1. DOMAIN pending = {myId[c]}
    BY <1>2, SolePending DEF Sole, WorkerInv, Waiting
  <2>2. DOMAIN pending \ {myId[d] : d \in cs} = {}
    BY <1>1, <2>1
  <2> QED BY <1>2, <2>2, RestrictedRange
<1>4. /\ future'[c].state = "none" /\ \A d \in Calls \ {c} : future'[d] = future[d]
      /\ pc'[c] = "expired" /\ \A d \in Calls \ {c} : pc'[d] = pc[d]
  BY <1>1, <1>2, FutureTyped
<1>5. Alone(c)'
  BY <1>2, <1>3, <1>4 DEF Sole, Alone, Waiting
<1>6. AtPlace(c)'
  BY <1>2, <1>4 DEF Sole, AtPlace, Waiting
<1>7. Answers(c)'
  BY <1>2, <1>4 DEF Sole, Answers, Waiting, Exchanged
<1> QED BY <1>5, <1>6, <1>7 DEF Sole

LEMMA SoleReadLineKept ==
  ASSUME NEW c \in Calls, WorkerInv, Sole(c), NEW p \in Processes, ReadLine(p)
  PROVE  Sole(c)'
<1> DEFINE m == Head(stdout[p])
           delivered == [d \in Calls |->
             IF d \in Addressee(m) /\ future[d].state = "pending" THEN m ELSE future[d]]
<1>1. reads[p] # 0 /\ reads[p] = p /\ p = proc
  BY DEF ReadLine, Sole, Alone
<1>2. /\ stdout[p] # <<>>
      /\ stdout' = [stdout EXCEPT ![p] = Tail(@)]
      /\ reads' = [reads EXCEPT ![p] = NextStream(p)]
      /\ future' = [d \in Calls |->
           IF NextStream(p) = 0 /\ d \in Range(pending) /\ delivered[d].state = "pending"
           THEN Future("dead") ELSE delivered[d]]
      /\ UNCHANGED <<worker, os, stdin, memory, refused, pc, round, after, myId, reaped, faults>>
  BY <1>1 DEF ReadLine
<1>3. NextStream(p) = p /\ p # 0
  BY <1>1 DEF NextStream, Sole, Alone
<1>4. future' = delivered /\ reads' = reads
  BY <1>1, <1>2, <1>3 DEF WorkerInv, SystemTypes
<1>5. /\ m \in Response /\ m \in Exchanged
      /\ \A r : r \in Exchanged' => r \in Exchanged
  <2>1. stdout[p] \in Seq(Response)
    BY DEF WorkerInv, SystemTypes
  <2>2. m \in Response /\ m \in Range(stdout[p]) /\ Range(Tail(stdout[p])) \subseteq Range(stdout[p])
    BY <1>2, <2>1, TakenRange
  <2>3. stdout'[p] = Tail(stdout[p]) /\ proc' = proc /\ stdin' = stdin
    BY <1>2 DEF WorkerInv, SystemTypes, worker
  <2> QED BY <1>1, <2>2, <2>3 DEF Exchanged
<1>6. /\ m.state = "answered"
      /\ m.ok /\ c \in Addressee(m) /\ future[c].state = "pending" => m.id = myId[c] /\ pc[c] \in Waiting
      /\ \A d \in Calls \ {c} : d \notin Addressee(m)
  <2>1. m.state = "answered"
    BY <1>5 DEF Response
  <2>2. Range(pending) \subseteq {c} /\ \A id \in DOMAIN pending : id = myId[c] /\ pending[id] = c
    BY SolePending DEF Sole, Alone, WorkerInv
  <2>3. future[c].state = "pending" => pc[c] \in Waiting
    BY DEF Sole, AtPlace
  <2> QED BY <2>1, <2>2, <2>3 DEF Addressee
<1> HIDE DEF m
<1>7. UNCHANGED <<proc, nextId, pending, reads, os, pc, myId, reaped>>
  BY <1>2, <1>4 DEF worker
<1>8. \A d \in Calls \ {c} : future'[d] = future[d]
  BY <1>4, <1>6
<1>9. \/ future'[c] = future[c]
      \/ /\ future'[c] = m /\ c \in Addressee(m) /\ future[c].state = "pending"
  BY <1>4
<1> HIDE DEF delivered
<1>10. Alone(c)'
  BY <1>7, <1>8 DEF Sole, Alone
<1>11. AtPlace(c)'
  BY <1>6, <1>7, <1>9 DEF Sole, AtPlace
<1>12. Answers(c)'
  <2>1. pc[c] = "done" => future[c].state # "pending"
    BY DEF Sole, AtPlace, Waiting
  <2>2. pc[c] \in Waiting /\ m.id = myId[c] => m.call = c /\ m.kind = Asked(pc[c])
    BY <1>1, <1>3, <1>5 DEF Sole, Answers
  <2> QED BY <1>5, <1>6, <1>7, <1>9, <2>1, <2>2 DEF Sole, Answers
<1> QED BY <1>10, <1>11, <1>12 DEF Sole

LEMMA SoleReadEOFKept ==
  ASSUME NEW c \in Calls, WorkerInv, Sole(c), NEW p \in Processes, ReadEOF(p)
  PROVE  Sole(c)'
<1>1. reads[p] = p /\ p = proc /\ os[p] # "running"
  BY DEF ReadEOF, Sole, Alone
<1>2. /\ reads' = [reads EXCEPT ![p] = 0] /\ future' = AllDead
      /\ UNCHANGED <<proc, nextId, pending, os, stdin, stdout, pc, myId, reaped>>
  BY DEF ReadEOF, worker, system
<1>3. \A d \in Calls \ {c} : future'[d] = future[d]
  BY <1>2 DEF AllDead, Sole, Alone
<1>4. future'[c] = future[c] \/ (future'[c] = Future("dead") /\ future[c].state = "pending")
  <2>1. future'[c] = IF c \in Range(pending) /\ future[c].state = "pending"
                     THEN Future("dead") ELSE future[c]
    BY <1>2 DEF AllDead
  <2>2. CASE c \in Range(pending) /\ future[c].state = "pending"
    BY <2>1, <2>2
  <2>3. CASE ~(c \in Range(pending) /\ future[c].state = "pending")
    BY <2>1, <2>3
  <2> QED BY <2>2, <2>3
<1>5. Alone(c)'
  BY <1>2, <1>3 DEF Sole, Alone, WorkerInv, SystemTypes
<1>6. AtPlace(c)'
  <2>1. pc[c] \in {"terminate", "reap", "spawn"} => \A r \in Processes : reads'[r] = 0
    BY <1>2 DEF Sole, AtPlace, WorkerInv, SystemTypes
  <2> QED BY <1>2, <1>4, <2>1, FutureTyped DEF Sole, AtPlace
<1>7. Answers(c)'
  <2>1. pc[c] = "done" => future[c].state # "pending"
    BY DEF Sole, AtPlace, Waiting
  <2> QED BY <1>2, <1>4, <2>1, FutureTyped DEF Sole, Answers, Exchanged
<1> QED BY <1>5, <1>6, <1>7 DEF Sole

LEMMA SoleServeKept ==
  ASSUME NEW c \in Calls, WorkerInv, Sole(c), NEW p \in Processes, Serve(p)
  PROVE  Sole(c)'
<1> DEFINE r == Head(stdin[p])
<1>1. p = proc /\ proc # 0
  <2>1. p = proc
    BY DEF Serve, Sole, Alone
  <2>2. 0 \notin Processes
    BY LimitsAreNumbers DEF Processes
  <2> QED BY <2>1, <2>2
<1>2. PICK ok \in BOOLEAN :
        /\ stdin[p] # <<>>
        /\ stdin' = [stdin EXCEPT ![p] = Tail(@)]
        /\ stdout' = [stdout EXCEPT ![p] = Append(@, Answer(r, ok))]
        /\ UNCHANGED <<proc, nextId, pending, reads, os, pc, myId, future, reaped>>
  BY DEF Serve, Answer, worker
<1>3. /\ r \in Request /\ r \in Range(stdin[p]) /\ Range(Tail(stdin[p])) \subseteq Range(stdin[p])
  <2>1. stdin[p] \in Seq(Request)
    BY DEF WorkerInv, SystemTypes
  <2> QED BY <1>2, <2>1, TakenRange
<1> HIDE DEF r
<1> DEFINE answer == Answer(r, ok)
<1>5. answer \in Response /\ answer.id = r.id /\ answer.call = r.call /\ answer.kind = r.kind
  BY <1>3, AnswerTyped
<1>a. stdout' = [stdout EXCEPT ![p] = Append(@, answer)]
  BY <1>2
<1> HIDE DEF answer
<1>6. Range(Append(stdout[p], answer)) = Range(stdout[p]) \cup {answer}
  <2>1. stdout[p] \in Seq(Response)
    BY DEF WorkerInv, SystemTypes
  <2> QED BY <1>5, <2>1, AppendedRange
<1>7. \A m \in Exchanged' : m \in Exchanged \/ m = answer
  <2>1. stdin'[p] = Tail(stdin[p]) /\ stdout'[p] = Append(stdout[p], answer)
    BY <1>2, <1>a DEF WorkerInv, SystemTypes
  <2> QED BY <1>1, <1>2, <1>3, <1>6, <2>1 DEF Exchanged
<1>8. r \in Exchanged
  BY <1>1, <1>3 DEF Exchanged
<1>9. \A m \in Exchanged' :
        /\ m.id < nextId
        /\ pc[c] \in Waiting /\ m.id = myId[c] => m.call = c /\ m.kind = Asked(pc[c])
  BY <1>1, <1>5, <1>7, <1>8 DEF Sole, Answers
<1>10. Alone(c)' /\ AtPlace(c)'
  BY <1>2 DEF Sole, Alone, AtPlace
<1>11. Answers(c)'
  BY <1>2, <1>9 DEF Sole, Answers
<1> QED BY <1>10, <1>11 DEF Sole

LEMMA SoleExitKept ==
  ASSUME NEW c \in Calls, WorkerInv, Sole(c), NEW p \in Processes, Die(p) \/ Exited(p)
  PROVE  Sole(c)'
<1>1. UNCHANGED <<proc, nextId, pending, reads, stdin, stdout, pc, myId, future, reaped>>
  BY DEF Die, Exited, worker
<1>2. \A r \in Processes : os'[r] = "running" => os[r] = "running"
  BY DEF Die, Exited, WorkerInv, SystemTypes
<1>3. Alone(c)' /\ AtPlace(c)' /\ Answers(c)'
  BY <1>1, <1>2 DEF Sole, Alone, AtPlace, Answers, Exchanged
<1> QED BY <1>3 DEF Sole

\* Only the one call can take a step.
LEMMA OnlyItsSteps ==
  ASSUME NEW c \in Calls, Sole(c), NEW d \in Calls \ {c}
  PROVE  ~CallStep(d)
<1>1. pc[d] \in {"later", "done", "failed"}
  BY DEF Sole, Alone
<1> QED BY <1>1 DEF CallStep, Call, HealthCheck, SendEval, EvalAnswered, EvalDead, BeginCleanup,
     EndCleanup, Spawn, Replay, EndRestart, LoadFailed

LEMMA SoleKept ==
  ASSUME NEW c \in Calls, WorkerInv, Sole(c), [Next]_vars
  PROVE  Sole(c)'
<1>1. CASE CallStep(c)
  BY <1>1, SoleCallKept, SoleSendEvalKept, SoleTakenKept, SoleCleanupKept, SoleSpawnKept,
     SoleReplayKept DEF CallStep
<1>2. \A d \in Calls \ {c} : ~CallStep(d)
  BY OnlyItsSteps
<1>3. CASE \E p \in Processes : ProcessStep(p) \/ Die(p)
  BY <1>3, SoleReadLineKept, SoleReadEOFKept, SoleServeKept, SoleExitKept DEF ProcessStep
<1>4. CASE \E cs \in SUBSET Calls : EvalTimeout(cs)
  BY <1>4, SoleEvalTimeoutKept
<1>5. CASE UNCHANGED vars
  BY <1>5 DEF vars, worker, system, Sole, Alone, AtPlace, Answers, Exchanged
<1> QED BY <1>1, <1>2, <1>3, <1>4, <1>5 DEF Next

\* The next call takes the place of the one that has returned.
LEMMA SoleMovesOn ==
  ASSUME NEW c \in Calls, NEW d \in Calls, WorkerInv, Sole(c), NextCall(d)
  PROVE  Sole(d)'
<1> USE DEF Sole
<1>1. /\ pc[d] = "later" /\ pc[c] \in {"later", "done", "failed"}
      /\ pc' = [pc EXCEPT ![d] = "idle"]
      /\ UNCHANGED <<worker, reads, system, future, myId, reaped>>
  BY DEF NextCall
<1>2. pc'[d] = "idle" /\ \A e \in Calls \ {d} : pc'[e] = pc[e]
  BY <1>1 DEF WorkerInv, CallTypes
<1>3. DOMAIN pending = {} /\ future[c].state # "pending"
  <2>1. pc[c] \notin Waiting
    BY <1>1 DEF Waiting
  <2> QED BY <2>1, SolePending DEF WorkerInv, AtPlace
<1>4. \A e \in Calls \ {d} :
        /\ pc[e] \in {"later", "done", "failed"} /\ future[e].state # "pending"
        /\ pc[e] = "done" => future[e].call = e /\ future[e].kind = "eval"
  BY <1>1, <1>3 DEF Alone, Answers
<1>5. future[d].state # "pending"
  BY <1>3 DEF Alone
<1>6. Alone(d)'
  BY <1>1, <1>2, <1>3, <1>4 DEF Alone, worker, system, Waiting
<1>7. AtPlace(d)'
  BY <1>1, <1>2, <1>5 DEF AtPlace, Waiting
<1>8. Answers(d)'
  BY <1>1, <1>2 DEF Answers, worker, system, Waiting, Exchanged
<1> QED BY <1>6, <1>7, <1>8

-----------------------------------------------------------------------------
(* One call at a time, and the data was loaded: what the process holds     *)
(* when it is asked.                                                       *)

LoadedInv(c) == OneOutstanding(c) /\ Data(c)

LEMMA WhatIsGained ==
  /\ Gains("init") = {"cost model"} /\ Gains("load_data") = {"data"} /\ Gains("eval") = {}
  /\ Asked("wait") = "eval" /\ Asked("init") = "init" /\ Asked("load") = "load_data"
BY DEF Gains, Asked

\* A step that touches neither queues nor processes, and leaves no request waiting.
LEMMA LoadedMoves ==
  ASSUME NEW c \in Calls, WorkerInv, Sole(c), LoadedInv(c),
         UNCHANGED <<proc, os, stdin, stdout, memory, refused>>,
         pc'[c] \in AtRest \cup {"restart"},
         pc[c] \in AtRest \/ (pc[c] \in Waiting /\ future[c].state # "pending"),
         pc'[c] \in AtRest /\ proc # 0 /\ Fit(proc) => memory[proc] = Whole
  PROVE  LoadedInv(c)'
<1>1. pc'[c] \notin Waiting
  BY DEF Waiting, AtRest
<1>2. OneOutstanding(c)'
  BY <1>1 DEF LoadedInv, OneOutstanding
<1>3. Data(c)'
  BY <1>1 DEF LoadedInv, Data, Fit, Waiting
<1> QED BY <1>2, <1>3 DEF LoadedInv

LEMMA LoadedCallKept ==
  ASSUME NEW c \in Calls, WorkerInv, Sole(c), LoadedInv(c), Call(c) \/ HealthCheck(c)
  PROVE  LoadedInv(c)'
<1>1. /\ pc[c] \in {"idle", "check"} /\ pc'[c] \in {"check", "eval", "restart"}
      /\ UNCHANGED <<proc, os, stdin, stdout, memory, refused>>
  BY DEF Call, HealthCheck, WorkerInv, CallTypes, worker, system
<1>2. proc # 0 /\ Fit(proc) => memory[proc] = Whole
  BY <1>1 DEF LoadedInv, Data, AtRest
<1> QED BY <1>1, <1>2, LoadedMoves DEF AtRest

LEMMA LoadedTakenKept ==
  ASSUME NEW c \in Calls, WorkerInv, Sole(c), LoadedInv(c),
         EvalAnswered(c) \/ EvalDead(c) \/ EndRestart(c) \/ LoadFailed(c)
  PROVE  LoadedInv(c)'
<1>1. /\ pc[c] \in Waiting /\ future[c].state # "pending"
      /\ UNCHANGED <<proc, os, stdin, stdout, memory, refused>>
  BY DEF EvalAnswered, EvalDead, EndRestart, LoadFailed, Waiting, system
<1>2. /\ pc'[c] \in {"check", "failed", "eval", "done"}
      /\ future[c].state \in {"dead", "answered"}
      /\ pc[c] = "init" /\ future[c].state = "answered" => ~future[c].ok
  <2>1. CASE EvalAnswered(c) \/ LoadFailed(c)
    BY <2>1 DEF EvalAnswered, LoadFailed, WorkerInv, CallTypes
  <2>2. CASE EvalDead(c)
    <3>1. pc'[c] \in {"check", "failed"} /\ future[c].state = "dead"
      BY <2>2, AfterFatalTyped DEF EvalDead, WorkerInv
    <3> QED BY <3>1
  <2>3. CASE EndRestart(c)
    <3>1. pc'[c] \in {"check", "failed", "eval"}
      BY <2>3, RestartedTyped DEF EndRestart, WorkerInv
    <3>2. /\ future[c].state \in {"dead", "answered"}
          /\ pc[c] = "init" /\ future[c].state = "answered" => ~future[c].ok
      BY <2>3 DEF EndRestart
    <3> QED BY <3>1, <3>2
  <2> QED BY <2>1, <2>2, <2>3
<1>3. Fit(proc) => memory[proc] = Whole
  <2> SUFFICES ASSUME Fit(proc) PROVE memory[proc] = Whole
    OBVIOUS
  <2>1. proc \in Processes
    BY <1>1, LimitsAreNumbers DEF Sole, AtPlace, WorkerInv, ClientTypes, Processes
  <2>2. memory[proc] \subseteq Whole
    BY <2>1 DEF WorkerInv, SystemTypes
  <2>3. future[c].state = "answered"
    BY <1>1, <1>2 DEF LoadedInv, Data, Fit
  <2>4. CASE pc[c] = "wait"
    BY <2>4, <2>1, LimitsAreNumbers DEF LoadedInv, Data, Processes
  <2>5. CASE pc[c] = "load"
    <3>1. "data" \in memory[proc] /\ "cost model" \in memory[proc]
      BY <2>3, <2>5, WhatIsGained DEF LoadedInv, Data
    <3> QED BY <2>2, <3>1 DEF Whole
  <2>6. pc[c] # "init"
    BY <1>2, <2>3 DEF LoadedInv, Data
  <2> QED BY <1>1, <2>4, <2>5, <2>6 DEF Waiting
<1> QED BY <1>1, <1>2, <1>3, LoadedMoves DEF AtRest

\* What a process must hold to do what is asked.
Needed(place) == IF place = "wait" THEN Whole ELSE {"cost model"}
HoldsWhatItNeeds(place) == Fit(proc) => Needed(place) \subseteq memory[proc]

\* A request is sent to the process when nothing is left to serve or read, if it runs.
LEMMA LoadedPosts ==
  ASSUME NEW c \in Calls, WorkerInv, Sole(c), LoadedInv(c), proc # 0,
         NEW place \in {"wait", "load"}, NEW kind \in Kinds, kind = Asked(place),
         NEW waiting, DOMAIN waiting = {},
         Post(waiting, c, proc, kind), pc' = [pc EXCEPT ![c] = place],
         UNCHANGED <<proc, os, stdout, memory, refused>>,
         os[proc] = "running" => stdin[proc] = <<>> /\ stdout[proc] = <<>>,
         HoldsWhatItNeeds(place)
  PROVE  LoadedInv(c)'
<1>1. proc \in Processes
  BY LimitsAreNumbers DEF WorkerInv, ClientTypes, Processes
<1>2. /\ future'[c].state = "pending" /\ myId'[c] = nextId
      /\ \A m : m \in Range(stdin'[proc]) <=> m \in Range(stdin[proc]) \/ m = Numbered(nextId, kind, c)
      /\ stdin[proc] = <<>> => Len(stdin'[proc]) = 1
      /\ \A p \in Processes \ {proc} : stdin'[p] = stdin[p]
  BY <1>1, PostSole
<1>3. pc'[c] = place
  BY DEF WorkerInv, CallTypes
<1>b. /\ place = "wait" /\ Fit(proc) => memory[proc] = Whole
      /\ place = "load" /\ Fit(proc) => "cost model" \in memory[proc]
  <2>1. memory[proc] \subseteq Whole
    BY <1>1 DEF WorkerInv, SystemTypes
  <2>2. place = "wait" => Needed(place) = Whole
    BY DEF Needed
  <2>3. place = "load" => "cost model" \in Needed(place)
    BY DEF Needed
  <2> QED BY <2>1, <2>2, <2>3 DEF HoldsWhatItNeeds
<1>4. OneOutstanding(c)'
  <2>1. pc'[c] \notin AtRest
    BY <1>3 DEF AtRest
  <2>2. os[proc] = "running" => stdout[proc] = <<>> /\ Len(stdin'[proc]) = 1
    BY <1>2
  <2>3. os[proc] = "running" => \A m \in Exchanged' : m.id = myId'[c]
    BY <1>2, EmptyRange DEF Exchanged, Numbered
  <2> QED BY <1>2, <2>1, <2>2, <2>3 DEF OneOutstanding
<1>5. \A p \in Processes : Fit(p) =>
        \A m \in Range(stdin'[p]) : m.kind = "eval" => memory[p] = Whole
  <2> SUFFICES ASSUME NEW p \in Processes, Fit(p), NEW m \in Range(stdin'[p]), m.kind = "eval"
               PROVE  memory[p] = Whole
    OBVIOUS
  <2>1. p = proc
    BY DEF Sole, Alone, Fit
  <2>2. m = Numbered(nextId, kind, c)
    BY <1>2, <2>1, EmptyRange DEF Fit
  <2>3. m.kind = kind
    BY <2>2 DEF Numbered
  <2>4. place = "wait"
    BY <2>3 DEF Asked
  <2> QED BY <1>b, <2>1, <2>4
<1>6. Data(c)'
  <2>1. \A p \in Processes : Fit(p)' <=> Fit(p)
    BY DEF Fit
  <2>2. Fit(proc)' <=> Fit(proc)
    BY DEF Fit
  <2> QED BY <1>2, <1>3, <1>5, <1>b, <2>1, <2>2 DEF LoadedInv, Data, AtRest
<1> QED BY <1>4, <1>6 DEF LoadedInv

LEMMA LoadedSendEvalKept ==
  ASSUME NEW c \in Calls, WorkerInv, Sole(c), LoadedInv(c), SendEval(c)
  PROVE  LoadedInv(c)'
<1>0. /\ pc[c] = "eval" /\ UNCHANGED <<proc, os, stdout, memory, refused>>
      /\ Asked("wait") = "eval" /\ "eval" \in Kinds
  BY DEF SendEval, Asked, Kinds
<1>1. DOMAIN pending = {}
  BY <1>0, SolePending DEF Waiting, Sole, WorkerInv
<1>2. /\ proc # 0 /\ os[proc] = "running" => stdin[proc] = <<>> /\ stdout[proc] = <<>>
      /\ proc # 0 /\ Fit(proc) => memory[proc] = Whole
  BY <1>0 DEF LoadedInv, OneOutstanding, Data, AtRest
<1>a. proc # 0 => HoldsWhatItNeeds("wait")
  BY <1>2 DEF HoldsWhatItNeeds, Needed
<1>3. CASE /\ Healthy /\ Post(pending, c, proc, "eval")
           /\ pc' = [pc EXCEPT ![c] = "wait"]
  BY <1>0, <1>1, <1>2, <1>3, <1>a, LoadedPosts DEF Healthy
<1>4. CASE AfterFatal(c) /\ UNCHANGED stdin
  <2>1. pc'[c] \in {"check", "failed"}
    BY <1>4, AfterFatalTyped DEF WorkerInv
  <2> QED BY <1>0, <1>2, <1>4, <2>1, LoadedMoves DEF AtRest
<1> QED BY <1>3, <1>4 DEF SendEval

LEMMA LoadedReplayKept ==
  ASSUME Preloaded, NEW c \in Calls, WorkerInv, Sole(c), LoadedInv(c), Replay(c)
  PROVE  LoadedInv(c)'
<1>0. /\ pc[c] = "init" /\ UNCHANGED <<proc, os, stdout, memory, refused>>
      /\ future[c].state = "answered" /\ future[c].ok /\ pc[c] \in Waiting
      /\ Asked("load") = "load_data" /\ "load_data" \in Kinds
  BY DEF Replay, Asked, Kinds, Waiting
<1>1. DOMAIN Without(pending, myId[c]) = {}
  <2>1. DOMAIN pending = {myId[c]}
    BY <1>0, SolePending DEF Sole, WorkerInv
  <2> QED BY <2>1, WithoutTyped DEF WorkerInv, ClientTypes
<1>2. proc # 0 /\ os[proc] = "running" => stdin[proc] = <<>> /\ stdout[proc] = <<>>
  BY <1>0 DEF LoadedInv, OneOutstanding
<1>a. HoldsWhatItNeeds("load")
  BY <1>0, WhatIsGained DEF LoadedInv, Data, HoldsWhatItNeeds, Needed
<1>3. CASE /\ Healthy /\ Post(Without(pending, myId[c]), c, proc, "load_data")
           /\ pc' = [pc EXCEPT ![c] = "load"]
  BY <1>0, <1>1, <1>2, <1>3, <1>a, LoadedPosts DEF Healthy
<1>4. CASE /\ \/ proc = 0 /\ pc' = [pc EXCEPT ![c] = "failed"]
              \/ proc # 0 /\ os[proc] # "running" /\ Restarted(c, ~Preloaded)
           /\ UNCHANGED stdin
  <2>1. pc'[c] \in {"check", "failed", "eval"}
    BY <1>4, RestartedTyped DEF WorkerInv, CallTypes
  <2> QED BY <1>0, <1>4, <2>1, LoadedMoves DEF AtRest, Fit
<1> QED BY <1>3, <1>4 DEF Replay

LEMMA LoadedCleanupKept ==
  ASSUME NEW c \in Calls, WorkerInv, Sole(c), LoadedInv(c), BeginCleanup(c) \/ EndCleanup(c)
  PROVE  LoadedInv(c)'
<1>1. /\ pc'[c] \in {"terminate", "reap", "spawn"}
      /\ proc' \in {proc, 0}
      /\ \A p \in Processes : os'[p] = "running" => os[p] = "running"
      /\ UNCHANGED <<stdin, stdout, memory, refused>>
  <2>1. pc'[c] \in {"terminate", "reap", "spawn"}
    BY DEF BeginCleanup, EndCleanup, Terminate, Clear, WorkerInv, CallTypes
  <2>2. proc' \in {proc, 0} /\ UNCHANGED <<stdin, stdout, memory, refused>>
    BY DEF BeginCleanup, EndCleanup, Clear, worker
  <2>3. os' = os \/ Terminate(c)
    BY DEF BeginCleanup, EndCleanup
  <2>4. \A p \in Processes : os'[p] = "running" => os[p] = "running"
    BY <2>3 DEF Terminate, WorkerInv, SystemTypes
  <2> QED BY <2>1, <2>2, <2>4
<1>2. pc'[c] \notin Waiting /\ pc'[c] \notin AtRest \cup {"wait"}
  BY <1>1 DEF Waiting, AtRest
<1>3. proc # 0 => proc \in Processes
  BY LimitsAreNumbers DEF WorkerInv, ClientTypes, Processes
<1>4. OneOutstanding(c)'
  BY <1>1, <1>2, <1>3 DEF LoadedInv, OneOutstanding
<1>5. Data(c)'
  BY <1>1, <1>2 DEF LoadedInv, Data, Fit, Waiting
<1> QED BY <1>4, <1>5 DEF LoadedInv

LEMMA LoadedSpawnKept ==
  ASSUME NEW c \in Calls, WorkerInv, Sole(c), LoadedInv(c), Spawn(c)
  PROVE  LoadedInv(c)'
<1> DEFINE n == Cardinality(Spawned) + 1
<1>0. /\ pc[c] = "spawn" /\ n <= MaxProcs /\ os' = [os EXCEPT ![n] = "running"]
      /\ proc' = n /\ Post(pending, c, n, "init") /\ pc' = [pc EXCEPT ![c] = "init"]
      /\ UNCHANGED <<stdout, memory, refused>>
  BY DEF Spawn
<1>1. n \in Processes /\ os[n] = "none" /\ n # 0
  BY <1>0, SpawnedNext
<1> HIDE DEF n
<1>2. stdin[n] = <<>> /\ stdout[n] = <<>> /\ "init" \in Kinds
  BY <1>1 DEF WorkerInv, OnlySpawned, Kinds
<1>3. \A p \in Processes : os[p] # "running"
  <2>1. proc = 0
    BY <1>0 DEF Sole, AtPlace
  <2>2. 0 \notin Processes
    BY LimitsAreNumbers DEF Processes
  <2> QED BY <2>1, <2>2 DEF Sole, Alone
<1>4. DOMAIN pending = {}
  BY <1>0, SolePending DEF Sole, WorkerInv, Waiting
<1>5. /\ future'[c].state = "pending" /\ myId'[c] = nextId
      /\ \A m : m \in Range(stdin'[n]) <=> m \in Range(stdin[n]) \/ m = Numbered(nextId, "init", c)
  BY <1>0, <1>1, <1>2, <1>4, PostSole
<1>a. Len(stdin'[n]) = 1
  BY <1>0, <1>1, <1>2, <1>4, PostSole
<1>6. pc'[c] = "init"
  BY <1>0 DEF WorkerInv, CallTypes
<1>7. \A p \in Processes : os'[p] = "running" => p = n
  BY <1>0, <1>1, <1>3 DEF WorkerInv, SystemTypes
<1>8. OneOutstanding(c)'
  <2>1. \A m \in Exchanged' : m.id = myId'[c]
    BY <1>0, <1>2, <1>5, EmptyRange DEF Exchanged, Numbered
  <2> QED BY <1>0, <1>2, <1>5, <1>6, <1>a, <2>1 DEF OneOutstanding, AtRest
<1>9. \A p \in Processes : os'[p] = "running" => \A m \in Range(stdin'[p]) : m.kind = "init"
  BY <1>2, <1>5, <1>7, EmptyRange DEF Numbered
<1>10. Data(c)'
  BY <1>0, <1>5, <1>6, <1>9 DEF LoadedInv, Data, Fit, AtRest
<1> QED BY <1>8, <1>10 DEF LoadedInv

LEMMA LoadedEvalTimeoutKept ==
  ASSUME NEW c \in Calls, WorkerInv, Sole(c), LoadedInv(c), NEW cs \in SUBSET Calls, EvalTimeout(cs)
  PROVE  LoadedInv(c)'
<1>1. cs = {c}
  BY DEF EvalTimeout, Sole, Alone
<1>2. /\ UNCHANGED <<proc, os, stdin, stdout, memory, refused>>
      /\ pc'[c] = "expired"
  BY <1>1 DEF EvalTimeout, system
<1>3. OneOutstanding(c)' /\ Data(c)'
  BY <1>2 DEF LoadedInv, OneOutstanding, Data, Waiting, AtRest, Fit
<1> QED BY <1>3 DEF LoadedInv

\* The answer to the request that waits was the only thing under way.
LEMMA LoadedReadLineKept ==
  ASSUME NEW c \in Calls, WorkerInv, Sole(c), LoadedInv(c), NEW p \in Processes, ReadLine(p)
  PROVE  LoadedInv(c)'
<1> DEFINE m == Head(stdout[p])
           delivered == [d \in Calls |->
             IF d \in Addressee(m) /\ future[d].state = "pending" THEN m ELSE future[d]]
<1>1. reads[p] # 0 /\ reads[p] = p /\ p = proc /\ p # 0
  BY DEF ReadLine, Sole, Alone
<1>2. /\ stdout[p] # <<>>
      /\ stdout' = [stdout EXCEPT ![p] = Tail(@)]
      /\ future' = [d \in Calls |->
           IF NextStream(p) = 0 /\ d \in Range(pending) /\ delivered[d].state = "pending"
           THEN Future("dead") ELSE delivered[d]]
      /\ UNCHANGED <<proc, os, stdin, memory, refused, pc, myId>>
  BY <1>1 DEF ReadLine, worker
<1>3. NextStream(p) # 0
  BY <1>1 DEF NextStream, Sole, Alone
<1>4. \/ future'[c] = future[c]
      \/ future'[c] = m /\ c \in Addressee(m) /\ future[c].state = "pending"
  BY <1>2, <1>3
<1>5. /\ m \in Response /\ m \in Range(stdout[p])
      /\ \A a : a \in Range(stdout'[p]) => a \in Range(stdout[p])
      /\ Len(stdout[p]) = 1 => stdout'[p] = <<>>
      /\ \A q \in Processes \ {p} : stdout'[q] = stdout[q]
  <2>1. stdout[p] \in Seq(Response)
    BY DEF WorkerInv, SystemTypes
  <2>2. /\ m \in Response /\ m \in Range(stdout[p]) /\ Range(Tail(stdout[p])) \subseteq Range(stdout[p])
        /\ Len(stdout[p]) = 1 => Tail(stdout[p]) = <<>>
    BY <1>2, <2>1, TakenRange, LastTaken
  <2>3. stdout'[p] = Tail(stdout[p]) /\ \A q \in Processes \ {p} : stdout'[q] = stdout[q]
    BY <1>2 DEF WorkerInv, SystemTypes
  <2> QED BY <2>1, <2>2, <2>3
<1>6. /\ m.state = "answered"
      /\ m.ok => Gains(m.kind) \subseteq memory[p]
      /\ ~m.ok /\ m.kind # "eval" => p \in refused
  BY <1>5 DEF LoadedInv, Data, Response
<1> HIDE DEF m, delivered
\* An error may be taken by who did not ask for it, if the process does not run any more.
<1>7. c \in Addressee(m) /\ future[c].state = "pending" =>
        pc[c] \in Waiting /\ (m.ok \/ os[p] = "running" => m.kind = Asked(pc[c]))
  <2> SUFFICES ASSUME c \in Addressee(m), future[c].state = "pending"
               PROVE  pc[c] \in Waiting /\ (m.ok \/ os[p] = "running" => m.kind = Asked(pc[c]))
    OBVIOUS
  <2>1. pc[c] \in Waiting
    BY DEF Sole, AtPlace
  <2>2. m \in Exchanged
    BY <1>1, <1>5 DEF Exchanged
  <2>3. m.ok => m.id \in DOMAIN pending
    BY DEF Addressee
  <2>4. m.ok => m.id = myId[c]
    BY <2>1, <2>3, SolePending DEF Sole, WorkerInv
  <2>5. os[p] = "running" => m.id = myId[c]
    BY <1>1, <2>1, <2>2 DEF LoadedInv, OneOutstanding
  <2> QED BY <1>1, <2>1, <2>2, <2>4, <2>5 DEF Sole, Answers
<1>8. OneOutstanding(c)'
  <2>1. os[p] = "running" => stdin[p] = <<>> /\ stdout'[p] = <<>>
    BY <1>1, <1>2, <1>5 DEF LoadedInv, OneOutstanding
  <2>2. os[p] = "running" => Exchanged' = {}
    BY <1>1, <1>2, <2>1, EmptyRange DEF Exchanged
  <2> QED BY <1>1, <1>2, <2>1, <2>2 DEF OneOutstanding
<1>9. Data(c)'
  <2>0. Fit(proc)' <=> Fit(proc)
    BY <1>2 DEF Fit
  <2>1. \A q \in Processes : \A a \in Range(stdout'[q]) :
          /\ a.ok => Gains(a.kind) \subseteq memory[q]
          /\ ~a.ok /\ a.kind # "eval" => q \in refused
    <3> SUFFICES ASSUME NEW q \in Processes, NEW a \in Range(stdout'[q])
                 PROVE  a \in Range(stdout[q])
      BY DEF LoadedInv, Data
    <3> QED BY <1>5
  <2>2. \A q \in Processes : Fit(q)' =>
          \A a \in Range(stdin[q]) : a.kind = "eval" => memory[q] = Whole
    BY <1>2 DEF LoadedInv, Data, Fit
  <2>3. /\ pc[c] \in Waiting /\ future'[c].state = "dead" => os[proc] # "running"
        /\ pc[c] \in {"init", "load"} /\ future'[c].state = "answered" =>
             IF future'[c].ok THEN Gains(Asked(pc[c])) \subseteq memory[proc] ELSE ~Fit(proc)
    <3>1. CASE future'[c] = future[c]
      BY <3>1 DEF LoadedInv, Data
    <3>2. CASE /\ future'[c] = m
               /\ m.ok \/ os[p] = "running" => m.kind = Asked(pc[c])
      <4>1. m.state # "dead"
        BY <1>6
      <4>2. m.ok => Gains(Asked(pc[c])) \subseteq memory[proc]
        BY <1>1, <1>6, <3>2
      <4>3. pc[c] \in {"init", "load"} => Asked(pc[c]) # "eval"
        BY DEF Asked
      <4>4. pc[c] \in {"init", "load"} /\ ~m.ok => ~Fit(proc)
        BY <1>1, <1>6, <3>2, <4>3 DEF Fit
      <4> QED BY <3>2, <4>1, <4>2, <4>4
    <3> QED BY <1>4, <1>7, <3>1, <3>2
  <2>4. /\ pc[c] = "load" /\ Fit(proc) => "cost model" \in memory[proc]
        /\ pc[c] \in AtRest \cup {"wait"} /\ proc # 0 /\ Fit(proc) => memory[proc] = Whole
    BY DEF LoadedInv, Data
  <2> QED BY <1>2, <2>0, <2>1, <2>2, <2>3, <2>4 DEF Data
<1> QED BY <1>8, <1>9 DEF LoadedInv

LEMMA LoadedReadEOFKept ==
  ASSUME NEW c \in Calls, WorkerInv, Sole(c), LoadedInv(c), NEW p \in Processes,
         ReadEOF(p) \/ Die(p) \/ Exited(p)
  PROVE  LoadedInv(c)'
<1>1. /\ UNCHANGED <<proc, stdin, stdout, memory, refused, pc, myId>>
      /\ \A q \in Processes : os'[q] = "running" => os[q] = "running"
  BY DEF ReadEOF, Die, Exited, worker, system, WorkerInv, SystemTypes
<1>2. proc # 0 => proc \in Processes
  BY LimitsAreNumbers DEF WorkerInv, ClientTypes, Processes
<1>3. \/ future'[c] = future[c]
      \/ os[proc] # "running" /\ future'[c].state = "dead"
  <2>1. CASE ReadEOF(p)
    <3>1. os[proc] # "running"
      BY <2>1 DEF ReadEOF, Sole, Alone
    <3>2. future'[c] = IF c \in Range(pending) /\ future[c].state = "pending"
                       THEN Future("dead") ELSE future[c]
      BY <2>1 DEF ReadEOF, AllDead
    <3>3. CASE c \in Range(pending) /\ future[c].state = "pending"
      BY <3>1, <3>2, <3>3, FutureTyped
    <3>4. CASE ~(c \in Range(pending) /\ future[c].state = "pending")
      BY <3>2, <3>4
    <3> QED BY <3>3, <3>4
  <2>2. CASE Die(p) \/ Exited(p)
    BY <2>2 DEF Die, Exited
  <2> QED BY <2>1, <2>2
<1>4. proc # 0 /\ os'[proc] = "running" => os[proc] = "running" /\ future'[c] = future[c]
  BY <1>1, <1>2, <1>3
<1>5. OneOutstanding(c)'
  BY <1>1, <1>4 DEF LoadedInv, OneOutstanding, Exchanged
<1>6. pc[c] \in Waiting => proc # 0
  BY DEF Sole, AtPlace
<1>7. Data(c)'
  <2>1. pc[c] \in Waiting /\ future'[c].state = "dead" => os'[proc] # "running"
    BY <1>4, <1>6 DEF LoadedInv, Data
  <2>2. future'[c].state = "answered" => future'[c] = future[c]
    BY <1>3
  <2>3. /\ \A q \in Processes : Fit(q)' => Fit(q)
        /\ proc # 0 /\ Fit(proc)' => Fit(proc)
    BY <1>1, <1>4 DEF Fit
  <2>4. /\ pc[c] \in {"init", "load"} /\ future'[c].state = "answered" =>
            IF future'[c].ok THEN Gains(Asked(pc[c])) \subseteq memory[proc] ELSE ~Fit(proc)'
        /\ pc[c] = "load" /\ Fit(proc)' => "cost model" \in memory[proc]
    BY <1>6, <2>2, <2>3 DEF LoadedInv, Data, Waiting
  <2> QED BY <1>1, <2>1, <2>3, <2>4 DEF LoadedInv, Data
<1> QED BY <1>5, <1>7 DEF LoadedInv

LEMMA LoadedServeKept ==
  ASSUME NEW c \in Calls, WorkerInv, Sole(c), LoadedInv(c), NEW p \in Processes, Serve(p)
  PROVE  LoadedInv(c)'
<1> DEFINE r == Head(stdin[p])
<1>1. p = proc /\ proc # 0 /\ os[p] = "running"
  <2>1. p = proc /\ os[p] = "running"
    BY DEF Serve, Sole, Alone
  <2>2. 0 \notin Processes
    BY LimitsAreNumbers DEF Processes
  <2> QED BY <2>1, <2>2
<1>2. PICK ok \in BOOLEAN :
        /\ stdin[p] # <<>>
        /\ stdin' = [stdin EXCEPT ![p] = Tail(@)]
        /\ stdout' = [stdout EXCEPT ![p] = Append(@, Answer(r, ok))]
        /\ memory' = [memory EXCEPT ![p] = IF ok THEN @ \cup Gains(r.kind) ELSE @]
        /\ refused' = IF ok \/ r.kind = "eval" THEN refused ELSE refused \cup {p}
        /\ UNCHANGED <<proc, os, pc, future, myId>>
  BY DEF Serve, Answer, worker
<1>3. stdin[p] \in Seq(Request) /\ stdout[p] \in Seq(Response)
  BY DEF WorkerInv, SystemTypes
<1>4. /\ r \in Request /\ r \in Range(stdin[p])
      /\ Len(stdin[p]) = 1 => Tail(stdin[p]) = <<>>
  BY <1>2, <1>3, TakenRange, LastTaken
<1> HIDE DEF r
<1> DEFINE answer == Answer(r, ok)
<1>5. /\ answer \in Response /\ answer.id = r.id /\ answer.kind = r.kind /\ answer.ok = ok
      /\ r.kind \in Kinds
  BY <1>4, AnswerTyped DEF Request
<1>a. stdout' = [stdout EXCEPT ![p] = Append(@, answer)]
  BY <1>2
<1> HIDE DEF answer
<1>6. /\ memory[p] \subseteq memory'[p] /\ memory'[p] \subseteq Whole
      /\ ok => Gains(r.kind) \subseteq memory'[p]
      /\ \A q \in Processes \ {p} : memory'[q] = memory[q]
  <2>1. memory[p] \subseteq Whole /\ Gains(r.kind) \subseteq Whole
    BY <1>5, GainsTyped DEF WorkerInv, SystemTypes
  <2> QED BY <1>2, <2>1 DEF WorkerInv, SystemTypes
<1>7. /\ refused \subseteq refused'
      /\ ~ok /\ r.kind # "eval" => p \in refused'
  BY <1>2
<1>8. Fit(proc)' => Fit(proc)
  BY <1>2, <1>7 DEF Fit
<1>9. /\ Range(Append(stdout[p], answer)) = Range(stdout[p]) \cup {answer}
      /\ stdout[p] = <<>> => Len(Append(stdout[p], answer)) = 1
  BY <1>3, <1>5, AppendedRange, AppendedFirst
<1>10. /\ stdin'[p] = Tail(stdin[p]) /\ stdout'[p] = Append(stdout[p], answer)
       /\ \A q \in Processes \ {p} : stdin'[q] = stdin[q] /\ stdout'[q] = stdout[q]
  BY <1>2, <1>a DEF WorkerInv, SystemTypes
<1>11. /\ Len(stdin[p]) = 1 /\ stdout[p] = <<>>
       /\ pc[c] \notin AtRest
       /\ pc[c] \in Waiting => future[c].state = "pending" /\ r.id = myId[c]
  <2>1. r \in Exchanged
    BY <1>1, <1>4 DEF Exchanged
  <2> QED BY <1>1, <1>2, <2>1 DEF LoadedInv, OneOutstanding
<1>12. stdin'[p] = <<>> /\ Len(stdout'[p]) = 1
  BY <1>4, <1>9, <1>10, <1>11
<1>13. OneOutstanding(c)'
  <2>1. \A m \in Exchanged' : m = answer
    BY <1>1, <1>2, <1>9, <1>10, <1>11, <1>12, EmptyRange DEF Exchanged
  <2> QED BY <1>1, <1>2, <1>5, <1>11, <1>12, <2>1 DEF OneOutstanding
<1>14. \A q \in Processes : os'[q] = "running" => Range(stdin'[q]) = {}
  BY <1>1, <1>2, <1>12, EmptyRange DEF Sole, Alone
<1>15. \A q \in Processes : \A m \in Range(stdout'[q]) :
         /\ m.ok => Gains(m.kind) \subseteq memory'[q]
         /\ ~m.ok /\ m.kind # "eval" => q \in refused'
  <2> SUFFICES ASSUME NEW q \in Processes, NEW m \in Range(stdout'[q])
               PROVE  /\ m.ok => Gains(m.kind) \subseteq memory'[q]
                      /\ ~m.ok /\ m.kind # "eval" => q \in refused'
    OBVIOUS
  <2>1. CASE m \in Range(stdout[q])
    <3>1. /\ m.ok => Gains(m.kind) \subseteq memory[q]
          /\ ~m.ok /\ m.kind # "eval" => q \in refused
      BY <2>1 DEF LoadedInv, Data
    <3>2. memory[q] \subseteq memory'[q]
      BY <1>6
    <3> QED BY <1>7, <3>1, <3>2
  <2>2. CASE q = p /\ m = answer
    BY <1>5, <1>6, <1>7, <2>2
  <2>3. q # p => m \in Range(stdout[q])
    BY <1>10
  <2>4. q = p => m \in Range(stdout[q]) \/ m = answer
    BY <1>9, <1>10
  <2> QED BY <2>1, <2>2, <2>3, <2>4
<1>16. /\ pc[c] = "load" /\ Fit(proc)' => "cost model" \in memory'[proc]
       /\ pc[c] = "wait" /\ Fit(proc)' => memory'[proc] = Whole
  BY <1>1, <1>6, <1>8 DEF LoadedInv, Data
<1>17. pc[c] \in Waiting => future[c].state = "pending"
  BY <1>11
<1>18. Data(c)'
  BY <1>2, <1>11, <1>14, <1>15, <1>16, <1>17 DEF Data, Fit, Waiting
<1> QED BY <1>13, <1>18 DEF LoadedInv

LEMMA LoadedKept ==
  ASSUME Preloaded, NEW c \in Calls, WorkerInv, Sole(c), LoadedInv(c), [Next]_vars
  PROVE  LoadedInv(c)'
<1>1. CASE CallStep(c)
  BY <1>1, LoadedCallKept, LoadedSendEvalKept, LoadedTakenKept, LoadedCleanupKept, LoadedSpawnKept,
     LoadedReplayKept DEF CallStep
<1>2. \A d \in Calls \ {c} : ~CallStep(d)
  BY OnlyItsSteps
<1>3. CASE \E p \in Processes : ProcessStep(p) \/ Die(p)
  BY <1>3, LoadedReadLineKept, LoadedReadEOFKept, LoadedServeKept DEF ProcessStep
<1>4. CASE \E cs \in SUBSET Calls : EvalTimeout(cs)
  BY <1>4, LoadedEvalTimeoutKept
<1>5. CASE UNCHANGED vars
  BY <1>5 DEF vars, worker, system, LoadedInv, OneOutstanding, Data, Fit, Exchanged
<1> QED BY <1>1, <1>2, <1>3, <1>4, <1>5 DEF Next

\* Nothing is under way when the next call is made.
LEMMA LoadedMovesOn ==
  ASSUME NEW c \in Calls, NEW d \in Calls, WorkerInv, LoadedInv(c), NextCall(d)
  PROVE  LoadedInv(d)'
<1>1. /\ pc[c] \in AtRest /\ pc' = [pc EXCEPT ![d] = "idle"]
      /\ UNCHANGED <<proc, os, stdin, stdout, memory, refused, future>>
  BY DEF NextCall, AtRest, worker, system
<1>2. pc'[d] = "idle" /\ "idle" \notin Waiting
  BY <1>1 DEF WorkerInv, CallTypes, Waiting
<1>3. OneOutstanding(d)'
  BY <1>1, <1>2 DEF LoadedInv, OneOutstanding
<1>4. Data(d)'
  BY <1>1, <1>2 DEF LoadedInv, Data, Fit
<1> QED BY <1>3, <1>4 DEF LoadedInv

-----------------------------------------------------------------------------
(* Any number of calls at a time, with at most one fault: which answers    *)
(* can still be read, and under which ids.                                 *)

\* A call waits for a response; a process whose output is read; its messages.
Awaits(c) == pc[c] \in Waiting /\ future[c].state = "pending"
Heard(p) == \E r \in Processes : reads[r] = p
Messages(p) == Range(stdin[p]) \cup Range(stdout[p])

\* The requests that wait are those of the calls that do, under the ids they gave last.
Registered ==
  /\ \A id \in DOMAIN pending :
       /\ id \in Nat /\ id < nextId
       /\ myId[pending[id]] = id /\ pc[pending[id]] \in Waiting
  /\ \A c \in Calls : Awaits(c) => myId[c] \in DOMAIN pending /\ pending[myId[c]] = c
  /\ proc # 0 => \A c \in Calls : pc[c] \in Waiting =>
       myId[c] < nextId /\ (myId[c] \in DOMAIN pending => pending[myId[c]] = c)

\* A message that can still be read under an id that waits answers who waits.
Addressed ==
  \A p \in Processes : Heard(p) =>
    \A m \in Messages(p) :
      /\ m.id < nextId
      /\ m.id \in DOMAIN pending => m.call = pending[m.id] /\ m.kind = Asked(pc[m.call])

OwnAnswers ==
  \A c \in Calls :
    /\ pc[c] = "wait" /\ future[c].state = "answered" /\ future[c].ok =>
         future[c].call = c /\ future[c].kind = "eval"
    /\ pc[c] = "done" =>
         future[c].state = "answered" /\ future[c].call = c /\ future[c].kind = "eval"

OnlyFirst == \A p \in Processes \ {1} : os[p] = "none"

\* The worker runs and is read, no call is closing it, and what is waited for is on its
\* way: from the start to the fault, and again from the first restart on, after which
\* ids are not reset any more.
Settled ==
  /\ proc # 0 /\ os[proc] = "running" /\ Heard(proc)
  /\ \A p \in Processes : Heard(p) => os[p] = "running"
  /\ \A c \in Calls : pc[c] \notin {"expired", "restart", "terminate", "reap"}
  /\ \A c \in Calls : Awaits(c) =>
       \E p \in Processes : Heard(p) /\ \E m \in Messages(p) : m.id = myId[c]
  /\ faults = 0 => OnlyFirst /\ \A c \in Calls : pc[c] \notin {"spawn", "init", "load"}

\* From the fault to the first restart: all calls close the first process, and those that
\* have done so wait to spawn one.  Ids are reset when that process is read no more.
Broken ==
  /\ OnlyFirst /\ faults = 1 /\ proc \in {0, 1} /\ reads[1] \in {0, 1}
  /\ \A c \in Calls : pc[c] \notin {"init", "load"}
  /\ \A c \in Calls : pc[c] \in {"terminate", "reap"} => reads[1] = 0
  /\ \A c \in Calls : pc[c] = "reap" => reaped[c] = 1
  /\ proc = 0 => os[1] = "exited" /\ reads[1] = 0 /\ DOMAIN pending = {}
  /\ proc = 1 => \A c \in Calls : pc[c] # "spawn"

Crowd == Registered /\ Addressed /\ OwnAnswers /\ (Settled \/ Broken)

\* What is left of f when what waits for c is not.
Unregistered(f, c) ==
  /\ \A id \in DOMAIN f : id \in DOMAIN pending /\ f[id] = pending[id] /\ pending[id] # c
  /\ \A id \in DOMAIN pending : pending[id] # c => id \in DOMAIN f

LEMMA WithoutUnregisters ==
  ASSUME NEW c \in Calls, Crowd, pc[c] \in Waiting
  PROVE  Unregistered(Without(pending, myId[c]), c)
<1> DEFINE f == Without(pending, myId[c])
<1>1. DOMAIN f = DOMAIN pending \ {myId[c]} /\ \A id \in DOMAIN f : f[id] = pending[id]
  BY RestrictedRange DEF Without
<1> HIDE DEF f
<1>2. \A id \in DOMAIN pending : pending[id] = c <=> id = myId[c]
  BY DEF Crowd, Registered, Settled, Broken
<1> QED BY <1>1, <1>2 DEF Unregistered, f

LEMMA StaysUnregistered ==
  ASSUME NEW c \in Calls, Registered, pc[c] \notin Waiting
  PROVE  Unregistered(pending, c)
BY DEF Registered, Unregistered

\* Messages are numbered.
LEMMA MessagesTyped ==
  ASSUME SystemTypes, NEW p \in Processes, NEW m \in Messages(p)
  PROVE  m.id \in Nat /\ m \in Request \cup Response
<1>1. m \in Request \cup Response
  BY RangeTyped DEF Messages, SystemTypes
<1> QED BY <1>1 DEF Request, Response

\* A step in which c says nothing and ceases to wait.
LEMMA CrowdMoves ==
  ASSUME NEW c \in Calls, WorkerInv, Crowd,
         UNCHANGED <<proc, reads, os, stdin, stdout, future, faults, myId, reaped>>,
         nextId' \in Nat, nextId' >= nextId, Unregistered(pending', c),
         pc' = [pc EXCEPT ![c] = pc'[c]],
         pc'[c] \in {"idle", "check", "eval", "restart", "done", "failed"},
         pc'[c] = "restart" => Broken,
         pc'[c] = "done" => /\ future[c].state = "answered"
                            /\ future[c].call = c /\ future[c].kind = "eval"
  PROVE  Crowd'
<1>1. pc'[c] \notin Waiting /\ \A d \in Calls \ {c} : pc'[d] = pc[d]
  BY DEF WorkerInv, CallTypes, Waiting
<1>2. \A d \in Calls : Awaits(d)' => Awaits(d) /\ d # c
  BY <1>1 DEF Awaits
<1>3. \A p \in Processes : (Heard(p)' <=> Heard(p)) /\ Messages(p)' = Messages(p)
  BY DEF Heard, Messages
<1>4. \A id \in DOMAIN pending' : pending[id] \in Calls \ {c} /\ id \in DOMAIN pending /\ pending'[id] = pending[id]
  BY DEF Unregistered, WorkerInv, ClientTypes, Range
<1>5. nextId \in Nat
  BY DEF WorkerInv, ClientTypes
<1>6. Registered'
  <2>1. \A id \in DOMAIN pending' :
          /\ id \in Nat /\ id < nextId'
          /\ myId'[pending'[id]] = id /\ pc'[pending'[id]] \in Waiting
    BY <1>1, <1>4, <1>5 DEF Crowd, Registered
  <2>2. \A d \in Calls : Awaits(d)' => myId'[d] \in DOMAIN pending' /\ pending'[myId'[d]] = d
    BY <1>2, <1>4 DEF Crowd, Registered, Unregistered
  <2>3. proc' # 0 => \A d \in Calls : pc'[d] \in Waiting =>
          myId'[d] < nextId' /\ (myId'[d] \in DOMAIN pending' => pending'[myId'[d]] = d)
    <3> SUFFICES ASSUME proc # 0, NEW d \in Calls, pc'[d] \in Waiting
                 PROVE  myId[d] < nextId' /\ (myId[d] \in DOMAIN pending' => pending'[myId[d]] = d)
      OBVIOUS
    <3>1. pc[d] \in Waiting /\ myId[d] \in Nat
      BY <1>1 DEF WorkerInv, CallTypes
    <3>2. myId[d] < nextId /\ (myId[d] \in DOMAIN pending => pending[myId[d]] = d)
      BY <3>1 DEF Crowd, Registered
    <3> QED BY <1>4, <1>5, <3>1, <3>2
  <2> QED BY <2>1, <2>2, <2>3 DEF Registered
<1>7. Addressed'
  <2> SUFFICES ASSUME NEW p \in Processes, Heard(p), NEW m \in Messages(p)
               PROVE  /\ m.id < nextId'
                      /\ m.id \in DOMAIN pending' =>
                           m.call = pending'[m.id] /\ m.kind = Asked(pc'[m.call])
    BY <1>3 DEF Addressed
  <2>1. m.id \in Nat
    BY MessagesTyped DEF WorkerInv
  <2>2. m.id < nextId /\ (m.id \in DOMAIN pending => m.call = pending[m.id] /\ m.kind = Asked(pc[m.call]))
    BY DEF Crowd, Addressed
  <2> QED BY <1>1, <1>4, <1>5, <2>1, <2>2
<1>8. OwnAnswers'
  <2>1. pc'[c] # "wait"
    OBVIOUS
  <2> QED BY <1>1, <2>1 DEF Crowd, OwnAnswers
<1>9. Settled /\ pc'[c] # "restart" => Settled'
  <2> SUFFICES ASSUME Settled, pc'[c] # "restart" PROVE Settled'
    OBVIOUS
  <2>1. proc' # 0 /\ os'[proc'] = "running" /\ Heard(proc)'
    BY DEF Settled, Heard
  <2>2. \A d \in Calls : pc'[d] \notin {"expired", "restart", "terminate", "reap"}
    BY <1>1 DEF Settled
  <2>3. \A p \in Processes : Heard(p)' => os'[p] = "running"
    BY <1>3 DEF Settled
  <2>4. \A d \in Calls : Awaits(d)' =>
          \E p \in Processes : Heard(p)' /\ \E m \in Messages(p)' : m.id = myId'[d]
    BY <1>2, <1>3 DEF Settled
  <2>5. faults' = 0 => OnlyFirst' /\ \A d \in Calls : pc'[d] \notin {"spawn", "init", "load"}
    BY <1>1 DEF Settled, OnlyFirst
  <2> QED BY <2>1, <2>2, <2>3, <2>4, <2>5 DEF Settled
<1>10. Broken => Broken'
  <2>1. DOMAIN pending = {} => DOMAIN pending' = {}
    BY <1>4
  <2> QED BY <1>1, <2>1 DEF Broken, OnlyFirst
<1> QED BY <1>6, <1>7, <1>8, <1>9, <1>10 DEF Crowd

LEMMA CrowdCallKept ==
  ASSUME NEW c \in Calls, WorkerInv, Crowd, Call(c) \/ HealthCheck(c)
  PROVE  Crowd'
<1>1. /\ pc[c] \in {"idle", "check"} /\ pc'[c] \in {"check", "eval", "restart"}
      /\ pc' = [pc EXCEPT ![c] = pc'[c]]
      /\ pc'[c] = "restart" => ~Healthy
  BY DEF Call, HealthCheck, WorkerInv, CallTypes
<1>2. UNCHANGED <<worker, reads, system, future, faults, myId, reaped>>
  BY DEF Call, HealthCheck
<1>3. Unregistered(pending', c)
  BY <1>1, <1>2, StaysUnregistered DEF Waiting, Crowd, worker
<1>4. nextId' \in Nat /\ nextId' >= nextId
  BY <1>2 DEF worker, WorkerInv, ClientTypes
<1>5. pc'[c] = "restart" => Broken
  BY <1>1 DEF Crowd, Settled, Healthy
<1> QED BY <1>1, <1>2, <1>3, <1>4, <1>5, CrowdMoves DEF worker, system

LEMMA CrowdTakenKept ==
  ASSUME NEW c \in Calls, WorkerInv, Crowd,
         EvalAnswered(c) \/ EvalDead(c) \/ EndRestart(c) \/ LoadFailed(c)
  PROVE  Crowd'
<1>1. /\ pc[c] \in Waiting /\ future[c].state # "pending"
      /\ pending' = Without(pending, myId[c])
      /\ UNCHANGED <<proc, nextId, reads, os, stdin, stdout, future, faults, myId, reaped>>
  BY DEF EvalAnswered, EvalDead, EndRestart, LoadFailed, Waiting, system
<1>2. /\ pc' = [pc EXCEPT ![c] = pc'[c]]
      /\ pc'[c] \in {"check", "failed", "eval", "done"}
      /\ pc'[c] = "done" => pc[c] = "wait" /\ future[c].state = "answered" /\ future[c].ok
  <2>1. CASE EvalAnswered(c) \/ LoadFailed(c)
    BY <2>1 DEF EvalAnswered, LoadFailed, WorkerInv, CallTypes
  <2>2. CASE EvalDead(c)
    BY <2>2 DEF EvalDead, AfterFatal, WorkerInv, CallTypes
  <2>3. CASE EndRestart(c)
    BY <2>3 DEF EndRestart, Restarted, AfterFatal, WorkerInv, CallTypes
  <2> QED BY <2>1, <2>2, <2>3
<1>3. pc'[c] = "done" => future[c].state = "answered" /\ future[c].call = c /\ future[c].kind = "eval"
  BY <1>2 DEF Crowd, OwnAnswers
<1>4. Unregistered(pending', c)
  BY <1>1, WithoutUnregisters DEF Crowd
<1>5. nextId' \in Nat /\ nextId' >= nextId
  BY <1>1 DEF WorkerInv, ClientTypes
<1> QED BY <1>1, <1>2, <1>3, <1>4, <1>5, CrowdMoves

LEMMA CrowdNextCallKept ==
  ASSUME NEW c \in Calls, WorkerInv, Crowd, NextCall(c)
  PROVE  Crowd'
<1>1. /\ pc[c] = "later" /\ pc' = [pc EXCEPT ![c] = "idle"]
      /\ UNCHANGED <<worker, reads, system, future, faults, myId, reaped>>
  BY DEF NextCall
<1>2. pc'[c] = "idle"
  BY <1>1 DEF WorkerInv, CallTypes
<1>3. Unregistered(pending', c)
  BY <1>1, StaysUnregistered DEF Waiting, Crowd, worker
<1>4. nextId' \in Nat /\ nextId' >= nextId
  BY <1>1 DEF worker, WorkerInv, ClientTypes
<1> QED BY <1>1, <1>2, <1>3, <1>4, CrowdMoves DEF worker, system

\* What a request of c does to who waits and to the messages.
LEMMA PostRegisters ==
  ASSUME NEW c \in Calls, WorkerInv, Registered, NEW q \in Processes, NEW kind \in Kinds,
         NEW waiting, Unregistered(waiting, c), Post(waiting, c, q, kind)
  PROVE  /\ nextId \in Nat /\ nextId' = nextId + 1 /\ nextId \notin DOMAIN waiting
         /\ \A id : id \in DOMAIN pending' <=> id \in DOMAIN waiting \/ id = nextId
         /\ pending'[nextId] = c
         /\ \A id \in DOMAIN waiting : /\ id \in DOMAIN pending /\ pending'[id] = pending[id]
                                       /\ pending[id] \in Calls \ {c}
         /\ \A id \in DOMAIN pending : pending[id] # c => id \in DOMAIN waiting
         /\ myId'[c] = nextId /\ \A d \in Calls \ {c} : myId'[d] = myId[d]
         /\ future'[c].state = "pending" /\ \A d \in Calls \ {c} : future'[d] = future[d]
         /\ \A m : m \in Range(stdin'[q]) <=> m \in Range(stdin[q]) \/ m = Numbered(nextId, kind, c)
         /\ \A p \in Processes \ {q} : stdin'[p] = stdin[p]
<1> USE DEF WorkerInv
<1>1. /\ nextId \in Nat /\ nextId' = nextId + 1 /\ myId'[c] = nextId
      /\ \A d \in Calls \ {c} : myId'[d] = myId[d]
  BY DEF Post, CallTypes, ClientTypes
<1>2. \A id \in DOMAIN waiting : /\ id \in DOMAIN pending /\ waiting[id] = pending[id]
                                 /\ pending[id] \in Calls \ {c} /\ id < nextId
  BY DEF Unregistered, ClientTypes, Range, Registered
<1>3. nextId \notin DOMAIN waiting
  BY <1>1, <1>2
<1>4. pending' = [id \in DOMAIN waiting \cup {nextId} |-> IF id = nextId THEN c ELSE waiting[id]]
  BY DEF Post
<1>5. /\ \A id : id \in DOMAIN pending' <=> id \in DOMAIN waiting \/ id = nextId
      /\ pending'[nextId] = c
      /\ \A id \in DOMAIN waiting : pending'[id] = waiting[id]
  BY <1>3, <1>4
<1>6. future'[c].state = "pending" /\ \A d \in Calls \ {c} : future'[d] = future[d]
  BY FutureTyped DEF Post, CallTypes
<1>7. Numbered(nextId, kind, c) \in Request
  BY DEF Request, ClientTypes, Numbered
<1>8. /\ stdin'[q] = Append(stdin[q], Numbered(nextId, kind, c))
      /\ stdin[q] \in Seq(Request)
      /\ \A p \in Processes \ {q} : stdin'[p] = stdin[p]
  BY DEF Post, SystemTypes, Numbered
<1>9. \A m : m \in Range(stdin'[q]) <=> m \in Range(stdin[q]) \/ m = Numbered(nextId, kind, c)
  BY <1>7, <1>8, AppendedRange
<1> QED BY <1>1, <1>2, <1>3, <1>5, <1>6, <1>8, <1>9 DEF Unregistered

\* Who waits is told apart, and every message is for who waits for it, after a request of
\* c to q; old is what was said to q before, and can still be read.
LEMMA PostAddresses ==
  ASSUME NEW c \in Calls, WorkerInv, Registered, Addressed, OwnAnswers,
         NEW q \in Processes, NEW place \in Waiting, NEW kind \in Kinds, kind = Asked(place),
         NEW waiting, Unregistered(waiting, c), Post(waiting, c, q, kind),
         pc' = [pc EXCEPT ![c] = place], UNCHANGED stdout,
         \A p \in Processes \ {q} : Heard(p)' => Heard(p),
         Heard(q)' => Heard(q) \/ Messages(q) = {},
         \A d \in Calls \ {c} : pc[d] \in Waiting =>
           myId[d] < nextId /\ (myId[d] \in DOMAIN pending => pending[myId[d]] = d)
  PROVE  /\ Registered' /\ Addressed' /\ OwnAnswers'
         /\ Awaits(c)' /\ \A d \in Calls \ {c} : (Awaits(d)' <=> Awaits(d)) /\ myId'[d] = myId[d]
         /\ \A p \in Processes : Messages(p) \subseteq Messages(p)'
         /\ \E m \in Messages(q)' : m.id = myId'[c]
<1>1. /\ nextId \in Nat /\ nextId' = nextId + 1 /\ nextId \notin DOMAIN waiting
      /\ \A id : id \in DOMAIN pending' <=> id \in DOMAIN waiting \/ id = nextId
      /\ pending'[nextId] = c
      /\ \A id \in DOMAIN waiting : /\ id \in DOMAIN pending /\ pending'[id] = pending[id]
                                    /\ pending[id] \in Calls \ {c}
      /\ \A id \in DOMAIN pending : pending[id] # c => id \in DOMAIN waiting
      /\ myId'[c] = nextId /\ \A d \in Calls \ {c} : myId'[d] = myId[d]
      /\ future'[c].state = "pending" /\ \A d \in Calls \ {c} : future'[d] = future[d]
      /\ \A m : m \in Range(stdin'[q]) <=> m \in Range(stdin[q]) \/ m = Numbered(nextId, kind, c)
      /\ \A p \in Processes \ {q} : stdin'[p] = stdin[p]
  BY PostRegisters
<1>2. pc'[c] = place /\ \A d \in Calls \ {c} : pc'[d] = pc[d]
  BY DEF WorkerInv, CallTypes
<1>3. Awaits(c)' /\ \A d \in Calls \ {c} : (Awaits(d)' <=> Awaits(d)) /\ myId'[d] = myId[d]
  BY <1>1, <1>2 DEF Awaits
<1>4. /\ \A m : m \in Messages(q)' <=> m \in Messages(q) \/ m = Numbered(nextId, kind, c)
      /\ \A p \in Processes \ {q} : Messages(p)' = Messages(p)
  BY <1>1 DEF Messages
<1>5. Registered'
  <2>1. \A id \in DOMAIN pending' :
          /\ id \in Nat /\ id < nextId'
          /\ myId'[pending'[id]] = id /\ pc'[pending'[id]] \in Waiting
    <3> SUFFICES ASSUME NEW id \in DOMAIN pending'
                 PROVE  /\ id \in Nat /\ id < nextId'
                        /\ myId'[pending'[id]] = id /\ pc'[pending'[id]] \in Waiting
      OBVIOUS
    <3>1. CASE id = nextId
      BY <1>1, <1>2, <3>1
    <3>2. CASE id # nextId
      <4>1. /\ id \in DOMAIN pending /\ pending'[id] = pending[id] /\ pending[id] \in Calls \ {c}
        BY <1>1, <3>2
      <4>2. id \in Nat /\ id < nextId /\ myId[pending[id]] = id /\ pc[pending[id]] \in Waiting
        BY <4>1 DEF Registered
      <4> QED BY <1>1, <1>2, <4>1, <4>2
    <3> QED BY <3>1, <3>2
  <2>2. \A d \in Calls : Awaits(d)' => myId'[d] \in DOMAIN pending' /\ pending'[myId'[d]] = d
    <3>1. \A d \in Calls \ {c} : Awaits(d) => myId[d] \in DOMAIN pending /\ pending[myId[d]] = d
      BY DEF Registered
    <3> QED BY <1>1, <1>3, <3>1
  <2>3. \A d \in Calls : pc'[d] \in Waiting =>
          myId'[d] < nextId' /\ (myId'[d] \in DOMAIN pending' => pending'[myId'[d]] = d)
    <3> SUFFICES ASSUME NEW d \in Calls, pc'[d] \in Waiting
                 PROVE  myId'[d] < nextId' /\ (myId'[d] \in DOMAIN pending' => pending'[myId'[d]] = d)
      OBVIOUS
    <3>1. CASE d = c
      BY <1>1, <3>1
    <3>2. CASE d # c
      <4>1. myId[d] < nextId /\ (myId[d] \in DOMAIN pending => pending[myId[d]] = d)
        BY <1>2, <3>2
      <4>2. myId[d] \in Nat
        BY DEF WorkerInv, CallTypes
      <4> QED BY <1>1, <3>2, <4>1, <4>2
    <3> QED BY <3>1, <3>2
  <2> QED BY <2>1, <2>2, <2>3 DEF Registered
<1>6. Addressed'
  <2> SUFFICES ASSUME NEW p \in Processes, Heard(p)', NEW m \in Messages(p)'
               PROVE  /\ m.id < nextId'
                      /\ m.id \in DOMAIN pending' =>
                           m.call = pending'[m.id] /\ m.kind = Asked(pc'[m.call])
    BY DEF Addressed
  <2>1. CASE m = Numbered(nextId, kind, c)
    <3>1. m.id = nextId /\ m.call = c /\ m.kind = kind
      BY <2>1 DEF Numbered
    <3> QED BY <1>1, <1>2, <3>1
  <2>2. CASE m # Numbered(nextId, kind, c)
    <3>1. m \in Messages(p) /\ Heard(p)
      BY <1>4, <2>2
    <3>2. m.id \in Nat
      BY <3>1, MessagesTyped DEF WorkerInv
    <3>3. m.id < nextId /\ (m.id \in DOMAIN pending => m.call = pending[m.id] /\ m.kind = Asked(pc[m.call]))
      BY <3>1 DEF Addressed
    <3> QED BY <1>1, <1>2, <3>2, <3>3
  <2> QED BY <2>1, <2>2
<1>7. OwnAnswers'
  <2>1. pc'[c] # "done"
    BY <1>2 DEF Waiting
  <2> QED BY <1>1, <1>2, <2>1 DEF OwnAnswers
<1>8. \E m \in Messages(q)' : m.id = myId'[c]
  <2>1. Numbered(nextId, kind, c).id = nextId
    BY DEF Numbered
  <2> QED BY <1>1, <1>4, <2>1
<1>9. \A p \in Processes : Messages(p) \subseteq Messages(p)'
  BY <1>4
<1> QED BY <1>3, <1>5, <1>6, <1>7, <1>8, <1>9

\* A step in which c sends a request to the process the worker has.
LEMMA CrowdPosts ==
  ASSUME NEW c \in Calls, WorkerInv, Crowd, proc # 0,
         NEW place \in {"wait", "load"}, NEW kind \in Kinds, kind = Asked(place),
         place = "load" => pc[c] = "init",
         NEW waiting, Unregistered(waiting, c), Post(waiting, c, proc, kind),
         pc' = [pc EXCEPT ![c] = place], UNCHANGED <<proc, reads, os, stdout, reaped, faults>>
  PROVE  Crowd'
<1>1. proc \in Processes /\ place \in Waiting
  BY LimitsAreNumbers DEF WorkerInv, ClientTypes, Processes, Waiting
<1>2. \A p \in Processes : Heard(p)' <=> Heard(p)
  BY DEF Heard
<1>3. \A d \in Calls \ {c} : pc[d] \in Waiting =>
        myId[d] < nextId /\ (myId[d] \in DOMAIN pending => pending[myId[d]] = d)
  BY DEF Crowd, Registered
<1>4. Registered /\ Addressed /\ OwnAnswers
  BY DEF Crowd
<1>5. /\ Registered' /\ Addressed' /\ OwnAnswers'
      /\ Awaits(c)' /\ \A d \in Calls \ {c} : (Awaits(d)' <=> Awaits(d)) /\ myId'[d] = myId[d]
      /\ \A p \in Processes : Messages(p) \subseteq Messages(p)'
      /\ \E m \in Messages(proc)' : m.id = myId'[c]
  BY <1>1, <1>2, <1>3, <1>4, PostAddresses
<1>6. pc'[c] = place /\ \A d \in Calls \ {c} : pc'[d] = pc[d]
  BY DEF WorkerInv, CallTypes
<1>7. Settled => Settled'
  <2> SUFFICES ASSUME Settled PROVE Settled'
    OBVIOUS
  <2>1. proc' # 0 /\ os'[proc'] = "running" /\ Heard(proc)'
    BY <1>1, <1>2 DEF Settled
  <2>2. \A d \in Calls : pc'[d] \notin {"expired", "restart", "terminate", "reap"}
    BY <1>6 DEF Settled
  <2>3. \A p \in Processes : Heard(p)' => os'[p] = "running"
    BY <1>2 DEF Settled
  <2>4. \A d \in Calls : Awaits(d)' =>
          \E p \in Processes : Heard(p)' /\ \E m \in Messages(p)' : m.id = myId'[d]
    <3> SUFFICES ASSUME NEW d \in Calls, Awaits(d)'
                 PROVE  \E p \in Processes : Heard(p)' /\ \E m \in Messages(p)' : m.id = myId'[d]
      OBVIOUS
    <3>1. CASE d = c
      BY <1>1, <1>5, <2>1, <3>1
    <3>2. CASE d # c
      <4>1. PICK p \in Processes : Heard(p) /\ \E m \in Messages(p) : m.id = myId[d]
        BY <1>5, <3>2 DEF Settled
      <4> QED BY <1>2, <1>5, <3>2, <4>1
    <3> QED BY <3>1, <3>2
  <2>5. faults' = 0 => OnlyFirst' /\ \A d \in Calls : pc'[d] \notin {"spawn", "init", "load"}
    BY <1>6 DEF Settled, OnlyFirst
  <2> QED BY <2>1, <2>2, <2>3, <2>4, <2>5 DEF Settled
<1>8. Broken => Broken'
  BY <1>6 DEF Broken, OnlyFirst
<1> QED BY <1>5, <1>7, <1>8 DEF Crowd

LEMMA CrowdSendEvalKept ==
  ASSUME NEW c \in Calls, WorkerInv, Crowd, SendEval(c)
  PROVE  Crowd'
<1>0. /\ pc[c] = "eval" /\ UNCHANGED <<proc, reads, os, stdout, reaped, faults>>
      /\ "wait" \in Waiting /\ Asked("wait") = "eval" /\ "eval" \in Kinds
  BY DEF SendEval, Waiting, Asked, Kinds
<1>1. Unregistered(pending, c)
  BY <1>0, StaysUnregistered DEF Waiting, Crowd
<1>2. CASE /\ Healthy /\ Post(pending, c, proc, "eval")
           /\ pc' = [pc EXCEPT ![c] = "wait"]
  BY <1>0, <1>1, <1>2, CrowdPosts DEF Healthy
<1>3. CASE AfterFatal(c) /\ nextId' = (IF proc = 0 THEN nextId ELSE nextId + 1)
           /\ UNCHANGED <<pending, myId, future, stdin>>
  <2>1. pc' = [pc EXCEPT ![c] = pc'[c]] /\ pc'[c] \in {"check", "failed"}
    BY <1>3 DEF AfterFatal, WorkerInv, CallTypes
  <2>2. nextId' \in Nat /\ nextId' >= nextId
    BY <1>3 DEF WorkerInv, ClientTypes
  <2>3. Unregistered(pending', c)
    BY <1>1, <1>3
  <2> QED BY <1>0, <1>3, <2>1, <2>2, <2>3, CrowdMoves
<1> QED BY <1>2, <1>3 DEF SendEval

LEMMA CrowdReplayKept ==
  ASSUME NEW c \in Calls, WorkerInv, Crowd, Replay(c)
  PROVE  Crowd'
<1>0. /\ pc[c] = "init" /\ UNCHANGED <<proc, reads, os, stdout, reaped, faults>>
      /\ "init" \in Waiting /\ Asked("load") = "load_data" /\ "load_data" \in Kinds
  BY DEF Replay, Waiting, Asked, Kinds
<1>1. Unregistered(Without(pending, myId[c]), c)
  BY <1>0, WithoutUnregisters
<1>2. CASE /\ Healthy /\ Post(Without(pending, myId[c]), c, proc, "load_data")
           /\ pc' = [pc EXCEPT ![c] = "load"]
  BY <1>0, <1>1, <1>2, CrowdPosts DEF Healthy
<1>3. CASE /\ pc' = [pc EXCEPT ![c] = "failed"] \/ Restarted(c, ~Preloaded)
           /\ pending' = Without(pending, myId[c])
           /\ UNCHANGED <<nextId, myId, future, stdin>>
  <2>1. pc' = [pc EXCEPT ![c] = pc'[c]] /\ pc'[c] \in {"check", "failed", "eval"}
    BY <1>3 DEF AfterFatal, Restarted, WorkerInv, CallTypes
  <2>2. nextId' \in Nat /\ nextId' >= nextId
    BY <1>3 DEF WorkerInv, ClientTypes
  <2>3. Unregistered(pending', c)
    BY <1>1, <1>3
  <2> QED BY <1>0, <1>3, <2>1, <2>2, <2>3, CrowdMoves
<1> QED BY <1>2, <1>3 DEF Replay

\* When all that waits fails, nobody awaits, and no answer is touched.
LEMMA NobodyAwaits ==
  ASSUME WorkerInv, Registered
  PROVE  \A d \in Calls : /\ pc[d] \in Waiting => AllDead[d].state # "pending"
                          /\ AllDead[d] = future[d]
                             \/ (pc[d] \in Waiting /\ AllDead[d].state = "dead")
<1> SUFFICES ASSUME NEW d \in Calls
             PROVE  /\ pc[d] \in Waiting => AllDead[d].state # "pending"
                    /\ AllDead[d] = future[d]
                       \/ (pc[d] \in Waiting /\ AllDead[d].state = "dead")
  OBVIOUS
<1>1. AllDead[d] = IF d \in Range(pending) /\ future[d].state = "pending"
                   THEN Future("dead") ELSE future[d]
  BY DEF AllDead
<1>2. d \in Range(pending) => pc[d] \in Waiting
  BY DEF Range, Registered
<1>3. pc[d] \in Waiting /\ future[d].state = "pending" => d \in Range(pending)
  BY DEF Range, Registered, Awaits
<1>4. Future("dead").state = "dead"
  BY FutureTyped
<1> QED BY <1>1, <1>2, <1>3, <1>4

\* A step of closing: nobody awaits, and nothing can be read any more.
LEMMA CrowdCloses ==
  ASSUME NEW c \in Calls, WorkerInv, Crowd, Broken, pc[c] \notin Waiting,
         UNCHANGED <<stdin, stdout, myId, faults>>,
         pc' = [pc EXCEPT ![c] = pc'[c]], pc'[c] \in {"terminate", "reap", "spawn"},
         future' = AllDead \/ UNCHANGED future,
         \A p \in Processes : reads'[p] = 0,
         \A p \in Processes : p # 1 => os'[p] = os[p],
         \/ UNCHANGED <<proc, nextId, pending>> /\ proc = 1 /\ pc'[c] # "spawn"
            /\ (pc'[c] = "reap" => reaped'[c] = 1)
         \/ /\ proc' = 0 /\ DOMAIN pending' = {} /\ os'[1] = "exited" /\ pc'[c] = "spawn"
            /\ future' = AllDead,
         \A d \in Calls \ {c} : reaped'[d] = reaped[d]
  PROVE  Crowd'
<1>0. Registered /\ OwnAnswers
  BY DEF Crowd
<1>1. \A d \in Calls \ {c} : pc'[d] = pc[d]
  BY DEF WorkerInv, CallTypes
<1>2. pc'[c] \notin Waiting /\ pc'[c] # "done" /\ 1 \in Processes /\ 0 \notin Processes
  BY LimitsAreNumbers DEF Waiting, Processes
<1>3. \A p \in Processes : ~Heard(p)'
  BY <1>2 DEF Heard
<1>4. \A d \in Calls : future'[d] = future[d] \/ (pc[d] \in Waiting /\ future'[d].state = "dead")
  BY <1>0, NobodyAwaits
<1>5. Registered'
  <2>1. CASE UNCHANGED <<proc, nextId, pending>>
    <3>1. \A id \in DOMAIN pending : pending[id] # c /\ pending[id] \in Calls
      BY <1>0 DEF Registered, WorkerInv, ClientTypes, Range
    <3>2. \A d \in Calls : Awaits(d)' => Awaits(d)
      BY <1>1, <1>2, <1>4 DEF Awaits
    <3>3. \A d \in Calls : pc'[d] \in Waiting => pc[d] \in Waiting
      BY <1>1, <1>2
    <3> QED BY <1>0, <1>1, <2>1, <3>1, <3>2, <3>3 DEF Registered
  <2>2. CASE proc' = 0 /\ DOMAIN pending' = {} /\ future' = AllDead
    <3>1. \A d \in Calls : ~Awaits(d)'
      BY <1>0, <1>1, <1>2, <2>2, NobodyAwaits DEF Awaits
    <3> QED BY <2>2, <3>1 DEF Registered
  <2> QED BY <2>1, <2>2
<1>6. Addressed'
  BY <1>3 DEF Addressed
<1>7. OwnAnswers'
  <2>1. \A d \in Calls : pc'[d] \in {"wait", "done"} => d # c
    BY <1>2 DEF Waiting
  <2>2. "done" \notin Waiting
    BY DEF Waiting
  <2> QED BY <1>0, <1>1, <1>4, <2>1, <2>2 DEF OwnAnswers
<1>8. Broken'
  <2>1. OnlyFirst' /\ faults' = 1 /\ proc' \in {0, 1} /\ reads'[1] = 0
    BY <1>2 DEF Broken, OnlyFirst
  <2>2. \A d \in Calls : pc'[d] \notin {"init", "load"}
    BY <1>1, <1>2 DEF Broken, Waiting
  <2>3. \A d \in Calls : pc'[d] = "reap" => reaped'[d] = 1
    BY <1>1 DEF Broken
  <2>4. proc' = 0 => os'[1] = "exited" /\ reads'[1] = 0 /\ DOMAIN pending' = {}
    BY <2>1
  <2>5. proc' = 1 => \A d \in Calls : pc'[d] # "spawn"
    BY <1>1 DEF Broken
  <2> QED BY <2>1, <2>2, <2>3, <2>4, <2>5 DEF Broken
<1> QED BY <1>5, <1>6, <1>7, <1>8 DEF Crowd

LEMMA CrowdCleanupKept ==
  ASSUME NEW c \in Calls, WorkerInv, Crowd, BeginCleanup(c) \/ EndCleanup(c)
  PROVE  Crowd'
<1>0. /\ UNCHANGED <<stdin, stdout, myId, faults>>
      /\ pc[c] \in {"restart", "expired", "terminate", "reap"} /\ pc[c] \notin Waiting
  BY DEF BeginCleanup, EndCleanup, Waiting
<1>1. Broken /\ 1 \in Processes
  BY <1>0, LimitsAreNumbers DEF Crowd, Settled, Processes
<1>2. /\ readerTask = proc /\ proc \in {0, 1}
      /\ \A p \in Processes : reads[p] = 0 \/ p = 1
  BY <1>1 DEF WorkerInv, OnlySpawned, Broken, OnlyFirst
<1>3. CASE /\ readerTask # 0 /\ reads' = [reads EXCEPT ![readerTask] = 0] /\ future' = AllDead
           /\ pc' = [pc EXCEPT ![c] = "terminate"] /\ UNCHANGED <<worker, os, reaped>>
  <2>1. UNCHANGED <<proc, nextId, pending, os>> /\ proc = 1
    BY <1>2, <1>3 DEF worker
  <2>2. pc'[c] = "terminate" /\ pc' = [pc EXCEPT ![c] = pc'[c]]
    BY <1>3 DEF WorkerInv, CallTypes
  <2>3. \A p \in Processes : reads'[p] = 0
    BY <1>2, <1>3 DEF WorkerInv, SystemTypes
  <2> QED BY <1>0, <1>1, <1>3, <2>1, <2>2, <2>3, CrowdCloses
<1>4. CASE /\ proc # 0 /\ Terminate(c) /\ UNCHANGED <<worker, future, reads>> /\ reads[1] = 0
  <2>1. UNCHANGED <<proc, nextId, pending, future>> /\ proc = 1
    BY <1>2, <1>4 DEF worker
  <2>2. pc'[c] = "reap" /\ pc' = [pc EXCEPT ![c] = pc'[c]]
    BY <1>4 DEF WorkerInv, CallTypes, Terminate
  <2>3. reaped'[c] = 1 /\ \A d \in Calls \ {c} : reaped'[d] = reaped[d]
    BY <1>4, <2>1 DEF WorkerInv, CallTypes, Terminate
  <2>4. \A p \in Processes : p # 1 => os'[p] = os[p]
    BY <1>4, <2>1 DEF WorkerInv, SystemTypes, Terminate
  <2>5. \A p \in Processes : reads'[p] = 0
    BY <1>2, <1>4
  <2> QED BY <1>0, <1>1, <2>1, <2>2, <2>3, <2>4, <2>5, CrowdCloses
<1>5. CASE Clear(c) /\ UNCHANGED <<os, reaped, reads>> /\ reads[1] = 0 /\ os[1] = "exited"
  <2>1. future' = AllDead /\ proc' = 0 /\ pending' = <<>>
    BY <1>5 DEF Clear
  <2>2. pc'[c] = "spawn" /\ pc' = [pc EXCEPT ![c] = pc'[c]]
    BY <1>5 DEF WorkerInv, CallTypes, Clear
  <2>3. DOMAIN pending' = {}
    BY <2>1
  <2>4. \A p \in Processes : reads'[p] = 0
    BY <1>2, <1>5
  <2> QED BY <1>0, <1>1, <1>5, <2>1, <2>2, <2>3, <2>4, CrowdCloses
<1>6. CASE BeginCleanup(c) /\ (readerTask # 0 /\ reads[readerTask] # 0)
  BY <1>3, <1>6 DEF BeginCleanup
<1>7. CASE BeginCleanup(c) /\ ~(readerTask # 0 /\ reads[readerTask] # 0)
  <2>1. reads[1] = 0
    BY <1>1, <1>2, <1>7 DEF Broken
  <2>2. proc = 0 => os[1] = "exited"
    BY <1>1 DEF Broken
  <2> QED BY <1>4, <1>5, <1>7, <2>1, <2>2 DEF BeginCleanup
<1>8. CASE EndCleanup(c)
  <2>1. reads[1] = 0
    BY <1>1, <1>8 DEF EndCleanup, Broken
  <2>2. proc = 0 => os[1] = "exited"
    BY <1>1 DEF Broken
  <2>3. pc[c] = "reap" => reaped[c] = 1
    BY <1>1 DEF Broken
  <2> QED BY <1>4, <1>5, <1>8, <2>1, <2>2, <2>3 DEF EndCleanup
<1> QED BY <1>6, <1>7, <1>8

LEMMA CrowdSpawnKept ==
  ASSUME NEW c \in Calls, WorkerInv, Crowd, Spawn(c)
  PROVE  Crowd'
<1>1. PICK n \in Processes : n = Cardinality(Spawned) + 1 /\ os[n] = "none" /\ n # 0
  <2> DEFINE k == Cardinality(Spawned) + 1
  <2>1. k <= MaxProcs /\ os' = [os EXCEPT ![k] = "running"]
    BY DEF Spawn
  <2> HIDE DEF k
  <2>2. k \in Processes /\ os[k] = "none" /\ k # 0
    BY <2>1, SpawnedNext DEF k
  <2> QED BY <2>2 DEF k
<1>0. /\ pc[c] = "spawn" /\ EventsMayArrive /\ os' = [os EXCEPT ![n] = "running"]
      /\ proc' = n /\ reads' = [reads EXCEPT ![n] = n]
      /\ Post(pending, c, n, "init") /\ pc' = [pc EXCEPT ![c] = "init"]
      /\ UNCHANGED <<stdout, faults>>
  BY <1>1 DEF Spawn
<1>2. stdin[n] = <<>> /\ stdout[n] = <<>> /\ reads[n] = 0 /\ Messages(n) = {}
  BY <1>1, EmptyRange DEF WorkerInv, OnlySpawned, Messages
<1>3. /\ "init" \in Kinds /\ "init" \in Waiting /\ Asked("init") = "init" /\ 0 \notin Processes
      /\ 1 \in Processes
  BY LimitsAreNumbers DEF Kinds, Waiting, Asked, Processes
<1>4. Unregistered(pending, c) /\ Registered /\ Addressed /\ OwnAnswers
  BY <1>0, StaysUnregistered DEF Crowd, Waiting
<1>5. \A d \in Calls : pc[d] \in Waiting => Awaits(d)
  BY <1>0 DEF EventsMayArrive, Ready, Awaits, Waiting
<1>6. \A d \in Calls : pc[d] \in Waiting =>
        myId[d] < nextId /\ (myId[d] \in DOMAIN pending => pending[myId[d]] = d)
  BY <1>4, <1>5 DEF Registered
<1>7. /\ Heard(n)'
      /\ \A p \in Processes \ {n} : Heard(p)' <=> Heard(p)
  <2>1. reads'[n] = n /\ \A r \in Processes \ {n} : reads'[r] = reads[r]
    BY <1>0, <1>1 DEF WorkerInv, SystemTypes
  <2>2. \A p \in Processes : p # 0
    BY <1>3
  <2>3. \A p \in Processes \ {n} : \A r \in Processes : reads'[r] = p <=> reads[r] = p
    BY <1>2, <2>1, <2>2
  <2>4. \A p \in Processes \ {n} : Heard(p)' <=> Heard(p)
    BY <2>3 DEF Heard
  <2>5. Heard(n)'
    BY <2>1 DEF Heard
  <2> QED BY <2>4, <2>5
<1>8. /\ Registered' /\ Addressed' /\ OwnAnswers'
      /\ Awaits(c)' /\ \A d \in Calls \ {c} : (Awaits(d)' <=> Awaits(d)) /\ myId'[d] = myId[d]
      /\ \A p \in Processes : Messages(p) \subseteq Messages(p)'
      /\ \E m \in Messages(n)' : m.id = myId'[c]
  BY <1>0, <1>1, <1>2, <1>3, <1>4, <1>6, <1>7, PostAddresses
<1>9. pc'[c] = "init" /\ \A d \in Calls \ {c} : pc'[d] = pc[d]
  BY <1>0 DEF WorkerInv, CallTypes
<1>10. \A d \in Calls : pc[d] \notin {"expired", "restart", "terminate", "reap"}
  <2>1. CASE Settled
    BY <2>1 DEF Settled
  <2>2. CASE Broken
    <3>1. proc = 0 /\ os[1] = "exited" /\ \A d \in Calls : pc[d] = "reap" => reaped[d] = 1
      BY <1>0, <2>2 DEF Broken
    <3> QED BY <1>0, <3>1 DEF EventsMayArrive, Ready
  <2> QED BY <2>1, <2>2 DEF Crowd
<1>11. \A p \in Processes \ {n} : Heard(p) => os[p] = "running"
  <2>1. CASE Settled
    BY <2>1 DEF Settled
  <2>2. CASE Broken
    <3>1. reads[1] = 0 /\ \A r \in Processes \ {1} : reads[r] = 0
      BY <1>0, <2>2 DEF Broken, OnlyFirst, WorkerInv, OnlySpawned
    <3> QED BY <1>3, <3>1 DEF Heard
  <2> QED BY <2>1, <2>2 DEF Crowd
<1>12. \A d \in Calls : Awaits(d) =>
         \E p \in Processes : Heard(p) /\ \E m \in Messages(p) : m.id = myId[d]
  <2>1. CASE Settled
    BY <2>1 DEF Settled
  <2>2. CASE Broken
    <3>1. DOMAIN pending = {}
      BY <1>0, <2>2 DEF Broken
    <3> QED BY <1>4, <3>1 DEF Registered
  <2> QED BY <2>1, <2>2 DEF Crowd
<1>13. faults # 0
  BY <1>0 DEF Crowd, Settled, Broken
<1>14. Settled'
  <2>1. os'[n] = "running" /\ \A p \in Processes \ {n} : os'[p] = os[p]
    BY <1>0, <1>1 DEF WorkerInv, SystemTypes
  <2>2. proc' # 0 /\ os'[proc'] = "running" /\ Heard(proc)'
    BY <1>0, <1>1, <1>7, <2>1 DEF Heard
  <2>3. \A p \in Processes : Heard(p)' => os'[p] = "running"
    BY <1>7, <1>11, <2>1
  <2>4. \A d \in Calls : pc'[d] \notin {"expired", "restart", "terminate", "reap"}
    BY <1>9, <1>10
  <2>5. \A d \in Calls : Awaits(d)' =>
          \E p \in Processes : Heard(p)' /\ \E m \in Messages(p)' : m.id = myId'[d]
    <3> SUFFICES ASSUME NEW d \in Calls, Awaits(d)'
                 PROVE  \E p \in Processes : Heard(p)' /\ \E m \in Messages(p)' : m.id = myId'[d]
      OBVIOUS
    <3>1. CASE d = c
      BY <1>1, <1>7, <1>8, <3>1
    <3>2. CASE d # c
      <4>1. PICK p \in Processes : Heard(p) /\ \E m \in Messages(p) : m.id = myId[d]
        BY <1>8, <1>12, <3>2
      <4>2. p # n
        BY <1>2, <4>1
      <4> QED BY <1>7, <1>8, <3>2, <4>1, <4>2
    <3> QED BY <3>1, <3>2
  <2>6. faults' # 0
    BY <1>0, <1>13
  <2> QED BY <2>2, <2>3, <2>4, <2>5, <2>6 DEF Settled
<1> QED BY <1>8, <1>14 DEF Crowd

LEMMA CrowdEvalTimeoutKept ==
  ASSUME WorkerInv, Crowd, NEW cs \in SUBSET Calls, EvalTimeout(cs), faults' <= 1
  PROVE  Crowd'
<1>0. /\ UNCHANGED <<proc, nextId, reads, os, stdin, stdout, myId, reaped>>
      /\ \A d \in cs : Awaits(d) /\ pc[d] = "wait"
      /\ cs # {}
      /\ pending' = Restrict(pending, DOMAIN pending \ {myId[d] : d \in cs})
      /\ future' = [d \in Calls |-> IF d \in cs THEN Future("none") ELSE future[d]]
      /\ pc' = [d \in Calls |-> IF d \in cs THEN "expired" ELSE pc[d]]
  BY DEF EvalTimeout, system, Awaits, Waiting
<1>1. Registered /\ Addressed /\ OwnAnswers
  BY DEF Crowd
<1>2. \A d \in Calls : IF d \in cs THEN future'[d].state = "none" /\ pc'[d] = "expired"
                       ELSE future'[d] = future[d] /\ pc'[d] = pc[d]
  BY <1>0, FutureTyped
<1>3. /\ \A id \in DOMAIN pending' : /\ id \in DOMAIN pending /\ pending'[id] = pending[id]
                                     /\ pending[id] \in Calls \ cs
      /\ \A id \in DOMAIN pending : pending[id] \notin cs => id \in DOMAIN pending'
  <2> DEFINE gone == {myId[d] : d \in cs}
  <2>1. /\ DOMAIN pending' = DOMAIN pending \ gone
        /\ \A id \in DOMAIN pending' : pending'[id] = pending[id]
    BY <1>0, RestrictedRange
  <2>2. \A id \in DOMAIN pending : id \in gone <=> pending[id] \in cs
    BY <1>0, <1>1 DEF Registered
  <2> HIDE DEF gone
  <2>3. \A id \in DOMAIN pending : pending[id] \in Calls
    BY DEF WorkerInv, ClientTypes, Range
  <2> QED BY <2>1, <2>2, <2>3
<1>4. \A d \in Calls : Awaits(d)' => Awaits(d) /\ d \notin cs
  BY <1>2 DEF Awaits
<1>5. "expired" \notin Waiting
  BY DEF Waiting
<1>6. Registered'
  <2>1. \A id \in DOMAIN pending' :
          /\ id \in Nat /\ id < nextId'
          /\ myId'[pending'[id]] = id /\ pc'[pending'[id]] \in Waiting
    BY <1>0, <1>1, <1>2, <1>3 DEF Registered
  <2>2. \A d \in Calls : Awaits(d)' => myId'[d] \in DOMAIN pending' /\ pending'[myId'[d]] = d
    BY <1>0, <1>1, <1>3, <1>4 DEF Registered
  <2>3. proc' # 0 => \A d \in Calls : pc'[d] \in Waiting =>
          myId'[d] < nextId' /\ (myId'[d] \in DOMAIN pending' => pending'[myId'[d]] = d)
    BY <1>0, <1>1, <1>2, <1>3, <1>5 DEF Registered
  <2> QED BY <2>1, <2>2, <2>3 DEF Registered
<1>7. Addressed'
  <2> SUFFICES ASSUME NEW p \in Processes, Heard(p)', NEW m \in Messages(p)'
               PROVE  /\ m.id < nextId'
                      /\ m.id \in DOMAIN pending' =>
                           m.call = pending'[m.id] /\ m.kind = Asked(pc'[m.call])
    BY DEF Addressed
  <2>1. Heard(p) /\ m \in Messages(p)
    BY <1>0 DEF Heard, Messages
  <2> QED BY <1>0, <1>1, <1>2, <1>3, <2>1 DEF Addressed
<1>8. OwnAnswers'
  BY <1>1, <1>2 DEF OwnAnswers
<1>9. Broken => Broken'
  <2> SUFFICES ASSUME Broken PROVE Broken'
    OBVIOUS
  <2>1. faults' = 1
    BY DEF EvalTimeout, Fault, Broken
  <2>2. DOMAIN pending = {} => DOMAIN pending' = {}
    BY <1>3
  <2>3. \A d \in Calls : /\ pc'[d] \notin {"init", "load"}
                         /\ pc'[d] \in {"terminate", "reap", "spawn"} => pc[d] = pc'[d]
    BY <1>2 DEF Broken
  <2> QED BY <1>0, <2>1, <2>2, <2>3 DEF Broken, OnlyFirst
<1>10. Settled => Broken'
  <2> SUFFICES ASSUME Settled PROVE Broken'
    OBVIOUS
  <2>1. ~Quiet
    <3> SUFFICES ASSUME Quiet PROVE FALSE
      OBVIOUS
    <3>1. PICK d \in cs : Awaits(d)
      BY <1>0
    <3>2. PICK p \in Processes : Heard(p) /\ \E m \in Messages(p) : m.id = myId[d]
      BY <3>1 DEF Settled
    <3>3. PICK r \in Processes : reads[r] = p
      BY <3>2 DEF Heard
    <3>4. p # 0 /\ os[p] = "running"
      BY <3>2, LimitsAreNumbers DEF Settled, Processes
    <3>5. stdin[p] = <<>> /\ stdout[p] = <<>>
      BY <3>3, <3>4 DEF Quiet
    <3> QED BY <3>2, <3>5, EmptyRange DEF Messages
  <2>2. faults = 0 /\ faults' = 1
    <3>1. faults' = faults + 1
      BY <2>1 DEF EvalTimeout, Fault
    <3>2. faults \in 0 .. MaxFaults
      BY DEF WorkerInv, SystemTypes
    <3> QED BY <3>1, <3>2, LimitsAreNumbers
  <2>3. OnlyFirst /\ \A d \in Calls : pc[d] \notin {"spawn", "init", "load"}
    BY <2>2 DEF Settled
  <2>4. proc = 1
    BY <2>3, LimitsAreNumbers DEF Settled, OnlyFirst, WorkerInv, ClientTypes, Processes
  <2>5. reads[1] \in {0, 1}
    <3>1. 1 \in Processes
      BY LimitsAreNumbers DEF Processes
    <3>a. reads[1] \in 0 .. MaxProcs
      BY <3>1 DEF WorkerInv, SystemTypes
    <3>2. reads[1] # 0 => reads[1] \in Processes /\ Heard(reads[1])
      BY <3>1, <3>a, LimitsAreNumbers DEF Processes, Heard
    <3> QED BY <2>3, <3>2 DEF Settled, OnlyFirst
  <2>6. \A d \in Calls : pc'[d] \notin {"spawn", "init", "load", "terminate", "reap"}
    BY <1>2, <2>3 DEF Settled
  <2> QED BY <1>0, <2>2, <2>3, <2>4, <2>5, <2>6 DEF Broken, OnlyFirst
<1> QED BY <1>6, <1>7, <1>8, <1>9, <1>10 DEF Crowd

\* What is read is the head of a queue.
LEMMA HeadOrTail ==
  ASSUME NEW S, NEW s \in Seq(S), s # <<>>
  PROVE  \A m \in Range(s) : m = Head(s) \/ m \in Range(Tail(s))
<1>1. /\ Len(s) \in Nat /\ DOMAIN s = 1 .. Len(s) /\ Head(s) = s[1]
      /\ DOMAIN Tail(s) = 1 .. Len(s) - 1
      /\ \A i \in 1 .. Len(s) - 1 : Tail(s)[i] = s[i + 1]
  OBVIOUS
<1>2. \A i \in DOMAIN s : i = 1 \/ (i - 1 \in DOMAIN Tail(s) /\ s[i] = Tail(s)[i - 1])
  BY <1>1
<1> QED BY <1>1, <1>2 DEF Range

LEMMA CrowdReadLineKept ==
  ASSUME WorkerInv, Crowd, NEW p \in Processes, ReadLine(p)
  PROVE  Crowd'
<1>1. PICK q : q = reads[p]
  OBVIOUS
<1>2. PICK m : m = Head(stdout[q])
  OBVIOUS
<1> DEFINE given(d) == IF d \in Addressee(m) /\ future[d].state = "pending" THEN m ELSE future[d]
<1>3. /\ q # 0 /\ stdout[q] # <<>>
      /\ stdout' = [stdout EXCEPT ![q] = Tail(@)]
      /\ reads' = [reads EXCEPT ![p] = NextStream(p)]
      /\ \A d \in Calls : future'[d] =
           IF NextStream(p) = 0 /\ d \in Range(pending) /\ given(d).state = "pending"
           THEN Future("dead") ELSE given(d)
      /\ UNCHANGED <<proc, nextId, pending, readerTask, os, stdin, pc, myId, reaped, faults>>
  BY <1>1, <1>2 DEF ReadLine, worker
<1>4. Registered /\ Addressed /\ OwnAnswers
  BY DEF Crowd
<1>5. q \in Processes /\ Heard(q)
  <2>1. q \in 0 .. MaxProcs
    BY <1>1 DEF WorkerInv, SystemTypes
  <2>2. q \in Processes
    BY <1>3, <2>1, LimitsAreNumbers DEF Processes
  <2> QED BY <1>1, <2>2 DEF Heard
<1>6. /\ m \in Response /\ m \in Messages(q) /\ m.state = "answered"
      /\ \A x \in Processes : Messages(x)' \subseteq Messages(x)
      /\ \A x \in Processes : \A w \in Messages(x) : w \in Messages(x)' \/ (w = m /\ x = q)
  <2>1. stdout[q] \in Seq(Response)
    BY <1>5 DEF WorkerInv, SystemTypes
  <2>2. /\ m \in Response /\ m \in Range(stdout[q]) /\ Range(Tail(stdout[q])) \subseteq Range(stdout[q])
        /\ \A w \in Range(stdout[q]) : w = m \/ w \in Range(Tail(stdout[q]))
    BY <1>2, <1>3, <2>1, TakenRange, HeadOrTail
  <2>3. stdout'[q] = Tail(stdout[q]) /\ \A x \in Processes \ {q} : stdout'[x] = stdout[x]
    BY <1>3, <1>5 DEF WorkerInv, SystemTypes
  <2>4. m.state = "answered"
    BY <2>2 DEF Response
  <2>5. \A x \in Processes \ {q} : Messages(x)' = Messages(x)
    BY <1>3, <2>3 DEF Messages
  <2>6. Messages(q)' = Range(stdin[q]) \cup Range(Tail(stdout[q]))
    BY <1>3, <2>3 DEF Messages
  <2>7. Messages(q) = Range(stdin[q]) \cup Range(stdout[q])
    BY DEF Messages
  <2>8. Messages(q)' \subseteq Messages(q) /\ \A w \in Messages(q) : w \in Messages(q)' \/ w = m
    BY <2>2, <2>6, <2>7
  <2>9. m \in Messages(q)
    BY <2>2, <2>7
  <2>10. \A x \in Processes : Messages(x)' \subseteq Messages(x)
    BY <2>5, <2>8
  <2>11. \A x \in Processes : \A w \in Messages(x) : w \in Messages(x)' \/ (w = m /\ x = q)
    BY <2>5, <2>8
  <2> QED BY <2>2, <2>4, <2>9, <2>10, <2>11
<1>7. \A d \in Addressee(m) : future[d].state = "pending" =>
        \/ m.id \in DOMAIN pending /\ pending[m.id] = d /\ m.call = d /\ m.kind = Asked(pc[d])
        \/ ~m.ok
  <2>1. m.id \in DOMAIN pending => m.call = pending[m.id] /\ m.kind = Asked(pc[m.call])
    BY <1>4, <1>5, <1>6 DEF Addressed
  <2> QED BY <2>1 DEF Addressee
<1>8. \A d \in Calls : \/ future'[d] = future[d]
                       \/ /\ future[d].state = "pending"
                          /\ \/ future'[d].state = "dead"
                             \/ future'[d] = m /\ d \in Addressee(m)
  <2> SUFFICES ASSUME NEW d \in Calls
               PROVE  \/ future'[d] = future[d]
                      \/ /\ future[d].state = "pending"
                         /\ \/ future'[d].state = "dead"
                            \/ future'[d] = m /\ d \in Addressee(m)
    OBVIOUS
  <2>1. given(d) = future[d] \/ (future[d].state = "pending" /\ given(d) = m /\ d \in Addressee(m))
    OBVIOUS
  <2>2. given(d).state = "pending" => given(d) = future[d] /\ future[d].state = "pending"
    BY <1>6, <2>1
  <2>3. Future("dead").state = "dead"
    BY FutureTyped
  <2>4. \/ future'[d] = Future("dead") /\ given(d).state = "pending"
        \/ future'[d] = given(d)
    BY <1>3
  <2> HIDE DEF given
  <2> QED BY <2>1, <2>2, <2>3, <2>4
<1>9. \A d \in Calls : Awaits(d)' => Awaits(d) /\ future'[d] = future[d]
  BY <1>3, <1>6, <1>8 DEF Awaits
<1>10. Registered'
  BY <1>3, <1>4, <1>9 DEF Registered
<1>11. OwnAnswers'
  <2> SUFFICES ASSUME NEW d \in Calls
               PROVE  /\ pc[d] = "wait" /\ future'[d].state = "answered" /\ future'[d].ok =>
                           future'[d].call = d /\ future'[d].kind = "eval"
                      /\ pc[d] = "done" =>
                           /\ future'[d].state = "answered" /\ future'[d].call = d
                           /\ future'[d].kind = "eval"
    BY <1>3 DEF OwnAnswers
  <2>1. CASE future'[d] = future[d]
    BY <1>4, <2>1 DEF OwnAnswers
  <2>2. CASE future[d].state = "pending" /\ future'[d].state = "dead"
    BY <1>4, <2>2 DEF OwnAnswers
  <2>3. CASE future[d].state = "pending" /\ future'[d] = m /\ d \in Addressee(m)
    <3>1. pc[d] # "done"
      BY <1>4, <2>3 DEF OwnAnswers
    <3>2. pc[d] = "wait" /\ m.ok => m.call = d /\ m.kind = "eval"
      BY <1>7, <2>3 DEF Asked
    <3> QED BY <2>3, <3>1, <3>2
  <2> QED BY <1>8, <2>1, <2>2, <2>3
<1>12. Broken => UNCHANGED reads
  <2> SUFFICES ASSUME Broken PROVE UNCHANGED reads
    OBVIOUS
  <2>1. p = 1 /\ \A r \in Processes \ {1} : reads[r] = 0
    BY <1>1, <1>3 DEF Broken, OnlyFirst, WorkerInv, OnlySpawned
  <2>2. q = 1 /\ proc = 1
    BY <1>1, <1>3, <2>1 DEF Broken
  <2>3. NextStream(p) = 1
    BY <2>1, <2>2 DEF NextStream
  <2>4. reads' = [reads EXCEPT ![1] = 1] /\ reads[1] = 1
    BY <1>1, <1>3, <2>1, <2>2, <2>3
  <2> QED BY <2>4 DEF WorkerInv, SystemTypes
<1>13. NextStream(p) \in {0, proc}
  BY DEF NextStream
<1>14. reads'[p] = NextStream(p) /\ \A r \in Processes \ {p} : reads'[r] = reads[r]
  BY <1>3 DEF WorkerInv, SystemTypes
<1>15. \A x \in Processes : Heard(x)' => Heard(x)
  <2>1. CASE Broken
    BY <1>12, <2>1 DEF Heard
  <2>2. CASE Settled
    <3>1. \A x \in Processes : x # 0
      BY LimitsAreNumbers DEF Processes
    <3> QED BY <1>13, <1>14, <2>2, <3>1 DEF Settled, Heard
  <2> QED BY <2>1, <2>2 DEF Crowd
<1>16. Addressed'
  BY <1>3, <1>4, <1>6, <1>15 DEF Addressed
<1>17. Broken => Broken'
  BY <1>3, <1>12 DEF Broken, OnlyFirst
<1>18. Settled => Settled'
  <2> SUFFICES ASSUME Settled PROVE Settled'
    OBVIOUS
  <2>1. Heard(proc)'
    <3>1. CASE NextStream(p) = 0
      <4>1. PICK r \in Processes \ {p} : reads[r] = proc
        BY <3>1 DEF NextStream, Settled
      <4> QED BY <1>3, <1>14, <4>1 DEF Heard
    <3>2. CASE NextStream(p) = proc
      BY <1>3, <1>14, <3>2 DEF Heard
    <3> QED BY <1>13, <3>1, <3>2
  <2>2. \A x \in Processes : Heard(x)' => os'[x] = "running"
    BY <1>3, <1>15 DEF Settled
  <2>3. \A d \in Calls : Awaits(d)' =>
          \E x \in Processes : Heard(x)' /\ \E w \in Messages(x)' : w.id = myId'[d]
    <3> SUFFICES ASSUME NEW d \in Calls, Awaits(d)'
                 PROVE  \E x \in Processes : Heard(x)' /\ \E w \in Messages(x)' : w.id = myId[d]
      BY <1>3
    <3>1. Awaits(d) /\ future'[d] = future[d] /\ future[d].state = "pending"
      BY <1>9 DEF Awaits
    <3>2. d \in Range(pending) /\ myId[d] \in DOMAIN pending /\ pending[myId[d]] = d
      BY <1>4, <3>1 DEF Registered, Range
    <3>3. given(d) = future[d]
      BY <1>3, <1>6, <3>1, FutureTyped
    <3>4. NextStream(p) # 0
      BY <1>3, <3>1, <3>2, <3>3, FutureTyped
    <3>5. d \notin Addressee(m)
      BY <1>6, <3>1, <3>3
    <3> HIDE DEF given
    <3>6. m.id # myId[d]
      BY <3>1, <3>2, <3>5 DEF Addressee
    <3>7. \A x \in Processes : Heard(x) => Heard(x)'
      <4>1. NextStream(p) = proc /\ \A r \in Processes \ {p} : reads[r] # proc
        BY <1>13, <3>4 DEF NextStream
      <4>2. reads[p] = proc
        BY <4>1 DEF Settled, Heard
      <4> QED BY <1>14, <4>1, <4>2 DEF Heard
    <3>8. PICK x \in Processes : Heard(x) /\ \E w \in Messages(x) : w.id = myId[d]
      BY <3>1 DEF Settled
    <3> QED BY <1>6, <3>6, <3>7, <3>8
  <2> QED BY <1>3, <2>1, <2>2, <2>3 DEF Settled, OnlyFirst
<1> QED BY <1>10, <1>11, <1>16, <1>17, <1>18 DEF Crowd

LEMMA CrowdReadEOFKept ==
  ASSUME WorkerInv, Crowd, NEW p \in Processes, ReadEOF(p)
  PROVE  Crowd'
<1>1. PICK q : q = reads[p]
  OBVIOUS
<1>2. /\ q # 0 /\ os[q] # "running"
      /\ reads' = [reads EXCEPT ![p] = 0] /\ future' = AllDead
      /\ UNCHANGED <<proc, nextId, pending, os, stdin, stdout, pc, myId, reaped, faults>>
  BY <1>1 DEF ReadEOF, worker, system
<1>3. Broken
  <2>1. q \in 0 .. MaxProcs
    BY <1>1 DEF WorkerInv, SystemTypes
  <2>2. q \in Processes /\ Heard(q)
    BY <1>1, <1>2, <2>1, LimitsAreNumbers DEF Processes, Heard
  <2> QED BY <1>2, <2>2 DEF Crowd, Settled
<1>4. p = 1 /\ \A r \in Processes \ {1} : reads[r] = 0
  BY <1>1, <1>2, <1>3 DEF Broken, OnlyFirst, WorkerInv, OnlySpawned
<1>5. reads'[1] = 0 /\ \A x \in Processes : ~Heard(x)'
  <2>1. \A r \in Processes : reads'[r] = 0
    BY <1>2, <1>4 DEF WorkerInv, SystemTypes
  <2>2. \A x \in Processes : x # 0
    BY LimitsAreNumbers DEF Processes
  <2> QED BY <1>4, <2>1, <2>2 DEF Heard
<1>6. Registered /\ OwnAnswers
  BY DEF Crowd
<1>7. \A d \in Calls : /\ pc[d] \in Waiting => future'[d].state # "pending"
                       /\ future'[d] = future[d] \/ (pc[d] \in Waiting /\ future'[d].state = "dead")
  BY <1>2, <1>6, NobodyAwaits
<1>8. \A d \in Calls : ~Awaits(d)'
  BY <1>2, <1>7 DEF Awaits
<1>9. Registered'
  BY <1>2, <1>6, <1>8 DEF Registered
<1>10. Addressed'
  BY <1>5 DEF Addressed
<1>11. OwnAnswers'
  <2>1. "done" \notin Waiting
    BY DEF Waiting
  <2> QED BY <1>2, <1>6, <1>7, <2>1 DEF OwnAnswers
<1>12. Broken'
  BY <1>2, <1>3, <1>5 DEF Broken, OnlyFirst
<1> QED BY <1>9, <1>10, <1>11, <1>12 DEF Crowd

LEMMA CrowdServeKept ==
  ASSUME WorkerInv, Crowd, NEW p \in Processes, Serve(p)
  PROVE  Crowd'
<1> DEFINE r == Head(stdin[p])
<1>1. PICK ok \in BOOLEAN :
        /\ stdin[p] # <<>>
        /\ stdin' = [stdin EXCEPT ![p] = Tail(@)]
        /\ stdout' = [stdout EXCEPT ![p] = Append(@, Answer(r, ok))]
        /\ UNCHANGED <<proc, nextId, pending, reads, os, pc, myId, future, reaped, faults>>
  BY DEF Serve, Answer, worker
<1>4. /\ r \in Request /\ r \in Range(stdin[p]) /\ Range(Tail(stdin[p])) \subseteq Range(stdin[p])
      /\ \A w \in Range(stdin[p]) : w = r \/ w \in Range(Tail(stdin[p]))
  <2>1. stdin[p] \in Seq(Request)
    BY DEF WorkerInv, SystemTypes
  <2> QED BY <1>1, <2>1, TakenRange, HeadOrTail
<1> HIDE DEF r
<1> DEFINE answer == Answer(r, ok)
<1>3. stdout' = [stdout EXCEPT ![p] = Append(@, answer)]
  BY <1>1
<1>5. answer \in Response /\ answer.id = r.id /\ answer.call = r.call /\ answer.kind = r.kind
  BY <1>4, AnswerTyped
<1> HIDE DEF answer
<1>7. Range(Append(stdout[p], answer)) = Range(stdout[p]) \cup {answer}
  <2>1. stdout[p] \in Seq(Response)
    BY DEF WorkerInv, SystemTypes
  <2> QED BY <1>5, <2>1, AppendedRange
<1>8. /\ \A x \in Processes \ {p} : Messages(x)' = Messages(x)
      /\ Messages(p)' = Range(Tail(stdin[p])) \cup Range(stdout[p]) \cup {answer}
  <2>1. /\ stdin'[p] = Tail(stdin[p]) /\ stdout'[p] = Append(stdout[p], answer)
        /\ \A x \in Processes \ {p} : stdin'[x] = stdin[x] /\ stdout'[x] = stdout[x]
    BY <1>1, <1>3 DEF WorkerInv, SystemTypes
  <2>2. Messages(p)' = Range(stdin'[p]) \cup Range(stdout'[p])
    BY DEF Messages
  <2>3. \A x \in Processes \ {p} : Messages(x)' = Messages(x)
    BY <2>1 DEF Messages
  <2> QED BY <1>7, <2>1, <2>2, <2>3
<1>9. Messages(p) = Range(stdin[p]) \cup Range(stdout[p])
  BY DEF Messages
<1>10. \A x \in Processes : \A m \in Messages(x)' : \E w \in Messages(x) :
         w.id = m.id /\ w.call = m.call /\ w.kind = m.kind
  BY <1>4, <1>5, <1>8, <1>9
<1>11. \A x \in Processes : \A w \in Messages(x) : \E m \in Messages(x)' : m.id = w.id
  BY <1>4, <1>5, <1>8, <1>9
<1>12. /\ \A x \in Processes : Heard(x)' <=> Heard(x)
       /\ \A d \in Calls : Awaits(d)' <=> Awaits(d)
  BY <1>1 DEF Heard, Awaits
<1>13. Registered' /\ OwnAnswers'
  BY <1>1, <1>12 DEF Crowd, Registered, OwnAnswers
<1>14. Addressed'
  <2> SUFFICES ASSUME NEW x \in Processes, Heard(x), NEW m \in Messages(x)'
               PROVE  /\ m.id < nextId
                      /\ m.id \in DOMAIN pending => m.call = pending[m.id] /\ m.kind = Asked(pc[m.call])
    BY <1>1, <1>12 DEF Addressed
  <2>1. PICK w \in Messages(x) : w.id = m.id /\ w.call = m.call /\ w.kind = m.kind
    BY <1>10
  <2>2. /\ w.id < nextId
        /\ w.id \in DOMAIN pending => w.call = pending[w.id] /\ w.kind = Asked(pc[w.call])
    BY DEF Crowd, Addressed
  <2> QED BY <2>1, <2>2
<1>15. Settled => Settled'
  <2> SUFFICES ASSUME Settled PROVE Settled'
    OBVIOUS
  <2>1. proc' # 0 /\ os'[proc'] = "running" /\ Heard(proc)'
    BY <1>1 DEF Settled, Heard
  <2>2. \A d \in Calls : Awaits(d)' =>
          \E x \in Processes : Heard(x)' /\ \E m \in Messages(x)' : m.id = myId'[d]
    <3> SUFFICES ASSUME NEW d \in Calls, Awaits(d)
                 PROVE  \E x \in Processes : Heard(x) /\ \E m \in Messages(x)' : m.id = myId[d]
      BY <1>1, <1>12
    <3>1. PICK x \in Processes : Heard(x) /\ \E w \in Messages(x) : w.id = myId[d]
      BY DEF Settled
    <3> QED BY <1>11, <3>1
  <2> QED BY <1>1, <1>12, <2>1, <2>2 DEF Settled, OnlyFirst
<1>16. Broken => Broken'
  BY <1>1 DEF Broken, OnlyFirst
<1> QED BY <1>13, <1>14, <1>15, <1>16 DEF Crowd

LEMMA CrowdExitKept ==
  ASSUME WorkerInv, Crowd, NEW p \in Processes, Die(p) \/ Exited(p), faults' <= 1
  PROVE  Crowd'
<1>1. UNCHANGED <<proc, nextId, pending, reads, stdin, stdout, pc, myId, future, reaped>>
  BY DEF Die, Exited, worker
<1>2. /\ \A x \in Processes : Heard(x)' <=> Heard(x)
      /\ \A x \in Processes : Messages(x)' = Messages(x)
      /\ \A d \in Calls : Awaits(d)' <=> Awaits(d)
  BY <1>1 DEF Heard, Messages, Awaits
<1>3. Registered' /\ OwnAnswers'
  BY <1>1, <1>2 DEF Crowd, Registered, OwnAnswers
<1>4. Addressed'
  BY <1>1, <1>2 DEF Crowd, Addressed
<1>5. /\ os[p] # "none" /\ os' \in [Processes -> {"none", "running", "dying", "exited"}]
      /\ \A x \in Processes \ {p} : os'[x] = os[x]
  BY DEF Die, Exited, WorkerInv, SystemTypes
<1>6. OnlyFirst => OnlyFirst'
  BY <1>5 DEF OnlyFirst
<1>7. CASE Exited(p)
  <2>1. os[p] = "dying" /\ os'[p] = "exited" /\ faults' = faults
    BY <1>7 DEF Exited, WorkerInv, SystemTypes
  <2>2. Settled => Settled'
    <3> SUFFICES ASSUME Settled PROVE Settled'
      OBVIOUS
    <3>1. proc \in Processes /\ proc # p
      BY <2>1, LimitsAreNumbers DEF Settled, WorkerInv, ClientTypes, Processes
    <3>2. proc' # 0 /\ os'[proc'] = "running" /\ Heard(proc)'
      BY <1>1, <1>2, <1>5, <3>1 DEF Settled
    <3>3. \A x \in Processes : Heard(x)' => os'[x] = "running"
      BY <1>2, <1>5, <2>1 DEF Settled
    <3> QED BY <1>1, <1>2, <1>6, <2>1, <3>2, <3>3 DEF Settled
  <2>3. Broken => Broken'
    <3>1. os[1] = "exited" => os'[1] = "exited"
      BY <1>5, <2>1, LimitsAreNumbers DEF Processes
    <3> QED BY <1>1, <1>6, <2>1, <3>1 DEF Broken
  <2> QED BY <1>3, <1>4, <2>2, <2>3 DEF Crowd
<1>8. CASE Die(p)
  <2>1. faults = 0 /\ faults' = 1
    <3>1. faults' = faults + 1
      BY <1>8 DEF Die, Fault
    <3>2. faults \in 0 .. MaxFaults
      BY DEF WorkerInv, SystemTypes
    <3> QED BY <3>1, <3>2, LimitsAreNumbers
  <2>2. Settled
    BY <2>1 DEF Crowd, Broken
  <2>3. OnlyFirst /\ \A d \in Calls : pc[d] \notin {"spawn", "init", "load"}
    BY <2>1, <2>2 DEF Settled
  <2>4. proc = 1
    BY <2>2, <2>3, LimitsAreNumbers DEF Settled, OnlyFirst, WorkerInv, ClientTypes, Processes
  <2>5. reads[1] \in {0, 1}
    <3>1. 1 \in Processes
      BY LimitsAreNumbers DEF Processes
    <3>2. reads[1] \in 0 .. MaxProcs
      BY <3>1 DEF WorkerInv, SystemTypes
    <3>3. reads[1] # 0 => reads[1] \in Processes /\ Heard(reads[1])
      BY <3>1, <3>2, LimitsAreNumbers DEF Processes, Heard
    <3> QED BY <2>2, <2>3, <3>3 DEF Settled, OnlyFirst
  <2>6. Broken'
    BY <1>1, <1>6, <2>1, <2>2, <2>3, <2>4, <2>5 DEF Broken, Settled
  <2> QED BY <1>3, <1>4, <2>6 DEF Crowd
<1> QED BY <1>7, <1>8

LEMMA CrowdKept ==
  ASSUME WorkerInv, Crowd,
         ((Next \/ \E c \in Calls : NextCall(c)) /\ faults' <= 1) \/ UNCHANGED vars
  PROVE  Crowd'
<1>1. CASE \E c \in Calls : CallStep(c) \/ NextCall(c)
  BY <1>1, CrowdNextCallKept, CrowdCallKept, CrowdSendEvalKept, CrowdTakenKept, CrowdCleanupKept, CrowdSpawnKept,
     CrowdReplayKept DEF CallStep
<1>2. CASE faults' <= 1 /\ \E p \in Processes : ProcessStep(p) \/ Die(p)
  BY <1>2, CrowdReadLineKept, CrowdReadEOFKept, CrowdServeKept, CrowdExitKept DEF ProcessStep
<1>3. CASE faults' <= 1 /\ \E cs \in SUBSET Calls : EvalTimeout(cs)
  BY <1>3, CrowdEvalTimeoutKept
<1>4. CASE UNCHANGED vars
  <2>1. UNCHANGED <<proc, nextId, pending, reads, os, stdin, stdout, pc, myId, future, reaped, faults>>
    BY <1>4 DEF vars, worker, system
  <2>2. /\ \A x \in Processes : Heard(x)' <=> Heard(x)
        /\ \A x \in Processes : Messages(x)' = Messages(x)
        /\ \A d \in Calls : Awaits(d)' <=> Awaits(d)
    BY <2>1 DEF Heard, Messages, Awaits
  <2>3. Registered' /\ Addressed' /\ OwnAnswers'
    BY <2>1, <2>2 DEF Crowd, Registered, Addressed, OwnAnswers
  <2>4. Settled => Settled'
    <3>1. Heard(proc)' <=> Heard(proc)
      BY <2>1 DEF Heard
    <3> QED BY <2>1, <2>2, <3>1 DEF Settled, OnlyFirst
  <2>5. Broken => Broken'
    BY <2>1 DEF Broken, OnlyFirst
  <2> QED BY <2>3, <2>4, <2>5 DEF Crowd
<1> QED BY <1>1, <1>2, <1>3, <1>4 DEF Next

-----------------------------------------------------------------------------

LEMMA UseInitTypes ==
  UseInit => WorkerInv
BY InitTypes DEF UseInit

LEMMA UseInitSole ==
  ASSUME UseInit, ~shared, NEW c \in Calls
  PROVE  Sole(c) /\ (Preloaded => LoadedInv(c))
<1>1. /\ InitWith({})
  BY DEF UseInit
<1>2. /\ proc = 1 /\ pending = <<>>
      /\ stdin = [p \in Processes |-> <<>>]
      /\ stdout = [p \in Processes |-> <<>>]
      /\ pc = [d \in Calls |-> IF d \in {} THEN "idle" ELSE "later"]
      /\ future = [d \in Calls |-> Future("none")]
      /\ memory = [p \in Processes |->
                      IF p # 1 THEN {} ELSE IF Preloaded THEN Whole ELSE {"cost model"}]
  BY <1>1 DEF InitWith
<1>3. PICK alive \in BOOLEAN :
        /\ os = [p \in Processes |-> IF p # 1 THEN "none" ELSE IF alive THEN "running" ELSE "exited"]
        /\ reads = [p \in Processes |-> IF p = 1 /\ alive THEN 1 ELSE 0]
  BY <1>1 DEF InitWith
<1>4. 1 \in Processes
  BY LimitsAreNumbers DEF Processes
<1>5. \A d \in Calls : pc[d] = "later"
  BY <1>2
<1>6. \A d \in Calls : future[d].state = "none"
  BY <1>2, FutureTyped
<1>7. \A p \in Processes : Range(stdin[p]) = {} /\ Range(stdout[p]) = {}
  BY <1>2, EmptyRange
<1>8. Alone(c)
  <2>1. DOMAIN pending = {}
    BY <1>2, EmptyRange
  <2> QED BY <1>2, <1>3, <1>4, <1>5, <1>6, <2>1 DEF Alone, Waiting
<1>9. AtPlace(c)
  BY <1>5, <1>6 DEF AtPlace, Waiting
<1>10. Answers(c)
  BY <1>2, <1>4, <1>5, <1>7 DEF Answers, Exchanged, Waiting
<1>11. Preloaded => LoadedInv(c)
  <2>1. OneOutstanding(c)
    <3>1. stdin[1] = <<>> /\ stdout[1] = <<>>
      BY <1>2, <1>4
    <3>2. proc = 1 /\ pc[c] \notin Waiting
      BY <1>2, <1>5 DEF Waiting
    <3> QED BY <3>1, <3>2 DEF OneOutstanding
  <2>2. Preloaded => Data(c)
    BY <1>2, <1>4, <1>5, <1>7 DEF Data, Waiting
  <2> QED BY <2>1, <2>2 DEF LoadedInv
<1> QED BY <1>8, <1>9, <1>10, <1>11 DEF Sole

\* What holds when calls are made one after the other: c is the one under way, or the last.
SoleInv == ~shared => \E c \in Calls : Sole(c) /\ (Preloaded => LoadedInv(c))

LEMMA UseInvariant ==
  UseSpec => [](WorkerInv /\ SoleInv)
<1>1. UseInit => WorkerInv /\ SoleInv
  BY UseInitTypes, UseInitSole, CallsAssumption DEF SoleInv
<1>2. WorkerInv /\ SoleInv /\ [UseNext]_<<vars, shared>> => (WorkerInv /\ SoleInv)'
  <2> SUFFICES ASSUME WorkerInv, SoleInv, [UseNext]_<<vars, shared>>
               PROVE  WorkerInv' /\ SoleInv'
    OBVIOUS
  <2>1. ([Next]_vars \/ \E d \in Calls : NextCall(d)) /\ UNCHANGED shared
    BY DEF UseNext
  <2>2. WorkerInv'
    BY <2>1, TypesKept, NextCallTypesKept
  <2>3. SoleInv'
    <3> SUFFICES ASSUME ~shared
                 PROVE  \E c \in Calls : Sole(c)' /\ (Preloaded => LoadedInv(c)')
      BY <2>1 DEF SoleInv
    <3>1. PICK c \in Calls : Sole(c) /\ (Preloaded => LoadedInv(c))
      BY DEF SoleInv
    <3>2. CASE [Next]_vars
      BY <3>1, <3>2, SoleKept, LoadedKept
    <3>3. CASE \E d \in Calls : NextCall(d)
      BY <3>1, <3>3, SoleMovesOn, LoadedMovesOn
    <3> QED BY <2>1, <3>2, <3>3
  <2> QED BY <2>2, <2>3
<1> QED BY <1>1, <1>2, PTL DEF UseSpec

LEMMA UseInitCrowd ==
  ASSUME UseInit, shared
  PROVE  Crowd
<1>1. InitWith(Calls)
  BY DEF UseInit
<1>2. /\ proc = 1 /\ pending = <<>>
      /\ stdin = [p \in Processes |-> <<>>]
      /\ stdout = [p \in Processes |-> <<>>]
      /\ pc = [c \in Calls |-> IF c \in Calls THEN "idle" ELSE "later"]
  BY <1>1 DEF InitWith
<1>3. PICK alive \in BOOLEAN :
        /\ os = [p \in Processes |-> IF p # 1 THEN "none" ELSE IF alive THEN "running" ELSE "exited"]
        /\ reads = [p \in Processes |-> IF p = 1 /\ alive THEN 1 ELSE 0]
        /\ faults = IF alive THEN 0 ELSE 1
  BY <1>1 DEF InitWith
<1>4. 1 \in Processes /\ 0 \notin Processes
  BY LimitsAreNumbers DEF Processes
<1>5. /\ \A d \in Calls : pc[d] = "idle" /\ ~Awaits(d) /\ pc[d] \notin Waiting
      /\ DOMAIN pending = {}
  BY <1>2, EmptyRange DEF Awaits, Waiting
<1>6. \A p \in Processes : Messages(p) = {}
  BY <1>2, EmptyRange DEF Messages
<1>7. OnlyFirst
  BY <1>3 DEF OnlyFirst
<1>8. Registered /\ Addressed /\ OwnAnswers
  BY <1>5, <1>6 DEF Registered, Addressed, OwnAnswers
<1>9. CASE alive
  <2>1. os[1] = "running" /\ reads[1] = 1 /\ \A r \in Processes \ {1} : reads[r] = 0
    BY <1>3, <1>4, <1>9
  <2>2. Heard(1) /\ \A p \in Processes : Heard(p) => p = 1
    BY <1>4, <2>1 DEF Heard
  <2>3. Settled
    BY <1>2, <1>3, <1>5, <1>7, <1>9, <2>1, <2>2 DEF Settled
  <2> QED BY <1>8, <2>3 DEF Crowd
<1>10. CASE ~alive
  <2>1. os[1] = "exited" /\ reads[1] = 0 /\ faults = 1
    BY <1>3, <1>4, <1>10
  <2>2. Broken
    BY <1>2, <1>5, <1>7, <2>1 DEF Broken
  <2> QED BY <1>8, <2>2 DEF Crowd
<1> QED BY <1>9, <1>10

\* What holds of calls that are made at a time.
CrowdInv == shared => Crowd

LEMMA CrowdInvariant ==
  UseSpec => [](WorkerInv /\ CrowdInv)
<1>1. UseInit => WorkerInv /\ CrowdInv
  BY UseInitTypes, UseInitCrowd DEF CrowdInv
<1>2. WorkerInv /\ CrowdInv /\ [UseNext]_<<vars, shared>> => (WorkerInv /\ CrowdInv)'
  <2> SUFFICES ASSUME WorkerInv, CrowdInv, [UseNext]_<<vars, shared>>
               PROVE  WorkerInv' /\ CrowdInv'
    OBVIOUS
  <2>1. ([Next]_vars \/ \E c \in Calls : NextCall(c)) /\ UNCHANGED shared
    BY DEF UseNext
  <2>2. WorkerInv'
    BY <2>1, TypesKept, NextCallTypesKept
  <2>3. CrowdInv'
    <3> SUFFICES ASSUME shared PROVE Crowd'
      BY <2>1 DEF CrowdInv
    <3>1. Crowd
      BY DEF CrowdInv
    <3>2. ((Next \/ \E c \in Calls : NextCall(c)) /\ faults' <= 1) \/ UNCHANGED vars
      BY DEF UseNext
    <3> QED BY <3>1, <3>2, CrowdKept
  <2> QED BY <2>2, <2>3
<1> QED BY <1>1, <1>2, PTL DEF UseSpec

LEMMA OneProcessRuns ==
  ASSUME WorkerInv, NEW c \in Calls, Sole(c)
  PROVE  OneProcess
<1> DEFINE Run == {p \in Processes : os[p] = "running"}
<1>1. Run \subseteq {proc}
  BY DEF Sole, Alone
<1>2. IsFiniteSet({proc}) /\ Cardinality({proc}) = 1
  BY FS_Singleton
<1>3. Cardinality(Run) <= 1
  BY <1>1, <1>2, FS_Subset
<1> QED BY <1>3 DEF OneProcess

LEMMA DataIsReplayed ==
  ASSUME WorkerInv, NEW c \in Calls, LoadedInv(c)
  PROVE  DataReplayed
<1> SUFFICES ASSUME NEW p \in Processes, os[p] = "running", stdin[p] # <<>>,
                    Head(stdin[p]).kind = "eval", p \notin refused
             PROVE  memory[p] = Whole
  BY DEF DataReplayed
<1>1. stdin[p] \in Seq(Request)
  BY DEF WorkerInv, SystemTypes
<1>2. Head(stdin[p]) \in Range(stdin[p])
  BY <1>1, TakenRange
<1> QED BY <1>2 DEF LoadedInv, Data, Fit

\* For any number of calls, processes and faults, and whether or not data was loaded: used
\* by any number of calls at a time the worker and its calls keep to their states; used by
\* one call after the other the worker has one process, however often it is restarted and
\* whatever it refuses, and, once data was loaded, no evaluation reaches a process that
\* lacks cost model or data unless that process has itself refused one of them.
THEOREM WorkerIsSound ==
  UseSpec => []SoundUnlessShared
<1>1. WorkerInv /\ SoleInv => SoundUnlessShared
  <2> SUFFICES ASSUME WorkerInv, SoleInv, ~shared PROVE OneProcess /\ DataReplayed
    BY TypesImplyTypeOK DEF SoundUnlessShared, WorkerInv
  <2>1. PICK c \in Calls : Sole(c) /\ (Preloaded => LoadedInv(c))
    BY DEF SoleInv
  <2>2. OneProcess
    BY <2>1, OneProcessRuns
  <2>3. DataReplayed
    <3>1. CASE Preloaded
      BY <2>1, <3>1, DataIsReplayed
    <3>2. CASE ~Preloaded
      BY <3>2 DEF DataReplayed
    <3> QED BY <3>1, <3>2
  <2> QED BY <2>2, <2>3
<1> QED BY <1>1, UseInvariant, PTL

\* A call that has the worker to itself returns its own scores, whatever fails, expires
\* and is replaced, and whatever calls went before.
LEMMA SoleAnswersAreOwn ==
  WorkerInv /\ SoleInv => (~shared => AnswersAreOwn)
<1> SUFFICES ASSUME SoleInv, ~shared, NEW d \in Calls, pc[d] = "done"
             PROVE  future[d].call = d /\ future[d].kind = "eval"
  BY DEF AnswersAreOwn
<1>1. PICK c \in Calls : Alone(c) /\ Answers(c)
  BY DEF SoleInv, Sole
<1>2. CASE d = c
  BY <1>1, <1>2 DEF Answers
<1>3. CASE d # c
  BY <1>1, <1>3 DEF Alone
<1> QED BY <1>2, <1>3

\* For any number of calls and processes, and whether or not data had been loaded: the
\* scores a call returns are those of its own evaluation, never those another call asked
\* for, of an evaluation that expired or of a process that was replaced; for one call
\* after the other whatever fails, and for any number at a time with at most one fault.
THEOREM AnswersAreOfTheirCalls ==
  UseSpec => []AnswersAreOwn
<1>1. CrowdInv => (shared => AnswersAreOwn)
  BY DEF CrowdInv, Crowd, OwnAnswers, AnswersAreOwn
<1>2. WorkerInv /\ SoleInv /\ CrowdInv => AnswersAreOwn
  BY <1>1, SoleAnswersAreOwn
<1> QED BY <1>2, UseInvariant, CrowdInvariant, PTL

=============================================================================
