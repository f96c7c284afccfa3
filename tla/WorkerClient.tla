---------------------------- MODULE WorkerClient ----------------------------
(***************************************************************************)
(* One persistent evaluation worker: the asyncio client of                 *)
(* rust_bridge/worker_client.py, the calls of eval_on_worker that share it *)
(* (one per fold routed to it), and the forex_worker processes it spawns   *)
(* (crates/backtester/src/worker/mod.rs).                                  *)
(*                                                                         *)
(* A coroutine runs from one await to the next without interruption, the   *)
(* coroutines that are ready run before the next event of the operating    *)
(* system is looked at, and a response is matched to its request by id.    *)
(***************************************************************************)
EXTENDS Integers, Sequences, FiniteSets, Functions

CONSTANTS
  Calls,        \* the concurrent calls of eval_on_worker on this worker
  Preloaded,    \* whether the data key was loaded (_loaded_keys)
  MaxProcs,     \* bound on processes spawned
  MaxFaults     \* bound on dying processes and expired timeouts

ASSUME CallsAssumption == IsFiniteSet(Calls) /\ Calls # {}
ASSUME PreloadedAssumption == Preloaded \in BOOLEAN
ASSUME LimitsAssumption == {MaxProcs, MaxFaults} \subseteq Nat \ {0}

VARIABLES
  \* PersistentWorker
  proc,        \* _proc, 0 for None
  nextId,      \* _next_id
  pending,     \* _pending: the call that waits for each request id
  readerTask,  \* _reader_task: the process it was started for, 0 for None
  \* reader tasks: the stdout each awaits, 0 when it has ended
  reads,
  \* processes
  os,          \* "none", "running", "dying", "exited" (returncode known)
  stdin, stdout,
  memory,      \* which of "cost model" and "data" the process holds
  refused,     \* the processes that answered an init or a load_data with an error
  \* calls
  pc,          \* "later" for a call that is not made yet
  round,       \* first or second attempt of eval_on_worker
  after,       \* where _restart was called: before an eval, or on a timeout
  myId,        \* req_id of the call's request
  future,      \* its future: none, pending, dead (WORKER_DEAD), or answered
  reaped,      \* the process whose exit _cleanup waits for
  faults

worker == <<proc, nextId, pending, readerTask>>
system == <<os, stdin, stdout, memory, refused>>
vars == <<worker, reads, system, pc, round, after, myId, future, reaped, faults>>

Processes == 1 .. MaxProcs
Whole == {"cost model", "data"}
Spawned == {p \in Processes : os[p] # "none"}

----------------------------------------------------------------------------
(* Scheduling.                                                             *)

\* A call in one of these places is running: it has not reached its next await.
Running == {c \in Calls : pc[c] \in {"check", "eval", "restart"}}

\* A call that runs as soon as it gets its turn.
Ready(c) ==
  \/ pc[c] \in {"idle", "check", "eval", "expired", "restart", "terminate"}
  \/ pc[c] \in {"wait", "init", "load"} /\ future[c].state # "pending"
  \/ pc[c] = "reap" /\ os[reaped[c]] = "exited"

MayRun(c) == Running \subseteq {c}
EventsMayArrive == \A c \in Calls : ~Ready(c)

Fault ==
  /\ faults < MaxFaults
  /\ faults' = faults + 1

----------------------------------------------------------------------------
(* Requests and futures.                                                   *)

Future(state) == [state |-> state]

Without(f, id) == Restrict(f, DOMAIN f \ {id})

\* health_check
Healthy == proc # 0 /\ os[proc] # "exited"

\* Mutant: the id is not advanced.
PostUnderSameId(waiting, c, q, kind) ==
  /\ pending' = [id \in DOMAIN waiting \cup {nextId} |-> IF id = nextId THEN c ELSE waiting[id]]
  /\ nextId' = nextId
  /\ myId' = [myId EXCEPT ![c] = nextId]
  /\ future' = [future EXCEPT ![c] = Future("pending")]
  /\ stdin' = [stdin EXCEPT ![q] = Append(@, [id |-> nextId, kind |-> kind, call |-> c])]

\* _send_request to process q: besides the requests that wait, this one does, under
\* the next id.
Post(waiting, c, q, kind) ==
  /\ pending' = [id \in DOMAIN waiting \cup {nextId} |-> IF id = nextId THEN c ELSE waiting[id]]
  /\ nextId' = nextId + 1
  /\ myId' = [myId EXCEPT ![c] = nextId]
  /\ future' = [future EXCEPT ![c] = Future("pending")]
  /\ stdin' = [stdin EXCEPT ![q] = Append(@, [id |-> nextId, kind |-> kind, call |-> c])]

\* Every pending future that is not done fails with WORKER_DEAD.
AllDead ==
  [c \in Calls |-> IF c \in Range(pending) /\ future[c].state = "pending" THEN Future("dead") ELSE future[c]]

\* A fatal error of an attempt: eval_on_worker tries once more.
AfterFatal(c) ==
  IF round[c] = 1
  THEN /\ pc' = [pc EXCEPT ![c] = "check"]
       /\ round' = [round EXCEPT ![c] = 2]
  ELSE /\ pc' = [pc EXCEPT ![c] = "failed"]
       /\ UNCHANGED round

\* The end of _restart: its caller evaluates, or raises EVAL_TIMEOUT, which is fatal.
Restarted(c, ok) ==
  IF after[c] = "timeout"
  THEN AfterFatal(c)
  ELSE /\ pc' = [pc EXCEPT ![c] = IF ok THEN "eval" ELSE "failed"]
       /\ UNCHANGED round

----------------------------------------------------------------------------

\* The worker was started, and may have died since with nothing pending; the calls of
\* made are about to be made.
InitWith(made) ==
  /\ proc = 1 /\ nextId = (IF Preloaded THEN 3 ELSE 2) /\ pending = <<>> /\ readerTask = 1
  /\ \E alive \in BOOLEAN :
       /\ os = [p \in Processes |-> IF p # 1 THEN "none" ELSE IF alive THEN "running" ELSE "exited"]
       /\ reads = [p \in Processes |-> IF p = 1 /\ alive THEN 1 ELSE 0]
       /\ faults = IF alive THEN 0 ELSE 1
  /\ stdin = [p \in Processes |-> <<>>]
  /\ stdout = [p \in Processes |-> <<>>]
  /\ memory = [p \in Processes |->
                 IF p # 1 THEN {} ELSE IF Preloaded THEN Whole ELSE {"cost model"}]
  /\ refused = {}
  /\ pc = [c \in Calls |-> IF c \in made THEN "idle" ELSE "later"]
  /\ round = [c \in Calls |-> 1]
  /\ after = [c \in Calls |-> "eval"]
  /\ myId = [c \in Calls |-> 0]
  /\ future = [c \in Calls |-> Future("none")]
  /\ reaped = [c \in Calls |-> 0]

Init == InitWith(Calls)

Call(c) ==
  /\ pc[c] = "idle" /\ MayRun(c)
  /\ pc' = [pc EXCEPT ![c] = "check"]
  /\ UNCHANGED <<worker, reads, system, round, after, myId, future, reaped, faults>>

\* An unhealthy worker is restarted before either attempt.
HealthCheck(c) ==
  /\ pc[c] = "check" /\ MayRun(c)
  /\ pc' = [pc EXCEPT ![c] = IF Healthy THEN "eval" ELSE "restart"]
  /\ after' = [after EXCEPT ![c] = "eval"]
  /\ UNCHANGED <<worker, reads, system, round, myId, future, reaped, faults>>

\* A process that is dying takes the request without reading it, or its pipe is
\* already broken.
SendEval(c) ==
  /\ pc[c] = "eval" /\ MayRun(c)
  /\ \/ /\ Healthy
        /\ Post(pending, c, proc, "eval")
        /\ pc' = [pc EXCEPT ![c] = "wait"]
        /\ UNCHANGED round
     \/ /\ ~(proc # 0 /\ os[proc] = "running")   \* WORKER_DEAD, BROKEN_PIPE
        /\ AfterFatal(c)
        /\ nextId' = IF proc = 0 THEN nextId ELSE nextId + 1
        /\ UNCHANGED <<pending, myId, future, stdin>>
  /\ UNCHANGED <<proc, readerTask, reads, os, stdout, memory, refused, after, reaped, faults>>

\* eval has its response: the scores, or an error that is not fatal.
EvalAnswered(c) ==
  /\ pc[c] = "wait" /\ MayRun(c)
  /\ future[c].state = "answered"
  /\ pending' = Without(pending, myId[c])
  /\ pc' = [pc EXCEPT ![c] = IF future[c].ok THEN "done" ELSE "failed"]
  /\ UNCHANGED <<proc, nextId, readerTask, reads, system, round, after, myId, future,
                 reaped, faults>>

EvalDead(c) ==
  /\ pc[c] = "wait" /\ MayRun(c)
  /\ future[c].state = "dead"
  /\ pending' = Without(pending, myId[c])
  /\ AfterFatal(c)
  /\ UNCHANGED <<proc, nextId, readerTask, reads, system, after, myId, future, reaped, faults>>

\* No process has anything left to do, and no reader anything left to read.
Quiet ==
  /\ \A p \in Processes : os[p] # "dying" /\ (os[p] = "running" => stdin[p] = <<>>)
  /\ \A p \in Processes : reads[p] # 0 => stdout[reads[p]] = <<>> /\ os[reads[p]] = "running"

\* The timers of the calls in cs expire in the same turn of the event loop: a fault
\* when their answers were only late, the rule when no answer can come any more.
EvalTimeout(cs) ==
  /\ EventsMayArrive
  /\ cs # {}
  /\ \A c \in cs : pc[c] = "wait" /\ future[c].state = "pending"
  /\ \/ Quiet /\ UNCHANGED faults
     \/ ~Quiet /\ Fault
  /\ pending' = Restrict(pending, DOMAIN pending \ {myId[c] : c \in cs})
  /\ future' = [c \in Calls |-> IF c \in cs THEN Future("none") ELSE future[c]]
  /\ pc' = [c \in Calls |-> IF c \in cs THEN "expired" ELSE pc[c]]
  /\ UNCHANGED <<proc, nextId, readerTask, reads, system, round, after, myId, reaped>>

----------------------------------------------------------------------------
(* _restart: _cleanup, then start, then the replay of the loaded data.     *)

\* The worker is terminated; its exit is awaited.
Terminate(c) ==
  /\ os' = [os EXCEPT ![proc] = IF @ = "running" THEN "dying" ELSE @]
  /\ reaped' = [reaped EXCEPT ![c] = proc]
  /\ pc' = [pc EXCEPT ![c] = "reap"]

\* The rest of _cleanup, and _next_id = 1; start then awaits the new process.
Clear(c) ==
  /\ future' = AllDead
  /\ pending' = <<>> /\ proc' = 0 /\ readerTask' = 0 /\ nextId' = 1
  /\ pc' = [pc EXCEPT ![c] = "spawn"]

\* A reader that is still going is cancelled, awaited, and fails what is pending.
BeginCleanup(c) ==
  /\ \/ pc[c] = "restart" /\ UNCHANGED after
     \/ pc[c] = "expired" /\ after' = [after EXCEPT ![c] = "timeout"]
  /\ MayRun(c)
  /\ IF readerTask # 0 /\ reads[readerTask] # 0
     THEN /\ reads' = [reads EXCEPT ![readerTask] = 0]
          /\ future' = AllDead
          /\ pc' = [pc EXCEPT ![c] = "terminate"]
          /\ UNCHANGED <<worker, os, reaped>>
     ELSE /\ UNCHANGED reads
          /\ IF proc # 0
             THEN Terminate(c) /\ UNCHANGED <<worker, future>>
             ELSE Clear(c) /\ UNCHANGED <<os, reaped>>
  /\ UNCHANGED <<stdin, stdout, memory, refused, round, myId, faults>>

EndCleanup(c) ==
  /\ MayRun(c)
  /\ \/ /\ pc[c] = "terminate" /\ proc # 0
        /\ Terminate(c)
        /\ UNCHANGED <<worker, future>>
     \/ /\ \/ pc[c] = "terminate" /\ proc = 0
           \/ pc[c] = "reap" /\ os[reaped[c]] = "exited"
        /\ Clear(c)
        /\ UNCHANGED <<os, reaped>>
  /\ UNCHANGED <<reads, stdin, stdout, memory, refused, round, after, myId, faults>>

\* The new process takes the place of whatever another call has put there; its
\* reader is started and init is sent.
Spawn(c) ==
  LET n == Cardinality(Spawned) + 1
  IN  /\ pc[c] = "spawn"
      /\ EventsMayArrive
      /\ n <= MaxProcs
      /\ os' = [os EXCEPT ![n] = "running"]
      /\ proc' = n /\ readerTask' = n
      /\ reads' = [reads EXCEPT ![n] = n]
      /\ Post(pending, c, n, "init")
      /\ pc' = [pc EXCEPT ![c] = "init"]
      /\ UNCHANGED <<stdout, memory, refused, round, after, reaped, faults>>

\* Mutant: nothing is loaded again.
ReplayNothing(c) ==
  /\ pc[c] = "init" /\ MayRun(c)
  /\ future[c].state = "answered" /\ future[c].ok
  /\ Restarted(c, TRUE)
  /\ pending' = Without(pending, myId[c])
  /\ UNCHANGED <<proc, nextId, readerTask, reads, system, after, myId, future, reaped, faults>>

\* init succeeded, and the data loaded before is loaded again. When another call
\* has cleaned up meanwhile, start fails on _proc.pid.
Replay(c) ==
  /\ pc[c] = "init" /\ MayRun(c)
  /\ future[c].state = "answered" /\ future[c].ok
  /\ \/ /\ Preloaded /\ Healthy
        /\ Post(Without(pending, myId[c]), c, proc, "load_data")
        /\ pc' = [pc EXCEPT ![c] = "load"]
        /\ UNCHANGED round
     \/ /\ \/ proc = 0 /\ pc' = [pc EXCEPT ![c] = "failed"] /\ UNCHANGED round
           \/ /\ proc # 0 /\ (Preloaded => os[proc] # "running")
              /\ Restarted(c, ~Preloaded)
        /\ pending' = Without(pending, myId[c])
        /\ UNCHANGED <<nextId, myId, future, stdin>>
  /\ UNCHANGED <<proc, readerTask, reads, os, stdout, memory, refused, after, reaped, faults>>

\* The data is loaded; or init failed, or the process died, which is fatal: after a
\* timeout the evaluation is tried once more, by then on a process that is healthy if
\* it was init that failed.
EndRestart(c) ==
  /\ MayRun(c)
  /\ \/ pc[c] = "load" /\ future[c].state = "answered" /\ future[c].ok /\ Restarted(c, TRUE)
     \/ pc[c] = "init" /\ future[c].state = "answered" /\ ~future[c].ok /\ Restarted(c, FALSE)
     \/ pc[c] \in {"init", "load"} /\ future[c].state = "dead" /\ Restarted(c, FALSE)
  /\ pending' = Without(pending, myId[c])
  /\ UNCHANGED <<proc, nextId, readerTask, reads, system, after, myId, future, reaped, faults>>

\* load_data failed, which is not fatal: the call fails, and leaves a process behind
\* that is healthy and has no data.
LoadFailed(c) ==
  /\ pc[c] = "load" /\ MayRun(c)
  /\ future[c].state = "answered" /\ ~future[c].ok
  /\ pc' = [pc EXCEPT ![c] = "failed"]
  /\ pending' = Without(pending, myId[c])
  /\ UNCHANGED <<proc, nextId, readerTask, reads, system, round, after, myId, future,
                 reaped, faults>>

----------------------------------------------------------------------------
(* The reader tasks.                                                       *)

\* A reader reads the next line of the process that is the worker's by then; a
\* second reader on the same stream, and a stream of None, raise.
NextStream(p) ==
  IF proc = 0 \/ \E r \in Processes \ {p} : reads[r] = proc THEN 0 ELSE proc

\* Mutant: the only request that waits takes any response.
AddresseeSole(m) ==
  IF Cardinality(DOMAIN pending) = 1 THEN Range(pending)
  ELSE IF m.id \in DOMAIN pending THEN {pending[m.id]} ELSE {}

\* The call a response is delivered to: that which waits under its id, or, for an
\* error under an unknown id, the only one that waits.
Addressee(m) ==
  IF m.id \in DOMAIN pending /\ future[pending[m.id]].state = "pending"
  THEN {pending[m.id]}
  ELSE IF ~m.ok /\ Cardinality(DOMAIN pending) = 1 THEN Range(pending) ELSE {}

ReadLine(p) ==
  LET q == reads[p]
      m == Head(stdout[q])
      delivered == [c \in Calls |->
                      IF c \in Addressee(m) /\ future[c].state = "pending" THEN m ELSE future[c]]
  IN  /\ EventsMayArrive
      /\ q # 0
      /\ stdout[q] # <<>>
      /\ stdout' = [stdout EXCEPT ![q] = Tail(@)]
      /\ reads' = [reads EXCEPT ![p] = NextStream(p)]
      /\ future' = [c \in Calls |->
           IF NextStream(p) = 0 /\ c \in Range(pending) /\ delivered[c].state = "pending"
           THEN Future("dead") ELSE delivered[c]]
      /\ UNCHANGED <<worker, os, stdin, memory, refused, pc, round, after, myId, reaped, faults>>

ReadEOF(p) ==
  LET q == reads[p]
  IN  /\ EventsMayArrive
      /\ q # 0
      /\ stdout[q] = <<>>
      /\ os[q] \in {"dying", "exited"}
      /\ reads' = [reads EXCEPT ![p] = 0]
      /\ future' = AllDead
      /\ UNCHANGED <<worker, system, pc, round, after, myId, reaped, faults>>

----------------------------------------------------------------------------
(* The processes.                                                          *)

Gains(kind) ==
  CASE kind = "init" -> {"cost model"} [] kind = "load_data" -> {"data"} [] kind = "eval" -> {}

\* The main loop of the worker: requests are answered one after the other. An init, a
\* load_data or an evaluation may fail; an evaluation does without cost model or data.
Serve(p) ==
  LET r == Head(stdin[p])
  IN  \E ok \in BOOLEAN :
        /\ EventsMayArrive
        /\ os[p] = "running"
        /\ stdin[p] # <<>>
        /\ r.kind = "eval" /\ ok => memory[p] = Whole
        /\ stdin' = [stdin EXCEPT ![p] = Tail(@)]
        /\ stdout' = [stdout EXCEPT ![p] =
             Append(@, [state |-> "answered", id |-> r.id, kind |-> r.kind, call |-> r.call,
                        ok |-> ok])]
        /\ memory' = [memory EXCEPT ![p] = IF ok THEN @ \cup Gains(r.kind) ELSE @]
        /\ refused' = IF ok \/ r.kind = "eval" THEN refused ELSE refused \cup {p}
        /\ UNCHANGED <<worker, reads, os, pc, round, after, myId, future, reaped, faults>>

\* A panic, or the out-of-memory killer.
Die(p) ==
  /\ EventsMayArrive
  /\ os[p] = "running"
  /\ Fault
  /\ os' = [os EXCEPT ![p] = "dying"]
  /\ UNCHANGED <<worker, reads, stdin, stdout, memory, refused, pc, round, after, myId, future, reaped>>

\* The exit of a process is noticed.
Exited(p) ==
  /\ EventsMayArrive
  /\ os[p] = "dying"
  /\ os' = [os EXCEPT ![p] = "exited"]
  /\ UNCHANGED <<worker, reads, stdin, stdout, memory, refused, pc, round, after, myId, future,
                 reaped, faults>>

----------------------------------------------------------------------------

CallStep(c) ==
  \/ Call(c)
  \/ HealthCheck(c)
  \/ SendEval(c)
  \/ EvalAnswered(c)
  \/ EvalDead(c)
  \/ BeginCleanup(c)
  \/ EndCleanup(c)
  \/ Spawn(c)
  \/ Replay(c)
  \/ EndRestart(c)
  \/ LoadFailed(c)

ProcessStep(p) == ReadLine(p) \/ ReadEOF(p) \/ Serve(p) \/ Exited(p)

Next ==
  \/ \E c \in Calls : CallStep(c)
  \/ \E p \in Processes : ProcessStep(p) \/ Die(p)
  \/ \E cs \in SUBSET Calls : EvalTimeout(cs)

Spec == Init /\ [][Next]_vars

\* The event loop and the processes make progress, and the timer of an eval whose
\* answer cannot come goes off.
FairSpec ==
  /\ Spec
  /\ \A c \in Calls : WF_vars(CallStep(c))
  /\ \A p \in Processes : WF_vars(ReadLine(p)) /\ WF_vars(ReadEOF(p)) /\ WF_vars(Serve(p))
                          /\ WF_vars(Exited(p))
  /\ \A c \in Calls : WF_vars(Quiet /\ EvalTimeout({c}))

----------------------------------------------------------------------------
(* Properties.                                                             *)

TypeOK ==
  /\ proc \in 0 .. MaxProcs /\ readerTask \in 0 .. MaxProcs /\ nextId \in Nat
  /\ Range(pending) \subseteq Calls
  /\ reads \in [Processes -> 0 .. MaxProcs]
  /\ os \in [Processes -> {"none", "running", "dying", "exited"}]
  /\ memory \in [Processes -> SUBSET Whole] /\ refused \subseteq Processes
  /\ pc \in [Calls -> {"later", "idle", "check", "eval", "wait", "expired", "restart", "terminate",
                       "reap", "spawn", "init", "load", "done", "failed"}]
  /\ round \in [Calls -> 1 .. 2] /\ after \in [Calls -> {"eval", "timeout"}]
  /\ reaped \in [Calls -> 0 .. MaxProcs]
  /\ faults \in 0 .. MaxFaults

\* The scores a call returns are those of its own request, never those another call
\* asked for or an answer of an earlier process under a reused id.
AnswersAreOwn ==
  \A c \in Calls : pc[c] = "done" => future[c].call = c /\ future[c].kind = "eval"

\* Once the data was loaded, no evaluation reaches a process before cost model and data
\* are there, however often it was restarted, unless that process has refused one of them.
DataReplayed ==
  Preloaded =>
    \A p \in Processes :
      os[p] = "running" /\ stdin[p] # <<>> /\ Head(stdin[p]).kind = "eval" =>
        memory[p] = Whole \/ p \in refused

\* A worker has one process: its memory budget is that of one.
OneProcess == Cardinality({p \in Processes : os[p] = "running"}) <= 1

\* Every call comes to an end.
CallsReturn == \A c \in Calls : <>(pc[c] \in {"done", "failed"})
=============================================================================
