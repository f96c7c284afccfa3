------------------------------- MODULE MCWorker -------------------------------
(***************************************************************************)
(* A persistent worker used in two ways: by one call after the other, with *)
(* up to two faults; and by all calls at a time, with at most one.         *)
(***************************************************************************)
EXTENDS WorkerClient

VARIABLE shared

UseInit ==
  /\ shared \in BOOLEAN
  /\ InitWith(IF shared THEN Calls ELSE {})

\* The dispatcher makes its next call when none is under way.
NextCall(c) ==
  /\ pc[c] = "later" /\ \A d \in Calls : pc[d] \in {"later", "done", "failed"}
  /\ pc' = [pc EXCEPT ![c] = "idle"]
  /\ UNCHANGED <<worker, reads, system, round, after, myId, future, reaped, faults>>

UseNext ==
  /\ Next \/ \E c \in Calls : NextCall(c)
  /\ UNCHANGED shared
  /\ shared => faults' <= 1

UseSpec ==
  /\ UseInit /\ [][UseNext]_<<vars, shared>>
  /\ \A c \in Calls : /\ WF_vars(NextCall(c) \/ CallStep(c))
                       /\ WF_vars(Quiet /\ EvalTimeout({c}))
  /\ \A p \in Processes : WF_vars(ReadLine(p)) /\ WF_vars(ReadEOF(p)) /\ WF_vars(Serve(p))
                          /\ WF_vars(Exited(p))

-----------------------------------------------------------------------------
\* Whoever uses it, the worker and its calls keep to their states; used by one call at a
\* time it has one process, however often it is restarted, and no evaluation reaches it
\* before its data unless it has refused that (see WorkerClient).
SoundUnlessShared == TypeOK /\ (~shared => OneProcess /\ DataReplayed)
=============================================================================
