---------------------------- MODULE TokenBagLive ----------------------------
(***************************************************************************)
(* Every request to the token bag is eventually answered.  RevealTokenBag  *)
(* locks registrations in the random order of a Go map, and a remove locks *)
(* its own row before those that picked it, so two transactions can wait   *)
(* for each other; PostgreSQL's deadlock detector is what breaks the tie.  *)
(***************************************************************************)
EXTENDS TokenBag

\* The rows of which the next statement of p needs one.
Wants(p) ==
    CASE req[p].at \in {"open", "close"} -> {GameRow}
      [] req[p].at \in {"claim", "remove", "pick"} -> {req[p].reg}
      [] req[p].at \in {"assign", "wipe"} ->
            IF req[p].todo = {} THEN {GameRow} ELSE req[p].todo
      [] req[p].at = "unpick" -> req[p].todo
      [] OTHER -> {}

\* Requests that wait for locks held among themselves.
Deadlocked(S) ==
    \A p \in S : Wants(p) # {} /\ \A x \in Wants(p) : lock[x] \in S

\* The detector aborts one transaction of a cycle.
DeadlockVictim ==
    \E S \in SUBSET Req \ {{}} : Deadlocked(S) /\ \E p \in S : Abort(p)

\* Goroutines are scheduled and statements return; a lock that is released over
\* and over is granted in the end, because PostgreSQL queues its waiters; and
\* the detector runs.  Nobody has to call, hang up or edit.
Fairness == (\A p \in Req : SF_vars(Step(p))) /\ WF_vars(DeadlockVictim)

LiveSpec == Spec /\ Fairness

\* Every request to the bag, once accepted, gets an answer: no lock outlives its
\* transaction, and no request waits forever for another.
EveryRequestEnds == \A p \in Req : req[p].at # "idle" ~> req[p].at = "idle"
=============================================================================
