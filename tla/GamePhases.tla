----------------------------- MODULE GamePhases -----------------------------
(***************************************************************************)
(* A running game: nights and days, the storyteller's AdvancePhase, and    *)
(* the deaths and ghost votes recorded on each phase.                      *)
(*                                                                         *)
(* Every handler reads the game first and writes later.  No transaction    *)
(* here reads anything after its first write, and none of its writes       *)
(* depends on more than the reads before it, so its writes are one step,   *)
(* at the commit; a write that is conditional in SQL looks at the rows as  *)
(* they are in that step.  getOwnedGame's statements are one read.         *)
(***************************************************************************)
EXTENDS Integers, Sequences, FiniteSets

CONSTANTS Req,        \* slots for requests in flight (goroutines)
          Overlapping,\* may two AdvancePhase requests be in flight at once?
          Role,       \* characters that can die
          NoRole,     \* a request that is about no character
          MaxRound    \* bound on the rounds played

ASSUME OverlappingAssumption == Overlapping \in BOOLEAN
ASSUME RoleAssumption == NoRole \notin Role
ASSUME RoundAssumption == MaxRound \in Nat

VARIABLES state,   \* the state of the games row
          phases,  \* the phases by id, with the death records of each
          req,     \* what each request has read and where it stands
          raced    \* history: roles about which requests overlapped

vars == <<state, phases, req, raced>>
db == <<state, phases>>

\* No death record, one with its ghost vote, one whose ghost vote is used.
Mark == {"none", "vote", "used"}
Marks == [Role -> Mark]
Phase == [round : Nat \ {0}, day : BOOLEAN, active : BOOLEAN, deaths : Marks]

Point == {"idle", "start", "advance", "active", "night", "day", "whereabouts", "record",
          "find", "remove", "findVote", "spend", "end", "ending"}

Idle == [at |-> "idle", role |-> NoRole, propagate |-> FALSE, phase |-> 0, count |-> 0,
         set |-> {}, seen |-> <<>>, gone |-> FALSE]

Active == {i \in DOMAIN phases : phases[i].active}
Nobody == [r \in Role |-> "none"]

\* Mutant: the day starts without deaths.
PairWithoutDay(round, deaths) ==
    <<[round |-> round, day |-> FALSE, active |-> TRUE, deaths |-> deaths],
      [round |-> round, day |-> TRUE, active |-> FALSE, deaths |-> Nobody]>>

\* The night and the day of a round, both with the same deaths.
Pair(round, deaths) ==
    <<[round |-> round, day |-> FALSE, active |-> TRUE, deaths |-> deaths],
      [round |-> round, day |-> TRUE, active |-> FALSE, deaths |-> deaths]>>

\* Role r's record in the phases of S becomes mark where it is one of from.
Marked(r, S, from, mark) ==
    [i \in DOMAIN phases |->
        IF i \in S /\ phases[i].deaths[r] \in from
        THEN [phases[i] EXCEPT !.deaths[r] = mark] ELSE phases[i]]

Init ==
    /\ state = "setup"
    /\ phases = <<>>
    /\ req = [p \in Req |-> Idle]
    /\ raced = {}

-----------------------------------------------------------------------------
Advancing(q) == q.at \in {"advance", "active", "night", "day"}

\* The roles over which a request that begins as q meets another one.
Races(q) ==
    IF Advancing(q) THEN {req[o].role : o \in Req} \ {NoRole}
    ELSE IF q.role # NoRole /\ \E o \in Req : Advancing(req[o]) \/ req[o].role = q.role
         THEN {q.role} ELSE {}

\* getOwnedGame, and the check that the game runs.
Begin(p, q) ==
    /\ req[p].at = "idle"
    /\ req' = [req EXCEPT ![p] = q]
    /\ raced' = raced \cup Races(q)
    /\ UNCHANGED db

Goto(p, q) == req' = [req EXCEPT ![p] = q] /\ UNCHANGED <<db, raced>>
End(p) == req' = [req EXCEPT ![p] = Idle] /\ UNCHANGED raced
Fail(p) == End(p) /\ UNCHANGED db

\* The request dies where it stands: cancelled, or a statement failed.
Abort(p) == req[p].at # "idle" /\ Fail(p)

-----------------------------------------------------------------------------
(***************************************************************************)
(* The lifecycle.                                                          *)
(***************************************************************************)
BeginStart(p) == state = "setup" /\ Begin(p, [Idle EXCEPT !.at = "start"])

\* Mutant: the write is not conditional on the state.
StartUnconditional(p) ==
    /\ req[p].at = "start"
    /\ state' = "in_progress"
    /\ phases' = phases \o Pair(1, Nobody)
    /\ End(p)

\* Mutant: rounds are counted from zero.
StartFromZero(p) ==
    /\ req[p].at = "start" /\ state = "setup"
    /\ state' = "in_progress"
    /\ phases' = Pair(0, Nobody)
    /\ End(p)

StartCommit(p) ==
    /\ req[p].at = "start"
    /\ \/ /\ state = "setup"
          /\ state' = "in_progress"
          /\ phases' = phases \o Pair(1, Nobody)
          /\ End(p)
       \/ state # "setup" /\ Fail(p)

BeginAdvance(p) ==
    /\ state = "in_progress"
    /\ Overlapping \/ \A o \in Req : ~Advancing(req[o])
    /\ Begin(p, [Idle EXCEPT !.at = "advance"])

\* The transaction reads the phases with their deaths ...
AdvanceRead(p) ==
    /\ req[p].at = "advance"
    /\ Goto(p, [req[p] EXCEPT !.at = "active", !.seen = phases])

\* ... and then the one active phase; none, or several, is an error.
AdvanceActive(p) ==
    /\ req[p].at = "active"
    /\ \/ \E i \in Active :
             /\ Active = {i}
             /\ Goto(p, [req[p] EXCEPT !.at = IF phases[i].day THEN "day" ELSE "night",
                            !.phase = i])
       \/ Cardinality(Active) # 1 /\ Fail(p)

\* Mutant: any day will do.
CompanionOfAnyRound(seen, round) ==
    {j \in DOMAIN seen : seen[j].day /\ \A k \in DOMAIN seen : seen[k].day => j <= k}

\* The first day of a round among the phases that were read, if there is one.
Companion(seen, round) ==
    LET days == {j \in DOMAIN seen : seen[j].day /\ seen[j].round = round}
    IN  {j \in days : \A k \in days : j <= k}

\* advanceNightToDay: a day that was not among the phases read is created.
AdvanceToDay(p) ==
    LET i == req[p].phase
        day == Companion(req[p].seen, phases[i].round)
        night == [phases EXCEPT ![i].active = FALSE]
    IN
    /\ req[p].at = "night"
    /\ phases' = IF day = {}
                  THEN Append(night, [round |-> phases[i].round, day |-> TRUE,
                                      active |-> TRUE, deaths |-> Nobody])
                  ELSE [j \in DOMAIN phases |->
                          IF j \in day THEN [night[j] EXCEPT !.active = TRUE] ELSE night[j]]
    /\ End(p)
    /\ UNCHANGED state

\* advanceDayToNextRound: the deaths are those of the day as it was read.
AdvanceToNight(p) ==
    LET i == req[p].phase
        seen == req[p].seen
        deaths == IF i \in DOMAIN seen THEN seen[i].deaths ELSE Nobody
    IN
    /\ req[p].at = "day"
    /\ phases[i].round < MaxRound
    /\ phases' = [phases EXCEPT ![i].active = FALSE] \o Pair(phases[i].round + 1, deaths)
    /\ End(p)
    /\ UNCHANGED state

BeginEnd(p) == state = "in_progress" /\ Begin(p, [Idle EXCEPT !.at = "end"])

\* The deactivation is one statement over the active phases it finds when it
\* starts; waiting for the rows, it may meet others' commits.
EndRead(p) ==
    /\ req[p].at = "end"
    /\ Goto(p, [req[p] EXCEPT !.at = "ending", !.set = Active])

EndCommit(p) ==
    /\ req[p].at = "ending"
    /\ phases' = [i \in DOMAIN phases |->
                    IF i \in req[p].set THEN [phases[i] EXCEPT !.active = FALSE]
                    ELSE phases[i]]
    /\ state' = "completed"
    /\ End(p)

-----------------------------------------------------------------------------
(***************************************************************************)
(* Deaths and ghost votes.  Phases are only ever added, in the order of    *)
(* their ids, so the phases of a copy are the first count of them.         *)
(***************************************************************************)

\* phasesFromID, over the phases of the request's copy.
PhasesFrom(q) ==
    IF q.phase > q.count THEN {}
    ELSE IF q.propagate THEN q.phase..q.count ELSE {q.phase}

\* RecordDeath names a phase, or means the active one; set is
\* existingDeathPhases.
BeginRecord(p) ==
    /\ state = "in_progress"
    /\ \E r \in Role, b \in BOOLEAN, i \in {0} \cup DOMAIN phases :
          Begin(p, [Idle EXCEPT !.at = IF i = 0 THEN "whereabouts" ELSE "record",
                       !.role = r, !.propagate = b, !.phase = i, !.count = Len(phases),
                       !.set = {j \in DOMAIN phases : phases[j].deaths[r] # "none"}])

RecordActive(p) ==
    /\ req[p].at = "whereabouts"
    /\ \/ \E i \in Active :
             Active = {i} /\ Goto(p, [req[p] EXCEPT !.at = "record", !.phase = i])
       \/ Cardinality(Active) # 1 /\ Fail(p)

\* A record that appeared meanwhile breaks the unique index; nothing is written.
RecordCommit(p) ==
    LET r == req[p].role
        new == PhasesFrom(req[p]) \ req[p].set
    IN
    /\ req[p].at = "record"
    /\ \/ /\ \A i \in new : phases[i].deaths[r] = "none"
          /\ phases' = Marked(r, new, {"none"}, "vote")
          /\ End(p)
          /\ UNCHANGED state
       \/ (\E i \in new : phases[i].deaths[r] # "none") /\ Fail(p)

\* RemoveDeath and UseGhostVote name a death record the caller has seen.
BeginRemove(p) ==
    /\ state = "in_progress"
    /\ \E r \in Role, b \in BOOLEAN, i \in DOMAIN phases :
          /\ phases[i].deaths[r] # "none"
          /\ Begin(p, [Idle EXCEPT !.at = "find", !.role = r, !.propagate = b,
                          !.phase = i, !.count = Len(phases)])

RemoveFind(p) ==
    /\ req[p].at = "find"
    /\ \/ ~req[p].gone /\ Goto(p, [req[p] EXCEPT !.at = "remove"])
       \/ req[p].gone /\ Fail(p)

\* Deleting records makes the ids that other requests hold of them stale.
RemoveCommit(p) ==
    LET r == req[p].role
        S == PhasesFrom(req[p])
    IN
    /\ req[p].at = "remove"
    /\ \/ /\ req[p].propagate \/ ~req[p].gone
          /\ phases' = Marked(r, S, Mark, "none")
          /\ req' = [o \in Req |->
                       IF o = p THEN Idle
                       ELSE IF req[o].at \in {"find", "remove", "findVote"}
                               /\ req[o].role = r /\ req[o].phase \in S
                            THEN [req[o] EXCEPT !.gone = TRUE] ELSE req[o]]
          /\ UNCHANGED <<state, raced>>
       \/ ~req[p].propagate /\ req[p].gone /\ Fail(p)

BeginVote(p) ==
    /\ state = "in_progress"
    /\ \E r \in Role, i \in DOMAIN phases :
          /\ phases[i].deaths[r] # "none"
          /\ Begin(p, [Idle EXCEPT !.at = "findVote", !.role = r, !.phase = i,
                          !.count = Len(phases)])

VoteFind(p) ==
    LET votes == ~req[p].gone /\ phases[req[p].phase].deaths[req[p].role] = "vote" IN
    /\ req[p].at = "findVote"
    /\ \/ votes /\ Goto(p, [req[p] EXCEPT !.at = "spend"])
       \/ ~votes /\ Fail(p)

VoteWrite(p) ==
    /\ req[p].at = "spend"
    /\ phases' = Marked(req[p].role, 1..req[p].count, {"vote"}, "used")
    /\ End(p)
    /\ UNCHANGED state

-----------------------------------------------------------------------------
Handler(p) ==
    \/ BeginStart(p) \/ BeginAdvance(p) \/ BeginEnd(p)
    \/ BeginRecord(p) \/ BeginRemove(p) \/ BeginVote(p)

Step(p) ==
    \/ StartCommit(p)
    \/ AdvanceRead(p) \/ AdvanceActive(p) \/ AdvanceToDay(p) \/ AdvanceToNight(p)
    \/ EndRead(p) \/ EndCommit(p)
    \/ RecordActive(p) \/ RecordCommit(p)
    \/ RemoveFind(p) \/ RemoveCommit(p)
    \/ VoteFind(p) \/ VoteWrite(p)

Next == \E p \in Req : Handler(p) \/ Step(p) \/ Abort(p)

Spec == Init /\ [][Next]_vars

-----------------------------------------------------------------------------
(***************************************************************************)
(* What the phases promise.                                                *)
(***************************************************************************)
Request == [at : Point, role : Role \cup {NoRole}, propagate : BOOLEAN, phase : Nat,
            count : Nat, set : SUBSET Nat, seen : Seq(Phase), gone : BOOLEAN]

\* Type invariant.
TypeOK ==
    /\ state \in {"setup", "in_progress", "completed"}
    /\ phases \in Seq(Phase)
    /\ req \in [Req -> Request]
    /\ raced \subseteq Role

\* "Find the single active phase": a running game has one.  Every other
\* handler depends on it; with none or two, the game can only be ended.
OneActivePhase == state = "in_progress" => Cardinality(Active) = 1

\* AdvancePhase "steps through them one at a time": in a running game the
\* active phase changes only to the one after it, a day to a new night and a
\* night to the day of its round.
OneAtATimeStep ==
    state = "in_progress" /\ state' = "in_progress" =>
        \/ Active' = Active
        \/ \E i \in Active :
              /\ Active' = {i + 1}
              /\ phases'[i + 1].day = ~phases[i].day
              /\ phases'[i + 1].round = phases[i].round + IF phases[i].day THEN 1 ELSE 0
OneAtATime == [][OneAtATimeStep]_vars

\* For every role whose requests overlapped no other and no AdvancePhase, the
\* death records are the pages of an atomic ledger, whatever else went on: a
\* propagated death or its removal reaches every later phase, the ones
\* AdvancePhase creates included, and a spent ghost vote is spent in all.
Ledger == INSTANCE DeathLedger WITH
    ledger <- [i \in DOMAIN phases |-> [r \in Role \ raced |-> phases[i].deaths[r]]],
    struck <- raced
LedgerSpec == Ledger!Spec
=============================================================================
