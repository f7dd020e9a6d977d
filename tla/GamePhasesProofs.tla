-------------------------- MODULE GamePhasesProofs --------------------------
(***************************************************************************)
(* While requests to advance do not overlap, a running game has one active *)
(* phase, which moves one phase at a time, and the death records are an    *)
(* atomic ledger: for any number of requests, roles and rounds.            *)
(***************************************************************************)
EXTENDS GamePhases, SequenceTheorems, FiniteSetTheorems, TLAPS

RolePoint == {"whereabouts", "record", "find", "remove", "findVote", "spend"}

\* The phases a request knows exist, and it is about a role where it should be.
Placed(q) ==
    /\ q.phase <= Len(phases) /\ q.count <= Len(phases)
    /\ q.at \in RolePoint <=> q.role # NoRole
    /\ q.at \in (RolePoint \ {"whereabouts"}) \cup {"night", "day"} => q.phase # 0

TInv == TypeOK /\ \A p \in Req : Placed(req[p])

-----------------------------------------------------------------------------
(* Sequences of phases.                                                    *)

LEMMA PairIs ==
    ASSUME NEW round \in Nat \ {0}, NEW deaths \in Marks
    PROVE  LET s == Pair(round, deaths)
           IN  /\ s \in Seq(Phase) /\ Len(s) = 2
               /\ s[1].round = round /\ ~s[1].day /\ s[1].active /\ s[1].deaths = deaths
               /\ s[2].round = round /\ s[2].day /\ ~s[2].active /\ s[2].deaths = deaths
<1> DEFINE a == [round |-> round, day |-> FALSE, active |-> TRUE, deaths |-> deaths]
           b == [round |-> round, day |-> TRUE, active |-> FALSE, deaths |-> deaths]
<1>1. /\ a \in Phase /\ a.round = round /\ ~a.day /\ a.active /\ a.deaths = deaths
      /\ b \in Phase /\ b.round = round /\ b.day /\ ~b.active /\ b.deaths = deaths
  BY DEF Phase
<1>2. Pair(round, deaths) = <<a, b>>
  BY DEF Pair
<1> HIDE DEF a, b
<1>3. <<a, b>> \in Seq(Phase) /\ Len(<<a, b>>) = 2 /\ <<a, b>>[1] = a /\ <<a, b>>[2] = b
  BY <1>1
<1> QED
  BY <1>1, <1>2, <1>3

\* Two even numbers are not next to each other.
LEMMA Halves ==
    \A a, b \in Nat : (2 * a = 2 * b => a = b) /\ 2 * a # 2 * b - 1
  OBVIOUS

\* A round is added after the phases there are.
LEMMA RoundAdded ==
    ASSUME NEW A, NEW s \in Seq(A), NEW u \in Seq(A), Len(u) = 2
    PROVE  /\ s \o u \in Seq(A) /\ Len(s \o u) = Len(s) + 2
           /\ \A i \in 1..Len(s) : (s \o u)[i] = s[i]
           /\ (s \o u)[Len(s) + 1] = u[1] /\ (s \o u)[Len(s) + 2] = u[2]
<1>1. /\ s \o u \in Seq(A) /\ Len(s \o u) = Len(s) + Len(u)
      /\ \A i \in 1..Len(s) + Len(u) :
            (s \o u)[i] = IF i <= Len(s) THEN s[i] ELSE u[i - Len(s)]
  BY ConcatProperties
<1>2. /\ Len(s) \in Nat /\ Len(s) + 1 \in 1..Len(s) + Len(u)
      /\ Len(s) + 2 \in 1..Len(s) + Len(u)
  OBVIOUS
<1> QED
  BY <1>1, <1>2

\* The phases mapped one by one.
LEMMA Mapped ==
    ASSUME NEW s \in Seq(Phase), NEW t \in [DOMAIN s -> Phase]
    PROVE  t \in Seq(Phase) /\ Len(t) = Len(s) /\ DOMAIN t = DOMAIN s
  OBVIOUS

LEMMA NobodyIs == Nobody \in Marks /\ \A r \in Role : Nobody[r] = "none"
  BY DEF Nobody, Marks, Mark

\* A mark is changed in some phases, and nothing else is.
LEMMA MarkedIs ==
    ASSUME phases \in Seq(Phase), NEW r \in Role, NEW S, NEW from, NEW mark \in Mark
    PROVE  LET t == Marked(r, S, from, mark)
           IN  /\ t \in Seq(Phase) /\ Len(t) = Len(phases)
               /\ \A i \in DOMAIN phases :
                     /\ t[i].round = phases[i].round /\ t[i].day = phases[i].day
                     /\ t[i].active = phases[i].active
                     /\ \A x \in Role : t[i].deaths[x] =
                           IF x = r /\ i \in S /\ phases[i].deaths[r] \in from THEN mark
                           ELSE phases[i].deaths[x]
<1> DEFINE t == Marked(r, S, from, mark)
<1>1. ASSUME NEW i \in DOMAIN phases
      PROVE  /\ t[i] \in Phase
             /\ t[i].round = phases[i].round /\ t[i].day = phases[i].day
             /\ t[i].active = phases[i].active
             /\ \A x \in Role : t[i].deaths[x] =
                   IF x = r /\ i \in S /\ phases[i].deaths[r] \in from THEN mark
                   ELSE phases[i].deaths[x]
  <2>1. phases[i] \in Phase
    BY ElementOfSeq
  <2>2. CASE i \in S /\ phases[i].deaths[r] \in from
    <3> DEFINE d == [phases[i].deaths EXCEPT ![r] = mark]
    <3>1. d \in Marks /\ \A x \in Role : d[x] = IF x = r THEN mark ELSE phases[i].deaths[x]
      BY <2>1 DEF Phase, Marks
    <3>2. t[i] = [phases[i] EXCEPT !.deaths = d]
      BY <2>2 DEF Marked
    <3> HIDE DEF d, t
    <3> QED
      BY <2>1, <2>2, <3>1, <3>2 DEF Phase
  <2>3. CASE ~(i \in S /\ phases[i].deaths[r] \in from)
    <3>1. t[i] = phases[i]
      BY <2>3 DEF Marked
    <3> QED
      BY <2>1, <2>3, <3>1
  <2> QED
    BY <2>2, <2>3
<1>2. t \in [DOMAIN phases -> Phase]
  BY <1>1 DEF Marked
<1> QED
  BY <1>1, <1>2, Mapped

-----------------------------------------------------------------------------
(* What the steps do, field by field.                                      *)

LEMMA IdleIs ==
    /\ Idle \in Request /\ Idle.at = "idle" /\ Idle.role = NoRole /\ Idle.phase = 0
    /\ Idle.count = 0
  BY DEF Idle, Request, Point

\* A new request has read the game and knows where its phases end.
Begun(q) ==
    /\ q \in Request
    /\ \/ q.at = "start" /\ q.role = NoRole /\ q.phase = 0 /\ q.count = 0
       \/ /\ state = "in_progress" /\ q.role = NoRole /\ q.phase = 0 /\ q.count = 0
          /\ \/ q.at = "advance" /\ (Overlapping \/ \A o \in Req : ~Advancing(req[o]))
             \/ q.at = "end"
       \/ /\ state = "in_progress" /\ q.role \in Role /\ q.count = Len(phases)
          /\ q.phase \in 0..Len(phases)
          /\ \/ q.at = "whereabouts"
             \/ q.at \in {"record", "find", "findVote"} /\ q.phase # 0
          /\ q.at \in {"whereabouts", "record"} =>
                q.set = {j \in DOMAIN phases : phases[j].deaths[q.role] # "none"}

LEMMA HandlerMoves ==
    ASSUME TypeOK, NEW p \in Req, Handler(p)
    PROVE  \E q : Begun(q) /\ Begin(p, q)
<1> USE DEF Point, RolePoint
<1>0. Idle \in Request /\ Idle.role = NoRole /\ Idle.phase = 0 /\ Idle.count = 0
  BY IdleIs
<1>1. CASE BeginStart(p) \/ BeginAdvance(p) \/ BeginEnd(p)
  <2>1. ASSUME NEW at \in {"start", "advance", "end"}
        PROVE  LET q == [Idle EXCEPT !.at = at]
               IN  q \in Request /\ q.at = at /\ q.role = NoRole /\ q.phase = 0 /\ q.count = 0
    BY <1>0 DEF Request
  <2> QED
    BY <1>1, <2>1 DEF BeginStart, BeginAdvance, BeginEnd, Begun
<1>2. CASE BeginRecord(p)
  <2>1. PICK r \in Role, b \in BOOLEAN, i \in {0} \cup DOMAIN phases :
          Begin(p, [Idle EXCEPT !.at = IF i = 0 THEN "whereabouts" ELSE "record",
                       !.role = r, !.propagate = b, !.phase = i, !.count = Len(phases),
                       !.set = {j \in DOMAIN phases : phases[j].deaths[r] # "none"}])
    BY <1>2 DEF BeginRecord
  <2> DEFINE at == IF i = 0 THEN "whereabouts" ELSE "record"
             n == Len(phases)
             S == {j \in DOMAIN phases : phases[j].deaths[r] # "none"}
             q == [Idle EXCEPT !.at = at, !.role = r, !.propagate = b, !.phase = i, !.count = n,
                     !.set = S]
  <2>2. at \in Point /\ n \in Nat /\ S \in SUBSET Nat /\ i \in Nat /\ i \in 0..n
    BY DEF TypeOK
  <2> HIDE DEF at, n, S
  <2>3. /\ q \in Request /\ q.at = at /\ q.role = r /\ q.phase = i /\ q.count = n /\ q.set = S
    BY <1>0, <2>2 DEF Request
  <2>4. state = "in_progress"
    BY <1>2 DEF BeginRecord
  <2>5. Begin(p, q)
    BY <2>1 DEF at, n, S
  <2> HIDE DEF q
  <2>6. Begun(q)
    BY <2>2, <2>3, <2>4 DEF Begun, at, n, S
  <2> QED
    BY <2>5, <2>6
<1>3. CASE BeginRemove(p)
  <2>1. PICK r \in Role, b \in BOOLEAN, i \in DOMAIN phases :
          Begin(p, [Idle EXCEPT !.at = "find", !.role = r, !.propagate = b,
                          !.phase = i, !.count = Len(phases)])
    BY <1>3 DEF BeginRemove
  <2> DEFINE n == Len(phases)
             q == [Idle EXCEPT !.at = "find", !.role = r, !.propagate = b, !.phase = i, !.count = n]
  <2>2. n \in Nat /\ i \in Nat /\ i \in 1..n
    BY DEF TypeOK
  <2> HIDE DEF n
  <2>3. q \in Request /\ q.at = "find" /\ q.role = r /\ q.phase = i /\ q.count = n
    BY <1>0, <2>2 DEF Request
  <2>4. state = "in_progress" /\ Begin(p, q)
    BY <1>3, <2>1 DEF BeginRemove, n
  <2> HIDE DEF q
  <2>5. Begun(q)
    BY <2>2, <2>3, <2>4 DEF Begun, n
  <2> QED
    BY <2>4, <2>5
<1>4. CASE BeginVote(p)
  <2>1. PICK r \in Role, i \in DOMAIN phases :
          Begin(p, [Idle EXCEPT !.at = "findVote", !.role = r, !.phase = i,
                          !.count = Len(phases)])
    BY <1>4 DEF BeginVote
  <2> DEFINE n == Len(phases)
             q == [Idle EXCEPT !.at = "findVote", !.role = r, !.phase = i, !.count = n]
  <2>2. n \in Nat /\ i \in Nat /\ i \in 1..n
    BY DEF TypeOK
  <2> HIDE DEF n
  <2>3. q \in Request /\ q.at = "findVote" /\ q.role = r /\ q.phase = i /\ q.count = n
    BY <1>0, <2>2 DEF Request
  <2>4. state = "in_progress" /\ Begin(p, q)
    BY <1>4, <2>1 DEF BeginVote, n
  <2> HIDE DEF q
  <2>5. Begun(q)
    BY <2>2, <2>3, <2>4 DEF Begun, n
  <2> QED
    BY <2>4, <2>5
<1> QED
  BY <1>1, <1>2, <1>3, <1>4 DEF Handler

\* A request goes on and has read something more, but writes nothing.
Gone(p, q) ==
    LET o == req[p]
    IN  /\ q \in Request /\ q.role = o.role /\ q.count = o.count /\ q.propagate = o.propagate
        /\ \/ o.at = "advance" /\ q.at = "active" /\ q.seen = phases /\ q.phase = o.phase
           \/ /\ o.at = "active" /\ q.seen = o.seen
              /\ q.phase \in DOMAIN phases /\ Active = {q.phase}
              /\ q.at = IF phases[q.phase].day THEN "day" ELSE "night"
           \/ o.at = "end" /\ q.at = "ending" /\ q.phase = o.phase
           \/ /\ o.at = "whereabouts" /\ q.at = "record" /\ q.set = o.set
              /\ q.phase \in DOMAIN phases
           \/ o.at = "find" /\ q.at = "remove" /\ q.phase = o.phase
           \/ o.at = "findVote" /\ q.at = "spend" /\ q.phase = o.phase

Reads(p) ==
    \/ AdvanceRead(p) \/ AdvanceActive(p) \/ EndRead(p) \/ RecordActive(p)
    \/ RemoveFind(p) \/ VoteFind(p)

LEMMA ReadMoves ==
    ASSUME TypeOK, NEW p \in Req, Reads(p)
    PROVE  Fail(p) \/ \E q : Gone(p, q) /\ Goto(p, q)
<1> USE DEF Point
<1>0. req[p] \in Request /\ DOMAIN phases \subseteq Nat /\ Active \subseteq DOMAIN phases
  BY DEF TypeOK, Active
<1>1. ASSUME NEW at \in {"remove", "spend"}
      PROVE  LET q == [req[p] EXCEPT !.at = at]
             IN  /\ q \in Request /\ q.at = at /\ q.role = req[p].role /\ q.count = req[p].count
                 /\ q.propagate = req[p].propagate /\ q.phase = req[p].phase
  BY <1>0 DEF Request
<1>2. CASE RemoveFind(p) \/ VoteFind(p)
  BY <1>1, <1>2 DEF RemoveFind, VoteFind, Gone
<1>3. CASE AdvanceRead(p)
  <2> DEFINE q == [req[p] EXCEPT !.at = "active", !.seen = phases]
  <2>1. /\ q \in Request /\ q.at = "active" /\ q.role = req[p].role /\ q.count = req[p].count
        /\ q.propagate = req[p].propagate /\ q.phase = req[p].phase /\ q.seen = phases
    BY <1>0 DEF Request, TypeOK
  <2>2. Goto(p, q) /\ req[p].at = "advance"
    BY <1>3 DEF AdvanceRead
  <2> HIDE DEF q
  <2> QED
    BY <2>1, <2>2 DEF Gone
<1>4. CASE EndRead(p)
  <2> DEFINE q == [req[p] EXCEPT !.at = "ending", !.set = Active]
  <2>1. /\ q \in Request /\ q.at = "ending" /\ q.role = req[p].role /\ q.count = req[p].count
        /\ q.propagate = req[p].propagate /\ q.phase = req[p].phase
    BY <1>0 DEF Request
  <2>2. Goto(p, q) /\ req[p].at = "end"
    BY <1>4 DEF EndRead
  <2> HIDE DEF q
  <2> QED
    BY <2>1, <2>2 DEF Gone
<1>5. CASE AdvanceActive(p)
  <2>1. CASE Fail(p)
    BY <2>1
  <2>2. CASE ~Fail(p)
    <3>1. PICK i \in Active :
             /\ Active = {i}
             /\ Goto(p, [req[p] EXCEPT !.at = IF phases[i].day THEN "day" ELSE "night",
                            !.phase = i])
      BY <1>5, <2>2 DEF AdvanceActive
    <3> DEFINE at == IF phases[i].day THEN "day" ELSE "night"
               q == [req[p] EXCEPT !.at = at, !.phase = i]
    <3>2. at \in Point /\ i \in Nat /\ i \in DOMAIN phases
      BY <1>0
    <3> HIDE DEF at
    <3>3. /\ q \in Request /\ q.at = at /\ q.role = req[p].role /\ q.count = req[p].count
          /\ q.propagate = req[p].propagate /\ q.phase = i /\ q.seen = req[p].seen
      BY <1>0, <3>2 DEF Request
    <3>4. Goto(p, q) /\ req[p].at = "active"
      BY <1>5, <3>1 DEF AdvanceActive, at
    <3> HIDE DEF q
    <3> QED
      BY <3>1, <3>2, <3>3, <3>4 DEF Gone, at
  <2> QED
    BY <2>1, <2>2
<1>6. CASE RecordActive(p)
  <2>1. CASE Fail(p)
    BY <2>1
  <2>2. CASE ~Fail(p)
    <3>1. PICK i \in Active :
             Active = {i} /\ Goto(p, [req[p] EXCEPT !.at = "record", !.phase = i])
      BY <1>6, <2>2 DEF RecordActive
    <3> DEFINE q == [req[p] EXCEPT !.at = "record", !.phase = i]
    <3>2. i \in Nat /\ i \in DOMAIN phases
      BY <1>0
    <3>3. /\ q \in Request /\ q.at = "record" /\ q.role = req[p].role /\ q.count = req[p].count
          /\ q.propagate = req[p].propagate /\ q.phase = i /\ q.set = req[p].set
      BY <1>0, <3>2 DEF Request
    <3>4. Goto(p, q) /\ req[p].at = "whereabouts"
      BY <1>6, <3>1 DEF RecordActive
    <3> HIDE DEF q
    <3> QED
      BY <3>2, <3>3, <3>4 DEF Gone
  <2> QED
    BY <2>1, <2>2
<1> QED
  BY <1>2, <1>3, <1>4, <1>5, <1>6 DEF Reads

\* A request is over; of the others' at most "gone" changes.
Ended(p) ==
    /\ req' \in [Req -> Request] /\ req'[p] = Idle
    /\ \A o \in Req \ {p} :
          /\ req'[o].at = req[o].at /\ req'[o].role = req[o].role
          /\ req'[o].propagate = req[o].propagate /\ req'[o].phase = req[o].phase
          /\ req'[o].count = req[o].count /\ req'[o].set = req[o].set
          /\ req'[o].seen = req[o].seen

LEMMA EndMoves ==
    ASSUME TypeOK, NEW p \in Req, End(p)
    PROVE  Ended(p) /\ raced' = raced
  BY IdleIs DEF End, Ended, TypeOK

\* The night i of a table is no longer active.
LEMMA Deactivated ==
    ASSUME phases \in Seq(Phase), NEW i \in DOMAIN phases
    PROVE  LET t == [phases EXCEPT ![i].active = FALSE]
           IN  /\ t \in Seq(Phase) /\ Len(t) = Len(phases) /\ DOMAIN t = DOMAIN phases
               /\ \A j \in DOMAIN phases :
                     /\ t[j].round = phases[j].round /\ t[j].day = phases[j].day
                     /\ t[j].deaths = phases[j].deaths
                     /\ t[j].active <=> j # i /\ phases[j].active
<1> DEFINE q == [phases[i] EXCEPT !.active = FALSE]
           t == [phases EXCEPT ![i] = q]
<1>1. /\ q \in Phase /\ q.round = phases[i].round /\ q.day = phases[i].day
      /\ ~q.active /\ q.deaths = phases[i].deaths
  <2>1. phases[i] \in Phase
    BY ElementOfSeq
  <2> QED
    BY <2>1 DEF Phase
<1>2. [phases EXCEPT ![i].active = FALSE] = t
  OBVIOUS
<1> HIDE DEF q
<1>3. t \in Seq(Phase) /\ Len(t) = Len(phases) /\ DOMAIN t = DOMAIN phases
  BY <1>1, ExceptSeq
<1>4. \A j \in DOMAIN phases : t[j] = IF j = i THEN q ELSE phases[j]
  OBVIOUS
<1> HIDE DEF t
<1> QED
  BY <1>1, <1>2, <1>3, <1>4

LEMMA ToDayMoves ==
    ASSUME TypeOK, NEW p \in Req, AdvanceToDay(p), req[p].phase \in DOMAIN phases
    PROVE  LET i == req[p].phase
               D == Companion(req[p].seen, phases[i].round)
           IN  /\ Ended(p) /\ UNCHANGED <<state, raced>>
               /\ phases' \in Seq(Phase)
               /\ \/ D = {} /\ Len(phases') = Len(phases) + 1
                  \/ /\ D # {} /\ Len(phases') = Len(phases)
                     /\ \A j \in DOMAIN phases :
                           /\ phases'[j].round = phases[j].round
                           /\ phases'[j].day = phases[j].day
                           /\ phases'[j].deaths = phases[j].deaths
                           /\ phases'[j].active <=> j \in D \/ (j # i /\ phases[j].active)
<1> DEFINE i == req[p].phase
           D == Companion(req[p].seen, phases[i].round)
           night == [phases EXCEPT ![i].active = FALSE]
           last == [round |-> phases[i].round, day |-> TRUE, active |-> TRUE, deaths |-> Nobody]
<1>1. Ended(p) /\ UNCHANGED <<state, raced>>
  BY EndMoves DEF AdvanceToDay
<1>2. /\ night \in Seq(Phase) /\ Len(night) = Len(phases) /\ DOMAIN night = DOMAIN phases
      /\ \A j \in DOMAIN phases :
            /\ night[j].round = phases[j].round /\ night[j].day = phases[j].day
            /\ night[j].deaths = phases[j].deaths
            /\ night[j].active <=> j # i /\ phases[j].active
  BY Deactivated DEF TypeOK
<1>3. phases[i] \in Phase /\ last \in Phase
  <2>1. phases[i] \in Phase
    BY ElementOfSeq DEF TypeOK
  <2> QED
    BY <2>1, NobodyIs DEF Phase
<1>4. phases' = IF D = {} THEN Append(night, last)
                ELSE [j \in DOMAIN phases |->
                        IF j \in D THEN [night[j] EXCEPT !.active = TRUE] ELSE night[j]]
  BY DEF AdvanceToDay
<1> HIDE DEF night, last, D
<1>5. CASE D = {}
  <2>1. Append(night, last) \in Seq(Phase) /\ Len(Append(night, last)) = Len(phases) + 1
    BY <1>2, <1>3
  <2> QED
    BY <1>1, <1>4, <1>5, <2>1 DEF D
<1>6. CASE D # {}
  <2>1. ASSUME NEW j \in DOMAIN phases
        PROVE  /\ phases'[j] \in Phase
               /\ phases'[j].round = phases[j].round /\ phases'[j].day = phases[j].day
               /\ phases'[j].deaths = phases[j].deaths
               /\ phases'[j].active <=> j \in D \/ (j # i /\ phases[j].active)
    <3>1. night[j] \in Phase
      BY <1>2, ElementOfSeq
    <3>2. phases'[j] = IF j \in D THEN [night[j] EXCEPT !.active = TRUE] ELSE night[j]
      BY <1>4, <1>6
    <3>3. CASE j \in D
      <4>1. phases'[j] = [night[j] EXCEPT !.active = TRUE]
        BY <3>2, <3>3
      <4>2. /\ phases'[j] \in Phase /\ phases'[j].active
            /\ phases'[j].round = night[j].round /\ phases'[j].day = night[j].day
            /\ phases'[j].deaths = night[j].deaths
        BY <3>1, <4>1 DEF Phase
      <4> QED
        BY <1>2, <3>3, <4>2
    <3>4. CASE j \notin D
      BY <1>2, <3>1, <3>2, <3>4
    <3> QED
      BY <3>3, <3>4
  <2>2. phases' \in [DOMAIN phases -> Phase]
    BY <1>4, <1>6, <2>1
  <2>3. phases' \in Seq(Phase) /\ Len(phases') = Len(phases)
    BY <2>2, Mapped DEF TypeOK
  <2> QED
    BY <1>1, <1>6, <2>1, <2>3 DEF D
<1> QED
  BY <1>5, <1>6

LEMMA ToNightMoves ==
    ASSUME TypeOK, NEW p \in Req, AdvanceToNight(p), req[p].phase \in DOMAIN phases
    PROVE  LET i == req[p].phase
               n == Len(phases)
               deaths == IF i \in DOMAIN req[p].seen THEN req[p].seen[i].deaths ELSE Nobody
           IN  /\ Ended(p) /\ UNCHANGED <<state, raced>>
               /\ phases' \in Seq(Phase) /\ Len(phases') = n + 2
               /\ \A j \in 1..n :
                     /\ phases'[j].round = phases[j].round /\ phases'[j].day = phases[j].day
                     /\ phases'[j].deaths = phases[j].deaths
                     /\ phases'[j].active <=> j # i /\ phases[j].active
               /\ phases'[n + 1].round = phases[i].round + 1 /\ ~phases'[n + 1].day
               /\ phases'[n + 1].active /\ phases'[n + 1].deaths = deaths
               /\ phases'[n + 2].round = phases[i].round + 1 /\ phases'[n + 2].day
               /\ ~phases'[n + 2].active /\ phases'[n + 2].deaths = deaths
<1> DEFINE i == req[p].phase
           n == Len(phases)
           seen == req[p].seen
           deaths == IF i \in DOMAIN seen THEN seen[i].deaths ELSE Nobody
           day == [phases EXCEPT ![i].active = FALSE]
           round == phases[i].round + 1
<1>1. Ended(p) /\ UNCHANGED <<state, raced>>
  BY EndMoves DEF AdvanceToNight
<1>2. /\ day \in Seq(Phase) /\ Len(day) = n /\ DOMAIN day = 1..n
      /\ \A j \in DOMAIN phases :
            /\ day[j].round = phases[j].round /\ day[j].day = phases[j].day
            /\ day[j].deaths = phases[j].deaths
            /\ day[j].active <=> j # i /\ phases[j].active
  BY Deactivated DEF TypeOK
<1>3. round \in Nat \ {0}
  <2>1. phases[i] \in Phase
    BY ElementOfSeq DEF TypeOK
  <2> QED
    BY <2>1 DEF Phase
<1>4. deaths \in Marks
  <2>1. seen \in Seq(Phase)
    BY DEF TypeOK, Request
  <2>2. i \in DOMAIN seen => seen[i] \in Phase
    BY <2>1, ElementOfSeq
  <2> QED
    BY <2>2, NobodyIs DEF Phase
<1> DEFINE u == Pair(round, deaths)
<1>5. phases' = day \o u
  BY DEF AdvanceToNight
<1> HIDE DEF day, round, deaths
<1>6. /\ phases' \in Seq(Phase) /\ Len(phases') = n + 2
      /\ \A j \in 1..n : phases'[j] = day[j]
      /\ phases'[n + 1].round = round /\ ~phases'[n + 1].day /\ phases'[n + 1].active
      /\ phases'[n + 1].deaths = deaths
      /\ phases'[n + 2].round = round /\ phases'[n + 2].day /\ ~phases'[n + 2].active
      /\ phases'[n + 2].deaths = deaths
  <2>1. /\ u \in Seq(Phase) /\ Len(u) = 2
        /\ u[1].round = round /\ ~u[1].day /\ u[1].active /\ u[1].deaths = deaths
        /\ u[2].round = round /\ u[2].day /\ ~u[2].active /\ u[2].deaths = deaths
    BY <1>3, <1>4, PairIs
  <2> HIDE DEF u
  <2>2. /\ day \o u \in Seq(Phase) /\ Len(day \o u) = Len(day) + 2
        /\ \A j \in 1..Len(day) : (day \o u)[j] = day[j]
        /\ (day \o u)[Len(day) + 1] = u[1] /\ (day \o u)[Len(day) + 2] = u[2]
    BY <1>2, <2>1, RoundAdded
  <2> QED
    BY <1>2, <1>5, <2>1, <2>2
<1>7. \A j \in 1..n : j \in DOMAIN phases
  BY DEF TypeOK
<1> QED
  BY <1>1, <1>2, <1>6, <1>7 DEF round, deaths

LEMMA EndCommitMoves ==
    ASSUME TypeOK, NEW p \in Req, EndCommit(p)
    PROVE  /\ Ended(p) /\ raced' = raced /\ state' = "completed"
           /\ phases' \in Seq(Phase) /\ Len(phases') = Len(phases)
           /\ \A j \in DOMAIN phases :
                 /\ phases'[j].round = phases[j].round /\ phases'[j].day = phases[j].day
                 /\ phases'[j].deaths = phases[j].deaths
                 /\ phases'[j].active => phases[j].active
<1>1. Ended(p) /\ raced' = raced /\ state' = "completed"
  BY EndMoves DEF EndCommit
<1>2. phases' = [i \in DOMAIN phases |->
                   IF i \in req[p].set THEN [phases[i] EXCEPT !.active = FALSE] ELSE phases[i]]
  BY DEF EndCommit
<1>3. ASSUME NEW j \in DOMAIN phases
      PROVE  /\ phases'[j] \in Phase
             /\ phases'[j].round = phases[j].round /\ phases'[j].day = phases[j].day
             /\ phases'[j].deaths = phases[j].deaths
             /\ phases'[j].active => phases[j].active
  <2>1. phases[j] \in Phase
    BY ElementOfSeq DEF TypeOK
  <2>2. phases'[j] = IF j \in req[p].set THEN [phases[j] EXCEPT !.active = FALSE] ELSE phases[j]
    BY <1>2
  <2> QED
    BY <2>1, <2>2 DEF Phase
<1>4. phases' \in [DOMAIN phases -> Phase]
  BY <1>2, <1>3
<1> QED
  BY <1>1, <1>3, <1>4, Mapped DEF TypeOK

\* The writes about a role.
Rewrites(p) ==
    \E S, from : \E mark \in Mark :
        /\ req[p].role \in Role
        /\ phases' = Marked(req[p].role, S, from, mark)
        /\ \/ /\ req[p].at = "record" /\ S = PhasesFrom(req[p]) \ req[p].set
              /\ from = {"none"} /\ mark = "vote"
              /\ \A i \in S : phases[i].deaths[req[p].role] = "none"
           \/ req[p].at = "remove" /\ S = PhasesFrom(req[p]) /\ from = Mark /\ mark = "none"
           \/ req[p].at = "spend" /\ S = 1..req[p].count /\ from = {"vote"} /\ mark = "used"

LEMMA RoleMoves ==
    ASSUME TInv, NEW p \in Req, RecordCommit(p) \/ RemoveCommit(p) \/ VoteWrite(p)
    PROVE  Fail(p) \/ (Ended(p) /\ UNCHANGED <<state, raced>> /\ Rewrites(p))
<1> DEFINE r == req[p].role
<1>1. r \in Role
  BY DEF TInv, TypeOK, Request, Placed, RolePoint, RecordCommit, RemoveCommit, VoteWrite
<1>2. CASE RecordCommit(p)
  <2>1. CASE Fail(p)
    BY <2>1
  <2>2. CASE ~Fail(p)
    <3>1. Ended(p) /\ UNCHANGED <<state, raced>>
      BY <1>2, <2>2, EndMoves DEF RecordCommit, TInv
    <3> QED
      BY <1>1, <1>2, <2>2, <3>1 DEF RecordCommit, Rewrites, Mark
  <2> QED
    BY <2>1, <2>2
<1>3. CASE VoteWrite(p)
  <2>1. Ended(p) /\ UNCHANGED <<state, raced>>
    BY <1>3, EndMoves DEF VoteWrite, TInv
  <2> QED
    BY <1>1, <1>3, <2>1 DEF VoteWrite, Rewrites, Mark
<1>4. CASE RemoveCommit(p)
  <2>1. CASE Fail(p)
    BY <2>1
  <2>2. CASE ~Fail(p)
    <3>1. /\ UNCHANGED <<state, raced>>
          /\ req' = [o \in Req |->
                       IF o = p THEN Idle
                       ELSE IF /\ req[o].at \in {"find", "remove", "findVote"}
                               /\ req[o].role = r /\ req[o].phase \in PhasesFrom(req[p])
                            THEN [req[o] EXCEPT !.gone = TRUE] ELSE req[o]]
      BY <1>4, <2>2 DEF RemoveCommit
    <3>2. ASSUME NEW o \in Req
          PROVE  LET q == [req[o] EXCEPT !.gone = TRUE]
                 IN  /\ q \in Request /\ q.at = req[o].at /\ q.role = req[o].role
                     /\ q.propagate = req[o].propagate /\ q.phase = req[o].phase
                     /\ q.count = req[o].count /\ q.set = req[o].set /\ q.seen = req[o].seen
      BY DEF TInv, TypeOK, Request
    <3>3. \A o \in Req : req[o] \in Request
      BY DEF TInv, TypeOK
    <3>4. Ended(p)
      BY <3>1, <3>2, <3>3, IdleIs DEF Ended
    <3> QED
      BY <1>1, <1>4, <2>2, <3>1, <3>4 DEF RemoveCommit, Rewrites, Mark
  <2> QED
    BY <2>1, <2>2
<1> QED
  BY <1>2, <1>3, <1>4

LEMMA RewritesIs ==
    ASSUME TypeOK, NEW p \in Req, Rewrites(p)
    PROVE  /\ phases' \in Seq(Phase) /\ Len(phases') = Len(phases)
           /\ \A i \in DOMAIN phases :
                 /\ phases'[i].round = phases[i].round /\ phases'[i].day = phases[i].day
                 /\ phases'[i].active = phases[i].active
                 /\ \A x \in Role \ {req[p].role} : phases'[i].deaths[x] = phases[i].deaths[x]
  BY MarkedIs DEF Rewrites, TypeOK

-----------------------------------------------------------------------------
(* Types.                                                                  *)

LEMMA InitTyped == Init => TInv
<1> SUFFICES ASSUME Init PROVE TInv
  OBVIOUS
<1>1. phases = <<>> /\ phases \in Seq(Phase) /\ Len(phases) = 0
  BY DEF Init
<1> QED
  BY <1>1, IdleIs DEF Init, TInv, TypeOK, Placed, RolePoint

\* The phases only grow in number, so who knew of one still does.
LEMMA GrowsTyped ==
    ASSUME TInv, NEW p \in Req,
           state' \in {"setup", "in_progress", "completed"}, raced' \subseteq Role,
           phases' \in Seq(Phase), Len(phases') >= Len(phases), Ended(p)
    PROVE  TInv'
<1>1. TypeOK'
  BY DEF TInv, TypeOK, Ended
<1>2. \A o \in Req : req[o].phase \in Nat /\ req[o].count \in Nat /\ Len(phases) \in Nat
                     /\ Len(phases') \in Nat
  BY DEF TInv, TypeOK, Request
<1>3. \A o \in Req : Placed(req[o])'
  BY <1>2, IdleIs DEF TInv, Placed, Ended, RolePoint
<1> QED
  BY <1>1, <1>3 DEF TInv

LEMMA GoesTyped ==
    ASSUME TInv, NEW p \in Req, NEW q \in Request, Placed(q),
           req' = [req EXCEPT ![p] = q], UNCHANGED db, raced' \subseteq Role
    PROVE  TInv'
<1>1. TypeOK'
  BY DEF TInv, TypeOK, db
<1>2. \A o \in Req : Placed(req[o])'
  BY DEF TInv, TypeOK, Placed, db
<1> QED
  BY <1>1, <1>2 DEF TInv

\* Every step is one of these.
LEMMA Steps ==
    ASSUME TInv, [Next]_vars
    PROVE  \/ UNCHANGED vars
           \/ \E p \in Req :
                 \/ \E q : Begun(q) /\ Begin(p, q)
                 \/ \E q : Gone(p, q) /\ Goto(p, q)
                 \/ Fail(p)
                 \/ state = "setup" /\ StartCommit(p)
                 \/ AdvanceToDay(p) \/ AdvanceToNight(p) \/ EndCommit(p)
                 \/ Ended(p) /\ UNCHANGED <<state, raced>> /\ Rewrites(p)
<1> SUFFICES ASSUME NEW p \in Req, Handler(p) \/ Step(p) \/ Abort(p)
             PROVE  \/ \E q : Begun(q) /\ Begin(p, q)
                    \/ \E q : Gone(p, q) /\ Goto(p, q)
                    \/ Fail(p)
                    \/ state = "setup" /\ StartCommit(p)
                    \/ AdvanceToDay(p) \/ AdvanceToNight(p) \/ EndCommit(p)
                    \/ Ended(p) /\ UNCHANGED <<state, raced>> /\ Rewrites(p)
  BY DEF Next
<1>1. CASE Handler(p)
  BY <1>1, HandlerMoves DEF TInv
<1>2. CASE Reads(p)
  BY <1>2, ReadMoves DEF TInv
<1>3. CASE RecordCommit(p) \/ RemoveCommit(p) \/ VoteWrite(p)
  BY <1>3, RoleMoves
<1>4. CASE StartCommit(p)
  BY <1>4 DEF StartCommit
<1>5. CASE Abort(p)
  BY <1>5 DEF Abort
<1> QED
  BY <1>1, <1>2, <1>3, <1>4, <1>5 DEF Step, Reads

LEMMA StartMoves ==
    ASSUME TypeOK, NEW p \in Req, state = "setup", StartCommit(p)
    PROVE  /\ Ended(p) /\ raced' = raced /\ state' = "in_progress"
           /\ phases' = phases \o Pair(1, Nobody)
           /\ phases' \in Seq(Phase) /\ Len(phases') = Len(phases) + 2
<1> DEFINE u == Pair(1, Nobody)
<1>1. u \in Seq(Phase) /\ Len(u) = 2
  BY PairIs, NobodyIs
<1>2. Ended(p) /\ raced' = raced /\ state' = "in_progress" /\ phases' = phases \o u
  BY EndMoves DEF StartCommit
<1> HIDE DEF u
<1>3. phases \o u \in Seq(Phase) /\ Len(phases \o u) = Len(phases) + 2
  BY <1>1, RoundAdded DEF TypeOK
<1> QED
  BY <1>2, <1>3 DEF u

LEMMA StepTyped == TInv /\ [Next]_vars => TInv'
<1> SUFFICES ASSUME TInv, [Next]_vars PROVE TInv'
  OBVIOUS
<1>0. /\ state \in {"setup", "in_progress", "completed"} /\ raced \subseteq Role
      /\ Len(phases) \in Nat /\ DOMAIN phases = 1..Len(phases)
      /\ \A p \in Req : req[p] \in Request
  BY DEF TInv, TypeOK
<1>1. CASE UNCHANGED vars
  BY <1>1 DEF vars, TInv, TypeOK, Placed
<1>2. ASSUME NEW p \in Req, NEW q, Begun(q), Begin(p, q) PROVE TInv'
  <2>1. q \in Request /\ Placed(q)
    BY <1>0, <1>2, RoleAssumption DEF Begun, Placed, RolePoint
  <2>2. Races(q) \subseteq Role
    BY <1>0, <2>1 DEF Races, Request
  <2> QED
    BY <1>0, <1>2, <2>1, <2>2, GoesTyped DEF Begin
<1>3. ASSUME NEW p \in Req, NEW q, Gone(p, q), Goto(p, q) PROVE TInv'
  <2>1. Placed(req[p]) /\ req[p] \in Request
    BY <1>0 DEF TInv
  <2>2. Placed(q)
    BY <1>0, <1>3, <2>1 DEF Gone, Placed, RolePoint
  <2> QED
    BY <1>0, <1>3, <2>2, GoesTyped DEF Gone, Goto
<1>4. ASSUME NEW p \in Req, Fail(p) PROVE TInv'
  <2>1. Ended(p) /\ raced' = raced /\ phases' = phases /\ state' = state
    BY <1>4, EndMoves DEF Fail, TInv, db
  <2> QED
    BY <1>0, <2>1, GrowsTyped DEF TInv, TypeOK
<1>5. ASSUME NEW p \in Req, state = "setup", StartCommit(p) PROVE TInv'
  <2>1. TypeOK
    BY DEF TInv
  <2> QED
    BY <1>0, <1>5, <2>1, StartMoves, GrowsTyped
<1>6. ASSUME NEW p \in Req, AdvanceToDay(p) PROVE TInv'
  <2>0. req[p].at = "night"
    BY <1>6 DEF AdvanceToDay
  <2>1. TypeOK /\ req[p].phase \in DOMAIN phases
    BY <1>0, <2>0 DEF TInv, Placed, Request
  <2>2. Ended(p) /\ UNCHANGED <<state, raced>> /\ phases' \in Seq(Phase) /\ Len(phases') >= Len(phases)
    BY <1>0, <1>6, <2>1, ToDayMoves
  <2> QED
    BY <1>0, <2>2, GrowsTyped
<1>7. ASSUME NEW p \in Req, AdvanceToNight(p) PROVE TInv'
  <2>0. req[p].at = "day"
    BY <1>7 DEF AdvanceToNight
  <2>1. TypeOK /\ req[p].phase \in DOMAIN phases
    BY <1>0, <2>0 DEF TInv, Placed, Request
  <2>2. Ended(p) /\ UNCHANGED <<state, raced>> /\ phases' \in Seq(Phase) /\ Len(phases') >= Len(phases)
    BY <1>0, <1>7, <2>1, ToNightMoves
  <2> QED
    BY <1>0, <2>2, GrowsTyped
<1>8. ASSUME NEW p \in Req, EndCommit(p) PROVE TInv'
  BY <1>0, <1>8, EndCommitMoves, GrowsTyped DEF TInv
<1>9. ASSUME NEW p \in Req, Ended(p), UNCHANGED <<state, raced>>, Rewrites(p) PROVE TInv'
  BY <1>0, <1>9, RewritesIs, GrowsTyped DEF TInv
<1> QED
  BY <1>1, <1>2, <1>3, <1>4, <1>5, <1>6, <1>7, <1>8, <1>9, Steps

\* The game, its phases and the requests are well typed, however requests overlap.
THEOREM TypeCorrect == Spec => []TypeOK
<1>1. TInv => TypeOK
  BY DEF TInv
<1> QED
  BY InitTyped, StepTyped, <1>1, PTL DEF Spec

-----------------------------------------------------------------------------
(* One advance at a time.                                                  *)

\* Night i and day i + 1 are of one round, and the last phase is a day.
Alternate ==
    /\ \A i \in DOMAIN phases : 2 * phases[i].round = IF phases[i].day THEN i ELSE i + 1
    /\ phases # <<>> => phases[Len(phases)].day

\* At most one phase is active, of the last round, and a running game has one.
ActiveLast ==
    /\ \A i, j \in Active : i = j
    /\ \A i \in Active : i >= Len(phases) - 1
    /\ state = "in_progress" => Active # {}

\* Requests that only a game that has started meets.
Underway(q) == Advancing(q) \/ q.role # NoRole \/ q.at \in {"end", "ending"}

\* Phases, and requests that need them, come with the start of the game.
Started ==
    /\ state = "setup" => phases = <<>>
    /\ \A p \in Req : Underway(req[p]) => state # "setup"

\* A role of which requests overlapped with each other or an advance has raced.
Apart ==
    \A p, o \in Req : p # o =>
        /\ Advancing(req[p]) =>
              ~Advancing(req[o]) /\ (req[o].role # NoRole => req[o].role \in raced)
        /\ req[p].role = req[o].role /\ req[p].role # NoRole => req[p].role \in raced

\* What an advance has read is so still, but for what has raced.
Knows(q) ==
    q.at \in {"active", "night", "day"} =>
        /\ Len(q.seen) = Len(phases)
        /\ \A i \in DOMAIN phases :
              /\ q.seen[i].round = phases[i].round /\ q.seen[i].day = phases[i].day
              /\ \A r \in Role \ raced : q.seen[i].deaths[r] = phases[i].deaths[r]

\* An advance has found the active phase, and no other has become active.
Stands(q) ==
    q.at \in {"night", "day"} =>
        /\ Active \subseteq {q.phase} /\ q.phase >= Len(phases) - 1
        /\ phases[q.phase].day <=> q.at = "day"

\* What a request has read about a role that has not raced is so still.
Fresh(q) ==
    q.role # NoRole /\ q.role \notin raced =>
        /\ q.count = Len(phases)
        /\ q.at \in {"whereabouts", "record"} =>
              q.set = {j \in DOMAIN phases : phases[j].deaths[q.role] # "none"}

IInv ==
    /\ TInv /\ Alternate /\ ActiveLast /\ Started /\ Apart
    /\ \A p \in Req : Knows(req[p]) /\ Stands(req[p]) /\ Fresh(req[p])

LEMMA InitIInv == Init => IInv
<1> SUFFICES ASSUME Init PROVE IInv
  OBVIOUS
<1>1. phases = <<>> /\ Len(phases) = 0 /\ DOMAIN phases = {} /\ Active = {}
  BY DEF Init, Active
<1>2. \A p \in Req : req[p] = Idle
  BY DEF Init
<1>3. Alternate /\ ActiveLast
  BY <1>1 DEF Init, Alternate, ActiveLast
<1>4. Started /\ Apart
  BY <1>1, <1>2, IdleIs DEF Started, Apart, Advancing, Underway
<1>5. \A p \in Req : Knows(req[p]) /\ Stands(req[p]) /\ Fresh(req[p])
  BY <1>2, IdleIs DEF Knows, Stands, Fresh
<1> QED
  BY <1>3, <1>4, <1>5, InitTyped DEF IInv

\* The types of what the steps compare.
LEMMA Basics ==
    ASSUME TypeOK
    PROVE  /\ Len(phases) \in Nat /\ DOMAIN phases = 1..Len(phases)
           /\ \A i \in DOMAIN phases : phases[i].round \in Nat \ {0} /\ phases[i].day \in BOOLEAN
           /\ Active \subseteq DOMAIN phases
           /\ \A p \in Req : req[p] \in Request /\ req[p].phase \in Nat /\ req[p].count \in Nat
<1>1. Len(phases) \in Nat /\ DOMAIN phases = 1..Len(phases)
  BY DEF TypeOK
<1>2. \A i \in DOMAIN phases : phases[i] \in Phase
  BY ElementOfSeq DEF TypeOK
<1> QED
  BY <1>1, <1>2 DEF TypeOK, Phase, Request, Active

LEMMA Ending ==
    ASSUME IInv, NEW p \in Req, Ended(p), raced' = raced,
           state = "setup" \/ state' # "setup"
    PROVE  /\ Apart'
           /\ \A o \in Req : Underway(req'[o]) => state' # "setup"
  BY IdleIs DEF IInv, Started, Apart, Ended, Advancing, Underway

\* Steps that keep the rounds, and of the roles touch at most the request's own.
LEMMA SameRounds ==
    ASSUME IInv, TInv', NEW p \in Req, Ended(p), raced' = raced,
           Len(phases') = Len(phases), Active' \subseteq Active,
           \A i \in DOMAIN phases :
              /\ phases'[i].round = phases[i].round /\ phases'[i].day = phases[i].day
              /\ \A r \in Role \ {req[p].role} : phases'[i].deaths[r] = phases[i].deaths[r],
           state' = "in_progress" => state = "in_progress" /\ Active' = Active,
           state' = "setup" => state = "setup" /\ phases' = phases,
           state = "setup" => state' = "setup"
    PROVE  IInv'
<1>0. /\ Len(phases) \in Nat /\ DOMAIN phases = 1..Len(phases) /\ DOMAIN phases' = DOMAIN phases
      /\ \A o \in Req : req[o] \in Request /\ req[o].phase \in Nat
      /\ phases = <<>> <=> Len(phases) = 0
      /\ phases' = <<>> <=> Len(phases) = 0
  BY Basics DEF IInv, TInv, TypeOK
<1>1. Alternate'
  BY <1>0 DEF IInv, Alternate
<1>2. ActiveLast'
  BY <1>0 DEF IInv, ActiveLast
<1>3. Apart' /\ Started'
  BY Ending DEF IInv, Started
<1>4. ASSUME NEW o \in Req PROVE Knows(req[o])' /\ Stands(req[o])' /\ Fresh(req[o])'
  <2>1. CASE o = p
    BY <2>1, IdleIs DEF Ended, Knows, Stands, Fresh
  <2>2. CASE o # p
    <3>1. /\ req'[o].at = req[o].at /\ req'[o].role = req[o].role /\ req'[o].count = req[o].count
          /\ req'[o].phase = req[o].phase /\ req'[o].set = req[o].set /\ req'[o].seen = req[o].seen
      BY <2>2 DEF Ended
    <3>2. Knows(req[o]) /\ Stands(req[o]) /\ Fresh(req[o])
      BY DEF IInv
    <3>3. Knows(req[o])'
      <4>1. Advancing(req[o]) => req[p].role \notin Role \ raced
        BY <2>2, RoleAssumption DEF IInv, Apart
      <4> QED
        BY <1>0, <3>1, <3>2, <4>1 DEF Knows, Advancing
    <3>4. Stands(req[o])'
      <4>1. req[o].at \in {"night", "day"} => req[o].phase \in DOMAIN phases
        BY <1>0 DEF IInv, TInv, Placed
      <4> QED
        BY <1>0, <3>1, <3>2, <4>1 DEF Stands
    <3>5. Fresh(req[o])'
      <4>1. req[o].role # NoRole /\ req[o].role \notin raced => req[o].role \in Role \ {req[p].role}
        BY <1>0, <2>2 DEF IInv, Apart, Request
      <4> QED
        BY <1>0, <3>1, <3>2, <4>1 DEF Fresh
    <3> QED
      BY <3>3, <3>4, <3>5
  <2> QED
    BY <2>1, <2>2
<1> QED
  BY <1>1, <1>2, <1>3, <1>4 DEF IInv

LEMMA BeginKeeps ==
    ASSUME ~Overlapping, IInv, TInv', NEW p \in Req, NEW q, Begun(q), Begin(p, q)
    PROVE  IInv'
<1>0. /\ phases' = phases /\ state' = state /\ Active' = Active
      /\ raced \subseteq raced' /\ Races(q) \subseteq raced'
      /\ req'[p] = q /\ \A o \in Req \ {p} : req'[o] = req[o]
  BY DEF Begin, db, Active, IInv, TInv, TypeOK
<1>1. Alternate' /\ ActiveLast'
  BY <1>0 DEF IInv, Alternate, ActiveLast
<1>2. Started'
  BY <1>0 DEF IInv, Started, Begun, Advancing, Underway
<1>3. Apart'
  <2>1. ASSUME NEW o \in Req \ {p}
        PROVE  /\ ~(Advancing(q) /\ Advancing(req[o]))
               /\ Advancing(q) /\ req[o].role # NoRole => req[o].role \in raced'
               /\ Advancing(req[o]) /\ q.role # NoRole => q.role \in raced'
               /\ req[o].role = q.role /\ q.role # NoRole => q.role \in raced'
    BY <1>0 DEF Begun, Races, Advancing
  <2> QED
    BY <1>0, <2>1 DEF IInv, Apart
<1>4. ASSUME NEW o \in Req PROVE Knows(req[o])' /\ Stands(req[o])' /\ Fresh(req[o])'
  <2>1. CASE o = p
    <3>1. q.at \notin {"active", "night", "day"}
      BY DEF Begun
    <3>2. q.role # NoRole =>
            /\ q.count = Len(phases)
            /\ q.at \in {"whereabouts", "record"} =>
                  q.set = {j \in DOMAIN phases : phases[j].deaths[q.role] # "none"}
      BY DEF Begun
    <3> QED
      BY <1>0, <2>1, <3>1, <3>2 DEF Knows, Stands, Fresh
  <2>2. CASE o # p
    BY <1>0, <2>2 DEF IInv, Knows, Stands, Fresh
  <2> QED
    BY <2>1, <2>2
<1> QED
  BY <1>1, <1>2, <1>3, <1>4 DEF IInv

LEMMA GoKeeps ==
    ASSUME IInv, TInv', NEW p \in Req, NEW q, Gone(p, q), Goto(p, q)
    PROVE  IInv'
<1>0. /\ phases' = phases /\ state' = state /\ Active' = Active /\ raced' = raced
      /\ req'[p] = q /\ \A o \in Req \ {p} : req'[o] = req[o]
      /\ q.role = req[p].role
      /\ Advancing(q) <=> Advancing(req[p])
      /\ Underway(q) <=> Underway(req[p])
  BY DEF Goto, Gone, Advancing, Underway, db, Active, IInv, TInv, TypeOK
<1>1. Alternate' /\ ActiveLast'
  BY <1>0 DEF IInv, Alternate, ActiveLast
<1>2. Started'
  BY <1>0 DEF IInv, Started
<1>3. Apart'
  BY <1>0 DEF IInv, Apart
<1>4. ASSUME NEW o \in Req PROVE Knows(req[o])' /\ Stands(req[o])' /\ Fresh(req[o])'
  <2>1. CASE o = p
    <3>1. Knows(q)
      BY DEF Gone, Knows, IInv
    <3>2. Stands(q)
      <4> SUFFICES ASSUME q.at \in {"night", "day"} PROVE Stands(q)
        BY DEF Stands
      <4>1. /\ q.phase \in DOMAIN phases /\ Active = {q.phase}
            /\ q.at = IF phases[q.phase].day THEN "day" ELSE "night"
        BY DEF Gone
      <4> QED
        BY <4>1 DEF Stands, IInv, ActiveLast
    <3>3. Fresh(q)
      <4>1. /\ q.count = req[p].count
            /\ q.at \in {"whereabouts", "record"} => req[p].at = "whereabouts" /\ q.set = req[p].set
        BY DEF Gone
      <4> QED
        BY <1>0, <4>1 DEF Fresh, IInv
    <3> QED
      BY <1>0, <2>1, <3>1, <3>2, <3>3 DEF Knows, Stands, Fresh
  <2>2. CASE o # p
    BY <1>0, <2>2 DEF IInv, Knows, Stands, Fresh
  <2> QED
    BY <2>1, <2>2
<1> QED
  BY <1>1, <1>2, <1>3, <1>4 DEF IInv

\* Whoever advances does so alone, and about roles that have all raced.
LEMMA AdvanceAlone ==
    ASSUME IInv, NEW p \in Req, Advancing(req[p]), Ended(p), raced' = raced, state' = state
    PROVE  /\ state # "setup" /\ Apart' /\ Started'
           /\ \A o \in Req : Knows(req[o])' /\ Stands(req[o])' /\ Fresh(req[o])'
<1>1. state # "setup"
  BY DEF IInv, Started, Underway
<1>2. Apart' /\ Started'
  BY <1>1, Ending DEF Started
<1>3. ASSUME NEW o \in Req \ {p}
      PROVE  /\ req'[o].at = req[o].at /\ req'[o].role = req[o].role /\ ~Advancing(req[o])
             /\ req[o].role # NoRole => req[o].role \in raced
  BY DEF IInv, Apart, Ended
<1>4. \A o \in Req \ {p} : Knows(req[o])' /\ Stands(req[o])' /\ Fresh(req[o])'
  BY <1>3 DEF Knows, Stands, Fresh, Advancing
<1>5. Knows(req[p])' /\ Stands(req[p])' /\ Fresh(req[p])'
  BY IdleIs DEF Ended, Knows, Stands, Fresh
<1> QED
  BY <1>1, <1>2, <1>4, <1>5

\* The night that ends is the last one, and its day is there.
LEMMA ToDayIs ==
    ASSUME IInv, NEW p \in Req, AdvanceToDay(p)
    PROVE  LET i == req[p].phase
           IN  /\ i \in DOMAIN phases /\ i + 1 = Len(phases) /\ Active \subseteq {i}
               /\ ~phases[i].day /\ phases[i + 1].day /\ phases[i + 1].round = phases[i].round
               /\ Ended(p) /\ UNCHANGED <<state, raced>>
               /\ Len(phases') = Len(phases)
               /\ \A j \in DOMAIN phases :
                     /\ phases'[j].round = phases[j].round /\ phases'[j].day = phases[j].day
                     /\ phases'[j].deaths = phases[j].deaths
               /\ Active' = {i + 1}
<1> DEFINE i == req[p].phase
           n == Len(phases)
           D == Companion(req[p].seen, phases[i].round)
<1>1. req[p].at = "night"
  BY DEF AdvanceToDay
<1>2. n \in Nat /\ DOMAIN phases = 1..n /\ i \in Nat /\ i \in DOMAIN phases /\ phases # <<>>
  BY <1>1, Basics DEF IInv, TInv, Placed
<1>3. /\ \A j \in DOMAIN phases :
           /\ phases[j].round \in Nat /\ phases[j].day \in BOOLEAN
           /\ 2 * phases[j].round = IF phases[j].day THEN j ELSE j + 1
      /\ phases[n].day
  BY <1>2, Basics DEF IInv, TInv, Alternate
<1>4. Active \subseteq {i} /\ i >= n - 1 /\ ~phases[i].day
  BY <1>1 DEF IInv, Stands
<1>5. i + 1 = n /\ phases[i + 1].day /\ phases[i + 1].round = phases[i].round
  <2>1. i # n
    BY <1>3, <1>4
  <2>2. i + 1 = n
    BY <1>2, <1>4, <2>1
  <2>3. 2 * phases[i].round = i + 1 /\ 2 * phases[n].round = n
    BY <1>2, <1>3, <1>4
  <2>4. phases[i].round \in Nat /\ phases[n].round \in Nat
    BY <1>2, <1>3
  <2>5. phases[n].round = phases[i].round
    BY <2>2, <2>3, <2>4, Halves
  <2> QED
    BY <1>3, <2>2, <2>5
<1>6. /\ req[p].seen \in Seq(Phase) /\ Len(req[p].seen) = n
      /\ \A j \in 1..n : /\ req[p].seen[j].round = phases[j].round
                         /\ req[p].seen[j].day = phases[j].day
  BY <1>1, <1>2 DEF IInv, Knows, TInv, TypeOK, Request
<1>7. D = {i + 1}
  <2>1. DOMAIN req[p].seen = 1..n
    BY <1>6
  <2>2. \A j \in 1..n : req[p].seen[j].day /\ req[p].seen[j].round = phases[i].round => j = i + 1
    <3> SUFFICES ASSUME NEW j \in 1..n, req[p].seen[j].day,
                        req[p].seen[j].round = phases[i].round
                 PROVE  j = i + 1
      OBVIOUS
    <3>1. phases[j].day /\ phases[j].round = phases[i].round
      BY <1>6
    <3>2. 2 * phases[j].round = j /\ 2 * phases[i].round = i + 1
      BY <1>2, <1>3, <1>4, <3>1
    <3> QED
      BY <3>1, <3>2
  <2>3. i + 1 \in 1..n /\ req[p].seen[i + 1].day /\ req[p].seen[i + 1].round = phases[i].round
    BY <1>2, <1>5, <1>6
  <2>4. {j \in DOMAIN req[p].seen : req[p].seen[j].day /\ req[p].seen[j].round = phases[i].round}
            = {i + 1}
    BY <2>1, <2>2, <2>3
  <2> QED
    BY <1>2, <2>4 DEF Companion
<1>8. /\ Ended(p) /\ UNCHANGED <<state, raced>>
      /\ phases' \in Seq(Phase) /\ Len(phases') = n
      /\ \A j \in DOMAIN phases :
            /\ phases'[j].round = phases[j].round /\ phases'[j].day = phases[j].day
            /\ phases'[j].deaths = phases[j].deaths
            /\ phases'[j].active <=> j \in D \/ (j # i /\ phases[j].active)
  BY <1>2, <1>7, ToDayMoves DEF IInv, TInv
<1>9. Active' = {i + 1}
  <2>1. DOMAIN phases' = DOMAIN phases /\ i + 1 \in DOMAIN phases
    BY <1>2, <1>5, <1>8
  <2>2. \A j \in DOMAIN phases : phases'[j].active <=> j = i + 1
    BY <1>4, <1>7, <1>8 DEF Active
  <2> QED
    BY <2>1, <2>2 DEF Active
<1> QED
  BY <1>2, <1>4, <1>5, <1>8, <1>9

LEMMA ToDayKeeps ==
    ASSUME IInv, TInv', NEW p \in Req, AdvanceToDay(p)
    PROVE  IInv'
<1> DEFINE i == req[p].phase
           n == Len(phases)
<1>1. /\ i \in DOMAIN phases /\ i + 1 = n /\ Ended(p) /\ UNCHANGED <<state, raced>>
      /\ Len(phases') = n /\ Active' = {i + 1}
      /\ \A j \in DOMAIN phases :
            phases'[j].round = phases[j].round /\ phases'[j].day = phases[j].day
  BY ToDayIs
<1>2. n \in Nat /\ DOMAIN phases = 1..n /\ DOMAIN phases' = 1..n /\ phases # <<>>
  BY <1>1, Basics DEF IInv, TInv, TypeOK
<1>3. Alternate'
  BY <1>1, <1>2 DEF IInv, Alternate
<1>4. ActiveLast'
  BY <1>1, <1>2 DEF ActiveLast
<1>5. Advancing(req[p])
  BY DEF AdvanceToDay, Advancing
<1> QED
  BY <1>1, <1>3, <1>4, <1>5, AdvanceAlone DEF IInv

\* The day that ends is the last phase, and a round is added to it.
LEMMA ToNightIs ==
    ASSUME IInv, NEW p \in Req, AdvanceToNight(p)
    PROVE  LET i == req[p].phase
               n == Len(phases)
           IN  /\ i = n /\ n \in Nat \ {0} /\ Active \subseteq {n} /\ phases[n].day
               /\ Ended(p) /\ UNCHANGED <<state, raced>>
               /\ phases' \in Seq(Phase) /\ Len(phases') = n + 2
               /\ \A j \in 1..n :
                     /\ phases'[j].round = phases[j].round /\ phases'[j].day = phases[j].day
                     /\ phases'[j].deaths = phases[j].deaths
               /\ \A j \in {n + 1, n + 2} :
                     /\ phases'[j].round = phases[n].round + 1 /\ (phases'[j].day <=> j = n + 2)
                     /\ \A r \in Role \ raced : phases'[j].deaths[r] = phases[n].deaths[r]
               /\ Active' = {n + 1}
<1> DEFINE i == req[p].phase
           n == Len(phases)
           deaths == IF i \in DOMAIN req[p].seen THEN req[p].seen[i].deaths ELSE Nobody
<1>1. req[p].at = "day"
  BY DEF AdvanceToNight
<1>2. n \in Nat /\ DOMAIN phases = 1..n /\ i \in Nat /\ i \in DOMAIN phases /\ n # 0
  BY <1>1, Basics DEF IInv, TInv, Placed
<1>3. Active \subseteq {i} /\ i >= n - 1 /\ phases[i].day
  BY <1>1 DEF IInv, Stands
<1>4. i = n
  <2>1. /\ 2 * phases[i].round = i /\ phases[i].round \in Nat
        /\ phases[n].day /\ 2 * phases[n].round = n /\ phases[n].round \in Nat
    BY <1>2, <1>3, Basics DEF IInv, TInv, Alternate
  <2>2. i # n - 1
    BY <2>1, Halves
  <2>3. i <= n
    BY <1>2
  <2> QED
    BY <1>2, <1>3, <2>2, <2>3
<1>5. /\ req[p].seen \in Seq(Phase) /\ Len(req[p].seen) = n
      /\ \A r \in Role \ raced : req[p].seen[n].deaths[r] = phases[n].deaths[r]
  BY <1>1, <1>2, <1>4 DEF IInv, Knows, TInv, TypeOK, Request
<1>6. deaths = req[p].seen[n].deaths
  BY <1>2, <1>4, <1>5
<1>7. /\ Ended(p) /\ UNCHANGED <<state, raced>>
      /\ phases' \in Seq(Phase) /\ Len(phases') = n + 2
      /\ \A j \in 1..n :
            /\ phases'[j].round = phases[j].round /\ phases'[j].day = phases[j].day
            /\ phases'[j].deaths = phases[j].deaths
            /\ phases'[j].active <=> j # i /\ phases[j].active
      /\ phases'[n + 1].round = phases[i].round + 1 /\ ~phases'[n + 1].day
      /\ phases'[n + 1].active /\ phases'[n + 1].deaths = deaths
      /\ phases'[n + 2].round = phases[i].round + 1 /\ phases'[n + 2].day
      /\ ~phases'[n + 2].active /\ phases'[n + 2].deaths = deaths
  BY <1>2, ToNightMoves DEF IInv, TInv
<1> HIDE DEF deaths
<1>8. Active' = {n + 1}
  <2>1. DOMAIN phases' = 1..n + 2 /\ n + 1 \in 1..n + 2
    BY <1>2, <1>7
  <2>2. \A j \in 1..n : ~phases'[j].active
    BY <1>2, <1>3, <1>4, <1>7 DEF Active
  <2>3. \A j \in 1..n + 2 : phases'[j].active <=> j = n + 1
    BY <1>2, <1>7, <2>2
  <2> QED
    BY <2>1, <2>3 DEF Active
<1>9. ASSUME NEW j \in {n + 1, n + 2}
      PROVE  /\ phases'[j].round = phases[n].round + 1 /\ (phases'[j].day <=> j = n + 2)
             /\ \A r \in Role \ raced : phases'[j].deaths[r] = phases[n].deaths[r]
  <2>1. n + 1 # n + 2
    BY <1>2
  <2>2. phases'[j].deaths = deaths
    BY <1>7
  <2>3. phases'[j].round = phases[n].round + 1 /\ (phases'[j].day <=> j = n + 2)
    BY <1>4, <1>7, <2>1
  <2> QED
    BY <1>5, <1>6, <2>2, <2>3
<1>10. \A j \in 1..n : /\ phases'[j].round = phases[j].round /\ phases'[j].day = phases[j].day
                      /\ phases'[j].deaths = phases[j].deaths
  BY <1>7
<1>11. Ended(p) /\ UNCHANGED <<state, raced>> /\ phases' \in Seq(Phase) /\ Len(phases') = n + 2
  BY <1>7
<1>12. i = n /\ n \in Nat \ {0} /\ Active \subseteq {n} /\ phases[n].day
  BY <1>2, <1>3, <1>4
<1> HIDE DEF n, i
<1> QED
  BY <1>8, <1>9, <1>10, <1>11, <1>12 DEF n, i

LEMMA ToNightKeeps ==
    ASSUME IInv, TInv', NEW p \in Req, AdvanceToNight(p)
    PROVE  IInv'
<1> DEFINE n == Len(phases)
<1>1. /\ n \in Nat \ {0} /\ phases[n].day /\ Ended(p) /\ UNCHANGED <<state, raced>>
      /\ phases' \in Seq(Phase) /\ Len(phases') = n + 2 /\ Active' = {n + 1}
      /\ \A j \in 1..n : phases'[j].round = phases[j].round /\ phases'[j].day = phases[j].day
      /\ \A j \in {n + 1, n + 2} :
            phases'[j].round = phases[n].round + 1 /\ (phases'[j].day <=> j = n + 2)
  BY ToNightIs
<1>2. DOMAIN phases = 1..n /\ DOMAIN phases' = 1..n + 2 /\ phases' # <<>>
  BY <1>1, Basics DEF IInv, TInv, TypeOK
<1>3. Alternate'
  <2>0. \A j \in 1..n : 2 * phases[j].round = IF phases[j].day THEN j ELSE j + 1
    BY <1>1, <1>2 DEF IInv, Alternate
  <2>1. 2 * phases[n].round = n /\ phases[n].round \in Nat /\ n \in Nat
    BY <1>1, <1>2, <2>0, Basics DEF IInv, TInv
  <2>2. \A j \in 1..n : 2 * phases'[j].round = IF phases'[j].day THEN j ELSE j + 1
    BY <1>1, <2>0
  <2>3. ASSUME NEW j \in {n + 1, n + 2}
        PROVE  2 * phases'[j].round = IF phases'[j].day THEN j ELSE j + 1
    <3>1. phases'[j].round = phases[n].round + 1 /\ (phases'[j].day <=> j = n + 2)
      BY <1>1
    <3>2. 2 * phases'[j].round = n + 2
      BY <2>1, <3>1
    <3> QED
      BY <2>1, <3>1, <3>2
  <2>4. \A j \in DOMAIN phases' : j \in 1..n \/ j \in {n + 1, n + 2}
    BY <1>1, <1>2
  <2>5. phases'[Len(phases')].day
    BY <1>1
  <2> QED
    BY <2>2, <2>3, <2>4, <2>5 DEF Alternate
<1>4. ActiveLast'
  BY <1>1, <1>2 DEF ActiveLast
<1>5. Advancing(req[p])
  BY DEF AdvanceToNight, Advancing
<1> QED
  BY <1>1, <1>3, <1>4, <1>5, AdvanceAlone DEF IInv

\* The game starts with the night and the day of round one.
LEMMA StartIs ==
    ASSUME IInv, NEW p \in Req, state = "setup", StartCommit(p)
    PROVE  /\ Ended(p) /\ raced' = raced /\ state' = "in_progress"
           /\ phases = <<>> /\ Len(phases') = 2 /\ DOMAIN phases' = 1..2
           /\ \A j \in 1..2 :
                 /\ phases'[j].round = 1 /\ (phases'[j].day <=> j = 2)
                 /\ phases'[j].active <=> j = 1
                 /\ phases'[j].deaths = Nobody
<1> DEFINE u == Pair(1, Nobody)
<1>1. /\ u \in Seq(Phase) /\ Len(u) = 2
      /\ u[1].round = 1 /\ ~u[1].day /\ u[1].active /\ u[1].deaths = Nobody
      /\ u[2].round = 1 /\ u[2].day /\ ~u[2].active /\ u[2].deaths = Nobody
  BY PairIs, NobodyIs
<1>2. phases = <<>>
  BY DEF IInv, Started
<1>3. Ended(p) /\ raced' = raced /\ state' = "in_progress" /\ phases' = <<>> \o u
  BY <1>2, StartMoves DEF IInv, TInv
<1> HIDE DEF u
<1>4. phases' = u /\ DOMAIN u = 1..2
  BY <1>1, <1>3
<1> QED
  BY <1>1, <1>2, <1>3, <1>4

LEMMA StartKeeps ==
    ASSUME IInv, TInv', NEW p \in Req, state = "setup", StartCommit(p)
    PROVE  IInv'
<1>1. /\ Ended(p) /\ raced' = raced /\ state' = "in_progress"
      /\ Len(phases') = 2 /\ DOMAIN phases' = 1..2
      /\ \A j \in 1..2 :
            /\ phases'[j].round = 1 /\ (phases'[j].day <=> j = 2)
            /\ phases'[j].active <=> j = 1
  BY StartIs
<1>2. Alternate'
  BY <1>1 DEF Alternate
<1>3. Active' = {1}
  BY <1>1 DEF Active
<1>4. ActiveLast'
  BY <1>1, <1>3 DEF ActiveLast
<1>5. Apart' /\ Started'
  BY <1>1, Ending DEF Started
<1>6. \A o \in Req : ~Advancing(req'[o]) /\ req'[o].role = NoRole
  BY <1>1, IdleIs DEF IInv, Started, Ended, Advancing, Underway
<1>7. \A o \in Req : Knows(req[o])' /\ Stands(req[o])' /\ Fresh(req[o])'
  BY <1>6 DEF Knows, Stands, Fresh, Advancing
<1> QED
  BY <1>2, <1>4, <1>5, <1>7 DEF IInv

LEMMA Inductive == ~Overlapping /\ IInv /\ [Next]_vars => IInv'
<1> SUFFICES ASSUME ~Overlapping, IInv, [Next]_vars PROVE IInv'
  OBVIOUS
<1>0. TInv /\ TInv' /\ TypeOK /\ Active \subseteq DOMAIN phases
  BY StepTyped, Basics DEF IInv, TInv
<1>1. CASE UNCHANGED vars
  BY <1>1, <1>0 DEF vars, IInv, Alternate, ActiveLast, Active, Started, Apart, Knows, Stands, Fresh
<1>2. ASSUME NEW p \in Req, Fail(p) PROVE IInv'
  <2>1. /\ Ended(p) /\ raced' = raced /\ phases' = phases /\ state' = state
        /\ Active' = Active
    BY <1>0, <1>2, EndMoves DEF Fail, db, Active
  <2> QED
    BY <1>0, <2>1, SameRounds
<1>3. ASSUME NEW p \in Req, EndCommit(p) PROVE IInv'
  <2>1. /\ Ended(p) /\ raced' = raced /\ state' = "completed"
        /\ phases' \in Seq(Phase) /\ Len(phases') = Len(phases)
        /\ \A j \in DOMAIN phases :
              /\ phases'[j].round = phases[j].round /\ phases'[j].day = phases[j].day
              /\ phases'[j].deaths = phases[j].deaths
              /\ phases'[j].active => phases[j].active
    BY <1>0, <1>3, EndCommitMoves
  <2>2. Active' \subseteq Active
    BY <1>0, <2>1 DEF Active, TypeOK
  <2>3. state # "setup"
    BY <1>3 DEF EndCommit, IInv, Started, Underway
  <2> QED
    BY <1>0, <2>1, <2>2, <2>3, SameRounds
<1>4. ASSUME NEW p \in Req, Ended(p), UNCHANGED <<state, raced>>, Rewrites(p) PROVE IInv'
  <2>1. /\ phases' \in Seq(Phase) /\ Len(phases') = Len(phases)
        /\ \A i \in DOMAIN phases :
              /\ phases'[i].round = phases[i].round /\ phases'[i].day = phases[i].day
              /\ phases'[i].active = phases[i].active
              /\ \A x \in Role \ {req[p].role} : phases'[i].deaths[x] = phases[i].deaths[x]
    BY <1>0, <1>4, RewritesIs
  <2>2. Active' = Active
    BY <1>0, <2>1 DEF Active, TypeOK
  <2>3. state # "setup"
    BY <1>4, RoleAssumption DEF Rewrites, IInv, Started, Underway
  <2> QED
    BY <1>0, <1>4, <2>1, <2>2, <2>3, SameRounds
<1> QED
  BY <1>0, <1>1, <1>2, <1>3, <1>4, Steps, BeginKeeps, GoKeeps, StartKeeps, ToDayKeeps, ToNightKeeps

\* While requests to advance do not overlap, the invariant holds throughout.
LEMMA Invariant == ASSUME ~Overlapping PROVE Spec => []IInv
<1>1. IInv /\ [Next]_vars => IInv'
  BY Inductive
<1> QED
  BY InitIInv, <1>1, PTL DEF Spec

\* A running game has one active phase, while no two requests advance it at once.
THEOREM OnePhaseIsActive == ASSUME ~Overlapping PROVE Spec => []OneActivePhase
<1>1. ASSUME IInv PROVE OneActivePhase
  <2> SUFFICES ASSUME state = "in_progress" PROVE Cardinality(Active) = 1
    BY DEF OneActivePhase
  <2>1. PICK i \in Active : TRUE
    BY <1>1 DEF IInv, ActiveLast
  <2>2. Active = {i}
    BY <1>1, <2>1 DEF IInv, ActiveLast
  <2> QED
    BY <2>2, FS_Singleton
<1> QED
  BY <1>1, Invariant, PTL

\* Every step of a running game leaves the active phase or goes on to the next one.
LEMMA NextPhase ==
    ASSUME IInv, [Next]_vars
    PROVE  OneAtATimeStep
<1> SUFFICES ASSUME state = "in_progress", state' = "in_progress", Active' # Active
             PROVE  \E i \in Active :
                      /\ Active' = {i + 1}
                      /\ phases'[i + 1].day = ~phases[i].day
                      /\ phases'[i + 1].round = phases[i].round + IF phases[i].day THEN 1 ELSE 0
  BY DEF OneAtATimeStep
<1>0. TypeOK /\ TInv /\ Active # {} /\ Active \subseteq DOMAIN phases
  BY Basics DEF IInv, TInv, ActiveLast
<1>1. PICK p \in Req : AdvanceToDay(p) \/ AdvanceToNight(p)
  <2>1. ASSUME phases' = phases PROVE FALSE
    BY <2>1 DEF Active
  <2>2. ASSUME NEW p \in Req, Rewrites(p) PROVE FALSE
    BY <1>0, <2>2, RewritesIs DEF Active, TypeOK
  <2>3. ASSUME NEW p \in Req, EndCommit(p) PROVE FALSE
    BY <1>0, <2>3, EndCommitMoves
  <2> QED
    BY <1>0, <2>1, <2>2, <2>3, Steps DEF vars, db, Begin, Goto, Fail
<1>2. CASE AdvanceToDay(p)
  <2> DEFINE i == req[p].phase
  <2>1. /\ i \in DOMAIN phases /\ i + 1 = Len(phases) /\ Active \subseteq {i}
        /\ ~phases[i].day /\ phases[i + 1].day /\ phases[i + 1].round = phases[i].round
        /\ Active' = {i + 1}
        /\ \A j \in DOMAIN phases :
              phases'[j].round = phases[j].round /\ phases'[j].day = phases[j].day
    BY <1>2, ToDayIs
  <2>2. i + 1 \in DOMAIN phases /\ i \in Active /\ phases[i].round \in Nat
    BY <1>0, <2>1, Basics
  <2>3. phases'[i + 1].day /\ phases'[i + 1].round = phases[i].round
    BY <2>1, <2>2
  <2>4. phases'[i + 1].day = ~phases[i].day
    <3>1. phases'[i + 1].day = TRUE /\ phases[i].day = FALSE
      BY <1>0, <2>1, <2>2, Basics
    <3> QED
      BY <3>1
  <2> QED
    BY <2>1, <2>2, <2>3, <2>4
<1>3. CASE AdvanceToNight(p)
  <2> DEFINE n == Len(phases)
  <2>1. /\ n \in Nat \ {0} /\ Active \subseteq {n} /\ phases[n].day
        /\ Active' = {n + 1}
        /\ phases' \in Seq(Phase) /\ Len(phases') = n + 2
        /\ phases'[n + 1].round = phases[n].round + 1 /\ (phases'[n + 1].day <=> n + 1 = n + 2)
    BY <1>3, ToNightIs
  <2>2. n \in Active /\ phases[n].day \in BOOLEAN /\ phases'[n + 1] \in Phase
    <3>1. n + 1 \in DOMAIN phases'
      BY <2>1
    <3> QED
      BY <1>0, <2>1, <3>1, Basics, ElementOfSeq
  <2>3. phases'[n + 1].day = ~phases[n].day
    <3>1. phases'[n + 1].day = FALSE /\ phases[n].day = TRUE
      BY <2>1, <2>2 DEF Phase
    <3> QED
      BY <3>1
  <2> QED
    BY <2>1, <2>2, <2>3
<1> QED
  BY <1>1, <1>2, <1>3

\* A running game goes through its phases one at a time, likewise.
THEOREM OneStepAtATime == ASSUME ~Overlapping PROVE Spec => OneAtATime
<1>1. IInv /\ [Next]_vars => OneAtATimeStep
  BY NextPhase
<1> QED
  BY <1>1, Invariant, PTL DEF Spec, OneAtATime

-----------------------------------------------------------------------------
(* The death records are an atomic ledger.                                 *)

\* What the phases of s record of the roles that are not in R.
Pages(s, R) == [i \in DOMAIN s |-> [r \in Role \ R |-> s[i].deaths[r]]]

LEMMA PagesAre ==
    ASSUME NEW s \in Seq(Phase), NEW R
    PROVE  /\ Pages(s, R) \in Seq([Role \ R -> Mark])
           /\ Len(Pages(s, R)) = Len(s) /\ DOMAIN Pages(s, R) = DOMAIN s
           /\ \A i \in DOMAIN s :
                 /\ Pages(s, R)[i] = [r \in Role \ R |-> s[i].deaths[r]]
                 /\ Pages(s, R)[i] \in [Role \ R -> Mark]
                 /\ \A r \in Role \ R : Pages(s, R)[i][r] = s[i].deaths[r]
<1> DEFINE P == Pages(s, R)
<1>1. ASSUME NEW i \in DOMAIN s
      PROVE  P[i] = [r \in Role \ R |-> s[i].deaths[r]] /\ P[i] \in [Role \ R -> Mark]
  <2>1. s[i] \in Phase
    BY ElementOfSeq
  <2>2. \A r \in Role : s[i].deaths[r] \in Mark
    BY <2>1 DEF Phase, Marks
  <2> QED
    BY <2>2 DEF Pages
<1>2. P \in [1..Len(s) -> [Role \ R -> Mark]] /\ Len(s) \in Nat
  BY <1>1 DEF Pages
<1>3. P \in Seq([Role \ R -> Mark]) /\ Len(P) = Len(s) /\ DOMAIN P = DOMAIN s
  <2> DEFINE A == [Role \ R -> Mark]
  <2> HIDE DEF A, P
  <2>1. P \in [1..Len(s) -> A] /\ Len(s) \in Nat
    BY <1>2 DEF A
  <2>2. P \in Seq(A) /\ Len(P) = Len(s) /\ DOMAIN P = 1..Len(s)
    BY <2>1
  <2>3. DOMAIN s = 1..Len(s)
    OBVIOUS
  <2> QED
    BY <2>2, <2>3 DEF A
<1> QED
  BY <1>1, <1>3

\* Pages that agree about each role are the same.
LEMMA SamePages ==
    ASSUME NEW s \in Seq(Phase), NEW t \in Seq(Phase), NEW R, Len(t) = Len(s),
           \A i \in DOMAIN s : \A r \in Role \ R : t[i].deaths[r] = s[i].deaths[r]
    PROVE  Pages(t, R) = Pages(s, R)
  BY DEF Pages

LEMMA LedgerIs ==
    /\ Ledger!Init <=> Pages(phases, raced) = <<>> /\ raced = {}
    /\ Pages(phases', raced') = Pages(phases, raced) /\ raced' = raced => UNCHANGED Ledger!vars
    /\ Ledger!FirstRound <=>
          /\ Pages(phases, raced) = <<>> /\ UNCHANGED raced
          /\ Pages(phases', raced') = <<[r \in Role \ raced |-> "none"], [r \in Role \ raced |-> "none"]>>
  BY DEF Ledger!Init, Ledger!vars, Ledger!FirstRound, Ledger!Blank, Ledger!Tracked, Pages

LEMMA LedgerInit == Init => Ledger!Init
<1> SUFFICES ASSUME Init PROVE Ledger!Init
  OBVIOUS
<1>1. phases = <<>> /\ phases \in Seq(Phase) /\ Len(phases) = 0 /\ raced = {}
  BY DEF Init
<1>2. Pages(phases, raced) \in Seq([Role \ raced -> Mark]) /\ Len(Pages(phases, raced)) = 0
  BY <1>1, PagesAre
<1>3. Pages(phases, raced) = <<>>
  BY <1>2
<1> QED
  BY <1>1, <1>3, LedgerIs

\* A step that leaves every record of a role on the ledger changes nothing there.
LEMMA LedgerStutters ==
    ASSUME TypeOK, phases' \in Seq(Phase), Len(phases') = Len(phases), raced' = raced,
           \A i \in DOMAIN phases : \A r \in Role \ raced :
              phases'[i].deaths[r] = phases[i].deaths[r]
    PROVE  UNCHANGED Ledger!vars
  BY SamePages, LedgerIs DEF TypeOK

LEMMA LedgerStrikes ==
    ASSUME TypeOK, NEW p \in Req, NEW q, Begun(q), Begin(p, q)
    PROVE  Ledger!Next
<1>1. phases' = phases /\ raced' = raced \cup Races(q) /\ phases \in Seq(Phase)
  BY DEF Begin, db, TypeOK
<1>2. Races(q) \in SUBSET Role
  BY DEF Begun, Races, Request, TypeOK
<1>3. Pages(phases, raced') = [i \in DOMAIN Pages(phases, raced) |->
                                [r \in Role \ raced' |-> Pages(phases, raced)[i][r]]]
  <2>1. /\ DOMAIN Pages(phases, raced) = DOMAIN phases
        /\ \A i \in DOMAIN phases : \A r \in Role \ raced :
              Pages(phases, raced)[i][r] = phases[i].deaths[r]
    BY DEF Pages
  <2>2. Role \ raced' \subseteq Role \ raced
    BY <1>1
  <2>3. \A i \in DOMAIN phases : \A r \in Role \ raced' :
              Pages(phases, raced)[i][r] = phases[i].deaths[r]
    BY <2>1, <2>2
  <2> QED
    BY <2>1, <2>3 DEF Pages
<1>4. Ledger!Strike
  BY <1>1, <1>2, <1>3 DEF Ledger!Strike, Pages
<1> QED
  BY <1>4 DEF Ledger!Next

LEMMA LedgerOpens ==
    ASSUME IInv, TypeOK', NEW p \in Req, state = "setup", StartCommit(p)
    PROVE  Ledger!Next
<1> DEFINE blank == [r \in Role \ raced |-> "none"]
           P == Pages(phases', raced')
<1>1. /\ raced' = raced /\ phases = <<>> /\ Len(phases') = 2 /\ DOMAIN phases' = 1..2
      /\ \A j \in 1..2 : phases'[j].deaths = Nobody
  BY StartIs
<1>2. Pages(phases, raced) = <<>>
  <2>1. phases \in Seq(Phase) /\ Len(phases) = 0
    BY <1>1
  <2>2. Pages(phases, raced) \in Seq([Role \ raced -> Mark]) /\ Len(Pages(phases, raced)) = 0
    BY <2>1, PagesAre
  <2> QED
    BY <2>2
<1>3. P[1] = blank /\ P[2] = blank
  BY <1>1, NobodyIs DEF Pages
<1>4. P \in Seq([Role \ raced -> Mark]) /\ Len(P) = 2
  BY <1>1, PagesAre DEF TypeOK
<1> HIDE DEF P, blank
<1>5. P = <<blank, blank>>
  BY <1>3, <1>4
<1>6. Ledger!FirstRound
  BY <1>1, <1>2, <1>5, LedgerIs DEF P, blank
<1> QED
  BY <1>6 DEF Ledger!Next

LEMMA LedgerGrows ==
    ASSUME IInv, NEW p \in Req, AdvanceToNight(p)
    PROVE  Ledger!Next
<1> DEFINE n == Len(phases)
           A == [Role \ raced -> Mark]
           L == Pages(phases, raced)
           N == Pages(phases', raced')
<1>1. /\ n \in Nat \ {0} /\ raced' = raced
      /\ phases' \in Seq(Phase) /\ Len(phases') = n + 2
      /\ \A j \in 1..n : phases'[j].deaths = phases[j].deaths
      /\ \A j \in {n + 1, n + 2} :
            \A r \in Role \ raced : phases'[j].deaths[r] = phases[n].deaths[r]
  BY ToNightIs
<1>2. phases \in Seq(Phase) /\ DOMAIN phases = 1..n /\ DOMAIN phases' = 1..n + 2
  BY <1>1 DEF IInv, TInv, TypeOK
<1>3. L \in Seq(A) /\ Len(L) = n /\ N \in Seq(A) /\ Len(N) = n + 2
  BY <1>1, <1>2, PagesAre
<1>4. /\ \A j \in 1..n : N[j] = L[j]
      /\ N[n + 1] = L[n] /\ N[n + 2] = L[n]
  <2>1. ASSUME NEW j \in 1..n PROVE N[j] = L[j]
    <3>1. j \in 1..n + 2 /\ phases'[j].deaths = phases[j].deaths
      BY <1>1
    <3> QED
      BY <1>1, <1>2, <3>1 DEF Pages
  <2>2. ASSUME NEW j \in {n + 1, n + 2} PROVE N[j] = L[n]
    <3>1. j \in 1..n + 2 /\ n \in 1..n
      BY <1>1
    <3>2. \A r \in Role \ raced : phases'[j].deaths[r] = phases[n].deaths[r]
      BY <1>1
    <3> QED
      BY <1>1, <1>2, <3>1, <3>2 DEF Pages
  <2> QED
    BY <2>1, <2>2
<1> HIDE DEF L, N, A
<1>5. N = L \o <<L[n], L[n]>>
  <2>1. L[n] \in A
    BY <1>1, <1>3, ElementOfSeq
  <2> DEFINE u == <<L[n], L[n]>>
             M == L \o u
  <2>2. u \in Seq(A) /\ Len(u) = 2 /\ u[1] = L[n] /\ u[2] = L[n]
    BY <2>1
  <2> HIDE DEF u
  <2>3. /\ M \in Seq(A) /\ Len(M) = n + 2
        /\ \A i \in 1..n : M[i] = L[i]
        /\ M[n + 1] = u[1] /\ M[n + 2] = u[2]
    BY <1>3, <2>2, RoundAdded
  <2> HIDE DEF M
  <2>4. ASSUME NEW i \in 1..n + 2 PROVE N[i] = M[i]
    <3>1. i \in 1..n \/ i = n + 1 \/ i = n + 2
      BY <1>1
    <3> HIDE DEF n
    <3>2. CASE i \in 1..n
      BY <1>4, <2>3, <3>2
    <3>3. CASE i = n + 1
      BY <1>4, <2>2, <2>3, <3>3
    <3>4. CASE i = n + 2
      BY <1>4, <2>2, <2>3, <3>4
    <3> QED
      BY <3>1, <3>2, <3>3, <3>4
  <2>5. N \in Seq(A) /\ Len(N) = Len(M)
    BY <1>3, <2>3
  <2>6. \A i \in 1..Len(N) : N[i] = M[i]
    BY <1>1, <2>3, <2>4, <2>5
  <2>7. N = M
    BY <2>3, <2>5, <2>6, SeqEqual
  <2> QED
    BY <2>7 DEF M, u
<1>6. L # <<>>
  BY <1>1, <1>3
<1>7. Ledger!NextRound
  BY <1>1, <1>3, <1>5, <1>6 DEF Ledger!NextRound, L, N, Pages
<1> QED
  BY <1>7 DEF Ledger!Next

\* A write about a role that has not raced rewrites the role's pages.
LEMMA LedgerRewrites ==
    ASSUME TypeOK, NEW r \in Role \ raced, NEW S, NEW from, NEW mark \in Mark,
           phases' = Marked(r, S, from, mark), raced' = raced
    PROVE  Ledger!Rewrite(r, S, from, mark)
<1> DEFINE L == Pages(phases, raced)
           N == Pages(phases', raced')
           R == Role \ raced
<1>1. /\ phases' \in Seq(Phase) /\ Len(phases') = Len(phases) /\ DOMAIN phases' = DOMAIN phases
      /\ \A i \in DOMAIN phases : \A x \in Role :
            phases'[i].deaths[x] =
               IF x = r /\ i \in S /\ phases[i].deaths[r] \in from THEN mark
               ELSE phases[i].deaths[x]
  <2>1. phases \in Seq(Phase) /\ r \in Role
    BY DEF TypeOK
  <2>2. LET t == Marked(r, S, from, mark)
        IN  /\ t \in Seq(Phase) /\ Len(t) = Len(phases)
            /\ \A i \in DOMAIN phases : \A x \in Role :
                  t[i].deaths[x] = IF x = r /\ i \in S /\ phases[i].deaths[r] \in from THEN mark
                                   ELSE phases[i].deaths[x]
    BY <2>1, MarkedIs
  <2> QED
    BY <2>1, <2>2
<1>2. ASSUME NEW i \in DOMAIN phases
      PROVE  N[i] = IF i \in S /\ L[i][r] \in from THEN [L[i] EXCEPT ![r] = mark] ELSE L[i]
  <2>1. /\ N[i] = [x \in R |-> phases'[i].deaths[x]]
        /\ L[i] = [x \in R |-> phases[i].deaths[x]]
    BY <1>1 DEF Pages
  <2>2. L[i][r] = phases[i].deaths[r]
    BY <2>1
  <2>3. \A x \in R : phases'[i].deaths[x] =
            IF x = r /\ i \in S /\ L[i][r] \in from THEN mark ELSE phases[i].deaths[x]
    BY <1>1, <2>2
  <2> QED
    BY <2>1, <2>3
<1>3. /\ DOMAIN L = DOMAIN phases /\ DOMAIN N = DOMAIN phases
      /\ N = [i \in DOMAIN phases |-> N[i]]
  BY <1>1 DEF Pages
<1>4. N = [i \in DOMAIN L |->
             IF i \in S /\ L[i][r] \in from THEN [L[i] EXCEPT ![r] = mark] ELSE L[i]]
  <2> HIDE DEF N, L
  <2> QED
    BY <1>2, <1>3
<1> QED
  BY <1>4 DEF Ledger!Rewrite, Ledger!Tracked, Pages

\* Recording, taking back and spending are one operation each on the ledger.
LEMMA LedgerWrites ==
    ASSUME IInv, NEW p \in Req, UNCHANGED raced, Rewrites(p), req[p].role \notin raced
    PROVE  Ledger!Next
<1> DEFINE q == req[p]
           r == q.role
           n == Len(phases)
           L == Pages(phases, raced)
<1>1. PICK S, from : \E mark \in Mark :
        /\ r \in Role
        /\ phases' = Marked(r, S, from, mark)
        /\ \/ /\ q.at = "record" /\ S = PhasesFrom(q) \ q.set
              /\ from = {"none"} /\ mark = "vote"
              /\ \A i \in S : phases[i].deaths[r] = "none"
           \/ q.at = "remove" /\ S = PhasesFrom(q) /\ from = Mark /\ mark = "none"
           \/ q.at = "spend" /\ S = 1..q.count /\ from = {"vote"} /\ mark = "used"
  BY DEF Rewrites
<1>2. /\ TypeOK /\ r \in Role \ raced /\ r # NoRole /\ q.phase \in Nat /\ n \in Nat
      /\ DOMAIN phases = 1..n /\ q.phase <= n /\ q.phase # 0 /\ q.count = n
  <2>1. r # NoRole
    BY <1>1, RoleAssumption
  <2>2. Placed(q) /\ Fresh(q) /\ TypeOK
    BY DEF IInv, TInv
  <2>3. q.phase \in Nat /\ n \in Nat /\ DOMAIN phases = 1..n
    BY <2>2, Basics
  <2> QED
    BY <1>1, <2>1, <2>2, <2>3 DEF Placed, Fresh, RolePoint
<1>3. DOMAIN L = 1..n /\ Len(L) = n
  BY <1>2, PagesAre DEF TypeOK
<1>4. PhasesFrom(q) \in Ledger!Spans
  <2>1. PhasesFrom(q) = {q.phase} \/ PhasesFrom(q) = q.phase..n
    BY <1>2 DEF PhasesFrom
  <2>2. q.phase \in DOMAIN L
    BY <1>2, <1>3
  <2>3. PhasesFrom(q) \in {{k} : k \in DOMAIN L} \cup {k..Len(L) : k \in DOMAIN L}
    BY <1>3, <2>1, <2>2
  <2> QED
    BY <2>3 DEF Ledger!Spans, Pages
<1>5. CASE q.at = "record"
  <2>1. phases' = Marked(r, PhasesFrom(q) \ q.set, {"none"}, "vote")
    BY <1>1, <1>5
  <2>2. q.set = {j \in DOMAIN phases : phases[j].deaths[r] # "none"}
    BY <1>2, <1>5 DEF IInv, Fresh
  <2>3. phases' = Marked(r, PhasesFrom(q), {"none"}, "vote")
    BY <2>1, <2>2 DEF Marked
  <2>4. Ledger!Rewrite(r, PhasesFrom(q), {"none"}, "vote")
    BY <1>2, <2>3, LedgerRewrites DEF Mark
  <2> QED
    BY <1>2, <1>4, <2>4 DEF Ledger!Record, Ledger!Next
<1>6. CASE q.at = "remove"
  <2>1. phases' = Marked(r, PhasesFrom(q), Mark, "none")
    BY <1>1, <1>6
  <2>2. Ledger!Rewrite(r, PhasesFrom(q), Ledger!Mark, "none")
    BY <1>2, <2>1, LedgerRewrites DEF Mark, Ledger!Mark
  <2> QED
    BY <1>2, <1>4, <2>2 DEF Ledger!Remove, Ledger!Next
<1>7. CASE q.at = "spend"
  <2>1. phases' = Marked(r, 1..n, {"vote"}, "used")
    BY <1>1, <1>2, <1>7
  <2>2. Ledger!Rewrite(r, DOMAIN L, {"vote"}, "used")
    BY <1>2, <1>3, <2>1, LedgerRewrites DEF Mark
  <2> QED
    BY <1>2, <2>2 DEF Ledger!Spend, Ledger!Next, Pages
<1> QED
  BY <1>1, <1>5, <1>6, <1>7

LEMMA LedgerStep == IInv /\ TypeOK' /\ [Next]_vars => [Ledger!Next]_Ledger!vars
<1> SUFFICES ASSUME IInv, TypeOK', [Next]_vars
             PROVE  Ledger!Next \/ UNCHANGED Ledger!vars
  OBVIOUS
<1>0. TypeOK /\ TInv /\ phases' \in Seq(Phase) /\ Role \ raced \subseteq Role
  BY DEF IInv, TInv, TypeOK
<1>1. ASSUME phases' = phases, raced' = raced PROVE UNCHANGED Ledger!vars
  BY <1>0, <1>1, LedgerStutters
<1>2. ASSUME NEW p \in Req, EndCommit(p) PROVE UNCHANGED Ledger!vars
  BY <1>0, <1>2, EndCommitMoves, LedgerStutters
<1>3. ASSUME NEW p \in Req, AdvanceToDay(p) PROVE UNCHANGED Ledger!vars
  BY <1>0, <1>3, ToDayIs, LedgerStutters
<1>4. ASSUME NEW p \in Req, UNCHANGED raced, Rewrites(p)
      PROVE  Ledger!Next \/ UNCHANGED Ledger!vars
  <2>1. CASE req[p].role \in raced
    <3>1. Role \ raced \subseteq Role \ {req[p].role}
      BY <2>1
    <3> QED
      BY <1>0, <1>4, <3>1, RewritesIs, LedgerStutters
  <2>2. CASE req[p].role \notin raced
    BY <1>4, <2>2, LedgerWrites
  <2> QED
    BY <2>1, <2>2
<1>5. ASSUME NEW p \in Req, NEW q, Begun(q), Begin(p, q) PROVE Ledger!Next
  BY <1>0, <1>5, LedgerStrikes
<1>6. ASSUME NEW p \in Req, state = "setup", StartCommit(p) PROVE Ledger!Next
  BY <1>6, LedgerOpens
<1>7. ASSUME NEW p \in Req, AdvanceToNight(p) PROVE Ledger!Next
  BY <1>7, LedgerGrows
<1> QED
  BY <1>0, <1>1, <1>2, <1>3, <1>4, <1>5, <1>6, <1>7, Steps DEF vars, db, Goto, Fail, End

\* While requests to advance do not overlap, the records of every role whose
\* requests met no other are those of the atomic ledger: RecordDeath,
\* RemoveDeath and UseGhostVote each take effect at once, in all the phases.
THEOREM DeathsAreALedger == ASSUME ~Overlapping PROVE Spec => LedgerSpec
<1>1. IInv => TypeOK
  BY DEF IInv, TInv
<1> QED
  BY <1>1, LedgerInit, LedgerStep, Invariant, PTL DEF Spec, LedgerSpec, Ledger!Spec
=============================================================================
