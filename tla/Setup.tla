------------------------------- MODULE Setup -------------------------------
(***************************************************************************)
(* RandomizeRoles: who is in play.  The evil characters are picked first,  *)
(* for they change how many outsiders there are; then the good ones, one   *)
(* of whom may change it again; then the companions some characters bring  *)
(* with them, the extra token for the Drunk, and the demon's bluffs.       *)
(*                                                                         *)
(* A script that lists a character twice is left out (ListedOnce): nothing *)
(* on the server keeps one from being saved, and Registry.Characters gives *)
(* the character twice, so that two players may be dealt it.               *)
(*                                                                         *)
(* Picks are shuffled before use, so that a slice is modelled by its set:  *)
(* the last character of a slice that may be replaced is any such one, and *)
(* the first unpicked townsfolk of a script is any, over all scripts.  No  *)
(* good character of the table lowers the number of outsiders, which       *)
(* leaves out the swap of an outsider for a townsfolk; and a companion is  *)
(* a townsfolk or an outsider.                                             *)
(***************************************************************************)
EXTENDS Integers, FiniteSets, FiniteSetsExt

CONSTANTS Lists,    \* the scripts a game may be played with, lists of characters
          Team,     \* each character's team
          Players,  \* player counts tried
          MaxLocks, \* characters that may be locked
          Attempts  \* attempts with locked characters, 100 in the code

Nobody == "nobody"

\* The teams roles.json gives the characters that change the counts and the companions.
registry ==
    [baron |-> "minion", godfather |-> "minion", fanggu |-> "demon", vigormortis |-> "demon",
     lilmonsta |-> "demon", lordoftyphon |-> "demon", balloonist |-> "townsfolk",
     king |-> "townsfolk", damsel |-> "outsider"]

\* A script lists nobody twice.
ASSUME ListedOnce == \A list \in Lists : \A i, j \in DOMAIN list : list[i] = list[j] => i = j

\* Registry.Characters.
Scripts == {{list[i] : i \in DOMAIN list} : list \in Lists}

ASSUME SetupAssumption ==
    /\ Players \subseteq 5..15 /\ MaxLocks \in Nat /\ Attempts \in Nat \ {0}
    /\ \A s \in Scripts :
           /\ IsFiniteSet(s) /\ Nobody \notin s
           /\ \A c \in s :
                  /\ Team[c] \in {"townsfolk", "outsider", "minion", "demon"}
                  /\ c \in DOMAIN registry => Team[c] = registry[c]

VARIABLES script, players, locked, \* the request
          step,                    \* where in randomizeRoles this is, or how it ended
          attempt,                 \* the attempts made before this one
          dist,                    \* how many of each team there are to be
          picks,                   \* the characters picked, by team
          companions,              \* picked characters whose companions are not seen to
          drunk,                   \* picked characters that need a token, from allSelected
          manual,                  \* characters left to the storyteller
          subs,                    \* bag substitutions: a cause and a character
          bluffs                   \* the demon's bluffs

vars == <<script, players, locked, step, attempt, dist, picks, companions, drunk, manual,
          subs, bluffs>>

Teams == {"townsfolk", "outsider", "minion", "demon"}

Distribution(t, o, m) == [townsfolk |-> t, outsider |-> o, minion |-> m, demon |-> 1]

baseDistributions ==
    [n \in 5..15 |->
        IF n < 7 THEN Distribution(3, n - 5, 1)
        ELSE Distribution(5 + 2 * ((n - 7) \div 3), (n - 7) % 3, 1 + (n - 7) \div 3)]

\* setupModifiers, a table for each kind.
outsiderDelta ==
    [baron |-> 2, godfather |-> -1, fanggu |-> 1, vigormortis |-> -1, balloonist |-> 1]
minionDelta == [lilmonsta |-> 1, lordoftyphon |-> 1]
companion == [choirboy |-> "king", huntsman |-> "damsel"]
bagTeam == [drunk |-> "townsfolk"]
byHand ==
    {"marionette", "summoner", "bountyhunter", "atheist", "legion", "kazali", "xaan",
     "villageidiot", "hermit", "sentinel", "deusexfiasco", "pope", "tor"}

SetupCharacters ==
    UNION {DOMAIN outsiderDelta, DOMAIN minionDelta, DOMAIN companion, DOMAIN bagTeam, byHand}

Delta(table, c) == IF c \in DOMAIN table THEN table[c] ELSE 0
DeltaOf(table, chars) == MapThenSumSet(LAMBDA c : Delta(table, c), chars)

Pool(t) == {c \in script : Team[c] = t}
Locked(t) == locked \cap Pool(t)
Count(t) == Cardinality(picks[t])
Selected == UNION {picks[t] : t \in Teams}

Base == baseDistributions[players]

AboveZero(n) == IF n > 0 THEN n ELSE 0
BelowZero(n) == IF n < 0 THEN n ELSE 0

\* Mutant: a count below zero is raised, and no townsfolk makes up for it.
AdjustedLoose(chars) ==
    LET o == Base.outsider + DeltaOf(outsiderDelta, chars)
        m == Base.minion + DeltaOf(minionDelta, chars)
        t == Base.townsfolk + (Base.outsider - o) + (Base.minion - m)
    IN  Distribution(t, AboveZero(o), AboveZero(m))

\* ApplySetupModifiers: what outsiders and minions gain, the townsfolk lose.
Adjusted(chars) ==
    LET o == Base.outsider + DeltaOf(outsiderDelta, chars)
        m == Base.minion + DeltaOf(minionDelta, chars)
        t == Base.townsfolk + (Base.outsider - o) + (Base.minion - m)
    IN  Distribution(t + BelowZero(o) + BelowZero(m), AboveZero(o), AboveZero(m))

\* pickRandomLocked: n of a team, all the locked ones among them.
Picks(t, n) == {chars \in kSubset(n, Pool(t)) : Locked(t) \subseteq chars}

NoPicks == [t \in Teams |-> {}]

Init ==
    /\ script \in Scripts /\ players \in Players
    /\ locked \in {chars \in SUBSET script : Cardinality(chars) <= MaxLocks}
    /\ step = "evil" /\ attempt = 0
    /\ dist = Base /\ picks = NoPicks
    /\ companions = {} /\ drunk = {} /\ manual = {} /\ subs = {} /\ bluffs = {}

Same == UNCHANGED <<script, players, locked>>

-----------------------------------------------------------------------------
(* Locked characters that do not fit, and pools that are too small.        *)

\* Another attempt is made from the start, if there is something locked.
LockConflict ==
    /\ attempt' = attempt + 1
    /\ step' = IF locked # {} /\ attempt + 1 < Attempts THEN "evil" ELSE "conflict"
    /\ dist' = Base /\ picks' = NoPicks /\ manual' = {}
    /\ Same /\ UNCHANGED <<companions, drunk, subs, bluffs>>

Give(how) ==
    /\ step' = how
    /\ Same /\ UNCHANGED <<attempt, dist, picks, companions, drunk, manual, subs, bluffs>>

\* The number of demons never changes: no other attempt helps.
DemonConflict ==
    /\ step = "evil" /\ Cardinality(Locked("demon")) > Base.demon
    /\ Give("conflict")

MinionCount ==
    LET n == Cardinality(Locked("minion")) IN IF n > Base.minion THEN n ELSE Base.minion

EvilShort ==
    /\ step = "evil" /\ Cardinality(Locked("demon")) <= Base.demon
    /\ \/ Cardinality(Pool("demon")) < Base.demon
       \/ Cardinality(Pool("minion")) < MinionCount
    /\ Give("short")

GoodShort ==
    /\ step = "good"
    /\ Cardinality(Locked("outsider")) <= dist.outsider
    /\ Cardinality(Pool("townsfolk")) < dist.townsfolk
    /\ Give("short")

GoodConflict ==
    /\ step = "good"
    /\ \/ Cardinality(Locked("outsider")) > dist.outsider
       \/ /\ Cardinality(Pool("townsfolk")) >= dist.townsfolk
          /\ Cardinality(Locked("townsfolk")) > dist.townsfolk
    /\ LockConflict

-----------------------------------------------------------------------------
(* The picks.                                                              *)

\* Round 1a, unless more minions are locked than there are slots.
PickEvil ==
    /\ step = "evil"
    /\ \E d \in Picks("demon", Base.demon), m \in Picks("minion", MinionCount) :
           LET ruled == Adjusted(d \cup m) IN
           \/ ruled.minion < MinionCount /\ LockConflict
           \/ /\ ruled.minion >= MinionCount
              /\ dist' = ruled
              /\ picks' = [NoPicks EXCEPT !["demon"] = d, !["minion"] = m]
              /\ manual' = (d \cup m) \cap byHand
              /\ step' = "extra"
              /\ Same /\ UNCHANGED <<attempt, companions, drunk, subs, bluffs>>

\* dist once the minions are m, which may be fewer than there should be.
WithMinions(m) ==
    IF Cardinality(m) = dist.minion THEN dist
    ELSE Distribution(players - dist.outsider - Cardinality(m) - dist.demon,
                      dist.outsider, Cardinality(m))

\* d with no more outsiders than the script has.
ClampOutsiders(d) ==
    LET missing == AboveZero(d.outsider - Cardinality(Pool("outsider")))
    IN  Distribution(d.townsfolk + missing, d.outsider - missing, d.minion)

\* The minions the demon adds, as far as there are any, and the outsiders' clamp.
PickExtra ==
    /\ step = "extra"
    /\ LET rest == Pool("minion") \ picks["minion"]
           needed == dist.minion - Count("minion")
       IN  \E extra \in IF needed > Cardinality(rest) THEN {rest} ELSE kSubset(needed, rest) :
               LET m == picks["minion"] \cup extra IN
               /\ picks' = [picks EXCEPT !["minion"] = m]
               /\ dist' = ClampOutsiders(WithMinions(m))
    /\ step' = "good"
    /\ Same /\ UNCHANGED <<attempt, companions, drunk, manual, subs, bluffs>>

\* Round 1b.
PickGood ==
    /\ step = "good"
    /\ \E o \in Picks("outsider", dist.outsider), t \in Picks("townsfolk", dist.townsfolk) :
           picks' = [picks EXCEPT !["outsider"] = o, !["townsfolk"] = t]
    /\ step' = "swap"
    /\ Same /\ UNCHANGED <<attempt, dist, companions, drunk, manual, subs, bluffs>>

Swappable == {c \in picks["townsfolk"] : Delta(outsiderDelta, c) = 0 /\ c \notin locked}

\* Mutant: only the outsiders are looked at.
goodDeltaOutsiders == DeltaOf(outsiderDelta, picks["outsider"])

goodDelta == DeltaOf(outsiderDelta, picks["outsider"] \cup picks["townsfolk"])

\* Outsiders come in for townsfolk: as many as the good characters add, as long
\* as there are outsiders to come and townsfolk to go.
Swap ==
    /\ step = "swap"
    /\ LET rest == Pool("outsider") \ picks["outsider"]
           n == Min({goodDelta, Cardinality(rest), Cardinality(Swappable)})
       IN  \E gone \in kSubset(n, Swappable), come \in kSubset(n, rest) :
               LET now == [picks EXCEPT !["townsfolk"] = @ \ gone, !["outsider"] = @ \cup come]
                   allSelected == UNION {now[t] : t \in Teams}
               IN  /\ picks' = now
                   /\ companions' = allSelected \cap DOMAIN companion
                   /\ drunk' = allSelected \cap DOMAIN bagTeam
    /\ step' = "companions"
    /\ Same /\ UNCHANGED <<attempt, dist, manual, subs, bluffs>>

hasCompanion(c) == \E d \in DOMAIN companion : companion[d] = c

\* Mutant: the last of the slice is replaced, locked or not.
ReplaceableAny(t) == picks[t]

\* Those of a team a companion may replace.
Replaceable(t) ==
    {c \in picks[t] : Delta(outsiderDelta, c) = 0 /\ ~hasCompanion(c) /\ c \notin locked}

\* Mutant: every companion is put among the townsfolk.
targetSliceOne(who) == "townsfolk"

targetSlice(who) == Team[who]

\* Mutant: a companion nobody makes room for is forgotten.
LeftToStorytellerLost(c) == UNCHANGED <<picks, manual>>

LeftToStoryteller(c) == manual' = manual \cup {c} /\ UNCHANGED picks

\* The next character with a companion: it is picked already, or replaces
\* somebody of its team, or is left to the storyteller.
Accompany(c) ==
    LET who == companion[c] IN
    /\ step = "companions" /\ c \in companions
    /\ companions' = companions \ {c}
    /\ \/ who \in Selected /\ UNCHANGED <<picks, manual>>
       \/ /\ who \notin Selected /\ who \in script
          /\ \E old \in Replaceable(targetSlice(who)) :
                 picks' = [picks EXCEPT ![targetSlice(who)] = (@ \ {old}) \cup {who}]
          /\ UNCHANGED manual
       \/ /\ who \notin Selected
          /\ who \in script => Replaceable(targetSlice(who)) = {}
          /\ LeftToStoryteller(c)
    /\ Same /\ UNCHANGED <<step, attempt, dist, drunk, subs, bluffs>>

\* Townsfolk that are not in play.
Spare == Pool("townsfolk") \ Selected

\* A substitution for each picked character that needs one, in play or not.
BagSubstitution ==
    /\ step = "companions" /\ companions = {}
    /\ \/ drunk = {} /\ subs' = {}
       \/ \E c \in drunk, s \in IF Spare = {} THEN {Nobody} ELSE Spare : subs' = {<<c, s>>}
    /\ step' = "bluffs"
    /\ Same /\ UNCHANGED <<attempt, dist, picks, companions, drunk, manual, bluffs>>

\* SelectDemonBluffs, for the roles of the result.
SelectDemonBluffs ==
    /\ step = "bluffs"
    /\ LET candidates == (Pool("townsfolk") \cup Pool("outsider")) \ Selected
           n == Min({3, Cardinality(candidates)})
       IN  \E b \in kSubset(n, candidates) : bluffs' = b
    /\ step' = "done"
    /\ Same /\ UNCHANGED <<attempt, dist, picks, companions, drunk, manual, subs>>

Next ==
    \/ DemonConflict \/ EvilShort \/ GoodShort \/ GoodConflict
    \/ PickEvil \/ PickExtra \/ PickGood \/ Swap
    \/ \E c \in DOMAIN companion : Accompany(c)
    \/ BagSubstitution \/ SelectDemonBluffs

Spec == Init /\ [][Next]_vars

-----------------------------------------------------------------------------
\* Type invariant.  No count is negative: a slice is cut at dist.townsfolk.
TypeOK ==
    /\ script \in Scripts /\ players \in Players /\ locked \subseteq script
    /\ step \in {"evil", "extra", "good", "swap", "companions", "bluffs",
                 "done", "conflict", "short"}
    /\ attempt \in 0..Attempts
    /\ dist \in [Teams -> 0..players]
    /\ \A t \in Teams : picks[t] \subseteq Pool(t)
    /\ companions \subseteq DOMAIN companion /\ drunk \subseteq DOMAIN bagTeam
    /\ manual \subseteq SetupCharacters
    /\ subs \subseteq (DOMAIN bagTeam) \X (script \cup {Nobody}) /\ bluffs \subseteq script

ValidateDistribution(chars) ==
    LET n(t) == Cardinality({c \in chars : Team[c] = t}) IN
    /\ Cardinality(chars) = players
    /\ n("demon") = Adjusted(chars).demon
    /\ n("minion") = Adjusted(chars).minion

\* Of a script that lists nobody twice, a result has as many characters as there
\* are players and passes ValidateDistribution, unless the script has no more
\* minions; neither the extra token in the bag nor a bluff shows a character in play.
LegalResult ==
    step = "done" =>
        /\ Cardinality(Selected) = players
        /\ ValidateDistribution(Selected) \/ picks["minion"] = Pool("minion")
        /\ bluffs \cap Selected = {} /\ \A s \in subs : s[2] \notin Selected

\* A result holds everybody who was locked.
LockedStay == step = "done" => locked \subseteq Selected

\* There are as many outsiders as the picked characters call for, or all the
\* script has, or all townsfolk that could make room for one have.  That goes for
\* results without extra minions, whom nobody asks what they change, and for evil
\* picks that do not call for fewer than none.
OutsidersAsRuled ==
    LET ruled == Adjusted(Selected).outsider
        evil == picks["demon"] \cup picks["minion"]
    IN  /\ step = "done" /\ Count("minion") = MinionCount
        /\ Base.outsider + DeltaOf(outsiderDelta, evil) >= 0
        => \/ Count("outsider") = Min({ruled, Cardinality(Pool("outsider"))})
           \/ Count("outsider") < ruled /\ Swappable = {}

\* Who needs a companion has it in the result, or is left to the storyteller.
CompanionsCome ==
    step = "done" =>
        \A c \in Selected \cap DOMAIN companion : companion[c] \in Selected \/ c \in manual
=============================================================================
