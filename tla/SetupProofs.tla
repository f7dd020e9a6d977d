----------------------------- MODULE SetupProofs -----------------------------
(***************************************************************************)
(* Theorems about Setup, for any scripts of finitely many characters, any  *)
(* player counts the tables have and any number of locked characters and   *)
(* of attempts.                                                            *)
(***************************************************************************)
EXTENDS Setup, FiniteSetTheorems, TLAPS

-----------------------------------------------------------------------------
(***************************************************************************)
(* What a set of characters adds to a count.  The sum goes over the set in *)
(* the order CHOOSE has; whatever that is, it comes to a sum over the      *)
(* table.  The proof is by a least set at which the two differ.            *)
(***************************************************************************)
One(c, S) == IF c \in S THEN 1 ELSE 0

OutsiderSum(S) ==
    2 * One("baron", S) - One("godfather", S) + One("fanggu", S)
      - One("vigormortis", S) + One("balloonist", S)

MinionSum(S) == One("lilmonsta", S) + One("lordoftyphon", S)

\* The equation that defines the fold in DeltaOf.
Fold(table, S, f) ==
    [s \in SUBSET S |->
        IF s = {} THEN 0
        ELSE LET x == CHOOSE x \in s : TRUE IN Delta(table, x) + f[s \ {x}]]

\* A function that satisfies the equation gives the sum, if there is one.
LEMMA FoldEquation ==
  ASSUME NEW S, NEW table, NEW f, f = Fold(table, S, f)
  PROVE  \E g : DeltaOf(table, S) = g[S] /\ g = Fold(table, S, g)
<1> DEFINE g == CHOOSE h : h = Fold(table, S, h)
<1>1. DeltaOf(table, S) = g[S]
  BY DEF DeltaOf, MapThenSumSet, MapThenFoldSet, Fold
<1>2. g = Fold(table, S, g)
  <2> HIDE DEF Fold
  <2>1. \E h : h = Fold(table, S, h)
    OBVIOUS
  <2>2. QED
    BY <2>1
<1>3. QED
  BY <1>1, <1>2

\* Two functions that satisfy it agree on a finite set.
LEMMA FoldUnique ==
  ASSUME NEW S, IsFiniteSet(S), NEW table, NEW f, f = Fold(table, S, f),
         NEW g, g = Fold(table, S, g)
  PROVE  f[S] = g[S]
<1> DEFINE Bad == {s \in SUBSET S : f[s] # g[s]}
<1> SUFFICES ASSUME Bad # {} PROVE FALSE
  OBVIOUS
<1>1. FiniteSubsetsOf(S) = SUBSET S
  BY FS_FiniteSubsetsOfFinite
<1>2. IsWellFoundedOn(StrictSubsetOrdering(S), SUBSET S)
  BY <1>1, FS_StrictSubsetOrderingWellFounded
<1>3. PICK t \in Bad : \A s \in Bad : <<s, t>> \notin StrictSubsetOrdering(S)
  BY <1>2, WFMin, Bad \subseteq SUBSET S, Zenon
<1> DEFINE x == CHOOSE x \in t : TRUE
<1>4. t # {}
  BY <1>3 DEF Fold
<1>5. x \in t /\ t \ {x} \in SUBSET S
  BY <1>3, <1>4
<1>6. f[t] = Delta(table, x) + f[t \ {x}] /\ g[t] = Delta(table, x) + g[t \ {x}]
  BY <1>3, <1>4 DEF Fold
<1>7. <<t \ {x}, t>> \in StrictSubsetOrdering(S)
  BY <1>3, <1>5 DEF StrictSubsetOrdering
<1>8. f[t \ {x}] = g[t \ {x}]
  BY <1>3, <1>5, <1>7
<1>9. QED
  BY <1>3, <1>6, <1>8

LEMMA TableDeltas ==
  /\ Delta(outsiderDelta, "baron") = 2 /\ Delta(outsiderDelta, "fanggu") = 1
  /\ Delta(outsiderDelta, "godfather") = -1 /\ Delta(outsiderDelta, "vigormortis") = -1
  /\ Delta(outsiderDelta, "balloonist") = 1
  /\ \A c : c \notin {"baron", "fanggu", "godfather", "vigormortis", "balloonist"}
             => Delta(outsiderDelta, c) = 0
  /\ \A c : Delta(minionDelta, c) = IF c \in {"lilmonsta", "lordoftyphon"} THEN 1 ELSE 0
BY DEF Delta, outsiderDelta, minionDelta

LEMMA OutsiderSums ==
  ASSUME NEW S, IsFiniteSet(S)
  PROVE  DeltaOf(outsiderDelta, S) = OutsiderSum(S)
<1> DEFINE f == [s \in SUBSET S |-> OutsiderSum(s)]
<1>1. f = Fold(outsiderDelta, S, f)
  <2>1. ASSUME NEW s \in SUBSET S, s # {}, NEW x \in s
        PROVE  OutsiderSum(s) = Delta(outsiderDelta, x) + OutsiderSum(s \ {x})
    BY <2>1, TableDeltas DEF OutsiderSum, One
  <2>2. OutsiderSum({}) = 0
    BY DEF OutsiderSum, One
  <2>3. ASSUME NEW s \in SUBSET S, s # {}
        PROVE  LET x == CHOOSE x \in s : TRUE IN
               OutsiderSum(s) = Delta(outsiderDelta, x) + OutsiderSum(s \ {x})
    BY <2>1, <2>3
  <2>4. QED
    BY <2>2, <2>3 DEF Fold
<1>2. PICK g : DeltaOf(outsiderDelta, S) = g[S] /\ g = Fold(outsiderDelta, S, g)
  <2> HIDE DEF f
  <2>1. QED
    BY <1>1, FoldEquation
<1>3. f[S] = g[S]
  <2> HIDE DEF f
  <2>1. QED
    BY <1>1, <1>2, FoldUnique
<1>4. QED
  BY <1>2, <1>3

LEMMA MinionSums ==
  ASSUME NEW S, IsFiniteSet(S)
  PROVE  DeltaOf(minionDelta, S) = MinionSum(S)
<1> DEFINE f == [s \in SUBSET S |-> MinionSum(s)]
<1>1. f = Fold(minionDelta, S, f)
  <2>1. ASSUME NEW s \in SUBSET S, s # {}, NEW x \in s
        PROVE  MinionSum(s) = Delta(minionDelta, x) + MinionSum(s \ {x})
    BY <2>1, TableDeltas DEF MinionSum, One
  <2>2. MinionSum({}) = 0
    BY DEF MinionSum, One
  <2>3. ASSUME NEW s \in SUBSET S, s # {}
        PROVE  LET x == CHOOSE x \in s : TRUE IN
               MinionSum(s) = Delta(minionDelta, x) + MinionSum(s \ {x})
    BY <2>1, <2>3
  <2>4. QED
    BY <2>2, <2>3 DEF Fold
<1>2. PICK g : DeltaOf(minionDelta, S) = g[S] /\ g = Fold(minionDelta, S, g)
  <2> HIDE DEF f
  <2>1. QED
    BY <1>1, FoldEquation
<1>3. f[S] = g[S]
  <2> HIDE DEF f
  <2>1. QED
    BY <1>1, <1>2, FoldUnique
<1>4. QED
  BY <1>2, <1>3

-----------------------------------------------------------------------------
(***************************************************************************)
(* Counts: of the table of player counts, and once a demon and some        *)
(* minions have been asked what they change.                               *)
(***************************************************************************)
Total(d) == d.townsfolk + d.outsider + d.minion + d.demon

\* Counts of each team for n players.
Counts(n) ==
    {d \in [townsfolk : 0..n, outsider : 0..n, minion : 0..n, demon : {1}] : Total(d) = n}

LEMMA CountsOf ==
  ASSUME NEW n \in Nat, NEW t \in Nat, NEW o \in Nat, NEW m \in Nat, t + o + m + 1 = n
  PROVE  Distribution(t, o, m) \in Counts(n)
<1>1. t \in 0..n /\ o \in 0..n /\ m \in 0..n
  OBVIOUS
<1>2. Distribution(t, o, m) \in [townsfolk : 0..n, outsider : 0..n, minion : 0..n, demon : {1}]
  BY <1>1 DEF Distribution
<1>3. Total(Distribution(t, o, m)) = n
  BY DEF Distribution, Total
<1>4. QED
  BY <1>2, <1>3 DEF Counts

LEMMA CountsFields ==
  ASSUME NEW n \in Nat, NEW d \in Counts(n)
  PROVE  /\ d.townsfolk \in 0..n /\ d.outsider \in 0..n /\ d.minion \in 0..n /\ d.demon = 1
         /\ d.townsfolk + d.outsider + d.minion + 1 = n
BY DEF Counts, Total

\* Counts are a function on the teams.
LEMMA CountsAreTyped ==
  ASSUME NEW n \in Nat \ {0}, NEW d \in Counts(n)
  PROVE  d \in [Teams -> 0..n]
BY DEF Counts, Total, Teams

LEMMA BaseCounts ==
  ASSUME NEW n \in 5..15
  PROVE  /\ baseDistributions[n] \in Counts(n)
         /\ baseDistributions[n].townsfolk >= 3 /\ baseDistributions[n].outsider <= 2
         /\ baseDistributions[n].minion \in 1..3
<1>1. CASE n < 7
  <2>1. baseDistributions[n] = Distribution(3, n - 5, 1)
    BY <1>1 DEF baseDistributions
  <2>2. QED
    BY <1>1, <2>1, CountsOf DEF Distribution
<1>2. CASE n >= 7
  <2> DEFINE q == (n - 7) \div 3
  <2> DEFINE r == (n - 7) % 3
  <2>1. n - 7 = 3 * q + r /\ r \in 0..2 /\ q \in 0..2
    BY <1>2
  <2>2. baseDistributions[n] = Distribution(5 + 2 * q, r, 1 + q)
    BY <1>2 DEF baseDistributions
  <2> HIDE DEF q, r
  <2>3. 5 + 2 * q \in Nat /\ r \in Nat /\ 1 + q \in Nat /\ 5 + 2 * q + r + (1 + q) + 1 = n
    BY <2>1
  <2>4. Distribution(5 + 2 * q, r, 1 + q) \in Counts(n)
    BY <2>3, CountsOf
  <2>5. QED
    BY <2>1, <2>2, <2>4 DEF Distribution
<1>3. QED
  BY <1>1, <1>2

-----------------------------------------------------------------------------
(***************************************************************************)
(* The characters of a script.                                             *)
(***************************************************************************)
LEMMA ScriptFacts ==
  ASSUME script \in Scripts
  PROVE  /\ IsFiniteSet(script) /\ Nobody \notin script
         /\ \A c \in script : Team[c] \in Teams
         /\ \A c \in script :
              /\ c = "baron" \/ c = "godfather" => Team[c] = "minion"
              /\ c \in {"fanggu", "vigormortis", "lilmonsta", "lordoftyphon"}
                   => Team[c] = "demon"
              /\ c = "balloonist" \/ c = "king" => Team[c] = "townsfolk"
              /\ c = "damsel" => Team[c] = "outsider"
BY SetupAssumption DEF Teams, registry

LEMMA PoolsAreDisjoint ==
  ASSUME NEW t, NEW u, t # u
  PROVE  Pool(t) \cap Pool(u) = {}
BY DEF Pool

LEMMA PoolIsFinite ==
  ASSUME script \in Scripts, NEW t
  PROVE  /\ Pool(t) \subseteq script /\ IsFiniteSet(Pool(t)) /\ Cardinality(Pool(t)) \in Nat
         /\ \A S \in SUBSET Pool(t) :
              /\ IsFiniteSet(S) /\ Cardinality(S) \in Nat
              /\ Cardinality(S) <= Cardinality(Pool(t))
              /\ Cardinality(S) = Cardinality(Pool(t)) => S = Pool(t)
<1>1. Pool(t) \in SUBSET script
  BY DEF Pool
<1>2. IsFiniteSet(Pool(t))
  BY <1>1, ScriptFacts, FS_Subset
<1>3. QED
  BY <1>1, <1>2, FS_Subset, FS_CardinalityType

\* A demon and minions change the outsiders by one of -2..3 and the minions by at
\* most one, and the base counts always have the townsfolk to pay for it.
LEMMA EvilDeltas ==
  ASSUME script \in Scripts, NEW d \in SUBSET Pool("demon"), Cardinality(d) = 1,
         NEW m \in SUBSET Pool("minion")
  PROVE  /\ DeltaOf(outsiderDelta, d \cup m) \in -2..3
         /\ DeltaOf(minionDelta, d \cup m) \in 0..1
         /\ DeltaOf(minionDelta, d \cup m) = DeltaOf(minionDelta, d)
         /\ DeltaOf(outsiderDelta, d \cup m) + DeltaOf(minionDelta, d \cup m) <= 3
<1>1. IsFiniteSet(d) /\ IsFiniteSet(m) /\ IsFiniteSet(d \cup m)
  BY PoolIsFinite, FS_Union
<1>2. PICK x : d = {x}
  BY <1>1, FS_Singleton
<1>3. DeltaOf(outsiderDelta, d \cup m) = OutsiderSum(d \cup m)
  BY <1>1, OutsiderSums
<1>4. DeltaOf(minionDelta, d \cup m) = MinionSum(d \cup m) /\ DeltaOf(minionDelta, d) = MinionSum(d)
  BY <1>1, MinionSums
<1>5. \A c \in m : c \notin {"fanggu", "vigormortis", "lilmonsta", "lordoftyphon", "balloonist"}
  BY ScriptFacts DEF Pool
<1>6. x \notin {"balloonist", "baron", "godfather"}
  BY <1>2, ScriptFacts DEF Pool
<1>7. MinionSum(d \cup m) = MinionSum(d) /\ MinionSum(d) \in 0..1
  BY <1>2, <1>5 DEF MinionSum, One
<1>8. OutsiderSum(d \cup m) \in -2..3 /\ OutsiderSum(d \cup m) + MinionSum(d \cup m) <= 3
  BY <1>2, <1>5, <1>6 DEF OutsiderSum, MinionSum, One
<1>9. QED
  BY <1>3, <1>4, <1>7, <1>8

LEMMA BaseFacts ==
  ASSUME players \in 5..15
  PROVE  /\ Base \in Counts(players) /\ Base.demon = 1
         /\ Base.townsfolk \in 3..15 /\ Base.outsider \in 0..2 /\ Base.minion \in 1..3
         /\ Base.townsfolk + Base.outsider + Base.minion + 1 = players
<1>1. /\ Base \in Counts(players) /\ Base.townsfolk >= 3 /\ Base.outsider <= 2
      /\ Base.minion \in 1..3 /\ players \in Nat
  BY BaseCounts DEF Base
<1> HIDE DEF Base
<1>2. /\ Base.townsfolk \in 0..players /\ Base.outsider \in 0..players /\ Base.demon = 1
      /\ Base.townsfolk + Base.outsider + Base.minion + 1 = players
  BY <1>1, CountsFields
<1>3. QED
  BY <1>1, <1>2

\* ApplySetupModifiers keeps the players' number, for a demon and minions.
LEMMA EvilAdjusts ==
  ASSUME script \in Scripts, players \in 5..15,
         NEW d \in SUBSET Pool("demon"), Cardinality(d) = 1, NEW m \in SUBSET Pool("minion")
  PROVE  /\ Adjusted(d \cup m) \in Counts(players)
         /\ Adjusted(d \cup m).minion = Base.minion + DeltaOf(minionDelta, d)
         /\ Adjusted(d \cup m).outsider
              = AboveZero(Base.outsider + DeltaOf(outsiderDelta, d \cup m))
<1> DEFINE od == DeltaOf(outsiderDelta, d \cup m)
<1> DEFINE md == DeltaOf(minionDelta, d \cup m)
<1> DEFINE bt == Base.townsfolk
<1> DEFINE bo == Base.outsider
<1> DEFINE bm == Base.minion
<1> DEFINE o == bo + od
<1> DEFINE n == bm + md
<1> DEFINE t == bt + (bo - o) + (bm - n)
<1>1. od \in -2..3 /\ md \in 0..1 /\ od + md <= 3 /\ md = DeltaOf(minionDelta, d)
  BY EvilDeltas
<1>2. /\ bt \in 3..15 /\ bo \in 0..2 /\ bm \in 1..3 /\ bt + bo + bm + 1 = players
  BY BaseFacts
<1>3. Adjusted(d \cup m)
        = Distribution(t + BelowZero(o) + BelowZero(n), AboveZero(o), AboveZero(n))
  BY DEF Adjusted
<1> HIDE DEF od, md, bt, bo, bm
<1>4. /\ AboveZero(n) = n /\ BelowZero(n) = 0 /\ AboveZero(n) \in Nat
      /\ AboveZero(o) \in Nat /\ BelowZero(o) + AboveZero(o) = o
      /\ t + BelowZero(o) + BelowZero(n) \in Nat
  BY <1>1, <1>2 DEF AboveZero, BelowZero
<1>5. t + BelowZero(o) + BelowZero(n) + AboveZero(o) + AboveZero(n) + 1 = players
  BY <1>1, <1>2 DEF AboveZero, BelowZero
<1>6. Adjusted(d \cup m) \in Counts(players)
  <2> HIDE DEF o, n, t
  <2>1. QED
    BY <1>3, <1>4, <1>5, CountsOf
<1>7. /\ Adjusted(d \cup m).minion = AboveZero(n)
      /\ Adjusted(d \cup m).outsider = AboveZero(o)
  <2> HIDE DEF o, n, t
  <2>1. QED
    BY <1>3 DEF Distribution
<1>8. n = Base.minion + DeltaOf(minionDelta, d)
  BY <1>1 DEF bm
<1>9. QED
  BY <1>4, <1>6, <1>7, <1>8 DEF od, bo

-----------------------------------------------------------------------------
(***************************************************************************)
(* The inductive invariant: what each round leaves behind.                 *)
(***************************************************************************)
AfterSwap == step \in {"companions", "bluffs", "done"}
AfterGood == AfterSwap \/ step = "swap"
AfterExtra == AfterGood \/ step = "good"
AfterEvil == AfterExtra \/ step = "extra"

Evil == picks["demon"] \cup picks["minion"]

\* The types the counts need, and an attempt that is not one too many.
Shapes ==
    /\ picks \in [Teams -> SUBSET script]
    /\ dist \in Counts(players)
    /\ step # "conflict" => attempt < Attempts

\* The demon and the first minions are picked, the locked ones among them.
EvilPicked ==
    AfterEvil => /\ Count("demon") = 1
                 /\ Locked("demon") \subseteq picks["demon"]
                 /\ Locked("minion") \subseteq picks["minion"]

\* They have been asked what they change, and there is room for them.
EvilAsked ==
    step = "extra" => /\ Count("minion") = MinionCount
                      /\ dist = Adjusted(Evil)
                      /\ dist.minion >= Count("minion")

\* The minions are as many as called for, or all there are; the outsiders are
\* no more than there are, and if nobody came in addition, as many as called for.
EvilSettled ==
    AfterExtra =>
        /\ dist.minion = Count("minion")
        /\ \/ Count("minion") = Base.minion + DeltaOf(minionDelta, picks["demon"])
           \/ picks["minion"] = Pool("minion")
        /\ Count("minion") = MinionCount =>
               dist.outsider = Min({AboveZero(Base.outsider + DeltaOf(outsiderDelta, Evil)),
                                    Cardinality(Pool("outsider"))})

\* The good characters are picked, the locked ones among them, and whoever is
\* exchanged later, there are as many of them.
GoodPicked ==
    AfterGood => /\ Locked("outsider") \subseteq picks["outsider"]
                 /\ Locked("townsfolk") \subseteq picks["townsfolk"]
                 /\ Count("outsider") + Count("townsfolk") = dist.outsider + dist.townsfolk

BeforeSwap == step = "swap" => Count("outsider") = dist.outsider

\* OutsidersAsRuled, from the swap on.
OutsidersRuled ==
    LET ruled == Adjusted(Selected).outsider IN
    /\ AfterSwap /\ Count("minion") = MinionCount
    /\ Base.outsider + DeltaOf(outsiderDelta, Evil) >= 0
    => \/ Count("outsider") = Min({ruled, Cardinality(Pool("outsider"))})
       \/ Count("outsider") < ruled /\ Swappable = {}

\* CompanionsCome, with those that are still to be seen to.
CompanyKept ==
    AfterSwap =>
        \A c \in Selected \cap DOMAIN companion :
            c \in companions \/ companion[c] \in Selected \/ c \in manual

TokensShowNobody ==
    /\ step \in {"bluffs", "done"} => companions = {} /\ \A s \in subs : s[2] \notin Selected
    /\ step = "done" => bluffs \cap Selected = {}

IInv ==
    /\ TypeOK /\ Shapes /\ EvilPicked /\ EvilAsked /\ EvilSettled /\ GoodPicked /\ BeforeSwap
    /\ OutsidersRuled /\ CompanyKept /\ TokensShowNobody

-----------------------------------------------------------------------------
(***************************************************************************)
(* What the steps share.                                                   *)
(***************************************************************************)
LEMMA MinOfTwo ==
  ASSUME NEW a \in Int, NEW b \in Int
  PROVE  Min({a, b}) = IF a <= b THEN a ELSE b
<1> DEFINE m == IF a <= b THEN a ELSE b
<1>1. m \in {a, b} /\ \A y \in {a, b} : m =< y
  OBVIOUS
<1>2. \A x \in {a, b} : (\A y \in {a, b} : x =< y) => x = m
  OBVIOUS
<1>3. QED
  BY <1>1, <1>2 DEF Min

LEMMA MinOfThree ==
  ASSUME NEW a \in Int, NEW b \in Int, NEW c \in Int
  PROVE  /\ Min({a, b, c}) \in {a, b, c}
         /\ Min({a, b, c}) <= a /\ Min({a, b, c}) <= b /\ Min({a, b, c}) <= c
<1> DEFINE m == IF a <= b /\ a <= c THEN a ELSE IF b <= c THEN b ELSE c
<1>1. m \in {a, b, c} /\ \A y \in {a, b, c} : m =< y
  OBVIOUS
<1>2. \A x \in {a, b, c} : (\A y \in {a, b, c} : x =< y) => x = m
  OBVIOUS
<1>3. Min({a, b, c}) = m
  <2> HIDE DEF m
  <2>1. QED
    BY <1>1, <1>2 DEF Min
<1>4. QED
  BY <1>1, <1>3

LEMMA PicksFacts ==
  ASSUME NEW t, NEW n, NEW chars \in Picks(t, n)
  PROVE  chars \in SUBSET Pool(t) /\ Cardinality(chars) = n /\ Locked(t) \subseteq chars
BY DEF Picks, kSubset

LEMMA kSubsetFacts ==
  ASSUME NEW S, NEW n, NEW chars \in kSubset(n, S)
  PROVE  chars \in SUBSET S /\ Cardinality(chars) = n
BY DEF kSubset

\* The request, and what is known of it.
LEMMA Request ==
  ASSUME TypeOK
  PROVE  script \in Scripts /\ players \in 5..15 /\ locked \subseteq script
BY SetupAssumption DEF TypeOK

LEMMA NoPicksFacts ==
  NoPicks \in [Teams -> SUBSET script] /\ \A t \in Teams : NoPicks[t] \subseteq Pool(t)
BY DEF NoPicks, Teams

\* The invariant where nothing is picked, or the request is answered with an error.
LEMMA Early ==
  /\ TypeOK /\ Shapes /\ step \in {"evil", "conflict", "short"} => IInv
  /\ TypeOK' /\ Shapes' /\ step' \in {"evil", "conflict", "short"} => IInv'
BY DEF IInv, EvilPicked, EvilAsked, EvilSettled, GoodPicked, BeforeSwap, OutsidersRuled,
       CompanyKept, TokensShowNobody, AfterEvil, AfterExtra, AfterGood, AfterSwap

LEMMA InitIInv == Init => IInv
<1> SUFFICES ASSUME Init PROVE IInv
  OBVIOUS
<1>1. script \in Scripts /\ players \in 5..15 /\ players \in Players /\ locked \subseteq script
  BY SetupAssumption DEF Init
<1>2. dist \in Counts(players) /\ dist \in [Teams -> 0..players]
  BY <1>1, BaseFacts, CountsAreTyped DEF Init
<1>3. Attempts \in Nat \ {0}
  BY SetupAssumption
<1>4. TypeOK
  BY <1>1, <1>2, <1>3, NoPicksFacts DEF TypeOK, Init
<1>5. Shapes
  BY <1>1, <1>2, <1>3, NoPicksFacts DEF Shapes, Init
<1>6. QED
  BY <1>4, <1>5, Early DEF Init

\* The request stays as it was, and what depends on it alone.
LEMMA SameFrame ==
  ASSUME Same
  PROVE  /\ script' = script /\ players' = players /\ locked' = locked
         /\ Pool("townsfolk")' = Pool("townsfolk") /\ Pool("outsider")' = Pool("outsider")
         /\ Pool("minion")' = Pool("minion") /\ Pool("demon")' = Pool("demon")
         /\ Locked("townsfolk")' = Locked("townsfolk") /\ Locked("outsider")' = Locked("outsider")
         /\ Locked("minion")' = Locked("minion") /\ Locked("demon")' = Locked("demon")
         /\ Base' = Base /\ MinionCount' = MinionCount
BY DEF Same, Pool, Locked, Base, MinionCount

-----------------------------------------------------------------------------
(***************************************************************************)
(* Every step keeps the invariant.                                         *)
(***************************************************************************)
LEMMA StepGive ==
  ASSUME IInv, step \in {"evil", "good"}, NEW how \in {"conflict", "short"}, Give(how)
  PROVE  IInv'
<1>1. TypeOK' /\ Shapes'
  BY DEF IInv, TypeOK, Shapes, Give, Same, Pool
<1>2. step' \in {"evil", "conflict", "short"}
  BY DEF Give
<1>3. QED
  BY <1>1, <1>2, Early

LEMMA StepLockConflict ==
  ASSUME IInv, step \in {"evil", "good"}, LockConflict
  PROVE  IInv'
<1>0. Attempts \in Nat /\ attempt \in 0..Attempts /\ attempt < Attempts
  BY SetupAssumption DEF IInv, TypeOK, Shapes
<1>1. attempt' \in 0..Attempts /\ (step' # "conflict" => attempt' < Attempts)
  BY <1>0 DEF LockConflict
<1>2. step' \in {"evil", "conflict", "short"}
  BY DEF LockConflict
<1>3. script \in Scripts /\ players \in 5..15
  BY Request DEF IInv
<1>4. dist' \in Counts(players) /\ dist' \in [Teams -> 0..players]
  BY <1>3, BaseFacts, CountsAreTyped DEF LockConflict
<1>5. TypeOK'
  BY <1>1, <1>2, <1>4, NoPicksFacts DEF IInv, TypeOK, LockConflict, Same, Pool
<1>6. Shapes'
  BY <1>1, <1>4, NoPicksFacts DEF Shapes, LockConflict, Same
<1>7. QED
  BY <1>2, <1>5, <1>6, Early

LEMMA StepPickEvil ==
  ASSUME IInv, PickEvil
  PROVE  IInv'
<1>1. script \in Scripts /\ players \in 5..15 /\ step = "evil"
  BY Request DEF IInv, PickEvil
<1>2. PICK d \in Picks("demon", Base.demon), m \in Picks("minion", MinionCount) :
        LET ruled == Adjusted(d \cup m) IN
        \/ ruled.minion < MinionCount /\ LockConflict
        \/ /\ ruled.minion >= MinionCount
           /\ dist' = ruled
           /\ picks' = [NoPicks EXCEPT !["demon"] = d, !["minion"] = m]
           /\ manual' = (d \cup m) \cap byHand
           /\ step' = "extra"
           /\ Same /\ UNCHANGED <<attempt, companions, drunk, subs, bluffs>>
  BY DEF PickEvil
<1>3. CASE LockConflict
  BY <1>1, <1>3, StepLockConflict
<1>4. CASE /\ Adjusted(d \cup m).minion >= MinionCount
           /\ dist' = Adjusted(d \cup m)
           /\ picks' = [NoPicks EXCEPT !["demon"] = d, !["minion"] = m]
           /\ manual' = (d \cup m) \cap byHand
           /\ step' = "extra"
           /\ Same /\ UNCHANGED <<attempt, companions, drunk, subs, bluffs>>
  <2>1. /\ d \in SUBSET Pool("demon") /\ Cardinality(d) = 1 /\ Locked("demon") \subseteq d
        /\ m \in SUBSET Pool("minion") /\ Cardinality(m) = MinionCount
        /\ Locked("minion") \subseteq m
    BY <1>1, PicksFacts, BaseFacts
  <2>2. dist' \in Counts(players) /\ dist' \in [Teams -> 0..players]
    <3>1. Adjusted(d \cup m) \in Counts(players)
      BY <1>1, <2>1, EvilAdjusts
    <3>2. players \in Nat \ {0}
      BY <1>1
    <3>3. QED
      BY <1>4, <3>1, <3>2, CountsAreTyped
  <2>3. /\ picks' \in [Teams -> SUBSET script]
        /\ picks'["demon"] = d /\ picks'["minion"] = m
        /\ picks'["outsider"] = {} /\ picks'["townsfolk"] = {}
    BY <1>4, <2>1 DEF NoPicks, Teams, Pool
  <2>4. Evil' = d \cup m
    BY <2>3 DEF Evil
  <2>5. TypeOK'
    <3>1. \A t \in Teams : picks'[t] \subseteq {c \in script : Team[c] = t}
      BY <2>1, <2>3 DEF Teams, Pool
    <3>2. manual' \subseteq SetupCharacters
      BY <1>4 DEF SetupCharacters
    <3>3. QED
      BY <1>4, <2>2, <3>1, <3>2 DEF IInv, TypeOK, Same, Pool
  <2>6. Shapes'
    BY <1>1, <1>4, <2>2, <2>3 DEF IInv, Shapes, Same
  <2>7. EvilPicked'
    BY <1>4, <2>1, <2>3, SameFrame DEF EvilPicked, Count
  <2>8. EvilAsked'
    <3>1. Adjusted(Evil)' = Adjusted(d \cup m)
      BY <1>4, <2>4 DEF Adjusted, Base, Same
    <3>2. QED
      BY <1>4, <2>1, <2>3, <3>1, SameFrame DEF EvilAsked, Count
  <2>9. EvilSettled' /\ GoodPicked' /\ BeforeSwap' /\ OutsidersRuled' /\ CompanyKept' /\ TokensShowNobody'
    BY <1>4 DEF EvilSettled, GoodPicked, BeforeSwap, OutsidersRuled, CompanyKept,
                TokensShowNobody, AfterExtra, AfterGood, AfterSwap
  <2>10. QED
    BY <2>5, <2>6, <2>7, <2>8, <2>9 DEF IInv
<1>5. QED
  BY <1>2, <1>3, <1>4

\* With the minions m the counts add up, and none is below zero.
LEMMA SettledCounts ==
  ASSUME script \in Scripts, players \in 5..15, dist \in Counts(players),
         NEW m \in SUBSET Pool("minion"), Cardinality(m) <= dist.minion
  PROVE  LET d == WithMinions(m)
             e == ClampOutsiders(d)
         IN  /\ e \in Counts(players) /\ e.minion = Cardinality(m)
             /\ e.outsider = Min({dist.outsider, Cardinality(Pool("outsider"))})
<1> DEFINE k == Cardinality(m)
<1> DEFINE p == Cardinality(Pool("outsider"))
<1> DEFINE dt == dist.townsfolk
<1> DEFINE do == dist.outsider
<1> DEFINE dm == dist.minion
<1> DEFINE d == WithMinions(m)
<1> DEFINE gone == AboveZero(do - p)
<1>1. /\ dt \in 0..players /\ do \in 0..players /\ dm \in 0..players /\ dist.demon = 1
      /\ dt + do + dm + 1 = players
  BY CountsFields
<1>2. k \in Nat /\ p \in Nat /\ k <= dm
  BY PoolIsFinite
<1>3. d.townsfolk = players - do - k - 1 /\ d.outsider = do /\ d.minion = k
  <2>1. CASE k = dm
    <3>1. d = dist
      BY <2>1 DEF WithMinions
    <3> HIDE DEF d, k, dt, do, dm
    <3>2. d.townsfolk = dt /\ d.outsider = do /\ d.minion = dm
      BY <3>1 DEF dt, do, dm
    <3>3. QED
      BY <1>1, <1>2, <2>1, <3>2
  <2>2. CASE k # dm
    <3>1. d = Distribution(players - do - k - 1, do, k)
      BY <1>1, <2>2 DEF WithMinions
    <3>2. QED
      BY <3>1 DEF Distribution
  <2>3. QED
    BY <2>1, <2>2
<1>4. ClampOutsiders(d) = Distribution(d.townsfolk + gone, d.outsider - gone, d.minion)
  BY <1>3 DEF ClampOutsiders
<1>5. Min({do, p}) = IF do <= p THEN do ELSE p
  BY <1>1, <1>2, MinOfTwo
<1> HIDE DEF k, p, dt, do, dm
<1>6. do - gone = Min({do, p}) /\ gone \in Nat /\ do - gone \in Nat
  BY <1>1, <1>2, <1>5 DEF AboveZero
<1> HIDE DEF gone, d
<1>7. ClampOutsiders(d) \in Counts(players)
  <2>1. players - do - k - 1 + gone \in Nat
    BY <1>1, <1>2, <1>6
  <2>2. players - do - k - 1 + gone + (do - gone) + k + 1 = players
    BY <1>1, <1>2, <1>6
  <2>3. QED
    BY <1>2, <1>3, <1>4, <1>6, <2>1, <2>2, CountsOf
<1>8. ClampOutsiders(d).minion = k /\ ClampOutsiders(d).outsider = do - gone
  BY <1>3, <1>4 DEF Distribution
<1>9. QED
  BY <1>6, <1>7, <1>8 DEF d, k, do, p

LEMMA DisjointUnion ==
  ASSUME NEW S, NEW T, IsFiniteSet(S), IsFiniteSet(T), S \cap T = {}
  PROVE  IsFiniteSet(S \cup T) /\ Cardinality(S \cup T) = Cardinality(S) + Cardinality(T)
<1>1. Cardinality(S) \in Nat /\ Cardinality(T) \in Nat
  BY FS_CardinalityType
<1>2. Cardinality(S \cap T) = 0
  BY FS_EmptySet
<1>3. /\ IsFiniteSet(S \cup T)
      /\ Cardinality(S \cup T) = Cardinality(S) + Cardinality(T) - Cardinality(S \cap T)
  BY FS_Union
<1>4. QED
  BY <1>1, <1>2, <1>3

LEMMA Removed ==
  ASSUME NEW S, IsFiniteSet(S), NEW T \in SUBSET S
  PROVE  IsFiniteSet(S \ T) /\ Cardinality(S \ T) = Cardinality(S) - Cardinality(T)
<1>1. S \cap T = T
  OBVIOUS
<1>2. QED
  BY <1>1, FS_Difference

LEMMA StepPickExtra ==
  ASSUME IInv, PickExtra
  PROVE  IInv'
<1> DEFINE rest == Pool("minion") \ picks["minion"]
<1> DEFINE needed == dist.minion - Count("minion")
<1>1. /\ script \in Scripts /\ players \in 5..15 /\ step = "extra" /\ step' = "good"
      /\ Same /\ UNCHANGED <<attempt, companions, drunk, manual, subs, bluffs>>
  BY Request DEF IInv, PickExtra
<1>2. PICK extra \in IF needed > Cardinality(rest) THEN {rest} ELSE kSubset(needed, rest) :
        LET m == picks["minion"] \cup extra IN
        /\ picks' = [picks EXCEPT !["minion"] = m]
        /\ dist' = ClampOutsiders(WithMinions(m))
  BY DEF PickExtra
<1> DEFINE m == picks["minion"] \cup extra
<1>3. /\ picks \in [Teams -> SUBSET script] /\ dist \in Counts(players)
      /\ picks["demon"] \in SUBSET Pool("demon") /\ picks["minion"] \in SUBSET Pool("minion")
      /\ picks["outsider"] \in SUBSET Pool("outsider")
      /\ picks["townsfolk"] \in SUBSET Pool("townsfolk")
  BY DEF IInv, TypeOK, Shapes, Teams
<1>4. /\ Cardinality(picks["demon"]) = 1 /\ Cardinality(picks["minion"]) = MinionCount
      /\ dist = Adjusted(Evil) /\ dist.minion >= Cardinality(picks["minion"])
      /\ Locked("demon") \subseteq picks["demon"] /\ Locked("minion") \subseteq picks["minion"]
  BY <1>1 DEF IInv, EvilPicked, EvilAsked, AfterEvil, Count
<1>5. /\ dist.minion = Base.minion + DeltaOf(minionDelta, picks["demon"])
      /\ dist.outsider = AboveZero(Base.outsider + DeltaOf(outsiderDelta, Evil))
  BY <1>1, <1>3, <1>4, EvilAdjusts DEF Evil
<1>6. dist.minion \in Nat /\ dist.outsider \in Nat
  BY <1>1, <1>3, CountsFields
<1>7. /\ extra \in SUBSET rest
      /\ \/ Cardinality(extra) = needed
         \/ extra = rest /\ Cardinality(rest) < needed
  <2>1. CASE needed > Cardinality(rest)
    BY <1>2, <2>1
  <2>2. CASE ~(needed > Cardinality(rest))
    <3>1. extra \in kSubset(needed, rest)
      BY <1>2, <2>2
    <3> HIDE DEF needed, rest
    <3>2. QED
      BY <3>1, kSubsetFacts
  <2>3. QED
    BY <2>1, <2>2
<1>8. /\ IsFiniteSet(picks["minion"]) /\ IsFiniteSet(extra) /\ picks["minion"] \cap extra = {}
      /\ Cardinality(picks["minion"]) \in Nat /\ Cardinality(extra) \in Nat
      /\ Cardinality(rest) \in Nat
      /\ m \in SUBSET Pool("minion")
  <2>1. extra \in SUBSET Pool("minion") /\ rest \in SUBSET Pool("minion")
    BY <1>7
  <2>2. QED
    BY <1>1, <1>3, <1>7, <2>1, PoolIsFinite
<1>9. Cardinality(m) = Cardinality(picks["minion"]) + Cardinality(extra)
  BY <1>8, DisjointUnion
<1>10. Cardinality(m) <= dist.minion /\ (Cardinality(m) = dist.minion \/ m = Pool("minion"))
  <2>1. CASE Cardinality(extra) = needed
    BY <1>6, <1>8, <1>9, <2>1 DEF Count
  <2>2. CASE extra = rest /\ Cardinality(rest) < needed
    <3>1. m = Pool("minion")
      BY <1>3, <2>2
    <3>2. needed = dist.minion - Cardinality(picks["minion"])
      BY DEF Count
    <3> HIDE DEF rest, m, needed
    <3>3. QED
      BY <1>6, <1>8, <1>9, <2>2, <3>1, <3>2
  <2>3. QED
    BY <1>7, <2>1, <2>2
<1>11. Cardinality(m) = MinionCount => m = picks["minion"]
  BY <1>4, <1>8, <1>9, FS_EmptySet
<1> HIDE DEF rest, needed, m
<1>12. /\ dist' \in Counts(players) /\ dist'.minion = Cardinality(m)
       /\ dist'.outsider = Min({dist.outsider, Cardinality(Pool("outsider"))})
  BY <1>1, <1>2, <1>3, <1>8, <1>10, SettledCounts DEF m
<1>13. dist' \in [Teams -> 0..players]
  BY <1>1, <1>12, CountsAreTyped
<1>14. /\ picks' \in [Teams -> SUBSET script] /\ picks'["minion"] = m
       /\ picks'["demon"] = picks["demon"] /\ picks'["outsider"] = picks["outsider"]
       /\ picks'["townsfolk"] = picks["townsfolk"]
  BY <1>2, <1>3, <1>8 DEF Teams, Pool, m
<1>15. TypeOK'
  <2>1. \A t \in Teams : picks'[t] \subseteq {c \in script : Team[c] = t}
    BY <1>3, <1>8, <1>14 DEF Teams, Pool
  <2>2. QED
    BY <1>1, <1>13, <2>1 DEF IInv, TypeOK, Same, Pool
<1>16. Shapes'
  BY <1>1, <1>12, <1>14 DEF IInv, Shapes, Same
<1>17. EvilPicked'
  BY <1>1, <1>4, <1>14, SameFrame DEF EvilPicked, Count, m
<1>18. EvilSettled'
  <2>1. Cardinality(m) = MinionCount => Evil' = Evil
    BY <1>11, <1>14 DEF Evil
  <2>2. /\ dist'.minion = Cardinality(picks'["minion"])
        /\ \/ Cardinality(picks'["minion"]) = Base.minion + DeltaOf(minionDelta, picks'["demon"])
           \/ picks'["minion"] = Pool("minion")
    BY <1>5, <1>10, <1>12, <1>14
  <2>3. Cardinality(picks'["minion"]) = MinionCount =>
          dist'.outsider = Min({AboveZero(Base.outsider + DeltaOf(outsiderDelta, Evil')),
                                Cardinality(Pool("outsider"))})
    BY <1>5, <1>12, <1>14, <2>1
  <2>4. QED
    BY <1>1, <2>2, <2>3, SameFrame DEF EvilSettled, Count, AboveZero
<1>19. EvilAsked' /\ GoodPicked' /\ BeforeSwap' /\ OutsidersRuled' /\ CompanyKept' /\ TokensShowNobody'
  BY <1>1 DEF EvilAsked, GoodPicked, BeforeSwap, OutsidersRuled, CompanyKept,
              TokensShowNobody, AfterGood, AfterSwap
<1>20. QED
  BY <1>15, <1>16, <1>17, <1>18, <1>19 DEF IInv

\* The characters picked, and those of a later state of which as much is known.
LEMMA Picked ==
  ASSUME IInv
  PROVE  /\ script \in Scripts /\ players \in 5..15 /\ dist \in Counts(players)
         /\ picks \in [Teams -> SUBSET script]
         /\ picks["demon"] \in SUBSET Pool("demon") /\ picks["minion"] \in SUBSET Pool("minion")
         /\ picks["outsider"] \in SUBSET Pool("outsider")
         /\ picks["townsfolk"] \in SUBSET Pool("townsfolk")
         /\ \A t \in Teams : IsFiniteSet(picks[t]) /\ Cardinality(picks[t]) \in Nat
<1>1. script \in Scripts /\ players \in 5..15
  BY Request DEF IInv
<1>2. \A t \in Teams : picks[t] \in SUBSET Pool(t)
  BY DEF IInv, TypeOK
<1>3. \A t \in Teams : IsFiniteSet(picks[t]) /\ Cardinality(picks[t]) \in Nat
  BY <1>1, <1>2, PoolIsFinite
<1>4. QED
  BY <1>1, <1>2, <1>3 DEF IInv, Shapes, Teams

\* TypeOK and Shapes, after a step that leaves the request and the counts alone.
LEMMA TypesKept ==
  ASSUME IInv, Same, dist' = dist, attempt' = attempt, step # "conflict",
         step' \in {"swap", "companions", "bluffs", "done"},
         NEW o, o \in SUBSET Pool("outsider"), NEW t, t \in SUBSET Pool("townsfolk"),
         picks' = [picks EXCEPT !["outsider"] = o, !["townsfolk"] = t],
         companions' \subseteq DOMAIN companion, drunk' \subseteq DOMAIN bagTeam,
         manual' \subseteq SetupCharacters,
         subs' \subseteq (DOMAIN bagTeam) \X (script \cup {Nobody}), bluffs' \subseteq script
  PROVE  /\ TypeOK' /\ Shapes'
         /\ picks'["demon"] = picks["demon"] /\ picks'["minion"] = picks["minion"]
         /\ picks'["outsider"] = o /\ picks'["townsfolk"] = t
<1>1. /\ picks' \in [Teams -> SUBSET script]
      /\ picks'["demon"] = picks["demon"] /\ picks'["minion"] = picks["minion"]
      /\ picks'["outsider"] = o /\ picks'["townsfolk"] = t
  BY Picked DEF Teams, Pool
<1>2. \A u \in Teams : picks'[u] \subseteq {c \in script : Team[c] = u}
  BY <1>1, Picked DEF Teams, Pool
<1>3. TypeOK'
  BY <1>2 DEF IInv, TypeOK, Same, Pool
<1>4. Shapes'
  BY <1>1 DEF IInv, Shapes, Same
<1>5. QED
  BY <1>1, <1>3, <1>4

\* The evil half is settled once the good characters are to be picked.
LEMMA EvilKept ==
  ASSUME IInv, Same, dist' = dist, AfterExtra, step' # "extra",
         picks'["demon"] = picks["demon"], picks'["minion"] = picks["minion"]
  PROVE  EvilPicked' /\ EvilAsked' /\ EvilSettled' /\ Evil' = Evil
<1>1. EvilPicked'
  BY SameFrame DEF IInv, EvilPicked, AfterEvil, Count
<1>2. EvilAsked'
  BY DEF EvilAsked
<1>3. Evil' = Evil
  BY DEF Evil
<1>4. EvilSettled'
  BY <1>3, SameFrame DEF IInv, EvilSettled, Count, AboveZero
<1>5. QED
  BY <1>1, <1>2, <1>3, <1>4

LEMMA StepPickGood ==
  ASSUME IInv, PickGood
  PROVE  IInv'
<1>1. /\ step = "good" /\ step' = "swap" /\ Same
      /\ UNCHANGED <<attempt, dist, companions, drunk, manual, subs, bluffs>>
  BY DEF PickGood
<1>2. PICK o \in Picks("outsider", dist.outsider), t \in Picks("townsfolk", dist.townsfolk) :
        picks' = [picks EXCEPT !["outsider"] = o, !["townsfolk"] = t]
  BY DEF PickGood
<1>3. /\ o \in SUBSET Pool("outsider") /\ Cardinality(o) = dist.outsider
      /\ Locked("outsider") \subseteq o
      /\ t \in SUBSET Pool("townsfolk") /\ Cardinality(t) = dist.townsfolk
      /\ Locked("townsfolk") \subseteq t
  BY PicksFacts
<1>4. /\ companions' \subseteq DOMAIN companion /\ drunk' \subseteq DOMAIN bagTeam
      /\ manual' \subseteq SetupCharacters /\ bluffs' \subseteq script
      /\ subs' \subseteq (DOMAIN bagTeam) \X (script \cup {Nobody})
  BY <1>1 DEF IInv, TypeOK
<1>5. /\ TypeOK' /\ Shapes'
      /\ picks'["demon"] = picks["demon"] /\ picks'["minion"] = picks["minion"]
      /\ picks'["outsider"] = o /\ picks'["townsfolk"] = t
  BY <1>1, <1>2, <1>3, <1>4, TypesKept
<1>6. EvilPicked' /\ EvilAsked' /\ EvilSettled'
  BY <1>1, <1>5, EvilKept DEF AfterExtra
<1>7. GoodPicked' /\ BeforeSwap'
  BY <1>1, <1>3, <1>5, SameFrame DEF GoodPicked, BeforeSwap, Count
<1>8. OutsidersRuled' /\ CompanyKept' /\ TokensShowNobody'
  BY <1>1 DEF OutsidersRuled, CompanyKept, TokensShowNobody, AfterSwap
<1>9. QED
  BY <1>5, <1>6, <1>7, <1>8 DEF IInv

\* The good characters add an outsider for the Balloonist.
LEMMA GoodDeltas ==
  ASSUME script \in Scripts, NEW o \in SUBSET Pool("outsider"), NEW t \in SUBSET Pool("townsfolk")
  PROVE  DeltaOf(outsiderDelta, o \cup t) = One("balloonist", t)
<1>1. DeltaOf(outsiderDelta, o \cup t) = OutsiderSum(o \cup t)
  BY PoolIsFinite, FS_Union, OutsiderSums
<1>2. /\ \A c \in o \cup t : c \notin {"fanggu", "vigormortis", "baron", "godfather"}
      /\ \A c \in o : c # "balloonist"
  BY ScriptFacts DEF Pool
<1>3. OutsiderSum(o \cup t) = One("balloonist", t)
  BY <1>2 DEF OutsiderSum, One
<1>4. QED
  BY <1>1, <1>3

\* What all the characters change.
LEMMA AllAdjusts ==
  ASSUME script \in Scripts, players \in 5..15,
         NEW d \in SUBSET Pool("demon"), Cardinality(d) = 1, NEW m \in SUBSET Pool("minion"),
         NEW o \in SUBSET Pool("outsider"), NEW t \in SUBSET Pool("townsfolk")
  PROVE  LET all == d \cup m \cup o \cup t IN
         /\ Adjusted(all).demon = 1
         /\ Adjusted(all).minion = Base.minion + DeltaOf(minionDelta, d)
         /\ Adjusted(all).outsider
              = AboveZero(Base.outsider + DeltaOf(outsiderDelta, d \cup m) + One("balloonist", t))
<1> DEFINE all == d \cup m \cup o \cup t
<1>1. /\ IsFiniteSet(d) /\ IsFiniteSet(m) /\ IsFiniteSet(o) /\ IsFiniteSet(t)
      /\ IsFiniteSet(d \cup m) /\ IsFiniteSet(all)
  BY PoolIsFinite, FS_Union
<1>2. /\ DeltaOf(outsiderDelta, d \cup m) = OutsiderSum(d \cup m)
      /\ DeltaOf(outsiderDelta, all) = OutsiderSum(all)
      /\ DeltaOf(minionDelta, d) = MinionSum(d) /\ DeltaOf(minionDelta, all) = MinionSum(all)
  <2> HIDE DEF all
  <2>1. QED
    BY <1>1, OutsiderSums, MinionSums
<1>3. /\ \A c \in o \cup t : c \notin {"fanggu", "vigormortis", "baron", "godfather",
                                       "lilmonsta", "lordoftyphon"}
      /\ \A c \in d \cup m \cup o : c # "balloonist"
      /\ \A c \in m : c \notin {"lilmonsta", "lordoftyphon"}
  BY ScriptFacts DEF Pool
<1>5. OutsiderSum(all) = OutsiderSum(d \cup m) + One("balloonist", t)
  BY <1>3 DEF OutsiderSum, One
<1>6. MinionSum(all) = MinionSum(d)
  BY <1>3 DEF MinionSum, One
<1>7. Base.minion \in 1..3 /\ DeltaOf(minionDelta, d) \in 0..1
  BY BaseFacts, EvilDeltas
<1> HIDE DEF all
<1>8. /\ Adjusted(all).demon = 1
      /\ Adjusted(all).minion = AboveZero(Base.minion + DeltaOf(minionDelta, all))
      /\ Adjusted(all).outsider = AboveZero(Base.outsider + DeltaOf(outsiderDelta, all))
  BY DEF Adjusted, Distribution
<1>9. AboveZero(Base.minion + DeltaOf(minionDelta, d)) = Base.minion + DeltaOf(minionDelta, d)
  BY <1>7 DEF AboveZero
<1>10. Base.outsider + DeltaOf(outsiderDelta, all)
         = Base.outsider + DeltaOf(outsiderDelta, d \cup m) + One("balloonist", t)
  <2>1. Base.outsider \in 0..2 /\ DeltaOf(outsiderDelta, d \cup m) \in Int /\ One("balloonist", t) \in Int
    BY BaseFacts, EvilDeltas DEF One
  <2>2. DeltaOf(outsiderDelta, all) = DeltaOf(outsiderDelta, d \cup m) + One("balloonist", t)
    BY <1>2, <1>5
  <2>3. QED
    BY <2>1, <2>2
<1>11. QED
  BY <1>2, <1>6, <1>8, <1>9, <1>10 DEF all

LEMMA SelectedParts ==
  /\ Selected = picks["demon"] \cup picks["minion"] \cup picks["outsider"] \cup picks["townsfolk"]
  /\ Selected' = picks'["demon"] \cup picks'["minion"] \cup picks'["outsider"] \cup picks'["townsfolk"]
BY DEF Selected, Teams

\* The same in the next state of a step that leaves the request alone.
LEMMA NextAdjusts ==
  ASSUME Same, NEW S, Selected' = S
  PROVE  (Adjusted(Selected))' = Adjusted(S)
BY DEF Adjusted, Base, Same

\* What the picked characters call for, with o and t the good ones.
LEMMA AskedOutsiders ==
  ASSUME script \in Scripts, players \in 5..15,
         picks["demon"] \in SUBSET Pool("demon"), Cardinality(picks["demon"]) = 1,
         picks["minion"] \in SUBSET Pool("minion"),
         NEW o, o \in SUBSET Pool("outsider"), NEW t, t \in SUBSET Pool("townsfolk"),
         NEW S, S = picks["demon"] \cup picks["minion"] \cup o \cup t
  PROVE  Adjusted(S).outsider
           = AboveZero(Base.outsider + DeltaOf(outsiderDelta, Evil) + One("balloonist", t))
BY AllAdjusts DEF Evil

\* The Swap's arithmetic: from e outsiders called for by the evil characters, and
\* one more if b, with p on the script, of whom min(e, p) are picked, and w
\* townsfolk that could go.
LEMMA SwapCounts ==
  ASSUME NEW e \in Nat, NEW b \in 0..1, NEW p \in Nat, NEW w \in Nat, NEW o \in Nat,
         o = (IF e <= p THEN e ELSE p),
         NEW n \in {b, p - o, w}, n <= b, n <= p - o, n <= w
  PROVE  \/ o + n = IF e + b <= p THEN e + b ELSE p
         \/ o + n < e + b /\ w = 0
OBVIOUS

LEMMA StepSwap ==
  ASSUME IInv, Swap
  PROVE  IInv'
<1> DEFINE rest == Pool("outsider") \ picks["outsider"]
<1> DEFINE n == Min({goodDelta, Cardinality(rest), Cardinality(Swappable)})
<1>1. /\ step = "swap" /\ step' = "companions" /\ Same
      /\ UNCHANGED <<attempt, dist, manual, subs, bluffs>>
  BY DEF Swap
<1>2. PICK gone \in kSubset(n, Swappable), come \in kSubset(n, rest) :
        LET now == [picks EXCEPT !["townsfolk"] = @ \ gone, !["outsider"] = @ \cup come]
            allSelected == UNION {now[t] : t \in Teams}
        IN  /\ picks' = now
            /\ companions' = allSelected \cap DOMAIN companion
            /\ drunk' = allSelected \cap DOMAIN bagTeam
  BY DEF Swap
<1> DEFINE ot == picks["outsider"]
<1> DEFINE tf == picks["townsfolk"]
<1> DEFINE o == ot \cup come
<1> DEFINE t == tf \ gone
<1>3. /\ picks' = [picks EXCEPT !["outsider"] = o, !["townsfolk"] = t]
      /\ companions' = Selected' \cap DOMAIN companion /\ drunk' = Selected' \cap DOMAIN bagTeam
  <2>1. picks \in [Teams -> SUBSET script]
    BY Picked
  <2>2. [picks EXCEPT !["townsfolk"] = @ \ gone, !["outsider"] = @ \cup come]
          = [picks EXCEPT !["outsider"] = o, !["townsfolk"] = t]
    BY <2>1 DEF Teams
  <2>3. QED
    BY <1>2, <2>2 DEF Selected
<1>4. /\ script \in Scripts /\ players \in 5..15
      /\ picks["demon"] \in SUBSET Pool("demon") /\ picks["minion"] \in SUBSET Pool("minion")
      /\ ot \in SUBSET Pool("outsider") /\ tf \in SUBSET Pool("townsfolk")
      /\ IsFiniteSet(ot) /\ IsFiniteSet(tf)
  BY Picked DEF Teams
<1>5. /\ gone \in SUBSET Swappable /\ Cardinality(gone) = n
      /\ come \in SUBSET rest /\ Cardinality(come) = n
  <2> HIDE DEF n, rest
  <2>1. QED
    BY kSubsetFacts
<1>6. /\ Swappable \in SUBSET tf /\ IsFiniteSet(Swappable) /\ Cardinality(Swappable) \in Nat
      /\ Swappable \cap locked = {} /\ "balloonist" \notin Swappable
  <2>1. Swappable \in SUBSET tf /\ Swappable \cap locked = {} /\ "balloonist" \notin Swappable
    BY TableDeltas DEF Swappable
  <2>2. QED
    BY <1>4, <2>1, FS_Subset, FS_CardinalityType
<1>7. o \in SUBSET Pool("outsider") /\ t \in SUBSET Pool("townsfolk")
  BY <1>4, <1>5
<1>8. /\ TypeOK' /\ Shapes'
      /\ picks'["demon"] = picks["demon"] /\ picks'["minion"] = picks["minion"]
      /\ picks'["outsider"] = o /\ picks'["townsfolk"] = t
  <2>1. /\ companions' \subseteq DOMAIN companion /\ drunk' \subseteq DOMAIN bagTeam
        /\ manual' \subseteq SetupCharacters /\ bluffs' \subseteq script
        /\ subs' \subseteq (DOMAIN bagTeam) \X (script \cup {Nobody})
    BY <1>1, <1>3 DEF IInv, TypeOK
  <2> HIDE DEF o, t
  <2>2. QED
    BY <1>1, <1>3, <1>7, <2>1, TypesKept
<1>9. EvilPicked' /\ EvilAsked' /\ EvilSettled' /\ Evil' = Evil
  BY <1>1, <1>8, EvilKept DEF AfterExtra, AfterGood
<1> DEFINE p == Cardinality(Pool("outsider"))
<1>10. /\ Cardinality(ot) \in Nat /\ Cardinality(tf) \in Nat /\ p \in Nat
       /\ Cardinality(ot) = dist.outsider
       /\ Cardinality(ot) + Cardinality(tf) = dist.outsider + dist.townsfolk
       /\ Locked("outsider") \subseteq ot /\ Locked("townsfolk") \subseteq tf
       /\ Cardinality(picks["demon"]) = 1
  BY <1>1, <1>4, PoolIsFinite DEF IInv, GoodPicked, BeforeSwap, EvilPicked, AfterGood,
                                   AfterExtra, AfterEvil, Count
<1>11. Cardinality(rest) = p - Cardinality(ot)
  BY <1>4, PoolIsFinite, Removed
<1>12. goodDelta = One("balloonist", tf) /\ One("balloonist", tf) \in 0..1
  <2>1. DeltaOf(outsiderDelta, ot \cup tf) = One("balloonist", tf)
    <3> HIDE DEF ot, tf
    <3>1. QED
      BY <1>4, GoodDeltas
  <2>2. QED
    BY <2>1 DEF goodDelta, One
<1>13. n \in Int
  <2>1. goodDelta \in Int /\ Cardinality(rest) \in Int /\ Cardinality(Swappable) \in Int
    BY <1>6, <1>10, <1>11, <1>12
  <2> HIDE DEF rest
  <2>2. Min({goodDelta, Cardinality(rest), Cardinality(Swappable)})
          \in {goodDelta, Cardinality(rest), Cardinality(Swappable)}
    BY <2>1, MinOfThree
  <2>3. QED
    BY <2>1, <2>2
<1>14. Cardinality(o) = Cardinality(ot) + n /\ Cardinality(t) = Cardinality(tf) - n
  <2>1. IsFiniteSet(come) /\ ot \cap come = {}
    BY <1>4, <1>5, PoolIsFinite
  <2>2. gone \in SUBSET tf
    BY <1>5, <1>6
  <2> HIDE DEF n, rest, ot, tf
  <2>3. QED
    BY <1>4, <1>5, <2>1, <2>2, DisjointUnion, Removed
<1>15. GoodPicked'
  <2>1. Locked("outsider") \subseteq o /\ Locked("townsfolk") \subseteq t
    BY <1>5, <1>6, <1>10 DEF Locked
  <2> HIDE DEF n, o, t, ot, tf
  <2>2. Cardinality(o) + Cardinality(t) = dist.outsider + dist.townsfolk
    BY <1>10, <1>13, <1>14
  <2>3. QED
    BY <1>1, <1>8, <2>1, <2>2, SameFrame DEF GoodPicked, Count
<1>16. BeforeSwap' /\ CompanyKept' /\ TokensShowNobody'
  BY <1>1, <1>3 DEF BeforeSwap, CompanyKept, TokensShowNobody
<1>17. OutsidersRuled'
  <2> DEFINE e == Base.outsider + DeltaOf(outsiderDelta, Evil)
  <2> DEFINE b == One("balloonist", tf)
  <2> SUFFICES ASSUME Cardinality(picks["minion"]) = MinionCount, e >= 0
               PROVE  LET ruled == Adjusted(Selected').outsider IN
                      \/ Cardinality(o) = Min({ruled, p})
                      \/ Cardinality(o) < ruled /\ Swappable' = {}
    <3>1. (Adjusted(Selected))' = Adjusted(Selected')
      BY <1>1, NextAdjusts
    <3>2. Base' = Base /\ Pool("outsider")' = Pool("outsider") /\ MinionCount' = MinionCount
      BY <1>1, SameFrame
    <3>3. QED
      BY <1>8, <1>9, <3>1, <3>2 DEF OutsidersRuled, Count
  <2>1. e \in Nat /\ AboveZero(e) = e
    <3>1. DeltaOf(outsiderDelta, Evil) \in -2..3
      BY <1>4, <1>10, EvilDeltas DEF Evil
    <3>2. Base.outsider \in 0..2
      BY <1>4, BaseFacts
    <3>3. QED
      BY <3>1, <3>2 DEF AboveZero
  <2>2. Cardinality(ot) = Min({e, p})
    BY <1>1, <1>10, <2>1 DEF IInv, EvilSettled, AfterExtra, AfterGood, Count
  <2>3. One("balloonist", t) = b
    BY <1>5, <1>6 DEF One
  <2>4. Adjusted(Selected').outsider = e + b
    <3>1. Selected' = picks["demon"] \cup picks["minion"] \cup o \cup t
      BY <1>8, SelectedParts
    <3>2. Adjusted(Selected').outsider
            = AboveZero(Base.outsider + DeltaOf(outsiderDelta, Evil) + One("balloonist", t))
      <4>1. Cardinality(picks["demon"]) = 1
        BY <1>10
      <4> HIDE DEF o, t
      <4>2. QED
        BY <1>4, <1>7, <3>1, <4>1, AskedOutsiders
    <3> HIDE DEF b
    <3>3. AboveZero(e + b) = e + b
      <4> HIDE DEF e
      <4>1. QED
        BY <1>12, <2>1 DEF AboveZero, b
    <3>4. QED
      BY <2>3, <3>2, <3>3
  <2>5. \/ Cardinality(o) = Min({e + b, p})
        \/ Cardinality(o) < e + b /\ Cardinality(Swappable) = 0
    <3>1. n = Min({b, Cardinality(rest), Cardinality(Swappable)}) /\ b \in 0..1
      BY <1>12
    <3>2. Cardinality(rest) = p - Cardinality(ot) /\ Cardinality(rest) \in Int
      BY <1>10, <1>11
    <3> HIDE DEF n, e, b, p, o, ot, rest
    <3>3. /\ e \in Nat /\ p \in Nat /\ Cardinality(ot) \in Nat
          /\ Cardinality(Swappable) \in Nat /\ Cardinality(ot) = Min({e, p})
      BY <1>6, <1>10, <2>1, <2>2
    <3> DEFINE r == p - Cardinality(ot)
    <3> DEFINE w == Cardinality(Swappable)
    <3> DEFINE k == Cardinality(ot)
    <3>4. n \in {b, r, w} /\ n <= b /\ n <= r /\ n <= w
      <4>1. n = Min({b, r, w}) /\ b \in Int /\ r \in Int /\ w \in Int
        BY <3>1, <3>2, <3>3
      <4> HIDE DEF r, w
      <4>2. QED
        BY <4>1, MinOfThree
    <3>5. k = IF e <= p THEN e ELSE p
      BY <3>3, MinOfTwo
    <3>6. Min({e + b, p}) = IF e + b <= p THEN e + b ELSE p
      <4>1. e + b \in Int /\ p \in Int
        BY <3>1, <3>3
      <4>2. QED
        BY <4>1, MinOfTwo
    <3>7. \/ k + n = IF e + b <= p THEN e + b ELSE p
          \/ k + n < e + b /\ w = 0
      <4> HIDE DEF k, w
      <4>1. k \in Nat /\ w \in Nat
        BY <3>3 DEF k, w
      <4>2. r = p - k
        BY DEF k
      <4> HIDE DEF r
      <4>3. QED
        BY <3>1, <3>3, <3>4, <3>5, <4>1, <4>2, SwapCounts
    <3>8. QED
      BY <1>14, <3>6, <3>7
  <2>6. Swappable = {} => Swappable' = {}
    BY <1>1, <1>8, SameFrame DEF Swappable
  <2>7. Cardinality(Swappable) = 0 => Swappable = {}
    BY <1>6, FS_EmptySet
  <2> HIDE DEF e, b, p, o
  <2>8. QED
    BY <2>4, <2>5, <2>6, <2>7
<1>18. QED
  BY <1>8, <1>9, <1>15, <1>16, <1>17 DEF IInv

\* After the swap, a step that changes none of the picks.
LEMMA PicksKept ==
  ASSUME IInv, Same, UNCHANGED <<dist, attempt, picks, drunk>>, AfterSwap,
         step' \in {"companions", "bluffs", "done"}, companions' \subseteq DOMAIN companion,
         manual' \subseteq SetupCharacters,
         subs' \subseteq (DOMAIN bagTeam) \X (script \cup {Nobody}), bluffs' \subseteq script
  PROVE  /\ TypeOK' /\ Shapes' /\ EvilPicked' /\ EvilAsked' /\ EvilSettled' /\ GoodPicked'
         /\ BeforeSwap' /\ OutsidersRuled' /\ Selected' = Selected
<1>1. /\ picks \in [Teams -> SUBSET script]
      /\ picks["outsider"] \in SUBSET Pool("outsider")
      /\ picks["townsfolk"] \in SUBSET Pool("townsfolk")
  BY Picked
<1>2. picks' = [picks EXCEPT !["outsider"] = picks["outsider"], !["townsfolk"] = picks["townsfolk"]]
  BY <1>1
<1>3. drunk' \subseteq DOMAIN bagTeam /\ step # "conflict"
  BY DEF IInv, TypeOK, AfterSwap
<1>4. TypeOK' /\ Shapes'
  BY <1>1, <1>2, <1>3, TypesKept
<1>5. EvilPicked' /\ EvilAsked' /\ EvilSettled' /\ Evil' = Evil
  BY EvilKept DEF AfterExtra, AfterGood
<1>6. GoodPicked' /\ BeforeSwap'
  BY SameFrame DEF IInv, GoodPicked, BeforeSwap, AfterGood, Count
<1>7. Selected' = Selected
  BY DEF Selected
<1>8. OutsidersRuled'
  <2>1. (Adjusted(Selected))' = Adjusted(Selected)
    BY <1>7, NextAdjusts
  <2>2. Swappable' = Swappable
    BY DEF Swappable, Same
  <2>3. QED
    BY <1>5, <2>1, <2>2, SameFrame DEF IInv, OutsidersRuled, Count
<1>9. QED
  BY <1>4, <1>5, <1>6, <1>7, <1>8

\* Whoever brings somebody, and who is brought.
LEMMA CompanionFacts ==
  /\ DOMAIN companion = {"choirboy", "huntsman"}
  /\ companion["choirboy"] = "king" /\ companion["huntsman"] = "damsel"
  /\ \A x : hasCompanion(x) <=> x \in {"king", "damsel"}
BY DEF companion, hasCompanion

\* A companion takes the place of one of its team.
LEMMA StepReplace ==
  ASSUME IInv, NEW c \in DOMAIN companion, step = "companions", companions' = companions \ {c},
         Same, UNCHANGED <<step, attempt, dist, drunk, subs, bluffs, manual>>,
         companion[c] \notin Selected, companion[c] \in script,
         NEW ts, ts = targetSlice(companion[c]), NEW old \in Replaceable(ts),
         picks' = [picks EXCEPT ![ts] = (@ \ {old}) \cup {companion[c]}]
  PROVE  IInv'
<1> DEFINE who == companion[c]
<1> DEFINE ot == picks["outsider"]
<1> DEFINE tf == picks["townsfolk"]
<1> DEFINE o == IF ts = "outsider" THEN (ot \ {old}) \cup {who} ELSE ot
<1> DEFINE t == IF ts = "townsfolk" THEN (tf \ {old}) \cup {who} ELSE tf
<1>1. /\ script \in Scripts /\ players \in 5..15 /\ picks \in [Teams -> SUBSET script]
      /\ picks["demon"] \in SUBSET Pool("demon") /\ picks["minion"] \in SUBSET Pool("minion")
      /\ ot \in SUBSET Pool("outsider") /\ tf \in SUBSET Pool("townsfolk")
      /\ IsFiniteSet(ot) /\ IsFiniteSet(tf)
      /\ Cardinality(ot) \in Nat /\ Cardinality(tf) \in Nat
  BY Picked DEF Teams
<1>2. /\ who \in {"king", "damsel"} /\ ts = Team[who]
      /\ ts = "townsfolk" \/ ts = "outsider"
  BY <1>1, CompanionFacts, ScriptFacts DEF targetSlice
<1>3. /\ old \in picks[ts] /\ old \notin {"king", "damsel"} /\ old \notin locked
      /\ old # "balloonist" /\ (ts = "townsfolk" => old \in Swappable)
  BY CompanionFacts, TableDeltas DEF Replaceable, Swappable
<1>4. who \notin ot /\ who \notin tf /\ who \in Pool(ts)
  BY <1>2, SelectedParts DEF Pool
<1>5. o \in SUBSET Pool("outsider") /\ t \in SUBSET Pool("townsfolk")
  BY <1>1, <1>2, <1>4
<1>6. picks' = [picks EXCEPT !["outsider"] = o, !["townsfolk"] = t]
  BY <1>1, <1>2 DEF Teams
<1>7. /\ TypeOK' /\ Shapes'
      /\ picks'["demon"] = picks["demon"] /\ picks'["minion"] = picks["minion"]
      /\ picks'["outsider"] = o /\ picks'["townsfolk"] = t
  <2>1. /\ companions' \subseteq DOMAIN companion /\ drunk' \subseteq DOMAIN bagTeam
        /\ manual' \subseteq SetupCharacters /\ bluffs' \subseteq script
        /\ subs' \subseteq (DOMAIN bagTeam) \X (script \cup {Nobody})
    BY DEF IInv, TypeOK
  <2> HIDE DEF o, t
  <2>2. QED
    BY <1>5, <1>6, <2>1, TypesKept
<1>8. EvilPicked' /\ EvilAsked' /\ EvilSettled' /\ Evil' = Evil
  BY <1>7, EvilKept DEF AfterExtra, AfterGood, AfterSwap
<1>9. ASSUME NEW S, IsFiniteSet(S), old \in S, who \notin S
      PROVE  Cardinality((S \ {old}) \cup {who}) = Cardinality(S)
  <2>1. IsFiniteSet(S \ {old}) /\ Cardinality(S \ {old}) = Cardinality(S) - 1
    BY <1>9, FS_RemoveElement
  <2>2. Cardinality((S \ {old}) \cup {who}) = Cardinality(S \ {old}) + 1
    BY <1>9, <2>1, FS_AddElement
  <2>3. Cardinality(S) \in Nat
    BY <1>9, FS_CardinalityType
  <2>4. QED
    BY <2>1, <2>2, <2>3
<1>10. Cardinality(o) = Cardinality(ot) /\ Cardinality(t) = Cardinality(tf)
  BY <1>1, <1>3, <1>4, <1>9
<1>11. GoodPicked'
  <2>1. /\ Locked("outsider") \subseteq ot /\ Locked("townsfolk") \subseteq tf
        /\ Cardinality(ot) + Cardinality(tf) = dist.outsider + dist.townsfolk
    BY DEF IInv, GoodPicked, AfterGood, AfterSwap, Count
  <2>2. Locked("outsider") \subseteq o /\ Locked("townsfolk") \subseteq t
    BY <1>3, <2>1 DEF Locked
  <2> HIDE DEF o, t
  <2>3. QED
    BY <1>7, <1>10, <2>1, <2>2, SameFrame DEF GoodPicked, Count
<1>12. Selected' = (Selected \ {old}) \cup {who}
  <2>1. /\ Selected = picks["demon"] \cup picks["minion"] \cup ot \cup tf
        /\ Selected' = picks["demon"] \cup picks["minion"] \cup o \cup t
    BY <1>7, SelectedParts
  <2>2. /\ old \notin picks["demon"] /\ old \notin picks["minion"]
        /\ ts = "outsider" => old \notin tf
        /\ ts = "townsfolk" => old \notin ot
    BY <1>1, <1>2, <1>3 DEF Pool
  <2>3. QED
    BY <1>2, <2>1, <2>2
<1>13. CompanyKept'
  <2> SUFFICES ASSUME NEW e \in Selected' \cap DOMAIN companion
               PROVE  e \in companions' \/ companion[e] \in Selected' \/ e \in manual'
    BY DEF CompanyKept
  <2>1. CASE e = c
    BY <1>12, <2>1
  <2>2. CASE e # c
    <3>1. e \in Selected
      BY <1>2, <1>12, CompanionFacts
    <3>2. e \in companions \/ companion[e] \in Selected \/ e \in manual
      BY <3>1 DEF IInv, CompanyKept, AfterSwap
    <3>3. companion[e] # old
      BY <1>3, CompanionFacts
    <3>4. QED
      BY <1>12, <2>2, <3>2, <3>3
  <2>3. QED
    BY <2>1, <2>2
<1>14. BeforeSwap' /\ TokensShowNobody'
  BY DEF BeforeSwap, TokensShowNobody
<1>15. OutsidersRuled'
  <2>1. (Adjusted(Selected))' = Adjusted(Selected')
    BY NextAdjusts
  <2>2. Adjusted(Selected').outsider = Adjusted(Selected).outsider
    <3>1. Cardinality(picks["demon"]) = 1
      BY DEF IInv, EvilPicked, AfterEvil, AfterExtra, AfterGood, AfterSwap, Count
    <3>2. One("balloonist", t) = One("balloonist", tf)
      BY <1>2, <1>3 DEF One
    <3>3. /\ Selected = picks["demon"] \cup picks["minion"] \cup ot \cup tf
          /\ Selected' = picks["demon"] \cup picks["minion"] \cup o \cup t
      BY <1>7, SelectedParts
    <3>4. /\ script \in Scripts /\ players \in 5..15
          /\ picks["demon"] \in SUBSET Pool("demon") /\ picks["minion"] \in SUBSET Pool("minion")
          /\ ot \in SUBSET Pool("outsider") /\ tf \in SUBSET Pool("townsfolk")
      BY <1>1
    <3> HIDE DEF o, t, ot, tf
    <3>5. Adjusted(Selected').outsider
            = AboveZero(Base.outsider + DeltaOf(outsiderDelta, Evil) + One("balloonist", t))
      BY <1>5, <3>1, <3>3, <3>4, AskedOutsiders
    <3>6. Adjusted(Selected).outsider
            = AboveZero(Base.outsider + DeltaOf(outsiderDelta, Evil) + One("balloonist", tf))
      BY <3>1, <3>3, <3>4, AskedOutsiders
    <3>7. QED
      BY <3>2, <3>5, <3>6
  <2>3. Swappable = {} => Swappable' = {}
    <3>1. CASE ts = "townsfolk"
      BY <1>3, <3>1
    <3>2. CASE ts = "outsider"
      BY <1>7, <3>2 DEF Swappable, Same
    <3>3. QED
      BY <1>2, <3>1, <3>2
  <2>4. /\ Count("minion")' = Count("minion") /\ Count("outsider")' = Count("outsider")
        /\ Pool("outsider")' = Pool("outsider") /\ Base' = Base /\ MinionCount' = MinionCount
    BY <1>7, <1>10, SameFrame DEF Count
  <2>5. QED
    BY <1>8, <2>1, <2>2, <2>3, <2>4 DEF IInv, OutsidersRuled, AfterSwap
<1>16. QED
  BY <1>7, <1>8, <1>11, <1>13, <1>14, <1>15 DEF IInv

LEMMA StepAccompany ==
  ASSUME IInv, NEW c \in DOMAIN companion, Accompany(c)
  PROVE  IInv'
<1>1. /\ step = "companions" /\ step' = "companions" /\ companions' = companions \ {c} /\ Same
      /\ UNCHANGED <<step, attempt, dist, drunk, subs, bluffs>>
  BY DEF Accompany
<1>2. /\ companions' \subseteq DOMAIN companion /\ c \in SetupCharacters
      /\ manual \subseteq SetupCharacters
      /\ bluffs' \subseteq script /\ subs' \subseteq (DOMAIN bagTeam) \X (script \cup {Nobody})
  BY <1>1 DEF IInv, TypeOK, SetupCharacters
<1>3. \A e \in Selected \cap DOMAIN companion :
        e \in companions \/ companion[e] \in Selected \/ e \in manual
  BY <1>1 DEF IInv, CompanyKept, AfterSwap
<1>4. ASSUME picks' = picks, manual' = manual \/ manual' = manual \cup {c},
             companion[c] \in Selected \/ c \in manual'
      PROVE  IInv'
  <2>1. /\ TypeOK' /\ Shapes' /\ EvilPicked' /\ EvilAsked' /\ EvilSettled' /\ GoodPicked'
        /\ BeforeSwap' /\ OutsidersRuled' /\ Selected' = Selected
    <3>1. manual' \subseteq SetupCharacters
      BY <1>2, <1>4
    <3>2. QED
      BY <1>1, <1>2, <1>4, <3>1, PicksKept DEF AfterSwap
  <2>2. CompanyKept'
    BY <1>1, <1>3, <1>4, <2>1 DEF CompanyKept
  <2>3. TokensShowNobody'
    BY <1>1 DEF TokensShowNobody
  <2>4. QED
    BY <2>1, <2>2, <2>3 DEF IInv
<1>5. CASE companion[c] \in Selected /\ UNCHANGED <<picks, manual>>
  BY <1>4, <1>5
<1>6. CASE LeftToStoryteller(c)
  BY <1>4, <1>6 DEF LeftToStoryteller
<1>7. ASSUME companion[c] \notin Selected, companion[c] \in script, UNCHANGED manual,
             NEW old \in Replaceable(targetSlice(companion[c])),
             picks' = [picks EXCEPT ![targetSlice(companion[c])] = (@ \ {old}) \cup {companion[c]}]
      PROVE  IInv'
  BY <1>1, <1>7, StepReplace
<1>8. QED
  BY <1>5, <1>6, <1>7 DEF Accompany

LEMMA StepBagSubstitution ==
  ASSUME IInv, BagSubstitution
  PROVE  IInv'
<1>1. /\ step = "companions" /\ step' = "bluffs" /\ companions = {} /\ Same
      /\ UNCHANGED <<attempt, dist, picks, companions, drunk, manual, bluffs>>
  BY DEF BagSubstitution
<1>2. /\ script \in Scripts /\ drunk \subseteq DOMAIN bagTeam
      /\ companions \subseteq DOMAIN companion /\ manual \subseteq SetupCharacters
      /\ bluffs \subseteq script
  BY DEF IInv, TypeOK
<1>3. Selected \subseteq script
  BY Picked, SelectedParts DEF Pool
<1>4. /\ subs' \subseteq (DOMAIN bagTeam) \X (script \cup {Nobody})
      /\ \A s \in subs' : s[2] \notin Selected
  <2>1. CASE subs' = {}
    BY <2>1
  <2>2. ASSUME NEW c \in drunk, NEW s \in IF Spare = {} THEN {Nobody} ELSE Spare,
               subs' = {<<c, s>>}
        PROVE  /\ subs' \subseteq (DOMAIN bagTeam) \X (script \cup {Nobody})
               /\ \A x \in subs' : x[2] \notin Selected
    <3>1. s \in script \cup {Nobody} /\ s \notin Selected
      BY <1>2, <1>3, ScriptFacts DEF Spare, Pool
    <3>2. <<c, s>> \in (DOMAIN bagTeam) \X (script \cup {Nobody})
      BY <1>2, <3>1
    <3>3. QED
      BY <2>2, <3>1, <3>2
  <2>3. QED
    BY <2>1, <2>2 DEF BagSubstitution
<1>5. /\ TypeOK' /\ Shapes' /\ EvilPicked' /\ EvilAsked' /\ EvilSettled' /\ GoodPicked'
      /\ BeforeSwap' /\ OutsidersRuled' /\ Selected' = Selected
  BY <1>1, <1>2, <1>4, PicksKept DEF AfterSwap
<1>6. CompanyKept'
  BY <1>1, <1>5 DEF IInv, CompanyKept, AfterSwap
<1>7. TokensShowNobody'
  BY <1>1, <1>4, <1>5 DEF TokensShowNobody
<1>8. QED
  BY <1>5, <1>6, <1>7 DEF IInv

LEMMA StepSelectDemonBluffs ==
  ASSUME IInv, SelectDemonBluffs
  PROVE  IInv'
<1>1. /\ step = "bluffs" /\ step' = "done" /\ Same
      /\ UNCHANGED <<attempt, dist, picks, companions, drunk, manual, subs>>
  BY DEF SelectDemonBluffs
<1>2. bluffs' \subseteq script /\ bluffs' \cap Selected = {}
  BY kSubsetFacts DEF SelectDemonBluffs, Pool
<1>3. /\ companions \subseteq DOMAIN companion /\ manual \subseteq SetupCharacters
      /\ subs \subseteq (DOMAIN bagTeam) \X (script \cup {Nobody})
  BY DEF IInv, TypeOK
<1>4. /\ TypeOK' /\ Shapes' /\ EvilPicked' /\ EvilAsked' /\ EvilSettled' /\ GoodPicked'
      /\ BeforeSwap' /\ OutsidersRuled' /\ Selected' = Selected
  BY <1>1, <1>2, <1>3, PicksKept DEF AfterSwap
<1>5. CompanyKept'
  BY <1>1, <1>4 DEF IInv, CompanyKept, AfterSwap
<1>6. TokensShowNobody'
  BY <1>1, <1>2, <1>4 DEF IInv, TokensShowNobody
<1>7. QED
  BY <1>4, <1>5, <1>6 DEF IInv

LEMMA StepIInv == IInv /\ [Next]_vars => IInv'
<1> SUFFICES ASSUME IInv, [Next]_vars PROVE IInv'
  OBVIOUS
<1>1. CASE DemonConflict
  BY <1>1, StepGive DEF DemonConflict
<1>2. CASE EvilShort
  BY <1>2, StepGive DEF EvilShort
<1>3. CASE GoodShort
  BY <1>3, StepGive DEF GoodShort
<1>4. CASE GoodConflict
  BY <1>4, StepLockConflict DEF GoodConflict
<1>5. ASSUME NEW c \in DOMAIN companion, Accompany(c) PROVE IInv'
  BY <1>5, StepAccompany
<1>6. CASE UNCHANGED vars
  <2>1. /\ TypeOK' /\ Shapes' /\ EvilPicked' /\ EvilSettled' /\ GoodPicked' /\ BeforeSwap'
        /\ CompanyKept' /\ TokensShowNobody'
    BY <1>6 DEF vars, IInv, TypeOK, Shapes, EvilPicked, EvilSettled, GoodPicked, BeforeSwap,
       CompanyKept, TokensShowNobody, AfterSwap, AfterGood, AfterExtra, AfterEvil, Count, Pool,
       Locked, Selected, Evil, Base, MinionCount
  <2>2. Same /\ Selected' = Selected /\ Evil' = Evil /\ picks' = picks /\ step' = step
    BY <1>6 DEF vars, Same, Selected, Evil
  <2>3. (Adjusted(Evil))' = Adjusted(Evil)
    BY <2>2 DEF Adjusted, Base, Same
  <2>4. EvilAsked'
    BY <1>6, <2>2, <2>3, SameFrame DEF vars, IInv, EvilAsked, Count
  <2>5. OutsidersRuled'
    <3>1. (Adjusted(Selected))' = Adjusted(Selected)
      BY <2>2, NextAdjusts
    <3>2. Swappable' = Swappable
      BY <2>2 DEF Swappable, Same
    <3>3. QED
      BY <2>2, <3>1, <3>2, SameFrame DEF IInv, OutsidersRuled, AfterSwap, Count
  <2>6. QED
    BY <2>1, <2>4, <2>5 DEF IInv
<1>7. QED
  BY <1>1, <1>2, <1>3, <1>4, <1>5, <1>6, StepPickEvil, StepPickExtra, StepPickGood, StepSwap,
     StepBagSubstitution, StepSelectDemonBluffs DEF Next

-----------------------------------------------------------------------------
(***************************************************************************)
(* The theorems.                                                           *)
(***************************************************************************)
LEMMA Invariant == Spec => []IInv
BY InitIInv, StepIInv, PTL DEF Spec

\* randomizeRoles never leaves its types: no count of a team is negative, whatever
\* the picked characters change, and it stops at the last attempt.
THEOREM TypeCorrect == Spec => []TypeOK
<1>1. IInv => TypeOK
  BY DEF IInv
<1>2. QED
  BY <1>1, Invariant, PTL

\* A locked character is in the result, through the swap and the companions.
THEOREM LockedStayIn == Spec => []LockedStay
<1>1. IInv => LockedStay
  <2> SUFFICES ASSUME IInv, step = "done", NEW c \in locked PROVE c \in Selected
    BY DEF LockedStay
  <2>1. script \in Scripts /\ c \in script
    BY Request DEF IInv
  <2>2. c \in Locked("demon") \cup Locked("minion") \cup Locked("outsider") \cup Locked("townsfolk")
    BY <2>1, ScriptFacts DEF Locked, Pool, Teams
  <2>3. /\ Locked("demon") \subseteq picks["demon"] /\ Locked("minion") \subseteq picks["minion"]
        /\ Locked("outsider") \subseteq picks["outsider"]
        /\ Locked("townsfolk") \subseteq picks["townsfolk"]
    BY DEF IInv, EvilPicked, GoodPicked, AfterEvil, AfterExtra, AfterGood, AfterSwap
  <2>4. QED
    BY <2>2, <2>3, SelectedParts
<1>2. QED
  BY <1>1, Invariant, PTL

\* Whoever is brought by a character of the result is in it, or the storyteller is
\* told to see to it.
THEOREM CompanionsAreThere == Spec => []CompanionsCome
<1>1. IInv => CompanionsCome
  BY DEF IInv, CompanionsCome, CompanyKept, TokensShowNobody, AfterSwap
<1>2. QED
  BY <1>1, Invariant, PTL

\* The outsiders of a result are as many as its characters call for, as far as
\* there are any and somebody may make room for them.
THEOREM OutsidersFollow == Spec => []OutsidersAsRuled
<1>1. IInv => OutsidersAsRuled
  BY DEF IInv, OutsidersAsRuled, OutsidersRuled, AfterSwap, Evil
<1>2. QED
  BY <1>1, Invariant, PTL

\* Of the picked characters, those of a team are that team's picks.
LEMMA TeamsOfSelected ==
  ASSUME IInv
  PROVE  /\ {c \in Selected : Team[c] = "demon"} = picks["demon"]
         /\ {c \in Selected : Team[c] = "minion"} = picks["minion"]
BY Picked, SelectedParts DEF Pool

\* Nobody is picked twice: a result has as many characters as its teams add up to.
LEMMA SelectedCount ==
  ASSUME IInv
  PROVE  Cardinality(Selected)
           = Count("demon") + Count("minion") + Count("outsider") + Count("townsfolk")
<1> DEFINE d == picks["demon"]
<1> DEFINE m == picks["minion"]
<1> DEFINE o == picks["outsider"]
<1> DEFINE t == picks["townsfolk"]
<1>1. IsFiniteSet(d) /\ IsFiniteSet(m) /\ IsFiniteSet(o) /\ IsFiniteSet(t)
  BY Picked DEF Teams
<1>2. /\ d \cap m = {} /\ (d \cup m) \cap o = {} /\ (d \cup m \cup o) \cap t = {}
  BY Picked DEF Pool
<1>3. Selected = d \cup m \cup o \cup t
  BY SelectedParts
<1> HIDE DEF d, m, o, t
<1>4. IsFiniteSet(d \cup m) /\ Cardinality(d \cup m) = Cardinality(d) + Cardinality(m)
  BY <1>1, <1>2, DisjointUnion
<1>5. /\ IsFiniteSet(d \cup m \cup o)
      /\ Cardinality(d \cup m \cup o) = Cardinality(d \cup m) + Cardinality(o)
  BY <1>1, <1>2, <1>4, DisjointUnion
<1>6. Cardinality(d \cup m \cup o \cup t) = Cardinality(d \cup m \cup o) + Cardinality(t)
  BY <1>1, <1>2, <1>5, DisjointUnion
<1>7. QED
  BY <1>3, <1>4, <1>5, <1>6 DEF d, m, o, t, Count

\* Of a script that lists nobody twice (ListedOnce), a result has as many characters
\* as there are players, one demon, and the minions that ValidateDistribution counts,
\* short only of those the script has not; neither a bluff nor the token for the
\* Drunk is of a character in play.
THEOREM ResultIsLegal == Spec => []LegalResult
<1>1. IInv => LegalResult
  <2> SUFFICES ASSUME IInv, step = "done" PROVE LegalResult
    BY DEF LegalResult
  <2>1. /\ Count("demon") = 1 /\ dist.minion = Count("minion")
        /\ Count("outsider") + Count("townsfolk") = dist.outsider + dist.townsfolk
        /\ \/ Count("minion") = Base.minion + DeltaOf(minionDelta, picks["demon"])
           \/ picks["minion"] = Pool("minion")
    BY DEF IInv, EvilPicked, EvilSettled, GoodPicked, AfterEvil, AfterExtra, AfterGood, AfterSwap
  <2>2. players \in Nat /\ dist \in Counts(players)
    BY Picked
  <2>3. /\ dist.townsfolk \in Nat /\ dist.outsider \in Nat /\ dist.minion \in Nat
        /\ dist.townsfolk + dist.outsider + dist.minion + 1 = players
    BY <2>2, CountsFields
  <2>4. Count("outsider") \in Nat /\ Count("townsfolk") \in Nat
    BY Picked DEF Count, Teams
  <2>5. Cardinality(Selected) = players
    BY <2>1, <2>3, <2>4, SelectedCount
  <2>6. ValidateDistribution(Selected) \/ picks["minion"] = Pool("minion")
    <3>1. Adjusted(Selected).demon = 1
      BY DEF Adjusted, Distribution
    <3>2. Adjusted(Selected).minion = Base.minion + DeltaOf(minionDelta, picks["demon"])
      BY <2>1, Picked, SelectedParts, AllAdjusts DEF Count
    <3>3. QED
      BY <2>1, <2>5, <3>1, <3>2, TeamsOfSelected DEF ValidateDistribution, Count
  <2>7. bluffs \cap Selected = {} /\ \A s \in subs : s[2] \notin Selected
    BY DEF IInv, TokensShowNobody
  <2>8. QED
    BY <2>5, <2>6, <2>7 DEF LegalResult
<1>2. QED
  BY <1>1, Invariant, PTL

-----------------------------------------------------------------------------
(***************************************************************************)
(* randomizeRoles returns: there is a number of steps that it has left at  *)
(* most, which every step lowers.                                          *)
(***************************************************************************)
StagesLeft ==
    CASE step = "evil" -> 9
      [] step = "extra" -> 8
      [] step = "good" -> 7
      [] step = "swap" -> 6
      [] step = "companions" -> 2 + Cardinality(companions)
      [] step = "bluffs" -> 1
      [] OTHER -> 0

WorkLeft == 10 * (Attempts - attempt) + StagesLeft

\* At most two characters wait for their companions, one less after each.
LEMMA CompanionCounts ==
  ASSUME NEW S \in SUBSET DOMAIN companion
  PROVE  /\ Cardinality(S) \in 0..2
         /\ \A c \in S : Cardinality(S \ {c}) = Cardinality(S) - 1
<1>1. IsFiniteSet({"choirboy"}) /\ Cardinality({"choirboy"}) = 1
  BY FS_Singleton
<1>2. /\ IsFiniteSet({"choirboy"} \cup {"huntsman"})
      /\ Cardinality({"choirboy"} \cup {"huntsman"}) = 1 + 1
  BY <1>1, FS_AddElement
<1>3. S \subseteq {"choirboy"} \cup {"huntsman"}
  BY CompanionFacts
<1>4. IsFiniteSet(S) /\ Cardinality(S) <= Cardinality({"choirboy"} \cup {"huntsman"})
  BY <1>2, <1>3, FS_Subset
<1>5. Cardinality(S) \in Nat
  BY <1>4, FS_CardinalityType
<1>6. \A c \in S : Cardinality(S \ {c}) = Cardinality(S) - 1
  BY <1>4, FS_RemoveElement
<1>7. QED
  BY <1>2, <1>4, <1>5, <1>6

LEMMA StagesLeftType ==
  /\ companions \subseteq DOMAIN companion => StagesLeft \in 0..9
  /\ companions' \subseteq DOMAIN companion => StagesLeft' \in 0..9
BY CompanionCounts DEF StagesLeft

\* A later stage of the same attempt, and another attempt.
LEMMA LaterStage ==
  ASSUME NEW n \in Nat, NEW a \in 0..n, NEW s \in 0..9, NEW t \in 0..9, t < s
  PROVE  10 * (n - a) + t \in Nat /\ 10 * (n - a) + t < 10 * (n - a) + s
OBVIOUS

LEMMA NextAttempt ==
  ASSUME NEW n \in Nat, NEW a \in 0..n, NEW b \in 0..n, NEW s \in 0..9, NEW t \in 0..9,
         b = a + 1, t <= s + 2
  PROVE  10 * (n - b) + t \in Nat /\ 10 * (n - b) + t < 10 * (n - a) + s
OBVIOUS

\* Every attempt has its number, and so has every stage of it: randomizeRoles
\* returns after a number of steps that depends on nothing but Attempts.
THEOREM RandomizeEnds == Spec => [][WorkLeft' \in Nat /\ WorkLeft' < WorkLeft]_vars
<1>1. IInv /\ IInv' /\ [Next]_vars => [WorkLeft' \in Nat /\ WorkLeft' < WorkLeft]_vars
  <2> SUFFICES ASSUME IInv, IInv', Next
               PROVE WorkLeft' \in Nat /\ WorkLeft' < WorkLeft
    OBVIOUS
  <2>0. Attempts \in Nat /\ attempt \in 0..Attempts /\ attempt' \in 0..Attempts
    BY SetupAssumption DEF IInv, TypeOK
  <2>1. companions \subseteq DOMAIN companion /\ companions' \subseteq DOMAIN companion
    BY DEF IInv, TypeOK
  <2>2. StagesLeft \in 0..9 /\ StagesLeft' \in 0..9
    BY <2>1, StagesLeftType
  <2>3. /\ WorkLeft = 10 * (Attempts - attempt) + StagesLeft
        /\ WorkLeft' = 10 * (Attempts - attempt') + StagesLeft'
    BY DEF WorkLeft
  <2>4. CASE attempt' = attempt /\ StagesLeft' < StagesLeft
    <3>1. WorkLeft' = 10 * (Attempts - attempt) + StagesLeft'
      BY <2>3, <2>4
    <3>2. QED
      BY <2>0, <2>2, <2>3, <2>4, <3>1, LaterStage
  <2>5. CASE attempt' = attempt + 1 /\ StagesLeft' <= StagesLeft + 2
    BY <2>0, <2>2, <2>3, <2>5, NextAttempt
  <2>6. ASSUME NEW how \in {"conflict", "short"}, step \in {"evil", "good"}, Give(how)
        PROVE  attempt' = attempt /\ StagesLeft' < StagesLeft
    BY <2>6 DEF Give, StagesLeft
  <2>7. ASSUME step \in {"evil", "good"}, LockConflict
        PROVE  attempt' = attempt + 1 /\ StagesLeft' <= StagesLeft + 2
    BY <2>7 DEF LockConflict, StagesLeft
  <2>8. CASE DemonConflict \/ EvilShort \/ GoodShort
    BY <2>4, <2>6, <2>8 DEF DemonConflict, EvilShort, GoodShort
  <2>9. CASE GoodConflict
    BY <2>5, <2>7, <2>9 DEF GoodConflict
  <2>10. CASE PickEvil
    <3>1. CASE LockConflict
      BY <2>5, <2>7, <2>10, <3>1 DEF PickEvil
    <3>2. CASE step' = "extra" /\ attempt' = attempt
      BY <2>4, <2>10, <3>2 DEF PickEvil, StagesLeft
    <3>3. QED
      BY <2>10, <3>1, <3>2 DEF PickEvil
  <2>11. CASE PickExtra \/ PickGood
    <3>1. PickExtra => attempt' = attempt /\ step = "extra" /\ step' = "good"
      BY DEF PickExtra
    <3>2. PickGood => attempt' = attempt /\ step = "good" /\ step' = "swap"
      BY DEF PickGood
    <3>3. QED
      BY <2>4, <2>11, <3>1, <3>2 DEF StagesLeft
  <2>12. CASE Swap
    <3>1. attempt' = attempt /\ step = "swap" /\ step' = "companions"
      BY <2>12 DEF Swap
    <3>2. Cardinality(companions') \in 0..2
      BY <2>1, CompanionCounts
    <3>3. QED
      BY <2>4, <3>1, <3>2 DEF StagesLeft
  <2>13. ASSUME NEW c \in DOMAIN companion, Accompany(c)
         PROVE  WorkLeft' \in Nat /\ WorkLeft' < WorkLeft
    <3>1. /\ attempt' = attempt /\ step = "companions" /\ step' = "companions"
          /\ c \in companions /\ companions' = companions \ {c}
      BY <2>13 DEF Accompany
    <3>2. /\ Cardinality(companions) \in 0..2
          /\ Cardinality(companions') = Cardinality(companions) - 1
      BY <2>1, <3>1, CompanionCounts
    <3>3. QED
      BY <2>4, <3>1, <3>2 DEF StagesLeft
  <2>14. CASE BagSubstitution
    <3>1. attempt' = attempt /\ step = "companions" /\ step' = "bluffs"
      BY <2>14 DEF BagSubstitution
    <3>2. Cardinality(companions) \in 0..2
      BY <2>1, CompanionCounts
    <3>3. QED
      BY <2>4, <3>1, <3>2 DEF StagesLeft
  <2>15. CASE SelectDemonBluffs
    BY <2>4, <2>15 DEF SelectDemonBluffs, StagesLeft
  <2>16. QED
    BY <2>8, <2>9, <2>10, <2>11, <2>12, <2>13, <2>14, <2>15 DEF Next
<1>2. QED
  BY <1>1, Invariant, StepIInv, PTL DEF Spec
=============================================================================
