--------------------------- MODULE GrimoireProofs ---------------------------
(***************************************************************************)
(* Theorems about Grimoire, for any characters, deals and requests.        *)
(***************************************************************************)
EXTENDS Grimoire, SequenceTheorems, TLAPS

USE TeamAssumption, NullAssumption, BoundAssumption

-----------------------------------------------------------------------------
(***************************************************************************)
(* Columns, copies and lists of roles.                                     *)
(***************************************************************************)
LEMMA ColumnSet ==
    Column = {"state", "roles", "sub", "names", "evil", "dead", "promoted", "done"}
  BY DEF Column, Values

\* The values of a row, column by column.
Typed(r) ==
    /\ r.state \in {"setup", "in_progress", "completed"}
    /\ r.roles \in Seq(Char) /\ Len(r.roles) <= MaxSeats
    /\ r.sub \in Shows
    /\ r.names \in [Char -> Player \cup {NoPlayer}]
    /\ r.evil \in SUBSET Char /\ r.dead \in SUBSET Char
    /\ r.promoted \in SUBSET Minion /\ r.done \in SUBSET Char

LEMMA TypedRow ==
    ASSUME NEW r, DOMAIN r = Column
    PROVE  (\A x \in Column : r[x] \in Values[x]) <=> Typed(r)
  BY ColumnSet DEF Values, Typed

\* One role is taken out of the list: the others keep their order.
LEMMA OneLess ==
    ASSUME NEW S, NEW s \in Seq(S), NEW c, \E k \in DOMAIN s : s[k] = c
    PROVE  /\ Others(s, c) \in Seq(S) /\ Len(Others(s, c)) = Len(s) - 1
           /\ \E k \in DOMAIN s : \A i \in DOMAIN Others(s, c) :
                  Others(s, c)[i] = s[IF i < k THEN i ELSE i + 1]
  <1> DEFINE k == CHOOSE k \in DOMAIN s : s[k] = c
  <1>1. k \in 1..Len(s)
    OBVIOUS
  <1> HIDE DEF k
  <1>2. Others(s, c) = SubSeq(s, 1, k-1) \o SubSeq(s, k+1, Len(s))
    BY DEF Others, k, SeqX!RemoveAt
  <1> DEFINE a == SubSeq(s, 1, k-1)
             b == SubSeq(s, k+1, Len(s))
  <1>3. /\ a \in Seq(S) /\ Len(a) = k - 1 
        /\ \A i \in 1..(k-1) : a[i] = s[i]
    BY <1>1
  <1>4. /\ b \in Seq(S) /\ Len(b) = Len(s) - k
        /\ \A i \in 1..(Len(s)-k) : b[i] = s[k+i]
    BY <1>1
  <1> HIDE DEF a, b
  <1>5. Others(s, c) = a \o b
    BY <1>2 DEF a, b
  <1>6. \A i \in 1..(Len(s) - 1) : (a \o b)[i] = s[IF i < k THEN i ELSE i + 1]
    <2> TAKE i \in 1..(Len(s) - 1)
    <2>1. CASE i < k
      <3>1. i \in 1..Len(a)
        BY <1>1, <1>3, <2>1
      <3> QED BY <1>3, <1>4, <2>1, <3>1
    <2>2. CASE ~(i < k)
      <3>1. i - Len(a) \in 1..(Len(s)-k) /\ k + (i - Len(a)) = i + 1
        BY <1>1, <1>3, <2>2
      <3>2. (a \o b)[i] = b[i - Len(a)]
        BY <1>1, <1>3, <1>4, <2>2
      <3> QED BY <1>4, <2>2, <3>1, <3>2
    <2> QED BY <2>1, <2>2
  <1>7. a \o b \in Seq(S) /\ Len(a \o b) = Len(s) - 1
    <2> a \in Seq(S) /\ b \in Seq(S)
      BY <1>3, <1>4
    <2>1. a \o b \in Seq(S) /\ Len(a \o b) = Len(a) + Len(b)
      BY ConcatProperties
    <2>2. Len(a) = k - 1 /\ Len(b) = Len(s) - k /\ k \in Int /\ Len(s) \in Int
      BY <1>1, <1>3, <1>4
    <2>3. Len(a) + Len(b) = Len(s) - 1
      BY <2>2
    <2> QED BY <2>1, <2>3
  <1>8. DOMAIN Others(s, c) = 1..(Len(s) - 1) /\ k \in DOMAIN s
    BY <1>1, <1>5, <1>7
  <1>9. \A i \in DOMAIN Others(s, c) : Others(s, c)[i] = s[IF i < k THEN i ELSE i + 1]
    BY <1>5, <1>6, <1>8
  <1> QED BY <1>5, <1>7, <1>8, <1>9

Distinct(s) == \A i, j \in DOMAIN s : s[i] = s[j] => i = j

LEMMA DistinctNotTwice == ASSUME NEW s PROVE Distinct(s) <=> ~Twice(s)
  BY DEF Distinct, Twice

\* Taking a role out makes no role double.
LEMMA OneLessDistinct ==
    ASSUME NEW S, NEW s \in Seq(S), NEW c, \E k \in DOMAIN s : s[k] = c, Distinct(s)
    PROVE  Distinct(Others(s, c))
  <1>1. PICK k \in DOMAIN s : \A i \in DOMAIN Others(s, c) :
                  Others(s, c)[i] = s[IF i < k THEN i ELSE i + 1]
    BY OneLess
  <1>2. DOMAIN Others(s, c) = 1..(Len(s) - 1)
    BY OneLess
  <1>3. \A i \in 1..(Len(s) - 1) : (IF i < k THEN i ELSE i + 1) \in DOMAIN s
    OBVIOUS
  <1> DEFINE o == Others(s, c)
             n(i) == IF i < k THEN i ELSE i + 1
  <1>4. ASSUME NEW i \in DOMAIN o, NEW j \in DOMAIN o, o[i] = o[j] PROVE i = j
    <2>1. s[n(i)] = s[n(j)] /\ n(i) \in DOMAIN s /\ n(j) \in DOMAIN s
      BY <1>1, <1>2, <1>3, <1>4
    <2>2. n(i) = n(j)
      BY <2>1 DEF Distinct
    <2> QED BY <1>2, <2>2
  <1> QED BY <1>4 DEF Distinct

LEMMA OneMore ==
    ASSUME NEW S, NEW s \in Seq(S), NEW c \in S
    PROVE  /\ Append(s, c) \in Seq(S) /\ Len(Append(s, c)) = Len(s) + 1
           /\ InPlay(Append(s, c)) = InPlay(s) \cup {c}
  <1>1. /\ Append(s, c) \in Seq(S) /\ Len(Append(s, c)) = Len(s) + 1
        /\ DOMAIN Append(s, c) = 1..(Len(s) + 1)
        /\ \A i \in 1..Len(s) : Append(s, c)[i] = s[i]
        /\ Append(s, c)[Len(s) + 1] = c
    OBVIOUS
  <1> DEFINE t == Append(s, c)
  <1> HIDE DEF t
  <1>2. InPlay(t) = InPlay(s) \cup {c}
    BY <1>1 DEF InPlay, t
  <1> QED BY <1>1, <1>2 DEF t

-----------------------------------------------------------------------------
(***************************************************************************)
(* The inductive invariant.                                                *)
(***************************************************************************)

\* Nothing is recorded before the game starts.
Unmarked ==
    row.state = "setup" =>
        row.dead = {} /\ row.evil = {} /\ row.promoted = {} /\ row.done = {}

\* The copy q.copy allows the Drunk to move to the seat of q.char.
Moves(q) ==
    /\ q.copy["sub"] = q.shown
    /\ q.shown \notin InPlay(q.copy["roles"]) /\ q.char \in InPlay(q.copy["roles"])

\* A request on its way has read these columns, and its guards held in them.
Guarded(q) ==
    /\ q.at = "reassign" => /\ DOMAIN q.copy = {"sub", "roles"}
                            /\ q.char \in Townsfolk /\ q.shown \in Char /\ Moves(q)
    /\ q.at = "rename" => /\ DOMAIN q.copy = {"sub", "roles", "names", "evil"}
                          /\ q.char \in Townsfolk /\ q.shown \in Char
                          /\ ~q.on => Moves(q)
    /\ q.at = "randomize" => DOMAIN q.copy = {"state"}
    /\ q.at = "roles" =>
          /\ DOMAIN q.copy = {"state", "roles", "sub"} /\ q.char \in Char
          /\ q.on => Len(q.copy["roles"]) < MaxSeats
          /\ ~q.on => q.char \in InPlay(q.copy["roles"]) /\ q.copy["state"] = "setup"
    /\ q.at = "subs" => /\ DOMAIN q.copy = {"state", "roles", "sub"}
                        /\ q.char \in Shows /\ q.copy["state"] = "setup"
    /\ q.at = "names" => DOMAIN q.copy = {"roles", "names"}
    /\ q.at = "align" => /\ DOMAIN q.copy = {"roles", "evil"}
                         /\ q.char \in InPlay(q.copy["roles"])
    /\ q.at = "toggle" => DOMAIN q.copy = {"roles", "sub", "done"} /\ q.char \in Char
    /\ q.at = "promote" =>
          /\ q.on => DOMAIN q.copy = {"roles", "promoted"}
          /\ ~q.on => DOMAIN q.copy = {"promoted"}
          /\ q.on => q.char \in InPlay(q.copy["roles"]) \cap Minion
    /\ q.at = "death" => DOMAIN q.copy = {"roles"} /\ q.char \in InPlay(q.copy["roles"])

\* What it knows of marks it has not read before the start.
Early(q, state) ==
    state = "setup" =>
        /\ q.at \notin {"align", "toggle", "promote", "death"}
        /\ q.at = "rename" => q.copy["evil"] = {}

Waiting == \A p \in Req : Guarded(req[p]) /\ Early(req[p], row.state)

Kept == RolesDistinct /\ NoOrphans /\ Unmarked
IInv == TypeOK /\ Kept /\ Waiting

-----------------------------------------------------------------------------
(***************************************************************************)
(* How requests come and go.                                               *)
(***************************************************************************)
Request(q) ==
    /\ DOMAIN q = Field /\ q.at \in Point
    /\ q.char \in Shows /\ q.on \in BOOLEAN
    /\ q.name \in Player \cup {NoPlayer} /\ q.shown \in Shows
    /\ DOMAIN q.copy \subseteq Column
    /\ \A x \in DOMAIN q.copy : q.copy[x] \in Values[x]

LEMMA TypeParts ==
    ASSUME DOMAIN row = Column, Typed(row), DOMAIN req = Req, spoiled \in BOOLEAN,
           stray \subseteq Char, \A p \in Req : Request(req[p])
    PROVE  TypeOK
  BY TypedRow DEF TypeOK, Request

LEMMA TypeUse ==
    ASSUME TypeOK
    PROVE  /\ DOMAIN row = Column /\ Typed(row) /\ DOMAIN req = Req /\ spoiled \in BOOLEAN
           /\ stray \subseteq Char /\ \A p \in Req : Request(req[p])
  BY TypedRow DEF TypeOK, Request

LEMMA IdleFields ==
    /\ DOMAIN Idle = Field /\ Idle.at = "idle" /\ Idle.char = NoChar /\ Idle.on = FALSE
    /\ Idle.name = NoPlayer /\ Idle.shown = NoChar /\ DOMAIN Idle.copy = {}
  BY DEF Idle, Field

LEMMA IdleIsFine ==
    ASSUME NEW state
    PROVE  Request(Idle) /\ Guarded(Idle) /\ Early(Idle, state)
  <1>1. Request(Idle)
    BY IdleFields DEF Request, Shows, Point
  <1> QED BY <1>1, IdleFields DEF Guarded, Early

LEMMA AboutFields ==
    ASSUME NEW op, NEW c, NEW on
    PROVE  LET q == About(op, c, on)
           IN  /\ DOMAIN q = Field /\ q.at = op /\ q.char = c /\ q.on = on
               /\ q.name = NoPlayer /\ q.shown = NoChar
  BY IdleFields DEF About, Field

\* What a copy of some columns holds are values of those columns.
LEMMA ReadFacts ==
    ASSUME TypeOK, NEW cols \in SUBSET Column
    PROVE  /\ DOMAIN Read(cols) = cols
           /\ \A x \in cols : Read(cols)[x] = row[x] /\ Read(cols)[x] \in Values[x]
  BY DEF TypeOK, Read

\* One request moves on; what it is now is fine, and so are the others.
LEMMA RequestsMove ==
    ASSUME TypeOK, Waiting, NEW p \in Req, NEW q, req' = [req EXCEPT ![p] = q],
           DOMAIN row' = Column, Typed(row'), spoiled' \in BOOLEAN, stray' \subseteq Char,
           row'.state = "setup" => row.state = "setup",
           Request(q), Guarded(q), Early(q, row'.state)
    PROVE  TypeOK' /\ Waiting'
  <1>1. DOMAIN req' = Req /\ req'[p] = q /\ \A r \in Req \ {p} : req'[r] = req[r]
    BY TypeUse
  <1>2. \A r \in Req : Request(req'[r])
    BY <1>1, TypeUse
  <1>3. TypeOK'
    <2>1. (\A x \in Column : row'[x] \in Values[x])
      BY TypedRow
    <2> QED BY <2>1, <1>1, <1>2 DEF TypeOK, Request
  <1>4. ASSUME NEW r \in Req PROVE Guarded(req'[r]) /\ Early(req'[r], row'.state)
    <2>1. CASE r = p
      BY <1>1, <2>1
    <2>2. CASE r # p
      <3>1. Guarded(req[r]) /\ Early(req[r], row.state) /\ req'[r] = req[r]
        BY <1>1, <2>2 DEF Waiting
      <3> QED BY <3>1 DEF Early
    <2> QED BY <2>1, <2>2
  <1> QED BY <1>3, <1>4 DEF Waiting

LEMMA RowStays ==
    ASSUME Kept, UNCHANGED <<row, spoiled, stray>>
    PROVE  Kept'
  BY DEF Kept, RolesDistinct, NoOrphans, Unmarked, Roles, Shown

\* A handler begins with q, on a copy for which its guards hold.
LEMMA BeginKeeps ==
    ASSUME IInv, NEW p \in Req, NEW q, NEW cols \in SUBSET Column, Begin(p, q, cols),
           DOMAIN q = Field, q.at \in Point, q.char \in Shows,
           q.on \in BOOLEAN, q.name \in Player \cup {NoPlayer}, q.shown \in Shows,
           \A x : (/\ DOMAIN x = Field /\ x.at = q.at /\ x.char = q.char /\ x.on = q.on
                   /\ x.shown = q.shown /\ DOMAIN x.copy = cols
                   /\ \A y \in cols : x.copy[y] = row[y])
                => Guarded(x) /\ Early(x, row.state)
    PROVE  IInv'
  <1> DEFINE x == [q EXCEPT !.copy = Read(cols)]
  <1>1. /\ req' = [req EXCEPT ![p] = x] /\ UNCHANGED <<row, spoiled, stray>>
    BY DEF Begin
  <1>2. /\ DOMAIN x = Field /\ x.at = q.at /\ x.char = q.char /\ x.on = q.on
        /\ x.shown = q.shown /\ x.name = q.name /\ x.copy = Read(cols)
    BY DEF Field
  <1> HIDE DEF x
  <1>3. TypeOK /\ Waiting /\ Kept
    BY DEF IInv
  <1>4. /\ DOMAIN x.copy = cols
        /\ \A y \in cols : x.copy[y] = row[y] /\ x.copy[y] \in Values[y]
    BY <1>2, <1>3, ReadFacts
  <1>5. Request(x)
    BY <1>2, <1>4 DEF Request
  <1>6. Guarded(x) /\ Early(x, row.state)
    BY <1>2, <1>4
  <1>7. TypeOK' /\ Waiting'
    BY <1>1, <1>3, <1>5, <1>6, RequestsMove, TypeUse
  <1> QED BY <1>1, <1>3, <1>7, RowStays DEF IInv

\* A request ends, with or without a write.
LEMMA EndKeeps ==
    ASSUME IInv, NEW p \in Req, req' = [req EXCEPT ![p] = Idle],
           DOMAIN row' = Column, Typed(row'), row'.state = row.state,
           spoiled' \in BOOLEAN, stray' \subseteq Char, Kept'
    PROVE  IInv'
  <1>1. TypeOK /\ Waiting
    BY DEF IInv
  <1>2. TypeOK' /\ Waiting'
    BY <1>1, RequestsMove, IdleIsFine
  <1> QED BY <1>2 DEF IInv

\* A write that replaces nothing: all that was read is still so.
LEMMA UpToDate ==
    ASSUME NEW p \in Req, ~Outdated(p)
    PROVE  \A x \in DOMAIN req[p].copy : req[p].copy[x] = row[x]
  BY DEF Outdated

LEMMA CopyTyped ==
    ASSUME TypeOK, NEW p \in Req
    PROVE  LET v == req[p].copy IN
           /\ "roles" \in DOMAIN v => v["roles"] \in Seq(Char) /\ Len(v["roles"]) <= MaxSeats
           /\ "sub" \in DOMAIN v => v["sub"] \in Shows
           /\ "names" \in DOMAIN v => v["names"] \in [Char -> Player \cup {NoPlayer}]
           /\ "evil" \in DOMAIN v => v["evil"] \in SUBSET Char
           /\ "promoted" \in DOMAIN v => v["promoted"] \in SUBSET Minion
           /\ "done" \in DOMAIN v => v["done"] \in SUBSET Char
  <1> DEFINE v == req[p].copy
  <1>1. \A x \in DOMAIN v : v[x] \in Values[x]
    BY DEF TypeOK
  <1> HIDE DEF v
  <1>2. /\ Values["roles"] = {s \in Seq(Char) : Len(s) <= MaxSeats}
        /\ Values["sub"] = Shows /\ Values["names"] = [Char -> Player \cup {NoPlayer}]
        /\ Values["evil"] = SUBSET Char /\ Values["promoted"] = SUBSET Minion
        /\ Values["done"] = SUBSET Char
    BY DEF Values
  <1> QED BY <1>1, <1>2 DEF v

-----------------------------------------------------------------------------
(***************************************************************************)
(* The handlers begin.                                                     *)
(***************************************************************************)
LEMMA BeginReassignKeeps ==
    ASSUME IInv, NEW p \in Req, NEW target \in Char, BeginReassign(p, target)
    PROVE  IInv'
  <1> DEFINE a == About("reassign", target, FALSE)
  <1>1. /\ DOMAIN a = Field /\ a.at = "reassign" /\ a.char = target /\ a.on = FALSE
        /\ a.name = NoPlayer
    BY IdleFields DEF About, Field
  <1> HIDE DEF a
  <1> DEFINE q == [a EXCEPT !.shown = row.sub]
             cols == {"sub", "roles"}
  <1>2. /\ DOMAIN q = Field /\ q.at = "reassign" /\ q.char = target /\ q.on = FALSE
        /\ q.name = NoPlayer /\ q.shown = row.sub
    BY <1>1 DEF Field
  <1>3. Reassignable(target) /\ Begin(p, q, cols)
    BY DEF BeginReassign, a
  <1> HIDE DEF q
  <1>4. /\ row.sub \in Char /\ row.sub \notin InPlay(row.roles)
        /\ target \in InPlay(row.roles) /\ target \in Townsfolk
        /\ row.sub \in Shows /\ target \in Shows
    BY <1>3, TypeUse DEF IInv, Typed, Reassignable, Shows, Roles
  <1>5. cols \in SUBSET Column
    BY ColumnSet
  <1>6. \A x : (/\ DOMAIN x = Field /\ x.at = q.at /\ x.char = q.char /\ x.on = q.on
                /\ x.shown = q.shown /\ DOMAIN x.copy = cols
                /\ \A y \in cols : x.copy[y] = row[y])
             => Guarded(x) /\ Early(x, row.state)
    BY <1>2, <1>4 DEF Guarded, Early, Moves
  <1> QED BY <1>2, <1>3, <1>4, <1>5, <1>6, BeginKeeps DEF Point

\* Without names and tokens, a request is what About makes it.
LEMMA BeginAbout ==
    ASSUME IInv, NEW p \in Req, NEW op \in Point, NEW c \in Shows, NEW on \in BOOLEAN,
           NEW cols \in SUBSET Column, Begin(p, About(op, c, on), cols),
           \A x : (/\ DOMAIN x = Field /\ x.at = op /\ x.char = c /\ x.on = on
                   /\ DOMAIN x.copy = cols /\ \A y \in cols : x.copy[y] = row[y])
                => Guarded(x) /\ Early(x, row.state)
    PROVE  IInv'
  <1> DEFINE q == About(op, c, on)
  <1>1. /\ DOMAIN q = Field /\ q.at = op /\ q.char = c /\ q.on = on
        /\ q.name = NoPlayer /\ q.shown = NoChar
    BY AboutFields
  <1>2. Begin(p, q, cols)
    OBVIOUS
  <1> HIDE DEF q
  <1> QED BY <1>1, <1>2, BeginKeeps DEF Shows

LEMMA BeginRandomizeKeeps ==
    ASSUME IInv, NEW p \in Req, BeginRandomize(p) PROVE IInv'
  BY BeginAbout, ColumnSet DEF BeginRandomize, Point, Guarded, Early, Shows

LEMMA BeginRolesKeeps ==
    ASSUME IInv, NEW p \in Req, NEW c \in Handpicked, NEW on \in BOOLEAN, BeginRoles(p, c, on)
    PROVE  IInv'
  <1> DEFINE cols == {"state", "roles", "sub"}
  <1>1. c \in Char /\ c \in Shows /\ cols \in SUBSET Column /\ "roles" \in Point
    BY HandpickedAssumption, ColumnSet DEF Point, Shows
  <1>2. Begin(p, About("roles", c, on), cols)
    BY DEF BeginRoles
  <1>3. /\ on => Len(row.roles) < MaxSeats
        /\ ~on => c \in InPlay(row.roles) /\ row.state = "setup"
    BY DEF BeginRoles, Roles
  <1>4. \A x : (/\ DOMAIN x = Field /\ x.at = "roles" /\ x.char = c /\ x.on = on
                /\ DOMAIN x.copy = cols /\ \A y \in cols : x.copy[y] = row[y])
             => Guarded(x) /\ Early(x, row.state)
    BY <1>1, <1>3 DEF Guarded, Early
  <1> QED BY <1>1, <1>2, <1>4, BeginAbout

LEMMA BeginSubsKeeps ==
    ASSUME IInv, NEW p \in Req, NEW c \in Sent, BeginSubs(p, c) PROVE IInv'
  <1> DEFINE cols == {"state", "roles", "sub"}
  <1>1. c \in Shows /\ cols \in SUBSET Column /\ "subs" \in Point
    BY HandpickedAssumption, ColumnSet DEF Point, Shows
  <1>2. Begin(p, About("subs", c, FALSE), cols) /\ row.state = "setup"
    BY DEF BeginSubs
  <1>3. \A x : (/\ DOMAIN x = Field /\ x.at = "subs" /\ x.char = c /\ x.on = FALSE
                /\ DOMAIN x.copy = cols /\ \A y \in cols : x.copy[y] = row[y])
             => Guarded(x) /\ Early(x, row.state)
    BY <1>1, <1>2 DEF Guarded, Early
  <1> QED BY <1>1, <1>2, <1>3, BeginAbout

\* The keys a client sends are looked at by none of these.
LEMMA BeginNamesKeeps ==
    ASSUME IInv, NEW p \in Req, NEW c \in Char, NEW n \in Player, BeginNames(p, c, n)
    PROVE  IInv'
  <1> DEFINE a == About("names", c, FALSE)
  <1>1. /\ DOMAIN a = Field /\ a.at = "names" /\ a.char = c /\ a.on = FALSE
        /\ a.shown = NoChar
    BY IdleFields DEF About, Field
  <1> HIDE DEF a
  <1> DEFINE q == [a EXCEPT !.name = n]
             cols == {"roles", "names"}
  <1>2. Begin(p, q, cols) /\ cols \in SUBSET Column
    BY ColumnSet DEF BeginNames, a
  <1>3. /\ DOMAIN q = Field /\ q.at = "names" /\ q.char = c /\ q.on = FALSE
        /\ q.name = n /\ q.shown = NoChar
    BY <1>1 DEF Field
  <1> HIDE DEF q
  <1>4. \A x : (/\ DOMAIN x = Field /\ x.at = q.at /\ x.char = q.char /\ x.on = q.on
                /\ x.shown = q.shown /\ DOMAIN x.copy = cols
                /\ \A y \in cols : x.copy[y] = row[y])
             => Guarded(x) /\ Early(x, row.state)
    BY <1>3 DEF Guarded, Early
  <1> QED BY <1>2, <1>3, <1>4, BeginKeeps DEF Shows, Point

LEMMA BeginAlignKeeps ==
    ASSUME IInv, NEW p \in Req, NEW c \in Char, NEW on \in BOOLEAN, BeginAlign(p, c, on)
    PROVE  IInv'
  <1> DEFINE cols == {"roles", "evil"}
  <1>1. cols \in SUBSET Column /\ "align" \in Point /\ c \in Shows
    BY ColumnSet DEF Point, Shows
  <1>2. /\ Begin(p, About("align", c, on), cols) /\ row.state = "in_progress"
        /\ c \in InPlay(row.roles)
    BY DEF BeginAlign, Roles
  <1>3. \A x : (/\ DOMAIN x = Field /\ x.at = "align" /\ x.char = c /\ x.on = on
                /\ DOMAIN x.copy = cols /\ \A y \in cols : x.copy[y] = row[y])
             => Guarded(x) /\ Early(x, row.state)
    BY <1>2 DEF Guarded, Early
  <1> QED BY <1>1, <1>2, <1>3, BeginAbout

LEMMA BeginToggleKeeps ==
    ASSUME IInv, NEW p \in Req, NEW c \in Char, NEW on \in BOOLEAN, BeginToggle(p, c, on)
    PROVE  IInv'
  <1> DEFINE cols == {"roles", "sub", "done"}
  <1>1. cols \in SUBSET Column /\ "toggle" \in Point /\ c \in Shows
    BY ColumnSet DEF Point, Shows
  <1>2. /\ Begin(p, About("toggle", c, on), cols) /\ row.state = "in_progress"
    BY DEF BeginToggle
  <1>3. \A x : (/\ DOMAIN x = Field /\ x.at = "toggle" /\ x.char = c /\ x.on = on
                /\ DOMAIN x.copy = cols /\ \A y \in cols : x.copy[y] = row[y])
             => Guarded(x) /\ Early(x, row.state)
    BY <1>2 DEF Guarded, Early
  <1> QED BY <1>1, <1>2, <1>3, BeginAbout

LEMMA BeginStarPassKeeps ==
    ASSUME IInv, NEW p \in Req, NEW c \in Char, BeginStarPass(p, c) \/ BeginUndoStarPass(p, c)
    PROVE  IInv'
  <1>1. {"roles", "promoted"} \in SUBSET Column /\ {"promoted"} \in SUBSET Column
        /\ "promote" \in Point /\ row.state = "in_progress" /\ c \in Shows
    BY ColumnSet DEF Point, Shows, BeginStarPass, BeginUndoStarPass
  <1>2. CASE BeginStarPass(p, c)
    <2>1. /\ Begin(p, About("promote", c, TRUE), {"roles", "promoted"})
          /\ c \in InPlay(row.roles) \cap Minion
      BY <1>2 DEF BeginStarPass, Roles
    <2>2. \A x : (/\ DOMAIN x = Field /\ x.at = "promote" /\ x.char = c /\ x.on = TRUE
                  /\ DOMAIN x.copy = {"roles", "promoted"}
                  /\ \A y \in {"roles", "promoted"} : x.copy[y] = row[y])
               => Guarded(x) /\ Early(x, row.state)
      BY <1>1, <2>1 DEF Guarded, Early
    <2> QED BY <1>1, <2>1, <2>2, BeginAbout
  <1>3. CASE BeginUndoStarPass(p, c)
    <2>1. Begin(p, About("promote", c, FALSE), {"promoted"})
      BY <1>3 DEF BeginUndoStarPass
    <2>2. \A x : (/\ DOMAIN x = Field /\ x.at = "promote" /\ x.char = c /\ x.on = FALSE
                  /\ DOMAIN x.copy = {"promoted"} /\ \A y \in {"promoted"} : x.copy[y] = row[y])
               => Guarded(x) /\ Early(x, row.state)
      BY <1>1 DEF Guarded, Early
    <2> QED BY <1>1, <2>1, <2>2, BeginAbout
  <1> QED BY <1>2, <1>3

LEMMA BeginDeathKeeps ==
    ASSUME IInv, NEW p \in Req, NEW c \in Char, BeginDeath(p, c) PROVE IInv'
  <1>1. {"roles"} \in SUBSET Column /\ "death" \in Point /\ c \in Shows
    BY ColumnSet DEF Point, Shows
  <1>2. /\ Begin(p, About("death", c, TRUE), {"roles"}) /\ row.state = "in_progress"
        /\ c \in InPlay(row.roles)
    BY DEF BeginDeath, Roles
  <1>3. \A x : (/\ DOMAIN x = Field /\ x.at = "death" /\ x.char = c /\ x.on = TRUE
                /\ DOMAIN x.copy = {"roles"} /\ \A y \in {"roles"} : x.copy[y] = row[y])
             => Guarded(x) /\ Early(x, row.state)
    BY <1>2 DEF Guarded, Early
  <1> QED BY <1>1, <1>2, <1>3, BeginAbout

LEMMA HandlerKeeps ==
    ASSUME IInv, NEW p \in Req, Handler(p) PROVE IInv'
  <1>1. CASE BeginRandomize(p)
    BY <1>1, BeginRandomizeKeeps
  <1>2. CASE \E c \in Handpicked, on \in BOOLEAN : BeginRoles(p, c, on)
    BY <1>2, BeginRolesKeeps
  <1>3. CASE \E c \in Sent : BeginSubs(p, c)
    BY <1>3, BeginSubsKeeps
  <1>4. ASSUME NEW c \in Char, \/ BeginReassign(p, c) \/ BeginDeath(p, c)
                               \/ BeginStarPass(p, c) \/ BeginUndoStarPass(p, c)
        PROVE  IInv'
    BY <1>4, BeginReassignKeeps, BeginDeathKeeps, BeginStarPassKeeps
  <1>5. ASSUME NEW c \in Char, NEW on \in BOOLEAN, BeginAlign(p, c, on) PROVE IInv'
    BY <1>5, BeginAlignKeeps
  <1>6. ASSUME NEW c \in Keys, \/ \E n \in Player : BeginNames(p, c, n)
                               \/ \E on \in BOOLEAN : BeginToggle(p, c, on)
        PROVE  IInv'
    <2>1. c \in Char
      BY HandpickedAssumption
    <2> QED BY <1>6, <2>1, BeginNamesKeeps, BeginToggleKeeps
  <1> QED BY <1>1, <1>2, <1>3, <1>4, <1>5, <1>6 DEF Handler

-----------------------------------------------------------------------------
(***************************************************************************)
(* The handlers write.                                                     *)
(***************************************************************************)

\* A write of p leaves the state of the game alone and p ends: what it writes
\* decides, where the promises still hold.
LEMMA WriteKeeps ==
    ASSUME IInv, NEW p \in Req, req' = [req EXCEPT ![p] = Idle], DOMAIN row' = Column,
           Typed(row'), row'.state = row.state, spoiled' \in BOOLEAN, stray' \subseteq Char,
           Unmarked', ~spoiled' => RolesDistinct' /\ NoOrphans'
    PROVE  IInv'
  <1>1. RolesDistinct' /\ NoOrphans'
    BY DEF RolesDistinct, NoOrphans
  <1> QED BY <1>1, EndKeeps DEF Kept

\* A write that only an outdated copy can spoil.
LEMMA CommitKeeps ==
    ASSUME IInv, NEW p \in Req, Commit(p, row'), DOMAIN row' = Column, Typed(row'),
           row'.state = row.state, Unmarked',
           ~spoiled /\ ~Outdated(p) /\ stray' = stray => RolesDistinct' /\ NoOrphans'
    PROVE  IInv'
  <1>1. /\ req' = [req EXCEPT ![p] = Idle] /\ spoiled' = (spoiled \/ Outdated(p))
        /\ stray' = stray
    BY DEF Commit
  <1>2. spoiled' \in BOOLEAN /\ stray' \subseteq Char
    BY <1>1, TypeUse DEF IInv
  <1>3. ~spoiled' => RolesDistinct' /\ NoOrphans'
    BY <1>1
  <1> QED BY <1>1, <1>2, <1>3, WriteKeeps

LEMMA RowParts ==
    ASSUME IInv
    PROVE  /\ TypeOK /\ DOMAIN row = Column /\ Typed(row) /\ Unmarked
           /\ ~spoiled => Distinct(row.roles)
           /\ ~spoiled =>
                 /\ row.dead \subseteq InPlay(row.roles)
                 /\ row.evil \subseteq InPlay(row.roles)
                 /\ row.promoted \subseteq InPlay(row.roles)
                 /\ \A d \in row.done \ stray :
                       \E c \in InPlay(row.roles) : d = Token(row.sub, c)
  <1>1. /\ TypeOK /\ DOMAIN row = Column /\ Typed(row) /\ Unmarked
        /\ RolesDistinct /\ NoOrphans
    BY TypeUse DEF IInv, Kept
  <1>2. ~spoiled => Distinct(row.roles)
    BY <1>1, DistinctNotTwice DEF RolesDistinct
  <1>3. ~spoiled =>
           /\ row.dead \cup row.evil \cup row.promoted \subseteq InPlay(row.roles)
           /\ row.done \ stray \subseteq {Token(row.sub, c) : c \in InPlay(row.roles)}
    BY <1>1 DEF NoOrphans, Roles, Shown
  <1> QED BY <1>1, <1>2, <1>3

\* To state the promises of a row.
LEMMA RowKept ==
    ASSUME Distinct(row'.roles),
           row'.dead \subseteq InPlay(row'.roles), row'.evil \subseteq InPlay(row'.roles),
           row'.promoted \subseteq InPlay(row'.roles),
           \A d \in row'.done \ stray' :
              \E c \in InPlay(row'.roles) : d = Token(row'.sub, c)
    PROVE  RolesDistinct' /\ NoOrphans'
  <1>1. ~Twice(row'.roles)
    BY DistinctNotTwice
  <1>2. /\ row'.dead \cup row'.evil \cup row'.promoted \subseteq InPlay(row'.roles)
        /\ row'.done \ stray' \subseteq {Token(row'.sub, c) : c \in InPlay(row'.roles)}
    OBVIOUS
  <1> QED BY <1>1, <1>2 DEF RolesDistinct, NoOrphans, Roles, Shown

LEMMA SubsCommitKeeps ==
    ASSUME IInv, NEW p \in Req, SubsCommit(p) PROVE IInv'
  <1>1. req[p].at = "subs" /\ Commit(p, row') /\ row' = [row EXCEPT !.sub = req[p].char]
    BY DEF SubsCommit, Commit
  <1>2. /\ req[p].char \in Shows
        /\ ~Outdated(p) => row.state = "setup"
    <2>1. Guarded(req[p])
      BY DEF IInv, Waiting
    <2> QED BY <1>1, <2>1, UpToDate DEF Guarded
  <1>3. /\ DOMAIN row' = Column /\ row'.sub = req[p].char
        /\ row'.state = row.state /\ row'.roles = row.roles /\ row'.names = row.names
        /\ row'.evil = row.evil /\ row'.dead = row.dead /\ row'.promoted = row.promoted
        /\ row'.done = row.done
    BY <1>1, RowParts, ColumnSet
  <1>4. Typed(row') /\ Unmarked'
    BY <1>2, <1>3, RowParts DEF Typed, Unmarked, Shows
  <1>5. ~spoiled /\ ~Outdated(p) /\ stray' = stray => RolesDistinct' /\ NoOrphans'
    BY <1>2, <1>3, RowParts, RowKept DEF Unmarked
  <1> QED BY <1>1, <1>3, <1>4, <1>5, CommitKeeps

LEMMA NamesCommitKeeps ==
    ASSUME IInv, NEW p \in Req, NamesCommit(p) PROVE IInv'
  <1> DEFINE n == [c \in Char |-> IF c = req[p].char THEN req[p].name
                         ELSE IF req[p].copy["names"][c] = req[p].name THEN NoPlayer
                         ELSE req[p].copy["names"][c]]
  <1>1. req[p].at = "names" /\ Commit(p, row') /\ row' = [row EXCEPT !.names = n]
    BY DEF NamesCommit, Commit
  <1>2. n \in [Char -> Player \cup {NoPlayer}]
    <2>1. Guarded(req[p]) /\ Request(req[p]) /\ TypeOK
      BY TypeUse DEF IInv, Waiting
    <2>2. req[p].copy["names"] \in [Char -> Player \cup {NoPlayer}]
      BY <1>1, <2>1, CopyTyped DEF Guarded
    <2> QED BY <2>1, <2>2 DEF Request
  <1> HIDE DEF n
  <1>3. /\ DOMAIN row' = Column /\ row'.names = n
        /\ row'.state = row.state /\ row'.roles = row.roles /\ row'.sub = row.sub
        /\ row'.evil = row.evil /\ row'.dead = row.dead /\ row'.promoted = row.promoted
        /\ row'.done = row.done
    BY <1>1, RowParts, ColumnSet
  <1>4. Typed(row') /\ Unmarked'
    BY <1>2, <1>3, RowParts DEF Typed, Unmarked
  <1>5. ~spoiled /\ ~Outdated(p) /\ stray' = stray => RolesDistinct' /\ NoOrphans'
    BY <1>3, RowParts, RowKept
  <1> QED BY <1>1, <1>3, <1>4, <1>5, CommitKeeps

LEMMA AlignCommitKeeps ==
    ASSUME IInv, NEW p \in Req, AlignCommit(p) PROVE IInv'
  <1> DEFINE q == req[p]
             v == Toggled(q.copy["evil"], q.char, q.on)
  <1>1. q.at = "align" /\ Commit(p, row') /\ row' = [row EXCEPT !.evil = v]
    BY DEF AlignCommit, Commit
  <1>2. /\ Guarded(q) /\ Early(q, row.state) /\ Request(q) /\ TypeOK
    BY TypeUse DEF IInv, Waiting
  <1>3. /\ q.copy["evil"] \in SUBSET Char /\ q.copy["roles"] \in Seq(Char)
        /\ q.char \in InPlay(q.copy["roles"]) /\ row.state # "setup"
        /\ ~Outdated(p) => q.copy["roles"] = row.roles /\ q.copy["evil"] = row.evil
    BY <1>1, <1>2, CopyTyped, UpToDate DEF Guarded, Early
  <1>4. q.char \in Char
    BY <1>3 DEF InPlay
  <1>5. /\ v \in SUBSET Char
        /\ ~Outdated(p) => v \subseteq row.evil \cup {q.char} /\ q.char \in InPlay(row.roles)
    BY <1>3, <1>4 DEF Toggled
  <1> HIDE DEF v, q
  <1>6. /\ DOMAIN row' = Column /\ row'.names = row.names
        /\ row'.state = row.state /\ row'.roles = row.roles /\ row'.sub = row.sub
        /\ row'.evil = v /\ row'.dead = row.dead /\ row'.promoted = row.promoted
        /\ row'.done = row.done
    BY <1>1, RowParts, ColumnSet
  <1>7. Typed(row') /\ Unmarked'
    BY <1>3, <1>5, <1>6, RowParts DEF Typed, Unmarked
  <1>8. ~spoiled /\ ~Outdated(p) /\ stray' = stray => RolesDistinct' /\ NoOrphans'
    BY <1>5, <1>6, RowParts, RowKept
  <1> QED BY <1>1, <1>6, <1>7, <1>8, CommitKeeps

\* An action ticked of a token that is not shown is a stray one.
LEMMA ToggleCommitKeeps ==
    ASSUME IInv, NEW p \in Req, ToggleCommit(p) PROVE IInv'
  <1> DEFINE q == req[p]
             v == Toggled(q.copy["done"], q.char, q.on)
             w == Toggled(stray, q.char, q.on /\ q.char \notin Shown)
  <1>1. /\ q.at = "toggle" /\ req' = [req EXCEPT ![p] = Idle]
        /\ row' = [row EXCEPT !.done = v] /\ stray' = w
        /\ spoiled' = (spoiled \/ Outdated(p))
    BY DEF ToggleCommit
  <1>2. /\ Guarded(q) /\ Early(q, row.state) /\ Request(q) /\ TypeOK /\ stray \subseteq Char
    BY TypeUse DEF IInv, Waiting
  <1>3. /\ q.copy["done"] \in SUBSET Char /\ q.char \in Char /\ row.state # "setup"
        /\ ~Outdated(p) => q.copy["done"] = row.done
    BY <1>1, <1>2, CopyTyped, UpToDate DEF Guarded, Early
  <1>4. v \in SUBSET Char /\ w \subseteq Char
    BY <1>2, <1>3 DEF Toggled
  <1>5. ASSUME ~Outdated(p), NEW d \in v \ w PROVE d \in (row.done \ stray) \cup Shown
    BY <1>3, <1>5 DEF Toggled
  <1> HIDE DEF v, w, q
  <1>6. /\ DOMAIN row' = Column /\ row'.names = row.names
        /\ row'.state = row.state /\ row'.roles = row.roles /\ row'.sub = row.sub
        /\ row'.evil = row.evil /\ row'.dead = row.dead /\ row'.promoted = row.promoted
        /\ row'.done = v
    BY <1>1, RowParts, ColumnSet
  <1>7. Typed(row') /\ Unmarked' /\ spoiled' \in BOOLEAN
    BY <1>1, <1>3, <1>4, <1>6, RowParts DEF Typed, Unmarked
  <1>8. ASSUME ~spoiled' PROVE RolesDistinct' /\ NoOrphans'
    <2>1. ~spoiled /\ ~Outdated(p)
      BY <1>1, <1>8
    <2>2. ASSUME NEW d \in row'.done \ stray'
          PROVE  \E c \in InPlay(row'.roles) : d = Token(row'.sub, c)
      <3>1. d \in (row.done \ stray) \cup Shown
        BY <1>1, <1>5, <1>6, <2>1
      <3>2. \E c \in InPlay(row.roles) : d = Token(row.sub, c)
        BY <2>1, <3>1, RowParts DEF Shown, Roles
      <3> QED BY <1>6, <3>2
    <2> QED BY <1>6, <2>1, <2>2, RowParts, RowKept
  <1> QED BY <1>1, <1>4, <1>6, <1>7, <1>8, WriteKeeps

LEMMA StarPassCommitKeeps ==
    ASSUME IInv, NEW p \in Req, StarPassCommit(p) PROVE IInv'
  <1> DEFINE q == req[p]
             v == Toggled(q.copy["promoted"], q.char, q.on)
  <1>1. q.at = "promote" /\ Commit(p, row') /\ row' = [row EXCEPT !.promoted = v]
    BY DEF StarPassCommit, Commit
  <1>2. /\ Guarded(q) /\ Early(q, row.state) /\ Request(q) /\ TypeOK
    BY TypeUse DEF IInv, Waiting
  <1>3. /\ q.copy["promoted"] \in SUBSET Minion /\ row.state # "setup"
        /\ q.on => q.char \in InPlay(q.copy["roles"]) \cap Minion
        /\ ~Outdated(p) => /\ q.on => q.copy["roles"] = row.roles
                           /\ q.copy["promoted"] = row.promoted
    BY <1>1, <1>2, CopyTyped, UpToDate DEF Guarded, Early, Request
  <1>4. /\ v \in SUBSET Minion
        /\ ~Outdated(p) => v \subseteq row.promoted \cup InPlay(row.roles)
    BY <1>3 DEF Toggled
  <1> HIDE DEF v, q
  <1>5. /\ DOMAIN row' = Column /\ row'.names = row.names
        /\ row'.state = row.state /\ row'.roles = row.roles /\ row'.sub = row.sub
        /\ row'.evil = row.evil /\ row'.dead = row.dead /\ row'.promoted = v
        /\ row'.done = row.done
    BY <1>1, RowParts, ColumnSet
  <1>6. Typed(row') /\ Unmarked'
    BY <1>3, <1>4, <1>5, RowParts DEF Typed, Unmarked
  <1>7. ~spoiled /\ ~Outdated(p) /\ stray' = stray => RolesDistinct' /\ NoOrphans'
    BY <1>4, <1>5, RowParts, RowKept
  <1> QED BY <1>1, <1>5, <1>6, <1>7, CommitKeeps

LEMMA DeathCommitKeeps ==
    ASSUME IInv, NEW p \in Req, DeathCommit(p) PROVE IInv'
  <1> DEFINE q == req[p]
             v == row.dead \cup {q.char}
  <1>1. q.at = "death" /\ Commit(p, row') /\ row' = [row EXCEPT !.dead = v]
    BY DEF DeathCommit, Commit
  <1>2. /\ Guarded(q) /\ Early(q, row.state) /\ Request(q) /\ TypeOK
    BY TypeUse DEF IInv, Waiting
  <1>3. /\ q.char \in InPlay(q.copy["roles"]) /\ row.state # "setup"
        /\ q.copy["roles"] \in Seq(Char)
        /\ ~Outdated(p) => q.copy["roles"] = row.roles
    BY <1>1, <1>2, CopyTyped, UpToDate DEF Guarded, Early
  <1>4. q.char \in Char
    BY <1>3 DEF InPlay
  <1> HIDE DEF q
  <1>5. /\ DOMAIN row' = Column /\ row'.names = row.names
        /\ row'.state = row.state /\ row'.roles = row.roles /\ row'.sub = row.sub
        /\ row'.evil = row.evil /\ row'.dead = v /\ row'.promoted = row.promoted
        /\ row'.done = row.done
    BY <1>1, RowParts, ColumnSet
  <1>6. Typed(row') /\ Unmarked'
    BY <1>3, <1>4, <1>5, RowParts DEF Typed, Unmarked
  <1>7. ~spoiled /\ ~Outdated(p) /\ stray' = stray => RolesDistinct' /\ NoOrphans'
    BY <1>3, <1>5, RowParts, RowKept
  <1> QED BY <1>1, <1>5, <1>6, <1>7, CommitKeeps

\* The roles of the request's copy with one more, or one fewer.
LEMMA RolesCommitKeeps ==
    ASSUME IInv, NEW p \in Req, RolesCommit(p) PROVE IInv'
  <1> DEFINE q == req[p]
             old == q.copy["roles"]
             roles == IF q.on THEN Append(old, q.char) ELSE Others(old, q.char)
             sub == Reconciled(roles, q.copy["sub"])
  <1>1. /\ q.at = "roles" /\ req' = [req EXCEPT ![p] = Idle] /\ stray' = stray
        /\ row' = [row EXCEPT !.roles = roles, !.sub = sub]
        /\ spoiled' = (spoiled \/ Outdated(p) \/ Twice(roles))
    BY DEF RolesCommit
  <1>2. /\ Guarded(q) /\ Early(q, row.state) /\ Request(q) /\ TypeOK
        /\ stray \subseteq Char
    BY TypeUse DEF IInv, Waiting
  <1>3. /\ old \in Seq(Char) /\ Len(old) <= MaxSeats /\ q.char \in Char
        /\ q.copy["sub"] \in Shows
        /\ q.on => Len(old) < MaxSeats
        /\ ~q.on => q.char \in InPlay(old)
        /\ ~Outdated(p) => /\ old = row.roles /\ q.copy["sub"] = row.sub
                           /\ ~q.on => row.state = "setup"
    BY <1>1, <1>2, CopyTyped, UpToDate DEF Guarded
  <1>4. q.on => /\ roles \in Seq(Char) /\ Len(roles) <= MaxSeats
                /\ InPlay(roles) = InPlay(old) \cup {q.char}
    BY <1>3, OneMore
  <1>5. ~q.on => roles \in Seq(Char) /\ Len(roles) <= MaxSeats
    <2> HAVE ~q.on
    <2>1. (\E k \in DOMAIN old : old[k] = q.char) /\ roles = Others(old, q.char)
      BY <1>3 DEF InPlay
    <2>2. /\ Others(old, q.char) \in Seq(Char)
          /\ Len(Others(old, q.char)) = Len(old) - 1
      BY <1>3, <2>1, OneLess
    <2> QED BY <1>3, <2>1, <2>2
  <1>6. sub \in Shows
    BY <1>3 DEF Reconciled, Shows
  <1>7. ASSUME q.on, NEW c \in InPlay(old)
        PROVE  Token(sub, c) = Token(q.copy["sub"], c)
    BY <1>4, <1>7 DEF Reconciled, Token
  <1>8. q.on \in BOOLEAN
    BY <1>2 DEF Request
  <1>9. roles \in Seq(Char) /\ Len(roles) <= MaxSeats
    BY <1>4, <1>5, <1>8
  <1>10. q.on => /\ InPlay(old) \subseteq InPlay(roles)
                 /\ \A c \in InPlay(old) : Token(sub, c) = Token(q.copy["sub"], c)
    BY <1>4, <1>7
  <1> HIDE DEF roles, sub, old, q
  <1>11. /\ DOMAIN row' = Column /\ row'.names = row.names
         /\ row'.state = row.state /\ row'.roles = roles /\ row'.sub = sub
         /\ row'.evil = row.evil /\ row'.dead = row.dead /\ row'.promoted = row.promoted
         /\ row'.done = row.done
    BY <1>1, RowParts, ColumnSet
  <1>12. Typed(row') /\ Unmarked'
    BY <1>6, <1>9, <1>11, RowParts DEF Typed, Unmarked
  <1>13. ASSUME ~spoiled' PROVE RolesDistinct' /\ NoOrphans'
    <2> ~spoiled /\ ~Outdated(p) /\ ~Twice(roles)
      BY <1>1, <1>13
    <2>1. Distinct(row'.roles)
      BY <1>11, DistinctNotTwice
    <2>2. /\ row'.dead \subseteq InPlay(row'.roles)
          /\ row'.evil \subseteq InPlay(row'.roles)
          /\ row'.promoted \subseteq InPlay(row'.roles)
          /\ \A d \in row'.done \ stray' :
                \E c \in InPlay(row'.roles) : d = Token(row'.sub, c)
      <3>1. CASE q.on
        <4>1. old = row.roles /\ q.copy["sub"] = row.sub
          BY <1>3
        <4>2. /\ InPlay(row.roles) \subseteq InPlay(roles)
              /\ \A c \in InPlay(row.roles) : Token(sub, c) = Token(row.sub, c)
          BY <1>10, <3>1, <4>1
        <4> QED BY <1>1, <1>11, <4>2, RowParts
      <3>2. CASE ~q.on
        BY <1>3, <1>11, <3>2, RowParts DEF Unmarked
      <3> QED BY <3>1, <3>2
    <2> QED BY <2>1, <2>2, RowKept
  <1>14. spoiled' \in BOOLEAN /\ stray' \subseteq Char
    BY <1>1, <1>2
  <1> QED BY <1>1, <1>11, <1>12, <1>13, <1>14, WriteKeeps

LEMMA RandomizeCommitKeeps ==
    ASSUME IInv, NEW p \in Req, RandomizeCommit(p) PROVE IInv'
  <1>1. PICK d \in Deals :
           /\ Len(d.roles) <= MaxSeats
           /\ row' = [row EXCEPT !.roles = d.roles, !.sub = d.sub]
           /\ spoiled' = (spoiled \/ Outdated(p) \/ row.state # "setup" \/ Twice(d.roles))
    BY DEF RandomizeCommit
  <1>2. req' = [req EXCEPT ![p] = Idle] /\ stray' = stray /\ stray \subseteq Char
    BY TypeUse DEF RandomizeCommit, IInv
  <1>3. d.roles \in Seq(Char) /\ d.sub \in Shows
    BY DealAssumption
  <1>4. /\ DOMAIN row' = Column /\ row'.names = row.names
        /\ row'.state = row.state /\ row'.roles = d.roles /\ row'.sub = d.sub
        /\ row'.evil = row.evil /\ row'.dead = row.dead /\ row'.promoted = row.promoted
        /\ row'.done = row.done
    BY <1>1, RowParts, ColumnSet
  <1>5. Typed(row') /\ Unmarked'
    BY <1>1, <1>3, <1>4, RowParts DEF Typed, Unmarked
  <1>6. ASSUME ~spoiled' PROVE RolesDistinct' /\ NoOrphans'
    <2>1. row.state = "setup" /\ Distinct(row'.roles)
      BY <1>1, <1>4, <1>6, DistinctNotTwice
    <2> QED BY <1>4, <2>1, RowParts, RowKept DEF Unmarked
  <1>7. spoiled' \in BOOLEAN
    BY <1>1
  <1> QED BY <1>2, <1>4, <1>5, <1>6, <1>7, WriteKeeps

\* The game is read again: either it is what the guards saw, or the request
\* knows that it is not.
LEMMA ReassignReadKeeps ==
    ASSUME IInv, NEW p \in Req, ReassignRead(p) PROVE IInv'
  <1> DEFINE q == req[p]
             cols == {"sub", "roles", "names", "evil"}
             out == Outdated(p)
             x == [q EXCEPT !.at = "rename", !.on = out, !.copy = Read(cols)]
  <1>1. /\ q.at = "reassign" /\ UNCHANGED <<row, spoiled, stray>>
        /\ req' = [req EXCEPT ![p] = x]
    BY DEF ReassignRead
  <1>2. /\ Guarded(q) /\ Request(q) /\ TypeOK /\ Waiting /\ Kept
    BY TypeUse DEF IInv, Waiting
  <1>3. cols \in SUBSET Column /\ out \in BOOLEAN
    BY ColumnSet DEF Outdated
  <1>4. /\ DOMAIN q.copy = {"sub", "roles"} /\ q.char \in Townsfolk
        /\ q.shown \in Char /\ Moves(q)
        /\ ~out => q.copy["sub"] = row.sub /\ q.copy["roles"] = row.roles
    BY <1>1, <1>2, UpToDate DEF Guarded
  <1> HIDE DEF q, out
  <1>5. /\ DOMAIN x = Field /\ x.at = "rename" /\ x.on = out /\ x.copy = Read(cols)
        /\ x.char = q.char /\ x.shown = q.shown /\ x.name = q.name
    BY <1>2 DEF Request, Field
  <1> HIDE DEF x
  <1>6. /\ DOMAIN x.copy = cols
        /\ \A y \in cols : x.copy[y] = row[y] /\ x.copy[y] \in Values[y]
    BY <1>2, <1>3, <1>5, ReadFacts
  <1>7. Request(x)
    BY <1>2, <1>3, <1>5, <1>6 DEF Request, Point
  <1>8. Guarded(x)
    <2>1. ~x.on => Moves(x)
      BY <1>4, <1>5, <1>6 DEF Moves
    <2> QED BY <1>4, <1>5, <1>6, <2>1 DEF Guarded
  <1>9. Early(x, row.state)
    BY <1>2, <1>5, <1>6 DEF Early, Kept, Unmarked
  <1>10. TypeOK' /\ Waiting'
    BY <1>1, <1>2, <1>7, <1>8, <1>9, RequestsMove, TypeUse
  <1> QED BY <1>1, <1>2, <1>10, RowStays DEF IInv

\* Renaming the seats of a list without the shown character keeps them apart,
\* whether or not the Drunk is in it.
LEMMA RenameApart ==
    ASSUME NEW shown \in Char, NEW target \in Townsfolk, NEW S,
           shown \notin S, NEW c \in S, NEW d \in S,
           SeatRename(shown, target, c) = SeatRename(shown, target, d)
    PROVE  c = d
  BY DEF SeatRename

\* Unless a name is left of the shown character, every name moves with its seat.
LEMMA RenameKeepsNames ==
    ASSUME NEW map, NEW shown \in Char, NEW target \in Townsfolk, map[shown] = NoPlayer,
           NEW m \in Rekeyed(map, shown, target), NEW c \in Char, c # shown
    PROVE  m[SeatRename(shown, target, c)] = map[c]
  <1> DEFINE k == SeatRename(shown, target, c)
             from == {d \in Char : SeatRename(shown, target, d) = k}
             met == {map[d] : d \in from} \ {NoPlayer}
  <1>1. k \in Char
    BY DEF SeatRename, Char
  <1>2. m[k] \in IF met = {} THEN {NoPlayer} ELSE met
    <2> HIDE DEF k
    <2> QED BY <1>1 DEF Rekeyed
  <1>3. ASSUME NEW d \in from, d # shown PROVE d = c
    <2>1. shown \notin Char \ {shown} /\ c \in Char \ {shown} /\ d \in Char \ {shown}
      BY <1>3
    <2> QED BY <2>1, RenameApart
  <1>4. c \in from
    OBVIOUS
  <1> HIDE DEF k, from
  <1>5. met = {map[c]} \ {NoPlayer}
    BY <1>3, <1>4
  <1> QED BY <1>2, <1>5 DEF k

\* A reassignment leaves every shown token what it is: the old Drunk really is
\* who they seemed to be, and the new one goes on showing their own character.
LEMMA RenameKeepsTokens ==
    ASSUME NEW shown \in Char, NEW target \in Townsfolk, NEW c, c # shown
    PROVE  Token(NewSub(shown, target), SeatRename(shown, target, c)) = Token(shown, c)
  BY DEF SeatRename, Token, NewSub, Char

LEMMA ReassignCommitKeeps ==
    ASSUME IInv, NEW p \in Req, ReassignCommit(p) PROVE IInv'
  <1> DEFINE q == req[p]
             f(c) == SeatRename(q.shown, q.char, c)
             old == q.copy["roles"]
             roles == [i \in DOMAIN old |-> f(old[i])]
             evil == {f(c) : c \in q.copy["evil"]}
             dead == RenameDeaths(row.dead, q.shown, q.char)
             sub == IF q.copy["sub"] = NoSub THEN NoSub ELSE NewSub(q.shown, q.char)
             leftover == q.copy["names"][q.shown] # NoPlayer
  <1>1. /\ q.at = "rename" /\ req' = [req EXCEPT ![p] = Idle] /\ stray' = stray
        /\ spoiled' = (spoiled \/ Outdated(p) \/ q.on \/ leftover)
    BY DEF ReassignCommit
  <1>2. PICK names \in Rekeyed(q.copy["names"], q.shown, q.char) :
            row' = [row EXCEPT !.roles = roles, !.names = names, !.evil = evil,
                               !.dead = dead, !.sub = sub]
    BY DEF ReassignCommit
  <1>3. Guarded(q) /\ Early(q, row.state) /\ Request(q) /\ TypeOK
    BY TypeUse DEF IInv, Waiting
  <1>4. /\ old \in Seq(Char) /\ Len(old) <= MaxSeats /\ q.copy["evil"] \in SUBSET Char
        /\ q.char \in Townsfolk /\ q.shown \in Char
        /\ ~q.on => Moves(q)
        /\ ~Outdated(p) => /\ old = row.roles /\ q.copy["sub"] = row.sub
                           /\ q.copy["evil"] = row.evil
    BY <1>1, <1>3, CopyTyped, UpToDate DEF Guarded
  <1>5. \A c \in Char : f(c) \in Char
    BY <1>4 DEF SeatRename, Char
  <1>6. roles \in Seq(Char) /\ Len(roles) = Len(old) /\ DOMAIN roles = DOMAIN old
    BY <1>4, <1>5
  <1>7. names \in [Char -> Player \cup {NoPlayer}]
    BY <1>2 DEF Rekeyed
  <1>8. evil \in SUBSET Char
    BY <1>4, <1>5
  <1>9. dead \in SUBSET Char
    BY <1>5, RowParts DEF RenameDeaths, Typed
  <1>10. sub \in Shows
    BY <1>4 DEF NewSub, Shows, Char
  <1>11. row.state = "setup" => evil = {} /\ dead = {}
    BY <1>1, <1>3, RowParts DEF Early, Unmarked, RenameDeaths
  <1>12. InPlay(roles) = {f(c) : c \in InPlay(old)}
    BY <1>6 DEF InPlay
  <1>13. ~q.on => (Distinct(old) => Distinct(roles))
    <2> HAVE ~q.on
    <2>1. q.shown \notin InPlay(old)
      BY <1>4 DEF Moves
    <2>2. ASSUME Distinct(old), NEW i \in DOMAIN old, NEW j \in DOMAIN old,
                 f(old[i]) = f(old[j])
          PROVE  i = j
      <3>1. old[i] \in InPlay(old) /\ old[j] \in InPlay(old)
        BY DEF InPlay
      <3>2. old[i] = old[j]
        BY <1>4, <2>1, <2>2, <3>1, RenameApart
      <3> QED BY <2>2, <3>2 DEF Distinct
    <2> QED BY <1>6, <2>2 DEF Distinct
  <1>14. ASSUME ~q.on, NEW c \in InPlay(old)
         PROVE  Token(sub, f(c)) = Token(q.copy["sub"], c)
    <2>1. q.copy["sub"] = q.shown /\ q.shown # NoSub /\ c # q.shown
      BY <1>4, <1>14 DEF Moves, Char
    <2>2. sub = NewSub(q.shown, q.char)
      BY <2>1
    <2> QED BY <1>4, <2>1, <2>2, RenameKeepsTokens
  <1>15. dead = {f(c) : c \in row.dead}
    BY DEF RenameDeaths
  <1>16. \A c \in Minion : f(c) = c
    BY <1>4 DEF SeatRename, Char
  <1>17. spoiled' \in BOOLEAN
    <2>1. q.on \in BOOLEAN /\ spoiled \in BOOLEAN
      BY <1>3 DEF Request, TypeOK
    <2> QED BY <1>1, <2>1
  <1>18. /\ ~q.on => \A c \in InPlay(old) : Token(sub, f(c)) = Token(q.copy["sub"], c)
         /\ \A c \in InPlay(old) : f(c) \in InPlay(roles)
    BY <1>12, <1>14
  <1> HIDE DEF q, f, old, roles, evil, dead, sub, leftover
  <1>19. /\ DOMAIN row' = Column /\ row'.names = names
         /\ row'.state = row.state /\ row'.roles = roles /\ row'.sub = sub
         /\ row'.evil = evil /\ row'.dead = dead /\ row'.promoted = row.promoted
         /\ row'.done = row.done
    BY <1>2, RowParts, ColumnSet
  <1>20. Typed(row') /\ Unmarked'
    BY <1>4, <1>6, <1>7, <1>8, <1>9, <1>10, <1>11, <1>19, RowParts DEF Typed, Unmarked
  <1>21. ASSUME ~spoiled' PROVE RolesDistinct' /\ NoOrphans'
    <2>1. ~spoiled /\ ~Outdated(p) /\ ~q.on
      BY <1>1, <1>21
    <2>2. Distinct(row'.roles)
      BY <1>4, <1>13, <1>19, <2>1, RowParts
    <2>3. /\ row'.dead \subseteq InPlay(row'.roles)
          /\ row'.evil \subseteq InPlay(row'.roles)
          /\ row'.promoted \subseteq InPlay(row'.roles)
          /\ \A d \in row'.done \ stray' :
                \E c \in InPlay(row'.roles) : d = Token(row'.sub, c)
      <3>1. /\ row.dead \subseteq InPlay(old) /\ row.evil \subseteq InPlay(old)
            /\ row.promoted \subseteq InPlay(old) /\ row.promoted \subseteq Minion
            /\ \A d \in row.done \ stray :
                  \E c \in InPlay(old) : d = Token(q.copy["sub"], c)
        BY <1>4, <1>19, <2>1, RowParts DEF Typed
      <3>2. row'.dead \subseteq InPlay(row'.roles)
        BY <1>15, <1>18, <1>19, <3>1
      <3>3. row'.evil \subseteq InPlay(row'.roles)
        BY <1>4, <1>18, <1>19, <2>1, <3>1 DEF evil
      <3>4. row'.promoted \subseteq InPlay(row'.roles)
        BY <1>16, <1>18, <1>19, <3>1
      <3>5. ASSUME NEW d \in row'.done \ stray'
            PROVE  \E c \in InPlay(row'.roles) : d = Token(row'.sub, c)
        <4>1. PICK c \in InPlay(old) : d = Token(q.copy["sub"], c)
          BY <1>1, <1>19, <3>1, <3>5
        <4> QED BY <1>18, <1>19, <2>1, <4>1
      <3> QED BY <3>2, <3>3, <3>4, <3>5
    <2> QED BY <2>2, <2>3, RowKept
  <1>22. stray' \subseteq Char
    BY <1>1, TypeUse DEF IInv
  <1> QED BY <1>1, <1>17, <1>19, <1>20, <1>21, <1>22, WriteKeeps

\* A death taken back, the game's start and its end.
LEMMA StorytellerKeeps ==
    ASSUME IInv, Storyteller PROVE IInv'
  <1>1. TypeOK /\ Waiting
    BY DEF IInv
  <1>2. /\ UNCHANGED <<req, spoiled, stray>> /\ DOMAIN req = Req
        /\ spoiled \in BOOLEAN /\ stray \subseteq Char
    BY <1>1, TypeUse DEF Storyteller, StartGame, EndGame, RemoveDeath
  <1>3. ASSUME DOMAIN row' = Column, Typed(row'),
               row'.state = "setup" => row.state = "setup", Kept'
        PROVE  IInv'
    <2>1. \A p \in Req : req'[p] = req[p] /\ Request(req[p]) /\ Guarded(req[p])
                           /\ Early(req[p], row'.state)
      BY <1>1, <1>2, <1>3, TypeUse DEF Waiting, Early
    <2>2. (\A x \in Column : row'[x] \in Values[x])
      BY <1>3, TypedRow
    <2>3. TypeOK'
      BY <1>2, <1>3, <2>1, <2>2 DEF TypeOK, Request
    <2> QED BY <1>3, <2>1, <2>3 DEF IInv, Waiting
  <1>4. ASSUME StartGame \/ EndGame PROVE IInv'
    <2>1. /\ DOMAIN row' = Column /\ row'.names = row.names
          /\ row'.roles = row.roles /\ row'.sub = row.sub
          /\ row'.evil = row.evil /\ row'.dead = row.dead /\ row'.promoted = row.promoted
          /\ row'.done = row.done
          /\ \/ row.state = "setup" /\ row'.state = "in_progress"
             \/ row'.state = "completed"
      BY <1>4, RowParts, ColumnSet DEF StartGame, EndGame
    <2>2. Typed(row')
      BY <2>1, RowParts DEF Typed
    <2>3. Unmarked' /\ RolesDistinct'
      BY <1>2, <2>1, RowParts, DistinctNotTwice DEF Unmarked, RolesDistinct
    <2>4. NoOrphans'
      BY <1>2, <2>1, RowParts DEF NoOrphans, Roles, Shown
    <2> QED BY <1>3, <2>1, <2>2, <2>3, <2>4 DEF Kept
  <1>5. ASSUME NEW c \in Char, RemoveDeath(c) PROVE IInv'
    <2> DEFINE v == row.dead \ {c}
    <2>1. row' = [row EXCEPT !.dead = v]
      BY <1>5 DEF RemoveDeath
    <2>2. /\ DOMAIN row' = Column /\ row'.names = row.names /\ row'.state = row.state
          /\ row'.roles = row.roles /\ row'.sub = row.sub
          /\ row'.evil = row.evil /\ row'.dead = v /\ row'.promoted = row.promoted
          /\ row'.done = row.done
      BY <2>1, RowParts, ColumnSet
    <2>3. Typed(row')
      BY <2>2, RowParts DEF Typed
    <2>4. Unmarked'
      BY <2>2, RowParts DEF Unmarked
    <2>5. ~spoiled => RolesDistinct' /\ NoOrphans'
      BY <1>2, <2>2, RowParts, RowKept
    <2>6. RolesDistinct' /\ NoOrphans'
      BY <1>2, <2>5 DEF RolesDistinct, NoOrphans
    <2> QED BY <1>3, <2>2, <2>3, <2>4, <2>6 DEF Kept
  <1> QED BY <1>4, <1>5 DEF Storyteller

LEMMA StepKeeps ==
    ASSUME IInv, NEW p \in Req, Step(p) \/ Abort(p) PROVE IInv'
  <1>1. CASE Abort(p)
    <2>1. req' = [req EXCEPT ![p] = Idle] /\ UNCHANGED <<row, spoiled, stray>>
      BY <1>1 DEF Abort
    <2>2. Kept' /\ spoiled' \in BOOLEAN /\ stray' \subseteq Char
      BY <2>1, RowStays, TypeUse DEF IInv
    <2> QED BY <2>1, <2>2, EndKeeps, RowParts
  <1>2. CASE Step(p)
    BY <1>2, ReassignReadKeeps, ReassignCommitKeeps, RandomizeCommitKeeps, RolesCommitKeeps,
       SubsCommitKeeps, NamesCommitKeeps, AlignCommitKeeps, ToggleCommitKeeps,
       StarPassCommitKeeps, DeathCommitKeeps DEF Step
  <1> QED BY <1>1, <1>2

LEMMA InitIInv == Init => IInv
  <1> SUFFICES ASSUME Init PROVE IInv
    OBVIOUS
  <1>1. /\ row.state = "setup" /\ row.roles = <<>> /\ row.sub = NoSub
        /\ row.names = [c \in Char |-> NoPlayer] /\ row.evil = {} /\ row.dead = {}
        /\ row.promoted = {} /\ row.done = {}
        /\ DOMAIN row = Column
    BY ColumnSet DEF Init
  <1>2. DOMAIN req = Req /\ (\A p \in Req : req[p] = Idle) /\ spoiled = FALSE /\ stray = {}
    BY DEF Init
  <1>3. Typed(row)
    BY <1>1 DEF Typed, Shows
  <1>4. TypeOK
    BY <1>1, <1>2, <1>3, IdleIsFine, TypeParts
  <1>5. Waiting
    BY <1>2, IdleIsFine DEF Waiting
  <1>6. Kept
    BY <1>1 DEF Kept, RolesDistinct, Twice, NoOrphans, Unmarked
  <1> QED BY <1>4, <1>5, <1>6 DEF IInv

LEMMA Inductive == IInv /\ [Next]_vars => IInv'
  <1> SUFFICES ASSUME IInv, [Next]_vars PROVE IInv'
    OBVIOUS
  <1>1. CASE UNCHANGED vars
    BY <1>1 DEF vars, IInv, TypeOK, Kept, RolesDistinct, NoOrphans, Unmarked, Roles, Shown, Waiting
  <1>2. ASSUME NEW p \in Req, Handler(p) \/ Step(p) \/ Abort(p) PROVE IInv'
    BY <1>2, HandlerKeeps, StepKeeps
  <1>3. CASE Storyteller
    BY <1>3, StorytellerKeeps
  <1> QED BY <1>1, <1>2, <1>3 DEF Next

-----------------------------------------------------------------------------
\* The row and the copies that requests have of its columns are well typed,
\* for any characters and requests: the star pass promotes minions only, though
\* it writes back a list that is older than its guard.
THEOREM TypeCorrect == Spec => []TypeOK
  <1>1. IInv => TypeOK
    BY DEF IInv
  <1> QED BY <1>1, InitIInv, Inductive, PTL DEF Spec

\* Until edits overwrite each other, or a list that is sent or dealt names one
\* itself, no character is in play twice: what the Drunk's token shows becomes a
\* real role only where it is none.  This is the guard of
\* ReassignBagSubstitution, taken before its transaction, against RandomizeRoles,
\* UpdateGameRoles and UpdateBagSubstitutions, which takes any character for the
\* token, one in play or the Drunk included.
THEOREM NobodyTwice == Spec => []RolesDistinct
  <1>1. IInv => RolesDistinct
    BY DEF IInv, Kept
  <1> QED BY <1>1, InitIInv, Inductive, PTL DEF Spec

\* Until then, and as long as the roles of a running game are not randomized,
\* all that is recorded is about somebody in play, and applySeatRename moves
\* deaths, sides, promotions and roles alike while the tokens that key the
\* night's progress stay what they are: an action ticked of a token on the table
\* (the server takes any, and those are not spoken of) is still one of a token
\* there.
THEOREM NothingOrphaned == Spec => []NoOrphans
  <1>1. IInv => NoOrphans
    BY DEF IInv, Kept
  <1> QED BY <1>1, InitIInv, Inductive, PTL DEF Spec

-----------------------------------------------------------------------------
(***************************************************************************)
(* The refinement of the table, step by step.                              *)
(***************************************************************************)
TheDrunk == IF spoiled THEN {} ELSE {i \in DOMAIN row.roles : row.roles[i] = Drunk}
SeatStep == [Seats!Next]_(Seats!vars)

\* Nothing that the table shows is touched.
LEMMA Unseen ==
    ASSUME Table' = Table, TheDrunk' = TheDrunk, spoiled' = spoiled,
           row'.state # "setup" <=> row.state # "setup"
    PROVE  SeatStep
  BY DEF SeatStep, Seats!vars, TheDrunk

LEMMA Redealt ==
    ASSUME row.state = "setup", row'.state = "setup", spoiled' = spoiled
    PROVE  SeatStep
  BY DEF SeatStep, Seats!Next, Seats!Deal

\* An edit has overwritten another one.
LEMMA Spoils ==
    ASSUME spoiled', spoiled \in BOOLEAN, row'.state # "setup" <=> row.state # "setup"
    PROVE  SeatStep
  <1>1. Table' = <<>> /\ TheDrunk' = {} /\ spoiled' = TRUE
    BY DEF Table, TheDrunk
  <1>2. CASE spoiled
    <2>1. Table = <<>> /\ TheDrunk = {} /\ spoiled = TRUE
      BY <1>2 DEF Table, TheDrunk
    <2> QED BY <1>1, <2>1, Unseen
  <1>3. CASE ~spoiled
    BY <1>1, <1>3 DEF SeatStep, Seats!Next, Seats!Distrust, TheDrunk
  <1> QED BY <1>2, <1>3

LEMMA SeatFields ==
    ASSUME NEW c
    PROVE  /\ DOMAIN Seat(row, c) = {"name", "token", "dead", "evil", "promoted"}
           /\ Seat(row, c).name = row.names[c] /\ Seat(row, c).token = Token(row.sub, c)
           /\ Seat(row, c).dead = (c \in row.dead) /\ Seat(row, c).evil = (c \in row.evil)
           /\ Seat(row, c).promoted = (c \in row.promoted)
  BY DEF Seat

\* A change to one field of a seat.
LEMMA SeatWith ==
    ASSUME NEW n, NEW m, NEW t, NEW d, NEW e, NEW p, NEW x
    PROVE  LET s == [name |-> n, token |-> t, dead |-> d, evil |-> e, promoted |-> p]
           IN  /\ [s EXCEPT !.name = m] =
                    [name |-> m, token |-> t, dead |-> d, evil |-> e, promoted |-> p]
               /\ [s EXCEPT !.dead = x] =
                    [name |-> n, token |-> t, dead |-> x, evil |-> e, promoted |-> p]
               /\ [s EXCEPT !.evil = x] =
                    [name |-> n, token |-> t, dead |-> d, evil |-> x, promoted |-> p]
               /\ [s EXCEPT !.promoted = x] =
                    [name |-> n, token |-> t, dead |-> d, evil |-> e, promoted |-> x]
  OBVIOUS

LEMMA Rows ==
    ASSUME ~spoiled
    PROVE  /\ Table = [i \in DOMAIN row.roles |-> Seat(row, row.roles[i])]
           /\ DOMAIN Table = DOMAIN row.roles
           /\ \A i \in DOMAIN row.roles : Table[i] = Seat(row, row.roles[i])
  BY DEF Table

LEMMA RowsNext ==
    ASSUME ~spoiled'
    PROVE  /\ Table' = [i \in DOMAIN row'.roles |-> Seat(row', row'.roles[i])]
           /\ DOMAIN Table' = DOMAIN row'.roles
           /\ \A i \in DOMAIN row'.roles : Table'[i] = Seat(row', row'.roles[i])
  BY DEF Table

\* A mark on the seat of c is set or taken off; nobody else sits there.
LEMMA MarkMoves ==
    ASSUME IInv, ~spoiled, spoiled' = spoiled, NEW c, row'.roles = row.roles, row'.state = row.state,
           row'.names = row.names, row'.sub = row.sub,
           \A d \in Roles \ {c} : /\ d \in row'.dead <=> d \in row.dead
                                  /\ d \in row'.evil <=> d \in row.evil
                                  /\ d \in row'.promoted <=> d \in row.promoted,
           \/ row'.evil = row.evil /\ row'.promoted = row.promoted
           \/ row'.dead = row.dead /\ row'.promoted = row.promoted
           \/ row'.dead = row.dead /\ row'.evil = row.evil
    PROVE  SeatStep
  <1>1. ASSUME NEW d \in Roles \ {c} PROVE Seat(row', d) = Seat(row, d)
    BY <1>1 DEF Seat
  <1>2. TheDrunk' = TheDrunk
    BY DEF TheDrunk
  <1>3. Distinct(row.roles) /\ \A i \in DOMAIN row.roles : row.roles[i] \in Roles
    BY RowParts DEF Roles, InPlay
  <1>4. CASE c \notin Roles \/ Seat(row', c) = Seat(row, c)
    <2>1. \A d \in Roles : Seat(row', d) = Seat(row, d)
      BY <1>1, <1>4
    <2>2. Table' = Table
      BY <1>3, <2>1, Rows, RowsNext
    <2> QED BY <1>2, <2>2, Unseen
  <1>5. CASE c \in Roles /\ Seat(row', c) # Seat(row, c)
    <2>1. PICK k \in DOMAIN row.roles : row.roles[k] = c
      BY <1>5 DEF Roles, InPlay
    <2>2. \A i \in DOMAIN row.roles \ {k} : Seat(row', row.roles[i]) = Seat(row, row.roles[i])
      <3> TAKE i \in DOMAIN row.roles \ {k}
      <3>1. row.roles[i] # c /\ row.roles[i] \in Roles
        BY <1>3, <2>1 DEF Distinct
      <3>2. Seat(row', row'.roles[i]) = Seat(row, row.roles[i])
        BY <1>1, <3>1
      <3> QED BY <3>2
    <2>3. Table' = [Table EXCEPT ![k] = Seat(row', c)]
      BY <2>1, <2>2, Rows, RowsNext
    <2>4. \/ Seat(row', c) = [Seat(row, c) EXCEPT !.dead = ~(c \in row.dead)]
          \/ Seat(row', c) = [Seat(row, c) EXCEPT !.evil = ~(c \in row.evil)]
          \/ Seat(row', c) = [Seat(row, c) EXCEPT !.promoted = ~(c \in row.promoted)]
      <3>1. /\ Seat(row, c) = [name |-> row.names[c], token |-> Token(row.sub, c),
                          dead |-> c \in row.dead, evil |-> c \in row.evil,
                          promoted |-> c \in row.promoted]
            /\ Seat(row', c) = [name |-> row.names[c], token |-> Token(row.sub, c),
                           dead |-> c \in row'.dead, evil |-> c \in row'.evil,
                           promoted |-> c \in row'.promoted]
        BY DEF Seat
      <3> QED BY <1>5, <3>1, SeatWith
    <2>5. Seats!OneSeat
      <3>1. Table[k] = Seat(row, c) /\ k \in DOMAIN Table /\ DOMAIN Table' = DOMAIN Table
        BY <2>1, Rows, RowsNext
      <3>2. /\ Table[k].dead = (c \in row.dead) /\ Table[k].evil = (c \in row.evil)
            /\ Table[k].promoted = (c \in row.promoted)
        BY <3>1, SeatFields
      <3>3. \/ Table' = [Table EXCEPT ![k] = [Table[k] EXCEPT !.dead = ~Table[k].dead]]
            \/ Table' = [Table EXCEPT ![k] = [Table[k] EXCEPT !.evil = ~Table[k].evil]]
            \/ Table' = [Table EXCEPT ![k] = [Table[k] EXCEPT !.promoted = ~Table[k].promoted]]
        BY <2>3, <2>4, <3>1, <3>2
      <3> QED BY <1>2, <3>1, <3>3 DEF Seats!OneSeat, Seats!Keep, TheDrunk
    <2> QED BY <2>5 DEF SeatStep, Seats!Next
  <1> QED BY <1>4, <1>5

\* A write is judged where it replaces nothing.
LEMMA WriteShows ==
    ASSUME IInv, NEW p \in Req, NEW more \in BOOLEAN, row'.state = row.state,
           spoiled' = (spoiled \/ Outdated(p) \/ more),
           ~spoiled' /\ ~spoiled /\ spoiled' = spoiled /\ ~Outdated(p) => SeatStep
    PROVE  SeatStep
  <1>1. spoiled \in BOOLEAN
    BY TypeUse DEF IInv
  <1>2. CASE spoiled'
    BY <1>1, <1>2, Spoils
  <1>3. CASE ~spoiled'
    BY <1>1, <1>3
  <1> QED BY <1>2, <1>3

LEMMA CommitShows ==
    ASSUME IInv, NEW p \in Req, row'.state = row.state, spoiled' = (spoiled \/ Outdated(p)),
           ~spoiled /\ spoiled' = spoiled /\ ~Outdated(p) => SeatStep
    PROVE  SeatStep
  BY WriteShows

LEMMA SubsShow ==
    ASSUME IInv, NEW p \in Req, SubsCommit(p) PROVE SeatStep
  <1>1. /\ req[p].at = "subs" /\ spoiled' = (spoiled \/ Outdated(p))
        /\ row' = [row EXCEPT !.sub = req[p].char]
    BY DEF SubsCommit, Commit
  <1>2. row'.state = row.state
    BY <1>1, RowParts, ColumnSet
  <1>3. ~Outdated(p) => row.state = "setup"
    <2>1. Guarded(req[p])
      BY DEF IInv, Waiting
    <2> QED BY <1>1, <2>1, UpToDate DEF Guarded
  <1> QED BY <1>1, <1>2, <1>3, CommitShows, Redealt

LEMMA NamesShow ==
    ASSUME IInv, NEW p \in Req, NamesCommit(p) PROVE SeatStep
  <1> DEFINE n == [c \in Char |-> IF c = req[p].char THEN req[p].name
                         ELSE IF req[p].copy["names"][c] = req[p].name THEN NoPlayer
                         ELSE req[p].copy["names"][c]]
  <1>1. spoiled' = (spoiled \/ Outdated(p)) /\ row' = [row EXCEPT !.names = n]
    BY DEF NamesCommit, Commit
  <1> HIDE DEF n
  <1>2. /\ row'.state = row.state /\ row'.roles = row.roles /\ row'.sub = row.sub
        /\ row'.evil = row.evil /\ row'.dead = row.dead /\ row'.promoted = row.promoted
    BY <1>1, RowParts, ColumnSet
  <1>3. ASSUME ~spoiled, spoiled' = spoiled PROVE Seats!Name
    <2>1. DOMAIN Table' = DOMAIN Table
      BY <1>2, <1>3, Rows, RowsNext
    <2>2. ASSUME NEW s \in DOMAIN Table
          PROVE  Table'[s] = [Table[s] EXCEPT !.name = Table'[s].name]
      <3> DEFINE c == row.roles[s]
      <3>1. /\ Table[s] = Seat(row, c) /\ Table'[s] = Seat(row', c)
        BY <1>2, <1>3, Rows, RowsNext
      <3>2. /\ Seat(row, c) = [name |-> row.names[c], token |-> Token(row.sub, c),
                               dead |-> c \in row.dead, evil |-> c \in row.evil,
                               promoted |-> c \in row.promoted]
            /\ Seat(row', c) = [name |-> row'.names[c], token |-> Token(row.sub, c),
                               dead |-> c \in row.dead, evil |-> c \in row.evil,
                               promoted |-> c \in row.promoted]
        BY <1>2 DEF Seat
      <3>3. Seat(row', c) = [Seat(row, c) EXCEPT !.name = row'.names[c]]
        BY <3>2, SeatWith
      <3>4. Seat(row', c).name = row'.names[c]
        BY <3>2
      <3> QED BY <3>1, <3>3, <3>4
    <2>3. Seats!Keep
      BY <1>2, <1>3 DEF Seats!Keep
    <2> QED BY <2>1, <2>2, <2>3 DEF Seats!Name
  <1> QED BY <1>1, <1>2, <1>3, CommitShows DEF SeatStep, Seats!Next

LEMMA MarksShow ==
    ASSUME IInv, NEW p \in Req,
           AlignCommit(p) \/ ToggleCommit(p) \/ StarPassCommit(p) \/ DeathCommit(p)
    PROVE  SeatStep
  <1> DEFINE q == req[p]
             evil == Toggled(q.copy["evil"], q.char, q.on)
             done == Toggled(q.copy["done"], q.char, q.on)
             promoted == Toggled(q.copy["promoted"], q.char, q.on)
             dead == row.dead \cup {q.char}
  <1>1. /\ spoiled' = (spoiled \/ Outdated(p))
        /\ \/ q.at = "align" /\ row' = [row EXCEPT !.evil = evil]
           \/ q.at = "toggle" /\ row' = [row EXCEPT !.done = done]
           \/ q.at = "promote" /\ row' = [row EXCEPT !.promoted = promoted]
           \/ q.at = "death" /\ row' = [row EXCEPT !.dead = dead]
    BY DEF AlignCommit, ToggleCommit, StarPassCommit, DeathCommit, Commit
  <1>2. Guarded(q) /\ Request(q)
    BY TypeUse DEF IInv, Waiting
  <1>3. ASSUME ~Outdated(p)
        PROVE  /\ q.at = "align" => q.copy["evil"] = row.evil
               /\ q.at = "promote" => q.copy["promoted"] = row.promoted
    BY <1>2, <1>3, UpToDate DEF Guarded, Request
  <1>4. ASSUME ~Outdated(p), NEW d, d # q.char
        PROVE  /\ q.at = "align" => (d \in evil <=> d \in row.evil)
               /\ q.at = "promote" => (d \in promoted <=> d \in row.promoted)
               /\ d \in dead <=> d \in row.dead
    BY <1>3, <1>4 DEF Toggled
  <1> HIDE DEF evil, done, promoted, dead, q
  <1>5. /\ row'.state = row.state /\ row'.roles = row.roles /\ row'.sub = row.sub
        /\ row'.names = row.names
        /\ \/ q.at = "align" /\ row'.evil = evil /\ UNCHANGED <<row.dead, row.promoted>>
           \/ q.at = "toggle" /\ UNCHANGED <<row.dead, row.evil, row.promoted>>
           \/ q.at = "promote" /\ row'.promoted = promoted /\ UNCHANGED <<row.dead, row.evil>>
           \/ q.at = "death" /\ row'.dead = dead /\ UNCHANGED <<row.evil, row.promoted>>
    BY <1>1, RowParts, ColumnSet
  <1>6. ASSUME ~Outdated(p), NEW d \in Roles \ {q.char}
        PROVE  /\ d \in row'.dead <=> d \in row.dead
               /\ d \in row'.evil <=> d \in row.evil
               /\ d \in row'.promoted <=> d \in row.promoted
    BY <1>4, <1>5, <1>6
  <1>7. \/ row'.evil = row.evil /\ row'.promoted = row.promoted
        \/ row'.dead = row.dead /\ row'.promoted = row.promoted
        \/ row'.dead = row.dead /\ row'.evil = row.evil
    BY <1>5
  <1>8. ~spoiled /\ spoiled' = spoiled /\ ~Outdated(p) => SeatStep
    BY <1>5, <1>6, <1>7, MarkMoves
  <1> QED BY <1>1, <1>5, <1>8, CommitShows

LEMMA StorytellerShows ==
    ASSUME IInv, Storyteller PROVE SeatStep
  <1>1. spoiled' = spoiled
    BY DEF Storyteller, StartGame, EndGame, RemoveDeath
  <1>2. ASSUME NEW c \in Char, RemoveDeath(c) PROVE SeatStep
    <2> DEFINE v == row.dead \ {c}
    <2>1. row' = [row EXCEPT !.dead = v]
      BY <1>2 DEF RemoveDeath
    <2>2. /\ row'.names = row.names /\ row'.state = row.state
          /\ row'.roles = row.roles /\ row'.sub = row.sub
          /\ row'.evil = row.evil /\ row'.dead = v /\ row'.promoted = row.promoted
      BY <2>1, RowParts, ColumnSet
    <2>3. CASE spoiled
      <3>1. Table' = Table /\ TheDrunk' = TheDrunk
        BY <1>1, <2>3 DEF Table, TheDrunk
      <3> QED BY <1>1, <2>2, <3>1, Unseen
    <2>4. CASE ~spoiled
      BY <1>1, <2>2, <2>4, MarkMoves
    <2> QED BY <2>3, <2>4
  <1>3. ASSUME StartGame \/ EndGame PROVE SeatStep
    <2>1. /\ row'.names = row.names /\ row'.roles = row.roles /\ row'.sub = row.sub
          /\ row'.evil = row.evil /\ row'.dead = row.dead /\ row'.promoted = row.promoted
      BY <1>3, RowParts, ColumnSet DEF StartGame, EndGame
    <2>2. Table' = Table
      <3>1. \A c : Seat(row', c) = Seat(row, c)
        BY <2>1 DEF Seat
      <3> QED BY <1>1, <2>1, <3>1 DEF Table
    <2>3. TheDrunk' = TheDrunk
      BY <1>1, <2>1 DEF TheDrunk
    <2>4. CASE StartGame
      <3>1. row.state = "setup" /\ row'.state = "in_progress"
        BY <2>4, RowParts, ColumnSet DEF StartGame
      <3>2. Seats!Start
        BY <1>1, <2>2, <2>3, <3>1 DEF Seats!Start, TheDrunk
      <3> QED BY <3>2 DEF SeatStep, Seats!Next
    <2>5. CASE EndGame
      <3>1. row.state = "in_progress" /\ row'.state = "completed"
        BY <2>5, RowParts, ColumnSet DEF EndGame
      <3> QED BY <1>1, <2>2, <2>3, <3>1, Unseen
    <2> QED BY <1>3, <2>4, <2>5
  <1> QED BY <1>2, <1>3 DEF Storyteller

LEMMA RandomizeShows ==
    ASSUME IInv, NEW p \in Req, RandomizeCommit(p) PROVE SeatStep
  <1>1. PICK d \in Deals : row' = [row EXCEPT !.roles = d.roles, !.sub = d.sub]
    BY DEF RandomizeCommit
  <1>2. row'.state = row.state
    BY <1>1, RowParts, ColumnSet
  <1>3. /\ spoiled \/ row.state # "setup" => spoiled'
        /\ spoiled \in BOOLEAN /\ spoiled' \in BOOLEAN
    BY TypeUse DEF RandomizeCommit, IInv
  <1>4. CASE spoiled'
    BY <1>2, <1>3, <1>4, Spoils
  <1>5. CASE ~spoiled'
    <2>1. row.state = "setup" /\ spoiled' = spoiled
      BY <1>3, <1>5
    <2> QED BY <1>2, <2>1, Redealt
  <1> QED BY <1>4, <1>5

\* A role that joins a running game sits down behind the others.
LEMMA RolesShow ==
    ASSUME IInv, NEW p \in Req, RolesCommit(p) PROVE SeatStep
  <1> DEFINE q == req[p]
             old == q.copy["roles"]
             roles == IF q.on THEN Append(old, q.char) ELSE Others(old, q.char)
             sub == Reconciled(roles, q.copy["sub"])
  <1>1. /\ q.at = "roles" /\ row' = [row EXCEPT !.roles = roles, !.sub = sub]
        /\ spoiled' = (spoiled \/ Outdated(p) \/ Twice(roles))
    BY DEF RolesCommit
  <1>2. /\ Guarded(q) /\ Request(q) /\ TypeOK
    BY TypeUse DEF IInv, Waiting
  <1>3. /\ q.char \in Char /\ q.on \in BOOLEAN /\ old \in Seq(Char)
        /\ ~Outdated(p) => /\ old = row.roles /\ q.copy["sub"] = row.sub
                           /\ ~q.on => row.state = "setup"
    <2>1. /\ DOMAIN q.copy = {"state", "roles", "sub"} /\ q.char \in Char
          /\ ~q.on => q.copy["state"] = "setup"
      BY <1>1, <1>2 DEF Guarded
    <2>2. ~Outdated(p) => \A x \in DOMAIN q.copy : q.copy[x] = row[x]
      BY UpToDate
    <2>3. old \in Seq(Char)
      BY <1>2, <2>1, CopyTyped
    <2>4. q.on \in BOOLEAN
      BY <1>2 DEF Request
    <2> HIDE DEF q
    <2> QED BY <2>1, <2>2, <2>3, <2>4
  <1>4. q.on => /\ roles = Append(old, q.char) /\ InPlay(roles) = InPlay(old) \cup {q.char}
                /\ Len(roles) = Len(old) + 1
    <2>1. q.on => roles = Append(old, q.char)
      OBVIOUS
    <2>2. /\ InPlay(Append(old, q.char)) = InPlay(old) \cup {q.char}
          /\ Len(Append(old, q.char)) = Len(old) + 1
      BY <1>3, OneMore
    <2> HIDE DEF roles, old
    <2> QED BY <2>1, <2>2
  <1>5. ASSUME q.on, NEW c \in InPlay(old)
        PROVE  Token(sub, c) = Token(q.copy["sub"], c)
    BY <1>3, <1>4, <1>5 DEF Reconciled, Token
  <1> HIDE DEF roles, sub, old, q
  <1>6. /\ row'.names = row.names
        /\ row'.state = row.state /\ row'.roles = roles /\ row'.sub = sub
        /\ row'.evil = row.evil /\ row'.dead = row.dead /\ row'.promoted = row.promoted
    BY <1>1, RowParts, ColumnSet
  <1>7. ASSUME ~spoiled, spoiled' = spoiled, ~Outdated(p), q.on PROVE Seats!Join
    <2>1. /\ row'.roles = Append(row.roles, q.char) /\ row.roles \in Seq(Char)
          /\ old = row.roles /\ q.copy["sub"] = row.sub
      BY <1>3, <1>4, <1>6, <1>7
    <2>2. /\ DOMAIN row.roles = 1..Len(row.roles) /\ Len(row.roles) \in Nat
          /\ DOMAIN row'.roles = 1..(Len(row.roles) + 1)
          /\ \A i \in DOMAIN row.roles : row'.roles[i] = row.roles[i]
      BY <1>3, <2>1
    <2>3. \A i \in DOMAIN row.roles : Seat(row', row.roles[i]) = Seat(row, row.roles[i])
      <3> TAKE i \in DOMAIN row.roles
      <3>1. row.roles[i] \in InPlay(old)
        BY <2>1 DEF InPlay
      <3>2. Token(row'.sub, row.roles[i]) = Token(row.sub, row.roles[i])
        BY <1>5, <1>6, <1>7, <2>1, <3>1
      <3> QED BY <1>6, <3>2 DEF Seat
    <2>4. /\ Table = [i \in 1..Len(row.roles) |-> Seat(row, row.roles[i])]
          /\ Table' = [i \in 1..(Len(row.roles) + 1) |-> Seat(row', row'.roles[i])]
      BY <1>7, <2>2, Rows, RowsNext
    <2>5. \A i \in 1..Len(row.roles) : Table'[i] = Table[i]
      BY <2>2, <2>3, <2>4
    <2> DEFINE before == Table
               after == Table'
               n == Len(row.roles)
    <2>6. /\ n \in Nat /\ DOMAIN before = 1..n /\ DOMAIN after = 1..(n+1)
          /\ \A i \in 1..n : after[i] = before[i]
          /\ before = [i \in 1..n |-> before[i]] /\ after = [i \in 1..(n+1) |-> after[i]]
      BY <2>2, <2>4, <2>5
    <2> HIDE DEF before, after, n
    <2>7. Len(before) = n /\ Len(after) = n + 1
      BY <2>6
    <2>8. SubSeq(after, 1, n) = before
      <3> DEFINE S == {after[i] : i \in 1..(n+1)}
      <3>1. after \in Seq(S)
        BY <2>6
      <3>2. SubSeq(after, 1, n) = [i \in 1..n |-> after[i]]
        <4> HIDE DEF S
        <4> QED BY <2>6, <2>7, <3>1, SubSeqProperties
      <3> QED BY <2>6, <3>2
    <2>9. TheDrunk \subseteq TheDrunk'
      BY <1>7, <2>2 DEF TheDrunk
    <2> QED BY <1>6, <1>7, <2>7, <2>8, <2>9 DEF Seats!Join, TheDrunk, before, after
  <1>8. ~spoiled' /\ ~spoiled /\ spoiled' = spoiled /\ ~Outdated(p) => SeatStep
    <2> HAVE ~spoiled' /\ ~spoiled /\ spoiled' = spoiled /\ ~Outdated(p)
    <2>1. CASE q.on
      BY <1>7, <2>1 DEF SeatStep, Seats!Next
    <2>2. CASE ~q.on
      BY <1>3, <1>6, <2>2, Redealt
    <2> QED BY <2>1, <2>2
  <1>9. Twice(roles) \in BOOLEAN
    BY DEF Twice
  <1> QED BY <1>1, <1>6, <1>8, <1>9, WriteShows

\* The Drunk moves and nobody sees it.
LEMMA ReassignShows ==
    ASSUME IInv, NEW p \in Req, ReassignCommit(p) PROVE SeatStep
  <1> DEFINE q == req[p]
             f(c) == SeatRename(q.shown, q.char, c)
             old == q.copy["roles"]
             roles == [i \in DOMAIN old |-> f(old[i])]
             evil == {f(c) : c \in q.copy["evil"]}
             dead == RenameDeaths(row.dead, q.shown, q.char)
             sub == IF q.copy["sub"] = NoSub THEN NoSub ELSE NewSub(q.shown, q.char)
             leftover == q.copy["names"][q.shown] # NoPlayer
  <1>1. /\ q.at = "rename"
        /\ spoiled' = (spoiled \/ Outdated(p) \/ q.on \/ leftover)
    BY DEF ReassignCommit
  <1>2. PICK names \in Rekeyed(q.copy["names"], q.shown, q.char) :
            row' = [row EXCEPT !.roles = roles, !.names = names, !.evil = evil,
                               !.dead = dead, !.sub = sub]
    BY DEF ReassignCommit
  <1>3. /\ row'.names = names
        /\ row'.state = row.state /\ row'.roles = roles /\ row'.sub = sub
        /\ row'.evil = evil /\ row'.dead = dead /\ row'.promoted = row.promoted
    <2> HIDE DEF q, f, old, roles, evil, dead, sub, leftover
    <2> QED BY <1>2, RowParts, ColumnSet
  <1>4. Guarded(q) /\ Request(q) /\ TypeOK /\ spoiled \in BOOLEAN /\ q.on \in BOOLEAN
    BY TypeUse DEF IInv, Waiting, Request
  <1>5. CASE spoiled'
    BY <1>3, <1>4, <1>5, Spoils
  <1>6. CASE ~spoiled'
    <2>1. ~spoiled /\ ~Outdated(p) /\ ~q.on /\ ~leftover /\ spoiled' = spoiled
      BY <1>1, <1>4, <1>6
    <2>2. /\ old = row.roles /\ q.copy["sub"] = row.sub /\ q.copy["evil"] = row.evil
          /\ q.copy["names"] = row.names
          /\ q.char \in Townsfolk /\ q.shown \in Char /\ Moves(q)
          /\ row.names \in [Char -> Player \cup {NoPlayer}] /\ row.roles \in Seq(Char)
          /\ row.promoted \in SUBSET Minion
      BY <1>1, <1>4, <2>1, UpToDate, RowParts DEF Guarded, Typed
    <2>3. /\ row.sub = q.shown /\ q.shown \notin InPlay(row.roles)
          /\ q.char \in Char /\ Drunk \in Char
          /\ q.char # Drunk /\ q.shown # NoSub
          /\ q.char # q.shown /\ row.names[q.shown] = NoPlayer
      BY <2>1, <2>2 DEF Moves, Char
    <2>4. /\ row.dead \subseteq InPlay(row.roles) /\ row.evil \subseteq InPlay(row.roles)
          /\ row.promoted \subseteq InPlay(row.roles)
      BY <2>1, RowParts
    <2>5. ASSUME NEW c \in Char, c # q.shown PROVE names[f(c)] = row.names[c]
      <3> HIDE DEF q
      <3> QED BY <1>2, <2>2, <2>3, <2>5, RenameKeepsNames
    <2>6. ASSUME NEW c \in InPlay(row.roles)
          PROVE  /\ names[f(c)] = row.names[c]
                 /\ Token(sub, f(c)) = Token(row.sub, c)
                 /\ f(c) \in dead <=> c \in row.dead
                 /\ f(c) \in evil <=> c \in row.evil
                 /\ f(c) \in row.promoted <=> c \in row.promoted
      <3>1. c \in Char /\ c # q.shown
        BY <2>2, <2>3, <2>6 DEF InPlay
      <3>2. names[f(c)] = row.names[c]
        BY <2>5, <3>1
      <3>3. Token(sub, f(c)) = Token(row.sub, c)
        BY <2>2, <2>3, <3>1, RenameKeepsTokens
      <3>4. \A d \in InPlay(row.roles) : f(d) = f(c) => d = c
        BY <2>2, <2>3, <2>6, RenameApart
      <3>5. f(c) \in dead <=> c \in row.dead
        BY <2>4, <3>4 DEF RenameDeaths
      <3>6. f(c) \in evil <=> c \in row.evil
        BY <2>2, <2>4, <3>4
      <3>7. f(c) \in row.promoted <=> c \in row.promoted
        BY <2>2, <2>3, <2>4, <3>1 DEF SeatRename, Char
      <3> QED BY <3>2, <3>3, <3>5, <3>6, <3>7
    <2>7. ASSUME NEW c \in InPlay(row.roles) PROVE Seat(row', f(c)) = Seat(row, c)
      <3> HIDE DEF f, sub, dead, evil
      <3> QED BY <1>3, <2>6, <2>7 DEF Seat
    <2>8. /\ DOMAIN row'.roles = DOMAIN row.roles
          /\ \A i \in DOMAIN row.roles : /\ row'.roles[i] = f(row.roles[i])
                                         /\ row.roles[i] \in InPlay(row.roles)
      BY <1>3, <2>2 DEF InPlay
    <2> HIDE DEF f
    <2>9. Table' = Table
      BY <2>1, <2>7, <2>8, <1>6, Rows, RowsNext
    <2>10. CASE TheDrunk' = TheDrunk
      BY <1>3, <2>1, <2>9, <2>10, Unseen
    <2>11. CASE TheDrunk' # TheDrunk
      BY <1>3, <2>1, <2>9, <2>11 DEF SeatStep, Seats!Next, Seats!MoveDrunk, TheDrunk
    <2> QED BY <2>10, <2>11
  <1> QED BY <1>5, <1>6

LEMMA ReadsShow ==
    ASSUME UNCHANGED <<row, spoiled>> PROVE SeatStep
  <1>1. Table' = Table /\ TheDrunk' = TheDrunk
    BY DEF Table, TheDrunk
  <1> QED BY <1>1, Unseen

LEMMA StepShows ==
    ASSUME IInv, [Next]_vars PROVE SeatStep
  <1>1. CASE UNCHANGED vars
    BY <1>1, ReadsShow DEF vars
  <1>2. ASSUME NEW p \in Req, Handler(p) \/ Abort(p) \/ ReassignRead(p) PROVE SeatStep
    <2>1. UNCHANGED <<row, spoiled, stray>>
      BY <1>2 DEF Handler, Abort, ReassignRead, BeginRandomize, BeginRoles, BeginReassign,
         BeginStarPass, BeginUndoStarPass, BeginDeath, BeginNames, BeginAlign, BeginToggle,
         BeginSubs, Begin
    <2> QED BY <2>1, ReadsShow
  <1>3. ASSUME NEW p \in Req, Step(p) PROVE SeatStep
    <2>1. ReassignRead(p) => SeatStep
      BY <1>2
    <2> QED BY <1>3, <2>1, ReassignShows, RandomizeShows, RolesShow, SubsShow, NamesShow,
           MarksShow DEF Step
  <1>4. CASE Storyteller
    BY <1>4, StorytellerShows
  <1> QED BY <1>1, <1>2, <1>3, <1>4 DEF Next

\* The grimoire implements the table: with any characters and any number of
\* requests that read, rename and write back whole columns, what the players see
\* changes one thing at a time, a reassignment (applySeatRename) moves the
\* Drunk and nothing else, and a role that joins a running game moves nobody.
THEOREM KeepsTheTable == Spec => SeatTableSpec
  <1>1. Init => Seats!Init
    BY DEF Init, Seats!Init, Table
  <1>2. IInv /\ [Next]_vars => [Seats!Next]_(Seats!vars)
    BY StepShows DEF SeatStep
  <1> QED BY <1>1, <1>2, InitIInv, Inductive, PTL DEF Spec, SeatTableSpec, Seats!Spec
=============================================================================
