--------------------------- MODULE AccountsProofs ---------------------------
(***************************************************************************)
(* A Discord login finds its one account, the cleanup job deletes only     *)
(* accounts nobody can use, and leaves nothing of those it deletes: for    *)
(* any number of browsers, accounts and Discord accounts.  And the rate    *)
(* limiter, which counts the requests of accounts and addresses, serves    *)
(* each as by a bucket that is never thrown away: for any limit of at      *)
(* least one request a minute, any number of keys, and any burst that      *)
(* thirty minutes refill.                                                  *)
(***************************************************************************)
EXTENDS Accounts, RateLimiter, FiniteSetTheorems, TLAPS

\* A Discord id is one account's, and who is not anonymous has one.
OneAccountEach ==
    /\ \A u, v \in User :
          users[u].exists /\ users[v].exists
          /\ users[u].discord = users[v].discord /\ users[u].discord # NoDiscord => u = v
    /\ \A u \in User : users[u].exists /\ ~users[u].anon => users[u].discord # NoDiscord

\* Tokens are of accounts that exist: an anonymous one was used when the token was
\* issued, or later, and nobody else has a token of it.
TokensInUse ==
    \A b \in Browser :
        LET t == token[b]
        IN  /\ t.left > 0 <=> t.user # 0
            /\ t.user # 0 => users[t.user].exists /\ (t.anon \/ ~users[t.user].anon)
            /\ t.user # 0 /\ users[t.user].anon =>
                  /\ users[t.user].idle + t.left <= TokenLife
                  /\ \A c \in Browser \ {b} : token[c].user # t.user

\* What a login has read is still so when it writes.
LoginsCurrent ==
    \A b \in Browser :
        LET l == login[b]
        IN  /\ l.at # "idle" => l.discord \in Discord
            /\ l.at = "upgrade" => l.user = token[b].user /\ users[l.user].anon
            /\ l.at = "profile" => users[l.user].exists /\ users[l.user].discord = l.discord

\* Whom the job has listed is stale until it is deleted; the scripts go before
\* what comes after them.
JobStale ==
    /\ \A u \in job.todo : Stale(u)
    /\ job.user # 0 =>
          /\ Stale(job.user) /\ job.user \notin job.todo
          /\ job.next > 4 => "scripts" \notin users[job.user].has

\* Phases, deaths and registrations come and go with games, and nobody has
\* anything who does not exist.
Owned ==
    \A u \in User :
        /\ users[u].has \cap {"play", "registrations"} # {} => "games" \in users[u].has
        /\ ~users[u].exists => users[u].has = {}

IInv == TypeOK /\ OneAccountEach /\ TokensInUse /\ LoginsCurrent /\ JobStale /\ Owned

-----------------------------------------------------------------------------
(* The rows the operations write.                                          *)

LEMMA TablesAre ==
    /\ DOMAIN Tables = 1..6
    /\ Tables[1] = "play" /\ Tables[2] = "registrations" /\ Tables[3] = "games"
    /\ Tables[4] = "scripts" /\ Tables[5] = "cards" /\ Tables[6] = "user"
  BY DEF Tables

LEMMA NewUserIs ==
    ASSUME NEW anon \in BOOLEAN, NEW d \in Discord \cup {NoDiscord}
    PROVE  LET r == NewUser(anon, d)
           IN  /\ r \in Row /\ r.exists /\ r.anon = anon /\ r.discord = d
               /\ r.idle = 0 /\ r.has = {}
<1>1. NoUser \in Row /\ NoUser.idle = 0 /\ NoUser.has = {}
  BY AgeAssumption DEF NoUser, Row
<1> QED
  BY <1>1 DEF NewUser, Row

LEMMA TokenIs ==
    ASSUME NEW u \in User, NEW anon \in BOOLEAN
    PROVE  LET t == IssueToken(u, anon)
           IN  /\ t \in Token /\ t.user = u /\ u # 0 /\ t.anon = anon
               /\ t.left = TokenLife /\ TokenLife > 0
  BY AgeAssumption DEF IssueToken, Token, User

\* Who does not exist yet.
LEMMA FreshUser ==
    ASSUME NEW u \in User, Created = 1..(u - 1)
    PROVE  users[u] = NoUser /\ ~users[u].exists
<1>1. u \notin Created
  BY DEF User
<1> QED
  BY <1>1 DEF Created, NoUser

\* A request that uses an account adds to what the account has.
UsedRow(row, r) ==
    /\ r \in Row /\ r.exists = row.exists /\ r.anon = row.anon /\ r.discord = row.discord
    /\ r.idle \in {0, row.idle}
    /\ \E k \in {{"scripts"}, {"cards"}, {"games", "play"}} : r.has = row.has \cup k

LEMMA IdleMoves ==
    ASSUME TypeOK, NEW b \in Browser, NEW row, Uses(b, row),
           UsedRow(users[token[b].user], row)
    PROVE  /\ token[b].left > 0 /\ users[token[b].user].exists
           /\ \E r : /\ UsedRow(users[token[b].user], r)
                     /\ users' = [users EXCEPT ![token[b].user] = r]
           /\ UNCHANGED <<token, login, job, faults>>
<1>1. PICK idle \in {0, row.idle} :
          users' = [users EXCEPT ![token[b].user] = [row EXCEPT !.idle = idle]]
  BY DEF Uses
<1> DEFINE r == [row EXCEPT !.idle = idle]
<1>2. UsedRow(users[token[b].user], r)
  BY AgeAssumption DEF UsedRow, Row
<1> QED
  BY <1>1, <1>2 DEF Uses, Valid

LEMMA UseMoves ==
    ASSUME TypeOK, NEW b \in Browser, token[b].user \in User,
           CreateScript(b) \/ CreateCard(b) \/ CreateGame(b)
    PROVE  /\ token[b].left > 0 /\ users[token[b].user].exists
           /\ \E r : /\ UsedRow(users[token[b].user], r)
                     /\ users' = [users EXCEPT ![token[b].user] = r]
           /\ UNCHANGED <<token, login, job, faults>>
<1> DEFINE row == users[token[b].user]
<1>1. row \in Row
  BY DEF TypeOK
<1>2. ASSUME NEW k \in {{"scripts"}, {"cards"}, {"games", "play"}}
      PROVE  UsedRow(row, Having(b, k))
  BY <1>1 DEF Having, UsedRow, Row, Kind
<1>3. ASSUME NEW v \in User
      PROVE  UsedRow(row, [Having(b, {"games", "play"}) EXCEPT !.uses = v])
  <2> DEFINE h == Having(b, {"games", "play"})
  <2>1. UsedRow(row, h)
    BY <1>2
  <2> HIDE DEF h
  <2>2. UsedRow(row, [h EXCEPT !.uses = v])
    BY <2>1 DEF UsedRow, Row
  <2> QED
    BY <2>2 DEF h
<1> QED
  BY <1>2, <1>3, IdleMoves DEF CreateScript, CreateCard, CreateGame

\* An account that somebody has a token of is not stale.
LEMMA InUse ==
    ASSUME TypeOK, TokensInUse, NEW b \in Browser, token[b].user # 0
    PROVE  token[b].user \in User /\ ~Stale(token[b].user)
<1> DEFINE t == token[b]
<1>1. t \in Token /\ t.user \in User
  BY DEF TypeOK, Token
<1>2. /\ t.left \in Nat \ {0} /\ users[t.user].idle \in Nat
  BY <1>1, AgeAssumption DEF TypeOK, TokensInUse, Token, Row
<1>3. ~t.anon => ~users[t.user].anon
  BY DEF TokensInUse
<1>4. users[t.user].anon => users[t.user].idle + t.left <= TokenLife
  BY DEF TokensInUse
<1> QED
  BY <1>1, <1>2, <1>4, AgeAssumption DEF Stale

-----------------------------------------------------------------------------
(* The invariant, operation by operation.                                  *)

LEMMA InitIInv == Init => IInv
<1> SUFFICES ASSUME Init PROVE IInv
  OBVIOUS
<1>1. NoUser \in Row /\ ~NoUser.exists /\ ~NoUser.anon /\ NoUser.has = {}
  BY AgeAssumption DEF NoUser, Row
<1>2. NoToken \in Token /\ NoToken.user = 0 /\ NoToken.left = 0
  BY AgeAssumption DEF NoToken, Token
<1>3. NoLogin \in Login /\ NoLogin.at = "idle"
  BY DEF NoLogin, Login
<1>4. NoJob \in Job /\ NoJob.user = 0 /\ NoJob.todo = {}
  BY TablesAre DEF NoJob, Job
<1>5. TypeOK
  BY <1>1, <1>2, <1>3, <1>4, BoundAssumption DEF Init, TypeOK
<1>6. OneAccountEach /\ Owned
  BY <1>1 DEF Init, OneAccountEach, Owned
<1>7. TokensInUse /\ LoginsCurrent /\ JobStale
  BY <1>2, <1>3, <1>4 DEF Init, TokensInUse, LoginsCurrent, JobStale
<1> QED
  BY <1>5, <1>6, <1>7 DEF IInv

\* A request that uses an account.
LEMMA UseKeeps ==
    ASSUME IInv, NEW b \in Browser, CreateScript(b) \/ CreateCard(b) \/ CreateGame(b)
    PROVE  IInv'
<1> DEFINE u == token[b].user
<1>0. token[b].left > 0
  BY DEF CreateScript, CreateCard, CreateGame, Uses, Valid
<1>1. u # 0 /\ u \in User /\ ~Stale(u)
  BY <1>0, InUse DEF IInv, TokensInUse
<1>2. PICK r : /\ UsedRow(users[u], r) /\ users' = [users EXCEPT ![u] = r]
               /\ UNCHANGED <<token, login, job, faults>>
  BY <1>1, UseMoves DEF IInv
<1>3. /\ users[u].exists /\ r \in Row /\ r.exists /\ r.anon = users[u].anon
      /\ r.discord = users[u].discord /\ r.idle \in {0, users[u].idle}
      /\ users \in [User -> Row] /\ users[u].idle \in Nat
  BY <1>1, <1>2, UseMoves, AgeAssumption DEF UsedRow, IInv, TypeOK, Row
<1>4. /\ \A v \in User \ {u} : users'[v] = users[v]
      /\ users'[u] = r
  BY <1>1, <1>2, <1>3
<1>5. TypeOK'
  BY <1>1, <1>2, <1>3, <1>4 DEF IInv, TypeOK
<1>6. OneAccountEach'
  BY <1>1, <1>3, <1>4 DEF IInv, OneAccountEach
<1>7. TokensInUse'
  <2> SUFFICES ASSUME NEW c \in Browser
               PROVE  LET t == token[c]
                      IN  /\ t.left > 0 <=> t.user # 0
                          /\ t.user # 0 => users'[t.user].exists /\ (t.anon \/ ~users'[t.user].anon)
                          /\ t.user # 0 /\ users'[t.user].anon =>
                                /\ users'[t.user].idle + t.left <= TokenLife
                                /\ \A x \in Browser \ {c} : token'[x].user # t.user
    BY <1>2 DEF TokensInUse
  <2>1. token[c].left \in Nat /\ token[c].user \in User \cup {0}
    BY AgeAssumption DEF IInv, TypeOK, Token
  <2> QED
    BY <2>1, <1>1, <1>2, <1>3, <1>4, AgeAssumption DEF IInv, TokensInUse
<1>8. LoginsCurrent'
  BY <1>1, <1>2, <1>3, <1>4 DEF IInv, TypeOK, LoginsCurrent
<1>9. JobStale'
  <2>1. \A v \in User : Stale(v) => v # u /\ Stale(v)'
    BY <1>1, <1>4 DEF Stale
  <2> QED
    BY <1>2, <1>4, <2>1 DEF IInv, JobStale, TypeOK, Job
<1>10. Owned'
  BY <1>1, <1>2, <1>3, <1>4 DEF IInv, Owned, UsedRow
<1> QED
  BY <1>5, <1>6, <1>7, <1>8, <1>9, <1>10 DEF IInv

\* A login ends with a token of an account that is not anonymous.  One whose row it
\* writes had no Discord id, and nobody else a token of it.
LEMMA LoginEnds ==
    ASSUME IInv, NEW b \in Browser, NEW u \in User, LoggedIn(b, u),
           users'[u].exists, ~users'[u].anon,
           \A v \in User \ {u} : users'[v] = users[v],
           \/ users'[u] = users[u]
           \/ /\ users[u].discord = NoDiscord
              /\ \A c \in Browser \ {b} : token[c].user # u
    PROVE  /\ token' \in [Browser -> Token] /\ login' \in [Browser -> Login]
           /\ \A c \in Browser : login'[c].at \in {"profile", "upgrade"} => login'[c].user \in User
           /\ TokensInUse' /\ LoginsCurrent'
<1>1. /\ token'[b] \in Token /\ token'[b].user = u /\ u # 0 /\ ~token'[b].anon /\ token'[b].left > 0
      /\ \A c \in Browser \ {b} : token'[c] = token[c]
      /\ token' \in [Browser -> Token]
  BY TokenIs DEF LoggedIn, IInv, TypeOK
<1>2. /\ login'[b].at = "idle" /\ \A c \in Browser \ {b} : login'[c] = login[c]
      /\ login' \in [Browser -> Login]
  BY DEF LoggedIn, NoLogin, Login, IInv, TypeOK
<1>3. TokensInUse'
  <2> SUFFICES ASSUME NEW c \in Browser, c # b
               PROVE  LET t == token[c]
                      IN  /\ t.left > 0 <=> t.user # 0
                          /\ t.user # 0 => users'[t.user].exists /\ (t.anon \/ ~users'[t.user].anon)
                          /\ t.user # 0 /\ users'[t.user].anon =>
                                /\ users'[t.user].idle + t.left <= TokenLife
                                /\ \A x \in Browser \ {c} : token'[x].user # t.user
    BY <1>1 DEF TokensInUse
  <2>1. token[c].user \in User \cup {0}
    BY DEF IInv, TypeOK, Token
  <2> QED
    BY <1>1, <2>1 DEF IInv, TokensInUse
<1>4. LoginsCurrent'
  <2> SUFFICES ASSUME NEW c \in Browser, c # b
               PROVE  LET l == login[c]
                      IN  /\ l.at # "idle" => l.discord \in Discord
                          /\ l.at = "upgrade" => l.user = token[c].user /\ users'[l.user].anon
                          /\ l.at = "profile" => users'[l.user].exists /\ users'[l.user].discord = l.discord
    BY <1>1, <1>2 DEF LoginsCurrent
  <2>1. /\ login[c].at \in {"profile", "upgrade"} => login[c].user \in User
        /\ login[c].at = "profile" => users[login[c].user].discord # NoDiscord
    BY NullAssumption DEF IInv, TypeOK, LoginsCurrent
  <2> QED
    BY <2>1 DEF IInv, LoginsCurrent
<1> QED
  BY <1>1, <1>2, <1>3, <1>4 DEF IInv, TypeOK

\* Whoever has a Discord id exists under it once and is not anonymous.
LEMMA HolderIs ==
    ASSUME IInv, NEW d \in Discord, NEW u \in Holder(d)
    PROVE  u \in User /\ users[u].exists /\ ~users[u].anon /\ users[u].discord = d
  BY NullAssumption DEF Holder, IInv, TypeOK

LEMMA KnownKeeps ==
    ASSUME IInv, NEW b \in Browser, NEW u \in User, LoggedIn(b, u),
           users[u].exists, users[u].discord \in Discord,
           UNCHANGED <<users, job, faults>>
    PROVE  IInv'
<1>1. ~users[u].anon
  BY NullAssumption DEF IInv, TypeOK
<1>2. TypeOK' /\ TokensInUse' /\ LoginsCurrent'
  BY <1>1, LoginEnds DEF IInv, TypeOK
<1>3. OneAccountEach' /\ JobStale' /\ Owned'
  BY DEF IInv, OneAccountEach, JobStale, Stale, Owned
<1> QED
  BY <1>2, <1>3 DEF IInv

LEMMA ProfileKeeps ==
    ASSUME IInv, NEW b \in Browser, LoginProfile(b)
    PROVE  IInv'
  BY KnownKeeps DEF LoginProfile, IInv, TypeOK, LoginsCurrent

LEMMA RacedKeeps ==
    ASSUME IInv, NEW b \in Browser, login[b].at # "idle", Holder(login[b].discord) # {},
           LoggedIn(b, RacedUser(b)), UNCHANGED <<users, job, faults>>
    PROVE  IInv'
<1>1. login[b].discord \in Discord /\ RacedUser(b) \in Holder(login[b].discord)
  BY DEF RacedUser, IInv, LoginsCurrent
<1> QED
  BY <1>1, HolderIs, KnownKeeps

LEMMA UpgradeKeeps ==
    ASSUME IInv, NEW b \in Browser, LoginUpgrade(b)
    PROVE  IInv'
<1> DEFINE u == login[b].user
           d == login[b].discord
           r == Upgraded(users[u], d)
<1>1. /\ u \in User /\ u = token[b].user /\ u # 0 /\ d \in Discord /\ users[u].exists
      /\ users[u] \in Row
  BY DEF LoginUpgrade, IInv, TypeOK, LoginsCurrent, User
<1>2. CASE Holder(d) # {}
  BY <1>2, RacedKeeps DEF LoginUpgrade
<1>3. CASE Holder(d) = {}
  <2>1. /\ r \in Row /\ r.exists /\ ~r.anon /\ r.discord = d /\ r.has = users[u].has
        /\ r.idle = users[u].idle
    BY <1>1 DEF Upgraded, Row
  <2> HIDE DEF r
  <2>2. /\ users' = [users EXCEPT ![u] = r] /\ LoggedIn(b, u) /\ UNCHANGED <<job, faults>>
    BY <1>3 DEF LoginUpgrade, r
  <2>3. /\ \A v \in User \ {u} : users'[v] = users[v]
        /\ users'[u] = r
    BY <1>1, <2>2 DEF IInv, TypeOK
  <2>4. ~Stale(u)
    BY <1>1, InUse DEF IInv
  <2>5. users[u].discord = NoDiscord /\ \A c \in Browser \ {b} : token[c].user # u
    BY <1>1 DEF LoginUpgrade, IInv, TypeOK, LoginsCurrent, TokensInUse
  <2>6. TokensInUse' /\ LoginsCurrent' /\ TypeOK'
    BY <1>1, <2>1, <2>2, <2>3, <2>5, LoginEnds DEF IInv, TypeOK
  <2>7. OneAccountEach'
    BY <1>1, <1>3, <2>1, <2>3, NullAssumption DEF IInv, OneAccountEach, Holder
  <2>8. JobStale'
    BY <1>1, <2>2, <2>3, <2>4 DEF IInv, JobStale, Stale, TypeOK, Job
  <2>9. Owned'
    BY <1>1, <2>1, <2>3 DEF IInv, Owned
  <2> QED
    BY <2>6, <2>7, <2>8, <2>9 DEF IInv
<1> QED
  BY <1>2, <1>3

\* A new account: nobody has a token of it, is about to write it or has listed it.
LEMMA FreshKeeps ==
    ASSUME IInv, NEW u \in User, Created = 1..(u - 1),
           NEW r \in Row, r.exists, r.idle = 0, r.has = {},
           r.anon <=> r.discord = NoDiscord, r.discord # NoDiscord => Holder(r.discord) = {},
           users' = [users EXCEPT ![u] = r], job' = job
    PROVE  /\ users' \in [User -> Row] /\ \A v \in User : users'[v].anon => users'[v].discord = NoDiscord
           /\ \A v \in User \ {u} : users'[v] = users[v]
           /\ users'[u] = r /\ users[u].discord = NoDiscord
           /\ \A b \in Browser : token[b].user # u
           /\ \A b \in Browser : login[b].at \in {"upgrade", "profile"} => login[b].user # u
           /\ OneAccountEach' /\ JobStale' /\ Owned'
<1>1. users[u] = NoUser /\ ~users[u].exists /\ users[u].discord = NoDiscord /\ u # 0
  <2>1. NoUser.discord = NoDiscord
    BY DEF NoUser
  <2> QED
    BY <2>1, FreshUser DEF User
<1>2. /\ \A v \in User \ {u} : users'[v] = users[v]
      /\ users'[u] = r
  BY DEF IInv, TypeOK
<1>3. /\ users' \in [User -> Row]
      /\ \A v \in User : users'[v].anon => users'[v].discord = NoDiscord
  BY <1>2 DEF IInv, TypeOK
<1>4. \A b \in Browser : token[b].user # u
  BY <1>1 DEF IInv, TokensInUse
<1>5. \A b \in Browser : login[b].at \in {"upgrade", "profile"} => login[b].user # u
  BY <1>1, <1>4 DEF IInv, LoginsCurrent
<1>6. OneAccountEach'
  BY <1>2 DEF IInv, OneAccountEach, Holder
<1>7. JobStale'
  BY <1>1, <1>2 DEF IInv, JobStale, Stale, TypeOK, Job
<1>8. Owned'
  BY <1>2 DEF IInv, Owned
<1> QED
  BY <1>1, <1>2, <1>3, <1>4, <1>5, <1>6, <1>7, <1>8

LEMMA AnonymousKeeps ==
    ASSUME IInv, NEW b \in Browser, CreateAnonymousSession(b)
    PROVE  IInv'
<1>1. PICK u \in User :
          /\ Created = 1..(u - 1)
          /\ users' = [users EXCEPT ![u] = NewUser(TRUE, NoDiscord)]
          /\ token' = [token EXCEPT ![b] = IssueToken(u, TRUE)]
  BY DEF CreateAnonymousSession
<1>2. login[b].at = "idle" /\ UNCHANGED <<login, job, faults>>
  BY DEF CreateAnonymousSession
<1>3. /\ users' \in [User -> Row] /\ \A v \in User : users'[v].anon => users'[v].discord = NoDiscord
      /\ \A v \in User \ {u} : users'[v] = users[v]
      /\ users'[u].exists /\ users'[u].anon /\ users'[u].idle = 0
      /\ \A c \in Browser : token[c].user # u
      /\ \A c \in Browser : login[c].at \in {"upgrade", "profile"} => login[c].user # u
      /\ OneAccountEach' /\ JobStale' /\ Owned'
  <2> DEFINE r == NewUser(TRUE, NoDiscord)
  <2>1. r \in Row /\ r.exists /\ r.anon /\ r.discord = NoDiscord /\ r.idle = 0 /\ r.has = {}
    BY NewUserIs
  <2> HIDE DEF r
  <2>2. users' = [users EXCEPT ![u] = r]
    BY <1>1 DEF r
  <2> QED
    BY <1>1, <1>2, <2>1, <2>2, FreshKeeps
<1>4. /\ token'[b] \in Token /\ token'[b].user = u /\ u # 0 /\ token'[b].anon
      /\ token'[b].left = TokenLife /\ TokenLife > 0
      /\ \A c \in Browser \ {b} : token'[c] = token[c]
      /\ token' \in [Browser -> Token]
  BY <1>1, TokenIs DEF IInv, TypeOK
<1>5. TypeOK'
  BY <1>2, <1>3, <1>4 DEF IInv, TypeOK
<1>6. TokensInUse'
  <2> SUFFICES ASSUME NEW c \in Browser
               PROVE  LET t == token'[c]
                      IN  /\ t.left > 0 <=> t.user # 0
                          /\ t.user # 0 => users'[t.user].exists /\ (t.anon \/ ~users'[t.user].anon)
                          /\ t.user # 0 /\ users'[t.user].anon =>
                                /\ users'[t.user].idle + t.left <= TokenLife
                                /\ \A x \in Browser \ {c} : token'[x].user # t.user
    BY DEF TokensInUse
  <2>1. token[c].user \in User \cup {0}
    BY DEF IInv, TypeOK, Token
  <2>2. CASE c = b
    BY <1>3, <1>4, <2>2, AgeAssumption
  <2>3. CASE c # b
    BY <1>3, <1>4, <2>1, <2>3 DEF IInv, TokensInUse
  <2> QED
    BY <2>2, <2>3
<1>7. LoginsCurrent'
  <2>1. \A c \in Browser : login[c].at \in {"upgrade", "profile"} => login[c].user \in User
    BY DEF IInv, TypeOK
  <2> QED
    BY <1>2, <1>3, <1>4, <2>1 DEF IInv, LoginsCurrent
<1> QED
  BY <1>3, <1>5, <1>6, <1>7 DEF IInv

LEMMA CreateKeeps ==
    ASSUME IInv, NEW b \in Browser, LoginCreate(b)
    PROVE  IInv'
<1> DEFINE d == login[b].discord
<1>1. d \in Discord /\ d # NoDiscord /\ UNCHANGED <<job, faults>>
  BY NullAssumption DEF LoginCreate, IInv, LoginsCurrent
<1>2. CASE Holder(d) # {}
  BY <1>2, RacedKeeps DEF LoginCreate
<1>3. CASE Holder(d) = {}
  <2>1. PICK u \in User : /\ Created = 1..(u - 1) /\ LoggedIn(b, u)
                          /\ users' = [users EXCEPT ![u] = NewUser(FALSE, d)]
    BY <1>3 DEF LoginCreate
  <2>2. /\ users' \in [User -> Row] /\ \A v \in User : users'[v].anon => users'[v].discord = NoDiscord
        /\ \A v \in User \ {u} : users'[v] = users[v]
        /\ users'[u].exists /\ ~users'[u].anon /\ users[u].discord = NoDiscord
        /\ \A c \in Browser : token[c].user # u
        /\ OneAccountEach' /\ JobStale' /\ Owned'
    <3> DEFINE r == NewUser(FALSE, d)
    <3>1. r \in Row /\ r.exists /\ ~r.anon /\ r.discord = d /\ r.idle = 0 /\ r.has = {}
      BY <1>1, NewUserIs
    <3> HIDE DEF r
    <3>2. users' = [users EXCEPT ![u] = r]
      BY <2>1 DEF r
    <3> QED
      BY <1>1, <1>3, <2>1, <3>1, <3>2, FreshKeeps
  <2>3. TypeOK' /\ TokensInUse' /\ LoginsCurrent'
    BY <1>1, <2>1, <2>2, LoginEnds DEF IInv, TypeOK
  <2> QED
    BY <2>2, <2>3 DEF IInv
<1> QED
  BY <1>2, <1>3

LEMMA BeginKeeps ==
    ASSUME IInv, NEW b \in Browser, NEW d \in Discord, BeginLogin(b, d)
    PROVE  IInv'
<1> DEFINE u == CHOOSE u \in Holder(d) : TRUE
           l == login'[b]
<1>1. Valid(b) => token[b].user \in User
  BY DEF Valid, IInv, TypeOK, Token, TokensInUse
<1>2. Holder(d) # {} => u \in User /\ users[u].exists /\ users[u].discord = d
  BY HolderIs
<1>3. /\ l \in Login /\ l.discord = d
      /\ l.at \in {"profile", "upgrade"} => l.user \in User
      /\ l.at = "upgrade" => l.user = token[b].user /\ users[l.user].anon
      /\ l.at = "profile" => users[l.user].exists /\ users[l.user].discord = d
  BY <1>1, <1>2 DEF BeginLogin, Login, IInv, TypeOK
<1>4. /\ \A c \in Browser \ {b} : login'[c] = login[c]
      /\ login' \in [Browser -> Login]
      /\ UNCHANGED <<users, token, job, faults>>
  BY <1>3 DEF BeginLogin, IInv, TypeOK
<1>5. TypeOK'
  BY <1>3, <1>4 DEF IInv, TypeOK
<1>6. LoginsCurrent'
  BY <1>3, <1>4 DEF IInv, LoginsCurrent
<1> QED
  BY <1>4, <1>5, <1>6 DEF IInv, OneAccountEach, TokensInUse, JobStale, Stale, Owned

\* Steps that only forget logins, move the job or count a fault.
LEMMA JobKeeps ==
    ASSUME IInv, UNCHANGED <<users, token>>, job' \in Job, faults' \in 0..MaxFaults, JobStale',
           \/ login' = login
           \/ login' = [c \in Browser |-> NoLogin]
           \/ \E b \in Browser : login' = [login EXCEPT ![b] = NoLogin]
    PROVE  IInv'
<1>1. NoLogin \in Login /\ NoLogin.at = "idle"
  BY DEF NoLogin, Login
<1>2. /\ login' \in [Browser -> Login]
      /\ \A c \in Browser : login'[c] = login[c] \/ login'[c].at = "idle"
  BY <1>1 DEF IInv, TypeOK
<1>3. TypeOK' /\ LoginsCurrent'
  BY <1>2 DEF IInv, TypeOK, LoginsCurrent
<1> QED
  BY <1>3 DEF IInv, OneAccountEach, TokensInUse, Owned

LEMMA JoinKeeps ==
    ASSUME IInv, NEW u \in User, Join(u)
    PROVE  IInv'
<1> DEFINE r == [users[u] EXCEPT !.has = @ \cup {"registrations"}]
<1>1. /\ users[u] \in Row /\ "games" \in users[u].has
      /\ UNCHANGED <<token, login, job>> /\ faults' \in 0..MaxFaults
  BY BoundAssumption DEF Join, IInv, TypeOK
<1>2. /\ r \in Row /\ r.exists = users[u].exists /\ r.anon = users[u].anon
      /\ r.discord = users[u].discord /\ r.idle = users[u].idle
      /\ r.has = users[u].has \cup {"registrations"}
  BY <1>1 DEF Row, Kind
<1> HIDE DEF r
<1>3. users' = [users EXCEPT ![u] = r]
  BY DEF Join, r
<1>4. /\ users' \in [User -> Row]
      /\ \A v \in User : /\ users'[v].exists = users[v].exists /\ users'[v].anon = users[v].anon
                         /\ users'[v].discord = users[v].discord /\ users'[v].idle = users[v].idle
                         /\ users'[v].has \in {users[v].has, users[v].has \cup {"registrations"}}
                         /\ users'[v].has # users[v].has => "games" \in users[v].has
  BY <1>1, <1>2, <1>3 DEF IInv, TypeOK
<1>5. TypeOK'
  BY <1>1, <1>4 DEF IInv, TypeOK
<1>6. OneAccountEach' /\ Owned'
  BY <1>4 DEF IInv, OneAccountEach, Owned
<1>7. TokensInUse'
  <2>1. \A b \in Browser : token[b].user \in User \cup {0}
    BY DEF IInv, TypeOK, Token
  <2> QED
    BY <1>1, <1>4, <2>1 DEF IInv, TokensInUse
<1>8. LoginsCurrent'
  BY <1>1, <1>4 DEF IInv, TypeOK, LoginsCurrent
<1>9. JobStale'
  <2>1. \A v \in User : Stale(v) => Stale(v)' /\ ("scripts" \in users'[v].has => "scripts" \in users[v].has)
    BY <1>4 DEF Stale
  <2>2. job.todo \subseteq User /\ job.user \in User \cup {0}
    BY DEF IInv, TypeOK, Job
  <2> QED
    BY <1>1, <2>1, <2>2 DEF IInv, JobStale
<1> QED
  BY <1>5, <1>6, <1>7, <1>8, <1>9 DEF IInv

\* Time passes alike for an account and for its tokens.
LEMMA TickKeeps ==
    ASSUME IInv, Tick
    PROVE  IInv'
<1> USE AgeAssumption
<1>1. ASSUME NEW u \in User
      PROVE  LET r == users[u] q == users'[u]
             IN  /\ q \in Row /\ q.exists = r.exists /\ q.anon = r.anon /\ q.discord = r.discord
                 /\ q.has = r.has /\ q.idle \in {r.idle, r.idle + 1} /\ r.idle \in Nat
                 /\ r.idle > MaxAge => q.idle = r.idle
  <2>1. users[u] \in Row
    BY DEF IInv, TypeOK
  <2>2. CASE users[u].exists /\ users[u].idle <= MaxAge
    <3> DEFINE i == users[u].idle + 1
    <3>1. users'[u] = [users[u] EXCEPT !.idle = i]
      BY <2>2 DEF Tick
    <3>2. i \in 0..(MaxAge + 1) /\ i = users[u].idle + 1 /\ users[u].idle \in Nat
      BY <2>1, <2>2 DEF Row
    <3> HIDE DEF i
    <3>3. /\ users'[u] \in Row /\ users'[u].exists = users[u].exists
          /\ users'[u].anon = users[u].anon /\ users'[u].discord = users[u].discord
          /\ users'[u].has = users[u].has /\ users'[u].idle = i
      BY <2>1, <3>1, <3>2 DEF Row
    <3> QED
      BY <2>2, <3>2, <3>3
  <2>3. CASE ~(users[u].exists /\ users[u].idle <= MaxAge)
    <3>1. users'[u] = users[u]
      BY <2>3 DEF Tick
    <3> QED
      BY <2>1, <3>1 DEF Row
  <2> QED
    BY <2>2, <2>3
<1>2. NoToken \in Token /\ NoToken.user = 0 /\ NoToken.left = 0
  BY DEF NoToken, Token
<1>3. ASSUME NEW b \in Browser
      PROVE  LET t == token[b] q == token'[b]
             IN  /\ q \in Token
                 /\ \/ q.user = 0 /\ q.left = 0
                    \/ /\ q.user = t.user /\ q.anon = t.anon /\ t.left \in Nat
                       /\ t.left > 1 /\ q.left = t.left - 1
  <2>1. token[b] \in Token /\ token[b].left \in Nat
    BY DEF IInv, TypeOK, Token
  <2>2. CASE token[b].left > 1
    <3>1. token'[b] = [token[b] EXCEPT !.left = @ - 1]
      BY <2>2 DEF Tick
    <3> QED
      BY <2>1, <2>2, <3>1 DEF Token
  <2>3. CASE ~(token[b].left > 1)
    <3>1. token'[b] = NoToken
      BY <2>3 DEF Tick
    <3> QED
      BY <1>2, <3>1
  <2> QED
    BY <2>2, <2>3
<1>4. UNCHANGED <<login, job, faults>> /\ \A b \in Browser : login[b].at = "idle"
  BY DEF Tick
<1>5. TypeOK'
  <2>1. users' \in [User -> Row]
    BY <1>1 DEF Tick
  <2>2. token' \in [Browser -> Token]
    BY <1>3 DEF Tick
  <2> QED
    BY <1>1, <1>4, <2>1, <2>2 DEF IInv, TypeOK
<1>6. OneAccountEach' /\ Owned'
  BY <1>1 DEF IInv, OneAccountEach, Owned
<1>7. TokensInUse'
  <2> SUFFICES ASSUME NEW b \in Browser
               PROVE  LET t == token'[b]
                      IN  /\ t.left > 0 <=> t.user # 0
                          /\ t.user # 0 => users'[t.user].exists /\ (t.anon \/ ~users'[t.user].anon)
                          /\ t.user # 0 /\ users'[t.user].anon =>
                                /\ users'[t.user].idle + t.left <= TokenLife
                                /\ \A x \in Browser \ {b} : token'[x].user # t.user
    BY DEF TokensInUse
  <2>1. CASE token'[b].user = 0 /\ token'[b].left = 0
    BY <2>1
  <2>2. CASE ~(token'[b].user = 0 /\ token'[b].left = 0)
    <3>1. /\ token'[b].user = token[b].user /\ token'[b].anon = token[b].anon
          /\ token[b].left \in Nat /\ token[b].left > 1 /\ token'[b].left = token[b].left - 1
      BY <1>3, <2>2
    <3>2. token[b].user # 0 /\ token[b].user \in User
      BY <3>1 DEF IInv, TokensInUse, TypeOK, Token
    <3>3. \A x \in Browser : token'[x].user \in {0, token[x].user}
      BY <1>3
    <3> QED
      BY <1>1, <3>1, <3>2, <3>3 DEF IInv, TokensInUse
  <2> QED
    BY <2>1, <2>2
<1>8. LoginsCurrent'
  BY <1>4 DEF LoginsCurrent
<1>9. JobStale'
  <2>1. \A v \in User : Stale(v) => Stale(v)'
    BY <1>1 DEF Stale
  <2>2. job.todo \subseteq User /\ job.user \in User \cup {0}
    BY DEF IInv, TypeOK, Job
  <2> QED
    BY <1>1, <1>4, <2>1, <2>2 DEF IInv, JobStale
<1> QED
  BY <1>5, <1>6, <1>7, <1>8, <1>9 DEF IInv

\* The job turns from an account to the next.
LEMMA JobTurns ==
    ASSUME job \in Job
    PROVE  LET j == [job EXCEPT !.user = 0, !.next = 1]
           IN  j \in Job /\ j.todo = job.todo /\ j.user = 0
<1>1. 1 \in DOMAIN Tables
  BY TablesAre
<1> QED
  BY <1>1 DEF Job

\* One statement of the job: the account is stale, so no browser and no login
\* knows it, and when its row goes nothing else is left.
LEMMA DeleteKeeps ==
    ASSUME IInv, CleanupDelete
    PROVE  IInv'
<1> DEFINE u == job.user
           t == Tables[job.next]
           r == Without(users[u], t)
<1>1. /\ u # 0 /\ u \in User /\ Stale(u) /\ u \notin job.todo /\ users[u] \in Row
      /\ job \in Job /\ job.next \in 1..6
  BY TablesAre DEF CleanupDelete, IInv, TypeOK, Job, JobStale
<1>2. /\ ~Kept(u, t) /\ users' = [users EXCEPT ![u] = r]
      /\ job' = IF t = "user" THEN [job EXCEPT !.user = 0, !.next = 1] ELSE [job EXCEPT !.next = @ + 1]
      /\ UNCHANGED <<token, login, faults>>
  BY DEF CleanupDelete, Deletes
<1>3. /\ t \in Kind \cup {"user"}
      /\ t = "user" <=> job.next = 6
      /\ t = "scripts" <=> job.next = 4
  BY <1>1, TablesAre DEF Kind
<1>4. /\ r \in Row /\ r.anon = users[u].anon /\ r.discord = users[u].discord
      /\ r.idle = users[u].idle
      /\ t = "user" => ~r.exists /\ r.has = users[u].has
      /\ t # "user" => r.exists /\ r.has = users[u].has \ {t}
  <2>1. CASE t = "user"
    BY <1>1, <2>1 DEF Without, Row
  <2>2. CASE t # "user"
    BY <1>1, <2>2 DEF Without, Row, Stale
  <2> QED
    BY <2>1, <2>2
<1>5. t = "user" => users[u].has = {}
  <2> SUFFICES ASSUME t = "user" PROVE users[u].has = {}
    OBVIOUS
  <2>1. users[u].has \cap {"games", "cards"} = {}
    BY <1>2 DEF Kept
  <2>2. "scripts" \notin users[u].has
    BY <1>1, <1>3 DEF IInv, JobStale
  <2>3. users[u].has \cap {"play", "registrations"} = {}
    BY <1>1, <2>1 DEF IInv, Owned
  <2> QED
    BY <1>1, <2>1, <2>2, <2>3 DEF Row, Kind
<1>6. t = "games" => users[u].has \cap {"play", "registrations"} = {}
  BY <1>2 DEF Kept
<1> HIDE DEF r, t
<1>7. /\ users' \in [User -> Row] /\ \A v \in User \ {u} : users'[v] = users[v]
      /\ users'[u] = r
  BY <1>1, <1>2, <1>4 DEF IInv, TypeOK
<1>8. /\ job' \in Job /\ job'.todo = job.todo
      /\ job'.user # 0 => job'.user = u /\ t # "user" /\ job'.next = job.next + 1
  <2>1. CASE t = "user"
    BY <1>1, <1>2, <2>1, JobTurns
  <2>2. CASE t # "user"
    BY <1>1, <1>2, <1>3, <2>2, TablesAre DEF Job
  <2> QED
    BY <2>1, <2>2
<1>9. \A b \in Browser : token[b].user # u
  BY <1>1, InUse DEF IInv
<1>10. \A b \in Browser : login[b].at \in {"profile", "upgrade"} => login[b].user # u
  <2> SUFFICES ASSUME NEW b \in Browser, login[b].at = "profile" PROVE login[b].user # u
    BY <1>9 DEF IInv, LoginsCurrent
  <2>1. login[b].user \in User /\ users[login[b].user].discord # NoDiscord
    BY NullAssumption DEF IInv, LoginsCurrent, TypeOK
  <2> QED
    BY <1>1, <2>1 DEF IInv, TypeOK, Stale
<1>11. TypeOK'
  BY <1>1, <1>2, <1>4, <1>7, <1>8 DEF IInv, TypeOK
<1>12. OneAccountEach'
  <2>1. users'[u].anon /\ users'[u].discord = NoDiscord
    BY <1>1, <1>4, <1>7 DEF IInv, TypeOK, Stale
  <2> QED
    BY <1>7, <2>1 DEF IInv, OneAccountEach
<1>13. TokensInUse'
  <2>1. \A b \in Browser : token[b].user \in User \cup {0}
    BY DEF IInv, TypeOK, Token
  <2> QED
    BY <1>2, <1>7, <1>9, <2>1 DEF IInv, TokensInUse
<1>14. LoginsCurrent'
  BY <1>2, <1>7, <1>10 DEF IInv, TypeOK, LoginsCurrent
<1>15. JobStale'
  <2>1. \A v \in job.todo : v \in User /\ v # u /\ Stale(v)'
    BY <1>1, <1>7 DEF IInv, JobStale, Stale, Job
  <2>2. job'.user # 0 => Stale(u)' /\ (job'.next > 4 => "scripts" \notin users'[u].has)
    <3> SUFFICES ASSUME job'.user # 0
                 PROVE  Stale(u)' /\ (job'.next > 4 => "scripts" \notin users'[u].has)
      OBVIOUS
    <3>1. r.exists /\ r.has = users[u].has \ {t} /\ job'.next = job.next + 1
      BY <1>4, <1>8
    <3>2. Stale(u)'
      BY <1>1, <1>4, <1>7, <1>8, <3>1 DEF Stale
    <3>3. job.next > 4 => "scripts" \notin users[u].has
      BY <1>1 DEF IInv, JobStale
    <3> QED
      BY <1>1, <1>3, <1>7, <3>1, <3>2, <3>3
  <2> QED
    BY <1>1, <1>8, <2>1, <2>2 DEF JobStale
<1>16. Owned'
  BY <1>1, <1>4, <1>5, <1>6, <1>7 DEF IInv, Owned
<1> QED
  BY <1>11, <1>12, <1>13, <1>14, <1>15, <1>16 DEF IInv

LEMMA CleanupKeeps ==
    ASSUME IInv, CleanupList \/ CleanupNext \/ CleanupRefused \/ CleanupFails \/ Restart
    PROVE  IInv'
<1>1. job \in Job /\ job.todo \subseteq User /\ job.user \in User \cup {0}
  BY DEF IInv, TypeOK, Job
<1>2. 1 \in DOMAIN Tables
  BY TablesAre
<1>3. NoJob \in Job /\ NoJob.user = 0 /\ NoJob.todo = {}
  BY <1>2 DEF NoJob, Job
<1>4. CASE CleanupList
  <2>1. /\ job' \in Job /\ job'.todo = {u \in User : Stale(u)} /\ job'.user = 0
        /\ UNCHANGED <<users, token, login, faults>>
    BY <1>3, <1>4 DEF CleanupList, Job
  <2>2. JobStale'
    BY <2>1 DEF JobStale, Stale
  <2> QED
    BY <2>1, <2>2, JobKeeps DEF IInv, TypeOK
<1>5. CASE CleanupNext
  <2>1. PICK u \in job.todo : job' = [todo |-> job.todo \ {u}, user |-> u, next |-> 1]
    BY <1>5 DEF CleanupNext
  <2>2. job' \in Job /\ UNCHANGED <<users, token, login, faults>>
    BY <1>1, <1>2, <1>5, <2>1 DEF CleanupNext, Job
  <2>3. JobStale'
    BY <2>1, <2>2 DEF IInv, JobStale, Stale
  <2> QED
    BY <2>2, <2>3, JobKeeps DEF IInv, TypeOK
<1>6. CASE CleanupRefused \/ CleanupFails
  <2>1. /\ job' \in Job /\ job'.todo = job.todo /\ job'.user = 0
        /\ UNCHANGED <<users, token, login>> /\ faults' \in 0..MaxFaults
    <3>1. job' = [job EXCEPT !.user = 0, !.next = 1] /\ UNCHANGED <<users, token, login>>
      BY <1>6 DEF CleanupRefused, CleanupFails
    <3>2. faults' \in 0..MaxFaults
      BY <1>6, BoundAssumption DEF CleanupRefused, CleanupFails, IInv, TypeOK
    <3> QED
      BY <1>1, <3>1, <3>2, JobTurns
  <2>2. JobStale'
    BY <2>1 DEF IInv, JobStale, Stale
  <2> QED
    BY <2>1, <2>2, JobKeeps
<1>7. CASE Restart
  <2>1. /\ job' \in Job /\ job'.todo = {} /\ job'.user = 0 /\ UNCHANGED <<users, token>>
        /\ login' = [b \in Browser |-> NoLogin] /\ faults' \in 0..MaxFaults
    BY <1>3, <1>7, BoundAssumption DEF Restart, IInv, TypeOK
  <2>2. JobStale'
    BY <2>1 DEF JobStale
  <2> QED
    BY <2>1, <2>2, JobKeeps
<1> QED
  BY <1>4, <1>5, <1>6, <1>7

LEMMA Inductive == IInv /\ [Next]_vars => IInv'
<1> SUFFICES ASSUME IInv, [Next]_vars PROVE IInv'
  OBVIOUS
<1>1. ASSUME NEW b \in Browser, LoginFails(b) PROVE IInv'
  <2>1. JobStale' /\ job' \in Job /\ faults' \in 0..MaxFaults
    BY <1>1 DEF LoginFails, IInv, TypeOK, JobStale, Stale
  <2> QED
    BY <1>1, <2>1, JobKeeps DEF LoginFails
<1>2. CASE UNCHANGED vars
  <2>1. JobStale' /\ job' \in Job /\ faults' \in 0..MaxFaults
    BY <1>2 DEF vars, IInv, TypeOK, JobStale, Stale
  <2> QED
    BY <1>2, <2>1, JobKeeps DEF vars
<1> QED
  BY <1>1, <1>2, UseKeeps, ProfileKeeps, UpgradeKeeps, AnonymousKeeps, CreateKeeps, BeginKeeps,
     JoinKeeps, TickKeeps, DeleteKeeps, CleanupKeeps DEF Next, Request, Cleanup

LEMMA Always == Spec => []IInv
  BY InitIInv, Inductive, PTL DEF Spec

\* Accounts, tokens, logins and the job are well typed.
THEOREM TypeCorrect == Spec => []TypeOK
<1>1. IInv => TypeOK
  BY DEF IInv
<1> QED
  BY Always, <1>1, PTL

\* Whoever has logged in with Discord has a token of the one account with their id.
THEOREM LoginIsFound == Spec => []LoginFindsTheAccount
<1>1. IInv => LoginFindsTheAccount
  <2> SUFFICES ASSUME IInv, NEW b \in Browser, Valid(b), ~token[b].anon
               PROVE  \E d \in Discord : Holder(d) = {token[b].user}
    BY DEF LoginFindsTheAccount
  <2> DEFINE u == token[b].user
  <2>1. u \in User /\ users[u].exists /\ ~users[u].anon
    BY DEF Valid, IInv, TypeOK, Token, TokensInUse
  <2>2. users[u].discord \in Discord
    BY <2>1 DEF IInv, TypeOK, Row, OneAccountEach
  <2>3. Holder(users[u].discord) = {u}
    BY <2>1, <2>2, NullAssumption DEF Holder, IInv, OneAccountEach
  <2> QED
    BY <2>2, <2>3
<1> QED
  BY Always, <1>1, PTL

\* Nothing of an account is left when its row is gone.
THEOREM NothingStays == Spec => []NothingIsLeft
<1>1. IInv => NothingIsLeft
  BY DEF IInv, Owned, NothingIsLeft
<1> QED
  BY Always, <1>1, PTL

\* The job deletes from anonymous accounts of which no browser has a token.
THEOREM DataStays == Spec => NobodyLosesData
<1>1. IInv /\ [Next]_vars =>
        [CleanupDelete => users[job.user].anon /\ \A b \in Browser : token[b].user # job.user]_vars
  BY InUse DEF IInv, JobStale, Stale, CleanupDelete
<1> QED
  BY InitIInv, Inductive, <1>1, PTL DEF Spec, NobodyLosesData

\* The steps a pass of the job has left, at most: to take a user off the list, and
\* the tables of each, and to be over.
PassLeft ==
    IF job = NoJob THEN 0
    ELSE 1 + 7 * Cardinality(job.todo) + (IF job.user = 0 THEN 0 ELSE 7 - job.next)

\* Whatever the other requests do, a statement of the pass brings it nearer to its
\* end: a user whose deletion was refused or failed is not tried again.
PassStep == job # NoJob => job' = job \/ (PassLeft' \in Nat /\ PassLeft' < PassLeft)

LEMMA TodoCounts ==
    ASSUME NEW T \in SUBSET User
    PROVE  /\ Cardinality(T) \in Nat
           /\ \A u \in T : Cardinality(T \ {u}) = Cardinality(T) - 1
<1>1. IsFiniteSet(User)
  BY FS_Interval, BoundAssumption DEF User
<1> QED
  BY <1>1, FS_Subset, FS_CardinalityType, FS_RemoveElement

LEMMA StepShortensPass ==
    ASSUME TypeOK, [Next]_vars, job # NoJob, job' # job
    PROVE  PassLeft' \in Nat /\ PassLeft' < PassLeft
<1> DEFINE c == Cardinality(job.todo)
           m == PassLeft'
<1>1. /\ job \in Job /\ job.todo \in SUBSET User /\ job.user \in User \cup {0}
      /\ job.next \in 1..6 /\ c \in Nat /\ 0 \notin User
  BY TodoCounts, TablesAre, BoundAssumption DEF TypeOK, Job, User
<1>2. PassLeft = 1 + 7 * c + (IF job.user = 0 THEN 0 ELSE 7 - job.next)
  BY DEF PassLeft
<1>3. ASSUME NEW n \in 1..6, NEW u \in User \cup {0}, NEW T \in SUBSET User,
             job' = [todo |-> T, user |-> u, next |-> n]
      PROVE  m = 0 \/ m = 1 + 7 * Cardinality(T) + (IF u = 0 THEN 0 ELSE 7 - n)
  BY <1>3 DEF PassLeft
<1> HIDE DEF c, m
<1>4. CASE CleanupNext
  <2>1. PICK u \in job.todo :
          job.user = 0 /\ job' = [todo |-> job.todo \ {u}, user |-> u, next |-> 1]
    BY <1>4 DEF CleanupNext
  <2>2. Cardinality(job.todo \ {u}) = c - 1 /\ u \in User /\ u # 0 /\ c - 1 \in Nat
    BY <1>1, <2>1, TodoCounts DEF c
  <2>3. m = 0 \/ m = 1 + 7 * (c - 1) + (7 - 1)
    BY <1>1, <1>3, <2>1, <2>2
  <2>4. m \in Nat /\ m < PassLeft
    BY <1>1, <1>2, <2>1, <2>2, <2>3
  <2> QED
    BY <2>4 DEF m
<1>5. ASSUME job.user # 0, job' = [job EXCEPT !.user = 0, !.next = 1]
      PROVE  PassLeft' \in Nat /\ PassLeft' < PassLeft
  <2>1. job' = [todo |-> job.todo, user |-> 0, next |-> 1]
    BY <1>1, <1>5 DEF Job
  <2>2. m = 0 \/ m = 1 + 7 * c + 0
    BY <1>1, <1>3, <2>1 DEF c
  <2>3. m \in Nat /\ m < PassLeft
    BY <1>1, <1>2, <1>5, <2>2
  <2> QED
    BY <2>3 DEF m
<1>6. CASE CleanupDelete
  <2>1. CASE Tables[job.next] = "user"
    BY <1>5, <1>6, <2>1 DEF CleanupDelete
  <2>2. CASE Tables[job.next] # "user"
    <3>1. job.user # 0 /\ job' = [job EXCEPT !.next = @ + 1]
      BY <1>6, <2>2 DEF CleanupDelete
    <3>2. job' = [todo |-> job.todo, user |-> job.user, next |-> job.next + 1]
      BY <1>1, <3>1 DEF Job
    <3>3. job.next + 1 \in 1..6
      BY <1>1, <2>2, TablesAre
    <3>4. m = 0 \/ m = 1 + 7 * c + (7 - (job.next + 1))
      BY <1>1, <1>3, <3>1, <3>2, <3>3 DEF c
    <3>5. m \in Nat /\ m < PassLeft
      BY <1>1, <1>2, <3>1, <3>4
    <3> QED
      BY <3>5 DEF m
  <2> QED
    BY <2>1, <2>2
<1>7. CASE Restart
  <2>1. m = 0
    BY <1>7 DEF Restart, PassLeft, m
  <2>2. PassLeft \in Nat /\ PassLeft > 0
    BY <1>1, <1>2
  <2> QED
    BY <2>1, <2>2 DEF m
<1>8. \/ CleanupNext \/ CleanupDelete \/ CleanupRefused \/ CleanupFails \/ Restart
  <2>1. ~CleanupList
    BY DEF CleanupList
  <2>2. ASSUME NEW b \in Browser, Request(b) PROVE FALSE
    BY <2>2 DEF Request, CreateAnonymousSession, BeginLogin, LoginProfile, LoginUpgrade,
       LoginCreate, LoginFails, CreateScript, CreateCard, CreateGame, Uses
  <2>3. ~Tick /\ \A u \in User : ~Join(u)
    BY DEF Tick, Join
  <2> QED
    BY <2>1, <2>2, <2>3 DEF Next, Cleanup, vars
<1> QED
  BY <1>4, <1>5, <1>6, <1>7, <1>8 DEF CleanupRefused, CleanupFails

\* A pass of the cleanup job ends, whatever is refused or fails in it, and whatever
\* logins, uses and joins run beside it.
THEOREM PassesEnd == Spec => [][PassStep]_vars
<1>1. TypeOK /\ [Next]_vars => [PassStep]_vars
  BY StepShortensPass DEF PassStep
<1> QED
  BY <1>1, TypeCorrect, PTL DEF Spec

-----------------------------------------------------------------------------
(***************************************************************************)
(* The rate limiter.                                                       *)
(***************************************************************************)
\* The burst, and the time in which it is refilled.
LEMMA BurstLemma == Burst \in Nat \ {0} /\ Lifetime \in Nat /\ Burst <= Lifetime
<1>1. PerMin \in Nat \ {0} /\ Divisor \in Nat \ {0} /\ Floor \in 1..(30 * PerMin)
  BY RateAssumption
<1>2. PerMin \div Divisor \in Nat /\ PerMin \div Divisor <= PerMin
  BY <1>1
<1>3. Lifetime \in Nat /\ PerMin <= Lifetime
  BY <1>1 DEF Lifetime
<1>4. QED
  BY <1>1, <1>2, <1>3 DEF Burst, Lifetime

LimiterInv == LimiterTypeOK /\ RefilledWhileUnseen

LEMMA InitLimiterInv == LimiterInit => LimiterInv
<1> SUFFICES ASSUME LimiterInit PROVE LimiterInv
  OBVIOUS
<1> USE BurstLemma DEF LimiterInit, Missing
<1>1. LimiterTypeOK
  BY DEF LimiterTypeOK
<1>2. RefilledWhileUnseen
  <2>1. \A k \in Key : limiters[k] = Missing
    OBVIOUS
  <2>2. Missing.tokens = Burst /\ Missing.seen = 0
    OBVIOUS
  <2>3. Burst >= Min(0, Burst)
    BY DEF Min
  <2>4. QED
    BY <2>1, <2>2, <2>3 DEF RefilledWhileUnseen
<1>3. QED
  BY <1>1, <1>2 DEF LimiterInv

\* Every step keeps the invariant.
LEMMA StepLimiterInv == LimiterInv /\ [LimiterNext]_limiterVars => LimiterInv'
<1> SUFFICES ASSUME LimiterInv, [LimiterNext]_limiterVars PROVE LimiterInv'
  OBVIOUS
<1> USE BurstLemma
<1> DEFINE Entry == [there : BOOLEAN, tokens : 0..Burst, seen : 0..(Lifetime + 1)]
<1> DEFINE Good(e) == e \in Entry /\ e.tokens >= Min(e.seen, Burst) /\ (~e.there => e = Missing)
<1>1. limiters \in [Key -> Entry] /\ \A k \in Key : Good(limiters[k])
  BY DEF LimiterInv, LimiterTypeOK, RefilledWhileUnseen
<1>2. ASSUME limiters' \in [Key -> Entry], \A k \in Key : Good(limiters'[k]),
             answer' \in {"allowed", "refused", "none"}
      PROVE LimiterInv'
  BY <1>2 DEF LimiterInv, LimiterTypeOK, RefilledWhileUnseen, Missing, Burst, Lifetime
<1>3. answer \in {"allowed", "refused", "none"}
  BY DEF LimiterInv, LimiterTypeOK
<1>4. ASSUME NEW k \in Key
      PROVE Found(k) \in Entry /\ Found(k).there /\ Found(k).seen = 0
  BY <1>1 DEF Found, New
<1>5. ASSUME NEW k \in Key, Allow(k) PROVE LimiterInv'
  <2> DEFINE e == [Found(k) EXCEPT !.tokens = @ - 1]
  <2>1. Good(e)
    BY <1>4, <1>5 DEF Allow, Min
  <2>2. limiters' = [limiters EXCEPT ![k] = e] /\ answer' = "allowed"
    BY <1>5 DEF Allow
  <2>3. QED
    BY <1>1, <1>2, <2>1, <2>2
<1>6. ASSUME NEW k \in Key, Refuse(k) PROVE LimiterInv'
  <2>1. Good(Found(k))
    BY <1>4 DEF Min
  <2>2. limiters' = [limiters EXCEPT ![k] = Found(k)] /\ answer' = "refused"
    BY <1>6 DEF Refuse
  <2>3. QED
    BY <1>1, <1>2, <2>1, <2>2
<1>7. CASE LimiterTick
  <2>1. ASSUME NEW e \in Entry, Good(e) PROVE Good(Older(e))
    <3>1. CASE ~e.there
      BY <2>1, <3>1 DEF Older
    <3>2. CASE e.there
      <4> DEFINE t == IF e.tokens < Burst THEN e.tokens + 1 ELSE Burst
      <4> DEFINE n == IF e.seen <= Lifetime THEN e.seen + 1 ELSE e.seen
      <4>0. t \in 0..Burst /\ n \in 0..(Lifetime + 1)
        OBVIOUS
      <4>1. Older(e) \in Entry /\ Older(e).there
        <5>1. Older(e) = [there |-> TRUE, tokens |-> t, seen |-> n]
          BY <3>2 DEF Older
        <5>2. QED
          BY <4>0, <5>1
      <4>2. Older(e).tokens >= Min(Older(e).seen, Burst)
        BY <2>1, <3>2 DEF Older, Min
      <4>3. QED
        BY <4>1, <4>2
    <3>3. QED
      BY <3>1, <3>2
  <2>2. limiters' = [k \in Key |-> Older(limiters[k])] /\ answer' = "none"
    BY <1>7 DEF LimiterTick
  <2>3. QED
    BY <1>1, <1>2, <2>1, <2>2
<1>8. CASE Evict
  <2>1. Good(Missing)
    BY DEF Missing, Min
  <2>2. /\ limiters' = [k \in Key |-> IF Expired(limiters[k]) THEN Missing ELSE limiters[k]]
        /\ answer' = answer
    BY <1>8 DEF Evict
  <2>3. QED
    BY <1>1, <1>2, <1>3, <2>1, <2>2
<1>9. CASE UNCHANGED limiterVars
  BY <1>9 DEF limiterVars, LimiterInv, LimiterTypeOK, RefilledWhileUnseen
<1>10. QED
  BY <1>5, <1>6, <1>7, <1>8, <1>9 DEF LimiterNext

\* The map of buckets is well typed, for any limit and any keys.
THEOREM LimiterTypeCorrect == LimiterSpec => []LimiterTypeOK
<1>1. LimiterInv => LimiterTypeOK
  BY DEF LimiterInv
<1>2. QED
  BY InitLimiterInv, StepLimiterInv, <1>1, PTL DEF LimiterSpec

\* A bucket has gained a token for every tick in which nobody asked for it, and
\* only full buckets are missing.
THEOREM RefillCounts == LimiterSpec => []RefilledWhileUnseen
<1>1. LimiterInv => RefilledWhileUnseen
  BY DEF LimiterInv
<1>2. QED
  BY InitLimiterInv, StepLimiterInv, <1>1, PTL DEF LimiterSpec

\* Eviction shows to no caller: the limiter implements the buckets that are
\* never thrown away.
THEOREM LimiterImplements == LimiterSpec => BucketSpec
<1> DEFINE left == [k \in Key |-> limiters[k].tokens]
<1>1. LimiterInit => Buckets!Init
  BY DEF LimiterInit, Missing, Buckets!Init
<1>2. LimiterInv /\ [LimiterNext]_limiterVars => [Buckets!Next]_(Buckets!vars)
  <2> SUFFICES ASSUME LimiterInv, [LimiterNext]_limiterVars
               PROVE Buckets!Next \/ (left' = left /\ answer' = answer)
    BY DEF Buckets!vars
  <2> USE BurstLemma
  <2>0. /\ limiters \in [Key -> [there : BOOLEAN, tokens : 0..Burst, seen : 0..(Lifetime + 1)]]
        /\ \A k \in Key : limiters[k].tokens >= Min(limiters[k].seen, Burst)
        /\ \A k \in Key : ~limiters[k].there => limiters[k] = Missing
    BY DEF LimiterInv, LimiterTypeOK, RefilledWhileUnseen
  <2>1. \A k \in Key : Found(k).tokens = limiters[k].tokens
    BY <2>0 DEF Found, New, Missing
  <2>2. ASSUME NEW k \in Key, Allow(k) PROVE Buckets!Allow(k)
    <3>1. limiters' = [limiters EXCEPT ![k] = [Found(k) EXCEPT !.tokens = @ - 1]]
      BY <2>2 DEF Allow
    <3>2. [Found(k) EXCEPT !.tokens = @ - 1].tokens = limiters[k].tokens - 1
      BY <2>0, <2>1 DEF Found, New
    <3>3. left' = [left EXCEPT ![k] = @ - 1]
      BY <2>0, <3>1, <3>2
    <3>4. QED
      BY <2>1, <2>2, <3>3 DEF Allow, Buckets!Allow
  <2>3. ASSUME NEW k \in Key, Refuse(k) PROVE Buckets!Refuse(k)
    <3>1. limiters' = [limiters EXCEPT ![k] = Found(k)]
      BY <2>3 DEF Refuse
    <3>2. left' = left
      BY <2>0, <2>1, <3>1
    <3>3. QED
      BY <2>1, <2>3, <3>2 DEF Refuse, Buckets!Refuse
  <2>4. CASE LimiterTick
    <3>1. ASSUME NEW k \in Key
          PROVE Older(limiters[k]).tokens
                  = IF limiters[k].tokens < Burst THEN limiters[k].tokens + 1 ELSE Burst
      BY <2>0 DEF Older, Missing
    <3>2. QED
      BY <2>4, <3>1 DEF LimiterTick, Buckets!Tick, Buckets!Next
  <2>5. CASE Evict
    <3>1. ASSUME NEW k \in Key, Expired(limiters[k]) PROVE limiters[k].tokens = Burst
      BY <2>0, <3>1 DEF Expired, Min
    <3>2. left' = left /\ answer' = answer
      BY <2>5, <3>1 DEF Evict, Missing
    <3>3. QED
      BY <3>2
  <2>6. CASE UNCHANGED limiterVars
    BY <2>6 DEF limiterVars
  <2>7. QED
    BY <2>2, <2>3, <2>4, <2>5, <2>6 DEF LimiterNext, Buckets!Next
<1>3. QED
  BY InitLimiterInv, StepLimiterInv, <1>1, <1>2, PTL DEF LimiterSpec, BucketSpec, Buckets!Spec
=============================================================================
