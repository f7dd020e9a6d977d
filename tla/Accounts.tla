------------------------------ MODULE Accounts ------------------------------
(***************************************************************************)
(* Accounts, their sessions, and the job that deletes anonymous accounts   *)
(* nobody has used for long.  A browser holds one token; an anonymous      *)
(* account is reached by its token only, and is upgraded in place when its *)
(* browser logs in with a Discord account that is new.  The job lists the  *)
(* stale accounts and deletes each one's data table by table, without a    *)
(* transaction, in the order the foreign keys ask for.                     *)
(*                                                                         *)
(* Time is counted in ticks, long against a request and short against the  *)
(* life of a token.  Of each kind of data an account has some or none:     *)
(* play stands for phases and deaths, cards for info cards and the Spotify *)
(* connection.                                                             *)
(***************************************************************************)
EXTENDS Naturals, Sequences, FiniteSets

CONSTANTS Browser,
          Discord,      \* Discord accounts
          NoDiscord,
          MaxUsers,     \* bound on the accounts ever created
          TokenLife,    \* how long a token is valid
          MaxAge,       \* ANONYMOUS_MAX_AGE
          MaxFaults     \* bound on failed statements, restarts and late joins

ASSUME NullAssumption == NoDiscord \notin Discord
ASSUME BoundAssumption == MaxUsers \in Nat /\ MaxFaults \in Nat

\* A token lasts seven days and cannot be renewed, an unused account a year.
ASSUME AgeAssumption == TokenLife \in Nat \ {0} /\ MaxAge \in Nat /\ MaxAge >= TokenLife

VARIABLES users,   \* the users table, with what each user owns
          token,   \* the token a browser holds
          login,   \* where a browser's LoginWithDiscord stands
          job,     \* where the cleanup job stands
          faults   \* how many faults there have been

vars == <<users, token, login, job, faults>>

User == 1..MaxUsers

\* Mutant: games are deleted before the registrations that refer to them.
TablesUnordered == <<"play", "games", "registrations", "scripts", "cards", "user">>

\* The tables of deleteUserCascade in its order.
Tables == <<"play", "registrations", "games", "scripts", "cards", "user">>

\* games name the script they are played with: uses is the owner of that script,
\* 0 without a game.
NoUser == [exists |-> FALSE, anon |-> FALSE, discord |-> NoDiscord, idle |-> 0,
           has |-> {}, uses |-> 0]
NoToken == [user |-> 0, anon |-> FALSE, left |-> 0]
NoLogin == [at |-> "idle", discord |-> NoDiscord, user |-> 0]
NoJob == [todo |-> {}, user |-> 0, next |-> 1]

Init ==
    /\ users = [u \in User |-> NoUser]
    /\ token = [b \in Browser |-> NoToken]
    /\ login = [b \in Browser |-> NoLogin]
    /\ job = NoJob /\ faults = 0

Valid(b) == token[b].left > 0
IssueToken(u, anon) == [user |-> u, anon |-> anon, left |-> TokenLife]

\* The id a new user gets.
Created == {u \in User : users[u] # NoUser}
Holder(d) == {u \in User : users[u].exists /\ users[u].discord = d}
NewUser(anon, d) ==
    [NoUser EXCEPT !.exists = TRUE, !.anon = anon, !.discord = d]

-----------------------------------------------------------------------------
(***************************************************************************)
(* Sessions.                                                               *)
(***************************************************************************)

\* CreateAnonymousSession, which a client calls when it has no valid token.
CreateAnonymousSession(b) ==
    /\ ~Valid(b) /\ login[b].at = "idle"
    /\ \E u \in User :
          /\ Created = 1..(u - 1)
          /\ users' = [users EXCEPT ![u] = NewUser(TRUE, NoDiscord)]
          /\ token' = [token EXCEPT ![b] = IssueToken(u, TRUE)]
    /\ UNCHANGED <<login, job, faults>>

\* LoginWithDiscord looks the Discord account up, and then the caller's own.
BeginLogin(b, d) ==
    /\ login[b].at = "idle"
    /\ ~Valid(b) \/ token[b].anon
    /\ login' = [login EXCEPT ![b] =
         IF Holder(d) # {}
         THEN [at |-> "profile", discord |-> d, user |-> CHOOSE u \in Holder(d) : TRUE]
         ELSE IF Valid(b) /\ users[token[b].user].exists /\ users[token[b].user].anon
         THEN [at |-> "upgrade", discord |-> d, user |-> token[b].user]
         ELSE [at |-> "create", discord |-> d, user |-> 0]]
    /\ UNCHANGED <<users, token, job, faults>>

LoggedIn(b, u) ==
    /\ token' = [token EXCEPT ![b] = IssueToken(u, FALSE)]
    /\ login' = [login EXCEPT ![b] = NoLogin]

\* A returning user.
LoginProfile(b) ==
    /\ login[b].at = "profile"
    /\ LoggedIn(b, login[b].user)
    /\ UNCHANGED <<users, job, faults>>

\* Mutant: after a constraint error the caller stays who they were.
RacedUserOwn(b) == login[b].user

\* loginExistingDiscordUser: another request was first.
RacedUser(b) == CHOOSE u \in Holder(login[b].discord) : TRUE

\* Mutant: the upgraded account still counts as anonymous.
UpgradedHalf(row, d) == [row EXCEPT !.discord = d]

Upgraded(row, d) == [row EXCEPT !.discord = d, !.anon = FALSE]

\* The anonymous account becomes the Discord account's, with all its data.
LoginUpgrade(b) ==
    /\ login[b].at = "upgrade" /\ users[login[b].user].exists
    /\ IF Holder(login[b].discord) = {}
       THEN /\ users' = [users EXCEPT ![login[b].user] = Upgraded(@, login[b].discord)]
            /\ LoggedIn(b, login[b].user)
       ELSE LoggedIn(b, RacedUser(b)) /\ UNCHANGED users
    /\ UNCHANGED <<job, faults>>

LoginCreate(b) ==
    /\ login[b].at = "create"
    /\ IF Holder(login[b].discord) = {}
       THEN \E u \in User :
              /\ Created = 1..(u - 1)
              /\ users' = [users EXCEPT ![u] = NewUser(FALSE, login[b].discord)]
              /\ LoggedIn(b, u)
       ELSE LoggedIn(b, RacedUser(b)) /\ UNCHANGED users
    /\ UNCHANGED <<job, faults>>

LoginFails(b) ==
    /\ login[b].at # "idle"
    /\ login' = [login EXCEPT ![b] = NoLogin]
    /\ UNCHANGED <<users, token, job, faults>>

-----------------------------------------------------------------------------
(***************************************************************************)
(* What accounts are used for.                                             *)
(***************************************************************************)

\* currentUser bumps last_active_at in a statement of its own, whose failure is
\* only logged; the handler then writes the caller's row.
Uses(b, row) ==
    /\ Valid(b) /\ users[token[b].user].exists
    /\ \E idle \in {0, row.idle} :
          users' = [users EXCEPT ![token[b].user] = [row EXCEPT !.idle = idle]]
    /\ UNCHANGED <<token, login, job, faults>>

Having(b, kinds) == [users[token[b].user] EXCEPT !.has = @ \cup kinds]

CreateScript(b) == Uses(b, Having(b, {"scripts"}))

\* CreateInfoCard, ConnectSpotify.
CreateCard(b) == Uses(b, Having(b, {"cards"}))

\* CreateGame looks the script up by its id, whoever's it is; a page that was
\* opened before a login still knows the scripts of the account it was left for.
CreateGame(b) ==
    \E v \in User :
        /\ "scripts" \in users[v].has
        /\ Uses(b, [Having(b, {"games", "play"}) EXCEPT !.uses = v])

\* A player joins the bag of somebody's game, without an account.
Join(u) ==
    /\ faults < MaxFaults
    /\ "games" \in users[u].has /\ "registrations" \notin users[u].has
    /\ users' = [users EXCEPT ![u].has = @ \cup {"registrations"}]
    /\ faults' = faults + 1
    /\ UNCHANGED <<token, login, job>>

\* Requests are short: no tick passes between a login's check and its write.
Tick ==
    /\ \A b \in Browser : login[b].at = "idle"
    /\ \/ \E u \in User : users[u].exists /\ users[u].idle <= MaxAge
       \/ \E b \in Browser : Valid(b)
    /\ users' = [u \in User |->
         IF users[u].exists /\ users[u].idle <= MaxAge THEN [users[u] EXCEPT !.idle = @ + 1]
         ELSE users[u]]
    /\ token' = [b \in Browser |->
         IF token[b].left > 1 THEN [token[b] EXCEPT !.left = @ - 1] ELSE NoToken]
    /\ UNCHANGED <<login, job, faults>>

-----------------------------------------------------------------------------
(***************************************************************************)
(* The cleanup job.                                                        *)
(***************************************************************************)

\* Mutant: only the age counts.
StaleAny(u) == users[u].exists /\ users[u].idle > MaxAge

Stale(u) == users[u].exists /\ users[u].anon /\ users[u].idle > MaxAge

\* cleanupAnonymousUsers, hourly.
CleanupList ==
    /\ job = NoJob
    /\ {u \in User : Stale(u)} # {}
    /\ job' = [NoJob EXCEPT !.todo = {u \in User : Stale(u)}]
    /\ UNCHANGED <<users, token, login, faults>>

CleanupNext ==
    /\ job.user = 0 /\ job.todo # {}
    /\ \E u \in job.todo : job' = [todo |-> job.todo \ {u}, user |-> u, next |-> 1]
    /\ UNCHANGED <<users, token, login, faults>>

\* A foreign key keeps the rows of table t that u owns: games wait for their
\* phases and registrations, scripts for every game played with them.  Games and
\* cards keep the user, scripts do not: theirs is set to NULL.
Kept(u, t) ==
    CASE t = "games" -> users[u].has \cap {"play", "registrations"} # {}
      [] t = "scripts" -> "scripts" \in users[u].has /\ \E v \in User : users[v].uses = u
      [] t = "user" -> users[u].has \cap {"games", "cards"} # {}
      [] OTHER -> FALSE

Without(row, t) ==
    IF t = "user" THEN [row EXCEPT !.exists = FALSE]
    ELSE [row EXCEPT !.has = @ \ {t}, !.uses = IF t = "games" THEN 0 ELSE @]

\* Mutant: the scripts are left to the foreign key.
DeletesNoScripts(t) == t # "scripts"

\* The tables deleteUserCascade deletes from.
Deletes(t) == TRUE

\* One statement of deleteUserCascade.
CleanupDelete ==
    /\ job.user # 0
    /\ LET t == Tables[job.next]
       IN  /\ ~Deletes(t) \/ ~Kept(job.user, t)
           /\ users' = IF Deletes(t) THEN [users EXCEPT ![job.user] = Without(@, t)]
                       ELSE users
           /\ job' = IF t = "user" THEN [job EXCEPT !.user = 0, !.next = 1]
                     ELSE [job EXCEPT !.next = @ + 1]
    /\ UNCHANGED <<token, login, faults>>

\* A foreign key refuses a statement: what has been deleted stays deleted, and
\* the job goes on with the next user.
CleanupRefused ==
    /\ job.user # 0 /\ Deletes(Tables[job.next]) /\ Kept(job.user, Tables[job.next])
    /\ job' = [job EXCEPT !.user = 0, !.next = 1]
    /\ UNCHANGED <<users, token, login, faults>>

\* A statement fails for another reason.
CleanupFails ==
    /\ job.user # 0 /\ faults < MaxFaults
    /\ job' = [job EXCEPT !.user = 0, !.next = 1]
    /\ faults' = faults + 1
    /\ UNCHANGED <<users, token, login>>

\* The server is restarted in the middle of the job.
Restart ==
    /\ job # NoJob /\ faults < MaxFaults
    /\ job' = NoJob /\ login' = [b \in Browser |-> NoLogin]
    /\ faults' = faults + 1
    /\ UNCHANGED <<users, token>>

-----------------------------------------------------------------------------
Request(b) ==
    \/ CreateAnonymousSession(b) \/ \E d \in Discord : BeginLogin(b, d)
    \/ LoginProfile(b) \/ LoginUpgrade(b) \/ LoginCreate(b) \/ LoginFails(b)
    \/ CreateScript(b) \/ CreateCard(b) \/ CreateGame(b)

Cleanup == CleanupList \/ CleanupNext \/ CleanupDelete \/ CleanupRefused

Next ==
    \/ \E b \in Browser : Request(b)
    \/ \E u \in User : Join(u)
    \/ Tick \/ Cleanup \/ CleanupFails \/ Restart

Spec == Init /\ [][Next]_vars

\* Time passes, the ticker ticks, and statements end.
Fairness ==
    /\ WF_vars(Tick) /\ WF_vars(Cleanup)
    /\ \A b \in Browser : WF_vars(LoginFails(b))

FairSpec == Spec /\ Fairness

-----------------------------------------------------------------------------
Kind == {"play", "registrations", "games", "scripts", "cards"}
Row == [exists : BOOLEAN, anon : BOOLEAN, discord : Discord \cup {NoDiscord},
        idle : 0..(MaxAge + 1), has : SUBSET Kind, uses : User \cup {0}]
Token == [user : User \cup {0}, anon : BOOLEAN, left : 0..TokenLife]
Login == [at : {"idle", "profile", "upgrade", "create"},
          discord : Discord \cup {NoDiscord}, user : User \cup {0}]
Job == [todo : SUBSET User, user : User \cup {0}, next : DOMAIN Tables]

\* Type invariant.
TypeOK ==
    /\ users \in [User -> Row] /\ \A u \in User : users[u].anon => users[u].discord = NoDiscord
    /\ token \in [Browser -> Token]
    /\ login \in [Browser -> Login]
    /\ \A b \in Browser : login[b].at \in {"profile", "upgrade"} => login[b].user \in User
    /\ job \in Job /\ faults \in 0..MaxFaults

\* Whoever logs in with Discord gets the one account that has their Discord id,
\* whatever other browsers do with the same Discord account meanwhile.
LoginFindsTheAccount ==
    \A b \in Browser :
        Valid(b) /\ ~token[b].anon =>
            \E d \in Discord : Holder(d) = {token[b].user}

\* "Deletes anonymous users that have been inactive": the job never touches an
\* account that somebody can still use, although it reads the list first and
\* deletes later, while accounts are used and upgraded.
NobodyLosesData ==
    [][CleanupDelete => users[job.user].anon /\ \A b \in Browser : token[b].user # job.user]_vars

\* "Deletes a user and all their related data": nothing of an account is left
\* when it is gone.
NothingIsLeft == \A u \in User : u \in Created /\ ~users[u].exists => users[u].has = {}

\* "startCleanup periodically deletes anonymous users that have been inactive for
\* longer than maxAge": every such account goes, whatever fails on the way, unless
\* another account's game is tied to it, which the foreign keys then protect.
UntiedStaleUsersGo ==
    \A u \in User :
        Stale(u) ~> (~users[u].exists \/ \E v \in User \ {u} : users[v].uses = u)
=============================================================================
