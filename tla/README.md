# Clock Keeper in TLA+

Clock Keeper is a storyteller's companion for games of Blood on the Clocktower: a Go
server (ConnectRPC, the ent data layer, PostgreSQL) and a Svelte client. Much of it is
create, read, update and delete of one owner's rows. What is hard is concentrated in a
few places where several people, phones, requests and jobs meet on the same rows, or
where rules pile up:

* the **token bag**, through which a table's players register from their own phones,
  name their neighbours and are dealt their characters;
* the **watch streams** that keep those phones up to date;
* the **phases** of a running game, with the deaths and ghost votes carried from one to
  the next;
* the **grimoire**, where names, deaths, alignments and promotions are keyed by the role
  in the seat, and one operation renames every key;
* the **setup rules**, which pick a legal set of characters;
* the **Spotify connection**, whose refresh token changes whenever it is used;
* the **accounts**, upgraded by a login and deleted by a job;
* the **rate limiter**, which forgets the buckets of idle callers.

All of these are modelled and model-checked here. Their safety properties, and the abstract
specifications some of them implement, are proved as well, for every instance; so is, of
the loops and requests whose end is in question, that they are of bounded length.

## The system

Every RPC runs in a goroutine of its own. The typical handler *reads* the game outside
any transaction (`getOwnedGame`, `gameByBagCode`, `registrationBySecret`), checks its
guards on that copy, and *writes* later. PostgreSQL runs at READ COMMITTED. So between
the guard and the write anything may commit, and a guard is only worth what the write
itself repeats of it: a conditional `UPDATE ... WHERE`, a unique index, a row lock taken
before a second read.

### Inventory

Paths are below `src/internal/web/` unless they say otherwise.

| Component | State | Operations | What makes it hard | What makes it correct |
|---|---|---|---|---|
| Token bag (`api_tokenbag.go`, `tokenbag_helpers.go`) | the bag's phase and codes on the game row; registrations with name, secret hash, picks, role | open (with backfill from the grimoire), close, add, join, shared join, claim, remove, pick neighbours, reveal, reset | stale guards, races for one name, row locks in random order, error paths inside transactions | a secret told to a phone stays valid; picks are frozen by the reveal; a dealt player holds one role of their own; no lock outlives its transaction |
| Watch streams (`api_tokenbag_watch.go`, `tokenbag_hub.go`) | subscriptions with a one-slot tick channel, one goroutine per phone | subscribe, publish, snapshot in three reads, heartbeat, close | ticks dropped on a full slot, torn snapshots, lost connections, restarts | no change slips past a waiting stream; every phone converges |
| Player's client (`src/web/src/lib/tokenbag.svelte.ts`, `stream-retry.ts`, `tokenbag-credentials.ts`) | what the screen shows, the stored secret, the reconnect loop | apply a snapshot, pick, fetch the token again, reconnect with backoff | answers of its own requests race with its stream | what is shown ends up being what the server says |
| Seating (`tokenbag_seating.go`) | none (pure) | chain the picks into a circle | one-sided, contradictory, dangling picks | an order is a permutation that respects every pick, or there is none |
| Game lifecycle (`api_game_lifecycle.go`) | game state; phases with round, kind and active flag; completed night actions | start, advance, end, toggle a night action | read-then-write across requests | one active phase; one step at a time |
| Deaths (`api_deaths.go`) | one death record per phase and role, with its ghost vote | record, remove, use ghost vote, each over a range of phases | the range is computed from a copy while phases are being added | the records of later phases stay in step |
| Star pass (`api_starpass.go`) | the list of promotions | promote, undo | read-modify-write of a list that a reassignment renames beside it | the promoted are minions in play |
| Games (`api_games.go`) | games: roles, seats, alignments, travellers, extra characters | create, edit roles and seats, randomize, duplicate, delete | columns written whole from a copy | nothing recorded is about a role that is not in play |
| Bag substitutions (`api_bagsub.go`) | which character the Drunk's seat shows | choose, reassign (renames the seats) | every map keyed by seat renamed at once, from copies of different age | no player sees anything move |
| Setup (`src/internal/botc/setup.go`, `distribution.go`) | none (pure, randomized) | randomize, validate | characters that change how many outsiders there are, that bring or replace others; locked ones | a result is a legal setup that keeps who was locked |
| Accounts (`api_auth.go`, `auth.go`, `discord.go`) | users, tokens | anonymous sign-up, Discord login and upgrade, activity stamp | two logins with one Discord account; upgrade beside the cleanup | one account per Discord account, and the login finds it |
| Cleanup (`cleanup.go`) | none | hourly deletion of idle anonymous users | several statements, no transaction, a list that ages, foreign keys | only accounts nobody can reach lose data, and all of theirs |
| Spotify (`api_spotify.go`, `spotify.go`) | the connection: refresh token, access token, expiry, playlists | connect, disconnect, refresh, choose playlists | rotation at the provider, a lock per user, cancelled callers, lost answers | the stored refresh token is the latest one |
| Rate limiter (`ratelimit.go`) | a token bucket per caller | allow, evict | eviction of a bucket still in debt | eviction never grants more than waiting would |
| Night order, checklist, characters (`src/internal/botc`, `api_characters.go`) | none (tables and pure functions) | sort, list, look up | nothing | - |
| Scripts, info cards, players | one owner's rows | create, read, update, delete | nothing shared but a script that another's game is played with (see Accounts) | - |
| Conversion, server, configuration, database, logging, generated ent code | - | - | wiring, pure I/O, generated | - |

How they interact: every token bag handler that changes something, and StartGame,
EndGame and DeleteGame, *publish* to the hub after their commit; a stream then re-reads
the database. The token bag reads the grimoire's seats (whose name holds which role) in
the backfill and the deal, and the state of the game in its guards; what it tells a phone
is the dealt role resolved through the bag substitution. Star pass reads the deaths of the
active phase. Randomizing writes the roles that everything else is keyed by. The cleanup
deletes what all of them own.

## The modules

| Module | Models | Uses |
|---|---|---|
| `TokenBag` | the token bag of one game, its requests, row locks and transactions | - |
| `TokenBagLive` | fairness, the deadlock detector, liveness | extends `TokenBag` |
| `TokenBagProofs` | theorems about `TokenBag`, and about its deadlocks | extends `TokenBagLive`, `FiniteSetTheorems`, `TLAPS` |
| `TokenBagWatch` | hub, streams, connections, the phone's screen and its own requests | - |
| `TokenBagWatchProofs` | theorems about `TokenBagWatch` | extends `TokenBagWatch`, `TLAPS` |
| `DeathLedger` | abstract: death records when every operation is atomic | - |
| `GamePhases` | lifecycle, deaths and ghost votes of a running game | implements `DeathLedger` (`INSTANCE ... WITH`) |
| `GamePhasesProofs` | theorems about `GamePhases`, the refinement among them | extends `GamePhases`, `SequenceTheorems`, `FiniteSetTheorems`, `TLAPS` |
| `Seating` | from the picks of neighbours to the order round the table | - |
| `SeatingProofs` | theorems about `Seating` | extends `Seating`, `FiniteSetTheorems`, `WellFoundedInduction`, `TLAPS` |
| `SeatTable` | abstract: the table as the players see it, one change at a time | - |
| `Grimoire` | roles, substitution, names, alignments, deaths, promotions and night actions of one game, column by column | implements `SeatTable` (`INSTANCE ... WITH`) |
| `GrimoireProofs` | theorems about `Grimoire`, the refinement among them | extends `Grimoire`, `SequenceTheorems`, `TLAPS` |
| `GrimoireBag` | the grimoire composed with the token bag's deal and what phones show | extends `Grimoire` |
| `Setup` | RandomizeRoles of the setup rules | - |
| `SetupProofs` | theorems about `Setup` | extends `Setup`, `FiniteSetTheorems`, `TLAPS` |
| `SpotifyToken` | the Spotify connection of one user, and Spotify | - |
| `SpotifyTokenProofs` | theorems about `SpotifyToken` | extends `SpotifyToken`, `TLAPS` |
| `Accounts` | users, sessions, logins and the cleanup job | - |
| `AccountsProofs` | theorems about `Accounts`, and about `RateLimiter`, the refinement among them | extends `Accounts`, `RateLimiter`, `FiniteSetTheorems`, `TLAPS` |
| `RateBuckets` | abstract: a bucket per caller that is never thrown away | - |
| `RateLimiter` | the limiter's map of buckets and its eviction | implements `RateBuckets` |
| `MCTokenBag`, `MCTokenBagLive`, `MCTokenBagWatch`, `MCGamePhases`, `MCSeating`, `MCGrimoire`, `MCGrimoireBag`, `MCSetup`, `MCSpotifyToken`, `MCAccounts`, `MCRateLimiter` | the instances TLC checks | extend theirs |

### TokenBag

`game`, `regs` and `lastId` are the database (games row, registrations, the id serial),
`lock` its row locks, `req` the goroutines: what each request has read and the point it
has reached. `held` is what players' phones store. `dealt` is a history variable, the
registrations the last committed reveal dealt to; no action reads it.

A handler is a chain of actions, named after it and after the statement: `BeginReveal`
(read the game, check the guards), `RevealRead` (list the registrations, match the
names), `RevealAssign` (update them one by one, in the random order of a Go map),
`RevealCommit`. `Abort` lets any request die at any point, as a cancelled context, a
failed statement or the deadlock detector do; the rollback frees its locks.

Conventions, each an abstraction:

* A transaction's writes are applied at its commit; what keeps others away until then is
  the row lock. This is READ COMMITTED as other transactions see it. A transaction that
  reads nothing between locking a row and committing does both in one step, and so does
  a statement outside any transaction.
* `UPDATE` over several rows locks the rows its snapshot found one after the other and
  looks at each again once it has the lock (`ResetWipe`, `RemoveUnpick`), as PostgreSQL
  does.
* A unique index and a foreign key are conditions of the insert. An insert's foreign key
  check waits for a transaction that changes a *key* of the game row, which minting the
  codes is (`Minting`), and for no other update of it.
* `code` stands for both bag codes, minted together; `pick` for both neighbour columns,
  which every statement treats alike; a secret is a number that grows with each new one
  of a row, and 0 is one nobody was told.
* The seats are a function from roles to names. Access control, name normalization,
  the character registry's checks and the bag's substitutions are guards no property
  tells apart and are left out.
* The other writers of the game row (`EditSeat`, `StartGame`, `EndGame`, `DeleteGame`)
  are one step each; the comment on them says why that loses nothing.

### TokenBagWatch

`game`, `list` and `reg` are what the database holds, `pending` counts handlers that
have committed and not yet published, `tick` is the hub (a phone's channel is absent,
empty or full), `stream` the goroutine of each phone with what it has read so far,
`wire` the connection, `call` the phone's other request, `view` its screen. A snapshot is
built from three reads (`ReadGame`, `ReadList`, `ReadSelf`), so the model has torn
snapshots; it has ticks dropped on a full slot, publishes late against their commits,
connections cut with what they carry (`Cut`), restarts that lose the hub and unpublished
ticks (`Restart`), the redial, the final snapshot of a deleted game and the fatal answer
to the redial after it, and the answers of `GetMyToken` and `SetTokenBagNeighbors` that
overwrite the screen late.

What a phone is told is the dealt role resolved through the bag's substitutions
(`tokenCharacter`; the Drunk holds a townsfolk's token). They are part of the row (`shows`),
and `Substitute` stands for the four handlers that write them (UpdateBagSubstitutions,
ReassignBagSubstitution, RandomizeRoles, UpdateGameRoles), none of which publishes.
`NoLostTick` is therefore said of what handlers do publish (`Loud`): phase, start, players
and the role dealt. A new name of the game or another token for the role stays unseen until
a tick for something else or the heartbeat; that it is seen in the end is `Converges`.

Abstractions: `list` is a number for everything the list of players shows; an open bag
counts as closed, since what a phone is told differs in no way that matters here; at most
one snapshot is on the wire, which delays `Send` more than TCP's buffers would but orders
nothing differently; a phone has one request of its own at a time. The handlers' guards
are not repeated (TokenBag has them and their races): each writer here can do whatever
its write does not itself exclude. The join, which restarts the stream with the new
secret, and the shared device are not modelled: phones hold a credential from the start.

### GamePhases and DeathLedger

`phases` is the sequence of phases in the order of their ids, each with its round, kind,
active flag and, per role, no death record, one with its ghost vote, or one whose vote
is used. The requests are chains of actions as in TokenBag. No transaction here reads
after its first write, so the writes of each are one step at the commit; the two
statements that are conditional look at the rows as they are then.

`DeathLedger` says what the records amount to if nobody ever overlaps: a death recorded
or removed *from a phase on* holds in every later phase, those still to be created
included, and a ghost vote is spent in all. `GamePhases` implements it under the mapping
that reads the ledger off the phases. The code does not keep that promise for a role
about which two requests overlap, or one and an AdvancePhase: RecordDeath and UseGhostVote
propagate over the phases of a copy, and AdvancePhase copies the deaths it read. `raced`
(history) collects those roles and the mapping strikes them off the ledger. What
remains is not the sequential case: all other requests, lifecycle operations and
failures still interleave with the role's own.

`Overlapping` says whether two AdvancePhase requests may be in flight at once. Where they
may, the code loses the single active phase (see the known races below), and with it
every later advance; the properties are checked for a storyteller who has one in flight.

### Seating

`computeSeating` as a walk: `todo` holds the picks not looked at yet, `succ` and `pred` are
its two maps, and one action each stands for an edge taken (`AddEdge`) or refused
(`Refuse`), the verdict on the circles (`Judge`), the seats of a closed circle
(`Circle`), of the open chains (`Chains`, chainOrder) and of those nobody placed
(`Unplaced`). `Claims` is the set of inputs; `Init` takes one, as the picks of a bag's
registrations may be anything: players pick independently, change their minds and leave.
Conflicts are reported or not; their wording is left out. What is promised is stated
without the algorithm, by the tables at which all picks are true (`Tables`, `Suits`).

### Grimoire, SeatTable and GrimoireBag

`row` is the games row with one phase, column by column; `req` a request with the
columns it has read (`copy`). Every handler is a read (`BeginAlign`, which checks the
guards) and a write of whole columns (`AlignCommit`); ReassignBagSubstitution, the one
transaction that reads again before it writes, has a third step (`ReassignRead`), and
writes by a mix of the two copies and the rows as they are. `Commit` notes in `spoiled`
(history) when the write replaced a column that somebody changed since it was read, which
the code cannot help anywhere; so do the three other ways in which the promises are off: a
list sent to UpdateGameRoles or a deal names a character twice, a running game is
randomized, and a reassignment meets a name that was left under a role taken out of play.

The server checks little of what it is sent, and the model no more. A list of roles may name
one twice (UpdateGameRoles asks only whether the ids exist and, in a running game, whether
anything is taken out): the run sends such lists, and deals of a script that lists a
character twice. Names go under any key and night actions under any id (`Keys`), the Drunk's
token may be any character, in play or not, or the list of substitutions may be empty
(`Sent`). `stray` (history) collects the night actions done that were of no token shown at the
time; `NoOrphans` speaks of the others. Two things are the client's alone: a list of roles is
the stored one with one role appended or taken out, as its toggle sends it
(web/src/routes/games/[id]/+page.svelte:562-571), which is also why one seat at a time joins
or leaves in `SeatTable`; and of the characters that need a substitution only the Drunk is
modelled.

`SeatTable` is what the players see of that: per seat a name, a token, life, side and
promotion, where one thing changes at a time and the Drunk moves unseen. `Grimoire`
implements it seat by seat, so it is the seat, not the role id, that the mapping follows:
a rename that forgot one of the maps would move a name or a death to another seat in one
step. One phase stands for all, and names for names, positions and notes, since the
handlers treat them alike; travellers, extra characters and reminders are columns nothing
else reads.

`GrimoireBag` adds the registrations' dealt roles and the character a phone resolves them
to. The deal is one step there: its races are TokenBag's.

### Setup

One action per stage of `randomizeRoles`: the request (`Init`: script, players, locked
characters), the evil picks and the distribution they make (`PickEvil`, `PickExtra`), the
good picks, the swap, the companions one by one, the substitutions and the bluffs; a
conflict of locked characters starts the next attempt while there are any.
`ValidateDistribution`, which the repository's tests hold results against, is part of
what the model's results are held against. The code shuffles and slices; the model takes
any subset of the slice's size that holds the locked characters, which the code puts
first. `picks` are the teams' slices, `drunk` and `companions` the copies the later stages work through
(taken before the companions come, as in the code). Characters are their ids; `outsiderDelta`,
`minionDelta`, `companion`, `bagTeam` and `byHand` are the entries of the table of
modifiers. Left out: the order of the roles, the reasons in words, and the branch that
swaps outsiders for townsfolk for a negative difference, which no good character of the
table causes. `Team` gives each character's team and `registry` the teams `src/data/roles.json`
has for the characters the table of modifiers is about. `SetupAssumption` is what the proofs
need of them: 5 to 15 players, at least one attempt, finite scripts of characters of the
four teams, and nobody the registry knows in another team than the registry's.

A second assumption is about the data, and nothing enforces it: `ListedOnce`, that a script
lists nobody twice. CreateScript, UpdateScript and ImportScript keep the list they are sent,
Registry.Characters (registry.go:82-92) returns a repeated character twice and
`randomizeRoles` takes it for two (setup.go:362-366), so that two players may be dealt it. The
client's script editor offers only characters not on the list yet, and the repository's tests
assert results without repeats, of lists without repeats.

### SpotifyToken

`conn` is the user's row, `mutex` the refresh lock, `req` the requests; `grants`, `latest`
and `revoked` are Spotify: which refresh token it accepts for each authorization. A
refresh waits for the mutex, loads the row again (`Acquire`), calls (`SpotifyRefreshes`,
`SpotifyRejects`, or a call that ends without an answer, `CallFails` and `AnswerLost`) and
writes (`Persist`, `DropRejected`, each of which may fail). ConnectSpotify is its exchange,
the delete and the insert, outside the mutex. Expiry is the three classes the code
distinguishes. `lost` (history) collects the grants whose rotated token was swallowed by the
wire, by a database that failed the update, or by a restart before it; no code could keep
those alive. A caller who leaves is none of these, as the update runs under
`context.WithoutCancel` (api_spotify.go:283): its mutant `PersistCancellable` breaks
`RotatedTokenKept`. A choice of playlists names no account (`BeginPlaylists`), so
`SlotsOfThisConnection` relates what is stored to the row the handler had read, not to what
the client had on its screen. HTTP, the encryption of the stored token and the search
for playlists are left out.

### Accounts

`users` are accounts with the kinds of data each owns, `token` what a browser holds,
`login` a LoginWithDiscord between its lookup and its write, `job` the cleanup between its
statements. Foreign keys are conditions of the deletes (`Kept`), a unique index one of the
login's writes. A tick of time is long against a request and short against a token's life.
The assumption `AgeAssumption`, that an anonymous account outlives its tokens before it is
stale, holds for the defaults (seven days and a year); nothing in the code enforces it for
a configured ANONYMOUS_MAX_AGE, and `NobodyLosesData` needs it. Not modelled: the single
user of development mode, and two tabs of one browser that log in with two Discord accounts.

### RateLimiter and RateBuckets

`limiters` is the map of one tier, each entry with its tokens and the ticks since it was
last seen; a tick is the time that refills one token. The clock of
`golang.org/x/time/rate` refills continuously, which is the same seen at whole tokens. An
entry is found and used in one step, as nothing can evict an entry seen just now. The
definitions that `Accounts` has under the same name carry the prefix `Limiter` (`LimiterInit`,
`LimiterTick`, `LimiterNext`, `LimiterSpec`), as one module proves about both.

## What the runs check

| Run | Properties | Instance | Shows |
|---|---|---|---|
| `tokenbag_players` | HeldSecretsWork, LocksOwned, PicksFrozen | 2 requests, 2 names, 2 roles, all operations a player or the storyteller has on registrations | no phone's secret stops working while its registration exists; no lock outlives its transaction; no dealt player's pick changes on a revealed bag |
| `tokenbag_deal` | TypeOK, DealtHoldOneRole, StartSealsRoles | 2 requests, 2 names, 2 roles, seat edits, start | whoever was dealt to holds one role nobody else holds; the start seals the roles against a late reset |
| `tokenbag_live` | EveryRequestEnds | 2 requests, 2 names, 2 roles | every accepted request is answered, deadlocks between random lock orders included |
| `watch` | TypeOK, NoLostTick, Converges | 1 phone, 2 tokens, 3 writes by others, 1 cut or restart | a waiting stream without a tick is up to date in all that handlers publish; every screen converges, name and substituted token included, and a withdrawn token leaves it |
| `phases_ledger` | TypeOK, OneActivePhase, OneAtATime, LedgerSpec | 2 requests, 1 role, 2 rounds | one active phase, one step at a time, deaths follow the ledger |
| `seating` | TypeOK, OneNeighbourEachSide, RightTable, CompleteIsTheTable | all picks of up to 3 players, 4 picking each other | the answer is a table at which every pick is true whenever there is one and a conflict otherwise; "complete" exactly when only one table suits |
| `grimoire` | TypeOK, RolesDistinct, NoOrphans, SeatTableSpec | 2 requests, 5 characters, 3 seats, 1 player, 1 mark | unless edits overlap or a list names a character twice: moving the Drunk puts no role in play twice, nothing recorded is about a role not in play, and the table the players see changes one thing at a time |
| `setup` | TypeOK, LegalResult, LockedStay, OutsidersAsRuled, CompanionsCome | 3 scripts that list nobody twice, 5, 6, 7 and 10 players, 0 to 2 locked | every result is a legal setup with the outsiders it calls for, everybody locked and the companions brought |
| `spotify` | TypeOK, RotatedTokenKept, SlotsOfThisConnection, LiveConnectionKept, EveryRequestEnds, RevokedIsDropped | 2 requests, 2 grants, 2 tokens each | the stored token is the one Spotify accepts, callers who leave included; neither a reconnect nor its playlists are undone by a request that overlaps it; nobody hangs on the mutex; a revoked grant is found out |
| `accounts` | TypeOK, LoginFindsTheAccount, NothingIsLeft, NobodyLosesData, UntiedStaleUsersGo | 2 browsers, 1 Discord account, 2 users, 1 fault | a login gets the one account; the job deletes only accounts nobody can reach, leaves nothing of them, and gets to all it can |
| `ratelimit` | RefilledWhileUnseen, BucketSpec | 2 callers, 1 per minute, burst 5 | eviction is invisible |

and one whose property is a sentence of the code's own comments that the code does not
keep (`findings` in `PROJECT.json` quotes it):

| Run | Comment | What happens |
|---|---|---|
| `grimoire_tokens` | "the shown character tokens are invariant" under a reassignment (api_bagsub.go:74-75) | the registrations are not renamed, so after a deal the old Drunk's phone shows another token |

### Known races and divergences without a run of their own

Most of these are behaviours of the models as well, and the properties are stated around
them; the rest is read off the lines named.

* *Codes.* Two first opens of a bag both read no code and both mint one
  (api_tokenbag.go:69); the second commit replaces the first's, although codes are "never
  rotated afterwards" (:41). `OpenCommit`.
* *Reveal.* A join that passed its check on the open bag inserts after the reveal has
  listed the registrations (:322), which leaves one without a role (against :577); a
  start commits between the reveal's check and its unconditional write (:275, :366), so a
  running game is revealed (against :262); a close or an open that read the phase before
  the reveal writes it after (:132). `DealtHoldOneRole` and `StartSealsRoles` say what
  still holds.
* *Cap.* Concurrent joins exceed the 25 registrations by their number (:775).
* *Phases.* Two AdvancePhase requests that leave the same day make two active nights, and
  every later advance fails (api_game_lifecycle.go:143); an advance beside EndGame leaves
  an active phase in a completed game (:340).
* *Deaths.* A death recorded beside an advance misses the phases it creates
  (api_deaths.go:66).
* *Whole columns.* Of two concurrent edits of one column the first is lost (star passes,
  night actions, alignments, names).
* *Watch.* A rename (api_games.go:476) and a change of the bag's substitutions
  (api_games.go:221, :304, :654-698; api_bagsub.go:185-231) publish nothing: a dealt player may
  hold the old token on the screen until the next heartbeat. `Substitute`.
* *Repeated characters.* UpdateGameRoles stores a list that names a role twice
  (api_games.go:253-272), and a script may list a character twice (`ListedOnce`, above). Seats
  are keyed by role, so two seats then share name, death and alignment. The client sends and
  offers each once.
* *Keys nobody checks.* ToggleNightAction takes any action id (api_game_lifecycle.go:368-411),
  UpdateGrimoireState any key of names, UpdateBagSubstitutions any character as the token, one
  that is in play included (api_games.go:654-698); the reassignment refuses the last
  (api_bagsub.go:118-125).
* *Colliding token.* When a role is added that the Drunk's token shows, the client means to
  clear the token by sending an empty id (games/[id]/+page.svelte:514-540), which
  UpdateBagSubstitutions refuses as unknown (api_games.go:669-672); the collision stays.
* *Randomize* is not refused in a running game (api_games.go:145) and leaves deaths and
  alignments of roles that are gone. The client offers it in setup only.
* *Names of roles taken out* stay in the map (api_bagsub.go:333): if the shown character
  has one, the order of a Go map decides who keeps the Drunk's old seat.
* *Setup.* A companion may replace a character that itself changes the setup (setup.go:534),
  although the comment above says only others are replaced (:531), and a Drunk replaced by
  the Damsel leaves its substitution behind (:555). What minions picked in addition would
  change is not asked (:397). The outsiders are clamped before the good characters add
  theirs, so the count can differ from the sum that is shown before (convert.go:355).
* *Spotify.* An answer that is lost on the wire after Spotify has rotated the token costs
  the connection, as api_spotify.go:312 says. Of two concurrent connects the second's insert
  fails, where the comment says a re-connect always wins (:84). Playlists chosen in the browser
  before a reconnect to another account, and sent after it, are stored with the new connection
  (:159-187).
* *Cleanup.* CreateGame accepts any script's id (api_games.go:72). If another account's game
  is played with a stale account's script, the foreign key refuses to let the script go
  (cleanup.go:108) and the stale account stays, its games already deleted.
* *Rate limits.* The comment gives authenticated users the higher limit (ratelimit.go:21);
  the defaults are 300 per minute anonymous and 120 authenticated (config.go:27, :72).

### Bounds, and why they are enough

* *Requests.* The races are between a read and a write of one request and a commit of
  another: two requests show them. A race for a name that takes three (a remove frees it
  while a join and a claim hold stale looks) is covered by the proof of `HeldSecretsWork`.
* *Names, roles, ids.* Two registrations are needed for two players with one role, for a
  pick and its target, and for locks in two orders. Ids are never reused, and two let a
  name be registered, removed and registered again.
* *The cap* of 25 is 2, so that the backfill and the count meet it.
* *Rounds.* `MaxRound` 2: a night and a day created by the start, and the next pair
  created by an advance, which copies; a third round repeats the second.
* *One role* in `phases_ledger`: no operation on a death record looks at another role.
* *One phone*: phones share nothing but the ticks of Publish, so what another phone does
  appears as one more writer. *Three writes* reach deal, reset and a change on top, with a
  token fetched before any of them; more of them repeat. *Two tokens*, the Drunk's own and the
  Chef's, and two substitutions: the token is shown as it is, or as the other.
* *One cut or restart*, at any moment; after it the stream starts from nothing, so a
  second one starts the same again.
* *Seats*: three players show every conflict a pick can cause alone (oneself, one who left,
  two on one side) and the circle that closes too early; four add two chains and two
  circles. More players lengthen chains and circles and combine them.
* *Grimoire.* The Drunk, two townsfolk it can show as and move between, a demon, and a
  minion for the star pass; three seats. `MaxMarks` 1: names, deaths, alignments, promotions and
  night actions are renamed independently, so one mark at a time shows where each goes
  (deaths of two seats meeting in a rename are shown by one following through). `Handpicked`
  is one role added and taken out. `SentKeys` are the Drunk and two townsfolk, each in play or
  not by turns; `SentTokens` is one character, in play or not by turns. One of the three deals has
  a character twice. `Promising` stops at spoiled states, where every
  property holds by its hypothesis, and at completed games.
* *Setup.* Three scripts: one with every kind of modifier, one short of minions and
  outsiders, which is where the clamps bite, and one so short of townsfolk that it ends in
  the errors. 5, 6, 7 and 10 players
  are the counts at which the base table has 0, 1, 0 and 0 outsiders and 1 or 2 minions;
  more only grow the slices. Two locked characters can take both places of a small
  team. `Attempts` 2 for 100: a failed attempt leaves nothing to the next but its number.
* *Spotify.* Two grants are the connection and the one that replaces it; a token rotated once is
  all that "not the latest" takes. Two requests: the holder of the mutex and any other.
* *Accounts.* Two browsers race for one Discord account; of two users one is being
  deleted. `TokenLife` 1 and `MaxAge` 2 keep the order of seven days and a year. One fault
  (a failed statement, a restart, or a player who joins late) may fall anywhere.
* *Rate limiter.* The least limit that the assumption `burst <= 30 * PerMin` admits; the
  properties are proved for all others.
* Deadlock checking is off, except for the rate limiter, because the models really stop:
  the game ends or is deleted, a setup has its result, or a bound on ids, rounds, writes,
  grants or users is used up. That requests do not hang is `EveryRequestEnds` of the token bag and of Spotify.
* `Symmetry` permutes requests or callers, in runs that check only safety.

### Fairness

* `TokenBagLive`: strong fairness of each request's next statement - a lock that is freed
  again and again is granted in the end, because PostgreSQL queues its waiters - and weak
  fairness of the deadlock detector, which PostgreSQL runs on every wait that lasts. No
  caller is assumed to do anything, and `Abort` is not fair.
* `TokenBagWatch`: goroutines and client loops run, timers fire (heartbeat, backoff), a
  connection that is not cut delivers. Writers, cuts and the phone's own requests need
  never happen; that cuts and writes are finite in number is the bound, and is what "once
  nothing changes and the network holds" means.

* `SpotifyToken`: a call ends (the HTTP client has a timeout of ten seconds), statements
  end, and each waiting request gets the mutex in the end: Go's mutex hands over to a waiter
  that has starved for a millisecond, hence strong fairness. Nobody need ever call.
  `RevokedIsDropped` assumes beyond that, in its own hypothesis `KeepsAsking`, a player that
  goes on asking with the token rejected, and calls and statements that sometimes succeed.
* `Accounts`: time passes, the job's ticker ticks and its statements end, a login ends.

Heartbeats carry convergence where ticks cannot: a rename and a change of the substitutions
publish nothing, and the late answer of a request of the phone's own undoes a newer
snapshot with no tick to repair it. The mutant that re-sends the last snapshot on the
heartbeat fails `Converges`.

Every property of a passing run has a mutant in `PROJECT.json`: an operator next to the
one it replaces, with a plausible bug of that code (an unconditional claim, a re-read
that is not looked at, a missing rollback, a channel without its slot), under which TLC
finds the property violated.

## What is proved

Every theorem holds for every value of the constants that meets the named assumptions of
its module: any number of requests, browsers, phones, names, roles and so on, and any bound.
The assumptions say that null values are none of the proper ones, that bounds are naturals
and that inputs have their shape; where one says more it is named below. The proofs use
nothing else. Those of safety have one pattern: an invariant `IInv` that implies the
property and is kept by every action, one lemma per action. TLC checked each `IInv` on the
instances above before it was proved (those of `Seating` and `Setup` on smaller ones).

Beside them stand theorems about how long things take, of the form `Spec => [][...]_vars`: a
natural number, bounded by the constants, that every step of a request, a pass or a loop
lowers and nobody else's raises. They need no fairness. What remains of liveness is that
the steps are taken, which is what the fairness says and what TLC checks.

`TokenBagProofs`:

* `TypeCorrect`: `Spec => []TypeOK`. The type invariant is inductive as it stands because
  the request records carry what their point promises (`Owning`, `Naming`: a request at a
  point that writes a registration names one) and because rows lie below the serial. One
  lemma per group of handlers; `BeginRecords` and `GotoRecords` collect once that the
  records the handlers step to are typed.
* `LocksAreOwned`: `Spec => []LocksOwned`. Inductive together with TypeOK. The argument is
  in two lemmas about an arbitrary step of a request p: `StepMoves` (nobody else's record
  or locks change) and `StepInTx` (p holds a lock afterwards only if it is at a point
  inside a transaction).
* `SecretsKeepWorking`: `Spec => []HeldSecretsWork`. Not inductive: between the claim and
  the reply the secret is only in the request. The strengthening `SecretsWork` speaks of every secret held
  or on its way in a reply: its row, if it still exists, has that secret, and its id is one
  the serial has passed, so that no later row can be confused with a removed one. Beside
  it, a row is up for claiming exactly when its secret is one nobody was told.
* `StartSeals`: `Spec => StartSealsRoles`, an action property: with TypeOK, only
  `ResetCommit` takes a role off a row, and its own condition has the game in setup; the
  state never returns to setup.
* `DealIsOneRoleEach`: `Spec => []DealtHoldOneRole`, and `PicksFreeze`: `Spec => PicksFrozen`.
  One invariant for both: a reveal's plan gives each row it lists a role of its own and the
  reveal holds the lock of every row it has been through (`Planned`, which needs that names
  are unique); a pick holds the lock of its row, and once it has looked at the phase a
  second time no reveal deals to that row before the pick is over (`Picking`); what a
  removal has locked still picks the row it removes (`Unpicking`). What one request's step
  leaves to the others is stated once (`RowsKept`): only rows it has locked, and the deal
  unless it locked every row it deals to.
* `OneRegistrationOnePhone`: `Spec => []OnePhoneEach`. Of all requests that join under a name
  or claim it at once, one is told the secret, and nobody was told it before. It is
  inductive beside `SecretsWork`: a claim succeeds only on a row whose secret nobody was
  told, and an insert makes a row with an id beyond every one told (`FirstTold`).
* `WhoDeadlocks`: `Spec => [](OnlyWritersDeadlock /\ NeverSilentlyStuck)`, in the terms of
  `TokenBagLive`, about any number of requests. Where requests are in flight and no next
  statement can run, there is a deadlock for the detector to find; and a deadlock takes
  two transactions that lock row after row (a reveal, a reset, a removal) with rows left.
  A pick, a claim, a join, an open or a close takes part in none. The invariant is
  `LocksOwned` with `LocksAhead`: the game row is locked by an open about to commit only,
  and a transaction has not locked what it has yet to lock. `Ready` is the negation of every
  wait in the guards of `Step`; that it implies ENABLED is read off the guards, not proved.
* `RequestsAreShort`: `Spec => [][ShortenStep]_vars`: a request has at most `MaxId + 4`
  statements (`Left`), as no handler retries. `Turns` lists what a statement can do next, once
  for this and for `LocksAhead`.

`TokenBagWatchProofs`:

* `TypeCorrect`: `Spec => []TypeOK`, which has it that a stream holds a tick channel of the
  hub exactly as long as it runs.
* `NoTickIsLost`: `Spec => []NoLostTick`, "no change can slip through", of the changes that
  are published (phase, start, players, the dealt role; not the game's name, nor what
  substitutions make of the role, for any `Subs`). The property speaks of a stream that waits;
  the strengthening `Follows` of one at any of its three reads: while
  its slot is empty and nobody has yet to publish, what it has read so far is what the
  database says. A write makes a publish due, a publish fills the slot, and taking the tick
  starts the reads again.
* `ShownStays`: `Spec => [][ShownStep]_vars`, `ScreensCatchUp`: `Spec => [][CatchUpStep]_vars`
  and `BehindCounts`: `Spec => []BehindIsBounded`, the part of `Converges` that needs no
  fairness. A screen has caught up (`CaughtUp`) when it shows what the database has and
  neither the wire, nor the stream's reads, nor an answer under way has anything older;
  nothing but a change of the database ends that, so a withdrawn token does not come back.
  `Behind` counts the steps to it, 33 at most: while the database stays and no connection is
  lost no step of anybody raises it, and each of `Onward` lowers it - the request
  that knows something outdated, else the delivery, else the stream, which may have one old
  snapshot to send before it reads again. The invariant adds that a phone stops
  dialling only for a game that is gone (`DeadMeansGone`).

`GamePhasesProofs`:

* `TypeCorrect`: `Spec => []TypeOK`, with any overlaps.
* `OnePhaseIsActive`: `Spec => []OneActivePhase`; `OneStepAtATime`: `Spec => OneAtATime`; and
  `DeathsAreALedger`: `Spec => LedgerSpec`, the refinement of `DeathLedger`. These assume
  `~Overlapping`, as their run does: where two advances overlap the code does not keep them
  (see the races above). The invariant: phases come in pairs, so the round of phase i is
  known from i (`Alternate`); at most one is active and it is of the last pair
  (`ActiveLast`); an advance has the only copy that may add phases, and that copy agrees
  with the database except about roles that have `raced` (`Knows`, `Stands`, `Apart`); so
  does what any other request has read about its role (`Fresh`). For the ledger each commit
  is shown to be one operation on all phases from one on, or a stutter.

`SeatingProofs`, for any number of players and any picks:

* `NeighboursAreInverse`: `Spec => []OneNeighbourEachSide`: what `Agrees` refuses is exactly a
  second player on either side (`AddEdgeKeepsOneNeighbour`); nothing else writes the maps.
* `TypeCorrect`: `Spec => []TypeOK`, that nobody is seated twice; `RightlySeated`:
  `Spec => []RightTable`; `CompleteIsUnique`: `Spec => []CompleteIsTheTable`. So the walk over
  edges, circles and chains answers the question asked without it: is there a table at which
  all picks are true, and is there one only? The invariant: a pick stands behind every edge
  and, until one is refused, an edge behind every pick looked at (`Truthful`); a refusal
  proves that no table suits (`NoTable`: `RefusedForever`, `CircleTooSmall`); the order is a
  piece of the one circle (`RoundSoFar`), or whole chains and the beginning of one
  (`ChainsSoFar`). The lemmas that carry it: in a finite set an injection into itself
  misses nobody (`EverybodyIsNext`, from the library's pigeonhole), so whoever can be followed
  for ever is in a circle (`ClosedHoldsCircle`) and when no chain is left to begin nobody
  with an edge is left over (`NobodyLeftOver`); whoever goes on to the next seat over and
  over gets round the table (`RoundTheTable`). Induction over seats is replaced by the least
  seat where two tables differ (`LeastExists`, from well-foundedness of finite sets).
* `SeatingEnds`: `Spec => [][StepsLeft' \in Nat /\ StepsLeft' < StepsLeft]_vars`: no loop of
  computeSeating follows one-sided or contradictory picks for ever. A step looks at a pick,
  seats somebody or goes to a later stage, and none undoes what another did.

`GrimoireProofs`, for any deals, lists, keys and tokens sent, repeats included; the promises
hold, as in the run, until `spoiled`, which a deal or list with a repeat sets:

* `TypeCorrect`: `Spec => []TypeOK`; `NobodyTwice`: `Spec => []RolesDistinct`, that a
  reassignment puts nobody in play twice although the token it makes a role is any the client
  chose; `NothingOrphaned`: `Spec => []NoOrphans`, for the night actions that were of a token
  shown when they were done (not `stray`). The invariant adds that nothing is recorded before
  the start (`Unmarked`) and, for each point of a request, which columns it has read and
  that its guards hold *in the copy* (`Guarded`). A commit that is not `Outdated` writes over
  columns equal to the copy, so the guards hold of the row; one that is spoils.
* `KeepsTheTable`: `Spec => SeatTableSpec`, the refinement of `SeatTable`. The core is the
  reassignment: renaming two keys in roles, names, deaths, alignments and promotions alike
  is, seat by seat, no change but the Drunk's seat.

`SetupProofs`, for any scripts that list nobody twice (`ListedOnce`, which is assumed of the
stored data and not ensured by the code), any 5 to 15 players, any locked characters and any
choice of the shuffles (`SetupAssumption`: the table of modifiers is the code's, not a
parameter):

* `TypeCorrect`: `Spec => []TypeOK`; `LockedStayIn`: `Spec => []LockedStay`;
  `CompanionsAreThere`: `Spec => []CompanionsCome`; `ResultIsLegal`: `Spec => []LegalResult`;
  `OutsidersFollow`: `Spec => []OutsidersAsRuled`. One invariant for the five, with a part for
  what each stage leaves to the next: one demon and the locked evil ones (`EvilPicked`); a
  distribution that is the modifiers' answer and has room for the minions there are
  (`EvilAsked`); as many minions as it says, or all there are (`EvilSettled`); the good
  teams, whose number no exchange changes (`GoodPicked`); the outsiders the whole
  company calls for, as far as there are any (`OutsidersRuled`); and companions come, about
  to come or left to be brought by hand (`CompanyKept`). Any `dist` is a distribution of
  exactly `players` characters (`Counts`).
* What a company changes is a fold over the characters (`DeltaOf`). The proofs use it as the
  sum of the table's few entries; that the two agree is shown of a least set at which they would
  not (`FS_StrictSubsetOrderingWellFounded`), since an induction theorem cannot be cited.
* `RandomizeEnds`: `Spec => [][WorkLeft' \in Nat /\ WorkLeft' < WorkLeft]_vars`: a request goes
  through at most ten stages an attempt, and at most `Attempts` attempts.

`SpotifyTokenProofs` (`BoundAssumption`: a grant comes with a first refresh token):

* `TypeCorrect`: `Spec => []TypeOK`; `RotatedTokenStays`: `Spec => []RotatedTokenKept`;
  `SlotsStay`: `Spec => []SlotsOfThisConnection`; `LiveConnectionStays`: `Spec => LiveConnectionKept`,
  an action property. The invariant: the holder of the mutex is the one request at Spotify
  (`MutexHeld`); its copy is the row's unless the row has another grant by now
  (`CopyCurrent`); a grant not connected yet is known to its request only
  (`LinkingAlone`); a refresh is rejected only where the row is another one or the grant is
  gone for good (`RejectedForGood`).
* `RefreshesAreSerial`: `Spec => []RefreshesTakeTurns`: at most one refresh is under way and
  the mutex is that one's, so no way out leaves it locked. `RequestsAreShort`:
  `Spec => [][ShortenStep]_vars`: a request is over after at most three steps of its own.

`AccountsProofs` (`AgeAssumption`: an anonymous account outlives its tokens before it is stale):

* `TypeCorrect`: `Spec => []TypeOK`; `LoginIsFound`: `Spec => []LoginFindsTheAccount`;
  `NothingStays`: `Spec => []NothingIsLeft`; `DataStays`: `Spec => NobodyLosesData`, an action
  property. The invariant: one account per Discord id (`OneAccountEach`); an anonymous
  account was used when its one token was issued, or since (`TokensInUse`), so that whoever
  the job lists is stale and stays so although the list ages (`JobStale`); what a login has
  read is still so when it writes (`LoginsCurrent`); records of games come and go with them
  (`Owned`).
* `PassesEnd`: `Spec => [][PassStep]_vars`: a pass of the cleanup ends (`PassLeft`: the users left
  and the tables of the one at hand); a user whose deletion was refused is left to the
  next pass.

`AccountsProofs` on `RateLimiter`, for every limit per minute above zero and every
burst that thirty minutes refill (`RateAssumption`; the configured tiers have a burst of a
third or a sixth of a minute's limit, and at least 5 or 10):

* `LimiterTypeCorrect`: `LimiterSpec => []LimiterTypeOK`, and `RefillCounts`:
  `LimiterSpec => []RefilledWhileUnseen`.
  The inductive invariant is the two together: a bucket has at least as many tokens as
  ticks have passed since it was seen, up to the burst, so one that is old enough to be
  thrown out is full (`BurstLemma` bounds the burst by the lifetime).
* `LimiterImplements`: `LimiterSpec => BucketSpec`, the refinement: an eviction replaces a full bucket by
  a missing one, which counts as full, and is a stutter of the kept buckets; every other
  step is the same step there.

## What is only model-checked

* Liveness (`EveryRequestEnds` of the token bag and of Spotify, `Converges`,
  `RevokedIsDropped`, `UntiedStaleUsersGo`): the prover does not do liveness under fairness
  or ENABLED. What the theorems add to it is its safety half, for every instance: requests
  and passes have a bounded number of steps (`RequestsAreShort`, twice; `PassesEnd`), a screen
  is a bounded number of steps behind (`ScreensCatchUp`, `BehindCounts`), and
  where requests of the token bag are in flight one of them can run or the detector has a
  deadlock to break (`WhoDeadlocks`). That the steps are then taken is the fairness.
* `GrimoireBag`, whose run shows a divergence.
* Out of reach altogether: induction with the library's theorems, which take an operator as
  a parameter that no installed backend instantiates. Where a proof needed one, a least
  counterexample does its work (seats in `SeatingProofs`, the fold in `SetupProofs`).

## What is not modelled

* *Generated code.* About 38,000 of the implementation's 45,500 lines (`src/ent`) are
  generated by ent from a few hundred lines of schema: builders, predicates and getters
  for each column. The statements the handlers issue through them are the steps of the
  models; the builders themselves have no behaviour of the program's own, and a model of
  them would restate ent. The map therefore covers a small share of all lines and a
  large one of the hand-written ones, where the decisions are.
* *Columns nothing else reads*: travellers, extra characters, reminders, notes, presets.
  Each is written whole by one handler.
* *Scripts, info cards, players*: one owner's rows, single statements. (A script as what ties
  two accounts together is in `Accounts`.)
* *Night order, checklist, character registry*: pure functions over printed tables. A second
  definition of them would be the same table again.
* *Name normalization, access control, conversion to protobuf, wiring, configuration, logging, presentation*:
  stateless, and no property is about them.
* *Discord's OAuth exchange, Spotify's HTTP, encryption at rest*: external; what comes back
  is an answer, an error or nothing.
* *The join's restart of the stream and the shared device* in the player's client, and the
  storyteller's views.

## Plan

Every component whose steps can go wrong has its model, and every safety property the
passing runs check has its theorem. What is left:

1. The map of a storyteller's rare requests (travellers, reminders, presets), each of which
   writes one column whole, if one of them ever reads another column.
2. Liveness itself, when the prover does it: the measures of the theorems above are what an
   argument by well-founded descent would use.
