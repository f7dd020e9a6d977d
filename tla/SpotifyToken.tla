---------------------------- MODULE SpotifyToken ----------------------------
(***************************************************************************)
(* The Spotify connection of ONE user.  Spotify may rotate the refresh     *)
(* token whenever it is used, after which only the new one is good, so     *)
(* refreshes are serialized by a mutex per user.  Connecting,              *)
(* disconnecting and choosing playlists take no mutex: they meet a refresh *)
(* only in the statements on the user's row.                               *)
(*                                                                         *)
(* A request is at the mutex ("wait"), at Spotify ("refresh", "connect"),  *)
(* or has Spotify's answer ("answered", "rejected", "linked") or a copy of *)
(* the row ("slots"), and has yet to write.  What expires is abstracted to *)
(* the three classes the code tells apart: fresh (over 55 minutes left),   *)
(* cached (over 5), stale.                                                 *)
(***************************************************************************)
EXTENDS Naturals, FiniteSets

CONSTANTS Req,          \* slots for requests in flight (goroutines)
          NoReq,        \* the mutex is free
          MaxGrants,    \* bound on the authorizations a user gives
          MaxRotations  \* bound on the refresh tokens of a grant

ASSUME NullAssumption == NoReq \notin Req
\* A grant comes with a first refresh token.
ASSUME BoundAssumption == MaxGrants \in Nat /\ MaxRotations \in Nat \ {0}

VARIABLES conn,     \* the user's row of spotify_connections
          mutex,    \* who holds the user's refresh lock
          req,      \* where each request stands and what it has read
          grants,   \* at Spotify: the authorizations given so far
          latest,   \* at Spotify: the refresh token each one accepts
          revoked,  \* at Spotify: the grants the user has withdrawn
          lost      \* history: grants whose rotated token the wire, the database or a
                    \* restart has swallowed

vars == <<conn, mutex, req, grants, latest, revoked, lost>>
spotify == <<grants, latest, revoked>>

Grant == 1..MaxGrants
Age == {"fresh", "cached", "stale"}

\* A row is known by its grant: every connect inserts a row for a new one.
\* slots is the row that the request which stored the playlists had read, 0 if none
\* are chosen.
NoConn == [grant |-> 0, refresh |-> 0, age |-> "stale", slots |-> 0]
Connected == conn # NoConn

\* What a request goes on using of the row it has read.
NoCopy == [grant |-> 0, refresh |-> 0]
Copy == [grant |-> conn.grant, refresh |-> conn.refresh]

Idle == [at |-> "idle", force |-> FALSE, row |-> NoCopy, token |-> 0]

Init ==
    /\ conn = NoConn /\ mutex = NoReq
    /\ req = [p \in Req |-> Idle]
    /\ grants = 0 /\ latest = [g \in Grant |-> 0] /\ revoked = {} /\ lost = {}

\* Spotify takes a refresh token of a grant.
Good(g, token) == g \notin revoked /\ latest[g] = token

End(p) ==
    /\ req' = [req EXCEPT ![p] = Idle]
    /\ mutex' = IF mutex = p THEN NoReq ELSE mutex

-----------------------------------------------------------------------------
(***************************************************************************)
(* GetSpotifyAccessToken.                                                  *)
(***************************************************************************)

\* Mutant: whoever had the mutex before is trusted to have refreshed the token.
UsableEager(row, force) == force \/ row.age # "stale"

\* A stored access token will do: fresh if it was rejected (force), else any
\* that is not about to expire.
Usable(row, force) == row.age = "fresh" \/ (~force /\ row.age = "cached")

\* A request that the cached token does not satisfy goes for the mutex.
BeginToken(p, force) ==
    /\ req[p].at = "idle" /\ Connected
    /\ force \/ conn.age = "stale"
    /\ req' = [req EXCEPT ![p] = [Idle EXCEPT !.at = "wait", !.force = force]]
    /\ UNCHANGED <<conn, mutex, lost, spotify>>

\* Mutant: an answer from the reloaded row leaves the mutex locked.
AcquireLeaking(p) ==
    /\ req[p].at = "wait" /\ mutex = NoReq
    /\ mutex' = p
    /\ req' = [req EXCEPT ![p] =
                 IF ~Connected \/ Usable(conn, req[p].force) THEN Idle
                 ELSE [@ EXCEPT !.at = "refresh", !.row = Copy]]
    /\ UNCHANGED <<conn, lost, spotify>>

\* With the mutex the row is loaded again: whoever held it may have done the work.
Acquire(p) ==
    /\ req[p].at = "wait" /\ mutex = NoReq
    /\ IF ~Connected \/ Usable(conn, req[p].force)
       THEN End(p)
       ELSE /\ mutex' = p
            /\ req' = [req EXCEPT ![p].at = "refresh", ![p].row = Copy]
    /\ UNCHANGED <<conn, lost, spotify>>

\* Spotify applies the refresh, and rotates the token or does not (0).
SpotifyRefreshes(p) ==
    LET g == req[p].row.grant
    IN  /\ req[p].at = "refresh" /\ Good(g, req[p].row.refresh)
        /\ \/ /\ latest[g] < MaxRotations
              /\ latest' = [latest EXCEPT ![g] = @ + 1]
              /\ req' = [req EXCEPT ![p].at = "answered", ![p].token = latest[g] + 1]
           \/ /\ req' = [req EXCEPT ![p].at = "answered"]
              /\ UNCHANGED latest
        /\ UNCHANGED <<conn, mutex, grants, revoked, lost>>

SpotifyRejects(p) ==
    /\ req[p].at = "refresh" /\ ~Good(req[p].row.grant, req[p].row.refresh)
    /\ req' = [req EXCEPT ![p].at = "rejected"]
    /\ UNCHANGED <<conn, mutex, lost, spotify>>

\* The call ends without an answer: an error of Spotify's, the caller goes away
\* or the client's ten seconds are over.
CallFails(p) ==
    /\ req[p].at = "refresh"
    /\ End(p)
    /\ UNCHANGED <<conn, lost, spotify>>

\* As above, but Spotify has rotated the token.
AnswerLost(p) ==
    LET g == req[p].row.grant
    IN  /\ req[p].at = "refresh" /\ Good(g, req[p].row.refresh)
        /\ latest[g] < MaxRotations
        /\ latest' = [latest EXCEPT ![g] = @ + 1]
        /\ lost' = lost \cup {g}
        /\ End(p)
        /\ UNCHANGED <<conn, grants, revoked>>

\* The row with Spotify's answer.
Refreshed(row, token) ==
    [row EXCEPT !.age = "fresh", !.refresh = IF token = 0 THEN @ ELSE token]

\* Mutant: the update is cancelled when the caller goes away.
PersistCancellable(p) ==
    /\ req[p].at = "answered"
    /\ \/ UNCHANGED conn
       \/ conn.grant = req[p].row.grant /\ conn' = Refreshed(conn, req[p].token)
    /\ End(p)
    /\ UNCHANGED <<lost, spotify>>

\* The answer is stored under the id of the row that was loaded, whether or not
\* the caller is still there; a row that was replaced meanwhile is not found.
Persist(p) ==
    /\ req[p].at = "answered"
    /\ conn' = IF conn.grant = req[p].row.grant THEN Refreshed(conn, req[p].token)
               ELSE conn
    /\ End(p)
    /\ UNCHANGED <<lost, spotify>>

\* The database fails the update: a caller who leaves does not (WithoutCancel).
PersistFails(p) ==
    /\ req[p].at = "answered"
    /\ lost' = IF req[p].token = 0 THEN lost ELSE lost \cup {req[p].row.grant}
    /\ End(p)
    /\ UNCHANGED <<conn, spotify>>

\* Mutant: whatever connection the user has by now is dropped.
DropsAny(p) == Connected

\* The delete is scoped to the refresh token that failed.
Drops(p) == conn.grant = req[p].row.grant /\ conn.refresh = req[p].row.refresh

DropRejected(p) ==
    /\ req[p].at = "rejected"
    /\ conn' = IF Drops(p) THEN NoConn ELSE conn
    /\ End(p)
    /\ UNCHANGED <<lost, spotify>>

DropFails(p) ==
    /\ req[p].at = "rejected"
    /\ End(p)
    /\ UNCHANGED <<conn, lost, spotify>>

-----------------------------------------------------------------------------
(***************************************************************************)
(* Connecting, disconnecting, playlists.                                   *)
(***************************************************************************)

\* ConnectSpotify exchanges the code for a new grant ...
BeginConnect(p) ==
    /\ req[p].at = "idle" /\ grants < MaxGrants
    /\ grants' = grants + 1
    /\ latest' = [latest EXCEPT ![grants + 1] = 1]
    /\ req' = [req EXCEPT ![p] = [Idle EXCEPT !.at = "connect", !.token = grants + 1]]
    /\ UNCHANGED <<conn, mutex, revoked, lost>>

\* ... and deletes the user's row, if there is one, ...
ConnectDelete(p) ==
    /\ req[p].at = "connect"
    /\ req' = [req EXCEPT ![p].at = "linked", ![p].row = Copy]
    /\ UNCHANGED <<conn, mutex, lost, spotify>>

\* Mutant: an exchange that brings no refresh token is accepted.
LinkedUnchecked(g) == [grant |-> g, refresh |-> 0, age |-> "fresh", slots |-> 0]

Linked(g) == [grant |-> g, refresh |-> 1, age |-> "fresh", slots |-> 0]

\* ... for one with the new grant.  A row that another connect has inserted
\* since makes the insert fail.
ConnectCommit(p) ==
    /\ req[p].at = "linked"
    /\ ~Connected \/ conn.grant = req[p].row.grant
    /\ conn' = Linked(req[p].token)
    /\ End(p)
    /\ UNCHANGED <<lost, spotify>>

Disconnect ==
    /\ Connected
    /\ conn' = NoConn
    /\ UNCHANGED <<mutex, req, lost, spotify>>

\* UpdateSpotifyPlaylists.  The request does not name the account whose playlists
\* it holds: they go to the connection that is there when it is handled.
BeginPlaylists(p) ==
    /\ req[p].at = "idle" /\ Connected
    /\ req' = [req EXCEPT ![p] = [Idle EXCEPT !.at = "slots", !.row = Copy]]
    /\ UNCHANGED <<conn, mutex, lost, spotify>>

\* Mutant: the playlists are stored with whatever row the user has.
SlotsRowAny(p) == Connected

\* The update names the row that was read.
SlotsRow(p) == Connected /\ conn.grant = req[p].row.grant

PlaylistsWrite(p) ==
    /\ req[p].at = "slots"
    /\ conn' = IF SlotsRow(p) THEN [conn EXCEPT !.slots = req[p].row.grant] ELSE conn
    /\ End(p)
    /\ UNCHANGED <<lost, spotify>>

\* A request ends without a write.  (Waiting for a Go mutex cannot be cancelled.)
Abort(p) ==
    /\ req[p].at \in {"connect", "linked", "slots"}
    /\ End(p)
    /\ UNCHANGED <<conn, lost, spotify>>

-----------------------------------------------------------------------------
(***************************************************************************)
(* The world.                                                              *)
(***************************************************************************)

\* Time passes: the access token expires.
AgeToken ==
    /\ Connected /\ conn.age # "stale"
    /\ conn' = [conn EXCEPT !.age = IF @ = "fresh" THEN "cached" ELSE "stale"]
    /\ UNCHANGED <<mutex, req, lost, spotify>>

\* The user withdraws an authorization in their Spotify account.
Revoke(g) ==
    /\ g <= grants /\ g \notin revoked
    /\ revoked' = revoked \cup {g}
    /\ UNCHANGED <<conn, mutex, req, grants, latest, lost>>

\* The server is restarted; mutexes and requests are gone, and so are answers
\* that had not been stored.
Restart ==
    /\ \E p \in Req : req[p].at # "idle"
    /\ lost' = lost \cup {req[p].row.grant :
                            p \in {q \in Req : req[q].at = "answered" /\ req[q].token # 0}}
    /\ req' = [p \in Req |-> Idle] /\ mutex' = NoReq
    /\ UNCHANGED <<conn, spotify>>

Handler(p) ==
    \/ \E force \in BOOLEAN : BeginToken(p, force)
    \/ BeginConnect(p) \/ BeginPlaylists(p)

Answer(p) == SpotifyRefreshes(p) \/ SpotifyRejects(p) \/ CallFails(p) \/ AnswerLost(p)

Finish(p) ==
    \/ Persist(p) \/ PersistFails(p) \/ DropRejected(p) \/ DropFails(p)
    \/ ConnectDelete(p) \/ ConnectCommit(p) \/ PlaylistsWrite(p) \/ Abort(p)

World == Disconnect \/ AgeToken \/ Restart \/ \E g \in Grant : Revoke(g)

Next == (\E p \in Req : Handler(p) \/ Acquire(p) \/ Answer(p) \/ Finish(p)) \/ World

Spec == Init /\ [][Next]_vars

\* Spotify answers or the client's timeout ends the call; statements end; and
\* Go's mutex lets nobody starve.
Fairness ==
    \A p \in Req : WF_vars(Answer(p)) /\ WF_vars(Finish(p)) /\ SF_vars(Acquire(p))

FairSpec == Spec /\ Fairness

-----------------------------------------------------------------------------
Point == {"idle", "wait", "refresh", "answered", "rejected", "connect", "linked", "slots"}
Row == {NoConn} \cup [grant : Grant, refresh : 1..MaxRotations, age : Age, slots : 0..MaxGrants]
RowCopy == {NoCopy} \cup [grant : Grant, refresh : 1..MaxRotations]
Request == [at : Point, force : BOOLEAN, row : RowCopy, token : Nat]

\* p has a grant that no row has yet.
Linking(p) == req[p].at \in {"connect", "linked"}

\* p is between getting the mutex and giving it back.
Holding(p) == req[p].at \in {"refresh", "answered", "rejected"}

\* Type invariant.
TypeOK ==
    /\ conn \in Row /\ mutex \in Req \cup {NoReq}
    /\ req \in [Req -> Request]
    /\ \A p \in Req :
          /\ req[p].token \in IF Linking(p) THEN Grant ELSE 0..MaxRotations
          /\ Holding(p) => req[p].row # NoCopy
    /\ grants \in 0..MaxGrants /\ latest \in [Grant -> 0..MaxRotations]
    /\ revoked \subseteq Grant /\ lost \subseteq Grant

\* "Two concurrent refreshes would race and one of them could persist a token
\* that has already been invalidated": unless an answer of Spotify's was lost,
\* the stored refresh token is the one Spotify accepts, or the holder of the
\* mutex is about to store that one.
RotatedTokenKept ==
    Connected /\ conn.grant \notin lost =>
        \/ conn.refresh = latest[conn.grant]
        \/ \E p \in Req : /\ req[p].at = "answered" /\ req[p].row.grant = conn.grant
                          /\ req[p].token = latest[conn.grant]

\* "Scoping the delete to the refresh token that just failed keeps it from wiping
\* a connection a concurrent re-connect has already replaced": a connection is
\* dropped behind the user's back only if they have withdrawn it at Spotify, or
\* an answer of Spotify's was lost; neither a reconnect nor another refresh is
\* undone.
LiveConnectionKept ==
    [][(\E p \in Req : DropRejected(p)) /\ conn' # conn
          => conn.grant \in revoked \cup lost]_vars

\* The playlists stored with a connection came by a request that had found this
\* very connection: one that is handled while the user reconnects, or disconnects,
\* neither overwrites the new connection's nor brings back the old one.  (Whose
\* playlists the client had on its screen when it sent the request is not said.)
SlotsOfThisConnection == conn.slots \in {0, conn.grant}

\* Every request ends: a hung call to Spotify does not block the user's later
\* requests for ever, and every way out frees the mutex.
EveryRequestEnds == \A p \in Req : (req[p].at # "idle") ~> (req[p].at = "idle")

\* "This is also how a revoked grant is discovered": a client that goes on asking
\* for another token, over working calls and statements, gets a revoked
\* connection dropped, although a forced request is answered with a token that
\* is still fresh.
KeepsAsking ==
    /\ WF_vars(AgeToken) /\ SF_vars(\E p \in Req : BeginToken(p, TRUE))
    /\ \A p \in Req : SF_vars(SpotifyRejects(p)) /\ SF_vars(DropRejected(p))

RevokedIsDropped ==
    KeepsAsking => \A g \in Grant : (conn.grant = g /\ g \in revoked) ~> (conn.grant # g)
=============================================================================
