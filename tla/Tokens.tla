------------------------------- MODULE Tokens -------------------------------
(***************************************************************************)
(* The life of the signed tokens of app/auth/jwt_manager.py: issued in     *)
(* pairs by a login, rotated by /auth/refresh, revoked by /auth/logout,    *)
(* accepted or refused by decode_token, until they expire.  The blacklist  *)
(* lives in the memory of the process and dies with it; the tokens live    *)
(* with the clients and the signing key on disk, so they survive a         *)
(* restart.  Handlers run on threads: the calls of two requests interleave *)
(* between decode, revoke and create.  Time is in whole seconds, the       *)
(* resolution of the exp claim.                                            *)
(***************************************************************************)
EXTENDS Integers, Sequences, FiniteSets

CONSTANTS
    User, Role,
    Thread,       \* worker threads that run the handlers
    AccessTTL,    \* ACCESS_TOKEN_TTL_MINUTES
    RefreshTTL,   \* REFRESH_TOKEN_TTL_DAYS
    MaxPairs,     \* bound on the token pairs ever issued
    MaxLogins,    \* bound on the pairs among them that a login issues
    MaxNow,       \* bound on the clock
    MaxRestarts   \* bound on the restarts of the process

ASSUME TokensAssumption ==
    /\ IsFiniteSet(Thread)
    /\ AccessTTL \in Nat \ {0}
    /\ RefreshTTL \in Nat \ {0}
    /\ MaxPairs \in Nat /\ MaxLogins \in Nat /\ MaxNow \in Nat /\ MaxRestarts \in Nat

VARIABLES
    now,         \* datetime.now(timezone.utc)
    epoch,       \* how often the process was restarted
    tokens,      \* all tokens ever issued; a token's place is its jti
    revoked,     \* TokenBlacklist._revoked; the expiry kept there is the token's
    role,        \* users.role in the database
    roleSince,   \* history: when the role last changed
    pc, held,    \* each thread's next call, and the token its request presented
    dead         \* history: the tokens rotated or logged out since the start

store == <<tokens, revoked>>
database == <<role, roleSince>>
thread == <<pc, held>>
vars == <<now, epoch, store, database, thread, dead>>

Kind == {"access", "refresh"}
Step == {"idle", "rotate", "mint", "logout"}

Token == [kind : Kind, user : User, role : Role, exp : Nat, parent : Nat, epoch : Nat]

Init ==
    /\ now = 0
    /\ epoch = 0
    /\ tokens = <<>>
    /\ revoked = {}
    /\ role \in [User -> Role]
    /\ roleSince = [u \in User |-> 0]
    /\ pc = [t \in Thread |-> "idle"]
    /\ held = [t \in Thread |-> 0]
    /\ dead = {}

-----------------------------------------------------------------------------

\* _create_token, with the refresh token it is minted from (0 for a login).
NewToken(kind, u, r, ttl, parent) ==
    [kind |-> kind, user |-> u, role |-> r, exp |-> now + ttl,
     parent |-> parent, epoch |-> epoch]

\* A bug: the two lifetimes are swapped.
BugSwapTTLs(u, r, parent) ==
    tokens' = tokens \o << NewToken("access", u, r, RefreshTTL, parent),
                           NewToken("refresh", u, r, AccessTTL, parent) >>

\* create_token_pair
IssuePair(u, r, parent) ==
    tokens' = tokens \o << NewToken("access", u, r, AccessTTL, parent),
                           NewToken("refresh", u, r, RefreshTTL, parent) >>

\* jwt.decode: signature and expiry.
Unexpired(j) == j \in DOMAIN tokens /\ tokens[j].exp > now

\* Two bugs: the blacklist is not asked, the type is not compared.
BugIgnoreBlacklist(j, kind) == Unexpired(j) /\ tokens[j].kind = kind
BugIgnoreType(j, kind) == Unexpired(j) /\ j \notin revoked

\* decode_token: expiry, then the blacklist, then the type.
Accepts(j, kind) ==
    /\ Unexpired(j)
    /\ j \notin revoked
    /\ tokens[j].kind = kind

\* There is room for another pair beside those that are being minted.
PairsLeft ==
    Len(tokens) + 2 * Cardinality({t \in Thread : pc[t] \in {"rotate", "mint"}})
        < 2 * MaxPairs

-----------------------------------------------------------------------------

\* The end of a successful login: the role is read from the user's row.
Login(u) ==
    /\ PairsLeft
    /\ Cardinality({j \in DOMAIN tokens : tokens[j].parent = 0}) < 2 * MaxLogins
    /\ IssuePair(u, role[u], 0)
    /\ UNCHANGED <<now, epoch, revoked, database, thread, dead>>

\* refresh_access_token decodes the token it was given; a token that is not
\* accepted is answered with 401 and changes nothing.
RefreshDecode(t, j) ==
    /\ pc[t] = "idle"
    /\ PairsLeft
    /\ Accepts(j, "refresh")
    /\ pc' = [pc EXCEPT ![t] = "rotate"]
    /\ held' = [held EXCEPT ![t] = j]
    /\ UNCHANGED <<now, epoch, store, database, dead>>

\* ... blacklists it ...
RefreshRevoke(t) ==
    /\ pc[t] = "rotate"
    /\ revoked' = revoked \cup {held[t]}
    /\ dead' = dead \cup {held[t]}
    /\ pc' = [pc EXCEPT ![t] = "mint"]
    /\ UNCHANGED <<now, epoch, tokens, database, held>>

\* A bug: the token is decoded again before the pair is issued, when it is
\* already blacklisted.
BugDecodeAgain(t) ==
    /\ pc[t] = "mint"
    /\ Accepts(held[t], "refresh")
        => IssuePair(tokens[held[t]].user, tokens[held[t]].role, held[t])
    /\ ~Accepts(held[t], "refresh") => UNCHANGED tokens
    /\ pc' = [pc EXCEPT ![t] = "idle"]
    /\ held' = [held EXCEPT ![t] = 0]
    /\ UNCHANGED <<now, epoch, revoked, database, dead>>

\* ... and issues a pair for the user and the role the token names.
RefreshMint(t) ==
    /\ pc[t] = "mint"
    /\ IssuePair(tokens[held[t]].user, tokens[held[t]].role, held[t])
    /\ pc' = [pc EXCEPT ![t] = "idle"]
    /\ held' = [held EXCEPT ![t] = 0]
    /\ UNCHANGED <<now, epoch, revoked, database, dead>>

\* /auth/logout: get_current_user accepts the access token.
LogoutCheck(t, j) ==
    /\ pc[t] = "idle"
    /\ Accepts(j, "access")
    /\ pc' = [pc EXCEPT ![t] = "logout"]
    /\ held' = [held EXCEPT ![t] = j]
    /\ UNCHANGED <<now, epoch, store, database, dead>>

\* revoke_token decodes it once more: if it has expired by now, there is
\* nothing to revoke.  Either way the client is told that it is logged out.
LogoutRevoke(t) ==
    /\ pc[t] = "logout"
    /\ revoked' = IF Unexpired(held[t]) THEN revoked \cup {held[t]} ELSE revoked
    /\ dead' = dead \cup {held[t]}
    /\ pc' = [pc EXCEPT ![t] = "idle"]
    /\ held' = [held EXCEPT ![t] = 0]
    /\ UNCHANGED <<now, epoch, tokens, database>>

\* A bug: the comparison is the wrong way round.
BugPurgeUnexpired ==
    /\ revoked' = {j \in revoked : tokens[j].exp < now}
    /\ UNCHANGED <<now, epoch, tokens, database, thread, dead>>

\* TokenBlacklist.purge_expired, for whoever keeps a blacklist to call: nothing in
\* the repository does.
PurgeExpired ==
    /\ revoked' = {j \in revoked : ~(tokens[j].exp < now)}
    /\ UNCHANGED <<now, epoch, tokens, database, thread, dead>>

\* An operator changes a role in the database; no endpoint does.
ChangeRole(u, r) ==
    /\ r # role[u]
    /\ role' = [role EXCEPT ![u] = r]
    /\ roleSince' = [roleSince EXCEPT ![u] = now]
    /\ UNCHANGED <<now, epoch, store, thread, dead>>

\* The process dies, with its requests and its blacklist, and starts again.
Restart ==
    /\ epoch < MaxRestarts
    /\ epoch' = epoch + 1
    /\ revoked' = {}
    /\ dead' = {}
    /\ pc' = [t \in Thread |-> "idle"]
    /\ held' = [t \in Thread |-> 0]
    /\ UNCHANGED <<now, tokens, database>>

Tick ==
    /\ now < MaxNow
    /\ now' = now + 1
    /\ UNCHANGED <<epoch, store, database, thread, dead>>

Serve(t) == RefreshRevoke(t) \/ RefreshMint(t) \/ LogoutRevoke(t)

Next ==
    \/ \E u \in User : Login(u)
    \/ \E t \in Thread : \E j \in DOMAIN tokens : RefreshDecode(t, j)
    \/ \E t \in Thread : \E j \in DOMAIN tokens : LogoutCheck(t, j)
    \/ \E t \in Thread : Serve(t)
    \/ PurgeExpired
    \/ \E u \in User, r \in Role : ChangeRole(u, r)
    \/ Restart
    \/ Tick

Spec == Init /\ [][Next]_vars

-----------------------------------------------------------------------------

TypeOK ==
    /\ now \in Nat
    /\ epoch \in Nat
    /\ tokens \in Seq(Token)
    /\ revoked \subseteq DOMAIN tokens
    /\ role \in [User -> Role]
    /\ roleSince \in [User -> Nat]
    /\ pc \in [Thread -> Step]
    /\ held \in [Thread -> Nat]
    /\ \A t \in Thread : pc[t] # "idle" => held[t] \in DOMAIN tokens
    /\ dead \subseteq DOMAIN tokens

(* "this token can't be used again even though it hasn't naturally expired *)
(* yet" (logout), and the same for a rotated refresh token: once the call  *)
(* that killed a token has returned, the process that did it accepts the   *)
(* token in no role again, whether or not the blacklist was purged, and    *)
(* also when the token expired between the two decodes of a logout.        *)
DeadStaysDead ==
    \A j \in dead : \A kind \in Kind : ~Accepts(j, kind)

(* Nobody holds a pair minted from a refresh token that still works: a     *)
(* pair's parent is a refresh token, and the process that minted the pair  *)
(* no longer accepts it.                                                   *)
RotationKillsParent ==
    \A j \in DOMAIN tokens :
        LET p == tokens[j].parent
        IN  p # 0 => /\ p < j
                     /\ tokens[p].kind = "refresh"
                     /\ tokens[j].epoch = epoch => ~Accepts(p, "refresh")

Children(j, e) ==
    {c \in DOMAIN tokens :
        tokens[c].parent = j /\ tokens[c].kind = "refresh" /\ tokens[c].epoch = e}

(* What decode, revoke and create as three calls leave of single use: one  *)
(* process exchanges a refresh token at most once for each of its threads, *)
(* the requests that had decoded it before the first of them revoked it.   *)
UsesPerThread ==
    \A j \in DOMAIN tokens :
        \A e \in 0..epoch : Cardinality(Children(j, e)) <= Cardinality(Thread)

(* "If a refresh token is ever stolen, rotation limits it to a SINGLE use  *)
(* before it's dead" (refresh_access_token).                               *)
SingleUse ==
    \A j \in DOMAIN tokens : Cardinality(Children(j, epoch)) <= 1

\* An access token that is accepted and does not name its user's role.
Stale(j) ==
    Accepts(j, "access") /\ tokens[j].role # role[tokens[j].user]

(* An access token that a login issued outlives a change of the role of    *)
(* its user by at most AccessTTL.                                          *)
LoginRoleAges ==
    \A j \in DOMAIN tokens :
        tokens[j].parent = 0 /\ Stale(j) =>
            now < roleSince[tokens[j].user] + AccessTTL

(* "A promoted user's existing token keeps behaving as if they're still a  *)
(* regular user until it naturally expires (at most 15 minutes) or they    *)
(* log in again" (docs/3 Api-security.md): no token older than AccessTTL   *)
(* should still show a role that the user no longer has.                   *)
RoleAges ==
    \A j \in DOMAIN tokens :
        Stale(j) => now < roleSince[tokens[j].user] + AccessTTL

(* A refresh never costs its owner the session: a refresh token that was   *)
(* rotated away has its replacement, or a thread is about to issue it.     *)
(* Only a process that dies between the two calls leaves neither.          *)
RotationReplaces ==
    \A j \in dead :
        tokens[j].kind = "refresh" =>
            \/ Children(j, epoch) # {}
            \/ \E t \in Thread : pc[t] = "mint" /\ held[t] = j

=============================================================================
