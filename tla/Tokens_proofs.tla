---------------------------- MODULE Tokens_proofs ----------------------------
(***************************************************************************)
(* What Tokens guarantees for all users, threads, lifetimes and restarts:  *)
(* its types, that a token that was killed stays dead in the process that  *)
(* killed it, that a rotated pair has no living parent, that a rotated     *)
(* token has its replacement and was used once per thread at most, and how *)
(* long a login's role may be out of date.                                 *)
(***************************************************************************)
EXTENDS Tokens, FiniteSetTheorems, TLAPS

USE TokensAssumption

-----------------------------------------------------------------------------

\* Issuing a pair appends two tokens to those there are and changes none.
LEMMA PairIsAppended ==
    ASSUME NEW u \in User, NEW r \in Role, NEW p \in Nat,
           TypeOK, IssuePair(u, r, p)
    PROVE  /\ tokens' \in Seq(Token)
           /\ Len(tokens') = Len(tokens) + 2
           /\ \A j \in 1..Len(tokens) : tokens'[j] = tokens[j]
           /\ tokens'[Len(tokens) + 1] = NewToken("access", u, r, AccessTTL, p)
           /\ tokens'[Len(tokens) + 2] = NewToken("refresh", u, r, RefreshTTL, p)
           /\ DOMAIN tokens = 1..Len(tokens)
           /\ DOMAIN tokens' = 1..(Len(tokens) + 2)
  <1> DEFINE a == NewToken("access", u, r, AccessTTL, p)
  <1> DEFINE b == NewToken("refresh", u, r, RefreshTTL, p)
  <1>1. a \in Token /\ b \in Token
    BY DEF NewToken, Token, Kind, TypeOK
  <1>2. tokens \in Seq(Token) /\ tokens' = tokens \o <<a, b>>
    BY DEF TypeOK, IssuePair
  <1> HIDE DEF a, b
  <1>3. <<a, b>> \in Seq(Token) /\ Len(<<a, b>>) = 2
    BY <1>1
  <1>4. tokens' \in Seq(Token) /\ Len(tokens') = Len(tokens) + 2
    BY <1>2, <1>3
  <1>5. \A j \in 1..Len(tokens) : tokens'[j] = tokens[j]
    BY <1>2, <1>3
  <1>6. tokens'[Len(tokens) + 1] = a /\ tokens'[Len(tokens) + 2] = b
    BY <1>2, <1>3
  <1>7. DOMAIN tokens = 1..Len(tokens) /\ DOMAIN tokens' = 1..(Len(tokens) + 2)
    BY <1>2, <1>4
  <1> QED
    BY <1>4, <1>5, <1>6, <1>7 DEF a, b

\* A token is a record of the right kind, and its jti a natural number.
LEMMA TokenFields ==
    ASSUME TypeOK, NEW j \in DOMAIN tokens
    PROVE  /\ j \in Nat
           /\ tokens[j].kind \in Kind /\ tokens[j].user \in User
           /\ tokens[j].role \in Role /\ tokens[j].exp \in Nat
           /\ tokens[j].parent \in Nat /\ tokens[j].epoch \in Nat
  <1>1. tokens[j] \in Token /\ j \in 1..Len(tokens)
    BY DEF TypeOK
  <1> QED
    BY <1>1 DEF Token

-----------------------------------------------------------------------------
(* Types *)

\* The blacklist and the threads only ever speak of tokens that were issued.
THEOREM TokensTyping == Spec => []TypeOK
  <1>1. Init => TypeOK
    BY DEF Init, TypeOK, Step
  <1>2. TypeOK /\ [Next]_vars => TypeOK'
    <2> SUFFICES ASSUME TypeOK, [Next]_vars
                 PROVE  TypeOK'
      OBVIOUS
    <2> USE DEF store, database, thread
    <2>1. ASSUME NEW u \in User, Login(u)
          PROVE  TypeOK'
      <3>1. tokens' \in Seq(Token) /\ DOMAIN tokens \subseteq DOMAIN tokens'
        BY <2>1, PairIsAppended DEF Login, TypeOK
      <3> QED
        BY <2>1, <3>1 DEF Login, TypeOK
    <2>2. ASSUME NEW t \in Thread, NEW j \in DOMAIN tokens, RefreshDecode(t, j)
          PROVE  TypeOK'
      BY <2>2 DEF RefreshDecode, TypeOK, Step
    <2>3. ASSUME NEW t \in Thread, NEW j \in DOMAIN tokens, LogoutCheck(t, j)
          PROVE  TypeOK'
      BY <2>3 DEF LogoutCheck, TypeOK, Step
    <2>4. ASSUME NEW t \in Thread, RefreshRevoke(t)
          PROVE  TypeOK'
      BY <2>4 DEF RefreshRevoke, TypeOK, Step
    <2>5. ASSUME NEW t \in Thread, RefreshMint(t)
          PROVE  TypeOK'
      <3>1. held[t] \in DOMAIN tokens /\ held[t] \in Nat
        BY <2>5 DEF RefreshMint, TypeOK
      <3>2. tokens' \in Seq(Token) /\ DOMAIN tokens \subseteq DOMAIN tokens'
        BY <2>5, <3>1, PairIsAppended, TokenFields DEF RefreshMint
      <3> QED
        BY <2>5, <3>2 DEF RefreshMint, TypeOK, Step
    <2>6. ASSUME NEW t \in Thread, LogoutRevoke(t)
          PROVE  TypeOK'
      BY <2>6 DEF LogoutRevoke, TypeOK, Step
    <2>7. CASE PurgeExpired
      BY <2>7 DEF PurgeExpired, TypeOK
    <2>8. ASSUME NEW u \in User, NEW r \in Role, ChangeRole(u, r)
          PROVE  TypeOK'
      BY <2>8 DEF ChangeRole, TypeOK
    <2>9. CASE Restart
      BY <2>9 DEF Restart, TypeOK, Step
    <2>10. CASE Tick
      BY <2>10 DEF Tick, TypeOK
    <2>11. CASE UNCHANGED vars
      BY <2>11 DEF vars, TypeOK
    <2> QED
      BY <2>1, <2>2, <2>3, <2>4, <2>5, <2>6, <2>7, <2>8, <2>9, <2>10, <2>11
      DEF Next, Serve
  <1> QED
    BY <1>1, <1>2, PTL DEF Spec

-----------------------------------------------------------------------------
(* Dead tokens and rotation *)

\* A dead token is on the blacklist, or has left it because it had expired.
Buried == \A j \in dead : j \in revoked \/ tokens[j].exp <= now

\* A thread that rotates holds a refresh token, and mints only after it is dead.
MintsFromDead ==
    \A t \in Thread :
        /\ pc[t] \in {"rotate", "mint"} => tokens[held[t]].kind = "refresh"
        /\ pc[t] = "mint" => held[t] \in dead

\* A child's parent came before it, is a refresh token, and is dead in the
\* process that minted the child.
ParentsDead ==
    \A j \in DOMAIN tokens :
        /\ tokens[j].epoch <= epoch
        /\ tokens[j].parent # 0 =>
              /\ tokens[j].parent \in DOMAIN tokens
              /\ tokens[j].parent < j
              /\ tokens[tokens[j].parent].kind = "refresh"
              /\ tokens[j].epoch = epoch => tokens[j].parent \in dead

IInv == Buried /\ MintsFromDead /\ ParentsDead

LEMMA IssueKeepsIInv ==
    ASSUME TypeOK, IInv, NEW u \in User, NEW r \in Role, NEW p \in Nat,
           IssuePair(u, r, p), UNCHANGED <<now, epoch, revoked, dead>>,
           p # 0 => p \in DOMAIN tokens /\ tokens[p].kind = "refresh" /\ p \in dead,
           \A t \in Thread : pc'[t] # "idle" => pc'[t] = pc[t] /\ held'[t] = held[t]
    PROVE  IInv'
  <1>1. /\ tokens' \in Seq(Token)
        /\ DOMAIN tokens = 1..Len(tokens) /\ Len(tokens) \in Nat
        /\ DOMAIN tokens' = 1..(Len(tokens) + 2)
        /\ \A j \in DOMAIN tokens : tokens'[j] = tokens[j]
        /\ tokens'[Len(tokens) + 1] = NewToken("access", u, r, AccessTTL, p)
        /\ tokens'[Len(tokens) + 2] = NewToken("refresh", u, r, RefreshTTL, p)
    <2>1. Len(tokens) \in Nat
      BY DEF TypeOK
    <2> QED
      BY <2>1, PairIsAppended
  <1>2. Buried'
    BY <1>1 DEF IInv, Buried, TypeOK
  <1>3. MintsFromDead'
    <2> SUFFICES ASSUME NEW t \in Thread
                 PROVE  /\ pc'[t] \in {"rotate", "mint"} => tokens'[held'[t]].kind = "refresh"
                        /\ pc'[t] = "mint" => held'[t] \in dead'
      BY DEF MintsFromDead
    <2>1. CASE pc'[t] = "idle"
      BY <2>1
    <2>2. CASE pc'[t] # "idle"
      <3>1. held[t] \in DOMAIN tokens
        BY <2>2 DEF TypeOK
      <3> QED
        BY <1>1, <2>2, <3>1 DEF IInv, MintsFromDead
    <2> QED
      BY <2>1, <2>2
  <1>4. ParentsDead'
    <2> SUFFICES ASSUME NEW j \in DOMAIN tokens'
                 PROVE  /\ tokens'[j].epoch <= epoch'
                        /\ tokens'[j].parent # 0 =>
                              /\ tokens'[j].parent \in DOMAIN tokens'
                              /\ tokens'[j].parent < j
                              /\ tokens'[tokens'[j].parent].kind = "refresh"
                              /\ tokens'[j].epoch = epoch' => tokens'[j].parent \in dead'
      BY DEF ParentsDead
    <2>1. CASE j \in DOMAIN tokens
      BY <1>1, <2>1 DEF IInv, ParentsDead
    <2>2. CASE j \notin DOMAIN tokens
      <3>1. j > Len(tokens) /\ (j = Len(tokens) + 1 \/ j = Len(tokens) + 2)
        BY <1>1, <2>2
      <3>2. tokens'[j].parent = p /\ tokens'[j].epoch = epoch
        BY <1>1, <3>1 DEF NewToken
      <3>3. p # 0 => p <= Len(tokens) /\ tokens'[p] = tokens[p]
        BY <1>1
      <3> QED
        BY <1>1, <3>1, <3>2, <3>3 DEF TypeOK
    <2> QED
      BY <2>1, <2>2
  <1> QED
    BY <1>2, <1>3, <1>4 DEF IInv

LEMMA TokensInvariance == Spec => []IInv
  <1>1. Init => IInv
    BY DEF Init, IInv, Buried, MintsFromDead, ParentsDead
  <1>2. TypeOK /\ IInv /\ [Next]_vars => IInv'
    <2> SUFFICES ASSUME TypeOK, IInv, [Next]_vars
                 PROVE  IInv'
      OBVIOUS
    <2> USE DEF store, database, thread
    <2>1. ASSUME NEW u \in User, Login(u)
          PROVE  IInv'
      <3>1. role[u] \in Role
        BY DEF TypeOK
      <3> QED
        BY <2>1, <3>1, IssueKeepsIInv DEF Login
    <2>2. ASSUME NEW t \in Thread, NEW j \in DOMAIN tokens, RefreshDecode(t, j)
          PROVE  IInv'
      BY <2>2 DEF RefreshDecode, Accepts, TypeOK, IInv, Buried, MintsFromDead, ParentsDead
    <2>3. ASSUME NEW t \in Thread, NEW j \in DOMAIN tokens, LogoutCheck(t, j)
          PROVE  IInv'
      BY <2>3 DEF LogoutCheck, TypeOK, IInv, Buried, MintsFromDead, ParentsDead
    <2>4. ASSUME NEW t \in Thread, RefreshRevoke(t)
          PROVE  IInv'
      BY <2>4 DEF RefreshRevoke, TypeOK, IInv, Buried, MintsFromDead, ParentsDead
    <2>5. ASSUME NEW t \in Thread, RefreshMint(t)
          PROVE  IInv'
      <3> DEFINE p == held[t]
      <3>1. p \in DOMAIN tokens /\ p \in Nat /\ p \in dead /\ tokens[p].kind = "refresh"
        BY <2>5 DEF RefreshMint, TypeOK, IInv, MintsFromDead
      <3>2. tokens[p].user \in User /\ tokens[p].role \in Role
        BY <3>1, TokenFields
      <3>3. \A s \in Thread : pc'[s] # "idle" => pc'[s] = pc[s] /\ held'[s] = held[s]
        BY <2>5 DEF RefreshMint, TypeOK
      <3>4. IssuePair(tokens[p].user, tokens[p].role, p) /\ UNCHANGED <<now, epoch, revoked, dead>>
        BY <2>5 DEF RefreshMint
      <3> QED
        BY <3>1, <3>2, <3>3, <3>4, IssueKeepsIInv
    <2>6. ASSUME NEW t \in Thread, LogoutRevoke(t)
          PROVE  IInv'
      <3>1. held[t] \in DOMAIN tokens /\ tokens[held[t]].exp \in Nat /\ now \in Nat
        BY <2>6, TokenFields DEF LogoutRevoke, TypeOK
      <3>2. Buried'
        BY <2>6, <3>1 DEF LogoutRevoke, Unexpired, IInv, Buried
      <3>3. MintsFromDead'
        BY <2>6 DEF LogoutRevoke, TypeOK, IInv, MintsFromDead
      <3>4. ParentsDead'
        BY <2>6 DEF LogoutRevoke, IInv, ParentsDead
      <3> QED
        BY <3>2, <3>3, <3>4 DEF IInv
    <2>7. CASE PurgeExpired
      <3>1. Buried'
        BY <2>7, TokenFields DEF PurgeExpired, TypeOK, IInv, Buried
      <3>2. MintsFromDead' /\ ParentsDead'
        BY <2>7 DEF PurgeExpired, IInv, MintsFromDead, ParentsDead
      <3> QED
        BY <3>1, <3>2 DEF IInv
    <2>8. ASSUME NEW u \in User, NEW r \in Role, ChangeRole(u, r)
          PROVE  IInv'
      BY <2>8 DEF ChangeRole, IInv, Buried, MintsFromDead, ParentsDead
    <2>9. CASE Restart
      <3>1. Buried' /\ MintsFromDead'
        BY <2>9 DEF Restart, Buried, MintsFromDead
      <3>2. ParentsDead'
        BY <2>9, TokenFields DEF Restart, TypeOK, IInv, ParentsDead
      <3> QED
        BY <3>1, <3>2 DEF IInv
    <2>10. CASE Tick
      <3>1. Buried'
        BY <2>10, TokenFields DEF Tick, TypeOK, IInv, Buried
      <3> QED
        BY <2>10, <3>1 DEF Tick, IInv, MintsFromDead, ParentsDead
    <2>11. CASE UNCHANGED vars
      BY <2>11 DEF vars, IInv, Buried, MintsFromDead, ParentsDead
    <2> QED
      BY <2>1, <2>2, <2>3, <2>4, <2>5, <2>6, <2>7, <2>8, <2>9, <2>10, <2>11
      DEF Next, Serve
  <1> QED
    BY <1>1, <1>2, TokensTyping, PTL DEF Spec

\* A token rotated by /auth/refresh or logged out by /auth/logout is never
\* accepted again by the process that killed it, purged blacklist or not.
THEOREM TokensDeadStaysDead == Spec => []DeadStaysDead
  <1>1. TypeOK /\ IInv => DeadStaysDead
    <2> SUFFICES ASSUME TypeOK, IInv, NEW j \in dead, NEW kind \in Kind
                 PROVE  ~Accepts(j, kind)
      BY DEF DeadStaysDead
    <2>1. j \in DOMAIN tokens /\ tokens[j].exp \in Nat /\ now \in Nat
      BY TokenFields DEF TypeOK
    <2> QED
      BY <2>1 DEF IInv, Buried, Accepts, Unexpired
  <1> QED
    BY <1>1, TokensTyping, TokensInvariance, PTL

\* A pair minted from a refresh token never coexists, in one process, with a
\* parent that still works (refresh_access_token).
THEOREM TokensRotationKillsParent == Spec => []RotationKillsParent
  <1>1. TypeOK /\ IInv => RotationKillsParent
    <2> SUFFICES ASSUME TypeOK, IInv, NEW j \in DOMAIN tokens, tokens[j].parent # 0
                 PROVE  LET p == tokens[j].parent
                        IN  /\ p < j
                            /\ tokens[p].kind = "refresh"
                            /\ tokens[j].epoch = epoch => ~Accepts(p, "refresh")
      BY DEF RotationKillsParent
    <2> DEFINE p == tokens[j].parent
    <2>1. /\ p \in DOMAIN tokens /\ p < j /\ tokens[p].kind = "refresh"
          /\ tokens[j].epoch = epoch => p \in dead
      BY DEF IInv, ParentsDead
    <2>2. tokens[p].exp \in Nat /\ now \in Nat
      BY <2>1, TokenFields DEF TypeOK
    <2>3. p \in dead => ~Accepts(p, "refresh")
      BY <2>2 DEF IInv, Buried, Accepts, Unexpired
    <2> QED
      BY <2>1, <2>3
  <1> QED
    BY <1>1, TokensTyping, TokensInvariance, PTL

-----------------------------------------------------------------------------
(* Roles *)

\* An access token of a login was made AccessTTL before it expires; if its role
\* is not its user's any more, the role changed after that.
RolesDated ==
    \A j \in DOMAIN tokens :
        tokens[j].parent = 0 /\ tokens[j].kind = "access" =>
            /\ tokens[j].exp <= now + AccessTTL
            /\ tokens[j].role # role[tokens[j].user] =>
                  tokens[j].exp <= roleSince[tokens[j].user] + AccessTTL

\* Tokens that a pair is added to keep their dates, if the pair has its own.
LEMMA IssueKeepsDates ==
    ASSUME TypeOK, RolesDated, NEW u \in User, NEW r \in Role, NEW p \in Nat,
           IssuePair(u, r, p), UNCHANGED <<now, role, roleSince>>, p = 0 => r = role[u]
    PROVE  RolesDated'
  <1>0. now \in Nat /\ Len(tokens) \in Nat
    BY DEF TypeOK
  <1>1. /\ DOMAIN tokens = 1..Len(tokens)
        /\ DOMAIN tokens' = 1..(Len(tokens) + 2)
        /\ \A j \in DOMAIN tokens : tokens'[j] = tokens[j]
        /\ tokens'[Len(tokens) + 1] = NewToken("access", u, r, AccessTTL, p)
        /\ tokens'[Len(tokens) + 2] = NewToken("refresh", u, r, RefreshTTL, p)
    BY PairIsAppended
  <1> SUFFICES ASSUME NEW j \in DOMAIN tokens',
                      tokens'[j].parent = 0, tokens'[j].kind = "access"
               PROVE  /\ tokens'[j].exp <= now + AccessTTL
                      /\ tokens'[j].role # role[tokens'[j].user] =>
                            tokens'[j].exp <= roleSince[tokens'[j].user] + AccessTTL
    BY DEF RolesDated
  <1>2. CASE j \in DOMAIN tokens
    BY <1>1, <1>2 DEF RolesDated
  <1>3. CASE j = Len(tokens) + 1
    BY <1>0, <1>1, <1>3 DEF NewToken
  <1>4. CASE j = Len(tokens) + 2
    BY <1>1, <1>4 DEF NewToken
  <1> QED
    BY <1>0, <1>1, <1>2, <1>3, <1>4

\* An access token that a login issued is accepted with a role its user no longer
\* has for less than AccessTTL (create_token_pair, decode_token).
THEOREM TokensLoginRoleAges == Spec => []LoginRoleAges
  <1>1. Init => RolesDated
    BY DEF Init, RolesDated
  <1>2. TypeOK /\ IInv /\ RolesDated /\ [Next]_vars => RolesDated'
    <2> SUFFICES ASSUME TypeOK, IInv, RolesDated, [Next]_vars
                 PROVE  RolesDated'
      OBVIOUS
    <2> USE DEF store, database, thread
    <2>1. ASSUME NEW u \in User, Login(u)
          PROVE  RolesDated'
      <3>1. role[u] \in Role
        BY DEF TypeOK
      <3> QED
        BY <2>1, <3>1, IssueKeepsDates DEF Login
    <2>2. ASSUME NEW t \in Thread, RefreshMint(t)
          PROVE  RolesDated'
      <3> DEFINE p == held[t]
      <3>1. p \in DOMAIN tokens /\ p \in Nat /\ p # 0
        BY <2>2 DEF RefreshMint, TypeOK
      <3>2. tokens[p].user \in User /\ tokens[p].role \in Role
        BY <3>1, TokenFields
      <3>3. IssuePair(tokens[p].user, tokens[p].role, p) /\ UNCHANGED <<now, role, roleSince>>
        BY <2>2 DEF RefreshMint
      <3> QED
        BY <3>1, <3>2, <3>3, IssueKeepsDates
    <2>3. ASSUME NEW u \in User, NEW r \in Role, ChangeRole(u, r)
          PROVE  RolesDated'
      <3> SUFFICES ASSUME NEW j \in DOMAIN tokens,
                          tokens[j].parent = 0, tokens[j].kind = "access"
                   PROVE  /\ tokens[j].exp <= now + AccessTTL
                          /\ tokens[j].role # role'[tokens[j].user] =>
                                tokens[j].exp <= roleSince'[tokens[j].user] + AccessTTL
        BY <2>3 DEF ChangeRole, RolesDated
      <3>1. tokens[j].user \in User /\ role \in [User -> Role] /\ roleSince \in [User -> Nat]
        BY TokenFields DEF TypeOK
      <3>2. tokens[j].exp <= now + AccessTTL
        BY DEF RolesDated
      <3>3. CASE tokens[j].user = u
        BY <2>3, <3>1, <3>2, <3>3 DEF ChangeRole
      <3>4. CASE tokens[j].user # u
        BY <2>3, <3>1, <3>2, <3>4 DEF ChangeRole, RolesDated
      <3> QED
        BY <3>3, <3>4
    <2>4. CASE Tick
      <3>1. /\ now \in Nat /\ now' = now + 1
            /\ UNCHANGED <<tokens, role, roleSince>>
        BY <2>4 DEF Tick, TypeOK
      <3>2. \A j \in DOMAIN tokens : tokens[j].exp \in Nat
        BY TokenFields
      <3>3. \A j \in DOMAIN tokens :
                tokens[j].exp <= now + AccessTTL => tokens[j].exp <= now' + AccessTTL
        BY <3>1, <3>2
      <3> QED
        BY <3>1, <3>3 DEF RolesDated
    <2>5. ASSUME NEW t \in Thread, NEW j \in DOMAIN tokens,
                 RefreshDecode(t, j) \/ LogoutCheck(t, j)
          PROVE  RolesDated'
      BY <2>5 DEF RefreshDecode, LogoutCheck, RolesDated
    <2>6. ASSUME NEW t \in Thread, RefreshRevoke(t) \/ LogoutRevoke(t)
          PROVE  RolesDated'
      BY <2>6 DEF RefreshRevoke, LogoutRevoke, RolesDated
    <2>7. CASE PurgeExpired \/ Restart \/ UNCHANGED vars
      BY <2>7 DEF PurgeExpired, Restart, vars, RolesDated
    <2> QED
      BY <2>1, <2>2, <2>3, <2>4, <2>5, <2>6, <2>7 DEF Next, Serve
  <1>3. TypeOK /\ RolesDated => LoginRoleAges
    <2> SUFFICES ASSUME TypeOK, RolesDated, NEW j \in DOMAIN tokens,
                        tokens[j].parent = 0, Stale(j)
                 PROVE  now < roleSince[tokens[j].user] + AccessTTL
      BY DEF LoginRoleAges
    <2>1. /\ tokens[j].user \in User /\ tokens[j].exp \in Nat /\ now \in Nat
          /\ roleSince[tokens[j].user] \in Nat
      BY TokenFields DEF TypeOK
    <2> QED
      BY <2>1 DEF RolesDated, Stale, Accepts, Unexpired
  <1> QED
    BY <1>1, <1>2, <1>3, TokensTyping, TokensInvariance, PTL DEF Spec

-----------------------------------------------------------------------------
(* Replacements *)

\* Logouts hold access tokens only.
LogoutsHoldAccess ==
    \A t \in Thread : pc[t] = "logout" => tokens[held[t]].kind = "access"

\* Children stay where they are when a pair is added, which may be a child too.
LEMMA IssueAddsChild ==
    ASSUME TypeOK, NEW u \in User, NEW r \in Role, NEW p \in Nat,
           IssuePair(u, r, p), UNCHANGED epoch, NEW j, NEW e
    PROVE  Children(j, e)' =
             IF j = p /\ e = epoch THEN Children(j, e) \cup {Len(tokens) + 2} ELSE Children(j, e)
  <1>1. /\ Len(tokens) \in Nat
        /\ DOMAIN tokens = 1..Len(tokens)
        /\ DOMAIN tokens' = 1..(Len(tokens) + 2)
        /\ \A k \in DOMAIN tokens : tokens'[k] = tokens[k]
        /\ tokens'[Len(tokens) + 1] = NewToken("access", u, r, AccessTTL, p)
        /\ tokens'[Len(tokens) + 2] = NewToken("refresh", u, r, RefreshTTL, p)
    <2>1. Len(tokens) \in Nat
      BY DEF TypeOK
    <2> QED
      BY <2>1, PairIsAppended
  <1>2. DOMAIN tokens' = DOMAIN tokens \cup {Len(tokens) + 1, Len(tokens) + 2}
    BY <1>1
  <1>3. /\ tokens'[Len(tokens) + 1].kind # "refresh"
        /\ tokens'[Len(tokens) + 2].kind = "refresh"
        /\ tokens'[Len(tokens) + 2].parent = p /\ tokens'[Len(tokens) + 2].epoch = epoch
    BY <1>1 DEF NewToken
  <1>4. \A c \in DOMAIN tokens : c # Len(tokens) + 1 /\ c # Len(tokens) + 2
    BY <1>1
  <1> QED
    BY <1>1, <1>2, <1>3, <1>4 DEF Children

\* A rotated refresh token has its replacement or a thread is about to issue it,
\* unless the process died in between (refresh_access_token).
THEOREM TokensRotationReplaces == Spec => []RotationReplaces
  <1> DEFINE Inv == LogoutsHoldAccess /\ RotationReplaces
  <1>1. Init => Inv
    BY DEF Init, LogoutsHoldAccess, RotationReplaces
  <1>2. TypeOK /\ Inv /\ [Next]_vars => Inv'
    <2> SUFFICES ASSUME TypeOK, Inv, [Next]_vars
                 PROVE  Inv'
      OBVIOUS
    <2> USE DEF store, database, thread
    <2>1. ASSUME NEW u \in User, Login(u)
          PROVE  Inv'
      <3>1. role[u] \in Role /\ IssuePair(u, role[u], 0) /\ UNCHANGED <<epoch, dead, pc, held>>
        BY <2>1 DEF Login, TypeOK
      <3>2. \A j \in DOMAIN tokens : tokens'[j] = tokens[j]
        BY <3>1, PairIsAppended
      <3>3. \A j : Children(j, epoch) \subseteq Children(j, epoch)'
        BY <3>1, IssueAddsChild
      <3>4. LogoutsHoldAccess'
        BY <3>1, <3>2 DEF LogoutsHoldAccess, TypeOK
      <3>5. RotationReplaces'
        BY <3>1, <3>2, <3>3 DEF RotationReplaces, TypeOK
      <3> QED
        BY <3>4, <3>5
    <2>2. ASSUME NEW t \in Thread, RefreshMint(t)
          PROVE  Inv'
      <3>0. PICK p \in DOMAIN tokens : p = held[t]
        BY <2>2 DEF RefreshMint, TypeOK
      <3>1. p \in Nat /\ tokens[p].user \in User /\ tokens[p].role \in Role
        BY TokenFields
      <3>2. /\ IssuePair(tokens[p].user, tokens[p].role, p) /\ UNCHANGED <<epoch, dead>>
            /\ pc' = [pc EXCEPT ![t] = "idle"] /\ held' = [held EXCEPT ![t] = 0]
        BY <2>2, <3>0 DEF RefreshMint
      <3>3. \A j \in DOMAIN tokens : tokens'[j] = tokens[j]
        BY <3>1, <3>2, PairIsAppended
      <3>4. /\ \A j : Children(j, epoch) \subseteq Children(j, epoch)'
            /\ Children(p, epoch)' # {}
        <4> DEFINE u == tokens[p].user
                   r == tokens[p].role
        <4>1. u \in User /\ r \in Role /\ p \in Nat /\ IssuePair(u, r, p) /\ UNCHANGED epoch
          BY <3>1, <3>2
        <4> HIDE DEF u, r
        <4>2. ASSUME NEW j
              PROVE  Children(j, epoch)' =
                        IF j = p THEN Children(j, epoch) \cup {Len(tokens) + 2} ELSE Children(j, epoch)
          BY <4>1, IssueAddsChild
        <4> QED
          BY <4>2
      <3>5. LogoutsHoldAccess'
        BY <3>2, <3>3 DEF LogoutsHoldAccess, TypeOK
      <3>6. ASSUME NEW j \in dead', tokens'[j].kind = "refresh"
            PROVE  \/ Children(j, epoch)' # {}
                   \/ \E s \in Thread : pc'[s] = "mint" /\ held'[s] = j
        <4>1. CASE j = p
          BY <3>4, <4>1
        <4>2. CASE j # p
          <5>1. j \in dead /\ tokens[j].kind = "refresh"
            BY <3>2, <3>3, <3>6 DEF TypeOK
          <5> QED
            BY <3>0, <3>2, <3>4, <4>2, <5>1 DEF RotationReplaces, TypeOK
        <4> QED
          BY <4>1, <4>2
      <3>7. RotationReplaces'
        BY <3>2, <3>6 DEF RotationReplaces
      <3> QED
        BY <3>5, <3>7
    <2>3. ASSUME NEW t \in Thread, RefreshRevoke(t)
          PROVE  Inv'
      BY <2>3 DEF RefreshRevoke, TypeOK, LogoutsHoldAccess, RotationReplaces, Children
    <2>4. ASSUME NEW t \in Thread, LogoutRevoke(t)
          PROVE  Inv'
      <3>1. LogoutsHoldAccess'
        BY <2>4 DEF LogoutRevoke, TypeOK, LogoutsHoldAccess
      <3>2. tokens[held[t]].kind = "access"
        BY <2>4 DEF LogoutRevoke, LogoutsHoldAccess
      <3>3. \A j : Children(j, epoch)' = Children(j, epoch)
        BY <2>4 DEF LogoutRevoke, Children
      <3>4. \A s \in Thread : pc[s] = "mint" => s # t /\ pc'[s] = "mint" /\ held'[s] = held[s]
        BY <2>4 DEF LogoutRevoke, TypeOK
      <3>5. ASSUME NEW j \in dead', tokens'[j].kind = "refresh"
            PROVE  \/ Children(j, epoch)' # {}
                   \/ \E s \in Thread : pc'[s] = "mint" /\ held'[s] = j
        <4>1. j \in dead /\ tokens[j].kind = "refresh"
          BY <2>4, <3>2, <3>5 DEF LogoutRevoke
        <4>2. \/ Children(j, epoch) # {}
              \/ \E s \in Thread : pc[s] = "mint" /\ held[s] = j
          BY <4>1 DEF RotationReplaces
        <4> QED
          BY <3>3, <3>4, <4>2
      <3> QED
        BY <3>1, <3>5 DEF RotationReplaces
    <2>5. ASSUME NEW t \in Thread, NEW j \in DOMAIN tokens, RefreshDecode(t, j)
          PROVE  Inv'
      BY <2>5 DEF RefreshDecode, TypeOK, LogoutsHoldAccess, RotationReplaces, Children
    <2>6. ASSUME NEW t \in Thread, NEW j \in DOMAIN tokens, LogoutCheck(t, j)
          PROVE  Inv'
      BY <2>6 DEF LogoutCheck, Accepts, TypeOK, LogoutsHoldAccess, RotationReplaces, Children
    <2>7. CASE Restart
      BY <2>7 DEF Restart, LogoutsHoldAccess, RotationReplaces
    <2>8. ASSUME NEW u \in User, NEW r \in Role, ChangeRole(u, r)
          PROVE  Inv'
      BY <2>8 DEF ChangeRole, LogoutsHoldAccess, RotationReplaces, Children
    <2>9. CASE PurgeExpired \/ Tick \/ UNCHANGED vars
      BY <2>9 DEF PurgeExpired, Tick, vars, LogoutsHoldAccess, RotationReplaces, Children
    <2> QED
      BY <2>1, <2>2, <2>3, <2>4, <2>5, <2>6, <2>7, <2>8, <2>9 DEF Next, Serve
  <1> QED
    BY <1>1, <1>2, TokensTyping, PTL DEF Spec

-----------------------------------------------------------------------------
(* Uses *)

\* The threads that have decoded token j and not yet minted from it.
Users(j) == {t \in Thread : pc[t] \in {"rotate", "mint"} /\ held[t] = j}

\* With its children in the running process, they are no more than the threads.
UsesInv ==
    \A j \in Nat \ {0} :
        /\ \A e \in Nat : Cardinality(Children(j, e)) <= Cardinality(Thread)
        /\ Cardinality(Children(j, epoch)) + Cardinality(Users(j)) <= Cardinality(Thread)

\* Both sets are finite.
LEMMA UsesCount ==
    ASSUME TypeOK, NEW j, NEW e
    PROVE  /\ IsFiniteSet(Children(j, e)) /\ Cardinality(Children(j, e)) \in Nat
           /\ IsFiniteSet(Users(j)) /\ Cardinality(Users(j)) \in Nat
           /\ Cardinality(Users(j)) <= Cardinality(Thread)
           /\ Cardinality(Thread) \in Nat
  <1>1. Len(tokens) \in Nat /\ DOMAIN tokens = 1..Len(tokens)
    BY DEF TypeOK
  <1>2. IsFiniteSet(DOMAIN tokens)
    BY <1>1, FS_Interval
  <1>3. Children(j, e) \in SUBSET DOMAIN tokens /\ Users(j) \in SUBSET Thread
    BY DEF Children, Users
  <1>4. IsFiniteSet(Children(j, e)) /\ IsFiniteSet(Users(j)) /\ IsFiniteSet(Thread)
    BY <1>2, <1>3, FS_Subset
  <1> QED
    BY <1>3, <1>4, FS_Subset, FS_CardinalityType

\* A step that issues nothing and neither starts nor ends a rotation.
LEMMA SameUses ==
    ASSUME UsesInv, UNCHANGED <<tokens, epoch>>, \A j : Users(j)' = Users(j)
    PROVE  UsesInv'
  <1>1. \A j, e : Children(j, e)' = Children(j, e)
    BY DEF Children
  <1> QED
    BY <1>1 DEF UsesInv

\* A token that is accepted has no children in the running process.
LEMMA AcceptedIsUnused ==
    ASSUME TypeOK, IInv, NEW j \in DOMAIN tokens, Accepts(j, "refresh")
    PROVE  Children(j, epoch) = {}
  <1> SUFFICES ASSUME NEW c \in Children(j, epoch)
               PROVE  FALSE
    OBVIOUS
  <1>1. c \in DOMAIN tokens /\ tokens[c].parent = j /\ tokens[c].epoch = epoch /\ j # 0
    BY DEF Children, TypeOK
  <1>2. j \in dead
    BY <1>1 DEF IInv, ParentsDead
  <1>3. tokens[j].exp \in Nat /\ now \in Nat
    BY TokenFields DEF TypeOK
  <1> QED
    BY <1>2, <1>3 DEF IInv, Buried, Accepts, Unexpired

\* One process exchanges a refresh token at most once for each of its threads:
\* for those that had decoded it before the first of them revoked it.
THEOREM TokensUsesPerThread == Spec => []UsesPerThread
  <1>1. Init => UsesInv
    <2> SUFFICES ASSUME Init
                 PROVE  UsesInv
      OBVIOUS
    <2>1. \A j, e : Children(j, e) = {} /\ Users(j) = {}
      BY DEF Init, Children, Users
    <2>2. Cardinality(Thread) \in Nat
      BY FS_CardinalityType
    <2> QED
      BY <2>1, <2>2, FS_EmptySet DEF UsesInv
  <1>2. TypeOK /\ IInv /\ UsesInv /\ [Next]_vars => UsesInv'
    <2> SUFFICES ASSUME TypeOK, IInv, UsesInv, [Next]_vars
                 PROVE  UsesInv'
      OBVIOUS
    <2> USE DEF store, database, thread
    <2>0. epoch \in Nat /\ Len(tokens) \in Nat /\ DOMAIN tokens = 1..Len(tokens)
      BY DEF TypeOK
    <2>1. ASSUME NEW u \in User, Login(u)
          PROVE  UsesInv'
      <3>1. role[u] \in Role /\ IssuePair(u, role[u], 0) /\ UNCHANGED <<epoch, pc, held>>
        BY <2>1 DEF Login, TypeOK
      <3>2. ASSUME NEW j \in Nat \ {0}
            PROVE  \A e : Children(j, e)' = Children(j, e)
        BY <3>1, IssueAddsChild
      <3>3. \A j : Users(j)' = Users(j)
        BY <3>1 DEF Users
      <3> QED
        BY <3>1, <3>2, <3>3 DEF UsesInv
    <2>2. ASSUME NEW t \in Thread, RefreshMint(t)
          PROVE  UsesInv'
      <3>0. PICK p \in DOMAIN tokens : p = held[t]
        BY <2>2 DEF RefreshMint, TypeOK
      <3> DEFINE u == tokens[p].user
                 r == tokens[p].role
      <3>1. /\ u \in User /\ r \in Role /\ p \in Nat \ {0} /\ IssuePair(u, r, p) /\ UNCHANGED epoch
            /\ pc[t] = "mint" /\ pc' = [pc EXCEPT ![t] = "idle"]
            /\ held' = [held EXCEPT ![t] = 0]
        BY <2>0, <2>2, <3>0, TokenFields DEF RefreshMint
      <3> HIDE DEF u, r
      <3>2. ASSUME NEW j, NEW e
            PROVE  Children(j, e)' =
                     IF j = p /\ e = epoch THEN Children(j, e) \cup {Len(tokens) + 2} ELSE Children(j, e)
        BY <3>1, IssueAddsChild
      <3>3. Users(p)' = Users(p) \ {t} /\ t \in Users(p)
        BY <3>0, <3>1 DEF Users, TypeOK
      <3>4. \A j : j # p /\ j # 0 => Users(j)' = Users(j)
        BY <3>0, <3>1 DEF Users, TypeOK
      <3>5. \A e : Len(tokens) + 2 \notin Children(p, e)
        BY <2>0 DEF Children
      <3>6. ASSUME NEW j \in Nat \ {0}
            PROVE  /\ \A e \in Nat : Cardinality(Children(j, e)') <= Cardinality(Thread)
                   /\ Cardinality(Children(j, epoch)') + Cardinality(Users(j)') <= Cardinality(Thread)
        <4>1. CASE j = p
          <5> DEFINE S == Children(p, epoch)
                     m == Len(tokens) + 2
          <5>1. Children(p, epoch)' = S \cup {m}
            <6>1. PICK e : e = epoch
              OBVIOUS
            <6>2. Children(p, e)' = Children(p, e) \cup {m}
              BY <3>2, <6>1
            <6>3. Children(p, epoch)' = Children(p, e)'
              BY <3>1, <6>1 DEF Children
            <6> QED
              BY <6>1, <6>2, <6>3
          <5>2. IsFiniteSet(S) /\ m \notin S
            BY <3>5, UsesCount
          <5> HIDE DEF S, m
          <5>3. Cardinality(Children(p, epoch)') = Cardinality(S) + 1
            BY <5>1, <5>2, FS_AddElement
          <5>4. Cardinality(Users(p)') = Cardinality(Users(p)) - 1
            BY <3>3, UsesCount, FS_RemoveElement
          <5>5. Cardinality(S) \in Nat /\ Cardinality(Users(p)) \in Nat /\ Cardinality(Thread) \in Nat
            BY UsesCount DEF S
          <5>6. Cardinality(S) + Cardinality(Users(p)) <= Cardinality(Thread)
            BY <3>1 DEF UsesInv, S
          <5>7. Cardinality(Users(p)) # 0
            BY <3>3, UsesCount, FS_EmptySet
          <5>8. Cardinality(Children(p, epoch)') <= Cardinality(Thread)
            BY <5>3, <5>5, <5>6, <5>7
          <5>9. Cardinality(Children(p, epoch)') + Cardinality(Users(p)') <= Cardinality(Thread)
            BY <5>3, <5>4, <5>5, <5>6
          <5>10. ASSUME NEW e \in Nat
                 PROVE  Cardinality(Children(p, e)') <= Cardinality(Thread)
            <6>1. CASE e = epoch
              <7>1. Children(p, e)' = Children(p, epoch)'
                BY <3>1, <6>1 DEF Children
              <7> QED
                BY <5>8, <7>1
            <6>2. CASE e # epoch
              <7>1. Children(p, e)' = Children(p, e)
                BY <3>2, <6>2
              <7> QED
                BY <3>1, <7>1 DEF UsesInv
            <6> QED
              BY <6>1, <6>2
          <5> QED
            BY <4>1, <5>9, <5>10
        <4>2. CASE j # p
          <5>1. \A e : Children(j, e)' = Children(j, e)
            BY <3>2, <4>2
          <5>2. Children(j, epoch)' = Children(j, epoch)
            <6>1. PICK e : e = epoch
              OBVIOUS
            <6>2. Children(j, epoch)' = Children(j, e)'
              BY <3>1, <6>1 DEF Children
            <6> QED
              BY <5>1, <6>1, <6>2
          <5>3. Users(j)' = Users(j)
            BY <3>4, <4>2
          <5> QED
            BY <5>1, <5>2, <5>3 DEF UsesInv
        <4> QED
          BY <4>1, <4>2
      <3> QED
        BY <3>1, <3>6 DEF UsesInv
    <2>3. ASSUME NEW t \in Thread, NEW k \in DOMAIN tokens, RefreshDecode(t, k)
          PROVE  UsesInv'
      <3>1. \A j, e : Children(j, e)' = Children(j, e)
        BY <2>3 DEF RefreshDecode, Children
      <3>2. \A j : j # k => Users(j)' = Users(j)
        BY <2>3 DEF RefreshDecode, Users, TypeOK
      <3>3. Children(k, epoch) = {}
        BY <2>3, AcceptedIsUnused DEF RefreshDecode
      <3>4. Users(k)' \in SUBSET Thread
        BY DEF Users
      <3>5. Cardinality(Users(k)') \in Nat /\ Cardinality(Users(k)') <= Cardinality(Thread)
        BY <3>4, FS_Subset, FS_CardinalityType
      <3>6. Cardinality(Children(k, epoch)) = 0
        BY <3>3, FS_EmptySet
      <3>7. epoch' = epoch
        BY <2>3 DEF RefreshDecode
      <3> QED
        BY <3>1, <3>2, <3>5, <3>6, <3>7 DEF UsesInv
    <2>4. ASSUME NEW t \in Thread, RefreshRevoke(t)
          PROVE  UsesInv'
      BY <2>4, SameUses DEF RefreshRevoke, Users, TypeOK
    <2>5. ASSUME NEW t \in Thread, LogoutRevoke(t)
          PROVE  UsesInv'
      BY <2>5, SameUses DEF LogoutRevoke, Users, TypeOK
    <2>6. ASSUME NEW t \in Thread, NEW j \in DOMAIN tokens, LogoutCheck(t, j)
          PROVE  UsesInv'
      BY <2>6, SameUses DEF LogoutCheck, Users, TypeOK
    <2>7. CASE Restart
      <3>1. \A j, e : Children(j, e)' = Children(j, e)
        BY <2>7 DEF Restart, Children
      <3>2. \A j : Users(j)' = {}
        BY <2>7 DEF Restart, Users
      <3>3. \A j : Children(j, epoch + 1) = {}
        <4>1. \A c \in DOMAIN tokens : tokens[c].epoch \in Nat /\ tokens[c].epoch <= epoch
          BY TokenFields DEF IInv, ParentsDead
        <4> QED
          BY <2>0, <4>1 DEF Children
      <3>4. epoch' = epoch + 1 /\ Cardinality({}) = 0 /\ Cardinality(Thread) \in Nat
        BY <2>7, FS_EmptySet, FS_CardinalityType DEF Restart
      <3> QED
        BY <3>1, <3>2, <3>3, <3>4 DEF UsesInv
    <2>8. ASSUME NEW u \in User, NEW r \in Role, ChangeRole(u, r)
          PROVE  UsesInv'
      BY <2>8, SameUses DEF ChangeRole, Users
    <2>9. CASE PurgeExpired \/ Tick \/ UNCHANGED vars
      BY <2>9, SameUses DEF PurgeExpired, Tick, vars, Users
    <2> QED
      BY <2>1, <2>2, <2>3, <2>4, <2>5, <2>6, <2>7, <2>8, <2>9 DEF Next, Serve
  <1>3. TypeOK /\ UsesInv => UsesPerThread
    BY DEF UsesPerThread, UsesInv, TypeOK
  <1> QED
    BY <1>1, <1>2, <1>3, TokensTyping, TokensInvariance, PTL DEF Spec

=============================================================================
