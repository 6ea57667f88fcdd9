--------------------------- MODULE RefreshTokens ---------------------------
(***************************************************************************)
(* The refresh-token store of the Miya server and the three GraphQL        *)
(* mutations that use it (signInWithGoogle, refreshSession, signOut), at   *)
(* the grain of SQL statements.                                            *)
(*                                                                         *)
(* Every request runs one transaction on its own session: it reads the     *)
(* last committed rows (READ COMMITTED), its writes are seen by others     *)
(* only after its COMMIT, and an UPDATE waits for the row locks of other   *)
(* open transactions.  An await separates any two statements, so requests  *)
(* interleave there.  A reply is a separate step: the connection may die   *)
(* after the commit.                                                       *)
(***************************************************************************)
EXTENDS Naturals, FiniteSets

CONSTANTS
    Users,      \* Google accounts (users.google_sub)
    Tokens,     \* raw refresh tokens; each is also its row (hash is injective)
    Requests,   \* requests the server works on at the same time
    NoUser,     \* no user row
    NoToken     \* SQL NULL, and a raw token that has no row

ASSUME NoValues == NoUser \notin Users /\ NoToken \notin Tokens

VARIABLES
    users,       \* committed rows of table users
    owner,       \* refresh_tokens.user_id; NoUser while the row does not exist
    revoked,     \* rows whose revoked_at is not NULL
    replacedBy,  \* refresh_tokens.replaced_by_id
    expired,     \* rows whose expires_at has passed
    req,         \* what each request in progress has read and is about to do
    known        \* raw tokens some client has received in a reply

\* History, read by no action: which redemption issued a token, and the families
\* a client was told are dead.
VARIABLES parent, condemned

rows    == <<users, owner, revoked, replacedBy>>
history == <<parent, condemned>>
vars    == <<users, owner, revoked, replacedBy, expired, req, known,
             parent, condemned>>

-----------------------------------------------------------------------------
\* Rows as a statement sees them

Issued == {t \in Tokens : owner[t] # NoUser}
Family(u) == {t \in Issued : owner[t] = u}
Live == Issued \ revoked

\* The stages of a request, named for the statement it runs next.
SignInCommits == {"commit_sign_in", "commit_profile"}
SignInStages  == {"create_user", "update_user"} \cup SignInCommits
RefreshStages == {"rotate", "commit_refresh"}
ChainStages   == {"revoke_chain", "lock_chain", "commit_chain"}
SignOutStages == {"sign_out", "commit_sign_out"}
ReplyStages   == {"payload", "auth_error", "database_error", "signed_out"}
Stages == {"idle"} \cup SignInStages \cup RefreshStages \cup ChainStages
            \cup SignOutStages \cup ReplyStages

Request == [pc : Stages, user : Users \cup {NoUser}, tok : Tokens \cup {NoToken},
            new : Tokens \cup {NoToken}, targets : SUBSET Tokens,
            locked : SUBSET Tokens]

NoRequest == [pc |-> "idle", user |-> NoUser, tok |-> NoToken,
              new |-> NoToken, targets |-> {}, locked |-> {}]

\* secrets.token_urlsafe: a value no row has and no open request has drawn.
Fresh == {t \in Tokens \ Issued : \A r \in Requests : req[r].new # t}

\* The open transaction of r has updated row t and not committed.
HoldsRow(r, t) ==
    \/ req[r].pc = "commit_refresh" /\ req[r].tok = t
    \/ req[r].pc = "commit_sign_out" /\ req[r].tok = t /\ t \in Live
    \/ req[r].pc \in {"lock_chain", "commit_chain"} /\ t \in req[r].locked

Locked(r, t) == \E s \in Requests \ {r} : HoldsRow(s, t)

\* The rows of its snapshot that the chain UPDATE of r has still to update:
\* revoked_at IS NULL is evaluated again on a row it had to wait for.
ToRevoke(r) == (req[r].targets \cap Live) \ req[r].locked

\* The chain UPDATE of r cannot end before s does.
WaitsFor(r, s) ==
    /\ r # s /\ req[r].pc = "lock_chain"
    /\ \E t \in ToRevoke(r) : HoldsRow(s, t)

\* The open transaction of r has inserted, or updated, the users row of u and
\* not committed.
InsertsUser(r, u) ==
    req[r].pc = "commit_sign_in" /\ req[r].user = u /\ u \notin users
UpdatesUser(r, u) == req[r].pc = "commit_profile" /\ req[r].user = u

TypeOK ==
    /\ users \subseteq Users
    /\ owner \in [Tokens -> Users \cup {NoUser}]
    /\ revoked \subseteq Tokens
    /\ replacedBy \in [Tokens -> Tokens \cup {NoToken}]
    /\ expired \subseteq Tokens
    /\ req \in [Requests -> Request]
    /\ known \subseteq Tokens
    /\ parent \in [Tokens -> Tokens \cup {NoToken}]
    /\ condemned \subseteq Tokens

Init ==
    /\ users = {}
    /\ owner = [t \in Tokens |-> NoUser]
    /\ revoked = {}
    /\ replacedBy = [t \in Tokens |-> NoToken]
    /\ expired = {}
    /\ req = [r \in Requests |-> NoRequest]
    /\ known = {}
    /\ parent = [t \in Tokens |-> NoToken]
    /\ condemned = {}

-----------------------------------------------------------------------------
\* signInWithGoogle

\* Google rejects the code, or the id_token fails verification: AuthError
\* before the database is touched.
SignInRefused(r) ==
    /\ req[r].pc = "idle"
    /\ req' = [req EXCEPT ![r] = [NoRequest EXCEPT !.pc = "auth_error"]]
    /\ UNCHANGED <<rows, expired, known, history>>

\* SELECT ... WHERE google_sub = u.  An existing user gets the profile of the
\* id_token, and the flush sends an UPDATE only when that differs.
SignInLookup(r, u, n, stage) ==
    /\ req[r].pc = "idle"
    /\ n \in Fresh
    /\ stage \in IF u \in users THEN {"update_user", "commit_sign_in"} ELSE {"create_user"}
    /\ req' = [req EXCEPT ![r] =
                 [NoRequest EXCEPT !.pc = stage, !.user = u, !.new = n]]
    /\ UNCHANGED <<rows, expired, known, history>>

\* Mutant of InsertUser: it starts again when the row exists by then.
InsertUserRetries(r) ==
    /\ req[r].pc = "create_user"
    /\ \A s \in Requests \ {r} : ~InsertsUser(s, req[r].user)
    /\ req[r].user \notin users
    /\ req' = [req EXCEPT ![r].pc = "commit_sign_in"]
    /\ UNCHANGED <<rows, expired, known, history>>

\* INSERT INTO users.  The unique index makes it wait for another open insert
\* of the same google_sub, and fail once that one has committed: the flush
\* raises IntegrityError, which nothing catches.
InsertUser(r) ==
    /\ req[r].pc = "create_user"
    /\ \A s \in Requests \ {r} : ~InsertsUser(s, req[r].user)
    /\ req' = [req EXCEPT ![r] =
                 IF req[r].user \in users
                 THEN [NoRequest EXCEPT !.pc = "database_error"]
                 ELSE [@ EXCEPT !.pc = "commit_sign_in"]]
    /\ UNCHANGED <<rows, expired, known, history>>

\* UPDATE users: it waits for another sign-in that has updated the same row.
\* The INSERT of the token that follows is private to r.
UpdateUser(r) ==
    /\ req[r].pc = "update_user"
    /\ \A s \in Requests \ {r} : ~UpdatesUser(s, req[r].user)
    /\ req' = [req EXCEPT ![r].pc = "commit_profile"]
    /\ UNCHANGED <<rows, expired, known, history>>

CommitSignIn(r) ==
    /\ req[r].pc \in SignInCommits
    /\ users' = users \cup {req[r].user}
    /\ owner' = [owner EXCEPT ![req[r].new] = req[r].user]
    /\ req' = [req EXCEPT ![r].pc = "payload"]
    /\ UNCHANGED <<revoked, replacedBy, expired, known, history>>

-----------------------------------------------------------------------------
\* refreshSession: redeem_refresh_token

\* A token without a row, or a live row that has expired.
RedeemRefused(r, t) ==
    /\ req[r].pc = "idle"
    /\ t \notin Issued \/ t \in Live \cap expired
    /\ req' = [req EXCEPT ![r] = [NoRequest EXCEPT !.pc = "auth_error", !.tok = t]]
    /\ UNCHANGED <<rows, expired, known, history>>

\* revoked_at is tested before expires_at: an expired row that was revoked is
\* still reuse.
RedeemRevoked(r, t) ==
    /\ req[r].pc = "idle"
    /\ t \in Issued \cap revoked
    /\ req' = [req EXCEPT ![r] = [NoRequest EXCEPT !.pc = "revoke_chain",
                                    !.user = owner[t], !.tok = t]]
    /\ UNCHANGED <<rows, expired, known, history>>

\* Mutant of RedeemLookup: revoked_at is not looked at.
RedeemLookupUnchecked(r, t, n) ==
    /\ req[r].pc = "idle"
    /\ t \in Issued \ expired
    /\ owner[t] \in users
    /\ n \in Fresh
    /\ req' = [req EXCEPT ![r] = [NoRequest EXCEPT !.pc = "rotate",
                                    !.user = owner[t], !.tok = t, !.new = n]]
    /\ UNCHANGED <<rows, expired, known, history>>

\* The row is live: the answer of this SELECT is acted upon two statements
\* later, without FOR UPDATE.
RedeemLookup(r, t, n) ==
    /\ req[r].pc = "idle"
    /\ t \in Live \ expired
    /\ owner[t] \in users
    /\ n \in Fresh
    /\ req' = [req EXCEPT ![r] = [NoRequest EXCEPT !.pc = "rotate",
                                    !.user = owner[t], !.tok = t, !.new = n]]
    /\ UNCHANGED <<rows, expired, known, history>>

\* INSERT of the replacement, then UPDATE of the presented row by primary key:
\* it waits for the row lock and overwrites whatever was committed meanwhile.
RedeemRotate(r) ==
    /\ req[r].pc = "rotate"
    /\ ~Locked(r, req[r].tok)
    /\ req' = [req EXCEPT ![r].pc = "commit_refresh"]
    /\ UNCHANGED <<rows, expired, known, history>>

\* Mutant of CommitRefresh: the presented row is linked but not revoked.
CommitRefreshKeepsOld(r) ==
    /\ req[r].pc = "commit_refresh"
    /\ owner' = [owner EXCEPT ![req[r].new] = req[r].user]
    /\ replacedBy' = [replacedBy EXCEPT ![req[r].tok] = req[r].new]
    /\ parent' = [parent EXCEPT ![req[r].new] = req[r].tok]
    /\ req' = [req EXCEPT ![r].pc = "payload"]
    /\ UNCHANGED <<users, revoked, expired, known, condemned>>

CommitRefresh(r) ==
    /\ req[r].pc = "commit_refresh"
    /\ owner' = [owner EXCEPT ![req[r].new] = req[r].user]
    /\ revoked' = revoked \cup {req[r].tok}
    /\ replacedBy' = [replacedBy EXCEPT ![req[r].tok] = req[r].new]
    /\ parent' = [parent EXCEPT ![req[r].new] = req[r].tok]
    /\ req' = [req EXCEPT ![r].pc = "payload"]
    /\ UNCHANGED <<users, expired, known, condemned>>

-----------------------------------------------------------------------------
\* refreshSession: _revoke_chain

\* Mutants of RevokeChainSnapshot: the UPDATE without its user_id condition, and
\* one that only names the presented token.
RevokeChainSnapshotAll(r) ==
    /\ req[r].pc = "revoke_chain"
    /\ req' = [req EXCEPT ![r].pc = "lock_chain", ![r].targets = Issued]
    /\ UNCHANGED <<rows, expired, known, history>>

RevokeChainSnapshotOne(r) ==
    /\ req[r].pc = "revoke_chain"
    /\ req' = [req EXCEPT ![r].pc = "lock_chain", ![r].targets = {req[r].tok}]
    /\ UNCHANGED <<rows, expired, known, history>>

\* The snapshot of UPDATE ... WHERE user_id = u: rows committed later are not
\* in it, even when the statement waits for a lock in between.
RevokeChainSnapshot(r) ==
    /\ req[r].pc = "revoke_chain"
    /\ req' = [req EXCEPT ![r].pc = "lock_chain", ![r].targets = Family(req[r].user)]
    /\ UNCHANGED <<rows, expired, known, history>>

\* The UPDATE locks and writes one row after the other, in an order nothing
\* fixes, and keeps what it has while it waits for the next.
LockChainRow(r, t) ==
    /\ req[r].pc = "lock_chain"
    /\ t \in ToRevoke(r)
    /\ ~Locked(r, t)
    /\ req' = [req EXCEPT ![r].locked = @ \cup {t}]
    /\ UNCHANGED <<rows, expired, known, history>>

\* The UPDATE ends once no row of its snapshot is left to write.
RevokeChainUpdate(r) ==
    /\ req[r].pc = "lock_chain"
    /\ ToRevoke(r) = {}
    /\ req' = [req EXCEPT ![r].pc = "commit_chain"]
    /\ UNCHANGED <<rows, expired, known, history>>

\* Every transaction of some circle waits for another one of it.
InDeadlock(r) ==
    \E circle \in SUBSET Requests :
        r \in circle /\ \A s \in circle : \E q \in circle : WaitsFor(s, q)

\* PostgreSQL breaks the circle: the UPDATE of its victim raises, which nothing
\* catches, and everything the victim wrote is rolled back.
DeadlockDetected(r) ==
    /\ InDeadlock(r)
    /\ req' = [req EXCEPT ![r] = [NoRequest EXCEPT !.pc = "database_error"]]
    /\ UNCHANGED <<rows, expired, known, history>>

\* Mutant of CommitRevokeChain: the commit is left to the resolver, which the
\* AuthError never reaches.
CommitRevokeChainLost(r) ==
    /\ req[r].pc = "commit_chain"
    /\ req' = [req EXCEPT ![r].pc = "auth_error"]
    /\ UNCHANGED <<rows, expired, known, history>>

\* _revoke_chain commits before its caller raises AuthError.
CommitRevokeChain(r) ==
    /\ req[r].pc = "commit_chain"
    /\ revoked' = revoked \cup req[r].locked
    /\ req' = [req EXCEPT ![r] = [@ EXCEPT !.pc = "auth_error", !.locked = {}]]
    /\ UNCHANGED <<users, owner, replacedBy, expired, known, history>>

-----------------------------------------------------------------------------
\* signOut: one UPDATE ... WHERE token_hash = h AND revoked_at IS NULL

SignOut(r, t) ==
    /\ req[r].pc = "idle"
    /\ req' = [req EXCEPT ![r] = [NoRequest EXCEPT !.pc = "sign_out", !.tok = t]]
    /\ UNCHANGED <<rows, expired, known, history>>

\* An unknown or revoked token matches no row and there is no lock to wait for.
SignOutUpdate(r) ==
    /\ req[r].pc = "sign_out"
    /\ req[r].tok \in Live => ~Locked(r, req[r].tok)
    /\ req' = [req EXCEPT ![r].pc = "commit_sign_out"]
    /\ UNCHANGED <<rows, expired, known, history>>

\* Mutant of CommitSignOut: revoked_at is set without looking for the row.
CommitSignOutUnmatched(r) ==
    /\ req[r].pc = "commit_sign_out"
    /\ revoked' = revoked \cup {req[r].tok}
    /\ req' = [req EXCEPT ![r].pc = "signed_out"]
    /\ UNCHANGED <<users, owner, replacedBy, expired, known, history>>

CommitSignOut(r) ==
    /\ req[r].pc = "commit_sign_out"
    /\ revoked' = revoked \cup ({req[r].tok} \cap Issued)
    /\ req' = [req EXCEPT ![r].pc = "signed_out"]
    /\ UNCHANGED <<users, owner, replacedBy, expired, known, history>>

-----------------------------------------------------------------------------
\* Replies, failures and the clock

\* AuthPayload reaches the client.
AnswerPayload(r) ==
    /\ req[r].pc = "payload"
    /\ known' = known \cup {req[r].new}
    /\ req' = [req EXCEPT ![r] = NoRequest]
    /\ UNCHANGED <<rows, expired, history>>

AnswerError(r) ==
    /\ req[r].pc \in {"auth_error", "database_error"}
    /\ condemned' = condemned \cup req[r].targets
    /\ req' = [req EXCEPT ![r] = NoRequest]
    /\ UNCHANGED <<rows, expired, known, parent>>

AnswerSignedOut(r) ==
    /\ req[r].pc = "signed_out"
    /\ req' = [req EXCEPT ![r] = NoRequest]
    /\ UNCHANGED <<rows, expired, known, history>>

\* The request dies with its process or its connection.  Before the commit
\* everything is rolled back, after it only the reply is lost.
Drop(r) ==
    /\ req[r].pc # "idle"
    /\ req' = [req EXCEPT ![r] = NoRequest]
    /\ UNCHANGED <<rows, expired, known, history>>

Expire(t) ==
    /\ t \in Issued \ expired
    /\ expired' = expired \cup {t}
    /\ UNCHANGED <<rows, req, known, history>>

-----------------------------------------------------------------------------
\* What a client can present: a token it received, or garbage.
Presentable == known \cup {NoToken}

Begin(r) ==
    \/ SignInRefused(r)
    \/ \E u \in Users, n \in Tokens, stage \in SignInStages : SignInLookup(r, u, n, stage)
    \/ \E t \in Presentable : RedeemRefused(r, t)
    \/ \E t \in Presentable : RedeemRevoked(r, t)
    \/ \E t \in Presentable, n \in Tokens : RedeemLookup(r, t, n)
    \/ \E t \in Presentable : SignOut(r, t)

\* One statement of a request the server has begun.
Serve(r) ==
    \/ InsertUser(r)
    \/ UpdateUser(r)
    \/ CommitSignIn(r)
    \/ RedeemRotate(r)
    \/ CommitRefresh(r)
    \/ RevokeChainSnapshot(r)
    \/ \E t \in Tokens : LockChainRow(r, t)
    \/ RevokeChainUpdate(r)
    \/ CommitRevokeChain(r)
    \/ SignOutUpdate(r)
    \/ CommitSignOut(r)

Answer(r) ==
    \/ AnswerPayload(r)
    \/ AnswerError(r)
    \/ AnswerSignedOut(r)

Next ==
    \/ \E r \in Requests :
          Begin(r) \/ Serve(r) \/ Answer(r) \/ DeadlockDetected(r) \/ Drop(r)
    \/ \E t \in Tokens : Expire(t)

Spec == Init /\ [][Next]_vars

\* The event loop runs every statement that can run, PostgreSQL wakes the
\* waiters of a lock whenever it is released (strong fairness: a waiter is not
\* overtaken for ever) and breaks a deadlock, and a reply is sent or its
\* connection found dead.  The clock stands still here: an expired token only
\* ends its request sooner.
FairSpec ==
    /\ Init /\ [][Next /\ UNCHANGED expired]_vars
    /\ \A r \in Requests :
          SF_vars(Serve(r)) /\ WF_vars(Answer(r)) /\ WF_vars(DeadlockDetected(r))

\* The account a request is about, once that is determined.
Account(r) ==
    IF req[r].user # NoUser THEN req[r].user
    ELSE IF req[r].tok \in Issued THEN owner[req[r].tok] ELSE NoUser

\* No account has two requests open: the clients of an account, taken
\* together, send one auth mutation at a time.
NoOverlap ==
    \A r, s \in Requests :
        r # s /\ req[r].pc # "idle" /\ req[s].pc # "idle" /\ Account(r) # NoUser
            => Account(r) # Account(s)

SerialSpec == Init /\ [][Next /\ NoOverlap']_vars

-----------------------------------------------------------------------------
\* Properties of every interleaving

\* A redemption burns what it redeems in the transaction that issues the
\* successor: a successor is of the same user, its original is revoked and
\* linked to some successor of its own, and no other row carries a link.
SuccessorBurnsOriginal ==
    /\ \A n \in Tokens : parent[n] # NoToken =>
          /\ n \in Issued
          /\ parent[n] \in Issued \cap revoked
          /\ owner[n] = owner[parent[n]]
          /\ replacedBy[parent[n]] # NoToken
    /\ \A t \in Tokens : replacedBy[t] # NoToken => parent[replacedBy[t]] = t

\* What a reply tells a client is already durable: the tokens it was given have
\* rows, the family it was told is dead is revoked (the commit precedes the
\* raise in _revoke_chain), and a sign-out reports True only of a dead token.
RepliesAreCommitted ==
    /\ known \subseteq Issued
    /\ condemned \subseteq revoked
    /\ \A r \in Requests :
          req[r].pc = "signed_out" => req[r].tok \in revoked \cup {NoToken}

\* A user with no live token and no redemption under way.
LockedOut(u) ==
    /\ Family(u) \subseteq revoked
    /\ \A r \in Requests : ~(req[r].pc \in RefreshStages /\ req[r].user = u)

\* Once every session of a user is dead, and no redemption that was accepted
\* earlier is still running, nothing but a completed Google sign-in gives that
\* user a live token again.
OnlySignInReopens ==
    [][\A u \in Users : LockedOut(u) /\ ~LockedOut(u)' =>
          \E r \in Requests : CommitSignIn(r) /\ req[r].user = u]_vars

\* Nobody loses a session through another user's request: a row is revoked by
\* the commit of a redemption or sign-out of that very token, or of the chain
\* revocation that a revoked token of the same user set off.
RevocationsAreOwned ==
    [][\A t \in revoked' \ revoked : \E r \in Requests :
          /\ req'[r].pc # req[r].pc
          /\ \/ req[r].pc \in {"commit_refresh", "commit_sign_out"} /\ req[r].tok = t
             \/ /\ req[r].pc = "commit_chain"
                /\ req[r].tok \in revoked
                /\ owner[req[r].tok] = owner[t]]_vars

\* No request hangs, neither in the queue for a row nor for the unique index of
\* users, nor because two chain revocations have locked rows of one family in
\* different orders.
EveryRequestEnds == \A r \in Requests : []<>(req[r].pc = "idle")

-----------------------------------------------------------------------------
\* Properties of SerialSpec; each fails when requests of one account overlap

\* Refresh tokens are single-use: no token has two successors.
SingleUse ==
    \A n, m \in Tokens : parent[n] = parent[m] /\ n # m => parent[n] = NoToken

\* After a client has been told of reuse, no successor of a token of the
\* condemned family is live.
ReuseLeavesNoSurvivor == \A n \in Tokens : parent[n] \in condemned => n \in revoked

\* The statements of each mutation add up to one step of the promise.
Families == INSTANCE SessionFamilies WITH
    owner <- owner, revoked <- revoked, parent <- parent
ImplementsFamilies == Families!Spec

-----------------------------------------------------------------------------
\* The inductive invariants the theorems rest on

\* A drawn token belongs to one request, and until that request commits no row
\* and no link mentions it.
DrawnTokensArePrivate ==
    /\ \A r, s \in Requests :
          r # s /\ req[r].new # NoToken => req[r].new # req[s].new
    /\ \A r \in Requests :
          req[r].pc \in SignInStages \cup RefreshStages => req[r].new \in Tokens \ Issued
    /\ \A t \in Tokens \ Issued : parent[t] = NoToken

\* What request q has read about its token and its user stays true.
ReadsIssuedRows(q) ==
    /\ q.pc \in SignInStages \cup RefreshStages \cup ChainStages => q.user \in Users
    /\ q.pc \in RefreshStages \cup ChainStages
          => q.tok \in Issued /\ q.user = owner[q.tok]
    /\ q.pc \in ChainStages => q.tok \in revoked
    /\ q.pc \in SignOutStages => q.user = NoUser /\ q.tok \in Issued \cup {NoToken}
    /\ q.pc = "payload" => q.new \in Issued
    /\ q.locked \subseteq q.targets
    /\ q.pc = "commit_chain" => q.targets \subseteq revoked \cup q.locked
    /\ q.pc = "auth_error" => q.targets \subseteq revoked
    /\ q.pc = "database_error" => q.targets = {}
    /\ \A t \in q.targets : t \in Tokens /\ owner[t] = q.user /\ q.user # NoUser

RequestsReadIssuedRows == \A r \in Requests : ReadsIssuedRows(req[r])

Inv ==
    /\ TypeOK
    /\ DrawnTokensArePrivate
    /\ RequestsReadIssuedRows
    /\ SuccessorBurnsOriginal
    /\ RepliesAreCommitted

\* Without overlap nobody invalidates what a request has read: the token it is
\* redeeming is still live, the rows it is revoking are still the whole family.
SerialReadsStayCurrent ==
    \A r \in Requests :
        /\ req[r].pc \in RefreshStages => req[r].tok \notin revoked
        /\ req[r].pc \in {"lock_chain", "commit_chain"}
              => req[r].targets = Family(req[r].user)
        /\ req[r].pc = "auth_error"
              => \A n \in Tokens : parent[n] \in req[r].targets => n \in req[r].targets

CondemnedFamiliesAreClosed ==
    \A n \in Tokens : parent[n] \in condemned => n \in condemned

SerialInv ==
    /\ Inv
    /\ NoOverlap
    /\ SerialReadsStayCurrent
    /\ SingleUse
    /\ CondemnedFamiliesAreClosed
=============================================================================
