------------------------ MODULE RefreshTokensProofs ------------------------
(***************************************************************************)
(* Theorems about RefreshTokens, for any sets of users, tokens and         *)
(* requests.  The first half is about every interleaving, the second about *)
(* SerialSpec, where no account has two requests open.                     *)
(***************************************************************************)
EXTENDS RefreshTokens, TLAPS

\* Most steps only move one request on.  They keep the invariant if what the
\* request now claims to have read is true and its token is its own.
LEMMA QuietStep ==
  ASSUME Inv, NEW r \in Requests, NEW q \in Request,
         ReadsIssuedRows(q),
         q.new # NoToken => q.new = req[r].new \/ q.new \in Fresh,
         q.pc \in SignInStages \cup RefreshStages => q.new \in Tokens \ Issued,
         q.pc # "signed_out",
         req' = [req EXCEPT ![r] = q],
         UNCHANGED <<rows, expired, known, history>>
  PROVE  Inv'
<1>1. TypeOK'
  BY DEF Inv, TypeOK, rows, history
<1>2. DrawnTokensArePrivate'
  BY DEF Inv, TypeOK, DrawnTokensArePrivate, Fresh, Issued, rows, history
<1>3. RequestsReadIssuedRows'
  BY DEF Inv, TypeOK, RequestsReadIssuedRows, ReadsIssuedRows, Issued, rows, history
<1>4. SuccessorBurnsOriginal'
  BY DEF Inv, SuccessorBurnsOriginal, Issued, rows, history
<1>5. RepliesAreCommitted'
  BY DEF Inv, TypeOK, RepliesAreCommitted, Issued, rows, history
<1> QED
  BY <1>1, <1>2, <1>3, <1>4, <1>5 DEF Inv

\* An empty database and no requests.
LEMMA InitInv == Init => Inv
  BY NoValues
     DEF Init, Inv, TypeOK, DrawnTokensArePrivate, RequestsReadIssuedRows, ReadsIssuedRows,
         SuccessorBurnsOriginal, RepliesAreCommitted, Issued, Request, NoRequest, Stages,
         SignInStages, SignInCommits, RefreshStages, ChainStages, SignOutStages, ReplyStages

\* A request that begins has read and drawn nothing.
LEMMA BeginInv == ASSUME Inv, NEW r \in Requests, Begin(r) PROVE Inv'
<1> USE NoValues
    DEF Request, NoRequest, ReadsIssuedRows, Stages, SignInStages, SignInCommits,
        RefreshStages, ChainStages, SignOutStages, ReplyStages
<1>1. CASE SignInRefused(r)
  BY <1>1, QuietStep DEF SignInRefused
<1>2. ASSUME NEW u \in Users, NEW n \in Tokens, NEW stage \in SignInStages,
             SignInLookup(r, u, n, stage)
      PROVE  Inv'
  <2> DEFINE q == [NoRequest EXCEPT !.pc = stage, !.user = u, !.new = n]
  <2>1. /\ q \in Request /\ q.new \in Fresh /\ ReadsIssuedRows(q)
        /\ q.new \in Tokens \ Issued /\ q.pc # "signed_out"
    BY <1>2 DEF SignInLookup, Fresh
  <2>2. req' = [req EXCEPT ![r] = q] /\ UNCHANGED <<rows, expired, known, history>>
    BY <1>2 DEF SignInLookup
  <2> HIDE DEF q
  <2> QED
    BY <2>1, <2>2, QuietStep
<1>3. ASSUME NEW t \in Presentable, RedeemRefused(r, t) PROVE Inv'
  BY <1>3, QuietStep DEF RedeemRefused, Presentable, Inv, TypeOK
<1>4. ASSUME NEW t \in Presentable, RedeemRevoked(r, t) PROVE Inv'
  BY <1>4, QuietStep DEF RedeemRevoked, Presentable, Inv, TypeOK, Issued
<1>5. ASSUME NEW t \in Presentable, NEW n \in Tokens, RedeemLookup(r, t, n) PROVE Inv'
  <2> DEFINE q == [NoRequest EXCEPT !.pc = "rotate", !.user = owner[t], !.tok = t, !.new = n]
  <2>1. t \in Issued /\ owner[t] \in Users /\ n \in Fresh
    BY <1>5 DEF RedeemLookup, Live, Issued, Inv, TypeOK
  <2>2. /\ q \in Request /\ q.new \in Fresh /\ ReadsIssuedRows(q)
        /\ q.new \in Tokens \ Issued /\ q.pc # "signed_out"
    BY <2>1 DEF Fresh, Issued
  <2>3. req' = [req EXCEPT ![r] = q] /\ UNCHANGED <<rows, expired, known, history>>
    BY <1>5 DEF RedeemLookup
  <2> HIDE DEF q
  <2> QED
    BY <2>2, <2>3, QuietStep
<1>6. ASSUME NEW t \in Presentable, SignOut(r, t) PROVE Inv'
  <2> DEFINE q == [NoRequest EXCEPT !.pc = "sign_out", !.tok = t]
  <2>1. t \in Issued \cup {NoToken}
    BY <1>6 DEF Presentable, Inv, RepliesAreCommitted
  <2>2. q \in Request /\ q.new = NoToken /\ ReadsIssuedRows(q) /\ q.pc = "sign_out"
    BY <2>1 DEF Issued
  <2>3. req' = [req EXCEPT ![r] = q] /\ UNCHANGED <<rows, expired, known, history>>
    BY <1>6 DEF SignOut
  <2> HIDE DEF q
  <2> QED
    BY <2>2, <2>3, QuietStep
<1> QED
  BY <1>1, <1>2, <1>3, <1>4, <1>5, <1>6 DEF Begin

\* One statement of an open transaction.
LEMMA ServeInv == ASSUME Inv, NEW r \in Requests, Serve(r) PROVE Inv'
<1> USE NoValues
    DEF Request, NoRequest, ReadsIssuedRows, Stages, SignInStages, SignInCommits,
        RefreshStages, ChainStages, SignOutStages, ReplyStages
<1>q. req[r] \in Request /\ ReadsIssuedRows(req[r])
      /\ (req[r].pc \in SignInStages \cup RefreshStages => req[r].new \in Tokens \ Issued)
  BY DEF Inv, TypeOK, RequestsReadIssuedRows, DrawnTokensArePrivate
<1>1. CASE InsertUser(r)
  BY <1>1, <1>q, QuietStep DEF InsertUser
<1>2. CASE CommitSignIn(r)
  <2>1. TypeOK'
    BY <1>2, <1>q DEF CommitSignIn, Inv, TypeOK, history
  <2>2. DrawnTokensArePrivate'
    BY <1>2, <1>q DEF CommitSignIn, Inv, TypeOK, DrawnTokensArePrivate, Issued, history
  <2>3. RequestsReadIssuedRows'
    BY <1>2, <1>q DEF CommitSignIn, Inv, TypeOK, RequestsReadIssuedRows,
                      DrawnTokensArePrivate, Issued, history
  <2>4. SuccessorBurnsOriginal'
    BY <1>2, <1>q DEF CommitSignIn, Inv, TypeOK, SuccessorBurnsOriginal, Issued, history
  <2>5. RepliesAreCommitted'
    BY <1>2, <1>q DEF CommitSignIn, Inv, TypeOK, RepliesAreCommitted, Issued, history
  <2> QED
    BY <2>1, <2>2, <2>3, <2>4, <2>5 DEF Inv
<1>3. CASE RedeemRotate(r)
  BY <1>3, <1>q, QuietStep DEF RedeemRotate
<1>4. CASE CommitRefresh(r)
  <2>1. TypeOK'
    BY <1>4, <1>q DEF CommitRefresh, Inv, TypeOK, Issued
  <2>2. DrawnTokensArePrivate'
    BY <1>4, <1>q DEF CommitRefresh, Inv, TypeOK, DrawnTokensArePrivate, Issued
  <2>3. RequestsReadIssuedRows'
    BY <1>4, <1>q DEF CommitRefresh, Inv, TypeOK, RequestsReadIssuedRows,
                      DrawnTokensArePrivate, Issued
  <2>4. SuccessorBurnsOriginal'
    BY <1>4, <1>q DEF CommitRefresh, Inv, TypeOK, SuccessorBurnsOriginal,
                      DrawnTokensArePrivate, Issued
  <2>5. RepliesAreCommitted'
    BY <1>4, <1>q DEF CommitRefresh, Inv, TypeOK, RepliesAreCommitted, Issued
  <2> QED
    BY <2>1, <2>2, <2>3, <2>4, <2>5 DEF Inv
<1>5. CASE RevokeChainSnapshot(r)
  <2> DEFINE q == [req[r] EXCEPT !.pc = "lock_chain", !.targets = Family(req[r].user)]
  <2>1. q \in Request
    BY <1>q DEF Family, Issued
  <2>2. ReadsIssuedRows(q) /\ q.new = req[r].new /\ q.pc = "lock_chain"
    BY <1>5, <1>q DEF RevokeChainSnapshot, Family, Issued
  <2>3. req' = [req EXCEPT ![r] = q] /\ UNCHANGED <<rows, expired, known, history>>
    BY <1>5 DEF RevokeChainSnapshot, Inv, TypeOK
  <2> HIDE DEF q
  <2> QED
    BY <2>1, <2>2, <2>3, QuietStep
<1>6. CASE RevokeChainUpdate(r)
  BY <1>6, <1>q, QuietStep DEF RevokeChainUpdate, ToRevoke, Live, Issued
<1>9. ASSUME NEW t \in Tokens, LockChainRow(r, t) PROVE Inv'
  <2> DEFINE q == [req[r] EXCEPT !.locked = @ \cup {t}]
  <2>1. t \in req[r].targets
    BY <1>9 DEF LockChainRow, ToRevoke
  <2>2. q \in Request /\ ReadsIssuedRows(q) /\ q.new = req[r].new /\ q.pc = "lock_chain"
    BY <1>9, <1>q, <2>1 DEF LockChainRow
  <2>3. req' = [req EXCEPT ![r] = q] /\ UNCHANGED <<rows, expired, known, history>>
    BY <1>9 DEF LockChainRow, Inv, TypeOK
  <2> HIDE DEF q
  <2> QED
    BY <2>2, <2>3, QuietStep
<1>10. CASE UpdateUser(r)
  BY <1>10, <1>q, QuietStep DEF UpdateUser
<1>11. CASE SignOutUpdate(r)
  BY <1>11, <1>q, QuietStep DEF SignOutUpdate
<1>7. CASE CommitRevokeChain(r)
  <2>1. TypeOK'
    BY <1>7, <1>q DEF CommitRevokeChain, Inv, TypeOK, history
  <2>2. DrawnTokensArePrivate'
    BY <1>7, <1>q DEF CommitRevokeChain, Inv, TypeOK, DrawnTokensArePrivate, Issued, history
  <2>3. RequestsReadIssuedRows'
    BY <1>7, <1>q DEF CommitRevokeChain, Inv, TypeOK, RequestsReadIssuedRows, Issued, history
  <2>4. SuccessorBurnsOriginal' /\ RepliesAreCommitted'
    BY <1>7, <1>q DEF CommitRevokeChain, Inv, SuccessorBurnsOriginal, RepliesAreCommitted,
                      Issued, history
  <2> QED
    BY <2>1, <2>2, <2>3, <2>4 DEF Inv
<1>8. CASE CommitSignOut(r)
  <2>1. TypeOK'
    BY <1>8, <1>q DEF CommitSignOut, Inv, TypeOK, Issued, history
  <2>2. DrawnTokensArePrivate'
    BY <1>8, <1>q DEF CommitSignOut, Inv, TypeOK, DrawnTokensArePrivate, Issued, history
  <2>3. RequestsReadIssuedRows'
    BY <1>8, <1>q DEF CommitSignOut, Inv, TypeOK, RequestsReadIssuedRows, Issued, history
  <2>4. SuccessorBurnsOriginal' /\ RepliesAreCommitted'
    BY <1>8, <1>q DEF CommitSignOut, Inv, SuccessorBurnsOriginal, RepliesAreCommitted,
                      Issued, history
  <2> QED
    BY <2>1, <2>2, <2>3, <2>4 DEF Inv
<1> QED
  BY <1>1, <1>2, <1>3, <1>4, <1>5, <1>6, <1>7, <1>8, <1>9, <1>10, <1>11 DEF Serve

\* A reply, or the end of a request without one.
LEMMA EndInv ==
  ASSUME Inv, NEW r \in Requests, Answer(r) \/ DeadlockDetected(r) \/ Drop(r)
  PROVE  Inv'
<1> USE NoValues
    DEF Request, NoRequest, ReadsIssuedRows, Stages, SignInStages, SignInCommits,
        RefreshStages, ChainStages, SignOutStages, ReplyStages, rows, history
<1>q. req[r] \in Request /\ ReadsIssuedRows(req[r])
  BY DEF Inv, TypeOK, RequestsReadIssuedRows
<1>1. CASE Drop(r)
  BY <1>1, QuietStep DEF Drop
<1>2. CASE Answer(r)
  <2> USE <1>2, <1>q DEF Answer, AnswerPayload, AnswerError, AnswerSignedOut
  <2>1. TypeOK'
    BY DEF Inv, TypeOK, Issued
  <2>2. DrawnTokensArePrivate'
    BY DEF Inv, TypeOK, DrawnTokensArePrivate, Issued
  <2>3. RequestsReadIssuedRows'
    BY DEF Inv, TypeOK, RequestsReadIssuedRows, Issued
  <2>4. SuccessorBurnsOriginal'
    BY DEF Inv, SuccessorBurnsOriginal, Issued
  <2>5. RepliesAreCommitted'
    BY DEF Inv, TypeOK, RepliesAreCommitted, Issued
  <2> QED
    BY <2>1, <2>2, <2>3, <2>4, <2>5 DEF Inv
<1>3. CASE DeadlockDetected(r)
  BY <1>3, QuietStep DEF DeadlockDetected
<1> QED
  BY <1>1, <1>2, <1>3

\* Every statement, commit, reply and death of a request keeps Inv.
LEMMA NextInv == Inv /\ [Next]_vars => Inv'
<1> SUFFICES ASSUME Inv, [Next]_vars PROVE Inv'
  OBVIOUS
<1>1. CASE Next
  <2>1. ASSUME NEW t \in Tokens, Expire(t) PROVE Inv'
    BY <2>1 DEF Expire, Inv, TypeOK, DrawnTokensArePrivate, RequestsReadIssuedRows,
                ReadsIssuedRows, SuccessorBurnsOriginal, RepliesAreCommitted, Issued,
                rows, history
  <2> QED
    BY <1>1, <2>1, BeginInv, ServeInv, EndInv DEF Next
<1>2. CASE UNCHANGED vars
  BY <1>2 DEF vars, Inv, TypeOK, DrawnTokensArePrivate, RequestsReadIssuedRows,
              ReadsIssuedRows, SuccessorBurnsOriginal, RepliesAreCommitted, Issued
<1> QED
  BY <1>1, <1>2

\* Inv holds in every reachable state, whatever the interleaving.
THEOREM Invariance == Spec => []Inv
<1> QED
  BY InitInv, NextInv, PTL DEF Spec

\* The store is well typed: rows, links and requests in progress.
THEOREM TypeCorrect == Spec => []TypeOK
<1>1. Inv => TypeOK
  BY DEF Inv
<1> QED
  BY <1>1, Invariance, PTL

\* A redemption commits the successor, the revocation of the original and the
\* link together, and nothing else writes a link.
THEOREM Rotation == Spec => []SuccessorBurnsOriginal
<1>1. Inv => SuccessorBurnsOriginal
  BY DEF Inv
<1> QED
  BY <1>1, Invariance, PTL

\* What a reply says is committed before the reply is sent and stays so.
THEOREM Durability == Spec => []RepliesAreCommitted
<1>1. Inv => RepliesAreCommitted
  BY DEF Inv
<1> QED
  BY <1>1, Invariance, PTL

-----------------------------------------------------------------------------
\* Action properties of every interleaving

\* The steps of a request that is only begun, moved on, answered or dropped
\* write no row.
LEMMA RowWriters ==
  ASSUME Next
  PROVE  \/ UNCHANGED rows
         \/ \E r \in Requests : \/ CommitSignIn(r) \/ CommitRefresh(r)
                                \/ CommitRevokeChain(r) \/ CommitSignOut(r)
<1>1. ASSUME NEW r \in Requests, Begin(r) \/ Answer(r) \/ DeadlockDetected(r) \/ Drop(r)
      PROVE  UNCHANGED rows
  BY <1>1 DEF Begin, SignInRefused, SignInLookup, RedeemRefused, RedeemRevoked, RedeemLookup,
              SignOut, Answer, AnswerPayload, AnswerError, AnswerSignedOut,
              DeadlockDetected, Drop, rows
<1>2. ASSUME NEW r \in Requests, Serve(r)
      PROVE  \/ UNCHANGED rows
             \/ CommitSignIn(r) \/ CommitRefresh(r) \/ CommitRevokeChain(r) \/ CommitSignOut(r)
  BY <1>2 DEF Serve, InsertUser, UpdateUser, RedeemRotate, RevokeChainSnapshot, LockChainRow,
              RevokeChainUpdate, SignOutUpdate
<1>3. ASSUME NEW t \in Tokens, Expire(t) PROVE UNCHANGED rows
  BY <1>3 DEF Expire
<1> QED
  BY <1>1, <1>2, <1>3 DEF Next

\* A session ends only by a request that presented a token of the same user.
THEOREM Ownership == Spec => RevocationsAreOwned
<1> DEFINE Owned == \A t \in revoked' \ revoked : \E r \in Requests :
                      /\ req'[r].pc # req[r].pc
                      /\ \/ req[r].pc \in {"commit_refresh", "commit_sign_out"}
                            /\ req[r].tok = t
                         \/ /\ req[r].pc = "commit_chain"
                            /\ req[r].tok \in revoked
                            /\ owner[req[r].tok] = owner[t]
<1>1. Inv /\ Next => Owned
  <2> SUFFICES ASSUME Inv, Next PROVE Owned
    OBVIOUS
  <2>1. ASSUME NEW r \in Requests, CommitSignIn(r) \/ CommitRefresh(r) \/ CommitSignOut(r)
        PROVE  Owned
    BY <2>1 DEF CommitSignIn, CommitRefresh, CommitSignOut, Inv, TypeOK, Request
  <2>2. ASSUME NEW r \in Requests, CommitRevokeChain(r) PROVE Owned
    <3>1. /\ req[r].pc = "commit_chain" /\ req[r].tok \in revoked
          /\ owner[req[r].tok] = req[r].user
          /\ \A t \in req[r].locked : owner[t] = req[r].user
      BY <2>2 DEF CommitRevokeChain, Inv, RequestsReadIssuedRows, ReadsIssuedRows, ChainStages
    <3>2. req'[r].pc # req[r].pc
      BY <2>2, <3>1 DEF CommitRevokeChain, Inv, TypeOK, Request
    <3> QED
      BY <2>2, <3>1, <3>2 DEF CommitRevokeChain
  <2> QED
    BY <2>1, <2>2, RowWriters DEF rows
<1>2. Inv /\ [Next]_vars => [Owned]_vars
  BY <1>1
<1> QED
  BY <1>2, Invariance, PTL DEF Spec, RevocationsAreOwned

\* A locked-out user stays locked out until a Google sign-in completes.
THEOREM Lockout == Spec => OnlySignInReopens
<1> DEFINE Reopens == \A u \in Users : LockedOut(u) /\ ~LockedOut(u)' =>
                         \E r \in Requests : CommitSignIn(r) /\ req[r].user = u
<1>1. Inv /\ Next => Reopens
  <2> SUFFICES ASSUME Inv, Next, NEW u \in Users, LockedOut(u),
                      ~ \E r \in Requests : CommitSignIn(r) /\ req[r].user = u
               PROVE  LockedOut(u)'
    OBVIOUS
  <2> USE DEF LockedOut, Family, Live, Issued
  <2>1. ASSUME NEW r \in Requests, Begin(r) PROVE LockedOut(u)'
    <3>1. ASSUME NEW t \in Presentable, NEW n \in Tokens, RedeemLookup(r, t, n)
          PROVE  LockedOut(u)'
      <4>1. owner[t] # u
        BY <3>1 DEF RedeemLookup
      <4> QED
        BY <3>1, <4>1 DEF RedeemLookup, NoRequest, RefreshStages, Inv, TypeOK, rows
    <3>2. ASSUME NEW v \in Users, NEW n \in Tokens, NEW stage \in SignInStages,
                 SignInLookup(r, v, n, stage)
          PROVE  LockedOut(u)'
      BY <3>2 DEF SignInLookup, NoRequest, RefreshStages, Inv, TypeOK, rows
    <3>3. ASSUME NEW t \in Presentable,
                 RedeemRefused(r, t) \/ RedeemRevoked(r, t) \/ SignOut(r, t)
          PROVE  LockedOut(u)'
      BY <3>3 DEF RedeemRefused, RedeemRevoked, SignOut, NoRequest, RefreshStages,
                  Inv, TypeOK, rows
    <3> QED
      BY <2>1, <3>1, <3>2, <3>3 DEF Begin, SignInRefused, NoRequest, RefreshStages,
                                    Inv, TypeOK, rows
  <2>2. ASSUME NEW r \in Requests, Serve(r) PROVE LockedOut(u)'
    <3>1. CASE CommitSignIn(r)
      BY <2>2, <3>1 DEF CommitSignIn, SignInCommits, RefreshStages, Inv, TypeOK, Request
    <3>2. CASE CommitRefresh(r)
      BY <2>2, <3>2 DEF CommitRefresh, RefreshStages, Inv, TypeOK
    <3>3. CASE CommitRevokeChain(r) \/ CommitSignOut(r)
      BY <3>3 DEF CommitRevokeChain, CommitSignOut, RefreshStages, Inv, TypeOK, Request
    <3>4. CASE \/ InsertUser(r) \/ UpdateUser(r) \/ SignOutUpdate(r)
               \/ RevokeChainSnapshot(r) \/ RevokeChainUpdate(r)
      BY <3>4 DEF InsertUser, UpdateUser, SignOutUpdate, RevokeChainSnapshot,
                  RevokeChainUpdate, NoRequest, RefreshStages, Inv, TypeOK, Request, rows
    <3>6. ASSUME NEW t \in Tokens, LockChainRow(r, t) PROVE LockedOut(u)'
      BY <3>6 DEF LockChainRow, RefreshStages, Inv, TypeOK, Request, rows
    <3>5. CASE RedeemRotate(r)
      BY <3>5 DEF RedeemRotate, RefreshStages, Inv, TypeOK, Request, rows
    <3> QED
      BY <2>2, <3>1, <3>2, <3>3, <3>4, <3>5, <3>6 DEF Serve
  <2>3. ASSUME NEW r \in Requests, Answer(r) \/ DeadlockDetected(r) \/ Drop(r)
        PROVE  LockedOut(u)'
    BY <2>3 DEF Answer, AnswerPayload, AnswerError, AnswerSignedOut, DeadlockDetected, Drop,
                NoRequest, RefreshStages, Inv, TypeOK, rows
  <2>4. ASSUME NEW t \in Tokens, Expire(t) PROVE LockedOut(u)'
    BY <2>4 DEF Expire, rows
  <2> QED
    BY <2>1, <2>2, <2>3, <2>4 DEF Next
<1>2. Inv /\ [Next]_vars => [Reopens]_vars
  BY <1>1
<1> QED
  BY <1>2, Invariance, PTL DEF Spec, OnlySignInReopens

-----------------------------------------------------------------------------
\* One request of an account at a time

\* Two open requests that know their users are about different users.
LEMMA OneRequestPerUser ==
  ASSUME NoOverlap, NEW r \in Requests, NEW s \in Requests, r # s,
         req[r].pc # "idle", req[s].pc # "idle", req[r].user # NoUser
  PROVE  /\ req[r].user # req[s].user
         /\ req[s].user = NoUser /\ req[s].tok \in Issued => owner[req[s].tok] # req[r].user
  BY DEF NoOverlap, Account

\* Writes of a request s leave what another request r has read as it was.
LEMMA OthersStayCurrent ==
  ASSUME SerialInv, NEW r \in Requests, NEW s \in Requests, r # s,
         CommitSignIn(s) \/ CommitRefresh(s) \/ CommitRevokeChain(s) \/ CommitSignOut(s)
  PROVE  /\ req[r].pc \in RefreshStages => req[r].tok \notin revoked'
         /\ req[r].pc \in {"lock_chain", "commit_chain"}
               => req[r].targets = Family(req[r].user)'
         /\ req[r].pc = "auth_error"
               => \A n \in Tokens : parent'[n] \in req[r].targets => n \in req[r].targets
<1> USE NoValues DEF SerialInv, Inv, SerialReadsStayCurrent
<1>r. /\ req[r].pc \in RefreshStages \cup ChainStages => req[r].user \in Users
      /\ req[r].pc \in RefreshStages => req[r].tok \in Issued /\ owner[req[r].tok] = req[r].user
      /\ req[r].targets # {} => req[r].user # NoUser
      /\ \A t \in req[r].targets : t \in Tokens /\ owner[t] = req[r].user
  BY DEF RequestsReadIssuedRows, ReadsIssuedRows
<1>1. CASE CommitSignIn(s)
  <2>1. req[s].user \in Users /\ req[s].pc # "idle" /\ req[s].new \in Tokens \ Issued
    BY <1>1 DEF CommitSignIn, RequestsReadIssuedRows, ReadsIssuedRows, SignInStages,
                SignInCommits, DrawnTokensArePrivate
  <2>2. req[r].pc # "idle" /\ req[r].user # NoUser => req[r].user # req[s].user
    BY <2>1, OneRequestPerUser
  <2>3. req[r].user # NoUser /\ req[r].pc # "idle" => Family(req[r].user)' = Family(req[r].user)
    BY <1>1, <2>1, <2>2 DEF CommitSignIn, Family, Issued, TypeOK
  <2> QED
    BY <1>1, <1>r, <2>3 DEF CommitSignIn, SignInCommits, history, RefreshStages, ChainStages
<1>2. CASE CommitRefresh(s)
  <2>1. /\ req[s].user \in Users /\ req[s].pc # "idle" /\ req[s].new \in Tokens \ Issued
        /\ req[s].tok \in Issued /\ owner[req[s].tok] = req[s].user
    BY <1>2 DEF CommitRefresh, RequestsReadIssuedRows, ReadsIssuedRows, RefreshStages,
                DrawnTokensArePrivate
  <2>2. req[r].pc # "idle" /\ req[r].user # NoUser => req[r].user # req[s].user
    BY <2>1, OneRequestPerUser
  <2>3. req[r].user # NoUser /\ req[r].pc # "idle" => Family(req[r].user)' = Family(req[r].user)
    BY <1>2, <2>1, <2>2 DEF CommitRefresh, Family, Issued, TypeOK
  <2>4. req[r].pc \in RefreshStages => req[r].tok \notin revoked'
    BY <1>2, <1>r, <2>1, <2>2 DEF CommitRefresh, RefreshStages
  <2>5. req[r].pc = "auth_error" => req[s].tok \notin req[r].targets
    BY <1>r, <2>1, <2>2
  <2> QED
    BY <1>2, <1>r, <2>1, <2>3, <2>4, <2>5 DEF CommitRefresh, TypeOK, ChainStages
<1>3. CASE CommitRevokeChain(s)
  <2>1. /\ req[s].user \in Users /\ req[s].pc # "idle"
        /\ \A t \in req[s].locked : owner[t] = req[s].user
    BY <1>3 DEF CommitRevokeChain, RequestsReadIssuedRows, ReadsIssuedRows, ChainStages
  <2>2. req[r].pc # "idle" /\ req[r].user # NoUser => req[r].user # req[s].user
    BY <2>1, OneRequestPerUser
  <2> QED
    BY <1>3, <1>r, <2>1, <2>2 DEF CommitRevokeChain, history, RefreshStages, Family, Issued
<1>4. CASE CommitSignOut(s)
  <2>1. req[s].pc # "idle" /\ req[s].user = NoUser
    BY <1>4 DEF CommitSignOut, RequestsReadIssuedRows, ReadsIssuedRows, SignOutStages
  <2>2. req[r].pc # "idle" /\ req[r].user # NoUser /\ req[s].tok \in Issued
           => owner[req[s].tok] # req[r].user
    BY <2>1, OneRequestPerUser
  <2> QED
    BY <1>4, <1>r, <2>1, <2>2 DEF CommitSignOut, history, RefreshStages, Family, Issued
<1> QED
  BY <1>1, <1>2, <1>3, <1>4

\* A step that writes no row moves one request, whose reads are current.
LEMMA OwnReadsStayCurrent ==
  ASSUME SerialInv, NEW r \in Requests,
         Begin(r) \/ Serve(r) \/ Answer(r) \/ DeadlockDetected(r) \/ Drop(r)
  PROVE  /\ req'[r].pc \in RefreshStages => req'[r].tok \notin revoked'
         /\ req'[r].pc \in {"lock_chain", "commit_chain"}
               => req'[r].targets = Family(req[r].user)'
         /\ req'[r].pc = "auth_error"
               => \A n \in Tokens : parent'[n] \in req'[r].targets => n \in req'[r].targets
         /\ \A s \in Requests \ {r} : req'[s] = req[s]
<1> DEFINE Current ==
      /\ req'[r].pc \in RefreshStages => req'[r].tok \notin revoked'
      /\ req'[r].pc \in {"lock_chain", "commit_chain"}
            => req'[r].targets = Family(req[r].user)'
      /\ req'[r].pc = "auth_error"
            => \A n \in Tokens : parent'[n] \in req'[r].targets => n \in req'[r].targets
      /\ \A s \in Requests \ {r} : req'[s] = req[s]
<1> USE DEF NoRequest, Request, SignInStages, SignInCommits, RefreshStages, SerialInv, Inv,
            TypeOK, rows, history
<1>1. CASE Begin(r)
  <2>1. ASSUME NEW t \in Presentable, NEW n \in Tokens, RedeemLookup(r, t, n) PROVE Current
    BY <2>1 DEF RedeemLookup, Live
  <2>2. ASSUME NEW u \in Users, NEW n \in Tokens, NEW stage \in SignInStages,
               SignInLookup(r, u, n, stage)
        PROVE  Current
    BY <2>2 DEF SignInLookup
  <2>3. ASSUME NEW t \in Presentable,
               RedeemRefused(r, t) \/ RedeemRevoked(r, t) \/ SignOut(r, t)
        PROVE  Current
    BY <2>3 DEF RedeemRefused, RedeemRevoked, SignOut
  <2> QED
    BY <1>1, <2>1, <2>2, <2>3 DEF Begin, SignInRefused
<1>2. CASE Serve(r)
  <2>1. CASE InsertUser(r) \/ UpdateUser(r) \/ SignOutUpdate(r)
    BY <2>1 DEF InsertUser, UpdateUser, SignOutUpdate
  <2>2. CASE RedeemRotate(r)
    BY <2>2 DEF RedeemRotate, SerialReadsStayCurrent
  <2>3. CASE RevokeChainSnapshot(r)
    <3>1. \A u : Family(u)' = Family(u)
      BY <2>3 DEF RevokeChainSnapshot, Family, Issued
    <3>2. /\ req'[r].pc = "lock_chain" /\ req'[r].targets = Family(req[r].user)
          /\ req'[r].user = req[r].user
          /\ \A s \in Requests \ {r} : req'[s] = req[s]
      BY <2>3 DEF RevokeChainSnapshot
    <3> QED
      BY <3>1, <3>2
  <2>4. CASE RevokeChainUpdate(r)
    <3>1. \A u : Family(u)' = Family(u)
      BY <2>4 DEF RevokeChainUpdate, Family, Issued
    <3>2. /\ req'[r].pc = "commit_chain" /\ req'[r].targets = Family(req[r].user)
          /\ req'[r].user = req[r].user
          /\ \A s \in Requests \ {r} : req'[s] = req[s]
      BY <2>4 DEF RevokeChainUpdate, SerialReadsStayCurrent
    <3> QED
      BY <3>1, <3>2
  <2>7. ASSUME NEW t \in Tokens, LockChainRow(r, t) PROVE Current
    <3>1. \A u : Family(u)' = Family(u)
      BY <2>7 DEF LockChainRow, Family, Issued
    <3>2. /\ req'[r].pc = "lock_chain" /\ req'[r].targets = Family(req[r].user)
          /\ req'[r].user = req[r].user
          /\ \A s \in Requests \ {r} : req'[s] = req[s]
      BY <2>7 DEF LockChainRow, SerialReadsStayCurrent
    <3> QED
      BY <3>1, <3>2
  <2>5. CASE CommitRevokeChain(r)
    <3>1. req[r].targets = Family(req[r].user)
      BY <2>5 DEF CommitRevokeChain, SerialReadsStayCurrent
    <3>2. \A n \in Tokens : parent[n] \in Family(req[r].user) => n \in Family(req[r].user)
      BY NoValues DEF SuccessorBurnsOriginal, Family, Issued
    <3> QED
      BY <2>5, <3>1, <3>2 DEF CommitRevokeChain
  <2>6. CASE CommitSignIn(r) \/ CommitRefresh(r) \/ CommitSignOut(r)
    BY <2>6 DEF CommitSignIn, CommitRefresh, CommitSignOut
  <2> QED
    BY <1>2, <2>1, <2>2, <2>3, <2>4, <2>5, <2>6, <2>7 DEF Serve
<1>3. CASE Answer(r) \/ DeadlockDetected(r) \/ Drop(r)
  <2>1. \/ req' = [req EXCEPT ![r] = NoRequest]
        \/ req' = [req EXCEPT ![r] = [NoRequest EXCEPT !.pc = "database_error"]]
    BY <1>3 DEF Answer, AnswerPayload, AnswerError, AnswerSignedOut, DeadlockDetected, Drop
  <2> QED
    BY <2>1
<1> QED
  BY <1>1, <1>2, <1>3

\* Before any request there is no overlap.
LEMMA SerialInit == Init => SerialInv
  BY InitInv, NoValues
     DEF Init, SerialInv, NoOverlap, SerialReadsStayCurrent, SingleUse,
         CondemnedFamiliesAreClosed, NoRequest, RefreshStages

\* A redemption gives its token the first successor, and never one that was
\* condemned.
LEMMA SerialFamilies ==
  ASSUME SerialInv, NEW r \in Requests,
         Begin(r) \/ Serve(r) \/ Answer(r) \/ DeadlockDetected(r) \/ Drop(r)
  PROVE  SingleUse' /\ CondemnedFamiliesAreClosed'
<1> USE NoValues DEF SerialInv, Inv, SingleUse, CondemnedFamiliesAreClosed
<1>1. CASE CommitRefresh(r)
  <2>1. /\ req[r].tok \in Tokens /\ req[r].tok \notin revoked
        /\ req[r].new \in Tokens \ Issued /\ parent[req[r].new] = NoToken
    BY <1>1 DEF CommitRefresh, RefreshStages, SerialReadsStayCurrent, DrawnTokensArePrivate,
                RequestsReadIssuedRows, ReadsIssuedRows, Issued
  <2>2. \A n \in Tokens : parent[n] # req[r].tok
    BY <2>1 DEF SuccessorBurnsOriginal
  <2>3. req[r].tok \notin condemned
    BY <2>1 DEF RepliesAreCommitted
  <2> QED
    BY <1>1, <2>1, <2>2, <2>3 DEF CommitRefresh, TypeOK
<1>2. CASE AnswerError(r)
  <2>1. \A n \in Tokens : parent[n] \in req[r].targets => n \in req[r].targets
    BY <1>2 DEF AnswerError, SerialReadsStayCurrent, RequestsReadIssuedRows, ReadsIssuedRows
  <2> QED
    BY <1>2, <2>1 DEF AnswerError
<1>3. CASE UNCHANGED <<parent, condemned>>
  BY <1>3
<1>4. CommitRefresh(r) \/ AnswerError(r) \/ UNCHANGED <<parent, condemned>>
  BY DEF Begin, SignInRefused, SignInLookup, RedeemRefused, RedeemRevoked, RedeemLookup,
         SignOut, Serve, InsertUser, UpdateUser, CommitSignIn, RedeemRotate,
         RevokeChainSnapshot, LockChainRow, RevokeChainUpdate, CommitRevokeChain,
         SignOutUpdate, CommitSignOut, Answer, AnswerPayload, AnswerSignedOut,
         DeadlockDetected, Drop, history
<1> QED
  BY <1>1, <1>2, <1>3, <1>4

\* Without overlapping requests of one account, what a request has read stays
\* current until its commit.
LEMMA SerialNext ==
  SerialInv /\ [Next /\ NoOverlap']_vars => SerialInv'
<1> SUFFICES ASSUME SerialInv, [Next /\ NoOverlap']_vars PROVE SerialInv'
  OBVIOUS
<1>1. Inv'
  BY NextInv DEF SerialInv
<1>2. ASSUME NEW r \in Requests, NoOverlap',
             Begin(r) \/ Serve(r) \/ Answer(r) \/ DeadlockDetected(r) \/ Drop(r)
      PROVE  SerialInv'
  <2>1. ASSUME NEW s \in Requests, s # r, UNCHANGED <<owner, revoked, parent>>
        PROVE  /\ req[s].pc \in RefreshStages => req[s].tok \notin revoked'
               /\ req[s].pc \in {"lock_chain", "commit_chain"}
                     => req[s].targets = Family(req[s].user)'
               /\ req[s].pc = "auth_error"
                     => \A n \in Tokens : parent'[n] \in req[s].targets => n \in req[s].targets
    <3>1. req'[s] = req[s]
      BY <1>2, <2>1, OwnReadsStayCurrent
    <3> QED
      BY <2>1, <3>1 DEF SerialInv, SerialReadsStayCurrent, Family, Issued
  <2>2. \/ UNCHANGED <<owner, revoked, parent>>
        \/ CommitSignIn(r) \/ CommitRefresh(r) \/ CommitRevokeChain(r) \/ CommitSignOut(r)
    BY <1>2 DEF Begin, SignInRefused, SignInLookup, RedeemRefused, RedeemRevoked, RedeemLookup,
                SignOut, Serve, InsertUser, UpdateUser, RedeemRotate, RevokeChainSnapshot,
                LockChainRow, RevokeChainUpdate, SignOutUpdate, Answer, AnswerPayload,
                AnswerError, AnswerSignedOut, DeadlockDetected, Drop, rows, history
  <2>3. SerialReadsStayCurrent'
    BY <1>2, <2>1, <2>2, OwnReadsStayCurrent, OthersStayCurrent DEF SerialReadsStayCurrent
  <2> QED
    BY <1>1, <1>2, <2>3, SerialFamilies DEF SerialInv
<1>3. ASSUME NEW t \in Tokens, Expire(t), NoOverlap' PROVE SerialInv'
  BY <1>1, <1>3 DEF Expire, SerialInv, SerialReadsStayCurrent, SingleUse,
                    CondemnedFamiliesAreClosed, Family, Issued, rows, history
<1>4. CASE UNCHANGED vars
  BY <1>1, <1>4 DEF vars, SerialInv, NoOverlap, Account, SerialReadsStayCurrent, SingleUse,
                    CondemnedFamiliesAreClosed, Family, Issued
<1> QED
  BY <1>2, <1>3, <1>4 DEF Next

\* The reads of serial requests are current in every state.
THEOREM SerialInvariance == SerialSpec => []SerialInv
<1> QED
  BY SerialInit, SerialNext, PTL DEF SerialSpec

\* Without overlap a refresh token is redeemed at most once.
THEOREM SerialSingleUse == SerialSpec => []SingleUse
<1>1. SerialInv => SingleUse
  BY DEF SerialInv
<1> QED
  BY <1>1, SerialInvariance, PTL

\* Without overlap no successor survives the detection of reuse.
THEOREM SerialReuse == SerialSpec => []ReuseLeavesNoSurvivor
<1>1. SerialInv => ReuseLeavesNoSurvivor
  BY DEF SerialInv, Inv, RepliesAreCommitted, CondemnedFamiliesAreClosed,
         ReuseLeavesNoSurvivor
<1> QED
  BY <1>1, SerialInvariance, PTL

\* Without overlap the commit of each mutation is one step of SessionFamilies,
\* and every other statement is none.
THEOREM Refinement == SerialSpec => ImplementsFamilies
<1>1. Init => Families!Init
  BY DEF Init, Families!Init
<1>2. SerialInv /\ [Next]_vars => [Families!Next]_Families!vars
  <2> SUFFICES ASSUME SerialInv, Next
               PROVE  Families!Next \/ UNCHANGED <<owner, revoked, parent>>
    BY DEF vars, Families!vars
  <2> USE DEF SerialInv, Inv
  <2>1. ASSUME NEW r \in Requests, CommitSignIn(r) PROVE Families!Next
    <3>1. req[r].user \in Users /\ req[r].new \in Tokens \ Issued
      BY <2>1 DEF CommitSignIn, SignInStages, SignInCommits, RequestsReadIssuedRows,
                  ReadsIssuedRows, DrawnTokensArePrivate
    <3>2. Families!SignIn(req[r].user, req[r].new)
      BY <2>1, <3>1 DEF CommitSignIn, Families!SignIn, Families!Unissued, Issued, history
    <3> QED
      BY <3>1, <3>2 DEF Families!Next
  <2>2. ASSUME NEW r \in Requests, CommitRefresh(r) PROVE Families!Next
    <3>1. /\ req[r].tok \in Issued \ revoked /\ req[r].user = owner[req[r].tok]
          /\ req[r].new \in Tokens \ Issued
      BY <2>2 DEF CommitRefresh, RefreshStages, RequestsReadIssuedRows, ReadsIssuedRows,
                  DrawnTokensArePrivate, SerialReadsStayCurrent
    <3>2. Families!Refresh(req[r].tok, req[r].new)
      BY <2>2, <3>1 DEF CommitRefresh, Families!Refresh, Families!Unissued, Families!Issued,
                        Issued
    <3> QED
      BY <3>1, <3>2 DEF Families!Next, Issued
  <2>3. ASSUME NEW r \in Requests, CommitRevokeChain(r) PROVE Families!Next
    <3>1. /\ req[r].tok \in Tokens /\ req[r].tok \in revoked
          /\ revoked \cup req[r].locked
               = revoked \cup {t \in Issued : owner[t] = owner[req[r].tok]}
      BY <2>3 DEF CommitRevokeChain, ChainStages, RequestsReadIssuedRows, ReadsIssuedRows,
                  SerialReadsStayCurrent, Family, Issued
    <3>2. Families!Reuse(req[r].tok)
      BY <2>3, <3>1 DEF CommitRevokeChain, Families!Reuse, Families!Unissued,
                        Families!Issued, Issued, history
    <3> QED
      BY <3>1, <3>2 DEF Families!Next
  <2>4. ASSUME NEW r \in Requests, CommitSignOut(r)
        PROVE  Families!Next \/ UNCHANGED <<owner, revoked, parent>>
    <3>1. CASE req[r].tok \in Issued
      <4>1. Families!SignOut(req[r].tok)
        BY <2>4, <3>1 DEF CommitSignOut, Families!SignOut, Families!Unissued,
                          Families!Issued, Issued, history
      <4> QED
        BY <3>1, <4>1 DEF Families!Next, Issued
    <3>2. CASE req[r].tok \notin Issued
      BY <2>4, <3>2 DEF CommitSignOut, history
    <3> QED
      BY <3>1, <3>2
  <2>5. \/ UNCHANGED <<owner, revoked, parent>>
        \/ \E r \in Requests : \/ CommitSignIn(r) \/ CommitRefresh(r)
                               \/ CommitRevokeChain(r) \/ CommitSignOut(r)
    <3>1. UNCHANGED parent \/ \E r \in Requests : CommitRefresh(r)
      BY DEF Next, Begin, SignInRefused, SignInLookup, RedeemRefused, RedeemRevoked,
             RedeemLookup, SignOut, Serve, InsertUser, UpdateUser, CommitSignIn,
             RedeemRotate, RevokeChainSnapshot, LockChainRow, RevokeChainUpdate,
             CommitRevokeChain, SignOutUpdate, CommitSignOut, Answer, AnswerPayload,
             AnswerError, AnswerSignedOut, DeadlockDetected, Drop, Expire, history
    <3> QED
      BY <3>1, RowWriters DEF rows
  <2> QED
    BY <2>1, <2>2, <2>3, <2>4, <2>5
<1> QED
  BY <1>1, <1>2, SerialInvariance, PTL
     DEF SerialSpec, ImplementsFamilies, Families!Spec
=============================================================================
