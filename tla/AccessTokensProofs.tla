------------------------- MODULE AccessTokensProofs -------------------------
(***************************************************************************)
(* For every lifetime, bucket and number of users, tokens and queries: how *)
(* long what a session has handed out outlives the session.                *)
(***************************************************************************)
EXTENDS AccessTokens, MediaLinksProofs

RowsAreTyped ==
    /\ owner \in [Tokens -> Users \cup {NoUser}]
    /\ \A t \in revoked : t \in Tokens /\ owner[t] # NoUser

TimesAreTyped ==
    /\ now \in Nat
    /\ minted \in [Users -> Nat \cup {Never}]
    /\ lockedAt \in [Users -> Nat \cup {Never}]
    /\ query \in [Requests -> Query]

\* No access token of a locked user is newer than the lock.
MintsPrecedeLocks ==
    \A u \in Users :
        /\ minted[u] # Never => minted[u] <= now
        /\ lockedAt[u] # Never => lockedAt[u] <= now
        /\ minted[u] # Never /\ lockedAt[u] # Never => minted[u] <= lockedAt[u]

\* A query was admitted within the life of such a token, and is not overdue.
QueriesAreTimely ==
    \A r \in Requests : query[r].viewer # NoUser =>
        /\ query[r].since <= now
        /\ now <= query[r].since + RequestTime
        /\ lockedAt[query[r].viewer] # Never =>
              query[r].since <= lockedAt[query[r].viewer] + AccessTtl - 1

\* The held link was built by such a query.
LinkIsTimely ==
    held # Never =>
        /\ heldBy \in Users
        /\ held.builtAt \in Nat
        /\ held.builtAt <= now
        /\ held.url.exp = Expiry(held.builtAt)
        /\ lockedAt[heldBy] # Never =>
              held.builtAt <= lockedAt[heldBy] + AccessTtl - 1 + RequestTime

ExposureInv ==
    RowsAreTyped /\ TimesAreTyped /\ MintsPrecedeLocks /\ QueriesAreTimely /\ LinkIsTimely

\* What a lock or an unlock does to the bounds, whoever mints in the same step.
LEMMA LocksKeepBounds ==
  ASSUME ExposureInv, NoteLocks, UNCHANGED <<links, served>>,
         minted' \in [Users -> Nat \cup {Never}],
         \A u \in Users : minted'[u] = minted[u]
                            \/ (minted'[u] = now /\ HasSession(u)')
  PROVE  TimesAreTyped' /\ MintsPrecedeLocks' /\ QueriesAreTimely' /\ LinkIsTimely'
<1> USE AccessAssumption, TimesAreNatural DEF ExposureInv, TimesAreTyped, links, served, vars
<1>1. \A u \in Users : lockedAt'[u] = IF HasSession(u)' THEN Never
                                      ELSE IF HasSession(u) THEN now ELSE lockedAt[u]
  BY DEF NoteLocks
<1>2. \A u \in Users : lockedAt'[u] = Never \/ lockedAt'[u] = now \/ lockedAt'[u] = lockedAt[u]
  BY <1>1
<1>3. TimesAreTyped'
  BY <1>2 DEF NoteLocks
<1>4. MintsPrecedeLocks'
  BY <1>1, <1>3 DEF MintsPrecedeLocks
<1>5. QueriesAreTimely'
  BY <1>2, <1>3 DEF QueriesAreTimely, Query
<1>6. LinkIsTimely'
  <2>1. \A t : Expiry(t)' = Expiry(t)
    BY DEF Expiry, RoundUp
  <2> QED
    BY <1>2, <1>3, <2>1 DEF LinkIsTimely
<1> QED
  BY <1>3, <1>4, <1>5, <1>6

\* Nobody has a session or a link yet.
LEMMA ExposureInvInit == SystemInit => ExposureInv
  BY AccessAssumption, TimesAreNatural
     DEF SystemInit, Init, Families!Init, ExposureInv, RowsAreTyped, TimesAreTyped,
         MintsPrecedeLocks, QueriesAreTimely, LinkIsTimely, NoQuery, Query

\* Each mutation, query, download and second keeps the chain of bounds from
\* lock-out to cached bytes (tokens.py, context.py, storage.py).
LEMMA ExposureInvNext == ExposureInv /\ [SystemNext]_allVars => ExposureInv'
<1> SUFFICES ASSUME ExposureInv, [SystemNext]_allVars PROVE ExposureInv'
  OBVIOUS
<1> USE AccessAssumption, TimesAreNatural
<1>1. ASSUME NEW u \in Users, NEW n \in Tokens, SignIn(u, n) PROVE ExposureInv'
  <2>1. RowsAreTyped' /\ HasSession(u)'
    BY <1>1 DEF SignIn, Families!SignIn, Families!Unissued, ExposureInv, RowsAreTyped, HasSession
  <2>2. /\ minted' \in [Users -> Nat \cup {Never}]
        /\ \A v \in Users : minted'[v] = minted[v] \/ (minted'[v] = now /\ HasSession(v)')
    BY <1>1, <2>1 DEF SignIn, Mint, ExposureInv, TimesAreTyped
  <2> QED
    BY <1>1, <2>1, <2>2, LocksKeepBounds DEF SignIn, ExposureInv
<1>2. ASSUME NEW t \in Tokens, NEW n \in Tokens, RefreshSession(t, n) PROVE ExposureInv'
  <2>1. PICK u \in Users : owner[t] = u
    BY <1>2 DEF RefreshSession, Families!Refresh, Families!Issued, Families!Unissued,
                ExposureInv, RowsAreTyped
  <2>2. RowsAreTyped' /\ HasSession(u)'
    BY <1>2, <2>1 DEF RefreshSession, Families!Refresh, Families!Issued, Families!Unissued,
                ExposureInv, RowsAreTyped, HasSession
  <2>3. /\ minted' \in [Users -> Nat \cup {Never}]
        /\ \A v \in Users : minted'[v] = minted[v] \/ (minted'[v] = now /\ HasSession(v)')
    BY <1>2, <2>1, <2>2 DEF RefreshSession, Mint, ExposureInv, TimesAreTyped
  <2> QED
    BY <1>2, <2>2, <2>3, LocksKeepBounds DEF RefreshSession, ExposureInv
<1>3. ASSUME NEW t \in Tokens, ReuseDetected(t) PROVE ExposureInv'
  <2>1. RowsAreTyped'
    BY <1>3 DEF ReuseDetected, Families!Reuse, Families!Issued, Families!Unissued,
                ExposureInv, RowsAreTyped
  <2> QED
    BY <1>3, <2>1, LocksKeepBounds DEF ReuseDetected, ExposureInv, TimesAreTyped
<1>4. ASSUME NEW t \in Tokens, SignOut(t) PROVE ExposureInv'
  <2>1. RowsAreTyped'
    BY <1>4 DEF SignOut, Families!SignOut, Families!Issued, Families!Unissued,
                ExposureInv, RowsAreTyped
  <2> QED
    BY <1>4, <2>1, LocksKeepBounds DEF SignOut, ExposureInv, TimesAreTyped
<1> USE DEF ExposureInv, RowsAreTyped, TimesAreTyped, MintsPrecedeLocks, QueriesAreTimely,
            LinkIsTimely, links, sessions, vars
<1> DEFINE SameExpiry == \A b : Expiry(b)' = Expiry(b)
<1>0. SameExpiry
  BY DEF Expiry, RoundUp
<1>5. ASSUME NEW r \in Requests, NEW u \in Users, Admit(r, u) PROVE ExposureInv'
  <2>1. /\ query' \in [Requests -> Query]
        /\ query'[r] = [viewer |-> u, since |-> now]
        /\ \A s \in Requests \ {r} : query'[s] = query[s]
    BY <1>5 DEF Admit, Query
  <2>2. now < minted[u] + AccessTtl /\ minted[u] \in Nat
    BY <1>5 DEF Admit, Accepted
  <2>3. QueriesAreTimely'
    BY <1>5, <2>1, <2>2 DEF Admit, Query
  <2> QED
    BY <1>0, <1>5, <2>1, <2>3 DEF Admit
<1>6. ASSUME NEW r \in Requests, NEW p \in Shown, BuildFor(r, p) PROVE ExposureInv'
  <2>1. query[r].viewer \in Users /\ query[r].since \in Nat
    BY <1>6 DEF BuildFor, Query
  <2>2. LinkIsTimely'
    BY <1>0, <1>6, <2>1 DEF BuildFor, Build
  <2> QED
    BY <1>6, <2>2 DEF BuildFor, Build
<1>7. ASSUME NEW r \in Requests, Reply(r) PROVE ExposureInv'
  <2>1. /\ query' \in [Requests -> Query]
        /\ \A s \in Requests : query'[s] = query[s] \/ query'[s].viewer = NoUser
    BY <1>7 DEF Reply, NoQuery, Query
  <2> QED
    BY <1>0, <1>7, <2>1 DEF Reply
<1>8. CASE Media
  <2>1. UNCHANGED <<now, held, heldBy, sessions, minted, query, lockedAt>>
    BY <1>8 DEF Media, Serve, Accept, Find, Deliver, Abort, Backfill
  <2> QED
    BY <1>0, <2>1
<1>9. CASE PassTime
  <2>1. now' = now + 1 /\ UNCHANGED <<held, heldBy, sessions, minted, query, lockedAt>>
    BY <1>9 DEF PassTime, Tick
  <2>2. MintsPrecedeLocks'
    BY <2>1
  <2>3. QueriesAreTimely'
    BY <1>9, <2>1 DEF PassTime, Query
  <2>4. LinkIsTimely'
    BY <1>0, <2>1
  <2> QED
    BY <2>1, <2>2, <2>3, <2>4
<1>10. CASE UNCHANGED allVars
  BY <1>0, <1>10 DEF allVars, served
<1> QED
  BY <1>1, <1>2, <1>3, <1>4, <1>5, <1>6, <1>7, <1>8, <1>9, <1>10 DEF SystemNext

\* The composition is faithful to its parts: seen through the links alone it is
\* MediaLinks, seen through the rows alone it is SessionFamilies.
THEOREM Composition == SystemSpec => Spec /\ Families!Spec
<1>1. SystemInit => Init /\ Families!Init
  BY DEF SystemInit
<1>2. [SystemNext]_allVars => [Next]_vars /\ [Families!Next]_<<owner, revoked, parent>>
  <2> SUFFICES ASSUME [SystemNext]_allVars
               PROVE  [Next]_vars /\ [Families!Next]_<<owner, revoked, parent>>
    OBVIOUS
  <2> USE DEF links, sessions
  <2>1. ASSUME NEW u \in Users, NEW n \in Tokens, SignIn(u, n)
        PROVE  Families!Next /\ UNCHANGED vars
    BY <2>1 DEF SignIn, Families!Next
  <2>2. ASSUME NEW t \in Tokens, NEW n \in Tokens, RefreshSession(t, n)
        PROVE  Families!Next /\ UNCHANGED vars
    BY <2>2 DEF RefreshSession, Families!Next
  <2>3. ASSUME NEW t \in Tokens, ReuseDetected(t) \/ SignOut(t)
        PROVE  Families!Next /\ UNCHANGED vars
    BY <2>3 DEF ReuseDetected, SignOut, Families!Next
  <2>4. ASSUME NEW r \in Requests, NEW u \in Users, Admit(r, u) \/ Reply(r)
        PROVE  UNCHANGED <<vars, owner, revoked, parent>>
    BY <2>4 DEF Admit, Reply
  <2>5. ASSUME NEW r \in Requests, NEW p \in Shown, BuildFor(r, p)
        PROVE  Next /\ UNCHANGED <<owner, revoked, parent>>
    BY <2>5, AccessAssumption DEF BuildFor, Next
  <2>6. CASE Media
    BY <2>6 DEF Media, Next
  <2>7. CASE PassTime
    BY <2>7 DEF PassTime, Next
  <2>8. CASE UNCHANGED allVars
    BY <2>8 DEF allVars
  <2>9. ASSUME NEW r \in Requests, Reply(r) PROVE UNCHANGED <<vars, owner, revoked, parent>>
    BY <2>9 DEF Reply
  <2> QED
    BY <2>1, <2>2, <2>3, <2>4, <2>5, <2>6, <2>7, <2>8, <2>9 DEF SystemNext
<1> QED
  BY <1>1, <1>2, PTL DEF SystemSpec, Spec, Families!Spec, Families!vars

\* After the death of a user's last session the server lets in media requests for
\* a link built for that user for at most Exposure seconds, whatever the lifetimes.
THEOREM BoundedExposure == SystemSpec => ExposureIsBounded
<1> DEFINE Let == \A d \in Downloads :
                    download[d] = Never /\ download'[d] # Never /\ lockedAt[heldBy] # Never
                       => now <= lockedAt[heldBy] + Exposure
<1>1. ASSUME ExposureInv, TypeOK, [SystemNext]_allVars, NEW d \in Downloads,
             download[d] = Never, download'[d] # Never, lockedAt[heldBy] # Never
      PROVE  now <= lockedAt[heldBy] + Exposure
  <2>1. PICK c \in Downloads, p \in Path, e \in {u.exp : u \in urls} : Accept(c, p, e)
    <3>1. CASE Media
      <4>1. CASE Serve
        <5>1. ASSUME NEW c \in Downloads, Find(c) \/ Deliver(c) \/ Abort(c) PROVE FALSE
          BY <1>1, <5>1 DEF Find, Selecting, Deliver, Abort, TypeOK
        <5> QED
          BY <4>1, <5>1 DEF Serve
      <4>2. CASE ~Serve
        BY <1>1, <3>1, <4>2 DEF Media, Backfill
      <4> QED
        BY <4>1, <4>2
    <3>2. CASE ~Media
      BY <1>1, <3>2 DEF SystemNext, SignIn, RefreshSession, ReuseDetected, SignOut, Admit,
           BuildFor, Build, Reply, PassTime, Tick, allVars, links, vars
    <3> QED
      BY <3>1, <3>2
  <2>2. held # Never /\ ~(held.url.exp < now)
    BY <2>1 DEF Accept, Verified
  <2>3. /\ heldBy \in Users /\ held.builtAt \in Nat /\ now \in Nat
        /\ lockedAt[heldBy] \in Nat
        /\ held.url.exp = Expiry(held.builtAt)
        /\ held.builtAt <= lockedAt[heldBy] + AccessTtl - 1 + RequestTime
    BY <1>1, <2>2 DEF ExposureInv, LinkIsTimely, TimesAreTyped
  <2>4. Expiry(held.builtAt) \in Int /\ Expiry(held.builtAt) < held.builtAt + Ttl + Bucket
    BY <2>3, ExpiryBounds
  <2> QED
    BY <2>2, <2>3, <2>4, AccessAssumption, TimesAreNatural DEF Exposure
<1>2. ExposureInv /\ TypeOK /\ [SystemNext]_allVars => [Let]_allVars
  BY <1>1
<1> QED
  BY <1>2, ExposureInvInit, ExposureInvNext, Composition, LinksTypeCorrect,
     PTL DEF SystemSpec, ExposureIsBounded

\* Every variable of the system keeps its type.
THEOREM SystemTypeCorrect == SystemSpec => []SystemTypeOK
<1> DEFINE RestIsTyped == /\ parent \in [Tokens -> Tokens \cup {NoToken}]
                          /\ heldBy \in Users \cup {NoUser}
<1>1. SystemInit => RestIsTyped
  BY DEF SystemInit, Families!Init
<1>2. ExposureInv /\ RestIsTyped /\ [SystemNext]_allVars => RestIsTyped'
  <2> SUFFICES ASSUME ExposureInv, RestIsTyped, [SystemNext]_allVars PROVE RestIsTyped'
    OBVIOUS
  <2> USE DEF links, sessions, served
  <2>1. ASSUME NEW u \in Users, NEW n \in Tokens, SignIn(u, n) PROVE RestIsTyped'
    BY <2>1 DEF SignIn, Families!SignIn
  <2>2. ASSUME NEW t \in Tokens, NEW n \in Tokens, RefreshSession(t, n) PROVE RestIsTyped'
    BY <2>2 DEF RefreshSession, Families!Refresh
  <2>3. ASSUME NEW t \in Tokens, ReuseDetected(t) \/ SignOut(t) PROVE RestIsTyped'
    BY <2>3 DEF ReuseDetected, SignOut, Families!Reuse, Families!SignOut
  <2>4. ASSUME NEW r \in Requests, NEW u \in Users, Admit(r, u) PROVE RestIsTyped'
    BY <2>4 DEF Admit
  <2>5. ASSUME NEW r \in Requests, NEW p \in Shown, BuildFor(r, p) PROVE RestIsTyped'
    BY <2>5 DEF BuildFor, ExposureInv, TimesAreTyped, Query
  <2>6. ASSUME NEW r \in Requests, Reply(r) PROVE RestIsTyped'
    BY <2>6 DEF Reply
  <2>7. CASE Media \/ PassTime \/ UNCHANGED allVars
    BY <2>7 DEF Media, PassTime, allVars
  <2> QED
    BY <2>1, <2>2, <2>3, <2>4, <2>5, <2>6, <2>7 DEF SystemNext
<1>3. ExposureInv /\ RestIsTyped /\ TypeOK => SystemTypeOK
  BY DEF ExposureInv, RowsAreTyped, TimesAreTyped, SystemTypeOK
<1> QED
  BY <1>1, <1>2, <1>3, ExposureInvInit, ExposureInvNext, Composition, LinksTypeCorrect,
     PTL DEF SystemSpec

\* So what MediaLinks promises of its links holds in the system.
COROLLARY SystemLinks == SystemSpec => [](LinkOutlivesTtl /\ FallbackIsShortLived)
  BY Composition, Lifetime, Freshness, PTL
=============================================================================
