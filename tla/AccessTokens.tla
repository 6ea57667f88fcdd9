---------------------------- MODULE AccessTokens ----------------------------
(***************************************************************************)
(* What a session is worth, and for how long: refresh tokens in the        *)
(* database (SessionFamilies), access tokens that live by their signature  *)
(* alone, the viewer a request resolves once, and the media URLs its reply *)
(* carries away (MediaLinks, whose clock all of them share).               *)
(*                                                                         *)
(* Revoking touches the database only.  An access token minted before goes *)
(* on admitting requests, a request admitted goes on building URLs, and a  *)
(* URL goes on opening files, and a download let in goes on to its end.    *)
(***************************************************************************)
EXTENDS MediaLinks

CONSTANTS
    Users, Tokens, NoUser, NoToken,   \* as in SessionFamilies
    Requests,     \* queries the server works on at the same time
    Shown,        \* the paths replies carry URLs of
    AccessTtl,    \* access_token_ttl_seconds
    RequestTime   \* bound: a query is answered within so many seconds

ASSUME AccessAssumption ==
    /\ AccessTtl \in Nat \ {0}
    /\ RequestTime \in Nat
    /\ NoUser \notin Users
    /\ Shown \subseteq Path

VARIABLES
    owner, revoked, parent,   \* rows of refresh_tokens, as in SessionFamilies
    minted,     \* when the newest access token of a user was minted, or Never
    query       \* each query in progress: its viewer, and since when

\* History: when the last live refresh token of a user died, or Never while one
\* lives, and whose query built the held link.
VARIABLES lockedAt, heldBy

links     == vars
sessions  == <<owner, revoked, parent>>
served    == <<query, heldBy>>
allVars   == <<links, sessions, minted, query, lockedAt, heldBy>>

Families == INSTANCE SessionFamilies WITH
    owner <- owner, revoked <- revoked, parent <- parent

NoQuery == [viewer |-> NoUser, since |-> 0]
Query   == [viewer : Users \cup {NoUser}, since : Nat]

SystemTypeOK ==
    /\ TypeOK
    /\ owner \in [Tokens -> Users \cup {NoUser}]
    /\ revoked \subseteq Tokens
    /\ parent \in [Tokens -> Tokens \cup {NoToken}]
    /\ minted \in [Users -> Nat \cup {Never}]
    /\ query \in [Requests -> Query]
    /\ lockedAt \in [Users -> Nat \cup {Never}]
    /\ heldBy \in Users \cup {NoUser}

SystemInit ==
    /\ Init
    /\ Families!Init
    /\ minted = [u \in Users |-> Never]
    /\ query = [r \in Requests |-> NoQuery]
    /\ lockedAt = [u \in Users |-> Never]
    /\ heldBy = NoUser

-----------------------------------------------------------------------------
\* The mutations, each as one transaction

HasSession(u) == \E t \in Tokens \ revoked : owner[t] = u

\* The locks that close and the locks that open in this step.
NoteLocks ==
    lockedAt' = [u \in Users |->
        IF HasSession(u)' THEN Never
        ELSE IF HasSession(u) THEN now ELSE lockedAt[u]]

\* mint_access_token.  The code mints a moment before the commit; taken with it,
\* the token is good a moment longer.
Mint(u) == minted' = [minted EXCEPT ![u] = now]

SignIn(u, n) ==
    /\ Families!SignIn(u, n)
    /\ Mint(u)
    /\ NoteLocks
    /\ UNCHANGED <<links, served>>

RefreshSession(t, n) ==
    /\ Families!Refresh(t, n)
    /\ Mint(owner[t])
    /\ NoteLocks
    /\ UNCHANGED <<links, served>>

\* _revoke_chain and sign_out leave access tokens alone: they have no row.
ReuseDetected(t) ==
    /\ Families!Reuse(t)
    /\ NoteLocks
    /\ UNCHANGED <<links, minted, served>>

SignOut(t) ==
    /\ Families!SignOut(t)
    /\ NoteLocks
    /\ UNCHANGED <<links, minted, served>>

-----------------------------------------------------------------------------
\* Queries

\* Mutant of Accepted: exp is not verified.
AcceptedForEver(u) == minted[u] # Never

\* verify_access_token: the newest token of u, if it has not expired; exp is the
\* whole second mint + AccessTtl and PyJWT refuses exp <= now.
Accepted(u) == minted[u] # Never /\ now < minted[u] + AccessTtl

\* get_context resolves the viewer before any field runs, and every field asks
\* for one (IsAuthenticated): without it the reply is 401 and nothing happens.
Admit(r, u) ==
    /\ query[r] = NoQuery
    /\ Accepted(u)
    /\ query' = [query EXCEPT ![r] = [viewer |-> u, since |-> now]]
    /\ UNCHANGED <<links, sessions, minted, lockedAt, heldBy>>

\* A field of an admitted query builds a URL; the token is not looked at again.
BuildFor(r, p) ==
    /\ query[r].viewer # NoUser
    /\ Build(p)
    /\ heldBy' = query[r].viewer
    /\ UNCHANGED <<sessions, minted, query, lockedAt>>

Reply(r) ==
    /\ query[r].viewer # NoUser
    /\ query' = [query EXCEPT ![r] = NoQuery]
    /\ UNCHANGED <<links, sessions, minted, lockedAt, heldBy>>

\* The media routes know no user; a thumbnail may be committed at any time.
Media ==
    /\ \/ Serve
       \/ \E f \in Files : Backfill(f)
    /\ UNCHANGED <<sessions, minted, query, lockedAt, heldBy>>

PassTime ==
    /\ Tick
    /\ \A r \in Requests : query[r].viewer # NoUser => now < query[r].since + RequestTime
    /\ UNCHANGED <<sessions, minted, query, lockedAt, heldBy>>

SystemNext ==
    \/ \E u \in Users, n \in Tokens : SignIn(u, n)
    \/ \E t, n \in Tokens : RefreshSession(t, n)
    \/ \E t \in Tokens : ReuseDetected(t) \/ SignOut(t)
    \/ \E r \in Requests, u \in Users : Admit(r, u)
    \/ \E r \in Requests, p \in Shown : BuildFor(r, p)
    \/ \E r \in Requests : Reply(r)
    \/ Media
    \/ PassTime

SystemSpec == SystemInit /\ [][SystemNext]_allVars

-----------------------------------------------------------------------------
\* From the death of a user's last session: an access token minted at that
\* second, a query admitted in its last one and answered as late as queries are,
\* a URL with the longest life the grid gives.
Exposure == (AccessTtl - 1) + RequestTime + Ttl + (Bucket - 1)

\* Signing out, or reuse of a refresh token, ends everything in bounded time
\* although only the database hears of it: no media request for a link built for
\* a user passes its signature check later than Exposure seconds after the last
\* session of that user died.  A download let in before runs to its end, which
\* nothing bounds (auth/tokens.py, graphql/context.py, media/storage.py and the
\* one check of media/router.py together).
ExposureIsBounded ==
    [][\A d \in Downloads :
         download[d] = Never /\ download'[d] # Never /\ lockedAt[heldBy] # Never
            => now <= lockedAt[heldBy] + Exposure]_allVars
=============================================================================
