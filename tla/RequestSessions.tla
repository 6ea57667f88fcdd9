-------------------------- MODULE RequestSessions --------------------------
(***************************************************************************)
(* How requests share sessions, and sessions the connection pool.          *)
(*                                                                         *)
(* A GraphQL request has one session.  Its fields resolve concurrently and *)
(* its two DataLoaders batch what they ask for; all of them go through the *)
(* lock of SerializedSession.  The session takes a connection from the     *)
(* pool with its first statement and gives it back with a COMMIT or with   *)
(* the ROLLBACK that ends the request, which does not ask for the lock.    *)
(* A media download keeps its connection as long as it streams.            *)
(*                                                                         *)
(* graphql-core, DataLoader, FastAPI and the pool are external; they are   *)
(* modelled by what the code relies on: siblings run under asyncio.gather, *)
(* which neither waits for nor cancels the others when one raises; a batch *)
(* is dispatched once its loads are queued; a yield-dependency is closed   *)
(* after the response is sent; a checkout gives up after pool_timeout.     *)
(***************************************************************************)
EXTENDS Naturals, FiniteSets, Sequences

CONSTANTS
    Queries,    \* GraphQL requests open at the same time
    Downloads,  \* media requests open at the same time
    Fields,     \* the fields of the documents that touch the database
    Documents,  \* what a request may ask for: sets of fields
    Ungated,    \* root fields without a permission class: the mutations
    Keys,       \* ids the loaders are asked for
    Parent,     \* the field a field is nested in, or NoField
    Needs,      \* what each field awaits in turn: Statement, Commit or a key
    Fatal,      \* fields without a nullable ancestor: their error is the reply
    LoaderOf,   \* the loader a key belongs to
    PoolSize,   \* connections the engine opens at most
    NoField, Statement, Commit, Viewer, Rollback, Nobody, Failed

Loaders == {"album_loader", "author_loader"}

ASSUME SessionAssumption ==
    /\ Parent \in [Fields -> Fields \cup {NoField}]
    /\ Documents \subseteq SUBSET Fields
    /\ Needs \in [Fields -> Seq({Statement, Commit} \cup Keys) \ {<<>>}]
    /\ LoaderOf \in [Keys -> Loaders]
    /\ Fatal \subseteq Fields
    /\ Ungated \subseteq Fields
    /\ \A f \in Fields : Parent[f] \notin Ungated
    /\ \A f \in Ungated : Needs[f] \in Seq({Statement, Commit}) /\ Parent[f] = NoField
    /\ PoolSize \in Nat \ {0}
    /\ NoField \notin Fields /\ {Statement, Commit} \cap Keys = {} /\ Failed \notin Nat
    /\ Viewer \notin Fields /\ Viewer # Nobody /\ Nobody \notin Fields
    /\ \A b \in SUBSET Keys : b \notin Fields /\ b # Viewer /\ b # Nobody

VARIABLES
    query,     \* the state of each GraphQL request
    download   \* the state of each media request

vars == <<query, download>>

\* Who executes statements on a session: the lookup of the viewer, a field, or a
\* batch of a loader, which is the set of its keys.
Who == {Viewer} \cup Fields \cup (SUBSET Keys \ {{}})

Query == [
    stage    : {"idle", "context", "executing", "closing", "rollback", "closed"},
    doc      : SUBSET Fields,                          \* what is asked for
    viewer   : BOOLEAN,                                \* context.viewer is a user
    at       : [Fields -> Nat \cup {Failed}],          \* needs met so far
    loads    : [Keys -> {"unasked", "queued", "sent", "loaded", "failed"}],
    inFlight : SUBSET (SUBSET Keys),                   \* batches dispatched
    holder   : Who \cup {Nobody},                      \* of the session's lock
    running  : SUBSET Who,                             \* statements in progress
    conn     : BOOLEAN,                                \* holds a connection
    aborted  : BOOLEAN]                                \* its transaction has failed

NoQuery == [
    stage |-> "idle", doc |-> {}, viewer |-> FALSE, at |-> [f \in Fields |-> 0],
    loads |-> [k \in Keys |-> "unasked"], inFlight |-> {}, holder |-> Nobody,
    running |-> {}, conn |-> FALSE, aborted |-> FALSE]

\* A key in flight belongs to one batch, and is neither queued nor answered.
TypeOK ==
    /\ query \in [Queries -> Query]
    /\ download \in [Downloads -> {"idle", "lookup", "streaming"}]
    /\ \A r \in Queries : \A b, c \in query[r].inFlight :
          /\ \A k \in b : query[r].loads[k] = "sent"
          /\ b # c => b \cap c = {}

Init ==
    /\ query = [r \in Queries |-> NoQuery]
    /\ download = [d \in Downloads |-> "idle"]

-----------------------------------------------------------------------------
\* What a query is waiting for

Done(q, f) == q.at[f] = Len(Needs[f])

\* Field f has been entered and has not returned.  A field that raised has no
\* children.
Entered(q, f) ==
    /\ q.stage \in {"executing", "closing", "rollback", "closed"}
    /\ f \in q.doc
    /\ q.at[f] # Failed /\ ~Done(q, f)
    /\ Parent[f] # NoField => Done(q, Parent[f])

\* Mutant of Permitted: has_permission is a coroutine that nobody awaits.
PermittedUnawaited(q, f) == TRUE

\* IsAuthenticated on every root field that reads the library; the fields below
\* have none, and the mutations neither.
Permitted(q, f) == Parent[f] = NoField => q.viewer \/ f \in Ungated

Need(q, f) == Needs[f][q.at[f] + 1]

Wants(q, w) ==
    \/ w = Viewer /\ q.stage = "context"
    \/ w \in Fields /\ Entered(q, w) /\ Permitted(q, w)
       /\ Need(q, w) \in {Statement, Commit}
    \/ w \in q.inFlight

Settled(q) == \A f \in Fields : ~Entered(q, f)

\* Connections checked out of the pool.
InUse ==
    Cardinality({r \in Queries : query[r].conn})
        + Cardinality({d \in Downloads : download[d] = "streaming"})

Mark(loads, batch, state) == [k \in Keys |-> IF k \in batch THEN state ELSE loads[k]]

Update(r, q) == query' = [query EXCEPT ![r] = q] /\ UNCHANGED download

\* q after the statement of w has returned: with the rows it was after, or with
\* none.  get_user may find no user (context.viewer is None then), and a mutation
\* raises AuthError for a token it does not find.  A COMMIT gives the connection
\* back.
Answered(q, w, found) ==
    IF w = Viewer THEN [q EXCEPT !.stage = "executing", !.viewer = found]
    ELSE IF w \in Fields
    THEN [q EXCEPT !.at[w] = IF w \in Ungated /\ ~found THEN Failed ELSE @ + 1,
                   !.conn = Need(q, w) # Commit]
    ELSE [q EXCEPT !.inFlight = @ \ {w},
                   !.loads = Mark(@, w, "loaded")]

\* An error in get_context ends the request before any field has run, an error in
\* a batch is the answer to each of its loads.
Raised(q, w) ==
    IF w = Viewer THEN [q EXCEPT !.stage = "closing", !.doc = {}]
    ELSE IF w \in Fields THEN [q EXCEPT !.at[w] = Failed]
    ELSE [q EXCEPT !.inFlight = @ \ {w},
                   !.loads = Mark(@, w, "failed")]

-----------------------------------------------------------------------------
\* A statement on a session: SerializedSession.execute

Acquire(r, w) ==
    LET q == query[r] IN
    /\ Wants(q, w) /\ w \notin q.running
    /\ q.holder = Nobody
    /\ Update(r, [q EXCEPT !.holder = w])

\* Mutant of Execute: the load functions close over the raw AsyncSession.
ExecuteRaw(r, w) ==
    LET q == query[r] IN
    /\ q.holder = w \/ w \in q.inFlight
    /\ w \notin q.running
    /\ q.conn \/ InUse < PoolSize
    /\ Update(r, [q EXCEPT !.conn = TRUE, !.running = @ \cup {w}])

\* The first statement checks a connection out.
Execute(r, w) ==
    LET q == query[r] IN
    /\ q.holder = w
    /\ w \notin q.running
    /\ q.stage # "rollback"
    /\ q.conn \/ InUse < PoolSize
    /\ Update(r, [q EXCEPT !.conn = TRUE, !.running = @ \cup {w}])

\* Mutant of CheckoutTimeout: the pool has no pool_timeout, a checkout waits for
\* as long as it takes.
CheckoutTimeoutNever(r, w) ==
    /\ query[r].holder = w /\ ~query[r].conn /\ InUse = PoolSize
    /\ UNCHANGED vars

CheckoutTimeout(r, w) ==
    LET q == query[r] IN
    /\ q.holder = w /\ w \notin q.running
    /\ ~q.conn /\ InUse = PoolSize
    /\ Update(r, [Raised(q, w) EXCEPT !.holder = Nobody])

\* The session is being closed: the driver refuses the statement, "another
\* operation is in progress".
Refuse(r, w) ==
    LET q == query[r] IN
    /\ q.holder = w
    /\ q.stage = "rollback"
    /\ Update(r, [Raised(q, w) EXCEPT !.holder = Nobody])

Return(r, w, found) ==
    LET q == query[r] IN
    /\ w \in q.running /\ ~q.aborted
    /\ Update(r, [Answered(q, w, found) EXCEPT !.running = @ \ {w}, !.holder = Nobody])

\* PostgreSQL reports an error; nobody rolls back, so every later statement of
\* the transaction reports one too.
Raise(r, w) ==
    LET q == query[r] IN
    /\ w \in q.running
    /\ Update(r, [Raised(q, w) EXCEPT !.running = @ \ {w}, !.holder = Nobody,
                                      !.aborted = TRUE])

-----------------------------------------------------------------------------
\* Loaders

\* load(k): the first one queues the key, later ones share its future.
Load(r, f) ==
    LET q == query[r] IN
    /\ Entered(q, f) /\ Permitted(q, f)
    /\ Need(q, f) \in Keys
    /\ q.loads[Need(q, f)] = "unasked"
    /\ Update(r, [q EXCEPT !.loads[Need(q, f)] = "queued"])

\* Mutant of Dispatch: the queue is not emptied.
DispatchKeepsQueue(r, l) ==
    LET q == query[r]
        batch == {k \in Keys : LoaderOf[k] = l /\ q.loads[k] = "queued"} IN
    /\ batch # {}
    /\ Update(r, [q EXCEPT !.inFlight = @ \cup {batch}])

\* What was queued since the last batch becomes one statement.
Dispatch(r, l) ==
    LET q == query[r]
        batch == {k \in Keys : LoaderOf[k] = l /\ q.loads[k] = "queued"} IN
    /\ batch # {}
    /\ Update(r, [q EXCEPT !.inFlight = @ \cup {batch},
                           !.loads = Mark(@, batch, "sent")])

\* The future a field awaits has its result.
Loaded(r, f) ==
    LET q == query[r] IN
    /\ Entered(q, f)
    /\ Need(q, f) \in Keys
    /\ q.loads[Need(q, f)] \in {"loaded", "failed"}
    /\ Update(r, IF q.loads[Need(q, f)] = "loaded" THEN [q EXCEPT !.at[f] = @ + 1]
                 ELSE [q EXCEPT !.at[f] = Failed])

-----------------------------------------------------------------------------
\* A request from its arrival until nothing of it is left

\* get_context looks the viewer up only for an access token that verifies.
Arrive(r) ==
    /\ query[r].stage = "idle"
    /\ \E s \in {"context", "executing"}, doc \in Documents :
          Update(r, [NoQuery EXCEPT !.stage = s, !.doc = doc])

Deny(r, f) ==
    /\ Entered(query[r], f) /\ ~Permitted(query[r], f)
    /\ Update(r, [query[r] EXCEPT !.at[f] = Failed])

\* The reply is sent when all fields have settled, or at once when a field
\* without a nullable ancestor has raised: its siblings go on without a reader.
Respond(r) ==
    LET q == query[r] IN
    /\ q.stage = "executing"
    /\ Settled(q) \/ \E f \in Fatal : q.at[f] = Failed
    /\ Update(r, [q EXCEPT !.stage = "closing"])

\* get_session closes the session: it sends ROLLBACK on the connection, past the
\* lock.  With a statement in progress the driver refuses that, and the connection
\* stays where it is.
Close(r) ==
    LET q == query[r] IN
    /\ q.stage = "closing"
    /\ Update(r, [q EXCEPT !.stage = IF q.conn /\ q.running = {} THEN "rollback"
                                     ELSE "closed"])

RolledBack(r) ==
    LET q == query[r] IN
    /\ q.stage = "rollback"
    /\ Update(r, [q EXCEPT !.stage = "closed", !.conn = FALSE, !.aborted = FALSE])

\* The last field that went on is over: the session is garbage, and with it a
\* connection that one of them may have checked out after the close.
Collect(r) ==
    LET q == query[r] IN
    /\ q.stage = "closed"
    /\ Settled(q) /\ q.inFlight = {} /\ q.holder = Nobody
    /\ Update(r, NoQuery)

\* get_media_file, get_media_thumbnail: the file is streamed before the session
\* is closed.
Stream(d) ==
    /\ \/ download[d] = "idle" /\ download' = [download EXCEPT ![d] = "lookup"]
       \/ /\ download[d] = "lookup" /\ InUse < PoolSize
          /\ download' = [download EXCEPT ![d] = "streaming"]
       \/ /\ download[d] = "lookup" /\ InUse = PoolSize
          /\ download' = [download EXCEPT ![d] = "idle"]
       \/ download[d] = "streaming" /\ download' = [download EXCEPT ![d] = "idle"]
    /\ UNCHANGED query

-----------------------------------------------------------------------------
\* One step of a query the server has accepted.
Serve(r) ==
    \/ \E w \in Who : Acquire(r, w)
    \/ \E w \in Who : Execute(r, w)
    \/ \E w \in Who : CheckoutTimeout(r, w)
    \/ \E w \in Who : Refuse(r, w)
    \/ \E w \in Who, found \in BOOLEAN : Return(r, w, found)
    \/ \E w \in Who : Raise(r, w)
    \/ \E f \in Fields : Load(r, f)
    \/ \E l \in Loaders : Dispatch(r, l)
    \/ \E f \in Fields : Loaded(r, f)
    \/ \E f \in Fields : Deny(r, f)
    \/ Respond(r)
    \/ Close(r)
    \/ RolledBack(r)
    \/ Collect(r)

Next ==
    \/ \E r \in Queries : Arrive(r) \/ Serve(r)
    \/ \E d \in Downloads : Stream(d)

\* The event loop goes on, statements return, checkouts time out, garbage is
\* collected.  Nothing makes a client read the file it asked for.
Spec == Init /\ [][Next]_vars /\ \A r \in Queries : WF_vars(Serve(r))

-----------------------------------------------------------------------------
\* What the connection of a query is busy with.
InProgress(q) == q.running \cup (IF q.stage = "rollback" THEN {Rollback} ELSE {})

\* The promise of SerializedSession: concurrent fields and both loaders never
\* issue overlapping statements on the connection they share.  Only the ROLLBACK
\* of get_session goes past its lock, and that meets a field which is after the
\* connection only when an error without a nullable ancestor has sent the reply
\* while siblings went on.
OneStatementAtATime ==
    \A r \in Queries :
        LET q == query[r] IN
        /\ Cardinality(InProgress(q)) <= 1
        /\ q.stage \in {"closing", "rollback"} /\ q.holder # Nobody
              => \E f \in Fatal : q.at[f] = Failed

\* For a request without a viewer no statement is executed but the lookup of the
\* viewer, those of the mutations and the closing ROLLBACK: the library is out of
\* reach though only its root fields ask (IsAuthenticated) and loaders never do.
LibraryNeedsViewer ==
    \A r \in Queries :
        InProgress(query[r]) \subseteq {Viewer, Rollback} \cup Ungated \/ query[r].viewer

\* Every query is answered and leaves nothing behind, even when downloads hold
\* every connection for ever and fields go on after the session was closed.
EveryQueryEnds == \A r \in Queries : []<>(query[r].stage = "idle")
=============================================================================
