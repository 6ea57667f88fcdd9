------------------------ MODULE RequestSessionsProofs ------------------------
(***************************************************************************)
(* For every document, every number of requests and every pool: one        *)
(* statement at a time on a session, a ROLLBACK that meets a field only    *)
(* after a reply sent early, and no look at the library without a viewer.  *)
(***************************************************************************)
EXTENDS RequestSessions, FiniteSetTheorems, TLAPS

\* What holds of the state of one query, whatever the others do.
LockCovers(q) ==
    /\ q.running \subseteq {q.holder} \ {Nobody}
    /\ q.holder # Nobody => Wants(q, q.holder)
    /\ q.stage = "rollback" => q.running = {}

BatchesAreSent(q) ==
    \A b, c \in q.inFlight :
        /\ b # {}
        /\ \A k \in b : q.loads[k] = "sent"
        /\ b # c => b \cap c = {}

\* Some field waits for each key that is queued or in flight.
LoadsAreAwaited(q) ==
    \A k \in Keys : q.loads[k] \in {"queued", "sent"}
                     => \E f \in Fields : Entered(q, f) /\ Need(q, f) = k

\* The reply was sent when all was done, or early on account of an error.
Excused(q) == Settled(q) \/ \E f \in Fatal : q.at[f] = Failed

RepliedInTime(q) == q.stage \in {"closing", "rollback", "closed"} => Excused(q)

\* No field gets past its last need, and without a viewer none but a mutation
\* past its first one, so no load is asked for.
StrangersWait(q) ==
    /\ \A f \in Fields : q.at[f] # Failed => q.at[f] <= Len(Needs[f])
    /\ q.stage \in {"idle", "context"} => ~q.viewer
    /\ ~q.viewer =>
          /\ \A f \in Fields \ Ungated : q.at[f] \in {0, Failed}
          /\ \A k \in Keys : q.loads[k] = "unasked"
          /\ q.inFlight = {}

QueryInv(q) ==
    /\ q \in Query
    /\ LockCovers(q) /\ BatchesAreSent(q) /\ LoadsAreAwaited(q)
    /\ RepliedInTime(q) /\ StrangersWait(q)

SessionInv ==
    /\ query \in [Queries -> Query]
    /\ download \in [Downloads -> {"idle", "lookup", "streaming"}]
    /\ \A r \in Queries : QueryInv(query[r])

\* Every field has a first need.
LEMMA NeedsAreSequences ==
  ASSUME NEW g \in Fields
  PROVE  Needs[g] \in Seq({Statement, Commit} \cup Keys) /\ Len(Needs[g]) \in Nat \ {0}
<1>1. Needs[g] \in Seq({Statement, Commit} \cup Keys) /\ Needs[g] # <<>>
  BY SessionAssumption
<1> QED
  BY <1>1

\* A field under no viewer is denied or not entered, unless it is a mutation.
LEMMA StrangersAreDenied ==
  ASSUME NEW q, QueryInv(q), ~q.viewer, NEW f \in Fields \ Ungated
  PROVE  ~(Entered(q, f) /\ Permitted(q, f))
<1> SUFFICES ASSUME Entered(q, f), Permitted(q, f) PROVE FALSE
  OBVIOUS
<1> USE SessionAssumption DEF QueryInv, StrangersWait
<1>1. \A g \in Fields : Len(Needs[g]) \in Nat /\ Len(Needs[g]) # 0
  BY NeedsAreSequences
<1>2. Parent[f] \in Fields \ Ungated
  BY DEF Permitted
<1>3. q.at[Parent[f]] = Len(Needs[Parent[f]])
  BY <1>2 DEF Entered, Done
<1> QED
  BY <1>1, <1>2, <1>3

\* So only the viewer's own lookup and mutations run for such a request.
LEMMA StrangersRunNothing ==
  ASSUME NEW q, QueryInv(q), ~q.viewer
  PROVE  q.running \subseteq {Viewer} \cup Ungated
<1> SUFFICES ASSUME NEW w \in q.running PROVE w = Viewer \/ w \in Ungated
  OBVIOUS
<1>1. Wants(q, w)
  BY DEF QueryInv, LockCovers
<1>2. w \notin q.inFlight
  BY DEF QueryInv, StrangersWait
<1> QED
  BY <1>1, <1>2, StrangersAreDenied DEF Wants

\* What a step of one party leaves alone: whoever holds the lock still wants it.
LEMMA WantsIsStable ==
  ASSUME NEW q, NEW p, QueryInv(q), NEW w, Wants(q, w),
         w # Viewer, p.viewer = q.viewer, p.doc = q.doc,
         q.stage # p.stage => p.stage \in {"closing", "rollback", "closed"},
         w \in Fields => p.at[w] = q.at[w],
         \A f \in Fields : Done(q, f) => p.at[f] = q.at[f],
         w \in q.inFlight => w \in p.inFlight
  PROVE  Wants(p, w)
<1>1. CASE w \in Fields /\ Entered(q, w)
  <2>1. Entered(p, w)
    BY <1>1, SessionAssumption DEF Entered, Done, QueryInv, Query
  <2>2. w \notin q.inFlight
    BY <1>1, SessionAssumption DEF QueryInv, Query
  <2> QED
    BY <1>1, <2>1, <2>2 DEF Wants, Permitted, Need
<1>2. CASE w \in q.inFlight
  BY <1>2 DEF Wants
<1> QED
  BY <1>1, <1>2 DEF Wants

-----------------------------------------------------------------------------
\* The next need of a field that has been entered exists.
LEMMA EnteredIsTyped ==
  ASSUME NEW q, QueryInv(q), NEW f \in Fields, Entered(q, f)
  PROVE  /\ q.at[f] \in Nat /\ ~Done(q, f) /\ q.at[f] + 1 <= Len(Needs[f])
         /\ q.stage \in {"executing", "closing", "rollback", "closed"}
  BY SessionAssumption, NeedsAreSequences DEF QueryInv, Query, Entered, Done, StrangersWait

\* When all fields are done nobody holds the lock and no load is open.
LEMMA SettledIsQuiet ==
  ASSUME NEW q, QueryInv(q), Settled(q), q.stage # "context"
  PROVE  /\ q.holder = Nobody /\ q.inFlight = {}
         /\ \A k \in Keys : q.loads[k] # "queued"
<1>1. \A k \in Keys : q.loads[k] \notin {"queued", "sent"}
  BY DEF QueryInv, LoadsAreAwaited, Settled
<1>2. q.inFlight = {}
  BY <1>1 DEF QueryInv, BatchesAreSent, Query
<1>3. q.holder = Nobody
  BY <1>2 DEF QueryInv, LockCovers, Wants, Settled
<1> QED
  BY <1>1, <1>2, <1>3

\* A field that has been entered moves on or fails: no other field notices.
LEMMA MovedFieldKeepsOthers ==
  ASSUME NEW q, QueryInv(q), NEW f \in Fields, Entered(q, f),
         Need(q, f) \in Keys => q.loads[Need(q, f)] \notin {"queued", "sent"},
         NEW p, p.stage = q.stage, p.doc = q.doc, p.loads = q.loads,
         \A g \in Fields \ {f} : p.at[g] = q.at[g]
  PROVE  LoadsAreAwaited(p) /\ RepliedInTime(p)
<1>1. q.at[f] # Failed /\ ~Done(q, f)
  BY DEF Entered
<1>2. RepliedInTime(p)
  <2> SUFFICES ASSUME p.stage \in {"closing", "rollback", "closed"} PROVE Excused(p)
    BY DEF RepliedInTime
  <2>1. PICK g \in Fatal : q.at[g] = Failed
    BY DEF QueryInv, RepliedInTime, Excused, Settled
  <2> QED
    BY <1>1, <2>1, SessionAssumption DEF Excused
<1>3. LoadsAreAwaited(p)
  <2> SUFFICES ASSUME NEW k \in Keys, q.loads[k] \in {"queued", "sent"}
               PROVE  \E g \in Fields : Entered(p, g) /\ Need(p, g) = k
    BY DEF LoadsAreAwaited
  <2>1. PICK g \in Fields : Entered(q, g) /\ Need(q, g) = k
    BY DEF QueryInv, LoadsAreAwaited
  <2>2. g # f
    BY <2>1
  <2>3. Parent[g] # NoField => Parent[g] # f /\ Parent[g] \in Fields
    BY <1>1, <2>1, SessionAssumption DEF Entered
  <2>4. Entered(p, g) /\ Need(p, g) = k
    BY <2>1, <2>2, <2>3 DEF Entered, Done, Need
  <2> QED
    BY <2>4
<1> QED
  BY <1>2, <1>3

\* A field that waits for a statement waits for no load.
LEMMA StatementsAreNoKeys ==
  ASSUME NEW q, QueryInv(q), NEW w \in Fields, Wants(q, w)
  PROVE  Entered(q, w) /\ Permitted(q, w) /\ Need(q, w) \notin Keys
  BY SessionAssumption DEF Wants, QueryInv, Query

\* Connections and failed transactions are no part of the invariant.
LEMMA SameStateKeepsInv ==
  ASSUME NEW q, QueryInv(q), NEW p \in Query,
         p.stage = q.stage, p.viewer = q.viewer, p.at = q.at, p.loads = q.loads,
         p.inFlight = q.inFlight, p.holder = q.holder, p.running = q.running, p.doc = q.doc
  PROVE  QueryInv(p)
<1> USE DEF Entered, Done, Need, Permitted
<1>1. \A w : Wants(q, w) => Wants(p, w)
  BY DEF Wants
<1>2. LockCovers(p)
  BY <1>1 DEF QueryInv, LockCovers
<1>3. LoadsAreAwaited(p)
  BY DEF QueryInv, LoadsAreAwaited
<1>4. RepliedInTime(p)
  BY DEF QueryInv, RepliedInTime, Excused, Settled
<1> QED
  BY <1>2, <1>3, <1>4 DEF QueryInv, BatchesAreSent, StrangersWait

\* A batch that is over, with rows or an error, has answered its loads.
LEMMA MarkedKeepsInv ==
  ASSUME NEW q, QueryInv(q), q.viewer, NEW w \in q.inFlight, w \in SUBSET Keys,
         NEW state \in {"loaded", "failed"}
  PROVE  QueryInv([q EXCEPT !.inFlight = @ \ {w}, !.running = {}, !.holder = Nobody,
                            !.loads = Mark(@, w, state)])
<1> DEFINE p == [q EXCEPT !.inFlight = @ \ {w}, !.running = {}, !.holder = Nobody,
                          !.loads = Mark(@, w, state)]
<1>1. /\ p \in Query /\ p.stage = q.stage /\ p.viewer = q.viewer /\ p.at = q.at
      /\ p.loads = Mark(q.loads, w, state) /\ p.inFlight = q.inFlight \ {w}
      /\ p.holder = Nobody /\ p.running = {} /\ p.doc = q.doc
  BY DEF QueryInv, Query, Mark
<1> HIDE DEF p
<1>2. BatchesAreSent(p)
  BY <1>1 DEF QueryInv, Query, BatchesAreSent, Mark
<1>3. LoadsAreAwaited(p)
  BY <1>1 DEF QueryInv, LoadsAreAwaited, Mark, Entered, Done, Need
<1>4. RepliedInTime(p)
  BY <1>1 DEF QueryInv, RepliedInTime, Excused, Settled, Entered, Done
<1>5. LockCovers(p) /\ StrangersWait(p)
  BY <1>1 DEF LockCovers, QueryInv, StrangersWait
<1>6. QueryInv(p)
  BY <1>1, <1>2, <1>3, <1>4, <1>5 DEF QueryInv
<1> QED
  BY <1>6 DEF p

\* The rows of a statement reach the one who asked for them.
LEMMA AnsweredKeepsInv ==
  ASSUME NEW q, QueryInv(q), NEW w \in q.running, NEW found \in BOOLEAN
  PROVE  QueryInv([Answered(q, w, found) EXCEPT !.running = @ \ {w}, !.holder = Nobody])
<1> DEFINE p == [Answered(q, w, found) EXCEPT !.running = @ \ {w}, !.holder = Nobody]
<1>0. w = q.holder /\ w # Nobody /\ Wants(q, w) /\ q.running = {w} /\ w \in Who
  BY DEF QueryInv, LockCovers, Query
<1> SUFFICES QueryInv(p)
  OBVIOUS
<1> USE SessionAssumption
<1>1. CASE w = Viewer
  <2>1. q.stage = "context"
    BY <1>0, <1>1 DEF Wants, QueryInv, Query
  <2>2. p = [q EXCEPT !.stage = "executing", !.viewer = found, !.running = {}, !.holder = Nobody]
    <3>1. Answered(q, w, found) = [q EXCEPT !.stage = "executing", !.viewer = found]
      BY <1>1 DEF Answered
    <3>2. q.running \ {w} = {}
      BY <1>0
    <3> QED
      BY <3>1, <3>2 DEF QueryInv, Query
  <2>3. \A k \in Keys : q.loads[k] = "unasked"
    BY <2>1 DEF QueryInv, StrangersWait
  <2> HIDE DEF p
  <2> QED
    BY <2>1, <2>2, <2>3 DEF QueryInv, Query, LockCovers, BatchesAreSent, StrangersWait,
                            LoadsAreAwaited, RepliedInTime
<1>2. CASE w \in Fields
  <2> DEFINE n == IF w \in Ungated /\ ~found THEN Failed ELSE q.at[w] + 1
             c == Need(q, w) # Commit
  <2>1. Entered(q, w) /\ Permitted(q, w) /\ Need(q, w) \notin Keys
    BY <1>0, <1>2, StatementsAreNoKeys
  <2>2. q.viewer \/ w \in Ungated
    BY <1>2, <2>1, StrangersAreDenied
  <2>3. p = [q EXCEPT !.at[w] = n, !.conn = c, !.running = {}, !.holder = Nobody]
    <3>1. Answered(q, w, found) = [q EXCEPT !.at[w] = n, !.conn = c]
      BY <1>2 DEF Answered
    <3>2. q.running \ {w} = {}
      BY <1>0
    <3> QED
      BY <3>1, <3>2 DEF QueryInv, Query
  <2>4. q.at[w] \in Nat /\ q.stage # "context" /\ q.at[w] + 1 <= Len(Needs[w])
    BY <1>2, <2>1, EnteredIsTyped
  <2>5. n \in Nat \cup {Failed} /\ c \in BOOLEAN /\ (n # Failed => n <= Len(Needs[w]))
    BY <2>4
  <2> HIDE DEF p, n, c
  <2>6. p \in Query
    <3>1. [q.at EXCEPT ![w] = n] \in [Fields -> Nat \cup {Failed}]
      BY <1>2, <2>5 DEF QueryInv, Query
    <3> QED
      BY <2>3, <2>5, <3>1 DEF QueryInv, Query
  <2>7. /\ p.stage = q.stage /\ p.doc = q.doc /\ p.loads = q.loads
        /\ \A g \in Fields \ {w} : p.at[g] = q.at[g]
    BY <2>3 DEF QueryInv, Query
  <2>8. LoadsAreAwaited(p) /\ RepliedInTime(p)
    BY <1>2, <2>1, <2>7, MovedFieldKeepsOthers
  <2> QED
    BY <2>2, <2>3, <2>4, <2>5, <2>6, <2>7, <2>8
       DEF QueryInv, Query, LockCovers, BatchesAreSent, StrangersWait
<1>3. CASE w \in q.inFlight
  <2>1. q.viewer /\ w \in SUBSET Keys /\ w \notin Fields /\ w # Viewer
    BY <1>3 DEF QueryInv, StrangersWait, Query
  <2>2. p = [q EXCEPT !.inFlight = @ \ {w}, !.running = {}, !.holder = Nobody,
                      !.loads = Mark(@, w, "loaded")]
    <3>1. Answered(q, w, found)
             = [q EXCEPT !.inFlight = @ \ {w}, !.loads = Mark(@, w, "loaded")]
      BY <2>1 DEF Answered
    <3>2. q.running \ {w} = {}
      BY <1>0
    <3> QED
      BY <3>1, <3>2 DEF QueryInv, Query
  <2> HIDE DEF p
  <2> QED
    BY <1>3, <2>1, <2>2, MarkedKeepsInv
<1> QED
  BY <1>0, <1>1, <1>2, <1>3 DEF Wants

\* An error reaches the one who asked, or each load of its batch.
LEMMA RaisedKeepsInv ==
  ASSUME NEW q, QueryInv(q), NEW w \in Who, w = q.holder, NEW a \in BOOLEAN
  PROVE  QueryInv([Raised(q, w) EXCEPT !.running = {}, !.holder = Nobody, !.aborted = a])
<1> DEFINE p == [Raised(q, w) EXCEPT !.running = {}, !.holder = Nobody, !.aborted = a]
<1> SUFFICES QueryInv(p)
  OBVIOUS
<1> USE SessionAssumption
<1>0. w # Nobody /\ Wants(q, w)
  BY DEF QueryInv, LockCovers, Who
<1>1. CASE w = Viewer
  <2>1. q.stage = "context"
    BY <1>0, <1>1 DEF Wants, QueryInv, Query
  <2>2. p = [q EXCEPT !.stage = "closing", !.doc = {}, !.running = {}, !.holder = Nobody,
                      !.aborted = a]
    BY <1>1 DEF Raised, QueryInv, Query
  <2>3. \A k \in Keys : q.loads[k] = "unasked"
    BY <2>1 DEF QueryInv, StrangersWait
  <2> HIDE DEF p
  <2>4. Settled(p)
    BY <2>2 DEF Settled, Entered, QueryInv, Query
  <2> QED
    BY <2>1, <2>2, <2>3, <2>4 DEF QueryInv, Query, LockCovers, BatchesAreSent, StrangersWait,
                                  LoadsAreAwaited, RepliedInTime, Excused
<1>2. CASE w \in Fields
  <2>1. Entered(q, w) /\ Permitted(q, w) /\ Need(q, w) \notin Keys
    BY <1>0, <1>2, StatementsAreNoKeys
  <2>2. q.viewer \/ w \in Ungated
    BY <1>2, <2>1, StrangersAreDenied
  <2>3. p = [q EXCEPT !.at[w] = Failed, !.running = {}, !.holder = Nobody, !.aborted = a]
    BY <1>2 DEF Raised, QueryInv, Query
  <2>4. [q.at EXCEPT ![w] = Failed] \in [Fields -> Nat \cup {Failed}]
    BY <1>2 DEF QueryInv, Query
  <2>5. q.stage # "context"
    BY <1>2, <2>1, EnteredIsTyped
  <2> HIDE DEF p
  <2>6. p \in Query
    BY <2>3, <2>4 DEF QueryInv, Query
  <2>7. /\ p.stage = q.stage /\ p.doc = q.doc /\ p.loads = q.loads
        /\ \A g \in Fields \ {w} : p.at[g] = q.at[g]
    BY <2>3 DEF QueryInv, Query
  <2>8. LoadsAreAwaited(p) /\ RepliedInTime(p)
    BY <1>2, <2>1, <2>7, MovedFieldKeepsOthers
  <2> QED
    BY <2>2, <2>3, <2>5, <2>6, <2>7, <2>8
       DEF QueryInv, Query, LockCovers, BatchesAreSent, StrangersWait
<1>3. CASE w \in q.inFlight
  <2>1. q.viewer /\ w \in SUBSET Keys /\ w \notin Fields /\ w # Viewer
    BY <1>3 DEF QueryInv, StrangersWait, Query
  <2>2. [Raised(q, w) EXCEPT !.running = {}, !.holder = Nobody]
          = [q EXCEPT !.inFlight = @ \ {w}, !.running = {}, !.holder = Nobody,
                      !.loads = Mark(@, w, "failed")]
    <3>1. Raised(q, w) = [q EXCEPT !.inFlight = @ \ {w}, !.loads = Mark(@, w, "failed")]
      BY <2>1 DEF Raised
    <3> QED
      BY <3>1 DEF QueryInv, Query
  <2> DEFINE o == [Raised(q, w) EXCEPT !.running = {}, !.holder = Nobody]
  <2>3. p = [o EXCEPT !.aborted = a]
    BY <2>1 DEF Raised, QueryInv, Query
  <2>4. QueryInv(o)
    BY <1>3, <2>1, <2>2, MarkedKeepsInv
  <2> HIDE DEF o, p
  <2>5. /\ p \in Query /\ p.stage = o.stage /\ p.viewer = o.viewer /\ p.at = o.at
        /\ p.loads = o.loads /\ p.inFlight = o.inFlight /\ p.holder = o.holder
        /\ p.running = o.running /\ p.doc = o.doc
    BY <2>3, <2>4 DEF QueryInv, Query
  <2> QED
    BY <2>4, <2>5, SameStateKeepsInv
<1> QED
  BY <1>0, <1>1, <1>2, <1>3 DEF Wants

\* The steps that are no statement: whoever holds the lock keeps wanting it.
LEMMA OthersKeepInv ==
  ASSUME NEW q, QueryInv(q), NEW p \in Query,
         p.holder = q.holder, p.running = q.running, p.viewer = q.viewer, p.doc = q.doc,
         q.stage \in {"executing", "closing", "rollback", "closed"},
         p.stage # q.stage => p.stage \in {"closing", "rollback", "closed"},
         p.stage = "rollback" => p.running = {},
         \A f \in Fields : Done(q, f) \/ f = q.holder => p.at[f] = q.at[f],
         q.inFlight \subseteq p.inFlight,
         BatchesAreSent(p), LoadsAreAwaited(p), RepliedInTime(p), StrangersWait(p)
  PROVE  QueryInv(p)
<1>1. q.holder # Nobody => Wants(p, q.holder)
  <2> SUFFICES ASSUME q.holder # Nobody PROVE Wants(p, q.holder)
    OBVIOUS
  <2>1. Wants(q, q.holder) /\ q.holder # Viewer
    BY SessionAssumption DEF QueryInv, LockCovers, Wants, Query
  <2> QED
    BY <2>1, WantsIsStable
<1> QED
  BY <1>1 DEF QueryInv, LockCovers

\* A field that goes on or fails disturbs neither locks nor batches.
LEMMA FieldStepKeepsInv ==
  ASSUME NEW q, QueryInv(q), NEW f \in Fields, Entered(q, f), f # q.holder,
         Need(q, f) \in Keys => q.loads[Need(q, f)] \notin {"queued", "sent"},
         NEW n \in Nat \cup {Failed}, n = Failed \/ (q.viewer /\ n = q.at[f] + 1)
  PROVE  QueryInv([q EXCEPT !.at[f] = n])
<1> DEFINE p == [q EXCEPT !.at[f] = n]
<1>1. p \in Query
  <2>1. [q.at EXCEPT ![f] = n] \in [Fields -> Nat \cup {Failed}]
    BY DEF QueryInv, Query
  <2> QED
    BY <2>1 DEF QueryInv, Query
<1>2. /\ p.holder = q.holder /\ p.running = q.running /\ p.viewer = q.viewer
      /\ p.stage = q.stage /\ p.inFlight = q.inFlight /\ p.loads = q.loads
      /\ p.at = [q.at EXCEPT ![f] = n] /\ p.doc = q.doc
  BY DEF QueryInv, Query
<1>3. /\ q.stage \in {"executing", "closing", "rollback", "closed"} /\ ~Done(q, f)
      /\ q.at[f] \in Nat /\ q.at[f] + 1 <= Len(Needs[f])
  BY EnteredIsTyped
<1> HIDE DEF p
<1>4. \A g \in Fields : Done(q, g) \/ g = q.holder => p.at[g] = q.at[g]
  BY <1>2, <1>3 DEF QueryInv, Query
<1>5. BatchesAreSent(p) /\ StrangersWait(p)
  BY <1>2, <1>3, SessionAssumption DEF QueryInv, Query, BatchesAreSent, StrangersWait
<1>6. \A g \in Fields \ {f} : p.at[g] = q.at[g]
  BY <1>2 DEF QueryInv, Query
<1>7. LoadsAreAwaited(p) /\ RepliedInTime(p)
  BY <1>2, <1>6, MovedFieldKeepsOthers
<1>8. p.stage = "rollback" => p.running = {}
  BY <1>2 DEF QueryInv, LockCovers
<1>9. QueryInv(p)
  BY <1>1, <1>2, <1>3, <1>4, <1>5, <1>7, <1>8, OthersKeepInv
<1> QED
  BY <1>9 DEF p

\* A field that is not waiting for a statement does not hold the lock.
LEMMA HolderWantsStatement ==
  ASSUME NEW q, QueryInv(q), NEW f \in Fields,
         ~Permitted(q, f) \/ Need(q, f) \notin {Statement, Commit}
  PROVE  f # q.holder
  BY SessionAssumption DEF QueryInv, LockCovers, Wants, Query

-----------------------------------------------------------------------------
\* The lock goes only to someone who may ask (SerializedSession.execute).
LEMMA AcquireKeepsInv ==
  ASSUME NEW q, QueryInv(q), NEW w \in Who, Wants(q, w), w \notin q.running, q.holder = Nobody
  PROVE  QueryInv([q EXCEPT !.holder = w])
<1> DEFINE p == [q EXCEPT !.holder = w]
<1>1. p \in Query
  BY DEF QueryInv, Query
<1>2. /\ p.stage = q.stage /\ p.viewer = q.viewer /\ p.at = q.at /\ p.loads = q.loads
      /\ p.inFlight = q.inFlight /\ p.holder = w /\ p.running = q.running /\ p.doc = q.doc
  BY DEF QueryInv, Query
<1> HIDE DEF p
<1>3. Wants(p, w)
  BY <1>2 DEF Wants, Entered, Done, Permitted, Need
<1>4. LockCovers(p)
  BY <1>2, <1>3 DEF QueryInv, LockCovers
<1>5. BatchesAreSent(p) /\ StrangersWait(p) /\ LoadsAreAwaited(p) /\ RepliedInTime(p)
  BY <1>2 DEF QueryInv, BatchesAreSent, StrangersWait, LoadsAreAwaited, RepliedInTime,
              Excused, Settled, Entered, Done, Need
<1>6. QueryInv(p)
  BY <1>1, <1>4, <1>5 DEF QueryInv
<1> QED
  BY <1>6 DEF p

\* Only the holder of the lock starts a statement (SerializedSession.execute).
LEMMA ExecuteKeepsInv ==
  ASSUME NEW q, QueryInv(q), NEW w \in Who, q.holder = w, q.stage # "rollback"
  PROVE  QueryInv([q EXCEPT !.conn = TRUE, !.running = @ \cup {w}])
<1> DEFINE p == [q EXCEPT !.conn = TRUE, !.running = @ \cup {w}]
<1>1. p \in Query
  BY DEF QueryInv, Query
<1>2. /\ p.stage = q.stage /\ p.viewer = q.viewer /\ p.at = q.at /\ p.loads = q.loads
      /\ p.inFlight = q.inFlight /\ p.holder = q.holder /\ p.running = q.running \cup {w}
      /\ p.doc = q.doc
  BY DEF QueryInv, Query
<1> HIDE DEF p
<1>3. w # Nobody
  BY SessionAssumption DEF Who
<1>4. Wants(q, w)
  BY <1>3 DEF QueryInv, LockCovers
<1>5. Wants(p, w)
  BY <1>2, <1>4 DEF Wants, Entered, Done, Permitted, Need
<1>6. LockCovers(p)
  BY <1>2, <1>3, <1>5 DEF QueryInv, LockCovers
<1>7. BatchesAreSent(p) /\ StrangersWait(p) /\ LoadsAreAwaited(p) /\ RepliedInTime(p)
  BY <1>2 DEF QueryInv, BatchesAreSent, StrangersWait, LoadsAreAwaited, RepliedInTime,
              Excused, Settled, Entered, Done, Need
<1>8. QueryInv(p)
  BY <1>1, <1>6, <1>7 DEF QueryInv
<1> QED
  BY <1>8 DEF p

\* What a mutation awaits is no key.
LEMMA MutationsLoadNothing ==
  ASSUME NEW s \in Seq({Statement, Commit}), NEW n \in Nat, NEW k \in Keys, s[n + 1] = k,
         n + 1 <= Len(s)
  PROVE  FALSE
  BY SessionAssumption

\* A load queues a key nobody has asked for.
LEMMA LoadKeepsInv ==
  ASSUME NEW q, QueryInv(q), NEW f \in Fields, NEW k \in Keys,
         Entered(q, f), Permitted(q, f), Need(q, f) = k, q.loads[k] = "unasked"
  PROVE  QueryInv([q EXCEPT !.loads[k] = "queued"])
<1> DEFINE p == [q EXCEPT !.loads[k] = "queued"]
<1>1. q.viewer /\ q.stage \in {"executing", "closing", "rollback", "closed"}
  <2>1. f \notin Ungated
    <3>1. ASSUME f \in Ungated PROVE FALSE
      <4>1. Needs[f] \in Seq({Statement, Commit})
        BY <3>1, SessionAssumption
      <4>2. q.at[f] \in Nat /\ q.at[f] + 1 <= Len(Needs[f])
        BY EnteredIsTyped
      <4>3. Needs[f][q.at[f] + 1] = k
        BY DEF Need
      <4> QED
        BY <3>1, <4>1, <4>2, <4>3, MutationsLoadNothing
    <3> QED
      BY <3>1
  <2> QED
    BY <2>1, StrangersAreDenied, EnteredIsTyped
<1>2. p \in Query
  <2>1. [q.loads EXCEPT ![k] = "queued"]
           \in [Keys -> {"unasked", "queued", "sent", "loaded", "failed"}]
    BY DEF QueryInv, Query
  <2> QED
    BY <2>1 DEF QueryInv, Query
<1>3. /\ p.holder = q.holder /\ p.running = q.running /\ p.viewer = q.viewer
      /\ p.stage = q.stage /\ p.inFlight = q.inFlight /\ p.at = q.at /\ p.doc = q.doc
      /\ p.loads = [q.loads EXCEPT ![k] = "queued"]
  BY DEF QueryInv, Query
<1> HIDE DEF p
<1>4. BatchesAreSent(p)
  <2>1. \A j \in Keys : q.loads[j] = "sent" => p.loads[j] = "sent"
    BY <1>3 DEF QueryInv, Query
  <2> QED
    BY <1>3, <2>1 DEF QueryInv, Query, BatchesAreSent
<1>5. StrangersWait(p)
  BY <1>1, <1>3 DEF QueryInv, StrangersWait
<1>6. LoadsAreAwaited(p)
  BY <1>3 DEF QueryInv, Query, LoadsAreAwaited, Entered, Done, Need
<1>7. RepliedInTime(p) /\ (p.stage = "rollback" => p.running = {})
  BY <1>3 DEF QueryInv, LockCovers, RepliedInTime, Excused, Settled, Entered, Done
<1>8. QueryInv(p)
  BY <1>1, <1>2, <1>3, <1>4, <1>5, <1>6, <1>7, OthersKeepInv
<1> QED
  BY <1>8 DEF p

\* A batch takes exactly what is queued, so batches are disjoint.
LEMMA DispatchKeepsInv ==
  ASSUME NEW q, QueryInv(q), NEW batch \in SUBSET Keys, batch # {},
         \A k \in batch : q.loads[k] = "queued"
  PROVE  QueryInv([q EXCEPT !.inFlight = @ \cup {batch}, !.loads = Mark(@, batch, "sent")])
<1> DEFINE p == [q EXCEPT !.inFlight = @ \cup {batch}, !.loads = Mark(@, batch, "sent")]
<1>1. q.viewer /\ q.stage \in {"executing", "closing", "rollback", "closed"}
  <2>1. PICK k \in Keys : q.loads[k] = "queued"
    OBVIOUS
  <2>2. q.viewer
    BY <2>1 DEF QueryInv, StrangersWait
  <2> QED
    BY <2>2 DEF QueryInv, StrangersWait, Query
<1>2. Mark(q.loads, batch, "sent") \in [Keys -> {"unasked", "queued", "sent", "loaded", "failed"}]
  BY DEF Mark, QueryInv, Query
<1>3. p \in Query
  BY <1>2 DEF QueryInv, Query
<1>4. /\ p.holder = q.holder /\ p.running = q.running /\ p.viewer = q.viewer
      /\ p.stage = q.stage /\ p.inFlight = q.inFlight \cup {batch} /\ p.at = q.at
      /\ p.doc = q.doc /\ p.loads = Mark(q.loads, batch, "sent")
  BY DEF QueryInv, Query
<1> HIDE DEF p
<1>5. BatchesAreSent(p)
  <2>1. \A k \in Keys : q.loads[k] = "sent" \/ k \in batch => p.loads[k] = "sent"
    BY <1>4 DEF Mark
  <2>2. \A b \in q.inFlight : b \subseteq Keys /\ b \cap batch = {}
    BY DEF QueryInv, BatchesAreSent, Query
  <2> QED
    BY <1>4, <2>1, <2>2 DEF QueryInv, BatchesAreSent
<1>6. StrangersWait(p)
  BY <1>1, <1>4 DEF QueryInv, StrangersWait
<1>7. LoadsAreAwaited(p)
  BY <1>4 DEF QueryInv, LoadsAreAwaited, Mark, Entered, Done, Need
<1>8. RepliedInTime(p) /\ (p.stage = "rollback" => p.running = {})
  BY <1>4 DEF QueryInv, LockCovers, RepliedInTime, Excused, Settled, Entered, Done
<1>9. QueryInv(p)
  BY <1>1, <1>3, <1>4, <1>5, <1>6, <1>7, <1>8, OthersKeepInv
<1> QED
  BY <1>9 DEF p

\* Respond, Close, RolledBack: the stage moves on, the connection may go.
LEMMA StageKeepsInv ==
  ASSUME NEW q, QueryInv(q), q.stage \in {"executing", "closing", "rollback"}, Excused(q),
         NEW s \in {"closing", "rollback", "closed"}, s = "rollback" => q.running = {},
         NEW c \in BOOLEAN, NEW a \in BOOLEAN
  PROVE  QueryInv([q EXCEPT !.stage = s, !.conn = c, !.aborted = a])
<1> DEFINE p == [q EXCEPT !.stage = s, !.conn = c, !.aborted = a]
<1>1. p \in Query
  BY DEF QueryInv, Query
<1>2. /\ p.holder = q.holder /\ p.running = q.running /\ p.viewer = q.viewer
      /\ p.stage = s /\ p.inFlight = q.inFlight /\ p.at = q.at /\ p.loads = q.loads
      /\ p.doc = q.doc
  BY DEF QueryInv, Query
<1> HIDE DEF p
<1>3. \A f : Entered(p, f) <=> Entered(q, f)
  BY <1>2 DEF Entered, Done
<1>4. BatchesAreSent(p) /\ StrangersWait(p)
  BY <1>2 DEF QueryInv, BatchesAreSent, StrangersWait
<1>5. LoadsAreAwaited(p) /\ RepliedInTime(p)
  BY <1>2, <1>3 DEF QueryInv, LoadsAreAwaited, RepliedInTime, Excused, Settled, Need
<1>6. QueryInv(p)
  BY <1>1, <1>2, <1>4, <1>5, OthersKeepInv
<1> QED
  BY <1>6 DEF p

\* A request that has not begun, or has begun only just, is in order.
LEMMA NoQueryInv ==
  ASSUME NEW s \in {"idle", "context", "executing"}, NEW doc \in SUBSET Fields
  PROVE  QueryInv([NoQuery EXCEPT !.stage = s, !.doc = doc]) /\ QueryInv(NoQuery)
<1>1. ASSUME NEW t \in {"idle", "context", "executing"}, NEW d \in SUBSET Fields,
             NEW p, p = [NoQuery EXCEPT !.stage = t, !.doc = d]
      PROVE  QueryInv(p)
  <2>1. /\ p \in Query /\ p.holder = Nobody /\ p.running = {} /\ p.inFlight = {} /\ ~p.viewer
        /\ p.stage = t
        /\ \A f \in Fields : p.at[f] = 0
        /\ \A k \in Keys : p.loads[k] = "unasked"
    BY <1>1 DEF NoQuery, Query
  <2> QED
    BY <2>1, NeedsAreSequences
       DEF QueryInv, LockCovers, BatchesAreSent, StrangersWait, LoadsAreAwaited, RepliedInTime
<1>2. NoQuery = [NoQuery EXCEPT !.stage = "idle", !.doc = {}]
  <2>1. NoQuery \in Query /\ NoQuery.stage = "idle" /\ NoQuery.doc = {}
    BY DEF NoQuery, Query
  <2> QED
    BY <2>1 DEF Query
<1> QED
  BY <1>1, <1>2

-----------------------------------------------------------------------------
\* Whatever a request does, it is in order afterwards, and alone has changed.
LEMMA QueryStep ==
  ASSUME SessionInv, NEW r \in Queries, Arrive(r) \/ Serve(r)
  PROVE  UNCHANGED download /\ \E p : query' = [query EXCEPT ![r] = p] /\ QueryInv(p)
<1> DEFINE q == query[r]
           Goal == UNCHANGED download /\ \E p : query' = [query EXCEPT ![r] = p] /\ QueryInv(p)
<1>0. QueryInv(q) /\ q \in Query
  BY DEF SessionInv, QueryInv
<1>u. ASSUME NEW p, Update(r, p), QueryInv(p) PROVE Goal
  BY <1>u DEF Update
<1> HIDE DEF Goal
<1> SUFFICES Goal
  BY DEF Goal
<1>1. CASE Arrive(r)
  <2>1. PICK s \in {"context", "executing"}, doc \in Documents :
           Update(r, [NoQuery EXCEPT !.stage = s, !.doc = doc])
    BY <1>1 DEF Arrive
  <2>2. doc \in SUBSET Fields
    BY SessionAssumption
  <2> QED
    BY <1>u, <2>1, <2>2, NoQueryInv
<1>2. ASSUME NEW w \in Who, Acquire(r, w) PROVE Goal
  BY <1>0, <1>2, <1>u, AcquireKeepsInv DEF Acquire
<1>3. ASSUME NEW w \in Who, Execute(r, w) PROVE Goal
  BY <1>0, <1>3, <1>u, ExecuteKeepsInv DEF Execute
<1>r. ASSUME NEW w \in Who, q.holder = w, q.running = {},
             Update(r, [Raised(q, w) EXCEPT !.holder = Nobody])
      PROVE  Goal
  <2>1. q.aborted \in BOOLEAN
    BY <1>0 DEF Query
  <2>2. [Raised(q, w) EXCEPT !.holder = Nobody]
           = [Raised(q, w) EXCEPT !.running = {}, !.holder = Nobody, !.aborted = q.aborted]
    <3>1. CASE w = Viewer
      BY <1>0, <1>r, <3>1 DEF Raised, Query
    <3>2. CASE w # Viewer /\ w \in Fields
      BY <1>0, <1>r, <3>2 DEF Raised, Query
    <3>3. CASE w # Viewer /\ w \notin Fields
      BY <1>0, <1>r, <3>3 DEF Raised, Query
    <3> QED
      BY <3>1, <3>2, <3>3
  <2> QED
    BY <1>0, <1>u, <1>r, <2>1, <2>2, RaisedKeepsInv
<1>4. ASSUME NEW w \in Who, CheckoutTimeout(r, w) \/ Refuse(r, w) PROVE Goal
  <2>1. q.holder = w /\ Update(r, [Raised(q, w) EXCEPT !.holder = Nobody])
    BY <1>4 DEF CheckoutTimeout, Refuse
  <2>2. q.running = {}
    BY <1>0, <1>4, <2>1 DEF CheckoutTimeout, Refuse, QueryInv, LockCovers
  <2> QED
    BY <1>r, <2>1, <2>2
<1>5. ASSUME NEW w \in Who, NEW found \in BOOLEAN, Return(r, w, found) PROVE Goal
  BY <1>0, <1>5, <1>u, AnsweredKeepsInv DEF Return
<1>6. ASSUME NEW w \in Who, Raise(r, w) PROVE Goal
  <2>1. /\ w \in q.running
        /\ Update(r, [Raised(q, w) EXCEPT !.running = @ \ {w}, !.holder = Nobody, !.aborted = TRUE])
    BY <1>6 DEF Raise
  <2>2. q.running = {w} /\ w = q.holder
    BY <1>0, <2>1 DEF QueryInv, LockCovers
  <2>3. Raised(q, w).running = {w}
    BY <1>0, <2>2 DEF Raised, Query
  <2>4. [Raised(q, w) EXCEPT !.running = @ \ {w}, !.holder = Nobody, !.aborted = TRUE]
           = [Raised(q, w) EXCEPT !.running = {}, !.holder = Nobody, !.aborted = TRUE]
    BY <2>3
  <2> QED
    BY <1>0, <1>u, <2>1, <2>2, <2>4, RaisedKeepsInv
<1>7. ASSUME NEW f \in Fields, Load(r, f) PROVE Goal
  BY <1>0, <1>7, <1>u, LoadKeepsInv DEF Load
<1>8. ASSUME NEW l \in Loaders, Dispatch(r, l) PROVE Goal
  BY <1>0, <1>8, <1>u, DispatchKeepsInv DEF Dispatch
<1>9. ASSUME NEW f \in Fields, Loaded(r, f) PROVE Goal
  <2>1. Entered(q, f) /\ Need(q, f) \in Keys /\ q.loads[Need(q, f)] \in {"loaded", "failed"}
    BY <1>9 DEF Loaded
  <2>2. q.viewer /\ f # q.holder /\ q.at[f] \in Nat
    BY <1>0, <2>1, HolderWantsStatement, EnteredIsTyped, SessionAssumption
       DEF QueryInv, StrangersWait
  <2>3. QueryInv([q EXCEPT !.at[f] = q.at[f] + 1])
    <3>1. q.at[f] + 1 \in Nat \cup {Failed}
      BY <2>2
    <3> QED
      BY <1>0, <2>1, <2>2, <3>1, FieldStepKeepsInv
  <2>4. QueryInv([q EXCEPT !.at[f] = Failed])
    BY <1>0, <2>1, <2>2, FieldStepKeepsInv
  <2> QED
    BY <1>9, <1>u, <2>3, <2>4 DEF Loaded
<1>10. ASSUME NEW f \in Fields, Deny(r, f) PROVE Goal
  <2>1. Entered(q, f) /\ ~Permitted(q, f) /\ ~q.viewer
    BY <1>10 DEF Deny, Permitted
  <2>2. \A k \in Keys : q.loads[k] \notin {"queued", "sent"}
    BY <1>0, <2>1 DEF QueryInv, StrangersWait
  <2>3. QueryInv([q EXCEPT !.at[f] = Failed])
    BY <1>0, <2>1, <2>2, HolderWantsStatement, FieldStepKeepsInv
  <2> QED
    BY <1>10, <1>u, <2>3 DEF Deny
<1>11. CASE Respond(r)
  <2>1. QueryInv([q EXCEPT !.stage = "closing", !.conn = q.conn, !.aborted = q.aborted])
    BY <1>0, <1>11, StageKeepsInv DEF Respond, Query, Excused
  <2>2. [q EXCEPT !.stage = "closing", !.conn = q.conn, !.aborted = q.aborted]
           = [q EXCEPT !.stage = "closing"]
    BY <1>0 DEF Query
  <2> QED
    BY <1>11, <1>u, <2>1, <2>2 DEF Respond
<1>12. CASE Close(r) \/ RolledBack(r)
  <2>0. Excused(q) /\ q.stage \in {"closing", "rollback"}
    BY <1>0, <1>12 DEF QueryInv, RepliedInTime, Close, RolledBack
  <2>1. /\ QueryInv([q EXCEPT !.stage = "closed", !.conn = FALSE, !.aborted = FALSE])
        /\ QueryInv([q EXCEPT !.stage = "closed", !.conn = q.conn, !.aborted = q.aborted])
        /\ q.running = {} =>
              QueryInv([q EXCEPT !.stage = "rollback", !.conn = q.conn, !.aborted = q.aborted])
    BY <1>0, <2>0, StageKeepsInv DEF Query
  <2>2. /\ [q EXCEPT !.stage = "closed", !.conn = q.conn, !.aborted = q.aborted]
             = [q EXCEPT !.stage = "closed"]
        /\ [q EXCEPT !.stage = "rollback", !.conn = q.conn, !.aborted = q.aborted]
             = [q EXCEPT !.stage = "rollback"]
    BY <1>0 DEF Query
  <2> QED
    BY <1>12, <1>u, <2>1, <2>2 DEF Close, RolledBack
<1>13. CASE Collect(r)
  <2>1. QueryInv(NoQuery)
    BY NoQueryInv
  <2> QED
    BY <1>13, <1>u, <2>1 DEF Collect
<1> QED
  BY <1>1, <1>2, <1>3, <1>4, <1>5, <1>6, <1>7, <1>8, <1>9, <1>10, <1>11, <1>12, <1>13 DEF Serve

\* Locks, statements and batches of every request agree with one another.
THEOREM SessionInvariance == Spec => []SessionInv
<1>1. Init => SessionInv
  <2>1. QueryInv(NoQuery)
    BY NoQueryInv
  <2> QED
    BY <2>1 DEF Init, SessionInv, QueryInv
<1>2. SessionInv /\ [Next]_vars => SessionInv'
  <2> SUFFICES ASSUME SessionInv, [Next]_vars PROVE SessionInv'
    OBVIOUS
  <2>1. ASSUME NEW r \in Queries, Arrive(r) \/ Serve(r) PROVE SessionInv'
    <3>1. PICK p : query' = [query EXCEPT ![r] = p] /\ QueryInv(p) /\ UNCHANGED download
      BY <2>1, QueryStep
    <3> QED
      BY <3>1 DEF SessionInv, QueryInv
  <2>2. ASSUME NEW d \in Downloads, Stream(d) PROVE SessionInv'
    BY <2>2 DEF Stream, SessionInv
  <2>3. CASE UNCHANGED vars
    BY <2>3 DEF vars, SessionInv
  <2> QED
    BY <2>1, <2>2, <2>3 DEF Next
<1> QED
  BY <1>1, <1>2, PTL DEF Spec

\* Types, and the consistency of batches and loads.
THEOREM SessionTypes == Spec => []TypeOK
<1>1. SessionInv => TypeOK
  BY DEF SessionInv, QueryInv, BatchesAreSent, TypeOK
<1> QED
  BY <1>1, SessionInvariance, PTL

\* Whatever a document asks for, its fields and loaders never have two
\* statements in progress on the connection they share, and the ROLLBACK meets
\* one of them only after an error without a nullable ancestor.
THEOREM Serialized == Spec => []OneStatementAtATime
<1>1. SessionInv => OneStatementAtATime
  <2> SUFFICES ASSUME SessionInv, NEW r \in Queries
               PROVE  /\ Cardinality(InProgress(query[r])) <= 1
                      /\ query[r].stage \in {"closing", "rollback"} /\ query[r].holder # Nobody
                            => \E f \in Fatal : query[r].at[f] = Failed
    BY DEF OneStatementAtATime
  <2> DEFINE q == query[r]
  <2>0. QueryInv(q)
    BY DEF SessionInv
  <2>1. \E x : InProgress(q) \subseteq {x}
    <3>1. q.running \subseteq {q.holder} /\ (q.stage = "rollback" => q.running = {})
      BY <2>0 DEF QueryInv, LockCovers
    <3> QED
      BY <3>1 DEF InProgress
  <2>2. Cardinality(InProgress(q)) <= 1
    <3>1. CASE InProgress(q) = {}
      BY <3>1, FS_EmptySet
    <3>2. ASSUME NEW x, InProgress(q) = {x} PROVE Cardinality(InProgress(q)) <= 1
      <4>1. Cardinality({x}) = 1
        BY FS_Singleton
      <4> QED
        BY <3>2, <4>1
    <3> QED
      BY <2>1, <3>1, <3>2
  <2>3. q.stage \in {"closing", "rollback"} /\ q.holder # Nobody
          => \E f \in Fatal : q.at[f] = Failed
    BY <2>0, SettledIsQuiet DEF QueryInv, RepliedInTime, Excused
  <2> QED
    BY <2>2, <2>3
<1> QED
  BY <1>1, SessionInvariance, PTL

\* Nothing of the library is read for a request without a viewer, through whatever
\* field, child field or loader.
THEOREM Gated == Spec => []LibraryNeedsViewer
<1>1. SessionInv => LibraryNeedsViewer
  BY StrangersRunNothing DEF SessionInv, QueryInv, Query, LibraryNeedsViewer, InProgress
<1> QED
  BY <1>1, SessionInvariance, PTL
=============================================================================
