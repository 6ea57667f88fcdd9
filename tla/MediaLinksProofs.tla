-------------------------- MODULE MediaLinksProofs --------------------------
(***************************************************************************)
(* Theorems about MediaLinks for every lifetime and every bucket width.    *)
(***************************************************************************)
EXTENDS MediaLinks, TLAPS

\* -(-t // b) * b is the least multiple of b that is not below t, so it lies in
\* t .. t + b - 1.
LEMMA RoundUpBounds ==
  ASSUME NEW t \in Int
  PROVE  RoundUp(t) \in Int /\ t <= RoundUp(t) /\ RoundUp(t) < t + Bucket
<1> DEFINE q == (-t) \div Bucket
           r == (-t) % Bucket
<1>1. /\ Bucket \in Int /\ Bucket > 0
      /\ q \in Int /\ r \in Int
      /\ -t = Bucket * q + r /\ 0 <= r /\ r < Bucket
  BY TimesAreNatural
<1>2. RoundUp(t) = -(Bucket * q)
  BY <1>1 DEF RoundUp
<1> QED
  BY <1>1, <1>2

\* A URL built at b expires between b + Ttl and b + Ttl + Bucket - 1.
LEMMA ExpiryBounds ==
  ASSUME NEW b \in Nat
  PROVE  Expiry(b) \in Int /\ b + Ttl <= Expiry(b) /\ Expiry(b) < b + Ttl + Bucket
  BY RoundUpBounds, TimesAreNatural DEF Expiry

\* Every URL was built at some time until now; the held one when it says.
UrlsAreBuilt ==
    /\ now \in Nat
    /\ urls \subseteq [path : Path, exp : Int]
    /\ \A u \in urls : \E b \in 0..now : u.exp = Expiry(b)
    /\ held # Never =>
          held.url \in urls /\ held.builtAt \in 0..now /\ held.url.exp = Expiry(held.builtAt)

\* The bytes of this reply are what the server would send now, or the fallback of
\* a row whose thumbnail was committed after the URL was built.
Explained(c) ==
    c.bytes # Served(c.url.path) =>
        /\ thumbedAt[c.url.path.file] \in Nat
        /\ \E b \in 0..thumbedAt[c.url.path.file] : c.url.exp = Expiry(b)

\* Of every reply kept, and of every reply on its way.
StaleIsFallback ==
    /\ thumbedAt \in [Files -> Nat \cup {Never}]
    /\ DOMAIN download = Downloads
    /\ \A c \in cache : c.url \in urls /\ c.url.path.file \in Files /\ Explained(c)
    /\ \A d \in Downloads : download[d] # Never =>
          /\ download[d].url \in urls
          /\ download[d].url.path.file \in Files
          /\ download[d].bytes # Never => Explained(download[d])

LinksInv == UrlsAreBuilt /\ StaleIsFallback

\* No link has been handed out yet.
LEMMA LinksInvInit == Init => LinksInv
  BY DEF Init, LinksInv, UrlsAreBuilt, StaleIsFallback

\* Building, fetching, backfilling and waiting keep the history of each link.
LEMMA LinksInvNext == LinksInv /\ [Next]_vars => LinksInv'
<1> SUFFICES ASSUME LinksInv, [Next]_vars PROVE LinksInv'
  OBVIOUS
<1> USE TimesAreNatural DEF LinksInv, UrlsAreBuilt, StaleIsFallback, Explained
<1>1. CASE Tick
  <2>1. \A t : Expiry(t)' = Expiry(t)
    BY DEF Expiry, RoundUp
  <2>2. \A p : Served(p)' = Served(p)
    BY <1>1 DEF Tick, Served
  <2> QED
    BY <1>1, <2>1, <2>2 DEF Tick
<1>2. ASSUME NEW p \in Path, Build(p) PROVE LinksInv'
  <2>1. \A q : Served(q)' = Served(q)
    BY <1>2 DEF Build, Served
  <2>2. Expiry(now) \in Int
    BY ExpiryBounds
  <2>3. UrlsAreBuilt'
    BY <1>2, <2>2 DEF Build
  <2> QED
    BY <1>2, <2>1, <2>3 DEF Build
<1>3. ASSUME NEW d \in Downloads, NEW p \in Path, NEW u \in urls, Accept(d, p, u.exp)
      PROVE  LinksInv'
  <2>1. \A q : Served(q)' = Served(q)
    BY <1>3 DEF Accept, Served
  <2>2. [path |-> p, exp |-> u.exp] \in urls /\ p.file \in Files
    BY <1>3 DEF Accept, Verified, Path
  <2>3. /\ download'[d] = [url |-> [path |-> p, exp |-> u.exp], bytes |-> Never]
        /\ \A e \in Downloads \ {d} : download'[e] = download[e]
        /\ DOMAIN download' = Downloads
    BY <1>3 DEF Accept
  <2> QED
    BY <1>3, <2>1, <2>2, <2>3 DEF Accept
<1>4. ASSUME NEW d \in Downloads, Find(d) PROVE LinksInv'
  <2>1. \A q : Served(q)' = Served(q)
    BY <1>4 DEF Find, Served
  <2>2. /\ download'[d] = [url |-> download[d].url, bytes |-> Served(download[d].url.path)]
        /\ \A e \in Downloads \ {d} : download'[e] = download[e]
        /\ DOMAIN download' = Downloads
    BY <1>4 DEF Find
  <2> QED
    BY <1>4, <2>1, <2>2 DEF Find, Selecting
<1>5. ASSUME NEW d \in Downloads, Deliver(d) PROVE LinksInv'
  <2>1. \A q : Served(q)' = Served(q)
    BY <1>5 DEF Deliver, Served
  <2>2. /\ download'[d] = Never
        /\ \A e \in Downloads \ {d} : download'[e] = download[e]
        /\ DOMAIN download' = Downloads
    BY <1>5 DEF Deliver
  <2> QED
    BY <1>5, <2>1, <2>2 DEF Deliver, Sending
<1>6. ASSUME NEW d \in Downloads, Abort(d) PROVE LinksInv'
  <2>1. \A q : Served(q)' = Served(q)
    BY <1>6 DEF Abort, Served
  <2>2. /\ download'[d] = Never
        /\ \A e \in Downloads \ {d} : download'[e] = download[e]
        /\ DOMAIN download' = Downloads
    BY <1>6 DEF Abort
  <2> QED
    BY <1>6, <2>1, <2>2 DEF Abort
<1>7. ASSUME NEW f \in Files, Backfill(f) PROVE LinksInv'
  <2>1. UrlsAreBuilt'
    BY <1>7 DEF Backfill
  <2>2. ASSUME NEW c, c.url \in urls, c.url.path.file \in Files, Explained(c)
        PROVE  Explained(c)'
    <3>1. CASE c.url.path.file = f
      BY <1>7, <2>2, <3>1 DEF Backfill
    <3>2. CASE c.url.path.file # f
      BY <1>7, <2>2, <3>2 DEF Backfill, Served
    <3> QED
      BY <3>1, <3>2
  <2>3. \A c \in cache : Explained(c)'
    BY <2>2
  <2>4. ASSUME NEW d \in Downloads, download[d] # Never, download[d].bytes # Never
        PROVE  Explained(download[d])'
    <3>1. PICK c : c = download[d]
      OBVIOUS
    <3>2. Explained(c)'
      BY <2>2, <2>4, <3>1
    <3> QED
      BY <1>7, <3>1, <3>2 DEF Backfill
  <2> QED
    BY <1>7, <2>1, <2>3, <2>4 DEF Backfill
<1>8. CASE UNCHANGED vars
  BY <1>8 DEF vars, Served
<1> QED
  BY <1>1, <1>2, <1>3, <1>4, <1>5, <1>6, <1>7, <1>8 DEF Next, Serve

\* Every URL was built, and stale bytes were fetched under a URL built before
\* the thumbnail.
THEOREM LinksInvariance == Spec => []LinksInv
<1> QED
  BY LinksInvInit, LinksInvNext, PTL DEF Spec

\* Expiries lie on the grid, and in reach of the clock.
LEMMA ExpiryOnGrid ==
  ASSUME NEW b \in 0..Horizon
  PROVE  Expiry(b) \in {e \in 0..(Horizon + Ttl + Bucket) : e % Bucket = 0}
<1> DEFINE q == (-(b + Ttl)) \div Bucket
<1>1. Bucket \in Int /\ Bucket > 0 /\ q \in Int
  BY TimesAreNatural
<1>2. Expiry(b) = Bucket * (-q)
  BY <1>1 DEF Expiry, RoundUp
<1>3. (Bucket * (-q)) % Bucket = 0
  <2> DEFINE m == Bucket * (-q)
             d == m \div Bucket
  <2>1. /\ m \in Int /\ d \in Int /\ m % Bucket \in Int
        /\ m = Bucket * d + (m % Bucket) /\ 0 <= m % Bucket /\ m % Bucket < Bucket
    BY <1>1
  <2>2. CASE d <= -q - 1
    <3>1. Bucket * (-q - d) >= Bucket * 1
      BY <1>1, <2>1, <2>2
    <3> QED
      BY <1>1, <2>1, <3>1
  <2>3. CASE d >= -q + 1
    <3>1. Bucket * (d + q) >= Bucket * 1
      BY <1>1, <2>1, <2>3
    <3> QED
      BY <1>1, <2>1, <3>1
  <2>4. CASE d = -q
    <3>1. Bucket * d = m
      BY <2>4
    <3>2. m = m + (m % Bucket)
      BY <2>1, <3>1
    <3> QED
      BY <2>1, <3>2
  <2> QED
    BY <1>1, <2>1, <2>2, <2>3, <2>4
<1>4. Expiry(b) % Bucket = 0
  BY <1>2, <1>3
<1> QED
  BY <1>4, ExpiryBounds, TimesAreNatural

\* The clock, the links and the cache are well typed; every expiry handed out is
\* a multiple of the bucket.
THEOREM LinksTypeCorrect == Spec => []TypeOK
<1>1. Init => TypeOK
  BY TimesAreNatural DEF Init, TypeOK
<1>2. TypeOK /\ [Next]_vars => TypeOK'
  <2> SUFFICES ASSUME TypeOK, [Next]_vars PROVE TypeOK'
    OBVIOUS
  <2> USE TimesAreNatural DEF TypeOK
  <2>1. CASE Tick
    BY <2>1 DEF Tick
  <2>2. ASSUME NEW p \in Path, Build(p) PROVE TypeOK'
    <3>1. [path |-> p, exp |-> Expiry(now)] \in Url
      BY ExpiryOnGrid DEF Url
    <3> QED
      BY <2>2, <3>1 DEF Build
  <2>3. ASSUME NEW d \in Downloads, NEW p \in Path, NEW u \in urls, Accept(d, p, u.exp)
        PROVE  TypeOK'
    <3>1. [path |-> p, exp |-> u.exp] \in Url
      BY DEF Url
    <3> QED
      BY <2>3, <3>1 DEF Accept
  <2>4. ASSUME NEW d \in Downloads, Find(d) PROVE TypeOK'
    <3>1. Served(download[d].url.path) \in Bytes
      BY DEF Served, Bytes
    <3>2. download[d].url \in Url
      BY <2>4 DEF Find, Selecting
    <3> QED
      BY <2>4, <3>1, <3>2 DEF Find
  <2>5. ASSUME NEW d \in Downloads, Deliver(d) PROVE TypeOK'
    BY <2>5 DEF Deliver, Sending
  <2>6. ASSUME NEW d \in Downloads, Abort(d) PROVE TypeOK'
    BY <2>6 DEF Abort
  <2>7. ASSUME NEW f \in Files, Backfill(f) PROVE TypeOK'
    BY <2>7 DEF Backfill
  <2>8. CASE UNCHANGED vars
    BY <2>8 DEF vars
  <2> QED
    BY <2>1, <2>2, <2>3, <2>4, <2>5, <2>6, <2>7, <2>8 DEF Next, Serve
<1> QED
  BY <1>1, <1>2, PTL DEF Spec

\* A link works for at least Ttl seconds and for less than Ttl + Bucket.
THEOREM Lifetime == Spec => []LinkOutlivesTtl
<1>1. LinksInv => LinkOutlivesTtl
  <2> SUFFICES ASSUME LinksInv, held # Never
               PROVE  /\ now <= held.builtAt + Ttl
                            => Verified(held.url.path, held.url.exp, held.url)
                      /\ now >= held.builtAt + Ttl + Bucket
                            => ~Verified(held.url.path, held.url.exp, held.url)
    BY DEF LinkOutlivesTtl
  <2>1. /\ held.builtAt \in Nat /\ now \in Nat
        /\ held.url.exp = Expiry(held.builtAt)
        /\ held.url = [path |-> held.url.path, exp |-> held.url.exp]
    BY DEF LinksInv, UrlsAreBuilt
  <2>2. /\ held.url.exp \in Int /\ held.builtAt + Ttl <= held.url.exp
        /\ held.url.exp < held.builtAt + Ttl + Bucket
    BY <2>1, ExpiryBounds
  <2> QED
    BY <2>1, <2>2, TimesAreNatural DEF Verified
<1> QED
  BY <1>1, LinksInvariance, PTL

\* The server answers only for URLs it has handed out.
THEOREM Openness == Spec => []OnlyBuiltLinksOpen
<1>1. LinksInv => OnlyBuiltLinksOpen
  BY DEF LinksInv, StaleIsFallback, OnlyBuiltLinksOpen
<1> QED
  BY <1>1, LinksInvariance, PTL

\* Fallback bytes are forgotten within a bucket of the thumbnail's commit.
THEOREM Freshness == Spec => []FallbackIsShortLived
<1>1. LinksInv => FallbackIsShortLived
  <2> SUFFICES ASSUME LinksInv, NEW c \in cache,
                      c.bytes # Served(c.url.path), c.url.exp = Expiry(now)
               PROVE  now - thumbedAt[c.url.path.file] < Bucket
    BY DEF FallbackIsShortLived
  <2>1. PICK b \in 0..thumbedAt[c.url.path.file] :
           thumbedAt[c.url.path.file] \in Nat /\ c.url.exp = Expiry(b)
    BY DEF LinksInv, StaleIsFallback, Explained
  <2>2. now \in Nat /\ b \in Nat /\ b <= thumbedAt[c.url.path.file]
    BY <2>1 DEF LinksInv, UrlsAreBuilt
  <2>3. now + Ttl <= c.url.exp /\ c.url.exp < b + Ttl + Bucket /\ c.url.exp \in Int
    BY <2>1, <2>2, ExpiryBounds
  <2> QED
    BY <2>1, <2>2, <2>3, TimesAreNatural
<1> QED
  BY <1>1, LinksInvariance, PTL
=============================================================================
