----------------------------- MODULE MediaLinks -----------------------------
(***************************************************************************)
(* Signed, expiring media URLs (media/storage.py), the endpoints that      *)
(* verify them (media/router.py), and a client that caches every reply for *)
(* a year under its full URL, as the header "immutable" tells it to.       *)
(* A request is checked once, when it comes in; the SELECT for its row and *)
(* the streaming of the file come after, and may take any time.            *)
(*                                                                         *)
(* The HMAC is ideal: a signature is the pair it was computed over, and a  *)
(* request carries the signature of the link the client holds, with any    *)
(* path and any expiry it has seen.                                        *)
(***************************************************************************)
EXTENDS Integers

CONSTANTS
    Files,     \* image rows of media_files
    Downloads, \* media requests the server works on at the same time
    Ttl,       \* media_url_ttl_seconds
    Bucket,    \* _EXPIRY_BUCKET_SECONDS
    Horizon,   \* bound: the clock of a behaviour stops here
    Never      \* nothing: thumbnail columns NULL, no link held, no request

ASSUME TimesAreNatural ==
    Ttl \in Nat /\ Bucket \in Nat \ {0} /\ Horizon \in Nat /\ Never \notin Nat

VARIABLES
    now,       \* int(time.time())
    thumbedAt, \* when the thumbnail of a row was committed, or Never
    held,      \* the link of the last GraphQL reply and when it was built
    urls,      \* every URL handed out so far (history)
    download,  \* each media request: its URL and, once its row is read, the bytes
    cache      \* the client's cache: URLs and the bytes it keeps for them

vars == <<now, thumbedAt, held, urls, download, cache>>

\* /media/{file} and /media/{file}/thumb
Path == [file : Files, thumb : BOOLEAN]
Url  == [path : Path, exp : {e \in 0..(Horizon + Ttl + Bucket) : e % Bucket = 0}]
Bytes == {"original", "webp"}

TypeOK ==
    /\ now \in 0..Horizon
    /\ thumbedAt \in [Files -> Nat \cup {Never}]
    /\ held \in [url : urls, builtAt : 0..now] \cup {Never}
    /\ urls \subseteq Url
    /\ download \in [Downloads -> [url : Url, bytes : Bytes \cup {Never}] \cup {Never}]
    /\ cache \subseteq [url : Url, bytes : Bytes]

Init ==
    /\ now = 0
    /\ thumbedAt = [f \in Files |-> Never]
    /\ held = Never
    /\ urls = {}
    /\ download = [d \in Downloads |-> Never]
    /\ cache = {}

-----------------------------------------------------------------------------
\* Mutants of RoundUp: no grid at all, and the division rounding down.
RoundNot(t) == t
RoundDown(t) == (t \div Bucket) * Bucket

\* -(-t // Bucket) * Bucket; // and \div both round towards minus infinity.
RoundUp(t) == -((-t) \div Bucket) * Bucket

\* Mutant of Expiry: a grid as wide as the lifetime.
ExpiryOnTtlGrid(t) == -((-(t + Ttl)) \div Ttl) * Ttl

\* The expiry of a link built at time t.
Expiry(t) == RoundUp(t + Ttl)

\* verify_signature: a request for path p with exp=e and the signature of the
\* URL signed.
Verified(p, e, signed) ==
    /\ ~(e < now)
    /\ [path |-> p, exp |-> e] = signed

\* What the endpoint of p sends for a row whose files are on disk; without a
\* thumbnail /thumb falls back to the original.
Served(p) ==
    IF p.thumb /\ thumbedAt[p.file] # Never THEN "webp" ELSE "original"

-----------------------------------------------------------------------------
Tick ==
    /\ now < Horizon
    /\ now' = now + 1
    /\ UNCHANGED <<thumbedAt, held, urls, download, cache>>

\* build_media_url, build_thumbnail_url: a GraphQL reply hands out a URL.
Build(p) ==
    LET url == [path |-> p, exp |-> Expiry(now)]
    IN  /\ held' = [url |-> url, builtAt |-> now]
        /\ urls' = urls \cup {url}
        /\ UNCHANGED <<now, thumbedAt, download, cache>>

\* _require_signature, the first thing get_media_file and get_media_thumbnail
\* do: a URL that is not in the cache is asked of the server; 403 unless it
\* verifies.  The expiry is not looked at again.
Accept(d, p, e) ==
    /\ held # Never
    /\ download[d] = Never
    /\ \A c \in cache : c.url # [path |-> p, exp |-> e]
    /\ Verified(p, e, held.url)
    /\ download' = [download EXCEPT ![d] = [url |-> [path |-> p, exp |-> e], bytes |-> Never]]
    /\ UNCHANGED <<now, thumbedAt, held, urls, cache>>

Selecting(d) == download[d] # Never /\ download[d].bytes = Never
Sending(d)   == download[d] # Never /\ download[d].bytes # Never

\* The SELECT of the row is answered, after a wait for a pooled connection: the
\* columns it finds decide which file is streamed.
Find(d) ==
    /\ Selecting(d)
    /\ download' = [download EXCEPT ![d] =
                       [url |-> @.url, bytes |-> Served(@.url.path)]]
    /\ UNCHANGED <<now, thumbedAt, held, urls, cache>>

\* FileResponse has sent the last byte and the client keeps the reply.
Deliver(d) ==
    /\ Sending(d)
    /\ cache' = cache \cup {download[d]}
    /\ download' = [download EXCEPT ![d] = Never]
    /\ UNCHANGED <<now, thumbedAt, held, urls>>

\* 404, which carries no cache header; no connection in time; the client leaves.
Abort(d) ==
    /\ download[d] # Never
    /\ download' = [download EXCEPT ![d] = Never]
    /\ UNCHANGED <<now, thumbedAt, held, urls, cache>>

\* backfill-thumbnails commits the columns of a row.
Backfill(f) ==
    /\ thumbedAt[f] = Never
    /\ thumbedAt' = [thumbedAt EXCEPT ![f] = now]
    /\ UNCHANGED <<now, held, urls, download, cache>>

\* What the media routes do.
Serve ==
    \/ \E d \in Downloads, p \in Path, u \in urls : Accept(d, p, u.exp)
    \/ \E d \in Downloads : Find(d) \/ Deliver(d) \/ Abort(d)

Next ==
    \/ Tick
    \/ \E p \in Path : Build(p)
    \/ Serve
    \/ \E f \in Files : Backfill(f)

Spec == Init /\ [][Next]_vars

-----------------------------------------------------------------------------
\* A URL works for Ttl seconds after it was built, whenever in the hour that
\* was, and stops working at most a bucket later.
LinkOutlivesTtl ==
    held # Never =>
        /\ now <= held.builtAt + Ttl => Verified(held.url.path, held.url.exp, held.url)
        /\ now >= held.builtAt + Ttl + Bucket
              => ~Verified(held.url.path, held.url.exp, held.url)

\* The server works only on a URL it has handed out as a whole: the link of one
\* path never opens another one, the original's never the thumbnail.
OnlyBuiltLinksOpen ==
    /\ \A d \in Downloads : download[d] # Never => download[d].url \in urls
    /\ \A c \in cache : c.url \in urls

\* A client may keep fallback bytes under a /thumb URL for a year, but links
\* built a bucket after the thumbnail was committed no longer lead to them.
FallbackIsShortLived ==
    \A c \in cache :
        c.bytes # Served(c.url.path) /\ c.url.exp = Expiry(now)
            => now - thumbedAt[c.url.path.file] < Bucket
=============================================================================
