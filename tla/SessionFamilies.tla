-------------------------- MODULE SessionFamilies --------------------------
(***************************************************************************)
(* What the refresh-token store promises, each operation in one step: a    *)
(* sign-in opens a family, a live token is traded for exactly one          *)
(* successor, a revoked token presented again kills every token of its     *)
(* owner, a signed-out token is dead.  Expiry is only a reason for an      *)
(* operation not to happen, so it does not appear.                         *)
(***************************************************************************)
CONSTANTS Users, Tokens, NoUser, NoToken

VARIABLES
    owner,    \* the user a token was issued to; NoUser before
    revoked,  \* tokens that can no longer be redeemed
    parent    \* the token it was traded for; NoToken for one from a sign-in

vars == <<owner, revoked, parent>>

Unissued == {t \in Tokens : owner[t] = NoUser}
Issued   == Tokens \ Unissued

Init ==
    /\ owner = [t \in Tokens |-> NoUser]
    /\ revoked = {}
    /\ parent = [t \in Tokens |-> NoToken]

SignIn(u, n) ==
    /\ n \in Unissued
    /\ owner' = [owner EXCEPT ![n] = u]
    /\ UNCHANGED <<revoked, parent>>

Refresh(t, n) ==
    /\ t \in Issued \ revoked
    /\ n \in Unissued
    /\ owner' = [owner EXCEPT ![n] = owner[t]]
    /\ revoked' = revoked \cup {t}
    /\ parent' = [parent EXCEPT ![n] = t]

Reuse(t) ==
    /\ t \in revoked
    /\ revoked' = revoked \cup {s \in Issued : owner[s] = owner[t]}
    /\ UNCHANGED <<owner, parent>>

SignOut(t) ==
    /\ t \in Issued
    /\ revoked' = revoked \cup {t}
    /\ UNCHANGED <<owner, parent>>

Next ==
    \/ \E u \in Users, n \in Tokens : SignIn(u, n)
    \/ \E t, n \in Tokens : Refresh(t, n)
    \/ \E t \in Tokens : Reuse(t) \/ SignOut(t)

Spec == Init /\ [][Next]_vars
=============================================================================
