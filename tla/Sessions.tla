------------------------------- MODULE Sessions -------------------------------
(***************************************************************************)
(* The sessions of one user: login, rotation of refresh tokens with the    *)
(* detection of reuse, logout, and the check of the access token in front  *)
(* of every other request (core/auth, core/cache/services/                 *)
(* token-blacklist.service.ts).                                            *)
(*                                                                         *)
(* A call runs from one await to the next.  A login or a rotation issues a *)
(* refresh token and an access token together, so that one number stands   *)
(* for both.  Left out: signatures and hashes, names and addresses, the    *)
(* audit log (it never fails, see AuditTrail), and the refresh token's own   *)
(* entry in the blacklist, which nobody looks up.                          *)
(***************************************************************************)
EXTENDS Naturals, FiniteSets

CONSTANTS
    Calls,          \* the requests under way at one time
    MaxTokens,      \* bound: rows of refresh_tokens
    MaxTime,        \* bound: ticks of the clock
    MaxLogins,      \* bound: logins
    AccessTTL,      \* life of an access token (ACCESS_TTL_SECONDS)
    RefreshTTL,     \* life of a refresh token (REFRESH_TTL_MS)
    Tolerance       \* how long past its life an access token is still accepted

Tokens == 1 .. MaxTokens

VARIABLES
    row,        \* revoked_at of each refresh token: "absent", "live" or "revoked"
    born,       \* when each pair of tokens was issued
    parent,     \* history: the token each was exchanged for, 0 after a login
    until,      \* until when Redis keeps an access token's jti in the blacklist
    pc,         \* where each call is
    token,      \* the token it was given, 0 for a login
    now,        \* the clock
    overlapped, \* history: tokens found live by two rotations at once
    purged,     \* history: the tokens in the table at the last detected reuse
    escaping,   \* history: the rotations past their check at a detected reuse
    spared,     \* history: what those rotations went on to issue
    loggedOut   \* history: access tokens that a logout put in the blacklist

store == <<row, born, parent, until>>
history == <<overlapped, purged, escaping, spared, loggedOut>>
vars == <<store, pc, token, now, history>>

Rotating == {"revoke", "account", "save"}

TypeOK ==
    /\ row \in [Tokens -> {"absent", "live", "revoked"}]
    /\ born \in [Tokens -> 0 .. MaxTime]
    /\ parent \in [Tokens -> 0 .. MaxTokens]
    /\ until \in [Tokens -> Nat]
    /\ pc \in [Calls -> Rotating \cup {"idle", "find", "purge", "exists", "logout", "blacklist"}]
    /\ token \in [Calls -> 0 .. MaxTokens]
    /\ now \in 0 .. MaxTime
    /\ overlapped \subseteq Tokens /\ purged \subseteq Tokens /\ spared \subseteq Tokens
    /\ escaping \subseteq Calls /\ loggedOut \subseteq Tokens

Init ==
    /\ row = [t \in Tokens |-> "absent"]
    /\ born = [t \in Tokens |-> 0]
    /\ parent = [t \in Tokens |-> 0]
    /\ until = [t \in Tokens |-> 0]
    /\ pc = [c \in Calls |-> "idle"]
    /\ token = [c \in Calls |-> 0]
    /\ now = 0
    /\ overlapped = {} /\ purged = {} /\ escaping = {} /\ spared = {}
    /\ loggedOut = {}

Goto(c, label) == pc' = [pc EXCEPT ![c] = label]

\* A call ends with its answer.  Its locals are forgotten.
End(c) ==
    /\ Goto(c, "idle")
    /\ token' = [token EXCEPT ![c] = 0]
    /\ escaping' = escaping \ {c}

Begin(c, t, label) ==
    /\ pc[c] = "idle"
    /\ Goto(c, label)
    /\ token' = [token EXCEPT ![c] = t]

Logins == {t \in Tokens : row[t] # "absent" /\ parent[t] = 0}

-------------------------------------------------------------------------------

\* The signature and the dates of an access token, with the clock tolerance.
JwtValid(t) == now < born[t] + AccessTTL + Tolerance

\* POST /auth/login, a public endpoint, and POST /auth/refresh.
Login(c) ==
    /\ Cardinality(Logins) < MaxLogins
    /\ Begin(c, 0, "account")
    /\ UNCHANGED <<store, now, history>>

Refresh(c, t) ==
    /\ row[t] # "absent"
    /\ Begin(c, t, "find")
    /\ UNCHANGED <<store, now, history>>

\* POST /auth/logout and any other request pass the guard first.
Guarded(c, t) ==
    /\ row[t] # "absent"
    /\ JwtValid(t)
    /\ Begin(c, t, "exists")
    /\ UNCHANGED <<store, now, history>>

Blacklisted(t) == now < until[t]

\* Behind the guard is the logout, or a handler of no interest here.
Admit(c) ==
    \/ Goto(c, "logout") /\ UNCHANGED <<token, escaping>>
    \/ End(c)

\* The guard's lookup in the blacklist; a Redis that fails lets the call pass.
Exists(c) ==
    /\ pc[c] = "exists"
    /\ \/ Blacklisted(token[c]) /\ End(c)
       \/ Admit(c)
    /\ UNCHANGED <<store, now, overlapped, purged, spared, loggedOut>>

-------------------------------------------------------------------------------
(* Rotation *)

Found(c) == row[token[c]] # "absent" /\ now <= born[token[c]] + RefreshTTL

\* The SELECT by hash, and the branches on what it returns.
FindToken(c) ==
    /\ pc[c] = "find"
    /\ \/ /\ ~ Found(c)
          /\ End(c)
          /\ UNCHANGED overlapped
       \/ /\ Found(c) /\ row[token[c]] = "revoked"
          /\ Goto(c, "purge")
          /\ UNCHANGED <<token, escaping, overlapped>>
       \/ /\ Found(c) /\ row[token[c]] = "live"
          /\ Goto(c, "revoke")
          /\ overlapped' = overlapped \cup
                 {t \in {token[c]} : \E d \in Calls \ {c} : pc[d] = "revoke" /\ token[d] = t}
          /\ UNCHANGED <<token, escaping>>
    /\ UNCHANGED <<store, now, purged, spared, loggedOut>>

\* Reuse: one UPDATE of the rows that are live; the family is whatever the user
\* has.
Purge(c) ==
    /\ pc[c] = "purge"
    /\ row' = [t \in Tokens |-> IF row[t] = "live" THEN "revoked" ELSE row[t]]
    /\ purged' = {t \in Tokens : row[t] # "absent"}
    /\ Goto(c, "idle")
    /\ token' = [token EXCEPT ![c] = 0]
    /\ escaping' = {d \in Calls \ {c} : token[d] # 0 /\ pc[d] \in Rotating}
    /\ UNCHANGED <<born, parent, until, now>>
    /\ UNCHANGED <<overlapped, spared, loggedOut>>

\* Mutant: the token that was exchanged stays as it is.
RevokeNot(c) ==
    /\ pc[c] = "revoke"
    /\ Goto(c, "account")
    /\ UNCHANGED <<store, token, now, history>>

\* The UPDATE by id: it does not look at revoked_at.
Revoke(c) ==
    /\ pc[c] = "revoke"
    /\ row' = [row EXCEPT ![token[c]] = "revoked"]
    /\ Goto(c, "account")
    /\ UNCHANGED <<born, parent, until, token, now, history>>

-------------------------------------------------------------------------------
(* The account and the issue of tokens *)

\* The reads between the check of the token or the password and the new row:
\* user, tenant and the roles that the tenant still has, any of which may have
\* gone, and bcrypt.
CheckAccount(c) ==
    /\ pc[c] = "account"
    /\ \/ Goto(c, "save") /\ UNCHANGED <<token, escaping>>
       \/ End(c)
    /\ UNCHANGED <<store, now, overlapped, purged, spared, loggedOut>>

\* Both tokens are made and the row is saved.  An answer that is lost on its
\* way is one whose tokens nobody presents.
SaveToken(c) ==
    /\ pc[c] = "save"
    /\ \E t \in Tokens :
          /\ row[t] = "absent" /\ \A u \in 1 .. t - 1 : row[u] # "absent"
          /\ row' = [row EXCEPT ![t] = "live"]
          /\ born' = [born EXCEPT ![t] = now]
          /\ parent' = [parent EXCEPT ![t] = token[c]]
          /\ spared' = IF c \in escaping THEN spared \cup {t} ELSE spared
    /\ End(c)
    /\ UNCHANGED <<until, now, overlapped, purged, loggedOut>>

-------------------------------------------------------------------------------
(* Logout *)

\* The SELECT, and the UPDATE of the row if it is live.
RevokeAtLogout(c) ==
    /\ pc[c] = "logout"
    /\ row' = [row EXCEPT ![token[c]] = "revoked"]
    /\ Goto(c, "blacklist")
    /\ UNCHANGED <<born, parent, until, token, now, history>>

\* What is left of the access token's life, which is what the entry lives for.
Remaining(t) == IF now < born[t] + AccessTTL THEN born[t] + AccessTTL - now ELSE 0

\* The SET of the access token's jti, with its expiry; the logout succeeds even
\* if Redis fails.
Ban(c, ttl) ==
    /\ pc[c] = "blacklist"
    /\ \/ /\ until' = [until EXCEPT ![token[c]] = IF ttl > 0 THEN now + ttl ELSE @]
          /\ loggedOut' = loggedOut \cup {token[c]}
       \/ UNCHANGED <<until, loggedOut>>
    /\ End(c)
    /\ UNCHANGED <<row, born, parent, now, overlapped, purged, spared>>

\* Mutant: the entry is gone a tick too early.
BlacklistBriefly(c) == Ban(c, Remaining(token[c]) - 1)

\* The entry lives for what is left of the token's life.
Blacklist(c) == Ban(c, Remaining(token[c]))

-------------------------------------------------------------------------------
(* Environment *)

Tick ==
    /\ now < MaxTime
    /\ now' = now + 1
    /\ UNCHANGED <<store, pc, token, history>>

\* The process ends: the calls are gone, the rows and Redis stay.
Crash ==
    /\ pc' = [c \in Calls |-> "idle"]
    /\ token' = [c \in Calls |-> 0]
    /\ escaping' = {}
    /\ UNCHANGED <<store, now, overlapped, purged, spared, loggedOut>>

Step(c) ==
    \/ Exists(c) \/ FindToken(c) \/ Purge(c) \/ Revoke(c)
    \/ CheckAccount(c) \/ SaveToken(c) \/ RevokeAtLogout(c) \/ Blacklist(c)

Next ==
    \/ \E c \in Calls : Login(c) \/ Step(c)
    \/ \E c \in Calls, t \in Tokens : Refresh(c, t) \/ Guarded(c, t)
    \/ Tick \/ Crash

Spec == Init /\ [][Next]_vars

-------------------------------------------------------------------------------
(* Properties *)

\* A refresh token is exchanged for one pair, whatever is lost and whenever the
\* process ends, unless two rotations found it live at once: the check (L186)
\* and the UPDATE (L202) are apart.
ExchangedOnceUnlessOverlap ==
    \A t \in Tokens \ overlapped : Cardinality({u \in Tokens : parent[u] = t}) <= 1

\* Once reuse is detected no token that was in the table is live, and what was
\* exchanged for one of them is live only if a rotation that was past its check
\* issued it afterwards.
ReuseEndsTheFamily ==
    \A t \in Tokens : row[t] = "live" => t \notin purged /\ (parent[t] \in purged => t \in spared)

\* The rotation of refresh tokens: one exchange for each, and the end of the
\* family on reuse, but for rotations that overlap.
RotationIsSafe == ExchangedOnceUnlessOverlap /\ ReuseEndsTheFamily

\* Redis said that the token is not in the blacklist.
Admitted(c) == pc[c] = "exists" /\ ~ Blacklisted(token[c]) /\ Admit(c)

\* A token whose logout reached Redis passes the guard, with Redis answering,
\* only past its life, in the seconds in which the tolerance still accepts it.
LoggedOutIsRefused ==
    [][\A c \in Calls : Admitted(c) /\ token[c] \in loggedOut
           => now >= born[token[c]] + AccessTTL]_vars

===============================================================================
